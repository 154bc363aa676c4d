------------------------------ MODULE VlogLevels ------------------------------
(***************************************************************************)
(* VlogInfo of src/src/chromium/vlog.cc: the levels that the switch         *)
(* "vmodule" gives to source files, its text split by string_split.cc, and  *)
(* the patterns in it.  A text is a sequence of characters, of which "-inl"  *)
(* stands for four; the digits are "1" and "2".                             *)
(***************************************************************************)
EXTENDS Integers, Sequences, SequencesExt

CONSTANTS Starts,    \* beginnings of the switch
          Letters,   \* characters it goes on with
          MaxLetters,\* bound on those
          Files,     \* source files: directory, module, what follows the module
          Levels     \* values of the switch "v"

ASSUME VlogAssumption == MaxLetters \in Nat /\ Levels \subseteq Nat

VARIABLES
    vmodule,       \* vmodule_switch
    letters,       \* characters added to its beginning
    max_level      \* -*min_log_level_

vlogVars == <<vmodule, letters, max_level>>

Slashes == {"/", "\\"}

----------------------------------------------------------------------------
(* string_util.cc, string_split.cc                                          *)

From(s, k) == SubSeq(s, k, Len(s))

TrimWhitespace(s) ==
    LET first == SelectInSeq(s, LAMBDA c : c # " ")
        last == SelectLastInSeq(s, LAMBDA c : c # " ")
    IN  IF first = 0 THEN <<>> ELSE SubSeq(s, first, last)

\* One part more than there are separators, the empty ones included.
RECURSIVE SplitString(_, _)
SplitString(s, separator) ==
    LET k == SelectInSeq(s, LAMBDA c : c = separator)
    IN  IF k = 0 THEN <<TrimWhitespace(s)>>
        ELSE <<TrimWhitespace(SubSeq(s, 1, k - 1))>> \o SplitString(From(s, k + 1), separator)

\* Without a delimiter there is no key either; further delimiters are skipped.
SplitStringIntoKeyValues(pair) ==
    LET k == SelectInSeq(pair, LAMBDA c : c = "=")
        remains == From(pair, k)
        begin == SelectInSeq(remains, LAMBDA c : c # "=")
    IN  [key |-> IF k = 0 THEN <<>> ELSE SubSeq(pair, 1, k - 1),
         value |-> IF k = 0 \/ begin = 0 THEN <<>> ELSE From(remains, begin)]

\* A pair that could not be split is kept, with an empty value.
SplitStringIntoKeyValuePairs(s) ==
    LET pairs == SelectSeq(SplitString(s, ","), LAMBDA pair : pair # <<>>)
    IN  [i \in DOMAIN pairs |-> SplitStringIntoKeyValues(pairs[i])]

----------------------------------------------------------------------------
(* vlog.cc                                                                  *)

DigitOf(c) == IF c = "1" THEN 1 ELSE 2

\* The number at the beginning of a text, behind blanks, or 0.
Atoi(s) ==
    LET text == From(s, 1 + Len(s) - Len(TrimWhitespace(s \o <<".">>)) + 1)
        stop == SelectInSeq(text, LAMBDA c : c \notin {"1", "2"})
        digits == IF stop = 0 THEN text ELSE SubSeq(text, 1, stop - 1)
    IN  FoldLeft(LAMBDA n, c : 10 * n + DigitOf(c), 0, digits)

\* VmodulePattern: with a slash in it, it is about the whole path.
VmodulePattern(kv) ==
    [pattern |-> kv.key, vlog_level |-> Atoi(kv.value),
     match_target |-> IF \E i \in DOMAIN kv.key : kv.key[i] \in Slashes THEN "file" ELSE "module"]

VmoduleLevels ==
    LET pairs == SplitStringIntoKeyValuePairs(vmodule)
    IN  [i \in DOMAIN pairs |-> VmodulePattern(pairs[i])]

\* The basename, without its extension and then without "-inl".
GetModule(file) ==
    LET base == From(file, SelectLastInSeq(file, LAMBDA c : c \in Slashes) + 1)
        dot == SelectLastInSeq(base, LAMBDA c : c = ".")
        module == IF dot = 0 THEN base ELSE SubSeq(base, 1, dot - 1)
    IN  IF module # <<>> /\ Last(module) = "-inl" THEN Front(module) ELSE module

\* Fault: slashes are not alike.
MatchExactly(c, p) == p = "?" \/ p = c

MatchCharacter(c, p) ==
    IF p \in Slashes THEN c \in Slashes ELSE p = "?" \/ p = c

\* Up to a star one by one; after it, any rest of the string may match the rest.
RECURSIVE MatchVlogPattern(_, _)
MatchVlogPattern(s, p) ==
    LET star == SelectInSeq(p, LAMBDA c : c # "*")
        q == IF star = 0 THEN <<>> ELSE From(p, star)
    IN  IF p # <<>> /\ s # <<>> /\ Head(p) # "*"
        THEN MatchCharacter(Head(s), Head(p)) /\ MatchVlogPattern(Tail(s), Tail(p))
        ELSE IF p = <<>> THEN s = <<>>
        ELSE q = <<>> \/ \E i \in DOMAIN s : MatchVlogPattern(From(s, i), q)

\* The level of the first pattern that matches, or the maximal level.
GetVlogLevel(file) ==
    LET Matches(level) == MatchVlogPattern(
              IF level.match_target = "file" THEN file ELSE GetModule(file), level.pattern)
        first == SelectInSeq(VmoduleLevels, Matches)
    IN  IF first = 0 THEN max_level ELSE VmoduleLevels[first].vlog_level

----------------------------------------------------------------------------

\* SetMaxVlogLevel(): an absent switch "v" is 0.
VlogInit == vmodule \in Starts /\ letters = 0 /\ max_level \in Levels

AddLetter ==
    /\ letters < MaxLetters /\ letters' = letters + 1
    /\ \E c \in Letters : vmodule' = Append(vmodule, c)
    /\ UNCHANGED max_level
VlogSpec == VlogInit /\ [][AddLetter]_vlogVars

----------------------------------------------------------------------------

\* The places of s that each character of p can lead to, from its beginning.
Reached(s, p) ==
    LET Advance(places, c) ==
          IF c = "*" THEN {j \in 0..Len(s) : \E i \in places : i <= j}
          ELSE {j \in 1..Len(s) : j - 1 \in places /\ (c = "?" \/ c = s[j] \/ {c, s[j]} \subseteq Slashes)}
    IN  FoldLeft(Advance, {0}, p)

\* The beginnings of the entries of the switch: behind a comma, or the first.
Entries == {k \in 1..Len(vmodule) : vmodule[k] # "," /\ (k = 1 \/ vmodule[k - 1] = ",")}
EndOf(k) == CHOOSE e \in k..Len(vmodule) :
    /\ e = Len(vmodule) \/ vmodule[e + 1] = ","
    /\ \A j \in k..e : vmodule[j] # ","

\* The places of an entry behind its first "=" and those that follow it, and
\* what a number that begins there, behind blanks, is made of.
Behind(entry) == {i \in DOMAIN entry : \E e, j \in 1..i : e < j /\ entry[e] = "=" /\ entry[j] # "="}
Numeral(entry) == {i \in Behind(entry) :
    /\ entry[i] \in {"1", "2"}
    /\ \A j \in Behind(entry) : j < i /\ entry[j] \notin {"1", "2"} =>
         \A k \in Behind(entry) : k <= j => entry[k] = " "}
LevelOf(entry) ==
    LET Weight(i) == (IF entry[i] = "1" THEN 1 ELSE 2) * 10 ^ Cardinality({j \in Numeral(entry) : j > i})
    IN  MapThenSumSet(Weight, Numeral(entry))

\* "? matches exactly one character while * matches 0 or more characters.  Also,
\* as a special case, a / or \ character matches either / or \" (vlog.hh:63),
\* and the first entry of the switch that is about a file decides: the one
\* whose pattern leads through the whole module name, or with a slash through
\* the whole path.  Its level is the number that begins behind its first
\* delimiters, or 0.  Backtracking over stars, empty entries, entries without a
\* level and superfluous delimiters do not change that.
FirstPatternDecides ==
    \A f \in Files :
      LET path == f.dir \o f.base \o f.rest
          Entry(k) == TrimWhitespace(SubSeq(vmodule, k, EndOf(k)))
          Pattern(k) == LET eq == SelectInSeq(Entry(k), LAMBDA c : c = "=")
                        IN  IF eq = 0 THEN <<>> ELSE SubSeq(Entry(k), 1, eq - 1)
          Target(k) == IF Slashes \intersect ToSet(Pattern(k)) # {} THEN path ELSE f.base
          About == {k \in Entries : Entry(k) # <<>> /\ Len(Target(k)) \in Reached(Target(k), Pattern(k))}
      IN  GetVlogLevel(path) =
            IF About = {} THEN max_level ELSE LevelOf(Entry(CHOOSE k \in About : \A j \in About : k <= j))
=============================================================================
