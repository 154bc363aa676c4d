------------------------------- MODULE JsonText -------------------------------
(***************************************************************************)
(* What a JSON text means, as a reader of RFC 4627 would say it: a text is a *)
(* sequence of lexemes, and a lexeme is one of                              *)
(*   "[" "]" "{" "}" "," ":"                                                *)
(*   "null" "1"    a literal, and a number that fits an int or a double     *)
(*   a key         a string without escapes                                 *)
(*   "\u"          a string with a \u escape                                *)
(*   "1e999"       a number beyond the range of a double                    *)
(*   "\q"          a string with an escape that there is not                *)
(*   "other"       anything else, the unfinished string included            *)
(* Those before "1e999" mean something.  "1e999" does not, by the deviations *)
(* from the RFC that json_reader.hh:9 lists, and nothing else does; white    *)
(* space and comments have been taken out.                                  *)
(***************************************************************************)
EXTENDS Integers, Sequences, TLC, SequencesExt

CONSTANT Keys

Brackets == {"[", "]", "{", "}"}
Strings == Keys \union {"\\u"}
ScalarLexemes == {"null", "1"} \union Strings
Meaningless == [none |-> TRUE]

\* Containers open after the first k lexemes of s.
OpenAfter(s, k) ==
    FoldLeft(LAMBDA n, l : IF l \in {"[", "{"} THEN n + 1
                           ELSE IF l \in {"]", "}"} THEN n - 1 ELSE n, 0, SubSeq(s, 1, k))

TopCommas(s) == {k \in 1..Len(s) : s[k] = "," /\ OpenAfter(s, k) = 0}

\* What the commas outside of brackets separate.
RECURSIVE Parts(_)
Parts(s) ==
    IF TopCommas(s) = {} THEN <<s>>
    ELSE LET k == CHOOSE k \in TopCommas(s) : \A j \in TopCommas(s) : k <= j
         IN  <<SubSeq(s, 1, k - 1)>> \o Parts(SubSeq(s, k + 1, Len(s)))

\* The elements between two brackets; a comma after the last may be allowed.
Elements(s, trailing) ==
    IF s = <<>> THEN <<>>
    ELSE IF trailing /\ Len(s) > 1 /\ Last(s) = "," THEN Parts(Front(s)) ELSE Parts(s)

RECURSIVE Meaning(_, _)
Meaning(s, trailing) ==
    LET inner == Elements(SubSeq(s, 2, Len(s) - 1), trailing)
        items == [i \in DOMAIN inner |-> Meaning(inner[i], trailing)]
        pair(i) == Len(inner[i]) > 2 /\ inner[i][1] \in Strings /\ inner[i][2] = ":"
        content(i) == Meaning(SubSeq(inner[i], 3, Len(inner[i])), trailing)
        AddPair(d, i) == (inner[i][1] :> content(i)) @@ d
    IN  IF Len(s) = 1 /\ s[1] \in ScalarLexemes THEN [scalar |-> s[1]]
        ELSE IF Len(s) < 2 THEN Meaningless
        ELSE IF s[1] = "[" /\ Last(s) = "]" /\ \A i \in DOMAIN inner : items[i] # Meaningless
        THEN [list |-> items]
        ELSE IF s[1] = "{" /\ Last(s) = "}"
                /\ \A i \in DOMAIN inner : pair(i) /\ content(i) # Meaningless
        THEN [dict |-> FoldLeft(AddPair, <<>>, [i \in DOMAIN inner |-> i])]
        ELSE Meaningless

\* "Root value must be an array or object."
IsDocument(s, trailing) ==
    s # <<>> /\ s[1] \in {"[", "{"} /\ Meaning(s, trailing) # Meaningless

\* The brackets that close what s leaves open, innermost first.
RECURSIVE Closers(_)
Closers(s) ==
    IF s = <<>> THEN <<>>
    ELSE LET l == Last(s)
             rest == Closers(Front(s))
         IN  IF l = "[" THEN <<"]">> \o rest
             ELSE IF l = "{" THEN <<"}">> \o rest
             ELSE IF l \in {"]", "}"} /\ rest # <<>> THEN Tail(rest) ELSE rest

\* s can go on to become a document: with a value, a pair or the rest of one,
\* and the brackets that are missing.
Promising(s, trailing) ==
    \E k \in Keys : \E middle \in {<<>>, <<"1">>, <<":", "1">>, <<k, ":", "1">>} :
        \/ IsDocument(s \o middle \o Closers(s \o middle), trailing)
        \/ s = <<>>
=============================================================================
