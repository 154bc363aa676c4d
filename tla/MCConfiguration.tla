--------------------------- MODULE MCConfiguration ---------------------------
(* What the process is configured from: the command line and the levels of   *)
(* verbose logging in it, the JSON text, the values it is read into, the     *)
(* numbers in it, and the columns it declares.  The parts share nothing, so  *)
(* a behaviour runs one of them while the others rest.                       *)
EXTENDS MibColumns, Values, JsonReader, StringNumbers, CommandLine, VlogLevels

CONSTANTS octets, integer

VARIABLE part

columnsVars == vars
allVars == <<part, columnsVars, valueVars, jsonVars, stringVars, commandVars, vlogVars>>
PartNames == {"columns", "values", "json", "numbers", "command", "vlog"}

(* Every order, repetition and choice of columns 1 to 3, gaps included.      *)
Decl(oid, index, type) == [oid |-> oid, index |-> index, type |-> type]
SmallDecls == {Decl(o, TRUE, t) : o \in 1..3, t \in Types}
              \union {Decl(o, FALSE, octets) : o \in 1..3}
SmallConfigs == UNION {[1..n -> SmallDecls] : n \in 0..3}

(* A leaf that reads as two types and one that does not; a nested path.      *)
SmallLeaves == {<<"integer", 1>>, <<"double", 1>>}
SmallPaths == {<<"a">>, <<"b">>, <<"a", "b">>}

(* Switches with either prefix, "--", "-", a plain word and " --w", in any   *)
(* order; wrappers like "", "v", "w --v" and " v".                          *)
SmallArguments == {Argument("-", "v", "1"), Terminator, Argument(NoText, "v", NoText),
                   Argument("-", NoText, NoText), [Argument("--", "w", NoText) EXCEPT !.blank = " "]}
SmallWrappers == {<<>>, <<Argument(NoText, "v", NoText)>>, <<Program, Argument(NoText, "v", NoText)>>,
                  <<Argument(NoText, "w", NoText), Argument("--", "v", NoText)>>}
SmallArgvs == {<<Program>> \o s : s \in UNION {[1..n -> SmallArguments] : n \in 0..2}}

(* No entry, a whole one that may match, the beginnings of a path pattern,   *)
(* of one with two stars and of one that is short of a level.               *)
SmallStarts == {<<>>, <<"*", "a", "=", "2", ",">>, <<"?", "/">>, <<"*", "a", "*">>, <<"*", "=">>}
Bases == {<<"a">>, <<"a", "b">>, <<"a", ".", "a">>}
SmallFiles == [dir : {<<>>, <<"/">>, <<"b", "\\">>}, base : Bases, rest : {<<".", "b">>}]
              \union [dir : {<<>>}, base : Bases, rest : {<<"-inl", ".", "b">>}]

ConfigurationInit ==
    /\ part \in PartNames
    /\ IF part = "columns" THEN Init ELSE config = <<>> /\ Init
    /\ IF part = "values" THEN ValuesInit ELSE heap = (1 :> DictNode) /\ ValuesInit
    /\ IF part = "json" THEN JsonInit ELSE allow = FALSE /\ JsonInit
    /\ IF part = "numbers" THEN StringInit
       ELSE input = [kind |-> "StringToInt", chars |-> <<>>] /\ StringInit
    /\ IF part = "command" THEN CommandInit ELSE line = NewLine /\ edits = 0 /\ raw = <<>> /\ wrapped = 0
    /\ IF part = "vlog" THEN VlogInit ELSE vmodule = <<>> /\ VlogInit

Only(p, theirs) == part = p /\ UNCHANGED theirs /\ UNCHANGED part

(* A text is read, or a bound reached.                                       *)
Rest ==
    /\ \/ part = "values" /\ made = MaxCalls
       \/ part = "json" /\ reading \in Ended
       \/ part = "numbers" /\ Len(input.chars) = MaxChars
       \/ part = "command" /\ edits = MaxEdits
       \/ part = "vlog" /\ letters = MaxLetters
    /\ UNCHANGED allVars

ConfigurationNext ==
    \/ Only("columns", <<valueVars, jsonVars, stringVars, commandVars, vlogVars>>) /\ Next
    \/ Only("values", <<columnsVars, jsonVars, stringVars, commandVars, vlogVars>>) /\ ValuesNext
    \/ Only("json", <<columnsVars, valueVars, stringVars, commandVars, vlogVars>>) /\ JsonNext
    \/ Only("numbers", <<columnsVars, valueVars, jsonVars, commandVars, vlogVars>>) /\ Extend
    \/ Only("command", <<columnsVars, valueVars, jsonVars, stringVars, vlogVars>>) /\ CommandNext
    \/ Only("vlog", <<columnsVars, valueVars, jsonVars, stringVars, commandVars>>) /\ AddLetter
    \/ Rest

ConfigurationSpec == ConfigurationInit /\ [][ConfigurationNext]_allVars
=============================================================================
