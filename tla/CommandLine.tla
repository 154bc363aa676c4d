------------------------------ MODULE CommandLine ------------------------------
(***************************************************************************)
(* CommandLine of src/src/chromium/command_line.cc: argv_, in which the      *)
(* switches come before the arguments, the map of the switches, and the     *)
(* divider begin_args_.  An argument is known by its switch prefix, its     *)
(* name and the value behind "=", each as it is once white space is trimmed, *)
(* and by the white space that is around it; "--" alone ends the switches.  *)
(***************************************************************************)
EXTENDS Integers, Sequences, FiniteSets, SequencesExt

CONSTANTS SwitchNames, SwitchValues,  \* names; values, NoText included
          Argvs,      \* argument lists given to the process
          Wrappers,   \* wrappers, each as the words that SplitString() finds in it
          MaxEdits    \* bound on the changes of a command line

NoText == ""
SwitchPrefixes == {NoText, "-", "--"}
Blanks == {NoText, " "}
Args == [prefix : SwitchPrefixes, name : SwitchNames \union {NoText}, value : SwitchValues, blank : Blanks]
Argument(prefix, name, val) == [prefix |-> prefix, name |-> name, value |-> val, blank |-> NoText]
Terminator == Argument("--", NoText, NoText)
Program == Argument(NoText, NoText, NoText)   \* argv_(1): an empty program name

ASSUME CommandLineAssumption ==
    /\ NoText \in SwitchValues /\ MaxEdits \in Nat
    /\ IsFiniteSet(SwitchNames) /\ NoText \notin SwitchNames   \* switches that are appended have a name
    /\ \A v \in Argvs : v # <<>> /\ v \in Seq(Args)
    /\ Wrappers \subseteq Seq(Args)

VARIABLES
    line,   \* the command line that is edited: argv, switches, begin_args
    edits,  \* changes so far
    raw,    \* arguments appended by AppendArg() so far
    wrapped \* words that wrappers put before the program so far (history)

commandVars == <<line, edits, raw, wrapped>>

NewLine == [argv |-> <<Program>>, switches |-> <<>>, begin_args |-> 1]

Trimmed(arg) == [arg EXCEPT !.blank = NoText]

\* Once it is trimmed; the text behind "=", with the white space at its end.
IsSwitch(arg) == arg.prefix # NoText
ValueOf(arg) == [value |-> arg.value, blank |-> arg.blank]

\* switches_[name] = value
Valued(switches, arg) ==
    [name \in DOMAIN switches \union {arg.name} |->
        IF name = arg.name THEN ValueOf(arg) ELSE switches[name]]

\* The switch goes to the divider, which moves past it; "--" if it has no prefix.
AppendSwitchNative(c, arg) ==
    [argv |-> InsertAt(c.argv, c.begin_args + 1, [arg EXCEPT !.prefix = IF @ = NoText THEN "--" ELSE @]),
     switches |-> Valued(c.switches, arg),
     begin_args |-> c.begin_args + 1]

AppendArgNative(c, arg) == [c EXCEPT !.argv = Append(@, arg)]

\* A turn of the loop; a terminator ends the switches.
Take(t, text) ==
    LET arg == Trimmed(text)
        parse == t.parse /\ arg # Terminator
    IN  [parse |-> parse,
         line |-> IF parse /\ IsSwitch(arg) THEN AppendSwitchNative(t.line, arg)
                  ELSE AppendArgNative(t.line, arg)]

\* After k turns, from the second argument on: the first is a program.
TakenUpTo(c, argv) ==
    LET taken[k \in 0..(Len(argv) - 1)] ==
          IF k = 0 THEN [parse |-> TRUE, line |-> c] ELSE Take(taken[k - 1], argv[k + 1])
    IN  taken
AppendSwitchesAndArguments(c, argv) == TakenUpTo(c, argv)[Len(argv) - 1].line

\* argv_ and the divider start anew, the map of the switches does not.
InitFromArgv(c, argv) ==
    AppendSwitchesAndArguments([argv |-> <<Program>>, switches |-> c.switches, begin_args |-> 1], argv)

\* Without the first terminator.
GetArgs(c) ==
    LET args == SubSeq(c.argv, c.begin_args + 1, Len(c.argv))
    IN  RemoveFirst(args, Terminator)

HasSwitch(c, name) == name \in DOMAIN c.switches
GetSwitchValueNative(c, name) ==
    IF HasSwitch(c, name) THEN c.switches[name] ELSE ValueOf(Program)

\* A switch without a prefix, and its value.
Switch(name, val) == [prefix |-> NoText, name |-> name, value |-> val.value, blank |-> val.blank]

\* CopySwitchesFrom(source, names)
Copy(c, source, name) ==
    IF ~HasSwitch(source, name) THEN c
    ELSE AppendSwitchNative(c, Switch(name, GetSwitchValueNative(source, name)))

CopiedUpTo(c, source, names) ==
    LET copied[k \in 0..Len(names)] ==
          IF k = 0 THEN c ELSE Copy(copied[k - 1], source, names[k])
    IN  copied
CopySwitches(c, source, names) == CopiedUpTo(c, source, names)[Len(names)]

\* Fault: as if a wrapper were one word.
WrappedByOne(c, words) ==
    [argv |-> words \o c.argv, switches |-> c.switches, begin_args |-> c.begin_args + 1]

\* Every word goes in front and the divider moves on; an empty wrapper has none.
Wrapped(c, words) ==
    [argv |-> words \o c.argv, switches |-> c.switches, begin_args |-> c.begin_args + Len(words)]

----------------------------------------------------------------------------

CommandInit ==
    /\ line \in {InitFromArgv(NewLine, v) : v \in Argvs}
    /\ edits = 0 /\ raw = <<>> /\ wrapped = 0

Edit(c) == edits < MaxEdits /\ edits' = edits + 1 /\ line' = c

AppendSwitch == \E p \in SwitchPrefixes, n \in SwitchNames, v \in SwitchValues, b \in Blanks :
    /\ Edit(AppendSwitchNative(line, [Argument(p, n, v) EXCEPT !.blank = b]))
    /\ UNCHANGED <<raw, wrapped>>

AppendArg == \E p \in {NoText, "--"}, n \in SwitchNames \union {NoText}, b \in Blanks :
    LET arg == [Argument(p, n, NoText) EXCEPT !.blank = b]
    IN  Edit(AppendArgNative(line, arg)) /\ raw' = Append(raw, arg) /\ UNCHANGED wrapped

CopySwitchesFrom == \E v \in Argvs :
    /\ Edit(CopySwitches(line, InitFromArgv(NewLine, v), SetToSeq(SwitchNames)))
    /\ UNCHANGED <<raw, wrapped>>

AppendArguments == \E v \in Argvs :
    Edit(AppendSwitchesAndArguments(line, v)) /\ UNCHANGED <<raw, wrapped>>

PrependWrapper == \E words \in Wrappers :
    /\ Edit(Wrapped(line, words))
    /\ wrapped' = wrapped + Len(words) /\ UNCHANGED raw

CommandNext == AppendSwitch \/ AppendArg \/ CopySwitchesFrom \/ AppendArguments \/ PrependWrapper
CommandSpec == CommandInit /\ [][CommandNext]_commandVars

----------------------------------------------------------------------------

\* argv_ is "{ program, [(--|-|/)switch[=value]]*, [--], [argument]* }"
\* (command_line.hh:129) behind the words that wrappers put before it, whatever
\* was appended, copied and wrapped in whatever order: from the program to the
\* divider there are switches only, and the map says what the last of each name
\* says.  A process that is started with what stands from the program on reads
\* the same switches and arguments, but for white space around them, unless
\* AppendArg() was given a switch for an argument.
ArgvReadsBack ==
    LET last(name) == SelectLastInSubSeq(line.argv, wrapped + 2, line.begin_args,
                        LAMBDA arg : arg.name = name)
        child == InitFromArgv(NewLine, SubSeq(line.argv, wrapped + 1, Len(line.argv)))
        args == GetArgs(line)
    IN  /\ wrapped < line.begin_args /\ line.begin_args <= Len(line.argv)
        /\ \A i \in (wrapped + 2)..line.begin_args : IsSwitch(line.argv[i])
        /\ \A name \in DOMAIN line.switches :
             last(name) # 0 /\ ValueOf(line.argv[last(name)]) = line.switches[name]
        /\ (\A i \in DOMAIN raw : raw[i].prefix = NoText) =>
             /\ child.switches = [name \in DOMAIN line.switches |-> Trimmed(line.switches[name])]
             /\ GetArgs(child) = [i \in DOMAIN args |-> Trimmed(args[i])]
=============================================================================
