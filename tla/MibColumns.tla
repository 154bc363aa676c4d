------------------------------ MODULE MibColumns ------------------------------
(***************************************************************************)
(* The columns of one SNMP table: from the declarations of the JSON         *)
(* configuration (src/src/adh_agent.cc) through objects_ and the            *)
(* registration (src/src/snmp_table.cc) to variables_ of a row and the      *)
(* variable that handler() reads for a column number.                       *)
(*                                                                          *)
(* A declaration is known by its position in the configuration; 0 is a null *)
(* shared_ptr, the content of a gap in objects_.                            *)
(***************************************************************************)
EXTENDS Integers, Sequences

CONSTANTS Types,      \* ASN.1 types
          Configs,    \* configurations of the table: sequences of declarations
          MaxRequests \* bound on the requests of one packet

Declarations == [oid : Nat \ {0}, index : BOOLEAN, type : Types]

ASSUME ConfigsAssumption == Configs \subseteq Seq(Declarations)
ASSUME MaxRequestsAssumption == MaxRequests \in Nat

VARIABLES
    config,    \* the table's "objects" list
    phase,     \* what the agent is doing with this table
    next,      \* the declaration createSnmpTable() reads next
    objects,   \* objects_
    indexes,   \* types of the indexes registered with Net-SNMP, in order
    maxColumn, \* table_info->max_column
    pos,       \* addRow(): objects_ the new row has been through
    variables, \* variables_ of the row
    batch,     \* the requests of a packet: a column, and is there a row?
    answers    \* what handler() has set in the requests so far

tableVars == <<config, objects, indexes, maxColumn>>
vars == <<tableVars, phase, next, pos, variables, batch, answers>>

NoSuchInstance == 0
NoSuchObject   == -1

Requests == [col : 1..maxColumn, row : BOOLEAN]
Phases == {"create", "register", "failed", "row", "serve", "handle", "undefined"}

TypeOK ==
    /\ config \in Configs
    /\ phase \in Phases
    /\ next \in 1..(Len(config) + 1)
    /\ objects \in Seq(0..Len(config))
    /\ maxColumn \in Nat
    /\ pos \in 0..Len(objects)
    /\ variables \in Seq(1..Len(config))
    /\ batch \in Seq(Requests)
    /\ answers \in Seq(-1..Len(config))
    /\ Len(answers) <= Len(batch)

Init ==
    /\ config \in Configs
    /\ phase = "create"
    /\ next = 1
    /\ objects = <<>>
    /\ indexes = <<>>
    /\ maxColumn = 0
    /\ pos = 0
    /\ variables = <<>>
    /\ batch = <<>>
    /\ answers = <<>>

----------------------------------------------------------------------------
(* init_MIB(): create the table's objects, then register it.                *)

\* objects_.resize (size) when it is shorter
Resize(s, size) ==
    [k \in 1..(IF Len(s) < size THEN size ELSE Len(s)) |->
        IF k <= Len(s) THEN s[k] ELSE 0]

\* Fault: columns in the order of their declarations.
AppendObject == objects' = Append(objects, next)
\* addObject(): the declaration's oid is its column; a later one replaces an
\* earlier one, and nothing requires the columns in between.
PlaceObject ==
    objects' = [Resize(objects, config[next].oid) EXCEPT ![config[next].oid] = next]

CreateSnmpObject ==
    /\ phase = "create"
    /\ next <= Len(config)
    /\ PlaceObject
    /\ next' = next + 1
    /\ UNCHANGED <<config, phase, indexes, maxColumn, pos, variables, batch, answers>>

CreateSnmpTable ==
    /\ phase = "create"
    /\ next > Len(config)
    /\ phase' = "register"
    /\ UNCHANGED <<tableVars, next, pos, variables, batch, answers>>

\* The types of those objects of s that are in which, in the order of s: the
\* loop, from one object to the next, and what it ends with.
TypesUpTo(list, s, which) ==
    LET types[k \in 0..Len(s)] ==
          IF k = 0 THEN <<>>
          ELSE IF s[k] \in which THEN Append(types[k - 1], list[s[k]].type) ELSE types[k - 1]
    IN  types
TypesIn(list, s, which) == TypesUpTo(list, s, which)[Len(s)]

IndexObjects == {n \in 1..Len(config) : config[n].index}

\* Fault: every column is registered as an index.
AddAllIndexes == indexes' = TypesIn(config, objects, 1..Len(config)) /\ maxColumn' = Len(objects)
AddIndexes == indexes' = TypesIn(config, objects, IndexObjects) /\ maxColumn' = Len(objects)

\* registerSnmpTable(), which Net-SNMP may refuse
RegisterSnmpTable ==
    /\ phase = "register"
    /\ AddIndexes
    /\ phase' = "row"
    /\ UNCHANGED <<config, next, objects, pos, variables, batch, answers>>

RegisterFails ==
    /\ phase = "register"
    /\ phase' = "failed"
    /\ UNCHANGED <<tableVars, next, pos, variables, batch, answers>>

----------------------------------------------------------------------------
(* addRow(): one variable per object, none for a gap.                       *)

\* Fault: a gap gets a variable too.
AddVariableAlways ==
    /\ phase = "row"
    /\ pos < Len(objects)
    /\ pos' = pos + 1
    /\ variables' = Append(variables, objects[pos + 1])
    /\ UNCHANGED <<tableVars, phase, next, batch, answers>>

AddVariable ==
    /\ phase = "row"
    /\ pos < Len(objects)
    /\ pos' = pos + 1
    /\ variables' = IF objects[pos + 1] = 0 THEN variables
                                            ELSE Append(variables, objects[pos + 1])
    /\ UNCHANGED <<tableVars, phase, next, batch, answers>>

RowAdded ==
    /\ phase = "row"
    /\ pos = Len(objects)
    /\ phase' = "serve"
    /\ UNCHANGED <<tableVars, next, pos, variables, batch, answers>>

----------------------------------------------------------------------------
(* handler() in MODE_GET: the loop over the requests of a packet.  Net-SNMP *)
(* has checked their columns against min_column and max_column, and picked  *)
(* the row, if there is one.                                                *)

Request ==
    /\ phase = "serve"
    /\ \E n \in 1..MaxRequests : batch' \in [1..n -> Requests]
    /\ answers' = <<>>
    /\ phase' = "handle"
    /\ UNCHANGED <<tableVars, next, pos, variables>>

Current == batch[Len(answers) + 1]
HasCurrent == phase = "handle" /\ Len(answers) < Len(batch)

\* Fault: a request without a row ends the loop.
HandleNoRowBreaks ==
    /\ HasCurrent /\ ~Current.row
    /\ answers' = Append(answers, NoSuchInstance)
    /\ phase' = "serve"
    /\ UNCHANGED <<tableVars, next, pos, variables, batch>>

HandleNoRow ==
    /\ HasCurrent /\ ~Current.row
    /\ answers' = Append(answers, NoSuchInstance)
    /\ UNCHANGED <<tableVars, phase, next, pos, variables, batch>>

HandleColumn ==
    /\ HasCurrent /\ Current.row
    /\ Current.col <= Len(variables)
    /\ answers' = Append(answers, variables[Current.col])
    /\ UNCHANGED <<tableVars, phase, next, pos, variables, batch>>

\* Beyond the end of variables_: what is there may look like a null pointer,
\* which ends the loop, or like anything.
HandleBeyond ==
    /\ HasCurrent /\ Current.row
    /\ Current.col > Len(variables)
    /\ \/ answers' = Append(answers, NoSuchObject) /\ phase' = "serve"
       \/ phase' = "undefined" /\ UNCHANGED answers
    /\ UNCHANGED <<tableVars, next, pos, variables, batch>>

Handled ==
    /\ phase = "handle" /\ Len(answers) = Len(batch)
    /\ phase' = "serve"
    /\ UNCHANGED <<tableVars, next, pos, variables, batch, answers>>

Stopped == phase \in {"failed", "undefined"} /\ UNCHANGED vars

\* A table without columns gets no request.
NoColumns == phase = "serve" /\ maxColumn = 0 /\ UNCHANGED vars

Next ==
    \/ CreateSnmpObject \/ CreateSnmpTable
    \/ RegisterSnmpTable \/ RegisterFails
    \/ AddVariable \/ RowAdded
    \/ Request \/ HandleNoRow \/ HandleColumn \/ HandleBeyond \/ Handled
    \/ Stopped \/ NoColumns

Spec == Init /\ [][Next]_vars

----------------------------------------------------------------------------
(* Properties *)

\* The oids of the declarations leave no column out.
Gapless(c) ==
    \A i \in 1..Len(c) : \A k \in 1..c[i].oid : \E j \in 1..Len(c) : c[j].oid = k

\* a is the last declaration of column k.
Declares(a, k) ==
    /\ a \in 1..Len(config) /\ config[a].oid = k
    /\ \A j \in 1..Len(config) : config[j].oid = k => j <= a

Answered(i) ==
    IF batch[i].row THEN Declares(answers[i], batch[i].col)
                    ELSE answers[i] = NoSuchInstance

\* A column number reads the variable that was declared with that oid, in
\* whatever order the columns were declared and however often, provided they
\* leave no gap: handler() indexes variables_, not objects_.
AnswersOwnColumn == Gapless(config) => \A i \in 1..Len(answers) : Answered(i)

\* One request of a packet does not keep the others from being answered.
EveryRequestAnswered ==
    Gapless(config) /\ phase = "serve" => Len(answers) = Len(batch)

\* setIndexedValues() writes as many index values, of the same types and in
\* the same order, as addIndexes() has registered; the list it writes them to
\* is as long as the registration made it.
IndexesFit ==
    /\ indexes \in Seq(Types)
    /\ phase \in {"serve", "handle"} => TypesIn(config, variables, IndexObjects) = indexes
=============================================================================
