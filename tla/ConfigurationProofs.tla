-------------------------- MODULE ConfigurationProofs --------------------------
(***************************************************************************)
(* What the process is configured with.                                     *)
(*                                                                          *)
(* The columns of the MIB: what a column number reads, and which values     *)
(* index a row, for every set of configurations and packets of any size.    *)
(*                                                                          *)
(* The command line: a process that is started with argv_ reads back what   *)
(* was edited, for every list of arguments, every wrapper and every          *)
(* sequence of edits.  What carries it is the order in argv_, from the       *)
(* program on switches and then arguments (Layout), that the map has the    *)
(* value of the last switch of each name (MapAgrees), and that no switch is *)
(* behind the divider unless "--" is before it (Behind).                    *)
(*                                                                          *)
(* Numbers: what the text of one is converted to, for every text, width and *)
(* type.  After each digit the output is the number so far or the bound it  *)
(* is beyond (Reading); the bound on a digit is the one on the number.      *)
(***************************************************************************)
EXTENDS MibColumns, CommandLine, StringNumbers, LoopTheorems, SequenceTheorems, FiniteSetTheorems

\* An entry of objects_ is the last declaration so far of its column.
Placed ==
    \A k \in 1..Len(objects) : objects[k] # 0 =>
        /\ objects[k] < next /\ config[objects[k]].oid = k
        /\ \A j \in 1..(next - 1) : config[j].oid = k => j <= objects[k]

\* Every declaration so far has its column, and the last column has one.
Covered ==
    /\ \A j \in 1..(next - 1) :
          config[j].oid <= Len(objects) /\ objects[config[j].oid] # 0
    /\ Len(objects) > 0 => \E j \in 1..(next - 1) : config[j].oid = Len(objects)

\* What is finished in each phase.
Progress ==
    /\ phase # "create" => next = Len(config) + 1
    /\ phase \in {"create", "register", "failed"} => pos = 0 /\ variables = <<>>
    /\ phase \in {"create", "register", "failed", "row"} => batch = <<>> /\ answers = <<>>
    /\ phase \in {"row", "serve", "handle", "undefined"} => maxColumn = Len(objects)
    /\ phase \in {"serve", "handle", "undefined"} => pos = Len(objects)

\* Without a gap the variables of a row are the objects of the table.
Filled ==
    Gapless(config) /\ phase \in {"row", "serve", "handle", "undefined"} =>
        Len(variables) = pos /\ \A k \in 1..pos : variables[k] = objects[k]

ColumnsInv ==
    TypeOK /\ Placed /\ Covered /\ Progress /\ Filled
    /\ AnswersOwnColumn /\ EveryRequestAnswered

\* What TypeOK and the assumption on Configs say of a declaration.
LEMMA DeclarationType ==
  ASSUME TypeOK, NEW i \in 1..Len(config)
  PROVE  config \in Seq(Declarations) /\ config[i].oid \in Nat \ {0} 
  <1>1. config \in Seq(Declarations)
    BY ConfigsAssumption DEF TypeOK
  <1>2. config[i] \in Declarations
    BY <1>1
  <1> QED BY <1>1, <1>2 DEF Declarations

\* resize() keeps what was there and fills up with null pointers.
LEMMA ResizeFacts ==
  ASSUME NEW S, 0 \in S, NEW s \in Seq(S), NEW size \in Nat
  PROVE  /\ Resize(s, size) \in Seq(S)
         /\ Len(Resize(s, size)) = IF Len(s) < size THEN size ELSE Len(s)
         /\ \A k \in 1..Len(Resize(s, size)) :
               Resize(s, size)[k] = IF k <= Len(s) THEN s[k] ELSE 0
  <1> DEFINE n == IF Len(s) < size THEN size ELSE Len(s)
  <1>1. n \in Nat
    OBVIOUS
  <1>2. Resize(s, size) = [k \in 1..n |-> IF k <= Len(s) THEN s[k] ELSE 0]
    BY DEF Resize
  <1> HIDE DEF n
  <1>3. \A k \in 1..n : (IF k <= Len(s) THEN s[k] ELSE 0) \in S
    BY <1>1
  <1>4. Resize(s, size) \in Seq(S) /\ Len(Resize(s, size)) = n
    BY <1>1, <1>2, <1>3
  <1> QED BY <1>2, <1>4 DEF n

\* Append() keeps the type of a sequence.
LEMMA AppendType ==
  ASSUME NEW S, NEW s \in Seq(S), NEW e \in S
  PROVE  Append(s, e) \in Seq(S) /\ Len(Append(s, e)) = Len(s) + 1
  OBVIOUS

\* What handler() may leave in a request.
LEMMA AnswerType ==
  ASSUME NEW n \in Nat
  PROVE  NoSuchObject \in -1..n /\ NoSuchInstance \in -1..n /\ \A k \in 1..n : k \in -1..n
  BY DEF NoSuchObject, NoSuchInstance

\* The state in which init_MIB() begins.
LEMMA InitColumns == Init => ColumnsInv
  <1> SUFFICES ASSUME Init PROVE ColumnsInv
    OBVIOUS
  <1>1. config \in Seq(Declarations) /\ Len(config) \in Nat
    BY ConfigsAssumption DEF Init
  <1>2. TypeOK
    BY <1>1 DEF Init, TypeOK, Phases
  <1> QED
    BY <1>1, <1>2 DEF Init, ColumnsInv, Placed, Covered, Progress, Filled,
       AnswersOwnColumn, EveryRequestAnswered

\* addObject()
LEMMA CreateInv == ASSUME ColumnsInv, CreateSnmpObject PROVE ColumnsInv'
  <1> USE DEF ColumnsInv, CreateSnmpObject
  <1> DEFINE oid == config[next].oid
             grown == Resize(objects, oid)
  <1>1. /\ next \in 1..Len(config) /\ oid \in Nat \ {0} /\ config \in Seq(Declarations)
        /\ objects \in Seq(0..Len(config)) /\ Len(config) \in Nat
    <2>1. config \in Seq(Declarations) /\ Len(config) \in Nat
      BY ConfigsAssumption DEF TypeOK
    <2>2. next \in 1..Len(config)
      BY <2>1 DEF TypeOK
    <2> QED BY <2>1, <2>2, DeclarationType DEF TypeOK
  <1>2. /\ grown \in Seq(0..Len(config))
        /\ Len(grown) = IF Len(objects) < oid THEN oid ELSE Len(objects)
        /\ \A k \in 1..Len(grown) : grown[k] = IF k <= Len(objects) THEN objects[k] ELSE 0
    BY <1>1, ResizeFacts
  <1>3. objects' = [grown EXCEPT ![oid] = next]
    BY DEF PlaceObject
  <1> HIDE DEF oid, grown
  <1>4. /\ objects' \in Seq(0..Len(config)) /\ Len(objects') = Len(grown)
        /\ oid \in 1..Len(grown) /\ objects'[oid] = next
        /\ \A k \in 1..Len(grown) : k # oid => objects'[k] = grown[k]
    BY <1>1, <1>2, <1>3
  <1>5. pos = 0 /\ variables = <<>> /\ batch = <<>> /\ answers = <<>> /\ phase = "create"
    BY DEF Progress
  <1>6. TypeOK'
    BY <1>1, <1>4, <1>5 DEF TypeOK, Requests
  <1>7. Placed'
    <2> SUFFICES ASSUME NEW k \in 1..Len(objects'), objects'[k] # 0
                 PROVE  /\ objects'[k] < next + 1 /\ config[objects'[k]].oid = k
                        /\ \A j \in 1..next : config[j].oid = k => j <= objects'[k]
      BY <1>1 DEF Placed
    <2>1. CASE k = oid
      BY <1>1, <1>4, <2>1 DEF oid
    <2>2. CASE k # oid
      <3>1. k \in 1..Len(objects) /\ objects'[k] = objects[k]
        BY <1>1, <1>2, <1>4, <2>2
      <3>2. /\ objects[k] < next /\ config[objects[k]].oid = k
            /\ \A j \in 1..(next - 1) : config[j].oid = k => j <= objects[k]
        BY <3>1 DEF Placed
      <3>3. objects[k] \in 0..Len(config)
        BY <1>1, <3>1
      <3> QED BY <1>1, <2>2, <3>1, <3>2, <3>3 DEF oid
    <2> QED BY <2>1, <2>2
  <1>8. Covered'
    <2>1. ASSUME NEW j \in 1..next
          PROVE  config[j].oid <= Len(objects') /\ objects'[config[j].oid] # 0
      <3>1. CASE j = next
        BY <1>1, <1>4, <3>1 DEF oid
      <3>2. CASE j # next
        <4>1. j \in 1..(next - 1) /\ j \in 1..Len(config)
          BY <1>1, <3>2
        <4>2. PICK k \in 1..Len(objects) : k = config[j].oid /\ objects[k] # 0
          <5>1. config[j].oid \in Nat \ {0}
            BY <4>1, DeclarationType
          <5>2. config[j].oid <= Len(objects) /\ objects[config[j].oid] # 0
            BY <4>1 DEF Covered
          <5>3. Len(objects) \in Nat
            BY <1>1
          <5> QED BY ONLY <5>1, <5>2, <5>3
        <4>3. k \in 1..Len(grown) /\ grown[k] # 0
          <5>1. Len(objects) \in Nat /\ k \in Nat /\ oid \in Nat
            BY <1>1
          <5>2. k \in 1..Len(grown)
            BY ONLY <1>2, <4>2, <5>1
          <5>3. grown[k] = IF k <= Len(objects) THEN objects[k] ELSE 0
            BY ONLY <1>2, <5>2
          <5> QED BY ONLY <4>2, <5>1, <5>2, <5>3
        <4>4. objects'[k] # 0
          BY <1>1, <1>4, <4>3
        <4> QED BY <1>4, <4>2, <4>3, <4>4
      <3> QED BY <3>1, <3>2
    <2>2. \E j \in 1..next : config[j].oid = Len(objects')
      <3>1. CASE Len(objects) < oid
        BY <1>1, <1>2, <1>4, <3>1 DEF oid
      <3>2. CASE ~(Len(objects) < oid)
        BY <1>1, <1>2, <1>4, <3>2 DEF Covered
      <3> QED BY <3>1, <3>2
    <2> QED BY <1>1, <2>1, <2>2 DEF Covered
  <1> QED
    BY <1>1, <1>5, <1>6, <1>7, <1>8 DEF Progress, Filled, AnswersOwnColumn, EveryRequestAnswered

\* The end of the declarations, the registration and its failure.
LEMMA RegisterInv ==
  ASSUME ColumnsInv, CreateSnmpTable \/ RegisterSnmpTable \/ RegisterFails PROVE ColumnsInv'
  <1> USE DEF ColumnsInv
  <1>1. CASE CreateSnmpTable \/ RegisterFails
    <2>0. config \in Seq(Declarations)
      BY ConfigsAssumption DEF TypeOK
    <2>1. /\ UNCHANGED <<tableVars, next, pos, variables, batch, answers>>
          /\ phase' \in {"register", "failed"} /\ phase \in {"create", "register"}
          /\ next = Len(config) + 1
      BY <1>1, <2>0 DEF CreateSnmpTable, RegisterFails, Progress, TypeOK
    <2>2. TypeOK'
      BY <2>1 DEF tableVars, TypeOK, Phases, Requests
    <2>3. pos = 0 /\ variables = <<>> /\ batch = <<>> /\ answers = <<>>
      BY <2>1 DEF Progress
    <2> QED BY <2>1, <2>2, <2>3 DEF tableVars, Placed, Covered, Progress, Filled,
               AnswersOwnColumn, EveryRequestAnswered
  <1>2. CASE RegisterSnmpTable
    <2>1. /\ UNCHANGED <<config, next, objects, pos, variables, batch, answers>>
          /\ phase' = "row" /\ maxColumn' = Len(objects) /\ next = Len(config) + 1
          /\ pos = 0 /\ variables = <<>> /\ batch = <<>> /\ answers = <<>>
      BY <1>2 DEF RegisterSnmpTable, AddIndexes, Progress
    <2>2. TypeOK'
      BY <2>1 DEF TypeOK, Phases, Requests
    <2> QED BY <2>1, <2>2 DEF Placed, Covered, Progress, Filled,
               AnswersOwnColumn, EveryRequestAnswered
  <1> QED BY <1>1, <1>2

\* Declarations without a gap leave none in objects_.
LEMMA NoGap ==
  ASSUME ColumnsInv, phase # "create", Gapless(config)
  PROVE  \A k \in 1..Len(objects) : objects[k] # 0 /\ Declares(objects[k], k)
  <1> USE DEF ColumnsInv
  <1>1. /\ config \in Seq(Declarations) /\ Len(config) \in Nat
        /\ next - 1 = Len(config) /\ objects \in Seq(0..Len(config))
    BY ConfigsAssumption DEF TypeOK, Progress
  <1> SUFFICES ASSUME NEW k \in 1..Len(objects)
               PROVE  objects[k] # 0 /\ Declares(objects[k], k)
    OBVIOUS
  <1>2. PICK i \in 1..Len(config) : config[i].oid = Len(objects)
    BY <1>1 DEF Covered
  <1>3. PICK j \in 1..Len(config) : config[j].oid = k
    BY <1>1, <1>2 DEF Gapless
  <1>4. objects[k] # 0
    BY <1>1, <1>3 DEF Covered
  <1>5. objects[k] \in 1..Len(config)
    BY <1>1, <1>4
  <1> QED BY <1>1, <1>4, <1>5 DEF Placed, Declares

\* addRow()
LEMMA RowInv == ASSUME ColumnsInv, AddVariable \/ RowAdded PROVE ColumnsInv'
  <1> USE DEF ColumnsInv
  <1>1. /\ phase = "row" /\ batch = <<>> /\ answers = <<>> /\ batch' = <<>> /\ answers' = <<>>
        /\ maxColumn = Len(objects) /\ next = Len(config) + 1
        /\ UNCHANGED <<config, objects, indexes, maxColumn, next>>
        /\ objects \in Seq(0..Len(config)) /\ variables \in Seq(1..Len(config))
        /\ pos \in 0..Len(objects) /\ next \in 1..(Len(config) + 1)
    BY DEF AddVariable, RowAdded, tableVars, Progress, TypeOK
  <1>2. CASE AddVariable
    <2>1. /\ pos < Len(objects) /\ pos' = pos + 1 /\ phase' = "row"
          /\ variables' = IF objects[pos + 1] = 0 THEN variables
                                                  ELSE Append(variables, objects[pos + 1])
      BY <1>1, <1>2 DEF AddVariable
    <2>2. pos' \in 0..Len(objects) /\ objects[pos + 1] \in 0..Len(config)
      BY <1>1, <2>1
    <2>3. variables' \in Seq(1..Len(config))
      <3>1. CASE objects[pos + 1] = 0
        BY <1>1, <2>1, <3>1
      <3>2. CASE objects[pos + 1] # 0
        <4>1. Len(config) \in Nat
          BY ConfigsAssumption DEF TypeOK
        <4>2. objects[pos + 1] \in 1..Len(config)
          BY <2>2, <3>2, <4>1
        <4>3. Append(variables, objects[pos + 1]) \in Seq(1..Len(config))
          BY <1>1, <4>2, AppendType
        <4> QED BY <2>1, <3>2, <4>3
      <3> QED BY <3>1, <3>2
    <2>4. Filled'
      <3> SUFFICES ASSUME Gapless(config)
                   PROVE  Len(variables') = pos' /\ \A k \in 1..pos' : variables'[k] = objects[k]
        BY <1>1 DEF Filled, Gapless
      <3>1. objects[pos + 1] # 0
        BY <1>1, <2>1, NoGap
      <3>2. Len(variables) = pos /\ \A k \in 1..pos : variables[k] = objects[k]
        BY <1>1 DEF Filled
      <3> QED BY <1>1, <2>1, <3>1, <3>2
    <2>5. TypeOK'
      BY <1>1, <2>1, <2>2, <2>3 DEF TypeOK, Requests
    <2> QED BY <1>1, <2>1, <2>4, <2>5 DEF Placed, Covered, Progress, AnswersOwnColumn,
               EveryRequestAnswered
  <1>3. CASE RowAdded
    <2>1. pos = Len(objects) /\ pos' = pos /\ variables' = variables /\ phase' = "serve"
      BY <1>1, <1>3 DEF RowAdded
    <2>2. TypeOK'
      BY <1>1, <2>1 DEF TypeOK, Requests, Phases
    <2>3. Filled'
      BY <1>1, <2>1 DEF Filled, Gapless
    <2> QED BY <1>1, <2>1, <2>2, <2>3 DEF Placed, Covered, Progress, AnswersOwnColumn,
               EveryRequestAnswered
  <1> QED BY <1>2, <1>3

\* A packet arrives.
LEMMA RequestInv == ASSUME ColumnsInv, Request PROVE ColumnsInv'
  <1> USE DEF ColumnsInv, Request, tableVars
  <1>1. batch' \in Seq(Requests) /\ Len(batch') \in Nat
    BY MaxRequestsAssumption
  <1>2. TypeOK'
    BY <1>1 DEF TypeOK, Phases, Requests
  <1> QED BY <1>2 DEF Placed, Covered, Progress, Filled, Gapless, AnswersOwnColumn,
             EveryRequestAnswered

\* handler() on one request.
LEMMA HandleInv ==
  ASSUME ColumnsInv, HandleNoRow \/ HandleColumn \/ HandleBeyond PROVE ColumnsInv'
  <1> USE DEF ColumnsInv
  <1>1. /\ phase = "handle" /\ Len(answers) < Len(batch)
        /\ UNCHANGED <<config, objects, indexes, maxColumn, next, pos, variables, batch>>
        /\ phase' \in {"handle", "serve", "undefined"}
    BY DEF HandleNoRow, HandleColumn, HandleBeyond, HasCurrent, tableVars
  <1>2. /\ maxColumn = Len(objects) /\ pos = Len(objects) /\ next = Len(config) + 1
        /\ answers \in Seq(-1..Len(config)) /\ batch \in Seq(Requests)
        /\ config \in Seq(Declarations) /\ Len(config) \in Nat
        /\ objects \in Seq(0..Len(config)) /\ variables \in Seq(1..Len(config))
    BY <1>1, ConfigsAssumption DEF Progress, TypeOK
  <1>3. Current \in Requests
    BY <1>1, <1>2 DEF Current
  <1>4. \/ answers' = answers
        \/ \E a \in -1..Len(config) : answers' = Append(answers, a)
    <2>1. CASE HandleNoRow
      BY <1>2, <2>1, AnswerType DEF HandleNoRow
    <2>2. CASE HandleColumn
      <3>1. Current.col \in 1..Len(variables)
        BY <1>2, <1>3, <2>2 DEF HandleColumn, Requests
      <3>2. variables[Current.col] \in 1..Len(config)
        BY ONLY <1>2, <3>1
      <3>3. variables[Current.col] \in -1..Len(config)
        BY ONLY <1>2, <3>2, AnswerType
      <3>4. answers' = Append(answers, variables[Current.col])
        BY <2>2 DEF HandleColumn
      <3> QED BY <3>3, <3>4
    <2>3. CASE HandleBeyond
      <3>1. NoSuchObject \in -1..Len(config)
        BY <1>2, AnswerType
      <3>2. answers' = Append(answers, NoSuchObject) \/ answers' = answers
        BY <2>3 DEF HandleBeyond
      <3> QED BY <3>1, <3>2
    <2> QED BY <2>1, <2>2, <2>3
  <1>5. answers' \in Seq(-1..Len(config)) /\ Len(answers') <= Len(batch)
    <2>1. CASE answers' = answers
      BY <1>1, <1>2, <2>1
    <2>2. ASSUME NEW a \in -1..Len(config), answers' = Append(answers, a)
          PROVE  answers' \in Seq(-1..Len(config)) /\ Len(answers') <= Len(batch)
      <3>1. answers' \in Seq(-1..Len(config)) /\ Len(answers') = Len(answers) + 1
        BY <1>2, <2>2, AppendType
      <3>2. Len(answers) \in Nat /\ Len(batch) \in Nat
        BY <1>2
      <3> QED BY <1>1, <3>1, <3>2
    <2> QED BY <1>4, <2>1, <2>2
  <1>6. TypeOK'
    BY <1>1, <1>5 DEF TypeOK, Phases, Requests
  <1>7. Filled' /\ Placed' /\ Covered' /\ Progress'
    BY <1>1 DEF Filled, Gapless, Placed, Covered, Progress
  <1>8. ASSUME Gapless(config) PROVE phase' = "handle" /\ \A i \in 1..Len(answers') : Answered(i)'
    <2>1. Len(variables) = Len(objects) /\ \A k \in 1..Len(objects) : variables[k] = objects[k]
      BY <1>1, <1>2, <1>8 DEF Filled
    <2>2. Current.col \in 1..Len(objects)
      BY <1>2, <1>3 DEF Requests
    <2>3. \A i \in 1..Len(answers) : Answered(i)
      BY <1>8 DEF AnswersOwnColumn
    <2>4. ~HandleBeyond
      BY <1>2, <2>1, <2>2 DEF HandleBeyond
    <2>5. PICK a \in -1..Len(config) :
            /\ answers' = Append(answers, a)
            /\ IF Current.row THEN Declares(a, Current.col) ELSE a = NoSuchInstance
      <3>1. CASE HandleNoRow
        <4>1. NoSuchInstance \in -1..Len(config)
          BY <1>2, AnswerType
        <4> QED BY <3>1, <4>1 DEF HandleNoRow
      <3>2. CASE HandleColumn
        <4>1. Declares(variables[Current.col], Current.col)
          BY <1>1, <1>8, <2>1, <2>2, NoGap
        <4>2. variables[Current.col] \in 1..Len(config)
          BY <4>1 DEF Declares
        <4>3. variables[Current.col] \in -1..Len(config)
          BY <1>2, <4>2, AnswerType
        <4>4. answers' = Append(answers, variables[Current.col]) /\ Current.row
          BY <3>2 DEF HandleColumn
        <4> QED BY <4>1, <4>3, <4>4
      <3> QED BY <2>4, <3>1, <3>2
    <2>6. ASSUME NEW i \in 1..Len(answers') PROVE Answered(i)'
      <3>1. CASE i = Len(answers) + 1
        <4>1. answers'[i] = a /\ batch'[i] = Current
          BY <1>1, <1>2, <2>5, <3>1 DEF Current
        <4> QED BY <1>1, <2>5, <4>1 DEF Answered, Declares
      <3>2. CASE i # Len(answers) + 1
        <4>1. i \in 1..Len(answers) /\ answers'[i] = answers[i]
          <5>1. answers \in Seq(-1..Len(config)) /\ answers' = Append(answers, a)
            BY <1>2, <2>5
          <5>2. Len(answers') = Len(answers) + 1 /\ \A k \in 1..Len(answers) : answers'[k] = answers[k]
            BY ONLY <5>1, AppendProperties
          <5>3. Len(answers) \in Nat
            BY <1>2
          <5> QED BY ONLY <3>2, <5>2, <5>3
        <4>2. Answered(i)
          BY <2>3, <4>1
        <4>3. batch' = batch /\ config' = config
          BY <1>1
        <4> QED BY ONLY <4>1, <4>2, <4>3 DEF Answered, Declares
      <3> QED BY <3>1, <3>2
    <2> QED BY <1>1, <2>4, <2>6 DEF HandleNoRow, HandleColumn
  <1> QED BY <1>1, <1>6, <1>7, <1>8 DEF AnswersOwnColumn, EveryRequestAnswered, Gapless

\* The end of a packet, and the states in which nothing happens.
LEMMA IdleInv ==
  ASSUME ColumnsInv, Handled \/ Stopped \/ NoColumns \/ UNCHANGED vars PROVE ColumnsInv'
  <1> USE DEF ColumnsInv
  <1>1. CASE Handled
    <2> USE <1>1 DEF Handled, tableVars
    <2>1. TypeOK'
      BY DEF TypeOK, Phases, Requests
    <2>2. Filled' /\ Placed' /\ Covered' /\ Progress'
      BY DEF Filled, Gapless, Placed, Covered, Progress
    <2> QED BY <2>1, <2>2 DEF AnswersOwnColumn, EveryRequestAnswered, Gapless, Answered, Declares
  <1>2. CASE UNCHANGED vars
    BY <1>2 DEF vars, tableVars, TypeOK, Requests, Placed, Covered, Progress, Filled, Gapless,
       AnswersOwnColumn, EveryRequestAnswered, Answered, Declares
  <1> QED BY <1>1, <1>2 DEF Stopped, NoColumns

\* Every step preserves the invariant.
LEMMA StepColumns == ColumnsInv /\ [Next]_vars => ColumnsInv'
  BY CreateInv, RegisterInv, RowInv, RequestInv, HandleInv, IdleInv DEF Next

\* ColumnsInv is an invariant of the table.
THEOREM ColumnsInductive == Spec => []ColumnsInv
  BY InitColumns, StepColumns, PTL DEF Spec

\* Types, for every set of configurations and any size of packet.
THEOREM ColumnsTyped == Spec => []TypeOK
  <1>1. ColumnsInv => TypeOK
    BY DEF ColumnsInv
  <1> QED BY <1>1, ColumnsInductive, PTL

\* A configuration of any length without gaps answers every column with the
\* object that was declared for it last.
THEOREM OwnColumn == Spec => []AnswersOwnColumn
  <1>1. ColumnsInv => AnswersOwnColumn
    BY DEF ColumnsInv
  <1> QED BY <1>1, ColumnsInductive, PTL

\* No request of a packet of any size is left unanswered by another.
THEOREM AllAnswered == Spec => []EveryRequestAnswered
  <1>1. ColumnsInv => EveryRequestAnswered
    BY DEF ColumnsInv
  <1> QED BY <1>1, ColumnsInductive, PTL
----------------------------------------------------------------------------
(* The types of the indexes in a list of objects.                            *)

\* Lists of objects, and those that are to be picked from them.
Lists(list) == Seq(0..Len(list))
Picks(list) == SUBSET (1..Len(list))

\* The types so far, as the loop asks for them, over the first n objects.
Step(list, s, which, k, types) ==
    IF s[k] \in which THEN Append(types, list[s[k]].type) ELSE types
TypesTo(list, n, s, which) ==
    {g \in [0..n -> Seq(Types)] :
        g[0] = <<>> /\ \A k \in 1..n : g[k] = Step(list, s, which, k, g[k - 1])}

\* A step of the loop makes a list of types of one.
LEMMA StepType ==
  ASSUME NEW list \in Seq(Declarations), NEW s \in Lists(list), NEW which \in Picks(list),
         NEW k \in 1..Len(s), NEW types \in Seq(Types)
  PROVE  Step(list, s, which, k, types) \in Seq(Types)
  <1>1. CASE s[k] \in which
    <2>1. s[k] \in 1..Len(list)
      BY <1>1 DEF Picks
    <2>2. list[s[k]] \in Declarations
      BY <2>1
    <2>3. list[s[k]].type \in Types
      BY <2>2 DEF Declarations
    <2>4. Append(types, list[s[k]].type) \in Seq(Types)
      BY <2>3, AppendType
    <2> QED BY <1>1, <2>4 DEF Step
  <1>2. CASE s[k] \notin which
    BY <1>2 DEF Step
  <1> QED BY <1>1, <1>2

\* The loop gets to the end of every list: no shortest beginning is without
\* its types.
LEMMA TypesExist ==
  ASSUME NEW list \in Seq(Declarations), NEW s \in Lists(list), NEW which \in Picks(list)
  PROVE  TypesTo(list, Len(s), s, which) # {}
  <1> DEFINE Good == {n \in 0..Len(s) : TypesTo(list, n, s, which) # {}}
  <1>1. Len(s) \in Nat
    BY DEF Lists
  <1>2. 0 \in Good
    <2>1. [k \in 0..0 |-> <<>>] \in TypesTo(list, 0, s, which)
      BY DEF TypesTo
    <2> QED BY <1>1, <2>1
  <1>3. ASSUME NEW n \in 1..Len(s), n - 1 \in Good PROVE n \in Good
    <2>1. PICK g : g \in TypesTo(list, n - 1, s, which)
      BY <1>3
    <2>2. /\ g \in [0..(n - 1) -> Seq(Types)] /\ g[0] = <<>>
          /\ \A k \in 1..(n - 1) : g[k] = Step(list, s, which, k, g[k - 1])
      BY <2>1 DEF TypesTo
    <2>3. PICK new : new = Step(list, s, which, n, g[n - 1])
      OBVIOUS
    <2>4. new \in Seq(Types)
      <3>1. g[n - 1] \in Seq(Types)
        BY <1>1, <2>2
      <3> QED BY <2>3, <3>1, StepType
    <2> DEFINE h == [k \in 0..n |-> IF k = n THEN new ELSE g[k]]
    <2>5. h \in [0..n -> Seq(Types)] /\ h[0] = <<>>
      BY <1>1, <2>2, <2>4
    <2>6. ASSUME NEW k \in 1..n PROVE h[k] = Step(list, s, which, k, h[k - 1])
      <3>1. h[k - 1] = g[k - 1]
        BY <1>1
      <3>2. CASE k = n
        BY <2>3, <3>1, <3>2
      <3>3. CASE k # n
        <4>1. k \in 1..(n - 1) /\ h[k] = g[k]
          BY <1>1, <3>3
        <4> QED BY <2>2, <3>1, <4>1
      <3> QED BY <3>2, <3>3
    <2>7. h \in TypesTo(list, n, s, which)
      BY <2>5, <2>6 DEF TypesTo
    <2> QED BY <1>1, <2>7
  <1>4. 0..Len(s) \subseteq Good
    <2> HIDE DEF Good
    <2> QED BY <1>1, <1>2, <1>3, UpTo
  <1> QED BY <1>1, <1>4

\* The recursive definition is what the loop asks for.
LEMMA TypesAre ==
  ASSUME NEW list \in Seq(Declarations), NEW s \in Lists(list), NEW which \in Picks(list)
  PROVE  TypesUpTo(list, s, which) \in TypesTo(list, Len(s), s, which)
  <1> DEFINE Rec(f) == [k \in 0..Len(s) |->
                          IF k = 0 THEN <<>>
                          ELSE IF s[k] \in which THEN Append(f[k - 1], list[s[k]].type)
                                                 ELSE f[k - 1]]
  <1>1. PICK g : g \in TypesTo(list, Len(s), s, which)
    BY TypesExist
  <1>2. Len(s) \in Nat
    BY DEF Lists
  <1>3. /\ g \in [0..Len(s) -> Seq(Types)] /\ g[0] = <<>>
        /\ \A k \in 1..Len(s) : g[k] = Step(list, s, which, k, g[k - 1])
    BY <1>1 DEF TypesTo
  <1>4. g = Rec(g)
    <2>1. ASSUME NEW k \in 0..Len(s), k # 0
          PROVE  g[k] = IF s[k] \in which THEN Append(g[k - 1], list[s[k]].type) ELSE g[k - 1]
      <3>1. k \in 1..Len(s)
        BY <1>2, <2>1
      <3>2. g[k] = Step(list, s, which, k, g[k - 1])
        BY <1>3, <3>1
      <3> QED BY ONLY <3>2 DEF Step
    <2>2. g = [k \in 0..Len(s) |-> g[k]]
      BY <1>3
    <2>3. ASSUME NEW k \in 0..Len(s) PROVE g[k] = Rec(g)[k]
      BY <1>3, <2>1, <2>3
    <2> HIDE DEF Rec
    <2>4. Rec(g) = [k \in 0..Len(s) |-> Rec(g)[k]]
      BY DEF Rec
    <2> QED BY <2>2, <2>3, <2>4
  <1>5. TypesUpTo(list, s, which) = CHOOSE f : f = Rec(f)
    BY DEF TypesUpTo
  <1>6. TypesUpTo(list, s, which) = Rec(TypesUpTo(list, s, which))
    <2> HIDE DEF Rec
    <2> QED BY <1>4, <1>5
  <1> PICK f : f = TypesUpTo(list, s, which)
    OBVIOUS
  <1>7. f = Rec(f)
    BY <1>6
  <1> DEFINE Good == {k \in 0..Len(s) : f[k] = g[k]}
  <1>8. 0 \in Good
    BY <1>2, <1>3, <1>7
  <1>9. ASSUME NEW k \in 1..Len(s), k - 1 \in Good PROVE k \in Good
    <2>1. f[k] = Step(list, s, which, k, f[k - 1])
      <3>1. k \in 0..Len(s) /\ k # 0
        BY <1>2
      <3>2. f[k] = IF s[k] \in which THEN Append(f[k - 1], list[s[k]].type) ELSE f[k - 1]
        BY <1>7, <3>1
      <3> QED BY ONLY <3>2 DEF Step
    <2>2. g[k] = Step(list, s, which, k, g[k - 1])
      BY <1>3
    <2> QED BY <1>2, <1>9, <2>1, <2>2
  <1>10. 0..Len(s) \subseteq Good
    <2> HIDE DEF Good
    <2> QED BY <1>2, <1>8, <1>9, UpTo
  <1>11. \A k \in 0..Len(s) : f[k] = g[k]
    BY <1>10
  <1>12. f = [k \in 0..Len(s) |-> f[k]]
    BY <1>7
  <1>13. f = g
    <2> HIDE DEF Rec
    <2> QED BY <1>3, <1>11, <1>12
  <1> QED BY <1>1, <1>13

\* From one object to the next.
LEMMA TypesStep ==
  ASSUME NEW list \in Seq(Declarations), NEW s \in Lists(list), NEW which \in Picks(list)
  PROVE  /\ \A k \in 0..Len(s) : TypesUpTo(list, s, which)[k] \in Seq(Types)
         /\ TypesUpTo(list, s, which)[0] = <<>>
         /\ \A k \in 1..Len(s) : TypesUpTo(list, s, which)[k]
                                   = Step(list, s, which, k, TypesUpTo(list, s, which)[k - 1])
  BY TypesAre DEF TypesTo

\* One more object in the list is one more step.
LEMMA TypesAppend ==
  ASSUME NEW list \in Seq(Declarations), NEW s \in Lists(list), NEW which \in Picks(list),
         NEW e \in 0..Len(list)
  PROVE  TypesIn(list, Append(s, e), which)
           = IF e \in which THEN Append(TypesIn(list, s, which), list[e].type)
                            ELSE TypesIn(list, s, which)
  <1> PICK t : t = Append(s, e)
    OBVIOUS
  <1>1. /\ t \in Lists(list) /\ Len(t) = Len(s) + 1 /\ t[Len(s) + 1] = e /\ Len(s) \in Nat
        /\ \A k \in 1..Len(s) : t[k] = s[k]
    BY DEF Lists
  <1> PICK f, g : f = TypesUpTo(list, s, which) /\ g = TypesUpTo(list, t, which)
    OBVIOUS
  <1>2. /\ f[0] = <<>> /\ g[0] = <<>>
        /\ \A k \in 1..Len(s) : f[k] = Step(list, s, which, k, f[k - 1])
        /\ \A k \in 1..Len(t) : g[k] = Step(list, t, which, k, g[k - 1])
    BY <1>1, TypesStep
  <1> DEFINE Good == {k \in 0..Len(s) : g[k] = f[k]}
  <1>3. 0 \in Good
    BY <1>1, <1>2
  <1>4. ASSUME NEW k \in 1..Len(s), k - 1 \in Good PROVE k \in Good
    <2>1. k \in 1..Len(t) /\ t[k] = s[k]
      BY <1>1
    <2>2. g[k] = Step(list, s, which, k, g[k - 1])
      BY <1>2, <2>1 DEF Step
    <2>3. f[k] = Step(list, s, which, k, f[k - 1])
      BY <1>2
    <2> QED BY <1>1, <1>4, <2>2, <2>3
  <1>5. 0..Len(s) \subseteq Good
    <2> HIDE DEF Good
    <2> QED BY <1>1, <1>3, <1>4, UpTo
  <1>6. g[Len(s)] = f[Len(s)]
    BY <1>1, <1>5
  <1>7. g[Len(t)] = Step(list, t, which, Len(t), g[Len(s)])
    BY <1>1, <1>2
  <1> QED BY <1>1, <1>6, <1>7 DEF TypesIn, Step

----------------------------------------------------------------------------
(* The indexes that are registered, and those of a row.                      *)

\* The indexes are those of the objects, and the row's so far are those of the
\* objects it has been through.
Indexed ==
    /\ indexes \in Seq(Types)
    /\ phase \in {"row", "serve", "handle", "undefined"} =>
         /\ indexes = TypesUpTo(config, objects, IndexObjects)[Len(objects)]
         /\ TypesIn(config, variables, IndexObjects)
              = TypesUpTo(config, objects, IndexObjects)[pos]

\* What the lemmas above ask of a list.
LEMMA ListsAre ==
  ASSUME ColumnsInv
  PROVE  /\ config \in Seq(Declarations) /\ objects \in Lists(config)
         /\ variables \in Lists(config) /\ IndexObjects \in Picks(config)
         /\ Len(config) \in Nat
  <1>1. config \in Seq(Declarations) /\ objects \in Lists(config) /\ variables \in Seq(1..Len(config))
    BY ConfigsAssumption DEF ColumnsInv, TypeOK, Lists
  <1>2. Len(config) \in Nat
    BY <1>1
  <1>3. variables \in Lists(config)
    BY <1>1, <1>2 DEF Lists
  <1> QED BY <1>1, <1>2, <1>3 DEF IndexObjects, Picks

\* Before the registration there is nothing to compare.
LEMMA InitIndexed == Init => Indexed
  BY DEF Init, Indexed

\* addIndexes() and addRow() go through the same objects.
LEMMA StepIndexed ==
  ASSUME ColumnsInv, Indexed, [Next]_vars
  PROVE  Indexed'
  <1>0. config' = config /\ IndexObjects' = IndexObjects
    <2>1. config' = config
      BY DEF Next, vars, tableVars, CreateSnmpObject, CreateSnmpTable, RegisterSnmpTable,
         RegisterFails, AddVariable, RowAdded, Request, HandleNoRow, HandleColumn,
         HandleBeyond, Handled, Stopped, NoColumns
    <2> QED BY <2>1 DEF IndexObjects
  <1>1. CASE CreateSnmpObject \/ CreateSnmpTable \/ RegisterFails
    BY <1>1 DEF Indexed, CreateSnmpObject, CreateSnmpTable, RegisterFails, tableVars
  <1>2. CASE RegisterSnmpTable
    <2>1. /\ objects' = objects /\ variables' = <<>> /\ pos' = 0 /\ phase' = "row"
          /\ indexes' = TypesIn(config, objects, IndexObjects)
      BY <1>2 DEF RegisterSnmpTable, AddIndexes, ColumnsInv, Progress
    <2> PICK t, w : t = TypesUpTo(config, objects, IndexObjects)
                    /\ w = TypesUpTo(config, <<>>, IndexObjects)
      OBVIOUS
    <2>2. t[0] = <<>> /\ t[Len(objects)] \in Seq(Types)
      <3>1. Len(objects) \in 0..Len(objects)
        BY ListsAre DEF Lists
      <3> QED BY <3>1, ListsAre, TypesStep
    <2>3. w[0] = <<>>
      <3>1. <<>> \in Lists(config)
        BY DEF Lists
      <3> QED BY <3>1, ListsAre, TypesStep
    <2>4. indexes' = t[Len(objects)]
      BY <2>1 DEF TypesIn
    <2>5. TypesIn(config, <<>>, IndexObjects) = w[0]
      BY DEF TypesIn
    <2> QED BY <1>0, <2>1, <2>2, <2>3, <2>4, <2>5 DEF Indexed
  <1>3. CASE AddVariable
    <2>1. /\ phase = "row" /\ phase' = "row" /\ pos < Len(objects) /\ pos' = pos + 1
          /\ objects' = objects /\ indexes' = indexes
          /\ variables' = IF objects[pos + 1] = 0 THEN variables
                                                  ELSE Append(variables, objects[pos + 1])
      BY <1>3 DEF AddVariable, tableVars
    <2> PICK e : e = objects[pos + 1]
      OBVIOUS
    <2> PICK t : t = TypesUpTo(config, objects, IndexObjects)
      OBVIOUS
    <2>2. pos + 1 \in 1..Len(objects) /\ e \in 0..Len(config) /\ pos \in Nat
      <3>1. objects \in Seq(0..Len(config)) /\ pos \in 0..Len(objects)
        BY DEF ColumnsInv, TypeOK
      <3>2. pos + 1 \in 1..Len(objects) /\ pos \in Nat
        BY <2>1, <3>1
      <3> QED BY <3>1, <3>2
    <2>3. t[pos + 1] = Step(config, objects, IndexObjects, pos + 1, t[pos])
      <3>1. \A k \in 1..Len(objects) : t[k] = Step(config, objects, IndexObjects, k, t[k - 1])
        BY ListsAre, TypesStep
      <3>2. t[pos + 1] = Step(config, objects, IndexObjects, pos + 1, t[pos + 1 - 1])
        BY <2>2, <3>1
      <3> QED BY <2>2, <3>2
    <2>4. TypesIn(config, variables, IndexObjects) = t[pos] /\ indexes \in Seq(Types)
          /\ indexes = t[Len(objects)]
      BY <2>1 DEF Indexed
    <2>5. TypesIn(config, variables', IndexObjects) = t[pos + 1]
      <3>1. CASE e = 0
        <4>1. e \notin IndexObjects
          BY <3>1 DEF IndexObjects
        <4> QED BY <2>1, <2>3, <2>4, <3>1, <4>1 DEF Step
      <3>2. CASE e # 0
        <4>1. variables' = Append(variables, e)
          BY <2>1, <3>2
        <4>2. TypesIn(config, Append(variables, e), IndexObjects)
                = IF e \in IndexObjects THEN Append(t[pos], config[e].type) ELSE t[pos]
          <5> PICK list, s, which : list = config /\ s = variables /\ which = IndexObjects
            OBVIOUS
          <5>1. TypesIn(list, Append(s, e), which)
                  = IF e \in which THEN Append(TypesIn(list, s, which), list[e].type)
                                   ELSE TypesIn(list, s, which)
            <6>1. /\ list \in Seq(Declarations) /\ s \in Lists(list) /\ which \in Picks(list)
                  /\ e \in 0..Len(list)
              BY <2>2, ListsAre
            <6> QED BY ONLY <6>1, TypesAppend
          <5>2. TypesIn(list, s, which) = t[pos]
            BY <2>4
          <5> QED BY <5>1, <5>2
        <4> QED BY <2>3, <4>1, <4>2 DEF Step
      <3> QED BY <3>1, <3>2
    <2> QED BY <1>0, <2>1, <2>4, <2>5 DEF Indexed
  <1>4. ASSUME UNCHANGED <<objects, indexes, pos, variables>>,
               phase' \in {"row", "serve", "handle", "undefined"}
                 => phase \in {"row", "serve", "handle", "undefined"}
        PROVE  Indexed'
    BY <1>0, <1>4 DEF Indexed
  <1>5. CASE RowAdded \/ Request \/ HandleNoRow \/ HandleColumn \/ HandleBeyond \/ Handled
    BY <1>4, <1>5 DEF RowAdded, Request, HandleNoRow, HandleColumn, HandleBeyond, Handled,
       HasCurrent, tableVars
  <1>6. CASE UNCHANGED vars
    BY <1>4, <1>6 DEF vars, tableVars
  <1> QED BY <1>1, <1>2, <1>3, <1>5, <1>6 DEF Next, Stopped, NoColumns

\* However many objects there are, in whatever order they were declared and with
\* whatever gaps, the index values of a row are those that were registered:
\* setIndexedValues() never gets to the end of Net-SNMP's list.
THEOREM IndexesAlwaysFit == Spec => []IndexesFit
  <1>1. ColumnsInv /\ Indexed => IndexesFit
    BY DEF ColumnsInv, Progress, Indexed, IndexesFit
  <1>2. ColumnsInv /\ Indexed /\ [Next]_vars => Indexed'
    BY StepIndexed
  <1> QED BY <1>1, <1>2, InitIndexed, ColumnsInductive, PTL DEF Spec

----------------------------------------------------------------------------
(* The command line.                                                         *)

Names == SwitchNames \union {NoText}
Texts == [value : SwitchValues, blank : Blanks]
SwitchMaps == UNION {[D -> Texts] : D \in SUBSET Names}
Lines == [argv : Seq(Args), switches : SwitchMaps, begin_args : Nat]

\* Where the last switch of a name is, behind the program at p.
LastOf(c, p, name, i) ==
    /\ i \in (p + 1)..c.begin_args /\ c.argv[i].name = name
    /\ \A j \in (i + 1)..c.begin_args : c.argv[j].name # name

\* Switches only from the program at p up to the divider.
Layout(c, p) ==
    /\ p \in 1..c.begin_args
    /\ \A i \in (p + 1)..c.begin_args : IsSwitch(c.argv[i]) /\ Trimmed(c.argv[i]) # Terminator

\* The map says what the last switch of each name says.
MapAgrees(c, p) ==
    /\ \A i \in (p + 1)..c.begin_args : c.argv[i].name \in DOMAIN c.switches
    /\ \A name \in DOMAIN c.switches :
         \E i : LastOf(c, p, name, i) /\ ValueOf(c.argv[i]) = c.switches[name]

LineInv(c, p) ==
    c \in Lines /\ c.begin_args \in 1..Len(c.argv) /\ Layout(c, p) /\ MapAgrees(c, p)

\* Behind the divider a switch is only read as an argument.
Ended(c) == \E j \in (c.begin_args + 1)..Len(c.argv) : c.argv[j] = Terminator
Behind(c) == \A i \in (c.begin_args + 1)..Len(c.argv) : IsSwitch(c.argv[i]) =>
    \E j \in (c.begin_args + 1)..i : c.argv[j] = Terminator

\* Trimming takes nothing but the blank from an argument.
LEMMA TrimmedIs ==
    ASSUME NEW arg \in Args
    PROVE  /\ Trimmed(arg) \in Args /\ Trimmed(arg).name = arg.name /\ Trimmed(arg).blank = NoText
           /\ Trimmed(arg).value = arg.value /\ Trimmed(arg).prefix = arg.prefix
           /\ (IsSwitch(Trimmed(arg)) <=> IsSwitch(arg))
           /\ ValueOf(Trimmed(arg)) = Trimmed(ValueOf(arg))
           /\ Trimmed(Trimmed(arg)) = Trimmed(arg) /\ Trimmed(Terminator) = Terminator
<1>1. Trimmed(arg) = [prefix |-> arg.prefix, name |-> arg.name, value |-> arg.value, blank |-> NoText]
    BY DEF Args, Trimmed
<1>2. Trimmed(Trimmed(arg)) = Trimmed(arg) /\ Trimmed(Terminator) = Terminator
  <2>1. PICK t, q, n, v : t = Trimmed(arg) /\ q = arg.prefix /\ n = arg.name /\ v = arg.value
      OBVIOUS
  <2>2. t = [prefix |-> q, name |-> n, value |-> v, blank |-> NoText]
      BY <1>1, <2>1
  <2>3. [t EXCEPT !.blank = NoText] = t
      BY <2>2
  <2>4. Trimmed(t) = t
      BY <2>3 DEF Trimmed
  <2>5. Trimmed(Terminator) = Terminator
      BY DEF Trimmed, Terminator, Argument
  <2> QED BY <2>1, <2>4, <2>5
<1>3. ValueOf(Trimmed(arg)) = Trimmed(ValueOf(arg))
    BY <1>1 DEF ValueOf, Trimmed
<1>4. arg.prefix \in SwitchPrefixes /\ arg.name \in SwitchNames \union {NoText} /\ arg.value \in SwitchValues
    BY DEF Args
<1>5. Trimmed(arg) \in Args
    BY <1>1, <1>4 DEF Args, Blanks, Trimmed
<1> QED BY <1>1, <1>2, <1>3, <1>5 DEF IsSwitch

\* Inserting an element moves those behind it.
Moved(S, s, k, e, t) ==
    /\ t \in Seq(S) /\ Len(t) = Len(s) + 1 /\ t[k] = e
    /\ \A i \in 1..(k - 1) : t[i] = s[i]
    /\ \A i \in (k + 1)..(Len(s) + 1) : t[i] = s[i - 1]
\* InsertAt() does so.
LEMMA Inserted ==
    ASSUME NEW S, NEW s \in Seq(S), NEW k \in 1..(Len(s) + 1), NEW e \in S,
           NEW t, t = InsertAt(s, k, e)
    PROVE  Moved(S, s, k, e, t)
<1>1. Len(s) \in Nat /\ \A i \in 1..Len(s) : s[i] \in S
    OBVIOUS
<1>9. PICK a, b, m : a = SubSeq(s, 1, k - 1) /\ b = SubSeq(s, k, Len(s)) /\ m = <<e>>
    OBVIOUS
<1>2. a \in Seq(S) /\ Len(a) = k - 1 /\ \A i \in 1..(k - 1) : a[i] = s[i]
  <2>1. \A i \in 1..(k - 1) : s[i] \in S
      BY <1>1
  <2> QED BY <1>1, <1>9, <2>1, SubSeqProperties
<1>3. b \in Seq(S) /\ Len(b) = Len(s) - k + 1 /\ \A i \in 1..(Len(s) - k + 1) : b[i] = s[k + i - 1]
  <2>1. \A i \in k..Len(s) : s[i] \in S
      BY <1>1
  <2> QED BY <1>1, <1>9, <2>1, SubSeqProperties
<1>4. m \in Seq(S) /\ Len(m) = 1 /\ m[1] = e
    BY <1>9
<1>10. PICK am : am = a \o m
    OBVIOUS
<1>5. am \in Seq(S) /\ Len(am) = k /\ \A i \in 1..k : am[i] = IF i <= k - 1 THEN a[i] ELSE m[i - (k - 1)]
  <2>1. /\ am \in Seq(S) /\ Len(am) = Len(a) + Len(m)
        /\ \A i \in 1..(Len(a) + Len(m)) : am[i] = IF i <= Len(a) THEN a[i] ELSE m[i - Len(a)]
      BY <1>2, <1>4, <1>10, ConcatProperties
  <2> QED BY <1>1, <1>2, <1>4, <2>1
<1>8. t = am \o b
    BY <1>9, <1>10 DEF InsertAt
<1>6. t \in Seq(S) /\ Len(t) = Len(s) + 1 /\ \A i \in 1..(Len(s) + 1) : t[i] = IF i <= k THEN am[i] ELSE b[i - k]
  <2>1. /\ t \in Seq(S) /\ Len(t) = Len(am) + Len(b)
        /\ \A i \in 1..(Len(am) + Len(b)) : t[i] = IF i <= Len(am) THEN am[i] ELSE b[i - Len(am)]
    <3>1. am \in Seq(S) /\ b \in Seq(S) /\ t = am \o b
        BY <1>3, <1>5, <1>8
    <3> QED BY ONLY <3>1, ConcatProperties
  <2> QED BY <1>1, <1>3, <1>5, <2>1
<1>7. ASSUME NEW i \in 1..(Len(s) + 1)
      PROVE  t[i] = IF i < k THEN s[i] ELSE IF i = k THEN e ELSE s[i - 1]
  <2>1. CASE i < k
    <3>1. t[i] = am[i] /\ am[i] = a[i] /\ a[i] = s[i]
        BY <1>1, <1>2, <1>5, <1>6, <2>1
    <3> QED BY <2>1, <3>1
  <2>2. CASE i = k
    <3>1. t[i] = am[i] /\ am[i] = m[1]
        BY <1>1, <1>5, <1>6, <2>2
    <3> QED BY <1>4, <2>2, <3>1
  <2>3. CASE i > k
    <3>1. t[i] = b[i - k] /\ b[i - k] = s[k + (i - k) - 1] /\ k + (i - k) - 1 = i - 1
        BY <1>1, <1>3, <1>6, <2>3
    <3> QED BY <2>3, <3>1
  <2> QED BY <2>1, <2>2, <2>3
<1>11. t[k] = e
    BY <1>1, <1>7
<1>12. ASSUME NEW i \in 1..(k - 1) PROVE t[i] = s[i]
    BY <1>1, <1>7
<1>13. ASSUME NEW i \in (k + 1)..(Len(s) + 1) PROVE t[i] = s[i - 1]
    BY <1>1, <1>7
<1> QED BY <1>6, <1>11, <1>12, <1>13 DEF Moved

\* What appending a switch makes of a line.
LEMMA SwitchIs ==
    ASSUME NEW c \in Lines, c.begin_args \in 1..Len(c.argv), NEW arg \in Args, NEW d,
           d = AppendSwitchNative(c, arg)
    PROVE  /\ d \in Lines /\ d.begin_args = c.begin_args + 1 /\ Len(d.argv) = Len(c.argv) + 1
           /\ \A i \in 1..c.begin_args : d.argv[i] = c.argv[i]
           /\ \A i \in (c.begin_args + 2)..Len(d.argv) : d.argv[i] = c.argv[i - 1]
           /\ d.argv[c.begin_args + 1] \in Args /\ IsSwitch(d.argv[c.begin_args + 1])
           /\ d.argv[c.begin_args + 1].name = arg.name /\ ValueOf(d.argv[c.begin_args + 1]) = ValueOf(arg)
           /\ Trimmed(d.argv[c.begin_args + 1]) = Terminator => (arg.name = NoText /\ (IsSwitch(arg) => Trimmed(arg) = Terminator))
           /\ DOMAIN d.switches = DOMAIN c.switches \union {arg.name}
           /\ d.switches[arg.name] = ValueOf(arg)
           /\ \A name \in DOMAIN c.switches : name # arg.name => d.switches[name] = c.switches[name]
<1>1. PICK new : new = [arg EXCEPT !.prefix = IF @ = NoText THEN "--" ELSE @]
    OBVIOUS
<1>2. new \in Args /\ new.name = arg.name /\ ValueOf(new) = ValueOf(arg) /\ IsSwitch(new)
      /\ (Trimmed(new) = Terminator => arg.name = NoText /\ (IsSwitch(arg) => Trimmed(arg) = Terminator))
    BY <1>1 DEF Args, Argument, IsSwitch, NoText, SwitchPrefixes, Terminator, Trimmed, ValueOf
<1>3. PICK argv : argv = InsertAt(c.argv, c.begin_args + 1, new)
    OBVIOUS
<1>4. c.argv \in Seq(Args) /\ c.begin_args \in Nat /\ c.switches \in SwitchMaps /\ Len(c.argv) \in Nat
    BY DEF Lines
<1>5. PICK k : k = c.begin_args + 1
    OBVIOUS
<1>6. k \in 1..(Len(c.argv) + 1)
    BY <1>4, <1>5
<1>7. /\ argv \in Seq(Args) /\ Len(argv) = Len(c.argv) + 1 /\ argv[k] = new
      /\ \A i \in 1..(k - 1) : argv[i] = c.argv[i]
      /\ \A i \in (k + 1)..(Len(c.argv) + 1) : argv[i] = c.argv[i - 1]
  <2>1. PICK s : s = c.argv
      OBVIOUS
  <2>2. new \in Args /\ s \in Seq(Args) /\ k \in 1..(Len(s) + 1) /\ argv = InsertAt(s, k, new)
      BY <1>2, <1>3, <1>4, <1>5, <1>6, <2>1
  <2>3. Moved(Args, s, k, new, argv)
      BY ONLY <2>2, Inserted
  <2> QED BY <2>1, <2>3 DEF Moved
<1>8. PICK m : m = Valued(c.switches, arg)
    OBVIOUS
<1>9. d = [argv |-> argv, switches |-> m, begin_args |-> c.begin_args + 1]
    BY <1>1, <1>3, <1>8 DEF AppendSwitchNative
<1>10. PICK D \in SUBSET Names : c.switches \in [D -> Texts]
    BY <1>4 DEF SwitchMaps
<1>11. arg.name \in Names /\ ValueOf(arg) \in Texts
    BY DEF Args, Names, ValueOf, Texts
<1>12. /\ m \in [D \union {arg.name} -> Texts] /\ D \union {arg.name} \in SUBSET Names
       /\ m[arg.name] = ValueOf(arg) /\ \A name \in D : name # arg.name => m[name] = c.switches[name]
    BY <1>8, <1>10, <1>11 DEF Valued
<1>13. m \in SwitchMaps /\ DOMAIN m = DOMAIN c.switches \union {arg.name}
    BY <1>10, <1>12 DEF SwitchMaps
<1>14. d \in Lines /\ d.begin_args = c.begin_args + 1 /\ d.argv = argv /\ d.switches = m
    BY <1>4, <1>7, <1>9, <1>13 DEF Lines
<1>15. argv[c.begin_args + 1] = new
    BY <1>4, <1>5, <1>6, <1>7
<1>16. \A i \in 1..c.begin_args : argv[i] = c.argv[i]
    BY <1>4, <1>5, <1>6, <1>7
<1>17. ASSUME NEW i \in (c.begin_args + 2)..Len(argv) PROVE argv[i] = c.argv[i - 1]
  <2>1. i \in (k + 1)..(Len(c.argv) + 1)
      BY <1>4, <1>5, <1>6, <1>7
  <2> QED BY <1>7, <2>1
<1> QED BY <1>2, <1>7, <1>10, <1>12, <1>13, <1>14, <1>15, <1>16, <1>17

\* A switch that is appended moves the divider and leaves all else in order.
LEMMA SwitchKeeps ==
    ASSUME NEW c, NEW p, LineInv(c, p), NEW arg \in Args,
           IF IsSwitch(arg) THEN Trimmed(arg) # Terminator ELSE arg.name # NoText,
           NEW d, d = AppendSwitchNative(c, arg)
    PROVE  LineInv(d, p) /\ (Behind(c) => Behind(d)) /\ (Ended(c) => Ended(d))
<1>1. c \in Lines /\ c.begin_args \in 1..Len(c.argv) /\ Len(c.argv) \in Nat /\ c.begin_args \in Nat
    BY DEF LineInv, Lines
<1>2. /\ d \in Lines /\ d.begin_args = c.begin_args + 1 /\ Len(d.argv) = Len(c.argv) + 1
      /\ \A i \in 1..c.begin_args : d.argv[i] = c.argv[i]
      /\ \A i \in (c.begin_args + 2)..Len(d.argv) : d.argv[i] = c.argv[i - 1]
      /\ IsSwitch(d.argv[c.begin_args + 1]) /\ Trimmed(d.argv[c.begin_args + 1]) # Terminator
      /\ d.argv[c.begin_args + 1].name = arg.name /\ ValueOf(d.argv[c.begin_args + 1]) = ValueOf(arg)
      /\ DOMAIN d.switches = DOMAIN c.switches \union {arg.name}
      /\ d.switches[arg.name] = ValueOf(arg)
      /\ \A name \in DOMAIN c.switches : name # arg.name => d.switches[name] = c.switches[name]
  <2>1. arg \in Args /\ c \in Lines /\ c.begin_args \in 1..Len(c.argv) /\ d = AppendSwitchNative(c, arg)
      BY <1>1
  <2>2. /\ d \in Lines /\ d.begin_args = c.begin_args + 1 /\ Len(d.argv) = Len(c.argv) + 1
        /\ \A i \in 1..c.begin_args : d.argv[i] = c.argv[i]
        /\ \A i \in (c.begin_args + 2)..Len(d.argv) : d.argv[i] = c.argv[i - 1]
        /\ IsSwitch(d.argv[c.begin_args + 1])
        /\ d.argv[c.begin_args + 1].name = arg.name /\ ValueOf(d.argv[c.begin_args + 1]) = ValueOf(arg)
        /\ Trimmed(d.argv[c.begin_args + 1]) = Terminator => (arg.name = NoText /\ (IsSwitch(arg) => Trimmed(arg) = Terminator))
        /\ DOMAIN d.switches = DOMAIN c.switches \union {arg.name}
        /\ d.switches[arg.name] = ValueOf(arg)
        /\ \A name \in DOMAIN c.switches : name # arg.name => d.switches[name] = c.switches[name]
      BY ONLY <2>1, SwitchIs
  <2>3. ~(Trimmed(d.argv[c.begin_args + 1]) = Terminator)
      BY <2>2
  <2> QED BY <2>2, <2>3
<1>3. PICK b, n, argv, old : b = c.begin_args /\ n = Len(c.argv) /\ argv = d.argv /\ old = c.argv
    OBVIOUS
<1>4. b \in 1..n /\ n \in Nat /\ Len(argv) = n + 1 /\ d.begin_args = b + 1 /\ d.begin_args \in 1..Len(argv)
    BY <1>1, <1>2, <1>3
<1>5. (\A i \in 1..b : argv[i] = old[i]) /\ (\A i \in (b + 2)..(n + 1) : argv[i] = old[i - 1])
      /\ IsSwitch(argv[b + 1]) /\ Trimmed(argv[b + 1]) # Terminator
    BY <1>2, <1>3, <1>4
<1>6. Layout(d, p)
  <2>1. p \in 1..b /\ \A i \in (p + 1)..b : IsSwitch(old[i]) /\ Trimmed(old[i]) # Terminator
      BY <1>3 DEF LineInv, Layout
  <2>2. ASSUME NEW i \in (p + 1)..(b + 1) PROVE IsSwitch(argv[i]) /\ Trimmed(argv[i]) # Terminator
    <3>1. CASE i = b + 1
        BY <1>5, <3>1
    <3>2. CASE i # b + 1
      <4>1. i \in (p + 1)..b /\ i \in 1..b
          BY <1>4, <2>1, <3>2
      <4> QED BY <1>5, <2>1, <4>1
    <3> QED BY <3>1, <3>2
  <2>3. p \in 1..(b + 1)
      BY <1>4, <2>1
  <2> QED BY <1>3, <1>4, <2>2, <2>3 DEF Layout
<1>11. p \in 1..b
    BY <1>3 DEF LineInv, Layout
<1>7. ASSUME NEW i \in (p + 1)..(b + 1) PROVE argv[i].name \in DOMAIN d.switches
  <2>2. CASE i = b + 1
      BY <1>2, <1>3, <2>2
  <2>3. CASE i # b + 1
    <3>1. i \in (p + 1)..b /\ argv[i] = old[i]
        BY <1>4, <1>5, <1>11, <2>3
    <3>3. old[i].name \in DOMAIN c.switches
        BY <1>3, <3>1 DEF LineInv, MapAgrees
    <3> QED BY <1>2, <3>1, <3>3
  <2> QED BY <2>2, <2>3
<1>8. ASSUME NEW name \in DOMAIN d.switches
      PROVE  \E i : LastOf(d, p, name, i) /\ ValueOf(d.argv[i]) = d.switches[name]
  <2>1. CASE name = arg.name
    <3>1. b + 1 \in (p + 1)..d.begin_args /\ d.argv[b + 1].name = name /\ ValueOf(d.argv[b + 1]) = d.switches[name]
        BY <1>2, <1>3, <1>4, <1>11, <2>1
    <3>2. \A j \in ((b + 1) + 1)..d.begin_args : FALSE
        BY <1>4
    <3> QED BY <3>1, <3>2 DEF LastOf
  <2>2. CASE name # arg.name
    <3>1. name \in DOMAIN c.switches /\ d.switches[name] = c.switches[name]
        BY <1>2, <2>2
    <3>2. PICK i : LastOf(c, p, name, i) /\ ValueOf(old[i]) = c.switches[name]
        BY <1>3, <3>1 DEF LineInv, MapAgrees
    <3>3. i \in (p + 1)..b /\ old[i].name = name /\ \A j \in (i + 1)..b : old[j].name # name
        BY <1>3, <3>2 DEF LastOf
    <3>4. i \in (p + 1)..(b + 1) /\ argv[i] = old[i]
        BY <1>4, <1>5, <1>11, <3>3
    <3>5. ASSUME NEW j \in (i + 1)..(b + 1) PROVE argv[j].name # name
      <4>1. CASE j = b + 1
          BY <1>2, <1>3, <2>2, <4>1
      <4>2. CASE j # b + 1
        <5>1. j \in (i + 1)..b /\ j \in 1..b
            BY <1>4, <1>11, <3>3, <4>2
        <5> QED BY <1>5, <3>3, <5>1
      <4> QED BY <4>1, <4>2
    <3>7. LastOf(d, p, name, i)
        BY <1>3, <1>4, <3>3, <3>4, <3>5 DEF LastOf
    <3> QED BY <1>3, <3>1, <3>2, <3>4, <3>7
  <2> QED BY <2>1, <2>2
<1>9. Behind(c) => Behind(d)
  <2> SUFFICES ASSUME Behind(c), NEW i \in (b + 2)..(n + 1), IsSwitch(argv[i])
               PROVE  \E j \in (b + 2)..i : argv[j] = Terminator
      BY <1>3, <1>4 DEF Behind
  <2>1. i - 1 \in (b + 1)..n /\ argv[i] = old[i - 1]
      BY <1>4, <1>5
  <2>2. PICK j \in (b + 1)..(i - 1) : old[j] = Terminator
      BY <1>3, <2>1 DEF Behind
  <2>3. j + 1 \in (b + 2)..i /\ j + 1 \in (b + 2)..(n + 1) /\ (j + 1) - 1 = j
      BY <1>4, <2>1, <2>2
  <2> QED BY <1>5, <2>2, <2>3
<1>10. Ended(c) => Ended(d)
  <2> SUFFICES ASSUME Ended(c) PROVE \E j \in (b + 2)..(n + 1) : argv[j] = Terminator
      BY <1>3, <1>4 DEF Ended
  <2>1. PICK j \in (b + 1)..n : old[j] = Terminator
      BY <1>3 DEF Ended
  <2>2. j + 1 \in (b + 2)..(n + 1) /\ (j + 1) - 1 = j
      BY <1>4, <2>1
  <2> QED BY <1>5, <2>1, <2>2
<1> QED BY <1>2, <1>3, <1>4, <1>6, <1>7, <1>8, <1>9, <1>10 DEF LineInv, MapAgrees

\* An argument goes behind the divider.
LEMMA ArgKeeps ==
    ASSUME NEW c, NEW p, LineInv(c, p), NEW arg \in Args, NEW d, d = AppendArgNative(c, arg)
    PROVE  /\ LineInv(d, p) /\ (Ended(c) => Ended(d)) /\ (arg = Terminator => Ended(d))
           /\ Behind(c) /\ (IsSwitch(arg) => arg = Terminator \/ Ended(c)) => Behind(d)
<1>1. c \in Lines /\ c.begin_args \in 1..Len(c.argv) /\ Len(c.argv) \in Nat /\ c.begin_args \in Nat
      /\ c.argv \in Seq(Args)
    BY DEF LineInv, Lines
<1>2. PICK b, n, argv, old : b = c.begin_args /\ n = Len(c.argv) /\ argv = d.argv /\ old = c.argv
    OBVIOUS
<1>3. argv = Append(old, arg) /\ d.begin_args = b /\ d.switches = c.switches /\ d \in Lines
  <2>1. d = [argv |-> Append(c.argv, arg), switches |-> c.switches, begin_args |-> c.begin_args]
      BY DEF AppendArgNative, Lines, LineInv
  <2>2. Append(c.argv, arg) \in Seq(Args)
      BY <1>1
  <2> QED BY <1>1, <1>2, <2>1, <2>2 DEF Lines
<1>4. /\ b \in 1..n /\ n \in Nat /\ old \in Seq(Args) /\ Len(old) = n /\ Len(argv) = n + 1
      /\ argv[n + 1] = arg /\ \A i \in 1..n : argv[i] = old[i]
  <2>1. old \in Seq(Args) /\ argv = Append(old, arg) /\ Len(old) = n
      BY <1>1, <1>2, <1>3
  <2>2. Len(argv) = Len(old) + 1 /\ (\A i \in 1..Len(old) : argv[i] = old[i]) /\ argv[Len(old) + 1] = arg
      BY ONLY <2>1, AppendProperties
  <2> QED BY <1>1, <1>2, <2>1, <2>2
<1>5. \A i \in 1..b : argv[i] = old[i]
    BY <1>4
<1>6. p \in 1..b /\ \A i \in (p + 1)..b : i \in 1..b /\ argv[i] = old[i]
  <2>1. p \in 1..b
      BY <1>2 DEF LineInv, Layout
  <2>2. ASSUME NEW i \in (p + 1)..b PROVE i \in 1..b
      BY <1>4, <2>1
  <2> QED BY <1>5, <2>1, <2>2
<1>7. Layout(d, p)
  <2>1. \A i \in (p + 1)..b : IsSwitch(old[i]) /\ Trimmed(old[i]) # Terminator
      BY <1>2 DEF LineInv, Layout
  <2> QED BY <1>2, <1>3, <1>6, <2>1 DEF Layout
<1>8. MapAgrees(d, p)
  <2>1. ASSUME NEW i \in (p + 1)..d.begin_args PROVE d.argv[i].name \in DOMAIN d.switches
      BY <1>2, <1>3, <1>6 DEF LineInv, MapAgrees
  <2>2. ASSUME NEW name \in DOMAIN d.switches
        PROVE  \E i : LastOf(d, p, name, i) /\ ValueOf(d.argv[i]) = d.switches[name]
    <3>1. PICK i : LastOf(c, p, name, i) /\ ValueOf(c.argv[i]) = c.switches[name]
        BY <1>3, <2>2 DEF LineInv, MapAgrees
    <3>2. i \in (p + 1)..b /\ \A j \in (i + 1)..b : j \in (p + 1)..b
        BY <1>2, <1>4, <1>6, <3>1 DEF LastOf
    <3>3. LastOf(d, p, name, i)
        BY <1>2, <1>3, <1>6, <3>1, <3>2 DEF LastOf
    <3> QED BY <1>2, <1>3, <1>6, <3>1, <3>2, <3>3
  <2> QED BY <2>1, <2>2 DEF MapAgrees
<1>9. LineInv(d, p)
  <2>1. d.begin_args \in 1..Len(d.argv)
      BY <1>2, <1>3, <1>4
  <2> QED BY <1>3, <1>7, <1>8, <2>1 DEF LineInv
<1>10. Ended(c) => Ended(d)
    BY <1>2, <1>3, <1>4 DEF Ended
<1>11. arg = Terminator => Ended(d)
    BY <1>2, <1>3, <1>4 DEF Ended
<1>12. ASSUME Behind(c), IsSwitch(arg) => arg = Terminator \/ Ended(c) PROVE Behind(d)
  <2>0. d.begin_args = b /\ d.argv = argv /\ Len(d.argv) = n + 1
      BY <1>2, <1>3, <1>4
  <2> SUFFICES ASSUME NEW i \in (b + 1)..(n + 1), IsSwitch(argv[i])
               PROVE  \E j \in (b + 1)..i : argv[j] = Terminator
      BY <2>0 DEF Behind
  <2>1. CASE i = n + 1
    <3>1. CASE arg = Terminator
        BY <1>4, <2>1, <3>1
    <3>2. CASE arg # Terminator
      <4>1. PICK j \in (b + 1)..n : old[j] = Terminator
          BY <1>2, <1>4, <1>12, <2>1, <3>2 DEF Ended
      <4>2. j \in (b + 1)..i /\ j \in 1..n
          BY <1>4, <2>1, <4>1
      <4> QED BY <1>4, <4>1, <4>2
    <3> QED BY <3>1, <3>2
  <2>2. CASE i # n + 1
    <3>1. i \in (b + 1)..n /\ i \in 1..n
        BY <1>4, <2>2
    <3>2. PICK j \in (b + 1)..i : old[j] = Terminator
        BY <1>2, <1>4, <1>12, <3>1 DEF Behind
    <3>3. j \in 1..n
        BY <1>4, <3>1, <3>2
    <3> QED BY <1>4, <3>2, <3>3
  <2> QED BY <2>1, <2>2
<1> QED BY <1>9, <1>10, <1>11, <1>12

\* A line whose divider is within it, and the loop over a list of arguments.
Divided == {c \in Lines : c.begin_args \in 1..Len(c.argv)}
Readings == [parse : BOOLEAN, line : Divided]

\* A switch appended leaves the divider within argv_.
LEMMA SwitchDivided ==
    ASSUME NEW c \in Divided, NEW arg \in Args
    PROVE  AppendSwitchNative(c, arg) \in Divided
<1>1. PICK d : d = AppendSwitchNative(c, arg)
    OBVIOUS
<1>2. c \in Lines /\ c.begin_args \in 1..Len(c.argv) /\ Len(c.argv) \in Nat /\ arg \in Args
    BY DEF Divided, Lines
<1>3. d \in Lines /\ d.begin_args = c.begin_args + 1 /\ Len(d.argv) = Len(c.argv) + 1
    BY ONLY <1>1, <1>2, SwitchIs
<1> QED BY <1>1, <1>2, <1>3 DEF Divided

\* So does an argument.
LEMMA ArgDivided ==
    ASSUME NEW c \in Divided, NEW arg \in Args
    PROVE  AppendArgNative(c, arg) \in Divided
<1>1. PICK d : d = AppendArgNative(c, arg)
    OBVIOUS
<1>2. c.argv \in Seq(Args) /\ c.begin_args \in 1..Len(c.argv) /\ Len(c.argv) \in Nat /\ c \in Lines
    BY DEF Divided, Lines
<1>3. d = [argv |-> Append(c.argv, arg), switches |-> c.switches, begin_args |-> c.begin_args]
    BY <1>1, <1>2 DEF AppendArgNative, Lines
<1>4. PICK s : s = Append(c.argv, arg)
    OBVIOUS
<1>5. s \in Seq(Args) /\ Len(s) = Len(c.argv) + 1
    BY <1>2, <1>4
<1>6. d \in Lines
    BY <1>2, <1>3, <1>4, <1>5 DEF Lines
<1> QED BY <1>1, <1>2, <1>3, <1>4, <1>5, <1>6 DEF Divided

\* And so does a turn of the loop over a list of arguments.
LEMMA TakeReads ==
    ASSUME NEW t \in Readings, NEW text \in Args
    PROVE  Take(t, text) \in Readings
<1>1. t.line \in Divided /\ t.parse \in BOOLEAN
    BY DEF Readings
<1>2. PICK arg : arg = Trimmed(text)
    OBVIOUS
<1>3. arg \in Args
    BY <1>2, TrimmedIs
<1>4. AppendSwitchNative(t.line, arg) \in Divided /\ AppendArgNative(t.line, arg) \in Divided
    BY <1>1, <1>3, SwitchDivided, ArgDivided
<1> QED BY <1>1, <1>2, <1>4 DEF Take, Readings

\* The loop over the arguments, turn by turn.
LEMMA Taken ==
    ASSUME NEW c \in Divided, NEW v \in Seq(Args), v # <<>>, NEW taken, taken = TakenUpTo(c, v)
    PROVE  /\ taken \in [0..(Len(v) - 1) -> Readings]
           /\ taken[0] = [parse |-> TRUE, line |-> c]
           /\ \A k \in 1..(Len(v) - 1) : taken[k] = Take(taken[k - 1], v[k + 1])
<1>1. PICK N, start : N = Len(v) - 1 /\ start = [parse |-> TRUE, line |-> c]
    OBVIOUS
<1>2. N \in Nat /\ Len(v) = N + 1 /\ start \in Readings /\ \A k \in 1..N : v[k + 1] \in Args
    BY <1>1 DEF Readings
<1> DEFINE Rec(h) == [k \in 0..N |-> IF k = 0 THEN start ELSE Take(h[k - 1], v[k + 1])]
<1>3. taken = CHOOSE h : h = Rec(h)
    BY <1>1 DEF TakenUpTo
<1>4. PICK F : F = [k \in 1..N |-> [t \in Readings |-> Take(t, v[k + 1])]]
    OBVIOUS
<1>5. F \in [1..N -> [Readings -> Readings]]
    BY <1>2, <1>4, TakeReads
<1>6. PICK g \in Turns(N, Readings, start, F) : TRUE
    BY <1>2, <1>5, TurnsExist
<1>7. g \in [0..N -> Readings] /\ g[0] = start /\ \A k \in 1..N : g[k] = F[k][g[k - 1]]
    BY <1>6 DEF Turns
<1>8. ASSUME NEW k \in 1..N PROVE g[k - 1] \in Readings /\ g[k] = Take(g[k - 1], v[k + 1])
  <2>1. k - 1 \in 0..N /\ F[k] = [t \in Readings |-> Take(t, v[k + 1])] /\ g[k] = F[k][g[k - 1]]
    <3>1. k - 1 \in 0..N
        BY <1>2
    <3>2. F[k] = [t \in Readings |-> Take(t, v[k + 1])]
        BY <1>4
    <3> QED BY <1>7, <3>1, <3>2
  <2>2. g[k - 1] \in Readings
      BY <1>7, <2>1
  <2> QED BY <2>1, <2>2
<1>9. g = Rec(g)
    BY <1>7, <1>8
<1>10. taken = Rec(taken)
  <2> HIDE DEF Rec
  <2> QED BY <1>3, <1>9
<1>11. taken = [k \in 0..N |-> taken[k]] /\ taken[0] = g[0]
    BY <1>2, <1>7, <1>10
<1>12. ASSUME NEW k \in 1..N, taken[k - 1] = g[k - 1] PROVE taken[k] = g[k]
  <2>1. taken[k] = Take(taken[k - 1], v[k + 1])
    <3>1. k \in 0..N /\ k # 0
        BY <1>2
    <3> QED BY <1>10, <3>1
  <2> QED BY <1>8, <1>12, <2>1
<1>13. g = [k \in 0..N |-> g[k]]
    BY <1>7
<1>14. taken = g
  <2>1. N \in Nat /\ Alike(N, taken, g)
      BY <1>2, <1>11, <1>12 DEF Alike
  <2>2. SameTurns(N, taken, g)
      BY <2>1, AlikeSame
  <2>3. \A k \in 0..N : taken[k] = g[k]
      BY <2>2 DEF SameTurns
  <2> QED BY <1>11, <1>13, <2>3
<1> QED BY <1>1, <1>7, <1>8, <1>14

\* Reading a list of arguments keeps a line in order: a switch goes to the
\* divider, and once "--" was met all else goes behind it.
LEMMA TakeKeeps ==
    ASSUME NEW p, NEW t \in Readings, LineInv(t.line, p), ~t.parse => Ended(t.line), NEW text \in Args,
           NEW u, u = Take(t, text)
    PROVE  LineInv(u.line, p) /\ (~u.parse => Ended(u.line)) /\ (Behind(t.line) => Behind(u.line))
<1>1. PICK c, d, arg : c = t.line /\ d = u.line /\ arg = Trimmed(text)
    OBVIOUS
<1>2. LineInv(c, p) /\ (~t.parse => Ended(c)) /\ t.parse \in BOOLEAN /\ arg \in Args /\ Trimmed(arg) = arg
    BY <1>1, TrimmedIs DEF Readings
<1>3. CASE t.parse /\ arg # Terminator /\ IsSwitch(arg)
  <2>1. u.parse /\ d = AppendSwitchNative(c, arg)
      BY <1>1, <1>3 DEF Take
  <2>2. LineInv(c, p) /\ arg \in Args /\ (IF IsSwitch(arg) THEN Trimmed(arg) # Terminator ELSE arg.name # NoText)
      BY <1>2, <1>3
  <2>3. LineInv(d, p) /\ (Behind(c) => Behind(d))
      BY ONLY <2>1, <2>2, SwitchKeeps
  <2> QED BY <1>1, <2>1, <2>3
<1>4. CASE ~(t.parse /\ arg # Terminator /\ IsSwitch(arg))
  <2>1. u.parse = (t.parse /\ arg # Terminator) /\ d = AppendArgNative(c, arg)
      BY <1>1, <1>2, <1>4 DEF Take
  <2>2. LineInv(c, p) /\ arg \in Args
      BY <1>2
  <2>3. /\ LineInv(d, p) /\ (Ended(c) => Ended(d)) /\ (arg = Terminator => Ended(d))
        /\ Behind(c) /\ (IsSwitch(arg) => arg = Terminator \/ Ended(c)) => Behind(d)
      BY ONLY <2>1, <2>2, ArgKeeps
  <2>4. IsSwitch(arg) => arg = Terminator \/ Ended(c)
      BY <1>2, <1>4
  <2>5. ~u.parse => Ended(d)
      BY <1>2, <2>1, <2>3
  <2> QED BY <1>1, <2>3, <2>4, <2>5
<1> QED BY <1>3, <1>4

\* A line of the invariant has its divider within argv_.
LEMMA InvDivides ==
    ASSUME NEW c, NEW p, LineInv(c, p)
    PROVE  c \in Divided
BY DEF LineInv, Divided

\* The loop over a list of arguments keeps a line in order.
LEMMA TakenKeeps ==
    ASSUME NEW c, NEW p, LineInv(c, p), NEW v \in Seq(Args), v # <<>>, NEW d, d = AppendSwitchesAndArguments(c, v)
    PROVE  LineInv(d, p) /\ (Behind(c) => Behind(d))
<1>1. PICK taken, N : taken = TakenUpTo(c, v) /\ N = Len(v) - 1
    OBVIOUS
<1>2. N \in Nat /\ \A k \in 1..N : v[k + 1] \in Args
    BY <1>1
<1>3. /\ taken \in [0..N -> Readings] /\ taken[0] = [parse |-> TRUE, line |-> c]
      /\ \A k \in 1..N : taken[k] = Take(taken[k - 1], v[k + 1])
  <2>1. c \in Divided /\ v \in Seq(Args) /\ v # <<>> /\ taken = TakenUpTo(c, v)
      BY <1>1, InvDivides
  <2>2. /\ taken \in [0..(Len(v) - 1) -> Readings]
        /\ taken[0] = [parse |-> TRUE, line |-> c]
        /\ \A k \in 1..(Len(v) - 1) : taken[k] = Take(taken[k - 1], v[k + 1])
      BY ONLY <2>1, Taken
  <2> QED BY <1>1, <2>2
<1> DEFINE Good == {k \in 0..N : /\ LineInv(taken[k].line, p) /\ (~taken[k].parse => Ended(taken[k].line))
                                 /\ (Behind(c) => Behind(taken[k].line))}
<1>4. 0 \in Good
    BY <1>2, <1>3
<1>5. ASSUME NEW k \in 1..N, k - 1 \in Good PROVE k \in Good
  <2>1. PICK t, u : t = taken[k - 1] /\ u = taken[k]
      OBVIOUS
  <2>2. t \in Readings /\ u = Take(t, v[k + 1]) /\ v[k + 1] \in Args
    <3>1. k - 1 \in 0..N
        BY <1>5
    <3> QED BY <1>2, <1>3, <2>1, <3>1
  <2>3. LineInv(t.line, p) /\ (~t.parse => Ended(t.line)) /\ (Behind(c) => Behind(t.line))
      BY <1>5, <2>1
  <2>5. t \in Readings /\ LineInv(t.line, p) /\ (~t.parse => Ended(t.line)) /\ v[k + 1] \in Args
        /\ u = Take(t, v[k + 1])
      BY <2>2, <2>3
  <2>4. LineInv(u.line, p) /\ (~u.parse => Ended(u.line)) /\ (Behind(t.line) => Behind(u.line))
      BY ONLY <2>5, TakeKeeps
  <2> QED BY <1>2, <2>1, <2>3, <2>4
<1>6. 0..N \subseteq Good
  <2> HIDE DEF Good
  <2> QED BY <1>2, <1>4, <1>5, UpTo
<1>7. N \in Good
    BY <1>2, <1>6
<1> QED BY <1>1, <1>7 DEF AppendSwitchesAndArguments

\* A new command line, and one that is read from an argument list.
LEMMA NewKeeps ==
    /\ LineInv(NewLine, 1) /\ Behind(NewLine)
    /\ \A v : InitFromArgv(NewLine, v) = AppendSwitchesAndArguments(NewLine, v)
<1>1. Program \in Args /\ ~IsSwitch(Program)
    BY CommandLineAssumption DEF Program, Args, SwitchPrefixes, Argument, IsSwitch, Blanks
<1>2. PICK argv : argv = <<Program>>
    OBVIOUS
<1>3. argv \in Seq(Args) /\ Len(argv) = 1 /\ argv[1] = Program
    BY <1>1, <1>2
<1>4. PICK switches : switches = <<>>
    OBVIOUS
<1>5. DOMAIN switches = {} /\ switches \in SwitchMaps
  <2>1. switches \in [{} -> Texts]
      BY <1>4
  <2> QED BY <2>1 DEF SwitchMaps
<1>6. PICK c : c = NewLine
    OBVIOUS
<1>7. c = [argv |-> argv, switches |-> switches, begin_args |-> 1]
    BY <1>2, <1>4, <1>6 DEF NewLine
<1>8. c \in Lines /\ c.argv = argv /\ c.switches = switches /\ c.begin_args = 1
    BY <1>3, <1>5, <1>7 DEF Lines
<1>9. Layout(c, 1) /\ Behind(c)
  <2>1. Len(c.argv) = 1 /\ c.argv[1] = Program
      BY <1>3, <1>8
  <2>2. 1 \in 1..c.begin_args /\ (1 + 1)..c.begin_args = {}
      BY <1>8
  <2>3. (c.begin_args + 1)..Len(c.argv) = {}
      BY <1>8, <2>1
  <2> QED BY <2>2, <2>3 DEF Layout, Behind
<1>10. MapAgrees(c, 1)
  <2>1. (1 + 1)..c.begin_args = {} /\ DOMAIN c.switches = {}
      BY <1>5, <1>8
  <2> QED BY <2>1 DEF MapAgrees
<1>11. LineInv(c, 1)
  <2>1. c.begin_args = 1 /\ Len(c.argv) = 1
      BY <1>3, <1>8
  <2>2. c.begin_args \in 1..Len(c.argv)
      BY <2>1
  <2> QED BY <1>8, <1>9, <1>10, <2>2 DEF LineInv
<1>12. [argv |-> <<Program>>, switches |-> c.switches, begin_args |-> 1] = c
    BY <1>2, <1>7
<1> QED BY <1>6, <1>9, <1>11, <1>12 DEF InitFromArgv

\* The switches that are copied are one sequence of names.
LEMMA NamesInTurn == SetToSeq(SwitchNames) \in Seq(SwitchNames)
<1>1. ExistsBijection(1..Cardinality(SwitchNames), SwitchNames) /\ Cardinality(SwitchNames) \in Nat
    BY CommandLineAssumption, FS_CardinalityType
<1>2. PICK f \in [1..Cardinality(SwitchNames) -> SwitchNames] : IsInjective(f)
    BY <1>1 DEF ExistsBijection, Bijection, Injection
<1>3. SetToSeq(SwitchNames) \in [1..Cardinality(SwitchNames) -> SwitchNames]
    BY <1>2 DEF SetToSeq
<1> QED BY <1>1, <1>3

\* A copied switch keeps the line in order, and what is behind the divider.
LEMMA CopyKeeps ==
    ASSUME NEW c, NEW p, LineInv(c, p), NEW source \in Lines, NEW name \in SwitchNames, name # NoText,
           NEW d, d = Copy(c, source, name)
    PROVE  LineInv(d, p) /\ (Behind(c) => Behind(d))
<1>1. CASE ~HasSwitch(source, name)
    BY <1>1 DEF Copy
<1>2. CASE HasSwitch(source, name)
  <2>1. PICK val, arg : val = source.switches[name] /\ arg = Switch(name, val)
      OBVIOUS
  <2>2. PICK D \in SUBSET Names : source.switches \in [D -> Texts]
      BY DEF Lines, SwitchMaps
  <2>3. val \in Texts
      BY <1>2, <2>1, <2>2 DEF HasSwitch
  <2>4. arg \in Args /\ ~IsSwitch(arg) /\ arg.name # NoText
      BY <2>1, <2>3 DEF Args, Switch, Texts, SwitchPrefixes, IsSwitch
  <2>5. d = AppendSwitchNative(c, arg)
      BY <1>2, <2>1 DEF Copy, GetSwitchValueNative
  <2>6. LineInv(c, p) /\ arg \in Args /\ (IF IsSwitch(arg) THEN Trimmed(arg) # Terminator ELSE arg.name # NoText)
      BY <2>4
  <2> QED BY ONLY <2>5, <2>6, SwitchKeeps
<1> QED BY <1>1, <1>2

\* A copied switch leaves the divider within argv_.
LEMMA CopyDivided ==
    ASSUME NEW c \in Divided, NEW source \in Lines, NEW name \in SwitchNames
    PROVE  Copy(c, source, name) \in Divided
<1>1. CASE ~HasSwitch(source, name)
    BY <1>1 DEF Copy
<1>2. CASE HasSwitch(source, name)
  <2>1. PICK val, arg : val = source.switches[name] /\ arg = Switch(name, val)
      OBVIOUS
  <2>2. PICK D \in SUBSET Names : source.switches \in [D -> Texts]
      BY DEF Lines, SwitchMaps
  <2>3. val \in Texts
      BY <1>2, <2>1, <2>2 DEF HasSwitch
  <2>4. arg \in Args
      BY <2>1, <2>3 DEF Args, Switch, Texts, SwitchPrefixes
  <2>5. AppendSwitchNative(c, arg) \in Divided
      BY <2>4, SwitchDivided
  <2> QED BY <1>2, <2>1, <2>5 DEF Copy, GetSwitchValueNative
<1> QED BY <1>1, <1>2

\* The loop over the names that are copied, turn by turn.
LEMMA Copied ==
    ASSUME NEW c \in Divided, NEW source \in Lines, NEW names \in Seq(SwitchNames),
           NEW copied, copied = CopiedUpTo(c, source, names)
    PROVE  /\ copied \in [0..Len(names) -> Divided] /\ copied[0] = c
           /\ \A k \in 1..Len(names) : copied[k] = Copy(copied[k - 1], source, names[k])
<1>1. PICK N : N = Len(names)
    OBVIOUS
<1>2. N \in Nat /\ \A k \in 1..N : names[k] \in SwitchNames
    BY <1>1
<1> DEFINE Rec(h) == [k \in 0..N |-> IF k = 0 THEN c ELSE Copy(h[k - 1], source, names[k])]
<1>3. copied = CHOOSE h : h = Rec(h)
    BY <1>1 DEF CopiedUpTo
<1>4. PICK F : F = [k \in 1..N |-> [t \in Divided |-> Copy(t, source, names[k])]]
    OBVIOUS
<1>5. F \in [1..N -> [Divided -> Divided]]
    BY <1>2, <1>4, CopyDivided
<1>6. PICK g \in Turns(N, Divided, c, F) : TRUE
    BY <1>2, <1>5, TurnsExist
<1>7. g \in [0..N -> Divided] /\ g[0] = c /\ \A k \in 1..N : g[k] = F[k][g[k - 1]]
    BY <1>6 DEF Turns
<1>8. ASSUME NEW k \in 1..N PROVE g[k - 1] \in Divided /\ g[k] = Copy(g[k - 1], source, names[k])
  <2>1. k - 1 \in 0..N /\ F[k] = [t \in Divided |-> Copy(t, source, names[k])] /\ g[k] = F[k][g[k - 1]]
    <3>1. k - 1 \in 0..N
        BY <1>2
    <3>2. F[k] = [t \in Divided |-> Copy(t, source, names[k])]
        BY <1>4
    <3> QED BY <1>7, <3>1, <3>2
  <2>2. g[k - 1] \in Divided
      BY <1>7, <2>1
  <2> QED BY <2>1, <2>2
<1>9. g = Rec(g)
    BY <1>7, <1>8
<1>10. copied = Rec(copied)
  <2> HIDE DEF Rec
  <2> QED BY <1>3, <1>9
<1>11. copied = [k \in 0..N |-> copied[k]] /\ copied[0] = g[0]
    BY <1>2, <1>7, <1>10
<1>12. ASSUME NEW k \in 1..N, copied[k - 1] = g[k - 1] PROVE copied[k] = g[k]
  <2>1. copied[k] = Copy(copied[k - 1], source, names[k])
    <3>1. k \in 0..N /\ k # 0
        BY <1>2
    <3> QED BY <1>10, <3>1
  <2> QED BY <1>8, <1>12, <2>1
<1>13. g = [k \in 0..N |-> g[k]]
    BY <1>7
<1>14. copied = g
  <2>1. N \in Nat /\ Alike(N, copied, g)
      BY <1>2, <1>11, <1>12 DEF Alike
  <2>2. SameTurns(N, copied, g)
      BY <2>1, AlikeSame
  <2>3. \A k \in 0..N : copied[k] = g[k]
      BY <2>2 DEF SameTurns
  <2> QED BY <1>11, <1>13, <2>3
<1> QED BY <1>1, <1>7, <1>8, <1>14

\* So does the loop over any names.
LEMMA CopiedKeeps ==
    ASSUME NEW c, NEW p, LineInv(c, p), NEW source \in Lines, NEW names \in Seq(SwitchNames),
           NEW d, d = CopySwitches(c, source, names)
    PROVE  LineInv(d, p) /\ (Behind(c) => Behind(d))
<1>1. PICK copied, N : copied = CopiedUpTo(c, source, names) /\ N = Len(names)
    OBVIOUS
<1>2. N \in Nat /\ \A k \in 1..N : names[k] \in SwitchNames
    BY <1>1
<1>3. /\ copied \in [0..N -> Divided] /\ copied[0] = c
      /\ \A k \in 1..N : copied[k] = Copy(copied[k - 1], source, names[k])
  <2>1. c \in Divided /\ names \in Seq(SwitchNames) /\ source \in Lines /\ copied = CopiedUpTo(c, source, names)
      BY <1>1, InvDivides
  <2>2. /\ copied \in [0..Len(names) -> Divided] /\ copied[0] = c
        /\ \A k \in 1..Len(names) : copied[k] = Copy(copied[k - 1], source, names[k])
      BY ONLY <2>1, Copied
  <2> QED BY <1>1, <2>2
<1> DEFINE Good == {k \in 0..N : LineInv(copied[k], p) /\ (Behind(c) => Behind(copied[k]))}
<1>4. 0 \in Good
    BY <1>2, <1>3
<1>5. ASSUME NEW k \in 1..N, k - 1 \in Good PROVE k \in Good
  <2>1. PICK t, u, name : t = copied[k - 1] /\ u = copied[k] /\ name = names[k]
      OBVIOUS
  <2>2. LineInv(t, p) /\ source \in Lines /\ name \in SwitchNames /\ name # NoText /\ u = Copy(t, source, name)
      BY <1>2, <1>3, <1>5, <2>1, CommandLineAssumption
  <2>3. LineInv(u, p) /\ (Behind(t) => Behind(u))
      BY ONLY <2>2, CopyKeeps
  <2> QED BY <1>2, <1>5, <2>1, <2>3
<1>6. 0..N \subseteq Good
  <2> HIDE DEF Good
  <2> QED BY <1>2, <1>4, <1>5, UpTo
<1>7. N \in Good
    BY <1>2, <1>6
<1> QED BY <1>1, <1>7 DEF CopySwitches

\* The words of a wrapper move all else on.
LEMMA WrapKeeps ==
    ASSUME NEW c, NEW p, LineInv(c, p), NEW words \in Seq(Args),
           NEW d, d = Wrapped(c, words)
    PROVE  LineInv(d, p + Len(words)) /\ (Behind(c) => Behind(d))
<1>1. c \in Lines /\ c.begin_args \in 1..Len(c.argv) /\ Len(c.argv) \in Nat /\ c.begin_args \in Nat
      /\ c.argv \in Seq(Args)
    BY DEF LineInv, Lines
<1>2. PICK b, n, argv, old, w : b = c.begin_args /\ n = Len(c.argv) /\ argv = d.argv /\ old = c.argv /\ w = Len(words)
    OBVIOUS
<1>4. b \in 1..n /\ n \in Nat /\ w \in Nat /\ p \in 1..b
    BY <1>1, <1>2 DEF LineInv, Layout
<1>3. /\ argv \in Seq(Args) /\ Len(argv) = n + w /\ \A i \in (w + 1)..(n + w) : argv[i] = old[i - w]
      /\ d.begin_args = b + w /\ d.switches = c.switches /\ d \in Lines
  <2>1. PICK x : x = words \o old
      OBVIOUS
  <2>2. d = [argv |-> x, switches |-> c.switches, begin_args |-> b + w]
      BY <1>2, <2>1 DEF Wrapped
  <2>3. words \in Seq(Args) /\ old \in Seq(Args) /\ Len(old) = n /\ Len(words) = w
      BY <1>1, <1>2
  <2>4. /\ x \in Seq(Args) /\ Len(x) = Len(words) + Len(old)
        /\ \A i \in 1..(Len(words) + Len(old)) : x[i] = IF i <= Len(words) THEN words[i] ELSE old[i - Len(words)]
      BY ONLY <2>1, <2>3, ConcatProperties
  <2>5. argv = x
      BY <1>2, <2>2
  <2>6. argv \in Seq(Args) /\ Len(argv) = n + w
      BY <1>4, <2>3, <2>4, <2>5
  <2>8. ASSUME NEW i \in (w + 1)..(n + w) PROVE argv[i] = old[i - w]
    <3>1. i \in 1..(Len(words) + Len(old)) /\ ~(i <= Len(words))
        BY <1>4, <2>3
    <3> QED BY <2>3, <2>4, <2>5, <3>1
  <2>9. d.begin_args = b + w /\ d.switches = c.switches
      BY <2>2
  <2>10. c.switches \in SwitchMaps /\ b + w \in Nat
      BY <1>1, <1>4 DEF Lines
  <2>11. d \in Lines
      BY <2>2, <2>4, <2>10 DEF Lines
  <2> QED BY <2>6, <2>8, <2>9, <2>11
<1>5. ASSUME NEW i \in ((p + w) + 1)..(b + w) PROVE i - w \in (p + 1)..b /\ argv[i] = old[i - w]
  <2>1. i \in (w + 1)..(n + w) /\ i - w \in (p + 1)..b
      BY <1>4
  <2> QED BY <1>3, <2>1
<1>6. Layout(d, p + w)
  <2>1. \A i \in (p + 1)..b : IsSwitch(old[i]) /\ Trimmed(old[i]) # Terminator
      BY <1>2 DEF LineInv, Layout
  <2>2. ASSUME NEW i \in ((p + w) + 1)..(b + w) PROVE IsSwitch(argv[i]) /\ Trimmed(argv[i]) # Terminator
    <3>1. i - w \in (p + 1)..b /\ argv[i] = old[i - w]
        BY <1>5
    <3> QED BY <2>1, <3>1
  <2>4. p + w \in 1..(b + w)
      BY <1>4
  <2> QED BY <1>2, <1>3, <2>2, <2>4 DEF Layout
<1>7. MapAgrees(d, p + w)
  <2>1. ASSUME NEW i \in ((p + w) + 1)..d.begin_args PROVE d.argv[i].name \in DOMAIN d.switches
    <3>1. i - w \in (p + 1)..b /\ argv[i] = old[i - w]
        BY <1>3, <1>5
    <3> QED BY <1>2, <1>3, <3>1 DEF LineInv, MapAgrees
  <2>2. ASSUME NEW name \in DOMAIN d.switches
        PROVE  \E i : LastOf(d, p + w, name, i) /\ ValueOf(d.argv[i]) = d.switches[name]
    <3>1. PICK i : LastOf(c, p, name, i) /\ ValueOf(c.argv[i]) = c.switches[name]
        BY <1>3, <2>2 DEF LineInv, MapAgrees
    <3>2. i \in (p + 1)..b /\ old[i].name = name /\ \A j \in (i + 1)..b : old[j].name # name
        BY <1>2, <3>1 DEF LastOf
    <3>3. i + w \in ((p + w) + 1)..(b + w) /\ (i + w) - w = i
        BY <1>4, <3>2
    <3>4. argv[i + w] = old[i]
        BY <1>5, <3>3
    <3>5. ASSUME NEW j \in ((i + w) + 1)..(b + w) PROVE argv[j].name # name
      <4>1. j - w \in (i + 1)..b /\ j \in ((p + w) + 1)..(b + w)
          BY <1>4, <3>2
      <4> QED BY <1>5, <3>2, <4>1
    <3>6. LastOf(d, p + w, name, i + w)
        BY <1>2, <1>3, <3>2, <3>3, <3>4, <3>5 DEF LastOf
    <3> QED BY <1>2, <1>3, <3>1, <3>4, <3>6
  <2> QED BY <2>1, <2>2 DEF MapAgrees
<1>8. LineInv(d, p + w)
  <2>1. d.begin_args \in 1..Len(d.argv)
      BY <1>2, <1>3, <1>4
  <2> QED BY <1>3, <1>6, <1>7, <2>1 DEF LineInv
<1>9. ASSUME Behind(c) PROVE Behind(d)
  <2> SUFFICES ASSUME NEW i \in ((b + w) + 1)..(n + w), IsSwitch(argv[i])
               PROVE  \E j \in ((b + w) + 1)..i : argv[j] = Terminator
      BY <1>2, <1>3, <1>4 DEF Behind
  <2>1. i - w \in (b + 1)..n /\ i \in (w + 1)..(n + w)
      BY <1>4
  <2>4. argv[i] = old[i - w]
      BY <1>3, <2>1
  <2>2. PICK j \in (b + 1)..(i - w) : old[j] = Terminator
      BY <1>2, <1>9, <2>1, <2>4 DEF Behind
  <2>3. j + w \in ((b + w) + 1)..i /\ j + w \in (w + 1)..(n + w) /\ (j + w) - w = j
      BY <1>4, <2>1, <2>2
  <2> QED BY <1>3, <2>2, <2>3
<1> QED BY <1>2, <1>8, <1>9

\* Whatever was appended, copied and wrapped: the line is in order, and with
\* plain arguments only no switch is read behind the divider.
Plain(args) == \A i \in DOMAIN args : args[i].prefix = NoText
CommandInv ==
    wrapped \in Nat /\ LineInv(line, wrapped + 1) /\ raw \in Seq(Args) /\ (Plain(raw) => Behind(line))

\* The argument lists are lists of arguments.
LEMMA ArgvsAre == \A v \in Argvs : v \in Seq(Args) /\ v # <<>>
BY CommandLineAssumption

\* The invariant holds of what a process is started with.
LEMMA CommandInvInit == CommandInit => CommandInv
<1> SUFFICES ASSUME CommandInit PROVE CommandInv
    OBVIOUS
<1>1. PICK v \in Argvs : line = AppendSwitchesAndArguments(NewLine, v)
    BY NewKeeps DEF CommandInit
<1>2. PICK new, p : new = NewLine /\ p = 1
    OBVIOUS
<1>3. LineInv(new, p) /\ v \in Seq(Args) /\ v # <<>> /\ line = AppendSwitchesAndArguments(new, v) /\ Behind(new)
    BY <1>1, <1>2, ArgvsAre, NewKeeps
<1>4. LineInv(line, p) /\ (Behind(new) => Behind(line))
    BY ONLY <1>3, TakenKeeps
<1>5. raw \in Seq(Args) /\ wrapped \in Nat /\ wrapped + 1 = p
    BY <1>2 DEF CommandInit
<1> QED BY <1>3, <1>4, <1>5 DEF CommandInv

\* If all are plain after one more, all were and it is.
LEMMA AppendedPlain ==
    ASSUME NEW args \in Seq(Args), NEW arg \in Args, Plain(Append(args, arg))
    PROVE  Plain(args) /\ ~IsSwitch(arg)
<1>1. PICK more, n : more = Append(args, arg) /\ n = Len(args)
    OBVIOUS
<1>2. /\ n \in Nat /\ more \in Seq(Args) /\ Len(more) = n + 1 /\ more[n + 1] = arg
      /\ DOMAIN args = 1..n /\ DOMAIN more = 1..(n + 1) /\ \A i \in 1..n : more[i] = args[i]
    BY <1>1
<1>3. \A i \in 1..(n + 1) : more[i].prefix = NoText
    BY <1>1, <1>2 DEF Plain
<1>4. more[n + 1].prefix = NoText
    BY <1>2, <1>3
<1>5. \A i \in 1..n : args[i].prefix = NoText
    BY <1>2, <1>3
<1> QED BY <1>2, <1>4, <1>5 DEF Plain, IsSwitch

\* Each edit keeps the line in order, and what is behind the divider.
LEMMA LineChanges ==
    ASSUME [CommandNext]_commandVars, NEW c, c = line, NEW d, d = line',
           NEW p, p = wrapped + 1, wrapped \in Nat,
           LineInv(c, p), raw \in Seq(Args), Plain(raw) => Behind(c)
    PROVE  wrapped' \in Nat /\ LineInv(d, wrapped' + 1) /\ raw' \in Seq(Args) /\ (Plain(raw') => Behind(d))
<1>1. c = line /\ d = line'
    OBVIOUS
<1>2. LineInv(c, p) /\ raw \in Seq(Args) /\ (Plain(raw) => Behind(c)) /\ p = wrapped + 1 /\ wrapped \in Nat
    OBVIOUS
<1>4. CASE AppendSwitch
  <2>1. PICK q \in SwitchPrefixes, n \in SwitchNames, v \in SwitchValues, k \in Blanks :
            line' = AppendSwitchNative(line, [Argument(q, n, v) EXCEPT !.blank = k]) /\ raw' = raw /\ wrapped' = wrapped
      BY <1>4 DEF AppendSwitch, Edit
  <2>2. PICK arg : arg = [Argument(q, n, v) EXCEPT !.blank = k]
      OBVIOUS
  <2>3. arg \in Args /\ arg.name = n /\ n # NoText /\ Trimmed(arg) # Terminator
      BY <2>1, <2>2, CommandLineAssumption DEF Args, Argument, Terminator, Trimmed
  <2>4. LineInv(c, p) /\ arg \in Args /\ (IF IsSwitch(arg) THEN Trimmed(arg) # Terminator ELSE arg.name # NoText)
        /\ d = AppendSwitchNative(c, arg)
      BY <1>1, <1>2, <2>1, <2>2, <2>3
  <2>5. LineInv(d, p) /\ (Behind(c) => Behind(d))
      BY ONLY <2>4, SwitchKeeps
  <2> QED BY <1>2, <2>1, <2>5
<1>5. CASE AppendArg
  <2>1. PICK q \in {NoText, "--"}, n \in Names, k \in Blanks :
          LET arg == [Argument(q, n, NoText) EXCEPT !.blank = k]
          IN  line' = AppendArgNative(line, arg) /\ raw' = Append(raw, arg) /\ wrapped' = wrapped
      BY <1>5 DEF AppendArg, Edit, Names
  <2>2. PICK arg : arg = [Argument(q, n, NoText) EXCEPT !.blank = k]
      OBVIOUS
  <2>3. arg \in Args
      BY <2>1, <2>2, CommandLineAssumption DEF Args, Argument, Names, SwitchPrefixes
  <2>4. LineInv(c, p) /\ arg \in Args /\ d = AppendArgNative(c, arg)
      BY <1>1, <1>2, <2>1, <2>2, <2>3
  <2>5. LineInv(d, p) /\ (Behind(c) /\ (IsSwitch(arg) => arg = Terminator \/ Ended(c)) => Behind(d))
      BY ONLY <2>4, ArgKeeps
  <2>6. raw' = Append(raw, arg) /\ raw' \in Seq(Args) /\ wrapped' = wrapped
      BY <1>2, <2>1, <2>2, <2>3
  <2>7. Plain(raw') => Plain(raw) /\ ~IsSwitch(arg)
      BY <1>2, <2>3, <2>6, AppendedPlain
  <2> QED BY <1>2, <2>5, <2>6, <2>7
<1>6. CASE CopySwitchesFrom
  <2>1. PICK v \in Argvs : line' = CopySwitches(line, InitFromArgv(NewLine, v), SetToSeq(SwitchNames))
                           /\ raw' = raw /\ wrapped' = wrapped
      BY <1>6 DEF CopySwitchesFrom, Edit
  <2>2. PICK new, source, names, one : new = NewLine /\ source = InitFromArgv(NewLine, v)
                                      /\ names = SetToSeq(SwitchNames) /\ one = 1
      OBVIOUS
  <2>3. LineInv(new, one) /\ v \in Seq(Args) /\ v # <<>> /\ source = AppendSwitchesAndArguments(new, v)
      BY <2>1, <2>2, ArgvsAre, NewKeeps
  <2>4. LineInv(source, one)
      BY ONLY <2>3, TakenKeeps
  <2>5. LineInv(c, p) /\ source \in Lines /\ names \in Seq(SwitchNames)
        /\ d = CopySwitches(c, source, names)
      BY <1>1, <1>2, <2>1, <2>2, <2>4, NamesInTurn DEF LineInv
  <2>6. LineInv(d, p) /\ (Behind(c) => Behind(d))
      BY ONLY <2>5, CopiedKeeps
  <2> QED BY <1>2, <2>1, <2>6
<1>7. CASE AppendArguments
  <2>1. PICK v \in Argvs : line' = AppendSwitchesAndArguments(line, v) /\ raw' = raw /\ wrapped' = wrapped
      BY <1>7 DEF AppendArguments, Edit
  <2>2. LineInv(c, p) /\ v \in Seq(Args) /\ v # <<>> /\ d = AppendSwitchesAndArguments(c, v)
      BY <1>1, <1>2, <2>1, ArgvsAre
  <2>3. LineInv(d, p) /\ (Behind(c) => Behind(d))
      BY ONLY <2>2, TakenKeeps
  <2> QED BY <1>2, <2>1, <2>3
<1>8. CASE PrependWrapper
  <2>1. PICK words \in Wrappers : line' = Wrapped(line, words) /\ wrapped' = wrapped + Len(words) /\ raw' = raw
      BY <1>8 DEF PrependWrapper, Edit
  <2>2. words \in Seq(Args)
      BY <2>1, CommandLineAssumption
  <2>4. LineInv(c, p) /\ words \in Seq(Args) /\ d = Wrapped(c, words)
      BY <1>1, <1>2, <2>1, <2>2
  <2>5. LineInv(d, p + Len(words)) /\ (Behind(c) => Behind(d))
      BY ONLY <2>4, WrapKeeps
  <2>6. Len(words) \in Nat /\ p + Len(words) = wrapped' + 1 /\ wrapped' \in Nat
      BY <1>2, <2>1, <2>2
  <2> QED BY <1>2, <2>1, <2>5, <2>6
<1>9. CASE UNCHANGED commandVars
  <2>1. d = c /\ raw' = raw /\ wrapped' = wrapped
      BY <1>1, <1>9 DEF commandVars
  <2> QED BY <1>2, <2>1
<1> QED BY <1>4, <1>5, <1>6, <1>7, <1>8, <1>9 DEF CommandNext

\* Every step keeps the invariant.
LEMMA CommandInvNext ==
    ASSUME CommandInv, [CommandNext]_commandVars
    PROVE  CommandInv'
<1>1. PICK c, d, p : c = line /\ d = line' /\ p = wrapped + 1
    OBVIOUS
<1>2. wrapped' \in Nat /\ LineInv(d, wrapped' + 1) /\ raw' \in Seq(Args) /\ (Plain(raw') => Behind(d))
    BY <1>1, LineChanges DEF CommandInv
<1> QED BY <1>1, <1>2 DEF CommandInv

\* A list of arguments in order: s switches behind the program, and no other
\* that is read as one.
Ordered(v, s) ==
    /\ v \in Seq(Args) /\ s \in 0..(Len(v) - 1)
    /\ \A i \in 2..(s + 1) : IsSwitch(v[i]) /\ Trimmed(v[i]) # Terminator
    /\ \A i \in (s + 2)..Len(v) : IsSwitch(v[i]) => \E j \in (s + 2)..i : v[j] = Terminator

\* Its first n are read: each is where it was, trimmed.
ReadSame(t, v, s, n) ==
    /\ Len(t.line.argv) = n /\ t.line.argv[1] = Program
    /\ \A i \in 2..n : t.line.argv[i] = Trimmed(v[i])
    /\ t.line.begin_args = IF n <= s + 1 THEN n ELSE s + 1
    /\ t.parse => \A i \in 2..n : Trimmed(v[i]) # Terminator
    /\ ~t.parse => \E i \in 2..n : Trimmed(v[i]) = Terminator

\* A turn over a list in order appends it as it is.
LEMMA ReadTurn ==
    ASSUME NEW v, NEW s, Ordered(v, s), NEW n \in 1..(Len(v) - 1),
           NEW t \in Readings, ReadSame(t, v, s, n), NEW u, u = Take(t, v[n + 1])
    PROVE  ReadSame(u, v, s, n + 1)
<1>1. v \in Seq(Args) /\ s \in 0..(Len(v) - 1) /\ Len(v) \in Nat /\ n \in Nat /\ n >= 1 /\ n + 1 \in 1..Len(v)
    BY DEF Ordered
<1>2. PICK arg, c, d : arg = Trimmed(v[n + 1]) /\ c = t.line /\ d = u.line
    OBVIOUS
<1>3. arg \in Args /\ u = Take(t, v[n + 1]) /\ (IsSwitch(arg) <=> IsSwitch(v[n + 1])) /\ Trimmed(Terminator) = Terminator
  <2>1. v[n + 1] \in Args
      BY <1>1
  <2> QED BY <1>2, <2>1, TrimmedIs
<1>4. PICK old, new : old = c.argv /\ new = d.argv
    OBVIOUS
<1>5. /\ Len(old) = n /\ old[1] = Program /\ (\A i \in 2..n : old[i] = Trimmed(v[i]))
      /\ c.begin_args = (IF n <= s + 1 THEN n ELSE s + 1)
    BY <1>2, <1>4 DEF ReadSame
<1>6. c \in Lines /\ old \in Seq(Args) /\ t.parse \in BOOLEAN
    BY <1>2, <1>4 DEF Readings, Divided, Lines
<1>7. (t.parse => \A i \in 2..n : Trimmed(v[i]) # Terminator) /\ (~t.parse => \E i \in 2..n : Trimmed(v[i]) = Terminator)
    BY DEF ReadSame
<1>8. u.parse <=> (t.parse /\ arg # Terminator)
  <2>1. u.parse = (t.parse /\ arg # Terminator)
      BY <1>2, <1>3 DEF Take
  <2> QED BY <1>6, <2>1
<1>9. u.parse => \A i \in 2..(n + 1) : Trimmed(v[i]) # Terminator
  <2> SUFFICES ASSUME u.parse, NEW i \in 2..(n + 1) PROVE Trimmed(v[i]) # Terminator
      OBVIOUS
  <2>1. i \in 2..n \/ i = n + 1
      BY <1>1
  <2> QED BY <1>2, <1>7, <1>8, <2>1
<1>10. ~u.parse => \E i \in 2..(n + 1) : Trimmed(v[i]) = Terminator
  <2> SUFFICES ASSUME ~u.parse PROVE \E i \in 2..(n + 1) : Trimmed(v[i]) = Terminator
      OBVIOUS
  <2>1. CASE t.parse
    <3>1. Trimmed(v[n + 1]) = Terminator /\ n + 1 \in 2..(n + 1)
        BY <1>1, <1>2, <1>8, <2>1
    <3> QED BY <3>1
  <2>2. CASE ~t.parse
    <3>1. PICK i \in 2..n : Trimmed(v[i]) = Terminator
        BY <1>7, <2>2
    <3>2. i \in 2..(n + 1)
        BY <1>1
    <3> QED BY <3>1, <3>2
  <2> QED BY <2>1, <2>2
<1>11. /\ Len(new) = n + 1 /\ new[n + 1] = arg /\ (\A i \in 1..n : new[i] = old[i])
       /\ d.begin_args = (IF n + 1 <= s + 1 THEN n + 1 ELSE s + 1)
  <2>1. CASE n <= s
    <3>1. IsSwitch(arg) /\ arg # Terminator
      <4>1. n + 1 \in 2..(s + 1)
          BY <1>1, <2>1
      <4> QED BY <1>2, <1>3, <4>1 DEF Ordered
    <3>2. t.parse
      <4>1. \A i \in 2..n : i \in 2..(s + 1)
          BY <1>1, <2>1
      <4>2. \A i \in 2..n : Trimmed(v[i]) # Terminator
          BY <4>1 DEF Ordered
      <4> QED BY <1>7, <4>2
    <3>3. d = AppendSwitchNative(c, arg)
        BY <1>2, <1>3, <3>1, <3>2 DEF Take
    <3>4. c.begin_args = n
        BY <1>1, <1>5, <2>1
    <3>5. [arg EXCEPT !.prefix = IF @ = NoText THEN "--" ELSE @] = arg
        BY <1>3, <3>1 DEF IsSwitch, Args
    <3>6. d = [argv |-> InsertAt(old, n + 1, arg), switches |-> Valued(c.switches, arg), begin_args |-> n + 1]
        BY <1>4, <3>3, <3>4, <3>5 DEF AppendSwitchNative
    <3>7. PICK k : k = n + 1
        OBVIOUS
    <3>8. old \in Seq(Args) /\ k \in 1..(Len(old) + 1) /\ arg \in Args /\ new = InsertAt(old, k, arg)
        BY <1>1, <1>3, <1>4, <1>5, <1>6, <3>6, <3>7
    <3>9. Len(new) = Len(old) + 1 /\ new[k] = arg /\ \A i \in 1..(k - 1) : new[i] = old[i]
      <4>1. Moved(Args, old, k, arg, new)
          BY ONLY <3>8, Inserted
      <4> QED BY <4>1 DEF Moved
    <3>10. 1..(k - 1) = 1..n /\ d.begin_args = n + 1 /\ n + 1 <= s + 1
        BY <1>1, <2>1, <3>6, <3>7
    <3> QED BY <1>5, <3>7, <3>9, <3>10
  <2>2. CASE ~(n <= s)
    <3>1. u.parse => ~IsSwitch(arg)
      <4>1. SUFFICES ASSUME IsSwitch(arg) PROVE ~u.parse
          OBVIOUS
      <4>2. n + 1 \in (s + 2)..Len(v)
          BY <1>1, <2>2
      <4>3. PICK j \in (s + 2)..(n + 1) : v[j] = Terminator
          BY <1>2, <1>3, <4>1, <4>2 DEF Ordered
      <4>4. j \in 2..(n + 1)
          BY <1>1
      <4> QED BY <1>3, <1>9, <4>3, <4>4
    <3>2. d = AppendArgNative(c, arg)
        BY <1>2, <1>3, <1>8, <3>1 DEF Take
    <3>3. d = [argv |-> Append(old, arg), switches |-> c.switches, begin_args |-> c.begin_args]
        BY <1>4, <1>6, <3>2 DEF AppendArgNative, Lines
    <3>4. new = Append(old, arg) /\ d.begin_args = c.begin_args
        BY <1>4, <3>3
    <3>5. Len(new) = n + 1 /\ new[n + 1] = arg /\ \A i \in 1..n : new[i] = old[i]
        BY <1>3, <1>5, <1>6, <3>4
    <3>6. c.begin_args = s + 1
        BY <1>1, <1>5, <2>2
    <3> QED BY <1>1, <2>2, <3>4, <3>5, <3>6
  <2> QED BY <2>1, <2>2
<1>12. new[1] = Program
    BY <1>1, <1>5, <1>11
<1>13. ASSUME NEW i \in 2..(n + 1) PROVE new[i] = Trimmed(v[i])
  <2>1. i = n + 1 \/ (i \in 1..n /\ i \in 2..n)
      BY <1>1
  <2> QED BY <1>2, <1>5, <1>11, <2>1
<1> QED BY <1>2, <1>4, <1>9, <1>10, <1>11, <1>12, <1>13 DEF ReadSame

\* A list in order is read as it stands.
LEMMA ReadsInOrder ==
    ASSUME NEW v, NEW s, Ordered(v, s), NEW child, child = AppendSwitchesAndArguments(NewLine, v)
    PROVE  /\ LineInv(child, 1) /\ child.begin_args = s + 1 /\ Len(child.argv) = Len(v)
           /\ \A i \in 2..Len(v) : child.argv[i] = Trimmed(v[i])
<1>1. v \in Seq(Args) /\ s \in 0..(Len(v) - 1) /\ Len(v) \in Nat /\ v # <<>>
    BY DEF Ordered
<1>2. PICK new, taken, N, one : one = 1 /\ new = NewLine /\ taken = TakenUpTo(new, v) /\ N = Len(v) - 1
    OBVIOUS
<1>3. N \in Nat /\ Len(v) = N + 1 /\ s <= N
    BY <1>1, <1>2
<1>4. LineInv(new, one) /\ new.argv = <<Program>> /\ new.begin_args = 1
    BY <1>2, NewKeeps DEF NewLine
<1>5. /\ taken \in [0..N -> Readings] /\ taken[0] = [parse |-> TRUE, line |-> new]
      /\ \A k \in 1..N : taken[k] = Take(taken[k - 1], v[k + 1])
  <2>1. PICK w \in Seq(Args), c \in Divided : w = v /\ c = new
      BY <1>1, <1>4, InvDivides
  <2>2. w # <<>> /\ taken = TakenUpTo(c, w)
      BY <1>1, <1>2, <2>1
  <2>3. /\ taken \in [0..(Len(w) - 1) -> Readings]
        /\ taken[0] = [parse |-> TRUE, line |-> c]
        /\ \A k \in 1..(Len(w) - 1) : taken[k] = Take(taken[k - 1], w[k + 1])
      BY ONLY <2>2, Taken
  <2>4. Len(w) - 1 = N
      BY <1>2, <2>1
  <2> QED BY <2>1, <2>3, <2>4
<1> DEFINE Good == {k \in 0..N : ReadSame(taken[k], v, s, k + 1)}
<1>6. 0 \in Good
  <2>1. PICK t : t = taken[0]
      OBVIOUS
  <2>2. t.parse /\ t.line.argv = <<Program>> /\ t.line.begin_args = 1
      BY <1>4, <1>5, <2>1
  <2>3. 2..1 = {} /\ 1 <= s + 1
      BY <1>1
  <2>4. Len(t.line.argv) = 1 /\ t.line.argv[1] = Program
      BY <2>2
  <2>5. ReadSame(t, v, s, 1)
      BY <2>2, <2>3, <2>4 DEF ReadSame
  <2> QED BY <1>3, <2>1, <2>5
<1>7. ASSUME NEW k \in 1..N, k - 1 \in Good PROVE k \in Good
  <2>1. PICK t, u : t = taken[k - 1] /\ u = taken[k]
      OBVIOUS
  <2>2. k \in 1..(Len(v) - 1) /\ (k - 1) + 1 = k /\ k - 1 \in 0..N /\ k \in 0..N
      BY <1>3
  <2>3. t \in Readings /\ u = Take(t, v[k + 1]) /\ ReadSame(t, v, s, k)
      BY <1>5, <1>7, <2>1, <2>2
  <2>4. Ordered(v, s) /\ k \in 1..(Len(v) - 1)
      BY <2>2
  <2>5. ReadSame(u, v, s, k + 1)
      BY ONLY <2>3, <2>4, ReadTurn
  <2> QED BY <2>1, <2>2, <2>5
<1>8. 0..N \subseteq Good
  <2> HIDE DEF Good
  <2> QED BY <1>3, <1>6, <1>7, UpTo
<1>9. PICK t : t = taken[N]
    OBVIOUS
<1>10. ReadSame(t, v, s, N + 1)
  <2>1. N \in Good
    <3> HIDE DEF Good
    <3> QED BY <1>3, <1>8
  <2> QED BY <1>9, <2>1
<1>11. child = t.line
    BY <1>2, <1>9 DEF AppendSwitchesAndArguments
<1>12. LineInv(child, one)
  <2>1. LineInv(new, one) /\ v \in Seq(Args) /\ v # <<>> /\ child = AppendSwitchesAndArguments(new, v)
      BY <1>1, <1>2, <1>4
  <2> QED BY ONLY <2>1, TakenKeeps
<1>14. child.begin_args = s + 1
  <2>1. child.begin_args = IF N + 1 <= s + 1 THEN N + 1 ELSE s + 1
      BY <1>10, <1>11 DEF ReadSame
  <2> QED BY <1>1, <1>3, <2>1
<1> QED BY <1>2, <1>3, <1>10, <1>11, <1>12, <1>14 DEF ReadSame

\* What stands from the program on is in order.
LEMMA FromProgram ==
    ASSUME NEW c, NEW p, LineInv(c, p), Behind(c),
           NEW v \in Seq(Args), Len(v) = Len(c.argv) - p + 1, \A i \in 1..Len(v) : v[i] = c.argv[p + i - 1]
    PROVE  Ordered(v, c.begin_args - p)
<1>1. c \in Lines /\ c.begin_args \in 1..Len(c.argv) /\ Len(c.argv) \in Nat /\ c.begin_args \in Nat
      /\ c.argv \in Seq(Args) /\ p \in 1..c.begin_args
    BY DEF LineInv, Lines, Layout
<1>2. PICK n, argv, b, s : n = Len(c.argv) /\ argv = c.argv /\ b = c.begin_args /\ s = b - p
    OBVIOUS
<1>3. n \in Nat /\ b \in 1..n /\ p \in 1..b /\ argv \in Seq(Args) /\ Len(argv) = n /\ \A i \in 1..n : argv[i] \in Args
    BY <1>1, <1>2
<1>4. v \in Seq(Args) /\ Len(v) = n - p + 1 /\ \A i \in 1..(n - p + 1) : v[i] = argv[p + i - 1]
    BY <1>2
<1>5. s \in 0..(Len(v) - 1) /\ s + p = b /\ s \in Nat
    BY <1>2, <1>3, <1>4
<1>6. ASSUME NEW i \in 2..(s + 1) PROVE IsSwitch(v[i]) /\ Trimmed(v[i]) # Terminator
  <2>1. i \in 1..(n - p + 1) /\ p + i - 1 \in (p + 1)..b
      BY <1>3, <1>5
  <2> QED BY <1>2, <1>4, <2>1 DEF LineInv, Layout
<1>7. ASSUME NEW i \in (s + 2)..Len(v), IsSwitch(v[i]) PROVE \E j \in (s + 2)..i : v[j] = Terminator
  <2>1. i \in 1..(n - p + 1) /\ p + i - 1 \in (b + 1)..n
      BY <1>3, <1>4, <1>5
  <2>2. IsSwitch(argv[p + i - 1])
      BY <1>4, <1>7, <2>1
  <2>3. PICK j \in (b + 1)..(p + i - 1) : argv[j] = Terminator
      BY <1>2, <2>1, <2>2 DEF Behind
  <2>4. j - p + 1 \in (s + 2)..i /\ j - p + 1 \in 1..(n - p + 1) /\ p + (j - p + 1) - 1 = j
      BY <1>3, <1>5, <2>1, <2>3
  <2> QED BY <1>4, <2>3, <2>4
<1>8. Ordered(v, s)
    BY <1>4, <1>5, <1>6, <1>7 DEF Ordered
<1> QED BY <1>2, <1>8

\* The last switch of a name is one.
LEMMA OneLast ==
    ASSUME NEW c, c.begin_args \in Nat, NEW p \in Nat, NEW name, NEW i, NEW j,
           LastOf(c, p, name, i), LastOf(c, p, name, j)
    PROVE  i = j
<1>1. PICK b : b = c.begin_args
    OBVIOUS
<1>2. b \in Nat /\ i \in (p + 1)..b /\ j \in (p + 1)..b
    BY <1>1 DEF LastOf
<1>3. ~(i \in (j + 1)..b) /\ ~(j \in (i + 1)..b)
    BY <1>1 DEF LastOf
<1> QED BY <1>2, <1>3

\* A line that has the switches of another, trimmed, has its map, trimmed.
LEMMA SameMap ==
    ASSUME NEW c, NEW p, LineInv(c, p), NEW child, LineInv(child, 1),
           child.begin_args = c.begin_args - p + 1,
           \A i \in 2..child.begin_args : child.argv[i] = Trimmed(c.argv[p + i - 1])
    PROVE  child.switches = [name \in DOMAIN c.switches |-> Trimmed(c.switches[name])]
<1>1. PICK b, m, argv, cargv : b = c.begin_args /\ m = child.begin_args /\ argv = c.argv /\ cargv = child.argv
    OBVIOUS
<1>2. b \in Nat /\ p \in 1..b /\ m = b - p + 1 /\ m \in Nat /\ (1 + 1)..m = 2..m
      /\ \A i \in 1..b : argv[i] \in Args
  <2>1. argv \in Seq(Args) /\ b \in 1..Len(argv) /\ Len(argv) \in Nat
      BY <1>1 DEF LineInv, Lines
  <2> QED BY <1>1, <2>1 DEF LineInv, Lines, Layout
<1>3. ASSUME NEW i \in 2..m
      PROVE  /\ p + i - 1 \in (p + 1)..b /\ cargv[i].name = argv[p + i - 1].name
             /\ ValueOf(cargv[i]) = Trimmed(ValueOf(argv[p + i - 1]))
  <2>1. p + i - 1 \in (p + 1)..b /\ p + i - 1 \in 1..b
      BY <1>2
  <2>2. cargv[i] = Trimmed(argv[p + i - 1]) /\ argv[p + i - 1] \in Args
      BY <1>1, <1>2, <2>1
  <2> QED BY <2>1, <2>2, TrimmedIs
<1>5. ASSUME NEW name, NEW i, LastOf(c, p, name, i)
      PROVE  LastOf(child, 1, name, i - p + 1) /\ ValueOf(cargv[i - p + 1]) = Trimmed(ValueOf(argv[i]))
  <2>1. i \in (p + 1)..b /\ argv[i].name = name /\ \A j \in (i + 1)..b : argv[j].name # name
      BY <1>1, <1>5 DEF LastOf
  <2>2. i - p + 1 \in 2..m /\ p + (i - p + 1) - 1 = i
      BY <1>2, <2>1
  <2>3. ASSUME NEW j \in ((i - p + 1) + 1)..m PROVE cargv[j].name # name
    <3>1. j \in 2..m /\ p + j - 1 \in (i + 1)..b
        BY <1>2, <2>2
    <3>2. cargv[j].name = argv[p + j - 1].name
        BY <1>3, <3>1
    <3> QED BY <2>1, <3>1, <3>2
  <2>4. cargv[i - p + 1].name = name /\ ValueOf(cargv[i - p + 1]) = Trimmed(ValueOf(argv[i]))
      BY <1>3, <2>1, <2>2
  <2> QED BY <1>1, <1>2, <2>2, <2>3, <2>4 DEF LastOf
<1>6. DOMAIN child.switches \subseteq DOMAIN c.switches
  <2> SUFFICES ASSUME NEW name \in DOMAIN child.switches PROVE name \in DOMAIN c.switches
      OBVIOUS
  <2>1. PICK i : LastOf(child, 1, name, i)
      BY DEF LineInv, MapAgrees
  <2>2. i \in 2..m /\ cargv[i].name = name
      BY <1>1, <1>2, <2>1 DEF LastOf
  <2>3. p + i - 1 \in (p + 1)..b /\ argv[p + i - 1].name = name
      BY <1>3, <2>2
  <2> QED BY <1>1, <2>3 DEF LineInv, MapAgrees
<1>7. ASSUME NEW name \in DOMAIN c.switches
      PROVE  name \in DOMAIN child.switches /\ child.switches[name] = Trimmed(c.switches[name])
  <2>1. PICK i : LastOf(c, p, name, i) /\ ValueOf(argv[i]) = c.switches[name]
      BY <1>1 DEF LineInv, MapAgrees
  <2>2. LastOf(child, 1, name, i - p + 1) /\ ValueOf(cargv[i - p + 1]) = Trimmed(ValueOf(argv[i]))
      BY <1>5, <2>1
  <2>3. name \in DOMAIN child.switches
      BY <2>2 DEF LineInv, MapAgrees, LastOf
  <2>4. PICK j : LastOf(child, 1, name, j) /\ ValueOf(cargv[j]) = child.switches[name]
      BY <1>1, <2>3 DEF LineInv, MapAgrees
  <2>5. j = i - p + 1
      BY <1>1, <1>2, <2>2, <2>4, OneLast
  <2> QED BY <2>1, <2>2, <2>3, <2>4, <2>5
<1>8. PICK f, g : f = child.switches /\ g = c.switches
    OBVIOUS
<1>9. \E D : f \in [D -> Texts]
  <2>1. f \in SwitchMaps
      BY <1>8 DEF LineInv, Lines
  <2> QED BY <2>1 DEF SwitchMaps
<1>10. DOMAIN f = DOMAIN g /\ \A name \in DOMAIN g : f[name] = Trimmed(g[name])
    BY <1>6, <1>7, <1>8
<1>11. f = [name \in DOMAIN f |-> f[name]]
    BY <1>9
<1> QED BY <1>8, <1>10, <1>11

\* Where an element is first.
FirstAt(s, e, k) == k \in 1..Len(s) /\ s[k] = e /\ \A j \in 1..(k - 1) : s[j] # e

\* RemoveFirst() takes the first, and those behind it move up.
LEMMA Removed ==
    ASSUME NEW s \in Seq(Args), NEW e, NEW k, FirstAt(s, e, k), NEW t, t = RemoveFirst(s, e)
    PROVE  /\ t \in Seq(Args) /\ Len(t) = Len(s) - 1
           /\ \A i \in 1..(Len(s) - 1) : t[i] = s[IF i < k THEN i ELSE i + 1]
<1>1. PICK n : n = Len(s)
    OBVIOUS
<1>2. n \in Nat /\ k \in 1..n /\ s[k] = e /\ (\A j \in 1..(k - 1) : s[j] # e) /\ \A i \in 1..n : s[i] \in Args
    BY <1>1 DEF FirstAt
<1> DEFINE I == {i \in 1..n : s[i] = e}
<1>3. k \in I /\ \A j \in I : j \in Nat /\ k <= j
    BY <1>2
<1>4. SelectInSeq(s, LAMBDA v : v = e) = Min(I)
    BY <1>1, <1>3 DEF SelectInSeq
<1>5. Min(I) = k
  <2> HIDE DEF I
  <2>1. \A j \in I : (\A i \in I : j <= i) => j = k
      BY <1>2, <1>3
  <2> QED BY <1>3, <2>1 DEF Min
<1>6. t = RemoveAt(s, k)
  <2>1. \E i \in 1..Len(s) : s[i] = e
      BY <1>1, <1>2
  <2> QED BY <1>4, <1>5, <2>1 DEF RemoveFirst
<1>7. PICK a, b : a = SubSeq(s, 1, k - 1) /\ b = SubSeq(s, k + 1, n)
    OBVIOUS
<1>8. a \in Seq(Args) /\ Len(a) = k - 1 /\ \A i \in 1..(k - 1) : a[i] = s[i]
  <2>1. \A i \in 1..(k - 1) : s[i] \in Args
      BY <1>2
  <2> QED BY <1>2, <1>7, <2>1, SubSeqProperties
<1>9. b \in Seq(Args) /\ Len(b) = n - k /\ \A i \in 1..(n - k) : b[i] = s[k + i]
  <2>1. \A i \in (k + 1)..n : s[i] \in Args
      BY <1>2
  <2>2. /\ b \in Seq(Args) /\ Len(b) = (IF k + 1 <= n THEN n - (k + 1) + 1 ELSE 0)
        /\ \A i \in 1..(n - (k + 1) + 1) : b[i] = s[(k + 1) + i - 1]
      BY <1>2, <1>7, <2>1, SubSeqProperties
  <2>3. n - (k + 1) + 1 = n - k /\ \A i \in 1..(n - k) : (k + 1) + i - 1 = k + i
      BY <1>2
  <2> QED BY <1>2, <2>2, <2>3
<1>10. t = a \o b
    BY <1>1, <1>6, <1>7 DEF RemoveAt
<1>11. /\ t \in Seq(Args) /\ Len(t) = Len(a) + Len(b)
       /\ \A i \in 1..(Len(a) + Len(b)) : t[i] = IF i <= Len(a) THEN a[i] ELSE b[i - Len(a)]
  <2>1. a \in Seq(Args) /\ b \in Seq(Args) /\ t = a \o b
      BY <1>8, <1>9, <1>10
  <2> QED BY ONLY <2>1, ConcatProperties
<1>12. Len(t) = n - 1 /\ Len(a) + Len(b) = n - 1
    BY <1>2, <1>8, <1>9, <1>11
<1>13. ASSUME NEW i \in 1..(n - 1) PROVE t[i] = s[IF i < k THEN i ELSE i + 1]
  <2>1. CASE i < k
    <3>1. i \in 1..(k - 1) /\ i <= Len(a) /\ i \in 1..(Len(a) + Len(b))
        BY <1>2, <1>8, <1>12, <2>1
    <3>2. t[i] = a[i]
        BY <1>11, <3>1
    <3>3. a[i] = s[i]
        BY <1>8, <3>1
    <3> QED BY <2>1, <3>2, <3>3
  <2>2. CASE ~(i < k)
    <3>1. i - (k - 1) \in 1..(n - k) /\ ~(i <= Len(a)) /\ i \in 1..(Len(a) + Len(b)) /\ k + (i - (k - 1)) = i + 1
        BY <1>2, <1>8, <1>12, <2>2
    <3>2. t[i] = b[i - (k - 1)]
        BY <1>8, <1>11, <3>1
    <3>3. b[i - (k - 1)] = s[i + 1]
        BY <1>9, <3>1
    <3> QED BY <2>2, <3>2, <3>3
  <2> QED BY <2>1, <2>2
<1> QED BY <1>1, <1>11, <1>12, <1>13

\* The first terminator is removed where it would be of the arguments trimmed,
\* if none that only trimming makes one is before it.
LEMMA RemovedTrimmed ==
    ASSUME NEW x \in Seq(Args), NEW y \in Seq(Args), Len(y) = Len(x),
           \A i \in 1..Len(x) : y[i] = Trimmed(x[i]),
           \A i \in 1..Len(x) : Trimmed(x[i]) = Terminator => \E j \in 1..i : x[j] = Terminator,
           NEW r, r = RemoveFirst(x, Terminator), NEW q, q = RemoveFirst(y, Terminator)
    PROVE  q = [i \in DOMAIN r |-> Trimmed(r[i])]
<1>1. PICK n : n = Len(x)
    OBVIOUS
<1>2. /\ n \in Nat /\ Len(x) = n /\ Len(y) = n /\ DOMAIN x = 1..n /\ DOMAIN y = 1..n
      /\ (\A i \in 1..n : y[i] = Trimmed(x[i])) /\ Trimmed(Terminator) = Terminator
      /\ \A i \in 1..n : Trimmed(x[i]) = Terminator => \E j \in 1..i : x[j] = Terminator
    BY <1>1 DEF Trimmed, Terminator, Argument
<1>3. CASE \A i \in 1..n : x[i] # Terminator
  <2>1. ASSUME NEW i \in 1..n PROVE y[i] # Terminator
    <3>1. ASSUME Trimmed(x[i]) = Terminator PROVE FALSE
      <4>1. PICK j \in 1..i : x[j] = Terminator
          BY <1>2, <3>1
      <4>2. j \in 1..n
          BY <1>2
      <4> QED BY <1>3, <4>1, <4>2
    <3> QED BY <1>2, <3>1
  <2>2. r = x /\ q = y
      BY <1>2, <1>3, <2>1 DEF RemoveFirst
  <2>3. y = [i \in 1..n |-> y[i]]
      BY <1>2
  <2> QED BY <1>2, <2>2, <2>3
<1>4. CASE \E i \in 1..n : x[i] = Terminator
  <2> DEFINE S == {i \in 1..n : x[i] = Terminator}
  <2>1. PICK k \in S : \A i \in S : k <= i
    <3>1. S \subseteq Nat /\ S # {}
        BY <1>2, <1>4
    <3> HIDE DEF S
    <3> QED BY <3>1, LeastNat
  <2>2. k \in 1..n /\ x[k] = Terminator /\ \A j \in 1..(k - 1) : x[j] # Terminator
    <3>1. ASSUME NEW j \in 1..(k - 1), x[j] = Terminator PROVE FALSE
      <4>1. j \in 1..n /\ ~(k <= j)
          BY <1>2, <2>1
      <4> QED BY <2>1, <3>1, <4>1
    <3> QED BY <2>1, <3>1
  <2>3. FirstAt(x, Terminator, k)
      BY <1>2, <2>2 DEF FirstAt
  <2>4. ASSUME NEW j \in 1..(k - 1) PROVE y[j] # Terminator
    <3>1. j \in 1..n
        BY <1>2, <2>2
    <3>2. ASSUME Trimmed(x[j]) = Terminator PROVE FALSE
      <4>1. PICK i \in 1..j : x[i] = Terminator
          BY <1>2, <3>1, <3>2
      <4>2. i \in 1..(k - 1)
          BY <2>2
      <4> QED BY <2>2, <4>1, <4>2
    <3> QED BY <1>2, <3>1, <3>2
  <2>5. FirstAt(y, Terminator, k)
      BY <1>2, <2>2, <2>4 DEF FirstAt
  <2>6. r \in Seq(Args) /\ Len(r) = n - 1 /\ \A i \in 1..(n - 1) : r[i] = x[IF i < k THEN i ELSE i + 1]
    <3>1. x \in Seq(Args) /\ FirstAt(x, Terminator, k) /\ r = RemoveFirst(x, Terminator)
        BY <2>3
    <3>2. /\ r \in Seq(Args) /\ Len(r) = Len(x) - 1
          /\ \A i \in 1..(Len(x) - 1) : r[i] = x[IF i < k THEN i ELSE i + 1]
        BY ONLY <3>1, Removed
    <3> QED BY <1>2, <3>2
  <2>7. q \in Seq(Args) /\ Len(q) = n - 1 /\ \A i \in 1..(n - 1) : q[i] = y[IF i < k THEN i ELSE i + 1]
    <3>1. y \in Seq(Args) /\ FirstAt(y, Terminator, k) /\ q = RemoveFirst(y, Terminator)
        BY <2>5
    <3>2. /\ q \in Seq(Args) /\ Len(q) = Len(y) - 1
          /\ \A i \in 1..(Len(y) - 1) : q[i] = y[IF i < k THEN i ELSE i + 1]
        BY ONLY <3>1, Removed
    <3> QED BY <1>2, <3>2
  <2>8. ASSUME NEW i \in 1..(n - 1) PROVE q[i] = Trimmed(r[i])
    <3>1. PICK j : j = IF i < k THEN i ELSE i + 1
        OBVIOUS
    <3>2. j \in 1..n /\ q[i] = y[j] /\ r[i] = x[j]
        BY <1>2, <2>2, <2>6, <2>7, <3>1
    <3> QED BY <1>2, <3>2
  <2>9. DOMAIN r = 1..(n - 1) /\ q = [i \in 1..(n - 1) |-> q[i]]
      BY <1>2, <2>2, <2>6, <2>7
  <2> QED BY <2>8, <2>9
<1> QED BY <1>3, <1>4

\* The same arguments behind the divider, trimmed.
LEMMA SameArgs ==
    ASSUME NEW c, NEW p, LineInv(c, p), Behind(c), NEW child, LineInv(child, 1),
           child.begin_args = c.begin_args - p + 1, Len(child.argv) = Len(c.argv) - p + 1,
           \A i \in 2..Len(child.argv) : child.argv[i] = Trimmed(c.argv[p + i - 1]),
           NEW r, r = GetArgs(c), NEW q, q = GetArgs(child)
    PROVE  q = [i \in DOMAIN r |-> Trimmed(r[i])]
<1>1. PICK b, n, m, k, argv, cargv : /\ b = c.begin_args /\ n = Len(c.argv) /\ argv = c.argv
                                    /\ m = child.begin_args /\ k = Len(child.argv) /\ cargv = child.argv
    OBVIOUS
<1>2. /\ b \in 1..n /\ n \in Nat /\ p \in 1..b /\ m = b - p + 1 /\ k = n - p + 1 /\ m \in Nat /\ k \in Nat
      /\ argv \in Seq(Args) /\ Len(argv) = n /\ cargv \in Seq(Args) /\ Len(cargv) = k
    BY <1>1 DEF LineInv, Lines, Layout
<1>3. PICK x, y : x = SubSeq(argv, b + 1, n) /\ y = SubSeq(cargv, m + 1, k)
    OBVIOUS
<1>4. x \in Seq(Args) /\ Len(x) = n - b /\ \A i \in 1..(n - b) : x[i] = argv[b + i]
  <2>1. b + 1 \in 1..(Len(argv) + 1) /\ n \in ((b + 1) - 1)..Len(argv) /\ \A i \in (b + 1)..n : argv[i] \in Args
      BY <1>2
  <2>2. /\ SubSeq(argv, b + 1, n) \in Seq(Args) /\ Len(SubSeq(argv, b + 1, n)) = n - (b + 1) + 1
        /\ \A i \in 1..(n - (b + 1) + 1) : SubSeq(argv, b + 1, n)[i] = argv[(b + 1) + i - 1]
      BY <1>2, <2>1, SubSeqProperties
  <2>3. n - (b + 1) + 1 = n - b /\ \A i \in 1..(n - b) : (b + 1) + i - 1 = b + i
      BY <1>2
  <2> QED BY <1>3, <2>2, <2>3
<1>5. y \in Seq(Args) /\ Len(y) = k - m /\ \A i \in 1..(k - m) : y[i] = cargv[m + i]
  <2>1. m + 1 \in 1..(Len(cargv) + 1) /\ k \in ((m + 1) - 1)..Len(cargv) /\ \A i \in (m + 1)..k : cargv[i] \in Args
      BY <1>2
  <2>2. /\ SubSeq(cargv, m + 1, k) \in Seq(Args) /\ Len(SubSeq(cargv, m + 1, k)) = k - (m + 1) + 1
        /\ \A i \in 1..(k - (m + 1) + 1) : SubSeq(cargv, m + 1, k)[i] = cargv[(m + 1) + i - 1]
      BY <1>2, <2>1, SubSeqProperties
  <2>3. k - (m + 1) + 1 = k - m /\ \A i \in 1..(k - m) : (m + 1) + i - 1 = m + i
      BY <1>2
  <2> QED BY <1>3, <2>2, <2>3
<1>6. k - m = n - b
    BY <1>2
<1>7. ASSUME NEW i \in 1..(n - b) PROVE y[i] = Trimmed(x[i])
  <2>1. m + i \in 2..k /\ p + (m + i) - 1 = b + i
      BY <1>2
  <2>2. cargv[m + i] = Trimmed(argv[b + i])
      BY <1>1, <2>1
  <2> QED BY <1>4, <1>5, <1>6, <2>2
<1>8. ASSUME NEW i \in 1..(n - b), Trimmed(x[i]) = Terminator PROVE \E j \in 1..i : x[j] = Terminator
  <2>1. b + i \in (b + 1)..n /\ x[i] = argv[b + i] /\ x[i] \in Args
      BY <1>2, <1>4
  <2>2. IsSwitch(argv[b + i])
    <3>1. IsSwitch(Terminator)
        BY DEF IsSwitch, Terminator, Argument, NoText
    <3> QED BY <1>8, <2>1, <3>1, TrimmedIs
  <2>3. PICK j \in (b + 1)..(b + i) : argv[j] = Terminator
      BY <1>1, <2>1, <2>2 DEF Behind
  <2>4. j - b \in 1..i /\ j - b \in 1..(n - b) /\ b + (j - b) = j
    <3>1. b \in Nat /\ n \in Nat /\ i \in 1..(n - b) /\ j \in (b + 1)..(b + i)
        BY <1>2
    <3> QED BY ONLY <3>1
  <2>5. x[j - b] = argv[b + (j - b)]
      BY <1>4, <2>4
  <2> QED BY <2>3, <2>4, <2>5
<1>9. r = RemoveFirst(x, Terminator) /\ q = RemoveFirst(y, Terminator)
    BY <1>1, <1>3 DEF GetArgs
<1>10. /\ x \in Seq(Args) /\ y \in Seq(Args) /\ Len(y) = Len(x)
       /\ \A i \in 1..Len(x) : y[i] = Trimmed(x[i])
       /\ \A i \in 1..Len(x) : Trimmed(x[i]) = Terminator => \E j \in 1..i : x[j] = Terminator
    BY <1>4, <1>5, <1>6, <1>7, <1>8
<1> QED BY ONLY <1>9, <1>10, RemovedTrimmed

\* What CommandInv says of the process that is started with argv_.
LEMMA LineReadsBack ==
    ASSUME CommandInv PROVE ArgvReadsBack
<1>1. PICK c, p : c = line /\ p = wrapped + 1
    OBVIOUS
<1>2. LineInv(c, p) /\ (Plain(raw) => Behind(c)) /\ wrapped \in Nat
    BY <1>1 DEF CommandInv
<1>3. p \in 1..c.begin_args /\ \A i \in (p + 1)..c.begin_args : IsSwitch(c.argv[i])
    BY <1>2 DEF LineInv, Layout
<1>4. c.begin_args \in Nat /\ c.begin_args \in 1..Len(c.argv) /\ Len(c.argv) \in Nat /\ p + 1 = wrapped + 2
    BY <1>1, <1>2 DEF LineInv, Lines
<1>5. ASSUME NEW name \in DOMAIN c.switches, NEW last,
             last = SelectLastInSubSeq(c.argv, wrapped + 2, c.begin_args, LAMBDA arg : arg.name = name)
      PROVE  last # 0 /\ ValueOf(c.argv[last]) = c.switches[name]
  <2> DEFINE I == {i \in (p + 1)..c.begin_args : c.argv[i].name = name}
  <2>1. last = IF I # {} THEN Max(I) ELSE 0
      BY <1>4, <1>5 DEF SelectLastInSubSeq
  <2>2. PICK i : LastOf(c, p, name, i) /\ ValueOf(c.argv[i]) = c.switches[name]
      BY <1>2 DEF LineInv, MapAgrees
  <2>3. i \in I /\ \A j \in I : ~(j \in (i + 1)..c.begin_args)
      BY <2>2 DEF LastOf
  <2>4. I \subseteq (p + 1)..c.begin_args
      OBVIOUS
  <2> HIDE DEF I
  <2>5. \A j \in I : j \in Nat /\ j > 0 /\ i >= j
      BY <1>3, <1>4, <2>3, <2>4
  <2>6. Max(I) = i
    <3>2. \A k \in I : (\A j \in I : k >= j) => k = i
        BY <2>3, <2>5
    <3> QED BY <2>3, <2>5, <3>2 DEF Max
  <2> QED BY <2>1, <2>2, <2>3, <2>5, <2>6
<1>6. ASSUME Plain(raw), NEW child, child = InitFromArgv(NewLine, SubSeq(c.argv, p, Len(c.argv))),
             NEW r, r = GetArgs(c), NEW q, q = GetArgs(child)
      PROVE  /\ child.switches = [name \in DOMAIN c.switches |-> Trimmed(c.switches[name])]
             /\ q = [i \in DOMAIN r |-> Trimmed(r[i])]
  <2>1. PICK v, s : v = SubSeq(c.argv, p, Len(c.argv)) /\ s = c.begin_args - p
      OBVIOUS
  <2>2. Ordered(v, s) /\ Len(v) = Len(c.argv) - p + 1 /\ \A i \in 1..Len(v) : v[i] = c.argv[p + i - 1]
    <3>1. PICK argv, n : argv = c.argv /\ n = Len(argv)
        OBVIOUS
    <3>2. argv \in Seq(Args) /\ n \in Nat /\ n = Len(argv) /\ p \in 1..n /\ v = SubSeq(argv, p, n)
        BY <1>2, <1>3, <1>4, <2>1, <3>1 DEF LineInv, Lines
    <3>3. v \in Seq(Args) /\ Len(v) = n - p + 1 /\ \A i \in 1..(n - p + 1) : v[i] = argv[p + i - 1]
      <4>1. p \in 1..(Len(argv) + 1) /\ n \in (p - 1)..Len(argv) /\ \A i \in p..n : argv[i] \in Args
          BY <3>2
      <4> QED BY ONLY <3>2, <4>1, SubSeqProperties
    <3>4. v \in Seq(Args) /\ Len(v) = Len(c.argv) - p + 1 /\ \A i \in 1..Len(v) : v[i] = c.argv[p + i - 1]
        BY <3>1, <3>3
    <3>5. Ordered(v, c.begin_args - p)
        BY <1>2, <1>6, <3>4, FromProgram
    <3> QED BY <2>1, <3>4, <3>5
  <2>3. child = AppendSwitchesAndArguments(NewLine, v)
      BY <1>6, <2>1, NewKeeps
  <2>4. /\ LineInv(child, 1) /\ child.begin_args = s + 1 /\ Len(child.argv) = Len(v)
        /\ \A i \in 2..Len(v) : child.argv[i] = Trimmed(v[i])
      BY ONLY <2>2, <2>3, ReadsInOrder
  <2>5. Len(v) \in Nat /\ child.begin_args = c.begin_args - p + 1 /\ Len(child.argv) = Len(c.argv) - p + 1
      BY <1>3, <1>4, <2>1, <2>2, <2>4
  <2>6. \A i \in 2..Len(child.argv) : child.argv[i] = Trimmed(c.argv[p + i - 1])
      BY <2>2, <2>4, <2>5
  <2>7. \A i \in 2..child.begin_args : i \in 2..Len(child.argv)
      BY <1>3, <1>4, <2>5
  <2>8. child.switches = [name \in DOMAIN c.switches |-> Trimmed(c.switches[name])]
    <3>1. /\ LineInv(c, p) /\ LineInv(child, 1) /\ child.begin_args = c.begin_args - p + 1
          /\ \A i \in 2..child.begin_args : child.argv[i] = Trimmed(c.argv[p + i - 1])
        BY <1>2, <2>4, <2>5, <2>6, <2>7
    <3> QED BY ONLY <3>1, SameMap
  <2>9. q = [i \in DOMAIN r |-> Trimmed(r[i])]
    <3>1. /\ LineInv(c, p) /\ Behind(c) /\ LineInv(child, 1) /\ child.begin_args = c.begin_args - p + 1
          /\ Len(child.argv) = Len(c.argv) - p + 1
          /\ \A i \in 2..Len(child.argv) : child.argv[i] = Trimmed(c.argv[p + i - 1])
          /\ r = GetArgs(c) /\ q = GetArgs(child)
        BY <1>2, <1>6, <2>4, <2>5, <2>6
    <3> QED BY ONLY <3>1, SameArgs
  <2> QED BY <2>8, <2>9
<1>7. wrapped < c.begin_args /\ c.begin_args <= Len(c.argv)
    BY <1>1, <1>2, <1>3, <1>4
<1>8. \A i \in (wrapped + 2)..c.begin_args : IsSwitch(c.argv[i])
    BY <1>3, <1>4
<1>9. \A name \in DOMAIN line.switches :
        LET last == SelectLastInSubSeq(line.argv, wrapped + 2, line.begin_args, LAMBDA arg : arg.name = name)
        IN  last # 0 /\ ValueOf(line.argv[last]) = line.switches[name]
    BY <1>1, <1>5
<1>10. PICK child, r, q : child = InitFromArgv(NewLine, SubSeq(line.argv, wrapped + 1, Len(line.argv)))
                          /\ r = GetArgs(line) /\ q = GetArgs(child)
    OBVIOUS
<1>11. (\A i \in DOMAIN raw : raw[i].prefix = NoText) =>
         /\ child.switches = [name \in DOMAIN line.switches |-> Trimmed(line.switches[name])]
         /\ q = [i \in DOMAIN r |-> Trimmed(r[i])]
    BY <1>1, <1>6, <1>10 DEF Plain
<1> QED BY <1>1, <1>7, <1>8, <1>9, <1>10, <1>11 DEF ArgvReadsBack

\* Whatever is edited in whatever order, by whatever words it is wrapped: argv_
\* is the wrappers' words, the program, switches and arguments, the map is what
\* the last switches say, and a process that is started from the program on
\* reads the same switches and arguments of it, but for white space around them.
THEOREM CommandReadsBack == CommandSpec => []ArgvReadsBack
<1>1. CommandInit => CommandInv
    BY CommandInvInit
<1>2. CommandInv /\ [CommandNext]_commandVars => CommandInv'
    BY CommandInvNext
<1>3. CommandInv => ArgvReadsBack
    BY LineReadsBack
<1> QED BY <1>1, <1>2, <1>3, PTL DEF CommandSpec

----------------------------------------------------------------------------
(* Conversions: widths, quotients, and loops over digits.                   *)

Spans(n) ==
    LET span[k \in 0..n] == IF k = 0 THEN 1 ELSE 16 * span[k - 1]
    IN  span

\* The powers of 16, turn by turn.
LEMMA SpanLoop ==
    ASSUME NEW n \in Nat, NEW span, span = Spans(n)
    PROVE  span \in [0..n -> Int] /\ span[0] = 1 /\ \A k \in 1..n : span[k] = 16 * span[k - 1]
<1> DEFINE Rec(h) == [k \in 0..n |-> IF k = 0 THEN 1 ELSE 16 * h[k - 1]]
<1>1. PICK F : F = [k \in 1..n |-> [t \in Int |-> 16 * t]]
    OBVIOUS
<1>2. F \in [1..n -> [Int -> Int]]
    BY <1>1
<1>3. PICK g \in Turns(n, Int, 1, F) : TRUE
  <2>1. PICK S, base : S = Int /\ base = 1
      OBVIOUS
  <2>2. n \in Nat /\ base \in S /\ F \in [1..n -> [S -> S]]
      BY <1>2, <2>1
  <2>3. Turns(n, S, base, F) # {}
      BY ONLY <2>2, TurnsExist
  <2> QED BY <2>1, <2>3
<1>4. g \in [0..n -> Int] /\ g[0] = 1 /\ \A k \in 1..n : g[k] = F[k][g[k - 1]]
    BY <1>3 DEF Turns
<1>5. ASSUME NEW k \in 1..n PROVE g[k] = 16 * g[k - 1]
  <2>1. k - 1 \in 0..n
      OBVIOUS
  <2> QED BY <1>1, <1>4, <2>1
<1>6. g = Rec(g)
    BY <1>4, <1>5
<1>7. span = Rec(span)
  <2>1. span = CHOOSE h : h = Rec(h)
      BY DEF Spans
  <2> HIDE DEF Rec
  <2> QED BY <1>6, <2>1
<1>8. span[0] = g[0] /\ span = [k \in 0..n |-> span[k]]
    BY <1>4, <1>7
<1>9. ASSUME NEW k \in 1..n, span[k - 1] = g[k - 1] PROVE span[k] = g[k]
  <2>1. k \in 0..n /\ k # 0
      OBVIOUS
  <2>2. span[k] = 16 * span[k - 1]
      BY <1>7, <2>1
  <2> QED BY <1>5, <1>9, <2>2
<1>10. \A k \in 0..n : span[k] = g[k]
  <2>1. n \in Nat /\ span[0] = g[0] /\ \A k \in 1..n : span[k - 1] = g[k - 1] => span[k] = g[k]
      BY <1>8, <1>9
  <2> QED BY ONLY <2>1, TurnsAgree
<1>11. span = g
    BY <1>4, <1>8, <1>10
<1> QED BY <1>4, <1>5, <1>11

\* One more digit writes 16 times as many numbers.
LEMMA SpanRec ==
    ASSUME NEW n \in Nat
    PROVE  Span(0) = 1 /\ Span(n) \in Int /\ Span(n + 1) = 16 * Span(n)
<1>1. PICK s : s = Spans(n + 1)
    OBVIOUS
<1>2. PICK m \in Nat : m = n + 1
    OBVIOUS
<1>3. s \in [0..m -> Int] /\ s[0] = 1 /\ \A k \in 1..m : s[k] = 16 * s[k - 1]
    BY <1>1, <1>2, SpanLoop
<1>4. ASSUME NEW j \in 0..m PROVE Span(j) = s[j]
  <2>1. PICK u : u = Spans(j)
      OBVIOUS
  <2>2. j \in Nat /\ \A k \in 1..j : k \in 1..m
      OBVIOUS
  <2>3. u[0] = 1 /\ \A k \in 1..j : u[k] = 16 * u[k - 1]
      BY <2>1, <2>2, SpanLoop
  <2>4. j \in Nat /\ u[0] = s[0] /\ \A k \in 1..j : u[k - 1] = s[k - 1] => u[k] = s[k]
      BY <1>3, <2>2, <2>3
  <2>5. \A k \in 0..j : u[k] = s[k]
      BY ONLY <2>4, TurnsAgree
  <2>6. Span(j) = u[j]
      BY <2>1 DEF Span, Spans
  <2> QED BY <2>5, <2>6
<1>5. 0 \in 0..m /\ n \in 0..m /\ m \in 0..m /\ m \in 1..m /\ m - 1 = n
    BY <1>2
<1>6. s[m] = 16 * s[n]
    BY <1>3, <1>5
<1> QED BY <1>2, <1>3, <1>4, <1>5, <1>6

\* More digits write more numbers.
LEMMA SpanGrows ==
    ASSUME NEW n \in Nat, NEW m \in 0..n
    PROVE  Span(m) \in Nat /\ Span(m) > 0 /\ Span(m) <= Span(n)
<1>1. ASSUME NEW i \in Nat PROVE Span(i) \in Nat /\ Span(i) > 0
  <2> DEFINE Good == {j \in 0..i : Span(j) \in Nat /\ Span(j) > 0}
  <2>1. 0 \in Good
      BY SpanRec
  <2>2. ASSUME NEW j \in 1..i, j - 1 \in Good PROVE j \in Good
    <3>1. PICK k \in Nat : k = j - 1 /\ k + 1 = j
        OBVIOUS
    <3>2. Span(k + 1) = 16 * Span(k)
        BY SpanRec
    <3> QED BY <2>2, <3>1, <3>2
  <2>3. 0..i \subseteq Good
    <3> HIDE DEF Good
    <3> QED BY <2>1, <2>2, UpTo
  <2> QED BY <2>3
<1> DEFINE Good == {j \in 0..(n - m) : Span(m) <= Span(m + j)}
<1>2. 0 \in Good
    BY <1>1
<1>3. ASSUME NEW j \in 1..(n - m), j - 1 \in Good PROVE j \in Good
  <2>1. PICK k \in Nat : k = m + (j - 1) /\ k + 1 = m + j
      OBVIOUS
  <2>2. Span(k + 1) = 16 * Span(k) /\ Span(k) \in Nat
      BY <1>1, SpanRec
  <2> QED BY <1>1, <1>3, <2>1, <2>2
<1>4. 0..(n - m) \subseteq Good
  <2>1. n - m \in Nat
      OBVIOUS
  <2> HIDE DEF Good
  <2> QED BY <1>2, <1>3, <2>1, UpTo
<1>5. n - m \in Good /\ m + (n - m) = n
    BY <1>4
<1> QED BY <1>1, <1>5

\* An int has at least 8 bits, half of its values are negative, and one digit
\* less writes an eighth of those that are not.
LEMMA WidthIs ==
    ASSUME WidthAssumption
    PROVE  /\ Half \in Nat /\ Half >= 128 /\ Unsigneds = 2 * Half
           /\ Nibbles - 1 \in Nat /\ Half = 8 * Span(Nibbles - 1)
<1>1. PICK n \in Nat : n + 2 = Nibbles
  <2>1. Nibbles \in Nat /\ Nibbles # 0 /\ Nibbles # 1
      BY DEF WidthAssumption
  <2>2. Nibbles - 2 \in Nat /\ (Nibbles - 2) + 2 = Nibbles
      BY <2>1
  <2> QED BY <2>2
<1>2. Span(n) \in Nat /\ Span(n) > 0
  <2>1. n \in 0..n
      OBVIOUS
  <2> QED BY <2>1, SpanGrows
<1>3. PICK m \in Nat : m = n + 1 /\ m + 1 = Nibbles /\ m = Nibbles - 1
    BY <1>1
<1>4. Span(m) = 16 * Span(n) /\ Span(Nibbles) = 16 * Span(m)
  <2>1. Span(n + 1) = 16 * Span(n) /\ Span(m + 1) = 16 * Span(m)
      BY SpanRec
  <2> QED BY <1>3, <2>1
<1>5. PICK s \in Nat : s = Span(n)
    BY <1>2
<1>6. Unsigneds = 256 * s /\ Half = 128 * s /\ Span(m) = 16 * s /\ s > 0
  <2>1. Unsigneds = 256 * s
      BY <1>4, <1>5 DEF Unsigneds
  <2> QED BY <1>2, <1>4, <1>5, <2>1 DEF Half
<1> QED BY <1>3, <1>6

\* What a type holds.
TypeRange(kind) == IF kind = "StringToUint" THEN 0..(Unsigneds - 1) ELSE (-Half)..(Half - 1)

\* A type holds its own values as they are, and of any number one of them.
LEMMA WrapIs ==
    ASSUME WidthAssumption, NEW kind \in Kinds, NEW n \in Int
    PROVE  Wrap(kind, n) \in TypeRange(kind) /\ (n \in TypeRange(kind) => Wrap(kind, n) = n)
<1>1. PICK u, h : u = Unsigneds /\ h = Half
    OBVIOUS
<1>2. h \in Nat /\ h >= 128 /\ u = 2 * h /\ u \in Nat /\ u > 0
    BY <1>1, WidthIs
<1>3. PICK r : r = n % u
    OBVIOUS
<1>4. r \in 0..(u - 1)
    BY <1>2, <1>3, Division
<1>5. Wrap(kind, n) = IF kind = "StringToUint" \/ r < h THEN r ELSE r - u
    BY <1>1, <1>3 DEF Wrap
<1>6. Wrap(kind, n) \in TypeRange(kind)
    BY <1>1, <1>2, <1>4, <1>5 DEF TypeRange
<1>7. ASSUME n \in 0..(u - 1) PROVE r = n
  <2>1. u \in Nat /\ n \in 0..(u - 1) /\ 0 \in Int /\ n \in Int /\ n = u * 0 + n
      BY <1>2, <1>7
  <2>2. n % u = n
      BY ONLY <2>1, DivisionIs
  <2> QED BY <1>3, <2>2
<1>8. ASSUME n \in (-u)..(-1) PROVE r = n + u
  <2>1. PICK m : m = n + u
      OBVIOUS
  <2>2. u \in Nat /\ m \in 0..(u - 1) /\ -1 \in Int /\ n \in Int /\ n = u * (-1) + m
      BY <1>2, <1>8, <2>1
  <2>3. n % u = m
      BY ONLY <2>2, DivisionIs
  <2> QED BY <1>3, <2>1, <2>3
<1>9. ASSUME n \in TypeRange(kind) PROVE Wrap(kind, n) = n
  <2>1. CASE kind = "StringToUint"
    <3>1. n \in 0..(u - 1)
        BY <1>1, <1>9, <2>1 DEF TypeRange
    <3>2. r = n
        BY <1>7, <3>1
    <3>3. Wrap(kind, n) = r
        BY <1>5, <2>1
    <3> QED BY <3>2, <3>3
  <2>2. CASE kind # "StringToUint" /\ n >= 0
    <3>1. n \in 0..(h - 1) /\ n \in 0..(u - 1)
        BY <1>1, <1>2, <1>9, <2>2 DEF TypeRange
    <3>2. r = n /\ r < h
        BY <1>2, <1>7, <3>1
    <3> QED BY <1>5, <3>2
  <2>3. CASE kind # "StringToUint" /\ n < 0
    <3>1. n \in (-u)..(-1) /\ n \in (-h)..(-1)
        BY <1>1, <1>2, <1>9, <2>3 DEF TypeRange
    <3>2. r = n + u
        BY <1>8, <3>1
    <3>3. ~(r < h)
        BY <1>2, <3>1, <3>2
    <3> QED BY <1>2, <1>5, <2>3, <3>1, <3>2, <3>3
  <2> QED BY <1>9, <2>1, <2>2, <2>3 DEF TypeRange
<1> QED BY <1>6, <1>9

\* A number within the bounds of a conversion.
Fits(kind, n) == Traits(kind).min <= n /\ n <= Traits(kind).max

\* The bound on the digit is the bound on the number, in either sign.
LEMMA BoundsExact ==
    ASSUME WidthAssumption, NEW kind \in Kinds, NEW sign \in {1, -1},
           kind = "StringToUint" => sign = 1,
           NEW a \in Nat, NEW d \in 0..(Traits(kind).base - 1)
    PROVE  CheckBounds(Traits(kind), sign, sign * a, d)
             <=> Fits(kind, sign * (a * Traits(kind).base + d))
<1>1. PICK t, b, max, min : t = Traits(kind) /\ b = t.base /\ max = t.max /\ min = t.min
    OBVIOUS
<1>2. PICK h : h = Half
    OBVIOUS
<1>3. h \in Nat /\ h >= 128 /\ Unsigneds = 2 * h
    BY <1>2, WidthIs
<1>4. /\ b \in {10, 16} /\ max \in Nat
      /\ min = IF kind = "StringToUint" THEN 0 ELSE -h
    BY <1>1, <1>2, <1>3 DEF Traits, Kinds
<1>5. d \in 0..(b - 1)
    BY <1>1
<1>6. CASE sign = 1
  <2>1. CheckBounds(t, sign, sign * a, d) <=> a < max \div b \/ (a = max \div b /\ d <= max % b)
      BY <1>1, <1>6 DEF CheckBounds
  <2>2. Fits(kind, sign * (a * b + d)) <=> a * b + d <= max
      BY <1>1, <1>3, <1>4, <1>5, <1>6 DEF Fits
  <2>3. a * b + d <= max <=> a < max \div b \/ (a = max \div b /\ d <= max % b)
    <3>1. CASE b = 10
        BY <1>4, <1>5, <3>1
    <3>2. CASE b = 16
        BY <1>4, <1>5, <3>2
    <3> QED BY <1>4, <3>1, <3>2
  <2> QED BY <1>1, <2>1, <2>2, <2>3
<1>7. CASE sign = -1
  <2>1. min = -h /\ min < 0
      BY <1>3, <1>4, <1>7
  <2>2. Quotient(min, b) = -(h \div b) /\ -Remainder(min, b) = h % b
    <3>1. CASE b = 10
        BY <1>3, <2>1, <3>1 DEF Quotient, Remainder
    <3>2. CASE b = 16
        BY <1>3, <2>1, <3>2 DEF Quotient, Remainder
    <3> QED BY <1>4, <3>1, <3>2
  <2>3. CheckBounds(t, sign, sign * a, d) <=> a < h \div b \/ (a = h \div b /\ d <= h % b)
    <3>1. CheckBounds(t, sign, sign * a, d)
            <=> -a > -(h \div b) \/ (-a = -(h \div b) /\ d <= h % b)
        BY <1>1, <1>7, <2>2 DEF CheckBounds
    <3>2. h \div b \in Int
        BY <1>3, <1>4
    <3> QED BY <3>1, <3>2
  <2>4. Fits(kind, sign * (a * b + d)) <=> a * b + d <= h
    <3>1. PICK e \in Nat : e = a * b + d
        BY <1>4, <1>5
    <3>2. sign * e = -e
        BY <1>7
    <3>3. Fits(kind, -e) <=> -h <= -e /\ -e <= max
        BY <1>1, <2>1 DEF Fits
    <3>4. Fits(kind, sign * e) <=> e <= h
        BY <1>3, <1>4, <3>1, <3>2, <3>3
    <3> QED BY <3>1, <3>4
  <2>5. a * b + d <= h <=> a < h \div b \/ (a = h \div b /\ d <= h % b)
    <3>1. CASE b = 10
        BY <1>3, <1>5, <3>1
    <3>2. CASE b = 16
        BY <1>3, <1>5, <3>2
    <3> QED BY <1>4, <3>1, <3>2
  <2> QED BY <1>1, <2>3, <2>4, <2>5
<1> QED BY <1>6, <1>7

\* The characters of a set that a text begins with end at the first other one.
LEMMA LeadingIs ==
    ASSUME NEW s, Len(s) \in Nat, NEW C, NEW n, n = Leading(s, C)
    PROVE  /\ n \in 0..Len(s) /\ \A i \in 1..n : s[i] \in C
           /\ n < Len(s) => s[n + 1] \notin C
<1>1. PICK S : S = {k \in 0..Len(s) : \A i \in 1..k : s[i] \in C}
    OBVIOUS
<1>2. S \subseteq 0..Len(s) /\ 0 \in S
    BY <1>1
<1>3. PICK m \in S : \A y \in S : y <= m
    BY <1>2, GreatestNat
<1>4. n \in S /\ \A y \in S : n >= y
  <2>1. n = CHOOSE x \in S : \A y \in S : x >= y
      BY <1>1 DEF Leading, Max
  <2>2. \A y \in S : m >= y
      BY <1>2, <1>3
  <2> QED BY <1>3, <2>1, <2>2
<1>5. ASSUME n < Len(s), s[n + 1] \in C PROVE FALSE
  <2>1. n + 1 \in 0..Len(s) /\ \A i \in 1..(n + 1) : i = n + 1 \/ i \in 1..n
      BY <1>2, <1>4, <1>5
  <2>2. n + 1 \in S
      BY <1>1, <1>4, <1>5, <2>1
  <2>3. n \in Int
      BY <1>2, <1>4
  <2> QED BY <1>4, <2>2, <2>3
<1> QED BY <1>1, <1>4, <1>5

Numbers(base, digits, n) ==
    LET number[k \in 0..n] == IF k = 0 THEN 0 ELSE number[k - 1] * base + digits[k]
    IN  number

\* The number of some digits, digit by digit.
LEMMA NumberLoop ==
    ASSUME NEW n \in Nat, NEW b \in Int, NEW digits, \A k \in 1..n : digits[k] \in Int,
           NEW number, number = Numbers(b, digits, n)
    PROVE  /\ number \in [0..n -> Int] /\ number[0] = 0
           /\ \A k \in 1..n : number[k] = number[k - 1] * b + digits[k]
<1> DEFINE Rec(h) == [k \in 0..n |-> IF k = 0 THEN 0 ELSE h[k - 1] * b + digits[k]]
<1>1. PICK F : F = [k \in 1..n |-> [t \in Int |-> t * b + digits[k]]]
    OBVIOUS
<1>2. F \in [1..n -> [Int -> Int]]
  <2>1. \A k \in 1..n : \A t \in Int : t * b + digits[k] \in Int
      OBVIOUS
  <2> QED BY <1>1, <2>1
<1>3. PICK g \in Turns(n, Int, 0, F) : TRUE
  <2>1. PICK S, base : S = Int /\ base = 0
      OBVIOUS
  <2>2. n \in Nat /\ base \in S /\ F \in [1..n -> [S -> S]]
      BY <1>2, <2>1
  <2>3. Turns(n, S, base, F) # {}
      BY ONLY <2>2, TurnsExist
  <2> QED BY <2>1, <2>3
<1>4. g \in [0..n -> Int] /\ g[0] = 0 /\ \A k \in 1..n : g[k] = F[k][g[k - 1]]
    BY <1>3 DEF Turns
<1>5. ASSUME NEW k \in 1..n PROVE g[k] = g[k - 1] * b + digits[k]
  <2>1. k - 1 \in 0..n
      OBVIOUS
  <2> QED BY <1>1, <1>4, <2>1
<1>6. g = Rec(g)
    BY <1>4, <1>5
<1>7. number = Rec(number)
  <2>1. number = CHOOSE h : h = Rec(h)
      BY DEF Numbers
  <2> HIDE DEF Rec
  <2> QED BY <1>6, <2>1
<1>8. number[0] = g[0] /\ number = [k \in 0..n |-> number[k]]
    BY <1>4, <1>7
<1>9. ASSUME NEW k \in 1..n, number[k - 1] = g[k - 1] PROVE number[k] = g[k]
  <2>1. k \in 0..n /\ k # 0
      OBVIOUS
  <2>2. number[k] = number[k - 1] * b + digits[k]
      BY <1>7, <2>1
  <2> QED BY <1>5, <1>9, <2>2
<1>10. \A k \in 0..n : number[k] = g[k]
  <2>1. n \in Nat /\ number[0] = g[0] /\ \A k \in 1..n : number[k - 1] = g[k - 1] => number[k] = g[k]
      BY <1>8, <1>9
  <2> QED BY ONLY <2>1, TurnsAgree
<1>11. number = g
    BY <1>4, <1>8, <1>10
<1> QED BY <1>4, <1>5, <1>11

\* What begins alike stands for the same number.
LEMMA NumberSame ==
    ASSUME NEW n \in Nat, NEW b \in Int, NEW digits, \A k \in 1..n : digits[k] \in Int,
           NEW other, NEW m \in 0..n, \A k \in 1..m : other[k] = digits[k]
    PROVE  Number(b, other, m) = Numbers(b, digits, n)[m]
<1>1. PICK s, u : s = Numbers(b, digits, n) /\ u = Numbers(b, other, m)
    OBVIOUS
<1>2. m \in Nat /\ \A k \in 1..m : k \in 1..n
    OBVIOUS
<1>3. s[0] = 0 /\ \A k \in 1..n : s[k] = s[k - 1] * b + digits[k]
    BY <1>1, NumberLoop
<1>4. u[0] = 0 /\ \A k \in 1..m : u[k] = u[k - 1] * b + other[k]
  <2>1. \A k \in 1..m : other[k] \in Int
      BY <1>2
  <2> QED BY <1>1, <1>2, <2>1, NumberLoop
<1>5. m \in Nat /\ u[0] = s[0] /\ \A k \in 1..m : u[k - 1] = s[k - 1] => u[k] = s[k]
    BY <1>2, <1>3, <1>4
<1>6. \A k \in 0..m : u[k] = s[k]
    BY ONLY <1>5, TurnsAgree
<1>7. Number(b, other, m) = u[m]
    BY <1>1 DEF Number, Numbers
<1> QED BY <1>1, <1>6, <1>7

\* One more digit.
LEMMA NumberRec ==
    ASSUME NEW n \in Nat, NEW b \in Int, NEW digits, \A k \in 1..n : digits[k] \in Int, NEW m \in 1..n
    PROVE  /\ Number(b, digits, 0) = 0 /\ Number(b, digits, m - 1) \in Int
           /\ Number(b, digits, m) = Number(b, digits, m - 1) * b + digits[m]
<1>1. PICK s : s = Numbers(b, digits, n)
    OBVIOUS
<1>2. s \in [0..n -> Int] /\ s[0] = 0 /\ \A k \in 1..n : s[k] = s[k - 1] * b + digits[k]
    BY <1>1, NumberLoop
<1>3. \A k \in 0..n : Number(b, digits, k) = s[k]
    BY <1>1, NumberSame
<1>4. 0 \in 0..n /\ m \in 0..n /\ m - 1 \in 0..n
    OBVIOUS
<1> QED BY <1>2, <1>3, <1>4

\* No digits stand for 0.
LEMMA NumberZero ==
    ASSUME NEW b \in Int, NEW digits
    PROVE  Number(b, digits, 0) = 0
<1>1. PICK n, s : n = 0 /\ s = Numbers(b, digits, n)
    OBVIOUS
<1>2. n \in Nat /\ \A k \in 1..n : digits[k] \in Int
    BY <1>1
<1>3. s[0] = 0
    BY <1>1, <1>2, NumberLoop
<1> QED BY <1>1, <1>3 DEF Number, Numbers

\* Digits of a base.
DigitsOf(b, digits, n) == \A k \in 1..n : digits[k] \in 0..(b - 1)

\* A number has no smaller one for more of its digits.
LEMMA NumberGrows ==
    ASSUME NEW n \in Nat, NEW b \in {10, 16}, NEW digits, DigitsOf(b, digits, n), NEW j \in 0..n
    PROVE  /\ Number(b, digits, j) \in Nat
           /\ j > 0 => Number(b, digits, j - 1) <= Number(b, digits, j)
<1>1. b \in Int /\ \A k \in 1..n : digits[k] \in Int /\ digits[k] \in 0..(b - 1)
    BY DEF DigitsOf
<1>2. ASSUME NEW m \in 1..n
      PROVE  /\ Number(b, digits, 0) = 0 /\ Number(b, digits, m - 1) \in Int
             /\ Number(b, digits, m) = Number(b, digits, m - 1) * b + digits[m]
  <2>1. \A k \in 1..n : digits[k] \in Int
      BY <1>1
  <2> QED BY <1>1, <2>1, NumberRec
<1>3. Number(b, digits, 0) = 0
    BY <1>1, NumberZero
<1> DEFINE Good == {m \in 0..n : Number(b, digits, m) \in Nat}
<1>4. 0 \in Good
    BY <1>3
<1>5. ASSUME NEW m \in 1..n, m - 1 \in Good PROVE m \in Good
  <2>1. PICK x, d : x = Number(b, digits, m - 1) /\ d = digits[m]
      OBVIOUS
  <2>2. x \in Nat /\ d \in 0..(b - 1) /\ Number(b, digits, m) = x * b + d
      BY <1>1, <1>2, <1>5, <2>1
  <2> QED BY <2>2
<1>6. 0..n \subseteq Good
  <2> HIDE DEF Good
  <2> QED BY <1>4, <1>5, UpTo
<1>7. ASSUME j > 0 PROVE Number(b, digits, j - 1) <= Number(b, digits, j)
  <2>1. j \in 1..n /\ j - 1 \in 0..n
      BY <1>7
  <2>2. PICK x, d : x = Number(b, digits, j - 1) /\ d = digits[j]
      OBVIOUS
  <2>3. x \in Nat /\ d \in 0..(b - 1) /\ Number(b, digits, j) = x * b + d
      BY <1>1, <1>2, <1>6, <2>1, <2>2
  <2> QED BY <2>2, <2>3
<1> QED BY <1>6, <1>7

\* Hexadecimal digits stand for one of the numbers that as many write.
LEMMA NumberSpan ==
    ASSUME NEW n \in Nat, NEW digits, DigitsOf(16, digits, n)
    PROVE  Number(16, digits, n) < Span(n)
<1> DEFINE Good == {m \in 0..n : Number(16, digits, m) < Span(m)}
<1>1. 0 \in Good
  <2>1. Number(16, digits, 0) = 0
      BY NumberZero
  <2> QED BY <2>1, SpanRec
<1>2. ASSUME NEW m \in 1..n, m - 1 \in Good PROVE m \in Good
  <2>1. PICK i \in Nat : i = m - 1 /\ i + 1 = m
      OBVIOUS
  <2>2. \A k \in 1..n : digits[k] \in Int
      BY DEF DigitsOf
  <2>3. Number(16, digits, m - 1) \in Int /\ Number(16, digits, m) = Number(16, digits, m - 1) * 16 + digits[m]
      BY <2>2, NumberRec
  <2>4. Span(i) \in Int /\ Span(i + 1) = 16 * Span(i)
      BY SpanRec
  <2>5. digits[m] \in 0..15
      BY DEF DigitsOf
  <2>6. Number(16, digits, i) < Span(i)
      BY <1>2, <2>1
  <2> QED BY <2>1, <2>3, <2>4, <2>5, <2>6
<1>3. 0..n \subseteq Good
  <2> HIDE DEF Good
  <2> QED BY <1>1, <1>2, UpTo
<1>4. n \in 0..n
    OBVIOUS
<1> QED BY <1>3, <1>4

\* What a conversion with no bounds to keep returns.
Results(kind) == [valid : BOOLEAN, output : TypeRange(kind)]
Bound(kind, sign) == IF sign = 1 THEN Traits(kind).max ELSE Traits(kind).min

\* The traits are numbers, and every type has 0.
LEMMA TraitsAre ==
    ASSUME WidthAssumption, NEW kind \in Kinds
    PROVE  /\ Traits(kind).base \in {10, 16} /\ Traits(kind).max \in Nat /\ Traits(kind).min \in Int
           /\ Traits(kind).max >= 15 /\ (kind # "StringToUint" => Traits(kind).min <= -15)
           /\ Traits(kind).min <= 0 /\ 0 \in TypeRange(kind)
<1>1. PICK h : h = Half
    OBVIOUS
<1>2. h \in Nat /\ h >= 128 /\ Unsigneds = 2 * h
    BY <1>1, WidthIs
<1>3. 0 \in TypeRange(kind)
    BY <1>1, <1>2 DEF TypeRange
<1>4. /\ Traits(kind).base = IF kind = "HexStringToInt" THEN 16 ELSE 10
      /\ Traits(kind).min = IF kind = "StringToUint" THEN 0 ELSE -h
      /\ Traits(kind).max = IF kind = "StringToInt" THEN h - 1 ELSE 2 * h - 1
    BY <1>1, <1>2 DEF Traits
<1> QED BY <1>2, <1>3, <1>4

\* A turn returns a number of the type.
LEMMA DigitTyped ==
    ASSUME WidthAssumption, NEW kind \in Kinds, NEW sign \in {1, -1}, NEW r \in Results(kind),
           NEW c \in Int, NEW first \in BOOLEAN
    PROVE  Digit(kind, sign, r, c, first) \in Results(kind)
<1>1. PICK b : b = Traits(kind).base
    OBVIOUS
<1>2. b \in Int /\ Traits(kind).max \in Int /\ Traits(kind).min \in Int
    BY <1>1, TraitsAre
<1>3. r.valid \in BOOLEAN /\ r.output \in TypeRange(kind) /\ r.output \in Int
  <2>1. Half \in Int /\ Unsigneds \in Int
      BY WidthIs
  <2> QED BY <2>1 DEF Results, TypeRange
<1>4. PICK n \in Int : n = r.output * b + sign * c
    BY <1>2, <1>3
<1>5. PICK m \in Int : m = IF sign = 1 THEN Traits(kind).max ELSE Traits(kind).min
    BY <1>2
<1>6. Wrap(kind, n) \in TypeRange(kind) /\ Wrap(kind, m) \in TypeRange(kind)
    BY WrapIs
<1>7. \/ Digit(kind, sign, r, c, first) = r
      \/ Digit(kind, sign, r, c, first) = [valid |-> FALSE, output |-> r.output]
      \/ Digit(kind, sign, r, c, first) = [valid |-> FALSE, output |-> Wrap(kind, m)]
      \/ Digit(kind, sign, r, c, first) = [valid |-> TRUE, output |-> Wrap(kind, n)]
    BY <1>1, <1>4, <1>5 DEF Digit
<1>8. [valid |-> FALSE, output |-> r.output] \in Results(kind)
    BY <1>3 DEF Results
<1>9. [valid |-> FALSE, output |-> Wrap(kind, m)] \in Results(kind)
      /\ [valid |-> TRUE, output |-> Wrap(kind, n)] \in Results(kind)
    BY <1>6 DEF Results
<1> QED BY <1>7, <1>8, <1>9

\* The digits are read turn by turn.
LEMMA ReadLoop ==
    ASSUME WidthAssumption, NEW kind \in Kinds, NEW sign \in {1, -1}, NEW digits \in Seq(Int),
           NEW read, read = ReadUpTo(kind, sign, digits)
    PROVE  /\ read \in [0..Len(digits) -> Results(kind)]
           /\ read[0] = [valid |-> digits # <<>>, output |-> 0]
           /\ \A k \in 1..Len(digits) : read[k] = Digit(kind, sign, read[k - 1], digits[k], k = 1)
<1>0. PICK n, first : n = Len(digits) /\ first = [valid |-> digits # <<>>, output |-> 0]
    OBVIOUS
<1>1. n \in Nat /\ \A k \in 1..n : digits[k] \in Int
    BY <1>0
<1> DEFINE Rec(h) == [k \in 0..n |-> IF k = 0 THEN first ELSE Digit(kind, sign, h[k - 1], digits[k], k = 1)]
<1>2. PICK F : F = [k \in 1..n |-> [t \in Results(kind) |-> Digit(kind, sign, t, digits[k], k = 1)]]
    OBVIOUS
<1>3. F \in [1..n -> [Results(kind) -> Results(kind)]]
  <2>1. ASSUME NEW k \in 1..n, NEW t \in Results(kind)
        PROVE  Digit(kind, sign, t, digits[k], k = 1) \in Results(kind)
    <3>1. digits[k] \in Int /\ (k = 1) \in BOOLEAN
        BY <1>1
    <3> QED BY <3>1, DigitTyped
  <2> QED BY <1>2, <2>1
<1>4. first \in Results(kind)
    BY <1>0, TraitsAre DEF Results
<1>5. PICK g \in Turns(n, Results(kind), first, F) : TRUE
  <2>1. PICK S, base, N : S = Results(kind) /\ base = first /\ N = n
      OBVIOUS
  <2>2. N \in Nat /\ base \in S /\ F \in [1..N -> [S -> S]]
      BY <1>1, <1>3, <1>4, <2>1
  <2>3. Turns(N, S, base, F) # {}
      BY ONLY <2>2, TurnsExist
  <2> QED BY <2>1, <2>3
<1>6. g \in [0..n -> Results(kind)] /\ g[0] = first /\ \A k \in 1..n : g[k] = F[k][g[k - 1]]
    BY <1>5 DEF Turns
<1>7. ASSUME NEW k \in 1..n PROVE g[k] = Digit(kind, sign, g[k - 1], digits[k], k = 1)
  <2>1. k - 1 \in 0..n
      BY <1>1
  <2>2. g[k - 1] \in Results(kind)
      BY <1>6, <2>1
  <2> QED BY <1>2, <1>6, <2>2
<1>8. g = Rec(g)
    BY <1>1, <1>6, <1>7
<1>9. read = Rec(read)
  <2>1. read = CHOOSE h : h = Rec(h)
      BY <1>0 DEF ReadUpTo
  <2> HIDE DEF Rec
  <2> QED BY <1>8, <2>1
<1>10. read[0] = g[0] /\ read = [k \in 0..n |-> read[k]]
    BY <1>1, <1>6, <1>9
<1>11. ASSUME NEW k \in 1..n, read[k - 1] = g[k - 1] PROVE read[k] = g[k]
  <2>1. k \in 0..n /\ k # 0
      BY <1>1
  <2>2. read[k] = Digit(kind, sign, read[k - 1], digits[k], k = 1)
      BY <1>9, <2>1
  <2> QED BY <1>7, <1>11, <2>2
<1>12. \A k \in 0..n : read[k] = g[k]
  <2>1. n \in Nat /\ Alike(n, read, g)
      BY <1>1, <1>10, <1>11 DEF Alike
  <2>2. SameTurns(n, read, g)
      BY <2>1, AlikeSame
  <2> QED BY <2>2 DEF SameTurns
<1>13. read = g
    BY <1>6, <1>10, <1>12
<1> QED BY <1>0, <1>6, <1>7, <1>13

\* What reading returns for a number: it, or the bound that it is beyond.
Nearest(kind, sign, n) == Wrap(kind, IF Fits(kind, n) THEN n ELSE Bound(kind, sign))

\* A digit c comes behind the number a, and makes n of it.
NextDigit(kind, sign, r, c, first, a, n) ==
    /\ kind \in Kinds /\ sign \in {1, -1} /\ (kind = "StringToUint" => sign = 1)
    /\ r \in Results(kind) /\ r.valid = TRUE /\ a \in Nat /\ r.output = sign * a
    /\ CharToDigit(Traits(kind).base, c) /\ first \in BOOLEAN /\ (first => a = 0)
    /\ n = sign * (a * Traits(kind).base + c)

\* A turn adds a digit to the number, or finds that it does not fit.
LEMMA DigitTurn ==
    ASSUME WidthAssumption, NEW kind, NEW sign, NEW r, NEW c, NEW first, NEW a, NEW n,
           NextDigit(kind, sign, r, c, first, a, n)
    PROVE  Digit(kind, sign, r, c, first) = [valid |-> Fits(kind, n), output |-> Nearest(kind, sign, n)]
<1>0. /\ kind \in Kinds /\ sign \in {1, -1} /\ (kind = "StringToUint" => sign = 1)
      /\ r \in Results(kind) /\ r.valid = TRUE /\ a \in Nat /\ r.output = sign * a
      /\ CharToDigit(Traits(kind).base, c) /\ first \in BOOLEAN /\ (first => a = 0)
      /\ n = sign * (a * Traits(kind).base + c)
    BY DEF NextDigit
<1>1. PICK b : b = Traits(kind).base
    BY <1>0
<1>2. b \in {10, 16} /\ c \in 0..(b - 1)
    BY <1>0, <1>1, TraitsAre DEF CharToDigit
<1>3. r.output * b + sign * c = n
  <2>1. CASE sign = 1
      BY <1>0, <1>1, <1>2, <2>1
  <2>2. CASE sign = -1
    <3>1. r.output = -a /\ sign * c = -c
        BY <1>0, <1>2, <2>2
    <3>2. PICK e \in Nat : e = a * b + c
        BY <1>0, <1>2
    <3>3. n = -e
        BY <1>0, <1>1, <2>2, <3>2
    <3>4. (-a) * b = -(a * b)
        BY <1>0, <1>2
    <3> QED BY <1>0, <1>2, <3>1, <3>2, <3>3, <3>4
  <2> QED BY <1>0, <2>1, <2>2
<1>4. first => Fits(kind, n)
  <2> SUFFICES ASSUME first PROVE Fits(kind, n)
      BY <1>0
  <2>1. a * b + c = c
      BY <1>0, <1>2
  <2>2. n = sign * c
      BY <1>0, <1>1, <2>1
  <2>3. PICK max, min : max = Traits(kind).max /\ min = Traits(kind).min
      BY <1>0
  <2>4. max >= 15 /\ (sign = -1 => min <= -15) /\ min <= 0 /\ max \in Nat /\ min \in Int
      BY <1>0, <2>3, TraitsAre
  <2>5. min <= n /\ n <= max
    <3>1. CASE sign = 1
        BY <1>0, <1>2, <2>2, <2>4, <3>1
    <3>2. CASE sign = -1
      <4>1. n = -c
          BY <1>0, <1>2, <2>2, <3>2
      <4> QED BY <1>0, <1>2, <2>4, <3>2, <4>1
    <3> QED BY <1>0, <3>1, <3>2
  <2> QED BY <1>0, <2>3, <2>5 DEF Fits
<1>5. ~first => (CheckBounds(Traits(kind), sign, r.output, c) <=> Fits(kind, n))
  <2>1. c \in 0..(Traits(kind).base - 1)
      BY <1>0, <1>1, <1>2
  <2>2. CheckBounds(Traits(kind), sign, sign * a, c) <=> Fits(kind, sign * (a * Traits(kind).base + c))
      BY <1>0, <2>1, BoundsExact
  <2> QED BY <1>0, <2>2
<1>6. CASE Fits(kind, n)
  <2>1. Digit(kind, sign, r, c, first) = [valid |-> TRUE, output |-> Wrap(kind, n)]
      BY <1>0, <1>1, <1>3, <1>5, <1>6 DEF Digit
  <2>2. Nearest(kind, sign, n) = Wrap(kind, n) /\ Fits(kind, n) = TRUE
      BY <1>0, <1>6 DEF Nearest
  <2> QED BY <1>0, <2>1, <2>2
<1>7. CASE ~Fits(kind, n)
  <2>1. Digit(kind, sign, r, c, first) = [valid |-> FALSE, output |-> Wrap(kind, Bound(kind, sign))]
      BY <1>0, <1>4, <1>5, <1>7 DEF Digit, Bound
  <2>2. Nearest(kind, sign, n) = Wrap(kind, Bound(kind, sign)) /\ Fits(kind, n) = FALSE
      BY <1>0, <1>7 DEF Nearest, Fits
  <2> QED BY <1>0, <2>1, <2>2
<1> QED BY <1>0, <1>6, <1>7

\* The digits that count after k of them, the first g of which are digits.
Counted(k, g) == IF k <= g THEN k ELSE g

\* What has been read after k digits.
Reading(kind, sign, digits, g, k, r) ==
    LET n == sign * Number(Traits(kind).base, digits, Counted(k, g))
    IN  /\ r.valid = (digits # <<>> /\ k <= g /\ Fits(kind, n))
        /\ r.output = Nearest(kind, sign, n)

\* A number that fits is read as it is, while there is room for one more
\* hexadecimal digit.
LEMMA FitsIs ==
    ASSUME WidthAssumption, NEW kind \in Kinds, NEW sign \in {1, -1}, NEW a \in Nat,
           Fits(kind, sign * a), kind = "HexStringToInt" => a < Span(Nibbles - 1)
    PROVE  Nearest(kind, sign, sign * a) = sign * a
<1>1. PICK h, s : h = Half /\ s = Span(Nibbles - 1)
    OBVIOUS
<1>2. h \in Nat /\ h >= 128 /\ Unsigneds = 2 * h /\ h = 8 * s
    BY <1>1, WidthIs
<1>3. s \in Nat
  <2>1. Nibbles - 1 \in Nat
      BY WidthIs
  <2>2. Nibbles - 1 \in 0..(Nibbles - 1)
      BY <2>1
  <2> QED BY <1>1, <2>1, <2>2, SpanGrows
<1>4. PICK n \in Int : n = sign * a /\ (n = a \/ n = -a)
    OBVIOUS
<1>5. n \in TypeRange(kind)
  <2>1. CASE kind = "StringToInt"
    <3>1. -h <= n /\ n <= h - 1
        BY <1>1, <1>4, <2>1 DEF Fits, Traits
    <3>2. n \in (-h)..(h - 1)
        BY <1>2, <1>4, <3>1
    <3> QED BY <1>1, <2>1, <3>2 DEF TypeRange
  <2>2. CASE kind = "StringToUint"
    <3>1. 0 <= n /\ n <= 2 * h - 1
        BY <1>1, <1>2, <1>4, <2>2 DEF Fits, Traits
    <3>2. n \in 0..(2 * h - 1)
        BY <1>2, <1>4, <3>1
    <3> QED BY <1>2, <2>2, <3>2 DEF TypeRange
  <2>3. CASE kind = "HexStringToInt"
    <3>1. a < s
        BY <1>1, <2>3
    <3>2. n \in (-h)..(h - 1)
        BY <1>2, <1>3, <1>4, <3>1
    <3> QED BY <1>1, <2>3, <3>2 DEF TypeRange
  <2> QED BY <2>1, <2>2, <2>3 DEF Kinds
<1>6. Wrap(kind, n) = n
    BY <1>5, WrapIs
<1> QED BY <1>4, <1>6 DEF Nearest

\* A number further from 0 than one that does not fit does not fit.
LEMMA FitsNoMore ==
    ASSUME WidthAssumption, NEW kind \in Kinds, NEW sign \in {1, -1},
           kind = "StringToUint" => sign = 1,
           NEW a \in Nat, NEW b \in Nat, a <= b, ~Fits(kind, sign * a)
    PROVE  ~Fits(kind, sign * b)
<1>1. PICK max, min : max = Traits(kind).max /\ min = Traits(kind).min
    OBVIOUS
<1>2. max \in Nat /\ min \in Int /\ min <= 0
    BY <1>1, TraitsAre
<1>3. \A n \in Int : Fits(kind, n) <=> min <= n /\ n <= max
    BY <1>1 DEF Fits
<1>4. CASE sign = 1
  <2>1. sign * a = a /\ sign * b = b
      BY <1>4
  <2> QED BY <1>2, <1>3, <2>1
<1>5. CASE sign = -1
  <2>1. sign * a = -a /\ sign * b = -b
      BY <1>5
  <2> QED BY <1>2, <1>3, <2>1
<1> QED BY <1>4, <1>5

\* What a conversion without the two exceptions is given.
Regular(kind, sign, digits) ==
    /\ kind \in Kinds /\ sign \in {1, -1} /\ digits \in Seq(Int)
    /\ kind = "StringToUint" => sign = 1
    /\ kind = "HexStringToInt" => Len(digits) <= Nibbles

\* The next of the digits that count.
LEMMA ReadNext ==
    ASSUME WidthAssumption, NEW kind, NEW sign, NEW digits, Regular(kind, sign, digits),
           NEW g, g = Leading(digits, 0..(Traits(kind).base - 1)),
           NEW k \in 1..Len(digits), NEW r \in Results(kind), r.valid = TRUE,
           Reading(kind, sign, digits, g, k - 1, r)
    PROVE  Reading(kind, sign, digits, g, k, Digit(kind, sign, r, digits[k], k = 1))
<1>1. PICK b, n : b = Traits(kind).base /\ n = Len(digits)
    OBVIOUS
<1>2. /\ kind \in Kinds /\ sign \in {1, -1} /\ digits \in Seq(Int)
      /\ kind = "StringToUint" => sign = 1
      /\ kind = "HexStringToInt" => n <= Nibbles
    BY <1>1 DEF Regular
<1>3. b \in {10, 16} /\ n \in Nat /\ k \in 1..n /\ digits # <<>>
  <2>1. b \in {10, 16}
      BY <1>1, <1>2, TraitsAre
  <2> QED BY <1>1, <1>2, <2>1
<1>4. g \in 0..n /\ DigitsOf(b, digits, g) /\ (g < n => digits[g + 1] \notin 0..(b - 1))
  <2>1. PICK C : C = 0..(b - 1)
      OBVIOUS
  <2>2. Len(digits) \in Nat /\ g = Leading(digits, C)
      BY <1>1, <1>2, <2>1
  <2>3. /\ g \in 0..Len(digits) /\ \A i \in 1..g : digits[i] \in C
        /\ g < Len(digits) => digits[g + 1] \notin C
      BY ONLY <2>2, LeadingIs
  <2> QED BY <1>1, <2>1, <2>3 DEF DigitsOf
<1>5. k - 1 <= g /\ Counted(k - 1, g) = k - 1 /\ k - 1 \in 0..g
  <2>1. k - 1 <= g
      BY DEF Reading
  <2> QED BY <1>3, <1>4, <2>1 DEF Counted
<1>6. PICK a : a = Number(b, digits, k - 1)
    OBVIOUS
<1>7. a \in Nat
  <2>1. g \in Nat
      BY <1>4
  <2> QED BY <1>3, <1>4, <1>5, <1>6, <2>1, NumberGrows
<1>8. Fits(kind, sign * a) /\ r.output = Nearest(kind, sign, sign * a)
    BY <1>1, <1>5, <1>6 DEF Reading
<1>9. r.output = sign * a
  <2>1. ASSUME kind = "HexStringToInt" PROVE a < Span(Nibbles - 1)
    <3>1. b = 16
        BY <1>1, <2>1 DEF Traits
    <3>2. PICK m \in Nat : m = k - 1
        BY <1>3
    <3>3. PICK l \in Nat : l = Nibbles - 1
        BY WidthIs
    <3>4. m \in 0..l
      <4>1. Nibbles \in Nat
          BY DEF WidthAssumption
      <4> QED BY <1>2, <1>3, <2>1, <3>2, <3>3, <4>1
    <3>5. DigitsOf(16, digits, m)
        BY <1>4, <1>5, <3>1, <3>2 DEF DigitsOf
    <3>6. a < Span(m)
        BY <1>6, <3>1, <3>2, <3>5, NumberSpan
    <3>7. Span(m) \in Nat /\ Span(m) <= Span(l) /\ Span(l) \in Int
        BY <3>4, SpanGrows, SpanRec
    <3> QED BY <1>7, <3>3, <3>6, <3>7
  <2> QED BY <1>2, <1>7, <1>8, <2>1, FitsIs
<1>10. CASE CharToDigit(b, digits[k])
  <2>1. k \in 1..g /\ Counted(k, g) = k
    <3>1. digits[k] \in 0..(b - 1)
        BY <1>10 DEF CharToDigit
    <3>2. k <= g
      <4> SUFFICES ASSUME g < k PROVE FALSE
          BY <1>3, <1>4
      <4>1. k = g + 1 /\ g < n
          BY <1>3, <1>4, <1>5
      <4> QED BY <1>4, <3>1, <4>1
    <3> QED BY <1>3, <1>4, <3>2 DEF Counted
  <2>2. Number(b, digits, k) = a * b + digits[k] /\ (k = 1 => a = 0)
    <3>1. g \in Nat /\ b \in Int /\ \A i \in 1..g : digits[i] \in Int
        BY <1>3, <1>4 DEF DigitsOf
    <3>2. /\ Number(b, digits, 0) = 0
          /\ Number(b, digits, k) = Number(b, digits, k - 1) * b + digits[k]
      <4>1. k \in 1..g
          BY <2>1
      <4> QED BY ONLY <3>1, <4>1, NumberRec
    <3>3. k = 1 => k - 1 = 0
        OBVIOUS
    <3> QED BY <1>6, <3>2, <3>3
  <2>3. PICK m : m = sign * (a * b + digits[k])
      OBVIOUS
  <2>4. Digit(kind, sign, r, digits[k], k = 1) = [valid |-> Fits(kind, m), output |-> Nearest(kind, sign, m)]
    <3>1. (k = 1) \in BOOLEAN /\ (k = 1 => a = 0)
        BY <2>2
    <3>2. PICK c, first : c = digits[k] /\ first = (k = 1)
        OBVIOUS
    <3>3. NextDigit(kind, sign, r, c, first, a, m)
        BY <1>1, <1>2, <1>7, <1>9, <1>10, <2>3, <3>1, <3>2 DEF NextDigit
    <3>4. Digit(kind, sign, r, c, first) = [valid |-> Fits(kind, m), output |-> Nearest(kind, sign, m)]
        BY <3>3, DigitTurn
    <3> QED BY <3>2, <3>4
  <2>5. sign * Number(Traits(kind).base, digits, Counted(k, g)) = m
      BY <1>1, <2>1, <2>2, <2>3
  <2>6. k <= g
      BY <2>1
  <2>7. (digits # <<>> /\ k <= g /\ Fits(kind, m)) = Fits(kind, m)
      BY <1>3, <2>6 DEF Fits
  <2>8. PICK u : u = Digit(kind, sign, r, digits[k], k = 1)
      OBVIOUS
  <2>9. u.valid = Fits(kind, m) /\ u.output = Nearest(kind, sign, m)
      BY <2>4, <2>8
  <2>10. Reading(kind, sign, digits, g, k, u)
      BY <2>5, <2>7, <2>9 DEF Reading
  <2> QED BY <2>8, <2>10
<1>11. CASE ~CharToDigit(b, digits[k])
  <2>1. g = k - 1
    <3> SUFFICES ASSUME k <= g PROVE FALSE
        BY <1>3, <1>4, <1>5
    <3>1. k \in 1..g
        BY <1>3
    <3> QED BY <1>4, <1>11, <3>1 DEF DigitsOf, CharToDigit
  <2>2. Counted(k, g) = Counted(k - 1, g) /\ ~(k <= g)
      BY <1>3, <1>4, <2>1 DEF Counted
  <2>3. PICK u : u = Digit(kind, sign, r, digits[k], k = 1)
      OBVIOUS
  <2>4. u.valid = FALSE /\ u.output = r.output
      BY <1>1, <1>11, <2>3 DEF Digit
  <2>5. Reading(kind, sign, digits, g, k, u)
      BY <2>2, <2>4 DEF Reading
  <2> QED BY <2>3, <2>5
<1> QED BY <1>10, <1>11

\* Once it is not valid nothing changes.
LEMMA ReadNoMore ==
    ASSUME WidthAssumption, NEW kind, NEW sign, NEW digits, Regular(kind, sign, digits),
           NEW g, g = Leading(digits, 0..(Traits(kind).base - 1)),
           NEW k \in 1..Len(digits), NEW r, r.valid = FALSE,
           Reading(kind, sign, digits, g, k - 1, r)
    PROVE  Reading(kind, sign, digits, g, k, r)
<1>1. PICK b, n : b = Traits(kind).base /\ n = Len(digits)
    OBVIOUS
<1>2. /\ kind \in Kinds /\ sign \in {1, -1} /\ digits \in Seq(Int)
      /\ kind = "StringToUint" => sign = 1
    BY DEF Regular
<1>3. b \in {10, 16} /\ n \in Nat /\ k \in 1..n /\ digits # <<>>
  <2>1. b \in {10, 16}
      BY <1>1, <1>2, TraitsAre
  <2> QED BY <1>1, <1>2, <2>1
<1>4. g \in 0..n /\ DigitsOf(b, digits, g)
  <2>1. PICK C : C = 0..(b - 1)
      OBVIOUS
  <2>2. Len(digits) \in Nat /\ g = Leading(digits, C)
      BY <1>1, <1>2, <2>1
  <2>3. g \in 0..Len(digits) /\ \A i \in 1..g : digits[i] \in C
      BY ONLY <2>2, LeadingIs
  <2> QED BY <1>1, <2>1, <2>3 DEF DigitsOf
<1>5. CASE k > g
  <2>1. Counted(k, g) = Counted(k - 1, g) /\ ~(k <= g)
      BY <1>3, <1>4, <1>5 DEF Counted
  <2> QED BY <2>1 DEF Reading
<1>6. CASE k <= g
  <2>1. k \in 0..g /\ k > 0 /\ g \in Nat /\ Counted(k, g) = k /\ Counted(k - 1, g) = k - 1
        /\ k - 1 <= g /\ k - 1 \in 0..g
      BY <1>3, <1>4, <1>6 DEF Counted
  <2>2. PICK x, y : x = Number(b, digits, k - 1) /\ y = Number(b, digits, k)
      OBVIOUS
  <2>3. x \in Nat /\ y \in Nat /\ x <= y
    <3>1. Number(b, digits, k - 1) \in Nat
        BY <1>3, <1>4, <2>1, NumberGrows
    <3>2. Number(b, digits, k) \in Nat /\ Number(b, digits, k - 1) <= Number(b, digits, k)
        BY <1>3, <1>4, <2>1, NumberGrows
    <3> QED BY <2>2, <3>1, <3>2
  <2>4. ~Fits(kind, sign * x) /\ r.output = Nearest(kind, sign, sign * x)
      BY <1>1, <1>3, <2>1, <2>2 DEF Reading
  <2>5. ~Fits(kind, sign * y)
      BY <1>2, <2>3, <2>4, FitsNoMore
  <2>6. r.output = Nearest(kind, sign, sign * y)
      BY <2>4, <2>5 DEF Nearest
  <2> QED BY <1>1, <2>1, <2>2, <2>5, <2>6 DEF Reading
<1> QED BY <1>3, <1>4, <1>5, <1>6

\* What is read of any digits.
LEMMA ReadIs ==
    ASSUME WidthAssumption, NEW kind, NEW sign, NEW digits, Regular(kind, sign, digits),
           NEW g, g = Leading(digits, 0..(Traits(kind).base - 1))
    PROVE  Reading(kind, sign, digits, g, Len(digits), ReadUpTo(kind, sign, digits)[Len(digits)])
<1>1. PICK read, n : read = ReadUpTo(kind, sign, digits) /\ n = Len(digits)
    OBVIOUS
<1>2. kind \in Kinds /\ sign \in {1, -1} /\ digits \in Seq(Int) /\ n \in Nat
    BY <1>1 DEF Regular
<1>3. /\ read \in [0..n -> Results(kind)]
      /\ read[0] = [valid |-> digits # <<>>, output |-> 0]
      /\ \A k \in 1..n : read[k] = Digit(kind, sign, read[k - 1], digits[k], k = 1)
    BY <1>1, <1>2, ReadLoop
<1>4. g \in 0..n
    BY <1>1, <1>2, LeadingIs
<1> DEFINE Good == {k \in 0..n : Reading(kind, sign, digits, g, k, read[k])}
<1>5. 0 \in Good
  <2>1. PICK b : b = Traits(kind).base
      OBVIOUS
  <2>2. b \in {10, 16}
      BY <1>2, <2>1, TraitsAre
  <2>3. Counted(0, g) = 0 /\ 0 <= g
      BY <1>4 DEF Counted
  <2>4. sign * Number(b, digits, Counted(0, g)) = 0
      BY <1>2, <2>2, <2>3, NumberZero
  <2>5. Fits(kind, 0) /\ 0 \in TypeRange(kind)
    <3>1. Traits(kind).max \in Nat /\ Traits(kind).min <= 0 /\ 0 \in TypeRange(kind)
        BY <1>2, TraitsAre
    <3> QED BY <3>1 DEF Fits
  <2>6. Nearest(kind, sign, 0) = 0
      BY <1>2, <2>5, WrapIs DEF Nearest
  <2>7. Reading(kind, sign, digits, g, 0, read[0])
      BY <1>3, <2>1, <2>3, <2>4, <2>5, <2>6 DEF Reading
  <2> QED BY <1>2, <2>7
<1>6. ASSUME NEW k \in 1..n, k - 1 \in Good PROVE k \in Good
  <2>1. k - 1 \in 0..n /\ k \in 0..n /\ k \in 1..Len(digits)
      BY <1>1, <1>2
  <2>2. PICK r : r = read[k - 1]
      OBVIOUS
  <2>3. r \in Results(kind) /\ Reading(kind, sign, digits, g, k - 1, r)
      BY <1>3, <1>6, <2>1, <2>2
  <2>4. read[k] = Digit(kind, sign, r, digits[k], k = 1)
      BY <1>3, <2>2
  <2>5. r.valid \in BOOLEAN
      BY <2>3 DEF Results
  <2>6. CASE r.valid = TRUE
    <3>1. Reading(kind, sign, digits, g, k, Digit(kind, sign, r, digits[k], k = 1))
        BY <2>1, <2>3, <2>6, ReadNext
    <3> QED BY <2>1, <2>4, <3>1
  <2>7. CASE r.valid = FALSE
    <3>1. Reading(kind, sign, digits, g, k, r)
        BY <2>1, <2>3, <2>7, ReadNoMore
    <3>2. Digit(kind, sign, r, digits[k], k = 1) = r
        BY <2>7 DEF Digit
    <3> QED BY <2>1, <2>4, <3>1, <3>2
  <2> QED BY <2>5, <2>6, <2>7
<1>7. 0..n \subseteq Good
  <2> HIDE DEF Good
  <2> QED BY <1>2, <1>5, <1>6, UpTo
<1>8. n \in 0..n
    BY <1>2
<1> QED BY <1>1, <1>7, <1>8

\* Digits without their prefix are characters too.
LEMMA UnprefixedIs ==
    ASSUME NEW kind, NEW s \in Seq(Int)
    PROVE  Unprefixed(kind, s) \in Seq(Int)
<1>1. \A i \in 3..Len(s) : s[i] \in Int
    OBVIOUS
<1>2. SubSeq(s, 3, Len(s)) \in Seq(Int)
    BY <1>1, SubSeqProperties
<1> QED BY <1>2 DEF Unprefixed

\* What a sign and digits are read as.
Invoked(kind, sign, digits, g, r) ==
    LET n == sign * Number(Traits(kind).base, digits, g)
    IN  /\ r.valid = (digits # <<>> /\ g = Len(digits) /\ Fits(kind, n))
        /\ r.output = Nearest(kind, sign, n)

\* Reading is the number of the leading digits, if it fits.
LEMMA InvokeIs ==
    ASSUME WidthAssumption, NEW kind, NEW sign, NEW s, NEW digits, digits = Unprefixed(kind, s),
           Regular(kind, sign, digits), NEW g, g = Leading(digits, 0..(Traits(kind).base - 1))
    PROVE  Invoked(kind, sign, digits, g, Invoke(kind, sign, s))
<1>1. PICK r : r = Invoke(kind, sign, s)
    OBVIOUS
<1>2. r = ReadUpTo(kind, sign, digits)[Len(digits)]
    BY <1>1 DEF Invoke
<1>3. Reading(kind, sign, digits, g, Len(digits), r)
    BY <1>2, ReadIs
<1>4. Len(digits) \in Nat
    BY DEF Regular
<1>5. g \in 0..Len(digits)
    BY <1>4, LeadingIs
<1>6. Counted(Len(digits), g) = g /\ (Len(digits) <= g <=> g = Len(digits))
    BY <1>4, <1>5 DEF Counted
<1>7. Invoked(kind, sign, digits, g, r)
    BY <1>3, <1>6 DEF Reading, Invoked
<1> QED BY <1>1, <1>7

\* A text as blanks, a sign and what is behind it.
Signed(chars, blanks, sign, body) ==
    LET s == SubSeq(chars, blanks + 1, Len(chars))
    IN  /\ blanks = Leading(chars, {Blank})
        /\ sign = IF s # <<>> /\ Head(s) = Minus THEN -1 ELSE 1
        /\ body = IF s # <<>> /\ Head(s) \in {Minus, Plus} THEN Tail(s) ELSE s

\* A text is converted in these parts.
LEMMA ConvertIs ==
    ASSUME NEW kind, NEW chars \in Seq(Int), NEW blanks, NEW sign, NEW body,
           Signed(chars, blanks, sign, body)
    PROVE  /\ sign \in {1, -1} /\ body \in Seq(Int)
           /\ Convert(kind, chars).valid = (Invoke(kind, sign, body).valid /\ blanks = 0)
           /\ Convert(kind, chars).output = Invoke(kind, sign, body).output
<1>1. PICK s : s = SubSeq(chars, blanks + 1, Len(chars))
    OBVIOUS
<1>2. /\ blanks = Leading(chars, {Blank})
      /\ sign = IF s # <<>> /\ Head(s) = Minus THEN -1 ELSE 1
      /\ body = IF s # <<>> /\ Head(s) \in {Minus, Plus} THEN Tail(s) ELSE s
    BY <1>1 DEF Signed
<1>3. blanks \in 0..Len(chars)
    BY <1>2, LeadingIs
<1>4. s \in Seq(Int)
  <2>1. \A i \in (blanks + 1)..Len(chars) : chars[i] \in Int
      BY <1>3
  <2> QED BY <1>1, <1>3, <2>1, SubSeqProperties
<1>5. sign \in {1, -1} /\ body \in Seq(Int)
    BY <1>2, <1>4
<1>6. PICK r : r = Invoke(kind, sign, body)
    OBVIOUS
<1>7. Minus # Plus
    BY DEF Minus, Plus
<1>8. Convert(kind, chars) = [valid |-> r.valid /\ blanks = 0, output |-> r.output]
  <2>1. CASE s # <<>> /\ Head(s) = Minus
    <3>1. sign = -1 /\ body = Tail(s)
        BY <1>2, <2>1
    <3> QED BY <1>1, <1>2, <1>6, <2>1, <3>1 DEF Convert
  <2>2. CASE s # <<>> /\ Head(s) = Plus
    <3>1. sign = 1 /\ body = Tail(s)
        BY <1>2, <1>7, <2>2
    <3> QED BY <1>1, <1>2, <1>6, <1>7, <2>2, <3>1 DEF Convert
  <2>3. CASE ~(s # <<>> /\ Head(s) \in {Minus, Plus})
    <3>1. sign = 1 /\ body = s
        BY <1>2, <2>3
    <3> QED BY <1>1, <1>2, <1>6, <2>3, <3>1 DEF Convert
  <2> QED BY <2>1, <2>2, <2>3
<1> QED BY <1>5, <1>6, <1>8

\* Every text is read as well as it can be.
LEMMA AllBestEffort ==
    ASSUME WidthAssumption, NEW kind \in Kinds, NEW chars \in Seq(Int)
    PROVE  BestEffort(kind, chars)
<1>1. PICK blanks, s : blanks = Leading(chars, {Blank}) /\ s = SubSeq(chars, blanks + 1, Len(chars))
    OBVIOUS
<1>2. PICK sign, body : /\ sign = IF s # <<>> /\ Head(s) = Minus THEN -1 ELSE 1
                        /\ body = IF s # <<>> /\ Head(s) \in {Minus, Plus} THEN Tail(s) ELSE s
    OBVIOUS
<1>3. Signed(chars, blanks, sign, body)
    BY <1>1, <1>2 DEF Signed
<1>4. PICK digits : digits = Unprefixed(kind, body)
    OBVIOUS
<1>5. PICK result, r : result = Convert(kind, chars) /\ r = Invoke(kind, sign, body)
    OBVIOUS
<1>6. /\ sign \in {1, -1} /\ body \in Seq(Int)
      /\ result.valid = (r.valid /\ blanks = 0) /\ result.output = r.output
    BY <1>3, <1>5, ConvertIs
<1>7. digits \in Seq(Int)
    BY <1>4, <1>6, UnprefixedIs
<1>8. PICK g, n : g = Leading(digits, 0..(Traits(kind).base - 1))
                  /\ n = sign * Number(Traits(kind).base, digits, g)
    OBVIOUS
<1>9. ASSUME ~(kind = "StringToUint" /\ sign = -1), ~(kind = "HexStringToInt" /\ Len(digits) > Nibbles)
      PROVE  /\ result.valid <=> blanks = 0 /\ digits # <<>> /\ g = Len(digits) /\ Fits(kind, n)
             /\ result.output = Nearest(kind, sign, n)
  <2>1. Nibbles \in Nat
      BY DEF WidthAssumption
  <2>2. Regular(kind, sign, digits)
      BY <1>6, <1>7, <1>9, <2>1 DEF Regular
  <2>3. Invoked(kind, sign, digits, g, r)
      BY <1>4, <1>5, <1>8, <2>2, InvokeIs
  <2> QED BY <1>6, <1>8, <2>3 DEF Invoked
<1>10. BestEffort(kind, chars)
         <=> (~(kind = "StringToUint" /\ sign = -1) /\ ~(kind = "HexStringToInt" /\ Len(digits) > Nibbles) =>
               /\ result.valid <=> blanks = 0 /\ digits # <<>> /\ g = Len(digits) /\ Fits(kind, n)
               /\ result.output = Nearest(kind, sign, n))
  <2>1. Fits(kind, n) <=> Traits(kind).min <= n /\ n <= Traits(kind).max
      BY DEF Fits
  <2>2. Nearest(kind, sign, n) = Wrap(kind, IF Fits(kind, n) THEN n
                                   ELSE IF sign = 1 THEN Traits(kind).max ELSE Traits(kind).min)
      BY DEF Nearest, Bound
  <2> QED BY <1>1, <1>2, <1>4, <1>5, <1>8, <2>1, <2>2 DEF BestEffort
<1> QED BY <1>9, <1>10

\* The digits of a number from those of its tenth.
TextOf(g, k) == IF k < 10 THEN <<k>> ELSE Append(g[k \div 10], k % 10)
IsText(g, n) == g \in [0..(n - 1) -> Seq(0..9)] /\ \A k \in 0..(n - 1) : g[k] = TextOf(g, k)

\* They are digits.
LEMMA TextTyped ==
    ASSUME NEW k \in Nat, NEW g, \A i \in 0..(k - 1) : g[i] \in Seq(0..9)
    PROVE  TextOf(g, k) \in Seq(0..9)
<1>1. CASE k < 10
  <2>1. k \in 0..9
      BY <1>1
  <2>2. <<k>> \in Seq(0..9)
      BY <2>1
  <2> QED BY <1>1, <2>2 DEF TextOf
<1>2. CASE ~(k < 10)
  <2>1. k \div 10 \in 0..(k - 1) /\ k % 10 \in 0..9
      BY <1>2
  <2>2. PICK s, d : s = g[k \div 10] /\ d = k % 10
      OBVIOUS
  <2>3. s \in Seq(0..9) /\ d \in 0..9
      BY <2>1, <2>2
  <2>4. Append(s, d) \in Seq(0..9)
      BY <2>3
  <2> QED BY <1>2, <2>2, <2>4 DEF TextOf
<1> QED BY <1>1, <1>2

\* There are digits for the numbers before any.
LEMMA TextsExist ==
    ASSUME NEW N \in Nat
    PROVE  \E g : IsText(g, N)
<1> DEFINE Good == {n \in 0..N : \E g : IsText(g, n)}
<1>1. 0 \in Good
  <2>1. IsText([k \in 0..(0 - 1) |-> <<>>], 0)
      BY DEF IsText
  <2> QED BY <2>1
<1>2. ASSUME NEW n \in 1..N, n - 1 \in Good PROVE n \in Good
  <2>1. PICK m \in Nat : m = n - 1
      OBVIOUS
  <2>2. PICK g : IsText(g, m)
      BY <1>2, <2>1
  <2>3. g \in [0..(m - 1) -> Seq(0..9)] /\ \A k \in 0..(m - 1) : g[k] \in Seq(0..9) /\ g[k] = TextOf(g, k)
      BY <2>2 DEF IsText
  <2>4. PICK t : t = TextOf(g, m)
      OBVIOUS
  <2>5. t \in Seq(0..9)
    <3>1. \A i \in 0..(m - 1) : g[i] \in Seq(0..9)
        BY <2>3
    <3> QED BY <2>4, <3>1, TextTyped
  <2>6. PICK h : h = [k \in 0..m |-> IF k = m THEN t ELSE g[k]]
      OBVIOUS
  <2>7. h \in [0..m -> Seq(0..9)] /\ h[m] = t /\ \A k \in 0..(m - 1) : h[k] = g[k]
    <3>1. \A k \in 0..m : k = m \/ k \in 0..(m - 1)
        OBVIOUS
    <3> QED BY <2>3, <2>5, <2>6, <3>1
  <2>8. ASSUME NEW k \in 0..m PROVE h[k] = TextOf(h, k)
    <3>1. k >= 10 => k \div 10 \in 0..(m - 1)
        OBVIOUS
    <3>2. TextOf(h, k) = TextOf(g, k)
        BY <2>7, <3>1 DEF TextOf
    <3>3. k = m \/ k \in 0..(m - 1)
        OBVIOUS
    <3> QED BY <2>3, <2>4, <2>7, <3>2, <3>3
  <2>9. n - 1 = m
      BY <2>1
  <2>10. IsText(h, n)
      BY <2>7, <2>8, <2>9 DEF IsText
  <2> QED BY <2>10
<1>3. 0..N \subseteq Good
  <2> HIDE DEF Good
  <2> QED BY <1>1, <1>2, UpTo
<1>4. N \in 0..N
    OBVIOUS
<1> QED BY <1>3, <1>4

\* The digits before n are such.
LEMMA TextLoop ==
    ASSUME NEW n \in Nat, NEW text, text = TextsBefore(n)
    PROVE  IsText(text, n)
<1> DEFINE Rec(h) == [k \in 0..(n - 1) |-> IF k < 10 THEN <<k>> ELSE Append(h[k \div 10], k % 10)]
<1>1. PICK g : IsText(g, n)
    BY TextsExist
<1>2. g = Rec(g)
    BY <1>1 DEF IsText, TextOf
<1>3. text = Rec(text)
  <2>1. text = CHOOSE h : h = Rec(h)
      BY DEF TextsBefore
  <2> HIDE DEF Rec
  <2> QED BY <1>2, <2>1
<1>4. ASSUME NEW k \in 0..(n - 1) PROVE text[k] = TextOf(text, k)
    BY <1>3 DEF TextOf
<1> DEFINE Good == {m \in 0..n : \A k \in 0..(m - 1) : text[k] \in Seq(0..9)}
<1>5. 0 \in Good
    OBVIOUS
<1>6. ASSUME NEW m \in 1..n, m - 1 \in Good PROVE m \in Good
  <2>1. PICK j \in Nat : j = m - 1 /\ j \in 0..(n - 1)
      OBVIOUS
  <2>2. \A k \in 0..(j - 1) : text[k] \in Seq(0..9)
      BY <1>6, <2>1
  <2>3. text[j] \in Seq(0..9)
      BY <1>4, <2>1, <2>2, TextTyped
  <2>4. ASSUME NEW k \in 0..(m - 1) PROVE text[k] \in Seq(0..9)
    <3>1. k = j \/ k \in 0..(j - 1)
        BY <2>1
    <3> QED BY <2>2, <2>3, <3>1
  <2>5. m \in 0..n
      OBVIOUS
  <2> QED BY <2>4, <2>5
<1>7. 0..n \subseteq Good
  <2> HIDE DEF Good
  <2> QED BY <1>5, <1>6, UpTo
<1>8. \A k \in 0..(n - 1) : text[k] \in Seq(0..9)
  <2>1. n \in 0..n
      OBVIOUS
  <2> QED BY <1>7, <2>1
<1>9. text = [k \in 0..(n - 1) |-> text[k]]
    BY <1>3
<1> QED BY <1>4, <1>8, <1>9 DEF IsText

\* A digit more is a number ten times as large, and the digit.
LEMMA NumberAppend ==
    ASSUME NEW s \in Seq(0..9), NEW d \in 0..9
    PROVE  /\ Append(s, d) # <<>>
           /\ Number(10, Append(s, d), Len(Append(s, d))) = Number(10, s, Len(s)) * 10 + d
<1>1. PICK t, n : t = Append(s, d) /\ n = Len(s)
    OBVIOUS
<1>2. /\ n \in Nat /\ t \in Seq(0..9) /\ Len(t) = n + 1 /\ t[n + 1] = d
      /\ \A k \in 1..n : t[k] = s[k]
    BY <1>1
<1>3. PICK m \in Nat : m = n + 1
    BY <1>2
<1>4. m \in Nat /\ 10 \in Int /\ (\A k \in 1..m : t[k] \in Int) /\ m \in 1..m
  <2>1. ASSUME NEW k \in 1..m PROVE t[k] \in Int
    <3>1. t[k] \in 0..9
        BY <1>2, <1>3
    <3> QED BY <3>1
  <2> QED BY <1>2, <1>3, <2>1
<1>5. Number(10, t, m) = Number(10, t, m - 1) * 10 + t[m]
    BY ONLY <1>4, NumberRec
<1>6. n \in 0..m /\ (\A k \in 1..n : s[k] = t[k]) /\ (\A k \in 1..n : t[k] = t[k])
    BY <1>2, <1>3
<1>7. Number(10, s, n) = Numbers(10, t, m)[n] /\ Number(10, t, n) = Numbers(10, t, m)[n]
  <2>1. Number(10, s, n) = Numbers(10, t, m)[n]
      BY <1>4, <1>6, NumberSame
  <2>2. Number(10, t, n) = Numbers(10, t, m)[n]
      BY <1>4, <1>6, NumberSame
  <2> QED BY <2>1, <2>2
<1>8. m - 1 = n /\ t[m] = d /\ Len(t) = m
    BY <1>2, <1>3
<1> QED BY <1>1, <1>5, <1>7, <1>8

\* The digits of a number stand for it.
LEMMA TextMeans ==
    ASSUME NEW n \in Nat, NEW text, IsText(text, n), NEW i \in 0..(n - 1)
    PROVE  text[i] \in Seq(0..9) /\ text[i] # <<>> /\ Number(10, text[i], Len(text[i])) = i
<1> DEFINE Means(k) == text[k] # <<>> /\ Number(10, text[k], Len(text[k])) = k
<1> DEFINE Good == {m \in 0..n : \A k \in 0..(m - 1) : Means(k)}
<1>1. \A k \in 0..(n - 1) : text[k] \in Seq(0..9) /\ text[k] = TextOf(text, k)
    BY DEF IsText
<1>2. 0 \in Good
    OBVIOUS
<1>3. ASSUME NEW m \in 1..n, m - 1 \in Good PROVE m \in Good
  <2>1. PICK j \in Nat : j = m - 1 /\ j \in 0..(n - 1)
      OBVIOUS
  <2>2. \A k \in 0..(j - 1) : Means(k)
      BY <1>3, <2>1
  <2>3. text[j] = TextOf(text, j)
      BY <1>1, <2>1
  <2>4. Means(j)
    <3>1. CASE j < 10
      <4>1. PICK e, d : e = <<>> /\ d = j
          OBVIOUS
      <4>2. e \in Seq(0..9) /\ d \in 0..9 /\ Append(e, d) = <<j>> /\ Len(e) = 0
          BY <3>1, <4>1
      <4>3. Append(e, d) # <<>> /\ Number(10, Append(e, d), Len(Append(e, d))) = Number(10, e, Len(e)) * 10 + d
          BY ONLY <4>2, NumberAppend
      <4>4. Number(10, e, Len(e)) = 0
          BY <4>2, NumberZero
      <4>5. text[j] = Append(e, d)
          BY <2>3, <3>1, <4>2 DEF TextOf
      <4> QED BY <4>1, <4>3, <4>4, <4>5
    <3>2. CASE ~(j < 10)
      <4>1. PICK q, d : q = j \div 10 /\ d = j % 10
          OBVIOUS
      <4>2. q \in 0..(j - 1) /\ d \in 0..9 /\ j = q * 10 + d /\ q \in 0..(n - 1)
          BY <2>1, <3>2, <4>1
      <4>3. PICK s : s = text[q]
          OBVIOUS
      <4>4. s \in Seq(0..9) /\ Number(10, s, Len(s)) = q
          BY <1>1, <2>2, <4>2, <4>3
      <4>5. Append(s, d) # <<>> /\ Number(10, Append(s, d), Len(Append(s, d))) = Number(10, s, Len(s)) * 10 + d
          BY <4>2, <4>4, NumberAppend
      <4>6. text[j] = Append(s, d)
          BY <2>3, <3>2, <4>1, <4>3 DEF TextOf
      <4> QED BY <4>2, <4>4, <4>5, <4>6
    <3> QED BY <3>1, <3>2
  <2>5. \A k \in 0..(m - 1) : k = j \/ k \in 0..(j - 1)
      BY <2>1
  <2> HIDE DEF Means
  <2> QED BY <2>2, <2>4, <2>5
<1>4. 0..n \subseteq Good
  <2> HIDE DEF Good
  <2> QED BY <1>2, <1>3, UpTo
<1>5. Means(i)
  <2>1. n \in 0..n
      OBVIOUS
  <2> QED BY <1>4, <2>1
<1> QED BY <1>1, <1>5

\* Decimal digits of a number that the type has, and a sign, are read as it.
LEMMA DecimalIs ==
    ASSUME WidthAssumption, NEW kind \in {"StringToInt", "StringToUint"}, NEW sign \in {1, -1},
           kind = "StringToUint" => sign = 1,
           NEW digits \in Seq(0..9), digits # <<>>,
           NEW a \in Nat, a = Number(10, digits, Len(digits)), sign * a \in TypeRange(kind),
           NEW chars \in Seq(Int), Signed(chars, 0, sign, digits)
    PROVE  Convert(kind, chars) = [valid |-> TRUE, output |-> sign * a]
<1>1. kind \in Kinds /\ Traits(kind).base = 10 /\ kind # "HexStringToInt" /\ Unprefixed(kind, digits) = digits
    BY DEF Kinds, Traits, Unprefixed
<1>2. digits \in Seq(Int) /\ Len(digits) \in Nat /\ \A i \in 1..Len(digits) : digits[i] \in 0..9
  <2>1. PICK D : D = 0..9
      OBVIOUS
  <2>2. D \subseteq Int /\ digits \in Seq(D)
      BY <2>1
  <2>3. digits \in Seq(Int)
      BY ONLY <2>2, SeqMonotonic
  <2>4. Len(digits) \in Nat /\ \A i \in 1..Len(digits) : digits[i] \in D
      BY ONLY <2>2
  <2> QED BY <2>1, <2>3, <2>4
<1>3. Regular(kind, sign, digits)
    BY <1>1, <1>2 DEF Regular
<1>4. PICK C, g : C = 0..(Traits(kind).base - 1) /\ g = Leading(digits, C)
    OBVIOUS
<1>5. g = Len(digits)
  <2>3. Len(digits) \in Nat /\ g = Leading(digits, C)
      BY <1>2, <1>4
  <2>1. g \in 0..Len(digits) /\ (g < Len(digits) => digits[g + 1] \notin C)
      BY ONLY <2>3, LeadingIs
  <2>2. C = 0..9
      BY <1>1, <1>4
  <2> QED BY <1>2, <2>1, <2>2
<1>6. PICK r : r = Invoke(kind, sign, digits)
    OBVIOUS
<1>7. Invoked(kind, sign, digits, g, r)
    BY <1>1, <1>3, <1>4, <1>6, InvokeIs
<1>8. PICK n \in Int : n = sign * a
    OBVIOUS
<1>9. r.valid = Fits(kind, n) /\ r.output = Nearest(kind, sign, n)
  <2>1. r.valid = (digits # <<>> /\ g = Len(digits) /\ Fits(kind, n)) /\ r.output = Nearest(kind, sign, n)
      BY <1>1, <1>5, <1>7, <1>8 DEF Invoked
  <2> QED BY <1>5, <2>1 DEF Fits
<1>10. Fits(kind, n)
  <2>1. PICK h : h = Half
      OBVIOUS
  <2>2. h \in Nat /\ h >= 128 /\ Unsigneds = 2 * h
      BY <2>1, WidthIs
  <2>3. n \in TypeRange(kind)
      BY <1>8
  <2>4. CASE kind = "StringToInt"
    <3>1. n \in (-h)..(h - 1)
        BY <2>1, <2>3, <2>4 DEF TypeRange
    <3>2. -h <= n /\ n <= h - 1
        BY <2>2, <3>1
    <3> QED BY <2>1, <2>4, <3>2 DEF Fits, Traits
  <2>5. CASE kind = "StringToUint"
    <3>1. n \in 0..(Unsigneds - 1)
        BY <2>3, <2>5 DEF TypeRange
    <3>2. 0 <= n /\ n <= Unsigneds - 1
        BY <2>2, <3>1
    <3> QED BY <2>5, <3>2 DEF Fits, Traits
  <2> QED BY <2>4, <2>5
<1>11. r.output = n
  <2>1. Wrap(kind, n) = n
      BY <1>1, <1>8, WrapIs
  <2> QED BY <1>9, <1>10, <2>1 DEF Nearest
<1>12. r.valid = TRUE
    BY <1>9, <1>10 DEF Fits
<1>13. PICK result : result = Convert(kind, chars)
    OBVIOUS
<1>14. result.valid = (r.valid /\ 0 = 0) /\ result.output = r.output
    BY <1>6, <1>13, ConvertIs
<1>15. result = [valid |-> result.valid, output |-> result.output]
    BY <1>13 DEF Convert
<1>16. result.valid = TRUE /\ result.output = sign * a
    BY <1>8, <1>11, <1>12, <1>14
<1> QED BY <1>13, <1>15, <1>16

\* A text with a first character that is not blank has no blanks.
LEMMA NoBlanks ==
    ASSUME NEW chars \in Seq(Int), chars # <<>>, chars[1] # Blank
    PROVE  Leading(chars, {Blank}) = 0 /\ SubSeq(chars, 0 + 1, Len(chars)) = chars
<1>1. PICK n, C : C = {Blank} /\ n = Leading(chars, C)
    OBVIOUS
<1>2. Len(chars) \in Nat
    OBVIOUS
<1>3. n \in 0..Len(chars) /\ \A i \in 1..n : chars[i] \in C
    BY <1>1, <1>2, LeadingIs
<1>4. n = 0
  <2> SUFFICES ASSUME n # 0 PROVE FALSE
      OBVIOUS
  <2>1. 1 \in 1..n
      BY <1>3
  <2> QED BY <1>1, <1>3, <2>1
<1>5. SubSeq(chars, 1, Len(chars)) = chars
    BY SubSeqFull
<1> QED BY <1>1, <1>4, <1>5

\* What a number is written as is read as it.
LEMMA RoundTrip ==
    ASSUME WidthAssumption, NEW kind \in {"StringToInt", "StringToUint"}, NEW v \in TypeRange(kind)
    PROVE  Convert(kind, IntToString(v)) = [valid |-> TRUE, output |-> v]
<1>1. PICK u, h, text : u = Unsigneds /\ h = Half /\ text = TextsBefore(u)
    OBVIOUS
<1>2. h \in Nat /\ h >= 128 /\ u = 2 * h /\ u \in Nat
    BY <1>1, WidthIs
<1>3. IsText(text, u)
    BY <1>1, <1>2, TextLoop
<1>4. v \in Int /\ v < u /\ -h <= v /\ (kind = "StringToUint" => v >= 0)
  <2>1. CASE kind = "StringToUint"
    <3>1. v \in 0..(u - 1)
        BY <1>1, <2>1 DEF TypeRange
    <3> QED BY <1>2, <3>1
  <2>2. CASE kind # "StringToUint"
    <3>1. v \in (-h)..(h - 1)
        BY <1>1, <2>2 DEF TypeRange
    <3> QED BY <1>2, <2>2, <3>1
  <2> QED BY <2>1, <2>2
<1>5. Minus \in Int /\ Minus # Blank /\ Plus \in Int /\ Minus \notin 0..9 /\ Plus \notin 0..9 /\ Blank \notin 0..9
    BY DEF Minus, Plus, Blank
<1>6. CASE v >= 0
  <2>1. v \in 0..(u - 1)
      BY <1>2, <1>4, <1>6
  <2>2. PICK digits : digits = text[v]
      OBVIOUS
  <2>3. digits \in Seq(0..9) /\ digits # <<>> /\ Number(10, digits, Len(digits)) = v
      BY <1>2, <1>3, <2>1, <2>2, TextMeans
  <2>4. digits \in Seq(Int) /\ Head(digits) \in 0..9 /\ Head(digits) = digits[1]
      BY <2>3
  <2>5. Leading(digits, {Blank}) = 0 /\ SubSeq(digits, 0 + 1, Len(digits)) = digits
      BY <1>5, <2>3, <2>4, NoBlanks
  <2>6. Signed(digits, 0, 1, digits)
    <3>1. Head(digits) # Minus /\ Head(digits) \notin {Minus, Plus}
        BY <1>5, <2>4
    <3> QED BY <2>5, <3>1 DEF Signed
  <2>7. v \in Nat /\ 1 * v = v
      BY <1>4, <1>6
  <2>8. 1 * v \in TypeRange(kind) /\ 1 \in {1, -1} /\ v = Number(10, digits, Len(digits))
      BY <2>3, <2>7
  <2>9. Convert(kind, digits) = [valid |-> TRUE, output |-> 1 * v]
      BY <2>3, <2>4, <2>6, <2>7, <2>8, DecimalIs
  <2>10. IntToString(v) = digits
      BY <1>1, <1>4, <1>6, <2>2 DEF IntToString
  <2> QED BY <2>7, <2>9, <2>10
<1>7. CASE v < 0
  <2>1. PICK a \in Nat : a = -v /\ v = -a
      BY <1>4, <1>7
  <2>2. a \in 0..(u - 1)
      BY <1>2, <1>4, <2>1
  <2>3. a % u = a
    <3>1. a \in Int /\ u \in Nat /\ 0 \in Int /\ a \in 0..(u - 1) /\ a = u * 0 + a
        BY <1>2, <2>2
    <3> QED BY ONLY <3>1, DivisionIs
  <2>4. PICK digits, chars, sign : digits = text[a] /\ chars = <<Minus>> \o digits /\ sign = -1
      OBVIOUS
  <2>5. digits \in Seq(0..9) /\ digits # <<>> /\ Number(10, digits, Len(digits)) = a
      BY <1>2, <1>3, <2>2, <2>4, TextMeans
  <2>6. digits \in Seq(Int)
      BY <2>5
  <2>7. chars \in Seq(Int) /\ chars # <<>> /\ chars[1] = Minus /\ Head(chars) = Minus /\ Tail(chars) = digits
    <3>1. <<Minus>> \in Seq(Int) /\ Len(<<Minus>>) = 1
        BY <1>5
    <3>2. chars \in Seq(Int) /\ Len(chars) = 1 + Len(digits)
        BY <2>4, <2>6, <3>1
    <3>3. chars # <<>> /\ chars[1] = Minus
        BY <2>4, <2>6, <3>1, <3>2
    <3>4. Head(chars) = Minus /\ Tail(chars) \in Seq(Int) /\ Len(Tail(chars)) = Len(digits)
        BY <2>6, <3>2, <3>3
    <3>5. ASSUME NEW i \in 1..Len(digits) PROVE Tail(chars)[i] = digits[i]
      <4>1. Tail(chars)[i] = chars[i + 1]
          BY <2>6, <3>2, <3>3, <3>4
      <4>2. chars[i + 1] = digits[i]
          BY <2>4, <2>6, <3>1
      <4> QED BY <4>1, <4>2
    <3>6. Tail(chars) = digits
        BY <2>6, <3>4, <3>5, SeqEqual
    <3> QED BY <3>2, <3>3, <3>4, <3>6
  <2>8. Leading(chars, {Blank}) = 0 /\ SubSeq(chars, 0 + 1, Len(chars)) = chars
      BY <1>5, <2>7, NoBlanks
  <2>9. Signed(chars, 0, sign, digits)
      BY <2>4, <2>7, <2>8 DEF Signed
  <2>10. kind = "StringToInt" /\ sign \in {1, -1} /\ sign * a = v
      BY <1>4, <1>7, <2>1, <2>4
  <2>11. sign * a \in TypeRange(kind)
      BY <2>10
  <2>12. Convert(kind, chars) = [valid |-> TRUE, output |-> sign * a]
      BY <2>5, <2>7, <2>9, <2>10, <2>11, DecimalIs
  <2>13. IntToString(v) = chars
      BY <1>1, <1>7, <2>1, <2>3, <2>4 DEF IntToString
  <2> QED BY <2>10, <2>12, <2>13
<1> QED BY <1>4, <1>6, <1>7

\* A conversion returns a number of its type.
LEMMA ConvertTyped ==
    ASSUME WidthAssumption, NEW kind \in Kinds, NEW chars \in Seq(Int)
    PROVE  Convert(kind, chars).output \in TypeRange(kind) /\ Convert(kind, chars).valid \in BOOLEAN
<1>1. PICK blanks, s : blanks = Leading(chars, {Blank}) /\ s = SubSeq(chars, blanks + 1, Len(chars))
    OBVIOUS
<1>2. PICK sign, body : /\ sign = IF s # <<>> /\ Head(s) = Minus THEN -1 ELSE 1
                        /\ body = IF s # <<>> /\ Head(s) \in {Minus, Plus} THEN Tail(s) ELSE s
    OBVIOUS
<1>3. Signed(chars, blanks, sign, body)
    BY <1>1, <1>2 DEF Signed
<1>4. PICK result, r, digits : /\ result = Convert(kind, chars) /\ r = Invoke(kind, sign, body)
                               /\ digits = Unprefixed(kind, body)
    OBVIOUS
<1>5. /\ sign \in {1, -1} /\ body \in Seq(Int)
      /\ result.valid = (r.valid /\ blanks = 0) /\ result.output = r.output
    BY <1>3, <1>4, ConvertIs
<1>6. digits \in Seq(Int) /\ Len(digits) \in 0..Len(digits)
  <2>1. digits \in Seq(Int)
      BY <1>4, <1>5, UnprefixedIs
  <2> QED BY <2>1
<1>7. PICK read : read = ReadUpTo(kind, sign, digits)
    OBVIOUS
<1>8. read \in [0..Len(digits) -> Results(kind)]
    BY <1>5, <1>6, <1>7, ReadLoop
<1>9. r = read[Len(digits)]
    BY <1>4, <1>7 DEF Invoke
<1>10. r \in Results(kind)
    BY <1>6, <1>8, <1>9
<1> QED BY <1>4, <1>5, <1>10 DEF Results

\* Bytes read from a text are written as the text.
LEMMA HexRoundTrip ==
    ASSUME NEW s \in Seq(Int), HexStringToBytes(s).valid
    PROVE  HexEncode(HexStringToBytes(s).output) = s
<1>1. PICK n, g, C : n = Len(s) /\ C = 0..15 /\ g = Leading(s, C)
    OBVIOUS
<1>2. PICK count : count = g \div 2
    OBVIOUS
<1>3. n \in Nat /\ \A i \in 1..n : s[i] \in Int
    BY <1>1
<1>4. g \in 0..n /\ \A i \in 1..g : s[i] \in C
  <2>1. Len(s) \in Nat /\ g = Leading(s, C)
      BY <1>1, <1>3
  <2>2. g \in 0..Len(s) /\ \A i \in 1..g : s[i] \in C
      BY ONLY <2>1, LeadingIs
  <2> QED BY <1>1, <2>2
<1>5. PICK bytes : bytes = [i \in 1..count |-> 16 * s[2 * i - 1] + s[2 * i]]
    OBVIOUS
<1>6. HexStringToBytes(s) = [valid |-> 2 * count = n, output |-> bytes]
  <2>1. HexStringToBytes(s) = IF s = <<>> \/ n % 2 # 0 THEN [valid |-> FALSE, output |-> <<>>]
                              ELSE [valid |-> 2 * count = n, output |-> bytes]
      BY <1>1, <1>2, <1>5 DEF HexStringToBytes
  <2>2. CASE s = <<>> \/ n % 2 # 0
      BY <2>1, <2>2
  <2>3. CASE ~(s = <<>> \/ n % 2 # 0)
      BY <2>1, <2>3
  <2> QED BY <2>2, <2>3
<1>7. 2 * count = n /\ count \in Nat /\ g = n
  <2>1. ASSUME 2 * count # n PROVE FALSE
    <3>1. (2 * count = n) = FALSE
        BY <2>1
    <3>2. HexStringToBytes(s) = [valid |-> FALSE, output |-> bytes]
        BY <1>6, <3>1
    <3> QED BY <3>2
  <2> QED BY <1>2, <1>3, <1>4, <2>1
<1>8. \A i \in 1..n : s[i] \in 0..15
    BY <1>1, <1>4, <1>7
<1>9. Len(bytes) = count
    BY <1>5, <1>7
<1>10. PICK t : t = HexEncode(bytes)
    OBVIOUS
<1>11. ASSUME NEW k \in 1..n
       PROVE  (IF k % 2 = 1 THEN bytes[(k + 1) \div 2] \div 16 ELSE bytes[(k + 1) \div 2] % 16) = s[k]
  <2>1. PICK i : i = (k + 1) \div 2
      OBVIOUS
  <2>2. i \in 1..count /\ (k % 2 = 1 => k = 2 * i - 1) /\ (k % 2 # 1 => k = 2 * i)
      BY <1>3, <1>7, <2>1
  <2>3. 2 * i - 1 \in 1..n /\ 2 * i \in 1..n
      BY <1>3, <1>7, <2>2
  <2>4. PICK a \in 0..15, b \in 0..15 : a = s[2 * i - 1] /\ b = s[2 * i]
      BY <1>8, <2>3
  <2>5. bytes[i] = 16 * a + b
      BY <1>5, <2>2, <2>4
  <2>6. (16 * a + b) \div 16 = a /\ (16 * a + b) % 16 = b
    <3>1. PICK c \in Int : c = 16 * a + b
        BY <2>4
    <3>2. c \in Int /\ 16 \in Nat /\ a \in Int /\ b \in 0..(16 - 1) /\ c = 16 * a + b
        BY <2>4, <3>1
    <3>3. c \div 16 = a /\ c % 16 = b
        BY ONLY <3>2, DivisionIs
    <3> QED BY <3>1, <3>3
  <2>7. CASE k % 2 = 1
    <3>1. s[k] = a
        BY <2>2, <2>4, <2>7
    <3> QED BY <2>1, <2>5, <2>6, <2>7, <3>1
  <2>8. CASE k % 2 # 1
    <3>1. s[k] = b
        BY <2>2, <2>4, <2>8
    <3> QED BY <2>1, <2>5, <2>6, <2>8, <3>1
  <2> QED BY <2>7, <2>8
<1>12. t = [k \in 1..n |-> IF k % 2 = 1 THEN bytes[(k + 1) \div 2] \div 16 ELSE bytes[(k + 1) \div 2] % 16]
    BY <1>7, <1>9, <1>10 DEF HexEncode
<1>13. t = [k \in 1..n |-> s[k]]
    BY <1>11, <1>12
<1>14. s = [k \in 1..n |-> s[k]]
    BY <1>1
<1>15. HexStringToBytes(s).output = bytes
    BY <1>6
<1> QED BY <1>10, <1>13, <1>14, <1>15

\* A text of characters and one of the conversions.
StringInv == input \in [kind : Kinds, chars : Seq(Chars)]

\* Characters are known by numbers.
LEMMA CharsAre ==
    ASSUME WidthAssumption, NEW chars \in Seq(Chars)
    PROVE  chars \in Seq(Int)
<1>1. Digits \subseteq Int
    BY DEF WidthAssumption
<1>2. Chars \subseteq Int
    BY <1>1 DEF Chars, Minus, Plus, Blank, X, Other
<1>3. PICK n \in Nat : n = Len(chars) /\ chars \in [1..n -> Chars]
    OBVIOUS
<1>4. chars \in [1..n -> Int]
    BY <1>2, <1>3
<1> QED BY <1>4

\* Every text and conversion is exact.
LEMMA ExactFromInv == WidthAssumption /\ StringInv => ConversionsExact
<1> SUFFICES ASSUME WidthAssumption, StringInv PROVE ConversionsExact
    OBVIOUS
<1>1. PICK kind, chars : kind = input.kind /\ chars = input.chars
    OBVIOUS
<1>2. kind \in Kinds /\ chars \in Seq(Int)
  <2>1. kind \in Kinds /\ chars \in Seq(Chars)
      BY <1>1 DEF StringInv
  <2> QED BY <2>1, CharsAre
<1>3. BestEffort(kind, chars)
    BY <1>2, AllBestEffort
<1>4. PICK result : result = Convert(kind, chars)
    OBVIOUS
<1>5. ASSUME kind # "HexStringToInt", result.valid
      PROVE  Convert(kind, IntToString(result.output)) = result
  <2>1. kind \in {"StringToInt", "StringToUint"}
      BY <1>2, <1>5 DEF Kinds
  <2>2. result.output \in TypeRange(kind) /\ result.valid = TRUE
      BY <1>2, <1>4, <1>5, ConvertTyped
  <2>3. Convert(kind, IntToString(result.output)) = [valid |-> TRUE, output |-> result.output]
      BY <2>1, <2>2, RoundTrip
  <2>4. result = [valid |-> result.valid, output |-> result.output]
      BY <1>4 DEF Convert
  <2> QED BY <2>2, <2>3, <2>4
<1>6. HexStringToBytes(chars).valid => HexEncode(HexStringToBytes(chars).output) = chars
    BY <1>2, HexRoundTrip
<1> QED BY <1>1, <1>3, <1>4, <1>5, <1>6 DEF ConversionsExact

\* Texts of any length are converted exactly, whatever the width of an int: the number
\* that they begin with or the bound that it is beyond, and back again.
THEOREM ConversionsAlwaysExact == StringSpec => []ConversionsExact
<1>1. StringInit => StringInv
  <2> SUFFICES ASSUME StringInit PROVE StringInv
      OBVIOUS
  <2>1. PICK k \in Kinds : input = [kind |-> k, chars |-> <<>>]
      BY DEF StringInit
  <2>2. <<>> \in Seq(Chars)
      OBVIOUS
  <2> QED BY <2>1, <2>2 DEF StringInv
<1>2. StringInv /\ [Extend]_stringVars => StringInv'
  <2> SUFFICES ASSUME StringInv, [Extend]_stringVars PROVE StringInv'
      OBVIOUS
  <2>1. CASE Extend
    <3>1. PICK c \in Chars : input' = [kind |-> input.kind, chars |-> Append(input.chars, c)]
        BY <2>1 DEF Extend
    <3>2. input.kind \in Kinds /\ input.chars \in Seq(Chars)
        BY DEF StringInv
    <3>3. Append(input.chars, c) \in Seq(Chars)
        BY <3>2
    <3> QED BY <3>1, <3>2, <3>3 DEF StringInv
  <2>2. CASE UNCHANGED stringVars
      BY <2>2 DEF StringInv, stringVars
  <2> QED BY <2>1, <2>2
<1>3. StringInv => ConversionsExact
    BY WidthAssumption, ExactFromInv
<1> QED BY <1>1, <1>2, <1>3, PTL DEF StringSpec
=============================================================================
