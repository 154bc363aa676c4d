------------------------- MODULE TableDiscoveryProofs -------------------------
(***************************************************************************)
(* rows_ of one table, with or without a class filter, for every set of     *)
(* servers, objects and applications and every tree of objects.             *)
(*                                                                          *)
(* Rows are made one by one, though the handlers that make them call one    *)
(* another.  The argument is about the call stack (Nested): above addRow()  *)
(* there are only handlers of the row's own variables, which make no row,   *)
(* so that the row addRow() is building is the last, and is complete when   *)
(* it returns.                                                              *)
(*                                                                          *)
(* The lemmas give, for every action, the invariant in the next state, what *)
(* the action may do to rows_ (Grows) and that it leaves the frames below   *)
(* the innermost one (Under).                                               *)
(***************************************************************************)
EXTENDS TableDiscovery, TLAPS, FiniteSetTheorems

----------------------------------------------------------------------------
(* The call stack and the rows, for either kind of table.                   *)

\* Only a class-filtered table is a client of objects, and walks them.
Filtered == {o \in Objects : ClassFilter}

ServerFrames == [op : {"server"}, at : Servers, i : Nat \ {0}, row : Nat, col : Nat]
AddedFrames  == [op : {"added"}, at : Servers, i : Nat, row : Nat, col : Nat]
WalkFrames   == [op : {"walk"}, at : Filtered, i : Nat, row : Nat, col : Nat]
RowFrames    == [op : {"row"}, at : Objects, i : Nat, row : Nat, col : 1..(Columns + 1)]
\* A variable's handler is called for a column of one of the n rows.
VariableFrames(n) == [op : {"var", "kids"}, at : Objects, i : Nat, row : 1..n, col : Cols]
CallerFrames == ServerFrames \union AddedFrames \union WalkFrames
FramesFor(n) == CallerFrames \union RowFrames \union VariableFrames(n)

\* addRow() is executing.
Adding == \E j \in 1..Len(stack) : stack[j].op = "row"

\* Above addRow() there are only handlers of its variables, and the row it
\* builds is the last one, of its object, up to the column before the next.
Nested ==
    /\ \A i, j \in 1..Len(stack) :
          i < j /\ stack[j].op = "row" => stack[i].op \in {"var", "kids"}
    /\ \A j \in 1..Len(stack) :
          stack[j].op = "row" => /\ rows # <<>> /\ rows[Len(rows)].built + 1 = stack[j].col
                                 /\ rows[Len(rows)].obj = stack[j].at
    /\ \A n \in 1..Len(rows) : rows[n].built = Columns \/ (n = Len(rows) /\ Adding)

\* A column has found the object of its object id, or none.
Bound == \A n \in 1..Len(rows), c \in Cols :
             rows[n].object[c] \in {NoObject, ObjectId(rows[n], c)}

RowsInv ==
    /\ rows \in Seq(Rows)
    /\ stack \in Seq(FramesFor(Len(rows)))
    /\ varOn \subseteq (1..Len(rows)) \X Cols \X Objects
    /\ Nested /\ Bound

\* What a step may do to rows_.
Grows ==
    /\ Len(rows') >= Len(rows)
    /\ \A n \in 1..Len(rows) :
         /\ rows'[n].obj = rows[n].obj /\ rows'[n].fromRoot = rows[n].fromRoot
         /\ rows'[n].built >= rows[n].built
         /\ \A c \in Cols : rows'[n].object[c] \in {rows[n].object[c], ObjectId(rows[n], c)}
    /\ \A n \in 1..Len(rows') : n > Len(rows) => \A c \in Cols : rows'[n].object[c] = NoObject

\* A step is one of the innermost handler: those below it stay.
Under == \A j \in 1..Len(stack) : j > 1 => \E k \in 1..Len(stack') : stack'[k] = stack[j]

\* A step that leaves the variables alone: the frames of their handlers are some
\* of those there were, d of others were put on top, and a new row has found
\* nothing.
Stays == \A j \in 1..Len(stack) : stack[j].op \in {"var", "kids"} =>
             \E k \in 1..Len(stack') : stack'[k] = stack[j]
Moved(d) == \A k \in 1..Len(stack') : stack'[k].op \in {"var", "kids"} =>
                k + 1 - d \in 1..Len(stack) /\ stack'[k] = stack[k + 1 - d]
Settled ==
    /\ varOn' = varOn
    /\ \A n \in 1..Len(rows) : rows'[n] = rows[n]
    /\ \A n \in 1..Len(rows') : n > Len(rows) =>
          /\ rows'[n].built = 0
          /\ \A c \in Cols : rows'[n].object[c] = NoObject /\ rows'[n].variable[c] = NoObject
    /\ Stays /\ \E d \in Nat : Moved(d)

\* No row and nothing executing.
LEMMA InitRows == Init => RowsInv
<1> SUFFICES ASSUME Init PROVE RowsInv
    OBVIOUS
<1>1. rows \in Seq(Rows) /\ Len(rows) = 0 /\ stack \in Seq(FramesFor(Len(rows))) /\ Len(stack) = 0
    BY DEF Init
<1>2. Nested /\ Bound
    BY <1>1 DEF Nested, Bound
<1> QED BY <1>1, <1>2 DEF RowsInv, Init

\* What grows stays bound.
LEMMA GrowsBound == ASSUME rows \in Seq(Rows), Bound, Grows PROVE Bound'
<1> SUFFICES ASSUME NEW n \in 1..Len(rows'), NEW c \in Cols
             PROVE  (rows[n].object[c] \in {NoObject, ObjectId(rows[n], c)})'
    BY DEF Bound
<1>1. CASE n > Len(rows)
    BY <1>1 DEF Grows
<1>2. CASE ~(n > Len(rows))
  <2>1. n \in 1..Len(rows)
      BY <1>2
  <2>2. (ObjectId(rows[n], c))' = ObjectId(rows[n], c)
      BY <2>1 DEF Grows, ObjectId
  <2>3. rows'[n].object[c] \in {rows[n].object[c], ObjectId(rows[n], c)}
      BY <2>1 DEF Grows
  <2> QED BY <2>1, <2>2, <2>3 DEF Bound
<1> QED BY <1>1, <1>2

\* A handler replaces itself by the calls it makes, above what called it.
LEMMA CallsAre ==
    ASSUME NEW S, stack \in Seq(S), NEW frames \in Seq(S), Calls(frames)
    PROVE  /\ stack' \in Seq(S)
           /\ Len(stack') = Len(frames) + (IF stack = <<>> THEN 0 ELSE Len(stack) - 1)
           /\ \A k \in 1..Len(stack') :
                 stack'[k] = IF k <= Len(frames) THEN frames[k]
                                                 ELSE stack[k - Len(frames) + 1]
<1>1. CASE stack = <<>>
    BY <1>1 DEF Calls
<1>2. CASE stack # <<>>
  <2>1. /\ Tail(stack) \in Seq(S) /\ Len(Tail(stack)) = Len(stack) - 1
        /\ \A k \in 1..Len(Tail(stack)) : Tail(stack)[k] = stack[k + 1]
      BY <1>2
  <2> DEFINE rest == Tail(stack)
  <2>2. stack' = frames \o rest
      BY <1>2 DEF Calls
  <2> HIDE DEF rest
  <2> QED BY <1>2, <2>1, <2>2 DEF rest
<1> QED BY <1>1, <1>2

\* The calls it makes are on top.
LEMMA CallsOver ==
    ASSUME NEW S, stack \in Seq(S), NEW frames \in Seq(S), Calls(frames), NEW h \in 1..Len(frames)
    PROVE  h \in 1..Len(stack') /\ stack'[h] = frames[h]
<1>1. Len(frames) \in Nat /\ Len(stack) \in Nat /\ (stack # <<>> => Len(stack) > 0)
    OBVIOUS
<1>2. Len(stack') >= Len(frames) /\ Len(stack') \in Nat
  <2>1. CASE stack = <<>>
    <3>1. Len(stack') = Len(frames) + 0
        BY <2>1, CallsAre
    <3> QED BY <1>1, <3>1
  <2>2. CASE stack # <<>>
    <3>1. Len(stack') = Len(frames) + (Len(stack) - 1)
        BY <2>2, CallsAre
    <3> QED BY <1>1, <2>2, <3>1
  <2> QED BY <2>1, <2>2
<1>3. h \in 1..Len(stack') /\ h <= Len(frames)
    BY <1>1, <1>2
<1> QED BY <1>3, CallsAre

\* A frame stays one when there are more rows.
LEMMA FramesGrow ==
    ASSUME NEW n \in Nat, NEW m \in Nat, n <= m
    PROVE  Seq(FramesFor(n)) \subseteq Seq(FramesFor(m))
<1>1. FramesFor(n) \subseteq FramesFor(m)
    BY DEF FramesFor, VariableFrames
<1> QED BY <1>1

\* One frame, or none.
LEMMA WhenTyped ==
    ASSUME NEW S, NEW cond, NEW f \in S PROVE When(cond, f) \in Seq(S)
BY DEF When

\* The handlers that call addRow(): nothing executes above them.
AtCaller == stack = <<>> \/ Head(stack).op \in {"added", "server", "walk"}

\* One adds a row and completes it first, or only makes calls like it.
Enters(o, f, more) ==
    /\ rows' = Append(rows, NewRow(o, f))
    /\ Calls(<<RowFrame(o, 1)>> \o more)
Continues(more) == rows' = rows /\ Calls(more)

\* Nothing is being added below such a handler.
LEMMA CallerAdds == ASSUME RowsInv, AtCaller PROVE ~Adding
<1> SUFFICES ASSUME NEW j \in 1..Len(stack), stack[j].op = "row" PROVE FALSE
    BY DEF Adding
<1>1. stack # <<>> /\ stack[1] = Head(stack) /\ 1 \in 1..Len(stack)
    BY DEF RowsInv
<1>2. j # 1
    BY <1>1 DEF AtCaller
<1>3. stack[1].op \in {"var", "kids"}
    BY <1>1, <1>2 DEF RowsInv, Nested
<1> QED BY <1>1, <1>3 DEF AtCaller

\* So every row is complete.
LEMMA CallerComplete ==
    ASSUME RowsInv, AtCaller PROVE \A n \in 1..Len(rows) : rows[n].built = Columns
BY CallerAdds DEF RowsInv, Nested

\* What is under the calls a handler makes is what was under it.
LEMMA UnderCalls ==
    ASSUME NEW S, stack \in Seq(S), NEW frames \in Seq(S), Calls(frames),
           NEW k \in 1..Len(stack'), k > Len(frames)
    PROVE  \E j \in 1..Len(stack) : j > 1 /\ j = k - Len(frames) + 1 /\ stack'[k] = stack[j]
<1>1. /\ Len(stack') = Len(frames) + (IF stack = <<>> THEN 0 ELSE Len(stack) - 1)
      /\ stack'[k] = stack[k - Len(frames) + 1]
    BY CallsAre
<1>2. Len(frames) \in Nat /\ Len(stack) \in Nat
    OBVIOUS
<1>3. stack # <<>>
    BY <1>1, <1>2
<1>4. k - Len(frames) + 1 \in 1..Len(stack) /\ k - Len(frames) + 1 > 1
    BY <1>1, <1>2, <1>3
<1> QED BY <1>1, <1>4

\* A call, a return or a loop's next iteration leaves the frames below.
LEMMA CallsUnder ==
    ASSUME NEW S, stack \in Seq(S), NEW frames \in Seq(S), Calls(frames) PROVE Under
<1> SUFFICES ASSUME NEW j \in 1..Len(stack), j > 1
             PROVE  \E k \in 1..Len(stack') : stack'[k] = stack[j]
    BY DEF Under
<1>1. Len(frames) \in Nat /\ Len(stack) \in Nat /\ stack # <<>>
    OBVIOUS
<1>2. Len(stack') = Len(frames) + (Len(stack) - 1)
    BY <1>1, CallsAre
<1> DEFINE k == j + Len(frames) - 1
<1>3. k \in 1..Len(stack') /\ k > Len(frames) /\ k - Len(frames) + 1 = j
    BY <1>1, <1>2
<1> HIDE DEF k
<1>4. stack'[k] = stack[j]
    BY <1>3, UnderCalls
<1> QED BY <1>3, <1>4

\* Calls of other handlers only move those of variables.
LEMMA CallsMove ==
    ASSUME NEW S, stack \in Seq(S), NEW frames \in Seq(S), Calls(frames),
           \A k \in 1..Len(frames) : frames[k].op \notin {"var", "kids"}
    PROVE  \E d \in Nat : Moved(d)
<1> DEFINE d == Len(frames)
<1>1. d \in Nat /\ stack' \in Seq(S) /\ Len(stack') \in Nat /\ Len(stack) \in Nat
    BY CallsAre
<1>2. ASSUME NEW k \in 1..Len(stack'), stack'[k].op \in {"var", "kids"}
      PROVE  k + 1 - d \in 1..Len(stack) /\ stack'[k] = stack[k + 1 - d]
  <2>1. CASE k <= d
    <3>1. stack'[k] = frames[k] /\ k \in 1..Len(frames)
        BY <1>1, <2>1, CallsAre
    <3> QED BY <1>2, <3>1
  <2>2. CASE ~(k <= d)
    <3>1. k > Len(frames) /\ k - Len(frames) + 1 = k + 1 - d
        BY <1>1, <2>2
    <3>2. \E j \in 1..Len(stack) : j > 1 /\ j = k - Len(frames) + 1 /\ stack'[k] = stack[j]
        BY <3>1, UnderCalls
    <3> HIDE DEF d
    <3> QED BY <3>1, <3>2
  <2> QED BY <2>1, <2>2
<1> QED BY <1>1, <1>2 DEF Moved

\* None of theirs is replaced unless it is on top.
LEMMA UnderStays ==
    ASSUME Under, NEW S, stack \in Seq(S), stack = <<>> \/ Head(stack).op \notin {"var", "kids"}
    PROVE  Stays
<1> SUFFICES ASSUME NEW j \in 1..Len(stack), stack[j].op \in {"var", "kids"}
             PROVE  \E k \in 1..Len(stack') : stack'[k] = stack[j]
    BY DEF Stays
<1>1. stack # <<>> /\ stack[1] = Head(stack)
    OBVIOUS
<1>2. j > 1
    BY <1>1
<1> QED BY <1>2 DEF Under

\* No call of Continues is addRow().
LEMMA CallerFrame ==
    /\ \A n \in Nat : CallerFrames \subseteq FramesFor(n)
    /\ \A x \in CallerFrames : x.op \in {"server", "added", "walk"}
    /\ \A n \in Nat, o \in Objects : RowFrame(o, 1) \in FramesFor(n)
BY ColumnsAssumption DEF RowFrame, Frame, FramesFor, RowFrames, CallerFrames,
   ServerFrames, AddedFrames, WalkFrames

\* A handler of the table that goes on without adding a row.
LEMMA ContinuesInv ==
    ASSUME RowsInv, AtCaller, NEW more \in Seq(CallerFrames), Continues(more), varOn' = varOn
    PROVE  RowsInv' /\ Grows /\ Under /\ Settled
<1>1. rows \in Seq(Rows) /\ Len(rows) \in Nat /\ rows' = rows
    BY DEF RowsInv, Continues
<1>2. more \in Seq(FramesFor(Len(rows))) /\ stack \in Seq(FramesFor(Len(rows))) /\ Calls(more)
    BY <1>1, CallerFrame DEF RowsInv, Continues
<1>3. stack' \in Seq(FramesFor(Len(rows)))
    BY <1>2, CallsAre
<1>4. ASSUME NEW k \in 1..Len(stack') PROVE stack'[k].op # "row"
  <2>1. CASE k <= Len(more)
    <3>1. stack'[k] = more[k]
        BY <1>2, <2>1, CallsAre
    <3>2. more[k] \in CallerFrames
        BY <2>1
    <3> QED BY <3>1, <3>2, CallerFrame
  <2>2. CASE ~(k <= Len(more))
    <3>1. PICK j \in 1..Len(stack) : stack'[k] = stack[j]
        BY <1>2, <2>2, UnderCalls
    <3> QED BY <3>1, CallerAdds DEF Adding
  <2> QED BY <2>1, <2>2
<1>5. Nested'
    BY <1>1, <1>4, CallerComplete DEF Nested
<1>6. Grows
  <2>1. \A n \in 1..Len(rows) : rows[n] \in Rows
      BY <1>1
  <2>2. \A n \in 1..Len(rows) : rows[n].built \in Nat
      BY <2>1, ColumnsAssumption DEF Rows
  <2> QED BY <1>1, <2>2 DEF Grows
<1>7. Bound'
    BY <1>1, <1>6, GrowsBound DEF RowsInv
<1>8. Under
    BY <1>2, CallsUnder
<1>9. Settled
  <2>1. \A k \in 1..Len(more) : more[k].op \notin {"var", "kids"}
    <3>1. \A k \in 1..Len(more) : more[k] \in CallerFrames
        OBVIOUS
    <3> QED BY <3>1, CallerFrame
  <2>2. \E d \in Nat : Moved(d)
      BY <1>2, <2>1, CallsMove
  <2>3. \A n \in 1..Len(rows) : ~(n > Len(rows))
      BY <1>1
  <2>4. Stays
      BY <1>2, <1>8, UnderStays DEF AtCaller
  <2> QED BY <1>1, <2>2, <2>3, <2>4 DEF Settled
<1> QED BY <1>1, <1>3, <1>5, <1>6, <1>7, <1>8, <1>9 DEF RowsInv

\* A row that is entered is last and has no variables yet.
LEMMA EntersRow ==
    ASSUME RowsInv, NEW o \in Objects, NEW f \in BOOLEAN, rows' = Append(rows, NewRow(o, f))
    PROVE  /\ rows' \in Seq(Rows)
           /\ Len(rows') = Len(rows) + 1
           /\ \A n \in 1..Len(rows) : rows'[n] = rows[n]
           /\ rows'[Len(rows) + 1].built = 0
           /\ rows'[Len(rows) + 1].obj = o
           /\ \A c \in Cols : /\ rows'[Len(rows) + 1].object[c] = NoObject
                              /\ rows'[Len(rows) + 1].variable[c] = NoObject
<1> DEFINE new == NewRow(o, f)
<1>1. /\ new \in Rows /\ new.built = 0 /\ new.obj = o
      /\ \A c \in Cols : new.object[c] = NoObject /\ new.variable[c] = NoObject
    BY ColumnsAssumption DEF NewRow, Rows
<1>2. rows' = Append(rows, new) /\ rows \in Seq(Rows)
    BY DEF RowsInv
<1> HIDE DEF new
<1> QED BY <1>1, <1>2

\* A row is added, not a column: the others are complete, and addRow() is the
\* next call.
LEMMA EntersInv ==
    ASSUME RowsInv, AtCaller, NEW o \in Objects, NEW f \in BOOLEAN,
           NEW more \in Seq(CallerFrames), Enters(o, f, more), varOn' = varOn
    PROVE  RowsInv' /\ Grows /\ Under /\ Settled
<1> DEFINE last == Len(rows) + 1
           row == RowFrame(o, 1)
<1> PICK frames : frames = <<row>> \o more
    OBVIOUS
<1>1. /\ rows' \in Seq(Rows)
      /\ Len(rows') = last
      /\ \A n \in 1..Len(rows) : rows'[n] = rows[n]
      /\ rows'[last].built = 0 /\ rows'[last].obj = o
      /\ \A c \in Cols : rows'[last].object[c] = NoObject /\ rows'[last].variable[c] = NoObject
    BY EntersRow DEF Enters
<1>2. rows \in Seq(Rows) /\ Len(rows) \in Nat /\ last \in Nat /\ Len(rows) <= last
    BY DEF RowsInv
<1>3. more \in Seq(FramesFor(last)) /\ row \in FramesFor(last)
    BY <1>2, CallerFrame
<1>4. stack \in Seq(FramesFor(last)) /\ Calls(frames)
    BY <1>1, <1>2, FramesGrow DEF RowsInv, Enters
<1>5. row.op = "row" /\ row.col = 1 /\ row.at = o
    BY DEF RowFrame, Frame
<1> HIDE DEF row
<1>6. /\ frames \in Seq(FramesFor(last))
      /\ Len(frames) = Len(more) + 1 /\ Len(more) \in Nat
      /\ frames[1] = row
      /\ \A k \in 1..Len(more) : frames[k + 1] = more[k]
  <2> HIDE DEF last
  <2> QED BY <1>3
<1>7. stack' \in Seq(FramesFor(last))
    BY <1>4, <1>6, CallsAre
<1>8. /\ Len(stack') >= Len(frames) /\ Len(stack') \in Nat
      /\ \A k \in 1..Len(frames) : stack'[k] = frames[k]
  <2>1. /\ Len(stack') = Len(frames) + (IF stack = <<>> THEN 0 ELSE Len(stack) - 1)
        /\ \A k \in 1..Len(stack') :
             stack'[k] = IF k <= Len(frames) THEN frames[k] ELSE stack[k - Len(frames) + 1]
      BY <1>4, <1>6, CallsAre
  <2>2. Len(frames) \in Nat /\ Len(stack) \in Nat /\ (stack # <<>> => Len(stack) > 0)
      BY <1>4, <1>6
  <2>3. Len(stack') \in Nat /\ Len(stack') >= Len(frames)
    <3>1. CASE stack = <<>>
        BY <2>1, <2>2, <3>1
    <3>2. CASE stack # <<>>
        BY <2>1, <2>2, <3>2
    <3> QED BY <3>1, <3>2
  <2>4. ASSUME NEW k \in 1..Len(frames) PROVE stack'[k] = frames[k]
    <3>1. k \in 1..Len(stack') /\ k <= Len(frames)
        BY <2>2, <2>3
    <3> QED BY <2>1, <3>1
  <2> QED BY <2>3, <2>4
<1>9. stack'[1] = row /\ 1 \in 1..Len(stack')
    BY <1>6, <1>8
<1>10. ASSUME NEW k \in 1..Len(stack'), k # 1 PROVE stack'[k].op # "row"
  <2>1. CASE k <= Len(frames)
    <3>1. k - 1 \in 1..Len(more) /\ k = (k - 1) + 1
        BY <1>6, <1>10, <2>1
    <3>2. stack'[k] = more[k - 1]
        BY <1>6, <1>8, <2>1, <3>1
    <3>3. more[k - 1] \in CallerFrames
        BY <3>1
    <3> QED BY <3>2, <3>3, CallerFrame
  <2>2. CASE ~(k <= Len(frames))
    <3> k > Len(frames)
        BY <1>6, <1>8, <2>2
    <3>1. PICK j \in 1..Len(stack) : stack'[k] = stack[j]
        BY <1>4, <1>6, <2>2, UnderCalls
    <3> QED BY <3>1, CallerAdds DEF Adding
  <2> QED BY <2>1, <2>2
<1>11. Nested'
  <2>1. Adding'
      BY <1>5, <1>9 DEF Adding
  <2>2. ASSUME NEW n \in 1..Len(rows'), n # Len(rows') PROVE rows'[n].built = Columns
    <3>1. n \in 1..Len(rows)
        BY <1>1, <1>2, <2>2
    <3>2. rows'[n] = rows[n] /\ rows[n].built = Columns
        BY <1>1, <3>1, CallerComplete
    <3> QED BY <3>2
  <2>3. \A i, j \in 1..Len(stack') :
           i < j /\ stack'[j].op = "row" => stack'[i].op \in {"var", "kids"}
      BY <1>10
  <2>4. \A j \in 1..Len(stack') :
           stack'[j].op = "row" => /\ rows' # <<>> /\ rows'[Len(rows')].built + 1 = stack'[j].col
                                   /\ rows'[Len(rows')].obj = stack'[j].at
      BY <1>1, <1>2, <1>5, <1>9, <1>10
  <2> QED BY <2>1, <2>2, <2>3, <2>4 DEF Nested
<1>12. Grows
  <2>1. \A n \in 1..Len(rows) : rows[n] \in Rows
      BY <1>2
  <2>2. \A n \in 1..Len(rows) : rows[n].built \in Nat
      BY <2>1, ColumnsAssumption DEF Rows
  <2> QED BY <1>1, <1>2, <2>2 DEF Grows
<1>13. Bound'
    BY <1>2, <1>12, GrowsBound DEF RowsInv
<1>14. varOn' \subseteq (1..last) \X Cols \X Objects
    BY <1>2 DEF RowsInv
<1>15. Under
    BY <1>4, <1>6, CallsUnder
<1>16. Settled
  <2>1. \A k \in 1..Len(frames) : frames[k].op \notin {"var", "kids"}
    <3>1. \A k \in 1..Len(more) : more[k].op \in {"server", "added", "walk"}
      <4>1. \A k \in 1..Len(more) : more[k] \in CallerFrames
          OBVIOUS
      <4> QED BY <4>1, CallerFrame
    <3>2. ASSUME NEW k \in 1..Len(frames), k # 1 PROVE frames[k].op \in {"server", "added", "walk"}
      <4>1. k - 1 \in 1..Len(more) /\ (k - 1) + 1 = k
          BY <1>6, <3>2
      <4>2. frames[k] = more[k - 1]
          BY <1>6, <4>1
      <4> QED BY <3>1, <4>1, <4>2
    <3> QED BY <1>5, <1>6, <3>2
  <2>2. \E d \in Nat : Moved(d)
      BY <1>4, <1>6, <2>1, CallsMove
  <2>3. \A n \in 1..Len(rows') : n > Len(rows) => n = last
      BY <1>1, <1>2
  <2>4. Stays
      BY <1>4, <1>15, UnderStays DEF AtCaller
  <2> QED BY <1>1, <2>2, <2>3, <2>4 DEF Settled
<1> QED BY <1>1, <1>7, <1>11, <1>12, <1>13, <1>14, <1>15, <1>16 DEF RowsInv

----------------------------------------------------------------------------
(* The handlers of rows and variables rewrite rows in place.                *)

Rewrites(new) ==
    /\ new \in Seq(Rows) /\ Len(new) = Len(rows)
    /\ \A n \in 1..Len(rows) :
         /\ new[n].obj = rows[n].obj /\ new[n].fromRoot = rows[n].fromRoot
         /\ new[n].built = rows[n].built
         /\ \A c \in Cols : new[n].object[c] \in {rows[n].object[c], ObjectId(rows[n], c)}

\* A column that looks for its object.
LEMMA FoundRows ==
    ASSUME rows \in Seq(Rows), NEW r \in 1..Len(rows), NEW c \in Cols, NEW o
    PROVE  Rewrites(Found(r, c, o))
<1> DEFINE t == ObjectId(rows[r], c)
           to == IF t = o THEN o ELSE rows[r].object[c]
           new == [rows[r] EXCEPT !.object[c] = to]
<1>1. rows[r] \in Rows
    OBVIOUS
<1>2. t \in Objects \union {NoObject}
    BY <1>1, MappingAssumption DEF ObjectId, Rows
<1>3. to \in {rows[r].object[c], t} /\ to \in Objects \union {NoObject}
    BY <1>1, <1>2 DEF Rows
<1>4. Found(r, c, o) = [rows EXCEPT ![r] = new]
    BY DEF Found
<1> HIDE DEF t, to
<1>5. /\ new \in Rows
      /\ new.obj = rows[r].obj /\ new.fromRoot = rows[r].fromRoot /\ new.built = rows[r].built
      /\ \A d \in Cols : new.object[d] \in {rows[r].object[d], ObjectId(rows[r], d)}
    BY <1>1, <1>3 DEF Rows, t
<1> HIDE DEF new
<1>6. /\ [rows EXCEPT ![r] = new] \in Seq(Rows) /\ Len([rows EXCEPT ![r] = new]) = Len(rows)
      /\ \A n \in 1..Len(rows) : [rows EXCEPT ![r] = new][n] = IF n = r THEN new ELSE rows[n]
    BY <1>5
<1> QED BY <1>4, <1>5, <1>6 DEF Rewrites

\* A row rewritten in place is the same row.
LEMMA RewritesGrow ==
    ASSUME rows \in Seq(Rows), Rewrites(rows') PROVE Grows
<1>1. \A n \in 1..Len(rows) : rows[n] \in Rows
    OBVIOUS
<1>2. \A n \in 1..Len(rows) : rows[n].built \in Nat
    BY <1>1, ColumnsAssumption DEF Rows
<1>3. Len(rows) \in Nat /\ Len(rows') = Len(rows)
    BY DEF Rewrites
<1>4. \A n \in 1..Len(rows') : ~(n > Len(rows))
    BY <1>3
<1> QED BY <1>2, <1>3, <1>4 DEF Rewrites, Grows

\* The frames of a variable's handlers.
LEMMA VariableFrame ==
    /\ \A n \in Nat : VariableFrames(n) \subseteq FramesFor(n)
    /\ \A n \in Nat : \A x \in VariableFrames(n) : x.op \in {"var", "kids"}
BY DEF FramesFor, VariableFrames

\* Handlers of variables call handlers of variables.
LEMMA VariableInv ==
    ASSUME RowsInv, stack # <<>>, Head(stack).op \in {"var", "kids"},
           NEW frames \in Seq(VariableFrames(Len(rows))), Calls(frames),
           Rewrites(rows'), varOn' \subseteq (1..Len(rows)) \X Cols \X Objects
    PROVE  RowsInv' /\ Grows /\ Under /\ Len(rows') = Len(rows)
<1>1. /\ rows \in Seq(Rows) /\ rows' \in Seq(Rows)
      /\ Len(rows) \in Nat /\ Len(rows') = Len(rows)
    BY DEF RowsInv, Rewrites
<1>2. frames \in Seq(FramesFor(Len(rows))) /\ stack \in Seq(FramesFor(Len(rows)))
    BY <1>1, VariableFrame DEF RowsInv
<1>3. stack' \in Seq(FramesFor(Len(rows)))
    BY <1>2, CallsAre
<1>4. Grows
    BY <1>1, RewritesGrow
<1>5. Bound'
    BY <1>1, <1>4, GrowsBound DEF RowsInv
<1>6. /\ Len(frames) \in Nat /\ Len(stack) \in Nat /\ Len(stack) > 0
      /\ Len(stack') = Len(frames) + Len(stack) - 1
      /\ 1 \in 1..Len(stack) /\ stack[1] = Head(stack)
  <2>1. Len(stack') = Len(frames) + (Len(stack) - 1)
      BY <1>2, CallsAre
  <2> QED BY <1>2, <2>1
<1>7. ASSUME NEW k \in 1..Len(stack'), k <= Len(frames) PROVE stack'[k].op \in {"var", "kids"}
  <2>1. stack'[k] = frames[k]
      BY <1>2, <1>7, CallsAre
  <2>2. frames[k] \in VariableFrames(Len(rows))
      BY <1>6, <1>7
  <2> QED BY <1>1, <2>1, <2>2, VariableFrame
<1>8. ASSUME NEW k \in 1..Len(stack'), ~(k <= Len(frames))
      PROVE  \E j \in 1..Len(stack) : j = k - Len(frames) + 1 /\ stack'[k] = stack[j]
  <2>1. k > Len(frames)
      BY <1>6, <1>8
  <2> QED BY <1>2, <2>1, UnderCalls
<1>9. ASSUME Adding PROVE Adding'
  <2>1. PICK j \in 1..Len(stack) : stack[j].op = "row"
      BY <1>9 DEF Adding
  <2>2. j # 1
      BY <1>6, <2>1
  <2> DEFINE k == j + Len(frames) - 1
  <2>3. k \in 1..Len(stack') /\ ~(k <= Len(frames)) /\ k - Len(frames) + 1 = j
      BY <1>6, <2>2
  <2> HIDE DEF k
  <2>4. stack'[k] = stack[j]
      BY <1>8, <2>3
  <2> QED BY <2>1, <2>3, <2>4 DEF Adding
<1>10. Nested'
  <2>1. ASSUME NEW i \in 1..Len(stack'), NEW j \in 1..Len(stack'), i < j, stack'[j].op = "row"
        PROVE  stack'[i].op \in {"var", "kids"}
    <3>1. ~(j <= Len(frames))
        BY <1>7, <2>1
    <3>2. PICK l \in 1..Len(stack) : l = j - Len(frames) + 1 /\ stack'[j] = stack[l]
        BY <1>8, <3>1
    <3>3. CASE i <= Len(frames)
        BY <1>7, <3>3
    <3>4. CASE ~(i <= Len(frames))
      <4>1. PICK h \in 1..Len(stack) : h = i - Len(frames) + 1 /\ stack'[i] = stack[h]
          BY <1>8, <3>4
      <4>2. h < l
          BY <1>6, <2>1, <3>2, <4>1
      <4> QED BY <2>1, <3>2, <4>1, <4>2 DEF RowsInv, Nested
    <3> QED BY <3>3, <3>4
  <2>2. ASSUME NEW j \in 1..Len(stack'), stack'[j].op = "row"
        PROVE  /\ rows' # <<>> /\ rows'[Len(rows')].built + 1 = stack'[j].col
               /\ rows'[Len(rows')].obj = stack'[j].at
    <3>1. ~(j <= Len(frames))
        BY <1>7, <2>2
    <3>2. PICK l \in 1..Len(stack) : stack'[j] = stack[l]
        BY <1>8, <3>1
    <3>3. /\ rows # <<>> /\ rows[Len(rows)].built + 1 = stack'[j].col
          /\ rows[Len(rows)].obj = stack'[j].at
        BY <2>2, <3>2 DEF RowsInv, Nested
    <3>4. Len(rows) \in 1..Len(rows)
        BY <1>1, <3>3
    <3> QED BY <1>1, <3>3, <3>4 DEF Rewrites
  <2>3. ASSUME NEW n \in 1..Len(rows')
        PROVE  rows'[n].built = Columns \/ (n = Len(rows') /\ Adding')
      BY <1>1, <1>9 DEF RowsInv, Nested, Rewrites
  <2> QED BY <2>1, <2>2, <2>3 DEF Nested
<1>11. Under
    BY <1>2, CallsUnder
<1> QED BY <1>1, <1>3, <1>4, <1>5, <1>10, <1>11 DEF RowsInv

\* The frame at the top is one of these.
LEMMA TopFrame ==
    ASSUME RowsInv, stack # <<>>
    PROVE  /\ Head(stack).op = "server" => Head(stack) \in ServerFrames
           /\ Head(stack).op = "added" => Head(stack) \in AddedFrames
           /\ Head(stack).op = "walk" => Head(stack) \in WalkFrames
           /\ Head(stack).op = "row" => Head(stack) \in RowFrames
           /\ Head(stack).op \in {"var", "kids"} => Head(stack) \in VariableFrames(Len(rows))
<1>1. Head(stack) \in FramesFor(Len(rows))
    BY DEF RowsInv
<1> QED BY <1>1 DEF FramesFor, CallerFrames, ServerFrames, AddedFrames, WalkFrames,
        RowFrames, VariableFrames

\* The frames that handlers push.
LEMMA PushedFrames ==
    /\ \A s \in Servers : AddedFrame(s) \in CallerFrames
    /\ \A s \in Servers, i \in Nat \ {0} : ServerFrame(s, i) \in CallerFrames
    /\ \A o \in Filtered, i \in Nat : WalkFrame(o, i) \in CallerFrames
    /\ \A n \in Nat : \A r \in 1..n, c \in Cols, o \in Objects, i \in Nat :
          VarFrame(r, c, o) \in VariableFrames(n) /\ KidsFrame(r, c, o, i) \in VariableFrames(n)
BY DEF AddedFrame, ServerFrame, WalkFrame, VarFrame, KidsFrame, Frame,
       CallerFrames, ServerFrames, AddedFrames, WalkFrames, VariableFrames

\* addRow() returns with its row complete.
LEMMA RowReturns ==
    ASSUME RowsInv, Executing("row"), Head(stack).col > Columns, ReturnFrame,
           UNCHANGED <<rows, varOn>>
    PROVE  RowsInv' /\ Grows /\ Under /\ Settled
<1>1. stack # <<>> /\ Head(stack) \in RowFrames /\ stack[1] = Head(stack) /\ stack[1].op = "row"
    BY TopFrame DEF RowsInv, Executing
<1>2. Head(stack).col = Columns + 1 /\ Columns \in Nat
    BY <1>1, ColumnsAssumption DEF RowFrames
<1>3. /\ rows \in Seq(Rows) /\ Len(rows) \in Nat /\ rows # <<>>
      /\ rows[Len(rows)].built + 1 = Columns + 1 /\ Len(rows) \in 1..Len(rows)
      /\ Len(stack) \in Nat /\ 1 \in 1..Len(stack)
    BY <1>1, <1>2 DEF RowsInv, Nested
<1>4. rows[Len(rows)].built = Columns
  <2>1. rows[Len(rows)] \in Rows
      BY <1>3
  <2>2. rows[Len(rows)].built \in Nat
      BY <2>1, <1>2 DEF Rows
  <2> QED BY <1>2, <1>3, <2>2
<1>5. <<>> \in Seq(FramesFor(Len(rows))) /\ stack \in Seq(FramesFor(Len(rows))) /\ Calls(<<>>)
    BY DEF RowsInv, ReturnFrame
<1>6. stack' \in Seq(FramesFor(Len(rows)))
    BY <1>5, CallsAre
<1>7. ASSUME NEW k \in 1..Len(stack') PROVE stack'[k].op # "row"
  <2>1. Len(<<>>) = 0 /\ k > Len(<<>>)
      BY <1>6
  <2>2. PICK j \in 1..Len(stack) : j > 1 /\ stack'[k] = stack[j]
      BY <1>5, <2>1, UnderCalls
  <2> QED BY <1>1, <1>3, <2>2 DEF RowsInv, Nested
<1>8. \A n \in 1..Len(rows) : rows[n].built = Columns
    BY <1>4 DEF RowsInv, Nested
<1>9. Nested'
    BY <1>7, <1>8 DEF Nested
<1>10. Rewrites(rows')
    BY <1>3 DEF Rewrites
<1>11. Grows
    BY <1>3, <1>10, RewritesGrow
<1>12. Bound'
    BY <1>3, <1>11, GrowsBound DEF RowsInv
<1>13. Under
    BY <1>5, CallsUnder
<1>14. Settled
  <2>1. \E d \in Nat : Moved(d)
    <3>1. \A k \in 1..Len(<<>>) : FALSE
        OBVIOUS
    <3> QED BY <1>5, <3>1, CallsMove
  <2>2. \A n \in 1..Len(rows) : ~(n > Len(rows))
      BY <1>3
  <2>3. Stays
      BY <1>1, <1>5, <1>13, UnderStays
  <2> QED BY <2>1, <2>2, <2>3 DEF Settled
<1> QED BY <1>3, <1>6, <1>9, <1>11, <1>12, <1>13, <1>14 DEF RowsInv

\* The row after one more column.
LEMMA ColumnRows ==
    ASSUME rows \in Seq(Rows), rows # <<>>, NEW c \in Cols, NEW o,
           rows[Len(rows)].built + 1 = c,
           rows' = [Found(Len(rows), c, o) EXCEPT ![Len(rows)].built = c]
    PROVE  /\ rows' \in Seq(Rows) /\ Len(rows') = Len(rows) /\ Grows
           /\ rows'[Len(rows)].built = c
           /\ \A n \in 1..Len(rows) : n # Len(rows) => rows'[n].built = rows[n].built
<1> DEFINE r == Len(rows)
           found == Found(r, c, o)
           new == [found[r] EXCEPT !.built = c]
<1>1. r \in Nat /\ r \in 1..Len(rows) /\ rows[r] \in Rows /\ c \in 0..Columns
    BY ColumnsAssumption DEF Cols
<1>2. Rewrites(found)
    BY <1>1, FoundRows
<1>3. found \in Seq(Rows) /\ Len(found) = Len(rows) /\ found[r] \in Rows
    BY <1>1, <1>2 DEF Rewrites
<1>4. rows' = [found EXCEPT ![r] = new]
    OBVIOUS
<1>5. rows[r].built \in Nat
    BY <1>1, ColumnsAssumption DEF Rows
<1> HIDE DEF found
<1>6. /\ new \in Rows
      /\ new.obj = found[r].obj /\ new.fromRoot = found[r].fromRoot
      /\ new.built = c /\ new.object = found[r].object
    BY <1>1, <1>3 DEF Rows
<1> HIDE DEF new, r
<1>7. /\ rows' \in Seq(Rows) /\ Len(rows') = Len(rows)
      /\ rows'[r] = new /\ \A n \in 1..Len(rows) : n # r => rows'[n] = found[n]
  <2> DEFINE next == [found EXCEPT ![r] = new]
  <2>1. next \in Seq(Rows) /\ Len(next) = Len(rows)
      BY <1>1, <1>3, <1>6
  <2>2. \A n \in 1..Len(rows) : next[n] = IF n = r THEN new ELSE found[n]
      BY <1>1, <1>3
  <2>3. rows' = next
      BY <1>4
  <2> HIDE DEF next
  <2> QED BY <1>1, <2>1, <2>2, <2>3
<1>8. ASSUME NEW n \in 1..Len(rows)
      PROVE  /\ rows'[n].obj = rows[n].obj /\ rows'[n].fromRoot = rows[n].fromRoot
             /\ rows'[n].built >= rows[n].built
             /\ \A d \in Cols : rows'[n].object[d] \in {rows[n].object[d], ObjectId(rows[n], d)}
  <2>1. CASE n = r
    <3>1. new.built >= rows[n].built
        BY <1>1, <1>5, <1>6, <2>1 DEF r
    <3> QED BY <1>2, <1>6, <1>7, <2>1, <3>1 DEF Rewrites
  <2>2. CASE n # r
    <3>1. rows[n] \in Rows
        OBVIOUS
    <3>2. rows[n].built \in Nat
        BY <3>1, ColumnsAssumption DEF Rows
    <3>3. rows'[n] = found[n]
        BY <1>7, <2>2
    <3>4. /\ found[n].obj = rows[n].obj /\ found[n].fromRoot = rows[n].fromRoot
          /\ found[n].built = rows[n].built
          /\ \A d \in Cols : found[n].object[d] \in {rows[n].object[d], ObjectId(rows[n], d)}
        BY <1>2 DEF Rewrites
    <3>5. found[n].built >= rows[n].built
        BY <3>2, <3>4
    <3> QED BY <3>3, <3>4, <3>5
  <2> QED BY <2>1, <2>2
<1>9. Grows
  <2>1. \A n \in 1..Len(rows') : ~(n > Len(rows))
      BY <1>1, <1>7
  <2>2. Len(rows') >= Len(rows)
      BY <1>1, <1>7 DEF r
  <2> QED BY <1>8, <2>1, <2>2 DEF Grows
<1>10. \A n \in 1..Len(rows) : n # r => rows'[n].built = rows[n].built
    BY <1>2, <1>7 DEF Rewrites
<1> QED BY <1>6, <1>7, <1>9, <1>10 DEF r

\* One call, or two.
LEMMA OneCall ==
    ASSUME NEW S, NEW last \in S, NEW frames, frames = <<>> \o <<last>>
    PROVE  frames \in Seq(S) /\ Len(frames) = 1 /\ frames[1] = last
OBVIOUS

\* Two calls, the first to run first.
LEMMA TwoCalls ==
    ASSUME NEW S, NEW first \in S, NEW last \in S, NEW frames, frames = <<first>> \o <<last>>
    PROVE  frames \in Seq(S) /\ Len(frames) = 2 /\ frames[1] = first /\ frames[2] = last
OBVIOUS

\* The calls of addRow() for one column.
LEMMA ColumnCalls ==
    ASSUME NEW r \in Nat \ {0}, NEW c \in Cols, NEW o \in Objects
    PROVE  LET frames == ResolveNow(r, c, o) \o <<RowFrame(o, c + 1)>>
           IN /\ frames \in Seq(FramesFor(r)) /\ Len(frames) \in {1, 2}
              /\ frames[Len(frames)] = RowFrame(o, c + 1)
              /\ Len(frames) = 2 => /\ frames[1] = VarFrame(r, c, o) /\ InSync(o)
                                     /\ frames[1].op = "var"
              /\ Len(frames) = 1 => ~InSync(o)
<1> PICK row : row = RowFrame(o, c + 1)
    OBVIOUS
<1> PICK var : var = VarFrame(r, c, o)
    OBVIOUS
<1>1. row \in FramesFor(r)
    BY ColumnsAssumption DEF RowFrame, Frame, FramesFor, RowFrames, Cols
<1>2. var \in FramesFor(r) /\ var.op = "var"
  <2>1. r \in 1..r
      OBVIOUS
  <2> QED BY <2>1, PushedFrames, VariableFrame DEF VarFrame, Frame
<1> PICK frames : frames = ResolveNow(r, c, o) \o <<row>>
    OBVIOUS
<1>3. CASE InSync(o)
  <2>1. ResolveNow(r, c, o) = <<var>>
      BY <1>3 DEF ResolveNow, When
  <2>2. frames = <<var>> \o <<row>>
      BY <2>1
  <2>3. frames \in Seq(FramesFor(r)) /\ Len(frames) = 2 /\ frames[1] = var /\ frames[2] = row
      BY ONLY <1>1, <1>2, <2>2, TwoCalls
  <2> QED BY <1>2, <1>3, <2>3
<1>4. CASE ~InSync(o)
  <2>1. ResolveNow(r, c, o) = <<>>
      BY <1>4 DEF ResolveNow, When
  <2>2. frames = <<>> \o <<row>>
      BY <2>1
  <2>3. frames \in Seq(FramesFor(r)) /\ Len(frames) = 1 /\ frames[1] = row
      BY ONLY <1>1, <2>2, OneCall
  <2> QED BY <1>4, <2>3
<1> QED BY <1>3, <1>4

\* addRow()'s loop over the columns.
LEMMA RowColumnInv ==
    ASSUME RowsInv, RowColumn PROVE RowsInv' /\ Grows /\ Under /\ Len(rows') = Len(rows)
<1> DEFINE o == Head(stack).at
           c == Head(stack).col
           r == Len(rows)
<1>1. Executing("row") /\ stack # <<>> /\ Head(stack).op = "row" /\ Head(stack) \in RowFrames
    BY TopFrame DEF RowColumn, Executing
<1>2. o \in Objects /\ c \in 1..(Columns + 1) /\ Columns \in Nat
    BY <1>1, ColumnsAssumption DEF RowFrames
<1>3. CASE c > Columns
    BY <1>1, <1>3, RowReturns DEF RowColumn
<1>4. CASE ~(c > Columns)
  <2>1. c \in Cols
      BY <1>2, <1>4 DEF Cols
  <2>2. /\ rows \in Seq(Rows) /\ rows # <<>> /\ rows[r].built + 1 = c /\ rows[r].obj = o
        /\ stack \in Seq(FramesFor(r)) /\ Len(stack) \in Nat /\ 1 \in 1..Len(stack)
        /\ stack[1] = Head(stack) /\ r \in Nat /\ r \in 1..r
      BY <1>1 DEF RowsInv, Nested
  <2>3. /\ rows' = [Found(r, c, o) EXCEPT ![r].built = c]
        /\ varOn' = varOn \union {<<r, c, o>>}
        /\ Calls(ResolveNow(r, c, o) \o <<RowFrame(o, c + 1)>>)
      BY <1>4 DEF RowColumn
  <2>4. /\ rows' \in Seq(Rows) /\ Len(rows') = r /\ Grows
        /\ rows'[r].built = c
        /\ \A n \in 1..r : n # r => rows'[n].built = rows[n].built
      BY <2>1, <2>2, <2>3, ColumnRows
  <2> PICK frames : frames = ResolveNow(r, c, o) \o <<RowFrame(o, c + 1)>>
      OBVIOUS
  <2>5. /\ frames \in Seq(FramesFor(r)) /\ Len(frames) \in {1, 2}
        /\ frames[Len(frames)] = RowFrame(o, c + 1)
        /\ Len(frames) = 2 => frames[1].op = "var"
    <3>1. r \in Nat \ {0}
        BY <2>2
    <3> HIDE DEF r, c, o
    <3> QED BY <1>2, <2>1, <3>1, ColumnCalls
  <2>6. /\ stack' \in Seq(FramesFor(r))
        /\ \A k \in 1..Len(stack') : k <= Len(frames) => stack'[k] = frames[k]
        /\ Len(frames) \in 1..Len(stack')
    <3>1. /\ stack' \in Seq(FramesFor(r))
          /\ Len(stack') = Len(frames) + (Len(stack) - 1)
          /\ \A k \in 1..Len(stack') : stack'[k] = IF k <= Len(frames) THEN frames[k]
                                                   ELSE stack[k - Len(frames) + 1]
        BY <1>1, <2>2, <2>3, <2>5, CallsAre
    <3> QED BY <2>2, <2>5, <3>1
  <2>7. ASSUME NEW k \in 1..Len(stack'), k > Len(frames) PROVE stack'[k].op # "row"
    <3>1. PICK j \in 1..Len(stack) : j > 1 /\ stack'[k] = stack[j]
        BY <2>2, <2>3, <2>5, <2>7, UnderCalls
    <3> QED BY <1>1, <2>2, <3>1 DEF RowsInv, Nested
  <2>8. ASSUME NEW k \in 1..Len(stack'), stack'[k].op = "row"
        PROVE  k = Len(frames) /\ stack'[k] = RowFrame(o, c + 1)
    <3>1. k \in Nat /\ Len(frames) \in Nat /\ k <= Len(frames)
        BY <2>5, <2>7, <2>8
    <3>2. stack'[k] = frames[k]
        BY <2>6, <3>1
    <3>3. k = Len(frames)
        BY <2>5, <2>8, <3>1, <3>2
    <3> QED BY <2>5, <3>2, <3>3
  <2>9. Adding'
      BY <2>5, <2>6 DEF Adding, RowFrame, Frame
  <2>10. Nested'
    <3>1. ASSUME NEW i \in 1..Len(stack'), NEW j \in 1..Len(stack'), i < j, stack'[j].op = "row"
          PROVE  stack'[i].op \in {"var", "kids"}
      <4>1. j = Len(frames)
          BY <2>8, <3>1
      <4>2. i = 1 /\ Len(frames) = 2
          BY <2>5, <3>1, <4>1
      <4> QED BY <2>5, <2>6, <4>2
    <3>2. ASSUME NEW j \in 1..Len(stack'), stack'[j].op = "row"
          PROVE  /\ rows' # <<>> /\ rows'[Len(rows')].built + 1 = stack'[j].col
                 /\ rows'[Len(rows')].obj = stack'[j].at
      <4>1. stack'[j].col = c + 1 /\ stack'[j].at = o
          BY <2>8, <3>2 DEF RowFrame, Frame
      <4>2. rows'[r].obj = rows[r].obj
          BY <2>2, <2>4 DEF Grows
      <4> QED BY <2>2, <2>4, <4>1, <4>2
    <3>3. \A n \in 1..Len(rows') : rows'[n].built = Columns \/ (n = Len(rows') /\ Adding')
        BY <2>4, <2>9 DEF RowsInv, Nested
    <3> QED BY <3>1, <3>2, <3>3 DEF Nested
  <2>11. Bound'
      BY <2>2, <2>4, GrowsBound DEF RowsInv
  <2>12. varOn' \subseteq (1..r) \X Cols \X Objects
      BY <1>2, <2>1, <2>2, <2>3 DEF RowsInv
  <2>13. Under
      BY <2>2, <2>3, <2>5, CallsUnder
  <2> QED BY <2>4, <2>6, <2>10, <2>11, <2>12, <2>13 DEF RowsInv
<1> QED BY <1>3, <1>4

\* A handler of a variable, and what it is called for.
LEMMA VariableTop ==
    ASSUME RowsInv, Executing("var") \/ Executing("kids")
    PROVE  /\ stack # <<>> /\ Head(stack).op \in {"var", "kids"}
           /\ Head(stack).row \in 1..Len(rows) /\ Head(stack).col \in Cols
           /\ Head(stack).at \in Objects /\ Head(stack).i \in Nat
           /\ rows \in Seq(Rows) /\ Len(rows) \in Nat
<1>1. stack # <<>> /\ Head(stack).op \in {"var", "kids"}
    BY DEF Executing
<1>2. Head(stack) \in VariableFrames(Len(rows))
    BY <1>1, TopFrame
<1> QED BY <1>1, <1>2 DEF VariableFrames, RowsInv

\* A column takes the variable of an object.
LEMMA VariableRows ==
    ASSUME rows \in Seq(Rows), NEW r \in 1..Len(rows), NEW c \in Cols, NEW o \in Objects
    PROVE  Rewrites([rows EXCEPT ![r].variable[c] = o])
<1> DEFINE new == [rows[r] EXCEPT !.variable[c] = o]
           next == [rows EXCEPT ![r] = new]
<1>1. rows[r] \in Rows
    OBVIOUS
<1>2. /\ new \in Rows
      /\ new.obj = rows[r].obj /\ new.fromRoot = rows[r].fromRoot /\ new.built = rows[r].built
      /\ new.object = rows[r].object
    BY <1>1 DEF Rows
<1>3. [rows EXCEPT ![r].variable[c] = o] = next
    OBVIOUS
<1> HIDE DEF new
<1>4. next \in Seq(Rows) /\ Len(next) = Len(rows)
    BY <1>2
<1>5. \A n \in 1..Len(rows) : next[n] = IF n = r THEN new ELSE rows[n]
    BY <1>2
<1> HIDE DEF next
<1> QED BY <1>2, <1>3, <1>4, <1>5 DEF Rewrites

\* variable_t::processProxyManagedObjectSync()
LEMMA VariableSyncInv ==
    ASSUME RowsInv, VariableSync PROVE RowsInv' /\ Grows /\ Under /\ Len(rows') = Len(rows)
<1> DEFINE r == Head(stack).row
           c == Head(stack).col
           o == Head(stack).at
<1>1. /\ stack # <<>> /\ Head(stack).op \in {"var", "kids"}
      /\ r \in 1..Len(rows) /\ c \in Cols /\ o \in Objects
      /\ rows \in Seq(Rows) /\ Len(rows) \in Nat
    BY VariableTop DEF VariableSync
<1>2. varOn' \subseteq (1..Len(rows)) \X Cols \X Objects
    BY DEF VariableSync, RowsInv
<1>3. Rewrites(rows)
    BY <1>1 DEF Rewrites
<1>4. Rewrites([rows EXCEPT ![r].variable[c] = o])
    BY <1>1, VariableRows
<1>5. Rewrites(rows')
    BY <1>3, <1>4 DEF VariableSync
<1>6. \/ Calls(<<KidsFrame(r, c, o, 1)>>)
      \/ Calls(<<>>)
    BY DEF VariableSync, ReturnFrame
<1>7. KidsFrame(r, c, o, 1) \in VariableFrames(Len(rows))
    BY <1>1, PushedFrames
<1>8. /\ <<>> \in Seq(VariableFrames(Len(rows)))
      /\ <<KidsFrame(r, c, o, 1)>> \in Seq(VariableFrames(Len(rows)))
    BY <1>7
<1> HIDE DEF r, c, o
<1> QED BY <1>1, <1>2, <1>5, <1>6, <1>8, VariableInv

\* The children of an object are objects.
LEMMA KidsAre ==
    ASSUME NEW o \in Objects
    PROVE  \A j \in DOMAIN Kids[o] :
              j \in Nat \ {0} /\ Kids[o][j] \in Objects /\ Kids[o][j] \in KidSet(o)
<1>1. Kids[o] \in Seq(Objects)
    BY TreeAssumption
<1> QED BY <1>1 DEF KidSet, ToSet

\* Its loop over the children.
LEMMA VariableKidsInv ==
    ASSUME RowsInv, VariableKids PROVE RowsInv' /\ Grows /\ Under /\ Len(rows') = Len(rows)
<1> DEFINE r == Head(stack).row
           c == Head(stack).col
           o == Head(stack).at
           i == Head(stack).i
<1>1. /\ stack # <<>> /\ Head(stack).op \in {"var", "kids"}
      /\ r \in 1..Len(rows) /\ c \in Cols /\ o \in Objects /\ i \in Nat
      /\ rows \in Seq(Rows) /\ Len(rows) \in Nat
    BY VariableTop DEF VariableKids
<1>2. Rewrites(rows) /\ varOn \subseteq (1..Len(rows)) \X Cols \X Objects
    BY <1>1 DEF Rewrites, RowsInv
<1>3. ASSUME LoopEnds(o, i), ReturnFrame, UNCHANGED <<rows, varOn>>
      PROVE  RowsInv' /\ Grows /\ Under /\ Len(rows') = Len(rows)
  <2>1. <<>> \in Seq(VariableFrames(Len(rows))) /\ Calls(<<>>)
      BY <1>3 DEF ReturnFrame
  <2>2. Rewrites(rows') /\ varOn' \subseteq (1..Len(rows)) \X Cols \X Objects
      BY <1>2, <1>3
  <2> QED BY <1>1, <2>1, <2>2, VariableInv
<1>4. ASSUME NEW j \in DOMAIN Kids[o]
      PROVE  /\ Kids[o][j] \in Objects
             /\ <<KidsFrame(r, c, o, j + 1)>> \in Seq(VariableFrames(Len(rows)))
  <2>1. Kids[o][j] \in Objects /\ j \in Nat
      BY <1>1, KidsAre
  <2>2. KidsFrame(r, c, o, j + 1) \in VariableFrames(Len(rows))
      BY <1>1, <2>1, PushedFrames
  <2> QED BY <2>1, <2>2
<1>5. ASSUME NEW j \in DOMAIN Kids[o], Calls(<<KidsFrame(r, c, o, j + 1)>>), UNCHANGED <<rows, varOn>>
      PROVE  RowsInv' /\ Grows /\ Under /\ Len(rows') = Len(rows)
  <2> PICK frames : frames = <<KidsFrame(r, c, o, j + 1)>>
      OBVIOUS
  <2>1. frames \in Seq(VariableFrames(Len(rows))) /\ Calls(frames)
      BY <1>4, <1>5
  <2>2. Rewrites(rows') /\ varOn' \subseteq (1..Len(rows)) \X Cols \X Objects
      BY <1>2, <1>5
  <2> QED BY <1>1, <2>1, <2>2, VariableInv
<1>6. ASSUME NEW j \in DOMAIN Kids[o], NEW k, k = Kids[o][j],
             rows' = Found(r, c, k), varOn' = varOn \union {<<r, c, k>>},
             Calls(ResolveNow(r, c, k) \o <<KidsFrame(r, c, o, j + 1)>>)
      PROVE  RowsInv' /\ Grows /\ Under /\ Len(rows') = Len(rows)
  <2> PICK next : next = <<KidsFrame(r, c, o, j + 1)>>
      OBVIOUS
  <2>1. k \in Objects /\ next \in Seq(VariableFrames(Len(rows)))
      BY <1>4, <1>6
  <2>2. VarFrame(r, c, k) \in VariableFrames(Len(rows))
      BY <1>1, <2>1, PushedFrames
  <2>3. ResolveNow(r, c, k) \in Seq(VariableFrames(Len(rows)))
      BY <2>2, WhenTyped DEF ResolveNow
  <2>4. Rewrites(rows')
      BY <1>1, <1>6, <2>1, FoundRows
  <2>5. varOn' \subseteq (1..Len(rows)) \X Cols \X Objects
      BY <1>1, <1>2, <1>6, <2>1
  <2> PICK frames : frames = ResolveNow(r, c, k) \o next
      OBVIOUS
  <2>6. frames \in Seq(VariableFrames(Len(rows)))
      BY <2>1, <2>3
  <2>7. Calls(frames)
      BY <1>6
  <2> QED BY <1>1, <2>4, <2>5, <2>6, <2>7, VariableInv
<1> QED BY <1>3, <1>5, <1>6 DEF VariableKids

----------------------------------------------------------------------------
(* The handlers that call addRow().                                         *)

\* Lists of calls like the caller's.
LEMMA CallerLists ==
    ASSUME NEW cond, NEW f \in CallerFrames, NEW more \in Seq(CallerFrames)
    PROVE  When(cond, f) \in Seq(CallerFrames) /\ When(cond, f) \o more \in Seq(CallerFrames)
<1>1. When(cond, f) \in Seq(CallerFrames)
    BY WhenTyped
<1> QED BY <1>1

\* The calls for one child or root of a class-filtered table.
LEMMA RowThenWalkIs ==
    ASSUME NEW k \in Filtered, NEW next \in Seq(CallerFrames)
    PROVE  LET more == When(InSync(k), WalkFrame(k, 1)) \o next
           IN /\ more \in Seq(CallerFrames)
              /\ k \in Class => RowThenWalk(k) \o next = <<RowFrame(k, 1)>> \o more
              /\ k \notin Class => RowThenWalk(k) \o next = more
<1> PICK walk : walk = When(InSync(k), WalkFrame(k, 1))
    OBVIOUS
<1>1. walk \in Seq(CallerFrames) /\ walk \o next \in Seq(CallerFrames)
    BY PushedFrames, CallerLists
<1> PICK row : row = RowFrame(k, 1)
    OBVIOUS
<1>2. RowThenWalk(k) = (IF k \in Class THEN <<row>> ELSE <<>>) \o walk
    BY DEF RowThenWalk, When
<1>3. <<row>> \in Seq(CallerFrames \union {row}) /\ <<>> \in Seq(CallerFrames \union {row})
    OBVIOUS
<1>4. walk \in Seq(CallerFrames \union {row}) /\ next \in Seq(CallerFrames \union {row})
    BY <1>1
<1>5. \A a, b, c \in Seq(CallerFrames \union {row}) : (a \o b) \o c = a \o (b \o c)
    OBVIOUS
<1>6. <<>> \o walk = walk
    BY <1>1
<1>7. CASE k \in Class
  <2>1. RowThenWalk(k) \o next = <<row>> \o (walk \o next)
      BY <1>2, <1>3, <1>4, <1>5, <1>7
  <2> QED BY <1>1, <1>7, <2>1
<1>8. CASE k \notin Class
  <2>1. RowThenWalk(k) = walk
      BY <1>2, <1>6, <1>8
  <2> QED BY <1>1, <1>8, <2>1
<1> QED BY <1>7, <1>8

\* A root is entered, with a row or without.
LEMMA RootAddedRows ==
    ASSUME RowsInv, AtCaller, NEW r \in Objects, NEW next \in Seq(CallerFrames),
           TableRootAdded(r, next), varOn' = varOn
    PROVE  RowsInv' /\ Grows /\ Under /\ Settled
<1>1. CASE ClassFilter
  <2> DEFINE more == When(InSync(r), WalkFrame(r, 1)) \o next
  <2>1. /\ more \in Seq(CallerFrames)
        /\ r \in Class => RowThenWalk(r) \o next = <<RowFrame(r, 1)>> \o more
        /\ r \notin Class => RowThenWalk(r) \o next = more
    <3>1. r \in Filtered
        BY <1>1 DEF Filtered
    <3> HIDE DEF more
    <3> QED BY <3>1, RowThenWalkIs DEF more
  <2> HIDE DEF more
  <2>2. CASE r \in Class
    <3>1. Enters(r, TRUE, more)
        BY <1>1, <2>1, <2>2 DEF TableRootAdded, Enters
    <3> QED BY <2>1, <3>1, EntersInv
  <2>3. CASE r \notin Class
    <3>1. Continues(more)
        BY <1>1, <2>1, <2>3 DEF TableRootAdded, Continues
    <3> QED BY <2>1, <3>1, ContinuesInv
  <2> QED BY <2>2, <2>3
<1>2. CASE ~ClassFilter
  <2>1. CASE FirstRoot(r)
    <3>1. Enters(r, TRUE, next)
        BY <1>2, <2>1 DEF TableRootAdded, Enters, When
    <3> QED BY <3>1, EntersInv
  <2>2. CASE ~FirstRoot(r)
    <3>1. <<>> \o next = next
        OBVIOUS
    <3>2. Continues(next)
        BY <1>2, <2>2, <3>1 DEF TableRootAdded, Continues, When
    <3> QED BY <3>2, ContinuesInv
  <2> QED BY <2>1, <2>2
<1> QED BY <1>1, <1>2

\* processObjectServerSync()
LEMMA ServerSyncRows ==
    ASSUME RowsInv, roots \in [Servers -> Seq(Objects)], TableServerSync
    PROVE  RowsInv' /\ Grows /\ Under /\ Settled
<1> DEFINE s == Head(stack).at
           i == Head(stack).i
<1>1. s \in Servers /\ i \in Nat \ {0} /\ AtCaller
    BY TopFrame DEF TableServerSync, Executing, ServerFrames, AtCaller
<1>2. varOn' = varOn
    BY DEF TableServerSync
<1>3. CASE i > Len(roots[s])
  <2>1. Continues(<<>>)
      BY <1>3 DEF TableServerSync, ReturnFrame, Continues
  <2>2. <<>> \in Seq(CallerFrames)
      OBVIOUS
  <2> QED BY <1>1, <1>2, <2>1, <2>2, ContinuesInv
<1>4. CASE ~(i > Len(roots[s]))
  <2>1. TableRootAdded(roots[s][i], <<ServerFrame(s, i + 1)>>)
      BY <1>4 DEF TableServerSync
  <2>2. roots[s] \in Seq(Objects)
      BY <1>1
  <2>3. roots[s][i] \in Objects
      BY <1>1, <1>4, <2>2
  <2>4. <<ServerFrame(s, i + 1)>> \in Seq(CallerFrames)
    <3>1. ServerFrame(s, i + 1) \in CallerFrames
        BY <1>1, PushedFrames
    <3> QED BY <3>1
  <2> HIDE DEF s, i
  <2> QED BY <1>1, <1>2, <2>1, <2>3, <2>4, RootAddedRows
<1> QED BY <1>3, <1>4

\* processProxyManagedObjectServerAdded()
LEMMA ServerAddedRows == ASSUME RowsInv, TableServerAdded PROVE RowsInv' /\ Grows /\ Under /\ Settled
<1> DEFINE s == Head(stack).at
           more == When(s \in inSync, ServerFrame(s, 1))
<1>1. s \in Servers /\ AtCaller
    BY TopFrame DEF TableServerAdded, Executing, AddedFrames, AtCaller
<1>2. more \in Seq(CallerFrames)
  <2>1. ServerFrame(s, 1) \in CallerFrames
      BY <1>1, PushedFrames
  <2> HIDE DEF s
  <2> QED BY <2>1, WhenTyped
<1>3. Continues(more) /\ varOn' = varOn
    BY DEF TableServerAdded, Continues, tableVars
<1> HIDE DEF more
<1> QED BY <1>1, <1>2, <1>3, ContinuesInv

\* processProxyManagedObjectSync(): the row of a child, then what is below it.
LEMMA WalkRows == ASSUME RowsInv, TableWalk PROVE RowsInv' /\ Grows /\ Under /\ Settled
<1> DEFINE o == Head(stack).at
           i == Head(stack).i
<1>1. o \in Objects /\ o \in Filtered /\ i \in Nat /\ AtCaller
    BY TopFrame DEF TableWalk, Executing, WalkFrames, AtCaller, Filtered
<1>2. varOn' = varOn
    BY DEF TableWalk
<1>3. CASE LoopEnds(o, i) /\ ReturnFrame /\ UNCHANGED <<rows, tableOn>>
  <2>1. Continues(<<>>)
      BY <1>3 DEF ReturnFrame, Continues
  <2>2. <<>> \in Seq(CallerFrames)
      OBVIOUS
  <2> QED BY <1>1, <1>2, <2>1, <2>2, ContinuesInv
<1>4. ASSUME NEW j \in DOMAIN Kids[o], NEW k, k = Kids[o][j],
             rows' = IF k \in Class THEN Append(rows, NewRow(k, FALSE)) ELSE rows,
             Calls(RowThenWalk(k) \o <<WalkFrame(o, j + 1)>>)
      PROVE  RowsInv' /\ Grows /\ Under /\ Settled
  <2> DEFINE next == <<WalkFrame(o, j + 1)>>
  <2>1. k \in Objects /\ k \in Filtered /\ j \in Nat
      BY <1>1, <1>4, KidsAre DEF Filtered
  <2>2. next \in Seq(CallerFrames)
    <3>1. WalkFrame(o, j + 1) \in CallerFrames
        BY <1>1, <2>1, PushedFrames
    <3> QED BY <3>1
  <2>6. Calls(RowThenWalk(k) \o next)
      BY <1>4
  <2> HIDE DEF next
  <2> DEFINE more == When(InSync(k), WalkFrame(k, 1)) \o next
  <2>3. /\ more \in Seq(CallerFrames)
        /\ k \in Class => RowThenWalk(k) \o next = <<RowFrame(k, 1)>> \o more
        /\ k \notin Class => RowThenWalk(k) \o next = more
      BY <2>1, <2>2, RowThenWalkIs
  <2> HIDE DEF more
  <2>4. CASE k \in Class
    <3>1. Enters(k, FALSE, more)
        BY <1>4, <2>3, <2>4, <2>6 DEF Enters
    <3> QED BY <1>1, <1>2, <2>1, <2>3, <3>1, EntersInv
  <2>5. CASE k \notin Class
    <3>1. Continues(more)
        BY <1>4, <2>3, <2>5, <2>6 DEF Continues
    <3> QED BY <1>1, <1>2, <2>3, <3>1, ContinuesInv
  <2> QED BY <2>4, <2>5
<1> QED BY <1>3, <1>4 DEF TableWalk

----------------------------------------------------------------------------
(* RMC events.                                                              *)

\* An event leaves calls of clients on the stack, none of them addRow().
LEMMA EventRows ==
    ASSUME RowsInv, Idle, stack' \in Seq(CallerFrames \union VariableFrames(Len(rows))),
           UNCHANGED <<rows, varOn>>
    PROVE  RowsInv' /\ Grows /\ Under /\ (stack' \in Seq(CallerFrames) => Settled)
<1>1. rows \in Seq(Rows) /\ Len(rows) \in Nat /\ AtCaller
    BY DEF RowsInv, AtCaller, Idle
<1>2. CallerFrames \union VariableFrames(Len(rows)) \subseteq FramesFor(Len(rows))
    BY <1>1, VariableFrame, CallerFrame
<1>3. stack' \in Seq(FramesFor(Len(rows)))
    BY <1>2
<1>4. ASSUME NEW k \in 1..Len(stack') PROVE stack'[k].op # "row"
  <2>1. stack'[k] \in CallerFrames \union VariableFrames(Len(rows))
      OBVIOUS
  <2> QED BY <1>1, <2>1, VariableFrame, CallerFrame
<1>5. Nested'
    BY <1>1, <1>4, CallerComplete DEF Nested
<1>6. Rewrites(rows')
    BY <1>1 DEF Rewrites
<1>7. Grows
    BY <1>1, <1>6, RewritesGrow
<1>8. Bound'
    BY <1>1, <1>7, GrowsBound DEF RowsInv
<1>9. Under
    BY DEF Under, Idle
<1>10. ASSUME stack' \in Seq(CallerFrames) PROVE Settled
  <2>1. \A k \in 1..Len(stack') : stack'[k] \in CallerFrames
      BY <1>10
  <2>2. Moved(0)
      BY <2>1, CallerFrame DEF Moved
  <2>3. \A n \in 1..Len(rows) : ~(n > Len(rows))
      BY <1>1
  <2>4. Stays
    <3>1. \A j \in 1..Len(stack) : FALSE
        BY DEF Idle
    <3> QED BY <3>1 DEF Stays
  <2> QED BY <2>2, <2>3, <2>4 DEF Settled
<1> QED BY <1>1, <1>3, <1>5, <1>7, <1>8, <1>9, <1>10 DEF RowsInv

\* An event that leaves the stack alone.
LEMMA QuietRows ==
    ASSUME RowsInv, UNCHANGED <<rows, varOn, stack>> PROVE RowsInv' /\ Grows /\ Under /\ Settled
<1>1. Rewrites(rows')
    BY DEF RowsInv, Rewrites
<1>2. Grows
    BY <1>1, RewritesGrow DEF RowsInv
<1>3. Nested' /\ Bound'
    BY DEF RowsInv, Nested, Bound, Adding, ObjectId
<1>4. Under
    BY DEF Under
<1>5. Moved(1)
  <2>1. Len(stack) \in Nat /\ \A k \in 1..Len(stack) : k + 1 - 1 = k
      BY DEF RowsInv
  <2> QED BY <2>1 DEF Moved
<1>6. \A n \in 1..Len(rows) : ~(n > Len(rows))
    BY DEF RowsInv
<1> QED BY <1>2, <1>3, <1>4, <1>5, <1>6 DEF RowsInv, Settled, Stays

----------------------------------------------------------------------------
(* The rest of the state, and every step.                                   *)

RestTypes ==
    /\ pool \subseteq Servers /\ IsFiniteSet(pool)
    /\ inSync \subseteq Servers
    /\ roots \in [Servers -> Seq(Objects)]
    /\ announced \subseteq Objects
    /\ syncs \in [Objects -> Nat]
    /\ bad \subseteq Objects /\ hidden \subseteq Late /\ missed \subseteq Late
    /\ subscribed \in BOOLEAN
    /\ listening \subseteq Servers
    /\ tableOn \subseteq Filtered
    /\ rootMap \in [Apps -> Nat]
    /\ dropped \subseteq Apps
    /\ IsFiniteSet(varOn)

TableInv == RestTypes /\ RowsInv

\* No row, no handler, nothing connected.
LEMMA InitTable == Init => TableInv
<1> SUFFICES ASSUME Init PROVE TableInv
    OBVIOUS
<1>1. IsFiniteSet(pool) /\ IsFiniteSet(varOn)
    BY FS_EmptySet DEF Init
<1>2. roots \in [Servers -> Seq(Objects)] /\ syncs \in [Objects -> Nat] /\ rootMap \in [Apps -> Nat]
    BY DEF Init
<1>3. RestTypes
    BY <1>1, <1>2 DEF Init, RestTypes
<1> QED BY <1>3, InitRows DEF TableInv

\* A root that is entered is an object of an application.
LEMMA RootAddedRest ==
    ASSUME rootMap \in [Apps -> Nat], tableOn \subseteq Filtered, NEW r \in Objects, NEW next,
           TableRootAdded(r, next)
    PROVE  rootMap' \in [Apps -> Nat] /\ tableOn' \subseteq Filtered
<1>1. App[r] \in Apps
    BY MappingAssumption
<1>2. CASE ClassFilter
    BY <1>2 DEF TableRootAdded, Filtered
<1>3. CASE ~ClassFilter
  <2>1. rootMap' = [rootMap EXCEPT ![App[r]] = rootMap[App[r]] + 1] /\ tableOn' = tableOn
      BY <1>3 DEF TableRootAdded, InsertRoot
  <2> QED BY <1>1, <2>1
<1> QED BY <1>2, <1>3

\* The handlers of the main thread.
LEMMA MainRest == ASSUME TableInv, MainStep PROVE RestTypes'
<1> USE DEF TableInv, RestTypes
<1>1. CASE TableServerAdded
  <2>1. Head(stack).at \in Servers
      BY <1>1, TopFrame DEF TableServerAdded, Executing, AddedFrames
  <2> QED BY <1>1, <2>1 DEF TableServerAdded, rmc, objs, tableVars
<1>2. CASE TableServerSync
  <2> DEFINE s == Head(stack).at
             i == Head(stack).i
  <2>1. s \in Servers /\ i \in Nat \ {0}
      BY <1>2, TopFrame DEF TableServerSync, Executing, ServerFrames
  <2>2. rootMap' \in [Apps -> Nat] /\ tableOn' \subseteq Filtered
    <3>1. CASE i > Len(roots[s])
        BY <1>2, <3>1 DEF TableServerSync
    <3>2. CASE ~(i > Len(roots[s]))
      <4>1. roots[s] \in Seq(Objects)
          BY <2>1
      <4>2. roots[s][i] \in Objects
          BY <2>1, <3>2, <4>1
      <4>3. TableRootAdded(roots[s][i], <<ServerFrame(s, i + 1)>>)
          BY <1>2, <3>2 DEF TableServerSync
      <4> QED BY <4>2, <4>3, RootAddedRest
    <3> QED BY <3>1, <3>2
  <2> QED BY <1>2, <2>2 DEF TableServerSync, rmc, objs
<1>3. CASE TableWalk
  <2>1. tableOn' \subseteq Filtered
    <3>1. Head(stack).at \in Filtered
        BY <1>3, TopFrame DEF TableWalk, Executing, WalkFrames
    <3> DEFINE kids == Kids[Head(stack).at]
    <3>2. \A j \in DOMAIN kids : kids[j] \in Filtered
        BY <3>1, KidsAre DEF Filtered
    <3>3. tableOn' = tableOn \/ \E j \in DOMAIN kids : tableOn' = tableOn \union {kids[j]}
        BY <1>3 DEF TableWalk
    <3> QED BY <3>2, <3>3
  <2> QED BY <1>3, <2>1 DEF TableWalk, rmc, objs
<1>4. CASE RowColumn
  <2>1. IsFiniteSet(varOn')
    <3>1. varOn' = varOn \/ \E v : varOn' = varOn \union {v}
        BY <1>4 DEF RowColumn
    <3>2. \A v : IsFiniteSet(varOn \union {v})
        BY FS_AddElement
    <3> QED BY <3>1, <3>2
  <2> QED BY <1>4, <2>1 DEF RowColumn, rmc, objs
<1>5. CASE VariableSync
    BY <1>5 DEF VariableSync, rmc, objs
<1>6. CASE VariableKids
  <2>1. IsFiniteSet(varOn')
    <3>1. varOn' = varOn \/ \E v : varOn' = varOn \union {v}
        BY <1>6 DEF VariableKids
    <3>2. \A v : IsFiniteSet(varOn \union {v})
        BY FS_AddElement
    <3> QED BY <3>1, <3>2
  <2> QED BY <1>6, <2>1 DEF VariableKids, rmc, objs
<1> QED BY <1>1, <1>2, <1>3, <1>4, <1>5, <1>6 DEF MainStep

\* Where the elements of a concatenation come from.
LEMMA Concatenation ==
    ASSUME NEW S, NEW a \in Seq(S), NEW b \in Seq(S)
    PROVE  /\ a \o b \in Seq(S)
           /\ Len(a \o b) = Len(a) + Len(b)
           /\ \A k \in 1..Len(a \o b) :
                 (a \o b)[k] = IF k <= Len(a) THEN a[k] ELSE b[k - Len(a)]
    OBVIOUS

\* A list without its i-th element.
LEMMA RemovedAt ==
    ASSUME NEW S, NEW seq \in Seq(S), NEW i \in 1..Len(seq)
    PROVE  /\ RemoveAt(seq, i) \in Seq(S)
           /\ Len(RemoveAt(seq, i)) = Len(seq) - 1
           /\ \A k \in 1..Len(RemoveAt(seq, i)) :
                 RemoveAt(seq, i)[k] = seq[IF k < i THEN k ELSE k + 1]
<1> DEFINE a == SubSeq(seq, 1, i - 1)
           b == SubSeq(seq, i + 1, Len(seq))
<1>1. i \in Nat \ {0} /\ Len(seq) \in Nat /\ i <= Len(seq)
    OBVIOUS
<1>2. a \in Seq(S) /\ Len(a) = i - 1 /\ \A k \in 1..(i - 1) : a[k] = seq[k]
    BY <1>1
<1>3. b \in Seq(S) /\ Len(b) = Len(seq) - i /\ \A k \in 1..(Len(seq) - i) : b[k] = seq[i + k]
    BY <1>1
<1>4. RemoveAt(seq, i) = a \o b
    BY DEF RemoveAt
<1> HIDE DEF a, b
<1> PICK c : c = a \o b
    OBVIOUS
<1>5. /\ c \in Seq(S)
      /\ Len(c) = Len(a) + Len(b)
      /\ \A k \in 1..Len(c) : c[k] = IF k <= Len(a) THEN a[k] ELSE b[k - Len(a)]
    BY ONLY <1>2, <1>3, c = a \o b, Concatenation
<1>6. Len(c) = Len(seq) - 1
    BY <1>1, <1>2, <1>3, <1>5
<1>7. ASSUME NEW k \in 1..Len(c) PROVE c[k] = seq[IF k < i THEN k ELSE k + 1]
  <2>1. k \in Nat \ {0} /\ k <= Len(seq) - 1
      BY <1>1, <1>6
  <2>2. CASE k < i
    <3>1. k \in 1..(i - 1)
        BY <1>1, <2>1, <2>2
    <3>2. c[k] = a[k]
        BY <1>1, <1>2, <1>5, <2>1, <2>2
    <3> QED BY <1>2, <2>2, <3>1, <3>2
  <2>3. CASE ~(k < i)
    <3>1. k - (i - 1) \in 1..(Len(seq) - i)
        BY <1>1, <2>1, <2>3
    <3>2. c[k] = b[k - (i - 1)]
        BY <1>1, <1>2, <1>5, <2>1, <2>3
    <3>3. b[k - (i - 1)] = seq[i + (k - (i - 1))] /\ i + (k - (i - 1)) = k + 1
        BY <1>1, <1>3, <2>1, <3>1
    <3> QED BY <2>3, <3>2, <3>3
  <2> QED BY <2>2, <2>3
<1> QED BY <1>4, <1>5, <1>6, <1>7

\* What the library does.
LEMMA EventRest == ASSUME TableInv, RmcEvent PROVE RestTypes'
<1> USE DEF TableInv, RestTypes
<1>1. ASSUME NEW s \in Servers, ServerAdded(s) PROVE RestTypes'
    BY <1>1, FS_AddElement DEF ServerAdded, objs, tableVars
<1>2. ASSUME NEW s \in Servers, ServerRemoved(s) PROVE RestTypes'
  <2>1. IsFiniteSet(pool')
      BY <1>2, FS_RemoveElement DEF ServerRemoved
  <2>2. roots' \in [Servers -> Seq(Objects)]
      BY <1>2 DEF ServerRemoved
  <2> QED BY <1>2, <2>1, <2>2 DEF ServerRemoved, objs, tableVars
<1>3. ASSUME NEW s \in Servers, ServerError(s) \/ ServerSync(s) PROVE RestTypes'
    BY <1>3 DEF ServerError, ServerSync, rmc, objs, tableVars
<1>4. ASSUME NEW s \in Servers, NEW r \in Objects, RootAdded(s, r) PROVE RestTypes'
  <2>1. roots' \in [Servers -> Seq(Objects)]
      BY <1>4 DEF RootAdded
  <2>2. rootMap' \in [Apps -> Nat] /\ tableOn' \subseteq Filtered
      BY <1>4, RootAddedRest DEF RootAdded
  <2> QED BY <1>4, <2>1, <2>2 DEF RootAdded, objs
<1>5. ASSUME NEW s \in Servers, NEW r \in Objects, RootRemoved(s, r) PROVE RestTypes'
  <2>1. roots' \in [Servers -> Seq(Objects)]
    <3>1. roots[s] \in Seq(Objects) /\ DOMAIN roots[s] = 1..Len(roots[s])
        OBVIOUS
    <3>2. PICK i \in 1..Len(roots[s]) : roots' = [roots EXCEPT ![s] = RemoveAt(@, i)]
        BY <1>5, <3>1 DEF RootRemoved
    <3>3. RemoveAt(roots[s], i) \in Seq(Objects)
        BY ONLY <3>1, RemovedAt
    <3> QED BY <3>2, <3>3
  <2>2. App[r] \in Apps
      BY MappingAssumption
  <2>3. rootMap' \in [Apps -> Nat] /\ dropped' \subseteq Apps
    <3>1. CASE EraseRoot(App[r])
      <4>1. rootMap' = [rootMap EXCEPT ![App[r]] = IF rootMap[App[r]] = 0 THEN 0
                                                   ELSE rootMap[App[r]] - 1]
          BY <3>1 DEF EraseRoot
      <4>2. (IF rootMap[App[r]] = 0 THEN 0 ELSE rootMap[App[r]] - 1) \in Nat
          BY <2>2
      <4> QED BY <2>2, <3>1, <4>1, <4>2 DEF EraseRoot
    <3>2. CASE UNCHANGED <<rootMap, dropped>>
        BY <3>2
    <3> QED BY <1>5, <3>1, <3>2 DEF RootRemoved
  <2> QED BY <1>5, <2>1, <2>3 DEF RootRemoved, objs
<1>6. ASSUME NEW o \in Objects, ObjectSync(o) PROVE RestTypes'
  <2>1. syncs' \in [Objects -> Nat]
      BY <1>6 DEF ObjectSync
  <2> QED BY <1>6, <2>1 DEF ObjectSync, tableVars
<1>7. ASSUME NEW o \in Objects, ObjectError(o) \/ ChildAdded(o) PROVE RestTypes'
    BY <1>7 DEF ObjectError, ChildAdded, tableVars
<1> QED BY <1>1, <1>2, <1>3, <1>4, <1>5, <1>6, <1>7 DEF RmcEvent

\* The clients of a finite set are called in some order.
LEMMA OrderTyped ==
    ASSUME NEW S, IsFiniteSet(S), NEW order \in SetToSeqs(S)
    PROVE  order \in Seq(S)
<1>1. Cardinality(S) \in Nat
    BY FS_CardinalityType
<1>2. order \in [1..Cardinality(S) -> S]
    BY DEF SetToSeqs
<1> QED BY <1>1, <1>2

\* The servers already in the pool are treated as added.
LEMMA AddServerPoolRows == ASSUME TableInv, AddServerPool PROVE RowsInv' /\ Grows /\ Under /\ Settled
<1> USE DEF TableInv
<1> PICK order \in SetToSeqs(pool) : stack' = [i \in DOMAIN order |-> AddedFrame(order[i])]
    BY DEF AddServerPool
<1>1. order \in Seq(pool) /\ pool \subseteq Servers
    BY OrderTyped DEF RestTypes
<1>2. \A i \in DOMAIN order : AddedFrame(order[i]) \in CallerFrames
    BY <1>1, PushedFrames
<1>3. stack' \in Seq(CallerFrames)
    BY <1>1, <1>2
<1>4. stack' \in Seq(CallerFrames \union VariableFrames(Len(rows)))
    BY <1>3
<1>5. Idle /\ UNCHANGED <<rows, varOn>>
    BY DEF AddServerPool, tableVars
<1> QED BY <1>3, <1>4, <1>5, EventRows

\* Two lists of calls make one.
LEMMA JoinTyped ==
    ASSUME NEW S, NEW calls \in Seq(S), NEW more \in Seq(S)
    PROVE  calls \o more \in Seq(S)
OBVIOUS

\* An object syncs: the variables that are its clients are called, and the table.
LEMMA ObjectSyncRows ==
    ASSUME TableInv, NEW o \in Objects, ObjectSync(o) PROVE RowsInv' /\ Grows /\ Under
<1> USE DEF TableInv
<1> DEFINE clients == {v \in varOn : v[3] = o}
           S == CallerFrames \union VariableFrames(Len(rows))
<1> PICK order \in SetToSeqs(clients) :
        stack' = [i \in DOMAIN order |-> VarFrame(order[i][1], order[i][2], o)]
                 \o When(o \in tableOn, WalkFrame(o, 1))
    BY DEF ObjectSync
<1> DEFINE frames == [i \in DOMAIN order |-> VarFrame(order[i][1], order[i][2], o)]
<1>1. /\ clients \subseteq (1..Len(rows)) \X Cols \X Objects /\ IsFiniteSet(clients)
      /\ Len(rows) \in Nat
    BY FS_Subset DEF RestTypes, RowsInv
<1>2. order \in Seq(clients)
  <2> HIDE DEF clients
  <2> QED BY <1>1, OrderTyped
<1>3. \A i \in DOMAIN order : VarFrame(order[i][1], order[i][2], o) \in S
  <2> TAKE i \in DOMAIN order
  <2>1. order[i] \in (1..Len(rows)) \X Cols \X Objects
      BY <1>1, <1>2
  <2> QED BY <1>1, <2>1, PushedFrames
<1>4. frames \in Seq(S)
  <2> HIDE DEF clients, S
  <2>1. Len(order) \in Nat /\ DOMAIN order = 1..Len(order)
      BY <1>2
  <2>2. frames \in [1..Len(order) -> S]
      BY <1>3, <2>1
  <2> HIDE DEF frames
  <2> QED BY <2>1, <2>2
<1>5. When(o \in tableOn, WalkFrame(o, 1)) \in Seq(S)
  <2>1. o \in tableOn => WalkFrame(o, 1) \in S
      BY PushedFrames DEF RestTypes
  <2> HIDE DEF S
  <2> QED BY <2>1 DEF When
<1>6. stack' \in Seq(S)
  <2> DEFINE walk == When(o \in tableOn, WalkFrame(o, 1))
  <2>1. stack' = frames \o walk
      OBVIOUS
  <2>2. walk \in Seq(S)
      BY <1>5
  <2> HIDE DEF frames, walk, S, clients
  <2> QED BY <1>4, <2>1, <2>2, JoinTyped
<1>7. Idle /\ UNCHANGED <<rows, varOn>>
    BY DEF ObjectSync, tableVars
<1> QED BY <1>6, <1>7, EventRows

\* A server comes up, or is in sync.
LEMMA ServerEventRows ==
    ASSUME TableInv, NEW s \in Servers, ServerAdded(s) \/ ServerSync(s)
    PROVE  RowsInv' /\ Grows /\ Under /\ Settled
<1>1. AddedFrame(s) \in CallerFrames /\ ServerFrame(s, 1) \in CallerFrames
    BY PushedFrames
<1>2. \/ stack' = When(subscribed, AddedFrame(s))
      \/ stack' = When(s \in listening, ServerFrame(s, 1))
    BY DEF ServerAdded, ServerSync
<1>3. stack' \in Seq(CallerFrames)
    BY <1>1, <1>2, WhenTyped
<1>4. stack' \in Seq(CallerFrames \union VariableFrames(Len(rows)))
    BY <1>3
<1>5. Idle /\ UNCHANGED <<rows, varOn>>
    BY DEF ServerAdded, ServerSync, tableVars
<1> QED BY <1>3, <1>4, <1>5, EventRows DEF TableInv

\* A root is announced, to a table that listens or to none.
LEMMA RootAddedEventRows ==
    ASSUME TableInv, NEW s \in Servers, NEW r \in Objects, RootAdded(s, r)
    PROVE  RowsInv' /\ Grows /\ Under /\ Settled
<1>1. AtCaller /\ varOn' = varOn
    BY DEF RootAdded, AtCaller, Idle
<1>2. <<>> \in Seq(CallerFrames)
    OBVIOUS
<1>3. CASE s \in inSync /\ s \in listening
    BY <1>1, <1>2, <1>3, RootAddedRows DEF RootAdded, TableInv
<1>4. CASE ~(s \in inSync /\ s \in listening)
    BY <1>1, <1>4, QuietRows DEF RootAdded, TableInv
<1> QED BY <1>3, <1>4

\* The steps that change what variables are clients of, or call them, and the
\* others.
Resolves == RowColumn \/ VariableSync \/ VariableKids \/ \E o \in Objects : ObjectSync(o)
SettledStep == Settled /\ syncs' = syncs

\* Every step keeps the invariant and only adds to rows_.
LEMMA NextTable ==
    ASSUME TableInv, [Next]_vars
    PROVE  TableInv' /\ Grows /\ Under /\ (SettledStep \/ Resolves)
<1> USE DEF SettledStep
<1>1. CASE UNCHANGED vars
  <2>1. RowsInv' /\ Grows /\ Under /\ Settled
      BY <1>1, QuietRows DEF TableInv, vars, tableVars
  <2> QED BY <1>1, <2>1 DEF TableInv, RestTypes, vars, rmc, objs, tableVars
<1>2. CASE AddServerPool
  <2>1. RowsInv' /\ Grows /\ Under /\ Settled
      BY <1>2, AddServerPoolRows
  <2> QED BY <1>2, <2>1 DEF TableInv, RestTypes, AddServerPool, rmc, objs, tableVars
<1>3. CASE MainStep
  <2>1. RowsInv' /\ Grows /\ Under
      BY <1>3, ServerAddedRows, ServerSyncRows, WalkRows, RowColumnInv, VariableSyncInv,
         VariableKidsInv DEF MainStep, TableInv, RestTypes
  <2>2. CASE TableServerAdded \/ TableServerSync \/ TableWalk
    <3>1. Settled
        BY <2>2, ServerAddedRows, ServerSyncRows, WalkRows DEF TableInv, RestTypes
    <3>2. syncs' = syncs
        BY <2>2 DEF TableServerAdded, TableServerSync, TableWalk, rmc, objs
    <3> QED BY <1>3, <2>1, <3>1, <3>2, MainRest DEF TableInv
  <2>3. CASE RowColumn \/ VariableSync \/ VariableKids
      BY <1>3, <2>1, <2>3, MainRest DEF TableInv, Resolves
  <2> QED BY <1>3, <2>2, <2>3 DEF MainStep
<1>4. CASE RmcEvent
  <2>1. ASSUME NEW s \in Servers, NEW r \in Objects, RootRemoved(s, r)
        PROVE  RowsInv' /\ Grows /\ Under /\ SettledStep
    <3>1. UNCHANGED <<rows, varOn, stack, syncs>>
        BY <2>1 DEF RootRemoved, EraseRoot, objs
    <3> QED BY <3>1, QuietRows DEF TableInv
  <2>2. ASSUME NEW o \in Objects, ObjectError(o) \/ ChildAdded(o)
        PROVE  RowsInv' /\ Grows /\ Under /\ SettledStep
    <3>1. UNCHANGED <<rows, varOn, stack, syncs>>
        BY <2>2 DEF ObjectError, ChildAdded, tableVars
    <3> QED BY <3>1, QuietRows DEF TableInv
  <2>3. ASSUME NEW s \in Servers, ServerRemoved(s) \/ ServerError(s)
        PROVE  RowsInv' /\ Grows /\ Under /\ SettledStep
    <3>1. UNCHANGED <<rows, varOn, stack, syncs>>
        BY <2>3 DEF ServerRemoved, ServerError, rmc, objs, tableVars
    <3> QED BY <3>1, QuietRows DEF TableInv
  <2>4. ASSUME NEW s \in Servers, ServerAdded(s) \/ ServerSync(s)
        PROVE  RowsInv' /\ Grows /\ Under /\ SettledStep
    <3>1. syncs' = syncs
        BY <2>4 DEF ServerAdded, ServerSync, objs
    <3> QED BY <2>4, <3>1, ServerEventRows
  <2>5. ASSUME NEW s \in Servers, NEW r \in Objects, RootAdded(s, r)
        PROVE  RowsInv' /\ Grows /\ Under /\ SettledStep
    <3>1. syncs' = syncs
        BY <2>5 DEF RootAdded, objs
    <3> QED BY <2>5, <3>1, RootAddedEventRows
  <2>6. ASSUME NEW o \in Objects, ObjectSync(o) PROVE RowsInv' /\ Grows /\ Under /\ Resolves
      BY <2>6, ObjectSyncRows DEF Resolves
  <2>7. RowsInv' /\ Grows /\ Under /\ (SettledStep \/ Resolves)
      BY <1>4, <2>1, <2>2, <2>3, <2>4, <2>5, <2>6 DEF RmcEvent
  <2> QED BY <1>4, <2>7, EventRest DEF TableInv
<1> QED BY <1>1, <1>2, <1>3, <1>4 DEF Next

\* Every variable has its type: handlers are called for servers, objects, rows
\* and columns that exist.
THEOREM TableTyped == Spec => []TypeOK
<1>1. TableInv => TypeOK
  <2> SUFFICES ASSUME TableInv PROVE TypeOK
      OBVIOUS
  <2>1. FramesFor(Len(rows)) \subseteq Frames
      BY DEF FramesFor, CallerFrames, ServerFrames, AddedFrames, WalkFrames, RowFrames,
             VariableFrames, Frames, Ops, TableInv, RowsInv, Cols, Filtered
  <2>2. stack \in Seq(Frames)
      BY <2>1 DEF TableInv, RowsInv
  <2> QED BY <2>2 DEF TypeOK, TableInv, RestTypes, RowsInv, Filtered
<1> QED BY <1>1, InitTable, NextTable, PTL DEF Spec

\* At most the last row is under construction, and none between two events:
\* the calls of addRow() never nest, though the handlers that make them do.
THEOREM RowsOneByOne == Spec => []OnlyLastRowPartial
<1>1. TableInv => OnlyLastRowPartial
  <2> SUFFICES ASSUME TableInv PROVE OnlyLastRowPartial
      OBVIOUS
  <2>1. \A n \in 1..Len(rows) : rows[n].built = Columns \/ (n = Len(rows) /\ Adding)
      BY DEF TableInv, RowsInv, Nested
  <2>2. Columns \in Nat /\ ~(Columns < Columns)
      BY ColumnsAssumption
  <2>3. Idle => ~Adding
    <3>1. Idle => Len(stack) = 0
        BY DEF Idle
    <3> QED BY <3>1 DEF Adding
  <2> QED BY <2>1, <2>2, <2>3 DEF OnlyLastRowPartial
<1> QED BY <1>1, InitTable, NextTable, PTL DEF Spec

\* rows_ only grows, rows keep their objects, and columns the objects found.
THEOREM RowsKept == Spec => RowsOnlyGrow
<1>1. TableInv /\ [Next]_vars =>
         /\ Len(rows') >= Len(rows)
         /\ \A n \in 1..Len(rows) :
              /\ rows'[n].obj = rows[n].obj
              /\ \A c \in Cols : rows[n].object[c] # NoObject
                    => rows'[n].object[c] = rows[n].object[c]
    BY NextTable DEF TableInv, RowsInv, Bound, Grows
<1> QED BY <1>1, InitTable, NextTable, PTL DEF Spec, RowsOnlyGrow
=============================================================================
