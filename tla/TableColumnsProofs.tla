-------------------------- MODULE TableColumnsProofs --------------------------
(***************************************************************************)
(* The columns of a row find their objects and variables, in whatever order *)
(* the row, the objects and the server come up, for every tree of objects.  *)
(*                                                                          *)
(* A variable starts as a client of its row's object and goes down one      *)
(* child at a time, to the child on the way to its object.  What carries    *)
(* the proof is that it is a client of everything from the row's object     *)
(* down to where it has come, all of it in sync but the last (OnTheWay):    *)
(* what syncs afterwards, or is still on the stack, is above its object.    *)
(***************************************************************************)
EXTENDS TableDiscoveryProofs, LoopTheorems

----------------------------------------------------------------------------
(* The tree of objects.  Above is defined as a least set; these lemmas are   *)
(* all that is used of it.                                                   *)

\* What is above an object.
LEMMA AboveIs ==
    ASSUME NEW t \in Objects
    PROVE  /\ t \in Above[t] /\ Above[t] \subseteq Objects /\ HasParents(Above[t])
           /\ \A S \in SUBSET Objects : t \in S /\ HasParents(S) => Above[t] \subseteq S
<1>1. Above[t] = {o \in Objects : \A S \in SUBSET Objects : t \in S /\ HasParents(S) => o \in S}
    BY DEF Above
<1> DEFINE A == Above[t]
<1>2. A \subseteq Objects /\ t \in A
    BY <1>1
<1>3. \A S \in SUBSET Objects : t \in S /\ HasParents(S) => A \subseteq S
    BY <1>1
<1>4. HasParents(A)
  <2> SUFFICES ASSUME NEW o \in Objects, NEW k \in KidSet(o), k \in A PROVE o \in A
      BY DEF HasParents
  <2>1. ASSUME NEW S \in SUBSET Objects, t \in S, HasParents(S) PROVE o \in S
    <3>1. k \in S
        BY <1>3, <2>1
    <3> QED BY <2>1, <3>1 DEF HasParents
  <2> QED BY <1>1, <2>1
<1> QED BY <1>2, <1>3, <1>4

\* An object is below itself and, with its child, below what its parent is.
LEMMA BelowSelf == ASSUME NEW t \in Objects PROVE Below(t, t)
BY AboveIs DEF Below

LEMMA BelowObjects == ASSUME NEW o, NEW t, Below(o, t) PROVE o \in Objects /\ t \in Objects
BY AboveIs DEF Below

\* The parent of what is above is above.
LEMMA ParentAbove ==
    ASSUME NEW o \in Objects, NEW k \in KidSet(o), NEW t, Below(k, t) PROVE Below(o, t)
<1>1. t \in Objects /\ k \in Above[t] /\ HasParents(Above[t])
    BY AboveIs DEF Below
<1> QED BY <1>1 DEF HasParents, Below

\* What is above what is above is above.
LEMMA BelowTransitive ==
    ASSUME NEW o, NEW p, NEW t, Below(o, p), Below(p, t) PROVE Below(o, t)
<1>1. p \in Objects /\ t \in Objects /\ o \in Above[p] /\ p \in Above[t]
    BY BelowObjects DEF Below
<1>2. HasParents(Above[t]) /\ Above[t] \subseteq Objects
    BY <1>1, AboveIs
<1>3. Above[p] \subseteq Above[t]
    BY <1>1, <1>2, AboveIs
<1> QED BY <1>1, <1>3 DEF Below

\* The children of an object are objects, and have no other parent.
LEMMA OneParent ==
    ASSUME NEW o \in Objects
    PROVE  /\ KidSet(o) \subseteq Objects
           /\ \A p \in Objects, k \in KidSet(o) : k \in KidSet(p) => p = o
<1>1. Kids[o] \in Seq(Objects)
    BY TreeAssumption
<1>2. KidSet(o) \subseteq Objects
    BY <1>1 DEF KidSet, ToSet
<1> QED BY <1>2, TreeAssumption

\* Above a child there are its parent and what is above that.
LEMMA AboveChild ==
    ASSUME NEW o \in Objects, NEW k \in KidSet(o), NEW p, Below(p, k)
    PROVE  p = k \/ Below(p, o)
<1> DEFINE S == {k} \union Above[o]
<1>1. k \in Objects /\ Above[o] \subseteq Objects /\ HasParents(Above[o]) /\ o \in Above[o]
    BY OneParent, AboveIs
<1>2. HasParents(S)
  <2> SUFFICES ASSUME NEW q \in Objects, NEW h \in KidSet(q), h \in S PROVE q \in S
      BY DEF HasParents
  <2>1. CASE h = k
      BY <1>1, <2>1, OneParent
  <2>2. CASE h \in Above[o]
      BY <1>1, <2>2 DEF HasParents
  <2> QED BY <2>1, <2>2
<1>3. Above[k] \subseteq S
    BY <1>1, <1>2, AboveIs
<1> QED BY <1>3 DEF Below

\* The way from an object to one below it begins with a child.
LEMMA FirstChild ==
    ASSUME NEW o, NEW t, Below(o, t), o # t PROVE \E k \in KidSet(o) : Below(k, t)
<1> SUFFICES ASSUME \A k \in KidSet(o) : ~Below(k, t) PROVE FALSE
    OBVIOUS
<1> DEFINE S == Above[t] \ {o}
<1>1. /\ o \in Objects /\ t \in Objects /\ o \in Above[t]
      /\ t \in Above[t] /\ HasParents(Above[t]) /\ Above[t] \subseteq Objects
    BY BelowObjects, AboveIs DEF Below
<1>2. HasParents(S)
  <2> SUFFICES ASSUME NEW q \in Objects, NEW h \in KidSet(q), h \in S PROVE q \in S
      BY DEF HasParents
  <2>1. q \in Above[t]
      BY <1>1 DEF HasParents
  <2>2. q # o
      BY <1>1 DEF Below
  <2> QED BY <2>1, <2>2
<1>3. Above[t] \subseteq S
    BY <1>1, <1>2, AboveIs
<1> QED BY <1>1, <1>3

\* No two objects are below each other.
LEMMA BelowOneWay == ASSUME NEW o, NEW p, Below(o, p), Below(p, o) PROVE o = p
<1> SUFFICES ASSUME o # p PROVE FALSE
    OBVIOUS
<1>1. PICK k \in KidSet(o) : Below(k, p)
    BY FirstChild
<1>2. Below(k, o)
    BY <1>1, BelowTransitive
<1> QED BY <1>2, BelowObjects, PathsAssumption DEF Below

\* Only one child is on the way to an object.
LEMMA OneChild ==
    ASSUME NEW o \in Objects, NEW k \in KidSet(o), NEW h \in KidSet(o), NEW t,
           Below(k, t), Below(h, t)
    PROVE  k = h
<1> DEFINE S == {p \in Objects : Below(p, k) \/ Below(k, p)}
<1>1. t \in Objects /\ k \in Objects /\ t \in S
    BY BelowObjects
<1>2. HasParents(S)
  <2> SUFFICES ASSUME NEW q \in Objects, NEW p \in KidSet(q), p \in S PROVE q \in S
      BY DEF HasParents
  <2>1. CASE Below(p, k)
      BY <2>1, ParentAbove
  <2>2. CASE Below(k, p)
    <3>1. k = p \/ Below(k, q)
        BY <2>2, AboveChild
    <3> QED BY <1>1, <3>1, BelowSelf, ParentAbove
  <2> QED BY <2>1, <2>2
<1>3. h \in S
  <2>1. Above[t] \subseteq S
      BY <1>1, <1>2, AboveIs
  <2> QED BY <2>1 DEF Below
<1>4. ~Below(h, o) /\ ~Below(k, o)
    BY PathsAssumption DEF Below
<1> QED BY <1>3, <1>4, AboveChild

----------------------------------------------------------------------------
(* The clients of an object, and the calls they are on the way to get.       *)

Client(n, c, x) == <<n, c, x>> \in varOn
Id(n, c) == ObjectId(rows[n], c)
HasFound(n, c) == rows[n].object[c] # NoObject
\* From the i-th child of o on, no child is above the object of the column.
NoneLeft(n, c, o, i) == \A j \in DOMAIN Kids[o] : i <= j => ~Below(Kids[o][j], Id(n, c))

\* The variable has come down from its row's object to x, through objects that
\* are in sync and above its own.
OnTheWay(n, c, x) ==
    /\ c <= rows[n].built
    /\ Below(rows[n].obj, x)
    /\ x # rows[n].obj => Below(x, Id(n, c))
    /\ \A p \in Objects : Below(rows[n].obj, p) /\ Below(p, x) =>
          Client(n, c, p) /\ (p # x => InSync(p))

\* What a column has found or read is above its object or that itself.
ColumnOK(n, c) ==
    /\ \A x \in Objects : Client(n, c, x) => OnTheWay(n, c, x)
    /\ HasFound(n, c) <=> Id(n, c) # NoObject /\ Client(n, c, Id(n, c))
    /\ rows[n].variable[c] \in Objects \ {Id(n, c)} =>
          Below(rows[n].variable[c], Id(n, c)) /\ syncs[rows[n].variable[c]] > 1

\* The handlers of a variable that has found its object have nothing left to do
\* but to take its variable, or were called because an object above synced again.
OfColumn(f) == f.op \in {"var", "kids"}
FrameOK(f) ==
    /\ Client(f.row, f.col, f.at) /\ InSync(f.at)
    /\ f.op = "kids" => f.i # 0
    /\ HasFound(f.row, f.col) =>
          IF f.op = "kids" THEN NoneLeft(f.row, f.col, f.at, f.i)
                           ELSE f.at = Id(f.row, f.col) \/ syncs[f.at] > 1

\* A variable that searches below a child does not go on from its parent.
SearchOK(f, g) ==
    OfColumn(f) /\ OfColumn(g) /\ f.row = g.row /\ f.col = g.col
       => g.op = "kids" /\ NoneLeft(g.row, g.col, g.at, g.i)

ColumnsInv ==
    /\ \A n \in 1..Len(rows), c \in Cols : ColumnOK(n, c)
    /\ \A j \in 1..Len(stack) : OfColumn(stack[j]) => FrameOK(stack[j])
    /\ \A i, j \in 1..Len(stack) : i < j => SearchOK(stack[i], stack[j])

\* No object is out of sync again, and a step leaves most columns alone.
SyncsGrow == \A o \in Objects : syncs[o] \in Nat /\ syncs'[o] \in Nat /\ syncs'[o] >= syncs[o]
Untouched(n, c) ==
    /\ n \in 1..Len(rows) /\ n \in 1..Len(rows') /\ c \in Cols
    /\ rows'[n].obj = rows[n].obj /\ rows'[n].fromRoot = rows[n].fromRoot
    /\ rows[n].built \in Nat /\ rows'[n].built \in Nat /\ rows'[n].built >= rows[n].built
    /\ rows'[n].object[c] = rows[n].object[c] /\ rows'[n].variable[c] = rows[n].variable[c]
    /\ \A x \in Objects : <<n, c, x>> \in varOn' <=> <<n, c, x>> \in varOn

\* What a row keeps its object ids follow from.
LEMMA SameId ==
    ASSUME NEW n, NEW c, rows'[n].obj = rows[n].obj, rows'[n].fromRoot = rows[n].fromRoot
    PROVE  Id(n, c)' = Id(n, c) /\ \A o, i : NoneLeft(n, c, o, i)' <=> NoneLeft(n, c, o, i)
<1>1. Id(n, c)' = Id(n, c)
    BY DEF Id, ObjectId
<1> QED BY <1>1 DEF NoneLeft

\* An object id is an object or none.
LEMMA IdTyped ==
    ASSUME rows \in Seq(Rows), NEW n \in 1..Len(rows), NEW c \in Cols
    PROVE  /\ Id(n, c) \in Objects \union {NoObject} /\ rows[n].obj \in Objects
           /\ rows[n].built \in Nat
           /\ rows[n].object[c] \in Objects \union {NoObject}
           /\ rows[n].variable[c] \in Objects \union {NoObject}
<1>1. rows[n] \in Rows
    OBVIOUS
<1> QED BY <1>1, MappingAssumption, ColumnsAssumption DEF Id, ObjectId, Rows

\* A column that a step leaves alone is as it was.
LEMMA UntouchedColumn ==
    ASSUME rows \in Seq(Rows), NEW n, NEW c, Untouched(n, c), SyncsGrow, ColumnOK(n, c)
    PROVE  ColumnOK(n, c)'
<1>1. Id(n, c)' = Id(n, c)
    BY SameId DEF Untouched
<1>2. Id(n, c) \in Objects \union {NoObject} /\ rows[n].variable[c] \in Objects \union {NoObject}
    BY IdTyped DEF Untouched
<1>3. ASSUME NEW x \in Objects, Client(n, c, x)' PROVE OnTheWay(n, c, x)'
  <2>1. Client(n, c, x) /\ OnTheWay(n, c, x)
      BY <1>3 DEF Untouched, ColumnOK, Client
  <2>2. c \in Nat
      BY ColumnsAssumption DEF Untouched, Cols
  <2>3. c <= rows'[n].built
      BY <2>1, <2>2 DEF OnTheWay, Untouched
  <2>4. \A p \in Objects : InSync(p) => InSync(p)'
      BY DEF InSync, SyncsGrow
  <2>5. \A p \in Objects : Client(n, c, p) => Client(n, c, p)'
      BY DEF Untouched, Client
  <2> QED BY <1>1, <2>1, <2>3, <2>4, <2>5 DEF OnTheWay, Untouched
<1>4. HasFound(n, c)' <=> Id(n, c)' # NoObject /\ Client(n, c, Id(n, c))'
    BY <1>1, <1>2 DEF ColumnOK, HasFound, Untouched, Client
<1>5. rows'[n].variable[c] \in Objects \ {Id(n, c)'} =>
          Below(rows'[n].variable[c], Id(n, c)') /\ syncs'[rows'[n].variable[c]] > 1
    BY <1>1, <1>2 DEF ColumnOK, Untouched, SyncsGrow
<1> QED BY <1>3, <1>4, <1>5 DEF ColumnOK

\* So are the handlers of its variable.
LEMMA UntouchedFrame ==
    ASSUME NEW f, Untouched(f.row, f.col), SyncsGrow, f.at \in Objects, FrameOK(f)
    PROVE  FrameOK(f)'
<1>1. Id(f.row, f.col)' = Id(f.row, f.col)
      /\ \A o, i : NoneLeft(f.row, f.col, o, i)' <=> NoneLeft(f.row, f.col, o, i)
    BY SameId DEF Untouched
<1>2. InSync(f.at)' /\ (syncs[f.at] > 1 => syncs'[f.at] > 1)
    BY DEF FrameOK, InSync, SyncsGrow
<1>3. Client(f.row, f.col, f.at)' /\ (HasFound(f.row, f.col)' <=> HasFound(f.row, f.col))
    BY DEF FrameOK, Client, Untouched, HasFound
<1> QED BY <1>1, <1>2, <1>3 DEF FrameOK

\* No row, no client, no call.
LEMMA InitColumns == Init => ColumnsInv
<1> SUFFICES ASSUME Init PROVE ColumnsInv
    OBVIOUS
<1>1. Len(rows) = 0 /\ Len(stack) = 0
    BY DEF Init
<1> QED BY <1>1 DEF ColumnsInv

\* The frames of variables' handlers are of columns.
LEMMA FramesAreOfColumns ==
    ASSUME RowsInv, NEW j \in 1..Len(stack), OfColumn(stack[j])
    PROVE  /\ stack[j].row \in 1..Len(rows) /\ stack[j].col \in Cols
           /\ stack[j].at \in Objects /\ stack[j].i \in Nat
<1>1. stack[j] \in FramesFor(Len(rows))
    BY DEF RowsInv
<1> QED BY <1>1 DEF FramesFor, CallerFrames, ServerFrames, AddedFrames, WalkFrames,
        RowFrames, VariableFrames, OfColumn

\* A new row has no clients and has found nothing.
LEMMA NewRowColumn ==
    ASSUME RowsInv, NEW n, ~(n \in 1..Len(rows)), NEW c \in Cols, varOn' = varOn,
           rows'[n].object[c] = NoObject, rows'[n].variable[c] = NoObject
    PROVE  ColumnOK(n, c)'
<1>1. \A x : <<n, c, x>> \notin varOn'
    BY DEF RowsInv
<1> QED BY <1>1, NoObjectAssumption DEF ColumnOK, Client, HasFound

\* Steps of the table and of the library that call no variable.
LEMMA SettledColumns ==
    ASSUME TableInv, TableInv', ColumnsInv, Grows, SettledStep PROVE ColumnsInv'
<1> USE DEF SettledStep
<1>1. /\ rows \in Seq(Rows) /\ rows' \in Seq(Rows) /\ Len(rows) \in Nat /\ Len(rows') \in Nat
      /\ Len(rows') >= Len(rows) /\ RowsInv
    BY DEF TableInv, RowsInv, Grows
<1>2. SyncsGrow
    BY DEF TableInv, RestTypes, SyncsGrow
<1>3. ASSUME NEW n \in 1..Len(rows), NEW c \in Cols PROVE Untouched(n, c)
  <2>1. n \in 1..Len(rows') /\ rows'[n] = rows[n]
      BY <1>1 DEF Settled
  <2>2. rows[n].built \in Nat
      BY <1>1, IdTyped
  <2> QED BY <2>1, <2>2 DEF Untouched, Settled
<1>4. ASSUME NEW n \in 1..Len(rows'), NEW c \in Cols PROVE ColumnOK(n, c)'
  <2>1. CASE n \in 1..Len(rows)
      BY <1>1, <1>2, <1>3, <2>1, UntouchedColumn DEF ColumnsInv
  <2>2. CASE ~(n \in 1..Len(rows))
    <3>1. n > Len(rows)
        BY <1>1, <2>2
    <3>2. rows'[n].object[c] = NoObject /\ rows'[n].variable[c] = NoObject /\ varOn' = varOn
        BY <3>1 DEF Settled
    <3> QED BY <1>1, <2>2, <3>2, NewRowColumn
  <2> QED BY <2>1, <2>2
<1>5. PICK d \in Nat : Moved(d)
    BY DEF Settled
<1>6. ASSUME NEW j \in 1..Len(stack'), OfColumn(stack'[j]) PROVE FrameOK(stack[j])'
  <2>1. j + 1 - d \in 1..Len(stack) /\ stack'[j] = stack[j + 1 - d]
      BY <1>5, <1>6 DEF Moved, OfColumn
  <2> PICK f : f = stack'[j]
      OBVIOUS
  <2>2. OfColumn(f) /\ FrameOK(f)
      BY <1>6, <2>1 DEF ColumnsInv
  <2>3. f.row \in 1..Len(rows) /\ f.col \in Cols /\ f.at \in Objects
      BY <1>1, <1>6, <2>1, FramesAreOfColumns
  <2>4. FrameOK(f)'
      BY <1>2, <1>3, <2>2, <2>3, UntouchedFrame
  <2> QED BY <2>4
<1>7. ASSUME NEW i \in 1..Len(stack'), NEW j \in 1..Len(stack'), i < j
      PROVE  SearchOK(stack[i], stack[j])'
  <2> PICK f : f = stack'[i]
      OBVIOUS
  <2> PICK g : g = stack'[j]
      OBVIOUS
  <2>1. CASE ~(OfColumn(f) /\ OfColumn(g))
      BY <2>1 DEF SearchOK
  <2>2. CASE OfColumn(f) /\ OfColumn(g)
    <3>1. /\ i + 1 - d \in 1..Len(stack) /\ f = stack[i + 1 - d]
          /\ j + 1 - d \in 1..Len(stack) /\ g = stack[j + 1 - d]
        BY <1>5, <2>2 DEF Moved, OfColumn
    <3>2. i + 1 - d < j + 1 - d
        BY <1>7
    <3>3. SearchOK(f, g)
        BY <3>1, <3>2 DEF ColumnsInv
    <3>4. g.row \in 1..Len(rows) /\ g.col \in Cols
        BY <1>1, <2>2, <3>1, FramesAreOfColumns
    <3>5. \A o, k : NoneLeft(g.row, g.col, o, k)' <=> NoneLeft(g.row, g.col, o, k)
        BY <1>3, <3>4, SameId DEF Untouched
    <3>6. SearchOK(f, g)'
        BY <3>3, <3>5 DEF SearchOK
    <3> QED BY <3>6
  <2> QED BY <2>1, <2>2
<1> QED BY <1>4, <1>6, <1>7 DEF ColumnsInv

----------------------------------------------------------------------------
(* A variable becomes a client of one more object.                           *)

\* The object is looked at, and the variable a client of it.
Finds(r, c, o) ==
    /\ Len(rows') = Len(rows)
    /\ \A n \in 1..Len(rows) : /\ rows'[n].obj = rows[n].obj /\ rows'[n].fromRoot = rows[n].fromRoot
                               /\ rows'[n].variable = rows[n].variable
    /\ \A n \in 1..Len(rows), d \in Cols :
          n # r \/ d # c => rows'[n].object[d] = rows[n].object[d]
    /\ rows'[r].object[c] = IF Id(r, c) = o THEN o ELSE rows[r].object[c]
    /\ varOn' = varOn \union {<<r, c, o>>}

\* What Found() is.
LEMMA FoundIs ==
    ASSUME rows \in Seq(Rows), NEW r \in 1..Len(rows), NEW c \in Cols, NEW o, NEW b,
           rows' = Found(r, c, o) \/ rows' = [Found(r, c, o) EXCEPT ![r].built = b],
           varOn' = varOn \union {<<r, c, o>>}
    PROVE  Finds(r, c, o)
<1> DEFINE to == IF Id(r, c) = o THEN o ELSE rows[r].object[c]
           one == [rows[r] EXCEPT !.object[c] = to]
           two == [one EXCEPT !.built = b]
<1>1. rows[r] \in Rows
    OBVIOUS
<1>2. Found(r, c, o) = [rows EXCEPT ![r] = one]
    BY DEF Found, Id
<1>3. [Found(r, c, o) EXCEPT ![r].built = b] = [rows EXCEPT ![r] = two]
  <2>1. [rows EXCEPT ![r] = one][r] = one
      OBVIOUS
  <2> HIDE DEF one
  <2> QED BY <1>2, <2>1
<1> HIDE DEF to
<1>4. /\ one.obj = rows[r].obj /\ one.fromRoot = rows[r].fromRoot /\ one.variable = rows[r].variable
      /\ one.object[c] = to /\ \A d \in Cols : d # c => one.object[d] = rows[r].object[d]
    BY <1>1 DEF Rows
<1>5. /\ two.obj = one.obj /\ two.fromRoot = one.fromRoot /\ two.variable = one.variable
      /\ two.object = one.object
  <2>1. one \in [DOMAIN rows[r] -> {one[x] : x \in DOMAIN rows[r]}]
      OBVIOUS
  <2>2. DOMAIN rows[r] = {"obj", "fromRoot", "built", "object", "variable"}
      BY <1>1 DEF Rows
  <2> HIDE DEF one
  <2> QED BY <2>1, <2>2
<1> HIDE DEF one, two
<1>6. \E new : /\ rows' = [rows EXCEPT ![r] = new]
               /\ new.obj = rows[r].obj /\ new.fromRoot = rows[r].fromRoot
               /\ new.variable = rows[r].variable /\ new.object[c] = to
               /\ \A d \in Cols : d # c => new.object[d] = rows[r].object[d]
    BY <1>2, <1>3, <1>4, <1>5
<1> PICK new : /\ rows' = [rows EXCEPT ![r] = new]
               /\ new.obj = rows[r].obj /\ new.fromRoot = rows[r].fromRoot
               /\ new.variable = rows[r].variable /\ new.object[c] = to
               /\ \A d \in Cols : d # c => new.object[d] = rows[r].object[d]
    BY <1>6
<1>7. Len(rows') = Len(rows) /\ \A n \in 1..Len(rows) : rows'[n] = IF n = r THEN new ELSE rows[n]
    OBVIOUS
<1> QED BY <1>7 DEF Finds, to

\* The other columns are left alone.
LEMMA FindsUntouched ==
    ASSUME RowsInv, RowsInv', Grows, NEW r \in 1..Len(rows), NEW c \in Cols, NEW o, Finds(r, c, o),
           NEW n \in 1..Len(rows), NEW d \in Cols, n # r \/ d # c
    PROVE  Untouched(n, d)
<1>1. rows \in Seq(Rows) /\ rows' \in Seq(Rows) /\ n \in 1..Len(rows')
    BY DEF RowsInv, Finds
<1>2. rows[n].built \in Nat /\ rows'[n].built \in Nat
  <2>1. rows'[n] \in Rows /\ rows[n] \in Rows
      BY <1>1
  <2>2. 0..Columns \subseteq Nat
      BY ColumnsAssumption
  <2> QED BY <2>1, <2>2 DEF Rows
<1>3. \A x \in Objects : <<n, d, x>> \in varOn' <=> <<n, d, x>> \in varOn
    BY DEF Finds
<1>4. rows'[n].object[d] = rows[n].object[d] /\ rows'[n].variable[d] = rows[n].variable[d]
    BY DEF Finds
<1>5. rows'[n].obj = rows[n].obj /\ rows'[n].fromRoot = rows[n].fromRoot
      /\ rows'[n].built >= rows[n].built
    BY DEF Grows
<1> QED BY <1>1, <1>2, <1>3, <1>4, <1>5 DEF Untouched

\* The column itself has found its object if that is the one.
LEMMA FindsColumn ==
    ASSUME RowsInv, RowsInv', Grows, SyncsGrow, NEW r \in 1..Len(rows), NEW c \in Cols,
           NEW o \in Objects, Finds(r, c, o), ColumnOK(r, c), ~HasFound(r, c), OnTheWay(r, c, o)'
    PROVE  ColumnOK(r, c)'
<1>1. /\ rows \in Seq(Rows) /\ rows' \in Seq(Rows) /\ r \in 1..Len(rows') /\ r \in 1..Len(rows)
      /\ rows'[r].obj = rows[r].obj /\ rows'[r].fromRoot = rows[r].fromRoot
      /\ rows'[r].variable = rows[r].variable /\ rows'[r].built >= rows[r].built
      /\ rows'[r].object[c] = IF Id(r, c) = o THEN o ELSE rows[r].object[c]
    BY DEF RowsInv, Finds, Grows
<1>2. Id(r, c)' = Id(r, c)
    BY <1>1, SameId
<1>3. Id(r, c) \in Objects \union {NoObject} /\ rows[r].variable[c] \in Objects \union {NoObject}
      /\ rows[r].built \in Nat /\ rows'[r].built \in Nat
  <2>1. rows'[r] \in Rows
      BY <1>1
  <2> QED BY <1>1, <2>1, IdTyped, ColumnsAssumption DEF Rows
<1>4. \A x : Client(r, c, x)' <=> Client(r, c, x) \/ x = o
    BY DEF Client, Finds
<1>5. ASSUME NEW x \in Objects, Client(r, c, x)', x # o PROVE OnTheWay(r, c, x)'
  <2>1. OnTheWay(r, c, x)
      BY <1>4, <1>5 DEF ColumnOK
  <2>2. c \in Nat
      BY ColumnsAssumption DEF Cols
  <2>3. c <= rows'[r].built
      BY <1>1, <1>3, <2>1, <2>2 DEF OnTheWay
  <2>4. \A p \in Objects : InSync(p) => InSync(p)'
      BY DEF InSync, SyncsGrow
  <2> QED BY <1>1, <1>2, <1>4, <2>1, <2>3, <2>4 DEF OnTheWay
<1>6. HasFound(r, c)' <=> Id(r, c)' # NoObject /\ Client(r, c, Id(r, c))'
  <2>1. HasFound(r, c)' <=> Id(r, c) = o
      BY <1>1, NoObjectAssumption DEF HasFound
  <2>2. Client(r, c, Id(r, c))' <=> Client(r, c, Id(r, c)) \/ Id(r, c) = o
      BY <1>2, <1>4
  <2> QED BY <1>2, <2>1, <2>2, NoObjectAssumption DEF ColumnOK
<1>7. rows'[r].variable[c] \in Objects \ {Id(r, c)'} =>
          Below(rows'[r].variable[c], Id(r, c)') /\ syncs'[rows'[r].variable[c]] > 1
    BY <1>1, <1>2, <1>3 DEF ColumnOK, SyncsGrow
<1> QED BY <1>5, <1>6, <1>7 DEF ColumnOK

\* A handler that was called earlier has nothing left to search for, if its
\* column has found its object now.
LEMMA EarlierFrame ==
    ASSUME RowsInv, RowsInv', Grows, SyncsGrow, NEW r \in 1..Len(rows), NEW c \in Cols, NEW o,
           Finds(r, c, o), NEW f, f.row \in 1..Len(rows), f.col \in Cols, f.at \in Objects,
           FrameOK(f),
           f.row = r /\ f.col = c => f.op = "kids" /\ NoneLeft(r, c, f.at, f.i)
    PROVE  FrameOK(f)'
<1>1. CASE f.row # r \/ f.col # c
  <2>1. Untouched(f.row, f.col)
      BY <1>1, FindsUntouched
  <2> QED BY <2>1, UntouchedFrame
<1>2. CASE f.row = r /\ f.col = c
  <2>1. NoneLeft(r, c, f.at, f.i)'
      BY <1>2, SameId DEF Finds
  <2>2. Client(r, c, f.at)' /\ InSync(f.at)'
      BY <1>2 DEF FrameOK, Client, Finds, InSync, SyncsGrow
  <2> QED BY <1>2, <2>1, <2>2 DEF FrameOK
<1> QED BY <1>1, <1>2

\* Rows keep their ids, and so does what is left of a search.
LEMMA SearchKept ==
    ASSUME Grows, NEW f, NEW g, g.row \in 1..Len(rows), SearchOK(f, g) PROVE SearchOK(f, g)'
<1>1. \A o, i : NoneLeft(g.row, g.col, o, i)' <=> NoneLeft(g.row, g.col, o, i)
    BY SameId DEF Grows
<1> QED BY <1>1 DEF SearchOK

\* addRow() makes the variable of the next column a client of the row's object.
LEMMA RowColumnColumns ==
    ASSUME TableInv, TableInv', ColumnsInv, Grows, RowColumn PROVE ColumnsInv'
<1> PICK o : o = Head(stack).at
    OBVIOUS
<1> PICK c : c = Head(stack).col
    OBVIOUS
<1> PICK r : r = Len(rows)
    OBVIOUS
<1>1. Executing("row") /\ stack # <<>> /\ Head(stack).op = "row" /\ Head(stack) \in RowFrames
      /\ RowsInv /\ RowsInv'
    BY TopFrame DEF RowColumn, Executing, TableInv
<1>2. o \in Objects /\ c \in 1..(Columns + 1) /\ Columns \in Nat
    BY <1>1, ColumnsAssumption DEF RowFrames
<1>3. SyncsGrow /\ syncs' = syncs
  <2>1. syncs' = syncs
      BY DEF RowColumn, rmc, objs
  <2> QED BY <2>1 DEF TableInv, RestTypes, SyncsGrow
<1>4. CASE c > Columns
  <2>1. SettledStep
      BY <1>1, <1>3, <1>4, RowReturns DEF RowColumn, SettledStep
  <2> QED BY <2>1, SettledColumns
<1>5. CASE ~(c > Columns)
  <2>1. c \in Cols
      BY <1>2, <1>5 DEF Cols
  <2>2. /\ rows \in Seq(Rows) /\ rows # <<>> /\ rows[r].built + 1 = c /\ rows[r].obj = o
        /\ stack \in Seq(FramesFor(r)) /\ Len(stack) \in Nat /\ 1 \in 1..Len(stack)
        /\ stack[1] = Head(stack) /\ r \in Nat /\ r \in 1..Len(rows) /\ r \in Nat \ {0}
      BY <1>1 DEF RowsInv, Nested
  <2>3. /\ rows' = [Found(r, c, o) EXCEPT ![r].built = c]
        /\ varOn' = varOn \union {<<r, c, o>>}
        /\ Calls(ResolveNow(r, c, o) \o <<RowFrame(o, c + 1)>>)
      BY <1>5 DEF RowColumn
  <2>4. rows'[r].built = c
      BY <2>1, <2>2, <2>3, ColumnRows
  <2> PICK frames : frames = ResolveNow(r, c, o) \o <<RowFrame(o, c + 1)>>
      OBVIOUS
  <2>5. /\ frames \in Seq(FramesFor(r)) /\ Len(frames) \in {1, 2}
        /\ frames[Len(frames)] = RowFrame(o, c + 1)
        /\ Len(frames) = 2 => frames[1] = VarFrame(r, c, o) /\ InSync(o)
      BY <1>2, <2>1, <2>2, ColumnCalls
  <2>6. Finds(r, c, o)
      BY <1>1, <2>1, <2>2, <2>3, FoundIs
  <2>7. rows[r].built \in Nat /\ ~(c <= rows[r].built)
      BY <2>1, <2>2, IdTyped
  <2>8. \A x \in Objects : ~Client(r, c, x)
      BY <2>1, <2>2, <2>7 DEF ColumnsInv, ColumnOK, OnTheWay
  <2>9. ~HasFound(r, c)
    <3>1. Id(r, c) \in Objects \union {NoObject} /\ ColumnOK(r, c)
        BY <2>1, <2>2, IdTyped DEF ColumnsInv
    <3> QED BY <2>8, <3>1 DEF ColumnOK
  <2>10. OnTheWay(r, c, o)'
    <3>1. rows'[r].obj = o /\ Client(r, c, o)' /\ Below(o, o) /\ c <= rows'[r].built
        BY <1>2, <2>1, <2>2, <2>4, <2>6, BelowSelf DEF Finds, Client, Cols
    <3>2. \A p : Below(o, p) /\ Below(p, o) => p = o
        BY BelowOneWay
    <3> QED BY <3>1, <3>2 DEF OnTheWay
  <2>11. ASSUME NEW n \in 1..Len(rows'), NEW d \in Cols PROVE ColumnOK(n, d)'
    <3>1. n \in 1..Len(rows) /\ ColumnOK(n, d)
        BY <2>6 DEF Finds, ColumnsInv
    <3>2. CASE n = r /\ d = c
        BY <1>1, <1>2, <1>3, <2>2, <2>1, <2>6, <2>9, <2>10, <3>1, <3>2, FindsColumn
    <3>3. CASE n # r \/ d # c
        BY <1>1, <1>3, <2>1, <2>2, <2>6, <3>1, <3>3, FindsUntouched, UntouchedColumn
    <3> QED BY <3>2, <3>3
  <2>12. ASSUME NEW f, NEW j \in 1..Len(stack), f = stack[j], OfColumn(f)
         PROVE  /\ FrameOK(f) /\ FrameOK(f)' /\ f.row \in 1..Len(rows) /\ f.col \in Cols
                /\ ~(f.row = r /\ f.col = c)
    <3>1. /\ FrameOK(f) /\ f.row \in 1..Len(rows) /\ f.col \in Cols /\ f.at \in Objects
        BY <1>1, <2>12, FramesAreOfColumns DEF ColumnsInv
    <3>2. ~(f.row = r /\ f.col = c)
        BY <2>8, <3>1 DEF FrameOK
    <3> QED BY <1>1, <1>3, <2>1, <2>2, <2>6, <3>1, <3>2, EarlierFrame
  <2>13. ASSUME NEW k \in 1..Len(stack'), OfColumn(stack'[k])
         PROVE  \/ /\ k = 1 /\ stack'[k] = VarFrame(r, c, o) /\ InSync(o)
                \/ \E j \in 1..Len(stack) : j > 1 /\ j = k - Len(frames) + 1 /\ stack'[k] = stack[j]
    <3>1. CASE k > Len(frames)
        BY <2>2, <2>3, <2>5, <3>1, UnderCalls
    <3>2. CASE ~(k > Len(frames))
      <4>1. k \in 1..Len(frames) /\ stack'[k] = frames[k]
        <5>1. k \in Nat \ {0} /\ k <= Len(frames)
            BY <2>5, <3>2
        <5>2. stack'[k] = frames[k]
            BY <2>2, <2>3, <2>5, <5>1, CallsAre
        <5> QED BY <5>1, <5>2, <2>5
      <4>2. k # Len(frames)
          BY <2>5, <2>13, <4>1 DEF OfColumn, RowFrame, Frame
      <4>3. k = 1 /\ Len(frames) = 2
          BY <2>5, <4>1, <4>2
      <4> QED BY <2>5, <4>1, <4>3
    <3> QED BY <3>1, <3>2
  <2>14. ASSUME InSync(o), NEW f, f = VarFrame(r, c, o)
         PROVE  OfColumn(f) /\ f.row = r /\ f.col = c /\ FrameOK(f)'
    <3>1. f.row = r /\ f.col = c /\ f.at = o /\ f.op = "var"
        BY <2>14 DEF VarFrame, Frame
    <3>2. Client(r, c, o)' /\ InSync(o)'
        BY <1>3, <2>6, <2>14 DEF Client, Finds, InSync
    <3>3. HasFound(r, c)' => o = Id(r, c)'
      <4>1. Id(r, c)' = Id(r, c)
          BY <2>2, <2>6, SameId DEF Finds
      <4> QED BY <2>9, <4>1, <2>6 DEF Finds, HasFound
    <3> QED BY <3>1, <3>2, <3>3 DEF FrameOK, OfColumn
  <2>15. ASSUME NEW k \in 1..Len(stack'), OfColumn(stack'[k]) PROVE FrameOK(stack[k])'
    <3> PICK f : f = stack'[k]
        OBVIOUS
    <3>1. FrameOK(f)'
        BY <2>12, <2>13, <2>14, <2>15
    <3> QED BY <3>1
  <2>16. ASSUME NEW i \in 1..Len(stack'), NEW k \in 1..Len(stack'), i < k
         PROVE  SearchOK(stack[i], stack[k])'
    <3> PICK f : f = stack'[i]
        OBVIOUS
    <3> PICK g : g = stack'[k]
        OBVIOUS
    <3>1. CASE ~(OfColumn(f) /\ OfColumn(g))
        BY <3>1 DEF SearchOK
    <3>2. CASE OfColumn(f) /\ OfColumn(g)
      <4>1. PICK l \in 1..Len(stack) : l = k - Len(frames) + 1 /\ g = stack[l]
          BY <2>13, <2>16, <3>2
      <4>2. g.row \in 1..Len(rows) /\ ~(g.row = r /\ g.col = c)
          BY <2>12, <3>2, <4>1
      <4>3. CASE f = VarFrame(r, c, o)
          BY <4>2, <4>3 DEF SearchOK, VarFrame, Frame
      <4>4. CASE f # VarFrame(r, c, o)
        <5>1. PICK h \in 1..Len(stack) : h = i - Len(frames) + 1 /\ f = stack[h]
            BY <2>13, <3>2, <4>4
        <5>2. h < l
            BY <2>5, <2>16, <4>1, <5>1
        <5>3. SearchOK(f, g)
            BY <4>1, <5>1, <5>2 DEF ColumnsInv
        <5>4. SearchOK(f, g)'
            BY <4>2, <5>3, SearchKept
        <5> QED BY <5>4
      <4> QED BY <4>3, <4>4
    <3> QED BY <3>1, <3>2
  <2> QED BY <2>11, <2>15, <2>16 DEF ColumnsInv
<1> QED BY <1>4, <1>5

----------------------------------------------------------------------------
(* The handlers of variables.                                                *)

\* After a call: the calls made, above what was waiting.
LEMMA CalledOrWaiting ==
    ASSUME RowsInv, NEW frames \in Seq(FramesFor(Len(rows))), Calls(frames),
           NEW k \in 1..Len(stack')
    PROVE  \/ k \in 1..Len(frames) /\ stack'[k] = frames[k]
           \/ k > Len(frames) /\ \E j \in 1..Len(stack) :
                 j > 1 /\ j = k - Len(frames) + 1 /\ stack'[k] = stack[j]
<1>1. Len(frames) \in Nat /\ stack \in Seq(FramesFor(Len(rows)))
    BY DEF RowsInv
<1>2. CASE k > Len(frames)
    BY <1>1, <1>2, UnderCalls
<1>3. CASE ~(k > Len(frames))
  <2>1. k <= Len(frames) /\ k \in 1..Len(frames)
      BY <1>1, <1>3
  <2> QED BY <1>1, <2>1, CallsAre
<1> QED BY <1>2, <1>3

\* The column reads the object's variable from now on, if it has one.
ReadsNow(r, c, o) ==
    /\ r \in 1..Len(rows) /\ c \in Cols /\ o \in Objects
    /\ Len(rows') = Len(rows)
    /\ \A n \in 1..Len(rows) :
          /\ rows'[n].obj = rows[n].obj /\ rows'[n].fromRoot = rows[n].fromRoot
          /\ rows'[n].built = rows[n].built /\ rows'[n].object = rows[n].object
          /\ \A d \in Cols : n # r \/ d # c => rows'[n].variable[d] = rows[n].variable[d]
    /\ \/ rows'[r].variable[c] = rows[r].variable[c]
       \/ HasFound(r, c) /\ rows'[r].variable[c] = o
    /\ HasFound(r, c) /\ c \notin Attributes /\ <<o, c>> \in Variables
          => rows'[r].variable[c] = o

\* variable_t::processProxyManagedObjectSync() changes what the column reads,
\* if anything.
LEMMA VariableTaken ==
    ASSUME RowsInv, VariableSync, NEW r, NEW c, NEW o,
           r = Head(stack).row, c = Head(stack).col, o = Head(stack).at
    PROVE  ReadsNow(r, c, o)
<1> USE DEF ReadsNow
<1>1. /\ r \in 1..Len(rows) /\ c \in Cols /\ o \in Objects /\ rows \in Seq(Rows)
    BY VariableTop DEF VariableSync
<1>2. rows[r] \in Rows
    BY <1>1
<1> DEFINE new == [rows[r] EXCEPT !.variable[c] = o]
<1>3. /\ new.obj = rows[r].obj /\ new.fromRoot = rows[r].fromRoot /\ new.built = rows[r].built
      /\ new.object = rows[r].object /\ new.variable[c] = o
      /\ \A d \in Cols : d # c => new.variable[d] = rows[r].variable[d]
    BY <1>1, <1>2 DEF Rows
<1>4. \/ rows' = rows /\ ~(HasFound(r, c) /\ c \notin Attributes /\ <<o, c>> \in Variables)
      \/ rows' = [rows EXCEPT ![r] = new] /\ HasFound(r, c)
  <2>1. [rows EXCEPT ![r].variable[c] = o] = [rows EXCEPT ![r] = new]
      OBVIOUS
  <2> HIDE DEF new
  <2> QED BY <2>1 DEF VariableSync, HasFound
<1> HIDE DEF new
<1>5. CASE rows' = rows /\ ~(HasFound(r, c) /\ c \notin Attributes /\ <<o, c>> \in Variables)
    BY <1>1, <1>5
<1>6. CASE rows' = [rows EXCEPT ![r] = new] /\ HasFound(r, c)
  <2>1. Len(rows') = Len(rows) /\ \A n \in 1..Len(rows) : rows'[n] = IF n = r THEN new ELSE rows[n]
      BY <1>1, <1>6
  <2> QED BY <1>1, <1>3, <1>6, <2>1
<1> QED BY <1>4, <1>5, <1>6

\* A frame is the one there was at j, or what the innermost handler of a
\* variable goes on with.
ComesFrom(f, j) ==
    /\ OfColumn(stack[j]) /\ stack[j].row = f.row /\ stack[j].col = f.col
    /\ f = stack[j] \/ j = 1

\* One that waits below another still does.
LEMMA WaitsBelow ==
    ASSUME RowsInv, ColumnsInv, Grows, NEW f, NEW g, NEW h \in 1..Len(stack), NEW j \in 1..Len(stack),
           h < j, ComesFrom(f, h), ComesFrom(g, j)
    PROVE  SearchOK(f, g)'
<1>1. g = stack[j] /\ OfColumn(stack[j])
    BY DEF ComesFrom
<1>2. SearchOK(stack[h], g)
    BY <1>1 DEF ColumnsInv
<1>3. SearchOK(f, g)
    BY <1>2 DEF SearchOK, ComesFrom
<1>4. g.row \in 1..Len(rows)
    BY <1>1, FramesAreOfColumns
<1> QED BY <1>3, <1>4, SearchKept

\* What it takes is its object's variable, or that of one above it.
LEMMA VariableSyncColumns ==
    ASSUME TableInv, TableInv', ColumnsInv, Grows, VariableSync PROVE ColumnsInv'
<1> PICK o : o = Head(stack).at
    OBVIOUS
<1> PICK c : c = Head(stack).col
    OBVIOUS
<1> PICK r : r = Head(stack).row
    OBVIOUS
<1>1. /\ r \in 1..Len(rows) /\ c \in Cols /\ o \in Objects
      /\ Len(rows') = Len(rows)
      /\ \A n \in 1..Len(rows) :
            /\ rows'[n].obj = rows[n].obj /\ rows'[n].fromRoot = rows[n].fromRoot
            /\ rows'[n].built = rows[n].built /\ rows'[n].object = rows[n].object
            /\ \A d \in Cols : n # r \/ d # c => rows'[n].variable[d] = rows[n].variable[d]
      /\ \/ rows'[r].variable[c] = rows[r].variable[c]
         \/ HasFound(r, c) /\ rows'[r].variable[c] = o
  <2>1. RowsInv
      BY DEF TableInv
  <2>2. ReadsNow(r, c, o)
      BY <2>1, VariableTaken
  <2> QED BY <2>2 DEF ReadsNow
<1>2. /\ stack # <<>> /\ Head(stack).op = "var" /\ stack[1] = Head(stack) /\ 1 \in 1..Len(stack)
      /\ RowsInv /\ RowsInv' /\ rows \in Seq(Rows)
    BY DEF VariableSync, Executing, TableInv, RowsInv
<1>3. syncs' = syncs /\ varOn' = varOn /\ SyncsGrow
  <2>1. syncs' = syncs /\ varOn' = varOn
      BY DEF VariableSync, rmc, objs
  <2> QED BY <2>1 DEF TableInv, RestTypes, SyncsGrow
<1>4. Client(r, c, o) /\ InSync(o) /\ (HasFound(r, c) => o = Id(r, c) \/ syncs[o] > 1)
    BY <1>2 DEF ColumnsInv, FrameOK, OfColumn
<1>5. ASSUME NEW n \in 1..Len(rows), NEW d \in Cols,
             rows'[n].variable[d] = rows[n].variable[d]
      PROVE  Untouched(n, d)
    BY <1>1, <1>2, <1>3, <1>5, IdTyped DEF Untouched
<1>6. ColumnOK(r, c)'
  <2>1. CASE rows'[r].variable[c] = rows[r].variable[c]
      BY <1>1, <1>2, <1>3, <1>5, <2>1, UntouchedColumn DEF ColumnsInv
  <2>2. CASE HasFound(r, c) /\ rows'[r].variable[c] = o
    <3>1. Id(r, c)' = Id(r, c)
        BY <1>1, SameId
    <3>2. ColumnOK(r, c) /\ OnTheWay(r, c, o)
        BY <1>1, <1>4 DEF ColumnsInv, ColumnOK
    <3>3. o # Id(r, c) => Below(o, Id(r, c))
      <4>1. Client(r, c, Id(r, c)) /\ Id(r, c) \in Objects
          BY <1>1, <1>2, <2>2, <3>2, IdTyped DEF ColumnOK
      <4>2. Below(rows[r].obj, Id(r, c))
          BY <3>2, <4>1 DEF ColumnOK, OnTheWay
      <4> QED BY <3>2, <4>2 DEF OnTheWay
    <3>4. ASSUME NEW x \in Objects, Client(r, c, x)' PROVE OnTheWay(r, c, x)'
      <4>1. OnTheWay(r, c, x)
          BY <1>3, <3>2, <3>4 DEF ColumnOK, Client
      <4>2. \A p : Client(r, c, p)' <=> Client(r, c, p)
          BY <1>3 DEF Client
      <4>3. \A p : InSync(p)' <=> InSync(p)
          BY <1>3 DEF InSync
      <4> QED BY <1>1, <3>1, <4>1, <4>2, <4>3 DEF OnTheWay
    <3>5. HasFound(r, c)' <=> Id(r, c)' # NoObject /\ Client(r, c, Id(r, c))'
        BY <1>1, <1>3, <3>1, <3>2 DEF ColumnOK, HasFound, Client
    <3>6. o # Id(r, c) => Below(o, Id(r, c)) /\ syncs'[o] > 1
        BY <1>3, <1>4, <2>2, <3>3
    <3> QED BY <2>2, <3>1, <3>4, <3>5, <3>6 DEF ColumnOK
  <2> QED BY <1>1, <2>1, <2>2
<1>7. ASSUME NEW n \in 1..Len(rows'), NEW d \in Cols PROVE ColumnOK(n, d)'
  <2>1. n \in 1..Len(rows)
      BY <1>1
  <2>2. CASE n # r \/ d # c
    <3>1. rows'[n].variable[d] = rows[n].variable[d]
        BY <1>1, <2>1, <2>2
    <3> QED BY <1>2, <1>3, <1>5, <2>1, <3>1, UntouchedColumn DEF ColumnsInv
  <2> QED BY <1>6, <2>2
<1>8. ASSUME NEW f, FrameOK(f), f.row \in 1..Len(rows), f.col \in Cols PROVE FrameOK(f)'
  <2>1. Client(f.row, f.col, f.at)' /\ InSync(f.at)' /\ (HasFound(f.row, f.col)' <=> HasFound(f.row, f.col))
      BY <1>1, <1>3, <1>8 DEF FrameOK, Client, InSync, HasFound
  <2>2. /\ Id(f.row, f.col)' = Id(f.row, f.col)
        /\ \A x, i : NoneLeft(f.row, f.col, x, i)' <=> NoneLeft(f.row, f.col, x, i)
      BY <1>1, <1>8, SameId
  <2> QED BY <1>3, <1>8, <2>1, <2>2 DEF FrameOK
<1>9. PICK frames : /\ Calls(frames) /\ frames \in Seq(FramesFor(Len(rows)))
                     /\ \/ frames = <<>>
                        \/ frames = <<KidsFrame(r, c, o, 1)>> /\ ~HasFound(r, c)
  <2>1. KidsFrame(r, c, o, 1) \in FramesFor(Len(rows)) /\ Len(rows) \in Nat
      BY <1>1, <1>2, PushedFrames, VariableFrame
  <2>2. <<>> \in Seq(FramesFor(Len(rows))) /\ <<KidsFrame(r, c, o, 1)>> \in Seq(FramesFor(Len(rows)))
      BY <2>1
  <2>3. Calls(<<>>) \/ (Calls(<<KidsFrame(r, c, o, 1)>>) /\ ~HasFound(r, c))
      BY DEF VariableSync, ReturnFrame, HasFound
  <2> QED BY <2>2, <2>3
<1>10. Len(frames) \in {0, 1}
    BY <1>9
<1>11. ASSUME NEW k \in 1..Len(stack'), NEW f, f = stack'[k], OfColumn(f)
       PROVE  /\ f.row \in 1..Len(rows) /\ f.col \in Cols /\ FrameOK(f)
              /\ \E j \in 1..Len(stack) : j = k - Len(frames) + 1 /\ ComesFrom(f, j)
  <2>1. CASE k \in 1..Len(frames) /\ f = frames[k]
    <3>1. k = 1 /\ f = KidsFrame(r, c, o, 1) /\ ~HasFound(r, c) /\ Len(frames) = 1
        BY <1>9, <2>1
    <3>2. f.op = "kids" /\ f.row = r /\ f.col = c /\ f.at = o /\ f.i = 1
        BY <3>1 DEF KidsFrame, Frame
    <3>3. FrameOK(f)
        BY <1>4, <3>1, <3>2 DEF FrameOK
    <3>4. 1 = k - Len(frames) + 1 /\ ComesFrom(f, 1)
        BY <1>2, <3>1, <3>2 DEF OfColumn, ComesFrom
    <3> QED BY <1>1, <1>2, <3>1, <3>2, <3>3, <3>4
  <2>2. CASE k > Len(frames) /\ \E j \in 1..Len(stack) :
                 j > 1 /\ j = k - Len(frames) + 1 /\ f = stack[j]
      BY <1>2, <1>11, <2>2, FramesAreOfColumns DEF ColumnsInv, ComesFrom
  <2> QED BY <1>2, <1>9, <1>11, <2>1, <2>2, CalledOrWaiting
<1>12. ASSUME NEW k \in 1..Len(stack'), OfColumn(stack'[k]) PROVE FrameOK(stack[k])'
  <2> PICK f : f = stack'[k]
      OBVIOUS
  <2>1. FrameOK(f)'
      BY <1>8, <1>11, <1>12
  <2> QED BY <2>1
<1>13. ASSUME NEW i \in 1..Len(stack'), NEW k \in 1..Len(stack'), i < k
       PROVE  SearchOK(stack[i], stack[k])'
  <2> PICK f : f = stack'[i]
      OBVIOUS
  <2> PICK g : g = stack'[k]
      OBVIOUS
  <2>1. CASE ~(OfColumn(f) /\ OfColumn(g))
      BY <2>1 DEF SearchOK
  <2>2. CASE OfColumn(f) /\ OfColumn(g)
    <3>1. PICK h \in 1..Len(stack) : h = i - Len(frames) + 1 /\ ComesFrom(f, h)
        BY <1>11, <2>2
    <3>2. PICK j \in 1..Len(stack) : j = k - Len(frames) + 1 /\ ComesFrom(g, j)
        BY <1>11, <2>2
    <3>3. h < j
        BY <1>10, <1>13, <3>1, <3>2
    <3>4. SearchOK(f, g)'
        BY <1>2, <3>1, <3>2, <3>3, WaitsBelow
    <3> QED BY <3>4
  <2> QED BY <2>1, <2>2
<1> QED BY <1>7, <1>12, <1>13 DEF ColumnsInv

\* The calls of a variable that goes to a child.
LEMMA ChildCalls ==
    ASSUME NEW n \in Nat, NEW r \in 1..n, NEW c \in Cols, NEW o \in Objects, NEW k \in Objects,
           NEW i \in Nat
    PROVE  LET frames == ResolveNow(r, c, k) \o <<KidsFrame(r, c, o, i)>>
           IN /\ frames \in Seq(FramesFor(n)) /\ Len(frames) \in {1, 2}
              /\ frames[Len(frames)] = KidsFrame(r, c, o, i)
              /\ Len(frames) = 2 => frames[1] = VarFrame(r, c, k) /\ InSync(k)
              /\ Len(frames) = 1 => ~InSync(k)
<1> PICK kids : kids = KidsFrame(r, c, o, i)
    OBVIOUS
<1> PICK var : var = VarFrame(r, c, k)
    OBVIOUS
<1>1. kids \in FramesFor(n) /\ var \in FramesFor(n)
    BY PushedFrames, VariableFrame
<1> PICK frames : frames = ResolveNow(r, c, k) \o <<kids>>
    OBVIOUS
<1>2. CASE InSync(k)
  <2>1. frames = <<var>> \o <<kids>>
      BY <1>2 DEF ResolveNow, When
  <2>2. frames \in Seq(FramesFor(n)) /\ Len(frames) = 2 /\ frames[1] = var /\ frames[2] = kids
      BY ONLY <1>1, <2>1, TwoCalls
  <2> QED BY <1>2, <2>2
<1>3. CASE ~InSync(k)
  <2>1. frames = <<>> \o <<kids>>
      BY <1>3 DEF ResolveNow, When
  <2>2. frames \in Seq(FramesFor(n)) /\ Len(frames) = 1 /\ frames[1] = kids
      BY ONLY <1>1, <2>1, OneCall
  <2> QED BY <1>3, <2>2
<1> QED BY <1>2, <1>3

\* The variable becomes a client of the j-th child of o, which is above its object.
GoesTo(r, c, o, i, j) ==
    /\ stack # <<>> /\ Head(stack).op = "kids" /\ Head(stack).row = r /\ Head(stack).col = c
    /\ Head(stack).at = o /\ Head(stack).i = i
    /\ r \in 1..Len(rows) /\ c \in Cols /\ o \in Objects /\ i \in Nat /\ j \in DOMAIN Kids[o] /\ i <= j
    /\ Below(Kids[o][j], Id(r, c))
    /\ rows' = Found(r, c, Kids[o][j])
    /\ varOn' = varOn \union {<<r, c, Kids[o][j]>>}
    /\ syncs' = syncs
    /\ Calls(ResolveNow(r, c, Kids[o][j]) \o <<KidsFrame(r, c, o, j + 1)>>)

\* No search went on from there before, and the other children are not above it.
LEMMA GoesToColumns ==
    ASSUME TableInv, TableInv', ColumnsInv, Grows, NEW r, NEW c, NEW o, NEW i, NEW j,
           GoesTo(r, c, o, i, j)
    PROVE  ColumnsInv'
<1> PICK k : k = Kids[o][j]
    OBVIOUS
<1>1. /\ stack # <<>> /\ Head(stack).op = "kids" /\ stack[1] = Head(stack) /\ 1 \in 1..Len(stack)
      /\ OfColumn(stack[1]) /\ stack[1].row = r /\ stack[1].col = c /\ stack[1].at = o /\ stack[1].i = i
      /\ r \in 1..Len(rows) /\ c \in Cols /\ o \in Objects /\ i \in Nat /\ i <= j
      /\ rows \in Seq(Rows) /\ RowsInv /\ RowsInv' /\ Len(rows) \in Nat /\ Len(stack) \in Nat
    BY DEF GoesTo, TableInv, RowsInv, OfColumn
<1>2. /\ j \in DOMAIN Kids[o] /\ j \in Nat /\ j + 1 \in Nat /\ k \in Objects /\ k \in KidSet(o)
      /\ Below(k, Id(r, c))
    BY KidsAre DEF GoesTo
<1>3. syncs' = syncs /\ SyncsGrow
    BY DEF GoesTo, TableInv, RestTypes, SyncsGrow
<1>4. /\ Client(r, c, o) /\ InSync(o) /\ ~HasFound(r, c) /\ ColumnOK(r, c) /\ OnTheWay(r, c, o)
  <2>1. Client(r, c, o) /\ InSync(o) /\ (HasFound(r, c) => NoneLeft(r, c, o, i)) /\ ColumnOK(r, c)
      BY <1>1 DEF ColumnsInv, FrameOK
  <2>2. ~NoneLeft(r, c, o, i)
      BY <1>1, <1>2 DEF NoneLeft
  <2> QED BY <1>1, <2>1, <2>2 DEF ColumnOK
<1>5. Finds(r, c, k)
    BY <1>1, FoundIs DEF GoesTo
<1>6. Id(r, c)' = Id(r, c) /\ rows'[r].obj = rows[r].obj
    BY <1>1, <1>5, SameId DEF Finds
<1>7. OnTheWay(r, c, k)'
  <2>1. c <= rows'[r].built
    <3>1. rows'[r] \in Rows /\ rows'[r].built >= rows[r].built /\ rows[r].built \in Nat
        BY <1>1, <1>5, IdTyped DEF Finds, Grows, RowsInv
    <3> QED BY <1>1, <1>4, <3>1, ColumnsAssumption DEF OnTheWay, Rows, Cols
  <2>2. Below(rows[r].obj, k)
      BY <1>1, <1>2, <1>4, BelowSelf, ParentAbove, BelowTransitive DEF OnTheWay
  <2>3. ASSUME NEW p \in Objects, Below(rows[r].obj, p), Below(p, k)
        PROVE  Client(r, c, p)' /\ (p # k => InSync(p)')
    <3>1. p = k \/ Below(p, o)
        BY <1>1, <1>2, <2>3, AboveChild
    <3>2. p # k => Client(r, c, p) /\ InSync(p)
        BY <1>4, <2>3, <3>1 DEF OnTheWay
    <3> QED BY <1>3, <1>5, <3>2 DEF Client, Finds, InSync
  <2> QED BY <1>2, <1>6, <2>1, <2>2, <2>3 DEF OnTheWay
<1>8. ASSUME NEW n \in 1..Len(rows'), NEW d \in Cols PROVE ColumnOK(n, d)'
  <2>1. n \in 1..Len(rows) /\ ColumnOK(n, d)
      BY <1>5, <1>8 DEF Finds, ColumnsInv
  <2>2. CASE n = r /\ d = c
      BY <1>1, <1>2, <1>3, <1>4, <1>5, <1>7, <2>2, FindsColumn
  <2>3. CASE n # r \/ d # c
      BY <1>1, <1>3, <1>5, <2>1, <2>3, FindsUntouched, UntouchedColumn
  <2> QED BY <2>2, <2>3
<1> PICK frames : frames = ResolveNow(r, c, k) \o <<KidsFrame(r, c, o, j + 1)>>
    OBVIOUS
<1>9. /\ Calls(frames) /\ frames \in Seq(FramesFor(Len(rows))) /\ Len(frames) \in {1, 2}
      /\ frames[Len(frames)] = KidsFrame(r, c, o, j + 1)
      /\ Len(frames) = 2 => frames[1] = VarFrame(r, c, k) /\ InSync(k)
  <2>1. Calls(frames)
      BY DEF GoesTo
  <2>2. frames = ResolveNow(r, c, k) \o <<KidsFrame(r, c, o, j + 1)>>
      OBVIOUS
  <2>3. LET calls == ResolveNow(r, c, k) \o <<KidsFrame(r, c, o, j + 1)>>
        IN /\ calls \in Seq(FramesFor(Len(rows))) /\ Len(calls) \in {1, 2}
           /\ calls[Len(calls)] = KidsFrame(r, c, o, j + 1)
           /\ Len(calls) = 2 => calls[1] = VarFrame(r, c, k) /\ InSync(k)
           /\ Len(calls) = 1 => ~InSync(k)
      BY <1>1, <1>2, ChildCalls
  <2> QED BY ONLY <2>1, <2>2, <2>3
<1>10. ASSUME NEW f, f = VarFrame(r, c, k), InSync(k)
       PROVE  /\ f.op = "var" /\ ComesFrom(f, 1) /\ f.row = r /\ f.col = c /\ FrameOK(f)'
  <2>1. f.op = "var" /\ f.row = r /\ f.col = c /\ f.at = k
      BY <1>10 DEF VarFrame, Frame
  <2>2. HasFound(r, c)' => k = Id(r, c)'
      BY <1>4, <1>5, <1>6 DEF HasFound, Finds
  <2>3. Client(r, c, k)' /\ InSync(k)'
      BY <1>3, <1>5, <1>10 DEF Client, Finds, InSync
  <2>4. FrameOK(f)'
      BY <2>1, <2>2, <2>3 DEF FrameOK
  <2> QED BY <1>1, <2>1, <2>4 DEF ComesFrom
<1>11. ASSUME NEW f, f = KidsFrame(r, c, o, j + 1)
       PROVE  /\ f.op = "kids" /\ ComesFrom(f, 1) /\ f.row = r /\ f.col = c /\ FrameOK(f)'
              /\ NoneLeft(r, c, f.at, f.i)'
  <2>1. f.op = "kids" /\ f.row = r /\ f.col = c /\ f.at = o /\ f.i = j + 1
      BY <1>11 DEF KidsFrame, Frame
  <2>2. ASSUME NEW l \in DOMAIN Kids[o], j + 1 <= l, Below(Kids[o][l], Id(r, c)) PROVE FALSE
    <3>1. l \in Nat /\ Kids[o][l] \in KidSet(o)
        BY <1>1, KidsAre
    <3>2. Kids[o][l] = k
        BY <1>1, <1>2, <2>2, <3>1, OneChild
    <3>3. l = j
        BY <1>1, <1>2, <3>2, TreeAssumption
    <3> QED BY <1>2, <2>2, <3>3
  <2>3. NoneLeft(r, c, o, j + 1)'
      BY <1>6, <2>2 DEF NoneLeft
  <2>4. Client(r, c, o)' /\ InSync(o)'
      BY <1>3, <1>4, <1>5 DEF Client, Finds, InSync
  <2>5. FrameOK(f)'
      BY <1>2, <2>1, <2>3, <2>4 DEF FrameOK
  <2> QED BY <1>1, <2>1, <2>3, <2>5 DEF ComesFrom
<1>12. ASSUME NEW l \in 1..Len(stack), l > 1, NEW f, f = stack[l], OfColumn(f) PROVE FrameOK(f)'
  <2>1. f.row \in 1..Len(rows) /\ f.col \in Cols /\ f.at \in Objects /\ FrameOK(f)
      BY <1>1, <1>12, FramesAreOfColumns DEF ColumnsInv
  <2>2. SearchOK(stack[1], f)
      BY <1>1, <1>12 DEF ColumnsInv
  <2>3. f.row = r /\ f.col = c => f.op = "kids" /\ NoneLeft(r, c, f.at, f.i)
      BY <1>1, <1>12, <2>2 DEF SearchOK
  <2> QED BY <1>1, <1>3, <1>5, <2>1, <2>3, EarlierFrame
<1>13. ASSUME NEW n \in 1..Len(stack'), NEW f, f = stack'[n]
       PROVE  \/ n = 1 /\ Len(frames) = 2 /\ f = VarFrame(r, c, k) /\ InSync(k)
              \/ n = Len(frames) /\ f = KidsFrame(r, c, o, j + 1)
              \/ \E l \in 1..Len(stack) : l > 1 /\ l = n - Len(frames) + 1 /\ f = stack[l]
  <2>1. CASE n \in 1..Len(frames) /\ f = frames[n]
    <3>1. n = Len(frames) \/ (n = 1 /\ Len(frames) = 2)
        BY <1>9, <2>1
    <3> QED BY <1>9, <2>1, <3>1
  <2>2. CASE n > Len(frames) /\ \E l \in 1..Len(stack) :
                  l > 1 /\ l = n - Len(frames) + 1 /\ f = stack[l]
      BY <2>2
  <2> QED BY <1>1, <1>9, <1>13, <2>1, <2>2, CalledOrWaiting
<1>14. ASSUME NEW n \in 1..Len(stack'), OfColumn(stack'[n]) PROVE FrameOK(stack[n])'
  <2> PICK f : f = stack'[n]
      OBVIOUS
  <2>1. CASE n = 1 /\ Len(frames) = 2 /\ f = VarFrame(r, c, k) /\ InSync(k)
    <3>1. FrameOK(f)'
        BY <1>10, <2>1
    <3> QED BY <3>1
  <2>2. CASE n = Len(frames) /\ f = KidsFrame(r, c, o, j + 1)
    <3>1. FrameOK(f)'
        BY <1>11, <2>2
    <3> QED BY <3>1
  <2>3. CASE \E l \in 1..Len(stack) : l > 1 /\ l = n - Len(frames) + 1 /\ f = stack[l]
    <3>1. FrameOK(f)'
        BY <1>12, <1>14, <2>3
    <3> QED BY <3>1
  <2> QED BY <1>13, <2>1, <2>2, <2>3
<1>15. ASSUME NEW n \in 1..Len(stack'), NEW m \in 1..Len(stack'), n < m
       PROVE  SearchOK(stack[n], stack[m])'
  <2> PICK f : f = stack'[n]
      OBVIOUS
  <2> PICK g : g = stack'[m]
      OBVIOUS
  <2>1. CASE ~(OfColumn(f) /\ OfColumn(g))
      BY <2>1 DEF SearchOK
  <2>2. CASE OfColumn(f) /\ OfColumn(g)
    <3>1. PICK h \in 1..Len(stack) : ComesFrom(f, h) /\ (h = 1 \/ h = n - Len(frames) + 1)
      <4>1. CASE f = VarFrame(r, c, k) /\ InSync(k)
          BY <1>1, <1>10, <4>1
      <4>2. CASE f = KidsFrame(r, c, o, j + 1)
          BY <1>1, <1>11, <4>2
      <4>3. CASE \E l \in 1..Len(stack) : l > 1 /\ l = n - Len(frames) + 1 /\ f = stack[l]
          BY <2>2, <4>3 DEF ComesFrom
      <4> QED BY <1>13, <4>1, <4>2, <4>3
    <3>2. CASE m = Len(frames) /\ g = KidsFrame(r, c, o, j + 1)
      <4>1. SearchOK(f, g)'
          BY <1>11, <3>2 DEF SearchOK
      <4> QED BY <4>1
    <3>3. ASSUME NEW l \in 1..Len(stack), l > 1, l = m - Len(frames) + 1, g = stack[l]
          PROVE  SearchOK(stack[n], stack[m])'
      <4>1. h < l
          BY <1>9, <1>15, <3>1, <3>3
      <4>2. ComesFrom(g, l)
          BY <2>2, <3>3 DEF ComesFrom
      <4>3. SearchOK(f, g)'
          BY <1>1, <3>1, <4>1, <4>2, WaitsBelow
      <4> QED BY <4>3
    <3>4. m # 1
        BY <1>15
    <3> QED BY <1>13, <3>2, <3>3, <3>4
  <2> QED BY <2>1, <2>2
<1> QED BY <1>8, <1>14, <1>15 DEF ColumnsInv

\* A variable's loop over the children.
LEMMA VariableKidsColumns ==
    ASSUME TableInv, TableInv', ColumnsInv, Grows, VariableKids PROVE ColumnsInv'
<1> PICK o : o = Head(stack).at
    OBVIOUS
<1> PICK c : c = Head(stack).col
    OBVIOUS
<1> PICK r : r = Head(stack).row
    OBVIOUS
<1> PICK i : i = Head(stack).i
    OBVIOUS
<1>1. /\ stack # <<>> /\ Head(stack).op = "kids" /\ stack[1] = Head(stack) /\ 1 \in 1..Len(stack)
      /\ r \in 1..Len(rows) /\ c \in Cols /\ o \in Objects /\ i \in Nat
      /\ rows \in Seq(Rows) /\ RowsInv /\ RowsInv' /\ Len(rows) \in Nat /\ Len(stack) \in Nat
    BY VariableTop DEF VariableKids, Executing, TableInv, RowsInv
<1>2. syncs' = syncs /\ SyncsGrow
  <2>1. syncs' = syncs
      BY DEF VariableKids, rmc, objs
  <2> QED BY <2>1 DEF TableInv, RestTypes, SyncsGrow
<1>3. Client(r, c, o) /\ InSync(o) /\ (HasFound(r, c) => NoneLeft(r, c, o, i)) /\ OfColumn(stack[1])
    BY <1>1 DEF ColumnsInv, FrameOK, OfColumn
<1>4. ColumnOK(r, c) /\ OnTheWay(r, c, o)
    BY <1>1, <1>3 DEF ColumnsInv, ColumnOK
<1>5. ASSUME NEW j \in DOMAIN Kids[o]
      PROVE  /\ j \in Nat /\ Kids[o][j] \in Objects /\ Kids[o][j] \in KidSet(o)
             /\ KidsFrame(r, c, o, j + 1) \in FramesFor(Len(rows))
             /\ VarFrame(r, c, Kids[o][j]) \in FramesFor(Len(rows))
  <2>1. j \in Nat /\ j + 1 \in Nat /\ Kids[o][j] \in Objects /\ Kids[o][j] \in KidSet(o)
      BY <1>1, KidsAre
  <2> QED BY <1>1, <2>1, PushedFrames, VariableFrame
<1>6. ASSUME NEW frames \in Seq(FramesFor(Len(rows))), Calls(frames), UNCHANGED <<rows, varOn>>,
             Len(frames) \in {0, 1},
             \A f : Len(frames) = 1 /\ f = frames[1] =>
                 f.op = "kids" /\ f.row = r /\ f.col = c /\ FrameOK(f)
      PROVE  ColumnsInv'
  <2>1. \A f : FrameOK(f) => FrameOK(f)'
    <3> SUFFICES ASSUME NEW f, FrameOK(f) PROVE FrameOK(f)'
        OBVIOUS
    <3>1. \A x, k : NoneLeft(f.row, f.col, x, k)' <=> NoneLeft(f.row, f.col, x, k)
        BY <1>6 DEF NoneLeft, Id, ObjectId
    <3> QED BY <1>2, <1>6, <3>1 DEF FrameOK, Client, InSync, HasFound, Id, ObjectId
  <2>2. \A n \in 1..Len(rows'), d \in Cols : ColumnOK(n, d)'
    <3> SUFFICES ASSUME NEW n \in 1..Len(rows), NEW d \in Cols PROVE ColumnOK(n, d)'
        BY <1>6
    <3>1. Untouched(n, d)
        BY <1>1, <1>6, IdTyped DEF Untouched
    <3> QED BY <1>1, <1>2, <3>1, UntouchedColumn DEF ColumnsInv
  <2>3. ASSUME NEW k \in 1..Len(stack'), NEW f, f = stack'[k], OfColumn(f)
        PROVE  /\ FrameOK(f)
               /\ \E h \in 1..Len(stack) : h = k - Len(frames) + 1 /\ ComesFrom(f, h)
    <3>1. CASE k \in 1..Len(frames) /\ stack'[k] = frames[k]
      <4>1. k = 1 /\ Len(frames) = 1 /\ f = frames[1]
          BY <1>6, <2>3, <3>1
      <4>2. f.row = r /\ f.col = c /\ FrameOK(f)
          BY <1>6, <4>1
      <4>3. 1 = k - Len(frames) + 1 /\ ComesFrom(f, 1)
          BY <1>1, <1>3, <4>1, <4>2 DEF ComesFrom
      <4> QED BY <1>1, <4>2, <4>3
    <3>2. CASE k > Len(frames) /\ \E j \in 1..Len(stack) :
                  j > 1 /\ j = k - Len(frames) + 1 /\ stack'[k] = stack[j]
        BY <2>3, <3>2 DEF ColumnsInv, ComesFrom
    <3> QED BY <1>1, <1>6, <3>1, <3>2, CalledOrWaiting
  <2>4. ASSUME NEW k \in 1..Len(stack'), OfColumn(stack'[k]) PROVE FrameOK(stack[k])'
    <3> PICK f : f = stack'[k]
        OBVIOUS
    <3>1. FrameOK(f)'
        BY <2>1, <2>3, <2>4
    <3> QED BY <3>1
  <2>5. ASSUME NEW l \in 1..Len(stack'), NEW k \in 1..Len(stack'), l < k
        PROVE  SearchOK(stack[l], stack[k])'
    <3> PICK f : f = stack'[l]
        OBVIOUS
    <3> PICK g : g = stack'[k]
        OBVIOUS
    <3>1. CASE ~(OfColumn(f) /\ OfColumn(g))
        BY <3>1 DEF SearchOK
    <3>2. CASE OfColumn(f) /\ OfColumn(g)
      <4>1. PICK h \in 1..Len(stack) : h = l - Len(frames) + 1 /\ ComesFrom(f, h)
          BY <2>3, <3>2
      <4>2. PICK j \in 1..Len(stack) : j = k - Len(frames) + 1 /\ ComesFrom(g, j)
          BY <2>3, <3>2
      <4>3. h < j
          BY <1>6, <2>5, <4>1, <4>2
      <4>4. SearchOK(f, g)'
          BY <1>1, <4>1, <4>2, <4>3, WaitsBelow
      <4> QED BY <4>4
    <3> QED BY <3>1, <3>2
  <2> QED BY <2>2, <2>4, <2>5 DEF ColumnsInv
<1>7. ASSUME ReturnFrame, UNCHANGED <<rows, varOn>> PROVE ColumnsInv'
  <2> PICK frames : frames = <<>>
      OBVIOUS
  <2>1. frames \in Seq(FramesFor(Len(rows))) /\ Len(frames) = 0 /\ Calls(frames)
      BY <1>7 DEF ReturnFrame
  <2>2. \A f : ~(Len(frames) = 1 /\ f = frames[1])
      BY <2>1
  <2> QED BY <1>6, <1>7, <2>1, <2>2
<1>8. ASSUME NEW j \in DOMAIN Kids[o], i <= j, Calls(<<KidsFrame(r, c, o, j + 1)>>),
             UNCHANGED <<rows, varOn>>
      PROVE  ColumnsInv'
  <2> PICK frame : frame = KidsFrame(r, c, o, j + 1)
      OBVIOUS
  <2>1. /\ frame.op = "kids" /\ frame.row = r /\ frame.col = c /\ frame.at = o /\ frame.i = j + 1
        /\ frame \in FramesFor(Len(rows))
      BY <1>5 DEF KidsFrame, Frame
  <2>2. NoneLeft(r, c, o, i) => NoneLeft(r, c, o, j + 1)
    <3>1. \A k \in DOMAIN Kids[o] : j + 1 <= k => i <= k
        BY <1>1, <1>5, <1>8, KidsAre
    <3> QED BY <3>1 DEF NoneLeft
  <2>3. FrameOK(frame)
      BY <1>3, <1>5, <2>1, <2>2 DEF FrameOK
  <2>4. <<frame>> \in Seq(FramesFor(Len(rows))) /\ Len(<<frame>>) = 1 /\ <<frame>>[1] = frame
      BY <2>1
  <2>5. Calls(<<frame>>)
      BY <1>8
  <2> QED BY <1>6, <1>8, <2>1, <2>3, <2>4, <2>5
<1>9. \A j \in DOMAIN Kids[o] : HasChild(o, i, j) => i <= j
    BY DEF HasChild, Takes
<1>10. ASSUME NEW j \in DOMAIN Kids[o], HasChild(o, i, j), Below(Kids[o][j], Id(r, c)),
              rows' = Found(r, c, Kids[o][j]), varOn' = varOn \union {<<r, c, Kids[o][j]>>},
              Calls(ResolveNow(r, c, Kids[o][j]) \o <<KidsFrame(r, c, o, j + 1)>>)
       PROVE  ColumnsInv'
  <2>1. GoesTo(r, c, o, i, j)
      BY <1>1, <1>2, <1>9, <1>10 DEF GoesTo
  <2> QED BY <2>1, GoesToColumns
<1> QED BY <1>7, <1>8, <1>9, <1>10 DEF VariableKids, Id

----------------------------------------------------------------------------
(* An object syncs.                                                          *)

\* A list of the elements of a finite set has each of them once.
LEMMA OrderOnce ==
    ASSUME NEW S, IsFiniteSet(S), NEW order \in SetToSeqs(S)
    PROVE  /\ order \in Seq(S)
           /\ \A i, j \in DOMAIN order : order[i] = order[j] => i = j
           /\ \A v \in S : \E i \in DOMAIN order : order[i] = v
<1> PICK n : n = Cardinality(S)
    OBVIOUS
<1>1. n \in Nat /\ order \in [1..n -> S] /\ \A i, j \in 1..n : i # j => order[i] # order[j]
    BY FS_CardinalityType DEF SetToSeqs
<1>2. order \in Injection(1..n, S)
    BY <1>1 DEF Injection, IsInjective
<1>3. IsFiniteSet(1..n) /\ Cardinality(1..n) = n
    BY <1>1, FS_Interval
<1>4. order \in Surjection(1..n, S)
    BY <1>2, <1>3, FS_Injection
<1> QED BY <1>1, <1>4 DEF Surjection

\* The variables that are its clients are called, each once.
LEMMA SyncCalls ==
    ASSUME TableInv, NEW o \in Objects, ObjectSync(o)
    PROVE  \E order :
              /\ \A i, j \in DOMAIN order : order[i] = order[j] => i = j
              /\ \A k \in 1..Len(stack') : OfColumn(stack'[k]) =>
                    /\ k \in DOMAIN order /\ order[k] \in varOn /\ order[k][3] = o
                    /\ stack'[k] = VarFrame(order[k][1], order[k][2], o)
              /\ \A v \in varOn : v[3] = o =>
                    \E k \in 1..Len(stack') : stack'[k] = VarFrame(v[1], v[2], o)
<1> DEFINE clients == {v \in varOn : v[3] = o}
<1> PICK order \in SetToSeqs(clients) :
        stack' = [i \in DOMAIN order |-> VarFrame(order[i][1], order[i][2], o)]
                 \o When(o \in tableOn, WalkFrame(o, 1))
    BY DEF ObjectSync
<1>1. IsFiniteSet(clients) /\ \A v : v \in clients <=> v \in varOn /\ v[3] = o
    BY FS_Subset DEF TableInv, RestTypes
<1> HIDE DEF clients
<1>2. /\ order \in Seq(clients)
      /\ \A i, j \in DOMAIN order : order[i] = order[j] => i = j
      /\ \A v \in clients : \E i \in DOMAIN order : order[i] = v
    BY <1>1, OrderOnce
<1> PICK walk : walk = When(o \in tableOn, WalkFrame(o, 1))
    OBVIOUS
<1> PICK calls : calls = [i \in DOMAIN order |-> VarFrame(order[i][1], order[i][2], o)]
    OBVIOUS
<1>3. /\ DOMAIN order = 1..Len(order) /\ Len(order) \in Nat
      /\ walk \in Seq({WalkFrame(o, 1)}) /\ stack' = calls \o walk
  <2>1. walk \in Seq({WalkFrame(o, 1)})
      BY WhenTyped
  <2>2. stack' = calls \o walk
      OBVIOUS
  <2> QED BY <1>2, <2>1, <2>2
<1> DEFINE T == {WalkFrame(o, 1)} \union {VarFrame(order[i][1], order[i][2], o) : i \in DOMAIN order}
<1>4. calls \in Seq(T) /\ Len(calls) = Len(order)
  <2>1. calls \in [1..Len(order) -> T]
      BY <1>3
  <2> HIDE DEF T
  <2> QED BY <1>3, <2>1
<1>5. walk \in Seq(T)
    BY <1>3
<1>6. /\ Len(stack') = Len(order) + Len(walk) /\ Len(walk) \in Nat
      /\ \A k \in 1..Len(stack') :
            stack'[k] = IF k <= Len(order) THEN calls[k] ELSE walk[k - Len(order)]
  <2> HIDE DEF T
  <2> QED BY <1>3, <1>4, <1>5
<1>7. ASSUME NEW k \in DOMAIN order
      PROVE  k \in 1..Len(stack') /\ stack'[k] = VarFrame(order[k][1], order[k][2], o)
    BY <1>3, <1>6
<1>8. ASSUME NEW k \in 1..Len(stack'), OfColumn(stack'[k]) PROVE k \in DOMAIN order
  <2>1. CASE k <= Len(order)
      BY <1>3, <2>1
  <2>2. CASE ~(k <= Len(order))
    <3>1. k - Len(order) \in 1..Len(walk) /\ stack'[k] = walk[k - Len(order)]
        BY <1>3, <1>6, <2>2
    <3>2. stack'[k] = WalkFrame(o, 1)
        BY <1>3, <3>1
    <3> QED BY <1>8, <3>2 DEF OfColumn, WalkFrame, Frame
  <2> QED BY <2>1, <2>2
<1>9. ASSUME NEW k \in 1..Len(stack'), OfColumn(stack'[k])
      PROVE  /\ k \in DOMAIN order /\ order[k] \in varOn /\ order[k][3] = o
             /\ stack'[k] = VarFrame(order[k][1], order[k][2], o)
  <2>1. k \in DOMAIN order
      BY <1>8, <1>9
  <2>2. order[k] \in clients
      BY ONLY <1>2, <2>1
  <2> QED BY ONLY <1>1, <1>7, <2>1, <2>2
<1>10. ASSUME NEW v \in varOn, v[3] = o
       PROVE  \E k \in 1..Len(stack') : stack'[k] = VarFrame(v[1], v[2], o)
  <2>1. PICK k \in DOMAIN order : order[k] = v
      BY <1>1, <1>2, <1>10
  <2>2. k \in 1..Len(stack') /\ stack'[k] = VarFrame(order[k][1], order[k][2], o)
      BY <1>7
  <2> QED BY ONLY <2>1, <2>2
<1> QED BY <1>2, <1>9, <1>10

\* A variable that is called again where it has been was in sync there before.
LEMMA ObjectSyncColumns ==
    ASSUME TableInv, TableInv', ColumnsInv, NEW o \in Objects, ObjectSync(o) PROVE ColumnsInv'
<1>1. /\ rows' = rows /\ varOn' = varOn /\ rows \in Seq(Rows) /\ RowsInv
      /\ varOn \subseteq (1..Len(rows)) \X Cols \X Objects
    BY DEF ObjectSync, tableVars, TableInv, RowsInv
<1>2. SyncsGrow /\ syncs'[o] = syncs[o] + 1 /\ syncs[o] \in Nat
    BY DEF ObjectSync, TableInv, RestTypes, SyncsGrow
<1>3. ASSUME NEW n \in 1..Len(rows), NEW c \in Cols PROVE ColumnOK(n, c)'
  <2>1. Untouched(n, c)
      BY <1>1, <1>3, IdTyped DEF Untouched
  <2> QED BY <1>1, <1>2, <2>1, UntouchedColumn DEF ColumnsInv
<1> PICK order :
        /\ \A i, j \in DOMAIN order : order[i] = order[j] => i = j
        /\ \A k \in 1..Len(stack') : OfColumn(stack'[k]) =>
              /\ k \in DOMAIN order /\ order[k] \in varOn /\ order[k][3] = o
              /\ stack'[k] = VarFrame(order[k][1], order[k][2], o)
    BY SyncCalls
<1>4. ASSUME NEW k \in 1..Len(stack'), NEW f, f = stack'[k], OfColumn(f)
      PROVE  /\ k \in DOMAIN order /\ order[k] = <<f.row, f.col, o>> /\ order[k] \in varOn
             /\ f.row \in 1..Len(rows) /\ f.col \in Cols /\ f.at = o /\ f.op = "var"
  <2>1. /\ k \in DOMAIN order /\ order[k] \in varOn /\ order[k][3] = o
        /\ f = VarFrame(order[k][1], order[k][2], o)
      BY <1>4
  <2>2. f.row = order[k][1] /\ f.col = order[k][2] /\ f.at = o /\ f.op = "var"
      BY <2>1 DEF VarFrame, Frame
  <2>3. order[k] \in (1..Len(rows)) \X Cols \X Objects
      BY <1>1, <2>1
  <2> QED BY <2>1, <2>2, <2>3
<1>5. ASSUME NEW k \in 1..Len(stack'), OfColumn(stack'[k]) PROVE FrameOK(stack[k])'
  <2> PICK f : f = stack'[k]
      OBVIOUS
  <2> PICK n : n = f.row
      OBVIOUS
  <2> PICK c : c = f.col
      OBVIOUS
  <2>1. n \in 1..Len(rows) /\ c \in Cols /\ f.at = o /\ f.op = "var" /\ Client(n, c, o)
      BY <1>4, <1>5 DEF Client
  <2>2. ColumnOK(n, c) /\ OnTheWay(n, c, o)
      BY <2>1 DEF ColumnsInv, ColumnOK
  <2>3. ASSUME HasFound(n, c), o # Id(n, c) PROVE syncs'[o] > 1
    <3>1. Id(n, c) \in Objects /\ OnTheWay(n, c, Id(n, c))
        BY <1>1, <2>1, <2>2, <2>3, IdTyped DEF ColumnOK
    <3>2. Below(rows[n].obj, o) /\ Below(o, Id(n, c))
        BY <2>2, <3>1 DEF OnTheWay
    <3>3. InSync(o)
        BY <2>3, <3>1, <3>2 DEF OnTheWay
    <3> QED BY <1>2, <3>3 DEF InSync
  <2>4. Client(n, c, o)' /\ InSync(o)' /\ (HasFound(n, c)' <=> HasFound(n, c)) /\ Id(n, c)' = Id(n, c)
      BY <1>1, <1>2, <2>1 DEF Client, InSync, HasFound, Id, ObjectId
  <2>5. FrameOK(f)'
      BY <2>1, <2>3, <2>4 DEF FrameOK
  <2> QED BY <2>5
<1>6. ASSUME NEW i \in 1..Len(stack'), NEW j \in 1..Len(stack'), i < j
      PROVE  SearchOK(stack[i], stack[j])'
  <2> PICK f : f = stack'[i]
      OBVIOUS
  <2> PICK g : g = stack'[j]
      OBVIOUS
  <2>1. ~(OfColumn(f) /\ OfColumn(g) /\ f.row = g.row /\ f.col = g.col)
    <3> SUFFICES ASSUME OfColumn(f) /\ OfColumn(g) /\ f.row = g.row /\ f.col = g.col PROVE FALSE
        OBVIOUS
    <3>1. i \in DOMAIN order /\ j \in DOMAIN order /\ order[i] = order[j]
        BY <1>4
    <3> QED BY <1>6, <3>1
  <2>2. SearchOK(f, g)'
      BY <2>1 DEF SearchOK
  <2> QED BY <2>2
<1> QED BY <1>1, <1>3, <1>5, <1>6 DEF ColumnsInv

----------------------------------------------------------------------------
(* Every step.                                                               *)

LEMMA NextColumns == ASSUME TableInv, ColumnsInv, [Next]_vars PROVE TableInv' /\ ColumnsInv'
<1>1. TableInv' /\ Grows /\ (SettledStep \/ Resolves)
    BY NextTable
<1>2. CASE SettledStep
    BY <1>1, <1>2, SettledColumns
<1>3. CASE Resolves
    BY <1>1, <1>3, RowColumnColumns, VariableSyncColumns, VariableKidsColumns,
       ObjectSyncColumns DEF Resolves
<1> QED BY <1>1, <1>2, <1>3

\* The columns' invariant holds throughout, for every tree of objects.
THEOREM ColumnsInductive == Spec => [](TableInv /\ ColumnsInv)
<1>1. Init => TableInv /\ ColumnsInv
    BY InitTable, InitColumns
<1>2. TableInv /\ ColumnsInv /\ [Next]_vars => (TableInv /\ ColumnsInv)'
    BY NextColumns
<1> QED BY <1>1, <1>2, PTL DEF Spec

\* A column reads the variable of its own object, or of one above it that synced
\* again (snmp_variable.cc:336), in every reachable state.
THEOREM ColumnsBound == Spec => []BoundToTarget
<1>1. TableInv /\ ColumnsInv => BoundToTarget
  <2> SUFFICES ASSUME TableInv, ColumnsInv PROVE BoundToTarget
      OBVIOUS
  <2>1. \A n \in 1..Len(rows), c \in Cols : /\ rows[n].object[c] \in {NoObject, Id(n, c)}
                                            /\ rows[n].variable[c] \in Objects \union {NoObject}
      BY IdTyped DEF TableInv, RowsInv, Bound, Id
  <2>2. \A n \in 1..Len(rows), c \in Cols : rows[n].variable[c] \in Objects \ {Id(n, c)} =>
            Below(rows[n].variable[c], Id(n, c)) /\ syncs[rows[n].variable[c]] > 1
      BY DEF ColumnsInv, ColumnOK
  <2> QED BY <2>1, <2>2 DEF BoundToTarget, Id
<1> QED BY <1>1, ColumnsInductive, PTL

----------------------------------------------------------------------------
(* A column finds its object once the way to it is there.  The argument:     *)
(* where a variable is a client of an object that is in sync, and has not     *)
(* found its own, it is a client of the next child on the way too, or a       *)
(* handler is still going to take that child (SearchedFrom).                  *)

\* Handlers that will look the variable up, or take the i-th child of x.
Reads(f, n, c) == f.op = "var" /\ f.row = n /\ f.col = c /\ f.at = Id(n, c)
Looks(f, n, c, x, i) ==
    f.row = n /\ f.col = c /\ f.at = x /\ (f.op = "var" \/ (f.op = "kids" /\ f.i <= i))

HasRead(n, c) ==
    c \notin Attributes /\ HasFound(n, c) /\ InSync(Id(n, c)) /\ <<Id(n, c), c>> \in Variables
       => rows[n].variable[c] # NoObject \/ \E j \in 1..Len(stack) : Reads(stack[j], n, c)
SearchedFrom(n, c, x) ==
    Client(n, c, x) /\ InSync(x) /\ ~HasFound(n, c) =>
       \A i \in DOMAIN Kids[x] : Below(Kids[x][i], Id(n, c)) /\ Reachable(Kids[x][i]) =>
          Client(n, c, Kids[x][i]) \/ \E j \in 1..Len(stack) : Looks(stack[j], n, c, x, i)
Resolving(n, c) ==
    /\ c <= rows[n].built => Client(n, c, rows[n].obj)
    /\ HasRead(n, c)
    /\ \A x \in Objects : SearchedFrom(n, c, x)

ResolveInv == \A n \in 1..Len(rows), c \in Cols : Resolving(n, c)

\* Only three events change what can be reached.
LEMMA LibrarySteps ==
    ASSUME [Next]_vars
    PROVE  \/ UNCHANGED <<bad, hidden, missed>>
           \/ \E o \in Objects : ObjectSync(o) \/ ObjectError(o) \/ ChildAdded(o)
<1>1. CASE UNCHANGED vars
    BY <1>1 DEF vars, rmc, objs
<1>2. CASE AddServerPool
    BY <1>2 DEF AddServerPool, rmc, objs
<1>3. CASE MainStep
    BY <1>3 DEF MainStep, TableServerAdded, TableServerSync, TableWalk, RowColumn, VariableSync,
       VariableKids, rmc, objs
<1>4. CASE RmcEvent
  <2>1. ASSUME NEW s \in Servers,
               \/ ServerAdded(s) \/ ServerRemoved(s) \/ ServerError(s) \/ ServerSync(s)
               \/ \E r \in Objects : RootAdded(s, r) \/ RootRemoved(s, r)
        PROVE  UNCHANGED <<bad, hidden, missed>>
      BY <2>1 DEF ServerAdded, ServerRemoved, ServerError, ServerSync, RootAdded, RootRemoved,
         rmc, objs
  <2> QED BY <1>4, <2>1 DEF RmcEvent
<1> QED BY <1>1, <1>2, <1>3, <1>4 DEF Next

\* A child becomes reachable, under a parent that is in sync, only when that
\* syncs again: a child that is added then is missed.
LEMMA ReachableBack ==
    ASSUME [Next]_vars, NEW x \in Objects, NEW k \in KidSet(x), InSync(x), Reachable(k)'
    PROVE  Reachable(k) \/ ObjectSync(x)
<1>1. k \in Objects
    BY OneParent
<1>2. k \notin hidden' /\ k \notin missed'
      /\ \A p \in Objects : \A i \in DOMAIN Kids[p] :
            Kids[p][i] = k => \A j \in 1..i : Kids[p][j] \notin bad'
    BY DEF Reachable
<1>3. CASE UNCHANGED <<bad, hidden, missed>>
    BY <1>2, <1>3 DEF Reachable
<1>4. ASSUME NEW o \in Objects, ObjectSync(o) PROVE Reachable(k) \/ ObjectSync(x)
  <2>1. bad' = bad /\ hidden' = hidden /\ missed' = missed \ KidSet(o)
      BY <1>4 DEF ObjectSync
  <2>2. o # x => k \notin KidSet(o)
      BY OneParent
  <2> QED BY <1>2, <1>4, <2>1, <2>2 DEF Reachable
<1>5. ASSUME NEW o \in Objects, ObjectError(o) PROVE Reachable(k) \/ ObjectSync(x)
  <2>1. bad' = bad \union {o} /\ hidden' = hidden /\ missed' = missed
      BY <1>5 DEF ObjectError
  <2> QED BY <1>2, <2>1 DEF Reachable
<1>6. ASSUME NEW o \in Objects, ChildAdded(o) PROVE Reachable(k) \/ ObjectSync(x)
  <2>1. /\ bad' = bad /\ hidden' = hidden \ {o}
        /\ missed' = IF \E p \in Objects : o \in KidSet(p) /\ InSync(p)
                     THEN missed \union {o} ELSE missed
      BY <1>6 DEF ChildAdded
  <2>2. k # o
      BY <1>2, <2>1
  <2> QED BY <1>2, <2>1, <2>2 DEF Reachable
<1> QED BY <1>3, <1>4, <1>5, <1>6, LibrarySteps

\* Handlers do not make a child reachable.
LEMMA ReachableKept ==
    ASSUME TableInv, [Next]_vars, syncs' = syncs
    PROVE  \A x \in Objects : \A k \in KidSet(x) : InSync(x) /\ Reachable(k)' => Reachable(k)
<1> SUFFICES ASSUME NEW x \in Objects, NEW k \in KidSet(x), InSync(x), Reachable(k)'
             PROVE  Reachable(k)
    OBVIOUS
<1>1. ~ObjectSync(x)
  <2>1. syncs[x] \in Nat /\ syncs[x] + 1 # syncs[x]
      BY DEF TableInv, RestTypes
  <2>2. ObjectSync(x) => syncs'[x] = syncs[x] + 1
      BY DEF ObjectSync, TableInv, RestTypes
  <2> QED BY <2>1, <2>2
<1> QED BY <1>1, ReachableBack

\* A column whose handlers a step leaves alone.
FramesStay(n, c) ==
    \A j \in 1..Len(stack) : OfColumn(stack[j]) /\ stack[j].row = n /\ stack[j].col = c
       => \E k \in 1..Len(stack') : stack'[k] = stack[j]

LEMMA UntouchedResolving ==
    ASSUME TableInv, [Next]_vars, syncs' = syncs, NEW n, NEW c, Untouched(n, c),
           FramesStay(n, c), c <= rows'[n].built => c <= rows[n].built, Resolving(n, c)
    PROVE  Resolving(n, c)'
<1>1. /\ Id(n, c)' = Id(n, c) /\ (HasFound(n, c)' <=> HasFound(n, c))
      /\ rows'[n].obj = rows[n].obj /\ rows[n].obj \in Objects
      /\ rows'[n].variable[c] = rows[n].variable[c] /\ n \in 1..Len(rows) /\ c \in Cols
    BY SameId, IdTyped DEF Untouched, HasFound, TableInv, RowsInv
<1>2. \A x : InSync(x)' <=> InSync(x)
    BY DEF InSync
<1>3. \A x \in Objects : Client(n, c, x)' <=> Client(n, c, x)
    BY DEF Untouched, Client
<1>4. \A x \in Objects : \A k \in KidSet(x) : InSync(x) /\ Reachable(k)' => Reachable(k)
    BY ReachableKept
<1>5. HasRead(n, c)'
  <2> SUFFICES ASSUME c \notin Attributes, HasFound(n, c), InSync(Id(n, c)), <<Id(n, c), c>> \in Variables,
                      rows[n].variable[c] = NoObject
               PROVE  (\E j \in 1..Len(stack) : Reads(stack[j], n, c))'
      BY <1>1, <1>2 DEF HasRead, InSync
  <2>1. PICK j \in 1..Len(stack) : Reads(stack[j], n, c)
      BY DEF Resolving, HasRead
  <2> PICK f : f = stack[j]
      OBVIOUS
  <2>2. \E k \in 1..Len(stack') : stack'[k] = f
      BY <2>1 DEF FramesStay, Reads, OfColumn
  <2>3. Reads(f, n, c)'
      BY <1>1, <2>1 DEF Reads
  <2> QED BY <2>2, <2>3
<1>6. ASSUME NEW x \in Objects PROVE SearchedFrom(n, c, x)'
  <2> SUFFICES ASSUME Client(n, c, x), InSync(x), ~HasFound(n, c),
                      NEW i \in DOMAIN Kids[x], Below(Kids[x][i], Id(n, c)), Reachable(Kids[x][i])'
               PROVE  (Client(n, c, Kids[x][i]) \/ \E j \in 1..Len(stack) : Looks(stack[j], n, c, x, i))'
      BY <1>1, <1>2, <1>3 DEF SearchedFrom
  <2>1. Kids[x][i] \in KidSet(x) /\ Kids[x][i] \in Objects
      BY KidsAre
  <2>2. Reachable(Kids[x][i])
      BY <1>4, <2>1
  <2>3. CASE Client(n, c, Kids[x][i])
      BY <1>3, <2>1, <2>3
  <2>4. CASE \E j \in 1..Len(stack) : Looks(stack[j], n, c, x, i)
    <3>1. PICK j \in 1..Len(stack) : Looks(stack[j], n, c, x, i)
        BY <2>4
    <3> PICK f : f = stack[j]
        OBVIOUS
    <3>2. \E k \in 1..Len(stack') : stack'[k] = f
        BY <3>1 DEF FramesStay, Looks, OfColumn
    <3>3. Looks(f, n, c, x, i)'
        BY <3>1 DEF Looks
    <3> QED BY <3>2, <3>3
  <2> QED BY <2>2, <2>3, <2>4 DEF Resolving, SearchedFrom
<1>7. (c <= rows[n].built => Client(n, c, rows[n].obj))'
    BY <1>1, <1>3 DEF Resolving
<1> QED BY <1>5, <1>6, <1>7 DEF Resolving

\* No row yet.
LEMMA InitResolve == Init => ResolveInv
<1> SUFFICES ASSUME Init PROVE ResolveInv
    OBVIOUS
<1>1. Len(rows) = 0
    BY DEF Init
<1> QED BY <1>1 DEF ResolveInv

\* Steps that call no variable.
LEMMA SettledResolve ==
    ASSUME TableInv, TableInv', [Next]_vars, ResolveInv, Grows, SettledStep PROVE ResolveInv'
<1> USE DEF SettledStep
<1>1. /\ rows \in Seq(Rows) /\ rows' \in Seq(Rows) /\ Len(rows) \in Nat /\ Len(rows') \in Nat
      /\ Len(rows') >= Len(rows) /\ RowsInv
    BY DEF TableInv, RowsInv, Grows
<1>2. ASSUME NEW n \in 1..Len(rows), NEW c \in Cols PROVE Resolving(n, c)'
  <2>1. n \in 1..Len(rows') /\ rows'[n] = rows[n]
      BY <1>1 DEF Settled
  <2>2. rows[n].built \in Nat
      BY <1>1, IdTyped
  <2>3. Untouched(n, c)
      BY <2>1, <2>2 DEF Untouched, Settled
  <2>4. FramesStay(n, c)
      BY DEF Settled, Stays, FramesStay, OfColumn
  <2> QED BY <1>1, <2>1, <2>3, <2>4, UntouchedResolving DEF ResolveInv
<1>3. ASSUME NEW n \in 1..Len(rows'), ~(n \in 1..Len(rows)), NEW c \in Cols PROVE Resolving(n, c)'
  <2>1. n > Len(rows)
      BY <1>1, <1>3
  <2>2. rows'[n].object[c] = NoObject /\ rows'[n].built = 0 /\ varOn' = varOn
      BY <2>1 DEF Settled
  <2>3. \A x : <<n, c, x>> \notin varOn'
      BY <1>1, <1>3, <2>2 DEF RowsInv
  <2>4. ~(c <= 0)
      BY ColumnsAssumption DEF Cols
  <2> QED BY <2>2, <2>3, <2>4 DEF Resolving, HasRead, HasFound, SearchedFrom, Client
<1> QED BY <1>2, <1>3 DEF ResolveInv

\* An object syncs: the variables that are its clients will look.
LEMMA ObjectSyncResolve ==
    ASSUME TableInv, [Next]_vars, ColumnsInv, ResolveInv, NEW o \in Objects, ObjectSync(o)
    PROVE  ResolveInv'
<1>1. /\ rows' = rows /\ varOn' = varOn /\ Len(stack) = 0 /\ rows \in Seq(Rows)
      /\ varOn \subseteq (1..Len(rows)) \X Cols \X Objects
    BY DEF ObjectSync, Idle, tableVars, TableInv, RowsInv
<1>2. syncs'[o] = syncs[o] + 1 /\ \A x \in Objects : syncs[x] \in Nat /\ (x # o => syncs'[x] = syncs[x])
    BY DEF ObjectSync, TableInv, RestTypes
<1>3. \A v \in varOn : v[3] = o => \E k \in 1..Len(stack') : stack'[k] = VarFrame(v[1], v[2], o)
    BY SyncCalls
<1>4. ASSUME NEW n, NEW c, Client(n, c, o)
      PROVE  \E k \in 1..Len(stack') : stack'[k] = VarFrame(n, c, o)
  <2>1. <<n, c, o>> \in varOn
      BY <1>4 DEF Client
  <2> PICK v : v = <<n, c, o>>
      OBVIOUS
  <2>2. v[1] = n /\ v[2] = c /\ v[3] = o
      OBVIOUS
  <2> QED BY <1>3, <2>1, <2>2
<1> SUFFICES ASSUME NEW n \in 1..Len(rows), NEW c \in Cols PROVE Resolving(n, c)'
    BY <1>1 DEF ResolveInv
<1>5. /\ Id(n, c)' = Id(n, c) /\ (HasFound(n, c)' <=> HasFound(n, c)) /\ Resolving(n, c)
      /\ ColumnOK(n, c) /\ Id(n, c) \in Objects \union {NoObject}
    BY <1>1, IdTyped DEF Id, ObjectId, HasFound, ResolveInv, ColumnsInv
<1>6. \A x : Client(n, c, x)' <=> Client(n, c, x)
    BY <1>1 DEF Client
<1>7. HasRead(n, c)'
  <2> PICK t : t = Id(n, c)
      OBVIOUS
  <2> SUFFICES ASSUME c \notin Attributes, HasFound(n, c), InSync(t)', <<t, c>> \in Variables,
                      rows[n].variable[c] = NoObject
               PROVE  (\E j \in 1..Len(stack) : Reads(stack[j], n, c))'
      BY <1>1, <1>5 DEF HasRead, InSync
  <2>1. t \in Objects /\ Client(n, c, t)
      BY <1>5 DEF ColumnOK
  <2>2. CASE t = o
    <3> PICK f : f = VarFrame(n, c, o)
        OBVIOUS
    <3>1. f.op = "var" /\ f.row = n /\ f.col = c /\ f.at = o
        BY DEF VarFrame, Frame
    <3>2. Reads(f, n, c)'
        BY <1>5, <2>2, <3>1 DEF Reads
    <3> QED BY <1>4, <2>1, <2>2, <3>2
  <2>3. CASE t # o
    <3>1. InSync(t)
        BY <1>2, <2>1, <2>3 DEF InSync
    <3> QED BY <1>1, <1>5, <3>1 DEF Resolving, HasRead
  <2> QED BY <2>2, <2>3
<1>8. ASSUME NEW x \in Objects PROVE SearchedFrom(n, c, x)'
  <2> SUFFICES ASSUME Client(n, c, x), InSync(x)', ~HasFound(n, c),
                      NEW i \in DOMAIN Kids[x], Below(Kids[x][i], Id(n, c)), Reachable(Kids[x][i])'
               PROVE  (Client(n, c, Kids[x][i]) \/ \E j \in 1..Len(stack) : Looks(stack[j], n, c, x, i))'
      BY <1>5, <1>6 DEF SearchedFrom
  <2>1. CASE x = o
    <3> PICK f : f = VarFrame(n, c, o)
        OBVIOUS
    <3>1. Looks(f, n, c, x, i)'
        BY <2>1 DEF Looks, VarFrame, Frame
    <3> QED BY <1>4, <2>1, <3>1
  <2>2. CASE x # o
    <3>1. InSync(x)
        BY <1>2, <2>2 DEF InSync
    <3>2. Kids[x][i] \in KidSet(x)
        BY KidsAre
    <3>3. ~ObjectSync(x)
      <4>1. ObjectSync(x) => syncs'[x] = syncs[x] + 1
          BY DEF ObjectSync, TableInv, RestTypes
      <4> QED BY <1>2, <2>2, <4>1
    <3>4. Reachable(Kids[x][i])
        BY <3>1, <3>2, <3>3, ReachableBack
    <3> QED BY <1>1, <1>5, <1>6, <3>1, <3>4 DEF Resolving, SearchedFrom
  <2> QED BY <2>1, <2>2
<1>9. (c <= rows[n].built => Client(n, c, rows[n].obj))'
    BY <1>1, <1>5, <1>6 DEF Resolving
<1> QED BY <1>7, <1>8, <1>9 DEF Resolving

\* What addRow() does for a column.
AddsColumn(r, c, o) ==
    /\ r \in 1..Len(rows) /\ c \in Cols /\ o \in Objects /\ rows[r].obj = o
    /\ rows[r].built + 1 = c /\ rows'[r].built = c
    /\ Finds(r, c, o)
    /\ \A n \in 1..Len(rows) : n # r => rows'[n].built = rows[n].built
    /\ InSync(o) => \E k \in 1..Len(stack') : stack'[k] = VarFrame(r, c, o)

LEMMA RowColumnAdds ==
    ASSUME TableInv, RowColumn, NEW r, NEW c, NEW o, r = Len(rows), c = Head(stack).col,
           o = Head(stack).at, ~(c > Columns)
    PROVE  AddsColumn(r, c, o)
<1>1. Executing("row") /\ stack # <<>> /\ Head(stack).op = "row" /\ Head(stack) \in RowFrames /\ RowsInv
    BY TopFrame DEF RowColumn, Executing, TableInv
<1>2. o \in Objects /\ c \in 1..(Columns + 1) /\ Columns \in Nat
    BY <1>1, ColumnsAssumption DEF RowFrames
<1>3. c \in Cols
    BY <1>2 DEF Cols
<1>4. /\ rows \in Seq(Rows) /\ rows # <<>> /\ rows[r].built + 1 = c /\ rows[r].obj = o
      /\ stack \in Seq(FramesFor(r)) /\ Len(stack) \in Nat /\ 1 \in 1..Len(stack)
      /\ stack[1] = Head(stack) /\ r \in Nat /\ r \in 1..Len(rows) /\ r \in Nat \ {0}
    BY <1>1 DEF RowsInv, Nested
<1>5. /\ rows' = [Found(r, c, o) EXCEPT ![r].built = c]
      /\ varOn' = varOn \union {<<r, c, o>>}
      /\ Calls(ResolveNow(r, c, o) \o <<RowFrame(o, c + 1)>>)
    BY DEF RowColumn
<1>6. rows'[r].built = c /\ \A n \in 1..Len(rows) : n # r => rows'[n].built = rows[n].built
    BY <1>3, <1>4, <1>5, ColumnRows
<1>7. Finds(r, c, o)
    BY <1>1, <1>3, <1>4, <1>5, FoundIs
<1> PICK frames : frames = ResolveNow(r, c, o) \o <<RowFrame(o, c + 1)>>
    OBVIOUS
<1>8. /\ frames \in Seq(FramesFor(r)) /\ Calls(frames) /\ Len(frames) \in {1, 2}
      /\ Len(frames) = 2 => frames[1] = VarFrame(r, c, o)
      /\ Len(frames) = 1 => ~InSync(o)
    BY <1>2, <1>3, <1>4, <1>5, ColumnCalls
<1>9. ASSUME InSync(o) PROVE \E k \in 1..Len(stack') : stack'[k] = VarFrame(r, c, o)
  <2>1. Len(frames) = 2 /\ 1 \in 1..Len(frames) /\ frames[1] = VarFrame(r, c, o)
      BY <1>8, <1>9
  <2>2. 1 \in 1..Len(stack') /\ stack'[1] = frames[1]
      BY <1>4, <1>8, <2>1, CallsOver
  <2> QED BY <2>1, <2>2
<1> QED BY <1>2, <1>3, <1>4, <1>6, <1>7, <1>9 DEF AddsColumn

\* The new column's variable is a client of the row's object, and will look.
LEMMA RowColumnResolve ==
    ASSUME TableInv, TableInv', [Next]_vars, ColumnsInv, ResolveInv, Grows, Under, RowColumn
    PROVE  ResolveInv'
<1> PICK o : o = Head(stack).at
    OBVIOUS
<1> PICK c : c = Head(stack).col
    OBVIOUS
<1> PICK r : r = Len(rows)
    OBVIOUS
<1>1. Executing("row") /\ RowsInv /\ RowsInv' /\ rows \in Seq(Rows) /\ rows' \in Seq(Rows)
    BY DEF RowColumn, TableInv, RowsInv
<1>2. syncs' = syncs /\ SyncsGrow
  <2>1. syncs' = syncs
      BY DEF RowColumn, rmc, objs
  <2> QED BY <2>1 DEF TableInv, RestTypes, SyncsGrow
<1>3. CASE c > Columns
  <2>1. SettledStep
      BY <1>1, <1>2, <1>3, RowReturns DEF RowColumn, SettledStep
  <2> QED BY <2>1, SettledResolve
<1>4. CASE ~(c > Columns)
  <2>1. AddsColumn(r, c, o)
      BY <1>4, RowColumnAdds
  <2>2. /\ r \in 1..Len(rows) /\ c \in Cols /\ o \in Objects /\ rows[r].obj = o
        /\ rows[r].built + 1 = c /\ rows'[r].built = c /\ Finds(r, c, o)
        /\ InSync(o) => \E k \in 1..Len(stack') : stack'[k] = VarFrame(r, c, o)
      BY <2>1 DEF AddsColumn
  <2>3. Stays
      BY <1>1, UnderStays DEF Executing, RowsInv
  <2>4. ASSUME NEW n \in 1..Len(rows), NEW d \in Cols, n # r \/ d # c PROVE Resolving(n, d)'
    <3>1. Untouched(n, d)
        BY <1>1, <2>2, <2>4, FindsUntouched
    <3>2. FramesStay(n, d)
        BY <2>3 DEF Stays, FramesStay, OfColumn
    <3>3. d <= rows'[n].built => d <= rows[n].built
      <4>1. d \in Nat /\ c \in Nat /\ rows[n].built \in Nat
          BY <1>1, <2>2, IdTyped, ColumnsAssumption DEF Cols
      <4>2. n # r => rows'[n].built = rows[n].built
          BY <2>1 DEF AddsColumn
      <4> QED BY <2>2, <2>4, <4>1, <4>2
    <3> QED BY <1>2, <3>1, <3>2, <3>3, UntouchedResolving DEF ResolveInv
  <2>5. Resolving(r, c)'
    <3>1. ~(c <= rows[r].built)
        BY <1>1, <2>2, IdTyped
    <3>2. \A x \in Objects : ~Client(r, c, x)
        BY <2>2, <3>1 DEF ColumnsInv, ColumnOK, OnTheWay
    <3>3. \A x \in Objects : Client(r, c, x)' <=> x = o
        BY <2>2, <3>2 DEF Client, Finds
    <3>4. Id(r, c)' = Id(r, c) /\ rows'[r].obj = o
        BY <2>2, SameId DEF Finds
    <3>5. HasFound(r, c)' => Id(r, c)' = o
      <4>1. ~HasFound(r, c)
        <5>1. Id(r, c) \in Objects \union {NoObject} /\ ColumnOK(r, c)
            BY <1>1, <2>2, IdTyped DEF ColumnsInv
        <5> QED BY <3>2, <5>1 DEF ColumnOK
      <4> QED BY <2>2, <3>4, <4>1 DEF HasFound, Finds
    <3> PICK f : f = VarFrame(r, c, o)
        OBVIOUS
    <3>6. f.op = "var" /\ f.row = r /\ f.col = c /\ f.at = o
        BY DEF VarFrame, Frame
    <3>7. InSync(o)' => \E k \in 1..Len(stack') : stack'[k] = f
        BY <1>2, <2>2 DEF InSync
    <3>8. HasRead(r, c)'
      <4> SUFFICES ASSUME HasFound(r, c)', InSync(Id(r, c))'
                   PROVE  (\E j \in 1..Len(stack) : Reads(stack[j], r, c))'
          BY DEF HasRead
      <4>1. InSync(o)' /\ Reads(f, r, c)'
          BY <3>5, <3>6 DEF InSync, Reads
      <4> QED BY <3>7, <4>1
    <3>9. ASSUME NEW x \in Objects PROVE SearchedFrom(r, c, x)'
      <4> SUFFICES ASSUME x = o, InSync(o)', NEW i \in DOMAIN Kids[x]
                   PROVE  (\E j \in 1..Len(stack) : Looks(stack[j], r, c, x, i))'
          BY <3>3 DEF SearchedFrom, InSync
      <4>1. Looks(f, r, c, x, i)'
          BY <3>6 DEF Looks
      <4> QED BY <3>7, <4>1
    <3>10. Client(r, c, rows[r].obj)'
        BY <2>2, <3>3, <3>4 DEF Client
    <3> QED BY <3>8, <3>9, <3>10 DEF Resolving
  <2>6. Len(rows') = Len(rows)
      BY <2>2 DEF Finds
  <2> QED BY <2>4, <2>5, <2>6 DEF ResolveInv
<1> QED BY <1>3, <1>4

----------------------------------------------------------------------------
(* The loop over childHandles() leaves out no child that is there and comes  *)
(* before one in error.                                                      *)

\* A loop that has ended has taken every reachable child.
LEMMA LoopEndsAfter ==
    ASSUME NEW o \in Objects, NEW i \in Nat \ {0}, LoopEnds(o, i), NEW l \in DOMAIN Kids[o], i <= l,
           Reachable(Kids[o][l])
    PROVE  FALSE
<1> DEFINE S == {m \in DOMAIN Kids[o] : i <= m /\ Kids[o][m] \notin hidden}
<1>1. DOMAIN Kids[o] = 1..Len(Kids[o]) /\ Len(Kids[o]) \in Nat
    BY TreeAssumption
<1>2. l \in S /\ S \subseteq Nat
    BY <1>1 DEF Reachable
<1>3. PICK m \in S : \A y \in S : m <= y
    BY <1>2, LeastNat
<1>4. m \in DOMAIN Kids[o] /\ i <= m /\ m <= l /\ Kids[o][m] \notin hidden
    BY <1>2, <1>3
<1>5. Takes(o, i, m)
  <2>1. ASSUME NEW q \in i..m PROVE Kids[o][q] \in hidden <=> q < m
    <3>1. CASE q = m
        BY <1>1, <1>4, <3>1
    <3>2. CASE q # m
      <4>1. q < m /\ q \in DOMAIN Kids[o] /\ i <= q
          BY <1>1, <1>4, <3>2
      <4>2. Kids[o][q] \in hidden
        <5>1. q \in S => m <= q
            BY <1>3
        <5>2. q \notin S
            BY <1>1, <1>4, <4>1, <5>1
        <5> QED BY <4>1, <5>2
      <4> QED BY <4>1, <4>2
    <3> QED BY <3>1, <3>2
  <2> QED BY <1>4, <2>1 DEF Takes
<1>6. Kids[o][m] \notin bad
  <2>1. m \in 1..l
      BY <1>1, <1>4
  <2> QED BY <2>1 DEF Reachable
<1> QED BY <1>4, <1>5, <1>6 DEF LoopEnds, HasChild

\* The next one it takes is not after a reachable child.
LEMMA TakesNext ==
    ASSUME NEW o \in Objects, NEW i \in Nat, NEW j \in DOMAIN Kids[o], HasChild(o, i, j),
           NEW l \in DOMAIN Kids[o], i <= l, l # j, Reachable(Kids[o][l])
    PROVE  j + 1 <= l
<1>1. j \in Nat /\ l \in Nat
    BY KidsAre
<1>2. ~(l < j)
  <2> SUFFICES ASSUME l < j PROVE FALSE
      OBVIOUS
  <2>1. l \in i..j
      BY <1>1
  <2> QED BY <2>1 DEF HasChild, Takes, Reachable
<1> QED BY <1>1, <1>2

----------------------------------------------------------------------------
(* The handlers of variables do not lose a child.                            *)

\* The innermost handler is one of (r, c): those of other columns stay.
LEMMA OthersStay ==
    ASSUME Under, NEW r, NEW c, stack[1].row = r, stack[1].col = c, NEW n, NEW d, n # r \/ d # c
    PROVE  FramesStay(n, d)
BY DEF Under, FramesStay

\* A variable that has not found its object looks among the children; one that
\* has looks its variable up.
LEMMA VariableSyncResolve ==
    ASSUME TableInv, TableInv', [Next]_vars, ColumnsInv, ResolveInv, Grows, Under, VariableSync
    PROVE  ResolveInv'
<1> PICK o : o = Head(stack).at
    OBVIOUS
<1> PICK c : c = Head(stack).col
    OBVIOUS
<1> PICK r : r = Head(stack).row
    OBVIOUS
<1>1. /\ stack # <<>> /\ stack[1] = Head(stack) /\ 1 \in 1..Len(stack) /\ stack[1].op = "var"
      /\ RowsInv /\ rows \in Seq(Rows) /\ rows' \in Seq(Rows) /\ Len(rows) \in Nat
      /\ stack \in Seq(FramesFor(Len(rows)))
    BY DEF VariableSync, Executing, TableInv, RowsInv
<1>2. ReadsNow(r, c, o)
    BY <1>1, VariableTaken
<1>3. syncs' = syncs /\ varOn' = varOn
    BY DEF VariableSync, rmc, objs
<1>4. /\ r \in 1..Len(rows) /\ c \in Cols /\ o \in Objects /\ Len(rows') = Len(rows)
      /\ \A n \in 1..Len(rows) :
            /\ rows'[n].obj = rows[n].obj /\ rows'[n].fromRoot = rows[n].fromRoot
            /\ rows'[n].built = rows[n].built /\ rows'[n].object = rows[n].object
    BY <1>2 DEF ReadsNow
<1>5. ASSUME NEW n \in 1..Len(rows), NEW d \in Cols, n # r \/ d # c PROVE Resolving(n, d)'
  <2>1. rows'[n].variable[d] = rows[n].variable[d]
      BY <1>2, <1>5 DEF ReadsNow
  <2>2. Untouched(n, d)
      BY <1>1, <1>3, <1>4, <2>1, IdTyped DEF Untouched
  <2>3. FramesStay(n, d)
      BY <1>1, <1>5, OthersStay
  <2> QED BY <1>3, <1>4, <2>2, <2>3, UntouchedResolving DEF ResolveInv
<1>6. Resolving(r, c)
    BY <1>4 DEF ResolveInv
<1>7. /\ Id(r, c)' = Id(r, c) /\ (HasFound(r, c)' <=> HasFound(r, c))
      /\ \A x : (Client(r, c, x)' <=> Client(r, c, x)) /\ (InSync(x)' <=> InSync(x))
    BY <1>3, <1>4, SameId DEF HasFound, Client, InSync
<1>8. HasRead(r, c)'
  <2> SUFFICES ASSUME c \notin Attributes, HasFound(r, c), InSync(Id(r, c)), <<Id(r, c), c>> \in Variables,
                      rows'[r].variable[c] = NoObject
               PROVE  (\E j \in 1..Len(stack) : Reads(stack[j], r, c))'
      BY <1>7 DEF HasRead, InSync
  <2>1. rows[r].variable[c] = NoObject /\ (<<o, c>> \in Variables => o = NoObject)
      BY <1>2, <1>4, NoObjectAssumption DEF ReadsNow
  <2>2. PICK j \in 1..Len(stack) : Reads(stack[j], r, c)
      BY <1>6, <2>1 DEF Resolving, HasRead
  <2> PICK f : f = stack[j]
      OBVIOUS
  <2>3. f.at = Id(r, c)
      BY <2>2 DEF Reads
  <2>4. j # 1
      BY <1>1, <1>4, <2>1, <2>3, NoObjectAssumption
  <2>5. \E k \in 1..Len(stack') : stack'[k] = f
      BY <2>4 DEF Under
  <2>6. Reads(f, r, c)'
      BY <1>7, <2>2 DEF Reads
  <2> QED BY <2>5, <2>6
<1>9. ASSUME NEW x \in Objects PROVE SearchedFrom(r, c, x)'
  <2> SUFFICES ASSUME Client(r, c, x), InSync(x), ~HasFound(r, c),
                      NEW i \in DOMAIN Kids[x], Below(Kids[x][i], Id(r, c)), Reachable(Kids[x][i])'
               PROVE  (Client(r, c, Kids[x][i]) \/ \E j \in 1..Len(stack) : Looks(stack[j], r, c, x, i))'
      BY <1>7 DEF SearchedFrom
  <2>1. Kids[x][i] \in KidSet(x) /\ i \in Nat \ {0}
      BY KidsAre
  <2>2. Reachable(Kids[x][i])
      BY <1>3, <2>1, ReachableKept
  <2>3. CASE Client(r, c, Kids[x][i])
      BY <1>7, <2>3
  <2>4. CASE \E j \in 1..Len(stack) : Looks(stack[j], r, c, x, i)
    <3>1. PICK j \in 1..Len(stack) : Looks(stack[j], r, c, x, i)
        BY <2>4
    <3>2. CASE j = 1
      <4> PICK f : f = KidsFrame(r, c, o, 1)
          OBVIOUS
      <4>1. x = o /\ f.op = "kids" /\ f.row = r /\ f.col = c /\ f.at = o /\ f.i = 1
          BY <1>1, <3>1, <3>2 DEF Looks, KidsFrame, Frame
      <4>2. Looks(f, r, c, x, i)'
          BY <2>1, <4>1 DEF Looks
      <4>3. f \in FramesFor(Len(rows))
          BY <1>1, <1>4, PushedFrames, VariableFrame
      <4> PICK frames : frames = <<f>>
          OBVIOUS
      <4>4. frames \in Seq(FramesFor(Len(rows))) /\ 1 \in 1..Len(frames) /\ frames[1] = f
          BY <4>3
      <4>5. Calls(frames)
          BY DEF VariableSync, HasFound
      <4>6. 1 \in 1..Len(stack') /\ stack'[1] = f
          BY <1>1, <4>4, <4>5, CallsOver
      <4> QED BY <4>2, <4>6
    <3>3. CASE j # 1
      <4> PICK f : f = stack[j]
          OBVIOUS
      <4>1. \E k \in 1..Len(stack') : stack'[k] = f
          BY <3>3 DEF Under
      <4>2. Looks(f, r, c, x, i)'
          BY <3>1 DEF Looks
      <4> QED BY <4>1, <4>2
    <3> QED BY <3>2, <3>3
  <2> QED BY <1>6, <2>2, <2>3, <2>4 DEF Resolving, SearchedFrom
<1>10. (c <= rows[r].built => Client(r, c, rows[r].obj))'
    BY <1>4, <1>6, <1>7 DEF Resolving
<1>11. Resolving(r, c)'
    BY <1>8, <1>9, <1>10 DEF Resolving
<1> QED BY <1>4, <1>5, <1>11 DEF ResolveInv

\* What a step of the loop over the children of o has to see to, when the loop
\* has come to i: the children from there on (Left), and the variable's new
\* clients.
Left(r, c, o, i) ==
    ~HasFound(r, c)' => \A l \in DOMAIN Kids[o] :
        i <= l /\ Below(Kids[o][l], Id(r, c)) /\ Reachable(Kids[o][l]) =>
            \/ <<r, c, Kids[o][l]>> \in varOn'
            \/ \E k \in 1..Len(stack') : Looks(stack'[k], r, c, o, l)
CallsNew(r, c) ==
    /\ \A x \in Objects : <<r, c, x>> \in varOn' /\ ~Client(r, c, x) /\ InSync(x) =>
           \E k \in 1..Len(stack') : stack'[k] = VarFrame(r, c, x)
    /\ HasFound(r, c)' /\ ~HasFound(r, c) /\ InSync(Id(r, c)) =>
           \E k \in 1..Len(stack') : stack'[k] = VarFrame(r, c, Id(r, c))

LEMMA LoopResolving ==
    ASSUME TableInv, [Next]_vars, Under, syncs' = syncs, NEW r, NEW c, NEW o, NEW i, Resolving(r, c),
           stack[1].op = "kids", stack[1].row = r, stack[1].col = c, stack[1].at = o, stack[1].i = i,
           rows'[r].obj = rows[r].obj, rows'[r].fromRoot = rows[r].fromRoot,
           rows'[r].built = rows[r].built, rows'[r].variable = rows[r].variable,
           HasFound(r, c) => HasFound(r, c)', varOn \subseteq varOn',
           Left(r, c, o, i), CallsNew(r, c)
    PROVE  Resolving(r, c)'
<1>1. /\ Id(r, c)' = Id(r, c) /\ \A x : InSync(x)' <=> InSync(x)
      /\ \A x : Client(r, c, x)' <=> <<r, c, x>> \in varOn'
      /\ \A x : Client(r, c, x) => Client(r, c, x)'
    BY SameId DEF Client, InSync
<1>2. ASSUME NEW x
      PROVE  /\ VarFrame(r, c, x).op = "var" /\ VarFrame(r, c, x).row = r
             /\ VarFrame(r, c, x).col = c /\ VarFrame(r, c, x).at = x
    BY DEF VarFrame, Frame
<1>3. HasRead(r, c)'
  <2> SUFFICES ASSUME c \notin Attributes, HasFound(r, c)', InSync(Id(r, c)), <<Id(r, c), c>> \in Variables,
                      rows[r].variable[c] = NoObject
               PROVE  (\E j \in 1..Len(stack) : Reads(stack[j], r, c))'
      BY <1>1 DEF HasRead, InSync
  <2>1. CASE HasFound(r, c)
    <3>1. PICK j \in 1..Len(stack) : Reads(stack[j], r, c)
        BY <2>1 DEF Resolving, HasRead
    <3> PICK f : f = stack[j]
        OBVIOUS
    <3>2. j # 1
        BY <3>1 DEF Reads
    <3>3. \E k \in 1..Len(stack') : stack'[k] = f
        BY <3>2 DEF Under
    <3>4. Reads(f, r, c)'
        BY <1>1, <3>1 DEF Reads
    <3> QED BY <3>3, <3>4
  <2>2. CASE ~HasFound(r, c)
    <3> PICK f : f = VarFrame(r, c, Id(r, c))
        OBVIOUS
    <3>1. \E k \in 1..Len(stack') : stack'[k] = f
        BY <2>2 DEF CallsNew
    <3>2. Reads(f, r, c)'
        BY <1>1, <1>2 DEF Reads
    <3> QED BY <3>1, <3>2
  <2> QED BY <2>1, <2>2
<1>4. ASSUME NEW x \in Objects PROVE SearchedFrom(r, c, x)'
  <2> SUFFICES ASSUME Client(r, c, x)', InSync(x), ~HasFound(r, c)',
                      NEW l \in DOMAIN Kids[x], Below(Kids[x][l], Id(r, c)), Reachable(Kids[x][l])'
               PROVE  (Client(r, c, Kids[x][l]) \/ \E j \in 1..Len(stack) : Looks(stack[j], r, c, x, l))'
      BY <1>1 DEF SearchedFrom
  <2>1. Kids[x][l] \in KidSet(x)
      BY KidsAre
  <2>2. Reachable(Kids[x][l])
      BY <2>1, ReachableKept
  <2>3. CASE ~Client(r, c, x)
    <3> PICK f : f = VarFrame(r, c, x)
        OBVIOUS
    <3>1. \E k \in 1..Len(stack') : stack'[k] = f
        BY <1>1, <2>3 DEF CallsNew
    <3>2. Looks(f, r, c, x, l)'
        BY <1>2 DEF Looks
    <3> QED BY <3>1, <3>2
  <2>4. CASE Client(r, c, x)
    <3>1. CASE Client(r, c, Kids[x][l])
        BY <1>1, <3>1
    <3>2. ASSUME NEW j \in 1..Len(stack), Looks(stack[j], r, c, x, l), j # 1
          PROVE  (\E k \in 1..Len(stack) : Looks(stack[k], r, c, x, l))'
      <4> PICK f : f = stack[j]
          OBVIOUS
      <4>1. \E k \in 1..Len(stack') : stack'[k] = f
          BY <3>2 DEF Under
      <4>2. Looks(f, r, c, x, l)'
          BY <3>2 DEF Looks
      <4> QED BY <4>1, <4>2
    <3>3. CASE Looks(stack[1], r, c, x, l)
      <4>1. x = o /\ i <= l
          BY <3>3 DEF Looks
      <4>2. CASE <<r, c, Kids[x][l]>> \in varOn'
          BY <1>1, <4>2
      <4>3. CASE \E k \in 1..Len(stack') : Looks(stack'[k], r, c, o, l)
        <5>1. PICK k \in 1..Len(stack') : Looks(stack'[k], r, c, o, l)
            BY <4>3
        <5> PICK f : f = stack'[k]
            OBVIOUS
        <5>2. Looks(f, r, c, x, l)'
            BY <4>1, <5>1 DEF Looks
        <5> QED BY <5>2
      <4> QED BY <2>2, <4>1, <4>2, <4>3 DEF Left
    <3>4. Client(r, c, Kids[x][l]) \/ \E j \in 1..Len(stack) : Looks(stack[j], r, c, x, l)
        BY <1>1, <2>2, <2>4 DEF Resolving, SearchedFrom
    <3> QED BY <3>1, <3>2, <3>3, <3>4
  <2> QED BY <2>3, <2>4
<1>5. (c <= rows[r].built => Client(r, c, rows[r].obj))'
    BY <1>1 DEF Resolving
<1> QED BY <1>3, <1>4, <1>5 DEF Resolving

\* The loop ends after the last child there is, skips those that are not above
\* the object, and goes to the one that is.
LEMMA VariableKidsResolve ==
    ASSUME TableInv, TableInv', [Next]_vars, ColumnsInv, ResolveInv, Grows, Under, VariableKids
    PROVE  ResolveInv'
<1> PICK o : o = Head(stack).at
    OBVIOUS
<1> PICK c : c = Head(stack).col
    OBVIOUS
<1> PICK r : r = Head(stack).row
    OBVIOUS
<1> PICK i : i = Head(stack).i
    OBVIOUS
<1>1. /\ stack # <<>> /\ stack[1] = Head(stack) /\ 1 \in 1..Len(stack) /\ stack[1].op = "kids"
      /\ stack[1].row = r /\ stack[1].col = c /\ stack[1].at = o /\ stack[1].i = i
      /\ r \in 1..Len(rows) /\ c \in Cols /\ o \in Objects /\ i \in Nat
      /\ RowsInv /\ RowsInv' /\ rows \in Seq(Rows) /\ rows' \in Seq(Rows) /\ Len(rows) \in Nat
      /\ stack \in Seq(FramesFor(Len(rows)))
    BY VariableTop DEF VariableKids, Executing, TableInv, RowsInv
<1>2. i \in Nat \ {0}
    BY <1>1 DEF ColumnsInv, FrameOK, OfColumn
<1>3. syncs' = syncs
    BY DEF VariableKids, rmc, objs
<1>4. Resolving(r, c)
    BY <1>1 DEF ResolveInv
<1>5. ASSUME NEW j \in DOMAIN Kids[o]
      PROVE  /\ j \in Nat /\ j + 1 \in Nat /\ Kids[o][j] \in Objects /\ Kids[o][j] \in KidSet(o)
             /\ KidsFrame(r, c, o, j + 1) \in FramesFor(Len(rows))
  <2>1. j \in Nat /\ j + 1 \in Nat /\ Kids[o][j] \in Objects /\ Kids[o][j] \in KidSet(o)
      BY <1>1, KidsAre
  <2> QED BY <1>1, <2>1, PushedFrames, VariableFrame
<1>6. ASSUME NEW j \in DOMAIN Kids[o], NEW l, j + 1 <= l PROVE Looks(KidsFrame(r, c, o, j + 1), r, c, o, l)
    BY <1>6 DEF Looks, KidsFrame, Frame
<1>7. ASSUME UNCHANGED <<rows, varOn>>, Left(r, c, o, i) PROVE ResolveInv'
  <2>1. CallsNew(r, c)
      BY <1>7 DEF CallsNew, Client, HasFound
  <2>2. HasFound(r, c)' <=> HasFound(r, c)
      BY <1>7 DEF HasFound
  <2>3. Resolving(r, c)'
      BY <1>1, <1>3, <1>4, <1>7, <2>1, <2>2, LoopResolving
  <2>4. ASSUME NEW n \in 1..Len(rows), NEW d \in Cols, n # r \/ d # c PROVE Resolving(n, d)'
    <3>1. Untouched(n, d)
        BY <1>1, <1>7, IdTyped DEF Untouched
    <3>2. FramesStay(n, d)
        BY <1>1, <2>4, OthersStay
    <3> QED BY <1>3, <1>7, <3>1, <3>2, UntouchedResolving DEF ResolveInv
  <2> QED BY <1>7, <2>3, <2>4 DEF ResolveInv
<1>8. ASSUME LoopEnds(o, i), UNCHANGED <<rows, varOn>> PROVE ResolveInv'
  <2>1. Left(r, c, o, i)
      BY <1>1, <1>2, <1>8, LoopEndsAfter DEF Left
  <2> QED BY <1>7, <1>8, <2>1
<1>9. ASSUME NEW j \in DOMAIN Kids[o], HasChild(o, i, j), ~Below(Kids[o][j], Id(r, c)),
             Calls(<<KidsFrame(r, c, o, j + 1)>>), UNCHANGED <<rows, varOn>>
      PROVE  ResolveInv'
  <2> PICK f : f = KidsFrame(r, c, o, j + 1)
      OBVIOUS
  <2> PICK frames : frames = <<f>>
      OBVIOUS
  <2>1. /\ frames \in Seq(FramesFor(Len(rows))) /\ 1 \in 1..Len(frames) /\ frames[1] = f
        /\ Calls(frames)
      BY <1>5, <1>9
  <2>2. 1 \in 1..Len(stack') /\ stack'[1] = f
      BY <1>1, <2>1, CallsOver
  <2>3. Left(r, c, o, i)
    <3> SUFFICES ASSUME NEW l \in DOMAIN Kids[o], i <= l, Below(Kids[o][l], Id(r, c)),
                        Reachable(Kids[o][l])
                 PROVE  \E k \in 1..Len(stack') : Looks(stack'[k], r, c, o, l)
        BY DEF Left
    <3>1. j + 1 <= l
        BY <1>1, <1>9, TakesNext
    <3> QED BY <1>6, <2>2, <3>1
  <2> QED BY <1>7, <1>9, <2>3
<1>10. ASSUME NEW j \in DOMAIN Kids[o], HasChild(o, i, j), NEW k, k = Kids[o][j],
              rows' = Found(r, c, k), varOn' = varOn \union {<<r, c, k>>},
              Calls(ResolveNow(r, c, k) \o <<KidsFrame(r, c, o, j + 1)>>)
       PROVE  ResolveInv'
  <2>1. k \in Objects
      BY <1>5, <1>10
  <2>2. Finds(r, c, k)
      BY <1>1, <1>10, FoundIs
  <2>3. /\ Len(rows') = Len(rows) /\ \A n \in 1..Len(rows) : rows'[n].built = rows[n].built
    <3>1. Rewrites(Found(r, c, k))
        BY <1>1, <2>1, FoundRows
    <3>2. Rewrites(rows')
        BY ONLY <1>10, <3>1
    <3> QED BY ONLY <3>2 DEF Rewrites
  <2> PICK f : f = KidsFrame(r, c, o, j + 1)
      OBVIOUS
  <2> PICK frames : frames = ResolveNow(r, c, k) \o <<f>>
      OBVIOUS
  <2>4. LET calls == ResolveNow(r, c, k) \o <<KidsFrame(r, c, o, j + 1)>>
        IN /\ calls \in Seq(FramesFor(Len(rows))) /\ Len(calls) \in {1, 2}
           /\ calls[Len(calls)] = KidsFrame(r, c, o, j + 1)
           /\ Len(calls) = 2 => calls[1] = VarFrame(r, c, k) /\ InSync(k)
           /\ Len(calls) = 1 => ~InSync(k)
    <3>1. Len(rows) \in Nat /\ r \in 1..Len(rows) /\ c \in Cols /\ o \in Objects /\ j + 1 \in Nat
        BY <1>1, <1>5
    <3> QED BY ONLY <2>1, <3>1, ChildCalls
  <2>5. /\ frames \in Seq(FramesFor(Len(rows))) /\ Len(frames) \in {1, 2}
        /\ frames[Len(frames)] = f
        /\ Len(frames) = 2 => frames[1] = VarFrame(r, c, k)
        /\ Len(frames) = 1 => ~InSync(k)
      BY <2>4
  <2>6. Calls(frames)
      BY <1>10
  <2>7. ASSUME NEW h \in 1..Len(frames) PROVE h \in 1..Len(stack') /\ stack'[h] = frames[h]
      BY <1>1, <2>5, <2>6, CallsOver
  <2>8. InSync(k) => \E h \in 1..Len(stack') : stack'[h] = VarFrame(r, c, k)
    <3> SUFFICES ASSUME InSync(k) PROVE \E h \in 1..Len(stack') : stack'[h] = VarFrame(r, c, k)
        OBVIOUS
    <3>1. 1 \in 1..Len(frames) /\ frames[1] = VarFrame(r, c, k)
        BY <2>5
    <3> QED BY <2>7, <3>1
  <2>9. Left(r, c, o, i)
    <3> SUFFICES ASSUME NEW l \in DOMAIN Kids[o], i <= l, Below(Kids[o][l], Id(r, c)),
                        Reachable(Kids[o][l]), <<r, c, Kids[o][l]>> \notin varOn'
                 PROVE  \E h \in 1..Len(stack') : Looks(stack'[h], r, c, o, l)
        BY DEF Left
    <3>1. l # j
        BY <1>10
    <3>2. j + 1 <= l
        BY <1>1, <1>10, <3>1, TakesNext
    <3>3. Len(frames) \in 1..Len(frames)
        BY <2>5
    <3>4. Len(frames) \in 1..Len(stack') /\ stack'[Len(frames)] = f
        BY <2>5, <2>7, <3>3
    <3> QED BY <1>6, <3>2, <3>4
  <2>10. rows'[r].object[c] = IF Id(r, c) = k THEN k ELSE rows[r].object[c]
      BY <2>2 DEF Finds
  <2>11. CallsNew(r, c)
    <3>1. ASSUME NEW x \in Objects, <<r, c, x>> \in varOn', ~Client(r, c, x) PROVE x = k
        BY <1>10, <3>1 DEF Client
    <3>2. HasFound(r, c)' /\ ~HasFound(r, c) => Id(r, c) = k
        BY <2>10 DEF HasFound
    <3> QED BY <2>8, <3>1, <3>2 DEF CallsNew
  <2>12. HasFound(r, c) => HasFound(r, c)'
      BY <2>1, <2>10, NoObjectAssumption DEF HasFound
  <2>13. Resolving(r, c)'
    <3>1. /\ rows'[r].obj = rows[r].obj /\ rows'[r].fromRoot = rows[r].fromRoot
          /\ rows'[r].built = rows[r].built /\ rows'[r].variable = rows[r].variable
          /\ varOn \subseteq varOn'
        BY <1>1, <1>10, <2>2, <2>3 DEF Finds
    <3> QED BY <1>1, <1>3, <1>4, <2>9, <2>11, <2>12, <3>1, LoopResolving
  <2>14. ASSUME NEW n \in 1..Len(rows), NEW d \in Cols, n # r \/ d # c PROVE Resolving(n, d)'
    <3>1. Untouched(n, d)
        BY <1>1, <2>2, <2>14, FindsUntouched
    <3>2. FramesStay(n, d)
        BY <1>1, <2>14, OthersStay
    <3> QED BY <1>3, <2>3, <3>1, <3>2, UntouchedResolving DEF ResolveInv
  <2> QED BY <2>3, <2>13, <2>14 DEF ResolveInv
<1>11. \/ LoopEnds(o, i) /\ UNCHANGED <<rows, varOn>>
       \/ \E j \in DOMAIN Kids[o] : /\ HasChild(o, i, j) /\ ~Below(Kids[o][j], Id(r, c))
                                    /\ Calls(<<KidsFrame(r, c, o, j + 1)>>)
                                    /\ UNCHANGED <<rows, varOn>>
       \/ \E j \in DOMAIN Kids[o] : /\ HasChild(o, i, j)
                                    /\ rows' = Found(r, c, Kids[o][j])
                                    /\ varOn' = varOn \union {<<r, c, Kids[o][j]>>}
                                    /\ Calls(ResolveNow(r, c, Kids[o][j]) \o <<KidsFrame(r, c, o, j + 1)>>)
    BY DEF VariableKids, Id
<1> QED BY <1>8, <1>9, <1>10, <1>11

\* Every step.
LEMMA NextResolve ==
    ASSUME TableInv, ColumnsInv, ResolveInv, [Next]_vars PROVE ResolveInv'
<1>1. TableInv' /\ Grows /\ Under /\ (SettledStep \/ Resolves)
    BY NextTable
<1>2. CASE SettledStep
    BY <1>1, <1>2, SettledResolve
<1>3. CASE Resolves
    BY <1>1, <1>3, RowColumnResolve, VariableSyncResolve, VariableKidsResolve,
       ObjectSyncResolve DEF Resolves
<1> QED BY <1>1, <1>2, <1>3

\* When nothing is executing, a column has found its object if all on the way
\* from the row's is in sync and reachable.
LEMMA WayFound ==
    ASSUME TableInv, ColumnsInv, ResolveInv, Idle, NEW n \in 1..Len(rows), NEW c \in Cols,
           NEW t, t = Id(n, c), Below(rows[n].obj, t),
           \A p \in Objects : Below(rows[n].obj, p) /\ Below(p, t)
              => InSync(p) /\ (p # rows[n].obj => Reachable(p))
    PROVE  HasFound(n, c)
<1> SUFFICES ASSUME ~HasFound(n, c) PROVE FALSE
    OBVIOUS
<1> PICK o : o = rows[n].obj
    OBVIOUS
<1>1. t \in Objects /\ o \in Objects /\ ColumnOK(n, c) /\ Resolving(n, c)
    BY BelowObjects DEF ColumnsInv, ResolveInv
<1>2. Len(stack) = 0 /\ rows[n].built = Columns /\ c <= Columns
  <2>1. \A m \in 1..Len(rows) : rows[m].built = Columns
      BY CallerComplete DEF AtCaller, Idle, TableInv
  <2> QED BY <2>1, ColumnsAssumption DEF Idle, Cols
<1>3. Client(n, c, o) /\ ~Client(n, c, t)
    BY <1>1, <1>2, NoObjectAssumption DEF Resolving, ColumnOK
<1> DEFINE S == {p \in Above[t] : ~(Below(o, p) /\ Client(n, c, p))}
<1>4. t \in Above[t] /\ HasParents(Above[t]) /\ Above[t] \subseteq Objects
    BY <1>1, AboveIs
<1>5. HasParents(S)
  <2> SUFFICES ASSUME NEW q \in Objects, NEW h \in KidSet(q), h \in S, q \notin S PROVE FALSE
      BY DEF HasParents
  <2>1. q \in Above[t] /\ h \in Above[t]
      BY <1>4 DEF HasParents
  <2>2. Below(o, q) /\ Client(n, c, q) /\ Below(q, t) /\ Below(h, t)
      BY <1>1, <2>1 DEF Below
  <2>3. h \in Objects /\ Below(q, h) /\ Below(o, h)
      BY <2>1, <2>2, OneParent, BelowSelf, ParentAbove, BelowTransitive
  <2>4. h # o
      BY <2>2, PathsAssumption DEF Below
  <2>5. InSync(q) /\ Reachable(h)
      BY <2>2, <2>3, <2>4
  <2>6. PICK l \in DOMAIN Kids[q] : Kids[q][l] = h
    <3>1. Kids[q] \in Seq(Objects)
        BY TreeAssumption
    <3> QED BY <3>1 DEF KidSet, ToSet
  <2>7. Client(n, c, h)
      BY <1>1, <1>2, <2>2, <2>5, <2>6 DEF Resolving, SearchedFrom
  <2> QED BY <2>3, <2>7
<1>6. S \subseteq Objects /\ t \in S
    BY <1>3, <1>4
<1>7. Above[t] \subseteq S
    BY <1>1, <1>5, <1>6, AboveIs
<1>8. o \in S
    BY <1>7 DEF Below
<1> QED BY <1>1, <1>3, <1>8, BelowSelf

\* Columns find their variables in whatever order the rows, the objects and the
\* server came up: when the handlers have returned, a column whose object is
\* beneath its row's, with everything between in sync and not behind a child in
\* error, reads a variable.
THEOREM ColumnsFind == Spec => []ColumnsResolve
<1>1. Init => TableInv /\ ColumnsInv /\ ResolveInv
    BY InitTable, InitColumns, InitResolve
<1>2. TableInv /\ ColumnsInv /\ ResolveInv /\ [Next]_vars => (TableInv /\ ColumnsInv /\ ResolveInv)'
    BY NextColumns, NextResolve
<1>3. TableInv /\ ColumnsInv /\ ResolveInv => ColumnsResolve
  <2> SUFFICES ASSUME TableInv, ColumnsInv, ResolveInv, Idle, NEW n \in 1..Len(rows),
                      NEW c \in Cols \ Attributes, NEW t, t = Id(n, c), NEW o, o = rows[n].obj,
                      Below(o, t), <<t, c>> \in Variables,
                      \A p \in {q \in Above[t] : Below(o, q)} : InSync(p) /\ (p # o => Reachable(p))
               PROVE  rows[n].variable[c] # NoObject
      BY DEF ColumnsResolve, Id
  <2>1. \A p \in Objects : Below(o, p) /\ Below(p, t) => InSync(p) /\ (p # o => Reachable(p))
      BY DEF Below
  <2>2. HasFound(n, c)
      BY <2>1, WayFound
  <2>3. t \in Objects /\ InSync(t)
      BY <2>1, BelowObjects, BelowSelf
  <2>4. Len(stack) = 0
      BY DEF Idle
  <2> QED BY <2>2, <2>3, <2>4 DEF ResolveInv, Resolving, HasRead
<1> QED BY <1>1, <1>2, <1>3, PTL DEF Spec
=============================================================================
