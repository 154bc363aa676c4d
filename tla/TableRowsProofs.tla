--------------------------- MODULE TableRowsProofs ---------------------------
(***************************************************************************)
(* The rows a table has, for every set of servers, objects and applications *)
(* and every tree of objects.                                               *)
(*                                                                          *)
(* Without a class filter there is one row per application.  What carries   *)
(* it is the link between rows_ and root_map_: a row's application has an   *)
(* entry as long as no root of it was erased (Recorded), an application     *)
(* that has one has a row (EntriesHaveRows), and root_map_ has an entry for *)
(* each root that is connected and that the table has come to (Counted).    *)
(*                                                                          *)
(* With one there is a row per object of the class.  What carries it is the *)
(* order in which the table comes to objects, each from its parent or its   *)
(* server (FromParent, FromServer): a loop on the stack has only objects    *)
(* before it that the table has not come to (FrameReady), and it has come   *)
(* to all that no loop has before it (ComesInv).                            *)
(***************************************************************************)
EXTENDS TableColumnsProofs, TableService

----------------------------------------------------------------------------
(* A table without a class filter.                                          *)

AppOf(n) == App[rows[n].obj]
Recorded == \A n \in 1..Len(rows) : rootMap[AppOf(n)] > 0 \/ AppOf(n) \in dropped
OneRow == \A m, n \in 1..Len(rows) : AppOf(m) = AppOf(n) => m = n \/ AppOf(m) \in dropped
EntriesHaveRows ==
    \A a \in Apps : rootMap[a] > 0 => \E n \in 1..Len(rows) : AppOf(n) = a

AppRows == Recorded /\ OneRow /\ EntriesHaveRows

\* A root is announced once, by one server.
RootsOnce ==
    /\ \A s \in Servers : \A i \in 1..Len(roots[s]) : roots[s][i] \in announced
    /\ \A s, t \in Servers : \A i \in 1..Len(roots[s]), j \in 1..Len(roots[t]) :
          roots[s][i] = roots[t][j] => s = t /\ i = j

\* The loop over the roots of s has not come to the k-th.
Pending(s, k) ==
    \E j \in 1..Len(stack) : stack[j].op = "server" /\ stack[j].at = s /\ stack[j].i <= k

\* The connected roots of an application that the table has come to.
Entered(a) ==
    {r \in Objects : App[r] = a /\ \E s \in listening \intersect inSync :
        \E k \in 1..Len(roots[s]) : roots[s][k] = r /\ ~Pending(s, k)}

Counted == \A a \in Apps : Cardinality(Entered(a)) <= rootMap[a]

PlainInv == AppRows /\ RootsOnce /\ IsFiniteSet(announced) /\ Counted

\* No row, no root.
LEMMA InitPlain == Init => PlainInv
<1> SUFFICES ASSUME Init PROVE PlainInv
    OBVIOUS
<1>1. AppRows
    BY DEF Init, AppRows, Recorded, OneRow, EntriesHaveRows, AppOf
<1>2. RootsOnce
    BY DEF Init, RootsOnce
<1>3. Counted
  <2>1. \A a \in Apps : Entered(a) = {}
      BY DEF Init, Entered
  <2> QED BY <2>1, FS_EmptySet DEF Init, Counted
<1> QED BY <1>1, <1>2, <1>3, FS_EmptySet DEF PlainInv, Init

----------------------------------------------------------------------------
(* Rows and entries.                                                        *)

\* A row's object is of some application.
LEMMA AppTyped ==
    ASSUME TableInv PROVE \A n \in 1..Len(rows) : rows[n].obj \in Objects /\ AppOf(n) \in Apps
<1> SUFFICES ASSUME NEW n \in 1..Len(rows) PROVE rows[n].obj \in Objects /\ AppOf(n) \in Apps
    OBVIOUS
<1>1. rows[n] \in Rows
    BY DEF TableInv, RowsInv
<1>2. rows[n].obj \in Objects
    BY <1>1 DEF Rows
<1> QED BY <1>2, MappingAssumption DEF AppOf

\* If rows are only rewritten in place, each for its own object, what is said
\* about rows and root_map_ stays.
LEMMA SameRows ==
    ASSUME AppRows, Len(rows') = Len(rows), Grows, UNCHANGED <<rootMap, dropped>>
    PROVE  AppRows'
<1>1. \A n \in 1..Len(rows) : AppOf(n)' = AppOf(n)
    BY DEF Grows, AppOf
<1> QED BY <1>1 DEF AppRows, Recorded, OneRow, EntriesHaveRows

\* A root is entered; its application gets a row if it had no entry.
LEMMA RootRows ==
    ASSUME ~ClassFilter, TableInv, AppRows, NEW r \in Objects, NEW next,
           TableRootAdded(r, next), UNCHANGED dropped
    PROVE  AppRows' /\ rootMap' = [rootMap EXCEPT ![App[r]] = rootMap[App[r]] + 1]
<1>1. App[r] \in Apps /\ rootMap \in [Apps -> Nat]
    BY MappingAssumption DEF TableInv, RestTypes
<1>2. rootMap' = [rootMap EXCEPT ![App[r]] = rootMap[App[r]] + 1]
    BY DEF TableRootAdded, InsertRoot
<1>3. /\ rootMap'[App[r]] > 0
      /\ \A a \in Apps : rootMap[a] > 0 => rootMap'[a] > 0
      /\ \A a \in Apps : rootMap'[a] > 0 => rootMap[a] > 0 \/ a = App[r]
  <2>1. rootMap[App[r]] \in Nat
      BY <1>1
  <2> QED BY <1>1, <1>2, <2>1
<1>4. \A n \in 1..Len(rows) : AppOf(n) \in Apps
    BY AppTyped
<1>5. CASE ~FirstRoot(r)
  <2>1. rows' = rows /\ rootMap[App[r]] > 0
      BY <1>1, <1>5 DEF TableRootAdded, FirstRoot
  <2>2. \A n \in 1..Len(rows) : AppOf(n)' = AppOf(n)
      BY <2>1 DEF AppOf
  <2> QED BY <1>2, <1>3, <1>4, <2>1, <2>2 DEF AppRows, Recorded, OneRow, EntriesHaveRows
<1>6. CASE FirstRoot(r)
  <2> DEFINE last == Len(rows) + 1
  <2>1. rows' = Append(rows, NewRow(r, TRUE))
      BY <1>6 DEF TableRootAdded
  <2>2. /\ Len(rows) \in Nat /\ Len(rows') = last
        /\ \A n \in 1..Len(rows) : rows'[n] = rows[n]
        /\ rows'[last].obj = r
    <3>1. TRUE \in BOOLEAN /\ RowsInv
        BY DEF TableInv
    <3>2. Len(rows) \in Nat
        BY <3>1 DEF RowsInv
    <3> QED BY ONLY <2>1, <3>1, <3>2, EntersRow
  <2>3. \A n \in 1..Len(rows) : AppOf(n)' = AppOf(n)
      BY <2>2 DEF AppOf
  <2>4. \A n \in 1..last : n = last => AppOf(n)' = App[r]
      BY <2>2 DEF AppOf
  <2>5. \A n \in 1..Len(rows) : AppOf(n) = App[r] => AppOf(n) \in dropped
      BY <1>4, <1>6 DEF AppRows, Recorded, FirstRoot
  <2>6. \A n \in 1..last : n \in 1..Len(rows) \/ n = last
      BY <2>2
  <2>7. ASSUME NEW n \in 1..last PROVE rootMap'[AppOf(n)'] > 0 \/ AppOf(n)' \in dropped
    <3>1. CASE n = last
        BY <1>3, <2>4, <3>1
    <3>2. CASE n \in 1..Len(rows)
        BY <1>3, <1>4, <2>3, <3>2 DEF AppRows, Recorded
    <3> QED BY <2>6, <3>1, <3>2
  <2>8. ASSUME NEW m \in 1..last, NEW n \in 1..last, AppOf(m)' = AppOf(n)'
        PROVE  m = n \/ AppOf(m)' \in dropped
    <3>1. CASE m \in 1..Len(rows) /\ n \in 1..Len(rows)
        BY <2>3, <2>8, <3>1 DEF AppRows, OneRow
    <3>2. CASE m \in 1..Len(rows) /\ n = last
        BY <2>3, <2>4, <2>5, <2>8, <3>2
    <3>3. CASE m = last /\ n \in 1..Len(rows)
        BY <2>3, <2>4, <2>5, <2>8, <3>3
    <3> QED BY <2>6, <3>1, <3>2, <3>3
  <2>9. ASSUME NEW a \in Apps, rootMap'[a] > 0 PROVE \E n \in 1..last : AppOf(n)' = a
    <3>1. CASE a = App[r]
      <4>1. last \in 1..last
          BY <2>2
      <4> QED BY <2>4, <3>1, <4>1
    <3>2. CASE a # App[r]
      <4>1. PICK n \in 1..Len(rows) : AppOf(n) = a
          BY <1>3, <2>9, <3>2 DEF AppRows, EntriesHaveRows
      <4>2. n \in 1..last
          BY <2>2
      <4> QED BY <2>3, <4>1, <4>2
    <3> QED BY <3>1, <3>2
  <2>10. /\ \A n \in 1..Len(rows') : rootMap'[AppOf(n)'] > 0 \/ AppOf(n)' \in dropped'
         /\ \A m, n \in 1..Len(rows') : AppOf(m)' = AppOf(n)' => m = n \/ AppOf(m)' \in dropped'
         /\ \A a \in Apps : rootMap'[a] > 0 => \E n \in 1..Len(rows') : AppOf(n)' = a
      BY <2>2, <2>7, <2>8, <2>9
  <2> QED BY <1>2, <2>10 DEF AppRows, Recorded, OneRow, EntriesHaveRows
<1> QED BY <1>5, <1>6

\* An entry is erased: the rows of its application are no longer what
\* root_map_ says, which is what dropped records.
LEMMA EraseRows ==
    ASSUME TableInv, AppRows, NEW a \in Apps, EraseRoot(a) PROVE AppRows'
<1>1. rootMap \in [Apps -> Nat] /\ rows' = rows /\ dropped' = dropped \union {a}
    BY DEF TableInv, RestTypes, EraseRoot
<1>2. \A n \in 1..Len(rows) : AppOf(n)' = AppOf(n) /\ AppOf(n) \in Apps
    BY <1>1, AppTyped DEF AppOf
<1>3. /\ \A b \in Apps : b # a => rootMap'[b] = rootMap[b]
      /\ rootMap'[a] > 0 => rootMap[a] > 0
  <2>1. rootMap' = [rootMap EXCEPT ![a] = IF rootMap[a] = 0 THEN 0 ELSE rootMap[a] - 1]
      BY DEF EraseRoot
  <2>2. rootMap[a] \in Nat /\ rootMap'[a] = IF rootMap[a] = 0 THEN 0 ELSE rootMap[a] - 1
      BY <1>1, <2>1
  <2> QED BY <1>1, <2>1, <2>2
<1> QED BY <1>1, <1>2, <1>3 DEF AppRows, Recorded, OneRow, EntriesHaveRows

----------------------------------------------------------------------------
(* Roots and entries.                                                       *)

\* There are finitely many roots of an application.
LEMMA EnteredFinite ==
    ASSUME RootsOnce, IsFiniteSet(announced), inSync \subseteq Servers, NEW a
    PROVE  IsFiniteSet(Entered(a)) /\ Cardinality(Entered(a)) \in Nat
<1>1. Entered(a) \subseteq announced
    BY DEF Entered, RootsOnce
<1>2. IsFiniteSet(Entered(a))
    BY <1>1, FS_Subset
<1> QED BY <1>2, FS_CardinalityType

\* No root is entered and no entry erased.
LEMMA CountedSame ==
    ASSUME TableInv, PlainInv, UNCHANGED rootMap, \A a \in Apps : Entered(a)' \subseteq Entered(a)
    PROVE  Counted'
<1> SUFFICES ASSUME NEW a \in Apps PROVE Cardinality(Entered(a)') <= rootMap'[a]
    BY DEF Counted
<1> PICK S : S = Entered(a)'
    OBVIOUS
<1>1. S \subseteq Entered(a)
    OBVIOUS
<1>2. IsFiniteSet(Entered(a)) /\ Cardinality(Entered(a)) \in Nat
    BY EnteredFinite DEF PlainInv, TableInv, RestTypes
<1>3. Cardinality(S) <= Cardinality(Entered(a)) /\ Cardinality(S) \in Nat
    BY <1>1, <1>2, FS_Subset, FS_CardinalityType
<1>4. Cardinality(Entered(a)) <= rootMap[a] /\ rootMap[a] \in Nat
    BY DEF PlainInv, Counted, TableInv, RestTypes
<1> QED BY <1>2, <1>3, <1>4

\* A root is entered, with its entry.
LEMMA CountedMore ==
    ASSUME TableInv, PlainInv, NEW r \in Objects,
           rootMap' = [rootMap EXCEPT ![App[r]] = rootMap[App[r]] + 1],
           \A a \in Apps : Entered(a)' \subseteq Entered(a) \union (IF App[r] = a THEN {r} ELSE {})
    PROVE  Counted'
<1> SUFFICES ASSUME NEW a \in Apps PROVE Cardinality(Entered(a)') <= rootMap'[a]
    BY DEF Counted
<1> PICK S : S = Entered(a)'
    OBVIOUS
<1>1. IsFiniteSet(Entered(a)) /\ Cardinality(Entered(a)) \in Nat
    BY EnteredFinite DEF PlainInv, TableInv, RestTypes
<1>2. Cardinality(Entered(a)) <= rootMap[a] /\ rootMap[a] \in Nat /\ App[r] \in Apps
    BY MappingAssumption DEF PlainInv, Counted, TableInv, RestTypes
<1>3. CASE App[r] = a
  <2> PICK T : T = Entered(a) \union {r}
      OBVIOUS
  <2>1. S \subseteq T
      BY <1>3
  <2>2. IsFiniteSet(T) /\ Cardinality(T) \in Nat /\ Cardinality(T) <= Cardinality(Entered(a)) + 1
    <3>1. \/ Cardinality(T) = Cardinality(Entered(a))
          \/ Cardinality(T) = Cardinality(Entered(a)) + 1
        BY <1>1, FS_AddElement
    <3>2. IsFiniteSet(T)
        BY <1>1, FS_AddElement
    <3> QED BY <1>1, <3>1, <3>2, FS_CardinalityType
  <2>3. Cardinality(S) <= Cardinality(T) /\ Cardinality(S) \in Nat
      BY <2>1, <2>2, FS_Subset, FS_CardinalityType
  <2>4. rootMap'[a] = rootMap[a] + 1
      BY <1>2, <1>3 DEF TableInv, RestTypes
  <2> QED BY <1>1, <1>2, <2>2, <2>3, <2>4
<1>4. CASE App[r] # a
  <2>1. S \subseteq Entered(a)
      BY <1>4
  <2>2. Cardinality(S) <= Cardinality(Entered(a)) /\ Cardinality(S) \in Nat
      BY <1>1, <2>1, FS_Subset, FS_CardinalityType
  <2>3. rootMap'[a] = rootMap[a]
      BY <1>2, <1>4 DEF TableInv, RestTypes
  <2> QED BY <1>1, <1>2, <2>2, <2>3
<1> QED BY <1>3, <1>4

\* A root goes away, and an entry with it.
LEMMA CountedLess ==
    ASSUME TableInv, PlainInv, NEW r \in Objects, EraseRoot(App[r]), r \in Entered(App[r]),
           \A a \in Apps : Entered(a)' \subseteq Entered(a) \ {r}
    PROVE  Counted'
<1> SUFFICES ASSUME NEW a \in Apps PROVE Cardinality(Entered(a)') <= rootMap'[a]
    BY DEF Counted
<1> PICK S : S = Entered(a)'
    OBVIOUS
<1>1. IsFiniteSet(Entered(a)) /\ Cardinality(Entered(a)) \in Nat
    BY EnteredFinite DEF PlainInv, TableInv, RestTypes
<1>2. /\ Cardinality(Entered(a)) <= rootMap[a] /\ rootMap[a] \in Nat /\ App[r] \in Apps
      /\ rootMap \in [Apps -> Nat]
    BY MappingAssumption DEF PlainInv, Counted, TableInv, RestTypes
<1>3. rootMap' = [rootMap EXCEPT ![App[r]] = IF rootMap[App[r]] = 0 THEN 0
                                             ELSE rootMap[App[r]] - 1]
    BY DEF EraseRoot
<1>4. CASE App[r] = a
  <2> PICK T : T = Entered(a) \ {r}
      OBVIOUS
  <2>1. S \subseteq T
      BY <1>4
  <2>2. IsFiniteSet(T) /\ Cardinality(T) \in Nat /\ Cardinality(T) = Cardinality(Entered(a)) - 1
      BY <1>1, <1>4, FS_RemoveElement, FS_CardinalityType
  <2>3. Cardinality(S) <= Cardinality(T) /\ Cardinality(S) \in Nat
      BY <2>1, <2>2, FS_Subset, FS_CardinalityType
  <2>4. rootMap[a] # 0
      BY <1>1, <1>2, <2>2
  <2>5. rootMap'[a] = rootMap[a] - 1
      BY <1>2, <1>3, <1>4, <2>4
  <2> QED BY <1>1, <1>2, <2>2, <2>3, <2>5
<1>5. CASE App[r] # a
  <2>1. S \subseteq Entered(a)
      BY <1>5
  <2>2. Cardinality(S) <= Cardinality(Entered(a)) /\ Cardinality(S) \in Nat
      BY <1>1, <2>1, FS_Subset, FS_CardinalityType
  <2>3. rootMap'[a] = rootMap[a]
      BY <1>2, <1>3, <1>5
  <2> QED BY <1>1, <1>2, <2>2, <2>3
<1> QED BY <1>4, <1>5

----------------------------------------------------------------------------
(* The steps of such a table.                                               *)

\* No root is entered that was not.
EntersNoRoot ==
    \A s \in listening' \intersect inSync' : \A k \in 1..Len(roots'[s]) :
        ~Pending(s, k)' => /\ s \in listening \intersect inSync /\ k \in 1..Len(roots[s])
                           /\ roots'[s][k] = roots[s][k] /\ ~Pending(s, k)

\* A step that leaves rows_ and root_map_ alone and enters no root.
LEMMA QuietPlain ==
    ASSUME TableInv, PlainInv, RootsOnce', IsFiniteSet(announced'),
           UNCHANGED <<rootMap, dropped>>, Len(rows') = Len(rows), Grows, EntersNoRoot
    PROVE  PlainInv'
<1>1. AppRows'
    BY SameRows DEF PlainInv
<1>2. \A a \in Apps : Entered(a)' \subseteq Entered(a)
    BY DEF Entered, EntersNoRoot
<1>3. Counted'
    BY <1>2, CountedSame
<1> QED BY <1>1, <1>3 DEF PlainInv

\* A pending root stays pending unless the loop itself makes a step.
LEMMA PendingStays ==
    ASSUME TableInv, Under, stack = <<>> \/ Head(stack).op # "server", NEW s, NEW k, Pending(s, k)
    PROVE  Pending(s, k)'
<1> PICK j \in 1..Len(stack) : stack[j].op = "server" /\ stack[j].at = s /\ stack[j].i <= k
    BY DEF Pending
<1>1. stack # <<>> /\ stack[1] = Head(stack)
    BY DEF TableInv, RowsInv
<1>2. j > 1
    BY <1>1
<1>3. PICK h \in 1..Len(stack') : stack'[h] = stack[j]
    BY <1>2 DEF Under
<1> QED BY <1>3 DEF Pending

\* A step that leaves roots, servers and entries alone, and is not the loop's.
LEMMA RowStepPlain ==
    ASSUME TableInv, PlainInv, Grows, Under, Len(rows') = Len(rows),
           stack = <<>> \/ Head(stack).op # "server",
           UNCHANGED <<roots, announced, rootMap, dropped>>,
           listening' \intersect inSync' \subseteq listening \intersect inSync
    PROVE  PlainInv'
<1>1. RootsOnce' /\ IsFiniteSet(announced')
    BY DEF PlainInv, RootsOnce
<1>2. EntersNoRoot
    BY PendingStays DEF EntersNoRoot
<1> QED BY <1>1, <1>2, QuietPlain

\* A server the table listens to from now on: if it is in sync, the loop over
\* its roots is the next call.
LEMMA ServerAddedPlain ==
    ASSUME TableInv, PlainInv, TableServerAdded PROVE PlainInv'
<1> PICK s : s = Head(stack).at
    OBVIOUS
<1>1. Grows /\ Under
    BY ServerAddedRows DEF TableInv
<1>2. /\ stack # <<>> /\ Head(stack).op = "added"
      /\ listening' = listening \union {s}
      /\ UNCHANGED <<roots, announced, inSync, rootMap, dropped, rows>>
      /\ Calls(When(s \in inSync, ServerFrame(s, 1)))
    BY DEF TableServerAdded, Executing, rmc, tableVars
<1>3. s \in Servers
    BY <1>2, TopFrame DEF TableInv, AddedFrames
<1>4. ASSUME s \in inSync, NEW k \in Nat \ {0} PROVE Pending(s, k)'
  <2>1. ServerFrame(s, 1) \in CallerFrames
      BY <1>3, PushedFrames
  <2> PICK frame : frame = ServerFrame(s, 1)
      OBVIOUS
  <2>2. frame.op = "server" /\ frame.at = s /\ frame.i = 1
      BY DEF ServerFrame, Frame
  <2>3. Calls(<<frame>>)
      BY <1>2, <1>4 DEF When
  <2>4. frame \in FramesFor(Len(rows)) /\ stack \in Seq(FramesFor(Len(rows))) /\ Len(rows) \in Nat
      BY <2>1, CallerFrame DEF TableInv, RowsInv
  <2>5. <<frame>> \in Seq(FramesFor(Len(rows))) /\ Len(<<frame>>) = 1 /\ <<frame>>[1] = frame
      BY <2>4
  <2>6. 1 \in 1..Len(<<frame>>)
      BY <2>5
  <2>7. 1 \in 1..Len(stack') /\ stack'[1] = frame
      BY ONLY <2>3, <2>4, <2>5, <2>6, CallsOver
  <2> QED BY <2>2, <2>7 DEF Pending
<1>5. EntersNoRoot
  <2> SUFFICES ASSUME NEW t \in listening' \intersect inSync', NEW k \in 1..Len(roots'[t]),
                      ~Pending(t, k)'
               PROVE  /\ t \in listening \intersect inSync /\ k \in 1..Len(roots[t])
                      /\ roots'[t][k] = roots[t][k] /\ ~Pending(t, k)
      BY DEF EntersNoRoot
  <2>1. k \in Nat \ {0}
    <3>1. t \in Servers
        BY <1>2 DEF TableInv, RestTypes
    <3>2. roots[t] \in Seq(Objects)
        BY <3>1 DEF TableInv, RestTypes
    <3> QED BY <1>2, <3>2
  <2>2. t # s
      BY <1>2, <1>4, <2>1
  <2> QED BY <1>1, <1>2, <2>2, PendingStays
<1>6. RootsOnce' /\ IsFiniteSet(announced') /\ Len(rows') = Len(rows)
    BY <1>2 DEF PlainInv, RootsOnce
<1> QED BY <1>1, <1>2, <1>5, <1>6, QuietPlain

\* The loop over the roots of a server that is through with them.
LEMMA ServerEndsPlain ==
    ASSUME TableInv, PlainInv, TableServerSync, Head(stack).i > Len(roots[Head(stack).at])
    PROVE  PlainInv'
<1> DEFINE s == Head(stack).at
           i == Head(stack).i
<1>1. Grows /\ Under
    BY ServerSyncRows DEF TableInv, RestTypes
<1>2. /\ stack # <<>> /\ Head(stack).op = "server"
      /\ UNCHANGED <<roots, announced, listening, inSync, rootMap, dropped, rows>>
    BY DEF TableServerSync, Executing, rmc
<1>3. s \in Servers /\ i \in Nat
    BY <1>2, TopFrame DEF TableInv, ServerFrames
<1>4. ASSUME NEW t \in Servers, NEW k \in 1..Len(roots[t]), Pending(t, k) PROVE Pending(t, k)'
  <2> PICK j \in 1..Len(stack) : stack[j].op = "server" /\ stack[j].at = t /\ stack[j].i <= k
      BY <1>4 DEF Pending
  <2>1. stack[1] = Head(stack) /\ Len(stack) \in Nat
      BY <1>2 DEF TableInv, RowsInv
  <2>2. roots[t] \in Seq(Objects)
      BY DEF TableInv, RestTypes
  <2>3. Len(roots[t]) \in Nat
      BY <2>2
  <2>4. j # 1
      BY <1>3, <2>1, <2>3
  <2>5. PICK h \in 1..Len(stack') : stack'[h] = stack[j]
      BY <1>1, <2>1, <2>4 DEF Under
  <2> QED BY <2>5 DEF Pending
<1>5. EntersNoRoot
    BY <1>2, <1>4 DEF EntersNoRoot, TableInv, RestTypes
<1>6. RootsOnce' /\ IsFiniteSet(announced') /\ Len(rows') = Len(rows)
    BY <1>2 DEF PlainInv, RootsOnce
<1> QED BY <1>1, <1>2, <1>5, <1>6, QuietPlain

\* The loop comes to one more root, and then goes on with the next.
LEMMA ServerRootPlain ==
    ASSUME ~ClassFilter, TableInv, PlainInv, TableServerSync,
           ~(Head(stack).i > Len(roots[Head(stack).at]))
    PROVE  PlainInv'
<1> DEFINE s == Head(stack).at
           i == Head(stack).i
           r == roots[s][i]
<1>1. TableInv' /\ Grows /\ Under
  <2>1. [Next]_vars
      BY DEF Next, MainStep
  <2> QED BY <2>1, NextTable
<1>2. /\ stack # <<>> /\ Head(stack).op = "server"
      /\ UNCHANGED <<roots, announced, listening, inSync, dropped>>
      /\ TableRootAdded(r, <<ServerFrame(s, i + 1)>>)
    BY DEF TableServerSync, Executing, rmc
<1>3. s \in Servers /\ i \in Nat \ {0}
    BY <1>2, TopFrame DEF TableInv, ServerFrames
<1>4. roots[s] \in Seq(Objects) /\ i \in 1..Len(roots[s]) /\ r \in Objects
  <2>1. roots[s] \in Seq(Objects)
      BY <1>3 DEF TableInv, RestTypes
  <2>2. i \in 1..Len(roots[s])
      BY <1>3, <2>1
  <2> QED BY <2>1, <2>2
<1> HIDE DEF r
<1>5. AppRows' /\ rootMap' = [rootMap EXCEPT ![App[r]] = rootMap[App[r]] + 1]
    BY <1>2, <1>4, RootRows DEF PlainInv
<1>6. \E h \in 1..Len(stack') : stack'[h] = ServerFrame(s, i + 1)
  <2> PICK frame : frame = ServerFrame(s, i + 1)
      OBVIOUS
  <2> PICK row : row = When(FirstRoot(r), RowFrame(r, 1))
      OBVIOUS
  <2> PICK S : S = FramesFor(Len(rows'))
      OBVIOUS
  <2>1. Len(rows) \in Nat /\ Len(rows') \in Nat /\ Len(rows) <= Len(rows')
      BY <1>1 DEF TableInv, RowsInv, Grows
  <2>2. stack \in Seq(S)
      BY <2>1, FramesGrow DEF TableInv, RowsInv
  <2>3. frame \in S
    <3>1. frame \in CallerFrames
        BY <1>3, PushedFrames
    <3> QED BY <2>1, <3>1, CallerFrame
  <2>4. row \in Seq(S)
    <3>1. RowFrame(r, 1) \in S
        BY <1>4, <2>1, CallerFrame
    <3> QED BY <3>1, WhenTyped
  <2> PICK frames : frames = row \o <<frame>>
      OBVIOUS
  <2>5. /\ frames \in Seq(S) /\ Len(frames) = Len(row) + 1 /\ Len(row) \in Nat
        /\ frames[Len(row) + 1] = frame
      BY ONLY <2>3, <2>4, frames = row \o <<frame>>
  <2>6. Calls(frames)
      BY <1>2 DEF TableRootAdded
  <2>7. Len(frames) \in 1..Len(frames) /\ frames[Len(frames)] = frame
      BY <2>5
  <2>8. Len(frames) \in 1..Len(stack') /\ stack'[Len(frames)] = frame
      BY ONLY <2>2, <2>5, <2>6, <2>7, CallsOver
  <2> QED BY <2>8
<1>7. ASSUME NEW t \in Servers, NEW k \in 1..Len(roots[t]), ~Pending(t, k)'
      PROVE  ~Pending(t, k) \/ (t = s /\ k = i)
  <2> SUFFICES ASSUME Pending(t, k) PROVE t = s /\ k = i
      OBVIOUS
  <2>1. roots[t] \in Seq(Objects)
      BY DEF TableInv, RestTypes
  <2>2. k \in Nat
      BY <2>1
  <2> PICK j \in 1..Len(stack) : stack[j].op = "server" /\ stack[j].at = t /\ stack[j].i <= k
      BY DEF Pending
  <2>3. stack[1] = Head(stack) /\ Len(stack) \in Nat
      BY <1>2 DEF TableInv, RowsInv
  <2>4. j = 1
    <3> SUFFICES ASSUME j # 1 PROVE FALSE
        OBVIOUS
    <3>1. PICK h \in 1..Len(stack') : stack'[h] = stack[j]
        BY <1>1, <2>3 DEF Under
    <3> QED BY <1>7, <3>1 DEF Pending
  <2>5. t = s /\ i <= k
      BY <2>3, <2>4
  <2>6. ~(i + 1 <= k)
    <3> SUFFICES ASSUME i + 1 <= k PROVE FALSE
        OBVIOUS
    <3>1. PICK h \in 1..Len(stack') : stack'[h] = ServerFrame(s, i + 1)
        BY <1>6
    <3>2. stack'[h].op = "server" /\ stack'[h].at = t /\ stack'[h].i <= k
        BY <2>5, <3>1 DEF ServerFrame, Frame
    <3> QED BY <1>7, <3>2 DEF Pending
  <2> QED BY <1>3, <2>2, <2>5, <2>6
<1>8. \A a \in Apps : Entered(a)' \subseteq Entered(a) \union (IF App[r] = a THEN {r} ELSE {})
  <2> SUFFICES ASSUME NEW a \in Apps, NEW x \in Entered(a)', x # r PROVE x \in Entered(a)
      BY DEF Entered
  <2>1. x \in Objects /\ App[x] = a
      BY DEF Entered
  <2> PICK t \in listening' \intersect inSync' :
         \E k \in 1..Len(roots'[t]) : roots'[t][k] = x /\ ~Pending(t, k)'
      BY DEF Entered
  <2>2. PICK k \in 1..Len(roots'[t]) : roots'[t][k] = x /\ ~Pending(t, k)'
      OBVIOUS
  <2>3. t \in Servers /\ t \in listening \intersect inSync /\ k \in 1..Len(roots[t])
        /\ roots[t][k] = x
      BY <1>2, <2>2 DEF TableInv, RestTypes
  <2>4. ~(t = s /\ k = i)
      BY <2>3 DEF r
  <2>5. ~Pending(t, k)
      BY <1>7, <2>2, <2>3, <2>4
  <2> QED BY <2>1, <2>3, <2>5 DEF Entered
<1>9. Counted'
    BY <1>4, <1>5, <1>8, CountedMore
<1> QED BY <1>2, <1>5, <1>9 DEF PlainInv, RootsOnce

\* A root is announced: once, behind those there were.
LEMMA RootAddedIs ==
    ASSUME TableInv, RootsOnce, NEW s \in Servers, NEW r \in Objects, RootAdded(s, r)
    PROVE  /\ RootsOnce'
           /\ \A t \in Servers : t # s => roots'[t] = roots[t]
           /\ Len(roots'[s]) = Len(roots[s]) + 1
           /\ \A t \in Servers : \A k \in 1..Len(roots'[t]) :
                 \/ k \in 1..Len(roots[t]) /\ roots'[t][k] = roots[t][k]
                 \/ t = s /\ k = Len(roots[s]) + 1 /\ roots'[t][k] = r
<1>1. /\ r \notin announced /\ roots' = [roots EXCEPT ![s] = Append(roots[s], r)]
      /\ announced' = announced \union {r}
    BY DEF RootAdded
<1>2. roots \in [Servers -> Seq(Objects)] /\ roots[s] \in Seq(Objects)
    BY DEF TableInv, RestTypes
<1>3. /\ \A t \in Servers : t # s => roots'[t] = roots[t]
      /\ Len(roots'[s]) = Len(roots[s]) + 1 /\ Len(roots[s]) \in Nat
      /\ \A k \in 1..Len(roots[s]) : roots'[s][k] = roots[s][k]
      /\ roots'[s][Len(roots[s]) + 1] = r
  <2> PICK new : new = Append(roots[s], r)
      OBVIOUS
  <2>1. /\ Len(new) = Len(roots[s]) + 1 /\ Len(roots[s]) \in Nat
        /\ \A k \in 1..Len(roots[s]) : new[k] = roots[s][k]
        /\ new[Len(roots[s]) + 1] = r
      BY <1>2
  <2> QED BY <1>1, <1>2, <2>1
<1>4. ASSUME NEW t \in Servers, NEW k \in 1..Len(roots'[t])
      PROVE  \/ k \in 1..Len(roots[t]) /\ roots'[t][k] = roots[t][k] /\ roots'[t][k] \in announced
             \/ t = s /\ k = Len(roots[s]) + 1 /\ roots'[t][k] = r
  <2>1. CASE t # s
      BY <1>3, <2>1 DEF RootsOnce
  <2>2. CASE t = s /\ k \in 1..Len(roots[s])
      BY <1>3, <2>2 DEF RootsOnce
  <2>3. CASE t = s /\ k \notin 1..Len(roots[s])
      BY <1>3, <2>3
  <2> QED BY <2>1, <2>2, <2>3
<1>5. RootsOnce'
    BY <1>1, <1>4 DEF RootsOnce
<1> QED BY <1>3, <1>4, <1>5

\* It is entered, with its entry, when the table listens.
LEMMA RootAddedPlain ==
    ASSUME ~ClassFilter, TableInv, PlainInv, NEW s \in Servers, NEW r \in Objects, RootAdded(s, r)
    PROVE  PlainInv'
<1>1. Grows
    BY RootAddedEventRows
<1>2. /\ stack = <<>> /\ Len(stack) = 0 /\ r \notin announced
      /\ roots' = [roots EXCEPT ![s] = Append(roots[s], r)]
      /\ announced' = announced \union {r}
      /\ UNCHANGED <<listening, inSync, dropped>>
    BY DEF RootAdded, Idle
<1>3. /\ RootsOnce' /\ \A t \in Servers : t # s => roots'[t] = roots[t]
      /\ \A t \in Servers : \A k \in 1..Len(roots'[t]) :
            \/ k \in 1..Len(roots[t]) /\ roots'[t][k] = roots[t][k]
            \/ t = s /\ k = Len(roots[s]) + 1 /\ roots'[t][k] = r
    BY RootAddedIs DEF PlainInv
<1>4. ASSUME NEW t \in Servers, NEW k \in 1..Len(roots'[t])
      PROVE  \/ k \in 1..Len(roots[t]) /\ roots'[t][k] = roots[t][k]
             \/ t = s /\ k = Len(roots[s]) + 1 /\ roots'[t][k] = r
    BY <1>3
<1>5. RootsOnce'
    BY <1>3
<1>6. IsFiniteSet(announced')
    BY <1>2, FS_AddElement DEF PlainInv
<1>7. CASE s \in inSync /\ s \in listening
  <2>1. TableRootAdded(r, <<>>)
      BY <1>7 DEF RootAdded
  <2>2. AppRows' /\ rootMap' = [rootMap EXCEPT ![App[r]] = rootMap[App[r]] + 1]
      BY <1>2, <2>1, RootRows DEF PlainInv
  <2>3. ASSUME NEW a \in Apps, NEW x \in Entered(a)', x # r PROVE x \in Entered(a)
    <3>1. x \in Objects /\ App[x] = a
        BY DEF Entered
    <3> PICK t \in listening' \intersect inSync' : \E k \in 1..Len(roots'[t]) : roots'[t][k] = x
        BY DEF Entered
    <3>2. PICK k \in 1..Len(roots'[t]) : roots'[t][k] = x
        OBVIOUS
    <3>3. t \in Servers /\ t \in listening \intersect inSync
        BY <1>2 DEF TableInv, RestTypes
    <3>4. k \in 1..Len(roots[t]) /\ roots[t][k] = x
        BY <1>4, <2>3, <3>2, <3>3
    <3>5. ~Pending(t, k)
        BY <1>2 DEF Pending
    <3> QED BY <3>1, <3>3, <3>4, <3>5 DEF Entered
  <2>4. \A a \in Apps : Entered(a)' \subseteq Entered(a) \union (IF App[r] = a THEN {r} ELSE {})
      BY <2>3 DEF Entered
  <2>5. Counted'
      BY <2>2, <2>4, CountedMore
  <2> QED BY <1>5, <1>6, <2>2, <2>5 DEF PlainInv
<1>8. CASE ~(s \in inSync /\ s \in listening)
  <2>1. UNCHANGED <<rows, rootMap, dropped>>
      BY <1>8 DEF RootAdded
  <2>2. EntersNoRoot
      BY <1>2, <1>3, <1>8 DEF EntersNoRoot, Pending, TableInv, RestTypes
  <2> QED BY <1>1, <1>5, <1>6, <2>1, <2>2, QuietPlain
<1> QED BY <1>7, <1>8

\* A root goes away: the others keep their order.
LEMMA RootRemovedIs ==
    ASSUME TableInv, RootsOnce, NEW s \in Servers, NEW r \in Objects, RootRemoved(s, r)
    PROVE  /\ RootsOnce'
           /\ \E i \in 1..Len(roots[s]) : roots[s][i] = r
           /\ \A t \in Servers : \A k \in 1..Len(roots'[t]) :
                 roots'[t][k] # r /\ \E h \in 1..Len(roots[t]) : roots'[t][k] = roots[t][h]
<1>1. announced' = announced
    BY DEF RootRemoved
<1>2. roots \in [Servers -> Seq(Objects)] /\ roots[s] \in Seq(Objects)
    BY DEF TableInv, RestTypes
<1>3. PICK i \in 1..Len(roots[s]) :
         roots[s][i] = r /\ roots' = [roots EXCEPT ![s] = RemoveAt(roots[s], i)]
  <2>1. DOMAIN roots[s] = 1..Len(roots[s])
      BY <1>2
  <2> QED BY <2>1 DEF RootRemoved
<1>4. /\ \A t \in Servers : t # s => roots'[t] = roots[t]
      /\ Len(roots'[s]) = Len(roots[s]) - 1 /\ Len(roots[s]) \in Nat /\ i \in Nat
      /\ \A k \in 1..Len(roots'[s]) : roots'[s][k] = roots[s][IF k < i THEN k ELSE k + 1]
  <2> PICK new : new = RemoveAt(roots[s], i)
      OBVIOUS
  <2>1. /\ Len(new) = Len(roots[s]) - 1
        /\ \A k \in 1..Len(new) : new[k] = roots[s][IF k < i THEN k ELSE k + 1]
      BY <1>2, RemovedAt
  <2> QED BY <1>2, <1>3, <2>1
\* Where the k-th root of t was.
<1> DEFINE was(t, k) == IF t = s /\ ~(k < i) THEN k + 1 ELSE k
<1>5. ASSUME NEW t \in Servers, NEW k \in 1..Len(roots'[t])
      PROVE  /\ k \in Nat /\ was(t, k) \in 1..Len(roots[t]) /\ roots'[t][k] = roots[t][was(t, k)]
             /\ ~(t = s /\ was(t, k) = i)
  <2>1. CASE t = s
      BY <1>4, <2>1
  <2>2. CASE t # s
    <3>1. roots[t] \in Seq(Objects) /\ was(t, k) = k
        BY <1>2, <2>2
    <3>2. roots'[t] = roots[t] /\ k \in 1..Len(roots[t])
        BY <1>4, <2>2
    <3> QED BY <2>2, <3>1, <3>2
  <2> QED BY <2>1, <2>2
<1>6. \A t \in Servers : \A k, h \in Nat : was(t, k) = was(t, h) => k = h
    BY <1>4
<1> HIDE DEF was
<1>7. RootsOnce'
  <2>1. ASSUME NEW t \in Servers, NEW k \in 1..Len(roots'[t]) PROVE roots'[t][k] \in announced'
    <3>1. was(t, k) \in 1..Len(roots[t]) /\ roots'[t][k] = roots[t][was(t, k)]
        BY <1>5
    <3>2. roots[t][was(t, k)] \in announced
        BY <3>1 DEF RootsOnce
    <3> QED BY <1>1, <3>1, <3>2
  <2>2. ASSUME NEW t \in Servers, NEW u \in Servers,
               NEW k \in 1..Len(roots'[t]), NEW h \in 1..Len(roots'[u]),
               roots'[t][k] = roots'[u][h]
        PROVE  t = u /\ k = h
    <3>1. /\ was(t, k) \in 1..Len(roots[t]) /\ was(u, h) \in 1..Len(roots[u])
          /\ roots[t][was(t, k)] = roots[u][was(u, h)]
        BY <1>5, <2>2
    <3>2. t = u /\ was(t, k) = was(u, h)
        BY <3>1 DEF RootsOnce
    <3> QED BY <1>5, <1>6, <3>2
  <2> QED BY <2>1, <2>2 DEF RootsOnce
<1>8. ASSUME NEW t \in Servers, NEW k \in 1..Len(roots'[t])
      PROVE  roots'[t][k] # r /\ \E h \in 1..Len(roots[t]) : roots'[t][k] = roots[t][h]
    BY <1>3, <1>5 DEF RootsOnce
<1> QED BY <1>3, <1>7, <1>8

\* Its entry goes with it.
LEMMA RootRemovedPlain ==
    ASSUME TableInv, PlainInv, NEW s \in Servers, NEW r \in Objects, RootRemoved(s, r)
    PROVE  PlainInv'
<1>1. Grows /\ UNCHANGED <<rows, stack, announced, listening, inSync>> /\ stack = <<>>
  <2>1. UNCHANGED <<rows, varOn, stack, announced, listening, inSync>> /\ stack = <<>>
      BY DEF RootRemoved, EraseRoot, Idle
  <2> QED BY <2>1, QuietRows DEF TableInv
<1>2. /\ RootsOnce' /\ \E i \in 1..Len(roots[s]) : roots[s][i] = r
      /\ \A t \in Servers : \A k \in 1..Len(roots'[t]) :
            roots'[t][k] # r /\ \E h \in 1..Len(roots[t]) : roots'[t][k] = roots[t][h]
    BY RootRemovedIs DEF PlainInv
<1>3. PICK i \in 1..Len(roots[s]) : roots[s][i] = r
    BY <1>2
<1>4. RootsOnce'
    BY <1>2
<1>5. IsFiniteSet(announced')
    BY <1>1 DEF PlainInv
<1>6. ASSUME NEW a \in Apps, NEW x \in Entered(a)' PROVE x \in Entered(a) \ {r}
  <2>1. x \in Objects /\ App[x] = a
      BY DEF Entered
  <2> PICK t \in listening' \intersect inSync' : \E k \in 1..Len(roots'[t]) : roots'[t][k] = x
      BY DEF Entered
  <2>2. PICK k \in 1..Len(roots'[t]) : roots'[t][k] = x
      OBVIOUS
  <2>3. t \in Servers /\ t \in listening \intersect inSync
      BY <1>1 DEF TableInv, RestTypes
  <2>4. x # r /\ \E h \in 1..Len(roots[t]) : roots[t][h] = x
      BY <1>2, <2>2, <2>3
  <2>5. \A h : ~Pending(t, h)
    <3>1. Len(stack) = 0
        BY <1>1
    <3> QED BY <3>1 DEF Pending
  <2> QED BY <2>1, <2>3, <2>4, <2>5 DEF Entered
<1>7. \A a \in Apps : Entered(a)' \subseteq Entered(a) \ {r}
    BY <1>6
<1>8. CASE s \in inSync /\ s \in listening
  <2>1. EraseRoot(App[r]) /\ App[r] \in Apps
      BY <1>8, MappingAssumption DEF RootRemoved
  <2>2. r \in Entered(App[r])
    <3>1. Len(stack) = 0
        BY <1>1
    <3>2. ~Pending(s, i)
        BY <3>1 DEF Pending
    <3> QED BY <1>3, <1>8, <3>2 DEF Entered
  <2>3. Counted'
      BY <1>7, <2>1, <2>2, CountedLess
  <2>4. AppRows'
      BY <2>1, EraseRows DEF PlainInv
  <2> QED BY <1>4, <1>5, <2>3, <2>4 DEF PlainInv
<1>9. CASE ~(s \in inSync /\ s \in listening)
  <2>1. UNCHANGED <<rootMap, dropped>>
      BY <1>9 DEF RootRemoved
  <2>2. Counted'
    <3>1. \A a \in Apps : Entered(a)' \subseteq Entered(a)
        BY <1>7
    <3> QED BY <2>1, <3>1, CountedSame
  <2>3. AppRows'
      BY <1>1, <2>1, SameRows DEF PlainInv
  <2> QED BY <1>4, <1>5, <2>2, <2>3 DEF PlainInv
<1> QED BY <1>8, <1>9

\* A server goes away, its roots with it, or is given up.
LEMMA ServerGonePlain ==
    ASSUME TableInv, PlainInv, NEW s \in Servers, ServerRemoved(s) \/ ServerError(s)
    PROVE  PlainInv'
<1>1. /\ UNCHANGED <<rows, varOn, stack, announced, rootMap, dropped>> /\ stack = <<>>
      /\ listening' = listening \ {s} /\ inSync' \subseteq inSync
      /\ roots' = roots \/ roots' = [roots EXCEPT ![s] = <<>>]
    BY DEF ServerRemoved, ServerError, rmc, tableVars, Idle
<1>2. Grows
    BY <1>1, QuietRows DEF TableInv
<1>3. roots \in [Servers -> Seq(Objects)]
    BY DEF TableInv, RestTypes
<1>4. \A t \in Servers : roots'[t] = roots[t] \/ (t = s /\ Len(roots'[t]) = 0)
    BY <1>1, <1>3
<1>5. RootsOnce' /\ IsFiniteSet(announced')
    BY <1>1, <1>4 DEF PlainInv, RootsOnce
<1>6. EntersNoRoot
  <2>1. \A t \in listening' \intersect inSync' :
           t \in Servers /\ t \in listening \intersect inSync /\ roots'[t] = roots[t]
      BY <1>1, <1>4 DEF TableInv, RestTypes
  <2>2. Len(stack) = 0
      BY <1>1
  <2> QED BY <2>1, <2>2 DEF EntersNoRoot, Pending
<1> QED BY <1>1, <1>2, <1>5, <1>6, QuietPlain

\* A server is in sync: the loop over its roots is the next call, if the table
\* listens to it.
LEMMA ServerSyncPlain ==
    ASSUME TableInv, PlainInv, NEW s \in Servers, ServerSync(s) PROVE PlainInv'
<1>1. Grows /\ UNCHANGED <<rows, roots, announced, listening, rootMap, dropped>>
      /\ stack = <<>> /\ inSync' = inSync \union {s}
      /\ stack' = When(s \in listening, ServerFrame(s, 1))
    BY ServerEventRows DEF ServerSync, tableVars, Idle
<1>2. RootsOnce' /\ IsFiniteSet(announced')
    BY <1>1 DEF PlainInv, RootsOnce
<1>3. ASSUME s \in listening, NEW k \in Nat \ {0} PROVE Pending(s, k)'
  <2> PICK frame : frame = ServerFrame(s, 1)
      OBVIOUS
  <2>1. frame.op = "server" /\ frame.at = s /\ frame.i = 1
      BY DEF ServerFrame, Frame
  <2>2. stack' = <<frame>>
      BY <1>1, <1>3 DEF When
  <2>3. 1 \in 1..Len(stack') /\ stack'[1] = frame
      BY <2>2
  <2> QED BY <2>1, <2>3 DEF Pending
<1>4. EntersNoRoot
  <2> SUFFICES ASSUME NEW t \in listening' \intersect inSync', NEW k \in 1..Len(roots'[t]),
                      ~Pending(t, k)'
               PROVE  /\ t \in listening \intersect inSync /\ k \in 1..Len(roots[t])
                      /\ roots'[t][k] = roots[t][k] /\ ~Pending(t, k)
      BY DEF EntersNoRoot
  <2>1. t \in Servers /\ k \in Nat \ {0}
    <3>1. t \in Servers
        BY <1>1 DEF TableInv, RestTypes
    <3>2. roots[t] \in Seq(Objects)
        BY <3>1 DEF TableInv, RestTypes
    <3> QED BY <1>1, <3>1, <3>2
  <2>2. t # s
      BY <1>1, <1>3, <2>1
  <2>3. Len(stack) = 0
      BY <1>1
  <2>4. ~Pending(t, k)
      BY <2>3 DEF Pending
  <2> QED BY <1>1, <2>2, <2>4
<1> QED BY <1>1, <1>2, <1>4, QuietPlain

\* Every step of a table without a class filter, the walk among them, which it
\* never comes to.
LEMMA NextPlain ==
    ASSUME ~ClassFilter, TableInv, PlainInv, [Next]_vars PROVE PlainInv'
<1>1. Grows /\ Under
    BY NextTable
<1>2. CASE UNCHANGED vars
  <2>1. /\ UNCHANGED <<rows, roots, announced, inSync, listening, rootMap, dropped, stack>>
      BY <1>2 DEF vars, rmc, tableVars
  <2>2. RootsOnce' /\ IsFiniteSet(announced')
      BY <2>1 DEF PlainInv, RootsOnce
  <2>3. EntersNoRoot
      BY <2>1 DEF EntersNoRoot, Pending
  <2> QED BY <1>1, <2>1, <2>2, <2>3, QuietPlain
<1>3. CASE AddServerPool
  <2>1. /\ UNCHANGED <<rows, roots, announced, inSync, listening, rootMap, dropped>>
        /\ stack = <<>>
      BY <1>3 DEF AddServerPool, rmc, tableVars, Idle
  <2> QED BY <1>1, <2>1, RowStepPlain
<1>4. CASE MainStep
  <2>1. ~TableWalk
    <3> SUFFICES ASSUME TableWalk PROVE FALSE
        OBVIOUS
    <3>1. Head(stack) \in WalkFrames
        BY TopFrame DEF TableWalk, Executing, TableInv
    <3> QED BY <3>1 DEF WalkFrames, Filtered
  <2>2. CASE TableServerAdded
      BY <2>2, ServerAddedPlain
  <2>3. CASE TableServerSync
      BY <2>3, ServerEndsPlain, ServerRootPlain
  <2>4. CASE RowColumn \/ VariableSync \/ VariableKids
    <3>1. Len(rows') = Len(rows)
        BY <2>4, RowColumnInv, VariableSyncInv, VariableKidsInv DEF TableInv
    <3>2. Head(stack).op # "server"
        BY <2>4 DEF RowColumn, VariableSync, VariableKids, Executing
    <3>3. UNCHANGED <<roots, announced, inSync, listening, rootMap, dropped>>
        BY <2>4 DEF RowColumn, VariableSync, VariableKids, rmc
    <3> QED BY <1>1, <3>1, <3>2, <3>3, RowStepPlain
  <2> QED BY <1>4, <2>1, <2>2, <2>3, <2>4 DEF MainStep
<1>5. CASE RmcEvent
  <2>1. ASSUME NEW s \in Servers, ServerAdded(s) PROVE PlainInv'
    <3>1. /\ UNCHANGED <<rows, roots, announced, inSync, listening, rootMap, dropped>>
          /\ stack = <<>>
        BY <2>1 DEF ServerAdded, tableVars, Idle
    <3> QED BY <1>1, <3>1, RowStepPlain
  <2>2. ASSUME NEW o \in Objects, ObjectSync(o) \/ ObjectError(o) \/ ChildAdded(o)
        PROVE  PlainInv'
    <3>1. /\ UNCHANGED <<rows, roots, announced, inSync, listening, rootMap, dropped>>
          /\ stack = <<>>
        BY <2>2 DEF ObjectSync, ObjectError, ChildAdded, tableVars, Idle
    <3> QED BY <1>1, <3>1, RowStepPlain
  <2> QED BY <1>5, <2>1, <2>2, ServerGonePlain, ServerSyncPlain, RootAddedPlain,
             RootRemovedPlain DEF RmcEvent
<1> QED BY <1>2, <1>3, <1>4, <1>5 DEF Next

\* Between two events the table has come to every connected root.
LEMMA LiveRootCounted ==
    ASSUME TableInv, PlainInv, stack = <<>>, NEW r \in LiveRoots
    PROVE  r \in Objects /\ App[r] \in Apps /\ rootMap[App[r]] > 0
<1> PICK s \in listening \intersect inSync : r \in ToSet(roots[s])
    BY DEF LiveRoots
<1>1. s \in Servers /\ roots[s] \in Seq(Objects)
    BY DEF TableInv, RestTypes
<1>2. PICK k \in 1..Len(roots[s]) : roots[s][k] = r
    BY <1>1 DEF ToSet
<1>3. r \in Objects /\ App[r] \in Apps
    BY <1>1, <1>2, MappingAssumption
<1>4. r \in Entered(App[r])
  <2>1. Len(stack) = 0
      OBVIOUS
  <2>2. ~Pending(s, k)
      BY <2>1 DEF Pending
  <2> QED BY <1>2, <1>3, <2>2 DEF Entered
<1>5. IsFiniteSet(Entered(App[r])) /\ Cardinality(Entered(App[r])) \in Nat
    BY EnteredFinite DEF PlainInv, TableInv, RestTypes
<1>6. Cardinality(Entered(App[r])) # 0
    BY <1>4, <1>5, FS_EmptySet
<1>7. Cardinality(Entered(App[r])) <= rootMap[App[r]] /\ rootMap[App[r]] \in Nat
    BY <1>3 DEF PlainInv, Counted, TableInv, RestTypes
<1> QED BY <1>3, <1>5, <1>6, <1>7

----------------------------------------------------------------------------

\* The rows of a table without a class filter, and root_map_, are what the
\* roots say, in every state.
THEOREM PlainInductive == ~ClassFilter => (Spec => [](TableInv /\ PlainInv))
<1> SUFFICES ASSUME ~ClassFilter PROVE Spec => [](TableInv /\ PlainInv)
    OBVIOUS
<1> DEFINE Inv == TableInv /\ PlainInv
<1>1. Init => Inv
    BY InitTable, InitPlain
<1>2. Inv /\ [Next]_vars => Inv'
    BY NextTable, NextPlain
<1> QED
  <2> HIDE DEF Inv
  <2>1. Spec => []Inv
      BY <1>1, <1>2, PTL DEF Spec
  <2> QED BY <2>1 DEF Inv

\* An application has a second row only if root_map_ lost an entry of it.
THEOREM OneRowEach == Spec => []OneRowPerApp
<1> DEFINE Inv == TableInv /\ (~ClassFilter => PlainInv)
<1>1. Init => Inv
    BY InitTable, InitPlain
<1>2. Inv /\ [Next]_vars => Inv'
    BY NextTable, NextPlain
<1>3. Inv => OneRowPerApp
    BY DEF PlainInv, AppRows, OneRow, AppOf, OneRowPerApp
<1> QED
  <2> HIDE DEF Inv
  <2> QED BY <1>1, <1>2, <1>3, PTL DEF Spec

\* Between two events every connected application has a row: of each root the
\* table has come to, root_map_ has an entry, and with an entry goes a row.
THEOREM AppsAlwaysHaveRows == Spec => []AppsHaveRows
<1> DEFINE Inv == TableInv /\ (~ClassFilter => PlainInv)
<1>1. Init => Inv
    BY InitTable, InitPlain
<1>2. Inv /\ [Next]_vars => Inv'
    BY NextTable, NextPlain
<1>3. Inv => AppsHaveRows
  <2> SUFFICES ASSUME Inv, Idle, ~ClassFilter, NEW r \in LiveRoots
               PROVE  \E n \in 1..Len(rows) : App[rows[n].obj] = App[r]
      BY DEF AppsHaveRows
  <2>1. r \in Objects /\ App[r] \in Apps /\ rootMap[App[r]] > 0
      BY LiveRootCounted DEF Idle
  <2> QED BY <2>1 DEF PlainInv, AppRows, EntriesHaveRows, AppOf
<1> QED
  <2> HIDE DEF Inv
  <2> QED BY <1>1, <1>2, <1>3, PTL DEF Spec

\* Without a class filter, the application of a root that goes away has an
\* entry, so that find() never returns end() to the erase().
THEOREM EraseFindsEntry == ~ClassFilter => (Spec => RootRemovedFindsEntry)
<1> SUFFICES ASSUME ~ClassFilter PROVE Spec => RootRemovedFindsEntry
    OBVIOUS
<1>1. TableInv /\ PlainInv /\ [Next]_vars =>
         \A s \in listening \intersect inSync, r \in Objects :
            RootRemoved(s, r) => rootMap[App[r]] > 0
  <2> SUFFICES ASSUME TableInv, PlainInv, NEW s \in listening \intersect inSync,
                      NEW r \in Objects, RootRemoved(s, r)
               PROVE  rootMap[App[r]] > 0
      OBVIOUS
  <2>1. r \in LiveRoots /\ Idle
      BY DEF RootRemoved, LiveRoots, ToSet
  <2> QED BY <2>1, LiveRootCounted DEF Idle
<1> QED BY <1>1, PlainInductive, PTL DEF Spec, RootRemovedFindsEntry

----------------------------------------------------------------------------
(* A table with a class filter: one row per object.  What carries it is     *)
(* that the walks on the stack are down one path of the tree, and that a    *)
(* walk still has before it only children the table has not come to         *)
(* (FrameReady), unless something above its object has synced twice.        *)

Twice(o) == \E p \in Above[o] : syncs[p] > 1

\* The inner handler f, and g that waits for it.
Apart(f, g) ==
    /\ f.op = "walk" /\ g.op = "walk" => f.at # g.at /\ Below(g.at, f.at)
    /\ f.op \in {"added", "server"} =>
          g.op # "walk" /\ (g.op \in {"added", "server"} => f.at # g.at)

NoKidFrom(o, i) == \A l \in DOMAIN Kids[o] : i <= l => Kids[o][l] \notin tableOn
NoRootFrom(s, i) == \A l \in 1..Len(roots[s]) : i <= l => roots[s][l] \notin tableOn

FrameReady(f) ==
    /\ f.op = "walk" => /\ f.at \in tableOn /\ InSync(f.at) /\ f.i # 0
                        /\ Twice(f.at) \/ NoKidFrom(f.at, f.i)
    /\ f.op = "server" => f.at \in inSync /\ subscribed /\ NoRootFrom(f.at, f.i)
    /\ f.op = "added" => subscribed /\ NoRootFrom(f.at, 0)

FramesReady == \A j \in 1..Len(stack) : FrameReady(stack[j])
FramesApart == \A i, j \in 1..Len(stack) : i < j => Apart(stack[i], stack[j])

\* The table comes to a child from its parent, when that is in sync.
FromParent ==
    \A o \in Objects : \A k \in KidSet(o) : k \in tableOn => o \in tableOn /\ InSync(o)

\* ... and to a root from its server.
FromServer ==
    /\ RootsOnce /\ tableOn \intersect AllRoots \subseteq announced
    /\ \A s \in Servers : \A l \in 1..Len(roots[s]) :
          roots[s][l] \in Roots[s] /\ (roots[s][l] \in tableOn => s \in inSync /\ subscribed)
    /\ inSync \subseteq pool /\ (listening # {} => subscribed)

RowsOnce ==
    /\ \A n \in 1..Len(rows) : rows[n].obj \in tableOn
    /\ \A m, n \in 1..Len(rows) : rows[m].obj = rows[n].obj => m = n \/ Twice(rows[m].obj)

ClassInv == FramesReady /\ FramesApart /\ FromParent /\ FromServer /\ RowsOnce

\* Nothing is connected, no object has a client.
LEMMA InitClass == Init => ClassInv
<1> SUFFICES ASSUME Init PROVE ClassInv
    OBVIOUS
<1>1. Len(stack) = 0 /\ Len(rows) = 0 /\ tableOn = {} /\ \A s \in Servers : Len(roots[s]) = 0
    BY DEF Init
<1>2. FramesReady /\ FramesApart
    BY <1>1 DEF FramesReady, FramesApart
<1>3. FromParent
    BY <1>1 DEF FromParent
<1>4. FromServer
    BY <1>1 DEF FromServer, RootsOnce, Init
<1>5. RowsOnce
    BY <1>1 DEF RowsOnce
<1> QED BY <1>2, <1>3, <1>4, <1>5 DEF ClassInv

\* What has synced twice has.
LEMMA TwiceKept == ASSUME SyncsGrow PROVE \A o \in Objects : Twice(o) => Twice(o)'
<1> SUFFICES ASSUME NEW o \in Objects, NEW p \in Above[o], syncs[p] > 1 PROVE Twice(o)'
    BY DEF Twice
<1>1. p \in Objects
    BY AboveIs
<1>2. syncs'[p] > 1
    BY <1>1 DEF SyncsGrow
<1> QED BY <1>2 DEF Twice

\* What is above a parent is above its children.
LEMMA TwiceBelow == ASSUME NEW o \in Objects, NEW k \in KidSet(o), Twice(o) PROVE Twice(k)
<1>1. PICK p \in Above[o] : syncs[p] > 1
    BY DEF Twice
<1>2. k \in Objects
    BY OneParent
<1>3. Below(p, o) /\ Below(o, k)
    BY <1>1, <1>2, BelowSelf, ParentAbove DEF Below
<1>4. p \in Above[k]
    BY <1>3, BelowTransitive DEF Below
<1> QED BY <1>1, <1>4 DEF Twice

\* No object is its own child, nor above its parent.
LEMMA ChildApart ==
    ASSUME NEW o \in Objects, NEW k \in KidSet(o)
    PROVE  /\ k \in Objects /\ k # o /\ Below(o, k) /\ ~Below(k, o)
<1>1. k \in Objects /\ ~Below(k, o)
    BY OneParent, PathsAssumption DEF Below
<1>2. Below(o, k)
    BY <1>1, BelowSelf, ParentAbove
<1> QED BY <1>1, <1>2

\* A root is no child.
LEMMA RootNoChild ==
    ASSUME NEW s \in Servers, NEW r \in Roots[s], NEW o \in Objects PROVE r \notin KidSet(o)
BY TreeAssumption

\* The frames that are pushed are apart from one another and from those that wait.
LEMMA ApartCalls ==
    ASSUME RowsInv, FramesApart, NEW frames \in Seq(FramesFor(Len(rows))), Calls(frames),
           \A i, j \in 1..Len(frames) : i < j => Apart(frames[i], frames[j]),
           \A i \in 1..Len(frames), j \in 1..Len(stack) : j > 1 => Apart(frames[i], stack[j])
    PROVE  FramesApart'
<1> SUFFICES ASSUME NEW i \in 1..Len(stack'), NEW j \in 1..Len(stack'), i < j
             PROVE  Apart(stack'[i], stack'[j])
    BY DEF FramesApart, Apart
<1>1. Len(frames) \in Nat
    OBVIOUS
<1>2. CASE i \in 1..Len(frames) /\ stack'[i] = frames[i]
    BY <1>1, <1>2, CalledOrWaiting
<1>3. CASE i > Len(frames) /\ \E h \in 1..Len(stack) :
              h > 1 /\ h = i - Len(frames) + 1 /\ stack'[i] = stack[h]
  <2>1. PICK h \in 1..Len(stack) : h = i - Len(frames) + 1 /\ stack'[i] = stack[h]
      BY <1>3
  <2>2. ~(j \in 1..Len(frames))
      BY <1>1, <1>3
  <2>3. PICK g \in 1..Len(stack) : g = j - Len(frames) + 1 /\ stack'[j] = stack[g]
    <3>1. \/ j \in 1..Len(frames) /\ stack'[j] = frames[j]
          \/ j > Len(frames) /\ \E g \in 1..Len(stack) :
                g > 1 /\ g = j - Len(frames) + 1 /\ stack'[j] = stack[g]
        BY CalledOrWaiting
    <3> QED BY <2>2, <3>1
  <2>4. h < g
      BY <1>1, <2>1, <2>3
  <2> QED BY <2>1, <2>3, <2>4 DEF FramesApart
<1> QED BY <1>2, <1>3, CalledOrWaiting

\* What a frame is ready for stays when the table comes to k, if k is not one of
\* the children or roots it has before it.
LEMMA ReadyKept ==
    ASSUME NEW k, tableOn' \subseteq tableOn \union {k}, tableOn \subseteq tableOn',
           UNCHANGED <<syncs, inSync, roots, subscribed>>,
           NEW f, FrameReady(f),
           f.op = "walk" => \A l \in DOMAIN Kids[f.at] : Kids[f.at][l] # k,
           f.op \in {"server", "added"} => \A l \in 1..Len(roots[f.at]) : roots[f.at][l] # k
    PROVE  FrameReady(f)'
BY DEF FrameReady, Twice, NoKidFrom, NoRootFrom, InSync

\* A call at the end, or none.
EndsWith(S, c, rest, w, frames) ==
    c \in S /\ rest \in Seq(S) /\ w \in {<<>>, <<c>>} /\ frames = rest \o w

\* They are that many, in that order.
LEMMA LastCall ==
    ASSUME NEW S, NEW c, NEW rest, NEW w, NEW frames, EndsWith(S, c, rest, w, frames)
    PROVE  /\ frames \in Seq(S) /\ Len(rest) \in Nat
           /\ \A i \in 1..Len(rest) : i \in 1..Len(frames) /\ frames[i] = rest[i]
           /\ w # <<>> => Len(rest) + 1 \in 1..Len(frames) /\ frames[Len(rest) + 1] = c
           /\ \A i \in 1..Len(frames) :
                 i \in 1..Len(rest) \/ (w # <<>> /\ i = Len(rest) + 1)
<1> USE DEF EndsWith
<1>1. CASE w = <<>>
  <2>1. frames = rest
      BY <1>1
  <2> QED BY ONLY <1>1, <2>1, rest \in Seq(S)
<1>2. CASE w = <<c>>
  <2>1. w # <<>>
      BY <1>2
  <2>2. c \in S /\ rest \in Seq(S) /\ frames = rest \o <<c>>
      BY <1>2
  <2>3. /\ frames \in Seq(S) /\ Len(rest) \in Nat /\ Len(frames) = Len(rest) + 1
        /\ \A i \in 1..Len(rest) : frames[i] = rest[i]
        /\ frames[Len(rest) + 1] = c
      BY ONLY <2>2
  <2> QED BY ONLY <2>1, <2>3
<1> QED BY <1>1, <1>2

\* Up to three calls, in this order.
UpToThree(S, a, b, c, x, y, w, frames) ==
    /\ {a, b, c} \subseteq S
    /\ x \in {<<>>, <<a>>} /\ y \in {<<>>, <<b>>} /\ w \in {<<>>, <<c>>}
    /\ frames = (x \o y) \o w

\* Those that are there keep their order, and there are no others.
LEMMA ThreeCalls ==
    ASSUME NEW S, NEW a, NEW b, NEW c, NEW x, NEW y, NEW w, NEW frames,
           UpToThree(S, a, b, c, x, y, w, frames)
    PROVE  /\ frames \in Seq(S)
           /\ \A i \in 1..Len(frames) :
                 \/ x # <<>> /\ frames[i] = a
                 \/ y # <<>> /\ frames[i] = b
                 \/ w # <<>> /\ frames[i] = c
           /\ \A i, j \in 1..Len(frames) : i < j =>
                 \/ x # <<>> /\ frames[i] = a
                 \/ frames[i] = b /\ w # <<>> /\ frames[j] = c
           /\ y # <<>> => \E i \in 1..Len(frames) : frames[i] = b
           /\ w # <<>> => \E i \in 1..Len(frames) : frames[i] = c
<1> PICK xy : xy = x \o y
    OBVIOUS
<1> USE DEF UpToThree
<1>1. /\ x \in Seq(S) /\ Len(x) \in Nat
      /\ \A i \in 1..Len(x) : i = 1 /\ x # <<>> /\ x[i] = a
  <2>1. CASE x = <<>>
      BY ONLY <2>1
  <2>2. CASE x = <<a>>
    <3>1. a \in S
        OBVIOUS
    <3> QED BY ONLY <2>2, <3>1
  <2> QED BY <2>1, <2>2
<1>2. /\ xy \in Seq(S)
      /\ \A i \in 1..Len(x) : i \in 1..Len(xy) /\ xy[i] = x[i]
      /\ y # <<>> => Len(x) + 1 \in 1..Len(xy) /\ xy[Len(x) + 1] = b
      /\ \A i \in 1..Len(xy) : i \in 1..Len(x) \/ (y # <<>> /\ i = Len(x) + 1)
  <2>1. EndsWith(S, b, x, y, xy)
      BY <1>1 DEF EndsWith
  <2> QED BY ONLY <2>1, LastCall
<1>3. /\ frames \in Seq(S) /\ Len(xy) \in Nat
      /\ \A i \in 1..Len(xy) : i \in 1..Len(frames) /\ frames[i] = xy[i]
      /\ w # <<>> => Len(xy) + 1 \in 1..Len(frames) /\ frames[Len(xy) + 1] = c
      /\ \A i \in 1..Len(frames) : i \in 1..Len(xy) \/ (w # <<>> /\ i = Len(xy) + 1)
  <2>1. EndsWith(S, c, xy, w, frames)
      BY <1>2 DEF EndsWith
  <2> QED BY ONLY <2>1, LastCall
<1>4. ASSUME NEW i \in 1..Len(frames)
      PROVE  \/ i \in 1..Len(x) /\ x # <<>> /\ frames[i] = a
             \/ i = Len(x) + 1 /\ i \in 1..Len(xy) /\ y # <<>> /\ frames[i] = b
             \/ i = Len(xy) + 1 /\ w # <<>> /\ frames[i] = c
  <2>1. i \in 1..Len(frames)
      OBVIOUS
  <2> QED BY ONLY <1>1, <1>2, <1>3, <2>1
<1>5. ASSUME NEW i \in 1..Len(frames), NEW j \in 1..Len(frames), i < j
      PROVE  \/ x # <<>> /\ frames[i] = a
             \/ frames[i] = b /\ w # <<>> /\ frames[j] = c
  <2>1. i \in 1..Len(frames) /\ j \in 1..Len(frames) /\ i < j
      BY <1>5
  <2>2. CASE i = Len(x) + 1 /\ i \in 1..Len(xy) /\ y # <<>> /\ frames[i] = b
    <3>1. ~(j \in 1..Len(x)) /\ j # Len(x) + 1
        BY ONLY <1>1, <2>1, <2>2
    <3> QED BY <1>4, <2>2, <3>1
  <2>3. CASE i = Len(xy) + 1
    <3>1. ~(j \in 1..Len(xy)) /\ j # Len(xy) + 1
        BY ONLY <1>3, <2>1, <2>3
    <3> QED BY <1>3, <3>1
  <2> QED BY <1>4, <2>2, <2>3
<1>6. y # <<>> => \E i \in 1..Len(frames) : frames[i] = b
    BY ONLY <1>2, <1>3
<1>7. w # <<>> => \E i \in 1..Len(frames) : frames[i] = c
    BY ONLY <1>3
<1> QED BY ONLY <1>3, <1>4, <1>5, <1>6, <1>7

\* The calls for an object the table comes to, before those of the loop.
EntersBefore(n, k, f, next, frames) ==
    /\ n \in Nat /\ k \in Filtered /\ f \in FramesFor(n) /\ next \in {<<>>, <<f>>}
    /\ frames = RowThenWalk(k) \o next

\* The row first, then the walk of the object, then the loop that came to it.
LEMMA EnterCalls ==
    ASSUME NEW n, NEW k, NEW f, NEW next, NEW frames, EntersBefore(n, k, f, next, frames)
    PROVE  /\ frames \in Seq(FramesFor(n))
           /\ \A i \in 1..Len(frames) :
                 \/ frames[i].op = "row"
                 \/ InSync(k) /\ frames[i] = WalkFrame(k, 1)
                 \/ next # <<>> /\ frames[i] = f
           /\ \A i, j \in 1..Len(frames) : i < j =>
                 frames[i].op = "row" \/ (frames[i] = WalkFrame(k, 1) /\ next # <<>> /\ frames[j] = f)
           /\ InSync(k) => \E i \in 1..Len(frames) : frames[i] = WalkFrame(k, 1)
           /\ next # <<>> => \E i \in 1..Len(frames) : frames[i] = f
<1> USE DEF EntersBefore
<1> PICK row : row = RowFrame(k, 1)
    OBVIOUS
<1> PICK walk : walk = WalkFrame(k, 1)
    OBVIOUS
<1>1. row \in FramesFor(n) /\ walk \in FramesFor(n)
  <2>1. k \in Objects /\ walk \in CallerFrames
      BY PushedFrames DEF Filtered
  <2> QED BY <2>1, CallerFrame
<1>2. row.op = "row"
    BY DEF RowFrame, Frame
<1> PICK x : x = When(k \in Class, row)
    OBVIOUS
<1> PICK y : y = When(InSync(k), walk)
    OBVIOUS
<1>3. /\ x \in {<<>>, <<row>>} /\ y \in {<<>>, <<walk>>} /\ next \in {<<>>, <<f>>}
      /\ (y # <<>> <=> InSync(k))
      /\ frames = (x \o y) \o next
    BY DEF RowThenWalk, When
<1>4. /\ frames \in Seq(FramesFor(n))
      /\ \A i \in 1..Len(frames) :
            \/ x # <<>> /\ frames[i] = row
            \/ y # <<>> /\ frames[i] = walk
            \/ next # <<>> /\ frames[i] = f
      /\ \A i, j \in 1..Len(frames) : i < j =>
            \/ x # <<>> /\ frames[i] = row
            \/ frames[i] = walk /\ next # <<>> /\ frames[j] = f
      /\ y # <<>> => \E i \in 1..Len(frames) : frames[i] = walk
      /\ next # <<>> => \E i \in 1..Len(frames) : frames[i] = f
  <2> PICK S : S = FramesFor(n)
      OBVIOUS
  <2>1. UpToThree(S, row, walk, f, x, y, next, frames)
      BY <1>1, <1>3 DEF UpToThree
  <2>2. /\ frames \in Seq(S)
        /\ \A i \in 1..Len(frames) :
              \/ x # <<>> /\ frames[i] = row
              \/ y # <<>> /\ frames[i] = walk
              \/ next # <<>> /\ frames[i] = f
        /\ \A i, j \in 1..Len(frames) : i < j =>
              \/ x # <<>> /\ frames[i] = row
              \/ frames[i] = walk /\ next # <<>> /\ frames[j] = f
        /\ y # <<>> => \E i \in 1..Len(frames) : frames[i] = walk
        /\ next # <<>> => \E i \in 1..Len(frames) : frames[i] = f
      BY ONLY <2>1, ThreeCalls
  <2> QED BY <2>2
<1> QED BY <1>2, <1>3, <1>4

\* The table comes to k, its children after that.
Comes(k, next) ==
    /\ tableOn' = tableOn \union {k}
    /\ \E b \in BOOLEAN : rows' = IF k \in Class THEN Append(rows, NewRow(k, b)) ELSE rows
    /\ Calls(RowThenWalk(k) \o next)
    /\ syncs' = syncs

\* It comes to one twice only if something above that has synced twice; the row
\* is of a new object else.
LEMMA ComesRows ==
    ASSUME TableInv, RowsOnce, NEW k \in Filtered, NEW next, Comes(k, next),
           k \in tableOn => Twice(k)
    PROVE  RowsOnce' /\ (k \in Class => \E n \in 1..Len(rows') : rows'[n].obj = k)
<1>1. k \in Objects /\ RowsInv /\ tableOn' = tableOn \union {k} /\ Len(rows) \in Nat
    BY DEF Comes, Filtered, TableInv, RowsInv
<1>2. \A o : Twice(o)' <=> Twice(o)
    BY DEF Comes, Twice
<1>3. CASE rows' = rows /\ k \notin Class
    BY <1>1, <1>2, <1>3 DEF RowsOnce
<1>4. CASE \E b \in BOOLEAN : rows' = Append(rows, NewRow(k, b))
  <2> DEFINE last == Len(rows) + 1
  <2>1. /\ Len(rows') = last
        /\ \A n \in 1..Len(rows) : rows'[n] = rows[n]
        /\ rows'[last].obj = k
      BY <1>1, <1>4, EntersRow
  <2>2. \A n \in 1..last : n \in 1..Len(rows) \/ n = last
      BY <1>1
  <2>3. ASSUME NEW n \in 1..last PROVE rows'[n].obj \in tableOn'
      BY <1>1, <2>1, <2>2 DEF RowsOnce
  <2>4. ASSUME NEW m \in 1..last, NEW n \in 1..last, rows'[m].obj = rows'[n].obj
        PROVE  m = n \/ Twice(rows'[m].obj)
    <3>1. CASE m \in 1..Len(rows) /\ n \in 1..Len(rows)
        BY <2>1, <2>4, <3>1 DEF RowsOnce
    <3>2. CASE m \in 1..Len(rows) /\ n = last
        BY <2>1, <2>4, <3>2 DEF RowsOnce
    <3>3. CASE m = last /\ n \in 1..Len(rows)
        BY <2>1, <2>4, <3>3 DEF RowsOnce
    <3> QED BY <2>2, <3>1, <3>2, <3>3
  <2>5. syncs' = syncs /\ \A m, n \in 1..Len(rows') : rows'[m].obj = rows'[n].obj => m = n \/ Twice(rows'[m].obj)
      BY <2>1, <2>4 DEF Comes
  <2>6. last \in 1..Len(rows')
      BY <1>1, <2>1
  <2>7. RowsOnce'
      BY <2>1, <2>3, <2>5 DEF RowsOnce, Twice
  <2> QED BY <2>1, <2>6, <2>7
<1> QED BY <1>3, <1>4 DEF Comes

\* The walk of k is ready, if k was not there or may come twice.
LEMMA NewWalkReady ==
    ASSUME ClassFilter, FromParent, NEW k \in Objects, InSync(k), syncs' = syncs,
           tableOn' = tableOn \union {k}, k \in tableOn => Twice(k)
    PROVE  FrameReady(WalkFrame(k, 1))'
<1> PICK f : f = WalkFrame(k, 1)
    OBVIOUS
<1>1. f.op = "walk" /\ f.at = k /\ f.i = 1
    BY DEF WalkFrame, Frame
<1>2. InSync(k)'
    BY DEF InSync
<1>3. Twice(k)' \/ NoKidFrom(k, 1)'
  <2>1. CASE Twice(k)
      BY <2>1 DEF Twice
  <2>2. CASE k \notin tableOn
    <3>1. \A l \in DOMAIN Kids[k] : Kids[k][l] \in KidSet(k)
        BY KidsAre
    <3>2. \A h \in KidSet(k) : h \notin tableOn'
        BY <2>2, ChildApart DEF FromParent
    <3> QED BY <3>1, <3>2 DEF NoKidFrom
  <2> QED BY <2>1, <2>2
<1>4. FrameReady(f)'
    BY <1>1, <1>2, <1>3 DEF FrameReady
<1> QED BY <1>4

\* The frames after the table has come to k, f that of the loop that goes on.
ComesIn(k, f, next) ==
    /\ k \in Objects /\ f \in CallerFrames /\ next \in {<<>>, <<f>>} /\ Comes(k, next)
    /\ k \in tableOn => Twice(k)
    /\ next # <<>> => FrameReady(f)' /\ Apart(WalkFrame(k, 1), f)
    /\ \A g : (\E j \in 1..Len(stack) : j > 1 /\ g = stack[j]) =>
          FrameReady(g)' /\ Apart(WalkFrame(k, 1), g) /\ (next # <<>> => Apart(f, g))

\* Then all frames are ready again, and none is in the way of another.
LEMMA ComesFrames ==
    ASSUME ClassFilter, TableInv, FramesApart, FromParent, NEW k, NEW f, NEW next,
           ComesIn(k, f, next)
    PROVE  /\ FramesReady' /\ FramesApart'
           /\ InSync(k) => \E h \in 1..Len(stack') : stack'[h] = WalkFrame(k, 1)
           /\ next # <<>> => \E h \in 1..Len(stack') : stack'[h] = f
<1> USE DEF ComesIn
<1> PICK walk : walk = WalkFrame(k, 1)
    OBVIOUS
<1> PICK S : S = FramesFor(Len(rows))
    OBVIOUS
<1> PICK frames : frames = RowThenWalk(k) \o next
    OBVIOUS
<1>1. RowsInv /\ Len(rows) \in Nat /\ f \in S /\ k \in Filtered /\ stack \in Seq(S)
    BY CallerFrame DEF TableInv, RowsInv, Filtered
<1>2. /\ frames \in Seq(S)
      /\ \A i \in 1..Len(frames) :
            \/ frames[i].op = "row"
            \/ InSync(k) /\ frames[i] = walk
            \/ next # <<>> /\ frames[i] = f
      /\ \A i, j \in 1..Len(frames) : i < j =>
            frames[i].op = "row" \/ (frames[i] = walk /\ next # <<>> /\ frames[j] = f)
      /\ InSync(k) => \E i \in 1..Len(frames) : frames[i] = walk
      /\ next # <<>> => \E i \in 1..Len(frames) : frames[i] = f
  <2> PICK n : n = Len(rows)
      OBVIOUS
  <2>1. EntersBefore(n, k, f, next, frames)
      BY <1>1 DEF EntersBefore
  <2>2. /\ frames \in Seq(FramesFor(n))
        /\ \A i \in 1..Len(frames) :
              \/ frames[i].op = "row"
              \/ InSync(k) /\ frames[i] = WalkFrame(k, 1)
              \/ next # <<>> /\ frames[i] = f
        /\ \A i, j \in 1..Len(frames) : i < j =>
              frames[i].op = "row" \/ (frames[i] = WalkFrame(k, 1) /\ next # <<>> /\ frames[j] = f)
        /\ InSync(k) => \E i \in 1..Len(frames) : frames[i] = WalkFrame(k, 1)
        /\ next # <<>> => \E i \in 1..Len(frames) : frames[i] = f
      BY ONLY <2>1, EnterCalls
  <2> QED BY <2>2
<1>3. Calls(frames)
    BY DEF Comes
<1>4. InSync(k) => FrameReady(walk)'
    BY NewWalkReady DEF Comes
<1>5. FramesReady'
  <2> SUFFICES ASSUME NEW h \in 1..Len(stack'), NEW g, g = stack'[h] PROVE FrameReady(g)'
      BY DEF FramesReady
  <2>1. CASE h \in 1..Len(frames) /\ g = frames[h]
    <3>1. g.op = "row" \/ (InSync(k) /\ g = walk) \/ (next # <<>> /\ g = f)
        BY <1>2, <2>1
    <3>2. g.op = "row" => FrameReady(g)'
        BY DEF FrameReady
    <3> QED BY <1>4, <3>1, <3>2
  <2>2. CASE \E j \in 1..Len(stack) : j > 1 /\ g = stack[j]
      BY <2>2
  <2> QED BY <1>1, <1>2, <1>3, <2>1, <2>2, CalledOrWaiting
<1>6. FramesApart'
  <2>1. \A i, j \in 1..Len(frames) : i < j => Apart(frames[i], frames[j])
    <3> SUFFICES ASSUME NEW i \in 1..Len(frames), NEW j \in 1..Len(frames), i < j
                 PROVE  Apart(frames[i], frames[j])
        OBVIOUS
    <3>1. CASE frames[i].op = "row"
        BY <3>1 DEF Apart
    <3>2. CASE frames[i] = walk /\ next # <<>> /\ frames[j] = f
        BY <3>2
    <3> QED BY <1>2, <3>1, <3>2
  <2>2. \A i \in 1..Len(frames), j \in 1..Len(stack) : j > 1 => Apart(frames[i], stack[j])
    <3> SUFFICES ASSUME NEW i \in 1..Len(frames), NEW j \in 1..Len(stack), j > 1
                 PROVE  Apart(frames[i], stack[j])
        OBVIOUS
    <3>1. CASE frames[i].op = "row"
        BY <3>1 DEF Apart
    <3>2. CASE frames[i] = walk \/ (next # <<>> /\ frames[i] = f)
        BY <3>2
    <3> QED BY <1>2, <3>1, <3>2
  <2> QED BY <1>1, <1>2, <1>3, <2>1, <2>2, ApartCalls
<1>7. \A i \in 1..Len(frames) : \E h \in 1..Len(stack') : stack'[h] = frames[i]
    BY <1>1, <1>2, <1>3, CallsOver
<1>8. InSync(k) => \E h \in 1..Len(stack') : stack'[h] = WalkFrame(k, 1)
  <2> SUFFICES ASSUME InSync(k) PROVE \E h \in 1..Len(stack') : stack'[h] = walk
      OBVIOUS
  <2>1. PICK i \in 1..Len(frames) : frames[i] = walk
      BY <1>2
  <2> QED BY <1>7, <2>1
<1>9. next # <<>> => \E h \in 1..Len(stack') : stack'[h] = f
  <2> SUFFICES ASSUME next # <<>> PROVE \E h \in 1..Len(stack') : stack'[h] = f
      OBVIOUS
  <2>1. PICK i \in 1..Len(frames) : frames[i] = f
      BY <1>2
  <2> QED BY <1>7, <2>1
<1> QED BY <1>5, <1>6, <1>8, <1>9

\* The walk comes to a child.
LEMMA WalkComes ==
    ASSUME ClassFilter, TableInv, ClassInv, TableWalk, NEW o, NEW j, NEW k, o = Head(stack).at,
           j \in DOMAIN Kids[o], k = Kids[o][j], HasChild(o, Head(stack).i, j),
           Comes(k, <<WalkFrame(o, j + 1)>>)
    PROVE  /\ FramesReady' /\ FramesApart' /\ RowsOnce'
           /\ k \in Class => \E n \in 1..Len(rows') : rows'[n].obj = k
           /\ InSync(k) => \E h \in 1..Len(stack') : stack'[h] = WalkFrame(k, 1)
           /\ \E h \in 1..Len(stack') : stack'[h] = WalkFrame(o, j + 1)
<1> PICK i : i = Head(stack).i
    OBVIOUS
<1> PICK f : f = WalkFrame(o, j + 1)
    OBVIOUS
<1>1. /\ stack # <<>> /\ Head(stack).op = "walk" /\ stack[1] = Head(stack) /\ 1 \in 1..Len(stack)
      /\ o \in Objects /\ o \in Filtered /\ i \in Nat
      /\ UNCHANGED <<syncs, inSync, roots, subscribed>> /\ tableOn' = tableOn \union {k}
  <2>1. stack # <<>> /\ Head(stack).op = "walk" /\ UNCHANGED <<syncs, inSync, roots, subscribed>>
      BY DEF TableWalk, Executing, rmc, objs
  <2>2. Head(stack) \in WalkFrames
      BY <2>1, TopFrame DEF TableInv
  <2>3. stack[1] = Head(stack) /\ 1 \in 1..Len(stack)
      BY <2>1 DEF TableInv, RowsInv
  <2> QED BY <2>1, <2>2, <2>3 DEF WalkFrames, Filtered, Comes
<1>2. /\ j \in Nat /\ k \in Objects /\ k \in KidSet(o) /\ k \in Filtered /\ i <= j
      /\ f.op = "walk" /\ f.at = o /\ f.i = j + 1 /\ f \in CallerFrames
  <2>1. j \in Nat /\ k \in Objects /\ k \in KidSet(o) /\ i <= j
      BY <1>1, KidsAre DEF HasChild, Takes
  <2>2. f \in CallerFrames
      BY <1>1, <2>1, PushedFrames
  <2> QED BY <2>1, <2>2 DEF Filtered, WalkFrame, Frame
<1>3. o \in tableOn /\ InSync(o) /\ (Twice(o) \/ NoKidFrom(o, i))
    BY <1>1 DEF ClassInv, FramesReady, FrameReady
<1>4. k \in tableOn => Twice(k)
    BY <1>1, <1>2, <1>3, TwiceBelow DEF NoKidFrom
<1>5. FrameReady(f)'
  <2>1. o \in tableOn' /\ InSync(o)' /\ (Twice(o) => Twice(o)')
      BY <1>1, <1>3 DEF InSync, Twice
  <2>2. NoKidFrom(o, i) => NoKidFrom(o, j + 1)'
    <3>1. \A l \in DOMAIN Kids[o] : l \in Nat
        BY <1>1, KidsAre
    <3>2. \A l \in DOMAIN Kids[o] : j + 1 <= l => i <= l /\ Kids[o][l] # k
        BY <1>1, <1>2, <3>1, TreeAssumption
    <3> QED BY <1>1, <3>2 DEF NoKidFrom
  <2>3. j + 1 # 0
      BY <1>2
  <2> QED BY <1>2, <1>3, <2>1, <2>2, <2>3 DEF FrameReady
<1> PICK walk : walk = WalkFrame(k, 1)
    OBVIOUS
<1>6. walk.op = "walk" /\ walk.at = k
    BY DEF WalkFrame, Frame
<1>7. Apart(walk, f)
    BY <1>1, <1>2, <1>6, ChildApart DEF Apart
<1>8. ASSUME NEW h \in 1..Len(stack), NEW g, h > 1, g = stack[h]
      PROVE  FrameReady(g)' /\ Apart(walk, g) /\ Apart(f, g)
  <2>1. FrameReady(g) /\ Apart(stack[1], g)
    <3>1. FrameReady(stack[h])
        BY DEF ClassInv, FramesReady
    <3>2. Apart(stack[1], stack[h])
        BY <1>1, <1>8 DEF ClassInv, FramesApart
    <3> QED BY <1>8, <3>1, <3>2
  <2>2. g.op = "walk" => g.at # o /\ Below(g.at, o)
      BY <1>1, <2>1 DEF Apart
  <2>3. Apart(f, g)
      BY <1>2, <2>2 DEF Apart
  <2>4. Apart(walk, g)
      BY <1>1, <1>2, <1>6, <2>2, ChildApart, BelowTransitive DEF Apart
  <2>5. g \in FramesFor(Len(rows))
      BY <1>8 DEF TableInv, RowsInv
  <2>6. g.op = "walk" => \A l \in DOMAIN Kids[g.at] : Kids[g.at][l] # k
    <3>1. g.op = "walk" => g.at \in Objects
        BY <2>2, BelowObjects
    <3> QED BY <1>1, <1>2, <2>2, <3>1, KidsAre, OneParent
  <2>7. g.op \in {"server", "added"} => \A l \in 1..Len(roots[g.at]) : roots[g.at][l] # k
    <3>1. g.op \in {"server", "added"} => g.at \in Servers
        BY <2>5 DEF FramesFor, CallerFrames, ServerFrames, AddedFrames, WalkFrames, RowFrames,
                    VariableFrames
    <3>2. \A s \in Servers : \A l \in 1..Len(roots[s]) : roots[s][l] \in Roots[s]
        BY DEF ClassInv, FromServer
    <3> QED BY <1>1, <1>2, <3>1, <3>2, RootNoChild
  <2>8. tableOn' \subseteq tableOn \union {k} /\ tableOn \subseteq tableOn'
      BY <1>1
  <2>9. FrameReady(g)'
      BY <1>1, <2>1, <2>6, <2>7, <2>8, ReadyKept
  <2> QED BY <2>3, <2>4, <2>9
<1> PICK next : next = <<f>>
    OBVIOUS
<1>9. Comes(k, next) /\ next \in {<<>>, <<f>>} /\ next # <<>>
    OBVIOUS
<1>10. RowsOnce' /\ (k \in Class => \E n \in 1..Len(rows') : rows'[n].obj = k)
    BY <1>2, <1>4, <1>9, ComesRows DEF ClassInv
<1>11. /\ FramesReady' /\ FramesApart'
       /\ InSync(k) => \E h \in 1..Len(stack') : stack'[h] = WalkFrame(k, 1)
       /\ \E h \in 1..Len(stack') : stack'[h] = f
  <2>1. ComesIn(k, f, next)
      BY <1>2, <1>4, <1>5, <1>7, <1>8, <1>9 DEF ComesIn
  <2>2. ClassFilter /\ TableInv /\ FramesApart /\ FromParent
      BY DEF ClassInv
  <2>3. /\ FramesReady' /\ FramesApart'
        /\ InSync(k) => \E h \in 1..Len(stack') : stack'[h] = WalkFrame(k, 1)
        /\ next # <<>> => \E h \in 1..Len(stack') : stack'[h] = f
      BY ONLY <2>1, <2>2, ComesFrames
  <2> QED BY <1>9, <2>3
<1> QED BY <1>10, <1>11

\* Frames and rows are what a step that leaves the rest alone has to keep.
LEMMA SameClass ==
    ASSUME ClassInv, UNCHANGED <<syncs, inSync, roots, subscribed, tableOn, announced>>,
           inSync \subseteq pool', listening' # {} => subscribed,
           Len(rows') = Len(rows), Grows, FramesReady', FramesApart'
    PROVE  ClassInv'
<1>1. FromParent'
    BY DEF ClassInv, FromParent, InSync
<1>2. FromServer'
    BY DEF ClassInv, FromServer, RootsOnce
<1>3. RowsOnce'
    BY DEF ClassInv, RowsOnce, Grows, Twice
<1> QED BY <1>1, <1>2, <1>3 DEF ClassInv

\* Calls of addRow() and of variables do not touch the frames of the table.
OwnCallsOf(frames) ==
    /\ frames \in Seq(FramesFor(Len(rows))) /\ Calls(frames)
    /\ \A i \in 1..Len(frames) : frames[i].op \in {"row", "var", "kids"}

\* What was ready and apart stays so under them.
LEMMA OwnCalls ==
    ASSUME TableInv, ClassInv, NEW frames, OwnCallsOf(frames),
           UNCHANGED <<syncs, inSync, roots, subscribed, tableOn>>
    PROVE  FramesReady' /\ FramesApart'
<1>1. \A f : FrameReady(f) => FrameReady(f)'
    BY DEF FrameReady, Twice, NoKidFrom, NoRootFrom, InSync
<1> USE DEF OwnCallsOf
<1>2. FramesReady'
  <2> SUFFICES ASSUME NEW h \in 1..Len(stack'), NEW g, g = stack'[h] PROVE FrameReady(g)'
      BY DEF FramesReady
  <2>1. CASE h \in 1..Len(frames) /\ g = frames[h]
      BY <2>1 DEF FrameReady
  <2>2. CASE \E j \in 1..Len(stack) : j > 1 /\ g = stack[j]
      BY <1>1, <2>2 DEF ClassInv, FramesReady
  <2> QED BY <2>1, <2>2, CalledOrWaiting DEF TableInv
<1>3. FramesApart'
  <2>1. \A i \in 1..Len(frames) : \A g : Apart(frames[i], g)
      BY DEF Apart
  <2>2. \A i, j \in 1..Len(frames) : i < j => Apart(frames[i], frames[j])
      BY <2>1
  <2>3. \A i \in 1..Len(frames), j \in 1..Len(stack) : j > 1 => Apart(frames[i], stack[j])
      BY <2>1
  <2> QED BY <2>2, <2>3, ApartCalls DEF TableInv, ClassInv
<1> QED BY <1>2, <1>3

\* The place of one call, or of two.
LEMMA OneOrTwo ==
    ASSUME NEW n \in {1, 2} PROVE \A h \in 1..n : h = n \/ (h = 1 /\ n = 2)
OBVIOUS

\* What a handler of a row or a variable calls.
LEMMA VariableCalls ==
    ASSUME TableInv, RowColumn \/ VariableSync \/ VariableKids
    PROVE  \E frames : OwnCallsOf(frames)
<1> PICK S : S = FramesFor(Len(rows))
    OBVIOUS
<1>1. RowsInv /\ Len(rows) \in Nat
    BY DEF TableInv, RowsInv
<1>2. ASSUME ReturnFrame
      PROVE  \E frames : OwnCallsOf(frames)
  <2> PICK frames : frames = <<>>
      OBVIOUS
  <2>1. frames \in Seq(S) /\ Len(frames) = 0 /\ Calls(frames)
      BY <1>2 DEF ReturnFrame
  <2>2. \A i \in 1..Len(frames) : FALSE
      BY <2>1
  <2> QED BY <2>1, <2>2 DEF OwnCallsOf
<1>3. ASSUME NEW frame \in S, frame.op = "kids", Calls(<<frame>>)
      PROVE  \E frames : OwnCallsOf(frames)
  <2>1. <<frame>> \in Seq(S) /\ \A i \in 1..Len(<<frame>>) : <<frame>>[i] = frame
      OBVIOUS
  <2> QED BY <1>3, <2>1 DEF OwnCallsOf
<1>4. CASE RowColumn
  <2> PICK o : o = Head(stack).at
      OBVIOUS
  <2> PICK c : c = Head(stack).col
      OBVIOUS
  <2> PICK r : r = Len(rows)
      OBVIOUS
  <2>1. CASE c > Columns
      BY <1>2, <1>4, <2>1 DEF RowColumn
  <2>2. CASE ~(c > Columns)
    <3>1. r \in Nat \ {0} /\ c \in Cols /\ o \in Objects
      <4>1. AddsColumn(r, c, o)
          BY <1>4, <2>2, RowColumnAdds
      <4> QED BY <1>1, <4>1 DEF AddsColumn
    <3> PICK frames : frames = ResolveNow(r, c, o) \o <<RowFrame(o, c + 1)>>
        OBVIOUS
    <3>2. Calls(frames)
        BY <1>4, <2>2 DEF RowColumn
    <3>3. /\ frames \in Seq(FramesFor(r)) /\ Len(frames) \in {1, 2}
          /\ frames[Len(frames)] = RowFrame(o, c + 1)
          /\ Len(frames) = 2 => frames[1].op = "var"
        BY <3>1, ColumnCalls
    <3>4. frames[Len(frames)].op = "row"
        BY <3>3 DEF RowFrame, Frame
    <3>5. \A i \in 1..Len(frames) : i = Len(frames) \/ (i = 1 /\ Len(frames) = 2)
      <4>1. Len(frames) \in {1, 2}
          BY <3>3
      <4> QED BY ONLY <4>1, OneOrTwo
    <3>6. \A i \in 1..Len(frames) : frames[i].op \in {"row", "var", "kids"}
        BY ONLY <3>3, <3>4, <3>5
    <3>7. frames \in Seq(FramesFor(Len(rows)))
        BY <3>3
    <3>8. OwnCallsOf(frames)
        BY <3>2, <3>6, <3>7 DEF OwnCallsOf
    <3> QED BY <3>8
  <2> QED BY <2>1, <2>2
<1>5. CASE VariableSync \/ VariableKids
  <2> PICK o : o = Head(stack).at
      OBVIOUS
  <2> PICK c : c = Head(stack).col
      OBVIOUS
  <2> PICK r : r = Head(stack).row
      OBVIOUS
  <2> PICK i : i = Head(stack).i
      OBVIOUS
  <2>1. r \in 1..Len(rows) /\ c \in Cols /\ o \in Objects /\ i \in Nat
      BY <1>1, <1>5, VariableTop DEF VariableSync, VariableKids
  <2>2. \A j \in Nat : KidsFrame(r, c, o, j) \in S /\ KidsFrame(r, c, o, j).op = "kids"
    <3>1. \A j \in Nat : KidsFrame(r, c, o, j) \in S
        BY <1>1, <2>1, PushedFrames, VariableFrame
    <3> QED BY <3>1 DEF KidsFrame, Frame
  <2>3. CASE VariableSync
      BY <1>2, <1>3, <2>2, <2>3 DEF VariableSync
  <2>4. ASSUME NEW j \in DOMAIN Kids[o],
               Calls(ResolveNow(r, c, Kids[o][j]) \o <<KidsFrame(r, c, o, j + 1)>>)
        PROVE  \E frames : OwnCallsOf(frames)
    <3> PICK k : k = Kids[o][j]
        OBVIOUS
    <3> PICK frames : frames = ResolveNow(r, c, k) \o <<KidsFrame(r, c, o, j + 1)>>
        OBVIOUS
    <3>1. j + 1 \in Nat /\ k \in Objects
        BY <2>1, KidsAre
    <3>2. /\ frames \in Seq(FramesFor(Len(rows))) /\ Len(frames) \in {1, 2}
          /\ frames[Len(frames)] = KidsFrame(r, c, o, j + 1)
          /\ Len(frames) = 2 => frames[1] = VarFrame(r, c, k)
      <4>1. LET calls == ResolveNow(r, c, k) \o <<KidsFrame(r, c, o, j + 1)>>
            IN /\ calls \in Seq(FramesFor(Len(rows))) /\ Len(calls) \in {1, 2}
               /\ calls[Len(calls)] = KidsFrame(r, c, o, j + 1)
               /\ Len(calls) = 2 => calls[1] = VarFrame(r, c, k) /\ InSync(k)
               /\ Len(calls) = 1 => ~InSync(k)
        <5>1. Len(rows) \in Nat /\ r \in 1..Len(rows) /\ c \in Cols /\ o \in Objects
              /\ k \in Objects /\ j + 1 \in Nat
            BY <1>1, <2>1, <3>1
        <5> QED BY ONLY <5>1, ChildCalls
      <4>2. frames = ResolveNow(r, c, k) \o <<KidsFrame(r, c, o, j + 1)>>
          OBVIOUS
      <4> QED BY ONLY <4>1, <4>2
    <3> PICK last : last = KidsFrame(r, c, o, j + 1)
        OBVIOUS
    <3> PICK first : first = VarFrame(r, c, k)
        OBVIOUS
    <3>3. last.op = "kids" /\ first.op = "var"
        BY <2>2, <3>1 DEF VarFrame, Frame
    <3>4. frames[Len(frames)].op = "kids" /\ (Len(frames) = 2 => frames[1].op = "var")
        BY <3>2, <3>3
    <3>5. \A h \in 1..Len(frames) : h = Len(frames) \/ (h = 1 /\ Len(frames) = 2)
      <4>1. Len(frames) \in {1, 2}
          BY <3>2
      <4> QED BY ONLY <4>1, OneOrTwo
    <3>6. ASSUME NEW h \in 1..Len(frames) PROVE frames[h].op \in {"row", "var", "kids"}
      <4>1. CASE h = Len(frames)
          BY <3>4, <4>1
      <4>2. CASE h = 1 /\ Len(frames) = 2
          BY <3>4, <4>2
      <4> QED BY <3>5, <4>1, <4>2
    <3>7. Calls(frames)
        BY <2>4
    <3>8. OwnCallsOf(frames)
        BY <1>1, <3>2, <3>6, <3>7 DEF OwnCallsOf
    <3> QED BY <3>8
  <2>5. ASSUME NEW j \in DOMAIN Kids[o], Calls(<<KidsFrame(r, c, o, j + 1)>>)
        PROVE  \E frames : OwnCallsOf(frames)
    <3>1. j + 1 \in Nat
        BY <2>1, KidsAre
    <3> QED BY <1>3, <2>2, <2>5, <3>1
  <2>6. CASE VariableKids
      BY <1>2, <2>4, <2>5, <2>6 DEF VariableKids
  <2> QED BY <1>5, <2>3, <2>6
<1> QED BY <1>4, <1>5

\* So rows and variables do not disturb what the table does.
LEMMA VariableClass ==
    ASSUME TableInv, ClassInv, RowColumn \/ VariableSync \/ VariableKids PROVE ClassInv'
<1>1. /\ UNCHANGED <<syncs, inSync, roots, subscribed, tableOn, announced, pool, listening>>
    BY DEF RowColumn, VariableSync, VariableKids, rmc, objs
<1>2. Len(rows') = Len(rows) /\ Grows
    BY RowColumnInv, VariableSyncInv, VariableKidsInv DEF TableInv
<1>3. FramesReady' /\ FramesApart'
    BY <1>1, VariableCalls, OwnCalls
<1>4. inSync \subseteq pool' /\ (listening' # {} => subscribed)
    BY <1>1 DEF ClassInv, FromServer
<1> QED BY <1>1, <1>2, <1>3, <1>4, SameClass

\* The walk of an object: it ends, or comes to the next child.
LEMMA WalkClass ==
    ASSUME ClassFilter, TableInv, ClassInv, TableWalk PROVE ClassInv'
<1> PICK o : o = Head(stack).at
    OBVIOUS
<1>1. /\ UNCHANGED <<syncs, inSync, roots, subscribed, announced, pool, listening>>
    BY DEF TableWalk, rmc, objs
<1>2. o \in Objects /\ o \in tableOn /\ InSync(o)
  <2>1. stack # <<>> /\ Head(stack).op = "walk"
      BY DEF TableWalk, Executing
  <2>2. Head(stack) \in WalkFrames
      BY <2>1, TopFrame DEF TableInv
  <2>3. stack[1] = Head(stack) /\ 1 \in 1..Len(stack)
      BY <2>1 DEF TableInv, RowsInv
  <2> QED BY <2>1, <2>2, <2>3 DEF WalkFrames, Filtered, ClassInv, FramesReady, FrameReady
<1>3. CASE ReturnFrame /\ UNCHANGED <<rows, tableOn>>
  <2> PICK frames : frames = <<>>
      OBVIOUS
  <2>1. frames \in Seq(FramesFor(Len(rows))) /\ Len(frames) = 0 /\ Calls(frames)
      BY <1>3 DEF ReturnFrame
  <2>2. \A i \in 1..Len(frames) : FALSE
      BY <2>1
  <2>3. OwnCallsOf(frames)
      BY <2>1, <2>2 DEF OwnCallsOf
  <2>4. FramesReady' /\ FramesApart'
      BY <1>1, <1>3, <2>3, OwnCalls
  <2>5. Grows
      BY WalkRows DEF TableInv
  <2>6. inSync \subseteq pool' /\ (listening' # {} => subscribed)
      BY <1>1 DEF ClassInv, FromServer
  <2> QED BY <1>1, <1>3, <2>4, <2>5, <2>6, SameClass
<1>4. ASSUME NEW j \in DOMAIN Kids[o], HasChild(o, Head(stack).i, j), NEW k, k = Kids[o][j],
             Comes(k, <<WalkFrame(o, j + 1)>>)
      PROVE  ClassInv'
  <2>1. FramesReady' /\ FramesApart' /\ RowsOnce'
      BY <1>4, WalkComes
  <2>2. k \in KidSet(o) /\ tableOn' = tableOn \union {k}
      BY <1>2, <1>4, KidsAre DEF Comes
  <2>3. FromParent'
    <3> SUFFICES ASSUME NEW p \in Objects, NEW h \in KidSet(p), h \in tableOn'
                 PROVE  p \in tableOn' /\ InSync(p)'
        BY DEF FromParent
    <3>1. CASE h \in tableOn
        BY <1>1, <2>2, <3>1 DEF ClassInv, FromParent, InSync
    <3>2. CASE h = k
      <4>1. p = o
          BY <1>2, <2>2, <3>2, OneParent
      <4> QED BY <1>1, <1>2, <2>2, <4>1 DEF InSync
    <3> QED BY <2>2, <3>1, <3>2
  <2>4. FromServer'
    <3>1. k \notin AllRoots
        BY <1>2, <2>2, RootNoChild DEF AllRoots
    <3>2. \A s \in Servers : \A l \in 1..Len(roots[s]) : roots[s][l] \in Roots[s] /\ roots[s][l] # k
        BY <1>2, <2>2, RootNoChild DEF ClassInv, FromServer
    <3>3. RootsOnce'
        BY <1>1 DEF ClassInv, FromServer, RootsOnce
    <3> QED BY <1>1, <2>2, <3>1, <3>2, <3>3 DEF ClassInv, FromServer
  <2> QED BY <2>1, <2>3, <2>4 DEF ClassInv
<1>5. ASSUME NEW j \in DOMAIN Kids[o], NEW k, k = Kids[o][j],
             rows' = IF k \in Class THEN Append(rows, NewRow(k, FALSE)) ELSE rows,
             tableOn' = tableOn \union {k}, Calls(RowThenWalk(k) \o <<WalkFrame(o, j + 1)>>)
      PROVE  Comes(k, <<WalkFrame(o, j + 1)>>)
    BY <1>1, <1>5 DEF Comes
<1> QED BY <1>3, <1>4, <1>5 DEF TableWalk

\* The handler that executes, and those that wait for it.
LEMMA TopClass ==
    ASSUME TableInv, ClassInv, stack # <<>>
    PROVE  /\ 1 \in 1..Len(stack) /\ stack[1] = Head(stack) /\ FrameReady(Head(stack))
           /\ \A h \in 1..Len(stack) : h > 1 => FrameReady(stack[h]) /\ Apart(Head(stack), stack[h])
<1>1. 1 \in 1..Len(stack) /\ stack[1] = Head(stack)
    BY DEF TableInv, RowsInv
<1> QED BY <1>1 DEF ClassInv, FramesReady, FramesApart

\* The server of a frame.
LEMMA ServerOfFrame ==
    ASSUME TableInv, NEW h \in 1..Len(stack), stack[h].op \in {"server", "added"}
    PROVE  stack[h].at \in Servers
<1>1. stack[h] \in FramesFor(Len(rows))
    BY DEF TableInv, RowsInv
<1> QED BY <1>1 DEF FramesFor, CallerFrames, ServerFrames, AddedFrames, WalkFrames, RowFrames,
                    VariableFrames

\* An added server that is in sync: the loop over its roots has none of them
\* behind it.
LEMMA ServerAddedClass == ASSUME TableInv, ClassInv, TableServerAdded PROVE ClassInv'
<1> PICK s : s = Head(stack).at
    OBVIOUS
<1> PICK f : f = ServerFrame(s, 1)
    OBVIOUS
<1> PICK frames : frames = When(s \in inSync, f)
    OBVIOUS
<1>1. /\ stack # <<>> /\ Head(stack).op = "added" /\ Calls(frames)
      /\ UNCHANGED <<syncs, inSync, roots, subscribed, tableOn, announced, pool, rows>>
    BY DEF TableServerAdded, Executing, rmc, objs, tableVars
<1>2. s \in Servers /\ f.op = "server" /\ f.at = s /\ f.i = 1 /\ f \in CallerFrames
  <2>1. s \in Servers
      BY <1>1, TopFrame DEF TableInv, AddedFrames
  <2> QED BY <2>1, PushedFrames DEF ServerFrame, Frame
<1>3. subscribed /\ NoRootFrom(s, 0)
    BY <1>1, TopClass DEF FrameReady
<1>4. s \in inSync => FrameReady(f)
    BY <1>2, <1>3 DEF FrameReady, NoRootFrom
<1>5. /\ RowsInv /\ frames \in Seq(FramesFor(Len(rows))) /\ Len(frames) \in {0, 1}
      /\ \A i \in 1..Len(frames) : i = 1 /\ frames[i] = f /\ s \in inSync
  <2>1. RowsInv /\ f \in FramesFor(Len(rows))
      BY <1>2, CallerFrame DEF TableInv, RowsInv
  <2> PICK S : S = FramesFor(Len(rows))
      OBVIOUS
  <2>2. frames = <<>> \/ (s \in inSync /\ frames = <<f>>)
      BY DEF When
  <2>3. f \in S
      BY <2>1
  <2>4. /\ frames \in Seq(S) /\ Len(frames) \in {0, 1}
        /\ \A i \in 1..Len(frames) : i = 1 /\ frames[i] = f /\ s \in inSync
    <3>1. CASE frames = <<>>
        BY ONLY <3>1
    <3>2. CASE s \in inSync /\ frames = <<f>>
        BY ONLY <2>3, <3>2
    <3> QED BY <2>2, <3>1, <3>2
  <2> QED BY <2>1, <2>4
<1>6. \A g : FrameReady(g) => FrameReady(g)'
    BY <1>1 DEF FrameReady, Twice, NoKidFrom, NoRootFrom, InSync
<1>7. FramesReady'
  <2> SUFFICES ASSUME NEW h \in 1..Len(stack'), NEW g, g = stack'[h] PROVE FrameReady(g)'
      BY DEF FramesReady
  <2>1. CASE h \in 1..Len(frames) /\ g = frames[h]
      BY <1>4, <1>5, <1>6, <2>1
  <2>2. CASE \E j \in 1..Len(stack) : j > 1 /\ g = stack[j]
      BY <1>1, <1>6, <2>2, TopClass
  <2> QED BY <1>1, <1>5, <2>1, <2>2, CalledOrWaiting
<1>8. FramesApart'
  <2>1. \A j \in 1..Len(stack) : j > 1 => Apart(f, stack[j])
      BY <1>1, <1>2, TopClass DEF Apart
  <2>2. \A i \in 1..Len(frames), j \in 1..Len(stack) : j > 1 => Apart(frames[i], stack[j])
      BY <1>5, <2>1
  <2>3. \A i, j \in 1..Len(frames) : i < j => Apart(frames[i], frames[j])
      BY <1>5
  <2> QED BY <1>1, <1>5, <2>2, <2>3, ApartCalls DEF ClassInv
<1>9. Len(rows') = Len(rows) /\ Grows /\ inSync \subseteq pool'
    BY <1>1, ServerAddedRows DEF TableInv, ClassInv, FromServer
<1> QED BY <1>1, <1>3, <1>7, <1>8, <1>9, SameClass

\* The table comes to a root.
RootComes(s, r) ==
    /\ s \in Servers /\ s \in inSync /\ subscribed /\ r \in Roots[s]
    /\ UNCHANGED <<syncs, inSync, subscribed, pool, listening>>
    /\ announced \subseteq announced' /\ r \in announced'
    /\ tableOn' = tableOn \union {r} /\ RootsOnce'
    /\ \A t \in Servers : \A l \in 1..Len(roots'[t]) :
          \/ l \in 1..Len(roots[t]) /\ roots'[t][l] = roots[t][l]
          \/ t = s /\ roots'[t][l] = r
    /\ \A t \in Servers : \A l \in 1..Len(roots[t]) : roots[t][l] = r => t = s

\* An object the table has come to still has a parent or a server it came from.
LEMMA RootFromServer ==
    ASSUME ClassFilter, ClassInv, NEW s, NEW r, RootComes(s, r)
    PROVE  FromParent' /\ FromServer'
<1> USE DEF RootComes
<1>1. FromParent'
  <2>1. \A o \in Objects : r \notin KidSet(o)
      BY RootNoChild
  <2> QED BY <2>1 DEF ClassInv, FromParent, InSync
<1>2. FromServer'
  <2>1. tableOn' \intersect AllRoots \subseteq announced'
      BY DEF ClassInv, FromServer
  <2>2. ASSUME NEW t \in Servers, NEW l \in 1..Len(roots'[t])
        PROVE  roots'[t][l] \in Roots[t] /\ (roots'[t][l] \in tableOn' => t \in inSync' /\ subscribed')
    <3>1. CASE l \in 1..Len(roots[t]) /\ roots'[t][l] = roots[t][l]
        BY <3>1 DEF ClassInv, FromServer
    <3>2. CASE t = s /\ roots'[t][l] = r
        BY <3>2
    <3> QED BY <3>1, <3>2
  <2> QED BY <2>1, <2>2 DEF ClassInv, FromServer
<1> QED BY <1>1, <1>2

\* The loop over the roots comes to the next, or ends.
LEMMA ServerRootComes ==
    ASSUME ClassFilter, TableInv, ClassInv, TableServerSync, NEW s, NEW i, NEW r,
           s = Head(stack).at, i = Head(stack).i, ~(i > Len(roots[s])), r = roots[s][i],
           Comes(r, <<ServerFrame(s, i + 1)>>)
    PROVE  /\ ClassInv'
           /\ r \in Class => \E n \in 1..Len(rows') : rows'[n].obj = r
           /\ InSync(r) => \E h \in 1..Len(stack') : stack'[h] = WalkFrame(r, 1)
           /\ \E h \in 1..Len(stack') : stack'[h] = ServerFrame(s, i + 1)
<1> PICK f : f = ServerFrame(s, i + 1)
    OBVIOUS
<1>1. /\ stack # <<>> /\ Head(stack).op = "server"
      /\ UNCHANGED <<syncs, inSync, roots, subscribed, announced, pool, listening>>
      /\ tableOn' = tableOn \union {r}
    BY DEF TableServerSync, Executing, rmc, objs, Comes
<1>2. /\ s \in Servers /\ i \in Nat \ {0} /\ roots[s] \in Seq(Objects) /\ i \in 1..Len(roots[s])
      /\ r \in Objects /\ r \in Filtered
      /\ f.op = "server" /\ f.at = s /\ f.i = i + 1 /\ f \in CallerFrames
  <2>1. s \in Servers /\ i \in Nat \ {0}
      BY <1>1, TopFrame DEF TableInv, ServerFrames
  <2>2. roots[s] \in Seq(Objects)
      BY <2>1 DEF TableInv, RestTypes
  <2>3. i \in 1..Len(roots[s]) /\ r \in Objects
      BY <2>1, <2>2
  <2>4. f \in CallerFrames
      BY <2>1, PushedFrames
  <2> QED BY <2>1, <2>2, <2>3, <2>4 DEF ServerFrame, Frame, Filtered
<1>3. s \in inSync /\ subscribed /\ NoRootFrom(s, i)
    BY <1>1, TopClass DEF FrameReady
<1>4. r \notin tableOn /\ r \in Roots[s] /\ r \in announced
    BY <1>2, <1>3 DEF NoRootFrom, ClassInv, FromServer, RootsOnce
<1>5. \A t \in Servers : \A l \in 1..Len(roots[t]) : roots[t][l] = r => t = s /\ l = i
    BY <1>2 DEF ClassInv, FromServer, RootsOnce
<1>6. FrameReady(f)'
  <2>1. \A l \in 1..Len(roots[s]) : i + 1 <= l => i <= l /\ roots[s][l] # r
      BY <1>2, <1>5
  <2>2. NoRootFrom(s, i + 1)'
      BY <1>1, <1>3, <2>1 DEF NoRootFrom
  <2> QED BY <1>1, <1>2, <1>3, <2>2 DEF FrameReady
<1> PICK walk : walk = WalkFrame(r, 1)
    OBVIOUS
<1>7. Apart(walk, f)
    BY <1>2 DEF Apart, WalkFrame, Frame
<1>8. ASSUME NEW h \in 1..Len(stack), NEW g, h > 1, g = stack[h]
      PROVE  FrameReady(g)' /\ Apart(walk, g) /\ Apart(f, g)
  <2>1. FrameReady(g) /\ Apart(Head(stack), g)
      BY <1>1, <1>8, TopClass
  <2>2. g.op # "walk" /\ (g.op \in {"added", "server"} => g.at # s)
      BY <1>1, <2>1 DEF Apart
  <2>3. Apart(f, g)
      BY <1>2, <2>2 DEF Apart
  <2>4. Apart(walk, g)
      BY <2>2 DEF Apart, WalkFrame, Frame
  <2>5. g.op \in {"server", "added"} => \A l \in 1..Len(roots[g.at]) : roots[g.at][l] # r
      BY <1>5, <1>8, <2>2, ServerOfFrame
  <2>6. tableOn' \subseteq tableOn \union {r} /\ tableOn \subseteq tableOn'
      BY <1>1
  <2>7. FrameReady(g)'
      BY <1>1, <2>1, <2>2, <2>5, <2>6, ReadyKept
  <2> QED BY <2>3, <2>4, <2>7
<1> PICK next : next = <<f>>
    OBVIOUS
<1>9. Comes(r, next) /\ next \in {<<>>, <<f>>} /\ next # <<>>
    OBVIOUS
<1>10. RowsOnce' /\ (r \in Class => \E n \in 1..Len(rows') : rows'[n].obj = r)
    BY <1>2, <1>4, <1>9, ComesRows DEF ClassInv
<1>11. /\ FramesReady' /\ FramesApart'
       /\ InSync(r) => \E h \in 1..Len(stack') : stack'[h] = WalkFrame(r, 1)
       /\ \E h \in 1..Len(stack') : stack'[h] = f
  <2>1. ComesIn(r, f, next)
      BY <1>2, <1>4, <1>6, <1>7, <1>8, <1>9 DEF ComesIn
  <2>2. ClassFilter /\ TableInv /\ FramesApart /\ FromParent
      BY DEF ClassInv
  <2>3. /\ FramesReady' /\ FramesApart'
        /\ InSync(r) => \E h \in 1..Len(stack') : stack'[h] = WalkFrame(r, 1)
        /\ next # <<>> => \E h \in 1..Len(stack') : stack'[h] = f
      BY ONLY <2>1, <2>2, ComesFrames
  <2> QED BY <1>9, <2>3
<1>12. RootsOnce'
    BY <1>1 DEF ClassInv, FromServer, RootsOnce
<1>13. \A t \in Servers : \A l \in 1..Len(roots'[t]) :
          l \in 1..Len(roots[t]) /\ roots'[t][l] = roots[t][l]
    BY <1>1
<1>14. FromParent' /\ FromServer'
  <2>1. RootComes(s, r)
      BY <1>1, <1>2, <1>3, <1>4, <1>5, <1>12, <1>13 DEF RootComes
  <2> QED BY <2>1, RootFromServer
<1> QED BY <1>10, <1>11, <1>14 DEF ClassInv

\* The loop over a server's roots: it ends, or comes to the next.
LEMMA ServerSyncClass ==
    ASSUME ClassFilter, TableInv, ClassInv, TableServerSync PROVE ClassInv'
<1> PICK s : s = Head(stack).at
    OBVIOUS
<1> PICK i : i = Head(stack).i
    OBVIOUS
<1>1. UNCHANGED <<syncs, inSync, roots, subscribed, announced, pool, listening>>
    BY DEF TableServerSync, rmc, objs
<1>2. CASE i > Len(roots[s])
  <2> PICK frames : frames = <<>>
      OBVIOUS
  <2>1. ReturnFrame /\ UNCHANGED <<rows, tableOn>>
      BY <1>2 DEF TableServerSync
  <2>2. frames \in Seq(FramesFor(Len(rows))) /\ Len(frames) = 0 /\ Calls(frames)
      BY <2>1 DEF ReturnFrame
  <2>3. \A h \in 1..Len(frames) : FALSE
      BY <2>2
  <2>4. OwnCallsOf(frames)
      BY <2>2, <2>3 DEF OwnCallsOf
  <2>5. FramesReady' /\ FramesApart'
      BY <1>1, <2>1, <2>4, OwnCalls
  <2>6. Grows
      BY ServerSyncRows DEF TableInv, RestTypes
  <2>7. inSync \subseteq pool' /\ (listening' # {} => subscribed)
      BY <1>1 DEF ClassInv, FromServer
  <2> QED BY <1>1, <2>1, <2>5, <2>6, <2>7, SameClass
<1>3. CASE ~(i > Len(roots[s]))
  <2> PICK r : r = roots[s][i]
      OBVIOUS
  <2>1. TableRootAdded(r, <<ServerFrame(s, i + 1)>>)
      BY <1>3 DEF TableServerSync
  <2>2. Comes(r, <<ServerFrame(s, i + 1)>>)
      BY <1>1, <2>1 DEF TableRootAdded, Comes
  <2> QED BY <1>3, <2>2, ServerRootComes
<1> QED BY <1>2, <1>3

\* An event that at most one handler of the table is called for.
LEMMA OneCallReady ==
    ASSUME NEW cond, NEW f, stack' = When(cond, f), cond => FrameReady(f)'
    PROVE  FramesReady' /\ FramesApart'
<1>1. \A h \in 1..Len(stack') : h = 1 /\ stack'[h] = f /\ cond
  <2>1. CASE stack' = <<>>
      BY ONLY <2>1
  <2>2. CASE cond /\ stack' = <<f>>
      BY ONLY <2>2
  <2> QED BY <2>1, <2>2 DEF When
<1>2. FramesReady'
  <2> SUFFICES ASSUME NEW h \in 1..Len(stack'), NEW g, g = stack'[h] PROVE FrameReady(g)'
      BY DEF FramesReady
  <2> QED BY <1>1
<1>3. FramesApart'
    BY <1>1 DEF FramesApart
<1> QED BY <1>2, <1>3

\* Nothing executes.
LEMMA IdleReady == ASSUME stack' = <<>> PROVE FramesReady' /\ FramesApart'
<1>1. Len(stack') = 0
    OBVIOUS
<1> QED BY <1>1 DEF FramesReady, FramesApart

\* The servers of the pool are added, each once: the table has come to no root.
LEMMA AddServerPoolClass == ASSUME TableInv, ClassInv, AddServerPool PROVE ClassInv'
<1>1. /\ ~subscribed /\ subscribed' /\ UNCHANGED <<rmc, listening, tableVars>>
      /\ IsFiniteSet(pool) /\ pool \subseteq Servers
    BY DEF AddServerPool, TableInv, RestTypes
<1> PICK order \in SetToSeqs(pool) : stack' = [i \in DOMAIN order |-> AddedFrame(order[i])]
    BY DEF AddServerPool
<1>2. order \in Seq(pool) /\ \A i, j \in DOMAIN order : order[i] = order[j] => i = j
    BY <1>1, OrderOnce
<1>3. \A h \in 1..Len(stack') :
         /\ h \in DOMAIN order /\ stack'[h].op = "added" /\ stack'[h].at = order[h]
         /\ order[h] \in Servers
  <2>1. \A h \in DOMAIN order : AddedFrame(order[h]).op = "added" /\ AddedFrame(order[h]).at = order[h]
      BY DEF AddedFrame, Frame
  <2>2. DOMAIN order = 1..Len(order) /\ Len(order) \in Nat
      BY <1>2
  <2>3. Len(stack') = Len(order)
      BY <2>2
  <2>4. \A h \in DOMAIN order : order[h] \in Servers
      BY <1>1, <1>2
  <2> QED BY <2>1, <2>2, <2>3, <2>4
<1>4. \A s \in Servers : NoRootFrom(s, 0)'
    BY <1>1 DEF ClassInv, FromServer, NoRootFrom, rmc, tableVars
<1>5. FramesReady'
  <2> SUFFICES ASSUME NEW h \in 1..Len(stack'), NEW g, g = stack'[h] PROVE FrameReady(g)'
      BY DEF FramesReady
  <2>1. g.op = "added" /\ g.at \in Servers
      BY <1>3
  <2> QED BY <1>1, <1>4, <2>1 DEF FrameReady
<1>6. FramesApart'
    BY <1>2, <1>3 DEF FramesApart, Apart
<1>7. FromParent' /\ FromServer' /\ RowsOnce'
  <2>1. /\ UNCHANGED <<syncs, inSync, roots, tableOn, announced, pool, rows, listening>>
      BY <1>1 DEF rmc, objs, tableVars
  <2>2. FromParent'
      BY <2>1 DEF ClassInv, FromParent, InSync
  <2>3. FromServer'
      BY <1>1, <2>1 DEF ClassInv, FromServer, RootsOnce
  <2>4. RowsOnce'
      BY <2>1 DEF ClassInv, RowsOnce, Twice
  <2> QED BY <2>2, <2>3, <2>4
<1> QED BY <1>5, <1>6, <1>7 DEF ClassInv

\* A server comes, goes, fails or is in sync.
LEMMA ServerEventClass ==
    ASSUME TableInv, ClassInv, NEW s \in Servers,
           ServerAdded(s) \/ ServerRemoved(s) \/ ServerError(s) \/ ServerSync(s)
    PROVE  ClassInv'
<1>1. UNCHANGED <<syncs, tableOn, announced, rows, subscribed>> /\ stack = <<>>
    BY DEF ServerAdded, ServerRemoved, ServerError, ServerSync, rmc, objs, tableVars, Idle
<1>2. FromParent' /\ RowsOnce'
    BY <1>1 DEF ClassInv, FromParent, RowsOnce, InSync, Twice
<1>3. roots \in [Servers -> Seq(Objects)] /\ listening \subseteq Servers
    BY DEF TableInv, RestTypes
<1>4. CASE ServerAdded(s)
  <2>1. /\ s \notin pool /\ pool' = pool \union {s} /\ stack' = When(subscribed, AddedFrame(s))
        /\ UNCHANGED <<inSync, roots, listening>>
      BY <1>4 DEF ServerAdded
  <2>2. FromServer'
      BY <1>1, <2>1 DEF ClassInv, FromServer, RootsOnce
  <2>3. NoRootFrom(s, 0)'
      BY <1>1, <2>1 DEF ClassInv, FromServer, NoRootFrom
  <2> PICK f : f = AddedFrame(s)
      OBVIOUS
  <2>4. f.op = "added" /\ f.at = s
      BY DEF AddedFrame, Frame
  <2>5. subscribed => FrameReady(f)'
      BY <1>1, <2>3, <2>4 DEF FrameReady
  <2>6. FramesReady' /\ FramesApart'
      BY <2>1, <2>5, OneCallReady
  <2> QED BY <1>2, <2>2, <2>6 DEF ClassInv
<1>5. CASE ServerRemoved(s)
  <2>1. /\ pool' = pool \ {s} /\ inSync' = inSync \ {s} /\ roots' = [roots EXCEPT ![s] = <<>>]
        /\ listening' = listening \ {s} /\ stack' = stack
      BY <1>5 DEF ServerRemoved
  <2>2. \A t \in Servers : (t # s /\ roots'[t] = roots[t]) \/ Len(roots'[t]) = 0
      BY <1>3, <2>1
  <2>3. FromServer'
    <3>1. RootsOnce'
        BY <1>1, <2>2 DEF ClassInv, FromServer, RootsOnce
    <3>2. \A t \in Servers : \A l \in 1..Len(roots'[t]) :
             t # s /\ roots'[t][l] = roots[t][l] /\ l \in 1..Len(roots[t])
        BY <2>2
    <3> QED BY <1>1, <2>1, <3>1, <3>2 DEF ClassInv, FromServer
  <2>4. FramesReady' /\ FramesApart'
      BY <1>1, <2>1, IdleReady
  <2> QED BY <1>2, <2>3, <2>4 DEF ClassInv
<1>6. CASE ServerError(s)
  <2>1. UNCHANGED <<pool, inSync, roots, stack>> /\ listening' = listening \ {s}
      BY <1>6 DEF ServerError, rmc
  <2>2. FromServer'
      BY <1>1, <2>1 DEF ClassInv, FromServer, RootsOnce
  <2>3. FramesReady' /\ FramesApart'
      BY <1>1, <2>1, IdleReady
  <2> QED BY <1>2, <2>2, <2>3 DEF ClassInv
<1>7. CASE ServerSync(s)
  <2>1. /\ s \in pool /\ s \notin inSync /\ inSync' = inSync \union {s}
        /\ stack' = When(s \in listening, ServerFrame(s, 1)) /\ UNCHANGED <<pool, roots, listening>>
      BY <1>7 DEF ServerSync
  <2>2. FromServer'
      BY <1>1, <2>1 DEF ClassInv, FromServer, RootsOnce
  <2>3. NoRootFrom(s, 1)'
      BY <1>1, <2>1 DEF ClassInv, FromServer, NoRootFrom
  <2> PICK f : f = ServerFrame(s, 1)
      OBVIOUS
  <2>4. f.op = "server" /\ f.at = s /\ f.i = 1
      BY DEF ServerFrame, Frame
  <2>5. s \in listening => subscribed
      BY DEF ClassInv, FromServer
  <2>6. s \in listening => FrameReady(f)'
      BY <1>1, <2>1, <2>3, <2>4, <2>5 DEF FrameReady
  <2>7. FramesReady' /\ FramesApart'
      BY <2>1, <2>6, OneCallReady
  <2> QED BY <1>2, <2>2, <2>7 DEF ClassInv
<1> QED BY <1>4, <1>5, <1>6, <1>7

\* A new root: the table comes to it, if it listens to the server, or does so
\* in the loop over the roots.
LEMMA RootAddedComes ==
    ASSUME ClassFilter, TableInv, ClassInv, NEW s \in Servers, NEW r \in Objects, RootAdded(s, r),
           s \in inSync, s \in listening
    PROVE  /\ ClassInv' /\ tableOn' = tableOn \union {r}
           /\ r \in Class => \E n \in 1..Len(rows') : rows'[n].obj = r
           /\ InSync(r) => \E h \in 1..Len(stack') : stack'[h] = WalkFrame(r, 1)
<1> PICK next : next = <<>>
    OBVIOUS
<1>1. /\ stack = <<>> /\ r \in Roots[s] /\ r \notin announced /\ r \in announced'
      /\ announced \subseteq announced'
      /\ UNCHANGED <<syncs, inSync, subscribed, pool, listening>> /\ TableRootAdded(r, next)
    BY DEF RootAdded, objs, Idle
<1>2. Comes(r, next) /\ r \in Filtered
    BY <1>1 DEF TableRootAdded, Comes, Filtered
<1>3. /\ RootsOnce'
      /\ \A t \in Servers : \A k \in 1..Len(roots'[t]) :
            \/ k \in 1..Len(roots[t]) /\ roots'[t][k] = roots[t][k]
            \/ t = s /\ roots'[t][k] = r
    BY RootAddedIs DEF ClassInv, FromServer
<1>4. r \notin tableOn
    BY <1>1 DEF ClassInv, FromServer, AllRoots
<1>5. RowsOnce' /\ (r \in Class => \E n \in 1..Len(rows') : rows'[n].obj = r)
    BY <1>2, <1>4, ComesRows DEF ClassInv
<1> PICK f : f = ServerFrame(s, 1)
    OBVIOUS
<1>6. f \in CallerFrames /\ next \in {<<>>, <<f>>} /\ ~(next # <<>>)
    BY PushedFrames
<1>7. Len(stack) = 0
    BY <1>1
<1>8. \A g : ~(\E j \in 1..Len(stack) : j > 1 /\ g = stack[j])
    BY <1>7
<1>9. /\ FramesReady' /\ FramesApart'
      /\ InSync(r) => \E h \in 1..Len(stack') : stack'[h] = WalkFrame(r, 1)
  <2>1. ComesIn(r, f, next)
      BY <1>2, <1>4, <1>6, <1>8 DEF ComesIn, Filtered
  <2>2. ClassFilter /\ TableInv /\ FramesApart /\ FromParent
      BY DEF ClassInv
  <2> QED BY ONLY <2>1, <2>2, ComesFrames
<1>10. RootComes(s, r)
  <2>1. \A t \in Servers : \A l \in 1..Len(roots[t]) : roots[t][l] # r
      BY <1>1 DEF ClassInv, FromServer, RootsOnce
  <2>2. tableOn' = tableOn \union {r} /\ subscribed
      BY <1>2 DEF Comes, ClassInv, FromServer
  <2> QED BY <1>1, <1>3, <2>1, <2>2 DEF RootComes
<1>11. FromParent' /\ FromServer' /\ tableOn' = tableOn \union {r}
    BY <1>10, RootFromServer DEF RootComes
<1> QED BY <1>5, <1>9, <1>11 DEF ClassInv

\* A root is added, which the table comes to if it listens to the server.
LEMMA RootAddedClass ==
    ASSUME ClassFilter, TableInv, ClassInv, NEW s \in Servers, NEW r \in Objects, RootAdded(s, r)
    PROVE  ClassInv'
<1>1. CASE s \in inSync /\ s \in listening
    BY <1>1, RootAddedComes
<1>2. CASE ~(s \in inSync /\ s \in listening)
  <2>1. /\ stack = <<>> /\ r \in Roots[s] /\ r \notin announced /\ announced \subseteq announced'
        /\ UNCHANGED <<syncs, inSync, subscribed, pool, listening, rows, tableOn, stack>>
      BY <1>2 DEF RootAdded, objs, Idle
  <2>2. /\ RootsOnce'
        /\ \A t \in Servers : \A k \in 1..Len(roots'[t]) :
              \/ k \in 1..Len(roots[t]) /\ roots'[t][k] = roots[t][k]
              \/ t = s /\ roots'[t][k] = r
      BY RootAddedIs DEF ClassInv, FromServer
  <2>3. r \notin tableOn
      BY <2>1 DEF ClassInv, FromServer, AllRoots
  <2>4. FromServer'
    <3>1. ASSUME NEW t \in Servers, NEW k \in 1..Len(roots'[t])
          PROVE  roots'[t][k] \in Roots[t]
                 /\ (roots'[t][k] \in tableOn' => t \in inSync' /\ subscribed')
      <4>1. CASE k \in 1..Len(roots[t]) /\ roots'[t][k] = roots[t][k]
          BY <2>1, <4>1 DEF ClassInv, FromServer
      <4>2. CASE t = s /\ roots'[t][k] = r
          BY <2>1, <2>3, <4>2
      <4> QED BY <2>2, <4>1, <4>2
    <3> QED BY <2>1, <2>2, <3>1 DEF ClassInv, FromServer
  <2>5. FromParent' /\ RowsOnce'
      BY <2>1 DEF ClassInv, FromParent, RowsOnce, InSync, Twice
  <2>6. FramesReady' /\ FramesApart'
      BY <2>1, IdleReady
  <2> QED BY <2>4, <2>5, <2>6 DEF ClassInv
<1> QED BY <1>1, <1>2

\* A root goes away: the table stays its client.
LEMMA RootRemovedClass ==
    ASSUME TableInv, ClassInv, NEW s \in Servers, NEW r \in Objects, RootRemoved(s, r)
    PROVE  ClassInv'
<1>1. /\ stack = <<>>
      /\ UNCHANGED <<syncs, inSync, subscribed, pool, listening, announced, rows, tableOn, stack>>
    BY DEF RootRemoved, EraseRoot, objs, Idle
<1>2. /\ RootsOnce'
      /\ \A t \in Servers : \A k \in 1..Len(roots'[t]) :
            \E h \in 1..Len(roots[t]) : roots'[t][k] = roots[t][h]
    BY RootRemovedIs DEF ClassInv, FromServer
<1>3. FromServer'
  <2>1. ASSUME NEW t \in Servers, NEW k \in 1..Len(roots'[t])
        PROVE  roots'[t][k] \in Roots[t]
               /\ (roots'[t][k] \in tableOn' => t \in inSync' /\ subscribed')
    <3>1. PICK h \in 1..Len(roots[t]) : roots'[t][k] = roots[t][h]
        BY <1>2
    <3> QED BY <1>1, <3>1 DEF ClassInv, FromServer
  <2> QED BY <1>1, <1>2, <2>1 DEF ClassInv, FromServer
<1>4. FromParent' /\ RowsOnce'
    BY <1>1 DEF ClassInv, FromParent, RowsOnce, InSync, Twice
<1>5. FramesReady' /\ FramesApart'
    BY <1>1, IdleReady
<1> QED BY <1>3, <1>4, <1>5 DEF ClassInv

\* The calls when an object syncs: its variables, then the table, if that is a
\* client of it.
LEMMA SyncStack ==
    ASSUME TableInv, NEW o \in Objects, ObjectSync(o)
    PROVE  /\ \A h \in 1..Len(stack') :
                 \/ stack'[h].op = "var"
                 \/ h = Len(stack') /\ o \in tableOn /\ stack'[h] = WalkFrame(o, 1)
           /\ o \in tableOn => \E h \in 1..Len(stack') : stack'[h] = WalkFrame(o, 1)
<1> DEFINE clients == {v \in varOn : v[3] = o}
<1> PICK order \in SetToSeqs(clients) :
        stack' = [i \in DOMAIN order |-> VarFrame(order[i][1], order[i][2], o)]
                 \o When(o \in tableOn, WalkFrame(o, 1))
    BY DEF ObjectSync
<1>1. IsFiniteSet(clients)
    BY FS_Subset DEF TableInv, RestTypes
<1> HIDE DEF clients
<1>2. order \in Seq(clients)
    BY <1>1, OrderOnce
<1> PICK walk : walk = WalkFrame(o, 1)
    OBVIOUS
<1> PICK last : last = When(o \in tableOn, walk)
    OBVIOUS
<1> PICK calls : calls = [i \in DOMAIN order |-> VarFrame(order[i][1], order[i][2], o)]
    OBVIOUS
<1>3. last \in {<<>>, <<walk>>} /\ (last # <<>> <=> o \in tableOn)
    BY DEF When
<1>4. \A i \in DOMAIN order : calls[i].op = "var"
    BY DEF VarFrame, Frame
<1> DEFINE T == {walk} \union {VarFrame(order[i][1], order[i][2], o) : i \in DOMAIN order}
<1>5. calls \in Seq(T) /\ Len(calls) = Len(order) /\ walk \in T /\ DOMAIN order = 1..Len(order)
  <2>1. DOMAIN order = 1..Len(order) /\ Len(order) \in Nat
      BY <1>2
  <2>2. calls \in [1..Len(order) -> T] /\ walk \in T
      BY <2>1
  <2> HIDE DEF T
  <2> QED BY <2>1, <2>2
<1>6. stack' = calls \o last
    OBVIOUS
<1> HIDE DEF T
<1> PICK new : new = stack'
    OBVIOUS
<1>7. EndsWith(T, walk, calls, last, new)
    BY <1>3, <1>5, <1>6 DEF EndsWith
<1>8. /\ new \in Seq(T) /\ Len(calls) \in Nat
      /\ \A i \in 1..Len(calls) : i \in 1..Len(new) /\ new[i] = calls[i]
      /\ last # <<>> => Len(calls) + 1 \in 1..Len(new) /\ new[Len(calls) + 1] = walk
      /\ \A i \in 1..Len(new) :
            i \in 1..Len(calls) \/ (last # <<>> /\ i = Len(calls) + 1)
    BY ONLY <1>7, LastCall
<1>9. last # <<>> => Len(calls) + 1 = Len(new)
  <2>1. Len(new) \in Nat
      BY <1>8
  <2>2. last # <<>> => Len(new) \in 1..Len(new)
      BY <1>8, <2>1
  <2>3. last # <<>> /\ Len(new) # Len(calls) + 1 => Len(new) <= Len(calls)
      BY <1>8, <2>1, <2>2
  <2> QED BY <1>8, <2>1, <2>3
<1>10. \A i \in 1..Len(new) : new[i].op = "var" \/ (i = Len(new) /\ o \in tableOn /\ new[i] = walk)
  <2> SUFFICES ASSUME NEW i \in 1..Len(new)
               PROVE  new[i].op = "var" \/ (i = Len(new) /\ o \in tableOn /\ new[i] = walk)
      OBVIOUS
  <2>1. CASE i \in 1..Len(calls)
    <3>1. i \in DOMAIN order /\ new[i] = calls[i]
        BY <1>5, <1>8, <2>1
    <3> QED BY <1>4, <3>1
  <2>2. CASE last # <<>> /\ i = Len(calls) + 1
      BY <1>3, <1>8, <1>9, <2>2
  <2> QED BY <1>8, <2>1, <2>2
<1> QED BY <1>3, <1>8, <1>10

\* The walk of an object that syncs is ready: the table can have come to a child
\* only in a Sync before this one.
LEMMA ObjectSyncClass ==
    ASSUME ClassFilter, TableInv, ClassInv, NEW o \in Objects, ObjectSync(o) PROVE ClassInv'
<1>1. /\ syncs' = [syncs EXCEPT ![o] = syncs[o] + 1] /\ syncs \in [Objects -> Nat]
      /\ UNCHANGED <<inSync, roots, subscribed, tableOn, announced, pool, listening, rows>>
    BY DEF ObjectSync, tableVars, TableInv, RestTypes
<1>2. SyncsGrow /\ syncs'[o] > 0 /\ (syncs[o] > 0 => syncs'[o] > 1)
    BY <1>1 DEF SyncsGrow
<1>3. \A p \in Objects : InSync(p) => InSync(p)'
    BY <1>2 DEF SyncsGrow, InSync
<1>4. \A p \in Objects : Twice(p) => Twice(p)'
    BY <1>2, TwiceKept
<1>5. o \in tableOn => FrameReady(WalkFrame(o, 1))'
  <2> SUFFICES ASSUME o \in tableOn, NEW f, f = WalkFrame(o, 1) PROVE FrameReady(f)'
      OBVIOUS
  <2>1. f.op = "walk" /\ f.at = o /\ f.i = 1
      BY DEF WalkFrame, Frame
  <2>2. CASE InSync(o)
    <3>1. Twice(o)'
        BY <1>2, <2>2, AboveIs DEF InSync, Twice
    <3> QED BY <1>1, <1>2, <2>1, <3>1 DEF FrameReady, InSync
  <2>3. CASE ~InSync(o)
    <3>1. \A l \in DOMAIN Kids[o] : Kids[o][l] \in KidSet(o)
        BY KidsAre
    <3>2. NoKidFrom(o, 1)'
        BY <1>1, <2>3, <3>1 DEF ClassInv, FromParent, NoKidFrom
    <3> QED BY <1>1, <1>2, <2>1, <3>2 DEF FrameReady, InSync
  <2> QED BY <2>2, <2>3
<1>6. FramesReady'
  <2> SUFFICES ASSUME NEW h \in 1..Len(stack'), NEW g, g = stack'[h] PROVE FrameReady(g)'
      BY DEF FramesReady
  <2>1. g.op = "var" \/ (o \in tableOn /\ g = WalkFrame(o, 1))
      BY SyncStack
  <2>2. g.op = "var" => FrameReady(g)'
      BY DEF FrameReady
  <2> QED BY <1>5, <2>1, <2>2
<1>7. FramesApart'
  <2> SUFFICES ASSUME NEW i \in 1..Len(stack'), NEW j \in 1..Len(stack'), i < j
               PROVE  Apart(stack'[i], stack'[j])
      BY DEF FramesApart, Apart
  <2>1. i # Len(stack')
      OBVIOUS
  <2>2. stack'[i].op = "var"
      BY <2>1, SyncStack
  <2> QED BY <2>2 DEF Apart
<1>8. FromParent'
    BY <1>1, <1>3 DEF ClassInv, FromParent
<1>9. FromServer'
    BY <1>1 DEF ClassInv, FromServer, RootsOnce
<1>10. RowsOnce'
  <2>1. \A n \in 1..Len(rows) : rows[n].obj \in Objects
      BY AppTyped
  <2> QED BY <1>1, <1>4, <2>1 DEF ClassInv, RowsOnce
<1> QED BY <1>6, <1>7, <1>8, <1>9, <1>10 DEF ClassInv

\* Every step of a table with a class filter.
LEMMA NextClass ==
    ASSUME ClassFilter, TableInv, ClassInv, [Next]_vars PROVE ClassInv'
<1>1. CASE UNCHANGED vars
    BY <1>1 DEF vars, rmc, objs, tableVars, ClassInv, FramesReady, FrameReady, FramesApart, Apart,
                FromParent, FromServer, RowsOnce, RootsOnce, Twice, NoKidFrom, NoRootFrom, InSync
<1>2. CASE MainStep
    BY <1>2, ServerAddedClass, ServerSyncClass, WalkClass, VariableClass DEF MainStep
<1>3. ASSUME NEW o \in Objects, ObjectError(o) \/ ChildAdded(o) PROVE ClassInv'
  <2>1. /\ UNCHANGED <<syncs, inSync, roots, subscribed, tableOn, announced, pool, listening, rows,
                       stack>>
      BY <1>3 DEF ObjectError, ChildAdded, tableVars
  <2> QED BY <2>1 DEF ClassInv, FramesReady, FrameReady, FramesApart, Apart,
                FromParent, FromServer, RowsOnce, RootsOnce, Twice, NoKidFrom, NoRootFrom, InSync
<1>4. CASE RmcEvent
    BY <1>3, <1>4, ServerEventClass, RootAddedClass, RootRemovedClass, ObjectSyncClass DEF RmcEvent
<1> QED BY <1>1, <1>2, <1>4, AddServerPoolClass DEF Next

\* What a class-filtered table has come to, it has come to from above.
THEOREM ClassInductive == ClassFilter => (Spec => [](TableInv /\ ClassInv))
<1> SUFFICES ASSUME ClassFilter PROVE Spec => [](TableInv /\ ClassInv)
    OBVIOUS
<1> DEFINE Inv == TableInv /\ ClassInv
<1>1. Init => Inv
    BY InitTable, InitClass
<1>2. Inv /\ [Next]_vars => Inv'
    BY NextTable, NextClass
<1> QED
  <2> HIDE DEF Inv
  <2>1. Spec => []Inv
      BY <1>1, <1>2, PTL DEF Spec
  <2> QED BY <2>1 DEF Inv

\* An object has a second row only if something above it has synced twice.
THEOREM OneRowPerObjectAlways == Spec => []OneRowPerObject
<1> DEFINE Inv == TableInv /\ (ClassFilter => ClassInv)
<1>1. Init => Inv
    BY InitTable, InitClass
<1>2. Inv /\ [Next]_vars => Inv'
    BY NextTable, NextClass
<1>3. Inv => OneRowPerObject
    BY DEF ClassInv, RowsOnce, Twice, OneRowPerObject
<1> QED
  <2> HIDE DEF Inv
  <2> QED BY <1>1, <1>2, <1>3, PTL DEF Spec

----------------------------------------------------------------------------
(* A table with a class filter comes to all it should: to the roots of each *)
(* server it listens to, and to the children of each object it is a client  *)
(* of, unless the loop over them is still executing.                        *)

Walking(o, l) ==
    \E j \in 1..Len(stack) : stack[j].op = "walk" /\ stack[j].at = o /\ stack[j].i <= l

RootsCome ==
    \A s \in listening \intersect inSync : \A k \in 1..Len(roots[s]) :
        roots[s][k] \in tableOn \/ Pending(s, k)

KidsCome ==
    \A o \in tableOn : InSync(o) => \A l \in DOMAIN Kids[o] : Reachable(Kids[o][l]) =>
        Kids[o][l] \in tableOn \/ Walking(o, l)

RowsCome == \A o \in tableOn \intersect Class : \E n \in 1..Len(rows) : rows[n].obj = o

ComesInv == RootsCome /\ KidsCome /\ RowsCome

\* At first there is nothing the table should have come to.
LEMMA InitComes == Init => ComesInv
<1> SUFFICES ASSUME Init PROVE ComesInv
    OBVIOUS
<1>1. listening = {} /\ tableOn = {}
    BY DEF Init
<1> QED BY <1>1 DEF ComesInv, RootsCome, KidsCome, RowsCome

\* A frame that is on the stack is what a loop needs.
LEMMA WalkingFrame ==
    ASSUME NEW o, NEW i \in Nat, NEW l \in Nat, i <= l,
           \E h \in 1..Len(stack') : stack'[h] = WalkFrame(o, i)
    PROVE  Walking(o, l)'
<1> PICK h \in 1..Len(stack') : stack'[h] = WalkFrame(o, i)
    OBVIOUS
<1>1. stack'[h].op = "walk" /\ stack'[h].at = o /\ stack'[h].i = i
    BY DEF WalkFrame, Frame
<1> QED BY <1>1 DEF Walking

\* The same of the loop over a server's roots.
LEMMA PendingFrame ==
    ASSUME NEW s, NEW i \in Nat, NEW k \in Nat, i <= k,
           \E h \in 1..Len(stack') : stack'[h] = ServerFrame(s, i)
    PROVE  Pending(s, k)'
<1> PICK h \in 1..Len(stack') : stack'[h] = ServerFrame(s, i)
    OBVIOUS
<1>1. stack'[h].op = "server" /\ stack'[h].at = s /\ stack'[h].i = i
    BY DEF ServerFrame, Frame
<1> QED BY <1>1 DEF Pending

\* A loop that waits goes on waiting.
LEMMA WalkingStays ==
    ASSUME TableInv, Under, NEW o, NEW l, Walking(o, l),
           ~(stack[1].op = "walk" /\ stack[1].at = o /\ stack[1].i <= l)
    PROVE  Walking(o, l)'
<1> PICK j \in 1..Len(stack) : stack[j].op = "walk" /\ stack[j].at = o /\ stack[j].i <= l
    BY DEF Walking
<1>1. j > 1
    OBVIOUS
<1>2. PICK h \in 1..Len(stack') : stack'[h] = stack[j]
    BY <1>1 DEF Under
<1> QED BY <1>2 DEF Walking

\* So does a loop over a server's roots.
LEMMA PendingWaits ==
    ASSUME TableInv, Under, NEW s, NEW k, Pending(s, k),
           ~(stack[1].op = "server" /\ stack[1].at = s /\ stack[1].i <= k)
    PROVE  Pending(s, k)'
<1> PICK j \in 1..Len(stack) : stack[j].op = "server" /\ stack[j].at = s /\ stack[j].i <= k
    BY DEF Pending
<1>1. j > 1
    OBVIOUS
<1>2. PICK h \in 1..Len(stack') : stack'[h] = stack[j]
    BY <1>1 DEF Under
<1> QED BY <1>2 DEF Pending

\* Rows keep their objects.
LEMMA RowsComeOn ==
    ASSUME RowsCome, Grows, NEW k, tableOn' \subseteq tableOn \union {k},
           k \in tableOn \/ (k \in Class => \E n \in 1..Len(rows') : rows'[n].obj = k)
    PROVE  RowsCome'
<1> SUFFICES ASSUME NEW o \in tableOn' \intersect Class
             PROVE  \E n \in 1..Len(rows') : rows'[n].obj = o
    BY DEF RowsCome
<1>1. CASE o \in tableOn
  <2>1. PICK n \in 1..Len(rows) : rows[n].obj = o
      BY <1>1 DEF RowsCome
  <2>2. n \in 1..Len(rows') /\ rows'[n].obj = o
    <3>1. rows'[n].obj = rows[n].obj
        BY DEF Grows
    <3>2. Len(rows') \in Nat
        OBVIOUS
    <3> QED BY <2>1, <3>1, <3>2 DEF Grows
  <2> QED BY <2>2
<1>2. CASE o \notin tableOn
    BY <1>2
<1> QED BY <1>1, <1>2

\* The children of an object the table was a client of.
LEMMA KidsComeOn ==
    ASSUME TableInv, [Next]_vars, KidsCome, syncs' = syncs, tableOn \subseteq tableOn',
           \A o \in tableOn' : o \notin tableOn /\ InSync(o) => \A l \in Nat \ {0} : Walking(o, l)',
           \A o \in tableOn : \A l \in DOMAIN Kids[o] :
              Walking(o, l) /\ Reachable(Kids[o][l]) => Kids[o][l] \in tableOn' \/ Walking(o, l)'
    PROVE  KidsCome'
<1> SUFFICES ASSUME NEW o \in tableOn', InSync(o)', NEW l \in DOMAIN Kids[o], Reachable(Kids[o][l])'
             PROVE  Kids[o][l] \in tableOn' \/ Walking(o, l)'
    BY DEF KidsCome
<1>1. TableInv'
    BY NextTable
<1>2. o \in Objects /\ InSync(o)
    BY <1>1 DEF InSync, TableInv, RestTypes, Filtered
<1>3. l \in Nat \ {0} /\ Kids[o][l] \in KidSet(o)
    BY <1>2, KidsAre
<1>4. Reachable(Kids[o][l])
    BY <1>2, <1>3, ReachableKept
<1>5. CASE o \in tableOn
    BY <1>2, <1>4, <1>5 DEF KidsCome
<1>6. CASE o \notin tableOn
    BY <1>2, <1>3, <1>6
<1> QED BY <1>5, <1>6

\* A step that does not come to an object, and is not one of the loops.
LEMMA QuietComes ==
    ASSUME TableInv, ComesInv, [Next]_vars, Grows, Under, tableOn' = tableOn, syncs' = syncs,
           stack = <<>> \/ Head(stack).op # "walk", RootsCome'
    PROVE  ComesInv'
<1>1. KidsCome'
  <2>1. \A o, l : Walking(o, l) => Walking(o, l)'
    <3> SUFFICES ASSUME NEW o, NEW l, Walking(o, l) PROVE Walking(o, l)'
        OBVIOUS
    <3>1. stack # <<>> /\ stack[1] = Head(stack)
        BY DEF Walking, TableInv, RowsInv
    <3> QED BY <3>1, WalkingStays
  <2> QED BY <2>1, KidsComeOn DEF ComesInv
<1>2. RowsCome'
  <2> PICK k : k = NoObject
      OBVIOUS
  <2>1. k \notin Class /\ tableOn' \subseteq tableOn \union {k}
      BY NoObjectAssumption, MappingAssumption
  <2> QED BY <2>1, RowsComeOn DEF ComesInv
<1> QED BY <1>1, <1>2 DEF ComesInv

\* The walk takes the next child, or there is none it should come to.
LEMMA WalkComesOn ==
    ASSUME ClassFilter, TableInv, ClassInv, ComesInv, TableWalk PROVE ComesInv'
<1> PICK o : o = Head(stack).at
    OBVIOUS
<1> PICK i : i = Head(stack).i
    OBVIOUS
<1>1. [Next]_vars /\ Grows /\ Under
  <2>1. [Next]_vars
      BY DEF Next, MainStep
  <2> QED BY <2>1, NextTable
<1>2. /\ stack # <<>> /\ stack[1] = Head(stack) /\ Head(stack).op = "walk"
      /\ UNCHANGED <<syncs, inSync, roots, listening>>
      /\ o \in Objects /\ i \in Nat \ {0}
  <2>1. stack # <<>> /\ Head(stack).op = "walk" /\ UNCHANGED <<syncs, inSync, roots, listening>>
      BY DEF TableWalk, Executing, rmc, objs
  <2>2. Head(stack) \in WalkFrames
      BY <2>1, TopFrame DEF TableInv
  <2>3. stack[1] = Head(stack) /\ i # 0
      BY <2>1, TopClass DEF FrameReady
  <2> QED BY <2>1, <2>2, <2>3 DEF WalkFrames, Filtered
<1>3. ASSUME tableOn \subseteq tableOn' PROVE RootsCome'
  <2>1. \A s, k : Pending(s, k) => Pending(s, k)'
      BY <1>1, <1>2, PendingStays
  <2> QED BY <1>2, <1>3, <2>1 DEF ComesInv, RootsCome
<1>4. ASSUME NEW p \in tableOn, NEW l \in DOMAIN Kids[p], Walking(p, l), ~(p = o /\ i <= l)
      PROVE  Walking(p, l)'
    BY <1>1, <1>2, <1>4, WalkingStays
<1>5. CASE LoopEnds(o, i) /\ UNCHANGED <<rows, tableOn>>
  <2>1. \A l \in DOMAIN Kids[o] : i <= l => ~Reachable(Kids[o][l])
      BY <1>2, <1>5, LoopEndsAfter
  <2>2. KidsCome'
      BY <1>1, <1>2, <1>4, <1>5, <2>1, KidsComeOn DEF ComesInv
  <2>3. RowsCome'
      BY <1>5 DEF ComesInv, RowsCome
  <2> QED BY <1>3, <1>5, <2>2, <2>3 DEF ComesInv
<1>6. ASSUME NEW j \in DOMAIN Kids[o], HasChild(o, i, j), NEW k, k = Kids[o][j],
             Comes(k, <<WalkFrame(o, j + 1)>>)
      PROVE  ComesInv'
  <2>1. /\ tableOn' = tableOn \union {k}
        /\ k \in Class => \E n \in 1..Len(rows') : rows'[n].obj = k
        /\ InSync(k) => \E h \in 1..Len(stack') : stack'[h] = WalkFrame(k, 1)
        /\ \E h \in 1..Len(stack') : stack'[h] = WalkFrame(o, j + 1)
      BY <1>6, WalkComes DEF Comes
  <2>2. \A p : \A l \in DOMAIN Kids[o] : l \in Nat \ {0}
      BY <1>2, KidsAre
  <2>3. InSync(k) => \A l \in Nat \ {0} : Walking(k, l)'
      BY <2>1, WalkingFrame
  <2>4. ASSUME NEW p \in tableOn, NEW l \in DOMAIN Kids[p], Walking(p, l), Reachable(Kids[p][l])
        PROVE  Kids[p][l] \in tableOn' \/ Walking(p, l)'
    <3>1. CASE ~(p = o /\ i <= l)
        BY <1>4, <2>4, <3>1
    <3>2. CASE p = o /\ i <= l /\ l = j
        BY <1>6, <2>1, <3>2
    <3>3. CASE p = o /\ i <= l /\ l # j
      <4>1. l \in Nat /\ j \in Nat
          BY <2>2, <3>3
      <4>2. j + 1 <= l
          BY <1>2, <1>6, <2>4, <3>3, TakesNext
      <4>3. Walking(o, l)'
          BY <2>1, <4>1, <4>2, WalkingFrame
      <4> QED BY <3>3, <4>3
    <3> QED BY <3>1, <3>2, <3>3
  <2>5. \A p \in tableOn' : p \notin tableOn /\ InSync(p) => \A l \in Nat \ {0} : Walking(p, l)'
      BY <2>1, <2>3
  <2>6. tableOn \subseteq tableOn' /\ syncs' = syncs
      BY <1>2, <2>1
  <2>7. KidsCome'
      BY <1>1, <2>4, <2>5, <2>6, KidsComeOn DEF ComesInv
  <2>8. RowsCome'
      BY <1>1, <2>1, RowsComeOn DEF ComesInv
  <2> QED BY <1>3, <2>6, <2>7, <2>8 DEF ComesInv
<1>7. ASSUME NEW j \in DOMAIN Kids[o], NEW k, k = Kids[o][j],
             rows' = IF k \in Class THEN Append(rows, NewRow(k, FALSE)) ELSE rows,
             tableOn' = tableOn \union {k}, Calls(RowThenWalk(k) \o <<WalkFrame(o, j + 1)>>)
      PROVE  Comes(k, <<WalkFrame(o, j + 1)>>)
    BY <1>2, <1>7 DEF Comes
<1> QED BY <1>5, <1>6, <1>7 DEF TableWalk

\* The table is a client of one object more.
LEMMA MoreComes ==
    ASSUME TableInv, ComesInv, [Next]_vars, NEW r, tableOn' = tableOn \union {r}, syncs' = syncs,
           stack = <<>> \/ Head(stack).op # "walk", RootsCome',
           r \in Class => \E n \in 1..Len(rows') : rows'[n].obj = r,
           InSync(r) => \E h \in 1..Len(stack') : stack'[h] = WalkFrame(r, 1)
    PROVE  ComesInv'
<1>1. Grows /\ Under
    BY NextTable
<1>2. \A o, l : Walking(o, l) => Walking(o, l)'
  <2> SUFFICES ASSUME NEW o, NEW l, Walking(o, l) PROVE Walking(o, l)'
      OBVIOUS
  <2>1. stack # <<>> /\ stack[1] = Head(stack)
      BY DEF Walking, TableInv, RowsInv
  <2> QED BY <1>1, <2>1, WalkingStays
<1>3. InSync(r) => \A l \in Nat \ {0} : Walking(r, l)'
    BY WalkingFrame
<1>4. KidsCome'
    BY <1>2, <1>3, KidsComeOn DEF ComesInv
<1>5. RowsCome'
    BY <1>1, RowsComeOn DEF ComesInv
<1> QED BY <1>4, <1>5 DEF ComesInv

\* The loop over the roots of a server comes to the next.
LEMMA ServerComesOn ==
    ASSUME ClassFilter, TableInv, ClassInv, ComesInv, TableServerSync PROVE ComesInv'
<1> PICK s : s = Head(stack).at
    OBVIOUS
<1> PICK i : i = Head(stack).i
    OBVIOUS
<1>1. [Next]_vars /\ Grows /\ Under
  <2>1. [Next]_vars
      BY DEF Next, MainStep
  <2> QED BY <2>1, NextTable
<1>2. /\ stack # <<>> /\ stack[1] = Head(stack) /\ Head(stack).op = "server"
      /\ UNCHANGED <<syncs, inSync, roots, listening>>
      /\ s \in Servers /\ i \in Nat \ {0} /\ roots \in [Servers -> Seq(Objects)]
  <2>1. stack # <<>> /\ Head(stack).op = "server" /\ UNCHANGED <<syncs, inSync, roots, listening>>
      BY DEF TableServerSync, Executing, rmc, objs
  <2>2. Head(stack) \in ServerFrames
      BY <2>1, TopFrame DEF TableInv
  <2>3. stack[1] = Head(stack)
      BY <2>1, TopClass
  <2> QED BY <2>1, <2>2, <2>3 DEF ServerFrames, TableInv, RestTypes
<1>3. ASSUME NEW t, NEW k, Pending(t, k), ~(t = s /\ i <= k) PROVE Pending(t, k)'
    BY <1>1, <1>2, <1>3, PendingWaits
<1>4. \A t \in Servers : \A k \in 1..Len(roots[t]) : k \in Nat
  <2>1. \A t \in Servers : Len(roots[t]) \in Nat
      BY <1>2
  <2> QED BY <2>1
<1>5. \A t \in listening : t \in Servers
    BY DEF TableInv, RestTypes
<1>6. CASE i > Len(roots[s])
  <2>1. UNCHANGED <<rows, tableOn>>
      BY <1>6 DEF TableServerSync
  <2>2. RootsCome'
    <3> SUFFICES ASSUME NEW t \in listening \intersect inSync, NEW k \in 1..Len(roots[t]),
                        Pending(t, k)
                 PROVE  Pending(t, k)'
        BY <1>2, <2>1 DEF ComesInv, RootsCome
    <3>1. ~(t = s /\ i <= k)
      <4>1. Len(roots[s]) \in Nat
          BY <1>2
      <4> QED BY <1>2, <1>6, <4>1
    <3> QED BY <1>3, <3>1
  <2> QED BY <1>1, <1>2, <2>1, <2>2, QuietComes
<1>7. CASE ~(i > Len(roots[s]))
  <2> PICK r : r = roots[s][i]
      OBVIOUS
  <2>1. TableRootAdded(r, <<ServerFrame(s, i + 1)>>)
      BY <1>7 DEF TableServerSync
  <2>2. Comes(r, <<ServerFrame(s, i + 1)>>)
      BY <1>2, <2>1 DEF TableRootAdded, Comes
  <2>3. /\ r \in Class => \E n \in 1..Len(rows') : rows'[n].obj = r
        /\ InSync(r) => \E h \in 1..Len(stack') : stack'[h] = WalkFrame(r, 1)
        /\ \E h \in 1..Len(stack') : stack'[h] = ServerFrame(s, i + 1)
        /\ tableOn' = tableOn \union {r}
    <3>1. /\ r \in Class => \E n \in 1..Len(rows') : rows'[n].obj = r
          /\ InSync(r) => \E h \in 1..Len(stack') : stack'[h] = WalkFrame(r, 1)
          /\ \E h \in 1..Len(stack') : stack'[h] = ServerFrame(s, i + 1)
        BY <1>7, <2>2, ServerRootComes
    <3>2. tableOn' = tableOn \union {r}
        BY <2>2 DEF Comes
    <3> QED BY <3>1, <3>2
  <2>4. RootsCome'
    <3> SUFFICES ASSUME NEW t \in listening \intersect inSync, NEW k \in 1..Len(roots[t])
                 PROVE  roots[t][k] \in tableOn' \/ Pending(t, k)'
        BY <1>2 DEF RootsCome
    <3>1. k \in Nat /\ (roots[t][k] \in tableOn \/ Pending(t, k))
        BY <1>4, <1>5 DEF ComesInv, RootsCome
    <3>2. CASE ~(t = s /\ i <= k)
        BY <1>3, <2>3, <3>1, <3>2
    <3>3. CASE t = s /\ k = i
        BY <2>3, <3>3
    <3>4. CASE t = s /\ i <= k /\ k # i
      <4>1. i + 1 <= k /\ i + 1 \in Nat
          BY <1>2, <3>1, <3>4
      <4> QED BY <2>3, <3>1, <3>4, <4>1, PendingFrame
    <3> QED BY <3>2, <3>3, <3>4
  <2> QED BY <1>1, <1>2, <2>3, <2>4, MoreComes
<1> QED BY <1>6, <1>7

\* An added server that is in sync: the loop over its roots is the next call.
LEMMA ServerAddedComesOn == ASSUME TableInv, ComesInv, TableServerAdded PROVE ComesInv'
<1> PICK s : s = Head(stack).at
    OBVIOUS
<1> PICK f : f = ServerFrame(s, 1)
    OBVIOUS
<1>1. [Next]_vars /\ Grows /\ Under
  <2>1. [Next]_vars
      BY DEF Next, MainStep
  <2> QED BY <2>1, NextTable
<1>2. /\ stack # <<>> /\ Head(stack).op = "added" /\ listening' = listening \union {s}
      /\ UNCHANGED <<syncs, inSync, roots, tableOn>> /\ Calls(When(s \in inSync, f))
    BY DEF TableServerAdded, Executing, rmc, objs, tableVars
<1>3. s \in Servers /\ f \in CallerFrames
  <2>1. s \in Servers
      BY <1>2, TopFrame DEF TableInv, AddedFrames
  <2> QED BY <2>1, PushedFrames
<1>4. s \in inSync => \E h \in 1..Len(stack') : stack'[h] = f
  <2> SUFFICES ASSUME s \in inSync PROVE \E h \in 1..Len(stack') : stack'[h] = f
      OBVIOUS
  <2> PICK S : S = FramesFor(Len(rows))
      OBVIOUS
  <2>1. f \in S /\ stack \in Seq(S)
      BY <1>3, CallerFrame DEF TableInv, RowsInv
  <2>2. Calls(<<f>>)
      BY <1>2 DEF When
  <2>3. <<f>> \in Seq(S) /\ 1 \in 1..Len(<<f>>) /\ <<f>>[1] = f
      BY <2>1
  <2> QED BY ONLY <2>1, <2>2, <2>3, CallsOver
<1>5. \A t, k : Pending(t, k) => Pending(t, k)'
    BY <1>1, <1>2, PendingStays
<1>6. RootsCome'
  <2> SUFFICES ASSUME NEW t \in listening' \intersect inSync, NEW k \in 1..Len(roots[t])
               PROVE  roots[t][k] \in tableOn \/ Pending(t, k)'
      BY <1>2 DEF RootsCome
  <2>1. CASE t \in listening
      BY <1>5, <2>1 DEF ComesInv, RootsCome
  <2>2. CASE t = s
    <3>1. roots[s] \in Seq(Objects)
        BY <1>3 DEF TableInv, RestTypes
    <3>2. k \in Nat /\ 1 <= k
        BY <2>2, <3>1
    <3> QED BY <1>4, <2>2, <3>2, PendingFrame
  <2> QED BY <1>2, <2>1, <2>2
<1> QED BY <1>1, <1>2, <1>6, QuietComes

\* Rows and variables, and the servers that are added first.
LEMMA OwnComesOn ==
    ASSUME TableInv, ComesInv, AddServerPool \/ RowColumn \/ VariableSync \/ VariableKids
    PROVE  ComesInv'
<1>1. [Next]_vars /\ Grows /\ Under
  <2>1. [Next]_vars
      BY DEF Next, MainStep
  <2> QED BY <2>1, NextTable
<1>2. /\ stack = <<>> \/ Head(stack).op \notin {"server", "walk"}
      /\ UNCHANGED <<syncs, inSync, roots, tableOn, listening>>
    BY DEF AddServerPool, RowColumn, VariableSync, VariableKids, Executing, Idle, rmc, objs, tableVars
<1>3. \A t, k : Pending(t, k) => Pending(t, k)'
    BY <1>1, <1>2, PendingStays
<1>4. RootsCome'
    BY <1>2, <1>3 DEF ComesInv, RootsCome
<1> QED BY <1>1, <1>2, <1>4, QuietComes

\* With nothing executing there is no loop to wait for.
LEMMA IdleComes ==
    ASSUME stack = <<>>, ComesInv
    PROVE  /\ \A s \in listening \intersect inSync : \A k \in 1..Len(roots[s]) : roots[s][k] \in tableOn
           /\ \A o \in tableOn : InSync(o) => \A l \in DOMAIN Kids[o] :
                 Reachable(Kids[o][l]) => Kids[o][l] \in tableOn
           /\ \A o, l : ~Walking(o, l)
<1>1. Len(stack) = 0
    OBVIOUS
<1> QED BY <1>1 DEF ComesInv, RootsCome, KidsCome, Pending, Walking

\* What happens to servers.
LEMMA ServerEventComesOn ==
    ASSUME TableInv, ComesInv, NEW s \in Servers,
           ServerAdded(s) \/ ServerRemoved(s) \/ ServerError(s) \/ ServerSync(s)
    PROVE  ComesInv'
<1>1. [Next]_vars /\ Grows /\ Under
  <2>1. [Next]_vars
      BY DEF Next, RmcEvent
  <2> QED BY <2>1, NextTable
<1>2. stack = <<>> /\ UNCHANGED <<syncs, tableOn>> /\ roots \in [Servers -> Seq(Objects)]
    BY DEF ServerAdded, ServerRemoved, ServerError, ServerSync, rmc, objs, tableVars, Idle, TableInv,
           RestTypes
<1>3. \A t \in listening \intersect inSync : \A k \in 1..Len(roots[t]) : roots[t][k] \in tableOn
    BY <1>2, IdleComes
<1>4. CASE ServerAdded(s) \/ ServerRemoved(s) \/ ServerError(s)
  <2>1. /\ listening' \intersect inSync' \subseteq listening \intersect inSync
        /\ listening \subseteq Servers
        /\ roots' = roots \/ (roots' = [roots EXCEPT ![s] = <<>>] /\ listening' = listening \ {s})
      BY <1>4 DEF ServerAdded, ServerRemoved, ServerError, rmc, TableInv, RestTypes
  <2>2. \A t \in listening' \intersect inSync' : roots'[t] = roots[t]
      BY <1>2, <2>1
  <2>3. RootsCome'
      BY <1>2, <1>3, <2>1, <2>2 DEF RootsCome
  <2> QED BY <1>1, <1>2, <2>3, QuietComes
<1>5. CASE ServerSync(s)
  <2>1. /\ inSync' = inSync \union {s} /\ UNCHANGED <<roots, listening>>
        /\ stack' = When(s \in listening, ServerFrame(s, 1))
      BY <1>5 DEF ServerSync
  <2>2. s \in listening => \E h \in 1..Len(stack') : stack'[h] = ServerFrame(s, 1)
    <3> SUFFICES ASSUME s \in listening, NEW f, f = ServerFrame(s, 1)
                 PROVE  \E h \in 1..Len(stack') : stack'[h] = f
        OBVIOUS
    <3>1. stack' = <<f>>
        BY <2>1 DEF When
    <3> QED BY <3>1
  <2>3. RootsCome'
    <3> SUFFICES ASSUME NEW t \in listening \intersect inSync', NEW k \in 1..Len(roots[t])
                 PROVE  roots[t][k] \in tableOn \/ Pending(t, k)'
        BY <1>2, <2>1 DEF RootsCome
    <3>1. CASE t \in inSync
        BY <1>3, <3>1
    <3>2. CASE t = s
      <4>1. roots[s] \in Seq(Objects)
          BY <1>2
      <4>2. k \in Nat /\ 1 <= k
          BY <3>2, <4>1
      <4> QED BY <2>2, <3>2, <4>2, PendingFrame
    <3> QED BY <2>1, <3>1, <3>2
  <2> QED BY <1>1, <1>2, <2>3, QuietComes
<1> QED BY <1>4, <1>5

\* What happens to roots.
LEMMA RootEventComesOn ==
    ASSUME ClassFilter, TableInv, ClassInv, ComesInv, NEW s \in Servers, NEW r \in Objects,
           RootAdded(s, r) \/ RootRemoved(s, r)
    PROVE  ComesInv'
<1>1. [Next]_vars /\ Grows /\ Under
  <2>1. [Next]_vars
      BY DEF Next, RmcEvent
  <2> QED BY <2>1, NextTable
<1>2. stack = <<>> /\ UNCHANGED <<syncs, inSync, listening>> /\ listening \subseteq Servers
    BY DEF RootAdded, RootRemoved, objs, Idle, TableInv, RestTypes
<1>3. \A t \in listening \intersect inSync : \A k \in 1..Len(roots[t]) : roots[t][k] \in tableOn
    BY <1>2, IdleComes
<1>4. CASE RootRemoved(s, r)
  <2>1. tableOn' = tableOn
      BY <1>4 DEF RootRemoved
  <2>2. \A t \in Servers : \A k \in 1..Len(roots'[t]) :
           \E h \in 1..Len(roots[t]) : roots'[t][k] = roots[t][h]
      BY <1>4, RootRemovedIs DEF ClassInv, FromServer
  <2>3. RootsCome'
      BY <1>2, <1>3, <2>1, <2>2 DEF RootsCome
  <2> QED BY <1>1, <1>2, <2>1, <2>3, QuietComes
<1>5. CASE RootAdded(s, r)
  <2>1. \A t \in Servers : \A k \in 1..Len(roots'[t]) :
           \/ k \in 1..Len(roots[t]) /\ roots'[t][k] = roots[t][k]
           \/ t = s /\ roots'[t][k] = r
      BY <1>5, RootAddedIs DEF ClassInv, FromServer
  <2>2. CASE s \in inSync /\ s \in listening
    <3>1. /\ tableOn' = tableOn \union {r}
          /\ r \in Class => \E n \in 1..Len(rows') : rows'[n].obj = r
          /\ InSync(r) => \E h \in 1..Len(stack') : stack'[h] = WalkFrame(r, 1)
        BY <1>5, <2>2, RootAddedComes
    <3>2. RootsCome'
        BY <1>2, <1>3, <2>1, <3>1 DEF RootsCome
    <3> QED BY <1>1, <1>2, <3>1, <3>2, MoreComes
  <2>3. CASE ~(s \in inSync /\ s \in listening)
    <3>1. tableOn' = tableOn
        BY <1>5, <2>3 DEF RootAdded
    <3>2. RootsCome'
        BY <1>2, <1>3, <2>1, <2>3, <3>1 DEF RootsCome
    <3> QED BY <1>1, <1>2, <3>1, <3>2, QuietComes
  <2> QED BY <2>2, <2>3
<1> QED BY <1>4, <1>5

\* An object that syncs is walked, if the table is its client.
LEMMA ObjectSyncComesOn ==
    ASSUME ClassFilter, TableInv, ComesInv, NEW o \in Objects, ObjectSync(o) PROVE ComesInv'
<1>1. [Next]_vars
    BY DEF Next, RmcEvent
<1>2. /\ stack = <<>> /\ UNCHANGED <<inSync, roots, listening, tableOn, rows>>
      /\ syncs' = [syncs EXCEPT ![o] = syncs[o] + 1] /\ syncs \in [Objects -> Nat]
      /\ tableOn \subseteq Objects
    BY DEF ObjectSync, Idle, tableVars, TableInv, RestTypes, Filtered
<1>3. RootsCome'
    BY <1>2, IdleComes DEF RootsCome
<1>4. KidsCome'
  <2> SUFFICES ASSUME NEW p \in tableOn, InSync(p)', NEW l \in DOMAIN Kids[p], Reachable(Kids[p][l])'
               PROVE  Kids[p][l] \in tableOn \/ Walking(p, l)'
      BY <1>2 DEF KidsCome
  <2>1. p \in Objects /\ l \in Nat \ {0} /\ Kids[p][l] \in KidSet(p)
      BY <1>2, KidsAre
  <2>2. CASE p = o
    <3>1. \E h \in 1..Len(stack') : stack'[h] = WalkFrame(o, 1)
        BY <2>2, SyncStack
    <3> QED BY <2>1, <2>2, <3>1, WalkingFrame
  <2>3. CASE p # o
    <3>1. syncs'[p] = syncs[p]
        BY <1>2, <2>1, <2>3
    <3>2. InSync(p) /\ ~ObjectSync(p)
      <4>1. InSync(p)
          BY <3>1 DEF InSync
      <4>2. ASSUME ObjectSync(p) PROVE FALSE
        <5>1. syncs' = [syncs EXCEPT ![p] = syncs[p] + 1]
            BY <4>2 DEF ObjectSync
        <5> QED BY <1>2, <2>1, <3>1, <5>1
      <4> QED BY <4>1, <4>2
    <3>3. Reachable(Kids[p][l])
        BY <1>1, <2>1, <3>2, ReachableBack
    <3> QED BY <1>2, <3>2, <3>3, IdleComes
  <2> QED BY <2>2, <2>3
<1>5. RowsCome'
    BY <1>2 DEF ComesInv, RowsCome
<1> QED BY <1>3, <1>4, <1>5 DEF ComesInv

\* Every step of a table with a class filter.
LEMMA NextComes ==
    ASSUME ClassFilter, TableInv, ClassInv, ComesInv, [Next]_vars PROVE ComesInv'
<1>1. CASE UNCHANGED vars
    BY <1>1 DEF vars, rmc, objs, tableVars, ComesInv, RootsCome, KidsCome, RowsCome, Pending, Walking,
                InSync, Reachable
<1>2. CASE MainStep
    BY <1>2, ServerAddedComesOn, ServerComesOn, WalkComesOn, OwnComesOn DEF MainStep
<1>3. ASSUME NEW o \in Objects, ObjectError(o) \/ ChildAdded(o) PROVE ComesInv'
  <2>1. /\ stack = <<>>
        /\ UNCHANGED <<syncs, inSync, roots, tableOn, listening, stack>>
      BY <1>3 DEF ObjectError, ChildAdded, tableVars, Idle
  <2>2. RootsCome'
      BY <2>1 DEF ComesInv, RootsCome, Pending
  <2> QED BY <2>1, <2>2, NextTable, QuietComes
<1>4. CASE RmcEvent
    BY <1>3, <1>4, ServerEventComesOn, RootEventComesOn, ObjectSyncComesOn DEF RmcEvent
<1> QED BY <1>1, <1>2, <1>4, OwnComesOn DEF Next

\* Down a path of objects that are in sync and reachable the table comes to
\* the last: else those it has not come to would have the root above them.
LEMMA PathComes ==
    ASSUME stack = <<>>, ComesInv, NEW r \in tableOn, NEW o, Below(r, o),
           \A p \in Above[o] : p # o => InSync(p),
           \A p \in Above[o] : p # r => Reachable(p)
    PROVE  o \in tableOn
<1> SUFFICES ASSUME o \notin tableOn PROVE FALSE
    OBVIOUS
<1> PICK S : S = {p \in Above[o] : Below(r, p) /\ p \notin tableOn}
    OBVIOUS
<1>1. o \in Objects /\ r \in Above[o] /\ Above[o] \subseteq Objects /\ o \in Above[o]
    BY AboveIs DEF Below
<1>2. o \in S /\ S \in SUBSET Objects
    BY <1>1
<1>3. HasParents(S)
  <2> SUFFICES ASSUME NEW q \in Objects, NEW p \in KidSet(q), p \in S PROVE q \in S
      BY DEF HasParents
  <2>1. p \in Above[o] /\ Below(r, p) /\ p \notin tableOn /\ p # r
      OBVIOUS
  <2>2. Below(p, o) /\ Below(q, o) /\ q \in Above[o]
    <3>1. Below(p, o)
        BY <1>1, <2>1 DEF Below
    <3> QED BY <3>1, ParentAbove DEF Below
  <2>3. Below(r, q)
      BY <2>1, AboveChild
  <2>4. q # o
      BY <2>2, ChildApart
  <2>5. q \notin tableOn
    <3> SUFFICES ASSUME q \in tableOn PROVE FALSE
        OBVIOUS
    <3>1. PICK l \in DOMAIN Kids[q] : Kids[q][l] = p
        BY TreeAssumption DEF KidSet, ToSet
    <3>2. InSync(q) /\ Reachable(p)
        BY <2>1, <2>2, <2>4
    <3> QED BY <2>1, <3>1, <3>2, IdleComes
  <2> QED BY <2>2, <2>3, <2>5
<1>4. Above[o] \subseteq S
    BY <1>1, <1>2, <1>3, AboveIs
<1> QED BY <1>1, <1>4

\* Every object of the class beneath a connected root has a row, between two
\* events, once all above it are in sync and none of them is in error or late.
THEOREM ClassObjectsAlwaysHaveRows == Spec => []ClassObjectsHaveRows
<1> DEFINE Inv == TableInv /\ (ClassFilter => ClassInv /\ ComesInv)
<1>1. Init => Inv
    BY InitTable, InitClass, InitComes
<1>2. Inv /\ [Next]_vars => Inv'
    BY NextTable, NextClass, NextComes
<1>3. Inv => ClassObjectsHaveRows
  <2> SUFFICES ASSUME Inv, Idle, ClassFilter, NEW r \in LiveRoots, NEW o \in Class, Below(r, o),
                      \A p \in Above[o] : p # o => InSync(p),
                      \A p \in Above[o] : p # r => Reachable(p)
               PROVE  \E n \in 1..Len(rows) : rows[n].obj = o
      BY DEF ClassObjectsHaveRows
  <2>1. ComesInv /\ stack = <<>>
      BY DEF Idle
  <2>2. r \in tableOn
    <3>1. PICK s \in listening \intersect inSync : r \in ToSet(roots[s])
        BY DEF LiveRoots
    <3>2. roots[s] \in Seq(Objects)
        BY DEF TableInv, RestTypes
    <3>3. PICK k \in 1..Len(roots[s]) : roots[s][k] = r
        BY <3>1, <3>2 DEF ToSet
    <3> QED BY <2>1, <3>3, IdleComes
  <2>3. o \in tableOn
      BY <2>1, <2>2, PathComes
  <2> QED BY <2>1, <2>3 DEF ComesInv, RowsCome
<1> QED
  <2> HIDE DEF Inv
  <2> QED BY <1>1, <1>2, <1>3, PTL DEF Spec

----------------------------------------------------------------------------
(* The table while it is served: what a query can rely on though the main    *)
(* thread extends rows_ under it.  The main thread's part is the table's own *)
(* invariant, and that rows only grow; the query's part is that it has       *)
(* handed out the complete rows that it passed (Visited).                    *)

\* The rows that a query has passed.
Visited == \A n \in owed : n < it => n \in seen

\* Rows owed are complete rows.  An iteration has handed out those it passed,
\* and all of them when it is over.
QueryInv ==
    /\ query \in {"none", "iterate", "free", "handle", "crashed"}
    /\ it \in Nat /\ seen \subseteq 1..Len(rows)
    /\ owed \subseteq {n \in 1..Len(rows) : rows[n].built = Columns}
    /\ query = "iterate" => it > 0 /\ Visited

\* One context, from the first data point until it is freed.
ContextInv ==
    /\ contexts \in Nat
    /\ ContextsBalanced

\* What the SNMP thread does changes nothing of the table.
LEMMA QueryLeavesTable == ASSUME QueryStep PROVE UNCHANGED vars
BY DEF QueryStep, QueryFirst, QueryNext, QueryFree, Handle

\* The table's part of a step is a step of the table.
LEMMA ServiceStep == ASSUME [ServiceNext]_allVars PROVE [Next]_vars
<1>1. CASE UNCHANGED allVars
    BY <1>1 DEF allVars
<1>2. CASE QueryStep
    BY <1>2, QueryLeavesTable
<1> QED BY <1>1, <1>2 DEF ServiceNext, Main, Crashed

\* The rows owed to a query outlast whatever the main thread does.
LEMMA OwedStay ==
    ASSUME TableInv, TableInv', QueryInv, Grows, UNCHANGED <<owed, seen>>
    PROVE  /\ owed' \subseteq {n \in 1..Len(rows') : rows'[n].built = Columns}
           /\ seen' \subseteq 1..Len(rows')
<1>1. /\ rows \in Seq(Rows) /\ rows' \in Seq(Rows) /\ Columns \in Nat
      /\ Len(rows) \in Nat /\ Len(rows') \in Nat /\ Len(rows) <= Len(rows')
    BY ColumnsAssumption DEF TableInv, RowsInv, Grows
<1>2. ASSUME NEW n \in 1..Len(rows), rows[n].built = Columns PROVE rows'[n].built = Columns
  <2>1. n \in 1..Len(rows')
      BY <1>1
  <2>2. rows'[n].built \in 0..Columns
    <3>1. rows'[n] \in Rows
        BY <1>1, <2>1
    <3> QED BY <3>1 DEF Rows
  <2>3. rows'[n].built >= Columns
      BY <1>2 DEF Grows
  <2> QED BY <1>1, <2>2, <2>3
<1> QED BY <1>1, <1>2 DEF QueryInv

\* The iteration ends at the end of rows_, or at the row under construction,
\* which is the last: no complete row is left.
LEMMA IterationEnds ==
    ASSUME Index # {}, TableInv, QueryInv, QueryNext, query' = "free"
    PROVE  owed \subseteq seen'
<1>1. query = "iterate" /\ it \in Nat /\ it > 0 /\ Visited /\ Len(rows) \in Nat /\ Columns \in Nat
    BY ColumnsAssumption DEF QueryInv, QueryNext, TableInv, RowsInv
<1>2. CASE it > Len(rows)
  <2>1. seen' = seen
      BY <1>1, <1>2 DEF QueryNext
  <2> QED BY <1>1, <1>2, <2>1 DEF QueryInv, Visited
<1>3. CASE it <= Len(rows)
  <2>1. {c \in Index : c <= rows[it].built} = {} /\ seen' = seen
      BY <1>1, <1>3 DEF QueryNext
  <2>2. it \in 1..Len(rows)
      BY <1>1, <1>3
  <2>3. rows[it].built # Columns
    <3>1. PICK c \in Index : c \in 1..Columns
        BY IndexAssumption DEF Cols
    <3>2. ~(c <= rows[it].built)
        BY <2>1
    <3> QED BY <1>1, <3>1, <3>2
  <2>4. it = Len(rows)
      BY <2>2, <2>3 DEF TableInv, RowsInv, Nested
  <2>5. \A n \in owed : n \in 1..Len(rows) /\ n # it
      BY <2>3 DEF QueryInv
  <2> QED BY <1>1, <2>1, <2>4, <2>5 DEF Visited
<1> QED BY <1>1, <1>2, <1>3

\* One row further.
LEMMA RowPassed ==
    ASSUME TableInv, QueryInv, QueryNext PROVE QueryInv'
<1>1. query = "iterate" /\ it \in Nat /\ it > 0 /\ Visited /\ Len(rows) \in Nat
    BY DEF QueryInv, QueryNext, TableInv, RowsInv
<1>2. UNCHANGED <<rows, owed>>
    BY DEF QueryNext, vars, tableVars
<1>3. CASE query' = "iterate"
  <2>1. it <= Len(rows) /\ it' = it + 1 /\ seen' = seen \union {it}
      BY <1>1, <1>3 DEF QueryNext, Advance
  <2>2. it \in 1..Len(rows)
      BY <1>1, <2>1
  <2>3. Visited'
      BY <1>1, <1>2, <2>1 DEF QueryInv, Visited
  <2> QED BY <1>1, <1>2, <1>3, <2>1, <2>2, <2>3 DEF QueryInv
<1>4. CASE query' # "iterate"
  <2>1. query' \in {"free", "crashed"} /\ it' \in Nat /\ seen' = seen
      BY <1>1, <1>4 DEF QueryNext, Advance
  <2> QED BY <1>1, <1>2, <2>1 DEF QueryInv
<1> QED BY <1>3, <1>4

\* A query begins: every row that is complete is owed, none is passed.
LEMMA QueryBegins == ASSUME TableInv, QueryFirst PROVE QueryInv'
<1>1. UNCHANGED rows /\ Len(rows) \in Nat
    BY DEF QueryFirst, vars, tableVars, TableInv, RowsInv
<1>2. /\ owed' = {n \in 1..Len(rows) : rows[n].built = Columns}
      /\ seen' = {} /\ it' = 1 /\ query' \in {"handle", "iterate"}
    BY DEF QueryFirst
<1>3. Visited'
    BY <1>2 DEF Visited
<1> QED BY <1>1, <1>2, <1>3 DEF QueryInv

\* A step of the main thread leaves a query where it is.
LEMMA QueryWaits ==
    ASSUME TableInv, TableInv', QueryInv, Grows, UNCHANGED qvars
    PROVE  QueryInv'
<1>1. UNCHANGED <<query, it, seen, owed, contexts>>
    BY DEF qvars
<1> QED BY <1>1, OwedStay DEF QueryInv, Visited

\* Every step of either thread keeps the query's invariant.
LEMMA ServiceQuery ==
    ASSUME TableInv, QueryInv, [ServiceNext]_allVars
    PROVE  QueryInv' /\ TableInv'
<1>1. TableInv' /\ Grows
    BY ServiceStep, NextTable
<1>2. CASE UNCHANGED qvars
    BY <1>1, <1>2, QueryWaits
<1>3. CASE QueryFirst
    BY <1>1, <1>3, QueryBegins
<1>4. CASE QueryNext
    BY <1>1, <1>4, RowPassed
<1>5. CASE QueryFree \/ Handle
  <2>1. UNCHANGED <<rows, it, seen, owed>> /\ query' \in {"handle", "none", "crashed"}
      BY <1>5 DEF QueryFree, Handle, vars, tableVars
  <2> QED BY <1>1, <2>1 DEF QueryInv
<1> QED BY <1>2, <1>3, <1>4, <1>5 DEF ServiceNext, QueryStep, Main, Crashed, allVars

\* No query is under way.
LEMMA InitService == ServiceInit => TableInv /\ QueryInv /\ QueryComplete /\ ContextInv
<1> SUFFICES ASSUME ServiceInit PROVE TableInv /\ QueryInv /\ QueryComplete /\ ContextInv
    OBVIOUS
<1>1. TableInv
    BY InitTable DEF ServiceInit
<1>2. QueryInv /\ QueryComplete /\ ContextInv
    BY DEF ServiceInit, QueryInv, QueryComplete, ContextInv, ContextsBalanced
<1> QED BY <1>1, <1>2

\* While it is served the table is what it is without queries, and a query
\* stays within it.
THEOREM ServiceInductive == ServiceSpec => [](TableInv /\ QueryInv)
<1>1. TableInv /\ QueryInv /\ [ServiceNext]_allVars => (TableInv /\ QueryInv)'
    BY ServiceQuery
<1> QED BY <1>1, InitService, PTL DEF ServiceSpec

\* A query that has come to its end has been through every row that was
\* complete when it began, though the main thread went on extending rows_: a
\* row once complete stays where it is, and the row that can end the iteration
\* early, for want of an index, is the last.
THEOREM QueriesComplete == Index # {} => (ServiceSpec => []QueryComplete)
<1> SUFFICES ASSUME Index # {} PROVE ServiceSpec => []QueryComplete
    OBVIOUS
<1>1. ASSUME TableInv, QueryInv, QueryComplete, [ServiceNext]_allVars PROVE QueryComplete'
  <2>1. CASE UNCHANGED qvars
      BY <1>1, <2>1 DEF qvars, QueryComplete
  <2>2. CASE QueryFirst
    <3>1. rows = <<>> => owed' = {}
        BY <2>2 DEF QueryFirst
    <3>2. query' = IF rows = <<>> THEN "handle" ELSE "iterate"
        BY <2>2 DEF QueryFirst
    <3> QED BY <3>1, <3>2 DEF QueryComplete
  <2>3. CASE QueryNext
    <3>1. owed' = owed /\ query' \in {"free", "iterate", "crashed"}
        BY <2>3 DEF QueryNext
    <3> QED BY <1>1, <2>3, <3>1, IterationEnds DEF QueryComplete
  <2>4. CASE QueryFree \/ Handle
    <3>1. /\ UNCHANGED <<seen, owed>> /\ query \in {"free", "handle"}
        BY <2>4 DEF QueryFree, Handle
    <3> QED BY <1>1, <3>1 DEF QueryComplete
  <2> QED BY <1>1, <2>1, <2>2, <2>3, <2>4 DEF ServiceNext, QueryStep, Main, Crashed, allVars
<1>2. TableInv /\ QueryInv /\ QueryComplete /\ [ServiceNext]_allVars => QueryComplete'
    BY <1>1
<1> QED BY <1>2, InitService, ServiceInductive, PTL DEF ServiceSpec

\* The list of contexts has one element while an iteration runs and none
\* between queries, whatever the table does meanwhile.
THEOREM ContextsAlwaysBalanced == ServiceSpec => []ContextsBalanced
<1>1. ASSUME QueryInv, ContextInv, [ServiceNext]_allVars PROVE ContextInv'
  <2>1. CASE UNCHANGED qvars
      BY <1>1, <2>1 DEF qvars, ContextInv, ContextsBalanced
  <2>2. CASE QueryFirst
    <3>1. query = "none" /\ contexts = 0
        BY <1>1, <2>2 DEF QueryFirst, ContextInv, ContextsBalanced
    <3> QED BY <2>2, <3>1 DEF QueryFirst, ContextInv, ContextsBalanced
  <2>3. CASE QueryNext
    <3>1. /\ contexts = 1 /\ contexts' = contexts
          /\ query' \in {"free", "iterate", "crashed"}
        BY <1>1, <2>3 DEF QueryNext, ContextInv, ContextsBalanced
    <3> QED BY <3>1 DEF ContextInv, ContextsBalanced
  <2>4. CASE QueryFree
    <3>1. contexts = 1 /\ contexts' = contexts - 1 /\ query' = "handle"
        BY <1>1, <2>4 DEF QueryFree, ContextInv, ContextsBalanced
    <3> QED BY <3>1 DEF ContextInv, ContextsBalanced
  <2>5. CASE Handle
    <3>1. contexts = 0 /\ contexts' = contexts /\ query' \in {"none", "crashed"}
        BY <1>1, <2>5 DEF Handle, ContextInv, ContextsBalanced
    <3> QED BY <3>1 DEF ContextInv, ContextsBalanced
  <2> QED BY <1>1, <2>1, <2>2, <2>3, <2>4, <2>5
             DEF ServiceNext, QueryStep, Main, Crashed, allVars
<1>2. QueryInv /\ ContextInv /\ [ServiceNext]_allVars => ContextInv'
    BY <1>1
<1>3. ContextInv => ContextsBalanced
    BY DEF ContextInv
<1> QED BY <1>2, <1>3, InitService, ServiceInductive, PTL DEF ServiceSpec
=============================================================================
