--------------------------- MODULE TableDiscovery ---------------------------
(***************************************************************************)
(* How one adh::snmp::table_t fills its rows from RMC events                *)
(* (src/src/snmp_table.cc, snmp_row.cc, snmp_variable.cc and                *)
(* addServerPool() of adh_agent.cc).                                        *)
(*                                                                          *)
(* Everything here runs on the main thread, inside callbacks of the RMC     *)
(* library.  The handlers call one another recursively; stack is their call *)
(* stack, the innermost call first, and an action is what the innermost     *)
(* call does up to its next call or loop iteration.  An RMC event starts    *)
(* with an empty stack and leaves on it the calls of the clients it is      *)
(* delivered to.                                                            *)
(*                                                                          *)
(* An object stands for one RMC proxy object: an application that restarts  *)
(* comes back with other objects.                                           *)
(***************************************************************************)
EXTENDS Naturals, FiniteSets, SequencesExt

CONSTANTS
    Servers,     \* RMC managed object servers
    Objects,     \* RMC proxy objects
    NoObject,    \* a null pointer to one
    Apps,        \* application ids: instance and name of a root
    ClassFilter, \* hasClassFilter()
    Columns,     \* number of SNMP objects (non-null entries of objects_)
    Roots,       \* [Servers -> SUBSET Objects]: roots a server may announce
    Kids,        \* [Objects -> Seq(Objects)]: childHandles(), in order
    Late,        \* children that may be added after their parent
    App,         \* [Objects -> Apps]: the application of an object
    Class,       \* objects whose classId() is equivalent to the table's
    Target,      \* [Objects -> [1..Columns -> Objects \union {NoObject}]]:
                 \* object_id_ of each column in the row of an object
    Variables,   \* pairs <<o, c>>: object o has the variable column c names
    Attributes,  \* columns that are attributes of the object, not variables
    MaxSyncs     \* [Objects -> Nat]: bound on the Sync events of each object

Cols == 1..Columns
KidSet(o) == ToSet(Kids[o])

ASSUME ServersAssumption == Servers \intersect Objects = {}
ASSUME NoObjectAssumption == NoObject \notin Objects
ASSUME ColumnsAssumption == Columns \in Nat \ {0} /\ Attributes \subseteq Cols
ASSUME TreeAssumption ==
    /\ Kids \in [Objects -> Seq(Objects)]
    /\ Roots \in [Servers -> SUBSET Objects]
    /\ Late \subseteq Objects
    /\ \A o \in Objects : \A i, j \in DOMAIN Kids[o] : Kids[o][i] = Kids[o][j] => i = j
    /\ \A o \in Objects, p \in Objects : KidSet(o) \intersect KidSet(p) # {} => o = p
    /\ \A s \in Servers, o \in Objects : Roots[s] \intersect KidSet(o) = {}
ASSUME MappingAssumption ==
    /\ App \in [Objects -> Apps]
    /\ Class \subseteq Objects
    /\ Target \in [Objects -> [Cols -> Objects \union {NoObject}]]
    /\ Variables \subseteq Objects \X Cols
ASSUME BoundsAssumption == ClassFilter \in BOOLEAN /\ MaxSyncs \in [Objects -> Nat]

AllRoots == UNION {Roots[s] : s \in Servers}

\* Below(o, t): RTRObjectId::isDescendant, t is o itself or beneath it.  What
\* is above t is the least set that has t and the parents of all in it.
HasParents(S) == \A o \in Objects : KidSet(o) \intersect S # {} => o \in S
Above == [t \in Objects |->
    {o \in Objects : \A S \in SUBSET Objects : t \in S /\ HasParents(S) => o \in S}]
Below(o, t) == t \in Objects /\ o \in Above[t]

\* Object ids are paths, so no object is beneath its own child.
ASSUME PathsAssumption == \A o \in Objects : KidSet(o) \intersect Above[o] = {}

VARIABLES
    pool,      \* servers in the RMC server pool
    inSync,    \* servers that are in sync
    roots,     \* [Servers -> Seq(Objects)]: roots() of each server
    announced, \* roots that have ever been announced
    syncs,     \* number of Sync events of each object; in sync if not zero
    bad,       \* objects with error()
    hidden,    \* children that are not there yet
    missed,    \* history: children added after their parent's last Sync
    subscribed,\* addServerPool() has been called
    listening, \* servers the table is a client of
    tableOn,   \* objects the table is a client of
    varOn,     \* <<row, column, object>>: objects a variable is a client of
    rows,      \* rows_
    rootMap,   \* root_map_: entries per application
    dropped,   \* history: applications root_map_ has lost an entry of
    stack      \* the handlers that are executing

objs == <<syncs, bad, hidden, missed>>
rmc == <<pool, inSync, roots, announced, objs>>
tableVars == <<tableOn, varOn, rows, rootMap, dropped>>
vars == <<rmc, subscribed, listening, tableVars, stack>>

----------------------------------------------------------------------------
(* The frames of the call stack. *)

Frame(op, at, i, r, c) == [op |-> op, at |-> at, i |-> i, row |-> r, col |-> c]

AddedFrame(s)         == Frame("added", s, 0, 0, 0)    \* table: ServerAdded
ServerFrame(s, i)     == Frame("server", s, i, 0, 0)   \* table: ServerSync, i-th root
WalkFrame(o, i)       == Frame("walk", o, i, 0, 0)     \* table: ObjectSync, i-th child
RowFrame(o, c)        == Frame("row", o, 0, 0, c)      \* table: addRow, column c
VarFrame(r, c, o)     == Frame("var", o, 0, r, c)      \* variable: ObjectSync
\* Fault: the loop does not move on.
KidsFrameStuck(r, c, o, i) == Frame("kids", o, 1, r, c)
KidsFrame(r, c, o, i) == Frame("kids", o, i, r, c)     \* its loop, i-th child

Ops == {"added", "server", "walk", "row", "var", "kids"}
Frames == [op : Ops, at : Servers \union Objects, i : Nat, row : Nat, col : Nat]

When(cond, frame) == IF cond THEN <<frame>> ELSE <<>>
Executing(op) == stack # <<>> /\ Head(stack).op = op
Calls(frames) == stack' = frames \o (IF stack = <<>> THEN <<>> ELSE Tail(stack))
ReturnFrame == Calls(<<>>)
Idle == stack = <<>>

InSync(o) == syncs[o] > 0

\* A loop over childHandles() that has come to i takes the j-th child next:
\* those that are not there yet are not in the list.
Takes(o, i, j) ==
    /\ j \in DOMAIN Kids[o] /\ i <= j
    /\ \A m \in i..j : Kids[o][m] \in hidden <=> m < j

\* Fault: the last child is left out.
HasChildButLast(o, i, j) == Takes(o, i, j) /\ j < Len(Kids[o]) /\ Kids[o][j] \notin bad
\* ... and does not break there, as it does at a child in error.
HasChild(o, i, j) == Takes(o, i, j) /\ Kids[o][j] \notin bad
\* It has come to its end, or breaks.
LoopEnds(o, i) == \A j \in DOMAIN Kids[o] : ~HasChild(o, i, j)

----------------------------------------------------------------------------
(* Rows.  fromRoot marks a row that addRow(server, handle) made.  In a      *)
(* class-filtered table such a row keeps its object ids relative: no proxy  *)
(* has them.  variable[c] is the object whose variable the column reads.    *)

NewRow(o, fromRoot) ==
    [obj |-> o, fromRoot |-> fromRoot, built |-> 0,
     object   |-> [c \in Cols |-> NoObject],
     variable |-> [c \in Cols |-> NoObject]]

Rows == [obj : Objects, fromRoot : BOOLEAN, built : 0..Columns,
         object   : [Cols -> Objects \union {NoObject}],
         variable : [Cols -> Objects \union {NoObject}]]

ObjectId(row, c) ==
    IF ClassFilter /\ row.fromRoot THEN NoObject ELSE Target[row.obj][c]

TypeOK ==
    /\ pool \subseteq Servers
    /\ inSync \subseteq Servers
    /\ roots \in [Servers -> Seq(Objects)]
    /\ announced \subseteq Objects
    /\ syncs \in [Objects -> Nat]
    /\ bad \subseteq Objects
    /\ hidden \subseteq Late /\ missed \subseteq Late
    /\ subscribed \in BOOLEAN
    /\ listening \subseteq Servers
    /\ tableOn \subseteq Objects
    /\ varOn \subseteq (1..Len(rows)) \X Cols \X Objects
    /\ rows \in Seq(Rows)
    /\ rootMap \in [Apps -> Nat]
    /\ dropped \subseteq Apps
    /\ stack \in Seq(Frames)

\* Servers may be in the pool before the agent subscribes to it.
Init ==
    /\ pool = {} /\ inSync = {} /\ announced = {} /\ bad = {}
    /\ hidden = Late /\ missed = {}
    /\ roots = [s \in Servers |-> <<>>]
    /\ syncs = [o \in Objects |-> 0]
    /\ subscribed = FALSE
    /\ listening = {} /\ tableOn = {} /\ varOn = {}
    /\ rows = <<>>
    /\ rootMap = [a \in Apps |-> 0]
    /\ dropped = {}
    /\ stack = <<>>

----------------------------------------------------------------------------
(* The main thread: handlers of the table.                                  *)

\* adh_agent.cc addServerPool(): become a client of the pool, then treat the
\* servers already in it as added.
AddServerPool ==
    /\ Idle /\ ~subscribed
    /\ subscribed' = TRUE
    /\ \E order \in SetToSeqs(pool) :
          stack' = [i \in DOMAIN order |-> AddedFrame(order[i])]
    /\ UNCHANGED <<rmc, listening, tableVars>>

\* Fault: a server that is in sync already is left to an event.
TableServerAddedWaits ==
    /\ Executing("added")
    /\ listening' = listening \union {Head(stack).at}
    /\ ReturnFrame
    /\ UNCHANGED <<rmc, subscribed, tableVars>>

\* processProxyManagedObjectServerAdded()
TableServerAdded ==
    /\ Executing("added")
    /\ LET s == Head(stack).at IN
          /\ listening' = listening \union {s}
          /\ Calls(When(s \in inSync, ServerFrame(s, 1)))
    /\ UNCHANGED <<rmc, subscribed, tableVars>>

\* Fault: an application is looked up after its root was inserted, or never.
EveryRoot(r) == TRUE
\* First root of this application?
FirstRoot(r) == rootMap[App[r]] = 0

\* Fault: one entry per application.
InsertApp(r) == rootMap' = [rootMap EXCEPT ![App[r]] = 1]
\* root_map_.insert(): one entry per root.
InsertRoot(r) == rootMap' = [rootMap EXCEPT ![App[r]] = @ + 1]

\* Fault: the children of a child are walked before its row is complete.
WalkThenRow(k) == When(InSync(k), WalkFrame(k, 1)) \o When(k \in Class, RowFrame(k, 1))
\* Fault: a child is walked whether or not it is in sync.
RowThenWalkNow(k) == When(k \in Class, RowFrame(k, 1)) \o <<WalkFrame(k, 1)>>
\* The calls for one child: its row first, then its own children.
RowThenWalk(k) == When(k \in Class, RowFrame(k, 1)) \o When(InSync(k), WalkFrame(k, 1))

\* processObjectServerRootAdded() for root r, the calls it makes before next.
TableRootAdded(r, next) ==
    IF ~ClassFilter
    THEN /\ InsertRoot(r)
         /\ rows' = IF FirstRoot(r) THEN Append(rows, NewRow(r, TRUE)) ELSE rows
         /\ Calls(When(FirstRoot(r), RowFrame(r, 1)) \o next)
         /\ UNCHANGED tableOn
    ELSE /\ rows' = IF r \in Class THEN Append(rows, NewRow(r, TRUE)) ELSE rows
         /\ tableOn' = tableOn \union {r}
         /\ Calls(RowThenWalk(r) \o next)
         /\ UNCHANGED rootMap

\* processObjectServerSync(): the loop over roots()
TableServerSync ==
    /\ Executing("server")
    /\ LET s == Head(stack).at
           i == Head(stack).i
       IN IF i > Len(roots[s])
          THEN ReturnFrame /\ UNCHANGED <<rows, rootMap, tableOn>>
          ELSE TableRootAdded(roots[s][i], <<ServerFrame(s, i + 1)>>)
    /\ UNCHANGED <<rmc, subscribed, listening, varOn, dropped>>

\* processProxyManagedObjectSync(): the loop over childHandles().  A child in
\* error ends it.
TableWalk ==
    /\ Executing("walk")
    /\ LET o == Head(stack).at
           i == Head(stack).i
       IN \/ /\ LoopEnds(o, i)
             /\ ReturnFrame
             /\ UNCHANGED <<rows, tableOn>>
          \/ \E j \in DOMAIN Kids[o] : LET k == Kids[o][j] IN
               /\ HasChild(o, i, j)
               /\ rows' = IF k \in Class THEN Append(rows, NewRow(k, FALSE)) ELSE rows
               /\ tableOn' = tableOn \union {k}
               /\ Calls(RowThenWalk(k) \o <<WalkFrame(o, j + 1)>>)
    /\ UNCHANGED <<rmc, subscribed, listening, varOn, rootMap, dropped>>

----------------------------------------------------------------------------
(* addRow(): the row is in rows_ before its variables are.  Each variable   *)
(* is added, then given the row's object (addRootObject, addClassObject).   *)

\* Fault: whatever object is reached is taken for the column's.
FoundAny(r, c, o) == [rows EXCEPT ![r].object[c] = o]
\* The object is the column's when its instance id is the column's.
Found(r, c, o) ==
    [rows EXCEPT ![r].object[c] = IF ObjectId(rows[r], c) = o THEN o ELSE @]

\* Fault: an object that is in sync already is left to an event.
ResolveLater(r, c, o) == <<>>
\* An object that is in sync already is not going to send an event.
ResolveNow(r, c, o) == When(InSync(o), VarFrame(r, c, o))

RowColumn ==
    /\ Executing("row")
    /\ LET o == Head(stack).at
           c == Head(stack).col
           r == Len(rows)
       IN IF c > Columns
          THEN ReturnFrame /\ UNCHANGED <<rows, varOn>>
          ELSE /\ rows' = [Found(r, c, o) EXCEPT ![r].built = c]
               /\ varOn' = varOn \union {<<r, c, o>>}
               /\ Calls(ResolveNow(r, c, o) \o <<RowFrame(o, c + 1)>>)
    /\ UNCHANGED <<rmc, subscribed, listening, tableOn, rootMap, dropped>>

\* variable_t::processProxyManagedObjectSync(): with its object found it looks
\* its variable up in the object that synced, otherwise among the children.
VariableSync ==
    /\ Executing("var")
    /\ LET r == Head(stack).row
           c == Head(stack).col
           o == Head(stack).at
       IN IF rows[r].object[c] = NoObject
          THEN Calls(<<KidsFrame(r, c, o, 1)>>) /\ UNCHANGED rows
          ELSE /\ rows' = IF c \notin Attributes /\ <<o, c>> \in Variables
                          THEN [rows EXCEPT ![r].variable[c] = o] ELSE rows
               /\ ReturnFrame
    /\ UNCHANGED <<rmc, subscribed, listening, tableOn, varOn, rootMap,
                   dropped>>

VariableKids ==
    /\ Executing("kids")
    /\ LET r == Head(stack).row
           c == Head(stack).col
           o == Head(stack).at
           i == Head(stack).i
       IN \/ /\ LoopEnds(o, i)
             /\ ReturnFrame
             /\ UNCHANGED <<rows, varOn>>
          \/ \E j \in DOMAIN Kids[o] : LET k == Kids[o][j] IN
               /\ HasChild(o, i, j) /\ ~Below(k, ObjectId(rows[r], c))
               /\ Calls(<<KidsFrame(r, c, o, j + 1)>>)
               /\ UNCHANGED <<rows, varOn>>
          \/ \E j \in DOMAIN Kids[o] : LET k == Kids[o][j] IN
               /\ HasChild(o, i, j) /\ Below(k, ObjectId(rows[r], c))
               /\ rows' = Found(r, c, k)
               /\ varOn' = varOn \union {<<r, c, k>>}
               /\ Calls(ResolveNow(r, c, k) \o <<KidsFrame(r, c, o, j + 1)>>)
    /\ UNCHANGED <<rmc, subscribed, listening, tableOn, rootMap, dropped>>

MainStep == \/ TableServerAdded \/ TableServerSync \/ TableWalk
            \/ RowColumn \/ VariableSync \/ VariableKids

----------------------------------------------------------------------------
(* RMC events.  They change the library's state and call the clients.       *)

ServerAdded(s) ==
    /\ Idle /\ s \notin pool
    /\ pool' = pool \union {s}
    /\ stack' = When(subscribed, AddedFrame(s))
    /\ UNCHANGED <<inSync, roots, announced, objs, subscribed, listening,
                   tableVars>>

\* processProxyManagedObjectServerRemoved(): dropClient; the library gives up
\* the server's state.
ServerRemoved(s) ==
    /\ Idle /\ s \in pool
    /\ pool' = pool \ {s}
    /\ inSync' = inSync \ {s}
    /\ roots' = [roots EXCEPT ![s] = <<>>]
    /\ listening' = listening \ {s}
    /\ UNCHANGED <<announced, objs, subscribed, tableVars, stack>>

\* processObjectServerError(): dropClient
ServerError(s) ==
    /\ Idle /\ s \in listening
    /\ listening' = listening \ {s}
    /\ UNCHANGED <<rmc, subscribed, tableVars, stack>>

ServerSync(s) ==
    /\ Idle /\ s \in pool \ inSync
    /\ inSync' = inSync \union {s}
    /\ stack' = When(s \in listening, ServerFrame(s, 1))
    /\ UNCHANGED <<pool, roots, announced, objs, subscribed, listening,
                   tableVars>>

\* Before the server is in sync a new root is not an event.
RootAdded(s, r) ==
    /\ Idle /\ s \in pool /\ r \in Roots[s] \ announced
    /\ roots' = [roots EXCEPT ![s] = Append(@, r)]
    /\ announced' = announced \union {r}
    /\ IF s \in inSync /\ s \in listening
       THEN TableRootAdded(r, <<>>)
       ELSE UNCHANGED <<rows, rootMap, tableOn, stack>>
    /\ UNCHANGED <<pool, inSync, objs, subscribed, listening, varOn, dropped>>

\* Fault: the rows of the application go with its entry.
EraseRootAndRows(a) ==
    /\ rootMap' = [rootMap EXCEPT ![a] = IF @ = 0 THEN 0 ELSE @ - 1]
    /\ rows' = SelectSeq(rows, LAMBDA row : App[row.obj] # a)
    /\ dropped' = dropped \union {a}

\* processObjectServerRootRemoved(): erase one entry of the application, with
\* or without a class filter.  erase(end()) is undefined: here, no effect.
EraseRoot(a) ==
    /\ rootMap' = [rootMap EXCEPT ![a] = IF @ = 0 THEN 0 ELSE @ - 1]
    /\ dropped' = dropped \union {a}
    /\ UNCHANGED rows

RootRemoved(s, r) ==
    /\ Idle
    /\ \E i \in DOMAIN roots[s] :
          roots[s][i] = r /\ roots' = [roots EXCEPT ![s] = RemoveAt(@, i)]
    /\ IF s \in inSync /\ s \in listening
       THEN EraseRoot(App[r])
       ELSE UNCHANGED <<rootMap, dropped, rows>>
    /\ UNCHANGED <<pool, inSync, announced, objs, subscribed, listening,
                   tableOn, varOn, stack>>

\* An object of a connected application syncs once its parent has, and may
\* sync again after it was lost.
Known(o) ==
    \E s \in inSync : \E r \in ToSet(roots[s]) :
        /\ Below(r, o)
        /\ Above[o] \intersect hidden = {}
        /\ \A p \in Objects : o \in KidSet(p) => InSync(p)

ObjectSync(o) ==
    /\ Idle /\ Known(o) /\ syncs[o] < MaxSyncs[o]
    /\ syncs' = [syncs EXCEPT ![o] = @ + 1]
    /\ \E order \in SetToSeqs({v \in varOn : v[3] = o}) :
          stack' = [i \in DOMAIN order |-> VarFrame(order[i][1], order[i][2], o)]
                   \o When(o \in tableOn, WalkFrame(o, 1))
    /\ missed' = missed \ KidSet(o)
    /\ UNCHANGED <<pool, inSync, roots, announced, bad, hidden, subscribed,
                   listening, tableVars>>

\* The Error handlers of table and variable only log.
ObjectError(o) ==
    /\ Idle /\ Known(o) /\ o \notin bad
    /\ bad' = bad \union {o}
    /\ UNCHANGED <<pool, inSync, roots, announced, syncs, hidden, missed,
                   subscribed, listening, tableVars, stack>>

\* The ChildAdded handlers of table, row and variable only log: a child that
\* comes after its parent's Sync is left alone.
ChildAdded(o) ==
    /\ Idle /\ o \in hidden
    /\ hidden' = hidden \ {o}
    /\ missed' = IF \E p \in Objects : o \in KidSet(p) /\ InSync(p)
                 THEN missed \union {o} ELSE missed
    /\ UNCHANGED <<pool, inSync, roots, announced, syncs, bad, subscribed,
                   listening, tableVars, stack>>

RmcEvent ==
    \/ \E s \in Servers :
          \/ ServerAdded(s) \/ ServerRemoved(s) \/ ServerError(s) \/ ServerSync(s)
          \/ \E r \in Objects : RootAdded(s, r) \/ RootRemoved(s, r)
    \/ \E o \in Objects : ObjectSync(o) \/ ObjectError(o) \/ ChildAdded(o)

Next == AddServerPool \/ MainStep \/ RmcEvent

\* A callback always runs on: nothing in a handler waits.
Fairness == WF_vars(MainStep)

Spec == Init /\ [][Next]_vars /\ Fairness

----------------------------------------------------------------------------
(* Properties of either kind of table *)

\* A query that walks rows_ while the main thread extends it meets at most one
\* row under construction, and that row is the last: addRow() calls never
\* nest, though the handlers that make them do.
OnlyLastRowPartial ==
    /\ \A n \in 1..Len(rows) : rows[n].built < Columns => n = Len(rows)
    /\ Idle => \A n \in 1..Len(rows) : rows[n].built = Columns

\* rows_ only grows, a row keeps its object, and a column that has found its
\* RMC object keeps it: pointers handed to the SNMP side stay good.
RowsOnlyGrow ==
    [][/\ Len(rows') >= Len(rows)
       /\ \A n \in 1..Len(rows) :
            /\ rows'[n].obj = rows[n].obj
            /\ \A c \in Cols : rows[n].object[c] # NoObject
                  => rows'[n].object[c] = rows[n].object[c]]_vars

\* A column reads its own object's variable.  Only an ancestor that syncs a
\* second time, after the object was found, and has a variable of the same
\* name can take its place (snmp_variable.cc:336 looks it up in whichever
\* object synced).
BoundToTarget ==
    \A n \in 1..Len(rows), c \in Cols :
        LET t == ObjectId(rows[n], c)
            v == rows[n].variable[c]
        IN /\ rows[n].object[c] \in {NoObject, t}
           /\ v \in Objects \ {t} => Below(v, t) /\ syncs[v] > 1

\* o was there when its parent synced, and no child up to and including o is
\* in error, so the walk of the parent has reached o.
Reachable(o) ==
    o \notin hidden \union missed /\ \A p \in Objects : \A i \in DOMAIN Kids[p] :
        Kids[p][i] = o => \A j \in 1..i : Kids[p][j] \notin bad

\* A column whose object is beneath the row's, with everything in between in
\* sync and not behind a child in error, has found its variable, in whatever
\* order the row, the objects and the server came up.
ColumnsResolve ==
    Idle => \A n \in 1..Len(rows), c \in Cols \ Attributes :
        LET t == ObjectId(rows[n], c)
            o == rows[n].obj
            path == {p \in Above[t] : Below(o, p)}
        IN (/\ Below(o, t) /\ <<t, c>> \in Variables
            /\ \A p \in path : InSync(p) /\ (p # o => Reachable(p)))
           => rows[n].variable[c] # NoObject

\* The recursion of the handlers ends: the main thread gets back to the RMC
\* event loop, and to its signals, whatever the tree of objects is like.
HandlersReturn == stack # <<>> ~> stack = <<>>

----------------------------------------------------------------------------
(* Properties of a table without a class filter *)

\* Roots of servers the table listens to.
LiveRoots == UNION {ToSet(roots[s]) : s \in listening \intersect inSync}

\* Every connected application has a row, whether its roots, its server or
\* the subscription to the pool came first.
AppsHaveRows ==
    Idle /\ ~ClassFilter =>
        \A r \in LiveRoots : \E n \in 1..Len(rows) : App[rows[n].obj] = App[r]

\* An application gets a second row, with the same index, only after the table
\* was told that it lost one of its roots: servers that come, go and sync
\* again do not duplicate it.
OneRowPerApp ==
    ~ClassFilter => \A m, n \in 1..Len(rows) :
        App[rows[m].obj] = App[rows[n].obj] => m = n \/ App[rows[m].obj] \in dropped

\* processObjectServerRootRemoved() erases the iterator that find() returned
\* without comparing it to end(): the application must have an entry.
RootRemovedFindsEntry ==
    [][\A s \in listening \intersect inSync, r \in Objects :
         RootRemoved(s, r) => rootMap[App[r]] > 0]_vars

----------------------------------------------------------------------------
(* Properties of a table with a class filter *)

\* Every object of the class has a row once all above it are in sync.
ClassObjectsHaveRows ==
    Idle /\ ClassFilter =>
        \A r \in LiveRoots, o \in Class :
            (/\ Below(r, o)
             /\ \A p \in Above[o] : p # o => InSync(p)
             /\ \A p \in Above[o] : p # r => Reachable(p))
            => \E n \in 1..Len(rows) : rows[n].obj = o

\* An object gets a second row only because something above it synced twice.
OneRowPerObject ==
    ClassFilter => \A m, n \in 1..Len(rows) :
        rows[m].obj = rows[n].obj =>
            m = n \/ \E p \in Above[rows[m].obj] : syncs[p] > 1
=============================================================================
