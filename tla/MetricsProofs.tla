---------------------------- MODULE MetricsProofs ----------------------------
(***************************************************************************)
(* The metrics library: the registry of histograms, the table of counters,  *)
(* and the histograms themselves.                                           *)
(*                                                                          *)
(* Histograms are registered once and nothing deleted is reached, for any   *)
(* number of threads, macros, names, shapes and recorders.  Until a thread  *)
(* has registered the histogram it constructed, nobody else knows it        *)
(* (Private): what is deleted as a duplicate, or whose ranges are, was only *)
(* ever in that thread's hands.  And a pointer carries the recorder it was  *)
(* registered in (GoodPointer): it is that recorder's registered one, or    *)
(* there is none by that name.                                              *)
(*                                                                          *)
(* Threads that count without a lock lose no increment, for any number of   *)
(* processes, threads, names, rows and columns.  A thread writes only the   *)
(* column that carries its name, and a name has one row, so a cell has one  *)
(* writer at a time and what that writer loaded is still there when it      *)
(* stores.  A reader that goes along a row sees no more than is there and   *)
(* no less than was there when it began.                                    *)
(*                                                                          *)
(* Every sample is in the one bucket whose range has it, for any ranges a   *)
(* caller can ask for: the ranges that the factories make are increasing    *)
(* from 0 to SampleMax (Sound), and so the search ends in that bucket.  The *)
(* printed graph accounts for every sample: before its place the loop has   *)
(* written each bucket or skipped it as empty, and what is past and what    *)
(* remains add up to the total (Writing).                                   *)
(***************************************************************************)
EXTENDS StatisticsRecorder, StatsTable, HistogramBuckets, LoopTheorems,
        FiniteSetTheorems, SequenceTheorems

(* The registry of histograms.                                              *)

Places == {"idle", "find", "construct", "register", "store", "add", "snapshot", "write"}
InMacro == {"find", "construct", "register", "store", "add"}
Checksums == {Crc[s] : s \in Shapes}
Pointers == [id : Nat, epoch : Nat]
CallerStates == [pc : Places, site : Sites \union {Idle.site}, ptr : Pointers]

RecorderTypes ==
    /\ registry \in [Names -> Nat]
    /\ ranges \in [Checksums -> Seq(Nat)]
    /\ up \in {{}, {"ranges"}, {"histograms", "ranges"}}
    /\ epoch \in Nat
    /\ made \in Seq(Names)
    /\ rangesOf \in Seq(Nat) /\ Len(rangesOf) = Len(made)
    /\ alive \in [histograms : SUBSET Nat, ranges : SUBSET Nat]
    /\ static \in [Sites -> Pointers]
    /\ caller \in [Callers -> CallerStates]
    /\ dumping \in [Callers -> SUBSET Nat]

\* What has an identity was constructed.
Known ==
    /\ alive.histograms \subseteq Ids /\ alive.ranges \subseteq Ids
    /\ \A n \in Names : registry[n] <= Len(made)
    /\ \A c \in Checksums : \A i \in DOMAIN ranges[c] : ranges[c][i] \in Ids
    /\ \A id \in Ids : rangesOf[id] \in Ids
    /\ \A t \in Callers : IF caller[t].pc \in InMacro THEN caller[t].site \in Sites
                                                      ELSE caller[t].ptr.epoch = 0

Usable(id) == id \in alive.histograms /\ rangesOf[id] \in alive.ranges

GoodPointer(p, n) ==
    /\ p.epoch <= epoch /\ p.id <= Len(made)
    /\ p.id = NoHistogram => p.epoch = 0
    /\ p.id # NoHistogram => Usable(p.id)
    /\ "histograms" \in up /\ p.epoch = epoch => p.id = registry[n]

PointersGood ==
    /\ \A t \in Callers : GoodPointer(caller[t].ptr, SiteName(t))
    /\ \A s \in Sites : GoodPointer(static[s], NameAt[s])
    /\ \A t \in Callers : \A id \in dumping[t] : Usable(id)

\* The live maps, and the order in which they come and go.
MapsGood ==
    /\ "histograms" \in up => epoch > 0
    /\ "histograms" \in up => \A id \in Registered : Usable(id)
    /\ "ranges" \in up =>
         \A c \in Checksums : \A i \in DOMAIN ranges[c] : ranges[c][i] \in alive.ranges

\* A histogram that is constructed and not registered yet.
Private(t) ==
    LET id == caller[t].ptr.id
    IN  /\ id # NoHistogram /\ made[id] = SiteName(t) /\ rangesOf[id] = id
        /\ \A h \in Ids : rangesOf[h] = id => h = id
        /\ \A n \in Names : registry[n] # id
        /\ \A c \in Checksums : \A i \in DOMAIN ranges[c] : ranges[c][i] # id
        /\ \A s \in Sites : static[s].id # id
        /\ \A u \in Callers : (u # t => caller[u].ptr.id # id) /\ id \notin dumping[u]

PrivateUntilRegistered == \A t \in Callers : At(t, "register") => Private(t)

\* The list of a checksum has each shape once, the shape of a registered
\* histogram among them, which is where its ranges are.
ListsGood ==
    "histograms" \in up =>
      /\ \A c \in Checksums : \A i, j \in DOMAIN ranges[c] :
           ShapeAt(ranges[c][i]) = ShapeAt(ranges[c][j]) => i = j
      /\ \A g \in Registered :
           /\ ShapeAt(rangesOf[g]) = ShapeAt(g)
           /\ \E i \in DOMAIN ChecksumMatching(g) : ChecksumMatching(g)[i] = rangesOf[g]

RecorderInv ==
    /\ RecorderTypes /\ Known /\ PointersGood /\ MapsGood
    /\ PrivateUntilRegistered /\ ListsGood

----------------------------------------------------------------------------

\* What the declarations of the constants say of names, shapes and checksums.
LEMMA ShapesKnown ==
    ASSUME RecorderTypes
    PROVE  /\ \A s \in Sites : NameAt[s] \in Names
           /\ \A id \in Ids : /\ made[id] \in Names /\ ShapeAt(id) \in Shapes
                              /\ Crc[ShapeAt(id)] \in Checksums
           /\ Ids = 1..Len(made) /\ Ids = DOMAIN rangesOf /\ NoHistogram \notin Ids
<1>1. \A id \in Ids : made[id] \in Names
    BY DEF RecorderTypes, Ids
<1> QED BY <1>1 DEF RecorderTypes, Ids, Names, Shapes, Checksums, ShapeAt, NoHistogram

\* Nothing is registered, held or constructed at first.
LEMMA InitRecorderInv == RecorderInit => RecorderInv
<1> SUFFICES ASSUME RecorderInit PROVE RecorderInv
    OBVIOUS
<1> USE RecorderAssumption DEF RecorderInit, Idle, NoPointer, NoHistogram
<1>1. RecorderTypes
    BY DEF RecorderTypes, Checksums, Pointers, CallerStates, Places
<1>2. Ids = {} /\ Registered = {}
    BY DEF Ids, Registered
<1>3. Known /\ MapsGood /\ ListsGood
    BY <1>2 DEF Known, MapsGood, ListsGood, InMacro, Checksums
<1>4. PointersGood
    BY DEF PointersGood, GoodPointer
<1>5. PrivateUntilRegistered
    BY DEF PrivateUntilRegistered, At
<1> QED BY <1>1, <1>3, <1>4, <1>5 DEF RecorderInv

----------------------------------------------------------------------------
(* Steps that only move pointers.                                           *)

\* A thread may take over what a site or the live map holds.
Quiet(t) ==
    /\ UNCHANGED registry /\ UNCHANGED ranges /\ UNCHANGED up /\ UNCHANGED epoch
    /\ UNCHANGED made /\ UNCHANGED rangesOf /\ UNCHANGED alive
    /\ ~At(t, "register") /\ caller'[t].pc # "register"
    /\ \A u \in Callers : u # t => caller'[u] = caller[u]
    /\ IF caller'[t].pc \in InMacro THEN caller'[t].site \in Sites ELSE caller'[t].ptr.epoch = 0
    /\ GoodPointer(caller'[t].ptr, NameAt[caller'[t].site])
    /\ \A u \in Callers : At(u, "register") /\ u # t => caller[u].ptr.id # caller'[t].ptr.id
    /\ \A s \in Sites : static'[s] = static[s]
         \/ (static'[s] = caller[t].ptr /\ NameAt[s] = SiteName(t))
    /\ \A u \in Callers : dumping'[u] \subseteq
         dumping[u] \union (IF "histograms" \in up THEN Registered ELSE {})

\* A step that touches neither the heap nor the registry keeps the invariant.
LEMMA QuietInv ==
    ASSUME RecorderInv, RecorderTypes', NEW t \in Callers, Quiet(t)
    PROVE  RecorderInv'
<1> USE DEF RecorderInv, Quiet
<1>1. Ids' = Ids /\ Registered' = Registered /\ \A id : ShapeAt(id)' = ShapeAt(id)
    BY DEF Ids, Registered, ShapeAt
<1>2. Known'
    BY <1>1 DEF Known
<1>3. MapsGood' /\ ListsGood'
    BY <1>1 DEF MapsGood, ListsGood, Usable, ChecksumMatching
<1>4. \A p, n : GoodPointer(p, n)' = GoodPointer(p, n)
    BY DEF GoodPointer, Usable
<1>5. PointersGood'
  <2>1. ASSUME NEW u \in Callers PROVE GoodPointer(caller'[u].ptr, SiteName(u)')
    <3>1. CASE u = t
        BY <3>1 DEF SiteName
    <3>2. CASE u # t
        BY <3>2 DEF PointersGood, SiteName
    <3> QED BY <3>1, <3>2
  <2>2. ASSUME NEW s \in Sites PROVE GoodPointer(static'[s], NameAt[s])
      BY DEF PointersGood
  <2>3. ASSUME NEW u \in Callers, NEW id \in dumping'[u] PROVE Usable(id)
      BY DEF PointersGood, MapsGood
  <2>4. \A id : Usable(id)' = Usable(id)
      BY DEF Usable
  <2> QED BY <1>4, <2>1, <2>2, <2>3, <2>4 DEF PointersGood
<1>6. ASSUME NEW u \in Callers, At(u, "register")' PROVE Private(u)'
  <2>1. u # t /\ At(u, "register") /\ caller'[u] = caller[u]
      BY <1>6 DEF At
  <2>2. Private(u)
      BY <2>1 DEF PrivateUntilRegistered
  <2>3. \A s \in Sites : static'[s].id # caller[u].ptr.id
      BY <2>1, <2>2 DEF Private
  <2>4. \A w \in Callers : w # u => caller'[w].ptr.id # caller[u].ptr.id
      BY <2>1, <2>2 DEF Private
  <2>5. caller[u].ptr.id \notin Registered
      BY <2>2 DEF Private, Registered
  <2>6. \A w \in Callers : caller[u].ptr.id \notin dumping'[w]
      BY <2>2, <2>5 DEF Private
  <2> QED BY <1>1, <2>1, <2>2, <2>3, <2>4, <2>6 DEF Private, SiteName
<1> QED BY <1>2, <1>3, <1>5, <1>6 DEF PrivateUntilRegistered
\* Nobody but its maker holds what is not registered.
LEMMA OthersPrivate ==
    ASSUME RecorderInv, NEW u \in Callers, At(u, "register")
    PROVE  LET id == caller[u].ptr.id
           IN  /\ id # NoHistogram /\ id \notin Registered
               /\ \A s \in Sites : static[s].id # id
               /\ \A t \in Callers : t # u => caller[t].ptr.id # id
BY DEF RecorderInv, PrivateUntilRegistered, Private, Registered

\* Entering the macro changes only the caller's own place.
LEMMA EnterInv ==
    ASSUME RecorderInv, NEW t \in Callers, NEW s \in Sites, EnterMacro(t, s)
    PROVE  RecorderInv'
<1> DEFINE x == [pc |-> IF static[s].id = NoHistogram THEN "find" ELSE "add",
                 site |-> s, ptr |-> static[s]]
<1>1. RecorderTypes /\ caller' = [caller EXCEPT ![t] = x] /\ At(t, "idle")
      /\ UNCHANGED <<mapVars, heapVars, static, dumping>>
    BY DEF EnterMacro, RecorderInv
<1>2. x \in CallerStates
    BY <1>1 DEF RecorderTypes, CallerStates, Places
<1>3. caller'[t] = x /\ \A u \in Callers : u # t => caller'[u] = caller[u]
    BY <1>1 DEF RecorderTypes
<1>4. RecorderTypes'
    BY <1>1, <1>2 DEF RecorderTypes, mapVars, heapVars
<1>5. GoodPointer(caller'[t].ptr, NameAt[caller'[t].site])
    BY <1>3 DEF RecorderInv, PointersGood
<1>6. \A u \in Callers : At(u, "register") /\ u # t => caller[u].ptr.id # caller'[t].ptr.id
    BY <1>3, OthersPrivate
<1>7. caller'[t].pc # "register" /\ caller'[t].pc \in InMacro /\ caller'[t].site \in Sites
    BY <1>3 DEF InMacro
<1>8. ~At(t, "register")
    BY <1>1 DEF At
<1>9. Quiet(t)
    BY <1>1, <1>3, <1>5, <1>6, <1>7, <1>8 DEF Quiet, mapVars, heapVars
<1> QED BY <1>4, <1>9, QuietInv

\* A caller's record after an update of its place and pointer.
LEMMA CallerUpdate ==
    ASSUME NEW c \in CallerStates, NEW place, NEW p
    PROVE  [c EXCEPT !.pc = place, !.ptr = p] = [pc |-> place, site |-> c.site, ptr |-> p]
<1> DEFINE y == [c EXCEPT !.pc = place, !.ptr = p]
           x == [pc |-> place, site |-> c.site, ptr |-> p]
<1>1. c = [pc |-> c.pc, site |-> c.site, ptr |-> c.ptr]
    BY DEF CallerStates
<1>2. DOMAIN y = {"pc", "site", "ptr"} /\ DOMAIN x = {"pc", "site", "ptr"}
    BY <1>1
<1>3. y.pc = x.pc /\ y.site = x.site /\ y.ptr = x.ptr
    BY <1>1
<1>4. y = [f \in DOMAIN y |-> y[f]] /\ x = [f \in DOMAIN x |-> x[f]]
    OBVIOUS
<1>5. \A f \in {"pc", "site", "ptr"} : y[f] = x[f]
    BY <1>3
<1>6. y = x
  <2> HIDE DEF x, y
  <2> QED BY <1>2, <1>4, <1>5
<1> QED BY <1>6

\* A caller that finds a registered histogram takes a pointer that is good.
LEMMA FindInv ==
    ASSUME RecorderInv, NEW t \in Callers, Find(t)
    PROVE  RecorderInv'
<1> DEFINE found == IF "histograms" \in up THEN registry[SiteName(t)] ELSE NoHistogram
           x == [pc |-> IF found = NoHistogram THEN "construct" ELSE "store",
                 site |-> caller[t].site,
                 ptr |-> IF found = NoHistogram THEN caller[t].ptr ELSE [id |-> found, epoch |-> epoch]]
<1>1. RecorderTypes /\ At(t, "find") /\ UNCHANGED <<mapVars, heapVars, static, dumping>>
    BY DEF Find, RecorderInv
<1>2. caller[t] \in CallerStates /\ caller[t].site \in Sites /\ SiteName(t) \in Names
    BY <1>1, ShapesKnown DEF RecorderTypes, RecorderInv, Known, InMacro, At, SiteName
<1>3. found \in Nat /\ x \in CallerStates
    BY <1>1, <1>2 DEF RecorderTypes, CallerStates, Places, Pointers, NoHistogram
<1>4. caller' = [caller EXCEPT ![t] = x]
  <2> DEFINE y == [caller[t] EXCEPT
            !.pc = IF found = NoHistogram THEN "construct" ELSE "store",
            !.ptr = IF found = NoHistogram THEN @ ELSE [id |-> found, epoch |-> epoch]]
  <2>1. caller' = [caller EXCEPT ![t] = y]
      BY Zenon DEF Find
  <2> HIDE DEF found
  <2>2. y = x
      BY <1>2, CallerUpdate
  <2> HIDE DEF x, y
  <2> QED BY <2>1, <2>2
<1>5. caller'[t] = x /\ \A u \in Callers : u # t => caller'[u] = caller[u]
    BY <1>1, <1>4 DEF RecorderTypes
<1>6. RecorderTypes'
    BY <1>1, <1>3, <1>4 DEF RecorderTypes, mapVars, heapVars
<1>7. GoodPointer(caller'[t].ptr, NameAt[caller'[t].site])
  <2>1. CASE found = NoHistogram
      BY <1>5, <2>1 DEF RecorderInv, PointersGood, SiteName
  <2>2. CASE found # NoHistogram
    <3>1. "histograms" \in up /\ found = registry[SiteName(t)] /\ found \in Registered
        BY <1>2, <2>2 DEF Registered
    <3>2. Usable(found) /\ found <= Len(made)
        BY <1>2, <3>1 DEF RecorderInv, MapsGood, Known
    <3> QED BY <1>1, <1>5, <2>2, <3>1, <3>2 DEF GoodPointer, SiteName, RecorderTypes
  <2> QED BY <2>1, <2>2
<1>8. \A u \in Callers : At(u, "register") /\ u # t => caller[u].ptr.id # caller'[t].ptr.id
  <2>1. caller'[t].ptr.id \in Registered \union {caller[t].ptr.id}
      BY <1>2, <1>5 DEF Registered
  <2> QED BY <2>1, OthersPrivate
<1>9. caller'[t].pc # "register" /\ caller'[t].pc \in InMacro /\ caller'[t].site \in Sites
    BY <1>2, <1>5 DEF InMacro
<1>10. ~At(t, "register")
    BY <1>1 DEF At
<1>11. Quiet(t)
    BY <1>1, <1>5, <1>7, <1>8, <1>9, <1>10 DEF Quiet, mapVars, heapVars
<1> QED BY <1>6, <1>11, QuietInv

\* A pointer that is stored in a static is one that its caller may hold.
LEMMA StoreInv ==
    ASSUME RecorderInv, NEW t \in Callers, Store(t)
    PROVE  RecorderInv'
<1> DEFINE x == [caller[t] EXCEPT !.pc = "add"]
<1>1. RecorderTypes /\ At(t, "store") /\ UNCHANGED <<mapVars, heapVars, dumping>>
      /\ static' = [static EXCEPT ![caller[t].site] = caller[t].ptr]
      /\ caller' = [caller EXCEPT ![t] = x]
    BY DEF Store, RecorderInv
<1>2. caller[t] \in CallerStates /\ caller[t].site \in Sites
    BY <1>1 DEF RecorderTypes, RecorderInv, Known, InMacro, At
<1>3. x \in CallerStates /\ x.pc = "add" /\ x.site = caller[t].site /\ x.ptr = caller[t].ptr
    BY <1>2 DEF CallerStates, Places
<1>4. caller'[t] = x /\ \A u \in Callers : u # t => caller'[u] = caller[u]
    BY <1>1 DEF RecorderTypes
<1>5. RecorderTypes'
    BY <1>1, <1>2, <1>3 DEF RecorderTypes, mapVars, heapVars, CallerStates
<1>6. GoodPointer(caller'[t].ptr, NameAt[caller'[t].site])
    BY <1>3, <1>4 DEF RecorderInv, PointersGood, SiteName
<1>7. \A u \in Callers : At(u, "register") /\ u # t => caller[u].ptr.id # caller'[t].ptr.id
    BY <1>3, <1>4, OthersPrivate
<1>8. \A s \in Sites : static'[s] = static[s]
          \/ (static'[s] = caller[t].ptr /\ NameAt[s] = SiteName(t))
    BY <1>1, <1>2 DEF RecorderTypes, SiteName
<1>9. ~At(t, "register") /\ caller'[t].pc \in InMacro
    BY <1>1, <1>3, <1>4 DEF At, InMacro
<1>10. Quiet(t)
    BY <1>1, <1>2, <1>3, <1>4, <1>6, <1>7, <1>8, <1>9 DEF Quiet, mapVars, heapVars
<1> QED BY <1>5, <1>10, QuietInv

\* A thread that leaves holds nothing.
LEMMA IdleInv ==
    ASSUME RecorderInv, NEW t \in Callers, AddSample(t) \/ (WriteOne(t) /\ dumping[t] = {})
    PROVE  RecorderInv'
<1>1. RecorderTypes /\ ~At(t, "register") /\ UNCHANGED <<mapVars, heapVars, static, dumping>>
      /\ caller' = [caller EXCEPT ![t] = Idle]
    BY DEF AddSample, WriteOne, RecorderInv, At
<1>2. Idle \in CallerStates /\ Idle.ptr.id = NoHistogram /\ Idle.ptr.epoch = 0 /\ Idle.pc = "idle"
    BY DEF Idle, NoPointer, CallerStates, Places, Pointers, NoHistogram
<1>3. caller'[t] = Idle /\ \A u \in Callers : u # t => caller'[u] = caller[u]
    BY <1>1 DEF RecorderTypes
<1>4. RecorderTypes'
    BY <1>1, <1>2 DEF RecorderTypes, mapVars, heapVars
<1>5. GoodPointer(caller'[t].ptr, NameAt[caller'[t].site])
    BY <1>1, <1>2, <1>3 DEF RecorderInv, MapsGood, RecorderTypes, GoodPointer, NoHistogram
<1>6. \A u \in Callers : At(u, "register") /\ u # t => caller[u].ptr.id # caller'[t].ptr.id
    BY <1>2, <1>3, OthersPrivate
<1>7. Quiet(t)
    BY <1>1, <1>2, <1>3, <1>5, <1>6 DEF Quiet, mapVars, heapVars, InMacro
<1> QED BY <1>4, <1>7, QuietInv

\* A dump copies what is registered and lets go of it one by one.
LEMMA DumpInv ==
    ASSUME RecorderInv, NEW t \in Callers,
           IsActive(t) \/ GetSnapshot(t) \/ (WriteOne(t) /\ dumping[t] # {})
    PROVE  RecorderInv'
<1>1. RecorderTypes /\ ~At(t, "register") /\ UNCHANGED <<mapVars, heapVars, static>>
    BY DEF IsActive, GetSnapshot, WriteOne, RecorderInv, At
<1>2. caller[t] \in CallerStates
    BY <1>1 DEF RecorderTypes
<1>3. caller' \in [Callers -> CallerStates]
      /\ caller'[t].pc \in {"snapshot", "write"} /\ caller'[t].ptr = caller[t].ptr
      /\ caller'[t].site = caller[t].site
      /\ \A u \in Callers : u # t => caller'[u] = caller[u]
  <2>1. CASE IsActive(t)
      BY <1>1, <1>2, <2>1 DEF IsActive, RecorderTypes, CallerStates, Places
  <2>2. CASE GetSnapshot(t)
      BY <1>1, <1>2, <2>2 DEF GetSnapshot, RecorderTypes, CallerStates, Places
  <2>3. CASE WriteOne(t) /\ dumping[t] # {}
      BY <1>1, <2>3 DEF WriteOne, RecorderTypes, At
  <2> QED BY <2>1, <2>2, <2>3
<1>4. Registered \subseteq Nat
    BY <1>1 DEF Registered, RecorderTypes
<1>5. dumping' \in [Callers -> SUBSET Nat]
      /\ \A u \in Callers : dumping'[u] \subseteq
            dumping[u] \union (IF "histograms" \in up THEN Registered ELSE {})
  <2>1. CASE IsActive(t)
      BY <1>1, <2>1 DEF IsActive, RecorderTypes
  <2>2. CASE GetSnapshot(t)
      BY <1>1, <1>4, <2>2 DEF GetSnapshot, RecorderTypes
  <2>3. CASE WriteOne(t) /\ dumping[t] # {}
      BY <1>1, <2>3 DEF WriteOne, RecorderTypes
  <2> QED BY <2>1, <2>2, <2>3
<1>6. RecorderTypes'
    BY <1>1, <1>3, <1>5 DEF RecorderTypes, mapVars, heapVars
<1>7. GoodPointer(caller'[t].ptr, NameAt[caller'[t].site])
    BY <1>3 DEF RecorderInv, PointersGood, SiteName
<1>8. \A u \in Callers : At(u, "register") /\ u # t => caller[u].ptr.id # caller'[t].ptr.id
    BY <1>3, OthersPrivate
<1>9. caller[t].ptr.epoch = 0
    BY DEF IsActive, GetSnapshot, WriteOne, At, RecorderInv, Known, InMacro
<1>10. Quiet(t)
    BY <1>1, <1>3, <1>5, <1>7, <1>8, <1>9 DEF Quiet, mapVars, heapVars, InMacro
<1> QED BY <1>6, <1>10, QuietInv
----------------------------------------------------------------------------
(* The life of the recorder.                                                *)

\* A new recorder starts with empty maps and knows no pointer of the last one.
LEMMA StartInv ==
    ASSUME RecorderInv, StartRecorder
    PROVE  RecorderInv'
<1> USE DEF RecorderInv
<1>1. /\ up = {} /\ up' = {"histograms", "ranges"} /\ epoch' = epoch + 1
      /\ registry' = [n \in Names |-> NoHistogram]
      /\ ranges' = [c \in DOMAIN ranges |-> <<>>]
      /\ UNCHANGED made /\ UNCHANGED rangesOf /\ UNCHANGED alive
      /\ UNCHANGED static /\ UNCHANGED caller /\ UNCHANGED dumping
    BY DEF StartRecorder, heapVars, callVars
<1>2. RecorderTypes'
    BY <1>1 DEF RecorderTypes, NoHistogram
<1>3. Ids' = Ids /\ Registered' = {} /\ \A n \in Names : registry'[n] = 0
    BY <1>1 DEF Ids, Registered, NoHistogram
<1>4. \A c \in Checksums : ranges'[c] = <<>>
    BY <1>1 DEF RecorderTypes
<1>5. Known'
    BY <1>1, <1>3, <1>4 DEF Known, RecorderTypes
<1>6. MapsGood' /\ ListsGood'
    BY <1>1, <1>3, <1>4 DEF MapsGood, ListsGood, RecorderTypes
<1>7. PointersGood'
  <2>1. ASSUME NEW p \in Pointers, NEW n, GoodPointer(p, n) PROVE GoodPointer(p, n)'
      BY <1>1, <2>1 DEF GoodPointer, Usable, RecorderTypes, Pointers
  <2>2. \A t \in Callers : caller[t].ptr \in Pointers
      BY DEF RecorderTypes, CallerStates
  <2> QED BY <1>1, <2>1, <2>2 DEF PointersGood, RecorderTypes, SiteName, Usable
<1>8. PrivateUntilRegistered'
    BY <1>1, <1>3, <1>4 DEF PrivateUntilRegistered, Private, At, SiteName, NoHistogram
<1> QED BY <1>2, <1>5, <1>6, <1>7, <1>8

\* With the maps that go, what is promised of them goes.
LEMMA StopInv ==
    ASSUME RecorderInv, StopHistograms \/ StopRanges
    PROVE  RecorderInv'
<1> USE DEF RecorderInv
<1>1. /\ up' \in {{}, {"ranges"}} /\ "histograms" \notin up'
      /\ "ranges" \in up' => "ranges" \in up
      /\ UNCHANGED registry /\ UNCHANGED ranges /\ UNCHANGED epoch
      /\ UNCHANGED made /\ UNCHANGED rangesOf /\ UNCHANGED alive
      /\ UNCHANGED static /\ UNCHANGED caller /\ UNCHANGED dumping
    BY DEF StopHistograms, StopRanges, heapVars, callVars
<1>2. RecorderTypes'
    BY <1>1 DEF RecorderTypes
<1>3. Ids' = Ids
    BY <1>1 DEF Ids
<1>4. Known'
    BY <1>1, <1>3 DEF Known
<1>5. MapsGood' /\ ListsGood'
    BY <1>1 DEF MapsGood, ListsGood
<1>6. PointersGood'
    BY <1>1 DEF PointersGood, GoodPointer, Usable, SiteName
<1>7. PrivateUntilRegistered'
    BY <1>1, <1>3 DEF PrivateUntilRegistered, Private, At, SiteName
<1> QED BY <1>2, <1>4, <1>5, <1>6, <1>7

----------------------------------------------------------------------------
(* Construction and registration.                                           *)

\* What is constructed is new to everybody.
LEMMA ConstructInv ==
    ASSUME RecorderInv, NEW t \in Callers, Construct(t)
    PROVE  RecorderInv'
<1> PICK id : id = Len(made) + 1
    OBVIOUS
<1> DEFINE x == [pc |-> "register", site |-> caller[t].site, ptr |-> [id |-> id, epoch |-> 0]]
<1> USE DEF RecorderInv
<1>1. /\ At(t, "construct") /\ made' = Append(made, SiteName(t)) /\ rangesOf' = Append(rangesOf, id)
      /\ alive' = [histograms |-> alive.histograms \union {id}, ranges |-> alive.ranges \union {id}]
      /\ caller' = [caller EXCEPT ![t] = [caller[t] EXCEPT !.pc = "register",
                                                !.ptr = [id |-> id, epoch |-> 0]]]
      /\ UNCHANGED registry /\ UNCHANGED ranges /\ UNCHANGED up /\ UNCHANGED epoch
      /\ UNCHANGED static /\ UNCHANGED dumping
    BY Zenon DEF Construct, mapVars
<1>0. registry' = registry /\ ranges' = ranges /\ up' = up /\ epoch' = epoch
      /\ static' = static /\ dumping' = dumping
    BY <1>1
<1>2. caller[t] \in CallerStates /\ caller[t].site \in Sites /\ SiteName(t) \in Names
    BY <1>1, ShapesKnown DEF RecorderTypes, Known, InMacro, At, SiteName
<1>3. id \in Nat /\ id > Len(made) /\ Len(made) \in Nat /\ Ids = 1..Len(made)
    BY ShapesKnown DEF RecorderTypes
<1>4. caller' = [caller EXCEPT ![t] = x] /\ x \in CallerStates
    BY <1>1, <1>2, <1>3, CallerUpdate DEF CallerStates, Places, Pointers
<1>5. caller'[t] = x /\ \A u \in Callers : u # t => caller'[u] = caller[u]
    BY <1>4 DEF RecorderTypes
<1>6. /\ Len(made') = id /\ Len(rangesOf') = id /\ Ids' = Ids \union {id}
      /\ made'[id] = SiteName(t) /\ rangesOf'[id] = id
      /\ \A h \in Ids : made'[h] = made[h] /\ rangesOf'[h] = rangesOf[h]
      /\ made' \in Seq(Names) /\ rangesOf' \in Seq(Nat)
    BY <1>1, <1>2, <1>3, AppendProperties DEF RecorderTypes, Ids
<1>7. alive'.histograms = alive.histograms \union {id} /\ alive'.ranges = alive.ranges \union {id}
    BY <1>1
<1>8. RecorderTypes'
    BY <1>1, <1>3, <1>4, <1>6 DEF RecorderTypes
<1>9. Known'
  <2>1. alive'.histograms \subseteq Ids' /\ alive'.ranges \subseteq Ids'
      BY <1>6, <1>7 DEF Known
  <2>2. \A n \in Names : registry'[n] <= Len(made')
      BY <1>1, <1>3, <1>6 DEF Known, RecorderTypes
  <2>3. \A h \in Ids' : rangesOf'[h] \in Ids'
      BY <1>6 DEF Known
  <2>4. ASSUME NEW u \in Callers
        PROVE  IF caller'[u].pc \in InMacro THEN caller'[u].site \in Sites ELSE caller'[u].ptr.epoch = 0
      BY <1>2, <1>5 DEF Known
  <2>5. \A c \in Checksums : \A i \in DOMAIN ranges'[c] : ranges'[c][i] \in Ids'
      BY <1>0, <1>6 DEF Known
  <2> QED BY <2>1, <2>2, <2>3, <2>4, <2>5 DEF Known
<1>10. \A h \in Ids : made'[h] = made[h]
    BY <1>6
<1>11. \A h : Usable(h) => h \in Ids /\ Usable(h)'
    BY <1>6, <1>7 DEF Usable, Known
<1>12. Registered' = Registered /\ Registered \subseteq Nat
    BY <1>1 DEF Registered, RecorderTypes
<1>13. Registered \subseteq Ids
    BY <1>3 DEF Registered, Known, RecorderTypes, NoHistogram
<1>14. MapsGood'
    BY <1>1, <1>7, <1>11, <1>12 DEF MapsGood
<1>15. ListsGood'
  <2>1. CASE "histograms" \notin up
      BY <1>1, <2>1 DEF ListsGood
  <2>2. CASE "histograms" \in up
    <3>1. ASSUME NEW c \in Checksums, NEW i \in DOMAIN ranges[c], NEW j \in DOMAIN ranges[c],
                 ShapeAt(ranges[c][i])' = ShapeAt(ranges[c][j])'
          PROVE  i = j
      <4>1. ranges[c][i] \in Ids /\ ranges[c][j] \in Ids
          BY DEF Known
      <4>2. ShapeAt(ranges[c][i]) = ShapeAt(ranges[c][j])
          BY <1>0, <1>10, <3>1, <4>1 DEF ShapeAt
      <4> QED BY <2>2, <4>2 DEF ListsGood
    <3>2. ASSUME NEW g \in Registered
          PROVE  /\ ShapeAt(rangesOf[g])' = ShapeAt(g)'
                 /\ \E i \in DOMAIN ChecksumMatching(g)' : (ChecksumMatching(g)[i])' = rangesOf'[g]
      <4>1. made'[g] = made[g] /\ rangesOf'[g] = rangesOf[g] /\ made'[rangesOf[g]] = made[rangesOf[g]]
          BY <1>6, <1>10, <1>13 DEF Known
      <4>2. ShapeAt(rangesOf[g]) = ShapeAt(g)
            /\ \E i \in DOMAIN ChecksumMatching(g) : ChecksumMatching(g)[i] = rangesOf[g]
          BY <2>2 DEF ListsGood
      <4> QED BY <1>0, <4>1, <4>2 DEF ChecksumMatching, ShapeAt
    <3> QED BY <1>0, <1>12, <3>1, <3>2 DEF ListsGood
  <2> QED BY <2>1, <2>2
<1>16. PointersGood'
  <2>1. ASSUME NEW p \in Pointers, NEW n, GoodPointer(p, n) PROVE GoodPointer(p, n)'
      BY <1>1, <1>3, <1>6, <1>11, <2>1 DEF GoodPointer, Pointers
  <2>2. \A u \in Callers : caller[u].ptr \in Pointers
      BY DEF RecorderTypes, CallerStates
  <2>3. ASSUME NEW u \in Callers PROVE GoodPointer(caller[u].ptr, SiteName(u))' 
    <3>1. CASE u = t
      <4>1. Usable(id)'
          BY <1>6, <1>7 DEF Usable
      <4>2. caller'[u].ptr.id = id /\ caller'[u].ptr.epoch = 0
          BY <1>5, <3>1
      <4> QED BY <1>1, <1>3, <1>6, <4>1, <4>2 DEF GoodPointer, MapsGood, RecorderTypes, NoHistogram
    <3>2. CASE u # t
        BY <1>5, <2>1, <2>2, <3>2 DEF PointersGood, SiteName
    <3> QED BY <3>1, <3>2
  <2>4. \A s \in Sites : GoodPointer(static[s], NameAt[s])'
      BY <1>1, <2>1 DEF PointersGood, RecorderTypes
  <2> QED BY <1>1, <1>11, <2>3, <2>4 DEF PointersGood
<1>17. ASSUME NEW u \in Callers, At(u, "register")' PROVE Private(u)'
  <2>1. CASE u = t
    <3>1. \A n \in Names : registry[n] # id
        BY <1>3 DEF Known, RecorderTypes
    <3>2. \A c \in Checksums : \A i \in DOMAIN ranges[c] : ranges[c][i] # id
        BY <1>3 DEF Known
    <3>3. \A s \in Sites : static[s].id # id
        BY <1>3 DEF PointersGood, GoodPointer, RecorderTypes, Pointers
    <3>4. \A w \in Callers : caller[w].ptr.id # id
        BY <1>3 DEF PointersGood, GoodPointer, RecorderTypes, CallerStates, Pointers
    <3>5. \A w \in Callers : id \notin dumping[w]
        BY <1>3 DEF PointersGood, Usable, Known
    <3>6. \A h \in Ids' : rangesOf'[h] = id => h = id
        BY <1>3, <1>6 DEF Known
    <3>7. SiteName(t)' = SiteName(t) /\ caller'[t].ptr.id = id
        BY <1>5 DEF SiteName
    <3> QED BY <1>1, <1>3, <1>5, <1>6, <2>1, <3>1, <3>2, <3>3, <3>4, <3>5, <3>6, <3>7 DEF Private, NoHistogram
  <2>2. CASE u # t
    <3>1. caller'[u] = caller[u] /\ SiteName(u)' = SiteName(u) /\ Private(u)
        BY <1>5, <1>17, <2>2 DEF At, SiteName, PrivateUntilRegistered
    <3>2. caller[u].ptr.id \in Ids
        BY <1>3, <3>1 DEF PointersGood, GoodPointer, RecorderTypes, CallerStates, Pointers, Private, NoHistogram
    <3>3. \A h \in Ids' : rangesOf'[h] = caller[u].ptr.id => h = caller[u].ptr.id
        BY <1>3, <1>6, <3>1, <3>2 DEF Private
    <3>4. caller'[t].ptr.id # caller[u].ptr.id
        BY <1>3, <1>5, <3>2
    <3>5. made'[caller[u].ptr.id] = made[caller[u].ptr.id] /\ rangesOf'[caller[u].ptr.id] = rangesOf[caller[u].ptr.id]
        BY <1>6, <3>2
    <3>6. \A w \in Callers : w # u => caller'[w].ptr.id # caller[u].ptr.id
        BY <1>5, <3>1, <3>4 DEF Private
    <3> QED BY <1>0, <3>1, <3>3, <3>5, <3>6 DEF Private
  <2> QED BY <2>1, <2>2
<1> QED BY <1>8, <1>9, <1>14, <1>15, <1>16, <1>17 DEF PrivateUntilRegistered
\* What every outcome of Register() has in common: t gets a pointer q, and only
\* the histogram that is private to t changes its standing.
Registers(t, id, q, e) ==
    /\ At(t, "register") /\ id = caller[t].ptr.id
    /\ caller' = [caller EXCEPT ![t] =
         [pc |-> "store", site |-> caller[t].site, ptr |-> [id |-> q, epoch |-> e]]]
    /\ UNCHANGED up /\ UNCHANGED epoch /\ UNCHANGED made /\ UNCHANGED static /\ UNCHANGED dumping
    /\ q \in {id} \union Registered /\ e \in {0, epoch}
    /\ \A n \in Names : registry'[n] = registry[n]
         \/ (registry'[n] = id /\ n = made[id] /\ registry[n] = NoHistogram)
    /\ \A c \in Checksums : \A i \in DOMAIN ranges'[c] :
         ranges'[c][i] = id \/ \E j \in DOMAIN ranges[c] : ranges'[c][i] = ranges[c][j]
    /\ \A h \in Ids : rangesOf'[h] = rangesOf[h]
         \/ (h = id /\ \E c \in Checksums : \E j \in DOMAIN ranges[c] : rangesOf'[h] = ranges[c][j])
    /\ alive'.histograms \in {alive.histograms, alive.histograms \ {id}}
    /\ alive'.ranges \in {alive.ranges, alive.ranges \ {id}}

\* The histogram of a thread that is registering.
LEMMA Registering ==
    ASSUME RecorderInv, NEW t \in Callers, At(t, "register")
    PROVE  LET id == caller[t].ptr.id
           IN  /\ id \in Ids /\ id \in Nat \ {0} /\ Private(t) /\ caller[t].site \in Sites
               /\ made[id] = SiteName(t) /\ made[id] \in Names /\ Usable(id)
               /\ caller[t] \in CallerStates /\ Registered \subseteq Ids
<1> USE DEF RecorderInv
<1>1. Private(t) /\ caller[t].site \in Sites /\ caller[t] \in CallerStates
    BY DEF PrivateUntilRegistered, Known, At, InMacro, RecorderTypes
<1>2. caller[t].ptr.id \in Nat /\ caller[t].ptr.id <= Len(made) /\ Usable(caller[t].ptr.id)
    BY <1>1 DEF PointersGood, GoodPointer, CallerStates, Pointers, Private
<1>3. caller[t].ptr.id \in Ids
    BY <1>2 DEF Usable, Known
<1>4. Registered \subseteq Ids
    BY ShapesKnown DEF Registered, Known, RecorderTypes, NoHistogram
<1> QED BY <1>1, <1>2, <1>3, <1>4, ShapesKnown DEF Private, NoHistogram

\* What is not the private histogram is as usable as before.
LEMMA RegistersUsable ==
    ASSUME RecorderInv, NEW t \in Callers, NEW id, NEW q, NEW e, Registers(t, id, q, e),
           NEW h, Usable(h), h # id
    PROVE  Usable(h)'
<1>1. h \in Ids /\ rangesOf'[h] = rangesOf[h]
    BY DEF RecorderInv, Registers, Usable, Known
<1>2. rangesOf[h] # id
    BY <1>1, Registering DEF Registers, Private
<1> QED BY <1>1, <1>2 DEF Registers, Usable

\* What a registration leaves in the maps is among the histograms made.
LEMMA RegistersKnown ==
    ASSUME RecorderInv, RecorderTypes', NEW t \in Callers, NEW id, NEW q, NEW e, Registers(t, id, q, e)
    PROVE  Known'
<1>1. Ids' = Ids /\ Len(made') = Len(made) /\ id \in Ids /\ id \in Nat /\ id <= Len(made)
    BY Registering, ShapesKnown DEF Registers, Ids, RecorderInv, RecorderTypes
<1>2. alive'.histograms \subseteq Ids' /\ alive'.ranges \subseteq Ids'
    BY <1>1 DEF RecorderInv, Known, Registers
<1>3. \A n \in Names : registry'[n] <= Len(made')
    BY <1>1 DEF RecorderInv, Known, Registers
<1>4. \A c \in Checksums : \A i \in DOMAIN ranges'[c] : ranges'[c][i] \in Ids'
    BY <1>1 DEF RecorderInv, Known, Registers
<1>5. \A h \in Ids' : rangesOf'[h] \in Ids'
    BY <1>1 DEF RecorderInv, Known, Registers
<1>6. \A u \in Callers : IF caller'[u].pc \in InMacro THEN caller'[u].site \in Sites
                                                      ELSE caller'[u].ptr.epoch = 0
  <2>1. caller'[t].site = caller[t].site /\ caller'[t].pc \in InMacro
        /\ \A u \in Callers : u # t => caller'[u] = caller[u]
      BY DEF Registers, RecorderInv, RecorderTypes, InMacro
  <2> QED BY <2>1, Registering DEF Registers, RecorderInv, Known
<1> QED BY <1>2, <1>3, <1>4, <1>5, <1>6 DEF Known

\* A registration leaves the histograms of the other callers private.
LEMMA RegistersPrivate ==
    ASSUME RecorderInv, NEW t \in Callers, NEW id, NEW q, NEW e, Registers(t, id, q, e)
    PROVE  PrivateUntilRegistered'
<1>1. SUFFICES ASSUME NEW u \in Callers, At(u, "register")' PROVE Private(u)'
    BY DEF PrivateUntilRegistered
<1>2. caller'[t].ptr.id = q /\ caller'[t].pc = "store" /\ \A w \in Callers : w # t => caller'[w] = caller[w]
    BY DEF Registers, RecorderInv, RecorderTypes
<1>3. u # t /\ At(u, "register") /\ caller'[u] = caller[u]
    BY <1>1, <1>2 DEF At
<1> DEFINE mine == caller[u].ptr.id
<1>4. Private(u) /\ mine \in Ids /\ mine \notin Registered /\ mine # NoHistogram
    BY <1>3, Registering, OthersPrivate
<1>5. mine # id /\ mine # q
    BY <1>3, <1>4, OthersPrivate DEF Registers
<1>6. made' = made /\ Ids' = Ids /\ static' = static /\ dumping' = dumping
    BY DEF Registers, Ids
<1>7. rangesOf'[mine] = mine /\ \A h \in Ids : rangesOf'[h] = mine => h = mine
    BY <1>4, <1>5 DEF Private, Registers
<1>8. \A n \in Names : registry'[n] # mine
    BY <1>4, <1>5 DEF Private, Registers
<1>9. \A c \in Checksums : \A i \in DOMAIN ranges'[c] : ranges'[c][i] # mine
    BY <1>4, <1>5 DEF Private, Registers
<1>10. \A w \in Callers : w # u => caller'[w].ptr.id # mine
    BY <1>2, <1>4, <1>5 DEF Private
<1>11. SiteName(u)' = SiteName(u) /\ caller'[u].ptr.id = mine
    BY <1>3 DEF SiteName
<1> HIDE DEF mine
<1>12. made[mine] = SiteName(u) /\ (\A s \in Sites : static[s].id # mine) /\ \A w \in Callers : mine \notin dumping[w]
    BY <1>4 DEF Private, mine
<1> QED BY <1>4, <1>6, <1>7, <1>8, <1>9, <1>10, <1>11, <1>12 DEF Private

\* Pointers stay good if the one that t takes is.
LEMMA RegistersPointers ==
    ASSUME RecorderInv, NEW t \in Callers, NEW id, NEW q, NEW e, Registers(t, id, q, e),
           GoodPointer([id |-> q, epoch |-> e], SiteName(t))'
    PROVE  PointersGood'
<1>1. made' = made /\ up' = up /\ epoch' = epoch /\ static' = static /\ dumping' = dumping
    BY DEF Registers
<1>2. ASSUME NEW p \in Pointers, NEW n, GoodPointer(p, n), p.id # id, n \in Names \/ p.epoch = 0
      PROVE  GoodPointer(p, n)'
  <2>1. p.id # NoHistogram => Usable(p.id)'
      BY <1>2, RegistersUsable DEF GoodPointer
  <2>2. ASSUME "histograms" \in up, p.epoch = epoch PROVE p.id = registry'[n]
    <3>1. epoch > 0 /\ p.id = registry[n] /\ n \in Names
        BY <1>2, <2>2 DEF RecorderInv, MapsGood, GoodPointer
    <3>2. registry[n] # NoHistogram
        BY <1>2, <2>2, <3>1 DEF GoodPointer, RecorderInv, RecorderTypes
    <3> QED BY <3>1, <3>2 DEF Registers
  <2> QED BY <1>1, <1>2, <2>1, <2>2 DEF GoodPointer
<1>3. id = caller[t].ptr.id /\ id # NoHistogram /\ Private(t)
    BY Registering DEF Registers, NoHistogram
<1>4. caller'[t] = [pc |-> "store", site |-> caller[t].site, ptr |-> [id |-> q, epoch |-> e]]
      /\ \A w \in Callers : w # t => caller'[w] = caller[w]
    BY DEF Registers, RecorderInv, RecorderTypes
<1>5. ASSUME NEW u \in Callers PROVE GoodPointer(caller[u].ptr, SiteName(u))'
  <2>1. CASE u = t
      BY <1>4, <2>1 DEF GoodPointer, SiteName, Usable
  <2>2. CASE u # t
    <3>1. caller[u].ptr \in Pointers /\ caller[u].ptr.id # id /\ GoodPointer(caller[u].ptr, SiteName(u))
        BY <1>3, <2>2 DEF Private, RecorderInv, PointersGood, RecorderTypes, CallerStates
    <3>2. SiteName(u) \in Names \/ caller[u].ptr.epoch = 0
        BY ShapesKnown DEF RecorderInv, Known, SiteName
    <3>3. PICK p, n : p = caller[u].ptr /\ n = SiteName(u)
        OBVIOUS
    <3>4. GoodPointer(p, n)'
        BY <1>2, <3>1, <3>2, <3>3
    <3>5. caller'[u].ptr = p /\ SiteName(u)' = n
        BY <1>4, <2>2, <3>3 DEF SiteName
    <3> QED BY <3>4, <3>5 DEF GoodPointer, Usable
  <2> QED BY <2>1, <2>2
<1>6. ASSUME NEW s \in Sites PROVE GoodPointer(static[s], NameAt[s])'
  <2>1. static[s] \in Pointers /\ static[s].id # id /\ GoodPointer(static[s], NameAt[s]) /\ NameAt[s] \in Names
      BY <1>3, ShapesKnown DEF Private, RecorderInv, PointersGood, RecorderTypes
  <2>2. PICK p : p = static[s]
      OBVIOUS
  <2>3. GoodPointer(p, NameAt[s])'
      BY <1>2, <2>1, <2>2
  <2> QED BY <1>1, <2>2, <2>3 DEF GoodPointer, Usable
<1>7. ASSUME NEW u \in Callers, NEW h \in dumping[u] PROVE Usable(h)'
    BY <1>3, RegistersUsable DEF Private, RecorderInv, PointersGood
<1> QED BY <1>1, <1>5, <1>6, <1>7 DEF PointersGood
\* The record a thread leaves Register() with.
LEMMA TakesIs ==
    ASSUME RecorderInv, NEW t \in Callers, At(t, "register"), NEW q \in Nat, NEW e \in Nat, Takes(t, q, e)
    PROVE  /\ caller' = [caller EXCEPT ![t] =
                [pc |-> "store", site |-> caller[t].site, ptr |-> [id |-> q, epoch |-> e]]]
           /\ caller' \in [Callers -> CallerStates]
<1>1. caller[t] \in CallerStates
    BY Registering
<1>2. caller' = [caller EXCEPT ![t] = [caller[t] EXCEPT !.pc = "store", !.ptr = [id |-> q, epoch |-> e]]]
    BY DEF Takes
<1>3. caller' = [caller EXCEPT ![t] = [pc |-> "store", site |-> caller[t].site, ptr |-> [id |-> q, epoch |-> e]]]
    BY <1>1, <1>2, CallerUpdate
<1> QED BY <1>1, <1>3 DEF RecorderInv, RecorderTypes, CallerStates, Pointers, Places

\* Without a recorder nothing is registered.
LEMMA RegisterAloneInv ==
    ASSUME RecorderInv, NEW t \in Callers, Register(t), "histograms" \notin up
    PROVE  RecorderInv'
<1> PICK id : id = caller[t].ptr.id
    OBVIOUS
<1>1. /\ At(t, "register") /\ Takes(t, id, 0)
      /\ UNCHANGED registry /\ UNCHANGED ranges /\ UNCHANGED rangesOf /\ UNCHANGED alive
      /\ UNCHANGED up /\ UNCHANGED epoch /\ UNCHANGED made /\ UNCHANGED static /\ UNCHANGED dumping
    BY DEF Register
<1>2. id \in Nat /\ Usable(id) /\ id <= Len(made)
    BY <1>1, Registering, ShapesKnown DEF RecorderInv
<1>3. Registers(t, id, id, 0)
    BY <1>1, <1>2, TakesIs DEF Registers
<1>4. RecorderTypes'
    BY <1>1, <1>2, TakesIs DEF RecorderInv, RecorderTypes
<1>5. GoodPointer([id |-> id, epoch |-> 0], SiteName(t))'
    BY <1>1, <1>2 DEF GoodPointer, Usable, RecorderInv, RecorderTypes
<1>6. MapsGood' /\ ListsGood'
    BY <1>1, <1>2 DEF MapsGood, ListsGood, RecorderInv
<1> QED BY <1>3, <1>4, <1>5, <1>6, RegistersKnown, RegistersPrivate, RegistersPointers DEF RecorderInv

\* The duplicate that is deleted was its maker's.
LEMMA DuplicateInv ==
    ASSUME RecorderInv, NEW t \in Callers, Register(t), "histograms" \in up,
           DeleteDuplicate(t, caller[t].ptr.id)
    PROVE  RecorderInv'
<1> PICK id, q : id = caller[t].ptr.id /\ q = registry[made[id]]
    OBVIOUS
<1>1. /\ At(t, "register") /\ Takes(t, q, epoch) /\ q # NoHistogram
      /\ alive' = [alive EXCEPT !.histograms = @ \ {id}]
      /\ UNCHANGED registry /\ UNCHANGED ranges /\ UNCHANGED rangesOf
      /\ UNCHANGED up /\ UNCHANGED epoch /\ UNCHANGED made /\ UNCHANGED static /\ UNCHANGED dumping
    BY DEF Register, DeleteDuplicate
<1>2. id \in Nat /\ made[id] \in Names /\ made[id] = SiteName(t) /\ Private(t)
    BY <1>1, Registering
<1>3. q \in Registered /\ q \in Nat /\ q # id /\ q <= Len(made) /\ epoch \in Nat
    BY <1>1, <1>2 DEF Registered, RecorderInv, RecorderTypes, Known, Private
<1>4. alive'.histograms = alive.histograms \ {id} /\ alive'.ranges = alive.ranges
      /\ alive' \in [histograms : SUBSET Nat, ranges : SUBSET Nat]
    BY <1>1 DEF RecorderInv, RecorderTypes
<1>5. Registers(t, id, q, epoch)
    BY <1>1, <1>3, <1>4, TakesIs DEF Registers
<1>6. RecorderTypes'
    BY <1>1, <1>3, <1>4, TakesIs DEF RecorderInv, RecorderTypes
<1>7. Usable(q)'
    BY <1>3, <1>5, RegistersUsable DEF RecorderInv, MapsGood
<1>8. SiteName(t)' = SiteName(t)
    BY <1>5 DEF Registers, SiteName, RecorderInv, RecorderTypes
<1>9. GoodPointer([id |-> q, epoch |-> epoch], SiteName(t))'
    BY <1>1, <1>2, <1>3, <1>7, <1>8 DEF GoodPointer
<1>10. Registered' = Registered /\ \A h \in Registered : h # id
    BY <1>1, <1>2 DEF Registered, Private
<1>11. MapsGood'
  <2>1. \A h \in Registered : Usable(h)'
      BY <1>5, <1>10, RegistersUsable DEF RecorderInv, MapsGood
  <2> QED BY <1>1, <1>4, <1>10, <2>1 DEF RecorderInv, MapsGood
<1>12. ListsGood'
    BY <1>1, <1>10 DEF RecorderInv, ListsGood, ChecksumMatching, ShapeAt
<1> QED BY <1>5, <1>6, <1>9, <1>11, <1>12, RegistersKnown, RegistersPrivate, RegistersPointers, <1>1 DEF RecorderInv

\* What registering a first histogram of a name has in common, whether its
\* ranges are listed or shared.
LEMMA NewFacts ==
    ASSUME RecorderInv, NEW t \in Callers, Register(t), "histograms" \in up,
           NEW id, id = caller[t].ptr.id, RegisterNew(t, id)
    PROVE  /\ At(t, "register") /\ Takes(t, id, epoch) /\ registry[made[id]] = NoHistogram
           /\ UNCHANGED up /\ UNCHANGED epoch /\ UNCHANGED made /\ UNCHANGED static /\ UNCHANGED dumping
           /\ registry' = [registry EXCEPT ![made[id]] = id]
           /\ id \in Ids /\ id \in Nat \ {0} /\ id <= Len(made) /\ Private(t) /\ Usable(id)
           /\ made[id] \in Names /\ made[id] = SiteName(t) /\ rangesOf[id] = id
           /\ Crc[ShapeAt(id)] \in Checksums
           /\ epoch \in Nat /\ "ranges" \in up
           /\ Registered' \subseteq Registered \union {id}
           /\ \A n \in Names : registry'[n] = IF n = made[id] THEN id ELSE registry[n]
<1>1. At(t, "register") /\ Takes(t, id, epoch) /\ registry[made[id]] = NoHistogram
      /\ UNCHANGED up /\ UNCHANGED epoch /\ UNCHANGED made /\ UNCHANGED static /\ UNCHANGED dumping
      /\ registry' = [registry EXCEPT ![made[id]] = id]
    BY DEF Register, RegisterNew
<1>2. id \in Ids /\ id \in Nat \ {0} /\ id <= Len(made) /\ Private(t) /\ Usable(id)
      /\ made[id] \in Names /\ made[id] = SiteName(t) /\ Crc[ShapeAt(id)] \in Checksums
    BY <1>1, Registering, ShapesKnown DEF RecorderInv
<1>3. rangesOf[id] = id
    BY <1>2 DEF Private
<1>4. \A n \in Names : registry'[n] = IF n = made[id] THEN id ELSE registry[n]
    BY <1>1, <1>2 DEF RecorderInv, RecorderTypes
<1>5. Registered' \subseteq Registered \union {id}
    BY <1>4 DEF Registered
<1> QED BY <1>1, <1>2, <1>3, <1>4, <1>5 DEF RecorderInv, RecorderTypes
\* push_front() of a list of ranges.
LEMMA PushFront ==
    ASSUME NEW s \in Seq(Nat), NEW x \in Nat, NEW p, p = <<x>> \o s
    PROVE  /\ p \in Seq(Nat) /\ 1 \in DOMAIN p /\ p[1] = x
           /\ \A i \in DOMAIN p : i # 1 => i - 1 \in DOMAIN s /\ p[i] = s[i - 1]
           /\ \A i \in DOMAIN p, j \in DOMAIN p : i \in Nat /\ j \in Nat
           /\ \A j \in DOMAIN s : j + 1 \in DOMAIN p /\ p[j + 1] = s[j]
<1>1. <<x>> \in Seq(Nat) /\ Len(<<x>>) = 1 /\ <<x>>[1] = x
    OBVIOUS
<1>2. p \in Seq(Nat) /\ Len(p) = 1 + Len(s)
    BY <1>1, ConcatProperties
<1>3. \A i \in 1..(1 + Len(s)) : p[i] = IF i <= 1 THEN <<x>>[i] ELSE s[i - 1]
    BY <1>1, ConcatProperties
<1>4. DOMAIN p = 1..(1 + Len(s)) /\ DOMAIN s = 1..Len(s) /\ Len(s) \in Nat
    BY <1>2
<1>5. p[1] = x /\ 1 \in DOMAIN p
    BY <1>1, <1>3, <1>4
<1> QED BY <1>2, <1>3, <1>4, <1>5

\* No two in a list of C have the same shape f[m[id]].
OneOfEach(C, lists, m, f) ==
    \A c \in C : \A i, j \in DOMAIN lists[c] : f[m[lists[c][i]]] = f[m[lists[c][j]]] => i = j

\* A list has one more in front, whose shape it had not.
OneInFront(C, old, new, c0, id, m, f) ==
    /\ old \in [C -> Seq(Nat)] /\ c0 \in C /\ id \in Nat
    /\ OneOfEach(C, old, m, f) /\ \A i \in DOMAIN old[c0] : f[m[old[c0][i]]] # f[m[id]]
    /\ new = [old EXCEPT ![c0] = <<id>> \o @]

\* What is then in the lists.
FrontListed(C, old, new, c0, id, m, f) ==
    /\ new \in [C -> Seq(Nat)] /\ OneOfEach(C, new, m, f)
    /\ \A c \in C : \A i \in DOMAIN new[c] :
         new[c][i] = id \/ \E j \in DOMAIN old[c] : new[c][i] = old[c][j]
    /\ \E i \in DOMAIN new[c0] : new[c0][i] = id
    /\ \A c \in C : \A j \in DOMAIN old[c] : \E i \in DOMAIN new[c] : new[c][i] = old[c][j]

\* A list that gets an element in front keeps the others, each once.
LEMMA FrontOfList ==
    ASSUME NEW C, NEW old, NEW new, NEW c0, NEW id, NEW m, NEW f, OneInFront(C, old, new, c0, id, m, f)
    PROVE  FrontListed(C, old, new, c0, id, m, f)
<1> USE DEF OneInFront
<1> PICK s, p : s = old[c0] /\ p = <<id>> \o s
    OBVIOUS
<1>1. /\ p \in Seq(Nat) /\ 1 \in DOMAIN p /\ p[1] = id
      /\ \A i \in DOMAIN p : i # 1 => i - 1 \in DOMAIN s /\ p[i] = s[i - 1]
      /\ \A i \in DOMAIN p, j \in DOMAIN p : i \in Nat /\ j \in Nat
      /\ \A j \in DOMAIN s : j + 1 \in DOMAIN p /\ p[j + 1] = s[j]
    BY PushFront
<1>2. new[c0] = p /\ \A c \in C : c # c0 => new[c] = old[c]
    OBVIOUS
<1>3. new = [old EXCEPT ![c0] = p]
    OBVIOUS
<1>4. new \in [C -> Seq(Nat)]
    BY <1>1, <1>3
<1>5. ASSUME NEW c \in C, NEW i \in DOMAIN new[c]
      PROVE  new[c][i] = id \/ \E j \in DOMAIN old[c] : new[c][i] = old[c][j]
  <2>1. CASE c # c0
      BY <1>2, <2>1
  <2>2. CASE c = c0
    <3>1. i \in DOMAIN p /\ new[c][i] = p[i]
        BY <1>2, <2>2
    <3>2. CASE i = 1
        BY <1>1, <3>1, <3>2
    <3>3. CASE i # 1
        BY <1>1, <2>2, <3>1, <3>3
    <3> QED BY <3>2, <3>3
  <2> QED BY <2>1, <2>2
<1>6. ASSUME NEW c \in C, NEW i \in DOMAIN new[c], NEW j \in DOMAIN new[c],
             f[m[new[c][i]]] = f[m[new[c][j]]]
      PROVE  i = j
  <2>1. CASE c # c0
    <3>1. new[c] = old[c]
        BY <1>2, <2>1
    <3>2. \A k, l \in DOMAIN old[c] : f[m[old[c][k]]] = f[m[old[c][l]]] => k = l
        BY DEF OneOfEach
    <3>3. i \in DOMAIN old[c] /\ j \in DOMAIN old[c] /\ f[m[old[c][i]]] = f[m[old[c][j]]]
        BY <1>6, <3>1
    <3> QED BY <3>2, <3>3
  <2>2. CASE c = c0
    <3>1. i \in DOMAIN p /\ j \in DOMAIN p /\ f[m[p[i]]] = f[m[p[j]]]
        BY <1>2, <1>6, <2>2
    <3>2. \A k \in DOMAIN s : f[m[s[k]]] # f[m[id]]
        OBVIOUS
    <3>3. \A k, l \in DOMAIN s : f[m[s[k]]] = f[m[s[l]]] => k = l
        BY DEF OneOfEach
    <3>4. CASE i = 1 \/ j = 1
      <4>1. \A k \in DOMAIN p : k # 1 => f[m[p[k]]] # f[m[p[1]]]
          BY <1>1, <3>2
      <4> QED BY <3>1, <3>4, <4>1
    <3>5. CASE i # 1 /\ j # 1
      <4>1. i - 1 \in DOMAIN s /\ j - 1 \in DOMAIN s /\ p[i] = s[i - 1] /\ p[j] = s[j - 1]
            /\ i \in Nat /\ j \in Nat
          BY <1>1, <3>1, <3>5
      <4>2. i - 1 = j - 1
          BY <3>1, <3>3, <4>1
      <4> QED BY <4>1, <4>2
    <3> QED BY <3>4, <3>5
  <2> QED BY <2>1, <2>2
<1>7. ASSUME NEW c \in C, NEW j \in DOMAIN old[c]
      PROVE  \E i \in DOMAIN new[c] : new[c][i] = old[c][j]
  <2>1. CASE c # c0
    <3>1. new[c] = old[c]
        BY <1>2, <2>1
    <3> QED BY <3>1
  <2>2. CASE c = c0
    <3>1. j + 1 \in DOMAIN p /\ p[j + 1] = old[c][j]
        BY <1>1, <2>2
    <3> QED BY <1>2, <2>2, <3>1
  <2> QED BY <2>1, <2>2
<1>8. OneOfEach(C, new, m, f)
    BY <1>6 DEF OneOfEach
<1> QED BY <1>1, <1>2, <1>4, <1>5, <1>7, <1>8 DEF FrontListed

\* New ranges are listed first under their checksum.
LEMMA NewListedInv ==
    ASSUME RecorderInv, NEW t \in Callers, Register(t), "histograms" \in up,
           NEW id, id = caller[t].ptr.id, RegisterNew(t, id), RegisterRanges(id)
    PROVE  RecorderInv'
<1> PICK c0 : c0 = Crc[ShapeAt(id)]
    OBVIOUS
<1>1. /\ At(t, "register") /\ Takes(t, id, epoch) /\ registry[made[id]] = NoHistogram
      /\ up' = up /\ epoch' = epoch /\ made' = made /\ static' = static /\ dumping' = dumping
      /\ registry' = [registry EXCEPT ![made[id]] = id]
      /\ id \in Ids /\ id \in Nat \ {0} /\ id <= Len(made) /\ Usable(id)
      /\ made[id] \in Names /\ made[id] = SiteName(t) /\ rangesOf[id] = id /\ c0 \in Checksums
      /\ epoch \in Nat /\ "ranges" \in up
      /\ Registered' \subseteq Registered \union {id}
      /\ \A n \in Names : registry'[n] = IF n = made[id] THEN id ELSE registry[n]
    BY NewFacts
<1>2. rangesOf' = rangesOf /\ alive' = alive /\ ranges' = [ranges EXCEPT ![c0] = <<id>> \o @]
      /\ \A i \in DOMAIN ranges[c0] : ShapeOf[made[ranges[c0][i]]] # ShapeOf[made[id]]
    BY DEF RegisterRanges, SameRanges, ChecksumMatching, ShapeAt
<1>3. ranges \in [Checksums -> Seq(Nat)] /\ registry \in [Names -> Nat]
    BY DEF RecorderInv, RecorderTypes
<1>4. \A c \in Checksums : \A i, j \in DOMAIN ranges[c] :
        ShapeOf[made[ranges[c][i]]] = ShapeOf[made[ranges[c][j]]] => i = j
    BY DEF RecorderInv, ListsGood, ShapeAt
<1>5. PICK old, new : old = ranges /\ new = ranges'
    OBVIOUS
<1>6. /\ new \in [Checksums -> Seq(Nat)]
      /\ \A c \in Checksums : \A i \in DOMAIN new[c] :
           new[c][i] = id \/ \E j \in DOMAIN old[c] : new[c][i] = old[c][j]
      /\ OneOfEach(Checksums, new, made, ShapeOf)
      /\ \E i \in DOMAIN new[c0] : new[c0][i] = id
      /\ \A c \in Checksums : \A j \in DOMAIN old[c] : \E i \in DOMAIN new[c] : new[c][i] = old[c][j]
  <2>1. id \in Nat /\ c0 \in Checksums /\ old \in [Checksums -> Seq(Nat)]
      BY <1>1, <1>3, <1>5
  <2>2. \A i \in DOMAIN old[c0] : ShapeOf[made[old[c0][i]]] # ShapeOf[made[id]]
      BY <1>2, <1>5
  <2>3. OneOfEach(Checksums, old, made, ShapeOf)
      BY <1>4, <1>5, Zenon DEF OneOfEach
  <2>4. new = [old EXCEPT ![c0] = <<id>> \o @]
      BY <1>2, <1>5
  <2>5. OneInFront(Checksums, old, new, c0, id, made, ShapeOf)
      BY <2>1, <2>2, <2>3, <2>4 DEF OneInFront
  <2>6. FrontListed(Checksums, old, new, c0, id, made, ShapeOf)
      BY <2>5, FrontOfList, Zenon
  <2> QED BY <2>6, Zenon DEF FrontListed
<1>7. registry' \in [Names -> Nat]
  <2>1. registry' = [registry EXCEPT ![made[id]] = id] /\ id \in Nat /\ made[id] \in Names
      BY <1>1
  <2>2. registry \in [Names -> Nat]
      BY <1>3
  <2> QED BY ONLY <2>1, <2>2
<1>8. /\ caller' = [caller EXCEPT ![t] =
           [pc |-> "store", site |-> caller[t].site, ptr |-> [id |-> id, epoch |-> epoch]]]
      /\ caller' \in [Callers -> CallerStates]
    BY <1>1, TakesIs
<1>9. Registers(t, id, id, epoch)
  <2>1. \A n \in Names : registry'[n] = registry[n]
           \/ (registry'[n] = id /\ n = made[id] /\ registry[n] = NoHistogram)
      BY <1>1
  <2>2. \A c \in Checksums : \A i \in DOMAIN ranges'[c] :
           ranges'[c][i] = id \/ \E j \in DOMAIN ranges[c] : ranges'[c][i] = ranges[c][j]
      BY <1>5, <1>6
  <2>3. alive'.histograms = alive.histograms /\ alive'.ranges = alive.ranges /\ rangesOf' = rangesOf
      BY <1>2
  <2>4. At(t, "register") /\ up' = up /\ epoch' = epoch /\ made' = made /\ static' = static /\ dumping' = dumping
      BY <1>1
  <2> QED BY <1>8, <2>1, <2>2, <2>3, <2>4 DEF Registers
<1>10. RecorderTypes'
  <2>1. up' = up /\ epoch' = epoch /\ made' = made /\ static' = static /\ dumping' = dumping
        /\ rangesOf' = rangesOf /\ alive' = alive /\ ranges' \in [Checksums -> Seq(Nat)]
      BY <1>1, <1>2, <1>5, <1>6
  <2> QED BY <1>7, <1>8, <2>1 DEF RecorderInv, RecorderTypes
<1>11. SiteName(t)' = SiteName(t)
    BY <1>9 DEF Registers, SiteName, RecorderInv, RecorderTypes
<1>12. Usable(id)' /\ \A h : Usable(h)' = Usable(h)
    BY <1>1, <1>2 DEF Usable
<1>13. GoodPointer([id |-> id, epoch |-> epoch], SiteName(t))'
    BY <1>1, <1>11, <1>12 DEF GoodPointer, NoHistogram
<1>14. MapsGood'
  <2>1. \A h \in Registered' : Usable(h)'
      BY <1>1, <1>12 DEF RecorderInv, MapsGood
  <2>2. id \in alive.ranges /\ "ranges" \in up /\ alive' = alive
      BY <1>1, <1>2 DEF Usable
  <2>3. \A c \in Checksums : \A i \in DOMAIN old[c] : old[c][i] \in alive.ranges
      BY <1>5, <2>2 DEF RecorderInv, MapsGood
  <2>4. ASSUME NEW c \in Checksums, NEW i \in DOMAIN new[c] PROVE new[c][i] \in alive.ranges
    <3>1. new[c][i] = id \/ \E j \in DOMAIN old[c] : new[c][i] = old[c][j]
        BY <1>6, Zenon
    <3> QED BY <2>2, <2>3, <3>1
  <2>5. \A c \in Checksums : \A i \in DOMAIN ranges'[c] : ranges'[c][i] \in alive'.ranges
      BY <1>5, <2>2, <2>4
  <2>6. up' = up /\ epoch' = epoch
      BY <1>1
  <2> QED BY <2>1, <2>5, <2>6 DEF RecorderInv, MapsGood
<1>15. ListsGood'
  <2>1. \A h : ShapeAt(h)' = ShapeAt(h)
      BY <1>1 DEF ShapeAt
  <2>2. ASSUME NEW c \in Checksums, NEW i \in DOMAIN ranges'[c], NEW j \in DOMAIN ranges'[c],
               ShapeAt(ranges[c][i])' = ShapeAt(ranges[c][j])'
        PROVE  i = j
    <3>1. ShapeOf[made[new[c][i]]] = ShapeOf[made[new[c][j]]] /\ i \in DOMAIN new[c] /\ j \in DOMAIN new[c]
        BY <1>1, <1>5, <2>2 DEF ShapeAt
    <3> QED BY <1>6, <3>1 DEF OneOfEach
  <2>3. ASSUME NEW g \in Registered \union {id}
        PROVE  /\ ShapeAt(rangesOf[g]) = ShapeAt(g)
               /\ \E i \in DOMAIN new[Crc[ShapeAt(g)]] : new[Crc[ShapeAt(g)]][i] = rangesOf[g]
    <3>1. CASE g = id
        BY <1>1, <1>6, <3>1
    <3>2. CASE g \in Registered
      <4>1. g \in Ids /\ Crc[ShapeAt(g)] \in Checksums
          BY <1>1, <3>2, Registering, ShapesKnown DEF RecorderInv
      <4>2. ShapeAt(rangesOf[g]) = ShapeAt(g)
            /\ \E i \in DOMAIN old[Crc[ShapeAt(g)]] : old[Crc[ShapeAt(g)]][i] = rangesOf[g]
          BY <1>5, <3>2 DEF RecorderInv, ListsGood, ChecksumMatching
      <4> QED BY <1>6, <4>1, <4>2
    <3> QED BY <3>1, <3>2
  <2>4. ASSUME NEW g \in Registered'
        PROVE  /\ ShapeAt(rangesOf[g])' = ShapeAt(g)'
               /\ \E i \in DOMAIN ChecksumMatching(g)' : ChecksumMatching(g)'[i] = rangesOf'[g]
    <3>1. g \in Registered \union {id}
        BY <1>1
    <3>2. ChecksumMatching(g)' = new[Crc[ShapeAt(g)]]
        BY <1>5, <2>1 DEF ChecksumMatching
    <3>3. ShapeAt(rangesOf[g])' = ShapeAt(rangesOf[g]) /\ ShapeAt(g)' = ShapeAt(g) /\ rangesOf'[g] = rangesOf[g]
        BY <1>1, <1>2 DEF ShapeAt
    <3> QED BY <2>3, <3>1, <3>2, <3>3
  <2> QED BY <2>2, <2>4 DEF ListsGood
<1> QED BY <1>1, <1>9, <1>10, <1>13, <1>14, <1>15, RegistersKnown, RegistersPrivate, RegistersPointers DEF RecorderInv

\* The ranges that an equal one in the list replaces were the maker's.
LEMMA NewSharedInv ==
    ASSUME RecorderInv, NEW t \in Callers, Register(t), "histograms" \in up,
           NEW id, id = caller[t].ptr.id, RegisterNew(t, id), DeleteDuplicateRanges(id)
    PROVE  RecorderInv'
<1> PICK c0 : c0 = Crc[ShapeAt(id)]
    OBVIOUS
<1>1. /\ At(t, "register") /\ Takes(t, id, epoch) /\ registry[made[id]] = NoHistogram
      /\ up' = up /\ epoch' = epoch /\ made' = made /\ static' = static /\ dumping' = dumping
      /\ registry' = [registry EXCEPT ![made[id]] = id]
      /\ id \in Ids /\ id \in Nat \ {0} /\ id <= Len(made) /\ Usable(id) /\ Private(t)
      /\ made[id] \in Names /\ made[id] = SiteName(t) /\ rangesOf[id] = id /\ c0 \in Checksums
      /\ epoch \in Nat /\ "ranges" \in up
      /\ Registered' \subseteq Registered \union {id}
      /\ \A n \in Names : registry'[n] = IF n = made[id] THEN id ELSE registry[n]
    BY NewFacts
<1>2. PICK first \in DOMAIN ranges[c0] :
        /\ ShapeAt(ranges[c0][first]) = ShapeAt(id)
        /\ rangesOf' = [rangesOf EXCEPT ![id] = ranges[c0][first]]
        /\ alive' = [alive EXCEPT !.ranges = @ \ {rangesOf[id]}]
        /\ ranges' = ranges
    BY DEF DeleteDuplicateRanges, SameRanges, ChecksumMatching
<1> PICK r : r = ranges[c0][first]
    OBVIOUS
<1>3. ranges \in [Checksums -> Seq(Nat)] /\ registry \in [Names -> Nat] /\ rangesOf \in Seq(Nat)
      /\ Len(rangesOf) = Len(made) /\ alive \in [histograms : SUBSET Nat, ranges : SUBSET Nat]
      /\ Ids = DOMAIN rangesOf
    BY ShapesKnown DEF RecorderInv, RecorderTypes
<1>4. r \in Nat /\ r # id /\ r \in alive.ranges /\ ShapeAt(r) = ShapeAt(id)
  <2>1. ranges[c0] \in Seq(Nat)
      BY <1>1, <1>3
  <2>2. r \in Nat
      BY <2>1
  <2>3. r # id
      BY <1>1 DEF Private
  <2>4. r \in alive.ranges
      BY <1>1 DEF RecorderInv, MapsGood
  <2> QED BY <1>2, <2>2, <2>3, <2>4
<1>5. rangesOf' \in Seq(Nat) /\ Len(rangesOf') = Len(rangesOf) /\ rangesOf'[id] = r
      /\ \A h \in Ids : h # id => rangesOf'[h] = rangesOf[h]
  <2>1. rangesOf' = [rangesOf EXCEPT ![id] = r] /\ id \in DOMAIN rangesOf
      BY <1>1, <1>2, <1>3
  <2> QED BY <1>3, <1>4, <2>1
<1>6. alive'.histograms = alive.histograms /\ alive'.ranges = alive.ranges \ {id}
      /\ alive' \in [histograms : SUBSET Nat, ranges : SUBSET Nat]
    BY <1>1, <1>2, <1>3
<1>7. registry' \in [Names -> Nat]
  <2>1. registry' = [registry EXCEPT ![made[id]] = id] /\ id \in Nat /\ made[id] \in Names
      BY <1>1
  <2>2. registry \in [Names -> Nat]
      BY <1>3
  <2> QED BY ONLY <2>1, <2>2
<1>8. /\ caller' = [caller EXCEPT ![t] =
           [pc |-> "store", site |-> caller[t].site, ptr |-> [id |-> id, epoch |-> epoch]]]
      /\ caller' \in [Callers -> CallerStates]
    BY <1>1, TakesIs
<1>9. Registers(t, id, id, epoch)
  <2>1. \A n \in Names : registry'[n] = registry[n]
           \/ (registry'[n] = id /\ n = made[id] /\ registry[n] = NoHistogram)
      BY <1>1
  <2>2. \A c \in Checksums : \A i \in DOMAIN ranges'[c] :
           ranges'[c][i] = id \/ \E j \in DOMAIN ranges[c] : ranges'[c][i] = ranges[c][j]
      BY <1>2
  <2>3. \A h \in Ids : rangesOf'[h] = rangesOf[h]
         \/ (h = id /\ \E c \in Checksums : \E j \in DOMAIN ranges[c] : rangesOf'[h] = ranges[c][j])
    <3>1. rangesOf'[id] = ranges[c0][first] /\ c0 \in Checksums /\ first \in DOMAIN ranges[c0]
        BY <1>1, <1>5
    <3>2. \A h \in Ids : h # id => rangesOf'[h] = rangesOf[h]
        BY <1>5
    <3> QED BY ONLY <3>1, <3>2
  <2>4. At(t, "register") /\ up' = up /\ epoch' = epoch /\ made' = made /\ static' = static /\ dumping' = dumping
      BY <1>1
  <2> QED BY <1>6, <1>8, <2>1, <2>2, <2>3, <2>4 DEF Registers
<1>10. RecorderTypes'
  <2>1. up' = up /\ epoch' = epoch /\ made' = made /\ static' = static /\ dumping' = dumping /\ ranges' = ranges
      BY <1>1, <1>2
  <2> QED BY <1>3, <1>5, <1>6, <1>7, <1>8, <2>1 DEF RecorderInv, RecorderTypes
<1>11. SiteName(t)' = SiteName(t)
    BY <1>9 DEF Registers, SiteName, RecorderInv, RecorderTypes
<1>12. Usable(id)'
    BY <1>1, <1>4, <1>5, <1>6 DEF Usable
<1>13. GoodPointer([id |-> id, epoch |-> epoch], SiteName(t))'
    BY <1>1, <1>11, <1>12 DEF GoodPointer, NoHistogram
<1>14. id \notin Registered /\ Registered \subseteq Ids
    BY <1>1, Registering DEF Private, Registered
<1>15. MapsGood'
  <2>1. \A h \in Registered' : Usable(h)'
      BY <1>1, <1>9, <1>12, <1>14, RegistersUsable DEF RecorderInv, MapsGood
  <2>2. \A c \in Checksums : \A i \in DOMAIN ranges[c] : ranges[c][i] \in alive.ranges /\ ranges[c][i] # id
      BY <1>1 DEF RecorderInv, MapsGood, Private
  <2>3. \A c \in Checksums : \A i \in DOMAIN ranges'[c] : ranges'[c][i] \in alive'.ranges
      BY <1>2, <1>6, <2>2
  <2>4. up' = up /\ epoch' = epoch
      BY <1>1
  <2> QED BY <2>1, <2>3, <2>4 DEF RecorderInv, MapsGood
<1>16. ListsGood'
  <2>1. \A h : ShapeAt(h)' = ShapeAt(h)
      BY <1>1 DEF ShapeAt
  <2>2. ASSUME NEW c \in Checksums, NEW i \in DOMAIN ranges'[c], NEW j \in DOMAIN ranges'[c],
               ShapeAt(ranges[c][i])' = ShapeAt(ranges[c][j])'
        PROVE  i = j
    <3>1. ShapeAt(ranges[c][i]) = ShapeAt(ranges[c][j]) /\ i \in DOMAIN ranges[c] /\ j \in DOMAIN ranges[c]
        BY <1>1, <1>2, <2>2 DEF ShapeAt
    <3> QED BY <3>1 DEF RecorderInv, ListsGood
  <2>3. ASSUME NEW g \in Registered'
        PROVE  /\ ShapeAt(rangesOf[g])' = ShapeAt(g)'
               /\ \E i \in DOMAIN ChecksumMatching(g)' : ChecksumMatching(g)'[i] = rangesOf'[g]
    <3>1. ChecksumMatching(g)' = ChecksumMatching(g) /\ ShapeAt(g)' = ShapeAt(g)
        BY <1>2, <2>1 DEF ChecksumMatching
    <3>2. CASE g = id
      <4>1. ShapeAt(rangesOf[g])' = ShapeAt(r)
          BY <1>1, <1>5, <3>2 DEF ShapeAt
      <4>2. first \in DOMAIN ChecksumMatching(g) /\ ChecksumMatching(g)[first] = rangesOf'[g]
          BY <1>5, <3>2 DEF ChecksumMatching
      <4> QED BY <1>4, <3>1, <3>2, <4>1, <4>2
    <3>3. CASE g # id
      <4>1. g \in Registered /\ rangesOf'[g] = rangesOf[g]
          BY <1>1, <1>5, <1>14, <3>3
      <4>2. ShapeAt(rangesOf[g]) = ShapeAt(g)
            /\ \E i \in DOMAIN ChecksumMatching(g) : ChecksumMatching(g)[i] = rangesOf[g]
          BY <4>1 DEF RecorderInv, ListsGood
      <4>3. ShapeAt(rangesOf[g])' = ShapeAt(rangesOf[g])
          BY <1>1, <4>1 DEF ShapeAt
      <4> QED BY <3>1, <4>1, <4>2, <4>3
    <3> QED BY <3>2, <3>3
  <2> QED BY <2>2, <2>3 DEF ListsGood
<1> QED BY <1>1, <1>9, <1>10, <1>13, <1>15, <1>16, RegistersKnown, RegistersPrivate, RegistersPointers DEF RecorderInv

----------------------------------------------------------------------------

\* Every step of the recorder and of its callers keeps the invariant.
LEMMA NextRecorderInv ==
    ASSUME RecorderInv, [RecorderNext]_recorderVars
    PROVE  RecorderInv'
<1>1. CASE StartRecorder
    BY <1>1, StartInv
<1>2. CASE StopHistograms \/ StopRanges
    BY <1>2, StopInv
<1>3. ASSUME NEW t \in Callers, CallerStep(t) PROVE RecorderInv'
  <2>1. CASE \E s \in Sites : EnterMacro(t, s)
      BY <2>1, EnterInv
  <2>2. CASE Find(t)
      BY <2>2, FindInv
  <2>3. CASE Construct(t)
      BY <2>3, ConstructInv
  <2>4. CASE Register(t)
    <3>1. CASE "histograms" \notin up
        BY <2>4, <3>1, RegisterAloneInv
    <3>2. CASE "histograms" \in up
      <4> PICK id : id = caller[t].ptr.id
          OBVIOUS
      <4>1. RegisterNew(t, id) \/ DeleteDuplicate(t, id)
          BY <2>4, <3>2 DEF Register
      <4>2. CASE DeleteDuplicate(t, id)
          BY <2>4, <3>2, <4>2, DuplicateInv
      <4>3. CASE RegisterNew(t, id)
        <5>1. RegisterRanges(id) \/ DeleteDuplicateRanges(id)
            BY <4>3 DEF RegisterNew
        <5> QED BY <2>4, <3>2, <4>3, <5>1, NewListedInv, NewSharedInv
      <4> QED BY <4>1, <4>2, <4>3
    <3> QED BY <3>1, <3>2
  <2>5. CASE Store(t)
      BY <2>5, StoreInv
  <2>6. CASE AddSample(t) \/ (WriteOne(t) /\ dumping[t] = {})
      BY <2>6, IdleInv
  <2>7. CASE IsActive(t) \/ GetSnapshot(t) \/ (WriteOne(t) /\ dumping[t] # {})
      BY <2>7, DumpInv
  <2> QED BY <1>3, <2>1, <2>2, <2>3, <2>4, <2>5, <2>6, <2>7 DEF CallerStep
<1>4. CASE UNCHANGED recorderVars
  <2>1. /\ registry' = registry /\ ranges' = ranges /\ up' = up /\ epoch' = epoch
        /\ made' = made /\ rangesOf' = rangesOf /\ alive' = alive
        /\ static' = static /\ caller' = caller /\ dumping' = dumping
      BY <1>4 DEF recorderVars, mapVars, heapVars, callVars
  <2>2. Ids' = Ids /\ Registered' = Registered
      BY <2>1 DEF Ids, Registered
  <2>3. RecorderTypes' /\ Known'
      BY <2>1, <2>2 DEF RecorderInv, RecorderTypes, Known
  <2>4. PointersGood' /\ MapsGood'
      BY <2>1, <2>2 DEF RecorderInv, PointersGood, MapsGood, GoodPointer, Usable, SiteName
  <2>5. PrivateUntilRegistered' /\ ListsGood'
      BY <2>1, <2>2 DEF RecorderInv, PrivateUntilRegistered, Private, ListsGood, At, SiteName,
                        ShapeAt, ChecksumMatching
  <2> QED BY <2>3, <2>4, <2>5 DEF RecorderInv
<1> QED BY <1>1, <1>2, <1>3, <1>4 DEF RecorderNext

\* The inductive invariant holds in every reachable state, with any number of
\* threads inside the macro, Register*() and the dumps at once.
THEOREM RecorderInductive == RecorderSpec => []RecorderInv
<1> QED BY InitRecorderInv, NextRecorderInv, PTL DEF RecorderSpec

\* No pointer that a thread, a site, a dump or a live map holds is to a deleted
\* histogram, nor to one whose CachedRanges were deleted (histogram.cc:944-994).
THEOREM DanglingNever == RecorderSpec => []NothingDangles
<1>1. RecorderInv => NothingDangles
  <2> SUFFICES ASSUME RecorderInv PROVE NothingDangles
      OBVIOUS
  <2>1. ASSUME NEW id \in Held \ {NoHistogram} PROVE Usable(id)
    <3>1. CASE \E t \in Callers : id = caller[t].ptr.id
        BY <3>1 DEF RecorderInv, PointersGood, GoodPointer
    <3>2. CASE \E s \in Sites : id = static[s].id
        BY <3>2 DEF RecorderInv, PointersGood, GoodPointer
    <3>3. CASE \E t \in Callers : id \in dumping[t]
        BY <3>3 DEF RecorderInv, PointersGood
    <3>4. CASE "histograms" \in up /\ id \in Registered
        BY <3>4 DEF RecorderInv, MapsGood
    <3>5. \/ id \in {caller[t].ptr.id : t \in Callers}
          \/ id \in {static[s].id : s \in Sites}
          \/ id \in UNION {dumping[t] : t \in Callers}
          \/ id \in (IF "histograms" \in up THEN Registered ELSE {})
        BY DEF Held
    <3>6. id \in UNION {dumping[t] : t \in Callers} => \E t \in Callers : id \in dumping[t]
        BY Zenon
    <3> QED BY <3>1, <3>2, <3>3, <3>4, <3>5, <3>6
  <2>2. DOMAIN ranges = Checksums /\ up \in {{}, {"ranges"}, {"histograms", "ranges"}}
      BY DEF RecorderInv, RecorderTypes
  <2> QED BY <2>1, <2>2 DEF NothingDangles, RecorderInv, MapsGood, Usable
<1> QED BY <1>1, RecorderInductive, PTL

\* Whatever the interleaving of the threads that race for a name, what the
\* macro keeps for a live recorder is the registered histogram of the name, and
\* registered histograms of equal ranges share the one listed object
\* (histogram.hh:668 and histogram.hh:674).
THEOREM RegisteredAlways == RecorderSpec => []RegisteredReturned
<1>1. RecorderInv => RegisteredReturned
  <2> SUFFICES ASSUME RecorderInv PROVE RegisteredReturned
      OBVIOUS
  <2>1. PointersRegistered
      BY DEF RecorderInv, PointersGood, GoodPointer, PointersRegistered
  <2>2. RangesShared
    <3> SUFFICES ASSUME "histograms" \in up PROVE RangesShared
        BY DEF RangesShared
    <3>1. \A g \in Registered : g \in Ids /\ Crc[ShapeAt(g)] \in Checksums
      <4>1. \A n \in Names : registry[n] \in Nat /\ registry[n] <= Len(made)
          BY DEF RecorderInv, RecorderTypes, Known
      <4>2. Len(made) \in Nat
          BY DEF RecorderInv, RecorderTypes
      <4>3. \A g \in Registered : g \in Nat /\ g # 0 /\ g <= Len(made)
          BY <4>1 DEF Registered, NoHistogram
      <4>4. Ids = 1..Len(made)
          BY ShapesKnown DEF RecorderInv
      <4>5. \A g \in Registered : g \in Ids
          BY <4>2, <4>3, <4>4
      <4> QED BY <4>5, ShapesKnown DEF RecorderInv
    <3>2. \A g \in Registered :
            /\ ShapeAt(rangesOf[g]) = ShapeAt(g)
            /\ \E i \in DOMAIN ChecksumMatching(g) : ChecksumMatching(g)[i] = rangesOf[g]
        BY DEF RecorderInv, ListsGood
    <3>3. \A g \in Registered : \A i, j \in DOMAIN ChecksumMatching(g) :
             ShapeAt(ChecksumMatching(g)[i]) = ShapeAt(ChecksumMatching(g)[j]) => i = j
        BY <3>1 DEF RecorderInv, ListsGood, ChecksumMatching
    <3>4. ASSUME NEW g \in Registered, NEW h \in Registered, ShapeAt(g) = ShapeAt(h)
          PROVE  rangesOf[g] = rangesOf[h]
      <4>1. ChecksumMatching(g) = ChecksumMatching(h)
          BY <3>4 DEF ChecksumMatching
      <4>2. PICK i \in DOMAIN ChecksumMatching(g) : ChecksumMatching(g)[i] = rangesOf[g]
          BY <3>2
      <4>3. PICK j \in DOMAIN ChecksumMatching(g) : ChecksumMatching(g)[j] = rangesOf[h]
          BY <3>2, <4>1
      <4>4. ShapeAt(rangesOf[g]) = ShapeAt(rangesOf[h])
          BY <3>2, <3>4
      <4>5. i = j
          BY <3>3, <4>2, <4>3, <4>4
      <4> QED BY <4>2, <4>3, <4>5
    <3>5. ASSUME NEW g \in Registered
          PROVE  Cardinality({i \in DOMAIN ChecksumMatching(g) : ChecksumMatching(g)[i] = rangesOf[g]}) = 1
      <4>1. PICK k \in DOMAIN ChecksumMatching(g) : ChecksumMatching(g)[k] = rangesOf[g]
          BY <3>2
      <4>2. {i \in DOMAIN ChecksumMatching(g) : ChecksumMatching(g)[i] = rangesOf[g]} = {k}
          BY <3>3, <4>1
      <4> QED BY <4>2, FS_Singleton
    <3> QED BY <3>2, <3>4, <3>5 DEF RangesShared
  <2> QED BY <2>1, <2>2 DEF RegisteredReturned
<1> QED BY <1>1, RecorderInductive, PTL

----------------------------------------------------------------------------
(* The table of counters.                                                   *)

Phases == {"idle", "cached", "row", "cache", "slot", "locate", "store", "sum"}
UserStates == [pc : Phases, op : {"add", "read"}, name : Counters \union {Free},
               id : 0..MaxCounters, loc : Nat, sum : Nat, low : Nat]

StatsTypes ==
    /\ thread_name \in [Slots -> Users \union {Free}]
    /\ counter_name \in [Rows -> Counters \union {Free}]
    /\ data \in [Cells -> Nat]
    /\ counters \in [Processes -> [Counters -> 0..MaxCounters]]
    /\ slot \in [Users -> 0..MaxThreads]
    /\ user \in [Users -> UserStates]
    /\ added \in [Counters -> Nat]

\* A thread with a column is the one whose name is in it.
ColumnsOwned == \A t \in Users : slot[t] # 0 => thread_name[slot[t]] = t

\* A name has one row, which is the one that processes cached for it.
RowsNamed ==
    /\ \A r, q \in Rows : counter_name[r] # Free /\ counter_name[r] = counter_name[q] => r = q
    /\ \A p \in Processes, c \in Counters : counters[p][c] # 0 => counter_name[counters[p][c]] = c

\* Where a thread is with its counter; what it is about to store is one more
\* than what is there.
UserGood(t) ==
    /\ IF AtStat(t, "idle") THEN user[t].id = 0 ELSE user[t].name \in Counters
    /\ user[t].id # 0 => counter_name[user[t].id] = user[t].name
    /\ AtStat(t, "cache") => user[t].id # 0
    /\ AtStat(t, "sum") => user[t].op = "read"
    /\ user[t].op = "read" => user[t].pc \in {"cached", "row", "cache", "sum"}
    /\ AtStat(t, "locate") => slot[t] # 0
    /\ AtStat(t, "store") =>
         /\ user[t].id # 0 /\ slot[t] # 0 /\ user[t].loc = GetLocation(user[t].id, slot[t])
         /\ user[t].sum = data[user[t].loc]
UsersGood == \A t \in Users : UserGood(t)

\* An unused row is empty.
RowsFresh == \A r \in Rows, s \in Slots : counter_name[r] = Free => data[GetLocation(r, s)] = 0

\* The sums along row r of a grid.
SumsOf(grid, r) == SumUpTo([s \in Slots |-> grid[GetLocation(r, s)]])

\* How far a reader is along its row, and what it has seen of it.
ReaderGood(t) ==
    LET u == user[t]
        seen == SumsOf(data, u.id)
    IN  /\ u.low <= added[u.name]
        /\ ~AtStat(t, "sum") \/ u.id = 0 => u.loc = 0 /\ u.sum = 0
        /\ AtStat(t, "sum") /\ u.id # 0 =>
             /\ u.loc <= MaxThreads /\ u.sum <= seen[u.loc]
             /\ u.low + seen[u.loc] <= u.sum + seen[MaxThreads]
ReadersGood == \A t \in Users : user[t].op = "read" => ReaderGood(t)

StatsInv ==
    /\ StatsTypes /\ ColumnsOwned /\ RowsNamed /\ UsersGood /\ RowsFresh /\ TotalsKept /\ ReadersGood

----------------------------------------------------------------------------
(* Least elements: what the scans for a free row or column return.          *)

\* The least element of a set of naturals is in it.
LEMMA MinNat ==
    ASSUME NEW S, S \subseteq Nat, S # {}
    PROVE  Min(S) \in S
<1>1. \E x \in S : \A y \in S : x <= y
    BY LeastNat
<1> QED BY <1>1 DEF Min


----------------------------------------------------------------------------
(* Sums along a row.                                                        *)

\* The sums up to n that the recursion asks for.
SumsTo(n, row) == {g \in [0..n -> Nat] : g[0] = 0 /\ \A s \in 1..n : g[s] = g[s - 1] + row[s]}

\* The running sums of a row exist: no shortest row is without them.
LEMMA SumsExist ==
    ASSUME NEW row \in [Slots -> Nat]
    PROVE  SumsTo(MaxThreads, row) # {}
<1> DEFINE Good == {n \in 0..MaxThreads : SumsTo(n, row) # {}}
<1>1. MaxThreads \in Nat
    BY StatsAssumption
<1>2. 0 \in Good
  <2>1. [s \in 0..0 |-> 0] \in SumsTo(0, row)
      BY DEF SumsTo
  <2> QED BY <1>1, <2>1
<1>3. ASSUME NEW n \in 1..MaxThreads, n - 1 \in Good PROVE n \in Good
  <2>1. PICK g : g \in SumsTo(n - 1, row)
      BY <1>3
  <2> DEFINE h == [s \in 0..n |-> IF s = n THEN g[n - 1] + row[n] ELSE g[s]]
  <2>2. n \in Slots /\ row[n] \in Nat /\ g \in [0..(n - 1) -> Nat] /\ g[0] = 0
        /\ \A s \in 1..(n - 1) : g[s] = g[s - 1] + row[s]
      BY <1>1, <2>1 DEF SumsTo, Slots
  <2>3. h \in [0..n -> Nat] /\ h[0] = 0
      BY <1>1, <2>2
  <2>4. ASSUME NEW s \in 1..n PROVE h[s] = h[s - 1] + row[s]
    <3>1. CASE s = n
        BY <1>1, <2>2, <3>1
    <3>2. CASE s # n
        BY <1>1, <2>2, <3>2
    <3> QED BY <3>1, <3>2
  <2>5. h \in SumsTo(n, row)
      BY <2>3, <2>4 DEF SumsTo
  <2> QED BY <1>1, <2>5
<1>4. 0..MaxThreads \subseteq Good
  <2> HIDE DEF Good
  <2> QED BY <1>1, <1>2, <1>3, UpTo
<1> QED BY <1>1, <1>4

\* The recursive definition is what it asks for.
LEMMA SumsAre ==
    ASSUME NEW row \in [Slots -> Nat]
    PROVE  SumUpTo(row) \in SumsTo(MaxThreads, row)
<1> DEFINE Rec(f) == [s \in 0..MaxThreads |-> IF s = 0 THEN 0 ELSE f[s - 1] + row[s]]
<1>1. PICK g : g \in SumsTo(MaxThreads, row)
    BY SumsExist
<1>2. g = Rec(g)
    BY <1>1, StatsAssumption DEF SumsTo
<1>3. SumUpTo(row) = CHOOSE f : f = Rec(f)
    BY DEF SumUpTo
<1>4. SumUpTo(row) = Rec(SumUpTo(row))
  <2> HIDE DEF Rec
  <2> QED BY <1>2, <1>3
<1> PICK f : f = SumUpTo(row)
    OBVIOUS
<1>5. f = Rec(f) /\ MaxThreads \in Nat
    BY <1>4, StatsAssumption
<1> DEFINE Good == {s \in 0..MaxThreads : f[s] = g[s]}
<1>6. 0..MaxThreads \subseteq Good
  <2>1. 0 \in Good
      BY <1>2, <1>5
  <2>2. ASSUME NEW s \in 1..MaxThreads, s - 1 \in Good PROVE s \in Good
    <3>1. f[s] = f[s - 1] + row[s] /\ g[s] = g[s - 1] + row[s]
        BY <1>2, <1>5
    <3> QED BY <1>5, <2>2, <3>1
  <2> HIDE DEF Good
  <2> QED BY <1>5, <2>1, <2>2, UpTo
<1>7. f = g
  <2>1. \A s \in 0..MaxThreads : f[s] = g[s]
      BY <1>6
  <2> QED BY <1>2, <1>5, <2>1
<1> QED BY <1>1, <1>7

\* Each running sum adds one cell to the one before.
LEMMA SumsStep ==
    ASSUME NEW row \in [Slots -> Nat]
    PROVE  /\ \A s \in 0..MaxThreads : SumUpTo(row)[s] \in Nat
           /\ SumUpTo(row)[0] = 0
           /\ \A s \in 1..MaxThreads : SumUpTo(row)[s] = SumUpTo(row)[s - 1] + row[s]
BY SumsAre DEF SumsTo

\* A row of zeros sums to zero.
LEMMA SumsZero ==
    ASSUME NEW row \in [Slots -> Nat], \A s \in Slots : row[s] = 0
    PROVE  \A s \in 0..MaxThreads : SumUpTo(row)[s] = 0
<1> DEFINE Good == {s \in 0..MaxThreads : SumUpTo(row)[s] = 0}
<1>1. MaxThreads \in Nat /\ 0 \in Good
    BY SumsStep, StatsAssumption
<1>2. ASSUME NEW s \in 1..MaxThreads, s - 1 \in Good PROVE s \in Good
  <2>1. SumUpTo(row)[s] = SumUpTo(row)[s - 1] + row[s]
      BY SumsStep
  <2> QED BY <1>1, <1>2, <2>1 DEF Slots
<1>3. 0..MaxThreads \subseteq Good
  <2> HIDE DEF Good
  <2> QED BY <1>1, <1>2, UpTo
<1> QED BY <1>3

\* One more in column k is one more in the sums from k on.
LEMMA SumsBump ==
    ASSUME NEW row \in [Slots -> Nat], NEW new \in [Slots -> Nat], NEW k \in Slots,
           \A s \in Slots : new[s] = IF s = k THEN row[s] + 1 ELSE row[s]
    PROVE  \A s \in 0..MaxThreads :
              SumUpTo(new)[s] = IF k <= s THEN SumUpTo(row)[s] + 1 ELSE SumUpTo(row)[s]
<1> PICK f, g : f = SumUpTo(row) /\ g = SumUpTo(new)
    OBVIOUS
<1> DEFINE Good == {s \in 0..MaxThreads : g[s] = IF k <= s THEN f[s] + 1 ELSE f[s]}
<1>1. MaxThreads \in Nat /\ k \in 1..MaxThreads /\ f[0] = 0 /\ g[0] = 0
    BY SumsStep, StatsAssumption DEF Slots
<1>2. ASSUME NEW s \in 1..MaxThreads, s - 1 \in Good PROVE s \in Good
  <2>1. f[s] = f[s - 1] + row[s] /\ g[s] = g[s - 1] + new[s] /\ f[s - 1] \in Nat /\ row[s] \in Nat
    <3>1. s - 1 \in 0..MaxThreads /\ s \in Slots
        BY <1>1 DEF Slots
    <3>2. (\A n \in 0..MaxThreads : f[n] \in Nat) /\ \A n \in 1..MaxThreads : f[n] = f[n - 1] + row[n]
        BY SumsStep
    <3>3. \A n \in 1..MaxThreads : g[n] = g[n - 1] + new[n]
        BY SumsStep
    <3> QED BY <3>1, <3>2, <3>3
  <2>2. new[s] = IF s = k THEN row[s] + 1 ELSE row[s]
      BY DEF Slots
  <2>3. g[s - 1] = IF k <= s - 1 THEN f[s - 1] + 1 ELSE f[s - 1]
      BY <1>2
  <2>4. g[s] = IF k <= s THEN f[s] + 1 ELSE f[s]
      BY <1>1, <2>1, <2>2, <2>3
  <2> QED BY <1>1, <2>4
<1>3. 0..MaxThreads \subseteq Good
  <2>1. 0 \in Good
      BY <1>1
  <2> HIDE DEF Good
  <2> QED BY <1>1, <1>2, <2>1, UpTo
<1> QED BY <1>3

\* A sum never exceeds the whole.
LEMMA SumsGrow ==
    ASSUME NEW row \in [Slots -> Nat], NEW s \in 0..MaxThreads
    PROVE  SumUpTo(row)[s] <= SumUpTo(row)[MaxThreads]
<1> PICK f : f = SumUpTo(row)
    OBVIOUS
<1> DEFINE Good == {d \in 0..MaxThreads : f[MaxThreads - d] <= f[MaxThreads]}
<1>1. MaxThreads \in Nat /\ \A k \in 0..MaxThreads : f[k] \in Nat
    BY SumsStep, StatsAssumption
<1>2. ASSUME NEW d \in 1..MaxThreads, d - 1 \in Good PROVE d \in Good
  <2>1. MaxThreads - (d - 1) \in 1..MaxThreads /\ (MaxThreads - (d - 1)) - 1 = MaxThreads - d
      BY <1>1
  <2> PICK k : k = MaxThreads - (d - 1)
      OBVIOUS
  <2>2. \A n \in 1..MaxThreads : f[n] = f[n - 1] + row[n]
      BY SumsStep
  <2>3. f[k] = f[k - 1] + row[k] /\ row[k] \in Nat /\ f[k - 1] \in Nat /\ f[k] \in Nat
      BY <1>1, <2>1, <2>2 DEF Slots
  <2>4. f[k] <= f[MaxThreads] /\ f[MaxThreads] \in Nat
      BY <1>1, <1>2
  <2>5. f[k - 1] <= f[MaxThreads]
      BY <2>3, <2>4
  <2> QED BY <1>1, <2>1, <2>5
<1>3. 0..MaxThreads \subseteq Good
  <2>1. 0 \in Good
      BY <1>1
  <2> HIDE DEF Good
  <2> QED BY <1>1, <1>2, <2>1, UpTo
<1>4. MaxThreads - s \in Good /\ MaxThreads - (MaxThreads - s) = s
    BY <1>1, <1>3
<1> QED BY <1>4

----------------------------------------------------------------------------
(* GetLocation(): a cell for each row and column.                           *)

\* Two rows do not overlap in the table.
LEMMA RowsApart ==
    ASSUME NEW i \in Nat, NEW j \in Nat, i < j
    PROVE  i * MaxThreads + MaxThreads <= j * MaxThreads
<1>1. MaxThreads \in Nat
    BY StatsAssumption
<1>2. PICK d \in Nat : j = i + 1 + d
  <2>1. j - (i + 1) \in Nat /\ j = i + 1 + (j - (i + 1))
      OBVIOUS
  <2> QED BY <2>1
<1>3. (i + 1 + d) * MaxThreads = i * MaxThreads + MaxThreads + d * MaxThreads
    BY <1>1
<1>4. d * MaxThreads \in Nat /\ i * MaxThreads \in Nat
    BY <1>1
<1> QED BY <1>1, <1>2, <1>3, <1>4

\* Every location is in the table.
LEMMA LocationIsCell ==
    ASSUME NEW r \in Rows, NEW s \in Slots
    PROVE  GetLocation(r, s) \in Cells
<1>1. MaxThreads \in Nat /\ MaxCounters \in Nat /\ r \in 1..MaxCounters /\ s \in 1..MaxThreads
    BY StatsAssumption DEF Rows, Slots
<1>2. (r - 1) * MaxThreads + MaxThreads <= MaxCounters * MaxThreads
    BY <1>1, RowsApart
<1>3. (r - 1) * MaxThreads \in Nat /\ MaxCounters * MaxThreads = MaxThreads * MaxCounters
      /\ MaxThreads * MaxCounters \in Nat
    BY <1>1
<1> QED BY <1>1, <1>2, <1>3 DEF GetLocation, Cells

\* No two rows or columns share a cell.
LEMMA LocationsApart ==
    ASSUME NEW r \in Rows, NEW q \in Rows, NEW s \in Slots, NEW k \in Slots,
           GetLocation(r, s) = GetLocation(q, k)
    PROVE  r = q /\ s = k
<1>1. MaxThreads \in Nat /\ r \in 1..MaxCounters /\ q \in 1..MaxCounters /\ MaxCounters \in Nat
      /\ s \in 1..MaxThreads /\ k \in 1..MaxThreads
    BY StatsAssumption DEF Rows, Slots
<1> DEFINE a == (r - 1) * MaxThreads
           b == (q - 1) * MaxThreads
<1>2. a \in Nat /\ b \in Nat /\ a + (s - 1) = b + (k - 1)
    BY <1>1 DEF GetLocation
<1>3. r - 1 < q - 1 => a + MaxThreads <= b
    BY <1>1, RowsApart
<1>4. q - 1 < r - 1 => b + MaxThreads <= a
    BY <1>1, RowsApart
<1>5. r = q => a = b
    OBVIOUS
<1> HIDE DEF a, b
<1>6. ~(r < q) /\ ~(q < r)
    BY <1>1, <1>2, <1>3, <1>4
<1>7. r = q
    BY <1>1, <1>6
<1> QED BY <1>1, <1>2, <1>5, <1>7

----------------------------------------------------------------------------
(* The steps that write no counter and name no row.                         *)

\* The table is empty and every thread at rest.
LEMMA InitStatsInv == StatsInit => StatsInv
<1> SUFFICES ASSUME StatsInit PROVE StatsInv
    OBVIOUS
<1>1. StatsTypes
    BY StatsAssumption DEF StatsInit, StatsTypes, UserStates, Phases, Resting, NotCached
<1>2. ColumnsOwned /\ RowsNamed
    BY StatsAssumption DEF StatsInit, ColumnsOwned, RowsNamed, NotCached
<1>3. UsersGood /\ ReadersGood
    BY DEF StatsInit, UsersGood, UserGood, ReadersGood, AtStat, Resting
<1>4. RowsFresh
    BY LocationIsCell DEF StatsInit, RowsFresh
<1>5. TotalsKept
    BY DEF StatsInit, TotalsKept
<1> QED BY <1>1, <1>2, <1>3, <1>4, <1>5 DEF StatsInv

\* Only t, its column and the caches change.
Moves(t) ==
    /\ counter_name' = counter_name /\ data' = data /\ added' = added
    /\ \A u \in Users : u # t => user'[u] = user[u] /\ slot'[u] = slot[u]
    /\ StatsTypes' /\ ColumnsOwned' /\ RowsNamed'
    /\ UserGood(t)' /\ (user'[t].op = "read" => ReaderGood(t)')

\* A step that only moves its thread keeps what the others rely on.
LEMMA MovesInv ==
    ASSUME StatsInv, NEW t \in Users, Moves(t)
    PROVE  StatsInv'
<1>1. counter_name' = counter_name /\ data' = data /\ added' = added
      /\ \A u \in Users : u # t => user'[u] = user[u] /\ slot'[u] = slot[u]
    BY DEF Moves
<1>2. RowsFresh' /\ TotalsKept'
    BY <1>1 DEF StatsInv, RowsFresh, TotalsKept, RowTotal, Row
<1>3. ASSUME NEW u \in Users PROVE UserGood(u)'
  <2>1. CASE u = t
      BY <2>1 DEF Moves
  <2>2. CASE u # t
      BY <1>1, <2>2 DEF StatsInv, UsersGood, UserGood, AtStat
  <2> QED BY <2>1, <2>2
<1>4. ASSUME NEW u \in Users, user'[u].op = "read" PROVE ReaderGood(u)'
  <2>1. CASE u = t
      BY <1>4, <2>1 DEF Moves
  <2>2. CASE u # t
      BY <1>1, <1>4, <2>2 DEF StatsInv, ReadersGood, ReaderGood, AtStat, Row
  <2> QED BY <2>1, <2>2
<1> QED BY <1>2, <1>3, <1>4 DEF StatsInv, Moves, UsersGood, ReadersGood

\* A use begins.
LEMMA BeginInv ==
    ASSUME StatsInv, NEW t \in Users, NEW op \in {"add", "read"}, NEW c \in Counters, BeginUse(t, op, c)
    PROVE  StatsInv'
<1> DEFINE x == [pc |-> "cached", op |-> op, name |-> c, id |-> 0, loc |-> 0, sum |-> 0, low |-> added[c]]
<1>1. /\ user' = [user EXCEPT ![t] = x]
      /\ thread_name' = thread_name /\ counter_name' = counter_name /\ data' = data
      /\ counters' = counters /\ slot' = slot /\ added' = added
    BY DEF BeginUse, Resting, sharedVars, processVars
<1>2. StatsTypes /\ x \in UserStates
    BY StatsAssumption DEF StatsInv, StatsTypes, UserStates, Phases
<1>3. user'[t] = x /\ \A u \in Users : u # t => user'[u] = user[u]
    BY <1>1, <1>2 DEF StatsTypes
<1>4. StatsTypes'
    BY <1>1, <1>2 DEF StatsTypes
<1>5. ColumnsOwned' /\ RowsNamed'
    BY <1>1 DEF StatsInv, ColumnsOwned, RowsNamed
<1>6. UserGood(t)'
    BY <1>3 DEF UserGood, AtStat
<1>7. ReaderGood(t)'
    BY <1>1, <1>2, <1>3 DEF ReaderGood, AtStat, StatsTypes
<1> QED BY <1>1, <1>3, <1>4, <1>5, <1>6, <1>7, MovesInv DEF Moves

\* A thread that is done.
LEMMA RestingGood ==
    ASSUME StatsInv, NEW t \in Users, Leave(t)
    PROVE  /\ user' \in [Users -> UserStates] /\ \A u \in Users : u # t => user'[u] = user[u]
           /\ UserGood(t)' /\ user'[t].op # "read"
<1>1. user' = [user EXCEPT ![t] = Resting] /\ user \in [Users -> UserStates]
    BY DEF Leave, StatsInv, StatsTypes
<1>2. Resting \in UserStates
    BY StatsAssumption DEF Resting, UserStates, Phases
<1>3. user'[t] = Resting
    BY <1>1
<1> QED BY <1>1, <1>2, <1>3 DEF UserGood, AtStat, Resting

\* A thread that goes on with its counter.
LEMMA GoesOn ==
    ASSUME StatsTypes, NEW t \in Users, NEW x, user' = [user EXCEPT ![t] = x],
           x \in UserStates
    PROVE  /\ user' \in [Users -> UserStates] /\ user'[t] = x
           /\ \A u \in Users : u # t => user'[u] = user[u]
BY DEF StatsTypes

\* The sums along a row of the table, from its first column on.
LEMMA RowSums ==
    ASSUME NEW grid \in [Cells -> Nat], NEW r \in Rows
    PROVE  /\ SumsOf(grid, r)[0] = 0
           /\ \A s \in 0..MaxThreads : SumsOf(grid, r)[s] \in Nat
           /\ \A s \in 0..MaxThreads : SumsOf(grid, r)[s] <= SumsOf(grid, r)[MaxThreads]
           /\ \A s \in 1..MaxThreads :
                SumsOf(grid, r)[s] = SumsOf(grid, r)[s - 1] + grid[GetLocation(r, s)]
<1> DEFINE row == [s \in Slots |-> grid[GetLocation(r, s)]]
<1>1. row \in [Slots -> Nat]
    BY LocationIsCell
<1>2. SumsOf(grid, r) = SumUpTo(row)
    BY DEF SumsOf
<1>3. \A s \in 1..MaxThreads : row[s] = grid[GetLocation(r, s)]
    BY DEF Slots
<1> HIDE DEF row
<1>4. /\ \A s \in 0..MaxThreads : SumUpTo(row)[s] \in Nat
      /\ SumUpTo(row)[0] = 0
      /\ \A s \in 1..MaxThreads : SumUpTo(row)[s] = SumUpTo(row)[s - 1] + row[s]
    BY <1>1, SumsStep
<1>5. \A s \in 0..MaxThreads : SumUpTo(row)[s] <= SumUpTo(row)[MaxThreads]
    BY <1>1, SumsGrow
<1> QED BY <1>2, <1>3, <1>4, <1>5

\* A reader that has its row and has read nothing of it.
LEMMA ReaderStarts ==
    ASSUME StatsInv, NEW t \in Users, counter_name' = counter_name, data' = data, added' = added,
           user'[t].low <= added[user[t].name], user[t].name \in Counters,
           user'[t].loc = 0, user'[t].sum = 0, user'[t].name = user[t].name, user'[t].low \in Nat,
           user'[t].id \in 0..MaxCounters,
           user'[t].id # 0 => counter_name[user'[t].id] = user[t].name
    PROVE  ReaderGood(t)'
<1> PICK id : id = user'[t].id
    OBVIOUS
<1>1. ASSUME id # 0
      PROVE  SumsOf(data, id)[0] = 0 /\ SumsOf(data, id)[MaxThreads] = added[user[t].name]
  <2>1. id \in Rows /\ counter_name[id] = user[t].name /\ user[t].name # Free /\ data \in [Cells -> Nat]
      BY <1>1, StatsAssumption DEF Rows, StatsInv, StatsTypes
  <2>2. RowTotal(id) = added[user[t].name]
      BY <2>1 DEF StatsInv, TotalsKept
  <2>3. RowTotal(id) = SumsOf(data, id)[MaxThreads]
      BY DEF RowTotal, Row, SumsOf
  <2> QED BY <2>1, <2>2, <2>3, RowSums
<1>2. added[user[t].name] \in Nat /\ MaxThreads \in Nat
    BY StatsAssumption DEF StatsInv, StatsTypes
<1> QED BY <1>1, <1>2 DEF ReaderGood

\* A cached row number is the counter's.
LEMMA FindCounterInv ==
    ASSUME StatsInv, NEW t \in Users, FindCounter(t)
    PROVE  StatsInv'
<1> DEFINE place == IF Cached(t) # 0 THEN Found(user[t].op) ELSE "row"
           x == [user[t] EXCEPT !.pc = place, !.id = Cached(t)]
<1>1. /\ AtStat(t, "cached") /\ user' = [user EXCEPT ![t] = x]
      /\ thread_name' = thread_name /\ counter_name' = counter_name /\ data' = data
      /\ counters' = counters /\ slot' = slot /\ added' = added
    BY DEF FindCounter, sharedVars, processVars
<1>2. StatsTypes /\ user[t] \in UserStates /\ user[t].name \in Counters /\ ProcessOf[t] \in Processes
      /\ UserGood(t)
    BY <1>1, StatsAssumption DEF StatsInv, StatsTypes, UsersGood, UserGood, AtStat
<1>3. Cached(t) \in 0..MaxCounters
    BY <1>2 DEF StatsTypes, Cached
<1>4. place \in Phases
    BY DEF Found, Phases
<1>5. /\ x \in UserStates /\ x.pc = place /\ x.id = Cached(t) /\ x.op = user[t].op /\ x.name = user[t].name
      /\ x.loc = user[t].loc /\ x.sum = user[t].sum /\ x.low = user[t].low
  <2> HIDE DEF place
  <2> QED BY <1>2, <1>3, <1>4 DEF UserStates
<1> HIDE DEF x
<1>6. /\ user' \in [Users -> UserStates] /\ user'[t] = x
      /\ \A u \in Users : u # t => user'[u] = user[u]
    BY <1>1, <1>2, <1>5, GoesOn
<1>7. StatsTypes'
    BY <1>1, <1>2, <1>6 DEF StatsTypes
<1>8. ColumnsOwned' /\ RowsNamed'
    BY <1>1 DEF StatsInv, ColumnsOwned, RowsNamed
<1>9. Cached(t) # 0 => counter_name[Cached(t)] = user[t].name
    BY <1>2 DEF StatsInv, RowsNamed, Cached
<1>10. UserGood(t)'
  <2>1. user[t].pc = "cached" /\ user[t].op \in {"add", "read"} /\ counter_name' = counter_name
      BY <1>1, <1>2 DEF AtStat, UserStates
  <2>2. CASE Cached(t) # 0
    <3>1. user'[t].pc = Found(user[t].op) /\ user'[t].id = Cached(t)
          /\ user'[t].op = user[t].op /\ user'[t].name = user[t].name
        BY <1>5, <1>6, <2>2
    <3> QED BY <1>2, <1>9, <2>1, <2>2, <3>1 DEF UserGood, AtStat, Found
  <2>3. CASE Cached(t) = 0
    <3>1. user'[t].pc = "row" /\ user'[t].id = 0
          /\ user'[t].op = user[t].op /\ user'[t].name = user[t].name
        BY <1>5, <1>6, <2>3
    <3> QED BY <1>2, <2>1, <3>1 DEF UserGood, AtStat
  <2> QED BY <2>2, <2>3
<1>11. ASSUME user'[t].op = "read" PROVE ReaderGood(t)'
  <2>1. user[t].op = "read" /\ ReaderGood(t)
      BY <1>5, <1>6, <1>11 DEF StatsInv, ReadersGood
  <2>2. user[t].low <= added[user[t].name] /\ user[t].loc = 0 /\ user[t].sum = 0 /\ user[t].low \in Nat
      BY <1>1, <1>2, <2>1 DEF ReaderGood, AtStat, UserStates
  <2>3. user'[t].low = user[t].low /\ user'[t].loc = 0 /\ user'[t].sum = 0 /\ user'[t].name = user[t].name
      BY <1>5, <1>6, <2>2
  <2>4. counter_name' = counter_name /\ data' = data /\ added' = added /\ user'[t].id = Cached(t)
      BY <1>1, <1>5, <1>6
  <2> QED BY <1>2, <1>3, <1>9, <2>2, <2>3, <2>4, ReaderStarts
<1> QED BY <1>1, <1>6, <1>7, <1>8, <1>10, <1>11, MovesInv DEF Moves

\* A row number that is cached is the counter's.
LEMMA CacheInv ==
    ASSUME StatsInv, NEW t \in Users, CacheCounter(t)
    PROVE  StatsInv'
<1> DEFINE x == [user[t] EXCEPT !.pc = Found(user[t].op)]
           c == user[t].name
<1>1. /\ AtStat(t, "cache") /\ user' = [user EXCEPT ![t] = x]
      /\ counters' = [counters EXCEPT ![ProcessOf[t]][c] = user[t].id]
      /\ thread_name' = thread_name /\ counter_name' = counter_name /\ data' = data
      /\ slot' = slot /\ added' = added
    BY DEF CacheCounter, sharedVars
<1>2. StatsTypes /\ user[t] \in UserStates /\ c \in Counters /\ ProcessOf[t] \in Processes
      /\ UserGood(t) /\ user[t].id \in 0..MaxCounters /\ user[t].id # 0 /\ counter_name[user[t].id] = c
    BY <1>1, StatsAssumption DEF StatsInv, StatsTypes, UsersGood, UserGood, AtStat, UserStates
<1>3. /\ x \in UserStates /\ x.pc = Found(user[t].op) /\ x.id = user[t].id /\ x.op = user[t].op
      /\ x.name = c /\ x.loc = user[t].loc /\ x.sum = user[t].sum /\ x.low = user[t].low
    BY <1>2 DEF UserStates, Phases, Found
<1> HIDE DEF x
<1>4. /\ user' \in [Users -> UserStates] /\ user'[t] = x
      /\ \A u \in Users : u # t => user'[u] = user[u]
    BY <1>1, <1>2, <1>3, GoesOn
<1>5. counters' \in [Processes -> [Counters -> 0..MaxCounters]]
      /\ \A p \in Processes, d \in Counters : counters'[p][d] = counters[p][d]
           \/ (d = c /\ counters'[p][d] = user[t].id)
  <2>1. counters \in [Processes -> [Counters -> 0..MaxCounters]]
      BY <1>2 DEF StatsTypes
  <2> HIDE DEF c
  <2> QED BY <1>1, <1>2, <2>1
<1>6. StatsTypes'
    BY <1>1, <1>2, <1>4, <1>5 DEF StatsTypes
<1>7. RowsNamed'
    BY <1>1, <1>2, <1>5 DEF StatsInv, RowsNamed
<1>8. ColumnsOwned'
    BY <1>1 DEF StatsInv, ColumnsOwned
<1>9. UserGood(t)'
  <2>1. user'[t].pc = Found(user[t].op) /\ user'[t].id = user[t].id /\ user'[t].op = user[t].op
        /\ user'[t].name = c /\ user[t].op \in {"add", "read"} /\ counter_name' = counter_name
      BY <1>1, <1>2, <1>3, <1>4 DEF UserStates
  <2> QED BY <1>2, <2>1 DEF UserGood, AtStat, Found
<1>10. ASSUME user'[t].op = "read" PROVE ReaderGood(t)'
  <2>1. user[t].op = "read" /\ ReaderGood(t)
      BY <1>3, <1>4, <1>10 DEF StatsInv, ReadersGood
  <2>2. user[t].low <= added[c] /\ user[t].loc = 0 /\ user[t].sum = 0 /\ user[t].low \in Nat
      BY <1>1, <1>2, <2>1 DEF ReaderGood, AtStat, UserStates
  <2>3. user'[t].low = user[t].low /\ user'[t].loc = 0 /\ user'[t].sum = 0 /\ user'[t].name = c
        /\ user'[t].id = user[t].id
      BY <1>3, <1>4, <2>2
  <2>4. counter_name' = counter_name /\ data' = data /\ added' = added
      BY <1>1
  <2> QED BY <1>2, <2>2, <2>3, <2>4, ReaderStarts
<1> QED BY <1>1, <1>4, <1>6, <1>7, <1>8, <1>9, <1>10, MovesInv DEF Moves

\* A use that ends changes nothing but its thread's place.
LEMMA LeaveInv ==
    ASSUME StatsInv, NEW t \in Users, Leave(t),
           thread_name' = thread_name, counter_name' = counter_name, data' = data,
           counters' = counters, slot' = slot, added' = added
    PROVE  StatsInv'
<1>1. /\ user' \in [Users -> UserStates] /\ \A u \in Users : u # t => user'[u] = user[u]
      /\ UserGood(t)' /\ user'[t].op # "read"
    BY RestingGood
<1>2. StatsTypes'
    BY <1>1 DEF StatsInv, StatsTypes
<1>3. ColumnsOwned' /\ RowsNamed'
    BY DEF StatsInv, ColumnsOwned, RowsNamed
<1> QED BY <1>1, <1>2, <1>3, MovesInv DEF Moves

\* A reader returns.
LEMMA ReturnInv ==
    ASSUME StatsInv, NEW t \in Users, ReturnValue(t)
    PROVE  StatsInv'
BY LeaveInv DEF ReturnValue, sharedVars, processVars

\* The first free column belongs to nobody.
LEMMA FreeColumn ==
    ASSUME StatsInv
    PROVE  /\ FindEmptyThread \in 0..MaxThreads
           /\ \A t \in Users : slot[t] # 0 => slot[t] # FindEmptyThread
<1> DEFINE empty == {s \in Slots : thread_name[s] = Free}
<1>1. empty \subseteq Nat
    BY DEF Slots
<1>2. CASE empty = {}
    BY <1>2, StatsAssumption DEF FindEmptyThread
<1>3. CASE empty # {}
  <2>1. FindEmptyThread = Min(empty)
      BY <1>3 DEF FindEmptyThread
  <2>2. Min(empty) \in empty
    <3> HIDE DEF empty
    <3> QED BY <1>1, <1>3, MinNat
  <2>3. FindEmptyThread \in Slots /\ thread_name[FindEmptyThread] = Free
      BY <2>1, <2>2
  <2> QED BY <2>3, StatsAssumption DEF StatsInv, ColumnsOwned, Slots
<1> QED BY <1>2, <1>3

\* A thread takes a free column.
LEMMA RegisterThreadInv ==
    ASSUME StatsInv, NEW t \in Users, RegisterThread(t)
    PROVE  StatsInv'
<1> PICK new : new = FindEmptyThread
    OBVIOUS
<1>1. /\ AtStat(t, "slot") /\ slot[t] = 0
      /\ thread_name' = [s \in Slots |-> IF s = new THEN t ELSE thread_name[s]]
      /\ slot' = [slot EXCEPT ![t] = new]
      /\ counter_name' = counter_name /\ data' = data /\ counters' = counters /\ added' = added
    BY DEF RegisterThread, processVars
<1>2. StatsTypes /\ user[t] \in UserStates /\ UserGood(t) /\ new \in 0..MaxThreads
      /\ \A u \in Users : slot[u] # 0 => slot[u] # new
    BY FreeColumn DEF StatsInv, StatsTypes, UsersGood
<1>3. slot' \in [Users -> 0..MaxThreads] /\ thread_name' \in [Slots -> Users \union {Free}]
      /\ slot'[t] = new /\ \A u \in Users : u # t => slot'[u] = slot[u]
    BY <1>1, <1>2 DEF StatsTypes
<1>4. ColumnsOwned'
  <2>1. \A u \in Users : slot'[u] \in 0..MaxThreads /\ (slot'[u] # 0 => slot'[u] \in Slots)
      BY <1>3, StatsAssumption DEF Slots
  <2>2. ASSUME NEW u \in Users, slot'[u] # 0 PROVE thread_name'[slot'[u]] = u
    <3>1. CASE u = t
        BY <1>1, <1>3, <2>1, <2>2, <3>1
    <3>2. CASE u # t
        BY <1>1, <1>2, <1>3, <2>1, <2>2, <3>2 DEF StatsInv, ColumnsOwned
    <3> QED BY <3>1, <3>2
  <2> QED BY <2>2 DEF ColumnsOwned
<1>5. RowsNamed'
    BY <1>1 DEF StatsInv, RowsNamed
<1>6. user' \in [Users -> UserStates] /\ (\A u \in Users : u # t => user'[u] = user[u])
      /\ UserGood(t)' /\ user'[t].op # "read"
  <2>1. CASE new = 0
    <3>1. Leave(t)
        BY <2>1 DEF RegisterThread
    <3> QED BY <3>1, RestingGood
  <2>2. CASE new # 0
    <3> DEFINE x == [user[t] EXCEPT !.pc = "locate"]
    <3>1. user' = [user EXCEPT ![t] = x]
        BY <2>2 DEF RegisterThread
    <3>2. x \in UserStates /\ x.pc = "locate" /\ x.op = user[t].op /\ x.id = user[t].id /\ x.name = user[t].name
        BY <1>2 DEF UserStates, Phases
    <3> HIDE DEF x
    <3>3. user' \in [Users -> UserStates] /\ user'[t] = x
          /\ \A u \in Users : u # t => user'[u] = user[u]
        BY <1>2, <3>1, <3>2, GoesOn
    <3>4. user[t].op # "read" /\ user[t].op \in {"add", "read"} /\ user[t].name \in Counters
          /\ (user[t].id # 0 => counter_name[user[t].id] = user[t].name)
        BY <1>1, <1>2 DEF UserGood, AtStat, UserStates
    <3> QED BY <1>1, <1>3, <2>2, <3>2, <3>3, <3>4 DEF UserGood, AtStat
  <2> QED BY <2>1, <2>2
<1>7. StatsTypes'
    BY <1>1, <1>2, <1>3, <1>6 DEF StatsTypes
<1> QED BY <1>1, <1>3, <1>4, <1>5, <1>6, <1>7, MovesInv DEF Moves

\* A thread computes the location of its own cell.
LEMMA LocateInv ==
    ASSUME StatsInv, NEW t \in Users, Locate(t)
    PROVE  StatsInv'
<1>1. /\ AtStat(t, "locate") \/ (AtStat(t, "slot") /\ slot[t] # 0)
      /\ thread_name' = thread_name /\ counter_name' = counter_name /\ data' = data
      /\ counters' = counters /\ slot' = slot /\ added' = added
    BY DEF Locate, sharedVars, processVars
<1>2. CASE user[t].id = 0
  <2>1. Leave(t)
      BY <1>2 DEF Locate
  <2> QED BY <1>1, <2>1, LeaveInv
<1>3. CASE user[t].id # 0
  <2> PICK loc : loc = GetLocation(user[t].id, slot[t])
      OBVIOUS
  <2> DEFINE x == [user[t] EXCEPT !.pc = "store", !.loc = loc, !.sum = data[loc]]
  <2>1. user' = [user EXCEPT ![t] = x]
      BY <1>3 DEF Locate
  <2>2. StatsTypes /\ user[t] \in UserStates /\ UserGood(t)
      BY DEF StatsInv, StatsTypes, UsersGood
  <2>3. user[t].id \in Rows /\ slot[t] \in Slots /\ slot[t] # 0 /\ user[t].op # "read" /\ user[t].name \in Counters
        /\ counter_name[user[t].id] = user[t].name
      BY <1>1, <1>3, <2>2, StatsAssumption DEF UserGood, AtStat, StatsTypes, UserStates, Rows, Slots
  <2>4. loc \in Cells /\ loc \in Nat /\ data[loc] \in Nat
      BY <2>2, <2>3, LocationIsCell DEF StatsTypes, Cells
  <2>5. /\ x \in UserStates /\ x.pc = "store" /\ x.id = user[t].id /\ x.op = user[t].op
        /\ x.name = user[t].name /\ x.loc = loc /\ x.sum = data[loc]
      BY <2>2, <2>4 DEF UserStates, Phases
  <2> HIDE DEF x
  <2>6. user' \in [Users -> UserStates] /\ user'[t] = x
        /\ \A u \in Users : u # t => user'[u] = user[u]
      BY <2>1, <2>2, <2>5, GoesOn
  <2>7. UserGood(t)' /\ user'[t].op # "read"
      BY <1>1, <1>3, <2>3, <2>5, <2>6 DEF UserGood, AtStat
  <2>8. StatsTypes'
      BY <1>1, <2>2, <2>6 DEF StatsTypes
  <2>9. ColumnsOwned' /\ RowsNamed'
      BY <1>1 DEF StatsInv, ColumnsOwned, RowsNamed
  <2> QED BY <1>1, <2>6, <2>7, <2>8, <2>9, MovesInv DEF Moves
<1> QED BY <1>2, <1>3

\* Reading one more column.
LEMMA SumColumnInv ==
    ASSUME StatsInv, NEW t \in Users, SumColumn(t)
    PROVE  StatsInv'
<1> PICK id, n, got : id = user[t].id /\ n = user[t].loc + 1 /\ got = data[GetLocation(id, n)]
    OBVIOUS
<1> DEFINE x == [user[t] EXCEPT !.loc = @ + 1, !.sum = @ + got]
<1>1. /\ AtStat(t, "sum") /\ id # 0 /\ user[t].loc < MaxThreads
      /\ user' = [user EXCEPT ![t] = x]
      /\ thread_name' = thread_name /\ counter_name' = counter_name /\ data' = data
      /\ counters' = counters /\ slot' = slot /\ added' = added
    BY DEF SumColumn, sharedVars, processVars
<1>2. StatsTypes /\ user[t] \in UserStates /\ UserGood(t) /\ MaxThreads \in Nat /\ data \in [Cells -> Nat]
    BY StatsAssumption DEF StatsInv, StatsTypes, UsersGood
<1>3. /\ user[t].op = "read" /\ id \in Rows /\ n \in Slots /\ n \in 1..MaxThreads /\ user[t].loc \in Nat
      /\ user[t].sum \in Nat /\ user[t].low \in Nat /\ n - 1 = user[t].loc
    BY <1>1, <1>2, StatsAssumption DEF UserGood, AtStat, UserStates, Rows, Slots
<1>4. got \in Nat
    BY <1>2, <1>3, LocationIsCell
<1>5. /\ x \in UserStates /\ x.pc = user[t].pc /\ x.id = id /\ x.op = user[t].op
      /\ x.name = user[t].name /\ x.loc = n /\ x.sum = user[t].sum + got /\ x.low = user[t].low
  <2>1. n \in Nat /\ user[t].sum + got \in Nat
      BY <1>3, <1>4
  <2>2. x = [user[t] EXCEPT !.loc = n, !.sum = user[t].sum + got]
      BY <1>2 DEF UserStates
  <2> PICK total : total = user[t].sum + got
      OBVIOUS
  <2> HIDE DEF x
  <2>3. x = [user[t] EXCEPT !.loc = n, !.sum = total]
      BY <2>2
  <2> QED BY <1>2, <2>1, <2>3 DEF UserStates
<1> HIDE DEF x
<1>6. user' \in [Users -> UserStates] /\ user'[t] = x
      /\ \A u \in Users : u # t => user'[u] = user[u]
    BY <1>1, <1>2, <1>5, GoesOn
<1>7. UserGood(t)'
    BY <1>1, <1>2, <1>3, <1>5, <1>6 DEF UserGood, AtStat
<1>8. ReaderGood(t)'
  <2> PICK seen : seen = SumsOf(data, id)
      OBVIOUS
  <2>1. /\ user[t].low <= added[user[t].name] /\ user[t].sum <= seen[user[t].loc]
        /\ user[t].low + seen[user[t].loc] <= user[t].sum + seen[MaxThreads]
      BY <1>1, <1>3 DEF StatsInv, ReadersGood, ReaderGood
  <2>2. /\ seen[n] = seen[user[t].loc] + got /\ seen[user[t].loc] \in Nat /\ seen[n] \in Nat
        /\ seen[MaxThreads] \in Nat
    <3>1. /\ \A s \in 0..MaxThreads : seen[s] \in Nat
          /\ \A s \in 1..MaxThreads : seen[s] = seen[s - 1] + data[GetLocation(id, s)]
        BY <1>2, <1>3, RowSums
    <3>2. n \in 0..MaxThreads /\ user[t].loc \in 0..MaxThreads /\ MaxThreads \in 0..MaxThreads
        BY <1>2, <1>3
    <3> QED BY <1>3, <3>1, <3>2
  <2>3. user[t].sum + got <= seen[n] /\ user[t].low + seen[n] <= (user[t].sum + got) + seen[MaxThreads]
      BY <1>3, <1>4, <2>1, <2>2
  <2>4. user'[t].pc = "sum" /\ user'[t].id = id /\ user'[t].name = user[t].name /\ user'[t].loc = n
        /\ user'[t].sum = user[t].sum + got /\ user'[t].low = user[t].low
      BY <1>1, <1>5, <1>6 DEF AtStat
  <2>5. n <= MaxThreads /\ data' = data /\ added' = added
      BY <1>1, <1>2, <1>3
  <2> QED BY <1>1, <2>1, <2>3, <2>4, <2>5 DEF ReaderGood, AtStat
<1>9. StatsTypes'
    BY <1>1, <1>2, <1>6 DEF StatsTypes
<1>10. ColumnsOwned' /\ RowsNamed'
    BY <1>1 DEF StatsInv, ColumnsOwned, RowsNamed
<1> QED BY <1>1, <1>6, <1>7, <1>8, <1>9, <1>10, MovesInv DEF Moves

\* ~StatsTable() frees the column of a thread at rest.
LEMMA DestroyInv ==
    ASSUME StatsInv, NEW p \in Processes, DestroyTable(p)
    PROVE  StatsInv'
<1> PICK t : t = Destroyer[p]
    OBVIOUS
<1>1. /\ t \in Users /\ AtStat(t, "idle")
      /\ thread_name' = [s \in Slots |-> IF s = slot[t] THEN Free ELSE thread_name[s]]
      /\ slot' = [slot EXCEPT ![t] = 0] /\ counters' = [counters EXCEPT ![p] = NotCached]
      /\ counter_name' = counter_name /\ data' = data /\ user' = user /\ added' = added
    BY StatsAssumption DEF DestroyTable
<1>2. StatsTypes /\ UserGood(t)
    BY <1>1 DEF StatsInv, StatsTypes, UsersGood
<1>3. slot' \in [Users -> 0..MaxThreads] /\ thread_name' \in [Slots -> Users \union {Free}]
      /\ slot'[t] = 0 /\ \A u \in Users : u # t => slot'[u] = slot[u]
    BY <1>1, <1>2, StatsAssumption DEF StatsTypes
<1>4. ASSUME NEW u \in Users, slot'[u] # 0 PROVE thread_name'[slot'[u]] = u
  <2>1. u # t /\ slot'[u] = slot[u] /\ slot[u] \in Slots /\ thread_name[slot[u]] = u
      BY <1>2, <1>3, <1>4, StatsAssumption DEF StatsInv, ColumnsOwned, StatsTypes, Slots
  <2>2. slot[t] # slot[u]
      BY <1>1, <2>1, StatsAssumption DEF StatsInv, ColumnsOwned, Slots
  <2> QED BY <1>1, <2>1, <2>2
<1>5. counters' \in [Processes -> [Counters -> 0..MaxCounters]]
      /\ \A q \in Processes, d \in Counters : counters'[q][d] \in {0, counters[q][d]}
  <2>1. NotCached \in [Counters -> 0..MaxCounters] /\ \A d \in Counters : NotCached[d] = 0
      BY StatsAssumption DEF NotCached
  <2> QED BY <1>1, <1>2, <2>1 DEF StatsTypes
<1>6. StatsTypes'
    BY <1>1, <1>2, <1>3, <1>5 DEF StatsTypes
<1>7. RowsNamed'
    BY <1>1, <1>5 DEF StatsInv, RowsNamed
<1>8. ColumnsOwned'
    BY <1>4 DEF ColumnsOwned
<1>9. UserGood(t)' /\ user'[t].op # "read"
  <2>1. user[t].op \in {"add", "read"}
      BY <1>1, <1>2 DEF StatsTypes, UserStates
  <2> QED BY <1>1, <1>2, <2>1 DEF UserGood, AtStat
<1> QED BY <1>1, <1>3, <1>6, <1>7, <1>8, <1>9, MovesInv DEF Moves

----------------------------------------------------------------------------
(* A row for a name.                                                        *)

\* The row of the name, or a free one when it has none, or 0.
LEMMA RowFound ==
    ASSUME StatsInv, NEW c \in Counters, NEW id, id = FindCounterOrEmptyRow(c)
    PROVE  \/ id = 0
           \/ id \in Rows /\ counter_name[id] = c
           \/ id \in Rows /\ counter_name[id] = Free /\ \A r \in Rows : counter_name[r] # c
<1> DEFINE named == {r \in Rows : counter_name[r] = c}
           empty == {r \in Rows : counter_name[r] = Free}
<1>1. named \subseteq Nat /\ empty \subseteq Nat
    BY DEF Rows
<1>2. CASE named # {}
  <2>1. id = Min(named)
      BY <1>2 DEF FindCounterOrEmptyRow
  <2>2. Min(named) \in named
    <3> HIDE DEF named
    <3> QED BY <1>1, <1>2, MinNat
  <2> QED BY <2>1, <2>2
<1>3. CASE named = {} /\ empty # {}
  <2>1. id = Min(empty)
      BY <1>3 DEF FindCounterOrEmptyRow
  <2>2. Min(empty) \in empty
    <3> HIDE DEF empty
    <3> QED BY <1>1, <1>3, MinNat
  <2> QED BY <1>3, <2>1, <2>2
<1>4. CASE named = {} /\ empty = {}
    BY <1>4 DEF FindCounterOrEmptyRow
<1> QED BY <1>2, <1>3, <1>4

\* A counter finds its row, or takes an empty one.
LEMMA AddCounterInv ==
    ASSUME StatsInv, NEW t \in Users, AddCounter(t)
    PROVE  StatsInv'
<1> PICK c, id, place : /\ c = user[t].name /\ id = FindCounterOrEmptyRow(c)
                        /\ place = IF id = 0 THEN Found(user[t].op) ELSE "cache"
    OBVIOUS
<1> DEFINE x == [user[t] EXCEPT !.pc = place, !.id = id]
<1>1. /\ AtStat(t, "row") /\ user' = [user EXCEPT ![t] = x]
      /\ counter_name' = [r \in Rows |-> IF r = id THEN c ELSE counter_name[r]]
      /\ thread_name' = thread_name /\ data' = data
      /\ counters' = counters /\ slot' = slot /\ added' = added
    BY DEF AddCounter, processVars
<1>2. StatsTypes /\ user[t] \in UserStates /\ UserGood(t) /\ c \in Counters /\ c # Free
      /\ data \in [Cells -> Nat] /\ MaxThreads \in Nat
    BY <1>1, StatsAssumption DEF StatsInv, StatsTypes, UsersGood, UserGood, AtStat
<1>3. \/ id = 0
      \/ id \in Rows /\ counter_name[id] = c
      \/ id \in Rows /\ counter_name[id] = Free /\ \A r \in Rows : counter_name[r] # c
    BY <1>2, RowFound
<1>4. id \in 0..MaxCounters /\ place \in Phases
    BY <1>3, StatsAssumption DEF Rows, Found, Phases
<1>5. /\ x \in UserStates /\ x.pc = place /\ x.id = id /\ x.op = user[t].op /\ x.name = c
      /\ x.loc = user[t].loc /\ x.sum = user[t].sum /\ x.low = user[t].low
    BY <1>2, <1>4 DEF UserStates
<1> HIDE DEF x
<1>6. user' \in [Users -> UserStates] /\ user'[t] = x
      /\ \A u \in Users : u # t => user'[u] = user[u]
    BY <1>1, <1>2, <1>5, GoesOn
<1>7. counter_name' \in [Rows -> Counters \union {Free}]
    BY <1>1, <1>2 DEF StatsTypes
<1>8. StatsTypes'
    BY <1>1, <1>2, <1>6, <1>7 DEF StatsTypes
<1>9. ColumnsOwned'
    BY <1>1 DEF StatsInv, ColumnsOwned
<1>10. id # 0 => counter_name'[id] = c
    BY <1>1, <1>3
<1>11. UserGood(t)'
  <2>1. user[t].op \in {"add", "read"} /\ user'[t].pc = place /\ user'[t].id = id /\ user'[t].op = user[t].op
        /\ user'[t].name = c
      BY <1>2, <1>5, <1>6 DEF UserStates
  <2>2. CASE id = 0
    <3>1. place = IF user[t].op = "add" THEN "slot" ELSE "sum"
        BY <2>2 DEF Found
    <3> QED BY <1>2, <2>1, <2>2, <3>1 DEF UserGood, AtStat
  <2>3. CASE id # 0
    <3>1. place = "cache"
        BY <2>3
    <3> QED BY <1>2, <1>10, <2>1, <2>3, <3>1 DEF UserGood, AtStat
  <2> QED BY <2>2, <2>3
<1>12. ASSUME user'[t].op = "read" PROVE ReaderGood(t)'
  <2>1. user[t].op = "read" /\ ReaderGood(t)
      BY <1>5, <1>6, <1>12 DEF StatsInv, ReadersGood
  <2>2. user[t].low <= added[c] /\ user[t].loc = 0 /\ user[t].sum = 0
      BY <1>1, <2>1 DEF ReaderGood, AtStat
  <2>3. user'[t].low = user[t].low /\ user'[t].loc = 0 /\ user'[t].sum = 0 /\ user'[t].name = c
        /\ user'[t].id = id /\ user'[t].pc = place /\ data' = data /\ added' = added
      BY <1>1, <1>5, <1>6, <2>2
  <2>4. id # 0 => place # "sum"
      OBVIOUS
  <2> QED BY <2>2, <2>3, <2>4 DEF ReaderGood, AtStat
<1>13. CASE counter_name' = counter_name
  <2>1. RowsNamed'
      BY <1>1, <1>13 DEF StatsInv, RowsNamed
  <2> QED BY <1>1, <1>6, <1>8, <1>9, <1>11, <1>12, <1>13, <2>1, MovesInv DEF Moves
<1>14. CASE counter_name' # counter_name
  <2>1. id \in Rows /\ counter_name[id] = Free /\ \A r \in Rows : counter_name[r] # c
    <3>1. counter_name = [r \in Rows |-> counter_name[r]]
        BY <1>2 DEF StatsTypes
    <3>2. 0 \notin Rows
        BY DEF Rows
    <3> QED BY <1>1, <1>3, <1>14, <3>1, <3>2
  <2>2. counter_name'[id] = c /\ \A r \in Rows : r # id => counter_name'[r] = counter_name[r]
      BY <1>1, <2>1
  <2>3. RowsNamed'
    <3>1. \A r, q \in Rows : counter_name'[r] # Free /\ counter_name'[r] = counter_name'[q] => r = q
        BY <2>1, <2>2 DEF StatsInv, RowsNamed
    <3>2. ASSUME NEW p \in Processes, NEW d \in Counters, counters[p][d] # 0
          PROVE  counter_name'[counters[p][d]] = d
      <4>1. counters[p][d] \in Rows /\ counter_name[counters[p][d]] = d /\ d # Free
          BY <1>2, <3>2, StatsAssumption DEF StatsInv, RowsNamed, StatsTypes, Rows
      <4> QED BY <2>1, <2>2, <4>1
    <3> QED BY <1>1, <3>1, <3>2 DEF RowsNamed
  <2>4. ASSUME NEW u \in Users PROVE UserGood(u)'
    <3>1. CASE u = t
        BY <1>11, <3>1
    <3>2. CASE u # t
      <4>1. UserGood(u) /\ user'[u] = user[u] /\ slot' = slot /\ data' = data /\ user[u] \in UserStates
          BY <1>1, <1>2, <1>6, <3>2 DEF StatsInv, UsersGood, StatsTypes
      <4>2. user[u].id # 0 => user[u].id \in Rows /\ user[u].name # Free /\ user[u].id # id
          BY <2>1, <4>1, StatsAssumption DEF UserGood, UserStates, Rows
      <4>3. user[u].id # 0 => counter_name'[user[u].id] = user[u].name
          BY <2>2, <4>1, <4>2 DEF UserGood
      <4> QED BY <4>1, <4>3 DEF UserGood, AtStat
    <3> QED BY <3>1, <3>2
  <2>5. ASSUME NEW u \in Users, user'[u].op = "read" PROVE ReaderGood(u)'
    <3>1. CASE u = t
        BY <1>12, <2>5, <3>1
    <3>2. CASE u # t
      <4>1. user'[u] = user[u] /\ data' = data /\ added' = added
          BY <1>1, <1>6, <3>2
      <4> QED BY <2>5, <4>1 DEF StatsInv, ReadersGood, ReaderGood, AtStat
    <3> QED BY <3>1, <3>2
  <2>6. RowsFresh'
      BY <1>1, <1>2, <2>2 DEF StatsInv, RowsFresh
  <2>7. \A r : RowTotal(r)' = RowTotal(r)
      BY <1>1 DEF RowTotal, Row
  <2>8. RowTotal(id) = 0 /\ added[c] = 0
    <3>1. Row(id) \in [Slots -> Nat] /\ \A s \in Slots : Row(id)[s] = 0
        BY <1>2, <2>1, LocationIsCell DEF Row, StatsInv, RowsFresh
    <3>2. MaxThreads \in 0..MaxThreads
        BY <1>2
    <3> QED BY <1>2, <2>1, <3>1, <3>2, SumsZero DEF RowTotal, StatsInv, TotalsKept
  <2>9. ASSUME NEW r \in Rows, counter_name'[r] # Free PROVE RowTotal(r) = added[counter_name'[r]]
    <3>1. CASE r = id
        BY <2>2, <2>8, <3>1
    <3>2. CASE r # id
        BY <2>2, <2>9, <3>2 DEF StatsInv, TotalsKept
    <3> QED BY <3>1, <3>2
  <2>10. ASSUME NEW d \in Counters, \A r \in Rows : counter_name'[r] # d PROVE added[d] = 0
    <3>1. ASSUME NEW r \in Rows PROVE counter_name[r] # d
      <4>1. CASE r = id
          BY <2>1, <4>1, StatsAssumption
      <4>2. CASE r # id
          BY <2>2, <2>10, <4>2
      <4> QED BY <4>1, <4>2
    <3> QED BY <3>1 DEF StatsInv, TotalsKept
  <2>11. TotalsKept'
      BY <1>1, <2>7, <2>9, <2>10 DEF TotalsKept
  <2> QED BY <1>8, <1>9, <2>3, <2>4, <2>5, <2>6, <2>11 DEF StatsInv, UsersGood, ReadersGood
<1> QED BY <1>13, <1>14

----------------------------------------------------------------------------
(* The unlocked store.                                                      *)

\* One more in a cell.
Bumped(grid, new, id, k) ==
    /\ grid \in [Cells -> Nat] /\ id \in Rows /\ k \in Slots
    /\ new = [grid EXCEPT ![GetLocation(id, k)] = grid[GetLocation(id, k)] + 1]

\* It is one more in the sums of its row from its column on, and in no other.
LEMMA SumsOfBumped ==
    ASSUME NEW grid, NEW new, NEW id, NEW k, Bumped(grid, new, id, k), NEW r \in Rows
    PROVE  \A s \in 0..MaxThreads :
              SumsOf(new, r)[s] = IF r = id /\ k <= s THEN SumsOf(grid, r)[s] + 1 ELSE SumsOf(grid, r)[s]
<1> USE DEF Bumped
<1> DEFINE old == [s \in Slots |-> grid[GetLocation(r, s)]]
           now == [s \in Slots |-> new[GetLocation(r, s)]]
<1>1. GetLocation(id, k) \in Cells /\ grid[GetLocation(id, k)] + 1 \in Nat
    BY LocationIsCell
<1>2. \A s \in Slots : GetLocation(r, s) \in Cells
    BY LocationIsCell
<1>3. old \in [Slots -> Nat]
    BY <1>2
<1>4. SumsOf(grid, r) = SumUpTo(old) /\ SumsOf(new, r) = SumUpTo(now)
    BY DEF SumsOf
<1>5. CASE r = id
  <2>1. \A s \in Slots : now[s] = IF s = k THEN old[s] + 1 ELSE old[s]
      BY <1>1, <1>2, <1>5, LocationsApart
  <2>2. now \in [Slots -> Nat]
      BY <1>3, <2>1
  <2> HIDE DEF old, now
  <2> QED BY <1>3, <1>4, <1>5, <2>1, <2>2, SumsBump
<1>6. CASE r # id
  <2>1. \A s \in Slots : now[s] = old[s]
      BY <1>1, <1>2, <1>6, LocationsApart
  <2>2. now = old
      BY <2>1
  <2> HIDE DEF old, now
  <2> QED BY <1>4, <1>6, <2>2
<1> QED BY <1>5, <1>6

\* The one writer of a cell stores what it read, plus one.
LEMMA StoreIncrementInv ==
    ASSUME StatsInv, NEW t \in Users, StoreIncrement(t)
    PROVE  StatsInv'
<1> PICK c, id, k, loc : /\ c = user[t].name /\ id = user[t].id /\ k = slot[t] /\ loc = user[t].loc
    OBVIOUS
<1>1. /\ AtStat(t, "store") /\ Leave(t)
      /\ data' = [data EXCEPT ![loc] = user[t].sum + 1] /\ added' = [added EXCEPT ![c] = @ + 1]
      /\ thread_name' = thread_name /\ counter_name' = counter_name /\ counters' = counters /\ slot' = slot
    BY DEF StoreIncrement, processVars
<1>2. StatsTypes /\ user[t] \in UserStates /\ UserGood(t) /\ MaxThreads \in Nat /\ data \in [Cells -> Nat]
      /\ added \in [Counters -> Nat]
    BY StatsAssumption DEF StatsInv, StatsTypes, UsersGood
<1>3. /\ c \in Counters /\ id \in Rows /\ k \in Slots /\ loc = GetLocation(id, k) /\ loc \in Cells
      /\ user[t].sum = data[loc] /\ counter_name[id] = c /\ c # Free /\ k # 0
  <2>1. /\ c \in Counters /\ id # 0 /\ k # 0 /\ loc = GetLocation(id, k) /\ user[t].sum = data[loc]
        /\ counter_name[id] = c
      BY <1>1, <1>2 DEF UserGood, AtStat
  <2>2. id \in Rows /\ k \in Slots
      BY <1>2, <2>1, StatsAssumption DEF StatsTypes, UserStates, Rows, Slots
  <2> QED BY <2>1, <2>2, LocationIsCell, StatsAssumption
<1>4. data' = [data EXCEPT ![loc] = data[loc] + 1] /\ data[loc] \in Nat
    BY <1>1, <1>2, <1>3
<1>5. data' \in [Cells -> Nat] /\ \A l \in Cells : l # loc => data'[l] = data[l]
    BY <1>2, <1>3, <1>4
<1>6. /\ added' \in [Counters -> Nat] /\ added'[c] = added[c] + 1
      /\ \A d \in Counters : d # c => added'[d] = added[d]
    BY <1>1, <1>2, <1>3
<1>7. /\ user' \in [Users -> UserStates] /\ \A u \in Users : u # t => user'[u] = user[u]
      /\ UserGood(t)' /\ user'[t].op # "read"
    BY <1>1, RestingGood
<1>8. StatsTypes'
    BY <1>1, <1>2, <1>5, <1>6, <1>7 DEF StatsTypes
<1>9. ColumnsOwned' /\ RowsNamed'
    BY <1>1 DEF StatsInv, ColumnsOwned, RowsNamed
<1>10. ASSUME NEW r \in Rows
       PROVE  \A s \in 0..MaxThreads :
                SumsOf(data', r)[s] = IF r = id /\ k <= s THEN SumsOf(data, r)[s] + 1 ELSE SumsOf(data, r)[s]
  <2>1. Bumped(data, data', id, k)
      BY <1>2, <1>3, <1>4 DEF Bumped
  <2> QED BY <2>1, SumsOfBumped
<1>11. ASSUME NEW u \in Users PROVE UserGood(u)'
  <2>1. CASE u = t
      BY <1>7, <2>1
  <2>2. CASE u # t
    <3>1. UserGood(u) /\ user'[u] = user[u] /\ slot'[u] = slot[u] /\ counter_name' = counter_name
          /\ user[u] \in UserStates /\ slot[u] \in 0..MaxThreads
        BY <1>1, <1>2, <1>7, <2>2 DEF StatsInv, UsersGood, StatsTypes
    <3>2. ASSUME AtStat(u, "store") PROVE data'[user[u].loc] = data[user[u].loc]
      <4>1. user[u].id # 0 /\ slot[u] # 0 /\ user[u].loc = GetLocation(user[u].id, slot[u])
          BY <3>1, <3>2 DEF UserGood
      <4>2. user[u].id \in Rows /\ slot[u] \in Slots
          BY <3>1, <4>1, StatsAssumption DEF UserStates, Rows, Slots
      <4>3. slot[u] # k
          BY <1>3, <2>2, <4>1 DEF StatsInv, ColumnsOwned
      <4>4. user[u].loc # loc /\ user[u].loc \in Cells
          BY <1>3, <4>1, <4>2, <4>3, LocationsApart, LocationIsCell
      <4> QED BY <1>5, <4>4
    <3> QED BY <3>1, <3>2 DEF UserGood, AtStat
  <2> QED BY <2>1, <2>2
<1>12. ASSUME NEW u \in Users, user'[u].op = "read" PROVE ReaderGood(u)'
  <2>1. u # t /\ user'[u] = user[u] /\ user[u].op = "read" /\ ReaderGood(u) /\ UserGood(u)
        /\ user[u] \in UserStates
      BY <1>2, <1>7, <1>12 DEF StatsInv, ReadersGood, UsersGood, StatsTypes
  <2> PICK v : v = user[u]
      OBVIOUS
  <2>2. /\ v \in UserStates /\ user'[u] = v /\ v.low <= added[v.name] /\ v.name \in Counters
        /\ (v.pc # "sum" \/ v.id = 0 => v.loc = 0 /\ v.sum = 0)
    <3>1. v.pc # "idle"
        BY <2>1 DEF UserGood, AtStat
    <3> QED BY <2>1, <3>1 DEF ReaderGood, UserGood, AtStat
  <2>3. v.low <= added'[v.name]
      BY <1>2, <1>3, <1>6, <2>2 DEF UserStates
  <2>4. ASSUME v.pc = "sum", v.id # 0
        PROVE  /\ v.loc <= MaxThreads /\ v.sum <= SumsOf(data', v.id)[v.loc]
               /\ v.low + SumsOf(data', v.id)[v.loc] <= v.sum + SumsOf(data', v.id)[MaxThreads]
    <3> PICK f, g : f = SumsOf(data, v.id) /\ g = SumsOf(data', v.id)
        OBVIOUS
    <3>1. v.loc <= MaxThreads /\ v.sum <= f[v.loc] /\ v.low + f[v.loc] <= v.sum + f[MaxThreads]
        BY <2>1, <2>4 DEF ReaderGood, AtStat
    <3>2. v.id \in Rows /\ v.loc \in 0..MaxThreads /\ v.low \in Nat /\ v.sum \in Nat
        BY <1>2, <2>2, <2>4, <3>1, StatsAssumption DEF UserStates, Rows
    <3>3. f[v.loc] \in Nat /\ f[MaxThreads] \in Nat
        BY <1>2, <3>2, RowSums
    <3>4. /\ g[v.loc] = IF v.id = id /\ k <= v.loc THEN f[v.loc] + 1 ELSE f[v.loc]
          /\ g[MaxThreads] = IF v.id = id /\ k <= MaxThreads THEN f[MaxThreads] + 1 ELSE f[MaxThreads]
        BY <1>2, <1>10, <3>2
    <3>5. k <= MaxThreads
        BY <1>2, <1>3 DEF Slots
    <3> QED BY <3>1, <3>2, <3>3, <3>4, <3>5
  <2> QED BY <2>2, <2>3, <2>4 DEF ReaderGood, AtStat
<1>13. RowsFresh'
  <2>1. ASSUME NEW r \in Rows, NEW s \in Slots, counter_name[r] = Free
        PROVE  data'[GetLocation(r, s)] = 0
    <3>1. r # id /\ data[GetLocation(r, s)] = 0
        BY <1>3, <2>1 DEF StatsInv, RowsFresh
    <3>2. GetLocation(r, s) \in Cells /\ GetLocation(r, s) # loc
        BY <1>3, <3>1, LocationIsCell, LocationsApart
    <3> QED BY <1>5, <3>1, <3>2
  <2> QED BY <1>1, <2>1 DEF RowsFresh
<1>14. TotalsKept'
  <2>1. \A r : RowTotal(r) = SumsOf(data, r)[MaxThreads] /\ RowTotal(r)' = SumsOf(data', r)[MaxThreads]
      BY DEF RowTotal, Row, SumsOf
  <2>2. ASSUME NEW r \in Rows, counter_name[r] # Free
        PROVE  SumsOf(data', r)[MaxThreads] = added'[counter_name[r]]
    <3>1. SumsOf(data, r)[MaxThreads] = added[counter_name[r]] /\ counter_name[r] \in Counters
        BY <1>2, <2>1, <2>2 DEF StatsInv, TotalsKept, StatsTypes
    <3>2. r = id <=> counter_name[r] = c
        BY <1>3 DEF StatsInv, RowsNamed
    <3>3. SumsOf(data', r)[MaxThreads] =
             IF r = id /\ k <= MaxThreads THEN SumsOf(data, r)[MaxThreads] + 1 ELSE SumsOf(data, r)[MaxThreads]
        BY <1>2, <1>10
    <3>4. k <= MaxThreads
        BY <1>2, <1>3 DEF Slots
    <3> QED BY <1>6, <3>1, <3>2, <3>3, <3>4
  <2>3. ASSUME NEW d \in Counters, \A r \in Rows : counter_name[r] # d PROVE added'[d] = 0
      BY <1>3, <1>6, <2>3 DEF StatsInv, TotalsKept
  <2> QED BY <1>1, <2>1, <2>2, <2>3 DEF TotalsKept
<1> QED BY <1>8, <1>9, <1>11, <1>12, <1>13, <1>14 DEF StatsInv, UsersGood, ReadersGood

----------------------------------------------------------------------------

\* Every step of every thread and every ~StatsTable() keeps the invariant.
LEMMA NextStatsInv ==
    ASSUME StatsInv, [StatsNext]_statsVars
    PROVE  StatsInv'
<1>1. ASSUME NEW t \in Users, UserStep(t) PROVE StatsInv'
  <2>1. CASE \E op \in {"add", "read"}, c \in Counters : BeginUse(t, op, c)
      BY <2>1, BeginInv
  <2>2. CASE FindCounter(t)
      BY <2>2, FindCounterInv
  <2>3. CASE AddCounter(t)
      BY <2>3, AddCounterInv
  <2>4. CASE CacheCounter(t)
      BY <2>4, CacheInv
  <2>5. CASE RegisterThread(t)
      BY <2>5, RegisterThreadInv
  <2>6. CASE Locate(t)
      BY <2>6, LocateInv
  <2>7. CASE StoreIncrement(t)
      BY <2>7, StoreIncrementInv
  <2>8. CASE SumColumn(t) \/ ReturnValue(t)
      BY <2>8, SumColumnInv, ReturnInv
  <2> QED BY <1>1, <2>1, <2>2, <2>3, <2>4, <2>5, <2>6, <2>7, <2>8 DEF UserStep
<1>2. ASSUME NEW p \in Processes, DestroyTable(p) PROVE StatsInv'
    BY <1>2, DestroyInv
<1>3. CASE UNCHANGED statsVars
  <2>1. /\ thread_name' = thread_name /\ counter_name' = counter_name /\ data' = data
        /\ counters' = counters /\ slot' = slot /\ user' = user /\ added' = added
      BY <1>3 DEF statsVars, sharedVars, processVars
  <2>2. StatsTypes' /\ ColumnsOwned' /\ RowsNamed' /\ RowsFresh'
      BY <2>1 DEF StatsInv, StatsTypes, ColumnsOwned, RowsNamed, RowsFresh
  <2>3. UsersGood' /\ ReadersGood'
      BY <2>1 DEF StatsInv, UsersGood, UserGood, ReadersGood, ReaderGood, AtStat
  <2>4. TotalsKept'
      BY <2>1 DEF StatsInv, TotalsKept, RowTotal, Row
  <2> QED BY <2>2, <2>3, <2>4 DEF StatsInv
<1> QED BY <1>1, <1>2, <1>3 DEF StatsNext

\* The inductive invariant holds in every reachable state of the shared table.
THEOREM StatsInductive == StatsSpec => []StatsInv
<1> QED BY InitStatsInv, NextStatsInv, PTL DEF StatsSpec

\* Threads own different columns, a name has one row and the caches of the
\* processes agree with the table (stats_table.cc:45).
THEOREM PartitionAlways == StatsSpec => []TablePartitioned
<1>1. StatsInv => TablePartitioned
    BY DEF StatsInv, ColumnsOwned, RowsNamed, TablePartitioned
<1> QED BY <1>1, StatsInductive, PTL

\* No increment is lost though it is a load and a store without a lock, and
\* GetCounterValue() returns a count that the counter had during the call.
THEOREM CountsAlwaysKept == StatsSpec => []CountsKept
<1>1. StatsInv => CountsKept
  <2> SUFFICES ASSUME StatsInv PROVE ReadsBounded
      BY DEF CountsKept, StatsInv
  <2>1. ASSUME NEW t \in Users, user[t].op = "read", AtStat(t, "sum")
        PROVE  /\ user[t].id # 0 /\ user[t].loc = MaxThreads => user[t].low <= user[t].sum
               /\ user[t].sum <= added[user[t].name]
    <3> PICK u : u = user[t]
        OBVIOUS
    <3>1. /\ u \in UserStates /\ u.pc = "sum" /\ ReaderGood(t) /\ UserGood(t) /\ MaxThreads \in Nat
          /\ added \in [Counters -> Nat] /\ data \in [Cells -> Nat]
        BY <2>1, StatsAssumption DEF StatsInv, StatsTypes, UsersGood, ReadersGood, AtStat
    <3>2. u.name \in Counters /\ added[u.name] \in Nat /\ u.low \in Nat /\ u.sum \in Nat
        BY <3>1 DEF UserGood, AtStat, UserStates
    <3>3. CASE u.id = 0
        BY <3>1, <3>2, <3>3 DEF ReaderGood
    <3>4. CASE u.id # 0
      <4> PICK f : f = SumsOf(data, u.id)
          OBVIOUS
      <4>1. u.loc <= MaxThreads /\ u.sum <= f[u.loc] /\ u.low + f[u.loc] <= u.sum + f[MaxThreads]
            /\ counter_name[u.id] = u.name
          BY <3>1, <3>4 DEF ReaderGood, UserGood, AtStat
      <4>2. u.id \in Rows /\ u.loc \in 0..MaxThreads /\ u.name # Free
          BY <3>1, <3>2, <3>4, <4>1, StatsAssumption DEF UserStates, Rows
      <4>3. f[u.loc] \in Nat /\ f[MaxThreads] \in Nat /\ f[u.loc] <= f[MaxThreads]
          BY <3>1, <4>2, RowSums
      <4>4. RowTotal(u.id) = f[MaxThreads]
          BY DEF RowTotal, Row, SumsOf
      <4>5. f[MaxThreads] = added[u.name]
          BY <4>1, <4>2, <4>4 DEF StatsInv, TotalsKept
      <4>6. u.sum <= added[u.name]
          BY <3>2, <4>1, <4>3, <4>5
      <4>7. u.loc = MaxThreads => u.low <= u.sum
          BY <3>2, <4>1, <4>3
      <4> QED BY <4>6, <4>7
    <3> QED BY <3>3, <3>4
  <2> QED BY <2>1 DEF ReadsBounded
<1> QED BY <1>1, StatsInductive, PTL

----------------------------------------------------------------------------
(* Histograms: their ranges, where a sample goes, and the printed graph.     *)

\* Only 0 is twice itself.
LEMMA OnlyZero == ASSUME NEW q, q \in Int, q = q + q PROVE q = 0
OBVIOUS

\* The loops of the model, with all their turns.
Sums(f, n) ==
    LET sum[k \in 0..n] == IF k = 0 THEN 0 ELSE sum[k - 1] + f[k]
    IN  sum

\* A sum over places is what the sum before the last and the last are.
LEMMA SumLoop ==
    ASSUME NEW n \in Nat, NEW f, \A k \in 1..n : f[k] \in Int,
           NEW sum, sum = Sums(f, n)
    PROVE  sum \in [0..n -> Int] /\ sum[0] = 0 /\ \A k \in 1..n : sum[k] = sum[k - 1] + f[k]
<1> DEFINE Rec(h) == [k \in 0..n |-> IF k = 0 THEN 0 ELSE h[k - 1] + f[k]]
<1>1. PICK F : F = [k \in 1..n |-> [t \in Int |-> t + f[k]]]
    OBVIOUS
<1>2. F \in [1..n -> [Int -> Int]]
    BY <1>1
<1>3. PICK g \in Turns(n, Int, 0, F) : TRUE
  <2>1. PICK S, base : S = Int /\ base = 0
      OBVIOUS
  <2>2. n \in Nat /\ base \in S /\ F \in [1..n -> [S -> S]]
      BY <1>2, <2>1
  <2>3. Turns(n, S, base, F) # {}
      BY ONLY <2>2, TurnsExist
  <2> QED BY <2>1, <2>3
<1>4. g \in [0..n -> Int] /\ g[0] = 0 /\ \A k \in 1..n : g[k] = F[k][g[k - 1]]
    BY <1>3 DEF Turns
<1>5. ASSUME NEW k \in 1..n PROVE g[k] = g[k - 1] + f[k]
  <2>1. k - 1 \in 0..n
      OBVIOUS
  <2> QED BY <1>1, <1>4, <2>1
<1>6. g = Rec(g)
    BY <1>4, <1>5
<1>7. sum = Rec(sum)
  <2>1. sum = CHOOSE h : h = Rec(h)
      BY DEF Sums
  <2> HIDE DEF Rec
  <2> QED BY <1>6, <2>1
<1>8. sum[0] = g[0] /\ sum = [k \in 0..n |-> sum[k]]
    BY <1>4, <1>7
<1>9. ASSUME NEW k \in 1..n, sum[k - 1] = g[k - 1] PROVE sum[k] = g[k]
  <2>1. k \in 0..n /\ k # 0
      OBVIOUS
  <2>2. sum[k] = sum[k - 1] + f[k]
      BY <1>7, <2>1
  <2> QED BY <1>5, <1>9, <2>2
<1>10. \A k \in 0..n : sum[k] = g[k]
  <2>1. n \in Nat /\ sum[0] = g[0] /\ \A k \in 1..n : sum[k - 1] = g[k - 1] => sum[k] = g[k]
      BY <1>8, <1>9
  <2> QED BY ONLY <2>1, TurnsAgree
<1>11. sum = g
    BY <1>4, <1>8, <1>10
<1> QED BY <1>4, <1>5, <1>11

\* What SumOf() adds: nothing at 0, and its last place to what is before.
LEMMA SumRec ==
    ASSUME NEW n \in Nat, NEW f, \A k \in 1..n : f[k] \in Int
    PROVE  /\ SumOf(f, n) \in Int /\ SumOf(f, 0) = 0
           /\ n > 0 => SumOf(f, n) = SumOf(f, n - 1) + f[n]
<1>1. PICK s : s = Sums(f, n)
    OBVIOUS
<1>2. s \in [0..n -> Int] /\ s[0] = 0 /\ \A k \in 1..n : s[k] = s[k - 1] + f[k]
    BY <1>1, SumLoop
<1>3. ASSUME NEW m \in 0..n PROVE SumOf(f, m) = s[m]
  <2>1. PICK u : u = Sums(f, m)
      OBVIOUS
  <2>2. m \in Nat /\ \A k \in 1..m : k \in 1..n
      OBVIOUS
  <2>3. u[0] = 0 /\ \A k \in 1..m : u[k] = u[k - 1] + f[k]
      BY <2>1, <2>2, SumLoop
  <2>4. m \in Nat /\ u[0] = s[0] /\ \A k \in 1..m : u[k - 1] = s[k - 1] => u[k] = s[k]
      BY <1>2, <2>2, <2>3
  <2>5. \A k \in 0..m : u[k] = s[k]
      BY ONLY <2>4, TurnsAgree
  <2>6. SumOf(f, m) = u[m]
      BY <2>1 DEF SumOf, Sums
  <2> QED BY <2>5, <2>6
<1>4. n \in 0..n /\ 0 \in 0..n /\ (n > 0 => n - 1 \in 0..n /\ n \in 1..n)
    OBVIOUS
<1> QED BY <1>2, <1>3, <1>4

\* The sums of what agrees place by place, of two parts, of two summands, and
\* of what differs in one place.
LEMMA SumAgree ==
    ASSUME NEW n \in Nat, NEW f, NEW g, \A k \in 1..n : f[k] \in Int /\ g[k] = f[k]
    PROVE  SumOf(g, n) = SumOf(f, n)
<1> DEFINE Good == {m \in 0..n : SumOf(g, m) = SumOf(f, m)}
<1>1. \A m \in 0..n : m \in Nat /\ \A k \in 1..m : f[k] \in Int /\ g[k] \in Int
    OBVIOUS
<1>2. 0 \in Good
    BY <1>1, SumRec
<1>3. ASSUME NEW m \in 1..n, m - 1 \in Good PROVE m \in Good
  <2>1. m \in 0..n /\ m \in Nat /\ m > 0 /\ g[m] = f[m]
      OBVIOUS
  <2>2. SumOf(f, m) = SumOf(f, m - 1) + f[m] /\ SumOf(g, m) = SumOf(g, m - 1) + g[m]
      BY <1>1, <2>1, SumRec
  <2> QED BY <1>3, <2>1, <2>2
<1>4. 0..n \subseteq Good
  <2> HIDE DEF Good
  <2> QED BY <1>2, <1>3, UpTo
<1>5. n \in 0..n
    OBVIOUS
<1> QED BY <1>4, <1>5

\* A sum over m + n places is that over the first m and that over the rest.
LEMMA SumSplit ==
    ASSUME NEW m \in Nat, NEW n \in Nat, NEW f, NEW g, \A k \in 1..(m + n) : f[k] \in Int,
           \A k \in 1..n : g[k] = f[m + k]
    PROVE  SumOf(f, m + n) = SumOf(f, m) + SumOf(g, n)
<1> DEFINE Good == {i \in 0..n : SumOf(f, m + i) = SumOf(f, m) + SumOf(g, i)}
<1>1. ASSUME NEW i \in 0..n PROVE i \in Nat /\ m + i \in Nat /\ \A k \in 1..i : g[k] \in Int
  <2>1. \A k \in 1..i : m + k \in 1..(m + n) /\ k \in 1..n
      OBVIOUS
  <2> QED BY <2>1
<1>2. ASSUME NEW i \in 0..n PROVE \A k \in 1..(m + i) : f[k] \in Int
    OBVIOUS
<1>3. 0 \in Good
  <2>1. SumOf(f, m) \in Int /\ SumOf(g, 0) = 0 /\ m + 0 = m
      BY <1>1, <1>2, SumRec
  <2> QED BY <2>1
<1>4. ASSUME NEW i \in 1..n, i - 1 \in Good PROVE i \in Good
  <2>1. i \in 0..n /\ i > 0 /\ i - 1 \in 0..n /\ m + (i - 1) = (m + i) - 1 /\ m + i > 0
      OBVIOUS
  <2>2. SumOf(f, m + i) = SumOf(f, (m + i) - 1) + f[m + i]
      BY <1>1, <1>2, <2>1, SumRec
  <2>3. SumOf(g, i) = SumOf(g, i - 1) + g[i] /\ g[i] = f[m + i] /\ g[i] \in Int
      BY <1>1, <2>1, SumRec
  <2>4. SumOf(g, i - 1) \in Int /\ SumOf(f, m) \in Int
    <3>1. i - 1 \in Nat /\ (\A k \in 1..(i - 1) : g[k] \in Int) /\ \A k \in 1..m : f[k] \in Int
        BY <1>1, <2>1
    <3> QED BY <3>1, SumRec
  <2>5. SumOf(f, m + (i - 1)) = SumOf(f, m) + SumOf(g, i - 1)
      BY <1>4
  <2> QED BY <2>1, <2>2, <2>3, <2>4, <2>5
<1>5. 0..n \subseteq Good
  <2> HIDE DEF Good
  <2> QED BY <1>3, <1>4, UpTo
<1>6. n \in 0..n
    OBVIOUS
<1> QED BY <1>5, <1>6

\* Sums add place by place.
LEMMA SumPlus ==
    ASSUME NEW n \in Nat, NEW f, NEW g, NEW h,
           \A k \in 1..n : f[k] \in Int /\ g[k] \in Int /\ h[k] = f[k] + g[k]
    PROVE  SumOf(h, n) = SumOf(f, n) + SumOf(g, n)
<1> DEFINE Good == {m \in 0..n : SumOf(h, m) = SumOf(f, m) + SumOf(g, m)}
<1>1. \A m \in 0..n : m \in Nat /\ \A k \in 1..m : f[k] \in Int /\ g[k] \in Int /\ h[k] \in Int
    OBVIOUS
<1>2. 0 \in Good
  <2>1. SumOf(f, 0) = 0 /\ SumOf(g, 0) = 0 /\ SumOf(h, 0) = 0
      BY <1>1, SumRec
  <2> QED BY <2>1
<1>3. ASSUME NEW m \in 1..n, m - 1 \in Good PROVE m \in Good
  <2>1. m \in 0..n /\ m - 1 \in 0..n /\ m \in Nat /\ m > 0 /\ h[m] = f[m] + g[m] /\ f[m] \in Int /\ g[m] \in Int
      OBVIOUS
  <2>2. /\ SumOf(f, m) = SumOf(f, m - 1) + f[m] /\ SumOf(g, m) = SumOf(g, m - 1) + g[m]
        /\ SumOf(h, m) = SumOf(h, m - 1) + h[m]
      BY <1>1, <2>1, SumRec
  <2>3. SumOf(f, m - 1) \in Int /\ SumOf(g, m - 1) \in Int
      BY <1>1, <2>1, SumRec
  <2>4. SumOf(h, m - 1) = SumOf(f, m - 1) + SumOf(g, m - 1)
      BY <1>3
  <2> QED BY <2>1, <2>2, <2>3, <2>4
<1>4. 0..n \subseteq Good
  <2> HIDE DEF Good
  <2> QED BY <1>2, <1>3, UpTo
<1>5. n \in 0..n
    OBVIOUS
<1> QED BY <1>4, <1>5

\* One more at one place is one more in the sum.
LEMMA SumOne ==
    ASSUME NEW n \in Nat, NEW f, NEW g, NEW j \in 1..n, NEW c \in Int,
           \A k \in 1..n : f[k] \in Int /\ g[k] = IF k = j THEN f[k] + c ELSE f[k]
    PROVE  SumOf(g, n) = SumOf(f, n) + c
<1>1. PICK e : e = [k \in 1..n |-> IF k = j THEN c ELSE 0]
    OBVIOUS
<1>2. \A k \in 1..n : f[k] \in Int /\ e[k] \in Int /\ g[k] = f[k] + e[k]
    BY <1>1
<1>3. SumOf(g, n) = SumOf(f, n) + SumOf(e, n)
    BY <1>2, SumPlus
<1> DEFINE Good == {m \in 0..n : SumOf(e, m) = IF j <= m THEN c ELSE 0}
<1>4. \A m \in 0..n : m \in Nat /\ \A k \in 1..m : e[k] \in Int
    BY <1>2
<1>5. 0 \in Good
  <2>1. SumOf(e, 0) = 0
      BY <1>4, SumRec
  <2> QED BY <2>1
<1>6. ASSUME NEW m \in 1..n, m - 1 \in Good PROVE m \in Good
  <2>1. m \in 0..n /\ m \in Nat /\ m > 0 /\ e[m] = IF m = j THEN c ELSE 0
      BY <1>1
  <2>2. SumOf(e, m) = SumOf(e, m - 1) + e[m]
      BY <1>4, <2>1, SumRec
  <2>3. SumOf(e, m - 1) = IF j <= m - 1 THEN c ELSE 0
      BY <1>6
  <2>4. SumOf(e, m) = IF j <= m THEN c ELSE 0
      BY <2>1, <2>2, <2>3
  <2> QED BY <2>1, <2>4
<1>7. 0..n \subseteq Good
  <2> HIDE DEF Good
  <2> QED BY <1>5, <1>6, UpTo
<1>8. n \in 0..n /\ j <= n
    OBVIOUS
<1>9. SumOf(e, n) = c
    BY <1>7, <1>8
<1> QED BY <1>3, <1>9

\* Counting is summing ones.
LEMMA CountIsSum ==
    ASSUME NEW n \in Nat, NEW K, NEW one, \A k \in 1..n : one[k] = IF k \in K THEN 1 ELSE 0
    PROVE  Cardinality({k \in 1..n : k \in K}) = SumOf(one, n)
<1> DEFINE Below(m) == {k \in 1..m : k \in K}
<1> DEFINE Good == {m \in 0..n : IsFiniteSet(Below(m)) /\ Cardinality(Below(m)) = SumOf(one, m)}
<1>1. \A m \in 0..n : m \in Nat /\ \A k \in 1..m : one[k] \in Int
    OBVIOUS
<1>2. 0 \in Good
  <2>1. Below(0) = {}
      OBVIOUS
  <2>2. SumOf(one, 0) = 0
      BY <1>1, SumRec
  <2> QED BY <2>1, <2>2, FS_EmptySet
<1>3. ASSUME NEW m \in 1..n, m - 1 \in Good PROVE m \in Good
  <2>1. m \in 0..n /\ m \in Nat /\ m > 0 /\ one[m] = (IF m \in K THEN 1 ELSE 0) /\ m - 1 \in 0..n
      OBVIOUS
  <2>2. SumOf(one, m) = SumOf(one, m - 1) + one[m] /\ SumOf(one, m - 1) \in Int
      BY <1>1, <2>1, SumRec
  <2>3. PICK B : B = Below(m - 1)
      OBVIOUS
  <2>4. IsFiniteSet(B) /\ Cardinality(B) = SumOf(one, m - 1) /\ m \notin B
      BY <1>3, <2>3
  <2>5. CASE m \in K
    <3>1. Below(m) = B \union {m}
        BY <2>3, <2>5
    <3>2. IsFiniteSet(B \union {m}) /\ Cardinality(B \union {m}) = Cardinality(B) + 1
        BY <2>4, FS_AddElement
    <3> QED BY <2>1, <2>2, <2>4, <2>5, <3>1, <3>2
  <2>6. CASE m \notin K
    <3>1. Below(m) = B
        BY <2>3, <2>6
    <3> QED BY <2>1, <2>2, <2>4, <2>6, <3>1
  <2> QED BY <2>5, <2>6
<1>4. 0..n \subseteq Good
  <2> HIDE DEF Good
  <2> QED BY <1>2, <1>3, UpTo
<1>5. n \in 0..n
    OBVIOUS
<1> QED BY <1>4, <1>5

\* The loop of Power, with all its turns.
Powers(base, n) ==
    LET power[k \in 0..n] == IF k = 0 THEN 1 ELSE base * power[k - 1]
    IN  power

\* The powers of a base, turn by turn.
LEMMA PowerLoop ==
    ASSUME NEW n \in Nat, NEW b \in Int, NEW power, power = Powers(b, n)
    PROVE  power \in [0..n -> Int] /\ power[0] = 1 /\ \A k \in 1..n : power[k] = b * power[k - 1]
<1> DEFINE Rec(h) == [k \in 0..n |-> IF k = 0 THEN 1 ELSE b * h[k - 1]]
<1>1. PICK F : F = [k \in 1..n |-> [t \in Int |-> b * t]]
    OBVIOUS
<1>2. F \in [1..n -> [Int -> Int]]
  <2>1. \A t \in Int : b * t \in Int
      OBVIOUS
  <2> QED BY <1>1, <2>1
<1>3. PICK g \in Turns(n, Int, 1, F) : TRUE
  <2>1. PICK S, base : S = Int /\ base = 1
      OBVIOUS
  <2>2. n \in Nat /\ base \in S /\ F \in [1..n -> [S -> S]]
      BY <1>2, <2>1
  <2>3. Turns(n, S, base, F) # {}
      BY ONLY <2>2, TurnsExist
  <2> QED BY <2>1, <2>3
<1>4. g \in [0..n -> Int] /\ g[0] = 1 /\ \A k \in 1..n : g[k] = F[k][g[k - 1]]
    BY <1>3 DEF Turns
<1>5. ASSUME NEW k \in 1..n PROVE g[k] = b * g[k - 1]
  <2>1. k - 1 \in 0..n
      OBVIOUS
  <2> QED BY <1>1, <1>4, <2>1
<1>6. g = Rec(g)
    BY <1>4, <1>5
<1>7. power = Rec(power)
  <2>1. power = CHOOSE h : h = Rec(h)
      BY DEF Powers
  <2> HIDE DEF Rec
  <2> QED BY <1>6, <2>1
<1>8. power[0] = g[0] /\ power = [k \in 0..n |-> power[k]]
    BY <1>4, <1>7
<1>9. ASSUME NEW k \in 1..n, power[k - 1] = g[k - 1] PROVE power[k] = g[k]
  <2>1. k \in 0..n /\ k # 0
      OBVIOUS
  <2>2. power[k] = b * power[k - 1]
      BY <1>7, <2>1
  <2> QED BY <1>5, <1>9, <2>2
<1>10. \A k \in 0..n : power[k] = g[k]
  <2>1. n \in Nat /\ power[0] = g[0] /\ \A k \in 1..n : power[k - 1] = g[k - 1] => power[k] = g[k]
      BY <1>8, <1>9
  <2> QED BY ONLY <2>1, TurnsAgree
<1>11. power = g
    BY <1>4, <1>8, <1>10
<1> QED BY <1>4, <1>5, <1>11

\* A power is the one before times the base.
LEMMA PowerRec ==
    ASSUME NEW n \in Nat, NEW b \in Int
    PROVE  /\ Power(b, n) \in Int /\ Power(b, 0) = 1
           /\ n > 0 => Power(b, n) = b * Power(b, n - 1)
<1>1. PICK s : s = Powers(b, n)
    OBVIOUS
<1>2. s \in [0..n -> Int] /\ s[0] = 1 /\ \A k \in 1..n : s[k] = b * s[k - 1]
    BY <1>1, PowerLoop
<1>3. ASSUME NEW m \in 0..n PROVE Power(b, m) = s[m]
  <2>1. PICK u : u = Powers(b, m)
      OBVIOUS
  <2>2. m \in Nat /\ \A k \in 1..m : k \in 1..n
      OBVIOUS
  <2>3. u[0] = 1 /\ \A k \in 1..m : u[k] = b * u[k - 1]
      BY <2>1, <2>2, PowerLoop
  <2>4. m \in Nat /\ u[0] = s[0] /\ \A k \in 1..m : u[k - 1] = s[k - 1] => u[k] = s[k]
      BY <1>2, <2>2, <2>3
  <2>5. \A k \in 0..m : u[k] = s[k]
      BY ONLY <2>4, TurnsAgree
  <2>6. Power(b, m) = u[m]
      BY <2>1 DEF Power, Powers
  <2> QED BY <2>5, <2>6
<1>4. n \in 0..n /\ 0 \in 0..n /\ (n > 0 => n - 1 \in 0..n /\ n \in 1..n)
    OBVIOUS
<1> QED BY <1>2, <1>3, <1>4

\* Products of what is at least as large are at least as large.
LEMMA TimesGrows ==
    ASSUME NEW a \in Nat, NEW b \in Nat, NEW c \in Nat, NEW d \in Nat, a <= b, c <= d
    PROVE  a * c \in Nat /\ b * d \in Nat /\ a * c <= b * d
<1>1. PICK x \in Nat, y \in Nat : b = a + x /\ d = c + y
  <2>1. b - a \in Nat /\ d - c \in Nat /\ b = a + (b - a) /\ d = c + (d - c)
      OBVIOUS
  <2> QED BY <2>1
<1>2. a * c \in Nat /\ a * y \in Nat /\ x * c \in Nat /\ x * y \in Nat /\ b * d \in Nat
    BY <1>1
<1>3. b * d = a * c + a * y + x * c + x * y
    BY <1>1
<1> QED BY <1>2, <1>3

\* Powers grow with the base, and those of a base from 1 on are from 1 on.
LEMMA PowerGrows ==
    ASSUME NEW n \in Nat, NEW a \in Nat, NEW b \in Nat, a <= b
    PROVE  Power(a, n) \in Nat /\ Power(b, n) \in Nat /\ Power(a, n) <= Power(b, n)
<1> DEFINE Good == {m \in 0..n : Power(a, m) \in Nat /\ Power(b, m) \in Nat /\ Power(a, m) <= Power(b, m)}
<1>1. 0 \in Good
  <2>1. Power(a, 0) = 1 /\ Power(b, 0) = 1
      BY PowerRec
  <2> QED BY <2>1
<1>2. ASSUME NEW m \in 1..n, m - 1 \in Good PROVE m \in Good
  <2>1. m \in Nat /\ m > 0 /\ a \in Int /\ b \in Int
      OBVIOUS
  <2>2. Power(a, m) = a * Power(a, m - 1) /\ Power(b, m) = b * Power(b, m - 1)
      BY <2>1, PowerRec
  <2>3. PICK p, q : p = Power(a, m - 1) /\ q = Power(b, m - 1)
      OBVIOUS
  <2>4. p \in Nat /\ q \in Nat /\ p <= q
      BY <1>2, <2>3
  <2>5. a * p \in Nat /\ b * q \in Nat /\ a * p <= b * q
      BY ONLY <2>4, TimesGrows, a \in Nat, b \in Nat, a <= b
  <2> QED BY <2>2, <2>3, <2>5
<1>3. 0..n \subseteq Good
  <2> HIDE DEF Good
  <2> QED BY <1>1, <1>2, UpTo
<1>4. n \in 0..n
    OBVIOUS
<1> QED BY <1>3, <1>4

\* What half a step more than current makes of k powers (Bernoulli).
LEMMA PowerStep ==
    ASSUME NEW C \in Nat, C > 0, NEW k \in Nat, NEW p \in Int, NEW q \in Int,
           q > 0, p > q * (C + k), k > 0
    PROVE  (2 * C + 3) * p > (2 * C * q) * (C + (k + 1)) /\ 2 * C * q \in Int /\ 2 * C * q > 0
<1>1. PICK r \in Int : r = q * (C + k)
    OBVIOUS
<1>2. (2 * C + 3) * p > (2 * C + 3) * r
  <2>1. PICK d \in Nat : d > 0 /\ p = r + d
    <3>1. p - r \in Nat /\ p - r > 0 /\ p = r + (p - r)
        BY <1>1
    <3> QED BY <3>1
  <2>2. (2 * C + 3) * d > 0
      BY <2>1
  <2>3. (2 * C + 3) * p = (2 * C + 3) * r + (2 * C + 3) * d
      BY <2>1
  <2>4. (2 * C + 3) * r \in Int /\ (2 * C + 3) * d \in Int
      BY <2>1
  <2> QED BY <2>2, <2>3, <2>4
<1>3. (2 * C + 3) * r = (2 * C * q) * (C + k) + 3 * r
    BY <1>1
<1>4. (2 * C * q) * (C + (k + 1)) = (2 * C * q) * (C + k) + 2 * (C * q)
    OBVIOUS
<1>5. r = C * q + k * q /\ C * q > 0 /\ k * q > 0
    BY <1>1
<1>6. C * q \in Int /\ k * q \in Int /\ (2 * C * q) * (C + k) \in Int /\ (2 * C + 3) * p \in Int /\ (2 * C * q) * (C + (k + 1)) \in Int
    OBVIOUS
<1>7. 3 * r > 2 * (C * q)
    BY <1>5, <1>6
<1>8. 2 * C * q \in Int /\ 2 * C * q > 0
    BY <1>5, <1>6
<1> QED BY <1>2, <1>3, <1>4, <1>6, <1>7, <1>8

\* One more than the half-way mark after the last start that leaves a start to
\* each of the k buckets to come is beyond the scale.
LEMMA PowerBound ==
    ASSUME NEW C \in Nat, C > 0, NEW n \in Nat, n > 0
    PROVE  Power(2 * C + 3, n) > (Power(2, n) * Power(C, n - 1)) * (C + n)
<1> DEFINE q(k) == Power(2, k) * Power(C, k - 1)
<1> DEFINE Good == {m \in 0..n : m > 0 =>
                      q(m) \in Int /\ q(m) > 0 /\ Power(2 * C + 3, m) > q(m) * (C + m)}
<1>1. 0 \in Good
    OBVIOUS
<1>2. ASSUME NEW m \in 1..n, m - 1 \in Good PROVE m \in Good
  <2>1. m \in Nat /\ m > 0 /\ m - 1 \in Nat /\ 2 * C + 3 \in Int /\ C \in Int /\ 2 \in Int
      OBVIOUS
  <2>2. /\ Power(2 * C + 3, m) = (2 * C + 3) * Power(2 * C + 3, m - 1)
        /\ Power(2, m) = 2 * Power(2, m - 1)
        /\ Power(2 * C + 3, m - 1) \in Int /\ Power(2, m - 1) \in Int /\ Power(C, m - 1) \in Int
      BY <2>1, PowerRec
  <2>3. CASE m = 1
    <3>1. Power(2, 0) = 1 /\ Power(C, 0) = 1 /\ Power(2 * C + 3, 0) = 1
        BY <2>1, PowerRec
    <3>2. Power(2, m) = 2 /\ Power(C, m - 1) = 1 /\ Power(2 * C + 3, m) = 2 * C + 3
        BY <2>2, <2>3, <3>1
    <3> QED BY <2>3, <3>2
  <2>4. CASE m # 1
    <3>1. m - 1 > 0 /\ (m - 1) - 1 \in Nat
        BY <2>4
    <3>2. Power(C, m - 1) = C * Power(C, (m - 1) - 1) /\ Power(C, (m - 1) - 1) \in Int
        BY <2>1, <3>1, PowerRec
    <3>3. PICK k : k = m - 1
        OBVIOUS
    <3>4. PICK p, r, t, u : p = Power(2 * C + 3, k) /\ r = q(k) /\ t = Power(2, k) /\ u = Power(C, k - 1)
        OBVIOUS
    <3>5. k \in Nat /\ k > 0 /\ p \in Int /\ r \in Int /\ r > 0 /\ p > r * (C + k) /\ m = k + 1
        BY <1>2, <2>2, <3>1, <3>3, <3>4
    <3>6. (2 * C + 3) * p > (2 * C * r) * (C + (k + 1)) /\ 2 * C * r \in Int /\ 2 * C * r > 0
        BY ONLY <3>5, PowerStep, C \in Nat, C > 0
    <3>7. q(m) = 2 * C * r
      <4>1. q(m) = (2 * t) * (C * u) /\ r = t * u /\ t \in Int /\ u \in Int
          BY <2>2, <3>2, <3>3, <3>4
      <4> HIDE DEF q
      <4>2. (2 * t) * (C * u) = 2 * C * (t * u)
          BY ONLY <4>1, C \in Nat
      <4> QED BY <4>1, <4>2
    <3>8. Power(2 * C + 3, m) = (2 * C + 3) * p
        BY <2>2, <3>3, <3>4
    <3> HIDE DEF q
    <3> QED BY <3>5, <3>6, <3>7, <3>8
  <2> QED BY <2>3, <2>4
<1>3. 0..n \subseteq Good
  <2> HIDE DEF Good
  <2> QED BY <1>1, <1>2, UpTo
<1>4. n \in 0..n
    OBVIOUS
<1>5. Power(2 * C + 3, n) > q(n) * (C + n)
    BY <1>3, <1>4
<1> QED BY <1>5

\* The greatest of a bounded set of naturals, and the least.
LEMMA MaxOf ==
    ASSUME NEW B \in Nat, NEW S, S \subseteq 0..B, S # {}
    PROVE  Max(S) \in S /\ \A y \in S : y <= Max(S)
<1>1. PICK x \in S : \A y \in S : y <= x
    BY GreatestNat
<1>2. \E z \in S : \A y \in S : z >= y
    BY <1>1
<1>3. Max(S) \in S /\ \A y \in S : Max(S) >= y
    BY <1>2 DEF Max
<1> QED BY <1>3

\* The least of a set of naturals.
LEMMA MinOf ==
    ASSUME NEW S, S \subseteq Nat, S # {}
    PROVE  Min(S) \in S /\ \A y \in S : Min(S) <= y
<1>1. PICK x \in S : \A y \in S : x <= y
    BY LeastNat
<1>2. Min(S) \in S /\ \A y \in S : Min(S) <= y
    BY <1>1 DEF Min
<1> QED BY <1>2

\* A start leaves at least one value to each of the k - 1 buckets after it.
LEMMA GrownBounds ==
    ASSUME NEW current \in Nat, current > 0, NEW k \in Nat, k > 0, NEW max \in Nat,
           current <= max - k
    PROVE  Grown(current, max, k) \in Nat /\ current < Grown(current, max, k)
           /\ Grown(current, max, k) <= max - (k - 1)
<1>1. PICK N : N = {0} \union {m \in 1..max : Power(2 * m - 1, k) <= Power(2, k) * Power(current, k - 1) * max}
    OBVIOUS
<1>2. N \subseteq 0..max /\ N # {}
    BY <1>1
<1>3. PICK next : next = NextStart(current, max, k)
    OBVIOUS
<1>4. next = Max(N)
    BY <1>1, <1>3 DEF NextStart
<1>5. next \in N
    BY <1>2, <1>4, MaxOf
<1>6. next <= max - (k - 1)
  <2> SUFFICES ASSUME next > max - (k - 1) PROVE FALSE
      BY <1>2, <1>5
  <2>1. PICK C \in Nat : C = max - k /\ C > 0 /\ max = C + k
      OBVIOUS
  <2>2. next \in 1..max /\ Power(2 * next - 1, k) <= Power(2, k) * Power(current, k - 1) * max
      BY <1>1, <1>2, <1>5, <2>1
  <2>3. 2 * C + 3 <= 2 * next - 1 /\ 2 * C + 3 \in Nat /\ 2 * next - 1 \in Nat
      BY <2>1, <2>2
  <2>4. Power(2 * C + 3, k) <= Power(2 * next - 1, k) /\ Power(2 * next - 1, k) \in Nat /\ Power(2 * C + 3, k) \in Nat
      BY <2>3, PowerGrows
  <2>5. k - 1 \in Nat /\ current <= C /\ 2 <= 2 /\ 2 \in Nat
      BY <2>1
  <2>6. Power(current, k - 1) \in Nat /\ Power(C, k - 1) \in Nat /\ Power(current, k - 1) <= Power(C, k - 1)
      BY <2>5, PowerGrows
  <2>7. Power(2, k) \in Nat
      BY <2>5, PowerGrows
  <2>8. PICK t, u, v, a, b : /\ t = Power(2, k) /\ u = Power(current, k - 1) /\ v = Power(C, k - 1)
                             /\ a = Power(2 * C + 3, k) /\ b = Power(2 * next - 1, k)
      OBVIOUS
  <2>9. t \in Nat /\ u \in Nat /\ v \in Nat /\ u <= v /\ a \in Nat /\ b \in Nat /\ a <= b /\ b <= t * u * max
      BY <2>2, <2>4, <2>6, <2>7, <2>8
  <2>10. a > (t * v) * max
    <3>1. Power(2 * C + 3, k) > (Power(2, k) * Power(C, k - 1)) * (C + k)
        BY <2>1, PowerBound
    <3> QED BY <2>1, <2>8, <3>1
  <2>11. t * u \in Nat /\ t * v \in Nat /\ t * u <= t * v
      BY ONLY <2>9, t <= t, TimesGrows
  <2>12. PICK x, y : x = t * u /\ y = t * v
      OBVIOUS
  <2>13. x \in Nat /\ y \in Nat /\ x <= y /\ max \in Nat /\ max <= max
      BY <2>11, <2>12
  <2>14. x * max \in Nat /\ y * max \in Nat /\ x * max <= y * max
      BY ONLY <2>13, TimesGrows
  <2>15. b <= x * max /\ a > y * max
      BY <2>9, <2>10, <2>12
  <2> QED BY ONLY <2>9, <2>14, <2>15
<1>7. Grown(current, max, k) = IF next > current THEN next ELSE current + 1
    BY <1>3 DEF Grown
<1>8. next \in Nat
    BY <1>2, <1>5
<1> QED BY <1>6, <1>7, <1>8

\* Starts that go up from min to at most max.
Spread(start, min, max, n) ==
    /\ start \in [0..(n - 1) -> Nat] /\ start[0] = 0 /\ start[1] = min
    /\ (\A i \in 2..(n - 1) : start[i - 1] < start[i]) /\ start[n - 1] <= max

\* The starts the loop of InitializeBucketRange() finds.
LEMMA StartsLoop ==
    ASSUME NEW n \in Nat, n > 2, NEW min \in Nat, min > 0, NEW max \in Nat, min <= max - (n - 2),
           NEW start, start = ExponentialStarts(min, max, n)
    PROVE  Spread(start, min, max, n)
<1> DEFINE Rec(h) == [i \in 0..(n - 1) |->
          IF i = 0 THEN 0 ELSE IF i = 1 THEN min ELSE Grown(h[i - 1], max, n - i)]
<1> DEFINE State(i) == {t \in Nat : IF i = 0 THEN t = 0 ELSE t > 0 /\ t <= max - (n - 1 - i)}
<1>1. ASSUME NEW i \in 2..(n - 1), NEW t \in State(i - 1)
      PROVE  Grown(t, max, n - i) \in State(i) /\ t < Grown(t, max, n - i)
  <2>1. i - 1 # 0 /\ n - i \in Nat /\ n - i > 0 /\ t \in Nat /\ t > 0 /\ t <= max - (n - 1 - (i - 1)) /\ i # 0
      OBVIOUS
  <2>2. PICK k : k = n - i
      OBVIOUS
  <2>3. k \in Nat /\ k > 0 /\ t \in Nat /\ t > 0 /\ t <= max - k
      BY <2>1, <2>2
  <2>4. Grown(t, max, k) \in Nat /\ t < Grown(t, max, k) /\ Grown(t, max, k) <= max - (k - 1)
      BY ONLY <2>3, max \in Nat, GrownBounds
  <2>5. PICK g : g = Grown(t, max, k)
      OBVIOUS
  <2>6. g \in Nat /\ g > 0 /\ g <= max - (n - 1 - i)
      BY <2>2, <2>3, <2>4, <2>5
  <2>7. g \in State(i)
      BY <2>1, <2>6
  <2> HIDE DEF State
  <2> QED BY <2>2, <2>4, <2>5, <2>7
<1>2. PICK F : F = [i \in 1..(n - 1) |-> [t \in Nat |->
                     IF i = 1 THEN min ELSE IF t \in State(i - 1) THEN Grown(t, max, n - i) ELSE 0]]
    OBVIOUS
<1>3. F \in [1..(n - 1) -> [Nat -> Nat]]
  <2>1. ASSUME NEW i \in 1..(n - 1), NEW t \in Nat
        PROVE  (IF i = 1 THEN min ELSE IF t \in State(i - 1) THEN Grown(t, max, n - i) ELSE 0) \in Nat
    <3>1. CASE i = 1
        BY <3>1
    <3>2. CASE i # 1 /\ t \in State(i - 1)
      <4>1. Grown(t, max, n - i) \in State(i)
          BY <1>1, <3>2
      <4>2. Grown(t, max, n - i) \in Nat
          BY <4>1
      <4> HIDE DEF State
      <4> QED BY <3>2, <4>2
    <3>3. CASE i # 1 /\ t \notin State(i - 1)
      <4> HIDE DEF State
      <4> QED BY <3>3
    <3> QED BY <3>1, <3>2, <3>3
  <2> HIDE DEF State
  <2> QED BY <1>2, <2>1
<1>4. PICK g \in Turns(n - 1, Nat, 0, F) : TRUE
  <2>1. PICK S, base, N : S = Nat /\ base = 0 /\ N = n - 1
      OBVIOUS
  <2>2. N \in Nat /\ base \in S /\ F \in [1..N -> [S -> S]]
    <3>1. N \in Nat /\ base \in S
        BY <2>1
    <3> HIDE DEF State
    <3> QED BY <1>3, <2>1, <3>1
  <2>3. Turns(N, S, base, F) # {}
      BY ONLY <2>2, TurnsExist
  <2> QED BY <2>1, <2>3
<1>5. g \in [0..(n - 1) -> Nat] /\ g[0] = 0 /\ \A i \in 1..(n - 1) : g[i] = F[i][g[i - 1]]
    BY <1>4 DEF Turns
<1>6. g[1] = min
  <2>1. 1 \in 1..(n - 1) /\ g[1 - 1] \in Nat
      BY <1>5
  <2> HIDE DEF State
  <2> QED BY <1>2, <1>5, <2>1
<1>7. ASSUME NEW i \in 2..(n - 1), g[i - 1] \in State(i - 1)
      PROVE  g[i] = Grown(g[i - 1], max, n - i) /\ g[i] \in State(i) /\ g[i - 1] < g[i]
  <2>3. i \in 1..(n - 1) /\ i # 1 /\ i - 1 \in 0..(n - 1)
      OBVIOUS
  <2>1. i \in 1..(n - 1) /\ i # 1 /\ g[i - 1] \in Nat
      BY <1>5, <2>3
  <2>2. g[i] = Grown(g[i - 1], max, n - i)
    <3> HIDE DEF State
    <3> QED BY <1>2, <1>5, <1>7, <2>1
  <2> HIDE DEF State
  <2> QED BY <1>1, <1>7, <2>2
<1>8. \A i \in 0..(n - 1) : g[i] \in State(i)
  <2> DEFINE Good == {i \in 0..(n - 1) : g[i] \in State(i)}
  <2>1. 0 \in Good
      BY <1>5
  <2>2. ASSUME NEW i \in 1..(n - 1), i - 1 \in Good PROVE i \in Good
    <3>1. CASE i = 1
      <4>1. min \in State(1)
          OBVIOUS
      <4> HIDE DEF State
      <4> QED BY <1>6, <3>1, <4>1
    <3>2. CASE i # 1
      <4>1. i \in 2..(n - 1)
          BY <3>2
      <4> HIDE DEF State
      <4> QED BY <1>7, <2>2, <4>1
    <3> QED BY <3>1, <3>2
  <2>3. n - 1 \in Nat
      OBVIOUS
  <2>4. 0..(n - 1) \subseteq Good
    <3> HIDE DEF Good
    <3> QED BY <2>1, <2>2, <2>3, UpTo
  <2> QED BY <2>4
<1>9. ASSUME NEW i \in 2..(n - 1) PROVE g[i] = Grown(g[i - 1], max, n - i) /\ g[i - 1] < g[i]
  <2>1. i - 1 \in 0..(n - 1)
      OBVIOUS
  <2> HIDE DEF State
  <2> QED BY <1>7, <1>8, <2>1
<1>10. g = Rec(g)
  <2>1. \A i \in 0..(n - 1) : i = 0 \/ i = 1 \/ i \in 2..(n - 1)
      OBVIOUS
  <2> QED BY <1>5, <1>6, <1>9, <2>1
<1>11. start = Rec(start)
  <2>1. start = CHOOSE h : h = Rec(h)
      BY DEF ExponentialStarts
  <2> HIDE DEF Rec
  <2> QED BY <1>10, <2>1
<1>12. start[0] = g[0] /\ start = [i \in 0..(n - 1) |-> start[i]]
    BY <1>5, <1>11
<1>13. ASSUME NEW i \in 1..(n - 1), start[i - 1] = g[i - 1] PROVE start[i] = g[i]
  <2>1. i \in 0..(n - 1) /\ i # 0
      OBVIOUS
  <2>2. start[i] = IF i = 1 THEN min ELSE Grown(start[i - 1], max, n - i)
      BY <1>11, <2>1
  <2>3. i = 1 \/ i \in 2..(n - 1)
      OBVIOUS
  <2> QED BY <1>6, <1>9, <1>13, <2>2, <2>3
<1>14. \A i \in 0..(n - 1) : start[i] = g[i]
  <2>1. PICK N : N = n - 1
      OBVIOUS
  <2>2. N \in Nat /\ start[0] = g[0] /\ \A i \in 1..N : start[i - 1] = g[i - 1] => start[i] = g[i]
    <3>1. N \in Nat
        BY <2>1
    <3>2. \A i \in 1..N : start[i - 1] = g[i - 1] => start[i] = g[i]
        BY <1>13, <2>1
    <3> QED BY <1>12, <3>1, <3>2
  <2>3. \A i \in 0..N : start[i] = g[i]
      BY ONLY <2>2, TurnsAgree
  <2> QED BY <2>1, <2>3
<1>15. start = g
    BY <1>5, <1>12, <1>14
<1>16. \A i \in 0..(n - 1) : g[i] <= max
  <2>1. \A i \in 0..(n - 1) : \A t \in State(i) : t <= max
      OBVIOUS
  <2> HIDE DEF State
  <2> QED BY <1>8, <2>1
<1>17. n - 1 \in 0..(n - 1)
    OBVIOUS
<1>18. Spread(g, min, max, n)
    BY <1>5, <1>6, <1>9, <1>16, <1>17 DEF Spread
<1> QED BY <1>15, <1>18

\* How division orders, and what it makes of a product.
LEMMA Quotient ==
    ASSUME NEW a \in Nat, NEW d \in Nat, d > 0
    PROVE  /\ a \div d \in Nat /\ a % d \in 0..(d - 1)
           /\ a = d * (a \div d) + (a % d)
<1>1. a \div d \in Int /\ a % d \in 0..(d - 1) /\ a = d * (a \div d) + (a % d)
    OBVIOUS
<1>2. a \div d >= 0
  <2> SUFFICES ASSUME a \div d < 0 PROVE FALSE
      BY <1>1
  <2>1. PICK e \in Nat : a \div d = 0 - (1 + e)
    <3>1. 0 - (a \div d) - 1 \in Nat /\ a \div d = 0 - (1 + (0 - (a \div d) - 1))
        BY <1>1
    <3> QED BY <3>1
  <2>2. d * (a \div d) = 0 - (d + d * e) /\ d * e \in Nat
      BY <2>1
  <2> QED BY <1>1, <2>2
<1> QED BY <1>1, <1>2

\* What a quotient is.
LEMMA QuotientOf ==
    ASSUME NEW q \in Nat, NEW r \in Nat, NEW d \in Nat, r < d
    PROVE  (d * q + r) \div d = q
<1>1. PICK a \in Int : a = d * q + r
    OBVIOUS
<1>2. a \in Int /\ d \in Nat /\ q \in Int /\ r \in 0..(d - 1) /\ a = d * q + r
    BY <1>1
<1>3. a \div d = q
    BY ONLY <1>2, DivisionIs
<1> QED BY <1>1, <1>3

\* A dividend that is larger by the divisor has a larger quotient.
LEMMA QuotientGrows ==
    ASSUME NEW a \in Nat, NEW c \in Nat, NEW d \in Nat, d > 0, a + d <= c
    PROVE  a \div d < c \div d
<1>1. PICK x \in Nat, y \in 0..(d - 1) : x = a \div d /\ a = d * x + y
    BY Quotient
<1>2. PICK z \in Nat, w \in 0..(d - 1) : z = c \div d /\ c = d * z + w
    BY Quotient
<1>3. SUFFICES ASSUME z <= x PROVE FALSE
    BY <1>1, <1>2
<1>4. PICK e \in Nat : x = z + e
  <2>1. x - z \in Nat /\ x = z + (x - z)
      BY <1>3
  <2> QED BY <2>1
<1>5. d * x = d * z + d * e /\ d * e \in Nat /\ d * z \in Nat
    BY <1>4
<1> QED BY <1>1, <1>2, <1>5

\* The evenly spaced starts go from min to max.
LEMMA LinearLoop ==
    ASSUME NEW n \in Nat, n > 2, NEW min \in Nat, min > 0, NEW max \in Nat, min <= max - (n - 2),
           NEW start, start = LinearStarts(min, max, n)
    PROVE  Spread(start, min, max, n)
<1> DEFINE Twice(i) == 2 * (min * (n - 1 - i) + max * (i - 1)) + (n - 2)
<1>1. PICK d \in Nat : d > 0 /\ d = 2 * (n - 2) /\ n - 2 < d
    OBVIOUS
<1>2. start = [i \in 0..(n - 1) |-> IF i = 0 THEN 0 ELSE Twice(i) \div d]
    BY <1>1 DEF LinearStarts
<1>3. ASSUME NEW i \in 1..(n - 1) PROVE Twice(i) \in Nat
  <2>1. n - 1 - i \in Nat /\ i - 1 \in Nat /\ n - 2 \in Nat
      OBVIOUS
  <2>2. min * (n - 1 - i) \in Nat /\ max * (i - 1) \in Nat
      BY <2>1
  <2> QED BY <2>1, <2>2
<1>4. ASSUME NEW i \in 2..(n - 1) PROVE Twice(i - 1) + d <= Twice(i)
  <2>1. PICK e \in Nat : max = min + (n - 2) + e
    <3>1. max - min - (n - 2) \in Nat /\ max = min + (n - 2) + (max - min - (n - 2))
        OBVIOUS
    <3> QED BY <3>1
  <2>2. PICK a \in Nat, b \in Nat : a = n - 1 - i /\ b = i - 2
    <3>1. n - 1 - i \in Nat /\ i - 2 \in Nat
        OBVIOUS
    <3> QED BY <3>1
  <2>3. Twice(i) = 2 * (min * a + max * (b + 1)) + (n - 2)
    <3>1. i - 1 = b + 1
        BY <2>2
    <3> QED BY <2>2, <3>1
  <2>4. Twice(i - 1) = 2 * (min * (a + 1) + max * b) + (n - 2)
    <3>1. n - 1 - (i - 1) = a + 1 /\ (i - 1) - 1 = b
        BY <2>2
    <3> QED BY <3>1
  <2>5. min * (a + 1) = min * a + min /\ max * (b + 1) = max * b + max
      OBVIOUS
  <2>6. min * a \in Nat /\ max * b \in Nat
      OBVIOUS
  <2> HIDE DEF Twice
  <2> QED BY <1>1, <2>1, <2>3, <2>4, <2>5, <2>6
<1>5. ASSUME NEW i \in 1..(n - 1) PROVE start[i] = Twice(i) \div d /\ start[i] \in Nat
  <2>1. i \in 0..(n - 1) /\ i # 0
      OBVIOUS
  <2>2. Twice(i) \div d \in Nat
    <3> HIDE DEF Twice
    <3> QED BY <1>1, <1>3, Quotient
  <2> HIDE DEF Twice
  <2> QED BY <1>2, <2>1, <2>2
<1>6. start[1] = min
  <2>1. Twice(1) = d * min + (n - 2)
      BY <1>1
  <2>2. n - 2 \in Nat /\ 1 \in 1..(n - 1)
      OBVIOUS
  <2>3. Twice(1) \div d = min
    <3> HIDE DEF Twice
    <3>1. PICK r : r = n - 2
        OBVIOUS
    <3>2. r \in Nat /\ r < d /\ d \in Nat /\ min \in Nat
        BY <1>1, <2>2, <3>1
    <3>3. (d * min + r) \div d = min
        BY ONLY <3>2, QuotientOf
    <3> QED BY <2>1, <3>1, <3>3
  <2> HIDE DEF Twice
  <2> QED BY <1>5, <2>2, <2>3
<1>7. start[n - 1] = max
  <2>1. Twice(n - 1) = d * max + (n - 2)
    <3>1. n - 1 - (n - 1) = 0 /\ (n - 1) - 1 = n - 2
        OBVIOUS
    <3>2. Twice(n - 1) = 2 * (min * 0 + max * (n - 2)) + (n - 2)
        BY <3>1
    <3> QED BY <1>1, <3>2
  <2>2. n - 2 \in Nat /\ n - 1 \in 1..(n - 1)
      OBVIOUS
  <2>3. Twice(n - 1) \div d = max
    <3> HIDE DEF Twice
    <3>1. PICK r : r = n - 2
        OBVIOUS
    <3>2. r \in Nat /\ r < d /\ d \in Nat /\ max \in Nat
        BY <1>1, <2>2, <3>1
    <3>3. (d * max + r) \div d = max
        BY ONLY <3>2, QuotientOf
    <3> QED BY <2>1, <3>1, <3>3
  <2> HIDE DEF Twice
  <2> QED BY <1>5, <2>2, <2>3
<1>8. ASSUME NEW i \in 2..(n - 1) PROVE start[i - 1] < start[i]
  <2>1. i \in 1..(n - 1) /\ i - 1 \in 1..(n - 1)
      OBVIOUS
  <2>2. PICK a, c : a = Twice(i - 1) /\ c = Twice(i)
      OBVIOUS
  <2> HIDE DEF Twice
  <2>3. a \in Nat /\ c \in Nat /\ d \in Nat /\ d > 0 /\ a + d <= c
      BY <1>1, <1>3, <1>4, <2>1, <2>2
  <2>4. a \div d < c \div d
      BY ONLY <2>3, QuotientGrows
  <2> QED BY <1>5, <2>1, <2>2, <2>4
<1>9. start[0] = 0 /\ start = [i \in 0..(n - 1) |-> start[i]]
  <2>1. 0 \in 0..(n - 1)
      OBVIOUS
  <2> HIDE DEF Twice
  <2> QED BY <1>2, <2>1
<1>10. ASSUME NEW i \in 0..(n - 1) PROVE start[i] \in Nat
  <2>1. i = 0 \/ i \in 1..(n - 1)
      OBVIOUS
  <2> HIDE DEF Twice
  <2>2. CASE i = 0
    <3>1. start[0] \in Nat
        BY <1>9
    <3> QED BY <2>2, <3>1
  <2>3. CASE i \in 1..(n - 1)
      BY <1>5, <2>3
  <2> QED BY <2>1, <2>2, <2>3
<1>11. start \in [0..(n - 1) -> Nat]
    BY <1>9, <1>10
<1>12. max <= max
    OBVIOUS
<1> HIDE DEF Twice
<1> QED BY <1>6, <1>7, <1>8, <1>9, <1>11, <1>12 DEF Spread

\* Taking the least value left, n times, takes the values in order.
LEMMA InOrderLoop ==
    ASSUME NEW values, values \subseteq Nat, IsFiniteSet(values), 0 \in values,
           NEW n, n = Cardinality(values), NEW sorted, sorted = InOrder(values, n)
    PROVE  /\ n \in Nat /\ n > 0 /\ sorted \in [0..(n - 1) -> values] /\ sorted[0] = 0
           /\ \A i \in 1..(n - 1) : sorted[i - 1] < sorted[i]
<1> DEFINE Rec(h) == [i \in 0..(n - 1) |->
          IF i = 0 THEN Min(values) ELSE Min({v \in values : v > h[i - 1]})]
<1> DEFINE UpToValue(v) == {w \in values : w <= v}
<1> DEFINE Place(i) == {v \in values : Cardinality(UpToValue(v)) = i + 1}
<1>1. n \in Nat /\ n > 0
  <2>1. n \in Nat /\ (n = 0 <=> values = {})
      BY FS_CardinalityType, FS_EmptySet
  <2> QED BY <2>1
<1>2. Min(values) = 0 /\ 0 \in Place(0)
  <2>1. Min(values) \in values /\ Min(values) <= 0
      BY MinOf
  <2>2. Min(values) = 0
    <3>1. Min(values) \in Nat
        BY <2>1
    <3> QED BY <2>1, <3>1
  <2>3. UpToValue(0) = {0}
    <3>1. \A w \in values : w \in Nat
        OBVIOUS
    <3>2. \A w \in UpToValue(0) : w = 0
        BY <3>1
    <3>3. 0 \in UpToValue(0)
        OBVIOUS
    <3> QED BY <3>2, <3>3
  <2>4. Cardinality({0}) = 1
      BY FS_Singleton
  <2>5. Cardinality(UpToValue(0)) = 0 + 1
      BY <2>3, <2>4
  <2> QED BY <2>2, <2>5
<1>3. ASSUME NEW i \in 1..(n - 1), NEW t \in Place(i - 1)
      PROVE  Min({v \in values : v > t}) \in Place(i) /\ t < Min({v \in values : v > t})
  <2>1. PICK R : R = {v \in values : v > t}
      OBVIOUS
  <2>2. PICK B : B = UpToValue(t)
      OBVIOUS
  <2>3. t \in values /\ Cardinality(B) = i /\ B \subseteq values
      BY <2>2
  <2>4. R # {}
    <3>1. SUFFICES ASSUME R = {} PROVE FALSE
        OBVIOUS
    <3>2. \A v \in values : v <= t
        BY <2>1, <2>3, <3>1
    <3>3. B = values
        BY <2>2, <3>2
    <3> QED BY <1>1, <2>3, <3>3
  <2>5. PICK m : m = Min(R)
      OBVIOUS
  <2>6. R \subseteq Nat
      BY <2>1
  <2>7. m \in R /\ \A y \in R : m <= y
      BY <2>4, <2>5, <2>6, MinOf
  <2>8. m \in values /\ t < m /\ m \notin B
      BY <2>1, <2>2, <2>7
  <2>9. UpToValue(m) = B \union {m}
    <3>1. ASSUME NEW w \in values, w <= m PROVE w \in B \union {m}
      <4>1. CASE w <= t
          BY <2>2, <4>1
      <4>2. CASE w > t
        <5>1. w \in R
            BY <2>1, <4>2
        <5> QED BY <2>7, <2>8, <3>1, <5>1
      <4> QED BY <2>3, <4>1, <4>2
    <3>2. \A w \in B : w \in values /\ w <= m
        BY <2>2, <2>3, <2>8
    <3>3. m <= m
        BY <2>8
    <3> QED BY <2>8, <3>1, <3>2, <3>3
  <2>10. IsFiniteSet(B)
      BY <2>3, FS_Subset
  <2>11. Cardinality(B \union {m}) = Cardinality(B) + 1
      BY <2>8, <2>10, FS_AddElement
  <2>12. Cardinality(UpToValue(m)) = i + 1
      BY <2>3, <2>9, <2>11
  <2>13. m \in Place(i)
      BY <2>8, <2>12
  <2> HIDE DEF Place
  <2> QED BY <2>1, <2>5, <2>8, <2>13
<1>4. PICK F : F = [i \in 1..(n - 1) |-> [t \in Nat |->
                     IF t \in Place(i - 1) THEN Min({v \in values : v > t}) ELSE 0]]
    OBVIOUS
<1>5. \A i : Place(i) \subseteq values
    OBVIOUS
<1> HIDE DEF Place
<1>6. F \in [1..(n - 1) -> [Nat -> Nat]]
  <2>1. ASSUME NEW i \in 1..(n - 1), NEW t \in Nat
        PROVE  (IF t \in Place(i - 1) THEN Min({v \in values : v > t}) ELSE 0) \in Nat
    <3>1. CASE t \in Place(i - 1)
      <4>1. Min({v \in values : v > t}) \in Nat
          BY <1>3, <1>5, <3>1
      <4> QED BY <3>1, <4>1
    <3>2. CASE t \notin Place(i - 1)
        BY <3>2
    <3> QED BY <3>1, <3>2
  <2> QED BY <1>4, <2>1
<1>7. PICK g \in Turns(n - 1, Nat, 0, F) : TRUE
  <2>1. PICK S, base, N : S = Nat /\ base = 0 /\ N = n - 1
      OBVIOUS
  <2>2. N \in Nat /\ base \in S /\ F \in [1..N -> [S -> S]]
    <3>1. N \in Nat /\ base \in S
        BY <1>1, <2>1
    <3> QED BY <1>6, <2>1, <3>1
  <2>3. Turns(N, S, base, F) # {}
      BY ONLY <2>2, TurnsExist
  <2> QED BY <2>1, <2>3
<1>8. g \in [0..(n - 1) -> Nat] /\ g[0] = 0 /\ \A i \in 1..(n - 1) : g[i] = F[i][g[i - 1]]
    BY <1>7 DEF Turns
<1>9. ASSUME NEW i \in 1..(n - 1), g[i - 1] \in Place(i - 1)
      PROVE  g[i] = Min({v \in values : v > g[i - 1]}) /\ g[i] \in Place(i) /\ g[i - 1] < g[i]
  <2>1. g[i - 1] \in Nat
      BY <1>1, <1>8
  <2>2. g[i] = Min({v \in values : v > g[i - 1]})
      BY <1>4, <1>8, <1>9, <2>1
  <2> QED BY <1>3, <1>9, <2>2
<1>10. \A i \in 0..(n - 1) : g[i] \in Place(i)
  <2> DEFINE Good == {i \in 0..(n - 1) : g[i] \in Place(i)}
  <2>1. 0 \in Good
      BY <1>1, <1>2, <1>8
  <2>2. ASSUME NEW i \in 1..(n - 1), i - 1 \in Good PROVE i \in Good
    <3>1. i \in 0..(n - 1) /\ g[i - 1] \in Place(i - 1)
        BY <1>1, <2>2
    <3>2. g[i] \in Place(i)
        BY <1>9, <3>1
    <3> QED BY <3>1, <3>2
  <2>3. n - 1 \in Nat
      BY <1>1
  <2>4. 0..(n - 1) \subseteq Good
    <3> HIDE DEF Good
    <3> QED BY <2>1, <2>2, <2>3, UpTo
  <2> QED BY <2>4
<1>11. ASSUME NEW i \in 1..(n - 1)
       PROVE  g[i] = Min({v \in values : v > g[i - 1]}) /\ g[i - 1] < g[i]
  <2>1. i - 1 \in 0..(n - 1)
      BY <1>1
  <2> QED BY <1>9, <1>10, <2>1
<1>12. g = Rec(g)
  <2>1. \A i \in 0..(n - 1) : i = 0 \/ i \in 1..(n - 1)
      BY <1>1
  <2> QED BY <1>2, <1>8, <1>11, <2>1
<1>13. sorted = Rec(sorted)
  <2>1. sorted = CHOOSE h : h = Rec(h)
      BY DEF InOrder
  <2> HIDE DEF Rec
  <2> QED BY <1>12, <2>1
<1>14. sorted[0] = g[0] /\ sorted = [i \in 0..(n - 1) |-> sorted[i]]
  <2>1. 0 \in 0..(n - 1)
      BY <1>1
  <2> QED BY <1>2, <1>8, <1>13, <2>1
<1>15. ASSUME NEW i \in 1..(n - 1), sorted[i - 1] = g[i - 1] PROVE sorted[i] = g[i]
  <2>1. i \in 0..(n - 1) /\ i # 0
      BY <1>1
  <2>2. sorted[i] = Min({v \in values : v > sorted[i - 1]})
      BY <1>13, <2>1
  <2> QED BY <1>11, <1>15, <2>2
<1>16. \A i \in 0..(n - 1) : sorted[i] = g[i]
  <2>1. PICK N : N = n - 1
      OBVIOUS
  <2>2. N \in Nat /\ sorted[0] = g[0] /\ \A i \in 1..N : sorted[i - 1] = g[i - 1] => sorted[i] = g[i]
    <3>1. N \in Nat
        BY <1>1, <2>1
    <3>2. \A i \in 1..N : sorted[i - 1] = g[i - 1] => sorted[i] = g[i]
        BY <1>15, <2>1
    <3> QED BY <1>14, <3>1, <3>2
  <2>3. \A i \in 0..N : sorted[i] = g[i]
      BY ONLY <2>2, TurnsAgree
  <2> QED BY <2>1, <2>3
<1>17. sorted = g
    BY <1>8, <1>14, <1>16
<1>18. g \in [0..(n - 1) -> values]
    BY <1>5, <1>8, <1>10
<1> QED BY <1>1, <1>8, <1>11, <1>17, <1>18

----------------------------------------------------------------------------
(* The factories.                                                           *)

\* A histogram whose buckets are not empty and cover 0..SampleMax-1.
Sound(h) ==
    /\ h.n \in Nat /\ h.n > 0
    /\ h.ranges \in [0..h.n -> Int]
    /\ h.ranges[0] = 0 /\ h.ranges[h.n] = SampleMax
    /\ \A i \in 1..h.n : h.ranges[i - 1] < h.ranges[i]

\* Increasing starts from 0 that end below SampleMax give a sound histogram.
LEMMA RangesSound ==
    ASSUME HistogramAssumption, NEW n \in Nat, n > 0, NEW start, start \in [0..(n - 1) -> Int],
           start[0] = 0, \A i \in 1..(n - 1) : start[i - 1] < start[i], start[n - 1] < SampleMax,
           NEW h, h.n = n, h.ranges = Ranges(n, start)
    PROVE  Sound(h)
<1>1. PICK bounds : bounds = Ranges(n, start)
    OBVIOUS
<1>2. SampleMax \in Int
    BY DEF HistogramAssumption
<1>3. \A i \in 0..n : i # n => i \in 0..(n - 1)
    OBVIOUS
<1>4. bounds = [i \in 0..n |-> IF i = n THEN SampleMax ELSE start[i]]
    BY <1>1 DEF Ranges
<1>5. bounds \in [0..n -> Int]
    BY <1>2, <1>3, <1>4
<1>6. bounds[n] = SampleMax
    BY <1>4
<1>7. \A i \in 0..(n - 1) : bounds[i] = start[i]
    BY <1>4
<1>8. bounds[0] = 0
    BY <1>7
<1>9. ASSUME NEW i \in 1..n PROVE bounds[i - 1] < bounds[i]
  <2>1. i - 1 \in 0..(n - 1)
      OBVIOUS
  <2>2. CASE i = n
      BY <1>6, <1>7, <2>1, <2>2
  <2>3. CASE i # n
    <3>1. i \in 1..(n - 1) /\ i \in 0..(n - 1)
        BY <2>3
    <3> QED BY <1>7, <2>1, <3>1
  <2> QED BY <2>2, <2>3
<1>10. PICK r : r = h.ranges
    OBVIOUS
<1>11. r = bounds
    BY <1>1, <1>10
<1>12. h.n \in Nat /\ h.n > 0
    OBVIOUS
<1>13. h.ranges \in [0..h.n -> Int]
    BY <1>5, <1>10, <1>11
<1>14. h.ranges[0] = 0 /\ h.ranges[h.n] = SampleMax
    BY <1>6, <1>8, <1>10, <1>11
<1>15. \A i \in 1..h.n : h.ranges[i - 1] < h.ranges[i]
    BY <1>9, <1>10, <1>11
<1> QED BY <1>12, <1>13, <1>14, <1>15 DEF Sound

\* FactoryGet() of a proper request, of either class.
LEMMA FactorySound ==
    ASSUME HistogramAssumption, NEW class, class \in {"exponential", "linear"},
           NEW minimum \in Int, NEW maximum \in Int, NEW n \in Int, n > 2,
           AtLeast(minimum, 1) < AtMost(maximum, SampleMax - 1),
           n <= AtMost(maximum, SampleMax - 1) - AtLeast(minimum, 1) + 2
    PROVE  Sound(FactoryGet(class, minimum, maximum, n))
<1>1. PICK min, max : min = AtLeast(minimum, 1) /\ max = AtMost(maximum, SampleMax - 1)
    OBVIOUS
<1>2. min \in Int /\ min >= 1 /\ max \in Int /\ max <= SampleMax - 1 /\ min < max /\ n <= max - min + 2
      /\ SampleMax \in Nat
    BY <1>1 DEF AtLeast, AtMost, HistogramAssumption
<1>3. n \in Nat /\ min \in Nat /\ min > 0 /\ max \in Nat /\ min <= max - (n - 2) /\ max < SampleMax
    BY <1>2
<1>4. PICK start : start = IF class = "exponential" THEN ExponentialStarts(min, max, n) ELSE LinearStarts(min, max, n)
    OBVIOUS
<1>5. /\ start \in [0..(n - 1) -> Nat] /\ start[0] = 0 /\ start[1] = min
      /\ (\A i \in 2..(n - 1) : start[i - 1] < start[i]) /\ start[n - 1] <= max
  <2>1. Spread(ExponentialStarts(min, max, n), min, max, n) /\ Spread(LinearStarts(min, max, n), min, max, n)
      BY <1>3, StartsLoop, LinearLoop
  <2>2. Spread(start, min, max, n)
      BY <1>4, <2>1
  <2> QED BY ONLY <2>2 DEF Spread
<1>6. start \in [0..(n - 1) -> Int] /\ start[n - 1] < SampleMax
  <2>1. n - 1 \in 0..(n - 1)
      BY <1>3
  <2> QED BY <1>2, <1>5, <2>1
<1>7. \A i \in 1..(n - 1) : start[i - 1] < start[i]
  <2>1. \A i \in 1..(n - 1) : i = 1 \/ i \in 2..(n - 1)
      BY <1>3
  <2>2. start[1 - 1] < start[1]
      BY <1>3, <1>5
  <2> QED BY <1>5, <2>1, <2>2
<1>8. PICK h : h = FactoryGet(class, minimum, maximum, n)
    OBVIOUS
<1>9. h.n = n /\ h.ranges = Ranges(n, start)
    BY <1>1, <1>4, <1>8 DEF FactoryGet
<1>10. Sound(h)
  <2>1. n > 0
      BY <1>3
  <2> QED BY ONLY HistogramAssumption, <1>3, <1>5, <1>6, <1>7, <1>9, <2>1, RangesSound
<1> QED BY <1>8, <1>10

\* The custom ranges are among the values of a sample, and so are the guarded.
LEMMA CustomSound ==
    ASSUME HistogramAssumption, NEW custom \in Seq(Int), ProperCustom(custom)
    PROVE  Sound(CustomFactoryGet(custom))
<1>1. PICK values : values = CustomValues(custom)
    OBVIOUS
<1>2. PICK given : given = {custom[i] : i \in DOMAIN custom}
    OBVIOUS
<1>3. SampleMax \in Nat /\ SampleMax > 2
    BY DEF HistogramAssumption
<1>4. given \subseteq 0..(SampleMax - 1)
    BY <1>2 DEF ProperCustom
<1>5. values = IF {0} \union given = {0} THEN {0, 1} ELSE {0} \union given
    BY <1>1, <1>2 DEF CustomValues
<1>6. values \subseteq 0..(SampleMax - 1) /\ 0 \in values
  <2>1. 0 \in 0..(SampleMax - 1) /\ 1 \in 0..(SampleMax - 1)
      BY <1>3
  <2> QED BY <1>4, <1>5, <2>1
<1>7. IsFiniteSet(values)
  <2>1. IsFiniteSet(0..(SampleMax - 1))
      BY <1>3, FS_Interval
  <2> QED BY <1>6, <2>1, FS_Subset
<1>8. PICK n, start : n = Cardinality(values) /\ start = InOrder(values, n)
    OBVIOUS
<1>9. /\ n \in Nat /\ n > 0 /\ start \in [0..(n - 1) -> values] /\ start[0] = 0
      /\ \A i \in 1..(n - 1) : start[i - 1] < start[i]
  <2>1. values \subseteq Nat
      BY <1>6
  <2> QED BY ONLY <1>6, <1>7, <1>8, <2>1, InOrderLoop
<1>10. start \in [0..(n - 1) -> Int] /\ start[n - 1] < SampleMax
  <2>1. n - 1 \in 0..(n - 1)
      BY <1>9
  <2>2. \A v \in values : v \in Int /\ v < SampleMax
      BY <1>3, <1>6
  <2> QED BY <1>9, <2>1, <2>2
<1>11. PICK h : h = CustomFactoryGet(custom)
    OBVIOUS
<1>12. h.n = n /\ h.ranges = Ranges(n, start)
    BY <1>1, <1>8, <1>11 DEF CustomFactoryGet
<1>13. Sound(h)
    BY ONLY HistogramAssumption, <1>9, <1>10, <1>12, RangesSound
<1> QED BY <1>11, <1>13

\* Values with their guards are integers.
LEMMA GuardedRanges ==
    ASSUME NEW values \in Seq(Int)
    PROVE  ArrayToCustomRanges(values) \in Seq(Int)
<1>1. PICK m : m = Len(values)
    OBVIOUS
<1>2. m \in Nat /\ \A j \in 1..m : values[j] \in Int
    BY <1>1
<1>3. PICK a : a = [i \in 1..(2 * m) |-> values[(i + 1) \div 2] + ((i + 1) % 2)]
    OBVIOUS
<1>4. 2 * m \in Nat
    BY <1>2
<1>5. ASSUME NEW i \in 1..(2 * m) PROVE values[(i + 1) \div 2] + ((i + 1) % 2) \in Int
  <2>1. (i + 1) \div 2 \in 1..m /\ (i + 1) % 2 \in Int
      BY <1>2
  <2> QED BY <1>2, <2>1
<1>6. a \in [1..(2 * m) -> Int]
    BY <1>3, <1>5
<1>7. a \in Seq(Int)
    BY <1>4, <1>6
<1>8. a = ArrayToCustomRanges(values)
    BY <1>1, <1>3 DEF ArrayToCustomRanges
<1> QED BY <1>7, <1>8

\* Descriptions do not touch the ranges.
LEMMA DescribedSound ==
    ASSUME NEW h, Sound(h)
    PROVE  Sound([h EXCEPT !.described = Described]) /\ Sound([h EXCEPT !.described = {}])
    BY DEF Sound

\* Every histogram Init may start with is sound.
LEMMA StartSound ==
    ASSUME HistogramAssumption, HistogramInit
    PROVE  Sound(histogram) /\ Start(histogram)
<1>1. CASE \E a \in Arguments : Proper(a) /\ Start(SetRangeDescriptions(FactoryGet(a[1], a[2], a[3], a[4])))
  <2>1. PICK a \in Arguments : Proper(a) /\ Start(SetRangeDescriptions(FactoryGet(a[1], a[2], a[3], a[4])))
      BY <1>1
  <2>2. PICK class, minimum, maximum, n : class = a[1] /\ minimum = a[2] /\ maximum = a[3] /\ n = a[4]
      OBVIOUS
  <2>3. class \in {"exponential", "linear"} /\ minimum \in Int /\ maximum \in Int /\ n \in Int
    <3>1. a[1] \in {"exponential", "linear"} /\ \A i \in 2..4 : a[i] \in Int
        BY DEF HistogramAssumption
    <3>2. 2 \in 2..4 /\ 3 \in 2..4 /\ 4 \in 2..4
        OBVIOUS
    <3> QED BY <2>2, <3>1, <3>2
  <2>4. /\ n > 2 /\ AtLeast(minimum, 1) < AtMost(maximum, SampleMax - 1)
        /\ n <= AtMost(maximum, SampleMax - 1) - AtLeast(minimum, 1) + 2
      BY <2>1, <2>2 DEF Proper
  <2>5. Sound(FactoryGet(class, minimum, maximum, n))
      BY ONLY HistogramAssumption, <2>3, <2>4, FactorySound
  <2>6. PICK h : h = FactoryGet(class, minimum, maximum, n)
      OBVIOUS
  <2>7. Sound(SetRangeDescriptions(h))
      BY <2>5, <2>6, DescribedSound DEF SetRangeDescriptions
  <2>8. histogram = SetRangeDescriptions(h) /\ Start(SetRangeDescriptions(h))
      BY <2>1, <2>2, <2>6 DEF Start
  <2> QED BY <2>7, <2>8
<1>2. CASE Start(SetRangeDescriptions(BooleanFactoryGet))
  <2>1. /\ AtLeast(1, 1) = 1 /\ AtMost(2, SampleMax - 1) = 2
        /\ AtLeast(1, 1) < AtMost(2, SampleMax - 1) /\ 3 <= AtMost(2, SampleMax - 1) - AtLeast(1, 1) + 2
    <3>1. SampleMax \in Nat /\ SampleMax > 2
        BY DEF HistogramAssumption
    <3> QED BY <3>1 DEF AtLeast, AtMost
  <2>2. "linear" \in {"exponential", "linear"} /\ 1 \in Int /\ 2 \in Int /\ 3 \in Int /\ 3 > 2
      OBVIOUS
  <2>3. Sound(FactoryGet("linear", 1, 2, 3))
      BY ONLY HistogramAssumption, <2>1, <2>2, FactorySound
  <2>4. PICK f : f = FactoryGet("linear", 1, 2, 3)
      OBVIOUS
  <2>5. PICK h : h = BooleanFactoryGet
      OBVIOUS
  <2>6. Sound(h)
    <3>1. Sound(f) /\ h = [f EXCEPT !.class = "boolean"]
        BY <2>3, <2>4, <2>5 DEF BooleanFactoryGet
    <3> QED BY ONLY <3>1 DEF Sound
  <2>7. Sound(SetRangeDescriptions(h))
      BY <2>6, DescribedSound DEF SetRangeDescriptions
  <2>8. histogram = SetRangeDescriptions(h) /\ Start(SetRangeDescriptions(h))
      BY <1>2, <2>5 DEF Start
  <2> QED BY <2>7, <2>8
<1>3. CASE \E c \in Customs : \E bounds \in {c, ArrayToCustomRanges(c)} :
             ProperCustom(bounds) /\ Start(CustomFactoryGet(bounds))
  <2> PICK c \in Customs : \E bounds \in {c, ArrayToCustomRanges(c)} :
             ProperCustom(bounds) /\ Start(CustomFactoryGet(bounds))
      BY <1>3
  <2>1. PICK bounds \in {c, ArrayToCustomRanges(c)} :
             ProperCustom(bounds) /\ Start(CustomFactoryGet(bounds))
      OBVIOUS
  <2>2. c \in Seq(Int)
      BY DEF HistogramAssumption
  <2>3. bounds \in Seq(Int)
      BY <2>2, GuardedRanges
  <2>4. Sound(CustomFactoryGet(bounds))
      BY <2>1, <2>3, CustomSound
  <2>5. histogram = CustomFactoryGet(bounds)
      BY <2>1 DEF Start
  <2> QED BY <2>1, <2>4, <2>5
<1> QED BY <1>1, <1>2, <1>3 DEF HistogramInit

\* Starts further on are greater.
LEMMA RangesGrow ==
    ASSUME NEW h, Sound(h), NEW i \in 0..h.n, NEW j \in 0..h.n, i <= j
    PROVE  h.ranges[i] <= h.ranges[j] /\ (i < j => h.ranges[i] < h.ranges[j])
<1>1. PICK n, r : n = h.n /\ r = h.ranges
    OBVIOUS
<1>2. n \in Nat /\ r \in [0..n -> Int] /\ (\A k \in 1..n : r[k - 1] < r[k]) /\ i \in 0..n /\ j \in 0..n
    BY <1>1 DEF Sound
<1> DEFINE Good == {d \in 0..(j - i) : r[i] <= r[i + d] /\ (0 < d => r[i] < r[i + d])}
<1>3. 0 \in Good
  <2>1. i + 0 = i /\ r[i] \in Int /\ j - i \in Nat
      BY <1>2
  <2> QED BY <2>1
<1>4. ASSUME NEW d \in 1..(j - i), d - 1 \in Good PROVE d \in Good
  <2>1. PICK k : k = i + d
      OBVIOUS
  <2>2. k \in 1..n /\ k - 1 = i + (d - 1) /\ k - 1 \in 0..n /\ k \in 0..n /\ d \in 0..(j - i)
      BY <1>2, <2>1
  <2>3. r[i] <= r[k - 1] /\ r[k - 1] < r[k] /\ r[i] \in Int /\ r[k - 1] \in Int /\ r[k] \in Int
      BY <1>2, <1>4, <2>2
  <2> QED BY <2>1, <2>2, <2>3
<1>5. j - i \in Nat /\ j - i \in 0..(j - i) /\ i + (j - i) = j
    BY <1>2
<1>6. 0..(j - i) \subseteq Good
  <2> HIDE DEF Good
  <2> QED BY <1>3, <1>4, <1>5, UpTo
<1>7. j - i \in Good
    BY <1>5, <1>6
<1>8. r[i] <= r[j] /\ (i < j => r[i] < r[j])
    BY <1>2, <1>5, <1>7
<1> QED BY <1>1, <1>8

\* A value is in one bucket only.
LEMMA OneBucket ==
    ASSUME NEW h, Sound(h), NEW i \in 0..(h.n - 1), NEW j \in 0..(h.n - 1), NEW value \in Int,
           h.ranges[i] <= value, value < h.ranges[i + 1], h.ranges[j] <= value, value < h.ranges[j + 1]
    PROVE  i = j
<1>1. h.n \in Nat /\ h.ranges \in [0..h.n -> Int]
    BY DEF Sound
<1>2. /\ i \in 0..h.n /\ j \in 0..h.n /\ i + 1 \in 0..h.n /\ j + 1 \in 0..h.n
      /\ i \in Int /\ j \in Int
    BY <1>1
<1>3. h.ranges[i] \in Int /\ h.ranges[j] \in Int /\ h.ranges[i + 1] \in Int /\ h.ranges[j + 1] \in Int
    BY <1>1, <1>2
<1>4. CASE i < j
  <2>1. h.ranges[i + 1] <= h.ranges[j]
      BY <1>2, <1>4, RangesGrow
  <2> QED BY <1>3, <2>1
<1>5. CASE j < i
  <2>1. h.ranges[j + 1] <= h.ranges[i]
      BY <1>2, <1>5, RangesGrow
  <2> QED BY <1>3, <2>1
<1> QED BY <1>2, <1>4, <1>5

----------------------------------------------------------------------------
(* BucketIndex(): the binary search.                                        *)

\* What holds of the binary search before turn t + 1: the value lies between,
\* and each turn so far has taken a bucket at least away.
Searching(h, value, t, s) ==
    /\ s \in [under : 0..h.n, over : 0..h.n] /\ s.under < s.over
    /\ h.ranges[s.under] <= value /\ value < h.ranges[s.over]
    /\ s.over - s.under <= 1 \/ s.over - s.under <= h.n - t

\* A turn of the search keeps the value between and takes a bucket away.
LEMMA HalveStep ==
    ASSUME NEW h, Sound(h), NEW value \in Int, NEW t \in 1..h.n, NEW s, Searching(h, value, t - 1, s)
    PROVE  Searching(h, value, t, Halve(h, value, s))
<1>1. PICK n, r, u, o : n = h.n /\ r = h.ranges /\ u = s.under /\ o = s.over
    OBVIOUS
<1>2. n \in Nat /\ n > 0 /\ r \in [0..n -> Int] /\ t \in 1..n
    BY <1>1 DEF Sound
<1>3. /\ u \in 0..n /\ o \in 0..n /\ u < o /\ r[u] <= value /\ value < r[o]
      /\ o - u <= 1 \/ o - u <= n - (t - 1)
    BY <1>1 DEF Searching
<1>4. PICK mid : mid = u + (o - u) \div 2
    OBVIOUS
<1>5. mid \in Int /\ (o - u = 1 => mid = u) /\ (o - u > 1 => u < mid /\ mid < o)
    BY <1>2, <1>3, <1>4
<1>6. Halve(h, value, s) = IF mid = u THEN s ELSE IF r[mid] <= value THEN [under |-> mid, over |-> o]
                           ELSE [under |-> u, over |-> mid]
    BY <1>1, <1>4 DEF Halve
<1>7. CASE mid = u
  <2>1. o - u <= 1
      BY <1>3, <1>5, <1>7
  <2>2. s.over - s.under <= 1
      BY <1>1, <2>1
  <2>3. Halve(h, value, s) = s
      BY <1>6, <1>7
  <2> QED BY <2>2, <2>3 DEF Searching
<1>8. CASE mid # u
  <2>1. o - u > 1 /\ u < mid /\ mid < o /\ mid \in 0..n /\ r[mid] \in Int
      BY <1>2, <1>3, <1>5, <1>8
  <2>2. o - mid <= n - t /\ mid - u <= n - t
      BY <1>2, <1>3, <2>1
  <2>3. CASE r[mid] <= value
    <3>1. PICK x : x = Halve(h, value, s)
        OBVIOUS
    <3>2. x = [under |-> mid, over |-> o]
        BY <1>6, <1>8, <2>3, <3>1
    <3>3. x \in [under : 0..n, over : 0..n] /\ x.under = mid /\ x.over = o
        BY <1>3, <2>1, <3>2
    <3>4. Searching(h, value, t, x)
        BY <1>1, <1>3, <2>1, <2>2, <2>3, <3>3 DEF Searching
    <3> QED BY <3>1, <3>4
  <2>4. CASE ~(r[mid] <= value)
    <3>1. PICK x : x = Halve(h, value, s)
        OBVIOUS
    <3>2. x = [under |-> u, over |-> mid]
        BY <1>6, <1>8, <2>4, <3>1
    <3>3. x \in [under : 0..n, over : 0..n] /\ x.under = u /\ x.over = mid
        BY <1>3, <2>1, <3>2
    <3>4. value < r[mid]
        BY <2>1, <2>4
    <3>5. Searching(h, value, t, x)
        BY <1>1, <1>3, <2>1, <2>2, <3>3, <3>4 DEF Searching
    <3> QED BY <3>1, <3>5
  <2> QED BY <2>3, <2>4
<1> QED BY <1>7, <1>8

Searches(h, value) ==
    LET search[t \in 0..h.n] ==
          IF t = 0 THEN [under |-> 0, over |-> h.n] ELSE Halve(h, value, search[t - 1])
    IN  search

\* The search finds the bucket of the value.
LEMMA SearchEnds ==
    ASSUME NEW h, Sound(h), NEW value \in 0..(SampleMax - 1), NEW index, index = BucketIndex(h, value)
    PROVE  index \in 0..(h.n - 1) /\ h.ranges[index] <= value /\ value < h.ranges[index + 1]
<1>1. PICK n, whole : n = h.n /\ whole = [under |-> 0, over |-> n]
    OBVIOUS
<1>2. n \in Nat /\ n > 0 /\ h.ranges \in [0..n -> Int] /\ h.ranges[0] = 0 /\ h.ranges[n] = SampleMax
    BY <1>1 DEF Sound
<1>3. value \in Int /\ 0 <= value /\ value < SampleMax
  <2>1. SampleMax \in Int
    <3>1. n \in 0..n
        BY <1>2
    <3> QED BY <1>2, <3>1
  <2> QED BY <2>1
<1> DEFINE Rec(f) == [t \in 0..n |-> IF t = 0 THEN whole ELSE Halve(h, value, f[t - 1])]
<1> DEFINE S == [under : 0..n, over : 0..n]
<1>4. whole \in S /\ Searching(h, value, 0, whole)
  <2>1. whole \in S /\ whole.under = 0 /\ whole.over = n
      BY <1>1, <1>2
  <2> QED BY <1>1, <1>2, <1>3, <2>1 DEF Searching
<1>5. PICK F : F = [t \in 1..n |-> [s \in S |->
                     IF Searching(h, value, t - 1, s) THEN Halve(h, value, s) ELSE s]]
    OBVIOUS
<1>6. ASSUME NEW t, NEW s, Searching(h, value, t, s) PROVE s \in S
    BY <1>1, <1>6 DEF Searching
<1> HIDE DEF S
<1>7. F \in [1..n -> [S -> S]]
  <2>1. ASSUME NEW t \in 1..n, NEW s \in S
        PROVE  (IF Searching(h, value, t - 1, s) THEN Halve(h, value, s) ELSE s) \in S
    <3>1. CASE Searching(h, value, t - 1, s)
      <4>1. Searching(h, value, t, Halve(h, value, s))
          BY <1>1, <1>3, <3>1, HalveStep
      <4>2. Halve(h, value, s) \in S
          BY <1>6, <4>1
      <4> QED BY <3>1, <4>2
    <3>2. CASE ~Searching(h, value, t - 1, s)
        BY <3>2
    <3> QED BY <3>1, <3>2
  <2> QED BY <1>5, <2>1
<1>8. PICK g \in Turns(n, S, whole, F) : TRUE
  <2>1. n \in Nat /\ whole \in S /\ F \in [1..n -> [S -> S]]
      BY <1>2, <1>4, <1>7
  <2>2. Turns(n, S, whole, F) # {}
      BY ONLY <2>1, TurnsExist
  <2> QED BY <2>2
<1>9. g \in [0..n -> S] /\ g[0] = whole /\ \A t \in 1..n : g[t] = F[t][g[t - 1]]
    BY <1>8 DEF Turns
<1>10. ASSUME NEW t \in 1..n, Searching(h, value, t - 1, g[t - 1])
       PROVE  g[t] = Halve(h, value, g[t - 1]) /\ Searching(h, value, t, g[t])
  <2>1. g[t - 1] \in S
      BY <1>6, <1>10
  <2>2. g[t] = Halve(h, value, g[t - 1])
      BY <1>5, <1>9, <1>10, <2>1
  <2>3. Searching(h, value, t, Halve(h, value, g[t - 1]))
      BY <1>1, <1>3, <1>10, HalveStep
  <2> QED BY <2>2, <2>3
<1>11. \A t \in 0..n : Searching(h, value, t, g[t])
  <2> DEFINE Good == {t \in 0..n : Searching(h, value, t, g[t])}
  <2>1. 0 \in Good
      BY <1>2, <1>4, <1>9
  <2>2. ASSUME NEW t \in 1..n, t - 1 \in Good PROVE t \in Good
    <3>1. t \in 0..n /\ Searching(h, value, t - 1, g[t - 1])
        BY <2>2
    <3>2. Searching(h, value, t, g[t])
        BY <1>10, <3>1
    <3> QED BY <3>1, <3>2
  <2>3. 0..n \subseteq Good
    <3> HIDE DEF Good
    <3> QED BY <1>2, <2>1, <2>2, UpTo
  <2> QED BY <2>3
<1>12. ASSUME NEW t \in 1..n PROVE g[t] = Halve(h, value, g[t - 1])
  <2>1. t - 1 \in 0..n
      BY <1>2
  <2> QED BY <1>10, <1>11, <2>1
<1>13. g = Rec(g)
    BY <1>2, <1>9, <1>12
<1>14. PICK search : search = Searches(h, value)
    OBVIOUS
<1>15. search = Rec(search)
  <2>1. search = CHOOSE f : f = Rec(f)
      BY <1>1, <1>14 DEF Searches
  <2> HIDE DEF Rec
  <2> QED BY <1>13, <2>1
<1>16. search[0] = g[0]
    BY <1>2, <1>9, <1>15
<1>17. ASSUME NEW t \in 1..n, search[t - 1] = g[t - 1] PROVE search[t] = g[t]
  <2>1. t \in 0..n /\ t # 0
      BY <1>2
  <2>2. search[t] = Halve(h, value, search[t - 1])
      BY <1>15, <2>1
  <2> QED BY <1>12, <1>17, <2>2
<1>18. \A t \in 0..n : search[t] = g[t]
  <2>1. n \in Nat /\ search[0] = g[0] /\ \A t \in 1..n : search[t - 1] = g[t - 1] => search[t] = g[t]
      BY <1>2, <1>16, <1>17
  <2> QED BY ONLY <2>1, TurnsAgree
<1>19. PICK last : last = g[n]
    OBVIOUS
<1>20. index = last.under
  <2>1. index = search[n].under
      BY <1>1, <1>14 DEF BucketIndex, Searches
  <2>2. n \in 0..n
      BY <1>2
  <2> QED BY <1>18, <1>19, <2>1, <2>2
<1>21. Searching(h, value, n, last)
  <2>1. n \in 0..n
      BY <1>2
  <2> QED BY <1>11, <1>19, <2>1
<1>22. PICK u, o : u = last.under /\ o = last.over
    OBVIOUS
<1>23. /\ u \in 0..n /\ o \in 0..n /\ u < o /\ h.ranges[u] <= value /\ value < h.ranges[o]
       /\ o - u <= 1 \/ o - u <= n - n
    BY <1>1, <1>21, <1>22 DEF Searching
<1>24. o = u + 1 /\ u \in 0..(n - 1)
    BY <1>2, <1>23
<1> QED BY <1>1, <1>20, <1>22, <1>23, <1>24

----------------------------------------------------------------------------
(* Samples in buckets.                                                       *)

\* How many of the values fall into a bucket.
Fall(h, values, i) ==
    Cardinality({k \in DOMAIN values : h.ranges[i] <= values[k] /\ values[k] < h.ranges[i + 1]})

Total(counts, n) == SumOf([k \in 1..n |-> counts[k - 1]], n)

\* One for each value that falls into the bucket, none for the others.
Ones(h, i, values, one) ==
    \A k \in 1..Len(values) :
      one[k] = IF h.ranges[i] <= values[k] /\ values[k] < h.ranges[i + 1] THEN 1 ELSE 0

\* How many values fall into a bucket, as a sum of ones.
LEMMA FallIsSum ==
    ASSUME NEW h, NEW i, NEW values \in Seq(Int), NEW one, Ones(h, i, values, one)
    PROVE  Fall(h, values, i) = SumOf(one, Len(values)) /\ Fall(h, values, i) \in Int
<1>0. PICK m : m = Len(values)
    OBVIOUS
<1>1. m \in Nat /\ DOMAIN values = 1..m
    BY <1>0
<1>2. PICK K : K = {k \in 1..m : h.ranges[i] <= values[k] /\ values[k] < h.ranges[i + 1]}
    OBVIOUS
<1>3. \A k \in 1..m : one[k] = IF k \in K THEN 1 ELSE 0
    BY <1>0, <1>2 DEF Ones
<1>4. Cardinality({k \in 1..m : k \in K}) = SumOf(one, m)
    BY <1>1, <1>3, CountIsSum
<1>5. {k \in 1..m : k \in K} = K
    BY <1>2
<1>6. Fall(h, values, i) = Cardinality(K)
    BY <1>1, <1>2 DEF Fall
<1>7. SumOf(one, m) \in Int
  <2>1. \A k \in 1..m : one[k] \in Int
      BY <1>3
  <2> QED BY <1>1, <2>1, SumRec
<1> QED BY <1>0, <1>4, <1>5, <1>6, <1>7

\* What falls into a bucket of two lists adds up.
LEMMA FallConcat ==
    ASSUME NEW h, NEW i, NEW b \in Seq(Int), NEW a \in Seq(Int)
    PROVE  /\ Fall(h, b, i) \in Int /\ Fall(h, a, i) \in Int
           /\ Fall(h, b \o a, i) = Fall(h, b, i) + Fall(h, a, i)
<1>1. PICK m, n, c : m = Len(b) /\ n = Len(a) /\ c = b \o a
    OBVIOUS
<1>2. /\ m \in Nat /\ n \in Nat /\ c \in Seq(Int) /\ Len(c) = m + n
      /\ (\A k \in 1..m : c[k] = b[k]) /\ \A k \in 1..n : c[m + k] = a[k]
  <2>1. c \in Seq(Int) /\ Len(c) = m + n
      BY <1>1
  <2>2. \A k \in 1..m : c[k] = b[k]
      BY <1>1
  <2>3. \A k \in 1..n : c[m + k] = a[k]
      BY <1>1
  <2> QED BY <1>1, <2>1, <2>2, <2>3
<1>3. PICK x : x = [k \in 1..m |-> IF h.ranges[i] <= b[k] /\ b[k] < h.ranges[i + 1] THEN 1 ELSE 0]
    OBVIOUS
<1>4. PICK y : y = [k \in 1..n |-> IF h.ranges[i] <= a[k] /\ a[k] < h.ranges[i + 1] THEN 1 ELSE 0]
    OBVIOUS
<1>5. PICK z : z = [k \in 1..(m + n) |-> IF h.ranges[i] <= c[k] /\ c[k] < h.ranges[i + 1] THEN 1 ELSE 0]
    OBVIOUS
<1>6. Fall(h, b, i) = SumOf(x, m) /\ Fall(h, b, i) \in Int
  <2>1. Ones(h, i, b, x) /\ b \in Seq(Int) /\ Len(b) = m
      BY <1>1, <1>3 DEF Ones
  <2> QED BY <2>1, FallIsSum
<1>7. Fall(h, a, i) = SumOf(y, n) /\ Fall(h, a, i) \in Int
  <2>1. Ones(h, i, a, y) /\ a \in Seq(Int) /\ Len(a) = n
      BY <1>1, <1>4 DEF Ones
  <2> QED BY <2>1, FallIsSum
<1>8. Fall(h, c, i) = SumOf(z, m + n)
  <2>1. Ones(h, i, c, z) /\ c \in Seq(Int) /\ Len(c) = m + n
      BY <1>2, <1>5 DEF Ones
  <2> QED BY <2>1, FallIsSum
<1>9. \A k \in 1..(m + n) : z[k] \in Int
    BY <1>5
<1>10. ASSUME NEW k \in 1..n PROVE y[k] = z[m + k]
  <2>1. m + k \in 1..(m + n)
      BY <1>2
  <2>2. c[m + k] = a[k]
      BY <1>2
  <2> QED BY <1>4, <1>5, <2>1, <2>2
<1>11. ASSUME NEW k \in 1..m PROVE x[k] = z[k] /\ z[k] \in Int
  <2>1. k \in 1..(m + n) /\ c[k] = b[k]
      BY <1>2
  <2> QED BY <1>3, <1>5, <2>1
<1>12. SumOf(z, m + n) = SumOf(z, m) + SumOf(y, n)
  <2>1. m \in Nat /\ n \in Nat
      BY <1>2
  <2> QED BY ONLY <1>9, <1>10, <2>1, SumSplit
<1>13. SumOf(x, m) = SumOf(z, m)
    BY <1>2, <1>11, SumAgree
<1> QED BY <1>1, <1>6, <1>7, <1>8, <1>12, <1>13

\* So does their sum.
LEMMA SumConcat ==
    ASSUME NEW b \in Seq(Int), NEW a \in Seq(Int)
    PROVE  /\ SumOf(b, Len(b)) \in Int /\ SumOf(a, Len(a)) \in Int
           /\ SumOf(b \o a, Len(b \o a)) = SumOf(b, Len(b)) + SumOf(a, Len(a))
<1>1. PICK m, n, c : m = Len(b) /\ n = Len(a) /\ c = b \o a
    OBVIOUS
<1>2. /\ m \in Nat /\ n \in Nat /\ Len(c) = m + n
      /\ (\A k \in 1..m : c[k] = b[k]) /\ (\A k \in 1..n : c[m + k] = a[k])
  <2>1. Len(c) = m + n
      BY <1>1
  <2>2. \A k \in 1..m : c[k] = b[k]
      BY <1>1
  <2>3. \A k \in 1..n : c[m + k] = a[k]
      BY <1>1
  <2> QED BY <1>1, <2>1, <2>2, <2>3
<1>3. \A k \in 1..(m + n) : c[k] \in Int
    BY <1>1
<1>4. SumOf(c, m + n) = SumOf(c, m) + SumOf(a, n)
  <2>1. \A k \in 1..n : a[k] = c[m + k]
      BY <1>2
  <2>2. m \in Nat /\ n \in Nat
      BY <1>2
  <2> QED BY ONLY <1>3, <2>1, <2>2, SumSplit
<1>5. SumOf(b, m) = SumOf(c, m)
  <2>1. \A k \in 1..m : c[k] \in Int /\ b[k] = c[k]
      BY <1>1, <1>2
  <2> QED BY <1>2, <2>1, SumAgree
<1>6. SumOf(b, m) \in Int /\ SumOf(a, n) \in Int
  <2>1. (\A k \in 1..m : b[k] \in Int) /\ \A k \in 1..n : a[k] \in Int
      BY <1>1
  <2> QED BY <1>2, <2>1, SumRec
<1> QED BY <1>1, <1>2, <1>4, <1>5, <1>6

\* One value falls into the bucket that the search finds.
LEMMA OneFalls ==
    ASSUME NEW h, Sound(h), NEW value \in 0..(SampleMax - 1), NEW index, index = BucketIndex(h, value),
           NEW i \in 0..(h.n - 1)
    PROVE  Fall(h, <<value>>, i) = IF i = index THEN 1 ELSE 0
<1>1. index \in 0..(h.n - 1) /\ h.ranges[index] <= value /\ value < h.ranges[index + 1]
    BY SearchEnds
<1>2. value \in Int
    OBVIOUS
<1>3. h.ranges[i] <= value /\ value < h.ranges[i + 1] => i = index
    BY <1>1, <1>2, OneBucket
<1>4. PICK v, m : v = <<value>> /\ m = 1
    OBVIOUS
<1>5. v \in Seq(Int) /\ Len(v) = m /\ v[1] = value
    BY <1>2, <1>4
<1>6. PICK c : c = IF i = index THEN 1 ELSE 0
    OBVIOUS
<1>7. PICK one : one = [k \in 1..1 |-> c]
    OBVIOUS
<1>8. Ones(h, i, v, one)
    BY <1>1, <1>3, <1>4, <1>5, <1>6, <1>7 DEF Ones
<1>9. Fall(h, v, i) = SumOf(one, m)
    BY <1>5, <1>8, FallIsSum
<1>10. SumOf(one, 1) = SumOf(one, 1 - 1) + one[1] /\ SumOf(one, 0) = 0
  <2>1. \A k \in 1..1 : one[k] \in Int
      BY <1>6, <1>7
  <2>2. 1 \in Nat /\ 1 > 0
      OBVIOUS
  <2> QED BY <2>1, <2>2, SumRec
<1>11. one[1] = c /\ c \in Int
    BY <1>6, <1>7
<1>12. SumOf(one, 1) = c
  <2>1. 1 - 1 = 0
      OBVIOUS
  <2> QED BY <1>10, <1>11, <2>1
<1> QED BY <1>4, <1>6, <1>9, <1>12

\* A SampleSet counts the values it was given.
Describes(h, s, values) ==
    /\ s.counts \in [Buckets(h) -> Int]
    /\ \A i \in Buckets(h) : s.counts[i] = Fall(h, values, i)
    /\ s.sum = SumOf(values, Len(values)) /\ s.redundant_count = Len(values)
    /\ TotalCount(s) = Len(values)

\* TotalCount() as the sum of all counts.
LEMMA TotalIsSum ==
    ASSUME NEW h, Sound(h), NEW s, s.counts \in [Buckets(h) -> Int]
    PROVE  TotalCount(s) = Total(s.counts, h.n)
<1>1. PICK n : n = h.n
    OBVIOUS
<1>2. n \in Nat /\ n > 0
    BY <1>1 DEF Sound
<1>3. DOMAIN s.counts = 0..(n - 1)
    BY <1>1 DEF Buckets
<1>4. Cardinality(0..(n - 1)) = n
  <2>1. 0 \in Int /\ n - 1 \in Int /\ ~(0 > n - 1) /\ (n - 1) - 0 + 1 = n
      BY <1>2
  <2>2. Cardinality(0..(n - 1)) = IF 0 > n - 1 THEN 0 ELSE (n - 1) - 0 + 1
      BY <2>1, FS_Interval
  <2> QED BY <2>1, <2>2
<1> QED BY <1>1, <1>3, <1>4 DEF TotalCount, Total

\* Totals add bucket by bucket.
LEMMA TotalSum ==
    ASSUME NEW n \in Nat, NEW a \in [0..(n - 1) -> Int], NEW b \in [0..(n - 1) -> Int],
           NEW c \in [0..(n - 1) -> Int], \A i \in 0..(n - 1) : c[i] = a[i] + b[i]
    PROVE  Total(c, n) = Total(a, n) + Total(b, n) /\ Total(a, n) \in Int /\ Total(b, n) \in Int
<1>1. PICK x, y, z : /\ x = [k \in 1..n |-> a[k - 1]] /\ y = [k \in 1..n |-> b[k - 1]]
                     /\ z = [k \in 1..n |-> c[k - 1]]
    OBVIOUS
<1>2. ASSUME NEW k \in 1..n PROVE x[k] \in Int /\ y[k] \in Int /\ z[k] = x[k] + y[k]
  <2>1. k - 1 \in 0..(n - 1)
      OBVIOUS
  <2> QED BY <1>1, <2>1
<1>3. SumOf(z, n) = SumOf(x, n) + SumOf(y, n)
    BY <1>2, SumPlus
<1>4. SumOf(x, n) \in Int /\ SumOf(y, n) \in Int
    BY <1>2, SumRec
<1> QED BY <1>1, <1>3, <1>4 DEF Total

\* A new set counts nothing.
LEMMA EmptyDescribed ==
    ASSUME NEW h, Sound(h)
    PROVE  Describes(h, SampleSet(h), <<>>)
<1>1. PICK n, s, v, zeros : n = h.n /\ s = SampleSet(h) /\ v = <<>> /\ zeros = [i \in 0..(n - 1) |-> 0]
    OBVIOUS
<1>2. n \in Nat /\ n > 0 /\ Buckets(h) = 0..(n - 1)
    BY <1>1 DEF Sound, Buckets
<1>3. s.counts = zeros /\ s.sum = 0 /\ s.redundant_count = 0
    BY <1>1, <1>2 DEF SampleSet
<1>4. v \in Seq(Int) /\ Len(v) = 0
    BY <1>1
<1>5. SumOf(v, 0) = 0
  <2>1. \A k \in 1..0 : v[k] \in Int
      OBVIOUS
  <2> QED BY <2>1, SumRec
<1>6. ASSUME NEW i PROVE Fall(h, v, i) = 0
  <2>1. Ones(h, i, v, v)
      BY <1>4 DEF Ones
  <2> QED BY <1>4, <1>5, <2>1, FallIsSum
<1>7. zeros \in [0..(n - 1) -> Int]
    BY <1>1
<1>8. Total(zeros, n) = 0
  <2>1. \A i \in 0..(n - 1) : zeros[i] = zeros[i] + zeros[i]
      BY <1>1
  <2>2. Total(zeros, n) = Total(zeros, n) + Total(zeros, n) /\ Total(zeros, n) \in Int
      BY ONLY <1>2, <1>7, <2>1, TotalSum
  <2> QED BY ONLY <2>2, OnlyZero
<1>9. TotalCount(s) = 0
    BY <1>1, <1>2, <1>3, <1>7, <1>8, TotalIsSum
<1>10. \A i \in Buckets(h) : s.counts[i] = Fall(h, v, i)
    BY <1>1, <1>2, <1>3, <1>6
<1>11. Describes(h, s, v)
    BY <1>2, <1>3, <1>4, <1>5, <1>7, <1>9, <1>10 DEF Describes
<1> QED BY <1>1, <1>11

\* Sets add up as their values do.
LEMMA SumDescribed ==
    ASSUME NEW h, Sound(h), NEW a \in Seq(Int), NEW b \in Seq(Int), NEW s, NEW t, NEW u,
           u.counts \in [Buckets(h) -> Int], \A i \in Buckets(h) : u.counts[i] = t.counts[i] + s.counts[i],
           u.sum = t.sum + s.sum, u.redundant_count = t.redundant_count + s.redundant_count,
           s.counts \in [Buckets(h) -> Int], t.counts \in [Buckets(h) -> Int]
    PROVE  /\ Describes(h, s, a) /\ Describes(h, t, b) => Describes(h, u, b \o a)
           /\ Describes(h, u, b \o a) /\ Describes(h, t, b)
              /\ s.sum \in Int /\ s.redundant_count \in Int => Describes(h, s, a)
<1>1. PICK n, c, m, l : n = h.n /\ c = b \o a /\ m = Len(b) /\ l = Len(a)
    OBVIOUS
<1>2. n \in Nat /\ n > 0 /\ Buckets(h) = 0..(n - 1)
    BY <1>1 DEF Sound, Buckets
<1>3. m \in Nat /\ l \in Nat /\ Len(c) = m + l
    BY <1>1
<1>4. PICK sc, tc, uc : sc = s.counts /\ tc = t.counts /\ uc = u.counts
    OBVIOUS
<1>5. /\ sc \in [0..(n - 1) -> Int] /\ tc \in [0..(n - 1) -> Int] /\ uc \in [0..(n - 1) -> Int]
      /\ \A i \in 0..(n - 1) : uc[i] = tc[i] + sc[i]
    BY <1>2, <1>4
<1>6. Total(uc, n) = Total(tc, n) + Total(sc, n) /\ Total(tc, n) \in Int /\ Total(sc, n) \in Int
    BY ONLY <1>2, <1>5, TotalSum
<1>7. TotalCount(u) = TotalCount(t) + TotalCount(s) /\ TotalCount(t) \in Int /\ TotalCount(s) \in Int
  <2>1. TotalCount(u) = Total(uc, n) /\ TotalCount(t) = Total(tc, n) /\ TotalCount(s) = Total(sc, n)
      BY <1>1, <1>4, TotalIsSum
  <2> QED BY <1>6, <2>1
<1>8. PICK su, sv : su = SumOf(b, m) /\ sv = SumOf(a, l)
    OBVIOUS
<1>9. su \in Int /\ sv \in Int /\ SumOf(c, Len(c)) = su + sv
    BY <1>1, <1>8, SumConcat
<1>10. ASSUME NEW i PROVE Fall(h, b, i) \in Int /\ Fall(h, a, i) \in Int /\ Fall(h, c, i) = Fall(h, b, i) + Fall(h, a, i)
    BY <1>1, FallConcat
<1>11. ASSUME Describes(h, s, a), Describes(h, t, b) PROVE Describes(h, u, c)
  <2>1. \A i \in Buckets(h) : u.counts[i] = Fall(h, c, i)
    <3>1. ASSUME NEW i \in Buckets(h) PROVE u.counts[i] = Fall(h, c, i)
      <4>1. s.counts[i] = Fall(h, a, i) /\ t.counts[i] = Fall(h, b, i)
          BY <1>11 DEF Describes
      <4> QED BY <1>10, <4>1
    <3> QED BY <3>1
  <2>2. s.sum = sv /\ t.sum = su /\ s.redundant_count = l /\ t.redundant_count = m
        /\ TotalCount(s) = l /\ TotalCount(t) = m
      BY <1>1, <1>8, <1>11 DEF Describes
  <2>3. u.sum = SumOf(c, Len(c)) /\ u.redundant_count = Len(c) /\ TotalCount(u) = Len(c)
      BY <1>3, <1>7, <1>9, <2>2
  <2> QED BY <2>1, <2>3 DEF Describes
<1>12. ASSUME Describes(h, u, c), Describes(h, t, b), s.sum \in Int, s.redundant_count \in Int
       PROVE  Describes(h, s, a)
  <2>1. \A i \in Buckets(h) : s.counts[i] = Fall(h, a, i)
    <3>1. ASSUME NEW i \in Buckets(h) PROVE s.counts[i] = Fall(h, a, i)
      <4>1. u.counts[i] = Fall(h, c, i) /\ t.counts[i] = Fall(h, b, i) /\ s.counts[i] \in Int
          BY <1>12 DEF Describes
      <4>2. u.counts[i] = t.counts[i] + s.counts[i]
          OBVIOUS
      <4>3. PICK x, y, z : x = s.counts[i] /\ y = Fall(h, b, i) /\ z = Fall(h, a, i)
          OBVIOUS
      <4>4. x \in Int /\ y \in Int /\ z \in Int /\ y + z = y + x
          BY <1>10, <4>1, <4>2, <4>3
      <4>5. x = z
          BY ONLY <4>4
      <4> QED BY <4>3, <4>5
    <3> QED BY <3>1
  <2>2. u.sum = SumOf(c, Len(c)) /\ t.sum = su /\ u.redundant_count = Len(c) /\ t.redundant_count = m
        /\ TotalCount(u) = Len(c) /\ TotalCount(t) = m
      BY <1>1, <1>8, <1>12 DEF Describes
  <2>3. s.sum = sv /\ s.redundant_count = l /\ TotalCount(s) = l
      BY <1>3, <1>7, <1>9, <1>12, <2>2
  <2> QED BY <1>1, <1>8, <2>1, <2>3 DEF Describes
<1> QED BY <1>1, <1>11, <1>12

\* The set with one value.
LEMMA OneDescribed ==
    ASSUME NEW h, Sound(h), NEW value \in 0..(SampleMax - 1), NEW index, index = BucketIndex(h, value),
           NEW s, s = [counts |-> [i \in Buckets(h) |-> IF i = index THEN 1 ELSE 0],
                       sum |-> value, redundant_count |-> 1]
    PROVE  Describes(h, s, <<value>>)
<1>1. PICK n, v, c : n = h.n /\ v = <<value>> /\ c = [i \in 0..(n - 1) |-> IF i = index THEN 1 ELSE 0]
    OBVIOUS
<1>2. n \in Nat /\ n > 0 /\ Buckets(h) = 0..(n - 1)
    BY <1>1 DEF Sound, Buckets
<1>3. s.counts = c /\ s.sum = value /\ s.redundant_count = 1
    BY <1>1, <1>2
<1>4. value \in Int /\ v \in Seq(Int) /\ Len(v) = 1 /\ v[1] = value
    BY <1>1
<1>5. SumOf(v, 1) = value
  <2>1. \A k \in 1..1 : v[k] \in Int
      BY <1>4
  <2>2. 1 \in Nat /\ 1 > 0 /\ 1 - 1 = 0
      OBVIOUS
  <2>3. SumOf(v, 0) = 0 /\ SumOf(v, 1) = SumOf(v, 1 - 1) + v[1]
      BY <2>1, <2>2, SumRec
  <2> QED BY <1>4, <2>2, <2>3
<1>6. index \in 0..(n - 1)
    BY <1>1, SearchEnds
<1>7. c \in [0..(n - 1) -> Int]
    BY <1>1
<1>8. Total(c, n) = 1
  <2>1. PICK x, zeros : x = [k \in 1..n |-> c[k - 1]] /\ zeros = [k \in 1..n |-> 0]
      OBVIOUS
  <2>2. PICK j : j = index + 1
      OBVIOUS
  <2>3. j \in 1..n /\ 1 \in Int
      BY <1>2, <1>6, <2>2
  <2>4. ASSUME NEW k \in 1..n PROVE zeros[k] \in Int /\ x[k] = IF k = j THEN zeros[k] + 1 ELSE zeros[k]
    <3>1. k - 1 \in 0..(n - 1) /\ (k - 1 = index <=> k = j)
        BY <1>2, <1>6, <2>2
    <3> QED BY <1>1, <2>1, <3>1
  <2>5. SumOf(x, n) = SumOf(zeros, n) + 1
      BY ONLY <1>2, <2>3, <2>4, SumOne
  <2>6. SumOf(zeros, n) = 0
    <3>1. \A k \in 1..n : zeros[k] \in Int /\ zeros[k] = zeros[k] + zeros[k]
        BY <2>1
    <3>2. SumOf(zeros, n) = SumOf(zeros, n) + SumOf(zeros, n)
        BY ONLY <1>2, <3>1, SumPlus
    <3>3. SumOf(zeros, n) \in Int
        BY ONLY <1>2, <3>1, SumRec
    <3> QED BY ONLY <3>2, <3>3, OnlyZero
  <2> QED BY <2>1, <2>5, <2>6 DEF Total
<1>9. TotalCount(s) = 1
  <2>1. s.counts \in [Buckets(h) -> Int]
      BY <1>2, <1>3, <1>7
  <2>2. TotalCount(s) = Total(s.counts, h.n)
      BY <2>1, TotalIsSum
  <2> QED BY <1>1, <1>3, <1>8, <2>2
<1>10. \A i \in Buckets(h) : s.counts[i] = Fall(h, v, i)
  <2>1. ASSUME NEW i \in Buckets(h) PROVE s.counts[i] = Fall(h, v, i)
    <3>1. i \in 0..(h.n - 1)
        BY <1>1, <1>2
    <3>2. Fall(h, v, i) = IF i = index THEN 1 ELSE 0
        BY <1>1, <3>1, OneFalls
    <3> QED BY <1>1, <1>2, <1>3, <3>2
  <2> QED BY <2>1
<1>11. Describes(h, s, v)
    BY <1>2, <1>3, <1>4, <1>5, <1>7, <1>9, <1>10 DEF Describes
<1> QED BY <1>1, <1>11

\* Accumulating a value.
LEMMA AddedDescribed ==
    ASSUME NEW h, Sound(h), NEW value \in 0..(SampleMax - 1), NEW values \in Seq(Int), NEW s, Describes(h, s, values)
    PROVE  Describes(h, Accumulate(s, value, 1, BucketIndex(h, value)), Append(values, value))
<1>1. PICK index : index = BucketIndex(h, value)
    OBVIOUS
<1>2. PICK one : one = [counts |-> [i \in Buckets(h) |-> IF i = index THEN 1 ELSE 0],
                        sum |-> value, redundant_count |-> 1]
    OBVIOUS
<1>3. Describes(h, one, <<value>>)
    BY <1>1, <1>2, OneDescribed
<1>4. PICK u : u = Accumulate(s, value, 1, index)
    OBVIOUS
<1>5. u.counts = [s.counts EXCEPT ![index] = @ + 1] /\ u.sum = s.sum + 1 * value
      /\ u.redundant_count = s.redundant_count + 1
    BY <1>4 DEF Accumulate
<1>6. s.counts \in [Buckets(h) -> Int] /\ one.counts \in [Buckets(h) -> Int]
    BY <1>3 DEF Describes
<1>7. index \in Buckets(h)
    BY <1>1, SearchEnds DEF Buckets
<1>8. u.counts \in [Buckets(h) -> Int]
  <2>1. PICK c : c = s.counts
      OBVIOUS
  <2>2. c \in [Buckets(h) -> Int] /\ c[index] + 1 \in Int
      BY <1>6, <1>7, <2>1
  <2>3. [c EXCEPT ![index] = @ + 1] \in [Buckets(h) -> Int]
      BY <2>2
  <2> QED BY <1>5, <2>1, <2>3
<1>9. ASSUME NEW i \in Buckets(h) PROVE u.counts[i] = s.counts[i] + one.counts[i]
  <2>1. one.counts[i] = IF i = index THEN 1 ELSE 0
      BY <1>2
  <2>2. s.counts[i] \in Int
      BY <1>6
  <2>3. u.counts[i] = IF i = index THEN s.counts[i] + 1 ELSE s.counts[i]
      BY <1>5, <1>6
  <2> QED BY <2>1, <2>2, <2>3
<1>10. u.sum = s.sum + one.sum /\ u.redundant_count = s.redundant_count + one.redundant_count
  <2>1. one.sum = value /\ one.redundant_count = 1 /\ 1 * value = value
      BY <1>2
  <2> QED BY <1>5, <2>1
<1>11. <<value>> \in Seq(Int)
    OBVIOUS
<1>12. Describes(h, u, values \o <<value>>)
    BY <1>3, <1>6, <1>8, <1>9, <1>10, <1>11, SumDescribed
<1>13. values \o <<value>> = Append(values, value)
    BY <1>11
<1> QED BY <1>1, <1>4, <1>12, <1>13

\* Parts of sequences.
LEMMA Prefixes ==
    ASSUME NEW s \in Seq(Int), NEW v \in Int, NEW k \in 0..Len(s)
    PROVE  /\ SubSeq(s, 1, k) \in Seq(Int) /\ Len(SubSeq(s, 1, k)) = k
           /\ SubSeq(s, k + 1, Len(s)) \in Seq(Int)
           /\ SubSeq(s, 1, k) \o SubSeq(s, k + 1, Len(s)) = s
           /\ SubSeq(Append(s, v), 1, k) = SubSeq(s, 1, k)
           /\ SubSeq(SubSeq(s, 1, k) \o s, 1, k) = SubSeq(s, 1, k)
<1>1. PICK a, b, n : a = SubSeq(s, 1, k) /\ b = SubSeq(s, k + 1, Len(s)) /\ n = Len(s)
    OBVIOUS
<1>2. n \in Nat /\ k \in 0..n /\ k \in Nat
    BY <1>1
<1>3. a \in Seq(Int) /\ Len(a) = k /\ \A i \in 1..k : a[i] = s[i]
    BY <1>1, <1>2
<1>4. b \in Seq(Int) /\ Len(b) = n - k /\ \A i \in 1..(n - k) : b[i] = s[k + i]
    BY <1>1, <1>2
<1>5. a \o b = s
  <2>1. PICK c : c = a \o b
      OBVIOUS
  <2>2. c \in Seq(Int) /\ Len(c) = n
    <3>1. c \in Seq(Int) /\ Len(c) = Len(a) + Len(b)
        BY ONLY <1>3, <1>4, <2>1, ConcatProperties
    <3> QED BY <1>2, <1>3, <1>4, <3>1
  <2>3. ASSUME NEW i \in 1..n PROVE c[i] = s[i]
    <3>1. CASE i <= k
      <4>1. i \in 1..Len(a)
          BY <1>2, <1>3, <3>1
      <4>2. c[i] = a[i]
          BY <1>3, <1>4, <2>1, <4>1
      <4> QED BY <1>3, <4>1, <4>2
    <3>2. CASE i > k
      <4>1. i - k \in 1..(n - k) /\ k + (i - k) = i
          BY <1>2, <3>2
      <4>2. c[i] = b[i - k]
          BY <1>2, <1>3, <1>4, <2>1, <3>2, <4>1
      <4> QED BY <1>4, <4>1, <4>2
    <3> QED BY <1>2, <3>1, <3>2
  <2>4. s \in Seq(Int) /\ Len(s) = n
      BY <1>1
  <2>5. c = s
      BY ONLY <2>2, <2>3, <2>4, SeqEqual
  <2> QED BY <2>1, <2>5
<1>6. SubSeq(Append(s, v), 1, k) = a
  <2>1. PICK c, d : c = Append(s, v) /\ d = SubSeq(c, 1, k)
      OBVIOUS
  <2>2. c \in Seq(Int) /\ Len(c) = n + 1 /\ \A i \in 1..n : c[i] = s[i]
      BY <1>1, <1>2, <2>1
  <2>3. d \in Seq(Int) /\ Len(d) = k /\ \A i \in 1..k : d[i] = c[i]
      BY <1>2, <2>1, <2>2
  <2>4. \A i \in 1..k : i \in 1..n
      BY <1>2
  <2>5. \A i \in 1..k : d[i] = a[i]
      BY <1>3, <2>2, <2>3, <2>4
  <2> QED BY <1>3, <2>1, <2>3, <2>5
<1>7. SubSeq(a \o s, 1, k) = a
  <2>1. PICK c, d : c = a \o s /\ d = SubSeq(c, 1, k)
      OBVIOUS
  <2>2. c \in Seq(Int) /\ Len(c) = k + n /\ \A i \in 1..k : c[i] = a[i]
      BY <1>1, <1>2, <1>3, <2>1
  <2>3. d \in Seq(Int) /\ Len(d) = k /\ \A i \in 1..k : d[i] = c[i]
      BY <1>2, <2>1, <2>2
  <2>4. \A i \in 1..k : d[i] = a[i]
      BY <2>2, <2>3
  <2> QED BY <1>3, <2>1, <2>3, <2>4
<1> QED BY <1>1, <1>3, <1>4, <1>5, <1>6, <1>7

\* The histogram sorts, the samples describe everything added, and the snapshot
\* what was added by its time.
HistogramInv ==
    /\ Sound(histogram)
    /\ history \in Seq(0..(SampleMax - 1))
    /\ snapshot.size \in 0..Len(history)
    /\ Describes(histogram, sample_, history)
    /\ Describes(histogram, snapshot.set, SubSeq(history, 1, snapshot.size))

\* The samples are integers.
LEMMA HistoryInts ==
    ASSUME HistogramAssumption, history \in Seq(0..(SampleMax - 1))
    PROVE  history \in Seq(Int)
<1>1. 0..(SampleMax - 1) \subseteq Int
    OBVIOUS
<1> QED BY <1>1

\* A new histogram of any factory is sound and empty.
LEMMA HistogramInitInv == HistogramAssumption /\ HistogramInit => HistogramInv
<1> SUFFICES ASSUME HistogramAssumption, HistogramInit PROVE HistogramInv
    OBVIOUS
<1>1. Sound(histogram) /\ Start(histogram)
    BY StartSound
<1>2. /\ sample_ = SampleSet(histogram) /\ snapshot = [set |-> SampleSet(histogram), size |-> 0]
      /\ history = <<>>
    BY <1>1 DEF Start
<1>3. snapshot.set = SampleSet(histogram) /\ snapshot.size = 0
    BY <1>2
<1>4. history \in Seq(0..(SampleMax - 1)) /\ Len(history) = 0 /\ SubSeq(history, 1, 0) = <<>>
    BY <1>2
<1>5. Describes(histogram, SampleSet(histogram), <<>>)
    BY <1>1, EmptyDescribed
<1>6. snapshot.size \in 0..Len(history)
    BY <1>3, <1>4
<1>7. Describes(histogram, sample_, history)
    BY <1>2, <1>5
<1>8. Describes(histogram, snapshot.set, SubSeq(history, 1, snapshot.size))
    BY <1>3, <1>4, <1>5
<1> QED BY <1>1, <1>4, <1>6, <1>7, <1>8 DEF HistogramInv

\* Samples, snapshots and added sets keep the histogram sorted.
LEMMA HistogramNextInv ==
    HistogramAssumption /\ HistogramInv /\ [HistogramNext]_histogramVars => HistogramInv'
<1> SUFFICES ASSUME HistogramAssumption, HistogramInv, [HistogramNext]_histogramVars PROVE HistogramInv'
    OBVIOUS
<1>1. /\ Sound(histogram) /\ history \in Seq(0..(SampleMax - 1)) /\ snapshot.size \in 0..Len(history)
      /\ Describes(histogram, sample_, history)
      /\ Describes(histogram, snapshot.set, SubSeq(history, 1, snapshot.size))
    BY DEF HistogramInv
<1>2. history \in Seq(Int)
    BY <1>1, HistoryInts
<1>3. PICK k, prefix : k = snapshot.size /\ prefix = SubSeq(history, 1, k)
    OBVIOUS
<1>4. k \in 0..Len(history) /\ prefix \in Seq(Int) /\ Len(prefix) = k
  <2>1. k \in 0..Len(history) /\ 0 \in Int
      BY <1>1, <1>3
  <2> QED BY <1>2, <1>3, <2>1, Prefixes
<1>5. ASSUME NEW v \in Values, Add(v) PROVE HistogramInv'
  <2>1. PICK value : value = Clamped(v)
      OBVIOUS
  <2>2. value \in 0..(SampleMax - 1) /\ value \in Int
    <3>1. v \in Int /\ SampleMax \in Nat /\ SampleMax > 2
        BY DEF HistogramAssumption
    <3> QED BY <2>1, <3>1 DEF Clamped, AtLeast, AtMost
  <2>3. /\ sample_' = Accumulate(sample_, value, 1, BucketIndex(histogram, value))
        /\ history' = Append(history, value) /\ histogram' = histogram /\ snapshot' = snapshot
      BY <1>5, <2>1 DEF Add
  <2>4. Describes(histogram, sample_', history')
      BY <1>1, <1>2, <2>2, <2>3, AddedDescribed
  <2>5. history' \in Seq(0..(SampleMax - 1)) /\ Len(history') = Len(history) + 1
      BY <1>1, <2>2, <2>3
  <2>6. SubSeq(history', 1, k) = prefix
      BY <1>2, <1>3, <1>4, <2>2, <2>3, Prefixes
  <2>7. snapshot'.size = k /\ snapshot'.set = snapshot.set /\ k \in 0..Len(history')
      BY <1>3, <1>4, <2>3, <2>5
  <2>8. Describes(histogram, snapshot.set, prefix)
      BY <1>1, <1>3
  <2> QED BY <1>1, <2>3, <2>4, <2>5, <2>6, <2>7, <2>8 DEF HistogramInv
<1>6. CASE SnapshotSample
  <2>1. /\ snapshot' = [set |-> sample_, size |-> Len(history)]
        /\ histogram' = histogram /\ sample_' = sample_ /\ history' = history
      BY <1>6 DEF SnapshotSample
  <2>2. snapshot'.set = sample_ /\ snapshot'.size = Len(history)
      BY <2>1
  <2>3. SubSeq(history, 1, Len(history)) = history /\ Len(history) \in 0..Len(history)
      BY <1>2
  <2> QED BY <1>1, <2>1, <2>2, <2>3 DEF HistogramInv
<1>7. CASE AddSampleSet
  <2>1. /\ sample_' = AddSet(sample_, snapshot.set) /\ history' = prefix \o history
        /\ histogram' = histogram /\ snapshot' = snapshot
      BY <1>3, <1>7 DEF AddSampleSet
  <2>2. PICK t, u : t = snapshot.set /\ u = AddSet(sample_, t)
      OBVIOUS
  <2>3. sample_.counts \in [Buckets(histogram) -> Int] /\ t.counts \in [Buckets(histogram) -> Int]
      BY <1>1, <2>2 DEF Describes
  <2>4. DOMAIN sample_.counts = Buckets(histogram)
      BY <2>3
  <2>5. /\ u.counts = [i \in Buckets(histogram) |-> sample_.counts[i] + t.counts[i]]
        /\ u.sum = sample_.sum + t.sum /\ u.redundant_count = sample_.redundant_count + t.redundant_count
      BY <2>2, <2>4 DEF AddSet
  <2>6. sample_.sum \in Int /\ t.sum \in Int /\ sample_.redundant_count \in Int /\ t.redundant_count \in Int
    <3>1. sample_.sum = SumOf(history, Len(history)) /\ t.sum = SumOf(prefix, Len(prefix))
          /\ sample_.redundant_count = Len(history) /\ t.redundant_count = Len(prefix)
        BY <1>1, <1>3, <2>2 DEF Describes
    <3>2. SumOf(history, Len(history)) \in Int /\ SumOf(prefix, Len(prefix)) \in Int
        BY <1>2, <1>4, SumConcat
    <3>3. Len(history) \in Int /\ Len(prefix) \in Int
        BY <1>2, <1>4
    <3> QED BY <3>1, <3>2, <3>3
  <2>7. u.sum = t.sum + sample_.sum /\ u.redundant_count = t.redundant_count + sample_.redundant_count
      BY <2>5, <2>6
  <2>8. ASSUME NEW i \in Buckets(histogram)
        PROVE  u.counts[i] = t.counts[i] + sample_.counts[i] /\ u.counts[i] \in Int
    <3>1. t.counts[i] \in Int /\ sample_.counts[i] \in Int
        BY <2>3
    <3>2. u.counts[i] = sample_.counts[i] + t.counts[i]
        BY <2>5
    <3> QED BY <3>1, <3>2
  <2>9. u.counts \in [Buckets(histogram) -> Int]
    <3>1. u.counts = [i \in Buckets(histogram) |-> u.counts[i]]
        BY <2>5
    <3> QED BY <2>8, <3>1
  <2>10. Describes(histogram, t, prefix)
      BY <1>1, <1>3, <2>2
  <2>11. Describes(histogram, u, prefix \o history)
    <3>1. Sound(histogram) /\ history \in Seq(Int) /\ prefix \in Seq(Int) /\ Describes(histogram, sample_, history)
        BY <1>1, <1>2, <1>4
    <3>2. \A i \in Buckets(histogram) : u.counts[i] = t.counts[i] + sample_.counts[i]
        BY <2>8
    <3> QED BY ONLY <2>3, <2>7, <2>9, <2>10, <3>1, <3>2, SumDescribed
  <2>12. history' \in Seq(0..(SampleMax - 1)) /\ Len(history') = k + Len(history)
    <3>1. PICK D : D = 0..(SampleMax - 1)
        OBVIOUS
    <3>2. history \in Seq(D)
        BY <1>1, <3>1
    <3>3. prefix \in Seq(D)
        BY <1>3, <1>4, <3>2
    <3>4. history' \in Seq(D)
        BY <2>1, <3>2, <3>3
    <3>5. Len(history') = k + Len(history)
      <4>1. Len(prefix \o history) = Len(prefix) + Len(history)
          BY <3>2, <3>3, ConcatProperties
      <4> QED BY <1>4, <2>1, <4>1
    <3> QED BY <3>1, <3>4, <3>5
  <2>13. SubSeq(history', 1, k) = prefix
    <3>1. 0 \in Int
        OBVIOUS
    <3> QED BY <1>2, <1>3, <1>4, <2>1, <3>1, Prefixes
  <2>14. snapshot'.size = k /\ snapshot'.set = t /\ k \in 0..Len(history')
    <3>1. Len(history) \in Nat
        BY <1>2
    <3> QED BY <1>3, <1>4, <2>1, <2>2, <2>12, <3>1
  <2> QED BY <1>1, <2>1, <2>2, <2>10, <2>11, <2>12, <2>13, <2>14 DEF HistogramInv
<1>8. CASE UNCHANGED histogramVars
    BY <1>1, <1>8 DEF HistogramInv, histogramVars
<1> QED BY <1>5, <1>6, <1>7, <1>8 DEF HistogramNext

\* The invariant gives the property.
LEMMA SortedFromInv == HistogramAssumption /\ HistogramInv => SamplesSorted
<1> SUFFICES ASSUME HistogramAssumption, HistogramInv PROVE SamplesSorted
    OBVIOUS
<1>1. /\ Sound(histogram) /\ history \in Seq(0..(SampleMax - 1)) /\ snapshot.size \in 0..Len(history)
      /\ Describes(histogram, sample_, history)
      /\ Describes(histogram, snapshot.set, SubSeq(history, 1, snapshot.size))
    BY DEF HistogramInv
<1>2. history \in Seq(Int) /\ Len(history) \in Nat
    BY <1>1, HistoryInts
<1>3. PICK k, b, a, t, d : /\ k = snapshot.size /\ b = SubSeq(history, 1, k)
                           /\ a = SubSeq(history, k + 1, Len(history))
                           /\ t = snapshot.set /\ d = Subtract(sample_, t)
    OBVIOUS
<1>4. b \in Seq(Int) /\ a \in Seq(Int) /\ b \o a = history
  <2>1. k \in 0..Len(history) /\ 0 \in Int
      BY <1>1, <1>3
  <2> QED BY <1>2, <1>3, <2>1, Prefixes
<1>5. sample_.counts \in [Buckets(histogram) -> Int] /\ t.counts \in [Buckets(histogram) -> Int]
    BY <1>1, <1>3 DEF Describes
<1>6. sample_.sum \in Int /\ t.sum \in Int /\ sample_.redundant_count \in Int /\ t.redundant_count \in Int
  <2>1. /\ sample_.sum = SumOf(history, Len(history)) /\ t.sum = SumOf(b, Len(b))
        /\ sample_.redundant_count = Len(history) /\ t.redundant_count = Len(b)
      BY <1>1, <1>3 DEF Describes
  <2>2. SumOf(history, Len(history)) \in Int /\ SumOf(b, Len(b)) \in Int
      BY <1>2, <1>4, SumConcat
  <2>3. Len(b) \in Int
      BY <1>4
  <2> QED BY <1>2, <2>1, <2>2, <2>3
<1>7. /\ d.counts = [i \in Buckets(histogram) |-> sample_.counts[i] - t.counts[i]]
      /\ d.sum = sample_.sum - t.sum /\ d.redundant_count = sample_.redundant_count - t.redundant_count
  <2>1. DOMAIN sample_.counts = Buckets(histogram)
      BY <1>5
  <2> QED BY <1>3, <2>1 DEF Subtract
<1>8. ASSUME NEW i \in Buckets(histogram)
      PROVE  sample_.counts[i] = t.counts[i] + d.counts[i] /\ d.counts[i] \in Int
  <2>1. t.counts[i] \in Int /\ sample_.counts[i] \in Int
      BY <1>5
  <2>2. d.counts[i] = sample_.counts[i] - t.counts[i]
      BY <1>7
  <2> QED BY <2>1, <2>2
<1>9. d.counts \in [Buckets(histogram) -> Int]
  <2>1. d.counts = [i \in Buckets(histogram) |-> d.counts[i]]
      BY <1>7
  <2> QED BY <1>8, <2>1
<1>10. /\ sample_.sum = t.sum + d.sum /\ sample_.redundant_count = t.redundant_count + d.redundant_count
       /\ d.sum \in Int /\ d.redundant_count \in Int
    BY <1>6, <1>7
<1>11. Describes(histogram, d, a)
  <2>1. Sound(histogram) /\ Describes(histogram, sample_, b \o a) /\ Describes(histogram, t, b)
      BY <1>1, <1>3, <1>4
  <2>2. \A i \in Buckets(histogram) : sample_.counts[i] = t.counts[i] + d.counts[i]
      BY <1>8
  <2> QED BY ONLY <1>4, <1>5, <1>9, <1>10, <2>1, <2>2, SumDescribed
<1>12. FindCorruption(histogram, sample_) = {}
  <2>1. TotalCount(sample_) = Len(history) /\ sample_.redundant_count = Len(history)
      BY <1>1 DEF Describes
  <2>2. ASSUME NEW j \in Buckets(histogram), j > 0 PROVE ~(histogram.ranges[j - 1] >= histogram.ranges[j])
    <3>1. PICK n, r : n = histogram.n /\ r = histogram.ranges
        OBVIOUS
    <3>2. n \in Nat /\ r \in [0..n -> Int] /\ (\A i \in 1..n : r[i - 1] < r[i]) /\ j \in 0..(n - 1)
        BY <1>1, <3>1 DEF Sound, Buckets
    <3>3. j \in 1..n /\ j \in 0..n /\ j - 1 \in 0..n
        BY <2>2, <3>2
    <3>4. r[j - 1] < r[j] /\ r[j] \in Int /\ r[j - 1] \in Int
        BY <3>2, <3>3
    <3> QED BY <3>1, <3>4
  <2>3. PICK delta : delta = sample_.redundant_count - TotalCount(sample_)
      OBVIOUS
  <2>4. ~(delta > 1) /\ ~(delta < -1)
      BY <1>2, <2>1, <2>3
  <2>5. {j \in Buckets(histogram) : j > 0 /\ histogram.ranges[j - 1] >= histogram.ranges[j]} = {}
      BY <2>2
  <2> QED BY <2>3, <2>4, <2>5 DEF FindCorruption
<1>13. PICK rest, taken : rest = SubSeq(history, snapshot.size + 1, Len(history)) /\ taken = Subtract(sample_, snapshot.set)
    OBVIOUS
<1>14. Describes(histogram, taken, rest)
    BY <1>3, <1>11, <1>13
<1> QED BY <1>1, <1>12, <1>13, <1>14 DEF SamplesSorted, Describes, Fall

\* Every histogram of every factory sorts its samples rightly, for any proper
\* arguments and custom ranges and any values: SamplesSorted is an invariant.
\* The starts of the buckets go up (for the exponential ones by a bound on
\* powers), so the search finds the one bucket of a value; counts, sums and
\* totals are sums over the values, and those of a concatenation add up.
THEOREM HistogramSorts == HistogramSpec => []SamplesSorted
<1>1. HistogramInit => HistogramInv
    BY HistogramAssumption, HistogramInitInv
<1>2. HistogramInv /\ [HistogramNext]_histogramVars => HistogramInv'
    BY HistogramAssumption, HistogramNextInv
<1>3. HistogramInv => SamplesSorted
    BY HistogramAssumption, SortedFromInv
<1> QED BY <1>1, <1>2, <1>3, PTL DEF HistogramSpec

----------------------------------------------------------------------------
(* WriteAscii().                                                            *)

Line == [bucket : Int, last : Int, plotted : BOOLEAN, count : Int, past : Int, remaining : Int]

\* Lines in order, before bucket i, whose numbers add up.
Ordered(lines, i, total) ==
    /\ lines \in Seq(Line)
    /\ \A k \in 1..Len(lines) : lines[k].last < i /\ lines[k].past + lines[k].count + lines[k].remaining = total
    /\ \A j, k \in 1..Len(lines) : j < k => lines[j].last < lines[k].bucket

PlottedIn(lines, b) == \E k \in 1..Len(lines) : lines[k].plotted = TRUE /\ lines[k].bucket = b

\* A line for bucket i on, before bucket next.
Fits(l, i, next, total) ==
    /\ l \in Line /\ l.bucket = i /\ i <= l.last /\ l.last < next
    /\ l.past + l.count + l.remaining = total

\* A line appended is the last, and the others stay.
LEMMA LineAdded ==
    ASSUME NEW lines, NEW i \in Int, NEW total, Ordered(lines, i, total), NEW l, NEW next \in Int,
           Fits(l, i, next, total)
    PROVE  /\ Ordered(Append(lines, l), next, total)
           /\ \A b : PlottedIn(Append(lines, l), b) <=> PlottedIn(lines, b) \/ (l.plotted = TRUE /\ b = i)
<1>1. PICK n, c : n = Len(lines) /\ c = Append(lines, l)
    OBVIOUS
<1>0. /\ l \in Line /\ l.bucket = i /\ i <= l.last /\ l.last < next
      /\ l.past + l.count + l.remaining = total
    BY DEF Fits
<1>2. lines \in Seq(Line) /\ n \in Nat
    BY <1>1 DEF Ordered
<1>3. c \in Seq(Line) /\ Len(c) = n + 1 /\ c[n + 1] = l
    BY <1>0, <1>1, <1>2
<1>4. \A k \in 1..n : c[k] = lines[k]
    BY <1>1, <1>2
<1>5. \A k \in 1..(n + 1) : k \in 1..n \/ k = n + 1
    BY <1>2
<1>6. \A k \in 1..n : k \in 1..(n + 1)
    BY <1>2
<1>7. ASSUME NEW k \in 1..n
      PROVE  lines[k].last < i /\ lines[k].past + lines[k].count + lines[k].remaining = total /\ lines[k].last \in Int
  <2>1. lines[k] \in Line
      BY <1>1, <1>2
  <2>2. lines[k].last \in Int
      BY <2>1 DEF Line
  <2> QED BY <1>1, <2>2 DEF Ordered
<1>8. l.last \in Int /\ l.bucket \in Int
    BY <1>0 DEF Line
<1>9. ASSUME NEW k \in 1..(n + 1) PROVE c[k].last < next /\ c[k].past + c[k].count + c[k].remaining = total
  <2>1. CASE k = n + 1
      BY <1>0, <1>3, <2>1
  <2>2. CASE k # n + 1
    <3>1. k \in 1..n /\ c[k] = lines[k]
        BY <1>4, <1>5, <2>2
    <3>2. lines[k].last < i /\ lines[k].past + lines[k].count + lines[k].remaining = total /\ lines[k].last \in Int
        BY <1>7, <3>1
    <3>3. lines[k].last < next
        BY <1>0, <1>8, <3>2
    <3> QED BY <3>1, <3>2, <3>3
  <2> QED BY <2>1, <2>2
<1>10. ASSUME NEW j \in 1..(n + 1), NEW k \in 1..(n + 1), j < k PROVE c[j].last < c[k].bucket
  <2>1. j \in 1..n /\ c[j] = lines[j]
      BY <1>2, <1>4, <1>10
  <2>2. CASE k = n + 1
      BY <1>0, <1>3, <1>7, <2>1, <2>2
  <2>3. CASE k # n + 1
    <3>1. k \in 1..n /\ c[k] = lines[k]
        BY <1>4, <1>5, <2>3
    <3>2. lines[j].last < lines[k].bucket
        BY <1>1, <1>10, <2>1, <3>1 DEF Ordered
    <3> QED BY <2>1, <3>1, <3>2
  <2> QED BY <2>2, <2>3
<1>11. Ordered(c, next, total)
    BY <1>3, <1>9, <1>10 DEF Ordered
<1>12. ASSUME NEW b PROVE PlottedIn(c, b) <=> PlottedIn(lines, b) \/ (l.plotted = TRUE /\ b = i)
  <2>1. ASSUME PlottedIn(c, b) PROVE PlottedIn(lines, b) \/ (l.plotted = TRUE /\ b = i)
    <3>1. PICK k \in 1..(n + 1) : c[k].plotted = TRUE /\ c[k].bucket = b
        BY <1>3, <2>1 DEF PlottedIn
    <3>2. CASE k = n + 1
        BY <1>0, <1>3, <3>1, <3>2
    <3>3. CASE k # n + 1
      <4>1. k \in 1..n /\ c[k] = lines[k]
          BY <1>4, <1>5, <3>3
      <4> QED BY <1>1, <3>1, <4>1 DEF PlottedIn
    <3> QED BY <3>2, <3>3
  <2>2. ASSUME PlottedIn(lines, b) PROVE PlottedIn(c, b)
    <3>1. PICK k \in 1..n : lines[k].plotted = TRUE /\ lines[k].bucket = b
        BY <1>1, <2>2 DEF PlottedIn
    <3>2. k \in 1..(n + 1) /\ c[k] = lines[k]
        BY <1>4, <1>6
    <3> QED BY <1>3, <3>1, <3>2 DEF PlottedIn
  <2>3. ASSUME l.plotted = TRUE, b = i PROVE PlottedIn(c, b)
    <3>1. n + 1 \in 1..(n + 1)
        BY <1>2
    <3> QED BY <1>0, <1>3, <2>3, <3>1 DEF PlottedIn
  <2> QED BY <2>1, <2>2, <2>3
<1> QED BY <1>1, <1>11, <1>12

\* The end of a run of empty buckets.
LEMMA RunOfEmpty ==
    ASSUME NEW h, Sound(h), NEW s, NEW i \in Buckets(h), NEW last, last = LastEmpty(h, s, i)
    PROVE  /\ last \in Int /\ i <= last /\ last < h.n
           /\ \A k \in (i + 1)..last : s.counts[k] = 0
           /\ (\A k \in Buckets(h) : s.counts[k] = 0) => last = h.n - 1
<1>1. PICK n, R : n = h.n /\ R = {j \in i..(n - 1) : \A k \in (i + 1)..j : s.counts[k] = 0}
    OBVIOUS
<1>2. n \in Nat /\ n > 0 /\ i \in 0..(n - 1)
    BY <1>1 DEF Sound, Buckets
<1>3. last = Max(R)
    BY <1>1 DEF LastEmpty
<1>4. i \in R
  <2>1. i \in i..(n - 1) /\ \A k \in (i + 1)..i : s.counts[k] = 0
      BY <1>2
  <2> QED BY <1>1, <2>1
<1>5. R \subseteq 0..n
    BY <1>1, <1>2
<1>6. last \in R /\ \A y \in R : y <= last
    BY <1>2, <1>3, <1>4, <1>5, MaxOf
<1>7. last \in i..(n - 1) /\ \A k \in (i + 1)..last : s.counts[k] = 0
    BY <1>1, <1>6
<1>8. ASSUME \A k \in Buckets(h) : s.counts[k] = 0 PROVE last = n - 1
  <2>1. n - 1 \in i..(n - 1)
      BY <1>2
  <2>2. \A k \in (i + 1)..(n - 1) : k \in Buckets(h)
      BY <1>1, <1>2 DEF Buckets
  <2>3. n - 1 \in R
      BY <1>1, <1>8, <2>1, <2>2
  <2>4. n - 1 <= last
      BY <1>6, <2>3
  <2> QED BY <1>2, <1>7, <2>4
<1> QED BY <1>1, <1>2, <1>7, <1>8

\* Nothing is plotted of empty buckets but the last, if all before it are described.
Bare(h, w) ==
    /\ w.i < h.n => w.lines = <<>> /\ \A b \in Buckets(h) : b < w.i => h.ranges[b] \in h.described
    /\ \A b : PlottedIn(w.lines, b) =>
         /\ \A i \in Buckets(h) : i # h.n - 1 => h.ranges[i] \in h.described
         /\ h.ranges[h.n - 1] \notin h.described

\* What holds of the loop of WriteAscii() after t turns.
Writing(h, s, t, w) ==
    /\ w \in [i : 0..h.n, past : Int, remaining : Int, lines : Seq(Line)]
    /\ w.i >= t /\ w.past + w.remaining = TotalCount(s)
    /\ Ordered(w.lines, w.i, TotalCount(s))
    /\ \A b \in Buckets(h) : b < w.i /\ s.counts[b] > 0 => PlottedIn(w.lines, b)
    /\ (\A b \in Buckets(h) : s.counts[b] = 0) => Bare(h, w)

Countable(h, s) ==
    s.counts \in [Buckets(h) -> Nat] /\ TotalCount(s) \in Int

\* A bucket is printed without a line: nothing changes but the place.
LEMMA WriteNothing ==
    ASSUME NEW h, Sound(h), NEW s, Countable(h, s), NEW t \in 1..h.n, NEW w, Writing(h, s, t - 1, w),
           w.i # h.n, s.counts[w.i] = 0, h.ranges[w.i] \in h.described,
           NEW x, x = [i |-> w.i + 1, past |-> w.past, remaining |-> w.remaining, lines |-> w.lines]
    PROVE  Writing(h, s, t, x)
<1>1. PICK n, i, lines, total : n = h.n /\ i = w.i /\ lines = w.lines /\ total = TotalCount(s)
    OBVIOUS
<1>2. n \in Nat /\ n > 0 /\ t \in 1..n
    BY <1>1 DEF Sound
<1>3. /\ i \in 0..n /\ i >= t - 1 /\ w.past \in Int /\ w.remaining \in Int /\ lines \in Seq(Line)
      /\ w.past + w.remaining = total /\ Ordered(lines, i, total)
    BY <1>1 DEF Writing
<1>4. i \in 0..(n - 1) /\ i \in Buckets(h) /\ Buckets(h) = 0..(n - 1)
    BY <1>1, <1>2, <1>3 DEF Buckets
<1>5. x.i = i + 1 /\ x.past = w.past /\ x.remaining = w.remaining /\ x.lines = lines
      /\ x \in [i : 0..n, past : Int, remaining : Int, lines : Seq(Line)]
    BY <1>1, <1>2, <1>3, <1>4
<1>6. Ordered(lines, i + 1, total)
  <2>1. ASSUME NEW k \in 1..Len(lines) PROVE lines[k].last < i + 1 /\ lines[k].past + lines[k].count + lines[k].remaining = total
    <3>1. lines[k] \in Line
        BY <1>3
    <3>2. lines[k].last \in Int
        BY <3>1 DEF Line
    <3>3. lines[k].last < i /\ lines[k].past + lines[k].count + lines[k].remaining = total
        BY <1>3 DEF Ordered
    <3> QED BY <1>4, <3>2, <3>3
  <2> QED BY <1>3, <2>1 DEF Ordered
<1>7. ASSUME NEW b \in Buckets(h), b < i + 1, s.counts[b] > 0 PROVE PlottedIn(lines, b)
  <2>1. b # i
      BY <1>1, <1>7
  <2>2. b < i
      BY <1>4, <1>7, <2>1
  <2> QED BY <1>1, <1>7, <2>2 DEF Writing
<1>8. ASSUME \A b \in Buckets(h) : s.counts[b] = 0 PROVE Bare(h, x)
  <2>1. Bare(h, w)
      BY <1>8 DEF Writing
  <2>2. i < n
      BY <1>2, <1>4
  <2>3. lines = <<>> /\ \A b \in Buckets(h) : b < i => h.ranges[b] \in h.described
      BY <1>1, <2>1, <2>2 DEF Bare
  <2>4. \A b \in Buckets(h) : b < i + 1 => h.ranges[b] \in h.described
    <3>1. \A b \in Buckets(h) : b < i + 1 => b < i \/ b = i
        BY <1>4
    <3> QED BY <1>1, <2>3, <3>1
  <2>5. \A b : ~PlottedIn(lines, b)
      BY <2>3 DEF PlottedIn
  <2> QED BY <1>5, <2>3, <2>4, <2>5 DEF Bare
<1>9. x.i >= t /\ x.past + x.remaining = total
    BY <1>2, <1>3, <1>4, <1>5
<1> QED BY <1>1, <1>5, <1>6, <1>7, <1>8, <1>9 DEF Writing

\* A line is added that stands for the buckets from w.i on, all but w.i empty.
LEMMA WriteNext ==
    ASSUME NEW h, Sound(h), NEW s, Countable(h, s), NEW t \in 1..h.n, NEW w, Writing(h, s, t - 1, w),
           w.i # h.n, NEW last \in Int, w.i <= last, last < h.n,
           \A k \in (w.i + 1)..last : s.counts[k] = 0,
           NEW l \in Line, l.bucket = w.i, l.last = last, NEW past \in Int, NEW remaining \in Int,
           past + remaining = TotalCount(s), l.past + l.count + l.remaining = TotalCount(s),
           s.counts[w.i] > 0 => l.plotted = TRUE,
           (\A b \in Buckets(h) : s.counts[b] = 0) =>
             last = h.n - 1 \/ l.plotted = TRUE,
           (\A b \in Buckets(h) : s.counts[b] = 0) /\ l.plotted = TRUE =>
             w.i = h.n - 1 /\ h.ranges[w.i] \notin h.described,
           NEW x, x = [i |-> last + 1, past |-> past, remaining |-> remaining, lines |-> Append(w.lines, l)]
    PROVE  Writing(h, s, t, x)
<1>1. PICK n, i, lines, total : n = h.n /\ i = w.i /\ lines = w.lines /\ total = TotalCount(s)
    OBVIOUS
<1>2. n \in Nat /\ n > 0 /\ t \in 1..n
    BY <1>1 DEF Sound
<1>3. i \in 0..n /\ i >= t - 1 /\ lines \in Seq(Line) /\ Ordered(lines, i, total)
    BY <1>1 DEF Writing
<1>4. /\ i \in 0..(n - 1) /\ i \in Buckets(h) /\ Buckets(h) = 0..(n - 1)
      /\ i <= last /\ last < n /\ last + 1 \in 0..n /\ i \in Int /\ last + 1 \in Int
    BY <1>1, <1>2, <1>3 DEF Buckets
<1>5. PICK c : c = Append(lines, l)
    OBVIOUS
<1>6. total \in Int
    BY <1>1 DEF Countable
<1>7. /\ Ordered(c, last + 1, total)
      /\ \A b : PlottedIn(c, b) <=> PlottedIn(lines, b) \/ (l.plotted = TRUE /\ b = i)
  <2>1. PICK next : next = last + 1
      OBVIOUS
  <2>2. i \in Int /\ next \in Int /\ Ordered(lines, i, total) /\ Fits(l, i, next, total)
      BY <1>1, <1>3, <1>4, <1>6, <2>1 DEF Fits
  <2>3. Ordered(Append(lines, l), next, total)
      BY ONLY <2>2, LineAdded
  <2>4. ASSUME NEW b PROVE PlottedIn(Append(lines, l), b) <=> PlottedIn(lines, b) \/ (l.plotted = TRUE /\ b = i)
      BY ONLY <2>2, LineAdded
  <2> QED BY <1>5, <2>1, <2>3, <2>4
<1>8. \A b : PlottedIn(c, b) <=> PlottedIn(lines, b) \/ (l.plotted = TRUE /\ b = i)
    BY <1>7
<1>9. c \in Seq(Line)
    BY <1>3, <1>5
<1>10. x.i = last + 1 /\ x.past = past /\ x.remaining = remaining /\ x.lines = c
      /\ x \in [i : 0..n, past : Int, remaining : Int, lines : Seq(Line)]
    BY <1>1, <1>4, <1>5, <1>9
<1>11. ASSUME NEW b \in Buckets(h), b < last + 1, s.counts[b] > 0 PROVE PlottedIn(c, b)
  <2>1. CASE b < i
    <3>1. PlottedIn(lines, b)
        BY <1>1, <1>11, <2>1 DEF Writing
    <3> QED BY <1>8, <3>1
  <2>2. CASE b = i
      BY <1>1, <1>8, <1>11, <2>2
  <2>3. CASE b > i
    <3>1. b \in (i + 1)..last
        BY <1>4, <1>11, <2>3
    <3>2. s.counts[b] = 0
        BY <1>1, <3>1
    <3> QED BY <1>11, <3>2
  <2> QED BY <1>4, <2>1, <2>2, <2>3
<1>12. ASSUME \A b \in Buckets(h) : s.counts[b] = 0 PROVE Bare(h, x)
  <2>1. Bare(h, w)
      BY <1>12 DEF Writing
  <2>2. i < n
      BY <1>2, <1>4
  <2>3. lines = <<>> /\ \A b \in Buckets(h) : b < i => h.ranges[b] \in h.described
      BY <1>1, <2>1, <2>2 DEF Bare
  <2>4. \A b : ~PlottedIn(lines, b)
      BY <2>3 DEF PlottedIn
  <2>5. last + 1 = n
      BY <1>1, <1>2, <1>4, <1>12
  <2>6. ASSUME NEW b, PlottedIn(c, b)
        PROVE  /\ \A j \in Buckets(h) : j # h.n - 1 => h.ranges[j] \in h.described
               /\ h.ranges[h.n - 1] \notin h.described
    <3>1. l.plotted = TRUE
        BY <1>8, <2>4, <2>6
    <3>2. i = n - 1 /\ h.ranges[i] \notin h.described
        BY <1>1, <1>12, <3>1
    <3>3. \A j \in Buckets(h) : j # n - 1 => j < i
        BY <1>2, <1>4, <3>2
    <3> QED BY <1>1, <2>3, <3>2, <3>3
  <2>7. ~(x.i < h.n)
      BY <1>1, <1>10, <2>5
  <2> QED BY <1>10, <2>6, <2>7 DEF Bare
<1>13. x.i >= t /\ x.past + x.remaining = total
    BY <1>1, <1>2, <1>3, <1>4, <1>10
<1> QED BY <1>1, <1>7, <1>10, <1>11, <1>12, <1>13 DEF Writing

\* Every turn of the loop keeps it.
LEMMA WriteStep ==
    ASSUME NEW h, Sound(h), NEW s, Countable(h, s), NEW t \in 1..h.n, NEW w, Writing(h, s, t - 1, w)
    PROVE  Writing(h, s, t, WriteLine(h, s, w))
<1>1. PICK x, n, i, current, last, total : /\ x = WriteLine(h, s, w) /\ n = h.n /\ i = w.i /\ current = s.counts[i]
                                           /\ last = LastEmpty(h, s, i) /\ total = TotalCount(s)
    OBVIOUS
<1>2. n \in Nat /\ n > 0 /\ t \in 1..n
    BY <1>1 DEF Sound
<1>3. i \in 0..n /\ i >= t - 1 /\ w.past \in Int /\ w.remaining \in Int /\ w.past + w.remaining = total
    BY <1>1 DEF Writing
<1>4. PICK remaining, ellipsis, plot :
        /\ remaining = w.remaining - current
        /\ ellipsis = [bucket |-> i, last |-> last, plotted |-> FALSE, count |-> 0,
                       past |-> w.past, remaining |-> remaining]
        /\ plot = [bucket |-> i, last |-> i, plotted |-> TRUE, count |-> current,
                   past |-> w.past, remaining |-> remaining]
    OBVIOUS
<1>5. x = IF i = n THEN w
          ELSE IF current = 0 /\ h.ranges[i] \in h.described
          THEN [i |-> i + 1, past |-> w.past, remaining |-> w.remaining, lines |-> w.lines]
          ELSE IF current = 0 /\ last > i
          THEN [i |-> last + 1, past |-> w.past, remaining |-> w.remaining, lines |-> Append(w.lines, ellipsis)]
          ELSE [i |-> i + 1, past |-> w.past + current, remaining |-> remaining, lines |-> Append(w.lines, plot)]
    BY <1>1, <1>4 DEF WriteLine, PrintEmptyBucket
<1>6. CASE i = n
  <2>1. x = w
      BY <1>5, <1>6
  <2>2. w.i >= t
      BY <1>1, <1>2, <1>6
  <2>3. Writing(h, s, t, w)
      BY <2>2 DEF Writing
  <2> QED BY <1>1, <2>1, <2>3
<1>7. CASE i # n
  <2>1. i \in 0..(n - 1) /\ i \in Buckets(h) /\ i \in Int
      BY <1>1, <1>2, <1>3, <1>7 DEF Buckets
  <2>2. current \in Nat
      BY <1>1, <2>1 DEF Countable
  <2>3. /\ last \in Int /\ i <= last /\ last < n /\ (\A k \in (i + 1)..last : s.counts[k] = 0)
        /\ (\A k \in Buckets(h) : s.counts[k] = 0) => last = n - 1
      BY <1>1, <2>1, RunOfEmpty
  <2>4. remaining \in Int
      BY <1>3, <1>4, <2>2
  <2>5. CASE current = 0 /\ h.ranges[i] \in h.described
    <3>1. x = [i |-> i + 1, past |-> w.past, remaining |-> w.remaining, lines |-> w.lines]
        BY <1>5, <1>7, <2>5
    <3> QED BY <1>1, <1>7, <2>5, <3>1, WriteNothing
  <2>6. CASE ~(current = 0 /\ h.ranges[i] \in h.described) /\ current = 0 /\ last > i
    <3>1. x = [i |-> last + 1, past |-> w.past, remaining |-> w.remaining, lines |-> Append(w.lines, ellipsis)]
        BY <1>5, <1>7, <2>6
    <3>2. ellipsis \in Line /\ ellipsis.bucket = w.i /\ ellipsis.last = last /\ ellipsis.plotted = FALSE
        BY <1>1, <1>3, <1>4, <2>1, <2>3, <2>4 DEF Line
    <3>3. ellipsis.past + ellipsis.count + ellipsis.remaining = TotalCount(s)
        BY <1>1, <1>3, <1>4, <2>6
    <3>4. w.past \in Int /\ w.remaining \in Int /\ w.past + w.remaining = TotalCount(s)
        BY <1>1, <1>3
    <3>5. w.i # h.n /\ w.i <= last /\ last < h.n /\ last \in Int /\ \A k \in (w.i + 1)..last : s.counts[k] = 0
        BY <1>1, <1>7, <2>3
    <3>6. ~(s.counts[w.i] > 0) /\ ellipsis.plotted # TRUE
      <4>1. ~(current > 0)
          BY <2>6
      <4>2. s.counts[w.i] = current
          BY <1>1
      <4>3. ellipsis.plotted # TRUE
          BY <3>2
      <4> QED BY <4>1, <4>2, <4>3
    <3>7. s.counts[w.i] > 0 => ellipsis.plotted = TRUE
        BY <3>6
    <3>8. (\A b \in Buckets(h) : s.counts[b] = 0) => last = h.n - 1 \/ ellipsis.plotted = TRUE
        BY <1>1, <2>3
    <3>9. (\A b \in Buckets(h) : s.counts[b] = 0) /\ ellipsis.plotted = TRUE =>
             w.i = h.n - 1 /\ h.ranges[w.i] \notin h.described
        BY <3>6
    <3>10. Sound(h) /\ Countable(h, s) /\ t \in 1..h.n /\ Writing(h, s, t - 1, w)
        OBVIOUS
    <3>11. Writing(h, s, t, x)
        BY ONLY <3>1, <3>2, <3>3, <3>4, <3>5, <3>7, <3>8, <3>9, <3>10, WriteNext
    <3> QED BY <1>1, <3>11
  <2>7. CASE ~(current = 0 /\ h.ranges[i] \in h.described) /\ ~(current = 0 /\ last > i)
    <3>0. PICK past : past = w.past + current
        OBVIOUS
    <3>1. x = [i |-> i + 1, past |-> past, remaining |-> remaining, lines |-> Append(w.lines, plot)]
        BY <1>5, <1>7, <2>7, <3>0
    <3>2. plot \in Line /\ plot.bucket = w.i /\ plot.last = i /\ plot.plotted = TRUE
        BY <1>1, <1>3, <1>4, <2>1, <2>2, <2>4 DEF Line
    <3>3. plot.past + plot.count + plot.remaining = TotalCount(s)
        BY <1>1, <1>3, <1>4, <2>2
    <3>4. past \in Int /\ remaining \in Int /\ past + remaining = TotalCount(s)
        BY <1>1, <1>3, <1>4, <2>2, <3>0
    <3>5. w.i # h.n /\ w.i <= i /\ i < h.n /\ i \in Int /\ \A k \in (w.i + 1)..i : s.counts[k] = 0
      <4>1. i <= i /\ i < n /\ i \in Int /\ \A k \in (i + 1)..i : s.counts[k] = 0
          BY <1>2, <2>1
      <4> QED BY <1>1, <1>7, <4>1
    <3>7. s.counts[w.i] > 0 => plot.plotted = TRUE
        BY <3>2
    <3>8. (\A b \in Buckets(h) : s.counts[b] = 0) => i = h.n - 1 \/ plot.plotted = TRUE
        BY <3>2
    <3>9. (\A b \in Buckets(h) : s.counts[b] = 0) /\ plot.plotted = TRUE =>
             w.i = h.n - 1 /\ h.ranges[w.i] \notin h.described
      <4>1. SUFFICES ASSUME \A b \in Buckets(h) : s.counts[b] = 0
                     PROVE  w.i = h.n - 1 /\ h.ranges[w.i] \notin h.described
          OBVIOUS
      <4>2. current = 0
          BY <1>1, <2>1, <4>1
      <4>3. h.ranges[i] \notin h.described /\ ~(last > i)
          BY <2>7, <4>2
      <4>4. last = n - 1
          BY <2>3, <4>1
      <4>5. i = n - 1
          BY <2>1, <2>3, <4>3, <4>4
      <4> QED BY <1>1, <4>3, <4>5
    <3>10. Sound(h) /\ Countable(h, s) /\ t \in 1..h.n /\ Writing(h, s, t - 1, w)
        OBVIOUS
    <3>11. Writing(h, s, t, x)
        BY ONLY <3>1, <3>2, <3>3, <3>4, <3>5, <3>7, <3>8, <3>9, <3>10, WriteNext
    <3> QED BY <1>1, <3>11
  <2> QED BY <2>5, <2>6, <2>7
<1> QED BY <1>6, <1>7

Writes(h, s) ==
    LET written[t \in 0..h.n] ==
          IF t = 0 THEN [i |-> 0, past |-> 0, remaining |-> TotalCount(s), lines |-> <<>>]
          ELSE WriteLine(h, s, written[t - 1])
    IN  written

\* Before the first turn nothing is written and all of it remains.
LEMMA WritingStarts ==
    ASSUME NEW h, Sound(h), NEW s, Countable(h, s),
           NEW w, w = [i |-> 0, past |-> 0, remaining |-> TotalCount(s), lines |-> <<>>]
    PROVE  Writing(h, s, 0, w)
<1>1. PICK n, total : n = h.n /\ total = TotalCount(s)
    OBVIOUS
<1>2. n \in Nat /\ n > 0 /\ total \in Int
    BY <1>1 DEF Sound, Countable
<1>3. w.i = 0 /\ w.past = 0 /\ w.remaining = total /\ w.lines = <<>>
      /\ w \in [i : 0..n, past : Int, remaining : Int, lines : Seq(Line)]
  <2>1. <<>> \in Seq(Line) /\ 0 \in 0..n
      BY <1>2
  <2> QED BY <1>1, <1>2, <2>1
<1>4. Len(w.lines) = 0
    BY <1>3
<1>5. Ordered(w.lines, w.i, total)
    BY <1>3, <1>4 DEF Ordered
<1>6. \A b : ~PlottedIn(w.lines, b)
    BY <1>4 DEF PlottedIn
<1>7. \A b \in Buckets(h) : ~(b < w.i)
    BY <1>1, <1>2, <1>3 DEF Buckets
<1>8. Bare(h, w)
    BY <1>3, <1>6, <1>7 DEF Bare
<1>9. w.i >= 0 /\ w.past + w.remaining = TotalCount(s)
    BY <1>1, <1>2, <1>3
<1> QED BY <1>1, <1>3, <1>5, <1>7, <1>8, <1>9 DEF Writing

\* What the loop has written at its end.
LEMMA WriteEnds ==
    ASSUME NEW h, Sound(h), NEW s, Countable(h, s)
    PROVE  \E w : Writing(h, s, h.n, w) /\ WriteAscii(h, s) = w.lines
<1>1. PICK n, first : n = h.n /\ first = [i |-> 0, past |-> 0, remaining |-> TotalCount(s), lines |-> <<>>]
    OBVIOUS
<1>2. n \in Nat /\ n > 0
    BY <1>1 DEF Sound
<1> DEFINE Rec(f) == [t \in 0..n |-> IF t = 0 THEN first ELSE WriteLine(h, s, f[t - 1])]
<1>3. Writing(h, s, 0, first)
    BY <1>1, WritingStarts
<1>4. PICK S : S = [i : 0..n, past : Int, remaining : Int, lines : Seq(Line)]
    OBVIOUS
<1>5. ASSUME NEW t, NEW w, Writing(h, s, t, w) PROVE w \in S
    BY <1>1, <1>4, <1>5 DEF Writing
<1>6. PICK F : F = [t \in 1..n |-> [w \in S |-> IF Writing(h, s, t - 1, w) THEN WriteLine(h, s, w) ELSE w]]
    OBVIOUS
<1>7. F \in [1..n -> [S -> S]]
  <2>1. ASSUME NEW t \in 1..n, NEW w \in S
        PROVE  (IF Writing(h, s, t - 1, w) THEN WriteLine(h, s, w) ELSE w) \in S
    <3>1. CASE Writing(h, s, t - 1, w)
      <4>1. Writing(h, s, t, WriteLine(h, s, w))
          BY <1>1, <3>1, WriteStep
      <4>2. WriteLine(h, s, w) \in S
          BY <1>5, <4>1
      <4> QED BY <3>1, <4>2
    <3>2. CASE ~Writing(h, s, t - 1, w)
        BY <3>2
    <3> QED BY <3>1, <3>2
  <2> QED BY <1>6, <2>1
<1>8. PICK g \in Turns(n, S, first, F) : TRUE
  <2>1. n \in Nat /\ first \in S /\ F \in [1..n -> [S -> S]]
      BY <1>2, <1>3, <1>5, <1>7
  <2>2. Turns(n, S, first, F) # {}
      BY ONLY <2>1, TurnsExist
  <2> QED BY <2>2
<1>9. g \in [0..n -> S] /\ g[0] = first /\ \A t \in 1..n : g[t] = F[t][g[t - 1]]
    BY <1>8 DEF Turns
<1>10. ASSUME NEW t \in 1..n, Writing(h, s, t - 1, g[t - 1])
       PROVE  g[t] = WriteLine(h, s, g[t - 1]) /\ Writing(h, s, t, g[t])
  <2>1. g[t - 1] \in S
      BY <1>5, <1>10
  <2>2. g[t] = WriteLine(h, s, g[t - 1])
      BY <1>6, <1>9, <1>10, <2>1
  <2>3. Writing(h, s, t, WriteLine(h, s, g[t - 1]))
      BY <1>1, <1>10, WriteStep
  <2> QED BY <2>2, <2>3
<1>11. \A t \in 0..n : Writing(h, s, t, g[t])
  <2> DEFINE Good == {t \in 0..n : Writing(h, s, t, g[t])}
  <2>1. 0 \in Good
      BY <1>2, <1>3, <1>9
  <2>2. ASSUME NEW t \in 1..n, t - 1 \in Good PROVE t \in Good
    <3>1. t \in 0..n /\ Writing(h, s, t - 1, g[t - 1])
        BY <2>2
    <3>2. Writing(h, s, t, g[t])
        BY <1>10, <3>1
    <3> QED BY <3>1, <3>2
  <2>3. 0..n \subseteq Good
    <3> HIDE DEF Good
    <3> QED BY <1>2, <2>1, <2>2, UpTo
  <2> QED BY <2>3
<1>12. ASSUME NEW t \in 1..n PROVE g[t] = WriteLine(h, s, g[t - 1])
  <2>1. t - 1 \in 0..n
      BY <1>2
  <2> QED BY <1>10, <1>11, <2>1
<1>13. g = Rec(g)
    BY <1>2, <1>9, <1>12
<1>14. PICK written : written = Writes(h, s)
    OBVIOUS
<1>15. written = Rec(written)
  <2>1. written = CHOOSE f : f = Rec(f)
      BY <1>1, <1>14 DEF Writes
  <2> HIDE DEF Rec
  <2> QED BY <1>13, <2>1
<1>16. written[0] = g[0]
    BY <1>2, <1>9, <1>15
<1>17. ASSUME NEW t \in 1..n, written[t - 1] = g[t - 1] PROVE written[t] = g[t]
  <2>1. t \in 0..n /\ t # 0
      BY <1>2
  <2>2. written[t] = WriteLine(h, s, written[t - 1])
      BY <1>15, <2>1
  <2> QED BY <1>12, <1>17, <2>2
<1>18. \A t \in 0..n : written[t] = g[t]
  <2>1. n \in Nat /\ written[0] = g[0] /\ \A t \in 1..n : written[t - 1] = g[t - 1] => written[t] = g[t]
      BY <1>2, <1>16, <1>17
  <2> QED BY ONLY <2>1, TurnsAgree
<1>19. PICK w : w = g[n]
    OBVIOUS
<1>20. n \in 0..n
    BY <1>2
<1>21. WriteAscii(h, s) = w.lines
  <2>1. WriteAscii(h, s) = written[n].lines
      BY <1>1, <1>14 DEF WriteAscii, Writes
  <2> QED BY <1>18, <1>19, <1>20, <2>1
<1>22. Writing(h, s, n, w)
    BY <1>11, <1>19, <1>20
<1> QED BY <1>1, <1>21, <1>22

\* How many fall is a natural number.
LEMMA FallNat ==
    ASSUME NEW h, NEW i, NEW values \in Seq(Int)
    PROVE  Fall(h, values, i) \in Nat
<1>1. IsFiniteSet(1..Len(values))
    BY FS_Interval
<1>2. PICK K : K = {k \in DOMAIN values : h.ranges[i] <= values[k] /\ values[k] < h.ranges[i + 1]}
    OBVIOUS
<1>3. K \subseteq 1..Len(values)
    BY <1>2
<1>4. IsFiniteSet(K)
    BY <1>1, <1>3, FS_Subset
<1>5. Cardinality(K) \in Nat
    BY <1>4, FS_CardinalityType
<1> QED BY <1>2, <1>5 DEF Fall

\* After the last turn every bucket is written or empty.
LEMMA GraphFromInv == HistogramAssumption /\ HistogramInv => GraphComplete
<1> SUFFICES ASSUME HistogramAssumption, HistogramInv PROVE GraphComplete
    OBVIOUS
<1>1. Sound(histogram) /\ history \in Seq(0..(SampleMax - 1)) /\ Describes(histogram, sample_, history)
    BY DEF HistogramInv
<1>2. history \in Seq(Int)
    BY <1>1, HistoryInts
<1>3. \A i \in Buckets(histogram) : sample_.counts[i] = Fall(histogram, history, i)
    BY <1>1 DEF Describes
<1>4. Countable(histogram, sample_)
  <2>1. sample_.counts \in [Buckets(histogram) -> Int] /\ TotalCount(sample_) = Len(history)
      BY <1>1 DEF Describes
  <2>2. \A i \in Buckets(histogram) : sample_.counts[i] \in Nat
      BY <1>2, <1>3, FallNat
  <2> QED BY <1>2, <2>1, <2>2 DEF Countable
<1>5. PICK w, lines, n, total : Writing(histogram, sample_, n, w) /\ lines = WriteAscii(histogram, sample_)
                         /\ lines = w.lines /\ n = histogram.n /\ total = TotalCount(sample_)
    BY <1>1, <1>4, WriteEnds
<1>6. n \in Nat /\ n > 0 /\ Buckets(histogram) = 0..(n - 1)
    BY <1>1, <1>5 DEF Sound, Buckets
<1>7. w.i = n /\ Ordered(lines, n, total)
  <2>1. w.i \in 0..n /\ w.i >= n /\ Ordered(lines, w.i, total)
      BY <1>5 DEF Writing
  <2> QED BY <1>6, <2>1
<1>8. lines \in Seq(Line) /\ DOMAIN lines = 1..Len(lines)
    BY <1>7 DEF Ordered
<1>9. PICK Shown : Shown = {lines[k].bucket : k \in {j \in DOMAIN lines : lines[j].plotted}}
    OBVIOUS
<1>10. ASSUME NEW b PROVE b \in Shown <=> PlottedIn(lines, b)
  <2>1. ASSUME NEW k \in 1..Len(lines) PROVE lines[k].plotted \in BOOLEAN
    <3>1. lines[k] \in Line
        BY <1>8
    <3> QED BY <3>1 DEF Line
  <2>2. \A k \in 1..Len(lines) : lines[k].plotted = TRUE <=> lines[k].plotted
      BY <2>1
  <2>3. b \in Shown <=> \E k \in 1..Len(lines) : lines[k].plotted /\ lines[k].bucket = b
      BY <1>8, <1>9
  <2> QED BY <2>2, <2>3 DEF PlottedIn
<1>11. \A j, k \in DOMAIN lines : j < k => lines[j].last < lines[k].bucket
    BY <1>7, <1>8 DEF Ordered
<1>12. ASSUME NEW i \in Buckets(histogram), sample_.counts[i] > 0 PROVE i \in Shown
  <2>1. i < w.i
      BY <1>6, <1>7
  <2>2. PlottedIn(w.lines, i)
      BY <1>5, <1>12, <2>1 DEF Writing
  <2> QED BY <1>5, <1>10, <2>2
<1>13. \A k \in DOMAIN lines : lines[k].past + lines[k].count + lines[k].remaining = TotalCount(sample_)
    BY <1>5, <1>7, <1>8 DEF Ordered
<1>14. ASSUME history = <<>>, Shown # {}, NEW i \in Buckets(histogram)
       PROVE  PrintEmptyBucket(histogram, i) <=> i = histogram.n - 1
  <2>1. \A b \in Buckets(histogram) : sample_.counts[b] = 0
    <3>1. ASSUME NEW b \in Buckets(histogram) PROVE sample_.counts[b] = 0
      <4>1. sample_.counts[b] = Fall(histogram, history, b)
          BY <1>3
      <4>2. Fall(histogram, history, b) = 0
        <5>1. Ones(histogram, b, history, history) /\ Len(history) = 0
            BY <1>14 DEF Ones
        <5>2. Fall(histogram, history, b) = SumOf(history, 0)
            BY <1>2, <5>1, FallIsSum
        <5>3. SumOf(history, 0) = 0
          <6>1. \A k \in 1..0 : history[k] \in Int
              OBVIOUS
          <6> QED BY <6>1, SumRec
        <5> QED BY <5>2, <5>3
      <4> QED BY <4>1, <4>2
    <3> QED BY <3>1
  <2>2. Bare(histogram, w)
      BY <1>5, <2>1 DEF Writing
  <2>3. PICK b : PlottedIn(w.lines, b)
      BY <1>5, <1>10, <1>14
  <2>4. /\ \A j \in Buckets(histogram) : j # histogram.n - 1 => histogram.ranges[j] \in histogram.described
        /\ histogram.ranges[histogram.n - 1] \notin histogram.described
      BY <2>2, <2>3 DEF Bare
  <2>5. CASE i = histogram.n - 1
      BY <2>4, <2>5 DEF PrintEmptyBucket
  <2>6. CASE i # histogram.n - 1
      BY <2>4, <2>6 DEF PrintEmptyBucket
  <2> QED BY <2>5, <2>6
<1> QED BY <1>5, <1>9, <1>11, <1>12, <1>13, <1>14 DEF GraphComplete

\* The printed graph accounts for every sample of every histogram, and nothing
\* is plotted of an empty one but an undescribed last bucket: GraphComplete is
\* an invariant.  Each turn of the loop keeps what Writing says: the buckets
\* before its place are written or empty, and past and remaining add up.
THEOREM GraphAccounts == HistogramSpec => []GraphComplete
<1>1. HistogramInit => HistogramInv
    BY HistogramAssumption, HistogramInitInv
<1>2. HistogramInv /\ [HistogramNext]_histogramVars => HistogramInv'
    BY HistogramAssumption, HistogramNextInv
<1>3. HistogramInv => GraphComplete
    BY HistogramAssumption, GraphFromInv
<1> QED BY <1>1, <1>2, <1>3, PTL DEF HistogramSpec
=============================================================================
