-------------------------- MODULE StatisticsRecorder --------------------------
(***************************************************************************)
(* The registry of histograms: StatisticsRecorder of                        *)
(* src/src/chromium/metrics/histogram.cc and the block every histogram      *)
(* macro expands to (histogram.hh:118).  Threads record samples at call     *)
(* sites, each with a static pointer, while the recorder is started, taken  *)
(* down in two locked sections and started again.  Histograms and the       *)
(* CachedRanges they are created with share one pool of identities.         *)
(***************************************************************************)
EXTENDS Naturals, Sequences, FiniteSets

CONSTANTS Callers,    \* threads that record and dump histograms
          Sites,      \* expansions of the macro
          NameAt,     \* the histogram name written at each site
          ShapeOf,    \* the bucket ranges each name is declared with
          Crc,        \* the checksum of the bucket ranges; it may collide
          Starts,     \* bound on the recorders constructed one after another
          Calls       \* bound on the macros and dumps each thread executes

Names == {NameAt[s] : s \in Sites}
Shapes == {ShapeOf[n] : n \in Names}

ASSUME RecorderAssumption ==
    /\ DOMAIN NameAt = Sites /\ Names \subseteq DOMAIN ShapeOf /\ Shapes \subseteq DOMAIN Crc
    /\ Starts \in Nat /\ Calls \in Nat \ {0}

NoHistogram == 0

VARIABLES
    registry,   \* histograms_: the registered histogram of each name
    ranges,     \* ranges_: the list of CachedRanges of each checksum
    up,         \* histograms_ and ranges_, those that are not NULL
    epoch,      \* recorders constructed so far: lock_ is NULL until the first
    made,       \* name each histogram was constructed with, in order
    rangesOf,   \* cached_ranges_ of each histogram
    alive,      \* histograms and CachedRanges not deleted
    static,     \* atomic_histogram_pointer of each site
    caller,     \* each thread: where it is, its site, its pointer
    calls,      \* macros and dumps each thread has begun
    dumping     \* the pointers GetSnapshot() copied for each thread

mapVars == <<registry, ranges, up, epoch>>
heapVars == <<made, rangesOf, alive>>
callVars == <<static, caller, calls, dumping>>
recorderVars == <<mapVars, heapVars, callVars>>

\* Histograms are numbered in the order they were constructed in.
Ids == DOMAIN made
\* A pointer, with the recorder in which it was found or registered (0: none).
Pointer == [id : Ids \union {NoHistogram}, epoch : 0..Starts]
NoPointer == [id |-> NoHistogram, epoch |-> 0]
ShapeAt(id) == ShapeOf[made[id]]
Registered == {registry[n] : n \in Names} \ {NoHistogram}

Idle == [pc |-> "idle", site |-> CHOOSE s \in Sites : TRUE, ptr |-> NoPointer]

RecorderInit ==
    /\ registry = [n \in Names |-> NoHistogram]
    /\ ranges = [c \in {Crc[s] : s \in Shapes} |-> <<>>]
    /\ up = {} /\ epoch = 0
    /\ made = <<>> /\ rangesOf = <<>>
    /\ alive = [histograms |-> {}, ranges |-> {}]
    /\ static = [s \in Sites |-> NoPointer]
    /\ caller = [t \in Callers |-> Idle]
    /\ calls = [t \in Callers |-> 0]
    /\ dumping = [t \in Callers |-> {}]

At(t, place) == caller[t].pc = place
SiteName(t) == NameAt[caller[t].site]

----------------------------------------------------------------------------
(* The life of the recorder.                                                *)

\* StatisticsRecorder(): both maps in one locked section.
StartRecorder ==
    /\ up = {} /\ epoch < Starts
    /\ up' = {"histograms", "ranges"}
    /\ epoch' = epoch + 1
    /\ registry' = [n \in Names |-> NoHistogram]
    /\ ranges' = [c \in DOMAIN ranges |-> <<>>]
    /\ UNCHANGED <<heapVars, callVars>>

\* ~StatisticsRecorder(): first the histograms, then the ranges; both leak.
StopHistograms ==
    /\ up = {"histograms", "ranges"}
    /\ up' = up \ {"histograms"}
    /\ UNCHANGED <<registry, ranges, epoch, heapVars, callVars>>

StopRanges ==
    /\ up = {"ranges"}
    /\ up' = {}
    /\ UNCHANGED <<registry, ranges, epoch, heapVars, callVars>>

----------------------------------------------------------------------------
(* A macro: load the static pointer, or find or construct the histogram.    *)

EnterMacro(t, s) ==
    /\ At(t, "idle") /\ calls[t] < Calls
    /\ calls' = [calls EXCEPT ![t] = @ + 1]
    /\ caller' = [caller EXCEPT ![t] =
         [pc |-> IF static[s].id = NoHistogram THEN "find" ELSE "add", site |-> s, ptr |-> static[s]]]
    /\ UNCHANGED <<mapVars, heapVars, static, dumping>>

\* FindHistogram(): without lock_ or histograms_ nothing is found.
Find(t) ==
    LET found == IF "histograms" \in up THEN registry[SiteName(t)] ELSE NoHistogram
    IN  /\ At(t, "find")
        /\ caller' = [caller EXCEPT
             ![t].pc = IF found = NoHistogram THEN "construct" ELSE "store",
             ![t].ptr = IF found = NoHistogram THEN @ ELSE [id |-> found, epoch |-> epoch]]
        /\ UNCHANGED <<mapVars, heapVars, static, calls, dumping>>

\* new Histogram, which allocates its own CachedRanges.
Construct(t) ==
    LET id == Len(made) + 1
    IN  /\ At(t, "construct")
        /\ made' = Append(made, SiteName(t))
        /\ rangesOf' = Append(rangesOf, id)
        /\ alive' = [histograms |-> alive.histograms \union {id}, ranges |-> alive.ranges \union {id}]
        /\ caller' = [caller EXCEPT ![t].pc = "register", ![t].ptr = [id |-> id, epoch |-> 0]]
        /\ UNCHANGED <<mapVars, static, calls, dumping>>

\* The CachedRanges registered under the checksum of those of id.
ChecksumMatching(id) == ranges[Crc[ShapeAt(id)]]

\* Fault: equal checksums are taken for equal ranges.
SameChecksum(id) == DOMAIN ChecksumMatching(id)

\* RegisterOrDeleteDuplicateRanges(): where registered ranges equal those of id.
SameRanges(id) == {i \in DOMAIN ChecksumMatching(id) : ShapeAt(ChecksumMatching(id)[i]) = ShapeAt(id)}

RegisterRanges(id) ==
    /\ SameRanges(id) = {}
    /\ ranges' = [ranges EXCEPT ![Crc[ShapeAt(id)]] = <<id>> \o @]
    /\ UNCHANGED <<rangesOf, alive>>

\* The first of them replaces the ranges of id.
DeleteDuplicateRanges(id) ==
    \E first \in SameRanges(id) :
      /\ \A i \in SameRanges(id) : first <= i
      /\ rangesOf' = [rangesOf EXCEPT ![id] = ChecksumMatching(id)[first]]
      /\ alive' = [alive EXCEPT !.ranges = @ \ {rangesOf[id]}]
      /\ UNCHANGED ranges

Takes(t, id, e) == caller' = [caller EXCEPT ![t].pc = "store", ![t].ptr = [id |-> id, epoch |-> e]]

\* Fault: the deleted duplicate is returned.
KeepDuplicate(t, id) ==
    /\ registry[made[id]] # NoHistogram
    /\ alive' = [alive EXCEPT !.histograms = @ \ {id}]
    /\ Takes(t, id, epoch)
    /\ UNCHANGED <<registry, ranges, rangesOf>>

\* The CachedRanges of a duplicate leak.
DeleteDuplicate(t, id) ==
    /\ registry[made[id]] # NoHistogram
    /\ alive' = [alive EXCEPT !.histograms = @ \ {id}]
    /\ Takes(t, registry[made[id]], epoch)
    /\ UNCHANGED <<registry, ranges, rangesOf>>

RegisterNew(t, id) ==
    /\ registry[made[id]] = NoHistogram
    /\ registry' = [registry EXCEPT ![made[id]] = id]
    /\ RegisterRanges(id) \/ DeleteDuplicateRanges(id)
    /\ Takes(t, id, epoch)

\* RegisterOrDeleteDuplicate(): without a recorder the histogram is the caller's own.
Register(t) ==
    LET id == caller[t].ptr.id
    IN  /\ At(t, "register")
        /\ \/ /\ "histograms" \notin up /\ Takes(t, id, 0)
              /\ UNCHANGED <<registry, ranges, rangesOf, alive>>
           \/ "histograms" \in up /\ (RegisterNew(t, id) \/ DeleteDuplicate(t, id))
        /\ UNCHANGED <<up, epoch, made, static, calls, dumping>>

\* Release_Store(): whatever another thread stored meanwhile is overwritten.
Store(t) ==
    /\ At(t, "store")
    /\ static' = [static EXCEPT ![caller[t].site] = caller[t].ptr]
    /\ caller' = [caller EXCEPT ![t].pc = "add"]
    /\ UNCHANGED <<mapVars, heapVars, calls, dumping>>

\* Add(): reads the ranges and the counts through the pointer.
AddSample(t) ==
    /\ At(t, "add")
    /\ caller' = [caller EXCEPT ![t] = Idle]
    /\ UNCHANGED <<mapVars, heapVars, static, calls, dumping>>

----------------------------------------------------------------------------
(* WriteGraph() and WriteHTMLGraph(): IsActive(), GetSnapshot() and the     *)
(* output, each after the lock of the one before was let go.                *)

IsActive(t) ==
    /\ At(t, "idle") /\ calls[t] < Calls /\ "histograms" \in up
    /\ calls' = [calls EXCEPT ![t] = @ + 1]
    /\ caller' = [caller EXCEPT ![t].pc = "snapshot"]
    /\ UNCHANGED <<mapVars, heapVars, static, dumping>>

\* With the query "" every name matches; none when the recorder went away.
GetSnapshot(t) ==
    /\ At(t, "snapshot")
    /\ dumping' = [dumping EXCEPT ![t] = IF "histograms" \in up THEN Registered ELSE {}]
    /\ caller' = [caller EXCEPT ![t].pc = "write"]
    /\ UNCHANGED <<mapVars, heapVars, static, calls>>

WriteOne(t) ==
    /\ At(t, "write")
    /\ \/ /\ dumping[t] # {}
          /\ dumping' = [dumping EXCEPT ![t] = @ \ {CHOOSE id \in @ : TRUE}]
          /\ UNCHANGED caller
       \/ /\ dumping[t] = {}
          /\ caller' = [caller EXCEPT ![t] = Idle]
          /\ UNCHANGED dumping
    /\ UNCHANGED <<mapVars, heapVars, static, calls>>

CallerStep(t) ==
    \/ \E s \in Sites : EnterMacro(t, s)
    \/ Find(t) \/ Construct(t) \/ Register(t) \/ Store(t) \/ AddSample(t)
    \/ IsActive(t) \/ GetSnapshot(t) \/ WriteOne(t)

RecorderNext ==
    \/ StartRecorder \/ StopHistograms \/ StopRanges
    \/ \E t \in Callers : CallerStep(t)

RecorderSpec == RecorderInit /\ [][RecorderNext]_recorderVars

----------------------------------------------------------------------------

\* Every pointer in use: of a thread, of a site, of a dump, of the live map.
Held == {caller[t].ptr.id : t \in Callers} \union {static[s].id : s \in Sites}
        \union (UNION {dumping[t] : t \in Callers})
        \union (IF "histograms" \in up THEN Registered ELSE {})

\* No duplicate that RegisterOrDeleteDuplicate() deleted, and no CachedRanges
\* it replaced, can be reached by a thread, a static pointer, a dump in
\* progress or the maps; the ranges map outlives the histograms that use it.
NothingDangles ==
    /\ Held \ {NoHistogram} \subseteq alive.histograms
    /\ \A id \in Held \ {NoHistogram} : rangesOf[id] \in alive.ranges
    /\ "ranges" \in up => \A c \in DOMAIN ranges : \A i \in DOMAIN ranges[c] : ranges[c][i] \in alive.ranges
    /\ "histograms" \in up => "ranges" \in up

\* While a recorder is up, every pointer that was found or registered in it, at
\* whatever site and by whatever thread, is the registered one of its name.
PointersRegistered ==
    "histograms" \in up =>
      /\ \A t \in Callers : caller[t].ptr.epoch = epoch => caller[t].ptr.id = registry[SiteName(t)]
      /\ \A s \in Sites : static[s].epoch = epoch => static[s].id = registry[NameAt[s]]

\* Registered histograms with equal ranges share one object, which the ranges
\* map lists once, also when checksums collide.
RangesShared ==
    "histograms" \in up =>
      /\ \A g, h \in Registered : ShapeAt(g) = ShapeAt(h) => rangesOf[g] = rangesOf[h]
      /\ \A g \in Registered :
           /\ ShapeAt(rangesOf[g]) = ShapeAt(g)
           /\ Cardinality({i \in DOMAIN ChecksumMatching(g) : ChecksumMatching(g)[i] = rangesOf[g]}) = 1

\* "The returned value is always the registered histogram" (histogram.hh:668)
\* and "the cached_ranges_ of |histogram| is always the registered CachedRanges"
\* (histogram.hh:674), whichever of the threads that race for a name is first.
RegisteredReturned == PointersRegistered /\ RangesShared
=============================================================================
