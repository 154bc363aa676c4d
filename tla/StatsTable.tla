------------------------------ MODULE StatsTable ------------------------------
(***************************************************************************)
(* The statistics table of src/src/chromium/metrics/stats_table.cc, a grid  *)
(* in memory shared by processes, and the counters of stats_counters.cc     *)
(* that threads bump and read through it.  A thread owns a column once it   *)
(* registered, a name owns a row once a thread looked it up; registering    *)
(* either takes the lock of the shared memory, the data takes none.         *)
(*                                                                          *)
(* Processes open the table one after another: StatsTable::Private::New()   *)
(* tests the version and clears the memory without the lock.  A counter is  *)
(* the stack object of STATS_COUNTER, so its counter_id_ starts at -1.      *)
(***************************************************************************)
EXTENDS Naturals, FiniteSets, FiniteSetsExt

CONSTANTS Processes, ProcessOf,  \* the processes, and that of each thread
          Destroyer,   \* the thread that destroys each process's StatsTable
          Counters,    \* counter names
          MaxThreads, MaxCounters, \* columns and rows of the table
          MaxUses      \* bound on the counters each thread uses, by thread

Users == DOMAIN ProcessOf
Slots == 1..MaxThreads
Rows == 1..MaxCounters
Cells == 0..(MaxThreads * MaxCounters - 1)
Free == "free"

ASSUME StatsAssumption ==
    /\ \A t \in Users : ProcessOf[t] \in Processes
    /\ \A p \in Processes : Destroyer[p] \in Users /\ ProcessOf[Destroyer[p]] = p
    /\ MaxThreads \in Nat \ {0} /\ MaxCounters \in Nat \ {0} /\ MaxUses \in [Users -> Nat]
    /\ Free \notin Users \union Counters

VARIABLES
    thread_name,  \* the owner written in each column, or Free
    counter_name, \* the name written in each row, or Free
    data,         \* the grid
    counters,     \* each process's cache of the rows
    open,         \* processes between StatsTable() and ~StatsTable()
    slot,         \* each thread's TLSData, 0 without
    user,         \* each thread: where it is and the locals of its call
    uses,         \* counters each thread has used
    added         \* increments made in all, of each name

sharedVars == <<thread_name, counter_name, data>>
processVars == <<counters, open>>
statsVars == <<sharedVars, processVars, slot, user, uses, added>>

NotCached == [c \in Counters |-> 0]
Resting == [pc |-> "idle", op |-> "add", name |-> Free, id |-> 0, loc |-> 0, sum |-> 0, low |-> 0]

StatsInit ==
    /\ thread_name = [s \in Slots |-> Free]
    /\ counter_name = [r \in Rows |-> Free]
    /\ data = [c \in Cells |-> 0]
    /\ counters = [p \in Processes |-> NotCached]
    /\ open = Processes
    /\ slot = [t \in Users |-> 0]
    /\ user = [t \in Users |-> Resting]
    /\ uses = [t \in Users |-> 0]
    /\ added = [c \in Counters |-> 0]

Cached(t) == counters[ProcessOf[t]][user[t].name]
AtStat(t, place) == user[t].pc = place
Leave(t) == user' = [user EXCEPT ![t] = Resting]

----------------------------------------------------------------------------
(* StatsCounter::Add() and StatsTable::GetCounterValue(): both find the     *)
(* counter first; without a current() table both return at once.            *)

BeginUse(t, op, c) ==
    /\ AtStat(t, "idle") /\ uses[t] < MaxUses[t] /\ ProcessOf[t] \in open
    /\ uses' = [uses EXCEPT ![t] = @ + 1]
    /\ user' = [user EXCEPT ![t] =
         [pc |-> "cached", op |-> op, name |-> c, id |-> 0, loc |-> 0, sum |-> 0, low |-> added[c]]]
    /\ UNCHANGED <<sharedVars, processVars, slot, added>>

Found(op) == IF op = "add" THEN "slot" ELSE "sum"

\* FindCounter(): the cache, under counters_lock_.
FindCounter(t) ==
    /\ AtStat(t, "cached")
    /\ user' = [user EXCEPT ![t].pc = IF Cached(t) # 0 THEN Found(user[t].op) ELSE "row",
                            ![t].id = Cached(t)]
    /\ UNCHANGED <<sharedVars, processVars, slot, uses, added>>

\* The first row of that name, or else the first free one, or 0.
FindCounterOrEmptyRow(c) ==
    LET named == {r \in Rows : counter_name[r] = c}
        empty == {r \in Rows : counter_name[r] = Free}
    IN  IF named # {} THEN Min(named) ELSE IF empty # {} THEN Min(empty) ELSE 0

\* AddCounter(): the row, under the lock of the shared memory.
AddCounter(t) ==
    LET id == FindCounterOrEmptyRow(user[t].name)
    IN  /\ AtStat(t, "row")
        /\ user' = [user EXCEPT ![t].pc = IF id = 0 THEN Found(user[t].op) ELSE "cache", ![t].id = id]
        /\ counter_name' = [r \in Rows |-> IF r = id THEN user[t].name ELSE counter_name[r]]
        /\ UNCHANGED <<thread_name, data, processVars, slot, uses, added>>

\* AddCounter(): the cache, under counters_lock_.
CacheCounter(t) ==
    /\ AtStat(t, "cache")
    /\ counters' = [counters EXCEPT ![ProcessOf[t]][user[t].name] = user[t].id]
    /\ user' = [user EXCEPT ![t].pc = Found(user[t].op)]
    /\ UNCHANGED <<sharedVars, open, slot, uses, added>>

----------------------------------------------------------------------------
(* GetPtr(): a column for the thread, then the unlocked increment.          *)

\* Fault: the last column is shared when all are taken.
FindAnyThread ==
    LET empty == {s \in Slots : thread_name[s] = Free}
    IN  IF empty = {} THEN MaxThreads ELSE Min(empty)

FindEmptyThread ==
    LET empty == {s \in Slots : thread_name[s] = Free}
    IN  IF empty = {} THEN 0 ELSE Min(empty)

\* RegisterThread(""), under the lock; in a full table the counter is dropped.
RegisterThread(t) ==
    LET new == FindEmptyThread
    IN  /\ AtStat(t, "slot") /\ slot[t] = 0
        /\ thread_name' = [s \in Slots |-> IF s = new THEN t ELSE thread_name[s]]
        /\ slot' = [slot EXCEPT ![t] = new]
        /\ IF new = 0 THEN Leave(t) ELSE user' = [user EXCEPT ![t].pc = "locate"]
        /\ UNCHANGED <<counter_name, data, processVars, uses, added>>

\* GetLocation(), as an index into the grid.
GetLocation(id, s) == (id - 1) * MaxThreads + (s - 1)

\* counter_id_ 0 means that the rows are full: nothing is counted.
Locate(t) ==
    /\ AtStat(t, "locate") \/ (AtStat(t, "slot") /\ slot[t] # 0)
    /\ IF user[t].id = 0 THEN Leave(t)
       ELSE LET loc == GetLocation(user[t].id, slot[t])
            IN  user' = [user EXCEPT ![t].pc = "store", ![t].loc = loc, ![t].sum = data[loc]]
    /\ UNCHANGED <<sharedVars, processVars, slot, uses, added>>

\* The store of (*loc) += 1.
StoreIncrement(t) ==
    /\ AtStat(t, "store")
    /\ data' = [data EXCEPT ![user[t].loc] = user[t].sum + 1]
    /\ added' = [added EXCEPT ![user[t].name] = @ + 1]
    /\ Leave(t)
    /\ UNCHANGED <<thread_name, counter_name, processVars, slot, uses>>

----------------------------------------------------------------------------
(* GetRowValue(): the columns one by one, without a lock.                   *)

SumColumn(t) ==
    /\ AtStat(t, "sum") /\ user[t].id # 0 /\ user[t].loc < MaxThreads
    /\ user' = [user EXCEPT ![t].loc = @ + 1,
                            ![t].sum = @ + data[GetLocation(user[t].id, user[t].loc + 1)]]
    /\ UNCHANGED <<sharedVars, processVars, slot, uses, added>>

ReturnValue(t) ==
    /\ AtStat(t, "sum") /\ (user[t].id = 0 \/ user[t].loc = MaxThreads)
    /\ Leave(t)
    /\ UNCHANGED <<sharedVars, processVars, slot, uses, added>>

\* ~StatsTable(), when its process uses no counter any more: only the thread
\* that runs it is unregistered, and the column keeps its counts.
DestroyTable(p) ==
    LET t == Destroyer[p]
    IN  /\ p \in open
        /\ \A u \in Users : ProcessOf[u] = p => AtStat(u, "idle")
        /\ open' = open \ {p}
        /\ thread_name' = [s \in Slots |-> IF s = slot[t] THEN Free ELSE thread_name[s]]
        /\ slot' = [slot EXCEPT ![t] = 0]
        /\ counters' = [counters EXCEPT ![p] = NotCached]
        /\ UNCHANGED <<counter_name, data, user, uses, added>>

UserStep(t) ==
    \/ \E op \in {"add", "read"}, c \in Counters : BeginUse(t, op, c)
    \/ FindCounter(t) \/ AddCounter(t) \/ CacheCounter(t)
    \/ RegisterThread(t) \/ Locate(t) \/ StoreIncrement(t)
    \/ SumColumn(t) \/ ReturnValue(t)

StatsNext == (\E t \in Users : UserStep(t)) \/ (\E p \in Processes : DestroyTable(p))
StatsSpec == StatsInit /\ [][StatsNext]_statsVars

----------------------------------------------------------------------------

\* The partition "which each thread uses so that no locking is required"
\* (stats_table.cc:45): registered threads own different columns, a name has
\* one row, and what a process cached of the rows is what the table says.
TablePartitioned ==
    /\ \A t, u \in Users : slot[t] # 0 /\ slot[t] = slot[u] => t = u
    /\ \A r, q \in Rows : counter_name[r] # Free /\ counter_name[r] = counter_name[q] => r = q
    /\ \A p \in Processes, c \in Counters :
         counters[p][c] # 0 => counter_name[counters[p][c]] = c

\* The counts of a row up to each column, 0 up to none.
Row(r) == [s \in Slots |-> data[GetLocation(r, s)]]
SumUpTo(row) ==
    LET sum[s \in 0..MaxThreads] == IF s = 0 THEN 0 ELSE sum[s - 1] + row[s]
    IN  sum
RowTotal(r) == SumUpTo(Row(r))[MaxThreads]

\* No increment is lost, whichever threads and processes made it, though the
\* increment is a load and a store without a lock and columns are used again.
TotalsKept ==
    /\ \A r \in Rows : counter_name[r] # Free => RowTotal(r) = added[counter_name[r]]
    /\ \A c \in Counters : (\A r \in Rows : counter_name[r] # c) => added[c] = 0

\* What GetCounterValue() returns without a lock lies between the count when it
\* began and the count when it returns.
ReadsBounded ==
    \A t \in Users : user[t].op = "read" /\ AtStat(t, "sum") =>
      LET all == user[t].id # 0 /\ user[t].loc = MaxThreads
      IN  (all => user[t].low <= user[t].sum) /\ user[t].sum <= added[user[t].name]

\* The counters count: every increment once, and a reader sees no other.
CountsKept == TotalsKept /\ ReadsBounded
=============================================================================
