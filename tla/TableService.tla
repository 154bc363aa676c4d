---------------------------- MODULE TableService ----------------------------
(***************************************************************************)
(* One SNMP table served while it is discovered: the main thread of module  *)
(* TableDiscovery extends rows_, the SNMP thread walks it for a query       *)
(* (get_first_data_point, get_next_data_point, free_loop_context and        *)
(* handler() of src/src/snmp_table.cc) with nothing between them but        *)
(* "SNMP agent is not-reentrant, ignore locking".                           *)
(*                                                                          *)
(* Net-SNMP's table iterator, which is external, asks for the first data    *)
(* point, then for the next ones until there is none, frees the loop        *)
(* context if one was made, and calls the handler with the row it picked,   *)
(* or with none.                                                            *)
(***************************************************************************)
EXTENDS TableDiscovery

CONSTANT Index \* the columns that are SNMP indexes
ASSUME IndexAssumption == Index \subseteq Cols

VARIABLES
    query,    \* where the SNMP thread is in the query
    it,       \* context_t::it, a position of rows_; end() is rows_'s own
    seen,     \* rows handed to the iterator as data points of this query
    owed,     \* history: rows that were complete when the query began
    contexts  \* context_t::global_list, of which only the length matters

qvars == <<query, it, seen, owed, contexts>>
allVars == <<vars, qvars>>

ServiceTypeOK ==
    /\ query \in {"none", "iterate", "free", "handle", "crashed"}
    /\ it \in Nat
    /\ seen \subseteq 1..Len(rows)
    /\ owed \subseteq 1..Len(rows)
    /\ contexts \in Nat

ServiceInit ==
    /\ Init
    /\ query = "none"
    /\ it = 0
    /\ seen = {} /\ owed = {}
    /\ contexts = 0

\* variable_t::data() and size() dereference the object of an attribute and
\* the variable of every other column.
HasData(n, c) ==
    IF c \in Attributes THEN rows[n].object[c] # NoObject
                        ELSE rows[n].variable[c] # NoObject

----------------------------------------------------------------------------
\* Fault: the context is not saved in the global list.
QueryFirstUnlisted ==
    /\ query = "none"
    /\ owed' = {n \in 1..Len(rows) : rows[n].built = Columns}
    /\ seen' = {}
    /\ it' = 1
    /\ query' = IF rows = <<>> THEN "handle" ELSE "iterate"
    /\ UNCHANGED <<vars, contexts>>

\* Fault: the first row is passed over.
QueryFirstSkips ==
    /\ query = "none"
    /\ owed' = {n \in 1..Len(rows) : rows[n].built = Columns}
    /\ seen' = {}
    /\ it' = 2
    /\ query' = IF rows = <<>> THEN "handle" ELSE "iterate"
    /\ contexts' = IF rows = <<>> THEN contexts ELSE contexts + 1
    /\ UNCHANGED vars

\* getFirstDataPoint(): no context for an empty table
QueryFirst ==
    /\ query = "none"
    /\ owed' = {n \in 1..Len(rows) : rows[n].built = Columns}
    /\ seen' = {}
    /\ it' = 1
    /\ query' = IF rows = <<>> THEN "handle" ELSE "iterate"
    /\ contexts' = IF rows = <<>> THEN contexts ELSE contexts + 1
    /\ UNCHANGED vars

\* variables_ may be reallocated while the SNMP thread reads it.
Torn(n) == rows[n].built < Columns

\* Fault: the iterator stays where it is.
StayThere == UNCHANGED it
\* *(context->it)++
Advance == it' = it + 1

\* getNextDataPoint() and setIndexedValues(): the row's index variables, those
\* it has so far, are read whether or not they are in sync.  A row that has
\* none yet ends the iteration.
QueryNext ==
    /\ query = "iterate"
    /\ \/ /\ it > Len(rows)
          /\ query' = "free"
          /\ UNCHANGED <<it, seen>>
       \/ /\ it <= Len(rows)
          /\ Advance
          /\ LET indexes == {c \in Index : c <= rows[it].built} IN
               IF \E c \in indexes : ~HasData(it, c)
               THEN query' = "crashed" /\ UNCHANGED seen
               ELSE /\ query' = IF indexes = {} THEN "free" ELSE "iterate"
                    /\ seen' = IF indexes = {} THEN seen ELSE seen \union {it}
       \/ /\ it <= Len(rows) /\ Torn(it)
          /\ query' = "crashed"
          /\ UNCHANGED <<it, seen>>
    /\ UNCHANGED <<vars, owed, contexts>>

\* Fault: the context is never erased.
QueryKeeps ==
    /\ query = "free"
    /\ query' = "handle"
    /\ UNCHANGED <<vars, it, seen, owed, contexts>>

\* freeLoopContext()
QueryFree ==
    /\ query = "free"
    /\ contexts' = contexts - 1
    /\ query' = "handle"
    /\ UNCHANGED <<vars, it, seen, owed>>

\* handler() in MODE_GET: NOSUCHINSTANCE without a row, otherwise the column's
\* variable, which a row under construction may not have yet.
Handle ==
    /\ query = "handle"
    /\ \/ query' = "none"
       \/ \E n \in seen, c \in Cols :
             query' = IF ~Torn(n) /\ HasData(n, c) THEN "none" ELSE "crashed"
    /\ UNCHANGED <<vars, it, seen, owed, contexts>>

QueryStep == QueryFirst \/ QueryNext \/ QueryFree \/ Handle

Main == Next /\ UNCHANGED qvars

Crashed == query = "crashed" /\ UNCHANGED allVars

ServiceNext ==
    \/ query # "crashed" /\ (QueryStep \/ Main)
    \/ Crashed

\* The iterator does not stop between two calls, and the main thread gets its
\* turns whatever the SNMP thread does.
ServiceFairness ==
    /\ WF_allVars(QueryNext) /\ WF_allVars(QueryFree) /\ WF_allVars(Handle)
    /\ WF_allVars(query # "crashed" /\ MainStep /\ UNCHANGED qvars)

ServiceSpec == ServiceInit /\ [][ServiceNext]_allVars /\ ServiceFairness

----------------------------------------------------------------------------
(* Properties *)

\* A query that comes to its end has been through every row that was complete
\* when it began, though rows_ was extended under it: new rows go to the end,
\* and only the last one can lack the index that keeps the iteration going.
QueryComplete == query \in {"free", "handle"} => owed \subseteq seen

\* The list of contexts is empty between queries, and holds one context while
\* an iteration runs, the empty table included.
ContextsBalanced ==
    query # "crashed" => contexts = IF query \in {"iterate", "free"} THEN 1 ELSE 0

\* The iteration ends, however the main thread extends the list meanwhile.
QueryEnds == query = "iterate" ~> query \in {"handle", "crashed"}

\* snmp_variable.cc:140 asserts inSync() at the start of data(): an index the
\* iterator reads next, with no handler running beside it, has found what it
\* reads.
DataInSync ==
    query = "iterate" /\ Idle /\ it <= Len(rows) => \A c \in Index : HasData(it, c)

\* snmp_table.cc:35 "SNMP agent is not-reentrant, ignore locking": the
\* SNMP thread does not walk rows_ while the main thread is inside addRow().
NotReentrant == query = "iterate" => ~Executing("row")
=============================================================================
