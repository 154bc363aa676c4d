----------------------------- MODULE SnmpService -----------------------------
(***************************************************************************)
(* What the process promises about SNMP, without threads, counters, pipes   *)
(* or failures (src/src/snmp_agent.hh and adh_maki.hh): agents take turns   *)
(* to serve, one at a time and each at most once, over a library that is up *)
(* for as long as one serves; an agent that is told to stop does.           *)
(***************************************************************************)
CONSTANT Agents

VARIABLES serving, \* the agents that answer SNMP requests
          told,    \* those that have been told to stop
          spent,   \* agents that serve or will never serve again
          library  \* the Net-SNMP library

vars == <<serving, told, spent, library>>

Init == serving = {} /\ told = {} /\ spent = {} /\ library = "down"

Open ==
    /\ library = "down"
    /\ library' = "up"
    /\ UNCHANGED <<serving, told, spent>>

Start(a) ==
    /\ library = "up" /\ serving = {} /\ a \notin spent
    /\ serving' = {a}
    /\ spent' = spent \union {a}
    /\ UNCHANGED <<told, library>>

Tell(a) ==
    /\ a \in serving
    /\ told' = told \union {a}
    /\ UNCHANGED <<serving, spent, library>>

Stop(a) ==
    /\ a \in told
    /\ serving' = {} /\ told' = {}
    /\ UNCHANGED <<spent, library>>

\* A signal takes the thread out of its loop before anyone tells it.
Interrupt(a) ==
    /\ a \in serving
    /\ serving' = {} /\ told' = {}
    /\ UNCHANGED <<spent, library>>

\* An agent is given up that never came to serve.
Retire(a) ==
    /\ a \notin spent
    /\ spent' = spent \union {a}
    /\ UNCHANGED <<serving, told, library>>

Close ==
    /\ library = "up" /\ serving = {}
    /\ library' = "down"
    /\ UNCHANGED <<serving, told, spent>>

Next ==
    \/ Open \/ Close
    \/ \E a \in Agents : Start(a) \/ Tell(a) \/ Stop(a) \/ Interrupt(a) \/ Retire(a)

Safety == Init /\ [][Next]_vars
Spec == Safety /\ \A a \in Agents : WF_vars(Stop(a))
=============================================================================
