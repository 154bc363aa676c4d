-------------------------------- MODULE Maki --------------------------------
(***************************************************************************)
(* The process: adh::maki_t (src/src/adh_maki.cc), its main thread and its  *)
(* signal handler, over the Net-SNMP session of module AgentSession.  The   *)
(* agent is an adh::agent_t, so destroying it first destroys the members of *)
(* the derived class, the SNMP tables, and then runs ~snmp::agent_t().      *)
(*                                                                          *)
(* The client of maki_t (main() in src/src/main.cc calls run() once and     *)
(* then the destructor) may call run() and clear() in any order: each run() *)
(* constructs a new agent, which replaces one that is still there.          *)
(***************************************************************************)
EXTENDS AgentSession, FiniteSets

CONSTANT NoAgent
ASSUME NoAgentAssumption == NoAgent \notin Agents

VARIABLES main,     \* what the main thread is doing in maki_t
          agent,    \* maki_t::agent_
          old,      \* the agent make_shared() has just displaced, to be destroyed
          notifier, \* is the RMC event notifier enabled?
          tables    \* adh::agent_t::tables_ of each agent

vars == <<svars, main, agent, old, notifier, tables>>

MainStates == {"client", "replace", "agentRun", "started", "notify",
               "reset", "gone"}

\* The types; here the counter counts the one agent of maki_t.
TypeOK ==
    /\ SessionTypeOK
    /\ refCount \in {0, 1}
    /\ main \in MainStates
    /\ agent \in Agents \union {NoAgent}
    /\ old \in Agents \union {NoAgent}
    /\ notifier \in BOOLEAN
    /\ tables \in [Agents -> {"none", "built", "freed"}]

Init ==
    /\ SessionInit
    /\ main = "client"
    /\ agent = NoAgent
    /\ old = NoAgent
    /\ notifier = TRUE
    /\ tables = [a \in Agents |-> "none"]

----------------------------------------------------------------------------
(* maki_t::run()                                                            *)

\* Lines 70 to 105: a new agent_t is constructed, then agent_ releases the
\* one it held.
Run(a) ==
    /\ main = "client"
    /\ Construct(a)
    /\ agent' = a
    /\ old' = agent
    /\ main' = IF agent = NoAgent THEN "agentRun" ELSE "replace"
    /\ UNCHANGED <<notifier, tables>>

\* mainLoop() calls agent_t::run() and ignores what it returns.
AgentRun ==
    /\ main = "agentRun"
    /\ RunEnter(agent)
    /\ main' = "started"
    /\ UNCHANGED <<agent, old, notifier, tables>>

\* init_MIB() fills tables_; when it fails it may already hold some.
BuildTables ==
    /\ InitMib \/ InitMibFails
    /\ tables' = [tables EXCEPT ![self] = "built"]
    /\ UNCHANGED <<main, agent, old, notifier>>

AgentRunStep ==
    /\ \/ InitAgent \/ InitAgentFails \/ InitMaster \/ InitMasterFails
       \/ OpenPipe \/ OpenPipeFails \/ SpawnPump
    /\ UNCHANGED <<main, agent, old, notifier, tables>>

\* addServerPool(), then RTRSelectNotifier::run(), which may or may not
\* enable a notifier that a signal has disabled before.
EnterNotifier ==
    /\ main = "started" /\ phase = "idle"
    /\ main' = "notify"
    /\ notifier' \in {notifier, TRUE}
    /\ UNCHANGED <<svars, agent, old, tables>>

LeaveNotifier ==
    /\ main = "notify" /\ ~notifier
    /\ main' = "client"
    /\ UNCHANGED <<svars, agent, old, notifier, tables>>

\* on_signal() disables the notifier.  It runs on any thread: a pump thread
\* in select() is interrupted by it.
OnSignal ==
    /\ main \in {"agentRun", "started", "notify"}
    /\ notifier' = FALSE
    /\ \/ UNCHANGED svars
       \/ \E a \in Agents : PumpInterrupted(a)
    /\ UNCHANGED <<main, agent, old, tables>>

----------------------------------------------------------------------------
(* Destroying an agent: tables_ goes first, then ~snmp::agent_t().          *)

Victim == IF main = "replace" THEN old ELSE agent

FreeTables ==
    /\ main \in {"replace", "reset"} /\ phase = "idle"
    /\ Victim # NoAgent /\ obj[Victim] = "live"
    /\ tables[Victim] # "freed"
    /\ tables' = [tables EXCEPT ![Victim] = "freed"]
    /\ UNCHANGED <<svars, main, agent, old, notifier>>

DestroySession ==
    /\ main \in {"replace", "reset"}
    /\ Victim # NoAgent /\ tables[Victim] = "freed"
    /\ ClearEnter(Victim, TRUE)
    /\ UNCHANGED <<main, agent, old, notifier, tables>>

DestroyStep ==
    /\ ClearStep
    /\ UNCHANGED <<main, agent, old, notifier, tables>>

\* The displaced agent is gone: run() goes on with the new one.
Replaced ==
    /\ main = "replace" /\ phase = "idle" /\ obj[old] = "dead"
    /\ main' = "agentRun"
    /\ old' = NoAgent
    /\ UNCHANGED <<svars, agent, notifier, tables>>

\* clear(): agent_.reset().  The destructor is a clear() and the end.
Clear ==
    /\ main = "client" /\ agent # NoAgent
    /\ main' = "reset"
    /\ UNCHANGED <<svars, agent, old, notifier, tables>>

Cleared ==
    /\ main = "reset" /\ phase = "idle" /\ obj[agent] = "dead"
    /\ main' \in {"client", "gone"}
    /\ agent' = NoAgent
    /\ UNCHANGED <<svars, old, notifier, tables>>

Pump(a) ==
    /\ PumpStep(a)
    /\ UNCHANGED <<main, agent, old, notifier, tables>>

----------------------------------------------------------------------------
MainNext ==
    \/ AgentRun \/ BuildTables \/ AgentRunStep
    \/ EnterNotifier \/ LeaveNotifier
    \/ FreeTables \/ DestroySession \/ DestroyStep \/ Replaced \/ Cleared

\* The client is done with maki_t, or there is no agent left to try.
Finished ==
    /\ main \in {"client", "gone"} /\ agent = NoAgent
    /\ UNCHANGED vars

Next ==
    \/ \E a \in Agents : Run(a) \/ Pump(a)
    \/ MainNext
    \/ Clear
    \/ OnSignal
    \/ Finished

\* The main thread runs until it blocks in the notifier or returns to its
\* client; a pump thread woken by the byte, or done with a request, goes on.
Fairness ==
    /\ WF_vars(MainNext)
    /\ \A a \in Agents :
          /\ WF_vars(PumpWake(a) /\ UNCHANGED <<main, agent, old, notifier, tables>>)
          /\ WF_vars(PumpServed(a) /\ UNCHANGED <<main, agent, old, notifier, tables>>)

Spec == Init /\ [][Next]_vars /\ Fairness

----------------------------------------------------------------------------
(* Safety *)

\* The session the comments promise ("Only one session.", snmp_agent.hh:53):
\* at most one pump thread runs in the process, whatever failed before.
SingleSession == \A a, b \in Agents : Running(a) /\ Running(b) => a = b

\* agent_t::run() is never answered with "already running" by a counter that
\* an earlier agent, or a failed run(), has left behind: when mainLoop()
\* calls it, ref_count_ is back to 0.
RunOpensSession == main = "agentRun" => refCount = 0

\* No pump thread outlives the agent object that spawned it, so none is ever
\* detached by ~thread() and left beyond the reach of the process.
PumpOwned == \A a \in Agents : Running(a) => obj[a] = "live"

\* No request is served by a library that snmp_shutdown() has torn down.
LibraryUpWhileServing == (\E a \in Agents : Running(a)) => lib = "up"

\* adh_maki.cc:113 "capture terminate signals": a signal ends the process and
\* not one half of it.  While the RMC main loop runs on, the thread that
\* answers SNMP has not left its loop on account of a select() that a signal
\* interrupted.  It does not hold: a signal between SpawnPump and EnterNotifier
\* ends the pump, and the notifier may be enabled afterwards.
SnmpWhileMonitoring ==
    main = "notify" /\ notifier => pump[agent] # "exited"

\* snmp_agent.cc:159 "Terminate thread and free resources": what a request
\* is served from is freed only after the thread has ended.
ThreadEndsBeforeTables ==
    \A a \in Agents : pump[a] = "serving" => tables[a] # "freed"

----------------------------------------------------------------------------
(* Liveness *)

\* Destroying an agent ends: the main thread is not left waiting for a pump
\* thread that does not know it has to stop.
DestroyEnds == main \in {"replace", "reset"} ~> main \notin {"replace", "reset"}
=============================================================================
