------------------------------ MODULE MakiProofs ------------------------------
(***************************************************************************)
(* Proofs about the agents of the process, for every set of agents.         *)
(*                                                                          *)
(* First the session under any client of snmp::agent_t, for any number of   *)
(* references.  PumpHasPipe is not inductive: closing a pipe keeps it only  *)
(* if the thread of that pipe was joined before (PositionInv), and a thread *)
(* that was not joined keeps its pipe even after it has left its loop       *)
(* (PipesInv), since a later run() may still find it.                       *)
(*                                                                          *)
(* Then module Maki, the client that the process is: the inductive          *)
(* invariant of MakiInv, the safety invariants that follow from it, the      *)
(* action property that follows from one step, and that every step of Maki  *)
(* is a step of SnmpService or changes nothing there.                       *)
(***************************************************************************)
EXTENDS MakiService, TLAPS

----------------------------------------------------------------------------
(* The session under any client.                                           *)

\* A thread that nobody joined has a pipe, and bytes are read where they go.
PipesInv ==
    /\ \A a \in Agents : Joinable(a) => pipe[a] # "closed"
    /\ NoStaleByte

\* What is true of the pipe and the thread of self at each place of a call.
PositionInv ==
    /\ phase = "spawn" => pipe[self] = "empty"
    /\ phase = "join" => pipe[self] = "byte"
    /\ phase = "close" => ~Joinable(self)

SessionInv == SessionTypeOK /\ PipesInv /\ PositionInv

\* The strengthening holds at first and is kept by every step of every client.
LEMMA InitSessionInv == SessionInit => SessionInv
<1> SUFFICES ASSUME SessionInit PROVE SessionInv
    OBVIOUS
<1>1. dying \in BOOLEAN
    BY DEF SessionInit
<1>2. SessionTypeOK
    BY <1>1 DEF SessionInit, SessionTypeOK, RunPhases, ClearPhases
<1>3. PipesInv /\ PositionInv
    BY DEF SessionInit, PipesInv, PositionInv, NoStaleByte, Joinable
<1> QED BY <1>2, <1>3 DEF SessionInv

\* The steps of run(), in which no clear() is under way.
LEMMA RunKeepsSessionInv == SessionInv /\ RunStep => SessionInv'
<1> SUFFICES ASSUME SessionInv, RunStep PROVE SessionInv'
    OBVIOUS
<1> USE DEF SessionInv, SessionTypeOK, PipesInv, PositionInv, NoStaleByte,
            Joinable, RunPhases, ClearPhases
<1>1. ASSUME NEW step \in RunPhases, RunFails(step) PROVE SessionInv'
    BY <1>1 DEF RunFails, Return
<1>2. CASE InitAgent
    BY <1>2 DEF InitAgent
<1>3. CASE InitMib
    BY <1>3 DEF InitMib
<1>4. CASE InitMaster
    BY <1>4 DEF InitMaster
<1>5. CASE OpenPipe
    BY <1>5 DEF OpenPipe
<1>6. CASE SpawnPump
    BY <1>6 DEF SpawnPump, Return
<1> QED
    BY <1>1, <1>2, <1>3, <1>4, <1>5, <1>6
    DEF RunStep, InitAgentFails, InitMibFails, InitMasterFails, OpenPipeFails

\* clear() and the destructor.
LEMMA ClearKeepsSessionInv ==
    ASSUME SessionInv,
           ClearStep \/ (\E a \in Agents, d \in BOOLEAN : ClearEnter(a, d))
    PROVE  SessionInv'
<1> USE DEF SessionInv, SessionTypeOK, PipesInv, PositionInv, NoStaleByte,
            Joinable, RunPhases, ClearPhases
<1>1. CASE JoinPump
    BY <1>1 DEF JoinPump
<1>2. CASE ClosePipe
    BY <1>2 DEF ClosePipe
<1>3. CASE Shutdown
    BY <1>3 DEF Shutdown, Return
<1>4. ASSUME NEW a \in Agents, NEW d \in BOOLEAN, ClearEnter(a, d) PROVE SessionInv'
  <2>1. CASE ~LastReference
      BY <1>4, <2>1 DEF ClearEnter, LastReference
  <2>2. CASE LastReference /\ Joinable(a)
      BY <1>4, <2>2 DEF ClearEnter, LastReference, WakePump
  <2>3. CASE LastReference /\ ~Joinable(a)
      BY <1>4, <2>3 DEF ClearEnter, LastReference
  <2> QED BY <2>1, <2>2, <2>3
<1> QED BY <1>1, <1>2, <1>3, <1>4 DEF ClearStep

\* The steps of a pump thread, at any time.
LEMMA PumpKeepsSessionInv ==
    ASSUME SessionInv, NEW a \in Agents, PumpStep(a) \/ PumpInterrupted(a)
    PROVE  SessionInv'
<1> USE DEF SessionInv, SessionTypeOK, PipesInv, PositionInv, NoStaleByte,
            Joinable, RunPhases, ClearPhases
<1>1. CASE PumpWake(a)
    BY <1>1 DEF PumpWake
<1>2. CASE PumpServe(a)
    BY <1>2 DEF PumpServe
<1>3. CASE PumpServed(a)
    BY <1>3 DEF PumpServed
<1>4. CASE PumpInterrupted(a)
    BY <1>4 DEF PumpInterrupted
<1> QED BY <1>1, <1>2, <1>3, <1>4 DEF PumpStep

\* Every step of every client and of the pump threads keeps it.
LEMMA NextSessionInv == SessionInv /\ [SessionNext]_svars => SessionInv'
<1> SUFFICES ASSUME SessionInv, [SessionNext]_svars PROVE SessionInv'
    OBVIOUS
<1> USE DEF SessionInv, SessionTypeOK, PipesInv, PositionInv, NoStaleByte,
            Joinable, RunPhases, ClearPhases
<1>1. CASE UNCHANGED svars
    BY <1>1 DEF svars
<1>2. ASSUME NEW a \in Agents, Construct(a) PROVE SessionInv'
    BY <1>2 DEF Construct
<1>3. ASSUME NEW a \in Agents, RunAlready(a) PROVE SessionInv'
    BY <1>3 DEF RunAlready
<1>4. ASSUME NEW a \in Agents, RunFirst(a) PROVE SessionInv'
    BY <1>4 DEF RunFirst
<1> QED
    BY <1>1, <1>2, <1>3, <1>4, RunKeepsSessionInv, ClearKeepsSessionInv, PumpKeepsSessionInv
    DEF SessionNext, RunEnter

\* The session's inductive invariant holds in every reachable state.
THEOREM SessionInductive == SessionSpec => []SessionInv
BY InitSessionInv, NextSessionInv, PTL DEF SessionSpec

\* select() never gets a closed descriptor: any thread that runs has its pipe,
\* whatever sequence of run(), clear() and destructors the client makes.
THEOREM PumpsKeepPipes == SessionSpec => []PumpHasPipe
<1>1. SessionInv => PumpHasPipe
    BY DEF SessionInv, PipesInv, PumpHasPipe, Joinable, Running
<1> QED BY <1>1, SessionInductive, PTL

\* No wake-up byte stays behind for the thread of a later run().
THEOREM BytesAreFresh == SessionSpec => []NoStaleByte
<1>1. SessionInv => NoStaleByte
    BY DEF SessionInv, PipesInv
<1> QED BY <1>1, SessionInductive, PTL

----------------------------------------------------------------------------
(* The process.                                                            *)

USE DEF RunPhases, ClearPhases, MainStates, Joinable, Running, Victim

\* The process starts with no agent, no session and the counter at 0.
LEMMA InitInv == Init => IInv
  <1> SUFFICES ASSUME Init PROVE IInv
    OBVIOUS
  <1> USE DEF Init, SessionInit
  <1>1. TypeOK
    <2>1. /\ obj \in [Agents -> {"unborn", "live", "dead"}]
          /\ pump \in [Agents -> {"none", "select", "serving", "exited"}]
          /\ pipe \in [Agents -> {"closed", "empty", "byte"}]
      OBVIOUS
    <2>2. tables \in [Agents -> {"none", "built", "freed"}]
      OBVIOUS
    <2>3. /\ refCount = 0 /\ lib = "down" /\ phase = "idle" /\ self \in Agents
          /\ main = "client" /\ agent = NoAgent /\ old = NoAgent
      OBVIOUS
    <2>4. dying \in BOOLEAN
      OBVIOUS
    <2>5. notifier \in BOOLEAN
      OBVIOUS
    <2> HIDE DEF Init, SessionInit
    <2> QED BY <2>1, <2>2, <2>3, <2>4, <2>5 DEF TypeOK, SessionTypeOK
  <1>2. Displaced /\ InMethod /\ AgentAlive /\ Counted /\ PumpCounted
    BY DEF Displaced, InMethod, AgentAlive, Counted, PumpCounted
  <1> QED BY <1>1, <1>2 DEF IInv

----------------------------------------------------------------------------
(* One lemma per group of actions: each preserves the invariant.            *)

\* maki_t::run() displaces the agent it held, or finds none.
LEMMA RunInv == ASSUME IInv, NEW a \in Agents, Run(a) PROVE IInv'
  <1> USE NoAgentAssumption DEF IInv, Run, Construct
  <1>1. TypeOK'
    BY DEF TypeOK, SessionTypeOK, Counted
  <1>2. (Displaced /\ InMethod /\ AgentAlive)'
    BY DEF TypeOK, SessionTypeOK, Displaced, InMethod, AgentAlive
  <1>3. Counted'
    BY DEF TypeOK, SessionTypeOK, Displaced, InMethod, AgentAlive, Counted
  <1>4. PumpCounted'
    BY DEF TypeOK, SessionTypeOK, Displaced, InMethod, AgentAlive, Counted, PumpCounted
  <1> QED BY <1>1, <1>2, <1>3, <1>4

\* The counter is 0 here, so agent_t::run() does open the session.
LEMMA AgentRunInv == ASSUME IInv, AgentRun PROVE IInv'
  <1> USE NoAgentAssumption DEF IInv, AgentRun
  <1>1. RunFirst(agent) /\ agent \in Agents
    BY DEF RunEnter, RunAlready, TypeOK, SessionTypeOK, Displaced, Counted
  <1>2. TypeOK'
    BY <1>1 DEF RunFirst, TypeOK, SessionTypeOK
  <1>3. (Displaced /\ InMethod /\ AgentAlive)'
    BY <1>1 DEF RunFirst, TypeOK, SessionTypeOK, Displaced, InMethod, AgentAlive, PumpCounted
  <1>4. (Counted /\ PumpCounted)'
    BY <1>1 DEF RunFirst, TypeOK, SessionTypeOK, Displaced, Counted, PumpCounted
  <1> QED BY <1>2, <1>3, <1>4

\* A step of run() that does not spawn the thread, successful or not.
LEMMA OpenInv ==
  ASSUME IInv, AgentRunStep \/ BuildTables, ~SpawnPump PROVE IInv'
  <1> USE NoAgentAssumption DEF IInv, RunFails, Return
  <1>1. /\ phase \in RunPhases
        /\ UNCHANGED <<refCount, obj, self, dying, pump, main, agent, old, notifier>>
        /\ lib' = lib \/ lib' = "up"
    BY DEF AgentRunStep, BuildTables, InitAgent, InitAgentFails, InitMaster, InitMasterFails,
           OpenPipe, OpenPipeFails, InitMib, InitMibFails, InMethod, TypeOK, SessionTypeOK
  <1>2. /\ phase' \in {"idle"} \union RunPhases
        /\ phase' \in RunPhases \ {"initAgent"} => lib' = "up"
        /\ phase' = "spawn" => pipe'[self] = "empty"
        /\ pipe' \in [Agents -> {"closed", "empty", "byte"}]
        /\ tables' \in [Agents -> {"none", "built", "freed"}]
    BY DEF AgentRunStep, BuildTables, InitAgent, InitAgentFails, InitMaster, InitMasterFails,
           OpenPipe, OpenPipeFails, InitMib, InitMibFails, InMethod, TypeOK, SessionTypeOK
  <1>3. TypeOK'
    BY <1>1, <1>2 DEF TypeOK, SessionTypeOK
  <1>4. (Displaced /\ InMethod /\ AgentAlive)'
    BY <1>1, <1>2 DEF Displaced, InMethod, AgentAlive
  <1>5. (Counted /\ PumpCounted)'
    BY <1>1, <1>2 DEF TypeOK, SessionTypeOK, InMethod, Counted, PumpCounted
  <1> QED BY <1>3, <1>4, <1>5

\* The thread is spawned for the counted agent, with no other thread there.
LEMMA SpawnInv == ASSUME IInv, AgentRunStep, SpawnPump PROVE IInv'
  <1> USE NoAgentAssumption DEF IInv, SpawnPump, Return
  <1>1. /\ main = "started" /\ self = agent /\ ~dying
        /\ \A a \in Agents : pump[a] = "none"
        /\ lib = "up" /\ refCount = 1
    BY DEF InMethod, TypeOK, SessionTypeOK
  <1>2. UNCHANGED <<main, agent, old, notifier, tables, obj>>
    BY <1>1 DEF AgentRunStep
  <1>3. TypeOK'
    BY <1>1, <1>2 DEF TypeOK, SessionTypeOK
  <1>4. (Displaced /\ InMethod /\ AgentAlive /\ Counted)'
    BY <1>1, <1>2 DEF Displaced, InMethod, AgentAlive, Counted, TypeOK, SessionTypeOK
  <1>5. PumpCounted'
    BY <1>1, <1>2 DEF PumpCounted, AgentAlive, Displaced, TypeOK, SessionTypeOK
  <1> QED BY <1>3, <1>4, <1>5

----------------------------------------------------------------------------
(* The notifier, the client and the end of a method *)

\* Steps of the main thread between two methods of the agent, and OnSignal.
LEMMA NotifierInv ==
  ASSUME IInv, EnterNotifier \/ LeaveNotifier \/ Clear \/ UNCHANGED vars PROVE IInv'
  <1> USE DEF IInv, vars, svars
  <1>1. /\ UNCHANGED <<svars, agent, old, tables>>
        /\ notifier' \in {notifier, TRUE}
    BY DEF EnterNotifier, LeaveNotifier, Clear
  <1>2. \/ main' = main
        \/ main = "started" /\ main' = "notify" /\ phase = "idle"
        \/ main = "notify" /\ main' = "client"
        \/ main = "client" /\ main' = "reset" /\ agent # NoAgent
    BY DEF EnterNotifier, LeaveNotifier, Clear
  <1>3. TypeOK'
    <2>1. notifier' \in BOOLEAN
      BY <1>1 DEF TypeOK
    <2>2. main' \in MainStates
      BY <1>2 DEF TypeOK
    <2> QED BY <1>1, <2>1, <2>2 DEF TypeOK, SessionTypeOK
  <1>4. Displaced' /\ AgentAlive'
    BY <1>1, <1>2 DEF Displaced, AgentAlive
  <1>5. InMethod'
    BY <1>1, <1>2 DEF TypeOK, SessionTypeOK, InMethod
  <1>6. Counted' /\ PumpCounted'
    BY <1>1, <1>2 DEF TypeOK, Displaced, InMethod, AgentAlive, Counted, PumpCounted
  <1> QED BY <1>3, <1>4, <1>5, <1>6

\* A step of a pump thread, or the signal that interrupts one.
LEMMA PumpInv ==
  ASSUME IInv, OnSignal \/ \E a \in Agents : Pump(a) PROVE IInv'
  <1> USE DEF IInv, OnSignal, Pump, PumpStep, PumpWake, PumpServe, PumpServed,
              PumpInterrupted, svars
  <1>1. /\ UNCHANGED <<refCount, lib, obj, phase, self, dying, pipe, main, agent, old, tables>>
        /\ notifier' \in {notifier, FALSE}
    OBVIOUS
  <1>2. /\ pump' \in [Agents -> {"none", "select", "serving", "exited"}]
        /\ \A a \in Agents : pump'[a] = "none" <=> pump[a] = "none"
    BY DEF TypeOK, SessionTypeOK
  <1> HIDE DEF OnSignal, Pump, PumpStep
  <1>3. TypeOK'
    <2>1. notifier' \in BOOLEAN
      BY <1>1 DEF TypeOK
    <2> QED BY <1>1, <1>2, <2>1 DEF TypeOK, SessionTypeOK
  <1>4. (Displaced /\ InMethod /\ AgentAlive /\ Counted /\ PumpCounted)'
    BY <1>1, <1>2 DEF Displaced, InMethod, AgentAlive, Counted, PumpCounted
  <1> QED BY <1>3, <1>4

\* An agent that is destroyed leaves its place once it is dead.
LEMMA GoneInv == ASSUME IInv, Replaced \/ Cleared PROVE IInv'
  <1> USE NoAgentAssumption DEF IInv, svars
  <1>1. refCount = 0 /\ \A a \in Agents : pump[a] = "none"
    BY DEF Replaced, Cleared, TypeOK, SessionTypeOK, Counted, PumpCounted, Displaced
  <1>2. TypeOK'
    BY DEF Replaced, Cleared, TypeOK, SessionTypeOK
  <1>3. (Displaced /\ InMethod /\ AgentAlive)'
    BY DEF Replaced, Cleared, Displaced, InMethod, AgentAlive, TypeOK, SessionTypeOK
  <1>4. (Counted /\ PumpCounted)'
    BY <1>1 DEF Replaced, Cleared, Counted, PumpCounted, Displaced, TypeOK, SessionTypeOK
  <1> QED BY <1>2, <1>3, <1>4

----------------------------------------------------------------------------
(* Destroying an agent *)

\* Freeing tables_ touches nothing the session depends on.
LEMMA FreeTablesInv == ASSUME IInv, FreeTables PROVE IInv'
  <1> USE DEF IInv, FreeTables, svars
  <1>1. TypeOK'
    BY DEF TypeOK, SessionTypeOK
  <1>2. (Displaced /\ InMethod /\ AgentAlive /\ Counted /\ PumpCounted)'
    BY DEF Displaced, InMethod, AgentAlive, Counted, PumpCounted
  <1> QED BY <1>1, <1>2

\* The victim is alive, so it holds the one reference: it ends the session.
LEMMA DestroySessionInv == ASSUME IInv, DestroySession PROVE IInv'
  <1> USE NoAgentAssumption DEF IInv, DestroySession, ClearEnter, LastReference, WakePump
  <1>1. /\ refCount = 1 /\ refCount' = 0
        /\ Victim \in Agents /\ obj[Victim] = "live" /\ phase = "idle"
    BY DEF TypeOK, SessionTypeOK, Counted, Displaced
  <1>2. /\ self' = Victim /\ dying' = TRUE
        /\ phase' \in {"join", "shutdown"}
        /\ phase' = "shutdown" => pump[Victim] = "none"
        /\ pipe' \in [Agents -> {"closed", "empty", "byte"}]
        /\ UNCHANGED <<lib, obj, pump, main, agent, old, notifier, tables>>
    BY <1>1 DEF TypeOK, SessionTypeOK
  <1> HIDE DEF DestroySession
  <1>3. main \in {"replace", "reset"}
    BY DEF DestroySession
  <1>4. TypeOK'
    BY <1>1, <1>2 DEF TypeOK, SessionTypeOK
  <1>5. (Displaced /\ InMethod /\ AgentAlive)'
    BY <1>1, <1>2, <1>3 DEF Displaced, InMethod, AgentAlive
  <1>6. (Counted /\ PumpCounted)'
    BY <1>1, <1>2, <1>3 DEF Counted, PumpCounted
  <1> QED BY <1>4, <1>5, <1>6

\* Joining the thread, closing the pipe and shutting the library down, in
\* that order: the last thread is gone before the library is.
LEMMA DestroyStepInv == ASSUME IInv, DestroyStep PROVE IInv'
  <1> USE NoAgentAssumption DEF IInv, DestroyStep
  <1>1. /\ main \in {"replace", "reset"} /\ refCount = 0 /\ dying
        /\ self = Victim /\ Victim \in Agents /\ obj[Victim] = "live"
    BY DEF ClearStep, JoinPump, ClosePipe, Shutdown, InMethod, TypeOK, SessionTypeOK
  <1>2. CASE JoinPump
    <2>1. TypeOK'
      BY <1>1, <1>2 DEF JoinPump, TypeOK, SessionTypeOK
    <2>2. (Displaced /\ InMethod /\ AgentAlive)'
      BY <1>1, <1>2 DEF JoinPump, Displaced, InMethod, AgentAlive
    <2>3. (Counted /\ PumpCounted)'
      BY <1>1, <1>2 DEF JoinPump, Counted, PumpCounted, TypeOK, SessionTypeOK
    <2> QED BY <2>1, <2>2, <2>3
  <1>3. CASE ClosePipe
    <2>1. TypeOK'
      BY <1>1, <1>3 DEF ClosePipe, TypeOK, SessionTypeOK
    <2>2. (Displaced /\ InMethod /\ AgentAlive)'
      BY <1>1, <1>3 DEF ClosePipe, Displaced, InMethod, AgentAlive
    <2>3. (Counted /\ PumpCounted)'
      BY <1>1, <1>3 DEF ClosePipe, Counted, PumpCounted
    <2> QED BY <2>1, <2>2, <2>3
  <1>4. CASE Shutdown
    <2> USE DEF Shutdown, Return
    <2>1. TypeOK'
      BY <1>1, <1>4 DEF TypeOK, SessionTypeOK
    <2>2. (Displaced /\ InMethod /\ AgentAlive)'
      BY <1>1, <1>4 DEF Displaced, InMethod, AgentAlive, TypeOK, SessionTypeOK
    <2>3. (Counted /\ PumpCounted)'
      BY <1>1, <1>4 DEF Counted, PumpCounted, TypeOK, SessionTypeOK
    <2> QED BY <2>1, <2>2, <2>3
  <1> QED BY <1>2, <1>3, <1>4 DEF ClearStep

----------------------------------------------------------------------------
(* The theorems *)

\* Every step of the process preserves the invariant.
LEMMA StepInv == IInv /\ [Next]_vars => IInv'
  <1> SUFFICES ASSUME IInv, [Next]_vars PROVE IInv'
    OBVIOUS
  <1>1. CASE \E a \in Agents : Run(a)
    BY <1>1, RunInv
  <1>2. CASE OnSignal \/ \E a \in Agents : Pump(a)
    BY <1>2, PumpInv
  <1>3. CASE AgentRun
    BY <1>3, AgentRunInv
  <1>4. CASE BuildTables \/ AgentRunStep
    <2>1. CASE SpawnPump
      <3>1. ~BuildTables
        BY <2>1 DEF BuildTables, InitMib, InitMibFails, RunFails, SpawnPump
      <3> QED BY <1>4, <2>1, <3>1, SpawnInv
    <2>2. CASE ~SpawnPump
      BY <1>4, <2>2, OpenInv
    <2> QED BY <2>1, <2>2
  <1>5. CASE EnterNotifier \/ LeaveNotifier \/ Clear \/ Finished \/ UNCHANGED vars
    BY <1>5, NotifierInv DEF Finished
  <1>6. CASE FreeTables
    BY <1>6, FreeTablesInv
  <1>7. CASE DestroySession
    BY <1>7, DestroySessionInv
  <1>8. CASE DestroyStep
    BY <1>8, DestroyStepInv
  <1>9. CASE Replaced \/ Cleared
    BY <1>9, GoneInv
  <1> QED
    BY <1>1, <1>2, <1>3, <1>4, <1>5, <1>6, <1>7, <1>8, <1>9 DEF Next, MainNext

\* IInv is an invariant of the process.
THEOREM Inductive == Spec => []IInv
  BY InitInv, StepInv, PTL DEF Spec

\* Every variable keeps its type, and ref_count_ never leaves {0, 1} under
\* maki_t, for any number of agents that come and go.
THEOREM TypeCorrect == Spec => []TypeOK
  <1>1. IInv => TypeOK
    BY DEF IInv
  <1> QED BY <1>1, Inductive, PTL

\* At most one event pump runs in the process, whatever failed before: the
\* thread belongs to the agent the counter counts.
THEOREM OneSession == Spec => []SingleSession
  <1>1. IInv => SingleSession
    BY DEF IInv, PumpCounted, SingleSession
  <1> QED BY <1>1, Inductive, PTL

\* mainLoop() always finds ref_count_ at 0: its run() opens a session.
THEOREM RunOpens == Spec => []RunOpensSession
  <1>1. IInv => RunOpensSession
    BY DEF IInv, TypeOK, Counted, RunOpensSession
  <1> QED BY <1>1, Inductive, PTL

\* A pump thread that runs belongs to an agent object that is alive.
THEOREM NoDetachedPump == Spec => []PumpOwned
  <1>1. IInv => PumpOwned
    BY DEF IInv, PumpCounted, PumpOwned
  <1> QED BY <1>1, Inductive, PTL

\* The library is up under every pump thread that runs.
THEOREM ServedByLibrary == Spec => []LibraryUpWhileServing
  <1>1. IInv => LibraryUpWhileServing
    BY DEF IInv, PumpCounted, LibraryUpWhileServing
  <1> QED BY <1>1, Inductive, PTL

----------------------------------------------------------------------------
(* The refinement: from here on the abstract state is looked into.          *)

USE DEF Serving, Spent, Service!vars

\* No thread, no byte, no agent that is spent; the library is down.
LEMMA InitService == Init => Service!Init
  BY DEF Init, SessionInit, Service!Init

\* What the abstract state depends on.
LEMMA Unseen ==
  ASSUME UNCHANGED <<pump, lib>>,
         \A a \in Agents : obj'[a] = "dead" <=> obj[a] = "dead",
         \A a \in Agents : Running(a) => (pipe'[a] = "byte" <=> pipe[a] = "byte"),
         phase \notin ClearPhases, phase' \notin ClearPhases
  PROVE  UNCHANGED Service!vars
  OBVIOUS

\* Steps of the main thread outside the destruction of an agent.
LEMMA ClientService ==
  ASSUME IInv, \/ \E a \in Agents : Run(a)
               \/ AgentRun \/ EnterNotifier \/ LeaveNotifier \/ Clear \/ UNCHANGED vars
  PROVE  UNCHANGED Service!vars
  <1> USE DEF IInv, TypeOK, SessionTypeOK
  <1>1. CASE \E a \in Agents : Run(a)
    BY <1>1, Unseen DEF Run, Construct
  <1>2. CASE AgentRun
    <2>1. /\ phase = "idle" /\ phase' \in {"idle", "initAgent"}
          /\ UNCHANGED <<lib, obj, pump, pipe>>
      BY <1>2 DEF AgentRun, RunEnter, RunAlready, RunFirst
    <2>2. phase \notin ClearPhases /\ phase' \notin ClearPhases
      BY <2>1
    <2> QED BY <2>1, <2>2, Unseen
  <1>3. CASE EnterNotifier \/ LeaveNotifier \/ Clear \/ UNCHANGED vars
    <2>1. UNCHANGED svars
      BY <1>3 DEF EnterNotifier, LeaveNotifier, Clear, vars
    <2>2. Serving' = Serving /\ Spent' = Spent
      BY <2>1 DEF svars
    <2> QED BY <2>1, <2>2 DEF svars
  <1> QED BY <1>1, <1>2, <1>3

\* run() up to the thread: the library comes up, or nothing happens.
LEMMA OpenService ==
  ASSUME IInv, AgentRunStep \/ BuildTables, ~SpawnPump
  PROVE  Service!Open \/ UNCHANGED Service!vars
  <1> USE DEF IInv, TypeOK, SessionTypeOK
  <1>1. /\ phase \in RunPhases /\ ~dying
        /\ \A a \in Agents : pump[a] = "none"
    BY DEF AgentRunStep, BuildTables, InitAgent, InitAgentFails, InitMaster, InitMasterFails,
           OpenPipe, OpenPipeFails, InitMib, InitMibFails, RunFails, InMethod
  <1>2. /\ UNCHANGED <<obj, pump>>
        /\ phase' \in {"idle"} \union RunPhases
        /\ lib' = lib \/ lib' = "up"
    BY <1>1 DEF AgentRunStep, BuildTables, InitAgent, InitAgentFails, InitMaster,
           InitMasterFails, OpenPipe, OpenPipeFails, InitMib, InitMibFails, RunFails, Return
  <1>3. Serving = {} /\ Serving' = {} /\ Spent' = Spent
    BY <1>1, <1>2
  <1>4. CASE lib' = lib
    BY <1>3, <1>4
  <1>5. CASE lib' = "up" /\ lib = "down"
    BY <1>3, <1>5 DEF Service!Open
  <1> QED BY <1>2, <1>4, <1>5

\* The thread is spawned for an agent that was never spent.
LEMMA SpawnService ==
  ASSUME IInv, AgentRunStep, SpawnPump PROVE \E a \in Agents : Service!Start(a)
  <1> USE DEF IInv, TypeOK, SessionTypeOK
  <1>1. /\ main = "started" /\ self = agent /\ ~dying /\ self \in Agents
        /\ \A a \in Agents : pump[a] = "none"
        /\ lib = "up" /\ pipe[self] = "empty" /\ phase = "spawn" /\ obj[self] = "live"
    BY NoAgentAssumption DEF SpawnPump, InMethod, AgentAlive
  <1>2. /\ UNCHANGED <<obj, lib, pipe>>
        /\ pump' = [pump EXCEPT ![self] = "select"]
        /\ phase' = "idle"
    BY <1>1 DEF SpawnPump, Return
  <1>3. Serving = {} /\ Serving' = {self}
    BY <1>1, <1>2
  <1>4. self \notin Spent /\ Spent' = Spent \union {self}
    BY <1>1, <1>2
  <1> QED BY <1>1, <1>2, <1>3, <1>4 DEF Service!Start

\* Giving an agent up: it is told to stop, or retired if it never served.
LEMMA DestroyService ==
  ASSUME IInv, DestroySession
  PROVE  \/ \E a \in Agents : Service!Tell(a) \/ Service!Retire(a)
         \/ UNCHANGED Service!vars
  <1> USE NoAgentAssumption DEF IInv, TypeOK, SessionTypeOK
  <1>1. /\ refCount = 1 /\ Victim \in Agents /\ obj[Victim] = "live" /\ phase = "idle"
    BY DEF DestroySession, ClearEnter, Counted, Displaced
  <1>2. self' = Victim /\ UNCHANGED <<lib, obj, pump>>
    BY <1>1 DEF DestroySession, ClearEnter, LastReference
  <1>3. CASE pump[Victim] = "none"
    <2>1. phase' = "shutdown" /\ pipe' = pipe
      BY <1>1, <1>3 DEF DestroySession, ClearEnter, LastReference
    <2>2. Victim \notin Spent /\ Spent' = Spent \union {Victim}
      BY <1>1, <1>2, <1>3, <2>1
    <2> QED BY <1>1, <1>2, <2>1, <2>2 DEF Service!Retire
  <1>4. CASE pump[Victim] # "none"
    <2>1. phase' = "join" /\ pipe' = [pipe EXCEPT ![Victim] = "byte"]
      BY <1>1, <1>4 DEF DestroySession, ClearEnter, LastReference, WakePump
    <2>2. Spent' = Spent /\ Serving' = Serving
      BY <1>1, <1>2, <1>4, <2>1
    <2>3. CASE Running(Victim)
      BY <1>1, <1>2, <2>1, <2>2, <2>3 DEF Service!Tell
    <2>4. CASE ~Running(Victim)
      BY <1>1, <1>2, <2>1, <2>2, <2>4
    <2> QED BY <2>3, <2>4
  <1> QED BY <1>3, <1>4

\* The steps of clear(): only the last one shows, as the end of the library.
LEMMA ClearService ==
  ASSUME IInv, DestroyStep PROVE Service!Close \/ UNCHANGED Service!vars
  <1> USE DEF IInv, TypeOK, SessionTypeOK
  <1>1. refCount = 0 /\ dying /\ self \in Agents
    BY DEF DestroyStep, ClearStep, JoinPump, ClosePipe, Shutdown, InMethod
  <1>2. CASE JoinPump
    <2>1. Serving' = Serving /\ Spent' = Spent
      BY <1>1, <1>2 DEF JoinPump
    <2> QED BY <1>2, <2>1 DEF JoinPump
  <1>3. CASE ClosePipe
    <2>1. Serving = {} /\ Serving' = {} /\ Spent' = Spent
      BY <1>1, <1>3 DEF ClosePipe, PumpCounted
    <2> QED BY <1>3, <2>1 DEF ClosePipe
  <1>4. CASE Shutdown
    <2>1. Serving = {} /\ Serving' = {}
      BY <1>1, <1>4 DEF Shutdown, PumpCounted
    <2>2. Spent' = Spent
      BY <1>1, <1>4 DEF Shutdown, Return, PumpCounted
    <2>3. lib' = "down" /\ lib \in {"down", "up"}
      BY <1>4 DEF Shutdown
    <2> QED BY <2>1, <2>2, <2>3 DEF Service!Close
  <1> QED BY <1>2, <1>3, <1>4 DEF DestroyStep, ClearStep

\* The ends of a destruction.
LEMMA GoneService ==
  ASSUME IInv, FreeTables \/ Replaced \/ Cleared PROVE UNCHANGED Service!vars
  BY DEF FreeTables, Replaced, Cleared, svars

\* The thread leaves its loop because it was told to, or stays in it.
LEMMA PumpService ==
  ASSUME IInv, NEW a \in Agents, Pump(a)
  PROVE  Service!Stop(a) \/ UNCHANGED Service!vars
  <1> USE DEF IInv, TypeOK, SessionTypeOK, Pump, PumpStep
  <1>1. CASE PumpWake(a)
    <2>1. Serving = {a} /\ Serving' = {}
      BY <1>1 DEF PumpWake, PumpCounted
    <2>2. Spent' = Spent
      BY <1>1 DEF PumpWake
    <2> QED BY <1>1, <2>1, <2>2 DEF PumpWake, Service!Stop
  <1>2. CASE PumpServe(a) \/ PumpServed(a)
    <2>1. Serving' = Serving /\ Spent' = Spent
      BY <1>2 DEF PumpServe, PumpServed
    <2> QED BY <1>2, <2>1 DEF PumpServe, PumpServed
  <1> QED BY <1>1, <1>2

\* The signal, which may take a thread out of its loop.
LEMMA SignalService ==
  ASSUME IInv, OnSignal
  PROVE  (\E a \in Agents : Service!Interrupt(a)) \/ UNCHANGED Service!vars
  <1> USE DEF IInv, TypeOK, SessionTypeOK, OnSignal
  <1>1. CASE UNCHANGED svars
    BY <1>1 DEF svars
  <1>2. ASSUME NEW a \in Agents, PumpInterrupted(a) PROVE Service!Interrupt(a)
    <2>1. Serving = {a} /\ Serving' = {}
      BY <1>2 DEF PumpInterrupted, PumpCounted
    <2>2. Spent' = Spent
      BY <1>2 DEF PumpInterrupted
    <2> QED BY <1>2, <2>1, <2>2 DEF PumpInterrupted, Service!Interrupt
  <1> QED BY <1>1, <1>2

\* Every step of the process is one of the service, or invisible to it.
LEMMA StepService == IInv /\ [Next]_vars => [Service!Next]_(Service!vars)
  <1> SUFFICES ASSUME IInv, [Next]_vars PROVE [Service!Next]_(Service!vars)
    OBVIOUS
  <1> USE DEF Service!Next
  <1> HIDE DEF Serving, Spent, Service!vars
  <1>1. CASE \E a \in Agents : Pump(a)
    BY <1>1, PumpService
  <1>2. CASE OnSignal
    BY <1>2, SignalService
  <1>3. CASE BuildTables \/ AgentRunStep
    <2>1. CASE SpawnPump
      <3>1. ~BuildTables
        BY <2>1 DEF BuildTables, InitMib, InitMibFails, RunFails, SpawnPump
      <3> QED BY <1>3, <2>1, <3>1, SpawnService
    <2>2. CASE ~SpawnPump
      BY <1>3, <2>2, OpenService
    <2> QED BY <2>1, <2>2
  <1>4. CASE DestroySession
    BY <1>4, DestroyService
  <1>5. CASE DestroyStep
    BY <1>5, ClearService
  <1>6. CASE FreeTables \/ Replaced \/ Cleared
    BY <1>6, GoneService
  <1>7. CASE \/ \E a \in Agents : Run(a)
             \/ AgentRun \/ EnterNotifier \/ LeaveNotifier \/ Clear
             \/ Finished \/ UNCHANGED vars
    BY <1>7, ClientService DEF Finished
  <1> QED BY <1>1, <1>2, <1>3, <1>4, <1>5, <1>6, <1>7 DEF Next, MainNext

\* The process implements the safety part of the service: agents serve one at
\* a time, each at most once, over a library that is up throughout.
THEOREM Implements == Spec => Service!Safety
  <1> HIDE DEF Serving, Spent, Service!vars
  <1> QED BY InitService, StepService, Inductive, PTL DEF Spec, Service!Safety
=============================================================================
