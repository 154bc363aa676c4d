---------------------------- MODULE AgentSession ----------------------------
(***************************************************************************)
(* snmp::agent_t (src/src/snmp_agent.cc): the Net-SNMP session an agent     *)
(* object opens with run() and gives up with clear() or its destructor, the *)
(* process-wide reference counter that is to keep it single, and the event  *)
(* pump thread that serves SNMP requests.                                   *)
(*                                                                          *)
(* One thread calls the methods (in the program, the main thread); every    *)
(* pump thread runs beside it.  phase and self are the caller's position    *)
(* inside the method it is executing.                                       *)
(***************************************************************************)
EXTENDS Integers

CONSTANTS Agents,    \* the agent_t objects the process constructs
          Subagents, \* those constructed with is_agentx_subagent = true
          MaxRefs    \* bound on the magnitude of ref_count_

ASSUME AgentsAssumption == Subagents \subseteq Agents
ASSUME MaxRefsAssumption == MaxRefs \in Nat \ {0}

VARIABLES refCount, \* agent_t::ref_count_, static
          lib,      \* the Net-SNMP library, process-wide: init_agent() .. snmp_shutdown()
          obj,      \* lifetime of each agent_t object
          phase,    \* where the calling thread is inside run() or clear()
          self,     \* the object that call is for
          dying,    \* is clear() called by the destructor?
          pump,     \* the thread of thread_; "none" is a null or joined thread_
          pipe      \* pipe_: closed, or open with or without a byte to read

svars == <<refCount, lib, obj, phase, self, dying, pump, pipe>>

RunPhases   == {"initAgent", "initMib", "initMaster", "openPipe", "spawn"}
ClearPhases == {"join", "close", "shutdown"}

\* The types, and the counter every call that got past its fetch_add or
\* fetch_sub works under.
SessionTypeOK ==
    /\ refCount \in Int
    /\ lib \in {"down", "up"}
    /\ obj \in [Agents -> {"unborn", "live", "dead"}]
    /\ phase \in {"idle"} \union RunPhases \union ClearPhases
    /\ phase \in RunPhases => refCount = 1
    /\ phase \in ClearPhases => refCount = 0
    /\ self \in Agents
    /\ dying \in BOOLEAN
    /\ pump \in [Agents -> {"none", "select", "serving", "exited"}]
    /\ pipe \in [Agents -> {"closed", "empty", "byte"}]

SessionInit ==
    /\ refCount = 0
    /\ lib = "down"
    /\ obj = [a \in Agents |-> "unborn"]
    /\ phase = "idle"
    /\ self \in Agents
    /\ dying = FALSE
    /\ pump = [a \in Agents |-> "none"]
    /\ pipe = [a \in Agents |-> "closed"]

\* Joinable: the thread was spawned and nobody joined it.
Joinable(a) == pump[a] # "none"
Running(a)  == pump[a] \in {"select", "serving"}

----------------------------------------------------------------------------
(* Construction, and the end of a method.  When the destructor's clear()    *)
(* ends, the members go too: boost::thread detaches a thread that is still  *)
(* joinable, so pump[a] then describes a thread without an owner.           *)

Construct(a) ==
    /\ phase = "idle"
    /\ obj[a] = "unborn"
    /\ obj' = [obj EXCEPT ![a] = "live"]
    /\ UNCHANGED <<refCount, lib, phase, self, dying, pump, pipe>>

Return ==
    /\ phase' = "idle"
    /\ dying' = FALSE
    /\ obj' = IF dying THEN [obj EXCEPT ![self] = "dead"] ELSE obj

----------------------------------------------------------------------------
(* run()                                                                    *)

RunAlready(a) ==
    /\ phase = "idle" /\ obj[a] = "live" /\ refCount < MaxRefs
    /\ refCount # 0
    /\ refCount' = refCount + 1
    /\ self' = a
    /\ UNCHANGED <<lib, obj, phase, dying, pump, pipe>>

RunFirst(a) ==
    /\ phase = "idle" /\ obj[a] = "live"
    /\ refCount = 0
    /\ refCount' = refCount + 1
    /\ self' = a
    /\ phase' = "initAgent"
    /\ UNCHANGED <<lib, obj, dying, pump, pipe>>

RunEnter(a) == RunAlready(a) \/ RunFirst(a)

\* Fault: a failure takes its reference back, and the destructor does again.
RunFailsUncounted(step) ==
    /\ phase = step
    /\ Return
    /\ refCount' = refCount - 1
    /\ UNCHANGED <<lib, self, pump, pipe>>

\* Every failure returns false and leaves ref_count_ as it is.
RunFails(step) ==
    /\ phase = step
    /\ Return
    /\ UNCHANGED <<refCount, lib, self, pump, pipe>>

InitAgentFails == RunFails("initAgent")
InitAgent ==
    /\ phase = "initAgent"
    /\ lib' = "up"
    /\ phase' = "initMib"
    /\ UNCHANGED <<refCount, obj, self, dying, pump, pipe>>

InitMibFails == RunFails("initMib")
InitMib ==
    /\ phase = "initMib"
    /\ phase' = IF self \in Subagents THEN "openPipe" ELSE "initMaster"
    /\ UNCHANGED <<refCount, lib, obj, self, dying, pump, pipe>>

InitMasterFails == RunFails("initMaster")
InitMaster ==
    /\ phase = "initMaster"
    /\ phase' = "openPipe"
    /\ UNCHANGED <<refCount, lib, obj, self, dying, pump, pipe>>

OpenPipeFails == RunFails("openPipe")
OpenPipe ==
    /\ phase = "openPipe"
    /\ pipe' = [pipe EXCEPT ![self] = "empty"]
    /\ phase' = "spawn"
    /\ UNCHANGED <<refCount, lib, obj, self, dying, pump>>

\* thread_.reset() drops (detaches) whatever thread_ held before.
SpawnPump ==
    /\ phase = "spawn"
    /\ pump' = [pump EXCEPT ![self] = "select"]
    /\ Return
    /\ UNCHANGED <<refCount, lib, self, pipe>>

RunStep == \/ InitAgent \/ InitAgentFails
           \/ InitMib \/ InitMibFails
           \/ InitMaster \/ InitMasterFails
           \/ OpenPipe \/ OpenPipeFails
           \/ SpawnPump

----------------------------------------------------------------------------
(* clear(), and ~agent_t(), which calls it                                   *)

\* Fault: any reference that is given up ends the session.
AnyReference == refCount > 0
\* Only the last reference ends the session.
LastReference == refCount = 1

\* Fault: join() without the write() before it.
WakeNobody(a) == UNCHANGED pipe
\* The byte is written before the join; the pipe is O_NONBLOCK and empty.
WakePump(a) == pipe' = [pipe EXCEPT ![a] = "byte"]

ClearEnter(a, inDestructor) ==
    /\ phase = "idle" /\ obj[a] = "live" /\ refCount > -MaxRefs
    /\ refCount' = refCount - 1
    /\ self' = a
    /\ \/ /\ ~LastReference
          /\ obj' = IF inDestructor THEN [obj EXCEPT ![a] = "dead"] ELSE obj
          /\ UNCHANGED <<phase, dying, pipe>>
       \/ /\ LastReference /\ Joinable(a)
          /\ WakePump(a)
          /\ phase' = "join"
          /\ dying' = inDestructor
          /\ UNCHANGED obj
       \/ /\ LastReference /\ ~Joinable(a)
          /\ phase' = "shutdown"
          /\ dying' = inDestructor
          /\ UNCHANGED <<obj, pipe>>
    /\ UNCHANGED <<lib, pump>>

\* Fault: the descriptors are closed without waiting for the thread.
JoinPumpAtOnce ==
    /\ phase = "join"
    /\ phase' = "close"
    /\ UNCHANGED <<refCount, lib, obj, self, dying, pump, pipe>>

JoinPump ==
    /\ phase = "join"
    /\ pump[self] = "exited"
    /\ pump' = [pump EXCEPT ![self] = "none"]
    /\ phase' = "close"
    /\ UNCHANGED <<refCount, lib, obj, self, dying, pipe>>

\* Fault: the pipe is left open, with the byte in it if no thread read it.
LeavePipe ==
    /\ phase = "close"
    /\ phase' = "shutdown"
    /\ UNCHANGED <<refCount, lib, obj, self, dying, pump, pipe>>

ClosePipe ==
    /\ phase = "close"
    /\ pipe' = [pipe EXCEPT ![self] = "closed"]
    /\ phase' = "shutdown"
    /\ UNCHANGED <<refCount, lib, obj, self, dying, pump>>

Shutdown ==
    /\ phase = "shutdown"
    /\ lib' = "down"
    /\ Return
    /\ UNCHANGED <<refCount, self, pump, pipe>>

ClearStep == JoinPump \/ ClosePipe \/ Shutdown

----------------------------------------------------------------------------
(* event_pump_t::operator(): select() on the library's descriptors and the  *)
(* read end of the pipe.  A byte to read ends the loop whatever else is     *)
(* ready; a request or an expired timer is served; an error (EINTR) leaves  *)
(* the descriptor set as it was given, so FD_ISSET(fd_) holds and the loop  *)
(* ends.                                                                    *)

PumpWake(a) ==
    /\ pump[a] = "select"
    /\ pipe[a] = "byte"
    /\ pump' = [pump EXCEPT ![a] = "exited"]
    /\ UNCHANGED <<refCount, lib, obj, phase, self, dying, pipe>>

PumpServe(a) ==
    /\ pump[a] = "select"
    /\ pipe[a] # "byte"
    /\ pump' = [pump EXCEPT ![a] = "serving"]
    /\ UNCHANGED <<refCount, lib, obj, phase, self, dying, pipe>>

PumpServed(a) ==
    /\ pump[a] = "serving"
    /\ pump' = [pump EXCEPT ![a] = "select"]
    /\ UNCHANGED <<refCount, lib, obj, phase, self, dying, pipe>>

PumpInterrupted(a) ==
    /\ pump[a] = "select"
    /\ pump' = [pump EXCEPT ![a] = "exited"]
    /\ UNCHANGED <<refCount, lib, obj, phase, self, dying, pipe>>

PumpStep(a) == PumpWake(a) \/ PumpServe(a) \/ PumpServed(a)

----------------------------------------------------------------------------
(* The class under any client of its public interface: run() and clear() in *)
(* any order and number, then the destructor.                               *)

Done == phase = "idle" /\ \A a \in Agents : obj[a] = "dead" /\ ~Running(a)

SessionNext ==
    \/ \E a \in Agents : \/ Construct(a)
                         \/ RunEnter(a)
                         \/ \E d \in BOOLEAN : ClearEnter(a, d)
                         \/ PumpStep(a)
                         \/ PumpInterrupted(a)
    \/ RunStep
    \/ ClearStep
    \/ Done /\ UNCHANGED svars

SessionFairness ==
    /\ WF_svars(ClearStep)
    /\ \A a \in Agents : WF_svars(PumpWake(a)) /\ WF_svars(PumpServed(a))

SessionSpec == SessionInit /\ [][SessionNext]_svars /\ SessionFairness

----------------------------------------------------------------------------
(* Properties that hold for every client *)

\* A pump thread never selects on a descriptor that is closed (and may have
\* been given to another file since): clear() closes the pipe of a thread
\* only after it joined that thread, and run() opens it before the thread.
PumpHasPipe == \A a \in Agents : Running(a) => pipe[a] # "closed"

\* A wake-up byte is never left over for a later thread: only the thread
\* clear() is joining, or has just joined, sees one.
NoStaleByte ==
    \A a \in Agents : pipe[a] = "byte" => self = a /\ phase \in {"join", "close"}

\* clear() never hangs in join(): the byte reaches the thread in select(), or
\* at its next select() when it is serving a request.
JoinReturns == phase = "join" ~> phase = "idle"
=============================================================================
