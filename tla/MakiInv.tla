------------------------------ MODULE MakiInv ------------------------------
(***************************************************************************)
(* The inductive invariant of module Maki: who holds the session, in terms  *)
(* of where the main thread is.                                             *)
(***************************************************************************)
EXTENDS Maki

\* old is set while, and only while, a displaced agent is destroyed.
Displaced ==
    /\ main = "replace" <=> old # NoAgent
    /\ main \in {"replace", "agentRun", "started", "notify", "reset"} => agent # NoAgent
    /\ main = "gone" => agent = NoAgent
    /\ old # NoAgent => old # agent

\* Which method the main thread can be in, and for which object.
InMethod ==
    /\ phase = "idle" => ~dying
    /\ phase \in RunPhases =>
          main = "started" /\ self = agent /\ ~dying /\ \A a \in Agents : pump[a] = "none"
    /\ phase \in ClearPhases =>
          /\ main \in {"replace", "reset"} /\ dying
          /\ self = Victim /\ obj[Victim] = "live"
    /\ phase \in RunPhases \ {"initAgent"} => lib = "up"
    /\ phase = "spawn" => pipe[self] = "empty"

AgentAlive == agent # NoAgent /\ main # "reset" => obj[agent] = "live"

\* The counter is 1 while there is an agent that was run and is not yet given
\* up, and 0 otherwise.
Counted ==
    /\ refCount = 1 =>
          /\ main \notin {"agentRun", "gone"}
          /\ Victim # NoAgent /\ obj[Victim] = "live"
    /\ refCount = 0 =>
          \/ main \in {"agentRun", "gone"}
          \/ main = "client" /\ agent = NoAgent
          \/ phase \in ClearPhases
          \/ main \in {"replace", "reset"} /\ obj[Victim] = "dead"

\* Only the counted agent has a thread, under a library that is up.
PumpCounted ==
    \A a \in Agents : pump[a] # "none" =>
        /\ a = Victim /\ obj[a] = "live" /\ lib = "up"
        /\ refCount = 1 \/ phase = "join"

IInv == TypeOK /\ Displaced /\ InMethod /\ AgentAlive /\ Counted /\ PumpCounted
=============================================================================
