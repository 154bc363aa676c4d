------------------------------- MODULE MCThreads -------------------------------
(* Threads that share what one object keeps for all of them: the agent and    *)
(* its event pump under any client, the log, a singleton, a lock.  The parts  *)
(* share nothing, so a behaviour runs one of them while the others rest in    *)
(* their initial state.                                                       *)
EXTENDS AgentSession, LogFile, Singleton, Lock

CONSTANTS main, t1, t2, a1, a2

VARIABLE part

logVars == vars
allVars == <<part, svars, logVars, singletonVars, mutexVars>>

(* The log may be redirected from one kind of file destination to the other.  *)
ToFile == [dest : FileDestinations, lock : Modes]

ThreadsInit ==
    /\ part \in {"session", "log", "singleton", "lock"}
    /\ IF part = "log" THEN Init ELSE option = [dest |-> "file", lock |-> "file"] /\ Init
    /\ IF part = "singleton" THEN SingletonInit ELSE traits = "default" /\ SingletonInit
    /\ IF part = "session" THEN SessionInit ELSE self = a1 /\ SessionInit
    /\ LockInit

Only(p, theirs) == part = p /\ UNCHANGED theirs /\ UNCHANGED part

ThreadsNext ==
    \/ Only("session", <<logVars, singletonVars, mutexVars>>) /\ SessionNext
    \/ Only("log", <<svars, singletonVars, mutexVars>>) /\ Next
    \/ Only("singleton", <<svars, logVars, mutexVars>>) /\ SingletonNext
    \/ Only("lock", <<svars, logVars, singletonVars>>) /\ LockNext

(* The fairness of each part; the property of the lock needs none.            *)
ThreadsFairness ==
    /\ \A t \in Threads : WF_logVars(Step(t))
    /\ SessionFairness /\ SingletonFairness

ThreadsSpec == ThreadsInit /\ [][ThreadsNext]_allVars /\ ThreadsFairness
=============================================================================
