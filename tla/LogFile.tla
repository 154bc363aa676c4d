------------------------------- MODULE LogFile -------------------------------
(***************************************************************************)
(* The log file of src/src/chromium/logging.cc: LoggingLock, which is made  *)
(* by the first InitLogging() or the first message, the lazily opened file, *)
(* and threads that log while the main thread redirects the log.            *)
(*                                                                          *)
(* In lockMode "file" (LOCK_LOG_FILE) the lock is a static mutex, in "impl" *)
(* (DONT_LOCK_LOG_FILE) it is log_lock, which Init() allocates.             *)
(***************************************************************************)
EXTENDS Naturals

CONSTANTS Threads,     \* threads that log
          Main,        \* the one that also calls InitLogging()
          Handles,     \* FILE handles
          Nothing,     \* NULL: no file, no owner
          First,       \* options of an InitLogging() before any message
          Second,      \* options of one that redirects the log
          MaxMessages, \* bound on the messages of each thread
          MaxCalls     \* bound on the calls of InitLogging()

Modes == {"file", "impl"}
FileDestinations == {"file", "both"}
Destinations == {"none", "system"} \union FileDestinations
Options == [dest : Destinations, lock : Modes]

ASSUME ThreadsAssumption == Main \in Threads /\ Nothing \notin Threads \union Handles
ASSUME OptionsAssumption == First \union Second \subseteq Options
ASSUME BoundsAssumption == MaxMessages \in Nat /\ MaxCalls \in Nat

VARIABLES
    initialized, \* LoggingLock::is_initialized
    lockMode,    \* LoggingLock::lock_log_file
    hasImpl,     \* LoggingLock::log_lock is not NULL
    owner,       \* who holds each of the two mutexes
    dest,        \* logging_destination
    file,        \* log_file
    open,        \* handles between fopen() and fclose()
    calls,       \* InitLogging() calls so far
    option,      \* the options of the last one
    redirecting, \* is Main inside it?
    sent,        \* messages each thread has begun
    pc           \* where each thread is

lockVars == <<initialized, lockMode, hasImpl>>
fileVars == <<dest, file, open>>
callVars == <<calls, option, redirecting, sent>>
vars == <<lockVars, owner, fileVars, callVars, pc>>

\* A thread inside LoggingLock::Init(), and one that holds the lock.
InitPcs   == {"init", "setMode", "makeLock", "setDone"}
LockedPcs == {"redirect", "openFile", "write", "unlock"}

TypeOK ==
    /\ initialized \in BOOLEAN /\ hasImpl \in BOOLEAN /\ redirecting \in BOOLEAN
    /\ lockMode \in Modes
    /\ owner \in [Modes -> Threads \union {Nothing}]
    /\ dest \in Destinations
    /\ file \in Handles \union {Nothing}
    /\ open \subseteq Handles
    /\ calls \in 0..MaxCalls
    /\ option \in Options
    /\ sent \in [Threads -> 0..MaxMessages]
    /\ pc \in [Threads -> {"idle", "dest", "lock", "crashed"} \union InitPcs \union LockedPcs]

Init ==
    /\ initialized = FALSE /\ lockMode = "file" /\ hasImpl = FALSE
    /\ owner = [m \in Modes |-> Nothing]
    /\ dest = "system" /\ file = Nothing /\ open = {}
    /\ calls = 0 /\ option \in Options /\ redirecting = FALSE
    /\ sent = [t \in Threads |-> 0]
    /\ pc = [t \in Threads |-> "idle"]

Goto(t, place) == pc' = [pc EXCEPT ![t] = place]
InInitLogging(t) == t = Main /\ redirecting

----------------------------------------------------------------------------
(* The calls.  As logging.cc:132 asks, the first InitLogging() is over      *)
(* before any thread logs; a later one finds the lock initialised.          *)

Silent == \A t \in Threads : sent[t] = 0

InitLogging ==
    /\ pc[Main] = "idle" /\ calls < MaxCalls
    /\ option' \in IF Silent /\ calls = 0 THEN First ELSE Second
    /\ Silent \/ initialized
    /\ calls' = calls + 1
    /\ redirecting' = TRUE
    /\ Goto(Main, "init")
    /\ UNCHANGED <<lockVars, owner, fileVars, sent>>

\* ~LogMessage(), after the message handler and stderr
LogMessage(t) ==
    /\ pc[t] = "idle" /\ sent[t] < MaxMessages
    /\ ~(redirecting /\ calls = 1 /\ Silent)
    /\ sent' = [sent EXCEPT ![t] = @ + 1]
    /\ Goto(t, "init")
    /\ UNCHANGED <<lockVars, owner, fileVars, calls, option, redirecting>>

----------------------------------------------------------------------------
(* LoggingLock::Init(), which takes no lock itself                          *)

Requested(t) == IF InInitLogging(t) THEN option.lock ELSE "file"
AfterInit(t) == IF InInitLogging(t) THEN "lock" ELSE "dest"

\* Fault: the first caller's choice does not stick.
InitAgain(t) ==
    /\ pc[t] = "init"
    /\ Goto(t, "setMode")
    /\ UNCHANGED <<lockVars, owner, fileVars, callVars>>

InitCheck(t) ==
    /\ pc[t] = "init"
    /\ Goto(t, IF initialized THEN AfterInit(t) ELSE "setMode")
    /\ UNCHANGED <<lockVars, owner, fileVars, callVars>>

SetMode(t) ==
    /\ pc[t] = "setMode"
    /\ lockMode' = Requested(t)
    /\ Goto(t, IF lockMode' = "file" THEN "setDone" ELSE "makeLock")
    /\ UNCHANGED <<initialized, hasImpl, owner, fileVars, callVars>>

\* Fault: log_lock is left to somebody else.
MakeNoLock(t) ==
    /\ pc[t] = "makeLock"
    /\ Goto(t, "setDone")
    /\ UNCHANGED <<lockVars, owner, fileVars, callVars>>

MakeLock(t) ==
    /\ pc[t] = "makeLock"
    /\ hasImpl' = TRUE
    /\ Goto(t, "setDone")
    /\ UNCHANGED <<initialized, lockMode, owner, fileVars, callVars>>

SetDone(t) ==
    /\ pc[t] = "setDone"
    /\ initialized' = TRUE
    /\ Goto(t, AfterInit(t))
    /\ UNCHANGED <<lockMode, hasImpl, owner, fileVars, callVars>>

----------------------------------------------------------------------------
(* The rest of ~LogMessage() and InitLogging().  lock_log_file is read when *)
(* the lock is taken and again when it is released.                         *)

\* The destination is looked at before the lock is taken.
ReadDestination(t) ==
    /\ pc[t] = "dest"
    /\ Goto(t, IF dest \in FileDestinations THEN "lock" ELSE "idle")
    /\ UNCHANGED <<lockVars, owner, fileVars, callVars>>

\* log_lock is not a null pointer.
UsableLock == lockMode = "impl" => hasImpl

LockLogging(t) ==
    /\ pc[t] = "lock"
    /\ owner[lockMode] = Nothing
    /\ owner' = [owner EXCEPT ![lockMode] = t]
    /\ Goto(t, IF ~UsableLock THEN "crashed"
               ELSE IF InInitLogging(t) THEN "redirect" ELSE "openFile")
    /\ UNCHANGED <<lockVars, fileVars, callVars>>

\* Fault: the old file is not closed.
KeepFile == UNCHANGED open
CloseFile == open' = open \ {file}

Redirect(t) ==
    /\ pc[t] = "redirect"
    /\ CloseFile
    /\ file' = Nothing
    /\ dest' = option.dest
    /\ Goto(t, IF dest' \in FileDestinations THEN "openFile" ELSE "unlock")
    /\ UNCHANGED <<lockVars, owner, callVars>>

\* InitializeLogFileHandle() has returned true.
Initialized(t) == Goto(t, IF InInitLogging(t) THEN "unlock" ELSE "write")

\* It returns true as well where the destination is not a file.
OpenAlready(t) ==
    /\ pc[t] = "openFile"
    /\ file # Nothing \/ dest \notin FileDestinations
    /\ Initialized(t)
    /\ UNCHANGED <<lockVars, owner, fileVars, callVars>>

OpenLogFile(t) ==
    /\ pc[t] = "openFile" /\ file = Nothing /\ dest \in FileDestinations
    /\ \E h \in Handles \ open : file' = h /\ open' = open \union {h}
    /\ Initialized(t)
    /\ UNCHANGED <<lockVars, owner, dest, callVars>>

OpenFails(t) ==
    /\ pc[t] = "openFile" /\ file = Nothing /\ dest \in FileDestinations
    /\ Goto(t, "unlock")
    /\ UNCHANGED <<lockVars, owner, fileVars, callVars>>

\* fprintf() and fflush()
Write(t) ==
    /\ pc[t] = "write"
    /\ Goto(t, IF file \in open THEN "unlock" ELSE "crashed")
    /\ UNCHANGED <<lockVars, owner, fileVars, callVars>>

\* Fault: the lock is kept.
KeepLock(t) ==
    /\ pc[t] = "unlock"
    /\ redirecting' = (redirecting /\ t # Main)
    /\ Goto(t, "idle")
    /\ UNCHANGED <<lockVars, owner, fileVars, calls, option, sent>>

UnlockLogging(t) ==
    /\ pc[t] = "unlock"
    /\ owner' = [owner EXCEPT ![lockMode] = Nothing]
    /\ redirecting' = (redirecting /\ t # Main)
    /\ Goto(t, "idle")
    /\ UNCHANGED <<lockVars, fileVars, calls, option, sent>>

Step(t) ==
    \/ InitCheck(t) \/ SetMode(t) \/ MakeLock(t) \/ SetDone(t)
    \/ ReadDestination(t) \/ LockLogging(t) \/ Redirect(t)
    \/ OpenAlready(t) \/ OpenLogFile(t) \/ OpenFails(t)
    \/ Write(t) \/ UnlockLogging(t)

Next == InitLogging \/ \E t \in Threads : LogMessage(t) \/ Step(t)

Spec == Init /\ [][Next]_vars /\ \A t \in Threads : WF_vars(Step(t))
----------------------------------------------------------------------------
(* Properties *)

\* Whatever was asked for and in whichever order the lock was made, at most
\* one thread is between LockLogging() and UnlockLogging(), and what it will
\* unlock is what it holds: lock_log_file does not change in between.
LockHeld ==
    \A t \in Threads : pc[t] \in LockedPcs => owner[lockMode] = t

\* log_file is the only open file, so none is leaked by a redirection, and
\* never a closed one.
OneFile == open = {file} \ {Nothing}

\* No lock is used that was not made, and a message that has found the
\* destination to be a file finds one to write to when it has the lock.  The
\* log must not be redirected away from files for that.
NothingCrashes == \A t \in Threads : pc[t] # "crashed"

----------------------------------------------------------------------------
(* The inductive invariant behind them *)

Making(t) == pc[t] \in {"setMode", "makeLock", "setDone"}

\* Before the lock is initialised either only the first InitLogging() may
\* have begun, or only messages, which all ask for the same mode.
FirstAlone ==
    ~initialized =>
        \/ /\ Silent /\ calls = (IF redirecting THEN 1 ELSE 0)
           /\ redirecting \/ lockMode = "file"
           /\ \A t \in Threads : pc[t] # "idle" => InInitLogging(t)
        \/ calls = 0 /\ ~redirecting /\ lockMode = "file"

\* Afterwards nobody changes the mode.
Settled ==
    /\ initialized =>
          /\ UsableLock
          /\ \A t \in Threads : Making(t) => lockMode = "file" /\ ~InInitLogging(t)
    /\ \A t \in Threads : pc[t] = "makeLock" => InInitLogging(t) /\ lockMode = "impl"
    /\ \A t \in Threads : pc[t] = "setDone" => UsableLock

\* Nobody uses the lock, or begins to redirect the log, before.
Begun ==
    /\ \A t \in Threads : pc[t] \in {"dest", "lock"} \union LockedPcs => initialized
    /\ redirecting => pc[Main] # "idle" /\ calls > 0
    /\ redirecting /\ (calls > 1 \/ ~Silent) => initialized /\ option \in Second
    /\ \A t \in Threads : sent[t] = 0 /\ pc[t] # "idle" => InInitLogging(t)
    /\ \A t \in Threads : pc[t] = "redirect" => InInitLogging(t)
    /\ \A t \in Threads : pc[t] \in {"dest", "write"} => ~InInitLogging(t)

\* A message on its way to a file, and where it goes.
Bound ==
    Second \subseteq [dest : FileDestinations, lock : Modes] =>
        \A t \in Threads :
            /\ pc[t] \in {"lock", "openFile", "write"} /\ ~InInitLogging(t) =>
                  dest \in FileDestinations
            /\ pc[t] = "write" => file # Nothing

LogInv == TypeOK /\ LockHeld /\ OneFile /\ FirstAlone /\ Settled /\ Begun /\ Bound

\* logging.cc:230 "Returns false if the file could not be initialized": where
\* InitializeLogFileHandle() has returned true, there is a file to write to.
TrueMeansFile == \A t \in Threads : pc[t] = "write" => file # Nothing

\* Every message and every InitLogging() gets done.
LoggingReturns == \A t \in Threads : pc[t] # "idle" ~> pc[t] = "idle"
=============================================================================
