--------------------------------- MODULE Lock ---------------------------------
(***************************************************************************)
(* chromium::Lock of src/src/chromium/synchronization with its debug        *)
(* bookkeeping (lock.cc, not NDEBUG) over a pthread mutex, used through     *)
(* AutoLock, an AutoUnlock inside it, and Try().                            *)
(***************************************************************************)
EXTENDS Naturals

CONSTANTS Workers,    \* threads that take the lock
          MaxScopes   \* bound on the scopes each one opens

Unowned == "no thread"

ASSUME LockAssumption == Unowned \notin Workers /\ MaxScopes \in Nat

VARIABLES
    os_lock,  \* owner of the pthread mutex
    owning,   \* owned_by_thread_ and owning_thread_id_
    worker,   \* where each thread is
    scopes    \* AutoLocks and Try()s of each thread

mutexVars == <<os_lock, owning, worker, scopes>>

LockInit ==
    /\ os_lock = Unowned /\ owning = Unowned
    /\ worker = [w \in Workers |-> "outside"]
    /\ scopes = [w \in Workers |-> 0]

Goes(w, from, to) == worker[w] = from /\ worker' = [worker EXCEPT ![w] = to]

\* AutoLock(lock): Acquire() blocks in lock_.Lock().
BeginScope(w) ==
    /\ scopes[w] < MaxScopes
    /\ scopes' = [scopes EXCEPT ![w] = @ + 1]
    /\ Goes(w, "outside", "lock")
    /\ UNCHANGED <<os_lock, owning>>

LockImplLock(w) ==
    /\ os_lock = Unowned /\ os_lock' = w
    /\ Goes(w, "lock", "mark") \/ Goes(w, "relock", "remark")
    /\ UNCHANGED <<owning, scopes>>

\* Try(): EBUSY is an answer, success is marked like Acquire().
Try(w) ==
    /\ scopes[w] < MaxScopes
    /\ scopes' = [scopes EXCEPT ![w] = @ + 1]
    /\ \/ os_lock = Unowned /\ os_lock' = w /\ Goes(w, "outside", "mark")
       \/ os_lock # Unowned /\ Goes(w, "outside", "outside") /\ UNCHANGED os_lock
    /\ UNCHANGED owning

\* CheckUnheldAndMark(), inside the mutex.
CheckUnheldAndMark(w) ==
    /\ owning' = w
    /\ Goes(w, "mark", "inside") \/ Goes(w, "remark", "inside again")
    /\ UNCHANGED <<os_lock, scopes>>

\* Fault: the mark stays.
CheckHeld(w) ==
    /\ \/ Goes(w, "inside", "unlock") \/ Goes(w, "inside again", "unlock")
       \/ Goes(w, "inside", "pause")
    /\ UNCHANGED <<os_lock, owning, scopes>>

\* CheckHeldAndUnmark(): of ~AutoLock(), or of AutoUnlock() in mid-scope.
CheckHeldAndUnmark(w) ==
    /\ owning' = Unowned
    /\ \/ Goes(w, "inside", "unlock") \/ Goes(w, "inside again", "unlock")
       \/ Goes(w, "inside", "pause")
    /\ UNCHANGED <<os_lock, scopes>>

LockImplUnlock(w) ==
    /\ os_lock' = Unowned
    /\ Goes(w, "unlock", "outside") \/ Goes(w, "pause", "relock")
    /\ UNCHANGED <<owning, scopes>>

WorkerStep(w) ==
    \/ LockImplLock(w) \/ CheckUnheldAndMark(w) \/ CheckHeldAndUnmark(w) \/ LockImplUnlock(w)

LockNext == \E w \in Workers : BeginScope(w) \/ Try(w) \/ WorkerStep(w)

LockSpec == LockInit /\ [][LockNext]_mutexVars

----------------------------------------------------------------------------

\* The assertions of lock.cc hold at every point that evaluates them, though
\* the marks are set after the mutex is taken and cleared before it is let go:
\* the lock is unmarked when a thread marks it, and marked with the thread's
\* own identity when AutoLock, AutoUnlock or Release() test it.
MarksHold ==
    /\ \A w \in Workers : worker[w] \in {"mark", "remark"} => owning = Unowned
    /\ \A w \in Workers : worker[w] \in {"inside", "inside again"} => owning = w /\ os_lock = w
    /\ \A w \in Workers : worker[w] \in {"unlock", "pause"} => os_lock = w
=============================================================================
