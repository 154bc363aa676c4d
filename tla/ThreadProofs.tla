----------------------------- MODULE ThreadProofs -----------------------------
(***************************************************************************)
(* What threads meet in, for any number of threads: the singletons, the     *)
(* debug build's lock, and the log.                                         *)
(*                                                                          *)
(* Singleton<Type>::get() hands out one finished instance whatever get(),   *)
(* OnExit() and Resurrect() calls there are.  Creating names the places of  *)
(* the one thread that won the compare-and-swap; everything else follows    *)
(* from who may hold what at which place.                                   *)
(*                                                                          *)
(* The assertions of the debug build's Lock hold for any nesting of scopes. *)
(* LockPlaces says who owns the mutex and who is marked at each place a     *)
(* thread can be: the exclusion of the pthread mutex carries over to the    *)
(* marks because they change only inside it.                                *)
(*                                                                          *)
(* The log: for any threads, handles, options and numbers of messages and   *)
(* calls.                                                                   *)
(***************************************************************************)
EXTENDS Singleton, Lock, LogFile, TLAPS

GetPlaces == {"out", "swap", "new", "build", "publish", "wait", "use"}
Creating == {"new", "build", "publish"}
Live == {"raw", "built"}

SingletonTypes ==
    /\ traits \in {"default", "static"} /\ dead \in BOOLEAN
    /\ instance \in {NULL, BeingCreated} \union Objects
    /\ object \in [Objects -> {"none", "raw", "built", "gone"}]
    /\ getter \in [Getters -> [pc : GetPlaces, value : {NULL} \union Objects]]

\* The marker stands for exactly one thread that is creating.
Marker ==
    /\ \A t \in Getters : Where(t) \in Creating => instance = BeingCreated
    /\ \A t, u \in Getters : Where(t) \in Creating /\ Where(u) \in Creating => t = u
    /\ instance = BeingCreated => \E t \in Getters : Where(t) \in Creating

\* What is live is the instance, or what the creating thread is building.
LiveHeld ==
    /\ instance \in Objects => object[instance] = "built"
    /\ \A o \in Objects : object[o] \in Live =>
         \/ o = instance
         \/ \E t \in Getters : Where(t) \in {"build", "publish"} /\ getter[t].value = o

\* The value at each place; a null one is that of a dead static instance.
Dead == traits = "static" /\ dead
ValuesHeld ==
    \A t \in Getters :
      /\ Where(t) = "build" => getter[t].value \in Objects /\ object[getter[t].value] = "raw"
      /\ Where(t) \in {"publish", "use"} =>
           \/ getter[t].value \in Objects /\ object[getter[t].value] = "built"
           \/ getter[t].value = NULL /\ Dead
      /\ Where(t) = "wait" => instance # NULL \/ Dead

SingletonInv == SingletonTypes /\ Marker /\ LiveHeld /\ ValuesHeld

\* The integers that are no objects.
LEMMA Distinct == NULL \notin Objects /\ BeingCreated \notin Objects /\ NULL # BeingCreated
BY SingletonAssumption DEF NULL, BeingCreated, Objects

\* Nothing is created or held at first.
LEMMA InitSingletonInv == SingletonInit => SingletonInv
<1> SUFFICES ASSUME SingletonInit PROVE SingletonInv
    OBVIOUS
<1>1. dead \in BOOLEAN
    BY DEF SingletonInit
<1>2. \A t \in Getters : Where(t) = "out"
    BY DEF SingletonInit, Where
<1>3. SingletonTypes
    BY <1>1 DEF SingletonInit, SingletonTypes, GetPlaces
<1>4. Marker /\ ValuesHeld
    BY <1>2, Distinct DEF SingletonInit, Marker, ValuesHeld, Creating
<1>5. LiveHeld
    BY Distinct DEF SingletonInit, LiveHeld, Live
<1> QED BY <1>3, <1>4, <1>5 DEF SingletonInv

\* Every step of every thread keeps it, and so do OnExit() and Resurrect(),
\* which run while no thread is inside get().
LEMMA NextSingletonInv == SingletonInv /\ [SingletonNext]_singletonVars => SingletonInv'
<1> SUFFICES ASSUME SingletonInv, [SingletonNext]_singletonVars PROVE SingletonInv'
    OBVIOUS
<1> USE Distinct DEF SingletonInv, SingletonTypes, Marker, LiveHeld, ValuesHeld, Dead,
                     Where, Moves, GetPlaces, Creating, Live
<1>1. CASE UNCHANGED singletonVars
    BY <1>1 DEF singletonVars
<1>2. ASSUME NEW t \in Getters, LoadInstance(t) PROVE SingletonInv'
  <2>1. SingletonTypes'
      BY <1>2 DEF LoadInstance
  <2>2. Marker'
      BY <1>2 DEF LoadInstance
  <2>3. LiveHeld'
      BY <1>2 DEF LoadInstance
  <2>4. ValuesHeld'
      BY <1>2 DEF LoadInstance
  <2> QED BY <2>1, <2>2, <2>3, <2>4
<1>3. ASSUME NEW t \in Getters, CompareAndSwap(t) PROVE SingletonInv'
  <2>1. SingletonTypes'
      BY <1>3 DEF CompareAndSwap
  <2>2. Marker'
      BY <1>3 DEF CompareAndSwap
  <2>3. LiveHeld'
      BY <1>3 DEF CompareAndSwap
  <2>4. ValuesHeld'
      BY <1>3 DEF CompareAndSwap
  <2> QED BY <2>1, <2>2, <2>3, <2>4
<1>4. ASSUME NEW t \in Getters, New(t) PROVE SingletonInv'
  <2>1. SingletonTypes'
      BY <1>4 DEF New
  <2>2. Marker'
      BY <1>4 DEF New
  <2>3. LiveHeld'
      BY <1>4 DEF New
  <2>4. ValuesHeld'
      BY <1>4 DEF New
  <2> QED BY <2>1, <2>2, <2>3, <2>4
<1>5. ASSUME NEW t \in Getters, Build(t) PROVE SingletonInv'
  <2>1. SingletonTypes'
      BY <1>5 DEF Build
  <2>2. Marker'
      BY <1>5 DEF Build
  <2>3. LiveHeld'
      BY <1>5 DEF Build
  <2>4. ValuesHeld'
      BY <1>5 DEF Build
  <2> QED BY <2>1, <2>2, <2>3, <2>4
<1>6. ASSUME NEW t \in Getters, Publish(t) PROVE SingletonInv'
  <2>1. SingletonTypes'
      BY <1>6 DEF Publish
  <2>2. Marker'
      BY <1>6 DEF Publish
  <2>3. LiveHeld'
      BY <1>6 DEF Publish
  <2>4. ValuesHeld'
      BY <1>6 DEF Publish
  <2> QED BY <2>1, <2>2, <2>3, <2>4
<1>7. ASSUME NEW t \in Getters, WaitForInstance(t) PROVE SingletonInv'
  <2>1. SingletonTypes'
      BY <1>7 DEF WaitForInstance
  <2>2. Marker'
      BY <1>7 DEF WaitForInstance
  <2>3. LiveHeld'
      BY <1>7 DEF WaitForInstance
  <2>4. ValuesHeld'
      BY <1>7 DEF WaitForInstance
  <2> QED BY <2>1, <2>2, <2>3, <2>4
<1>8. ASSUME NEW t \in Getters, Use(t) PROVE SingletonInv'
  <2>1. SingletonTypes'
      BY <1>8 DEF Use
  <2>2. Marker'
      BY <1>8 DEF Use
  <2>3. LiveHeld'
      BY <1>8 DEF Use
  <2>4. ValuesHeld'
      BY <1>8 DEF Use
  <2> QED BY <2>1, <2>2, <2>3, <2>4
<1>9. CASE OnExit
    BY <1>9 DEF OnExit
<1>10. CASE Resurrect
    BY <1>10 DEF Resurrect
<1> QED
    BY <1>1, <1>2, <1>3, <1>4, <1>5, <1>6, <1>7, <1>8, <1>9, <1>10
    DEF SingletonNext, GetStep

\* "Return a pointer to the one true instance of the class" (singleton.hh:228).
THEOREM OneInstanceAlways == SingletonSpec => []OneInstance
<1>1. SingletonInv => OneInstance
  <2> SUFFICES ASSUME SingletonInv PROVE OneInstance
      OBVIOUS
  <2>1. ASSUME NEW o \in Objects, NEW p \in Objects, {object[o], object[p]} \subseteq Live
        PROVE  o = p
      BY <2>1, Distinct DEF SingletonInv, Marker, LiveHeld, Creating, Live
  <2> QED BY <2>1 DEF SingletonInv, ValuesHeld, Dead, OneInstance, Live
<1> QED BY <1>1, InitSingletonInv, NextSingletonInv, PTL DEF SingletonSpec

----------------------------------------------------------------------------
(* The debug lock.                                                          *)

LockPlaces == {"outside", "lock", "mark", "inside", "pause", "relock", "remark", "inside again", "unlock"}
Holding == {"mark", "remark", "inside", "inside again", "unlock", "pause"}
Marked == {"inside", "inside again"}

LockTypes ==
    /\ os_lock \in Workers \union {Unowned}
    /\ owning \in Workers \union {Unowned}
    /\ worker \in [Workers -> LockPlaces]

\* The mutex belongs to the thread that is at a place inside it, and the mark
\* is that of the owner exactly between the two places that change it.
LockInv ==
    /\ LockTypes
    /\ \A w \in Workers : worker[w] \in Holding <=> os_lock = w
    /\ \A w \in Workers : worker[w] \in Marked <=> owning = w

\* The strengthening holds at first and is kept by every step of every thread.
LEMMA InitLockInv == LockInit => LockInv
BY LockAssumption DEF LockInit, LockInv, LockTypes, LockPlaces, Holding, Marked

\* Every step of every thread keeps it.
LEMMA NextLockInv == LockInv /\ [LockNext]_mutexVars => LockInv'
<1> SUFFICES ASSUME LockInv, [LockNext]_mutexVars PROVE LockInv'
    OBVIOUS
<1> USE LockAssumption DEF LockInv, LockTypes, LockPlaces, Holding, Marked, Goes
<1>1. CASE UNCHANGED mutexVars
    BY <1>1 DEF mutexVars
<1>2. ASSUME NEW w \in Workers, BeginScope(w) PROVE LockInv'
    BY <1>2 DEF BeginScope
<1>3. ASSUME NEW w \in Workers, Try(w) PROVE LockInv'
  <2>1. CASE os_lock = Unowned /\ os_lock' = w /\ Goes(w, "outside", "mark")
      BY <1>3, <2>1 DEF Try
  <2>2. CASE os_lock # Unowned /\ Goes(w, "outside", "outside") /\ UNCHANGED os_lock
      BY <1>3, <2>2 DEF Try
  <2> QED BY <1>3, <2>1, <2>2 DEF Try
<1>4. ASSUME NEW w \in Workers, LockImplLock(w) PROVE LockInv'
    BY <1>4 DEF LockImplLock
<1>5. ASSUME NEW w \in Workers, CheckUnheldAndMark(w) PROVE LockInv'
    BY <1>5 DEF CheckUnheldAndMark
<1>6. ASSUME NEW w \in Workers, CheckHeldAndUnmark(w) PROVE LockInv'
    BY <1>6 DEF CheckHeldAndUnmark
<1>7. ASSUME NEW w \in Workers, LockImplUnlock(w) PROVE LockInv'
    BY <1>7 DEF LockImplUnlock
<1> QED BY <1>1, <1>2, <1>3, <1>4, <1>5, <1>6, <1>7 DEF LockNext, WorkerStep

\* No assertion of CheckHeldAndUnmark() or CheckUnheldAndMark() (lock.cc:22) can
\* fail, whichever AutoLock, AutoUnlock and Try() scopes threads open.
THEOREM MarksAlwaysHold == LockSpec => []MarksHold
<1>1. LockInv => MarksHold
    BY LockAssumption DEF LockInv, LockTypes, MarksHold, Holding, Marked, LockPlaces
<1> QED BY <1>1, InitLockInv, NextLockInv, PTL DEF LockSpec

----------------------------------------------------------------------------
(* The log.                                                                 *)

USE ThreadsAssumption, OptionsAssumption, BoundsAssumption

\* The state before main() has called anything.
LEMMA InitLog == Init => LogInv
  <1> SUFFICES ASSUME Init PROVE LogInv
    OBVIOUS
  <1>1. TypeOK
    <2>1. calls \in 0..MaxCalls /\ sent \in [Threads -> 0..MaxMessages]
      BY DEF Init
    <2>2. lockMode \in Modes /\ owner \in [Modes -> Threads \union {Nothing}]
      BY DEF Init, Modes
    <2>3. /\ dest \in Destinations /\ option \in Options /\ open \subseteq Handles
          /\ initialized \in BOOLEAN /\ hasImpl \in BOOLEAN /\ redirecting \in BOOLEAN
          /\ file \in Handles \union {Nothing}
      BY DEF Init, Destinations
    <2>4. pc \in [Threads -> {"idle", "dest", "lock", "crashed"} \union InitPcs \union LockedPcs]
      BY DEF Init
    <2> QED BY <2>1, <2>2, <2>3, <2>4 DEF TypeOK
  <1> QED BY <1>1 DEF Init, LogInv, LockHeld, OneFile, FirstAlone, Silent, Settled, Making,
             UsableLock, Begun, Bound, LockedPcs

\* Every step keeps the types.
LEMMA TypeStep == ASSUME TypeOK, [Next]_vars PROVE TypeOK'
  <1> USE DEF TypeOK, Goto, lockVars, fileVars, callVars, InitPcs, LockedPcs, Modes
  <1>1. CASE InitLogging
    BY <1>1 DEF InitLogging
  <1>2. ASSUME NEW t \in Threads, LogMessage(t) PROVE TypeOK'
    BY <1>2 DEF LogMessage
  <1>3. ASSUME NEW t \in Threads, InitCheck(t) \/ SetMode(t) \/ MakeLock(t) \/ SetDone(t)
        PROVE  TypeOK'
    BY <1>3 DEF InitCheck, SetMode, MakeLock, SetDone, AfterInit, Requested, Options
  <1>4. ASSUME NEW t \in Threads, ReadDestination(t) \/ LockLogging(t) PROVE TypeOK'
    BY <1>4 DEF ReadDestination, LockLogging
  <1>5. ASSUME NEW t \in Threads, Redirect(t) PROVE TypeOK'
    BY <1>5 DEF Redirect, CloseFile, Options
  <1>6. ASSUME NEW t \in Threads, OpenAlready(t) \/ OpenFails(t) PROVE TypeOK'
    BY <1>6 DEF OpenAlready, OpenFails, Initialized
  <1>7. ASSUME NEW t \in Threads, OpenLogFile(t) PROVE TypeOK'
    BY <1>7 DEF OpenLogFile, Initialized
  <1>8. ASSUME NEW t \in Threads, Write(t) PROVE TypeOK'
    BY <1>8 DEF Write
  <1>9. ASSUME NEW t \in Threads, UnlockLogging(t) PROVE TypeOK'
    BY <1>9 DEF UnlockLogging
  <1>10. CASE UNCHANGED vars
    BY <1>10 DEF vars
  <1> QED BY <1>1, <1>2, <1>3, <1>4, <1>5, <1>6, <1>7, <1>8, <1>9, <1>10 DEF Next, Step

\* What a thread with the lock does keeps it alone; nobody else disturbs it.
LEMMA HeldStep == ASSUME LogInv, [Next]_vars PROVE LockHeld'
  <1> USE DEF LogInv, TypeOK, LockHeld, Goto, lockVars, fileVars, callVars, InitPcs, LockedPcs, Modes
  <1>1. CASE InitLogging
    BY <1>1 DEF InitLogging
  <1>2. ASSUME NEW t \in Threads, LogMessage(t) PROVE LockHeld'
    BY <1>2 DEF LogMessage
  <1>3. ASSUME NEW t \in Threads, SetMode(t) PROVE LockHeld'
    BY <1>3 DEF SetMode, Begun, Settled, Making, Requested, AfterInit, InInitLogging
  <1>4. ASSUME NEW t \in Threads, InitCheck(t) \/ MakeLock(t) \/ SetDone(t) PROVE LockHeld'
    BY <1>4 DEF InitCheck, MakeLock, SetDone, AfterInit
  <1>5. ASSUME NEW t \in Threads, ReadDestination(t) PROVE LockHeld'
    BY <1>5 DEF ReadDestination
  <1>6. ASSUME NEW t \in Threads, LockLogging(t) PROVE LockHeld'
    BY <1>6 DEF LockLogging
  <1>7. ASSUME NEW t \in Threads, Redirect(t) PROVE LockHeld'
    BY <1>7 DEF Redirect
  <1>8. ASSUME NEW t \in Threads, OpenAlready(t) \/ OpenLogFile(t) \/ OpenFails(t) PROVE LockHeld'
    BY <1>8 DEF OpenAlready, OpenLogFile, OpenFails, Initialized
  <1>9. ASSUME NEW t \in Threads, Write(t) PROVE LockHeld'
    BY <1>9 DEF Write
  <1>10. ASSUME NEW t \in Threads, UnlockLogging(t) PROVE LockHeld'
    BY <1>10 DEF UnlockLogging
  <1>11. CASE UNCHANGED vars
    BY <1>11 DEF vars
  <1> QED BY <1>1, <1>2, <1>3, <1>4, <1>5, <1>6, <1>7, <1>8, <1>9, <1>10, <1>11 DEF Next, Step

\* The file that is opened or closed is log_file, by the thread with the lock.
LEMMA FileStep == ASSUME LogInv, [Next]_vars PROVE OneFile'
  <1> USE DEF LogInv, TypeOK, LockHeld, OneFile, Goto, lockVars, fileVars, callVars, InitPcs, LockedPcs,
              Modes
  <1>1. CASE InitLogging
    BY <1>1 DEF InitLogging
  <1>2. ASSUME NEW t \in Threads, LogMessage(t) PROVE OneFile'
    BY <1>2 DEF LogMessage
  <1>3. ASSUME NEW t \in Threads, SetMode(t) PROVE OneFile'
    BY <1>3 DEF SetMode
  <1>4. ASSUME NEW t \in Threads, InitCheck(t) \/ MakeLock(t) \/ SetDone(t) PROVE OneFile'
    BY <1>4 DEF InitCheck, MakeLock, SetDone
  <1>5. ASSUME NEW t \in Threads, ReadDestination(t) PROVE OneFile'
    BY <1>5 DEF ReadDestination
  <1>6. ASSUME NEW t \in Threads, LockLogging(t) PROVE OneFile'
    BY <1>6 DEF LockLogging
  <1>7. ASSUME NEW t \in Threads, Redirect(t) PROVE OneFile'
    BY <1>7 DEF Redirect, CloseFile
  <1>8. ASSUME NEW t \in Threads, OpenAlready(t) \/ OpenLogFile(t) \/ OpenFails(t) PROVE OneFile'
    BY <1>8 DEF OpenAlready, OpenLogFile, OpenFails, Initialized
  <1>9. ASSUME NEW t \in Threads, Write(t) PROVE OneFile'
    BY <1>9 DEF Write
  <1>10. ASSUME NEW t \in Threads, UnlockLogging(t) PROVE OneFile'
    BY <1>10 DEF UnlockLogging
  <1>11. CASE UNCHANGED vars
    BY <1>11 DEF vars
  <1> QED BY <1>1, <1>2, <1>3, <1>4, <1>5, <1>6, <1>7, <1>8, <1>9, <1>10, <1>11 DEF Next, Step

\* Until the lock is initialised, the first call or the messages are alone.
LEMMA FirstStep == ASSUME LogInv, [Next]_vars PROVE FirstAlone'
  <1> USE DEF LogInv, TypeOK, LockHeld, FirstAlone, Goto, lockVars, fileVars, callVars, InitPcs, LockedPcs,
              Modes, Silent, InInitLogging, Begun
  <1>1. CASE InitLogging
    BY <1>1 DEF InitLogging
  <1>2. ASSUME NEW t \in Threads, LogMessage(t) PROVE FirstAlone'
    BY <1>2 DEF LogMessage
  <1>3. ASSUME NEW t \in Threads, SetMode(t) PROVE FirstAlone'
    BY <1>3 DEF SetMode, Requested, AfterInit
  <1>4. ASSUME NEW t \in Threads, InitCheck(t) \/ MakeLock(t) \/ SetDone(t) PROVE FirstAlone'
    BY <1>4 DEF InitCheck, MakeLock, SetDone, AfterInit, Requested
  <1>5. ASSUME NEW t \in Threads, ReadDestination(t) PROVE FirstAlone'
    BY <1>5 DEF ReadDestination
  <1>6. ASSUME NEW t \in Threads, LockLogging(t) PROVE FirstAlone'
    BY <1>6 DEF LockLogging
  <1>7. ASSUME NEW t \in Threads, Redirect(t) PROVE FirstAlone'
    BY <1>7 DEF Redirect
  <1>8. ASSUME NEW t \in Threads, OpenAlready(t) \/ OpenLogFile(t) \/ OpenFails(t) PROVE FirstAlone'
    BY <1>8 DEF OpenAlready, OpenLogFile, OpenFails, Initialized
  <1>9. ASSUME NEW t \in Threads, Write(t) PROVE FirstAlone'
    BY <1>9 DEF Write
  <1>10. ASSUME NEW t \in Threads, UnlockLogging(t) PROVE FirstAlone'
    BY <1>10 DEF UnlockLogging
  <1>11. CASE UNCHANGED vars
    BY <1>11 DEF vars
  <1> QED BY <1>1, <1>2, <1>3, <1>4, <1>5, <1>6, <1>7, <1>8, <1>9, <1>10, <1>11 DEF Next, Step

\* Nobody changes the mode of a lock that is initialised.
LEMMA SettledStep == ASSUME LogInv, [Next]_vars PROVE Settled'
  <1> USE DEF LogInv, TypeOK, LockHeld, Settled, Goto, lockVars, fileVars, callVars, InitPcs, LockedPcs,
              Modes, Making, UsableLock, InInitLogging, FirstAlone, Begun, Silent
  <1>1. CASE InitLogging
    BY <1>1 DEF InitLogging
  <1>2. ASSUME NEW t \in Threads, LogMessage(t) PROVE Settled'
    BY <1>2 DEF LogMessage
  <1>3. ASSUME NEW t \in Threads, SetMode(t) PROVE Settled'
    <2>1. Requested(t) \in Modes /\ lockMode' = Requested(t)
      BY <1>3 DEF SetMode, Requested, Options
    <2>2. CASE initialized
      BY <1>3, <2>1, <2>2 DEF SetMode, Requested
    <2>3. CASE ~initialized
      BY <1>3, <2>1, <2>3 DEF SetMode, Requested
    <2> QED BY <2>2, <2>3
  <1>4. ASSUME NEW t \in Threads, InitCheck(t) \/ MakeLock(t) \/ SetDone(t) PROVE Settled'
    BY <1>4 DEF InitCheck, MakeLock, SetDone, AfterInit, Requested
  <1>5. ASSUME NEW t \in Threads, ReadDestination(t) PROVE Settled'
    BY <1>5 DEF ReadDestination
  <1>6. ASSUME NEW t \in Threads, LockLogging(t) PROVE Settled'
    BY <1>6 DEF LockLogging
  <1>7. ASSUME NEW t \in Threads, Redirect(t) PROVE Settled'
    BY <1>7 DEF Redirect
  <1>8. ASSUME NEW t \in Threads, OpenAlready(t) \/ OpenLogFile(t) \/ OpenFails(t) PROVE Settled'
    BY <1>8 DEF OpenAlready, OpenLogFile, OpenFails, Initialized
  <1>9. ASSUME NEW t \in Threads, Write(t) PROVE Settled'
    BY <1>9 DEF Write
  <1>10. ASSUME NEW t \in Threads, UnlockLogging(t) PROVE Settled'
    BY <1>10 DEF UnlockLogging
  <1>11. CASE UNCHANGED vars
    BY <1>11 DEF vars
  <1> QED BY <1>1, <1>2, <1>3, <1>4, <1>5, <1>6, <1>7, <1>8, <1>9, <1>10, <1>11 DEF Next, Step

\* Nobody gets to the lock before it is initialised.
LEMMA BegunStep == ASSUME LogInv, [Next]_vars PROVE Begun'
  <1> USE DEF LogInv, TypeOK, LockHeld, Begun, Goto, lockVars, fileVars, callVars, InitPcs, LockedPcs,
              Modes, InInitLogging, FirstAlone, Silent
  <1>1. CASE InitLogging
    BY <1>1 DEF InitLogging
  <1>2. ASSUME NEW t \in Threads, LogMessage(t) PROVE Begun'
    BY <1>2 DEF LogMessage
  <1>3. ASSUME NEW t \in Threads, SetMode(t) PROVE Begun'
    BY <1>3 DEF SetMode, Requested, AfterInit
  <1>4. ASSUME NEW t \in Threads, InitCheck(t) \/ MakeLock(t) \/ SetDone(t) PROVE Begun'
    BY <1>4 DEF InitCheck, MakeLock, SetDone, AfterInit
  <1>5. ASSUME NEW t \in Threads, ReadDestination(t) PROVE Begun'
    BY <1>5 DEF ReadDestination
  <1>6. ASSUME NEW t \in Threads, LockLogging(t) PROVE Begun'
    BY <1>6 DEF LockLogging
  <1>7. ASSUME NEW t \in Threads, Redirect(t) PROVE Begun'
    BY <1>7 DEF Redirect
  <1>8. ASSUME NEW t \in Threads, OpenAlready(t) \/ OpenLogFile(t) \/ OpenFails(t) PROVE Begun'
    BY <1>8 DEF OpenAlready, OpenLogFile, OpenFails, Initialized
  <1>9. ASSUME NEW t \in Threads, Write(t) PROVE Begun'
    BY <1>9 DEF Write
  <1>10. ASSUME NEW t \in Threads, UnlockLogging(t) PROVE Begun'
    BY <1>10 DEF UnlockLogging
  <1>11. CASE UNCHANGED vars
    BY <1>11 DEF vars
  <1> QED BY <1>1, <1>2, <1>3, <1>4, <1>5, <1>6, <1>7, <1>8, <1>9, <1>10, <1>11 DEF Next, Step

\* A message that is bound for a file keeps a file to go to.
LEMMA BoundStep == ASSUME LogInv, [Next]_vars PROVE Bound'
  <1> USE DEF LogInv, TypeOK, LockHeld, Bound, Goto, lockVars, fileVars, callVars, InitPcs, LockedPcs,
              Modes, InInitLogging, OneFile
  <1>1. CASE InitLogging
    BY <1>1 DEF InitLogging
  <1>2. ASSUME NEW t \in Threads, LogMessage(t) PROVE Bound'
    BY <1>2 DEF LogMessage
  <1>3. ASSUME NEW t \in Threads, SetMode(t) PROVE Bound'
    BY <1>3 DEF SetMode, Requested, AfterInit
  <1>4. ASSUME NEW t \in Threads, InitCheck(t) \/ MakeLock(t) \/ SetDone(t) PROVE Bound'
    BY <1>4 DEF InitCheck, MakeLock, SetDone, AfterInit
  <1>5. ASSUME NEW t \in Threads, ReadDestination(t) PROVE Bound'
    BY <1>5 DEF ReadDestination
  <1>6. ASSUME NEW t \in Threads, LockLogging(t) PROVE Bound'
    BY <1>6 DEF LockLogging
  <1>7. ASSUME NEW t \in Threads, Redirect(t) PROVE Bound'
    <2> SUFFICES ASSUME Second \subseteq [dest : FileDestinations, lock : Modes],
                        NEW u \in Threads, pc'[u] \in {"lock", "openFile", "write"},
                        ~InInitLogging(u)'
                 PROVE  dest' \in FileDestinations /\ pc'[u] # "write"
      BY <1>7 DEF Redirect, Begun
    <2>1. t = Main /\ redirecting /\ redirecting' /\ u # t
      BY <1>7 DEF Redirect, Begun
    <2>2. pc[u] = pc'[u] /\ sent[u] # 0
      BY <1>7, <2>1 DEF Redirect, Begun
    <2>3. option \in Second
      BY <2>1, <2>2 DEF Begun, Silent
    <2>4. dest' \in FileDestinations
      BY <1>7, <2>3 DEF Redirect
    <2>5. pc'[u] # "write"
      BY <1>7, <2>1, <2>2 DEF Redirect
    <2> QED BY <2>4, <2>5
  <1>8. ASSUME NEW t \in Threads, OpenAlready(t) \/ OpenLogFile(t) \/ OpenFails(t) PROVE Bound'
    BY <1>8 DEF OpenAlready, OpenLogFile, OpenFails, Initialized
  <1>9. ASSUME NEW t \in Threads, Write(t) PROVE Bound'
    BY <1>9 DEF Write
  <1>10. ASSUME NEW t \in Threads, UnlockLogging(t) PROVE Bound'
    BY <1>10 DEF UnlockLogging
  <1>11. CASE UNCHANGED vars
    BY <1>11 DEF vars
  <1> QED BY <1>1, <1>2, <1>3, <1>4, <1>5, <1>6, <1>7, <1>8, <1>9, <1>10, <1>11 DEF Next, Step

\* The invariant is inductive.
LEMMA LogStep == LogInv /\ [Next]_vars => LogInv'
  <1> SUFFICES ASSUME LogInv, [Next]_vars PROVE LogInv'
    OBVIOUS
  <1>1. TypeOK'
    BY TypeStep DEF LogInv
  <1> QED BY <1>1, HeldStep, FileStep, FirstStep, SettledStep, BegunStep, BoundStep DEF LogInv

\* Neither of the two places that can crash does, if the log stays in files.
LEMMA CrashStep ==
  ASSUME Second \subseteq [dest : FileDestinations, lock : Modes],
         LogInv, NothingCrashes, [Next]_vars
  PROVE  NothingCrashes'
  <1> USE DEF LogInv, TypeOK, NothingCrashes, Goto, AfterInit
  <1>1. CASE InitLogging
    BY <1>1 DEF InitLogging
  <1>2. ASSUME NEW t \in Threads, LogMessage(t) PROVE NothingCrashes'
    BY <1>2 DEF LogMessage
  <1>3. ASSUME NEW t \in Threads, InitCheck(t) \/ SetMode(t) \/ MakeLock(t) \/ SetDone(t)
        PROVE  NothingCrashes'
    BY <1>3 DEF InitCheck, SetMode, MakeLock, SetDone
  <1>4. ASSUME NEW t \in Threads, ReadDestination(t) PROVE NothingCrashes'
    BY <1>4 DEF ReadDestination
  <1>5. ASSUME NEW t \in Threads, LockLogging(t) PROVE NothingCrashes'
    <2>1. UsableLock
      BY <1>5 DEF LockLogging, Begun, Settled
    <2> QED BY <1>5, <2>1 DEF LockLogging
  <1>6. ASSUME NEW t \in Threads, Redirect(t) PROVE NothingCrashes'
    BY <1>6 DEF Redirect
  <1>7. ASSUME NEW t \in Threads, OpenAlready(t) \/ OpenLogFile(t) \/ OpenFails(t)
        PROVE  NothingCrashes'
    BY <1>7 DEF OpenAlready, OpenLogFile, OpenFails, Initialized
  <1>8. ASSUME NEW t \in Threads, Write(t) PROVE NothingCrashes'
    <2>1. file \in open
      BY <1>8 DEF Write, Bound, OneFile, Begun
    <2> QED BY <1>8, <2>1 DEF Write
  <1>9. ASSUME NEW t \in Threads, UnlockLogging(t) PROVE NothingCrashes'
    BY <1>9 DEF UnlockLogging
  <1>10. CASE UNCHANGED vars
    BY <1>10 DEF vars
  <1> QED BY <1>1, <1>2, <1>3, <1>4, <1>5, <1>6, <1>7, <1>8, <1>9, <1>10 DEF Next, Step

\* LogInv holds for any number of threads, messages and calls.
THEOREM LogInductive == Spec => []LogInv
  BY InitLog, LogStep, PTL DEF Spec

\* The log has one writer at a time, who releases what it has taken.
THEOREM LockExclusive == Spec => []LockHeld
  <1>1. LogInv => LockHeld
    BY DEF LogInv
  <1> QED BY <1>1, LogInductive, PTL

\* However often the log is redirected, no handle is leaked and none is used
\* after it was closed.
THEOREM NoHandleLeaks == Spec => []OneFile
  <1>1. LogInv => OneFile
    BY DEF LogInv
  <1> QED BY <1>1, LogInductive, PTL

\* Logging never goes through a null pointer as long as the log is only
\* redirected to files.
THEOREM LoggingSafe ==
  ASSUME Second \subseteq [dest : FileDestinations, lock : Modes]
  PROVE  Spec => []NothingCrashes
  <1>1. Init => NothingCrashes
    BY DEF Init, NothingCrashes
  <1>2. LogInv /\ NothingCrashes /\ [Next]_vars => NothingCrashes'
    BY CrashStep
  <1> QED BY <1>1, <1>2, LogInductive, PTL DEF Spec
=============================================================================
