------------------------------- MODULE Singleton -------------------------------
(***************************************************************************)
(* Singleton<Type>::get() of src/src/chromium/memory/singleton.hh: threads  *)
(* race to create the one instance with a compare-and-swap, the losers spin *)
(* in WaitForInstance().  With the default traits the instance is on the    *)
(* heap; with StaticMemorySingletonTraits it is built once in a static      *)
(* buffer and, after OnExit(), again only when it was resurrected.          *)
(***************************************************************************)
EXTENDS Naturals

CONSTANTS Getters,   \* threads that call get()
          MaxGets,   \* bound on the calls of each thread
          MaxExits   \* bound on the calls of OnExit()

ASSUME SingletonAssumption == MaxGets \in Nat /\ MaxExits \in Nat

NULL == 0
BeingCreated == 1   \* kBeingCreatedMarker
Objects == 2..(2 + MaxExits)

VARIABLES
    traits,    \* "default" or "static"
    instance,  \* instance_
    dead,      \* StaticMemorySingletonTraits::dead_
    object,    \* each object: "none", "raw" while it is built, "built", "gone"
    getter,    \* each thread: where it is, the value it holds
    gets,      \* calls of each thread
    exits      \* calls of OnExit()

singletonVars == <<traits, instance, dead, object, getter, gets, exits>>

SingletonInit ==
    /\ traits \in {"default", "static"}
    /\ instance = NULL /\ dead = FALSE
    /\ object = [o \in Objects |-> "none"]
    /\ getter = [t \in Getters |-> [pc |-> "out", value |-> NULL]]
    /\ gets = [t \in Getters |-> 0]
    /\ exits = 0

Where(t) == getter[t].pc
Moves(t, place, v) == getter' = [getter EXCEPT ![t] = [pc |-> place, value |-> v]]

\* The first load: a finished instance is returned at once.
LoadInstance(t) ==
    /\ Where(t) = "out" /\ gets[t] < MaxGets
    /\ gets' = [gets EXCEPT ![t] = @ + 1]
    /\ IF instance \in {NULL, BeingCreated} THEN Moves(t, "swap", NULL) ELSE Moves(t, "use", instance)
    /\ UNCHANGED <<traits, instance, dead, object, exits>>

\* Acquire_CompareAndSwap(&instance_, 0, kBeingCreatedMarker).
CompareAndSwap(t) ==
    /\ Where(t) = "swap"
    /\ instance' = IF instance = NULL THEN BeingCreated ELSE instance
    /\ Moves(t, IF instance = NULL THEN "new" ELSE "wait", NULL)
    /\ UNCHANGED <<traits, dead, object, gets, exits>>

\* Traits::New(): a dead static instance is not revived.
New(t) ==
    /\ Where(t) = "new"
    /\ dead' = (traits = "static" \/ dead)
    /\ \/ traits = "static" /\ dead /\ Moves(t, "publish", NULL) /\ UNCHANGED object
       \/ /\ ~(traits = "static" /\ dead)
          /\ \E o \in Objects :
               object[o] = "none" /\ Moves(t, "build", o) /\ object' = [object EXCEPT ![o] = "raw"]
    /\ UNCHANGED <<traits, instance, gets, exits>>

\* The constructor of Type returns.
Build(t) ==
    /\ Where(t) = "build"
    /\ object' = [object EXCEPT ![getter[t].value] = "built"]
    /\ Moves(t, "publish", getter[t].value)
    /\ UNCHANGED <<traits, instance, dead, gets, exits>>

\* Fault: the marker stays.
PublishNothing(t) ==
    /\ Where(t) = "publish"
    /\ Moves(t, "use", getter[t].value)
    /\ UNCHANGED <<traits, instance, dead, object, gets, exits>>

\* Release_Store(&instance_, newval).
Publish(t) ==
    /\ Where(t) = "publish"
    /\ instance' = getter[t].value
    /\ Moves(t, "use", getter[t].value)
    /\ UNCHANGED <<traits, dead, object, gets, exits>>

\* Fault: a loser does not wait.
TakeInstance(t) ==
    /\ Where(t) = "wait"
    /\ Moves(t, "use", instance)
    /\ UNCHANGED <<traits, instance, dead, object, gets, exits>>

\* WaitForInstance() spins while the marker is there.
WaitForInstance(t) ==
    /\ Where(t) = "wait" /\ instance # BeingCreated
    /\ Moves(t, "use", instance)
    /\ UNCHANGED <<traits, instance, dead, object, gets, exits>>

\* The caller is done with the instance.
Use(t) ==
    /\ Where(t) = "use"
    /\ Moves(t, "out", NULL)
    /\ UNCHANGED <<traits, instance, dead, object, gets, exits>>

\* OnExit(), "called single threaded" and after the instance was created.
OnExit ==
    /\ exits < MaxExits /\ instance # NULL /\ \A t \in Getters : Where(t) = "out"
    /\ exits' = exits + 1
    /\ dead' = (traits = "static" \/ dead)
    /\ object' = [object EXCEPT ![instance] = "gone"]
    /\ instance' = NULL
    /\ UNCHANGED <<traits, getter, gets>>

\* Resurrect(), for a static instance that OnExit() destroyed.
Resurrect ==
    /\ traits = "static" /\ dead /\ instance = NULL /\ \A t \in Getters : Where(t) = "out"
    /\ dead' = FALSE
    /\ UNCHANGED <<traits, instance, object, getter, gets, exits>>

GetStep(t) ==
    \/ CompareAndSwap(t) \/ New(t) \/ Build(t) \/ Publish(t)
    \/ WaitForInstance(t) \/ Use(t)

SingletonNext == (\E t \in Getters : LoadInstance(t) \/ GetStep(t)) \/ OnExit \/ Resurrect

\* A thread inside get() is scheduled again and again.
SingletonFairness == \A t \in Getters : WF_singletonVars(GetStep(t))
SingletonSpec == SingletonInit /\ [][SingletonNext]_singletonVars /\ SingletonFairness

----------------------------------------------------------------------------

\* "Return a pointer to the one true instance of the class" (singleton.hh:228):
\* no two live instances, and what get() returns is that instance, finished,
\* or NULL for a static one that is dead; never the marker, never one that is
\* still being built by the thread that won the race.
OneInstance ==
    /\ \A o, p \in Objects : {object[o], object[p]} \subseteq {"raw", "built"} => o = p
    /\ \A t \in Getters : Where(t) = "use" =>
         \/ getter[t].value \in Objects /\ object[getter[t].value] = "built"
         \/ getter[t].value = NULL /\ traits = "static" /\ dead

\* Every get() returns: a loser of the race does not spin forever.
GetReturns == \A t \in Getters : Where(t) # "out" ~> Where(t) = "out"
=============================================================================
