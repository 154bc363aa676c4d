----------------------------- MODULE MakiService -----------------------------
(***************************************************************************)
(* The process of module Maki implements SnmpService.                       *)
(***************************************************************************)
EXTENDS MakiInv

Serving == {a \in Agents : Running(a)}

\* Agents with a thread, or being given up, or gone.
Spent ==
    {a \in Agents : pump[a] # "none" \/ obj[a] = "dead"
                    \/ (phase \in ClearPhases /\ self = a)}

Service == INSTANCE SnmpService WITH
    serving <- Serving,
    told    <- {a \in Serving : pipe[a] = "byte"},
    spent   <- Spent,
    library <- lib

\* Whatever fails or is interrupted in maki_t::run(), clear() and the pump
\* thread: agents serve one at a time and once, over a library that is up,
\* and one that has been sent the wake-up byte stops.
ImplementsService == Service!Spec
=============================================================================
