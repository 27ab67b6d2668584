----------------------------- MODULE SlotCounter ----------------------------
(***************************************************************************)
(* What InflightCap promises its users: a counter of slots with atomic     *)
(* operations.  A dispatcher that asks obtains a slot as soon as one is    *)
(* free, and is refused after the shutdown.  Pipeline and Bgzf use the cap *)
(* through these operations.                                               *)
(***************************************************************************)
EXTENDS Naturals

CONSTANT Max       \* InflightState.max

VARIABLES
    inFlight,      \* InflightState.in_flight
    shutdown,      \* InflightState.shutdown
    asker          \* the dispatcher: "out", "asking", "has" a slot or "refused"

slotVars == <<inFlight, shutdown, asker>>

Init == inFlight = 0 /\ shutdown = FALSE /\ asker = "out"

Ask ==
    /\ asker \in {"out", "has"} /\ asker' = "asking"
    /\ UNCHANGED <<inFlight, shutdown>>

Take ==
    /\ asker = "asking" /\ ~shutdown /\ inFlight < Max
    /\ inFlight' = inFlight + 1
    /\ asker' = "has"
    /\ UNCHANGED shutdown

Refuse ==
    /\ asker = "asking" /\ shutdown
    /\ asker' = "refused"
    /\ UNCHANGED <<inFlight, shutdown>>

Release ==
    /\ inFlight > 0 /\ inFlight' = inFlight - 1
    /\ UNCHANGED <<shutdown, asker>>

Shutdown ==
    /\ ~shutdown /\ shutdown' = TRUE
    /\ UNCHANGED <<inFlight, asker>>

Next == Ask \/ Take \/ Refuse \/ Release \/ Shutdown

\* A free slot, and the shutdown, are noticed by a dispatcher that asks.
Spec == Init /\ [][Next]_slotVars /\ WF_slotVars(Take) /\ WF_slotVars(Refuse)
=============================================================================
