----------------------------- MODULE InflightCap ----------------------------
(***************************************************************************)
(* InflightCap: the counting semaphore between the dispatch thread and the *)
(* output stage, with its mutex and its condition variable.  A thread      *)
(* blocks on the mutex while the other holds it, and in Condvar::wait      *)
(* until it is notified; a wait may also end for no reason, and however it *)
(* ends the mutex is taken again and the loop looks at the state again.    *)
(* The notifications come after the mutex is dropped.                      *)
(*                                                                         *)
(* One dispatcher calls acquire for every work item; one output stage      *)
(* calls release for every chunk that left, and shutdown once at the end.  *)
(***************************************************************************)
EXTENDS Naturals

CONSTANT Max       \* InflightState.max

ASSUME CapAssumption == Max \in Nat \ {0}

VARIABLES
    inFlight, shutdown,     \* InflightState, guarded by the mutex
    mutex,                  \* "free", "dispatch" or "output"
    asleep,                 \* the dispatcher waits and has not been notified
    dPc,                    \* "out", "lock", "check", "park", "wait", "has", "refused"
    oPc                     \* "out", "release", "notify", "shutdown", "notifyAll", "end"

capVars == <<inFlight, shutdown, mutex, asleep, dPc, oPc>>

CapInit ==
    /\ inFlight = 0 /\ shutdown = FALSE
    /\ mutex = "free" /\ asleep = FALSE
    /\ dPc = "out" /\ oPc = "out"

-----------------------------------------------------------------------------
(* InflightCap::acquire. *)

Call ==
    /\ dPc \in {"out", "has"} /\ dPc' = "lock"
    /\ UNCHANGED <<inFlight, shutdown, mutex, asleep, oPc>>

Lock ==
    /\ dPc = "lock" /\ dPc' = "check"
    /\ mutex = "free" /\ mutex' = "dispatch"
    /\ UNCHANGED <<inFlight, shutdown, asleep, oPc>>

\* acquire returns false.
SeeShutdown ==
    /\ dPc = "check" /\ shutdown
    /\ dPc' = "refused" /\ mutex' = "free"
    /\ UNCHANGED <<inFlight, shutdown, asleep, oPc>>

\* acquire returns true.
TakeSlot ==
    /\ dPc = "check" /\ ~shutdown /\ inFlight < Max
    /\ inFlight' = inFlight + 1
    /\ dPc' = "has" /\ mutex' = "free"
    /\ UNCHANGED <<shutdown, asleep, oPc>>

\* No slot: on to Condvar::wait, the mutex still held.
NoSlot ==
    /\ dPc = "check" /\ ~shutdown /\ inFlight >= Max
    /\ dPc' = "park"
    /\ UNCHANGED <<inFlight, shutdown, mutex, asleep, oPc>>

\* Condvar::wait drops the mutex and starts to wait in one step.
Wait ==
    /\ dPc = "park"
    /\ dPc' = "wait" /\ mutex' = "free" /\ asleep' = TRUE
    /\ UNCHANGED <<inFlight, shutdown, oPc>>

\* Faulty variant: whoever leaves the wait takes a slot without looking.
LeaveWaitTrusting ==
    /\ dPc = "wait" /\ mutex = "free"
    /\ inFlight' = inFlight + 1
    /\ dPc' = "has" /\ asleep' = FALSE
    /\ UNCHANGED <<shutdown, mutex, oPc>>

\* The wait ends; the mutex has to be taken again.
LeaveWait ==
    /\ dPc = "wait" /\ dPc' = "lock"
    /\ asleep' = FALSE
    /\ UNCHANGED <<inFlight, shutdown, mutex, oPc>>

-----------------------------------------------------------------------------
(* InflightCap::release, for a chunk that holds a slot. *)

\* Faulty variant: the counter is changed without the mutex.
BeginReleaseUnlocked ==
    /\ oPc = "out" /\ oPc' = "release" /\ inFlight > 0
    /\ UNCHANGED <<inFlight, shutdown, mutex, asleep, dPc>>

BeginRelease ==
    /\ oPc = "out" /\ oPc' = "release" /\ inFlight > 0
    /\ mutex = "free" /\ mutex' = "output"
    /\ UNCHANGED <<inFlight, shutdown, asleep, dPc>>

Decrement ==
    /\ oPc = "release" /\ oPc' = "notify"
    /\ inFlight' = IF inFlight > 0 THEN inFlight - 1 ELSE 0
    /\ mutex' = "free"
    /\ UNCHANGED <<shutdown, asleep, dPc>>

\* Faulty variant: the dispatcher is not notified.
NotifyNobody ==
    /\ oPc = "notify" /\ oPc' = "out"
    /\ UNCHANGED <<inFlight, shutdown, mutex, asleep, dPc>>

NotifyOne ==
    /\ oPc = "notify" /\ oPc' = "out"
    /\ asleep' = FALSE
    /\ UNCHANGED <<inFlight, shutdown, mutex, dPc>>

(* InflightCap::shutdown. *)

BeginShutdown ==
    /\ oPc = "out" /\ oPc' = "shutdown"
    /\ mutex = "free" /\ mutex' = "output"
    /\ UNCHANGED <<inFlight, shutdown, asleep, dPc>>

SetShutdown ==
    /\ oPc = "shutdown" /\ oPc' = "notifyAll"
    /\ shutdown' = TRUE
    /\ mutex' = "free"
    /\ UNCHANGED <<inFlight, asleep, dPc>>

NotifyAll ==
    /\ oPc = "notifyAll" /\ oPc' = "end"
    /\ asleep' = FALSE
    /\ UNCHANGED <<inFlight, shutdown, mutex, dPc>>

-----------------------------------------------------------------------------
Acquire == Lock \/ SeeShutdown \/ TakeSlot \/ NoSlot \/ Wait
Output == BeginRelease \/ Decrement \/ NotifyOne \/ BeginShutdown \/ SetShutdown \/ NotifyAll

\* The dispatcher was refused and the output stage has ended.
Done == dPc = "refused" /\ oPc = "end" /\ UNCHANGED capVars

CapNext == Call \/ Acquire \/ LeaveWait \/ Output \/ Done

\* A thread inside acquire, release or shutdown keeps running; a wait ends
\* for certain only if it was notified; and nobody has to call anything.
CapSpec ==
    /\ CapInit /\ [][CapNext]_capVars
    /\ WF_capVars(Acquire) /\ WF_capVars(LeaveWait /\ ~asleep)
    /\ WF_capVars(Decrement \/ NotifyOne \/ SetShutdown \/ NotifyAll)

-----------------------------------------------------------------------------
(* Properties. *)

\* The variables have their types; the count never passes Max.
CapTypeOK ==
    /\ inFlight \in 0 .. Max /\ shutdown \in BOOLEAN
    /\ mutex \in {"free", "dispatch", "output"} /\ asleep \in BOOLEAN
    /\ dPc \in {"out", "lock", "check", "park", "wait", "has", "refused"}
    /\ oPc \in {"out", "release", "notify", "shutdown", "notifyAll", "end"}

\* No wake-up is lost: a dispatcher asleep although a slot is free, or although
\* the cap was shut down, is about to be notified.
SleeperIsNotified ==
    asleep => \/ inFlight >= Max /\ ~shutdown
              \/ oPc = "notify"
              \/ oPc = "notifyAll"

\* With its mutex and condition variable, the cap is the atomic counter of
\* SlotCounter: the count never passes Max, spurious wake-ups change nothing,
\* and no dispatcher sleeps on a free slot or through the shutdown.
Counter == INSTANCE SlotCounter WITH
    asker <- IF dPc \in {"lock", "check", "park", "wait"} THEN "asking" ELSE dPc
IsAtomicCounter == Counter!Spec
=============================================================================
