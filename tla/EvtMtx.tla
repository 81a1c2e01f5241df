------------------------------- MODULE EvtMtx -------------------------------
(* The auto-reset event of src/project/ipc/evt.c: evt_mtx_signal() sets it,  *)
(* one evt_mtx_wait() consumes it.                                           *)
EXTENDS TimedWait

VARIABLES
    state,      \* 0 or 1
    won         \* history: waits that returned 0 since the event was last set

evtVars == <<state, won>>

EvtInit == TimedWaitInit /\ state = 0 /\ won = 1

\* Mutant: an event that is set without waking anybody.
evt_mtx_signal_Silent ==
    /\ mutex = None /\ state = 0
    /\ state' = 1 /\ won' = 0
    /\ UNCHANGED <<mutex, wpc>>

evt_mtx_signal ==
    /\ mutex = None /\ state = 0
    /\ Signal
    /\ state' = 1 /\ won' = 0
    /\ UNCHANGED mutex

\* Mutant: a wait that does not consume the event.
EvtTake_Keep(w) == state = 1 /\ won' = won + 1 /\ Leave(w) /\ UNCHANGED state

EvtTake(w) == state = 1 /\ state' = 0 /\ won' = won + 1 /\ Leave(w)

evt_mtx_wait(w) ==
    /\ wpc[w] = "idle" /\ mutex = None
    /\ \/ EvtTake(w)
       \/ state # 1 /\ Block(w) /\ UNCHANGED <<state, won>>

EvtWakeUp(w) ==
    /\ wpc[w] = "woken" /\ mutex = None
    /\ \/ EvtTake(w)
       \/ state # 1 /\ BlockAgain(w) /\ UNCHANGED <<state, won>>

\* Mutant: a waiter that goes on waiting after ETIMEDOUT.
EvtTimedOut_Again(w) ==
    /\ wpc[w] = "timedout" /\ mutex = None
    /\ BlockAgain(w) /\ UNCHANGED <<state, won>>

EvtTimedOut(w) ==
    /\ wpc[w] = "timedout" /\ mutex = None
    /\ Leave(w) /\ UNCHANGED <<state, won>>

EvtNext ==
    \/ evt_mtx_signal
    \/ \E w \in Waiters : evt_mtx_wait(w) \/ EvtWakeUp(w) \/ EvtTimedOut(w)
    \/ \E w \in Waiters : Disturb(w) /\ UNCHANGED evtVars

----------------------------------------------------------------------------
(* An event releases one waiter: between two signals at most one wait returns *)
(* 0, and none while the event is set (evt.c:95-99, 113, 133, 144). *)
OneWinner == won <= 1 /\ (state = 1 <=> won = 0)

(* A set event is never left behind: either nobody sleeps, or somebody who    *)
(* was woken is on its way to look at it (evt.c:95-98, 113-114, 133-135). *)
NoLostEvent == state = 1 => Sleepers = {} \/ \E w \in Waiters : wpc[w] = "woken"

=============================================================================
