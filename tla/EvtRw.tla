------------------------------- MODULE EvtRw -------------------------------
(* The broadcast event of src/project/ipc/evt.c: a writer raises it for all  *)
(* readers that wait, and for the next one that polls.                       *)
EXTENDS TimedWait

CONSTANT Pollers    \* the readers that call evt_rd_wait(handle, 0)

ASSUME EvtRwAssumption == Pollers \cap Waiters = {} /\ None \notin Pollers

Readers == Waiters \cup Pollers
ETIMEDOUT == 110

VARIABLES
    s32Rd, s32Wr,
    rc,         \* what the last call of each reader returned
    due         \* history: who slept at a broadcast and has not returned since

rwVars == <<s32Rd, s32Wr, rc, due>>

RwInit == /\ TimedWaitInit
          /\ s32Rd = 0 /\ s32Wr = 0
          /\ rc = [r \in Readers |-> 0]
          /\ due = {}

\* Mutant: a broadcast that wakes the readers only when the flag is clear.
evt_wr_broadcast_First ==
    /\ mutex = None
    /\ s32Wr' = 1
    /\ IF s32Rd > 0 /\ s32Wr = 0 THEN Broadcast ELSE UNCHANGED wpc
    /\ due' = due \cup Sleepers
    /\ UNCHANGED <<mutex, s32Rd, rc>>

evt_wr_broadcast ==
    /\ mutex = None
    /\ s32Wr' = 1
    /\ IF s32Rd > 0 THEN Broadcast ELSE UNCHANGED wpc
    /\ due' = due \cup Sleepers
    /\ UNCHANGED <<mutex, s32Rd, rc>>

evt_rd_reset ==
    /\ mutex = None
    /\ s32Wr' = 0
    /\ UNCHANGED <<mutex, wpc, s32Rd, rc, due>>

\* evt_rd_wait(handle, 0): one flag serves all pollers.
RwPoll(r) ==
    /\ mutex = None
    /\ rc' = [rc EXCEPT ![r] = IF s32Wr = 1 THEN 0 ELSE -1]
    /\ s32Wr' = 0
    /\ UNCHANGED <<mutex, wpc, s32Rd, due>>

\* evt_rd_wait(handle, ms) and evt_rd_wait(handle, -1): s32Wr is not looked at.
evt_rd_wait(w) ==
    /\ wpc[w] = "idle" /\ mutex = None
    /\ s32Rd' = s32Rd + 1
    /\ Block(w)
    /\ UNCHANGED <<s32Wr, rc, due>>

RwReturn(w, result) ==
    /\ mutex = None
    /\ s32Rd' = s32Rd - 1
    /\ rc' = [rc EXCEPT ![w] = result]
    /\ due' = due \ {w}
    /\ Leave(w)
    /\ UNCHANGED s32Wr

RwWakeUp(w) == wpc[w] = "woken" /\ RwReturn(w, 0)

\* Mutant: a reader that is still counted when it has returned.
RwTimedOut_Counted(w) ==
    /\ wpc[w] = "timedout" /\ mutex = None
    /\ rc' = [rc EXCEPT ![w] = ETIMEDOUT]
    /\ due' = due \ {w}
    /\ Leave(w)
    /\ UNCHANGED <<s32Rd, s32Wr>>

RwTimedOut(w) == wpc[w] = "timedout" /\ RwReturn(w, ETIMEDOUT)

RwNext ==
    \/ evt_wr_broadcast \/ evt_rd_reset
    \/ \E r \in Pollers : RwPoll(r)
    \/ \E w \in Waiters : evt_rd_wait(w) \/ RwWakeUp(w) \/ RwTimedOut(w)
    \/ \E w \in Waiters : Disturb(w) /\ UNCHANGED rwVars

----------------------------------------------------------------------------
(* s32Rd counts the readers between going to sleep and returning, so that a   *)
(* broadcast, which looks at it first, never skips a reader that sleeps       *)
(* (evt.c:222-225, 263-265, 286-288). *)
ReadersCounted ==
    kind = "rw" => s32Rd = Cardinality({w \in Waiters : wpc[w] # "idle"})

(* Whoever sleeps when evt_wr_broadcast() is called has been woken by it, and  *)
(* returns 0, whether or not an earlier broadcast still stands in s32Wr, which *)
(* sleeping readers neither look at nor reset, and whatever pollers, timeouts  *)
(* and later readers do (evt.c:213-228, 260-290). *)
BroadcastReachesAll == kind = "rw" => \A w \in due : wpc[w] = "woken"

=============================================================================
