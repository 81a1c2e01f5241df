------------------------------- MODULE WmSem -------------------------------
(* The counting semaphore of src/project/ipc/wm_sem.c.                       *)
EXTENDS TimedWait

CONSTANTS
    Posters,    \* threads that post and broadcast
    Num,        \* s32Num of wm_sem_create()
    Batches,    \* the values of s32Num that wm_sem_broadcast() is called with
    IntMax,     \* the largest int: the counter wraps above it
    PostLimit   \* bound: nobody posts when that would take the counter above it

ASSUME WmSemAssumption ==
    /\ Posters \cap Waiters = {} /\ None \notin Posters
    /\ IntMax \in Nat \ {0} /\ Num \in (-IntMax - 1)..IntMax
    /\ PostLimit \in Nat
    /\ Batches \subseteq (-IntMax - 1)..IntMax

VARIABLES
    cnt,
    missed      \* history: the last post found a sleeper and cnt not zero

semVars == <<cnt, missed>>

SemInit == TimedWaitInit /\ cnt = Num /\ missed = FALSE

\* int arithmetic as the build does it: it wraps around.
Wrap(n) == IF n > IntMax THEN n - 2 * IntMax - 2
           ELSE IF n < -IntMax - 1 THEN n + 2 * IntMax + 2 ELSE n

\* A negative counter is reported by a return that leaves the mutex locked.
AddToCount(p, n) ==
    /\ cnt + n <= PostLimit
    /\ cnt' = Wrap(cnt + n)
    /\ missed' = (cnt # 0 /\ Sleepers # {})
    /\ mutex' = IF Wrap(cnt + n) < 0 THEN p ELSE None

\* wm_sem_post() signals only when the counter was zero.
wm_sem_post(p) ==
    /\ mutex = None
    /\ IF cnt = 0 THEN Signal ELSE UNCHANGED wpc
    /\ AddToCount(p, 1)

\* Mutant: a broadcast that wakes one waiter only.
wm_sem_broadcast_One(p, n) ==
    /\ mutex = None
    /\ IF cnt = 0 THEN Signal ELSE UNCHANGED wpc
    /\ AddToCount(p, n)

wm_sem_broadcast(p, n) ==
    /\ mutex = None
    /\ IF cnt = 0 THEN Broadcast ELSE UNCHANGED wpc
    /\ AddToCount(p, n)

SemTake(w) == cnt > 0 /\ cnt' = cnt - 1 /\ Leave(w) /\ UNCHANGED missed

wm_sem_wait(w) ==
    /\ wpc[w] = "idle" /\ mutex = None
    /\ \/ SemTake(w)
       \/ cnt <= 0 /\ Block(w) /\ UNCHANGED <<cnt, missed>>

\* Mutant: a waiter that does not look at the counter again.
SemWakeUp_NoLoop(w) ==
    /\ wpc[w] = "woken" /\ mutex = None
    /\ cnt' = cnt - 1 /\ Leave(w) /\ UNCHANGED missed

\* The loop looks at the counter again whenever the waiter has been woken ...
SemWakeUp(w) ==
    /\ wpc[w] = "woken" /\ mutex = None
    /\ \/ SemTake(w)
       \/ cnt <= 0 /\ BlockAgain(w) /\ UNCHANGED <<cnt, missed>>

\* It does not when its time is over.
SemTimedOut(w) ==
    /\ wpc[w] = "timedout" /\ mutex = None
    /\ Leave(w) /\ UNCHANGED <<cnt, missed>>

SemNext ==
    \/ \E p \in Posters : wm_sem_post(p)
    \/ \E p \in Posters, n \in Batches : wm_sem_broadcast(p, n)
    \/ \E w \in Waiters : wm_sem_wait(w) \/ SemWakeUp(w) \/ SemTimedOut(w)
    \/ \E w \in Waiters : Disturb(w) /\ UNCHANGED semVars

----------------------------------------------------------------------------
(* Waiters never take more than was posted: the counter stays at or above    *)
(* zero although several waiters are woken for one post, wake for no reason, *)
(* or arrive in between, unless it was created below zero and nobody has     *)
(* posted; a counter that wrapped, or that a negative s32Num made negative,   *)
(* is never seen by anybody, since the call that did it keeps the mutex      *)
(* (wm_sem.c:16, 92-93, 108-109, 123, 145, 156). *)
CountNotNegative == mutex = None => cnt >= 0 \/ cnt = Num

(* A waiter sleeps beside a counter above zero only while a woken one is on   *)
(* its way to it, or because the last post did not find the counter at zero   *)
(* and signalled nobody (wm_sem.c:88-92, 104-108, 123, 145). *)
StrandedOnlyIfMissed ==
    kind = "sem" /\ cnt > 0 /\ Sleepers # {} => missed \/ \E w \in Waiters : wpc[w] = "woken"

=============================================================================
