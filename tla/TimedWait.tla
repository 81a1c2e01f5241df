----------------------------- MODULE TimedWait -----------------------------
(* What evt.c and wm_sem.c of src/project/ipc and utils/queue_r.hpp share: a *)
(* mutex, a condition variable, and waiters that block on it, some with an   *)
(* absolute deadline computed from a timeout in milliseconds.  The threads   *)
(* of a behaviour share one primitive of one kind.                           *)
(*                                                                           *)
(* A critical section that does not block is one step, taken when the mutex  *)
(* is free; the mutex is held between steps only by a thread that never      *)
(* gives it back.  Condition variables may wake a waiter for no reason.      *)
EXTENDS Integers, FiniteSets

CONSTANTS
    Waiters,    \* threads that wait
    Timed,      \* those of them that pass a timeout
    Now,        \* tv_nsec values the clock may show when a timed wait begins
    Timeouts,   \* timeouts in milliseconds
    None

Second == 1000000000    \* in nanoseconds

\* The values of tv_nsec that pthread_cond_timedwait() accepts.
Nsecs == 0..(Second - 1)

ASSUME TimedWaitAssumption ==
    /\ IsFiniteSet(Waiters) /\ Timed \subseteq Waiters
    /\ Now \subseteq Nsecs
    /\ Timeouts \subseteq Nat
    /\ None \notin Waiters

VARIABLES
    kind,       \* what they are: "sem", "evt", "rw" or "queue"; it never changes
    mutex,      \* the thread that keeps the mutex for ever, or None
    wpc         \* where each waiter is

waitVars == <<mutex, wpc>>

Kinds == {"sem", "evt", "rw", "queue"}

TimedWaitInit == kind \in Kinds /\ mutex = None /\ wpc = [w \in Waiters |-> "idle"]

WaitLabels == {"idle", "asleep", "woken", "timedout", "spin"}

Sleepers == {w \in Waiters : wpc[w] = "asleep"}

\* tp.tv_nsec of the deadline, with the comparison the code makes.
DeadlineNsec(now, ms) ==
    LET n == now + (ms % 1000) * 1000000
    IN  IF n > Second THEN n - Second ELSE n

\* pthread_cond_timedwait() refuses any other value with EINVAL, at once and
\* without giving up the mutex; the callers' loops then call it again.
IsNsec(n) == n \in Nsecs

\* The outcomes of calling pthread_cond_wait or pthread_cond_timedwait.
Block(w) ==
    \/ /\ w \notin Timed \/ \E now \in Now, ms \in Timeouts : IsNsec(DeadlineNsec(now, ms))
       /\ wpc' = [wpc EXCEPT ![w] = "asleep"]
       /\ UNCHANGED mutex
    \/ /\ w \in Timed /\ \E now \in Now, ms \in Timeouts : ~IsNsec(DeadlineNsec(now, ms))
       /\ wpc' = [wpc EXCEPT ![w] = "spin"]
       /\ mutex' = w

\* A waiter that was woken and sleeps again keeps the deadline it has.
BlockAgain(w) == wpc' = [wpc EXCEPT ![w] = "asleep"] /\ UNCHANGED mutex

Leave(w) == wpc' = [wpc EXCEPT ![w] = "idle"] /\ UNCHANGED mutex

Signal ==
    \/ Sleepers = {} /\ UNCHANGED wpc
    \/ \E w \in Sleepers : wpc' = [wpc EXCEPT ![w] = "woken"]

Broadcast == wpc' = [w \in Waiters |-> IF w \in Sleepers THEN "woken" ELSE wpc[w]]

SpuriousWakeup(w) == wpc[w] = "asleep" /\ wpc' = [wpc EXCEPT ![w] = "woken"]

DeadlinePasses(w) ==
    w \in Timed /\ wpc[w] = "asleep" /\ wpc' = [wpc EXCEPT ![w] = "timedout"]

\* What happens to a sleeper by nobody's doing.
Disturb(w) == (SpuriousWakeup(w) \/ DeadlinePasses(w)) /\ UNCHANGED mutex

=============================================================================
