------------------------------ MODULE CondVars ------------------------------
(* The four primitives that are built from a mutex and a condition variable. *)
EXTENDS WmSem, EvtMtx, EvtRw, QueueR

vars == <<kind, waitVars, semVars, evtVars, rwVars, data_queue>>

Init == SemInit /\ EvtInit /\ RwInit /\ QrInit

Sem(A) == kind = "sem" /\ A /\ UNCHANGED <<kind, evtVars, rwVars, data_queue>>
Evt(A) == kind = "evt" /\ A /\ UNCHANGED <<kind, semVars, rwVars, data_queue>>
Rw(A) == kind = "rw" /\ A /\ UNCHANGED <<kind, semVars, evtVars, data_queue>>
Qr(A) == kind = "queue" /\ A /\ UNCHANGED <<kind, semVars, evtVars, rwVars>>

Next == Sem(SemNext) \/ Evt(EvtNext) \/ Rw(RwNext) \/ Qr(QrNext)

GoesOn(w) ==
    \/ Sem(SemWakeUp(w)) \/ Evt(EvtWakeUp(w)) \/ Rw(RwWakeUp(w)) \/ Qr(QrWakeUp(w))

GivesUp(w) == Sem(SemTimedOut(w)) \/ Evt(EvtTimedOut(w)) \/ Rw(RwTimedOut(w))

\* A waiter that can go on does; deadlines are absolute, so they pass however
\* often the waiter is woken before.  Nobody has to post, signal or push.
Fairness ==
    \A w \in Waiters :
        /\ WF_vars(GoesOn(w)) /\ WF_vars(GivesUp(w))
        /\ SF_vars(/\ kind # "queue" /\ DeadlinePasses(w)
                   /\ UNCHANGED <<kind, mutex, semVars, evtVars, rwVars, data_queue>>)

SafetySpec == Init /\ [][Next]_vars
Spec == SafetySpec /\ Fairness

----------------------------------------------------------------------------
(* A wait with a timeout returns, whether or not anybody posts, signals or    *)
(* broadcasts and however often it is woken for nothing, unless somebody      *)
(* keeps the mutex for ever (evt.c:116-142, 267-293, wm_sem.c:128-154). *)
TimedWaitReturns ==
    \A w \in Timed : kind # "queue" /\ wpc[w] # "idle" ~> wpc[w] = "idle" \/ mutex # None

----------------------------------------------------------------------------
(* Inductive strengthening.                                                  *)

\* A deadline falls on a whole second: the one sum that the carry misses.
WholeSecond == \E now \in Now, ms \in Timeouts : now + (ms % 1000) * 1000000 = Second

\* A counter that wraps, begins below zero, or is given a negative s32Num.
BelowZero == PostLimit > IntMax \/ Num < 0 \/ \E n \in Batches : n < 0

(* A mutex that is not given back is kept by the post that left the counter   *)
(* negative, or by a waiter that asks again and again for a deadline on a     *)
(* whole second; nothing else keeps one                                       *)
(* (wm_sem.c:93, 109, 138, evt.c:126, 278). *)
MutexIsGivenBack ==
    mutex # None =>
        \/ kind = "sem" /\ mutex \in Posters /\ cnt < 0 /\ BelowZero
        \/ kind # "queue" /\ mutex \in Timed /\ wpc[mutex] = "spin" /\ WholeSecond

=============================================================================
