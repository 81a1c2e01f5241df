------------------------------- MODULE QueueR -------------------------------
(* The blocking queue of src/project/utils/queue_r.hpp.  Its mutex is always *)
(* given back and its waits have no deadline; of the elements only their     *)
(* number matters here.                                                      *)
EXTENDS TimedWait

CONSTANT MaxQueued      \* bound: elements in the queue

VARIABLE data_queue     \* the number of elements in it

QrInit == TimedWaitInit /\ data_queue = 0

Woken == {w \in Waiters : wpc[w] = "woken"}

\* Mutant: a push that wakes somebody only when the queue was empty.
push_IfEmpty ==
    /\ mutex = None /\ data_queue < MaxQueued
    /\ data_queue' = data_queue + 1
    /\ IF data_queue = 0 THEN Signal ELSE UNCHANGED wpc
    /\ UNCHANGED mutex

push ==
    /\ mutex = None /\ data_queue < MaxQueued
    /\ data_queue' = data_queue + 1
    /\ Signal
    /\ UNCHANGED mutex

\* try_pop() of an empty queue changes nothing.
try_pop ==
    /\ mutex = None /\ data_queue > 0
    /\ data_queue' = data_queue - 1
    /\ UNCHANGED waitVars

QrTake(w) == data_queue > 0 /\ data_queue' = data_queue - 1 /\ Leave(w)

QrSleep(w) == data_queue = 0 /\ BlockAgain(w) /\ UNCHANGED data_queue

wait_pop(w) == wpc[w] = "idle" /\ mutex = None /\ (QrTake(w) \/ QrSleep(w))

\* The predicate of data_cond.wait() is evaluated again after every wakeup.
QrWakeUp(w) == wpc[w] = "woken" /\ mutex = None /\ (QrTake(w) \/ QrSleep(w))

QrNext ==
    \/ push \/ try_pop
    \/ \E w \in Waiters : wait_pop(w) \/ QrWakeUp(w)
    \/ \E w \in Waiters : SpuriousWakeup(w) /\ UNCHANGED <<mutex, data_queue>>

----------------------------------------------------------------------------
(* While anybody sleeps in wait_pop(), every element in the queue has a       *)
(* reader of its own on the way to it, although try_pop() and readers that    *)
(* have just arrived take elements meant for others (queue_r.hpp:30-69).      *)
NobodyStranded == Sleepers # {} => data_queue <= Cardinality(Woken)

=============================================================================
