----------------------- MODULE MCThreadWithMsgQueue -----------------------
(* Instances of ThreadWithMsgQueue for TLC. *)
EXTENDS ThreadWithMsgQueue, TLC

CONSTANTS c1, c2, o1, w1, w2

\* One thread owns every object (the demos).
OneOwner == [o \in Objs |-> c1]

\* Worker threads are interchangeable.
WorkerSymmetry == Permutations(Workers)

=============================================================================
