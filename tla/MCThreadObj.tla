---------------------------- MODULE MCThreadObj ----------------------------
(* Instances of ThreadObj for TLC. *)
EXTENDS ThreadObj, TLC

CONSTANTS c1, c2, o1, o2, o3, w1, w2, w3

\* One thread owns every object (the demos).
OneOwner == [o \in Objs |-> c1]

\* Two threads, each with an object of its own; c1 also owns any other.
TwoOwners == [o \in Objs |-> IF o = o2 THEN c2 ELSE c1]

\* Worker threads are interchangeable.
WorkerSymmetry == Permutations(Workers)

=============================================================================
