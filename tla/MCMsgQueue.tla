----------------------------- MODULE MCMsgQueue -----------------------------
(* Instances of MsgQueue for TLC. *)
EXTENDS MsgQueue, TLC

CONSTANTS t1, t2, q1, q2, b1, b2, f1, f2

\* Two threads, each with queues of its own.
TwoOwners == [o \in Queues |-> IF o = q2 THEN t2 ELSE t1]

\* Buffers and descriptors are interchangeable, and so are the two owners, each
\* with its queue.
SwapOwners == t1 :> t2 @@ t2 :> t1 @@ q1 :> q2 @@ q2 :> q1
Symmetry == Permutations(Bufs) \cup Permutations(Fds) \cup {SwapOwners}

=============================================================================
