---------------------------- MODULE BoundedFifo ----------------------------
(* What a fifo between one writer and one reader promises: bytes leave in    *)
(* the order in which they came, and never more than Capacity are inside.    *)
(* The bytes of the stream are numbered modulo N, so that a lost, repeated   *)
(* or displaced byte shows.                                                  *)
EXTENDS Naturals, Sequences

CONSTANTS
    Capacity,   \* how many bytes fit
    N           \* bytes are numbered modulo N

VARIABLES
    queue,      \* the bytes inside
    next        \* the number of the next byte that goes in

Init == queue = <<>> /\ next = 0

\* The n bytes of the stream that follow number k.
Stream(k, n) == [j \in 1..n |-> (k + j - 1) % N]

Put(n) == /\ queue' = queue \o Stream(next, n)
          /\ next' = (next + n) % N

Get(n) == /\ queue' = SubSeq(queue, n + 1, Len(queue))
          /\ UNCHANGED next

Next == \/ \E n \in 0..(Capacity - Len(queue)) : Put(n)
        \/ \E n \in 0..Len(queue) : Get(n)

Spec == Init /\ [][Next]_<<queue, next>>

=============================================================================
