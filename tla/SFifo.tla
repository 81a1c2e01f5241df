------------------------------- MODULE SFifo -------------------------------
(* The ring buffer of src/project/utils/sfifo.{c,h} between one thread that  *)
(* calls sfifo_put() and one that calls sfifo_get(), without a lock.         *)
(*                                                                           *)
(* The indices only grow, modulo 2^32 in the code and modulo Word here; the  *)
(* macro min() evaluates its second argument again when it is the smaller    *)
(* one, and the other thread may have moved its index in between.  Each      *)
(* memcpy() is one step.  The bytes of the stream are numbered modulo N; a   *)
(* put that is made longer than was asked reads past its caller's buffer,    *)
(* and what it finds there counts as the next bytes of the stream; a get that *)
(* is made longer writes past its caller's, which is taken not to disturb the *)
(* fifo itself.                                                              *)
(*                                                                           *)
(* Steps take effect in program order, as on x86-64, where the barriers are  *)
(* fences (sfifo.h:20-23).  On ARM mb() is an isb (sfifo.h:17), which does   *)
(* not order the memcpy() of sfifo_get() before the new out, and elsewhere   *)
(* the barriers only bind the compiler: that is not covered.                 *)
EXTENDS Naturals, Sequences

CONSTANTS
    Size,       \* size of the buffer, a power of two
    Word,       \* the number of values of an index
    Asks,       \* the values of len that put and get are called with
    N           \* bytes are numbered modulo N

ASSUME SFifoAssumption ==
    /\ Size \in Nat \ {0} /\ \E k \in 0..Size : Size = 2^k
    /\ Word \in Nat /\ Word % Size = 0 /\ Word > Size
    /\ Asks \subseteq Nat \ {0}
    /\ N \in Nat /\ N > Size

VARIABLES
    in, out,    \* the indices
    buffer,
    wpc, wask, wlen,    \* sfifo_put(): where it is, len as asked and as cut
    rpc, rask, rlen,    \* sfifo_get()
    taken,      \* what sfifo_get() has copied so far
    putNo,      \* history: the number of the next byte to put
    getNo       \* history: the number of the next byte to get

vars == <<in, out, buffer, wpc, wask, wlen, rpc, rask, rlen, taken, putNo, getNo>>
writerVars == <<in, buffer, wpc, wask, wlen, putNo>>
readerVars == <<out, rpc, rask, rlen, taken, getNo>>

Labels == {"idle", "again", "copy", "wrap", "publish"}
Cells == 0..(Size - 1)

Used == (in + Word - out) % Word            \* in - out

\* Mutant: a byte too many.
Free_OneMore == (Size + 1 + Word - in + out) % Word

Free == (Size + Word - in + out) % Word     \* size - in + out
Least(a, b) == IF a < b THEN a ELSE b

\* The bytes up to the end of the buffer, and the rest from its beginning.
UpToEnd(index, len) == Least(len, Size - (index % Size))

Init == /\ in = 0 /\ out = 0
        /\ buffer = [i \in Cells |-> 0]
        /\ wpc = "idle" /\ wask = 0 /\ wlen = 0
        /\ rpc = "idle" /\ rask = 0 /\ rlen = 0
        /\ taken = <<>>
        /\ putNo = 0 /\ getNo = 0

----------------------------------------------------------------------------
(* sfifo_put                                                                 *)
sfifo_put(len) ==
    /\ wpc = "idle"
    /\ wask' = len
    /\ IF len < Free THEN wlen' = len /\ wpc' = "copy"
                     ELSE wpc' = "again" /\ UNCHANGED wlen
    /\ UNCHANGED <<in, buffer, putNo, readerVars>>

PutFreeAgain ==
    /\ wpc = "again"
    /\ wlen' = Free
    /\ wpc' = "copy"
    /\ UNCHANGED <<in, buffer, wask, putNo, readerVars>>

\* n bytes of the stream, from number k on, go to the cells from i on.
Store(i, n, k) ==
    buffer' = [c \in Cells |-> IF c \in i..(i + n - 1) THEN (k + c - i) % N ELSE buffer[c]]

PutCopy ==
    /\ wpc = "copy"
    /\ Store(in % Size, UpToEnd(in, wlen), putNo)
    /\ wpc' = "wrap"
    /\ UNCHANGED <<in, wask, wlen, putNo, readerVars>>

\* Mutant: no second memcpy().
PutWrap_Skip ==
    /\ wpc = "wrap"
    /\ wpc' = "publish"
    /\ UNCHANGED <<in, buffer, wask, wlen, putNo, readerVars>>

PutWrap ==
    /\ wpc = "wrap"
    /\ Store(0, wlen - UpToEnd(in, wlen), putNo + UpToEnd(in, wlen))
    /\ wpc' = "publish"
    /\ UNCHANGED <<in, wask, wlen, putNo, readerVars>>

PutPublish ==
    /\ wpc = "publish"
    /\ in' = (in + wlen) % Word
    /\ putNo' = (putNo + wlen) % N
    /\ wpc' = "idle" /\ wask' = 0 /\ wlen' = 0
    /\ UNCHANGED <<buffer, readerVars>>

----------------------------------------------------------------------------
(* sfifo_get                                                                 *)
sfifo_get(len) ==
    /\ rpc = "idle"
    /\ rask' = len
    /\ IF len < Used THEN rlen' = len /\ rpc' = "copy"
                     ELSE rpc' = "again" /\ UNCHANGED rlen
    /\ UNCHANGED <<out, taken, getNo, writerVars>>

GetUsedAgain ==
    /\ rpc = "again"
    /\ rlen' = Used
    /\ rpc' = "copy"
    /\ UNCHANGED <<out, rask, taken, getNo, writerVars>>

Load(i, n) == taken' = taken \o [j \in 1..n |-> buffer[i + j - 1]]

GetCopy ==
    /\ rpc = "copy"
    /\ Load(out % Size, UpToEnd(out, rlen))
    /\ rpc' = "wrap"
    /\ UNCHANGED <<out, rask, rlen, getNo, writerVars>>

GetWrap ==
    /\ rpc = "wrap"
    /\ Load(0, rlen - UpToEnd(out, rlen))
    /\ rpc' = "publish"
    /\ UNCHANGED <<out, rask, rlen, getNo, writerVars>>

GetPublish ==
    /\ rpc = "publish"
    /\ out' = (out + rlen) % Word
    /\ getNo' = (getNo + rlen) % N
    /\ taken' = <<>>
    /\ rpc' = "idle" /\ rask' = 0 /\ rlen' = 0
    /\ UNCHANGED writerVars

----------------------------------------------------------------------------
Writer == \/ \E len \in Asks : sfifo_put(len)
          \/ PutFreeAgain \/ PutCopy \/ PutWrap \/ PutPublish

Reader == \/ \E len \in Asks : sfifo_get(len)
          \/ GetUsedAgain \/ GetCopy \/ GetWrap \/ GetPublish

Next == Writer \/ Reader

Spec == Init /\ [][Next]_vars

----------------------------------------------------------------------------
(* Properties                                                                *)

(* What sfifo_get() hands over are the next bytes of the stream, in order,   *)
(* although the writer fills other cells of the buffer at the same time and  *)
(* both indices wrap (sfifo.c:76-88). *)
InOrder ==
    rpc = "publish" => taken = [j \in 1..rlen |-> (getNo + j - 1) % N]

(* "only two thread: one write, one read can safe" (sfifo.h:4): neither side *)
(* transfers more bytes than its caller's buffer has.                        *)
WithinRequest ==
    /\ wpc \in {"copy", "wrap", "publish"} => wlen <= wask
    /\ rpc \in {"copy", "wrap", "publish"} => rlen <= rask

\* The bytes between the indices.
Fifo == INSTANCE BoundedFifo WITH
    Capacity <- Size,
    queue <- [j \in 1..Used |-> buffer[(out + j - 1) % Size]],
    next <- putNo

(* With one writer and one reader, at any of their interleavings, the buffer *)
(* is a bounded fifo: every put appends at `in += len`, every get removes at *)
(* `out += len`, and nothing else changes what is inside (sfifo.c:53-89).    *)
IsBoundedFifo == Fifo!Spec

----------------------------------------------------------------------------
(* Inductive strengthenings.                                                 *)

FifoTypeOK ==
    /\ in \in 0..(Word - 1) /\ out \in 0..(Word - 1)
    /\ buffer \in [Cells -> 0..(N - 1)]
    /\ wpc \in Labels /\ wlen \in Nat
    /\ rpc \in Labels /\ rlen \in Nat
    /\ putNo \in 0..(N - 1) /\ getNo \in 0..(N - 1)

\* The n cells from an index on hold the bytes from number k on.
Filled(index, n, k) == \A j \in 0..(n - 1) : buffer[(index + j) % Size] = (k + j) % N

SpaceInv ==
    /\ Used <= Size
    /\ putNo = (getNo + Used) % N
    /\ Filled(out, Used, getNo)

\* What the writer has copied lies in the free cells, of which there are enough.
WriterInv ==
    /\ wpc \in {"copy", "wrap", "publish"} => wlen <= Size - Used
    /\ wpc = "wrap" => Filled(in, UpToEnd(in, wlen), putNo)
    /\ wpc = "publish" => Filled(in, wlen, putNo)

\* The bytes the reader has copied.
Got == IF rpc = "wrap" THEN UpToEnd(out, rlen) ELSE IF rpc = "publish" THEN rlen ELSE 0

ReaderInv ==
    /\ rpc \in {"copy", "wrap", "publish"} => rlen <= Used
    /\ taken \in Seq(0..(N - 1)) /\ Len(taken) = Got
    /\ \A j \in 1..Got : taken[j] = (getNo + j - 1) % N

=============================================================================
