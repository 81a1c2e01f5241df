------------------------------ MODULE MsgQueue ------------------------------
(* The POSIX message queue wrapper of src/project/basic/MsgQueue.{h,cpp} and *)
(* the ownership of the heap buffers that Mesg.{h,cpp} sends through it.     *)
(*                                                                           *)
(* A queue object keeps its descriptor in m_msgQueueFd, the class keeps the  *)
(* registry gMap from descriptors to objects.  Descriptors are reused by the *)
(* kernel.  A message is the buffer it owns: it belongs to the sender until  *)
(* mq_send() succeeds, then to the queue, then to the reader, who frees it.  *)
(* Order and content of messages play no role here.                          *)
EXTENDS Naturals, FiniteSets

CONSTANTS
    Queues,     \* the MsgQueue instances
    Threads,    \* the threads that use them
    Owner,      \* Owner[o]: the thread that opens, closes and deletes o
    Fds,        \* descriptors the kernel hands out
    Bufs,       \* bound: heap buffers alive at one time
    QSize,      \* maxmsg of Open()
    MaxSends,   \* bound: messages sent in a behaviour
    None

ASSUME MsgQueueAssumption ==
    /\ Owner \in [Queues -> Threads] /\ IsFiniteSet(Threads)
    /\ QSize \in Nat \ {0} /\ MaxSends \in Nat
    /\ Queues \cap Fds = {} /\ None \notin Queues \cup Threads \cup Fds \cup Bufs

VARIABLES
    polite,     \* what the clients are like; it never changes.  TRUE: nobody sends
                \* to a queue while its owner closes it, owners leave Close() and
                \* Unlink() to the destructor and open a queue once
    fd,         \* m_msgQueueFd; it keeps its value after Close()
    opened,     \* m_msgQueueName is not empty: Open() was called
    gone,       \* the objects that were deleted
    table,      \* kernel: the queue behind each open descriptor
    kq,         \* kernel: the buffers in each queue, o the one with the name of o,
                \* f the one behind descriptor f that has lost its name
    gMap,       \* the registry
    buf,        \* where each buffer is
    pc,         \* where each thread is,
    loc,        \* ... with its queue, descriptor, buffer, gMap entry, counter
    cnt,        \* m_sendMsgCnt
    gSend,      \* gSendMsgCnt
    sent,       \* history: messages accepted by each queue since Open()
    total,      \* history: messages accepted by all queues
    fault       \* "none" or "use_after_free"

vars == <<polite, fd, opened, gone, table, kq, gMap, buf, pc, loc, cnt, gSend, sent, total, fault>>

objVars == <<polite, fd, opened, gone>>
kernelVars == <<table, kq>>
countVars == <<cnt, gSend, sent, total>>

CloseLabels == {"open_add", "clear", "close", "close_del", "unlink"}
SendLabels == {"lookup", "mq_send", "g_read", "g_write", "p_read", "p_write"}
Labels == {"idle", "refused"} \cup CloseLabels \cup SendLabels

Call(o, f, b, goal) == [q |-> o, fd |-> f, buf |-> b, ptr |-> None, tmp |-> 0, goal |-> goal]
NoCall == Call(None, None, None, "none")

Idle(t) == fault = "none" /\ pc[t] = "idle"
At(t, label) == fault = "none" /\ pc[t] = label
Go(t, label) == pc' = [pc EXCEPT ![t] = label]
Finish(t) == Go(t, "idle") /\ loc' = [loc EXCEPT ![t] = NoCall]
Fail == /\ fault' = "use_after_free"
        /\ UNCHANGED <<objVars, kernelVars, gMap, buf, pc, loc, countVars>>

KQueues == Queues \cup Fds

\* Threads inside a call on queue o.
Busy(o, labels) == \E t \in Threads : loc[t].q = o /\ pc[t] \in labels

Init == /\ polite \in BOOLEAN
        /\ fd = [o \in Queues |-> None]
        /\ opened = [o \in Queues |-> FALSE]
        /\ gone = {}
        /\ table = [f \in Fds |-> None]
        /\ kq = [k \in KQueues |-> {}]
        /\ gMap = [f \in Fds |-> None]
        /\ buf = [b \in Bufs |-> "free"]
        /\ pc = [t \in Threads |-> "idle"]
        /\ loc = [t \in Threads |-> NoCall]
        /\ cnt = [o \in Queues |-> 0]
        /\ gSend = 0
        /\ sent = [k \in KQueues |-> 0]
        /\ total = 0
        /\ fault = "none"

\* A message leaves kernel queue k and is freed.
Take(k, b) == /\ b \in kq[k]
              /\ kq' = [kq EXCEPT ![k] = @ \ {b}]
              /\ buf' = [buf EXCEPT ![b] = "free"]

MoveBufs(bs, place) == [b \in Bufs |-> IF b \in bs THEN place ELSE buf[b]]

----------------------------------------------------------------------------
(* Open, Close, Unlink and the destructor.                                   *)
IsOpen(o) == \E f \in Fds : table[f] = o

\* Open() unlinks what the name still refers to.  The messages in it are lost, or,
\* when o is open already, the queue stays behind the old descriptor, which nobody
\* closes any more (nothing else is in the queue named g: it was not in use).
Open(t, o, f) ==
    /\ Idle(t) /\ Owner[o] = t /\ o \notin gone
    /\ polite => ~IsOpen(o)
    /\ table[f] = None
    /\ fd' = [fd EXCEPT ![o] = f]
    /\ opened' = [opened EXCEPT ![o] = TRUE]
    /\ \/ /\ ~IsOpen(o)
          /\ table' = [table EXCEPT ![f] = o]
          /\ kq' = [kq EXCEPT ![o] = {}]
          /\ buf' = MoveBufs(kq[o], "lost")
       \/ \E g \in Fds :
             /\ table[g] = o
             /\ table' = [table EXCEPT ![g] = g, ![f] = o]
             /\ kq' = [kq EXCEPT ![g] = @ \cup kq[o], ![o] = {}]
             /\ UNCHANGED buf
    /\ cnt' = [cnt EXCEPT ![o] = 0]
    /\ sent' = [sent EXCEPT ![o] = 0]
    /\ Go(t, "open_add")
    /\ loc' = [loc EXCEPT ![t] = Call(o, f, None, "none")]
    /\ UNCHANGED <<polite, gone, gMap, gSend, total, fault>>

AddMsgQueue(t) ==
    /\ At(t, "open_add")
    /\ gMap' = [gMap EXCEPT ![loc[t].fd] = loc[t].q]
    /\ Finish(t)
    /\ UNCHANGED <<objVars, kernelVars, buf, countVars, fault>>

\* goal: "close" for Close(), "unlink" for Unlink(), "delete" for ~MsgQueue().
BeginClose(t, o, goal) ==
    /\ Idle(t) /\ Owner[o] = t /\ o \notin gone
    /\ polite => goal = "delete"
    /\ polite => ~Busy(o, SendLabels)
    /\ fd[o] # None
    /\ Go(t, IF goal = "close" THEN "close" ELSE "clear")
    /\ loc' = [loc EXCEPT ![t] = Call(o, fd[o], None, goal)]
    /\ UNCHANGED <<objVars, kernelVars, gMap, buf, countVars, fault>>

\* Deleting a queue that was never opened does nothing else.
DeleteUnopened(t, o) ==
    /\ Idle(t) /\ Owner[o] = t /\ o \notin gone /\ ~opened[o]
    /\ gone' = gone \cup {o}
    /\ UNCHANGED <<polite, fd, opened, kernelVars, gMap, buf, pc, loc, countVars, fault>>

\* Mutant: Clear that drains nothing.
Clear_Skip(t) ==
    /\ At(t, "clear")
    /\ Go(t, "close")
    /\ UNCHANGED <<objVars, kernelVars, gMap, buf, loc, countVars, fault>>

\* DumpMsgQueue takes one message after the other, from whatever queue the
\* descriptor refers to, until mq_receive() fails.
Clear(t) ==
    /\ At(t, "clear")
    /\ LET k == table[loc[t].fd]
       IN  \/ k # None /\ (\E b \in Bufs : Take(k, b)) /\ UNCHANGED pc
           \/ k \in {None} \cup {j \in KQueues : kq[j] = {}} /\ Go(t, "close") /\ UNCHANGED <<kq, buf>>
    /\ UNCHANGED <<objVars, table, gMap, loc, countVars, fault>>

\* mq_close() of a descriptor that is not open fails, and DelMsgQueue is skipped.
\* A queue without a name goes with its descriptor.
Close(t) ==
    /\ At(t, "close")
    /\ table' = [table EXCEPT ![loc[t].fd] = None]
    /\ IF table[loc[t].fd] = loc[t].fd
       THEN buf' = MoveBufs(kq[loc[t].fd], "lost") /\ kq' = [kq EXCEPT ![loc[t].fd] = {}]
       ELSE UNCHANGED <<buf, kq>>
    /\ IF table[loc[t].fd] # None
       THEN Go(t, "close_del") /\ UNCHANGED loc
       ELSE IF loc[t].goal = "close" THEN Finish(t) ELSE Go(t, "unlink") /\ UNCHANGED loc
    /\ UNCHANGED <<objVars, gMap, countVars, fault>>

\* Mutants: DelMsgQueue that leaves the entry, and a destructor that closes the
\* descriptor once more afterwards.
DelMsgQueue_Keep(t) ==
    /\ At(t, "close_del")
    /\ IF loc[t].goal = "close" THEN Finish(t) ELSE Go(t, "unlink") /\ UNCHANGED loc
    /\ UNCHANGED <<objVars, kernelVars, gMap, buf, countVars, fault>>

DelMsgQueue_CloseAgain(t) ==
    /\ At(t, "close_del")
    /\ gMap' = [gMap EXCEPT ![loc[t].fd] = None]
    /\ Go(t, "close")
    /\ UNCHANGED <<objVars, kernelVars, buf, loc, countVars, fault>>

DelMsgQueue(t) ==
    /\ At(t, "close_del")
    /\ gMap' = [gMap EXCEPT ![loc[t].fd] = None]
    /\ IF loc[t].goal = "close" THEN Finish(t) ELSE Go(t, "unlink") /\ UNCHANGED loc
    /\ UNCHANGED <<objVars, kernelVars, buf, countVars, fault>>

\* mq_unlink() drops the queue unless a descriptor still refers to it.
Unlink(t) ==
    /\ At(t, "unlink")
    /\ LET o == loc[t].q
       IN  /\ IF IsOpen(o) THEN UNCHANGED <<buf, kq>>
                           ELSE buf' = MoveBufs(kq[o], "lost") /\ kq' = [kq EXCEPT ![o] = {}]
           /\ gone' = IF loc[t].goal = "delete" THEN gone \cup {o} ELSE gone
    /\ Finish(t)
    /\ UNCHANGED <<polite, fd, opened, table, gMap, countVars, fault>>

----------------------------------------------------------------------------
(* Send: the descriptor is read from the object, then used on its own.       *)
BeginSend(t, o, b) ==
    /\ Idle(t) /\ o \notin gone /\ fd[o] # None
    /\ polite => IsOpen(o) /\ ~Busy(o, CloseLabels)
    /\ buf[b] = "free" /\ total + Cardinality({u \in Threads : pc[u] \in SendLabels}) < MaxSends
    /\ buf' = [buf EXCEPT ![b] = "sender"]
    /\ loc' = [loc EXCEPT ![t] = Call(o, fd[o], b, "none")]
    /\ Go(t, "lookup")
    /\ UNCHANGED <<objVars, kernelVars, gMap, countVars, fault>>

MsgQueuePtr(t) ==
    /\ At(t, "lookup")
    /\ loc' = [loc EXCEPT ![t].ptr = gMap[loc[t].fd]]
    /\ Go(t, "mq_send")
    /\ UNCHANGED <<objVars, kernelVars, gMap, buf, countVars, fault>>

\* Mutant: a Free() that leaves the pointer in the message.
MqSend_KeepPointer(t) ==
    /\ At(t, "mq_send")
    /\ LET k == table[loc[t].fd]
           b == loc[t].buf
           accepted == k # None /\ Cardinality(kq[k]) < QSize
       IN  \/ /\ accepted
              /\ kq' = [kq EXCEPT ![k] = @ \cup {b}]
              /\ buf' = [buf EXCEPT ![b] = "queued"]
              /\ sent' = [sent EXCEPT ![k] = @ + 1]
              /\ total' = total + 1
              /\ Go(t, "g_read")
           \/ /\ ~accepted /\ loc[t].ptr \notin gone
              /\ buf' = [buf EXCEPT ![b] = "free"]
              /\ Go(t, "refused")
              /\ UNCHANGED <<kq, sent, total>>
    /\ UNCHANGED <<loc, fault, gMap, table, cnt, gSend, objVars>>

\* Mutant: a send that is counted although it was refused.
MqSend_CountRefused(t) ==
    /\ At(t, "mq_send")
    /\ LET k == table[loc[t].fd]
           b == loc[t].buf
           accepted == k # None /\ Cardinality(kq[k]) < QSize
       IN  \/ /\ accepted
              /\ kq' = [kq EXCEPT ![k] = @ \cup {b}]
              /\ buf' = [buf EXCEPT ![b] = "queued"]
              /\ sent' = [sent EXCEPT ![k] = @ + 1]
              /\ total' = total + 1
           \/ /\ ~accepted
              /\ buf' = [buf EXCEPT ![b] = "free"]
              /\ UNCHANGED <<kq, sent, total>>
    /\ Go(t, "g_read")
    /\ UNCHANGED <<loc, fault, gMap, table, cnt, gSend, objVars>>

MqSend(t) ==
    /\ At(t, "mq_send")
    /\ LET k == table[loc[t].fd]
           b == loc[t].buf
           accepted == k # None /\ Cardinality(kq[k]) < QSize
       IN  \/ /\ accepted
              /\ kq' = [kq EXCEPT ![k] = @ \cup {b}]
              /\ buf' = [buf EXCEPT ![b] = "queued"]
              /\ sent' = [sent EXCEPT ![k] = @ + 1]
              /\ total' = total + 1
              /\ Go(t, "g_read")
              /\ UNCHANGED <<loc, fault, gMap, table, cnt, gSend, objVars>>
           \/ /\ ~accepted /\ loc[t].ptr \notin gone
              /\ buf' = [buf EXCEPT ![b] = "free"]
              /\ loc' = [loc EXCEPT ![t].buf = None]
              /\ Go(t, "refused")
              /\ UNCHANGED <<objVars, kernelVars, gMap, countVars, fault>>
           \/ ~accepted /\ loc[t].ptr \in gone /\ Fail

\* Mesg::SendMsg() frees the refused message again; the first Free() has cleared
\* its pointer.
FreeRefused(t) ==
    /\ At(t, "refused")
    /\ buf' = MoveBufs({loc[t].buf}, "free")
    /\ Finish(t)
    /\ UNCHANGED <<objVars, kernelVars, gMap, countVars, fault>>

\* gSendMsgCnt++ and p->m_sendMsgCnt++ are a read and a write, under no lock.
ReadGSendMsgCnt(t) ==
    /\ At(t, "g_read")
    /\ loc' = [loc EXCEPT ![t].tmp = gSend]
    /\ Go(t, "g_write")
    /\ UNCHANGED <<objVars, kernelVars, gMap, buf, countVars, fault>>

WriteGSendMsgCnt(t) ==
    /\ At(t, "g_write")
    /\ gSend' = loc[t].tmp + 1
    /\ IF loc[t].ptr = None THEN Finish(t) ELSE Go(t, "p_read") /\ UNCHANGED loc
    /\ UNCHANGED <<objVars, kernelVars, gMap, buf, cnt, sent, total, fault>>

ReadSendMsgCnt(t) ==
    /\ At(t, "p_read")
    /\ IF loc[t].ptr \in gone
       THEN Fail
       ELSE /\ loc' = [loc EXCEPT ![t].tmp = cnt[loc[t].ptr]]
            /\ Go(t, "p_write")
            /\ UNCHANGED <<objVars, kernelVars, gMap, buf, countVars, fault>>

WriteSendMsgCnt(t) ==
    /\ At(t, "p_write")
    /\ IF loc[t].ptr \in gone
       THEN Fail
       ELSE /\ cnt' = [cnt EXCEPT ![loc[t].ptr] = loc[t].tmp + 1]
            /\ Finish(t)
            /\ UNCHANGED <<objVars, kernelVars, gMap, buf, gSend, sent, total, fault>>

(* Receive: some reader of o takes a message from the queue its descriptor   *)
(* refers to, and frees it when it has processed it. *)
Receive(o, b) ==
    /\ fault = "none" /\ o \notin gone /\ fd[o] # None
    /\ ~Busy(o, CloseLabels)
    /\ LET k == table[fd[o]]
       IN  k # None /\ Take(k, b)
    /\ UNCHANGED <<objVars, table, gMap, pc, loc, countVars, fault>>

----------------------------------------------------------------------------
OwnerStep(t) ==
    \/ \E o \in Queues, f \in Fds : Open(t, o, f)
    \/ AddMsgQueue(t)
    \/ \E o \in Queues, goal \in {"close", "unlink", "delete"} : BeginClose(t, o, goal)
    \/ \E o \in Queues : DeleteUnopened(t, o)
    \/ Clear(t) \/ Close(t) \/ DelMsgQueue(t) \/ Unlink(t)

SendStep(t) ==
    \/ \E o \in Queues, b \in Bufs : BeginSend(t, o, b)
    \/ MsgQueuePtr(t) \/ MqSend(t) \/ FreeRefused(t)
    \/ ReadGSendMsgCnt(t) \/ WriteGSendMsgCnt(t)
    \/ ReadSendMsgCnt(t) \/ WriteSendMsgCnt(t)

Next == \/ \E t \in Threads : OwnerStep(t) \/ SendStep(t)
        \/ \E o \in Queues, b \in Bufs : Receive(o, b)

Spec == Init /\ [][Next]_vars

----------------------------------------------------------------------------
(* Properties                                                                *)

(* Type invariant (MsgQueue.h:23-38). *)
TypeOK ==
    /\ polite \in BOOLEAN
    /\ fd \in [Queues -> Fds \cup {None}]
    /\ opened \in [Queues -> BOOLEAN]
    /\ gone \in SUBSET Queues
    /\ table \in [Fds -> KQueues \cup {None}]
    /\ kq \in [KQueues -> SUBSET Bufs]
    /\ gMap \in [Fds -> Queues \cup {None}]
    /\ buf \in [Bufs -> {"free", "sender", "queued", "lost"}]
    /\ pc \in [Threads -> Labels]
    /\ loc \in [Threads -> [q : Queues \cup {None}, fd : Fds \cup {None},
                            buf : Bufs \cup {None}, ptr : Queues \cup {None},
                            tmp : Nat, goal : {"none", "close", "unlink", "delete"}]]
    /\ cnt \in [Queues -> Nat] /\ gSend \in Nat
    /\ sent \in [KQueues -> Nat] /\ total \in Nat
    /\ fault \in {"none", "use_after_free"}

(* With polite clients a queue that was opened and is not being closed keeps  *)
(* its own kernel queue behind its descriptor: nobody else's destructor       *)
(* closes it and nobody else's Clear() drains it                              *)
(* (MsgQueue.cpp:114-138, 313-331). *)
DescriptorIsOwn ==
    polite => \A o \in Queues :
        opened[o] /\ o \notin gone /\ ~Busy(o, CloseLabels) => table[fd[o]] = o

(* With polite clients a look-up in the registry never gives a wrong queue:   *)
(* an entry is the open queue behind that descriptor, or one whose close is   *)
(* still under way, and never an object that was deleted, so that Send()      *)
(* never uses one (MsgQueue.cpp:114-129, 166-184, 255-267, 333-345). *)
RegistryNeverWrong ==
    polite =>
        /\ fault = "none"
        /\ \A f \in Fds : gMap[f] # None =>
               /\ gMap[f] \notin gone /\ fd[gMap[f]] = f
               /\ table[f] = gMap[f] \/ Busy(gMap[f], CloseLabels)

(* With polite clients every buffer that mq_send() accepted is read or        *)
(* drained: closing and unlinking a queue never drops a message that owns     *)
(* memory (MsgQueue.cpp:46-56, 122-138). *)
NoBufferLost == polite => \A b \in Bufs : buf[b] # "lost"

(* Whatever clients do, a buffer has one owner: one sender that has not yet   *)
(* sent it, or one queue, and a freed buffer has none, so nothing is freed    *)
(* twice (MsgQueue.cpp:146-186, 313-331, Mesg.cpp:76-110). *)
BufferHasOneOwner ==
    \A b \in Bufs :
        /\ Cardinality({k \in KQueues : b \in kq[k]}) = IF buf[b] = "queued" THEN 1 ELSE 0
        /\ Cardinality({t \in Threads : loc[t].buf = b /\ pc[t] \in {"lookup", "mq_send"}})
               = IF buf[b] = "sender" THEN 1 ELSE 0

(* The counters may miss messages but are never ahead of what all queues and, *)
(* with polite clients, the queue have accepted since Open(), although        *)
(* senders read and write them without a lock                                 *)
(* (MsgQueue.h:32-34, MsgQueue.cpp:176-184). *)
CountsNotAhead ==
    /\ gSend <= total
    /\ polite => \A o \in Queues : cnt[o] <= sent[o]

----------------------------------------------------------------------------
(* Inductive strengthenings.                                                 *)

Inside == {"lookup", "mq_send"}
Counting == {"g_read", "g_write", "p_read", "p_write"}

\* A thread that is in a call has a queue and its descriptor.
CallInv ==
    \A t \in Threads :
        /\ pc[t] # "idle" => loc[t].q \in Queues /\ loc[t].fd \in Fds
        /\ pc[t] \in Inside => loc[t].buf \in Bufs
        /\ pc[t] = "refused" => loc[t].buf = None
        /\ pc[t] \in {"p_read", "p_write"} => loc[t].ptr \in Queues

\* Where a buffer is, and buf, agree.
BufInv ==
    /\ \A k \in KQueues : \A b \in kq[k] :
           buf[b] = "queued" /\ \A j \in KQueues : b \in kq[j] => j = k
    /\ \A b \in Bufs : buf[b] = "queued" => \E k \in KQueues : b \in kq[k]
    /\ \A t \in Threads : pc[t] \in Inside => buf[loc[t].buf] = "sender"
    /\ \A t, u \in Threads :
           pc[t] \in Inside /\ pc[u] \in Inside /\ loc[t].buf = loc[u].buf => t = u
    /\ \A b \in Bufs : buf[b] = "sender" =>
           \E t \in Threads : pc[t] \in Inside /\ loc[t].buf = b

\* With polite clients: who sends has an open queue that nobody closes ...
SendInv ==
    \A t \in Threads : pc[t] \in SendLabels =>
        /\ loc[t].q \notin gone /\ table[loc[t].fd] = loc[t].q
        /\ ~Busy(loc[t].q, CloseLabels)
        /\ pc[t] # "lookup" => loc[t].ptr \in {None, loc[t].q}

\* ... the owner of a queue closes it, once, after draining it ...
CloseInv ==
    \A t \in Threads : pc[t] \in CloseLabels =>
        /\ Owner[loc[t].q] = t
        /\ loc[t].q \notin gone /\ opened[loc[t].q] /\ fd[loc[t].q] = loc[t].fd
        /\ pc[t] # "open_add" => loc[t].goal = "delete"
        /\ IF pc[t] \in {"open_add", "clear", "close"} THEN table[loc[t].fd] = loc[t].q
                                                      ELSE table[loc[t].fd] # loc[t].q
        /\ pc[t] \in {"close", "close_del", "unlink"} => kq[loc[t].q] = {}
        /\ pc[t] = "unlink" => \A f \in Fds : gMap[f] # loc[t].q

\* ... an open descriptor is that of a queue which has it ...
TableInv ==
    /\ \A f \in Fds : table[f] # None =>
           table[f] \in Queues /\ fd[table[f]] = f /\ opened[table[f]] /\ table[f] \notin gone
    /\ \A o \in Queues : opened[o] <=> fd[o] # None
    /\ \A o \in Queues : ~opened[o] => kq[o] = {}

\* ... and an entry of the registry is stale only between mq_close() and
\* DelMsgQueue(), or until AddMsgQueue() replaces it.
MapInv ==
    \A f \in Fds : gMap[f] # None =>
        /\ gMap[f] \notin gone /\ opened[gMap[f]] /\ fd[gMap[f]] = f
        /\ table[f] = gMap[f] \/ Busy(gMap[f], {"close_del"})
        /\ table[f] \in {None, gMap[f]} \/ Busy(table[f], {"open_add"})

PoliteInv ==
    polite => /\ fault = "none" /\ NoBufferLost /\ DescriptorIsOwn
              /\ SendInv /\ CloseInv /\ TableInv /\ MapInv

\* The messages whose sender has not yet written gSendMsgCnt, or m_sendMsgCnt of o.
Pending == {t \in Threads : pc[t] \in {"g_read", "g_write"}}
PendingAt(o) == {t \in Threads : loc[t].q = o /\ pc[t] \in Counting}

\* What is or will be written counts no message whose sender has not written yet.
CountInv ==
    /\ gSend + Cardinality(Pending) <= total
    /\ \A t \in Threads : pc[t] = "g_write" => loc[t].tmp + Cardinality(Pending) <= total
    /\ polite => \A o \in Queues :
           /\ cnt[o] + Cardinality(PendingAt(o)) <= sent[o]
           /\ \A t \in PendingAt(o) :
                  pc[t] = "p_write" => loc[t].tmp + Cardinality(PendingAt(o)) <= sent[o]

=============================================================================
