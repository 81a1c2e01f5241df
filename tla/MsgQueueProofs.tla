---------------------------- MODULE MsgQueueProofs ----------------------------
(* Theorems about MsgQueue (src/project/basic/MsgQueue.cpp and Mesg.cpp) for  *)
(* any number of queues, descriptors and buffers, and finitely many threads. *)
EXTENDS MsgQueue, FiniteSetTheorems, TLAPS

----------------------------------------------------------------------------
(* Types, and what a thread in a call has.                                   *)

Frames == [q : Queues \cup {None}, fd : Fds \cup {None}, buf : Bufs \cup {None},
           ptr : Queues \cup {None}, tmp : Nat, goal : {"none", "close", "unlink", "delete"}]

LEMMA TypeInit == Init => TypeOK /\ CallInv
BY MsgQueueAssumption DEF KQueues, Labels, Init, TypeOK, CallInv, Call, NoCall, Inside

LEMMA TypeStep == TypeOK /\ CallInv /\ [Next]_vars => TypeOK' /\ CallInv'
<1> SUFFICES ASSUME TypeOK, CallInv, [Next]_vars PROVE TypeOK' /\ CallInv'
  OBVIOUS
<1> USE MsgQueueAssumption
    DEF TypeOK, CallInv, objVars, kernelVars, countVars, CloseLabels, SendLabels, Labels, KQueues, Inside,
        Idle, At, Go, Finish, Fail, Call, NoCall, MoveBufs
<1>1. ASSUME NEW t \in Threads, NEW o \in Queues, NEW f \in Fds, Open(t, o, f)
      PROVE  TypeOK' /\ CallInv'
  <2>1. /\ table' \in [Fds -> KQueues \cup {None}] /\ kq' \in [KQueues -> SUBSET Bufs]
        /\ buf' \in [Bufs -> {"free", "sender", "queued", "lost"}]
    <3>1. CASE \E g \in Fds : /\ table' = [table EXCEPT ![g] = g, ![f] = o]
                              /\ kq' = [kq EXCEPT ![g] = @ \cup kq[o], ![o] = {}]
                              /\ UNCHANGED buf
      <4>1. PICK g \in Fds : /\ table' = [table EXCEPT ![g] = g, ![f] = o]
                             /\ kq' = [kq EXCEPT ![g] = @ \cup kq[o], ![o] = {}]
                             /\ UNCHANGED buf
        BY <3>1
      <4>2. table' \in [Fds -> KQueues \cup {None}]
        BY <4>1
      <4>3. [kq EXCEPT ![g] = @ \cup kq[o]] \in [KQueues -> SUBSET Bufs]
        OBVIOUS
      <4>4. kq' = [[kq EXCEPT ![g] = @ \cup kq[o]] EXCEPT ![o] = {}]
        BY <4>1
      <4> QED BY <4>1, <4>2, <4>3, <4>4
    <3>2. CASE /\ table' = [table EXCEPT ![f] = o] /\ kq' = [kq EXCEPT ![o] = {}]
               /\ buf' = MoveBufs(kq[o], "lost")
      BY <3>2
    <3> QED BY <1>1, <3>1, <3>2 DEF Open
  <2>2. /\ fd' = [fd EXCEPT ![o] = f] /\ opened' = [opened EXCEPT ![o] = TRUE]
        /\ cnt' = [cnt EXCEPT ![o] = 0] /\ sent' = [sent EXCEPT ![o] = 0]
        /\ Go(t, "open_add") /\ loc' = [loc EXCEPT ![t] = Call(o, f, None, "none")]
        /\ UNCHANGED <<polite, gone, gMap, gSend, total, fault>>
    BY <1>1 DEF Open
  <2>3. TypeOK'
    BY <2>1, <2>2
  <2>4. CallInv'
    BY <2>2
  <2> QED BY <2>3, <2>4
<1>2. ASSUME NEW t \in Threads, AddMsgQueue(t) PROVE TypeOK' /\ CallInv'
  BY <1>2 DEF AddMsgQueue
<1>3. ASSUME NEW t \in Threads, NEW o \in Queues, NEW goal \in {"close", "unlink", "delete"},
             BeginClose(t, o, goal)
      PROVE  TypeOK' /\ CallInv'
  <2>1. fd[o] \in Fds /\ t \in Threads
    BY <1>3 DEF BeginClose
  <2>2. Call(o, fd[o], None, goal) \in Frames
    BY <2>1 DEF Frames
  <2> QED BY <1>3, <2>1, <2>2 DEF BeginClose, Frames
<1>4. ASSUME NEW t \in Threads, NEW o \in Queues, DeleteUnopened(t, o)
      PROVE  TypeOK' /\ CallInv'
  BY <1>4 DEF DeleteUnopened
<1>5. ASSUME NEW t \in Threads, Clear(t) PROVE TypeOK' /\ CallInv'
  <2>1. /\ kq' \in [KQueues -> SUBSET Bufs]
        /\ buf' \in [Bufs -> {"free", "sender", "queued", "lost"}]
    <3>1. CASE \E k \in KQueues, b \in Bufs : Take(k, b)
      BY <3>1 DEF Take
    <3>2. table[loc[t].fd] \in KQueues \cup {None}
      BY <1>5 DEF Clear
    <3> QED BY <1>5, <3>1, <3>2 DEF Clear
  <2>2. (UNCHANGED pc \/ Go(t, "close")) /\ pc[t] = "clear"
        /\ UNCHANGED <<objVars, table, gMap, loc, countVars, fault>>
    BY <1>5 DEF Clear
  <2>3. TypeOK'
    BY <2>1, <2>2
  <2>4. CallInv'
    BY <2>2
  <2> QED BY <2>3, <2>4
<1>6. ASSUME NEW t \in Threads, Close(t) PROVE TypeOK' /\ CallInv'
  <2>0. /\ table' \in [Fds -> KQueues \cup {None}] /\ kq' \in [KQueues -> SUBSET Bufs]
        /\ buf' \in [Bufs -> {"free", "sender", "queued", "lost"}]
    <3>1. CASE UNCHANGED <<buf, kq>>
      BY <1>6, <3>1 DEF Close
    <3>2. CASE buf' = MoveBufs(kq[loc[t].fd], "lost") /\ kq' = [kq EXCEPT ![loc[t].fd] = {}]
      BY <1>6, <3>2 DEF Close
    <3> QED BY <1>6, <3>1, <3>2 DEF Close
  <2>1. CASE Finish(t)
    BY <1>6, <2>0, <2>1 DEF Close
  <2>2. CASE UNCHANGED loc /\ (Go(t, "close_del") \/ Go(t, "unlink"))
    <3>1. UNCHANGED <<objVars, gMap, countVars, fault>>
      BY <1>6 DEF Close
    <3>2. pc' \in [Threads -> Labels]
      BY <2>2
    <3>3. TypeOK'
      BY <2>0, <2>2, <3>1, <3>2
    <3>4. CallInv'
      BY <1>6, <2>2 DEF Close
    <3> QED BY <3>3, <3>4
  <2> QED BY <1>6, <2>1, <2>2 DEF Close
<1>7. ASSUME NEW t \in Threads, DelMsgQueue(t) PROVE TypeOK' /\ CallInv'
  <2>1. CASE Finish(t)
    BY <1>7, <2>1 DEF DelMsgQueue
  <2>2. CASE UNCHANGED loc /\ Go(t, "unlink")
    BY <1>7, <2>2 DEF DelMsgQueue
  <2> QED BY <1>7, <2>1, <2>2 DEF DelMsgQueue
<1>8. ASSUME NEW t \in Threads, Unlink(t) PROVE TypeOK' /\ CallInv'
  <2>1. /\ kq' \in [KQueues -> SUBSET Bufs]
        /\ buf' \in [Bufs -> {"free", "sender", "queued", "lost"}]
    <3>1. CASE UNCHANGED <<buf, kq>>
      BY <3>1
    <3>2. CASE \E o \in Queues :
                   buf' = MoveBufs(kq[o], "lost") /\ kq' = [kq EXCEPT ![o] = {}]
      BY <3>2
    <3> QED BY <1>8, <3>1, <3>2 DEF Unlink
  <2>2. gone' \in SUBSET Queues
    BY <1>8 DEF Unlink
  <2>3. Finish(t) /\ UNCHANGED <<polite, fd, opened, table, gMap, countVars, fault>>
    BY <1>8 DEF Unlink
  <2>4. TypeOK'
    BY <2>1, <2>2, <2>3
  <2>5. CallInv'
    BY <2>3
  <2> QED BY <2>4, <2>5
<1>9. ASSUME NEW t \in Threads, NEW o \in Queues, NEW b \in Bufs, BeginSend(t, o, b)
      PROVE  TypeOK' /\ CallInv'
  BY <1>9 DEF BeginSend
<1>10. ASSUME NEW t \in Threads, MsgQueuePtr(t) PROVE TypeOK' /\ CallInv'
  <2>1. loc[t] \in Frames /\ gMap[loc[t].fd] \in Queues \cup {None}
    BY <1>10 DEF MsgQueuePtr, Frames
  <2>2. loc' = [loc EXCEPT ![t] = [loc[t] EXCEPT !.ptr = gMap[loc[t].fd]]]
    BY <1>10 DEF MsgQueuePtr
  <2>3. [loc[t] EXCEPT !.ptr = gMap[loc[t].fd]] \in Frames
    BY <2>1 DEF Frames
  <2>4. loc' \in [Threads -> Frames]
    BY <2>2, <2>3 DEF Frames
  <2> QED BY <1>10, <2>2, <2>4 DEF MsgQueuePtr, Frames
<1>11. ASSUME NEW t \in Threads, MqSend(t) PROVE TypeOK' /\ CallInv'
  <2> DEFINE k == table[loc[t].fd]
  <2>1. CASE Go(t, "g_read") /\ k # None /\ total' = total + 1 /\ UNCHANGED loc
    <3>1. /\ kq' = [kq EXCEPT ![k] = @ \cup {loc[t].buf}]
          /\ buf' = [buf EXCEPT ![loc[t].buf] = "queued"]
          /\ sent' = [sent EXCEPT ![k] = @ + 1]
          /\ UNCHANGED <<objVars, fault, gMap, table, cnt, gSend>>
      BY <1>11, <2>1 DEF MqSend
    <3>2. k \in KQueues /\ loc[t].buf \in Bufs
      BY <1>11, <2>1 DEF MqSend
    <3> HIDE DEF k
    <3>3. /\ kq' \in [KQueues -> SUBSET Bufs] /\ sent' \in [KQueues -> Nat]
          /\ buf' \in [Bufs -> {"free", "sender", "queued", "lost"}]
      BY <3>1, <3>2
    <3>4. pc' \in [Threads -> Labels] /\ total' \in Nat
      BY <2>1
    <3>5. TypeOK'
      BY <2>1, <3>1, <3>3, <3>4
    <3>6. CallInv'
      BY <1>11, <2>1 DEF MqSend
    <3> QED BY <3>5, <3>6
  <2>2. CASE Go(t, "refused") /\ loc' = [loc EXCEPT ![t].buf = None]
    <3>1. /\ buf' = [buf EXCEPT ![loc[t].buf] = "free"]
          /\ UNCHANGED <<objVars, kernelVars, gMap, countVars, fault>>
      BY <1>11, <2>2 DEF MqSend
    <3>2. loc[t] \in Frames
      BY DEF Frames
    <3>3. [loc[t] EXCEPT !.buf = None] \in Frames
      BY <3>2 DEF Frames
    <3>4. TypeOK'
      BY <2>2, <3>1, <3>3 DEF Frames
    <3>5. CallInv'
      BY <1>11, <2>2 DEF MqSend
    <3> QED BY <3>4, <3>5
  <2>3. CASE Fail
    BY <2>3
  <2> QED BY <1>11, <2>1, <2>2, <2>3 DEF MqSend
<1>12. ASSUME NEW t \in Threads, ReadGSendMsgCnt(t) PROVE TypeOK' /\ CallInv'
  <2>1. loc[t] \in Frames /\ gSend \in Nat
    BY DEF Frames
  <2>2. [loc[t] EXCEPT !.tmp = gSend] \in Frames
    BY <2>1 DEF Frames
  <2> QED BY <1>12, <2>2 DEF ReadGSendMsgCnt, Frames
<1>13. ASSUME NEW t \in Threads, WriteGSendMsgCnt(t) PROVE TypeOK' /\ CallInv'
  <2>1. CASE Finish(t)
    BY <1>13, <2>1 DEF WriteGSendMsgCnt
  <2>2. CASE loc[t].ptr # None /\ Go(t, "p_read") /\ UNCHANGED loc
    BY <1>13, <2>2 DEF WriteGSendMsgCnt
  <2> QED BY <1>13, <2>1, <2>2 DEF WriteGSendMsgCnt
<1>16. ASSUME NEW t \in Threads, ReadSendMsgCnt(t) PROVE TypeOK' /\ CallInv'
  <2>1. CASE Fail
    BY <2>1
  <2>2. CASE ~Fail
    <3>1. loc[t].ptr \in Queues /\ loc' = [loc EXCEPT ![t] = [loc[t] EXCEPT !.tmp = cnt[loc[t].ptr]]]
      BY <1>16, <2>2 DEF ReadSendMsgCnt
    <3>3. loc[t] \in Frames /\ cnt[loc[t].ptr] \in Nat
      BY <3>1 DEF Frames
    <3>2. [loc[t] EXCEPT !.tmp = cnt[loc[t].ptr]] \in Frames
      BY <3>3 DEF Frames
    <3>4. /\ Go(t, "p_write") /\ pc[t] = "p_read"
          /\ UNCHANGED <<objVars, kernelVars, gMap, buf, countVars, fault>>
      BY <1>16, <2>2 DEF ReadSendMsgCnt
    <3>5. TypeOK'
      BY <3>1, <3>2, <3>4 DEF Frames
    <3>6. CallInv'
      BY <3>1, <3>4
    <3> QED BY <3>5, <3>6
  <2> QED BY <2>1, <2>2
<1>17. ASSUME NEW t \in Threads, WriteSendMsgCnt(t) PROVE TypeOK' /\ CallInv'
  <2>1. CASE Fail
    BY <2>1
  <2>2. CASE Finish(t)
    BY <1>17, <2>2 DEF WriteSendMsgCnt
  <2> QED BY <1>17, <2>1, <2>2 DEF WriteSendMsgCnt
<1>18. ASSUME NEW t \in Threads, FreeRefused(t) PROVE TypeOK' /\ CallInv'
  BY <1>18 DEF FreeRefused
<1>14. ASSUME NEW o \in Queues, NEW b \in Bufs, Receive(o, b) PROVE TypeOK' /\ CallInv'
  BY <1>14 DEF Receive, Take
<1>15. CASE UNCHANGED vars
  BY <1>15 DEF vars
<1>19. ASSUME NEW t \in Threads, OwnerStep(t) PROVE TypeOK' /\ CallInv'
  BY ONLY <1>1, <1>2, <1>3, <1>4, <1>5, <1>6, <1>7, <1>8, <1>19 DEF OwnerStep
<1>20. ASSUME NEW t \in Threads, SendStep(t) PROVE TypeOK' /\ CallInv'
  BY ONLY <1>9, <1>10, <1>11, <1>12, <1>13, <1>16, <1>17, <1>18, <1>20 DEF SendStep
<1> QED BY ONLY <1>14, <1>15, <1>19, <1>20, [Next]_vars DEF Next

----------------------------------------------------------------------------
(* Buffers have one owner.                                                   *)

\* The senders that have a buffer, and their buffers, stay what they are.
SendersKeep ==
    \A t \in Threads :
        /\ pc'[t] \in Inside <=> pc[t] \in Inside
        /\ pc[t] \in Inside => loc'[t].buf = loc[t].buf

LEMMA BufInit == Init => BufInv
BY DEF Init, BufInv, Inside

\* Messages leave a queue.
LEMMA BufTaken ==
    ASSUME NEW k \in KQueues, NEW bs \in SUBSET kq[k], NEW place \in {"free", "lost"},
           TypeOK, CallInv, BufInv, SendersKeep,
           kq' = [kq EXCEPT ![k] = @ \ bs], buf' = MoveBufs(bs, place)
    PROVE  BufInv'
<1>1. \A b \in Bufs : buf'[b] = IF b \in bs THEN place ELSE buf[b]
  BY DEF MoveBufs
<1>2. \A j \in KQueues : kq'[j] = IF j = k THEN kq[k] \ bs ELSE kq[j]
  BY DEF TypeOK
<1>3. \A j \in KQueues : kq[j] \subseteq Bufs
  BY DEF TypeOK
<1>4. \A b \in bs : buf[b] = "queued"
  BY DEF BufInv
<1>5. \A j \in KQueues : \A b \in kq'[j] :
          buf'[b] = "queued" /\ \A i \in KQueues : b \in kq'[i] => i = j
  BY <1>1, <1>2, <1>3 DEF BufInv
<1>6. \A b \in Bufs : buf'[b] = "queued" => \E j \in KQueues : b \in kq'[j]
  BY <1>1, <1>2 DEF BufInv
<1>10. \A t \in Threads : pc'[t] \in Inside => pc[t] \in Inside /\ loc'[t].buf = loc[t].buf
  BY DEF SendersKeep
<1>11. \A t \in Threads : pc[t] \in Inside => pc'[t] \in Inside /\ loc'[t].buf = loc[t].buf
  BY DEF SendersKeep
<1>12. \A t \in Threads : pc[t] \in Inside => loc[t].buf \in Bufs /\ buf[loc[t].buf] = "sender"
  BY DEF BufInv, CallInv
<1>7. \A t \in Threads : pc'[t] \in Inside => buf'[loc'[t].buf] = "sender"
  BY <1>1, <1>4, <1>10, <1>12
<1>8. \A t, u \in Threads :
          pc'[t] \in Inside /\ pc'[u] \in Inside /\ loc'[t].buf = loc'[u].buf => t = u
  BY <1>10 DEF BufInv
<1>9. \A b \in Bufs : buf'[b] = "sender" =>
          \E t \in Threads : pc'[t] \in Inside /\ loc'[t].buf = b
  BY <1>1, <1>11 DEF BufInv
<1> QED BY <1>5, <1>6, <1>7, <1>8, <1>9 DEF BufInv

\* A queue is emptied.
LEMMA BufDrained ==
    ASSUME NEW k \in KQueues, NEW place \in {"free", "lost"}, TypeOK, CallInv, BufInv, SendersKeep,
           kq' = [kq EXCEPT ![k] = {}], buf' = MoveBufs(kq[k], place)
    PROVE  BufInv'
<1>1. kq[k] \ kq[k] = {} /\ kq[k] \in SUBSET kq[k]
  OBVIOUS
<1> QED BY <1>1, BufTaken

\* Messages are taken one at a time.
LEMMA BufTake ==
    ASSUME NEW k \in KQueues, NEW b \in Bufs, TypeOK, CallInv, BufInv, SendersKeep, Take(k, b)
    PROVE  BufInv'
<1>1. {b} \in SUBSET kq[k] /\ kq' = [kq EXCEPT ![k] = @ \ {b}]
  BY DEF Take
<1>2. buf' = MoveBufs({b}, "free")
  BY DEF Take, MoveBufs, TypeOK
<1> QED BY <1>1, <1>2, BufTaken

LEMMA BufSame ==
    ASSUME TypeOK, CallInv, BufInv, SendersKeep, UNCHANGED <<kq, buf>>
    PROVE  BufInv'
<1>1. \A t \in Threads : pc'[t] \in Inside => pc[t] \in Inside /\ loc'[t].buf = loc[t].buf
  BY DEF SendersKeep
<1>2. \A t \in Threads : pc[t] \in Inside => pc'[t] \in Inside /\ loc'[t].buf = loc[t].buf
  BY DEF SendersKeep
<1>3. \A b \in Bufs : buf'[b] = "sender" =>
          \E t \in Threads : pc'[t] \in Inside /\ loc'[t].buf = b
  BY <1>2 DEF BufInv
<1> QED BY <1>1, <1>3 DEF BufInv

LEMMA BufStep == TypeOK /\ CallInv /\ BufInv /\ [Next]_vars => BufInv'
<1> SUFFICES ASSUME TypeOK, CallInv, BufInv, [Next]_vars PROVE BufInv'
  OBVIOUS
<1> USE DEF Idle, At, Go
<1>1. ASSUME NEW t \in Threads, NEW o \in Queues, NEW f \in Fds, Open(t, o, f) PROVE BufInv'
  <2>1. SendersKeep
    BY <1>1 DEF Open, SendersKeep, Inside, TypeOK
  <2>2. o \in KQueues
    BY DEF KQueues
  <2>3. CASE kq' = [kq EXCEPT ![o] = {}] /\ buf' = MoveBufs(kq[o], "lost")
    BY <2>1, <2>2, <2>3, BufDrained
  <2>4. CASE UNCHANGED buf /\ \E g \in Fds : kq' = [kq EXCEPT ![g] = @ \cup kq[o], ![o] = {}]
    <3>1. PICK g \in Fds : kq' = [kq EXCEPT ![g] = @ \cup kq[o], ![o] = {}]
      BY <2>4
    <3>2. g \in KQueues /\ g # o
      BY MsgQueueAssumption DEF KQueues
    <3>3. \A j \in KQueues : kq'[j] = IF j = o THEN {} ELSE IF j = g THEN kq[g] \cup kq[o] ELSE kq[j]
      BY <2>2, <3>1, <3>2 DEF TypeOK
    <3>7. \A j \in KQueues : \A c \in kq[j] :
              c \in Bufs /\ buf[c] = "queued" /\ \A i \in KQueues : c \in kq[i] => i = j
      BY DEF BufInv, TypeOK
    <3>4. \A j \in KQueues : \A c \in kq'[j] :
              buf'[c] = "queued" /\ \A i \in KQueues : c \in kq'[i] => i = j
      BY <2>2, <2>4, <3>2, <3>3, <3>7
    <3>8. \A c \in Bufs : buf[c] = "queued" => \E k \in KQueues : c \in kq[k]
      BY DEF BufInv
    <3>5. \A c \in Bufs : buf'[c] = "queued" => \E j \in KQueues : c \in kq'[j]
      <4> SUFFICES ASSUME NEW c \in Bufs, buf'[c] = "queued" PROVE \E j \in KQueues : c \in kq'[j]
        OBVIOUS
      <4>1. PICK k \in KQueues : c \in kq[k]
        BY <2>4, <3>8
      <4> QED BY <3>2, <3>3, <4>1
    <3>6. \A u \in Threads : /\ pc'[u] \in Inside <=> pc[u] \in Inside
                             /\ pc[u] \in Inside => loc'[u].buf = loc[u].buf
      BY <2>1 DEF SendersKeep
    <3> QED BY <2>4, <3>4, <3>5, <3>6 DEF BufInv
  <2> QED BY <1>1, <2>3, <2>4 DEF Open
<1>2. ASSUME NEW t \in Threads, Clear(t) PROVE BufInv'
  <2>1. SendersKeep
    BY <1>2 DEF Clear, SendersKeep, Inside, TypeOK
  <2>2. table[loc[t].fd] \in KQueues \cup {None}
    BY <1>2 DEF Clear, TypeOK, CallInv
  <2>3. CASE \E k \in KQueues, b \in Bufs : Take(k, b)
    BY <2>1, <2>3, BufTake
  <2>4. CASE UNCHANGED <<kq, buf>>
    BY <2>1, <2>4, BufSame
  <2> QED BY <1>2, <2>2, <2>3, <2>4 DEF Clear
<1>3. ASSUME NEW t \in Threads, Unlink(t) PROVE BufInv'
  <2>1. SendersKeep
    BY <1>3 DEF Unlink, Finish, SendersKeep, Inside, TypeOK
  <2>2. PICK o : o = loc[t].q
    OBVIOUS
  <2>3. CASE IsOpen(o)
    BY <1>3, <2>1, <2>2, <2>3, BufSame DEF Unlink
  <2>4. CASE ~IsOpen(o)
    <3>1. kq' = [kq EXCEPT ![o] = {}] /\ buf' = MoveBufs(kq[o], "lost")
      BY <1>3, <2>2, <2>4 DEF Unlink
    <3>2. o \in KQueues
      BY <1>3, <2>2 DEF Unlink, CallInv, KQueues
    <3> QED BY <2>1, <3>1, <3>2, BufDrained
  <2> QED BY <2>3, <2>4
<1>4. ASSUME NEW t \in Threads, NEW o \in Queues, NEW b \in Bufs, BeginSend(t, o, b)
      PROVE  BufInv'
  <2>1. /\ buf[b] = "free" /\ pc[t] = "idle" /\ UNCHANGED kq
        /\ buf' = [buf EXCEPT ![b] = "sender"] /\ pc' = [pc EXCEPT ![t] = "lookup"]
        /\ loc' = [loc EXCEPT ![t] = Call(o, fd[o], b, "none")]
    BY <1>4 DEF BeginSend, kernelVars
  <2>2. /\ \A c \in Bufs : buf'[c] = IF c = b THEN "sender" ELSE buf[c]
        /\ \A u \in Threads : pc'[u] = IF u = t THEN "lookup" ELSE pc[u]
        /\ \A u \in Threads : loc'[u].buf = IF u = t THEN b ELSE loc[u].buf
    BY <2>1 DEF TypeOK, Call
  <2>3. \A k \in KQueues : \A c \in kq[k] : c # b /\ c \in Bufs
    BY <2>1 DEF BufInv, TypeOK
  <2>4. \A u \in Threads : pc[u] \in Inside => loc[u].buf # b
    BY <2>1 DEF BufInv
  <2>5. /\ \A k \in KQueues : \A c \in kq'[k] :
               buf'[c] = "queued" /\ \A j \in KQueues : c \in kq'[j] => j = k
        /\ \A c \in Bufs : buf'[c] = "queued" => \E k \in KQueues : c \in kq'[k]
    BY <2>1, <2>2, <2>3 DEF BufInv
  <2>6. \A u \in Threads : pc'[u] \in Inside => buf'[loc'[u].buf] = "sender"
    BY <2>2 DEF BufInv, CallInv
  <2>7. \A u, v \in Threads :
            pc'[u] \in Inside /\ pc'[v] \in Inside /\ loc'[u].buf = loc'[v].buf => u = v
    BY <2>2, <2>4 DEF BufInv
  <2>8. \A c \in Bufs : buf'[c] = "sender" =>
            \E u \in Threads : pc'[u] \in Inside /\ loc'[u].buf = c
    BY <2>1, <2>2 DEF BufInv, Inside
  <2> QED BY <2>5, <2>6, <2>7, <2>8 DEF BufInv
<1>5. ASSUME NEW t \in Threads, MqSend(t) PROVE BufInv'
  <2>1. CASE Fail
    BY <2>1 DEF Fail, BufInv, kernelVars
  <2>2. PICK k, b : k = table[loc[t].fd] /\ b = loc[t].buf
    OBVIOUS
  <2>3. /\ pc[t] \in Inside /\ b \in Bufs /\ buf[b] = "sender"
        /\ \A j \in KQueues : b \notin kq[j]
    BY <1>5, <2>2 DEF MqSend, CallInv, BufInv, Inside
  <2>4. CASE ~Fail
    <3>1. /\ pc'[t] \notin Inside
          /\ \A u \in Threads : u # t => pc'[u] = pc[u] /\ loc'[u] = loc[u]
      BY <1>5, <2>4 DEF MqSend, Inside, TypeOK
    <3>2. \/ /\ k \in KQueues /\ kq' = [kq EXCEPT ![k] = @ \cup {b}]
             /\ buf' = [buf EXCEPT ![b] = "queued"]
          \/ UNCHANGED kq /\ buf' = [buf EXCEPT ![b] = "free"]
      BY <1>5, <2>2, <2>4 DEF MqSend, kernelVars, TypeOK, CallInv
    <3>11. \A j \in KQueues : kq[j] \subseteq Bufs
      BY DEF TypeOK
    <3>12. buf \in [Bufs -> {"free", "sender", "queued", "lost"}] /\ kq \in [KQueues -> SUBSET Bufs]
      BY DEF TypeOK
    <3>3. /\ \A c \in Bufs : c # b => buf'[c] = buf[c]
          /\ buf'[b] \in {"queued", "free"}
          /\ \A j \in KQueues : kq[j] \subseteq Bufs
      BY <2>3, <3>2, <3>11, <3>12
    <3>13. \A j \in KQueues :
              kq'[j] = kq[j] \/ (buf'[b] = "queued" /\ j = k /\ kq'[j] = kq[j] \cup {b})
      BY <2>3, <3>2, <3>12
    <3>14. buf'[b] = "queued" => k \in KQueues /\ b \in kq'[k]
      BY <2>3, <3>2, <3>12
    <3>4. \A j \in KQueues : \A c \in kq'[j] :
              buf'[c] = "queued" /\ \A i \in KQueues : c \in kq'[i] => i = j
      BY <2>3, <3>3, <3>11, <3>13 DEF BufInv
    <3>5. \A c \in Bufs : buf'[c] = "queued" => \E j \in KQueues : c \in kq'[j]
      BY <3>3, <3>13, <3>14 DEF BufInv
    <3>6. \A u \in Threads : pc'[u] \in Inside => u # t /\ pc[u] \in Inside /\ loc[u].buf # b
      BY <2>2, <2>3, <3>1 DEF BufInv
    <3>7. \A u \in Threads : pc'[u] \in Inside => buf'[loc'[u].buf] = "sender"
      BY <3>1, <3>3, <3>6 DEF BufInv, CallInv
    <3>8. \A u, v \in Threads :
              pc'[u] \in Inside /\ pc'[v] \in Inside /\ loc'[u].buf = loc'[v].buf => u = v
      BY <3>1, <3>6 DEF BufInv
    <3>9. \A c \in Bufs : buf'[c] = "sender" =>
              \E u \in Threads : pc'[u] \in Inside /\ loc'[u].buf = c
      BY <2>2, <3>1, <3>3 DEF BufInv
    <3> QED BY <3>4, <3>5, <3>7, <3>8, <3>9 DEF BufInv
  <2> QED BY <2>1, <2>4
<1>6. ASSUME NEW o \in Queues, NEW b \in Bufs, Receive(o, b) PROVE BufInv'
  <2>1. PICK k \in KQueues : Take(k, b)
    BY <1>6 DEF Receive, TypeOK
  <2>2. SendersKeep
    BY <1>6 DEF Receive, SendersKeep
  <2> QED BY <2>1, <2>2, BufTake
<1>7. ASSUME NEW t \in Threads, MsgQueuePtr(t) PROVE BufInv'
  <2>1. SendersKeep
    BY <1>7 DEF MsgQueuePtr, SendersKeep, Inside, TypeOK
  <2> QED BY <1>7, <2>1, BufSame DEF MsgQueuePtr, kernelVars
<1>8. ASSUME NEW t \in Threads,
             \/ AddMsgQueue(t) \/ FreeRefused(t) \/ DelMsgQueue(t) \/ ReadGSendMsgCnt(t)
             \/ WriteGSendMsgCnt(t) \/ ReadSendMsgCnt(t) \/ WriteSendMsgCnt(t)
             \/ \E o \in Queues, goal \in {"close", "unlink", "delete"} : BeginClose(t, o, goal)
             \/ \E o \in Queues : DeleteUnopened(t, o)
      PROVE  BufInv'
  <2>1. SendersKeep
    BY <1>8
    DEF AddMsgQueue, FreeRefused, DelMsgQueue, ReadGSendMsgCnt, WriteGSendMsgCnt, ReadSendMsgCnt,
        WriteSendMsgCnt, BeginClose, DeleteUnopened, Finish, Fail, SendersKeep, Inside, TypeOK
  <2>2. UNCHANGED <<kq, buf>>
    <3>1. FreeRefused(t) => UNCHANGED <<kq, buf>>
      BY MsgQueueAssumption DEF FreeRefused, kernelVars, MoveBufs, CallInv, TypeOK
    <3> QED BY <1>8, <3>1
    DEF AddMsgQueue, DelMsgQueue, ReadGSendMsgCnt, WriteGSendMsgCnt, ReadSendMsgCnt,
        WriteSendMsgCnt, BeginClose, DeleteUnopened, Fail, kernelVars
  <2> QED BY <2>1, <2>2, BufSame
<1>10. ASSUME NEW t \in Threads, Close(t) PROVE BufInv'
  <2>1. SendersKeep
    BY <1>10 DEF Close, Finish, SendersKeep, Inside, TypeOK
  <2>2. PICK f \in Fds : f = loc[t].fd
    BY <1>10 DEF Close, CallInv
  <2>3. CASE table[f] = f
    BY <1>10, <2>1, <2>2, <2>3, BufDrained DEF Close, KQueues
  <2>4. CASE table[f] # f
    BY <1>10, <2>1, <2>2, <2>4, BufSame DEF Close
  <2> QED BY <2>3, <2>4
<1>9. CASE UNCHANGED vars
  BY <1>9 DEF vars, BufInv
<1> QED BY <1>1, <1>2, <1>3, <1>4, <1>5, <1>6, <1>7, <1>8, <1>9, <1>10 DEF Next, OwnerStep, SendStep

THEOREM TypeCorrect == Spec => []TypeOK
<1> QED BY TypeInit, TypeStep, PTL DEF Spec

LEMMA BufInvariant == Spec => [](TypeOK /\ CallInv /\ BufInv)
<1>1. Init => TypeOK /\ CallInv /\ BufInv
  BY TypeInit, BufInit
<1>2. TypeOK /\ CallInv /\ BufInv /\ [Next]_vars => (TypeOK /\ CallInv /\ BufInv)'
  BY TypeStep, BufStep
<1> QED BY <1>1, <1>2, PTL DEF Spec

(* Whatever the clients do, a buffer belongs to one sender or is in one queue, *)
(* or to nobody once it was freed or lost (MsgQueue.cpp:146-186, 313-331).     *)
THEOREM BuffersHaveOneOwner == Spec => []BufferHasOneOwner
<1>1. ASSUME TypeOK, CallInv, BufInv PROVE BufferHasOneOwner
  <2> SUFFICES ASSUME NEW b \in Bufs
               PROVE  /\ Cardinality({k \in KQueues : b \in kq[k]}) = IF buf[b] = "queued" THEN 1 ELSE 0
                      /\ Cardinality({t \in Threads : loc[t].buf = b /\ pc[t] \in Inside})
                             = IF buf[b] = "sender" THEN 1 ELSE 0
    BY DEF BufferHasOneOwner, Inside
  <2> DEFINE Ks == {k \in KQueues : b \in kq[k]}
             Ts == {t \in Threads : loc[t].buf = b /\ pc[t] \in Inside}
  <2>1. Cardinality(Ks) = IF buf[b] = "queued" THEN 1 ELSE 0
    <3>1. CASE buf[b] = "queued"
      <4>1. PICK k \in KQueues : b \in kq[k]
        BY <1>1, <3>1 DEF BufInv
      <4>2. Ks = {k}
        BY <1>1, <4>1 DEF BufInv
      <4> HIDE DEF Ks
      <4> QED BY <3>1, <4>2, FS_Singleton
    <3>2. CASE buf[b] # "queued"
      <4>1. Ks = {}
        BY <1>1, <3>2 DEF BufInv
      <4> HIDE DEF Ks
      <4> QED BY <3>2, <4>1, FS_EmptySet
    <3> QED BY <3>1, <3>2
  <2>2. Cardinality(Ts) = IF buf[b] = "sender" THEN 1 ELSE 0
    <3>1. CASE buf[b] = "sender"
      <4>1. PICK t \in Threads : pc[t] \in Inside /\ loc[t].buf = b
        BY <1>1, <3>1 DEF BufInv
      <4>2. Ts = {t}
        BY <1>1, <4>1 DEF BufInv
      <4> HIDE DEF Ts
      <4> QED BY <3>1, <4>2, FS_Singleton
    <3>2. CASE buf[b] # "sender"
      <4>1. Ts = {}
        BY <1>1, <3>2 DEF BufInv
      <4> HIDE DEF Ts
      <4> QED BY <3>2, <4>1, FS_EmptySet
    <3> QED BY <3>1, <3>2
  <2> QED BY <2>1, <2>2
<1> QED BY <1>1, BufInvariant, PTL

----------------------------------------------------------------------------
(* With polite clients: descriptors, the registry and buffers.               *)

LEMMA PoliteInit == Init => PoliteInv
BY MsgQueueAssumption
DEF KQueues, Init, PoliteInv, NoBufferLost, DescriptorIsOwn, SendInv, CloseInv, TableInv, MapInv, Busy,
    CloseLabels, SendLabels

\* Only its owner closes a queue.
LEMMA BusyOwner ==
    ASSUME TypeOK, CallInv, CloseInv
    PROVE  \A o \in Queues, L \in SUBSET CloseLabels :
               Busy(o, L) <=> pc[Owner[o]] \in L /\ loc[Owner[o]].q = o
BY MsgQueueAssumption DEF Busy, CloseInv

\* Steps of the senders and the readers leave the owners' state alone.
LEMMA PoliteSame ==
    ASSUME TypeOK, CallInv, PoliteInv, polite,
           UNCHANGED <<fd, opened, gone, table, gMap, fault, polite>>,
           \A u \in Threads : \/ pc'[u] = pc[u] /\ loc'[u] = loc[u]
                              \/ pc[u] \notin CloseLabels /\ pc'[u] \notin CloseLabels,
           \A o \in Queues : \/ kq'[o] \subseteq kq[o]
                             \/ opened[o] /\ ~Busy(o, CloseLabels),
           NoBufferLost', SendInv'
    PROVE  PoliteInv'
<1>1. \A o \in Queues, L \in SUBSET CloseLabels : Busy(o, L)' <=> Busy(o, L)
  BY DEF Busy
<1>2. DescriptorIsOwn'
  BY <1>1 DEF PoliteInv, DescriptorIsOwn
<1>3. CloseInv'
  <2> SUFFICES ASSUME NEW t \in Threads, pc'[t] \in CloseLabels
               PROVE  (/\ Owner[loc[t].q] = t
                       /\ loc[t].q \notin gone /\ opened[loc[t].q] /\ fd[loc[t].q] = loc[t].fd
                       /\ pc[t] # "open_add" => loc[t].goal = "delete"
                       /\ IF pc[t] \in {"open_add", "clear", "close"}
                          THEN table[loc[t].fd] = loc[t].q ELSE table[loc[t].fd] # loc[t].q
                       /\ pc[t] \in {"close", "close_del", "unlink"} => kq[loc[t].q] = {}
                       /\ pc[t] = "unlink" => \A f \in Fds : gMap[f] # loc[t].q)'
    BY DEF CloseInv
  <2>1. pc'[t] = pc[t] /\ loc'[t] = loc[t] /\ Busy(loc[t].q, CloseLabels)
    BY DEF Busy
  <2>2. loc[t].q \in Queues /\ (kq[loc[t].q] = {} => kq'[loc[t].q] = {})
    BY <2>1 DEF CallInv, CloseLabels
  <2> QED BY <2>1, <2>2 DEF PoliteInv, CloseInv
<1>4. TableInv'
  BY DEF PoliteInv, TableInv
<1>5. MapInv'
  <2>1. {"close_del"} \in SUBSET CloseLabels /\ {"open_add"} \in SUBSET CloseLabels
    BY DEF CloseLabels
  <2>2. \A f \in Fds : gMap[f] # None => gMap[f] \in Queues
    BY DEF TypeOK
  <2>3. \A f \in Fds : table[f] # None => table[f] \in Queues
    BY DEF PoliteInv, TableInv
  <2>4. MapInv
    BY DEF PoliteInv
  <2> SUFFICES ASSUME NEW f \in Fds, gMap[f] # None
               PROVE  /\ gMap[f] \notin gone /\ opened[gMap[f]] /\ fd[gMap[f]] = f
                      /\ table[f] = gMap[f] \/ Busy(gMap[f], {"close_del"})'
                      /\ table[f] \in {None, gMap[f]} \/ Busy(table[f], {"open_add"})'
    BY DEF MapInv, Busy
  <2> QED BY <1>1, <2>1, <2>2, <2>3, <2>4 DEF MapInv
<1> QED BY <1>2, <1>3, <1>4, <1>5 DEF PoliteInv

\* A sender that has a valid entry uses its own queue.
LEMMA EntryIsOwn ==
    ASSUME TypeOK, CallInv, PoliteInv, polite, NEW t \in Threads, pc[t] = "lookup"
    PROVE  gMap[loc[t].fd] \in {None, loc[t].q}
<1>1. /\ loc[t].fd \in Fds /\ loc[t].q \in Queues /\ table[loc[t].fd] = loc[t].q
      /\ ~Busy(loc[t].q, CloseLabels)
  BY DEF PoliteInv, SendInv, CallInv, SendLabels
<1>2. ~Busy(loc[t].q, {"open_add"})
  BY <1>1 DEF Busy, CloseLabels
<1> QED BY <1>1, <1>2, MsgQueueAssumption DEF PoliteInv, MapInv

LEMMA SenderStep ==
    ASSUME TypeOK, CallInv, PoliteInv, polite, NEW t \in Threads, SendStep(t)
    PROVE  PoliteInv'
<1> USE DEF Idle, At, Go
<1>0. /\ \A u \in Threads : pc[u] \in SendLabels =>
             /\ loc[u].q \notin gone /\ table[loc[u].fd] = loc[u].q
             /\ ~Busy(loc[u].q, CloseLabels) /\ loc[u].q \in Queues /\ loc[u].fd \in Fds
             /\ pc[u] # "lookup" => loc[u].ptr \in {None, loc[u].q}
      /\ fault = "none"
  BY DEF PoliteInv, SendInv, CallInv, SendLabels
<1>1. ASSUME NEW o \in Queues, NEW b \in Bufs, BeginSend(t, o, b) PROVE PoliteInv'
  <2>1. /\ UNCHANGED <<fd, opened, gone, table, gMap, fault, polite, kq>>
        /\ pc' = [pc EXCEPT ![t] = "lookup"] /\ loc' = [loc EXCEPT ![t] = Call(o, fd[o], b, "none")]
        /\ buf' = [buf EXCEPT ![b] = "sender"] /\ pc[t] = "idle"
    BY <1>1 DEF BeginSend, objVars, kernelVars
  <2>2. \A u \in Threads : IF u = t THEN pc'[u] = "lookup" /\ loc'[u].q = o /\ loc'[u].fd = fd[o]
                                    ELSE pc'[u] = pc[u] /\ loc'[u] = loc[u]
    BY <2>1 DEF TypeOK, Call
  <2>3. NoBufferLost'
    BY <2>1 DEF NoBufferLost, PoliteInv, TypeOK
  <2>4. \A u \in Threads : \/ pc'[u] = pc[u] /\ loc'[u] = loc[u]
                           \/ pc[u] \notin CloseLabels /\ pc'[u] \notin CloseLabels
    BY <2>1, <2>2 DEF CloseLabels
  <2>5. o \notin gone /\ IsOpen(o) /\ ~Busy(o, CloseLabels)
    BY <1>1 DEF BeginSend
  <2>6. table[fd[o]] = o
    BY <2>5, MsgQueueAssumption DEF IsOpen, PoliteInv, TableInv
  <2>7. \A q \in Queues : ~Busy(q, CloseLabels) => ~Busy(q, CloseLabels)'
    BY <2>2, <2>4 DEF Busy
  <2>8. \A u \in Threads : pc'[u] \in SendLabels =>
            /\ loc'[u].q \notin gone /\ table[loc'[u].fd] = loc'[u].q
            /\ loc'[u].q \in Queues /\ ~Busy(loc'[u].q, CloseLabels)
            /\ pc'[u] # "lookup" => loc'[u].ptr \in {None, loc'[u].q}
    BY <1>0, <2>2, <2>5, <2>6
  <2>9. SendInv'
    BY <2>1, <2>7, <2>8 DEF SendInv, Busy
  <2> QED BY <2>1, <2>3, <2>4, <2>9, PoliteSame
<1>2. ASSUME pc[t] \in SendLabels, ~Fail, NoBufferLost',
             UNCHANGED <<fd, opened, gone, table, gMap, fault, polite>>,
             \A u \in Threads \ {t} : pc'[u] = pc[u] /\ loc'[u] = loc[u],
             \/ pc'[t] \in {"idle", "refused"}
             \/ /\ pc'[t] \in SendLabels \ {"lookup"}
                /\ loc'[t].q = loc[t].q /\ loc'[t].fd = loc[t].fd
                /\ loc'[t].ptr \in {None, loc[t].q},
             \A o \in Queues : kq'[o] \subseteq kq[o] \/ o = loc[t].q
      PROVE  PoliteInv'
  <2>1. /\ SendLabels \cap CloseLabels = {}
        /\ {"idle", "refused"} \cap (SendLabels \cup CloseLabels) = {}
    BY DEF SendLabels, CloseLabels
  <2>4. \A u \in Threads : \/ pc'[u] = pc[u] /\ loc'[u] = loc[u]
                           \/ pc[u] \notin CloseLabels /\ pc'[u] \notin CloseLabels
    BY <1>2, <2>1
  <2>5. \A o \in Queues : kq'[o] \subseteq kq[o] \/ (opened[o] /\ ~Busy(o, CloseLabels))
    BY <1>0, <1>2, MsgQueueAssumption DEF PoliteInv, TableInv
  <2>7. \A q \in Queues : ~Busy(q, CloseLabels) => ~Busy(q, CloseLabels)'
    BY <2>4 DEF Busy
  <2>8. \A u \in Threads : pc'[u] \in SendLabels =>
            /\ loc'[u].q \notin gone /\ table[loc'[u].fd] = loc'[u].q
            /\ loc'[u].q \in Queues /\ ~Busy(loc'[u].q, CloseLabels)
            /\ pc'[u] # "lookup" => loc'[u].ptr \in {None, loc'[u].q}
    BY <1>0, <1>2, <2>1
  <2>9. SendInv'
    BY <1>2, <2>7, <2>8 DEF SendInv, Busy
  <2> QED BY <1>2, <2>4, <2>5, <2>9, PoliteSame
<1>3. CASE MsgQueuePtr(t)
  <2>1. gMap[loc[t].fd] \in {None, loc[t].q}
    BY <1>3, EntryIsOwn DEF MsgQueuePtr
  <2>2. /\ pc'[t] = "mq_send" /\ loc'[t].q = loc[t].q /\ loc'[t].fd = loc[t].fd
        /\ loc'[t].ptr = gMap[loc[t].fd]
        /\ \A u \in Threads \ {t} : pc'[u] = pc[u] /\ loc'[u] = loc[u]
    BY <1>3 DEF MsgQueuePtr, TypeOK
  <2>3. ~Fail /\ pc[t] \in SendLabels /\ "mq_send" \in SendLabels \ {"lookup"}
    BY <1>0, <1>3 DEF MsgQueuePtr, Fail, SendLabels
  <2>4. NoBufferLost' /\ UNCHANGED <<fd, opened, gone, table, gMap, fault, polite, kq>>
    BY <1>3 DEF MsgQueuePtr, objVars, kernelVars, NoBufferLost, PoliteInv
  <2> QED BY <1>2, <2>1, <2>2, <2>3, <2>4
<1>4. CASE MqSend(t)
  <2>1. loc[t].ptr \notin gone /\ pc[t] = "mq_send" /\ table[loc[t].fd] = loc[t].q /\ pc[t] \in SendLabels
    BY <1>0, <1>4, MsgQueueAssumption DEF MqSend, SendLabels, TypeOK
  <2>2. /\ ~Fail /\ UNCHANGED <<fd, opened, gone, table, gMap, fault, polite>>
        /\ \A u \in Threads \ {t} : pc'[u] = pc[u] /\ loc'[u] = loc[u]
        /\ pc'[t] = "refused" \/ (pc'[t] = "g_read" /\ loc'[t] = loc[t])
    BY <1>0, <1>4, <2>1 DEF KQueues, MqSend, Finish, Fail, objVars, kernelVars, TypeOK
  <2>3. \/ buf' = [buf EXCEPT ![loc[t].buf] = "queued"]
        \/ buf' = [buf EXCEPT ![loc[t].buf] = "free"]
    BY <1>4, <2>1 DEF MqSend
  <2>4. NoBufferLost'
    BY <2>3 DEF NoBufferLost, PoliteInv, TypeOK
  <2>5. \A o \in Queues : kq'[o] \subseteq kq[o] \/ o = loc[t].q
    <3>1. \/ UNCHANGED kq
          \/ kq' = [kq EXCEPT ![loc[t].q] = kq[loc[t].q] \cup {loc[t].buf}]
      BY <1>4, <2>1 DEF MqSend, kernelVars
    <3> QED BY <3>1 DEF KQueues, TypeOK
  <2>6. "g_read" \in SendLabels \ {"lookup"} /\ loc[t].ptr \in {None, loc[t].q}
    BY <1>0, <2>1 DEF SendLabels
  <2> QED BY <1>2, <2>1, <2>2, <2>4, <2>5, <2>6
<1>5. CASE ReadGSendMsgCnt(t) \/ WriteGSendMsgCnt(t) \/ ReadSendMsgCnt(t) \/ WriteSendMsgCnt(t)
  <2>1. pc[t] \in {"g_read", "g_write", "p_read", "p_write"}
    BY <1>5 DEF ReadGSendMsgCnt, WriteGSendMsgCnt, ReadSendMsgCnt, WriteSendMsgCnt
  <2>2. loc[t].ptr \notin gone /\ loc[t].ptr \in {None, loc[t].q} /\ pc[t] \in SendLabels
    BY <1>0, <2>1, MsgQueueAssumption DEF SendLabels, TypeOK
  <2>3. /\ ~Fail /\ UNCHANGED <<fd, opened, gone, table, gMap, fault, polite, kq, buf>>
    BY <1>0, <1>5, <2>2
    DEF ReadGSendMsgCnt, WriteGSendMsgCnt, ReadSendMsgCnt, WriteSendMsgCnt, Fail, objVars, kernelVars
  <2>4. \A u \in Threads \ {t} : pc'[u] = pc[u] /\ loc'[u] = loc[u]
    BY <1>5, <2>2
    DEF ReadGSendMsgCnt, WriteGSendMsgCnt, ReadSendMsgCnt, WriteSendMsgCnt, Finish, TypeOK
  <2>5. \/ pc'[t] = "idle"
        \/ /\ pc'[t] \in {"g_write", "p_read", "p_write"}
           /\ loc'[t].q = loc[t].q /\ loc'[t].fd = loc[t].fd /\ loc'[t].ptr = loc[t].ptr
    BY <1>5, <2>2
    DEF ReadGSendMsgCnt, WriteGSendMsgCnt, ReadSendMsgCnt, WriteSendMsgCnt, Finish, TypeOK
  <2>6. NoBufferLost' /\ {"g_write", "p_read", "p_write"} \subseteq SendLabels \ {"lookup"}
    BY <2>3 DEF NoBufferLost, PoliteInv, SendLabels
  <2> QED BY <1>2, <2>2, <2>3, <2>4, <2>5, <2>6
<1>6. CASE FreeRefused(t)
  <2>1. /\ pc[t] = "refused" /\ pc'[t] = "idle" /\ loc[t].buf = None
        /\ UNCHANGED <<fd, opened, gone, table, gMap, fault, polite, kq>>
        /\ \A u \in Threads \ {t} : pc'[u] = pc[u] /\ loc'[u] = loc[u]
        /\ buf' = MoveBufs({loc[t].buf}, "free")
    BY <1>6 DEF FreeRefused, Finish, objVars, kernelVars, TypeOK, CallInv
  <2>2. \A u \in Threads : \/ pc'[u] = pc[u] /\ loc'[u] = loc[u]
                           \/ pc[u] \notin CloseLabels /\ pc'[u] \notin CloseLabels
    BY <2>1 DEF CloseLabels
  <2>3. NoBufferLost'
    BY <2>1 DEF NoBufferLost, PoliteInv, MoveBufs
  <2>4. SendInv'
    BY <1>0, <2>1, <2>2 DEF SendInv, SendLabels, Busy
  <2> QED BY <2>1, <2>2, <2>3, <2>4, PoliteSame
<1> QED BY <1>1, <1>3, <1>4, <1>5, <1>6 DEF SendStep

LEMMA OwnerStepPolite ==
    ASSUME TypeOK, CallInv, BufInv, PoliteInv, polite, NEW t \in Threads, OwnerStep(t)
    PROVE  PoliteInv'
<1> USE DEF Idle, At, Go
<1>a. DescriptorIsOwn /\ SendInv /\ CloseInv /\ TableInv /\ MapInv /\ NoBufferLost /\ fault = "none"
  BY DEF PoliteInv
<1>b. \A o \in Queues, L \in SUBSET CloseLabels :
          Busy(o, L) <=> pc[Owner[o]] \in L /\ loc[Owner[o]].q = o
  BY <1>a, BusyOwner
<1> DEFINE Others == \A u \in Threads \ {t} : pc'[u] = pc[u] /\ loc'[u] = loc[u]
           BusyNext(q, L) == \E u \in Threads : loc'[u].q = q /\ pc'[u] \in L
<1>1. ASSUME NEW o \in Queues, NEW f \in Fds, Open(t, o, f) PROVE PoliteInv'
  <2>1. /\ pc[t] = "idle" /\ Owner[o] = t /\ o \notin gone /\ table[f] = None
        /\ \A g \in Fds : table[g] # o
        /\ UNCHANGED <<gone, gMap, fault, polite>> /\ kq' = [kq EXCEPT ![o] = {}]
        /\ \A q \in Queues : fd'[q] = IF q = o THEN f ELSE fd[q]
        /\ opened'[o] /\ \A q \in Queues : q # o => (opened'[q] <=> opened[q])
        /\ \A g \in Fds : table'[g] = IF g = f THEN o ELSE table[g]
        /\ \A q \in Queues : kq'[q] = IF q = o THEN {} ELSE kq[q]
        /\ buf' = MoveBufs(kq[o], "lost")
        /\ pc'[t] = "open_add" /\ loc'[t].q = o /\ loc'[t].fd = f /\ Others
    BY <1>1 DEF KQueues, Open, IsOpen, TypeOK, Call
  <2>2. ~opened[o] /\ kq[o] = {}
    <3>1. CloseLabels \in SUBSET CloseLabels /\ pc[Owner[o]] \notin CloseLabels
      BY <2>1 DEF CloseLabels
    <3>2. ~Busy(o, CloseLabels)
      BY <1>b, <3>1
    <3>3. opened[o] => fd[o] \in Fds
      BY <1>a DEF TypeOK, TableInv
    <3> QED BY <1>a, <2>1, <3>2, <3>3 DEF DescriptorIsOwn, TableInv
  <2>3. NoBufferLost'
    BY <1>a, <2>1, <2>2 DEF NoBufferLost, MoveBufs
  <2>a. \A q \in Queues : q # o => \A L \in SUBSET CloseLabels : BusyNext(q, L) <=> Busy(q, L)
    BY <2>1 DEF Busy, CloseLabels
  <2>b. BusyNext(o, {"open_add"}) /\ BusyNext(o, CloseLabels)
    BY <2>1 DEF Busy, CloseLabels
  <2>c. f # None /\ None \notin Queues /\ o # None
    BY MsgQueueAssumption
  <2>4. DescriptorIsOwn'
    <3>1. \A q \in Queues : q # o /\ table[fd[q]] = q /\ fd[q] \in Fds => fd[q] # f
      BY <2>1, <2>c
    <3>2. \A q \in Queues : opened[q] => fd[q] \in Fds
      BY <1>a DEF TableInv, TypeOK
    <3>3. CloseLabels \in SUBSET CloseLabels
      OBVIOUS
    <3>4. SUFFICES ASSUME NEW q \in Queues, opened'[q], q \notin gone, ~BusyNext(q, CloseLabels)
                   PROVE  table'[fd'[q]] = q
      BY <2>1 DEF DescriptorIsOwn, Busy
    <3>5. q # o /\ opened[q] /\ ~Busy(q, CloseLabels)
      BY <2>1, <2>a, <2>b, <3>3, <3>4
    <3>6. table[fd[q]] = q
      BY <1>a, <2>1, <3>4, <3>5 DEF DescriptorIsOwn
    <3> QED BY <2>1, <3>1, <3>2, <3>5, <3>6
  <2>5. SendInv'
    <3> SUFFICES ASSUME NEW u \in Threads, pc'[u] \in SendLabels
                 PROVE  /\ loc'[u].q \notin gone /\ table'[loc'[u].fd] = loc'[u].q
                        /\ ~BusyNext(loc'[u].q, CloseLabels)
                        /\ pc'[u] # "lookup" => loc'[u].ptr \in {None, loc'[u].q}
      BY <2>1 DEF SendInv, Busy
    <3>1. u # t /\ pc[u] \in SendLabels /\ loc'[u] = loc[u] /\ pc'[u] = pc[u] /\ pc[u] # "idle"
      BY <2>1 DEF SendLabels
    <3>2. loc[u].q \in Queues /\ loc[u].fd \in Fds
      BY <3>1 DEF CallInv
    <3>3. /\ loc[u].q \notin gone /\ table[loc[u].fd] = loc[u].q /\ ~Busy(loc[u].q, CloseLabels)
          /\ pc[u] # "lookup" => loc[u].ptr \in {None, loc[u].q}
      BY <1>a, <3>1 DEF SendInv
    <3>4. loc[u].fd # f /\ loc[u].q # o /\ CloseLabels \in SUBSET CloseLabels
      BY <2>1, <2>c, <3>2, <3>3
    <3> QED BY <2>1, <2>a, <3>1, <3>2, <3>3, <3>4
  <2>6. CloseInv'
    <3> SUFFICES ASSUME NEW u \in Threads, pc'[u] \in CloseLabels
                 PROVE  /\ Owner[loc'[u].q] = u /\ loc'[u].q \notin gone
                        /\ opened'[loc'[u].q] /\ fd'[loc'[u].q] = loc'[u].fd
                        /\ pc'[u] # "open_add" => loc'[u].goal = "delete"
                        /\ IF pc'[u] \in {"open_add", "clear", "close"}
                           THEN table'[loc'[u].fd] = loc'[u].q ELSE table'[loc'[u].fd] # loc'[u].q
                        /\ pc'[u] \in {"close", "close_del", "unlink"} => kq'[loc'[u].q] = {}
                        /\ pc'[u] = "unlink" => \A g \in Fds : gMap[g] # loc'[u].q
      BY <2>1 DEF CloseInv
    <3>1. CASE u = t
      BY <2>1, <3>1
    <3>2. CASE u # t
      <4>1. loc'[u] = loc[u] /\ pc'[u] = pc[u] /\ loc[u].q \in Queues /\ loc[u].fd \in Fds
        BY <2>1, <3>2 DEF CallInv, CloseLabels
      <4>2. Owner[loc[u].q] = u /\ loc[u].q # o
        BY <1>a, <2>1, <3>2, <4>1 DEF CloseInv
      <4> QED BY <1>a, <2>1, <2>c, <4>1, <4>2 DEF CloseInv
    <3> QED BY <3>1, <3>2
  <2>7. TableInv'
    <3>1. \A g \in Fds : table[g] # None => table[g] \in Queues \ {o}
      BY <1>a, <2>1 DEF TableInv
    <3>2. \A g \in Fds : table'[g] # None =>
              fd'[table'[g]] = g /\ opened'[table'[g]] /\ table'[g] \notin gone'
      BY <1>a, <2>1, <3>1 DEF TableInv
    <3>3. \A q \in Queues : (opened'[q] <=> fd'[q] # None) /\ (~opened'[q] => kq'[q] = {})
      BY <1>a, <2>1, <2>c DEF TableInv
    <3> QED BY <2>1, <3>1, <3>2, <3>3 DEF TableInv
  <2>8. MapInv'
    <3>1. \A g \in Fds : gMap[g] # None => gMap[g] \in Queues \ {o}
      BY <1>a, <2>2 DEF TypeOK, MapInv
    <3>2. \A g \in Fds : table[g] # None => table[g] \in Queues \ {o}
      BY <1>a, <2>1 DEF TableInv
    <3>3. {"open_add"} \in SUBSET CloseLabels /\ {"close_del"} \in SUBSET CloseLabels
      BY DEF CloseLabels
    <3> SUFFICES ASSUME NEW g \in Fds, gMap[g] # None
                 PROVE  /\ gMap[g] \notin gone /\ opened'[gMap[g]] /\ fd'[gMap[g]] = g
                        /\ table'[g] = gMap[g] \/ BusyNext(gMap[g], {"close_del"})
                        /\ table'[g] \in {None, gMap[g]} \/ BusyNext(table'[g], {"open_add"})
      BY <2>1 DEF MapInv, Busy
    <3>4. /\ gMap[g] \notin gone /\ opened[gMap[g]] /\ fd[gMap[g]] = g
          /\ table[g] = gMap[g] \/ Busy(gMap[g], {"close_del"})
          /\ table[g] \in {None, gMap[g]} \/ Busy(table[g], {"open_add"})
      BY <1>a DEF MapInv
    <3>5. CASE g = f
      BY <2>1, <2>a, <2>b, <2>c, <3>1, <3>3, <3>4, <3>5
    <3>6. CASE g # f
      BY <2>1, <2>a, <3>1, <3>2, <3>3, <3>4, <3>6
    <3> QED BY <3>5, <3>6
  <2> QED BY <1>a, <2>1, <2>3, <2>4, <2>5, <2>6, <2>7, <2>8 DEF PoliteInv
<1>2. CASE AddMsgQueue(t)
  <2>0. PICK q \in Queues, f \in Fds : q = loc[t].q /\ f = loc[t].fd
    BY <1>2 DEF AddMsgQueue, CallInv
  <2>1. /\ UNCHANGED <<gone, fault, polite, fd, opened, table, kq, buf>>
        /\ \A g \in Fds : gMap'[g] = IF g = f THEN q ELSE gMap[g]
        /\ pc[t] = "open_add" /\ pc'[t] = "idle" /\ Others
    BY <1>2, <2>0 DEF AddMsgQueue, Finish, objVars, kernelVars, TypeOK
  <2>2. table[f] = q /\ fd[q] = f /\ q \notin gone /\ opened[q] /\ Owner[q] = t
    BY <1>a, <2>0, <2>1 DEF CloseInv, CloseLabels
  <2>3. NoBufferLost'
    BY <1>a, <2>1 DEF NoBufferLost
  <2>4. DescriptorIsOwn'
    BY <1>a, <2>0, <2>1, <2>2 DEF DescriptorIsOwn, Busy, CloseLabels
  <2>5. SendInv'
    BY <1>a, <2>1 DEF SendInv, Busy, CloseLabels, SendLabels
  <2>6. CloseInv'
    BY <1>a, <2>0, <2>1 DEF KQueues, CloseInv, TypeOK, CallInv, CloseLabels
  <2>7. TableInv'
    BY <1>a, <2>1 DEF TableInv
  <2>8. MapInv'
    BY <1>a, <2>0, <2>1, <2>2 DEF MapInv, Busy, TableInv
  <2> QED BY <1>a, <2>1, <2>3, <2>4, <2>5, <2>6, <2>7, <2>8 DEF PoliteInv
<1>3. ASSUME NEW o \in Queues, NEW goal \in {"close", "unlink", "delete"}, BeginClose(t, o, goal)
      PROVE  PoliteInv'
  <2>0. PICK f \in Fds : f = fd[o]
    BY <1>3 DEF BeginClose, TypeOK
  <2>1. /\ UNCHANGED <<gone, fault, polite, fd, opened, table, gMap, kq, buf>>
        /\ goal = "delete" /\ o \notin gone /\ Owner[o] = t /\ ~Busy(o, SendLabels) /\ fd[o] # None
        /\ pc[t] = "idle" /\ pc'[t] = "clear" /\ loc'[t].q = o /\ loc'[t].fd = f
        /\ loc'[t].goal = goal /\ Others
    BY <1>3, <2>0 DEF BeginClose, Call, objVars, kernelVars, TypeOK
  <2>2. opened[o] /\ table[f] = o
    BY <1>a, <1>b, <2>0, <2>1 DEF DescriptorIsOwn, TableInv, CloseLabels
  <2>3. NoBufferLost'
    BY <1>a, <2>1 DEF NoBufferLost
  <2>4. DescriptorIsOwn'
    BY <1>a, <2>1 DEF DescriptorIsOwn, Busy, CloseLabels
  <2>5. SendInv'
    BY <1>a, <2>1 DEF SendInv, Busy, CloseLabels, SendLabels
  <2>6. CloseInv'
    BY <1>a, <2>0, <2>1, <2>2 DEF KQueues, CloseInv, TypeOK, CallInv, CloseLabels
  <2>7. TableInv'
    BY <1>a, <2>1 DEF TableInv
  <2>8. MapInv'
    BY <1>a, <2>1 DEF MapInv, Busy
  <2> QED BY <1>a, <2>1, <2>3, <2>4, <2>5, <2>6, <2>7, <2>8 DEF PoliteInv
<1>4. ASSUME NEW o \in Queues, DeleteUnopened(t, o) PROVE PoliteInv'
  <2>1. /\ UNCHANGED <<fault, polite, fd, opened, table, gMap, kq, buf, pc, loc>>
        /\ gone' = gone \cup {o} /\ ~opened[o]
    BY <1>4 DEF DeleteUnopened, kernelVars
  <2>3. NoBufferLost' /\ DescriptorIsOwn'
    BY <1>a, <2>1 DEF NoBufferLost, DescriptorIsOwn, Busy
  <2>5. SendInv'
    <3>1. \A u \in Threads : pc[u] \in SendLabels => loc[u].q # o
      BY <1>a, <2>1, MsgQueueAssumption DEF SendInv, SendLabels, CallInv, TableInv
    <3> QED BY <1>a, <2>1, <3>1 DEF SendInv, Busy
  <2>6. CloseInv'
    BY <1>a, <2>1 DEF CloseInv
  <2>7. TableInv'
    BY <1>a, <2>1 DEF TableInv
  <2>8. MapInv'
    BY <1>a, <2>1 DEF MapInv, Busy
  <2> QED BY <1>a, <2>1, <2>3, <2>5, <2>6, <2>7, <2>8 DEF PoliteInv
<1>5. CASE Clear(t)
  <2>0. PICK q \in Queues, f \in Fds : q = loc[t].q /\ f = loc[t].fd
    BY <1>5 DEF Clear, CallInv
  <2>2. table[f] = q /\ fd[q] = f /\ q \notin gone /\ opened[q] /\ Owner[q] = t /\ q # None
    BY <1>a, <1>5, <2>0, MsgQueueAssumption DEF CloseInv, CloseLabels, Clear
  <2>1. /\ UNCHANGED <<gone, fault, polite, fd, opened, table, gMap>>
        /\ \A o \in Queues : kq'[o] \subseteq kq[o]
        /\ \A b \in Bufs : buf'[b] \in {buf[b], "free"}
        /\ pc'[t] \in {"clear", "close"} /\ (pc'[t] = "close" => kq'[q] = {})
        /\ pc[t] = "clear" /\ loc'[t] = loc[t] /\ Others
    <3>1. CASE pc' = [pc EXCEPT ![t] = "close"] /\ UNCHANGED <<kq, buf>>
      BY <1>5, <2>0, <2>2, <3>1 DEF KQueues, Clear, Take, objVars, TypeOK
    <3>2. CASE UNCHANGED pc /\ \E b \in Bufs : Take(q, b)
      <4>1. PICK b \in Bufs : Take(q, b)
        BY <3>2
      <4>2. /\ \A o \in Queues : kq'[o] \subseteq kq[o]
            /\ \A c \in Bufs : buf'[c] \in {buf[c], "free"}
        BY <4>1 DEF Take, KQueues, TypeOK
      <4>3. UNCHANGED <<gone, fault, polite, fd, opened, table, gMap, pc, loc>> /\ pc[t] = "clear"
        BY <1>5, <3>2 DEF Clear, objVars
      <4> QED BY <4>2, <4>3
    <3> QED BY <1>5, <2>0, <2>2, <3>1, <3>2 DEF Clear
  <2>3. NoBufferLost'
    BY <1>a, <2>1 DEF NoBufferLost
  <2>4. DescriptorIsOwn'
    BY <1>a, <2>0, <2>1, <2>2 DEF DescriptorIsOwn, Busy, CloseLabels
  <2>5. SendInv'
    BY <1>a, <1>b, <2>0, <2>1, <2>2 DEF SendInv, Busy, CloseLabels, SendLabels
  <2>6. CloseInv'
    <3> SUFFICES ASSUME NEW u \in Threads, pc'[u] \in CloseLabels
                 PROVE  /\ Owner[loc'[u].q] = u /\ loc'[u].q \notin gone
                        /\ opened[loc'[u].q] /\ fd[loc'[u].q] = loc'[u].fd
                        /\ pc'[u] # "open_add" => loc'[u].goal = "delete"
                        /\ IF pc'[u] \in {"open_add", "clear", "close"}
                           THEN table[loc'[u].fd] = loc'[u].q ELSE table[loc'[u].fd] # loc'[u].q
                        /\ pc'[u] \in {"close", "close_del", "unlink"} => kq'[loc'[u].q] = {}
                        /\ pc'[u] = "unlink" => \A g \in Fds : gMap[g] # loc'[u].q
      BY <2>1 DEF CloseInv
    <3>1. CASE u = t
      <4>1. loc[t].goal = "delete"
        BY <1>a, <2>1 DEF CloseInv, CloseLabels
      <4> QED BY <2>0, <2>1, <2>2, <3>1, <4>1
    <3>2. CASE u # t
      <4>1. loc'[u] = loc[u] /\ pc'[u] = pc[u] /\ loc[u].q \in Queues /\ loc[u].fd \in Fds
        BY <2>1, <3>2 DEF CallInv, CloseLabels
      <4> QED BY <1>a, <2>1, <4>1 DEF CloseInv
    <3> QED BY <3>1, <3>2
  <2>7. TableInv'
    BY <1>a, <2>1 DEF TableInv
  <2>8. MapInv'
    BY <1>a, <2>0, <2>1, <2>2 DEF MapInv, Busy, TableInv
  <2> QED BY <1>a, <2>1, <2>3, <2>4, <2>5, <2>6, <2>7, <2>8 DEF PoliteInv
<1>6. CASE Close(t)
  <2>0. PICK q \in Queues, f \in Fds : q = loc[t].q /\ f = loc[t].fd
    BY <1>6 DEF Close, CallInv
  <2>2. /\ table[f] = q /\ fd[q] = f /\ q \notin gone /\ opened[q] /\ Owner[q] = t /\ q # None
        /\ kq[q] = {} /\ loc[t].goal = "delete"
    BY <1>a, <1>6, <2>0, MsgQueueAssumption DEF CloseInv, CloseLabels, Close
  <2>1. /\ UNCHANGED <<gone, fault, polite, fd, opened, kq, buf, gMap>>
        /\ \A g \in Fds : table'[g] = IF g = f THEN None ELSE table[g]
        /\ pc[t] = "close" /\ pc'[t] = "close_del" /\ loc'[t] = loc[t] /\ Others
    BY <1>6, <2>0, <2>2, MsgQueueAssumption DEF Close, objVars, TypeOK
  <2>3. NoBufferLost'
    BY <1>a, <2>1 DEF NoBufferLost
  <2>4. DescriptorIsOwn'
    <3>1. Busy(q, CloseLabels)'
      BY <2>0, <2>1 DEF Busy, CloseLabels
    <3>2. \A o \in Queues : o # q => (Busy(o, CloseLabels)' <=> Busy(o, CloseLabels))
      BY <2>0, <2>1 DEF Busy
    <3>3. SUFFICES ASSUME NEW o \in Queues, opened[o], o \notin gone, ~Busy(o, CloseLabels)'
                   PROVE  table'[fd[o]] = o
      BY <2>1 DEF DescriptorIsOwn
    <3>4. o # q /\ ~Busy(o, CloseLabels) /\ fd[o] \in Fds
      BY <1>a, <3>1, <3>2, <3>3 DEF TableInv, TypeOK
    <3>5. table[fd[o]] = o
      BY <1>a, <3>3, <3>4 DEF DescriptorIsOwn
    <3> QED BY <2>1, <2>2, <3>4, <3>5
  <2>5. SendInv'
    <3>1. Busy(q, CloseLabels)
      BY <2>0, <2>1 DEF Busy, CloseLabels
    <3> QED BY <1>a, <2>0, <2>1, <2>2, <3>1 DEF SendInv, Busy, CloseLabels, SendLabels, CallInv
  <2>6. CloseInv'
    <3> SUFFICES ASSUME NEW u \in Threads, pc'[u] \in CloseLabels
                 PROVE  /\ Owner[loc'[u].q] = u /\ loc'[u].q \notin gone
                        /\ opened[loc'[u].q] /\ fd[loc'[u].q] = loc'[u].fd
                        /\ pc'[u] # "open_add" => loc'[u].goal = "delete"
                        /\ IF pc'[u] \in {"open_add", "clear", "close"}
                           THEN table'[loc'[u].fd] = loc'[u].q ELSE table'[loc'[u].fd] # loc'[u].q
                        /\ pc'[u] \in {"close", "close_del", "unlink"} => kq[loc'[u].q] = {}
                        /\ pc'[u] = "unlink" => \A g \in Fds : gMap'[g] # loc'[u].q
      BY <2>1 DEF CloseInv
    <3>1. CASE u = t
      BY <2>0, <2>1, <2>2, <3>1, MsgQueueAssumption
    <3>2. CASE u # t
      <4>1. loc'[u] = loc[u] /\ pc'[u] = pc[u] /\ loc[u].q \in Queues /\ loc[u].fd \in Fds
        BY <2>1, <3>2 DEF CallInv, CloseLabels
      <4>2. Owner[loc[u].q] = u /\ loc[u].q # q
        BY <1>a, <2>2, <3>2, <4>1 DEF CloseInv
      <4> QED BY <1>a, <2>1, <2>2, <4>1, <4>2, MsgQueueAssumption DEF CloseInv
    <3> QED BY <3>1, <3>2
  <2>7. TableInv'
    BY <1>a, <2>1 DEF TableInv
  <2>8. MapInv'
    BY <1>a, <2>0, <2>1, <2>2 DEF MapInv, Busy, TableInv
  <2> QED BY <1>a, <2>1, <2>3, <2>4, <2>5, <2>6, <2>7, <2>8 DEF PoliteInv
<1>7. CASE DelMsgQueue(t)
  <2>0. PICK q \in Queues, f \in Fds : q = loc[t].q /\ f = loc[t].fd
    BY <1>7 DEF DelMsgQueue, CallInv
  <2>2. /\ table[f] # q /\ fd[q] = f /\ q \notin gone /\ opened[q] /\ Owner[q] = t /\ q # None
        /\ kq[q] = {} /\ loc[t].goal = "delete"
    BY <1>a, <1>7, <2>0, MsgQueueAssumption DEF CloseInv, CloseLabels, DelMsgQueue
  <2>1. /\ UNCHANGED <<gone, fault, polite, fd, opened, table, kq, buf>>
        /\ \A g \in Fds : gMap'[g] = IF g = f THEN None ELSE gMap[g]
        /\ pc[t] = "close_del" /\ pc'[t] = "unlink" /\ loc'[t] = loc[t] /\ Others
    BY <1>7, <2>0, <2>2 DEF DelMsgQueue, objVars, kernelVars, TypeOK
  <2>3. NoBufferLost'
    BY <1>a, <2>1 DEF NoBufferLost
  <2>4. DescriptorIsOwn'
    BY <1>a, <2>0, <2>1, <2>2 DEF DescriptorIsOwn, Busy, CloseLabels
  <2>5. SendInv'
    BY <1>a, <1>b, <2>0, <2>1, <2>2 DEF SendInv, Busy, CloseLabels, SendLabels
  <2>6. CloseInv'
    <3> SUFFICES ASSUME NEW u \in Threads, pc'[u] \in CloseLabels
                 PROVE  /\ Owner[loc'[u].q] = u /\ loc'[u].q \notin gone
                        /\ opened[loc'[u].q] /\ fd[loc'[u].q] = loc'[u].fd
                        /\ pc'[u] # "open_add" => loc'[u].goal = "delete"
                        /\ IF pc'[u] \in {"open_add", "clear", "close"}
                           THEN table'[loc'[u].fd] = loc'[u].q ELSE table'[loc'[u].fd] # loc'[u].q
                        /\ pc'[u] \in {"close", "close_del", "unlink"} => kq[loc'[u].q] = {}
                        /\ pc'[u] = "unlink" => \A g \in Fds : gMap'[g] # loc'[u].q
      BY <2>1 DEF CloseInv
    <3>1. CASE u = t
      BY <1>a, <2>0, <2>1, <2>2, <3>1, MsgQueueAssumption DEF MapInv
    <3>2. CASE u # t
      <4>1. loc'[u] = loc[u] /\ pc'[u] = pc[u] /\ loc[u].q \in Queues /\ loc[u].fd \in Fds
        BY <2>1, <3>2 DEF CallInv, CloseLabels
      <4>2. Owner[loc[u].q] = u /\ loc[u].q # q
        BY <1>a, <2>2, <3>2, <4>1 DEF CloseInv
      <4> QED BY <1>a, <2>1, <2>2, <4>1, <4>2, MsgQueueAssumption DEF CloseInv
    <3> QED BY <3>1, <3>2
  <2>7. TableInv'
    BY <1>a, <2>1 DEF TableInv
  <2>8. MapInv'
    BY <1>a, <2>0, <2>1, <2>2 DEF MapInv, Busy, TableInv
  <2> QED BY <1>a, <2>1, <2>3, <2>4, <2>5, <2>6, <2>7, <2>8 DEF PoliteInv
<1>8. CASE Unlink(t)
  <2>0. PICK q \in Queues, f \in Fds : q = loc[t].q /\ f = loc[t].fd
    BY <1>8 DEF Unlink, CallInv
  <2>2. /\ table[f] # q /\ fd[q] = f /\ q \notin gone /\ opened[q] /\ Owner[q] = t /\ q # None
        /\ kq[q] = {} /\ loc[t].goal = "delete" /\ \A g \in Fds : gMap[g] # q
    BY <1>a, <1>8, <2>0, MsgQueueAssumption DEF CloseInv, CloseLabels, Unlink
  <2>1. /\ UNCHANGED <<fault, polite, fd, opened, table, gMap>>
        /\ gone' = gone \cup {q}
        /\ \A o \in Queues : kq'[o] = kq[o]
        /\ \A b \in Bufs : buf'[b] = buf[b]
        /\ pc[t] = "unlink" /\ pc'[t] = "idle" /\ Others
    BY <1>8, <2>0, <2>2 DEF KQueues, Unlink, Finish, MoveBufs, TypeOK
  <2>3. NoBufferLost'
    BY <1>a, <2>1 DEF NoBufferLost
  <2>4. DescriptorIsOwn'
    BY <1>a, <2>0, <2>1, <2>2 DEF DescriptorIsOwn, Busy, CloseLabels
  <2>5. SendInv'
    <3>1. Busy(q, CloseLabels)
      BY <2>0, <2>1 DEF Busy, CloseLabels
    <3> QED BY <1>a, <2>0, <2>1, <2>2, <3>1 DEF SendInv, Busy, CloseLabels, SendLabels
  <2>6. CloseInv'
    BY <1>a, <2>0, <2>1, <2>2 DEF KQueues, CloseInv, TypeOK, CallInv, CloseLabels
  <2>7. TableInv'
    BY <1>a, <2>1, <2>2 DEF TableInv
  <2>8. MapInv'
    BY <1>a, <2>0, <2>1, <2>2 DEF MapInv, Busy, TableInv
  <2> QED BY <1>a, <2>1, <2>3, <2>4, <2>5, <2>6, <2>7, <2>8 DEF PoliteInv
<1> QED BY <1>1, <1>2, <1>3, <1>4, <1>5, <1>6, <1>7, <1>8 DEF OwnerStep

LEMMA PoliteStep == TypeOK /\ CallInv /\ BufInv /\ PoliteInv /\ [Next]_vars => PoliteInv'
<1> SUFFICES ASSUME TypeOK, CallInv, BufInv, PoliteInv, [Next]_vars PROVE PoliteInv'
  OBVIOUS
<1>1. CASE ~polite
  <2>1. UNCHANGED polite
    <3>1. ASSUME NEW t \in Threads, OwnerStep(t) PROVE UNCHANGED polite
      BY <3>1 DEF OwnerStep, objVars, Open, AddMsgQueue, BeginClose, DeleteUnopened,
                  Clear, Close, DelMsgQueue, Unlink
    <3>2. ASSUME NEW t \in Threads, SendStep(t) PROVE UNCHANGED polite
      BY <3>2 DEF SendStep, objVars, BeginSend, MsgQueuePtr, MqSend, FreeRefused, ReadGSendMsgCnt,
                  WriteGSendMsgCnt, ReadSendMsgCnt, WriteSendMsgCnt, Fail
    <3>3. ASSUME NEW o \in Queues, NEW b \in Bufs, Receive(o, b) PROVE UNCHANGED polite
      BY <3>3 DEF Receive, objVars
    <3> QED BY <3>1, <3>2, <3>3 DEF Next, vars
  <2> QED BY <1>1, <2>1 DEF PoliteInv
<1>2. ASSUME polite, NEW o \in Queues, NEW b \in Bufs, Receive(o, b) PROVE PoliteInv'
  <2>1. UNCHANGED <<fd, opened, gone, table, gMap, fault, polite, pc, loc>>
    BY <1>2 DEF Receive, objVars
  <2>2. NoBufferLost'
    BY <1>2 DEF Take, Receive, NoBufferLost, PoliteInv, TypeOK
  <2>3. SendInv'
    BY <1>2, <2>1 DEF PoliteInv, SendInv, Busy
  <2>4. \A q \in Queues : kq'[q] \subseteq kq[q]
    BY <1>2 DEF KQueues, Take, Receive, TypeOK
  <2> QED BY <1>2, <2>1, <2>2, <2>3, <2>4, PoliteSame
<1>3. CASE UNCHANGED vars
  BY <1>3
  DEF vars, PoliteInv, NoBufferLost, DescriptorIsOwn, SendInv, CloseInv, TableInv, MapInv, Busy
<1> QED BY <1>1, <1>2, <1>3, SenderStep, OwnerStepPolite DEF Next

LEMMA PoliteInvariant == Spec => [](TypeOK /\ CallInv /\ BufInv /\ PoliteInv)
<1>1. Init => TypeOK /\ CallInv /\ BufInv /\ PoliteInv
  BY TypeInit, BufInit, PoliteInit
<1>2. TypeOK /\ CallInv /\ BufInv /\ PoliteInv /\ [Next]_vars
          => (TypeOK /\ CallInv /\ BufInv /\ PoliteInv)'
  BY TypeStep, BufStep, PoliteStep
<1> QED BY <1>1, <1>2, PTL DEF Spec

(* With polite clients the descriptor of an open queue is its own            *)
(* (MsgQueue.cpp:114-138, 313-331). *)
THEOREM DescriptorsAreOwn == Spec => []DescriptorIsOwn
<1>1. PoliteInv => DescriptorIsOwn
  BY DEF PoliteInv, DescriptorIsOwn
<1> QED BY <1>1, PoliteInvariant, PTL

(* ... the registry never names a deleted queue or the wrong one, and Send()  *)
(* never touches a deleted queue (MsgQueue.cpp:166-184, 255-267, 333-345). *)
THEOREM RegistryIsRight == Spec => []RegistryNeverWrong
<1>1. TypeOK /\ PoliteInv => RegistryNeverWrong
  BY DEF PoliteInv, MapInv, Busy, CloseLabels, RegistryNeverWrong
<1> QED BY <1>1, PoliteInvariant, PTL

(* ... and no message that owns memory is dropped with its queue            *)
(* (MsgQueue.cpp:46-56, 122-138). *)
THEOREM NoBufferIsLost == Spec => []NoBufferLost
<1>1. PoliteInv => NoBufferLost
  BY DEF PoliteInv, NoBufferLost
<1> QED BY <1>1, PoliteInvariant, PTL

----------------------------------------------------------------------------
(* The counters.                                                             *)

LEMMA ThreadSets ==
    ASSUME NEW S \in SUBSET Threads
    PROVE  /\ Cardinality(S) \in Nat
           /\ \A T \in SUBSET S : Cardinality(T) <= Cardinality(S)
           /\ \A t \in S : Cardinality(S \ {t}) = Cardinality(S) - 1
           /\ \A t \in Threads \ S : Cardinality(S \cup {t}) = Cardinality(S) + 1
<1>1. IsFiniteSet(S)
  BY MsgQueueAssumption, FS_Subset
<1> QED BY <1>1, FS_CardinalityType, FS_Subset, FS_RemoveElement, FS_AddElement

LEMMA CountInit == Init => CountInv
<1> SUFFICES ASSUME Init PROVE CountInv
  OBVIOUS
<1>1. Pending = {} /\ \A o \in Queues : PendingAt(o) = {}
  BY DEF Init, Pending, PendingAt, Counting
<1>2. gSend = 0 /\ total = 0 /\ \A o \in Queues : cnt[o] = 0 /\ sent[o] = 0
  BY DEF KQueues, Init
<1>3. \A t \in Threads : pc[t] = "idle"
  BY DEF Init
<1> HIDE DEF Pending, PendingAt
<1> QED BY <1>1, <1>2, <1>3, FS_EmptySet DEF CountInv

\* Steps that count nothing, and may only forget senders.
LEMMA CountSame ==
    ASSUME TypeOK, CountInv, UNCHANGED <<total, gSend, cnt, sent, polite>>,
           \A u \in Threads : pc'[u] \in Counting => pc'[u] = pc[u] /\ loc'[u] = loc[u]
    PROVE  CountInv'
<1>1. Pending' \in SUBSET Pending /\ Pending \in SUBSET Threads
  BY DEF Pending, Counting
<1>2. \A o \in Queues : PendingAt(o)' \in SUBSET PendingAt(o) /\ PendingAt(o) \in SUBSET Threads
  BY DEF PendingAt
<1>3. \A t \in Threads : pc'[t] = "g_write" => pc[t] = "g_write" /\ loc'[t].tmp = loc[t].tmp
  BY DEF Counting
<1>4. \A t \in Threads : pc'[t] = "p_write" => pc[t] = "p_write" /\ loc'[t].tmp = loc[t].tmp
  BY DEF Counting
<1>5. /\ Cardinality(Pending) \in Nat /\ Cardinality(Pending') \in Nat
      /\ Cardinality(Pending') <= Cardinality(Pending)
  BY <1>1, ThreadSets
<1>6. \A o \in Queues :
          /\ Cardinality(PendingAt(o)) \in Nat /\ Cardinality(PendingAt(o)') \in Nat
          /\ Cardinality(PendingAt(o)') <= Cardinality(PendingAt(o))
  BY <1>2, ThreadSets
<1>7. /\ gSend \in Nat /\ total \in Nat /\ \A o \in Queues : cnt[o] \in Nat /\ sent[o] \in Nat
      /\ \A t \in Threads : loc[t].tmp \in Nat
  BY DEF KQueues, TypeOK
<1> HIDE DEF Pending, PendingAt
<1>8. /\ gSend + Cardinality(Pending') <= total
      /\ \A t \in Threads : pc'[t] = "g_write" => loc'[t].tmp + Cardinality(Pending') <= total
  BY <1>3, <1>5, <1>7 DEF CountInv
<1>9. polite => \A o \in Queues :
          /\ cnt[o] + Cardinality(PendingAt(o)') <= sent[o]
          /\ \A t \in PendingAt(o)' :
                 pc'[t] = "p_write" => loc'[t].tmp + Cardinality(PendingAt(o)') <= sent[o]
  BY <1>2, <1>4, <1>6, <1>7 DEF CountInv
<1> QED BY <1>8, <1>9 DEF CountInv

LEMMA CountStep ==
    TypeOK /\ CallInv /\ PoliteInv /\ CountInv /\ [Next]_vars => CountInv'
<1> SUFFICES ASSUME TypeOK, CallInv, PoliteInv, CountInv, [Next]_vars PROVE CountInv'
  OBVIOUS
<1> USE DEF Idle, At, Go
<1>n. /\ gSend \in Nat /\ total \in Nat /\ \A o \in Queues : cnt[o] \in Nat /\ sent[o] \in Nat
      /\ \A u \in Threads : loc[u].tmp \in Nat
  BY DEF KQueues, TypeOK
<1>p. Pending \in SUBSET Threads /\ \A o \in Queues : PendingAt(o) \in SUBSET Threads
  BY DEF Pending, PendingAt
<1>q. Cardinality(Pending) \in Nat /\ \A o \in Queues : Cardinality(PendingAt(o)) \in Nat
  BY <1>p, ThreadSets
<1>c. polite => \A u \in Threads : pc[u] \in {"p_read", "p_write"} =>
                    loc[u].ptr = loc[u].q /\ loc[u].q \in Queues
  BY MsgQueueAssumption DEF PoliteInv, SendInv, CallInv, SendLabels
<1>1. ASSUME NEW t \in Threads, NEW o \in Queues, NEW f \in Fds, Open(t, o, f) PROVE CountInv'
  <2>1. /\ UNCHANGED <<gSend, total, polite>> /\ pc[t] = "idle" /\ pc'[t] = "open_add"
        /\ \A u \in Threads \ {t} : pc'[u] = pc[u] /\ loc'[u] = loc[u]
        /\ \A q \in Queues : cnt'[q] = IF q = o THEN 0 ELSE cnt[q]
        /\ \A q \in Queues : sent'[q] = IF q = o THEN 0 ELSE sent[q]
        /\ polite => \A g \in Fds : table[g] # o
    BY <1>1 DEF KQueues, Open, IsOpen, TypeOK
  <2>2. Pending' = Pending
    BY <2>1 DEF Pending
  <2>3. \A q \in Queues : PendingAt(q)' = PendingAt(q)
    BY <2>1 DEF PendingAt, Counting
  <2>4. polite => PendingAt(o) = {}
    BY <2>1 DEF PendingAt, Counting, PoliteInv, SendInv, SendLabels, CallInv
  <2>5. \A u \in Threads : pc'[u] \in {"g_write", "p_write"} => pc'[u] = pc[u] /\ loc'[u] = loc[u]
    BY <2>1
  <2> HIDE DEF Pending, PendingAt
  <2>6. polite => Cardinality(PendingAt(o)) = 0
    BY <2>4, FS_EmptySet
  <2>7. polite => \A q \in Queues :
            /\ cnt'[q] + Cardinality(PendingAt(q)) <= sent'[q]
            /\ \A u \in PendingAt(q) :
                   pc'[u] = "p_write" => loc'[u].tmp + Cardinality(PendingAt(q)) <= sent'[q]
    BY <1>p, <2>1, <2>4, <2>5, <2>6 DEF CountInv
  <2>8. /\ gSend + Cardinality(Pending) <= total
        /\ \A u \in Threads : pc'[u] = "g_write" => loc'[u].tmp + Cardinality(Pending) <= total
    BY <2>5 DEF CountInv
  <2> QED BY <2>1, <2>2, <2>3, <2>7, <2>8 DEF CountInv
<1>2. ASSUME NEW t \in Threads, MqSend(t) PROVE CountInv'
  <2>1. CASE ~Go(t, "g_read")
    <3>1. UNCHANGED <<total, gSend, cnt, sent, polite>>
      BY <1>2, <2>1 DEF MqSend, Fail, countVars, objVars
    <3>2. \A u \in Threads : pc'[u] \in Counting => pc'[u] = pc[u] /\ loc'[u] = loc[u]
      BY <1>2, <2>1 DEF MqSend, Fail, Finish, Counting, TypeOK
    <3> QED BY <3>1, <3>2, CountSame
  <2>2. CASE Go(t, "g_read")
    <3>1. PICK k \in KQueues : k = table[loc[t].fd]
      BY <1>2, <2>2 DEF MqSend, Finish, Fail, TypeOK, CallInv
    <3>2. /\ UNCHANGED <<loc, gSend, cnt, polite>> /\ total' = total + 1 /\ pc[t] = "mq_send"
          /\ sent' = [sent EXCEPT ![k] = @ + 1]
          /\ pc'[t] = "g_read" /\ \A u \in Threads \ {t} : pc'[u] = pc[u]
      BY <1>2, <2>2, <3>1 DEF MqSend, Finish, Fail, objVars, TypeOK
    <3>3. \A o \in Queues : sent'[o] = IF o = k THEN sent[o] + 1 ELSE sent[o]
      BY <3>2 DEF KQueues, TypeOK
    <3>4. polite => loc[t].q = k
      BY <3>1, <3>2 DEF PoliteInv, SendInv, SendLabels
    <3>5. Pending' = Pending \cup {t} /\ t \notin Pending
      BY <3>2 DEF Pending
    <3>6. polite => \A o \in Queues : PendingAt(o)' = IF o = k THEN PendingAt(o) \cup {t} ELSE PendingAt(o)
      BY <3>2, <3>4 DEF PendingAt, Counting
    <3>7. \A o \in Queues : t \notin PendingAt(o)
      BY <3>2 DEF PendingAt, Counting
    <3>8. Cardinality(Pending') = Cardinality(Pending) + 1
      BY <1>p, <3>5, ThreadSets
    <3>9. polite => \A o \in Queues :
              Cardinality(PendingAt(o)') = IF o = k THEN Cardinality(PendingAt(o)) + 1
                                                    ELSE Cardinality(PendingAt(o))
      BY <1>p, <3>6, <3>7, ThreadSets
    <3> HIDE DEF Pending, PendingAt
    <3>10. /\ gSend' + Cardinality(Pending') <= total'
           /\ \A u \in Threads : pc'[u] = "g_write" => loc'[u].tmp + Cardinality(Pending') <= total'
      BY <1>n, <1>q, <3>2, <3>8 DEF CountInv
    <3>11. polite => \A o \in Queues :
               /\ cnt'[o] + Cardinality(PendingAt(o)') <= sent'[o]
               /\ \A u \in PendingAt(o)' :
                      pc'[u] = "p_write" => loc'[u].tmp + Cardinality(PendingAt(o)') <= sent'[o]
      <4> SUFFICES ASSUME polite, NEW o \in Queues
                   PROVE  /\ cnt'[o] + Cardinality(PendingAt(o)') <= sent'[o]
                          /\ \A u \in PendingAt(o)' : pc'[u] = "p_write" =>
                                 loc'[u].tmp + Cardinality(PendingAt(o)') <= sent'[o]
        OBVIOUS
      <4>1. \A u \in PendingAt(o)' : pc'[u] = "p_write" => u \in PendingAt(o) /\ pc[u] = "p_write"
        BY <1>p, <3>2, <3>6
      <4> QED BY <1>n, <1>p, <1>q, <3>2, <3>3, <3>9, <4>1 DEF CountInv
    <3> QED BY <3>2, <3>10, <3>11 DEF CountInv
  <2> QED BY <2>1, <2>2
<1>3. ASSUME NEW t \in Threads, ReadGSendMsgCnt(t) PROVE CountInv'
  <2>1. /\ UNCHANGED <<gSend, total, polite, cnt, sent>> /\ pc[t] = "g_read" /\ pc'[t] = "g_write"
        /\ \A u \in Threads \ {t} : pc'[u] = pc[u] /\ loc'[u] = loc[u]
        /\ loc'[t].q = loc[t].q /\ loc'[t].tmp = gSend
    BY <1>3 DEF ReadGSendMsgCnt, objVars, countVars, TypeOK
  <2>2. Pending' = Pending
    BY <2>1 DEF Pending
  <2>3. \A q \in Queues : PendingAt(q)' = PendingAt(q)
    BY <2>1 DEF PendingAt, Counting
  <2> HIDE DEF Pending, PendingAt
  <2>7. polite => \A q \in Queues :
            /\ cnt[q] + Cardinality(PendingAt(q)) <= sent[q]
            /\ \A u \in PendingAt(q) :
                   pc'[u] = "p_write" => loc'[u].tmp + Cardinality(PendingAt(q)) <= sent[q]
    BY <1>p, <2>1 DEF CountInv
  <2>8. /\ gSend + Cardinality(Pending) <= total
        /\ \A u \in Threads : pc'[u] = "g_write" => loc'[u].tmp + Cardinality(Pending) <= total
    BY <2>1 DEF CountInv
  <2> QED BY <2>1, <2>2, <2>3, <2>7, <2>8 DEF CountInv
<1>4. ASSUME NEW t \in Threads, WriteGSendMsgCnt(t) PROVE CountInv'
  <2>1. /\ UNCHANGED <<total, polite, cnt, sent>> /\ pc[t] = "g_write" /\ pc'[t] \in {"idle", "p_read"}
        /\ \A u \in Threads \ {t} : pc'[u] = pc[u] /\ loc'[u] = loc[u]
        /\ gSend' = loc[t].tmp + 1 /\ (pc'[t] # "idle" => loc'[t] = loc[t])
    BY <1>4 DEF WriteGSendMsgCnt, Finish, objVars, TypeOK
  <2>2. Pending' = Pending \ {t} /\ t \in Pending
    BY <2>1 DEF Pending
  <2>3. \A q \in Queues : PendingAt(q)' \in SUBSET PendingAt(q)
    BY <2>1 DEF PendingAt, Counting
  <2>4. Cardinality(Pending') = Cardinality(Pending) - 1
    BY <1>p, <2>2, ThreadSets
  <2>5. \A q \in Queues : Cardinality(PendingAt(q)') \in Nat
                          /\ Cardinality(PendingAt(q)') <= Cardinality(PendingAt(q))
    BY <1>p, <2>3, ThreadSets
  <2>6. \A u \in Threads : pc'[u] \in {"g_write", "p_write"} => pc'[u] = pc[u] /\ loc'[u] = loc[u]
    BY <2>1
  <2> HIDE DEF Pending, PendingAt
  <2>7. polite => \A q \in Queues :
            /\ cnt[q] + Cardinality(PendingAt(q)') <= sent[q]
            /\ \A u \in PendingAt(q)' :
                   pc'[u] = "p_write" => loc'[u].tmp + Cardinality(PendingAt(q)') <= sent[q]
    BY <1>n, <1>p, <1>q, <2>3, <2>5, <2>6 DEF CountInv
  <2>8. /\ gSend' + Cardinality(Pending') <= total
        /\ \A u \in Threads : pc'[u] = "g_write" => loc'[u].tmp + Cardinality(Pending') <= total
    BY <1>n, <1>q, <2>1, <2>4, <2>6 DEF CountInv
  <2> QED BY <2>1, <2>7, <2>8 DEF CountInv
<1>5. ASSUME NEW t \in Threads, ReadSendMsgCnt(t) PROVE CountInv'
  <2>1. CASE loc[t].ptr \in gone
    BY <1>5, <2>1, CountSame DEF ReadSendMsgCnt, Fail, countVars, objVars
  <2>2. CASE loc[t].ptr \notin gone
    <3>1. /\ UNCHANGED <<gSend, total, polite, cnt, sent>> /\ pc[t] = "p_read" /\ pc'[t] = "p_write"
          /\ \A u \in Threads \ {t} : pc'[u] = pc[u] /\ loc'[u] = loc[u]
          /\ loc'[t].q = loc[t].q /\ loc'[t].tmp = cnt[loc[t].ptr]
      BY <1>5, <2>2 DEF ReadSendMsgCnt, objVars, countVars, TypeOK
    <3>2. Pending' = Pending
      BY <3>1 DEF Pending
    <3>3. \A q \in Queues : PendingAt(q)' = PendingAt(q)
      BY <3>1 DEF PendingAt, Counting
    <3>4. \A q \in Queues : t \in PendingAt(q) => loc[t].q = q
      BY DEF PendingAt
    <3> HIDE DEF Pending, PendingAt
    <3>7. polite => \A q \in Queues :
              /\ cnt[q] + Cardinality(PendingAt(q)) <= sent[q]
              /\ \A u \in PendingAt(q) :
                     pc'[u] = "p_write" => loc'[u].tmp + Cardinality(PendingAt(q)) <= sent[q]
      BY <1>c, <1>p, <3>1, <3>4 DEF CountInv
    <3>8. /\ gSend + Cardinality(Pending) <= total
          /\ \A u \in Threads : pc'[u] = "g_write" => loc'[u].tmp + Cardinality(Pending) <= total
      BY <3>1 DEF CountInv
    <3> QED BY <3>1, <3>2, <3>3, <3>7, <3>8 DEF CountInv
  <2> QED BY <2>1, <2>2
<1>6. ASSUME NEW t \in Threads, WriteSendMsgCnt(t) PROVE CountInv'
  <2>1. CASE loc[t].ptr \in gone
    BY <1>6, <2>1, CountSame DEF WriteSendMsgCnt, Fail, countVars, objVars
  <2>2. CASE loc[t].ptr \notin gone
    <3>1. /\ UNCHANGED <<gSend, total, polite, sent>> /\ pc[t] = "p_write" /\ pc'[t] = "idle"
          /\ \A u \in Threads \ {t} : pc'[u] = pc[u] /\ loc'[u] = loc[u]
          /\ \A q \in Queues : cnt'[q] = IF q = loc[t].ptr THEN loc[t].tmp + 1 ELSE cnt[q]
      BY <1>6, <2>2 DEF WriteSendMsgCnt, Finish, objVars, TypeOK
    <3>2. Pending' = Pending
      BY <3>1 DEF Pending
    <3>3. \A q \in Queues : PendingAt(q)' = PendingAt(q) \ {t}
      BY <3>1 DEF PendingAt, Counting
    <3>4. \A q \in Queues : t \in PendingAt(q) <=> loc[t].q = q
      BY <3>1 DEF PendingAt, Counting
    <3>5. \A q \in Queues : Cardinality(PendingAt(q)') =
              IF loc[t].q = q THEN Cardinality(PendingAt(q)) - 1 ELSE Cardinality(PendingAt(q))
      <4> SUFFICES ASSUME NEW q \in Queues
                   PROVE  Cardinality(PendingAt(q)') =
                          IF loc[t].q = q THEN Cardinality(PendingAt(q)) - 1 ELSE Cardinality(PendingAt(q))
        OBVIOUS
      <4> HIDE DEF PendingAt
      <4>1. CASE loc[t].q = q
        BY <1>p, <3>3, <3>4, <4>1, ThreadSets
      <4>2. CASE loc[t].q # q
        <5>1. PendingAt(q)' = PendingAt(q)
          BY <3>3, <3>4, <4>2
        <5> QED BY <4>2, <5>1
      <4> QED BY <4>1, <4>2
    <3>6. \A u \in Threads : pc'[u] \in {"g_write", "p_write"} => pc'[u] = pc[u] /\ loc'[u] = loc[u]
      BY <3>1
    <3> HIDE DEF Pending, PendingAt
    <3>7. polite => \A q \in Queues :
              /\ cnt'[q] + Cardinality(PendingAt(q)') <= sent[q]
              /\ \A u \in PendingAt(q)' :
                     pc'[u] = "p_write" => loc'[u].tmp + Cardinality(PendingAt(q)') <= sent[q]
      BY <1>c, <1>n, <1>p, <1>q, <3>1, <3>3, <3>4, <3>5, <3>6 DEF CountInv
    <3>8. /\ gSend + Cardinality(Pending) <= total
          /\ \A u \in Threads : pc'[u] = "g_write" => loc'[u].tmp + Cardinality(Pending) <= total
      BY <3>6 DEF CountInv
    <3> QED BY <3>1, <3>2, <3>7, <3>8 DEF CountInv
  <2> QED BY <2>1, <2>2
<1>7. ASSUME NEW t \in Threads,
             \/ AddMsgQueue(t) \/ Close(t) \/ DelMsgQueue(t) \/ Clear(t) \/ Unlink(t)
             \/ \E o \in Queues, goal \in {"close", "unlink", "delete"} : BeginClose(t, o, goal)
             \/ \E o \in Queues : DeleteUnopened(t, o)
             \/ \E o \in Queues, b \in Bufs : BeginSend(t, o, b)
             \/ MsgQueuePtr(t) \/ FreeRefused(t)
      PROVE  CountInv'
  <2>1. UNCHANGED <<total, gSend, cnt, sent, polite>>
    BY <1>7 DEF AddMsgQueue, Close, DelMsgQueue, Clear, Unlink, BeginClose, DeleteUnopened, BeginSend,
                MsgQueuePtr, FreeRefused, countVars, objVars
  <2>2. \A u \in Threads : pc'[u] \in Counting => pc'[u] = pc[u] /\ loc'[u] = loc[u]
    <3>1. CASE \/ AddMsgQueue(t) \/ Close(t) \/ DelMsgQueue(t) \/ Clear(t) \/ Unlink(t)
      BY <3>1 DEF AddMsgQueue, Close, DelMsgQueue, Clear, Unlink, Finish, Counting, TypeOK
    <3>2. CASE \/ \E o \in Queues, goal \in {"close", "unlink", "delete"} : BeginClose(t, o, goal)
               \/ \E o \in Queues : DeleteUnopened(t, o)
      BY <3>2 DEF BeginClose, DeleteUnopened, Counting, TypeOK
    <3>3. CASE \E o \in Queues, b \in Bufs : BeginSend(t, o, b)
      BY <3>3 DEF BeginSend, Counting, TypeOK
    <3>4. CASE MsgQueuePtr(t) \/ FreeRefused(t)
      BY <3>4 DEF MsgQueuePtr, FreeRefused, Finish, Counting, TypeOK
    <3> QED BY <1>7, <3>1, <3>2, <3>3, <3>4
  <2> QED BY <2>1, <2>2, CountSame
<1>8. ASSUME NEW o \in Queues, NEW b \in Bufs, Receive(o, b) PROVE CountInv'
  BY <1>8, CountSame DEF Receive, countVars, objVars
<1>9. CASE UNCHANGED vars
  BY <1>9, CountSame DEF vars
<1> QED BY <1>1, <1>2, <1>3, <1>4, <1>5, <1>6, <1>7, <1>8, <1>9 DEF Next, OwnerStep, SendStep

(* The counters are never ahead of the messages accepted, although they are  *)
(* read and written under no lock (MsgQueue.h:32-34, MsgQueue.cpp:176-184). *)
THEOREM CountersAreNotAhead == Spec => []CountsNotAhead
<1>1. Init => TypeOK /\ CallInv /\ BufInv /\ PoliteInv /\ CountInv
  BY TypeInit, BufInit, PoliteInit, CountInit
<1>2. TypeOK /\ CallInv /\ BufInv /\ PoliteInv /\ CountInv /\ [Next]_vars
          => (TypeOK /\ CallInv /\ BufInv /\ PoliteInv /\ CountInv)'
  BY TypeStep, BufStep, PoliteStep, CountStep
<1>3. TypeOK /\ CountInv => CountsNotAhead
  <2> SUFFICES ASSUME TypeOK, CountInv PROVE CountsNotAhead
    OBVIOUS
  <2>1. Cardinality(Pending) \in Nat /\ \A o \in Queues : Cardinality(PendingAt(o)) \in Nat
    BY ThreadSets DEF Pending, PendingAt
  <2> QED BY <2>1 DEF KQueues, CountInv, CountsNotAhead, TypeOK
<1> QED BY <1>1, <1>2, <1>3, PTL DEF Spec

=============================================================================
