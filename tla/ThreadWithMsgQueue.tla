------------------------ MODULE ThreadWithMsgQueue ------------------------
(* The message-loop thread of src/project/basic/ThreadWithMsgQueue.{h,cpp}:  *)
(* a ThreadObj whose ThreadFunction() reads a POSIX message queue until it   *)
(* is told to stop, either by the flag or by a MSG_ID_STOP_THREAD message.   *)
(*                                                                           *)
(* The module adds the queue and the worker's place in LoopReadMsg to the    *)
(* variables of ThreadObj and conjoins its steps with ThreadObj's actions.   *)
(* A message is only "msg" or "stop": nothing here looks at its payload.     *)
EXTENDS ThreadObj, Sequences

CONSTANTS
    QSize,      \* lMsgQueueSize of Init()
    SendKinds   \* what clients send: "msg", and "stop" for MSG_ID_STOP_THREAD

ASSUME QueueAssumption ==
    /\ QSize \in Nat \ {0}
    /\ SendKinds \subseteq {"msg", "stop"}

VARIABLES
    q,          \* the message queue that m_msgQueueFd of each object names
    initd,      \* m_initialized
    rfds,       \* m_rfds of the object's MsgQueue holds m_msgQueueFd
    childAlive, \* FALSE once ~ThreadWithMsgQueue has begun: ProcessMsg is pure
    mMtx,       \* the worker that holds m_mtx, or None
    wat,        \* where each worker is in LoopReadMsg and ThreadFunction
    got,        \* the message a worker has received
    refused,    \* history: the last stop message found the queue full
    unread,     \* history: no thread was left to read the last stop message
    backlog     \* history: the destructor's stop message came after a "msg"

history == <<refused, unread, backlog>>
mqVars == <<q, initd, rfds, childAlive, mMtx, wat, got, history>>
allVars == <<vars, mqVars>>

FlagLabels == {"del_put", "flag_join", "flag_detach"}
LoopLabels == {"check", "lock", "select", "old", "read", "dispatch", "clear", "out"}

\* A caller inside a destructor makes no other call before it is over.
Destroying(c) == \E o \in Objs : Owner[o] = c /\ ~childAlive[o] /\ life[o] # "gone"
MayUse(c, o) == MayCall(c, o) /\ ~Destroying(c)

MQInit ==
    /\ Init
    /\ q = [o \in Objs |-> <<>>]
    /\ initd = [o \in Objs |-> FALSE]
    /\ rfds = [o \in Objs |-> FALSE]
    /\ childAlive = [o \in Objs |-> TRUE]
    /\ mMtx = [o \in Objs |-> None]
    /\ wat = [w \in Workers |-> "out"]
    /\ got = [w \in Workers |-> "none"]
    /\ refused = [o \in Objs |-> FALSE]
    /\ unread = [o \in Objs |-> FALSE]
    /\ backlog = [o \in Objs |-> FALSE]

----------------------------------------------------------------------------
(* The API.  A call that is refused (not initialised, queue full, already    *)
(* running) leaves the state as it is and is not an action.                  *)
\* Open() makes a new queue also when there is one already: the old one stays
\* open and is out of reach.  A worker that is in select() or in Clear() may have
\* seen either descriptor; Clear() of the old queue is of no consequence.
InitQueue(c, o) ==
    /\ MayUse(c, o)
    /\ q' = [q EXCEPT ![o] = <<>>]
    /\ initd' = [initd EXCEPT ![o] = TRUE]
    /\ rfds' = [rfds EXCEPT ![o] = TRUE]
    /\ \E late \in SUBSET {w \in Workers : wpc[w] = "running" /\ wobj[w] = o} :
           wat' = [w \in Workers |->
                      CASE w \in late /\ wat[w] = "select" -> "old"
                        [] w \in late /\ wat[w] = "clear" -> "out"
                        [] OTHER -> wat[w]]
    /\ UNCHANGED <<vars, childAlive, mMtx, got, history>>

\* Anybody may send, and with the descriptor until the object has closed it.
SendMsg(c, o, m) ==
    /\ At(c, "idle") /\ ~Destroying(c)
    /\ life[o] = "child" /\ initd[o]
    /\ Len(q[o]) < QSize
    /\ q' = [q EXCEPT ![o] = Append(@, m)]
    /\ UNCHANGED <<vars, initd, rfds, childAlive, mMtx, wat, got, history>>

\* Mutant: StartThread that clears the stop flag of a running thread as well.
StartQueueThread_Reset(c, o) ==
    /\ MayUse(c, o) /\ initd[o]
    /\ \/ StartThread(c, o)
       \/ /\ Joinable(o)
          /\ stopReq' = [stopReq EXCEPT ![o] = FALSE]
          /\ UNCHANGED <<mThread, life, callerVars, workerVars, fault>>
    /\ UNCHANGED mqVars

StartQueueThread(c, o) ==
    /\ MayUse(c, o) /\ initd[o]
    /\ StartThread(c, o)
    /\ UNCHANGED mqVars

\* A worker whose Clear() has found the queue empty reads no more of it.
Over(w) == wpc[w] = "ended" \/ (wpc[w] = "running" /\ wat[w] = "out")
HasReader(o) == Joinable(o) /\ ~Over(mThread[o])

\* Mutant: StopThread that forgets the stop message.
PutStopMsg_None(o) ==
    /\ refused' = [refused EXCEPT ![o] = FALSE]
    /\ unread' = [unread EXCEPT ![o] = ~HasReader(o)]
    /\ UNCHANGED q

\* The result of sending the stop message is not looked at.
PutStopMsg(o) ==
    /\ IF Len(q[o]) < QSize
       THEN /\ q' = [q EXCEPT ![o] = Append(@, "stop")]
            /\ refused' = [refused EXCEPT ![o] = FALSE]
       ELSE /\ refused' = [refused EXCEPT ![o] = TRUE]
            /\ UNCHANGED q
    /\ unread' = [unread EXCEPT ![o] = ~HasReader(o)]

StopQueueThread(c, o, isWaiting) ==
    /\ MayUse(c, o) /\ initd[o]
    /\ PutStopMsg(o)
    /\ Go(c, IF isWaiting THEN "flag_join" ELSE "flag_detach", o)
    /\ UNCHANGED <<mThread, stopReq, life, gList, gListMtx, todo, workerVars, fault>>
    /\ UNCHANGED <<initd, rfds, childAlive, mMtx, wat, got, backlog>>

\* ... and then ThreadObj::StopThread(isWaiting).
StopAfterMsg(c) ==
    /\ pc[c] \in {"flag_join", "flag_detach"} /\ At(c, pc[c])
    /\ \/ StopBody(c, tgt[c], pc[c] = "flag_join")
       \/ /\ ~Joinable(tgt[c]) /\ Go(c, "idle", None)
          /\ UNCHANGED <<mThread, stopReq, gList, gListMtx, todo, workerVars, fault>>
    /\ UNCHANGED <<life, mqVars>>

\* ~ThreadWithMsgQueue: the derived part is gone ...
Delete(c, o) ==
    /\ MayUse(c, o)
    /\ childAlive' = [childAlive EXCEPT ![o] = FALSE]
    /\ IF initd[o] THEN Go(c, "del_put", o) ELSE UNCHANGED <<pc, tgt>>
    /\ UNCHANGED <<mThread, stopReq, life, gList, gListMtx, todo, workerVars, fault>>
    /\ UNCHANGED <<q, initd, rfds, mMtx, wat, got, history>>

HoldsMsg(w) == wpc[w] = "running" /\ wat[w] = "dispatch" /\ got[w] = "msg"

\* ... and StopThread(true) runs.
DeletePut(c) ==
    /\ At(c, "del_put")
    /\ LET o == tgt[c]
       IN  /\ PutStopMsg(o)
           /\ backlog' = [backlog EXCEPT ![o] =
                  \/ q[o] # <<>> /\ Head(q[o]) = "msg"
                  \/ \E w \in Workers : wobj[w] = o /\ HoldsMsg(w)]
           /\ Go(c, "flag_join", o)
    /\ UNCHANGED <<mThread, stopReq, life, gList, gListMtx, todo, workerVars, fault>>
    /\ UNCHANGED <<initd, rfds, childAlive, mMtx, wat, got>>

\* ~MsgQueue: Unlink() clears the queue message by message ...
DestroyDrain(c, o) ==
    /\ ~childAlive[o] /\ MayCall(c, o) /\ ~Joinable(o) /\ q[o] # <<>>
    /\ q' = [q EXCEPT ![o] = Tail(@)]
    /\ UNCHANGED <<vars, initd, rfds, childAlive, mMtx, wat, got, history>>

\* ... and closes it when it is empty; ~ThreadObj finds nothing left to stop.
Destroy(c, o) ==
    /\ ~childAlive[o] /\ DeleteStopped(c, o) /\ q[o] = <<>>
    /\ initd' = [initd EXCEPT ![o] = FALSE]
    /\ UNCHANGED <<q, rfds, childAlive, mMtx, wat, got, history>>

----------------------------------------------------------------------------
(* The worker: ThreadFunction and LoopReadMsg                                *)
Running(w, at) == fault = "none" /\ wpc[w] = "running" /\ wat[w] = at
Use(w) == life[wobj[w]] # "gone"
Step(w, label) == wat' = [wat EXCEPT ![w] = label]

Enter(w) ==
    /\ WorkerEnter(w)
    /\ Step(w, "check")
    /\ UNCHANGED <<q, initd, rfds, childAlive, mMtx, got, history>>

CheckStop(w) ==
    /\ Running(w, "check") /\ Use(w)
    /\ Step(w, IF stopReq[wobj[w]] THEN "clear" ELSE "lock")
    /\ UNCHANGED <<vars, q, initd, rfds, childAlive, mMtx, got, history>>

LockLoop(w) ==
    /\ Running(w, "lock") /\ Use(w) /\ mMtx[wobj[w]] = None
    /\ mMtx' = [mMtx EXCEPT ![wobj[w]] = w]
    /\ Step(w, "select")
    /\ UNCHANGED <<vars, q, initd, rfds, childAlive, got, history>>

EndRound(w) == /\ mMtx' = [mMtx EXCEPT ![wobj[w]] = None]
               /\ got' = [got EXCEPT ![w] = "none"]
               /\ Step(w, "check")
               /\ UNCHANGED <<q, initd, childAlive, history>>

\* select() without a timeout returns when there is something to read.  When
\* m_rfds names an old queue it returns for that one, or waits for nothing.
Select(w) ==
    /\ Running(w, "select") /\ Use(w)
    /\ \/ /\ rfds[wobj[w]] /\ q[wobj[w]] # <<>>
          /\ Step(w, "read")
          /\ UNCHANGED <<q, initd, childAlive, mMtx, got, history>>
       \/ /\ ~rfds[wobj[w]] /\ Step(w, "old")
          /\ UNCHANGED <<q, initd, childAlive, mMtx, got, history>>
       \/ ~rfds[wobj[w]] /\ EndRound(w)
    /\ UNCHANGED <<vars, rfds>>

\* select() fails (a signal) while nothing is ready; nothing makes it happen.
SelectFails(w) ==
    /\ Running(w, "old") \/ (Running(w, "select") /\ q[wobj[w]] = <<>>)
    /\ Use(w)
    /\ EndRound(w)
    /\ UNCHANGED <<vars, rfds>>

\* select() returns for a message in the old queue, which is not ours.
OldQueueReady(w) ==
    /\ Running(w, "old") /\ Use(w)
    /\ rfds' = [rfds EXCEPT ![wobj[w]] = FALSE]
    /\ EndRound(w)
    /\ UNCHANGED vars

\* Mutant: a read that leaves the message in the queue.
ReadMsg_Peek(w) ==
    /\ Running(w, "read") /\ Use(w) /\ q[wobj[w]] # <<>>
    /\ got' = [got EXCEPT ![w] = Head(q[wobj[w]])]
    /\ Step(w, "dispatch")
    /\ UNCHANGED <<vars, q, initd, rfds, childAlive, mMtx, history>>

\* mq_receive() on a non-blocking queue: an empty queue ends the round.
ReadMsg(w) ==
    /\ Running(w, "read") /\ Use(w)
    /\ LET o == wobj[w]
       IN  \/ /\ q[o] # <<>>
              /\ got' = [got EXCEPT ![w] = Head(q[o])]
              /\ q' = [q EXCEPT ![o] = Tail(@)]
              /\ Step(w, "dispatch")
              /\ UNCHANGED mMtx
           \/ /\ q[o] = <<>>
              /\ mMtx' = [mMtx EXCEPT ![o] = None]
              /\ Step(w, "check")
              /\ UNCHANGED <<q, got>>
    /\ UNCHANGED <<vars, initd, rfds, childAlive, history>>

DispatchStop(w) ==
    /\ Running(w, "dispatch") /\ got[w] = "stop"
    /\ WorkerRequestStop(w)
    /\ EndRound(w) /\ UNCHANGED rfds

\* ProcessMsg() is implemented by the derived class only.
ProcessMsg(w) ==
    /\ Running(w, "dispatch") /\ Use(w) /\ got[w] = "msg"
    /\ IF childAlive[wobj[w]]
       THEN EndRound(w) /\ UNCHANGED <<vars, rfds>>
       ELSE Fail("pure_virtual") /\ UNCHANGED mqVars

\* Mutant: ThreadFunction that does not clear the queue after the loop.
ClearQueue_Skip(w) ==
    /\ Running(w, "clear") /\ Use(w)
    /\ Step(w, "out")
    /\ UNCHANGED <<vars, q, initd, rfds, childAlive, mMtx, got, history>>

\* After the loop: m_msgQueue.Clear() receives until the queue is empty.
ClearQueue(w) ==
    /\ Running(w, "clear") /\ Use(w)
    /\ LET o == wobj[w]
       IN  \/ q[o] # <<>> /\ q' = [q EXCEPT ![o] = Tail(@)] /\ UNCHANGED wat
           \/ q[o] = <<>> /\ Step(w, "out") /\ UNCHANGED q
    /\ UNCHANGED <<vars, initd, rfds, childAlive, mMtx, got, history>>

\* ThreadFunction() returns; a step on an object that is gone fails instead.
Leave(w) ==
    /\ WorkerReturn(w)
    /\ wat[w] = "out" \/ ~Use(w)
    /\ UNCHANGED mqVars

----------------------------------------------------------------------------
MQContinue(c) ==
    \/ Continue(c) /\ UNCHANGED mqVars
    \/ StopAfterMsg(c) \/ DeletePut(c)
    \/ \E o \in Objs : DestroyDrain(c, o) \/ Destroy(c, o)

MQCall(c) ==
    \/ \E o \in Objs : InitQueue(c, o)
    \/ \E o \in Objs, m \in SendKinds : SendMsg(c, o, m)
    \/ \E o \in Objs : StartQueueThread(c, o)
    \/ \E o \in Objs, isWaiting \in WaitModes : StopQueueThread(c, o, isWaiting)
    \/ \E o \in Objs : Delete(c, o)
    \/ ~Destroying(c) /\ StopAllThreads(c) /\ UNCHANGED mqVars

MQWork(w) ==
    \/ Enter(w) \/ CheckStop(w) \/ LockLoop(w) \/ Select(w) \/ ReadMsg(w)
    \/ DispatchStop(w) \/ ProcessMsg(w) \/ ClearQueue(w) \/ Leave(w)

MQNext == \/ \E c \in Callers : MQCall(c) \/ MQContinue(c)
          \/ \E w \in Workers : MQWork(w) \/ SelectFails(w) \/ OldQueueReady(w)

MQSafetySpec == MQInit /\ [][MQNext]_allVars

\* Calls that have begun and workers that can run go on; nobody has to call, to
\* interrupt select(), or to send to a queue that was replaced.
MQFairness == /\ \A c \in Callers : WF_allVars(MQContinue(c))
              /\ \A w \in Workers : WF_allVars(MQWork(w))

MQSpec == MQSafetySpec /\ MQFairness

----------------------------------------------------------------------------
(* Properties                                                                *)

(* Type invariant; a queue never holds more than its lMsgQueueSize messages  *)
(* (ThreadWithMsgQueue.h). *)
MQTypeOK ==
    /\ q \in [Objs -> Seq({"msg", "stop"})]
    /\ \A o \in Objs : Len(q[o]) <= QSize
    /\ initd \in [Objs -> BOOLEAN]
    /\ childAlive \in [Objs -> BOOLEAN]
    /\ mMtx \in [Objs -> Workers \cup {None}]
    /\ wat \in [Workers -> LoopLabels]
    /\ got \in [Workers -> {"none", "msg", "stop"}]
    /\ rfds \in [Objs -> BOOLEAN]
    /\ refused \in [Objs -> BOOLEAN]
    /\ unread \in [Objs -> BOOLEAN]
    /\ backlog \in [Objs -> BOOLEAN]

\* Worker w sits in select() on its object's queue, and that is empty.
Blocked(w) == Alive(w) /\ wat[w] = "select" /\ q[wobj[w]] = <<>>

(* While StopThread(true) waits in join(), its worker is blocked in select()  *)
(* on the object's queue only if the stop message was refused by a full       *)
(* queue: otherwise the message wakes it, whatever it was doing when the flag *)
(* and the message came (ThreadWithMsgQueue.cpp:63-72, 85-98). *)
StuckOnlyIfRefused ==
    \A c \in Callers :
        pc[c] = "stop_join" /\ Joinable(tgt[c]) /\ Blocked(mThread[tgt[c]]) => refused[tgt[c]]

Stopping(o) == tgt[Owner[o]] = o /\ pc[Owner[o]] \in {"flag_join", "stop_join"}
HasStop(o) == \E i \in DOMAIN q[o] : q[o][i] = "stop"
HoldsStop(w) == wpc[w] = "running" /\ wat[w] = "dispatch" /\ got[w] = "stop"

(* A stop message is queued, and a thread has one or is told to stop, only    *)
(* while its owner is inside StopThread() or the destructor, unless an        *)
(* earlier StopThread() found no thread that would read its message: that one *)
(* stays and ends the next start (ThreadWithMsgQueue.cpp:63-78, 96-99). *)
StopOnlyIfAsked ==
    \A o \in Objs :
        HasStop(o) \/ (Joinable(o) /\ (stopReq[o] \/ HoldsStop(mThread[o]))) =>
            Stopping(o) \/ unread[o]

\* The owner is at the stop message of the destructor of o.
AtDelPut(o) == tgt[Owner[o]] = o /\ pc[Owner[o]] = "del_put"

(* ProcessMsg() is called on an object whose derived part is gone only if a   *)
(* message was dispatched or queued in front of the destructor's own stop     *)
(* message when that was sent, or before it was                               *)
(* (ThreadWithMsgQueue.h:39, ThreadWithMsgQueue.cpp:7-10, 63-72, 93). *)
PureCallNeedsBacklog ==
    fault = "pure_virtual" =>
        \E o \in Objs : ~childAlive[o] /\ (backlog[o] \/ AtDelPut(o))

(* Deleting an object whose thread runs fails in no other way: no join of a   *)
(* thread twice, no thread or message that touches the object when it is gone *)
(* (ThreadWithMsgQueue.cpp:7-10, ThreadObj.cpp:12-16). *)
FailsOnlyWithBacklog == fault \in {"none", "pure_virtual"} /\ PureCallNeedsBacklog

\* Init() was called while the thread was in select(), or between two: the
\* worker waits for, or finds in m_rfds, a queue that nobody reads.
Deaf(o) == ~rfds[o] \/ (Joinable(o) /\ wat[mThread[o]] = "old")

\* The clients of o never stop sending to it.
SendsGoOn(o) == []<><<\E c \in Callers, m \in SendKinds : SendMsg(c, o, m)>>_allVars

\* c is inside StopThread(true) or the destructor of o, behind its message.
Stops(c, o) == pc[c] \in {"flag_join", "stop_join"} /\ tgt[c] = o /\ ~refused[o] /\ ~Deaf(o)

(* A StopThread() or deletion whose stop message was accepted ends the loop,  *)
(* whoever goes on sending; it returns if the senders do not keep Clear() or  *)
(* ~MsgQueue busy for ever, or ends in a pure call                            *)
(* (ThreadWithMsgQueue.cpp:7-10, 63-78, MsgQueue.cpp:313-331). *)
StopReturnsUnlessRefused ==
    \A c \in Callers, o \in Objs :
        /\ Stops(c, o) ~> \/ ~Joinable(o) \/ wat[mThread[o]] \in {"clear", "out"}
                          \/ fault # "none"
        /\ SendsGoOn(o) \/ (Stops(c, o) ~> \/ pc[c] = "idle" /\ ~Destroying(c)
                                           \/ fault # "none")

(* A full queue of a started thread gets room again, or the thread ends, or   *)
(* Init() has taken the queue from it (ThreadWithMsgQueue.cpp:85-99). *)
BackPressureEnds ==
    \A o \in Objs :
        HasReader(o) /\ Len(q[o]) = QSize /\ ~Deaf(o) ~>
            Len(q[o]) < QSize \/ ~HasReader(o) \/ Deaf(o) \/ fault # "none"

(* StopAllThreads() returns: "the manager stop and clear all threads."        *)
(* (ThreadObj.h:82). *)
StopAllReturns == \A c \in Callers : pc[c] = "all_pick" ~> pc[c] = "idle"

\* The message-loop thread is a ThreadObj: sending the stop message is not a
\* step of the base class, which sees the caller outside any call until then;
\* a call of the pure ProcessMsg() is not a fault of the base class either.
BasePc == [c \in Callers |-> IF pc[c] \in FlagLabels THEN "idle" ELSE pc[c]]
BaseTgt == [c \in Callers |-> IF pc[c] \in FlagLabels THEN None ELSE tgt[c]]
BaseFault == IF fault = "pure_virtual" THEN "none" ELSE fault

Base == INSTANCE ThreadObj WITH
    StopFirst <- TRUE, fault <- BaseFault, pc <- BasePc, tgt <- BaseTgt

(* Whatever its clients do, a ThreadWithMsgQueue uses ThreadObj as an owner   *)
(* that always stops the thread before the base destructor runs: its own      *)
(* destructor has done it (ThreadWithMsgQueue.cpp:7-10). *)
UsesThreadObj == Base!SafetySpec

----------------------------------------------------------------------------
(* Inductive strengthenings.                                                 *)

\* Clients that always wait for the thread they stop.
NeverDetach == WaitModes = {TRUE}

\* ... so that a thread is always its object's.
AttachedInv ==
    /\ detached = {}
    /\ \A c \in Callers : pc[c] \notin {"flag_detach", "stop_detach"}

\* Nobody but owners stops threads: no StopAllThreads(), and clients send no
\* MSG_ID_STOP_THREAD of their own.
OnlyOwnersStop == NeverDetach /\ Managers = {} /\ SendKinds \subseteq {"msg"}

WillLook(w) == wpc[w] \in {"created", "ended"} \/ wat[w] \in {"check", "clear", "out"}

\* A stop message and a stop request belong to the StopThread() under way or to
\* one that found no reader; the worker that has to obey has the message before
\* it or knows of the request.
MsgServed(o) == HasStop(o) => unread[o] \/ (Joinable(o) /\ Stopping(o))
ThreadServed(o) ==
    Joinable(o) =>
        /\ stopReq[o] \/ HoldsStop(mThread[o]) => Stopping(o) \/ unread[o]
        /\ wpc[mThread[o]] = "running" /\ wat[mThread[o]] = "clear" => stopReq[o]
        /\ Over(mThread[o]) => stopReq[o] /\ (HasStop(o) => unread[o])
        /\ Stopping(o) /\ ~refused[o] =>
               \/ HasStop(o) \/ HoldsStop(mThread[o])
               \/ stopReq[o] /\ WillLook(mThread[o])

StopMsgInv ==
    /\ \A c \in Callers : pc[c] \in {"start_add", "start_spawn"} => ~stopReq[tgt[c]]
    /\ \A w \in Workers : wpc[w] # "running" => wat[w] # "select"
    /\ \A o \in Objs : MsgServed(o) /\ ThreadServed(o)

\* The destructor's stop message is put in front of whatever is sent later: a
\* worker that has no "msg" then will never get one.
Quiet(o) == ~childAlive[o] /\ ~backlog[o] /\ ~AtDelPut(o)
StopAhead(o) == q[o] # <<>> /\ Head(q[o]) = "stop"
QuietServed(o) ==
    Quiet(o) /\ Joinable(o) =>
        LET w == mThread[o]
        IN  /\ ~HoldsMsg(w)
            /\ \/ Over(w) \/ HoldsStop(w) \/ StopAhead(o)
               \/ wpc[w] = "running" /\ wat[w] = "clear"
               \/ stopReq[o] /\ wpc[w] = "running" /\ wat[w] = "check"

BacklogInv == PureCallNeedsBacklog /\ \A o \in Objs : QuietServed(o)

\* Only an object that is initialised and whole gets a thread.
Starting(o) == tgt[Owner[o]] = o /\ pc[Owner[o]] \in {"start_add", "start_spawn"}
ReadyInv == \A o \in Objs : /\ Joinable(o) => initd[o]
                            /\ Starting(o) => initd[o] /\ childAlive[o]

=============================================================================
