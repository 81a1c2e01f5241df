---------------------- MODULE ThreadWithMsgQueueProofs ----------------------
(* Theorems about ThreadWithMsgQueue                                         *)
(* (src/project/basic/ThreadWithMsgQueue.{h,cpp}) for any number of objects, *)
(* callers, managers and OS threads and any size of the queues.              *)
EXTENDS ThreadWithMsgQueue, TLAPS

----------------------------------------------------------------------------
(* A ThreadWithMsgQueue uses ThreadObj as its clients may.                   *)

\* Who is about to call ThreadObj::StopThread() owns the object, which is there.
FlagInv ==
    /\ pc = [c \in Callers |-> pc[c]] /\ tgt = [c \in Callers |-> tgt[c]]
    /\ life \in [Objs -> {"child", "gone"}]
    /\ wpc = [w \in Workers |-> wpc[w]] /\ wobj = [w \in Workers |-> wobj[w]]
    /\ \A c \in Callers :
           /\ pc[c] = "idle" => tgt[c] = None
           /\ pc[c] \in FlagLabels =>
                  tgt[c] \in Objs /\ Owner[tgt[c]] = c /\ life[tgt[c]] = "child"
           /\ pc[c] = "flag_detach" => FALSE \in WaitModes
           /\ pc[c] \in {"start_add", "start_spawn"} => tgt[c] \in Objs
    /\ \A w \in Workers : wpc[w] = "created" => wobj[w] \in Objs

LEMMA FlagInit == MQInit => FlagInv
BY ConstantsAssumption DEF MQInit, Init, FlagInv, FlagLabels

\* A step of one caller, seen by the base class.
LEMMA OneCaller ==
    ASSUME FlagInv, NEW c \in Callers, NEW label, NEW o, Go(c, label, o)
    PROVE  /\ BasePc' = [BasePc EXCEPT ![c] = IF label \in FlagLabels THEN "idle" ELSE label]
           /\ BaseTgt' = [BaseTgt EXCEPT ![c] = IF label \in FlagLabels THEN None ELSE o]
           /\ label \notin FlagLabels => Base!Go(c, label, o)
BY DEF FlagInv, BasePc, BaseTgt, Go, Base!Go

LEMMA NoCaller ==
    ASSUME UNCHANGED <<pc, tgt>> PROVE UNCHANGED <<BasePc, BaseTgt>>
BY DEF BasePc, BaseTgt

\* Between two steps of ThreadObj the base class sees nothing.
LEMMA Stutter ==
    ASSUME UNCHANGED vars PROVE UNCHANGED Base!vars
BY DEF vars, Base!vars, BasePc, BaseTgt, BaseFault

LEMMA BaseCallerStep ==
    ASSUME FlagInv, TRUE \in WaitModes, NEW c \in Callers, MQCall(c) \/ MQContinue(c)
    PROVE  [Base!Next]_(Base!vars)
<1> USE ConstantsAssumption DEF callerVars, workerVars, Joinable, Base!Joinable, FlagLabels
<1>a. /\ pc[c] \notin FlagLabels => BasePc[c] = pc[c] /\ BaseTgt[c] = tgt[c]
      /\ pc[c] \in FlagLabels => BasePc[c] = "idle"
      /\ fault = "none" => BaseFault = "none"
  BY DEF BasePc, BaseTgt, BaseFault
<1>b. UNCHANGED fault => UNCHANGED BaseFault
  BY DEF BaseFault
<1>1. ASSUME NEW o \in Objs, StartQueueThread(c, o) PROVE Base!Next
  <2>1. Go(c, "start_add", o) /\ MayCall(c, o)
    BY <1>1 DEF StartQueueThread, StartThread
  <2>2. Base!Go(c, "start_add", o)
    BY <2>1, OneCaller
  <2>3. Base!StartThread(c, o)
    BY <1>a, <1>b, <1>1, <2>2 DEF StartQueueThread, StartThread, Base!StartThread, MayCall, Base!MayCall, Base!workerVars
  <2> QED BY <2>3 DEF Base!Next, Base!Call
<1>2. CASE StopAllThreads(c)
  <2>1. Base!Go(c, "all_pick", None)
    BY <1>2, OneCaller DEF StopAllThreads
  <2>2. Base!StopAllThreads(c)
    BY <1>a, <1>b, <1>2, <2>1 DEF StopAllThreads, Base!StopAllThreads, At, Base!At, Base!workerVars
  <2> QED BY <2>2 DEF Base!Next, Base!Call
<1>3. ASSUME NEW o \in Objs, Destroy(c, o) PROVE Base!Next
  <2>1. Base!DeleteStopped(c, o)
    BY <1>a, <1>b, <1>3, NoCaller
    DEF Destroy, DeleteStopped, Base!DeleteStopped, MayCall, Base!MayCall, Base!workerVars, Base!callerVars
  <2> QED BY <2>1 DEF Base!Next, Base!Call
<1>4. CASE AddThreadObj(c)
  <2>1. Base!Go(c, "start_spawn", tgt[c])
    BY <1>4, OneCaller DEF AddThreadObj
  <2>2. Base!AddThreadObj(c)
    BY <1>a, <1>b, <1>4, <2>1 DEF AddThreadObj, Base!AddThreadObj, At, Base!At, Base!workerVars
  <2> QED BY <2>2 DEF Base!Next, Base!Continue
<1>5. ASSUME NEW w \in Workers, SpawnThread(c, w) PROVE Base!Next
  <2>1. Base!Go(c, "idle", None)
    BY <1>5, OneCaller DEF SpawnThread
  <2>2. Base!SpawnThread(c, w)
    BY <1>a, <1>b, <1>5, <2>1 DEF SpawnThread, Base!SpawnThread, At, Base!At
  <2> QED BY <2>2 DEF Base!Next, Base!Continue
<1>6. CASE JoinThread(c)
  <2>1. ASSUME NEW kind \in {"use_after_free", "system_error"}, Fail(kind) PROVE Base!Fail(kind)
    BY <2>1, NoCaller DEF Fail, Base!Fail, Base!callerVars, Base!workerVars, BaseFault
  <2>2. ASSUME NEW label \in {"stop_del", "all_pick"}, NEW o, Go(c, label, o) PROVE Base!Go(c, label, o)
    BY <2>2, OneCaller
  <2>3. Base!JoinThread(c)
    BY <1>a, <1>b, <1>6, <2>1, <2>2
    DEF JoinThread, Base!JoinThread, JoinLabels, Base!JoinLabels, At, Base!At
  <2> QED BY <2>3 DEF Base!Next, Base!Continue
<1>7. CASE DetachThread(c)
  <2>1. Fail("system_error") => Base!Fail("system_error")
    BY NoCaller DEF Fail, Base!Fail, Base!callerVars, Base!workerVars, BaseFault
  <2>2. ASSUME NEW o, Go(c, "stop_del", o) PROVE Base!Go(c, "stop_del", o)
    BY <2>2, OneCaller
  <2>3. Base!DetachThread(c)
    BY <1>a, <1>b, <1>7, <2>1, <2>2 DEF DetachThread, Base!DetachThread, At, Base!At, Alive, Base!Alive
  <2> QED BY <2>3 DEF Base!Next, Base!Continue
<1>8. CASE DelThreadObj(c)
  <2>1. Base!Go(c, "idle", None)
    BY <1>8, OneCaller DEF DelThreadObj
  <2>2. Base!DelThreadObj(c)
    BY <1>a, <1>b, <1>8, <2>1 DEF DelThreadObj, Base!DelThreadObj, At, Base!At, Base!workerVars
  <2> QED BY <2>2 DEF Base!Next, Base!Continue
<1>9. ASSUME NEW o \in Objs, StopAllNext(c, o) PROVE Base!Next
  <2>1. Fail("use_after_free") => Base!Fail("use_after_free")
    BY NoCaller DEF Fail, Base!Fail, Base!callerVars, Base!workerVars, BaseFault
  <2>2. Go(c, "all_join", o) => Base!Go(c, "all_join", o)
    BY OneCaller
  <2>3. Base!StopAllNext(c, o)
    BY <1>a, <1>b, <1>9, <2>1, <2>2, NoCaller
    DEF StopAllNext, Base!StopAllNext, At, Base!At, Base!workerVars
  <2> QED BY <2>3 DEF Base!Next, Base!Continue
<1>10. CASE StopAllDone(c)
  <2>1. Base!Go(c, "idle", None)
    BY <1>10, OneCaller DEF StopAllDone
  <2>2. Base!StopAllDone(c)
    BY <1>a, <1>b, <1>10, <2>1 DEF StopAllDone, Base!StopAllDone, At, Base!At, Base!workerVars
  <2> QED BY <2>2 DEF Base!Next, Base!Continue
<1>11. CASE StopAfterMsg(c)
  <2>0. /\ fault = "none" /\ pc[c] \in FlagLabels /\ tgt[c] \in Objs /\ Owner[tgt[c]] = c
        /\ life[tgt[c]] = "child" /\ (pc[c] = "flag_join") \in WaitModes
    BY <1>11 DEF StopAfterMsg, At, FlagInv
  <2>1. CASE StopBody(c, tgt[c], pc[c] = "flag_join")
    <3>1. PICK o \in Objs, isWaiting \in WaitModes : o = tgt[c] /\ isWaiting = (pc[c] = "flag_join")
      BY <2>0
    <3>2. StopBody(c, o, isWaiting)
      BY <2>1, <3>1
    <3>3. Base!Go(c, IF isWaiting THEN "stop_join" ELSE "stop_detach", o)
      BY <3>2, OneCaller DEF StopBody
    <3>4. Base!StopBody(c, o, isWaiting)
      BY <1>b, <3>2, <3>3 DEF StopBody, Base!StopBody, Base!workerVars
    <3>5. Base!StopThread(c, o, isWaiting)
      BY <1>a, <1>11, <2>0, <3>1, <3>4 DEF StopAfterMsg, Base!StopThread, Base!MayCall
    <3> QED BY <3>5 DEF Base!Next, Base!Call
  <2>2. CASE Go(c, "idle", None) /\ UNCHANGED <<mThread, stopReq, gList, gListMtx, todo, workerVars, fault>>
    <3>1. UNCHANGED <<BasePc, BaseTgt>>
      BY <2>0, <2>2 DEF Go, FlagInv, BasePc, BaseTgt
    <3> QED BY <1>b, <1>11, <2>2, <3>1 DEF StopAfterMsg, Base!vars
  <2> QED BY <1>11, <2>1, <2>2 DEF StopAfterMsg
<1>12. ASSUME NEW o \in Objs,
              \/ InitQueue(c, o) \/ \E m \in SendKinds : SendMsg(c, o, m)
              \/ DestroyDrain(c, o) \/ (Delete(c, o) /\ ~initd[o])
       PROVE  UNCHANGED Base!vars
  BY <1>12, Stutter DEF InitQueue, SendMsg, Delete, DestroyDrain, vars
<1>13. ASSUME NEW o \in Objs, NEW label \in FlagLabels, MayUse(c, o), Go(c, label, o),
              UNCHANGED <<mThread, stopReq, life, gList, gListMtx, todo, workerVars, fault>>
       PROVE  UNCHANGED Base!vars
  <2>1. pc[c] = "idle" /\ tgt[c] = None
    BY <1>13 DEF MayUse, MayCall, FlagInv
  <2>2. UNCHANGED <<BasePc, BaseTgt>>
    BY <1>13, <2>1 DEF Go, FlagInv, BasePc, BaseTgt
  <2> QED BY <1>b, <1>13, <2>2 DEF Base!vars
<1>14. ASSUME NEW o \in Objs, NEW isWaiting \in WaitModes, StopQueueThread(c, o, isWaiting)
       PROVE  UNCHANGED Base!vars
  <2>1. PICK label \in FlagLabels : label = IF isWaiting THEN "flag_join" ELSE "flag_detach"
    OBVIOUS
  <2> QED BY <1>13, <1>14, <2>1 DEF StopQueueThread
<1>15. ASSUME NEW o \in Objs, Delete(c, o), initd[o] PROVE UNCHANGED Base!vars
  BY <1>13, <1>15 DEF Delete
<1>16. CASE DeletePut(c)
  <2>1. /\ pc[c] = "del_put" /\ Go(c, "flag_join", tgt[c])
        /\ UNCHANGED <<mThread, stopReq, life, gList, gListMtx, todo, workerVars, fault>>
    BY <1>16 DEF DeletePut, At
  <2>2. UNCHANGED <<BasePc, BaseTgt>>
    BY <2>1 DEF Go, FlagInv, BasePc, BaseTgt
  <2> QED BY <1>b, <2>1, <2>2 DEF Base!vars
<1> QED
  BY <1>1, <1>2, <1>3, <1>4, <1>5, <1>6, <1>7, <1>8, <1>9, <1>10, <1>11, <1>12, <1>14, <1>15, <1>16
  DEF MQCall, MQContinue, Continue

LEMMA BaseWorkerStep ==
    ASSUME FlagInv, NEW w \in Workers, MQWork(w) \/ SelectFails(w) \/ OldQueueReady(w)
    PROVE  [Base!Next]_(Base!vars)
<1> USE ConstantsAssumption DEF callerVars, workerVars, Joinable, Base!Joinable
<1>a. fault = "none" => BaseFault = "none"
  BY DEF BaseFault
<1>b. UNCHANGED fault => UNCHANGED BaseFault
  BY DEF BaseFault
<1>c. Fail("use_after_free") => Base!Fail("use_after_free")
  BY NoCaller DEF Fail, Base!Fail, Base!callerVars, Base!workerVars, BaseFault
<1>1. CASE Enter(w)
  <2>1. life[wobj[w]] # "base"
    BY <1>1 DEF Enter, WorkerEnter, FlagInv
  <2>2. Base!WorkerEnter(w)
    BY <1>a, <1>b, <1>c, <1>1, <2>1, NoCaller DEF Enter, WorkerEnter, Base!WorkerEnter, Base!callerVars
  <2> QED BY <2>2 DEF Base!Next, Base!Work
<1>2. CASE DispatchStop(w)
  <2>1. Base!WorkerRequestStop(w)
    BY <1>a, <1>b, <1>2, NoCaller
    DEF DispatchStop, WorkerRequestStop, Base!WorkerRequestStop, Base!callerVars, Base!workerVars
  <2> QED BY <2>1 DEF Base!Next, Base!Work
<1>3. CASE Leave(w)
  <2>1. Base!WorkerReturn(w)
    BY <1>a, <1>b, <1>c, <1>3, NoCaller DEF Leave, WorkerReturn, Base!WorkerReturn, Base!callerVars
  <2> QED BY <2>1 DEF Base!Next, Base!Work
<1>4. CASE ProcessMsg(w)
  <2>1. CASE Fail("pure_virtual")
    <3>1. fault = "none" /\ UNCHANGED BaseFault
      BY <1>4, <2>1 DEF ProcessMsg, Running, Fail, BaseFault
    <3> QED BY <2>1, <3>1, NoCaller DEF Fail, Base!vars
  <2>2. CASE UNCHANGED vars
    BY <2>2, Stutter
  <2> QED BY <1>4, <2>1, <2>2 DEF ProcessMsg
<1>5. CASE \/ CheckStop(w) \/ LockLoop(w) \/ Select(w) \/ ReadMsg(w) \/ ClearQueue(w)
           \/ SelectFails(w) \/ OldQueueReady(w)
  BY <1>5, Stutter DEF CheckStop, LockLoop, Select, ReadMsg, ClearQueue, SelectFails, OldQueueReady
<1> QED BY <1>1, <1>2, <1>3, <1>4, <1>5 DEF MQWork

\* Calls go on, and threads end, without disturbing it.
LEMMA FlagGo ==
    ASSUME FlagInv, NEW c \in Callers, NEW label, NEW o, Go(c, label, o), UNCHANGED life,
           label \notin FlagLabels \cup {"start_add", "start_spawn"}, label = "idle" => o = None,
           wpc' = [w \in Workers |-> wpc'[w]], wobj' = [w \in Workers |-> wobj'[w]],
           \A w \in Workers : wpc'[w] = "created" => wpc[w] = "created" /\ wobj'[w] = wobj[w]
    PROVE  FlagInv'
<1>1. /\ pc' = [x \in Callers |-> IF x = c THEN label ELSE pc[x]]
      /\ tgt' = [x \in Callers |-> IF x = c THEN o ELSE tgt[x]]
  BY DEF Go, FlagInv
<1>2. pc' = [x \in Callers |-> pc'[x]] /\ tgt' = [x \in Callers |-> tgt'[x]]
  BY <1>1
<1>3. \A x \in Callers :
          /\ pc'[x] = "idle" => tgt'[x] = None
          /\ pc'[x] \in FlagLabels =>
                 tgt'[x] \in Objs /\ Owner[tgt'[x]] = x /\ life[tgt'[x]] = "child"
          /\ pc'[x] = "flag_detach" => FALSE \in WaitModes
          /\ pc'[x] \in {"start_add", "start_spawn"} => tgt'[x] \in Objs
  <2> SUFFICES ASSUME NEW x \in Callers
               PROVE  /\ pc'[x] = "idle" => tgt'[x] = None
                      /\ pc'[x] \in FlagLabels =>
                             tgt'[x] \in Objs /\ Owner[tgt'[x]] = x /\ life[tgt'[x]] = "child"
                      /\ pc'[x] = "flag_detach" => FALSE \in WaitModes
                      /\ pc'[x] \in {"start_add", "start_spawn"} => tgt'[x] \in Objs
    OBVIOUS
  <2>1. CASE x = c
    BY <1>1, <2>1 DEF FlagLabels
  <2>2. CASE x # c
    BY <1>1, <2>2 DEF FlagInv
  <2> QED BY <2>1, <2>2
<1>4. \A w \in Workers : wpc'[w] = "created" => wobj'[w] \in Objs
  BY DEF FlagInv
<1> QED BY <1>2, <1>3, <1>4 DEF FlagInv

\* The first half of StopThread(): the stop message.
LEMMA FlagStop ==
    ASSUME FlagInv, NEW c \in Callers, NEW label \in FlagLabels, NEW o \in Objs, Go(c, label, o),
           Owner[o] = c, life[o] = "child", UNCHANGED <<life, wpc, wobj>>,
           label = "flag_detach" => FALSE \in WaitModes
    PROVE  FlagInv'
<1>1. /\ pc' = [x \in Callers |-> IF x = c THEN label ELSE pc[x]]
      /\ tgt' = [x \in Callers |-> IF x = c THEN o ELSE tgt[x]]
  BY DEF Go, FlagInv
<1>2. pc' = [x \in Callers |-> pc'[x]] /\ tgt' = [x \in Callers |-> tgt'[x]]
  BY <1>1
<1>3. ASSUME NEW x \in Callers
      PROVE  /\ pc'[x] = "idle" => tgt'[x] = None
             /\ pc'[x] \in FlagLabels =>
                    tgt'[x] \in Objs /\ Owner[tgt'[x]] = x /\ life[tgt'[x]] = "child"
             /\ pc'[x] = "flag_detach" => FALSE \in WaitModes
             /\ pc'[x] \in {"start_add", "start_spawn"} => tgt'[x] \in Objs
  <2>1. CASE x = c
    BY <1>1, <2>1 DEF FlagLabels
  <2>2. CASE x # c
    BY <1>1, <2>2 DEF FlagInv
  <2> QED BY <2>1, <2>2
<1> QED BY <1>2, <1>3 DEF FlagInv

LEMMA FlagThreads ==
    ASSUME FlagInv, UNCHANGED <<pc, tgt, life>>,
           wpc' = [w \in Workers |-> wpc'[w]], wobj' = [w \in Workers |-> wobj'[w]],
           \A w \in Workers : wpc'[w] = "created" => wpc[w] = "created" /\ wobj'[w] = wobj[w]
    PROVE  FlagInv'
BY DEF FlagInv

LEMMA FlagStep == FlagInv /\ [MQNext]_allVars => FlagInv'
<1> SUFFICES ASSUME FlagInv, [MQNext]_allVars PROVE FlagInv'
  OBVIOUS
<1> USE ConstantsAssumption DEF vars, callerVars, workerVars, FlagLabels, Go, At, Fail
<1>1. ASSUME NEW c \in Callers, NEW o \in Objs, StartQueueThread(c, o) PROVE FlagInv'
  BY <1>1 DEF StartQueueThread, StartThread, MayCall, FlagInv
<1>2. ASSUME NEW c \in Callers, StopAllThreads(c) PROVE FlagInv'
  BY <1>2 DEF StopAllThreads, FlagInv
<1>3. ASSUME NEW c \in Callers, NEW o \in Objs, Destroy(c, o) PROVE FlagInv'
  BY <1>3 DEF Destroy, DeleteStopped, MayCall, FlagInv
<1>4. ASSUME NEW c \in Callers, AddThreadObj(c) PROVE FlagInv'
  BY <1>4 DEF AddThreadObj, FlagInv
<1>5. ASSUME NEW c \in Callers, NEW w \in Workers, SpawnThread(c, w) PROVE FlagInv'
  BY <1>5 DEF SpawnThread, FlagInv
<1>6. ASSUME NEW c \in Callers, JoinThread(c) PROVE FlagInv'
  <2>1. CASE UNCHANGED <<pc, tgt, life, wpc, wobj>>
    BY <2>1 DEF FlagInv
  <2>2. ASSUME NEW label \in {"stop_del", "all_pick"}, NEW o, Go(c, label, o), UNCHANGED life,
               wpc' = [wpc EXCEPT ![mThread[tgt[c]]] = "none"],
               wobj' = [wobj EXCEPT ![mThread[tgt[c]]] = None], wpc[mThread[tgt[c]]] = "ended"
        PROVE  FlagInv'
    <3>1. PICK v : v = mThread[tgt[c]]
      OBVIOUS
    <3>2. wpc = [w \in Workers |-> wpc[w]] /\ wobj = [w \in Workers |-> wobj[w]]
      BY DEF FlagInv
    <3>3. /\ wpc' = [w \in Workers |-> wpc'[w]] /\ wobj' = [w \in Workers |-> wobj'[w]]
          /\ \A w \in Workers : wpc'[w] = "created" => wpc[w] = "created" /\ wobj'[w] = wobj[w]
      BY <2>2, <3>1, <3>2
    <3> QED BY <2>2, <3>3, FlagGo
  <2> QED BY <1>6, <2>1, <2>2 DEF JoinThread
<1>7. ASSUME NEW c \in Callers, DetachThread(c) PROVE FlagInv'
  <2>1. CASE UNCHANGED <<pc, tgt, life, wpc, wobj>>
    BY <2>1 DEF FlagInv
  <2>2. CASE Go(c, "stop_del", tgt[c]) /\ UNCHANGED life
             /\ (\/ UNCHANGED <<wpc, wobj>>
                 \/ /\ wpc[mThread[tgt[c]]] # "created"
                    /\ wpc' = [wpc EXCEPT ![mThread[tgt[c]]] = "none"]
                    /\ wobj' = [wobj EXCEPT ![mThread[tgt[c]]] = None])
    <3>1. PICK v : v = mThread[tgt[c]]
      OBVIOUS
    <3>2. wpc = [w \in Workers |-> wpc[w]] /\ wobj = [w \in Workers |-> wobj[w]]
      BY DEF FlagInv
    <3>3. /\ wpc' = [w \in Workers |-> wpc'[w]] /\ wobj' = [w \in Workers |-> wobj'[w]]
          /\ \A w \in Workers : wpc'[w] = "created" => wpc[w] = "created" /\ wobj'[w] = wobj[w]
      BY <2>2, <3>1, <3>2
    <3> QED BY <2>2, <3>3, FlagGo
  <2> QED BY <1>7, <2>1, <2>2 DEF DetachThread, Alive
<1>8. ASSUME NEW c \in Callers, DelThreadObj(c) PROVE FlagInv'
  BY <1>8 DEF DelThreadObj, FlagInv
<1>9. ASSUME NEW c \in Callers, NEW o \in Objs, StopAllNext(c, o) PROVE FlagInv'
  <2>1. CASE UNCHANGED <<pc, tgt, life, wpc, wobj>>
    BY <2>1 DEF FlagInv
  <2>2. CASE Go(c, "all_join", o) /\ UNCHANGED <<life, wpc, wobj>>
    BY <2>2, FlagGo DEF FlagInv
  <2> QED BY <1>9, <2>1, <2>2 DEF StopAllNext
<1>10. ASSUME NEW c \in Callers, StopAllDone(c) PROVE FlagInv'
  BY <1>10 DEF StopAllDone, FlagInv
<1>11. ASSUME NEW c \in Callers, StopAfterMsg(c) PROVE FlagInv'
  <2>1. PICK label, o : /\ label \in {"stop_join", "stop_detach", "idle"}
                        /\ Go(c, label, o) /\ (label = "idle" => o = None)
    BY <1>11 DEF StopAfterMsg, StopBody
  <2>2. UNCHANGED <<life, wpc, wobj>>
    BY <1>11 DEF StopAfterMsg, StopBody
  <2>3. label \notin FlagLabels \cup {"start_add", "start_spawn"}
    BY <2>1 DEF FlagLabels
  <2>4. /\ wpc' = [w \in Workers |-> wpc'[w]] /\ wobj' = [w \in Workers |-> wobj'[w]]
        /\ \A w \in Workers : wpc'[w] = "created" => wpc[w] = "created" /\ wobj'[w] = wobj[w]
    BY <2>2 DEF FlagInv
  <2> HIDE DEF Go
  <2> QED BY <2>1, <2>2, <2>3, <2>4, FlagGo
<1>12. ASSUME NEW c \in Callers, NEW o \in Objs,
              \/ InitQueue(c, o) \/ \E m \in SendKinds : SendMsg(c, o, m)
              \/ DestroyDrain(c, o) \/ (Delete(c, o) /\ ~initd[o])
       PROVE  FlagInv'
  BY <1>12 DEF InitQueue, SendMsg, Delete, DestroyDrain, FlagInv
<1>13. ASSUME NEW c \in Callers, NEW o \in Objs, NEW isWaiting \in WaitModes,
              StopQueueThread(c, o, isWaiting)
       PROVE  FlagInv'
  <2>1. Owner[o] = c /\ life[o] = "child" /\ UNCHANGED <<life, wpc, wobj>>
    BY <1>13 DEF StopQueueThread, MayUse, MayCall
  <2>2. Go(c, "flag_join", o) \/ (Go(c, "flag_detach", o) /\ FALSE \in WaitModes)
    BY <1>13 DEF StopQueueThread
  <2>3. "flag_join" \in FlagLabels /\ "flag_detach" \in FlagLabels
    BY DEF FlagLabels
  <2> HIDE DEF Go, FlagLabels
  <2>4. CASE Go(c, "flag_join", o)
    BY <2>1, <2>3, <2>4, FlagStop
  <2>5. CASE Go(c, "flag_detach", o) /\ FALSE \in WaitModes
    BY <2>1, <2>3, <2>5, FlagStop
  <2> QED BY <2>2, <2>4, <2>5
<1>14. ASSUME NEW c \in Callers, NEW o \in Objs, Delete(c, o), initd[o] PROVE FlagInv'
  <2>1. /\ Owner[o] = c /\ life[o] = "child" /\ UNCHANGED <<life, wpc, wobj>>
        /\ Go(c, "del_put", o)
    BY <1>14 DEF Delete, MayUse, MayCall
  <2>2. "del_put" \in FlagLabels
    BY DEF FlagLabels
  <2> HIDE DEF Go, FlagLabels
  <2> QED BY <2>1, <2>2, FlagStop
<1>15. ASSUME NEW w \in Workers, Enter(w) PROVE FlagInv'
  <2>1. UNCHANGED <<pc, tgt, life, wobj>> /\ wpc' \in {wpc, [wpc EXCEPT ![w] = "running"]}
    BY <1>15 DEF Enter, WorkerEnter
  <2>2. /\ wpc' = [v \in Workers |-> wpc'[v]] /\ wobj' = [v \in Workers |-> wobj'[v]]
        /\ \A v \in Workers : wpc'[v] = "created" => wpc[v] = "created"
    BY <2>1 DEF FlagInv
  <2> QED BY <2>1, <2>2, FlagThreads
<1>16. ASSUME NEW w \in Workers, Leave(w) PROVE FlagInv'
  <2>1. UNCHANGED <<pc, tgt, life>>
    BY <1>16 DEF Leave, WorkerReturn
  <2>2. wpc = [u \in Workers |-> wpc[u]] /\ wobj = [u \in Workers |-> wobj[u]]
    BY DEF FlagInv
  <2>3. /\ wpc' = [u \in Workers |-> wpc'[u]] /\ wobj' = [u \in Workers |-> wobj'[u]]
        /\ \A u \in Workers : wpc'[u] = "created" => wpc[u] = "created" /\ wobj'[u] = wobj[u]
    BY <1>16, <2>2 DEF Leave, WorkerReturn
  <2> QED BY <2>1, <2>3, FlagThreads
<1>17. ASSUME NEW w \in Workers,
              \/ CheckStop(w) \/ LockLoop(w) \/ Select(w) \/ ReadMsg(w) \/ SelectFails(w)
              \/ OldQueueReady(w) \/ DispatchStop(w) \/ ProcessMsg(w) \/ ClearQueue(w)
       PROVE  FlagInv'
  BY <1>17 DEF CheckStop, LockLoop, Select, ReadMsg, SelectFails, OldQueueReady, DispatchStop,
               WorkerRequestStop, ProcessMsg, ClearQueue, FlagInv
<1>18. CASE UNCHANGED allVars
  BY <1>18 DEF allVars, FlagInv
<1>19. ASSUME NEW c \in Callers, DeletePut(c) PROVE FlagInv'
  <2>1. PICK o \in Objs : o = tgt[c]
    BY <1>19 DEF DeletePut, FlagInv
  <2>2. /\ Owner[o] = c /\ life[o] = "child" /\ UNCHANGED <<life, wpc, wobj>>
        /\ Go(c, "flag_join", o)
    BY <1>19, <2>1 DEF DeletePut, FlagInv
  <2>3. "flag_join" \in FlagLabels
    BY DEF FlagLabels
  <2> HIDE DEF Go, FlagLabels
  <2> QED BY <2>2, <2>3, FlagStop
<1> QED
  BY <1>1, <1>2, <1>3, <1>4, <1>5, <1>6, <1>7, <1>8, <1>9, <1>10, <1>11, <1>12, <1>13, <1>14, <1>15,
     <1>16, <1>17, <1>18, <1>19
  DEF MQNext, MQCall, MQContinue, MQWork, Continue

(* Sent and received messages, refused stop messages and the steps of         *)
(* LoopReadMsg() are nothing to ThreadObj, and everything else that a         *)
(* ThreadWithMsgQueue does is a step that ThreadObj allows its clients, with   *)
(* the thread stopped before the base destructor runs                         *)
(* (ThreadWithMsgQueue.cpp:7-10, 52-72). *)
THEOREM QueueThreadIsAThreadObj ==
    ASSUME TRUE \in WaitModes
    PROVE  MQSafetySpec => UsesThreadObj
<1>1. MQInit => Base!Init
  BY ConstantsAssumption DEF MQInit, Init, Base!Init, BasePc, BaseTgt, BaseFault, FlagLabels
<1>2. FlagInv /\ [MQNext]_allVars => [Base!Next]_(Base!vars)
  <2>1. UNCHANGED allVars => UNCHANGED Base!vars
    BY Stutter DEF allVars
  <2> QED BY <2>1, BaseCallerStep, BaseWorkerStep DEF MQNext
<1> QED BY <1>1, <1>2, FlagInit, FlagStep, PTL DEF MQSafetySpec, UsesThreadObj, Base!SafetySpec

----------------------------------------------------------------------------
(* What ThreadObjProofs proves of ThreadObj holds of the base class.         *)

PB == INSTANCE ThreadObjProofs WITH
    StopFirst <- TRUE, fault <- BaseFault, pc <- BasePc, tgt <- BaseTgt

LEMMA SameBase == Base!SafetySpec => PB!SafetySpec
BY DEF Base!SafetySpec, PB!SafetySpec, Base!Init, PB!Init, Base!vars, PB!vars, Base!Next,
       PB!Next, Base!Call, PB!Call, Base!Continue, PB!Continue, Base!Work, PB!Work,
       Base!StartThread, PB!StartThread, Base!StopThread, PB!StopThread, Base!StopBody,
       PB!StopBody, Base!DeleteRunning, PB!DeleteRunning, Base!DeleteStopped, PB!DeleteStopped,
       Base!StopAllThreads, PB!StopAllThreads, Base!AddThreadObj, PB!AddThreadObj,
       Base!SpawnThread, PB!SpawnThread, Base!JoinThread, PB!JoinThread, Base!DetachThread,
       PB!DetachThread, Base!DelThreadObj, PB!DelThreadObj, Base!StopAllNext, PB!StopAllNext,
       Base!StopAllDone, PB!StopAllDone, Base!WorkerEnter, PB!WorkerEnter,
       Base!WorkerRequestStop, PB!WorkerRequestStop, Base!WorkerReturn, PB!WorkerReturn,
       Base!Fail, PB!Fail, Base!Go, PB!Go, Base!At, PB!At, Base!MayCall, PB!MayCall,
       Base!Joinable, PB!Joinable, Base!Alive, PB!Alive, Base!JoinLabels, PB!JoinLabels,
       Base!callerVars, PB!callerVars, Base!workerVars, PB!workerVars

LEMMA BaseInvariant ==
    ASSUME TRUE \in WaitModes
    PROVE  MQSafetySpec => [](FlagInv /\ PB!ThreadInv)
<1>1. PB!SafetySpec => [](PB!ThreadInv)
  BY ConstantsAssumption, PB!ThreadInvariant
<1>2. MQSafetySpec => []FlagInv
  BY FlagInit, FlagStep, PTL DEF MQSafetySpec
<1>3. UsesThreadObj <=> Base!SafetySpec
  BY DEF UsesThreadObj
<1> QED BY <1>1, <1>2, <1>3, QueueThreadIsAThreadObj, SameBase, PTL

\* Its invariant in terms of the variables of this module.
BaseInv ==
    /\ mThread \in [Objs -> Workers \cup {None}] /\ stopReq \in [Objs -> BOOLEAN]
    /\ pc \in [Callers -> Labels \cup FlagLabels] /\ tgt \in [Callers -> Objs \cup {None}]
    /\ wpc \in [Workers -> {"none", "created", "running", "ended"}]
    /\ wobj \in [Workers -> Objs \cup {None}] /\ detached \in SUBSET Workers
    /\ life \in [Objs -> {"child", "gone"}]
    /\ \A c \in Callers :
           /\ pc[c] \in {"idle", "all_pick"} => tgt[c] = None
           /\ pc[c] \notin {"idle", "all_pick"} => tgt[c] \in Objs
           /\ pc[c] \notin {"idle", "all_pick", "all_join"} => Owner[tgt[c]] = c
           /\ pc[c] \in {"start_add", "start_spawn", "stop_del"} => ~Joinable(tgt[c])
           /\ pc[c] \in {"start_add", "start_spawn"} \cup FlagLabels => life[tgt[c]] = "child"
           /\ pc[c] \in {"all_pick", "all_join"} => c \in Managers
    /\ \A o \in Objs : Joinable(o) =>
           /\ mThread[o] \in Workers /\ wobj[mThread[o]] = o
           /\ wpc[mThread[o]] # "none" /\ life[o] # "gone"
    /\ \A w \in Workers :
           /\ wpc[w] = "none" <=> wobj[w] = None
           /\ wpc[w] # "none" /\ w \notin detached => Joinable(wobj[w]) /\ mThread[wobj[w]] = w

LEMMA BaseFacts == FlagInv /\ PB!ThreadInv => BaseInv
<1> SUFFICES ASSUME FlagInv, PB!ThreadInv PROVE BaseInv
  OBVIOUS
<1> PB!TypeOK /\ PB!CallInv /\ PB!WorkerInv /\ PB!ManagerInv
  BY DEF PB!ThreadInv
<1>1. \A c \in Callers : /\ pc[c] \notin FlagLabels => BasePc[c] = pc[c] /\ BaseTgt[c] = tgt[c]
                         /\ pc[c] \in FlagLabels => BasePc[c] = "idle"
  BY DEF BasePc, BaseTgt
<1>2. \A c \in Callers :
          /\ pc[c] \notin FlagLabels => pc[c] \in Labels /\ tgt[c] \in Objs \cup {None}
          /\ pc[c] \in FlagLabels => tgt[c] \in Objs /\ Owner[tgt[c]] = c /\ life[tgt[c]] = "child"
          /\ pc[c] = "idle" => tgt[c] = None
  <2>1. BasePc \in [Callers -> Labels] /\ BaseTgt \in [Callers -> Objs \cup {None}]
    BY DEF PB!TypeOK, PB!Labels, PB!JoinLabels, Labels, JoinLabels
  <2> QED BY <1>1, <2>1 DEF FlagInv
<1>3. pc \in [Callers -> Labels \cup FlagLabels] /\ tgt \in [Callers -> Objs \cup {None}]
  <2>1. \A c \in Callers : pc[c] \in Labels \cup FlagLabels /\ tgt[c] \in Objs \cup {None}
    BY <1>2
  <2>2. pc = [c \in Callers |-> pc[c]] /\ tgt = [c \in Callers |-> tgt[c]]
    BY DEF FlagInv
  <2> QED BY <2>1, <2>2
<1>4. \A c \in Callers :
          /\ pc[c] \in {"idle", "all_pick"} => tgt[c] = None
          /\ pc[c] \notin {"idle", "all_pick"} => tgt[c] \in Objs
          /\ pc[c] \notin {"idle", "all_pick", "all_join"} => Owner[tgt[c]] = c
          /\ pc[c] \in {"start_add", "start_spawn", "stop_del"} => ~Joinable(tgt[c])
          /\ pc[c] \in {"start_add", "start_spawn"} \cup FlagLabels => life[tgt[c]] = "child"
          /\ pc[c] \in {"all_pick", "all_join"} => c \in Managers
  BY <1>1, <1>2 DEF PB!CallInv, PB!ManagerInv, PB!Joinable, Joinable, FlagLabels
<1>5. /\ mThread \in [Objs -> Workers \cup {None}] /\ stopReq \in [Objs -> BOOLEAN]
      /\ wpc \in [Workers -> {"none", "created", "running", "ended"}]
      /\ wobj \in [Workers -> Objs \cup {None}] /\ detached \in SUBSET Workers
  BY DEF PB!TypeOK
<1>6. /\ \A o \in Objs : Joinable(o) =>
             /\ mThread[o] \in Workers /\ wobj[mThread[o]] = o
             /\ wpc[mThread[o]] # "none" /\ life[o] # "gone"
      /\ \A w \in Workers :
             /\ wpc[w] = "none" <=> wobj[w] = None
             /\ wpc[w] # "none" /\ w \notin detached => Joinable(wobj[w]) /\ mThread[wobj[w]] = w
  BY <1>5, ConstantsAssumption DEF PB!WorkerInv, PB!Joinable, Joinable
<1> QED BY <1>3, <1>4, <1>5, <1>6 DEF BaseInv, FlagInv

----------------------------------------------------------------------------
(* Types of the queue and the worker's place.                                *)

LEMMA MQTypeInit == MQInit => MQTypeOK
BY QueueAssumption DEF MQInit, MQTypeOK, LoopLabels

LEMMA PutType ==
    ASSUME MQTypeOK, NEW o \in Objs, PutStopMsg(o)
    PROVE  /\ q' \in [Objs -> Seq({"msg", "stop"})] /\ \A p \in Objs : Len(q'[p]) <= QSize
           /\ refused' \in [Objs -> BOOLEAN] /\ unread' \in [Objs -> BOOLEAN]
<1>1. /\ q \in [Objs -> Seq({"msg", "stop"})] /\ \A p \in Objs : Len(q[p]) <= QSize
      /\ refused \in [Objs -> BOOLEAN] /\ unread \in [Objs -> BOOLEAN]
  BY DEF MQTypeOK
<1>2. unread' \in [Objs -> BOOLEAN]
  <2>1. PICK u \in BOOLEAN : unread' = [unread EXCEPT ![o] = u]
    BY DEF PutStopMsg, HasReader, Joinable, Over
  <2> QED BY <1>1, <2>1
<1>3. CASE Len(q[o]) < QSize
  <2>1. /\ Append(q[o], "stop") \in Seq({"msg", "stop"})
        /\ Len(Append(q[o], "stop")) <= QSize
    BY <1>1, <1>3, QueueAssumption
  <2>2. /\ q' = [q EXCEPT ![o] = Append(q[o], "stop")]
        /\ refused' = [refused EXCEPT ![o] = FALSE]
    BY <1>3 DEF PutStopMsg
  <2> QED BY <1>1, <1>2, <2>1, <2>2
<1>4. CASE ~(Len(q[o]) < QSize)
  BY <1>1, <1>2, <1>4 DEF PutStopMsg
<1> QED BY <1>3, <1>4

\* A queue from which one message was taken.
LEMMA TailType ==
    ASSUME MQTypeOK, NEW o \in Objs, q[o] # <<>>, q' = [q EXCEPT ![o] = Tail(q[o])]
    PROVE  q' \in [Objs -> Seq({"msg", "stop"})] /\ \A p \in Objs : Len(q'[p]) <= QSize
<1>1. q[o] \in Seq({"msg", "stop"}) /\ Len(q[o]) <= QSize
  BY DEF MQTypeOK
<1>2. Tail(q[o]) \in Seq({"msg", "stop"}) /\ Len(Tail(q[o])) <= QSize
  BY <1>1, QueueAssumption
<1> QED BY <1>2 DEF MQTypeOK

LEMMA MQTypeStep == BaseInv /\ MQTypeOK /\ [MQNext]_allVars => MQTypeOK'
<1> SUFFICES ASSUME BaseInv, MQTypeOK, [MQNext]_allVars PROVE MQTypeOK'
  OBVIOUS
<1> USE QueueAssumption DEF mqVars, history, LoopLabels
<1>1. ASSUME UNCHANGED mqVars PROVE MQTypeOK'
  BY <1>1 DEF MQTypeOK
<1>2. ASSUME NEW c \in Callers, NEW o \in Objs, InitQueue(c, o) PROVE MQTypeOK'
  <2>1. wat' \in [Workers -> LoopLabels]
    <3>1. PICK late : wat' = [w \in Workers |->
                      CASE w \in late /\ wat[w] = "select" -> "old"
                        [] w \in late /\ wat[w] = "clear" -> "out"
                        [] OTHER -> wat[w]]
      BY <1>2 DEF InitQueue
    <3> QED BY <3>1 DEF MQTypeOK
  <2>2. /\ q' = [q EXCEPT ![o] = <<>>] /\ initd' = [initd EXCEPT ![o] = TRUE]
        /\ rfds' = [rfds EXCEPT ![o] = TRUE]
        /\ UNCHANGED <<childAlive, mMtx, got, refused, unread, backlog>>
    BY <1>2 DEF InitQueue
  <2> HIDE DEF LoopLabels
  <2> QED BY <2>1, <2>2 DEF MQTypeOK
<1>3. ASSUME NEW c \in Callers, NEW o \in Objs, NEW m \in SendKinds, SendMsg(c, o, m)
      PROVE  MQTypeOK'
  BY <1>3 DEF SendMsg, MQTypeOK
<1>4. ASSUME NEW c \in Callers, NEW o \in Objs, NEW isWaiting \in WaitModes,
             StopQueueThread(c, o, isWaiting)
      PROVE  MQTypeOK'
  BY <1>4, PutType DEF StopQueueThread, MQTypeOK
<1>5. ASSUME NEW c \in Callers, NEW o \in Objs, Delete(c, o) PROVE MQTypeOK'
  BY <1>5 DEF Delete, MQTypeOK
<1>6. ASSUME NEW c \in Callers, NEW o \in Objs, Destroy(c, o) \/ DestroyDrain(c, o)
      PROVE  MQTypeOK'
  BY <1>6, TailType DEF Destroy, DestroyDrain, MQTypeOK
<1>7. ASSUME NEW c \in Callers, DeletePut(c) PROVE MQTypeOK'
  <2>1. PICK o \in Objs : o = tgt[c]
    BY <1>7 DEF DeletePut, At, BaseInv
  <2>2. PICK b \in BOOLEAN : backlog' = [backlog EXCEPT ![o] = b]
    BY <1>7, <2>1 DEF DeletePut, HoldsMsg
  <2>3. backlog' \in [Objs -> BOOLEAN]
    BY <2>2 DEF MQTypeOK
  <2>4. PutStopMsg(o) /\ UNCHANGED <<initd, rfds, childAlive, mMtx, wat, got>>
    BY <1>7, <2>1 DEF DeletePut
  <2> QED BY <2>3, <2>4, PutType DEF MQTypeOK
<1>8. ASSUME NEW w \in Workers, EndRound(w), rfds' \in [Objs -> BOOLEAN] PROVE MQTypeOK'
  BY <1>8 DEF EndRound, Step, MQTypeOK
<1>9. ASSUME NEW w \in Workers,
             \/ Enter(w) \/ CheckStop(w) \/ LockLoop(w) \/ Select(w)
             \/ SelectFails(w) \/ OldQueueReady(w) \/ DispatchStop(w) \/ ProcessMsg(w)
      PROVE  MQTypeOK'
  <2>1. CASE EndRound(w)
    <3>1. rfds' \in [Objs -> BOOLEAN]
      BY <1>9, <2>1 DEF Enter, CheckStop, LockLoop, Select, SelectFails, OldQueueReady, DispatchStop,
                        ProcessMsg, MQTypeOK
    <3> QED BY <1>8, <2>1, <3>1
  <2>2. CASE UNCHANGED mqVars
    BY <1>1, <2>2
  <2>3. CASE ~EndRound(w) /\ ~UNCHANGED mqVars
    <3>1. PICK label \in LoopLabels : Step(w, label)
      BY <1>9, <2>3 DEF Enter, CheckStop, LockLoop, Select, SelectFails, OldQueueReady, DispatchStop,
                        ProcessMsg
    <3>2. /\ UNCHANGED <<q, initd, rfds, childAlive, got, refused, unread, backlog>>
          /\ mMtx' = mMtx \/ mMtx' = [mMtx EXCEPT ![wobj[w]] = w]
      BY <1>9, <2>3 DEF Enter, CheckStop, LockLoop, Select, SelectFails, OldQueueReady, DispatchStop,
                        ProcessMsg
    <3>3. mMtx' \in [Objs -> Workers \cup {None}]
      BY <3>2 DEF MQTypeOK
    <3>4. wat' \in [Workers -> LoopLabels]
      BY <3>1 DEF MQTypeOK, Step
    <3> QED BY <3>2, <3>3, <3>4 DEF MQTypeOK
  <2> QED BY <2>1, <2>2, <2>3
<1>10. ASSUME NEW w \in Workers, ClearQueue(w) PROVE MQTypeOK'
  <2>1. PICK o \in Objs : o = wobj[w]
    BY <1>10 DEF ClearQueue, Running, BaseInv
  <2>2. /\ \/ q[o] # <<>> /\ q' = [q EXCEPT ![o] = Tail(q[o])] /\ UNCHANGED wat
           \/ UNCHANGED q /\ wat' = [wat EXCEPT ![w] = "out"]
        /\ UNCHANGED <<initd, rfds, childAlive, mMtx, got, refused, unread, backlog>>
    BY <1>10, <2>1 DEF ClearQueue, Step
  <2>3. q' \in [Objs -> Seq({"msg", "stop"})] /\ \A p \in Objs : Len(q'[p]) <= QSize
    BY <2>2, TailType DEF MQTypeOK
  <2>4. wat' \in [Workers -> LoopLabels]
    BY <2>2 DEF MQTypeOK
  <2> QED BY <2>2, <2>3, <2>4 DEF MQTypeOK
<1>11. ASSUME NEW w \in Workers, ReadMsg(w) PROVE MQTypeOK'
  <2>1. PICK o \in Objs : o = wobj[w]
    BY <1>11 DEF ReadMsg, Running, BaseInv
  <2>2. CASE q[o] # <<>>
    <3>1. Head(q[o]) \in {"msg", "stop"}
      BY <2>2 DEF MQTypeOK
    <3>2. q' = [q EXCEPT ![o] = Tail(q[o])] /\ got' = [got EXCEPT ![w] = Head(q[o])]
          /\ wat' = [wat EXCEPT ![w] = "dispatch"]
          /\ UNCHANGED <<initd, rfds, childAlive, mMtx, refused, unread, backlog>>
      BY <1>11, <2>1, <2>2 DEF ReadMsg, Step
    <3>3. q' \in [Objs -> Seq({"msg", "stop"})] /\ \A p \in Objs : Len(q'[p]) <= QSize
      BY <2>2, <3>2, TailType
    <3> QED BY <3>1, <3>2, <3>3 DEF MQTypeOK
  <2>3. CASE q[o] = <<>>
    BY <1>11, <2>1, <2>3 DEF ReadMsg, Step, MQTypeOK
  <2> QED BY <2>2, <2>3
<1>12. CASE UNCHANGED allVars
  BY <1>1, <1>12 DEF allVars
<1> QED
  BY <1>1, <1>2, <1>3, <1>4, <1>5, <1>6, <1>7, <1>9, <1>10, <1>11, <1>12
  DEF MQNext, MQCall, MQContinue, MQWork, StartQueueThread, StopAfterMsg, Leave

----------------------------------------------------------------------------
(* Who never detaches has only attached threads, of initialised objects.     *)

LEMMA AttachedInit == MQInit => AttachedInv
BY DEF MQInit, Init, AttachedInv

LEMMA AttachedGo ==
    ASSUME BaseInv, AttachedInv, NEW c \in Callers, NEW label, NEW o, Go(c, label, o),
           label \notin {"flag_detach", "stop_detach"}, UNCHANGED detached
    PROVE  AttachedInv'
<1>1. \A x \in Callers : pc'[x] = IF x = c THEN label ELSE pc[x]
  BY DEF Go, BaseInv
<1> QED BY <1>1 DEF AttachedInv

LEMMA AttachedStep ==
    ASSUME NeverDetach, BaseInv, AttachedInv, [MQNext]_allVars
    PROVE  AttachedInv'
<1> USE DEF mqVars, vars, callerVars, workerVars
<1>1. ASSUME UNCHANGED <<pc, detached>> PROVE AttachedInv'
  BY <1>1 DEF AttachedInv
<1>2. ASSUME NEW c \in Callers, MQCall(c) PROVE AttachedInv'
  <2>1. ASSUME NEW o \in Objs, NEW isWaiting \in WaitModes, StopQueueThread(c, o, isWaiting)
        PROVE  AttachedInv'
    <3>1. Go(c, "flag_join", o) /\ UNCHANGED detached
      BY <2>1 DEF StopQueueThread, NeverDetach
    <3> QED BY <3>1, AttachedGo
  <2>2. ASSUME NEW o \in Objs, StartQueueThread(c, o) PROVE AttachedInv'
    BY <2>2, AttachedGo DEF StartQueueThread, StartThread
  <2>3. ASSUME NEW o \in Objs, Delete(c, o) PROVE AttachedInv'
    BY <1>1, <2>3, AttachedGo DEF Delete
  <2>4. CASE StopAllThreads(c)
    BY <2>4, AttachedGo DEF StopAllThreads
  <2>5. ASSUME NEW o \in Objs, InitQueue(c, o) \/ \E m \in SendKinds : SendMsg(c, o, m)
        PROVE  AttachedInv'
    BY <1>1, <2>5 DEF InitQueue, SendMsg
  <2> QED BY <1>2, <2>1, <2>2, <2>3, <2>4, <2>5 DEF MQCall
<1>3. ASSUME NEW kind, Fail(kind) PROVE AttachedInv'
  BY <1>1, <1>3 DEF Fail
<1>4. ASSUME NEW c \in Callers, MQContinue(c) PROVE AttachedInv'
  <2>1. ~DetachThread(c)
    BY DEF DetachThread, At, AttachedInv
  <2>2. CASE JoinThread(c)
    BY <1>3, <2>2, AttachedGo DEF JoinThread
  <2>3. ASSUME NEW o \in Objs, StopAllNext(c, o) PROVE AttachedInv'
    BY <1>1, <1>3, <2>3, AttachedGo DEF StopAllNext
  <2>4. CASE AddThreadObj(c) \/ (\E w \in Workers : SpawnThread(c, w)) \/ DelThreadObj(c)
             \/ StopAllDone(c) \/ DeletePut(c)
    BY <2>4, AttachedGo DEF AddThreadObj, SpawnThread, DelThreadObj, StopAllDone, DeletePut
  <2>5. CASE StopAfterMsg(c)
    <3>1. pc[c] = "flag_join"
      BY <2>5 DEF StopAfterMsg, AttachedInv
    <3> QED BY <2>5, <3>1, AttachedGo DEF StopAfterMsg, StopBody
  <2>6. ASSUME NEW o \in Objs, DestroyDrain(c, o) \/ Destroy(c, o) PROVE AttachedInv'
    BY <1>1, <2>6 DEF DestroyDrain, Destroy, DeleteStopped
  <2> QED BY <1>4, <2>1, <2>2, <2>3, <2>4, <2>5, <2>6 DEF MQContinue, Continue
<1>5. ASSUME NEW w \in Workers, MQWork(w) \/ SelectFails(w) \/ OldQueueReady(w)
      PROVE  AttachedInv'
  <2>1. CASE Leave(w)
    BY <1>3, <2>1 DEF Leave, WorkerReturn, AttachedInv
  <2>2. CASE ~Leave(w)
    <3>1. UNCHANGED <<pc, detached>>
      BY <1>5, <2>2 DEF MQWork, Enter, WorkerEnter, Fail, CheckStop, LockLoop, Select, ReadMsg,
            SelectFails, OldQueueReady, DispatchStop, WorkerRequestStop, ProcessMsg, ClearQueue
    <3> QED BY <1>1, <3>1
  <2> QED BY <2>1, <2>2
<1>6. CASE UNCHANGED allVars
  BY <1>1, <1>6 DEF allVars
<1> QED BY <1>2, <1>4, <1>5, <1>6 DEF MQNext

LEMMA ReadyInit == MQInit => ReadyInv
BY ConstantsAssumption DEF MQInit, Init, ReadyInv, Starting, Joinable

\* Steps of a caller that start no thread.
LEMMA ReadyGo ==
    ASSUME BaseInv, ReadyInv, NEW c \in Callers, NEW label, NEW t, Go(c, label, t),
           label \notin {"start_add", "start_spawn"},
           \A p \in Objs :
               /\ initd[p] => initd'[p]
               /\ Joinable(p)' => initd[p]
               /\ childAlive[p] => childAlive'[p] \/ Owner[p] = c
    PROVE  ReadyInv'
<1>1. \A x \in Callers : IF x = c THEN pc'[x] = label /\ tgt'[x] = t
                                  ELSE pc'[x] = pc[x] /\ tgt'[x] = tgt[x]
  BY DEF Go, BaseInv
<1>2. ASSUME NEW p \in Objs, Starting(p)' PROVE initd'[p] /\ childAlive'[p]
  <2>1. Owner[p] \in Callers /\ Owner[p] # c
    BY <1>1, <1>2, ConstantsAssumption DEF Starting
  <2>2. Starting(p)
    BY <1>1, <1>2, <2>1 DEF Starting
  <2>3. initd[p] /\ childAlive[p]
    BY <2>2 DEF ReadyInv
  <2> QED BY <2>1, <2>3
<1>3. ASSUME NEW p \in Objs, Joinable(p)' PROVE initd'[p]
  BY <1>3 DEF Joinable
<1> QED BY <1>2, <1>3 DEF ReadyInv

LEMMA ReadyStep == BaseInv /\ MQTypeOK /\ ReadyInv /\ [MQNext]_allVars => ReadyInv'
<1> SUFFICES ASSUME BaseInv, MQTypeOK, ReadyInv, [MQNext]_allVars PROVE ReadyInv'
  OBVIOUS
<1> USE ConstantsAssumption DEF mqVars, vars, callerVars, workerVars, Joinable
<1>1. ASSUME UNCHANGED <<pc, tgt, mThread, childAlive>>, \A p \in Objs : initd[p] => initd'[p]
      PROVE  ReadyInv'
  BY <1>1 DEF ReadyInv, Starting
<1>2. ASSUME NEW c \in Callers, NEW label, NEW t, Go(c, label, t),
             label \notin {"start_add", "start_spawn"}, UNCHANGED <<initd, childAlive>>,
             \A p \in Objs : mThread'[p] = mThread[p] \/ mThread'[p] = None
      PROVE  ReadyInv'
  BY <1>2, ReadyGo DEF ReadyInv
<1>3. ASSUME NEW c \in Callers, MQCall(c) PROVE ReadyInv'
  <2>1. ASSUME NEW o \in Objs, NEW isWaiting \in WaitModes, StopQueueThread(c, o, isWaiting)
        PROVE  ReadyInv'
    <3>1. PICK label : Go(c, label, o) /\ label \in {"flag_join", "flag_detach"}
      BY <2>1 DEF StopQueueThread
    <3> QED BY <1>2, <2>1, <3>1 DEF StopQueueThread
  <2>2. ASSUME NEW o \in Objs, StartQueueThread(c, o) PROVE ReadyInv'
    <3>1. /\ initd[o] /\ childAlive[o] /\ Owner[o] = c
          /\ UNCHANGED <<mThread, initd, childAlive>>
          /\ \A x \in Callers : IF x = c THEN tgt'[x] = o ELSE pc'[x] = pc[x] /\ tgt'[x] = tgt[x]
      BY <2>2 DEF StartQueueThread, StartThread, MayUse, MayCall, Destroying, Go, BaseInv
    <3> QED BY <3>1 DEF ReadyInv, Starting
  <2>3. ASSUME NEW o \in Objs, Delete(c, o) PROVE ReadyInv'
    <3>1. /\ UNCHANGED <<mThread, initd>> /\ Owner[o] = c /\ pc[c] = "idle"
          /\ \A p \in Objs : p # o => childAlive'[p] = childAlive[p]
      BY <2>3 DEF Delete, MayUse, MayCall, MQTypeOK
    <3>2. CASE Go(c, "del_put", o)
      <4>1. \A p \in Objs : childAlive[p] => childAlive'[p] \/ Owner[p] = c
        BY <3>1
      <4> QED BY <3>1, <3>2, <4>1, ReadyGo DEF ReadyInv
    <3>3. CASE UNCHANGED <<pc, tgt>>
      BY <3>1, <3>3 DEF ReadyInv, Starting
    <3> QED BY <2>3, <3>2, <3>3 DEF Delete
  <2>4. CASE StopAllThreads(c) /\ UNCHANGED mqVars
    BY <1>2, <2>4 DEF StopAllThreads
  <2>5. ASSUME NEW o \in Objs, InitQueue(c, o) \/ \E m \in SendKinds : SendMsg(c, o, m)
        PROVE  ReadyInv'
    <3>1. UNCHANGED <<pc, tgt, mThread, childAlive>>
      BY <2>5 DEF InitQueue, SendMsg
    <3>2. \A p \in Objs : initd[p] => initd'[p]
      BY <2>5 DEF InitQueue, SendMsg, MQTypeOK
    <3> QED BY <1>1, <3>1, <3>2
  <2> QED BY <1>3, <2>1, <2>2, <2>3, <2>4, <2>5 DEF MQCall
<1>4. ASSUME NEW kind, Fail(kind), UNCHANGED <<initd, childAlive>> PROVE ReadyInv'
  BY <1>1, <1>4 DEF Fail
<1>5. ASSUME NEW c \in Callers, MQContinue(c) PROVE ReadyInv'
  <2>1. CASE AddThreadObj(c) /\ UNCHANGED mqVars
    <3>1. /\ pc[c] = "start_add" /\ UNCHANGED <<mThread, initd, childAlive, tgt>>
          /\ \A x \in Callers : x # c => pc'[x] = pc[x]
      BY <2>1 DEF AddThreadObj, At, Go, BaseInv
    <3> QED BY <3>1 DEF ReadyInv, Starting
  <2>2. ASSUME NEW w \in Workers, SpawnThread(c, w), UNCHANGED mqVars PROVE ReadyInv'
    <3>1. /\ Go(c, "idle", None) /\ pc[c] = "start_spawn" /\ tgt[c] \in Objs /\ Owner[tgt[c]] = c
          /\ \A p \in Objs : p # tgt[c] => mThread'[p] = mThread[p]
      BY <2>2 DEF SpawnThread, At, BaseInv
    <3>2. \A p \in Objs : Joinable(p)' => initd[p]
      BY <3>1 DEF ReadyInv, Starting
    <3> QED BY <2>2, <3>1, <3>2, ReadyGo
  <2>3. CASE JoinThread(c) /\ UNCHANGED mqVars
    <3>1. ASSUME NEW label \in {"stop_del", "all_pick"}, NEW o, Go(c, label, o),
                 mThread' = [mThread EXCEPT ![tgt[c]] = None]
          PROVE  ReadyInv'
      <4>1. \A p \in Objs : mThread'[p] = mThread[p] \/ mThread'[p] = None
        BY <3>1 DEF BaseInv
      <4> QED BY <1>2, <2>3, <3>1, <4>1
    <3> QED BY <1>4, <2>3, <3>1 DEF JoinThread
  <2>4. CASE DetachThread(c) /\ UNCHANGED mqVars
    <3>1. ASSUME Go(c, "stop_del", tgt[c]), mThread' = [mThread EXCEPT ![tgt[c]] = None]
          PROVE  ReadyInv'
      <4>1. \A p \in Objs : mThread'[p] = mThread[p] \/ mThread'[p] = None
        BY <3>1 DEF BaseInv
      <4> QED BY <1>2, <2>4, <3>1, <4>1
    <3> QED BY <1>4, <2>4, <3>1 DEF DetachThread
  <2>5. CASE (DelThreadObj(c) \/ StopAllDone(c)) /\ UNCHANGED mqVars
    BY <1>2, <2>5 DEF DelThreadObj, StopAllDone
  <2>6. ASSUME NEW o \in Objs, StopAllNext(c, o), UNCHANGED mqVars PROVE ReadyInv'
    <3>1. UNCHANGED mThread /\ (UNCHANGED <<pc, tgt>> \/ Go(c, "all_join", o))
      BY <2>6 DEF StopAllNext, Fail
    <3> QED BY <1>1, <1>2, <2>6, <3>1
  <2>7. CASE StopAfterMsg(c)
    <3>1. PICK label, o : label \in {"stop_join", "stop_detach", "idle"} /\ Go(c, label, o)
      BY <2>7 DEF StopAfterMsg, StopBody
    <3>2. UNCHANGED <<mThread, initd, childAlive>>
      BY <2>7 DEF StopAfterMsg, StopBody
    <3> QED BY <1>2, <3>1, <3>2
  <2>8. CASE DeletePut(c)
    BY <1>2, <2>8 DEF DeletePut
  <2>9. ASSUME NEW o \in Objs, DestroyDrain(c, o) PROVE ReadyInv'
    BY <1>1, <2>9 DEF DestroyDrain
  <2>10. ASSUME NEW o \in Objs, Destroy(c, o) PROVE ReadyInv'
    <3>1. /\ ~Joinable(o) /\ Owner[o] = c /\ pc[c] = "idle"
          /\ UNCHANGED <<mThread, childAlive, pc, tgt>>
          /\ \A p \in Objs : p # o => initd'[p] = initd[p]
      BY <2>10 DEF Destroy, DeleteStopped, MayCall, MQTypeOK
    <3> QED BY <3>1 DEF ReadyInv, Starting
  <2> QED BY <1>5, <2>1, <2>2, <2>3, <2>4, <2>5, <2>6, <2>7, <2>8, <2>9, <2>10
          DEF MQContinue, Continue
<1>6. ASSUME NEW w \in Workers, MQWork(w) \/ SelectFails(w) \/ OldQueueReady(w) PROVE ReadyInv'
  <2>1. UNCHANGED <<pc, tgt, mThread, childAlive, initd>>
    BY <1>6 DEF MQWork, Enter, WorkerEnter, Fail, CheckStop, LockLoop, Select, ReadMsg, SelectFails,
          OldQueueReady, EndRound, DispatchStop, WorkerRequestStop, ProcessMsg, ClearQueue, Leave,
          WorkerReturn
  <2> QED BY <1>1, <2>1
<1>7. CASE UNCHANGED allVars
  BY <1>1, <1>7 DEF allVars
<1> QED BY <1>3, <1>5, <1>6, <1>7 DEF MQNext

\* The steps see all that is known so far.
MQInv == FlagInv /\ PB!ThreadInv /\ MQTypeOK /\ ReadyInv

LEMMA MQInvariant == ASSUME TRUE \in WaitModes PROVE MQSafetySpec => []MQInv
<1>1. FlagInv /\ PB!ThreadInv /\ MQTypeOK /\ [MQNext]_allVars => MQTypeOK'
  BY BaseFacts, MQTypeStep
<1>2. FlagInv /\ PB!ThreadInv /\ MQTypeOK /\ ReadyInv /\ [MQNext]_allVars => ReadyInv'
  BY BaseFacts, ReadyStep
<1> QED BY <1>1, <1>2, BaseInvariant, MQTypeInit, ReadyInit, PTL DEF MQSafetySpec, MQInv

LEMMA AttachedInvariant == ASSUME NeverDetach PROVE MQSafetySpec => [](MQInv /\ AttachedInv)
<1>1. TRUE \in WaitModes
  BY DEF NeverDetach
<1>2. MQSafetySpec => []MQInv
  BY <1>1, MQInvariant
<1>3. MQInv /\ AttachedInv /\ [MQNext]_allVars => AttachedInv'
  BY BaseFacts, AttachedStep DEF MQInv
<1> QED BY <1>2, <1>3, AttachedInit, PTL DEF MQSafetySpec

----------------------------------------------------------------------------
(* ProcessMsg() of a derived part that is gone.                              *)

LEMMA BacklogInit == MQInit => BacklogInv
BY ConstantsAssumption DEF MQInit, Init, BacklogInv, PureCallNeedsBacklog, QuietServed, Quiet

\* What has to stay for a destructor that found no message to be served.
LEMMA QuietFrame ==
    ASSUME NEW o \in Objs, QuietServed(o), mThread'[o] = mThread[o], stopReq[o] => stopReq'[o],
           q'[o] = q[o] \/ (StopAhead(o) => StopAhead(o)'), Quiet(o)' => Quiet(o),
           Joinable(o) => /\ wpc'[mThread[o]] = wpc[mThread[o]]
                          /\ wat'[mThread[o]] = wat[mThread[o]]
                          /\ got'[mThread[o]] = got[mThread[o]]
    PROVE  QuietServed(o)'
<1> SUFFICES ASSUME Quiet(o)', Joinable(o)' PROVE QuietServed(o)'
  BY DEF QuietServed
<1> DEFINE w == mThread[o]
<1>1. Quiet(o) /\ Joinable(o) /\ mThread'[o] = w
  BY DEF Joinable
<1>2. wpc'[w] = wpc[w] /\ wat'[w] = wat[w] /\ got'[w] = got[w]
  BY <1>1
<1>3. StopAhead(o) => StopAhead(o)'
  BY DEF StopAhead
<1>4. /\ ~HoldsMsg(w)
      /\ \/ Over(w) \/ HoldsStop(w) \/ StopAhead(o)
         \/ wpc[w] = "running" /\ wat[w] = "clear"
         \/ stopReq[o] /\ wpc[w] = "running" /\ wat[w] = "check"
  BY <1>1 DEF QuietServed
<1> QED BY <1>1, <1>2, <1>3, <1>4 DEF QuietServed, HoldsMsg, HoldsStop, Over

\* Fault or no fault, nothing else has changed.
LEMMA BacklogFrame ==
    ASSUME BaseInv, BacklogInv, UNCHANGED <<mThread, q, childAlive, backlog, wpc, wat, got>>,
           \A o \in Objs : (stopReq[o] => stopReq'[o]) /\ (AtDelPut(o) <=> AtDelPut(o)'),
           PureCallNeedsBacklog'
    PROVE  BacklogInv'
<1>1. \A o \in Objs : Quiet(o)' => Quiet(o)
  BY DEF Quiet
<1>2. \A o \in Objs : QuietServed(o)'
  BY <1>1, QuietFrame DEF BacklogInv
<1> QED BY <1>2 DEF BacklogInv

\* A caller's step is at the destructor's stop message of its own object only.
LEMMA DelPutGo ==
    ASSUME BaseInv, NEW c \in Callers, NEW label, NEW t, Go(c, label, t)
    PROVE  \A o \in Objs : IF Owner[o] = c THEN AtDelPut(o)' <=> t = o /\ label = "del_put"
                                           ELSE AtDelPut(o)' <=> AtDelPut(o)
BY ConstantsAssumption DEF Go, BaseInv, AtDelPut

\* A step of a worker of o, which is the one that o is joinable with.
LEMMA QuietWorker ==
    ASSUME BaseInv, AttachedInv, BacklogInv, NEW w \in Workers, NEW o, o = wobj[w], wpc[w] # "none",
           UNCHANGED <<mThread, pc, tgt, childAlive, backlog>>,
           \A p \in Objs \ {o} : stopReq'[p] = stopReq[p] /\ q'[p] = q[p],
           \A v \in Workers \ {w} : wpc'[v] = wpc[v] /\ wat'[v] = wat[v] /\ got'[v] = got[v],
           QuietServed(o) /\ Quiet(o) /\ Joinable(o) /\ mThread[o] = w => QuietServed(o)',
           PureCallNeedsBacklog'
    PROVE  BacklogInv'
<1>1. o \in Objs /\ Joinable(o) /\ mThread[o] = w
  BY DEF BaseInv, AttachedInv
<1>2. \A p \in Objs : Quiet(p)' <=> Quiet(p)
  BY DEF Quiet, AtDelPut
<1>3. ASSUME NEW p \in Objs \ {o} PROVE QuietServed(p)'
  <2>1. Joinable(p) => mThread[p] \in Workers \ {w}
    BY DEF BaseInv
  <2> QED BY <1>2, <2>1, QuietFrame DEF BacklogInv
<1>4. QuietServed(o)'
  <2>1. CASE Quiet(o)
    BY <1>1, <2>1 DEF BacklogInv
  <2>2. CASE ~Quiet(o)
    BY <1>1, <1>2, <2>2 DEF QuietServed
  <2> QED BY <2>1, <2>2
<1> QED BY <1>3, <1>4 DEF BacklogInv

LEMMA BacklogStep ==
    ASSUME BaseInv, MQTypeOK, ReadyInv, AttachedInv, BacklogInv, [MQNext]_allVars
    PROVE  BacklogInv'
<1> USE ConstantsAssumption DEF mqVars, history, vars, callerVars, workerVars
<1>0. ASSUME fault' # "pure_virtual" PROVE PureCallNeedsBacklog'
  BY <1>0 DEF PureCallNeedsBacklog
\* The class that makes the call is whole.
<1>1. ASSUME NEW c \in Callers, NEW o \in Objs, MayUse(c, o)
      PROVE  childAlive[o] /\ Owner[o] = c /\ pc[c] = "idle" /\ tgt[c] = None /\ fault = "none"
  BY <1>1 DEF MayUse, MayCall, Destroying, BaseInv
<1>2. ASSUME NEW c \in Callers, NEW o \in Objs, InitQueue(c, o) PROVE BacklogInv'
  <2>1. childAlive[o] /\ fault' = "none"
    BY <1>1, <1>2 DEF InitQueue
  <2>2. /\ UNCHANGED <<mThread, stopReq, childAlive, backlog, pc, tgt, wpc, wobj, got>>
        /\ \A p \in Objs \ {o} : q'[p] = q[p]
        /\ \A v \in Workers : wobj[v] # o => wat'[v] = wat[v]
    BY <1>2 DEF InitQueue, MQTypeOK
  <2>3. \A p \in Objs : Quiet(p)' <=> Quiet(p)
    BY <2>2 DEF Quiet, AtDelPut
  <2>4. ASSUME NEW p \in Objs \ {o} PROVE QuietServed(p)'
    <3>1. Joinable(p) => mThread[p] \in Workers /\ wobj[mThread[p]] # o
      BY DEF BaseInv
    <3> QED BY <2>2, <2>3, <3>1, QuietFrame DEF BacklogInv
  <2>5. QuietServed(o)'
    BY <2>1, <2>3 DEF Quiet, QuietServed
  <2> QED BY <1>0, <2>1, <2>4, <2>5 DEF BacklogInv
<1>3. ASSUME NEW c \in Callers, NEW o \in Objs, NEW m \in SendKinds, SendMsg(c, o, m)
      PROVE  BacklogInv'
  <2>1. /\ UNCHANGED <<mThread, stopReq, childAlive, backlog, pc, tgt, wpc, wat, got>>
        /\ q'[o] = Append(q[o], m) /\ \A p \in Objs \ {o} : q'[p] = q[p]
        /\ fault' = "none"
    BY <1>3 DEF SendMsg, At, MQTypeOK
  <2>2. StopAhead(o) => StopAhead(o)'
    <3>1. q[o] \in Seq({"msg", "stop"}) /\ m \in {"msg", "stop"}
      BY QueueAssumption DEF MQTypeOK
    <3> QED BY <2>1, <3>1 DEF StopAhead
  <2>3. \A p \in Objs : Quiet(p)' <=> Quiet(p)
    BY <2>1 DEF Quiet, AtDelPut
  <2>4. \A p \in Objs : QuietServed(p)'
    BY <2>1, <2>2, <2>3, QuietFrame DEF BacklogInv
  <2> QED BY <1>0, <2>1, <2>4 DEF BacklogInv
\* A call on o by its owner changes m_thread, flag and queue of o only.
<1>4. ASSUME NEW c \in Callers, NEW o \in Objs, NEW label, NEW t,
             Owner[o] = c, Go(c, label, t), ~AtDelPut(o), tgt[c] \in {o, None},
             label # "del_put" \/ t = o,
             \A p \in Objs \ {o} :
                 /\ mThread'[p] = mThread[p] /\ stopReq'[p] = stopReq[p] /\ q'[p] = q[p]
                 /\ childAlive'[p] = childAlive[p] /\ backlog'[p] = backlog[p]
                 /\ Joinable(p) => wpc'[mThread[p]] = wpc[mThread[p]],
             UNCHANGED <<wat, got>>, fault' = "none", QuietServed(o)'
      PROVE  BacklogInv'
  <2>1. ASSUME NEW p \in Objs \ {o} PROVE Quiet(p)' <=> Quiet(p)
    <3>1. AtDelPut(p)' <=> AtDelPut(p)
      BY <1>4, DelPutGo DEF AtDelPut
    <3> QED BY <1>4, <3>1 DEF Quiet
  <2>2. \A p \in Objs \ {o} : QuietServed(p)'
    BY <1>4, <2>1, QuietFrame DEF BacklogInv
  <2> QED BY <1>0, <1>4, <2>2 DEF BacklogInv
<1>5. ASSUME NEW c \in Callers, NEW o \in Objs, StartQueueThread(c, o) PROVE BacklogInv'
  <2>1. childAlive[o] /\ Owner[o] = c /\ pc[c] = "idle" /\ tgt[c] = None /\ fault = "none"
    BY <1>1, <1>5 DEF StartQueueThread
  <2>2. /\ UNCHANGED <<mThread, q, childAlive, backlog, wpc, wat, got, fault>>
        /\ \A p \in Objs \ {o} : stopReq'[p] = stopReq[p]
        /\ Go(c, "start_add", o)
    BY <1>5 DEF StartQueueThread, StartThread, BaseInv
  <2>3. QuietServed(o)'
    BY <2>1, <2>2 DEF QuietServed, Quiet
  <2> QED BY <1>4, <2>1, <2>2, <2>3 DEF AtDelPut
<1>6. ASSUME NEW c \in Callers, NEW o \in Objs, NEW isWaiting \in WaitModes,
             StopQueueThread(c, o, isWaiting)
      PROVE  BacklogInv'
  <2>1. childAlive[o] /\ Owner[o] = c /\ pc[c] = "idle" /\ tgt[c] = None /\ fault = "none"
    BY <1>1, <1>6 DEF StopQueueThread
  <2>2. /\ UNCHANGED <<mThread, stopReq, childAlive, backlog, wpc, wat, got, fault>>
        /\ \A p \in Objs \ {o} : q'[p] = q[p]
    BY <1>6 DEF StopQueueThread, PutStopMsg, MQTypeOK
  <2>3. PICK label : Go(c, label, o) /\ label # "del_put"
    BY <1>6 DEF StopQueueThread
  <2>4. QuietServed(o)'
    BY <2>1, <2>2 DEF QuietServed, Quiet
  <2> QED BY <1>4, <2>1, <2>2, <2>3, <2>4 DEF AtDelPut
<1>7. ASSUME NEW c \in Callers, NEW o \in Objs, Delete(c, o) PROVE BacklogInv'
  <2>1. childAlive[o] /\ Owner[o] = c /\ pc[c] = "idle" /\ tgt[c] = None /\ fault = "none"
    BY <1>1, <1>7 DEF Delete
  <2>2. /\ UNCHANGED <<mThread, stopReq, q, backlog, wpc, wat, got, fault>>
        /\ \A p \in Objs \ {o} : childAlive'[p] = childAlive[p]
    BY <1>7 DEF Delete, MQTypeOK
  <2>3. CASE initd[o] /\ Go(c, "del_put", o)
    <3>1. AtDelPut(o)'
      BY <2>1, <2>3, DelPutGo
    <3>2. QuietServed(o)'
      BY <3>1 DEF QuietServed, Quiet
    <3> QED BY <1>4, <2>1, <2>2, <2>3, <3>2 DEF AtDelPut
  <2>4. CASE ~initd[o] /\ UNCHANGED <<pc, tgt>>
    <3>1. ~Joinable(o) /\ ~Joinable(o)'
      BY <2>2, <2>4 DEF ReadyInv, Joinable
    <3>2. QuietServed(o)'
      BY <3>1 DEF QuietServed
    <3>3. Go(c, "idle", None)
      BY <2>1, <2>4 DEF Go, BaseInv
    <3> QED BY <1>4, <2>1, <2>2, <3>2, <3>3 DEF AtDelPut
  <2> QED BY <1>7, <2>3, <2>4 DEF Delete
<1>8. ASSUME NEW c \in Callers, DeletePut(c) PROVE BacklogInv'
  <2> PICK o \in Objs : o = tgt[c]
    BY <1>8 DEF DeletePut, At, BaseInv
  <2>1. /\ pc[c] = "del_put" /\ Owner[o] = c /\ fault = "none" /\ Go(c, "flag_join", o) /\ PutStopMsg(o)
        /\ UNCHANGED <<mThread, stopReq, childAlive, wpc, wobj, wat, got, fault>>
        /\ backlog' = [backlog EXCEPT ![o] =
               \/ q[o] # <<>> /\ Head(q[o]) = "msg"
               \/ \E w \in Workers : wobj[w] = o /\ HoldsMsg(w)]
    BY <1>8 DEF DeletePut, At, BaseInv
  <2>2. \A p \in Objs \ {o} : q'[p] = q[p] /\ backlog'[p] = backlog[p]
    BY <2>1 DEF PutStopMsg, MQTypeOK
  <2>3. ASSUME NEW p \in Objs \ {o} PROVE QuietServed(p)'
    <3>1. AtDelPut(p)' <=> AtDelPut(p)
      BY <2>1, DelPutGo DEF AtDelPut
    <3>2. Quiet(p)' <=> Quiet(p)
      BY <2>1, <2>2, <3>1 DEF Quiet
    <3> QED BY <2>1, <2>2, <3>2, QuietFrame DEF BacklogInv
  <2>4. ASSUME ~backlog'[o], Joinable(o) PROVE QuietServed(o)'
    <3>1. /\ ~(q[o] # <<>> /\ Head(q[o]) = "msg")
          /\ \A w \in Workers : wobj[w] = o => ~HoldsMsg(w)
      BY <2>1, <2>4 DEF MQTypeOK
    <3>2. ~HoldsMsg(mThread[o])
      BY <2>4, <3>1 DEF BaseInv
    <3>3. q[o] \in Seq({"msg", "stop"}) /\ QSize \in Nat \ {0}
      BY QueueAssumption DEF MQTypeOK
    <3>4. StopAhead(o)'
      <4>1. CASE Len(q[o]) < QSize
        <5>1. q'[o] = Append(q[o], "stop")
          BY <2>1, <4>1 DEF PutStopMsg, MQTypeOK
        <5> QED BY <3>1, <3>3, <5>1 DEF StopAhead
      <4>2. CASE ~(Len(q[o]) < QSize)
        <5>1. q'[o] = q[o] /\ q[o] # <<>>
          BY <2>1, <3>3, <4>2 DEF PutStopMsg
        <5> QED BY <3>1, <3>3, <5>1 DEF StopAhead
      <4> QED BY <4>1, <4>2
    <3>5. ~HoldsMsg(mThread[o])'
      BY <2>1, <3>2 DEF HoldsMsg
    <3> QED BY <3>4, <3>5 DEF QuietServed
  <2>5. QuietServed(o)'
    <3>1. Joinable(o)' <=> Joinable(o)
      BY <2>1 DEF Joinable
    <3> QED BY <2>4, <3>1 DEF QuietServed, Quiet
  <2> QED BY <1>0, <2>1, <2>3, <2>5 DEF BacklogInv
<1>9. ASSUME NEW c \in Callers, NEW o \in Objs, DestroyDrain(c, o) \/ Destroy(c, o) PROVE BacklogInv'
  <2>1. /\ ~Joinable(o) /\ fault' = "none"
        /\ UNCHANGED <<mThread, stopReq, childAlive, backlog, pc, tgt, wpc, wat, got>>
        /\ \A p \in Objs \ {o} : q'[p] = q[p]
    BY <1>9 DEF DestroyDrain, Destroy, DeleteStopped, MayCall, MQTypeOK
  <2>2. \A p \in Objs : Quiet(p)' <=> Quiet(p)
    BY <2>1 DEF Quiet, AtDelPut
  <2>3. QuietServed(o)'
    BY <2>1 DEF QuietServed, Joinable
  <2>4. \A p \in Objs \ {o} : QuietServed(p)'
    BY <2>1, <2>2, QuietFrame DEF BacklogInv
  <2> QED BY <1>0, <2>1, <2>3, <2>4 DEF BacklogInv
<1>10. ASSUME NEW kind \in {"use_after_free", "system_error"}, Fail(kind), UNCHANGED mqVars
       PROVE  BacklogInv'
  <2>1. /\ UNCHANGED <<mThread, stopReq, q, childAlive, backlog, wpc, wat, got, pc, tgt>>
        /\ fault' # "pure_virtual"
    BY <1>10 DEF Fail
  <2>2. \A o \in Objs : AtDelPut(o)' <=> AtDelPut(o)
    BY <2>1 DEF AtDelPut
  <2> QED BY <1>0, <2>1, <2>2, BacklogFrame
\* Steps of ThreadObj by a caller that is not in a destructor's first step.
<1>11. ASSUME NEW c \in Callers, NEW label, NEW t, Go(c, label, t), pc[c] # "del_put",
              label # "del_put", UNCHANGED mqVars, fault' = "none",
              \A p \in Objs : \/ mThread'[p] = None
                              \/ /\ mThread'[p] = mThread[p] /\ (stopReq[p] => stopReq'[p])
                                 /\ Joinable(p) => wpc'[mThread[p]] = wpc[mThread[p]]
                              \/ childAlive[p]
       PROVE  BacklogInv'
  <2>1. \A p \in Objs : AtDelPut(p)' <=> AtDelPut(p)
    BY <1>11, DelPutGo DEF AtDelPut
  <2>2. \A p \in Objs : Quiet(p)' <=> Quiet(p)
    BY <1>11, <2>1 DEF Quiet
  <2>3. ASSUME NEW p \in Objs PROVE QuietServed(p)'
    <3>1. CASE mThread'[p] = None
      BY <3>1 DEF QuietServed, Joinable
    <3>2. CASE childAlive[p]
      BY <2>2, <3>2 DEF QuietServed, Quiet
    <3>3. CASE /\ mThread'[p] = mThread[p] /\ (stopReq[p] => stopReq'[p])
               /\ Joinable(p) => wpc'[mThread[p]] = wpc[mThread[p]]
      BY <1>11, <2>2, <3>3, QuietFrame DEF BacklogInv
    <3> QED BY <1>11, <3>1, <3>2, <3>3
  <2> QED BY <1>0, <1>11, <2>3 DEF BacklogInv
<1>12. ASSUME NEW c \in Callers, StopAllThreads(c), UNCHANGED mqVars PROVE BacklogInv'
  BY <1>11, <1>12 DEF StopAllThreads, At
<1>13. ASSUME NEW c \in Callers, Continue(c), UNCHANGED mqVars PROVE BacklogInv'
  <2>1. CASE AddThreadObj(c)
    BY <1>11, <1>13, <2>1 DEF AddThreadObj, At
  <2>2. ASSUME NEW w \in Workers, SpawnThread(c, w) PROVE BacklogInv'
    <3>1. /\ Go(c, "idle", None) /\ pc[c] = "start_spawn" /\ tgt[c] \in Objs /\ Owner[tgt[c]] = c
          /\ fault' = "none" /\ UNCHANGED stopReq /\ wpc[w] = "none"
          /\ \A p \in Objs : p # tgt[c] => mThread'[p] = mThread[p]
          /\ \A v \in Workers \ {w} : wpc'[v] = wpc[v]
      BY <2>2 DEF SpawnThread, At, BaseInv
    <3>2. childAlive[tgt[c]]
      BY <3>1 DEF ReadyInv, Starting
    <3>3. \A p \in Objs : Joinable(p) => mThread[p] \in Workers \ {w}
      BY <3>1 DEF BaseInv
    <3>4. \A p \in Objs : p # tgt[c] =>
              mThread'[p] = mThread[p] /\ (Joinable(p) => wpc'[mThread[p]] = wpc[mThread[p]])
      BY <3>1, <3>3
    <3>5. \A p \in Objs : \/ mThread'[p] = None
                          \/ /\ mThread'[p] = mThread[p] /\ (stopReq[p] => stopReq'[p])
                             /\ Joinable(p) => wpc'[mThread[p]] = wpc[mThread[p]]
                          \/ childAlive[p]
      BY <3>1, <3>2, <3>4
    <3>6. pc[c] # "del_put" /\ "idle" # "del_put"
      BY <3>1
    <3> QED BY <1>11, <1>13, <3>1, <3>5, <3>6
  <2>3. CASE JoinThread(c)
    <3>1. ASSUME NEW label \in {"stop_del", "all_pick"}, NEW o, Go(c, label, o),
                 mThread' = [mThread EXCEPT ![tgt[c]] = None], tgt[c] \in Objs, Joinable(tgt[c]),
                 wpc' = [wpc EXCEPT ![mThread[tgt[c]]] = "none"], UNCHANGED <<stopReq, fault>>
          PROVE  BacklogInv'
      <4>1. PICK x \in Objs : x = tgt[c]
        BY <3>1
      <4>2. \A p \in Objs \ {x} : Joinable(p) => mThread[p] # mThread[x]
        BY <3>1, <4>1 DEF BaseInv
      <4>3. \A p \in Objs : \/ mThread'[p] = None
                            \/ /\ mThread'[p] = mThread[p] /\ (stopReq[p] => stopReq'[p])
                               /\ Joinable(p) => wpc'[mThread[p]] = wpc[mThread[p]]
        BY <3>1, <4>1, <4>2 DEF BaseInv
      <4>4. fault' = "none" /\ pc[c] # "del_put"
        BY <2>3, <3>1 DEF JoinThread, At, JoinLabels
      <4> QED BY <1>11, <1>13, <3>1, <4>3, <4>4
    <3>2. tgt[c] \in Objs
      BY <2>3 DEF JoinThread, JoinLabels, BaseInv
    <3> QED BY <1>10, <1>13, <2>3, <3>1, <3>2 DEF JoinThread
  <2>4. ~DetachThread(c)
    BY DEF DetachThread, At, AttachedInv
  <2>5. CASE DelThreadObj(c) \/ StopAllDone(c)
    BY <1>11, <1>13, <2>5 DEF DelThreadObj, StopAllDone, At
  <2>6. ASSUME NEW o \in Objs, StopAllNext(c, o) PROVE BacklogInv'
    <3>1. CASE \E kind \in {"use_after_free"} : Fail(kind)
      BY <1>10, <1>13, <3>1
    <3>2. CASE ~(life[o] = "gone")
      <4>1. /\ UNCHANGED <<mThread, wpc, fault>> /\ fault = "none" /\ pc[c] = "all_pick"
            /\ \A p \in Objs : stopReq[p] => stopReq'[p]
            /\ Go(c, "all_join", o) \/ UNCHANGED <<pc, tgt>>
        BY <2>6, <3>2 DEF StopAllNext, At, BaseInv
      <4>2. CASE Go(c, "all_join", o)
        BY <1>11, <1>13, <4>1, <4>2
      <4>3. CASE UNCHANGED <<pc, tgt>>
        <5>1. \A p \in Objs : AtDelPut(p)' <=> AtDelPut(p)
          BY <4>3 DEF AtDelPut
        <5> QED BY <1>0, <1>13, <4>1, <5>1, BacklogFrame
      <4> QED BY <4>1, <4>2, <4>3
    <3> QED BY <2>6, <3>1, <3>2 DEF StopAllNext
  <2> QED BY <1>13, <2>1, <2>2, <2>3, <2>4, <2>5, <2>6 DEF Continue
<1>14. ASSUME NEW c \in Callers, StopAfterMsg(c) PROVE BacklogInv'
  <2>1. /\ pc[c] # "del_put" /\ fault' = "none" /\ UNCHANGED mqVars
        /\ UNCHANGED <<mThread, wpc>> /\ \A p \in Objs : stopReq[p] => stopReq'[p]
    BY <1>14 DEF StopAfterMsg, StopBody, At, BaseInv
  <2>2. PICK label, t : Go(c, label, t) /\ label # "del_put"
    BY <1>14 DEF StopAfterMsg, StopBody
  <2>3. \A p \in Objs : /\ mThread'[p] = mThread[p] /\ (stopReq[p] => stopReq'[p])
                        /\ Joinable(p) => wpc'[mThread[p]] = wpc[mThread[p]]
    BY <2>1
  <2> QED BY <1>11, <2>1, <2>2, <2>3
<1>15. ASSUME NEW w \in Workers, Enter(w) PROVE BacklogInv'
  <2> PICK o : o = wobj[w]
    OBVIOUS
  <2>1. life[o] # "base"
    BY <1>15 DEF Enter, WorkerEnter, BaseInv
  <2>2. /\ wpc[w] = "created" /\ wpc' \in {wpc, [wpc EXCEPT ![w] = "running"]}
        /\ wat' = [wat EXCEPT ![w] = "check"] /\ wat'[w] = "check"
        /\ UNCHANGED <<mThread, pc, tgt, stopReq, childAlive, backlog, q, got>>
        /\ fault' # "pure_virtual"
    BY <1>15, <2>1 DEF Enter, WorkerEnter, Fail, Step, MQTypeOK
  <2>3. \A v \in Workers \ {w} : wpc'[v] = wpc[v] /\ wat'[v] = wat[v] /\ got'[v] = got[v]
    BY <2>2 DEF MQTypeOK, BaseInv
  <2>4. ASSUME QuietServed(o), Quiet(o), Joinable(o), mThread[o] = w PROVE QuietServed(o)'
    <3>1. StopAhead(o)'
      BY <2>2, <2>4 DEF QuietServed, StopAhead, Over, HoldsStop
    <3>2. ~HoldsMsg(mThread[o])'
      BY <2>2, <2>4 DEF HoldsMsg
    <3> QED BY <3>1, <3>2 DEF QuietServed
  <2> QED BY <1>0, <2>2, <2>3, <2>4, QuietWorker
<1>16. ASSUME NEW w \in Workers,
              \/ CheckStop(w) \/ LockLoop(w) \/ Select(w) \/ SelectFails(w) \/ OldQueueReady(w)
              \/ ClearQueue(w)
       PROVE  BacklogInv'
  <2> PICK o : o = wobj[w]
    OBVIOUS
  <2>1. /\ wpc[w] = "running" /\ o \in Objs /\ fault' = "none"
        /\ UNCHANGED <<mThread, pc, tgt, stopReq, childAlive, backlog, wpc>>
        /\ \A v \in Workers \ {w} : wat'[v] = wat[v] /\ got'[v] = got[v]
        /\ \A p \in Objs \ {o} : q'[p] = q[p]
    BY <1>16 DEF CheckStop, LockLoop, Select, SelectFails, OldQueueReady, EndRound, ClearQueue, Step,
                 Running, BaseInv, MQTypeOK
  <2>2. \/ wat[w] = "check" /\ wat'[w] = "clear" /\ UNCHANGED q
        \/ wat[w] = "check" /\ wat'[w] = "lock" /\ ~stopReq[o] /\ UNCHANGED q
        \/ wat[w] = "lock" /\ wat'[w] = "select" /\ UNCHANGED q
        \/ wat[w] = "select" /\ wat'[w] \in {"read", "old", "check"} /\ UNCHANGED q
        \/ wat[w] = "old" /\ wat'[w] = "check" /\ UNCHANGED q
        \/ wat[w] = "clear" /\ wat'[w] \in {"clear", "out"}
    BY <1>16, <2>1 DEF CheckStop, LockLoop, Select, SelectFails, OldQueueReady, EndRound, ClearQueue,
                       Step, Running, MQTypeOK
  <2>3. ASSUME QuietServed(o), Quiet(o), Joinable(o), mThread[o] = w PROVE QuietServed(o)'
    <3>1. ~HoldsMsg(mThread[o])'
      BY <2>1, <2>2, <2>3 DEF HoldsMsg
    <3>2. UNCHANGED q => (StopAhead(o) => StopAhead(o)')
      BY DEF StopAhead
    <3>3. CASE wat[w] = "clear"
      BY <2>1, <2>2, <2>3, <3>1, <3>3 DEF QuietServed, Over
    <3>4. CASE wat[w] # "clear"
      BY <2>1, <2>2, <2>3, <3>1, <3>2, <3>4 DEF QuietServed, Over, HoldsStop
    <3> QED BY <3>3, <3>4
  <2> QED BY <1>0, <2>1, <2>3, QuietWorker
<1>17. ASSUME NEW w \in Workers, ReadMsg(w) PROVE BacklogInv'
  <2> PICK o : o = wobj[w]
    OBVIOUS
  <2>1. /\ wpc[w] = "running" /\ wat[w] = "read" /\ o \in Objs /\ fault' = "none"
        /\ UNCHANGED <<mThread, pc, tgt, stopReq, childAlive, backlog, wpc>>
        /\ \A v \in Workers \ {w} : wat'[v] = wat[v] /\ got'[v] = got[v]
        /\ \A p \in Objs \ {o} : q'[p] = q[p]
    BY <1>17 DEF ReadMsg, Running, Step, BaseInv, MQTypeOK
  <2>2. ASSUME QuietServed(o), Quiet(o), Joinable(o), mThread[o] = w PROVE QuietServed(o)'
    <3>1. q[o] # <<>> /\ Head(q[o]) = "stop"
      BY <2>1, <2>2 DEF QuietServed, Over, HoldsStop, StopAhead
    <3>2. got'[w] = "stop" /\ wat'[w] = "dispatch" /\ wpc'[w] = "running" /\ mThread'[o] = w
      BY <1>17, <2>1, <2>2, <3>1 DEF ReadMsg, Step, MQTypeOK
    <3> QED BY <3>2 DEF QuietServed, HoldsMsg, HoldsStop
  <2> QED BY <1>0, <2>1, <2>2, QuietWorker
<1>18. ASSUME NEW w \in Workers, DispatchStop(w) \/ ProcessMsg(w) PROVE BacklogInv'
  <2> PICK o : o = wobj[w]
    OBVIOUS
  <2>1. /\ wpc[w] = "running" /\ wat[w] = "dispatch" /\ o \in Objs /\ fault = "none"
        /\ Joinable(o) /\ mThread[o] = w
        /\ UNCHANGED <<mThread, pc, tgt, q, childAlive, backlog, wpc>>
    BY <1>18 DEF DispatchStop, ProcessMsg, WorkerRequestStop, EndRound, Running, Fail, BaseInv,
                 AttachedInv
  <2>2. CASE DispatchStop(w)
    <3>1. /\ stopReq' = [stopReq EXCEPT ![o] = TRUE] /\ stopReq'[o] = TRUE /\ fault' = "none"
          /\ wat' = [wat EXCEPT ![w] = "check"] /\ got' = [got EXCEPT ![w] = "none"]
      BY <2>1, <2>2 DEF DispatchStop, WorkerRequestStop, EndRound, Step, BaseInv
    <3>2. /\ wat'[w] = "check" /\ \A v \in Workers \ {w} : wat'[v] = wat[v] /\ got'[v] = got[v]
          /\ \A p \in Objs \ {o} : stopReq'[p] = stopReq[p]
      BY <3>1 DEF MQTypeOK, BaseInv
    <3>3. QuietServed(o)'
      BY <2>1, <3>1, <3>2 DEF QuietServed, HoldsMsg
    <3> QED BY <1>0, <2>1, <3>1, <3>2, <3>3, QuietWorker
  <2>3. CASE ProcessMsg(w)
    <3>1. HoldsMsg(w) /\ ~Quiet(o)
      BY <2>1, <2>3 DEF ProcessMsg, HoldsMsg, BacklogInv, QuietServed
    <3>2. CASE EndRound(w) /\ UNCHANGED vars
      <4>1. /\ \A v \in Workers \ {w} : wat'[v] = wat[v] /\ got'[v] = got[v]
            /\ UNCHANGED stopReq /\ fault' = "none"
        BY <2>1, <3>2 DEF EndRound, Step, MQTypeOK
      <4> QED BY <1>0, <2>1, <3>1, <4>1, QuietWorker
    <3>3. CASE ~childAlive[o] /\ Fail("pure_virtual") /\ UNCHANGED mqVars
      <4>1. backlog[o] \/ AtDelPut(o)
        BY <3>1, <3>3 DEF Quiet
      <4>2. \A p \in Objs : AtDelPut(p)' <=> AtDelPut(p)
        BY <2>1 DEF AtDelPut
      <4>3. PureCallNeedsBacklog'
        BY <2>1, <3>3, <4>1, <4>2 DEF PureCallNeedsBacklog
      <4> QED BY <2>1, <3>3, <4>2, <4>3, BacklogFrame DEF Fail
    <3> QED BY <2>3, <3>2, <3>3 DEF ProcessMsg
  <2> QED BY <1>18, <2>2, <2>3
<1>19. ASSUME NEW w \in Workers, Leave(w) PROVE BacklogInv'
  <2> PICK o : o = wobj[w]
    OBVIOUS
  <2>1. /\ wpc[w] = "running" /\ o \in Objs /\ Joinable(o) /\ life[o] # "gone"
    BY <1>19 DEF Leave, WorkerReturn, BaseInv, AttachedInv
  <2>2. /\ wpc' = [wpc EXCEPT ![w] = "ended"] /\ wpc'[w] = "ended" /\ fault' # "pure_virtual"
        /\ UNCHANGED <<mThread, pc, tgt, stopReq, childAlive, backlog, q, wat, got>>
    BY <1>19, <2>1 DEF Leave, WorkerReturn, Use, AttachedInv, BaseInv
  <2>3. ASSUME mThread[o] = w PROVE QuietServed(o)'
    BY <2>2, <2>3 DEF QuietServed, HoldsMsg, Over
  <2>4. \A v \in Workers \ {w} : wpc'[v] = wpc[v] /\ wat'[v] = wat[v] /\ got'[v] = got[v]
    BY <2>2 DEF BaseInv
  <2> QED BY <1>0, <2>1, <2>2, <2>3, <2>4, QuietWorker
<1>20. CASE UNCHANGED allVars
  <2>1. \A p \in Objs : AtDelPut(p)' <=> AtDelPut(p)
    BY <1>20 DEF allVars, AtDelPut
  <2>2. PureCallNeedsBacklog'
    BY <1>20, <2>1 DEF allVars, PureCallNeedsBacklog, BacklogInv
  <2> QED BY <1>20, <2>1, <2>2, BacklogFrame DEF allVars
<1> QED
  BY <1>2, <1>3, <1>5, <1>6, <1>7, <1>8, <1>9, <1>12, <1>13, <1>14, <1>15, <1>16, <1>17, <1>18, <1>19,
     <1>20
  DEF MQNext, MQCall, MQContinue, MQWork

(* Whoever deletes objects whose threads run, sends to them or stops them all *)
(* (but nobody detaches), ProcessMsg() is called on an object whose derived   *)
(* part is gone only if a message was in front of the destructor's own stop   *)
(* message, or came before it was sent (ThreadWithMsgQueue.h:39,              *)
(* ThreadWithMsgQueue.cpp:7-10, 63-72, 93). *)
THEOREM PureCallOnlyWithBacklog ==
    ASSUME NeverDetach
    PROVE  MQSafetySpec => []PureCallNeedsBacklog
<1>1. MQInv /\ AttachedInv /\ BacklogInv /\ [MQNext]_allVars => BacklogInv'
  BY BaseFacts, BacklogStep DEF MQInv
<1>2. BacklogInv => PureCallNeedsBacklog
  BY DEF BacklogInv
<1> QED BY <1>1, <1>2, AttachedInvariant, BacklogInit, PTL DEF MQSafetySpec

----------------------------------------------------------------------------
(* What clients of ThreadObj are promised, message-loop threads keep.        *)

LEMMA BaseIsReached ==
    ASSUME TRUE \in WaitModes PROVE MQSafetySpec => PB!SafetySpec
<1>1. UsesThreadObj <=> Base!SafetySpec
  BY DEF UsesThreadObj
<1> QED BY <1>1, QueueThreadIsAThreadObj, SameBase, PTL

(* A message-loop thread that was not detached is the one its object can      *)
(* join, and nobody clears the stop flag while a caller waits in join(), also *)
(* when MSG_ID_STOP_THREAD or StopAllThreads() asks for the stop at the same  *)
(* time (ThreadWithMsgQueue.cpp:48-72, 96-99). *)
THEOREM QueueThreadsAreHeld ==
    ASSUME TRUE \in WaitModes
    PROVE  MQSafetySpec => [](AttachedWorkerIsHeld /\ StopRequestStands)
<1>1. PB!SafetySpec => [](PB!TypeOK /\ PB!AttachedWorkerIsHeld /\ PB!StopRequestStands)
  BY ConstantsAssumption, PB!HandlesAndRequests
<1>2. PB!AttachedWorkerIsHeld => AttachedWorkerIsHeld
  BY DEF PB!AttachedWorkerIsHeld, AttachedWorkerIsHeld, PB!Alive, Alive
<1>3. PB!StopRequestStands => StopRequestStands
  <2> SUFFICES ASSUME PB!StopRequestStands, NEW c \in Callers, pc[c] \in JoinLabels, Joinable(tgt[c])
               PROVE  stopReq[tgt[c]]
    BY DEF StopRequestStands
  <2>1. BasePc[c] = pc[c] /\ BaseTgt[c] = tgt[c]
    BY DEF BasePc, BaseTgt, JoinLabels, FlagLabels
  <2> QED BY <2>1 DEF PB!StopRequestStands, PB!JoinLabels, JoinLabels, PB!Joinable, Joinable
<1> QED BY <1>1, <1>2, <1>3, BaseIsReached, PTL

(* The registry lists exactly the message-loop threads that run, between the  *)
(* calls of their owners, if nobody stops all threads while others use the    *)
(* class: a StopThread() that has sent its message and not yet reached        *)
(* ThreadObj disturbs nothing (ThreadWithMsgQueue.cpp:63-72). *)
THEOREM QueueThreadsAreRegistered ==
    ASSUME TRUE \in WaitModes, SoleManager
    PROVE  MQSafetySpec => []RegistryExact
<1>1. PB!SoleManager
  BY DEF SoleManager, PB!SoleManager
<1>2. PB!SafetySpec => [](PB!RegistryExact)
  BY <1>1, ConstantsAssumption, PB!RegistryIsExact
<1>3. PB!RegistryExact => RegistryExact
  <2> SUFFICES ASSUME PB!RegistryExact, gListMtx = None, NEW o \in Objs, tgt[Owner[o]] # o
               PROVE  gList[o] = IF Joinable(o) THEN 1 ELSE 0
    BY DEF RegistryExact
  <2>1. BaseTgt[Owner[o]] # o
    BY ConstantsAssumption DEF BaseTgt
  <2> QED BY <2>1 DEF PB!RegistryExact, PB!Joinable, Joinable
<1> QED BY <1>2, <1>3, BaseIsReached, PTL

(* When StopAllThreads() gives gListMtx back, no message-loop thread is left  *)
(* but detached ones, if nobody else uses the class (ThreadObj.h:82); that it *)
(* comes so far is another question (StopAllReturns). *)
THEOREM StopAllStopsQueueThreads ==
    ASSUME TRUE \in WaitModes, SoleManager
    PROVE  MQSafetySpec => StopAllStopsAll
<1>1. PB!SoleManager
  BY DEF SoleManager, PB!SoleManager
<1>2. PB!SafetySpec => PB!StopAllStopsAll
  BY <1>1, ConstantsAssumption, PB!StopAllStops
<1>3. [gListMtx # None /\ gListMtx' = None =>
          \A w \in Workers : PB!Alive(w) => w \in detached]_(PB!vars)
      => [gListMtx # None /\ gListMtx' = None =>
             \A w \in Workers : Alive(w) => w \in detached]_vars
  BY DEF PB!vars, vars, PB!Alive, Alive
<1> QED BY <1>2, <1>3, BaseIsReached, PTL DEF StopAllStopsAll, PB!StopAllStopsAll

(* One thread that manages all message-loop threads and never detaches may    *)
(* delete objects whose threads run: no thread is joined twice, none touches  *)
(* an object that is gone, and a message meets a destroyed class only when it *)
(* was in front of the destructor's stop message                              *)
(* (ThreadObj.cpp:12-67, ThreadWithMsgQueue.cpp:7-10, 63-72, 93). *)
THEOREM QueueThreadsFailOnlyWithBacklog ==
    ASSUME SoleManager, NeverDetach
    PROVE  MQSafetySpec => []FailsOnlyWithBacklog
<1>1. TRUE \in WaitModes /\ PB!SoleManager /\ PB!Careful
  BY DEF SoleManager, PB!SoleManager, PB!Careful, NeverDetach
<1>2. PB!SafetySpec => [](PB!NoFault)
  BY <1>1, ConstantsAssumption, PB!CarefulClientsNeverFail
<1>3. PB!NoFault /\ PureCallNeedsBacklog => FailsOnlyWithBacklog
  BY DEF PB!NoFault, FailsOnlyWithBacklog, BaseFault
<1> QED BY <1>1, <1>2, <1>3, BaseIsReached, PureCallOnlyWithBacklog, PTL

----------------------------------------------------------------------------
(* The stop message and the stop request.                                    *)

LEMMA StopMsgInit == MQInit => StopMsgInv
BY ConstantsAssumption
DEF MQInit, Init, StopMsgInv, MsgServed, ThreadServed, Joinable, HasStop

\* What has to stay for an object to be served as before.
LEMMA ServedFrame ==
    ASSUME NEW o \in Objs, MsgServed(o), ThreadServed(o),
           mThread'[o] = mThread[o], stopReq'[o] = stopReq[o], refused'[o] = refused[o],
           q'[o] = q[o], unread'[o] = unread[o],
           Joinable(o) => /\ wpc'[mThread[o]] = wpc[mThread[o]]
                          /\ wat'[mThread[o]] = wat[mThread[o]]
                          /\ got'[mThread[o]] = got[mThread[o]],
           Stopping(o)' <=> Stopping(o)
    PROVE  MsgServed(o)' /\ ThreadServed(o)'
<1>1. Joinable(o)' <=> Joinable(o)
  BY DEF Joinable
<1>2. HasStop(o)' <=> HasStop(o)
  BY DEF HasStop
<1>3. MsgServed(o)'
  BY <1>1, <1>2 DEF MsgServed
<1>4. CASE ~Joinable(o)
  BY <1>1, <1>3, <1>4 DEF ThreadServed
<1>5. CASE Joinable(o)
  <2> DEFINE w == mThread[o]
  <2>1. mThread'[o] = w /\ wpc'[w] = wpc[w] /\ wat'[w] = wat[w] /\ got'[w] = got[w]
    BY <1>5
  <2>2. (HoldsStop(w)' <=> HoldsStop(w)) /\ (Over(w)' <=> Over(w)) /\ (WillLook(w)' <=> WillLook(w))
    BY <2>1 DEF HoldsStop, Over, WillLook
  <2> QED BY <1>2, <1>3, <1>5, <2>1, <2>2 DEF ThreadServed, HoldsStop, Over, WillLook
<1> QED BY <1>4, <1>5

\* A step of caller c changes nothing for the objects of the others.
LEMMA OtherOwners ==
    ASSUME BaseInv, NEW c \in Callers, NEW label, NEW o, Go(c, label, o)
    PROVE  \A p \in Objs :
               /\ Owner[p] # c => (Stopping(p)' <=> Stopping(p))
               /\ Owner[p] = c =>
                      (Stopping(p)' <=> o = p /\ label \in {"flag_join", "stop_join"})
BY ConstantsAssumption DEF Go, BaseInv, Stopping

LEMMA HasStopAppend ==
    ASSUME MQTypeOK, NEW o \in Objs, NEW m, q'[o] = Append(q[o], m)
    PROVE  HasStop(o)' <=> HasStop(o) \/ m = "stop"
<1>1. q[o] \in Seq({"msg", "stop"}) /\ Len(q[o]) \in Nat
  BY DEF MQTypeOK
<1>2. /\ Len(q'[o]) = Len(q[o]) + 1 /\ DOMAIN q'[o] = 1..Len(q'[o])
      /\ DOMAIN q[o] = 1..Len(q[o])
      /\ \A i \in 1..Len(q[o]) : q'[o][i] = q[o][i]
      /\ q'[o][Len(q[o]) + 1] = m
  BY <1>1
<1> QED BY <1>1, <1>2 DEF HasStop

LEMMA HasStopTail ==
    ASSUME MQTypeOK, NEW o \in Objs, q[o] # <<>>, q'[o] = Tail(q[o])
    PROVE  HasStop(o) <=> Head(q[o]) = "stop" \/ HasStop(o)'
<1>1. q[o] \in Seq({"msg", "stop"}) /\ Len(q[o]) \in Nat \ {0}
  BY DEF MQTypeOK
<1>2. /\ Len(q'[o]) = Len(q[o]) - 1 /\ DOMAIN q'[o] = 1..Len(q'[o])
      /\ DOMAIN q[o] = 1..Len(q[o])
      /\ \A i \in 1..Len(q'[o]) : q'[o][i] = q[o][i + 1]
      /\ Head(q[o]) = q[o][1]
  BY <1>1
<1>3. HasStop(o)' => HasStop(o)
  BY <1>1, <1>2 DEF HasStop
<1>4. Head(q[o]) = "stop" => HasStop(o)
  BY <1>1, <1>2 DEF HasStop
<1>5. ASSUME HasStop(o), Head(q[o]) # "stop" PROVE HasStop(o)'
  <2>1. PICK i \in 1..Len(q[o]) : q[o][i] = "stop"
    BY <1>2, <1>5 DEF HasStop
  <2>2. i - 1 \in 1..Len(q'[o]) /\ q'[o][i - 1] = "stop"
    BY <1>1, <1>2, <1>5, <2>1
  <2> QED BY <1>2, <2>2 DEF HasStop
<1> QED BY <1>3, <1>4, <1>5

\* A call or its continuation on o = label's object by its owner c: it is
\* enough to look at that object.
LEMMA OwnerStep ==
    ASSUME BaseInv, StopMsgInv, NEW c \in Callers, NEW o \in Objs, NEW label, NEW t,
           Owner[o] = c, Go(c, label, t), tgt[c] \in {o, None}, t \in {o, None},
           label \in {"start_add", "start_spawn"} => t = o /\ ~stopReq'[o],
           \A p \in Objs \ {o} :
               /\ mThread'[p] = mThread[p] /\ stopReq'[p] = stopReq[p]
               /\ refused'[p] = refused[p] /\ q'[p] = q[p] /\ unread'[p] = unread[p]
               /\ Joinable(p) => wpc'[mThread[p]] = wpc[mThread[p]],
           \A w \in Workers : wpc'[w] # "running" => wpc[w] # "running",
           UNCHANGED <<wat, got>>,
           MsgServed(o)' /\ ThreadServed(o)'
    PROVE  StopMsgInv'
<1>1. \A x \in Callers : pc'[x] \in {"start_add", "start_spawn"} => ~stopReq'[tgt'[x]]
  <2> SUFFICES ASSUME NEW x \in Callers, pc'[x] \in {"start_add", "start_spawn"}
               PROVE  ~stopReq'[tgt'[x]]
    OBVIOUS
  <2>1. CASE x = c
    BY <2>1 DEF Go, BaseInv
  <2>2. CASE x # c
    <3>1. pc[x] = pc'[x] /\ tgt'[x] = tgt[x] /\ tgt[x] \in Objs /\ Owner[tgt[x]] = x
      BY <2>2 DEF Go, BaseInv
    <3> QED BY <2>2, <3>1 DEF StopMsgInv
  <2> QED BY <2>1, <2>2
<1>2. \A p \in Objs \ {o} : Stopping(p)' <=> Stopping(p)
  BY OtherOwners, ConstantsAssumption DEF Stopping
<1>3. \A p \in Objs \ {o} : MsgServed(p)' /\ ThreadServed(p)'
  BY <1>2, ServedFrame DEF StopMsgInv
<1> QED BY <1>1, <1>3 DEF StopMsgInv

\* The same for a step of the worker that o is joinable with.
LEMMA WorkerStep ==
    ASSUME BaseInv, AttachedInv, StopMsgInv, NEW w \in Workers, NEW o, o = wobj[w], wpc[w] # "none",
           UNCHANGED <<mThread, pc, tgt, refused, unread>>,
           \A p \in Objs \ {o} : stopReq'[p] = stopReq[p] /\ q'[p] = q[p],
           \A v \in Workers \ {w} : wpc'[v] = wpc[v] /\ wat'[v] = wat[v] /\ got'[v] = got[v],
           wpc'[w] # "running" => wat'[w] # "select",
           ThreadServed(o) /\ MsgServed(o) /\ Joinable(o) =>
               MsgServed(o)' /\ ThreadServed(o)'
    PROVE  StopMsgInv'
<1>1. o \in Objs /\ Joinable(o) /\ mThread[o] = w
  BY DEF BaseInv, AttachedInv
<1>2. \A x \in Callers : pc'[x] \in {"start_add", "start_spawn"} => ~stopReq'[tgt'[x]]
  BY <1>1 DEF BaseInv, StopMsgInv
<1>3. ASSUME NEW p \in Objs \ {o} PROVE MsgServed(p)' /\ ThreadServed(p)'
  <2>1. Joinable(p) => mThread[p] \in Workers \ {w}
    BY DEF BaseInv
  <2>2. Stopping(p)' <=> Stopping(p)
    BY DEF Stopping
  <2> QED BY <2>1, <2>2, ServedFrame DEF StopMsgInv
<1>4. MsgServed(o)' /\ ThreadServed(o)'
  BY <1>1 DEF StopMsgInv
<1>5. \A v \in Workers : wpc'[v] # "running" => wat'[v] # "select"
  <2> SUFFICES ASSUME NEW v \in Workers, wpc'[v] # "running" PROVE wat'[v] # "select"
    OBVIOUS
  <2>1. CASE v = w
    BY <2>1
  <2>2. CASE v # w
    BY <2>2 DEF StopMsgInv
  <2> QED BY <2>1, <2>2
<1>6. \A p \in Objs : MsgServed(p)' /\ ThreadServed(p)'
  BY <1>3, <1>4
<1> QED BY <1>2, <1>5, <1>6 DEF StopMsgInv

\* The stop message of an owner that begins to stop, or to delete, o.
LEMMA PutServed ==
    ASSUME MQTypeOK, StopMsgInv, NEW o \in Objs, PutStopMsg(o), Stopping(o)',
           UNCHANGED <<mThread, stopReq, wpc, wat, got>>
    PROVE  /\ MsgServed(o)' /\ ThreadServed(o)'
           /\ \A p \in Objs \ {o} :
                  q'[p] = q[p] /\ refused'[p] = refused[p] /\ unread'[p] = unread[p]
<1>1. unread'[o] <=> ~HasReader(o)
  BY DEF PutStopMsg, MQTypeOK
<1>2. ~refused'[o] => HasStop(o)'
  <2>1. CASE Len(q[o]) < QSize
    <3>1. q'[o] = Append(q[o], "stop")
      BY <2>1 DEF PutStopMsg, MQTypeOK
    <3> QED BY <3>1, HasStopAppend
  <2>2. CASE ~(Len(q[o]) < QSize)
    BY <2>2 DEF PutStopMsg, MQTypeOK
  <2> QED BY <2>1, <2>2
<1>3. MsgServed(o)'
  BY <1>1 DEF MsgServed, HasReader, Joinable
<1>4. ThreadServed(o)'
  BY <1>1, <1>2 DEF StopMsgInv, ThreadServed, HasReader, Joinable, Over
<1>5. \A p \in Objs \ {o} :
          q'[p] = q[p] /\ refused'[p] = refused[p] /\ unread'[p] = unread[p]
  BY DEF PutStopMsg, MQTypeOK
<1> QED BY <1>3, <1>4, <1>5

LEMMA StopMsgStep ==
    ASSUME OnlyOwnersStop, BaseInv, MQTypeOK, AttachedInv, StopMsgInv, [MQNext]_allVars
    PROVE  StopMsgInv'
<1> USE ConstantsAssumption
    DEF mqVars, history, vars, callerVars, workerVars, MayUse, MayCall, At
<1>0. Managers = {} /\ WaitModes = {TRUE} /\ \A m \in SendKinds : m = "msg"
  BY DEF OnlyOwnersStop, NeverDetach
<1>1. ASSUME NEW c \in Callers, NEW o \in Objs, StartQueueThread(c, o) PROVE StopMsgInv'
  <2>1. /\ Owner[o] = c /\ tgt[c] = None /\ ~Joinable(o) /\ Go(c, "start_add", o)
        /\ UNCHANGED <<mThread, wpc, q, refused, unread, wat, got>>
        /\ stopReq' = [stopReq EXCEPT ![o] = FALSE] /\ stopReq'[o] = FALSE
    BY <1>1 DEF StartQueueThread, StartThread, BaseInv
  <2>2. MsgServed(o)' /\ ThreadServed(o)'
    BY <2>1 DEF StopMsgInv, MsgServed, ThreadServed, Joinable, HasStop
  <2>3. \A p \in Objs \ {o} : stopReq'[p] = stopReq[p]
    BY <2>1 DEF BaseInv
  <2>4. ~stopReq'[o] /\ tgt[c] \in {o, None}
    BY <2>1
  <2> QED BY <2>1, <2>2, <2>3, <2>4, OwnerStep
<1>2. ASSUME NEW c \in Callers, NEW o \in Objs, InitQueue(c, o) PROVE StopMsgInv'
  <2>1. /\ UNCHANGED <<mThread, stopReq, refused, unread, wpc, wobj, got, pc, tgt>>
        /\ q'[o] = <<>> /\ \A p \in Objs \ {o} : q'[p] = q[p]
        /\ Owner[o] = c /\ tgt[c] = None
    BY <1>2 DEF InitQueue, MQTypeOK, BaseInv
  <2>2. /\ \A v \in Workers : wobj[v] # o \/ wpc[v] # "running" => wat'[v] = wat[v]
        /\ \A v \in Workers : \/ wat'[v] = wat[v]
                              \/ wpc[v] = "running" /\ wat[v] = "select" /\ wat'[v] = "old"
                              \/ wpc[v] = "running" /\ wat[v] = "clear" /\ wat'[v] = "out"
    BY <1>2 DEF InitQueue
  <2>3. \A p \in Objs : Stopping(p)' <=> Stopping(p)
    BY <2>1 DEF Stopping
  <2>4. ASSUME NEW p \in Objs \ {o} PROVE MsgServed(p)' /\ ThreadServed(p)'
    <3>1. Joinable(p) => mThread[p] \in Workers /\ wobj[mThread[p]] # o
      BY DEF BaseInv
    <3> QED BY <2>1, <2>2, <2>3, <3>1, ServedFrame DEF StopMsgInv
  <2>5. ~HasStop(o)' /\ ~Stopping(o)'
    BY <2>1, <2>3 DEF HasStop, Stopping
  <2>6. MsgServed(o)'
    BY <2>5 DEF MsgServed
  <2>7. ASSUME Joinable(o) PROVE ThreadServed(o)'
    <3> PICK w \in Workers : w = mThread[o]
      BY <2>7 DEF BaseInv
    <3>1. mThread'[o] = w /\ wpc'[w] = wpc[w] /\ got'[w] = got[w] /\ stopReq'[o] = stopReq[o]
      BY <2>1
    <3>2. HoldsStop(w)' => HoldsStop(w)
      BY <2>2, <3>1 DEF HoldsStop
    <3>3. wpc'[w] = "running" /\ wat'[w] = "clear" => wpc[w] = "running" /\ wat[w] = "clear"
      BY <2>2, <3>1
    <3>4. Over(w)' => Over(w) \/ (wpc[w] = "running" /\ wat[w] = "clear")
      BY <2>2, <3>1 DEF Over
    <3>5. ~Stopping(o) /\ unread'[o] = unread[o]
      BY <2>1, <2>3, <2>5
    <3> QED BY <2>5, <2>7, <3>1, <3>2, <3>3, <3>4, <3>5 DEF StopMsgInv, ThreadServed
  <2>8. ThreadServed(o)'
    BY <2>1, <2>7 DEF ThreadServed, Joinable
  <2>9. \A v \in Workers : wpc'[v] # "running" => wat'[v] # "select"
    BY <2>1, <2>2 DEF StopMsgInv
  <2> QED BY <2>1, <2>4, <2>6, <2>8, <2>9 DEF StopMsgInv
<1>3. ASSUME NEW c \in Callers, NEW o \in Objs, NEW m \in SendKinds, SendMsg(c, o, m)
      PROVE  StopMsgInv'
  <2>1. /\ UNCHANGED <<mThread, stopReq, refused, unread, wpc, wat, got, pc, tgt>>
        /\ q'[o] = Append(q[o], "msg")
        /\ \A p \in Objs \ {o} : q'[p] = q[p]
    BY <1>0, <1>3 DEF SendMsg, MQTypeOK
  <2>2. \A p \in Objs : Stopping(p)' <=> Stopping(p)
    BY <2>1 DEF Stopping
  <2>3. \A p \in Objs : HasStop(p)' <=> HasStop(p)
    <3>1. HasStop(o)' <=> HasStop(o)
      <4>1. HasStop(o)' <=> HasStop(o) \/ "msg" = "stop"
        BY <2>1, HasStopAppend
      <4> QED BY <4>1
    <3> QED BY <2>1, <3>1 DEF HasStop
  <2>4. \A p \in Objs : MsgServed(p)' /\ ThreadServed(p)'
    BY <2>1, <2>2, <2>3
    DEF StopMsgInv, MsgServed, ThreadServed, Joinable, HoldsStop, Over, WillLook
  <2> QED BY <2>1, <2>4 DEF StopMsgInv
<1>4. ASSUME NEW c \in Callers, NEW o \in Objs, NEW isWaiting \in WaitModes,
             StopQueueThread(c, o, isWaiting)
      PROVE  StopMsgInv'
  <2>1. /\ Owner[o] = c /\ tgt[c] = None /\ PutStopMsg(o) /\ Go(c, "flag_join", o)
        /\ UNCHANGED <<mThread, stopReq, wpc, wat, got>>
    BY <1>0, <1>4 DEF StopQueueThread, BaseInv
  <2>2. Stopping(o)'
    BY <2>1, OtherOwners
  <2> QED BY <2>1, <2>2, PutServed, OwnerStep
<1>5. ASSUME NEW c \in Callers, NEW o \in Objs, Delete(c, o) PROVE StopMsgInv'
  <2>1. /\ Owner[o] = c /\ tgt[c] = None
        /\ UNCHANGED <<mThread, stopReq, q, refused, unread, wpc, wat, got>>
    BY <1>5 DEF Delete, BaseInv
  <2>2. Go(c, "del_put", o) \/ Go(c, "idle", None)
    BY <1>5 DEF Delete, Go, BaseInv
  <2>3. ~Stopping(o) /\ ~Stopping(o)'
    BY <2>1, <2>2, OtherOwners DEF Stopping
  <2>4. MsgServed(o)' /\ ThreadServed(o)'
    BY <2>1, <2>3, ServedFrame DEF StopMsgInv
  <2>5. ASSUME NEW label \in {"del_put", "idle"}, NEW t \in {o, None}, Go(c, label, t)
        PROVE  StopMsgInv'
    BY <2>1, <2>4, <2>5, OwnerStep
  <2> QED BY <2>2, <2>5
<1>17. ASSUME NEW c \in Callers, DeletePut(c) PROVE StopMsgInv'
  <2> PICK o : o = tgt[c]
    OBVIOUS
  <2>1. /\ o \in Objs /\ Owner[o] = c /\ PutStopMsg(o) /\ Go(c, "flag_join", o)
        /\ UNCHANGED <<mThread, stopReq, wpc, wat, got>>
    BY <1>17 DEF DeletePut, BaseInv
  <2>2. Stopping(o)'
    BY <2>1, OtherOwners
  <2> QED BY <2>1, <2>2, PutServed, OwnerStep
<1>6. ASSUME NEW c \in Callers, NEW o \in Objs, DestroyDrain(c, o) \/ Destroy(c, o)
      PROVE  StopMsgInv'
  <2>1. /\ ~Joinable(o) /\ \A p \in Objs \ {o} : q'[p] = q[p]
        /\ UNCHANGED <<mThread, stopReq, refused, unread, wpc, wat, got, pc, tgt>>
    BY <1>6 DEF DestroyDrain, Destroy, DeleteStopped, MQTypeOK
  <2>2. \A p \in Objs : Stopping(p)' <=> Stopping(p)
    BY <2>1 DEF Stopping
  <2>3. HasStop(o)' => HasStop(o)
    <3>1. CASE DestroyDrain(c, o)
      <4>1. q[o] # <<>> /\ q'[o] = Tail(q[o])
        BY <3>1 DEF DestroyDrain, MQTypeOK
      <4> QED BY <4>1, HasStopTail
    <3>2. CASE Destroy(c, o)
      BY <3>2 DEF Destroy, HasStop
    <3> QED BY <1>6, <3>1, <3>2
  <2>4. MsgServed(o)' /\ ThreadServed(o)'
    BY <2>1, <2>3 DEF MsgServed, ThreadServed, Joinable, StopMsgInv
  <2>5. \A p \in Objs \ {o} : MsgServed(p)' /\ ThreadServed(p)'
    BY <2>1, <2>2, ServedFrame DEF StopMsgInv
  <2> QED BY <2>1, <2>4, <2>5 DEF StopMsgInv
<1>7. ASSUME NEW kind, Fail(kind), UNCHANGED <<q, refused, unread, wat, got>> PROVE StopMsgInv'
  <2>1. \A p \in Objs : Stopping(p)' <=> Stopping(p)
    BY <1>7 DEF Fail, Stopping
  <2>2. \A p \in Objs : MsgServed(p)' /\ ThreadServed(p)'
    BY <1>7, <2>1, ServedFrame DEF Fail, StopMsgInv
  <2> QED BY <1>7, <2>2 DEF Fail, StopMsgInv
<1>8. ASSUME NEW c \in Callers, Continue(c), UNCHANGED mqVars PROVE StopMsgInv'
  <2> PICK o : o = tgt[c]
    OBVIOUS
  <2>1. CASE AddThreadObj(c)
    <3>1. /\ o \in Objs /\ Owner[o] = c /\ ~stopReq[o] /\ ~Stopping(o)
          /\ Go(c, "start_spawn", o) /\ UNCHANGED <<mThread, stopReq, wpc>>
      BY <2>1 DEF AddThreadObj, BaseInv, StopMsgInv, Stopping
    <3>2. ~Stopping(o)'
      BY <3>1, OtherOwners
    <3>3. MsgServed(o)' /\ ThreadServed(o)'
      BY <1>8, <3>1, <3>2, ServedFrame DEF StopMsgInv
    <3> QED BY <1>8, <3>1, <3>3, OwnerStep
  <2>2. ASSUME NEW w \in Workers, SpawnThread(c, w) PROVE StopMsgInv'
    <3>1. /\ o \in Objs /\ Owner[o] = c /\ ~stopReq[o] /\ ~Joinable(o)
          /\ Go(c, "idle", None) /\ UNCHANGED stopReq /\ wpc[w] = "none"
          /\ mThread' = [mThread EXCEPT ![o] = w] /\ wpc' = [wpc EXCEPT ![w] = "created"]
      BY <2>2 DEF SpawnThread, BaseInv, AttachedInv, StopMsgInv
    <3>2. ~Stopping(o)' /\ mThread'[o] = w /\ wpc'[w] = "created"
      BY <3>1, OtherOwners DEF BaseInv
    <3>3. HasStop(o) => unread[o]
      BY <3>1 DEF StopMsgInv, MsgServed
    <3>4. MsgServed(o)' /\ ThreadServed(o)'
      BY <1>8, <3>1, <3>2, <3>3 DEF MsgServed, ThreadServed, HasStop, HoldsStop, Over
    <3>5. \A p \in Objs \ {o} : mThread'[p] = mThread[p]
                               /\ (Joinable(p) => wpc'[mThread[p]] = wpc[mThread[p]])
      BY <3>1 DEF BaseInv
    <3>6. \A v \in Workers : wpc'[v] # "running" => wpc[v] # "running"
      BY <3>1 DEF BaseInv
    <3> QED BY <1>8, <3>1, <3>4, <3>5, <3>6, OwnerStep
  <2>3. CASE JoinThread(c)
    <3>1. CASE \E kind : Fail(kind)
      BY <1>7, <1>8, <3>1
    <3>2. CASE ~\E kind : Fail(kind)
      <4> DEFINE w == mThread[o]
      <4>1. pc[c] = "stop_join" /\ o \in Objs /\ Owner[o] = c
        BY <1>0, <2>3 DEF JoinThread, JoinLabels, BaseInv
      <4>2. /\ Joinable(o) /\ wpc[w] = "ended" /\ Go(c, "stop_del", o) /\ UNCHANGED stopReq
            /\ mThread' = [mThread EXCEPT ![o] = None] /\ wpc' = [wpc EXCEPT ![w] = "none"]
        BY <2>3, <3>2, <4>1 DEF JoinThread
      <4>3. HasStop(o) => unread[o]
        BY <4>1, <4>2 DEF StopMsgInv, ThreadServed, Over
      <4>4. MsgServed(o)' /\ ThreadServed(o)'
        BY <1>8, <4>1, <4>2, <4>3 DEF MsgServed, ThreadServed, HasStop, Joinable, BaseInv
      <4>5. \A p \in Objs \ {o} : mThread'[p] = mThread[p]
                                 /\ (Joinable(p) => wpc'[mThread[p]] = wpc[mThread[p]])
        BY <4>1, <4>2 DEF BaseInv
      <4>6. \A v \in Workers : wpc'[v] # "running" => wpc[v] # "running"
        BY <4>2 DEF BaseInv
      <4> QED BY <1>8, <4>1, <4>2, <4>4, <4>5, <4>6, OwnerStep
    <3> QED BY <3>1, <3>2
  <2>4. CASE DetachThread(c)
    BY <2>4 DEF DetachThread, AttachedInv
  <2>5. CASE DelThreadObj(c)
    <3>1. /\ o \in Objs /\ Owner[o] = c /\ ~Joinable(o) /\ ~Stopping(o)
          /\ Go(c, "idle", None) /\ UNCHANGED <<mThread, stopReq, wpc>>
      BY <2>5 DEF DelThreadObj, BaseInv, Stopping
    <3>2. ~Stopping(o)'
      BY <3>1, OtherOwners
    <3>3. MsgServed(o)' /\ ThreadServed(o)'
      BY <1>8, <3>1, <3>2, ServedFrame DEF StopMsgInv
    <3> QED BY <1>8, <3>1, <3>3, OwnerStep
  <2>6. ~StopAllDone(c) /\ \A p \in Objs : ~StopAllNext(c, p)
    BY <1>0 DEF StopAllDone, StopAllNext, BaseInv
  <2> QED BY <1>8, <2>1, <2>2, <2>3, <2>4, <2>5, <2>6 DEF Continue
<1>9. ASSUME NEW c \in Callers, StopAfterMsg(c) PROVE StopMsgInv'
  <2> PICK o : o = tgt[c]
    OBVIOUS
  <2>1. /\ pc[c] = "flag_join" /\ o \in Objs /\ Owner[o] = c /\ Stopping(o)
        /\ UNCHANGED <<mThread, wpc, q, refused, unread, wat, got>>
    BY <1>9 DEF StopAfterMsg, StopBody, FlagLabels, AttachedInv, BaseInv, Stopping
  <2>2. CASE Joinable(o) /\ Go(c, "stop_join", o) /\ stopReq' = [stopReq EXCEPT ![o] = TRUE]
    <3>1. Stopping(o)' /\ stopReq'[o]
      BY <2>1, <2>2, OtherOwners DEF BaseInv
    <3>2. MsgServed(o)' /\ ThreadServed(o)'
      BY <2>1, <2>2, <3>1
      DEF StopMsgInv, MsgServed, ThreadServed, Joinable, HasStop, HoldsStop, Over, WillLook
    <3>3. \A p \in Objs \ {o} : stopReq'[p] = stopReq[p]
      BY <2>2 DEF BaseInv
    <3> QED BY <2>1, <2>2, <3>2, <3>3, OwnerStep
  <2>3. CASE ~Joinable(o) /\ Go(c, "idle", None) /\ UNCHANGED stopReq
    <3>1. MsgServed(o)' /\ ThreadServed(o)'
      BY <2>1, <2>3 DEF StopMsgInv, MsgServed, ThreadServed, Joinable, HasStop
    <3> QED BY <2>1, <2>3, <3>1, OwnerStep
  <2> QED BY <1>9, <2>1, <2>2, <2>3 DEF StopAfterMsg, StopBody
<1>10. ASSUME NEW w \in Workers, Enter(w) PROVE StopMsgInv'
  <2> PICK o : o = wobj[w]
    OBVIOUS
  <2>1. /\ wpc[w] = "created" /\ wpc' \in {wpc, [wpc EXCEPT ![w] = "running"]}
        /\ wat' = [wat EXCEPT ![w] = "check"] /\ wat'[w] = "check"
        /\ UNCHANGED <<mThread, pc, tgt, stopReq, refused, unread, q, got>>
    BY <1>10 DEF Enter, WorkerEnter, Fail, Step, MQTypeOK
  <2>2. \A v \in Workers \ {w} : wpc'[v] = wpc[v] /\ wat'[v] = wat[v] /\ got'[v] = got[v]
    BY <2>1 DEF MQTypeOK, BaseInv
  <2>3. ASSUME MsgServed(o), ThreadServed(o), Joinable(o) PROVE MsgServed(o)' /\ ThreadServed(o)'
    <3>1. mThread[o] = w /\ wpc'[w] \in {"created", "running"}
      BY <2>1 DEF BaseInv, AttachedInv
    <3> QED BY <2>1, <2>3, <3>1
        DEF MsgServed, ThreadServed, Joinable, Stopping, HasStop, HoldsStop, Over, WillLook
  <2> QED BY <2>1, <2>2, <2>3, WorkerStep
<1>11. ASSUME NEW w \in Workers,
              \/ CheckStop(w) \/ LockLoop(w) \/ Select(w) \/ SelectFails(w) \/ OldQueueReady(w)
              \/ ClearQueue(w)
       PROVE  StopMsgInv'
  <2> PICK o : o = wobj[w]
    OBVIOUS
  <2>1. /\ wpc[w] = "running" /\ o \in Objs /\ mThread[o] = w
        /\ UNCHANGED <<mThread, pc, tgt, stopReq, refused, unread, wpc>>
        /\ \A v \in Workers \ {w} : wat'[v] = wat[v] /\ got'[v] = got[v]
        /\ \A p \in Objs \ {o} : q'[p] = q[p]
    BY <1>11 DEF CheckStop, LockLoop, Select, SelectFails, OldQueueReady, EndRound, ClearQueue, Step,
                 Running, BaseInv, AttachedInv, MQTypeOK
  <2>2. \/ wat[w] = "check" /\ wat'[w] = "clear" /\ stopReq[o] /\ UNCHANGED q
        \/ wat[w] = "check" /\ wat'[w] = "lock" /\ ~stopReq[o] /\ UNCHANGED q
        \/ wat[w] = "lock" /\ wat'[w] = "select" /\ UNCHANGED q
        \/ wat[w] = "select" /\ wat'[w] \in {"read", "old", "check"} /\ UNCHANGED q
        \/ wat[w] = "old" /\ wat'[w] = "check" /\ UNCHANGED q
        \/ wat[w] = "clear" /\ wat'[w] = "clear" /\ q[o] # <<>> /\ q'[o] = Tail(q[o])
        \/ wat[w] = "clear" /\ wat'[w] = "out" /\ q[o] = <<>> /\ UNCHANGED q
    BY <1>11, <2>1 DEF CheckStop, LockLoop, Select, SelectFails, OldQueueReady, EndRound, ClearQueue,
                       Step, Running, MQTypeOK
  <2>3. ASSUME MsgServed(o), ThreadServed(o), Joinable(o) PROVE MsgServed(o)' /\ ThreadServed(o)'
    <3>1. CASE UNCHANGED q
      BY <2>1, <2>2, <2>3, <3>1
      DEF MsgServed, ThreadServed, Joinable, Stopping, HasStop, HoldsStop, Over, WillLook
    <3>2. CASE wat[w] = "clear" /\ wat'[w] = "clear" /\ q[o] # <<>> /\ q'[o] = Tail(q[o])
      <4>1. HasStop(o)' => HasStop(o)
        BY <2>1, <3>2, HasStopTail
      <4>2. /\ mThread'[o] = w /\ wpc[w] = "running" /\ wpc'[w] = "running" /\ mThread[o] = w
            /\ wat[w] = "clear" /\ wat'[w] = "clear"
            /\ UNCHANGED <<pc, tgt, stopReq, refused, unread>>
        BY <2>1, <3>2
      <4>3. MsgServed(o)'
        BY <2>3, <4>1, <4>2 DEF MsgServed, Joinable, Stopping
      <4>4. ThreadServed(o)'
        <5>1. stopReq[o] /\ stopReq'[o] /\ (Stopping(o)' <=> Stopping(o))
          BY <2>3, <4>2 DEF ThreadServed, Stopping
        <5>2. ~HoldsStop(w)' /\ ~Over(w)' /\ WillLook(w)'
          BY <4>2 DEF HoldsStop, Over, WillLook
        <5> QED BY <2>3, <4>2, <5>1, <5>2 DEF ThreadServed
      <4> QED BY <4>3, <4>4
    <3> QED BY <2>2, <3>1, <3>2
  <2>4. wpc'[w] # "running" => wat'[w] # "select"
    BY <2>1
  <2>5. o = wobj[w] /\ wpc[w] # "none" /\ \A p \in Objs \ {o} : stopReq'[p] = stopReq[p] /\ q'[p] = q[p]
    BY <2>1
  <2>6. \A v \in Workers \ {w} : wpc'[v] = wpc[v] /\ wat'[v] = wat[v] /\ got'[v] = got[v]
    BY <2>1
  <2> QED BY <2>1, <2>3, <2>4, <2>5, <2>6, WorkerStep
<1>12. ASSUME NEW w \in Workers, ReadMsg(w) PROVE StopMsgInv'
  <2> PICK o : o = wobj[w]
    OBVIOUS
  <2>1. /\ wpc[w] = "running" /\ wat[w] = "read" /\ o \in Objs /\ mThread[o] = w /\ Joinable(o)
        /\ UNCHANGED <<mThread, pc, tgt, stopReq, refused, unread, wpc>>
    BY <1>12 DEF ReadMsg, Running, BaseInv, AttachedInv
  <2>2. /\ \A v \in Workers \ {w} : wat'[v] = wat[v] /\ got'[v] = got[v]
        /\ \A p \in Objs \ {o} : q'[p] = q[p]
    BY <1>12 DEF ReadMsg, Step, MQTypeOK
  <2>3. ASSUME MsgServed(o), ThreadServed(o) PROVE MsgServed(o)' /\ ThreadServed(o)'
    <3>1. CASE q[o] # <<>>
      <4>1. q'[o] = Tail(q[o]) /\ got'[w] = Head(q[o]) /\ wat'[w] = "dispatch"
        BY <1>12, <2>1, <3>1 DEF ReadMsg, Step, MQTypeOK
      <4>2. HasStop(o) <=> HasStop(o)' \/ HoldsStop(w)'
        BY <2>1, <3>1, <4>1, HasStopTail DEF HoldsStop
      <4> QED BY <2>1, <2>3, <4>1, <4>2
          DEF MsgServed, ThreadServed, Joinable, Stopping, HoldsStop, Over, WillLook
    <3>2. CASE q[o] = <<>>
      <4>1. UNCHANGED q /\ wat'[w] = "check"
        BY <1>12, <2>1, <3>2 DEF ReadMsg, Step, MQTypeOK
      <4> QED BY <2>1, <2>3, <4>1
          DEF MsgServed, ThreadServed, Joinable, Stopping, HasStop, HoldsStop, Over, WillLook
    <3> QED BY <3>1, <3>2
  <2> QED BY <2>1, <2>2, <2>3, WorkerStep
<1>13. ASSUME NEW w \in Workers, DispatchStop(w) \/ ProcessMsg(w) PROVE StopMsgInv'
  <2> PICK o : o = wobj[w]
    OBVIOUS
  <2>1. /\ wpc[w] = "running" /\ wat[w] = "dispatch" /\ o \in Objs /\ mThread[o] = w /\ Joinable(o)
    BY <1>13 DEF DispatchStop, ProcessMsg, Running, BaseInv, AttachedInv
  <2>2. CASE Fail("pure_virtual") /\ UNCHANGED mqVars
    BY <1>7, <2>2
  <2>3. CASE /\ EndRound(w) /\ UNCHANGED <<mThread, pc, tgt, wpc>>
             /\ \/ got[w] = "stop" /\ stopReq' = [stopReq EXCEPT ![o] = TRUE]
                \/ got[w] = "msg" /\ UNCHANGED stopReq
    <3>1. /\ UNCHANGED <<q, refused, unread>> /\ wat'[w] = "check" /\ got'[w] = "none"
          /\ \A v \in Workers \ {w} : wat'[v] = wat[v] /\ got'[v] = got[v]
      BY <2>3 DEF EndRound, Step, MQTypeOK
    <3>2. \A p \in Objs \ {o} : stopReq'[p] = stopReq[p]
      BY <2>1, <2>3 DEF BaseInv
    <3>3. (got[w] = "stop" /\ stopReq'[o]) \/ (got[w] = "msg" /\ stopReq'[o] = stopReq[o])
      BY <2>1, <2>3 DEF BaseInv
    <3>4. ASSUME MsgServed(o), ThreadServed(o) PROVE MsgServed(o)' /\ ThreadServed(o)'
      BY <2>1, <2>3, <3>1, <3>3, <3>4
      DEF MsgServed, ThreadServed, Joinable, Stopping, HasStop, HoldsStop, Over, WillLook
    <3> QED BY <2>1, <2>3, <3>1, <3>2, <3>4, WorkerStep
  <2> QED BY <1>13, <2>1, <2>2, <2>3 DEF DispatchStop, ProcessMsg, WorkerRequestStop
<1>14. ASSUME NEW w \in Workers, Leave(w) PROVE StopMsgInv'
  <2> PICK o : o = wobj[w]
    OBVIOUS
  <2>1. /\ wpc[w] = "running" /\ o \in Objs /\ mThread[o] = w /\ Joinable(o) /\ life[o] # "gone"
    BY <1>14 DEF Leave, WorkerReturn, BaseInv, AttachedInv
  <2>2. /\ wat[w] = "out" /\ wpc' = [wpc EXCEPT ![w] = "ended"] /\ wpc'[w] = "ended"
        /\ UNCHANGED <<mThread, pc, tgt, stopReq, refused, unread, q, wat, got>>
    BY <1>14, <2>1 DEF Leave, WorkerReturn, Use, AttachedInv, BaseInv
  <2>3. ASSUME MsgServed(o), ThreadServed(o) PROVE MsgServed(o)' /\ ThreadServed(o)'
    BY <2>1, <2>2, <2>3
    DEF MsgServed, ThreadServed, Joinable, Stopping, HasStop, HoldsStop, Over, WillLook
  <2> QED BY <2>1, <2>2, <2>3, WorkerStep
<1>15. \A c \in Callers : ~StopAllThreads(c)
  BY <1>0 DEF StopAllThreads
<1>16. CASE UNCHANGED allVars
  <2>1. \A p \in Objs : Stopping(p)' <=> Stopping(p)
    BY <1>16 DEF allVars, Stopping
  <2>2. \A p \in Objs : MsgServed(p)' /\ ThreadServed(p)'
    BY <1>16, <2>1, ServedFrame DEF allVars, StopMsgInv
  <2> QED BY <1>16, <2>2 DEF allVars, StopMsgInv
<1> QED
  BY <1>1, <1>2, <1>3, <1>4, <1>5, <1>6, <1>8, <1>9, <1>10, <1>11, <1>12, <1>13, <1>14, <1>15, <1>16,
     <1>17
  DEF MQNext, MQCall, MQContinue, MQWork

LEMMA StopMsgInvariant ==
    ASSUME OnlyOwnersStop
    PROVE  MQSafetySpec => [](MQInv /\ AttachedInv /\ StopMsgInv)
<1>1. MQSafetySpec => [](MQInv /\ AttachedInv)
  BY AttachedInvariant DEF OnlyOwnersStop
<1>2. MQInv /\ AttachedInv /\ StopMsgInv /\ [MQNext]_allVars => StopMsgInv'
  BY BaseFacts, StopMsgStep DEF MQInv
<1> QED BY <1>1, <1>2, StopMsgInit, PTL DEF MQSafetySpec

(* When nobody calls StopAllThreads(), sends MSG_ID_STOP_THREAD or detaches a *)
(* thread, a stop message or request is there only while the object's owner   *)
(* is inside StopThread() or the destructor, or when an earlier StopThread()  *)
(* found no thread to read its message, which then ends a later start; owners *)
(* may stop idle objects and delete running ones                              *)
(* (ThreadWithMsgQueue.cpp:7-10, 63-78, 96-99). *)
THEOREM StopMessagesAreAskedFor ==
    ASSUME OnlyOwnersStop
    PROVE  MQSafetySpec => []StopOnlyIfAsked
<1>1. StopMsgInv => StopOnlyIfAsked
  BY DEF StopMsgInv, StopOnlyIfAsked, MsgServed, ThreadServed
<1> QED BY <1>1, StopMsgInvariant, PTL

(* Under the same clients, a worker whose owner waits for it in join() sits   *)
(* in select() on an empty queue only if the stop message was refused by a    *)
(* full queue (ThreadWithMsgQueue.cpp:63-72, 85-98). *)
THEOREM JoinIsStuckOnlyIfRefused ==
    ASSUME OnlyOwnersStop
    PROVE  MQSafetySpec => []StuckOnlyIfRefused
<1>1. MQInv /\ StopMsgInv => StuckOnlyIfRefused
  <2> SUFFICES ASSUME BaseInv, StopMsgInv, NEW c \in Callers,
                      pc[c] = "stop_join", Joinable(tgt[c]), Blocked(mThread[tgt[c]]),
                      ~refused[tgt[c]]
               PROVE  FALSE
    BY BaseFacts DEF MQInv, StuckOnlyIfRefused
  <2> PICK o \in Objs : o = tgt[c]
    BY DEF BaseInv
  <2> PICK w \in Workers : w = mThread[o]
    BY DEF BaseInv
  <2>1. Stopping(o) /\ wobj[w] = o
    BY DEF Stopping, BaseInv
  <2>2. wpc[w] = "running" /\ wat[w] = "select" /\ q[o] = <<>>
    BY <2>1 DEF Blocked, Alive, StopMsgInv
  <2>3. ~HasStop(o) /\ ~HoldsStop(w) /\ ~WillLook(w)
    BY <2>2 DEF HasStop, HoldsStop, WillLook
  <2> QED BY <2>1, <2>3 DEF StopMsgInv, ThreadServed
<1> QED BY <1>1, StopMsgInvariant, PTL

=============================================================================
