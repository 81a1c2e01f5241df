-------------------------- MODULE ThreadObjProofs --------------------------
(* Theorems about ThreadObj (src/project/basic/ThreadObj.{h,cpp}) for any    *)
(* number of objects, callers, managers and OS threads.                      *)
(*                                                                           *)
(* Three inductive invariants build on each other: ThreadInv holds whoever   *)
(* uses the class, RegistryInv needs SoleManager, CarefulInv needs Careful   *)
(* as well.  Each has a lemma with one step per action.  Spec implies        *)
(* SafetySpec, so all theorems hold of Spec too.                             *)
EXTENDS ThreadObj, TLAPS

(* Every step of StartThread, StopThread, the destructor, StopAllThreads and  *)
(* the worker keeps m_thread, the OS threads, gListMtx and the stop flags in  *)
(* agreement (ThreadObj.cpp:12-100). *)
LEMMA ThreadInvStep == ThreadInv /\ [Next]_vars => ThreadInv'
<1> SUFFICES ASSUME ThreadInv, [Next]_vars PROVE ThreadInv'
  OBVIOUS
<1> TypeOK /\ CallInv /\ WorkerInv /\ ManagerInv /\ StopInv
  BY DEF ThreadInv
<1> USE ConstantsAssumption
    DEF vars, callerVars, workerVars, At, MayCall, Go, Fail, Joinable, Alive, JoinLabels
<1>1. ASSUME NEW c \in Callers, NEW o \in Objs, StartThread(c, o) PROVE ThreadInv'
  <2>1. TypeOK'
    BY <1>1 DEF StartThread, Labels, TypeOK
  <2>2. CallInv'
    BY <1>1 DEF StartThread, TypeOK, CallInv
  <2>3. WorkerInv'
    BY <1>1 DEF StartThread, WorkerInv
  <2>4. ManagerInv'
    BY <1>1 DEF StartThread, ManagerInv
  <2>5. StopInv'
    BY <1>1 DEF StartThread, CallInv, StopInv
  <2> QED BY <2>1, <2>2, <2>3, <2>4, <2>5 DEF ThreadInv
<1>2. ASSUME NEW c \in Callers, AddThreadObj(c) PROVE ThreadInv'
  <2>1. TypeOK'
    BY <1>2 DEF AddThreadObj, Labels, CallInv, TypeOK
  <2>2. CallInv'
    BY <1>2 DEF AddThreadObj, CallInv
  <2>3. WorkerInv'
    BY <1>2 DEF AddThreadObj, WorkerInv
  <2>4. ManagerInv'
    BY <1>2 DEF AddThreadObj, ManagerInv
  <2>5. StopInv'
    BY <1>2 DEF AddThreadObj, StopInv
  <2> QED BY <2>1, <2>2, <2>3, <2>4, <2>5 DEF ThreadInv
<1>3. ASSUME NEW c \in Callers, NEW w \in Workers, SpawnThread(c, w) PROVE ThreadInv'
  <2>1. TypeOK'
    BY <1>3 DEF SpawnThread, Labels, TypeOK
  <2>2. CallInv'
    BY <1>3 DEF SpawnThread, TypeOK, CallInv
  <2>3. WorkerInv'
    BY <1>3 DEF SpawnThread, TypeOK, CallInv, WorkerInv
  <2>4. ManagerInv'
    BY <1>3 DEF SpawnThread, ManagerInv
  <2>5. StopInv'
    BY <1>3 DEF SpawnThread, CallInv, ManagerInv, StopInv
  <2> QED BY <2>1, <2>2, <2>3, <2>4, <2>5 DEF ThreadInv
<1>4. ASSUME NEW c \in Callers, NEW o \in Objs, NEW isWaiting \in WaitModes,
             StopThread(c, o, isWaiting)
      PROVE ThreadInv'
  <2>1. TypeOK'
    BY <1>4 DEF StopThread, StopBody, Labels, TypeOK
  <2>2. CallInv'
    BY <1>4 DEF StopThread, StopBody, TypeOK, CallInv
  <2>3. WorkerInv'
    BY <1>4 DEF StopThread, StopBody, WorkerInv
  <2>4. ManagerInv'
    BY <1>4 DEF StopThread, StopBody, ManagerInv
  <2>5. StopInv'
    BY <1>4 DEF StopThread, StopBody, TypeOK, StopInv
  <2> QED BY <2>1, <2>2, <2>3, <2>4, <2>5 DEF ThreadInv
<1>5. ASSUME NEW c \in Callers, NEW o \in Objs, DeleteRunning(c, o) PROVE ThreadInv'
  <2>1. TypeOK'
    BY <1>5 DEF DeleteRunning, StopBody, Labels, TypeOK
  <2>2. CallInv'
    BY <1>5 DEF DeleteRunning, StopBody, TypeOK, CallInv
  <2>3. WorkerInv'
    BY <1>5 DEF DeleteRunning, StopBody, WorkerInv
  <2>4. ManagerInv'
    BY <1>5 DEF DeleteRunning, StopBody, ManagerInv
  <2>5. StopInv'
    BY <1>5 DEF DeleteRunning, StopBody, TypeOK, StopInv
  <2> QED BY <2>1, <2>2, <2>3, <2>4, <2>5 DEF ThreadInv
<1>6. ASSUME NEW c \in Callers, NEW o \in Objs, DeleteStopped(c, o) PROVE ThreadInv'
  <2>1. TypeOK'
    BY <1>6 DEF DeleteStopped, TypeOK
  <2>2. CallInv'
    BY <1>6 DEF DeleteStopped, CallInv
  <2>3. WorkerInv'
    BY <1>6 DEF DeleteStopped, WorkerInv
  <2>4. ManagerInv'
    BY <1>6 DEF DeleteStopped, ManagerInv
  <2>5. StopInv'
    BY <1>6 DEF DeleteStopped, StopInv
  <2> QED BY <2>1, <2>2, <2>3, <2>4, <2>5 DEF ThreadInv
<1>7. ASSUME NEW c \in Callers, JoinThread(c) PROVE ThreadInv'
  <2>1. TypeOK'
    BY <1>7 DEF JoinThread, Labels, TypeOK
  <2>2. CallInv'
    BY <1>7 DEF JoinThread, TypeOK, CallInv
  <2>3. WorkerInv'
    BY <1>7 DEF JoinThread, TypeOK, CallInv, WorkerInv
  <2>4. ManagerInv'
    BY <1>7 DEF JoinThread, TypeOK, CallInv, ManagerInv
  <2>5. StopInv'
    BY <1>7 DEF JoinThread, TypeOK, CallInv, StopInv
  <2> QED BY <2>1, <2>2, <2>3, <2>4, <2>5 DEF ThreadInv
<1>8. ASSUME NEW c \in Callers, DetachThread(c) PROVE ThreadInv'
  <2>1. TypeOK'
    BY <1>8 DEF DetachThread, Labels, CallInv, TypeOK
  <2>2. CallInv'
    BY <1>8 DEF DetachThread, TypeOK, CallInv
  <2>3. WorkerInv'
    BY <1>8 DEF DetachThread, TypeOK, CallInv, WorkerInv
  <2>4. ManagerInv'
    BY <1>8 DEF DetachThread, TypeOK, CallInv, ManagerInv
  <2>5. StopInv'
    BY <1>8 DEF DetachThread, TypeOK, CallInv, StopInv
  <2> QED BY <2>1, <2>2, <2>3, <2>4, <2>5 DEF ThreadInv
<1>9. ASSUME NEW c \in Callers, DelThreadObj(c) PROVE ThreadInv'
  <2>1. TypeOK'
    BY <1>9 DEF DelThreadObj, Labels, TypeOK
  <2>2. CallInv'
    BY <1>9 DEF DelThreadObj, TypeOK, CallInv
  <2>3. WorkerInv'
    BY <1>9 DEF DelThreadObj, CallInv, WorkerInv
  <2>4. ManagerInv'
    BY <1>9 DEF DelThreadObj, ManagerInv
  <2>5. StopInv'
    BY <1>9 DEF DelThreadObj, StopInv
  <2> QED BY <2>1, <2>2, <2>3, <2>4, <2>5 DEF ThreadInv
<1>10. ASSUME NEW c \in Callers, StopAllThreads(c) PROVE ThreadInv'
  <2>1. TypeOK'
    BY <1>10 DEF StopAllThreads, Labels, TypeOK
  <2>2. CallInv'
    BY <1>10 DEF StopAllThreads, CallInv
  <2>3. WorkerInv'
    BY <1>10 DEF StopAllThreads, WorkerInv
  <2>4. ManagerInv'
    BY <1>10 DEF StopAllThreads, TypeOK, ManagerInv
  <2>5. StopInv'
    BY <1>10 DEF StopAllThreads, StopInv
  <2> QED BY <2>1, <2>2, <2>3, <2>4, <2>5 DEF ThreadInv
<1>11. ASSUME NEW c \in Callers, NEW o \in Objs, StopAllNext(c, o) PROVE ThreadInv'
  <2>1. TypeOK'
    <3>1. CASE life[o] # "gone"
      <4>1. todo' \subseteq Objs
        BY <1>11, <3>1 DEF StopAllNext, TypeOK
      <4>2. CASE Joinable(o)
        <5>1. /\ stopReq' = [stopReq EXCEPT ![o] = TRUE]
              /\ pc' = [pc EXCEPT ![c] = "all_join"]
              /\ tgt' = [tgt EXCEPT ![c] = o]
          BY <1>11, <3>1, <4>2 DEF StopAllNext
        <5> QED
          BY <1>11, <3>1, <4>1, <5>1 DEF StopAllNext, Labels, TypeOK
      <4>3. CASE ~Joinable(o)
        BY <1>11, <3>1, <4>1, <4>3 DEF StopAllNext, TypeOK
      <4> QED BY <4>2, <4>3
    <3>2. CASE life[o] = "gone"
      BY <1>11, <3>2 DEF StopAllNext, TypeOK
    <3> QED BY <3>1, <3>2
  <2>2. CallInv'
    BY <1>11 DEF StopAllNext, TypeOK, CallInv
  <2>3. WorkerInv'
    BY <1>11 DEF StopAllNext, WorkerInv
  <2>4. ManagerInv'
    BY <1>11 DEF StopAllNext, TypeOK, ManagerInv
  <2>5. StopInv'
    BY <1>11 DEF StopAllNext, TypeOK, CallInv, StopInv
  <2> QED BY <2>1, <2>2, <2>3, <2>4, <2>5 DEF ThreadInv
<1>12. ASSUME NEW c \in Callers, StopAllDone(c) PROVE ThreadInv'
  <2>1. TypeOK'
    BY <1>12 DEF StopAllDone, Labels, TypeOK
  <2>2. CallInv'
    BY <1>12 DEF StopAllDone, CallInv
  <2>3. WorkerInv'
    BY <1>12 DEF StopAllDone, WorkerInv
  <2>4. ManagerInv'
    BY <1>12 DEF StopAllDone, TypeOK, ManagerInv
  <2>5. StopInv'
    BY <1>12 DEF StopAllDone, StopInv
  <2> QED BY <2>1, <2>2, <2>3, <2>4, <2>5 DEF ThreadInv
<1>13. ASSUME NEW w \in Workers, WorkerEnter(w) PROVE ThreadInv'
  <2>1. TypeOK'
    BY <1>13 DEF WorkerEnter, TypeOK
  <2>2. CallInv'
    BY <1>13 DEF WorkerEnter, CallInv
  <2>3. WorkerInv'
    BY <1>13 DEF WorkerEnter, TypeOK, WorkerInv
  <2>4. ManagerInv'
    BY <1>13 DEF WorkerEnter, ManagerInv
  <2>5. StopInv'
    BY <1>13 DEF WorkerEnter, StopInv
  <2> QED BY <2>1, <2>2, <2>3, <2>4, <2>5 DEF ThreadInv
<1>14. ASSUME NEW w \in Workers, WorkerRequestStop(w) PROVE ThreadInv'
  <2>1. TypeOK'
    BY <1>14 DEF WorkerRequestStop, TypeOK
  <2>2. CallInv'
    BY <1>14 DEF WorkerRequestStop, CallInv
  <2>3. WorkerInv'
    BY <1>14 DEF WorkerRequestStop, WorkerInv
  <2>4. ManagerInv'
    BY <1>14 DEF WorkerRequestStop, ManagerInv
  <2>5. StopInv'
    BY <1>14 DEF WorkerRequestStop, StopInv
  <2> QED BY <2>1, <2>2, <2>3, <2>4, <2>5 DEF ThreadInv
<1>15. ASSUME NEW w \in Workers, WorkerReturn(w) PROVE ThreadInv'
  <2>1. TypeOK'
    BY <1>15 DEF WorkerReturn, TypeOK
  <2>2. CallInv'
    BY <1>15 DEF WorkerReturn, CallInv
  <2>3. WorkerInv'
    BY <1>15 DEF WorkerReturn, TypeOK, WorkerInv
  <2>4. ManagerInv'
    BY <1>15 DEF WorkerReturn, ManagerInv
  <2>5. StopInv'
    BY <1>15 DEF WorkerReturn, StopInv
  <2> QED BY <2>1, <2>2, <2>3, <2>4, <2>5 DEF ThreadInv
<1>16. CASE UNCHANGED vars
  BY <1>16 DEF CallInv, ManagerInv, StopInv, ThreadInv, TypeOK, WorkerInv
<1> QED
  BY <1>1, <1>2, <1>3, <1>4, <1>5, <1>6, <1>7, <1>8, <1>9, <1>10, <1>11, <1>12, <1>13, <1>14, <1>15, <1>16
     DEF Next, Call, Continue, Work

(* If the only manager is the only user of the class, every step keeps gList  *)
(* in agreement with m_thread (ThreadObj.cpp:27, 54, 57-67, 88-100). *)
LEMMA RegistryInvStep ==
    SoleManager /\ ThreadInv /\ RegistryInv /\ [Next]_vars => RegistryInv'
<1> SUFFICES ASSUME SoleManager, ThreadInv, RegistryInv, [Next]_vars PROVE RegistryInv'
  OBVIOUS
<1> TypeOK /\ CallInv /\ WorkerInv /\ ManagerInv
  BY DEF ThreadInv
<1> USE ConstantsAssumption
    DEF vars, callerVars, workerVars, At, MayCall, Go, Fail, Joinable, Alive, JoinLabels
<1>1. ASSUME NEW c \in Callers, NEW o \in Objs, StartThread(c, o) PROVE RegistryInv'
  BY <1>1 DEF StartThread, ManagerInv, RegistryInv
<1>2. ASSUME NEW c \in Callers, AddThreadObj(c) PROVE RegistryInv'
  BY <1>2 DEF AddThreadObj, TypeOK, CallInv, RegistryInv
<1>3. ASSUME NEW c \in Callers, NEW w \in Workers, SpawnThread(c, w) PROVE RegistryInv'
  BY <1>3 DEF SpawnThread, TypeOK, CallInv, ManagerInv, SoleManager, RegistryInv
<1>4. ASSUME NEW c \in Callers, NEW o \in Objs, NEW isWaiting \in WaitModes,
             StopThread(c, o, isWaiting)
      PROVE RegistryInv'
  BY <1>4 DEF StopThread, StopBody, TypeOK, ManagerInv, RegistryInv
<1>5. ASSUME NEW c \in Callers, NEW o \in Objs, DeleteRunning(c, o) PROVE RegistryInv'
  BY <1>5 DEF DeleteRunning, StopBody, TypeOK, ManagerInv, RegistryInv
<1>6. ASSUME NEW c \in Callers, NEW o \in Objs, DeleteStopped(c, o) PROVE RegistryInv'
  BY <1>6 DEF DeleteStopped, TypeOK, ManagerInv, SoleManager, RegistryInv
<1>7. ASSUME NEW c \in Callers, JoinThread(c) PROVE RegistryInv'
  BY <1>7 DEF JoinThread, TypeOK, CallInv, ManagerInv, SoleManager, RegistryInv
<1>8. ASSUME NEW c \in Callers, DetachThread(c) PROVE RegistryInv'
  BY <1>8 DEF DetachThread, TypeOK, CallInv, ManagerInv, SoleManager, RegistryInv
<1>9. ASSUME NEW c \in Callers, DelThreadObj(c) PROVE RegistryInv'
  BY <1>9 DEF DelThreadObj, TypeOK, CallInv, RegistryInv
<1>10. ASSUME NEW c \in Callers, StopAllThreads(c) PROVE RegistryInv'
  BY <1>10 DEF StopAllThreads, WorkerInv, SoleManager, RegistryInv
<1>11. ASSUME NEW c \in Callers, NEW o \in Objs, StopAllNext(c, o) PROVE RegistryInv'
  BY <1>11 DEF StopAllNext, TypeOK, CallInv, ManagerInv, RegistryInv
<1>12. ASSUME NEW c \in Callers, StopAllDone(c) PROVE RegistryInv'
  BY <1>12 DEF StopAllDone, CallInv, ManagerInv, SoleManager, RegistryInv
<1>13. ASSUME NEW w \in Workers, WorkerEnter(w) PROVE RegistryInv'
  BY <1>13 DEF WorkerEnter, RegistryInv
<1>14. ASSUME NEW w \in Workers, WorkerRequestStop(w) PROVE RegistryInv'
  BY <1>14 DEF WorkerRequestStop, RegistryInv
<1>15. ASSUME NEW w \in Workers, WorkerReturn(w) PROVE RegistryInv'
  BY <1>15 DEF WorkerReturn, RegistryInv
<1>16. CASE UNCHANGED vars
  BY <1>16 DEF RegistryInv
<1> QED
  BY <1>1, <1>2, <1>3, <1>4, <1>5, <1>6, <1>7, <1>8, <1>9, <1>10, <1>11, <1>12, <1>13, <1>14, <1>15, <1>16
     DEF Next, Call, Continue, Work

(* If clients moreover join every thread before they delete its object, no    *)
(* step throws or touches an object that is gone (ThreadObj.cpp:12-67). *)
LEMMA CarefulInvStep ==
    SoleManager /\ Careful /\ ThreadInv /\ RegistryInv /\ CarefulInv /\ [Next]_vars => CarefulInv'
<1> SUFFICES ASSUME SoleManager, Careful, ThreadInv, RegistryInv, CarefulInv, [Next]_vars PROVE CarefulInv'
  OBVIOUS
<1> TypeOK /\ CallInv /\ WorkerInv /\ ManagerInv
  BY DEF ThreadInv
<1> USE ConstantsAssumption
    DEF vars, callerVars, workerVars, At, MayCall, Go, Fail, Joinable, Alive, JoinLabels
<1>1. ASSUME NEW c \in Callers, NEW o \in Objs, StartThread(c, o) PROVE CarefulInv'
  BY <1>1 DEF StartThread, CarefulInv, NoFault
<1>2. ASSUME NEW c \in Callers, AddThreadObj(c) PROVE CarefulInv'
  BY <1>2 DEF AddThreadObj, CarefulInv, NoFault
<1>3. ASSUME NEW c \in Callers, NEW w \in Workers, SpawnThread(c, w) PROVE CarefulInv'
  BY <1>3 DEF SpawnThread, CarefulInv, NoFault
<1>4. ASSUME NEW c \in Callers, NEW o \in Objs, NEW isWaiting \in WaitModes,
             StopThread(c, o, isWaiting)
      PROVE CarefulInv'
  <2>1. isWaiting = TRUE
    BY DEF Careful
  <2> QED
    BY <1>4, <2>1 DEF StopThread, StopBody, CarefulInv, NoFault
<1>5. ASSUME NEW c \in Callers, NEW o \in Objs, DeleteRunning(c, o) PROVE CarefulInv'
  BY <1>5 DEF DeleteRunning, Careful
<1>6. ASSUME NEW c \in Callers, NEW o \in Objs, DeleteStopped(c, o) PROVE CarefulInv'
  BY <1>6 DEF DeleteStopped, CarefulInv, NoFault
<1>7. ASSUME NEW c \in Callers, JoinThread(c) PROVE CarefulInv'
  BY <1>7 DEF JoinThread, TypeOK, CallInv, WorkerInv, RegistryInv, CarefulInv, NoFault
<1>8. ASSUME NEW c \in Callers, DetachThread(c) PROVE CarefulInv'
  BY <1>8 DEF DetachThread, CarefulInv
<1>9. ASSUME NEW c \in Callers, DelThreadObj(c) PROVE CarefulInv'
  BY <1>9 DEF DelThreadObj, CarefulInv, NoFault
<1>10. ASSUME NEW c \in Callers, StopAllThreads(c) PROVE CarefulInv'
  BY <1>10 DEF StopAllThreads, CarefulInv, NoFault
<1>11. ASSUME NEW c \in Callers, NEW o \in Objs, StopAllNext(c, o) PROVE CarefulInv'
  BY <1>11 DEF StopAllNext, TypeOK, ManagerInv, RegistryInv, CarefulInv, NoFault
<1>12. ASSUME NEW c \in Callers, StopAllDone(c) PROVE CarefulInv'
  BY <1>12 DEF StopAllDone, CarefulInv, NoFault
<1>13. ASSUME NEW w \in Workers, WorkerEnter(w) PROVE CarefulInv'
  BY <1>13 DEF WorkerEnter, TypeOK, WorkerInv, CarefulInv, NoFault
<1>14. ASSUME NEW w \in Workers, WorkerRequestStop(w) PROVE CarefulInv'
  BY <1>14 DEF WorkerRequestStop, CarefulInv, NoFault
<1>15. ASSUME NEW w \in Workers, WorkerReturn(w) PROVE CarefulInv'
  BY <1>15 DEF WorkerReturn, TypeOK, WorkerInv, CarefulInv, NoFault
<1>16. CASE UNCHANGED vars
  BY <1>16 DEF CarefulInv, NoFault
<1> QED
  BY <1>1, <1>2, <1>3, <1>4, <1>5, <1>6, <1>7, <1>8, <1>9, <1>10, <1>11, <1>12, <1>13, <1>14, <1>15, <1>16
     DEF Next, Call, Continue, Work

(* Before any StartThread() all three invariants hold (ThreadObj.h:50). *)
LEMMA InitInv == Init => ThreadInv /\ RegistryInv /\ CarefulInv
BY ConstantsAssumption
   DEF Init, ThreadInv, TypeOK, Labels, Joinable, CallInv, WorkerInv, ManagerInv,
       StopInv, RegistryInv, CarefulInv, NoFault

(* Whoever calls StopAllThreads(), concurrently with owners that start, stop, *)
(* detach and delete: calls, OS threads, gListMtx and stop flags always agree *)
(* (ThreadObj.cpp:12-100). *)
THEOREM ThreadInvariant == SafetySpec => []ThreadInv
<1>1. Init => ThreadInv
  BY InitInv
<1> QED
  BY <1>1, ThreadInvStep, PTL DEF SafetySpec

(* An object never has two attached threads, a thread outlives its object     *)
(* only if it was detached, and nobody clears m_stopRequested while a caller  *)
(* waits in join() for the thread (ThreadObj.cpp:19-28, 41-52, 63-64). *)
THEOREM HandlesAndRequests == SafetySpec => [](TypeOK /\ AttachedWorkerIsHeld /\ StopRequestStands)
<1>1. ThreadInv => TypeOK /\ AttachedWorkerIsHeld /\ StopRequestStands
  BY ConstantsAssumption
     DEF ThreadInv, TypeOK, WorkerInv, StopInv, AttachedWorkerIsHeld,
         StopRequestStands, Joinable, Alive, JoinLabels
<1> QED
  BY <1>1, ThreadInvariant, PTL

(* Whoever stops all threads and whoever detaches: a thread that was not      *)
(* detached is the one its object can join, so no object has two of them and  *)
(* none outlives its object (ThreadObj.cpp:28, 41-52).                        *)
THEOREM WorkersAreHeld == SafetySpec => []AttachedWorkerIsHeld
BY HandlesAndRequests, PTL

(* The registry invariant holds in every behaviour if the only manager is the *)
(* only user of the class, or if there is no manager (ThreadObj.cpp:57-100). *)
LEMMA RegistryInvariant ==
    ASSUME SoleManager PROVE SafetySpec => []RegistryInv
<1>1. Init => RegistryInv
  BY InitInv
<1>2. ThreadInv /\ RegistryInv /\ [Next]_vars => RegistryInv'
  BY SoleManager, RegistryInvStep
<1> QED
  BY <1>1, <1>2, ThreadInvariant, PTL DEF SafetySpec

(* Between two calls gList has every object with a joinable thread once and   *)
(* no other, if nobody stops all threads while others use the class           *)
(* (ThreadObj.cpp:27, 54, 66, 88-100). *)
THEOREM RegistryIsExact ==
    ASSUME SoleManager PROVE SafetySpec => []RegistryExact
<1>1. ThreadInv /\ RegistryInv => RegistryExact
  BY ConstantsAssumption
     DEF RegistryInv, RegistryExact
<1> QED
  BY <1>1, ThreadInvariant, RegistryInvariant, PTL

(* When StopAllThreads() gives gListMtx back, only detached threads are left, *)
(* if nobody stops all threads while others use the class (ThreadObj.h:82,    *)
(* ThreadObj.cpp:57-67). *)
THEOREM StopAllStops ==
    ASSUME SoleManager PROVE SafetySpec => StopAllStopsAll
<1>1. ASSUME ThreadInv, RegistryInv, [Next]_vars, gListMtx # None, gListMtx' = None,
             NEW w \in Workers, Alive(w)
      PROVE  w \in detached
  <2>1. PICK c \in Callers : StopAllDone(c)
    BY <1>1, ConstantsAssumption
       DEF Next, Call, Continue, Work, StartThread, AddThreadObj, SpawnThread,
           StopThread, StopBody, DeleteRunning, DeleteStopped, JoinThread,
           DetachThread, DelThreadObj, StopAllThreads, StopAllNext, WorkerEnter,
           WorkerRequestStop, WorkerReturn, Fail, vars, callerVars
  <2>2. todo = {} /\ tgt[gListMtx] = None
    BY <1>1, <2>1 DEF StopAllDone, At, ThreadInv, CallInv, ManagerInv
  <2>3. \A o \in Objs : ~Joinable(o)
    BY <1>1, <2>2, ConstantsAssumption DEF RegistryInv
  <2> QED
    BY <1>1, <2>3, ConstantsAssumption DEF ThreadInv, TypeOK, WorkerInv, Alive, Joinable
<1>2. ThreadInv /\ RegistryInv /\ [Next]_vars
        => [gListMtx # None /\ gListMtx' = None =>
               \A w \in Workers : Alive(w) => w \in detached]_vars
  BY <1>1
<1> QED
  BY <1>2, ThreadInvariant, RegistryInvariant, PTL DEF SafetySpec, StopAllStopsAll

(* A program in which one thread manages all objects, never detaches and      *)
(* deletes stopped objects only, never joins twice, never calls the pure      *)
(* ThreadFunction() and never uses an object that is gone                     *)
(* (ThreadObj.cpp:12-67). *)
THEOREM CarefulClientsNeverFail ==
    ASSUME SoleManager, Careful PROVE SafetySpec => []NoFault
<1>1. Init => CarefulInv
  BY InitInv
<1>2. ThreadInv /\ RegistryInv /\ CarefulInv /\ [Next]_vars => CarefulInv'
  BY SoleManager, Careful, CarefulInvStep
<1>3. CarefulInv => NoFault
  BY DEF CarefulInv
<1> QED
  BY <1>1, <1>2, <1>3, ThreadInvariant, RegistryInvariant, PTL DEF SafetySpec

=============================================================================
