----------------------------- MODULE ThreadObj -----------------------------
(* The thread object of src/project/basic/ThreadObj.{h,cpp}: one std::thread *)
(* per object, a stop flag the worker polls, and the registry gList of the   *)
(* objects that were started, guarded by gListMtx.                           *)
(*                                                                           *)
(* Threads that call the API are Callers; each object is started, stopped    *)
(* and deleted by its Owner only (the class keeps no lock over m_thread), and*)
(* Managers are the callers that also use the static StopAllThreads().       *)
(* gList is kept as the number of occurrences of each object: the traversal  *)
(* order is left open.                                                       *)
EXTENDS Naturals, FiniteSets

CONSTANTS
    Objs,       \* the ThreadObj instances
    Callers,    \* the threads that use them
    Managers,   \* the callers that may call StopAllThreads()
    Workers,    \* bound: OS threads that can exist at one time
    Owner,      \* Owner[o]: the caller that starts, stops and deletes o
    WaitModes,  \* the values of isWaiting that StopThread is called with
    StopFirst,  \* TRUE: owners delete only objects whose thread is stopped
    None

ASSUME ConstantsAssumption ==
    /\ Managers \subseteq Callers
    /\ Owner \in [Objs -> Callers]
    /\ WaitModes \subseteq BOOLEAN
    /\ StopFirst \in BOOLEAN
    /\ None \notin Objs /\ None \notin Callers /\ None \notin Workers

VARIABLES
    mThread,    \* m_thread: the worker it is joinable with, or None
    stopReq,    \* m_stopRequested
    life,       \* "child", then "base" while ~ThreadObj runs, then "gone"
    gList,      \* registry: occurrences of each object
    gListMtx,   \* holder of gListMtx across steps, or None
    todo,       \* the part of gList that StopAllThreads has still to visit
    pc, tgt,    \* where each caller is, and on which object
    wpc, wobj,  \* where each OS thread is, and for which object it runs
    detached,   \* the OS threads that were detached
    fault       \* "none", or how the program ended abnormally

vars == <<mThread, stopReq, life, gList, gListMtx, todo, pc, tgt,
          wpc, wobj, detached, fault>>

callerVars == <<gList, gListMtx, todo, pc, tgt>>
workerVars == <<wpc, wobj, detached>>

JoinLabels == {"stop_join", "all_join"}
Labels == JoinLabels \cup
    {"idle", "start_add", "start_spawn", "stop_detach", "stop_del", "all_pick"}

Joinable(o) == mThread[o] # None
Alive(w) == wpc[w] \in {"created", "running"}

Go(c, label, o) == /\ pc' = [pc EXCEPT ![c] = label]
                   /\ tgt' = [tgt EXCEPT ![c] = o]

\* c is between two calls and o is one of its objects.
MayCall(c, o) == /\ fault = "none" /\ pc[c] = "idle"
                 /\ Owner[o] = c /\ life[o] = "child"

\* c is at a step of the call that it makes on tgt[c].
At(c, label) == fault = "none" /\ pc[c] = label

\* The step ends the program: an exception nobody catches, or an access to an
\* object that is gone.
Fail(kind) == fault' = kind /\ UNCHANGED <<mThread, stopReq, life, callerVars, workerVars>>

Init == /\ mThread = [o \in Objs |-> None]
        /\ stopReq = [o \in Objs |-> TRUE]
        /\ life = [o \in Objs |-> "child"]
        /\ gList = [o \in Objs |-> 0]
        /\ gListMtx = None
        /\ todo = {}
        /\ pc = [c \in Callers |-> "idle"]
        /\ tgt = [c \in Callers |-> None]
        /\ wpc = [w \in Workers |-> "none"]
        /\ wobj = [w \in Workers |-> None]
        /\ detached = {}
        /\ fault = "none"

----------------------------------------------------------------------------
\* Mutant: StartThread that does not ask whether the object is joinable.
StartThread_NoCheck(c, o) ==
    /\ MayCall(c, o)
    /\ stopReq' = [stopReq EXCEPT ![o] = FALSE]
    /\ Go(c, "start_add", o)
    /\ UNCHANGED <<mThread, life, gList, gListMtx, todo, workerVars, fault>>

(* StartThread: a joinable object is refused and left as it is, so only the  *)
(* other branch is an action. *)
StartThread(c, o) ==
    /\ MayCall(c, o) /\ ~Joinable(o)
    /\ stopReq' = [stopReq EXCEPT ![o] = FALSE]
    /\ Go(c, "start_add", o)
    /\ UNCHANGED <<mThread, life, gList, gListMtx, todo, workerVars, fault>>

AddThreadObj(c) ==
    /\ At(c, "start_add") /\ gListMtx = None
    /\ gList' = [gList EXCEPT ![tgt[c]] = @ + 1]
    /\ Go(c, "start_spawn", tgt[c])
    /\ UNCHANGED <<mThread, stopReq, life, gListMtx, todo, workerVars, fault>>

SpawnThread(c, w) ==
    /\ At(c, "start_spawn") /\ wpc[w] = "none"
    /\ mThread' = [mThread EXCEPT ![tgt[c]] = w]
    /\ wpc' = [wpc EXCEPT ![w] = "created"]
    /\ wobj' = [wobj EXCEPT ![w] = tgt[c]]
    /\ Go(c, "idle", None)
    /\ UNCHANGED <<stopReq, life, gList, gListMtx, todo, detached, fault>>

\* Mutant: StopThread that joins or detaches without setting the flag.
StopBody_NoFlag(c, o, isWaiting) ==
    /\ Joinable(o)
    /\ Go(c, IF isWaiting THEN "stop_join" ELSE "stop_detach", o)
    /\ UNCHANGED <<mThread, stopReq, gList, gListMtx, todo, workerVars, fault>>

(* StopThread and the destructor, which calls StopThread(true).  An object   *)
(* that is not joinable is left as it is. *)
StopBody(c, o, isWaiting) ==
    /\ Joinable(o)
    /\ stopReq' = [stopReq EXCEPT ![o] = TRUE]
    /\ Go(c, IF isWaiting THEN "stop_join" ELSE "stop_detach", o)
    /\ UNCHANGED <<mThread, gList, gListMtx, todo, workerVars, fault>>

StopThread(c, o, isWaiting) ==
    /\ MayCall(c, o)
    /\ StopBody(c, o, isWaiting)
    /\ UNCHANGED life

DeleteRunning(c, o) ==
    /\ MayCall(c, o) /\ ~StopFirst
    /\ StopBody(c, o, TRUE)
    /\ life' = [life EXCEPT ![o] = "base"]

DeleteStopped(c, o) ==
    /\ MayCall(c, o) /\ ~Joinable(o)
    /\ life' = [life EXCEPT ![o] = "gone"]
    /\ UNCHANGED <<mThread, stopReq, callerVars, workerVars, fault>>

\* Mutant: a join that does not wait for the thread to end.
JoinThread_NoWait(c) ==
    /\ pc[c] \in JoinLabels /\ At(c, pc[c]) /\ Joinable(tgt[c])
    /\ mThread' = [mThread EXCEPT ![tgt[c]] = None]
    /\ IF pc[c] = "stop_join" THEN Go(c, "stop_del", tgt[c]) ELSE Go(c, "all_pick", None)
    /\ UNCHANGED <<stopReq, life, gList, gListMtx, todo, workerVars, fault>>

\* std::thread::join() and detach() throw std::system_error when the thread is
\* not joinable any more; an object that is gone must not be touched.
JoinThread(c) ==
    /\ pc[c] \in JoinLabels /\ At(c, pc[c])
    /\ LET o == tgt[c]
           w == mThread[o]
       IN  \/ life[o] = "gone" /\ Fail("use_after_free")
           \/ life[o] # "gone" /\ ~Joinable(o) /\ Fail("system_error")
           \/ /\ life[o] # "gone" /\ Joinable(o) /\ wpc[w] = "ended"
              /\ mThread' = [mThread EXCEPT ![o] = None]
              /\ wpc' = [wpc EXCEPT ![w] = "none"]
              /\ wobj' = [wobj EXCEPT ![w] = None]
              /\ IF pc[c] = "stop_join" THEN Go(c, "stop_del", o)
                                        ELSE Go(c, "all_pick", None)
              /\ UNCHANGED <<stopReq, life, gList, gListMtx, todo, detached, fault>>

DetachThread(c) ==
    /\ At(c, "stop_detach")
    /\ LET o == tgt[c]
           w == mThread[o]
       IN  \/ ~Joinable(o) /\ Fail("system_error")
           \/ /\ Joinable(o)
              /\ mThread' = [mThread EXCEPT ![o] = None]
              /\ IF Alive(w)
                 THEN detached' = detached \cup {w} /\ UNCHANGED <<wpc, wobj>>
                 ELSE /\ wpc' = [wpc EXCEPT ![w] = "none"]
                      /\ wobj' = [wobj EXCEPT ![w] = None]
                      /\ UNCHANGED detached
              /\ Go(c, "stop_del", o)
              /\ UNCHANGED <<stopReq, life, gList, gListMtx, todo, fault>>

\* Mutant: DelThreadObj that leaves the entry.
DelThreadObj_Keep(c) ==
    /\ At(c, "stop_del") /\ gListMtx = None
    /\ life' = IF life[tgt[c]] = "base" THEN [life EXCEPT ![tgt[c]] = "gone"] ELSE life
    /\ Go(c, "idle", None)
    /\ UNCHANGED <<mThread, stopReq, gList, gListMtx, todo, workerVars, fault>>

DelThreadObj(c) ==
    /\ At(c, "stop_del") /\ gListMtx = None
    /\ LET o == tgt[c]
       IN  /\ gList' = [gList EXCEPT ![o] = 0]
           /\ life' = IF life[o] = "base" THEN [life EXCEPT ![o] = "gone"] ELSE life
    /\ Go(c, "idle", None)
    /\ UNCHANGED <<mThread, stopReq, gListMtx, todo, workerVars, fault>>

----------------------------------------------------------------------------
\* Mutants: StopAllThreads that only sets the flags, and that does not clear the list.
StopAllNext_NoJoin(c, o) ==
    /\ At(c, "all_pick") /\ o \in todo /\ life[o] # "gone"
    /\ todo' = todo \ {o}
    /\ stopReq' = [stopReq EXCEPT ![o] = TRUE]
    /\ UNCHANGED <<mThread, life, gList, gListMtx, pc, tgt, workerVars, fault>>

StopAllDone_NoClear(c) ==
    /\ At(c, "all_pick") /\ todo = {}
    /\ gListMtx' = None
    /\ Go(c, "idle", None)
    /\ UNCHANGED <<mThread, stopReq, life, gList, todo, workerVars, fault>>

(* StopAllThreads: gListMtx is held over the whole traversal, joins included *)
StopAllThreads(c) ==
    /\ At(c, "idle") /\ c \in Managers /\ gListMtx = None
    /\ gListMtx' = c
    /\ todo' = {o \in Objs : gList[o] > 0}
    /\ Go(c, "all_pick", None)
    /\ UNCHANGED <<mThread, stopReq, life, gList, workerVars, fault>>

StopAllNext(c, o) ==
    /\ At(c, "all_pick") /\ o \in todo
    /\ \/ life[o] = "gone" /\ Fail("use_after_free")
       \/ /\ life[o] # "gone"
          /\ todo' = todo \ {o}
          /\ IF Joinable(o)
             THEN /\ stopReq' = [stopReq EXCEPT ![o] = TRUE]
                  /\ Go(c, "all_join", o)
             ELSE UNCHANGED <<stopReq, pc, tgt>>
          /\ UNCHANGED <<mThread, life, gList, gListMtx, workerVars, fault>>

StopAllDone(c) ==
    /\ At(c, "all_pick") /\ todo = {}
    /\ gList' = [o \in Objs |-> 0]
    /\ gListMtx' = None
    /\ Go(c, "idle", None)
    /\ UNCHANGED <<mThread, stopReq, life, todo, workerVars, fault>>

----------------------------------------------------------------------------
(* The OS thread.  It reads *this before ThreadFunction() (the name), calls  *)
(* the virtual ThreadFunction(), and reads *this once more after it returns. *)
WorkerEnter(w) ==
    /\ fault = "none" /\ wpc[w] = "created"
    /\ \/ life[wobj[w]] = "gone" /\ Fail("use_after_free")
       \/ life[wobj[w]] = "base" /\ Fail("pure_virtual")
       \/ /\ life[wobj[w]] = "child"
          /\ wpc' = [wpc EXCEPT ![w] = "running"]
          /\ UNCHANGED <<mThread, stopReq, life, callerVars, wobj, detached, fault>>

\* ThreadFunction() of the subclass may set its own stop flag (it is protected).
WorkerRequestStop(w) ==
    /\ fault = "none" /\ wpc[w] = "running" /\ life[wobj[w]] # "gone"
    /\ stopReq' = [stopReq EXCEPT ![wobj[w]] = TRUE]
    /\ UNCHANGED <<mThread, life, callerVars, workerVars, fault>>

\* ThreadFunction() may return at any time; a detached thread is then reclaimed.
WorkerReturn(w) ==
    /\ fault = "none" /\ wpc[w] = "running"
    /\ \/ life[wobj[w]] = "gone" /\ Fail("use_after_free")
       \/ /\ life[wobj[w]] # "gone"
          /\ wpc' = [wpc EXCEPT ![w] = IF w \in detached THEN "none" ELSE "ended"]
          /\ wobj' = IF w \in detached THEN [wobj EXCEPT ![w] = None] ELSE wobj
          /\ detached' = detached \ {w}
          /\ UNCHANGED <<mThread, stopReq, life, callerVars, fault>>

----------------------------------------------------------------------------
\* The rest of a call that has begun.
Continue(c) ==
    \/ AddThreadObj(c)
    \/ \E w \in Workers : SpawnThread(c, w)
    \/ JoinThread(c) \/ DetachThread(c) \/ DelThreadObj(c)
    \/ \E o \in Objs : StopAllNext(c, o)
    \/ StopAllDone(c)

Call(c) ==
    \/ \E o \in Objs : StartThread(c, o)
    \/ \E o \in Objs, isWaiting \in WaitModes : StopThread(c, o, isWaiting)
    \/ \E o \in Objs : DeleteRunning(c, o)
    \/ \E o \in Objs : DeleteStopped(c, o)
    \/ StopAllThreads(c)

Work(w) == WorkerEnter(w) \/ WorkerRequestStop(w) \/ WorkerReturn(w)

Next == \/ \E c \in Callers : Call(c) \/ Continue(c)
        \/ \E w \in Workers : Work(w)

SafetySpec == Init /\ [][Next]_vars

\* A call that has begun goes on, a thread that was created runs, and
\* ThreadFunction() returns once it can see the stop flag; nobody has to call.
Fairness ==
    /\ \A c \in Callers : WF_vars(Continue(c))
    /\ \A w \in Workers : /\ WF_vars(WorkerEnter(w))
                          /\ WF_vars(wobj[w] # None /\ stopReq[wobj[w]] /\ WorkerReturn(w))

Spec == SafetySpec /\ Fairness

----------------------------------------------------------------------------
(* Properties                                                                *)

(* Type invariant of the registry, the calls and the threads (ThreadObj.h). *)
TypeOK ==
    /\ mThread \in [Objs -> Workers \cup {None}]
    /\ stopReq \in [Objs -> BOOLEAN]
    /\ life \in [Objs -> {"child", "base", "gone"}]
    /\ gList \in [Objs -> Nat]
    /\ gListMtx \in Callers \cup {None}
    /\ todo \in SUBSET Objs
    /\ pc \in [Callers -> Labels]
    /\ tgt \in [Callers -> Objs \cup {None}]
    /\ wpc \in [Workers -> {"none", "created", "running", "ended"}]
    /\ wobj \in [Workers -> Objs \cup {None}]
    /\ detached \in SUBSET Workers
    /\ fault \in {"none", "system_error", "pure_virtual", "use_after_free"}

(* No call, thread or traversal ends the program: no join or detach of a     *)
(* thread somebody else joined, no ThreadFunction() called on an object whose *)
(* derived part is gone, no thread or registry entry that outlives its object *)
(* (ThreadObj.cpp:12-67). *)
NoFault == fault = "none"

(* The registry lists exactly the objects that have a thread: whenever the    *)
(* owner of o is not in the middle of a call on o and no traversal is under   *)
(* way, gList has o once if m_thread is joinable and not at all otherwise.    *)
(* DumpThreadObjList and StopAllThreads rely on it (ThreadObj.cpp:57-100). *)
RegistryExact ==
    gListMtx = None =>
        \A o \in Objs : tgt[Owner[o]] # o => gList[o] = IF Joinable(o) THEN 1 ELSE 0

(* A stop request stands until the thread is joined: nobody clears            *)
(* m_stopRequested while a caller waits in join() for the worker that has to  *)
(* see it (ThreadObj.cpp:26, 44, 63). *)
StopRequestStands ==
    \A c \in Callers : pc[c] \in JoinLabels /\ Joinable(tgt[c]) => stopReq[tgt[c]]

(* A worker whose std::thread was not detached is the one its object can      *)
(* join, so an object never has two attached workers, and only a detached     *)
(* worker is ever left behind by its object (ThreadObj.cpp:28, 41-52). *)
AttachedWorkerIsHeld ==
    \A w \in Workers :
        Alive(w) /\ w \notin detached => mThread[wobj[w]] = w /\ life[wobj[w]] # "gone"

(* When StopAllThreads() returns, no thread of a registered object is left    *)
(* running: every live worker is one that its owner detached                  *)
(* (ThreadObj.h:82 "the manager stop and clear all threads."). *)
StopAllStopsAll ==
    [][gListMtx # None /\ gListMtx' = None =>
        \A w \in Workers : Alive(w) => w \in detached]_vars

(* Every StopThread(true) and StopAllThreads() returns, when ThreadFunction() *)
(* obeys the stop flag (ThreadObj.cpp:47, 64). *)
StopReturns ==
    \A c \in Callers :
        pc[c] \in {"stop_join", "stop_detach", "all_pick"} ~> pc[c] = "idle"

----------------------------------------------------------------------------
(* Inductive strengthenings.                                                 *)

\* A caller inside a call of an object is its owner; what it found when it
\* looked at m_thread still holds, because only the owner starts a thread.
CallInv ==
    \A c \in Callers :
        /\ pc[c] \in {"idle", "all_pick"} => tgt[c] = None
        /\ pc[c] \notin {"idle", "all_pick"} => tgt[c] \in Objs
        /\ pc[c] \notin {"idle", "all_pick", "all_join"} => Owner[tgt[c]] = c
        /\ pc[c] \in {"start_add", "start_spawn"} =>
               ~Joinable(tgt[c]) /\ life[tgt[c]] = "child"
        /\ pc[c] = "stop_del" => ~Joinable(tgt[c])
        /\ pc[c] \in {"stop_join", "stop_detach", "stop_del"} => life[tgt[c]] # "gone"

\* m_thread and the OS threads point at each other; an object that is gone has
\* no joinable thread.
WorkerInv ==
    /\ \A o \in Objs : Joinable(o) =>
           /\ wobj[mThread[o]] = o /\ wpc[mThread[o]] # "none"
           /\ mThread[o] \notin detached
           /\ life[o] # "gone"
    /\ \A w \in Workers :
           /\ wpc[w] = "none" <=> wobj[w] = None
           /\ w \in detached => Alive(w)
           /\ wpc[w] # "none" /\ w \notin detached => mThread[wobj[w]] = w

\* gListMtx is held by the manager inside StopAllThreads, and what that manager
\* joins has a thread or is being finished by its owner.
ManagerInv ==
    /\ \A c \in Callers :
           /\ pc[c] \in {"all_pick", "all_join"} <=> gListMtx = c
           /\ gListMtx = c => c \in Managers
           /\ pc[c] = "all_join" /\ ~Joinable(tgt[c]) =>
                  pc[Owner[tgt[c]]] = "stop_del" /\ tgt[Owner[tgt[c]]] = tgt[c]
    /\ gListMtx = None => todo = {}

\* The stop flag of an object somebody is stopping is set.
StopInv ==
    \A c \in Callers :
        /\ pc[c] \in {"stop_join", "stop_detach"} => stopReq[tgt[c]]
        /\ pc[c] = "all_join" /\ Joinable(tgt[c]) => stopReq[tgt[c]]

(* The inductive invariant that holds whoever calls StopAllThreads(): calls,  *)
(* threads, gListMtx and stop flags agree with each other at every step of    *)
(* ThreadObj.cpp:17-100. *)
ThreadInv == TypeOK /\ CallInv /\ WorkerInv /\ ManagerInv /\ StopInv

\* The thread that stops all threads is the only one that uses the class, as in
\* the demos, or nobody stops all threads.
SoleManager == \A c \in Managers : Callers = {c}

\* Clients that never detach and delete stopped objects only.
Careful == WaitModes \subseteq {TRUE} /\ StopFirst

(* The inductive invariant of the registry under SoleManager: an object is in *)
(* gList from AddThreadObj to DelThreadObj, once; a traversal has still to    *)
(* visit every joinable object (ThreadObj.cpp:57-100). *)
RegistryInv ==
    /\ gListMtx = None => \A o \in Objs :
           gList[o] = IF \/ Joinable(o)
                         \/ /\ tgt[Owner[o]] = o
                            /\ pc[Owner[o]] \in {"start_spawn", "stop_del"}
                      THEN 1 ELSE 0
    /\ gListMtx # None => \A o \in Objs :
           /\ Joinable(o) => o \in todo \/ o = tgt[gListMtx]
           /\ o \in todo => life[o] # "gone"
    /\ \A c \in Callers : pc[c] \in {"stop_join", "stop_detach", "all_join"} => Joinable(tgt[c])

\* What careful clients add: nothing is detached, no base destructor has to
\* stop a thread, no fault.
CarefulInv ==
    /\ NoFault /\ detached = {}
    /\ \A o \in Objs : life[o] # "base"
    /\ \A c \in Callers : pc[c] # "stop_detach"

=============================================================================
