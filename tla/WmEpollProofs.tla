---------------------------- MODULE WmEpollProofs ----------------------------
(* Theorems about WmEpoll (src/project/ipc/wm_epoll.c) for any number of      *)
(* descriptors, events and calls, and batches of any size.                   *)
EXTENDS WmEpoll, TLAPS

EpInv == TypeOK /\ PhaseInv /\ FreeInv

LEMMA ElementOf == \A S : \A s \in Seq(S) : \A i \in DOMAIN s : s[i] \in S
OBVIOUS

LEMMA EpInit == Init => EpInv
<1> SUFFICES ASSUME Init PROVE EpInv
  OBVIOUS
<1> USE WmEpollAssumption DEF Init
<1>1. TypeOK
  BY DEF TypeOK, NoOp
<1>2. PhaseInv
  BY DEF PhaseInv, Self
<1>3. FreeInv
  BY DEF FreeInv, KernelEntryAlive, NoOp
<1> QED BY <1>1, <1>2, <1>3 DEF EpInv

LEMMA TypeStep == TypeOK /\ [Next]_vars => TypeOK'
<1> SUFFICES ASSUME TypeOK, [Next]_vars PROVE TypeOK'
  OBVIOUS
<1> USE WmEpollAssumption DEF programVars, insVars, loopVars, eventVars, clientVars
<1>1. CASE wm_epoll_start \/ wm_epoll_stop \/ StopInside \/ Main
  BY <1>1 DEF wm_epoll_start, wm_epoll_stop, StopInside, Main, Started, Joined, TypeOK
<1>2. CASE ep_create
  <2>1. CASE fault = "epoll"
    BY <1>2, <2>1 DEF ep_create, TypeOK
  <2>2. CASE fault # "epoll"
    <3>1. PICK e \in Free : /\ list' = <<e>> /\ owner' = [owner EXCEPT ![e] = Idle]
                            /\ reg' = [reg EXCEPT ![Idle] = e]
      BY <1>2, <2>2 DEF ep_create
    <3>2. e \in Events /\ Idle \in AllFds
      BY DEF Free, AllFds
    <3>3. list' \in Seq(Events)
      BY <3>1, <3>2
    <3> QED BY <1>2, <3>1, <3>2, <3>3 DEF ep_create, TypeOK
  <2> QED BY <2>1, <2>2
<1>3. CASE ep_signal \/ Top \/ CallbackReturns \/ BatchDone \/ Destroyed
  BY <1>3 DEF ep_signal, Top, CallbackReturns, BatchDone, Destroyed, TypeOK
<1>4. CASE wm_epoll_wait
  <2>1. ASSUME NEW n \in 1..MaxBatch, NEW s \in [1..n -> Registered],
               batch' = [i \in 1..n |-> [ev |-> reg[s[i]], fd |-> s[i]]]
        PROVE  batch' \in Seq([ev : Events, fd : AllFds])
    <3>1. n \in Nat /\ \A i \in 1..n : s[i] \in AllFds /\ reg[s[i]] \in Events
      BY DEF Registered, TypeOK
    <3> QED BY <2>1, <3>1
  <2>2. batch' \in Seq([ev : Events, fd : AllFds])
    <3>1. CASE handle
      <4>1. PICK n \in 1..MaxBatch : \E s \in [1..n -> Registered] :
                batch' = [i \in 1..n |-> [ev |-> reg[s[i]], fd |-> s[i]]]
        BY <1>4, <3>1, Zenon DEF wm_epoll_wait
      <4> QED BY <2>1, <4>1
    <3>2. CASE ~handle
      BY <1>4, <3>2 DEF wm_epoll_wait, TypeOK
    <3> QED BY <3>1, <3>2
  <2> QED BY <1>4, <2>2 DEF wm_epoll_wait, TypeOK
<1>5. CASE CallEvent
  BY <1>5 DEF CallEvent, TypeOK
<1>6. CASE Destroy
  <2>1. list # <<>> /\ list \in Seq(Events) /\ list' = Tail(list)
    BY <1>6 DEF Destroy, TypeOK
  <2>2. list' \in Seq(Events)
    BY <2>1
  <2> QED BY <1>6, <2>2 DEF Destroy, TypeOK
<1>7. CASE Link
  <2>1. list' = <<op.ev>> \o list /\ op.ev \in Events /\ list \in Seq(Events)
    BY <1>7 DEF Link, list_add, TypeOK
  <2>2. list' \in Seq(Events)
    BY <2>1
  <2> QED BY <1>7, <2>2 DEF Link, NoOp, TypeOK
<1>8. CASE Unregister
  BY <1>8 DEF Unregister, TypeOK, NoOp
<1>9. CASE FreeEvent
  BY <1>9 DEF FreeEvent, TypeOK, NoOp
<1>10. ASSUME NEW f \in Fds, wm_epoll_add(f) PROVE TypeOK'
  BY <1>10, SMTT(30) DEF wm_epoll_add, Request, Free, AllFds, TypeOK, NoOp
<1>11. ASSUME NEW f \in Fds, wm_epoll_modify(f) PROVE TypeOK'
  <2>1. Found(f) # {} => list[CHOOSE i \in Found(f) : TRUE] \in Events
    BY DEF Found, TypeOK
  <2> QED BY <1>11, <2>1 DEF wm_epoll_modify, Request, TypeOK
<1>12. ASSUME NEW f \in Fds, wm_epoll_remove(f) PROVE TypeOK'
  <2>1. CASE Found(f) = {}
    BY <1>12, <2>1 DEF wm_epoll_remove, Request, TypeOK
  <2>2. CASE Found(f) # {}
    <3>1. PICK i \in DOMAIN list :
              list_del(i) /\ op' = [name |-> "unregister", ev |-> list[i]]
      BY <1>12, <2>2 DEF wm_epoll_remove, Found
    <3>2. list \in Seq(Events) /\ list[i] \in Events /\ Len(list) \in Nat /\ i \in 1..Len(list)
      BY DEF TypeOK
    <3>3. list' \in Seq(Events)
      BY <3>1, <3>2 DEF list_del
    <3>4. op' \in [name : {"none", "add", "unregister", "free"}, ev : Events \cup {None}]
          /\ op'.name # "none" /\ op' # NoOp /\ op'.ev \in Events
      BY <3>1, <3>2 DEF NoOp
    <3> QED BY <1>12, <3>3, <3>4 DEF wm_epoll_remove, TypeOK, NoOp
  <2> QED BY <2>1, <2>2
<1>13. ASSUME NEW f \in Fds, Open(f) \/ Close(f) PROVE TypeOK'
  BY <1>13 DEF Open, Close, Request, TypeOK, AllFds
<1>14. CASE UNCHANGED vars
  BY <1>14 DEF vars, TypeOK
<1> QED
  BY <1>1, <1>2, <1>3, <1>4, <1>5, <1>6, <1>7, <1>8, <1>9, <1>10, <1>11, <1>12, <1>13, <1>14
  DEF Next, Loop, Client

LEMMA PhaseStep == TypeOK /\ PhaseInv /\ [Next]_vars => PhaseInv'
<1> SUFFICES ASSUME TypeOK, PhaseInv, [Next]_vars PROVE PhaseInv'
  OBVIOUS
<1> USE DEF programVars, insVars, loopVars, eventVars, clientVars, PhaseInv, Self
<1>1. CASE wm_epoll_start
  <2>1. batch = <<>> /\ op = NoOp
    BY <1>1 DEF wm_epoll_start
  <2> QED BY <1>1, <2>1 DEF wm_epoll_start
<1>8. CASE wm_epoll_stop
  BY <1>8 DEF wm_epoll_stop
<1>9. CASE StopInside
  BY <1>9 DEF StopInside
<1>10. CASE Started
  BY <1>10 DEF Started
<1>11. CASE Joined
  BY <1>11 DEF Joined
<1>2. CASE ep_create \/ ep_signal \/ Top \/ wm_epoll_wait
  BY <1>2 DEF ep_create, ep_signal, Top, wm_epoll_wait
<1>3. CASE CallEvent \/ CallbackReturns \/ BatchDone \/ Destroy \/ Destroyed
  BY <1>3 DEF CallEvent, CallbackReturns, BatchDone, Destroy, Destroyed
<1>4. CASE Client
  BY <1>4 DEF Client, Link, Unregister, FreeEvent, NoOp, TypeOK
<1>5. ASSUME NEW f \in Fds, wm_epoll_add(f) \/ wm_epoll_modify(f) \/ wm_epoll_remove(f)
      PROVE  PhaseInv'
  BY <1>5 DEF wm_epoll_add, wm_epoll_modify, wm_epoll_remove, Request
<1>6. ASSUME NEW f \in Fds, Open(f) \/ Close(f) PROVE PhaseInv'
  BY <1>6 DEF Open, Close, Request
<1>7. CASE UNCHANGED vars
  BY <1>7 DEF vars
<1> QED BY <1>1, <1>2, <1>3, <1>4, <1>5, <1>6, <1>7, <1>8, <1>9, <1>10, <1>11 DEF Next, Loop, Main

\* Which steps change reg and owner, and how: an event that is taken has no entry,
\* one that is given back has none either.
LEMMA FreeStep == EpInv /\ [Next]_vars => FreeInv'
<1> SUFFICES ASSUME EpInv, [Next]_vars PROVE FreeInv'
  OBVIOUS
<1> TypeOK /\ PhaseInv /\ FreeInv
  BY DEF EpInv
<1> USE WmEpollAssumption
    DEF programVars, insVars, loopVars, eventVars, clientVars, FreeInv, KernelEntryAlive
<1>0. None \notin AllFds /\ owner \in [Events -> AllFds \cup {None}]
      /\ reg \in [AllFds -> Events \cup {None}]
  BY DEF AllFds, TypeOK
<1>1. CASE ep_create
  <2>1. op.name # "free"
    BY <1>1 DEF ep_create, PhaseInv, TypeOK
  <2> QED BY <1>0, <1>1, <2>1 DEF ep_create, Free, AllFds
<1>2. CASE Destroy
  <2> DEFINE h == Head(list)
  <2>1. /\ reg' = [reg EXCEPT ![owner[h]] = None] /\ owner' = [owner EXCEPT ![h] = None]
        /\ UNCHANGED op /\ h \in Events
    BY <1>2 DEF Destroy, TypeOK
  <2> HIDE DEF h
  <2>2. \A f \in AllFds : reg'[f] = IF f = owner[h] THEN None ELSE reg[f]
    BY <1>0, <2>1
  <2>3. \A e \in Events : owner'[e] = IF e = h THEN None ELSE owner[e]
    BY <1>0, <2>1
  <2>4. ASSUME NEW f \in AllFds, reg'[f] # None PROVE owner'[reg'[f]] = f
    BY <1>0, <2>2, <2>3, <2>4
  <2>5. op'.name = "free" => \A f \in AllFds : reg'[f] # op'.ev
    BY <1>0, <2>1, <2>2, TypeOK DEF TypeOK
  <2> QED BY <2>4, <2>5
<1>3. CASE Unregister
  BY <1>0, <1>3 DEF Unregister, TypeOK
<1>4. CASE FreeEvent
  BY <1>0, <1>4 DEF FreeEvent, NoOp
<1>5. ASSUME NEW f \in Fds, wm_epoll_add(f) PROVE FreeInv'
  BY <1>0, <1>5 DEF wm_epoll_add, Request, Free, AllFds, NoOp
<1>6. ASSUME NEW f \in Fds, wm_epoll_modify(f) PROVE FreeInv'
  <2>1. Found(f) # {} => owner[list[CHOOSE i \in Found(f) : TRUE]] = f
    BY DEF Found
  <2> QED BY <1>0, <1>6, <2>1 DEF wm_epoll_modify, Request, NoOp, AllFds
<1>7. ASSUME NEW f \in Fds, wm_epoll_remove(f) PROVE FreeInv'
  BY <1>0, <1>7 DEF wm_epoll_remove, Request, NoOp
<1>8. ASSUME NEW f \in Fds, Open(f) \/ Close(f) PROVE FreeInv'
  BY <1>0, <1>8 DEF Open, Close, Request, NoOp, AllFds
<1>9. CASE UNCHANGED <<owner, reg, op>>
  BY <1>9
<1>10. CASE Link
  BY <1>10 DEF Link, NoOp
<1> QED
  BY <1>1, <1>2, <1>3, <1>4, <1>5, <1>6, <1>7, <1>8, <1>9, <1>10
  DEF Next, Loop, Main, Client, vars, wm_epoll_start, wm_epoll_stop, StopInside, Started, Joined,
      ep_signal, Top, wm_epoll_wait, CallEvent, CallbackReturns, BatchDone, Destroyed

LEMMA EpStep == EpInv /\ [Next]_vars => EpInv'
BY TypeStep, PhaseStep, FreeStep DEF EpInv

\* In a callback of an "own" program the rest of the batch is about other events.
LEMMA BatchStep == EpInv /\ BatchInv /\ [Next]_vars => BatchInv'
<1> SUFFICES ASSUME EpInv, BatchInv, [Next]_vars, policy' = "own" PROVE BatchInv'
  BY DEF BatchInv
<1> USE WmEpollAssumption
    DEF programVars, insVars, loopVars, eventVars, clientVars, BatchIsCurrent
<1>0. /\ None \notin AllFds /\ owner \in [Events -> AllFds \cup {None}]
      /\ reg \in [AllFds -> Events \cup {None}]
      /\ policy = "own" /\ Self
      /\ batch \in Seq([ev : Events, fd : AllFds])
      /\ mpc = "off" /\ lpc # "create"
  BY DEF EpInv, TypeOK, PhaseInv, AllFds, Self, Next, Loop, Main, Client, vars, wm_epoll_start,
         wm_epoll_stop, StopInside, ep_create, ep_signal, Started, Joined, Top, wm_epoll_wait,
         CallEvent, CallbackReturns, BatchDone, Destroy, Destroyed, Link, Unregister, FreeEvent,
         wm_epoll_add, wm_epoll_modify, wm_epoll_remove, Open, Close
<1>1. /\ \A i \in DOMAIN batch : owner[batch[i].ev] = batch[i].fd
      /\ \A i, j \in DOMAIN batch : batch[i].fd = batch[j].fd => i = j
      /\ lpc = "callback" => \A i \in DOMAIN batch : batch[i].fd # called
      /\ lpc = "callback" /\ op.name \in {"unregister", "free"} => owner[op.ev] = called
      /\ \A i \in DOMAIN batch : batch[i].ev \in Events /\ batch[i].fd \in AllFds
      /\ batch # <<>> => lpc \in {"call", "callback", "undefined"}
      /\ op # NoOp => lpc \in {"top", "callback"}
  <2>1. \A i \in DOMAIN batch : batch[i].ev \in Events /\ batch[i].fd \in AllFds
    <3>1. \A i \in DOMAIN batch : batch[i] \in [ev : Events, fd : AllFds]
      BY <1>0, ElementOf
    <3> QED BY <3>1
  <2>2. /\ batch # <<>> => lpc \in {"call", "callback", "undefined"}
        /\ op # NoOp => lpc \in {"top", "callback"}
    BY <1>0 DEF EpInv, PhaseInv
  <2> QED BY <1>0, <2>1, <2>2 DEF BatchInv
<1>t. op.name # "none" => op # NoOp /\ op.ev \in Events
  BY DEF EpInv, TypeOK
\* Steps that change neither the batch nor the events.
<1>2. ASSUME UNCHANGED <<batch, owner, called, op>>, lpc' = "callback" => lpc = "callback"
      PROVE  BatchInv'
  BY <1>1, <1>2 DEF BatchInv
<1>3. CASE wm_epoll_wait
  <2>1. CASE ~handle
    BY <1>2, <1>3, <2>1 DEF wm_epoll_wait
  <2>2. CASE handle
    <3>1. PICK n \in 1..MaxBatch : \E s \in [1..n -> Registered] :
              /\ \A i, j \in 1..n : s[i] = s[j] => i = j
              /\ batch' = [i \in 1..n |-> [ev |-> reg[s[i]], fd |-> s[i]]]
      BY <1>3, <2>2, Zenon DEF wm_epoll_wait
    <3>2. PICK s \in [1..n -> Registered] :
              /\ \A i, j \in 1..n : s[i] = s[j] => i = j
              /\ batch' = [i \in 1..n |-> [ev |-> reg[s[i]], fd |-> s[i]]]
      BY <3>1
    <3>3. \A i \in 1..n : s[i] \in AllFds /\ owner[reg[s[i]]] = s[i]
      BY DEF Registered, EpInv, FreeInv, KernelEntryAlive
    <3>4. UNCHANGED <<owner, op, policy>> /\ lpc' = "call"
      BY <1>3, <2>2 DEF wm_epoll_wait
    <3> QED BY <3>2, <3>3, <3>4 DEF BatchInv
  <2> QED BY <2>1, <2>2
<1>4. CASE CallEvent
  <2>1. /\ batch # <<>> /\ batch' = Tail(batch) /\ UNCHANGED <<owner, op, policy>> /\ lpc = "call"
        /\ called' = owner[Head(batch).ev]
    BY <1>4 DEF CallEvent
  <2>2. called' = batch[1].fd
    BY <1>0, <1>1, <2>1
  <2>3. \A i \in DOMAIN batch' : i + 1 \in DOMAIN batch /\ batch'[i] = batch[i + 1] /\ i + 1 # 1
    BY <1>0, <2>1
  <2>4. op = NoOp
    BY <1>1, <2>1
  <2>5. \A i, j \in DOMAIN batch' : i + 1 = j + 1 => i = j
    BY <1>0, <2>1
  <2>6. 1 \in DOMAIN batch
    BY <1>0, <2>1
  <2> QED BY <1>1, <2>1, <2>2, <2>3, <2>4, <2>5, <2>6 DEF BatchInv, NoOp
<1>5. CASE Destroy \/ Destroyed
  <2>1. batch' = <<>> /\ lpc' # "callback"
    BY <1>1, <1>5 DEF Destroy, Destroyed
  <2> QED BY <2>1 DEF BatchInv
<1>6. CASE Link
  BY <1>1, <1>6 DEF Link, BatchInv, NoOp
<1>7. CASE Unregister
  BY <1>1, <1>7, <1>0 DEF Unregister, BatchInv
<1>8. CASE FreeEvent
  <2>1. \A i \in DOMAIN batch : batch[i].ev # op.ev
    BY <1>1, <1>8, <1>t DEF FreeEvent
  <2> QED BY <1>0, <1>1, <1>8, <2>1 DEF FreeEvent, BatchInv, NoOp
<1>9. ASSUME NEW f \in Fds, wm_epoll_add(f) PROVE BatchInv'
  <2>1. CASE UNCHANGED <<owner, op>>
    BY <1>2, <1>9, <2>1 DEF wm_epoll_add, Request
  <2>2. ASSUME NEW e \in Free, owner' = [owner EXCEPT ![e] = f],
               op' = [name |-> "add", ev |-> e]
        PROVE  BatchInv'
    <3>1. \A i \in DOMAIN batch : batch[i].ev # e
      BY <1>0, <1>1 DEF Free
    <3> QED BY <1>0, <1>1, <1>9, <2>2, <3>1 DEF wm_epoll_add, BatchInv
  <2> QED BY <1>9, <2>1, <2>2 DEF wm_epoll_add
<1>10. ASSUME NEW f \in Fds, wm_epoll_remove(f) PROVE BatchInv'
  <2>1. CASE Found(f) = {}
    BY <1>2, <1>10, <2>1 DEF wm_epoll_remove, Request
  <2>2. CASE Found(f) # {}
    <3>1. PICK i \in Found(f) : op' = [name |-> "unregister", ev |-> list[i]]
      BY <1>10, <2>2 DEF wm_epoll_remove
    <3>2. owner[list[i]] = f
      BY DEF Found
    <3> QED BY <1>0, <1>1, <1>10, <3>1, <3>2 DEF wm_epoll_remove, Mine, BatchInv
  <2> QED BY <2>1, <2>2
<1>11. ASSUME NEW f \in Fds, wm_epoll_modify(f) \/ Open(f) \/ Close(f) PROVE BatchInv'
  BY <1>2, <1>11 DEF wm_epoll_modify, Open, Close, Request
<1>12. CASE Top \/ CallbackReturns \/ BatchDone \/ ep_signal \/ Started \/ Joined
  BY <1>0, <1>1, <1>12 DEF Top, CallbackReturns, BatchDone, ep_signal, Started, Joined, BatchInv
<1>13. CASE wm_epoll_start \/ wm_epoll_stop \/ StopInside \/ UNCHANGED vars
  BY <1>0, <1>2, <1>13 DEF wm_epoll_start, wm_epoll_stop, StopInside, vars
<1>14. ~ep_create
  BY <1>0 DEF ep_create
<1> QED
  BY <1>3, <1>4, <1>5, <1>6, <1>7, <1>8, <1>9, <1>10, <1>11, <1>12, <1>13, <1>14
  DEF Next, Loop, Main, Client

\* The list: its events are allocated and registered, each for its own descriptor.
LEMMA ListStep == EpInv /\ ListInv /\ [Next]_vars => ListInv'
<1> SUFFICES ASSUME EpInv, ListInv, [Next]_vars, polite' PROVE ListInv'
  BY DEF ListInv
<1> USE WmEpollAssumption DEF programVars, insVars, loopVars, eventVars, clientVars, ListedIsOpen
<1>0. /\ None \notin AllFds /\ owner \in [Events -> AllFds \cup {None}]
      /\ reg \in [AllFds -> Events \cup {None}]
      /\ list \in Seq(Events)
      /\ op.name # "none" => op # NoOp /\ op.ev \in Events
      /\ op.name = "none" => op = NoOp
      /\ op.name \in {"none", "add", "unregister", "free"}
      /\ UNCHANGED policy
  BY DEF EpInv, TypeOK, AllFds, Next, Loop, Main, Client, vars, wm_epoll_start, wm_epoll_stop,
         StopInside, ep_create, ep_signal, Started, Joined, Top, wm_epoll_wait, CallEvent,
         CallbackReturns, BatchDone, Destroy, Destroyed, Link, Unregister, FreeEvent, wm_epoll_add,
         wm_epoll_modify, wm_epoll_remove, Open, Close
<1>p. polite
  BY DEF Next, Loop, Main, Client, vars, wm_epoll_start, wm_epoll_stop,
         StopInside, ep_create, ep_signal, Started, Joined, Top, wm_epoll_wait, CallEvent,
         CallbackReturns, BatchDone, Destroy, Destroyed, Link, Unregister, FreeEvent, wm_epoll_add,
         wm_epoll_modify, wm_epoll_remove, Open, Close
<1>1. /\ \A i, j \in DOMAIN list :
             /\ owner[list[i]] \in open /\ reg[owner[list[i]]] = list[i]
             /\ owner[list[i]] = owner[list[j]] => i = j
      /\ op # NoOp => /\ \A i \in DOMAIN list : owner[list[i]] # owner[op.ev]
                      /\ owner[op.ev] \in AllFds
      /\ op.name = "add" => owner[op.ev] \in open /\ reg[owner[op.ev]] = op.ev
  BY <1>p DEF ListInv
<1>e. \A i \in DOMAIN list : list[i] \in Events
  BY <1>0
<1>n. \A i \in DOMAIN list : owner[list[i]] \in AllFds
  BY <1>p DEF ListInv
<1>2. ASSUME UNCHANGED <<list, owner, reg, open, op>> PROVE ListInv'
  BY <1>1, <1>2, <1>n DEF ListInv
<1>3. ASSUME NEW e \in Events, op = NoOp, UNCHANGED op, list' = <<e>>, open' = open \cup {Idle},
             owner' = [owner EXCEPT ![e] = Idle], reg' = [reg EXCEPT ![Idle] = e]
      PROVE  ListInv'
  BY <1>0, <1>3 DEF ListInv, AllFds, NoOp
<1>4. CASE ep_create
  <2>1. op = NoOp /\ UNCHANGED op
    BY <1>4 DEF ep_create, EpInv, PhaseInv
  <2>2. CASE fault = "epoll"
    BY <1>1, <1>4, <1>n, <2>1, <2>2 DEF ep_create, ListInv, NoOp
  <2>3. CASE fault # "epoll"
    BY <1>3, <1>4, <2>1, <2>3 DEF ep_create, Free
  <2> QED BY <2>2, <2>3
<1>5. CASE Destroy
  <2> DEFINE h == Head(list)
             f == owner[h]
  <2>1. /\ reg' = [reg EXCEPT ![f] = None] /\ owner' = [owner EXCEPT ![h] = None]
        /\ open' = open \ {f} /\ UNCHANGED op /\ list # <<>> /\ list' = Tail(list)
        /\ lpc = "destroy" /\ handle
    BY <1>5 DEF Destroy
  <2>2. op = NoOp
    BY <2>1 DEF EpInv, PhaseInv
  <2>3. h = list[1] /\ 1 \in DOMAIN list /\ h \in Events /\ f \in AllFds
    BY <1>0, <1>n, <2>1
  <2>4. \A i \in DOMAIN list' : i + 1 \in DOMAIN list /\ list'[i] = list[i + 1] /\ i + 1 # 1
    BY <1>0, <2>1
  <2>5. \A i, j \in DOMAIN list' : i + 1 = j + 1 => i = j
    BY <1>0, <2>1
  <2>6. \A i \in DOMAIN list' : owner[list'[i]] # f /\ list'[i] # h /\ list'[i] \in Events
    BY <1>1, <1>e, <2>3, <2>4
  <2> HIDE DEF h, f
  <2>7. \A i \in DOMAIN list' : owner'[list'[i]] = owner[list'[i]]
    BY <1>0, <2>1, <2>6
  <2>8. \A g \in AllFds : g # f => reg'[g] = reg[g]
    BY <1>0, <2>1
  <2>9. ASSUME NEW i \in DOMAIN list', NEW j \in DOMAIN list'
        PROVE  /\ owner'[list'[i]] \in open' /\ reg'[owner'[list'[i]]] = list'[i]
               /\ owner'[list'[i]] = owner'[list'[j]] => i = j
               /\ owner'[list'[i]] \in AllFds
    <3>1. i + 1 \in DOMAIN list /\ j + 1 \in DOMAIN list
          /\ list'[i] = list[i + 1] /\ list'[j] = list[j + 1]
      BY <2>4
    <3>2. /\ owner[list'[i]] \in open /\ reg[owner[list'[i]]] = list'[i]
          /\ owner[list'[i]] = owner[list'[j]] => i + 1 = j + 1
          /\ owner[list'[i]] \in AllFds
      BY <1>1, <1>n, <3>1
    <3> QED BY <2>1, <2>5, <2>6, <2>7, <2>8, <3>2
  <2> QED BY <2>1, <2>2, <2>9 DEF ListInv, NoOp
<1>6. CASE Link
  <2>1. /\ list' = <<op.ev>> \o list /\ op' = NoOp /\ UNCHANGED <<owner, reg, open>>
        /\ op.name = "add"
    BY <1>6 DEF Link, list_add
  <2>2. op.ev \in Events /\ op # NoOp
    BY <1>0, <2>1
  <2>3. \A i \in DOMAIN list' : IF i = 1 THEN list'[i] = op.ev
                                ELSE i - 1 \in DOMAIN list /\ list'[i] = list[i - 1]
    BY <1>0, <2>1, <2>2
  <2>4. \A i, j \in DOMAIN list' : i - 1 = j - 1 => i = j
    BY <1>0, <2>1, <2>2
  <2>5. \A i, j \in DOMAIN list' :
            /\ owner[list'[i]] \in open /\ reg[owner[list'[i]]] = list'[i]
            /\ owner[list'[i]] = owner[list'[j]] => i = j
            /\ owner[list'[i]] \in AllFds
    BY <1>1, <1>n, <2>1, <2>2, <2>3, <2>4
  <2> QED BY <2>1, <2>5 DEF ListInv, NoOp
<1>7. CASE Unregister
  <2>1. /\ reg' = [reg EXCEPT ![owner[op.ev]] = None] /\ op' = [op EXCEPT !.name = "free"]
        /\ UNCHANGED <<list, owner, open>> /\ op # NoOp /\ op.ev \in Events
    BY <1>0, <1>7 DEF Unregister
  <2>2. op'.name = "free" /\ op'.ev = op.ev
    BY <2>1 DEF EpInv, TypeOK
  <2> QED BY <1>0, <1>1, <1>n, <2>1, <2>2 DEF ListInv
<1>8. CASE FreeEvent
  <2>1. /\ owner' = [owner EXCEPT ![op.ev] = None] /\ op' = NoOp /\ op # NoOp /\ op.ev \in Events
        /\ UNCHANGED <<list, reg, open>>
    BY <1>0, <1>8 DEF FreeEvent
  <2>2. \A i \in DOMAIN list : list[i] # op.ev
    BY <1>1, <2>1
  <2>3. \A i \in DOMAIN list : owner'[list[i]] = owner[list[i]]
    BY <1>0, <1>e, <2>1, <2>2
  <2> QED BY <1>1, <1>n, <2>1, <2>3 DEF ListInv, NoOp
<1>9. ASSUME NEW f \in Fds, wm_epoll_add(f) PROVE ListInv'
  <2>1. CASE UNCHANGED <<owner, reg, op>>
    BY <1>2, <1>9, <2>1 DEF wm_epoll_add
  <2>2. ASSUME f \in open, reg[f] = None, NEW e \in Free, owner' = [owner EXCEPT ![e] = f],
               reg' = [reg EXCEPT ![f] = e], op' = [name |-> "add", ev |-> e]
        PROVE  ListInv'
    <3>1. e \in Events /\ f \in AllFds /\ UNCHANGED <<list, open>>
      BY <1>9 DEF Free, AllFds, wm_epoll_add
    <3>2. \A i \in DOMAIN list : list[i] # e /\ owner[list[i]] # f
      BY <1>0, <1>1, <1>e, <1>n, <2>2 DEF Free
    <3>3. \A i \in DOMAIN list : owner'[list[i]] = owner[list[i]]
      BY <1>0, <1>e, <2>2, <3>1, <3>2
    <3>4. /\ \A i \in DOMAIN list : reg'[owner[list[i]]] = reg[owner[list[i]]]
          /\ owner'[e] = f /\ reg'[f] = e
      BY <1>0, <1>n, <2>2, <3>1, <3>2
    <3> QED BY <1>1, <1>n, <2>2, <3>1, <3>2, <3>3, <3>4 DEF ListInv
  <2> QED BY <1>9, <2>1, <2>2 DEF wm_epoll_add
<1>10. ASSUME NEW f \in Fds, wm_epoll_modify(f) PROVE ListInv'
  <2>1. CASE Found(f) = {} \/ reg[f] = None
    <3>1. reg' = reg
      BY <1>0, <1>10, <2>1 DEF wm_epoll_modify
    <3> QED BY <1>2, <1>10, <3>1 DEF wm_epoll_modify
  <2>2. CASE Found(f) # {} /\ reg[f] # None
    <3> DEFINE i == CHOOSE x \in Found(f) : TRUE
    <3>1. i \in DOMAIN list /\ owner[list[i]] = f
      BY <2>2 DEF Found
    <3>2. reg[f] = list[i]
      BY <1>1, <3>1
    <3>3. reg' = reg
      BY <1>0, <1>10, <2>2, <3>2 DEF wm_epoll_modify
    <3> QED BY <1>2, <1>10, <3>3 DEF wm_epoll_modify
  <2> QED BY <2>1, <2>2
<1>11. ASSUME NEW f \in Fds, wm_epoll_remove(f) PROVE ListInv'
  <2>1. CASE Found(f) = {}
    BY <1>2, <1>11, <2>1 DEF wm_epoll_remove
  <2>2. CASE Found(f) # {}
    <3>1. PICK d \in Found(f) : list_del(d) /\ op' = [name |-> "unregister", ev |-> list[d]]
      BY <1>11, <2>2 DEF wm_epoll_remove
    <3>2. d \in DOMAIN list /\ owner[list[d]] = f /\ UNCHANGED <<owner, reg, open>>
      BY <1>11 DEF Found, wm_epoll_remove
    <3> DEFINE old(j) == IF j < d THEN j ELSE j + 1
    <3>3. \A j \in DOMAIN list' : old(j) \in DOMAIN list /\ old(j) # d /\ list'[j] = list[old(j)]
      BY <1>0, <3>1, <3>2 DEF list_del
    <3>4. \A j, k \in DOMAIN list' : old(j) = old(k) => j = k
      BY <1>0, <3>1, <3>2 DEF list_del
    <3> HIDE DEF old
    <3>5. \A j, k \in DOMAIN list' :
              /\ owner[list'[j]] \in open /\ reg[owner[list'[j]]] = list'[j]
              /\ owner[list'[j]] = owner[list'[k]] => j = k
              /\ owner[list'[j]] # owner[list[d]] /\ owner[list'[j]] \in AllFds
      BY <1>1, <1>n, <3>2, <3>3, <3>4
    <3>6. op'.ev = list[d] /\ op'.name = "unregister" /\ owner[list[d]] \in AllFds
      BY <1>n, <3>1, <3>2
    <3> QED BY <3>2, <3>5, <3>6 DEF ListInv
  <2> QED BY <2>1, <2>2
<1>12. ASSUME NEW f \in Fds, Open(f) PROVE ListInv'
  BY <1>1, <1>12, <1>n DEF Open, Request, ListInv, NoOp
<1>13. ASSUME NEW f \in Fds, Close(f) PROVE ListInv'
  <2>1. op = NoOp /\ UNCHANGED <<op, list, owner>> /\ Found(f) = {} /\ f \in AllFds
        /\ open' = open \ {f} /\ reg' = [reg EXCEPT ![f] = None]
    BY <1>13, <1>p DEF Close, Request, AllFds
  <2>2. \A i \in DOMAIN list : owner[list[i]] # f
    <3> SUFFICES ASSUME NEW i \in DOMAIN list, owner[list[i]] = f PROVE FALSE
      OBVIOUS
    <3>1. \A j \in 1..(i - 1) : j \in DOMAIN list /\ j # i
      BY <1>0
    <3>2. i \in Found(f)
      BY <1>1, <3>1 DEF Found
    <3> QED BY <2>1, <3>2
  <2> QED BY <1>0, <1>1, <1>n, <2>1, <2>2 DEF ListInv, NoOp
<1>14. CASE UNCHANGED <<list, owner, reg, open, op>>
  BY <1>2, <1>14
<1> QED
  BY <1>4, <1>5, <1>6, <1>7, <1>8, <1>9, <1>10, <1>11, <1>12, <1>13, <1>14
  DEF Next, Loop, Main, Client, vars, wm_epoll_start, wm_epoll_stop, StopInside, Started, Joined,
      ep_signal, Top, wm_epoll_wait, CallEvent, CallbackReturns, BatchDone, Destroyed

LEMMA LifeStep == EpInv /\ LifeInv /\ [Next]_vars => LifeInv'
<1> SUFFICES ASSUME EpInv, LifeInv, [Next]_vars, policy' # "inside", fault' # "epoll"
             PROVE  LifeInv'
  BY DEF LifeInv
<1> USE DEF programVars, insVars, loopVars, eventVars, clientVars, Self, Running
<1>0. /\ UNCHANGED <<policy, fault>> /\ PhaseInv
      /\ policy \in {"main", "inside", "own", "any"}
  BY DEF EpInv, TypeOK, Next, Loop, Main, Client, vars, wm_epoll_start, wm_epoll_stop, StopInside,
         ep_create, ep_signal, Started, Joined, Top, wm_epoll_wait, CallEvent, CallbackReturns,
         BatchDone, Destroy, Destroyed, Link, Unregister, FreeEvent, wm_epoll_add,
         wm_epoll_modify, wm_epoll_remove, Open, Close
<1> USE <1>0 DEF LifeInv, PhaseInv
<1>1. CASE wm_epoll_start
  BY <1>1 DEF wm_epoll_start
<1>2. CASE wm_epoll_stop
  BY <1>2 DEF wm_epoll_stop
<1>3. CASE Started
  BY <1>3 DEF Started
<1>4. CASE Joined
  BY <1>4 DEF Joined
<1>5. CASE ep_create
  BY <1>5 DEF ep_create
<1>6. CASE ep_signal \/ Top
  BY <1>6 DEF ep_signal, Top
<1>7. CASE wm_epoll_wait \/ BatchDone \/ Destroy \/ Destroyed
  BY <1>7 DEF wm_epoll_wait, BatchDone, Destroy, Destroyed
<1>8. CASE CallEvent \/ CallbackReturns
  BY <1>8 DEF CallEvent, CallbackReturns
<1>9. CASE UNCHANGED <<insVars, loopVars>>
  BY <1>9
<1> QED
  BY <1>1, <1>2, <1>3, <1>4, <1>5, <1>6, <1>7, <1>8, <1>9
  DEF Next, Loop, Main, Client, vars, StopInside, Link, Unregister, FreeEvent, wm_epoll_add,
      wm_epoll_modify, wm_epoll_remove, Open, Close

\* An event leaves the list into the hands of the client or to be freed, and the timer
\* only to be closed.
LEMMA CleanStep == EpInv /\ LifeInv /\ CleanInv /\ [Next]_vars => CleanInv'
<1> SUFFICES ASSUME EpInv, LifeInv, CleanInv, [Next]_vars, policy' # "inside", fault' # "epoll"
             PROVE  CleanInv'
  BY DEF CleanInv
<1> USE WmEpollAssumption DEF programVars, insVars, loopVars, eventVars, clientVars
<1>0. /\ None \notin AllFds /\ owner \in [Events -> AllFds \cup {None}]
      /\ list \in Seq(Events)
      /\ op.name # "none" => op # NoOp /\ op.ev \in Events
      /\ UNCHANGED <<policy, fault>>
  BY DEF EpInv, TypeOK, AllFds, Next, Loop, Main, Client, vars, wm_epoll_start, wm_epoll_stop,
         StopInside, ep_create, ep_signal, Started, Joined, Top, wm_epoll_wait, CallEvent,
         CallbackReturns, BatchDone, Destroy, Destroyed, Link, Unregister, FreeEvent, wm_epoll_add,
         wm_epoll_modify, wm_epoll_remove, Open, Close
<1>1. /\ lpc \in {"off", "create", "done"} => list = <<>>
      /\ \A e \in Events : owner[e] # None => \/ \E i \in DOMAIN list : list[i] = e
                                              \/ op # NoOp /\ op.ev = e
      /\ Idle \in open => \E i \in DOMAIN list : owner[list[i]] = Idle
      /\ op # NoOp => owner[op.ev] # Idle
  BY <1>0 DEF CleanInv
<1>2. \* Where the client is when the loop starts and ends.
      /\ lpc \in {"off", "create", "destroy", "done"} => op = NoOp
      /\ lpc = "destroy" => handle
      /\ op # NoOp => lpc \notin {"off", "create", "done"}
  BY <1>0 DEF EpInv, PhaseInv, LifeInv, Running, Self
<1>e. \A i \in DOMAIN list : list[i] \in Events
  BY <1>0
<1>3. ASSUME UNCHANGED <<list, owner, open, op>>,
             lpc' \in {"off", "create", "done"} => lpc \in {"off", "create", "done"}
      PROVE  CleanInv'
  BY <1>1, <1>3 DEF CleanInv
<1>4. CASE ep_create
  <2>1. PICK e \in Free : /\ list' = <<e>> /\ owner' = [owner EXCEPT ![e] = Idle]
                          /\ open' = open \cup {Idle}
    BY <1>0, <1>4 DEF ep_create
  <2>2. e \in Events /\ op = NoOp /\ UNCHANGED op /\ lpc' = "signal" /\ list = <<>>
    BY <1>1, <1>2, <1>4, <2>1 DEF ep_create, Free
  <2>3. /\ \A d \in Events : owner'[d] # None => \E i \in DOMAIN list' : list'[i] = d
        /\ \E i \in DOMAIN list' : owner'[list'[i]] = Idle
    BY <1>0, <1>1, <2>1, <2>2
  <2> QED BY <2>2, <2>3 DEF CleanInv
<1>5. CASE Destroy
  <2> DEFINE h == Head(list)
             f == owner[h]
  <2>1. /\ owner' = [owner EXCEPT ![h] = None] /\ open' = open \ {f} /\ UNCHANGED <<op, lpc>>
        /\ list # <<>> /\ list' = Tail(list) /\ lpc = "destroy"
    BY <1>5 DEF Destroy
  <2>2. op = NoOp
    BY <1>2, <2>1
  <2>3. h = list[1] /\ h \in Events
    BY <1>0, <2>1
  <2>4. \A i \in DOMAIN list : i # 1 => i - 1 \in DOMAIN list' /\ list'[i - 1] = list[i]
    BY <1>0, <2>1
  <2> HIDE DEF h
  <2>5. \A e \in Events : owner'[e] = IF e = h THEN None ELSE owner[e]
    BY <1>0, <2>1
  <2>6. ASSUME NEW e \in Events, owner'[e] # None PROVE \E i \in DOMAIN list' : list'[i] = e
    <3>1. PICK i \in DOMAIN list : list[i] = e
      BY <1>1, <2>2, <2>5, <2>6
    <3> QED BY <2>3, <2>4, <2>5, <2>6, <3>1
  <2>7. ASSUME Idle \in open' PROVE \E i \in DOMAIN list' : owner'[list'[i]] = Idle
    <3>1. PICK i \in DOMAIN list : owner[list[i]] = Idle /\ f # Idle
      BY <1>1, <2>1, <2>7
    <3> QED BY <1>e, <2>3, <2>4, <2>5, <3>1
  <2> QED BY <2>1, <2>2, <2>6, <2>7 DEF CleanInv
<1>6. CASE Destroyed
  <2>1. list = <<>> /\ UNCHANGED <<list, owner, open, op>>
    BY <1>2, <1>6 DEF Destroyed
  <2> QED BY <1>1, <2>1 DEF CleanInv
<1>7. CASE Link
  <2>1. /\ list' = <<op.ev>> \o list /\ op' = NoOp /\ UNCHANGED <<owner, open, lpc>>
        /\ op # NoOp /\ op.ev \in Events
    BY <1>0, <1>7 DEF Link, list_add
  <2>2. /\ 1 \in DOMAIN list' /\ list'[1] = op.ev
        /\ \A i \in DOMAIN list : i + 1 \in DOMAIN list' /\ list'[i + 1] = list[i]
    BY <1>0, <2>1
  <2>3. ASSUME NEW e \in Events, owner'[e] # None PROVE \E i \in DOMAIN list' : list'[i] = e
    <3>1. CASE e = op.ev
      BY <2>2, <3>1
    <3>2. CASE e # op.ev
      <4>1. owner[e] # None
        BY <2>1, <2>3
      <4>2. PICK i \in DOMAIN list : list[i] = e
        BY <1>1, <3>2, <4>1
      <4> QED BY <2>2, <4>2
    <3> QED BY <3>1, <3>2
  <2>4. ASSUME Idle \in open' PROVE \E i \in DOMAIN list' : owner'[list'[i]] = Idle
    <3>1. Idle \in open /\ owner' = owner
      BY <2>1, <2>4
    <3>2. PICK i \in DOMAIN list : owner[list[i]] = Idle
      BY <1>1, <3>1
    <3>3. i + 1 \in DOMAIN list' /\ list'[i + 1] = list[i]
      BY <2>2
    <3> QED BY <3>1, <3>2, <3>3
  <2> QED BY <1>2, <2>1, <2>3, <2>4 DEF CleanInv, NoOp
<1>8. CASE Unregister
  <2>1. op' = [op EXCEPT !.name = "free"] /\ UNCHANGED <<list, owner, open, lpc>> /\ op # NoOp
    BY <1>0, <1>8 DEF Unregister
  <2>2. op'.ev = op.ev /\ op' # NoOp
    BY <2>1 DEF EpInv, TypeOK, NoOp
  <2> QED BY <1>1, <2>1, <2>2 DEF CleanInv
<1>9. CASE FreeEvent
  <2>1. /\ owner' = [owner EXCEPT ![op.ev] = None] /\ op' = NoOp /\ op # NoOp /\ op.ev \in Events
        /\ UNCHANGED <<list, open, lpc>>
    BY <1>0, <1>9 DEF FreeEvent
  <2>2. \A e \in Events : owner'[e] = IF e = op.ev THEN None ELSE owner[e]
    BY <1>0, <2>1
  <2> QED BY <1>1, <1>e, <2>1, <2>2 DEF CleanInv
<1>10. ASSUME NEW f \in Fds, wm_epoll_add(f) PROVE CleanInv'
  <2>1. CASE UNCHANGED <<owner, op>>
    BY <1>3, <1>10, <2>1 DEF wm_epoll_add
  <2>2. ASSUME NEW e \in Free, owner' = [owner EXCEPT ![e] = f],
               op' = [name |-> "add", ev |-> e]
        PROVE  CleanInv'
    <3>1. /\ e \in Events /\ owner[e] = None /\ f # Idle
          /\ op = NoOp /\ UNCHANGED <<list, open, lpc>>
      BY <1>10 DEF Free, wm_epoll_add, Request
    <3>2. \A d \in Events : owner'[d] = IF d = e THEN f ELSE owner[d]
      BY <1>0, <2>2
    <3>3. op'.ev = e /\ op' # NoOp
      BY <2>2 DEF NoOp
    <3>4. Idle # None /\ \A i \in DOMAIN list : owner[list[i]] = Idle => list[i] # e
      BY <3>1
    <3> QED BY <1>1, <1>e, <3>1, <3>2, <3>3, <3>4 DEF CleanInv
  <2> QED BY <1>10, <2>1, <2>2 DEF wm_epoll_add
<1>11. ASSUME NEW f \in Fds, wm_epoll_remove(f) PROVE CleanInv'
  <2>1. CASE Found(f) = {}
    BY <1>3, <1>11, <2>1 DEF wm_epoll_remove
  <2>2. CASE Found(f) # {}
    <3>1. PICK d \in Found(f) : list_del(d) /\ op' = [name |-> "unregister", ev |-> list[d]]
      BY <1>11, <2>2 DEF wm_epoll_remove
    <3>2. /\ d \in DOMAIN list /\ owner[list[d]] = f /\ f # Idle /\ list # <<>>
          /\ op = NoOp /\ UNCHANGED <<owner, open, lpc>>
      BY <1>0, <1>11 DEF Found, wm_epoll_remove, Request
    <3> DEFINE new(i) == IF i < d THEN i ELSE i - 1
    <3>3. \A i \in DOMAIN list : i # d => new(i) \in DOMAIN list' /\ list'[new(i)] = list[i]
      BY <1>0, <3>1, <3>2 DEF list_del
    <3> HIDE DEF new
    <3>4. op'.ev = list[d] /\ op' # NoOp
      BY <3>1 DEF NoOp
    <3>5. ASSUME NEW e \in Events, owner[e] # None, e # list[d]
          PROVE  \E i \in DOMAIN list' : list'[i] = e
      BY <1>1, <3>2, <3>3, <3>5
    <3>6. Idle \in open => \E i \in DOMAIN list' : owner[list'[i]] = Idle
      BY <1>1, <3>2, <3>3
    <3> QED BY <1>1, <3>2, <3>4, <3>5, <3>6 DEF CleanInv
  <2> QED BY <2>1, <2>2
<1>12. ASSUME NEW f \in Fds, wm_epoll_modify(f) \/ Open(f) \/ Close(f) PROVE CleanInv'
  <2>1. UNCHANGED <<list, owner, op, lpc>> /\ (Idle \in open' => Idle \in open)
    BY <1>12 DEF wm_epoll_modify, Open, Close
  <2> QED BY <1>1, <2>1 DEF CleanInv
<1>13. CASE wm_epoll_start \/ Joined
  BY <1>3, <1>13 DEF wm_epoll_start, Joined
<1>14. CASE UNCHANGED <<list, owner, open, op>> /\ lpc' \notin {"off", "create", "done"}
  BY <1>3, <1>14
<1>15. CASE UNCHANGED <<list, owner, open, op, lpc>>
  BY <1>3, <1>15
<1> QED
  BY <1>4, <1>5, <1>6, <1>7, <1>8, <1>9, <1>10, <1>11, <1>12, <1>13, <1>14, <1>15
  DEF Next, Loop, Main, Client, vars, wm_epoll_stop, StopInside, Started, ep_signal, Top,
      wm_epoll_wait, CallEvent, CallbackReturns, BatchDone

LEMMA HandshakeStep == HandshakeInv /\ [Next]_vars => HandshakeInv'
<1> SUFFICES ASSUME HandshakeInv, [Next]_vars PROVE HandshakeInv'
  OBVIOUS
<1> USE DEF programVars, insVars, loopVars, eventVars, clientVars, Self, Running
<1>0. UNCHANGED <<policy, fault>>
  BY DEF Next, Loop, Main, Client, vars, wm_epoll_start, wm_epoll_stop, StopInside,
         ep_create, ep_signal, Started, Joined, Top, wm_epoll_wait, CallEvent, CallbackReturns,
         BatchDone, Destroy, Destroyed, Link, Unregister, FreeEvent, wm_epoll_add,
         wm_epoll_modify, wm_epoll_remove, Open, Close
<1> USE <1>0 DEF HandshakeInv, NobodyWaitsInVain
<1>1. CASE wm_epoll_start
  BY <1>1 DEF wm_epoll_start
<1>2. CASE wm_epoll_stop \/ StopInside
  BY <1>2 DEF wm_epoll_stop, StopInside
<1>3. CASE Started \/ Joined
  BY <1>3 DEF Started, Joined
<1>4. CASE ep_create \/ ep_signal
  BY <1>4 DEF ep_create, ep_signal
<1>5. CASE Top \/ wm_epoll_wait
  BY <1>5 DEF Top, wm_epoll_wait
<1>6. CASE CallEvent \/ CallbackReturns \/ BatchDone
  BY <1>6 DEF CallEvent, CallbackReturns, BatchDone
<1>7. CASE Destroy \/ Destroyed
  BY <1>7 DEF Destroy, Destroyed
<1>8. CASE UNCHANGED <<insVars, loopVars>>
  BY <1>8
<1> QED
  BY <1>1, <1>2, <1>3, <1>4, <1>5, <1>6, <1>7, <1>8
  DEF Next, Loop, Main, Client, vars, Link, Unregister, FreeEvent, wm_epoll_add,
      wm_epoll_modify, wm_epoll_remove, Open, Close

LEMMA Invariance == Spec => [](EpInv /\ ListInv /\ BatchInv /\ LifeInv /\ CleanInv)
<1> DEFINE Inv == EpInv /\ ListInv /\ BatchInv /\ LifeInv /\ CleanInv
<1>1. ASSUME Init PROVE Inv
  <2>1. EpInv /\ ListInv /\ BatchInv
    BY <1>1, EpInit DEF Init, ListInv, ListedIsOpen, BatchInv, BatchIsCurrent, NoOp
  <2>2. LifeInv /\ CleanInv
    BY <1>1 DEF Init, LifeInv, CleanInv, Running, Self, NoOp
  <2> QED BY <2>1, <2>2
<1>2. Inv /\ [Next]_vars => Inv'
  BY EpStep, ListStep, BatchStep, LifeStep, CleanStep
<1> QED BY <1>1, <1>2, PTL DEF Spec, SafetySpec

\* An event pointer that epoll_wait() can return is never one of a freed event,
\* whatever the client and the callbacks do (wm_epoll.c).
THEOREM KernelPointsToEvents == Spec => []KernelEntryAlive
<1>1. EpInv => KernelEntryAlive
  BY DEF EpInv, FreeInv
<1> QED BY <1>1, Invariance, PTL

\* A client that removes events before it closes their descriptors has only open,
\* registered and distinct descriptors in the list (wm_epoll.c).
THEOREM ListHasOpenDescriptors == Spec => []ListedIsOpen
<1>1. ListInv => ListedIsOpen
  BY DEF ListInv, ListedIsOpen
<1> QED BY <1>1, Invariance, PTL

\* If callbacks remove no event but their own, each callback of a batch is that of
\* the descriptor that was ready (wm_epoll.c).
THEOREM BatchStaysCurrent == Spec => []BatchIsCurrent
<1>1. BatchInv => BatchIsCurrent
  BY DEF BatchInv, BatchIsCurrent
<1> QED BY <1>1, Invariance, PTL

\* When the loop has ended all its events are freed and the timer is closed, however
\* often it was started and stopped before, unless it was stopped from a callback or
\* there never was a list (wm_epoll.c).
THEOREM StoppedLoopLeavesNothing == Spec => []StopCleansUp
<1>1. ASSUME EpInv, LifeInv, CleanInv PROVE StopCleansUp
  <2> SUFFICES ASSUME IF Self THEN lpc = "done" ELSE mpc = "off" /\ lpc = "off",
                      policy # "inside", fault # "epoll"
               PROVE  Free = Events /\ Idle \notin open
    BY DEF StopCleansUp
  <2>1. list = <<>> /\ op = NoOp
    BY <1>1 DEF CleanInv, EpInv, PhaseInv
  <2> QED BY <1>1, <2>1 DEF CleanInv, Free
<1> QED BY <1>1, Invariance, PTL

\* Neither wm_epoll_start() nor wm_epoll_stop() waits for a thread that has nothing
\* more to do for it: what StartStopReturn needs of every state, its liveness being
\* the fairness of the loop (wm_epoll.c).
THEOREM HandshakesAreKept == Spec => []NobodyWaitsInVain
<1>1. Init => HandshakeInv
  BY DEF Init, HandshakeInv, NobodyWaitsInVain, Running, Self
<1>2. HandshakeInv => NobodyWaitsInVain
  BY DEF HandshakeInv
<1> QED BY <1>1, <1>2, HandshakeStep, PTL DEF Spec, SafetySpec

==============================================================================
