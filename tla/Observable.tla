----------------------------- MODULE Observable -----------------------------
(* ObservableQueue and ObservableFunction of src/project/basic: lists of     *)
(* observers that Notify() walks with the mutex m_mtx of the instance held.  *)
(*                                                                           *)
(* The observers of an ObservableQueue are the descriptors of message        *)
(* queues, those of an ObservableFunction are functions, which run in the    *)
(* thread that notifies and may use an instance themselves.  Of a message    *)
(* only its id matters, and whether its data pointer has a size; call-back   *)
(* ids and the counter gExecuteCnt, which nothing reads, are left out.       *)
EXTENDS Naturals, Sequences

CONSTANTS
    Threads,
    ObsQ,       \* the instances of ObservableQueue
    ObsF,       \* the instances of ObservableFunction
    Fds,        \* message queue descriptors
    Blocking,   \* those that were opened without O_NONBLOCK
    Funs,       \* functions,
    Uses,       \* ... and the instance each of them uses, or None
    MsgIds,     \* ids of messages; an observer may also ask for 0, that is all
    QSize,      \* messages a queue holds
    MaxCalls,   \* bound: calls made from outside, and queues closed, in a behaviour
    None

ASSUME ObservableAssumption ==
    /\ ObsQ \cap ObsF = {} /\ Fds \cap Funs = {} /\ Blocking \subseteq Fds
    /\ 0 \notin MsgIds /\ QSize \in Nat /\ MaxCalls \in Nat
    /\ None \notin Threads \cup ObsQ \cup ObsF
    /\ Uses \in [Funs -> ObsQ \cup ObsF \cup {None}]

VARIABLES
    m_list,     \* the observers of each instance; Add() lets none in twice, and
                \* the order in which they are told is left open
    m_mtx,      \* the thread that holds the mutex of each instance
    stack,      \* the calls each thread is in, the outermost first
    inbox,      \* the messages in each queue
    shut,       \* the descriptors that were closed (none is opened again)
    calls       \* calls made from outside, and queues closed

vars == <<m_list, m_mtx, stack, inbox, shut, calls>>

Observables == ObsQ \cup ObsF
Observers(o) == IF o \in ObsQ THEN Fds ELSE Funs
Elements == [to : Fds \cup Funs, id : MsgIds \cup {0}]

\* A call: Add(to, id), Del(to, id), Clear(), Count() -- IsHas() is like it -- or
\* Notify() of a message, with the observers that are still to be told.  What it
\* is called with is chosen when it is used, which is when the mutex is taken.
Calls(o) ==
    [o : {o}, name : {"Add", "Del", "Clear", "Count", "Notify"}, todo : {{}}, locked : {FALSE}]

Depth(t) == Len(stack[t])
Top(t) == stack[t][Depth(t)]
Waits(t, name) ==
    Depth(t) > 0 /\ Top(t).name = name /\ ~Top(t).locked /\ m_mtx[Top(t).o] = None
Replace(t, frame) == [stack[t] EXCEPT ![Depth(t)] = frame]
Pop(t) == stack' = [stack EXCEPT ![t] = SubSeq(@, 1, Depth(t) - 1)]

Init == /\ m_list = [o \in Observables |-> {}]
        /\ m_mtx = [o \in Observables |-> None]
        /\ stack = [t \in Threads |-> <<>>]
        /\ inbox = [d \in Fds |-> 0]
        /\ shut = {}
        /\ calls = 0

Call(t, c) ==
    /\ Depth(t) = 0 /\ calls < MaxCalls
    /\ stack' = [stack EXCEPT ![t] = <<c>>]
    /\ calls' = calls + 1
    /\ UNCHANGED <<m_list, m_mtx, inbox, shut>>

Wants(e, id) == e.id = 0 \/ e.id = id

\* What the top call of t may add or delete.
Named(t) == [to : Observers(Top(t).o), id : MsgIds \cup {0}]
Insert(t, e) == [m_list EXCEPT ![Top(t).o] = @ \cup {e}]
IsAsked(t, e) == \E x \in m_list[Top(t).o] : x.to = e.to /\ Wants(x, e.id)

\* Mutant: Add() that takes a blocking descriptor.
Add_AnyFd(t) ==
    /\ Waits(t, "Add")
    /\ \E e \in Named(t) : m_list' = IF IsAsked(t, e) THEN m_list ELSE Insert(t, e)
    /\ Pop(t)
    /\ UNCHANGED <<m_mtx, inbox, shut, calls>>

\* Add() is refused when the observer already asks for all messages or for this
\* id; an observer that asks for one id may still be added for all.  A closed
\* descriptor has no attributes: IsBlocking() goes by what is on its stack.
Add(t) ==
    /\ Waits(t, "Add")
    /\ \E e \in Named(t) :
           \/ m_list' = m_list /\ (e.to \in Blocking \cup shut \/ IsAsked(t, e))
           \/ m_list' = Insert(t, e) /\ e.to \notin Blocking \ shut /\ ~IsAsked(t, e)
    /\ Pop(t)
    /\ UNCHANGED <<m_mtx, inbox, shut, calls>>

Del(t) ==
    /\ Waits(t, "Del")
    /\ \E e \in Named(t) : m_list' = [m_list EXCEPT ![Top(t).o] = @ \ {e}]
    /\ Pop(t)
    /\ UNCHANGED <<m_mtx, inbox, shut, calls>>

Clear(t) ==
    /\ Waits(t, "Clear")
    /\ m_list' = [m_list EXCEPT ![Top(t).o] = {}]
    /\ Pop(t)
    /\ UNCHANGED <<m_mtx, inbox, shut, calls>>

Count(t) ==
    /\ Waits(t, "Count")
    /\ Pop(t)
    /\ UNCHANGED <<m_list, m_mtx, inbox, shut, calls>>

\* A message with a data pointer but no size is refused.
NotifyRefused(t) ==
    /\ Waits(t, "Notify")
    /\ Pop(t)
    /\ UNCHANGED <<m_list, m_mtx, inbox, shut, calls>>

Wanted(t, id) == {e \in m_list[Top(t).o] : Wants(e, id)}
BeginWalk(t) ==
    \E id \in MsgIds :
        stack' = [stack EXCEPT ![t] =
                      Replace(t, [Top(t) EXCEPT !.todo = Wanted(t, id), !.locked = TRUE])]

\* Mutant: Notify() works on a copy of the list, without the mutex.
Notify_Copy(t) ==
    /\ Waits(t, "Notify")
    /\ BeginWalk(t)
    /\ UNCHANGED <<m_list, m_mtx, inbox, shut, calls>>

Notify(t) ==
    /\ Waits(t, "Notify")
    /\ m_mtx' = [m_mtx EXCEPT ![Top(t).o] = t]
    /\ BeginWalk(t)
    /\ UNCHANGED <<m_list, inbox, shut, calls>>

Telling(t, e) == Depth(t) > 0 /\ Top(t).locked /\ e \in Top(t).todo
Told(t, e) == Replace(t, [Top(t) EXCEPT !.todo = @ \ {e}])

\* MsgQueue::Send(); a queue that is full or closed refuses the copy and Notify()
\* goes on, or the thread sleeps in mq_send().
TellQueue(t, e) ==
    /\ Telling(t, e) /\ Top(t).o \in ObsQ
    /\ e.to \in Blocking \ shut => inbox[e.to] < QSize
    /\ inbox' = IF e.to \notin shut /\ inbox[e.to] < QSize THEN [inbox EXCEPT ![e.to] = @ + 1]
                                                         ELSE inbox
    /\ stack' = [stack EXCEPT ![t] = Told(t, e)]
    /\ UNCHANGED <<m_list, m_mtx, shut, calls>>

\* The function runs in this thread, with the mutex held, and may make a call.
TellFunction(t, e) ==
    /\ Telling(t, e) /\ Top(t).o \in ObsF
    /\ \/ stack' = [stack EXCEPT ![t] = Told(t, e)]
       \/ /\ Uses[e.to] # None
          /\ \E c \in Calls(Uses[e.to]) : stack' = [stack EXCEPT ![t] = Append(Told(t, e), c)]
    /\ UNCHANGED <<m_list, m_mtx, inbox, shut, calls>>

\* Mutant: Notify() that keeps the mutex.
NotifyReturns_Locked(t) ==
    /\ Depth(t) > 0 /\ Top(t).locked /\ Top(t).todo = {}
    /\ Pop(t)
    /\ UNCHANGED <<m_list, m_mtx, inbox, shut, calls>>

NotifyReturns(t) ==
    /\ Depth(t) > 0 /\ Top(t).locked /\ Top(t).todo = {}
    /\ m_mtx' = [m_mtx EXCEPT ![Top(t).o] = None]
    /\ Pop(t)
    /\ UNCHANGED <<m_list, inbox, shut, calls>>

\* The owner of a queue reads a message.
Receive(d) ==
    /\ inbox[d] > 0 /\ d \notin shut
    /\ inbox' = [inbox EXCEPT ![d] = @ - 1]
    /\ UNCHANGED <<m_list, m_mtx, stack, shut, calls>>

\* The owner of a queue closes it, whoever has its descriptor; what is in it goes.
Close(d) ==
    /\ d \notin shut /\ calls < MaxCalls
    /\ shut' = shut \cup {d}
    /\ inbox' = [inbox EXCEPT ![d] = 0]
    /\ calls' = calls + 1
    /\ UNCHANGED <<m_list, m_mtx, stack>>

Continue(t) ==
    \/ Add(t) \/ Del(t) \/ Clear(t) \/ Count(t)
    \/ Notify(t) \/ NotifyRefused(t) \/ NotifyReturns(t)
    \/ \E e \in Elements : TellQueue(t, e) \/ TellFunction(t, e)

Next == \/ \E t \in Threads : Continue(t) \/ \E o \in Observables : \E c \in Calls(o) : Call(t, c)
        \/ \E d \in Fds : Receive(d) \/ Close(d)

SafetySpec == Init /\ [][Next]_vars

\* Threads that are in a call go on; nobody has to read a queue.
Spec == SafetySpec /\ \A t \in Threads : WF_vars(Continue(t))

-----------------------------------------------------------------------------

\* Each thread of S waits for the mutex of an instance that one of S holds.
Stuck(S) ==
    /\ S # {}
    /\ \A t \in S : Depth(t) > 0 /\ ~Top(t).locked /\ m_mtx[Top(t).o] \in S

\* Each instance of O has an observer that uses an instance of O.
Cycle(O) ==
    /\ O # {}
    /\ \A o \in O : o \in ObsF /\ \E e \in m_list[o] : Uses[e.to] \in O

\* Only observers that are still in the list are told: once Del() or Clear() has
\* returned, the queue or the function is not used any more, although Notify()
\* tells the observers one after the other and they may run for long.
PendingIsListed ==
    \A t \in Threads : \A k \in 1..Depth(t) : stack[t][k].todo \subseteq m_list[stack[t][k].o]

\* Notify() runs the observers with m_mtx held.  Threads wait for each other, or
\* one for itself, only if instances call each other in a cycle: an observer of an
\* instance that uses the same instance, or two that notify each other.
StuckOnlyInCycle ==
    (\E S \in SUBSET Threads : Stuck(S)) => \E O \in SUBSET Observables : Cycle(O)

\* Every call returns, whatever the observers do and however full their queues
\* are, unless threads are stuck in such a cycle.
ObserversReturn ==
    \A t \in Threads : Depth(t) > 0 ~> (Depth(t) = 0 \/ \E S \in SUBSET Threads : Stuck(S))

-----------------------------------------------------------------------------
(* Inductive strengthenings.                                                 *)

Frames == [o : Observables, name : {"Add", "Del", "Clear", "Count", "Notify"},
           todo : SUBSET Elements, locked : BOOLEAN]

TypeOK == /\ m_list \in [Observables -> SUBSET Elements]
          /\ \A o \in Observables : \A e \in m_list[o] : e.to \in Observers(o)
          /\ m_mtx \in [Observables -> Threads \cup {None}]
          /\ stack \in [Threads -> Seq(Frames)]
           /\ inbox \in [Fds -> Nat] /\ shut \in SUBSET Fds /\ calls \in Nat

\* Frame k of thread t has the mutex and is the only frame that has it, and tells
\* observers that are listed; if it is not the last frame, one of these uses the
\* instance of the next.
FrameInv(t, k) ==
    /\ stack[t][k].locked =>
           /\ m_mtx[stack[t][k].o] = t
           /\ \A j \in 1..Depth(t) :
                  stack[t][j].locked /\ stack[t][j].o = stack[t][k].o => j = k
    /\ stack[t][k].todo # {} =>
           stack[t][k].locked /\ stack[t][k].todo \subseteq m_list[stack[t][k].o]
    /\ k < Depth(t) =>
           /\ stack[t][k].locked /\ stack[t][k].o \in ObsF
           /\ \E e \in m_list[stack[t][k].o] : Uses[e.to] = stack[t][k + 1].o

LockInv ==
    /\ \A t \in Threads : \A k \in 1..Depth(t) : FrameInv(t, k)
    /\ \A o \in Observables : m_mtx[o] # None =>
           \E k \in 1..Depth(m_mtx[o]) : stack[m_mtx[o]][k].locked /\ stack[m_mtx[o]][k].o = o

=============================================================================
