------------------------------- MODULE WmEpoll -------------------------------
(* The epoll loop of src/project/ipc/wm_epoll.c: a list of events that is     *)
(* changed without a lock, the kernel's table with a pointer to each event,  *)
(* and the thread of wm_epoll_start(), which waits and runs the callbacks.   *)
(*                                                                           *)
(* Some programs start the thread and change the events from the thread that *)
(* started it, as demo/demoipc.c does; some poll a handle of their own.  In   *)
(* both only one thread, the client, touches the list until it is destroyed. *)
EXTENDS Naturals, Sequences

CONSTANTS
    Fds,        \* file descriptors of the client
    Idle,       \* the descriptor of the idle timer
    Events,     \* bound: events allocated at one time
    MaxBatch,   \* events that one epoll_wait() returns, 32 in the code
    MaxCalls,   \* bound: calls of the client
    None

ASSUME WmEpollAssumption ==
    Idle \notin Fds /\ None \notin Events \cup Fds \cup {Idle} /\ MaxBatch \in Nat /\ MaxCalls \in Nat

VARIABLES
    policy,     \* who changes the events: "main", the thread that started the
                \* loop; "own", a program that polls by itself and whose callbacks
                \* remove no event but their own; "any", one whose callbacks
                \* remove any; "inside", as "main", but a callback may stop the loop
    polite,     \* the client removes an event before it closes the descriptor
    fault,      \* what fails: "none", "thread" or "epoll" creation
    loop,       \* gstIns.loop
    handle,     \* gstIns.handle is set
    signalled,  \* state of the event of gstIns.evt_handle
    mpc,        \* where the thread that starts and stops the loop is
    lpc,        \* where the loop is
    list,       \* the list of events, from its head
    owner,      \* the fd member of each event, None when it is not allocated
    reg,        \* in the kernel: the event registered for each descriptor
    open,       \* the descriptors that are open
    batch,      \* what epoll_wait() returned and is not called yet
    called,     \* the descriptor whose callback runs
    op,         \* the call the client is in, and its event
    calls       \* calls the client has made

programVars == <<policy, polite, fault>>
insVars == <<loop, handle, signalled, mpc>>
loopVars == <<lpc, batch, called>>
eventVars == <<list, owner, reg, open>>
clientVars == <<op, calls>>
vars == <<programVars, insVars, loopVars, eventVars, clientVars>>

AllFds == Fds \cup {Idle}
Self == policy \in {"own", "any"}
NoOp == [name |-> "none", ev |-> None]
Free == {e \in Events : owner[e] = None}

Init == /\ policy \in {"main", "inside", "own", "any"}
        /\ polite \in BOOLEAN
        /\ fault \in IF Self THEN {"none"} ELSE {"none", "thread", "epoll"}
        /\ loop = Self /\ handle = Self /\ signalled = FALSE
        /\ mpc = "off"
        /\ lpc = IF Self THEN "top" ELSE "off"
        /\ list = <<>>
        /\ owner = [e \in Events |-> None]
        /\ reg = [f \in AllFds |-> None]
        /\ open = {}
        /\ batch = <<>> /\ called = None
        /\ op = NoOp /\ calls = 0

-----------------------------------------------------------------------------
\* The instance: wm_epoll_start(), ep_thread() and wm_epoll_stop().

\* pthread_create() may fail; nobody looks.
wm_epoll_start ==
    /\ ~Self /\ mpc = "off" /\ lpc = "off" /\ calls < MaxCalls
    /\ loop' = TRUE /\ signalled' = FALSE /\ mpc' = "starting"
    /\ lpc' = IF fault = "thread" THEN "off" ELSE "create"
    /\ calls' = calls + 1
    /\ UNCHANGED <<programVars, handle, batch, called, eventVars, op>>

\* The thread creates the list and registers the idle timer; if there is no list
\* it goes on.
ep_create ==
    /\ lpc = "create" /\ lpc' = "signal"
    /\ open' = open \cup {Idle}
    /\ IF fault = "epoll"
       THEN UNCHANGED <<handle, list, owner, reg>>
       ELSE \E e \in Free :
                /\ handle' = TRUE /\ list' = <<e>>
                /\ owner' = [owner EXCEPT ![e] = Idle]
                /\ reg' = [reg EXCEPT ![Idle] = e]
    /\ UNCHANGED <<programVars, loop, signalled, mpc, batch, called, clientVars>>

ep_signal ==
    /\ lpc = "signal" /\ lpc' = "top"
    /\ signalled' = TRUE
    /\ UNCHANGED <<programVars, loop, handle, mpc, batch, called, eventVars, clientVars>>

Started ==
    /\ mpc = "starting" /\ signalled
    /\ mpc' = "on"
    /\ UNCHANGED <<programVars, loop, handle, signalled, loopVars, eventVars, clientVars>>

\* Mutant: the flag is cleared after pthread_join().
wm_epoll_stop_KeepLoop ==
    /\ mpc = "on" /\ op = NoOp
    /\ mpc' = IF loop THEN "join" ELSE "off"
    /\ UNCHANGED <<programVars, loop, handle, signalled, loopVars, eventVars, clientVars>>

\* The timer, which expires every 3 s, is made to expire sooner.
wm_epoll_stop ==
    /\ mpc = "on" /\ op = NoOp
    /\ loop' = FALSE
    /\ mpc' = IF loop THEN "join" ELSE "off"
    /\ UNCHANGED <<programVars, handle, signalled, loopVars, eventVars, clientVars>>

Joined ==
    /\ mpc = "join" /\ lpc = "done"
    /\ mpc' = "off" /\ lpc' = "off" /\ handle' = FALSE
    /\ UNCHANGED <<programVars, loop, signalled, batch, called, eventVars, clientVars>>

\* wm_epoll_stop() in a callback: pthread_join() refuses to wait for the thread
\* itself, and gstIns is cleared while the loop still runs.
StopInside ==
    /\ policy = "inside" /\ loop /\ mpc = "on"
    /\ lpc = "callback" /\ called # Idle
    /\ loop' = FALSE /\ handle' = FALSE
    /\ UNCHANGED <<programVars, signalled, mpc, loopVars, eventVars, clientVars>>

-----------------------------------------------------------------------------
\* The loop.

Top ==
    /\ lpc = "top" /\ (Self => op = NoOp)
    /\ \/ lpc' = IF loop THEN "wait" ELSE "destroy"
       \/ Self /\ lpc' = "destroy"
    /\ UNCHANGED <<programVars, insVars, batch, called, eventVars, clientVars>>

Registered == {f \in AllFds : reg[f] # None}

\* epoll_wait() returns some of the descriptors, in any order.
wm_epoll_wait ==
    /\ lpc = "wait"
    /\ IF handle
       THEN \E n \in 1..MaxBatch : \E s \in [1..n -> Registered] :
                /\ \A i, j \in 1..n : s[i] = s[j] => i = j
                /\ batch' = [i \in 1..n |-> [ev |-> reg[s[i]], fd |-> s[i]]]
                /\ lpc' = "call"
       ELSE lpc' = "top" /\ batch' = batch
    /\ UNCHANGED <<programVars, insVars, called, eventVars, clientVars>>

\* The callback of the event a pointer leads to; what a freed event does is not
\* defined, and the model stops.
CallEvent ==
    /\ lpc = "call" /\ batch # <<>>
    /\ batch' = Tail(batch)
    /\ called' = owner[Head(batch).ev]
    /\ lpc' = IF called' = None THEN "undefined" ELSE "callback"
    /\ UNCHANGED <<programVars, insVars, eventVars, clientVars>>

CallbackReturns ==
    /\ lpc = "callback" /\ (Self => op = NoOp)
    /\ lpc' = "call" /\ called' = None
    /\ UNCHANGED <<programVars, insVars, batch, eventVars, clientVars>>

BatchDone ==
    /\ lpc = "call" /\ batch = <<>>
    /\ lpc' = "top"
    /\ UNCHANGED <<programVars, insVars, batch, called, eventVars, clientVars>>

\* Mutant: wm_epoll_destroy() that does not free the events.
Destroy_Keep ==
    /\ lpc = "destroy" /\ handle /\ list # <<>>
    /\ LET f == owner[Head(list)]
       IN  reg' = [reg EXCEPT ![f] = None] /\ open' = open \ {f}
    /\ list' = Tail(list)
    /\ UNCHANGED <<programVars, insVars, loopVars, owner, clientVars>>

\* wm_epoll_destroy() removes the events one by one and closes the descriptors.
Destroy ==
    /\ lpc = "destroy" /\ handle /\ list # <<>>
    /\ LET f == owner[Head(list)]
       IN  reg' = [reg EXCEPT ![f] = None] /\ open' = open \ {f}
    /\ owner' = [owner EXCEPT ![Head(list)] = None]
    /\ list' = Tail(list)
    /\ UNCHANGED <<programVars, insVars, loopVars, clientVars>>

\* Without a handle it does nothing.
Destroyed ==
    /\ lpc = "destroy" /\ (handle => list = <<>>)
    /\ lpc' = "done"
    /\ UNCHANGED <<programVars, insVars, batch, called, eventVars, clientVars>>

-----------------------------------------------------------------------------
\* The client.

\* The client makes a call: between two wm_epoll_wait() or in a callback, or in the
\* other thread.
Request ==
    /\ op = NoOp /\ calls < MaxCalls
    /\ IF Self THEN lpc \in {"top", "callback"} ELSE mpc = "on" /\ loop /\ handle
    /\ calls' = calls + 1

\* The client may end the use of descriptor f.
Mine(f) == policy = "own" /\ lpc = "callback" => f = called

list_add(e) == list' = <<e>> \o list
list_del(i) == list' = [j \in 1..(Len(list) - 1) |-> list[IF j < i THEN j ELSE j + 1]]

\* Mutant: the compare of the descriptors is forgotten.
Found_Any(f) == {i \in DOMAIN list : i = 1}

\* The place of the first event in the list with descriptor f, if there is one.
Found(f) ==
    {i \in DOMAIN list : owner[list[i]] = f /\ \A j \in 1..(i - 1) : owner[list[j]] # f}

\* Mutant: an event for a descriptor that is registered is put in the list.
wm_epoll_add_Again(f) ==
    /\ Request
    /\ IF f \notin open
       THEN UNCHANGED <<owner, reg, op>>
       ELSE \E e \in Free :
                /\ owner' = [owner EXCEPT ![e] = f]
                /\ reg' = IF reg[f] # None THEN reg ELSE [reg EXCEPT ![f] = e]
                /\ op' = [name |-> "add", ev |-> e]
    /\ UNCHANGED <<programVars, insVars, loopVars, list, open>>

\* EPOLL_CTL_ADD; the event is freed if that fails (the descriptor is closed, or
\* is registered already, which is no error).
wm_epoll_add(f) ==
    /\ Request
    /\ IF f \notin open \/ reg[f] # None
       THEN UNCHANGED <<owner, reg, op>>
       ELSE \E e \in Free :
                /\ owner' = [owner EXCEPT ![e] = f]
                /\ reg' = [reg EXCEPT ![f] = e]
                /\ op' = [name |-> "add", ev |-> e]
    /\ UNCHANGED <<programVars, insVars, loopVars, list, open>>

Link ==
    /\ op.name = "add"
    /\ list_add(op.ev)
    /\ op' = NoOp
    /\ UNCHANGED <<programVars, insVars, loopVars, owner, reg, open, calls>>

\* EPOLL_CTL_MOD also replaces the pointer.
wm_epoll_modify(f) ==
    /\ Request
    /\ reg' = [reg EXCEPT ![f] = IF @ = None \/ Found(f) = {} THEN @
                                 ELSE list[CHOOSE i \in Found(f) : TRUE]]
    /\ UNCHANGED <<programVars, insVars, loopVars, list, owner, open, op>>

wm_epoll_remove(f) ==
    /\ Request /\ Mine(f)
    /\ IF Found(f) = {} THEN UNCHANGED <<list, op>>
       ELSE \E i \in Found(f) :
                list_del(i) /\ op' = [name |-> "unregister", ev |-> list[i]]
    /\ UNCHANGED <<programVars, insVars, loopVars, owner, reg, open>>

\* Mutant: no EPOLL_CTL_DEL.
Unregister_Skip ==
    /\ op.name = "unregister"
    /\ op' = [op EXCEPT !.name = "free"]
    /\ UNCHANGED <<programVars, insVars, loopVars, eventVars, calls>>

\* EPOLL_CTL_DEL
Unregister ==
    /\ op.name = "unregister"
    /\ reg' = [reg EXCEPT ![owner[op.ev]] = None]
    /\ op' = [op EXCEPT !.name = "free"]
    /\ UNCHANGED <<programVars, insVars, loopVars, list, owner, open, calls>>

FreeEvent ==
    /\ op.name = "free"
    /\ owner' = [owner EXCEPT ![op.ev] = None]
    /\ op' = NoOp
    /\ UNCHANGED <<programVars, insVars, loopVars, list, reg, open, calls>>

\* The client opens a descriptor, or closes it; the kernel forgets it then.
Open(f) ==
    /\ Request /\ f \notin open
    /\ open' = open \cup {f}
    /\ UNCHANGED <<programVars, insVars, loopVars, list, owner, reg, op>>

Close(f) ==
    /\ Request /\ Mine(f) /\ f \in open
    /\ polite => Found(f) = {}
    /\ open' = open \ {f}
    /\ reg' = [reg EXCEPT ![f] = None]
    /\ UNCHANGED <<programVars, insVars, loopVars, list, owner, op>>

-----------------------------------------------------------------------------

Loop == \/ ep_create \/ ep_signal \/ Top \/ wm_epoll_wait
        \/ CallEvent \/ CallbackReturns \/ BatchDone \/ Destroy \/ Destroyed
Main == Started \/ Joined
Client == Link \/ Unregister \/ FreeEvent

Next == \/ wm_epoll_start \/ wm_epoll_stop \/ StopInside
        \/ Loop \/ Main \/ Client
        \/ \E f \in Fds : \/ wm_epoll_add(f) \/ wm_epoll_modify(f) \/ wm_epoll_remove(f)
                          \/ Open(f) \/ Close(f)

SafetySpec == Init /\ [][Next]_vars

\* The threads run, callbacks return, and the idle timer expires again and again.
Spec == SafetySpec /\ WF_vars(Loop) /\ WF_vars(Main) /\ WF_vars(Client)

-----------------------------------------------------------------------------

\* The descriptors that the rest of a batch was returned for are still those of the
\* events its pointers lead to, so that the callbacks run are those of descriptors
\* that are ready -- if callbacks remove no event but their own: an event is freed
\* at once, and its memory may already be another event.
BatchIsCurrent ==
    policy = "own" => \A i \in DOMAIN batch : owner[batch[i].ev] = batch[i].fd

\* The kernel never holds a pointer to an event that was freed, even when the client
\* closes descriptors whose events are in the list and adds them again.
KernelEntryAlive ==
    \A f \in AllFds : reg[f] # None => owner[reg[f]] = f

\* wm_epoll_destroy() closes each descriptor in the list once, and all of them are
\* open, if the client removes events before it closes their descriptors.
ListedIsOpen ==
    polite => \A i, j \in DOMAIN list :
                  /\ owner[list[i]] \in open /\ reg[owner[list[i]]] = list[i]
                  /\ owner[list[i]] = owner[list[j]] => i = j

\* When the loop has ended no event is left and the timer is closed, unless it was
\* stopped from a callback or there never was a list.
StopCleansUp ==
    /\ IF Self THEN lpc = "done" ELSE mpc = "off" /\ lpc = "off"
    /\ policy # "inside" /\ fault # "epoll"
    => Free = Events /\ Idle \notin open

\* wm_epoll_start() returns unless the thread could not be created, and
\* wm_epoll_stop() returns unless a callback of a freed event was called.
StartStopReturn ==
    /\ mpc = "starting" ~> (mpc = "on" \/ fault = "thread")
    /\ mpc = "join" ~> (mpc = "off" \/ lpc = "undefined")

-----------------------------------------------------------------------------
(* Inductive strengthenings.                                                 *)

TypeOK == /\ policy \in {"main", "inside", "own", "any"}
          /\ list \in Seq(Events)
          /\ owner \in [Events -> AllFds \cup {None}]
          /\ reg \in [AllFds -> Events \cup {None}]
          /\ batch \in Seq([ev : Events, fd : AllFds])
          /\ op \in [name : {"none", "add", "unregister", "free"}, ev : Events \cup {None}]
          /\ op.name = "none" <=> op = NoOp
          /\ op.name # "none" => op.ev \in Events

\* Where the threads may be while the client is in a call, and when the loop is
\* created and destroyed.
PhaseInv ==
    /\ lpc \in {"create", "signal"} => ~Self /\ mpc = "starting" /\ ~signalled
    /\ Self => mpc = "off"
    /\ op # NoOp => IF Self THEN lpc \in {"top", "callback"} ELSE mpc = "on"
    /\ mpc = "starting" => loop
    /\ ~Self /\ mpc = "on" /\ ~loop => ~handle
    /\ ~Self /\ lpc = "destroy" => ~loop
    /\ batch # <<>> => lpc \in {"call", "callback", "undefined"}

\* Nothing registers an event that is being freed.
FreeInv == /\ KernelEntryAlive
           /\ op.name = "free" => \A f \in AllFds : reg[f] # op.ev

\* Events that are removed or not yet in the list.
ListInv ==
    polite =>
        /\ ListedIsOpen
        /\ \A i \in DOMAIN list : owner[list[i]] \in AllFds
        /\ op # NoOp => \A i \in DOMAIN list : owner[list[i]] # owner[op.ev]
        /\ op # NoOp => owner[op.ev] \in AllFds
        /\ op.name = "add" => owner[op.ev] \in open /\ reg[owner[op.ev]] = op.ev

\* A batch has each descriptor once; a callback of an "own" program touches only
\* the event it was called for.
BatchInv ==
    policy = "own" =>
        /\ BatchIsCurrent
        /\ \A i, j \in DOMAIN batch : batch[i].fd = batch[j].fd => i = j
        /\ lpc = "callback" => \A i \in DOMAIN batch : batch[i].fd # called
        /\ lpc = "callback" /\ op.name \in {"unregister", "free"} => owner[op.ev] = called

\* When the list is destroyed, the handle tells so; a loop that somebody waits for to
\* start has one, and it is stopped only by wm_epoll_stop().
Running == {"top", "wait", "call", "callback", "undefined"}

LifeInv ==
    policy # "inside" /\ fault # "epoll" =>
        /\ mpc \in {"off", "starting", "on", "join"}
        /\ lpc \in Running \cup {"signal", "destroy", "done"} => handle
        /\ Self => lpc \in Running \cup {"destroy", "done"}
        /\ ~Self => /\ mpc = "off" => lpc = "off"
                    /\ mpc = "starting" => \/ lpc \in {"off", "create", "signal"} /\ ~signalled
                                           \/ lpc \in Running
                    /\ mpc = "on" => loop /\ lpc \in Running
                    /\ mpc = "join" => lpc \in Running \cup {"destroy", "done"}

\* Every event that is allocated is in the list or in the hands of the client, and the
\* timer is in the list as long as it is open.
CleanInv ==
    policy # "inside" /\ fault # "epoll" =>
        /\ lpc \in {"off", "create", "done"} => list = <<>>
        /\ \A e \in Events : owner[e] # None => \/ \E i \in DOMAIN list : list[i] = e
                                                \/ op # NoOp /\ op.ev = e
        /\ Idle \in open => \E i \in DOMAIN list : owner[list[i]] = Idle
        /\ op # NoOp => owner[op.ev] # Idle

\* The handshakes of wm_epoll_start() and wm_epoll_stop(): until the event of the first
\* is set its thread is on the way to set it, unless it could not be created, and a
\* loop that is to stop has been told so and is not away.
NobodyWaitsInVain ==
    /\ mpc = "starting" => fault = "thread" \/ signalled \/ lpc \in {"create", "signal"}
    /\ mpc = "join" => ~loop /\ lpc \in Running \cup {"destroy", "done"}

HandshakeInv ==
    /\ NobodyWaitsInVain
    /\ Self => mpc = "off"
    /\ ~Self => /\ mpc \in {"off", "starting", "on", "join"}
                /\ fault = "thread" => lpc = "off" /\ ~signalled
                /\ mpc = "starting" => loop /\ (signalled => lpc \in Running)
                /\ mpc = "on" /\ loop => lpc \in Running
                /\ lpc \in {"create", "signal"} => ~signalled
                /\ lpc \in {"destroy", "done"} => ~loop

==============================================================================
