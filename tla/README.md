# Formal models of wkc01

TLA+ modules, TLC runs and TLAPS proofs for the C/C++ library in `src/project`:
threads with a registry, message-loop threads on POSIX message queues, the queue
wrapper itself, observables, the events, semaphores and blocking queues built on
condition variables, the epoll loop, the fifo and the list that threads share.
Paths below are relative to `src/project`.

## 1. Inventory

| Part | Source | State it keeps | Operations |
|---|---|---|---|
| Thread objects | `basic/ThreadObj.*` | `m_thread`, `m_stopRequested`, static `gList` + `gListMtx` | StartThread, StopThread(wait or detach), destructor, StopAllThreads, the worker lambda |
| Message-loop thread | `basic/ThreadWithMsgQueue.*` | a `MsgQueue`, `m_initialized`, `m_mtx` | Init, SendMsg, StartThread, StopThread, destructor, LoopReadMsg |
| Message queue | `basic/MsgQueue.*` | `m_msgQueueFd`, name, counters; static `gMap` + `gMapMtx`, `gSendMsgCnt` | Open, Close, Unlink, Clear, Send, Receive, dumps |
| Messages | `basic/Mesg.*` | the heap buffer and object a message owns | CopyMsg, Free, SendMsg, ReceiveMsg |
| Observables | `basic/Observable*.*` | `m_list` + `m_mtx` | Add, Del, Clear, Count, IsHas, Notify |
| Events | `ipc/evt.*` | `state`; `s32Rd`, `s32Wr`; mutex and condition variable | create, destroy, signal, broadcast, reset, wait |
| Semaphore | `ipc/wm_sem.*` | `cnt`; mutex and condition variable | create, destroy, post, broadcast, wait, getvalue |
| Epoll loop | `ipc/wm_epoll.*` | event list, `gstIns` | create, destroy, add, modify, remove, wait, start, stop |
| Fifos | `utils/sfifo.*`, `utils/kfifo.hpp` | `in`, `out`, buffer | put, get, rest, peek |
| Thread-safe containers | `utils/list_r.hpp`, `utils/queue_r.hpp` | nodes with a mutex each; queue + condition variable | push, remove_if, for_each, find; push, pop |
| Utilities | `utils/utils.*` | crc table and `isFirst` | crc32, md5, string helpers |

How they interact. A `ThreadWithMsgQueue` *is a* `ThreadObj` and *has a*
`MsgQueue`; its worker holds `m_mtx` while it waits in `select()` on the queue's
descriptor. Senders call `MsgQueue::Send` with an object or a bare descriptor;
a message that is accepted takes its heap buffer along, and whoever reads it
frees it. `ThreadObj::StopAllThreads` walks the static registry and joins every
thread with the registry's mutex held. `ObservableQueue::Notify` sends copies of
a message to descriptors. `wm_epoll_start` waits for its thread with an event.

What is hard. Nothing in `ThreadObj` guards `m_thread`; an object is in the
registry before it has a thread; join and detach race with `StopAllThreads`;
destructors stop threads that still call virtual functions; descriptors are
reused by the kernel between `mq_close` and the erasure of the registry entry;
the stop message may be refused by a full queue; counters are incremented
without locks; condition-variable loops must survive spurious wakeups, timeouts
that race signals, and deadlines the library rejects; observers run with a mutex
held and may call back; the epoll thread walks pointers that callbacks free; a
walk of the list holds one node and waits for the next. `PROJECT.json` lists
each of these as a hazard at its line, with the properties that cover it.

What makes each part correct:

- *ThreadObj*: the registry lists exactly the objects with a thread; an object
  has one thread at a time; a stop request stands until it is obeyed; stopping
  returns; StopAllThreads leaves nobody running; nothing throws.
- *ThreadWithMsgQueue*: a thread that is being stopped wakes up; no thread ends
  because of a stop that was over before; a running object can be deleted unless a
  message is before its destructor's; it uses the base class as that expects.
- *MsgQueue*: a descriptor is its own object's; the registry has every open
  queue and no deleted one; every buffer has one owner and none is dropped.
- *evt, wm_sem, queue_r*: nothing is taken that was not posted, no sleeper is left
  behind with something to take, every broadcast reaches all sleepers, timed
  waits end.
- *Observable*: who is told is listed; calls return unless instances use each
  other in a cycle.
- *wm_epoll*: callbacks run for events that exist, the kernel holds no pointer to
  a freed one, a stop cleans up, start and stop return.
- *sfifo*: bytes leave in the order they came, none is overwritten before it is read.
- *list_r*: no node is used after it was deleted, a walk misses nothing, walks take
  effect one after the other, threads do not wait in a circle, calls return.

## 2. Modules

| Module | Models | Extends |
|---|---|---|
| `ThreadObj` | `basic/ThreadObj.{h,cpp}` | |
| `ThreadWithMsgQueue` | `basic/ThreadWithMsgQueue.{h,cpp}` and the queue as its worker sees it; implements `ThreadObj` | `ThreadObj` |
| `MsgQueue` | `basic/MsgQueue.{h,cpp}`, buffer ownership of `basic/Mesg.{h,cpp}` | |
| `Observable` | `basic/ObservableQueue.*`, `basic/ObservableFunction.*` | |
| `TimedWait` | mutex, condition variable and deadline that the next four share | |
| `WmSem`, `EvtMtx`, `EvtRw`, `QueueR` | `ipc/wm_sem.c`, the two events of `ipc/evt.c`, `utils/queue_r.hpp` | `TimedWait` |
| `CondVars` | the four of them as one specification | all four |
| `WmEpoll` | `ipc/wm_epoll.c`, `list_add`/`list_del` of `utils/list.h` | |
| `BoundedFifo` | what a fifo between two threads promises (abstract) | |
| `SFifo` | `utils/sfifo.{h,c}`; implements `BoundedFifo` | |
| `ListR` | `utils/list_r.hpp` | |
| `...Proofs` | theorems about the module of that name (section 4) | that module, `TLAPS` |
| `MC...` | values of the constants for TLC | the module of that name |

**ThreadObj.** `mThread[o]` is the OS thread that `m_thread` is joinable with,
`stopReq` is `m_stopRequested`, `gList` counts how often an object is in the
registry. A call is a sequence of steps of its caller (`pc`, `tgt`), cut where
another thread can see a difference: at the flag, at each acquisition of
`gListMtx`, at the creation, join or detach of the thread. `StopAllThreads`
holds `gListMtx` from its first to its last step. `life` becomes `"base"` when
the base destructor runs: a thread that only then enters `ThreadFunction()`
makes a pure virtual call. `fault` records how the program ended; a join or
detach of a thread that somebody else has joined throws `std::system_error`. The
constants say who the clients are: `Owner` (one thread starts, stops and
deletes an object), `Managers` (who calls `StopAllThreads`), `WaitModes`
(whether anybody detaches), `StopFirst` (whether running objects are deleted; a
`ThreadWithMsgQueue` may be at any time).
`ThreadFunction()` is arbitrary: it may set its own flag and return any time.

**ThreadWithMsgQueue** conjoins the steps of the derived class with the actions
of `ThreadObj`. `wat` is the worker's place between the flag, `m_mtx`,
`select()`, `mq_receive()` and the dispatch; `q` is the queue, `childAlive` is
false once `~ThreadWithMsgQueue` runs. `StopThread` and the destructor first put
a stop message (`PutStopMsg`), whether a thread runs or not, and then run the base
class's `StopThread`. History variables remember of the last of these messages that
the queue was full (`refused`), that no thread was left to read it (`unread`), and
that the destructor's came behind another message (`backlog`). The loop's
`Clear()` and `~MsgQueue` take one message per step (`ClearQueue`,
`DestroyDrain`), with senders in between; `Destroy` is the end of the destructor,
where the base finds nothing to stop. `Init()` may be called again at any time:
the queue is a new one, and a worker that sits in `select()` may still wait for the
old descriptor (`"old"`), whose message leaves `m_rfds` without the new one
(`rfds`). `select()` may also fail.

**MsgQueue** separates the object (`fd`, which the code never resets), the
kernel (`table` from descriptors to queues, `kq`) and the registry `gMap`.
`Close` and `DelMsgQueue` are two steps, the look-up, `mq_send` and the counter
updates of `Send` are six; a refused message is freed by `Send()` and, in a step of
its own, again by `Mesg::SendMsg()`, which finds the pointer cleared. `buf` says
where each heap buffer is. `Clear` takes one message per step. An object that is
opened again while it is open leaves its queue, nameless, behind the old descriptor.
`Receive` is one step: one reader reads a queue, and frees what it read. `polite` is
chosen once: polite clients do not send to a queue while its owner closes it, leave
closing to the destructor and open a queue once; the others do all of it, close
twice and reopen.

**Observable.** Both classes are a list of observers under `m_mtx`, held for the
whole of `Notify`. The observers of an `ObservableQueue` are descriptors, whose
queues may be full, may block, and may be closed by their owner at any time (`shut`;
`IsBlocking()` then looks at an attribute nobody has set, so `Add` takes the
descriptor or not); those of an `ObservableFunction` run in the notifying thread and
may make any call on the instance they use. A thread is therefore a stack of calls;
`todo` is whom its `Notify` has still to tell, in any order. What a call is called
with is chosen in the step that uses it, when it has the mutex.

**TimedWait, WmSem, EvtMtx, EvtRw, QueueR, CondVars.** A critical section that
does not block is one step. A waiter is asleep, woken, or past its deadline, and
looks at the state again exactly where the code's loop does. `DeadlineNsec` is
the deadline's `tv_nsec` with the comparison `> 1000000000` the code makes: a sum
of exactly 10^9 is refused by `pthread_cond_timedwait()` with `EINVAL`, at once
and without giving up the mutex, and the loops call it again (`spin`; `mutex`
then names the waiter). `Wrap` is the `int` of the semaphore's counter as the
unoptimised build computes it; `Num` and the sizes of batches are any `int`, as the
code does not look at them. `due` of `EvtRw` is who slept at a broadcast and has not
returned since. `CondVars` runs one of the four primitives at a
time (`kind`); they share waiters and the wait loop, not state.

**WmEpoll.** `list` and `owner` are the events and their `fd` members, `reg` is
the kernel's table with a pointer to an event for each descriptor, `batch` what
`epoll_wait` returned and is still to be called. Adding and removing an event
takes several steps (`op`), with the loop running in between; memory and
descriptors are reused. `policy` says who changes the events: the thread that
started the loop (as `demo/demoipc.c`), its callbacks, only their own event or
any, or as the first but with a callback that stops the loop. Only one thread
uses the list until it is destroyed. `fault` lets the creation of the thread or
of the epoll instance fail, which the code does not look at.

**SFifo.** The lock-free ring buffer. A put is the comparison in `min`, its
second evaluation when the free space is not greater than `len`, the two
`memcpy()` and the store of the index; a get likewise. Indices are numbers modulo
`Word`, a multiple of `Size`. `IsBoundedFifo` maps the bytes between the indices
to the queue of `BoundedFifo`. Both accesses of an index are single loads or
stores, and each step is seen by the other side at once, in order: this is exact for x86-64, where only a load may
overtake a store and no step relies on that not happening. On ARM `mb()` is an `isb`
(`sfifo.h:17`), which does not keep the copy out of the buffer before the store of
`out` (`sfifo.c:84`); the model does not cover it.
`sfifo_init` with a size that is not a power of two is outside the model
(`SFifoAssumption`), as `index & (size - 1)` then names no position.

**ListR.** `next`, `alive` and `lock` are the nodes, `Head` the member `head`. A
walk (`for_each`, `find_first_if`, `remove_if`, and the destructor, which removes
everything) takes the mutex of the next node before it gives up that of the
current one; the steps lie between any two of these. A deleted node may be
allocated again. `owed` and `seen` remember what a walk has still to come to and
what it has come to.

Most modules also have a few operators marked as mutants, which stand before an action
and change it the way a mistake in the code would. They are not part of any
specification; they show that each property can fail.

## 3. Runs

| Run | Checks | Bounds |
|---|---|---|
| `ThreadObjSole` | NoFault, RegistryExact, StopAllStopsAll, StopReturns | 1 caller that is also the manager, 3 objects, 3 OS threads, joins only |
| `ThreadObjManager` | AttachedWorkerIsHeld, StopRequestStands | 2 callers with an object each, one of them stops all threads too; detach and deletion of running objects; 3 OS threads |
| `QueueThreadLive` | StuckOnlyIfRefused, StopOnlyIfAsked, FailsOnlyWithBacklog, StopReturnsUnlessRefused, BackPressureEnds | 1 object, its owner and another sender, 2 OS threads, a queue of 3; stops of idle objects, deletion of running ones, `Init()` at any time |
| `QueueThreadBase` | UsesThreadObj (refinement) | 1 object, 2 callers, a manager that is not the owner, 2 OS threads, a queue of 2, detach, foreign stop messages, deletion of running objects, `Init()` at any time |
| `MsgQueueTwoOwners` | DescriptorIsOwn, RegistryNeverWrong, NoBufferLost, BufferHasOneOwner, CountsNotAhead | 2 queues of 2 owners, 2 descriptors, 2 buffers, queues of 1, 2 messages; polite clients and others |
| `ObservableCalls` | PendingIsListed, StuckOnlyInCycle, ObserversReturn | 2 threads, an instance for queues and two for functions that use each other's, a descriptor that blocks and one that does not, 4 calls from outside or closed queues |
| `CondVars` | CountNotNegative, StrandedOnlyIfMissed, OneWinner, NoLostEvent, ReadersCounted, BroadcastReachesAll, NobodyStranded, TimedWaitReturns | 4 waiters, 2 of them timed, deadlines of which one is refused, 2 posters with single posts and batches of -1, 0 and 2, a counter that begins at 1, `IntMax` 3 so that it wraps, 2 pollers, 3 queued elements |
| `EpollLoop` | BatchIsCurrent, KernelEntryAlive, ListedIsOpen, StopCleansUp, StartStopReturn | 2 descriptors and the timer, 3 events, batches of 2, 9 calls, all policies and faults |
| `SFifoPair` | InOrder, IsBoundedFifo (refinement) | buffer of 4, indices modulo 8, lengths 1, 3 and 5, bytes modulo 5 |
| `ListWalks` | NodesAreAlive, WalkMissesNothing, CallsReturn, WalkIsSettled | 2 threads, 3 nodes, 2 values, 5 calls |
| `QueueThreadStopAll`, `SFifoRequest` | what the sources say and the code does not do (below) | 1 object; as `SFifoPair` |

The bounds are enough for what the properties distinguish: three objects give a
traversal one object before and one behind the one it is joining; two workers
per object give a detached and a restarted one; a queue of three holds a message, a
stop message that is left over and a new one; two queues on two descriptors
swap descriptors when both are reopened, which is the smallest confusion there
is; one buffer fills a queue and the other is in a sender's hand; two
instances whose observers use each other are the shortest cycle that two
threads can close from its two ends; four waiters give one that is woken, one
that arrives, one that gives up and one that sleeps; two descriptors and a timer
in batches of two leave one event behind the one whose callback runs, and a free
event to be allocated in its place; a buffer of 4 with lengths of 1, 3 and 5 is
full, empty and wraps at every position; three nodes give a predecessor, a node
that is removed and one behind it, with two threads on neighbours. `Workers`,
`Bufs`, `MaxSends`, `MaxCalls`, `PostLimit`, `MaxQueued`, `Events` and `Nodes` bound
counters and allocations in the guards of the actions that raise them. Symmetry
is used in safety runs only, over OS threads, buffers and descriptors, which no
constant tells apart, and over the two owners of `MsgQueueTwoOwners`, each with its
queue. Invariants that serve only as strengthenings in the proofs, type
invariants among them, are not part of a run; TLC was used to find them, on the
instances of the table.

`CHECK_DEADLOCK FALSE` stands where the system may really stop: all objects are
deleted, the program has failed, the bounded calls are made, or a call keeps a
mutex for ever.

Fairness. Calls that have begun go on and OS threads that can run do (`WF` on
`Continue` of `ThreadObj`, `Observable` and `ListR`, on the worker's steps, on
`Loop`, `Main` and `Client` of `WmEpoll`, on `GoesOn` and `GivesUp` of `CondVars`);
nobody is obliged to call anything, to send, to read, to post, to signal or to
interrupt `select()`. A destructor, once begun, goes on.
`ThreadFunction()` must return once it can see the stop flag (`Fairness` of
`ThreadObj`), which `ThreadWithMsgQueue` does not assume but has to show with its
own loop. Callbacks of the epoll loop return, and its idle timer expires again and
again. A deadline is an instant and passes however often a waiter is woken before,
hence strong fairness of `DeadlinePasses`. Taking a mutex needs no strong fairness:
in `Observable` and `ListR` the calls from outside are bounded, so nobody is
overtaken for ever, and in `CondVars` a mutex that is not kept is free between any
two steps.

### What the violated runs show

| Run | Quoted | Behaviour |
|---|---|---|
| `QueueThreadStopAll` | `ThreadObj.h:82` | StopAllThreads sends no stop message and waits for ever, with `gListMtx`, for an idle message-loop thread |
| `SFifoRequest` | `sfifo.h:4` | a length is computed again after the peer moved, and exceeds the one asked for |

### Where properties stop holding

The configurations of the passing runs are as wide as the code allows. With
wider ones TLC finds, among others:

- `StopAllStopsAll` needs a manager that is the only user of the class. With a
  second owner, `StopAllThreads` can find an object between `AddThreadObj` and
  the assignment of `m_thread` (`ThreadObj.cpp:27-28`): it is skipped, erased
  from the registry, and its thread runs on.
- An object whose `ThreadFunction()` has returned by itself stays joinable, and
  `StartThread` refuses it as running (`ThreadObj.cpp:19`) until it is stopped.
- `StuckOnlyIfRefused` needs `StopThread(true)`. After `StopThread(false)` and a
  restart, the detached thread and the new one share the queue; the old one may
  read or clear the stop message meant for the new one
  (`ThreadWithMsgQueue.cpp:77`), whose join then never returns.
- A `ThreadWithMsgQueue` that is deleted while its thread runs, as the demos do it
  (`DemoThreadWithMsgQueue.cpp:96`, `DemoObservable.cpp:124`), dispatches what was
  queued before the destructor's stop message to the pure `ProcessMsg()`
  (`ThreadWithMsgQueue.h:39`). `FailsOnlyWithBacklog` says that this is the only
  failure, and that it needs such a message.
- `StopThread()` of an initialised object that is not running still sends its stop
  message (`ThreadWithMsgQueue.cpp:65-70`), which then ends the next start at once;
  so does one that comes when the thread has emptied its queue and is about to end.
  `StopOnlyIfAsked` says that nothing else ends a thread nobody is stopping.
- `Init()` while the thread runs opens a second queue and leaks the first
  descriptor (`MsgQueue.cpp:70`). A thread that sits in `select()` goes on waiting
  for the old queue; if that one still held a message, `m_rfds` is left without the
  new descriptor and the thread hears nothing any more (`MsgQueue.cpp:200-211`).
  `StopReturnsUnlessRefused` and `BackPressureEnds` except such an object (`Deaf`).
- A stop or a deletion takes as long as senders keep the queue from being empty:
  `Clear()` reads until `mq_receive()` fails (`MsgQueue.cpp:319-330`). Without
  senders that go on for ever, `StopReturnsUnlessRefused` shows that it returns; with
  them it shows that the loop ends.
- `NoBufferLost` needs senders that keep away from a queue that is being closed,
  and the registry may miss (never confuse) a queue: a second owner's
  `AddMsgQueue` between `mq_close` and `DelMsgQueue` is undone
  (`MsgQueue.cpp:117-118`), and its messages are not counted.
- `CountsNotAhead` is no equality: two senders lose an increment
  (`MsgQueue.cpp:180`).
- `ObserversReturn` excepts threads that wait for each other: an observer that
  uses its own instance, or two instances that notify each other
  (`ObservableFunction.cpp:77`). `StuckOnlyInCycle` says that nothing else does it.
- One flag serves all pollers of a broadcast event: each poll takes the signal from
  the others (`evt.c:256`), which `evt.h:20-23` does not say. No property covers
  this. A timed read that times out returns `ETIMEDOUT`, which `evt.h:26` does not
  list.
- A waiter of the semaphore can be stranded by a post that finds the counter
  above zero (`wm_sem.c:88`); `StrandedOnlyIfMissed` says that this is the only
  way. Deadlines of exactly 10^9 ns spin with the mutex held (`evt.c:126`,
  `evt.c:278`, `wm_sem.c:138`), and so `TimedWaitReturns` excepts a mutex that is
  kept. A batch of negative size (`wm_sem.c:98`) may leave the counter negative and
  then keeps the mutex, too.
- `BatchIsCurrent` needs callbacks that remove no event but their own, in a loop
  that only they change. A removed event is freed at once (`wm_epoll.c:188`), and
  the rest of the batch may point to it; `demo/demoipc.c`, which removes events
  from another thread than the loop's, can meet this.
- `StopCleansUp` excepts a `wm_epoll_stop()` from a callback (`wm_epoll.c:306`) and
  an epoll instance that was not created; `StartStopReturn` excepts a thread that
  was not created (`wm_epoll.c:295`), for which `wm_epoll_start()` waits for ever.

## 4. Proofs

Every theorem holds for all values of the constants that meet the assumption of
its module (`...Assumption`: sets that must be disjoint are, bounds are numbers)
and the further assumptions in the table.

| Theorem | Under | Says |
|---|---|---|
| `ThreadInvariant` | | `ThreadInv` |
| `HandlesAndRequests`, `WorkersAreHeld` | | `TypeOK`, `StopRequestStands`, `AttachedWorkerIsHeld` |
| `RegistryIsExact`, `StopAllStops` | `SoleManager` | `RegistryExact`, `StopAllStopsAll` |
| `CarefulClientsNeverFail` | `SoleManager`, `Careful` | `NoFault` |
| `QueueThreadIsAThreadObj` | `TRUE \in WaitModes` | `UsesThreadObj` |
| `QueueThreadsAreHeld` | `TRUE \in WaitModes` | `AttachedWorkerIsHeld`, `StopRequestStands` of message-loop threads |
| `QueueThreadsAreRegistered`, `StopAllStopsQueueThreads` | `TRUE \in WaitModes`, `SoleManager` | `RegistryExact`, `StopAllStopsAll` of message-loop threads |
| `PureCallOnlyWithBacklog` | `NeverDetach` | `PureCallNeedsBacklog`, running objects being deleted or not |
| `QueueThreadsFailOnlyWithBacklog` | `NeverDetach`, `SoleManager` | `FailsOnlyWithBacklog` |
| `StopMessagesAreAskedFor`, `JoinIsStuckOnlyIfRefused` | `OnlyOwnersStop`: `NeverDetach`, no manager, clients send no `MSG_ID_STOP_THREAD` of their own | `StopOnlyIfAsked`, `StuckOnlyIfRefused` |
| `TypeCorrect`, `BuffersHaveOneOwner` | | `TypeOK` of `MsgQueue`, `BufferHasOneOwner` |
| `DescriptorsAreOwn`, `RegistryIsRight`, `NoBufferIsLost`, `CountersAreNotAhead` | | `DescriptorIsOwn`, `RegistryNeverWrong`, `NoBufferLost`, `CountsNotAhead` |
| `ToldAreListed`, `StuckOnlyInACycle` | | `PendingIsListed`, `StuckOnlyInCycle` |
| `CountIsNotNegative`, `SleepersWereMissed` | | `CountNotNegative`, `StrandedOnlyIfMissed` |
| `EventHasOneWinner`, `EventIsNotLost` | | `OneWinner`, `NoLostEvent` |
| `ReadersAreCounted`, `BroadcastReachesAllReaders` | | `ReadersCounted`, `BroadcastReachesAll` |
| `NoReaderStranded` | | `NobodyStranded` |
| `MutexIsKeptByTwoDefects` | | `MutexIsGivenBack` |
| `MutexIsAlwaysFree` | no deadline on a whole second, `~BelowZero`: `PostLimit <= IntMax`, no negative `Num` or batch | the mutex is free between any two steps |
| `KernelPointsToEvents`, `ListHasOpenDescriptors`, `BatchStaysCurrent` | | `KernelEntryAlive`, `ListedIsOpen`, `BatchIsCurrent` |
| `StoppedLoopLeavesNothing` | | `StopCleansUp` |
| `HandshakesAreKept` | | `NobodyWaitsInVain` |
| `NodesStayAlive`, `WalksMissNothing` | | `NodesAreAlive`, `WalkMissesNothing` |
| `WalksAreSerial`, `NobodyOvertakes` | | `WalkIsSettled`; of two walks one is in front and stays there |
| `NoDeadlock` | `Threads` is finite | `NobodyWaitsInACircle` |
| `BytesStayInOrder`, `FifoIsBounded` | | `InOrder`, `IsBoundedFifo` |

The inductive invariants stand at the end of each module under "Inductive
strengthenings"; each proof that a step preserves one has a step per action.

**ThreadObj.** `AttachedWorkerIsHeld` and `StopRequestStands` are not inductive:
that a restarted object has no old thread depends on what its owner saw when it
looked at `m_thread`, and that a manager's join target is not restarted depends
on the owner being elsewhere. `ThreadInv` adds these: what callers inside a call
know (`CallInv`), that `m_thread` and the OS threads point at each other
(`WorkerInv`), who holds `gListMtx` (`ManagerInv`), whose flag is set
(`StopInv`).

The registry needs more than the code guarantees by itself. If the thread that
stops all threads is the only user of the class, as in the demos, or if nobody
stops all threads (`SoleManager`), `RegistryInv` is inductive relative to
`ThreadInv`: an object is listed once from `AddThreadObj` to `DelThreadObj`, and
a traversal has yet to visit every joinable object. `StopAllStops` follows: when
the traversal is over nothing is joinable, so what still runs is detached. The
assumption cannot be dropped (section 3). `CarefulInv` adds that nothing is
detached and no running object is deleted, and gives `NoFault`; each of the two
assumptions of `Careful` can be dropped only at the price of a dangling object or
a pure virtual call.

**ThreadWithMsgQueue.** The base class sees a caller that still puts its stop
message as idle (`BasePc`, `BaseTgt`), and every other step as its own. The proof
of the refinement needs only `FlagInv`, that such a caller is the owner of a
live object. The theorem carries the theorems about `ThreadObj` over to the
message-loop thread (`BaseIsReached`, `QueueThreadsAreHeld` and the three that
follow it): the mapped `pc` and `tgt` differ from its own only where a caller is
idle for the base class, of whom the properties ask no less there.

The others assume that nobody detaches (`NeverDetach`): a thread is then always its
object's (`AttachedInv`), which was initialised and whole when the thread was started
(`ReadyInv`). Nothing is assumed of when objects are stopped, deleted or initialised
again. `BacklogInv` is about a destructor: if no message was queued or in dispatch
when it put its stop message, the worker finds that message next, has it in hand, or is
past its last dispatch (`QuietServed`), so it meets no other one.
`StopMsgInv` follows every stop message: once a stopping owner has put it, it is in
the queue, in the worker's hand, or the worker is already past the loop or will look
at the flag before it blocks; and a message, or a flag, that no stopping owner
accounts for comes from a stop that found no reader (`unread`). This is inductive
if only owners stop threads (`OnlyOwnersStop`); other clients can steal or add the
message (section 3).

**MsgQueue.** `CallInv` (what a thread inside a call has looked up) and `BufInv`
(kernel queues, named or not, and senders share no buffer) hold for all clients. The others are
claims about polite clients and rest on `PoliteInv`: an open descriptor is its own
object's, an object on its way through `Close` has one owner at work, and the
entry that a sender looked up is still its queue's. `CountInv` needs a count:
each sender between reading and writing a counter has a message that is in the
total already and in no counter, so the counter that it writes cannot be ahead.

**CondVars.** `CvInv` joins an invariant per primitive. A sleeper of the semaphore
beside a positive counter owes it to a post that did not find it at zero (`SemInv`); the
event's state and its sleepers exclude each other (`EvtInv`); `s32Rd` is the
cardinality of the set of waiting readers, so a broadcast skips none of them
whatever `s32Wr` is (`RwInv`); queued elements are at most
the woken readers while somebody sleeps (`QrInv`).

`TimedWaitReturns` excepts a mutex that is kept for ever; `MutexIsGivenBack` says
who keeps one. `DeadlineIsNsec` compares the code's carry with the range
`pthread_cond_timedwait()` accepts: the sum of `tv_nsec` and the milliseconds'
rest is below two seconds, so that `>` misses exactly the sum of 10^9. A waiter
therefore asks again with the mutex in hand only for a deadline on a whole second
(`wm_sem.c:138`, `evt.c:126`, `evt.c:278`), and a post returns without giving the
mutex back only when it left the counter negative (`wm_sem.c:93`, `wm_sem.c:109`), for
which it takes more than `IntMax` posts, a negative batch, or a counter created below
zero. Without the two, every critical section ends
(`MutexIsAlwaysFree`).

**Observable.** `LockInv`: a frame that holds a mutex is the only one that does,
what it has to tell is listed, and it calls the next frame because an observer in
its list uses that instance. A set of threads that wait for each other's mutexes
then gives a set of instances that use each other, namely those the threads hold
or wait for between the frame that blocks another and their own top.

**WmEpoll.** `PhaseInv` says where the threads may be while the client is in a
call, `FreeInv` that nothing registers an event that is being freed, `ListInv`
that events on their way into or out of the list are in the kernel or not
accordingly, `BatchInv` that a batch names each descriptor once and that a
callback touches only the event it was called for. For `StopCleansUp`, `LifeInv`
follows the loop from `wm_epoll_start` to the join: who destroys the list has the
handle, and only `wm_epoll_stop` sends the loop there. `CleanInv` accounts for the
memory: an event that is allocated is in the list or in the client's hand, and
the timer is in the list while it is open. `HandshakeInv` holds in all programs and
with all faults: a `wm_epoll_start` that waits has a thread on its way to the
signal, a `wm_epoll_stop` that joins has cleared `gstIns.loop` before.

**ListR.** `LinkInv`: every node has one predecessor and, in any set of nodes, one
is not next to another of the set -- the list has no cycle, without speaking of
paths. `HandInv`: what is detached belongs to one thread, what is worked on is
locked. `WalkInv`: the nodes a walk owes are exactly those that lie behind its
place; they are closed under `next`, and each has its predecessor among them.

Hand-over-hand locking makes walks serializable (`WalkIsSettled`), and the proof
follows the reason. A locked cell is one a walk works on or has come to (`LockInv`),
so a walk passes no other: of two walks, one has its place in what the other still
owes, and then owes only what the other owes, too (`OrderInv`). What is in front of
the walk in front can be removed by it alone, and it has decided on each element by
the time it leaves it behind (`ChoiceInv`): so the elements that a walk will come to,
namely those it owes without those that a walk in front is going to remove, change
only when it visits one. Neither a push, which comes in behind every walk, nor a
walk that begins later touches them. A circle of waiting threads (`NobodyWaitsInACircle`)
would be a set of walks each of which waits for one in front of it, and the places
of these would be a finite set of nodes without a last one.

**SFifo.** The module starts with the remainders: going on from an index, at most
once around the buffer, and wrapping at a multiple of its size (`GoOn`, `Around`),
which is all that `index & (size - 1)` relies on; that `Size` is a power of two
serves only that. `SpaceInv` says that the cells between the indices hold the
stream from `getNo` on, `WriterInv` that a put is no longer than the free space,
even if its length was computed again, and what of it is stored, `ReaderInv` the
same of a get. A put writes to no cell in use (`Apart`), so the two sides do not
disturb each other. For the refinement, the bytes inside are the stream from
`getNo` on at every moment (`QueueIs`): `in += len` appends to it, `out += len`
drops its beginning, no other step moves an index.

Only model-checked: all liveness (`StopReturns`, `StopReturnsUnlessRefused`,
`BackPressureEnds`, `TimedWaitReturns`, `ObserversReturn`, `StartStopReturn`,
`CallsReturn`), which is out of the prover's reach. What most of them rest on in each
state is proved: whom a join waits for has its stop request (`StopRequestStands`) or
its stop message unless that was refused (`StuckOnlyIfRefused`), a mutex is given back
(`MutexIsGivenBack`), threads do not wait in a circle (`NobodyWaitsInACircle`,
`StuckOnlyInCycle`), and nobody waits for a thread that has no more to do
(`NobodyWaitsInVain`). `MutexIsGivenBack`, `NobodyWaitsInACircle` and
`NobodyWaitsInVain` are stated as theorems only and are in no configuration; TLC finds
no violation of them with the constants of `CondVars`, `ListWalks` and `EpollLoop`.

## 5. Not modelled

- Third-party code (`3rd/`: sqlite, libco, md5, electric-fence), about nine
  tenths of the repository's lines. No library of the repository's own depends
  on how it behaves, except a wrapper of md5.
- `utils/kfifo.hpp`, a copied header that nothing includes; `utils/list.h` beyond
  the two operations the epoll loop uses.
- `utils/utils.*`, `utils/exception.hpp`: hashing, dates, strings. `crc32()` has a
  race on its table (`utils.cpp:60`) but one caller.
- Names, error codes, logging, `ThreadWithStates.h`: no state of their own. The
  demos are clients and determine which uses the runs assume.
- `MsgObj` and the copies in `basic/Mesg.*`: whether `CopyMsg` can allocate.
- Creating and destroying events and semaphores: creation by the state it leaves;
  a waiter that is late for a destroy is a hazard without a property.
- In `wm_epoll.c` the exit callbacks and the helpers that open timers, signals and
  queues, which only create descriptors.
- In `MsgQueue` queues opened without `O_NONBLOCK`, a failing `mq_open`,
  statistics that only the dumps print. In `ThreadObj` a failing thread creation,
  which ends the program. In `Observable` call-back ids and a counter that nothing
  reads. In `SFifo` its `free`.
