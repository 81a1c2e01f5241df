--------------------------- MODULE CondVarsProofs ---------------------------
(* Theorems about the primitives of CondVars, for any number of waiters,     *)
(* signallers, batches and time-outs.                                        *)
EXTENDS CondVars, FiniteSetTheorems, TLAPS

WaitType == kind \in Kinds /\ wpc \in [Waiters -> WaitLabels]

\* The variables of the primitives that the threads do not use stay as they were.
Unused == /\ kind # "sem" => cnt = Num
          /\ kind # "evt" => state = 0 /\ won = 1
          /\ kind # "rw" => s32Rd = 0 /\ due = {}
          /\ kind # "queue" => data_queue = 0

\* What a step does to the waiters.
LEMMA SignalFacts ==
    ASSUME WaitType, Signal
    PROVE  /\ wpc' \in [Waiters -> WaitLabels]
           /\ Sleepers = {} => UNCHANGED wpc
           /\ Sleepers # {} => \E w \in Sleepers : wpc' = [wpc EXCEPT ![w] = "woken"]
BY DEF WaitType, Signal, Sleepers, WaitLabels

LEMMA BlockFacts ==
    ASSUME NEW w \in Waiters, WaitType, Block(w)
    PROVE  \/ wpc' = [wpc EXCEPT ![w] = "asleep"] /\ UNCHANGED mutex
           \/ wpc' = [wpc EXCEPT ![w] = "spin"] /\ mutex' = w
BY DEF Block

LEMMA DisturbFacts ==
    ASSUME NEW w \in Waiters, WaitType, Disturb(w)
    PROVE  /\ wpc[w] = "asleep" /\ UNCHANGED mutex
           /\ \/ wpc' = [wpc EXCEPT ![w] = "woken"]
              \/ wpc' = [wpc EXCEPT ![w] = "timedout"]
BY DEF Disturb, SpuriousWakeup, DeadlinePasses

LEMMA NoneIsNoWaiter == None \notin Waiters
BY TimedWaitAssumption

LEMMA TypeStep == WaitType /\ Unused /\ [Next]_vars => (WaitType /\ Unused)'
<1> SUFFICES ASSUME WaitType, Unused, [Next]_vars PROVE (WaitType /\ Unused)'
  OBVIOUS
<1> USE DEF WaitType, Unused, WaitLabels
<1>1. CASE Sem(SemNext)
  <2>1. UNCHANGED <<kind, evtVars, rwVars, data_queue>> /\ kind = "sem" /\ SemNext
    BY <1>1 DEF Sem
  <2>2. wpc' \in [Waiters -> WaitLabels]
    BY <2>1, SignalFacts, BlockFacts, DisturbFacts
    DEF SemNext, wm_sem_post, wm_sem_broadcast, Broadcast, wm_sem_wait, SemTake, SemWakeUp,
        SemTimedOut, Leave, BlockAgain
  <2> QED BY <2>1, <2>2 DEF evtVars, rwVars
<1>2. CASE Evt(EvtNext)
  <2>1. UNCHANGED <<kind, semVars, rwVars, data_queue>> /\ kind = "evt" /\ EvtNext
    BY <1>2 DEF Evt
  <2>2. wpc' \in [Waiters -> WaitLabels]
    BY <2>1, SignalFacts, BlockFacts, DisturbFacts
    DEF EvtNext, evt_mtx_signal, evt_mtx_wait, EvtTake, EvtWakeUp, EvtTimedOut, Leave, BlockAgain
  <2> QED BY <2>1, <2>2 DEF semVars, rwVars
<1>3. CASE Rw(RwNext)
  <2>1. UNCHANGED <<kind, semVars, evtVars, data_queue>> /\ kind = "rw" /\ RwNext
    BY <1>3 DEF Rw
  <2>2. wpc' \in [Waiters -> WaitLabels]
    BY <2>1, BlockFacts, DisturbFacts
    DEF RwNext, evt_wr_broadcast, Broadcast, evt_rd_reset, RwPoll, evt_rd_wait, RwWakeUp,
        RwTimedOut, RwReturn, Leave
  <2> QED BY <2>1, <2>2 DEF semVars, evtVars
<1>4. CASE Qr(QrNext)
  <2>1. UNCHANGED <<kind, semVars, evtVars, rwVars>> /\ kind = "queue" /\ QrNext
    BY <1>4 DEF Qr
  <2>2. wpc' \in [Waiters -> WaitLabels]
    BY <2>1, SignalFacts
    DEF QrNext, push, try_pop, wait_pop, QrWakeUp, QrTake, QrSleep, SpuriousWakeup, Leave,
        BlockAgain, waitVars
  <2> QED BY <2>1, <2>2 DEF semVars, evtVars, rwVars
<1>5. CASE UNCHANGED vars
  BY <1>5 DEF vars, waitVars, semVars, evtVars, rwVars
<1> QED BY <1>1, <1>2, <1>3, <1>4, <1>5 DEF Next

(* ------------------------- the semaphore -------------------------------- *)

\* Sleepers beside a positive counter: while it is 1 a woken waiter may be on
\* its way; above that a post has missed them.
SemInv == /\ cnt \in (-IntMax - 1)..IntMax
          /\ CountNotNegative
          /\ kind = "sem" /\ cnt > 0 /\ Sleepers # {} =>
                 missed \/ (cnt = 1 /\ \E w \in Waiters : wpc[w] = "woken")

\* A sum of two ints wraps to an int; a small one is what it is.
LEMMA WrapFacts ==
    ASSUME NEW a \in (-IntMax - 1)..IntMax, NEW b \in (-IntMax - 1)..IntMax
    PROVE  /\ Wrap(a + b) \in (-IntMax - 1)..IntMax
           /\ a = 0 => Wrap(a + b) = b
BY WmSemAssumption DEF Wrap

LEMMA SemStep ==
    ASSUME WaitType, SemInv, kind = "sem", UNCHANGED kind, SemNext
    PROVE  SemInv'
<1> USE WmSemAssumption DEF WaitType, WaitLabels, Sleepers, semVars
<1>0. /\ cnt \in (-IntMax - 1)..IntMax /\ cnt \in Int
      /\ mutex = None => cnt >= 0 \/ cnt = Num
  BY DEF SemInv, CountNotNegative
<1>1. ASSUME NEW p \in Posters, NEW n \in (-IntMax - 1)..IntMax, mutex = None, AddToCount(p, n),
             \/ cnt = 0 /\ wpc' = [w \in Waiters |-> IF wpc[w] = "asleep" THEN "woken" ELSE wpc[w]]
             \/ cnt = 0 /\ n = 1 /\ Signal
             \/ cnt # 0 /\ UNCHANGED wpc
      PROVE  SemInv'
  <2>1. /\ cnt' \in (-IntMax - 1)..IntMax /\ (mutex' = None => cnt' >= 0)
        /\ missed' = (cnt # 0 /\ Sleepers # {})
        /\ (cnt = 0 /\ n = 1 => cnt' = 1)
    <3> DEFINE sum == Wrap(cnt + n)
    <3>1. sum \in (-IntMax - 1)..IntMax /\ (cnt = 0 => sum = n)
      BY <1>0, <1>1, WrapFacts, Zenon
    <3>4. sum \in Int /\ (sum < 0 \/ sum >= 0)
      <4> HIDE DEF sum
      <4> QED BY <3>1
    <3>2. cnt' = sum /\ mutex' = (IF sum < 0 THEN p ELSE None) /\ missed' = (cnt # 0 /\ Sleepers # {})
      BY <1>1, Zenon DEF AddToCount
    <3>3. p # None
      OBVIOUS
    <3> HIDE DEF sum
    <3> QED BY <1>1, <3>1, <3>2, <3>3, <3>4
  <2>2. CASE cnt = 0 /\ wpc' = [w \in Waiters |-> IF wpc[w] = "asleep" THEN "woken" ELSE wpc[w]]
    BY <2>1, <2>2 DEF SemInv, CountNotNegative
  <2>3. CASE cnt = 0 /\ n = 1 /\ Signal
    BY <2>1, <2>3, SignalFacts DEF SemInv, CountNotNegative
  <2>4. CASE cnt # 0 /\ UNCHANGED wpc
    <3>2. Sleepers' # {} => missed'
      BY <2>1, <2>4, Zenon
    <3> QED BY <2>1, <3>2, Zenon DEF SemInv, CountNotNegative
  <2> QED BY <1>1, <2>2, <2>3, <2>4
<1>2. ASSUME NEW p \in Posters, wm_sem_post(p) PROVE SemInv'
  <2>1. 1 \in (-IntMax - 1)..IntMax /\ mutex = None /\ AddToCount(p, 1)
    BY <1>2 DEF wm_sem_post
  <2> QED BY <1>1, <1>2, <2>1 DEF wm_sem_post
<1>3. ASSUME NEW p \in Posters, NEW n \in Batches, wm_sem_broadcast(p, n) PROVE SemInv'
  <2>1. n \in (-IntMax - 1)..IntMax /\ mutex = None /\ AddToCount(p, n)
    BY <1>3 DEF wm_sem_broadcast
  <2> QED BY <1>1, <1>3, <2>1 DEF wm_sem_broadcast, Broadcast
<1>4. ASSUME NEW w \in Waiters, mutex = None, wpc[w] # "asleep", SemTake(w) PROVE SemInv'
  BY <1>0, <1>4 DEF SemTake, Leave, SemInv, CountNotNegative
<1>5. ASSUME NEW w \in Waiters, wm_sem_wait(w) \/ SemWakeUp(w) \/ SemTimedOut(w) PROVE SemInv'
  <2>1. CASE SemTake(w)
    BY <1>4, <1>5, <2>1 DEF wm_sem_wait, SemWakeUp, SemTimedOut
  <2>2. CASE ~SemTake(w) /\ ~SemTimedOut(w)
    <3>1. cnt <= 0 /\ UNCHANGED <<cnt, missed>> /\ (UNCHANGED mutex \/ mutex' = w)
      BY <1>5, <2>2, BlockFacts DEF wm_sem_wait, SemWakeUp, BlockAgain
    <3>2. w # None
      BY NoneIsNoWaiter
    <3>3. mutex' = None => mutex = None
      BY <3>1, <3>2
    <3>4. /\ cnt' \in (-IntMax - 1)..IntMax /\ ~(cnt' > 0)
          /\ mutex' = None => cnt' >= 0 \/ cnt' = Num
      BY <1>0, <3>1, <3>3
    <3> QED BY <3>4, Zenon DEF SemInv, CountNotNegative
  <2>3. CASE SemTimedOut(w)
    BY <2>3 DEF SemTimedOut, Leave, SemInv, CountNotNegative
  <2> QED BY <2>1, <2>2, <2>3
<1>6. ASSUME NEW w \in Waiters, Disturb(w), UNCHANGED semVars PROVE SemInv'
  BY <1>6, DisturbFacts DEF SemInv, CountNotNegative
<1> QED BY <1>2, <1>3, <1>5, <1>6 DEF SemNext

(* ------------------------- the auto-reset event ------------------------- *)

EvtInv == /\ state \in {0, 1} /\ won \in {0, 1}
          /\ OneWinner /\ NoLostEvent

LEMMA EvtStep ==
    ASSUME WaitType, EvtInv, UNCHANGED kind, EvtNext
    PROVE  EvtInv'
<1> USE DEF WaitType, WaitLabels, Sleepers, EvtInv, OneWinner, NoLostEvent, evtVars
<1>1. CASE evt_mtx_signal
  BY <1>1, SignalFacts DEF evt_mtx_signal
<1>2. ASSUME NEW w \in Waiters, EvtTake(w) PROVE EvtInv'
  BY <1>2 DEF EvtTake
<1>3. ASSUME NEW w \in Waiters, evt_mtx_wait(w) PROVE EvtInv'
  BY <1>2, <1>3, BlockFacts DEF evt_mtx_wait
<1>4. ASSUME NEW w \in Waiters, EvtWakeUp(w) PROVE EvtInv'
  BY <1>2, <1>4 DEF EvtWakeUp
<1>5. ASSUME NEW w \in Waiters, EvtTimedOut(w) PROVE EvtInv'
  BY <1>5 DEF EvtTimedOut, Leave
<1>6. ASSUME NEW w \in Waiters, Disturb(w), UNCHANGED evtVars PROVE EvtInv'
  BY <1>6, DisturbFacts
<1> QED BY <1>1, <1>3, <1>4, <1>5, <1>6 DEF EvtNext

(* ------------------------- the broadcast event -------------------------- *)

Waiting == {w \in Waiters : wpc[w] # "idle"}

RwInv == due \subseteq Waiters /\ ReadersCounted /\ BroadcastReachesAll

\* Waiting grows and shrinks by one waiter.
LEMMA WaitingFacts ==
    ASSUME IsFiniteSet(Waiters), WaitType
    PROVE  /\ Cardinality(Waiting) \in Nat
           /\ \A w \in Waiters \ Waiting :
                  Cardinality(Waiting \cup {w}) = Cardinality(Waiting) + 1
           /\ \A w \in Waiting :
                  Cardinality(Waiting \ {w}) = Cardinality(Waiting) - 1
<1>1. IsFiniteSet(Waiting)
  BY FS_Subset DEF Waiting
<1> QED BY <1>1, FS_CardinalityType, FS_AddElement, FS_RemoveElement

LEMMA RwStep ==
    ASSUME IsFiniteSet(Waiters), WaitType, RwInv, kind = "rw", UNCHANGED kind, RwNext
    PROVE  RwInv'
<1> USE DEF WaitType, WaitLabels
<1>0. s32Rd = Cardinality(Waiting) /\ due \subseteq Waiters /\ \A w \in due : wpc[w] = "woken"
  BY DEF RwInv, ReadersCounted, BroadcastReachesAll, Waiting
<1>q. ASSUME s32Rd' = Cardinality(Waiting'), \A w \in due' : wpc'[w] = "woken"
      PROVE  RwInv'
  <2>1. due' \subseteq Waiters
    BY <1>0 DEF RwNext, evt_wr_broadcast, evt_rd_reset, RwPoll, evt_rd_wait, RwWakeUp, RwTimedOut,
                RwReturn, rwVars, Sleepers
  <2> QED BY <1>q, <2>1 DEF RwInv, ReadersCounted, BroadcastReachesAll, Waiting
<1>1. CASE evt_wr_broadcast
  <2>1. Waiting' = Waiting /\ s32Rd' = s32Rd /\ due' = due \cup Sleepers
    BY <1>1 DEF evt_wr_broadcast, Broadcast, Sleepers, Waiting
  <2>2. CASE s32Rd > 0
    BY <1>0, <1>1, <1>q, <2>1, <2>2 DEF evt_wr_broadcast, Broadcast, Sleepers
  <2>3. CASE ~(s32Rd > 0)
    <3>1. Waiting = {}
      BY <1>0, <2>3, FS_Subset, FS_CardinalityType, FS_EmptySet DEF Waiting
    <3>2. Sleepers = {} /\ UNCHANGED wpc
      BY <1>1, <2>3, <3>1 DEF evt_wr_broadcast, Waiting, Sleepers
    <3> QED BY <1>0, <1>q, <2>1, <3>2
  <2> QED BY <2>2, <2>3
<1>2. ASSUME evt_rd_reset \/ \E r \in Pollers : RwPoll(r) PROVE RwInv'
  <2>1. Waiting' = Waiting /\ UNCHANGED <<wpc, s32Rd, due>>
    BY <1>2 DEF evt_rd_reset, RwPoll, Waiting
  <2> QED BY <1>0, <1>q, <2>1
<1>3. ASSUME NEW w \in Waiters, evt_rd_wait(w) PROVE RwInv'
  <2>1. w \in Waiters \ Waiting /\ Waiting' = Waiting \cup {w} /\ w \notin due
    BY <1>0, <1>3, BlockFacts DEF evt_rd_wait, Waiting
  <2>2. \A v \in due' : wpc'[v] = "woken"
    BY <1>0, <1>3, <2>1, BlockFacts DEF evt_rd_wait
  <2> QED BY <1>0, <1>3, <1>q, <2>1, <2>2, WaitingFacts DEF evt_rd_wait
<1>4. ASSUME NEW w \in Waiters, RwWakeUp(w) \/ RwTimedOut(w) PROVE RwInv'
  <2>1. w \in Waiting /\ Waiting' = Waiting \ {w} /\ s32Rd' = s32Rd - 1
    BY <1>4 DEF RwWakeUp, RwTimedOut, RwReturn, Leave, Waiting
  <2>2. \A v \in due' : wpc'[v] = "woken"
    BY <1>0, <1>4 DEF RwWakeUp, RwTimedOut, RwReturn, Leave
  <2> QED BY <1>0, <1>q, <2>1, <2>2, WaitingFacts
<1>5. ASSUME NEW w \in Waiters, Disturb(w), UNCHANGED rwVars PROVE RwInv'
  <2>1. Waiting' = Waiting /\ UNCHANGED <<s32Rd, due>> /\ w \notin due
    BY <1>0, <1>5, DisturbFacts DEF Waiting, rwVars
  <2>2. \A v \in due' : wpc'[v] = "woken"
    BY <1>0, <1>5, <2>1, DisturbFacts
  <2> QED BY <1>0, <1>q, <2>1, <2>2
<1> QED BY <1>1, <1>2, <1>3, <1>4, <1>5 DEF RwNext

(* ------------------------- the queue ------------------------------------ *)

QrInv == data_queue \in Nat /\ NobodyStranded

LEMMA WokenFacts ==
    ASSUME IsFiniteSet(Waiters), WaitType
    PROVE  /\ Cardinality(Woken) \in Nat
           /\ \A w \in Waiters \ Woken : Cardinality(Woken \cup {w}) = Cardinality(Woken) + 1
           /\ \A w \in Woken : /\ Cardinality(Woken \ {w}) = Cardinality(Woken) - 1
                               /\ Cardinality(Woken \ {w}) \in Nat
<1>1. IsFiniteSet(Woken)
  BY FS_Subset DEF Woken
<1>2. \A w \in Woken : IsFiniteSet(Woken \ {w})
  BY <1>1, FS_Subset
<1> QED BY <1>1, <1>2, FS_CardinalityType, FS_AddElement, FS_RemoveElement

LEMMA QrStep ==
    ASSUME IsFiniteSet(Waiters), WaitType, QrInv, QrNext
    PROVE  QrInv'
<1> USE DEF WaitType, WaitLabels
<1>0. data_queue \in Nat /\ Cardinality(Woken) \in Nat /\ (Sleepers # {} => data_queue <= Cardinality(Woken))
  BY WokenFacts DEF QrInv, NobodyStranded
<1>q. ASSUME data_queue' \in Nat, Sleepers' # {} => data_queue' <= Cardinality(Woken')
      PROVE  QrInv'
  BY <1>q DEF QrInv, NobodyStranded
<1>1. CASE push
  <2>1. data_queue' = data_queue + 1 /\ Signal
    BY <1>1 DEF push
  <2>2. CASE Sleepers = {}
    <3>1. Sleepers' = {}
      BY <2>1, <2>2, SignalFacts DEF Sleepers
    <3> QED BY <1>0, <1>q, <2>1, <3>1
  <2>3. CASE Sleepers # {}
    <3>1. PICK w \in Sleepers : wpc' = [wpc EXCEPT ![w] = "woken"]
      BY <2>1, <2>3, SignalFacts
    <3>2. w \in Waiters \ Woken /\ Woken' = Woken \cup {w}
      BY <3>1 DEF Sleepers, Woken
    <3> QED BY <1>0, <1>q, <2>1, <2>3, <3>2, WokenFacts
  <2> QED BY <2>2, <2>3
<1>2. CASE try_pop
  <2>1. Sleepers' = Sleepers /\ Woken' = Woken
    BY <1>2 DEF try_pop, waitVars, Sleepers, Woken
  <2> QED BY <1>0, <1>2, <1>q, <2>1 DEF try_pop
<1>3. ASSUME NEW w \in Waiters, wait_pop(w) PROVE QrInv'
  <2>1. CASE QrTake(w)
    <3>1. Sleepers' = Sleepers /\ Woken' = Woken
      BY <1>3, <2>1 DEF wait_pop, QrTake, Leave, Sleepers, Woken
    <3> QED BY <1>0, <1>q, <2>1, <3>1 DEF QrTake
  <2>2. CASE QrSleep(w)
    <3>1. Woken' = Woken
      BY <1>3, <2>2 DEF wait_pop, QrSleep, BlockAgain, Woken
    <3> QED BY <1>0, <1>q, <2>2, <3>1 DEF QrSleep
  <2> QED BY <1>3, <2>1, <2>2 DEF wait_pop
<1>4. ASSUME NEW w \in Waiters, QrWakeUp(w) PROVE QrInv'
  <2>1. w \in Woken /\ (wpc' = [wpc EXCEPT ![w] = "idle"] => Woken' = Woken \ {w} /\ Sleepers' = Sleepers)
    BY <1>4 DEF QrWakeUp, Woken, Sleepers
  <2>2. CASE QrTake(w)
    <3>1. data_queue > 0 /\ data_queue' = data_queue - 1 /\ Woken' = Woken \ {w} /\ Sleepers' = Sleepers
      BY <2>1, <2>2 DEF QrTake, Leave
    <3> QED BY <1>0, <1>q, <2>1, <3>1, WokenFacts
  <2>3. CASE QrSleep(w)
    <3>1. Woken' = Woken \ {w}
      BY <1>4, <2>3 DEF QrWakeUp, QrSleep, BlockAgain, Woken
    <3> QED BY <1>0, <1>q, <2>1, <2>3, <3>1, WokenFacts DEF QrSleep
  <2> QED BY <1>4, <2>2, <2>3 DEF QrWakeUp
<1>5. ASSUME NEW w \in Waiters, SpuriousWakeup(w), UNCHANGED <<mutex, data_queue>> PROVE QrInv'
  <2>1. w \in Waiters \ Woken /\ w \in Sleepers /\ Woken' = Woken \cup {w}
    BY <1>5 DEF SpuriousWakeup, Woken, Sleepers
  <2> QED BY <1>0, <1>5, <1>q, <2>1, WokenFacts
<1> QED BY <1>1, <1>2, <1>3, <1>4, <1>5 DEF QrNext

(* ------------------------- all together --------------------------------- *)

\* Of the four, the three that are not used have their invariants.
Idle == /\ kind # "sem" => SemInv
        /\ kind # "evt" => EvtInv
        /\ kind # "rw" => RwInv
        /\ kind # "queue" => QrInv

LEMMA NotUsed == WaitType /\ Unused => Idle
<1> SUFFICES ASSUME WaitType, Unused PROVE Idle
  OBVIOUS
<1>1. kind # "sem" => SemInv
  <2>1. Num \in (-IntMax - 1)..IntMax
    BY WmSemAssumption
  <2> QED BY <2>1 DEF Unused, SemInv, CountNotNegative
<1>2. kind # "evt" => EvtInv
  BY DEF Unused, EvtInv, OneWinner, NoLostEvent
<1>3. kind # "rw" => RwInv
  BY DEF Unused, RwInv, ReadersCounted, BroadcastReachesAll
<1>4. kind # "queue" => QrInv
  BY WokenFacts, TimedWaitAssumption DEF Unused, QrInv, NobodyStranded
<1> QED BY <1>1, <1>2, <1>3, <1>4 DEF Idle

CvInv == WaitType /\ Unused /\ SemInv /\ EvtInv /\ RwInv /\ QrInv

LEMMA CvInit == Init => CvInv
<1> SUFFICES ASSUME Init PROVE CvInv
  OBVIOUS
<1> USE DEF Init, SemInit, EvtInit, RwInit, QrInit, TimedWaitInit
<1>1. WaitType /\ Unused
  BY DEF WaitType, WaitLabels, Unused
<1>2. Sleepers = {} /\ Waiting = {}
  BY DEF Sleepers, Waiting
<1>3. SemInv
  <2>1. Num \in (-IntMax - 1)..IntMax
    BY WmSemAssumption
  <2> QED BY <1>2, <2>1 DEF SemInv, CountNotNegative
<1>4. EvtInv
  BY DEF EvtInv, OneWinner, NoLostEvent
<1>5. RwInv
  BY <1>2, FS_EmptySet DEF RwInv, ReadersCounted, BroadcastReachesAll, Waiting
<1>6. QrInv
  BY <1>2 DEF QrInv, NobodyStranded
<1> QED BY <1>1, <1>3, <1>4, <1>5, <1>6 DEF CvInv

LEMMA CvStep == CvInv /\ [Next]_vars => CvInv'
<1> SUFFICES ASSUME CvInv, [Next]_vars PROVE CvInv'
  OBVIOUS
<1>1. WaitType /\ Unused /\ SemInv /\ EvtInv /\ RwInv /\ QrInv
  BY DEF CvInv
<1>2. (WaitType /\ Unused)'
  BY <1>1, TypeStep
<1>3. Idle'
  BY <1>2, NotUsed, PTL
<1>4. CASE Sem(SemNext)
  <2>1. kind = "sem" /\ UNCHANGED kind /\ SemNext
    BY <1>4 DEF Sem
  <2>2. SemInv'
    BY <1>1, <2>1, SemStep
  <2> QED BY <1>2, <1>3, <2>1, <2>2 DEF CvInv, Idle
<1>5. CASE Evt(EvtNext)
  <2>1. kind = "evt" /\ UNCHANGED kind /\ EvtNext
    BY <1>5 DEF Evt
  <2>2. EvtInv'
    BY <1>1, <2>1, EvtStep
  <2> QED BY <1>2, <1>3, <2>1, <2>2 DEF CvInv, Idle
<1>6. CASE Rw(RwNext)
  <2>1. kind = "rw" /\ UNCHANGED kind /\ RwNext
    BY <1>6 DEF Rw
  <2>2. RwInv'
    BY <1>1, <2>1, RwStep, TimedWaitAssumption
  <2> QED BY <1>2, <1>3, <2>1, <2>2 DEF CvInv, Idle
<1>7. CASE Qr(QrNext)
  <2>1. kind = "queue" /\ UNCHANGED kind /\ QrNext
    BY <1>7 DEF Qr
  <2>2. QrInv'
    BY <1>1, <2>1, QrStep, TimedWaitAssumption
  <2> QED BY <1>2, <1>3, <2>1, <2>2 DEF CvInv, Idle
<1>8. CASE UNCHANGED vars
  <2>1. UNCHANGED <<Sleepers, Waiting, Woken>>
    BY <1>8 DEF vars, waitVars, Sleepers, Waiting, Woken
  <2>2. SemInv' /\ EvtInv'
    BY <1>1, <1>8, <2>1
    DEF vars, waitVars, semVars, evtVars, SemInv, CountNotNegative, EvtInv, OneWinner, NoLostEvent
  <2>3. RwInv' /\ QrInv'
    BY <1>1, <1>8, <2>1
    DEF vars, waitVars, rwVars, RwInv, ReadersCounted, BroadcastReachesAll, QrInv, NobodyStranded, Waiting
  <2> QED BY <1>2, <2>2, <2>3 DEF CvInv
<1> QED BY <1>4, <1>5, <1>6, <1>7, <1>8 DEF Next

LEMMA CvInvariance == Spec => []CvInv
BY CvInit, CvStep, PTL DEF Spec, SafetySpec

\* The semaphore's counter is negative only while the call that made it so keeps
\* the mutex for ever (wm_sem.c).
THEOREM CountIsNotNegative == Spec => []CountNotNegative
<1>1. CvInv => CountNotNegative
  BY DEF CvInv, SemInv
<1> QED BY <1>1, CvInvariance, PTL

\* Who sleeps beside a positive counter was missed by the last post, or somebody
\* who was woken is on its way (wm_sem.c).
THEOREM SleepersWereMissed == Spec => []StrandedOnlyIfMissed
<1>1. CvInv => StrandedOnlyIfMissed
  BY DEF CvInv, SemInv, StrandedOnlyIfMissed
<1> QED BY <1>1, CvInvariance, PTL

\* One signal releases one waiter of the auto-reset event (evt.c).
THEOREM EventHasOneWinner == Spec => []OneWinner
<1>1. CvInv => OneWinner
  BY DEF CvInv, EvtInv
<1> QED BY <1>1, CvInvariance, PTL

\* A set event has no sleeper left without somebody woken for it (evt.c).
THEOREM EventIsNotLost == Spec => []NoLostEvent
<1>1. CvInv => NoLostEvent
  BY DEF CvInv, EvtInv
<1> QED BY <1>1, CvInvariance, PTL

\* s32Rd is the number of readers inside evt_rd_wait() (evt.c).
THEOREM ReadersAreCounted == Spec => []ReadersCounted
<1>1. CvInv => ReadersCounted
  BY DEF CvInv, RwInv
<1> QED BY <1>1, CvInvariance, PTL

\* Every broadcast wakes every reader that sleeps, also when s32Wr is still 1 of
\* an earlier one: evt_wr_broadcast() skips the call only if s32Rd says that
\* there are no readers (evt.c).
THEOREM BroadcastReachesAllReaders == Spec => []BroadcastReachesAll
<1>1. CvInv => BroadcastReachesAll
  BY DEF CvInv, RwInv
<1> QED BY <1>1, CvInvariance, PTL

\* No reader sleeps in wait_pop() beside an element that nobody is on the way to
\* (queue_r.hpp).
THEOREM NoReaderStranded == Spec => []NobodyStranded
<1>1. CvInv => NobodyStranded
  BY DEF CvInv, QrInv
<1> QED BY <1>1, CvInvariance, PTL

----------------------------------------------------------------------------
(* Who keeps the mutex.                                                      *)

LEMMA LessThanASecond ==
    ASSUME NEW ms \in Nat
    PROVE  Second \in Nat /\ (ms % 1000) * 1000000 \in Nat /\ (ms % 1000) * 1000000 < Second
<1>1. PICK r \in 0..999 : r = ms % 1000
  OBVIOUS
<1>2. Second \in Nat /\ Second > 999 * 1000000
  BY SMT DEF Second
<1>3. r * 1000000 \in Nat /\ r * 1000000 < Second
  BY <1>2, SMT
<1> QED BY <1>1, <1>2, <1>3, SMT

LEMMA CarryMissesOne ==
    ASSUME NEW s \in Nat, NEW now \in 0..(s - 1), NEW n \in Nat, n < s, NEW m, m = now + n
    PROVE  (IF m > s THEN m - s ELSE m) \in 0..(s - 1) <=> m # s
BY SMT

\* The comparison with 10^9 lets exactly the whole seconds through (evt.c:126).
LEMMA DeadlineIsNsec ==
    ASSUME NEW now \in Nsecs, NEW ms \in Nat
    PROVE  IsNsec(DeadlineNsec(now, ms)) <=> now + (ms % 1000) * 1000000 # Second
<1>1. PICK n \in Nat : n = (ms % 1000) * 1000000 /\ n < Second
  BY LessThanASecond, SMT
<1>2. PICK m : m = now + n /\ m = now + (ms % 1000) * 1000000
  BY <1>1, SMT
<1>3. DeadlineNsec(now, ms) = IF m > Second THEN m - Second ELSE m
  BY <1>2, SMT DEF DeadlineNsec
<1>4. now \in 0..(Second - 1)
  BY SMT DEF Nsecs
<1>5. (IF m > Second THEN m - Second ELSE m) \in 0..(Second - 1) <=> m # Second
  BY <1>1, <1>2, <1>4, LessThanASecond, CarryMissesOne, SMT
<1>6. IsNsec(DeadlineNsec(now, ms)) <=> DeadlineNsec(now, ms) \in 0..(Second - 1)
  BY SMT DEF IsNsec, Nsecs
<1> QED BY <1>2, <1>3, <1>5, <1>6, SMT

LEMMA BlockKeeps ==
    ASSUME NEW w \in Waiters, WaitType, mutex = None, Block(w)
    PROVE  mutex' # None => mutex' \in Timed /\ wpc'[mutex'] = "spin" /\ WholeSecond
<1> SUFFICES ASSUME mutex' # None
             PROVE  mutex' \in Timed /\ wpc'[mutex'] = "spin" /\ WholeSecond
  OBVIOUS
<1>1. /\ w \in Timed /\ mutex' = w /\ wpc' = [wpc EXCEPT ![w] = "spin"]
      /\ \E now \in Now, ms \in Timeouts : ~IsNsec(DeadlineNsec(now, ms))
  BY DEF Block
<1>2. PICK now \in Now, ms \in Timeouts : ~IsNsec(DeadlineNsec(now, ms))
  BY <1>1
<1>3. now \in Nsecs /\ ms \in Nat
  BY TimedWaitAssumption
<1>4. WholeSecond
  BY <1>2, <1>3, DeadlineIsNsec, SMT DEF WholeSecond
<1> QED BY <1>1, <1>4 DEF WaitType

\* The counter becomes negative only if it may wrap or be given less than zero.
LEMMA PostKeeps ==
    ASSUME NEW p \in Posters, NEW n \in Batches \cup {1}, cnt \in Int, cnt >= 0 \/ cnt = Num,
           AddToCount(p, n)
    PROVE  mutex' # None => mutex' \in Posters /\ cnt' < 0 /\ BelowZero
<1>1. /\ n \in Int /\ IntMax \in Nat \ {0} /\ PostLimit \in Nat /\ Num \in Int
      /\ cnt + n <= PostLimit
  BY WmSemAssumption DEF AddToCount
<1>2. cnt >= 0 /\ n >= 0 /\ Wrap(cnt + n) < 0 => PostLimit > IntMax
  BY <1>1 DEF Wrap
<1>3. n >= 0 \/ \E b \in Batches : b < 0
  BY <1>1
<1>4. Wrap(cnt + n) < 0 => BelowZero
  BY <1>1, <1>2, <1>3 DEF BelowZero
<1> QED BY <1>4, WmSemAssumption DEF AddToCount

LEMMA MutexStep ==
    ASSUME CvInv, MutexIsGivenBack, [Next]_vars PROVE MutexIsGivenBack'
<1> USE DEF MutexIsGivenBack
<1>0. WaitType /\ cnt \in Int /\ (mutex = None => cnt >= 0 \/ cnt = Num) /\ UNCHANGED BelowZero
  BY WmSemAssumption DEF CvInv, SemInv, CountNotNegative, BelowZero
<1>1. ASSUME NEW w \in Waiters, Disturb(w), UNCHANGED <<kind, cnt>> PROVE MutexIsGivenBack'
  <2>1. UNCHANGED WholeSecond
    BY DEF WholeSecond
  <2> QED BY <1>0, <1>1, <2>1, DisturbFacts, TimedWaitAssumption DEF WaitType
<1>2. ASSUME mutex' = None PROVE MutexIsGivenBack'
  BY <1>2
<1>3. ASSUME NEW w \in Waiters, mutex = None, Block(w), kind' # "queue" PROVE MutexIsGivenBack'
  BY <1>0, <1>3, BlockKeeps
<1>4. CASE Sem(SemNext)
  <2>1. ASSUME NEW p \in Posters, NEW n \in Batches \cup {1}, mutex = None, AddToCount(p, n),
               kind' = "sem"
        PROVE  MutexIsGivenBack'
    BY <1>0, <2>1, PostKeeps
  <2>2. kind = "sem" /\ UNCHANGED kind /\ SemNext
    BY <1>4 DEF Sem
  <2> QED
    BY <1>0, <1>1, <1>2, <1>3, <2>1, <2>2
    DEF SemNext, wm_sem_post, wm_sem_broadcast, wm_sem_wait, SemTake, SemWakeUp, SemTimedOut,
        Leave, BlockAgain, semVars
<1>5. CASE Evt(EvtNext)
  <2>1. kind = "evt" /\ UNCHANGED <<kind, cnt>> /\ EvtNext
    BY <1>5 DEF Evt, semVars
  <2> QED
    BY <1>1, <1>2, <1>3, <2>1
    DEF EvtNext, evt_mtx_signal, evt_mtx_wait, EvtTake, EvtWakeUp, EvtTimedOut, Leave, BlockAgain
<1>6. CASE Rw(RwNext)
  <2>1. kind = "rw" /\ UNCHANGED <<kind, cnt>> /\ RwNext
    BY <1>6 DEF Rw, semVars
  <2> QED
    BY <1>1, <1>2, <1>3, <2>1
    DEF RwNext, evt_wr_broadcast, evt_rd_reset, RwPoll, evt_rd_wait, RwReturn, RwWakeUp,
        RwTimedOut, Leave
<1>7. CASE Qr(QrNext)
  <2>1. mutex = None /\ UNCHANGED mutex
    BY <1>0, <1>7, WmSemAssumption
    DEF Qr, QrNext, push, try_pop, wait_pop, QrWakeUp, QrTake, QrSleep, SpuriousWakeup, Leave,
        BlockAgain, waitVars
  <2> QED BY <1>2, <2>1
<1>8. CASE UNCHANGED vars
  BY <1>8 DEF vars, waitVars, semVars
<1> QED BY <1>4, <1>5, <1>6, <1>7, <1>8 DEF Next

(* Whoever posts, waits, signals, broadcasts and pushes: a mutex that is not  *)
(* given back is kept by a post that left the counter negative or by a waiter *)
(* whose deadline falls on a whole second, the two defects of the source      *)
(* (wm_sem.c:93, 109, 138, evt.c:126, 278). *)
THEOREM MutexIsKeptByTwoDefects == Spec => []MutexIsGivenBack
<1>1. Init => MutexIsGivenBack
  BY DEF Init, SemInit, TimedWaitInit, MutexIsGivenBack
<1> QED BY <1>1, MutexStep, CvInvariance, CvInit, PTL DEF Spec, SafetySpec

(* Without them every critical section of the four primitives ends, so that   *)
(* the exception in TimedWaitReturns is never taken (evt.c, wm_sem.c,         *)
(* queue_r.hpp). *)
THEOREM MutexIsAlwaysFree ==
    ASSUME ~WholeSecond, ~BelowZero
    PROVE  Spec => [](mutex = None)
<1>1. MutexIsGivenBack => mutex = None
  BY WmSemAssumption DEF MutexIsGivenBack
<1> QED BY <1>1, MutexIsKeptByTwoDefects, PTL

=============================================================================
