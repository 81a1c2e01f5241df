-------------------------- MODULE ObservableProofs --------------------------
(* Theorems about Observable (src/project/basic/Observable*.cpp) for any     *)
(* number of threads, instances and observers, whatever the functions use.   *)
EXTENDS Observable, SequenceTheorems, TLAPS

\* What leaving a call, a change of the last frame and a nested call do to a stack.
LEMMA PopSeq ==
    ASSUME NEW S, NEW s \in Seq(S), Len(s) > 0
    PROVE  /\ SubSeq(s, 1, Len(s) - 1) \in Seq(S)
           /\ Len(SubSeq(s, 1, Len(s) - 1)) = Len(s) - 1
           /\ \A k \in 1..(Len(s) - 1) : SubSeq(s, 1, Len(s) - 1)[k] = s[k]
<1> DEFINE n == Len(s) - 1
<1>1. n \in Int /\ n >= 0 /\ 1 \in Int /\ \A k \in 1..n : s[k] \in S
  OBVIOUS
<1> HIDE DEF n
<1>2. /\ SubSeq(s, 1, n) \in Seq(S)
      /\ Len(SubSeq(s, 1, n)) = IF 1 <= n THEN n - 1 + 1 ELSE 0
      /\ \A k \in 1..(n - 1 + 1) : SubSeq(s, 1, n)[k] = s[1 + k - 1]
  BY <1>1, SubSeqProperties
<1>3. Len(SubSeq(s, 1, n)) = n
  BY <1>1, <1>2
<1>4. ASSUME NEW k \in 1..n PROVE SubSeq(s, 1, n)[k] = s[k]
  BY <1>1, <1>2
<1> QED BY <1>2, <1>3, <1>4 DEF n

LEMMA ReplaceSeq ==
    ASSUME NEW S, NEW s \in Seq(S), Len(s) > 0, NEW x \in S
    PROVE  /\ [s EXCEPT ![Len(s)] = x] \in Seq(S)
           /\ Len([s EXCEPT ![Len(s)] = x]) = Len(s)
           /\ [s EXCEPT ![Len(s)] = x][Len(s)] = x
           /\ \A k \in 1..(Len(s) - 1) : [s EXCEPT ![Len(s)] = x][k] = s[k]
OBVIOUS

LEMMA AppendSeq ==
    ASSUME NEW S, NEW s \in Seq(S), NEW x \in S
    PROVE  /\ Append(s, x) \in Seq(S)
           /\ Len(Append(s, x)) = Len(s) + 1
           /\ Append(s, x)[Len(s) + 1] = x
           /\ \A k \in 1..Len(s) : Append(s, x)[k] = s[k]
OBVIOUS

LEMMA StackFacts ==
    ASSUME TypeOK, NEW t \in Threads
    PROVE  /\ stack[t] \in Seq(Frames) /\ Depth(t) \in Nat
           /\ \A k \in 1..Depth(t) : stack[t][k] \in Frames
           /\ Depth(t) > 0 => Top(t) \in Frames
<1>1. stack[t] \in Seq(Frames)
  BY DEF TypeOK
<1> QED BY <1>1 DEF Depth, Top

LEMMA PopFacts ==
    ASSUME TypeOK, NEW t \in Threads, Depth(t) > 0, Pop(t)
    PROVE  /\ stack' \in [Threads -> Seq(Frames)]
           /\ \A u \in Threads \ {t} : stack'[u] = stack[u]
           /\ Len(stack'[t]) = Depth(t) - 1
           /\ \A k \in 1..(Depth(t) - 1) : stack'[t][k] = stack[t][k]
           /\ \A u \in Threads : \A k \in 1..Len(stack'[u]) :
                  k \in 1..Depth(u) /\ stack'[u][k] = stack[u][k]
<1>1. stack \in [Threads -> Seq(Frames)]
  BY DEF TypeOK
<1>2. /\ SubSeq(stack[t], 1, Depth(t) - 1) \in Seq(Frames)
      /\ Len(SubSeq(stack[t], 1, Depth(t) - 1)) = Depth(t) - 1
      /\ \A k \in 1..(Depth(t) - 1) : SubSeq(stack[t], 1, Depth(t) - 1)[k] = stack[t][k]
  BY StackFacts, PopSeq DEF Depth
<1>3. stack'[t] = SubSeq(stack[t], 1, Depth(t) - 1) /\ \A u \in Threads \ {t} : stack'[u] = stack[u]
  BY <1>1 DEF Pop
<1>4. stack' \in [Threads -> Seq(Frames)]
  BY <1>1, <1>2 DEF Pop
<1>5. ASSUME NEW u \in Threads, NEW k \in 1..Len(stack'[u])
      PROVE  k \in 1..Depth(u) /\ stack'[u][k] = stack[u][k]
  <2>1. CASE u = t
    BY <1>2, <1>3, <2>1, StackFacts
  <2>2. CASE u # t
    BY <1>3, <2>2 DEF Depth
  <2> QED BY <2>1, <2>2
<1> QED BY <1>2, <1>3, <1>4, <1>5

\* What the stacks are when f takes the place of the last frame of t.
ReplaceOf(t, f) ==
    /\ stack' \in [Threads -> Seq(Frames)]
    /\ \A u \in Threads \ {t} : stack'[u] = stack[u]
    /\ Len(stack'[t]) = Depth(t)
    /\ stack'[t][Depth(t)] = f
    /\ \A k \in 1..(Depth(t) - 1) : stack'[t][k] = stack[t][k]
    /\ \A u \in Threads : \A k \in 1..Len(stack'[u]) :
           /\ k \in 1..Depth(u)
           /\ stack'[u][k] = IF u = t /\ k = Depth(t) THEN f ELSE stack[u][k]

LEMMA ReplaceFacts ==
    ASSUME TypeOK, NEW t \in Threads, Depth(t) > 0, NEW f \in Frames,
           stack' = [stack EXCEPT ![t] = Replace(t, f)]
    PROVE  ReplaceOf(t, f)
<1>1. stack \in [Threads -> Seq(Frames)]
  BY DEF TypeOK
<1>2. /\ Replace(t, f) \in Seq(Frames) /\ Len(Replace(t, f)) = Depth(t)
      /\ Replace(t, f)[Depth(t)] = f
      /\ \A k \in 1..(Depth(t) - 1) : Replace(t, f)[k] = stack[t][k]
  BY StackFacts, ReplaceSeq DEF Depth, Replace
<1>3. stack'[t] = Replace(t, f) /\ \A u \in Threads \ {t} : stack'[u] = stack[u]
  BY <1>1
<1>4. stack' \in [Threads -> Seq(Frames)]
  BY <1>1, <1>2
<1>5. ASSUME NEW u \in Threads, NEW k \in 1..Len(stack'[u])
      PROVE  /\ k \in 1..Depth(u)
             /\ stack'[u][k] = IF u = t /\ k = Depth(t) THEN f ELSE stack[u][k]
  <2>1. CASE u = t
    BY <1>2, <1>3, <2>1, StackFacts
  <2>2. CASE u # t
    BY <1>3, <2>2 DEF Depth
  <2> QED BY <2>1, <2>2
<1> QED BY <1>2, <1>3, <1>4, <1>5 DEF ReplaceOf

Nested(t, f, c) == Append(Replace(t, f), c)

\* What the stacks are after a nested call: f is the frame that calls, c the new one.
NestOf(t, f, c) ==
    /\ stack' \in [Threads -> Seq(Frames)]
    /\ \A u \in Threads \ {t} : stack'[u] = stack[u]
    /\ Len(stack'[t]) = Depth(t) + 1
    /\ stack'[t][Depth(t) + 1] = c
    /\ stack'[t][Depth(t)] = f
    /\ \A k \in 1..(Depth(t) - 1) : stack'[t][k] = stack[t][k]
    /\ \A u \in Threads : \A k \in 1..Len(stack'[u]) :
           \/ k = Depth(t) + 1 /\ u = t /\ stack'[u][k] = c
           \/ /\ k \in 1..Depth(u)
              /\ stack'[u][k] = IF u = t /\ k = Depth(t) THEN f ELSE stack[u][k]

LEMMA NestFacts ==
    ASSUME TypeOK, NEW t \in Threads, Depth(t) > 0, NEW f \in Frames, NEW c \in Frames,
           stack' = [stack EXCEPT ![t] = Nested(t, f, c)]
    PROVE  NestOf(t, f, c)
<1>1. stack \in [Threads -> Seq(Frames)] /\ Depth(t) \in Nat
  BY StackFacts DEF TypeOK
<1>2. /\ Replace(t, f) \in Seq(Frames) /\ Len(Replace(t, f)) = Depth(t)
      /\ Replace(t, f)[Depth(t)] = f
      /\ \A k \in 1..(Depth(t) - 1) : Replace(t, f)[k] = stack[t][k]
  BY StackFacts, ReplaceSeq DEF Depth, Replace
<1>3. /\ Nested(t, f, c) \in Seq(Frames)
      /\ Len(Nested(t, f, c)) = Depth(t) + 1
      /\ Nested(t, f, c)[Depth(t) + 1] = c
      /\ \A k \in 1..Depth(t) : Nested(t, f, c)[k] = Replace(t, f)[k]
  BY <1>2, AppendSeq DEF Nested
<1>4. stack'[t] = Nested(t, f, c) /\ \A u \in Threads \ {t} : stack'[u] = stack[u]
  BY <1>1
<1>5. stack' \in [Threads -> Seq(Frames)]
  BY <1>1, <1>3
<1>6. ASSUME NEW u \in Threads, NEW k \in 1..Len(stack'[u])
      PROVE  \/ k = Depth(t) + 1 /\ u = t /\ stack'[u][k] = c
             \/ /\ k \in 1..Depth(u)
                /\ stack'[u][k] = IF u = t /\ k = Depth(t) THEN f ELSE stack[u][k]
  <2>1. CASE u = t
    BY <1>1, <1>2, <1>3, <1>4, <2>1
  <2>2. CASE u # t
    BY <1>4, <2>2 DEF Depth
  <2> QED BY <2>1, <2>2
<1>7. /\ Len(stack'[t]) = Depth(t) + 1
      /\ stack'[t][Depth(t) + 1] = c
      /\ stack'[t][Depth(t)] = f
      /\ \A k \in 1..(Depth(t) - 1) : stack'[t][k] = stack[t][k]
  BY <1>1, <1>2, <1>3, <1>4
<1> QED BY <1>4, <1>5, <1>6, <1>7 DEF NestOf

LEMMA TypeStep == TypeOK /\ LockInv /\ [Next]_vars => TypeOK'
<1> SUFFICES ASSUME TypeOK, LockInv, [Next]_vars PROVE TypeOK'
  OBVIOUS
<1> USE ObservableAssumption
<1>1. ASSUME NEW t \in Threads, NEW o \in Observables, NEW c \in Calls(o), Call(t, c)
      PROVE  TypeOK'
  <2>1. c \in Frames
    BY DEF Calls, Frames, Observables
  <2>2. <<c>> \in Seq(Frames)
    BY <2>1
  <2> QED BY <1>1, <2>2 DEF Call, TypeOK
<1>2. ASSUME NEW t \in Threads,
             Add(t) \/ Del(t) \/ Clear(t) \/ Count(t) \/ NotifyRefused(t) \/ NotifyReturns(t)
      PROVE  TypeOK'
  <2>1. Depth(t) > 0 /\ Pop(t)
    BY <1>2 DEF Add, Del, Clear, Count, NotifyRefused, NotifyReturns, Waits
  <2>2. Top(t) \in Frames
    BY <2>1, StackFacts
  <2>3. /\ m_list' \in [Observables -> SUBSET Elements]
        /\ \A o \in Observables : \A e \in m_list'[o] : e.to \in Observers(o)
    <3>1. CASE Add(t)
      <4>1. PICK x \in Named(t) : m_list' = m_list \/ m_list' = Insert(t, x)
        BY <3>1 DEF Add
      <4> DEFINE p == Top(t).o
      <4>2. p \in Observables /\ x \in Elements /\ x.to \in Observers(p)
        BY <2>2 DEF Frames, Named, Elements, Observers
      <4>3. m_list' = m_list \/ m_list' = [m_list EXCEPT ![p] = @ \cup {x}]
        BY <4>1 DEF Insert
      <4>4. m_list \in [Observables -> SUBSET Elements]
        BY DEF TypeOK
      <4> HIDE DEF p
      <4>5. m_list' \in [Observables -> SUBSET Elements]
        BY <4>2, <4>3, <4>4
      <4>6. \A o \in Observables : \A e \in m_list'[o] : e \in m_list[o] \/ (o = p /\ e = x)
        BY <4>2, <4>3, <4>4
      <4> QED BY <4>2, <4>5, <4>6 DEF TypeOK
    <3>2. CASE ~Add(t)
      <4>1. \/ UNCHANGED m_list
            \/ \E x : m_list' = [m_list EXCEPT ![Top(t).o] = @ \ {x}]
            \/ m_list' = [m_list EXCEPT ![Top(t).o] = {}]
        BY <1>2, <3>2 DEF Del, Clear, Count, NotifyRefused, NotifyReturns
      <4>2. PICK p : p = Top(t).o
        OBVIOUS
      <4>3. m_list \in [Observables -> SUBSET Elements]
        BY DEF TypeOK
      <4>4. /\ m_list' \in [Observables -> SUBSET Elements]
            /\ \A o \in Observables : m_list'[o] \subseteq m_list[o]
        BY <4>1, <4>2, <4>3
      <4> QED BY <4>4 DEF TypeOK
    <3> QED BY <3>1, <3>2
  <2>4. m_mtx' \in [Observables -> Threads \cup {None}] /\ UNCHANGED <<inbox, shut, calls>>
    BY <1>2 DEF Add, Del, Clear, Count, NotifyRefused, NotifyReturns, TypeOK
  <2> QED BY <2>1, <2>3, <2>4, PopFacts DEF TypeOK
<1>3. ASSUME NEW t \in Threads, Notify(t) PROVE TypeOK'
  <2>0. PICK id \in MsgIds :
            stack' = [stack EXCEPT ![t] =
                          Replace(t, [Top(t) EXCEPT !.todo = Wanted(t, id), !.locked = TRUE])]
    BY <1>3 DEF Notify, BeginWalk
  <2> DEFINE f == [Top(t) EXCEPT !.todo = Wanted(t, id), !.locked = TRUE]
  <2>1. Depth(t) > 0 /\ Top(t) \in Frames /\ Top(t).name = "Notify"
    BY <1>3, StackFacts DEF Notify, Waits
  <2>2. f \in Frames
    BY <2>1 DEF Frames, Wanted, TypeOK
  <2>3. stack' = [stack EXCEPT ![t] = Replace(t, f)]
    BY <2>0
  <2> HIDE DEF f
  <2>4. stack' \in [Threads -> Seq(Frames)]
    <3>1. PICK x \in Frames : x = f
      BY <2>2
    <3> QED BY <2>1, <2>3, <3>1, ReplaceFacts DEF ReplaceOf
  <2>5. m_mtx' \in [Observables -> Threads \cup {None}]
    BY <1>3, <2>1 DEF Notify, TypeOK, Frames
  <2> QED BY <1>3, <2>4, <2>5 DEF Notify, TypeOK
<1>4. ASSUME NEW t \in Threads, NEW e \in Elements, TellQueue(t, e) \/ TellFunction(t, e)
      PROVE  TypeOK'
  <2> DEFINE f == [Top(t) EXCEPT !.todo = @ \ {e}]
  <2>1. Depth(t) > 0 /\ Top(t) \in Frames /\ e \in Top(t).todo
    BY <1>4, StackFacts DEF TellQueue, TellFunction, Telling, Top
  <2>2. f \in Frames
    BY <2>1 DEF Frames
  <2>3. e \in m_list[Top(t).o]
    BY <2>1, StackFacts DEF LockInv, FrameInv, Top
  <2>4. stack' \in [Threads -> Seq(Frames)]
    <3>1. PICK x \in Frames : x = f
      BY <2>2
    <3>2. ASSUME stack' = [stack EXCEPT ![t] = Replace(t, f)]
          PROVE  stack' \in [Threads -> Seq(Frames)]
      <4> HIDE DEF f
      <4> QED BY <2>1, <3>1, <3>2, ReplaceFacts DEF ReplaceOf
    <3>3. ASSUME Top(t).o \in ObsF, Uses[e.to] # None, NEW c \in Calls(Uses[e.to]),
                 stack' = [stack EXCEPT ![t] = Append(Replace(t, f), c)]
          PROVE  stack' \in [Threads -> Seq(Frames)]
      <4>1. Uses[e.to] \in Observables
        BY <2>3, <3>3 DEF TypeOK, Observers, Observables
      <4>2. PICK y \in Frames : y = c
        BY <4>1 DEF Calls, Frames
      <4> HIDE DEF f
      <4>3. stack' = [stack EXCEPT ![t] = Nested(t, x, y)]
        BY <3>1, <3>3, <4>2 DEF Nested
      <4> QED BY <2>1, <4>3, NestFacts DEF NestOf
    <3> QED BY <1>4, <3>2, <3>3 DEF TellQueue, TellFunction, Told
  <2> QED BY <1>4, <2>4 DEF TellQueue, TellFunction, TypeOK
<1>5. ASSUME NEW d \in Fds, Receive(d) \/ Close(d) PROVE TypeOK'
  <2>1. /\ inbox' \in [Fds -> Nat] /\ shut' \in SUBSET Fds /\ calls' \in Nat
        /\ UNCHANGED <<m_list, m_mtx, stack>>
    BY <1>5 DEF Receive, Close, TypeOK
  <2> QED BY <2>1 DEF TypeOK, Depth
<1>6. CASE UNCHANGED vars
  BY <1>6 DEF vars, TypeOK, Depth
<1> QED BY <1>1, <1>2, <1>3, <1>4, <1>5, <1>6 DEF Next, Continue

LEMMA InitInv == Init => TypeOK /\ LockInv
<1> SUFFICES ASSUME Init PROVE TypeOK /\ LockInv
  OBVIOUS
<1>1. \A t \in Threads : stack[t] = <<>> /\ Depth(t) = 0
  BY DEF Init, Depth
<1>2. stack \in [Threads -> Seq(Frames)]
  BY DEF Init
<1> QED BY <1>1, <1>2, ObservableAssumption DEF Init, TypeOK, LockInv, FrameInv

\* A frame whose mutex is held keeps its instance's list: Add(), Del() and Clear()
\* wait for the mutex.
LEMMA LockStep == TypeOK /\ LockInv /\ [Next]_vars => LockInv'
<1> SUFFICES ASSUME TypeOK, LockInv, [Next]_vars PROVE LockInv'
  OBVIOUS
<1> USE ObservableAssumption
<1>f. \A t \in Threads : \A k \in 1..Depth(t) : stack[t][k] \in Frames /\ FrameInv(t, k)
  BY StackFacts DEF LockInv
<1>m. \A o \in Observables : m_mtx[o] # None =>
          \E k \in 1..Depth(m_mtx[o]) : stack[m_mtx[o]][k].locked /\ stack[m_mtx[o]][k].o = o
  BY DEF LockInv
<1>d. \A t \in Threads : Depth(t) \in Nat
  BY StackFacts
<1>1. ASSUME NEW t \in Threads, NEW o \in Observables, NEW c \in Calls(o), Call(t, c)
      PROVE  LockInv'
  <2>1. c \in Frames /\ ~c.locked /\ c.todo = {}
    BY DEF Calls, Frames, Observers, Observables
  <2>2. /\ \A u \in Threads \ {t} : stack'[u] = stack[u]
        /\ stack'[t] = <<c>> /\ Len(stack'[t]) = 1 /\ stack'[t][1] = c
        /\ Depth(t) = 0 /\ UNCHANGED <<m_list, m_mtx>>
    BY <1>1 DEF Call, TypeOK
  <2>3. ASSUME NEW u \in Threads, NEW k \in 1..Len(stack'[u]) PROVE FrameInv(u, k)'
    <3>1. CASE u = t
      <4>0. stack'[u][1] = c /\ Len(stack'[u]) = 1 /\ k \in 1..Len(stack'[u])
        BY <2>2, <3>1, Zenon
      <4>1. stack'[u][k] = c /\ Len(stack'[u]) = 1 /\ k = 1
        BY <4>0
      <4>2. ~stack'[u][k].locked /\ stack'[u][k].todo = {} /\ ~(k < Len(stack'[u]))
        BY <2>1, <4>1
      <4> QED BY <4>2 DEF FrameInv, Depth
    <3>2. CASE u # t
      BY <1>f, <2>2, <3>2, SMTT(30) DEF FrameInv, Depth
    <3> QED BY <3>1, <3>2
  <2>4. ASSUME NEW p \in Observables, m_mtx'[p] # None
        PROVE  \E k \in 1..Len(stack'[m_mtx'[p]]) :
                   stack'[m_mtx'[p]][k].locked /\ stack'[m_mtx'[p]][k].o = p
    <3>1. m_mtx[p] \in Threads /\ m_mtx'[p] = m_mtx[p]
      BY <2>2, <2>4 DEF TypeOK
    <3>2. m_mtx[p] # t
      BY <1>m, <2>2, <3>1
    <3> QED BY <1>m, <2>2, <3>1, <3>2 DEF Depth
  <2> QED BY <2>3, <2>4 DEF LockInv, Depth
<1>2. ASSUME NEW t \in Threads,
             Add(t) \/ Del(t) \/ Clear(t) \/ Count(t) \/ NotifyRefused(t) \/ NotifyReturns(t)
      PROVE  LockInv'
  <2> DEFINE p == Top(t).o
             n == Depth(t)
  <2>0. n > 0 /\ Pop(t) /\ p \in Observables /\ n \in Nat /\ stack[t][n].o = p /\ FrameInv(t, n)
    BY <1>2, <1>f, StackFacts
    DEF Add, Del, Clear, Count, NotifyRefused, NotifyReturns, Waits, Frames, Top
  <2>1. /\ m_mtx'[p] = None /\ \A o \in Observables \ {p} : m_mtx'[o] = m_mtx[o]
        /\ \A u \in Threads : \A k \in 1..Depth(u) :
               stack[u][k].locked /\ stack[u][k].o = p => u = t /\ k = n
    <3>1. CASE NotifyReturns(t)
      <4>1. stack[t][n].locked /\ m_mtx' = [m_mtx EXCEPT ![p] = None]
        BY <3>1 DEF NotifyReturns, Top
      <4> QED BY <1>f, <2>0, <4>1 DEF FrameInv, TypeOK
    <3>2. CASE ~NotifyReturns(t)
      <4>1. m_mtx[p] = None /\ UNCHANGED m_mtx
        BY <1>2, <3>2 DEF Add, Del, Clear, Count, NotifyRefused, Waits
      <4> QED BY <1>f, <4>1 DEF FrameInv
    <3> QED BY <3>1, <3>2
  <2>2. \A o \in Observables \ {p} : m_list'[o] = m_list[o]
    BY <1>2 DEF Add, Insert, Del, Clear, Count, NotifyRefused, NotifyReturns, TypeOK
  <2>3. /\ \A u \in Threads \ {t} : stack'[u] = stack[u]
        /\ Len(stack'[t]) = n - 1
        /\ \A k \in 1..(n - 1) : stack'[t][k] = stack[t][k]
        /\ \A u \in Threads : \A k \in 1..Len(stack'[u]) :
               k \in 1..Depth(u) /\ stack'[u][k] = stack[u][k]
    BY <2>0, PopFacts
  <2> HIDE DEF p, n
  <2>4. ASSUME NEW u \in Threads, NEW k \in 1..Len(stack'[u]) PROVE FrameInv(u, k)'
    <3>1. /\ k \in 1..Depth(u) /\ stack'[u][k] = stack[u][k] /\ FrameInv(u, k)
          /\ stack[u][k].o \in Observables
      BY <1>f, <2>3 DEF Frames
    <3>2. stack[u][k].locked => stack[u][k].o # p
      BY <2>0, <2>1, <2>3, <3>1
    <3>3. k < Len(stack'[u]) => k < Depth(u) /\ stack'[u][k + 1] = stack[u][k + 1]
      <4> SUFFICES ASSUME k < Len(stack'[u])
                   PROVE  k < Depth(u) /\ stack'[u][k + 1] = stack[u][k + 1]
        OBVIOUS
      <4>1. Len(stack'[u]) \in Nat
        BY <1>d, <2>0, <2>3 DEF Depth, n
      <4>2. k + 1 \in 1..Len(stack'[u])
        BY <4>1
      <4> QED BY <1>d, <2>3, <4>2
    <3>4. \A j \in 1..Len(stack'[u]) : j \in 1..Depth(u) /\ stack'[u][j] = stack[u][j]
      BY <2>3
    <3>5. stack'[u][k].locked =>
              /\ m_mtx'[stack'[u][k].o] = u
              /\ \A j \in 1..Len(stack'[u]) :
                     stack'[u][j].locked /\ stack'[u][j].o = stack'[u][k].o => j = k
      BY <2>1, <3>1, <3>2, <3>4 DEF FrameInv
    <3>6. stack'[u][k].todo # {} =>
              stack'[u][k].locked /\ stack'[u][k].todo \subseteq m_list'[stack'[u][k].o]
      BY <2>2, <3>1, <3>2 DEF FrameInv
    <3>7. k < Len(stack'[u]) =>
              /\ stack'[u][k].locked /\ stack'[u][k].o \in ObsF
              /\ \E e \in m_list'[stack'[u][k].o] : Uses[e.to] = stack'[u][k + 1].o
      BY <2>2, <3>1, <3>2, <3>3 DEF FrameInv
    <3> QED BY <3>5, <3>6, <3>7 DEF FrameInv, Depth
  <2>5. ASSUME NEW o \in Observables, m_mtx'[o] # None
        PROVE  \E k \in 1..Len(stack'[m_mtx'[o]]) :
                   stack'[m_mtx'[o]][k].locked /\ stack'[m_mtx'[o]][k].o = o
    <3>1. o # p /\ m_mtx[o] \in Threads /\ m_mtx'[o] = m_mtx[o]
      BY <2>1, <2>5 DEF TypeOK
    <3>2. PICK k \in 1..Depth(m_mtx[o]) :
              stack[m_mtx[o]][k].locked /\ stack[m_mtx[o]][k].o = o
      BY <1>m, <2>5, <3>1
    <3>3. CASE m_mtx[o] = t
      <4>1. k # n /\ k \in 1..n
        BY <2>0, <3>1, <3>2, <3>3 DEF n
      <4>2. k \in 1..(n - 1)
        BY <2>0, <4>1
      <4> QED BY <2>3, <3>1, <3>2, <3>3, <4>2
    <3>4. CASE m_mtx[o] # t
      BY <2>3, <3>1, <3>2, <3>4 DEF Depth
    <3> QED BY <3>3, <3>4
  <2> QED BY <2>4, <2>5 DEF LockInv, Depth
<1>3. ASSUME NEW t \in Threads, NEW f \in Frames, Depth(t) > 0,
             stack' = [stack EXCEPT ![t] = Replace(t, f)], UNCHANGED m_list,
             f.o = Top(t).o, f.locked, f.todo \subseteq m_list[f.o],
             m_mtx' = [m_mtx EXCEPT ![f.o] = t],
             Top(t).locked \/ m_mtx[f.o] = None
      PROVE  LockInv'
  <2> DEFINE p == f.o
             n == Depth(t)
  <2>0. n > 0 /\ n \in Nat /\ p \in Observables /\ stack[t][n].o = p /\ FrameInv(t, n)
    BY <1>3, <1>f, <1>d DEF Frames, Top
  <2>a. m_mtx'[p] = t /\ \A o \in Observables \ {p} : m_mtx'[o] = m_mtx[o]
    BY <1>3, <2>0 DEF TypeOK
  <2>b. \A u \in Threads : \A k \in 1..Depth(u) :
            stack[u][k].locked => m_mtx[stack[u][k].o] = u
    BY <1>f DEF FrameInv
  <2>c. None \notin Threads /\ n \in 1..n /\ Depth(t) = n
    BY <2>0, ObservableAssumption
  <2>e. Top(t) = stack[t][n]
    BY DEF Top
  <2>g. ASSUME NEW u \in Threads, NEW k \in 1..Depth(u), stack[u][k].locked, stack[u][k].o = p
        PROVE  u = t /\ k = n
    <3>1. m_mtx[p] = u /\ Top(t).locked
      BY <1>3, <2>b, <2>c, <2>g
    <3>2. m_mtx[p] = t
      BY <2>0, <2>b, <2>c, <2>e, <3>1
    <3>3. \A j \in 1..Depth(t) : stack[t][j].locked /\ stack[t][j].o = stack[t][n].o => j = n
      BY <2>0, <2>e, <3>1 DEF FrameInv
    <3> QED BY <2>0, <2>g, <3>1, <3>2, <3>3
  <2>1. /\ m_mtx'[p] = t /\ \A o \in Observables \ {p} : m_mtx'[o] = m_mtx[o]
        /\ \A u \in Threads : \A k \in 1..Depth(u) :
               stack[u][k].locked /\ stack[u][k].o = p => u = t /\ k = n
    BY <2>a, <2>g
  <2>3. /\ \A u \in Threads \ {t} : stack'[u] = stack[u]
        /\ Len(stack'[t]) = n /\ stack'[t][n] = f
        /\ \A k \in 1..(n - 1) : stack'[t][k] = stack[t][k]
        /\ \A u \in Threads : \A k \in 1..Len(stack'[u]) :
               /\ k \in 1..Depth(u)
               /\ stack'[u][k] = IF u = t /\ k = n THEN f ELSE stack[u][k]
    <3>1. ReplaceOf(t, f)
      BY <1>3, ReplaceFacts
    <3> QED BY <3>1 DEF ReplaceOf
  <2>o. \A u \in Threads : Len(stack'[u]) = Depth(u)
    BY <2>3 DEF Depth
  <2> HIDE DEF p, n
  <2>4. ASSUME NEW u \in Threads, NEW k \in 1..Depth(u) PROVE FrameInv(u, k)'
    <3>1. FrameInv(u, k) /\ stack[u][k].o \in Observables /\ Len(stack'[u]) = Depth(u)
      BY <1>f, <2>o DEF Frames
    <3>2. \A j \in 1..Depth(u) :
              stack'[u][j] = (IF u = t /\ j = n THEN f ELSE stack[u][j])
              /\ stack'[u][j].o = stack[u][j].o
      BY <2>0, <2>3, <3>1 DEF p
    <3>3. k < Depth(u) => k + 1 \in 1..Depth(u) /\ ~(u = t /\ k = n)
      BY <1>d DEF n
    <3>5. stack'[u][k].locked =>
              /\ m_mtx'[stack'[u][k].o] = u
              /\ \A j \in 1..Len(stack'[u]) :
                     stack'[u][j].locked /\ stack'[u][j].o = stack'[u][k].o => j = k
      <4>1. CASE u = t /\ k = n
        BY <2>0, <2>1, <3>1, <3>2, <4>1
      <4>2. CASE ~(u = t /\ k = n)
        BY <2>0, <2>1, <3>1, <3>2, <4>2 DEF FrameInv
      <4> QED BY <4>1, <4>2
    <3>6. stack'[u][k].todo # {} =>
              stack'[u][k].locked /\ stack'[u][k].todo \subseteq m_list'[stack'[u][k].o]
      BY <1>3, <3>1, <3>2 DEF FrameInv
    <3>7. k < Len(stack'[u]) =>
              /\ stack'[u][k].locked /\ stack'[u][k].o \in ObsF
              /\ \E e \in m_list'[stack'[u][k].o] : Uses[e.to] = stack'[u][k + 1].o
      BY <1>3, <3>1, <3>2, <3>3 DEF FrameInv
    <3> QED BY <3>5, <3>6, <3>7 DEF FrameInv, Depth
  <2>5. ASSUME NEW o \in Observables, m_mtx'[o] # None
        PROVE  \E k \in 1..Len(stack'[m_mtx'[o]]) :
                   stack'[m_mtx'[o]][k].locked /\ stack'[m_mtx'[o]][k].o = o
    <3>1. CASE o = p
      <4>1. n \in 1..Len(stack'[t])
        BY <2>0, <2>3
      <4> QED BY <1>3, <2>1, <2>3, <3>1, <4>1 DEF p
    <3>2. CASE o # p
      <4>1. m_mtx[o] \in Threads /\ m_mtx'[o] = m_mtx[o]
        BY <2>1, <2>5, <3>2 DEF TypeOK
      <4>2. PICK k \in 1..Depth(m_mtx[o]) :
                stack[m_mtx[o]][k].locked /\ stack[m_mtx[o]][k].o = o
        BY <1>m, <2>5, <4>1
      <4>3. ~(m_mtx[o] = t /\ k = n)
        BY <2>0, <3>2, <4>2
      <4> QED BY <2>3, <2>o, <4>1, <4>2, <4>3
    <3> QED BY <3>1, <3>2
  <2> QED BY <2>4, <2>5, <2>o DEF LockInv, Depth
<1>4. ASSUME NEW t \in Threads, NEW f \in Frames, NEW c \in Frames, Depth(t) > 0,
             stack' = [stack EXCEPT ![t] = Nested(t, f, c)], UNCHANGED <<m_list, m_mtx>>,
             Top(t).locked, f.locked, f.o = Top(t).o, f.o \in ObsF,
             f.todo \subseteq m_list[f.o], \E e \in m_list[f.o] : Uses[e.to] = c.o,
             ~c.locked, c.todo = {}
      PROVE  LockInv'
  <2> DEFINE p == f.o
             n == Depth(t)
  <2>0. /\ n > 0 /\ n \in Nat /\ p \in Observables /\ stack[t][n].o = p /\ FrameInv(t, n)
        /\ stack[t][n].locked /\ m_mtx[p] = t
    BY <1>4, <1>f, <1>d DEF Frames, Top, FrameInv
  <2>1. \A u \in Threads : \A k \in 1..Depth(u) :
            stack[u][k].locked /\ stack[u][k].o = p => u = t /\ k = n
    BY <1>f, <2>0 DEF FrameInv
  <2>3. /\ \A u \in Threads \ {t} : stack'[u] = stack[u]
        /\ Len(stack'[t]) = n + 1 /\ stack'[t][n + 1] = c /\ stack'[t][n] = f
        /\ \A k \in 1..(n - 1) : stack'[t][k] = stack[t][k]
        /\ \A u \in Threads : \A k \in 1..Len(stack'[u]) :
               \/ k = n + 1 /\ u = t /\ stack'[u][k] = c
               \/ /\ k \in 1..Depth(u)
                  /\ stack'[u][k] = IF u = t /\ k = n THEN f ELSE stack[u][k]
    <3>1. NestOf(t, f, c)
      BY <1>4, NestFacts
    <3> QED BY <3>1 DEF NestOf
  <2>o. \A u \in Threads : \A k \in 1..Depth(u) :
            /\ k \in 1..Len(stack'[u]) /\ (u # t => Len(stack'[u]) = Depth(u))
            /\ stack'[u][k] = IF u = t /\ k = n THEN f ELSE stack[u][k]
    BY <1>d, <2>0, <2>3 DEF Depth
  <2> HIDE DEF p, n
  <2>4. ASSUME NEW u \in Threads, NEW k \in 1..Len(stack'[u]) PROVE FrameInv(u, k)'
    <3>1. CASE u = t /\ k = n + 1
      <4>1. ~stack'[u][k].locked /\ stack'[u][k].todo = {} /\ ~(k < Len(stack'[u]))
        BY <1>4, <2>0, <2>3, <3>1
      <4> QED BY <4>1 DEF FrameInv, Depth
    <3>2. CASE ~(u = t /\ k = n + 1)
      <4>1. k \in 1..Depth(u) /\ FrameInv(u, k) /\ stack[u][k].o \in Observables
        BY <1>f, <2>3, <3>2 DEF Frames
      <4>2. \A j \in 1..Depth(u) :
                stack'[u][j] = (IF u = t /\ j = n THEN f ELSE stack[u][j])
                /\ stack'[u][j].o = stack[u][j].o
        BY <2>0, <2>o DEF p
      <4>3. stack'[u][k].locked =>
                /\ m_mtx[stack'[u][k].o] = u
                /\ \A j \in 1..Len(stack'[u]) :
                       stack'[u][j].locked /\ stack'[u][j].o = stack'[u][k].o => j = k
        <5> SUFFICES ASSUME stack'[u][k].locked
                     PROVE  /\ m_mtx[stack'[u][k].o] = u
                            /\ \A j \in 1..Len(stack'[u]) :
                                   stack'[u][j].locked /\ stack'[u][j].o = stack'[u][k].o => j = k
          OBVIOUS
        <5>1. stack[u][k].locked
          BY <2>0, <4>1, <4>2
        <5>2. \A j \in 1..Len(stack'[u]) :
                  stack'[u][j].locked => j \in 1..Depth(u) /\ stack[u][j].locked
          BY <1>4, <2>0, <2>3
        <5> QED BY <4>1, <4>2, <5>1, <5>2 DEF FrameInv
      <4>4. stack'[u][k].todo # {} =>
                stack'[u][k].locked /\ stack'[u][k].todo \subseteq m_list[stack'[u][k].o]
        BY <1>4, <4>1, <4>2 DEF FrameInv, p
      <4>5. k < Len(stack'[u]) =>
                /\ stack'[u][k].locked /\ stack'[u][k].o \in ObsF
                /\ \E e \in m_list[stack'[u][k].o] : Uses[e.to] = stack'[u][k + 1].o
        <5>1. CASE u = t /\ k = n
          BY <1>4, <2>3, <5>1
        <5>2. CASE ~(u = t /\ k = n)
          <6>1. k < Len(stack'[u]) => k < Depth(u) /\ k + 1 \in 1..Depth(u)
            BY <1>d, <2>0, <2>3, <2>o, <4>1, <5>2 DEF n, Depth
          <6> QED BY <4>1, <4>2, <5>2, <6>1 DEF FrameInv
        <5> QED BY <5>1, <5>2
      <4> QED BY <1>4, <4>3, <4>4, <4>5 DEF FrameInv, Depth
    <3> QED BY <3>1, <3>2
  <2>5. ASSUME NEW o \in Observables, m_mtx[o] # None
        PROVE  \E k \in 1..Len(stack'[m_mtx[o]]) :
                   stack'[m_mtx[o]][k].locked /\ stack'[m_mtx[o]][k].o = o
    <3>1. m_mtx[o] \in Threads
      BY <2>5 DEF TypeOK
    <3>2. PICK k \in 1..Depth(m_mtx[o]) :
              stack[m_mtx[o]][k].locked /\ stack[m_mtx[o]][k].o = o
      BY <1>m, <2>5
    <3> QED BY <1>4, <2>0, <2>o, <3>1, <3>2 DEF p
  <2> QED BY <1>4, <2>4, <2>5 DEF LockInv, Depth
<1>5. ASSUME NEW t \in Threads, Notify(t) PROVE LockInv'
  <2>0. PICK id \in MsgIds :
            stack' = [stack EXCEPT ![t] =
                          Replace(t, [Top(t) EXCEPT !.todo = Wanted(t, id), !.locked = TRUE])]
    BY <1>5 DEF Notify, BeginWalk
  <2> DEFINE g == [Top(t) EXCEPT !.todo = Wanted(t, id), !.locked = TRUE]
  <2>1. Depth(t) > 0 /\ Top(t) \in Frames
    BY <1>5, StackFacts DEF Notify, Waits
  <2>2. /\ g \in Frames /\ g.o = Top(t).o /\ g.locked /\ g.todo \subseteq m_list[g.o]
    BY <2>1 DEF Frames, Wanted, TypeOK
  <2>3. /\ stack' = [stack EXCEPT ![t] = Replace(t, g)]
        /\ m_mtx' = [m_mtx EXCEPT ![g.o] = t] /\ UNCHANGED m_list /\ m_mtx[g.o] = None
    BY <1>5, <2>0, <2>2 DEF Notify, Waits
  <2> HIDE DEF g
  <2>4. PICK f \in Frames : f = g
    BY <2>2
  <2> QED BY <1>3, <2>1, <2>2, <2>3, <2>4
<1>6. ASSUME NEW t \in Threads, NEW e \in Elements, TellQueue(t, e) \/ TellFunction(t, e)
      PROVE  LockInv'
  <2> DEFINE g == [Top(t) EXCEPT !.todo = @ \ {e}]
  <2>1. /\ Depth(t) > 0 /\ Top(t) \in Frames /\ Top(t).locked /\ e \in Top(t).todo
        /\ m_mtx[Top(t).o] = t /\ Top(t).todo \subseteq m_list[Top(t).o]
    BY <1>6, <1>f, StackFacts DEF TellQueue, TellFunction, Telling, Top, FrameInv
  <2>2. /\ g \in Frames /\ g.o = Top(t).o /\ g.locked /\ g.todo \subseteq m_list[g.o]
        /\ Told(t, e) = Replace(t, g)
    BY <2>1 DEF Frames, Told
  <2>3. m_mtx = [m_mtx EXCEPT ![g.o] = t]
    BY <2>1, <2>2 DEF TypeOK, Frames
  <2>4. UNCHANGED <<m_list, m_mtx>>
    BY <1>6 DEF TellQueue, TellFunction
  <2> HIDE DEF g
  <2>5. PICK f \in Frames : f = g
    BY <2>2
  <2>6. CASE stack' = [stack EXCEPT ![t] = Told(t, e)]
    BY <1>3, <2>1, <2>2, <2>3, <2>4, <2>5, <2>6
  <2>7. ASSUME Top(t).o \in ObsF, Uses[e.to] # None, NEW c \in Calls(Uses[e.to]),
               stack' = [stack EXCEPT ![t] = Append(Told(t, e), c)]
        PROVE  LockInv'
    <3>1. Uses[e.to] \in Observables
      BY <2>1, <2>7 DEF TypeOK, Frames, Observers, Observables
    <3>2. c \in Frames /\ ~c.locked /\ c.todo = {} /\ c.o = Uses[e.to]
      BY <3>1 DEF Calls, Frames, Observers, Observables
    <3>3. PICK d \in Frames : d = c
      BY <3>2
    <3>4. stack' = [stack EXCEPT ![t] = Nested(t, f, d)]
      BY <2>2, <2>5, <2>7, <3>3 DEF Nested
    <3>5. \E x \in m_list[f.o] : Uses[x.to] = d.o
      BY <2>1, <2>2, <2>5, <3>2, <3>3
    <3> QED BY <1>4, <2>1, <2>2, <2>4, <2>5, <2>7, <3>2, <3>3, <3>4, <3>5
  <2> QED BY <1>6, <2>6, <2>7 DEF TellQueue, TellFunction
<1>7. ASSUME NEW d \in Fds, Receive(d) \/ Close(d) PROVE LockInv'
  BY <1>7 DEF Receive, Close, LockInv, FrameInv, Depth
<1>8. CASE UNCHANGED vars
  BY <1>8 DEF vars, LockInv, FrameInv, Depth
<1> QED BY <1>1, <1>2, <1>5, <1>6, <1>7, <1>8 DEF Next, Continue

LEMMA Invariance == SafetySpec => [](TypeOK /\ LockInv)
<1>1. Init => TypeOK /\ LockInv
  BY InitInv
<1>2. TypeOK /\ LockInv /\ [Next]_vars => (TypeOK /\ LockInv)'
  BY TypeStep, LockStep
<1> QED BY <1>1, <1>2, PTL DEF SafetySpec

\* Notify() tells only observers that are still listed, for any number of threads
\* and instances and whatever the functions do.
THEOREM ToldAreListed == Spec => []PendingIsListed
<1>1. TypeOK /\ LockInv => PendingIsListed
  <2> SUFFICES ASSUME TypeOK, LockInv, NEW t \in Threads, NEW k \in 1..Depth(t)
               PROVE  stack[t][k].todo \subseteq m_list[stack[t][k].o]
    BY DEF PendingIsListed
  <2>1. FrameInv(t, k)
    BY DEF LockInv
  <2> QED BY <2>1 DEF FrameInv
<1> QED BY <1>1, Invariance, PTL DEF Spec

\* Threads are stuck in m_mtx only if instances call each other in a cycle: the
\* instances of the calls that the stuck threads are in.
THEOREM StuckOnlyInACycle == Spec => []StuckOnlyInCycle
<1>1. TypeOK /\ LockInv => StuckOnlyInCycle
  <2> SUFFICES ASSUME TypeOK, LockInv, NEW S \in SUBSET Threads, Stuck(S)
               PROVE  \E O \in SUBSET Observables : Cycle(O)
    BY DEF StuckOnlyInCycle
  <2> USE ObservableAssumption
  <2> DEFINE O == {o \in Observables : \E t \in S : \E k \in 1..Depth(t) : stack[t][k].o = o}
  <2>1. \A t \in S : \A k \in 1..Depth(t) :
            FrameInv(t, k) /\ stack[t][k] \in Frames /\ stack[t][k].o \in O
    BY StackFacts DEF LockInv, Frames
  <2>2. ASSUME NEW t \in S, NEW k \in 1..Depth(t), k # Depth(t)
        PROVE  stack[t][k].o \in ObsF /\ \E e \in m_list[stack[t][k].o] : Uses[e.to] \in O
    <3>1. Depth(t) \in Nat
      BY StackFacts
    <3>2. k < Depth(t) /\ k + 1 \in 1..Depth(t)
      BY <2>2, <3>1
    <3> QED BY <2>1, <3>2 DEF FrameInv
  <2>3. ASSUME NEW t \in S
        PROVE  \E u \in S : \E k \in 1..Depth(u) :
                   k # Depth(u) /\ stack[u][k].o = stack[t][Depth(t)].o
    <3>1. Depth(t) > 0 /\ Depth(t) \in Nat /\ m_mtx[Top(t).o] \in S
      BY StackFacts DEF Stuck
    <3>2. Top(t).o \in Observables /\ m_mtx[Top(t).o] # None
      BY <2>1, <3>1, StackFacts DEF Frames
    <3>3. PICK k \in 1..Depth(m_mtx[Top(t).o]) :
              /\ stack[m_mtx[Top(t).o]][k].locked
              /\ stack[m_mtx[Top(t).o]][k].o = Top(t).o
      BY <3>2 DEF LockInv
    <3>4. ~Top(m_mtx[Top(t).o]).locked
      BY <3>1 DEF Stuck
    <3> QED BY <3>1, <3>3, <3>4 DEF Top
  <2>4. ASSUME NEW o \in O PROVE o \in ObsF /\ \E e \in m_list[o] : Uses[e.to] \in O
    <3>1. PICK t \in S : \E k \in 1..Depth(t) : stack[t][k].o = o
      OBVIOUS
    <3>2. PICK k \in 1..Depth(t) : stack[t][k].o = o
      BY <3>1
    <3>3. CASE k = Depth(t)
      <4>1. PICK u \in S : \E j \in 1..Depth(u) : j # Depth(u) /\ stack[u][j].o = o
        BY <2>3, <3>2, <3>3
      <4>2. PICK j \in 1..Depth(u) : j # Depth(u) /\ stack[u][j].o = o
        BY <4>1
      <4> HIDE DEF O
      <4> QED BY <2>2, <4>2
    <3>4. CASE k # Depth(t)
      <4> HIDE DEF O
      <4> QED BY <2>2, <3>2, <3>4
    <3> QED BY <3>3, <3>4
  <2>5. O # {}
    <3>1. PICK t \in S : Depth(t) > 0 /\ Depth(t) \in Nat
      BY StackFacts DEF Stuck
    <3>2. Depth(t) \in 1..Depth(t)
      BY <3>1
    <3> QED BY <2>1, <3>2
  <2>6. O \in SUBSET Observables
    OBVIOUS
  <2> HIDE DEF O
  <2> QED BY <2>4, <2>5, <2>6 DEF Cycle
<1> QED BY <1>1, Invariance, PTL DEF Spec

=============================================================================
