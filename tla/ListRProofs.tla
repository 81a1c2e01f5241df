---------------------------- MODULE ListRProofs ----------------------------
(* Theorems about ListR (src/project/utils/list_r.hpp) for any number of     *)
(* threads, nodes and calls.                                                 *)
EXTENDS ListR, TLAPS, FiniteSetTheorems

ListInv == ListTypeOK /\ LinkInv /\ HandInv /\ WalkInv

LEMMA ListInit == Init => ListInv
<1> SUFFICES ASSUME Init PROVE ListInv
  OBVIOUS
<1> USE ListRAssumption DEF Init
<1>1. ListTypeOK
  BY DEF ListTypeOK, Labels, Cells
<1>2. LinkInv
  <2>1. Linked = {}
    BY DEF Linked
  <2> QED BY <2>1 DEF LinkInv, Cells
<1>3. HandInv
  BY DEF HandInv, HandAt, HasDetached
<1>4. WalkInv
  BY DEF WalkInv, WalkAt, Walking
<1> QED BY <1>1, <1>2, <1>3, <1>4 DEF ListInv

----------------------------------------------------------------------------
(* Types                                                                     *)

LEMMA TypeStep == ListTypeOK /\ HandInv /\ [Next]_vars => ListTypeOK'
<1> SUFFICES ASSUME ListTypeOK, HandInv, [Next]_vars PROVE ListTypeOK'
  OBVIOUS
<1> USE ListRAssumption DEF Go, At, shared, local, history, Labels, Cells
<1>0. Linked \subseteq Nodes
  BY DEF Linked, ListTypeOK
<1>1. ASSUME NEW t \in Threads, NEW n \in Nodes, NEW v \in Values, NewNode(t, n, v) PROVE ListTypeOK'
  BY <1>1 DEF NewNode, ListTypeOK
<1>2. ASSUME NEW t \in Threads, NEW name, NEW v, Walk(t, name, v) PROVE ListTypeOK'
  BY <1>2 DEF Walk, ListTypeOK
<1>3. ASSUME NEW t \in Threads, Destroy(t) PROVE ListTypeOK'
  BY <1>3 DEF Destroy, ListTypeOK
<1>4. ASSUME NEW t \in Threads, push_front(t) PROVE ListTypeOK'
  BY <1>4 DEF push_front, ListTypeOK
<1>5. ASSUME NEW t \in Threads, LockHead(t) PROVE ListTypeOK'
  BY <1>0, <1>5 DEF LockHead, ListTypeOK
<1>6. ASSUME NEW t \in Threads, ReadNext(t) PROVE ListTypeOK'
  <2>1. next[cur[t]] \in Nodes
    BY <1>6 DEF ReadNext, ListTypeOK, HandInv, HandAt
  <2> QED BY <1>6, <2>1 DEF ReadNext, ListTypeOK
<1>7. ASSUME NEW t \in Threads, TakeNext(t) \/ Pass(t) \/ UnlockOld(t) PROVE ListTypeOK'
  BY <1>7 DEF TakeNext, AfterTake, Pass, UnlockOld, ListTypeOK
<1>8. ASSUME NEW t \in Threads, Visit(t) PROVE ListTypeOK'
  <2>1. /\ owed' \in [Threads -> SUBSET Nodes] /\ seen' \in [Threads -> SUBSET Nodes]
        /\ UNCHANGED <<next, alive>>
    BY <1>8 DEF Visit, Visited, HandInv, HandAt, ListTypeOK
  <2>2. /\ lock' \in [Cells -> Threads \cup {None}] /\ pc' \in [Threads -> Labels]
        /\ op' = [u \in Threads |-> op'[u]]
    BY <1>8 DEF Visit, Finish, ListTypeOK
  <2>3. cur' \in [Threads -> Cells \cup {None}] /\ nxt' \in [Threads -> Nodes \cup {None}]
    BY <1>8 DEF Visit, Finish, HandInv, HandAt, ListTypeOK
  <2> QED BY <2>1, <2>2, <2>3 DEF ListTypeOK
<1>9. ASSUME NEW t \in Threads, Unlink(t) PROVE ListTypeOK'
  <2>1. cur[t] \in Cells /\ nxt[t] \in Nodes
    BY <1>9 DEF Unlink, HandInv, HandAt
  <2>2. next' \in [Cells -> Nodes \cup {None}]
    BY <1>9, <2>1 DEF Unlink, ListTypeOK
  <2>3. owed' \in [Threads -> SUBSET Nodes] /\ seen' \in [Threads -> SUBSET Nodes]
    BY <1>9 DEF Unlink, ListTypeOK
  <2> QED BY <1>9, <2>2, <2>3 DEF Unlink, ListTypeOK
<1>10. ASSUME NEW t \in Threads, DeleteOld(t) PROVE ListTypeOK'
  BY <1>10 DEF DeleteOld, ListTypeOK
<1>11. ASSUME NEW t \in Threads, EndWalk(t) PROVE ListTypeOK'
  BY <1>11 DEF EndWalk, Finish, ListTypeOK
<1>12. CASE UNCHANGED vars
  BY <1>12 DEF vars, ListTypeOK
<1> QED
  BY <1>1, <1>2, <1>3, <1>4, <1>5, <1>6, <1>7, <1>8, <1>9, <1>10, <1>11, <1>12
  DEF Next, Call, Continue

----------------------------------------------------------------------------
(* The list                                                                  *)

\* A step of thread t, in its own variables.
LEMMA OneThread ==
    ASSUME ListTypeOK, NEW t \in Threads, NEW label, Go(t, label)
    PROVE  pc'[t] = label /\ \A u \in Threads \ {t} : pc'[u] = pc[u]
BY DEF ListTypeOK, Go

\* The list stays as it is and no detached node is linked.
LEMMA LinkFrame ==
    ASSUME LinkInv, UNCHANGED <<next, alive>>,
           \A u \in Threads : HasDetached(u) => HasDetached(u)' /\ nxt'[u] = nxt[u]
    PROVE  LinkInv'
<1>1. Linked' \subseteq Linked
  BY DEF Linked, Detached
<1> QED BY <1>1 DEF LinkInv

\* No cell is next to itself, and nobody works on the cell it comes to.
LEMMA NoSelfLoop ==
    ASSUME LinkInv, NEW n \in Nodes
    PROVE  next[n] # n
<1>1. {n} \in SUBSET Nodes /\ {n} # {}
  OBVIOUS
<1>2. \E m \in {n} : \A k \in {n} : next[k] # m
  BY <1>1 DEF LinkInv
<1> QED BY <1>2

LEMMA LinkNew ==
    ASSUME ListTypeOK, LinkInv, NEW t \in Threads, NEW n \in Nodes, NEW v, NewNode(t, n, v)
    PROVE  LinkInv' /\ next' = next
<1>1. next[n] = None
  BY ListRAssumption DEF LinkInv, NewNode, Cells
<1>2. next' = next
  BY <1>1 DEF NewNode, ListTypeOK
<1>3. Linked' \subseteq Linked
  <2>1. pc'[t] = "push" /\ nxt'[t] = n /\ alive' = alive \cup {n}
        /\ \A u \in Threads \ {t} : pc'[u] = pc[u] /\ nxt'[u] = nxt[u]
    BY DEF NewNode, Go, ListTypeOK
  <2>2. ~HasDetached(t) /\ HasDetached(t)'
    BY <2>1 DEF NewNode, At, HasDetached
  <2>3. \A u \in Threads : HasDetached(u) => HasDetached(u)' /\ nxt'[u] = nxt[u]
    BY <2>1, <2>2 DEF HasDetached
  <2>4. Detached \subseteq Detached' /\ n \in Detached'
    BY <2>1, <2>2, <2>3 DEF Detached
  <2> QED BY <2>1, <2>4 DEF Linked
<1>4. alive' = alive \cup {n}
  BY DEF NewNode
<1> QED BY <1>2, <1>3, <1>4 DEF LinkInv

LEMMA LinkPush ==
    ASSUME ListTypeOK, LinkInv, HandInv, NEW t \in Threads, push_front(t)
    PROVE  LinkInv'
<1> PICK x \in Nodes : x = nxt[t]
  BY DEF push_front, At, HandInv, HandAt, HasDetached, ListTypeOK
<1>1. /\ x \in alive /\ next[x] = None /\ \A c \in Cells : next[c] # x
      /\ HasDetached(t) /\ ~HasDetached(t)'
  BY DEF push_front, At, Go, HandInv, HandAt, HasDetached, ListTypeOK
<1>2. /\ x # Head /\ Head \in Cells /\ x \in Cells /\ alive' = alive /\ x # None
      /\ \A c \in Cells : next'[c] = IF c = x THEN next[Head] ELSE IF c = Head THEN x ELSE next[c]
  BY ListRAssumption DEF push_front, ListTypeOK, Cells
<1>3. \A c \in Cells : next'[c] # None => next'[c] \in alive' /\ c \in alive' \cup {Head}
  BY <1>1, <1>2 DEF LinkInv
<1>4. ASSUME NEW c \in Cells, NEW d \in Cells, next'[c] = next'[d], next'[c] # None
      PROVE  c = d
  BY <1>1, <1>2, <1>4 DEF LinkInv
<1>5. ASSUME NEW n \in Linked' PROVE \E c \in Cells : next'[c] = n
  <2>1. CASE n = x
    BY <1>2, <2>1
  <2>2. CASE n # x
    <3>1. n \in Linked
      <4>1. \A u \in Threads : HasDetached(u) /\ nxt[u] # x => HasDetached(u)' /\ nxt'[u] = nxt[u]
        BY DEF push_front, Go, HasDetached, ListTypeOK
      <4> QED BY <1>2, <2>2, <4>1 DEF Linked, Detached
    <3>2. PICK c \in Cells : next[c] = n
      BY <3>1 DEF LinkInv
    <3>3. c # x
      BY <1>1, <3>1, <3>2, ListRAssumption DEF Linked, ListTypeOK
    <3>4. IF c = Head THEN next'[x] = n ELSE next'[c] = n
      BY <1>2, <3>2, <3>3
    <3> QED BY <1>2, <3>4
  <2> QED BY <2>1, <2>2
<1>6. ASSUME NEW S \in SUBSET Nodes, S # {} PROVE \E n \in S : \A m \in S : next'[m] # n
  <2>1. CASE x \in S
    <3>1. \A m \in S : next'[m] # x
      <4> SUFFICES ASSUME NEW m \in S PROVE next'[m] # x
        OBVIOUS
      <4>1. m \in Cells /\ m # Head
        BY ListRAssumption DEF Cells
      <4> QED BY <1>1, <1>2, <4>1
    <3> QED BY <2>1, <3>1
  <2>2. CASE x \notin S
    <3>1. \A m \in S : next'[m] = next[m]
      BY <1>2, <2>2, ListRAssumption DEF Cells
    <3> QED BY <1>6, <3>1 DEF LinkInv
  <2> QED BY <2>1, <2>2
<1> QED BY <1>3, <1>4, <1>5, <1>6 DEF LinkInv

\* The list around an unlinked node.
LEMMA UnlinkFacts ==
    ASSUME ListTypeOK, LinkInv, HandInv, NEW t \in Threads, Unlink(t),
           NEW c, c = cur[t], NEW x, x = nxt[t]
    PROVE  /\ c \in Cells /\ x \in Nodes /\ x \in Cells /\ c # x /\ next[c] = x /\ next[x] # x
           /\ lock[c] = t /\ lock[x] = t /\ x \in alive
           /\ \A d \in Cells : next[d] = x => d = c
           /\ \A d \in Cells :
                  next'[d] = IF d = x THEN None ELSE IF d = c THEN next[x] ELSE next[d]
           /\ pc[t] = "unlink" /\ pc'[t] = "unlock"
           /\ \A u \in Threads \ {t} : pc'[u] = pc[u]
           /\ UNCHANGED <<alive, lock, cur, nxt>>
<1>1. /\ c \in Cells /\ x \in Nodes /\ x \in Cells /\ next[c] = x
      /\ lock[c] = t /\ lock[x] = t /\ x # None
  BY ListRAssumption DEF Unlink, At, HandInv, HandAt, Cells
<1>2. next[x] # x
  BY <1>1, NoSelfLoop
<1>3. x \in alive /\ \A d \in Cells : next[d] = x => d = c
  BY <1>1 DEF LinkInv
<1>4. next' = [next EXCEPT ![c] = next[x], ![x] = None]
  BY DEF Unlink
<1>5. \A d \in Cells : next'[d] = IF d = x THEN None ELSE IF d = c THEN next[x] ELSE next[d]
  BY <1>1, <1>4 DEF ListTypeOK
<1> QED BY <1>1, <1>2, <1>3, <1>5 DEF Unlink, At, Go, ListTypeOK

LEMMA LinkUnlink ==
    ASSUME ListTypeOK, LinkInv, HandInv, NEW t \in Threads, Unlink(t)
    PROVE  LinkInv'
<1> PICK c, x : c = cur[t] /\ x = nxt[t]
  OBVIOUS
<1>1. /\ c \in Cells /\ x \in Nodes /\ x \in Cells /\ c # x /\ next[c] = x /\ next[x] # x
      /\ x \in alive /\ alive' = alive /\ x # None
      /\ \A d \in Cells : next[d] = x => d = c
      /\ \A d \in Cells : next'[d] = IF d = x THEN None ELSE IF d = c THEN next[x] ELSE next[d]
  BY UnlinkFacts, ListRAssumption
<1>2. \A d \in Cells : next'[d] # None => next'[d] \in alive' /\ d \in alive' \cup {Head}
  BY <1>1 DEF LinkInv
<1>3. ASSUME NEW d \in Cells, NEW e \in Cells, next'[d] = next'[e], next'[d] # None
      PROVE  d = e
  BY <1>1, <1>3 DEF LinkInv
<1>4. ASSUME NEW n \in Linked' PROVE \E d \in Cells : next'[d] = n
  <2>1. n \in Linked /\ n # x
    <3>1. \A u \in Threads : HasDetached(u) => HasDetached(u)' /\ nxt'[u] = nxt[u]
      BY UnlinkFacts DEF HasDetached
    <3>2. HasDetached(t)' /\ nxt'[t] = x
      BY UnlinkFacts DEF HasDetached
    <3> QED BY <1>1, <3>1, <3>2 DEF Linked, Detached
  <2>2. PICK d \in Cells : next[d] = n
    BY <2>1 DEF LinkInv
  <2>3. d # c
    BY <1>1, <2>1, <2>2
  <2>4. IF d = x THEN next'[c] = n ELSE next'[d] = n
    BY <1>1, <2>2, <2>3
  <2> QED BY <1>1, <2>4
<1>5. ASSUME NEW S \in SUBSET Nodes, S # {} PROVE \E n \in S : \A m \in S : next'[m] # n
  <2>0. S \subseteq Cells /\ None \notin S
    BY ListRAssumption DEF Cells
  <2>1. CASE c \notin S
    <3>1. PICK n \in S : \A m \in S : next[m] # n
      BY <1>5 DEF LinkInv
    <3> QED BY <1>1, <2>0, <2>1, <3>1
  <2>2. CASE c \in S
    <3>1. S \cup {x} \in SUBSET Nodes /\ S \cup {x} # {}
      BY <1>1
    <3>2. PICK n \in S \cup {x} : \A m \in S \cup {x} : next[m] # n
      BY <3>1 DEF LinkInv
    <3>3. n # x
      BY <1>1, <2>2, <3>2
    <3>4. \A m \in S : next'[m] # n
      BY <1>1, <2>0, <3>2, <3>3
    <3> QED BY <3>2, <3>3, <3>4
  <2> QED BY <2>1, <2>2
<1> QED BY <1>2, <1>3, <1>4, <1>5 DEF LinkInv

LEMMA LinkDelete ==
    ASSUME ListTypeOK, LinkInv, HandInv, NEW t \in Threads, DeleteOld(t)
    PROVE  LinkInv'
<1> PICK x : x = nxt[t]
  OBVIOUS
<1>1. next[x] = None /\ \A c \in Cells : next[c] # x
  BY DEF DeleteOld, At, HandInv, HandAt, HasDetached
<1>2. alive' = alive \ {x} /\ next' = next
  BY DEF DeleteOld
<1>3. Linked' \subseteq Linked
  <2>1. \A u \in Threads : HasDetached(u) /\ nxt[u] # x => HasDetached(u)' /\ nxt'[u] = nxt[u]
    BY DEF DeleteOld, Go, HasDetached, ListTypeOK
  <2> QED BY <1>2, <2>1 DEF Linked, Detached
<1> QED BY <1>1, <1>2, <1>3 DEF LinkInv

LEMMA LinkStep == ListTypeOK /\ LinkInv /\ HandInv /\ [Next]_vars => LinkInv'
<1> SUFFICES ASSUME ListTypeOK, LinkInv, HandInv, [Next]_vars PROVE LinkInv'
  OBVIOUS
<1> USE DEF shared, local, At
<1>1. ASSUME NEW t \in Threads,
             \/ \E name, v : Walk(t, name, v)
             \/ Destroy(t) \/ LockHead(t) \/ ReadNext(t) \/ TakeNext(t) \/ Pass(t) \/ Visit(t)
             \/ UnlockOld(t) \/ EndWalk(t)
      PROVE  LinkInv'
  <2>1. UNCHANGED <<next, alive>>
    BY <1>1 DEF Walk, Destroy, LockHead, ReadNext, TakeNext, Pass, Visit, UnlockOld, EndWalk
  <2>2. PICK label : Go(t, label) /\ (HasDetached(t) => label = "delete" /\ nxt' = nxt)
    BY <1>1 DEF Walk, Destroy, LockHead, ReadNext, TakeNext, Pass, Visit, UnlockOld, EndWalk, Finish,
                HasDetached
  <2>3. \A u \in Threads \ {t} : pc'[u] = pc[u] /\ nxt'[u] = nxt[u]
    BY <1>1, <2>2
    DEF Walk, Destroy, LockHead, ReadNext, TakeNext, Pass, Visit, UnlockOld, EndWalk, Finish,
        ListTypeOK, Go
  <2>4. \A u \in Threads : HasDetached(u) => HasDetached(u)' /\ nxt'[u] = nxt[u]
    BY <2>2, <2>3, OneThread DEF HasDetached
  <2> QED BY <2>1, <2>4, LinkFrame
<1>2. CASE UNCHANGED vars
  BY <1>2, LinkFrame DEF vars, HasDetached
<1> QED BY <1>1, <1>2, LinkNew, LinkPush, LinkUnlink, LinkDelete DEF Next, Call, Continue

----------------------------------------------------------------------------
(* What the threads have in their hands                                      *)

\* A step of another thread leaves alone what u has locked or detached.
LEMMA HandOther ==
    ASSUME NEW u \in Threads, HandAt(u), pc'[u] = pc[u], nxt'[u] = nxt[u], cur'[u] = cur[u],
           HasDetached(u) =>
               nxt[u] \in alive' /\ next'[nxt[u]] = None /\ \A c \in Cells : next'[c] # nxt[u],
           pc[u] \in {"push", "delete"} => lock'[nxt[u]] = None,
           \A c \in Cells : lock[c] = u => lock'[c] = u /\ next'[c] = next[c]
    PROVE  HandAt(u)'
<1>1. HasDetached(u)' <=> HasDetached(u)
  BY DEF HasDetached
<1>2. Nodes \subseteq Cells
  BY DEF Cells
<1> QED BY <1>1, <1>2 DEF HandAt

\* The three parts of HandInv after a step of t that changes no link.
LEMMA HandStepOf ==
    ASSUME ListTypeOK, HandInv, NEW t \in Threads, NEW label, Go(t, label),
           UNCHANGED <<next, alive>>,
           \A u \in Threads \ {t} : nxt'[u] = nxt[u] /\ cur'[u] = cur[u],
           \A c \in Cells :
               /\ lock'[c] \in {lock[c], t, None} /\ (lock'[c] # lock[c] => lock[c] \in {t, None})
               /\ lock'[c] = t => c \in alive \cup {Head}
               /\ lock'[c] # lock[c] /\ lock'[c] # None => c \notin Detached,
           HasDetached(t)' => HasDetached(t) /\ nxt'[t] = nxt[t],
           HandAt(t)'
    PROVE  HandInv'
<1>1. pc'[t] = label /\ \A u \in Threads \ {t} : pc'[u] = pc[u]
  BY OneThread
<1>2. ASSUME NEW u \in Threads \ {t} PROVE HandAt(u)'
  <2>1. u # None
    BY ListRAssumption
  <2>2. HandAt(u) /\ pc'[u] = pc[u]
    BY <1>1 DEF HandInv
  <2>3. HasDetached(u) => nxt[u] \in Detached /\ nxt[u] \in Cells
    BY DEF Detached, HasDetached, ListTypeOK, HandInv, HandAt, Cells
  <2>4. HasDetached(u) =>
           nxt[u] \in alive' /\ next'[nxt[u]] = None /\ \A c \in Cells : next'[c] # nxt[u]
    BY <2>2 DEF HandAt
  <2>5. pc[u] \in {"push", "delete"} => lock'[nxt[u]] = None
    BY <2>2, <2>3 DEF HandAt, HasDetached
  <2>6. \A c \in Cells : lock[c] = u => lock'[c] = u /\ next'[c] = next[c]
    BY <2>1
  <2> QED BY <2>2, <2>4, <2>5, <2>6, HandOther
<1>3. \A u \in Threads : HasDetached(u)' => HasDetached(u) /\ nxt'[u] = nxt[u]
  BY <1>1 DEF HasDetached
<1>4. \A u, v \in Threads : HasDetached(u)' /\ HasDetached(v)' /\ nxt'[u] = nxt'[v] => u = v
  BY <1>3 DEF HandInv
<1>5. \A c \in Cells : c \notin alive' \cup {Head} => lock'[c] = None
  BY DEF HandInv
<1>6. \A u \in Threads : HandAt(u)'
  BY <1>2
<1> QED BY <1>4, <1>5, <1>6 DEF HandInv

LEMMA HandWalks ==
    ASSUME ListTypeOK, LinkInv, HandInv, NEW t \in Threads,
           \/ \E name, v : Walk(t, name, v)
           \/ Destroy(t) \/ LockHead(t) \/ ReadNext(t) \/ TakeNext(t) \/ Pass(t) \/ Visit(t)
           \/ UnlockOld(t) \/ EndWalk(t)
    PROVE  HandInv'
<1> USE DEF shared, local, At
<1>0. HandAt(t) /\ \A c \in Cells : lock[c] = t => c \in alive \cup {Head}
  BY ListRAssumption DEF HandInv
<1>1. ASSUME (\E name, v : Walk(t, name, v)) \/ Destroy(t) PROVE HandInv'
  <2>1. Go(t, "head") /\ UNCHANGED <<next, alive, lock, cur, nxt>>
    BY <1>1 DEF Walk, Destroy
  <2>2. pc'[t] = "head"
    BY <2>1, OneThread
  <2>3. HandAt(t)' /\ ~HasDetached(t)'
    BY <2>2 DEF HandAt, HasDetached
  <2>4. \A c \in Cells : lock'[c] = t => c \in alive \cup {Head}
    BY <1>0, <2>1
  <2> QED BY <2>1, <2>3, <2>4, HandStepOf
<1>2. CASE LockHead(t)
  <2>1. /\ Go(t, "walk") /\ UNCHANGED <<next, alive, nxt>> /\ lock[Head] = None
        /\ lock' = [lock EXCEPT ![Head] = t] /\ cur' = [cur EXCEPT ![t] = Head] /\ Head \in Cells
    BY <1>2 DEF LockHead, Cells
  <2>2. pc'[t] = "walk"
    BY <2>1, OneThread
  <2>3. HandAt(t)' /\ ~HasDetached(t)'
    BY <2>1, <2>2 DEF HandAt, HasDetached, ListTypeOK
  <2>4. Head \notin Detached
    BY ListRAssumption DEF Detached, HandInv, HandAt, ListTypeOK
  <2>5. \A c \in Cells :
            /\ lock'[c] \in {lock[c], t, None} /\ (lock'[c] # lock[c] => lock[c] \in {t, None})
            /\ lock'[c] = t => c \in alive \cup {Head}
            /\ lock'[c] # lock[c] /\ lock'[c] # None => c \notin Detached
    BY <1>0, <2>1, <2>4 DEF ListTypeOK
  <2>6. \A u \in Threads \ {t} : nxt'[u] = nxt[u] /\ cur'[u] = cur[u]
    BY <2>1 DEF ListTypeOK
  <2> QED BY <2>1, <2>3, <2>5, <2>6, HandStepOf
<1>3. CASE ReadNext(t)
  <2>1. /\ Go(t, "take") /\ UNCHANGED <<next, alive, lock, cur>> /\ next[cur[t]] # None
        /\ nxt' = [nxt EXCEPT ![t] = next[cur[t]]] /\ cur[t] \in Cells /\ lock[cur[t]] = t
    BY <1>0, <1>3 DEF ReadNext, HandAt
  <2>2. pc'[t] = "take"
    BY <2>1, OneThread
  <2>3. HandAt(t)' /\ ~HasDetached(t)'
    BY <2>1, <2>2 DEF HandAt, HasDetached, ListTypeOK
  <2>4. \A c \in Cells : lock'[c] = t => c \in alive \cup {Head}
    BY <1>0, <2>1
  <2>5. \A u \in Threads \ {t} : nxt'[u] = nxt[u] /\ cur'[u] = cur[u]
    BY <2>1 DEF ListTypeOK
  <2> QED BY <2>1, <2>3, <2>4, <2>5, HandStepOf
<1>4. CASE TakeNext(t)
  <2> PICK c, x : c = cur[t] /\ x = nxt[t]
    OBVIOUS
  <2>1. /\ c \in Cells /\ lock[c] = t /\ x \in Nodes /\ x \in Cells /\ next[c] = x
        /\ lock[x] = None /\ lock' = [lock EXCEPT ![x] = t] /\ UNCHANGED <<next, alive, cur, nxt>>
    BY <1>0, <1>4 DEF TakeNext, HandAt, Cells
  <2>2. PICK label \in {"unlink", "pass"} : Go(t, label)
    BY <1>4 DEF TakeNext, AfterTake
  <2>3. pc'[t] \in {"unlink", "pass"} /\ x \in alive /\ x # None
    BY <2>1, <2>2, OneThread, ListRAssumption DEF LinkInv
  <2>4. HandAt(t)' /\ ~HasDetached(t)'
    BY <2>1, <2>3 DEF HandAt, HasDetached, ListTypeOK
  <2>5. x \notin Detached
    BY <2>1 DEF Detached, HandInv, HandAt
  <2>6. \A d \in Cells :
            /\ lock'[d] \in {lock[d], t, None} /\ (lock'[d] # lock[d] => lock[d] \in {t, None})
            /\ lock'[d] = t => d \in alive \cup {Head}
            /\ lock'[d] # lock[d] /\ lock'[d] # None => d \notin Detached
    BY <1>0, <2>1, <2>3, <2>5 DEF ListTypeOK
  <2> QED BY <2>1, <2>2, <2>4, <2>6, HandStepOf
<1>5. ASSUME NEW d \in Cells, lock[d] = t, lock' = [lock EXCEPT ![d] = None]
      PROVE  \A c \in Cells :
                 /\ lock'[c] \in {lock[c], t, None} /\ (lock'[c] # lock[c] => lock[c] \in {t, None})
                 /\ lock'[c] = t => c \in alive \cup {Head}
                 /\ lock'[c] # lock[c] /\ lock'[c] # None => c \notin Detached
  BY <1>0, <1>5, ListRAssumption DEF ListTypeOK
<1>6. CASE Pass(t)
  <2> PICK c, x : c = cur[t] /\ x = nxt[t]
    OBVIOUS
  <2>1. /\ c \in Cells /\ lock[c] = t /\ x \in Nodes /\ x \in Cells /\ next[c] = x /\ lock[x] = t
        /\ lock' = [lock EXCEPT ![c] = None] /\ UNCHANGED <<next, alive, cur, nxt>>
        /\ Go(t, "visit")
    BY <1>0, <1>6 DEF Pass, HandAt, Cells
  <2>2. pc'[t] = "visit" /\ c # x
    BY <2>1, OneThread, NoSelfLoop
  <2>3. HandAt(t)' /\ ~HasDetached(t)'
    BY <2>1, <2>2 DEF HandAt, HasDetached, ListTypeOK
  <2> QED BY <1>5, <2>1, <2>3, HandStepOf
<1>7. CASE Visit(t)
  <2> PICK x : x = nxt[t]
    OBVIOUS
  <2>1. x \in Nodes /\ x \in Cells /\ lock[x] = t /\ UNCHANGED <<next, alive>>
    BY <1>0, <1>7 DEF Visit, HandAt, Cells
  <2>2. CASE Finish(t) /\ lock' = [lock EXCEPT ![x] = None]
    <3>1. Go(t, "idle") /\ pc'[t] = "idle"
          /\ \A u \in Threads \ {t} : nxt'[u] = nxt[u] /\ cur'[u] = cur[u]
      BY <2>2, OneThread DEF Finish, ListTypeOK
    <3>2. HandAt(t)' /\ ~HasDetached(t)'
      BY <3>1 DEF HandAt, HasDetached
    <3> QED BY <1>5, <2>1, <2>2, <3>1, <3>2, HandStepOf
  <2>3. CASE cur' = [cur EXCEPT ![t] = x] /\ Go(t, "walk") /\ UNCHANGED <<nxt, lock>>
    <3>1. pc'[t] = "walk" /\ cur'[t] = x /\ \A u \in Threads \ {t} : nxt'[u] = nxt[u] /\ cur'[u] = cur[u]
      BY <2>3, OneThread DEF ListTypeOK
    <3>2. HandAt(t)' /\ ~HasDetached(t)'
      BY <2>1, <2>3, <3>1 DEF HandAt, HasDetached
    <3>3. \A c \in Cells : lock'[c] = t => c \in alive \cup {Head}
      BY <1>0, <2>3
    <3> QED BY <2>1, <2>3, <3>1, <3>2, <3>3, HandStepOf
  <2> QED BY <1>7, <2>2, <2>3 DEF Visit
<1>8. CASE UnlockOld(t)
  <2> PICK c, x : c = cur[t] /\ x = nxt[t]
    OBVIOUS
  <2>1. /\ c \in Cells /\ lock[c] = t /\ x \in Nodes /\ x \in Cells /\ c # x /\ lock[x] = t
        /\ lock' = [lock EXCEPT ![x] = None] /\ UNCHANGED <<next, alive, cur, nxt>>
        /\ Go(t, "delete") /\ HasDetached(t)
    BY <1>0, <1>8 DEF UnlockOld, HandAt, Cells, HasDetached
  <2>2. pc'[t] = "delete"
    BY <2>1, OneThread
  <2>3. x \in alive /\ next[x] = None /\ \A d \in Cells : next[d] # x
    BY <1>0, <2>1 DEF HandAt
  <2>4. HandAt(t)'
    BY <2>1, <2>2, <2>3 DEF HandAt, HasDetached, ListTypeOK
  <2> QED BY <1>5, <2>1, <2>4, HandStepOf
<1>9. CASE EndWalk(t)
  <2> PICK c : c = cur[t]
    OBVIOUS
  <2>1. /\ c \in Cells /\ lock[c] = t /\ lock' = [lock EXCEPT ![c] = None] /\ UNCHANGED <<next, alive>>
        /\ Go(t, "idle") /\ \A u \in Threads \ {t} : nxt'[u] = nxt[u] /\ cur'[u] = cur[u]
    BY <1>0, <1>9 DEF EndWalk, HandAt, Finish, ListTypeOK
  <2>2. pc'[t] = "idle"
    BY <2>1, OneThread
  <2>3. HandAt(t)' /\ ~HasDetached(t)'
    BY <2>2 DEF HandAt, HasDetached
  <2> QED BY <1>5, <2>1, <2>3, HandStepOf
<1> QED BY <1>1, <1>2, <1>3, <1>4, <1>6, <1>7, <1>8, <1>9

LEMMA HandNew ==
    ASSUME ListTypeOK, LinkInv, HandInv, NEW t \in Threads, NEW n \in Nodes, NEW v, NewNode(t, n, v)
    PROVE  HandInv'
<1>1. /\ pc'[t] = "push" /\ nxt'[t] = n /\ n \notin alive /\ alive' = alive \cup {n}
      /\ pc[t] = "idle" /\ UNCHANGED <<lock, cur>>
      /\ \A u \in Threads \ {t} : pc'[u] = pc[u] /\ nxt'[u] = nxt[u]
  BY DEF NewNode, At, Go, ListTypeOK
<1>2. next' = next /\ next[n] = None /\ lock[n] = None /\ \A c \in Cells : next[c] # n
  BY <1>1, LinkNew, ListRAssumption DEF LinkInv, HandInv, Cells
<1>3. ASSUME NEW u \in Threads PROVE HandAt(u)'
  <2>1. CASE u = t
    BY <1>1, <1>2, <2>1 DEF HandAt, HasDetached
  <2>2. CASE u # t
    <3>1. HandAt(u) /\ pc'[u] = pc[u] /\ nxt'[u] = nxt[u] /\ cur'[u] = cur[u]
      BY <1>1, <2>2 DEF HandInv
    <3> QED BY <1>1, <1>2, <3>1, HandOther DEF HandAt
  <2> QED BY <2>1, <2>2
<1>4. ASSUME NEW u \in Threads, NEW w \in Threads, HasDetached(u)', HasDetached(w)', nxt'[u] = nxt'[w]
      PROVE  u = w
  <2>1. \A y \in Threads \ {t} : HasDetached(y)' => HasDetached(y) /\ nxt'[y] = nxt[y] /\ nxt[y] # n
    BY <1>1 DEF HasDetached, HandInv, HandAt
  <2> QED BY <1>1, <1>4, <2>1 DEF HandInv
<1>5. \A c \in Cells : c \notin alive' \cup {Head} => lock'[c] = None
  BY <1>1 DEF HandInv
<1> QED BY <1>3, <1>4, <1>5 DEF HandInv

LEMMA HandPush ==
    ASSUME ListTypeOK, LinkInv, HandInv, NEW t \in Threads, push_front(t)
    PROVE  HandInv'
<1> PICK x \in Nodes : x = nxt[t]
  BY DEF push_front, At, HandInv, HandAt, HasDetached, ListTypeOK
<1>1. /\ x \in alive /\ next[x] = None /\ \A c \in Cells : next[c] # x
      /\ HasDetached(t) /\ pc'[t] = "idle" /\ lock[x] = None /\ lock[Head] = None
      /\ UNCHANGED <<alive, lock, cur>>
      /\ \A u \in Threads \ {t} : pc'[u] = pc[u] /\ nxt'[u] = nxt[u]
  BY DEF push_front, At, Go, HandInv, HandAt, HasDetached, ListTypeOK
<1>2. \A c \in Cells : next'[c] = IF c = x THEN next[Head] ELSE IF c = Head THEN x ELSE next[c]
  BY ListRAssumption DEF push_front, ListTypeOK, Cells
<1>3. ASSUME NEW u \in Threads PROVE HandAt(u)'
  <2>1. CASE u = t
    BY <1>1, <2>1 DEF HandAt, HasDetached
  <2>2. CASE u # t
    <3>1. HandAt(u) /\ pc'[u] = pc[u] /\ nxt'[u] = nxt[u] /\ cur'[u] = cur[u] /\ u # None
      BY <1>1, <2>2, ListRAssumption DEF HandInv
    <3>2. \A c \in Cells : lock[c] = u => lock'[c] = u /\ next'[c] = next[c]
      BY <1>1, <1>2, <3>1
    <3>3. ASSUME HasDetached(u)
          PROVE  /\ nxt[u] \in alive' /\ next'[nxt[u]] = None
                 /\ \A c \in Cells : next'[c] # nxt[u]
      <4>1. nxt[u] # x /\ nxt[u] \in alive /\ next[nxt[u]] = None /\ \A c \in Cells : next[c] # nxt[u]
        BY <1>1, <2>2, <3>1, <3>3 DEF HandInv, HandAt
      <4>2. nxt[u] \in Cells /\ nxt[u] # Head /\ Head \in Cells
        BY <4>1, ListRAssumption DEF ListTypeOK, Cells
      <4> QED BY <1>1, <1>2, <4>1, <4>2
    <3>4. pc[u] \in {"push", "delete"} => lock'[nxt[u]] = None
      BY <1>1, <3>1 DEF HandAt
    <3> QED BY <3>1, <3>2, <3>3, <3>4, HandOther
  <2> QED BY <2>1, <2>2
<1>4. \A u \in Threads : HasDetached(u)' => HasDetached(u) /\ nxt'[u] = nxt[u]
  BY <1>1 DEF HasDetached
<1> QED BY <1>1, <1>3, <1>4 DEF HandInv

LEMMA HandUnlink ==
    ASSUME ListTypeOK, LinkInv, HandInv, NEW t \in Threads, Unlink(t)
    PROVE  HandInv'
<1> PICK c, x : c = cur[t] /\ x = nxt[t]
  OBVIOUS
<1>1. /\ c \in Cells /\ x \in Nodes /\ x \in Cells /\ c # x /\ next[c] = x /\ next[x] # x
      /\ lock[c] = t /\ lock[x] = t /\ x \in alive /\ x # None
      /\ \A d \in Cells : next[d] = x => d = c
      /\ \A d \in Cells : next'[d] = IF d = x THEN None ELSE IF d = c THEN next[x] ELSE next[d]
      /\ pc[t] = "unlink" /\ pc'[t] = "unlock"
      /\ \A u \in Threads \ {t} : pc'[u] = pc[u]
      /\ UNCHANGED <<alive, lock, cur, nxt>>
  BY UnlinkFacts, ListRAssumption
<1>2. \A d \in Cells : next'[d] # x
  BY <1>1
<1>3. ASSUME NEW u \in Threads PROVE HandAt(u)'
  <2>1. CASE u = t
    BY <1>1, <1>2, <2>1 DEF HandAt, HasDetached
  <2>2. CASE u # t
    <3>1. HandAt(u) /\ pc'[u] = pc[u] /\ nxt'[u] = nxt[u] /\ cur'[u] = cur[u]
      BY <1>1, <2>2 DEF HandInv
    <3>2. \A d \in Cells : lock[d] = u => lock'[d] = u /\ next'[d] = next[d]
      BY <1>1, <2>2
    <3>3. ASSUME HasDetached(u)
          PROVE  /\ nxt[u] \in alive' /\ next'[nxt[u]] = None
                 /\ \A d \in Cells : next'[d] # nxt[u]
      <4>1. nxt[u] \in alive /\ next[nxt[u]] = None /\ \A d \in Cells : next[d] # nxt[u]
        BY <3>1, <3>3 DEF HandAt
      <4>2. nxt[u] \in Cells /\ nxt[u] # None
        BY <4>1, ListRAssumption DEF ListTypeOK, Cells
      <4> QED BY <1>1, <4>1, <4>2
    <3>4. pc[u] \in {"push", "delete"} => lock'[nxt[u]] = None
      BY <1>1, <3>1 DEF HandAt
    <3> QED BY <3>1, <3>2, <3>3, <3>4, HandOther
  <2> QED BY <2>1, <2>2
<1>4. ASSUME NEW u \in Threads, NEW w \in Threads, HasDetached(u)', HasDetached(w)', nxt'[u] = nxt'[w]
      PROVE  u = w
  <2>1. \A y \in Threads \ {t} : HasDetached(y)' => HasDetached(y) /\ nxt'[y] = nxt[y] /\ nxt[y] # x
    BY <1>1 DEF HasDetached, HandInv, HandAt
  <2> QED BY <1>1, <1>4, <2>1 DEF HandInv
<1>5. \A d \in Cells : d \notin alive' \cup {Head} => lock'[d] = None
  BY <1>1 DEF HandInv
<1> QED BY <1>3, <1>4, <1>5 DEF HandInv

LEMMA HandDelete ==
    ASSUME ListTypeOK, LinkInv, HandInv, NEW t \in Threads, DeleteOld(t)
    PROVE  HandInv'
<1> PICK x \in Nodes : x = nxt[t]
  BY DEF DeleteOld, At, HandInv, HandAt, HasDetached, ListTypeOK
<1>1. /\ pc[t] = "delete" /\ pc'[t] = "walk" /\ lock[x] = None /\ alive' = alive \ {x}
      /\ HasDetached(t) /\ cur[t] \in Cells /\ lock[cur[t]] = t
      /\ UNCHANGED <<next, lock, cur>>
      /\ \A u \in Threads \ {t} : pc'[u] = pc[u] /\ nxt'[u] = nxt[u]
  BY DEF DeleteOld, At, Go, HandInv, HandAt, HasDetached, ListTypeOK
<1>2. ASSUME NEW u \in Threads PROVE HandAt(u)'
  <2>1. CASE u = t
    BY <1>1, <2>1 DEF HandAt, HasDetached
  <2>2. CASE u # t
    <3>1. HandAt(u) /\ pc'[u] = pc[u] /\ nxt'[u] = nxt[u] /\ cur'[u] = cur[u]
      BY <1>1, <2>2 DEF HandInv
    <3>2. HasDetached(u) => nxt[u] # x
      BY <1>1, <2>2 DEF HandInv
    <3> QED BY <1>1, <3>1, <3>2, HandOther DEF HandAt
  <2> QED BY <2>1, <2>2
<1>3. \A u \in Threads : HasDetached(u)' => HasDetached(u) /\ nxt'[u] = nxt[u]
  BY <1>1 DEF HasDetached
<1>4. \A d \in Cells : d \notin alive' \cup {Head} => lock'[d] = None
  BY <1>1 DEF HandInv
<1> QED BY <1>2, <1>3, <1>4 DEF HandInv

LEMMA HandStep == ListTypeOK /\ LinkInv /\ HandInv /\ [Next]_vars => HandInv'
<1> SUFFICES ASSUME ListTypeOK, LinkInv, HandInv, [Next]_vars PROVE HandInv'
  OBVIOUS
<1>1. CASE UNCHANGED vars
  BY <1>1 DEF vars, shared, local, HandInv, HandAt, HasDetached
<1> QED
  BY <1>1, HandWalks, HandNew, HandPush, HandUnlink, HandDelete DEF Next, Call, Continue

----------------------------------------------------------------------------
(* What the walks owe                                                        *)

LEMMA WalkFrame ==
    ASSUME NEW u \in Threads, WalkAt(u), pc'[u] = pc[u], cur'[u] = cur[u], nxt'[u] = nxt[u],
           owed'[u] = owed[u], seen'[u] = seen[u], next' = next
    PROVE  WalkAt(u)'
BY DEF WalkAt, Walking, Place, Ahead

\* Steps of a walk that do not move it.
LEMMA WalkStays ==
    ASSUME NEW t \in Threads, WalkAt(t), Walking(t), pc[t] # "visit", pc'[t] # "visit",
           cur'[t] = cur[t], owed'[t] = owed[t], seen'[t] = seen[t], next' = next
    PROVE  WalkAt(t)'
BY DEF WalkAt, Walking, Place, Ahead

LEMMA WalkLockHead ==
    ASSUME ListTypeOK, LinkInv, HandInv, WalkInv, NEW t \in Threads, LockHead(t)
    PROVE  WalkAt(t)'
<1>1. /\ pc'[t] = "walk" /\ cur'[t] = Head /\ owed'[t] = Linked /\ seen'[t] = {} /\ next' = next
  BY DEF LockHead, Go, ListTypeOK
<1>2. Linked \subseteq Nodes /\ Head \notin Linked /\ Nodes \subseteq Cells /\ Head \in Cells
      /\ None \notin Nodes
  BY ListRAssumption DEF Linked, ListTypeOK, Cells
<1>3. ASSUME NEW n \in Linked PROVE \E p \in Linked \cup {Head} : next[p] = n
  <2>1. PICK p \in Cells : next[p] = n
    BY DEF LinkInv
  <2>2. p \in alive \cup {Head}
    BY <1>2, <2>1 DEF LinkInv
  <2>3. p \notin Detached
    BY <1>2, <2>1 DEF Detached, HandInv, HandAt
  <2> QED BY <2>1, <2>2, <2>3 DEF Linked
<1>4. ASSUME NEW p \in Linked \cup {Head}, next[p] # None PROVE next[p] \in Linked
  <2>1. p \in Cells
    BY <1>2
  <2>2. next[p] \in alive
    BY <1>4, <2>1 DEF LinkInv
  <2>3. next[p] \notin Detached
    BY <2>1 DEF Detached, HandInv, HandAt
  <2> QED BY <2>2, <2>3 DEF Linked
<1> QED BY <1>1, <1>2, <1>3, <1>4 DEF WalkAt, Walking, Place, Ahead

LEMMA WalkPass ==
    ASSUME ListTypeOK, LinkInv, HandInv, WalkInv, NEW t \in Threads, Pass(t)
    PROVE  WalkAt(t)'
<1> PICK c, x : c = cur[t] /\ x = nxt[t]
  OBVIOUS
<1>1. /\ pc[t] = "pass" /\ pc'[t] = "visit" /\ nxt'[t] = x /\ owed'[t] = owed[t] /\ seen'[t] = seen[t]
      /\ next' = next /\ owed[t] \subseteq Nodes
      /\ c \in Cells /\ x \in Nodes /\ next[c] = x /\ x # None
  BY ListRAssumption DEF Pass, At, Go, ListTypeOK, HandInv, HandAt, history
<1>2. /\ c \notin owed[t] /\ seen[t] \cap owed[t] = {}
      /\ \A n \in owed[t] : \E p \in owed[t] \cup {c} : next[p] = n
      /\ \A p \in owed[t] \cup {c} : next[p] # None => next[p] \in owed[t]
  BY <1>1 DEF WalkInv, WalkAt, Walking, Place, Ahead
<1>3. x \in owed[t] /\ \A p \in owed[t] : next[p] # x
  BY <1>1, <1>2 DEF LinkInv, Cells
<1>4. \A n \in owed[t] \ {x} : \E p \in owed[t] : next[p] = n
  BY <1>1, <1>2
<1> QED BY <1>1, <1>2, <1>3, <1>4 DEF WalkAt, Walking, Place, Ahead

LEMMA WalkVisit ==
    ASSUME ListTypeOK, WalkInv, NEW t \in Threads, Visit(t)
    PROVE  WalkAt(t)'
<1> PICK x : x = nxt[t]
  OBVIOUS
<1>1. /\ pc[t] = "visit" /\ owed'[t] = owed[t] \ {x} /\ seen'[t] = seen[t] \cup {x} /\ next' = next
      /\ pc'[t] = "idle" \/ (pc'[t] = "walk" /\ cur'[t] = x)
  BY DEF Visit, Visited, Finish, At, Go, ListTypeOK
<1>2. /\ seen[t] \cap owed[t] = {}
      /\ \A n \in owed[t] \ {x} : \E p \in (owed[t] \ {x}) \cup {x} : next[p] = n
      /\ \A p \in (owed[t] \ {x}) \cup {x} : next[p] # None => next[p] \in owed[t] \ {x}
  BY <1>1 DEF WalkInv, WalkAt, Walking, Place, Ahead
<1> QED BY <1>1, <1>2 DEF WalkAt, Walking, Place, Ahead

\* The place of a walk is locked by its thread.
LEMMA PlaceIsLocked ==
    ASSUME HandInv, NEW u \in Threads, Walking(u)
    PROVE  Place(u) \in Cells /\ lock[Place(u)] = u
BY DEF HandInv, HandAt, Walking, Place, Cells

LEMMA WalkPush ==
    ASSUME ListTypeOK, LinkInv, HandInv, WalkInv, NEW t \in Threads, push_front(t),
           NEW u \in Threads
    PROVE  WalkAt(u)'
<1> PICK x \in Nodes : x = nxt[t]
  BY DEF push_front, At, HandInv, HandAt, HasDetached, ListTypeOK
<1>1. /\ next[x] = None /\ (\A c \in Cells : next[c] # x) /\ lock[x] = None /\ lock[Head] = None
      /\ pc'[t] = "idle" /\ x # None /\ x # Head
      /\ UNCHANGED <<cur, owed, seen>>
      /\ \A w \in Threads \ {t} : pc'[w] = pc[w] /\ nxt'[w] = nxt[w]
      /\ \A c \in Cells : next'[c] = IF c = x THEN next[Head] ELSE IF c = Head THEN x ELSE next[c]
  BY ListRAssumption
  DEF push_front, At, Go, HandInv, HandAt, HasDetached, ListTypeOK, Cells, history
<1>2. CASE ~Walking(u)'
  BY <1>2 DEF WalkAt
<1>3. CASE Walking(u)'
  <2> DEFINE A == Ahead(u)
             P == Place(u)
  <2>1. u # t /\ Walking(u) /\ Ahead(u)' = A /\ Place(u)' = P /\ pc'[u] = pc[u] /\ nxt'[u] = nxt[u]
    BY <1>1, <1>3 DEF Walking, Ahead, Place
  <2>2. P \in Cells /\ P # Head /\ P # x
    BY <1>1, <2>1, PlaceIsLocked, ListRAssumption
  <2>3. A \subseteq Nodes /\ \A n \in A : n \in Cells /\ n # Head
    BY ListRAssumption DEF Ahead, ListTypeOK, Cells
  <2>4. /\ \A n \in A : \E p \in A \cup {P} : next[p] = n
        /\ \A p \in A \cup {P} : next[p] # None => next[p] \in A
    BY <2>1 DEF WalkInv, WalkAt
  <2>5. x \notin A
    BY <1>1, <2>2, <2>3, <2>4
  <2>6. \A p \in A \cup {P} : next'[p] = next[p]
    BY <1>1, <2>2, <2>3, <2>5
  <2>7. /\ \A n \in A : \E p \in A \cup {P} : next'[p] = n
        /\ \A p \in A \cup {P} : next'[p] # None => next'[p] \in A
    BY <2>4, <2>6
  <2>8. /\ P \notin A /\ seen'[u] \cap owed'[u] = {}
        /\ pc'[u] = "visit" => nxt'[u] \in owed'[u]
    BY <1>1, <2>1 DEF WalkInv, WalkAt
  <2> HIDE DEF A, P
  <2> QED BY <2>1, <2>7, <2>8 DEF WalkAt
<1> QED BY <1>2, <1>3

LEMMA WalkUnlink ==
    ASSUME ListTypeOK, LinkInv, HandInv, WalkInv, NEW t \in Threads, Unlink(t),
           NEW u \in Threads
    PROVE  WalkAt(u)'
<1> PICK c, x : c = cur[t] /\ x = nxt[t]
  OBVIOUS
<1>1. /\ c \in Cells /\ x \in Nodes /\ x \in Cells /\ c # x /\ next[c] = x /\ next[x] # x
      /\ lock[c] = t /\ lock[x] = t /\ x # None
      /\ \A d \in Cells : next[d] = x => d = c
      /\ \A d \in Cells : next'[d] = IF d = x THEN None ELSE IF d = c THEN next[x] ELSE next[d]
      /\ pc[t] = "unlink" /\ pc'[t] = "unlock"
      /\ \A w \in Threads \ {t} : pc'[w] = pc[w]
      /\ UNCHANGED <<cur, nxt>>
  BY UnlinkFacts, ListRAssumption
<1>2. owed'[u] = owed[u] \ {x} /\ seen'[u] = seen[u] \ {x}
  BY DEF Unlink
<1>3. CASE ~Walking(u)'
  BY <1>3 DEF WalkAt
<1>4. CASE Walking(u)'
  <2> DEFINE A == Ahead(u)
             P == Place(u)
  <2>1. Walking(u) /\ Place(u)' = P /\ Ahead(u)' = A \ {x}
        /\ (pc'[u] = "visit" <=> pc[u] = "visit")
    BY <1>1, <1>2, <1>4 DEF Walking, Ahead, Place
  <2>2. P \in Cells /\ lock[P] = u /\ P # x
    <3>1. P \in Cells /\ lock[P] = u
      BY <2>1, PlaceIsLocked
    <3>2. u = t => P = c
      BY <1>1 DEF Place
    <3> QED BY <1>1, <3>1, <3>2
  <2>3. \A n \in A : n \in Cells /\ n # None
    BY ListRAssumption DEF Ahead, ListTypeOK, Cells
  <2>4. /\ P \notin A
        /\ \A n \in A : \E p \in A \cup {P} : next[p] = n
        /\ \A p \in A \cup {P} : next[p] # None => next[p] \in A
        /\ seen[u] \cap owed[u] = {}
        /\ pc[u] = "visit" => nxt[u] \in owed[u]
    BY <2>1 DEF WalkInv, WalkAt
  <2> HIDE DEF A, P
  <2>5. ASSUME NEW n \in A \ {x} PROVE \E p \in (A \ {x}) \cup {P} : next'[p] = n
    <3>1. PICK p \in A \cup {P} : next[p] = n
      BY <2>4
    <3>2. p # c /\ p \in Cells
      BY <1>1, <2>2, <2>3, <3>1
    <3>3. CASE p # x
      BY <1>1, <3>1, <3>2, <3>3
    <3>4. CASE p = x
      <4>1. x \in A
        BY <2>2, <3>4
      <4>2. c \in A \cup {P}
        <5>1. PICK d \in A \cup {P} : next[d] = x
          BY <2>4, <4>1
        <5>2. d \in Cells
          BY <2>2, <2>3
        <5> QED BY <1>1, <5>1, <5>2
      <4>3. next'[c] = n
        BY <1>1, <3>1, <3>4
      <4> QED BY <1>1, <4>2, <4>3
    <3> QED BY <3>3, <3>4
  <2>6. ASSUME NEW p \in (A \ {x}) \cup {P}, next'[p] # None PROVE next'[p] \in A \ {x}
    <3>1. p \in Cells /\ p # x
      BY <2>2, <2>3
    <3>2. CASE p = c
      <4>1. next'[p] = next[x] /\ x \in A
        BY <1>1, <2>4, <3>1, <3>2
      <4> QED BY <1>1, <2>4, <2>6, <4>1
    <3>3. CASE p # c
      BY <1>1, <2>4, <2>6, <3>1, <3>3
    <3> QED BY <3>2, <3>3
  <2>7. pc'[u] = "visit" => nxt'[u] \in owed'[u]
    <3>1. pc[u] = "visit" => P = nxt[u]
      BY DEF P, Place
    <3> QED BY <1>1, <1>2, <2>1, <2>2, <2>4, <3>1
  <2>8. P \notin A \ {x} /\ seen'[u] \cap owed'[u] = {}
    BY <1>2, <2>4
  <2> QED BY <2>1, <2>5, <2>6, <2>7, <2>8 DEF WalkAt
<1> QED BY <1>3, <1>4

LEMMA WalkStep ==
    ListTypeOK /\ LinkInv /\ HandInv /\ WalkInv /\ [Next]_vars => WalkInv'
<1> SUFFICES ASSUME ListTypeOK, LinkInv, HandInv, WalkInv, [Next]_vars, NEW u \in Threads
             PROVE  WalkAt(u)'
  BY DEF WalkInv
<1> USE DEF shared, local, history, At
<1>0. WalkAt(u)
  BY DEF WalkInv
<1>1. ASSUME NEW t \in Threads, NEW n \in Nodes, NEW v \in Values, NewNode(t, n, v) PROVE WalkAt(u)'
  <2>1. next' = next
    BY <1>1, LinkNew
  <2>2. CASE u = t
    BY <1>1, <2>2, OneThread DEF NewNode, WalkAt, Walking
  <2>3. CASE u # t
    BY <1>0, <1>1, <2>1, <2>3, OneThread, WalkFrame DEF NewNode, ListTypeOK
  <2> QED BY <2>2, <2>3
<1>2. ASSUME NEW t \in Threads, (\E name, v : Walk(t, name, v)) \/ Destroy(t) PROVE WalkAt(u)'
  <2>1. Go(t, "head") /\ UNCHANGED <<next, cur, nxt, owed, seen>>
    BY <1>2 DEF Walk, Destroy
  <2>2. CASE u = t
    BY <2>1, <2>2, OneThread DEF WalkAt, Walking
  <2>3. CASE u # t
    BY <1>0, <2>1, <2>3, OneThread, WalkFrame
  <2> QED BY <2>2, <2>3
<1>3. ASSUME NEW t \in Threads, u # t,
             \/ LockHead(t) \/ ReadNext(t) \/ TakeNext(t) \/ Pass(t) \/ Visit(t)
             \/ UnlockOld(t) \/ DeleteOld(t) \/ EndWalk(t)
      PROVE  WalkAt(u)'
  <2>1. /\ next' = next /\ cur'[u] = cur[u] /\ nxt'[u] = nxt[u]
        /\ owed'[u] = owed[u] /\ seen'[u] = seen[u]
    BY <1>3 DEF LockHead, ReadNext, TakeNext, Pass, Visit, Visited, Finish, UnlockOld, DeleteOld, EndWalk,
                ListTypeOK
  <2>2. pc'[u] = pc[u]
    BY <1>3 DEF LockHead, ReadNext, TakeNext, Pass, Visit, Visited, Finish, UnlockOld, DeleteOld, EndWalk,
                Go, ListTypeOK
  <2> QED BY <1>0, <2>1, <2>2, WalkFrame
<1>4. ASSUME ReadNext(u) \/ TakeNext(u) \/ UnlockOld(u) \/ DeleteOld(u) PROVE WalkAt(u)'
  <2>1. UNCHANGED <<next, cur, owed, seen>> /\ Walking(u) /\ pc[u] # "visit"
    BY <1>4 DEF ReadNext, TakeNext, UnlockOld, DeleteOld, Walking
  <2>2. PICK label \in {"take", "unlink", "pass", "delete", "walk"} : Go(u, label)
    BY <1>4 DEF ReadNext, TakeNext, AfterTake, UnlockOld, DeleteOld
  <2>3. pc'[u] # "visit"
    BY <2>2, OneThread
  <2> QED BY <1>0, <2>1, <2>3, WalkStays
<1>5. ASSUME EndWalk(u) PROVE WalkAt(u)'
  BY <1>5, OneThread DEF EndWalk, Finish, WalkAt, Walking
<1>6. CASE UNCHANGED vars
  BY <1>0, <1>6, WalkFrame DEF vars
<1> QED
  BY <1>1, <1>2, <1>3, <1>4, <1>5, <1>6, WalkLockHead, WalkPass, WalkVisit, WalkPush, WalkUnlink
  DEF Next, Call, Continue

----------------------------------------------------------------------------
(* The order of the walks                                                    *)

\* Only these two steps change where a walk is or what is ahead of it.
LEMMA PlaceSame ==
    ASSUME ListTypeOK, [Next]_vars, \A v \in Threads : ~Pass(v) /\ ~Unlink(v),
           NEW w \in Threads, Walking(w), Walking(w)'
    PROVE  /\ Place(w)' = Place(w) /\ Ahead(w)' = Ahead(w) /\ op'[w] = op[w]
           /\ \/ owed'[w] = owed[w]
              \/ Visit(w) /\ nxt'[w] = nxt[w] /\ owed'[w] = owed[w] \ {nxt[w]} /\ pc[w] = "visit"
<1> USE DEF shared, local, history, At, Go, ListTypeOK
<1>1. ASSUME NEW t \in Threads, t # w, Call(t) \/ Continue(t)
      PROVE  /\ pc'[w] = pc[w] /\ cur'[w] = cur[w] /\ nxt'[w] = nxt[w] /\ owed'[w] = owed[w]
             /\ op'[w] = op[w]
  <2>1. CASE Call(t)
    BY <1>1, <2>1 DEF Call, NewNode, Walk, Destroy
  <2>2. CASE push_front(t) \/ LockHead(t) \/ ReadNext(t) \/ TakeNext(t)
    BY <1>1, <2>2 DEF push_front, LockHead, ReadNext, TakeNext
  <2>3. CASE Visit(t) \/ UnlockOld(t) \/ DeleteOld(t) \/ EndWalk(t)
    BY <1>1, <2>3 DEF Visit, Visited, Finish, UnlockOld, DeleteOld, EndWalk
  <2> QED BY <1>1, <2>1, <2>2, <2>3 DEF Continue
<1>2. ASSUME Call(w) \/ push_front(w) \/ LockHead(w) \/ EndWalk(w) PROVE FALSE
  BY <1>2 DEF Call, NewNode, Walk, Destroy, push_front, LockHead, EndWalk, Finish, Walking
<1>3. CASE ReadNext(w) \/ TakeNext(w) \/ UnlockOld(w) \/ DeleteOld(w)
  <2>1. UNCHANGED <<cur, owed, op>> /\ pc[w] # "visit"
    BY <1>3 DEF ReadNext, TakeNext, UnlockOld, DeleteOld
  <2>2. pc'[w] # "visit"
    BY <1>3 DEF ReadNext, TakeNext, AfterTake, UnlockOld, DeleteOld
  <2> QED BY <2>1, <2>2 DEF Place, Ahead
<1>4. CASE Visit(w)
  <2>1. pc[w] = "visit" /\ pc'[w] \in {"idle", "walk"} /\ owed'[w] = owed[w] \ {nxt[w]}
    BY <1>4 DEF Visit, Visited, Finish
  <2>2. pc'[w] = "walk"
    BY <2>1 DEF Walking
  <2>3. cur'[w] = nxt[w] /\ nxt' = nxt /\ op' = op
    BY <1>4, <2>2 DEF Visit, Finish
  <2> QED BY <1>4, <2>1, <2>2, <2>3 DEF Place, Ahead
<1>5. CASE UNCHANGED vars
  BY <1>5 DEF vars, Place, Ahead
<1> QED BY <1>1, <1>2, <1>3, <1>4, <1>5 DEF Next, Continue, Place, Ahead

LEMMA PassFacts ==
    ASSUME ListTypeOK, LinkInv, HandInv, WalkInv, NEW t \in Threads, Pass(t)
    PROVE  /\ Walking(t) /\ Place(t) = cur[t] /\ Place(t)' = nxt[t] /\ next[cur[t]] = nxt[t]
           /\ Ahead(t) = owed[t] /\ Ahead(t)' = Ahead(t) \ {nxt[t]} /\ nxt[t] \in Ahead(t)
           /\ lock[nxt[t]] = t /\ lock[cur[t]] = t
           /\ cur[t] \in Cells /\ nxt[t] \in Nodes /\ nxt[t] \in Cells /\ nxt[t] # None
           /\ cur[t] # nxt[t]
           /\ \A d \in Cells : next[d] = nxt[t] => d = cur[t]
           /\ UNCHANGED <<next, data, op, cur, nxt, owed>>
           /\ \A w \in Threads \ {t} : Place(w)' = Place(w) /\ Ahead(w)' = Ahead(w) /\ pc'[w] = pc[w]
<1>1. /\ pc[t] = "pass" /\ pc'[t] = "visit" /\ \A w \in Threads \ {t} : pc'[w] = pc[w]
      /\ UNCHANGED <<next, data, op, cur, nxt, owed>>
  BY DEF Pass, At, Go, ListTypeOK, history
<1>2. /\ lock[nxt[t]] = t /\ lock[cur[t]] = t /\ next[cur[t]] = nxt[t]
      /\ cur[t] \in Cells /\ nxt[t] \in Nodes /\ nxt[t] \in Cells /\ nxt[t] # None
  BY <1>1, ListRAssumption DEF HandInv, HandAt, Cells
<1>3. \A d \in Cells : next[d] = nxt[t] => d = cur[t]
  BY <1>2 DEF LinkInv
<1>4. nxt[t] \in owed[t] /\ cur[t] \notin owed[t]
  BY <1>1, <1>2 DEF WalkInv, WalkAt, Walking, Place, Ahead
<1> QED BY <1>1, <1>2, <1>3, <1>4 DEF Walking, Place, Ahead

LEMMA UnlinkWalks ==
    ASSUME ListTypeOK, LinkInv, HandInv, NEW t \in Threads, Unlink(t),
           NEW w \in Threads, Walking(w)
    PROVE  /\ Place(w)' = Place(w) /\ Place(w) # nxt[t] /\ Ahead(w)' = Ahead(w) \ {nxt[t]}
           /\ owed'[w] = owed[w] \ {nxt[t]} /\ UNCHANGED <<data, op>>
<1>1. /\ cur[t] # nxt[t] /\ lock[nxt[t]] = t /\ pc[t] = "unlink" /\ pc'[t] = "unlock"
      /\ \A u \in Threads \ {t} : pc'[u] = pc[u]
      /\ UNCHANGED <<cur, nxt>>
  BY UnlinkFacts
<1>2. owed'[w] = owed[w] \ {nxt[t]} /\ UNCHANGED <<data, op>>
  BY DEF Unlink
<1>3. Place(w) # nxt[t]
  BY <1>1, PlaceIsLocked DEF Place
<1> QED BY <1>1, <1>2, <1>3 DEF Place, Ahead

\* A walk in front of another stays in front of it, and one behind it stays behind.
LEMMA FrontStays ==
    ASSUME ListTypeOK, LinkInv, HandInv, WalkInv, [Next]_vars,
           NEW t \in Threads, NEW u \in Threads, t # u,
           Walking(t), Walking(u), Walking(t)', Walking(u)'
    PROVE  InFront(t, u)' <=> InFront(t, u)
<1>1. CASE \A v \in Threads : ~Pass(v) /\ ~Unlink(v)
  BY <1>1, PlaceSame DEF InFront
<1>2. ASSUME NEW v \in Threads, Unlink(v) PROVE InFront(t, u)' <=> InFront(t, u)
  BY <1>2, UnlinkWalks DEF InFront
<1>3. /\ Place(t) \in Cells /\ lock[Place(t)] = t
      /\ Place(u) \in Cells /\ lock[Place(u)] = u
  BY PlaceIsLocked
<1>4. ASSUME NEW v \in Threads, Pass(v), v # t PROVE InFront(t, u)' <=> InFront(t, u)
  <2>1. Place(t)' = Place(t)
    BY <1>4, PassFacts
  <2>2. Ahead(u)' = Ahead(u) \/ (u = v /\ Ahead(u)' = Ahead(u) \ {nxt[v]} /\ lock[nxt[v]] = v)
    BY <1>4, PassFacts
  <2> QED BY <1>3, <1>4, <2>1, <2>2 DEF InFront
<1>5. CASE Pass(t)
  <2>1. /\ Place(t) = cur[t] /\ Place(t)' = nxt[t] /\ next[cur[t]] = nxt[t] /\ nxt[t] # None
        /\ \A d \in Cells : next[d] = nxt[t] => d = cur[t]
        /\ Ahead(u)' = Ahead(u)
    BY <1>5, PassFacts
  <2>2. /\ \A n \in Ahead(u) : \E p \in Ahead(u) \cup {Place(u)} : next[p] = n
        /\ \A p \in Ahead(u) : next[p] # None => next[p] \in Ahead(u)
        /\ Ahead(u) \subseteq Cells
    BY DEF WalkInv, WalkAt, Ahead, ListTypeOK, Cells
  <2>3. cur[t] # Place(u)
    BY <1>3, <2>1
  <2>4. nxt[t] \in Ahead(u) <=> cur[t] \in Ahead(u)
    BY <1>3, <2>1, <2>2, <2>3
  <2> QED BY <2>1, <2>4 DEF InFront
<1> QED BY <1>1, <1>2, <1>4, <1>5

\* What is ahead of a walk in front is ahead of the walk behind.
LEMMA AheadNested ==
    ASSUME ListTypeOK, LinkInv, WalkInv, NEW t \in Threads, NEW u \in Threads,
           Walking(u), InFront(t, u)
    PROVE  Ahead(t) \subseteq Ahead(u)
<1> DEFINE S == Ahead(t) \ Ahead(u)
<1> SUFFICES ASSUME S # {} PROVE FALSE
  OBVIOUS
<1>1. S \in SUBSET Nodes
  BY DEF Ahead, ListTypeOK
<1>2. PICK n \in S : \A m \in S : next[m] # n
  BY <1>1 DEF LinkInv
<1>3. PICK p \in Ahead(t) \cup {Place(t)} : next[p] = n
  BY <1>2 DEF InFront, WalkInv, WalkAt
<1>4. p \in Ahead(u)
  BY <1>2, <1>3 DEF InFront
<1>5. n \in Ahead(u)
  BY <1>1, <1>3, <1>4, ListRAssumption DEF WalkInv, WalkAt
<1> QED BY <1>5

LEMMA BeginsAtHead ==
    ASSUME ListTypeOK, [Next]_vars, NEW v \in Threads, ~Walking(v), Walking(v)'
    PROVE  LockHead(v)
<1> USE DEF At, Go, ListTypeOK, Walking
<1>1. ASSUME NEW x \in Threads, Call(x) PROVE FALSE
  BY <1>1 DEF Call, NewNode, Walk, Destroy
<1>2. ASSUME NEW x \in Threads, push_front(x) \/ ReadNext(x) \/ TakeNext(x) \/ Pass(x) PROVE FALSE
  BY <1>2 DEF push_front, ReadNext, TakeNext, Pass
<1>3. ASSUME NEW x \in Threads, Visit(x) \/ EndWalk(x) PROVE FALSE
  BY <1>3 DEF Visit, EndWalk, Finish
<1>4. ASSUME NEW x \in Threads, Unlink(x) \/ UnlockOld(x) \/ DeleteOld(x) PROVE FALSE
  BY <1>4 DEF Unlink, UnlockOld, DeleteOld
<1>5. ASSUME NEW x \in Threads, LockHead(x), x # v PROVE FALSE
  BY <1>5 DEF LockHead
<1>6. ~UNCHANGED vars
  BY DEF vars, local
<1> QED BY <1>1, <1>2, <1>3, <1>4, <1>5, <1>6 DEF Next, Continue

LEMMA OrderStep ==
    ListTypeOK /\ LinkInv /\ HandInv /\ WalkInv /\ OrderInv /\ [Next]_vars => OrderInv'
<1> SUFFICES ASSUME ListTypeOK, LinkInv, HandInv, WalkInv, OrderInv, [Next]_vars,
                    NEW t \in Threads, NEW u \in Threads, Walking(t)', Walking(u)', t # u
             PROVE  (InFront(t, u) \/ InFront(u, t))'
  BY DEF OrderInv
<1>1. CASE Walking(t) /\ Walking(u)
  BY <1>1, FrontStays DEF OrderInv
\* Only LockHead() begins a walk, behind all others.
<1>2. ASSUME NEW v \in Threads, NEW w \in Threads, ~Walking(v), Walking(v)', Walking(w)', v # w
      PROVE  InFront(w, v)'
  <2>1. LockHead(v)
    BY <1>2, BeginsAtHead
  <2>2. /\ pc'[v] = "walk" /\ owed'[v] = Linked /\ lock[Head] = None
        /\ pc'[w] = pc[w] /\ cur'[w] = cur[w] /\ nxt' = nxt
    BY <1>2, <2>1 DEF LockHead, Go, ListTypeOK
  <2>3. Walking(w) /\ Place(w)' = Place(w) /\ Ahead(v)' = Linked
    BY <1>2, <2>2 DEF Walking, Place, Ahead
  <2>4. Place(w) \in Cells /\ lock[Place(w)] = w /\ w # None
    BY <2>3, PlaceIsLocked, ListRAssumption
  <2>5. Place(w) \in alive
    BY <2>2, <2>4 DEF HandInv
  <2>6. Place(w) \notin Detached
    <3> SUFFICES ASSUME NEW x \in Threads, HasDetached(x), nxt[x] = Place(w) PROVE FALSE
      BY DEF Detached
    <3>1. pc[x] = "unlock" /\ lock[nxt[x]] = x
      BY <2>4 DEF HasDetached, HandInv, HandAt
    <3> QED BY <2>4, <3>1 DEF HandInv, HandAt, Place
  <2> QED BY <1>2, <2>3, <2>5, <2>6 DEF InFront, Linked
<1> QED BY <1>1, <1>2

----------------------------------------------------------------------------
(* What remove_if() has decided about the element in its hand                *)

LEMMA ChoiceStep == ListTypeOK /\ HandInv /\ ChoiceInv /\ [Next]_vars => ChoiceInv'
<1> SUFFICES ASSUME ListTypeOK, HandInv, ChoiceInv, [Next]_vars, NEW u \in Threads
             PROVE  /\ pc'[u] \in {"pass", "visit"} /\ op'[u].name = "remove_if" => ~Matches(u, nxt[u])'
                    /\ pc'[u] = "unlink" => op'[u].name = "remove_if" /\ Matches(u, nxt[u])'
  BY DEF ChoiceInv, Matches
<1> USE DEF shared, local, history, At, Go, ListTypeOK, Matches
<1>1. ASSUME pc'[u] = pc[u], op'[u] = op[u], nxt'[u] = nxt[u],
             pc[u] \in {"pass", "visit", "unlink"} => data'[nxt[u]] = data[nxt[u]]
      PROVE  /\ pc'[u] \in {"pass", "visit"} /\ op'[u].name = "remove_if" => ~Matches(u, nxt[u])'
             /\ pc'[u] = "unlink" => op'[u].name = "remove_if" /\ Matches(u, nxt[u])'
  BY <1>1 DEF ChoiceInv
<1>2. ASSUME NEW t \in Threads, NEW n \in Nodes, NEW v \in Values, NewNode(t, n, v)
      PROVE  /\ pc'[u] \in {"pass", "visit"} /\ op'[u].name = "remove_if" => ~Matches(u, nxt[u])'
             /\ pc'[u] = "unlink" => op'[u].name = "remove_if" /\ Matches(u, nxt[u])'
  <2>1. n \notin alive \cup {Head} /\ n \in Cells
    BY <1>2, ListRAssumption DEF NewNode, Cells
  <2>2. pc[u] \in {"pass", "visit", "unlink"} => nxt[u] # n
    BY <2>1, ListRAssumption DEF HandInv, HandAt
  <2>3. pc[u] \in {"pass", "visit", "unlink"} => data'[nxt[u]] = data[nxt[u]]
    BY <1>2, <2>2 DEF NewNode, HandInv, HandAt
  <2> QED BY <1>1, <1>2, <2>3 DEF NewNode
<1>3. ASSUME NEW t \in Threads, t # u, ~ \E n \in Nodes, v \in Values : NewNode(t, n, v),
             Call(t) \/ Continue(t)
      PROVE  /\ pc'[u] = pc[u] /\ op'[u] = op[u] /\ nxt'[u] = nxt[u] /\ data' = data
  <2>1. CASE Call(t)
    BY <1>3, <2>1 DEF Call, Walk, Destroy
  <2>2. CASE push_front(t) \/ LockHead(t) \/ ReadNext(t) \/ TakeNext(t) \/ Pass(t)
    BY <1>3, <2>2 DEF push_front, LockHead, ReadNext, TakeNext, Pass
  <2>3. CASE Visit(t) \/ EndWalk(t)
    BY <1>3, <2>3 DEF Visit, Visited, Finish, EndWalk
  <2>4. CASE Unlink(t) \/ UnlockOld(t) \/ DeleteOld(t)
    BY <1>3, <2>4 DEF Unlink, UnlockOld, DeleteOld
  <2> QED BY <1>3, <2>1, <2>2, <2>3, <2>4 DEF Continue
<1>4. CASE TakeNext(u)
  BY <1>4 DEF TakeNext, AfterTake
<1>5. CASE Pass(u)
  BY <1>5 DEF Pass, ChoiceInv
<1>6. CASE Visit(u) \/ EndWalk(u)
  BY <1>6 DEF Visit, EndWalk, Finish
<1>7. CASE Walk(u, "for_each", None) \/ (\E name, v : Walk(u, name, v)) \/ Destroy(u)
  BY <1>7 DEF Walk, Destroy
<1>8. CASE push_front(u) \/ LockHead(u) \/ ReadNext(u)
  BY <1>8 DEF push_front, LockHead, ReadNext
<1>9. CASE Unlink(u) \/ UnlockOld(u) \/ DeleteOld(u)
  BY <1>9 DEF Unlink, UnlockOld, DeleteOld
<1>10. CASE UNCHANGED vars
  BY <1>1, <1>10 DEF vars
<1> QED
  BY <1>1, <1>2, <1>3, <1>4, <1>5, <1>6, <1>7, <1>8, <1>9, <1>10 DEF Next, Call, Continue

----------------------------------------------------------------------------
(* What a walk will come to                                                  *)

\* Walks ahead that go on decide as before, unless the element is the one they pass.
LEMMA RemovesStay ==
    ASSUME ListTypeOK, LinkInv, HandInv, WalkInv, ChoiceInv, [Next]_vars,
           \A v \in Threads : ~Unlink(v),
           NEW t \in Threads, NEW u \in Threads, t # u, NEW n,
           Walking(t), Walking(u), Walking(t)', Walking(u)', data'[n] = data[n]
    PROVE  Removes(t, u, n)' <=> Removes(t, u, n)
<1>1. InFront(t, u)' <=> InFront(t, u)
  BY FrontStays
<1>2. /\ op'[t] = op[t]
      /\ \/ owed'[t] = owed[t]
         \/ Visit(t) /\ nxt'[t] = nxt[t] /\ owed'[t] = owed[t] \ {nxt[t]} /\ pc[t] = "visit"
  <2>1. CASE \A v \in Threads : ~Pass(v)
    BY <2>1, PlaceSame
  <2>2. CASE \E v \in Threads : Pass(v)
    BY <2>2, PassFacts
  <2> QED BY <2>1, <2>2
<1>3. pc[t] = "visit" /\ op[t].name = "remove_if" => ~Matches(t, nxt[t])
  BY DEF ChoiceInv
<1> QED BY <1>1, <1>2, <1>3 DEF Removes, Matches

\* No walk in front removes what u has in its hand.
LEMMA OwnIsComing ==
    ASSUME ListTypeOK, LinkInv, HandInv, WalkInv, NEW u \in Threads, pc[u] \in {"visit", "unlink"}
    PROVE  nxt[u] \in Coming(u)
<1>1. /\ Walking(u) /\ nxt[u] \in Nodes /\ nxt[u] \in Cells /\ lock[nxt[u]] = u
      /\ pc[u] = "unlink" => cur[u] \in Cells /\ next[cur[u]] = nxt[u] /\ lock[cur[u]] = u
  BY DEF HandInv, HandAt, Walking, Cells
<1>2. nxt[u] \in owed[u]
  BY <1>1, ListRAssumption DEF WalkInv, WalkAt, Place, Ahead
<1>3. ASSUME NEW t \in Threads, InFront(t, u), nxt[u] \in owed[t] PROVE FALSE
  <2>1. /\ Ahead(t) \subseteq Ahead(u) /\ Place(t) \in Ahead(u) /\ Place(u) \notin Ahead(u)
        /\ Walking(t)
    BY <1>1, <1>3, AheadNested DEF InFront, WalkInv, WalkAt
  <2>2. Place(t) \in Cells /\ lock[Place(t)] = t /\ t # u
    BY <2>1, PlaceIsLocked
  <2>3. nxt[u] \in Ahead(t)
    BY <1>1, <1>3, <2>2 DEF Ahead, Place
  <2>4. pc[u] = "unlink"
    BY <1>1, <2>1, <2>3 DEF Place
  <2>5. PICK p \in Ahead(t) \cup {Place(t)} : next[p] = nxt[u]
    BY <2>1, <2>3 DEF WalkInv, WalkAt
  <2>6. p = cur[u]
    <3>1. p \in Cells
      BY <2>2, <2>5 DEF Ahead, ListTypeOK, Cells
    <3> QED BY <1>1, <2>4, <2>5, <3>1, ListRAssumption DEF LinkInv
  <2> QED BY <2>1, <2>4, <2>5, <2>6 DEF Place
<1> QED BY <1>2, <1>3 DEF Coming, Removes

\* What is owed is allocated.
LEMMA OwedIsAlive ==
    ASSUME ListTypeOK, LinkInv, HandInv, WalkInv, NEW u \in Threads, Walking(u)
    PROVE  owed[u] \subseteq alive
<1> SUFFICES ASSUME NEW n \in owed[u] PROVE n \in alive
  OBVIOUS
<1>1. CASE n = Place(u)
  <2>1. n \in Cells /\ lock[n] = u /\ u # None /\ n \in Nodes /\ n # Head
    BY <1>1, PlaceIsLocked, ListRAssumption DEF ListTypeOK
  <2> QED BY <2>1 DEF HandInv
<1>2. CASE n # Place(u)
  <2>1. PICK p \in Ahead(u) \cup {Place(u)} : next[p] = n
    BY <1>2 DEF Ahead, Place, WalkInv, WalkAt
  <2>2. p \in Cells /\ n \in Nodes /\ n # None
    BY <2>1, PlaceIsLocked, ListRAssumption DEF Ahead, ListTypeOK, Cells
  <2> QED BY <2>1, <2>2 DEF LinkInv
<1> QED BY <1>1, <1>2

SettledStep(u) ==
    /\ \/ Coming(u)' = Coming(u)
       \/ /\ pc[u] \in {"visit", "unlink"} /\ nxt[u] \in Coming(u)
          /\ Coming(u)' = Coming(u) \ {nxt[u]}
    /\ \A n \in Coming(u) : data'[n] = data[n]

LEMMA SettledUnlink ==
    ASSUME ListTypeOK, LinkInv, HandInv, WalkInv, ChoiceInv, [Next]_vars,
           NEW v \in Threads, Unlink(v), NEW u \in Threads, Walking(u), Walking(u)'
    PROVE  SettledStep(u)
<1> PICK x : x = nxt[v]
  OBVIOUS
<1>1. /\ owed'[u] = owed[u] \ {x} /\ UNCHANGED <<data, op>>
      /\ pc[v] = "unlink" /\ \A w \in Threads : Walking(w)' <=> Walking(w)
  BY UnlinkFacts, UnlinkWalks DEF Walking
<1>2. \A t \in Threads : InFront(t, u)' <=> InFront(t, u)
  BY <1>1, UnlinkWalks DEF InFront
<1>3. \A t \in Threads, n \in owed[u] : n # x => (Removes(t, u, n)' <=> Removes(t, u, n))
  BY <1>1, <1>2, UnlinkWalks DEF Removes, Matches, InFront
<1>4. Coming(u)' = Coming(u) \ {x}
  BY <1>1, <1>3 DEF Coming
<1>5. CASE u = v
  BY <1>1, <1>4, <1>5, OwnIsComing DEF SettledStep
<1>6. CASE u # v
  <2>1. x \notin Coming(u)
    <3> SUFFICES ASSUME x \in owed[u] PROVE Removes(v, u, x)
      BY DEF Coming
    <3>1. /\ cur[v] \in Cells /\ x \in Cells /\ next[cur[v]] = x /\ lock[cur[v]] = v /\ lock[x] = v
          /\ \A d \in Cells : next[d] = x => d = cur[v]
      BY UnlinkFacts
    <3>2. Place(u) \in Cells /\ lock[Place(u)] = u
      BY PlaceIsLocked
    <3>3. x \in Ahead(u)
      BY <1>6, <3>1, <3>2 DEF Ahead, Place
    <3>4. PICK p \in Ahead(u) \cup {Place(u)} : next[p] = x
      BY <3>3 DEF WalkInv, WalkAt
    <3>5. p = cur[v]
      BY <3>1, <3>2, <3>4 DEF Ahead, ListTypeOK, Cells
    <3>6. InFront(v, u)
      BY <1>1, <1>6, <3>1, <3>2, <3>4, <3>5 DEF InFront, Place, Walking
    <3>7. x \in owed[v] /\ op[v].name = "remove_if" /\ Matches(v, x)
      BY <1>1, OwnIsComing DEF Coming, ChoiceInv
    <3> QED BY <3>6, <3>7 DEF Removes
  <2> QED BY <1>1, <1>4, <2>1 DEF SettledStep
<1> QED BY <1>5, <1>6

\* A walk owes nothing when it ends, and a walk in front that finds what it looks for
\* is none that removes.
LEMMA EndsWithNothing ==
    ASSUME ListTypeOK, LinkInv, HandInv, WalkInv, NEW t \in Threads, Walking(t),
           NEW n \in owed[t], op[t].name = "remove_if", [Next]_vars
    PROVE  Walking(t)'
<1>1. ~EndWalk(t)
  <2> SUFFICES ASSUME pc[t] = "walk", next[cur[t]] = None PROVE FALSE
    BY DEF EndWalk, At
  <2>1. owed[t] \in SUBSET Nodes /\ None \notin owed[t] /\ owed[t] # {}
    BY ListRAssumption DEF ListTypeOK
  <2>2. PICK m \in owed[t] : \A p \in owed[t] : next[p] # m
    BY <2>1 DEF LinkInv
  <2>3. \E p \in owed[t] \cup {cur[t]} : next[p] = m
    BY DEF WalkInv, WalkAt, Walking, Place, Ahead
  <2> QED BY <2>1, <2>2, <2>3
<1> USE DEF At, Go, ListTypeOK, Walking
<1>2. ASSUME NEW x \in Threads, Call(x) PROVE Walking(t)'
  BY <1>2 DEF Call, NewNode, Walk, Destroy
<1>3. ASSUME NEW x \in Threads, push_front(x) \/ LockHead(x) \/ ReadNext(x) \/ TakeNext(x) \/ Pass(x)
      PROVE  Walking(t)'
  BY <1>3 DEF push_front, LockHead, ReadNext, TakeNext, AfterTake, Pass
<1>4. ASSUME NEW x \in Threads, Visit(x) PROVE Walking(t)'
  BY <1>4 DEF Visit, Finish
<1>5. ASSUME NEW x \in Threads, EndWalk(x) PROVE Walking(t)'
  BY <1>1, <1>5 DEF EndWalk, Finish
<1>6. ASSUME NEW x \in Threads, Unlink(x) \/ UnlockOld(x) \/ DeleteOld(x) PROVE Walking(t)'
  BY <1>6 DEF Unlink, UnlockOld, DeleteOld
<1>7. CASE UNCHANGED vars
  BY <1>7 DEF vars, local
<1> QED BY <1>2, <1>3, <1>4, <1>5, <1>6, <1>7 DEF Next, Continue

\* A walk that begins is behind all others.
LEMMA NewWalkIsLast ==
    ASSUME ListTypeOK, NEW t \in Threads, NEW u \in Threads, [Next]_vars,
           Walking(u), Walking(u)', ~Walking(t), Walking(t)'
    PROVE  ~InFront(t, u)' /\ op' = op
<1> USE DEF At, Go, ListTypeOK
<1>1. LockHead(t)
  BY BeginsAtHead
<1>2. Place(t)' = Head /\ Ahead(u)' \subseteq Nodes
  BY <1>1 DEF LockHead, Place, Ahead
<1> QED BY <1>1, <1>2, ListRAssumption DEF InFront, LockHead

LEMMA SettledOther ==
    ASSUME ListTypeOK, LinkInv, HandInv, WalkInv, ChoiceInv, [Next]_vars,
           \A v \in Threads : ~Unlink(v), NEW u \in Threads, Walking(u), Walking(u)'
    PROVE  SettledStep(u)
<1>1. \A n \in owed[u] : data'[n] = data[n]
  <2> SUFFICES ASSUME NEW n \in owed[u], data' # data PROVE data'[n] = data[n]
    OBVIOUS
  <2>1. PICK t \in Threads, m \in Nodes, v \in Values : NewNode(t, m, v)
    BY DEF Next, Call, Continue, Walk, Destroy, push_front, LockHead, ReadNext, TakeNext, Pass, Visit,
           UnlockOld, DeleteOld, EndWalk, vars, shared
  <2>2. n # m
    BY <2>1, OwedIsAlive DEF NewNode
  <2> QED BY <2>1, <2>2 DEF NewNode
<1>2. ASSUME NEW t \in Threads, NEW n \in owed[u] PROVE Removes(t, u, n)' <=> Removes(t, u, n)
  <2>1. CASE t = u
    <3>1. ~InFront(u, u) /\ ~InFront(u, u)'
      BY WalkStep DEF InFront, WalkInv, WalkAt
    <3> QED BY <2>1, <3>1 DEF Removes
  <2>2. CASE t # u /\ Walking(t) /\ Walking(t)'
    BY <1>1, <2>2, RemovesStay
  <2>3. CASE Walking(t) /\ ~Walking(t)'
    <3>1. ~Removes(t, u, n)
      BY <2>3, EndsWithNothing DEF Removes
    <3> QED BY <2>3, <3>1 DEF Removes, InFront
  <2>4. CASE ~Walking(t) /\ Walking(t)'
    BY <2>4, NewWalkIsLast DEF Removes, InFront
  <2>5. CASE ~Walking(t) /\ ~Walking(t)'
    BY <2>5 DEF Removes, InFront
  <2> QED BY <2>1, <2>2, <2>3, <2>4, <2>5
<1>3. owed'[u] = owed[u] \/ (pc[u] = "visit" /\ owed'[u] = owed[u] \ {nxt[u]})
  <2>1. CASE \A v \in Threads : ~Pass(v)
    BY <2>1, PlaceSame
  <2>2. CASE \E v \in Threads : Pass(v)
    BY <2>2, PassFacts
  <2> QED BY <2>1, <2>2
<1>4. CASE owed'[u] = owed[u]
  <2>1. Coming(u)' = Coming(u)
    BY <1>2, <1>4 DEF Coming
  <2> QED BY <1>1, <2>1 DEF SettledStep, Coming
<1>5. CASE pc[u] = "visit" /\ owed'[u] = owed[u] \ {nxt[u]}
  <2>1. Coming(u)' = Coming(u) \ {nxt[u]}
    BY <1>2, <1>5 DEF Coming
  <2> QED BY <1>1, <1>5, <2>1, OwnIsComing DEF SettledStep, Coming
<1> QED BY <1>3, <1>4, <1>5

----------------------------------------------------------------------------
(* Who holds the mutexes                                                     *)

\* Cell c is one that t has to give back.
Holds(t, c) == \/ c = cur[t] /\ Walking(t) /\ pc[t] # "visit"
               \/ c = nxt[t] /\ pc[t] \in {"pass", "visit", "unlink", "unlock"}

LEMMA LockStep == ListTypeOK /\ HandInv /\ LockInv /\ [Next]_vars => LockInv'
<1> SUFFICES ASSUME ListTypeOK, HandInv, LockInv, [Next]_vars,
                    NEW c \in Cells, NEW u, u = lock'[c], u # None
             PROVE  Holds(u, c)'
  BY DEF LockInv, Holds
<1> USE DEF shared, local, history, At, Go, ListTypeOK, Walking
<1>0. u \in Threads /\ (lock[c] = u => Holds(u, c))
  BY TypeStep DEF LockInv, Holds
\* A step of another thread.
<1>1. ASSUME NEW t \in Threads, t # u, Call(t) \/ Continue(t) PROVE Holds(u, c)'
  <2>1. pc'[u] = pc[u] /\ cur'[u] = cur[u] /\ nxt'[u] = nxt[u] /\ lock'[c] \in {lock[c], t, None}
    <3>1. CASE Call(t)
      BY <1>0, <1>1, <3>1 DEF Call, NewNode, Walk, Destroy
    <3>2. CASE push_front(t) \/ LockHead(t) \/ ReadNext(t) \/ TakeNext(t) \/ Pass(t)
      BY <1>0, <1>1, <3>2 DEF push_front, LockHead, ReadNext, TakeNext, Pass
    <3>3. CASE Visit(t) \/ EndWalk(t)
      BY <1>0, <1>1, <3>3 DEF Visit, Finish, EndWalk
    <3>4. CASE Unlink(t) \/ UnlockOld(t) \/ DeleteOld(t)
      BY <1>0, <1>1, <3>4 DEF Unlink, UnlockOld, DeleteOld
    <3> QED BY <1>1, <3>1, <3>2, <3>3, <3>4 DEF Continue
  <2> QED BY <1>0, <1>1, <2>1 DEF Holds
<1>2. CASE Call(u) \/ push_front(u)
  BY <1>0, <1>2 DEF Call, NewNode, Walk, Destroy, push_front, Holds
<1>3. CASE LockHead(u) \/ ReadNext(u)
  BY <1>0, <1>3 DEF LockHead, ReadNext, Holds
<1>4. CASE TakeNext(u)
  BY <1>0, <1>4 DEF TakeNext, AfterTake, Holds
<1>5. CASE Pass(u)
  BY <1>0, <1>5 DEF Pass, Holds
<1>6. CASE Visit(u)
  BY <1>0, <1>6 DEF Visit, Finish, Holds
<1>7. CASE EndWalk(u)
  BY <1>0, <1>7 DEF EndWalk, Finish, Holds
<1>8. CASE Unlink(u) \/ UnlockOld(u) \/ DeleteOld(u)
  BY <1>0, <1>8 DEF Unlink, UnlockOld, DeleteOld, Holds
<1>9. CASE UNCHANGED vars
  BY <1>0, <1>9 DEF vars, Holds
<1> QED BY <1>1, <1>2, <1>3, <1>4, <1>5, <1>6, <1>7, <1>8, <1>9 DEF Next, Continue

\* The walks that wait for each other in a circle would be a circle in the list.
LEMMA NoCircle ==
    ASSUME ListTypeOK, LinkInv, HandInv, LockInv, IsFiniteSet(Threads)
    PROVE  NobodyWaitsInACircle
<1> SUFFICES ASSUME NEW W \in SUBSET Threads, W # {},
                    \A t \in W : \E u \in W : WaitsFor(t, u)
             PROVE  FALSE
  BY DEF NobodyWaitsInACircle
<1> DEFINE T == {t \in W : pc[t] = "take"}
<1>1. ASSUME NEW t \in W, NEW u \in W, WaitsFor(t, u)
      PROVE  u \in T /\ (t \in T => lock[nxt[t]] = u /\ nxt[t] = cur[u])
  <2>1. PICK c \in Cells : lock[c] = u /\ (pc[t] = "take" => c = nxt[t])
    BY <1>1 DEF WaitsFor, HandInv, HandAt, Cells
  <2>2. Holds(u, c)
    BY <2>1, ListRAssumption DEF LockInv, Holds
  <2>3. pc[u] \in {"take", "push", "head"}
    BY DEF WaitsFor
  <2>4. pc[u] = "take" /\ c = cur[u]
    BY <2>2, <2>3 DEF Holds, Walking
  <2> QED BY <2>1, <2>4
<1>2. T # {}
  BY <1>1
<1>3. \A t \in T : /\ cur[t] \in Cells /\ nxt[t] \in Nodes /\ next[cur[t]] = nxt[t]
                   /\ lock[cur[t]] = t /\ lock[nxt[t]] \in T /\ nxt[t] = cur[lock[nxt[t]]]
  BY <1>1 DEF HandInv, HandAt
<1> DEFINE g == [t \in T |-> lock[nxt[t]]]
<1>4. g \in Injection(T, T)
  <2>1. g \in [T -> T]
    BY <1>3
  <2>2. ASSUME NEW t \in T, NEW u \in T, g[t] = g[u] PROVE t = u
    <3>1. next[cur[t]] = next[cur[u]] /\ next[cur[t]] # None
      BY <1>3, <2>2, ListRAssumption
    <3>2. cur[t] = cur[u]
      BY <1>3, <3>1 DEF LinkInv
    <3> QED BY <1>3, <3>2
  <2> QED BY <2>1, <2>2 DEF Injection, IsInjective
<1>5. IsFiniteSet(T)
  BY FS_Subset
<1>6. g \in Surjection(T, T)
  BY <1>4, <1>5, FS_Injection
<1>7. \A t \in T : \E u \in T : g[u] = t
  BY <1>6 DEF Surjection
<1> DEFINE S == {cur[t] : t \in T}
<1>8. ASSUME NEW t \in T PROVE cur[t] \in Nodes /\ \E m \in S : next[m] = cur[t]
  <2>1. PICK u \in T : lock[nxt[u]] = t
    BY <1>7
  <2> QED BY <1>3, <2>1
<1>9. S \in SUBSET Nodes /\ S # {}
  BY <1>2, <1>8
<1>10. \E n \in S : \A m \in S : next[m] # n
  BY <1>9 DEF LinkInv
<1> QED BY <1>8, <1>10

----------------------------------------------------------------------------
(* Theorems                                                                  *)

WalksInv == ChoiceInv /\ LockInv /\ OrderInv

LEMMA ListInvariant == Spec => [](ListInv /\ WalksInv)
<1>1. Init => ListInv /\ WalksInv
  BY ListInit DEF Init, WalksInv, ChoiceInv, LockInv, OrderInv, Walking
<1>2. ListInv /\ WalksInv /\ [Next]_vars => (ListInv /\ WalksInv)'
  BY TypeStep, LinkStep, HandStep, WalkStep, ChoiceStep, LockStep, OrderStep DEF ListInv, WalksInv
<1> QED BY <1>1, <1>2, PTL DEF Spec

(* Nobody ever touches a node that was deleted and no mutex is destroyed      *)
(* while it is locked: the walker holds the mutex of the cell before the one  *)
(* it comes to, so that nobody else can unlink it (list_r.hpp:59-121). *)
THEOREM NodesStayAlive == Spec => []NodesAreAlive
<1>1. ListInv => NodesAreAlive
  <2> SUFFICES ASSUME ListTypeOK, LinkInv, HandInv, NEW t \in Threads
               PROVE  /\ pc[t] \in {"walk", "take", "pass", "unlink"} => cur[t] \in alive \cup {Head}
                      /\ pc[t] \in {"push", "take", "pass", "visit", "unlink", "delete"} =>
                             nxt[t] \in alive
                      /\ pc[t] = "delete" => lock[nxt[t]] = None
    BY DEF ListInv, NodesAreAlive
  <2>1. \A c \in Cells : lock[c] = t => c \in alive \cup {Head}
    BY ListRAssumption DEF HandInv
  <2>2. HandAt(t) /\ Nodes \subseteq Cells /\ Head \notin Nodes /\ None \notin Nodes
    BY ListRAssumption DEF HandInv, Cells
  <2>3. pc[t] \in {"walk", "take", "pass", "unlink"} => cur[t] \in alive \cup {Head}
    BY <2>1, <2>2 DEF HandAt
  <2>4. pc[t] \in {"pass", "visit", "unlink"} => nxt[t] \in alive
    BY <2>1, <2>2 DEF HandAt
  <2>5. pc[t] = "take" => nxt[t] \in alive
    BY <2>2 DEF HandAt, LinkInv
  <2>6. pc[t] \in {"push", "delete"} => nxt[t] \in alive
    BY <2>2 DEF HandAt, HasDetached
  <2>7. pc[t] = "delete" => lock[nxt[t]] = None
    BY <2>2 DEF HandAt
  <2> QED BY <2>3, <2>4, <2>5, <2>6, <2>7
<1> QED BY <1>1, ListInvariant, PTL

(* A walk that reaches the end has come to every element that was on the list *)
(* when it began and was not removed since, and to none twice, for any number *)
(* of threads and nodes (list_r.hpp:68-121). *)
THEOREM WalksMissNothing == Spec => []WalkMissesNothing
<1>1. ListInv => WalkMissesNothing
  <2> SUFFICES ASSUME ListTypeOK, LinkInv, WalkInv, NEW t \in Threads
               PROVE  /\ pc[t] = "walk" /\ next[cur[t]] = None => owed[t] = {}
                      /\ pc[t] = "visit" => nxt[t] \notin seen[t]
    BY DEF ListInv, WalkMissesNothing
  <2>1. pc[t] = "visit" => nxt[t] \notin seen[t]
    BY DEF WalkInv, WalkAt, Walking
  <2>2. ASSUME pc[t] = "walk", next[cur[t]] = None, owed[t] # {} PROVE FALSE
    <3>1. owed[t] \in SUBSET Nodes /\ None \notin owed[t]
      BY ListRAssumption DEF ListTypeOK
    <3>2. PICK n \in owed[t] : \A m \in owed[t] : next[m] # n
      BY <2>2, <3>1 DEF LinkInv
    <3>3. \E p \in owed[t] \cup {cur[t]} : next[p] = n
      BY <2>2 DEF WalkInv, WalkAt, Walking, Place, Ahead
    <3> QED BY <2>2, <3>1, <3>2, <3>3
  <2> QED BY <2>1, <2>2
<1> QED BY <1>1, ListInvariant, PTL

(* Walks are serializable: for any number of threads that walk, add and       *)
(* remove, what a walk comes to and what is in it is settled when it takes    *)
(* the mutex of the head, by the walks that began before (list_r.hpp:68-121). *)
THEOREM WalksAreSerial == Spec => WalkIsSettled
<1>1. ASSUME ListInv, WalksInv, [Next]_vars, NEW u \in Threads, Walking(u), Walking(u)'
      PROVE  SettledStep(u)
  BY <1>1, SettledUnlink, SettledOther DEF ListInv, WalksInv
<1>2. ListInv /\ WalksInv /\ [Next]_vars =>
          [\A u \in Threads : Walking(u) /\ Walking(u)' =>
               /\ \/ Coming(u)' = Coming(u)
                  \/ /\ pc[u] \in {"visit", "unlink"} /\ nxt[u] \in Coming(u)
                     /\ Coming(u)' = Coming(u) \ {nxt[u]}
               /\ \A n \in Coming(u) : data'[n] = data[n]]_vars
  BY <1>1 DEF SettledStep
<1> QED BY <1>2, ListInvariant, PTL DEF Spec, WalkIsSettled

(* No walk overtakes another: of two walks one is in front, and stays there   *)
(* until one of them ends (list_r.hpp:68-121). *)
THEOREM NobodyOvertakes ==
    Spec => /\ []OrderInv
            /\ [][\A t, u \in Threads :
                      t # u /\ Walking(t) /\ Walking(u) /\ Walking(t)' /\ Walking(u)' =>
                          (InFront(t, u)' <=> InFront(t, u))]_vars
<1>1. ListInv /\ [Next]_vars =>
          [\A t, u \in Threads :
               t # u /\ Walking(t) /\ Walking(u) /\ Walking(t)' /\ Walking(u)' =>
                   (InFront(t, u)' <=> InFront(t, u))]_vars
  BY FrontStays DEF ListInv
<1>2. WalksInv => OrderInv
  BY DEF WalksInv
<1> QED BY <1>1, <1>2, ListInvariant, PTL DEF Spec

(* However many threads use the list, they never wait for each other in a     *)
(* circle, so that no call is stuck for that reason (list_r.hpp:59-121). *)
THEOREM NoDeadlock ==
    ASSUME IsFiniteSet(Threads) PROVE Spec => []NobodyWaitsInACircle
<1>1. ListInv /\ WalksInv => NobodyWaitsInACircle
  BY NoCircle DEF ListInv, WalksInv
<1> QED BY <1>1, ListInvariant, PTL

=============================================================================
