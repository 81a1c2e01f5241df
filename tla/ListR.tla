-------------------------------- MODULE ListR --------------------------------
(* The thread-safe list of src/project/utils/list_r.hpp.  Every node has a   *)
(* mutex; a thread that walks the list takes the mutex of the next node      *)
(* before it gives up that of the current one (hand over hand).              *)
(*                                                                           *)
(* A section under one mutex that does not block is one step.  Memory is     *)
(* reused: a node that was deleted may be allocated again.                   *)
EXTENDS Naturals, FiniteSets

CONSTANTS
    Threads,    \* the threads that use the list
    Nodes,      \* bound: nodes allocated at one time
    Values,     \* what an element may be; predicates compare with one of them
    MaxCalls,   \* bound: calls in a behaviour
    Head,       \* the member head, which holds no element
    None        \* null, nobody

ASSUME ListRAssumption ==
    /\ MaxCalls \in Nat
    /\ None \notin Nodes \cup Threads \cup {Head} /\ Head \notin Nodes

VARIABLES
    next,       \* next of Head and of every node
    data,       \* the element in each node
    alive,      \* the nodes that are allocated
    lock,       \* the thread that holds the mutex of each node
    pc,         \* where each thread is in its call,
    op,         \* ... which call, and the value it looks for
    cur,        \* ... the variable current
    nxt,        \* ... the variable next; the new node of push_front()
    calls,      \* calls made so far
    closed,     \* the destructor was called
    owed,       \* history: the elements a walk has still to come to
    seen        \* history: the elements a walk has come to

shared == <<next, data, alive, lock>>
local == <<pc, op, cur, nxt>>
history == <<owed, seen>>
vars == <<shared, local, calls, closed, history>>

Cells == Nodes \cup {Head}
NoOp == [name |-> "none", value |-> None]
At(t, label) == pc[t] = label
Go(t, label) == pc' = [pc EXCEPT ![t] = label]

Init == /\ next = [c \in Cells |-> None]
        /\ data = [n \in Nodes |-> None]
        /\ alive = {}
        /\ lock = [c \in Cells |-> None]
        /\ pc = [t \in Threads |-> "idle"]
        /\ op = [t \in Threads |-> NoOp]
        /\ cur = [t \in Threads |-> None]
        /\ nxt = [t \in Threads |-> None]
        /\ calls = 0 /\ closed = FALSE
        /\ owed = [t \in Threads |-> {}]
        /\ seen = [t \in Threads |-> {}]

\* The nodes somebody has allocated and not yet linked, or unlinked and not yet
\* deleted.
HasDetached(t) == pc[t] \in {"push", "unlock", "delete"}
Detached == {nxt[t] : t \in {u \in Threads : HasDetached(u)}}
Linked == alive \ Detached

Matches(t, n) == op[t].value = None \/ data[n] = op[t].value

----------------------------------------------------------------------------
(* push_front()                                                              *)
NewNode(t, n, v) ==
    /\ At(t, "idle") /\ ~closed /\ calls < MaxCalls
    /\ n \in Nodes \ alive
    /\ alive' = alive \cup {n}
    /\ data' = [data EXCEPT ![n] = v]
    /\ next' = [next EXCEPT ![n] = None]
    /\ nxt' = [nxt EXCEPT ![t] = n]
    /\ calls' = calls + 1
    /\ Go(t, "push")
    /\ UNCHANGED <<lock, op, cur, closed, history>>

push_front(t) ==
    /\ At(t, "push") /\ lock[Head] = None
    /\ next' = [next EXCEPT ![nxt[t]] = next[Head], ![Head] = nxt[t]]
    /\ nxt' = [nxt EXCEPT ![t] = None]
    /\ Go(t, "idle")
    /\ UNCHANGED <<data, alive, lock, op, cur, calls, closed, history>>

----------------------------------------------------------------------------
(* for_each(), find_first_if(), remove_if() and the destructor, which is a   *)
(* remove_if() of everything when nobody uses the list any more.             *)
Walk(t, name, v) ==
    /\ At(t, "idle") /\ ~closed /\ calls < MaxCalls
    /\ calls' = calls + 1
    /\ op' = [op EXCEPT ![t] = [name |-> name, value |-> v]]
    /\ Go(t, "head")
    /\ UNCHANGED <<shared, cur, nxt, closed, history>>

Destroy(t) ==
    /\ ~closed /\ \A u \in Threads : At(u, "idle")
    /\ closed' = TRUE
    /\ op' = [op EXCEPT ![t] = [name |-> "remove_if", value |-> None]]
    /\ Go(t, "head")
    /\ UNCHANGED <<shared, cur, nxt, calls, history>>

LockHead(t) ==
    /\ At(t, "head") /\ lock[Head] = None
    /\ lock' = [lock EXCEPT ![Head] = t]
    /\ cur' = [cur EXCEPT ![t] = Head]
    /\ owed' = [owed EXCEPT ![t] = Linked]
    /\ seen' = [seen EXCEPT ![t] = {}]
    /\ Go(t, "walk")
    /\ UNCHANGED <<next, data, alive, op, nxt, calls, closed>>

ReadNext(t) ==
    /\ At(t, "walk") /\ next[cur[t]] # None
    /\ nxt' = [nxt EXCEPT ![t] = next[cur[t]]]
    /\ Go(t, "take")
    /\ UNCHANGED <<shared, op, cur, calls, closed, history>>

AfterTake(t) == IF op[t].name = "remove_if" /\ Matches(t, nxt[t]) THEN "unlink" ELSE "pass"

\* Mutant: a walk that gives up the current node as soon as it has the next one.
TakeNext_GiveUp(t) ==
    /\ At(t, "take") /\ lock[nxt[t]] = None
    /\ lock' = [lock EXCEPT ![nxt[t]] = t, ![cur[t]] = None]
    /\ Go(t, AfterTake(t))
    /\ UNCHANGED <<next, data, alive, op, cur, nxt, calls, closed, history>>

\* Mutant: a walk that goes on without the mutex of the next node.
TakeNext_NoWait(t) ==
    /\ At(t, "take")
    /\ lock' = [lock EXCEPT ![nxt[t]] = t]
    /\ Go(t, AfterTake(t))
    /\ UNCHANGED <<next, data, alive, op, cur, nxt, calls, closed, history>>

TakeNext(t) ==
    /\ At(t, "take") /\ lock[nxt[t]] = None
    /\ lock' = [lock EXCEPT ![nxt[t]] = t]
    /\ Go(t, AfterTake(t))
    /\ UNCHANGED <<next, data, alive, op, cur, nxt, calls, closed, history>>

\* for_each() and find_first_if() work on the next node with its mutex only.
Pass(t) ==
    /\ At(t, "pass")
    /\ lock' = [lock EXCEPT ![cur[t]] = None]
    /\ Go(t, "visit")
    /\ UNCHANGED <<next, data, alive, op, cur, nxt, calls, closed, history>>

Visited(t) == /\ owed' = [owed EXCEPT ![t] = @ \ {nxt[t]}]
              /\ seen' = [seen EXCEPT ![t] = @ \cup {nxt[t]}]

Finish(t) == /\ op' = [op EXCEPT ![t] = NoOp]
             /\ cur' = [cur EXCEPT ![t] = None]
             /\ nxt' = [nxt EXCEPT ![t] = None]
             /\ Go(t, "idle")

Visit(t) ==
    /\ At(t, "visit")
    /\ Visited(t)
    /\ IF op[t].name = "find_first_if" /\ Matches(t, nxt[t])
       THEN Finish(t) /\ lock' = [lock EXCEPT ![nxt[t]] = None]
       ELSE /\ cur' = [cur EXCEPT ![t] = nxt[t]]
            /\ Go(t, "walk")
            /\ UNCHANGED <<op, nxt, lock>>
    /\ UNCHANGED <<next, data, alive, calls, closed>>

\* Mutant: the rest of the list goes with the removed node.
Unlink_Rest(t) ==
    /\ At(t, "unlink")
    /\ next' = [next EXCEPT ![cur[t]] = None]
    /\ owed' = [u \in Threads |-> owed[u] \ {nxt[t]}]
    /\ seen' = [u \in Threads |-> seen[u] \ {nxt[t]}]
    /\ Go(t, "unlock")
    /\ UNCHANGED <<data, alive, lock, op, cur, nxt, calls, closed>>

\* remove_if(): nobody owes or remembers a removed element any more.
Unlink(t) ==
    /\ At(t, "unlink")
    /\ next' = [next EXCEPT ![cur[t]] = next[nxt[t]], ![nxt[t]] = None]
    /\ owed' = [u \in Threads |-> owed[u] \ {nxt[t]}]
    /\ seen' = [u \in Threads |-> seen[u] \ {nxt[t]}]
    /\ Go(t, "unlock")
    /\ UNCHANGED <<data, alive, lock, op, cur, nxt, calls, closed>>

\* Mutant: a removed node that stays locked.
UnlockOld_Skip(t) ==
    /\ At(t, "unlock")
    /\ Go(t, "delete")
    /\ UNCHANGED <<shared, op, cur, nxt, calls, closed, history>>

UnlockOld(t) ==
    /\ At(t, "unlock")
    /\ lock' = [lock EXCEPT ![nxt[t]] = None]
    /\ Go(t, "delete")
    /\ UNCHANGED <<next, data, alive, op, cur, nxt, calls, closed, history>>

DeleteOld(t) ==
    /\ At(t, "delete")
    /\ alive' = alive \ {nxt[t]}
    /\ nxt' = [nxt EXCEPT ![t] = None]
    /\ Go(t, "walk")
    /\ UNCHANGED <<next, data, lock, op, cur, calls, closed, history>>

EndWalk(t) ==
    /\ At(t, "walk") /\ next[cur[t]] = None
    /\ lock' = [lock EXCEPT ![cur[t]] = None]
    /\ Finish(t)
    /\ UNCHANGED <<next, data, alive, calls, closed, history>>

----------------------------------------------------------------------------
Continue(t) ==
    \/ push_front(t) \/ LockHead(t) \/ ReadNext(t) \/ TakeNext(t) \/ Pass(t) \/ Visit(t)
    \/ Unlink(t) \/ UnlockOld(t) \/ DeleteOld(t) \/ EndWalk(t)

Call(t) ==
    \/ \E n \in Nodes, v \in Values : NewNode(t, n, v)
    \/ Walk(t, "for_each", None)
    \/ \E name \in {"find_first_if", "remove_if"}, v \in Values : Walk(t, name, v)
    \/ Destroy(t)

Next == \E t \in Threads : Call(t) \/ Continue(t)

\* Threads that are in a call go on; nobody has to make one.
Spec == Init /\ [][Next]_vars /\ \A t \in Threads : WF_vars(Continue(t))

----------------------------------------------------------------------------
\* The cell a walk has come to, and what lies before it.
Walking(t) == pc[t] \in {"walk", "take", "pass", "visit", "unlink", "unlock", "delete"}
Place(t) == IF pc[t] = "visit" THEN nxt[t] ELSE cur[t]
Ahead(t) == IF pc[t] = "visit" THEN owed[t] \ {nxt[t]} ELSE owed[t]

\* Walk t is further on the list than walk u.
InFront(t, u) == Walking(t) /\ Place(t) \in Ahead(u)

\* Walk t is going to remove element n before walk u comes to it.
Removes(t, u, n) ==
    InFront(t, u) /\ op[t].name = "remove_if" /\ n \in owed[t] /\ Matches(t, n)

\* The elements that walk u will come to.
Coming(u) == {n \in owed[u] : \A t \in Threads : ~Removes(t, u, n)}

\* t cannot go on because u holds the mutex it needs.
WaitsFor(t, u) ==
    \/ pc[t] = "take" /\ lock[nxt[t]] = u
    \/ pc[t] \in {"push", "head"} /\ lock[Head] = u

----------------------------------------------------------------------------
(* Properties                                                                *)

(* Nobody ever touches a node that was deleted, whether it reads its next,    *)
(* waits for its mutex, works on its element or unlinks it, and a mutex is    *)
(* not destroyed while it is locked (list_r.hpp:59-121). *)
NodesAreAlive ==
    \A t \in Threads :
        /\ pc[t] \in {"walk", "take", "pass", "unlink"} => cur[t] \in alive \cup {Head}
        /\ pc[t] \in {"push", "take", "pass", "visit", "unlink", "delete"} => nxt[t] \in alive
        /\ pc[t] = "delete" => lock[nxt[t]] = None

(* A walk that reaches the end has come to every element that was on the list *)
(* when it began and has not been removed since, however many others walk,    *)
(* add and remove meanwhile; and it comes to no element twice                 *)
(* (list_r.hpp:68-121). *)
WalkMissesNothing ==
    \A t \in Threads :
        /\ pc[t] = "walk" /\ next[cur[t]] = None => owed[t] = {}
        /\ pc[t] = "visit" => nxt[t] \notin seen[t]

(* Walks take effect in the order in which they begin, as if each were over    *)
(* at once: which elements a walk comes to, and what is in them, is settled   *)
(* when it takes the mutex of the head; whatever is added or removed later,   *)
(* it comes to these and to no other (list_r.hpp:68-121). *)
WalkIsSettled ==
    [][\A u \in Threads : Walking(u) /\ Walking(u)' =>
           /\ \/ Coming(u)' = Coming(u)
              \/ /\ pc[u] \in {"visit", "unlink"} /\ nxt[u] \in Coming(u)
                 /\ Coming(u)' = Coming(u) \ {nxt[u]}
           /\ \A n \in Coming(u) : data'[n] = data[n]]_vars

(* Threads never wait for each other in a circle: a walk waits for one that   *)
(* is in front of it, and who waits for the head holds nothing                *)
(* (list_r.hpp:59-121). *)
NobodyWaitsInACircle ==
    \A W \in SUBSET Threads : W # {} => \E t \in W : \A u \in W : ~WaitsFor(t, u)

(* Every call returns: threads never wait for each other in a circle, and     *)
(* nobody waits for the mutex of a node that nobody will unlock               *)
(* (list_r.hpp:59-121). *)
CallsReturn == \A t \in Threads : ~At(t, "idle") ~> At(t, "idle")

----------------------------------------------------------------------------
(* Inductive strengthenings.                                                 *)

Labels == {"idle", "push", "head", "walk", "take", "pass", "visit", "unlink", "unlock", "delete"}

(* Type invariant (list_r.hpp:10-45). *)
ListTypeOK ==
    /\ next \in [Cells -> Nodes \cup {None}] /\ lock \in [Cells -> Threads \cup {None}]
    /\ alive \subseteq Nodes
    /\ pc \in [Threads -> Labels] /\ op = [t \in Threads |-> op[t]]
    /\ cur \in [Threads -> Cells \cup {None}] /\ nxt \in [Threads -> Nodes \cup {None}]
    /\ owed \in [Threads -> SUBSET Nodes] /\ seen \in [Threads -> SUBSET Nodes]

\* The cells form one list without a cycle: in any set of nodes there is one
\* that is not next to another of the set.
LinkInv ==
    /\ \A c \in Cells : next[c] # None => next[c] \in alive /\ c \in alive \cup {Head}
    /\ \A c, d \in Cells : next[c] = next[d] /\ next[c] # None => c = d
    /\ \A n \in Linked : \E c \in Cells : next[c] = n
    /\ \A S \in SUBSET Nodes : S # {} => \E n \in S : \A m \in S : next[m] # n

\* What a thread has in its hands: a detached node is its own and nobody comes
\* to it any more; the cells it works on are locked.
HandAt(t) ==
    /\ HasDetached(t) =>
           nxt[t] \in alive /\ next[nxt[t]] = None /\ \A c \in Cells : next[c] # nxt[t]
    /\ pc[t] \in {"push", "delete"} => lock[nxt[t]] = None
    /\ pc[t] \in {"walk", "take", "pass", "unlink", "unlock", "delete"} =>
           cur[t] \in Cells /\ lock[cur[t]] = t
    /\ pc[t] \in {"pass", "visit", "unlink", "unlock"} => nxt[t] \in Nodes /\ lock[nxt[t]] = t
    /\ pc[t] \in {"take", "pass", "unlink"} => nxt[t] \in Nodes /\ next[cur[t]] = nxt[t]
    /\ pc[t] = "unlock" => cur[t] # nxt[t]

HandInv ==
    /\ \A c \in Cells : c \notin alive \cup {Head} => lock[c] = None
    /\ \A t, u \in Threads : HasDetached(t) /\ HasDetached(u) /\ nxt[t] = nxt[u] => t = u
    /\ \A t \in Threads : HandAt(t)

\* What a walk owes is what comes after its place on the list.
WalkAt(t) ==
    Walking(t) =>
        /\ Place(t) \notin Ahead(t)
        /\ seen[t] \cap owed[t] = {}
        /\ pc[t] = "visit" => nxt[t] \in owed[t]
        /\ \A n \in Ahead(t) : \E p \in Ahead(t) \cup {Place(t)} : next[p] = n
        /\ \A p \in Ahead(t) \cup {Place(t)} : next[p] # None => next[p] \in Ahead(t)

WalkInv == \A t \in Threads : WalkAt(t)

\* A mutex is held by a walk, for the cell it works on or has come to.
LockInv ==
    \A c \in Cells : lock[c] # None =>
        LET t == lock[c]
        IN  \/ c = cur[t] /\ Walking(t) /\ pc[t] # "visit"
            \/ c = nxt[t] /\ pc[t] \in {"pass", "visit", "unlink", "unlock"}

\* Of two walks one is in front of the other.
OrderInv ==
    \A t, u \in Threads : Walking(t) /\ Walking(u) /\ t # u => InFront(t, u) \/ InFront(u, t)

\* remove_if() keeps the elements that do not match and unlinks those that do.
ChoiceInv ==
    \A t \in Threads :
        /\ pc[t] \in {"pass", "visit"} /\ op[t].name = "remove_if" => ~Matches(t, nxt[t])
        /\ pc[t] = "unlink" => op[t].name = "remove_if" /\ Matches(t, nxt[t])

=============================================================================
