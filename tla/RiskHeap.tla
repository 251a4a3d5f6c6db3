----------------------------- MODULE RiskHeap -----------------------------
(***************************************************************************)
(* The array behind the priority map: models/risk.go, the package          *)
(* container/heap that drives it, and updateHeap of risk_engine.go.        *)
(*                                                                         *)
(* Every operation runs under the write lock of the store.  It is taken    *)
(* apart into the swaps of the library's loops, one step each, for the     *)
(* Index fields have to be right at every swap; op is the operation that   *)
(* holds the lock.  Positions of the array start at 0, as in Go.           *)
(***************************************************************************)
EXTENDS Integers

CONSTANTS
    Users,      \* addresses
    NoUser,     \* no operation in progress
    Safe,       \* HFSafetyThreshold; factors are compared, so small naturals do
    MaxHF       \* bound of the factors

ASSUME FactorAssumption ==
    /\ NoUser \notin Users
    /\ Safe \in Nat \ {0}
    /\ MaxHF \in Nat
    /\ Safe <= MaxHF

NoHF == -1      \* a nil factor; the factor of an item that is gone
Gone == -1      \* Index of a popped item

VARIABLES
    size,       \* len(RiskHeap)
    heap,       \* RiskHeap: position -> user of the item there
    index,      \* UserRiskItem.Index
    hf,         \* UserRiskItem.HealthFactor
    lookup,     \* the keys of heapLookup
    op          \* the call of container/heap in progress

vars == <<size, heap, index, hf, lookup, op>>

Kinds == {"idle", "fix", "push", "remove"}
Idle == [kind |-> "idle", user |-> NoUser, from |-> 0, at |-> 0, dir |-> "done"]

Unlocked == op.kind = "idle"

\* RiskHeap.Less.
Less(i, j) == hf[heap[i]] < hf[heap[j]]

\* A slip: the second item keeps its old Index.
MutSwap(i, j) ==
    /\ heap' = [heap EXCEPT ![i] = heap[j], ![j] = heap[i]]
    /\ index' = [index EXCEPT ![heap[j]] = i]

\* RiskHeap.Swap.
Swap(i, j) ==
    /\ heap' = [heap EXCEPT ![i] = heap[j], ![j] = heap[i]]
    /\ index' = [index EXCEPT ![heap[j]] = i, ![heap[i]] = j]

Parent(i) == (i - 1) \div 2
Left(i) == 2 * i + 1

\* Remove sifts in front of the item it has moved to the end.
Limit == IF op.kind = "remove" THEN size - 1 ELSE size

\* The smaller child of i, when it has one.
Child(i) == IF Left(i) + 1 < Limit /\ Less(Left(i) + 1, Left(i)) THEN Left(i) + 1 ELSE Left(i)

Sinks(i) == Left(i) < Limit /\ Less(Child(i), i)
Rises(i) == i > 0 /\ Less(i, Parent(i))

Call(kind, u, i, dir) == [kind |-> kind, user |-> u, from |-> i, at |-> i, dir |-> dir]
-----------------------------------------------------------------------------
Init ==
    /\ size = 0
    /\ heap = [i \in 0 .. -1 |-> NoUser]
    /\ index = [u \in Users |-> Gone]
    /\ hf = [u \in Users |-> NoHF]
    /\ lookup = {}
    /\ op = Idle

\* updateHeap with a nil or a safe factor, of a user with an item: heap.Remove swaps
\* the item with the last one, unless it is the last one.
Remove(u, h) ==
    /\ Unlocked
    /\ h = NoHF \/ h >= Safe
    /\ u \in lookup
    /\ IF index[u] = size - 1
       THEN /\ op' = Call("remove", u, index[u], "done")
            /\ UNCHANGED <<heap, index>>
       ELSE /\ op' = Call("remove", u, index[u], "down")
            /\ Swap(index[u], size - 1)
    /\ UNCHANGED <<size, hf, lookup>>

\* updateHeap with a low factor, of a user with an item: heap.Fix.
Fix(u, h) ==
    /\ Unlocked
    /\ h \in 0 .. (Safe - 1)
    /\ u \in lookup
    /\ hf' = [hf EXCEPT ![u] = h]
    /\ op' = Call("fix", u, index[u], "down")
    /\ UNCHANGED <<size, heap, index, lookup>>

\* updateHeap with a low factor, of a user without an item: heap.Push appends it.
Push(u, h) ==
    /\ Unlocked
    /\ h \in 0 .. (Safe - 1)
    /\ u \notin lookup
    /\ size' = size + 1
    /\ heap' = [i \in 0 .. size |-> IF i = size THEN u ELSE heap[i]]
    /\ index' = [index EXCEPT ![u] = size]
    /\ hf' = [hf EXCEPT ![u] = h]
    /\ op' = Call("push", u, size, "up")
    /\ UNCHANGED lookup

\* One round of the loop of down().
SiftDown ==
    /\ op.dir = "down"
    /\ Sinks(op.at)
    /\ Swap(op.at, Child(op.at))
    /\ op' = [op EXCEPT !.at = Child(op.at)]
    /\ UNCHANGED <<size, hf, lookup>>

\* A slip: an item put in the place of another one is never too small for it.
MutEndDown ==
    /\ op.dir = "down"
    /\ ~Sinks(op.at)
    /\ op' = [op EXCEPT !.dir = IF op.kind = "fix" /\ op.at = op.from THEN "up" ELSE "done"]
    /\ UNCHANGED <<size, heap, index, hf, lookup>>

\* down() returns; if nothing moved, Fix and Remove call up().
EndDown ==
    /\ op.dir = "down"
    /\ ~Sinks(op.at)
    /\ op' = [op EXCEPT !.dir = IF op.at = op.from THEN "up" ELSE "done"]
    /\ UNCHANGED <<size, heap, index, hf, lookup>>

\* One round of the loop of up().
SiftUp ==
    /\ op.dir = "up"
    /\ Rises(op.at)
    /\ Swap(op.at, Parent(op.at))
    /\ op' = [op EXCEPT !.at = Parent(op.at)]
    /\ UNCHANGED <<size, hf, lookup>>

EndUp ==
    /\ op.dir = "up"
    /\ ~Rises(op.at)
    /\ op' = [op EXCEPT !.dir = "done"]
    /\ UNCHANGED <<size, heap, index, hf, lookup>>

\* A slip: the item removed from the array stays in heapLookup.
MutFinish ==
    /\ ~Unlocked
    /\ op.dir = "done"
    /\ op' = Idle
    /\ \/ /\ op.kind = "push"
          /\ lookup' = lookup \cup {op.user}
          /\ UNCHANGED <<size, heap, index, hf>>
       \/ /\ op.kind = "remove"
          /\ size' = size - 1
          /\ heap' = [i \in 0 .. (size - 2) |-> heap[i]]
          /\ index' = [index EXCEPT ![heap[size - 1]] = Gone]
          /\ UNCHANGED <<hf, lookup>>
       \/ /\ op.kind = "fix"
          /\ UNCHANGED <<size, heap, index, hf, lookup>>

\* The rest of updateHeap, and the unlock: a new item enters the lookup, a removed one is
\* popped from the end of the array and leaves the lookup.
Finish ==
    /\ ~Unlocked
    /\ op.dir = "done"
    /\ op' = Idle
    /\ \/ /\ op.kind = "push"
          /\ lookup' = lookup \cup {op.user}
          /\ UNCHANGED <<size, heap, index, hf>>
       \/ /\ op.kind = "remove"
          /\ size' = size - 1
          /\ heap' = [i \in 0 .. (size - 2) |-> heap[i]]
          /\ index' = [index EXCEPT ![heap[size - 1]] = Gone]
          /\ hf' = [hf EXCEPT ![op.user] = NoHF]
          /\ lookup' = lookup \ {op.user}
       \/ /\ op.kind = "fix"
          /\ UNCHANGED <<size, heap, index, hf, lookup>>

Loop == SiftDown \/ EndDown \/ SiftUp \/ EndUp \/ Finish

Next ==
    \/ \E u \in Users, h \in NoHF .. MaxHF : Remove(u, h) \/ Fix(u, h) \/ Push(u, h)
    \/ Loop

Spec == Init /\ [][Next]_vars
-----------------------------------------------------------------------------
\* Types: the array holds users at the positions below its length.
TypeOK ==
    /\ size \in Nat
    /\ heap \in [0 .. (size - 1) -> Users]
    /\ index \in [Users -> Int]
    /\ hf \in [Users -> NoHF .. (Safe - 1)]
    /\ lookup \subseteq Users
    /\ op \in [kind : Kinds, user : Users \cup {NoUser}, from : Nat, at : Nat,
               dir : {"down", "up", "done"}]

\* Whenever the lock is free, heapLookup and the array hold the same users, each once, and
\* Index is where the item is: the next Fix or Remove, which trust Index, hit the
\* item of the user they were called for.
LookupAgrees ==
    Unlocked =>
        /\ \A u \in lookup : index[u] \in 0 .. (size - 1) /\ heap[index[u]] = u
        /\ \A i \in 0 .. (size - 1) : heap[i] \in lookup /\ index[heap[i]] = i

\* Whenever the lock is free, no item has a lower factor than its parent: the first
\* item is the user closest to liquidation.
HeapOrdered == Unlocked => \A i \in 1 .. (size - 1) : ~Less(i, Parent(i))

\* The array implements the map: who is in it, with which factor, changes only for the
\* user of the call that holds the lock, and as the call asked when the lock is released.
\* The pop of a removed item takes whatever is last in the array, which must be the
\* item of that user; a sift may reorder the items and lose or double none.
InArray(u) == \E i \in 0 .. (size - 1) : heap[i] = u
Watched == INSTANCE PriorityMap WITH
               map  <- [u \in Users |-> IF InArray(u) THEN hf[u] ELSE NoHF],
               call <- [user |-> op.user,
                        hf |-> IF op.kind \in {"fix", "push"} THEN hf[op.user] ELSE NoHF]
ImplementsMap == Watched!Spec

=============================================================================
