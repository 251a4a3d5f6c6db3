-------------------------- MODULE RiskHeap_proofs --------------------------
(***************************************************************************)
(* The heap's invariants, for every number of users and of factors: the    *)
(* lookup agrees with the array, the array is ordered, and both implement  *)
(* the map of PriorityMap.                                                 *)
(***************************************************************************)
EXTENDS RiskHeap, TLAPS

\* The users whose item is in the array: a new one enters the lookup last.
Held == IF op.kind = "push" THEN lookup \cup {op.user} ELSE lookup

\* The array and the Index fields are inverse to each other, swap by swap.
Inverse ==
    /\ \A i \in 0 .. (size - 1) : heap[i] \in Held /\ index[heap[i]] = i
    /\ \A u \in Held : index[u] \in 0 .. (size - 1) /\ heap[index[u]] = u
    /\ \A u \in Held : hf[u] \in 0 .. (Safe - 1)

\* What the call in progress knows of its user and of its place in the array.
CallInv ==
    /\ op.kind = "idle" => op.dir = "done" /\ op = Idle
    /\ op.kind # "idle" => op.user \in Users
    /\ op.kind = "fix" => op.user \in lookup
    /\ op.dir = "down" => op.from <= op.at
    /\ op.dir # "done" => op.at < Limit
    /\ op.kind = "push" => op.user \notin lookup /\ op.dir # "down"
    /\ op.kind = "remove" => op.user \in lookup /\ size > 0 /\ heap[size - 1] = op.user

Key(i) == hf[heap[i]]

\* The order of the part of the array the library looks at.  An item on its way down or
\* up may be out of order; its children are in order with its parent.
OrderInv ==
    \A i \in 1 .. (Limit - 1) :
        /\ \/ Key(Parent(i)) <= Key(i)
           \/ op.dir = "up" /\ i = op.at
           \/ op.dir = "down" /\ Parent(i) = op.at
           \/ op.dir = "down" /\ i = op.at /\ op.at = op.from
        /\ op.dir # "done" /\ Parent(i) = op.at /\ op.at > 0 => Key(Parent(op.at)) <= Key(i)

Inv == TypeOK /\ Inverse /\ CallInv /\ OrderInv
-----------------------------------------------------------------------------
\* Positions of a binary tree laid out in an array.
LEMMA Tree ==
    ASSUME NEW i \in Nat
    PROVE  /\ i > 0 => Parent(i) \in Nat /\ Parent(i) < i
           /\ i > 0 => \A p \in Nat : Parent(i) = p <=> i = Left(p) \/ i = Left(p) + 1
BY SMT DEF Parent, Left

\* What the child that down() compares with is.
LEMMA ChildFact ==
    ASSUME NEW i \in Nat, Limit \in Nat, Left(i) < Limit,
           \A k \in 0 .. (Limit - 1) : Key(k) \in Int
    PROVE  /\ Child(i) \in 1 .. (Limit - 1)
           /\ Parent(Child(i)) = i
           /\ Child(i) > i
           /\ \A k \in 1 .. (Limit - 1) : Parent(k) = i => Key(Child(i)) <= Key(k)
<1> DEFINE L == Limit
<1>1. Child(i) \in {Left(i), Left(i) + 1} /\ Child(i) < L /\ Left(i) \in Nat
  BY SMT DEF Child, Left
<1>2. Child(i) \in 1 .. (Limit - 1) /\ Parent(Child(i)) = i /\ Child(i) > i
  BY <1>1, SMT DEF Parent, Left
<1>3. ASSUME NEW k \in 1 .. (Limit - 1), Parent(k) = i PROVE Key(Child(i)) <= Key(k)
  <2>1. k = Left(i) \/ k = Left(i) + 1
    BY <1>3, Tree, SMT
  <2>2. Key(Left(i)) \in Int /\ (Left(i) + 1 < Limit => Key(Left(i) + 1) \in Int)
    BY <1>1, SMT DEF Left
  <2> QED
    BY <2>1, <2>2, <1>1, SMT DEF Child, Less, Key
<1> QED
  BY <1>2, <1>3

\* A swap keeps array and Index fields inverse, and moves two keys.
LEMMA SwapKeeps ==
    ASSUME TypeOK, Inverse, NEW i \in 0 .. (size - 1), NEW j \in 0 .. (size - 1),
           Swap(i, j), UNCHANGED <<size, hf, lookup>>, Held' = Held
    PROVE  /\ heap' \in [0 .. (size - 1) -> Users]
           /\ index' \in [Users -> Int]
           /\ Inverse'
           /\ \A k \in 0 .. (size - 1) :
                 Key(k)' = IF k = i THEN Key(j) ELSE IF k = j THEN Key(i) ELSE Key(k)
<1>1. heap' \in [0 .. (size - 1) -> Users] /\ index' \in [Users -> Int]
  <2>1. heap[i] \in Users /\ heap[j] \in Users /\ i \in Int /\ j \in Int
    BY DEF TypeOK
  <2>2. heap' \in [0 .. (size - 1) -> Users]
    BY <2>1 DEF Swap, TypeOK
  <2>3. index' \in [Users -> Int]
    BY <2>1 DEF Swap, TypeOK
  <2> QED
    BY <2>2, <2>3
<1>2. \A k \in 0 .. (size - 1) :
          heap'[k] = IF k = i THEN heap[j] ELSE IF k = j THEN heap[i] ELSE heap[k]
  BY DEF Swap, TypeOK
<1>3. \A u \in Users :
          index'[u] = IF u = heap[i] THEN j ELSE IF u = heap[j] THEN i ELSE index[u]
  BY DEF Swap, TypeOK
<1>4. Held \subseteq Users
  BY DEF Inverse, Held, TypeOK
<1>5. ASSUME NEW k \in 0 .. (size - 1)
      PROVE  heap'[k] \in Held /\ index'[heap'[k]] = k
  <2>1. \A m \in 0 .. (size - 1) : heap[m] \in Held /\ heap[m] \in Users /\ index[heap[m]] = m
    BY DEF Inverse, TypeOK
  <2>2. CASE k = i
    BY <2>1, <2>2, <1>2, <1>3
  <2>3. CASE k = j /\ k # i
    BY <2>1, <2>3, <1>2, <1>3
  <2>4. CASE k # i /\ k # j
    <3>1. heap'[k] = heap[k] /\ heap[k] # heap[i] /\ heap[k] # heap[j]
      BY <2>1, <2>4, <1>2
    <3> QED
      BY <2>1, <3>1, <1>3
  <2> QED
    BY <2>2, <2>3, <2>4
<1>6. ASSUME NEW u \in Held
      PROVE  index'[u] \in 0 .. (size - 1) /\ heap'[index'[u]] = u
  <2>1. u \in Users /\ index[u] \in 0 .. (size - 1) /\ heap[index[u]] = u
    BY <1>4, <1>6 DEF Inverse
  <2>2. index[heap[i]] = i /\ index[heap[j]] = j
    BY DEF Inverse
  <2>3. CASE u = heap[i]
    BY <2>2, <2>3, <1>2, <1>3, <2>1
  <2>4. CASE u = heap[j] /\ u # heap[i]
    BY <2>2, <2>4, <1>2, <1>3, <2>1
  <2>5. CASE u # heap[i] /\ u # heap[j]
    BY <2>5, <1>2, <1>3, <2>1
  <2> QED
    BY <2>3, <2>4, <2>5
<1>7. Inverse'
  BY <1>5, <1>6 DEF Inverse
<1>8. \A k \in 0 .. (size - 1) :
          Key(k)' = IF k = i THEN Key(j) ELSE IF k = j THEN Key(i) ELSE Key(k)
  BY <1>2 DEF Key
<1> QED
  BY <1>1, <1>7, <1>8
-----------------------------------------------------------------------------
LEMMA InitInv == Init => Inv
<1> SUFFICES ASSUME Init PROVE Inv
  OBVIOUS
<1> USE FactorAssumption
<1>1. TypeOK
  BY DEF Init, TypeOK, Idle, Kinds, NoHF, Gone
<1>2. Inverse
  BY DEF Init, Inverse, Held, Idle
<1>3. CallInv
  BY DEF Init, CallInv, Idle
<1>4. OrderInv
  BY DEF Init, OrderInv, Limit, Idle
<1> QED
  BY <1>1, <1>2, <1>3, <1>4 DEF Inv

\* Remove: the last item takes the place of the removed one, under the same parent and
\* above the same children.
LEMMA RemoveStep ==
    ASSUME Inv, NEW u \in Users, NEW h \in NoHF .. MaxHF, Remove(u, h)
    PROVE  Inv'
<1> USE FactorAssumption
<1>0. TypeOK /\ Inverse /\ CallInv /\ OrderInv
  BY DEF Inv
<1>1. /\ op.kind = "idle" /\ op.dir = "done" /\ u \in lookup /\ Held = lookup /\ Limit = size
      /\ size' = size /\ hf' = hf /\ lookup' = lookup
  BY <1>0 DEF Remove, Unlocked, CallInv, Held, Limit
<1>n. PICK n \in Int : n = size - 1
  BY <1>0 DEF TypeOK
<1>i. PICK i \in 0 .. n : i = index[u]
  BY <1>0, <1>1, <1>n DEF Inverse
<1>2. i \in 0 .. n /\ heap[i] = u /\ n \in Nat /\ size \in Nat /\ size = n + 1
  BY <1>0, <1>1, <1>n, <1>i DEF Inverse, TypeOK
<1>3. \A k \in 0 .. n : Key(k) \in Int
  BY <1>0, <1>1, <1>2 DEF Key, Inverse
<1>4. CASE i = n
  <2>1. op' = Call("remove", u, i, "done") /\ heap' = heap /\ index' = index
    BY <1>4, <1>i, <1>n DEF Remove
  <2>2. op'.kind = "remove" /\ op'.user = u /\ op'.from = i /\ op'.at = i /\ op'.dir = "done"
    BY <2>1 DEF Call
  <2>3. TypeOK'
    BY <1>0, <1>1, <1>2, <2>1 DEF TypeOK, Call, Kinds
  <2>4. Inverse'
    BY <1>0, <1>1, <2>1, <2>2 DEF Inverse, Held
  <2>5. CallInv'
    BY <1>1, <1>2, <1>4, <2>1, <2>2 DEF CallInv
  <2>6. OrderInv'
    BY <1>0, <1>1, <2>1, <2>2, <1>2 DEF OrderInv, Limit, Key
  <2> QED
    BY <2>3, <2>4, <2>5, <2>6 DEF Inv
<1>5. CASE i # n
  <2>1. op' = Call("remove", u, i, "down") /\ Swap(i, n)
    BY <1>5, <1>i, <1>n DEF Remove
  <2>2. op'.kind = "remove" /\ op'.user = u /\ op'.from = i /\ op'.at = i /\ op'.dir = "down"
    BY <2>1 DEF Call
  <2>3. Held' = Held /\ Limit' = n
    BY <1>1, <1>2, <2>2 DEF Held, Limit
  <2>4. /\ heap' \in [0 .. (size - 1) -> Users]
        /\ index' \in [Users -> Int]
        /\ Inverse'
        /\ \A k \in 0 .. n :
              Key(k)' = IF k = i THEN Key(n) ELSE IF k = n THEN Key(i) ELSE Key(k)
    BY <1>0, <1>1, <1>2, <2>1, <2>3, SwapKeeps
  <2>5. TypeOK'
    <3>1. op' \in [kind : Kinds, user : Users \cup {NoUser}, from : Nat, at : Nat,
                   dir : {"down", "up", "done"}]
      BY <1>2, <2>1 DEF Call, Kinds
    <3> QED
      BY <1>0, <1>1, <2>4, <3>1 DEF TypeOK
  <2>6. heap'[n] = u
    BY <1>0, <1>2, <2>1 DEF Swap, TypeOK
  <2>7. CallInv'
    BY <1>1, <1>2, <1>5, <2>2, <2>3, <2>6 DEF CallInv
  <2>8. ASSUME NEW k \in 1 .. (n - 1)
        PROVE  /\ Key(Parent(k))' <= Key(k)' \/ Parent(k) = i \/ k = i
               /\ Parent(k) = i /\ i > 0 => Key(Parent(i))' <= Key(k)'
    <3>1. /\ k \in 1 .. (Limit - 1) /\ k # n
          /\ Parent(k) \in 0 .. (n - 1) /\ Parent(k) < k
      BY <1>1, <1>2, Tree
    <3>2. Key(Parent(k)) <= Key(k)
      BY <1>0, <1>1, <3>1 DEF OrderInv
    <3>3. i > 0 => /\ Parent(i) \in 0 .. (n - 1) /\ Parent(i) # i
                   /\ Key(Parent(i)) <= Key(i)
      BY <1>0, <1>1, <1>2, <1>5, Tree DEF OrderInv
    <3>4. Parent(k) # i /\ k # i => Key(Parent(k))' <= Key(k)'
      BY <2>4, <3>1, <3>2
    <3>5. ASSUME Parent(k) = i, i > 0 PROVE Key(Parent(i))' <= Key(k)'
      <4>1. Key(Parent(i))' = Key(Parent(i)) /\ Key(k)' = Key(k)
        BY <2>4, <3>1, <3>3, <3>5
      <4> QED
        BY <4>1, <3>1, <3>2, <3>3, <3>5, <1>2, <1>3, SMT
    <3> QED
      BY <3>4, <3>5
  <2>9. OrderInv'
    BY <2>2, <2>3, <2>8 DEF OrderInv
  <2> QED
    BY <2>4, <2>5, <2>7, <2>9 DEF Inv
<1> QED
  BY <1>4, <1>5

\* Fix: the item is where it was, with another factor.
LEMMA FixStep ==
    ASSUME Inv, NEW u \in Users, NEW h \in NoHF .. MaxHF, Fix(u, h)
    PROVE  Inv'
<1> USE FactorAssumption
<1>0. TypeOK /\ Inverse /\ CallInv /\ OrderInv
  BY DEF Inv
<1>1. /\ op.kind = "idle" /\ op.dir = "done" /\ u \in lookup /\ Held = lookup /\ Limit = size
      /\ size' = size /\ heap' = heap /\ index' = index /\ lookup' = lookup
      /\ h \in 0 .. (Safe - 1) /\ hf' = [hf EXCEPT ![u] = h]
  BY <1>0 DEF Fix, Unlocked, CallInv, Held, Limit
<1>2. PICK i \in 0 .. (size - 1) : i = index[u]
  BY <1>0, <1>1 DEF Inverse
<1>3. /\ op' = Call("fix", u, i, "down")
      /\ op'.kind = "fix" /\ op'.user = u /\ op'.from = i /\ op'.at = i /\ op'.dir = "down"
  BY <1>2 DEF Fix, Call
<1>4. size \in Nat /\ Held' = lookup /\ Limit' = size
  BY <1>0, <1>1, <1>3 DEF TypeOK, Held, Limit
<1>5. TypeOK'
  <2>1. op' \in [kind : Kinds, user : Users \cup {NoUser}, from : Nat, at : Nat,
                 dir : {"down", "up", "done"}]
    BY <1>2, <1>3 DEF Call, Kinds
  <2> QED
    BY <1>0, <1>1, <2>1 DEF TypeOK, NoHF
<1>6. Inverse'
  <2>1. \A v \in Held : hf'[v] \in 0 .. (Safe - 1)
    BY <1>0, <1>1 DEF Inverse, TypeOK
  <2> QED
    BY <1>0, <1>1, <1>4, <2>1 DEF Inverse
<1>7. CallInv'
  BY <1>1, <1>2, <1>3, <1>4 DEF CallInv
<1>8. \A k \in 0 .. (size - 1) : k # i => Key(k)' = Key(k)
  <2>1. \A k \in 0 .. (size - 1) : k # i => heap[k] # u /\ heap[k] \in Users
    BY <1>0, <1>2 DEF Inverse, TypeOK
  <2> QED
    BY <1>0, <1>1, <2>1 DEF Key, TypeOK
<1>9. ASSUME NEW k \in 1 .. (size - 1)
      PROVE  /\ Key(Parent(k))' <= Key(k)' \/ Parent(k) = i \/ k = i
             /\ Parent(k) = i /\ i > 0 => Key(Parent(i))' <= Key(k)'
  <2>1. Parent(k) \in 0 .. (size - 1) /\ Parent(k) < k /\ k \in 0 .. (size - 1)
    BY <1>4, Tree
  <2>2. Key(Parent(k)) <= Key(k)
    BY <1>0, <1>1 DEF OrderInv
  <2>3. i > 0 => /\ Parent(i) \in 0 .. (size - 1) /\ Parent(i) # i
                 /\ Key(Parent(i)) <= Key(i)
    BY <1>0, <1>1, <1>2, <1>4, Tree DEF OrderInv
  <2>4. \A m \in 0 .. (size - 1) : Key(m) \in Int
    BY <1>0, <1>1 DEF Key, Inverse
  <2>5. Parent(k) # i /\ k # i => Key(Parent(k))' <= Key(k)'
    BY <1>8, <2>1, <2>2
  <2>6. ASSUME Parent(k) = i, i > 0 PROVE Key(Parent(i))' <= Key(k)'
    <3>1. Key(Parent(i))' = Key(Parent(i)) /\ Key(k)' = Key(k)
      BY <1>8, <2>1, <2>3, <2>6
    <3> QED
      BY <3>1, <2>1, <2>2, <2>3, <2>4, <2>6, SMT
  <2> QED
    BY <2>5, <2>6
<1>10. OrderInv'
  BY <1>3, <1>4, <1>9 DEF OrderInv
<1> QED
  BY <1>5, <1>6, <1>7, <1>10 DEF Inv

\* Push: the new item has no children.
LEMMA PushStep ==
    ASSUME Inv, NEW u \in Users, NEW h \in NoHF .. MaxHF, Push(u, h)
    PROVE  Inv'
<1> USE FactorAssumption
<1>0. TypeOK /\ Inverse /\ CallInv /\ OrderInv
  BY DEF Inv
<1>n. PICK n \in Nat : n = size
  BY <1>0 DEF TypeOK
<1>1. /\ op.kind = "idle" /\ op.dir = "done" /\ u \notin lookup /\ Held = lookup /\ Limit = n
      /\ size' = n + 1 /\ lookup' = lookup
      /\ heap' = [i \in 0 .. n |-> IF i = n THEN u ELSE heap[i]]
      /\ index' = [index EXCEPT ![u] = n]
      /\ h \in 0 .. (Safe - 1) /\ hf' = [hf EXCEPT ![u] = h]
  BY <1>0, <1>n DEF Push, Unlocked, CallInv, Held, Limit
<1>2. /\ op' = Call("push", u, n, "up")
      /\ op'.kind = "push" /\ op'.user = u /\ op'.from = n /\ op'.at = n /\ op'.dir = "up"
  BY <1>n DEF Push, Call
<1>3. Held' = lookup \cup {u} /\ Limit' = n + 1
  BY <1>1, <1>2 DEF Held, Limit
<1>4. \A k \in 0 .. (n - 1) : heap[k] \in lookup /\ heap[k] # u /\ heap[k] \in Users
  BY <1>0, <1>1, <1>n DEF Inverse, TypeOK
<1>5. TypeOK'
  <2>1. op' \in [kind : Kinds, user : Users \cup {NoUser}, from : Nat, at : Nat,
                 dir : {"down", "up", "done"}]
    BY <1>2 DEF Call, Kinds
  <2>2. heap' \in [0 .. (size' - 1) -> Users]
    BY <1>1, <1>4
  <2> QED
    <3>1. index' \in [Users -> Int] /\ size' \in Nat /\ lookup' \subseteq Users
      BY <1>0, <1>1 DEF TypeOK
    <3>2. hf' \in [Users -> NoHF .. (Safe - 1)]
      BY <1>0, <1>1 DEF TypeOK, NoHF
    <3> QED
      BY <2>1, <2>2, <3>1, <3>2 DEF TypeOK
<1>6. Inverse'
  <2>1. ASSUME NEW k \in 0 .. n PROVE heap'[k] \in lookup \cup {u} /\ index'[heap'[k]] = k
    BY <1>0, <1>1, <1>4, <1>n DEF Inverse, TypeOK
  <2>2. ASSUME NEW v \in lookup \cup {u}
        PROVE  index'[v] \in 0 .. n /\ heap'[index'[v]] = v /\ hf'[v] \in 0 .. (Safe - 1)
    <3>1. CASE v = u
      <4>1. index'[u] = n /\ hf'[u] = h /\ heap'[n] = u
        BY <1>0, <1>1 DEF TypeOK
      <4> QED
        BY <4>1, <1>1, <3>1
    <3>2. CASE v # u
      <4>1. v \in lookup /\ v \in Users /\ index[v] \in 0 .. (n - 1) /\ heap[index[v]] = v
        BY <1>0, <1>1, <1>n, <3>2 DEF Inverse, TypeOK
      <4> QED
        BY <1>0, <1>1, <3>2, <4>1 DEF Inverse, TypeOK
    <3> QED
      BY <3>1, <3>2
  <2> QED
    <3>1. 0 .. (size' - 1) = 0 .. n
      BY <1>1
    <3> QED
      BY <1>3, <2>1, <2>2, <3>1 DEF Inverse
<1>7. CallInv'
  BY <1>1, <1>2, <1>3 DEF CallInv
<1>8. \A k \in 0 .. (n - 1) : Key(k)' = Key(k)
  BY <1>0, <1>1, <1>4 DEF Key, TypeOK
<1>9. ASSUME NEW k \in 1 .. n
      PROVE  /\ Key(Parent(k))' <= Key(k)' \/ k = n
             /\ Parent(k) # n
  <2>1. Parent(k) \in 0 .. (n - 1) /\ Parent(k) < k
    BY Tree
  <2>2. k # n => Key(Parent(k)) <= Key(k)
    BY <1>0, <1>1 DEF OrderInv
  <2> QED
    BY <1>8, <2>1, <2>2
<1>10. OrderInv'
  BY <1>2, <1>3, <1>9 DEF OrderInv
<1> QED
  BY <1>5, <1>6, <1>7, <1>10 DEF Inv

\* One round of down(): the smaller child moves up, in order with both its new
\* neighbours; the item moves down, in order with its new parent.
LEMMA SiftDownStep ==
    ASSUME Inv, SiftDown
    PROVE  Inv'
<1> USE FactorAssumption
<1>0. TypeOK /\ Inverse /\ CallInv /\ OrderInv
  BY DEF Inv
<1>1. PICK a \in Nat : a = op.at
  BY <1>0 DEF TypeOK
<1>2. /\ op.dir = "down" /\ op.kind \in Kinds /\ op.kind # "idle" /\ op.kind # "push"
      /\ Limit \in Nat /\ Limit <= size /\ size \in Nat /\ a < Limit
      /\ Left(a) < Limit /\ Less(Child(a), a)
      /\ size' = size /\ hf' = hf /\ lookup' = lookup
  BY <1>0, <1>1 DEF SiftDown, Sinks, CallInv, TypeOK, Limit
<1>3. \A k \in 0 .. (size - 1) : Key(k) \in Int
  BY <1>0 DEF Key, Inverse
<1>4. PICK c \in 1 .. (Limit - 1) :
        /\ c = Child(a) /\ Parent(c) = a /\ c > a
        /\ \A k \in 1 .. (Limit - 1) : Parent(k) = a => Key(c) <= Key(k)
  <2>1. \A k \in 0 .. (Limit - 1) : Key(k) \in Int
    BY <1>2, <1>3
  <2> QED
    BY <1>2, <2>1, ChildFact
<1>5. Swap(a, c) /\ op' = [op EXCEPT !.at = c]
  BY <1>1, <1>4 DEF SiftDown
<1>6. /\ op'.kind = op.kind /\ op'.user = op.user /\ op'.from = op.from
      /\ op'.at = c /\ op'.dir = "down"
  BY <1>0, <1>2, <1>5 DEF TypeOK
<1>7. Held' = Held /\ Limit' = Limit
  BY <1>2, <1>6 DEF Held, Limit
<1>8. /\ heap' \in [0 .. (size - 1) -> Users]
      /\ index' \in [Users -> Int]
      /\ Inverse'
      /\ \A k \in 0 .. (size - 1) :
            Key(k)' = IF k = a THEN Key(c) ELSE IF k = c THEN Key(a) ELSE Key(k)
  BY <1>0, <1>2, <1>4, <1>5, <1>7, SwapKeeps
<1>9. TypeOK'
  <2>1. op' \in [kind : Kinds, user : Users \cup {NoUser}, from : Nat, at : Nat,
                 dir : {"down", "up", "done"}]
    <3>1. c \in Nat
      BY <1>4
    <3> QED
      BY <1>0, <1>5, <3>1 DEF TypeOK
  <2> QED
    BY <1>0, <1>2, <1>8, <2>1 DEF TypeOK
<1>10. CallInv'
  <2>1. op.kind = "remove" => heap'[size - 1] = heap[size - 1]
    <3>1. ASSUME op.kind = "remove"
          PROVE  c # size - 1 /\ a # size - 1 /\ size - 1 \in 0 .. (size - 1)
      BY <1>2, <1>4, <3>1 DEF Limit
    <3> QED
      BY <1>0, <1>5, <3>1 DEF Swap, TypeOK
  <2>2. op'.from <= op'.at /\ op'.at < Limit'
    <3>1. op.from \in Nat /\ op.from <= a /\ a < c /\ c < Limit /\ c \in Nat
      <4>1. op.from \in Nat /\ op.from <= a
        BY <1>0, <1>1, <1>2 DEF CallInv, TypeOK
      <4> QED
        BY <1>2, <1>4, <4>1
    <3> QED
      BY <1>6, <1>7, <3>1
  <2> QED
    BY <1>0, <1>2, <1>6, <2>1, <2>2 DEF CallInv
<1>11. Key(c) < Key(a)
  BY <1>2, <1>4 DEF Less, Key
<1>12. ASSUME NEW k \in 1 .. (Limit - 1)
       PROVE  /\ Key(Parent(k))' <= Key(k)' \/ Parent(k) = c
              /\ Parent(k) = c => Key(Parent(c))' <= Key(k)'
  <2>1. /\ k \in 0 .. (size - 1) /\ Parent(k) \in 0 .. (size - 1) /\ Parent(k) < k
        /\ a \in 0 .. (size - 1) /\ c \in 0 .. (size - 1) /\ a # c
    BY <1>2, <1>4, Tree
  <2>2. Key(a)' = Key(c) /\ Key(c)' = Key(a)
    BY <1>8, <2>1
  <2>3. CASE k = a
    <3>1. Parent(k) # a /\ Parent(k) # c
      BY <2>1, <2>3, <1>4
    <3>2. Key(Parent(k))' = Key(Parent(k))
      BY <1>8, <2>1, <3>1
    <3>3. Key(Parent(a)) <= Key(c)
      BY <1>0, <1>1, <1>2, <1>4, <2>3 DEF OrderInv
    <3> QED
      BY <2>2, <2>3, <3>1, <3>2, <3>3
  <2>4. CASE k = c
    BY <2>2, <2>4, <1>4, <1>11, <1>3, <2>1, SMT
  <2>5. CASE k # a /\ k # c /\ Parent(k) = a
    <3>1. Key(k)' = Key(k)
      BY <1>8, <2>1, <2>5
    <3> QED
      BY <2>2, <2>5, <3>1, <1>4
  <2>6. CASE k # a /\ k # c /\ Parent(k) = c
    <3>1. Key(k)' = Key(k)
      BY <1>8, <2>1, <2>6
    <3>2. Key(c) <= Key(k)
      BY <1>0, <1>1, <1>2, <1>4, <2>6 DEF OrderInv
    <3> QED
      BY <2>2, <2>6, <3>1, <3>2, <1>4
  <2>7. CASE k # a /\ k # c /\ Parent(k) # a /\ Parent(k) # c
    <3>1. Key(k)' = Key(k) /\ Key(Parent(k))' = Key(Parent(k))
      BY <1>8, <2>1, <2>7
    <3>2. Key(Parent(k)) <= Key(k)
      BY <1>0, <1>1, <1>2, <2>7 DEF OrderInv
    <3> QED
      BY <3>1, <3>2, <2>7
  <2> QED
    BY <2>3, <2>4, <2>5, <2>6, <2>7
<1>13. OrderInv'
  BY <1>6, <1>7, <1>12 DEF OrderInv
<1> QED
  BY <1>8, <1>9, <1>10, <1>13 DEF Inv

\* One round of up(): the item moves up, in order with its parent's other child.
LEMMA SiftUpStep ==
    ASSUME Inv, SiftUp
    PROVE  Inv'
<1> USE FactorAssumption
<1>0. TypeOK /\ Inverse /\ CallInv /\ OrderInv
  BY DEF Inv
<1>1. PICK a \in Nat : a = op.at
  BY <1>0 DEF TypeOK
<1>2. /\ op.dir = "up" /\ op.kind \in Kinds /\ op.kind # "idle"
      /\ Limit \in Nat /\ Limit <= size /\ size \in Nat /\ a < Limit
      /\ a > 0 /\ Less(a, Parent(a))
      /\ size' = size /\ hf' = hf /\ lookup' = lookup
  BY <1>0, <1>1 DEF SiftUp, Rises, CallInv, TypeOK, Limit
<1>3. \A k \in 0 .. (size - 1) : Key(k) \in Int
  BY <1>0 DEF Key, Inverse
<1>4. PICK p \in Nat : p = Parent(a) /\ p < a
  BY <1>2, Tree
<1>5. Swap(a, p) /\ op' = [op EXCEPT !.at = p]
  BY <1>1, <1>4 DEF SiftUp
<1>6. /\ op'.kind = op.kind /\ op'.user = op.user /\ op'.from = op.from
      /\ op'.at = p /\ op'.dir = "up"
  BY <1>0, <1>2, <1>5 DEF TypeOK
<1>7. Held' = Held /\ Limit' = Limit
  BY <1>2, <1>6 DEF Held, Limit
<1>8. /\ heap' \in [0 .. (size - 1) -> Users]
      /\ index' \in [Users -> Int]
      /\ Inverse'
      /\ \A k \in 0 .. (size - 1) :
            Key(k)' = IF k = a THEN Key(p) ELSE IF k = p THEN Key(a) ELSE Key(k)
  BY <1>0, <1>2, <1>4, <1>5, <1>7, SwapKeeps
<1>9. TypeOK'
  <2>1. op' \in [kind : Kinds, user : Users \cup {NoUser}, from : Nat, at : Nat,
                 dir : {"down", "up", "done"}]
    BY <1>0, <1>5 DEF TypeOK
  <2> QED
    BY <1>0, <1>2, <1>8, <2>1 DEF TypeOK
<1>10. CallInv'
  <2>1. op.kind = "remove" => heap'[size - 1] = heap[size - 1]
    <3>1. ASSUME op.kind = "remove"
          PROVE  p # size - 1 /\ a # size - 1 /\ size - 1 \in 0 .. (size - 1)
      BY <1>2, <1>4, <3>1 DEF Limit
    <3> QED
      BY <1>0, <1>5, <3>1 DEF Swap, TypeOK
  <2>2. op'.at < Limit'
    BY <1>2, <1>4, <1>6, <1>7
  <2> QED
    BY <1>0, <1>2, <1>6, <2>1, <2>2 DEF CallInv
<1>11. Key(a) < Key(p)
  BY <1>2, <1>4 DEF Less, Key
<1>12. ASSUME NEW k \in 1 .. (Limit - 1)
       PROVE  /\ Key(Parent(k))' <= Key(k)' \/ k = p
              /\ Parent(k) = p /\ p > 0 => Key(Parent(p))' <= Key(k)'
  <2>1. /\ k \in 0 .. (size - 1) /\ Parent(k) \in 0 .. (size - 1) /\ Parent(k) < k
        /\ a \in 0 .. (size - 1) /\ p \in 0 .. (size - 1) /\ a # p /\ a \in 1 .. (Limit - 1)
    BY <1>2, <1>4, Tree
  <2>2. Key(a)' = Key(p) /\ Key(p)' = Key(a)
    BY <1>8, <2>1
  <2>3. p > 0 => /\ p \in 1 .. (Limit - 1)
                 /\ Parent(p) \in 0 .. (size - 1) /\ Parent(p) < p
                 /\ Key(Parent(p)) <= Key(p)
    <3>1. p > 0 => p \in 1 .. (Limit - 1) /\ Parent(p) \in 0 .. (size - 1) /\ Parent(p) < p
      BY <1>2, <1>4, Tree
    <3> QED
      BY <1>0, <1>1, <1>2, <1>4, <2>1, <3>1 DEF OrderInv
  <2>4. p > 0 => Key(Parent(p))' = Key(Parent(p))
    BY <1>8, <1>4, <2>3
  <2>5. CASE k = a
    BY <2>2, <2>3, <2>4, <2>5, <1>4, <1>11, <1>3, <2>1, SMT
  <2>6. CASE k # a /\ k # p
    <3>1. Key(k)' = Key(k)
      BY <1>8, <2>1, <2>6
    <3>2. Key(Parent(k)) <= Key(k)
      BY <1>0, <1>1, <1>2, <2>6 DEF OrderInv
    <3>3. CASE Parent(k) = p
      <4>1. Key(a) <= Key(k)
        BY <3>2, <3>3, <1>11, <1>3, <2>1, SMT
      <4>2. p > 0 => Key(Parent(p)) <= Key(k)
        BY <3>2, <3>3, <2>3, <1>3, <2>1, SMT
      <4> QED
        BY <4>1, <4>2, <3>1, <3>3, <2>2, <2>4
    <3>4. CASE Parent(k) = a
      <4>1. Key(p) <= Key(k)
        BY <1>0, <1>1, <1>2, <1>4, <3>4 DEF OrderInv
      <4> QED
        BY <4>1, <3>1, <3>4, <2>1, <2>2
    <3>5. CASE Parent(k) # p /\ Parent(k) # a
      <4>1. Key(Parent(k))' = Key(Parent(k))
        BY <1>8, <2>1, <3>5
      <4> QED
        BY <4>1, <3>1, <3>2, <3>5
    <3> QED
      BY <3>3, <3>4, <3>5
  <2>7. CASE k = p
    BY <2>1, <2>7
  <2> QED
    BY <2>5, <2>6, <2>7
<1>13. OrderInv'
  BY <1>6, <1>7, <1>12 DEF OrderInv
<1> QED
  BY <1>8, <1>9, <1>10, <1>13 DEF Inv

\* The ends of the loops.  Where down() ends the item is in order with its children, where
\* up() ends with its parent.
LEMMA EndStep ==
    ASSUME Inv, EndDown \/ EndUp
    PROVE  Inv'
<1> USE FactorAssumption
<1>0. TypeOK /\ Inverse /\ CallInv /\ OrderInv
  BY DEF Inv
<1>1. PICK a \in Nat : a = op.at
  BY <1>0 DEF TypeOK
<1>2. PICK f \in Nat : f = op.from
  BY <1>0 DEF TypeOK
<1>3. /\ size' = size /\ heap' = heap /\ index' = index /\ hf' = hf /\ lookup' = lookup
      /\ op.dir \in {"down", "up"} /\ op.kind \in Kinds \ {"idle"}
      /\ Limit \in Nat /\ Limit <= size /\ size \in Nat /\ a < Limit
  BY <1>0, <1>1 DEF EndDown, EndUp, CallInv, TypeOK, Limit
<1>4. PICK d \in {"up", "done"} : op' = [op EXCEPT !.dir = d]
  BY DEF EndDown, EndUp
<1>5. /\ op'.kind = op.kind /\ op'.user = op.user /\ op'.from = f
      /\ op'.at = a /\ op'.dir = d
  BY <1>0, <1>1, <1>2, <1>4 DEF TypeOK
<1>6. Held' = Held /\ Limit' = Limit
  BY <1>3, <1>5 DEF Held, Limit
<1>7. TypeOK'
  <2>1. op' \in [kind : Kinds, user : Users \cup {NoUser}, from : Nat, at : Nat,
                 dir : {"down", "up", "done"}]
    BY <1>0, <1>4 DEF TypeOK
  <2> QED
    BY <1>0, <1>3, <2>1 DEF TypeOK
<1>8. Inverse'
  BY <1>0, <1>3, <1>6 DEF Inverse
<1>9. CallInv'
  BY <1>0, <1>1, <1>3, <1>5, <1>6 DEF CallInv
<1>10. \A k \in 0 .. (size - 1) : Key(k) \in Int /\ Key(k)' = Key(k)
  BY <1>0, <1>3 DEF Key, Inverse
<1>11. ASSUME NEW k \in 1 .. (Limit - 1)
       PROVE  /\ k \in 0 .. (size - 1) /\ Parent(k) \in 0 .. (size - 1) /\ Parent(k) < k
              /\ Key(k)' = Key(k) /\ Key(Parent(k))' = Key(Parent(k))
  <2>1. k \in 0 .. (size - 1) /\ Parent(k) \in 0 .. (size - 1) /\ Parent(k) < k
    BY <1>3, Tree
  <2> QED
    BY <1>10, <2>1
<1>12. CASE EndUp
  <2>1. op.dir = "up" /\ d = "done" /\ ~Rises(a)
    BY <1>0, <1>1, <1>4, <1>12 DEF EndUp, TypeOK
  <2>2. a > 0 => Key(Parent(a)) <= Key(a)
    <3>1. a > 0 => Parent(a) \in 0 .. (size - 1) /\ a \in 0 .. (size - 1)
      BY <1>3, Tree
    <3> QED
      BY <2>1, <3>1, <1>10 DEF Rises, Less, Key
  <2>3. ASSUME NEW k \in 1 .. (Limit - 1) PROVE Key(Parent(k))' <= Key(k)'
    BY <1>0, <1>1, <1>11, <2>1, <2>2 DEF OrderInv
  <2> QED
    BY <1>5, <1>6, <1>7, <1>8, <1>9, <2>1, <2>3 DEF OrderInv, Inv
<1>13. CASE EndDown
  <2>1. op.dir = "down" /\ ~Sinks(a) /\ d = (IF a = f THEN "up" ELSE "done")
    BY <1>0, <1>1, <1>2, <1>4, <1>13 DEF EndDown, TypeOK
  <2>2. ASSUME NEW k \in 1 .. (Limit - 1), Parent(k) = a PROVE Key(a) <= Key(k)
    <3>1. \A m \in 0 .. (Limit - 1) : Key(m) \in Int
      BY <1>3, <1>10
    <3>2. Left(a) < Limit
      BY <2>2, <1>3, Tree DEF Left
    <3>3. Child(a) \in 1 .. (Limit - 1) /\ Key(Child(a)) <= Key(k)
      BY <1>3, <2>2, <3>1, <3>2, ChildFact
    <3>4. ~(Key(Child(a)) < Key(a))
      BY <2>1, <3>2 DEF Sinks, Less, Key
    <3>5. Key(Child(a)) \in Int /\ Key(a) \in Int /\ Key(k) \in Int
      BY <1>3, <3>1, <3>3
    <3> QED
      BY <3>3, <3>4, <3>5
  <2>3. ASSUME NEW k \in 1 .. (Limit - 1)
        PROVE  /\ Key(Parent(k))' <= Key(k)' \/ (d = "up" /\ k = a)
               /\ d = "up" /\ Parent(k) = a /\ a > 0 => Key(Parent(a))' <= Key(k)'
    <3>1. Key(Parent(k)) <= Key(k) \/ (k = a /\ a = f)
      BY <1>0, <1>1, <1>2, <2>1, <2>2 DEF OrderInv
    <3>2. Parent(k) = a /\ a > 0 => Key(Parent(a)) <= Key(k)
      BY <1>0, <1>1, <2>1 DEF OrderInv
    <3>3. a > 0 => Key(Parent(a))' = Key(Parent(a))
      BY <1>3, <1>11
    <3> QED
      BY <1>11, <2>1, <3>1, <3>2, <3>3
  <2> QED
    BY <1>5, <1>6, <1>7, <1>8, <1>9, <2>3 DEF OrderInv, Inv
<1> QED
  BY <1>12, <1>13

\* The unlock.  What was popped is the item of the removed user, for it had been moved to
\* the end.
LEMMA FinishStep ==
    ASSUME Inv, Finish
    PROVE  Inv'
<1> USE FactorAssumption
<1>0. TypeOK /\ Inverse /\ CallInv /\ OrderInv
  BY DEF Inv
<1>1. /\ op.kind \in {"push", "remove", "fix"} /\ op.dir = "done" /\ op' = Idle
      /\ op'.kind = "idle" /\ op'.dir = "done"
  BY <1>0 DEF Finish, Unlocked, TypeOK, Kinds, Idle
<1>2. /\ Held' = lookup' /\ Limit' = size'
      /\ op' \in [kind : Kinds, user : Users \cup {NoUser}, from : Nat, at : Nat,
                  dir : {"down", "up", "done"}]
  BY <1>1 DEF Held, Limit, Idle, Kinds
<1>3. CallInv'
  BY <1>1 DEF CallInv
<1>4. CASE op.kind # "remove"
  <2>1. /\ size' = size /\ heap' = heap /\ index' = index /\ hf' = hf
        /\ lookup' = Held /\ Limit = size
    BY <1>1, <1>4 DEF Finish, Held, Limit
  <2>2. TypeOK'
    <3>1. Held \subseteq Users
      BY <1>0, <1>1 DEF Held, CallInv, TypeOK
    <3> QED
      BY <1>0, <1>2, <2>1, <3>1 DEF TypeOK
  <2>3. Inverse'
    BY <1>0, <1>2, <2>1 DEF Inverse
  <2>4. OrderInv'
    BY <1>0, <1>1, <1>2, <2>1 DEF OrderInv, Key
  <2> QED
    BY <1>3, <2>2, <2>3, <2>4 DEF Inv
<1>5. CASE op.kind = "remove"
  <2>1. PICK n \in Nat : n = size - 1
    BY <1>0, <1>5 DEF CallInv, TypeOK
  <2>2. PICK u \in Users : u = op.user
    BY <1>0, <1>5 DEF CallInv
  <2>3. /\ size = n + 1 /\ size' = n /\ heap[n] = u /\ u \in lookup /\ Held = lookup /\ Limit = n
        /\ heap' = [i \in 0 .. (n - 1) |-> heap[i]]
        /\ index' = [index EXCEPT ![u] = Gone]
        /\ hf' = [hf EXCEPT ![u] = NoHF]
        /\ lookup' = lookup \ {u}
    <3>1. 0 .. (size - 2) = 0 .. (n - 1)
      BY <1>0, <2>1 DEF TypeOK
    <3> QED
      BY <1>0, <1>5, <2>1, <2>2, <3>1 DEF Finish, CallInv, Held, Limit, TypeOK
  <2>4. \A i \in 0 .. n : heap[i] \in Users /\ heap[i] \in lookup /\ index[heap[i]] = i
    BY <1>0, <2>3 DEF Inverse, TypeOK
  <2>5. \A i \in 0 .. (n - 1) : heap'[i] = heap[i] /\ heap[i] # u
    <3>1. \A i \in 0 .. (n - 1) : index[heap[i]] # index[heap[n]]
      BY <2>4
    <3> QED
      BY <2>3, <3>1
  <2>6. TypeOK'
    <3>1. heap' \in [0 .. (n - 1) -> Users]
      BY <2>3, <2>4
    <3> QED
      <4>1. index' \in [Users -> Int]
        BY <1>0, <2>3 DEF TypeOK, Gone
      <4>2. hf' \in [Users -> NoHF .. (Safe - 1)]
        BY <1>0, <2>3 DEF TypeOK, NoHF
      <4>3. size' \in Nat /\ 0 .. (size' - 1) = 0 .. (n - 1) /\ lookup' \subseteq Users
        BY <1>0, <2>3 DEF TypeOK
      <4> QED
        BY <1>2, <3>1, <4>1, <4>2, <4>3 DEF TypeOK
  <2>7. Inverse'
    <3>1. ASSUME NEW i \in 0 .. (n - 1) PROVE heap'[i] \in lookup' /\ index'[heap'[i]] = i
      BY <1>0, <2>3, <2>4, <2>5 DEF TypeOK
    <3>2. ASSUME NEW v \in lookup'
          PROVE  index'[v] \in 0 .. (n - 1) /\ heap'[index'[v]] = v /\ hf'[v] \in 0 .. (Safe - 1)
      <4>1. /\ v # u /\ v \in Users
            /\ index[v] \in 0 .. n /\ heap[index[v]] = v /\ hf[v] \in 0 .. (Safe - 1)
        BY <1>0, <2>3 DEF Inverse, TypeOK
      <4>2. index'[v] = index[v] /\ hf'[v] = hf[v]
        BY <1>0, <2>3, <4>1 DEF TypeOK
      <4>3. index[v] # n
        BY <2>3, <4>1
      <4> QED
        BY <2>5, <4>1, <4>2, <4>3
    <3> QED
      BY <1>2, <2>3, <3>1, <3>2 DEF Inverse
  <2>8. OrderInv'
    <3>1. ASSUME NEW k \in 1 .. (n - 1) PROVE Key(Parent(k))' <= Key(k)'
      <4>1. Parent(k) \in 0 .. (n - 1) /\ k \in 0 .. (n - 1)
        BY Tree
      <4>2. \A m \in 0 .. (n - 1) : Key(m)' = Key(m)
        BY <1>0, <2>3, <2>4, <2>5 DEF Key, TypeOK
      <4>3. Key(Parent(k)) <= Key(k)
        BY <1>0, <1>1, <2>3 DEF OrderInv
      <4> QED
        BY <4>1, <4>2, <4>3
    <3> QED
      BY <1>1, <1>2, <2>3, <3>1 DEF OrderInv
  <2> QED
    BY <1>3, <2>6, <2>7, <2>8 DEF Inv
<1> QED
  BY <1>4, <1>5
-----------------------------------------------------------------------------
LEMMA StepInv == Inv /\ [Next]_vars => Inv'
<1> SUFFICES ASSUME Inv, [Next]_vars PROVE Inv'
  OBVIOUS
<1>1. CASE \E u \in Users, h \in NoHF .. MaxHF : Remove(u, h) \/ Fix(u, h) \/ Push(u, h)
  BY <1>1, RemoveStep, FixStep, PushStep
<1>2. CASE Loop
  BY <1>2, SiftDownStep, SiftUpStep, EndStep, FinishStep DEF Loop
<1>3. CASE UNCHANGED vars
  BY <1>3 DEF vars, Inv, TypeOK, Inverse, CallInv, OrderInv, Held, Limit, Key
<1> QED
  BY <1>1, <1>2, <1>3 DEF Next

LEMMA Invariance == Spec => []Inv
<1> QED
  BY InitInv, StepInv, PTL DEF Spec

\* Types.
THEOREM TypeCorrect == Spec => []TypeOK
<1>1. Inv => TypeOK
  BY DEF Inv
<1> QED
  BY <1>1, Invariance, PTL

\* Index, the array and heapLookup agree whenever the lock is free: heap.Remove and
\* heap.Fix, called with an Index, act on the item of the user updateHeap was called for.
THEOREM LookupCorrect == Spec => []LookupAgrees
<1>1. Inv => LookupAgrees
  BY DEF Inv, Inverse, CallInv, Held, LookupAgrees, Unlocked
<1> QED
  BY <1>1, Invariance, PTL

\* The array is a heap whenever the lock is free.
THEOREM Ordered == Spec => []HeapOrdered
<1> SUFFICES ASSUME Inv, Unlocked, NEW i \in 1 .. (size - 1)
             PROVE  ~Less(i, Parent(i))
  <2>1. Inv => HeapOrdered
    BY DEF HeapOrdered
  <2> QED
    BY <2>1, Invariance, PTL
<1>1. Limit = size /\ op.dir = "done" /\ size \in Nat
  BY DEF Inv, Limit, Unlocked, CallInv, TypeOK
<1>2. Key(Parent(i)) <= Key(i)
  BY <1>1 DEF Inv, OrderInv
<1>3. Parent(i) \in 0 .. (size - 1) /\ i \in 0 .. (size - 1)
  BY <1>1, Tree
<1>4. Key(Parent(i)) \in Int /\ Key(i) \in Int
  BY <1>3 DEF Inv, Inverse, Key
<1> QED
  BY <1>2, <1>4 DEF Less, Key

\* The array with its Index fields and the lookup implements the map from users to
\* factors: each call of updateHeap (risk_engine.go:423-444) changes the factor of
\* its own user and no other, whatever the sifts move and however large the array.
THEOREM MapImplemented == Spec => ImplementsMap
<1> DEFINE m == [u \in Users |-> IF InArray(u) THEN hf[u] ELSE NoHF]
           c == [user |-> op.user,
                 hf |-> IF op.kind \in {"fix", "push"} THEN hf[op.user] ELSE NoHF]
           held == [u \in Users |-> IF u \in Held THEN hf[u] ELSE NoHF]
<1> USE FactorAssumption
<1>1. Init => Watched!Init
  BY DEF Init, Idle, InArray, Watched!Init, Watched!Free, Watched!NoHF, NoHF
<1>2. (Inv => m = held) /\ (Inv' => m' = held')
  BY DEF Inv, Inverse, InArray
<1>3. Inv /\ Inv' /\ [Next]_vars => [Watched!Next]_<<m, c>>
  <2> SUFFICES ASSUME Inv, Inv', [Next]_vars PROVE [Watched!Next]_<<m, c>>
    OBVIOUS
  <2>0. TypeOK /\ Inverse /\ CallInv /\ m = held /\ m' = held'
    BY <1>2 DEF Inv
  <2> HIDE DEF m
  <2>1. ASSUME NEW u \in Users, NEW h \in NoHF .. MaxHF, Remove(u, h) PROVE Watched!Next
    <3>1. /\ op.kind = "idle" /\ c = Watched!Free
      <4>1. op = Idle
        BY <2>0, <2>1 DEF Remove, Unlocked, CallInv
      <4> QED
        BY <4>1 DEF Idle, Watched!Free, Watched!NoHF, NoHF
    <3>2. op'.kind = "remove" /\ op'.user = u
      BY <2>1 DEF Remove, Call
    <3>3. c' = [user |-> u, hf |-> NoHF]
      BY <3>2
    <3>4. Held' = Held /\ hf' = hf
      BY <2>1, <3>1, <3>2 DEF Remove, Held
    <3>5. m' = m
      BY <2>0, <3>4
    <3>6. NoHF \in Watched!NoHF .. (Safe - 1)
      BY DEF NoHF, Watched!NoHF
    <3> QED
      BY <3>1, <3>3, <3>5, <3>6 DEF m, Watched!Next, Watched!Begin
  <2>2. ASSUME NEW u \in Users, NEW h \in NoHF .. MaxHF, Push(u, h) \/ Fix(u, h)
        PROVE  Watched!Next
    <3>1. op.kind = "idle" /\ c = Watched!Free
      <4>1. op = Idle
        BY <2>0, <2>2 DEF Push, Fix, Unlocked, CallInv
      <4> QED
        BY <4>1 DEF Idle, Watched!Free, Watched!NoHF, NoHF
    <3>2. /\ op'.kind \in {"fix", "push"} /\ op'.user = u
          /\ hf' = [hf EXCEPT ![u] = h] /\ h \in 0 .. (Safe - 1)
      BY <2>2 DEF Push, Fix, Call
    <3>3. hf'[u] = h
      BY <2>0, <3>2 DEF TypeOK
    <3>4. c' = [user |-> u, hf |-> h]
      BY <3>2, <3>3
    <3>5. Held' = Held \cup {u}
      BY <2>2, <3>1 DEF Push, Fix, Held, Call
    <3>6. m' = [m EXCEPT ![u] = h]
      BY <2>0, <3>2, <3>5 DEF TypeOK
    <3>7. h \in Watched!NoHF .. (Safe - 1)
      BY <3>2 DEF Watched!NoHF
    <3> QED
      BY <3>1, <3>4, <3>6, <3>7 DEF m, Watched!Next, Watched!Begin
  <2>3. CASE SiftDown \/ EndDown \/ SiftUp \/ EndUp
    <3>1. /\ op'.kind = op.kind /\ op'.user = op.user
          /\ hf' = hf /\ lookup' = lookup
      BY <2>0, <2>3 DEF SiftDown, EndDown, SiftUp, EndUp, TypeOK
    <3>2. m' = m /\ c' = c
      BY <2>0, <3>1 DEF Held
    <3> QED
      BY <3>2
  <2>4. CASE Finish
    <3>1. op' = Idle /\ op.kind \in {"fix", "push", "remove"}
      BY <2>4 DEF Finish
    <3>2. c' = Watched!Free
      BY <3>1 DEF Idle, Watched!Free, Watched!NoHF, NoHF
    <3>3. PICK u \in Users : u = op.user
      BY <2>0, <3>1 DEF CallInv
    <3>4. c # Watched!Free
      BY <3>3 DEF Watched!Free
    <3>5. Held' = lookup'
      BY <3>1 DEF Held, Idle
    <3>6. m' = [m EXCEPT ![c.user] = c.hf]
      <4>1. CASE op.kind \in {"fix", "push"}
        <5>1. hf' = hf /\ lookup' = Held /\ u \in Held
          BY <2>0, <2>4, <3>3, <4>1 DEF Finish, Held, CallInv
        <5>2. c.user = u /\ c.hf = hf[u]
          BY <3>3, <4>1
        <5>3. m' = m /\ m[u] = hf[u]
          BY <2>0, <3>5, <5>1
        <5> QED
          BY <2>0, <5>2, <5>3
      <4>2. CASE op.kind = "remove"
        <5>1. lookup' = Held \ {u} /\ hf' = [hf EXCEPT ![u] = NoHF]
          BY <2>4, <3>3, <4>2 DEF Finish, Held
        <5>2. c.user = u /\ c.hf = NoHF
          BY <3>3, <4>2
        <5> QED
          BY <2>0, <3>5, <5>1, <5>2 DEF TypeOK
      <4> QED
        BY <3>1, <4>1, <4>2
    <3> QED
      BY <3>2, <3>4, <3>6 DEF m, Watched!Next, Watched!End
  <2>5. CASE UNCHANGED vars
    <3>1. m' = m /\ c' = c
      BY <2>0, <2>5 DEF vars, Held
    <3> QED
      BY <3>1
  <2> QED
    BY <2>1, <2>2, <2>3, <2>4, <2>5 DEF Next, Loop
<1> QED
  BY <1>1, <1>3, Invariance, PTL DEF Spec, ImplementsMap, Watched!Spec
=============================================================================
