---- MODULE RiskEngine_proofs ----
(***************************************************************************)
(* Theorems about RiskEngine, for every set of users and workers and every *)
(* capacity of the queue.                                                  *)
(*                                                                         *)
(* Both theorems hold whatever the environment does and for any number of  *)
(* workers.  The invariant behind HeapSafe adds to HeapNotSafer what a     *)
(* worker has in hand while it is about to record it (Settled), what the   *)
(* steps before that rely on (InHand), and that two workers have one user  *)
(* only if it is known to be astray (Alone).                               *)
(***************************************************************************)
EXTENDS RiskEngine, SequenceTheorems, TLAPS

\* What a worker has in hand: while it verifies, a factor of the chain; when it
\* has verified, that factor and a context already cancelled.
InHand ==
  \A w \in Workers :
    /\ pc[w] = "verify" => calculatedAt[w] \in HF
    /\ pc[w] = "store" => hf[w] \in HF
    /\ pc[w] \in {"store", "send", "cool"} => verifyCtx[w] = "cancelled"

TypeInv == TypeOK /\ InHand

\* A change of the user was stored, or the user is queued.
Pending(u) == u \in handed \/ InQueue(u)

\* A factor to be recorded for the user is not above what the store gives.
Agrees(u, h) ==
  IF h = NoHF \/ h = Safe THEN localHF[u] \in {Safe, NoHF}
                          ELSE localHF[u] = NoHF \/ localHF[u] \in h .. Safe

Settled ==
  \A w \in Workers :
    pc[w] \in {"send", "cool", "update"}
      => task[w] \in astray \/ Pending(task[w]) \/ Agrees(task[w], hf[w])

Alone ==
  \A v, w \in Workers : task[v] = task[w] /\ task[w] \in Users \ astray => v = w

HeapInv == TypeInv /\ Alone /\ Settled /\ HeapNotSafer
----
\* What the queue holds after a push and after a pop.
LEMMA QueueSteps ==
  ASSUME NEW q \in Seq(Users), NEW u \in Users
  PROVE  /\ \A v : (\E i \in DOMAIN Append(q, u) : Append(q, u)[i] = v)
                     <=> v = u \/ \E i \in DOMAIN q : q[i] = v
         /\ q # <<>> =>
              \A v : (\E i \in DOMAIN q : q[i] = v)
                       <=> v = Head(q) \/ \E i \in DOMAIN Tail(q) : Tail(q)[i] = v
<1>1. \A v : (\E i \in DOMAIN Append(q, u) : Append(q, u)[i] = v)
               <=> v = u \/ \E i \in DOMAIN q : q[i] = v
  <2>1. /\ DOMAIN q = 1 .. Len(q) /\ Len(q) \in Nat
        /\ DOMAIN Append(q, u) = 1 .. Len(q) + 1
        /\ \A i \in 1 .. Len(q) : Append(q, u)[i] = q[i]
        /\ Append(q, u)[Len(q) + 1] = u
    BY AppendProperties, LenProperties
  <2>2. \A i \in 1 .. Len(q) + 1 : i \in 1 .. Len(q) \/ i = Len(q) + 1
    BY <2>1
  <2>3. Len(q) + 1 \in 1 .. Len(q) + 1 /\ 1 .. Len(q) \subseteq 1 .. Len(q) + 1
    BY <2>1
  <2> QED
    BY <2>1, <2>2, <2>3, Zenon
<1>2. ASSUME q # <<>>
      PROVE  \A v : (\E i \in DOMAIN q : q[i] = v)
                      <=> v = Head(q) \/ \E i \in DOMAIN Tail(q) : Tail(q)[i] = v
  <2>1. /\ DOMAIN q = 1 .. Len(q) /\ Len(q) \in Nat \ {0}
        /\ Head(q) = q[1]
        /\ DOMAIN Tail(q) = 1 .. Len(q) - 1
        /\ \A i \in 1 .. Len(q) - 1 : Tail(q)[i] = q[i + 1]
    BY <1>2, HeadTailProperties, LenProperties, EmptySeq
  <2>2. ASSUME NEW i \in 1 .. Len(q)
        PROVE  i = 1 \/ (i - 1 \in 1 .. Len(q) - 1 /\ Tail(q)[i - 1] = q[i])
    BY <2>1
  <2>3. ASSUME NEW i \in 1 .. Len(q) - 1
        PROVE  i + 1 \in 1 .. Len(q) /\ Tail(q)[i] = q[i + 1]
    BY <2>1
  <2>4. 1 \in 1 .. Len(q)
    BY <2>1
  <2> SUFFICES ASSUME NEW v
               PROVE  (\E i \in 1 .. Len(q) : q[i] = v)
                        <=> v = q[1] \/ \E i \in 1 .. Len(q) - 1 : Tail(q)[i] = v
    BY <2>1, Zenon
  <2>5. (\E i \in 1 .. Len(q) : q[i] = v)
          => v = q[1] \/ \E i \in 1 .. Len(q) - 1 : Tail(q)[i] = v
    BY <2>2, Zenon
  <2>6. v = q[1] \/ (\E i \in 1 .. Len(q) - 1 : Tail(q)[i] = v)
          => \E i \in 1 .. Len(q) : q[i] = v
    <3>1. \A i \in 1 .. Len(q) - 1 : Tail(q)[i] = q[i + 1] /\ i + 1 \in 1 .. Len(q)
      BY <2>3, Zenon
    <3> QED
      BY <2>4, <3>1, Zenon
  <2> QED
    BY <2>5, <2>6, Zenon
<1> QED
  BY <1>1, <1>2

LEMMA TypeInitial == Init => TypeOK
<1> SUFFICES ASSUME Init PROVE TypeOK
  OBVIOUS
<1>1. <<>> \in Seq(Users) /\ Len(<<>>) <= QueueCap
  BY RiskEngineAssumption, EmptySeq
<1> QED
  BY <1>1, RiskEngineAssumption DEF Init, TypeOK, HF, Reports

\* What a worker's loop leaves at its end.
LEMMA TypeDone ==
  ASSUME TypeOK, NEW w \in Workers, TaskDone(w)
  PROVE  /\ pc' \in [Workers -> {"idle", "calc", "emode", "verify", "store", "send", "cool", "update"}]
         /\ task' \in [Workers -> Users \cup {NoUser}]
         /\ \A v \in Workers : task'[v] = NoUser <=> pc'[v] = "idle"
         /\ hf' \in [Workers -> HF \cup {NoHF}]
         /\ calculatedAt' \in [Workers -> HF \cup {NoHF}]
         /\ verifyCtx' \in [Workers -> {"none", "open", "cancelled"}]
BY DEF TypeOK, TaskDone

LEMMA TypeItem ==
  ASSUME NEW old \in Item \cup {NoItem}, NEW h \in HF \cup {NoHF}
  PROVE  NewItem(old, h) \in Item \cup {NoItem}
BY RiskEngineAssumption DEF NewItem, Item, HF, Under, Border, Low, Safe

LEMMA TypeQueue ==
  ASSUME TypeOK, NEW u \in Users, Enqueue(u)
  PROVE  /\ taskQueue' \in Seq(Users) /\ Len(taskQueue') <= QueueCap
         /\ refused' \subseteq Users
<1>1. CASE HasRoom
  <2>1. taskQueue' = Append(taskQueue, u)
    BY <1>1 DEF Enqueue
  <2> QED
    BY <1>1, <2>1, AppendProperties, LenProperties, RiskEngineAssumption
       DEF TypeOK, HasRoom, Enqueue
<1>2. CASE ~HasRoom
  BY <1>2 DEF Enqueue, TypeOK
<1> QED
  BY <1>1, <1>2

LEMMA TypeNext == TypeInv /\ [Next]_vars => TypeOK'
<1> SUFFICES ASSUME TypeOK, InHand, [Next]_vars PROVE TypeOK'
  BY DEF TypeInv
<1> USE RiskEngineAssumption
<1>1. ASSUME NEW u \in Users, ChainMoves(u) PROVE TypeOK'
  BY <1>1 DEF ChainMoves, TypeOK, history, stored, engine, workers, Reports
<1>2. ASSUME NEW u \in Users, AccrueInterest(u) PROVE TypeOK'
  BY <1>2 DEF AccrueInterest, TypeOK, history, stored, engine, workers
<1>3. ASSUME NEW u \in Users, NEW r \in Reports, Deliver(u, r) PROVE TypeOK'
  BY <1>3 DEF Deliver, TypeOK, history, engine, workers
<1>4. ASSUME NEW u \in Users, EnqueueChanged(u) PROVE TypeOK'
  BY <1>4, TypeQueue DEF EnqueueChanged, TypeOK, chain, workers
<1>5. ASSUME NEW u \in Users, WatchdogEnqueue(u) PROVE TypeOK'
  BY <1>5, TypeQueue DEF WatchdogEnqueue, TypeOK, history, world, chain, stored, workers
<1>6. ASSUME NEW u \in Users, CooldownOver(u) PROVE TypeOK'
  <2>1. heap[u] \in Item /\ heap' = [heap EXCEPT ![u] = [@ EXCEPT !.cooling = FALSE]]
    BY <1>6 DEF CooldownOver, TypeOK, history
  <2>2. [heap[u] EXCEPT !.cooling = FALSE] \in Item
    BY <2>1 DEF Item
  <2> QED
    BY <1>6, <2>1, <2>2 DEF CooldownOver, TypeOK, history, world, chain, stored, workers
<1>7. ASSUME SeeBlock PROVE TypeOK'
  BY <1>7 DEF SeeBlock, TypeOK, history, stored, engine, workers
<1>8. ASSUME WatchdogScan PROVE TypeOK'
  BY <1>8 DEF WatchdogScan, TypeOK, history, world, chain, stored, workers
<1>9. ASSUME NEW w \in Workers, Take(w) PROVE TypeOK'
  <2>1. /\ Head(taskQueue) \in Users /\ taskQueue' \in Seq(Users)
        /\ Len(taskQueue') <= QueueCap
    BY <1>9, HeadTailProperties, LenProperties DEF Take, TypeOK, history
  <2> QED
    BY <1>9, <2>1 DEF Take, TypeOK, history, world, chain, stored
<1>10. ASSUME NEW w \in Workers, Calculate(w) PROVE TypeOK'
  <2>1. PICK h \in Computed(task[w]) :
          /\ hf' = [hf EXCEPT ![w] = h]
          /\ pc' = [pc EXCEPT ![w] = Judge(task[w], h)]
          /\ calculatedAt' = IF Judge(task[w], h) = "verify"
                               THEN [calculatedAt EXCEPT ![w] = seenHF[task[w]]]
                               ELSE calculatedAt
    BY <1>10 DEF Calculate
  <2>2. task[w] \in Users
    BY <1>10 DEF Calculate, TypeOK, history
  <2>3. h \in HF \cup {NoHF}
    BY <2>1, <2>2 DEF Computed, TypeOK, history, HF, Under, Safe
  <2>4. Judge(task[w], h) \in {"update", "emode", "verify"}
    BY DEF Judge
  <2>5. seenHF[task[w]] \in HF
    BY <2>2 DEF TypeOK
  <2> QED
    BY <1>10, <2>1, <2>2, <2>3, <2>4, <2>5 DEF Calculate, TypeOK, history, world, chain, stored, engine
<1>11. ASSUME NEW w \in Workers, LoadEMode(w) PROVE TypeOK'
  BY <1>11 DEF LoadEMode, TypeOK, history, chain, engine
<1>12. ASSUME NEW w \in Workers, Verify(w) PROVE TypeOK'
  <2>1. CASE TaskDone(w)
    BY <1>12, <2>1, TypeDone DEF Verify, TypeOK, history, world, chain, stored, engine
  <2>2. CASE ~TaskDone(w)
    BY <1>12, <2>2 DEF Verify, TypeOK, history, world, chain, stored, engine
  <2> QED
    BY <2>1, <2>2
<1>13. ASSUME NEW w \in Workers, StorePosition(w) PROVE TypeOK'
  <2>1. task[w] \in Users /\ hf[w] \in HF /\ chainHF[task[w]] \in HF
    BY <1>13 DEF StorePosition, TypeOK, history, InHand
  <2>2. Replaced(task[w], hf[w]) \subseteq HF \cup {NoHF}
    BY <2>1 DEF Replaced, HF, Under, Safe
  <2> QED
    BY <1>13, <2>1, <2>2 DEF StorePosition, TypeOK, history, chain, engine
<1>14. ASSUME NEW w \in Workers, Send(w) PROVE TypeOK'
  BY <1>14 DEF Send, TypeOK, history, world, chain, stored, engine, HF, Under, Safe
<1>15. ASSUME NEW w \in Workers, CoolDown(w) PROVE TypeOK'
  <2>1. task[w] \in Users
    BY <1>15 DEF CoolDown, TypeOK, history
  <2>2. heap[task[w]] # NoItem => heap[task[w]] \in Item
    BY <2>1 DEF TypeOK
  <2>3. \A i \in Item : [i EXCEPT !.cooling = TRUE] \in Item
    BY DEF Item
  <2>4. heap' \in [Users -> Item \cup {NoItem}]
    <3>1. heap \in [Users -> Item \cup {NoItem}]
      BY DEF TypeOK
    <3>2. CASE heap[task[w]] = NoItem
      BY <1>15, <3>1, <3>2 DEF CoolDown
    <3>3. CASE heap[task[w]] # NoItem
      <4>1. heap' = [heap EXCEPT ![task[w]] = [heap[task[w]] EXCEPT !.cooling = TRUE]]
        BY <1>15, <3>3 DEF CoolDown
      <4>2. [heap[task[w]] EXCEPT !.cooling = TRUE] \in Item
        BY <2>2, <2>3, <3>3
      <4> QED
        BY <3>1, <4>1, <4>2
    <3> QED
      BY <3>2, <3>3
  <2> QED
    BY <1>15, <2>1, <2>4 DEF CoolDown, TypeOK, history, world, chain, stored
<1>16. ASSUME NEW w \in Workers, UpdateHeap(w) PROVE TypeOK'
  <2>1. task[w] \in Users
    BY <1>16 DEF UpdateHeap, TypeOK, history
  <2>2. NewItem(heap[task[w]], hf[w]) \in Item \cup {NoItem}
    BY <2>1, TypeItem DEF TypeOK
  <2> QED
    BY <1>16, <2>1, <2>2, TypeDone DEF UpdateHeap, TypeOK, history, world, chain, stored
<1>17. CASE UNCHANGED vars
  BY <1>17 DEF vars, world, chain, stored, engine, workers, history, TypeOK
<1> QED
  BY <1>1, <1>2, <1>3, <1>4, <1>5, <1>6, <1>7, <1>8, <1>9, <1>10, <1>11, <1>12, <1>13,
     <1>14, <1>15, <1>16, <1>17 DEF Next, WorkerStep

LEMMA InHandNext == TypeInv /\ [Next]_vars => InHand'
<1> SUFFICES ASSUME TypeOK, InHand, [Next]_vars PROVE InHand'
  BY DEF TypeInv
<1> USE RiskEngineAssumption
<1>1. ASSUME UNCHANGED workers PROVE InHand'
  BY <1>1 DEF workers, InHand
<1>2. ASSUME NEW w \in Workers, TaskDone(w) PROVE InHand'
  BY <1>2 DEF TaskDone, InHand, TypeOK
<1>3. ASSUME NEW w \in Workers, Take(w) PROVE InHand'
  BY <1>3 DEF Take, InHand, TypeOK
<1>4. ASSUME NEW w \in Workers, Calculate(w) PROVE InHand'
  <2>1. PICK h \in Computed(task[w]) :
          /\ pc' = [pc EXCEPT ![w] = Judge(task[w], h)]
          /\ hf' = [hf EXCEPT ![w] = h]
          /\ calculatedAt' = IF Judge(task[w], h) = "verify"
                               THEN [calculatedAt EXCEPT ![w] = seenHF[task[w]]]
                               ELSE calculatedAt
    BY <1>4 DEF Calculate
  <2>2. task[w] \in Users /\ seenHF[task[w]] \in HF
    BY <1>4 DEF Calculate, TypeOK
  <2>3. Judge(task[w], h) \in {"update", "emode", "verify"}
    BY DEF Judge
  <2> QED
    BY <1>4, <2>1, <2>2, <2>3 DEF Calculate, InHand, TypeOK
<1>5. ASSUME NEW w \in Workers, LoadEMode(w) PROVE InHand'
  BY <1>5 DEF LoadEMode, InHand, TypeOK
<1>6. ASSUME NEW w \in Workers, Verify(w) PROVE InHand'
  <2>1. CASE TaskDone(w)
    BY <1>2, <2>1
  <2>2. CASE ~TaskDone(w)
    <3>1. /\ pc[w] = "verify"
          /\ hf' = [hf EXCEPT ![w] = calculatedAt[w]]
          /\ calculatedAt' = [calculatedAt EXCEPT ![w] = NoHF]
          /\ pc' = [pc EXCEPT ![w] = "store"]
          /\ verifyCtx' = [verifyCtx EXCEPT ![w] = "cancelled"]
      BY <1>6, <2>2 DEF Verify
    <3>2. pc'[w] = "store" /\ hf'[w] = calculatedAt[w] /\ verifyCtx'[w] = "cancelled"
      BY <3>1 DEF TypeOK
    <3>3. \A v \in Workers \ {w} :
            /\ pc'[v] = pc[v] /\ hf'[v] = hf[v]
            /\ calculatedAt'[v] = calculatedAt[v] /\ verifyCtx'[v] = verifyCtx[v]
      BY <3>1 DEF TypeOK
    <3>4. calculatedAt[w] \in HF
      BY <3>1 DEF InHand
    <3> QED
      BY <3>2, <3>3, <3>4 DEF InHand
  <2> QED
    BY <2>1, <2>2
<1>7. ASSUME NEW w \in Workers, StorePosition(w) PROVE InHand'
  BY <1>7 DEF StorePosition, InHand, TypeOK
<1>8. ASSUME NEW w \in Workers, Send(w) PROVE InHand'
  BY <1>8 DEF Send, InHand, TypeOK
<1>9. ASSUME NEW w \in Workers, CoolDown(w) PROVE InHand'
  BY <1>9 DEF CoolDown, InHand, TypeOK
<1>10. ASSUME NEW w \in Workers, UpdateHeap(w) PROVE InHand'
  BY <1>2, <1>10 DEF UpdateHeap
<1>11. CASE UNCHANGED vars
  BY <1>1, <1>11 DEF vars
<1>12. CASE \E u \in Users : ChainMoves(u) \/ AccrueInterest(u) \/ EnqueueChanged(u)
                                \/ WatchdogEnqueue(u) \/ CooldownOver(u)
  BY <1>1, <1>12 DEF ChainMoves, AccrueInterest, EnqueueChanged, WatchdogEnqueue, CooldownOver
<1>13. CASE \E u \in Users, r \in Reports : Deliver(u, r)
  BY <1>1, <1>13 DEF Deliver
<1>14. CASE SeeBlock \/ WatchdogScan
  BY <1>1, <1>14 DEF SeeBlock, WatchdogScan
<1> QED
  BY <1>3, <1>4, <1>5, <1>6, <1>7, <1>8, <1>9, <1>10, <1>11, <1>12, <1>13, <1>14
     DEF Next, WorkerStep

\* Every reachable state is well typed (risk_engine.go:39-460): the queue keeps to
\* its capacity, and only a factor below 1.05 gets into the heap, never a missing one.
THEOREM TypeCorrect == Spec => []TypeOK
<1>1. Init => TypeInv
  BY TypeInitial DEF TypeInv, Init, InHand
<1>2. TypeInv /\ [Next]_vars => TypeInv'
  BY TypeNext, InHandNext DEF TypeInv
<1>3. TypeInv => TypeOK
  BY DEF TypeInv
<1> QED
  BY <1>1, <1>2, <1>3, PTL DEF Spec
----
\* A step outside the workers: what is due stays due or goes astray, a user whose
\* stored state changes becomes due, and no item changes its factor.
LEMMA OutsideStep ==
  ASSUME HeapInv, UNCHANGED workers, astray \subseteq astray',
         \A v \in Users : Pending(v) => Pending(v)' \/ v \in astray',
         \A v \in Users : localHF'[v] = localHF[v] \/ Pending(v)',
         \A v \in Users : /\ heap'[v] = NoItem <=> heap[v] = NoItem
                          /\ heap[v] # NoItem => heap'[v].hf = heap[v].hf
  PROVE  Alone' /\ Settled' /\ HeapNotSafer'
<1>1. ASSUME NEW v \in Users, v \notin astray', ~Due(v)'
      PROVE  v \notin astray /\ ~Due(v) /\ localHF'[v] = localHF[v]
  BY <1>1 DEF Due, Pending, InWork, workers
<1>2. HeapNotSafer'
  BY <1>1 DEF HeapInv, HeapNotSafer
<1>3. ASSUME NEW w \in Workers, pc[w] \in {"send", "cool", "update"}
      PROVE  task[w] \in Users
  BY <1>3 DEF HeapInv, TypeInv, TypeOK
<1>4. Settled'
  BY <1>3 DEF HeapInv, Settled, Agrees, workers
<1>5. Alone'
  BY DEF HeapInv, Alone, workers
<1> QED
  BY <1>2, <1>4, <1>5

\* A step by which a worker keeps its user, and nothing else is recorded.
LEMMA InsideStep ==
  ASSUME HeapInv, NEW w \in Workers, task[w] \in Users,
         UNCHANGED <<task, taskQueue, handed>>, astray \subseteq astray',
         \A v \in Workers \ {w} : pc'[v] = pc[v] /\ hf'[v] = hf[v],
         \A v \in Users \ {task[w]} : heap'[v] = heap[v] /\ localHF'[v] = localHF[v],
         pc'[w] \in {"send", "cool", "update"}
           => task[w] \in astray' \/ Pending(task[w]) \/ Agrees(task[w], hf[w])'
  PROVE  Alone' /\ Settled' /\ HeapNotSafer'
<1>1. \A v \in Users : Pending(v)' <=> Pending(v)
  BY DEF Pending, InQueue
<1>2. \A v \in Users : ~Due(v)' => ~Due(v) /\ v # task[w]
  BY DEF Due, InQueue, InWork
<1>3. HeapNotSafer'
  BY <1>2 DEF HeapInv, HeapNotSafer
<1>4. ASSUME NEW v \in Workers, pc'[v] \in {"send", "cool", "update"}
      PROVE  task[v] \in astray' \/ Pending(task[v])' \/ Agrees(task[v], hf[v])'
  <2>1. CASE v = w
    BY <1>1, <1>4, <2>1
  <2>2. CASE v # w
    <3>1. pc[v] \in {"send", "cool", "update"} /\ hf'[v] = hf[v]
      BY <1>4, <2>2
    <3>2. task[v] \in Users
      BY <3>1 DEF HeapInv, TypeInv, TypeOK
    <3>3. task[v] = task[w] => task[v] \in astray'
      BY <2>2, <3>2 DEF HeapInv, Alone
    <3>4. task[v] # task[w] => localHF'[task[v]] = localHF[task[v]]
      BY <3>2
    <3>5. task[v] \in astray \/ Pending(task[v]) \/ Agrees(task[v], hf[v])
      BY <3>1 DEF HeapInv, Settled
    <3> QED
      BY <1>1, <3>1, <3>2, <3>3, <3>4, <3>5 DEF Agrees
  <2> QED
    BY <2>1, <2>2
<1>5. Settled'
  BY <1>4 DEF Settled
<1>6. Alone'
  BY DEF HeapInv, Alone
<1> QED
  BY <1>3, <1>5, <1>6

\* A push makes its user queued, or astray, and nobody else less so.
LEMMA Pushed ==
  ASSUME TypeOK, NEW u \in Users, Enqueue(u)
  PROVE  /\ \A v : InQueue(v) => InQueue(v)'
         /\ InQueue(u)' \/ u \in refused'
<1>1. CASE HasRoom
  <2>1. taskQueue' = Append(taskQueue, u) /\ taskQueue \in Seq(Users)
    BY <1>1 DEF Enqueue, TypeOK
  <2> QED
    BY <2>1, QueueSteps DEF InQueue
<1>2. CASE ~HasRoom
  <2>1. taskQueue' = taskQueue /\ (InQueue(u) \/ u \in refused')
    BY <1>2 DEF Enqueue
  <2> QED
    BY <2>1 DEF InQueue
<1> QED
  BY <1>1, <1>2

\* A pop makes its user the worker's, and the others stay queued.
LEMMA Popped ==
  ASSUME TypeOK, NEW w \in Workers, Take(w)
  PROVE  /\ task'[w] = Head(taskQueue) /\ Head(taskQueue) \in Users
         /\ \A v : InQueue(v) <=> v = Head(taskQueue) \/ InQueue(v)'
<1>1. /\ taskQueue \in Seq(Users) /\ taskQueue # <<>>
      /\ task'[w] = Head(taskQueue) /\ taskQueue' = Tail(taskQueue)
  BY DEF Take, TypeOK
<1>2. Head(taskQueue) \in Users
  BY <1>1, HeadTailProperties
<1>3. \A v : (\E i \in DOMAIN taskQueue : taskQueue[i] = v)
             <=> v = Head(taskQueue) \/ \E i \in DOMAIN Tail(taskQueue) : Tail(taskQueue)[i] = v
  BY <1>1, <1>2, QueueSteps
<1> QED
  BY <1>1, <1>2, <1>3, Zenon DEF InQueue

\* The end of an iteration of w's loop that touches no other user's item.
LEMMA LastStep ==
  ASSUME HeapInv, NEW w \in Workers, NEW u \in Users, u = task[w], TaskDone(w),
         UNCHANGED <<taskQueue, handed, localHF>>, astray \subseteq astray',
         \A v \in Users \ {u} : heap'[v] = heap[v],
         u \notin astray' /\ ~Due(u)'
           => IF heap'[u] = NoItem THEN localHF[u] \in {Safe, NoHF}
                                   ELSE localHF[u] = NoHF \/ localHF[u] \in heap'[u].hf .. Safe
  PROVE  Alone' /\ Settled' /\ HeapNotSafer'
<1> USE RiskEngineAssumption
<1>1. /\ pc'[w] = "idle" /\ task'[w] = NoUser
      /\ \A v \in Workers \ {w} : pc'[v] = pc[v] /\ task'[v] = task[v] /\ hf'[v] = hf[v]
  BY DEF TaskDone, HeapInv, TypeInv, TypeOK
<1>2. \A v \in Users \ {u} : ~Due(v)' => ~Due(v)
  BY <1>1 DEF Due, InQueue, InWork
<1>3. HeapNotSafer'
  BY <1>2 DEF HeapInv, HeapNotSafer
<1>4. Settled'
  BY <1>1 DEF HeapInv, Settled, Pending, InQueue, Agrees
<1>5. Alone'
  BY <1>1, RiskEngineAssumption DEF HeapInv, Alone, RiskEngineAssumption
<1> QED
  BY <1>3, <1>4, <1>5

LEMMA HeapInvNext == HeapInv /\ [Next]_vars => Alone' /\ Settled' /\ HeapNotSafer'
<1> SUFFICES ASSUME HeapInv, TypeOK, InHand, [Next]_vars
             PROVE  Alone' /\ Settled' /\ HeapNotSafer'
  BY DEF HeapInv, TypeInv
<1> USE RiskEngineAssumption
<1>1. ASSUME NEW u \in Users, ChainMoves(u) PROVE Alone' /\ Settled' /\ HeapNotSafer'
  BY <1>1, OutsideStep DEF ChainMoves, stored, engine, history, Pending, InQueue
<1>2. ASSUME NEW u \in Users, AccrueInterest(u) PROVE Alone' /\ Settled' /\ HeapNotSafer'
  BY <1>2, OutsideStep DEF AccrueInterest, stored, engine, history, Pending, InQueue
<1>3. ASSUME NEW u \in Users, NEW r \in Reports, Deliver(u, r)
      PROVE  Alone' /\ Settled' /\ HeapNotSafer'
  <2>1. \A v \in Users : Pending(v) => Pending(v)'
    BY <1>3 DEF Deliver, engine, Pending, InQueue
  <2>2. \A v \in Users : localHF'[v] = localHF[v] \/ Pending(v)'
    BY <1>3 DEF Deliver, Pending, TypeOK
  <2> QED
    BY <1>3, <2>1, <2>2, OutsideStep DEF Deliver, engine, history
<1>4. ASSUME NEW u \in Users, EnqueueChanged(u) PROVE Alone' /\ Settled' /\ HeapNotSafer'
  <2>1. (\A v : InQueue(v) => InQueue(v)') /\ (InQueue(u)' \/ u \in refused')
    BY <1>4, Pushed DEF EnqueueChanged
  <2>2. astray' = astray \cup ({u} \cap refused') /\ handed' = handed \ {u}
    BY <1>4 DEF EnqueueChanged
  <2>3. \A v \in Users : Pending(v) => Pending(v)' \/ v \in astray'
    BY <2>1, <2>2 DEF Pending
  <2> QED
    BY <1>4, <2>2, <2>3, OutsideStep DEF EnqueueChanged
<1>5. ASSUME NEW u \in Users, WatchdogEnqueue(u) PROVE Alone' /\ Settled' /\ HeapNotSafer'
  <2>1. \A v : InQueue(v) => InQueue(v)'
    BY <1>5, Pushed DEF WatchdogEnqueue
  <2>2. \A v \in Users : Pending(v) => Pending(v)'
    BY <1>5, <2>1 DEF WatchdogEnqueue, world, stored, Pending
  <2> QED
    BY <1>5, <2>2, OutsideStep DEF WatchdogEnqueue, world, stored
<1>6. ASSUME NEW u \in Users, CooldownOver(u) PROVE Alone' /\ Settled' /\ HeapNotSafer'
  <2>1. heap[u] \in Item /\ heap' = [heap EXCEPT ![u] = [@ EXCEPT !.cooling = FALSE]]
    BY <1>6 DEF CooldownOver, TypeOK
  <2>2. /\ [heap[u] EXCEPT !.cooling = FALSE].hf = heap[u].hf
        /\ [heap[u] EXCEPT !.cooling = FALSE] # NoItem /\ heap[u] # NoItem
    BY <2>1 DEF Item
  <2>3. \A v \in Users : /\ heap'[v] = NoItem <=> heap[v] = NoItem
                         /\ heap[v] # NoItem => heap'[v].hf = heap[v].hf
    BY <2>1, <2>2 DEF TypeOK
  <2>4. \A v \in Users : Pending(v) => Pending(v)'
    BY <1>6 DEF CooldownOver, world, stored, Pending, InQueue
  <2> QED
    BY <1>6, <2>3, <2>4, OutsideStep DEF CooldownOver, world, stored, history
<1>7. ASSUME SeeBlock \/ WatchdogScan PROVE Alone' /\ Settled' /\ HeapNotSafer'
  <2>1. \A v \in Users : Pending(v) => Pending(v)'
    BY <1>7 DEF SeeBlock, WatchdogScan, world, stored, engine, Pending, InQueue
  <2> QED
    BY <1>7, <2>1, OutsideStep DEF SeeBlock, WatchdogScan, world, stored, engine, history
<1>8. CASE UNCHANGED vars
  <2>1. \A v \in Users : Pending(v) => Pending(v)'
    BY <1>8 DEF vars, world, stored, engine, Pending, InQueue
  <2> QED
    BY <1>8, <2>1, OutsideStep DEF vars, world, stored, engine, history
<1>9. ASSUME NEW w \in Workers, Take(w) PROVE Alone' /\ Settled' /\ HeapNotSafer'
  <2> DEFINE u == Head(taskQueue)
  <2>1. /\ task'[w] = u /\ u \in Users
        /\ \A v : InQueue(v) <=> v = u \/ InQueue(v)'
    BY <1>9, Popped
  <2>2. /\ astray' = IF InWork(u) THEN astray \cup {u} ELSE astray \ {u}
        /\ UNCHANGED <<handed, localHF, heap, hf>>
        /\ pc[w] = "idle" /\ pc'[w] = "calc" /\ task[w] = NoUser
        /\ \A v \in Workers \ {w} : pc'[v] = pc[v] /\ task'[v] = task[v]
    BY <1>9 DEF Take, TypeOK, world, stored
  <2> HIDE DEF u
  <2>3. ASSUME NEW v \in Users, v \notin astray', ~Due(v)' PROVE v \notin astray /\ ~Due(v)
    <3>1. v # u
      BY <2>1, <2>3 DEF Due, InWork
    <3>2. v \notin astray
      BY <2>2, <2>3, <3>1
    <3>3. ~InWork(v)
      <4>1. NoUser \notin Users
        BY DEF RiskEngineAssumption
      <4> QED
        BY <2>2, <2>3, <4>1 DEF Due, InWork
    <3> QED
      BY <2>1, <2>2, <2>3, <3>1, <3>2, <3>3 DEF Due
  <2>4. HeapNotSafer'
    BY <2>2, <2>3 DEF HeapInv, HeapNotSafer
  <2>5. ASSUME NEW x \in Workers, pc'[x] \in {"send", "cool", "update"}
        PROVE  task'[x] \in astray' \/ Pending(task[x])' \/ Agrees(task[x], hf[x])'
    <3>1. x # w /\ pc[x] = pc'[x] /\ task'[x] = task[x]
      BY <2>2, <2>5
    <3>2. task[x] \in astray \/ Pending(task[x]) \/ Agrees(task[x], hf[x])
      BY <2>5, <3>1 DEF HeapInv, Settled
    <3>3. CASE task[x] = u
      BY <2>2, <3>1, <3>3 DEF InWork
    <3>4. CASE task[x] # u
      <4>1. task[x] \in astray => task[x] \in astray'
        BY <2>2, <3>4
      <4>2. Pending(task[x]) => Pending(task[x])'
        BY <2>1, <2>2, <3>1, <3>4 DEF Pending
      <4>3. Agrees(task[x], hf[x]) => Agrees(task[x], hf[x])'
        BY <2>2, <3>1 DEF Agrees
      <4> QED
        BY <3>1, <3>2, <4>1, <4>2, <4>3
    <3> QED
      BY <3>3, <3>4
  <2>6. Settled'
    BY <2>5 DEF Settled
  <2>7. ASSUME NEW x \in Workers, NEW y \in Workers, task'[x] = task'[y],
               task'[y] \in Users \ astray'
        PROVE  x = y
    <3>1. CASE task'[y] = u
      <4>1. ~InWork(u)
        BY <2>2, <2>7, <3>1
      <4> QED
        BY <2>2, <2>7, <3>1, <4>1 DEF InWork
    <3>2. CASE task'[y] # u
      <4>1. x # w /\ y # w /\ task'[y] \notin astray
        BY <2>1, <2>2, <2>7, <3>2
      <4> QED
        BY <2>2, <2>7, <4>1 DEF HeapInv, Alone
    <3> QED
      BY <3>1, <3>2
  <2>8. Alone'
    BY <2>7 DEF Alone
  <2> QED
    BY <2>4, <2>6, <2>8
<1>10. ASSUME NEW w \in Workers, Calculate(w) PROVE Alone' /\ Settled' /\ HeapNotSafer'
  <2>1. PICK h \in Computed(task[w]) :
          /\ pc' = [pc EXCEPT ![w] = Judge(task[w], h)]
          /\ hf' = [hf EXCEPT ![w] = h]
    BY <1>10 DEF Calculate
  <2>2. /\ task[w] \in Users /\ localHF[task[w]] \in HF \cup {NoHF}
        /\ pc'[w] = Judge(task[w], h) /\ hf'[w] = h
        /\ \A v \in Workers \ {w} : pc'[v] = pc[v] /\ hf'[v] = hf[v]
    BY <1>10, <2>1 DEF Calculate, TypeOK
  <2>3. ASSUME Judge(task[w], h) = "update" PROVE Agrees(task[w], h)
    <3>1. h = NoHF \/ h = localHF[task[w]] \/ (~fetched[task[w]] /\ h \in Under .. localHF[task[w]])
      BY <2>1 DEF Computed
    <3>2. CASE h = NoHF
      BY <2>1, <2>2, <3>2 DEF Computed, Agrees, HF, Under, Safe
    <3>3. CASE h # NoHF /\ h = localHF[task[w]]
      BY <2>2, <3>3 DEF Agrees, HF, Under, Safe
    <3>4. CASE h # NoHF /\ h # localHF[task[w]] /\ ~fetched[task[w]] /\ h \in Under .. localHF[task[w]]
      <4>1. localHF[task[w]] # NoHF
        BY <2>1, <3>4 DEF Computed
      <4>2. h < Safe
        BY <2>2, <3>4, <4>1 DEF HF, Under, Safe
      <4> QED
        BY <2>3, <3>4, <4>2 DEF Judge
    <3> QED
      BY <3>1, <3>2, <3>3, <3>4
  <2>4. Judge(task[w], h) \in {"update", "emode", "verify"}
    BY DEF Judge
  <2>5. pc'[w] \in {"send", "cool", "update"} => Agrees(task[w], hf[w])'
    BY <1>10, <2>2, <2>3, <2>4 DEF Calculate, world, stored, Agrees
  <2>6. UNCHANGED <<task, taskQueue, handed, heap, localHF, astray>>
    BY <1>10 DEF Calculate, world, stored, engine, history
  <2> QED
    BY <2>2, <2>5, <2>6, InsideStep
<1>11. ASSUME NEW w \in Workers, LoadEMode(w) PROVE Alone' /\ Settled' /\ HeapNotSafer'
  <2>1. PICK ok \in BOOLEAN :
          /\ hf' = IF ok THEN hf ELSE [hf EXCEPT ![w] = NoHF]
          /\ pc' = [pc EXCEPT ![w] = IF ok THEN "calc" ELSE "update"]
          /\ astray' = IF ok THEN astray ELSE astray \cup {task[w]}
    BY <1>11 DEF LoadEMode
  <2>2. /\ task[w] \in Users
        /\ \A v \in Workers \ {w} : pc'[v] = pc[v] /\ hf'[v] = hf[v]
        /\ pc'[w] \in {"send", "cool", "update"} => task[w] \in astray'
    BY <1>11, <2>1 DEF LoadEMode, TypeOK
  <2>3. /\ UNCHANGED <<task, taskQueue, handed, heap, localHF>>
        /\ astray \subseteq astray'
    BY <1>11, <2>1 DEF LoadEMode, engine
  <2> QED
    BY <2>2, <2>3, InsideStep
<1>12. ASSUME NEW w \in Workers, Verify(w) PROVE Alone' /\ Settled' /\ HeapNotSafer'
  <2>1. task[w] \in Users /\ UNCHANGED <<taskQueue, handed, heap, localHF>>
    BY <1>12 DEF Verify, TypeOK, world, stored, engine
  <2>2. CASE TaskDone(w) /\ astray' = astray \cup {task[w]}
    <3>1. task[w] \in astray' /\ astray \subseteq astray'
      BY <2>2
    <3> QED
      BY <2>1, <2>2, <3>1, LastStep
  <2>3. CASE ~(TaskDone(w) /\ astray' = astray \cup {task[w]})
    <3>1. /\ hf' = [hf EXCEPT ![w] = calculatedAt[w]]
          /\ pc' = [pc EXCEPT ![w] = "store"]
          /\ UNCHANGED <<task, astray>>
      BY <1>12, <2>3 DEF Verify
    <3>2. /\ pc'[w] = "store"
          /\ \A v \in Workers \ {w} : pc'[v] = pc[v] /\ hf'[v] = hf[v]
      BY <3>1 DEF TypeOK
    <3> QED
      BY <2>1, <3>1, <3>2, InsideStep
  <2> QED
    BY <2>2, <2>3
<1>13. ASSUME NEW w \in Workers, StorePosition(w) PROVE Alone' /\ Settled' /\ HeapNotSafer'
  <2>1. /\ task[w] \in Users /\ hf[w] \in HF /\ chainHF[task[w]] \in HF
        /\ UNCHANGED <<task, taskQueue, handed, heap, hf>>
    BY <1>13 DEF StorePosition, InHand, TypeOK, engine
  <2>2. PICK h \in Replaced(task[w], hf[w]) :
          /\ localHF' = [localHF EXCEPT ![task[w]] = h]
          /\ astray' = IF h \in HF /\ h < hf[w] THEN astray \cup {task[w]} ELSE astray
    BY <1>13 DEF StorePosition
  <2>3. /\ localHF'[task[w]] = h
        /\ \A v \in Users \ {task[w]} : localHF'[v] = localHF[v]
    BY <2>1, <2>2 DEF TypeOK
  <2>4. h \in HF \cup {NoHF}
    BY <2>1, <2>2, RiskEngineAssumption DEF Replaced, HF, Under, Safe, RiskEngineAssumption
  <2>5. task[w] \in astray' \/ Agrees(task[w], hf[w])'
    <3> SUFFICES ASSUME ~(h \in HF /\ h < hf[w]) PROVE Agrees(task[w], hf[w])'
      BY <2>2
    <3>1. h = NoHF \/ h \in hf[w] .. Safe
      BY <2>1, <2>4 DEF HF, Under, Safe
    <3>2. hf[w] = Safe => h \in {Safe, NoHF}
      BY <2>1, <3>1 DEF HF, Under, Safe
    <3>3. hf[w] # NoHF
      BY <2>1, RiskEngineAssumption DEF RiskEngineAssumption
    <3> QED
      BY <2>1, <2>3, <3>1, <3>2, <3>3 DEF Agrees
  <2>6. /\ astray \subseteq astray'
        /\ \A v \in Workers \ {w} : pc'[v] = pc[v]
    BY <1>13, <2>2 DEF StorePosition, TypeOK
  <2> QED
    BY <2>1, <2>3, <2>5, <2>6, InsideStep
<1>14. ASSUME NEW w \in Workers, Send(w) PROVE Alone' /\ Settled' /\ HeapNotSafer'
  <2>1. task[w] \in Users /\ verifyCtx[w] = "cancelled"
    BY <1>14 DEF Send, InHand, TypeOK
  <2>2. /\ UNCHANGED <<hf, task, taskQueue, handed, heap, localHF, astray>>
        /\ \A v \in Workers \ {w} : pc'[v] = pc[v]
    BY <1>14, <2>1 DEF Send, SendResults, TypeOK, world, stored, engine
  <2>3. task[w] \in astray \/ Pending(task[w]) \/ Agrees(task[w], hf[w])
    BY <1>14 DEF Send, HeapInv, Settled
  <2>4. task[w] \in astray' \/ Pending(task[w]) \/ Agrees(task[w], hf[w])'
    BY <2>2, <2>3 DEF Agrees
  <2> QED
    BY <2>1, <2>2, <2>4, InsideStep
<1>15. ASSUME NEW w \in Workers, CoolDown(w) PROVE Alone' /\ Settled' /\ HeapNotSafer'
  <2>1. /\ task[w] \in Users /\ UNCHANGED <<hf, task, taskQueue, handed, localHF, astray>>
        /\ \A v \in Workers \ {w} : pc'[v] = pc[v]
    BY <1>15 DEF CoolDown, TypeOK, world, stored, history
  <2>2. task[w] \in astray \/ Pending(task[w]) \/ Agrees(task[w], hf[w])
    BY <1>15 DEF CoolDown, HeapInv, Settled
  <2>3. task[w] \in astray' \/ Pending(task[w]) \/ Agrees(task[w], hf[w])'
    BY <2>1, <2>2 DEF Agrees
  <2>4. \A v \in Users \ {task[w]} : heap'[v] = heap[v]
    BY <1>15, <2>1 DEF CoolDown, TypeOK
  <2> QED
    BY <2>1, <2>3, <2>4, InsideStep
<1>16. ASSUME NEW w \in Workers, UpdateHeap(w) PROVE Alone' /\ Settled' /\ HeapNotSafer'
  <2>0. PICK u \in Users : u = task[w]
    BY <1>16 DEF UpdateHeap, TypeOK
  <2>1. /\ hf[w] \in HF \cup {NoHF} /\ heap[u] \in Item \cup {NoItem}
        /\ heap' = [heap EXCEPT ![u] = NewItem(heap[u], hf[w])]
        /\ TaskDone(w) /\ UNCHANGED <<taskQueue, handed, localHF, astray>>
    BY <1>16, <2>0 DEF UpdateHeap, TypeOK, world, stored, history
  <2>2. u \in astray \/ Pending(u) \/ Agrees(u, hf[w])
    BY <1>16, <2>0 DEF UpdateHeap, HeapInv, Settled
  <2>3. ASSUME u \notin astray, ~Due(u)'
        PROVE  IF heap'[u] = NoItem THEN localHF[u] \in {Safe, NoHF}
                                    ELSE localHF[u] = NoHF \/ localHF[u] \in heap'[u].hf .. Safe
    <3>1. ~Pending(u)
      BY <2>1, <2>3 DEF Pending, Due, InQueue
    <3>2. Agrees(u, hf[w]) /\ heap'[u] = NewItem(heap[u], hf[w])
      BY <2>1, <2>2, <2>3, <3>1 DEF TypeOK
    <3>3. CASE hf[w] = NoHF \/ hf[w] = Safe
      BY <3>2, <3>3 DEF NewItem, Agrees
    <3>4. CASE ~(hf[w] = NoHF \/ hf[w] = Safe)
      <4>1. heap'[u] \in Item /\ heap'[u].hf = hf[w]
        <5>1. CASE heap[u] = NoItem
          <6>1. heap'[u] = [hf |-> hf[w], cooling |-> FALSE]
            BY <3>2, <3>4, <5>1 DEF NewItem
          <6>2. hf[w] \in HF
            BY <2>1, <3>4
          <6> QED
            BY <6>1, <6>2 DEF Item
        <5>2. CASE heap[u] # NoItem
          <6>1. heap[u] \in Item /\ heap'[u] = [heap[u] EXCEPT !.hf = hf[w]]
            BY <2>1, <3>2, <3>4, <5>2 DEF NewItem
          <6> QED
            BY <2>1, <3>4, <6>1 DEF Item
        <5> QED
          BY <5>1, <5>2
      <4>2. heap'[u] # NoItem
        BY <4>1 DEF Item
      <4> QED
        BY <3>2, <3>4, <4>1, <4>2 DEF Agrees
    <3> QED
      BY <3>3, <3>4
  <2>4. \A v \in Users \ {u} : heap'[v] = heap[v]
    BY <2>1 DEF TypeOK
  <2> QED
    BY <2>0, <2>1, <2>3, <2>4, LastStep
<1> QED
  BY <1>1, <1>2, <1>3, <1>4, <1>5, <1>6, <1>7, <1>8, <1>9, <1>10, <1>11, <1>12, <1>13,
     <1>14, <1>15, <1>16 DEF Next, WorkerStep

\* The heap of risk_engine.go:423-444 never shows a user safer than the store does once
\* nothing is due for the user, and leaves out only users the store has as safe, for any
\* number of users and workers, any capacity, moving prices and failing requests: what
\* can make it wrong are a dropped task, a failed request, two workers at one user and a
\* stored state that contradicts the verification, until a worker takes the user again.
THEOREM HeapSafe == Spec => []HeapNotSafer
<1>1. Init => HeapInv
  <2> SUFFICES ASSUME Init PROVE HeapInv
    OBVIOUS
  <2>1. TypeInv
    BY TypeInitial DEF TypeInv, Init, InHand
  <2>2. Settled
    BY DEF Init, Settled
  <2>3. Alone
    BY RiskEngineAssumption DEF Init, Alone, RiskEngineAssumption
  <2>4. HeapNotSafer
    BY DEF Init, HeapNotSafer
  <2> QED
    BY <2>1, <2>2, <2>3, <2>4 DEF HeapInv
<1>2. HeapInv /\ [Next]_vars => HeapInv'
  BY HeapInvNext, TypeNext, InHandNext DEF HeapInv, TypeInv
<1>3. HeapInv => HeapNotSafer
  BY DEF HeapInv
<1> QED
  BY <1>1, <1>2, <1>3, PTL DEF Spec
====
