---- MODULE RiskEngine ----
(***************************************************************************)
(* internal/engine/risk_engine.go.  Users reach taskQueue when their       *)
(* stored state changes or when the watchdog finds them near liquidation.  *)
(* Workers take them, compute a health factor from the stored state, check *)
(* it against the chain when it is below 1.0, attempt a liquidation, and   *)
(* record the outcome in the heap of users at risk, which the watchdog     *)
(* scans.                                                                  *)
(*                                                                         *)
(* A health factor is one of four levels, all that the code's comparisons  *)
(* tell apart: below 1.0, up to 1.02, below 1.05, and 1.05 or above.       *)
(***************************************************************************)
EXTENDS Naturals, Sequences

CONSTANTS
  Users,
  Workers,
  NoUser,      \* the user of an idle worker
  NoHF,        \* no health factor: a datum is missing, or there is no debt to speak of
  NoItem,      \* the heap has no item for the user
  QueueCap,    \* capacity of the channel taskQueue
  Profitable,  \* users for which CalculateOptimalRecipe finds a profit
  \* what the environment may do
  \* bounds: the levels each user's factor takes on the chain, and those a change
  \* may leave the stored state at, NoHF included
  ChainLevels,
  StoredLevels,
  RpcFails,    \* requests to the nodes may fail
  Overflow,    \* producers may find taskQueue full
  PriceMoves,  \* the oracle's prices move, which no log of the pool reports
  Interest,    \* interest accrues on the chain between two events of a user
  NewCategories \* a log may put a user in an E-mode category the store does not know

Under == 0    \* below 1.0, liquidatable
Border == 1   \* at most 1.02, what the watchdog looks for
Low == 2      \* below 1.05, kept in the heap
Safe == 3     \* 1.05 or above
HF == Under .. Safe

ASSUME RiskEngineAssumption ==
  /\ NoUser \notin Users
  /\ NoHF \notin HF
  /\ NoItem \notin [hf : HF, cooling : BOOLEAN]
  /\ QueueCap \in Nat \ {0}
  /\ Profitable \subseteq Users
  /\ ChainLevels \in [Users -> SUBSET HF]
  /\ StoredLevels \in [Users -> SUBSET (HF \cup {NoHF})]
  /\ {RpcFails, Overflow, PriceMoves, Interest, NewCategories} \subseteq BOOLEAN

VARIABLES
  \* the chain, and what the bot has stored of it
  chainHF,   \* the health factor of each user on the chain
  localHF,   \* the one its stored position, indices and prices give
  seenHF,    \* the health factors at currentBlock, the block of the last log seen
  news,      \* changes on the way to the bot: a user, and what reports the change
  handed,    \* users whose stored state changed, about to be enqueued
  fetched,   \* EModeFetched
  \* RiskEngine
  taskQueue,
  targets,   \* users the watchdog found, not yet enqueued
  heap,      \* RiskHeap and HeapLookup: the item of each user
  \* each worker
  pc,
  task,      \* userAddr
  hf,        \* the health factor in hand: computed first, the chain's once verified
  calculatedAt, \* the user's health factor on the chain at CalculatedAtBlock
  verifyCtx, \* the context of the verification
  \* what happened, as far as the properties ask
  broadcast, \* users a liquidation of whom was broadcast
  refused,   \* users whose last Enqueue was dropped and whom no tick picked since
  astray     \* users whose item may be wrong until a worker takes them again

chain   == <<chainHF, seenHF, news>>
stored  == <<localHF, handed, fetched>>
world   == <<chain, stored>>
engine  == <<taskQueue, targets, heap>>
workers == <<pc, task, hf, calculatedAt, verifyCtx>>
history == <<broadcast, refused, astray>>
vars    == <<world, engine, workers, history>>

\* cooling: NextCheckAt is still to come.
Reports == {"log", "price"}

Item == [hf : HF, cooling : BOOLEAN]

TypeOK ==
  /\ chainHF \in [Users -> HF]
  /\ localHF \in [Users -> HF \cup {NoHF}]
  /\ seenHF \in [Users -> HF]
  /\ news \subseteq Users \X Reports
  /\ handed \subseteq Users /\ targets \subseteq Users
  /\ fetched \in [Users -> BOOLEAN]
  /\ taskQueue \in Seq(Users) /\ Len(taskQueue) <= QueueCap
  /\ heap \in [Users -> Item \cup {NoItem}]
  /\ pc \in [Workers -> {"idle", "calc", "emode", "verify", "store", "send", "cool", "update"}]
  /\ task \in [Workers -> Users \cup {NoUser}]
  /\ \A w \in Workers : task[w] = NoUser <=> pc[w] = "idle"
  /\ hf \in [Workers -> HF \cup {NoHF}]
  /\ calculatedAt \in [Workers -> HF \cup {NoHF}]
  /\ verifyCtx \in [Workers -> {"none", "open", "cancelled"}]
  /\ broadcast \subseteq Users /\ refused \subseteq Users /\ astray \subseteq Users
----
\* After the bootstrap no price is known; the first ones are on their way.  The
\* E-mode of the users it found is known, that of users who appear later is not.
Init ==
  /\ chainHF \in [Users -> HF] /\ seenHF = chainHF
  /\ \A u \in Users : chainHF[u] \in ChainLevels[u]
  /\ localHF = [u \in Users |-> NoHF]
  /\ news = Users \X {"price"} /\ handed = {}
  /\ fetched \in [Users -> BOOLEAN]
  /\ taskQueue = <<>> /\ targets = {}
  /\ heap = [u \in Users |-> NoItem]
  /\ pc = [w \in Workers |-> "idle"]
  /\ task = [w \in Workers |-> NoUser]
  /\ hf = [w \in Workers |-> NoHF]
  /\ calculatedAt = [w \in Workers |-> NoHF]
  /\ verifyCtx = [w \in Workers |-> "none"]
  /\ broadcast = {} /\ refused = {} /\ astray = {}
----
(* The chain and the producers of tasks. *)

\* A transaction, which a log reports, or a price concerns the user; its level may
\* change by it.
ChainMoves(u) ==
  /\ \E h \in ChainLevels[u] : chainHF' = [chainHF EXCEPT ![u] = h]
  /\ \E r \in IF PriceMoves THEN Reports ELSE {"log"} : news' = news \cup {<<u, r>>}
  /\ UNCHANGED <<seenHF, stored, engine, workers, history>>

\* Time alone lowers it, the debt growing faster than the collateral; no log and no
\* price tells the bot.
AccrueInterest(u) ==
  /\ Interest
  /\ \E h \in ChainLevels[u] : h < chainHF[u] /\ chainHF' = [chainHF EXCEPT ![u] = h]
  /\ UNCHANGED <<seenHF, news, stored, engine, workers, history>>

\* A log handler or the oracle feeder stores the change; a log moves currentBlock
\* as well.  What that makes of the stored state is left open: other changes may
\* be on their way, and a log may reach a position a worker fetched from the chain
\* after that very log.  The log may be UserEModeSet, which tells the E-mode.
Deliver(u, r) ==
  /\ <<u, r>> \in news
  /\ news' = news \ {<<u, r>>}
  /\ \E h \in StoredLevels[u] : localHF' = [localHF EXCEPT ![u] = h]
  /\ handed' = handed \cup {u}
  /\ seenHF' = IF r = "log" THEN chainHF ELSE seenHF
  /\ \E b \in {FALSE, r = "log"} : fetched' = [fetched EXCEPT ![u] = @ \/ b]
  /\ UNCHANGED <<chainHF, engine, workers, history>>

\* A log that concerns none of the users moves currentBlock.
SeeBlock ==
  /\ seenHF # chainHF
  /\ seenHF' = chainHF
  /\ UNCHANGED <<chainHF, news, stored, engine, workers, history>>

InQueue(u) == \E i \in DOMAIN taskQueue : taskQueue[i] = u
HasRoom == Len(taskQueue) < QueueCap

\* A full channel drops the task, without a trace in the program.
Enqueue(u) ==
  /\ Overflow \/ HasRoom
  /\ taskQueue' = IF HasRoom THEN Append(taskQueue, u) ELSE taskQueue
  /\ refused' = IF HasRoom \/ InQueue(u) THEN refused \ {u} ELSE refused \cup {u}

\* The producer that stored the change then enqueues the user.
EnqueueChanged(u) ==
  /\ u \in handed
  /\ handed' = handed \ {u}
  /\ Enqueue(u)
  /\ astray' = astray \cup ({u} \cap refused')
  /\ UNCHANGED <<chain, localHF, fetched, targets, heap, workers, broadcast>>

\* A slip: the threshold itself is left out.
AtRisk_BelowOnly(i) == i # NoItem /\ i.hf < Border /\ ~i.cooling

\* The heap items the watchdog picks.
AtRisk(i) == i # NoItem /\ i.hf <= Border /\ ~i.cooling

\* One tick: the heap is scanned under the read lock, the users found are
\* enqueued after it is released.
WatchdogScan ==
  /\ targets = {}
  /\ targets' = { u \in Users : AtRisk(heap[u]) }
  /\ refused' = refused \ targets'
  /\ UNCHANGED <<world, taskQueue, heap, workers, broadcast, astray>>

WatchdogEnqueue(u) ==
  /\ u \in targets
  /\ targets' = targets \ {u}
  /\ Enqueue(u)
  /\ UNCHANGED <<world, heap, workers, broadcast, astray>>

\* The time NextCheckAt of an item is reached.
CooldownOver(u) ==
  /\ heap[u] # NoItem /\ heap[u].cooling
  /\ heap' = [heap EXCEPT ![u].cooling = FALSE]
  /\ UNCHANGED <<world, taskQueue, targets, workers, history>>
----
(* The workers. *)

InWork(u) == \E w \in Workers : task[w] = u

\* The iteration of the worker's loop ends, and its variables with it.
TaskDone(w) ==
  /\ pc' = [pc EXCEPT ![w] = "idle"]
  /\ task' = [task EXCEPT ![w] = NoUser]
  /\ hf' = [hf EXCEPT ![w] = NoHF]
  /\ calculatedAt' = [calculatedAt EXCEPT ![w] = NoHF]
  /\ verifyCtx' = [verifyCtx EXCEPT ![w] = "none"]

\* A user two workers have at the same time is astray: either may record last.  One
\* that a worker takes alone is computed from what is stored then.
Take(w) ==
  /\ pc[w] = "idle" /\ taskQueue # <<>>
  /\ task' = [task EXCEPT ![w] = Head(taskQueue)]
  /\ taskQueue' = Tail(taskQueue)
  /\ pc' = [pc EXCEPT ![w] = "calc"]
  /\ astray' = IF InWork(Head(taskQueue)) THEN astray \cup {Head(taskQueue)}
                                         ELSE astray \ {Head(taskQueue)}
  /\ UNCHANGED <<world, targets, heap, hf, calculatedAt, verifyCtx, broadcast, refused>>

\* What computeHFMath may give.  Without the E-mode category, which only raises
\* thresholds, it may be less than the stored state deserves.
Computed(u) ==
  IF localHF[u] = NoHF \/ fetched[u] THEN {localHF[u]} ELSE Under .. localHF[u]

\* Where a computed health factor leads: to the heap, to the lazy load of the
\* E-mode, or to the verification on the chain.
Judge(u, h) ==
  CASE h = NoHF                    -> "update"
    [] ~fetched[u] /\ h < Safe     -> "emode"
    [] OTHER                       -> IF h < Border THEN "verify" ELSE "update"

\* calculateHF up to the lazy load, and again after it; currentBlock is noted for
\* the verification.
Calculate(w) ==
  /\ pc[w] = "calc"
  /\ \E h \in Computed(task[w]) :
       /\ hf' = [hf EXCEPT ![w] = h]
       /\ pc' = [pc EXCEPT ![w] = Judge(task[w], h)]
       /\ calculatedAt' = IF Judge(task[w], h) = "verify"
                            THEN [calculatedAt EXCEPT ![w] = seenHF[task[w]]]
                            ELSE calculatedAt
  /\ UNCHANGED <<world, engine, task, verifyCtx, history>>

\* FetchUserEMode, and FetchEModeCategory when the category is unknown; a
\* failure gives up the computation, which removes the user from the heap.
LoadEMode(w) ==
  /\ pc[w] = "emode"
  /\ \E ok \in {TRUE} \cup (IF RpcFails THEN {FALSE} ELSE {}) :
       /\ fetched' = [fetched EXCEPT ![task[w]] = @ \/ ok]
       /\ hf' = IF ok THEN hf ELSE [hf EXCEPT ![w] = NoHF]
       /\ pc' = [pc EXCEPT ![w] = IF ok THEN "calc" ELSE "update"]
       /\ astray' = IF ok THEN astray ELSE astray \cup {task[w]}
  /\ UNCHANGED <<chain, localHF, handed, engine, task, calculatedAt, verifyCtx,
                 broadcast, refused>>

\* FetchUserPositionBatchAtBlock, for CalculatedAtBlock, under verifyCtx, which is
\* cancelled as soon as the call returns.  On error the round is abandoned: the
\* heap is not touched.
Verify(w) ==
  /\ pc[w] = "verify"
  /\ \/ /\ RpcFails
        /\ TaskDone(w)
        /\ astray' = astray \cup {task[w]}
     \/ /\ hf' = [hf EXCEPT ![w] = calculatedAt[w]]
        /\ calculatedAt' = [calculatedAt EXCEPT ![w] = NoHF]
        /\ pc' = [pc EXCEPT ![w] = "store"]
        /\ verifyCtx' = [verifyCtx EXCEPT ![w] = "cancelled"]
        /\ UNCHANGED <<task, astray>>
  /\ UNCHANGED <<world, engine, broadcast, refused>>

Coming(u) == \E r \in Reports : <<u, r>> \in news

\* The factor the fetched position gives under the stored prices, which may be
\* newer than its block, and the stored indices, which may lack interest the chain's
\* factor h includes; no debt gives none.  An E-mode category the store does not
\* know is left out of it, and never loaded, for EModeFetched is set.  While a
\* change of the user is pending it may be any.
Replaced(u, h) ==
  LET lowest == IF NewCategories THEN Under ELSE IF PriceMoves THEN chainHF[u] ELSE h IN
  IF Coming(u) \/ u \in handed \/ InQueue(u)
    THEN StoredLevels[u]
    ELSE (IF Interest \/ NewCategories THEN lowest .. Safe ELSE {lowest})
           \cup (IF lowest = Safe \/ NewCategories THEN {NoHF} ELSE {})

\* The chain's position replaces the stored one; if it is liquidatable indeed,
\* a recipe is computed.  The worker goes on with the chain's factor, though what is
\* stored may now give a lower one.
StorePosition(w) ==
  /\ pc[w] = "store"
  /\ \E h \in Replaced(task[w], hf[w]) :
       /\ localHF' = [localHF EXCEPT ![task[w]] = h]
       /\ astray' = IF h \in HF /\ h < hf[w] THEN astray \cup {task[w]} ELSE astray
  /\ fetched' = [fetched EXCEPT ![task[w]] = TRUE]
  /\ pc' = [pc EXCEPT ![w] =
             IF hf[w] # Under THEN "update"
             ELSE IF task[w] \in Profitable THEN "send" ELSE "cool"]
  /\ UNCHANGED <<chain, handed, engine, task, hf, calculatedAt, verifyCtx,
                 broadcast, refused>>

\* What TxExecutor.SendLiquidation may return under a context: every request it
\* makes fails once the context is cancelled.
SendResults(ctx) ==
  IF ctx = "cancelled" THEN {"error"}
  ELSE {"sent"} \cup (IF RpcFails THEN {"error"} ELSE {})

\* A broadcast puts the user out of the heap, as if its factor were 100.
Send(w) ==
  /\ pc[w] = "send"
  /\ \E r \in SendResults(verifyCtx[w]) :
       /\ pc' = [pc EXCEPT ![w] = IF r = "sent" THEN "update" ELSE "cool"]
       /\ hf' = IF r = "sent" THEN [hf EXCEPT ![w] = Safe] ELSE hf
       /\ broadcast' = IF r = "sent" THEN broadcast \cup {task[w]} ELSE broadcast
  /\ UNCHANGED <<world, engine, task, calculatedAt, verifyCtx, refused, astray>>

\* The cooldown is noted in the item of the heap, if there is one.
CoolDown(w) ==
  /\ pc[w] = "cool"
  /\ heap' = IF heap[task[w]] = NoItem THEN heap
             ELSE [heap EXCEPT ![task[w]].cooling = TRUE]
  /\ pc' = [pc EXCEPT ![w] = "update"]
  /\ UNCHANGED <<world, taskQueue, targets, task, hf, calculatedAt, verifyCtx, history>>

\* Slips: no test for a missing factor; the factor of a known item left as it was.
NewItem_NoTest(old, h) ==
  IF h = Safe THEN NoItem
  ELSE IF old # NoItem THEN [old EXCEPT !.hf = h]
  ELSE [hf |-> h, cooling |-> FALSE]
NewItem_KeepsOld(old, h) ==
  IF h = NoHF \/ h = Safe THEN NoItem
  ELSE IF old # NoItem THEN old
  ELSE [hf |-> h, cooling |-> FALSE]

\* The item updateHeap leaves for a user: none at 1.05 or above, else the old
\* one with the new factor, or a new one without cooldown.
NewItem(old, h) ==
  IF h = NoHF \/ h = Safe THEN NoItem
  ELSE IF old # NoItem THEN [old EXCEPT !.hf = h]
  ELSE [hf |-> h, cooling |-> FALSE]

UpdateHeap(w) ==
  /\ pc[w] = "update"
  /\ heap' = [heap EXCEPT ![task[w]] = NewItem(@, hf[w])]
  /\ TaskDone(w)
  /\ UNCHANGED <<world, taskQueue, targets, history>>

WorkerStep(w) ==
  \/ Take(w) \/ Calculate(w) \/ LoadEMode(w) \/ Verify(w)
  \/ StorePosition(w) \/ Send(w) \/ CoolDown(w) \/ UpdateHeap(w)
----
Next ==
  \/ \E u \in Users :
       \/ ChainMoves(u) \/ AccrueInterest(u) \/ (\E r \in Reports : Deliver(u, r)) \/ EnqueueChanged(u)
       \/ WatchdogEnqueue(u) \/ CooldownOver(u)
  \/ SeeBlock \/ WatchdogScan
  \/ \E w \in Workers : WorkerStep(w)

Spec == Init /\ [][Next]_vars

\* Goroutines are scheduled, time passes, what is on its way arrives.  Nothing
\* obliges the chain to move.
Fairness ==
  /\ \A u \in Users : /\ WF_vars(\E r \in Reports : Deliver(u, r)) /\ WF_vars(EnqueueChanged(u))
                      /\ WF_vars(WatchdogEnqueue(u)) /\ WF_vars(CooldownOver(u))
  /\ WF_vars(WatchdogScan)
  /\ \A w \in Workers : WF_vars(WorkerStep(w))

FairSpec == Spec /\ Fairness
----
(* Properties. *)

\* The user will be computed, or is being so: a change was stored, or the user is
\* queued, or in the hands of a worker.
Due(u) == u \in handed \/ InQueue(u) \/ InWork(u)

\* risk_engine.go:153-212, 423-460.  Once nothing is due for a user the heap does
\* not show it safer than the store does: its item has the factor of the stored
\* state, or a lower one read from the chain, and there is no item only if the
\* stored state is safe.  With any number of workers, moving prices and failing
\* requests there are four ways to break this, and no other: since a worker last
\* took the user alone its task was dropped by a full queue, a request for it
\* failed, two workers had it at once, or the stored state contradicted the
\* verification.
HeapNotSafer ==
  \A u \in Users \ astray : ~Due(u) =>
    IF heap[u] = NoItem THEN localHF[u] \in {Safe, NoHF}
                        ELSE localHF[u] = NoHF \/ localHF[u] \in heap[u].hf .. Safe

\* risk_engine.go:73-94, 446-452.  A user the heap holds at 1.02 or less is computed
\* again, unless a computation in the meantime took it out of that range: an attempt
\* that failed and its cooldown delay this and do not prevent it.  When other users
\* fill the queue its task may be dropped; then a later tick picks it once more.
NearLiquidation(u) == heap[u] # NoItem /\ heap[u].hf <= Border
WatchdogRetries ==
  \A u \in Users :
    /\ NearLiquidation(u) ~> InWork(u) \/ u \in refused \/ ~NearLiquidation(u)
    /\ NearLiquidation(u) /\ u \in refused ~> u \notin refused \/ ~NearLiquidation(u)

\* risk_engine.go:153-195.  A worker that verified a profitable liquidation ends
\* up broadcasting it.
ProfitableIsSent ==
  \A u \in Users : (\E w \in Workers : pc[w] = "send" /\ task[w] = u) ~> u \in broadcast
====
