# A verification of the Aave V3 flash liquidator

TLA+ models of the liquidation bot in `src/` (Go, with one Solidity contract),
the TLC runs that check them and the theorems TLAPS proves about them.

## The system

| Part | State | Operations | Talks to |
|---|---|---|---|
| Main program (`cmd/bot/main.go`) | none | the start, SIGTERM | all |
| Bootstrapper, Graph client, multicall reader (`rpc/bootstrapper.go`, `graph_client.go`, `multicall.go`) | none of their own | `Run`: anchor block, reserves, borrowers at that block, E-mode data | write the store once |
| Fee cache (`dex/fee_cache.go`) | fee of the best pool per pair | built once, read | node |
| State store (`store/`) | positions, indices, prices, subscribers per asset, risk heap, `currentBlock`, one `RWMutex` | getters and setters; some callers lock `Mu()` themselves | shared by all |
| Log replay engine (`engine/log_replay_engine.go`) | `logBuffer`, cursor `lastProcessedBlock/LogIndex`, `currentTxHash`, `dirtyUsers` | `Start`: subscribe, history, replay, live loop | node (HTTP, WebSocket), store, `Enqueue` |
| Oracle feeder (`oracle/oracle.go`) | last prices, in the store | poll every 2 s, store the changed ones, fan out | node, store, `EnqueueByAsset` |
| Risk engine (`engine/risk_engine.go`) | `taskQueue`, heap and lookup in the store, cooldowns | workers, watchdog | store, node, strategy, executor |
| Strategy engine (`engine/strategy_engine.go`) | none | best pair of debt and collateral | store |
| Transaction executor (`engine/tx_executor.go`) | key | `SendLiquidation`: estimate, nonce, fees, sign, broadcast, retried | node, fee cache |
| RPC client (`rpc/rpc.go`) | round-robin counter | `CallWithRetry` | nodes |
| Mathematics (`pkg/math`) | none | `RayMul`, `RayDiv`, thresholds | |
| Liquidator contract (`contract/src/BaseAaveV3Liquidator.sol`) | token balances | `executeArbitrage`, `executeOperation`, `rescueTokens` | Aave pool, DEX |

After the start the parts run as goroutines that share the store and one channel,
`taskQueue`. What is hard, and which properties answer it:

* **A start from many requests.** Ranges fetched at once, pages, retries, batches whose
  calls revert one by one. `AllBorrowersLoaded`, `ReservesLoaded`, `CategoriesLoaded`,
  `BestPoolKept`, `StartEnds`.
* **Two sources of one stream.** History by `eth_getLogs` and a subscription
  opened before it overlap; every event has to be applied once, in order.
  `ImplementsStream`, `MatchesChain`, `CursorNeverBack`, `EventuallyApplied`.
* **Batches of users.** Users are collected per transaction and handed over at
  three different places of the code. `NoUserForgotten`,
  `FlushedByTransaction`, `EventuallyComputed`.
* **Changes that concern many.** A price or an index is stored first, who has the asset is
  looked up afterwards. `SubscribersReached`, `CalculatedAgain`.
* **A position shared across requests.** Handlers add to it, workers replace it or load
  its E-mode late, each through a pointer it read earlier. `FollowsChain`,
  `EModeAgrees`, `SubscribedUnlessReplaced`.
* **Nobody owns a user.** Workers, log handlers, the oracle feeder and the watchdog touch
  the same user's heap item, with requests to a node between reading and
  writing. `HeapNotSafer`.
* **An array with positions in its items.** One swap that misses an `Index`, and a later call
  hits another user. `LookupAgrees`, `HeapOrdered`, `ImplementsMap`.
* **Silent losses.** A failed request, an attempt that failed and
  its cooldown drop work without a trace. `WatchdogRetries`.
* **One rotation for all.** Every request takes its node from one counter, and
  its attempts share one record. `AllNodesTried`, `AnswerKept`, `AnswerReturned`, `CallReturns`.
* **Amounts a contract elsewhere will check.** `Optimal`, `RecipeFits`, `TermsBalance`,
  `PanicsOnlyIfIncomplete`.
* **A transaction that may be sent twice or never.** `NoNonceGap`, `ProfitableIsSent`.

`PROJECT.json` lists the hazards at their lines. Those that do happen and that no property could rule out
name no property and have a note instead; the section on known limits describes them.

## Modules

| Module | Models | Extended or instantiated by |
|---|---|---|
| `EventStream` | what the log replay engine promises: a journal and its in-order application | `LogReplay` (refinement) |
| `LogReplay` | `log_replay_engine.go`, with chain, node and socket around it | `MCLogReplay`, `LogReplay_proofs` |
| `RiskEngine` | `risk_engine.go`, with the producers of tasks around it | `MCRiskEngine`, `RiskEngine_proofs` |
| `PriorityMap` | what the risk heap promises: users with their factors | `RiskHeap` (refinement) |
| `RiskHeap` | `models/risk.go` under `container/heap` and `updateHeap` | `MCRiskHeap`, `RiskHeap_proofs` |
| `PositionSync` | one user's position between handlers, workers, bootstrap and chain | `MCPositionSync`, `PositionSync_proofs` |
| `PriceFeed` | `oracle.go`, the subscribers of `store.go`, and the paths by which a user is calculated | `MCPriceFeed`, `PriceFeed_proofs` |
| `Strategy` | `strategy_engine.go`, as operators | `Liquidation` |
| `Liquidation` | `tx_executor.go` and the contract, with pool, exchange and nodes around them | `MCLiquidation`, `Liquidation_proofs` |
| `Startup` | `main.go` up to the running bot: fee cache, bootstrapper, Graph client, multicall reader | `MCStartup`, `Startup_proofs` |
| `RPCClient` | `rpc.go`, with nodes that answer anything | `MCRPCClient`, `RPCClient_proofs` |
| `MC...` | finite values of the constants | the `.cfg` files |
| `..._proofs` | theorems | |

An operator whose name begins with `Mut`, or with the name of the definition before it and an
underscore, is that definition with a plausible mistake; it serves to see that a property would notice.

### LogReplay

Everything the node emits is in the sequence `feed`, and a log is named by its
position there. `logBuffer` is not stored: it is the part of `feed` between
`popped` and `read`. `phase` follows `Start` through its synchronous part and
the live loop: `Subscribe`, `FetchLatestBlock`, one `FetchChunk` per request,
one `ReplayLog` per log, `FinishReplay`, then one `LiveLog` per message.
`ReadWS` and `ReaderDies` are the goroutine that reads the socket, `StartFails`
an error return of `Start`, `Stop` the end of the context. `historic` is a set of
fetched logs; the sort is the choice of the earliest one in `ReplayLog`.

Abstractions. A log has a block, an index, a user (or none, for a reserve's
event) and the removed flag; what a handler adds to the position is "the event
is applied", and `PositionSync` says what that is. A transaction is `TxSpan` consecutive indices of a block. The
handlers drop a log they cannot parse, or whose reserve has no index; this is
not distinguished. `queue` is a set. `Enqueue` hands a set of users over; with `QueueMayFill` it may drop any of
them, as the `default` branch of the code does when others have filled `taskQueue`, and `refused` remembers whom
until he is handed over again. The test `len(logBuffer) == 0` is
read in the step of the pop: a push in between is the same as a push before both.
The program starts at block `Anchor`, with an empty journal of later blocks that
grows while the bot starts.

The chain may be made untruthful by three constants: `Reorgs` (the head block
is replaced, once, by another of the same height: the withdrawn logs are sent
again with the removed flag, then the new ones), `LaggingNodes` (the node that
answers a request may be behind the head) and `LateAck` (the subscription may
take effect later than the sleep of one second in `Start`).

### RiskEngine

A health factor is one of four levels, `Under` 1.0, `Border` (up to 1.02), `Low`
(below 1.05) and `Safe`, which is all that the comparisons of the code tell
apart; `NoHF` is a computation that gives none. For each user, `chainHF` is the
factor on the chain, `localHF` the one its stored position, indices and prices
give, `seenHF` the chain's at `currentBlock`. A worker goes through an iteration
of `workerLoop` in the steps between which it holds no lock or waits for a
request:

| Action | Code |
|---|---|
| `Take` | receive from `taskQueue` |
| `Calculate` | `computeHFMath`, before and after the lazy load; notes `CalculatedAtBlock` |
| `LoadEMode` | `FetchUserEMode` and, if unknown, the category |
| `Verify` | `FetchUserPositionBatchAtBlock`, then `cancel()` |
| `StorePosition` | the fetched position replaces the stored one; is there a profitable recipe |
| `Send` | `SendLiquidation(verifyCtx, ...)` |
| `CoolDown` | `NextCheckAt` of the heap item, if there is one |
| `UpdateHeap` | `updateHeap` and the next iteration |

The users share `taskQueue`, so the task of one may be dropped because another fills it (`Enqueue`).
`Deliver` and `EnqueueChanged` are the two steps of a log handler or of the
oracle feeder (the state is stored under the lock, the user enqueued after it),
`WatchdogScan` and `WatchdogEnqueue` those of the watchdog. What a change makes of
the stored state is left open in `Deliver`, and in `Replaced` while a change of
the user is pending: the position data that would decide it are in `PositionSync`.

Environment constants: `RpcFails`, `Overflow` (a producer may find the queue full),
`PriceMoves` (a price changes without any log of the pool), `Interest` (time alone
lowers the chain's factor; that the debt grows faster than the collateral is an
assumption of the model) and `NewCategories` (a log may put a user in an E-mode
category the store does not know). The rounding by which the bot's arithmetic may
differ from the chain's by a unit is left out. A user's queue position is exact,
duplicates included. `ChainLevels` and `StoredLevels` bound the levels of each user on the chain and in the store.

Three variables record what happened, for the properties: `broadcast`; `refused`, the users whose last task was
dropped and whom no tick picked since; and `astray`, the users whose heap item may be wrong. There are four ways
into `astray`: a stored change whose task is dropped (`EnqueueChanged`), a request that fails (`LoadEMode`,
`Verify`), a second worker that takes the user (`Take`), and a position that gives a lower factor under the stored prices and
indices than the verification did (`StorePosition`). A worker that takes the user alone leads out of it. `HeapNotSafer` is about the
users outside, and so says that there is no fifth way.

### PriorityMap and RiskHeap

`PriorityMap` is what the callers of `updateHeap` may rely on: a map from users to factors below
the threshold; a call takes the lock (`Begin`) and has done what was asked for its user, and nothing else,
when it releases it (`End`). `RiskHeap` is the array behind it. Every call runs
under the store's write lock; it is taken apart into the swaps of `container/heap`, because it is there
that the `Index` fields have to be right. `op` is the call in progress: `Remove`, `Fix` and `Push` begin
one (a user with or without an item, a low factor or one that is nil or safe), `SiftDown`, `EndDown`,
`SiftUp`, `EndUp` are the loops of the library, `Finish` is `Pop` or `Push` of the item and the
lookup. `container/heap` is external and modelled from its documented algorithm. The refinement reads the
array: watched are the users found in it below `size`, with the factor of the item (`Watched`). A swap that loses an item, an
`Index` that leads `Fix` or `Remove` to somebody else's, or a pop of the wrong one is then a step the map does not allow.
Nothing in the code reads the order of the heap: the watchdog walks the whole array. So what the program
needs is `LookupAgrees` and `ImplementsMap`; `HeapOrdered` is what `README.md:77` of the repository advertises.

### PositionSync

One user, the chain with his logs (`logs`, and his position after each of them, `truth`), the handler at work and
the workers. A handler whose reserve has no index returns at once (`IndexMissing`, `PassOver`; `passed` records the reserves);
`handleReserveDataUpdated` gives the reserve its index before. A handler looks each reserve up in one locked step (`GetUserReserve`, which also
subscribes) and changes it in another (`handleSupply`, `handleWithdraw`, `handleBorrow`, `handleRepay`,
`handleCollateral`, `handleLiquidationCall` with its two reserves); `handleUserEModeSet` is one step. A worker reads position,
flag and block (`Calculate`), may ask for the E-mode (`FetchUserEMode`) and write it (`WriteEMode`), and may replace the position by
that of its block (`StorePosition`). The pointers held in between are `"live"` or, once the position was replaced,
`"orphan"`: a write through an orphan is lost. `SetCurrentBlock` follows the live loop; `GoLive` ends the replay, during
which `currentBlock` stays at the anchor. `Init` takes any start the bootstrapper can make (`Bootstrapped`), users who borrow
nothing at the anchor, and are therefore not loaded, included; a reserve with nothing but dust is left out, its flag with it.

A log has an amount of the token and the index the pool told with it (two of each for a liquidation). The handlers divide with
`RayDiv`, half up; the pool books an amount it may have rounded either way (`PoolScaled`). The two differ by at most one unit a log, and
`FollowsChain` bounds what that and the dust add up to: the position kept may exceed the chain's by one unit for each
log handled, and fall short of it by one unit and one dust for each (`Near`).

Abstractions. Between the index of a log and the log no other index of the reserve comes, as the pool emits them in one
transaction. `Dust` is cut off as the handlers and the bootstrapper do. The E-mode is fetched for "latest", the position for
a block, both truthfully. Whether a user is near liquidation depends on prices, which are not in this module: any
worker may calculate a user with debt, load and verify, or `Abandon`.

### PriceFeed

How a new price or index reaches the users who have the asset. The feeder asks the oracle (`FetchPrices`), stores the
changed prices one by one (`StorePrice`), then walks the changed assets (`FanOut`, `GetSubscribers`) and their
subscribers (`EnqueueTarget`). The handlers go on beside it: `GetUserReserve`, `MarkUserDirty`, `FlushDirtyUser`,
and, for a reserve, `SetGlobalIndex`, `FanOutIndex`, `EnqueueHolder`. A worker takes a user (`Take`), reads all values under one lock
(`Calculate`) and may replace the position (`ReplacePosition`) by one that has every reserve. `seen` is what the user's latest calculation read.

Abstractions. The queue is a set, from which any task may be taken; `Enqueue` may find it full, then the user is
`lost` until he is calculated again for another reason. Time is left out: a request that fails is a tick at which nothing
happens, and `FetchPrices` waits for the round before it, as the loop of `Start` does. The recalculation after the
lazy E-mode load, which only reads later values, is left out.

### Strategy and Liquidation

`Strategy` is `CalculateOptimalRecipe` as operators on integers that truncate where the code does, in the order of the
code: balances (`DebtOf`, `CollOf`), the cap (`MaxLiquidatableDebt`), the terms of a pair (`Terms`), the rule about what is left (`LeavesEnough`), the
profit (`Profit`), and the two loops over the reserves in an order that Go leaves open (`Orders`), which pass over those that
do not match. A price that the store lacks is 0. What the store has of a known E-mode category may be less than what the pool has:
`StoredCollaterals` is empty if the call for the bitmap failed, `StoredBonus` is 0 if the answer could not be decoded.
`minProfitAmount` is 0 in the code and left out.

`Liquidation` has any number of workers in `SendLiquidation`, one action per request and outcome: `EstimateGas` (a
revert is final), `PendingNonceAt` (what a node knows of the transactions accepted), `SuggestGas`, `Broadcast` (accepted, with
the answer received or lost), `BroadcastFails`, and `RequestFails`, each followed by `NextAttempt`. `Mine` executes
a transaction: `executeArbitrage` succeeds as a whole or not at all, and may fail for any reason. `rescueTokens`, gifts, a user who
repays and prices that move are the environment. The pool (`liquidationCall`) shares no operator of the strategy's choice of
amounts: it is paid at most what the caller offers and all or half of the debt, gives the collateral that is worth, as far as there is any,
and keeps all of the bonus or nothing of it; its thresholds are one per asset. The exchange (`Swaps`) takes all
or half of what it is offered and answers with nothing, a fair amount or one within the slippage; what it does not take stays in the contract
(`HeldAfter`), where the next call or `rescueTokens` finds it.

No property says that the contract ends up empty: it need not, and the code does not claim it.

The workers run here under any context. As the code stands, `verifyCtx` is already cancelled
(`risk_engine_send`), and every call ends through `RequestFails`: that behaviour is one of those checked.

### Startup

`stage` follows `main` from `FetchReservesList` to the running bot; each request may end the program (`Dies` is
`log.Fatal`). `BuildCachePools` and `BuildCacheBalances` are the two batches of the fee cache, with the second
answer matched by position with the pools found by the first (`MetaOf`). `BatchFetchReserveData` gets one result per
asset, in the order asked (`Answers`), stores each under the asset at its position and skips those that failed (`DecodeResults`). Every range of addresses has a goroutine (`fetchers`): `FetchPage`, `QueryFails` with its retries, `BadAnswer`,
`Receive`; the first error cancels the others, an empty page ends a range. `BatchFetchEModeCategories` reads two answers per category, in any order
of the categories. `reverted` records which calls failed, so that the properties can say that nothing else is
missing. When the log engine's `Start` fails later, the bot goes on with an error in its log; that is `StartFails` of `LogReplay`.

### RPCClient

A caller is a goroutine inside `CallWithRetry`. `Call` enters it, `GetNextURL` takes
a node from the shared counter (after the pause, which nothing shortens), `Fail` and
`Answer` are the ways an attempt ends, `Expire` is the end of the context. The counter
is kept modulo the number of nodes. An answer is reduced to which of the fields `result`
and `error` it has, all that `json.Unmarshal` and the code after it tell apart;
`ErrorAfter` is what decoding into a used record does. The statuses below 500 other than
429 are not tested by the code, so such a body, `"other"`, may end a call with an empty
result and no error (the callers then fail to decode it). `tried`, `answered`, `errored` and
`disturbed` only record the history of a call for the properties. The uint64 wrap of
the counter, after 2^64 requests, is left out.

The other modules see of all this a request that is answered or fails; that it
ends is `CallReturns`.

## Runs

| Run | Instance | Checks | Result |
|---|---|---|---|
| `log_replay` | blocks 2 to 4 after anchor 1, chunks of 2 blocks, buffer of 2, up to 2 logs a block, one user | `TypeOK`, `MatchesChain`, `ImplementsStream`, `FlushedByTransaction`, `EventuallyApplied` | holds |
| `log_replay_untruthful` | blocks 2 and 3, one log a block, two users of whom one is subscribed; reorganisation, lagging nodes, late subscription, full queue | `NoUserForgotten`, `CursorNeverBack`, `EventuallyComputed` | holds |
| `risk_engine` | two users, one worker, queue of 1 for both; requests fail, queue overflows | `WatchdogRetries` | holds |
| `risk_engine_heap` | one user, two workers, queue of 1, all four levels in the store; requests fail, queue overflows, prices, interest and E-modes move | `TypeOK`, `HeapNotSafer` | holds |
| `risk_engine_send` | one worker, nothing fails | `ProfitableIsSent` | violated |
| `risk_heap` | six users, factors 0 and 1, threshold 2 | `TypeOK`, `LookupAgrees`, `HeapOrdered`, `ImplementsMap` | holds |
| `position_sync` | two assets, one worker, all kinds of events, two logs in two blocks, dust of 1, indices that divide unevenly | `TypeOK`, `FollowsChain`, `EModeAgrees`, `SubscribedUnlessReplaced` | holds |
| `price_feed` | one user, two assets, one worker; each asset gets its price and a second index | `TypeOK`, `SubscribersReached`, `CalculatedAgain` | holds |
| `liquidation` | two workers, eight positions, two price lists; two calls, two attempts, two nonces | `TypeOK`, `Optimal`, `RecipeFits`, `PanicsOnlyIfIncomplete`, `TermsBalance`, `NoNonceGap` | holds |
| `startup` | three reserves, two fees, three ranges with three, two and no borrowers, pages of two, two tries, one revert per batch | `TypeOK`, `AllBorrowersLoaded`, `CategoriesLoaded`, `ReservesLoaded`, `BestPoolKept`, `StartEnds` | holds |
| `rpc_client` | two callers, three nodes, three attempts | `TypeOK`, `AllNodesTried`, `AnswerKept`, `CallReturns` | holds |
| `rpc_client_sticky` | one caller, three nodes, three attempts | `AnswerReturned` | violated |

**Bounds.**
`LogReplay`: three blocks after the anchor and chunks of two blocks give a full
chunk, a shorter last one, a boundary block that may or may not have logs, and
blocks that arrive during the replay. Two logs a block with transactions of one
or two logs make a duplicate with the same block and another index. A buffer of two
fills up during the replay and blocks the reader. `MaxBlock`, `MaxIndex` and
`MaxLogs` bound the chain; everything else is finite by itself.
`RiskEngine`: users interact only through the queue. Two who share a queue of one show that the task of one is
dropped because of the other, again and again; there each of them keeps to one level (`FewChain`, `FewStored`: one liquidatable,
one at the border of what the watchdog looks for), in and out of the heap by failing requests. For the heap of a
single user it does not matter who filled the queue, so `risk_engine_heap` has one user, with all levels a verification tells apart on
the chain and all in the store, and two workers who may both have him; `AnyWorker` permutes them. The theorem covers any number of both.
`RiskHeap`: six items are a tree of three levels, in which removing an inner item
may move the last item up into another branch; two factors suffice for every outcome of a comparison.
`PositionSync`: two logs and a worker between their steps are enough for every way a write is lost or done twice.
An amount of 4 at an index of 3/2 is 8/3: `RayDiv` makes it 3, the pool 2, except that
for the debt covered by a liquidation it is 3 in both (`MCRoundings`; the theorem covers all combinations); a collateral or debt of 3 and a dust of 1 make a rest that is cut off.
`Starts` are the positions at the anchor: nothing, collateral only, debt in another asset, and one with a reserve of nothing but dust. At the start no
reserve has an index (`StartIndexed`), so each log may be the first with one or be passed over. `Symmetry` permutes the assets, about which no property singles one out.
`PriceFeed`: users share only the queue, which is a set here; a second asset makes the order of the loops matter. `MaxIndex` bounds the indices.
`Liquidation`: the positions are chosen for the cases: safe, half, or all may be repaid, two pairs, too little left, collateral
that does not suffice, with and without a rest from rounding, and categories the store knows, does not know, has without bitmap and has without bonus. `MaxCalls`, `MaxNonce` and `maxRPCRetries` bound the workers (the code has more
attempts; two are a first and a last one). `MCSymmetry` permutes the workers.
`Startup`: a full page, a shorter one and an empty range; `MaxReverts` bounds the calls of a batch that fail.
`RPCClient` makes six attempts in the
code; three of them over three nodes is the boundary case, one attempt less misses a node.

**Deadlock.** `LogReplay`, `PositionSync` and `Liquidation` end with their bounded chain or calls, `Startup` with a
running, stopped or dead bot; their configurations do not check deadlock. `RiskEngine`, `RiskHeap`, `PriceFeed` and
`RPCClient` never end, and deadlock is checked.

**Fairness.** `LogReplay`: weak fairness of every step of `Start`, of the reader
while it lives and of the workers, which are goroutines that wait only for each other
or for answers, and of the node that takes up a subscription; requests are
answered or fail at a timeout of the HTTP client. No fairness for the chain, for failures, for `Stop`.
`RiskEngine`: weak fairness of the workers, of the producers that hold a user,
of what is on its way, of the watchdog's ticker and of the end of a cooldown.
With `Overflow` false a producer waits for room instead of dropping the task,
which is how a queue of 50000 that never fills up behaves on a small instance.
`PriceFeed`: weak fairness of the loops of feeder and handlers and of a worker's steps; strong fairness of taking each task,
for the channel is served in order, and of flushing each user, which happens between any two logs
though the next log interrupts it in the model. None for the oracle and for new logs.
`Startup`: weak fairness of `main` and of each goroutine; `StartEnds` needs no timeout.
`RPCClient`: weak fairness of the pause and of the attempt, which `http.Client.Timeout` ends;
none for new calls and for contexts. `RiskHeap`, `PositionSync` and `Liquidation` check safety only and assume none.

## What the violated runs show

* `risk_engine_send`: `cancel()` precedes `SendLiquidation(verifyCtx, ...)` (`risk_engine.go:135`, 172): no liquidation
  is ever broadcast.
* `rpc_client_sticky`: attempt 1 finds an error, attempt 2 a result without an error
  field. `result.Error` still holds the first one, the result is dropped, and so is every
  later one. `AnswerKept`, which holds, says that this is the only way to lose a result.

## Known limits of the program

What the properties above leave out on purpose, with the change of a configuration that shows it where there is one.

* **Reorganisations and lagging nodes.** `processLog` ignores a removed log (`log_replay_engine.go:125`), and the logs of the
  replacing block are below the cursor; a node behind the head answers an incomplete history. `LogReplay.cfg` with
  `Reorgs = TRUE` or `LaggingNodes = TRUE` violates `MatchesChain`.
* **Two workers on one user** (`risk_engine.go:212`). Worker 1 computes the user as safe, a log lowers its
  factor, worker 2 computes and records the low factor, worker 1 records the old one and removes the item.
  In `RiskEngineHeap.cfg` this puts the user `astray` in `Take`.
* **A price without a log** (`risk_engine.go:134`). The worker finds the local factor below 1.0 under the new price and asks the chain,
  but at the block of the last pool log, before the price; the answer is a safe factor, which removes the user from
  the heap. In `RiskEngineHeap.cfg` this puts the user `astray` in `StorePosition`. `README.md:52` of the repository
  speaks of the current factor.
* **A request that fails** (`risk_engine.go:121`, 137). A failed E-mode request removes the user from the heap though nothing is known of him;
  after a failed verification the item keeps an older factor. `astray` in `LoadEMode` and `Verify`. A user without an item is not
  retried by the watchdog.
* **Interest** (`risk_engine.go:73`). The watchdog recomputes with stored indices: interest accrued since the last `ReserveDataUpdated` is
  not seen, contrary to `README.md:77`.
* **Unsubscribed holders** (`store.go:142`). A fetched position has a reserve for every asset, so the first supply or borrow of an asset after it
  subscribes nobody, and its prices do not reach the user. `HoldersReached` in `PriceFeed` states `README.md:75`, that a change reaches
  all who hold or borrow the asset; as an invariant of `PriceFeed.cfg` it is violated. So is `SubscribedUnlessReplaced` without its condition.
* **A task lost to a full queue** (`risk_engine.go:447`). A price already stored is not announced again: the user waits for the next change (`lost` in `PriceFeed`, `refused` in `LogReplay`,
  `astray` in `RiskEngine`). Only a user in the heap is picked again, by the next tick (`WatchdogRetries`).
* **Replaced positions.** `FollowsChain` says when a replaced position is right: its block is that of the logs handled, and no handler is
  between its two steps. Otherwise effects are lost or doubled until the next replacement. During the replay the block is that of the anchor.
* **Dust at the anchor** (`bootstrapper.go:109-111`). A reserve with nothing but dust is not stored, and if it is enabled as collateral the flag
  is lost with it: what is supplied later counts as unused until a verification. `FollowsChain` excepts these reserves (`SkippedAtAnchor`).
* **Exhausted collateral** (`strategy_engine.go:154-162`). The debt derived backwards from all collateral may buy one unit less of it (collateral 409 with
  unit 10, price 3 and a bonus of 110 % gives a debt of 111, which buys 407), and the pool refuses to leave so little. `TermsBalance` bounds the
  difference by the units the divisions leave over; it does not say that the pool accepts.
* **Logs before the first index** (`log_replay_engine.go:238-241`). A log of a reserve that has no index in the store is passed over. `FollowsChain` excepts
  these reserves until the position is replaced (`passed`).
* **Debt and collateral the same asset** (`strategy_engine.go:115-123`). The recipe may win, and the swap of a token for itself reverts.
* **Sent twice, or not mined** (`tx_executor.go:139-173`). A lost answer makes the retry broadcast again under a new nonce; two workers may sign with one nonce. A nil
  error promises acceptance by a node and not more. What cannot happen is that a nonce stays unused below one that is taken (`NoNonceGap`).
* **Tokens left in the contract** (`BaseAaveV3Liquidator.sol:98-115`). Profit is the whole balance minus the loan: gifts, and collateral that an earlier swap
  did not take, can hide a loss.
* **Categories.** `SetUserEMode` marks a category as fetched that the store may not have (`log_replay_engine.go:388`), one whose answer
  cannot be decoded is kept with a bonus of zero (`multicall.go:262`), and one whose bitmap call failed with an empty bitmap
  (`multicall.go:278-292`). All three may end in the division by zero of `Panics`; `PanicsOnlyIfIncomplete` says that nothing else does.
* **Events not subscribed.** Repayment with aTokens and transfers of aTokens change the collateral unseen (`log_replay_engine.go:339`).

`HeapNotSafer` rests on `Send` failing: a broadcast that succeeded would
record a factor of 100 and remove a user who is still liquidatable in the store. This is
the code's "optimistic lock" (`risk_engine.go:186`); with a repaired context it will need a property of its own.

## Proofs

For every value of the constants that satisfies the module's assumption.

`LogReplay_proofs`:

* `TypeCorrect`, `NeverForgotten`, `CursorMonotone` hold for every behaviour of the nodes and of
  the chain. `NoUserForgotten` is inductive given types. `CursorMonotone` uses
  `CursorInv`: the history that remains to be replayed is not below the cursor, and
  once live a log that is not a duplicate is above it.
* `TransactionsWhole`, for every behaviour of the nodes too: `TxInv` says that during the replay the transaction at hand is that of the
  cursor. With `CursorInv` the earliest log left lies between the cursor and every other one; so when it begins another
  transaction, none of them is in the old one, for transactions are numbered in the order of the logs (`Numbered`).
* `ChainMatched` and `StreamImplemented` assume `Truthful`: no reorganisation, no
  lagging node, the subscription in time. The inductive invariant `Parts` has six
  conjuncts. `ChainInv`: the feed is the sorted sequence of the logs of the chain's
  blocks, none withdrawn. `PrefixInv`: what was applied is a prefix of it, the key to both
  theorems. `StartInv`: until `bWs` is known nothing is applied, and nothing below `bWs` was missed
  by the subscription after it. `FetchInv`: the fetched logs are those of the blocks below
  `fetchFrom`, each once. `ReplayInv`: replayed and remaining logs together are the
  history. `LiveInv`: what follows the applied prefix in the feed is what `isDuplicate`
  lets pass. `StreamImplemented` maps `feed` to the journal and the applied positions to the
  applied events; every step is `Emit`, `Apply` or a stutter.

`RiskEngine_proofs`:

* `TypeCorrect` for any number of workers and any failure; its invariant adds `InHand`,
  what a worker carries between its steps.
* `HeapSafe` for any number of users and workers and whatever the environment does. `HeapNotSafer` alone is not inductive:
  it says nothing of a user a worker holds, and the step that releases the user must establish it. The invariant `HeapInv` adds that a user
  outside `astray` is in the hands of at most one worker (`Alone`), and that what this worker is about to record agrees with the stored
  state, or another change of the user is pending (`Settled`).

`RiskHeap_proofs`, for every number of users and factors:

* `TypeCorrect`, `LookupCorrect`, `Ordered` from the invariant `TypeOK`, `Inverse`, `CallInv`, `OrderInv`. `Inverse`: at every
  swap, not only when the lock is free, `heap` and `index` are inverse to each other. `CallInv`: where in the array the call in progress is, and on which side of the lookup
  its user stands. `OrderInv`: the heap order holds everywhere except at the item being
  sifted, whose children are in order with its parent; this is what lets one round of a loop restore it.
* `MapImplemented`: the call that takes the lock is a `Begin`, `Finish` is its `End`, and the swaps in between leave the map alone. That a
  pop takes the item of the user of the call, and no other, is `Inverse` with `CallInv`; that a swap leaves every user in the array is `Inverse`.

`PositionSync_proofs`, for any number of assets and workers, and all amounts:

* `Subscribed`, from `LogsOK` (what a log may name), `HeldOK` (before the first replacement the reserves
  looked up are in the position) and `SubsOK` (before the first replacement all reserves of the position are subscribed).
* `Types`, `Following` and `EModeFollows`, from `IInv`, in which no part is inductive without the others. `ChainOK`: the logs are in the order of their
  blocks, `truth` follows them one by one, and only a `UserEModeSet` changes the category; so the position
  fetched for a block is the one after the logs up to that block (`LogsUpTo`). `PointersOK`: while the position is sound, no
  handler holds a pointer into an older one, and what a worker was told covers no log that does not exist yet. `FollowsChain` survives a handler because
  `RayDiv` and the pool's division differ by at most one unit (`RayDiv` is half up, the pool's one down or up), and what is cut off at the end is
  at most one dust (`CloseFacts`); the difference allowed grows by as much with each log handled (`NearGrows`, `HandledFollows`). A log that is
  passed over leaves the other reserves alone (`ChainStays`).

`PriceFeed_proofs`: `TypeCorrect`, with `HandlerInv` (the handler of a user has an asset, and while it has one nobody is left to be announced), and `AllReached`. `SubscribersReached` is inductive with these; it is shown for one user and one asset (`Reached`), action by action: a step
that stores a value puts the asset on the way, a step that takes something off the way puts the next
stage on it, and only a calculation makes the user up to date.

`Liquidation_proofs`:

* `RecipesFit`, for all prices, units, indices, bonuses and fees, from lemmas about division that truncates: what is covered is
  within the debt (`CoverWithinLimit`, `LimitWithinDebt`), the fee within what was taken (`FeeWithin`).
* `BestPair`: the order walked is an injection of as many places as there are reserves, so it meets all of them
  (`OrderMeetsAll`); after any number of turns the best recipe so far is the best of the pairs seen (`BestOf`), first for the inner
  loop (`InnerBest`), then for the outer one (`OuterBest`, `CalculationBest`).
* `Balanced`: collateral for a debt is truncated twice (`TruncatedTwice`), the debt derived back from all collateral once and raised by one
  (`TruncatedThenUp`); in both branches the remainders bound the difference (`Balances`).
* `Types`: `TypeInv` adds to `TypeOK` that a call in progress has an order (`HasOrder`). What the pool may take off stays natural
  (`SettledTyped`, `LiquidatedTyped`), and so do the exchange's amounts (`SwapTyped`) and the sum of the debts (`TotalNat`).
* `NoncesInOrder`, for any number of workers, attempts and lost answers, from `NonceInv`: below the nonce a worker holds, as below an accepted
  one, none is unused (`Gapless`). It comes from a node's answer (`NonceOrigin`), which, however far the node lags, counts transactions it knows, and accepted
  transactions stay accepted (`GaplessStays`).
* `NoPanic`, from `Entitled`: what is used as collateral has a bonus of its own or is in the user's category, which no step changes; if the store
  has of this category what the pool has, the bonus is that of the pool.

The sums and the loops are folds over finite sets. What is said of them is shown by the least counterexample
(`MinNat`, `Induction`): the sets of which a statement holds contain the empty one and, with every set
from which an element can be taken to get one of them, that set too (`SetInduction`, `Removal`). This is why `StrategyAssumption` has the assets finite.

`Startup_proofs`, for all ranges, pages, retries, reserves, fees and orders of answers:

* `BorrowersLoaded`, `ConfigsLoaded`, `EModesLoaded`. `FetchInv` is the
  core: what a goroutine has found are the borrowers of its range up to its cursor, and it is all of them once it has answered
  without an error. `UsersInv`, `ReservesInv`, `CategoriesInv`, `RevertedInv` carry this to the running bot.
* `BestPool` and `Types`, from `TypeInv`. The pools found are in the order of the questions: each place belongs to exactly one question
  (`PlacesTaken`, for the rank is an injection into as many places), so every position of the second answer is that of one pool, noted once
  (`PoolsOK`). Among the pools of a pair that answered there is a first with the largest balance (`FirstLargest`), and a pool belongs to a pair whichever
  of its assets comes first (`KeyMatches`). `FeesOK` carries the choice through the rest of the start. The assumption lists reserves and fees without repetition, as Aave and the code do.

`RPCClient_proofs`, for every number of callers, nodes and retries:

* `TypeCorrect` bounds the index and the attempts.
* `EveryNodeTried`: the invariant `TriedInv` says that the nodes an undisturbed call took
  are the last ones before the counter (`Back`); going back N of them reaches every
  node (`BackReaches`), and taking one more shifts them by one (`BackShifts`).
* `ResultKept`: `RecordInv` relates the reused record to the answers so far.

Every safety property of a passing run is the statement of a theorem, those of `ChainMatched` and `StreamImplemented` under the
assumption named above, all others without one. Only model-checked is liveness (`EventuallyApplied`, `EventuallyComputed`, `WatchdogRetries`, `CalculatedAgain`,
`StartEnds`, `CallReturns`): fairness and `ENABLED` are out of the prover's reach.

## Not modelled

* Health factors as numbers: the sums of `computeHFMath` are levels in `RiskEngine`. Formatting and parsing in `pkg/math` and `pkg/conv`.
* The bit fields of a configuration, ABI encoding, and answers of a batch that cannot be decoded.
* Gas amounts, signing, who may call the contract (the owner alone does).
* Time: the ticker of the oracle, pauses, timeouts appear as steps that may or may not happen.
* The state snapshot, which nothing reads back, logging, environment variables, deployment scripts and the template contract.

`PROJECT.json` gives the reason for each component.

## Plan

1. `EventStream`, `LogReplay`, `RiskEngine`, `RPCClient` with their proofs: done.
2. `PriorityMap`, `RiskHeap` and the refinement, proved: done.
3. `PositionSync`, `PriceFeed`: the store between handlers, workers and feeder: done.
4. `Strategy`, `Liquidation`: from the recipe to the profit: done.
5. `Startup`: fee cache and bootstrap: done.
6. Open: the arithmetic of the health factor; that truncating twice never moves it across 1.0 is a lemma about division like those of
   `Liquidation_proofs`.
