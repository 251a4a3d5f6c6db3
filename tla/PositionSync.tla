---------------------------- MODULE PositionSync ----------------------------
(***************************************************************************)
(* The stored position of one user: the log handlers that add to it        *)
(* (log_replay_engine.go), the workers that replace it by a fetched one or *)
(* load its E-mode late (risk_engine.go, user_data_on_chain.go), and the   *)
(* reverse index by which changes of an asset reach the user (store.go).   *)
(*                                                                         *)
(* A handler looks its reserve up under the lock and changes it under a    *)
(* second one; a worker holds the position across requests.  The pointers  *)
(* in between are "live" while they point into the stored position and     *)
(* "orphan" once it was replaced.  Balances are scaled ones, in units of   *)
(* which the code cuts Dust off.  Positions of other users are separate    *)
(* objects of the same store.                                              *)
(*                                                                         *)
(* A log tells an amount of the token, which the handler divides by the    *)
(* index the pool told just before it in a ReserveDataUpdated; the pool    *)
(* may have rounded its own scaled amount either way.                      *)
(***************************************************************************)
EXTENDS Integers, Sequences

CONSTANTS
    NoAsset,        \* a UserEModeSet is about none
    Assets,         \* the reserves of the pool, all with a configuration
    Amounts,        \* amounts of one log
    RAY,            \* the unit of the indices
    Indices,        \* the indices of the reserves
    Roundings,      \* whether the pool rounds the amount and the debt covered of a log up
    StartIndexed,   \* the sets of reserves that may have an index at the anchor block
    Starts,         \* positions at the anchor block: <<coll, debt>> of every asset
    Categories,     \* E-mode categories, without 0
    Kinds,          \* the events that happen
    Workers,
    Dust,           \* DustThreshold
    Anchor,         \* anchorBlock
    MaxBlock,       \* bound of the chain
    MaxLogs         \* bound of the user's logs

AllKinds == {"supply", "withdraw", "borrow", "repay", "enable", "disable", "emode", "liquidation"}

ASSUME SyncAssumption ==
    /\ NoAsset \notin Assets
    /\ Amounts \subseteq Nat
    /\ RAY \in Nat \ {0} /\ Indices \subseteq Nat \ {0}
    /\ Roundings \subseteq BOOLEAN \X BOOLEAN
    /\ StartIndexed \subseteq SUBSET Assets
    /\ Starts \subseteq [Assets -> Nat \X Nat]
    /\ Categories \subseteq Nat \ {0}
    /\ Kinds \subseteq AllKinds
    /\ Dust \in Nat
    /\ Anchor \in Nat \ {0}
    /\ MaxBlock \in Nat
    /\ MaxLogs \in Nat

VARIABLES
    \* The chain.
    logs,       \* the user's logs after the anchor, those of block head + 1 not yet visible
    truth,      \* truth[k + 1] is the user's position on the chain after k logs
    head,
    \* The log replay engine.
    applied,    \* the number of logs handled
    live,       \* the history is replayed
    held,       \* the reserves the handler at work has looked up, in order
    \* The store.
    current,    \* currentBlock
    pos,        \* userPositions[user]
    subs,       \* the assets a with user in assetSubscribers[a]
    indexed,    \* the reserves with an entry in globalIndices
    \* The risk engine.
    work,       \* what each worker carries
    \* History, for the properties.
    sound,      \* the stored position was complete when it entered the store
    passed,     \* reserves one of whose logs the handlers left out, for want of an index
    overtaken,  \* a UserEModeSet lies between the logs a request covered and those handled
    replaced    \* the position was replaced by a fetched one

chainVars == <<logs, truth, head>>
indices == <<indexed, passed>>
vars == <<logs, truth, head, applied, live, held, current, pos, subs, work, indices, sound, overtaken,
          replaced>>

Log == [block : Nat, kind : AllKinds, asset : Assets \cup {NoAsset},
        debt : Assets \cup {NoAsset}, amount : Nat, cover : Nat, index : Nat, debtIndex : Nat]
ChainPosition == [coll : [Assets -> Nat], debt : [Assets -> Nat], used : [Assets -> BOOLEAN],
                  emode : Nat]

\* The number of logs in the blocks up to b.
LogsUpTo(b) == CHOOSE k \in 0 .. Len(logs) :
                   /\ \A i \in 1 .. k : logs[i].block <= b
                   /\ k < Len(logs) => logs[k + 1].block > b

EModeSetBetween(j, k) ==
    \E i \in 1 .. Len(logs) : logs[i].kind = "emode" /\ (i \in (j + 1) .. k \/ i \in (k + 1) .. j)

Zero == [a \in Assets |-> 0]

\* A pointer into the stored position is worthless once the position is replaced.
Orphaned(p) == IF p = "live" THEN "orphan" ELSE p
-----------------------------------------------------------------------------
\* The chain (external).

\* What the pool makes of an amount of the token at an index.
PoolScaled(n, index, up) == (n * RAY + (IF up THEN index - 1 ELSE 0)) \div index

\* The user's position after one more event, s and t the scaled amounts.
After(p, l, s, t) ==
    CASE l.kind = "supply" -> [p EXCEPT !.coll[l.asset] = @ + s]
      [] l.kind = "withdraw" -> [p EXCEPT !.coll[l.asset] = @ - s]
      [] l.kind = "borrow" -> [p EXCEPT !.debt[l.asset] = @ + s]
      [] l.kind = "repay" -> [p EXCEPT !.debt[l.asset] = @ - s]
      [] l.kind = "enable" -> [p EXCEPT !.used[l.asset] = TRUE]
      [] l.kind = "disable" -> [p EXCEPT !.used[l.asset] = FALSE]
      [] l.kind = "emode" -> [p EXCEPT !.emode = l.amount]
      [] OTHER -> [p EXCEPT !.coll[l.asset] = @ - s, !.debt[l.debt] = @ - t]

\* What the pool lets happen to the user.
Allowed(p, l, s, t) ==
    /\ l.kind \in {"withdraw", "liquidation"} => s <= p.coll[l.asset]
    /\ l.kind = "repay" => s <= p.debt[l.asset]
    /\ l.kind = "borrow" => \E a \in Assets : p.coll[a] > 0
    /\ l.kind \in {"enable", "disable"} => p.coll[l.asset] > 0 /\ p.used[l.asset] = (l.kind = "disable")
    /\ l.kind = "liquidation" => t <= p.debt[l.debt]

\* The amounts an event of a kind carries; a UserEModeSet carries the category.
Numbers(kind) ==
    IF kind = "emode" THEN Categories \cup {0}
    ELSE IF kind \in {"enable", "disable"} THEN {0} ELSE Amounts

\* The next block has one more log of the user; the indices are those the pool told in the
\* same transaction.
Emit(kind, a, d, n, m, i, j) ==
    LET l == [block |-> head + 1, kind |-> kind, asset |-> a, debt |-> d, amount |-> n, cover |-> m,
              index |-> i, debtIndex |-> j]
        p == truth[Len(truth)]
    IN  /\ head < MaxBlock
        /\ Len(logs) < MaxLogs
        /\ n \in Numbers(kind)
        /\ IF kind = "liquidation" THEN d # NoAsset /\ m \in Amounts ELSE d = a /\ m = n
        /\ kind = "emode" <=> a = NoAsset
        /\ logs' = Append(logs, l)
        /\ \E r \in Roundings :
              LET s == PoolScaled(n, i, r[1])
                  t == PoolScaled(m, j, r[2])
              IN  Allowed(p, l, s, t) /\ truth' = Append(truth, After(p, l, s, t))
        /\ UNCHANGED <<head, applied, live, held, current, pos, subs, work, indices, sound, overtaken,
                       replaced>>

Mine ==
    /\ head < MaxBlock
    /\ head' = head + 1
    /\ UNCHANGED <<logs, truth, applied, live, held, current, pos, subs, work, indices, sound, overtaken, replaced>>
-----------------------------------------------------------------------------
\* The log replay engine.

\* The history up to a block is replayed; only the live loop calls SetCurrentBlock.
GoLive ==
    /\ ~live
    /\ held = <<>>
    /\ \E b \in Anchor .. head : applied = LogsUpTo(b)
    /\ live' = TRUE
    /\ UNCHANGED <<chainVars, applied, held, current, pos, subs, work, indices, sound, overtaken, replaced>>

\* SetCurrentBlock for a log of whatever user, possibly a duplicate.
SetCurrentBlock(b) ==
    /\ live
    /\ held = <<>>
    /\ b \in Anchor .. head
    /\ applied >= LogsUpTo(b - 1)
    /\ b > current
    /\ current' = b
    /\ UNCHANGED <<chainVars, applied, live, held, pos, subs, work, indices, sound, overtaken, replaced>>

\* The log processLog is at.
l == logs[applied + 1]

Popped ==
    /\ applied < Len(logs)
    /\ l.block <= head
    /\ live => current >= l.block

\* handleReserveDataUpdated: the reserve has an index from now on.  That it is the one the
\* log was made with is in the log's field index; one that comes earlier, with the log of
\* another user, makes no difference before this log.
handleReserveDataUpdated(a) ==
    /\ Popped
    /\ a \in {l.asset, l.debt} \ indexed
    /\ indexed' = indexed \cup {a}
    /\ UNCHANGED <<chainVars, applied, live, held, current, pos, subs, work, passed, sound, overtaken,
                   replaced>>

\* The logs that tell amounts: their handlers need the index of each reserve.
IndexMissing ==
    /\ l.kind \in {"supply", "withdraw", "borrow", "repay", "liquidation"}
    /\ ~({l.asset, l.debt} \subseteq indexed)

\* The handler returns before it looks up a reserve.
PassOver ==
    /\ Popped
    /\ IndexMissing /\ held = <<>>
    /\ applied' = applied + 1
    /\ passed' = passed \cup {l.asset, l.debt}
    /\ UNCHANGED <<chainVars, live, held, current, pos, subs, work, indexed, sound, overtaken, replaced>>

\* An amount of the token as a scaled one, rounded half up.
RayDiv(a, b) == (a * RAY + b \div 2) \div b

\* The reserves a handler looks up, in its order.
Reserves == IF l.kind = "liquidation" THEN <<l.debt, l.asset>> ELSE <<l.asset>>

\* A slip: a reserve is subscribed only together with a new position.
MutGetUserReserve ==
    /\ Popped
    /\ l.kind # "emode" /\ ~IndexMissing
    /\ Len(held) < Len(Reserves)
    /\ LET a == Reserves[Len(held) + 1]
       IN  /\ pos' = [pos EXCEPT !.known = TRUE, !.has = @ \cup {a}]
           /\ subs' = IF ~pos.known THEN subs \cup {a} ELSE subs
    /\ held' = Append(held, "live")
    /\ UNCHANGED <<chainVars, applied, live, current, work, indices, sound, overtaken, replaced>>

\* GetUserReserve, called by a handler: creates what is missing, subscribes a reserve it
\* creates.
GetUserReserve ==
    /\ Popped
    /\ l.kind # "emode" /\ ~IndexMissing
    /\ Len(held) < Len(Reserves)
    /\ LET a == Reserves[Len(held) + 1]
       IN  /\ pos' = [pos EXCEPT !.known = TRUE, !.has = @ \cup {a}]
           /\ subs' = IF a \notin pos.has THEN subs \cup {a} ELSE subs
    /\ held' = Append(held, "live")
    /\ UNCHANGED <<chainVars, applied, live, current, work, indices, sound, overtaken, replaced>>

\* A log of one of these kinds whose reserves are looked up.
Ready(kinds) ==
    /\ Popped
    /\ l.kind \in kinds
    /\ Len(held) = Len(Reserves)

Handled ==
    /\ applied' = applied + 1
    /\ held' = <<>>
    /\ UNCHANGED <<chainVars, live, current, subs, work, indices, sound, overtaken, replaced>>

\* Negative and tiny balances become zero.
Clean(x) == IF x <= Dust THEN 0 ELSE x

\* A change of the reserve behind the i-th pointer, lost if the pointer is an orphan.
Through(i, p) == IF held[i] = "live" THEN p ELSE pos

handleSupply ==
    /\ Ready({"supply"})
    /\ pos' = Through(1, [pos EXCEPT !.coll[l.asset] = @ + RayDiv(l.amount, l.index)])
    /\ Handled

\* A slip: a balance within the dust is left to the next event, which starts from zero.
MutWithdraw ==
    /\ Ready({"withdraw"})
    /\ pos' = Through(1, [pos EXCEPT !.coll[l.asset] = Clean(@) - RayDiv(l.amount, l.index)])
    /\ Handled

handleWithdraw ==
    /\ Ready({"withdraw"})
    /\ pos' = Through(1, [pos EXCEPT !.coll[l.asset] = Clean(@ - RayDiv(l.amount, l.index))])
    /\ Handled

handleBorrow ==
    /\ Ready({"borrow"})
    /\ pos' = Through(1, [pos EXCEPT !.debt[l.asset] = @ + RayDiv(l.amount, l.index)])
    /\ Handled

handleRepay ==
    /\ Ready({"repay"})
    /\ pos' = Through(1, [pos EXCEPT !.debt[l.asset] = Clean(@ - RayDiv(l.amount, l.index))])
    /\ Handled

\* handleCollateralEnabled and handleCollateralDisabled.
handleCollateral ==
    /\ Ready({"enable", "disable"})
    /\ pos' = Through(1, [pos EXCEPT !.used[l.asset] = (l.kind = "enable")])
    /\ Handled

\* A slip: the collateral is taken from the debt's reserve.
MutHandleLiquidationCall ==
    /\ Ready({"liquidation"})
    /\ pos' = [pos EXCEPT
                  !.debt[l.debt] = IF held[1] = "live" THEN Clean(@ - RayDiv(l.cover, l.debtIndex)) ELSE @,
                  !.coll[l.debt] = IF held[2] = "live" THEN Clean(@ - RayDiv(l.amount, l.index)) ELSE @]
    /\ Handled

handleLiquidationCall ==
    /\ Ready({"liquidation"})
    /\ pos' = [pos EXCEPT
                  !.debt[l.debt] = IF held[1] = "live" THEN Clean(@ - RayDiv(l.cover, l.debtIndex)) ELSE @,
                  !.coll[l.asset] = IF held[2] = "live" THEN Clean(@ - RayDiv(l.amount, l.index)) ELSE @]
    /\ Handled

\* handleUserEModeSet: SetUserEMode looks up and changes under one lock.
handleUserEModeSet ==
    /\ Popped
    /\ l.kind = "emode"
    /\ pos' = [pos EXCEPT !.known = TRUE, !.emode = l.amount, !.fetched = TRUE]
    /\ applied' = applied + 1
    /\ overtaken' = FALSE
    /\ UNCHANGED <<chainVars, live, held, current, subs, work, indices, sound, replaced>>
-----------------------------------------------------------------------------
\* The workers.

Resting == [pc |-> "rest", block |-> 0, fetched |-> FALSE, seen |-> 0, ptr |-> "orphan"]

\* calculateHF: the worker reads the position, the flag and the block.  What has no debt
\* has no factor, and prices decide over the rest, which are not modelled here.
Calculate(w) ==
    /\ work[w].pc = "rest"
    /\ \E a \in Assets : pos.debt[a] > 0
    /\ work' = [work EXCEPT ![w] = [pc |-> "calculated", block |-> current, fetched |-> pos.fetched,
                                    seen |-> 0, ptr |-> "live"]]
    /\ UNCHANGED <<chainVars, applied, live, held, current, pos, subs, indices, sound, overtaken, replaced>>

\* FetchUserEMode asks for the latest block; the answer covers all logs so far.
FetchUserEMode(w) ==
    /\ work[w].pc = "calculated"
    /\ ~work[w].fetched
    /\ work' = [work EXCEPT ![w].pc = "loaded", ![w].seen = LogsUpTo(head)]
    /\ UNCHANGED <<chainVars, applied, live, held, current, pos, subs, indices, sound, overtaken, replaced>>

\* The category goes to the position read before the request; the factor is computed again.
WriteEMode(w) ==
    /\ work[w].pc = "loaded"
    /\ IF work[w].ptr = "live"
       THEN /\ pos' = [pos EXCEPT !.emode = truth[work[w].seen + 1].emode, !.fetched = TRUE]
            /\ overtaken' = EModeSetBetween(work[w].seen, applied)
       ELSE UNCHANGED <<pos, overtaken>>
    /\ work' = [work EXCEPT ![w].pc = "calculated", ![w].fetched = TRUE, ![w].seen = 0,
                               ![w].block = current]
    /\ UNCHANGED <<chainVars, applied, live, held, current, subs, indices, sound, replaced>>

\* A slip: the fetched reserves are merged into the stored position, whose E-mode stays.
MutFetched(b) ==
    LET p == truth[LogsUpTo(b) + 1]
    IN  [known |-> TRUE, has |-> Assets, coll |-> p.coll, debt |-> p.debt, used |-> p.used,
         emode |-> pos.emode, fetched |-> TRUE]

\* The position the node answers for a block: every configured asset has a reserve.
Fetched(b) ==
    LET p == truth[LogsUpTo(b) + 1]
    IN  [known |-> TRUE, has |-> Assets, coll |-> p.coll, debt |-> p.debt, used |-> p.used,
         emode |-> p.emode, fetched |-> TRUE]

\* FetchUserPositionBatchAtBlock has been answered for CalculatedAtBlock, and the answer
\* replaces the position: every pointer into the old one is an orphan.
StorePosition(w) ==
    /\ work[w].pc = "calculated"
    /\ work[w].fetched
    /\ pos' = Fetched(work[w].block)
    /\ held' = [i \in 1 .. Len(held) |-> "orphan"]
    /\ work' = [x \in Workers |-> IF x = w THEN Resting
                                  ELSE [work[x] EXCEPT !.ptr = Orphaned(@)]]
    /\ sound' = (held = <<>> /\ applied = LogsUpTo(work[w].block))
    /\ overtaken' = EModeSetBetween(LogsUpTo(work[w].block), applied)
    /\ replaced' = TRUE
    /\ passed' = {}
    /\ UNCHANGED <<chainVars, applied, live, current, subs, indexed>>

\* A failed request, a safe factor, a small debt.
Abandon(w) ==
    /\ work[w].pc # "rest"
    /\ work' = [work EXCEPT ![w] = Resting]
    /\ UNCHANGED <<chainVars, applied, live, held, current, pos, subs, indices, sound, overtaken, replaced>>
-----------------------------------------------------------------------------
\* The bootstrapper loads the users who borrow at the anchor block, without the reserves
\* that have nothing but dust.
Bootstrapped(coll, debt, cat) ==
    LET used == [a \in Assets |-> coll[a] > 0]
        loaded == \E a \in Assets : debt[a] > 0
        kept == {a \in Assets : loaded /\ (coll[a] > Dust \/ debt[a] > Dust)}
    IN  /\ truth = <<[coll |-> coll, debt |-> debt, used |-> used, emode |-> cat]>>
        /\ pos = [known |-> loaded, has |-> kept,
                  coll |-> [a \in Assets |-> IF a \in kept THEN Clean(coll[a]) ELSE 0],
                  debt |-> [a \in Assets |-> IF a \in kept THEN Clean(debt[a]) ELSE 0],
                  used |-> [a \in Assets |-> a \in kept /\ used[a]],
                  emode |-> IF loaded THEN cat ELSE 0, fetched |-> loaded]
        /\ subs = kept
        /\ sound = (loaded \/ coll = Zero)

Init ==
    /\ logs = <<>>
    /\ head = Anchor
    /\ applied = 0
    /\ live = FALSE
    /\ held = <<>>
    /\ current = Anchor
    /\ work = [w \in Workers |-> Resting]
    /\ indexed \in StartIndexed /\ passed = {}
    /\ overtaken = FALSE
    /\ replaced = FALSE
    /\ \E start \in Starts, cat \in Categories \cup {0} :
          Bootstrapped([a \in Assets |-> start[a][1]], [a \in Assets |-> start[a][2]], cat)

Chain == Mine \/ \E kind \in Kinds, a, d \in Assets \cup {NoAsset},
                     n, m \in Amounts \cup Categories \cup {0}, i, j \in Indices :
                     Emit(kind, a, d, n, m, i, j)

Handle ==
    \/ PassOver \/ GetUserReserve
    \/ handleSupply \/ handleWithdraw \/ handleBorrow \/ handleRepay
    \/ handleCollateral \/ handleLiquidationCall \/ handleUserEModeSet

Work(w) ==
    \/ Calculate(w) \/ FetchUserEMode(w) \/ WriteEMode(w)
    \/ StorePosition(w) \/ Abandon(w)

Next ==
    \/ Chain
    \/ GoLive
    \/ \E b \in Anchor .. MaxBlock : SetCurrentBlock(b)
    \/ Handle
    \/ \E a \in Assets : handleReserveDataUpdated(a)
    \/ \E w \in Workers : Work(w)

Spec == Init /\ [][Next]_vars
-----------------------------------------------------------------------------
Position == [known : BOOLEAN, has : SUBSET Assets, coll : [Assets -> Nat], debt : [Assets -> Nat],
             used : [Assets -> BOOLEAN], emode : Nat, fetched : BOOLEAN]

WorkType == [pc : {"rest", "calculated", "loaded"}, block : Nat, fetched : BOOLEAN,
             seen : Nat, ptr : {"live", "orphan"}]

\* Types; balances never go below zero, whatever is applied twice or lost.
TypeOK ==
    /\ logs \in Seq(Log)
    /\ truth \in Seq(ChainPosition) /\ Len(truth) = Len(logs) + 1
    /\ head \in Nat
    /\ applied \in 0 .. Len(logs)
    /\ live \in BOOLEAN
    /\ held \in Seq({"live", "orphan"}) /\ Len(held) <= 2
    /\ current \in Nat
    /\ pos \in Position
    /\ subs \subseteq Assets
    /\ indexed \subseteq Assets /\ passed \subseteq Assets
    /\ work \in [Workers -> WorkType]
    /\ sound \in BOOLEAN
    /\ overtaken \in BOOLEAN
    /\ replaced \in BOOLEAN

\* x is the chain's amount y, but for what each log so far may have rounded off and the dust
\* that was cut off with it and at the anchor.
Near(x, y) == x - y <= applied /\ y - x <= Dust + applied * (Dust + 1)

\* The bootstrapper skips a reserve of the user's that holds nothing but dust, and with it the
\* flag of its collateral.
SkippedAtAnchor(a) ==
    /\ ~replaced
    /\ truth[1].coll[a] \in 1 .. Dust /\ truth[1].debt[a] <= Dust

\* The handlers lose and invent nothing: a position that was complete when it entered the
\* store stays with the chain, log by log: the balances up to one unit of rounding and the dust
\* the handlers cut off for each log, unless a log of the reserve found no index, the flags of
\* the collateral exactly, but for the reserves skipped at the anchor.
FollowsChain ==
    sound => LET p == truth[applied + 1]
             IN  \A a \in Assets : /\ a \notin passed => /\ Near(pos.coll[a], p.coll[a])
                                                         /\ Near(pos.debt[a], p.debt[a])
                                   /\ pos.used[a] = p.used[a] \/ SkippedAtAnchor(a)

\* The E-mode a user is judged by is the one the logs handled give, unless a
\* UserEModeSet lies between the block of the request that told it and the logs handled.
EModeAgrees == pos.fetched /\ ~overtaken => pos.emode = truth[applied + 1].emode

\* The handlers and the bootstrapper subscribe the user to every reserve they store: only
\* a position fetched in their place leaves an asset the user holds or owes without him.
SubscribedUnlessReplaced ==
    ~replaced => \A a \in Assets : pos.coll[a] + pos.debt[a] > 0 => a \in subs
=============================================================================
