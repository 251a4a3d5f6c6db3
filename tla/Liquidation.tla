---------------------------- MODULE Liquidation -----------------------------
(***************************************************************************)
(* From the recipe to the profit: workers who send liquidations of one     *)
(* user (tx_executor.go) and the contract that carries them out            *)
(* (BaseAaveV3Liquidator.sol), with the nodes, the lending pool and the    *)
(* exchange as the code uses them.  A call of SendLiquidation is several   *)
(* requests to a node; between them the user, the prices and the other     *)
(* workers go on.  A request may fail at any point, as all do once the     *)
(* context is over.                                                        *)
(***************************************************************************)
EXTENDS Strategy, FiniteSets

CONSTANTS
    Workers,
    Positions,      \* positions at the start
    PriceLists,     \* what the oracle answers
    Threshold,      \* liquidation thresholds, per asset
    CloseFactorHfThreshold,     \* as a percentage
    Gifts,          \* what somebody may send to the contract, <<asset, amount>>
    maxRPCRetries,
    MaxNonce,       \* bound of the wallet's transactions
    MaxCalls        \* bound of the calls of SendLiquidation

ASSUME LiquidationAssumption ==
    /\ Positions \subseteq Position
    \* The pool lets only assets with a bonus be used as collateral.
    /\ \A pos \in Positions, a \in Assets :
          a \in pos.used /\ Bonus[a] = 0 => pos.emode # 0 /\ a \in Collaterals[pos.emode]
    /\ PriceLists \subseteq Prices
    /\ Threshold \in [Assets -> Nat]
    /\ Gifts \subseteq Assets \X (Nat \ {0})
    /\ maxRPCRetries \in Nat \ {0}
    /\ MaxNonce \in Nat /\ MaxCalls \in Nat

VARIABLES
    user,       \* the user's position in the pool
    price,
    held,       \* the contract's balance of every token
    account,    \* the wallet's nonce: the number of its transactions mined
    accepted,   \* the transactions some node has accepted
    call,       \* the call of SendLiquidation each worker is in
    asked       \* the number of calls begun

chain == <<user, price, held, account>>
vars == <<chain, accepted, call, asked>>

\* What of a recipe goes into the calldata.
Order(recipe) == [debt |-> recipe.debt, coll |-> recipe.coll, cover |-> recipe.cover]

Transaction(order, nonce) ==
    [nonce |-> nonce, debt |-> order.debt, coll |-> order.coll, cover |-> order.cover]

\* A call that is over with an error leaves nothing.
Resting(pc) == [pc |-> pc, order |-> Order(NoRecipe), attempt |-> 0, nonce |-> 0]
-----------------------------------------------------------------------------
\* The lending pool (external).

Weighted(pos, p) ==
    MapThenSumSet(LAMBDA a : ValueInBaseCurrency(CollOf(pos, a), a, p) * Threshold[a], Colls(pos, p))

\* The health factor is below one; it is above what allows to repay all of a debt.
Liquidatable(pos, p) == Weighted(pos, p) < TotalDebtInBase(pos, p) * PercentageFactor
NearOne(pos, p) ==
    Weighted(pos, p) * 100 > TotalDebtInBase(pos, p) * PercentageFactor * CloseFactorHfThreshold

\* The category decides on the bonus, whether or not the bot knows it.
PoolBonus(pos, c) ==
    IF pos.emode # 0 /\ c \in Collaterals[pos.emode] THEN CategoryBonus[pos.emode] ELSE Bonus[c]

Least(x, y) == IF x < y THEN x ELSE y

RayDiv(a, b) == (a * Ray + b \div 2) \div b

Less(x, y) == IF x > y THEN x - y ELSE 0

Liquidated(pos, t) ==
    [pos EXCEPT !.debt[t.debt] = Less(@, RayDiv(t.cover, BorrowIndex[t.debt])),
                !.coll[t.coll] = Less(@, RayDiv(t.taken, LiquidityIndex[t.coll]))]

\* The fee of a flash loan, rounded up.
Premium(amount) == (amount * FlashloanFee + PercentageFactor - 1) \div PercentageFactor

\* What liquidationCall does for a caller ready to pay t.cover, nothing if it reverts.  All of
\* the debt or half of it may be paid back, the protocol keeps all of the bonus or nothing.
liquidationCall(pos, p, t) ==
    LET bonus == PoolBonus(pos, t.coll)
        debtSide == p[t.debt] * Unit[t.coll] * bonus
        collSide == p[t.coll] * Unit[t.debt] * PercentageFactor
        Settled(paid) ==
            LET due == (paid * debtSide) \div collSide
                taken == Least(due, CollOf(pos, t.coll))
            IN  {[debt |-> t.debt, coll |-> t.coll, taken |-> taken,
                  cover |-> IF taken < due THEN Least(paid, 1 + (taken * collSide) \div debtSide) ELSE paid,
                  seized |-> s] : s \in {taken, (taken * PercentageFactor) \div bonus}}
    IN  IF /\ Liquidatable(pos, p) /\ t.cover > 0 /\ bonus > 0
           /\ t.debt \in Debts(pos, p) /\ t.coll \in Colls(pos, p)
        THEN UNION {Settled(Least(t.cover, owed)) : owed \in {DebtOf(pos, t.debt), DebtOf(pos, t.debt) \div 2}}
        ELSE {}

\* The exchange has no minimum and no price limit to respect: it takes all or part of what it
\* is offered, for a fair price, one within the slippage, or nothing.
Swaps(c, d, p, amount) ==
    UNION {LET fair == (n * p[c] * Unit[d]) \div (Unit[c] * p[d])
           IN  {[in |-> n, out |-> m] : m \in {0, (fair * (PercentageFactor - Slippage)) \div PercentageFactor, fair}}
           : n \in {amount, amount \div 2}}
-----------------------------------------------------------------------------
\* The contract, for a transaction t, what the pool does (s) and what the exchange does (x).

\* executeOperation: the collateral the contract has after liquidationCall.
ActualCollateral(t, s) == held[t.coll] + s.seized

\* executeOperation: what the contract has of the debt's token after the swap, the loan included.
FinalAssetBalance(t, s, x) == held[t.debt] + t.cover - s.cover + x.out

\* executeOperation reaches its end.  A token is not swapped for itself.
Succeeds(t, s, x) ==
    /\ t.debt # t.coll
    /\ ActualCollateral(t, s) > 0
    /\ FinalAssetBalance(t, s, x) >= t.cover + Premium(t.cover)

\* What the pool and the exchange can do for it to succeed.
Outcomes(t) ==
    UNION {{[pool |-> s, swap |-> x] :
               x \in {y \in Swaps(t.coll, t.debt, price, ActualCollateral(t, s)) : Succeeds(t, s, y)}}
           : s \in liquidationCall(user, price, t)}

\* The loan is returned and the rest of the debt's token goes to the owner; collateral that was
\* not swapped stays.
HeldAfter(t, s, x) == [held EXCEPT ![t.coll] = ActualCollateral(t, s) - x.in, ![t.debt] = 0]

executeArbitrage(t, o) ==
    /\ user' = Liquidated(user, o.pool)
    /\ held' = HeldAfter(t, o.pool, o.swap)

\* A transaction is mined in the order of nonces; one that reverts, for whatever reason, costs
\* its gas.
Mine(t) ==
    /\ t.nonce = account
    /\ account' = account + 1
    /\ (\E o \in Outcomes(t) : executeArbitrage(t, o)) \/ UNCHANGED <<user, held>>
    /\ UNCHANGED <<price, accepted, call, asked>>

\* rescueTokens reverts when there is nothing.
rescueTokens(a) ==
    /\ held[a] > 0
    /\ held' = [held EXCEPT ![a] = 0]
    /\ UNCHANGED <<user, price, account, accepted, call, asked>>

Gift(a, n) ==
    /\ \A b \in Assets : held[b] = 0
    /\ held' = [held EXCEPT ![a] = n]
    /\ UNCHANGED <<user, price, account, accepted, call, asked>>

\* The user repays, or another liquidator was first.
UserRepays ==
    /\ \E a \in Assets : user.debt[a] > 0
    /\ user' = [user EXCEPT !.debt = [a \in Assets |-> 0]]
    /\ UNCHANGED <<price, held, account, accepted, call, asked>>

PricesMove(p) ==
    /\ p # price
    /\ price' = p
    /\ UNCHANGED <<user, held, account, accepted, call, asked>>
-----------------------------------------------------------------------------
\* The workers.

\* The verified position gives a recipe and SendLiquidation is called with it.
SendLiquidation(w) ==
    /\ call[w].pc \in {"idle", "nil", "error"}
    /\ asked < MaxCalls
    /\ Liquidatable(user, price)
    /\ ~Panics(user, price)
    /\ \E r \in Recipes(user, price, NearOne(user, price)) :
          call' = [call EXCEPT ![w] = [pc |-> "estimate", order |-> Order(r), attempt |-> 1, nonce |-> 0]]
    /\ asked' = asked + 1
    /\ UNCHANGED <<chain, accepted>>

Goto(w, pc) == call' = [call EXCEPT ![w].pc = pc]

\* A slip: one attempt too many.
MutNextAttempt(w) ==
    call' = [call EXCEPT ![w] =
                IF call[w].attempt <= maxRPCRetries
                THEN [call[w] EXCEPT !.pc = "estimate", !.attempt = @ + 1, !.nonce = 0]
                ELSE Resting("error")]

\* The next attempt, with the next node, or none.
NextAttempt(w) ==
    call' = [call EXCEPT ![w] =
                IF call[w].attempt < maxRPCRetries
                THEN [call[w] EXCEPT !.pc = "estimate", !.attempt = @ + 1, !.nonce = 0]
                ELSE Resting("error")]

\* Dialling, estimating, or asking for the nonce or the fees fails.
RequestFails(w) ==
    /\ call[w].pc \in {"estimate", "nonce", "fees"}
    /\ NextAttempt(w)
    /\ UNCHANGED <<chain, accepted, asked>>

\* The call is simulated: it succeeds, or the error names a revert, which is final.
EstimateGas(w) ==
    /\ call[w].pc = "estimate"
    /\ \/ Outcomes(Transaction(call[w].order, 0)) # {} /\ Goto(w, "nonce")
       \/ call' = [call EXCEPT ![w] = Resting("error")]
    /\ UNCHANGED <<chain, accepted, asked>>

\* The nonces a node may give: it knows the chain and some of the transactions accepted.
PendingNonces ==
    {n \in account .. MaxNonce : \A k \in account .. n - 1 : \E t \in accepted : t.nonce = k}

\* A slip: the nonces others are about to use are left to them.
MutPendingNonceAt(w, n) ==
    /\ call[w].pc = "nonce"
    /\ n \in PendingNonces \cup {call[v].nonce + 1 : v \in {u \in Workers \ {w} : call[u].pc \in {"fees", "send"}}}
    /\ call' = [call EXCEPT ![w].pc = "fees", ![w].nonce = n]
    /\ UNCHANGED <<chain, accepted, asked>>

PendingNonceAt(w, n) ==
    /\ call[w].pc = "nonce"
    /\ n \in PendingNonces
    /\ call' = [call EXCEPT ![w].pc = "fees", ![w].nonce = n]
    /\ UNCHANGED <<chain, accepted, asked>>

SuggestGas(w) ==
    /\ call[w].pc = "fees"
    /\ Goto(w, "send")
    /\ UNCHANGED <<chain, accepted, asked>>

\* The node accepts the transaction, and the answer may be lost: then it is sent anew.
Broadcast(w) ==
    /\ call[w].pc = "send"
    /\ call[w].nonce \in account .. MaxNonce - 1
    /\ accepted' = accepted \cup {Transaction(call[w].order, call[w].nonce)}
    /\ Goto(w, "nil") \/ NextAttempt(w)
    /\ UNCHANGED <<chain, asked>>

\* The node refuses it, or nobody receives it.
BroadcastFails(w) ==
    /\ call[w].pc = "send"
    /\ NextAttempt(w)
    /\ UNCHANGED <<chain, accepted, asked>>
-----------------------------------------------------------------------------
Init ==
    /\ user \in Positions
    /\ price \in PriceLists
    /\ held = [a \in Assets |-> 0]
    /\ account = 0
    /\ accepted = {}
    /\ call = [w \in Workers |-> Resting("idle")]
    /\ asked = 0

Step(w) ==
    \/ RequestFails(w) \/ EstimateGas(w) \/ SuggestGas(w)
    \/ \E n \in 0 .. MaxNonce : PendingNonceAt(w, n)
    \/ Broadcast(w) \/ BroadcastFails(w)

Environment ==
    \/ \E t \in accepted : Mine(t)
    \/ \E a \in Assets : rescueTokens(a)
    \/ \E g \in Gifts : Gift(g[1], g[2])
    \/ UserRepays
    \/ \E p \in PriceLists : PricesMove(p)

Next == Environment \/ \E w \in Workers : SendLiquidation(w) \/ Step(w)

Spec == Init /\ [][Next]_vars
-----------------------------------------------------------------------------
CallData == [debt : Assets, coll : Assets, cover : Nat] \cup {Order(NoRecipe)}

TypeOK ==
    /\ user \in Position
    /\ price \in Prices
    /\ TotalDebtInBase(user, price) \in Nat
    /\ held \in [Assets -> Nat]
    /\ account \in 0 .. MaxNonce
    /\ accepted \subseteq [nonce : 0 .. MaxNonce - 1, debt : Assets, coll : Assets, cover : Nat]
    /\ call \in [Workers -> [pc : {"idle", "estimate", "nonce", "fees", "send", "nil", "error"},
                             order : CallData, attempt : 0 .. maxRPCRetries,
                             nonce : 0 .. MaxNonce]]
    /\ asked \in 0 .. MaxCalls

\* The largest profit wins, whatever the order in which the map of the reserves is walked.
Optimal ==
    ~Panics(user, price) =>
        LET nearOne == NearOne(user, price)
            limit == [d \in Debts(user, price) |-> MaxLiquidatableDebt(user, price, nearOne, d)]
            pairs == {Terms(user, price, limit[d], d, c) :
                          d \in Debts(user, price), c \in Colls(user, price)}
            gains == {0} \cup {Profit(price, t) : t \in {u \in pairs : LeavesEnough(user, price, u)}}
        IN  \A o \in Orders(user, price) :
                CalculateOptimalRecipe(user, price, nearOne, o).profit = Max(gains)

\* No more debt is covered than there is, and no more collateral counted on.
RecipeFits ==
    ~Panics(user, price) =>
        \A nearOne \in BOOLEAN, d \in Debts(user, price), c \in Colls(user, price) :
            LET t == Terms(user, price, MaxLiquidatableDebt(user, price, nearOne, d), d, c)
            IN  /\ t.cover <= DebtOf(user, d)
                /\ t.taken <= CollOf(user, c)
                /\ t.seized \in 0 .. t.taken

\* What a pair counts on is worth the debt it covers with the bonus, but for what the divisions
\* (strategy_engine.go:138-162) leave over: no more when the collateral suffices, and when all of
\* it is taken the debt covered is neither a unit too small nor a unit too large.
TermsBalance ==
    ~Panics(user, price) =>
        \A nearOne \in BOOLEAN, d \in Debts(user, price), c \in Colls(user, price) :
            LET t == Terms(user, price, MaxLiquidatableDebt(user, price, nearOne, d), d, c)
                bonus == BonusOf(user, c)
                debtUnit == price[d] * Unit[c]
                collUnit == price[c] * Unit[d]
                gap == t.cover * debtUnit * bonus - t.taken * collUnit * PercentageFactor
            IN  \/ gap \in 0 .. (bonus + PercentageFactor) * collUnit - 1
                \/ /\ t.taken = CollOf(user, c)
                   /\ -(debtUnit * PercentageFactor) < gap /\ gap < debtUnit * bonus

\* A category of which the store has what the pool has.
Complete(g) ==
    /\ g \in KnownCategories
    /\ StoredBonus[g] = CategoryBonus[g] /\ StoredCollaterals[g] = Collaterals[g]

\* The division by a missing bonus (strategy_engine.go:169) panics only for a user in a category
\* the store does not have, or of which a call or an answer of the batch failed.
PanicsOnlyIfIncomplete == Panics(user, price) => user.emode # 0 /\ ~Complete(user.emode)

\* Whatever requests fail, are repeated or race each other (tx_executor.go:117-189), no
\* transaction of the wallet waits for a nonce that was never used.
NoNonceGap ==
    \A t \in accepted : \A k \in account .. t.nonce - 1 : \E u \in accepted : u.nonce = k
=============================================================================
