------------------------------ MODULE Strategy ------------------------------
(***************************************************************************)
(* CalculateOptimalRecipe (strategy_engine.go): over the debts and the     *)
(* collaterals of a position the pair with the largest expected profit.    *)
(* The store is locked throughout, so this is one function of the position *)
(* and of the prices; the only choice left is the order in which the map   *)
(* of the reserves is walked.  Amounts are in the token's smallest unit,   *)
(* values in that of the base currency, every division truncates.          *)
(***************************************************************************)
EXTENDS Integers, SequencesExt

CONSTANTS
    Assets,         \* the reserves, all with a configuration and an index
    Categories,     \* E-mode categories of the pool, without 0
    KnownCategories,    \* those the store has
    Unit,           \* Unit[a] is 10^decimals
    BorrowIndex,    \* VariableBorrowIndex
    LiquidityIndex,
    Bonus,          \* LiquidationBonus of an asset, 0 for one that is collateral in a category only
    ProtocolFee,    \* LiquidationProtocolFee
    CategoryBonus,  \* LiquidationBonus of a category
    Collaterals,    \* the assets in a category's CollateralBitmap
    StoredBonus,    \* LiquidationBonus of a category in the store, 0 if its answer was not decoded
    StoredCollaterals,  \* its CollateralBitmap in the store, empty if the call for it failed
    Ray,
    PercentageFactor,
    DefaultLiquidationCloseFactor,
    MinBaseMaxCloseFactorThreshold,
    MinLeftoverBase,
    FlashloanFee,   \* flashloanFeeBps
    Slippage,       \* estimatedDexSlippageBps
    GasCost         \* estimatedGasCostUSD

ASSUME StrategyAssumption ==
    /\ IsFiniteSet(Assets)
    /\ Categories \subseteq Nat \ {0}
    /\ KnownCategories \subseteq Categories
    /\ Unit \in [Assets -> Nat \ {0}]
    /\ BorrowIndex \in [Assets -> Nat \ {0}] /\ LiquidityIndex \in [Assets -> Nat \ {0}]
    \* A bonus is a factor not below one.
    /\ Bonus \in [Assets -> Nat] /\ \A a \in Assets : Bonus[a] = 0 \/ Bonus[a] >= PercentageFactor
    /\ ProtocolFee \in [Assets -> Nat] /\ \A a \in Assets : ProtocolFee[a] <= PercentageFactor
    /\ CategoryBonus \in [Categories -> Nat] /\ \A g \in Categories : CategoryBonus[g] >= PercentageFactor
    /\ Collaterals \in [Categories -> SUBSET Assets]
    /\ StoredBonus \in [KnownCategories -> Nat]
    /\ \A g \in KnownCategories : StoredBonus[g] \in {0, CategoryBonus[g]}
    /\ StoredCollaterals \in [KnownCategories -> SUBSET Assets]
    /\ \A g \in KnownCategories : StoredCollaterals[g] \in {{}, Collaterals[g]}
    /\ Ray \in Nat \ {0}
    /\ PercentageFactor \in Nat \ {0}
    /\ DefaultLiquidationCloseFactor \in 0 .. PercentageFactor
    /\ MinBaseMaxCloseFactorThreshold \in Nat
    /\ MinLeftoverBase \in Nat
    /\ FlashloanFee \in Nat
    /\ Slippage \in 0 .. PercentageFactor
    /\ GasCost \in Nat

\* A position: scaled balances, those reserves that are used as collateral, the category.
Position == [debt : [Assets -> Nat], coll : [Assets -> Nat], used : SUBSET Assets,
             emode : Categories \cup {0}]

\* The prices the store has; 0 stands for a missing one.
Prices == [Assets -> Nat]

RayMul(a, b) == (a * b + Ray \div 2) \div Ray

ValueInBaseCurrency(amount, a, price) == (amount * price[a]) \div Unit[a]

PercentDivCeil(value, percentage) ==
    IF value = 0 \/ percentage = 0 THEN 0
    ELSE (value * PercentageFactor + percentage - 1) \div percentage
-----------------------------------------------------------------------------
\* The debts and collaterals found in a position, and their balances.
Debts(pos, price) == {a \in Assets : price[a] > 0 /\ pos.debt[a] > 0}
Colls(pos, price) == {a \in pos.used : price[a] > 0 /\ pos.coll[a] > 0}

DebtOf(pos, a) == RayMul(pos.debt[a], BorrowIndex[a])
CollOf(pos, a) == RayMul(pos.coll[a], LiquidityIndex[a])

TotalDebtInBase(pos, price) ==
    MapThenSumSet(LAMBDA a : ValueInBaseCurrency(DebtOf(pos, a), a, price), Debts(pos, price))

TotalCollateralInBase(pos, price) ==
    MapThenSumSet(LAMBDA a : ValueInBaseCurrency(CollOf(pos, a), a, price), Colls(pos, price))

\* At most half of a large debt can be paid back while the health factor is not far below one.
Capped(pos, price, nearOne) ==
    /\ TotalCollateralInBase(pos, price) >= MinBaseMaxCloseFactorThreshold
    /\ TotalDebtInBase(pos, price) >= MinBaseMaxCloseFactorThreshold
    /\ nearOne

CloseLimit(pos, price) ==
    (TotalDebtInBase(pos, price) * DefaultLiquidationCloseFactor) \div PercentageFactor

MaxLiquidatableDebt(pos, price, nearOne, d) ==
    LET close == CloseLimit(pos, price)
    IN  IF Capped(pos, price, nearOne) /\ ValueInBaseCurrency(DebtOf(pos, d), d, price) > close
        THEN (close * Unit[d]) \div price[d]
        ELSE DebtOf(pos, d)

\* A slip: the category is forgotten.
MutBonusOf(pos, c) == Bonus[c]

\* A known category overrides the bonus of what its bitmap in the store names.
BonusOf(pos, c) ==
    IF pos.emode \in KnownCategories /\ c \in StoredCollaterals[pos.emode]
    THEN StoredBonus[pos.emode]
    ELSE Bonus[c]

\* A slip: the bonus is not taken out of the collateral's value.
MutDebtFor(d, c, bonus, price, amount) ==
    (price[c] * amount * Unit[d]) \div (price[d] * Unit[c])

\* The collateral for an amount of debt, and the debt for an amount of collateral with its bonus.
CollateralFor(d, c, bonus, price, amount) ==
    (((price[d] * amount * Unit[c]) \div (price[c] * Unit[d])) * bonus) \div PercentageFactor

DebtFor(d, c, bonus, price, amount) ==
    PercentDivCeil((price[c] * amount * Unit[d]) \div (price[d] * Unit[c]), bonus)

\* What the protocol keeps of a collateral's bonus.
FeeOf(c, bonus, amount) ==
    IF ProtocolFee[c] = 0 THEN 0
    ELSE ((amount - (amount * PercentageFactor) \div bonus) * ProtocolFee[c]) \div PercentageFactor

\* The fee is divided by the bonus: without one big.Int panics.
Panics(pos, price) ==
    /\ Debts(pos, price) # {}
    /\ \E c \in Colls(pos, price) : BonusOf(pos, c) = 0 /\ ProtocolFee[c] > 0

\* A slip: the collateral that is there is not compared with the one that is due.
MutTerms(pos, price, limit, d, c) ==
    LET bonus == BonusOf(pos, c)
        taken == CollateralFor(d, c, bonus, price, limit)
    IN  [debt |-> d, coll |-> c, cover |-> limit, taken |-> taken,
         seized |-> taken - FeeOf(c, bonus, taken), profit |-> 0]

\* The debt covered and the collateral taken for a pair, of at most limit.
Terms(pos, price, limit, d, c) ==
    LET bonus == BonusOf(pos, c)
        due == CollateralFor(d, c, bonus, price, limit)
        exhausts == due > CollOf(pos, c)
        taken == IF exhausts THEN CollOf(pos, c) ELSE due
    IN  [debt |-> d, coll |-> c, taken |-> taken,
         cover |-> IF exhausts THEN DebtFor(d, c, bonus, price, taken) ELSE limit,
         seized |-> taken - FeeOf(c, bonus, taken), profit |-> 0]

\* What is left of both is not too little.
LeavesEnough(pos, price, t) ==
    t.cover < DebtOf(pos, t.debt) /\ t.taken < CollOf(pos, t.coll)
    => /\ ValueInBaseCurrency(DebtOf(pos, t.debt) - t.cover, t.debt, price) >= MinLeftoverBase
       /\ ValueInBaseCurrency(CollOf(pos, t.coll) - t.taken, t.coll, price) >= MinLeftoverBase

\* The revenue after slippage less the loan with its fee and the gas.
Profit(price, t) ==
    (ValueInBaseCurrency(t.seized, t.coll, price) * (PercentageFactor - Slippage)) \div PercentageFactor
    - ValueInBaseCurrency((t.cover * (PercentageFactor + FlashloanFee)) \div PercentageFactor, t.debt, price)
    - GasCost

NoRecipe == [debt |-> "none", coll |-> "none", cover |-> 0, taken |-> 0, seized |-> 0, profit |-> 0]

\* A slip: the largest profit so far is not kept, the last profitable pair wins.
MutBetter(best, pos, price, t) ==
    IF LeavesEnough(pos, price, t) /\ Profit(price, t) > 0
    THEN [t EXCEPT !.profit = Profit(price, t)] ELSE best

\* One turn of the inner loop.
Better(best, pos, price, t) ==
    IF LeavesEnough(pos, price, t) /\ Profit(price, t) > best.profit
    THEN [t EXCEPT !.profit = Profit(price, t)]
    ELSE best

\* order is the order in which the reserves are walked: that of the debts and, for each
\* debt, of the collaterals; those that are neither are passed over.
CalculateOptimalRecipe(pos, price, nearOne, order) ==
    LET debts == Debts(pos, price)
        colls == Colls(pos, price)
        limit == [d \in debts |-> MaxLiquidatableDebt(pos, price, nearOne, d)]
        Pair(best, d, c) ==
            IF c \in colls THEN Better(best, pos, price, Terms(pos, price, limit[d], d, c)) ELSE best
        Inner(best, d) ==
            IF d \in debts THEN FoldLeft(LAMBDA b, c : Pair(b, d, c), best, order) ELSE best
    IN  FoldLeft(Inner, NoRecipe, order)

Orders(pos, price) == SetToSeqs(Debts(pos, price) \cup Colls(pos, price))

\* What the worker can get: nil when no pair is profitable.
Recipes(pos, price, nearOne) ==
    {CalculateOptimalRecipe(pos, price, nearOne, o) : o \in Orders(pos, price)} \ {NoRecipe}
=============================================================================
