--------------------------- MODULE MCLiquidation ----------------------------
(* A coarse dollar, ether, and a staked ether that is collateral in categories only. *)
EXTENDS Liquidation

CONSTANTS w1, w2
MCWorkers == {w1, w2}
MCSymmetry == Permutations(MCWorkers)

MCAssets == {"usd", "eth", "lst"}
Of(u, e, l) == [a \in MCAssets |-> CASE a = "usd" -> u [] a = "eth" -> e [] OTHER -> l]
Pos(debt, coll, cat) ==
    [debt |-> debt, coll |-> coll, used |-> {a \in MCAssets : coll[a] > 0}, emode |-> cat]

MCUnit == Of(1, 10, 10)
MCIndex == Of(10, 11, 10)
MCBonus == Of(105, 110, 0)
MCFee == Of(0, 10, 10)
MCThreshold == Of(85, 80, 80)
MCCategories == 1 .. 4
MCKnown == {1, 3, 4}
MCCategoryBonus == [g \in MCCategories |-> 106]
MCCollaterals == [g \in MCCategories |-> {"lst"}]
MCStoredBonus == [g \in MCKnown |-> IF g = 4 THEN 0 ELSE 106]
MCStoredCollaterals == [g \in MCKnown |-> IF g = 3 THEN {} ELSE {"lst"}]

MCPositions == {
    Pos(Of(100, 0, 0), Of(0, 330, 0), 0),       \* safe, or half may be repaid, or all
    Pos(Of(100, 100, 0), Of(60, 250, 0), 0),    \* two debts, two collaterals, too little left
    Pos(Of(130, 0, 0), Of(0, 370, 0), 0),       \* the collateral does not suffice
    Pos(Of(130, 0, 0), Of(0, 372, 0), 0),       \* nor does it, and rounding leaves some of it
    Pos(Of(120, 0, 0), Of(0, 0, 330), 1),       \* a known category
    Pos(Of(120, 0, 0), Of(0, 0, 330), 2),       \* an unknown one
    Pos(Of(120, 0, 0), Of(0, 0, 330), 3),       \* one whose bitmap was not fetched
    Pos(Of(120, 0, 0), Of(0, 0, 330), 4)}       \* one whose bonus was not decoded
MCPrices == {Of(1, 4, 4), Of(1, 3, 0)}
MCGifts == {<<"usd", 5>>, <<"eth", 5>>}
=============================================================================
