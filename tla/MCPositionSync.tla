--------------------------- MODULE MCPositionSync ---------------------------
EXTENDS PositionSync, TLC

CONSTANTS a1, a2, w1, w2

TwoAssets == {a1, a2}
OneWorker == {w1}
TwoWorkers == {w1, w2}
\* Nothing; collateral only; a debt without own collateral; a reserve that holds only dust.
MCStarts == {[a \in TwoAssets |-> IF a = b THEN x[1] ELSE x[2]] :
                b \in TwoAssets,
                x \in {<<<<0, 0>>, <<0, 0>>>>, <<<<3, 0>>, <<0, 0>>>>, <<<<3, 0>>, <<0, 3>>>>,
                       <<<<3, 3>>, <<1, 0>>>>}}
\* The worst start: the first log about a reserve may be preceded by its index or not.
MCStartIndexed == {{}}
\* The pool rounds down what RayDiv rounds up, but agrees with it about the debt covered.
MCRoundings == {<<FALSE, TRUE>>}
Symmetry == Permutations(TwoAssets)
=============================================================================
