---------------------------- MODULE MCPriceFeed -----------------------------
EXTENDS PriceFeed

CONSTANTS u1, u2, a1, a2, w1, w2, p1, p2

OneUser == {u1}
TwoUsers == {u1, u2}
OneAsset == {a1}
TwoAssets == {a1, a2}
OneWorker == {w1}
TwoWorkers == {w1, w2}
OnePrice == {p1}
TwoPrices == {p1, p2}
=============================================================================
