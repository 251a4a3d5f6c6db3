---------------------------- MODULE MCRiskHeap ----------------------------
EXTENDS RiskHeap

CONSTANTS a, b, c, d, e, f

AllUsers == {a, b, c, d, e, f}
=============================================================================
