---- MODULE MCRiskEngine ----
(* Instances of RiskEngine for TLC: two users who share a short queue, or   *)
(* one user whom two workers may process at the same time.                  *)
EXTENDS RiskEngine, TLC
CONSTANTS u1, u2, w1, w2

OneUser    == {u1}
TwoUsers   == {u1, u2}
OneWorker  == {w1}
TwoWorkers == {w1, w2}

\* The factors on the chain: all a verification tells apart, only one, or two.
AllChain   == [u \in Users |-> {Under, Low, Safe}]
FewChain   == [u \in Users |-> IF u = u1 THEN {Under} ELSE {Border}]
TwoChain   == [u \in Users |-> {Under, Safe}]

\* Those a change may leave the stored state at.
AllStored == [u \in Users |-> HF \cup {NoHF}]
FewStored == [u \in Users |-> IF u = u1 THEN {Under} ELSE {Border}]

\* The two workers are alike.
AnyWorker == Permutations(TwoWorkers)
====
