---- MODULE MCLogReplay ----
(* Instances of LogReplay for TLC: one borrower, who is subscribed to the   *)
(* reserve, or two of whom one is; a few blocks after the anchor.           *)
EXTENDS LogReplay
CONSTANTS u1, u2

OneUser  == {u1}
TwoUsers == {u1, u2}
====
