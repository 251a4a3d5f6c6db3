---- MODULE MCRPCClient ----
(* Instances of RPCClient for TLC: as many nodes as a call has attempts,    *)
(* shared by one or two callers.                                            *)
EXTENDS RPCClient
CONSTANTS c1, c2

OneCaller  == {c1}
TwoCallers == {c1, c2}
====
