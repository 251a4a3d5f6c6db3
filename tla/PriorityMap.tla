---------------------------- MODULE PriorityMap ----------------------------
(***************************************************************************)
(* What updateHeap promises its callers: a map from the users under watch  *)
(* to their health factors.  A call holds the lock for a while, changes    *)
(* the factor of its own user at some moment of that time, and never that  *)
(* of anybody else.                                                        *)
(***************************************************************************)
EXTENDS Integers

CONSTANTS
    Users,      \* addresses
    NoUser,     \* nobody holds the lock
    Safe        \* HFSafetyThreshold, 1.05

NoHF == -1      \* the user is not watched

VARIABLES
    map,
    call        \* the call that holds the lock: its user, and what it asks for

Free == [user |-> NoUser, hf |-> NoHF]

Init == map = [u \in Users |-> NoHF] /\ call = Free

\* The user shall be watched with the factor h, or no longer.
Begin(u, h) ==
    /\ call = Free
    /\ call' = [user |-> u, hf |-> h]
    /\ map' = map \/ map' = [map EXCEPT ![u] = h]

\* The lock is released: what was asked for has been done, and nothing else.
End ==
    /\ call # Free
    /\ call' = Free
    /\ map' = [map EXCEPT ![call.user] = call.hf]

Next == End \/ \E u \in Users, h \in NoHF .. (Safe - 1) : Begin(u, h)

Spec == Init /\ [][Next]_<<map, call>>
=============================================================================
