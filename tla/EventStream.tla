---- MODULE EventStream ----
(***************************************************************************)
(* What the log replay engine promises to the rest of the bot: the chain   *)
(* emits a journal of pool events, and the off-chain state applies that    *)
(* journal from its first entry on, in order, leaving none out and         *)
(* repeating none.  How the two sources of events (eth_getLogs for the     *)
(* past, a WebSocket subscription for the present) are merged to obtain    *)
(* this is the subject of LogReplay, which implements this specification.  *)
(***************************************************************************)
EXTENDS Naturals, Sequences

VARIABLES journal,   \* the events the chain has emitted, oldest first
          applied    \* the events the off-chain state reflects, in the order applied

Init == journal = <<>> /\ applied = <<>>

\* The chain emits one or several events.
Emit ==
  /\ Len(journal) < Len(journal')
  /\ SubSeq(journal', 1, Len(journal)) = journal
  /\ UNCHANGED applied

\* The off-chain state takes the next event it does not reflect yet.
Apply ==
  /\ Len(applied) < Len(journal)
  /\ applied' = Append(applied, journal[Len(applied) + 1])
  /\ UNCHANGED journal

Next == Emit \/ Apply

Spec == Init /\ [][Next]_<<journal, applied>>
====
