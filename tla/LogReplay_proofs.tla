---- MODULE LogReplay_proofs ----
(***************************************************************************)
(* Theorems about LogReplay, for every set of users, chain length, chunk   *)
(* size and buffer capacity.                                               *)
(***************************************************************************)
EXTENDS LogReplay, SequenceTheorems, TLAPS

\* A sequence is a function of its positions.
LEMMA SeqDomain ==
  ASSUME NEW S, NEW s \in Seq(S)
  PROVE  /\ Len(s) \in Nat /\ DOMAIN s = 1 .. Len(s)
         /\ \A i \in DOMAIN s : s[i] \in S
OBVIOUS

\* A block holds logs of its own height, in increasing order, none withdrawn.
LEMMA BlockEvents ==
  ASSUME NEW b \in Blocks, NEW s \in EventsOf(b)
  PROVE  /\ s \in Seq(Log)
         /\ \A i \in 1 .. Len(s) : s[i].block = b /\ ~s[i].removed
         /\ \A i, j \in 1 .. Len(s) : i < j => s[i].index < s[j].index
<1>1. PICK m \in 0 .. MaxLogs :
        s \in [1 .. m -> [block : {b}, index : 0 .. MaxIndex,
                          user : Users \cup {NoUser}, removed : {FALSE}]]
  BY DEF EventsOf
<1>2. m \in Nat /\ Len(s) = m /\ DOMAIN s = 1 .. m
  BY <1>1, LogReplayAssumption DEF LogReplayAssumption
<1>3. \A i \in 1 .. m : s[i] \in Log
  BY <1>1, <1>2 DEF Log
<1>4. s \in Seq(Log)
  BY <1>1, <1>2, <1>3
<1> QED BY <1>1, <1>2, <1>4 DEF EventsOf

\* The fields of the logs of a journal f, and of the positions h refers to.
LEMMA LogFields ==
  ASSUME NEW f \in Seq(Log), NEW h \in SUBSET (Nat \X (1 .. Len(f)))
  PROVE  /\ \A i \in 1 .. Len(f) :
              /\ f[i].block \in Nat /\ Anchor < f[i].block
              /\ f[i].index \in Nat
              /\ f[i].user \in Users \cup {NoUser}
              /\ f[i].removed \in BOOLEAN
         /\ \A e \in h : e[1] \in Nat /\ e[2] \in 1 .. Len(f) /\ e = <<e[1], e[2]>>
<1>1. \A i \in 1 .. Len(f) : f[i] \in Log
  OBVIOUS
<1>2. \A i \in 1 .. Len(f) : f[i].block \in Blocks /\ f[i].index \in 0 .. MaxIndex
  BY <1>1 DEF Log
<1>3. \A i \in 1 .. Len(f) : f[i].user \in Users \cup {NoUser} /\ f[i].removed \in BOOLEAN
  BY <1>1 DEF Log
<1>4. \A i \in 1 .. Len(f) : f[i].block \in Nat /\ Anchor < f[i].block /\ f[i].index \in Nat
  BY <1>2, LogReplayAssumption DEF LogReplayAssumption, Blocks
<1>5. \A e \in h : e[1] \in Nat /\ e[2] \in 1 .. Len(f) /\ e = <<e[1], e[2]>>
  OBVIOUS
<1> QED BY <1>3, <1>4, <1>5

\* Whoever is handed over, or was, is in the queue or known to have been refused.
LEMMA EnqueueEffect ==
  ASSUME TypeOK, NEW S, S \subseteq Users, Enqueue(S)
  PROVE  /\ queue' \subseteq Users /\ refused' \subseteq Users
         /\ queue \cup refused \cup S \subseteq queue' \cup refused'
<1>1. PICK dropped \in SUBSET S : /\ queue' = queue \cup (S \ dropped)
                                  /\ refused' = (refused \cup dropped) \ queue'
  BY DEF Enqueue
<1>2. queue \subseteq Users /\ refused \subseteq Users
  BY DEF TypeOK
<1> QED BY <1>1, <1>2

\* What the processing of one log may change, and that the types are kept.
LEMMA LogEffect ==
  ASSUME TypeOK, NEW i \in 1 .. Len(feed)
  PROVE  /\ MarkedBy(feed[i]) \subseteq Users /\ EnqueuedBy(feed[i]) \subseteq Users
         /\ DirtyAt(feed[i]) \subseteq Users /\ FlushedAt(feed[i]) \subseteq Users
         /\ Tx(feed[i]) \in Nat \X Nat
         /\ feed[i].block \in Nat /\ feed[i].index \in Nat
         /\ processLog(i) => /\ applied' \in Seq(1 .. Len(feed))
                             /\ uncomputed' \subseteq Users
<1> USE LogReplayAssumption DEF LogReplayAssumption
<1>1. feed[i] \in Log
  BY DEF TypeOK
<1>2. feed[i].block \in Nat /\ feed[i].index \in Nat /\ feed[i].user \in Users \cup {NoUser}
  BY <1>1 DEF Log, Blocks
<1>3. Tx(feed[i]) \in Nat \X Nat
  BY <1>2 DEF Tx
<1>4. /\ MarkedBy(feed[i]) \subseteq Users /\ EnqueuedBy(feed[i]) \subseteq Users
      /\ DirtyAt(feed[i]) \subseteq Users /\ FlushedAt(feed[i]) \subseteq Users
  BY <1>2 DEF TypeOK, MarkedBy, EnqueuedBy, DirtyAt, FlushedAt
<1>5. processLog(i) => applied' \in Seq(1 .. Len(feed))
  <2> DEFINE Positions == 1 .. Len(feed)
  <2>1. applied \in Seq(Positions) /\ i \in Positions
    BY DEF TypeOK
  <2> HIDE DEF Positions
  <2>2. applied \in Seq(Positions) /\ Append(applied, i) \in Seq(Positions)
    BY <2>1
  <2> QED BY <2>2 DEF processLog, Positions
<1>6. processLog(i) => uncomputed' \subseteq Users
  BY <1>4 DEF TypeOK, processLog
<1> QED BY <1>2, <1>3, <1>4, <1>5, <1>6

\* The journal only grows.
LEMMA JournalGrows ==
  ASSUME TypeOK, MineBlock \/ Reorg
  PROVE  /\ feed' \in Seq(Log) /\ Len(feed) <= Len(feed')
         /\ \A i \in 1 .. Len(feed) : feed'[i] = feed[i]
<1> USE LogReplayAssumption DEF LogReplayAssumption
<1>1. \E t \in Seq(Log) : feed' = feed \o t
  <2>1. CASE MineBlock
    <3>1. head + 1 \in Blocks
      BY <2>1 DEF MineBlock, TypeOK, Blocks
    <3>2. PICK s \in EventsOf(head + 1) : feed' = feed \o s
      BY <2>1 DEF MineBlock
    <3> QED BY <3>1, <3>2, BlockEvents
  <2>2. CASE Reorg
    <3>1. head \in Blocks
      BY <2>2 DEF Reorg, TypeOK, Blocks
    <3>2. PICK first \in 1 .. Len(feed) + 1, s \in EventsOf(head) :
            feed' = feed \o [i \in 1 .. Len(feed) + 1 - first |-> Withdrawn(feed[first + i - 1])] \o s
      BY <2>2 DEF Reorg
    <3> DEFINE W == [i \in 1 .. Len(feed) + 1 - first |-> Withdrawn(feed[first + i - 1])]
    <3>3. s \in Seq(Log)
      BY <3>1, BlockEvents
    <3>4. W \in Seq(Log)
      <4>1. \A l \in Log : Withdrawn(l) \in Log
        BY DEF Log, Withdrawn
      <4>2. \A i \in 1 .. Len(feed) + 1 - first : feed[first + i - 1] \in Log
        BY DEF TypeOK
      <4>3. Len(feed) + 1 - first \in Nat
        BY DEF TypeOK
      <4>4. \A i \in 1 .. Len(feed) + 1 - first : Withdrawn(feed[first + i - 1]) \in Log
        BY <4>1, <4>2
      <4> QED BY <4>3, <4>4
    <3> HIDE DEF W
    <3>5. feed' = feed \o (W \o s) /\ W \o s \in Seq(Log)
      <4>1. feed' = (feed \o W) \o s
        BY <3>2 DEF W
      <4>2. feed \in Seq(Log) /\ W \o s \in Seq(Log)
        BY <3>3, <3>4 DEF TypeOK
      <4>3. (feed \o W) \o s = feed \o (W \o s)
        BY <4>2, <3>3, <3>4, ConcatAssociative
      <4> QED BY <4>1, <4>2, <4>3
    <3> QED BY <3>5
  <2> QED BY <2>1, <2>2
<1>2. PICK t \in Seq(Log) : feed' = feed \o t
  BY <1>1
<1> QED BY <1>2 DEF TypeOK

\* log_replay_engine.go:24-36.  The engine's fields keep their types: the buffer
\* stays within its capacity, the positions within what was emitted.
THEOREM TypeCorrect == Spec => []TypeOK
<1> USE LogReplayAssumption DEF LogReplayAssumption
<1>1. Init => TypeOK
  <2> SUFFICES ASSUME Init PROVE TypeOK
    OBVIOUS
  <2>1. feed \in Seq(Log) /\ applied \in Seq(1 .. Len(feed)) /\ Len(feed) = 0
    BY DEF Init
  <2>2. currentTxHash \in Nat \X Nat
    BY DEF Init, NoTx
  <2>3. read - popped <= BufferCap
    BY DEF Init
  <2>4. feed \in Seq(Log)
    BY DEF Init
  <2>5. read \in 0 .. Len(feed) /\ popped \in 0 .. read
    BY <2>1 DEF Init
  <2>6. head \in Anchor .. MaxBlock /\ currentBlock \in Nat
    BY DEF Init
  <2> QED BY <2>1, <2>2, <2>3, <2>4, <2>5, <2>6 DEF Init, TypeOK
<1>2. TypeOK /\ [Next]_vars => TypeOK'
  <2> SUFFICES ASSUME TypeOK, [Next]_vars PROVE TypeOK'
    OBVIOUS
  <2>1. CASE MineBlock \/ Reorg
    <3>1. feed' \in Seq(Log) /\ Len(feed) <= Len(feed')
      BY <2>1, JournalGrows
    <3>2. applied \in Seq(1 .. Len(feed'))
      <4> DEFINE Old == 1 .. Len(feed)
                 New == 1 .. Len(feed')
      <4>1. applied \in Seq(Old)
        BY DEF TypeOK
      <4>2. Old \subseteq New
        BY <3>1 DEF TypeOK
      <4> HIDE DEF Old, New
      <4>3. applied \in Seq(New)
        BY <4>1, <4>2
      <4> QED BY <4>3 DEF New
    <3>3. head' \in Anchor .. MaxBlock
      BY <2>1 DEF MineBlock, Reorg, TypeOK
    <3>4. historic' \subseteq Nat \X (1 .. Len(feed'))
      BY <2>1, <3>1 DEF MineBlock, Reorg, start, TypeOK
    <3>5. read' \in 0 .. Len(feed') /\ popped' \in 0 .. read' /\ read' - popped' <= BufferCap
      <4>1. read' = read /\ popped' = popped
        BY <2>1 DEF MineBlock, Reorg, socket
      <4>2. /\ read \in Nat /\ read <= Len(feed) /\ Len(feed) \in Nat
            /\ popped \in 0 .. read /\ read - popped <= BufferCap
        BY DEF TypeOK
      <4>3. Len(feed') \in Nat
        BY <3>1
      <4> QED BY <3>1, <4>1, <4>2, <4>3
    <3> QED BY <2>1, <3>1, <3>2, <3>3, <3>4, <3>5
            DEF TypeOK, MineBlock, Reorg, socket, start, cursor, batch, effect
  <2>3. CASE Subscribe
    BY <2>3 DEF Subscribe, TypeOK, node, cursor, batch, effect
  <2>4. CASE ActivateSubscription
    BY <2>4 DEF ActivateSubscription, TypeOK, node, start, cursor, batch, effect
  <2>5. CASE ReadWS
    BY <2>5 DEF ReadWS, TypeOK, node, start, cursor, batch, effect
  <2>6. CASE ReaderDies
    BY <2>6 DEF ReaderDies, TypeOK, node, start, cursor, batch, effect
  <2>7. CASE FetchLatestBlock
    BY <2>7 DEF FetchLatestBlock, NodeHeads, TypeOK, node, socket, cursor, batch, effect
  <2>8. CASE FetchChunk
    BY <2>8 DEF FetchChunk, NextChunk, Canonical, TypeOK, node, socket, cursor, batch, effect
  <2>9. CASE StartFails
    BY <2>9 DEF StartFails, TypeOK, node, cursor, batch, effect
  <2>10. CASE ReplayLog
    <3>1. PICK e \in historic :
            /\ processLog(e[2])
            /\ currentTxHash' = Tx(feed[e[2]])
            /\ dirtyUsers' = DirtyAt(feed[e[2]]) \cup MarkedBy(feed[e[2]])
            /\ Enqueue(FlushedAt(feed[e[2]]) \cup EnqueuedBy(feed[e[2]]))
            /\ lastProcessedBlock' = feed[e[2]].block
            /\ lastProcessedLogIndex' = feed[e[2]].index
            /\ historic' = historic \ {e}
      BY <2>10 DEF ReplayLog
    <3>2. e[2] \in 1 .. Len(feed) /\ feed[e[2]] \in Log
      BY DEF TypeOK
    <3>3. queue' \subseteq Users /\ refused' \subseteq Users
      BY <3>1, <3>2, LogEffect, EnqueueEffect
    <3> QED BY <2>10, <3>1, <3>2, <3>3, LogEffect DEF TypeOK, ReplayLog, node, socket
  <2>11. CASE FinishReplay
    <3>1. Enqueue(dirtyUsers) /\ dirtyUsers \subseteq Users
      BY <2>11 DEF FinishReplay, TypeOK
    <3>2. queue' \subseteq Users /\ refused' \subseteq Users
      BY <3>1, EnqueueEffect
    <3> QED BY <2>11, <3>2 DEF FinishReplay, TypeOK, node, socket, cursor
  <2>12. CASE LiveLog
    <3> DEFINE l == feed[popped + 1]
    <3>1. popped + 1 \in 1 .. Len(feed) /\ l \in Log
      <4>1. popped < read
        BY <2>12 DEF LiveLog
      <4>2. feed \in Seq(Log) /\ popped \in Nat /\ read \in Nat /\ read <= Len(feed)
        BY DEF TypeOK
      <4>3. popped + 1 \in 1 .. Len(feed)
        BY <4>1, <4>2
      <4> QED BY <4>2, <4>3
    <3>2. /\ currentBlock' \in Nat /\ currentTxHash' \in Nat \X Nat
          /\ lastProcessedBlock' \in Nat /\ lastProcessedLogIndex' \in Nat
      BY <2>12, <3>1, LogEffect DEF LiveLog, TypeOK, cursor
    <3>3. dirtyUsers' \subseteq Users /\ queue' \subseteq Users /\ refused' \subseteq Users
      <4>1. PICK S : S \subseteq Users /\ Enqueue(S)
        BY <2>12, <3>1, LogEffect DEF LiveLog
      <4>2. dirtyUsers' \subseteq Users
        BY <2>12, <3>1, LogEffect DEF LiveLog, TypeOK
      <4> QED BY <4>1, <4>2, EnqueueEffect
    <3>4. applied' \in Seq(1 .. Len(feed)) /\ uncomputed' \subseteq Users
      BY <2>12, <3>1, LogEffect DEF LiveLog, TypeOK
    <3>5. popped' \in 0 .. read /\ read - popped' <= BufferCap
      <4>1. popped' = popped + 1 /\ popped < read
        BY <2>12 DEF LiveLog
      <4>2. read \in Nat /\ popped \in Nat /\ read - popped <= BufferCap /\ BufferCap \in Nat
        BY DEF TypeOK
      <4> QED BY <4>1, <4>2
    <3>6. UNCHANGED <<head, feed, active, reader, read, phase, bWs, fetchFrom, historic>>
      BY <2>12 DEF LiveLog, node, start
    <3> QED BY <3>2, <3>3, <3>4, <3>5, <3>6 DEF TypeOK
  <2>13. CASE Stop
    BY <2>13 DEF Stop, TypeOK, node, cursor, batch, effect
  <2>14. ASSUME NEW u \in Users, WorkerTake(u) PROVE TypeOK'
    BY <2>14 DEF WorkerTake, TypeOK, node, socket, start, cursor, batch
  <2>15. CASE UNCHANGED vars
    BY <2>15 DEF vars, TypeOK, node, socket, start, cursor, batch, effect
  <2> QED BY <2>1, <2>3, <2>4, <2>5, <2>6, <2>7, <2>8, <2>9, <2>10, <2>11,
             <2>12, <2>13, <2>14, <2>15 DEF Next
<1> QED BY <1>1, <1>2, PTL DEF Spec

\* What makes the next theorem inductive: nothing is buffered before the node
\* serves the subscription.
Untouched == ~active => popped = 0 /\ read = 0

LEMMA UntouchedInvariant == Spec => []Untouched
<1>1. Init => Untouched
  BY DEF Init, Untouched
<1>2. Untouched /\ [Next]_vars => Untouched'
  BY DEF Untouched, Next, vars, node, socket, start, MineBlock, Reorg, Subscribe,
         ActivateSubscription, ReadWS, ReaderDies, FetchLatestBlock, FetchChunk, StartFails,
         ReplayLog, FinishReplay, LiveLog, Stop, WorkerTake
<1> QED BY <1>1, <1>2, PTL DEF Spec

\* log_replay_engine.go:71-81, 529, 548-565.  Whatever the nodes do, a user whose
\* position changed is not forgotten: it waits in dirtyUsers or in the queue until
\* a worker takes it, or found the queue full at its last hand-over; and the live
\* loop never idles with a dirty user.
THEOREM NeverForgotten == Spec => []NoUserForgotten
<1> USE LogReplayAssumption DEF LogReplayAssumption
<1>1. Init => NoUserForgotten
  BY DEF Init, NoUserForgotten
<1>2. TypeOK /\ Untouched /\ NoUserForgotten /\ [Next]_vars => NoUserForgotten'
  <2> SUFFICES ASSUME TypeOK, Untouched, NoUserForgotten, [Next]_vars PROVE NoUserForgotten'
    OBVIOUS
  <2>1. CASE ReplayLog
    <3>1. PICK e \in historic :
            /\ processLog(e[2])
            /\ dirtyUsers' = DirtyAt(feed[e[2]]) \cup MarkedBy(feed[e[2]])
            /\ Enqueue(FlushedAt(feed[e[2]]) \cup EnqueuedBy(feed[e[2]]))
      BY <2>1 DEF ReplayLog
    <3>2. e[2] \in 1 .. Len(feed)
      BY DEF TypeOK
    <3>3. queue \cup refused \cup FlushedAt(feed[e[2]]) \cup EnqueuedBy(feed[e[2]])
            \subseteq queue' \cup refused'
      BY <3>1, <3>2, LogEffect, EnqueueEffect
    <3>4. uncomputed' \subseteq uncomputed \cup MarkedBy(feed[e[2]]) \cup EnqueuedBy(feed[e[2]])
      BY <3>1 DEF processLog
    <3>5. dirtyUsers = DirtyAt(feed[e[2]]) \cup FlushedAt(feed[e[2]])
      BY DEF DirtyAt, FlushedAt
    <3>6. uncomputed' \subseteq dirtyUsers' \cup queue' \cup refused'
      BY <3>1, <3>3, <3>4, <3>5 DEF NoUserForgotten
    <3> QED BY <2>1, <3>6 DEF ReplayLog, NoUserForgotten
  <2>2. CASE FinishReplay
    <3>1. queue \cup refused \cup dirtyUsers \subseteq queue' \cup refused'
      BY <2>2, EnqueueEffect DEF FinishReplay, TypeOK
    <3> QED BY <2>2, <3>1 DEF FinishReplay, NoUserForgotten
  <2>3. CASE LiveLog
    <3> DEFINE l == feed[popped + 1]
               fresh == ~isDuplicate(l)
    <3>1. dirtyUsers = DirtyAt(l) \cup FlushedAt(l)
      BY DEF DirtyAt, FlushedAt
    <3>2. uncomputed' \subseteq uncomputed
                                 \cup (IF fresh THEN MarkedBy(l) \cup EnqueuedBy(l) ELSE {})
      BY <2>3 DEF LiveLog, processLog
    <3>3. queue \cup refused \cup DirtyAt(l) \cup FlushedAt(l)
            \cup (IF fresh THEN MarkedBy(l) \cup EnqueuedBy(l) ELSE {})
            \subseteq dirtyUsers' \cup queue' \cup refused'
      <4> DEFINE marked == DirtyAt(l) \cup (IF fresh THEN MarkedBy(l) ELSE {})
                 direct == FlushedAt(l) \cup (IF fresh THEN EnqueuedBy(l) ELSE {})
                 idle   == popped + 1 = read
      <4>1. popped + 1 \in 1 .. Len(feed)
        BY <2>3 DEF LiveLog, TypeOK
      <4>2. /\ Enqueue(direct \cup (IF idle THEN marked ELSE {}))
            /\ dirtyUsers' = IF idle THEN {} ELSE marked
        BY <2>3 DEF LiveLog
      <4>3. marked \subseteq Users /\ direct \subseteq Users
        BY <4>1, LogEffect
      <4>4. queue \cup refused \cup direct \cup (IF idle THEN marked ELSE {})
              \subseteq queue' \cup refused'
        <5> DEFINE S == direct \cup (IF idle THEN marked ELSE {})
        <5>1. S \subseteq Users /\ Enqueue(S)
          BY <4>2, <4>3
        <5> HIDE DEF S
        <5>2. queue \cup refused \cup S \subseteq queue' \cup refused'
          BY <5>1, EnqueueEffect
        <5> QED BY <5>2 DEF S
      <4> QED BY <4>2, <4>4
    <3>4. popped' = read' => dirtyUsers' = {}
      BY <2>3 DEF LiveLog
    <3> QED BY <3>1, <3>2, <3>3, <3>4 DEF NoUserForgotten
  <2>4. ASSUME NEW u \in Users, WorkerTake(u) PROVE NoUserForgotten'
    BY <2>4 DEF WorkerTake, NoUserForgotten, socket, start, batch
  <2>5. CASE ReadWS
    BY <2>5 DEF ReadWS, NoUserForgotten, TypeOK, start, batch, effect
  <2>6. CASE ActivateSubscription
    BY <2>6 DEF ActivateSubscription, NoUserForgotten, Untouched, start, batch, effect
  <2>7. CASE MineBlock \/ Reorg \/ Subscribe \/ ReaderDies \/ FetchLatestBlock \/ FetchChunk
             \/ StartFails \/ Stop \/ UNCHANGED vars
    BY <2>7 DEF MineBlock, Reorg, Subscribe, ReaderDies, FetchLatestBlock, FetchChunk,
                StartFails, Stop, vars, NoUserForgotten, socket, start, batch, effect
  <2> QED BY <2>1, <2>2, <2>3, <2>4, <2>5, <2>6, <2>7 DEF Next
<1> QED BY <1>1, <1>2, TypeCorrect, UntouchedInvariant, PTL DEF Spec

\* What makes the next theorem inductive: the history left to replay is not
\* before the cursor.
CursorInv ==
  /\ phase \in {"dial", "latest", "fetch"} =>
       lastProcessedBlock = 0 /\ lastProcessedLogIndex = 0
  /\ phase = "replay" =>
       \A e \in historic :
         \/ lastProcessedBlock < feed[e[2]].block
         \/ /\ lastProcessedBlock = feed[e[2]].block
            /\ lastProcessedLogIndex <= feed[e[2]].index

LEMMA CursorInvariant == Spec => []CursorInv
<1> USE LogReplayAssumption DEF LogReplayAssumption
<1>1. Init => CursorInv
  BY DEF Init, CursorInv
<1>2. TypeOK /\ TypeOK' /\ CursorInv /\ [Next]_vars => CursorInv'
  <2> SUFFICES ASSUME TypeOK, TypeOK', CursorInv, [Next]_vars PROVE CursorInv'
    OBVIOUS
  <2>0. /\ \A i \in 1 .. Len(feed) : feed[i].block \in Nat /\ feed[i].index \in Nat
        /\ \A e \in historic : e[2] \in 1 .. Len(feed)
    BY LogFields DEF TypeOK
  <2>1. CASE ReplayLog
    <3>1. PICK e \in historic :
            /\ \A f \in historic : ~Less(feed[f[2]], feed[e[2]])
            /\ lastProcessedBlock' = feed[e[2]].block
            /\ lastProcessedLogIndex' = feed[e[2]].index
            /\ historic' = historic \ {e}
      BY <2>1 DEF ReplayLog, Earliest
    <3>2. \A f \in historic' :
            \/ feed[e[2]].block < feed[f[2]].block
            \/ feed[e[2]].block = feed[f[2]].block /\ feed[e[2]].index <= feed[f[2]].index
      BY <2>0, <3>1 DEF Less
    <3> QED BY <2>1, <3>1, <3>2 DEF ReplayLog, CursorInv, node
  <2>2. CASE FetchChunk \/ FetchLatestBlock
    <3>1. /\ \A i \in 1 .. Len(feed') : feed'[i].block \in Nat /\ feed'[i].block > 0
                                      /\ feed'[i].index \in Nat
          /\ \A e \in historic' : e[2] \in 1 .. Len(feed')
      <4>1. feed' \in Seq(Log) /\ historic' \in SUBSET (Nat \X (1 .. Len(feed')))
        BY DEF TypeOK
      <4> QED BY <4>1, LogFields
    <3> QED BY <2>2, <3>1 DEF FetchChunk, FetchLatestBlock, CursorInv, cursor
  <2>3. CASE MineBlock \/ Reorg
    <3>1. \A i \in 1 .. Len(feed) : feed'[i] = feed[i]
      BY <2>3, JournalGrows
    <3> QED BY <2>0, <2>3, <3>1 DEF MineBlock, Reorg, CursorInv, start, cursor
  <2>4. CASE Subscribe \/ ActivateSubscription \/ ReadWS \/ ReaderDies \/ StartFails
             \/ FinishReplay \/ LiveLog \/ Stop \/ UNCHANGED vars
    BY <2>4 DEF Subscribe, ActivateSubscription, ReadWS, ReaderDies, StartFails,
                FinishReplay, LiveLog, Stop, vars, CursorInv, node, start, cursor
  <2>5. ASSUME NEW u \in Users, WorkerTake(u) PROVE CursorInv'
    BY <2>5 DEF WorkerTake, CursorInv, node, start, cursor
  <2> QED BY <2>1, <2>2, <2>3, <2>4, <2>5 DEF Next
<1> QED BY <1>1, <1>2, TypeCorrect, PTL DEF Spec

\* log_replay_engine.go:514-534, 555-560.  Whatever the nodes do, the cursor that
\* recognises duplicates never moves backwards.
THEOREM CursorMonotone == Spec => CursorNeverBack
<1> USE LogReplayAssumption DEF LogReplayAssumption
<1> DEFINE Forward ==
      \/ lastProcessedBlock < lastProcessedBlock'
      \/ /\ lastProcessedBlock = lastProcessedBlock'
         /\ lastProcessedLogIndex <= lastProcessedLogIndex'
<1>1. TypeOK /\ CursorInv /\ [Next]_vars => [Forward]_vars
  <2> SUFFICES ASSUME TypeOK, CursorInv, Next PROVE Forward
    OBVIOUS
  <2>0. /\ \A i \in 1 .. Len(feed) : feed[i].block \in Nat /\ feed[i].index \in Nat
        /\ \A e \in historic : e[2] \in 1 .. Len(feed)
    BY LogFields DEF TypeOK
  <2>1. CASE ReplayLog
    BY <2>1 DEF ReplayLog, CursorInv
  <2>2. CASE FinishReplay
    BY <2>2 DEF FinishReplay, TypeOK, cursor
  <2>3. CASE LiveLog
    <3>1. /\ popped + 1 \in 1 .. Len(feed)
          /\ lastProcessedBlock \in Nat /\ lastProcessedLogIndex \in Nat
      BY <2>3 DEF LiveLog, TypeOK
    <3>2. CASE isDuplicate(feed[popped + 1])
      BY <2>3, <3>1, <3>2 DEF LiveLog, cursor
    <3>3. CASE ~isDuplicate(feed[popped + 1])
      BY <2>0, <2>3, <3>1, <3>3 DEF LiveLog, isDuplicate
    <3> QED BY <3>2, <3>3
  <2>4. CASE UNCHANGED cursor
    BY <2>4 DEF cursor, TypeOK
  <2> QED BY <2>1, <2>2, <2>3, <2>4
          DEF Next, MineBlock, Reorg, Subscribe, ActivateSubscription, ReadWS, ReaderDies,
              FetchLatestBlock, FetchChunk, StartFails, Stop, WorkerTake
<1> QED BY <1>1, TypeCorrect, CursorInvariant, PTL DEF Spec, CursorNeverBack

\* What the flush of the dirty users needs besides: the transaction at hand is the
\* one the cursor is in.
TxInv ==
  /\ phase \in {"dial", "latest", "fetch"} => currentTxHash = NoTx
  /\ phase = "replay" =>
       \/ currentTxHash = NoTx
       \/ currentTxHash = <<lastProcessedBlock, 1 + (lastProcessedLogIndex \div TxSpan)>>

LEMMA TxInvariant == Spec => []TxInv
<1>1. Init => TxInv
  BY DEF Init, TxInv
<1>2. TxInv /\ [Next]_vars => TxInv'
  <2> SUFFICES ASSUME TxInv, [Next]_vars PROVE TxInv'
    OBVIOUS
  <2>1. CASE ReplayLog
    BY <2>1 DEF ReplayLog, Tx, TxInv
  <2>2. CASE FinishReplay \/ LiveLog
    BY <2>2 DEF FinishReplay, LiveLog, TxInv, start
  <2>3. CASE UNCHANGED <<currentTxHash, cursor>>
             /\ (phase' # phase => phase \in {"dial", "latest", "fetch"} \/ phase' = "stopped")
    BY <2>3 DEF TxInv, cursor
  <2>4. CASE MineBlock \/ Reorg \/ Subscribe \/ ActivateSubscription \/ ReadWS \/ ReaderDies
             \/ FetchLatestBlock \/ FetchChunk \/ StartFails \/ Stop \/ UNCHANGED vars
    BY <2>3, <2>4 DEF MineBlock, Reorg, Subscribe, ActivateSubscription, ReadWS, ReaderDies,
         FetchLatestBlock, FetchChunk, StartFails, Stop, vars, start, batch
  <2>5. ASSUME NEW u \in Users, WorkerTake(u) PROVE TxInv'
    BY <2>3, <2>5 DEF WorkerTake, start, batch
  <2> QED BY <2>1, <2>2, <2>4, <2>5 DEF Next
<1> QED BY <1>1, <1>2, PTL DEF Spec

\* Transactions are numbered in the order of the logs.
LEMMA Numbered ==
  ASSUME NEW i \in Nat, NEW j \in Nat, i <= j
  PROVE  i \div TxSpan \in Nat /\ i \div TxSpan <= j \div TxSpan
<1> USE LogReplayAssumption DEF LogReplayAssumption
<1> DEFINE q == i \div TxSpan
           r == j \div TxSpan
<1>1. /\ q \in Nat /\ TxSpan * q <= i /\ i < TxSpan * q + TxSpan
      /\ r \in Nat /\ TxSpan * r <= j /\ j < TxSpan * r + TxSpan
  OBVIOUS
<1> HIDE DEF q, r
<1>2. ASSUME r < q PROVE FALSE
  <2>1. r + 1 <= q
    BY <1>1, <1>2
  <2>2. TxSpan * (r + 1) <= TxSpan * q
    BY <1>1, <2>1
  <2>3. TxSpan * (r + 1) = TxSpan * r + TxSpan
    BY <1>1
  <2> QED BY <1>1, <2>2, <2>3
<1>3. q \in Nat /\ q <= r
  BY <1>1, <1>2
<1> QED BY <1>3 DEF q, r

\* log_replay_engine.go:516-520.  Whatever the nodes answer, for every number of logs a
\* transaction has: during the replay no user is handed to the risk engine while a log
\* of the transaction that changed its position is still to come.
THEOREM TransactionsWhole == Spec => FlushedByTransaction
<1> DEFINE Whole == phase = "replay" /\ ~(dirtyUsers \subseteq dirtyUsers')
                      => \A e \in historic : Tx(feed[e[2]]) # currentTxHash
<1>1. TypeOK /\ CursorInv /\ TxInv /\ [Next]_vars => [Whole]_vars
  <2> SUFFICES ASSUME TypeOK, CursorInv, TxInv, Next, phase = "replay", ~(dirtyUsers \subseteq dirtyUsers'),
                      NEW f \in historic
               PROVE  Tx(feed[f[2]]) # currentTxHash
    OBVIOUS
  <2>0. /\ \A i \in 1 .. Len(feed) : feed[i].block \in Nat /\ feed[i].index \in Nat
        /\ \A e \in historic : e[2] \in 1 .. Len(feed)
        /\ lastProcessedBlock \in Nat /\ lastProcessedLogIndex \in Nat
    BY LogFields DEF TypeOK
  <2>1. CASE ReplayLog
    <3>1. PICK e \in historic :
            /\ \A g \in historic : ~Less(feed[g[2]], feed[e[2]])
            /\ dirtyUsers' = DirtyAt(feed[e[2]]) \cup MarkedBy(feed[e[2]])
      BY <2>1 DEF ReplayLog, Earliest
    <3> DEFINE k == feed[e[2]]
               l == feed[f[2]]
    <3>2. Tx(k) # currentTxHash
      BY <3>1 DEF DirtyAt
    <3>3. /\ k.block \in Nat /\ k.index \in Nat /\ l.block \in Nat /\ l.index \in Nat
          /\ ~Less(l, k)
          /\ \/ lastProcessedBlock < k.block
             \/ lastProcessedBlock = k.block /\ lastProcessedLogIndex <= k.index
      BY <2>0, <3>1 DEF CursorInv
    <3> HIDE DEF k, l
    <3>4. \/ currentTxHash = NoTx
          \/ currentTxHash = <<lastProcessedBlock, 1 + (lastProcessedLogIndex \div TxSpan)>>
      BY DEF TxInv
    <3>5. \A i \in Nat : i \div TxSpan \in Nat
      BY Numbered
    <3>6. CASE currentTxHash = NoTx
      <4>1. 1 + (l.index \div TxSpan) # 0
        BY <3>3, <3>5
      <4> QED BY <3>6, <4>1 DEF Tx, NoTx, l
    <3>7. CASE currentTxHash = <<lastProcessedBlock, 1 + (lastProcessedLogIndex \div TxSpan)>>
      <4>1. SUFFICES ASSUME Tx(l) = currentTxHash PROVE FALSE
        BY DEF l
      <4>2. l.block = lastProcessedBlock /\ l.index \div TxSpan = lastProcessedLogIndex \div TxSpan
        <5> DEFINE a == l.index \div TxSpan
                   b == lastProcessedLogIndex \div TxSpan
        <5>1. a \in Nat /\ b \in Nat
          BY <2>0, <3>3, <3>5
        <5> HIDE DEF a, b
        <5>2. <<l.block, 1 + a>> = <<lastProcessedBlock, 1 + b>>
          BY <3>7, <4>1 DEF Tx, a, b
        <5>3. l.block = lastProcessedBlock /\ 1 + a = 1 + b
          BY <5>2
        <5> QED BY <5>1, <5>3 DEF a, b
      <4>3. k.block = lastProcessedBlock /\ lastProcessedLogIndex <= k.index /\ k.index <= l.index
        BY <2>0, <3>3, <4>2 DEF Less
      <4>4. k.index \div TxSpan = lastProcessedLogIndex \div TxSpan
        <5>1. lastProcessedLogIndex \div TxSpan <= k.index \div TxSpan /\ k.index \div TxSpan <= l.index \div TxSpan
          BY <2>0, <3>3, <4>3, Numbered
        <5>2. lastProcessedLogIndex \div TxSpan \in Nat /\ k.index \div TxSpan \in Nat
          BY <2>0, <3>3, <3>5
        <5> QED BY <4>2, <5>1, <5>2
      <4> QED BY <3>2, <3>7, <4>3, <4>4 DEF Tx
    <3> QED BY <3>4, <3>6, <3>7
  <2>2. CASE FinishReplay
    BY <2>2 DEF FinishReplay
  <2>3. CASE LiveLog
    BY <2>3 DEF LiveLog
  <2>4. CASE UNCHANGED dirtyUsers
    BY <2>4
  <2> QED BY <2>1, <2>2, <2>3, <2>4
          DEF Next, MineBlock, Reorg, Subscribe, ActivateSubscription, ReadWS, ReaderDies,
              FetchLatestBlock, FetchChunk, StartFails, Stop, WorkerTake, batch
<1> QED BY <1>1, TypeCorrect, CursorInvariant, TxInvariant, PTL DEF Spec, FlushedByTransaction

n == Len(applied)

\* The assumptions on the nodes under which the merge of history and
\* subscription is exact.
Truthful == ~Reorgs /\ ~LaggingNodes /\ ~LateAck

\* The chain: logs come in increasing order and none is withdrawn.
ChainInv ==
  /\ \A i, j \in 1 .. Len(feed) : i < j => Less(feed[i], feed[j])
  /\ \A i \in 1 .. Len(feed) : feed[i].block <= head /\ ~feed[i].removed

\* The store reflects a prefix of the chain's events.
PrefixInv == n <= Len(feed) /\ \A i \in 1 .. n : applied[i] = i

\* Before the replay nothing is applied, and nothing is buffered from before
\* the boundary block on.
StartInv ==
  /\ phase \in {"dial", "latest", "fetch"} =>
       applied = <<>> /\ lastProcessedBlock = 0 /\ lastProcessedLogIndex = 0
  /\ phase \in {"dial", "latest"} => historic = {}
  /\ phase = "dial" => ~active /\ reader = "off"
  /\ ~active => popped = 0 /\ read = 0
  /\ phase \in {"fetch", "replay", "live"} => active \/ reader = "dead"
  /\ phase \in {"fetch", "replay"} =>
       /\ bWs <= head
       /\ \A i \in 1 .. popped : feed[i].block <= bWs

\* Every position is fetched at most once, and the chunks fetched so far hold
\* all the logs of their blocks.
Unique == \A e, f \in historic : e[2] = f[2] => e = f
FetchInv ==
  phase = "fetch" =>
    /\ Unique
    /\ Anchor < fetchFrom /\ fetchFrom <= bWs
    /\ \A i \in 1 .. Len(feed) :
         feed[i].block < fetchFrom <=> \E e \in historic : e[2] = i

\* What is left to replay is what the store does not reflect yet, up to the
\* boundary block; the cursor is the last log applied.
ReplayInv ==
  phase = "replay" =>
    /\ Unique
    /\ \A i \in 1 .. Len(feed) :
         (n < i /\ feed[i].block <= bWs) <=> \E e \in historic : e[2] = i
    /\ \A i \in 1 .. n : feed[i].block <= bWs
    /\ n = 0 => lastProcessedBlock = 0 /\ lastProcessedLogIndex = 0
    /\ n > 0 => /\ lastProcessedBlock = feed[n].block
                /\ lastProcessedLogIndex = feed[n].index

\* Live, the duplicates are exactly the logs the store reflects, and the next
\* message is either one of them or the first one the store does not reflect.
LiveInv ==
  phase = "live" =>
    /\ popped <= n
    /\ lastProcessedBlock <= head
    /\ \A i \in 1 .. Len(feed) : i <= n <=> isDuplicate(feed[i])

Parts == ChainInv /\ PrefixInv /\ StartInv /\ FetchInv /\ ReplayInv /\ LiveInv

\* A mined block adds logs that come after all the others.
LEMMA NewBlock ==
  ASSUME TypeOK, MineBlock
  PROVE  /\ Len(feed') \in Nat /\ Len(feed) <= Len(feed')
         /\ \A i \in 1 .. Len(feed) : feed'[i] = feed[i]
         /\ \A i \in Len(feed) + 1 .. Len(feed') :
              feed'[i].block = head + 1 /\ ~feed'[i].removed
         /\ \A i, j \in Len(feed) + 1 .. Len(feed') :
              i < j => feed'[i].index < feed'[j].index
<1> USE LogReplayAssumption DEF LogReplayAssumption
<1>1. head + 1 \in Blocks
  BY DEF MineBlock, TypeOK, Blocks
<1>2. PICK s \in EventsOf(head + 1) : feed' = feed \o s
  BY DEF MineBlock
<1>3. /\ s \in Seq(Log)
      /\ \A i \in 1 .. Len(s) : s[i].block = head + 1 /\ ~s[i].removed
      /\ \A i, j \in 1 .. Len(s) : i < j => s[i].index < s[j].index
  BY <1>1, BlockEvents
<1>4. /\ feed \in Seq(Log) /\ Len(feed') = Len(feed) + Len(s)
      /\ \A i \in 1 .. Len(feed) : feed'[i] = feed[i]
      /\ \A i \in Len(feed) + 1 .. Len(feed') : feed'[i] = s[i - Len(feed)]
  BY <1>2, <1>3 DEF TypeOK
<1>5. \A i \in Len(feed) + 1 .. Len(feed') : i - Len(feed) \in 1 .. Len(s)
  BY <1>3, <1>4
<1>6. Len(feed') \in Nat /\ Len(feed) <= Len(feed')
  BY <1>3, <1>4
<1>7. \A i \in Len(feed) + 1 .. Len(feed') : feed'[i].block = head + 1 /\ ~feed'[i].removed
  BY <1>3, <1>4, <1>5
<1>8. \A i, j \in Len(feed) + 1 .. Len(feed') : i < j => feed'[i].index < feed'[j].index
  <2> SUFFICES ASSUME NEW i \in Len(feed) + 1 .. Len(feed'), NEW j \in Len(feed) + 1 .. Len(feed'),
                      i < j
               PROVE  feed'[i].index < feed'[j].index
    OBVIOUS
  <2>1. i - Len(feed) < j - Len(feed)
    BY <1>4
  <2> QED BY <1>3, <1>4, <1>5, <2>1
<1> QED BY <1>4, <1>6, <1>7, <1>8

\* The facts about types the proofs below work with.
LEMMA Fields ==
  ASSUME TypeOK
  PROVE  /\ Len(feed) \in Nat /\ n \in Nat /\ head \in Nat /\ bWs \in Nat
         /\ Anchor \in Nat /\ Anchor <= head
         /\ fetchFrom \in Nat /\ ChunkSize \in Nat /\ ChunkSize > 0
         /\ read \in Nat /\ popped \in Nat /\ popped <= read /\ read <= Len(feed)
         /\ lastProcessedBlock \in Nat /\ lastProcessedLogIndex \in Nat
         /\ \A i \in 1 .. Len(feed) :
              feed[i].block \in Nat /\ Anchor < feed[i].block /\ feed[i].index \in Nat
<1>1. feed \in Seq(Log) /\ historic \in SUBSET (Nat \X (1 .. Len(feed)))
  BY DEF TypeOK
<1>2. n \in Nat
  BY DEF TypeOK, n
<1>3. \A i \in 1 .. Len(feed) :
        feed[i].block \in Nat /\ Anchor < feed[i].block /\ feed[i].index \in Nat
  BY <1>1, LogFields
<1>4. /\ head \in Nat /\ Anchor \in Nat /\ Anchor <= head
      /\ ChunkSize \in Nat /\ ChunkSize > 0
  BY LogReplayAssumption DEF TypeOK, LogReplayAssumption
<1>5. /\ Len(feed) \in Nat /\ bWs \in Nat /\ fetchFrom \in Nat
      /\ read \in Nat /\ popped \in Nat /\ popped <= read /\ read <= Len(feed)
      /\ lastProcessedBlock \in Nat /\ lastProcessedLogIndex \in Nat
  BY DEF TypeOK
<1> QED BY <1>2, <1>3, <1>4, <1>5

LEMMA HistoricFields ==
  ASSUME TypeOK
  PROVE  \A e \in historic : e[1] \in Nat /\ e[2] \in 1 .. Len(feed) /\ e = <<e[1], e[2]>>
<1>1. feed \in Seq(Log) /\ historic \in SUBSET (Nat \X (1 .. Len(feed)))
  BY DEF TypeOK
<1> QED BY <1>1, LogFields

\* The earliest log of the history left is the first one not applied yet.
LEMMA EarliestIsNext ==
  ASSUME TypeOK, ChainInv, PrefixInv, ReplayInv, phase = "replay",
         NEW e \in historic, Earliest(e)
  PROVE  e[2] = n + 1
<1>0. n \in Nat /\ Len(feed) \in Nat /\ e[2] \in 1 .. Len(feed)
  BY Fields, HistoricFields
<1>1. n < e[2] /\ feed[e[2]].block <= bWs
  <2>1. \E f \in historic : f[2] = e[2]
    OBVIOUS
  <2> QED BY <1>0, <2>1 DEF ReplayInv
<1>2. SUFFICES ASSUME n + 1 < e[2] PROVE FALSE
  BY <1>0, <1>1
<1>3. n + 1 \in 1 .. Len(feed)
  BY <1>0, <1>2
<1>4. Less(feed[n + 1], feed[e[2]])
  BY <1>0, <1>2, <1>3 DEF ChainInv
<1>5. feed[n + 1].block \in Nat /\ feed[e[2]].block \in Nat /\ bWs \in Nat
  BY <1>0, <1>3, Fields
<1>6. feed[n + 1].block <= bWs
  BY <1>1, <1>4, <1>5 DEF Less
<1>7. \E f \in historic : f[2] = n + 1
  <2>1. n < n + 1
    BY <1>0
  <2> QED BY <1>3, <1>6, <2>1 DEF ReplayInv
<1> QED BY <1>4, <1>7 DEF Earliest

\* Without reorganisations every position holds a log of the chain.
LEMMA AllCanonical ==
  ASSUME TypeOK, ChainInv
  PROVE  Canonical = 1 .. Len(feed)
<1>1. \A i, j \in 1 .. Len(feed) : feed[j] # Withdrawn(feed[i])
  <2> SUFFICES ASSUME NEW i \in 1 .. Len(feed), NEW j \in 1 .. Len(feed),
                      feed[j] = Withdrawn(feed[i])
               PROVE  FALSE
    OBVIOUS
  <2>1. feed[i] \in Log
    BY DEF TypeOK
  <2>2. feed[j].removed = TRUE
    BY <2>1 DEF Withdrawn, Log
  <2> QED BY <2>2 DEF ChainInv
<1>2. DOMAIN feed = 1 .. Len(feed) /\ Len(feed) \in Nat
  BY DEF TypeOK
<1>3. \A i \in 1 .. Len(feed) : i + 1 .. Len(feed) \subseteq 1 .. Len(feed)
  BY <1>2
<1> QED BY <1>1, <1>2, <1>3 DEF Canonical, ChainInv

LEMMA InitParts == Init => Parts
<1> SUFFICES ASSUME Init PROVE Parts
  OBVIOUS
<1>1. Len(feed) = 0 /\ n = 0
  BY DEF Init, n
<1> QED BY <1>1 DEF Init, Parts, ChainInv, PrefixInv, StartInv, FetchInv, ReplayInv, LiveInv

LEMMA MineBlockParts ==
  ASSUME TypeOK, Parts, MineBlock
  PROVE  Parts'
<1>1. /\ head' = head + 1 /\ UNCHANGED <<socket, start, cursor, applied>>
  BY DEF MineBlock, effect
<1>2. n' = n
  BY <1>1 DEF n
<1>3. \A i \in 1 .. Len(feed') :
        /\ feed'[i].block \in Nat /\ feed'[i].index \in Nat
        /\ i <= Len(feed) => i \in 1 .. Len(feed) /\ feed'[i] = feed[i]
        /\ Len(feed) < i => feed'[i].block = head + 1 /\ ~feed'[i].removed
  <2>1. feed' \in Seq(Log)
    BY JournalGrows
  <2>2. \A i \in 1 .. Len(feed') : feed'[i].block \in Nat /\ feed'[i].index \in Nat
    BY <2>1, LogFields
  <2>3. Len(feed) \in Nat
    BY Fields
  <2> QED BY <2>2, <2>3, NewBlock
<1>4. /\ Len(feed) \in Nat /\ Len(feed') \in Nat /\ Len(feed) <= Len(feed')
      /\ head \in Nat /\ n \in Nat /\ n <= Len(feed)
  BY Fields, NewBlock DEF Parts, PrefixInv
<1>5. \A i \in 1 .. Len(feed) : feed[i].block <= head /\ ~feed[i].removed
  BY DEF Parts, ChainInv
<1>6. ChainInv'
  <2>1. \A i \in 1 .. Len(feed') : feed'[i].block <= head' /\ ~feed'[i].removed
    BY <1>1, <1>3, <1>4, <1>5
  <2>2. \A i, j \in 1 .. Len(feed') : i < j => Less(feed'[i], feed'[j])
    <3> SUFFICES ASSUME NEW i \in 1 .. Len(feed'), NEW j \in 1 .. Len(feed'), i < j
                 PROVE  Less(feed'[i], feed'[j])
      OBVIOUS
    <3>1. CASE j <= Len(feed)
      <4>1. i \in 1 .. Len(feed) /\ j \in 1 .. Len(feed)
        BY <1>4, <3>1
      <4>2. Less(feed[i], feed[j])
        BY <4>1 DEF Parts, ChainInv
      <4> QED BY <1>3, <1>4, <4>1, <4>2
    <3>2. CASE i <= Len(feed) /\ Len(feed) < j
      BY <1>3, <1>4, <1>5, <3>2 DEF Less
    <3>3. CASE Len(feed) < i
      <4>1. i \in Len(feed) + 1 .. Len(feed') /\ j \in Len(feed) + 1 .. Len(feed')
        BY <1>4, <3>3
      <4> QED BY <4>1, <1>4, NewBlock DEF Less
    <3> QED BY <1>4, <3>1, <3>2, <3>3
  <2> QED BY <2>1, <2>2 DEF ChainInv
<1>7. PrefixInv'
  BY <1>1, <1>2, <1>4 DEF Parts, PrefixInv
<1>8. StartInv'
  <2>1. phase \in {"fetch", "replay"} =>
          bWs <= head' /\ \A i \in 1 .. popped : feed'[i].block <= bWs
    <3>1. popped \in Nat /\ popped <= Len(feed) /\ bWs \in Nat
      BY Fields
    <3>2. \A i \in 1 .. popped : i \in 1 .. Len(feed') /\ feed'[i] = feed[i]
      BY <1>3, <1>4, <3>1
    <3>3. phase \in {"fetch", "replay"} =>
            bWs <= head /\ \A i \in 1 .. popped : feed[i].block <= bWs
      BY DEF Parts, StartInv
    <3> QED BY <1>1, <1>4, <3>1, <3>2, <3>3
  <2> QED BY <1>1, <2>1 DEF Parts, StartInv, socket, start, cursor
<1>9. FetchInv'
  <2> SUFFICES ASSUME phase = "fetch" PROVE FetchInv'
    BY <1>1 DEF FetchInv, start
  <2>1. bWs <= head /\ fetchFrom <= bWs /\ fetchFrom \in Nat /\ bWs \in Nat
    BY Fields DEF Parts, StartInv, FetchInv
  <2>2. ASSUME NEW i \in 1 .. Len(feed')
        PROVE  feed'[i].block < fetchFrom <=> \E e \in historic : e[2] = i
    <3>1. CASE i <= Len(feed)
      BY <3>1, <1>3 DEF Parts, FetchInv
    <3>2. CASE Len(feed) < i
      <4>1. feed'[i].block = head + 1
        BY <1>3, <3>2
      <4>2. \A e \in historic : e[2] # i
        BY <1>4, <3>2, HistoricFields
      <4> QED BY <1>4, <2>1, <4>1, <4>2
    <3> QED BY <1>4, <3>1, <3>2
  <2> QED BY <1>1, <2>2 DEF Parts, FetchInv, Unique, start
<1>10. ReplayInv'
  <2> SUFFICES ASSUME phase = "replay" PROVE ReplayInv'
    BY <1>1 DEF ReplayInv, start
  <2>1. bWs <= head /\ bWs \in Nat
    BY Fields DEF Parts, StartInv
  <2>2. ASSUME NEW i \in 1 .. Len(feed')
        PROVE  (n < i /\ feed'[i].block <= bWs) <=> \E e \in historic : e[2] = i
    <3>1. CASE i <= Len(feed)
      BY <3>1, <1>3 DEF Parts, ReplayInv
    <3>2. CASE Len(feed) < i
      <4>1. feed'[i].block = head + 1
        BY <1>3, <3>2
      <4>2. \A e \in historic : e[2] # i
        BY <1>4, <3>2, HistoricFields
      <4> QED BY <1>4, <2>1, <4>1, <4>2
    <3> QED BY <1>4, <3>1, <3>2
  <2>3. \A i \in 1 .. n : feed'[i] = feed[i]
    BY <1>3, <1>4
  <2>4. n > 0 => n \in 1 .. n
    BY <1>4
  <2> QED BY <1>1, <1>2, <2>2, <2>3, <2>4 DEF Parts, ReplayInv, Unique, start, cursor
<1>11. LiveInv'
  <2> SUFFICES ASSUME phase = "live" PROVE LiveInv'
    BY <1>1 DEF LiveInv, start
  <2>1. lastProcessedBlock <= head /\ lastProcessedBlock \in Nat /\ popped <= n
    BY Fields DEF Parts, LiveInv
  <2>2. ASSUME NEW i \in 1 .. Len(feed')
        PROVE  i <= n <=> isDuplicate(feed'[i])
    <3>1. CASE i <= Len(feed)
      BY <3>1, <1>3 DEF Parts, LiveInv
    <3>2. CASE Len(feed) < i
      BY <3>2, <1>3, <1>4, <2>1 DEF isDuplicate
    <3> QED BY <1>4, <3>1, <3>2
  <2>3. /\ popped' = popped /\ lastProcessedBlock' = lastProcessedBlock
        /\ lastProcessedLogIndex' = lastProcessedLogIndex
    BY <1>1 DEF socket, cursor
  <2>4. popped' <= n' /\ lastProcessedBlock' <= head'
    BY <1>1, <1>2, <1>4, <2>1, <2>3
  <2>5. \A i \in 1 .. Len(feed') : i <= n' <=> isDuplicate(feed[i])'
    BY <1>2, <2>2, <2>3 DEF isDuplicate
  <2> QED BY <2>4, <2>5 DEF LiveInv
<1> QED BY <1>6, <1>7, <1>8, <1>9, <1>10, <1>11 DEF Parts

LEMMA FetchLatestBlockParts ==
  ASSUME Truthful, TypeOK, Parts, FetchLatestBlock
  PROVE  Parts'
<1>1. /\ phase = "latest"
      /\ active \/ reader = "dead"
      /\ bWs' = head /\ fetchFrom' = Anchor + 1
      /\ phase' = IF Anchor + 1 <= head THEN "fetch" ELSE "replay"
      /\ UNCHANGED <<node, socket, historic, cursor, applied>>
  BY DEF FetchLatestBlock, NodeHeads, Truthful, effect
<1>2. n' = n /\ n = 0 /\ historic' = {} /\ feed' = feed /\ head' = head
  <2>1. applied = <<>> /\ historic = {}
    <3>1. phase = "latest"
      BY <1>1
    <3> QED BY <3>1 DEF Parts, StartInv
  <2> QED BY <1>1, <2>1 DEF n, node
<1>3. \A i \in 1 .. Len(feed) : feed[i].block <= head
  BY DEF Parts, ChainInv
<1>4. ChainInv' /\ PrefixInv'
  BY <1>1, <1>2, Fields DEF Parts, ChainInv, PrefixInv
<1>5. StartInv'
  <2>1. \A i \in 1 .. popped : feed[i].block <= head
    <3>1. popped \in Nat /\ Len(feed) \in Nat /\ popped <= Len(feed)
      BY Fields
    <3> QED BY <1>3, <3>1
  <2>2. /\ popped' = popped /\ read' = read /\ active' = active /\ reader' = reader
        /\ bWs' <= head' /\ phase' \notin {"dial", "latest"}
    BY <1>1, <1>2, Fields DEF socket
  <2> QED BY <1>1, <1>2, <2>1, <2>2 DEF Parts, StartInv, cursor
<1>6. FetchInv'
  BY <1>1, <1>2, Fields DEF FetchInv, Unique
<1>7. ReplayInv'
  <2> SUFFICES ASSUME head < Anchor + 1 PROVE ReplayInv'
    BY <1>1, Fields DEF ReplayInv
  <2>1. \A i \in 1 .. Len(feed) : FALSE
    <3>1. head \in Nat /\ Anchor \in Nat
      BY Fields
    <3>2. \A i \in 1 .. Len(feed) : feed[i].block \in Nat /\ Anchor < feed[i].block
      BY Fields
    <3> QED BY <1>3, <3>1, <3>2
  <2>2. lastProcessedBlock' = 0 /\ lastProcessedLogIndex' = 0
    <3>1. phase = "latest" /\ UNCHANGED cursor
      BY <1>1
    <3> QED BY <3>1 DEF Parts, StartInv, cursor
  <2> QED BY <1>2, <2>1, <2>2 DEF ReplayInv, Unique
<1>8. LiveInv'
  BY <1>1 DEF LiveInv
<1> QED BY <1>4, <1>5, <1>6, <1>7, <1>8 DEF Parts

LEMMA FetchChunkParts ==
  ASSUME Truthful, TypeOK, Parts, FetchChunk
  PROVE  Parts'
<1> DEFINE Got == { <<fetchFrom, i>> : i \in { j \in 1 .. Len(feed) :
                      feed[j].block \in fetchFrom .. ChunkEnd(fetchFrom) } }
<1>1. /\ phase = "fetch"
      /\ fetchFrom' = fetchFrom + ChunkSize
      /\ phase' = IF fetchFrom' <= bWs THEN "fetch" ELSE "replay"
      /\ UNCHANGED <<node, socket, bWs, cursor, applied>>
  BY DEF FetchChunk, NextChunk, effect
<1>2. n' = n /\ n = 0 /\ feed' = feed /\ head' = head
  <2>1. applied = <<>>
    BY <1>1 DEF Parts, StartInv
  <2> QED BY <1>1, <2>1 DEF n, node
<1>3. \A i \in 1 .. Len(feed) : feed[i].block <= head
  BY DEF Parts, ChainInv
<1>4. historic' = historic \cup Got
  <2>1. Canonical = 1 .. Len(feed)
    BY AllCanonical DEF Parts
  <2>2. \A j \in Canonical : feed[j].block <= head
    BY <1>3, <2>1
  <2> QED BY <2>1, <2>2 DEF FetchChunk, NodeHeads, Truthful
<1>5. /\ \A e \in historic : feed[e[2]].block < fetchFrom
      /\ \A e \in Got : /\ e[1] = fetchFrom /\ e[2] \in 1 .. Len(feed)
                        /\ fetchFrom <= feed[e[2]].block
                        /\ feed[e[2]].block <= ChunkEnd(fetchFrom)
      /\ \A i \in 1 .. Len(feed) : 
            fetchFrom <= feed[i].block /\ feed[i].block <= ChunkEnd(fetchFrom)
              => <<fetchFrom, i>> \in Got /\ <<fetchFrom, i>>[2] = i
  <2>1. \A e \in historic : feed[e[2]].block < fetchFrom
    <3>1. \A i \in 1 .. Len(feed) :
            feed[i].block < fetchFrom <=> \E e \in historic : e[2] = i
      BY <1>1 DEF Parts, FetchInv
    <3> QED BY <3>1, HistoricFields
  <2>2. \A i \in 1 .. Len(feed) : feed[i].block \in Nat
    BY Fields
  <2>3. fetchFrom \in Nat /\ ChunkEnd(fetchFrom) \in Int
    <3>1. fetchFrom \in Nat /\ ChunkSize \in Nat /\ bWs \in Nat
      BY Fields
    <3> QED BY <3>1 DEF ChunkEnd
  <2> QED BY <2>1, <2>2, <2>3
<1>6. Unique'
  <2> SUFFICES ASSUME NEW e \in historic \cup Got, NEW f \in historic \cup Got, e[2] = f[2]
               PROVE  e = f
    BY <1>4 DEF Unique
  <2>1. CASE e \in historic /\ f \in historic
    BY <1>1, <2>1 DEF Parts, FetchInv, Unique
  <2>2. CASE e \in Got /\ f \in Got
    BY <2>2
  <2>3. CASE e \in historic /\ f \in Got
    <3>1. feed[e[2]].block < fetchFrom /\ f[2] \in 1 .. Len(feed) /\ fetchFrom <= feed[f[2]].block
      BY <1>5, <2>3
    <3>2. feed[f[2]].block \in Nat /\ fetchFrom \in Nat
      BY <3>1, Fields
    <3> QED BY <3>1, <3>2
  <2>4. CASE e \in Got /\ f \in historic
    <3>1. feed[f[2]].block < fetchFrom /\ e[2] \in 1 .. Len(feed) /\ fetchFrom <= feed[e[2]].block
      BY <1>5, <2>4
    <3>2. feed[e[2]].block \in Nat /\ fetchFrom \in Nat
      BY <3>1, Fields
    <3> QED BY <3>1, <3>2
  <2> QED BY <2>1, <2>2, <2>3, <2>4
<1> HIDE DEF Got
<1>7. ASSUME NEW i \in 1 .. Len(feed)
      PROVE  (feed[i].block < fetchFrom \/ feed[i].block <= ChunkEnd(fetchFrom))
               <=> \E e \in historic' : e[2] = i
  <2>1. feed[i].block < fetchFrom <=> \E e \in historic : e[2] = i
    BY <1>1 DEF Parts, FetchInv
  <2>2. (fetchFrom <= feed[i].block /\ feed[i].block <= ChunkEnd(fetchFrom))
          => \E e \in Got : e[2] = i
    BY <1>5
  <2>3. (\E e \in Got : e[2] = i) => feed[i].block <= ChunkEnd(fetchFrom)
    BY <1>5
  <2>4. feed[i].block \in Nat /\ fetchFrom \in Nat
    BY Fields
  <2> QED BY <1>4, <2>1, <2>2, <2>3, <2>4
<1>8. ChainInv' /\ PrefixInv'
  BY <1>1, <1>2, Fields DEF Parts, ChainInv, PrefixInv
<1>9. StartInv'
  <2>1. /\ active \/ reader = "dead"
        /\ bWs <= head
        /\ \A i \in 1 .. popped : feed[i].block <= bWs
        /\ applied = <<>> /\ lastProcessedBlock = 0 /\ lastProcessedLogIndex = 0
        /\ ~active => popped = 0 /\ read = 0
    <3>1. phase = "fetch"
      BY <1>1
    <3> QED BY <3>1 DEF Parts, StartInv
  <2>2. phase' \in {"fetch", "replay"}
    BY <1>1
  <2> QED BY <1>1, <1>2, <2>1, <2>2 DEF StartInv, socket, cursor
<1>10. FetchInv'
  <2> SUFFICES ASSUME fetchFrom' <= bWs PROVE FetchInv'
    BY <1>1 DEF FetchInv
  <2>0. /\ fetchFrom \in Nat /\ bWs \in Nat /\ ChunkSize \in Nat /\ ChunkSize > 0
        /\ fetchFrom' = fetchFrom + ChunkSize
    BY <1>1, Fields
  <2>1. ChunkEnd(fetchFrom) = fetchFrom + ChunkSize - 1
    BY <2>0 DEF ChunkEnd
  <2>2. ASSUME NEW i \in 1 .. Len(feed)
        PROVE  feed[i].block < fetchFrom' <=> \E e \in historic' : e[2] = i
    <3>1. feed[i].block \in Nat
      BY Fields
    <3>2. feed[i].block < fetchFrom'
            <=> (feed[i].block < fetchFrom \/ feed[i].block <= ChunkEnd(fetchFrom))
      BY <2>0, <2>1, <3>1
    <3> QED BY <1>7, <3>2
  <2>3. Anchor < fetchFrom
    BY <1>1 DEF Parts, FetchInv
  <2>4. Anchor < fetchFrom'
    <3>1. Anchor \in Nat
      BY Fields
    <3> QED BY <2>0, <2>3, <3>1
  <2> QED BY <1>1, <1>2, <1>6, <2>2, <2>4 DEF FetchInv
<1>11. ReplayInv'
  <2> SUFFICES ASSUME ~(fetchFrom' <= bWs) PROVE ReplayInv'
    BY <1>1 DEF ReplayInv
  <2>0. /\ fetchFrom \in Nat /\ bWs \in Nat /\ ChunkSize \in Nat /\ ChunkSize > 0
        /\ fetchFrom' = fetchFrom + ChunkSize
    BY <1>1, Fields
  <2>1. ChunkEnd(fetchFrom) = bWs /\ fetchFrom <= bWs
    <3>1. fetchFrom <= bWs
      BY <1>1 DEF Parts, FetchInv
    <3> QED BY <2>0, <3>1 DEF ChunkEnd
  <2>2. ASSUME NEW i \in 1 .. Len(feed)
        PROVE  (n < i /\ feed[i].block <= bWs) <=> \E e \in historic' : e[2] = i
    <3>1. feed[i].block \in Nat
      BY Fields
    <3>2. (n < i /\ feed[i].block <= bWs)
            <=> (feed[i].block < fetchFrom \/ feed[i].block <= ChunkEnd(fetchFrom))
      BY <1>2, <2>0, <2>1, <3>1
    <3> QED BY <1>7, <3>2
  <2>3. lastProcessedBlock' = 0 /\ lastProcessedLogIndex' = 0
    <3>1. phase = "fetch" /\ UNCHANGED cursor
      BY <1>1
    <3> QED BY <3>1 DEF Parts, StartInv, cursor
  <2> QED BY <1>1, <1>2, <1>6, <2>2, <2>3 DEF ReplayInv
<1>12. LiveInv'
  BY <1>1 DEF LiveInv
<1> QED BY <1>8, <1>9, <1>10, <1>11, <1>12 DEF Parts

LEMMA ReplayLogParts ==
  ASSUME TypeOK, Parts, ReplayLog
  PROVE  /\ Parts'
         /\ n < Len(feed) /\ applied' = Append(applied, n + 1) /\ feed' = feed
<1>1. PICK e \in historic :
        /\ Earliest(e) /\ processLog(e[2])
        /\ lastProcessedBlock' = feed[e[2]].block
        /\ lastProcessedLogIndex' = feed[e[2]].index
        /\ historic' = historic \ {e}
  BY DEF ReplayLog
<1>2. phase = "replay" /\ UNCHANGED <<node, socket, phase, bWs, fetchFrom>>
  BY DEF ReplayLog
<1>3. e[2] = n + 1 /\ n + 1 \in 1 .. Len(feed)
  <2>1. e[2] = n + 1
    BY <1>1, <1>2, EarliestIsNext DEF Parts
  <2>2. e[2] \in 1 .. Len(feed)
    BY HistoricFields
  <2> QED BY <2>1, <2>2
<1>4. feed[n + 1].block <= bWs /\ n < Len(feed) /\ feed' = feed
  <2>1. feed[n + 1].block <= bWs
    <3>1. \E f \in historic : f[2] = n + 1
      BY <1>3
    <3> QED BY <1>2, <1>3, <3>1 DEF Parts, ReplayInv
  <2>2. n \in Nat /\ Len(feed) \in Nat
    BY Fields
  <2> QED BY <1>2, <1>3, <2>1, <2>2 DEF node
<1>5. applied' = Append(applied, n + 1)
  BY <1>1, <1>3 DEF processLog, Parts, ChainInv
<1>6. /\ n' = n + 1 /\ applied'[n + 1] = n + 1
      /\ \A i \in 1 .. n : applied'[i] = applied[i]
  BY <1>5 DEF n, TypeOK
<1>7. n \in Nat /\ Len(feed) \in Nat
  BY Fields
<1>8. ChainInv' /\ StartInv'
  BY <1>2 DEF Parts, ChainInv, StartInv, node, socket
<1>9. PrefixInv'
  BY <1>4, <1>6, <1>7 DEF Parts, PrefixInv
<1>10. ReplayInv'
  <2>1. ASSUME NEW i \in 1 .. Len(feed)
        PROVE  (n + 1 < i /\ feed[i].block <= bWs) <=> \E f \in historic' : f[2] = i
    <3>1. (n < i /\ feed[i].block <= bWs) <=> \E f \in historic : f[2] = i
      BY <1>2 DEF Parts, ReplayInv
    <3>2. (\E f \in historic' : f[2] = i) <=> (i # n + 1 /\ \E f \in historic : f[2] = i)
      BY <1>1, <1>2, <1>3 DEF Parts, ReplayInv, Unique
    <3> QED BY <1>7, <3>1, <3>2
  <2>2. \A i \in 1 .. n + 1 : feed[i].block <= bWs
    BY <1>2, <1>4, <1>7 DEF Parts, ReplayInv
  <2>3. Unique'
    BY <1>1, <1>2 DEF Parts, ReplayInv, Unique
  <2> QED BY <1>1, <1>2, <1>3, <1>4, <1>6, <1>7, <2>1, <2>2, <2>3 DEF ReplayInv
<1> QED BY <1>2, <1>4, <1>5, <1>8, <1>9, <1>10 DEF Parts, FetchInv, LiveInv

LEMMA FinishReplayParts ==
  ASSUME TypeOK, Parts, FinishReplay
  PROVE  Parts'
<1>1. /\ phase = "replay" /\ historic = {} /\ phase' = "live"
      /\ IF lastProcessedBlock < bWs
           THEN lastProcessedBlock' = bWs /\ lastProcessedLogIndex' = 0
           ELSE lastProcessedBlock' = lastProcessedBlock
                /\ lastProcessedLogIndex' = lastProcessedLogIndex
      /\ UNCHANGED <<node, socket, bWs, applied>>
  BY DEF FinishReplay, cursor
<1>2. n' = n /\ feed' = feed /\ head' = head /\ popped' = popped
  BY <1>1 DEF n, node, socket
<1>3. /\ n \in Nat /\ Len(feed) \in Nat /\ popped \in Nat /\ bWs \in Nat /\ head \in Nat
      /\ lastProcessedBlock \in Nat /\ lastProcessedLogIndex \in Nat
      /\ popped <= Len(feed) /\ n <= Len(feed) /\ bWs <= head
  BY <1>1, Fields DEF Parts, PrefixInv, StartInv
<1>4. \A i \in 1 .. Len(feed) :
        /\ feed[i].block \in Nat /\ feed[i].index \in Nat /\ feed[i].block > 0
        /\ i <= n <=> feed[i].block <= bWs
  <2>1. \A i \in 1 .. Len(feed) :
          feed[i].block \in Nat /\ feed[i].index \in Nat /\ feed[i].block > 0
    <3>1. Anchor \in Nat
      BY Fields
    <3> QED BY <3>1, Fields
  <2>2. /\ \A i \in 1 .. Len(feed) : ~(n < i /\ feed[i].block <= bWs)
        /\ \A i \in 1 .. n : feed[i].block <= bWs
    BY <1>1 DEF Parts, ReplayInv
  <2> QED BY <1>3, <2>1, <2>2
<1>5. popped <= n
  <2> SUFFICES ASSUME n < popped PROVE FALSE
    BY <1>3
  <2>1. popped \in 1 .. Len(feed) /\ popped \in 1 .. popped
    BY <1>3
  <2>2. feed[popped].block <= bWs
    BY <1>1, <2>1 DEF Parts, StartInv
  <2> QED BY <1>3, <1>4, <2>1, <2>2
<1>6. n > 0 => /\ n \in 1 .. Len(feed)
               /\ lastProcessedBlock = feed[n].block
               /\ lastProcessedLogIndex = feed[n].index
               /\ lastProcessedBlock <= bWs
  BY <1>1, <1>3, <1>4 DEF Parts, ReplayInv
<1>7. n = 0 => lastProcessedBlock = 0 /\ lastProcessedLogIndex = 0
  BY <1>1 DEF Parts, ReplayInv
<1>8. lastProcessedBlock' <= head
  BY <1>1, <1>3, <1>6, <1>7
<1>9. ASSUME NEW i \in 1 .. Len(feed)
      PROVE  i <= n <=> isDuplicate(feed[i])'
  <2>1. isDuplicate(feed[i])' <=> \/ feed[i].block < lastProcessedBlock'
                                  \/ /\ feed[i].block = lastProcessedBlock'
                                     /\ feed[i].index <= lastProcessedLogIndex'
    BY <1>2 DEF isDuplicate
  <2>2. /\ feed[i].block \in Nat /\ feed[i].index \in Nat /\ feed[i].block > 0
        /\ i <= n <=> feed[i].block <= bWs
    BY <1>4
  <2>3. i <= n => /\ n > 0 /\ lastProcessedBlock <= bWs
                  /\ \/ feed[i].block < lastProcessedBlock
                     \/ /\ feed[i].block = lastProcessedBlock
                        /\ feed[i].index <= lastProcessedLogIndex
    <3> SUFFICES ASSUME i <= n
                 PROVE  /\ n > 0
                        /\ \/ feed[i].block < lastProcessedBlock
                           \/ /\ feed[i].block = lastProcessedBlock
                              /\ feed[i].index <= lastProcessedLogIndex
      BY <1>6
    <3>1. n > 0
      BY <1>3
    <3>2. CASE i = n
      BY <1>6, <2>2, <3>1, <3>2
    <3>3. CASE i < n
      <4>1. Less(feed[i], feed[n])
        BY <1>6, <3>1, <3>3 DEF Parts, ChainInv
      <4> QED BY <1>3, <1>6, <2>2, <3>1, <4>1 DEF Less
    <3> QED BY <1>3, <3>1, <3>2, <3>3
  <2>4. CASE lastProcessedBlock < bWs
    <3>1. lastProcessedBlock' = bWs /\ lastProcessedLogIndex' = 0
      BY <1>1, <2>4
    <3> QED BY <1>3, <2>1, <2>2, <2>3, <2>4, <3>1
  <2>5. CASE ~(lastProcessedBlock < bWs)
    <3>1. lastProcessedBlock' = lastProcessedBlock /\ lastProcessedLogIndex' = lastProcessedLogIndex
      BY <1>1, <2>5
    <3>2. lastProcessedBlock = bWs
      BY <1>3, <1>6, <1>7, <2>5
    <3> QED BY <1>3, <2>1, <2>2, <2>3, <3>1, <3>2
  <2> QED BY <2>4, <2>5
<1>10. LiveInv'
  BY <1>2, <1>5, <1>8, <1>9 DEF LiveInv
<1>11. ChainInv' /\ PrefixInv' /\ StartInv'
  BY <1>1, <1>2 DEF Parts, ChainInv, PrefixInv, StartInv, socket, node
<1> QED BY <1>1, <1>10, <1>11 DEF Parts, FetchInv, ReplayInv

LEMMA LiveLogParts ==
  ASSUME TypeOK, Parts, LiveLog
  PROVE  /\ Parts'
         /\ feed' = feed
         /\ \/ applied' = applied
            \/ n < Len(feed) /\ applied' = Append(applied, n + 1)
<1> DEFINE l == feed[popped + 1]
<1>1. /\ phase = "live" /\ popped < read /\ popped' = popped + 1
      /\ UNCHANGED <<node, active, reader, read, phase, bWs, fetchFrom, historic>>
  BY DEF LiveLog, start
<1>2. /\ n \in Nat /\ Len(feed) \in Nat /\ popped \in Nat /\ read \in Nat /\ head \in Nat
      /\ lastProcessedBlock \in Nat /\ lastProcessedLogIndex \in Nat
      /\ popped <= n /\ n <= Len(feed) /\ popped + 1 \in 1 .. Len(feed)
  BY <1>1, Fields DEF Parts, PrefixInv, LiveInv
<1>3. \A i \in 1 .. Len(feed) : i <= n <=> isDuplicate(feed[i])
  BY <1>1 DEF Parts, LiveInv
<1>4. ChainInv' /\ feed' = feed /\ head' = head
  BY <1>1 DEF Parts, ChainInv, node
<1>5. StartInv'
  <2>1. active
    BY <1>1, <1>2 DEF Parts, StartInv
  <2> QED BY <1>1, <2>1 DEF StartInv
<1>6. CASE isDuplicate(l)
  <2>1. UNCHANGED <<applied, cursor>>
    BY <1>6 DEF LiveLog
  <2>2. popped + 1 <= n
    BY <1>2, <1>3, <1>6
  <2>3. n' = n /\ \A i \in 1 .. Len(feed) : isDuplicate(feed[i])' <=> isDuplicate(feed[i])
    BY <1>4, <2>1 DEF n, isDuplicate, cursor
  <2>4. PrefixInv'
    BY <1>4, <2>1, <2>3 DEF Parts, PrefixInv
  <2>5. LiveInv'
    BY <1>1, <1>3, <1>4, <2>1, <2>2, <2>3 DEF Parts, LiveInv, cursor
  <2> QED BY <1>1, <1>4, <1>5, <2>1, <2>4, <2>5 DEF Parts, FetchInv, ReplayInv
<1>7. CASE ~isDuplicate(l)
  <2>1. /\ processLog(popped + 1)
        /\ lastProcessedBlock' = l.block /\ lastProcessedLogIndex' = l.index
    BY <1>7 DEF LiveLog
  <2>2. popped = n
    BY <1>2, <1>3, <1>7
  <2>3. applied' = Append(applied, n + 1) /\ n < Len(feed)
    BY <1>2, <2>1, <2>2 DEF processLog, Parts, ChainInv
  <2>4. /\ n' = n + 1 /\ applied'[n + 1] = n + 1
        /\ \A i \in 1 .. n : applied'[i] = applied[i]
    BY <2>3 DEF n, TypeOK
  <2>5. PrefixInv'
    BY <1>2, <1>4, <2>3, <2>4 DEF Parts, PrefixInv
  <2>6. lastProcessedBlock' <= head'
    BY <1>2, <1>4, <2>1 DEF Parts, ChainInv
  <2>7. ASSUME NEW i \in 1 .. Len(feed)
        PROVE  i <= n + 1 <=> isDuplicate(feed[i])'
    <3>1. isDuplicate(feed[i])' <=> \/ feed[i].block < l.block
                                    \/ feed[i].block = l.block /\ feed[i].index <= l.index
      BY <1>4, <2>1 DEF isDuplicate
    <3>2. /\ feed[i].block \in Nat /\ feed[i].index \in Nat
          /\ l.block \in Nat /\ l.index \in Nat
      BY <1>2, Fields
    <3>3. CASE i < n + 1
      <4>1. Less(feed[i], l)
        BY <1>2, <2>2, <3>3 DEF Parts, ChainInv
      <4>2. isDuplicate(feed[i])'
        BY <3>1, <3>2, <4>1 DEF Less
      <4> QED BY <1>2, <3>3, <4>2
    <3>4. CASE i = n + 1
      <4>1. feed[i] = l
        BY <2>2, <3>4
      <4>2. isDuplicate(feed[i])'
        BY <3>1, <3>2, <4>1
      <4> QED BY <1>2, <3>4, <4>2
    <3>5. CASE n + 1 < i
      <4>1. Less(l, feed[i])
        BY <1>2, <2>2, <3>5 DEF Parts, ChainInv
      <4> QED BY <1>2, <3>1, <3>2, <3>5, <4>1 DEF Less
    <3> QED BY <1>2, <3>3, <3>4, <3>5
  <2>8. LiveInv'
    <3>1. popped' <= n'
      BY <1>1, <1>2, <2>2, <2>4
    <3> QED BY <1>4, <2>4, <2>6, <2>7, <3>1 DEF LiveInv
  <2> QED BY <1>1, <1>4, <1>5, <2>3, <2>5, <2>8 DEF Parts, FetchInv, ReplayInv
<1> QED BY <1>6, <1>7

\* The steps of the socket, of the workers, and those that end Start.
LEMMA OtherParts ==
  ASSUME TypeOK, Parts,
         \/ Subscribe \/ ActivateSubscription \/ ReadWS \/ ReaderDies
         \/ StartFails \/ Stop \/ (\E u \in Users : WorkerTake(u)) \/ UNCHANGED vars
  PROVE  Parts' /\ UNCHANGED <<feed, applied>>
<1>1. UNCHANGED <<node, bWs, fetchFrom, historic, cursor, applied>>
  BY DEF Subscribe, ActivateSubscription, ReadWS, ReaderDies, StartFails, Stop, WorkerTake,
         vars, start, effect
<1>2. ChainInv' /\ PrefixInv' /\ n' = n /\ feed' = feed /\ head' = head
  BY <1>1 DEF Parts, ChainInv, PrefixInv, node, n
<1>3. \/ phase' = phase
      \/ phase = "dial" /\ phase' = "latest"
      \/ phase' \in {"failed", "stopped"}
  BY DEF Subscribe, ActivateSubscription, ReadWS, ReaderDies, StartFails, Stop, WorkerTake,
         vars, start
<1>4. FetchInv' /\ ReplayInv'
  BY <1>1, <1>2, <1>3 DEF Parts, FetchInv, ReplayInv, Unique, cursor
<1>5. StartInv' /\ LiveInv'
  <2>1. CASE ActivateSubscription
    <3>1. ~active /\ reader = "up" /\ phase' = phase /\ active' = TRUE
      BY <2>1 DEF ActivateSubscription, start
    <3>2. phase \notin {"dial", "fetch", "replay", "live"}
      BY <3>1 DEF Parts, StartInv
    <3> QED BY <1>1, <1>2, <3>1, <3>2 DEF Parts, StartInv, LiveInv, cursor
  <2>2. CASE ReadWS
    <3>1. UNCHANGED <<active, reader, popped, phase>> /\ active
      BY <2>2 DEF ReadWS, start
    <3> QED BY <1>1, <1>2, <3>1 DEF Parts, StartInv, LiveInv, isDuplicate, cursor
  <2>3. CASE UNCHANGED <<active, read, popped>>
    <3>1. /\ reader' = "dead" \/ reader' = reader \/ phase = "dial"
          /\ phase' = "dial" => reader' = reader \/ reader = "up"
      BY <1>3, <2>3 DEF Subscribe, ActivateSubscription, ReadWS, ReaderDies, StartFails, Stop,
                        WorkerTake, vars, socket
    <3>2. StartInv'
      BY <1>1, <1>2, <1>3, <2>3, <3>1 DEF Parts, StartInv, cursor
    <3>3. LiveInv'
      BY <1>1, <1>2, <1>3, <2>3 DEF Parts, LiveInv, isDuplicate, cursor
    <3> QED BY <3>2, <3>3
  <2> QED BY <2>1, <2>2, <2>3
          DEF Subscribe, ReaderDies, StartFails, Stop, WorkerTake, vars, socket
<1> QED BY <1>1, <1>2, <1>4, <1>5 DEF Parts

\* With nodes that answer truthfully and no reorganisation, history and live
\* stream meet without gap or overlap: the invariant the results below rest on.
LEMMA PartsInvariant ==
  ASSUME Truthful
  PROVE  Spec => []Parts
<1>1. TypeOK /\ Parts /\ [Next]_vars => Parts'
  BY MineBlockParts, FetchLatestBlockParts, FetchChunkParts, ReplayLogParts,
     FinishReplayParts, LiveLogParts, OtherParts DEF Next, Reorg, Truthful
<1> QED BY <1>1, InitParts, TypeCorrect, PTL DEF Spec

\* log_replay_engine.go:531-560.  With truthful nodes, once live and with every
\* message consumed, the store reflects exactly the canonical chain, in order.
THEOREM ChainMatched ==
  ASSUME Truthful
  PROVE  Spec => []MatchesChain
<1>1. TypeOK /\ Parts => MatchesChain
  <2> SUFFICES ASSUME TypeOK, Parts, phase = "live", active, popped = Len(feed)
               PROVE  /\ {feed[applied[i]] : i \in DOMAIN applied} = {feed[i] : i \in Canonical}
                      /\ \A i, j \in DOMAIN applied :
                           i < j => Less(feed[applied[i]], feed[applied[j]])
    BY DEF MatchesChain
  <2>1. n = Len(feed)
    BY Fields DEF Parts, PrefixInv, LiveInv
  <2>2. DOMAIN applied = 1 .. Len(feed) /\ \A i \in 1 .. Len(feed) : applied[i] = i
    BY <2>1 DEF n, TypeOK, Parts, PrefixInv
  <2>3. Canonical = 1 .. Len(feed)
    BY AllCanonical DEF Parts
  <2> QED BY <2>2, <2>3 DEF Parts, ChainInv
<1> QED BY <1>1, TypeCorrect, PartsInvariant, PTL

\* log_replay_engine.go:455-568.  With truthful nodes the engine implements
\* EventStream: every step applies the next event of the chain, or none.
THEOREM StreamImplemented ==
  ASSUME Truthful
  PROVE  Spec => ImplementsStream
<1>1. Init => Stream!Init
  BY DEF Init, Stream!Init, AppliedLogs
<1>2. TypeOK /\ TypeOK' /\ Parts /\ [Next]_vars => [Stream!Next]_<<feed, AppliedLogs>>
  <2> SUFFICES ASSUME TypeOK, TypeOK', Parts, [Next]_vars
               PROVE  [Stream!Next]_<<feed, AppliedLogs>>
    OBVIOUS
  <2>1. feed' = feed /\ applied' = applied => UNCHANGED <<feed, AppliedLogs>>
    BY DEF AppliedLogs
  <2>2. CASE MineBlock
    <3>1. UNCHANGED applied /\ \A i \in DOMAIN applied : applied[i] \in 1 .. Len(feed)
      BY <2>2, SeqDomain DEF MineBlock, effect, TypeOK
    <3>2. UNCHANGED AppliedLogs
      BY <3>1, NewBlock, <2>2 DEF AppliedLogs
    <3>3. feed' \in Seq(Log) /\ feed \in Seq(Log)
      BY DEF TypeOK
    <3>4. SubSeq(feed', 1, Len(feed)) = feed
      BY <2>2, <3>3, NewBlock
    <3>5. CASE Len(feed) < Len(feed')
      BY <3>2, <3>4, <3>5 DEF Stream!Next, Stream!Emit
    <3>6. CASE ~(Len(feed) < Len(feed'))
      <4>1. Len(feed') = Len(feed)
        BY <2>2, <3>3, <3>6, NewBlock
      <4>2. feed' = feed
        BY <2>2, <3>3, <4>1, NewBlock
      <4> QED BY <3>2, <4>2
    <3> QED BY <3>5, <3>6
  <2>3. ASSUME n < Len(feed), applied' = Append(applied, n + 1), feed' = feed
        PROVE  Stream!Apply
    <3>1. AppliedLogs \in Seq(Log) /\ Len(AppliedLogs) = n
      <4>1. n \in Nat /\ DOMAIN applied = 1 .. n /\ feed \in Seq(Log)
        BY SeqDomain DEF n, TypeOK
      <4>2. \A i \in 1 .. n : feed[applied[i]] \in Log
        BY <2>3, <4>1 DEF Parts, PrefixInv
      <4> QED BY <4>1, <4>2 DEF AppliedLogs
    <3>2. AppliedLogs' = Append(AppliedLogs, feed[n + 1])
      <4>1. n \in Nat /\ DOMAIN applied = 1 .. n /\ applied \in Seq(1 .. Len(feed))
        BY SeqDomain DEF n, TypeOK
      <4>2. DOMAIN applied' = 1 .. n + 1 /\ applied'[n + 1] = n + 1
            /\ \A i \in 1 .. n : applied'[i] = applied[i]
        BY <2>3, <4>1 DEF n
      <4>3. AppliedLogs' = [i \in 1 .. n + 1 |-> feed[applied'[i]]]
        BY <2>3, <4>2 DEF AppliedLogs
      <4>4. Append(AppliedLogs, feed[n + 1])
              = [i \in 1 .. n + 1 |-> IF i = n + 1 THEN feed[n + 1] ELSE AppliedLogs[i]]
        BY <3>1, <4>1
      <4>5. \A i \in 1 .. n + 1 :
              feed[applied'[i]] = IF i = n + 1 THEN feed[n + 1] ELSE AppliedLogs[i]
        BY <4>1, <4>2 DEF AppliedLogs
      <4> QED BY <4>3, <4>4, <4>5
    <3> QED BY <2>3, <3>1, <3>2 DEF Stream!Apply
  <2>4. CASE ReplayLog
    BY <2>3, <2>4, ReplayLogParts DEF Stream!Next
  <2>5. CASE LiveLog
    BY <2>1, <2>3, <2>5, LiveLogParts DEF Stream!Next
  <2>6. CASE FetchLatestBlock \/ FetchChunk \/ FinishReplay
    BY <2>1, <2>6 DEF FetchLatestBlock, FetchChunk, FinishReplay, node, effect
  <2> QED BY <2>1, <2>2, <2>4, <2>5, <2>6, OtherParts DEF Next, Reorg, Truthful
<1> QED BY <1>1, <1>2, TypeCorrect, PartsInvariant, PTL DEF Spec, ImplementsStream, Stream!Spec
====
