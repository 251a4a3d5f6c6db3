---- MODULE LogReplay ----
(***************************************************************************)
(* internal/engine/log_replay_engine.go.  The engine keeps the off-chain   *)
(* positions equal to the chain's by merging two sources of pool events:   *)
(* a WebSocket subscription opened first, whose messages wait in           *)
(* logBuffer, and the logs from the anchor block to the latest block,      *)
(* fetched in chunks, sorted and replayed.  After the replay the buffered  *)
(* messages are consumed, those the replay already covered being dropped.  *)
(*                                                                         *)
(* The contents of logBuffer are not stored: everything the node sends is  *)
(* in the journal feed, and the buffer is the part of it that has been     *)
(* read from the socket and not yet popped.                                *)
(***************************************************************************)
EXTENDS Naturals, Sequences

CONSTANTS
  Users,        \* borrowers
  NoUser,       \* the user of an event that belongs to a reserve, ReserveDataUpdated
  Subscribers,  \* the users subscribed to the reserve those events are about
  Anchor,       \* block of the snapshot the bot starts from
  ChunkSize,    \* blocks of one eth_getLogs request
  BufferCap,    \* capacity of the channel logBuffer
  TxSpan,       \* log indices one transaction covers
  \* bounds of the chain
  MaxBlock,     \* its last block
  MaxIndex,     \* the largest log index
  MaxLogs,      \* pool events in one block
  \* what the nodes may do, beyond answering truthfully
  Reorgs,       \* the head block may be replaced
  LaggingNodes, \* the node that answers a request may be behind the head
  LateAck,      \* the subscription may take longer than the sleep of Start
  \* what the risk engine may do
  QueueMayFill  \* Enqueue may find taskQueue, which others fill too, without room

ASSUME LogReplayAssumption ==
  /\ NoUser \notin Users
  /\ Subscribers \subseteq Users
  /\ Anchor \in Nat
  /\ ChunkSize \in Nat \ {0}
  /\ BufferCap \in Nat \ {0}
  /\ TxSpan \in Nat \ {0}
  /\ MaxBlock \in Nat /\ Anchor <= MaxBlock /\ MaxIndex \in Nat /\ MaxLogs \in Nat
  /\ {Reorgs, LaggingNodes, LateAck, QueueMayFill} \subseteq BOOLEAN

VARIABLES
  \* the chain and the socket
  head,          \* latest block
  feed,          \* every log message the node has emitted, oldest first
  active,        \* the node serves the subscription
  reader,        \* the goroutine that reads the socket
  read,          \* position in feed of the last message pushed to logBuffer
  popped,        \* position in feed of the last message taken from it
  \* LogReplayEngine.Start
  phase,         \* where Start stands
  bWs,           \* latest block when the replay range was fixed
  fetchFrom,     \* first block of the next chunk
  historic,      \* fetched logs still to replay: chunk, position in feed
  lastProcessedBlock,
  lastProcessedLogIndex,
  currentTxHash,
  dirtyUsers,
  currentBlock,  \* StateStore.currentBlock
  \* the rest of the bot
  applied,       \* positions of the events the store reflects, in the order applied
  queue,         \* users handed to RiskEngine.Enqueue, not yet taken by a worker
  refused,       \* users the last Enqueue dropped, for the queue was full
  uncomputed     \* users whose position changed since a worker last took them

node   == <<head, feed>>
socket == <<active, reader, read, popped>>
start  == <<phase, bWs, fetchFrom, historic>>
cursor == <<lastProcessedBlock, lastProcessedLogIndex>>
batch  == <<currentTxHash, dirtyUsers>>
effect == <<applied, queue, refused, uncomputed>>
vars   == <<node, socket, start, cursor, batch, currentBlock, effect>>

Blocks == Anchor + 1 .. MaxBlock
Log == [block : Blocks, index : 0 .. MaxIndex, user : Users \cup {NoUser}, removed : BOOLEAN]

NoTx == <<0, 0>>
\* The transaction of a log: consecutive log indices of one block.
Tx(l) == <<l.block, 1 + (l.index \div TxSpan)>>

\* LogList.Less: by block, then by log index.
Less(k, l) == k.block < l.block \/ (k.block = l.block /\ k.index < l.index)

TypeOK ==
  /\ head \in Anchor .. MaxBlock
  /\ feed \in Seq(Log)
  /\ active \in BOOLEAN
  /\ reader \in {"off", "up", "dead"}
  /\ read \in 0 .. Len(feed) /\ popped \in 0 .. read /\ read - popped <= BufferCap
  /\ phase \in {"dial", "latest", "fetch", "replay", "live", "failed", "stopped"}
  /\ bWs \in Nat /\ fetchFrom \in Nat
  /\ historic \subseteq Nat \X (1 .. Len(feed))
  /\ lastProcessedBlock \in Nat /\ lastProcessedLogIndex \in Nat
  /\ currentTxHash \in Nat \X Nat
  /\ dirtyUsers \subseteq Users
  /\ currentBlock \in Nat
  /\ applied \in Seq(1 .. Len(feed))
  /\ queue \subseteq Users /\ refused \subseteq Users /\ uncomputed \subseteq Users
----
Init ==
  /\ head = Anchor /\ feed = <<>>
  /\ active = FALSE /\ reader = "off" /\ read = 0 /\ popped = 0
  /\ phase = "dial" /\ bWs = 0 /\ fetchFrom = 0 /\ historic = {}
  /\ lastProcessedBlock = 0 /\ lastProcessedLogIndex = 0
  /\ currentTxHash = NoTx /\ dirtyUsers = {}
  /\ currentBlock = Anchor
  /\ applied = <<>> /\ queue = {} /\ refused = {} /\ uncomputed = {}
----
(* The chain, as the node presents it. *)

\* The pool events a block may hold, at most MaxLogs of them, in log order.
EventsOf(b) ==
  { s \in UNION { [1 .. n -> [block : {b}, index : 0 .. MaxIndex,
                              user : Users \cup {NoUser}, removed : {FALSE}]]
                  : n \in 0 .. MaxLogs } :
      \A i, j \in DOMAIN s : i < j => s[i].index < s[j].index }

MineBlock ==
  /\ head < MaxBlock
  /\ head' = head + 1
  /\ \E s \in EventsOf(head + 1) : feed' = feed \o s
  /\ UNCHANGED <<socket, start, cursor, batch, currentBlock, effect>>

\* The message by which the node withdraws a log.
Withdrawn(l) == [l EXCEPT !.removed = TRUE]

\* Positions in feed of the logs that are part of the chain now.
Canonical ==
  { i \in DOMAIN feed :
      /\ ~feed[i].removed
      /\ \A j \in i + 1 .. Len(feed) : feed[j] # Withdrawn(feed[i]) }

\* The head block is replaced by another one of the same height, once.
Reorg ==
  /\ Reorgs
  /\ \A i \in DOMAIN feed : ~feed[i].removed
  /\ head > Anchor
  /\ \E first \in 1 .. Len(feed) + 1, s \in EventsOf(head) :
       /\ \A i \in DOMAIN feed : feed[i].block = head <=> first <= i
       /\ feed' = feed \o [i \in 1 .. Len(feed) + 1 - first |-> Withdrawn(feed[first + i - 1])] \o s
  /\ UNCHANGED <<head, socket, start, cursor, batch, currentBlock, effect>>

\* The blocks the node that answers a request may take for the latest.
NodeHeads == IF LaggingNodes THEN Anchor .. head ELSE {head}
----
(* The subscription and the goroutine that reads it. *)

\* Start dials, sends eth_subscribe and starts the reader.
Subscribe ==
  /\ phase = "dial"
  /\ phase' = "latest" /\ reader' = "up"
  /\ UNCHANGED <<node, active, read, popped, bWs, fetchFrom, historic,
                 cursor, batch, currentBlock, effect>>

\* The node takes up the subscription: messages are sent from here on.
ActivateSubscription ==
  /\ reader = "up" /\ ~active
  /\ active' = TRUE
  /\ read' = Len(feed) /\ popped' = Len(feed)
  /\ UNCHANGED <<node, reader, start, cursor, batch, currentBlock, effect>>

\* The reader takes a message off the socket; a full channel blocks it.
ReadWS ==
  /\ reader = "up" /\ active
  /\ read < Len(feed)
  /\ read - popped < BufferCap
  /\ read' = read + 1
  /\ UNCHANGED <<node, active, reader, popped, start, cursor, batch, currentBlock, effect>>

\* A read error ends the goroutine; nothing starts another.
ReaderDies ==
  /\ reader = "up"
  /\ reader' = "dead"
  /\ UNCHANGED <<node, active, read, popped, start, cursor, batch, currentBlock, effect>>
----
(* The synchronous part of Start. *)

\* After the sleep, which is taken to be long enough unless LateAck.
FetchLatestBlock ==
  /\ phase = "latest"
  /\ LateAck \/ active \/ reader = "dead"
  /\ \E h \in NodeHeads :
       /\ bWs' = h
       /\ fetchFrom' = Anchor + 1
       /\ phase' = IF Anchor + 1 <= h THEN "fetch" ELSE "replay"
  /\ UNCHANGED <<node, socket, historic, cursor, batch, currentBlock, effect>>

\* Last block of a chunk, and first block of the next one.
ChunkEnd(from) == IF from + ChunkSize - 1 > bWs THEN bWs ELSE from + ChunkSize - 1
NextChunk_SkipsOne(from) == from + ChunkSize + 1  \* a slip: the bounds taken as exclusive
NextChunk(from) == from + ChunkSize

\* One eth_getLogs request of fetchHistoricLogs.
FetchChunk ==
  /\ phase = "fetch"
  /\ \E h \in NodeHeads :
       historic' = historic \cup
         { <<fetchFrom, i>> : i \in { j \in Canonical :
             /\ feed[j].block \in fetchFrom .. ChunkEnd(fetchFrom)
             /\ feed[j].block <= h } }
  /\ fetchFrom' = NextChunk(fetchFrom)
  /\ phase' = IF fetchFrom' <= bWs THEN "fetch" ELSE "replay"
  /\ UNCHANGED <<node, socket, bWs, cursor, batch, currentBlock, effect>>

\* A dial, subscribe or request error makes Start return; the socket is closed.
StartFails ==
  /\ phase \in {"dial", "latest", "fetch"}
  /\ phase' = "failed"
  /\ reader' = IF reader = "up" THEN "dead" ELSE reader
  /\ UNCHANGED <<node, active, read, popped, bWs, fetchFrom, historic,
                 cursor, batch, currentBlock, effect>>
----
(* Processing of one log.  processLog ignores a removed log; a user event  *)
(* changes the position and marks the user dirty; a reserve event changes  *)
(* the index and enqueues the subscribers of the reserve at once.          *)

\* A slip: a reserve's event marks its empty user.
MarkedBy_AnyUser(l) == IF l.removed THEN {} ELSE {l.user}

MarkedBy(l)   == IF l.removed \/ l.user = NoUser THEN {} ELSE {l.user}
EnqueuedBy(l) == IF ~l.removed /\ l.user = NoUser THEN Subscribers ELSE {}

processLog(i) ==
  /\ applied' = IF feed[i].removed THEN applied ELSE Append(applied, i)
  /\ uncomputed' = uncomputed \cup MarkedBy(feed[i]) \cup EnqueuedBy(feed[i])

\* RiskEngine.Enqueue for each of the users S: a full queue drops the user, and
\* nobody is told.  A user still in the queue from before is not lost by it.
Enqueue(S) ==
  \E dropped \in IF QueueMayFill THEN SUBSET S ELSE {{}} :
    /\ queue' = queue \cup (S \ dropped)
    /\ refused' = (refused \cup dropped) \ queue'

\* A slip: users are flushed at every log.
DirtyAt_EveryLog(l) == {}
\* A slip: the set is replaced before it is flushed.
FlushedAt_Dropped(l) == {}

\* The dirty users left when a log begins, after the flush at a new transaction.
DirtyAt(l) == IF Tx(l) # currentTxHash THEN {} ELSE dirtyUsers
FlushedAt(l) == dirtyUsers \ DirtyAt(l)

\* A slip: the history is replayed as fetched.
Earliest_Unsorted(e) == e \in historic

\* The next log of the sorted history: no other one is less.
Earliest(e) == e \in historic /\ \A f \in historic : ~Less(feed[f[2]], feed[e[2]])

ReplayLog ==
  /\ phase = "replay"
  /\ \E e \in historic :
       /\ Earliest(e)
       /\ LET l == feed[e[2]] IN
            /\ processLog(e[2])
            /\ currentTxHash' = Tx(l)
            /\ dirtyUsers' = DirtyAt(l) \cup MarkedBy(l)
            /\ Enqueue(FlushedAt(l) \cup EnqueuedBy(l))
            /\ lastProcessedBlock' = l.block
            /\ lastProcessedLogIndex' = l.index
       /\ historic' = historic \ {e}
  /\ UNCHANGED <<node, socket, phase, bWs, fetchFrom, currentBlock>>

\* The history is replayed: flush, and move the cursor to the boundary block.
FinishReplay ==
  /\ phase = "replay" /\ historic = {}
  /\ phase' = "live"
  /\ Enqueue(dirtyUsers)
  /\ dirtyUsers' = {}
  /\ IF lastProcessedBlock < bWs
       THEN lastProcessedBlock' = bWs /\ lastProcessedLogIndex' = 0
       ELSE UNCHANGED cursor
  /\ UNCHANGED <<node, socket, bWs, fetchFrom, historic, currentTxHash,
                 currentBlock, applied, uncomputed>>

\* Slips: the last processed log is not a duplicate; the block is not compared.
isDuplicate_Strict(l) ==
  \/ l.block < lastProcessedBlock
  \/ l.block = lastProcessedBlock /\ l.index < lastProcessedLogIndex
isDuplicate_IndexOnly(l) == l.index <= lastProcessedLogIndex

isDuplicate(l) ==
  \/ l.block < lastProcessedBlock
  \/ l.block = lastProcessedBlock /\ l.index <= lastProcessedLogIndex

\* One message of logBuffer.  Whether the channel is empty afterwards is read
\* as of the step: a push between the pop and the test is a push before both.
LiveLog ==
  /\ phase = "live"
  /\ popped < read
  /\ popped' = popped + 1
  /\ LET l      == feed[popped + 1]
         fresh  == ~isDuplicate(l)
         marked == DirtyAt(l) \cup (IF fresh THEN MarkedBy(l) ELSE {})
         direct == FlushedAt(l) \cup (IF fresh THEN EnqueuedBy(l) ELSE {})
         idle   == popped + 1 = read
     IN  /\ currentBlock' = IF l.block > currentBlock THEN l.block ELSE currentBlock
         /\ currentTxHash' = Tx(l)
         /\ IF fresh
              THEN /\ processLog(popped + 1)
                   /\ lastProcessedBlock' = l.block
                   /\ lastProcessedLogIndex' = l.index
              ELSE UNCHANGED <<applied, uncomputed, cursor>>
         /\ dirtyUsers' = IF idle THEN {} ELSE marked
         /\ Enqueue(direct \cup (IF idle THEN marked ELSE {}))
  /\ UNCHANGED <<node, active, reader, read, start>>

\* The context is cancelled: the live loop returns and the socket is closed.
Stop ==
  /\ phase = "live"
  /\ phase' = "stopped"
  /\ reader' = IF reader = "up" THEN "dead" ELSE reader
  /\ UNCHANGED <<node, active, read, popped, bWs, fetchFrom, historic,
                 cursor, batch, currentBlock, effect>>

\* A worker of the risk engine takes a user and reads its position.
WorkerTake(u) ==
  /\ u \in queue
  /\ queue' = queue \ {u}
  /\ uncomputed' = uncomputed \ {u}
  /\ UNCHANGED <<node, socket, start, cursor, batch, currentBlock, applied, refused>>
----
Next ==
  \/ MineBlock \/ Reorg
  \/ Subscribe \/ ActivateSubscription \/ ReadWS \/ ReaderDies
  \/ FetchLatestBlock \/ FetchChunk \/ StartFails
  \/ ReplayLog \/ FinishReplay \/ LiveLog \/ Stop
  \/ \E u \in Users : WorkerTake(u)

Spec == Init /\ [][Next]_vars

\* The goroutines are scheduled, requests are answered, the node takes up the
\* subscription.  Nothing obliges the chain to grow or anything to fail.
Fairness ==
  /\ WF_vars(Subscribe) /\ WF_vars(ActivateSubscription) /\ WF_vars(ReadWS)
  /\ WF_vars(FetchLatestBlock) /\ WF_vars(FetchChunk)
  /\ WF_vars(ReplayLog) /\ WF_vars(FinishReplay) /\ WF_vars(LiveLog)
  /\ \A u \in Users : WF_vars(WorkerTake(u))

FairSpec == Spec /\ Fairness
----
(* Properties. *)

\* The events the store reflects, in the order they were applied.
AppliedLogs == [i \in DOMAIN applied |-> feed[applied[i]]]

\* log_replay_engine.go:509-560.  Merging the fetched history with the
\* subscription applies the chain's events in chain order, none twice and none
\* left out before a later one: the engine implements EventStream.
Stream == INSTANCE EventStream WITH journal <- feed, applied <- AppliedLogs
ImplementsStream == Stream!Spec

\* log_replay_engine.go:531-560.  Once live, with every message the node sent
\* consumed, the store reflects exactly the events of the canonical chain, each
\* applied once and after those that precede it.
MatchesChain ==
  phase = "live" /\ active /\ popped = Len(feed) =>
    /\ { feed[applied[i]] : i \in DOMAIN applied } = { feed[i] : i \in Canonical }
    /\ \A i, j \in DOMAIN applied : i < j => Less(feed[applied[i]], feed[applied[j]])

\* log_replay_engine.go:529, 548-565.  A user whose position changed and who was
\* not taken by a worker since is remembered, in dirtyUsers or in the queue, unless
\* the queue was full when it was handed over last; and it has been handed over
\* when the live loop has nothing left to read.
NoUserForgotten ==
  /\ uncomputed \subseteq dirtyUsers \cup queue \cup refused
  /\ phase = "live" /\ popped = read => dirtyUsers = {}

\* log_replay_engine.go:516-520.  During the replay users are flushed between
\* transactions only: when dirty users leave the set, no log of the transaction
\* that marked them is still to come.
FlushedByTransaction ==
  [][ phase = "replay" /\ ~(dirtyUsers \subseteq dirtyUsers')
        => \A e \in historic : Tx(feed[e[2]]) # currentTxHash ]_vars

\* log_replay_engine.go:445-453, 526, 531, 559.  The cursor that recognises
\* duplicates never moves backwards, whatever the two sources deliver.
CursorNeverBack ==
  [][ \/ lastProcessedBlock < lastProcessedBlock'
      \/ /\ lastProcessedBlock = lastProcessedBlock'
         /\ lastProcessedLogIndex <= lastProcessedLogIndex' ]_vars

\* log_replay_engine.go:455-566.  The store catches up with the chain (which
\* stops growing at MaxBlock), unless Start failed, was stopped, or the goroutine
\* that reads the socket is gone.
CaughtUp == Len(applied) = Len(feed) \/ reader = "dead" \/ phase \in {"failed", "stopped"}
EventuallyApplied == Len(applied) < Len(feed) ~> CaughtUp

\* log_replay_engine.go:529, 563-565, risk_engine.go:446-452.  A user whose
\* position changed reaches a worker, even when the reader died after the event;
\* what can prevent it is a queue without room at the moment of the hand-over.
EventuallyComputed ==
  \A u \in Users :
    u \in uncomputed ~> (u \notin uncomputed \/ u \in refused \/ phase = "stopped")
====
