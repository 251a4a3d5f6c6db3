\* The chain grows without reorganisations, nodes are in step.
CONSTANTS
  u1 = u1
  u2 = u2
  Users <- OneUser
  Subscribers <- OneUser
  NoUser = NoUser
  Anchor = 1
  ChunkSize = 2
  BufferCap = 2
  TxSpan = 2
  MaxBlock = 4
  MaxIndex = 1
  MaxLogs = 2
  Reorgs = FALSE
  LaggingNodes = FALSE
  QueueMayFill = FALSE
  LateAck = FALSE
SPECIFICATION FairSpec
INVARIANTS
  TypeOK
  MatchesChain
PROPERTIES
  ImplementsStream
  FlushedByTransaction
  EventuallyApplied
CHECK_DEADLOCK FALSE
