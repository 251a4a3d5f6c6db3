\* Blocks are replaced, nodes lag, the subscription starts late.
CONSTANTS
  u1 = u1
  u2 = u2
  Users <- TwoUsers
  Subscribers <- OneUser
  NoUser = NoUser
  Anchor = 1
  ChunkSize = 2
  BufferCap = 2
  TxSpan = 2
  MaxBlock = 3
  MaxIndex = 1
  MaxLogs = 1
  Reorgs = TRUE
  LaggingNodes = TRUE
  QueueMayFill = TRUE
  LateAck = TRUE
SPECIFICATION FairSpec
INVARIANTS
  NoUserForgotten
PROPERTIES
  CursorNeverBack
  EventuallyComputed
CHECK_DEADLOCK FALSE
