\* One worker, two users and room for one of them in the queue; requests fail.
CONSTANTS
  u1 = u1
  u2 = u2
  w1 = w1
  w2 = w2
  Users <- TwoUsers
  Workers <- OneWorker
  NoUser = NoUser
  NoHF = NoHF
  NoItem = NoItem
  QueueCap = 1
  Profitable <- OneUser
  ChainLevels <- FewChain
  StoredLevels <- FewStored
  RpcFails = TRUE
  Overflow = TRUE
  PriceMoves = FALSE
  Interest = FALSE
  NewCategories = FALSE
SPECIFICATION FairSpec
PROPERTIES
  WatchdogRetries
