\* One worker, one user with a profitable recipe, no failure.
CONSTANTS
  u1 = u1
  u2 = u2
  w1 = w1
  w2 = w2
  Users <- OneUser
  Workers <- OneWorker
  NoUser = NoUser
  NoHF = NoHF
  NoItem = NoItem
  QueueCap = 1
  Profitable <- OneUser
  ChainLevels <- TwoChain
  StoredLevels <- AllStored
  RpcFails = FALSE
  Overflow = FALSE
  PriceMoves = FALSE
  Interest = FALSE
  NewCategories = FALSE
SPECIFICATION FairSpec
PROPERTIES
  ProfitableIsSent
