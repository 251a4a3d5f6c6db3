\* Two workers, one user; requests fail, the queue overflows, prices, interest and E-modes move.
CONSTANTS
  u1 = u1
  u2 = u2
  w1 = w1
  w2 = w2
  Users <- OneUser
  Workers <- TwoWorkers
  NoUser = NoUser
  NoHF = NoHF
  NoItem = NoItem
  QueueCap = 1
  Profitable <- OneUser
  ChainLevels <- AllChain
  StoredLevels <- AllStored
  RpcFails = TRUE
  Overflow = TRUE
  PriceMoves = TRUE
  Interest = TRUE
  NewCategories = TRUE
SPECIFICATION Spec
SYMMETRY AnyWorker
INVARIANTS
  TypeOK HeapNotSafer
