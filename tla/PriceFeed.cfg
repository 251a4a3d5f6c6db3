SPECIFICATION FairSpec
CONSTANTS
    u1 = u1
    u2 = u2
    a1 = a1
    a2 = a2
    w1 = w1
    w2 = w2
    p1 = p1
    p2 = p2
    NoUser = NoUser
    NoAsset = NoAsset
    NoPrice = NoPrice
    Users <- OneUser
    Assets <- TwoAssets
    Prices <- OnePrice
    Workers <- OneWorker
    MaxIndex = 1
INVARIANTS TypeOK SubscribersReached
PROPERTY CalculatedAgain
