SPECIFICATION Spec
CONSTANTS
    a1 = a1
    a2 = a2
    w1 = w1
    w2 = w2
    NoAsset = NoAsset
    Assets <- TwoAssets
    Amounts = {4}
    RAY = 2
    Indices = {3}
    Roundings <- MCRoundings
    StartIndexed <- MCStartIndexed
    Starts <- MCStarts
    Categories = {1}
    Kinds <- AllKinds
    Workers <- OneWorker
    Dust = 1
    Anchor = 1
    MaxBlock = 3
    MaxLogs = 2
SYMMETRY Symmetry
INVARIANTS
    TypeOK
    FollowsChain
    EModeAgrees
    SubscribedUnlessReplaced
CHECK_DEADLOCK FALSE
