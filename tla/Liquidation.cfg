SPECIFICATION Spec
CONSTANTS
    Assets <- MCAssets
    Categories <- MCCategories
    KnownCategories <- MCKnown
    Unit <- MCUnit
    BorrowIndex <- MCIndex
    LiquidityIndex <- MCIndex
    Bonus <- MCBonus
    ProtocolFee <- MCFee
    CategoryBonus <- MCCategoryBonus
    Collaterals <- MCCollaterals
    StoredBonus <- MCStoredBonus
    StoredCollaterals <- MCStoredCollaterals
    Ray = 10
    PercentageFactor = 100
    DefaultLiquidationCloseFactor = 50
    MinBaseMaxCloseFactorThreshold = 60
    MinLeftoverBase = 30
    FlashloanFee = 1
    Slippage = 2
    GasCost = 1
    w1 = w1
    w2 = w2
    Workers <- MCWorkers
    Positions <- MCPositions
    PriceLists <- MCPrices
    Threshold <- MCThreshold
    CloseFactorHfThreshold = 95
    Gifts <- MCGifts
    maxRPCRetries = 2
    MaxNonce = 2
    MaxCalls = 2
INVARIANTS TypeOK Optimal RecipeFits PanicsOnlyIfIncomplete TermsBalance NoNonceGap
SYMMETRY MCSymmetry
CHECK_DEADLOCK FALSE
