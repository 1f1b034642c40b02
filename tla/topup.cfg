SPECIFICATION FairSpec
CONSTANTS
    sol = sol
    tok = tok
    thin = thin
    SOL = sol
    FEE_RESERVE = 1
    Steps = {1, 10, 100, 1000}
    Tokens <- Three
    NoRoutes <- OnlyThin
    Factors <- Twice
    Fills <- Either
    Worsts <- ThinSheets
    HouseSizes <- Dry
    WalletSizes <- Dry
    Ample = 300
    Prizes <- JustSmall
    MaxPlays = 1
    MaxPublishes = 1
INVARIANTS TypeOK OkMeansCovered BoughtIsEnough
PROPERTY ReachesTarget
