SPECIFICATION FairSpec
CONSTANTS
    sol = sol
    tok = tok
    thin = thin
    SOL = sol
    FEE_RESERVE = 1
    Steps = {1, 10, 100, 1000}
    Tokens <- Three
    NoRoutes <- OnlyThin
    Factors <- Policy
    Fills <- Filling
    Worsts <- WithThin
    HouseSizes <- Dry
    WalletSizes <- Dry
    Ample = 300
    Prizes <- SmallAndWorst
    MaxPlays = 1
    MaxPublishes = 0
PROPERTY ReachesTarget
