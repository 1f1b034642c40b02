SPECIFICATION Spec
CONSTANTS
    sol = sol
    tok = tok
    thin = thin
    SOL = sol
    FEE_RESERVE = 1
    Steps = {1, 10, 100, 1000}
    Tokens <- Two
    NoRoutes <- NoneThin
    Factors <- Policy
    Fills <- Plain
    Worsts <- Sheets
    HouseSizes <- Sizes
    WalletSizes <- Wallets
    Ample = 300
    Prizes <- SmallAndWorst
    MaxPlays = 1
    MaxPublishes = 1
INVARIANT HouseCovers
