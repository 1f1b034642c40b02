SPECIFICATION Spec
CONSTANTS
    u1 = u1
    u2 = u2
    k1 = k1
    k2 = k2
    sol = sol
    tok = tok
    Users <- TwoUsers
    Keys <- TwoKeys
    Wallet <- EachItsOwn
    Mints <- OneMint
    SOL = sol
    Terms <- OneTerms
    NoTerms <- Unprinted
    Seeds <- WinOrJackpot
    NoSeed = "zero"
    Winnings <- Deal
    Members = {"wallet", "floor"}
    CarriedMembers = {"wallet"}
    Shelf0 <- Sheet
    Count0 = 1
    MaxCards = 1
    Carried <- NoCarried
    Purse0 <- Funds
    House0 <- Float
    Pot0 = 3
    Closable <- Empty
    Floats <- Empty
    TopUpMax = 10
    WordMax = 1000000
    CARD_SLOTS = 1
    TOKEN_SLOTS = 1
    MaxBuys = 2
    MaxInstructions = 4
INVARIANTS TypeOK PotBooks PaidOnce
PROPERTIES TicketPromise
SYMMETRY Exchange
