SPECIFICATION FairPlaySpec
CONSTANTS
    u1 = u1
    k1 = k1
    sol = sol
    Users <- OneUser
    Keys <- OneKey
    Wallet <- ItsOwn
    Mints <- OneMint
    SOL = sol
    Terms <- OneTerms
    NoTerms <- Unprinted
    Seeds <- WinOrJackpot
    NoSeed = "zero"
    Winnings <- Deal
    Members = {"wallet"}
    CarriedMembers = {"wallet"}
    Shelf0 <- Sheet
    Count0 = 1
    MaxCards = 1
    Carried <- OldCards
    Purse0 <- Funds
    House0 <- Float
    Pot0 = 3
    Closable <- Empty
    Floats <- Empty
    TopUpMax = 0
    WordMax = 1000000
    CARD_SLOTS = 1
    TOKEN_SLOTS = 1
    MaxBuys = 2
    MaxInstructions = 3
    RunCards <- NoneOnceOrTwice
    MaxDeaths = 2
INVARIANT RefusedOnlyWhenOvertaken
PROPERTIES EveryTicketPaid
