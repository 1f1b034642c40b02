SPECIFICATION FairPubSpec
CONSTANTS
    a = a
    b = b
    bad = bad
    Cards <- TwoCards
    Refused <- OneBad
    Zeroed = zeroed
    INITIAL_CARDS = 1
    HeaderRent = 1
    Declared <- SetupDeclares
    Indices <- Bytes
    CarriedSizes <- UpToThree
    MaxSlots = 2
    Sheets <- TheSheets
    Forces <- Always
    MaxEdits = 1
    MaxOthers = 1
INVARIANTS PublishLands NothingRetiredSells MixesOnlyTwo
PROPERTIES Converges
