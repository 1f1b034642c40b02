SPECIFICATION Spec
CONSTANTS
    a = a
    b = b
    bad = bad
    Cards <- TwoCards
    Refused <- OneBad
    Zeroed = zeroed
    INITIAL_CARDS = 2
    HeaderRent = 1
    Declared <- SetupDeclares
    Indices <- Bytes
    CarriedSizes <- NoneOrShort
    MaxSlots = 5
INVARIANTS PublishedWritten CountFits RentPaid
PROPERTIES KeepsTheList
