SPECIFICATION Spec
CONSTANTS
    a = a
    b = b
    bad = bad
    Cards <- TwoCards
    Refused <- OneBad
    Zeroed = zeroed
    INITIAL_CARDS = 2
    HeaderRent = 1
    Declared <- AnyDeclared
    Indices <- Bytes
    CarriedSizes <- NoneOrShort
    MaxSlots = 5
INVARIANTS CountFits RentPaid
