SPECIFICATION Spec
CONSTANTS
    TOTAL = 1000
    MaxLen = 4
    MaxRel = 3
    Curves <- AnyCurves
    Shapes <- FewShapes
    Pins <- AnyPins
    Gains <- SomeGains
    Tables <- HandTables
    Roll = "exclusive"
PROPERTY UnderTheCeiling
