SPECIFICATION Spec
CONSTANTS
    TOTAL = 1000
    MaxLen = 4
    MaxRel = 6
    Curves <- FallingCurves
    Shapes <- FewShapes
    Pins <- HighPins
    Gains <- SomeGains
    Tables <- HandTables
    Roll = "exclusive"
INVARIANT AlwaysRarest
