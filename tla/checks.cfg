SPECIFICATION ScreenSpec
CONSTANTS
    Cards <- Both
    Numbers <- Few
    Scopes <- FewScopes
    MaxEdits = 2
    TOTAL = 8
    MAX_BLOCKS = 8
    MAX_PAYS = 3
    MAX_TIERS = 1
    MAX_POOL = 4
    MAX_CELLS = 12
    CELL_PAYLOAD_MAX = 4
    SOL = "sol"
INVARIANTS AcceptedPasses PassingIsAccepted
CHECK_DEADLOCK FALSE
