SPECIFICATION Spec
CONSTANTS
    Cards <- Deals
    TOTAL = 8
    MAX_BLOCKS = 8
    MAX_PAYS = 4
    MAX_TIERS = 1
    MAX_POOL = 4
    MAX_CELLS = 16
    CELL_PAYLOAD_MAX = 4
    SOL = "sol"
INVARIANTS TypeOK NoWinDropped ShowsWhatItRolled NeverStuck OnlyWinnersFire CoveredByFloat LineReadsTrue
CHECK_DEADLOCK FALSE
