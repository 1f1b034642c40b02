\* One of the cards the renderer gets stuck on, by Cards; TLC finds NoneSticks
\* violated by each of ReachingOnly, GrabbingOnly, MixedOnly and CrowdedOnly.
SPECIFICATION Spec
CONSTANTS
    Cards <- ReachingOnly
    TOTAL = 8
    MAX_BLOCKS = 8
    MAX_PAYS = 4
    MAX_TIERS = 1
    MAX_POOL = 4
    MAX_CELLS = 16
    CELL_PAYLOAD_MAX = 4
    SOL = "sol"
INVARIANT NoneSticks
CHECK_DEADLOCK FALSE
