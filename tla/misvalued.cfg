\* One of the cards named in MCEngine for a shape whose cells are not worth what
\* was rolled, by Cards; TLC finds AlwaysShowsIt violated by each of
\* SlotOnly, TiedOnly, TwiceOnly, MissedOnly, SharedOnly, NestedOnly, TwinOnly,
\* BlankOnly and UnseenOnly.
SPECIFICATION Spec
CONSTANTS
    Cards <- SlotOnly
    TOTAL = 8
    MAX_BLOCKS = 8
    MAX_PAYS = 4
    MAX_TIERS = 1
    MAX_POOL = 4
    MAX_CELLS = 16
    CELL_PAYLOAD_MAX = 4
    SOL = "sol"
INVARIANT AlwaysShowsIt
CHECK_DEADLOCK FALSE
