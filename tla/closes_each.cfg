SPECIFICATION Spec
CONSTANTS
    p = p
    q = q
    r = r
    s = s
    Players <- TwoPlayers
    Relics <- TwoRelics
    Readable <- AllButOne
    MaxBuys = 3
INVARIANTS  ClosesEach
