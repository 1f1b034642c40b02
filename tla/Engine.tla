------------------------------- MODULE Engine -------------------------------
(***************************************************************************)
(* The deal: what a card pays is rolled from the published weights before  *)
(* any cell exists, cells are then placed to show exactly that, and the    *)
(* cells alone are valued.  Each step of the renderer is an action; what   *)
(* the random generator picks is a choice over what it can pick.           *)
(*                                                                         *)
(* Amounts are unbounded here; the code saturates them, on both sides of   *)
(* every comparison made below.                                            *)
(***************************************************************************)
EXTENDS CardSheet

CONSTANT Cards     \* cards someone asks set_card to publish

ASSUME EngineAssumption ==
    /\ \A c \in Cards : IsCard(c)
    /\ TOTAL \in Nat /\ MAX_PAYS \in Nat /\ MAX_POOL \in Nat /\ MAX_CELLS \in Nat
    /\ CELL_PAYLOAD_MAX \in Nat

VARIABLES
    card,      \* the published card being dealt
    stage,     \* how far the deal is
    out,       \* Outcome: what was rolled
    cells,     \* the cells placed so far
    planted    \* how many of the wins are placed

vars == <<card, stage, out, cells, planted>>

EMPTY == [kind |-> "empty", is |-> 0]
Plate(t) == [kind |-> "plate", is |-> t]
Num(n) == [kind |-> "number", is |-> n]
Mark(t) == [kind |-> "mark", is |-> t]
SOL_MARK == 0      \* the jackpot line's own SOL, no pool token

\* Outcome: the wins (the entry that fired and on which token), the slot
\* multiplier and the jackpot band; `lost` is history, how many wins the roll
\* drew and found no room for.
Nothing == [wins |-> <<>>, tier |-> 1, jackpot |-> "none", lost |-> 0]

Init ==
    /\ card \in {c \in Cards : Valid(c)}
    /\ stage = "roll"
    /\ out = Nothing
    /\ cells = [c \in 1 .. CellCount(card) |-> EMPTY]
    /\ planted = 0

-----------------------------------------------------------------------------
(* Rolling *)

\* Rng::pick: a slot of positive weight, or 0 for the shortfall.
Picks(weights) == {i \in DOMAIN weights : weights[i] > 0}
                    \cup (IF Sum(weights) < TOTAL THEN {0} ELSE {})

\* Mutant: a miss is kept as a win.
MissesToo ==
    {<<w>> : w \in [pay : Picks(Weights(card.pays)), token : Picks(Weights(card.pool))]}

\* The sequences of wins a roll can draw.  An entry whose token fell into the
\* pool's shortfall wins nothing.
Drawn(i, t) == IF i = 0 \/ t = 0 THEN <<>> ELSE <<[pay |-> i, token |-> t]>>
Exclusive ==
    {Drawn(i, t) : i \in Picks(Weights(card.pays)), t \in Picks(Weights(card.pool))}

Fired(i) == (IF card.pays[i].weight > 0 THEN Picks(Weights(card.pool)) ELSE {})
              \cup (IF card.pays[i].weight < TOTAL THEN {0} ELSE {})

\* Each entry fires or not, in their order.
Independent ==
    {wins \in UNION {[1 .. n -> [pay : DOMAIN card.pays, token : Tokens(card)]] :
                       n \in 0 .. Len(card.pays)} :
       /\ \A k \in DOMAIN wins : wins[k].token \in Fired(wins[k].pay)
       /\ \A k, l \in DOMAIN wins : k < l => wins[k].pay < wins[l].pay
       /\ \A i \in DOMAIN card.pays :
            0 \in Fired(i) \/ \E k \in DOMAIN wins : wins[k].pay = i}

\* Outcome::push: a win past the room of the list is dropped.
Kept(wins) == SubSeq(wins, 1, IF Len(wins) < MAX_PAYS THEN Len(wins) ELSE MAX_PAYS)

Factor(i) == IF i = 0 THEN 1 ELSE card.tiers[i].factor
Band == <<"hit", "near">>

Roll ==
    /\ stage = "roll"
    /\ \E wins \in IF card.roll = "independent" THEN Independent ELSE Exclusive,
          tier \in Picks(Weights(card.tiers)),
          band \in Picks(<<card.hit, card.near>>) :
         out' = [wins |-> Kept(wins), tier |-> Factor(tier),
                 jackpot |-> IF band = 0 THEN "none" ELSE Band[band],
                 lost |-> Len(wins) - Len(Kept(wins))]
    /\ stage' = "marks"
    /\ UNCHANGED <<card, cells, planted>>

-----------------------------------------------------------------------------
(* Rendering *)

WinsIn(o) == {o.wins[i] : i \in DOMAIN o.wins}
Winners == {w.token : w \in WinsIn(out)}

\* The wins whose token the marks have to show: of a token won twice the first.
OnMarks == {k \in DOMAIN out.wins : card.pays[out.wins[k].pay].marked}
Wanted == {k \in OnMarks : \A l \in OnMarks : out.wins[l].token = out.wins[k].token => k <= l}
Place(k) == Cardinality({l \in Wanted : l <= k})

\* The marks a block of n may end up with: wanted ones first, as they were
\* rolled, then tokens at random, unlike the earlier ones where the block says
\* so and the pool has others left.  The generator gets 256 tries; what they
\* did not fill shows the first token.
MarkLines(n, distinct) ==
    LET shown == IF Cardinality(Wanted) < n THEN Cardinality(Wanted) ELSE n
    IN {line \in [1 .. n -> Tokens(card)] :
          /\ \A k \in Wanted : Place(k) <= n => line[Place(k)] = out.wins[k].token
          /\ \E drawn \in shown .. n :
               /\ drawn = n \/ (distinct /\ drawn \in 1 .. Len(card.pool) - 1)
               /\ \A k \in shown + 1 .. n :
                    IF k > drawn THEN line[k] = 1
                    ELSE distinct /\ k <= Len(card.pool) =>
                           \A j \in 1 .. k - 1 : line[j] # line[k]}

\* The scratch array has MAX_POOL slots: more marks than that run off it.
PlaceMarks ==
    /\ stage = "marks"
    /\ \/ /\ Marks(card) > MAX_POOL
          /\ stage' = "bad" /\ UNCHANGED cells
       \/ /\ Marks(card) <= MAX_POOL
          /\ stage' = "duels"
          /\ \E line \in MarkLines(Marks(card),
                           \E i \in First(card, "mark") : card.blocks[i].distinct) :
               cells' = [c \in DOMAIN cells |->
                  IF c \in FirstCells(card, "mark")
                  THEN Mark(line[c + 1 - Min(FirstCells(card, "mark"))])
                  ELSE cells[c]]
    /\ UNCHANGED <<card, out, planted>>

\* The d-th cell of each block of the duel.
House(d) == Offset(card, card.duel.house) + d
Mine(d) == Offset(card, card.duel.mine) + d
Prize(d) == Offset(card, card.duel.prize) + d
Duels == 1 .. card.blocks[card.duel.house].count

\* Wins of the outcome that say duel d pays; the first one sets its prize.
WinsDuel(d) == {i \in DOMAIN out.wins : Prize(d) \in card.pays[out.wins[i].pay].scope}

CeilOf(n, most) == IF n < most THEN n ELSE most

\* What the player's number may be against the house's h.
MineRange(d, h) ==
    LET mine == card.blocks[card.duel.mine]
        edge == IF card.duel.strict THEN 1 ELSE 0
    IN IF WinsDuel(d) # {} THEN CeilOf(h + edge, mine.b) .. mine.b
       ELSE mine.a .. FloorOf(h - edge, mine.a)

\* House numbers are drawn apart from each other for 64 tries at most where
\* the block says so, which leaves every combination possible.
RenderDuels ==
    /\ stage = "duels"
    /\ stage' = "cells"
    /\ \/ card.mode # "compare" /\ UNCHANGED cells
       \/ /\ card.mode = "compare"
          /\ LET house == card.blocks[card.duel.house]
             IN \E h \in [Duels -> house.a .. house.b] :
                \E m \in {f \in [Duels -> 0 .. CELL_PAYLOAD_MAX] :
                            \A d \in Duels : f[d] \in MineRange(d, h[d])} :
                  cells' = [c \in DOMAIN cells |->
                     IF \E d \in Duels : c = House(d) THEN Num(h[c - Offset(card, card.duel.house)])
                     ELSE IF \E d \in Duels : c = Mine(d) THEN Num(m[c - Offset(card, card.duel.mine)])
                     ELSE LET d == c - Offset(card, card.duel.prize)
                          IN IF d \in Duels /\ WinsDuel(d) # {}
                             THEN Plate(out.wins[Min(WinsDuel(d))].token) ELSE cells[c]]
    /\ UNCHANGED <<card, out, planted>>

\* The cells of a scope, walked from a cell drawn at random and around.
Turn(start, c) == IF c >= start THEN c - start ELSE c + MAX_CELLS - start
Free(scope, token) == {c \in scope : cells[c] \in {EMPTY, Plate(token)}}
Group(scope, token, want, start) ==
    {c \in Free(scope, token) :
       Cardinality({d \in Free(scope, token) : Turn(start, d) < Turn(start, c)})
         < want}

\* The next declared win is placed inside its own scope.
Plant ==
    /\ stage = "cells" /\ planted < Len(out.wins)
    /\ LET w == out.wins[planted + 1]
           p == card.pays[w.pay]
       IN \/ /\ Cardinality(Free(p.scope, w.token)) < p.min
             /\ stage' = "bad" /\ UNCHANGED <<cells, planted>>
          \/ /\ Cardinality(Free(p.scope, w.token)) >= p.min
             /\ \E start \in p.scope :
                  cells' = [c \in DOMAIN cells |->
                     IF c \in Group(p.scope, w.token, p.min, start)
                     THEN Plate(w.token) ELSE cells[c]]
             /\ planted' = planted + 1
             /\ UNCHANGED stage
    /\ UNCHANGED <<card, out>>

Shown(token, scope) == {c \in scope : cells[c] = Plate(token)}

\* A marked entry counts only plates of a token the first mark block shows.
IsMarked(token) == \E c \in FirstCells(card, "mark") : cells[c] = Mark(token)
Counts(p, token) == p.marked => IsMarked(token)

\* Mutant: every token may reach the group.
CapAtMin(i, token) == card.pays[i].min

\* How many of a token a scope may hold: a declared win its own group, any
\* other one short of firing.
Cap(i, token) == IF [pay |-> i, token |-> token] \in WinsIn(out)
                 THEN card.pays[i].min ELSE card.pays[i].min - 1

Placeable(c, token) ==
    card.mode = "count" =>
      \A i \in DOMAIN card.pays :
        LET p == card.pays[i]
        IN c \in p.scope /\ Counts(p, token) =>
             Cardinality(Shown(token, p.scope)) + 1 <= Cap(i, token)

\* Body cells still to fill; the first number block is the duels'.
Holes == {c \in Body(card) : cells[c] = EMPTY} \ FirstCells(card, "number")

\* What the fill may draw for a cell: tokens that won nothing, and where none
\* of those fits, the first token that does.
Fillers(c) ==
    LET fits == {t \in Tokens(card) : Placeable(c, t)}
        losers == fits \ Winners
    IN IF losers # {} THEN losers ELSE {t \in fits : \A u \in fits : t <= u}

\* The first hole is filled without firing anything undeclared.
Fill ==
    /\ stage = "cells" /\ planted = Len(out.wins)
    /\ Holes # {}
    /\ LET c == Min(Holes)
       IN \/ /\ Fillers(c) = {}
             /\ stage' = "bad" /\ UNCHANGED cells
          \/ /\ \E t \in Fillers(c) : cells' = [cells EXCEPT ![c] = Plate(t)]
             /\ UNCHANGED stage
    /\ UNCHANGED <<card, out, planted>>

\* Mutant: any token's mark.
AnyMark == Tokens(card)

\* Marks that do not read as SOL, while the pool has one.
NonSol == IF Len(card.pool) > 1 THEN Tokens(card) \ SolTokens(card)
          ELSE Tokens(card)

\* The jackpot line of each band.
Lines(band) ==
    LET line == FirstCells(card, "jackpot")
        won == [c \in line |-> Mark(SOL_MARK)]
    IN CASE band = "hit" -> {won}
         [] band = "near" -> {[won EXCEPT ![skip] = Mark(t)] :
                                 skip \in line, t \in NonSol}
         [] band = "none" -> [line -> {Mark(t) : t \in NonSol}]

\* The jackpot line, and the first token on any cell nothing was placed on.
RenderJackpot ==
    /\ stage = "cells" /\ planted = Len(out.wins)
    /\ Holes = {}
    /\ \E line \in Lines(out.jackpot) :
         cells' = [c \in DOMAIN cells |->
            IF c \in DOMAIN line THEN line[c]
            ELSE IF cells[c] = EMPTY THEN Plate(1) ELSE cells[c]]
    /\ stage' = "dealt"
    /\ UNCHANGED <<card, out, planted>>

Next == Roll \/ PlaceMarks \/ RenderDuels \/ Plant \/ Fill \/ RenderJackpot

Spec == Init /\ [][Next]_vars

-----------------------------------------------------------------------------
(* Valuing *)

\* The multiple an entry pays: its own, times the group where it is linear.
EffectiveMult(p) == p.mult * (IF p.linear THEN p.min ELSE 1)
Multiples == [i \in DOMAIN card.pays |-> EffectiveMult(card.pays[i])]

\* Duels the player's number won, whose prize cell shows a token.
WonDuels(token) ==
    {d \in Duels :
       /\ IF card.duel.strict THEN cells[Mine(d)].is > cells[House(d)].is
                              ELSE cells[Mine(d)].is >= cells[House(d)].is
       /\ cells[Prize(d)] = Plate(token)}

\* The first entry over a prize cell sets its multiple.
DuelMult(d) ==
    LET over == {i \in DOMAIN card.pays : Prize(d) \in card.pays[i].scope}
    IN IF over = {} THEN 1 ELSE EffectiveMult(card.pays[Min(over)])

\* Mutant: every rung reached pays.
EveryRung(token) ==
    {i \in DOMAIN card.pays :
       LET p == card.pays[i]
       IN /\ p.min > 0 /\ Counts(p, token)
          /\ Cardinality(Shown(token, p.scope)) >= p.min}

\* Entries a token fires: of the rungs over one scope, the highest reached.
Firing(token) ==
    {i \in DOMAIN card.pays :
       LET p == card.pays[i]
           found == Cardinality(Shown(token, p.scope))
       IN /\ p.min > 0 /\ Counts(p, token)
          /\ found >= p.min
          /\ \A j \in DOMAIN card.pays :
               LET q == card.pays[j]
               IN /\ q.scope = p.scope /\ q.marked = p.marked
                  /\ q.linear = p.linear /\ q.min <= found
                  => q.min <= p.min}

\* A multiplier among the body cells multiplies everything.
Multiplier ==
    LET shown == {c \in Body(card) : cells[c].kind = "multiplier"}
    IN IF shown = {} THEN 1 ELSE cells[Max(shown)].is

\* What the cells are worth, token by token.
Winnings == [t \in Tokens(card) |->
    card.pool[t].amount * Multiplier *
      (IF card.mode = "compare"
       THEN SumOver([d \in Duels |-> DuelMult(d)], WonDuels(t))
       ELSE SumOver(Multiples, Firing(t)))]

\* The line won: every cell of it is the SOL mark itself.
LineWon == \A c \in CellCount(card) - card.blocks[Len(card.blocks)].count + 1
                    .. CellCount(card) : cells[c] = Mark(SOL_MARK)

-----------------------------------------------------------------------------
(* Sizing the house float *)

\* The entries that can hit.
Live == {i \in DOMAIN card.pays : card.pays[i].weight > 0}

\* Mutant: entries are taken one at a time in every roll.
OneMultiple == IF Live = {} THEN 0 ELSE Max({Multiples[i] : i \in Live})

\* The most of a token's amount one deal pays: every entry where they roll on
\* their own, the dearest one otherwise.
TopMultiple ==
    CASE Live = {} -> 0
      [] Live # {} /\ card.roll = "independent" -> SumOver(Multiples, Live)
      [] OTHER -> Max({Multiples[i] : i \in Live})

TopTier == Max({1} \cup {card.tiers[i].factor : i \in {j \in DOMAIN card.tiers : card.tiers[j].weight > 0}})

\* The worst single collect of a token off this card.
Worst(token) ==
    IF card.pool[token].weight > 0 THEN card.pool[token].amount * TopMultiple * TopTier ELSE 0

-----------------------------------------------------------------------------
(* Properties *)

Cell == {EMPTY, Mark(SOL_MARK)} \cup {Plate(t) : t \in Tokens(card)}
          \cup {Mark(t) : t \in Tokens(card)} \cup {Num(n) : n \in 0 .. CELL_PAYLOAD_MAX}

\* Types, and what is left of a deal that ended.
TypeOK ==
    /\ Valid(card)
    /\ stage \in {"roll", "marks", "duels", "cells", "dealt", "bad"}
    /\ WinsIn(out) \subseteq [pay : DOMAIN card.pays, token : Tokens(card)]
    /\ out.tier \in Nat /\ out.lost \in Nat /\ out.jackpot \in {"hit", "near", "none"}
    /\ cells \in [1 .. CellCount(card) -> Cell]
    /\ planted \in 0 .. Len(out.wins)
    /\ stage = "dealt" => \A c \in DOMAIN cells : cells[c] # EMPTY

\* What was rolled, token by token (deal_checked).
Rolled == [t \in Tokens(card) |->
    card.pool[t].amount * out.tier *
      SumOver([k \in DOMAIN out.wins |-> Multiples[out.wins[k].pay]],
              {k \in DOMAIN out.wins : out.wins[k].token = t})]

(* Shapes set_card accepts and the engine does not keep its word on.  None *)
(* of the cards of tools/sheet/cards.json has one of them.                 *)

\* A multiplier is rolled; no cell is made to show it.
Tiered == \E i \in DOMAIN card.tiers : card.tiers[i].weight > 0

\* Duels: one dealt to lose may end in a draw;
DrawsWin == card.mode = "compare" /\ ~card.duel.strict
\* an entry pays over no prize, over two, or over another's, whose multiple
\* the duel pays.
Straddling ==
    card.mode = "compare" /\ \E i \in Live :
      LET prizes == {d \in Duels : Prize(d) \in card.pays[i].scope}
      IN \/ Cardinality(prizes) # 1
         \/ \E j \in 1 .. i - 1, d \in prizes : Prize(d) \in card.pays[j].scope

\* Counting: planting one entry may put enough tokens into another's scope,
\* and the two are not rungs of which only the highest pays;
Rungs(p, q) == p.scope = q.scope /\ p.marked = q.marked /\ p.linear = q.linear
Overlapping ==
    card.mode = "count" /\ \E i \in Live, j \in DOMAIN card.pays :
      LET p == card.pays[i]
          q == card.pays[j]
      IN /\ i # j /\ ~Rungs(p, q)
         /\ q.min <= p.min /\ q.min <= Cardinality(p.scope \cap q.scope)
\* two rungs of one height are both the highest;
Doubled ==
    card.mode = "count" /\ \E i \in Live, j \in DOMAIN card.pays :
      i # j /\ Rungs(card.pays[i], card.pays[j]) /\ card.pays[i].min = card.pays[j].min
\* an entry looks at cells of the first number block, which no fill reaches:
\* what is planted there stays, and the rest show the first token unasked;
Numbered ==
    card.mode = "count" /\ \E i \in DOMAIN card.pays :
      card.pays[i].scope \cap FirstCells(card, "number") # {}
\* more marked entries may win at once, on tokens of their own, than there are
\* marks to show them.
Drawable == {t \in Tokens(card) : card.pool[t].weight > 0}
Undermarked ==
    card.mode = "count" /\ card.roll = "independent"
    /\ Cardinality({i \in Live : card.pays[i].marked}) > Marks(card)
    /\ Cardinality(Drawable) > Marks(card)

\* Marks, or the numbers of a duel, leave an entry too few cells to be planted.
Taken == FirstCells(card, "mark") \cup
           (IF card.mode = "compare"
            THEN {House(d) : d \in Duels} \cup {Mine(d) : d \in Duels} ELSE {})
NoRoom == \E i \in Live : Cardinality(card.pays[i].scope \ Taken) < card.pays[i].min
\* The marked rung's cap is the lower one, and set_card looks at the other.
HalfMarked ==
    \E i \in DOMAIN card.pays :
      LET p == card.pays[i]
          caps == UnmarkedCaps(card, p.scope)
      IN p.marked /\ caps # {} /\ p.min - 1 < Min(caps)
\* The renderer's array of marks is as long as a pool, not as a block.
Overmarked == Marks(card) > MAX_POOL

\* What is dealt may be worth more than what was rolled.
Overpaying == DrawsWin \/ Straddling \/ Overlapping \/ Doubled \/ Numbered

\* The guarantee the crate rests on: the cells value to exactly what was rolled,
\* whatever the renderer drew on the way, on every card of no such shape.
ShowsWhatItRolled ==
    stage = "dealt" /\ ~(Tiered \/ Undermarked \/ Overpaying) =>
      /\ Winnings = Rolled
      /\ LineWon <=> out.jackpot = "hit"

\* The same of every card, as engine/src/lib.rs:679 has it: what the cards of
\* MCEngine named for the shapes break.
AlwaysShowsIt ==
    stage = "dealt" => /\ Winnings = Rolled
                       /\ LineWon <=> out.jackpot = "hit"

\* The list of wins, which drops what it has no room for without a word, has
\* room for every win a published card can roll at once.
NoWinDropped == out.lost = 0

\* A published card describes a shape the renderer gets stuck on only if it is
\* one of three.
NeverStuck == stage = "bad" => NoRoom \/ HalfMarked \/ Overmarked

\* No published card does, as set_card.rs:67 has it.
NoneSticks == stage # "bad"

\* No token fires an entry of a dealt card unless it was rolled to.
OnlyWinnersFire ==
    stage = "dealt" /\ card.mode = "count" /\ ~Numbered =>
      \A t \in Tokens(card) : Firing(t) # {} => t \in Winners

\* No deal pays more of a token than the operator's tool sizes the float for.
CoveredByFloat ==
    stage = "dealt" /\ ~Overpaying =>
      \A t \in Tokens(card) : Winnings[t] <= Worst(t)

\* The jackpot line looks won (each cell the SOL mark, or the mark of a pool
\* token whose mint is SOL) only when it is.
LineReadsTrue ==
    stage = "dealt" =>
      ((\A c \in FirstCells(card, "jackpot") :
          cells[c] \in {Mark(SOL_MARK)} \cup {Mark(t) : t \in SolTokens(card)})
       <=> out.jackpot = "hit")
=============================================================================
