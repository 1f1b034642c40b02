----------------------------- MODULE SheetCheck ------------------------------
(***************************************************************************)
(* The sheet tool's checks beside the program's.  A card is edited field   *)
(* by field; validate.ts says whether it is fit to publish before          *)
(* SetCard::validate does, on chain.                                       *)
(*                                                                         *)
(* That the jackpot chance follows the price is the tool's own rule and    *)
(* left out.                                                               *)
(***************************************************************************)
EXTENDS CardSheet, Functions

CONSTANTS
    Cards,      \* cards the sheet starts from
    Numbers,    \* what a field may be set to
    Scopes,     \* the scopes an entry may be given
    MaxEdits    \* bound: fields changed

\* The sheet's types: numbers are not negative, and a scope is a mask over the
\* cells a card may have.
CardsOver(mints) ==
    [mode : {"count", "compare"}, roll : {"exclusive", "independent"},
     duel : [house : Nat, mine : Nat, prize : Nat, strict : BOOLEAN],
     blocks : Seq([role : Roles, count : Nat, distinct : BOOLEAN, a : Nat, b : Nat]),
     pays : Seq([scope : SUBSET (1 .. MAX_CELLS), weight : Nat, min : Nat,
                 marked : BOOLEAN, linear : BOOLEAN, mult : Nat]),
     tiers : Seq([factor : Nat, weight : Nat]),
     pool : Seq([mint : mints, amount : Nat, weight : Nat]),
     hit : Nat, near : Nat]

Mints == UNION {{c.pool[t].mint : t \in DOMAIN c.pool} : c \in Cards}

WellTyped ==
    /\ Cards \subseteq CardsOver(Mints)
    /\ Numbers \subseteq Nat /\ Scopes \subseteq SUBSET (1 .. MAX_CELLS)

ASSUME SheetCheckAssumption == WellTyped

VARIABLES
    card,       \* the card on the screen
    edits

screenVars == <<card, edits>>

ScreenInit == card \in Cards /\ edits = 0

-----------------------------------------------------------------------------
(* The tool's fields *)

PayFields == {"weight", "min", "mult"}
PoolFields == {"weight", "amount"}
BlockFields == {"count", "a", "b"}

Edited(new) ==
    /\ edits < MaxEdits
    /\ card' = new
    /\ edits' = edits + 1

EditPay ==
    \E i \in DOMAIN card.pays :
      \/ \E f \in PayFields, n \in Numbers : Edited([card EXCEPT !.pays[i][f] = n])
      \/ \E scope \in Scopes : Edited([card EXCEPT !.pays[i].scope = scope])
      \/ Edited([card EXCEPT !.pays[i].marked = ~@])
      \/ Edited([card EXCEPT !.pays = Append(@, card.pays[i])])
      \/ Edited([card EXCEPT !.pays = SubSeq(@, 1, i - 1)])

EditPool ==
    \E t \in Tokens(card) :
      \/ \E f \in PoolFields, n \in Numbers : Edited([card EXCEPT !.pool[t][f] = n])
      \/ \E s \in Tokens(card) : Edited([card EXCEPT !.pool[t].mint = card.pool[s].mint])
      \/ Edited([card EXCEPT !.pool = SubSeq(@, 1, t - 1)])

EditBlock ==
    \E i \in DOMAIN card.blocks :
      \/ \E f \in BlockFields, n \in Numbers : Edited([card EXCEPT !.blocks[i][f] = n])
      \/ Edited([card EXCEPT !.blocks = SubSeq(@, 1, i)])

EditRest ==
    \/ \E n \in Numbers : Edited([card EXCEPT !.near = n]) \/ Edited([card EXCEPT !.hit = n])
    \/ \E factor, weight \in Numbers :
          Edited([card EXCEPT !.tiers = Append(@, [factor |-> factor, weight |-> weight])])
    \/ \E roll \in {"exclusive", "independent"} : Edited([card EXCEPT !.roll = roll])
    \/ \E mode \in {"count", "compare"} : Edited([card EXCEPT !.mode = mode])

ScreenNext == EditPay \/ EditPool \/ EditBlock \/ EditRest

ScreenSpec == ScreenInit /\ [][ScreenNext]_screenVars

-----------------------------------------------------------------------------
(* validate.ts *)

\* mutant: the chain's rule for a number's least value is taken for its width
RangeTooTight(b) == b.a >= 1 /\ b.b < CELL_PAYLOAD_MAX
RangeOk(b) == b.a <= b.b /\ b.b <= CELL_PAYLOAD_MAX

WeightsPass(c) ==
    /\ IF c.roll = "exclusive" THEN Sum(Weights(c.pays)) <= TOTAL
       ELSE /\ \A i \in DOMAIN c.pays : c.pays[i].weight <= TOTAL
            /\ \A i, j \in DOMAIN c.pays :
                 i # j => c.pays[i].scope \cap c.pays[j].scope = {}
    /\ Sum(Weights(c.pool)) = TOTAL
    /\ c.hit + c.near <= TOTAL
    /\ Sum(Weights(c.tiers)) <= TOTAL

\* mutant: the last block is taken for the jackpot line unread
SizesUnread(c) ==
    /\ Len(c.pool) \in 1 .. MAX_POOL
    /\ Len(c.blocks) \in 1 .. MAX_BLOCKS
    /\ Len(c.pays) \in 1 .. MAX_PAYS
    /\ Len(c.tiers) <= MAX_TIERS
    /\ CellCount(c) <= MAX_CELLS

SizesPass(c) ==
    /\ Len(c.pool) \in 1 .. MAX_POOL
    /\ Len(c.blocks) \in 1 .. MAX_BLOCKS
    /\ Len(c.pays) \in 1 .. MAX_PAYS
    /\ Len(c.tiers) <= MAX_TIERS
    /\ CellCount(c) <= MAX_CELLS
    /\ WithRole(c, "jackpot") = {Len(c.blocks)}

EntriesPass(c) ==
    /\ \A i \in DOMAIN c.pays :
         /\ c.pays[i].min \in 1 .. Cardinality(c.pays[i].scope)
         /\ c.pays[i].scope \subseteq Body(c)
         /\ c.pays[i].marked => WithRole(c, "mark") # {}
    /\ \A i \in WithRole(c, "number") : RangeOk(c.blocks[i])
    /\ \E t \in Tokens(c) : c.pool[t].weight > 0

DuelPasses(c) ==
    LET named == {c.duel.house, c.duel.mine, c.duel.prize}
    IN  /\ named \subseteq DOMAIN c.blocks
        /\ c.blocks[c.duel.house].role = "number"
        /\ c.blocks[c.duel.mine].role = "number"
        /\ c.blocks[c.duel.prize].role = "plate"
        /\ \A i, j \in named : c.blocks[i].count = c.blocks[j].count

Passes(c) ==
    /\ WeightsPass(c) /\ SizesPass(c) /\ EntriesPass(c)
    /\ c.mode = "compare" => DuelPasses(c)

-----------------------------------------------------------------------------
(* What must hold *)

\* The tool never stands in the way: a card set_card takes passes the tool's
\* checks, so rebalance never gives up on a shelf the chain holds.
AcceptedPasses == Valid(card) => Passes(card)

\* The rules of set_card the tool does not ask about.
Unasked(c) ==
    LET line == c.blocks[Len(c.blocks)]
    IN  /\ Widths(c) /\ line.a + line.b > 0
        /\ BodyLen(c) > 0 /\ \A b \in Range(c.blocks) : b.count > 0
        /\ \A i \in WithRole(c, "number") : c.blocks[i].a >= 1
        /\ \A t \in Tokens(c) : c.pool[t].amount > 0
        /\ \A s, t \in Tokens(c) : c.pool[s].mint = c.pool[t].mint => s = t
        /\ \A tier \in Range(c.tiers) : tier.factor >= 2
        /\ \A p \in Range(c.pays) : p.mult >= 1 /\ (c.mode = "count" => p.min > 1 \/ p.marked)
        /\ IF c.mode = "count" THEN Fillable(c)
           ELSE /\ c.blocks[c.duel.mine].a < c.blocks[c.duel.house].a
                /\ c.blocks[c.duel.mine].b > c.blocks[c.duel.house].b

\* But for those the two agree: a sheet the tool passes and that keeps the rules
\* above cannot be refused on chain.
PassingIsAccepted == Passes(card) /\ Unasked(card) => Valid(card)

\* validate.ts:14: "Every rule SetCard would enforce on chain, so a sheet can't be
\* tuned into an invalid one", which a pay of multiple nought is (every_rule).
EveryRule == Passes(card) => Valid(card)
=============================================================================
