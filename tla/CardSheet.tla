------------------------------ MODULE CardSheet ------------------------------
(***************************************************************************)
(* One card of the published sheet and what set_card accepts as one.       *)
(*                                                                         *)
(* A card is a record: its mode and roll, the runs of cells its blocks lay *)
(* end to end, the pays that look into them, the tiers, the token pool and *)
(* the two jackpot bands.  Cells, blocks, pays and tokens are numbered     *)
(* from 1 here; a scope is the set of cells its mask names.                *)
(***************************************************************************)
EXTENDS Sequences, Chances

CONSTANTS
    MAX_BLOCKS, MAX_PAYS, MAX_TIERS, MAX_POOL, MAX_CELLS,
    CELL_PAYLOAD_MAX,   \* the largest number a cell can print
    SOL                 \* the mint of SOL

\* The fields of a card and what their wire types hold.  The numbers of the
\* blocks a duel is fought over mean something in compare mode only.
Roles == {"plate", "number", "mark", "jackpot"}
IsCard(card) ==
    /\ card.mode \in {"count", "compare"} /\ card.roll \in {"exclusive", "independent"}
    /\ card.blocks \in Seq([role : Roles, count : Nat, distinct : BOOLEAN, a : Nat, b : Nat])
    /\ card.pays \in Seq([scope : SUBSET (1 .. MAX_CELLS), weight : Nat, min : Nat,
                          marked : BOOLEAN, linear : BOOLEAN, mult : Nat])
    /\ card.tiers \in Seq([factor : Nat, weight : Nat])
    /\ DOMAIN card.pool = 1 .. Len(card.pool) /\ Len(card.pool) \in Nat
    /\ \A t \in DOMAIN card.pool : card.pool[t].amount \in Nat /\ card.pool[t].weight \in Nat
    /\ card.duel.strict \in BOOLEAN
    /\ card.hit \in Nat /\ card.near \in Nat

Weights(table) == [i \in DOMAIN table |-> table[i].weight]

-----------------------------------------------------------------------------
(* Where a card's cells are *)

Tokens(card) == DOMAIN card.pool
Sizes(card) == [b \in DOMAIN card.blocks |-> card.blocks[b].count]
Offset(card, i) == SumOver(Sizes(card), 1 .. i - 1)
CellsOf(card, i) == Offset(card, i) + 1 .. Offset(card, i) + card.blocks[i].count
CellCount(card) == Offset(card, Len(card.blocks) + 1)

WithRole(card, role) == {i \in DOMAIN card.blocks : card.blocks[i].role = role}

\* CardConfig::first_block, as the cells it covers and none where no block has
\* the role.
First(card, role) == {i \in WithRole(card, role) :
                        \A j \in WithRole(card, role) : i <= j}
FirstCells(card, role) == UNION {CellsOf(card, i) : i \in First(card, role)}

BodyLen(card) == SumOver(Sizes(card), DOMAIN card.blocks \ WithRole(card, "jackpot"))
Body(card) == 1 .. BodyLen(card)

\* The pool token that looks like SOL: the first whose mint is SOL, if any.
SolTokens(card) == {t \in Tokens(card) : /\ card.pool[t].mint = SOL
                                         /\ \A s \in 1 .. t - 1 : card.pool[s].mint # SOL}

-----------------------------------------------------------------------------
(* SetCard::validate *)

\* Mutant: the length of the pay table is not looked at.
ShapeUncounted(card) ==
    /\ Len(card.blocks) \in 1 .. MAX_BLOCKS /\ Len(card.pays) >= 1
    /\ Len(card.tiers) <= MAX_TIERS /\ Len(card.pool) \in 1 .. MAX_POOL
    /\ CellCount(card) \in 1 .. MAX_CELLS
    /\ WithRole(card, "jackpot") = {Len(card.blocks)}

ShapeOk(card) ==
    /\ Len(card.blocks) \in 1 .. MAX_BLOCKS
    /\ Len(card.pays) \in 1 .. MAX_PAYS
    /\ Len(card.tiers) <= MAX_TIERS
    /\ Len(card.pool) \in 1 .. MAX_POOL
    /\ CellCount(card) \in 1 .. MAX_CELLS
    /\ \A i \in DOMAIN card.blocks : card.blocks[i].count > 0
    /\ WithRole(card, "jackpot") = {Len(card.blocks)}
    /\ \A i \in WithRole(card, "number") :
         /\ card.blocks[i].a \in 1 .. card.blocks[i].b
         /\ card.blocks[i].b <= CELL_PAYLOAD_MAX
    /\ BodyLen(card) > 0

\* The wire's weights are u32: none is the whole of TOTAL.
Widths(card) ==
    \A table \in {Weights(card.pool), Weights(card.pays), Weights(card.tiers),
                  <<card.hit, card.near>>} :
      \A i \in DOMAIN table : table[i] \in 0 .. TOTAL - 1

PoolOk(card) ==
    /\ Sum(Weights(card.pool)) = TOTAL
    /\ \A t \in Tokens(card) : card.pool[t].amount > 0
    /\ \A s, t \in Tokens(card) : card.pool[s].mint = card.pool[t].mint => s = t

TiersOk(card) ==
    /\ Sum(Weights(card.tiers)) <= TOTAL
    /\ \A i \in DOMAIN card.tiers : card.tiers[i].factor >= 2

JackpotOk(card) ==
    LET line == card.blocks[Len(card.blocks)]
    IN card.hit + card.near <= TOTAL /\ line.a + line.b > 0

\* How many marks the first mark block holds.
Marks(card) == Cardinality(FirstCells(card, "mark"))

PaysOk(card) ==
    \A i \in DOMAIN card.pays :
      LET p == card.pays[i]
      IN /\ p.scope # {} /\ p.scope \subseteq Body(card)
         /\ p.min \in 1 .. Cardinality(p.scope)
         /\ p.mult >= 1
         /\ p.marked => Marks(card) > 0
         /\ ~(card.mode = "count" /\ p.min = 1 /\ ~p.marked)

RollOk(card) ==
    IF card.roll = "exclusive" THEN Sum(Weights(card.pays)) <= TOTAL
    ELSE \A i, j \in DOMAIN card.pays :
           i # j => card.pays[i].scope \cap card.pays[j].scope = {}

DuelOk(card) ==
    LET d == card.duel
    IN /\ {d.house, d.mine, d.prize} \subseteq DOMAIN card.blocks
       /\ LET h == card.blocks[d.house]
              m == card.blocks[d.mine]
              p == card.blocks[d.prize]
          IN /\ h.role = "number" /\ m.role = "number" /\ p.role = "plate"
             /\ h.count = m.count /\ m.count = p.count
             /\ m.a < h.a /\ m.b > h.b

FloorOf(n, least) == IF n > least THEN n ELSE least

UnmarkedCaps(card, scope) ==
    {FloorOf(card.pays[i].min - 1, 1) :
       i \in {j \in DOMAIN card.pays : card.pays[j].scope = scope /\ ~card.pays[j].marked}}

\* Mutant: the loosest cap binds.
LoosestCap(card, scope) ==
    IF UnmarkedCaps(card, scope) = {} THEN Marks(card)
    ELSE Cardinality(scope) \div Max(UnmarkedCaps(card, scope))

\* How many tokens the pays over one scope can keep out of a cell: the scope
\* divided by its tightest cap, or the marks where only marked tokens count.
Blocked(card, scope) ==
    IF UnmarkedCaps(card, scope) = {} THEN Marks(card)
    ELSE Cardinality(scope) \div Min(UnmarkedCaps(card, scope))

\* The scopes over a cell, each once however many rungs share it.
ScopesAt(card, c) == {scope \in {card.pays[i].scope : i \in DOMAIN card.pays} : c \in scope}

\* SetCard::check_fillable: whatever is kept out of a cell, a token is left.
Fillable(card) ==
    \A c \in Body(card) :
      SumOver([scope \in ScopesAt(card, c) |-> Blocked(card, scope)], ScopesAt(card, c))
      < Len(card.pool)

Valid(card) ==
    /\ ShapeOk(card) /\ Widths(card) /\ PoolOk(card) /\ TiersOk(card) /\ JackpotOk(card)
    /\ PaysOk(card) /\ RollOk(card)
    /\ IF card.mode = "compare" THEN DuelOk(card) ELSE Fillable(card)
=============================================================================
