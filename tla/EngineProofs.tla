----------------------------- MODULE EngineProofs -----------------------------
(***************************************************************************)
(* The deal, proved for every card set_card may publish: the cells are     *)
(* worth exactly what was rolled, but for the shapes Engine names.         *)
(***************************************************************************)
EXTENDS Engine, TotalsProofs

-----------------------------------------------------------------------------
(* A card *)

LEMMA SeqFacts ==
  ASSUME NEW S, NEW s \in Seq(S)
  PROVE  DOMAIN s = 1 .. Len(s) /\ Len(s) \in Nat /\ \A k \in DOMAIN s : s[k] \in S
  OBVIOUS

LEMMA SeqOf ==
  ASSUME NEW S, NEW n \in Nat, NEW s \in [1 .. n -> S]
  PROVE  s \in Seq(S) /\ Len(s) = n
  OBVIOUS

LEMMA BlocksType ==
  ASSUME NEW c, IsCard(c)
  PROVE  /\ DOMAIN c.blocks = 1 .. Len(c.blocks) /\ Len(c.blocks) \in Nat
         /\ \A i \in DOMAIN c.blocks :
              /\ c.blocks[i].count \in Nat /\ c.blocks[i].a \in Nat /\ c.blocks[i].b \in Nat
              /\ c.blocks[i].role \in Roles /\ c.blocks[i].distinct \in BOOLEAN
<1> DEFINE B == [role : Roles, count : Nat, distinct : BOOLEAN, a : Nat, b : Nat]
<1>1. c.blocks \in Seq(B)
  BY DEF IsCard
<1>2. DOMAIN c.blocks = 1 .. Len(c.blocks) /\ Len(c.blocks) \in Nat /\ \A i \in DOMAIN c.blocks : c.blocks[i] \in B
  BY <1>1, SeqFacts
<1>3. \A e \in B : /\ e.count \in Nat /\ e.a \in Nat /\ e.b \in Nat
                   /\ e.role \in Roles /\ e.distinct \in BOOLEAN
  OBVIOUS
<1> QED  BY <1>2, <1>3

LEMMA PaysType ==
  ASSUME NEW c, IsCard(c)
  PROVE  /\ DOMAIN c.pays = 1 .. Len(c.pays) /\ Len(c.pays) \in Nat
         /\ \A i \in DOMAIN c.pays :
              /\ c.pays[i].scope \in SUBSET (1 .. MAX_CELLS)
              /\ c.pays[i].weight \in Nat /\ c.pays[i].min \in Nat /\ c.pays[i].mult \in Nat
              /\ c.pays[i].marked \in BOOLEAN /\ c.pays[i].linear \in BOOLEAN
<1> DEFINE E == [scope : SUBSET (1 .. MAX_CELLS), weight : Nat, min : Nat,
                 marked : BOOLEAN, linear : BOOLEAN, mult : Nat]
<1>1. c.pays \in Seq(E)
  BY DEF IsCard
<1>2. DOMAIN c.pays = 1 .. Len(c.pays) /\ Len(c.pays) \in Nat /\ \A i \in DOMAIN c.pays : c.pays[i] \in E
  BY <1>1, SeqFacts
<1>3. \A e \in E : /\ e.scope \in SUBSET (1 .. MAX_CELLS)
                   /\ e.weight \in Nat /\ e.min \in Nat /\ e.mult \in Nat
                   /\ e.marked \in BOOLEAN /\ e.linear \in BOOLEAN
  OBVIOUS
<1> QED  BY <1>2, <1>3

\* Blocks lie end to end.
LEMMA OffsetNext ==
  ASSUME NEW c, IsCard(c), NEW i \in DOMAIN c.blocks
  PROVE  /\ Offset(c, i) \in Nat
         /\ Offset(c, i + 1) = Offset(c, i) + c.blocks[i].count
<1>1. i \in Nat /\ i >= 1 /\ 1 .. i \subseteq DOMAIN c.blocks
  BY BlocksType
<1>2. \A x \in 1 .. i : Sizes(c)[x] \in Nat
  BY <1>1, BlocksType DEF Sizes
<1>3. IsFiniteSet(1 .. i - 1)
  BY <1>1, FS_Interval
<1>4. (i + 1) - 1 = i
  BY <1>1
<1>5. 1 .. i = (1 .. i - 1) \cup {i} /\ i \notin 1 .. i - 1
  BY <1>1
<1>6. SumOver(Sizes(c), (1 .. i - 1) \cup {i}) = Sizes(c)[i] + SumOver(Sizes(c), 1 .. i - 1)
  BY <1>2, <1>3, <1>5, SumAdd
<1>7. SumOver(Sizes(c), 1 .. i - 1) \in Nat
  <2>1. \A x \in 1 .. i - 1 : Sizes(c)[x] \in Nat
    BY <1>1, <1>2
  <2> QED  BY <2>1, <1>3, SumNat
<1>8. SumOver(Sizes(c), 1 .. (i + 1) - 1) = Sizes(c)[i] + SumOver(Sizes(c), 1 .. i - 1)
  BY <1>4, <1>5, <1>6, Zenon
<1>9. Sizes(c)[i] = c.blocks[i].count /\ c.blocks[i].count \in Nat
  BY BlocksType DEF Sizes
<1> QED  BY <1>7, <1>8, <1>9 DEF Offset

LEMMA OffsetGrows ==
  ASSUME NEW c, IsCard(c), NEW j \in 1 .. Len(c.blocks) + 1, NEW i \in 1 .. j
  PROVE  Offset(c, i) \in Nat /\ Offset(c, j) \in Nat /\ Offset(c, i) <= Offset(c, j)
<1>1. \A x \in 1 .. j - 1 : Sizes(c)[x] \in Nat
  BY BlocksType DEF Sizes
<1>2. IsFiniteSet(1 .. j - 1) /\ IsFiniteSet(1 .. i - 1) /\ 1 .. i - 1 \in SUBSET (1 .. j - 1)
  <2>1. Len(c.blocks) \in Nat
    BY BlocksType
  <2>2. j - 1 \in Int /\ i - 1 \in Int /\ 1 \in Int
    BY <2>1
  <2>3. IsFiniteSet(1 .. j - 1) /\ IsFiniteSet(1 .. i - 1)
    BY <2>2, FS_Interval
  <2> QED  BY <2>1, <2>3
<1>3. SumOver(Sizes(c), 1 .. i - 1) <= SumOver(Sizes(c), 1 .. j - 1)
  BY <1>1, <1>2, SumSubset
<1>4. SumOver(Sizes(c), 1 .. j - 1) \in Nat
  BY <1>1, <1>2, SumNat
<1>5. SumOver(Sizes(c), 1 .. i - 1) \in Nat
  <2>1. \A x \in 1 .. i - 1 : Sizes(c)[x] \in Nat
    BY <1>1, <1>2
  <2> QED  BY <1>2, <2>1, SumNat
<1> QED  BY <1>3, <1>4, <1>5 DEF Offset

\* The cells of two blocks are apart, and all are the card's.
LEMMA CellsApart ==
  ASSUME NEW c, IsCard(c), NEW i \in DOMAIN c.blocks, NEW j \in DOMAIN c.blocks, i # j
  PROVE  CellsOf(c, i) \cap CellsOf(c, j) = {}
<1>1. ASSUME NEW a \in DOMAIN c.blocks, NEW b \in DOMAIN c.blocks, a < b
      PROVE  CellsOf(c, a) \cap CellsOf(c, b) = {}
  <2>1. a + 1 \in 1 .. b /\ b \in 1 .. Len(c.blocks) + 1
    BY <1>1, BlocksType
  <2>2. Offset(c, a + 1) <= Offset(c, b) /\ Offset(c, b) \in Nat
    BY <2>1, OffsetGrows
  <2>3. Offset(c, a) \in Nat /\ Offset(c, a + 1) = Offset(c, a) + c.blocks[a].count
    BY OffsetNext
  <2>4. c.blocks[a].count \in Nat /\ c.blocks[b].count \in Nat
    BY BlocksType
  <2> QED  BY <2>2, <2>3, <2>4 DEF CellsOf
<1>2. i < j \/ j < i
  BY BlocksType
<1> QED  BY <1>1, <1>2

LEMMA CellsWithin ==
  ASSUME NEW c, IsCard(c), NEW i \in DOMAIN c.blocks
  PROVE  CellsOf(c, i) \subseteq 1 .. CellCount(c) /\ CellCount(c) \in Nat
<1>1. i + 1 \in 1 .. Len(c.blocks) + 1 /\ Len(c.blocks) + 1 \in 1 .. Len(c.blocks) + 1
  BY BlocksType
<1>2. Offset(c, i + 1) <= CellCount(c) /\ CellCount(c) \in Nat
  BY <1>1, OffsetGrows DEF CellCount
<1> QED  BY <1>2, OffsetNext, BlocksType DEF CellsOf

\* The jackpot line is the last block, so the body is what comes before it.
LEMMA BodyFirst ==
  ASSUME NEW c, IsCard(c), ShapeOk(c)
  PROVE  /\ Len(c.blocks) \in DOMAIN c.blocks
         /\ BodyLen(c) = Offset(c, Len(c.blocks)) /\ BodyLen(c) \in Nat
         /\ CellCount(c) = BodyLen(c) + c.blocks[Len(c.blocks)].count
         /\ CellCount(c) <= MAX_CELLS /\ CellCount(c) \in Nat
         /\ CellsOf(c, Len(c.blocks)) = BodyLen(c) + 1 .. CellCount(c)
         /\ FirstCells(c, "jackpot") = CellsOf(c, Len(c.blocks))
         /\ \A i \in DOMAIN c.blocks : i # Len(c.blocks) => CellsOf(c, i) \subseteq Body(c)
<1> DEFINE n == Len(c.blocks)
<1>1. n \in DOMAIN c.blocks /\ n \in Nat /\ n >= 1
  BY BlocksType DEF ShapeOk, WithRole
<1>2. DOMAIN c.blocks \ WithRole(c, "jackpot") = 1 .. n - 1
  BY <1>1, BlocksType DEF ShapeOk
<1>3. BodyLen(c) = Offset(c, n)
  BY <1>2, Zenon DEF BodyLen, Offset
<1>4. Offset(c, n) \in Nat /\ CellCount(c) = Offset(c, n) + c.blocks[n].count
  BY <1>1, OffsetNext DEF CellCount
<1>5. c.blocks[n].count \in Nat
  BY <1>1, BlocksType
<1>6. First(c, "jackpot") = {n}
  BY <1>1 DEF ShapeOk, First
<1>7. FirstCells(c, "jackpot") = CellsOf(c, n)
  BY <1>6, Zenon DEF FirstCells
<1>8. ASSUME NEW i \in DOMAIN c.blocks, i # n
      PROVE  CellsOf(c, i) \subseteq Body(c)
  <2>1. i + 1 \in 1 .. n /\ n \in 1 .. n + 1
    BY <1>1, <1>8, BlocksType
  <2>2. Offset(c, i + 1) <= Offset(c, n)
    BY <2>1, OffsetGrows
  <2> QED  BY <2>2, <1>3, <1>4, OffsetNext, BlocksType DEF CellsOf, Body
<1>9. CellCount(c) <= MAX_CELLS
  BY <1>4, <1>5, EngineAssumption DEF ShapeOk
<1> QED  BY <1>1, <1>3, <1>4, <1>5, <1>7, <1>8, <1>9 DEF CellsOf

\* The first block of a role, where there is one.
LEMMA FirstBlock ==
  ASSUME NEW c, IsCard(c), NEW role
  PROVE  \/ WithRole(c, role) = {} /\ FirstCells(c, role) = {}
         \/ \E i \in WithRole(c, role) : First(c, role) = {i} /\ FirstCells(c, role) = CellsOf(c, i)
<1>1. CASE WithRole(c, role) = {}
  BY <1>1 DEF First, FirstCells
<1>2. CASE WithRole(c, role) # {}
  <2>1. WithRole(c, role) \subseteq Nat
    BY BlocksType DEF WithRole
  <2>2. PICK i \in WithRole(c, role) : \A j \in WithRole(c, role) : i <= j
    BY <1>2, <2>1, LeastExists
  <2>3. First(c, role) = {i}
    BY <2>1, <2>2 DEF First
  <2>4. FirstCells(c, role) = CellsOf(c, i)
    BY <2>3, Zenon DEF FirstCells
  <2> QED  BY <2>3, <2>4
<1> QED  BY <1>1, <1>2

\* The marks are the cells of one block, counted from its first.
LEMMA MarkCells ==
  ASSUME NEW c, IsCard(c), ShapeOk(c)
  PROVE  /\ IsFiniteSet(FirstCells(c, "mark")) /\ Marks(c) \in Nat
         /\ FirstCells(c, "mark") \subseteq Body(c)
         /\ \A x \in FirstCells(c, "mark") : x + 1 - Min(FirstCells(c, "mark")) \in 1 .. Marks(c)
         /\ \A k \in 1 .. Marks(c) : \E x \in FirstCells(c, "mark") :
              x + 1 - Min(FirstCells(c, "mark")) = k
<1> DEFINE F == FirstCells(c, "mark")
<1>1. CASE F = {}
  BY <1>1, FS_EmptySet DEF Marks
<1>2. CASE F # {}
  <2>1. PICK i \in WithRole(c, "mark") : F = CellsOf(c, i)
    BY <1>2, FirstBlock
  <2>2. i \in DOMAIN c.blocks /\ i # Len(c.blocks)
    BY DEF WithRole, ShapeOk
  <2>3. c.blocks[i].count \in Nat /\ Offset(c, i) \in Nat
    BY <2>2, BlocksType, OffsetNext
  <2> DEFINE o == Offset(c, i)
             n == c.blocks[i].count
  <2>4. F = o + 1 .. o + n
    BY <2>1 DEF CellsOf
  <2> HIDE DEF F, o, n
  <2>5. o \in Nat /\ n \in Nat
    BY <2>3 DEF o, n
  <2>6. IsFiniteSet(o + 1 .. o + n) /\ Cardinality(o + 1 .. o + n) = n
    BY <2>5, FS_Interval
  <2>7. Marks(c) = n /\ IsFiniteSet(F)
    BY <2>4, <2>6, Zenon DEF Marks, F
  <2>8. F \subseteq Nat /\ o + 1 \in F
    BY <1>2, <2>4, <2>5
  <2>9. Min(F) \in F /\ \A m \in F : Min(F) <= m
    BY <1>2, <2>8, MinIsLeast
  <2>10. Min(F) = o + 1
    BY <2>4, <2>5, <2>8, <2>9
  <2>11. \A x \in F : x + 1 - Min(F) \in 1 .. n
    BY <2>4, <2>5, <2>10
  <2>12. \A k \in 1 .. n : o + k \in F /\ o + k + 1 - Min(F) = k
    BY <2>4, <2>5, <2>10
  <2>13. F \subseteq Body(c)
    BY <2>1, <2>2, BodyFirst
  <2> QED  BY <2>5, <2>7, <2>11, <2>12, <2>13 DEF F
<1> QED  BY <1>1, <1>2

\* The three blocks of a duel are apart from each other and from the marks.
LEMMA DuelCells ==
  ASSUME IsCard(card), Valid(card), card.mode = "compare"
  PROVE  /\ Duels = 1 .. card.blocks[card.duel.prize].count
         /\ Duels \subseteq Nat /\ IsFiniteSet(Duels)
         /\ Offset(card, card.duel.house) \in Nat /\ Offset(card, card.duel.mine) \in Nat
         /\ Offset(card, card.duel.prize) \in Nat
         /\ \A d \in Duels : /\ House(d) \in Body(card) \ FirstCells(card, "mark")
                             /\ Mine(d) \in Body(card) \ FirstCells(card, "mark")
                             /\ Prize(d) \in Body(card) \ FirstCells(card, "mark")
         /\ \A d, e \in Duels : House(d) # Mine(e) /\ House(d) # Prize(e) /\ Mine(d) # Prize(e)
<1> DEFINE H == card.duel.house
           M == card.duel.mine
           Z == card.duel.prize
<1>1. ShapeOk(card) /\ DuelOk(card)
  BY DEF Valid
<1>2. /\ H \in DOMAIN card.blocks /\ M \in DOMAIN card.blocks /\ Z \in DOMAIN card.blocks
      /\ card.blocks[H].role = "number" /\ card.blocks[M].role = "number"
      /\ card.blocks[Z].role = "plate"
      /\ card.blocks[H].count = card.blocks[M].count /\ card.blocks[M].count = card.blocks[Z].count
      /\ card.blocks[M].a < card.blocks[H].a
  BY <1>1 DEF DuelOk
<1>3. H # M /\ H # Z /\ M # Z
  BY <1>2, BlocksType
<1>4. Duels = 1 .. card.blocks[Z].count /\ card.blocks[Z].count \in Nat
  BY <1>2, BlocksType DEF Duels
<1>5. Duels \subseteq Nat /\ IsFiniteSet(Duels)
  BY <1>4, FS_Interval
<1>6. Offset(card, H) \in Nat /\ Offset(card, M) \in Nat /\ Offset(card, Z) \in Nat
  BY <1>2, OffsetNext
<1>7. \A d \in Duels : /\ House(d) \in CellsOf(card, H) /\ Mine(d) \in CellsOf(card, M)
                     /\ Prize(d) \in CellsOf(card, Z)
  BY <1>2, <1>4, <1>6 DEF House, Mine, Prize, CellsOf
<1>8. ASSUME NEW i \in DOMAIN card.blocks, card.blocks[i].role \in {"number", "plate"}
      PROVE  CellsOf(card, i) \subseteq Body(card) \ FirstCells(card, "mark")
  <2>1. i # Len(card.blocks)
    BY <1>1, <1>8 DEF ShapeOk, WithRole
  <2>2. CellsOf(card, i) \subseteq Body(card)
    BY <1>1, <2>1, BodyFirst
  <2>3. CellsOf(card, i) \cap FirstCells(card, "mark") = {}
    <3>1. CASE FirstCells(card, "mark") = {}
      BY <3>1
    <3>2. ASSUME NEW j \in WithRole(card, "mark"), FirstCells(card, "mark") = CellsOf(card, j)
          PROVE  CellsOf(card, i) \cap FirstCells(card, "mark") = {}
      <4>1. j \in DOMAIN card.blocks /\ j # i
        BY <1>8 DEF WithRole
      <4> QED  BY <3>2, <4>1, CellsApart
    <3> QED  BY <3>1, <3>2, FirstBlock
  <2> QED  BY <2>2, <2>3
<1>9. /\ CellsOf(card, H) \cap CellsOf(card, M) = {} /\ CellsOf(card, H) \cap CellsOf(card, Z) = {}
      /\ CellsOf(card, M) \cap CellsOf(card, Z) = {}
  BY <1>2, <1>3, CellsApart
<1>10. /\ CellsOf(card, H) \subseteq Body(card) \ FirstCells(card, "mark")
       /\ CellsOf(card, M) \subseteq Body(card) \ FirstCells(card, "mark")
       /\ CellsOf(card, Z) \subseteq Body(card) \ FirstCells(card, "mark")
  BY <1>2, <1>8
<1> HIDE DEF H, M, Z
<1>11. \A d \in Duels : /\ House(d) \in Body(card) \ FirstCells(card, "mark")
                      /\ Mine(d) \in Body(card) \ FirstCells(card, "mark")
                      /\ Prize(d) \in Body(card) \ FirstCells(card, "mark")
  BY <1>7, <1>10
<1>12. \A d, e \in Duels : House(d) # Mine(e) /\ House(d) # Prize(e) /\ Mine(d) # Prize(e)
  BY <1>7, <1>9
<1> QED  BY <1>4, <1>5, <1>6, <1>11, <1>12 DEF H, M, Z

\* The kinds of cells are told apart, and what they show.
LEMMA Kinds ==
  /\ \A a, b : Plate(a) # EMPTY /\ Mark(a) # EMPTY /\ Num(a) # EMPTY
  /\ \A a, b : Mark(a) # Plate(b) /\ Num(a) # Plate(b) /\ Num(a) # Mark(b)
  /\ \A a, b : Plate(a) = Plate(b) => a = b
  /\ \A a, b : Mark(a) = Mark(b) => a = b
  /\ \A a : Num(a).is = a
  BY DEF EMPTY, Plate, Mark, Num

-----------------------------------------------------------------------------
(* Types, and what can be rolled *)

Entry(k) == card.pays[out.wins[k].pay]

\* Live entries on tokens that are drawn, in the order of the pays, and one at
\* most where they exclude each other.
Rolls ==
    /\ out.wins \in Seq([pay : Live, token : Drawable])
    /\ Len(out.wins) <= Len(card.pays)
    /\ \A k, l \in DOMAIN out.wins : k < l => out.wins[k].pay < out.wins[l].pay
    /\ card.roll = "exclusive" => Len(out.wins) <= 1
    /\ \/ out.tier = 1
       \/ \E i \in DOMAIN card.tiers : card.tiers[i].weight > 0 /\ out.tier = card.tiers[i].factor
    /\ out.lost = 0

\* Wins are planted once the duels are dealt.
Unplanted == stage \in {"roll", "marks", "duels"} => planted = 0

Typed == IsCard(card) /\ TypeOK /\ Rolls /\ Unplanted

LEMMA WinsType ==
  ASSUME Rolls
  PROVE  /\ DOMAIN out.wins = 1 .. Len(out.wins) /\ Len(out.wins) \in Nat
         /\ \A k \in DOMAIN out.wins :
              /\ out.wins[k] \in [pay : Live, token : Drawable]
              /\ out.wins[k].pay \in Live /\ out.wins[k].pay \in DOMAIN card.pays
              /\ card.pays[out.wins[k].pay].weight > 0
              /\ out.wins[k].token \in Drawable /\ out.wins[k].token \in Tokens(card)
              /\ card.pool[out.wins[k].token].weight > 0
<1>1. out.wins \in Seq([pay : Live, token : Drawable])
  BY DEF Rolls
<1>2. /\ DOMAIN out.wins = 1 .. Len(out.wins) /\ Len(out.wins) \in Nat
      /\ \A k \in DOMAIN out.wins : out.wins[k] \in [pay : Live, token : Drawable]
  BY <1>1, SeqFacts
<1>3. \A w \in [pay : Live, token : Drawable] : w.pay \in Live /\ w.token \in Drawable
  OBVIOUS
<1>4. \A i \in Live : i \in DOMAIN card.pays /\ card.pays[i].weight > 0
  BY DEF Live
<1>5. \A x \in Drawable : x \in Tokens(card) /\ card.pool[x].weight > 0
  BY DEF Drawable
<1> QED  BY <1>2, <1>3, <1>4, <1>5

LEMMA KeptAll ==
  ASSUME NEW S, NEW wins \in Seq(S), Len(wins) <= MAX_PAYS
  PROVE  Kept(wins) = wins
<1>1. Len(wins) \in Nat /\ MAX_PAYS \in Nat
  BY EngineAssumption
<1>2. Kept(wins) = SubSeq(wins, 1, Len(wins))
  BY <1>1 DEF Kept
<1> QED  BY <1>2

\* The rolls of a card.
LEMMA RollsOfCard ==
  ASSUME Typed,
         NEW wins \in IF card.roll = "independent" THEN Independent ELSE Exclusive
  PROVE  /\ wins \in Seq([pay : Live, token : Drawable])
         /\ Len(wins) <= Len(card.pays) /\ Len(wins) <= MAX_PAYS
         /\ \A k, l \in DOMAIN wins : k < l => wins[k].pay < wins[l].pay
         /\ card.roll = "exclusive" => Len(wins) <= 1
<1>1. /\ Len(card.pays) \in Nat /\ Len(card.pays) >= 1 /\ Len(card.pays) <= MAX_PAYS
      /\ MAX_PAYS \in Nat
  BY PaysType, EngineAssumption DEF Typed, TypeOK, Valid, ShapeOk
<1>2. 0 \notin DOMAIN card.pays /\ 0 \notin Tokens(card)
  BY PaysType DEF Typed, IsCard, Tokens
<1>3. CASE card.roll = "independent"
  <2>1. PICK n \in 0 .. Len(card.pays) : wins \in [1 .. n -> [pay : DOMAIN card.pays, token : Tokens(card)]]
    BY <1>3 DEF Independent
  <2>2. n \in Nat /\ n <= Len(card.pays)
    BY <1>1
  <2>3. DOMAIN wins = 1 .. n /\ Len(wins) = n
    BY <2>1, <2>2
  <2>4. ASSUME NEW k \in 1 .. n PROVE wins[k] \in [pay : Live, token : Drawable]
    <3>1. wins[k] \in [pay : DOMAIN card.pays, token : Tokens(card)]
      BY <2>1
    <3>2. wins[k].token \in Fired(wins[k].pay) /\ wins[k].token # 0
      BY <1>2, <1>3, <2>3, <3>1 DEF Independent
    <3>3. card.pays[wins[k].pay].weight > 0 /\ wins[k].token \in Picks(Weights(card.pool))
      BY <3>2 DEF Fired
    <3>4. card.pool[wins[k].token].weight > 0
      BY <3>1, <3>2, <3>3 DEF Picks, Weights, Tokens
    <3> QED  BY <3>1, <3>3, <3>4 DEF Live, Drawable
  <2>5. wins \in [1 .. n -> [pay : Live, token : Drawable]]
    BY <2>1, <2>4
  <2>6. \A k, l \in DOMAIN wins : k < l => wins[k].pay < wins[l].pay
    BY <1>3 DEF Independent
  <2>7. wins \in Seq([pay : Live, token : Drawable])
    BY <2>2, <2>5, SeqOf
  <2> QED  BY <1>1, <1>3, <2>2, <2>3, <2>6, <2>7
<1>4. CASE card.roll # "independent"
  <2>1. PICK i \in Picks(Weights(card.pays)), t \in Picks(Weights(card.pool)) : wins = Drawn(i, t)
    BY <1>4 DEF Exclusive
  <2>2. CASE i = 0 \/ t = 0
    <3>1. wins = << >>
      BY <2>1, <2>2 DEF Drawn
    <3>2. wins \in Seq([pay : Live, token : Drawable]) /\ Len(wins) = 0
      BY <3>1
    <3>3. \A k, l \in DOMAIN wins : k < l => wins[k].pay < wins[l].pay
      BY <3>1
    <3> QED  BY <1>1, <3>2, <3>3
  <2>3. CASE i # 0 /\ t # 0
    <3>1. wins = <<[pay |-> i, token |-> t]>>
      BY <2>1, <2>3 DEF Drawn
    <3>2. i \in Live /\ t \in Drawable
      BY <2>3 DEF Picks, Weights, Live, Drawable, Tokens
    <3>3. [pay |-> i, token |-> t] \in [pay : Live, token : Drawable]
      BY <3>2
    <3>4. wins \in Seq([pay : Live, token : Drawable]) /\ Len(wins) = 1 /\ DOMAIN wins = 1 .. 1
      BY <3>1, <3>3
    <3> QED  BY <1>1, <3>4
  <2> QED  BY <2>2, <2>3
<1> QED  BY <1>3, <1>4

LEMMA InitTyped == Init => Typed
<1> SUFFICES ASSUME Init PROVE Typed  OBVIOUS
<1>1. IsCard(card) /\ Valid(card)
  BY EngineAssumption DEF Init
<1>2. out.wins = << >> /\ out.tier = 1 /\ out.lost = 0 /\ out.jackpot = "none"
  BY DEF Init, Nothing
<1>3. WinsIn(out) = {}
  BY <1>2 DEF WinsIn
<1>4. cells \in [1 .. CellCount(card) -> Cell]
  BY DEF Init, Cell
<1>5. TypeOK
  BY <1>1, <1>2, <1>3, <1>4 DEF Init, TypeOK
<1>6. Rolls
  BY <1>1, <1>2, PaysType DEF Rolls
<1> QED  BY <1>1, <1>5, <1>6 DEF Typed, Init, Unplanted

LEMMA RollTyped == ASSUME Typed, Roll PROVE Typed'
<1>1. PICK wins \in IF card.roll = "independent" THEN Independent ELSE Exclusive,
           tier \in Picks(Weights(card.tiers)), band \in Picks(<<card.hit, card.near>>) :
        out' = [wins |-> Kept(wins), tier |-> Factor(tier),
                jackpot |-> IF band = 0 THEN "none" ELSE Band[band],
                lost |-> Len(wins) - Len(Kept(wins))]
  BY DEF Roll
<1>2. /\ wins \in Seq([pay : Live, token : Drawable])
      /\ Len(wins) <= Len(card.pays) /\ Len(wins) <= MAX_PAYS
      /\ \A k, l \in DOMAIN wins : k < l => wins[k].pay < wins[l].pay
      /\ card.roll = "exclusive" => Len(wins) <= 1
  BY RollsOfCard
<1>3. Kept(wins) = wins
  BY <1>2, KeptAll
<1>4. out'.wins = wins /\ out'.lost = 0 /\ out'.tier = Factor(tier) /\ card' = card
      /\ stage' = "marks" /\ cells' = cells /\ planted' = planted
  BY <1>1, <1>2, <1>3 DEF Roll
<1>5. out'.tier \in Nat /\ (\/ out'.tier = 1
       \/ \E i \in DOMAIN card.tiers : card.tiers[i].weight > 0 /\ out'.tier = card.tiers[i].factor)
  <2>1. CASE tier = 0
    BY <2>1, <1>4 DEF Factor
  <2>2. CASE tier # 0
    <3>1. tier \in DOMAIN card.tiers /\ card.tiers[tier].weight > 0
      BY <2>2 DEF Picks, Weights
    <3> DEFINE T == [factor : Nat, weight : Nat]
    <3>a. card.tiers \in Seq(T)
      BY DEF Typed, IsCard
    <3>b. card.tiers[tier] \in T
      BY <3>1, <3>a, SeqFacts
    <3>2. card.tiers[tier].factor \in Nat
      BY <3>b
    <3> QED  BY <1>4, <2>2, <3>1, <3>2 DEF Factor
  <2> QED  BY <2>1, <2>2
<1>6. out'.jackpot \in {"hit", "near", "none"}
  <2>1. band = 0 \/ band \in {1, 2}
    BY DEF Picks
  <2>2. out'.jackpot = IF band = 0 THEN "none" ELSE Band[band]
    BY <1>1
  <2> QED  BY <2>1, <2>2 DEF Band
<1>7. \A w \in WinsIn(out') : w \in [pay : DOMAIN card.pays, token : Tokens(card)]
  <2>1. \A k \in DOMAIN wins : wins[k] \in [pay : Live, token : Drawable]
    BY <1>2, SeqFacts
  <2> QED  BY <1>4, <2>1 DEF WinsIn, Live, Drawable
<1>8. planted = 0 /\ stage = "roll" /\ Len(wins) \in Nat
  BY <1>2 DEF Typed, Unplanted, Roll
<1>9. cells' \in [1 .. CellCount(card) -> Cell]
  BY <1>4 DEF Typed, TypeOK
<1>10. TypeOK'
  <2>1. WinsIn(out') \subseteq [pay : DOMAIN card'.pays, token : Tokens(card')]
    BY <1>4, <1>7
  <2>2. Cell' = Cell
    BY <1>4 DEF Cell
  <2>3. planted' \in 0 .. Len(out'.wins)
    BY <1>4, <1>8
  <2>4. Valid(card')
    BY <1>4 DEF Typed, TypeOK
  <2>5. cells' \in [1 .. CellCount(card') -> Cell']
    BY <1>4, <1>9, <2>2
  <2>6. out'.lost \in Nat
    BY <1>4
  <2> QED  BY <1>4, <1>5, <1>6, <2>1, <2>3, <2>4, <2>5, <2>6 DEF TypeOK
<1>11. Rolls'
  <2>1. Live' = Live /\ Drawable' = Drawable
    BY <1>4 DEF Live, Drawable
  <2> QED  BY <1>2, <1>4, <1>5, <2>1 DEF Rolls
<1> QED  BY <1>4, <1>8, <1>10, <1>11 DEF Typed, Unplanted

\* After the roll only the stage, the cells and the count of planted wins move.
LEMMA RestTyped ==
  ASSUME Typed, card' = card, out' = out,
         stage' \in {"duels", "cells", "dealt", "bad"},
         cells' \in [1 .. CellCount(card) -> Cell],
         planted' \in 0 .. Len(out.wins), stage' = "duels" => planted' = 0,
         stage' = "dealt" => \A c \in DOMAIN cells' : cells'[c] # EMPTY
  PROVE  Typed'
<1>1. Cell' = Cell /\ Live' = Live /\ Drawable' = Drawable
  BY DEF Cell, Live, Drawable
<1>2. TypeOK'
  BY <1>1 DEF Typed, TypeOK, WinsIn
<1>3. Rolls'
  BY <1>1 DEF Typed, Rolls
<1> QED  BY <1>2, <1>3 DEF Typed, Unplanted

LEMMA BodyWithin ==
  ASSUME Typed
  PROVE  /\ Body(card) \subseteq DOMAIN cells /\ DOMAIN cells \subseteq 1 .. MAX_CELLS
         /\ DOMAIN cells = 1 .. CellCount(card) /\ CellCount(card) \in Nat
         /\ IsFiniteSet(DOMAIN cells) /\ MAX_CELLS \in Nat
<1> DEFINE n == card.blocks[Len(card.blocks)].count
<1>1. IsCard(card) /\ ShapeOk(card) /\ DOMAIN cells = 1 .. CellCount(card)
  BY DEF Typed, TypeOK, Valid
<1>2. /\ BodyLen(card) \in Nat /\ CellCount(card) \in Nat /\ n \in Nat
      /\ CellCount(card) = BodyLen(card) + n /\ CellCount(card) <= MAX_CELLS
  BY <1>1, BodyFirst, BlocksType
<1>3. MAX_CELLS \in Nat
  BY EngineAssumption
<1> HIDE DEF n
<1>4. IsFiniteSet(1 .. CellCount(card))
  BY <1>2, FS_Interval
<1> QED  BY <1>1, <1>2, <1>3, <1>4 DEF Body

\* What the cells may show.
LEMMA CellType ==
  ASSUME IsCard(card)
  PROVE  /\ EMPTY \in Cell /\ Mark(SOL_MARK) \in Cell
         /\ \A t \in Tokens(card) : Plate(t) \in Cell /\ Mark(t) \in Cell
         /\ \A n \in 0 .. CELL_PAYLOAD_MAX : Num(n) \in Cell
  BY DEF Cell

LEMMA PlaceMarksTyped == ASSUME Typed, PlaceMarks PROVE Typed'
<1>1. card' = card /\ out' = out /\ planted' = planted /\ planted = 0 /\ Len(out.wins) \in Nat
  BY WinsType DEF PlaceMarks, Typed, Unplanted
<1>2. CASE stage' = "bad" /\ cells' = cells
  BY <1>1, <1>2, RestTyped DEF Typed, TypeOK
<1>3. ASSUME NEW distinct, NEW line \in MarkLines(Marks(card), distinct),
             stage' = "duels",
             cells' = [c \in DOMAIN cells |->
                  IF c \in FirstCells(card, "mark")
                  THEN Mark(line[c + 1 - Min(FirstCells(card, "mark"))])
                  ELSE cells[c]]
      PROVE  Typed'
  <2>1. line \in [1 .. Marks(card) -> Tokens(card)]
    BY DEF MarkLines
  <2>2. \A c \in FirstCells(card, "mark") : c + 1 - Min(FirstCells(card, "mark")) \in 1 .. Marks(card)
    BY MarkCells DEF Typed, TypeOK, Valid
  <2>3. cells \in [1 .. CellCount(card) -> Cell]
    BY DEF Typed, TypeOK
  <2>4. cells' \in [1 .. CellCount(card) -> Cell]
    BY <1>3, <2>1, <2>2, <2>3, CellType DEF Typed
  <2> QED  BY <1>1, <1>3, <2>4, RestTyped
<1>4. \/ stage' = "bad" /\ cells' = cells
      \/ /\ stage' = "duels"
         /\ \E line \in MarkLines(Marks(card), \E i \in First(card, "mark") : card.blocks[i].distinct) :
               cells' = [c \in DOMAIN cells |->
                  IF c \in FirstCells(card, "mark")
                  THEN Mark(line[c + 1 - Min(FirstCells(card, "mark"))])
                  ELSE cells[c]]
  BY DEF PlaceMarks
<1> QED  BY <1>2, <1>3, <1>4

\* What a duel's numbers are drawn from.
LEMMA DuelRanges ==
  ASSUME Typed, card.mode = "compare", NEW d \in Duels,
         NEW h \in card.blocks[card.duel.house].a .. card.blocks[card.duel.house].b,
         NEW m \in MineRange(d, h)
  PROVE  /\ h \in 0 .. CELL_PAYLOAD_MAX /\ h \in Nat /\ m \in Int
         /\ WinsDuel(d) # {} /\ card.duel.strict => m > h
         /\ WinsDuel(d) = {} /\ card.duel.strict => m < h
<1> DEFINE H == card.blocks[card.duel.house]
           M == card.blocks[card.duel.mine]
<1>1. DuelOk(card) /\ ShapeOk(card) /\ IsCard(card)
  BY DEF Typed, TypeOK, Valid
<1>2. /\ card.duel.house \in WithRole(card, "number") /\ card.duel.mine \in DOMAIN card.blocks
      /\ M.a < H.a /\ M.b > H.b
  BY <1>1 DEF DuelOk, WithRole
<1>3. H.a \in 1 .. H.b /\ H.b <= CELL_PAYLOAD_MAX
  BY <1>1, <1>2 DEF ShapeOk
<1>4. H.a \in Nat /\ H.b \in Nat /\ M.a \in Nat /\ M.b \in Nat /\ CELL_PAYLOAD_MAX \in Nat
  BY <1>1, <1>2, BlocksType, EngineAssumption DEF WithRole
<1>5. card.duel.strict \in BOOLEAN
  BY <1>1 DEF IsCard
<1>6. m \in LET edge == IF card.duel.strict THEN 1 ELSE 0
            IN IF WinsDuel(d) # {} THEN CeilOf(h + edge, M.b) .. M.b
               ELSE M.a .. FloorOf(h - edge, M.a)
  BY DEF MineRange
<1>7. h \in H.a .. H.b
  OBVIOUS
<1> HIDE DEF H, M
<1>8. h \in Nat /\ h \in 0 .. CELL_PAYLOAD_MAX
  BY <1>3, <1>4, <1>7
<1>9. ASSUME WinsDuel(d) # {} PROVE m \in Int /\ (card.duel.strict => m > h)
  <2>1. CASE card.duel.strict
    <3>1. m \in CeilOf(h + 1, M.b) .. M.b
      BY <1>6, <1>9, <2>1
    <3>2. CeilOf(h + 1, M.b) = h + 1
      BY <1>2, <1>3, <1>4, <1>7, <1>8 DEF CeilOf, H, M
    <3> QED  BY <1>4, <1>8, <3>1, <3>2
  <2>2. CASE ~card.duel.strict
    BY <1>4, <1>6, <1>8, <1>9, <2>2
  <2> QED  BY <2>1, <2>2
<1>10. ASSUME WinsDuel(d) = {} PROVE m \in Int /\ (card.duel.strict => m < h)
  <2>1. CASE card.duel.strict
    <3>1. m \in M.a .. FloorOf(h - 1, M.a)
      BY <1>6, <1>10, <2>1
    <3>2. FloorOf(h - 1, M.a) <= h - 1 /\ FloorOf(h - 1, M.a) \in Int
      <4>1. M.a <= h - 1
        BY <1>2, <1>3, <1>4, <1>7, <1>8 DEF H, M
      <4> QED  BY <1>4, <1>8, <4>1 DEF FloorOf
    <3> QED  BY <1>4, <1>8, <3>1, <3>2
  <2>2. CASE ~card.duel.strict
    BY <1>4, <1>6, <1>8, <1>10, <2>2
  <2> QED  BY <2>1, <2>2
<1> QED  BY <1>8, <1>9, <1>10

LEMMA FirstWinOfDuel ==
  ASSUME Typed, NEW d, WinsDuel(d) # {}
  PROVE  /\ Min(WinsDuel(d)) \in WinsDuel(d) /\ Min(WinsDuel(d)) \in DOMAIN out.wins
         /\ out.wins[Min(WinsDuel(d))].token \in Tokens(card)
<1>1. WinsDuel(d) \subseteq Nat /\ WinsDuel(d) \subseteq DOMAIN out.wins
  BY WinsType DEF WinsDuel, Typed
<1>2. Min(WinsDuel(d)) \in WinsDuel(d)
  BY <1>1, MinIsLeast
<1> QED  BY <1>1, <1>2, WinsType DEF Typed

\* What the duels leave in their cells.
LEMMA DuelsDealt ==
  ASSUME Typed, RenderDuels, card.mode = "compare"
  PROVE  \E h, m :
           /\ \A d \in Duels :
                /\ h[d] \in card.blocks[card.duel.house].a .. card.blocks[card.duel.house].b
                /\ m[d] \in MineRange(d, h[d]) /\ m[d] \in 0 .. CELL_PAYLOAD_MAX
                /\ cells'[House(d)] = Num(h[d]) /\ cells'[Mine(d)] = Num(m[d])
                /\ WinsDuel(d) # {} => cells'[Prize(d)] = Plate(out.wins[Min(WinsDuel(d))].token)
           /\ DOMAIN cells' = DOMAIN cells
           /\ \A c \in DOMAIN cells :
                \/ cells'[c] = cells[c]
                \/ \E d \in Duels : c = House(d) \/ c = Mine(d) \/ (c = Prize(d) /\ WinsDuel(d) # {})
<1> DEFINE H == card.blocks[card.duel.house]
           oH == Offset(card, card.duel.house)
           oM == Offset(card, card.duel.mine)
           oZ == Offset(card, card.duel.prize)
<1> DEFINE Dealt(h, m) ==
             [c \in DOMAIN cells |->
                IF \E d \in Duels : c = House(d) THEN Num(h[c - oH])
                ELSE IF \E d \in Duels : c = Mine(d) THEN Num(m[c - oM])
                ELSE LET d == c - oZ
                     IN IF d \in Duels /\ WinsDuel(d) # {}
                        THEN Plate(out.wins[Min(WinsDuel(d))].token) ELSE cells[c]]
<1>0. \E h \in [Duels -> H.a .. H.b] :
        \E m \in {f \in [Duels -> 0 .. CELL_PAYLOAD_MAX] :
                    \A d \in Duels : f[d] \in MineRange(d, h[d])} : cells' = Dealt(h, m)
  BY Zenon DEF RenderDuels
<1>1. PICK h \in [Duels -> H.a .. H.b], m \in [Duels -> 0 .. CELL_PAYLOAD_MAX] :
        (\A d \in Duels : m[d] \in MineRange(d, h[d])) /\ cells' = Dealt(h, m)
  <2> HIDE DEF Dealt
  <2> QED  BY <1>0
<1>2. /\ Duels \subseteq Nat /\ oH \in Nat /\ oM \in Nat /\ oZ \in Nat
      /\ \A d \in Duels : House(d) \in Body(card) /\ Mine(d) \in Body(card) /\ Prize(d) \in Body(card)
      /\ \A d, e \in Duels : House(d) # Mine(e) /\ House(d) # Prize(e) /\ Mine(d) # Prize(e)
  BY DuelCells DEF Typed, TypeOK
<1>3. Body(card) \subseteq DOMAIN cells
  BY BodyWithin
<1>4. \A d \in Duels : House(d) = oH + d /\ Mine(d) = oM + d /\ Prize(d) = oZ + d
  BY DEF House, Mine, Prize
<1> HIDE DEF H, oH, oM, oZ
<1>5. ASSUME NEW d \in Duels
      PROVE  /\ cells'[House(d)] = Num(h[d]) /\ cells'[Mine(d)] = Num(m[d])
             /\ WinsDuel(d) # {} => cells'[Prize(d)] = Plate(out.wins[Min(WinsDuel(d))].token)
  <2>1. House(d) - oH = d /\ Mine(d) - oM = d /\ Prize(d) - oZ = d
    BY <1>2, <1>4
  <2>2. House(d) \in DOMAIN cells /\ Mine(d) \in DOMAIN cells /\ Prize(d) \in DOMAIN cells
    BY <1>2, <1>3
  <2>3. cells'[House(d)] = Num(h[d])
    BY <1>1, <2>1, <2>2
  <2>4. cells'[Mine(d)] = Num(m[d])
    BY <1>1, <1>2, <2>1, <2>2
  <2>5. WinsDuel(d) # {} => cells'[Prize(d)] = Plate(out.wins[Min(WinsDuel(d))].token)
    BY <1>1, <1>2, <2>1, <2>2
  <2> QED  BY <2>3, <2>4, <2>5
<1>6. ASSUME NEW c \in DOMAIN cells, cells'[c] # cells[c]
      PROVE  \E d \in Duels : c = House(d) \/ c = Mine(d) \/ (c = Prize(d) /\ WinsDuel(d) # {})
  <2>1. ASSUME NEW d \in Duels, d = c - oZ PROVE c = Prize(d)
    <3>1. c \in Nat
      BY DEF Typed, TypeOK
    <3> QED  BY <1>2, <1>4, <2>1, <3>1
  <2> QED  BY <1>1, <1>6, <2>1
<1>7. DOMAIN cells' = DOMAIN cells
  BY <1>1
<1>8. \A d \in Duels : h[d] \in H.a .. H.b /\ m[d] \in MineRange(d, h[d]) /\ m[d] \in 0 .. CELL_PAYLOAD_MAX
  BY <1>1
<1> QED  BY <1>5, <1>6, <1>7, <1>8 DEF H

LEMMA RenderDuelsTyped == ASSUME Typed, RenderDuels PROVE Typed'
<1>1. card' = card /\ out' = out /\ planted' = planted /\ stage' = "cells"
  BY DEF RenderDuels
<1>2. cells \in [1 .. CellCount(card) -> Cell] /\ planted \in 0 .. Len(out.wins)
  BY DEF Typed, TypeOK
<1>3. cells' \in [1 .. CellCount(card) -> Cell]
  <2>1. CASE card.mode # "compare"
    BY <1>2, <2>1 DEF RenderDuels
  <2>2. CASE card.mode = "compare"
    <3>1. PICK h, m :
           /\ \A d \in Duels :
                /\ h[d] \in card.blocks[card.duel.house].a .. card.blocks[card.duel.house].b
                /\ m[d] \in MineRange(d, h[d]) /\ m[d] \in 0 .. CELL_PAYLOAD_MAX
                /\ cells'[House(d)] = Num(h[d]) /\ cells'[Mine(d)] = Num(m[d])
                /\ WinsDuel(d) # {} => cells'[Prize(d)] = Plate(out.wins[Min(WinsDuel(d))].token)
           /\ DOMAIN cells' = DOMAIN cells
           /\ \A c \in DOMAIN cells :
                \/ cells'[c] = cells[c]
                \/ \E d \in Duels : c = House(d) \/ c = Mine(d) \/ (c = Prize(d) /\ WinsDuel(d) # {})
      BY <2>2, DuelsDealt
    <3>2. \A d \in Duels : h[d] \in 0 .. CELL_PAYLOAD_MAX
      BY <2>2, <3>1, DuelRanges
    <3>3. \A d \in Duels : Num(h[d]) \in Cell /\ Num(m[d]) \in Cell
      BY <3>1, <3>2, CellType DEF Typed
    <3>4. \A d \in Duels : WinsDuel(d) # {} => Plate(out.wins[Min(WinsDuel(d))].token) \in Cell
      BY FirstWinOfDuel, CellType DEF Typed
    <3>5. \A c \in DOMAIN cells : cells'[c] \in Cell
      BY <1>2, <3>1, <3>3, <3>4
    <3>6. \E f : cells' = [c \in DOMAIN cells |-> f[c]]
      <4>1. cells' = [c \in DOMAIN cells |-> cells'[c]]
        BY <2>2 DEF RenderDuels
      <4> QED  BY <4>1
    <3> QED  BY <1>2, <3>5, <3>6
  <2> QED  BY <2>1, <2>2
<1> QED  BY <1>1, <1>2, <1>3, RestTyped

\* A token planted is a plate in some of the cells.
LEMMA PlantTyped == ASSUME Typed, Plant PROVE Typed'
<1>1. card' = card /\ out' = out /\ stage = "cells" /\ planted < Len(out.wins)
  BY DEF Plant
<1>2. /\ cells \in [1 .. CellCount(card) -> Cell] /\ planted \in 0 .. Len(out.wins)
      /\ Len(out.wins) \in Nat /\ planted + 1 \in DOMAIN out.wins
  BY <1>1, WinsType DEF Typed, TypeOK
<1>3. Plate(out.wins[planted + 1].token) \in Cell
  BY <1>2, WinsType, CellType DEF Typed
<1>4. /\ stage' \in {"cells", "bad"} /\ planted' \in {planted, planted + 1}
      /\ \/ cells' = cells
         \/ \E G : cells' = [c \in DOMAIN cells |->
                     IF c \in G THEN Plate(out.wins[planted + 1].token) ELSE cells[c]]
  BY <1>1 DEF Plant
<1>5. cells' \in [1 .. CellCount(card) -> Cell]
  BY <1>2, <1>3, <1>4
<1>6. planted' \in 0 .. Len(out.wins)
  BY <1>1, <1>2, <1>4
<1> QED  BY <1>1, <1>4, <1>5, <1>6, RestTyped

LEMMA FillTyped == ASSUME Typed, Fill PROVE Typed'
<1>1. card' = card /\ out' = out /\ planted' = planted /\ stage' \in {"cells", "bad"}
  BY DEF Fill
<1>2. cells \in [1 .. CellCount(card) -> Cell] /\ planted \in 0 .. Len(out.wins)
  BY DEF Typed, TypeOK
<1>3. cells' = cells \/ \E t \in Fillers(Min(Holes)) : cells' = [cells EXCEPT ![Min(Holes)] = Plate(t)]
  BY DEF Fill
<1>4. \A t \in Fillers(Min(Holes)) : Plate(t) \in Cell
  <2>1. Fillers(Min(Holes)) \subseteq Tokens(card)
    BY DEF Fillers
  <2> QED  BY <2>1, CellType DEF Typed
<1>5. cells' \in [1 .. CellCount(card) -> Cell]
  BY <1>2, <1>3, <1>4
<1> QED  BY <1>1, <1>2, <1>5, RestTyped

\* No pool is of one token: a weight is short of the total.
LEMMA ManyTokens == ASSUME IsCard(card), Valid(card) PROVE NonSol = Tokens(card) \ SolTokens(card)
<1> DEFINE W == Weights(card.pool)
<1>1. Sum(W) = TOTAL /\ \A t \in DOMAIN W : W[t] \in 0 .. TOTAL - 1
  BY DEF Valid, PoolOk, Widths
<1>2. DOMAIN W = 1 .. Len(card.pool) /\ Len(card.pool) \in Nat /\ Len(card.pool) >= 1
  BY DEF IsCard, Weights, Valid, ShapeOk
<1>3. ASSUME Len(card.pool) = 1 PROVE FALSE
  <2>1. DOMAIN W = {1}
    BY <1>2, <1>3
  <2>2. W[1] \in Nat /\ W[1] < TOTAL
    BY <1>1, <2>1, EngineAssumption
  <2>3. SumOver(W, {1}) = W[1]
    BY <2>2, SumOne
  <2>4. Sum(W) = SumOver(W, {1})
    BY <2>1, Zenon DEF Sum
  <2> QED  BY <1>1, <2>2, <2>3, <2>4
<1> DEFINE n == Len(card.pool)
<1>4. n \in Nat /\ n >= 1 /\ n # 1
  BY <1>2, <1>3
<1> HIDE DEF W, n
<1>5. n > 1
  BY <1>4
<1>6. Len(card.pool) > 1
  BY <1>5 DEF n
<1> QED  BY <1>6 DEF NonSol

\* The jackpot line: SOL all along only on a hit.
LEMMA LineFacts ==
  ASSUME Typed, NEW line \in Lines(out.jackpot)
  PROVE  /\ DOMAIN line = FirstCells(card, "jackpot")
         /\ \A c \in DOMAIN line : line[c] \in {Mark(SOL_MARK)} \cup {Mark(t) : t \in NonSol}
         /\ out.jackpot = "hit" => \A c \in DOMAIN line : line[c] = Mark(SOL_MARK)
         /\ out.jackpot # "hit" => \E c \in DOMAIN line, t \in NonSol : line[c] = Mark(t)
<1> DEFINE F == FirstCells(card, "jackpot")
           won == [c \in F |-> Mark(SOL_MARK)]
<1>1. out.jackpot \in {"hit", "near", "none"}
  BY DEF Typed, TypeOK
<1>2. CASE out.jackpot = "hit"
  <2>1. line = won
    BY <1>2 DEF Lines
  <2> QED  BY <1>2, <2>1
<1>3. CASE out.jackpot = "near"
  <2>1. \E skip \in F, t \in NonSol : line = [won EXCEPT ![skip] = Mark(t)]
    BY <1>3 DEF Lines
  <2>2. PICK skip \in F, t \in NonSol : line = [won EXCEPT ![skip] = Mark(t)]
    BY <2>1
  <2> QED  BY <1>3, <2>2
<1>4. CASE out.jackpot = "none"
  <2>1. line \in [F -> {Mark(t) : t \in NonSol}]
    BY <1>4 DEF Lines
  <2>2. F # {}
    <3> DEFINE n == card.blocks[Len(card.blocks)].count
    <3>1. ShapeOk(card) /\ IsCard(card)
      BY DEF Typed, TypeOK, Valid
    <3>2. /\ F = BodyLen(card) + 1 .. CellCount(card) /\ BodyLen(card) \in Nat
          /\ CellCount(card) = BodyLen(card) + n
      BY <3>1, BodyFirst
    <3>3. n \in Nat /\ n > 0
      BY <3>1, BodyFirst, BlocksType DEF ShapeOk
    <3> HIDE DEF n
    <3>4. BodyLen(card) + 1 \in F
      BY <3>2, <3>3
    <3> QED  BY <3>4
  <2> QED  BY <1>4, <2>1, <2>2
<1> QED  BY <1>1, <1>2, <1>3, <1>4

LEMMA RenderJackpotTyped == ASSUME Typed, RenderJackpot PROVE Typed'
<1>1. card' = card /\ out' = out /\ planted' = planted /\ stage' = "dealt"
  BY DEF RenderJackpot
<1>2. cells \in [1 .. CellCount(card) -> Cell] /\ planted \in 0 .. Len(out.wins)
  BY DEF Typed, TypeOK
<1>3. PICK line \in Lines(out.jackpot) :
         cells' = [c \in DOMAIN cells |->
            IF c \in DOMAIN line THEN line[c]
            ELSE IF cells[c] = EMPTY THEN Plate(1) ELSE cells[c]]
  BY DEF RenderJackpot
<1>4. \A c \in DOMAIN line : line[c] \in Cell /\ line[c] # EMPTY
  <2>1. NonSol \subseteq Tokens(card)
    BY DEF NonSol
  <2> QED  BY <2>1, LineFacts, CellType, Kinds DEF Typed
<1>5. Plate(1) \in Cell /\ Plate(1) # EMPTY
  <2>1. 1 \in Tokens(card)
    BY DEF Typed, TypeOK, Valid, ShapeOk, IsCard, Tokens
  <2> QED  BY <2>1, CellType, Kinds DEF Typed
<1>6. cells' \in [1 .. CellCount(card) -> Cell]
  BY <1>2, <1>3, <1>4, <1>5
<1>7. \A c \in DOMAIN cells' : cells'[c] # EMPTY
  BY <1>3, <1>4, <1>5
<1> QED  BY <1>1, <1>2, <1>6, <1>7, RestTyped

LEMMA NextTyped == ASSUME Typed, [Next]_vars PROVE Typed'
<1>1. CASE UNCHANGED vars
  <2>1. Cell' = Cell /\ Live' = Live /\ Drawable' = Drawable
    BY <1>1 DEF vars, Cell, Live, Drawable
  <2>2. TypeOK' /\ Rolls'
    BY <1>1, <2>1 DEF vars, Typed, TypeOK, WinsIn, Rolls
  <2> QED  BY <1>1, <2>2 DEF vars, Typed, Unplanted
<1> QED  BY <1>1, RollTyped, PlaceMarksTyped, RenderDuelsTyped, PlantTyped, FillTyped,
            RenderJackpotTyped DEF Next

\* What is rolled, and what is left of every deal, is as the types have it, for
\* every card set_card may publish.
THEOREM TypedAlways == Spec => []Typed
  BY InitTyped, NextTyped, PTL DEF Spec

THEOREM TypesAlways == Spec => []TypeOK
  BY TypedAlways, PTL DEF Typed

\* Outcome::push drops nothing: no roll has more wins than there are pays.
THEOREM NoWinDroppedAlways == Spec => []NoWinDropped
<1>1. Typed => NoWinDropped
  BY DEF Typed, Rolls, NoWinDropped
<1> QED  BY <1>1, TypedAlways, PTL

-----------------------------------------------------------------------------
(* What stays as it was placed *)

\* What each step does to the rest of the state.
LEMMA Steps ==
  /\ Roll => stage' = "marks" /\ card' = card /\ cells' = cells /\ planted' = planted
  /\ PlaceMarks => stage = "marks" /\ stage' \in {"duels", "bad"} /\ card' = card /\ out' = out
                   /\ planted' = planted
  /\ RenderDuels => stage = "duels" /\ stage' = "cells" /\ card' = card /\ out' = out
                    /\ planted' = planted
  /\ Fill => stage = "cells" /\ stage' \in {"cells", "bad"} /\ card' = card /\ out' = out
             /\ planted' = planted /\ planted = Len(out.wins) /\ Holes # {}
  /\ RenderJackpot => stage = "cells" /\ stage' = "dealt" /\ card' = card /\ out' = out
                      /\ planted' = planted /\ planted = Len(out.wins) /\ Holes = {}
<1>1. Roll => stage' = "marks" /\ card' = card /\ cells' = cells /\ planted' = planted
  BY DEF Roll
<1>2. PlaceMarks => stage = "marks" /\ stage' \in {"duels", "bad"} /\ card' = card /\ out' = out
                   /\ planted' = planted
  BY DEF PlaceMarks
<1>3. RenderDuels => stage = "duels" /\ stage' = "cells" /\ card' = card /\ out' = out
                     /\ planted' = planted
  BY DEF RenderDuels
<1>4. Fill => stage = "cells" /\ stage' \in {"cells", "bad"} /\ card' = card /\ out' = out
              /\ planted' = planted /\ planted = Len(out.wins) /\ Holes # {}
  BY DEF Fill
<1>5. RenderJackpot => stage = "cells" /\ stage' = "dealt" /\ card' = card /\ out' = out
                       /\ planted' = planted /\ planted = Len(out.wins) /\ Holes = {}
  BY DEF RenderJackpot
<1> QED  BY <1>1, <1>2, <1>3, <1>4, <1>5

\* The win being planted finds its group, or the card is stuck.
LEMMA PlantStep ==
  ASSUME Plant, NEW k, k = planted + 1
  PROVE  /\ stage = "cells" /\ card' = card /\ out' = out /\ planted < Len(out.wins)
         /\ \/ /\ Cardinality(Free(Entry(k).scope, out.wins[k].token)) < Entry(k).min
               /\ stage' = "bad" /\ cells' = cells /\ planted' = planted
            \/ /\ Cardinality(Free(Entry(k).scope, out.wins[k].token)) >= Entry(k).min
               /\ stage' = "cells" /\ planted' = planted + 1
               /\ \E start \in Entry(k).scope :
                    cells' = [c \in DOMAIN cells |->
                       IF c \in Group(Entry(k).scope, out.wins[k].token, Entry(k).min, start)
                       THEN Plate(out.wins[k].token) ELSE cells[c]]
<1>1. stage = "cells" /\ card' = card /\ out' = out /\ planted < Len(out.wins)
  BY Zenon DEF Plant
<1>2. \/ /\ Cardinality(Free(Entry(k).scope, out.wins[k].token)) < Entry(k).min
         /\ stage' = "bad" /\ cells' = cells /\ planted' = planted
      \/ /\ Cardinality(Free(Entry(k).scope, out.wins[k].token)) >= Entry(k).min
         /\ stage' = stage /\ planted' = planted + 1
         /\ \E start \in Entry(k).scope :
              cells' = [c \in DOMAIN cells |->
                 IF c \in Group(Entry(k).scope, out.wins[k].token, Entry(k).min, start)
                 THEN Plate(out.wins[k].token) ELSE cells[c]]
  BY Zenon DEF Plant, Entry
<1> QED  BY <1>1, <1>2, Zenon

\* A body cell that shows something keeps it once the duels are dealt.
LEMMA Settled ==
  ASSUME Typed, Plant \/ Fill \/ RenderJackpot
  PROVE  /\ card' = card /\ out' = out /\ DOMAIN cells' = DOMAIN cells
         /\ stage = "cells" /\ stage' \in {"cells", "bad", "dealt"}
         /\ \A c \in Body(card) : cells[c] # EMPTY => cells'[c] = cells[c]
<1>1. Body(card) \subseteq DOMAIN cells
  BY BodyWithin
<1>2. CASE Plant
  <2> DEFINE k == planted + 1
  <2>1. /\ card' = card /\ out' = out /\ stage = "cells" /\ stage' \in {"cells", "bad"}
        /\ \/ cells' = cells
           \/ \E start : cells' = [c \in DOMAIN cells |->
                 IF c \in Group(Entry(k).scope, out.wins[k].token, Entry(k).min, start)
                 THEN Plate(out.wins[k].token) ELSE cells[c]]
    BY <1>2, PlantStep
  <2>2. \A c : \A start : c \in Group(Entry(k).scope, out.wins[k].token, Entry(k).min, start)
                            => cells[c] \in {EMPTY, Plate(out.wins[k].token)}
    BY DEF Group, Free
  <2> HIDE DEF k
  <2> QED  BY <1>1, <2>1, <2>2
<1>3. CASE Fill
  <2>1. cells' = cells \/ \E t : cells' = [cells EXCEPT ![Min(Holes)] = Plate(t)]
    BY <1>3 DEF Fill
  <2>2. Holes # {} /\ card' = card /\ out' = out /\ stage = "cells" /\ stage' \in {"cells", "bad"}
    BY <1>3 DEF Fill
  <2>3. Min(Holes) \in Holes
    <3>1. Holes \subseteq Nat
      BY DEF Holes, Body
    <3> QED  BY <2>2, <3>1, MinIsLeast
  <2>4. cells[Min(Holes)] = EMPTY
    BY <2>3 DEF Holes
  <2> QED  BY <1>1, <2>1, <2>2, <2>4
<1>4. CASE RenderJackpot
  <2>1. PICK line \in Lines(out.jackpot) :
         cells' = [c \in DOMAIN cells |->
            IF c \in DOMAIN line THEN line[c]
            ELSE IF cells[c] = EMPTY THEN Plate(1) ELSE cells[c]]
    BY <1>4 DEF RenderJackpot
  <2>2. \A c \in Body(card) : c \notin DOMAIN line
    BY LineFacts, BodyFirst DEF Typed, TypeOK, Valid, Body
  <2>3. card' = card /\ out' = out /\ stage = "cells" /\ stage' = "dealt"
    BY <1>4 DEF RenderJackpot
  <2> QED  BY <1>1, <2>1, <2>2, <2>3
<1> QED  BY <1>2, <1>3, <1>4

\* The line of a dealt card is one of its band's, and every win is planted.
LineUp ==
    stage = "dealt" =>
      /\ planted = Len(out.wins)
      /\ \E line \in Lines(out.jackpot) :
           \A c \in FirstCells(card, "jackpot") : cells[c] = line[c]

LEMMA LineUpNext == ASSUME Typed, LineUp, [Next]_vars PROVE LineUp'
<1>1. CASE UNCHANGED vars
  <2>1. NonSol' = NonSol /\ out' = out /\ card' = card
    BY <1>1 DEF vars, NonSol
  <2>2. Lines(out.jackpot)' = Lines(out.jackpot)
    BY <2>1 DEF Lines
  <2> QED  BY <1>1, <2>1, <2>2 DEF vars, LineUp
<1>2. CASE RenderJackpot
  <2>1. PICK line \in Lines(out.jackpot) :
         cells' = [c \in DOMAIN cells |->
            IF c \in DOMAIN line THEN line[c]
            ELSE IF cells[c] = EMPTY THEN Plate(1) ELSE cells[c]]
    BY <1>2 DEF RenderJackpot
  <2>2. card' = card /\ out' = out /\ planted' = planted /\ planted = Len(out.wins)
    BY <1>2 DEF RenderJackpot
  <2>3. FirstCells(card, "jackpot") \subseteq DOMAIN cells
    BY BodyFirst, CellsWithin DEF Typed, TypeOK, Valid
  <2>4. \A c \in FirstCells(card, "jackpot") : cells'[c] = line[c]
    BY <2>1, <2>3, LineFacts
  <2>a. NonSol' = NonSol
    BY <2>2 DEF NonSol
  <2>b. Lines(out.jackpot)' = Lines(out.jackpot)
    BY <2>2, <2>a DEF Lines
  <2>5. line \in Lines(out.jackpot)'
    BY <2>1, <2>b
  <2> QED  BY <2>2, <2>4, <2>5 DEF LineUp
<1>3. CASE Roll \/ PlaceMarks \/ RenderDuels \/ Plant \/ Fill
  <2>1. stage' # "dealt"
    BY <1>3, Steps, PlantStep
  <2> QED  BY <2>1 DEF LineUp
<1> QED  BY <1>1, <1>2, <1>3 DEF Next

-----------------------------------------------------------------------------
(* The marks *)

\* The marks show tokens, every marked win's where there are enough of them.
MarksUp ==
    stage \in {"duels", "cells", "dealt"} =>
      /\ \A c \in FirstCells(card, "mark") : \E t \in Tokens(card) : cells[c] = Mark(t)
      /\ Cardinality(Wanted) <= Marks(card) =>
           \A k \in OnMarks : IsMarked(out.wins[k].token)

\* A token that a marked win is on has a place among those wanted.
LEMMA WantedPlaced ==
  ASSUME Typed, NEW k \in OnMarks
  PROVE  /\ IsFiniteSet(Wanted) /\ Cardinality(Wanted) \in Nat
         /\ \E l \in Wanted : /\ out.wins[l].token = out.wins[k].token
                              /\ Place(l) \in 1 .. Cardinality(Wanted)
<1>1. OnMarks \subseteq DOMAIN out.wins /\ DOMAIN out.wins = 1 .. Len(out.wins) /\ Len(out.wins) \in Nat
  BY WinsType DEF OnMarks, Typed
<1>2. IsFiniteSet(DOMAIN out.wins)
  BY <1>1, FS_Interval
<1>3. IsFiniteSet(Wanted) /\ Wanted \subseteq OnMarks
  BY <1>1, <1>2, FS_Subset DEF Wanted
<1> DEFINE Same == {l \in OnMarks : out.wins[l].token = out.wins[k].token}
<1>4. k \in Same /\ Same \subseteq Nat
  BY <1>1
<1>5. PICK l \in Same : \A m \in Same : l <= m
  BY <1>4, LeastExists
<1>6. l \in Wanted
  BY <1>5 DEF Wanted
<1> DEFINE Upto == {m \in Wanted : m <= l}
<1>7. l \in Nat /\ l \in Upto /\ Upto \subseteq Wanted
  BY <1>4, <1>5, <1>6
<1>8. IsFiniteSet(Upto) /\ Cardinality(Upto) \in Nat /\ Cardinality(Upto) <= Cardinality(Wanted)
  BY <1>3, <1>7, FS_Subset, FS_CardinalityType
<1>9. Cardinality(Upto) # 0
  BY <1>7, <1>8, FS_EmptySet
<1>10. Cardinality(Wanted) \in Nat
  BY <1>3, FS_CardinalityType
<1>11. Place(l) = Cardinality(Upto)
  BY DEF Place
<1> QED  BY <1>3, <1>5, <1>6, <1>8, <1>9, <1>10, <1>11

LEMMA MarksPlaced == ASSUME Typed, PlaceMarks PROVE MarksUp'
<1>1. card' = card /\ out' = out
  BY DEF PlaceMarks
<1>2. CASE stage' = "bad"
  BY <1>2 DEF MarksUp
<1>3. ASSUME NEW distinct, NEW line \in MarkLines(Marks(card), distinct),
             cells' = [c \in DOMAIN cells |->
                  IF c \in FirstCells(card, "mark")
                  THEN Mark(line[c + 1 - Min(FirstCells(card, "mark"))])
                  ELSE cells[c]]
      PROVE  MarksUp'
  <2> DEFINE F == FirstCells(card, "mark")
             At(c) == c + 1 - Min(F)
  <2>1. /\ line \in [1 .. Marks(card) -> Tokens(card)]
        /\ \A k \in Wanted : Place(k) <= Marks(card) => line[Place(k)] = out.wins[k].token
    BY DEF MarkLines
  <2>2. /\ F \subseteq Body(card) /\ Marks(card) \in Nat
        /\ \A c \in F : At(c) \in 1 .. Marks(card)
        /\ \A k \in 1 .. Marks(card) : \E c \in F : At(c) = k
    BY MarkCells DEF Typed, TypeOK, Valid
  <2>3. F \subseteq DOMAIN cells
    BY <2>2, BodyWithin
  <2>4. \A c \in F : cells'[c] = Mark(line[At(c)])
    BY <1>3, <2>3
  <2>5. \A c \in F : \E t \in Tokens(card) : cells'[c] = Mark(t)
    BY <2>1, <2>2, <2>4
  <2>6. ASSUME Cardinality(Wanted) <= Marks(card), NEW k \in OnMarks
        PROVE  \E c \in F : cells'[c] = Mark(out.wins[k].token)
    <3>1. PICK l \in Wanted : /\ out.wins[l].token = out.wins[k].token
                              /\ Place(l) \in 1 .. Cardinality(Wanted)
      BY WantedPlaced
    <3>2. Place(l) \in 1 .. Marks(card)
      BY <2>2, <2>6, <3>1, WantedPlaced
    <3>3. PICK c \in F : At(c) = Place(l)
      BY <2>2, <3>2
    <3>4. line[At(c)] = out.wins[k].token
      BY <2>1, <3>1, <3>2, <3>3
    <3> QED  BY <2>4, <3>4
  <2>7. Wanted' = Wanted /\ OnMarks' = OnMarks
    BY <1>1 DEF Wanted, OnMarks
  <2> QED  BY <1>1, <2>5, <2>6, <2>7 DEF MarksUp, IsMarked
<1>4. \/ stage' = "bad"
      \/ \E line \in MarkLines(Marks(card), \E i \in First(card, "mark") : card.blocks[i].distinct) :
               cells' = [c \in DOMAIN cells |->
                  IF c \in FirstCells(card, "mark")
                  THEN Mark(line[c + 1 - Min(FirstCells(card, "mark"))])
                  ELSE cells[c]]
  BY DEF PlaceMarks
<1> QED  BY <1>2, <1>3, <1>4

\* Nothing that follows touches a mark.
LEMMA MarksUntouched ==
  ASSUME Typed, MarksUp, RenderDuels \/ Plant \/ Fill \/ RenderJackpot
  PROVE  \A c \in FirstCells(card, "mark") : cells'[c] = cells[c]
<1> DEFINE F == FirstCells(card, "mark")
<1>1. F \subseteq Body(card)
  BY MarkCells DEF Typed, TypeOK, Valid
<1>2. CASE RenderDuels
  <2>1. CASE card.mode # "compare"
    BY <1>2, <2>1 DEF RenderDuels
  <2>2. CASE card.mode = "compare"
    <3>1. \A c \in DOMAIN cells : \/ cells'[c] = cells[c]
                                  \/ \E d \in Duels : c = House(d) \/ c = Mine(d) \/ c = Prize(d)
      BY <1>2, <2>2, DuelsDealt
    <3>2. \A d \in Duels : House(d) \notin F /\ Mine(d) \notin F /\ Prize(d) \notin F
      BY <2>2, DuelCells DEF Typed, TypeOK
    <3> QED  BY <1>1, <3>1, <3>2, BodyWithin
  <2> QED  BY <2>1, <2>2
<1>3. CASE Plant \/ Fill \/ RenderJackpot
  <2>1. stage = "cells" /\ \A c \in Body(card) : cells[c] # EMPTY => cells'[c] = cells[c]
    BY <1>3, Settled
  <2>2. \A c \in F : cells[c] # EMPTY
    BY <2>1, Kinds DEF MarksUp
  <2> QED  BY <1>1, <2>1, <2>2
<1> QED  BY <1>2, <1>3

LEMMA MarksUpNext == ASSUME Typed, MarksUp, [Next]_vars PROVE MarksUp'
<1>1. CASE UNCHANGED vars
  <2>1. Wanted' = Wanted /\ OnMarks' = OnMarks
    BY <1>1 DEF vars, Wanted, OnMarks
  <2> QED  BY <1>1, <2>1 DEF vars, MarksUp, IsMarked
<1>2. CASE Roll
  BY <1>2 DEF Roll, MarksUp
<1>3. CASE PlaceMarks
  BY <1>3, MarksPlaced
<1>4. CASE RenderDuels \/ Plant \/ Fill \/ RenderJackpot
  <2>1. card' = card /\ out' = out /\ stage \in {"duels", "cells"}
    BY <1>4, Steps, Settled
  <2>2. \A c \in FirstCells(card, "mark") : cells'[c] = cells[c]
    BY <1>4, MarksUntouched
  <2>3. Wanted' = Wanted /\ OnMarks' = OnMarks
    BY <2>1 DEF Wanted, OnMarks
  <2> QED  BY <2>1, <2>2, <2>3 DEF MarksUp, IsMarked
<1> QED  BY <1>1, <1>2, <1>3, <1>4 DEF Next

-----------------------------------------------------------------------------
(* The duels *)

\* The player's number beats the house's in the duels that were won, and the
\* prize of one is the first of its wins'.
Duelled ==
    stage \in {"cells", "dealt"} /\ card.mode = "compare" =>
      \A d \in Duels :
        /\ cells[House(d)] # EMPTY /\ cells[Mine(d)] # EMPTY
        /\ card.duel.strict => (cells[Mine(d)].is > cells[House(d)].is <=> WinsDuel(d) # {})
        /\ WinsDuel(d) # {} => cells[Prize(d)] = Plate(out.wins[Min(WinsDuel(d))].token)

LEMMA DuelsStay ==
  ASSUME card' = card, out' = out
  PROVE  /\ Duels' = Duels
         /\ \A d : House(d)' = House(d) /\ Mine(d)' = Mine(d) /\ Prize(d)' = Prize(d)
         /\ \A d : WinsDuel(d)' = WinsDuel(d)
  BY DEF Duels, House, Mine, Prize, WinsDuel

LEMMA DuelledNext == ASSUME Typed, Duelled, [Next]_vars PROVE Duelled'
<1>1. CASE UNCHANGED vars
  BY <1>1, DuelsStay DEF vars, Duelled
<1>2. CASE Roll \/ PlaceMarks
  BY <1>2, Steps DEF Duelled
<1>3. CASE RenderDuels
  <2>1. card' = card /\ out' = out
    BY <1>3, Steps
  <2>2. CASE card.mode # "compare"
    BY <2>1, <2>2 DEF Duelled
  <2>3. CASE card.mode = "compare"
    <3>1. PICK h, m :
           /\ \A d \in Duels :
                /\ h[d] \in card.blocks[card.duel.house].a .. card.blocks[card.duel.house].b
                /\ m[d] \in MineRange(d, h[d]) /\ m[d] \in 0 .. CELL_PAYLOAD_MAX
                /\ cells'[House(d)] = Num(h[d]) /\ cells'[Mine(d)] = Num(m[d])
                /\ WinsDuel(d) # {} => cells'[Prize(d)] = Plate(out.wins[Min(WinsDuel(d))].token)
           /\ DOMAIN cells' = DOMAIN cells
           /\ \A c \in DOMAIN cells :
                \/ cells'[c] = cells[c]
                \/ \E d \in Duels : c = House(d) \/ c = Mine(d) \/ (c = Prize(d) /\ WinsDuel(d) # {})
      BY <1>3, <2>3, DuelsDealt
    <3>2. ASSUME NEW d \in Duels
          PROVE  /\ cells'[House(d)] # EMPTY /\ cells'[Mine(d)] # EMPTY
                 /\ card.duel.strict => (cells'[Mine(d)].is > cells'[House(d)].is <=> WinsDuel(d) # {})
                 /\ WinsDuel(d) # {} => cells'[Prize(d)] = Plate(out.wins[Min(WinsDuel(d))].token)
      <4>1. /\ h[d] \in Nat /\ m[d] \in Int
            /\ WinsDuel(d) # {} /\ card.duel.strict => m[d] > h[d]
            /\ WinsDuel(d) = {} /\ card.duel.strict => m[d] < h[d]
        BY <2>3, <3>1, DuelRanges
      <4>2. cells'[House(d)].is = h[d] /\ cells'[Mine(d)].is = m[d]
        BY <3>1, Kinds
      <4>3. cells'[House(d)] # EMPTY /\ cells'[Mine(d)] # EMPTY
        BY <3>1, Kinds
      <4>4. card.duel.strict => (m[d] > h[d] <=> WinsDuel(d) # {})
        BY <4>1
      <4> QED  BY <3>1, <4>2, <4>3, <4>4
    <3> QED  BY <2>1, <3>2, DuelsStay DEF Duelled
  <2> QED  BY <2>2, <2>3
<1>4. CASE Plant \/ Fill \/ RenderJackpot
  <2>1. /\ card' = card /\ out' = out /\ stage = "cells"
        /\ \A c \in Body(card) : cells[c] # EMPTY => cells'[c] = cells[c]
    BY <1>4, Settled
  <2>2. CASE card.mode # "compare"
    BY <2>1, <2>2 DEF Duelled
  <2>3. CASE card.mode = "compare"
    <3>1. \A d \in Duels : House(d) \in Body(card) /\ Mine(d) \in Body(card) /\ Prize(d) \in Body(card)
      BY <2>3, DuelCells DEF Typed, TypeOK
    <3>2. \A d \in Duels :
            /\ cells'[House(d)] = cells[House(d)] /\ cells'[Mine(d)] = cells[Mine(d)]
            /\ WinsDuel(d) # {} => cells'[Prize(d)] = cells[Prize(d)]
      BY <2>1, <2>3, <3>1, Kinds DEF Duelled
    <3> QED  BY <2>1, <2>3, <3>2, DuelsStay DEF Duelled
  <2> QED  BY <2>2, <2>3
<1> QED  BY <1>1, <1>2, <1>3, <1>4 DEF Next

-----------------------------------------------------------------------------
(* Room for the wins *)

\* Until the wins are planted a body cell is empty, a mark, a number of a duel,
\* of a win that is, or the prize of one that is not.
Bare ==
    /\ stage \in {"roll", "marks"} => \A c \in DOMAIN cells : cells[c] = EMPTY
    /\ stage = "duels" => \A c \in DOMAIN cells : cells[c] = EMPTY \/ c \in FirstCells(card, "mark")
    /\ stage = "cells" /\ planted < Len(out.wins) =>
         \A c \in DOMAIN cells :
           \/ cells[c] = EMPTY
           \/ c \in Taken
           \/ \E k \in DOMAIN out.wins :
                /\ c \in Entry(k).scope
                /\ k <= planted \/ (card.mode = "compare" /\ cells[c] = Plate(out.wins[k].token))

LEMMA BareNext == ASSUME Typed, Bare, [Next]_vars PROVE Bare'
<1>1. CASE UNCHANGED vars
  <2>1. Taken' = Taken /\ \A k : Entry(k)' = Entry(k)
    BY <1>1 DEF vars, Taken, Duels, House, Mine, Entry
  <2> QED  BY <1>1, <2>1 DEF vars, Bare
<1>2. CASE Roll
  BY <1>2 DEF Roll, Bare
<1>3. CASE PlaceMarks
  <2>1. stage = "marks" /\ stage' \in {"duels", "bad"} /\ card' = card
    BY <1>3, Steps
  <2>2. \/ stage' = "bad"
        \/ \E f : cells' = [c \in DOMAIN cells |-> IF c \in FirstCells(card, "mark")
                                                   THEN f[c] ELSE cells[c]]
    <3>1. CASE stage' = "bad"
      BY <3>1
    <3>2. CASE stage' # "bad"
      <4>1. PICK line : cells' = [c \in DOMAIN cells |->
                  IF c \in FirstCells(card, "mark")
                  THEN Mark(line[c + 1 - Min(FirstCells(card, "mark"))])
                  ELSE cells[c]]
        BY <1>3, <3>2 DEF PlaceMarks
      <4>2. cells' = [c \in DOMAIN cells |-> IF c \in FirstCells(card, "mark")
                                             THEN cells'[c] ELSE cells[c]]
        BY <4>1
      <4> QED  BY <4>2
    <3> QED  BY <3>1, <3>2
  <2> QED  BY <2>1, <2>2 DEF Bare
<1>4. CASE RenderDuels
  <2>1. stage = "duels" /\ stage' = "cells" /\ card' = card /\ out' = out /\ planted' = planted
    BY <1>4, Steps
  <2>2. Taken' = Taken /\ \A k : Entry(k)' = Entry(k)
    BY <2>1 DEF Taken, Duels, House, Mine, Entry
  <2>3. CASE card.mode # "compare"
    <3>1. cells' = cells
      BY <1>4, <2>3 DEF RenderDuels
    <3> QED  BY <2>1, <2>2, <3>1 DEF Bare, Taken
  <2>4. CASE card.mode = "compare"
    <3>1. PICK h, m :
           /\ \A d \in Duels :
                /\ h[d] \in card.blocks[card.duel.house].a .. card.blocks[card.duel.house].b
                /\ m[d] \in MineRange(d, h[d]) /\ m[d] \in 0 .. CELL_PAYLOAD_MAX
                /\ cells'[House(d)] = Num(h[d]) /\ cells'[Mine(d)] = Num(m[d])
                /\ WinsDuel(d) # {} => cells'[Prize(d)] = Plate(out.wins[Min(WinsDuel(d))].token)
           /\ DOMAIN cells' = DOMAIN cells
           /\ \A c \in DOMAIN cells :
                \/ cells'[c] = cells[c]
                \/ \E d \in Duels : c = House(d) \/ c = Mine(d) \/ (c = Prize(d) /\ WinsDuel(d) # {})
      BY <1>4, <2>4, DuelsDealt
    <3>2. ASSUME NEW c \in DOMAIN cells, cells'[c] # EMPTY, c \notin Taken
          PROVE  \E k \in DOMAIN out.wins :
                   c \in Entry(k).scope /\ cells'[c] = Plate(out.wins[k].token)
      <4>1. cells[c] = EMPTY
        BY <2>1, <3>2 DEF Bare, Taken
      <4>2. PICK d \in Duels : c = Prize(d) /\ WinsDuel(d) # {}
        BY <2>4, <3>1, <3>2, <4>1 DEF Taken
      <4>3. Min(WinsDuel(d)) \in WinsDuel(d)
        BY <4>2, FirstWinOfDuel
      <4> QED  BY <3>1, <4>2, <4>3 DEF WinsDuel, Entry
    <3>3. DOMAIN cells' = DOMAIN cells
      BY <3>1
    <3>4. \A c \in DOMAIN cells' :
            \/ cells'[c] = EMPTY \/ c \in Taken
            \/ \E k \in DOMAIN out.wins :
                 c \in Entry(k).scope /\ card.mode = "compare" /\ cells'[c] = Plate(out.wins[k].token)
      BY <2>4, <3>2, <3>3
    <3> QED  BY <2>1, <2>2, <3>4 DEF Bare
  <2> QED  BY <2>3, <2>4
<1>5. CASE Plant
  <2> DEFINE k == planted + 1
  <2>1. /\ stage = "cells" /\ card' = card /\ out' = out /\ planted < Len(out.wins)
        /\ \/ stage' = "bad"
           \/ /\ stage' = "cells" /\ planted' = planted + 1
              /\ \E start : cells' = [c \in DOMAIN cells |->
                       IF c \in Group(Entry(k).scope, out.wins[k].token, Entry(k).min, start)
                       THEN Plate(out.wins[k].token) ELSE cells[c]]
    BY <1>5, PlantStep
  <2>2. Taken' = Taken /\ \A l : Entry(l)' = Entry(l)
    BY <2>1 DEF Taken, Duels, House, Mine, Entry
  <2>3. k \in DOMAIN out.wins /\ planted \in Nat /\ DOMAIN out.wins \subseteq Nat
    BY <2>1, WinsType DEF Typed, TypeOK
  <2>4. CASE stage' = "bad"
    BY <2>4 DEF Bare
  <2>5. ASSUME stage' = "cells", planted' = planted + 1, NEW start,
               cells' = [c \in DOMAIN cells |->
                       IF c \in Group(Entry(k).scope, out.wins[k].token, Entry(k).min, start)
                       THEN Plate(out.wins[k].token) ELSE cells[c]]
        PROVE  Bare'
    <3>1. ASSUME NEW c \in DOMAIN cells, cells'[c] # EMPTY, c \notin Taken
          PROVE  \E l \in DOMAIN out.wins :
                /\ c \in Entry(l).scope
                /\ l <= planted' \/ (card.mode = "compare" /\ cells'[c] = Plate(out.wins[l].token))
      <4>1. CASE c \in Group(Entry(k).scope, out.wins[k].token, Entry(k).min, start)
        <5>1. c \in Entry(k).scope /\ k <= planted'
          BY <2>3, <2>5, <4>1 DEF Group, Free
        <5> QED  BY <2>3, <5>1
      <4>2. CASE c \notin Group(Entry(k).scope, out.wins[k].token, Entry(k).min, start)
        <5>1. cells'[c] = cells[c]
          BY <2>5, <4>2
        <5>2. PICK l \in DOMAIN out.wins :
                /\ c \in Entry(l).scope
                /\ l <= planted \/ (card.mode = "compare" /\ cells[c] = Plate(out.wins[l].token))
          BY <2>1, <3>1, <5>1 DEF Bare
        <5>3. l \in Nat
          BY <2>3
        <5>4. l <= planted => l <= planted'
          BY <2>3, <2>5, <5>3
        <5> QED  BY <5>1, <5>2, <5>4
      <4> QED  BY <4>1, <4>2
    <3>2. DOMAIN cells' = DOMAIN cells
      BY <2>5
    <3> QED  BY <2>1, <2>2, <2>5, <3>1, <3>2 DEF Bare
  <2> HIDE DEF k
  <2> QED  BY <2>1, <2>4, <2>5
<1>6. CASE Fill \/ RenderJackpot
  <2>1. stage' \in {"cells", "bad", "dealt"} /\ out' = out /\ planted' = planted /\ planted = Len(out.wins)
    BY <1>6, Steps
  <2>2. Len(out.wins) \in Nat
    BY WinsType DEF Typed
  <2> QED  BY <2>1, <2>2 DEF Bare
<1> QED  BY <1>1, <1>2, <1>3, <1>4, <1>5, <1>6 DEF Next

LEMMA PayOk ==
  ASSUME Typed, NEW i \in DOMAIN card.pays
  PROVE  LET p == card.pays[i]
         IN /\ p.scope \subseteq Body(card) /\ p.scope \subseteq DOMAIN cells
            /\ p.scope \subseteq 1 .. MAX_CELLS /\ IsFiniteSet(p.scope)
            /\ Cardinality(p.scope) \in Nat
            /\ p.min \in Nat /\ p.min >= 1 /\ p.marked \in BOOLEAN /\ p.linear \in BOOLEAN
            /\ p.mult \in Nat
            /\ p.marked => Marks(card) > 0
            /\ card.mode = "count" /\ ~p.marked => p.min >= 2
<1> DEFINE p == card.pays[i]
<1>1. PaysOk(card) /\ IsCard(card)
  BY DEF Typed, TypeOK, Valid
<1>2. /\ p.scope \subseteq Body(card) /\ p.min \in 1 .. Cardinality(p.scope)
      /\ p.marked => Marks(card) > 0
      /\ ~(card.mode = "count" /\ p.min = 1 /\ ~p.marked)
  BY <1>1 DEF PaysOk
<1>3. p.scope \in SUBSET (1 .. MAX_CELLS) /\ p.min \in Nat /\ p.marked \in BOOLEAN /\ p.linear \in BOOLEAN
      /\ p.mult \in Nat
  BY <1>1, PaysType
<1>4. Body(card) \subseteq DOMAIN cells /\ IsFiniteSet(DOMAIN cells)
  BY BodyWithin
<1> HIDE DEF p
<1>5. IsFiniteSet(p.scope) /\ Cardinality(p.scope) \in Nat
  BY <1>2, <1>4, FS_Subset, FS_CardinalityType
<1>6. p.min >= 1 /\ (card.mode = "count" /\ ~p.marked => p.min >= 2)
  BY <1>2, <1>3, <1>5
<1> QED  BY <1>2, <1>3, <1>4, <1>5, <1>6 DEF p

\* Two wins look at cells of their own.
LEMMA WinsApart ==
  ASSUME Typed, NEW k \in DOMAIN out.wins, NEW l \in DOMAIN out.wins, k # l
  PROVE  /\ out.wins[k].pay # out.wins[l].pay /\ Len(out.wins) > 1
         /\ card.roll # "exclusive"
         /\ Entry(k).scope \cap Entry(l).scope = {}
<1>1. DOMAIN out.wins = 1 .. Len(out.wins) /\ Len(out.wins) \in Nat
      /\ out.wins[k].pay \in DOMAIN card.pays /\ out.wins[l].pay \in DOMAIN card.pays
      /\ DOMAIN card.pays = 1 .. Len(card.pays) /\ Len(card.pays) \in Nat
  BY WinsType, PaysType DEF Typed
<1>2. Len(out.wins) > 1
  BY <1>1
<1>3. card.roll # "exclusive"
  BY <1>1, <1>2 DEF Typed, Rolls
<1>4. out.wins[k].pay # out.wins[l].pay
  <2>1. k < l \/ l < k
    BY <1>1
  <2>2. out.wins[k].pay < out.wins[l].pay \/ out.wins[l].pay < out.wins[k].pay
    BY <2>1 DEF Typed, Rolls
  <2> QED  BY <1>1, <2>2
<1>5. Entry(k).scope \cap Entry(l).scope = {}
  BY <1>1, <1>3, <1>4 DEF Typed, TypeOK, Valid, RollOk, Entry
<1> QED  BY <1>2, <1>3, <1>4, <1>5

\* Walking from any cell of the scope the group is as large as was asked.
LEMMA GroupSize ==
  ASSUME Typed, NEW scope \in SUBSET (1 .. MAX_CELLS), NEW token, NEW start \in scope,
         NEW n \in Nat, n <= Cardinality(Free(scope, token))
  PROVE  Cardinality(Group(scope, token, n, start)) = n
<1> DEFINE F == Free(scope, token)
           below == [c \in F |-> {d \in F : Turn(start, d) < Turn(start, c)}]
<1>1. MAX_CELLS \in Nat
  BY EngineAssumption
<1>2. F \subseteq 1 .. MAX_CELLS /\ start \in 1 .. MAX_CELLS
  BY DEF Free
<1>3. IsFiniteSet(F)
  <2>1. IsFiniteSet(1 .. MAX_CELLS)
    BY <1>1, FS_Interval
  <2> QED  BY <1>2, <2>1, FS_Subset
<1>4. \A c \in 1 .. MAX_CELLS : Turn(start, c) \in Int
  BY <1>1, <1>2 DEF Turn
<1>5. \A c, d \in 1 .. MAX_CELLS : Turn(start, c) = Turn(start, d) => c = d
  BY <1>1, <1>2 DEF Turn
<1>6. below \in [F -> SUBSET F]
  OBVIOUS
<1>a. \A c, d \in F : d \in below[c] <=> Turn(start, d) < Turn(start, c)
  OBVIOUS
<1> HIDE DEF F, below
<1>b. \A c \in F : Turn(start, c) \in Int
  BY <1>2, <1>4
<1>7. \A c \in F : c \notin below[c]
  BY <1>a, <1>b
<1>8. ASSUME NEW c \in F, NEW d \in below[c], NEW e \in below[d]
      PROVE  e \in below[c]
  <2>1. d \in F
    BY <1>6, <1>8
  <2>2. e \in F
    BY <1>6, <1>8, <2>1
  <2>3. Turn(start, e) < Turn(start, d) /\ Turn(start, d) < Turn(start, c)
    BY <1>a, <1>8, <2>1, <2>2
  <2>4. Turn(start, e) < Turn(start, c)
    BY <1>b, <2>1, <2>2, <2>3
  <2> QED  BY <1>a, <2>2, <2>4
<1>9. \A c, d \in F : c # d => c \in below[d] \/ d \in below[c]
  BY <1>2, <1>5, <1>a, <1>b
<1>10. n <= Cardinality(F)
  BY DEF F
<1>11. Group(scope, token, n, start) = {c \in F : Cardinality(below[c]) < n}
  BY DEF Group, F, below
<1>c. \A c, d \in F : d \in below[c] => below[d] \subseteq below[c]
  BY <1>8
<1>12. Cardinality({c \in F : Cardinality(below[c]) < n}) = n
  BY <1>3, <1>6, <1>7, <1>9, <1>10, <1>c, FirstInOrder
<1> QED  BY <1>11, <1>12

\* What a win may be planted on: its scope, but for what is taken.
LEMMA FreeCells ==
  ASSUME Typed, Bare, stage = "cells", planted < Len(out.wins), NEW k, k = planted + 1
  PROVE  /\ k \in DOMAIN out.wins
         /\ Entry(k).scope \ Taken \subseteq Free(Entry(k).scope, out.wins[k].token)
         /\ card.mode # "compare" =>
              \A c \in Entry(k).scope : cells[c] = EMPTY \/ c \in FirstCells(card, "mark")
<1>1. k \in DOMAIN out.wins /\ planted \in Nat /\ DOMAIN out.wins \subseteq Nat
  BY WinsType DEF Typed, TypeOK
<1>2. Entry(k).scope \subseteq DOMAIN cells
  <2>1. out.wins[k].pay \in DOMAIN card.pays
    BY <1>1, WinsType DEF Typed
  <2> QED  BY <2>1, PayOk DEF Entry
<1>3. ASSUME NEW c \in Entry(k).scope, c \notin Taken, cells[c] # EMPTY
      PROVE  card.mode = "compare" /\ cells[c] = Plate(out.wins[k].token)
  <2>1. PICK l \in DOMAIN out.wins :
           /\ c \in Entry(l).scope
           /\ l <= planted \/ (card.mode = "compare" /\ cells[c] = Plate(out.wins[l].token))
    BY <1>2, <1>3 DEF Bare
  <2>2. l = k
    BY <1>1, <1>3, <2>1, WinsApart
  <2>3. ~(l <= planted)
    BY <1>1, <2>2
  <2> QED  BY <2>1, <2>2, <2>3
<1>4. Entry(k).scope \ Taken \subseteq Free(Entry(k).scope, out.wins[k].token)
  BY <1>3 DEF Free
<1>5. card.mode # "compare" => \A c \in Entry(k).scope : cells[c] = EMPTY \/ c \in FirstCells(card, "mark")
  BY <1>3 DEF Taken
<1> QED  BY <1>1, <1>4, <1>5

\* A win finds its group, unless the card leaves it too few cells.
LEMMA PlantFindsRoom ==
  ASSUME Typed, Bare, Plant, stage' = "bad"
  PROVE  NoRoom
<1> DEFINE k == planted + 1
           S == Entry(k).scope
<1>1. stage = "cells" /\ planted < Len(out.wins)
      /\ Cardinality(Free(S, out.wins[k].token)) < Entry(k).min
  BY PlantStep
<1>2. k \in DOMAIN out.wins /\ S \ Taken \subseteq Free(S, out.wins[k].token)
  BY <1>1, FreeCells
<1>3. out.wins[k].pay \in Live /\ out.wins[k].pay \in DOMAIN card.pays
  BY <1>2, WinsType DEF Typed
<1>4. IsFiniteSet(S) /\ Entry(k).min \in Nat
  BY <1>3, PayOk DEF Entry
<1>5. Free(S, out.wins[k].token) \subseteq S
  BY DEF Free
<1> HIDE DEF k, S
<1>6. IsFiniteSet(Free(S, out.wins[k].token))
  BY <1>4, <1>5, FS_Subset
<1>7. /\ Cardinality(S \ Taken) <= Cardinality(Free(S, out.wins[k].token))
      /\ Cardinality(S \ Taken) \in Nat /\ Cardinality(Free(S, out.wins[k].token)) \in Nat
  BY <1>2, <1>6, FS_Subset, FS_CardinalityType
<1>8. Cardinality(S \ Taken) < Entry(k).min
  BY <1>1, <1>4, <1>7
<1> QED  BY <1>3, <1>8 DEF NoRoom, Entry, S

-----------------------------------------------------------------------------
(* How many of a token a scope shows *)

Counting == card.mode = "count" /\ (stage = "cells" \/ (stage = "dealt" /\ ~Numbered))

\* A planted win shows its own group and no more.
PlantedKept ==
    Counting => \A k \in 1 .. planted :
       Counts(Entry(k), out.wins[k].token) =>
         Cardinality(Shown(out.wins[k].token, Entry(k).scope)) = Entry(k).min

\* No group is large enough to fire an entry, but those planted and the rungs
\* below them.
CapsKept ==
    Counting => \A i \in DOMAIN card.pays, t \in Tokens(card) :
       Counts(card.pays[i], t) /\ (t \notin Winners \/ ~Overlapping) =>
         \/ Cardinality(Shown(t, card.pays[i].scope)) < card.pays[i].min
         \/ \E k \in 1 .. planted :
              /\ out.wins[k].token = t /\ Rungs(Entry(k), card.pays[i])
              /\ Cardinality(Shown(t, card.pays[i].scope)) = Entry(k).min


\* What these speak of stays when the cells alone change.
LEMMA SameCard ==
  ASSUME card' = card, out' = out
  PROVE  /\ \A k : Entry(k)' = Entry(k)
         /\ Winners' = Winners /\ Overlapping' = Overlapping /\ Numbered' = Numbered
<1>1. \A k : Entry(k)' = Entry(k)
  BY DEF Entry
<1>2. Winners' = Winners
  BY DEF Winners, WinsIn
<1>3. Numbered' = Numbered
  BY DEF Numbered
<1>4. Live' = Live
  BY DEF Live
<1>5. Overlapping' = Overlapping
  BY <1>4 DEF Overlapping
<1> QED  BY <1>1, <1>2, <1>3, <1>5

LEMMA MarkedStays ==
  ASSUME Typed, MarksUp, RenderDuels \/ Plant \/ Fill \/ RenderJackpot
  PROVE  \A t : IsMarked(t)' <=> IsMarked(t)
<1>1. card' = card
  BY Steps, Settled
<1> QED  BY <1>1, MarksUntouched DEF IsMarked

\* What a scope shows of a token after a step.
After(t, S) == {c \in S : cells'[c] = Plate(t)}

\* It is enough to count that, where the card and its wins stay.
LEMMA KeptAfter ==
  ASSUME card' = card, out' = out, \A t : IsMarked(t)' <=> IsMarked(t),
         \A k \in 1 .. planted' :
           Counts(Entry(k), out.wins[k].token) =>
             Cardinality(After(out.wins[k].token, Entry(k).scope)) = Entry(k).min,
         \A i \in DOMAIN card.pays, t \in Tokens(card) :
           Counts(card.pays[i], t) /\ (t \notin Winners \/ ~Overlapping) =>
             \/ Cardinality(After(t, card.pays[i].scope)) < card.pays[i].min
             \/ \E k \in 1 .. planted' :
                  /\ out.wins[k].token = t /\ Rungs(Entry(k), card.pays[i])
                  /\ Cardinality(After(t, card.pays[i].scope)) = Entry(k).min
  PROVE  PlantedKept' /\ CapsKept'
<1>1. (\A k : Entry(k)' = Entry(k)) /\ Winners' = Winners /\ Overlapping' = Overlapping
  BY SameCard
<1>2. PlantedKept'
  BY <1>1 DEF PlantedKept, After, Shown, Counts
<1>3. CapsKept'
  BY <1>1 DEF CapsKept, After, Shown, Counts, Rungs
<1> QED  BY <1>2, <1>3

LEMMA ShownCount ==
  ASSUME Typed, NEW S, S \subseteq DOMAIN cells, NEW R, R \subseteq S
  PROVE  /\ IsFiniteSet(R) /\ Cardinality(R) \in Nat /\ IsFiniteSet(S)
         /\ Cardinality(R) <= Cardinality(S) /\ Cardinality(S) \in Nat
<1>1. IsFiniteSet(DOMAIN cells)
  BY BodyWithin
<1>2. IsFiniteSet(S)
  BY <1>1, FS_Subset
<1> QED  BY <1>2, FS_Subset, FS_CardinalityType

\* What planting a win does to what is shown.
LEMMA PlantShown ==
  ASSUME Typed, MarksUp, Bare, Plant, stage' # "bad", card.mode = "count", NEW k, k = planted + 1
  PROVE  LET w == out.wins[k].token
         IN /\ k \in DOMAIN out.wins /\ planted' = k /\ stage = "cells" /\ stage' = "cells"
            /\ card' = card /\ out' = out /\ planted < Len(out.wins)
            /\ \A t, S : S \subseteq DOMAIN cells /\ (t # w \/ S \cap Entry(k).scope = {})
                         => After(t, S) = Shown(t, S)
            /\ Cardinality(After(w, Entry(k).scope)) = Entry(k).min
            /\ \A S : S \subseteq DOMAIN cells /\ Shown(w, S) = {} =>
                 /\ Cardinality(After(w, S)) <= Entry(k).min
                 /\ Cardinality(After(w, S)) <= Cardinality(Entry(k).scope \cap S)
<1> DEFINE w == out.wins[k].token
           D == Entry(k).scope
           m == Entry(k).min
<1>1. /\ stage = "cells" /\ card' = card /\ out' = out /\ planted < Len(out.wins)
      /\ Cardinality(Free(D, w)) >= m /\ stage' = "cells" /\ planted' = k
  BY PlantStep
<1>2. PICK start \in D : cells' = [c \in DOMAIN cells |-> IF c \in Group(D, w, m, start)
                                                         THEN Plate(w) ELSE cells[c]]
  BY PlantStep
<1>3. k \in DOMAIN out.wins /\ \A c \in D : cells[c] = EMPTY \/ c \in FirstCells(card, "mark")
  BY <1>1, FreeCells
<1>4. out.wins[k].pay \in DOMAIN card.pays
  BY <1>3, WinsType DEF Typed
<1>5. D \subseteq DOMAIN cells /\ D \subseteq 1 .. MAX_CELLS /\ m \in Nat
  BY <1>4, PayOk DEF Entry
<1> DEFINE G == Group(D, w, m, start)
<1>6. G \subseteq D /\ G \subseteq Free(D, w) /\ \A c \in G : cells[c] \in {EMPTY, Plate(w)}
  BY DEF Group, Free
<1>7. Cardinality(Free(D, w)) \in Nat
  BY <1>5, ShownCount DEF Free
<1>8. Cardinality(G) = m
  BY <1>1, <1>5, <1>7, GroupSize
<1>9. \A c \in FirstCells(card, "mark") : \A t : cells[c] # Plate(t)
  BY <1>1, Kinds DEF MarksUp
<1> HIDE DEF w, D, m, G
<1>10. \A c \in DOMAIN cells : IF c \in G THEN cells'[c] = Plate(w) ELSE cells'[c] = cells[c]
  BY <1>2 DEF G
<1>a. G \subseteq DOMAIN cells
  BY <1>5, <1>6
<1>11. ASSUME NEW t, NEW S, S \subseteq DOMAIN cells, t # w \/ S \cap D = {}
       PROVE  After(t, S) = Shown(t, S)
  <2>1. \A c \in S : cells'[c] = Plate(t) <=> cells[c] = Plate(t)
    <3>1. CASE S \cap D = {}
      BY <1>6, <1>10, <1>11, <3>1
    <3>2. CASE t # w
      BY <1>6, <1>10, <1>11, <3>2, Kinds
    <3> QED  BY <1>11, <3>1, <3>2
  <2> QED  BY <2>1 DEF Shown, After
<1>12. After(w, D) = G
  <2>a. \A c \in D : cells[c] # Plate(w)
    BY <1>3, <1>9, Kinds
  <2>1. \A c \in D : cells'[c] = Plate(w) <=> c \in G
    BY <1>5, <1>10, <2>a
  <2> QED  BY <1>6, <2>1 DEF After
<1>13. ASSUME NEW S, S \subseteq DOMAIN cells, Shown(w, S) = {}
       PROVE  /\ Cardinality(After(w, S)) <= m
              /\ Cardinality(After(w, S)) <= Cardinality(D \cap S)
  <2>1. \A c \in S : cells'[c] = Plate(w) <=> c \in G
    BY <1>10, <1>13 DEF Shown
  <2>2. After(w, S) = G \cap S
    BY <2>1 DEF After
  <2>3. G \cap S \subseteq G /\ G \cap S \subseteq D \cap S /\ G \subseteq DOMAIN cells
        /\ D \cap S \subseteq DOMAIN cells
    BY <1>5, <1>6
  <2>4. Cardinality(G \cap S) <= Cardinality(G) /\ Cardinality(G \cap S) <= Cardinality(D \cap S)
    BY <2>3, ShownCount
  <2> QED  BY <1>8, <2>2, <2>4
<1>14. Cardinality(After(w, D)) = m
  BY <1>8, <1>12
<1> QED  BY <1>1, <1>3, <1>11, <1>13, <1>14 DEF w, D, m

LEMMA PlantKeeps ==
  ASSUME Typed, MarksUp, Bare, PlantedKept, CapsKept, Plant
  PROVE  PlantedKept' /\ CapsKept'
<1> DEFINE k == planted + 1
           w == out.wins[k].token
<1>0. card' = card /\ out' = out /\ stage = "cells" /\ stage' \in {"cells", "bad"}
      /\ planted < Len(out.wins)
  <2>1. k = planted + 1  OBVIOUS
  <2> HIDE DEF k
  <2> QED  BY <2>1, PlantStep
<1>1. CASE stage' = "bad" \/ card.mode # "count"
  BY <1>0, <1>1 DEF PlantedKept, CapsKept, Counting
<1>2. CASE stage' # "bad" /\ card.mode = "count"
  <2>1. /\ k \in DOMAIN out.wins /\ planted' = k
        /\ \A t, S : S \subseteq DOMAIN cells /\ (t # w \/ S \cap Entry(k).scope = {})
                     => After(t, S) = Shown(t, S)
        /\ Cardinality(After(w, Entry(k).scope)) = Entry(k).min
        /\ \A S : S \subseteq DOMAIN cells /\ Shown(w, S) = {} =>
             /\ Cardinality(After(w, S)) <= Entry(k).min
             /\ Cardinality(After(w, S)) <= Cardinality(Entry(k).scope \cap S)
    BY <1>2, PlantShown
  <2>2. \A t : IsMarked(t)' <=> IsMarked(t)
    BY MarkedStays
  <2>4. planted \in Nat /\ Len(out.wins) \in Nat /\ DOMAIN out.wins = 1 .. Len(out.wins)
        /\ 1 .. planted \subseteq DOMAIN out.wins /\ k = planted + 1
        /\ (\A l \in DOMAIN out.wins : out.wins[l].pay \in DOMAIN card.pays)
    BY <1>0, WinsType DEF Typed, TypeOK
  <2>5. Counting
    BY <1>0, <1>2 DEF Counting
  <2>6. /\ \A l \in DOMAIN out.wins : Entry(l).scope \subseteq DOMAIN cells
        /\ \A i \in DOMAIN card.pays : card.pays[i].scope \subseteq DOMAIN cells
    BY <2>4, PayOk DEF Entry
  <2> HIDE DEF k
  <2>8. ASSUME NEW l \in 1 .. k, Counts(Entry(l), out.wins[l].token)
        PROVE  Cardinality(After(out.wins[l].token, Entry(l).scope)) = Entry(l).min
    <3>1. CASE l = k
      BY <2>1, <3>1
    <3>2. CASE l # k
      <4>1. l \in 1 .. planted /\ l \in DOMAIN out.wins
        BY <2>4, <3>2
      <4>2. Cardinality(Shown(out.wins[l].token, Entry(l).scope)) = Entry(l).min
        BY <2>5, <2>8, <4>1 DEF PlantedKept
      <4>3. Entry(l).scope \cap Entry(k).scope = {}
        BY <2>1, <3>2, <4>1, WinsApart
      <4> QED  BY <2>1, <2>6, <4>1, <4>2, <4>3
    <3> QED  BY <3>1, <3>2
  <2>9. ASSUME NEW i \in DOMAIN card.pays, NEW t \in Tokens(card),
               Counts(card.pays[i], t), t \notin Winners \/ ~Overlapping
        PROVE  \/ Cardinality(After(t, card.pays[i].scope)) < card.pays[i].min
               \/ \E l \in 1 .. k :
                    /\ out.wins[l].token = t /\ Rungs(Entry(l), card.pays[i])
                    /\ Cardinality(After(t, card.pays[i].scope)) = Entry(l).min
    <3> DEFINE q == card.pays[i]
    <3>1. \/ Cardinality(Shown(t, q.scope)) < q.min
          \/ \E l \in 1 .. planted :
               /\ out.wins[l].token = t /\ Rungs(Entry(l), q)
               /\ Cardinality(Shown(t, q.scope)) = Entry(l).min
      BY <2>5, <2>9 DEF CapsKept
    <3>2. 1 .. planted \subseteq 1 .. k /\ k \in 1 .. k
      BY <2>4
    <3>3. CASE t # w \/ q.scope \cap Entry(k).scope = {}
      <4>1. After(t, q.scope) = Shown(t, q.scope)
        BY <2>1, <2>6, <3>3
      <4> QED  BY <3>1, <3>2, <4>1
    <3>4. CASE t = w /\ Rungs(Entry(k), q)
      <4>1. After(t, q.scope) = After(w, Entry(k).scope)
        BY <3>4 DEF Rungs
      <4> QED  BY <2>1, <3>2, <3>4, <4>1
    <3>5. CASE t = w /\ ~Rungs(Entry(k), q) /\ q.scope \cap Entry(k).scope # {}
      <4>a. out.wins[k].pay \in Live /\ out.wins[k].pay \in DOMAIN card.pays
        BY <2>1, WinsType DEF Typed
      <4>b. i # out.wins[k].pay
        BY <3>5 DEF Rungs, Entry
      <4>1. i # out.wins[k].pay /\ out.wins[k].pay \in Live /\ out.wins[k].pay \in DOMAIN card.pays
        BY <4>a, <4>b
      <4>2. w \in Winners
        BY <2>1 DEF Winners, WinsIn
      <4>3. ~(q.min <= Entry(k).min /\ q.min <= Cardinality(Entry(k).scope \cap q.scope))
        BY <1>2, <2>9, <3>5, <4>1, <4>2 DEF Overlapping, Entry
      <4>4. planted = 0
        <5>1. card.roll = "exclusive"
          BY <3>5, <4>1 DEF Typed, TypeOK, Valid, RollOk, Entry
        <5>2. Len(out.wins) <= 1
          BY <5>1 DEF Typed, Rolls
        <5> QED  BY <1>0, <2>4, <5>2
      <4>5. \A c \in DOMAIN cells : cells[c] = EMPTY \/ c \in FirstCells(card, "mark")
        BY <1>0, <1>2, <2>4, <4>4 DEF Bare, Taken
      <4>6. \A c \in DOMAIN cells : \A x : cells[c] # Plate(x)
        BY <1>0, <4>5, Kinds DEF MarksUp
      <4>7. Shown(w, q.scope) = {}
        BY <2>6, <4>6 DEF Shown
      <4>8. /\ Cardinality(After(w, q.scope)) <= Entry(k).min
            /\ Cardinality(After(w, q.scope)) <= Cardinality(Entry(k).scope \cap q.scope)
        BY <2>1, <2>6, <4>7
      <4>9. Cardinality(After(w, q.scope)) \in Nat /\ Cardinality(Entry(k).scope \cap q.scope) \in Nat
        BY <2>6, ShownCount DEF After
      <4>10. q.min \in Nat /\ Entry(k).min \in Nat
        BY <4>1, PayOk DEF Entry
      <4> QED  BY <3>5, <4>3, <4>8, <4>9, <4>10
    <3> QED  BY <3>3, <3>4, <3>5
  <2> QED  BY <1>0, <2>1, <2>2, <2>8, <2>9, KeptAfter
<1> QED  BY <1>0, <1>1, <1>2

LEMMA FillKeeps ==
  ASSUME Typed, MarksUp, PlantedKept, CapsKept, Fill
  PROVE  PlantedKept' /\ CapsKept'
<1> DEFINE c == Min(Holes)
<1>0. card' = card /\ out' = out /\ stage = "cells" /\ stage' \in {"cells", "bad"}
      /\ planted' = planted /\ planted = Len(out.wins) /\ Holes # {}
  BY Steps
<1>1. CASE stage' = "bad" \/ card.mode # "count"
  BY <1>0, <1>1 DEF PlantedKept, CapsKept, Counting
<1>2. CASE stage' # "bad" /\ card.mode = "count"
  <2>1. PICK u \in Fillers(c) : cells' = [cells EXCEPT ![c] = Plate(u)]
    BY <1>2 DEF Fill
  <2>2. u \in Tokens(card) /\ Placeable(c, u)
    BY <2>1 DEF Fillers
  <2>3. c \in DOMAIN cells /\ cells[c] = EMPTY
    <3>1. Holes \subseteq Nat
      BY DEF Holes, Body
    <3>2. c \in Holes
      BY <1>0, <3>1, MinIsLeast
    <3> QED  BY <3>2, BodyWithin DEF Holes
  <2>4. Counting
    BY <1>0, <1>2 DEF Counting
  <2>5. \A t : IsMarked(t)' <=> IsMarked(t)
    BY MarkedStays
  <2>6. /\ planted \in Nat /\ DOMAIN out.wins = 1 .. planted
        /\ \A k \in 1 .. planted : out.wins[k].pay \in DOMAIN card.pays
                                   /\ out.wins[k].token \in Tokens(card)
    BY <1>0, WinsType DEF Typed, TypeOK
  <2> HIDE DEF c
  <2>7. ASSUME NEW t, NEW S, t # u \/ c \notin S
        PROVE  After(t, S) = Shown(t, S)
    BY <2>1, <2>3, <2>7, Kinds DEF After, Shown
  <2>8. ASSUME NEW S, S \subseteq DOMAIN cells, c \in S
        PROVE  Cardinality(After(u, S)) = Cardinality(Shown(u, S)) + 1
    <3>1. After(u, S) = Shown(u, S) \cup {c}
      BY <2>1, <2>3, <2>8 DEF After, Shown
    <3>2. c \notin Shown(u, S) /\ IsFiniteSet(Shown(u, S))
      BY <2>3, <2>8, Kinds, ShownCount DEF Shown
    <3> QED  BY <3>1, <3>2, FS_AddElement
  <2>9. ASSUME NEW i \in DOMAIN card.pays, Counts(card.pays[i], u), c \in card.pays[i].scope
        PROVE  /\ Cardinality(Shown(u, card.pays[i].scope)) + 1 <= Cap(i, u)
               /\ Cardinality(Shown(u, card.pays[i].scope)) \in Nat
               /\ Cap(i, u) = card.pays[i].min - 1
    <3>1. Cardinality(Shown(u, card.pays[i].scope)) + 1 <= Cap(i, u)
      BY <1>2, <2>2, <2>9 DEF Placeable
    <3>2. Cardinality(Shown(u, card.pays[i].scope)) \in Nat /\ card.pays[i].min \in Nat
      BY PayOk, ShownCount DEF Shown
    <3>3. ASSUME NEW k \in 1 .. planted, out.wins[k] = [pay |-> i, token |-> u]
          PROVE  FALSE
      <4>1. Entry(k) = card.pays[i] /\ out.wins[k].token = u
        BY <3>3 DEF Entry
      <4>2. Cardinality(Shown(u, card.pays[i].scope)) = card.pays[i].min
        BY <2>4, <2>9, <4>1 DEF PlantedKept
      <4>3. Cap(i, u) = card.pays[i].min
        BY <2>6, <3>3 DEF Cap, WinsIn
      <4> QED  BY <3>1, <3>2, <4>2, <4>3
    <3>4. Cap(i, u) = card.pays[i].min - 1
      BY <2>6, <3>3 DEF Cap, WinsIn
    <3> QED  BY <3>1, <3>2, <3>4
  <2>10. ASSUME NEW k \in 1 .. planted', Counts(Entry(k), out.wins[k].token)
         PROVE  Cardinality(After(out.wins[k].token, Entry(k).scope)) = Entry(k).min
    <3>1. Cardinality(Shown(out.wins[k].token, Entry(k).scope)) = Entry(k).min
      BY <1>0, <2>4, <2>10 DEF PlantedKept
    <3>2. CASE out.wins[k].token # u \/ c \notin Entry(k).scope
      BY <2>7, <3>1, <3>2
    <3>3. CASE out.wins[k].token = u /\ c \in Entry(k).scope
      <4> DEFINE i == out.wins[k].pay
      <4>1. i \in DOMAIN card.pays /\ Entry(k) = card.pays[i]
        BY <1>0, <2>6 DEF Entry
      <4>2. card.pays[i].min \in Nat
        BY <4>1, PayOk
      <4> HIDE DEF i
      <4>3. /\ Cardinality(Shown(u, card.pays[i].scope)) + 1 <= card.pays[i].min - 1
        BY <2>9, <2>10, <3>3, <4>1
      <4> QED  BY <3>1, <3>3, <4>1, <4>2, <4>3
    <3> QED  BY <3>2, <3>3
  <2>11. ASSUME NEW i \in DOMAIN card.pays, NEW t \in Tokens(card),
               Counts(card.pays[i], t), t \notin Winners \/ ~Overlapping
         PROVE  \/ Cardinality(After(t, card.pays[i].scope)) < card.pays[i].min
                \/ \E l \in 1 .. planted' :
                    /\ out.wins[l].token = t /\ Rungs(Entry(l), card.pays[i])
                    /\ Cardinality(After(t, card.pays[i].scope)) = Entry(l).min
    <3>1. CASE t # u \/ c \notin card.pays[i].scope
      BY <1>0, <2>4, <2>7, <2>11, <3>1 DEF CapsKept
    <3>2. CASE t = u /\ c \in card.pays[i].scope
      <4>1. /\ Cardinality(Shown(u, card.pays[i].scope)) + 1 <= card.pays[i].min - 1
            /\ Cardinality(Shown(u, card.pays[i].scope)) \in Nat
        BY <2>9, <2>11, <3>2
      <4>2. Cardinality(After(u, card.pays[i].scope)) = Cardinality(Shown(u, card.pays[i].scope)) + 1
        BY <2>8, <3>2, PayOk
      <4>3. card.pays[i].min \in Nat
        BY PayOk
      <4> QED  BY <3>2, <4>1, <4>2, <4>3
    <3> QED  BY <3>1, <3>2
  <2> QED  BY <1>0, <2>5, <2>10, <2>11, KeptAfter
<1> QED  BY <1>0, <1>1, <1>2

LEMMA JackpotKeeps ==
  ASSUME Typed, MarksUp, PlantedKept, CapsKept, RenderJackpot
  PROVE  PlantedKept' /\ CapsKept'
<1>0. card' = card /\ out' = out /\ stage = "cells" /\ stage' = "dealt"
      /\ planted' = planted /\ planted = Len(out.wins) /\ Holes = {}
  BY Steps
<1>1. CASE card.mode # "count" \/ Numbered
  <2>1. Numbered' = Numbered
    BY <1>0, SameCard
  <2> QED  BY <1>0, <1>1, <2>1 DEF PlantedKept, CapsKept, Counting
<1>2. CASE card.mode = "count" /\ ~Numbered
  <2>1. Counting
    BY <1>0, <1>2 DEF Counting
  <2>2. \A t : IsMarked(t)' <=> IsMarked(t)
    BY MarkedStays
  <2>3. \A c \in Body(card) : cells[c] # EMPTY => cells'[c] = cells[c]
    BY Settled
  <2>4. ASSUME NEW i \in DOMAIN card.pays, NEW t
        PROVE  After(t, card.pays[i].scope) = Shown(t, card.pays[i].scope)
    <3>1. card.pays[i].scope \subseteq Body(card)
      BY PayOk
    <3>2. card.pays[i].scope \cap FirstCells(card, "number") = {}
      BY <1>2 DEF Numbered
    <3>3. \A c \in card.pays[i].scope : cells[c] # EMPTY
      BY <1>0, <3>1, <3>2 DEF Holes
    <3>4. \A c \in card.pays[i].scope : cells'[c] = cells[c]
      BY <2>3, <3>1, <3>3
    <3> QED  BY <3>4 DEF After, Shown
  <2>5. \A k \in 1 .. planted : Entry(k) = card.pays[out.wins[k].pay] /\ out.wins[k].pay \in DOMAIN card.pays
    BY <1>0, WinsType DEF Entry, Typed
  <2>6. ASSUME NEW k \in 1 .. planted', Counts(Entry(k), out.wins[k].token)
        PROVE  Cardinality(After(out.wins[k].token, Entry(k).scope)) = Entry(k).min
    <3>1. Cardinality(Shown(out.wins[k].token, Entry(k).scope)) = Entry(k).min
      BY <1>0, <2>1, <2>6 DEF PlantedKept
    <3> QED  BY <1>0, <2>4, <2>5, <3>1
  <2>7. ASSUME NEW i \in DOMAIN card.pays, NEW t \in Tokens(card),
               Counts(card.pays[i], t), t \notin Winners \/ ~Overlapping
        PROVE  \/ Cardinality(After(t, card.pays[i].scope)) < card.pays[i].min
               \/ \E k \in 1 .. planted' :
                    /\ out.wins[k].token = t /\ Rungs(Entry(k), card.pays[i])
                    /\ Cardinality(After(t, card.pays[i].scope)) = Entry(k).min
    <3>1. After(t, card.pays[i].scope) = Shown(t, card.pays[i].scope)
      BY <2>4
    <3>2. \/ Cardinality(Shown(t, card.pays[i].scope)) < card.pays[i].min
          \/ \E k \in 1 .. planted :
               /\ out.wins[k].token = t /\ Rungs(Entry(k), card.pays[i])
               /\ Cardinality(Shown(t, card.pays[i].scope)) = Entry(k).min
      BY <2>1, <2>7 DEF CapsKept
    <3> QED  BY <1>0, <3>1, <3>2
  <2> QED  BY <1>0, <2>2, <2>6, <2>7, KeptAfter
<1> QED  BY <1>1, <1>2

\* Before a win is planted nothing is shown.
LEMMA DuelsKeep ==
  ASSUME Typed, MarksUp, Bare, RenderDuels
  PROVE  PlantedKept' /\ CapsKept'
<1>0. card' = card /\ out' = out /\ stage = "duels" /\ stage' = "cells" /\ planted' = planted
  BY Steps
<1>1. CASE card.mode # "count"
  BY <1>0, <1>1 DEF PlantedKept, CapsKept, Counting
<1>2. CASE card.mode = "count"
  <2>1. cells' = cells /\ planted = 0
    BY <1>0, <1>2 DEF RenderDuels, Typed, Unplanted
  <2>2. \A t : IsMarked(t)' <=> IsMarked(t)
    BY MarkedStays
  <2>3. \A c \in DOMAIN cells : \A t : cells'[c] # Plate(t)
    BY <1>0, <2>1, Kinds DEF Bare, MarksUp
  <2>4. \A i \in DOMAIN card.pays : \A t : Cardinality(After(t, card.pays[i].scope)) < card.pays[i].min
    <3>1. \A i \in DOMAIN card.pays : \A t : After(t, card.pays[i].scope) = {}
      BY <2>3, PayOk DEF After
    <3>2. \A i \in DOMAIN card.pays : card.pays[i].min \in Nat /\ card.pays[i].min >= 1
      BY PayOk
    <3> QED  BY <3>1, <3>2, FS_EmptySet
  <2> QED  BY <1>0, <2>1, <2>2, <2>4, KeptAfter
<1> QED  BY <1>1, <1>2

LEMMA KeptNext ==
  ASSUME Typed, MarksUp, Bare, PlantedKept, CapsKept, [Next]_vars
  PROVE  PlantedKept' /\ CapsKept'
<1>1. CASE UNCHANGED vars
  <2>1. card' = card /\ out' = out /\ cells' = cells /\ planted' = planted /\ stage' = stage
    BY <1>1 DEF vars
  <2>2. \A t : IsMarked(t)' <=> IsMarked(t)
    BY <2>1 DEF IsMarked
  <2>3. \A t, S : After(t, S) = Shown(t, S)
    BY <2>1 DEF After, Shown
  <2>4. Counting' <=> Counting
    BY <2>1, SameCard DEF Counting
  <2>5. CASE Counting
    BY <2>1, <2>2, <2>3, <2>5, KeptAfter DEF PlantedKept, CapsKept
  <2>6. CASE ~Counting
    BY <2>4, <2>6 DEF PlantedKept, CapsKept
  <2> QED  BY <2>5, <2>6
<1>2. CASE Roll \/ PlaceMarks
  BY <1>2, Steps DEF PlantedKept, CapsKept, Counting
<1>3. CASE RenderDuels
  BY <1>3, DuelsKeep
<1>4. CASE Plant
  BY <1>4, PlantKeeps
<1>5. CASE Fill
  BY <1>5, FillKeeps
<1>6. CASE RenderJackpot
  BY <1>6, JackpotKeeps
<1> QED  BY <1>1, <1>2, <1>3, <1>4, <1>5, <1>6 DEF Next

-----------------------------------------------------------------------------
(* The fill finds a token *)

LEMMA TokensFinite ==
  ASSUME Typed
  PROVE  /\ IsFiniteSet(Tokens(card)) /\ Cardinality(Tokens(card)) = Len(card.pool)
         /\ Tokens(card) \subseteq Nat \ {0} /\ Tokens(card) # {} /\ Len(card.pool) \in Nat
<1> DEFINE n == Len(card.pool)
<1>1. Tokens(card) = 1 .. n /\ n \in Nat
  BY DEF Typed, IsCard, Tokens
<1>2. n \in 1 .. MAX_POOL /\ MAX_POOL \in Nat
  BY EngineAssumption DEF Typed, TypeOK, Valid, ShapeOk
<1> HIDE DEF n
<1>3. IsFiniteSet(1 .. n) /\ Cardinality(1 .. n) = n
  BY <1>1, FS_Interval
<1>4. 1 .. n \subseteq Nat \ {0} /\ 1 \in 1 .. n
  BY <1>1, <1>2
<1> QED  BY <1>1, <1>3, <1>4 DEF n

\* The tokens that the entries over one scope keep out of it: no more than
\* check_fillable counts, unless a marked rung is the lower one.
LEMMA ScopeBlocks ==
  ASSUME Typed, MarksUp, stage = "cells", card.mode = "count", ~HalfMarked,
         NEW S \in {card.pays[i].scope : i \in DOMAIN card.pays},
         NEW B, B \subseteq Tokens(card),
         \A t \in B : \E i \in DOMAIN card.pays :
            /\ card.pays[i].scope = S /\ Counts(card.pays[i], t)
            /\ Cardinality(Shown(t, S)) >= card.pays[i].min - 1
  PROVE  /\ IsFiniteSet(B) /\ Cardinality(B) \in Nat /\ Blocked(card, S) \in Nat
         /\ Cardinality(B) <= Blocked(card, S)
<1> DEFINE Caps == UnmarkedCaps(card, S)
           F == FirstCells(card, "mark")
<1>1. S \subseteq DOMAIN cells /\ IsFiniteSet(S) /\ Cardinality(S) \in Nat
  BY PayOk
<1>2. IsFiniteSet(Tokens(card))
  BY TokensFinite
<1>3. IsFiniteSet(B) /\ Cardinality(B) \in Nat
  BY <1>2, FS_Subset, FS_CardinalityType
<1>4. CASE Caps = {}
  <2>1. \A i \in DOMAIN card.pays : card.pays[i].scope = S => card.pays[i].marked
    BY <1>4 DEF UnmarkedCaps
  <2>2. \A t \in B : \E c \in F : cells[c] = Mark(t)
    BY <2>1 DEF Counts, IsMarked
  <2> DEFINE shows == [c \in F |-> cells[c].is]
             M == {shows[c] : c \in F}
  <2>3. \A t : Mark(t).is = t
    BY DEF Mark
  <2>4. B \subseteq M
    BY <2>2, <2>3
  <2>5. IsFiniteSet(F)
    BY MarkCells DEF Typed, TypeOK, Valid
  <2> HIDE DEF shows
  <2>6. IsFiniteSet(M) /\ Cardinality(M) <= Cardinality(F) /\ Cardinality(M) \in Nat
    BY <2>5, ImageSize
  <2> HIDE DEF M
  <2>7. Cardinality(B) <= Cardinality(M)
    BY <2>4, <2>6, FS_Subset
  <2>8. Cardinality(F) \in Nat
    BY <2>5, FS_CardinalityType
  <2>9. Blocked(card, S) = Cardinality(F)
    BY <1>4 DEF Blocked, Marks
  <2> QED  BY <1>3, <2>6, <2>7, <2>8, <2>9
<1>5. CASE Caps # {}
  <2> DEFINE m == Min(Caps)
  <2>1. \A i \in DOMAIN card.pays :
           /\ card.pays[i].min \in Nat
           /\ ~card.pays[i].marked => FloorOf(card.pays[i].min - 1, 1) = card.pays[i].min - 1
                                      /\ card.pays[i].min - 1 >= 1
    BY PayOk DEF FloorOf
  <2>2. Caps \subseteq Nat /\ \A n \in Caps : n >= 1
    BY <2>1 DEF UnmarkedCaps
  <2>3. m \in Caps /\ \A n \in Caps : m <= n
    BY <1>5, <2>2, MinIsLeast
  <2>4. m \in Nat /\ m >= 1
    BY <2>2, <2>3
  <2>5. ASSUME NEW t \in B PROVE Cardinality(Shown(t, S)) >= m /\ Cardinality(Shown(t, S)) \in Nat
    <3>1. PICK i \in DOMAIN card.pays :
            /\ card.pays[i].scope = S /\ Counts(card.pays[i], t)
            /\ Cardinality(Shown(t, S)) >= card.pays[i].min - 1
      OBVIOUS
    <3>2. card.pays[i].min - 1 >= m
      <4>1. CASE card.pays[i].marked
        <5>1. ~(card.pays[i].min - 1 < Min(Caps))
          BY <1>5, <3>1, <4>1 DEF HalfMarked
        <5> QED  BY <2>1, <2>4, <5>1
      <4>2. CASE ~card.pays[i].marked
        <5>1. card.pays[i].min - 1 \in Caps
          BY <2>1, <3>1, <4>2 DEF UnmarkedCaps
        <5> QED  BY <2>3, <5>1
      <4> QED  BY <4>1, <4>2
    <3>3. Cardinality(Shown(t, S)) \in Nat
      BY <1>1, ShownCount DEF Shown
    <3> QED  BY <2>1, <2>4, <3>1, <3>2, <3>3
  <2> DEFINE shown == [t \in B |-> Shown(t, S)]
             size == [t \in B |-> Cardinality(shown[t])]
             least == [t \in B |-> m]
             All == UNION {shown[t] : t \in B}
  <2>6. \A t \in B : IsFiniteSet(shown[t])
    BY <1>1, ShownCount DEF Shown
  <2>7. \A t, u \in B : t # u => shown[t] \cap shown[u] = {}
    BY Kinds DEF Shown
  <2>8. All \subseteq S
    BY DEF Shown
  <2>9. \A t \in B : size[t] \in Nat /\ least[t] \in Nat /\ least[t] <= size[t] /\ least[t] = m
    BY <2>4, <2>5
  <2> HIDE DEF shown, least, m
  <2>10. Cardinality(All) = SumOver(size, B)
    BY <1>3, <2>6, <2>7, CountApart
  <2> HIDE DEF size, All
  <2>11. SumOver(least, B) <= SumOver(size, B)
    BY <1>3, <2>9, SumLeq
  <2>12. SumOver(least, B) = m * Cardinality(B)
    BY <1>3, <2>4, <2>9, SumConstant
  <2>13. Cardinality(All) <= Cardinality(S) /\ Cardinality(All) \in Nat
    BY <1>1, <2>8, FS_Subset, FS_CardinalityType
  <2>14. m * Cardinality(B) <= Cardinality(S)
    <3> DEFINE b == m * Cardinality(B)
    <3>1. b \in Nat
      BY <1>3, <2>4
    <3>2. b <= Cardinality(All)
      BY <2>10, <2>11, <2>12
    <3> HIDE DEF b
    <3>3. b <= Cardinality(S)
      BY <1>1, <2>13, <3>1, <3>2
    <3> QED  BY <3>3 DEF b
  <2>15. /\ Cardinality(B) <= Cardinality(S) \div m
         /\ Cardinality(S) \div m \in Nat
    BY <1>1, <1>3, <2>4, <2>14, QuotientBound
  <2>16. Blocked(card, S) = Cardinality(S) \div m
    BY <1>5 DEF Blocked, m
  <2> QED  BY <1>3, <2>15, <2>16
<1> QED  BY <1>4, <1>5

\* Some token fits every hole, unless a marked rung is the lower one.
LEMMA FillFindsToken ==
  ASSUME Typed, MarksUp, Fill, stage' = "bad"
  PROVE  HalfMarked
<1> SUFFICES ASSUME ~HalfMarked PROVE FALSE
  OBVIOUS
<1> DEFINE c == Min(Holes)
<1>1. stage = "cells" /\ Holes # {}
  BY Steps
<1>2. c \in Body(card)
  <2>1. Holes \subseteq Nat
    BY DEF Holes, Body
  <2>2. c \in Holes
    BY <1>1, <2>1, MinIsLeast
  <2> QED  BY <2>2 DEF Holes
<1>3. Fillers(c) = {}
  BY <1>1 DEF Fill
<1>4. ASSUME NEW t \in Tokens(card), Placeable(c, t) PROVE FALSE
  <2> DEFINE fits == {x \in Tokens(card) : Placeable(c, x)}
  <2>1. fits \subseteq Nat /\ t \in fits
    BY <1>4, TokensFinite
  <2>2. PICK x \in fits : \A y \in fits : x <= y
    BY <2>1, LeastExists
  <2>3. x \in {y \in fits : \A z \in fits : y <= z}
    BY <2>2
  <2>4. Fillers(c) = IF fits \ Winners # {} THEN fits \ Winners
                     ELSE {y \in fits : \A z \in fits : y <= z}
    BY Zenon DEF Fillers
  <2> HIDE DEF fits
  <2> QED  BY <1>3, <2>3, <2>4
<1> HIDE DEF c
<1>5. card.mode = "count"
  <2>1. \E t : t \in Tokens(card)
    BY TokensFinite
  <2> QED  BY <1>4, <2>1 DEF Placeable
<1>6. \A t \in Tokens(card) : \E i \in DOMAIN card.pays :
        /\ c \in card.pays[i].scope /\ Counts(card.pays[i], t)
        /\ Cardinality(Shown(t, card.pays[i].scope)) >= card.pays[i].min - 1
  <2> TAKE t \in Tokens(card)
  <2>1. PICK i \in DOMAIN card.pays :
          /\ c \in card.pays[i].scope /\ Counts(card.pays[i], t)
          /\ ~(Cardinality(Shown(t, card.pays[i].scope)) + 1 <= Cap(i, t))
    BY <1>4 DEF Placeable
  <2> DEFINE shown == Cardinality(Shown(t, card.pays[i].scope))
             m == card.pays[i].min
  <2>2. shown \in Nat /\ m \in Nat /\ Cap(i, t) \in {m, m - 1}
    <3>1. shown \in Nat
      BY PayOk, ShownCount DEF Shown
    <3> QED  BY <3>1, PayOk DEF Cap
  <2>3. ~(shown + 1 <= Cap(i, t))
    BY <2>1
  <2> HIDE DEF shown, m
  <2>4. shown >= m - 1
    BY <2>2, <2>3
  <2> QED  BY <2>1, <2>4 DEF shown, m
<1> DEFINE At == ScopesAt(card, c)
           kept == [S \in At |-> {t \in Tokens(card) : \E i \in DOMAIN card.pays :
                       /\ card.pays[i].scope = S /\ Counts(card.pays[i], t)
                       /\ Cardinality(Shown(t, S)) >= card.pays[i].min - 1}]
           many == [S \in At |-> Cardinality(kept[S])]
           most == [S \in At |-> Blocked(card, S)]
           All == UNION {kept[S] : S \in At}
<1>7. At = {S \in {card.pays[i].scope : i \in DOMAIN card.pays} : c \in S}
  BY DEF ScopesAt
<1>8. IsFiniteSet(At)
  <2> DEFINE scopes == [i \in DOMAIN card.pays |-> card.pays[i].scope]
             Images == {scopes[i] : i \in DOMAIN card.pays}
  <2>1. IsFiniteSet(DOMAIN card.pays)
    BY PaysType, FS_Interval DEF Typed
  <2>2. At \subseteq Images
    BY <1>7
  <2> HIDE DEF scopes
  <2>3. IsFiniteSet(Images)
    BY <2>1, ImageSize
  <2> QED  BY <2>2, <2>3, FS_Subset
<1>9. ASSUME NEW S \in At
      PROVE  /\ IsFiniteSet(kept[S]) /\ many[S] \in Nat /\ most[S] \in Nat /\ many[S] <= most[S]
             /\ kept[S] \subseteq Tokens(card)
  <2> DEFINE B == kept[S]
  <2>1. /\ S \in {card.pays[i].scope : i \in DOMAIN card.pays}
        /\ B \subseteq Tokens(card)
        /\ \A t \in B : \E i \in DOMAIN card.pays :
             /\ card.pays[i].scope = S /\ Counts(card.pays[i], t)
             /\ Cardinality(Shown(t, S)) >= card.pays[i].min - 1
    BY <1>7
  <2> HIDE DEF B
  <2>2. /\ IsFiniteSet(B) /\ Cardinality(B) \in Nat /\ Blocked(card, S) \in Nat
        /\ Cardinality(B) <= Blocked(card, S)
    BY <1>1, <1>5, <2>1, ScopeBlocks
  <2>3. many[S] = Cardinality(B) /\ most[S] = Blocked(card, S)
    BY DEF B
  <2> QED  BY <2>1, <2>2, <2>3 DEF B
<1>10. Tokens(card) \subseteq All
  <2> SUFFICES ASSUME NEW t \in Tokens(card) PROVE \E S \in At : t \in kept[S]
    OBVIOUS
  <2>1. PICK i \in DOMAIN card.pays :
        /\ c \in card.pays[i].scope /\ Counts(card.pays[i], t)
        /\ Cardinality(Shown(t, card.pays[i].scope)) >= card.pays[i].min - 1
    BY <1>6
  <2>2. card.pays[i].scope \in At
    BY <1>7, <2>1
  <2> QED  BY <2>1, <2>2
<1>11. SumOver(most, At) < Len(card.pool)
  <2>1. Fillable(card)
    BY <1>5 DEF Typed, TypeOK, Valid
  <2> QED  BY <1>2, <2>1, Zenon DEF Fillable
<1> HIDE DEF kept, most, At
<1>12. IsFiniteSet(All) /\ Cardinality(All) <= SumOver(many, At)
  BY <1>8, <1>9, CountUnion
<1> HIDE DEF many, All
<1>13. SumOver(many, At) <= SumOver(most, At)
  BY <1>8, <1>9, SumLeq
<1>14. SumOver(many, At) \in Nat /\ SumOver(most, At) \in Nat
  BY <1>8, <1>9, SumNat
<1>15. Cardinality(Tokens(card)) <= Cardinality(All) /\ Cardinality(All) \in Nat
       /\ Cardinality(Tokens(card)) = Len(card.pool) /\ Len(card.pool) \in Nat
  BY <1>10, <1>12, FS_Subset, FS_CardinalityType, TokensFinite
<1> QED  BY <1>11, <1>12, <1>13, <1>14, <1>15

LEMMA NeverStuckNext ==
  ASSUME Typed, MarksUp, Bare, NeverStuck, [Next]_vars
  PROVE  NeverStuck'
<1>1. card' = card => NoRoom' = NoRoom /\ HalfMarked' = HalfMarked /\ Overmarked' = Overmarked
  <2> SUFFICES ASSUME card' = card
               PROVE  NoRoom' = NoRoom /\ HalfMarked' = HalfMarked /\ Overmarked' = Overmarked
    OBVIOUS
  <2>1. Taken' = Taken /\ Live' = Live
    BY DEF Taken, Duels, House, Mine, Live
  <2>2. NoRoom' = NoRoom
    BY <2>1 DEF NoRoom
  <2>3. HalfMarked' = HalfMarked
    BY DEF HalfMarked
  <2>4. Overmarked' = Overmarked
    BY DEF Overmarked
  <2> QED  BY <2>2, <2>3, <2>4
<1>2. CASE UNCHANGED vars
  BY <1>1, <1>2 DEF vars, NeverStuck
<1>3. CASE Roll \/ RenderDuels \/ RenderJackpot
  BY <1>3, Steps DEF NeverStuck
<1>4. CASE PlaceMarks
  <2>1. stage' = "bad" => Overmarked
    BY <1>4 DEF PlaceMarks, Overmarked
  <2> QED  BY <1>1, <1>4, <2>1, Steps DEF NeverStuck
<1>5. CASE Plant
  BY <1>1, <1>5, PlantFindsRoom, Settled DEF NeverStuck
<1>6. CASE Fill
  BY <1>1, <1>6, FillFindsToken, Steps DEF NeverStuck
<1> QED  BY <1>2, <1>3, <1>4, <1>5, <1>6 DEF Next

-----------------------------------------------------------------------------
(* The invariant *)

IInv == /\ Typed /\ LineUp /\ MarksUp /\ Duelled /\ Bare
        /\ PlantedKept /\ CapsKept /\ NeverStuck

LEMMA InitIInv == Init => IInv
<1> SUFFICES ASSUME Init PROVE IInv  OBVIOUS
<1>1. Typed
  BY InitTyped
<1>2. stage = "roll" /\ \A c \in DOMAIN cells : cells[c] = EMPTY
  BY DEF Init
<1> QED  BY <1>1, <1>2
         DEF IInv, LineUp, MarksUp, Duelled, Bare, PlantedKept, CapsKept, Counting, NeverStuck

LEMMA NextIInv == ASSUME IInv, [Next]_vars PROVE IInv'
<1>1. Typed /\ LineUp /\ MarksUp /\ Duelled /\ Bare /\ PlantedKept /\ CapsKept /\ NeverStuck
  BY DEF IInv
<1>2. Typed' /\ LineUp' /\ MarksUp' /\ Duelled' /\ Bare'
  BY <1>1, NextTyped, LineUpNext, MarksUpNext, DuelledNext, BareNext
<1>3. PlantedKept' /\ CapsKept' /\ NeverStuck'
  BY <1>1, KeptNext, NeverStuckNext
<1> QED  BY <1>2, <1>3 DEF IInv

THEOREM IInvAlways == Spec => []IInv
  BY InitIInv, NextIInv, PTL DEF Spec

\* No card set_card publishes stops the renderer, but of the three shapes: a
\* win always finds cells for its group, and a hole a token that fires nothing
\* undeclared (check_fillable's argument).
THEOREM NeverStuckAlways == Spec => []NeverStuck
  BY IInvAlways, PTL DEF IInv

-----------------------------------------------------------------------------
(* What a dealt card is worth *)

\* The jackpot line is the hit's only on a hit.
LEMMA LineIsBand ==
  ASSUME Typed, LineUp, stage = "dealt"
  PROVE  /\ out.jackpot = "hit" =>
              \A c \in FirstCells(card, "jackpot") : cells[c] = Mark(SOL_MARK)
         /\ out.jackpot # "hit" =>
              \E c \in FirstCells(card, "jackpot"), t \in Tokens(card) \ SolTokens(card) :
                cells[c] = Mark(t)
<1>1. PICK line \in Lines(out.jackpot) : \A c \in FirstCells(card, "jackpot") : cells[c] = line[c]
  BY DEF LineUp
<1>2. NonSol = Tokens(card) \ SolTokens(card)
  BY ManyTokens DEF Typed, TypeOK
<1> QED  BY <1>1, <1>2, LineFacts

LEMMA MarksApart ==
  ASSUME Typed
  PROVE  \A t \in Tokens(card) \ SolTokens(card) :
           /\ Mark(t) # Mark(SOL_MARK)
           /\ \A s \in SolTokens(card) : Mark(t) # Mark(s)
<1>1. \A t \in Tokens(card) : t # SOL_MARK
  BY TokensFinite DEF SOL_MARK
<1>2. SolTokens(card) \subseteq Tokens(card)
  BY DEF SolTokens
<1> QED  BY <1>1, <1>2, Kinds

\* A line that looks won is: tokens that pass for SOL are kept off the others.
THEOREM LineReadsTrueAlways == Spec => []LineReadsTrue
<1>1. ASSUME IInv PROVE LineReadsTrue
  <2> SUFFICES ASSUME stage = "dealt"
               PROVE  (\A c \in FirstCells(card, "jackpot") :
                         cells[c] \in {Mark(SOL_MARK)} \cup {Mark(t) : t \in SolTokens(card)})
                      <=> out.jackpot = "hit"
    BY DEF LineReadsTrue
  <2>1. Typed /\ LineUp
    BY <1>1 DEF IInv
  <2>2. CASE out.jackpot = "hit"
    BY <2>1, <2>2, LineIsBand
  <2>3. CASE out.jackpot # "hit"
    <3>1. PICK c \in FirstCells(card, "jackpot"), t \in Tokens(card) \ SolTokens(card) :
            cells[c] = Mark(t)
      BY <2>1, <2>3, LineIsBand
    <3>2. cells[c] \notin {Mark(SOL_MARK)} \cup {Mark(s) : s \in SolTokens(card)}
      BY <2>1, <3>1, MarksApart
    <3> QED  BY <2>3, <3>2
  <2> QED  BY <2>2, <2>3
<1> QED  BY <1>1, IInvAlways, PTL

\* A card of the counting mode fires nothing for a token that won nothing.
THEOREM OnlyWinnersFireAlways == Spec => []OnlyWinnersFire
<1>1. ASSUME IInv PROVE OnlyWinnersFire
  <2> SUFFICES ASSUME stage = "dealt", card.mode = "count", ~Numbered,
                      NEW t \in Tokens(card), t \notin Winners
               PROVE  Firing(t) = {}
    BY DEF OnlyWinnersFire
  <2>1. Typed /\ CapsKept /\ Counting
    BY <1>1 DEF IInv, Counting
  <2>2. ASSUME NEW i \in Firing(t) PROVE FALSE
    <3>1. /\ i \in DOMAIN card.pays /\ Counts(card.pays[i], t)
          /\ Cardinality(Shown(t, card.pays[i].scope)) >= card.pays[i].min
      BY DEF Firing
    <3>2. \A k \in 1 .. planted : out.wins[k].token # t
      <4>1. 1 .. planted \subseteq DOMAIN out.wins
        BY <2>1, WinsType DEF Typed, TypeOK
      <4> QED  BY <4>1 DEF Winners, WinsIn
    <3>3. Cardinality(Shown(t, card.pays[i].scope)) < card.pays[i].min
      BY <2>1, <3>1, <3>2 DEF CapsKept
    <3>4. Cardinality(Shown(t, card.pays[i].scope)) \in Nat /\ card.pays[i].min \in Nat
      BY <2>1, <3>1, PayOk, ShownCount DEF Shown
    <3> QED  BY <3>1, <3>3, <3>4
  <2> QED  BY <2>2
<1> QED  BY <1>1, IInvAlways, PTL

LEMMA NoMultiplier == ASSUME Typed PROVE Multiplier = 1
<1>1. \A c \in Body(card) : cells[c] \in Cell
  BY BodyWithin DEF Typed, TypeOK
<1>2. \A x \in Cell : x.kind # "multiplier"
  BY DEF Cell, EMPTY, Plate, Mark, Num
<1>3. {c \in Body(card) : cells[c].kind = "multiplier"} = {}
  BY <1>1, <1>2
<1> QED  BY <1>3, Zenon DEF Multiplier

LEMMA MultipleType ==
  ASSUME Typed
  PROVE  /\ \A i \in DOMAIN card.pays :
              Multiples[i] \in Nat /\ Multiples[i] = EffectiveMult(card.pays[i])
         /\ IsFiniteSet(DOMAIN card.pays) /\ DOMAIN card.pays \subseteq Nat
<1>1. ASSUME NEW i \in DOMAIN card.pays PROVE EffectiveMult(card.pays[i]) \in Nat
  <2> DEFINE m == card.pays[i].mult
             n == card.pays[i].min
  <2>1. m \in Nat /\ n \in Nat
    BY PayOk
  <2>2. EffectiveMult(card.pays[i]) = m * (IF card.pays[i].linear THEN n ELSE 1)
    BY DEF EffectiveMult
  <2> HIDE DEF m, n
  <2>3. m * n \in Nat /\ m * 1 \in Nat
    BY <2>1
  <2> QED  BY <2>2, <2>3
<1>2. IsFiniteSet(DOMAIN card.pays) /\ DOMAIN card.pays \subseteq Nat
  <2> DEFINE n == Len(card.pays)
  <2>1. DOMAIN card.pays = 1 .. n /\ n \in Nat
    BY PaysType DEF Typed
  <2> HIDE DEF n
  <2>2. IsFiniteSet(1 .. n)
    BY <2>1, FS_Interval
  <2> QED  BY <2>1, <2>2
<1> QED  BY <1>1, <1>2 DEF Multiples

-----------------------------------------------------------------------------
(* The wins of a token, and what they are rolled to be worth *)

On(t) == {k \in DOMAIN out.wins : out.wins[k].token = t}
PaysOn(t) == {out.wins[k].pay : k \in On(t)}
Share == [k \in DOMAIN out.wins |-> Multiples[out.wins[k].pay]]

LEMMA WonShares ==
  ASSUME Typed, NEW t
  PROVE  /\ IsFiniteSet(On(t)) /\ On(t) \subseteq DOMAIN out.wins
         /\ PaysOn(t) \subseteq Live /\ PaysOn(t) \subseteq DOMAIN card.pays
         /\ IsFiniteSet(PaysOn(t))
         /\ \A k \in On(t) : Share[k] \in Nat /\ Share[k] = Multiples[out.wins[k].pay]
         /\ SumOver(Share, On(t)) = SumOver(Multiples, PaysOn(t))
         /\ SumOver(Share, On(t)) \in Nat
<1>1. On(t) \subseteq DOMAIN out.wins
  BY DEF On
<1>2. IsFiniteSet(DOMAIN out.wins)
  <2> DEFINE n == Len(out.wins)
  <2>1. DOMAIN out.wins = 1 .. n /\ n \in Nat
    BY WinsType DEF Typed
  <2> HIDE DEF n
  <2> QED  BY <2>1, FS_Interval
<1>3. IsFiniteSet(On(t))
  BY <1>1, <1>2, FS_Subset
<1>4. \A k \in DOMAIN out.wins : out.wins[k].pay \in Live /\ out.wins[k].pay \in DOMAIN card.pays
  BY WinsType DEF Typed
<1>5. \A k \in DOMAIN out.wins : Share[k] \in Nat /\ Share[k] = Multiples[out.wins[k].pay]
  BY <1>4, MultipleType DEF Share
<1> DEFINE pay == [k \in DOMAIN out.wins |-> out.wins[k].pay]
<1>6. PaysOn(t) = {pay[k] : k \in On(t)}
  BY <1>1 DEF PaysOn
<1>7. \A k, l \in On(t) : pay[k] = pay[l] => k = l
  BY <1>1, WinsApart
<1>8. \A k \in On(t) : Share[k] \in Nat /\ Multiples[pay[k]] = Share[k]
  BY <1>1, <1>5
<1> HIDE DEF pay
<1>9. SumOver(Multiples, {pay[k] : k \in On(t)}) = SumOver(Share, On(t))
  BY <1>3, <1>7, <1>8, SumRenamed
<1>10. SumOver(Multiples, PaysOn(t)) = SumOver(Share, On(t))
  BY <1>6, <1>9, Zenon
<1>11. SumOver(Share, On(t)) \in Nat
  BY <1>3, <1>8, SumNat
<1>12. PaysOn(t) \subseteq Live /\ PaysOn(t) \subseteq DOMAIN card.pays
  BY <1>1, <1>4 DEF PaysOn
<1>13. IsFiniteSet(PaysOn(t))
  BY <1>12, MultipleType, FS_Subset
<1> QED  BY <1>1, <1>3, <1>5, <1>10, <1>11, <1>12, <1>13

\* There is a mark for each token a marked win is on.
LEMMA WantedFit ==
  ASSUME Typed, card.mode = "count", ~Undermarked
  PROVE  Cardinality(Wanted) <= Marks(card)
<1>1. /\ Wanted \subseteq OnMarks /\ OnMarks \subseteq DOMAIN out.wins
      /\ \A k \in OnMarks : card.pays[out.wins[k].pay].marked
      /\ DOMAIN out.wins = 1 .. Len(out.wins) /\ Len(out.wins) \in Nat
      /\ \A k \in DOMAIN out.wins : /\ out.wins[k].pay \in Live /\ out.wins[k].pay \in DOMAIN card.pays
                                    /\ out.wins[k].token \in Drawable
  BY WinsType DEF Wanted, OnMarks, Typed
<1>2. Marks(card) \in Nat
  BY MarkCells DEF Typed, TypeOK, Valid
<1>3. CASE card.roll # "independent"
  <2>1. Len(out.wins) <= 1
    BY <1>3 DEF Typed, IsCard, Rolls
  <2>2. Wanted \subseteq {1}
    BY <1>1, <2>1
  <2>3. CASE Wanted = {}
    BY <1>2, <2>3, FS_EmptySet
  <2>4. CASE Wanted # {}
    <3>1. Wanted = {1}
      BY <2>2, <2>4
    <3>2. Cardinality(Wanted) = 1
      BY <3>1, FS_Singleton
    <3>3. Marks(card) > 0
      BY <1>1, <3>1, PayOk
    <3> QED  BY <1>2, <3>2, <3>3
  <2> QED  BY <2>3, <2>4
<1>4. CASE card.roll = "independent"
  <2> DEFINE A == {i \in Live : card.pays[i].marked}
             pay == [k \in DOMAIN out.wins |-> out.wins[k].pay]
             token == [k \in DOMAIN out.wins |-> out.wins[k].token]
  <2>1. IsFiniteSet(A)
    BY MultipleType, FS_Subset DEF Live
  <2>2. IsFiniteSet(Drawable)
    BY TokensFinite, FS_Subset DEF Drawable
  <2>3. (\A k \in Wanted : pay[k] \in A) /\ (\A k, l \in Wanted : pay[k] = pay[l] => k = l)
    BY <1>1, WinsApart
  <2>4. \A k \in Wanted : token[k] \in Drawable
    BY <1>1
  <2>5. \A k, l \in Wanted : token[k] = token[l] => k = l
    <3>1. \A k, l \in Wanted : out.wins[k].token = out.wins[l].token => k <= l /\ l <= k
      BY DEF Wanted
    <3> QED  BY <1>1, <3>1
  <2>6. Cardinality(A) <= Marks(card) \/ Cardinality(Drawable) <= Marks(card)
    <3>1. Cardinality(A) \in Nat /\ Cardinality(Drawable) \in Nat
      BY <2>1, <2>2, FS_CardinalityType
    <3>2. ~(Cardinality(A) > Marks(card)) \/ ~(Cardinality(Drawable) > Marks(card))
      BY <1>4 DEF Undermarked
    <3> QED  BY <1>2, <3>1, <3>2
  <2> HIDE DEF A, pay, token
  <2>7. Cardinality(Wanted) <= Cardinality(A) /\ Cardinality(Wanted) \in Nat /\ Cardinality(A) \in Nat
    BY <2>1, <2>3, InjectedSize
  <2>8. Cardinality(Wanted) <= Cardinality(Drawable) /\ Cardinality(Drawable) \in Nat
    BY <2>2, <2>4, <2>5, InjectedSize
  <2> QED  BY <1>2, <2>6, <2>7, <2>8
<1> QED  BY <1>3, <1>4

\* Counting: what a token fires is what it won.
LEMMA FiringIsWon ==
  ASSUME IInv, stage = "dealt", card.mode = "count", ~Numbered, ~Overlapping, ~Doubled,
         NEW t \in Tokens(card)
  PROVE  Firing(t) \subseteq PaysOn(t) /\ (~Undermarked => Firing(t) = PaysOn(t))
<1>1. /\ Typed /\ CapsKept /\ PlantedKept /\ MarksUp /\ Counting
      /\ planted = Len(out.wins)
  BY DEF IInv, Counting, LineUp
<1>2. 1 .. planted = DOMAIN out.wins
      /\ \A k \in DOMAIN out.wins : out.wins[k].pay \in Live /\ out.wins[k].pay \in DOMAIN card.pays
  BY <1>1, WinsType DEF Typed
<1>3. \A i \in DOMAIN card.pays :
        Cardinality(Shown(t, card.pays[i].scope)) \in Nat /\ card.pays[i].min \in Nat
        /\ card.pays[i].min >= 1
  BY <1>1, PayOk, ShownCount DEF Shown
<1>4. ASSUME NEW i \in Firing(t) PROVE i \in PaysOn(t)
  <2> DEFINE p == card.pays[i]
             found == Cardinality(Shown(t, p.scope))
  <2>1. /\ i \in DOMAIN card.pays /\ Counts(p, t) /\ found >= p.min
        /\ \A j \in DOMAIN card.pays :
             Rungs(card.pays[j], p) /\ card.pays[j].min <= found => card.pays[j].min <= p.min
    BY DEF Firing, Rungs
  <2>2. PICK k \in DOMAIN out.wins :
          out.wins[k].token = t /\ Rungs(Entry(k), p) /\ found = Entry(k).min
    BY <1>1, <1>2, <1>3, <2>1 DEF CapsKept
  <2>3. Entry(k) = card.pays[out.wins[k].pay] /\ out.wins[k].pay \in Live
        /\ out.wins[k].pay \in DOMAIN card.pays
    BY <1>2 DEF Entry
  <2>4. Entry(k).min <= p.min
    BY <1>3, <2>1, <2>2, <2>3
  <2>5. Entry(k).min = p.min
    BY <1>3, <2>1, <2>2, <2>3, <2>4
  <2>6. out.wins[k].pay = i
    BY <2>1, <2>2, <2>3, <2>5 DEF Doubled
  <2> QED  BY <2>2, <2>6 DEF PaysOn, On
<1>5. ASSUME ~Undermarked, NEW k \in DOMAIN out.wins, out.wins[k].token = t
      PROVE  out.wins[k].pay \in Firing(t)
  <2> DEFINE i == out.wins[k].pay
             p == card.pays[i]
  <2>1. i \in DOMAIN card.pays /\ Entry(k) = p /\ p.marked \in BOOLEAN
    BY <1>1, <1>2, PayOk DEF Entry
  <2>2. Cardinality(Wanted) <= Marks(card)
    BY <1>1, <1>5, WantedFit
  <2>3. Counts(p, t)
    <3>1. ASSUME p.marked PROVE IsMarked(t)
      <4>1. k \in OnMarks
        BY <3>1 DEF OnMarks
      <4> QED  BY <1>1, <1>5, <2>2, <4>1 DEF MarksUp
    <3> QED  BY <3>1 DEF Counts
  <2>4. Cardinality(Shown(t, p.scope)) = p.min
    BY <1>1, <1>2, <1>5, <2>1, <2>3 DEF PlantedKept
  <2> HIDE DEF i
  <2>5. p.min > 0 /\ Cardinality(Shown(t, p.scope)) >= p.min
    BY <1>3, <2>1, <2>4
  <2>6. \A j \in DOMAIN card.pays :
          card.pays[j].min <= Cardinality(Shown(t, p.scope)) => card.pays[j].min <= p.min
    BY <2>4
  <2>7. i \in Firing(t)
    BY <2>1, <2>3, <2>5, <2>6 DEF Firing
  <2> QED  BY <2>7 DEF i
<1> QED  BY <1>4, <1>5 DEF PaysOn, On

\* Duels: those the player's number wins are the wins', each over one prize.
LEMMA DuelsAreWon ==
  ASSUME IInv, stage = "dealt", card.mode = "compare", ~DrawsWin, ~Straddling,
         NEW t \in Tokens(card)
  PROVE  SumOver([d \in Duels |-> DuelMult(d)], WonDuels(t)) = SumOver(Share, On(t))
<1>1. Typed /\ Duelled
  BY DEF IInv
<1>2. card.duel.strict
  BY DEF DrawsWin
<1>3. /\ DOMAIN out.wins \subseteq Nat
      /\ \A k \in DOMAIN out.wins : /\ out.wins[k].pay \in Live /\ out.wins[k].pay \in DOMAIN card.pays
                                    /\ Entry(k) = card.pays[out.wins[k].pay]
  BY <1>1, WinsType DEF Typed, Entry
<1> DEFINE h == [k \in DOMAIN out.wins |-> CHOOSE d \in Duels : Prize(d) \in Entry(k).scope]
           mult == [d \in Duels |-> DuelMult(d)]
<1>4. ASSUME NEW k \in DOMAIN out.wins
      PROVE  /\ h[k] \in Duels /\ Prize(h[k]) \in Entry(k).scope
             /\ \A d \in Duels : Prize(d) \in Entry(k).scope => d = h[k]
             /\ \A j \in 1 .. out.wins[k].pay - 1 : Prize(h[k]) \notin card.pays[j].scope
  <2> DEFINE prizes == {d \in Duels : Prize(d) \in card.pays[out.wins[k].pay].scope}
  <2>1. /\ Cardinality(prizes) = 1
        /\ \A j \in 1 .. out.wins[k].pay - 1, d \in prizes : Prize(d) \notin card.pays[j].scope
    BY <1>3 DEF Straddling
  <2>2. IsFiniteSet(prizes)
    BY <1>1, DuelCells, FS_Subset DEF Typed, TypeOK
  <2>3. PICK d : prizes = {d}
    <3> HIDE DEF prizes
    <3> QED  BY <2>1, <2>2, FS_Singleton
  <2>4. d \in Duels /\ Prize(d) \in Entry(k).scope
        /\ \A e \in Duels : Prize(e) \in Entry(k).scope => e = d
    BY <1>3, <2>3
  <2>5. h[k] = d
    BY <2>4
  <2>6. d \in prizes
    BY <2>3
  <2> HIDE DEF h, prizes
  <2> QED  BY <2>1, <2>4, <2>5, <2>6
<1> HIDE DEF h
<1>5. ASSUME NEW k \in DOMAIN out.wins, NEW l \in DOMAIN out.wins, h[k] = h[l]
      PROVE  k = l
  <2>1. ASSUME NEW a \in DOMAIN out.wins, NEW b \in DOMAIN out.wins, h[a] = h[b], a < b
        PROVE  FALSE
    <3>1. out.wins[a].pay < out.wins[b].pay
      BY <1>1, <2>1 DEF Typed, Rolls
    <3>2. out.wins[a].pay \in 1 .. out.wins[b].pay - 1
      BY <1>1, <1>3, <3>1, PaysType DEF Typed
    <3> QED  BY <1>3, <1>4, <2>1, <3>2
  <2>2. k < l \/ l < k \/ k = l
    BY <1>3
  <2> QED  BY <1>5, <2>1, <2>2
<1>6. ASSUME NEW k \in DOMAIN out.wins
      PROVE  /\ WinsDuel(h[k]) # {} /\ Min(WinsDuel(h[k])) = k
             /\ mult[h[k]] = Multiples[out.wins[k].pay]
  <2>1. k \in WinsDuel(h[k])
    BY <1>3, <1>4 DEF WinsDuel
  <2>2. Min(WinsDuel(h[k])) \in WinsDuel(h[k])
    BY <1>1, <2>1, FirstWinOfDuel
  <2>3. \A l \in WinsDuel(h[k]) : l = k
    <3> TAKE l \in WinsDuel(h[k])
    <3>1. l \in DOMAIN out.wins /\ Prize(h[k]) \in Entry(l).scope
      BY <1>3 DEF WinsDuel
    <3>2. h[k] = h[l]
      BY <1>4, <3>1
    <3> QED  BY <1>5, <3>1, <3>2
  <2> DEFINE i == out.wins[k].pay
             over == {j \in DOMAIN card.pays : Prize(h[k]) \in card.pays[j].scope}
  <2>4. i \in over /\ over \subseteq Nat
    BY <1>1, <1>3, <1>4, MultipleType
  <2>5. Min(over) \in over /\ Min(over) <= i
    BY <2>4, MinIsLeast
  <2>6. Min(over) = i
    <3> SUFFICES ASSUME Min(over) # i PROVE FALSE
      OBVIOUS
    <3>a. i \in Nat /\ Min(over) \in 1 .. Len(card.pays) /\ Len(card.pays) \in Nat
      BY <1>1, <2>4, <2>5, PaysType DEF Typed
    <3>b. \A x \in 1 .. Len(card.pays) : x <= i /\ x # i => x \in 1 .. i - 1
      BY <3>a
    <3>1. Min(over) \in 1 .. i - 1
      BY <2>5, <3>a, <3>b
    <3>2. Prize(h[k]) \in card.pays[Min(over)].scope
      BY <2>5
    <3> HIDE DEF over
    <3> QED  BY <1>4, <3>1, <3>2
  <2>7. DuelMult(h[k]) = IF over = {} THEN 1 ELSE EffectiveMult(card.pays[Min(over)])
    BY Zenon DEF DuelMult
  <2> HIDE DEF over
  <2>8. DuelMult(h[k]) = EffectiveMult(card.pays[i])
    BY <2>4, <2>6, <2>7
  <2>9. Multiples[i] = EffectiveMult(card.pays[i])
    BY <1>1, <1>3, MultipleType
  <2> QED  BY <1>4, <2>1, <2>2, <2>3, <2>8, <2>9
<1>7. \A d \in Duels :
        d \in WonDuels(t) <=> WinsDuel(d) # {} /\ cells[Prize(d)] = Plate(t)
  BY <1>1, <1>2 DEF WonDuels, Duelled
<1>8. \A d \in Duels : WinsDuel(d) # {} =>
        cells[Prize(d)] = Plate(out.wins[Min(WinsDuel(d))].token)
  BY <1>1 DEF Duelled
<1> HIDE DEF mult
<1>9. WonDuels(t) = {h[k] : k \in On(t)}
  <2>1. ASSUME NEW d \in WonDuels(t) PROVE \E k \in On(t) : d = h[k]
    <3> DEFINE k == Min(WinsDuel(d))
    <3>1. d \in Duels
      BY DEF WonDuels
    <3>2. k \in WinsDuel(d) /\ k \in DOMAIN out.wins
      BY <1>1, <1>7, <3>1, FirstWinOfDuel
    <3>3. d = h[k]
      BY <1>3, <1>4, <3>1, <3>2 DEF WinsDuel
    <3>4. Plate(out.wins[k].token) = Plate(t)
      BY <1>7, <1>8, <3>1
    <3> HIDE DEF k
    <3> QED  BY <3>2, <3>3, <3>4, Kinds DEF On
  <2>2. ASSUME NEW k \in On(t) PROVE h[k] \in WonDuels(t)
    <3>1. k \in DOMAIN out.wins /\ out.wins[k].token = t
      BY DEF On
    <3>2. h[k] \in Duels /\ WinsDuel(h[k]) # {} /\ Min(WinsDuel(h[k])) = k
      BY <1>4, <1>6, <3>1
    <3>3. cells[Prize(h[k])] = Plate(t)
      BY <1>8, <3>1, <3>2
    <3> QED  BY <1>7, <3>2, <3>3
  <2> QED  BY <2>1, <2>2
<1>10. /\ IsFiniteSet(On(t)) /\ On(t) \subseteq DOMAIN out.wins
       /\ \A k \in On(t) : Share[k] \in Nat /\ Share[k] = Multiples[out.wins[k].pay]
  BY <1>1, WonShares
<1>11. \A k \in On(t) : Share[k] \in Nat /\ mult[h[k]] = Share[k]
  BY <1>6, <1>10
<1>12. \A k, l \in On(t) : h[k] = h[l] => k = l
  BY <1>5, <1>10
<1>13. SumOver(mult, {h[k] : k \in On(t)}) = SumOver(Share, On(t))
  BY <1>10, <1>11, <1>12, SumRenamed
<1> QED  BY <1>9, <1>13, Zenon DEF mult

\* A token's winnings: its amount, over the multiples its wins are worth.
LEMMA WorthOf ==
  ASSUME Typed, NEW t \in Tokens(card), NEW s \in Nat,
         s = IF card.mode = "compare" THEN SumOver([d \in Duels |-> DuelMult(d)], WonDuels(t))
             ELSE SumOver(Multiples, Firing(t))
  PROVE  Winnings[t] = card.pool[t].amount * s /\ card.pool[t].amount \in Nat
<1> DEFINE a == card.pool[t].amount
<1>1. Winnings[t] = a * Multiplier * s
  BY Zenon DEF Winnings
<1>2. a \in Nat
  BY DEF Typed, IsCard, Tokens
<1>3. Multiplier = 1
  BY NoMultiplier
<1> HIDE DEF a
<1>4. Winnings[t] = a * 1 * s
  BY <1>1, <1>3
<1>5. a * 1 * s = a * s
  BY <1>2
<1> QED  BY <1>2, <1>4, <1>5 DEF a

\* What the cells are worth: the wins' multiples, no less on a card with marks
\* for all of them.
LEMMA WorthShares ==
  ASSUME IInv, stage = "dealt", ~Overpaying, NEW t \in Tokens(card)
  PROVE  \E s \in Nat :
           /\ Winnings[t] = card.pool[t].amount * s /\ card.pool[t].amount \in Nat
           /\ s <= SumOver(Share, On(t))
           /\ ~Undermarked => s = SumOver(Share, On(t))
<1>1. Typed /\ card.mode \in {"count", "compare"}
  BY DEF IInv, Typed, IsCard
<1>2. ~DrawsWin /\ ~Straddling /\ ~Overlapping /\ ~Doubled /\ ~Numbered
  BY DEF Overpaying
<1>3. /\ SumOver(Share, On(t)) = SumOver(Multiples, PaysOn(t)) /\ SumOver(Share, On(t)) \in Nat
      /\ IsFiniteSet(PaysOn(t)) /\ PaysOn(t) \subseteq DOMAIN card.pays
  BY <1>1, WonShares
<1>4. CASE card.mode = "compare"
  <2> DEFINE s == SumOver([d \in Duels |-> DuelMult(d)], WonDuels(t))
  <2>1. s = SumOver(Share, On(t))
    BY <1>2, <1>4, DuelsAreWon
  <2>2. s = IF card.mode = "compare" THEN SumOver([d \in Duels |-> DuelMult(d)], WonDuels(t))
             ELSE SumOver(Multiples, Firing(t))
    BY <1>4
  <2> HIDE DEF s
  <2>3. s \in Nat
    BY <1>3, <2>1
  <2>4. Winnings[t] = card.pool[t].amount * s /\ card.pool[t].amount \in Nat
    BY <1>1, <2>2, <2>3, WorthOf
  <2> QED  BY <2>1, <2>3, <2>4
<1>5. CASE card.mode = "count"
  <2> DEFINE s == SumOver(Multiples, Firing(t))
  <2>1. Firing(t) \subseteq PaysOn(t) /\ (~Undermarked => Firing(t) = PaysOn(t))
    BY <1>2, <1>5, FiringIsWon
  <2>2. s = IF card.mode = "compare" THEN SumOver([d \in Duels |-> DuelMult(d)], WonDuels(t))
             ELSE SumOver(Multiples, Firing(t))
    BY <1>5
  <2>3. \A i \in PaysOn(t) : Multiples[i] \in Nat
    BY <1>1, <1>3, MultipleType
  <2>4. s <= SumOver(Multiples, PaysOn(t))
    BY <1>3, <2>1, <2>3, SumSubset
  <2>5. s \in Nat
    <3>1. IsFiniteSet(Firing(t))
      BY <1>3, <2>1, FS_Subset
    <3> QED  BY <2>1, <2>3, <3>1, SumNat
  <2>6. ~Undermarked => s = SumOver(Multiples, PaysOn(t))
    BY <2>1, Zenon
  <2> HIDE DEF s
  <2>7. Winnings[t] = card.pool[t].amount * s /\ card.pool[t].amount \in Nat
    BY <1>1, <2>2, <2>5, WorthOf
  <2> QED  BY <1>3, <2>4, <2>5, <2>6, <2>7
<1> QED  BY <1>1, <1>4, <1>5

LEMMA RolledIs ==
  ASSUME Typed, NEW t \in Tokens(card)
  PROVE  Rolled[t] = card.pool[t].amount * out.tier * SumOver(Share, On(t))
<1>1. Share = [k \in DOMAIN out.wins |-> Multiples[out.wins[k].pay]]
  BY DEF Share
<1>2. On(t) = {k \in DOMAIN out.wins : out.wins[k].token = t}
  BY DEF On
<1> QED  BY <1>1, <1>2, Zenon DEF Rolled

\* The crate's guarantee: on every card but of the shapes named, whatever is
\* rolled and however it is rendered, the cells are worth what was rolled and
\* the line is won on a hit and on nothing else.
THEOREM ShowsWhatItRolledAlways == Spec => []ShowsWhatItRolled
<1>1. ASSUME IInv PROVE ShowsWhatItRolled
  <2> SUFFICES ASSUME stage = "dealt", ~Tiered, ~Undermarked, ~Overpaying
               PROVE  Winnings = Rolled /\ (LineWon <=> out.jackpot = "hit")
    BY DEF ShowsWhatItRolled
  <2>1. Typed /\ LineUp
    BY <1>1 DEF IInv
  <2>2. out.tier = 1
    BY <2>1 DEF Typed, Rolls, Tiered
  <2>3. \A t \in Tokens(card) : Winnings[t] = Rolled[t]
    <3> TAKE t \in Tokens(card)
    <3>1. PICK s \in Nat :
           /\ Winnings[t] = card.pool[t].amount * s /\ card.pool[t].amount \in Nat
           /\ s = SumOver(Share, On(t))
      BY <1>1, WorthShares
    <3> DEFINE a == card.pool[t].amount
    <3>2. Rolled[t] = a * 1 * s
      BY <2>1, <2>2, <3>1, RolledIs
    <3>3. a \in Nat /\ Winnings[t] = a * s
      BY <3>1
    <3> HIDE DEF a
    <3>4. a * 1 * s = a * s
      BY <3>3
    <3> QED  BY <3>2, <3>3, <3>4
  <2>4. Winnings = Rolled
    <3>1. Winnings = [t \in Tokens(card) |-> Winnings[t]]
      BY Zenon DEF Winnings
    <3>2. Rolled = [t \in Tokens(card) |-> Rolled[t]]
      BY Zenon DEF Rolled
    <3> QED  BY <2>3, <3>1, <3>2
  <2>5. FirstCells(card, "jackpot")
          = CellCount(card) - card.blocks[Len(card.blocks)].count + 1 .. CellCount(card)
    <3> DEFINE n == card.blocks[Len(card.blocks)].count
    <3>1. /\ BodyLen(card) \in Nat /\ CellCount(card) \in Nat
          /\ CellCount(card) = BodyLen(card) + n
          /\ FirstCells(card, "jackpot") = BodyLen(card) + 1 .. CellCount(card)
      BY <2>1, BodyFirst DEF Typed, TypeOK, Valid
    <3>2. n \in Nat
      BY <2>1, BodyFirst, BlocksType DEF Typed, TypeOK, Valid
    <3> HIDE DEF n
    <3>3. CellCount(card) - n = BodyLen(card)
      BY <3>1, <3>2
    <3> QED  BY <3>1, <3>3 DEF n
  <2>6. LineWon <=> \A c \in FirstCells(card, "jackpot") : cells[c] = Mark(SOL_MARK)
    BY <2>5, Zenon DEF LineWon
  <2>7. LineWon <=> out.jackpot = "hit"
    <3>1. CASE out.jackpot = "hit"
      BY <2>1, <2>6, <3>1, LineIsBand
    <3>2. CASE out.jackpot # "hit"
      <4>1. PICK c \in FirstCells(card, "jackpot"), t \in Tokens(card) \ SolTokens(card) :
              cells[c] = Mark(t)
        BY <2>1, <3>2, LineIsBand
      <4>2. cells[c] # Mark(SOL_MARK)
        BY <2>1, <4>1, MarksApart
      <4> QED  BY <2>6, <3>2, <4>2
    <3> QED  BY <3>1, <3>2
  <2> QED  BY <2>4, <2>7
<1> QED  BY <1>1, IInvAlways, PTL

-----------------------------------------------------------------------------
(* The float *)

\* A token's wins are worth no more than the most one deal can pay of it.
LEMMA SharesCovered ==
  ASSUME Typed, NEW t \in Tokens(card)
  PROVE  /\ On(t) # {} => t \in Drawable
         /\ TopMultiple \in Nat /\ SumOver(Share, On(t)) <= TopMultiple
<1> DEFINE Values == {Multiples[i] : i \in Live}
<1>1. /\ PaysOn(t) \subseteq Live /\ PaysOn(t) \subseteq DOMAIN card.pays /\ IsFiniteSet(PaysOn(t))
      /\ SumOver(Share, On(t)) = SumOver(Multiples, PaysOn(t))
      /\ On(t) \subseteq DOMAIN out.wins
  BY WonShares
<1>2. Live \subseteq DOMAIN card.pays /\ IsFiniteSet(Live)
      /\ \A i \in Live : Multiples[i] \in Nat
  BY MultipleType, FS_Subset DEF Live
<1>3. On(t) # {} => t \in Drawable
  BY WinsType DEF On, Typed
<1>4. CASE Live = {}
  <2>1. PaysOn(t) = {}
    BY <1>1, <1>4
  <2>2. SumOver(Multiples, PaysOn(t)) = 0
    BY <2>1, SumEmpty
  <2>3. TopMultiple = 0
    BY <1>4 DEF TopMultiple
  <2> QED  BY <1>1, <1>3, <2>2, <2>3
<1>5. CASE Live # {} /\ card.roll = "independent"
  <2>1. TopMultiple = SumOver(Multiples, Live)
    BY <1>5, Zenon DEF TopMultiple
  <2>2. SumOver(Multiples, Live) \in Nat
    BY <1>2, SumNat
  <2>3. SumOver(Multiples, PaysOn(t)) <= SumOver(Multiples, Live)
    BY <1>1, <1>2, SumSubset
  <2> QED  BY <1>1, <1>3, <2>1, <2>2, <2>3
<1>6. CASE Live # {} /\ card.roll # "independent"
  <2>1. TopMultiple = Max(Values)
    BY <1>6, Zenon DEF TopMultiple
  <2>2. Values \subseteq Nat /\ Values # {} /\ IsFiniteSet(Values)
    BY <1>2, <1>6, ImageSize
  <2> HIDE DEF Values
  <2>3. Max(Values) \in Values /\ \A m \in Values : Max(Values) >= m
    BY <2>2, MaxIsLargest
  <2>4. Max(Values) \in Nat
    BY <2>2, <2>3
  <2>5. CASE PaysOn(t) = {}
    <3>1. SumOver(Multiples, PaysOn(t)) = 0
      BY <2>5, SumEmpty
    <3> QED  BY <1>1, <1>3, <2>1, <2>4, <3>1
  <2>6. CASE PaysOn(t) # {}
    <3>1. Len(out.wins) <= 1 /\ Len(out.wins) \in Nat /\ DOMAIN out.wins = 1 .. Len(out.wins)
      BY <1>6, WinsType DEF Typed, IsCard, Rolls
    <3>2. DOMAIN out.wins \subseteq {1}
      BY <3>1
    <3>3. PaysOn(t) = {out.wins[1].pay}
      BY <1>1, <2>6, <3>2 DEF PaysOn
    <3> DEFINE i == out.wins[1].pay
    <3>4. i \in Live
      BY <1>1, <3>3
    <3>5. Multiples[i] \in Nat /\ Multiples[i] \in Values
      BY <1>2, <3>4 DEF Values
    <3>6. SumOver(Multiples, {i}) = Multiples[i]
      <4> HIDE DEF i
      <4> QED  BY <3>5, SumOne
    <3>7. SumOver(Multiples, PaysOn(t)) = Multiples[i]
      BY <3>3, <3>6, Zenon
    <3>8. Multiples[i] <= Max(Values)
      BY <2>3, <2>4, <3>5
    <3> HIDE DEF i
    <3> QED  BY <1>1, <1>3, <2>1, <2>4, <3>7, <3>8
  <2> QED  BY <2>5, <2>6
<1> QED  BY <1>4, <1>5, <1>6

LEMMA TopTierCovers == ASSUME Typed PROVE TopTier \in Nat /\ TopTier >= 1
<1> DEFINE T == [factor : Nat, weight : Nat]
           L == {j \in DOMAIN card.tiers : card.tiers[j].weight > 0}
           factor == [i \in DOMAIN card.tiers |-> card.tiers[i].factor]
           Values == {1} \cup {factor[i] : i \in L}
<1>1. card.tiers \in Seq(T)
  BY DEF Typed, IsCard
<1>2. DOMAIN card.tiers = 1 .. Len(card.tiers) /\ Len(card.tiers) \in Nat
      /\ \A i \in DOMAIN card.tiers : card.tiers[i] \in T
  BY <1>1, SeqFacts
<1>3. \A i \in DOMAIN card.tiers : card.tiers[i].factor \in Nat
  BY <1>2
<1>4. IsFiniteSet(L)
  <2> DEFINE n == Len(card.tiers)
  <2>1. L \subseteq 1 .. n /\ n \in Nat
    BY <1>2
  <2> HIDE DEF n, L
  <2>2. IsFiniteSet(1 .. n)
    BY <2>1, FS_Interval
  <2> QED  BY <2>1, <2>2, FS_Subset
<1>5. {card.tiers[i].factor : i \in {j \in DOMAIN card.tiers : card.tiers[j].weight > 0}}
        = {factor[i] : i \in L}
  OBVIOUS
<1>6. TopTier = Max(Values)
  BY <1>5, Zenon DEF TopTier
<1>7. \A i \in L : factor[i] \in Nat
  BY <1>3
<1> HIDE DEF L, factor
<1>8. IsFiniteSet({factor[i] : i \in L})
  BY <1>4, ImageSize
<1>9. IsFiniteSet(Values) /\ Values \subseteq Nat /\ 1 \in Values
  <2>1. IsFiniteSet({1})
    BY FS_Singleton
  <2>2. IsFiniteSet(Values)
    BY <1>8, <2>1, FS_Union
  <2> QED  BY <1>7, <2>2
<1> HIDE DEF Values
<1> QED  BY <1>6, <1>9, MaxIsLargest

\* The float the operator's tool sizes covers any one deal's winnings of a
\* token, on every card that pays no more than it rolls.
THEOREM CoveredByFloatAlways == Spec => []CoveredByFloat
<1>1. ASSUME IInv PROVE CoveredByFloat
  <2> SUFFICES ASSUME stage = "dealt", ~Overpaying, NEW t \in Tokens(card)
               PROVE  Winnings[t] <= Worst(t)
    BY DEF CoveredByFloat
  <2>1. Typed
    BY <1>1 DEF IInv
  <2>2. PICK s \in Nat :
           /\ Winnings[t] = card.pool[t].amount * s /\ card.pool[t].amount \in Nat
           /\ s <= SumOver(Share, On(t))
    BY <1>1, WorthShares
  <2>3. /\ On(t) # {} => t \in Drawable
        /\ TopMultiple \in Nat /\ SumOver(Share, On(t)) <= TopMultiple
        /\ SumOver(Share, On(t)) \in Nat /\ TopTier \in Nat /\ TopTier >= 1
    BY <2>1, SharesCovered, WonShares, TopTierCovers
  <2> DEFINE a == card.pool[t].amount
             m == TopMultiple
             x == TopTier
  <2>4. a \in Nat /\ m \in Nat /\ x \in Nat /\ x >= 1 /\ s <= m /\ Winnings[t] = a * s
    BY <2>2, <2>3
  <2>5. Worst(t) = IF t \in Drawable THEN a * m * x ELSE 0
    BY DEF Worst, Drawable
  <2>6. CASE t \notin Drawable
    <3>1. SumOver(Share, On(t)) = 0
      BY <2>3, <2>6, SumEmpty
    <3> HIDE DEF a, m, x
    <3>2. s = 0
      BY <2>2, <3>1
    <3>3. a * s = 0
      BY <2>4, <3>2
    <3> QED  BY <2>4, <2>5, <2>6, <3>3
  <2>7. CASE t \in Drawable
    <3> HIDE DEF a, m, x
    <3>1. a * s \in Nat /\ a * m \in Nat /\ a * s <= a * m
      BY <2>4, ProductLeq
    <3>2. (a * s) * 1 <= (a * m) * x
      BY <2>4, <3>1, ProductLeq
    <3>3. a * s <= a * m * x
      BY <3>1, <3>2
    <3> QED  BY <2>4, <2>5, <2>7, <3>3
  <2> QED  BY <2>6, <2>7
<1> QED  BY <1>1, IInvAlways, PTL
=============================================================================
