------------------------- MODULE ScratchCardsSafety -------------------------
(***************************************************************************)
(* The types of ScratchCards and its money and fairness invariants, proved *)
(* for every value of its constants.                                       *)
(*                                                                         *)
(* A transaction works on Live and may give back `committed`, so each fact *)
(* about the state is a predicate of such a record, and the inductive      *)
(* invariant says it of both.                                              *)
(***************************************************************************)
EXTENDS ScratchCards, FiniteSetTheorems, TLAPS

-----------------------------------------------------------------------------
(* Lemmas about the helpers *)

\* A pinned sum is a counter value.
LEMMA SatType == ASSUME NEW n \in Nat PROVE Sat(n) \in Nat
  BY ConstantsAssumption DEF Sat

\* A sum short of the limit was never pinned.
LEMMA SatExact ==
  ASSUME NEW n \in Nat, Sat(n) < WordMax
  PROVE  Sat(n) = n
  BY ConstantsAssumption DEF Sat

\* The pot's cut of a price (JACKPOT_SHARE_BP) never exceeds the price, also
\* where the product pins, so price - take does not underflow.
LEMMA TakeBound ==
  ASSUME NEW p \in Nat
  PROVE  Take(p) \in Nat /\ Take(p) <= p
<1>1. p * 1000 \in Nat
  OBVIOUS
<1>2. Sat(p * 1000) \in Nat /\ Sat(p * 1000) <= p * 1000
  BY <1>1, ConstantsAssumption DEF Sat
<1>3. ASSUME NEW q \in Nat, q <= p * 1000
      PROVE  q \div 10000 \in Nat /\ q \div 10000 <= p
  BY <1>3
<1>4. QED
  BY <1>2, <1>3 DEF Take, JACKPOT_SHARE_BP

\* Ledger arithmetic stays in the ledgers' type.
LEMMA AmountsType ==
  ASSUME NEW a \in Amounts, NEW b \in Amounts, NEW n \in Nat
  PROVE  /\ Nothing \in Amounts /\ Sols(n) \in Amounts /\ Add(a, b) \in Amounts
         /\ Covers(a, b) => Less(a, b) \in Amounts
  BY DEF Amounts, Nothing, Sols, Add, Covers, Less

\* Counting in a fixed table keeps the table.
LEMMA CountType ==
  ASSUME NEW S, NEW table \in [S -> Nat], NEW i
  PROVE  Count(table, i) \in [S -> Nat]
<1>1. CASE i \in S
  <2>1. table[i] + 1 \in Nat
    BY <1>1
  <2>2. Sat(table[i] + 1) \in Nat
    BY <2>1, SatType
  <2>3. QED
    BY <1>1, <2>2 DEF Count
<1>2. CASE i \notin S
  BY <1>2 DEF Count
<1>3. QED
  BY <1>1, <1>2

-----------------------------------------------------------------------------
(* Types *)

\* The empty slot is a typed card.
LEMMA NoCardType == NoCard \in Card
  BY ConstantsAssumption DEF NoCard, Card, Layout, Status, CardIds

\* So is a card carried in from an earlier build.
LEMMA OldType == ASSUME NEW c \in Carried PROVE Old(c) \in Card
  BY ConstantsAssumption DEF Old, Card, Layout, Status, CardIds

\* What a card of each layout and status carries.
MadeWell(c) ==
    /\ c.layout \in {"terms", "full"} => c.terms \in Terms
    /\ Exists(c) /\ c.status = "Revealed" => c.seed \in Seeds
    /\ Exists(c) => c.ticket \in Tickets

Made(cs) == \A u \in Users : MadeWell(cs[u])

\* TypeOK with what makes it inductive.
Typed == TypeOK /\ Made(cards) /\ Made(committed.cards)

\* A state whose parts are typed.
LEMMA LiveTypeParts ==
  ASSUME cards \in [Users -> Card], perms \in [Users -> SUBSET Members],
         purse \in [Users -> Amounts], house \in Amounts, pot \in Nat,
         vrf \subseteq Request, books \in Books, hist \in History
  PROVE  Live \in LiveType
  BY DEF LiveType, Live

\* And the other way around.
LEMMA PartsType ==
  ASSUME TypeOK
  PROVE  /\ cards \in [Users -> Card] /\ perms \in [Users -> SUBSET Members]
         /\ purse \in [Users -> Amounts] /\ house \in Amounts /\ pot \in Nat
         /\ vrf \subseteq Request /\ books \in Books /\ hist \in History
         /\ shelf \in [CardIds -> Terms] /\ count \in 0 .. MaxCards
         /\ receipts \subseteq Receipt
  BY DEF TypeOK, LiveType, Live

\* The empty slot and a carried card carry what they promise.
LEMMA NoCardMade == MadeWell(NoCard)
  BY DEF MadeWell, NoCard, Exists

\* A carried card's terms and seed are real ones.
LEMMA OldMade == ASSUME NEW c \in Carried PROVE MadeWell(Old(c))
  BY ConstantsAssumption DEF MadeWell, Old, Exists, Tickets, Status

\* The initial states are typed.
LEMMA InitTyped == Init => Typed
<1> SUFFICES ASSUME Init PROVE Typed
  OBVIOUS
<1>1. cards \in [Users -> Card]
  BY NoCardType, OldType DEF Init
<1>2. perms \in [Users -> SUBSET Members]
  BY ConstantsAssumption DEF Init
<1>3. Nothing \in Amounts
  BY DEF Nothing, Amounts
<1>4. books \in Books
  BY <1>3 DEF Init, Books
<1>5. \A i \in CardIds : Cardinality(Outstanding(cards, i)) \in Nat
  BY FS_Subset, FS_CardinalityType, ConstantsAssumption DEF Outstanding
<1>6. hist \in History
  <2>1. [u \in Users |-> cards[u].ticket] \in [Users -> 0 .. MaxBuys]
    BY <1>1 DEF Card
  <2>2. QED
    BY <1>3, <1>5, <2>1 DEF Init, History
<1>7. /\ purse \in [Users -> Amounts] /\ house \in Amounts /\ pot \in Nat
      /\ vrf \subseteq Request
  BY ConstantsAssumption DEF Init
<1>8. Live \in LiveType
  BY <1>1, <1>2, <1>4, <1>6, <1>7, LiveTypeParts
<1>9. committed = Live
  BY DEF Init
<1>10. shelf \in [CardIds -> Terms] /\ count \in 0 .. MaxCards
  BY ConstantsAssumption DEF Init
<1>11. /\ receipts = {} /\ open = FALSE /\ room = 0
       /\ 0 \in 0 .. MaxInstructions
  BY ConstantsAssumption DEF Init
<1>12. TypeOK
  <2>1. committed \in LiveType
    BY <1>8, <1>9
  <2>2. QED
    BY <1>8, <1>9, <1>10, <1>11, <2>1 DEF TypeOK
<1>13. Made(cards)
  BY NoCardMade, OldMade DEF Init, Made
<1>14. QED
  BY <1>9, <1>12, <1>13 DEF Typed, Live

\* An instruction of a transaction that types the working state and the
\* receipts types everything.
LEMMA InstructionTyped ==
  ASSUME Typed, Instruction, receipts' \subseteq Receipt, Live' \in LiveType,
         Made(cards)'
  PROVE  Typed'
<1>1. committed' \in LiveType /\ Made(committed.cards)'
  BY DEF Typed, TypeOK, Instruction
<1>2. room' \in 0 .. MaxInstructions
  BY ConstantsAssumption DEF Typed, TypeOK, Instruction
<1>3. QED
  BY <1>1, <1>2 DEF Typed, TypeOK, Instruction

\* So does a transaction of one instruction.
LEMMA SingleTyped ==
  ASSUME Typed, Single, Keep, Live' \in LiveType, Made(cards)',
         shelf' \in [CardIds -> Terms], count' \in 0 .. MaxCards
  PROVE  Typed'
<1>1. committed' \in LiveType /\ Made(committed.cards)'
  BY DEF Keep, Live
<1>2. QED
  BY <1>1 DEF Typed, TypeOK, Single, Keep

\* The receipt a purchase asks for.
LEMMA RequestPurchaseTyped ==
  ASSUME Typed, NEW k \in Keys, NEW u \in Users, NEW i \in CardIds,
         RequestPurchase(k, u, i)
  PROVE  Typed'
<1> DEFINE price == shelf[i].price
           r == [key |-> k, user |-> u, kind |-> "purchase",
                 card_id |-> i, toHouse |-> ToHouse(price),
                 toPot |-> Take(price), wins |-> Nothing, fromPot |-> 0]
<1>1. price \in Nat
  BY ConstantsAssumption DEF Typed, TypeOK
<1>2. ToHouse(price) \in Nat /\ Take(price) \in Nat
  BY <1>1, TakeBound DEF ToHouse
<1>3. Nothing \in Amounts
  BY DEF Nothing, Amounts
<1>4. r \in Receipt
  BY <1>2, <1>3 DEF Receipt
<1>5. receipts' = receipts \cup {r}
  BY DEF RequestPurchase, CreateReceipt
<1>6. receipts' \subseteq Receipt
  BY <1>4, <1>5 DEF Typed, TypeOK
<1>7. Live' \in LiveType /\ Made(cards)'
  BY DEF Typed, TypeOK, RequestPurchase, LiveType, Live, Made
<1>8. QED
  BY <1>6, <1>7, InstructionTyped DEF RequestPurchase

\* What the engine deals a revealed card.
LEMMA DealType ==
  ASSUME Typed, NEW u \in Users, Exists(cards[u]), cards[u].status = "Revealed"
  PROVE  Winnings[PricedBy(cards[u])][cards[u].seed] \in Wins
<1>1. cards[u] \in Card /\ MadeWell(cards[u])
  BY PartsType DEF Typed, Made
<1>2. cards[u].seed \in Seeds
  BY <1>1 DEF MadeWell
<1>3. PricedBy(cards[u]) \in Terms
  BY <1>1, PartsType DEF Typed, PricedBy, MadeWell, Card, Layout, Exists
<1>4. QED
  BY <1>2, <1>3, ConstantsAssumption

\* The receipt a collect asks for.
LEMMA RequestCollectTyped ==
  ASSUME Typed, NEW k \in Keys, NEW u \in Users, RequestCollect(k, u)
  PROVE  Typed'
<1> DEFINE won == Winnings[PricedBy(cards[u])][cards[u].seed]
           r == [key |-> k, user |-> u, kind |-> "collect",
                 card_id |-> cards[u].card_id, toHouse |-> 0, toPot |-> 0,
                 wins |-> won.amounts,
                 fromPot |-> IF won.jackpot THEN pot ELSE 0]
<1>1. won \in Wins
  BY DealType DEF RequestCollect, Collectable, Won
<1>2. won.amounts \in Amounts
  BY <1>1 DEF Wins
<1>3. cards[u].card_id \in CardIds /\ pot \in Nat
  BY PartsType DEF Typed, Card
<1>4. r \in Receipt
  <2> HIDE DEF won
  <2>1. QED
    BY <1>2, <1>3 DEF Receipt
<1>5. receipts' = receipts \cup {r}
  BY DEF RequestCollect, Collectable, Won, CreateReceipt
<1>6. receipts' \subseteq Receipt
  BY <1>4, <1>5 DEF Typed, TypeOK
<1>7. Live' \in LiveType /\ Made(cards)'
  BY DEF Typed, TypeOK, RequestCollect, Collectable, Won, LiveType, Live, Made
<1>8. QED
  BY <1>6, <1>7, InstructionTyped DEF RequestCollect, Collectable, Won

\* A request for randomness and the card it marks.
LEMMA RequestRevealTyped ==
  ASSUME Typed, NEW u \in Users, RequestReveal(u)
  PROVE  Typed'
<1>1. cards[u] \in Card /\ cards \in [Users -> Card]
  BY PartsType DEF Typed
<1>2. cards' \in [Users -> Card]
  BY <1>1 DEF RequestReveal, Card, Status
<1>3. [user |-> u, generation |-> cards[u].generation,
       ticket |-> cards[u].ticket] \in Request
  BY <1>1 DEF Card, Request
<1>4. vrf' \subseteq Request
  BY <1>3, PartsType DEF Typed, RequestReveal
<1>5. Made(cards)'
  BY <1>1 DEF Typed, Made, MadeWell, RequestReveal, Exists, Card
<1>6. receipts' \subseteq Receipt
  BY PartsType DEF Typed, RequestReveal
<1>7. Live' \in LiveType
  BY <1>2, <1>4, PartsType DEF Typed, RequestReveal, LiveType, Live
<1>8. QED
  BY <1>5, <1>6, <1>7, InstructionTyped DEF RequestReveal

\* A purchase that settles: the debit, the card, its readers, the counters.
LEMMA SettlePurchaseTyped ==
  ASSUME Typed, NEW r \in receipts, SettlePurchase(r)
  PROVE  Typed'
<1> DEFINE price == shelf[r.card_id].price
           c == cards[r.user]
<1>1. r \in Receipt /\ receipts \subseteq Receipt
  BY PartsType DEF Typed
<1>2. /\ r.user \in Users /\ r.card_id \in CardIds
      /\ r.toHouse \in Nat /\ r.toPot \in Nat
  BY <1>1 DEF Receipt
<1>3. shelf[r.card_id] \in Terms /\ price \in Nat
  BY <1>2, PartsType, ConstantsAssumption DEF Typed
<1>4. c \in Card /\ hist.bought[r.user] \in 0 .. MaxBuys
  BY <1>2, PartsType DEF Typed, History
<1>5. hist.bought[r.user] + 1 \in Tickets
  BY <1>4, ConstantsAssumption DEF SettlePurchase, PurchaseClears, CanBuy, Tickets
<1>6. Bought(r) \in Card
  <2>1. /\ c.seed \in Seeds \cup {NoSeed} /\ c.generation + 1 \in Nat
        /\ c.drawn \in 0 .. MaxBuys /\ r.toHouse + r.toPot \in Nat
    BY <1>2, <1>4 DEF Card
  <2>2. hist.bought[r.user] + 1 \in 0 .. MaxBuys
    BY <1>5 DEF Tickets
  <2>3. QED
    BY <1>2, <1>3, <2>1, <2>2 DEF Bought, Card, Layout, Status
<1>7. MadeWell(Bought(r))
  BY <1>3, <1>5 DEF MadeWell, Bought, Exists
<1>8. cards' \in [Users -> Card] /\ Made(cards)'
  BY <1>6, <1>7, PartsType DEF Typed, SettlePurchase, PurchaseClears, Made
<1>9. purse' \in [Users -> Amounts]
  <2>1. purse[r.user] \in Amounts
    BY <1>2, PartsType DEF Typed
  <2>2. Covers(purse[r.user], Sols(r.toHouse + r.toPot))
    BY <1>2, <2>1 DEF SettlePurchase, PurchaseClears, Covers, Sols, Amounts
  <2>3. r.toHouse + r.toPot \in Nat
    BY <1>2
  <2>4. Sols(r.toHouse + r.toPot) \in Amounts
    BY <2>1, <2>3, AmountsType
  <2>5. Less(purse[r.user], Sols(r.toHouse + r.toPot)) \in Amounts
    BY <2>1, <2>2, <2>4, AmountsType
  <2>6. QED
    BY <2>5, PartsType DEF Typed, SettlePurchase, PurchaseClears
<1>10. house' \in Amounts /\ pot' \in Nat
  <2>1. house \in Amounts /\ pot \in Nat
    BY PartsType DEF Typed
  <2>2. Sols(r.toHouse) \in Amounts
    BY <1>2, <2>1, AmountsType
  <2>3. Add(house, Sols(r.toHouse)) \in Amounts
    BY <2>1, <2>2, AmountsType
  <2>4. QED
    BY <1>2, <2>1, <2>3 DEF SettlePurchase, PurchaseClears
<1>11. perms' \in [Users -> SUBSET Members]
  BY <1>2, PartsType DEF Typed, SettlePurchase, PurchaseClears, Upgraded
<1>12. books' \in Books
  <2>1. books \in Books
    BY PartsType DEF Typed
  <2>2. /\ Sat(books.lamports_in + price) \in Nat
        /\ Sat(books.jackpot_in + Take(price)) \in Nat
    <3>1. Take(price) \in Nat
      BY <1>3, TakeBound
    <3>2. /\ books.lamports_in + price \in Nat
          /\ books.jackpot_in + Take(price) \in Nat
      BY <1>3, <2>1, <3>1 DEF Books
    <3>3. QED
      BY <3>2, SatType
  <2>3. Count(books.cards_sold, r.card_id) \in [0 .. CARD_SLOTS - 1 -> Nat]
    BY <2>1, CountType DEF Books
  <2>4. QED
    BY <2>1, <2>2, <2>3 DEF SettlePurchase, PurchaseClears, CountSale, Books
<1>13. hist' \in History
  <2>1. hist.bought[r.user] + 1 \in 0 .. MaxBuys
    BY <1>5 DEF Tickets
  <2>2. QED
    BY <1>2, <2>1, PartsType DEF Typed, SettlePurchase, PurchaseClears, History
<1>14. Live' \in LiveType
  BY <1>8, <1>9, <1>10, <1>11, <1>12, <1>13, PartsType
     DEF Typed, SettlePurchase, PurchaseClears, LiveType, Live
<1>15. QED
  BY <1>1, <1>8, <1>14, InstructionTyped DEF SettlePurchase, PurchaseClears

\* A collect that settles.
LEMMA SettleCollectTyped ==
  ASSUME Typed, NEW r \in receipts, SettleCollect(r)
  PROVE  Typed'
<1> DEFINE c == cards[r.user]
           counted == IF c.layout = "short" THEN Nothing
                      ELSE Winnings[c.terms][c.seed].amounts
<1>1. r \in Receipt /\ receipts \subseteq Receipt
  BY PartsType DEF Typed
<1>2. r.user \in Users /\ r.wins \in Amounts /\ r.fromPot \in Nat
  BY <1>1 DEF Receipt
<1>3. c \in Card /\ MadeWell(c) /\ Exists(c) /\ c.status = "Revealed"
  BY <1>2, PartsType DEF Typed, Made, SettleCollect, CollectClears, Unpaid
<1>4. cards' \in [Users -> Card] /\ Made(cards)'
  BY <1>2, <1>3, PartsType
     DEF Typed, SettleCollect, CollectClears, Made, MadeWell, Card, Status, Exists
<1>5. house' \in Amounts /\ pot' \in Nat
  <2>1. house \in Amounts /\ pot \in Nat
    BY PartsType DEF Typed
  <2>2. Less(house, r.wins) \in Amounts
    BY <1>2, <2>1, AmountsType DEF SettleCollect, CollectClears
  <2>3. house' = Less(house, r.wins) /\ pot' = pot - r.fromPot /\ r.fromPot <= pot
    BY DEF SettleCollect, CollectClears
  <2>4. QED
    BY <1>2, <2>1, <2>2, <2>3
<1>6. purse' \in [Users -> Amounts]
  <2>1. purse[r.user] \in Amounts
    BY <1>2, PartsType DEF Typed
  <2>2. Add(purse[r.user], r.wins) \in Amounts
    BY <1>2, <2>1, AmountsType
  <2>3. Add(Add(purse[r.user], r.wins), Sols(r.fromPot)) \in Amounts
    BY <1>2, <2>2, AmountsType
  <2>4. QED
    BY <2>3, PartsType DEF Typed, SettleCollect, CollectClears
<1>7. counted \in Amounts
  <2>1. CASE c.layout = "short"
    BY <2>1 DEF Nothing, Amounts
  <2>2. CASE c.layout # "short"
    <3>1. c.terms \in Terms /\ c.seed \in Seeds
      BY <1>3, <2>2 DEF MadeWell, Card, Layout, Exists
    <3>2. Winnings[c.terms][c.seed] \in Wins
      BY <3>1, ConstantsAssumption
    <3>3. QED
      BY <2>2, <3>2 DEF Wins
  <2>3. QED
    BY <2>1, <2>2
<1>8. PICK new \in NewRows(counted) :
        /\ books' = CountCollect(c, counted, books.rows \cup new, r.fromPot)
        /\ hist' = [hist EXCEPT
             !.paid[r.user][c.ticket] = @ + 1,
             !.unbooked = [m \in Mints |->
                IF c.layout # "short" /\ m \in books.rows \cup new
                THEN @[m] ELSE @[m] + r.wins[m]],
             !.termless = IF c.layout = "short" THEN Add(@, r.wins) ELSE @]
  BY DEF SettleCollect, CollectClears
<1>9. books \in Books /\ hist \in History
  BY PartsType DEF Typed
<1>10. books' \in Books
  <2> HIDE DEF counted
  <2>1. new \subseteq Mints
    BY DEF NewRows
  <2>2. books.rows \cup new \in SUBSET Mints
    BY <1>9, <2>1 DEF Books
  <2>3. [m \in Mints |-> IF m \in books.rows \cup new
                         THEN Sat(books.payouts[m] + counted[m])
                         ELSE books.payouts[m]] \in Amounts
    <3>1. ASSUME NEW m \in Mints
          PROVE  /\ books.payouts[m] \in Nat
                 /\ Sat(books.payouts[m] + counted[m]) \in Nat
      <4>1. books.payouts[m] \in Nat /\ books.payouts[m] + counted[m] \in Nat
        BY <1>7, <1>9 DEF Books, Amounts
      <4>2. QED
        BY <4>1, SatType
    <3>2. QED
      BY <3>1 DEF Amounts
  <2>4. /\ Sat(books.jackpot_paid + r.fromPot) \in Nat
        /\ Sat(books.jackpot_hits + 1) \in Nat
    <3>1. /\ books.jackpot_paid + r.fromPot \in Nat
          /\ books.jackpot_hits + 1 \in Nat
      BY <1>2, <1>9 DEF Books
    <3>2. QED
      BY <3>1, SatType
  <2>5. Count(books.cards_collected, c.card_id) \in [0 .. CARD_SLOTS - 1 -> Nat]
    BY <1>9, CountType DEF Books
  <2>6. QED
    BY <1>8, <1>9, <2>2, <2>3, <2>4, <2>5 DEF CountCollect, Books
<1>11. hist' \in History
  <2>1. [m \in Mints |-> IF c.layout # "short" /\ m \in books.rows \cup new
                         THEN hist.unbooked[m] ELSE hist.unbooked[m] + r.wins[m]]
          \in Amounts
    BY <1>2, <1>9 DEF History, Amounts
  <2>2. hist.paid \in [Users -> [Tickets -> Nat]]
    BY <1>9 DEF History
  <2>3. [hist.paid EXCEPT ![r.user][c.ticket] = @ + 1]
          \in [Users -> [Tickets -> Nat]]
    <3>1. c.ticket \in Tickets
      BY <1>3 DEF MadeWell
    <3>2. [hist.paid[r.user] EXCEPT ![c.ticket] = @ + 1] \in [Tickets -> Nat]
      BY <1>2, <2>2, <3>1
    <3>3. QED
      BY <1>2, <2>2, <3>2
  <2>4. (IF c.layout = "short" THEN Add(hist.termless, r.wins)
         ELSE hist.termless) \in Amounts
    BY <1>2, <1>9 DEF History, Amounts, Add
  <2>5. QED
    BY <1>8, <1>9, <2>1, <2>3, <2>4 DEF History
<1>12. Live' \in LiveType
  BY <1>4, <1>5, <1>6, <1>10, <1>11, PartsType
     DEF Typed, SettleCollect, CollectClears, LiveType, Live
<1>13. QED
  BY <1>1, <1>4, <1>12, InstructionTyped DEF SettleCollect, CollectClears

\* A transaction is kept.
LEMMA CommitTxTyped == ASSUME Typed, CommitTx PROVE Typed'
<1>1. Live' \in LiveType /\ Made(cards)' /\ committed' = Live /\ Live' = Live
  BY DEF Typed, TypeOK, CommitTx, LiveType, Live, Made
<1>2. committed' \in LiveType /\ Made(committed.cards)'
  BY <1>1 DEF Typed, TypeOK, CommitTx, LiveType, Live
<1>3. room' \in 0 .. MaxInstructions
  BY ConstantsAssumption DEF CommitTx
<1>4. QED
  BY <1>1, <1>2, <1>3 DEF Typed, TypeOK, CommitTx, NoReceiptOpen

\* A transaction is undone: the working state is the snapshot again.
LEMMA Undone == ASSUME Typed, AbortTx PROVE Live' = committed /\ committed' = committed
  BY DEF Typed, TypeOK, AbortTx, LiveType, Live

\* An undone transaction leaves typed state.
LEMMA AbortTxTyped == ASSUME Typed, AbortTx PROVE Typed'
<1>1. committed' \in LiveType /\ Made(committed.cards)'
  BY DEF Typed, TypeOK, AbortTx
<1>2. Live' \in LiveType /\ Made(cards)' /\ committed' = Live'
  BY Undone DEF Typed, TypeOK, AbortTx, Made
<1>3. room' \in 0 .. MaxInstructions
  BY ConstantsAssumption DEF AbortTx
<1>4. receipts' = {} /\ room' = 0
  BY DEF AbortTx
<1>5. QED
  BY <1>1, <1>2, <1>3, <1>4 DEF Typed, TypeOK, AbortTx

\* A transaction starts.
LEMMA BeginTxTyped == ASSUME Typed, BeginTx PROVE Typed'
<1>1. Live' = Live
  BY DEF BeginTx, Live
<1>2. room' \in 0 .. MaxInstructions
  BY ConstantsAssumption DEF BeginTx
<1>3. QED
  BY <1>1, <1>2 DEF Typed, TypeOK, BeginTx, Made

\* An answer of the oracle lands on a card.
LEMMA CallbackRevealTyped ==
  ASSUME Typed, NEW q \in vrf, NEW s \in Seeds, CallbackReveal(q, s)
  PROVE  Typed'
<1>1. /\ q.user \in Users /\ q.ticket \in 0 .. MaxBuys
      /\ cards \in [Users -> Card]
  BY PartsType DEF Typed, Request
<1>2. cards' \in [Users -> Card]
  BY <1>1 DEF CallbackReveal, Card, Status
<1>3. Made(cards)'
  BY <1>1 DEF Typed, Made, MadeWell, CallbackReveal, Exists, Card
<1>4. Live' \in LiveType
  BY <1>2, PartsType DEF Typed, CallbackReveal, LiveType, Live
<1>5. shelf' \in [CardIds -> Terms] /\ count' \in 0 .. MaxCards
  BY PartsType DEF Typed, CallbackReveal
<1>6. QED
  BY <1>3, <1>4, <1>5, SingleTyped DEF CallbackReveal

\* A request is dropped.
LEMMA LoseRequestTyped ==
  ASSUME Typed, NEW q \in vrf, LoseRequest(q)
  PROVE  Typed'
<1>1. Live' \in LiveType /\ Made(cards)'
  BY PartsType DEF Typed, LoseRequest, LiveType, Live, Made
<1>2. shelf' \in [CardIds -> Terms] /\ count' \in 0 .. MaxCards
  BY PartsType DEF Typed, LoseRequest
<1>3. QED
  BY <1>1, <1>2, SingleTyped DEF LoseRequest

\* The operator closes a card, by either instruction.
LEMMA DropTyped ==
  ASSUME Typed, NEW u \in Users, Single, Drop(u), Keep
  PROVE  Typed'
<1>1. cards \in [Users -> Card] /\ hist \in History /\ cards[u].card_id \in CardIds
  BY PartsType DEF Typed, Card
<1>2. cards' \in [Users -> Card] /\ Made(cards)'
  BY <1>1, NoCardType, NoCardMade DEF Drop, Typed, Made
<1>3. hist' \in History
  <2>1. hist.stranded \cup {q.user : q \in Owed(u)} \subseteq Users
    BY <1>1 DEF History, Owed
  <2>2. [hist.voided EXCEPT ![cards[u].card_id] =
            IF cards[u].status # "Collected" THEN @ + 1 ELSE @]
           \in [CardIds -> Nat]
    BY <1>1 DEF History
  <2>3. QED
    BY <1>1, <2>1, <2>2 DEF Drop, History
<1>4. Live' \in LiveType
  BY <1>2, <1>3, PartsType DEF Typed, Drop, LiveType, Live
<1>5. shelf' \in [CardIds -> Terms] /\ count' \in 0 .. MaxCards
  BY PartsType DEF Typed, Drop
<1>6. QED
  BY <1>2, <1>4, <1>5, SingleTyped

\* A card's readers are brought up to date.
LEMMA UpgradePermissionsTyped ==
  ASSUME Typed, NEW u \in Users, UpgradePermissions(u)
  PROVE  Typed'
<1>1. perms' \in [Users -> SUBSET Members]
  BY PartsType DEF Typed, UpgradePermissions, Upgraded
<1>2. Live' \in LiveType /\ Made(cards)'
  BY <1>1, PartsType DEF Typed, UpgradePermissions, LiveType, Live, Made
<1>3. shelf' \in [CardIds -> Terms] /\ count' \in 0 .. MaxCards
  BY PartsType DEF Typed, UpgradePermissions
<1>4. QED
  BY <1>2, <1>3, SingleTyped DEF UpgradePermissions

\* The operator publishes or re-rates a card.
LEMMA SetCardTyped ==
  ASSUME Typed, NEW i \in CardIds, NEW t \in Terms, SetCard(i, t)
  PROVE  Typed'
<1>1. Live' \in LiveType /\ Made(cards)'
  BY PartsType DEF Typed, SetCard, LiveType, Live, Made
<1>2. shelf' \in [CardIds -> Terms] /\ count' \in 0 .. MaxCards
  BY ConstantsAssumption, PartsType DEF Typed, SetCard, CardIds
<1>3. QED
  BY <1>1, <1>2, SingleTyped DEF SetCard

\* The operator adds to the house.
LEMMA TopUpTyped ==
  ASSUME Typed, NEW m \in Mints, NEW n \in Floats, TopUp(m, n)
  PROVE  Typed'
<1>1. n \in Nat /\ house \in Amounts /\ hist \in History
  BY ConstantsAssumption, PartsType DEF Typed
<1>2. house' \in Amounts
  BY <1>1 DEF TopUp, Amounts
<1>3. [hist.added EXCEPT ![m] = @ + n] \in Amounts
  BY <1>1 DEF History, Amounts
<1>4. hist' \in History
  BY <1>1, <1>3 DEF TopUp, History
<1>5. Live' \in LiveType /\ Made(cards)'
  BY <1>2, <1>4, PartsType DEF Typed, TopUp, LiveType, Live, Made
<1>6. shelf' \in [CardIds -> Terms] /\ count' \in 0 .. MaxCards
  BY PartsType DEF Typed, TopUp
<1>7. QED
  BY <1>5, <1>6, SingleTyped DEF TopUp

\* The operator takes from the house.
LEMMA WithdrawHouseTyped ==
  ASSUME Typed, NEW m \in Mints, NEW n \in Floats, WithdrawHouse(m, n)
  PROVE  Typed'
<1>1. n \in Nat /\ house \in Amounts /\ hist \in History
  BY ConstantsAssumption, PartsType DEF Typed
<1>2. house' \in Amounts
  BY <1>1 DEF WithdrawHouse, Amounts
<1>3. [hist.removed EXCEPT ![m] = @ + n] \in Amounts
  BY <1>1 DEF History, Amounts
<1>4. hist' \in History
  BY <1>1, <1>3 DEF WithdrawHouse, History
<1>5. Live' \in LiveType /\ Made(cards)'
  BY <1>2, <1>4, PartsType DEF Typed, WithdrawHouse, LiveType, Live, Made
<1>6. shelf' \in [CardIds -> Terms] /\ count' \in 0 .. MaxCards
  BY PartsType DEF Typed, WithdrawHouse
<1>7. QED
  BY <1>5, <1>6, SingleTyped DEF WithdrawHouse

\* Every step keeps the types.
LEMMA NextTyped == ASSUME Typed, [Next]_vars PROVE Typed'
<1>1. CASE UNCHANGED vars
  BY <1>1 DEF vars, Typed, TypeOK, Live, Made
<1>2. CASE BeginTx
  BY <1>2, BeginTxTyped
<1>3. CASE \E k \in Keys, u \in Users, i \in CardIds : RequestPurchase(k, u, i)
  BY <1>3, RequestPurchaseTyped
<1>4. CASE \E k \in Keys, u \in Users : RequestCollect(k, u)
  BY <1>4, RequestCollectTyped
<1>5. CASE \E u \in Users : RequestReveal(u)
  BY <1>5, RequestRevealTyped
<1>6. CASE \E r \in receipts : SettlePurchase(r)
  BY <1>6, SettlePurchaseTyped
<1>7. CASE \E r \in receipts : SettleCollect(r)
  BY <1>7, SettleCollectTyped
<1>8. CASE CommitTx
  BY <1>8, CommitTxTyped
<1>9. CASE AbortTx
  BY <1>9, AbortTxTyped
<1>10. CASE \E q \in vrf, s \in Seeds : CallbackReveal(q, s)
  BY <1>10, CallbackRevealTyped
<1>11. CASE \E q \in vrf : LoseRequest(q)
  BY <1>11, LoseRequestTyped
<1>12. CASE \E u \in Users : CloseCard(u) \/ CloseStrayCard(u)
  BY <1>12, DropTyped DEF CloseCard, CloseStrayCard
<1>13. CASE \E u \in Users : UpgradePermissions(u)
  BY <1>13, UpgradePermissionsTyped
<1>14. CASE \E i \in CardIds, t \in Terms : SetCard(i, t)
  BY <1>14, SetCardTyped
<1>15. CASE \E m \in Mints, n \in Floats : TopUp(m, n) \/ WithdrawHouse(m, n)
  BY <1>15, TopUpTyped, WithdrawHouseTyped
<1>16. QED
  BY <1>1, <1>2, <1>3, <1>4, <1>5, <1>6, <1>7, <1>8, <1>9, <1>10, <1>11,
     <1>12, <1>13, <1>14, <1>15 DEF Next

\* Every reachable state is typed, and every card carries what its layout and
\* status promise: the code's reads of a card's terms and seed never meet a
\* missing one.
THEOREM TypedAlways == Spec => []Typed
  BY InitTyped, NextTyped, PTL DEF Spec

\* Type correctness of the rollup state and of the snapshot a failed
\* transaction restores.
THEOREM TypeCorrect == Spec => []TypeOK
<1>1. Typed => TypeOK
  BY DEF Typed
<1>2. QED
  BY <1>1, TypedAlways, PTL

-----------------------------------------------------------------------------
(* Money, cards and answers *)

\* A ticket is unpaid until its card is collected, and a ticket that was not
\* bought yet was not paid either.
PaidKept(s) ==
    \A u \in Users :
      /\ \A n \in Tickets :
           /\ s.hist.paid[u][n] <= 1
           /\ n > s.hist.bought[u] => s.hist.paid[u][n] = 0
      /\ Exists(s.cards[u]) => s.cards[u].ticket <= s.hist.bought[u]
      /\ Exists(s.cards[u]) /\ s.cards[u].status # "Collected"
           => s.hist.paid[u][s.cards[u].ticket] = 0

\* PotBooks, of any record.
PotKept(s) ==
    s.books.jackpot_in < WordMax /\ s.books.jackpot_paid < WordMax =>
      s.pot + s.books.jackpot_paid = Pot0 + s.books.jackpot_in

\* HouseBooks for mint m, of any record.
HouseKept(s, m) ==
    /\ s.books.lamports_in < WordMax /\ s.books.jackpot_in < WordMax
    /\ s.books.payouts[m] < WordMax
    => s.house[m] + s.books.payouts[m] + s.hist.unbooked[m] + s.hist.removed[m]
          + Sols(s.books.jackpot_in)[m]
       = House0[m] + s.hist.added[m] + Sols(s.books.lamports_in)[m]

\* Requests a player's card could still be answered by carry no generation
\* above the card's, and the card's own generation only for its own ticket.
AnswersKept(s) ==
    \A u \in Users :
      /\ s.cards[u].layout # "full" => s.cards[u].generation = 0
      /\ u \notin s.hist.stranded =>
           /\ Exists(s.cards[u]) /\ s.cards[u].status \in {"Revealed", "Collected"}
                => s.cards[u].drawn = s.cards[u].ticket
           /\ \A q \in s.vrf :
                q.user = u =>
                  /\ q.generation <= s.cards[u].generation
                  /\ Exists(s.cards[u]) /\ q.generation = s.cards[u].generation
                       => q.ticket = s.cards[u].ticket

\* ChargedPrice and ReadersComplete, of any record.
CardsKept(s) ==
    \A u \in Users :
      s.cards[u].layout = "full" =>
        /\ s.cards[u].charged = s.cards[u].terms.price
        /\ Members \subseteq s.perms[u]

Good(s) == /\ PaidKept(s) /\ PotKept(s) /\ AnswersKept(s) /\ CardsKept(s)
           /\ \A m \in Mints : HouseKept(s, m)

\* What the settle of an open receipt will find: the price the shelf still
\* shows, and the winnings of the card as it still is.
ReceiptsFair ==
    \A r \in receipts :
      /\ r.kind = "purchase" =>
           /\ r.toPot = Take(shelf[r.card_id].price)
           /\ r.toHouse = ToHouse(shelf[r.card_id].price)
      /\ r.kind = "collect" /\ Unpaid(cards[r.user])
           /\ cards[r.user].layout # "short"
         => r.wins = Winnings[cards[r.user].terms][cards[r.user].seed].amounts

Safe == Typed /\ Good(Live) /\ Good(committed) /\ ReceiptsFair

-----------------------------------------------------------------------------
(* How steps keep it *)

\* What an instruction of a transaction has to keep.
LEMMA InstructionSafe ==
  ASSUME Safe, Instruction, Typed', Good(Live'), ReceiptsFair'
  PROVE  Safe'
<1>1. committed' = committed
  BY DEF Instruction
<1>2. Good(committed') /\ Good(Live)'
  BY <1>1 DEF Safe
<1>3. QED
  BY <1>2 DEF Safe

\* What a transaction of one instruction has to keep.
LEMMA SingleSafe ==
  ASSUME Safe, Single, Keep, Typed', Good(Live')
  PROVE  Safe'
<1>1. Good(committed')
  BY DEF Keep
<1>2. receipts' = {}
  BY DEF Safe, Typed, TypeOK, Single
<1>3. ReceiptsFair'
  BY <1>2 DEF ReceiptsFair
<1>4. QED
  BY <1>1, <1>3 DEF Safe

\* What a card may be before any purchase.
Untouched(c) == /\ c.generation = 0 /\ c.layout # "full" /\ c.ticket \in {0, 1}
                /\ Exists(c) /\ c.status \in {"Revealed", "Collected"}
                     => c.drawn = c.ticket

\* An empty slot and a carried card are untouched.
LEMMA OldUntouched ==
  /\ Untouched(NoCard)
  /\ \A c \in Carried : Untouched(Old(c))
<1>1. Untouched(NoCard)
  BY DEF Untouched, NoCard, Exists
<1>2. ASSUME NEW c \in Carried PROVE Untouched(Old(c))
  <2>1. c.layout # "full"
    BY ConstantsAssumption
  <2>2. QED
    BY <2>1 DEF Untouched, Old, Exists
<1>3. QED
  BY <1>1, <1>2

\* The initial states are safe: a carried card is its player's first ticket,
\* unpaid unless it was collected, and nothing was counted yet.
LEMMA InitSafe == Init => Safe
<1> SUFFICES ASSUME Init PROVE Safe
  OBVIOUS
<1>1. Typed
  BY InitTyped
<1>2. \A u \in Users : Untouched(cards[u])
  BY OldUntouched DEF Init
<1>3. PaidKept(Live)
  <2> SUFFICES ASSUME NEW u \in Users
               PROVE  /\ \A n \in Tickets :
                           /\ hist.paid[u][n] <= 1
                           /\ n > hist.bought[u] => hist.paid[u][n] = 0
                      /\ Exists(cards[u]) => cards[u].ticket <= hist.bought[u]
                      /\ Exists(cards[u]) /\ cards[u].status # "Collected"
                           => hist.paid[u][cards[u].ticket] = 0
    BY DEF PaidKept, Live
  <2>1. cards[u].ticket \in {0, 1}
    BY <1>2 DEF Untouched
  <2>2. /\ hist.bought[u] = cards[u].ticket
        /\ \A n \in Tickets :
             hist.paid[u][n] = IF n = cards[u].ticket /\ cards[u].status = "Collected"
                               THEN 1 ELSE 0
    BY DEF Init
  <2>3. Exists(cards[u]) => cards[u].ticket \in Tickets
    BY <1>1 DEF Typed, Made, MadeWell
  <2>4. QED
    BY <2>1, <2>2, <2>3 DEF Tickets
<1>4. PotKept(Live)
  BY ConstantsAssumption DEF Init, PotKept, Live
<1>5. AnswersKept(Live)
  <2>1. vrf = {}
    BY DEF Init
  <2>2. QED
    BY <1>2, <2>1 DEF AnswersKept, Live, Untouched
<1>6. CardsKept(Live)
  BY <1>2 DEF CardsKept, Live, Untouched
<1>7. \A m \in Mints : HouseKept(Live, m)
  <2> SUFFICES ASSUME NEW m \in Mints PROVE HouseKept(Live, m)
    OBVIOUS
  <2>1. House0[m] \in Nat
    BY ConstantsAssumption DEF Amounts
  <2>2. /\ house[m] = House0[m] /\ books.payouts[m] = 0 /\ hist.unbooked[m] = 0
        /\ hist.removed[m] = 0 /\ hist.added[m] = 0
        /\ Sols(books.jackpot_in)[m] = 0 /\ Sols(books.lamports_in)[m] = 0
    BY DEF Init, Nothing, Sols
  <2>3. QED
    BY <2>1, <2>2 DEF HouseKept, Live
<1>8. Good(Live) /\ Good(committed)
  <2>1. committed = Live
    BY DEF Init
  <2>2. QED
    BY <1>3, <1>4, <1>5, <1>6, <1>7, <2>1 DEF Good
<1>9. ReceiptsFair
  BY DEF Init, ReceiptsFair
<1>10. QED
  BY <1>1, <1>8, <1>9 DEF Safe

\* A purchase receipt carries the price on the shelf now.
LEMMA RequestPurchaseSafe ==
  ASSUME Safe, NEW k \in Keys, NEW u \in Users, NEW i \in CardIds,
         RequestPurchase(k, u, i), Typed'
  PROVE  Safe'
<1>1. Live' = Live
  BY DEF RequestPurchase, Live
<1>2. Good(Live')
  BY <1>1 DEF Safe
<1>3. ReceiptsFair'
  BY DEF Safe, ReceiptsFair, RequestPurchase, CreateReceipt, Instruction
<1>4. QED
  BY <1>2, <1>3, InstructionSafe DEF RequestPurchase

\* A collect receipt carries the winnings of the card as it is now.
LEMMA RequestCollectSafe ==
  ASSUME Safe, NEW k \in Keys, NEW u \in Users, RequestCollect(k, u), Typed'
  PROVE  Safe'
<1>1. Live' = Live
  BY DEF RequestCollect, Collectable, Won, Live
<1>2. Good(Live')
  BY <1>1 DEF Safe
<1>3. ReceiptsFair'
  <2>1. /\ shelf' = shelf /\ cards' = cards
        /\ receipts' \subseteq receipts \cup
             {r \in receipts' :
                /\ r.kind = "collect" /\ r.user = u
                /\ r.wins = Winnings[PricedBy(cards[u])][cards[u].seed].amounts}
    BY DEF RequestCollect, Collectable, Won, CreateReceipt, Instruction
  <2>2. QED
    BY <2>1 DEF Safe, ReceiptsFair, PricedBy, Unpaid
<1>4. QED
  BY <1>2, <1>3, InstructionSafe DEF RequestCollect, Collectable, Won

\* A request asks under its card's generation, for its card's ticket.
LEMMA RequestRevealSafe ==
  ASSUME Safe, NEW u \in Users, RequestReveal(u), Typed'
  PROVE  Safe'
<1>1. cards \in [Users -> Card] /\ cards[u].generation \in Nat
  BY PartsType DEF Safe, Typed, Card
<1>2. PaidKept(Live')
  BY <1>1 DEF Safe, Good, PaidKept, Live, RequestReveal, Waiting, Exists, Card
<1>3. PotKept(Live')
  BY DEF Safe, Good, PotKept, Live, RequestReveal
<1>4. AnswersKept(Live')
  BY <1>1 DEF Safe, Good, AnswersKept, Live, RequestReveal, Exists, Card
<1>5. CardsKept(Live')
  BY <1>1 DEF Safe, Good, CardsKept, Live, RequestReveal, Card
<1>6. ASSUME NEW m \in Mints PROVE HouseKept(Live', m)
  BY DEF Safe, Good, HouseKept, Live, RequestReveal
<1>7. ReceiptsFair'
  BY <1>1 DEF Safe, ReceiptsFair, RequestReveal, Instruction, Unpaid, Card
<1>8. QED
  BY <1>2, <1>3, <1>4, <1>5, <1>6, <1>7, InstructionSafe DEF RequestReveal, Good

\* A pinned counter that stayed below its limit was not pinned, and neither
\* was it before.
LEMMA SatGrows ==
  ASSUME NEW n \in Nat, NEW d \in Nat, Sat(n + d) < WordMax
  PROVE  Sat(n + d) = n + d /\ n < WordMax
  BY ConstantsAssumption DEF Sat

\* A settled purchase: the price of the receipt is the price on the shelf, so
\* what is debited, shared out, printed on the card and counted is one number.
LEMMA SettlePurchaseSafe ==
  ASSUME Safe, NEW r \in receipts, SettlePurchase(r), Typed'
  PROVE  Safe'
<1> DEFINE price == shelf[r.card_id].price
<1>1. /\ r.user \in Users /\ r.card_id \in CardIds
      /\ r.toHouse \in Nat /\ r.toPot \in Nat
  BY PartsType DEF Safe, Typed, Receipt
<1>2. /\ cards \in [Users -> Card] /\ hist \in History /\ books \in Books
      /\ perms \in [Users -> SUBSET Members] /\ house \in Amounts /\ pot \in Nat
      /\ vrf \subseteq Request
  BY PartsType DEF Safe, Typed
<1>3. price \in Nat /\ Take(price) \in Nat /\ Take(price) <= price
  BY <1>1, TakeBound, PartsType, ConstantsAssumption DEF Safe, Typed
<1>4. r.toPot = Take(price) /\ r.toHouse = price - Take(price)
  BY DEF Safe, ReceiptsFair, SettlePurchase, PurchaseClears, ToHouse
<1>5. /\ cards' = [cards EXCEPT ![r.user] = Bought(r)]
      /\ hist' = [hist EXCEPT !.bought[r.user] = @ + 1]
      /\ books' = CountSale(r.card_id, price)
      /\ perms' = [perms EXCEPT ![r.user] = Upgraded(@)]
      /\ house' = Add(house, Sols(r.toHouse)) /\ pot' = pot + r.toPot
      /\ vrf' = vrf /\ receipts' = receipts \ {r} /\ shelf' = shelf
  BY DEF SettlePurchase, PurchaseClears, Instruction
<1>6. /\ hist'.paid = hist.paid /\ hist'.stranded = hist.stranded
      /\ hist'.unbooked = hist.unbooked /\ hist'.removed = hist.removed
      /\ hist'.added = hist.added
      /\ \A u \in Users : hist'.bought[u] = IF u = r.user THEN hist.bought[u] + 1
                                            ELSE hist.bought[u]
  BY <1>1, <1>2, <1>5 DEF History
<1>7. \A u \in Users \ {r.user} : cards'[u] = cards[u] /\ perms'[u] = perms[u]
  BY <1>1, <1>2, <1>5
<1>8. /\ cards'[r.user] = Bought(r) /\ perms'[r.user] = Upgraded(perms[r.user])
  BY <1>1, <1>2, <1>5
<1>9. /\ Bought(r).layout = "full" /\ Bought(r).status = "Bought"
      /\ Bought(r).generation = cards[r.user].generation + 1
      /\ Bought(r).ticket = hist.bought[r.user] + 1
      /\ Bought(r).terms = shelf[r.card_id]
      /\ Bought(r).charged = r.toHouse + r.toPot
  BY DEF Bought
<1>10. PaidKept(Live')
  <2>1. ASSUME NEW u \in Users
        PROVE  /\ hist.paid[u] \in [Tickets -> Nat] /\ hist.bought[u] \in Nat
    BY <1>2 DEF History
  <2>2. hist.bought[r.user] + 1 \in Tickets
    <3>1. hist.bought[r.user] < MaxBuys
      BY DEF SettlePurchase, PurchaseClears, CanBuy
    <3>2. QED
      BY <1>1, <2>1, <3>1, ConstantsAssumption DEF Tickets
  <2>3. PaidKept(Live)
    BY DEF Safe, Good
  <2>4. \A n \in Tickets : n \in Nat
    BY DEF Tickets
  <2>5. hist.paid[r.user][hist.bought[r.user] + 1] = 0
    BY <1>1, <2>1, <2>2, <2>3 DEF PaidKept, Live
  <2>6. ASSUME NEW u \in Users
        PROVE  /\ \A n \in Tickets :
                    /\ hist'.paid[u][n] <= 1
                    /\ n > hist'.bought[u] => hist'.paid[u][n] = 0
               /\ Exists(cards'[u]) => cards'[u].ticket <= hist'.bought[u]
               /\ Exists(cards'[u]) /\ cards'[u].status # "Collected"
                    => hist'.paid[u][cards'[u].ticket] = 0
    <3>1. CASE u = r.user
      BY <1>6, <1>8, <1>9, <2>1, <2>3, <2>4, <2>5, <3>1 DEF PaidKept, Live
    <3>2. CASE u # r.user
      BY <1>6, <1>7, <2>3, <3>2 DEF PaidKept, Live
    <3>3. QED
      BY <3>1, <3>2
  <2>7. QED
    BY <2>6 DEF PaidKept, Live
<1>11. /\ books.lamports_in \in Nat /\ books.jackpot_in \in Nat
       /\ books.jackpot_paid \in Nat
       /\ books'.lamports_in = Sat(books.lamports_in + price)
       /\ books'.jackpot_in = Sat(books.jackpot_in + Take(price))
       /\ books'.jackpot_paid = books.jackpot_paid
       /\ books'.payouts = books.payouts
  BY <1>2, <1>5 DEF Books, CountSale
<1>12. PotKept(Live')
  <2> SUFFICES ASSUME books'.jackpot_in < WordMax, books'.jackpot_paid < WordMax
               PROVE  pot' + books'.jackpot_paid = Pot0 + books'.jackpot_in
    BY DEF PotKept, Live
  <2>1. books'.jackpot_in = books.jackpot_in + Take(price)
        /\ books.jackpot_in < WordMax
    BY <1>3, <1>11, SatGrows
  <2>2. pot + books.jackpot_paid = Pot0 + books.jackpot_in
    BY <1>11, <2>1 DEF Safe, Good, PotKept, Live
  <2>3. pot' = pot + Take(price)
    BY <1>4, <1>5
  <2>4. pot \in Nat /\ Pot0 \in Nat
    BY <1>2, ConstantsAssumption
  <2> HIDE DEF price
  <2>5. QED
    BY <1>3, <1>11, <2>1, <2>2, <2>3, <2>4
<1>13. ASSUME NEW m \in Mints PROVE HouseKept(Live', m)
  <2> SUFFICES ASSUME books'.lamports_in < WordMax, books'.jackpot_in < WordMax,
                      books'.payouts[m] < WordMax
               PROVE  house'[m] + books'.payouts[m] + hist'.unbooked[m]
                        + hist'.removed[m] + Sols(books'.jackpot_in)[m]
                      = House0[m] + hist'.added[m] + Sols(books'.lamports_in)[m]
    BY DEF HouseKept, Live
  <2>1. /\ books'.jackpot_in = books.jackpot_in + Take(price)
        /\ books.jackpot_in < WordMax
        /\ books'.lamports_in = books.lamports_in + price
        /\ books.lamports_in < WordMax
    BY <1>3, <1>11, SatGrows
  <2>2. house[m] + books.payouts[m] + hist.unbooked[m] + hist.removed[m]
          + Sols(books.jackpot_in)[m]
        = House0[m] + hist.added[m] + Sols(books.lamports_in)[m]
    BY <1>11, <2>1 DEF Safe, Good, HouseKept, Live
  <2>3. /\ house[m] \in Nat /\ books.payouts[m] \in Nat
        /\ hist.unbooked[m] \in Nat /\ hist.removed[m] \in Nat
        /\ hist.added[m] \in Nat /\ House0[m] \in Nat
    BY <1>2, ConstantsAssumption DEF Books, History, Amounts
  <2>4. CASE m = SOL
    <3>1. house'[m] = house[m] + (price - Take(price))
      BY <1>4, <1>5, <2>4 DEF Add, Sols
    <3>2. /\ Sols(books.jackpot_in)[m] = books.jackpot_in
          /\ Sols(books'.jackpot_in)[m] = books'.jackpot_in
          /\ Sols(books.lamports_in)[m] = books.lamports_in
          /\ Sols(books'.lamports_in)[m] = books'.lamports_in
      BY <2>4 DEF Sols
    <3>3. QED
      BY <1>3, <1>6, <1>11, <2>1, <2>2, <2>3, <3>1, <3>2
  <2>5. CASE m # SOL
    <3>1. house'[m] = house[m]
      BY <1>5, <2>3, <2>5 DEF Add, Sols
    <3>2. /\ Sols(books.jackpot_in)[m] = 0 /\ Sols(books'.jackpot_in)[m] = 0
          /\ Sols(books.lamports_in)[m] = 0 /\ Sols(books'.lamports_in)[m] = 0
      BY <2>5 DEF Sols
    <3>3. QED
      BY <1>6, <1>11, <2>2, <2>3, <3>1, <3>2
  <2>6. QED
    BY <2>4, <2>5
<1>14. AnswersKept(Live')
  <2>1. AnswersKept(Live)
    BY DEF Safe, Good
  <2>2. \A u \in Users : cards[u].generation \in Nat
    BY <1>2 DEF Card
  <2>3. \A q \in vrf : q.generation \in Nat
    BY <1>2 DEF Request
  <2>4. ASSUME NEW u \in Users, u = r.user
        PROVE  /\ cards'[u].layout = "full" /\ cards'[u].status = "Bought"
               /\ u \notin hist.stranded =>
                    \A q \in vrf : q.user = u => q.generation < cards'[u].generation
    BY <1>8, <1>9, <2>1, <2>2, <2>3, <2>4 DEF AnswersKept, Live
  <2>5. \A u \in Users : cards'[u].generation \in Nat
    BY <1>7, <1>8, <1>9, <2>2
  <2>6. vrf' = vrf /\ hist'.stranded = hist.stranded
    BY <1>5, <1>6
  <2>7. QED
    BY <1>7, <2>1, <2>3, <2>4, <2>5, <2>6 DEF AnswersKept, Live
<1>15. CardsKept(Live')
  <2>1. r.toHouse + r.toPot = price
    BY <1>3, <1>4
  <2>2. Members \subseteq Upgraded(perms[r.user])
    BY DEF Upgraded
  <2>3. CardsKept(Live)
    BY DEF Safe, Good
  <2>4. QED
    BY <1>7, <1>8, <1>9, <2>1, <2>2, <2>3 DEF CardsKept, Live
<1>16. ReceiptsFair'
  <2>1. ReceiptsFair /\ receipts \subseteq Receipt
    BY PartsType DEF Safe, Typed
  <2>2. QED
    BY <1>5, <1>7, <1>8, <1>9, <2>1 DEF ReceiptsFair, Unpaid, Receipt
<1>17. QED
  BY <1>10, <1>12, <1>13, <1>14, <1>15, <1>16, InstructionSafe
     DEF SettlePurchase, PurchaseClears, Good

\* A settled collect: the receipt's winnings are the ones the counters record.
LEMMA SettleCollectSafe ==
  ASSUME Safe, NEW r \in receipts, SettleCollect(r), Typed'
  PROVE  Safe'
<1> DEFINE c == cards[r.user]
           counted == IF c.layout = "short" THEN Nothing
                      ELSE Winnings[c.terms][c.seed].amounts
<1>1. /\ r.user \in Users /\ r.wins \in Amounts /\ r.fromPot \in Nat
      /\ r.kind = "collect"
  BY PartsType DEF Safe, Typed, Receipt, SettleCollect, CollectClears
<1>2. /\ cards \in [Users -> Card] /\ hist \in History /\ books \in Books
      /\ house \in Amounts /\ pot \in Nat
  BY PartsType DEF Safe, Typed
<1>3. Exists(c) /\ c.status = "Revealed" /\ c.ticket \in Tickets
  BY <1>1 DEF Safe, Typed, Made, MadeWell, SettleCollect, CollectClears, Unpaid
<1>4. c.layout # "short" => r.wins = counted
  BY <1>1, <1>3 DEF Safe, ReceiptsFair, Unpaid
<1>5. /\ cards' = [cards EXCEPT ![r.user].status = "Collected"]
      /\ house' = Less(house, r.wins) /\ pot' = pot - r.fromPot
      /\ Covers(house, r.wins) /\ r.fromPot <= pot
      /\ perms' = perms /\ vrf' = vrf /\ receipts' = receipts \ {r}
      /\ shelf' = shelf
  BY DEF SettleCollect, CollectClears, Instruction
<1>6. PICK new \in NewRows(counted) :
        /\ books' = CountCollect(c, counted, books.rows \cup new, r.fromPot)
        /\ hist' = [hist EXCEPT
             !.paid[r.user][c.ticket] = @ + 1,
             !.unbooked = [m \in Mints |->
                IF c.layout # "short" /\ m \in books.rows \cup new
                THEN @[m] ELSE @[m] + r.wins[m]],
             !.termless = IF c.layout = "short" THEN Add(@, r.wins) ELSE @]
  BY DEF SettleCollect, CollectClears
<1> DEFINE rows == books.rows \cup new
<1>7. /\ hist'.bought = hist.bought /\ hist'.stranded = hist.stranded
      /\ hist'.removed = hist.removed /\ hist'.added = hist.added
      /\ hist'.paid = [hist.paid EXCEPT ![r.user][c.ticket] = @ + 1]
      /\ hist'.unbooked = [m \in Mints |->
                IF c.layout # "short" /\ m \in rows
                THEN hist.unbooked[m] ELSE hist.unbooked[m] + r.wins[m]]
  BY <1>2, <1>6 DEF History
<1>8. /\ books'.lamports_in = books.lamports_in
      /\ books'.jackpot_in = books.jackpot_in
      /\ books'.jackpot_paid = Sat(books.jackpot_paid + r.fromPot)
      /\ books'.payouts = [m \in Mints |->
           IF m \in rows THEN Sat(books.payouts[m] + counted[m])
           ELSE books.payouts[m]]
      /\ books.jackpot_paid \in Nat /\ books.jackpot_in \in Nat
  BY <1>2, <1>6 DEF CountCollect, Books
<1>9. \A u \in Users \ {r.user} : cards'[u] = cards[u]
  BY <1>1, <1>2, <1>5
<1>10. cards'[r.user] = [c EXCEPT !.status = "Collected"] /\ c \in Card
  BY <1>1, <1>2, <1>5
<1>11. /\ cards'[r.user].status = "Collected"
       /\ cards'[r.user].layout = c.layout /\ cards'[r.user].ticket = c.ticket
       /\ cards'[r.user].drawn = c.drawn /\ cards'[r.user].terms = c.terms
       /\ cards'[r.user].generation = c.generation
       /\ cards'[r.user].charged = c.charged
  BY <1>10 DEF Card
<1> HIDE DEF c, counted, rows
<1>12. PaidKept(Live')
  <2>1. PaidKept(Live)
    BY DEF Safe, Good
  <2>2. hist.paid \in [Users -> [Tickets -> Nat]] /\ hist.bought \in [Users -> 0 .. MaxBuys]
    BY <1>2 DEF History
  <2>3. \A u \in Users, n \in Tickets :
          hist'.paid[u][n] = IF u = r.user /\ n = c.ticket THEN hist.paid[u][n] + 1
                             ELSE hist.paid[u][n]
    BY <1>1, <1>3, <1>7, <2>2
  <2>4. hist.paid[r.user][c.ticket] = 0 /\ c.ticket <= hist.bought[r.user]
    BY <1>1, <1>3, <2>1 DEF PaidKept, Live, c
  <2>5. \A n \in Tickets : n \in Nat
    BY DEF Tickets
  <2>6. ASSUME NEW u \in Users, NEW n \in Tickets
        PROVE  /\ hist'.paid[u][n] <= 1
               /\ n > hist'.bought[u] => hist'.paid[u][n] = 0
    BY <1>3, <1>7, <2>1, <2>2, <2>3, <2>4, <2>5 DEF PaidKept, Live
  <2>7. ASSUME NEW u \in Users
        PROVE  /\ Exists(cards'[u]) => cards'[u].ticket <= hist'.bought[u]
               /\ Exists(cards'[u]) /\ cards'[u].status # "Collected"
                    => hist'.paid[u][cards'[u].ticket] = 0
    <3>1. CASE u = r.user
      BY <1>7, <1>11, <2>4, <3>1
    <3>2. CASE u # r.user
      <4>1. Exists(cards[u]) => cards[u].ticket \in Tickets
        BY DEF Safe, Typed, Made, MadeWell
      <4>2. QED
        BY <1>7, <1>9, <2>1, <2>3, <3>2, <4>1 DEF PaidKept, Live
    <3>3. QED
      BY <3>1, <3>2
  <2>8. QED
    BY <2>6, <2>7 DEF PaidKept, Live
<1>13. PotKept(Live')
  <2> SUFFICES ASSUME books'.jackpot_in < WordMax, books'.jackpot_paid < WordMax
               PROVE  pot' + books'.jackpot_paid = Pot0 + books'.jackpot_in
    BY DEF PotKept, Live
  <2>1. books'.jackpot_paid = books.jackpot_paid + r.fromPot
        /\ books.jackpot_paid < WordMax
    BY <1>1, <1>8, SatGrows
  <2>2. pot + books.jackpot_paid = Pot0 + books.jackpot_in
    BY <1>8, <2>1 DEF Safe, Good, PotKept, Live
  <2>3. QED
    BY <1>1, <1>2, <1>5, <1>8, <2>1, <2>2
<1>14. ASSUME NEW m \in Mints PROVE HouseKept(Live', m)
  <2> SUFFICES ASSUME books'.lamports_in < WordMax, books'.jackpot_in < WordMax,
                      books'.payouts[m] < WordMax
               PROVE  house'[m] + books'.payouts[m] + hist'.unbooked[m]
                        + hist'.removed[m] + Sols(books'.jackpot_in)[m]
                      = House0[m] + hist'.added[m] + Sols(books'.lamports_in)[m]
    BY DEF HouseKept, Live
  <2>1. /\ house[m] \in Nat /\ books.payouts[m] \in Nat
        /\ hist.unbooked[m] \in Nat /\ hist.removed[m] \in Nat
        /\ hist.added[m] \in Nat /\ House0[m] \in Nat
        /\ r.wins[m] \in Nat /\ r.wins[m] <= house[m]
    BY <1>1, <1>2, <1>5, ConstantsAssumption DEF Books, History, Amounts, Covers
  <2>2. house'[m] = house[m] - r.wins[m]
    BY <1>5 DEF Less
  <2>3. /\ Sols(books.jackpot_in)[m] \in Nat /\ Sols(books.lamports_in)[m] \in Nat
    BY <1>2 DEF Sols, Books
  <2>4. books.payouts[m] < WordMax =>
          house[m] + books.payouts[m] + hist.unbooked[m] + hist.removed[m]
            + Sols(books.jackpot_in)[m]
          = House0[m] + hist.added[m] + Sols(books.lamports_in)[m]
    BY <1>8 DEF Safe, Good, HouseKept, Live
  <2>5. CASE c.layout # "short" /\ m \in rows
    <3>1. counted[m] = r.wins[m]
      BY <1>4, <2>5
    <3>2. books'.payouts[m] = Sat(books.payouts[m] + r.wins[m])
      BY <1>8, <2>5, <3>1
    <3>3. books'.payouts[m] = books.payouts[m] + r.wins[m]
          /\ books.payouts[m] < WordMax
      BY <2>1, <3>2, SatGrows
    <3>4. hist'.unbooked[m] = hist.unbooked[m]
      BY <1>7, <2>5
    <3>5. QED
      BY <1>7, <1>8, <2>1, <2>2, <2>3, <2>4, <3>3, <3>4
  <2>6. CASE ~(c.layout # "short" /\ m \in rows)
    <3>1. hist'.unbooked[m] = hist.unbooked[m] + r.wins[m]
      BY <1>7, <2>6
    <3>2. books'.payouts[m] = books.payouts[m]
      <4>1. CASE m \notin rows
        BY <1>8, <4>1
      <4>2. CASE m \in rows
        <5>1. c.layout = "short"
          BY <2>6, <4>2
        <5>2. counted[m] = 0
          BY <5>1 DEF counted, Nothing
        <5>3. books'.payouts[m] = Sat(books.payouts[m] + 0)
          BY <1>8, <4>2, <5>2
        <5>4. books'.payouts[m] = books.payouts[m] + 0
          BY <2>1, <5>3, SatGrows
        <5>5. QED
          BY <2>1, <5>4
      <4>3. QED
        BY <4>1, <4>2
    <3>3. QED
      BY <1>7, <1>8, <2>1, <2>2, <2>3, <2>4, <3>1, <3>2
  <2>7. QED
    BY <2>5, <2>6
<1>15. AnswersKept(Live')
  <2>1. AnswersKept(Live)
    BY DEF Safe, Good
  <2>2. \A u \in Users : /\ cards'[u].layout = cards[u].layout
                         /\ cards'[u].generation = cards[u].generation
                         /\ cards'[u].ticket = cards[u].ticket
                         /\ cards'[u].drawn = cards[u].drawn
                         /\ cards'[u].status \in {"Revealed", "Collected"} =>
                              cards[u].status \in {"Revealed", "Collected"}
    BY <1>3, <1>9, <1>11 DEF c
  <2>3. vrf' = vrf /\ hist'.stranded = hist.stranded
    BY <1>5, <1>7
  <2>4. QED
    BY <2>1, <2>2, <2>3 DEF AnswersKept, Live, Exists
<1>16. CardsKept(Live')
  BY <1>1, <1>5, <1>9, <1>11 DEF Safe, Good, CardsKept, Live, c
<1>17. ReceiptsFair'
  <2>1. ReceiptsFair /\ receipts \subseteq Receipt
    BY PartsType DEF Safe, Typed
  <2>2. QED
    BY <1>5, <1>9, <1>11, <2>1 DEF ReceiptsFair, Unpaid, Receipt
<1>18. QED
  BY <1>12, <1>13, <1>14, <1>15, <1>16, <1>17, InstructionSafe
     DEF SettleCollect, CollectClears, Good

\* Starting a transaction moves nothing.
LEMMA BeginTxSafe == ASSUME Safe, BeginTx, Typed' PROVE Safe'
<1>1. Live' = Live
  BY DEF BeginTx, Live
<1>2. ReceiptsFair'
  BY DEF Safe, ReceiptsFair, BeginTx
<1>3. QED
  BY <1>1, <1>2 DEF Safe, BeginTx

\* Keeping a transaction makes the working state the snapshot.
LEMMA CommitTxSafe == ASSUME Safe, CommitTx, Typed' PROVE Safe'
<1>1. Live' = Live /\ committed' = Live
  BY DEF CommitTx, Live
<1>2. ReceiptsFair'
  BY DEF Safe, ReceiptsFair, CommitTx
<1>3. QED
  BY <1>1, <1>2 DEF Safe

\* Undoing it makes the snapshot the working state.
LEMMA AbortTxSafe == ASSUME Safe, AbortTx, Typed' PROVE Safe'
<1>1. Live' = committed /\ committed' = committed
  BY Undone DEF Safe
<1>2. ReceiptsFair'
  BY DEF ReceiptsFair, AbortTx
<1>3. QED
  BY <1>1, <1>2 DEF Safe

\* An answer lands only on a card of the request's generation, so on the
\* ticket it was asked for.
LEMMA CallbackRevealSafe ==
  ASSUME Safe, NEW q \in vrf, NEW s \in Seeds, CallbackReveal(q, s), Typed'
  PROVE  Safe'
<1>1. q.user \in Users /\ cards \in [Users -> Card]
  BY PartsType DEF Safe, Typed, Request
<1>2. /\ Exists(cards[q.user]) /\ cards[q.user].generation = q.generation
      /\ cards[q.user].status = "Requested"
  BY DEF CallbackReveal, Answers
<1>3. /\ cards' = [cards EXCEPT ![q.user].seed = s, ![q.user].status = "Revealed",
                                ![q.user].drawn = q.ticket]
      /\ perms' = perms /\ pot' = pot /\ house' = house /\ vrf' = vrf
      /\ books' = books /\ hist' = hist
  BY DEF CallbackReveal
<1>4. \A u \in Users : /\ cards'[u].layout = cards[u].layout
                       /\ cards'[u].generation = cards[u].generation
                       /\ cards'[u].ticket = cards[u].ticket
                       /\ cards'[u].terms = cards[u].terms
                       /\ cards'[u].charged = cards[u].charged
                       /\ cards'[u].status # "Collected" =>
                            cards[u].status # "Collected"
                       /\ u # q.user => cards'[u] = cards[u]
  BY <1>1, <1>2, <1>3 DEF Card
<1>5. cards'[q.user].drawn = q.ticket
  BY <1>1, <1>3 DEF Card
<1>6. PaidKept(Live')
  <2>1. PaidKept(Live)
    BY DEF Safe, Good
  <2>2. \A u \in Users :
          /\ Exists(cards'[u]) => Exists(cards[u])
          /\ cards'[u].ticket = cards[u].ticket
          /\ cards'[u].status # "Collected" => cards[u].status # "Collected"
    BY <1>4 DEF Exists
  <2>3. hist' = hist
    BY <1>3
  <2>4. QED
    BY <2>1, <2>2, <2>3 DEF PaidKept, Live
<1>7. PotKept(Live')
  BY <1>3 DEF Safe, Good, PotKept, Live
<1>8. ASSUME NEW m \in Mints PROVE HouseKept(Live', m)
  BY <1>3 DEF Safe, Good, HouseKept, Live
<1>9. AnswersKept(Live')
  <2>1. AnswersKept(Live)
    BY DEF Safe, Good
  <2>2. q.user \notin hist.stranded => q.ticket = cards[q.user].ticket
    BY <1>1, <1>2, <2>1 DEF AnswersKept, Live
  <2>3. ASSUME NEW u \in Users, u \notin hist.stranded, Exists(cards'[u]),
               cards'[u].status \in {"Revealed", "Collected"}
        PROVE  cards'[u].drawn = cards'[u].ticket
    <3>1. CASE u = q.user
      BY <1>4, <1>5, <2>2, <2>3, <3>1
    <3>2. CASE u # q.user
      BY <1>4, <2>1, <2>3, <3>2 DEF AnswersKept, Live
    <3>3. QED
      BY <3>1, <3>2
  <2>4. \A u \in Users :
          /\ Exists(cards'[u]) => Exists(cards[u])
          /\ cards'[u].layout = cards[u].layout
          /\ cards'[u].generation = cards[u].generation
          /\ cards'[u].ticket = cards[u].ticket
    BY <1>4 DEF Exists
  <2>5. vrf' = vrf /\ hist' = hist
    BY <1>3
  <2>6. QED
    BY <2>1, <2>3, <2>4, <2>5 DEF AnswersKept, Live
<1>10. CardsKept(Live')
  BY <1>3, <1>4 DEF Safe, Good, CardsKept, Live
<1>11. QED
  BY <1>6, <1>7, <1>8, <1>9, <1>10, SingleSafe DEF CallbackReveal, Good

\* Dropping a request only removes what could be answered.
LEMMA LoseRequestSafe ==
  ASSUME Safe, NEW q \in vrf, LoseRequest(q), Typed'
  PROVE  Safe'
<1>1. /\ cards' = cards /\ perms' = perms /\ pot' = pot /\ house' = house
      /\ books' = books /\ hist' = hist /\ vrf' \subseteq vrf
  BY DEF LoseRequest
<1>2. PaidKept(Live') /\ PotKept(Live') /\ CardsKept(Live')
  BY <1>1 DEF Safe, Good, PaidKept, PotKept, CardsKept, Live
<1>3. ASSUME NEW m \in Mints PROVE HouseKept(Live', m)
  BY <1>1 DEF Safe, Good, HouseKept, Live
<1>4. AnswersKept(Live')
  BY <1>1 DEF Safe, Good, AnswersKept, Live
<1>5. QED
  BY <1>2, <1>3, <1>4, SingleSafe DEF LoseRequest, Good

\* A closed card restarts its player's generations, which is safe only when
\* the oracle owes the player no answer; else the player is counted stranded.
LEMMA DropSafe ==
  ASSUME Safe, NEW u \in Users, Single, Drop(u), Keep, Typed'
  PROVE  Safe'
<1>1. cards \in [Users -> Card] /\ hist \in History /\ vrf \subseteq Request
  BY PartsType DEF Safe, Typed
<1>2. /\ perms' = perms /\ pot' = pot /\ house' = house /\ books' = books
      /\ vrf' = vrf
      /\ hist'.bought = hist.bought /\ hist'.paid = hist.paid
      /\ hist'.unbooked = hist.unbooked /\ hist'.removed = hist.removed
      /\ hist'.added = hist.added
      /\ hist'.stranded = hist.stranded \cup {q.user : q \in Owed(u)}
  BY <1>1 DEF Drop, History
<1>3. /\ cards'[u] = NoCard
      /\ \A v \in Users \ {u} : cards'[v] = cards[v]
  BY <1>1 DEF Drop
<1>4. ~Exists(NoCard) /\ NoCard.layout = "none" /\ NoCard.generation = 0
  BY DEF NoCard, Exists
<1>5. PaidKept(Live')
  BY <1>2, <1>3, <1>4 DEF Safe, Good, PaidKept, Live
<1>6. PotKept(Live')
  BY <1>2 DEF Safe, Good, PotKept, Live
<1>7. ASSUME NEW m \in Mints PROVE HouseKept(Live', m)
  BY <1>2 DEF Safe, Good, HouseKept, Live
<1>8. AnswersKept(Live')
  <2>1. AnswersKept(Live)
    BY DEF Safe, Good
  <2>2. ASSUME u \notin hist'.stranded, NEW q \in vrf, q.user = u
        PROVE  q.generation = 0
    <3>1. q \notin Owed(u)
      BY <1>2, <2>2
    <3>2. q.generation \in Nat
      BY <1>1 DEF Request
    <3>3. QED
      BY <2>2, <3>1, <3>2 DEF Owed
  <2>3. ASSUME NEW v \in Users
        PROVE  /\ cards'[v].layout # "full" => cards'[v].generation = 0
               /\ v \notin hist'.stranded =>
                   /\ Exists(cards'[v])
                        /\ cards'[v].status \in {"Revealed", "Collected"}
                        => cards'[v].drawn = cards'[v].ticket
                   /\ \A q \in vrf :
                        q.user = v =>
                          /\ q.generation <= cards'[v].generation
                          /\ Exists(cards'[v])
                               /\ q.generation = cards'[v].generation
                               => q.ticket = cards'[v].ticket
    <3>1. CASE v = u
      BY <1>3, <1>4, <2>2, <3>1
    <3>2. CASE v # u
      BY <1>2, <1>3, <2>1, <3>2 DEF AnswersKept, Live
    <3>3. QED
      BY <3>1, <3>2
  <2>4. QED
    BY <1>2, <2>3 DEF AnswersKept, Live
<1>9. CardsKept(Live')
  BY <1>2, <1>3, <1>4 DEF Safe, Good, CardsKept, Live
<1>10. QED
  BY <1>5, <1>6, <1>7, <1>8, <1>9, SingleSafe DEF Good

\* Readers only grow.
LEMMA UpgradePermissionsSafe ==
  ASSUME Safe, NEW u \in Users, UpgradePermissions(u), Typed'
  PROVE  Safe'
<1>1. /\ cards' = cards /\ pot' = pot /\ house' = house
      /\ books' = books /\ hist' = hist /\ vrf' = vrf
      /\ \A v \in Users : perms[v] \subseteq perms'[v]
  BY PartsType DEF Safe, Typed, UpgradePermissions, Upgraded
<1>2. PaidKept(Live') /\ PotKept(Live')
  BY <1>1 DEF Safe, Good, PaidKept, PotKept, Live
<1>3. ASSUME NEW m \in Mints PROVE HouseKept(Live', m)
  BY <1>1 DEF Safe, Good, HouseKept, Live
<1>4. AnswersKept(Live') /\ CardsKept(Live')
  BY <1>1 DEF Safe, Good, AnswersKept, CardsKept, Live
<1>5. QED
  BY <1>2, <1>3, <1>4, SingleSafe DEF UpgradePermissions, Good

\* Re-rating touches no card, no ledger and no counter.
LEMMA SetCardSafe ==
  ASSUME Safe, NEW i \in CardIds, NEW t \in Terms, SetCard(i, t), Typed'
  PROVE  Safe'
<1>1. Live' = Live
  BY DEF SetCard, Live
<1>2. QED
  BY <1>1, SingleSafe DEF Safe, SetCard

\* What the operator adds to the house or takes from it is on record.
LEMMA FloatSafe ==
  ASSUME Safe, NEW m \in Mints, NEW n \in Floats,
         TopUp(m, n) \/ WithdrawHouse(m, n), Typed'
  PROVE  Safe'
<1>1. n \in Nat /\ house \in Amounts /\ hist \in History /\ books \in Books
  BY ConstantsAssumption, PartsType DEF Safe, Typed
<1>2. /\ cards' = cards /\ perms' = perms /\ pot' = pot
      /\ books' = books /\ vrf' = vrf
      /\ hist'.bought = hist.bought /\ hist'.paid = hist.paid
      /\ hist'.stranded = hist.stranded /\ hist'.unbooked = hist.unbooked
  BY <1>1 DEF TopUp, WithdrawHouse, History
<1>3. PaidKept(Live') /\ PotKept(Live')
  BY <1>2 DEF Safe, Good, PaidKept, PotKept, Live
<1>4. AnswersKept(Live') /\ CardsKept(Live')
  BY <1>2 DEF Safe, Good, AnswersKept, CardsKept, Live
<1>5. ASSUME NEW w \in Mints PROVE HouseKept(Live', w)
  <2>1. /\ house[w] \in Nat /\ hist.removed[w] \in Nat /\ hist.added[w] \in Nat
        /\ hist.unbooked[w] \in Nat /\ books.payouts[w] \in Nat
        /\ Sols(books.jackpot_in)[w] \in Nat /\ Sols(books.lamports_in)[w] \in Nat
        /\ House0[w] \in Nat
    BY <1>1, ConstantsAssumption DEF Amounts, History, Books, Sols
  <2>2. HouseKept(Live, w)
    BY DEF Safe, Good
  <2>3. CASE TopUp(m, n)
    <3>1. /\ house'[w] = IF w = m THEN house[w] + n ELSE house[w]
          /\ hist'.added[w] = IF w = m THEN hist.added[w] + n ELSE hist.added[w]
          /\ hist'.removed = hist.removed
      BY <1>1, <2>3 DEF TopUp, Amounts, History
    <3>2. QED
      BY <1>1, <1>2, <2>1, <2>2, <3>1 DEF HouseKept, Live
  <2>4. CASE WithdrawHouse(m, n)
    <3>1. /\ house'[w] = IF w = m THEN house[w] - n ELSE house[w]
          /\ hist'.removed[w] = IF w = m THEN hist.removed[w] + n
                                ELSE hist.removed[w]
          /\ hist'.added = hist.added /\ n <= house[m]
      BY <1>1, <2>4 DEF WithdrawHouse, Amounts, History
    <3>2. QED
      BY <1>1, <1>2, <2>1, <2>2, <3>1 DEF HouseKept, Live
  <2>5. QED
    BY <2>3, <2>4
<1>6. QED
  BY <1>3, <1>4, <1>5, SingleSafe DEF TopUp, WithdrawHouse, Good

\* Every step keeps the invariant.
LEMMA NextSafe == ASSUME Safe, [Next]_vars PROVE Safe'
<1>0. Typed'
  BY NextTyped DEF Safe
<1>1. CASE UNCHANGED vars
  <2>1. Live' = Live /\ committed' = committed
    BY <1>1 DEF vars, Live
  <2>2. ReceiptsFair'
    BY <1>1 DEF vars, Safe, ReceiptsFair, Unpaid
  <2>3. QED
    BY <1>0, <2>1, <2>2 DEF Safe
<1>2. CASE BeginTx
  BY <1>0, <1>2, BeginTxSafe
<1>3. CASE \E k \in Keys, u \in Users, i \in CardIds : RequestPurchase(k, u, i)
  BY <1>0, <1>3, RequestPurchaseSafe
<1>4. CASE \E k \in Keys, u \in Users : RequestCollect(k, u)
  BY <1>0, <1>4, RequestCollectSafe
<1>5. CASE \E u \in Users : RequestReveal(u)
  BY <1>0, <1>5, RequestRevealSafe
<1>6. CASE \E r \in receipts : SettlePurchase(r)
  BY <1>0, <1>6, SettlePurchaseSafe
<1>7. CASE \E r \in receipts : SettleCollect(r)
  BY <1>0, <1>7, SettleCollectSafe
<1>8. CASE CommitTx
  BY <1>0, <1>8, CommitTxSafe
<1>9. CASE AbortTx
  BY <1>0, <1>9, AbortTxSafe
<1>10. CASE \E q \in vrf, s \in Seeds : CallbackReveal(q, s)
  BY <1>0, <1>10, CallbackRevealSafe
<1>11. CASE \E q \in vrf : LoseRequest(q)
  BY <1>0, <1>11, LoseRequestSafe
<1>12. CASE \E u \in Users : CloseCard(u) \/ CloseStrayCard(u)
  BY <1>0, <1>12, DropSafe DEF CloseCard, CloseStrayCard
<1>13. CASE \E u \in Users : UpgradePermissions(u)
  BY <1>0, <1>13, UpgradePermissionsSafe
<1>14. CASE \E i \in CardIds, t \in Terms : SetCard(i, t)
  BY <1>0, <1>14, SetCardSafe
<1>15. CASE \E m \in Mints, n \in Floats : TopUp(m, n) \/ WithdrawHouse(m, n)
  BY <1>0, <1>15, FloatSafe
<1>16. QED
  BY <1>1, <1>2, <1>3, <1>4, <1>5, <1>6, <1>7, <1>8, <1>9, <1>10, <1>11,
     <1>12, <1>13, <1>14, <1>15 DEF Next

-----------------------------------------------------------------------------
(* The theorems *)

\* The inductive invariant holds in every reachable state.
THEOREM SafeAlways == Spec => []Safe
  BY InitSafe, NextSafe, PTL DEF Spec

\* A ticket is paid at most once, for any number of players, keys, tickets and
\* instructions per transaction: resolve_collect's status check is enough.
THEOREM PaidOnceAlways == Spec => []PaidOnce
<1>1. Safe => PaidOnce
  BY DEF Safe, Good, PaidKept, PaidOnce, Live
<1>2. QED
  BY <1>1, SafeAlways, PTL

\* The jackpot's ledger is what the analytics say it should be.
THEOREM PotBooksAlways == Spec => []PotBooks
<1>1. Safe => PotBooks
  BY DEF Safe, Good, PotKept, PotBooks, Live
<1>2. QED
  BY <1>1, SafeAlways, PTL

\* So is the house's, in every mint.
THEOREM HouseBooksAlways == Spec => []HouseBooks
<1>1. Safe => HouseBooks
  BY DEF Safe, Good, HouseKept, HouseBooks, Live
<1>2. QED
  BY <1>1, SafeAlways, PTL

\* The generation check binds an answer to the purchase it was asked for,
\* unless the operator closed a card of the player while an answer was owed.
THEOREM AnswersMatchAlways == Spec => []AnswersMatch
<1>1. Safe => AnswersMatch
  BY DEF Safe, Good, AnswersKept, AnswersMatch, Live
<1>2. QED
  BY <1>1, SafeAlways, PTL

\* What a player was debited is the price printed on the card.
THEOREM ChargedPriceAlways == Spec => []ChargedPrice
<1>1. Safe => ChargedPrice
  BY DEF Safe, Good, CardsKept, ChargedPrice, Live
<1>2. QED
  BY <1>1, SafeAlways, PTL

\* Every card made by a purchase has all its readers.
THEOREM ReadersCompleteAlways == Spec => []ReadersComplete
<1>1. Safe => ReadersComplete
  BY DEF Safe, Good, CardsKept, ReadersComplete, Live
<1>2. QED
  BY <1>1, SafeAlways, PTL
=============================================================================
