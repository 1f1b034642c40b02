------------------------ MODULE ScratchCardsPromises ------------------------
(***************************************************************************)
(* What rests on the safety of ScratchCards, for every value of its        *)
(* constants: what its counters may miss, that no transaction makes or     *)
(* loses money, that no ticket is forgotten of a player whose cards nobody *)
(* closes, that the program keeps the promise of Ticket                    *)
(* (Spec => TicketPromise), and that clients that die, retry and leave     *)
(* transactions behind do nothing its own specification does not allow,    *)
(* wait for what they sent or asked for, and are refused for few reasons.  *)
(***************************************************************************)
EXTENDS Play, ScratchCardsSafety, TotalsProofs

-----------------------------------------------------------------------------
(* The counters: a payout of a mint that found no row left, and of the     *)
(* cards sold and collected nothing until a counter is full.               *)

\* MissedOnlyWhenFull, of any record.
RowsKept(s) ==
    /\ Cardinality(s.books.rows) <= TOKEN_SLOTS
    /\ \A m \in Mints :
         s.hist.unbooked[m] > s.hist.termless[m] =>
            m \notin s.books.rows /\ Cardinality(s.books.rows) = TOKEN_SLOTS

\* Of the working state and of the state a failing transaction gives back.
Booked == RowsKept(Live) /\ RowsKept(committed)

-----------------------------------------------------------------------------
(* Rows *)

\* Rows are only added, and only while there are some left: a full table
\* stays as it is, and a mint that gets none finds it full.
LEMMA NewRowsBounds ==
  ASSUME NEW won \in Amounts, NEW new \in NewRows(won),
         books.rows \subseteq Mints, Cardinality(books.rows) <= TOKEN_SLOTS
  PROVE  /\ Cardinality(books.rows \cup new) <= TOKEN_SLOTS
         /\ Cardinality(books.rows) = TOKEN_SLOTS => books.rows \cup new = books.rows
         /\ \A m \in Mints :
              won[m] > 0 /\ m \notin books.rows \cup new =>
                Cardinality(books.rows \cup new) = TOKEN_SLOTS
<1> DEFINE wanted == {m \in Mints : won[m] > 0} \ books.rows
           rows == books.rows \cup new
<1>1. new \subseteq wanted /\ rows \subseteq Mints
  BY DEF NewRows
<1>2. \/ new = wanted /\ Cardinality(rows) <= TOKEN_SLOTS
      \/ new # wanted /\ Cardinality(rows) = TOKEN_SLOTS
  BY DEF NewRows
<1>3. TOKEN_SLOTS \in Nat
  BY ConstantsAssumption
<1>4. IsFiniteSet(rows) /\ Cardinality(rows) \in Nat
  BY <1>1, MintsAssumption, FS_Subset, FS_CardinalityType
<1>5. Cardinality(rows) <= TOKEN_SLOTS
  BY <1>2, <1>3
<1>6. ASSUME Cardinality(books.rows) = TOKEN_SLOTS
      PROVE  rows = books.rows
  <2>1. Cardinality(books.rows) <= Cardinality(rows)
        /\ (Cardinality(rows) = Cardinality(books.rows) => rows = books.rows)
    BY <1>4, FS_Subset
  <2> QED BY <1>3, <1>4, <1>5, <1>6, <2>1
<1>7. ASSUME NEW m \in Mints, won[m] > 0, m \notin rows
      PROVE  Cardinality(rows) = TOKEN_SLOTS
  BY <1>2, <1>7
<1> QED BY <1>5, <1>6, <1>7

-----------------------------------------------------------------------------
(* How steps keep it *)

LEMMA InitBooked == Init => Booked
<1> SUFFICES ASSUME Init PROVE Booked
  OBVIOUS
<1>1. Cardinality(books.rows) <= TOKEN_SLOTS
  <2>1. books.rows = {} /\ TOKEN_SLOTS \in Nat
    BY ConstantsAssumption DEF Init
  <2> QED BY <2>1, FS_EmptySet
<1>2. \A m \in Mints : hist.unbooked[m] = 0 /\ hist.termless[m] = 0
  BY DEF Init, Nothing
<1>3. RowsKept(Live)
  BY <1>1, <1>2 DEF RowsKept, Live
<1> QED BY <1>3 DEF Booked, Init

\* A step that leaves the rows and the two records alone.
Unbooking == /\ books'.rows = books.rows
             /\ hist'.unbooked = hist.unbooked /\ hist'.termless = hist.termless
             /\ committed' = committed \/ Keep

LEMMA UnbookingBooked == ASSUME Booked, Unbooking PROVE Booked'
<1>1. RowsKept(Live')
  BY DEF Booked, Unbooking, RowsKept, Live
<1> QED BY <1>1 DEF Booked, Unbooking, Keep

\* A settled collect counts what it pays, unless the card carries no terms or
\* the mint finds the table full.
LEMMA SettleCollectBooked ==
  ASSUME Safe, Booked, NEW r \in receipts, SettleCollect(r)
  PROVE  Booked'
<1> DEFINE c == cards[r.user]
           counted == IF c.layout = "short" THEN Nothing
                      ELSE Winnings[c.terms][c.seed].amounts
<1>1. r.user \in Users /\ r.wins \in Amounts /\ r.kind = "collect"
  BY PartsType DEF Safe, Typed, Receipt, SettleCollect, CollectClears
<1>2. hist \in History /\ books \in Books
  BY PartsType DEF Safe, Typed
<1>3. c.layout # "short" => r.wins = counted
  BY <1>1 DEF Safe, ReceiptsFair, SettleCollect, CollectClears
<1>4. counted \in Amounts
  BY <1>1, <1>3 DEF Nothing, Amounts
<1>5. PICK new \in NewRows(counted) :
        /\ books' = CountCollect(c, counted, books.rows \cup new, r.fromPot)
        /\ hist' = [hist EXCEPT
             !.paid[r.user][c.ticket] = @ + 1,
             !.unbooked = [m \in Mints |->
                IF c.layout # "short" /\ m \in books.rows \cup new
                THEN @[m] ELSE @[m] + r.wins[m]],
             !.termless = IF c.layout = "short" THEN Add(@, r.wins) ELSE @]
  BY DEF SettleCollect, CollectClears
<1> DEFINE rows == books.rows \cup new
<1>6. books'.rows = rows /\ committed' = committed
  BY <1>2, <1>5 DEF CountCollect, Books, SettleCollect, CollectClears, Instruction
<1>7. ASSUME NEW m \in Mints
      PROVE  /\ hist'.unbooked[m] = IF c.layout # "short" /\ m \in rows
                                    THEN hist.unbooked[m]
                                    ELSE hist.unbooked[m] + r.wins[m]
             /\ hist'.termless[m] = IF c.layout = "short"
                                    THEN hist.termless[m] + r.wins[m]
                                    ELSE hist.termless[m]
             /\ hist.unbooked[m] \in Nat /\ hist.termless[m] \in Nat /\ r.wins[m] \in Nat
  BY <1>1, <1>2, <1>5 DEF History, Amounts, Add
<1>8. books.rows \subseteq Mints /\ Cardinality(books.rows) <= TOKEN_SLOTS
  BY <1>2 DEF Books, Booked, RowsKept, Live
<1> HIDE DEF c, counted
<1>9. /\ Cardinality(rows) <= TOKEN_SLOTS
      /\ Cardinality(books.rows) = TOKEN_SLOTS => rows = books.rows
      /\ \A m \in Mints : counted[m] > 0 /\ m \notin rows => Cardinality(rows) = TOKEN_SLOTS
  BY <1>4, <1>8, NewRowsBounds
<1> HIDE DEF rows
<1>10. ASSUME NEW m \in Mints, hist'.unbooked[m] > hist'.termless[m]
       PROVE  m \notin rows /\ Cardinality(rows) = TOKEN_SLOTS
  <2>1. CASE hist.unbooked[m] > hist.termless[m]
    <3>1. m \notin books.rows /\ Cardinality(books.rows) = TOKEN_SLOTS
      BY <2>1 DEF Booked, RowsKept, Live
    <3> QED BY <1>9, <3>1
  <2>2. CASE ~(hist.unbooked[m] > hist.termless[m])
    <3>1. c.layout # "short" /\ m \notin rows /\ r.wins[m] > 0
      BY <1>7, <1>10, <2>2
    <3> QED BY <1>3, <1>9, <3>1
  <2> QED BY <2>1, <2>2
<1>11. RowsKept(Live')
  BY <1>6, <1>9, <1>10 DEF RowsKept, Live
<1> QED BY <1>6, <1>11 DEF Booked

\* Every step keeps it.
LEMMA NextBooked == ASSUME Safe, Booked, [Next]_vars PROVE Booked'
<1>0. hist \in History /\ books \in Books
  BY PartsType DEF Safe, Typed
<1>1. CASE UNCHANGED vars
  BY <1>1, UnbookingBooked DEF vars, Unbooking
<1>2. CASE BeginTx
  BY <1>2, UnbookingBooked DEF BeginTx, Unbooking
<1>3. CASE \E k \in Keys, u \in Users, i \in CardIds : RequestPurchase(k, u, i)
  BY <1>3, UnbookingBooked DEF RequestPurchase, Instruction, Unbooking
<1>4. CASE \E k \in Keys, u \in Users : RequestCollect(k, u)
  BY <1>4, UnbookingBooked DEF RequestCollect, Collectable, Won, Instruction, Unbooking
<1>5. CASE \E u \in Users : RequestReveal(u)
  BY <1>5, UnbookingBooked DEF RequestReveal, Instruction, Unbooking
<1>6. ASSUME NEW r \in receipts, SettlePurchase(r)
      PROVE  Booked'
  <2>1. /\ books'.rows = books.rows /\ hist'.unbooked = hist.unbooked
        /\ hist'.termless = hist.termless /\ committed' = committed
    BY <1>0, <1>6 DEF SettlePurchase, PurchaseClears, Instruction, CountSale, Books, History
  <2> QED BY <2>1, UnbookingBooked DEF Unbooking
<1>7. CASE \E r \in receipts : SettleCollect(r)
  BY <1>7, SettleCollectBooked
<1>8. CASE CommitTx
  <2>1. Live' = Live /\ committed' = Live
    BY <1>8 DEF CommitTx, Live
  <2> QED BY <2>1 DEF Booked
<1>9. CASE AbortTx
  <2>1. Live' = committed /\ committed' = committed
    BY <1>9, Undone DEF Safe
  <2> QED BY <2>1 DEF Booked
<1>10. CASE \E q \in vrf, s \in Seeds : CallbackReveal(q, s)
  BY <1>10, UnbookingBooked DEF CallbackReveal, Unbooking
<1>11. CASE \E q \in vrf : LoseRequest(q)
  BY <1>11, UnbookingBooked DEF LoseRequest, Unbooking
<1>12. ASSUME NEW u \in Users, CloseCard(u) \/ CloseStrayCard(u)
       PROVE  Booked'
  <2>1. Drop(u) /\ Keep
    BY <1>12 DEF CloseCard, CloseStrayCard
  <2>2. /\ books' = books /\ hist'.unbooked = hist.unbooked
        /\ hist'.termless = hist.termless
    BY <1>0, <2>1 DEF Drop, History
  <2> QED BY <2>1, <2>2, UnbookingBooked DEF Unbooking
<1>13. CASE \E u \in Users : UpgradePermissions(u)
  BY <1>13, UnbookingBooked DEF UpgradePermissions, Unbooking
<1>14. CASE \E i \in CardIds, t \in Terms : SetCard(i, t)
  BY <1>14, UnbookingBooked DEF SetCard, Unbooking
<1>15. ASSUME NEW m \in Mints, NEW n \in Floats, TopUp(m, n) \/ WithdrawHouse(m, n)
       PROVE  Booked'
  <2>1. /\ books' = books /\ hist'.unbooked = hist.unbooked
        /\ hist'.termless = hist.termless /\ Keep
    BY <1>0, <1>15 DEF TopUp, WithdrawHouse, History
  <2> QED BY <2>1, UnbookingBooked DEF Unbooking
<1> QED
  BY <1>1, <1>2, <1>3, <1>4, <1>5, <1>6, <1>7, <1>8, <1>9, <1>10, <1>11,
     <1>12, <1>13, <1>14, <1>15 DEF Next

\* But for cards without terms, a payout the analytics miss is of a mint with
\* no row, and only once every row is taken: record_payout wastes none.
THEOREM MissedOnlyWhenFullAlways == Spec => []MissedOnlyWhenFull
<1>1. Booked => MissedOnlyWhenFull
  BY DEF Booked, RowsKept, MissedOnlyWhenFull, Live
<1> QED
  BY <1>1, InitBooked, NextBooked, SafeAlways, PTL DEF Spec

-----------------------------------------------------------------------------
(* Cards sold and collected *)

Slots == CardIds \cap (0 .. CARD_SLOTS - 1)

\* CountsAgree for card i, of any record.
Tallied(s, i) ==
    s.books.cards_sold[i] < WordMax /\ s.books.cards_collected[i] < WordMax =>
      s.books.cards_sold[i] + s.hist.carried[i]
        = s.books.cards_collected[i] + Cardinality(Outstanding(s.cards, i))
            + s.hist.voided[i]

Tally == \A i \in Slots : Tallied(Live, i) /\ Tallied(committed, i)

\* Whether a card counts as a ticket its player holds of card i.
Holds(c, i) == Exists(c) /\ c.status # "Collected" /\ c.card_id = i

\* One player's card changes, and the tickets held of a card with it.
LEMMA OutstandingStep ==
  ASSUME NEW old, NEW new, NEW i, NEW u \in Users,
         \A v \in Users \ {u} : new[v] = old[v]
  PROVE  /\ Cardinality(Outstanding(old, i)) \in Nat
         /\ Cardinality(Outstanding(new, i)) \in Nat
         /\ Cardinality(Outstanding(new, i)) + (IF Holds(old[u], i) THEN 1 ELSE 0)
              = Cardinality(Outstanding(old, i)) + (IF Holds(new[u], i) THEN 1 ELSE 0)
<1> DEFINE rest == Outstanding(old, i) \ {u}
<1>1. /\ IsFiniteSet(Outstanding(old, i)) /\ IsFiniteSet(Outstanding(new, i))
      /\ IsFiniteSet(rest)
  BY FS_Subset, ConstantsAssumption DEF Outstanding
<1>2. /\ u \in Outstanding(old, i) <=> Holds(old[u], i)
      /\ u \in Outstanding(new, i) <=> Holds(new[u], i)
  BY DEF Outstanding, Holds
<1>3. rest = Outstanding(new, i) \ {u}
  BY DEF Outstanding
<1>4. /\ Cardinality(rest) = IF u \in Outstanding(old, i)
                             THEN Cardinality(Outstanding(old, i)) - 1
                             ELSE Cardinality(Outstanding(old, i))
      /\ Cardinality(rest) = IF u \in Outstanding(new, i)
                             THEN Cardinality(Outstanding(new, i)) - 1
                             ELSE Cardinality(Outstanding(new, i))
  BY <1>1, <1>3, FS_RemoveElement
<1>5. /\ Cardinality(Outstanding(old, i)) \in Nat
      /\ Cardinality(Outstanding(new, i)) \in Nat
  BY <1>1, FS_CardinalityType
<1> HIDE DEF rest
<1> QED BY <1>2, <1>4, <1>5

\* A step that changes no count and no ticket held.
Untallying ==
    /\ books'.cards_sold = books.cards_sold
    /\ books'.cards_collected = books.cards_collected
    /\ hist'.carried = hist.carried /\ hist'.voided = hist.voided
    /\ \A i \in Slots : Outstanding(cards', i) = Outstanding(cards, i)
    /\ committed' = committed \/ Keep

LEMMA UntallyingTally == ASSUME Tally, Untallying PROVE Tally'
<1>1. ASSUME NEW i \in Slots PROVE Tallied(Live', i)
  BY DEF Tally, Untallying, Tallied, Live
<1>2. ASSUME NEW i \in Slots PROVE Tallied(committed', i)
  BY <1>1 DEF Tally, Untallying, Keep
<1> QED BY <1>1, <1>2 DEF Tally

\* One slot of a table is counted up, or none.
LEMMA CountStep ==
  ASSUME NEW table \in [0 .. CARD_SLOTS - 1 -> Nat], NEW j, NEW i \in Slots
  PROVE  Count(table, j)[i] = IF i = j THEN Sat(table[i] + 1) ELSE table[i]
BY DEF Count, Slots

LEMMA SettlePurchaseTally ==
  ASSUME Safe, Tally, NEW r \in receipts, SettlePurchase(r)
  PROVE  Tally'
<1>1. /\ r.user \in Users /\ cards \in [Users -> Card] /\ hist \in History
      /\ books \in Books
  BY PartsType DEF Safe, Typed, Receipt
<1>2. /\ cards' = [cards EXCEPT ![r.user] = Bought(r)]
      /\ books' = CountSale(r.card_id, shelf[r.card_id].price)
      /\ CanBuy(r.user) /\ committed' = committed
      /\ hist' = [hist EXCEPT !.bought[r.user] = @ + 1]
  BY DEF SettlePurchase, PurchaseClears, Instruction
<1>3. /\ books'.cards_sold = Count(books.cards_sold, r.card_id)
      /\ books'.cards_collected = books.cards_collected
      /\ hist'.carried = hist.carried /\ hist'.voided = hist.voided
  BY <1>1, <1>2 DEF CountSale, Books, History
<1>4. ASSUME NEW i \in Slots PROVE Tallied(Live', i)
  <2>1. /\ books.cards_sold[i] \in Nat /\ books.cards_collected[i] \in Nat
        /\ hist.carried[i] \in Nat /\ hist.voided[i] \in Nat
    BY <1>1 DEF Books, History, Slots
  <2>2. books'.cards_sold[i] = IF i = r.card_id THEN Sat(books.cards_sold[i] + 1)
                               ELSE books.cards_sold[i]
    BY <1>1, <1>3, CountStep DEF Books
  <2>3. ~Holds(cards[r.user], i) /\ (Holds(cards'[r.user], i) <=> i = r.card_id)
    BY <1>1, <1>2 DEF CanBuy, Holds, Bought, Exists
  <2>4. /\ Cardinality(Outstanding(cards, i)) \in Nat
        /\ Cardinality(Outstanding(cards', i))
             = Cardinality(Outstanding(cards, i)) + (IF i = r.card_id THEN 1 ELSE 0)
    <3>1. \A v \in Users \ {r.user} : cards'[v] = cards[v]
      BY <1>1, <1>2
    <3> QED BY <1>1, <2>3, <3>1, OutstandingStep
  <2>5. Tallied(Live, i)
    BY DEF Tally
  <2>6. WordMax \in Nat
    BY ConstantsAssumption
  <2> QED BY <1>3, <2>1, <2>2, <2>4, <2>5, <2>6 DEF Tallied, Live, Sat
<1> QED BY <1>2, <1>4 DEF Tally

LEMMA SettleCollectTally ==
  ASSUME Safe, Tally, NEW r \in receipts, SettleCollect(r)
  PROVE  Tally'
<1> DEFINE c == cards[r.user]
<1>1. /\ r.user \in Users /\ cards \in [Users -> Card] /\ hist \in History
      /\ books \in Books
  BY PartsType DEF Safe, Typed, Receipt
<1>2. /\ cards' = [cards EXCEPT ![r.user].status = "Collected"]
      /\ Exists(c) /\ c.status = "Revealed" /\ committed' = committed
  BY DEF SettleCollect, CollectClears, Instruction, Unpaid
<1>3. /\ books'.cards_sold = books.cards_sold
      /\ books'.cards_collected = Count(books.cards_collected, c.card_id)
      /\ hist'.carried = hist.carried /\ hist'.voided = hist.voided
  BY <1>1 DEF SettleCollect, CollectClears, CountCollect, Books, History
<1>4. ASSUME NEW i \in Slots PROVE Tallied(Live', i)
  <2>1. /\ books.cards_sold[i] \in Nat /\ books.cards_collected[i] \in Nat
        /\ hist.carried[i] \in Nat /\ hist.voided[i] \in Nat
    BY <1>1 DEF Books, History, Slots
  <2>2. books'.cards_collected[i] =
          IF i = c.card_id THEN Sat(books.cards_collected[i] + 1)
          ELSE books.cards_collected[i]
    BY <1>1, <1>3, CountStep DEF Books
  <2>3. ~Holds(cards'[r.user], i) /\ (Holds(c, i) <=> i = c.card_id)
    BY <1>1, <1>2 DEF Holds, Card
  <2>4. /\ Cardinality(Outstanding(cards, i)) \in Nat
        /\ Cardinality(Outstanding(cards', i)) \in Nat
        /\ Cardinality(Outstanding(cards', i)) + (IF i = c.card_id THEN 1 ELSE 0)
             = Cardinality(Outstanding(cards, i))
    <3>1. \A v \in Users \ {r.user} : cards'[v] = cards[v]
      BY <1>1, <1>2
    <3> QED BY <1>1, <2>3, <3>1, OutstandingStep
  <2>5. Tallied(Live, i)
    BY DEF Tally
  <2>6. WordMax \in Nat
    BY ConstantsAssumption
  <2> HIDE DEF c
  <2> QED BY <1>3, <2>1, <2>2, <2>4, <2>5, <2>6 DEF Tallied, Live, Sat
<1> QED BY <1>2, <1>4 DEF Tally

\* A closed card that was not collected is one ticket less held and one more
\* voided.
LEMMA DropTally ==
  ASSUME Safe, Tally, NEW u \in Users, Exists(cards[u]), Drop(u), Keep
  PROVE  Tally'
<1> DEFINE c == cards[u]
<1>1. /\ cards \in [Users -> Card] /\ hist \in History /\ books \in Books
      /\ c.card_id \in CardIds
  BY PartsType DEF Safe, Typed, Card
<1>2. /\ cards' = [cards EXCEPT ![u] = NoCard] /\ books' = books
      /\ hist'.carried = hist.carried
      /\ hist'.voided = [hist.voided EXCEPT ![c.card_id] =
                           IF c.status # "Collected" THEN @ + 1 ELSE @]
  BY <1>1 DEF Drop, History
<1>3. /\ books'.cards_sold = books.cards_sold
      /\ books'.cards_collected = books.cards_collected
      /\ hist'.carried = hist.carried
  BY <1>2
<1>4. ASSUME NEW i \in Slots PROVE Tallied(Live', i)
  <2> DEFINE gone == IF Holds(c, i) THEN 1 ELSE 0
  <2>1. /\ books.cards_sold[i] \in Nat /\ books.cards_collected[i] \in Nat
        /\ hist.carried[i] \in Nat /\ hist.voided[i] \in Nat
    BY <1>1 DEF Books, History, Slots
  <2>2. Holds(c, i) <=> c.status # "Collected" /\ i = c.card_id
    BY DEF Holds
  <2>3. hist'.voided[i] = hist.voided[i] + gone
    BY <1>1, <1>2, <2>1, <2>2 DEF History, Slots
  <2>4. /\ Cardinality(Outstanding(cards, i)) \in Nat
        /\ Cardinality(Outstanding(cards', i)) \in Nat
        /\ Cardinality(Outstanding(cards', i)) + gone
             = Cardinality(Outstanding(cards, i))
    <3>1. \A v \in Users \ {u} : cards'[v] = cards[v]
      BY <1>1, <1>2
    <3>2. ~Holds(cards'[u], i)
      BY <1>1, <1>2 DEF Holds, NoCard, Exists
    <3> QED BY <3>1, <3>2, OutstandingStep
  <2>5. Tallied(Live, i)
    BY DEF Tally
  <2>6. gone \in Nat
    OBVIOUS
  <2> HIDE DEF c, gone
  <2>7. ASSUME books.cards_sold[i] < WordMax, books.cards_collected[i] < WordMax
        PROVE  books.cards_sold[i] + hist.carried[i]
                 = books.cards_collected[i] + Cardinality(Outstanding(cards', i))
                     + hist'.voided[i]
    <3>1. books.cards_sold[i] + hist.carried[i]
            = books.cards_collected[i] + Cardinality(Outstanding(cards, i))
                + hist.voided[i]
      BY <2>5, <2>7 DEF Tallied, Live
    <3> QED BY <2>1, <2>3, <2>4, <2>6, <3>1
  <2> QED BY <1>3, <2>7 DEF Tallied, Live
<1> QED BY <1>4 DEF Tally, Keep

LEMMA InitTally == Init => Tally
<1> SUFFICES ASSUME Init PROVE Tally
  OBVIOUS
<1>1. ASSUME NEW i \in Slots PROVE Tallied(Live, i)
  <2>1. IsFiniteSet(Outstanding(cards, i))
    BY FS_Subset, ConstantsAssumption DEF Outstanding
  <2>2. Cardinality(Outstanding(cards, i)) \in Nat
    BY <2>1, FS_CardinalityType
  <2>3. /\ books.cards_sold[i] = 0 /\ books.cards_collected[i] = 0
        /\ hist.voided[i] = 0
        /\ hist.carried[i] = Cardinality(Outstanding(cards, i))
    BY DEF Init, Slots
  <2> QED BY <2>2, <2>3 DEF Tallied, Live
<1> QED BY <1>1 DEF Tally, Init

\* Every step keeps it.
LEMMA NextTally == ASSUME Safe, Tally, [Next]_vars PROVE Tally'
<1>0. hist \in History /\ books \in Books /\ cards \in [Users -> Card]
  BY PartsType DEF Safe, Typed
<1>1. CASE UNCHANGED vars
  BY <1>1, UntallyingTally DEF vars, Untallying
<1>2. CASE BeginTx
  BY <1>2, UntallyingTally DEF BeginTx, Untallying
<1>3. CASE \E k \in Keys, u \in Users, i \in CardIds : RequestPurchase(k, u, i)
  BY <1>3, UntallyingTally DEF RequestPurchase, Instruction, Untallying
<1>4. CASE \E k \in Keys, u \in Users : RequestCollect(k, u)
  BY <1>4, UntallyingTally DEF RequestCollect, Collectable, Won, Instruction, Untallying
<1>5. ASSUME NEW u \in Users, RequestReveal(u)
      PROVE  Tally'
  <2>1. \A v \in Users, i \in Slots : Holds(cards'[v], i) <=> Holds(cards[v], i)
    BY <1>0, <1>5 DEF RequestReveal, Waiting, Holds, Exists, Card
  <2>2. \A i \in Slots : Outstanding(cards', i) = Outstanding(cards, i)
    BY <2>1 DEF Outstanding, Holds
  <2> QED BY <1>5, <2>2, UntallyingTally DEF RequestReveal, Instruction, Untallying
<1>6. CASE \E r \in receipts : SettlePurchase(r)
  BY <1>6, SettlePurchaseTally
<1>7. CASE \E r \in receipts : SettleCollect(r)
  BY <1>7, SettleCollectTally
<1>8. CASE CommitTx
  <2>1. Live' = Live /\ committed' = Live
    BY <1>8 DEF CommitTx, Live
  <2> QED BY <2>1 DEF Tally
<1>9. CASE AbortTx
  <2>1. Live' = committed /\ committed' = committed
    BY <1>9, Undone DEF Safe
  <2> QED BY <2>1 DEF Tally
<1>10. ASSUME NEW q \in vrf, NEW s \in Seeds, CallbackReveal(q, s)
       PROVE  Tally'
  <2>1. \A v \in Users, i \in Slots : Holds(cards'[v], i) <=> Holds(cards[v], i)
    BY <1>0, <1>10 DEF CallbackReveal, Answers, Holds, Exists, Card
  <2>2. \A i \in Slots : Outstanding(cards', i) = Outstanding(cards, i)
    BY <2>1 DEF Outstanding, Holds
  <2> QED BY <1>10, <2>2, UntallyingTally DEF CallbackReveal, Untallying
<1>11. CASE \E q \in vrf : LoseRequest(q)
  BY <1>11, UntallyingTally DEF LoseRequest, Untallying
<1>12. CASE \E u \in Users : CloseCard(u) \/ CloseStrayCard(u)
  BY <1>12, DropTally DEF CloseCard, CloseStrayCard, Exists
<1>13. CASE \E u \in Users : UpgradePermissions(u)
  BY <1>13, UntallyingTally DEF UpgradePermissions, Untallying
<1>14. CASE \E i \in CardIds, t \in Terms : SetCard(i, t)
  BY <1>14, UntallyingTally DEF SetCard, Untallying
<1>15. ASSUME NEW m \in Mints, NEW n \in Floats, TopUp(m, n) \/ WithdrawHouse(m, n)
       PROVE  Tally'
  <2>1. /\ books' = books /\ cards' = cards /\ hist'.carried = hist.carried
        /\ hist'.voided = hist.voided /\ Keep
    BY <1>0, <1>15 DEF TopUp, WithdrawHouse, History
  <2> QED BY <2>1, UntallyingTally DEF Untallying
<1> QED
  BY <1>1, <1>2, <1>3, <1>4, <1>5, <1>6, <1>7, <1>8, <1>9, <1>10, <1>11,
     <1>12, <1>13, <1>14, <1>15 DEF Next

\* Cards sold less cards collected is what players hold, for any number of
\* players and cards, aborted transactions and closed cards included.
THEOREM CountsAgreeAlways == Spec => []CountsAgree
<1>1. Tally => CountsAgree
  BY DEF Tally, Tallied, Slots, CountsAgree, Live
<1> QED
  BY <1>1, InitTally, NextTally, SafeAlways, PTL DEF Spec

-----------------------------------------------------------------------------
(* The money *)

\* A mint's column of the players' ledgers.
Column(purses, m) == [u \in Users |-> purses[u][m]]
InPurses(purses, m) == SumOver(Column(purses, m), Users)

\* What the vault holds of a mint, in the house, in the pot and for the players.
Held0(m) == House0[m] + Sols(Pot0)[m] + InPurses(Purse0, m)
InVault(s, m) == s.house[m] + Sols(s.pot)[m] + InPurses(s.purse, m)

\* Nothing is made and nothing is lost but what the operator moves.
Conserved(s, m) == InVault(s, m) + s.hist.removed[m] = Held0(m) + s.hist.added[m]

Money == \A m \in Mints : Conserved(Live, m) /\ Conserved(committed, m)

LEMMA ColumnSum ==
  ASSUME NEW purses \in [Users -> Amounts], NEW m \in Mints
  PROVE  InPurses(purses, m) \in Nat
<1>1. \A u \in Users : Column(purses, m)[u] \in Nat
  BY DEF Column, Amounts
<1> QED BY <1>1, SumNat, ConstantsAssumption DEF InPurses

\* One player's ledger moves.
LEMMA PurseMoves ==
  ASSUME NEW before \in [Users -> Amounts], NEW then \in [Users -> Amounts],
         NEW u \in Users, NEW m \in Mints,
         \A v \in Users : v # u => then[v] = before[v]
  PROVE  InPurses(then, m) + before[u][m] = InPurses(before, m) + then[u][m]
<1> DEFINE f == Column(before, m)
           g == Column(then, m)
<1>1. \A v \in Users : f[v] \in Nat /\ g[v] \in Nat /\ (v # u => g[v] = f[v])
  BY DEF Column, Amounts
<1>2. f[u] = before[u][m] /\ g[u] = then[u][m]
  BY DEF Column
<1> HIDE DEF f, g
<1>3. SumOver(g, Users) + f[u] = SumOver(f, Users) + g[u]
  BY <1>1, SumChanged, ConstantsAssumption
<1> QED BY <1>2, <1>3 DEF InPurses, f, g

\* No ledger moves, the operator's included.
Still == /\ UNCHANGED <<house, pot, purse>>
         /\ hist'.added = hist.added /\ hist'.removed = hist.removed
         /\ committed' \in {committed, Live, Live'}

LEMMA StillMoney == ASSUME Money, Still PROVE Money'
<1>1. ASSUME NEW m \in Mints PROVE Conserved(Live', m)
  BY DEF Money, Still, Conserved, InVault, Live
<1>2. ASSUME NEW m \in Mints PROVE Conserved(committed', m)
  BY <1>1 DEF Money, Still
<1>3. \A m \in Mints : Conserved(Live, m)' /\ Conserved(committed, m)'
  BY <1>1, <1>2 DEF Conserved, InVault, Held0
<1> QED BY <1>3 DEF Money

\* A transaction's instruction moves what it moves inside the vault.
LEMMA InsideMoney ==
  ASSUME Money, committed' = committed,
         hist'.added = hist.added /\ hist'.removed = hist.removed,
         \A m \in Mints : InVault(Live', m) = InVault(Live, m)
  PROVE  Money'
<1>1. ASSUME NEW m \in Mints PROVE Conserved(Live', m)
  BY DEF Money, Conserved, Live
<1>2. \A m \in Mints : Conserved(Live, m)' /\ Conserved(committed, m)'
  BY <1>1 DEF Money, Conserved, InVault, Held0
<1> QED BY <1>2 DEF Money

LEMMA SettlePurchaseMoney ==
  ASSUME Safe, Typed', Money, NEW r \in receipts, SettlePurchase(r)
  PROVE  Money'
<1> DEFINE u == r.user
<1>1. /\ purse \in [Users -> Amounts] /\ house \in Amounts /\ pot \in Nat
      /\ hist \in History /\ u \in Users /\ r.toHouse \in Nat /\ r.toPot \in Nat
  BY PartsType DEF Safe, Typed, Receipt
<1>2. purse' \in [Users -> Amounts]
  BY DEF Typed, TypeOK, LiveType, Live
<1>3. /\ purse' = [purse EXCEPT ![u] = Less(@, Sols(r.toHouse + r.toPot))]
      /\ house' = Add(house, Sols(r.toHouse)) /\ pot' = pot + r.toPot
      /\ purse[u][SOL] >= r.toHouse + r.toPot
      /\ hist' = [hist EXCEPT !.bought[u] = @ + 1] /\ committed' = committed
  BY Zenon DEF SettlePurchase, PurchaseClears, Instruction
<1>4. hist'.added = hist.added /\ hist'.removed = hist.removed
  BY <1>1, <1>3 DEF History
<1>5. ASSUME NEW m \in Mints PROVE InVault(Live', m) = InVault(Live, m)
  <2> DEFINE x == InPurses(purse, m)
             y == InPurses(purse', m)
  <2>1. y + purse[u][m] = x + purse'[u][m]
    BY <1>1, <1>2, <1>3, PurseMoves
  <2>2. x \in Nat /\ y \in Nat /\ purse[u][m] \in Nat /\ house[m] \in Nat
    BY <1>1, <1>2, ColumnSum DEF Amounts
  <2>3. /\ purse'[u][m] = purse[u][m] - Sols(r.toHouse + r.toPot)[m]
        /\ house'[m] = house[m] + Sols(r.toHouse)[m]
    BY <1>1, <1>3 DEF Less, Add
  <2>4. InVault(Live, m) = house[m] + Sols(pot)[m] + x
    BY DEF InVault, Live
  <2>5. InVault(Live', m) = house'[m] + Sols(pot')[m] + y
    BY DEF InVault, Live
  <2> HIDE DEF x, y
  <2>6. CASE m = SOL
    BY <1>1, <1>3, <2>1, <2>2, <2>3, <2>4, <2>5, <2>6 DEF Sols
  <2>7. CASE m # SOL
    BY <1>1, <1>3, <2>1, <2>2, <2>3, <2>4, <2>5, <2>7 DEF Sols
  <2> QED BY <2>6, <2>7
<1> QED BY <1>3, <1>4, <1>5, InsideMoney

LEMMA SettleCollectMoney ==
  ASSUME Safe, Typed', Money, NEW r \in receipts, SettleCollect(r)
  PROVE  Money'
<1> DEFINE u == r.user
<1>1. /\ purse \in [Users -> Amounts] /\ house \in Amounts /\ pot \in Nat
      /\ hist \in History /\ u \in Users /\ r.wins \in Amounts /\ r.fromPot \in Nat
  BY PartsType DEF Safe, Typed, Receipt
<1>2. purse' \in [Users -> Amounts]
  BY DEF Typed, TypeOK, LiveType, Live
<1>3. /\ purse' = [purse EXCEPT ![u] = Add(Add(@, r.wins), Sols(r.fromPot))]
      /\ house' = Less(house, r.wins) /\ pot' = pot - r.fromPot
      /\ Covers(house, r.wins) /\ r.fromPot <= pot /\ committed' = committed
  BY Zenon DEF SettleCollect, CollectClears, Instruction
<1>4. hist'.added = hist.added /\ hist'.removed = hist.removed
  BY <1>1 DEF SettleCollect, History
<1>5. ASSUME NEW m \in Mints PROVE InVault(Live', m) = InVault(Live, m)
  <2> DEFINE x == InPurses(purse, m)
             y == InPurses(purse', m)
  <2>1. y + purse[u][m] = x + purse'[u][m]
    BY <1>1, <1>2, <1>3, PurseMoves
  <2>2. /\ x \in Nat /\ y \in Nat /\ purse[u][m] \in Nat /\ house[m] \in Nat
        /\ r.wins[m] \in Nat
    BY <1>1, <1>2, ColumnSum DEF Amounts
  <2>3. /\ purse'[u][m] = purse[u][m] + r.wins[m] + Sols(r.fromPot)[m]
        /\ house'[m] = house[m] - r.wins[m]
    BY <1>1, <1>3 DEF Less, Add
  <2>4. InVault(Live, m) = house[m] + Sols(pot)[m] + x
    BY DEF InVault, Live
  <2>5. InVault(Live', m) = house'[m] + Sols(pot')[m] + y
    BY DEF InVault, Live
  <2> HIDE DEF x, y
  <2>6. CASE m = SOL
    BY <1>1, <1>3, <2>1, <2>2, <2>3, <2>4, <2>5, <2>6 DEF Sols
  <2>7. CASE m # SOL
    BY <1>1, <1>3, <2>1, <2>2, <2>3, <2>4, <2>5, <2>7 DEF Sols
  <2> QED BY <2>6, <2>7
<1> QED BY <1>3, <1>4, <1>5, InsideMoney

LEMMA FloatMoney ==
  ASSUME Safe, Money, NEW w \in Mints, NEW n \in Floats,
         TopUp(w, n) \/ WithdrawHouse(w, n)
  PROVE  Money'
<1>1. /\ n \in Nat /\ house \in Amounts /\ hist \in History /\ pot \in Nat
      /\ purse \in [Users -> Amounts]
  BY ConstantsAssumption, PartsType DEF Safe, Typed
<1>2. pot' = pot /\ purse' = purse /\ committed' = Live'
  BY DEF TopUp, WithdrawHouse, Keep
<1>3. ASSUME NEW m \in Mints PROVE Conserved(Live', m)
  <2>1. /\ house[m] \in Nat /\ hist.removed[m] \in Nat /\ hist.added[m] \in Nat
        /\ Sols(pot)[m] \in Nat /\ InPurses(purse, m) \in Nat
    BY <1>1, ColumnSum DEF Amounts, History, Sols
  <2> DEFINE rest == Sols(pot)[m] + InPurses(purse, m)
  <2>2. rest \in Nat
    BY <2>1
  <2>3. house[m] + rest + hist.removed[m] = Held0(m) + hist.added[m]
    BY <2>1 DEF Money, Conserved, InVault, Live
  <2>4. Conserved(Live', m) <=>
          house'[m] + rest + hist'.removed[m] = Held0(m) + hist'.added[m]
    <3>1. house'[m] \in Int
      BY <1>1, <2>1 DEF TopUp, WithdrawHouse, Amounts
    <3> QED BY <1>2, <2>1, <3>1 DEF Conserved, InVault, Live
  <2>5. Held0(m) \in Nat
    BY ColumnSum, ConstantsAssumption DEF Held0, Amounts, Sols
  <2> HIDE DEF rest
  <2>6. CASE TopUp(w, n)
    <3>1. /\ house'[m] = IF w = m THEN house[m] + n ELSE house[m]
          /\ hist'.added[m] = IF w = m THEN hist.added[m] + n ELSE hist.added[m]
          /\ hist'.removed = hist.removed
      BY <1>1, <2>6 DEF TopUp, Amounts, History
    <3> QED BY <1>1, <2>1, <2>2, <2>3, <2>4, <2>5, <3>1
  <2>7. CASE WithdrawHouse(w, n)
    <3>1. /\ house'[m] = IF w = m THEN house[m] - n ELSE house[m]
          /\ hist'.removed[m] = IF w = m THEN hist.removed[m] + n ELSE hist.removed[m]
          /\ hist'.added = hist.added
      BY <1>1, <2>7 DEF WithdrawHouse, Amounts, History
    <3> QED BY <1>1, <2>1, <2>2, <2>3, <2>4, <2>5, <3>1
  <2> QED BY <2>6, <2>7
<1>4. \A m \in Mints : Conserved(Live, m)' /\ Conserved(committed, m)'
  BY <1>2, <1>3 DEF Conserved, InVault, Held0
<1> QED BY <1>4 DEF Money

LEMMA InitMoney == Init => Money
<1> SUFFICES ASSUME Init, NEW m \in Mints PROVE Conserved(Live, m)
  BY DEF Money, Init
<1>1. /\ purse = Purse0 /\ house = House0 /\ pot = Pot0
      /\ hist.added[m] = 0 /\ hist.removed[m] = 0
  BY DEF Init, Nothing
<1>2. Held0(m) \in Nat
  BY ColumnSum, ConstantsAssumption DEF Held0, Amounts, Sols
<1> QED BY <1>1, <1>2 DEF Conserved, InVault, Held0, Live

LEMMA NextMoney == ASSUME Safe, Money, [Next]_vars PROVE Money'
<1>0. Typed' /\ hist \in History
  BY NextTyped, PartsType DEF Safe, Typed
<1>1. CASE UNCHANGED vars
  BY <1>1, StillMoney DEF vars, Still
<1>2. CASE BeginTx
  BY <1>2, StillMoney DEF BeginTx, Still
<1>3. CASE \E k \in Keys, u \in Users, i \in CardIds : RequestPurchase(k, u, i)
  BY <1>3, StillMoney DEF RequestPurchase, Instruction, Still
<1>4. CASE \E k \in Keys, u \in Users : RequestCollect(k, u)
  BY <1>4, StillMoney DEF RequestCollect, Instruction, Still
<1>5. CASE \E u \in Users : RequestReveal(u)
  BY <1>5, StillMoney DEF RequestReveal, Instruction, Still
<1>6. CASE \E r \in receipts : SettlePurchase(r)
  BY <1>0, <1>6, SettlePurchaseMoney
<1>7. CASE \E r \in receipts : SettleCollect(r)
  BY <1>0, <1>7, SettleCollectMoney
<1>8. CASE CommitTx
  BY <1>8, StillMoney DEF CommitTx, Still
<1>9. CASE AbortTx
  <2>1. Live' = committed /\ committed' = committed
    BY <1>9, Undone DEF Safe
  <2>2. \A m \in Mints : Conserved(Live, m)' /\ Conserved(committed, m)'
    BY <2>1 DEF Money, Conserved, InVault, Held0
  <2> QED BY <2>2 DEF Money
<1>10. CASE \E q \in vrf, s \in Seeds : CallbackReveal(q, s)
  BY <1>10, StillMoney DEF CallbackReveal, Keep, Still
<1>11. CASE \E q \in vrf : LoseRequest(q)
  BY <1>11, StillMoney DEF LoseRequest, Keep, Still
<1>12. ASSUME NEW u \in Users, CloseCard(u) \/ CloseStrayCard(u) PROVE Money'
  <2>1. hist'.added = hist.added /\ hist'.removed = hist.removed
    BY <1>0, <1>12 DEF CloseCard, CloseStrayCard, Drop, History
  <2>2. UNCHANGED <<house, pot, purse>> /\ committed' = Live'
    BY <1>12 DEF CloseCard, CloseStrayCard, Drop, Keep
  <2> QED BY <2>1, <2>2, StillMoney DEF Still
<1>13. CASE \E u \in Users : UpgradePermissions(u)
  BY <1>13, StillMoney DEF UpgradePermissions, Keep, Still
<1>14. CASE \E i \in CardIds, t \in Terms : SetCard(i, t)
  BY <1>14, StillMoney DEF SetCard, Keep, Still
<1>15. CASE \E m \in Mints, n \in Floats : TopUp(m, n) \/ WithdrawHouse(m, n)
  BY <1>15, FloatMoney
<1> QED
  BY <1>1, <1>2, <1>3, <1>4, <1>5, <1>6, <1>7, <1>8, <1>9, <1>10, <1>11,
     <1>12, <1>13, <1>14, <1>15 DEF Next

\* Purchases and collects only move what the vault holds between the players, the
\* house and the pot, whoever interleaves with whom and whatever is undone: a
\* receipt's two halves (request_purchase.rs 46-56, request_collect.rs 92-100) come
\* out of one ledger and arrive on others.
THEOREM MoneyConserved == Spec => []Money
  BY InitMoney, NextMoney, SafeAlways, PTL DEF Spec

\* What the players hold of a mint is what they held before any card, less what
\* the analytics say cards cost, plus what they say was won, the payouts the
\* counters missed and the jackpots.
PlayersBooks ==
    \A m \in Mints :
      /\ books.lamports_in < WordMax /\ books.jackpot_in < WordMax
      /\ books.payouts[m] < WordMax /\ books.jackpot_paid < WordMax
      => InPurses(purse, m) + Sols(books.lamports_in)[m]
           = InPurses(Purse0, m) + books.payouts[m] + hist.unbooked[m]
               + Sols(books.jackpot_paid)[m]

\* The counters and the players' ledgers agree too (state/analytics.rs, written by
\* resolve_purchase.rs 91-100 and resolve_collect.rs 52-70).
THEOREM PlayersBooksAlways == Spec => []PlayersBooks
<1>1. Safe /\ Money => PlayersBooks
  <2> SUFFICES ASSUME Safe, Money, NEW m \in Mints,
                      books.lamports_in < WordMax, books.jackpot_in < WordMax,
                      books.payouts[m] < WordMax, books.jackpot_paid < WordMax
               PROVE  InPurses(purse, m) + Sols(books.lamports_in)[m]
                        = InPurses(Purse0, m) + books.payouts[m] + hist.unbooked[m]
                            + Sols(books.jackpot_paid)[m]
    BY DEF PlayersBooks
  <2>1. /\ purse \in [Users -> Amounts] /\ house \in Amounts /\ pot \in Nat
        /\ books \in Books /\ hist \in History
    BY PartsType DEF Safe, Typed
  <2>2. /\ house[m] \in Nat /\ House0[m] \in Nat /\ Pot0 \in Nat
        /\ books.payouts[m] \in Nat /\ books.lamports_in \in Nat
        /\ books.jackpot_in \in Nat /\ books.jackpot_paid \in Nat
        /\ hist.unbooked[m] \in Nat /\ hist.added[m] \in Nat /\ hist.removed[m] \in Nat
    BY <2>1, ConstantsAssumption DEF Amounts, Books, History
  <2> DEFINE x == InPurses(purse, m)
             y == InPurses(Purse0, m)
  <2>3. x \in Nat /\ y \in Nat
    BY <2>1, ColumnSum, ConstantsAssumption
  <2>4. house[m] + Sols(pot)[m] + x + hist.removed[m]
          = House0[m] + Sols(Pot0)[m] + y + hist.added[m]
    BY DEF Money, Conserved, InVault, Held0, Live
  <2>5. pot + books.jackpot_paid = Pot0 + books.jackpot_in
    BY DEF Safe, Good, PotKept, Live
  <2>6. house[m] + books.payouts[m] + hist.unbooked[m] + hist.removed[m]
          + Sols(books.jackpot_in)[m]
        = House0[m] + hist.added[m] + Sols(books.lamports_in)[m]
    BY DEF Safe, Good, HouseKept, Live
  <2> HIDE DEF x, y
  <2>7. x + Sols(books.lamports_in)[m]
          = y + books.payouts[m] + hist.unbooked[m] + Sols(books.jackpot_paid)[m]
    <3>1. CASE m = SOL
      BY <2>1, <2>2, <2>3, <2>4, <2>5, <2>6, <3>1 DEF Sols
    <3>2. CASE m # SOL
      BY <2>1, <2>2, <2>3, <2>4, <2>5, <2>6, <3>2 DEF Sols
    <3> QED BY <3>1, <3>2
  <2> QED BY <2>7 DEF x, y
<1> QED BY <1>1, SafeAlways, MoneyConserved, PTL

-----------------------------------------------------------------------------
(* Players whose cards nobody closes: no ticket of theirs is forgotten, and  *)
(* what the program's comments say of requests and answers holds of them.    *)

\* A ticket the player holds and was not paid for.
Owns(c, n) == Exists(c) /\ c.status # "Collected" /\ c.ticket = n

\* The card is the player's last ticket, all before it were paid, and a request
\* is as many generations behind the card as tickets.
Faithful(s, u) ==
    /\ s.cards[u].ticket = s.hist.bought[u]
    /\ ~Exists(s.cards[u]) => s.hist.bought[u] = 0
    /\ \A n \in Tickets :
         n <= s.hist.bought[u] => s.hist.paid[u][n] = 1 \/ Owns(s.cards[u], n)
    /\ \A q \in s.vrf :
         q.user = u => q.ticket + s.cards[u].generation
                         = s.cards[u].ticket + q.generation
    /\ u \notin s.hist.stranded

Loyal == \A u \in Users \ Closable : Faithful(Live, u) /\ Faithful(committed, u)

\* Every ticket a player bought was paid once, or is the one it still holds.
NothingForgotten ==
    \A u \in Users \ Closable, n \in Tickets :
        n <= hist.bought[u] => hist.paid[u][n] = 1 \/ Owns(cards[u], n)

\* "Unique per card bought, so no request repeats an earlier card's input"
\* (request_reveal.rs 46).
RequestsUnique ==
    \A q, r \in vrf :
        q.user = r.user /\ q.user \notin Closable /\ q.generation = r.generation
            => q.ticket = r.ticket

\* A step that leaves a player's ticket what it is, and may ask for its seed.
SameTicket(u) ==
    /\ cards'[u].ticket = cards[u].ticket
    /\ cards'[u].generation = cards[u].generation
    /\ Exists(cards'[u]) <=> Exists(cards[u])
    /\ cards'[u].status = "Collected" <=> cards[u].status = "Collected"
    /\ hist'.bought[u] = hist.bought[u] /\ hist'.paid[u] = hist.paid[u]
    /\ u \notin hist'.stranded
    /\ \A q \in vrf' :
         \/ q \in vrf
         \/ q.user # u
         \/ q.ticket = cards[u].ticket /\ q.generation = cards[u].generation

LEMMA SameTicketFaithful ==
  ASSUME NEW u, Faithful(Live, u), SameTicket(u)
  PROVE  Faithful(Live', u)
BY DEF Faithful, SameTicket, Owns, Live

LEMMA LoyalStep ==
  ASSUME Loyal, committed' \in {committed, Live, Live'},
         \A u \in Users \ Closable : SameTicket(u) \/ Faithful(Live', u)
  PROVE  Loyal'
<1>1. ASSUME NEW u \in Users \ Closable
      PROVE  Faithful(Live, u)' /\ Faithful(committed, u)'
  <2>1. Faithful(Live', u)
    BY SameTicketFaithful DEF Loyal
  <2>2. Faithful(committed', u)
    BY <2>1 DEF Loyal
  <2> QED BY <2>1, <2>2 DEF Faithful
<1> QED BY <1>1 DEF Loyal

\* A step that touches no card, ticket or request.
LEMMA LoyalIdle ==
  ASSUME Loyal, committed' \in {committed, Live, Live'},
         cards' = cards, vrf' \subseteq vrf, hist'.bought = hist.bought,
         hist'.paid = hist.paid, hist'.stranded = hist.stranded
  PROVE  Loyal'
<1>1. \A u \in Users \ Closable : SameTicket(u)
  BY DEF Loyal, Faithful, SameTicket, Live
<1> QED BY <1>1, LoyalStep

LEMMA SettlePurchaseLoyal ==
  ASSUME Safe, Loyal, NEW r \in receipts, SettlePurchase(r)
  PROVE  Loyal'
<1> DEFINE b == r.user
<1>1. /\ cards \in [Users -> Card] /\ hist \in History /\ vrf \subseteq Request /\ b \in Users
  BY PartsType DEF Safe, Typed, Receipt
<1>2. /\ cards' = [cards EXCEPT ![b] = Bought(r)] /\ vrf' = vrf
      /\ hist' = [hist EXCEPT !.bought[b] = @ + 1]
      /\ committed' = committed /\ CanBuy(b)
  BY Zenon DEF SettlePurchase, PurchaseClears, Instruction
<1>3. /\ hist'.bought = [hist.bought EXCEPT ![b] = @ + 1]
      /\ hist'.paid = hist.paid /\ hist'.stranded = hist.stranded
      /\ hist.bought \in [Users -> 0 .. MaxBuys]
  BY <1>1, <1>2 DEF History
<1>4. ASSUME NEW u \in Users \ Closable, u # b PROVE SameTicket(u)
  BY <1>1, <1>2, <1>3, <1>4 DEF SameTicket, Loyal, Faithful, Live
<1>5. ASSUME b \notin Closable PROVE Faithful(Live', b)
  <2>1. Faithful(Live, b)
    BY <1>1, <1>5 DEF Loyal
  <2>2. hist.bought[b] \in Nat /\ hist'.bought[b] = hist.bought[b] + 1
    BY <1>1, <1>3, ConstantsAssumption
  <2>3. /\ cards'[b].layout = "full" /\ cards'[b].status = "Bought"
        /\ cards'[b].ticket = hist.bought[b] + 1
        /\ cards'[b].generation = cards[b].generation + 1
    BY <1>1, <1>2 DEF Bought
  <2>4. \A n \in Tickets : n <= hist.bought[b] => hist.paid[b][n] = 1
    BY <1>2, <2>1 DEF Faithful, Owns, CanBuy, Live
  <2>5. ASSUME NEW n \in Tickets, n <= hist'.bought[b]
        PROVE  hist'.paid[b][n] = 1 \/ Owns(cards'[b], n)
    <3>1. n <= hist.bought[b] \/ n = hist.bought[b] + 1
      BY <2>2, <2>5 DEF Tickets
    <3> QED BY <1>3, <2>3, <2>4, <3>1 DEF Owns, Exists
  <2>6. ASSUME NEW q \in vrf, q.user = b
        PROVE  q.ticket + cards'[b].generation = cards'[b].ticket + q.generation
    <3>1. q.ticket + cards[b].generation = cards[b].ticket + q.generation
      BY <2>1, <2>6 DEF Faithful, Live
    <3>2. /\ q.ticket \in Nat /\ q.generation \in Nat /\ cards[b].generation \in Nat
          /\ cards[b].ticket = hist.bought[b]
      BY <1>1, <2>1, ConstantsAssumption DEF Request, Card, Faithful, Live
    <3> QED BY <2>2, <2>3, <3>1, <3>2
  <2>7. b \notin hist'.stranded
    BY <1>3, <2>1 DEF Faithful, Live
  <2> QED BY <1>2, <2>2, <2>3, <2>5, <2>6, <2>7 DEF Faithful, Live, Exists
<1> QED BY <1>2, <1>4, <1>5, LoyalStep

LEMMA SettleCollectLoyal ==
  ASSUME Safe, Loyal, NEW r \in receipts, SettleCollect(r)
  PROVE  Loyal'
<1> DEFINE b == r.user
           k == cards[b].ticket
<1>1. /\ cards \in [Users -> Card] /\ hist \in History /\ b \in Users
  BY PartsType DEF Safe, Typed, Receipt
<1>2. /\ cards' = [cards EXCEPT ![b].status = "Collected"] /\ vrf' = vrf
      /\ committed' = committed /\ Unpaid(cards[b])
  BY Zenon DEF SettleCollect, CollectClears, Instruction
<1>3. /\ hist'.bought = hist.bought /\ hist'.stranded = hist.stranded
      /\ hist'.paid = [hist.paid EXCEPT ![b][k] = @ + 1]
      /\ hist.paid \in [Users -> [Tickets -> Nat]]
  BY <1>1 DEF SettleCollect, History
<1>4. k \in Tickets /\ hist.paid[b][k] = 0
  BY <1>1, <1>2 DEF Safe, Typed, Made, MadeWell, Unpaid, Good, PaidKept, Live
<1>5. ASSUME NEW u \in Users \ Closable, u # b PROVE SameTicket(u)
  BY <1>1, <1>2, <1>3, <1>5 DEF SameTicket, Loyal, Faithful, Live
<1>6. ASSUME b \notin Closable PROVE Faithful(Live', b)
  <2>1. Faithful(Live, b)
    BY <1>1, <1>6 DEF Loyal
  <2>2. /\ cards'[b].ticket = cards[b].ticket /\ cards'[b].status = "Collected"
        /\ cards'[b].generation = cards[b].generation /\ cards'[b].layout = cards[b].layout
    BY <1>1, <1>2 DEF Card
  <2>3. ASSUME NEW n \in Tickets
        PROVE  hist'.paid[b][n] = IF n = k THEN 1 ELSE hist.paid[b][n]
    BY <1>1, <1>3, <1>4
  <2>4. \A n \in Tickets :
          n <= hist.bought[b] => hist.paid[b][n] = 1 \/ n = k
    BY <2>1 DEF Faithful, Owns, Live
  <2> HIDE DEF k
  <2>5. \A n \in Tickets : n <= hist.bought[b] => hist'.paid[b][n] = 1
    BY <2>3, <2>4
  <2> QED BY <1>2, <1>3, <2>1, <2>2, <2>5 DEF Faithful, Live, Exists
<1> QED BY <1>2, <1>5, <1>6, LoyalStep

LEMMA DropLoyal ==
  ASSUME Safe, Loyal, NEW b \in Closable, Drop(b), committed' = Live'
  PROVE  Loyal'
<1>1. cards \in [Users -> Card] /\ hist \in History /\ b \in Users
  BY PartsType, ConstantsAssumption DEF Safe, Typed
<1>2. /\ cards' = [cards EXCEPT ![b] = NoCard] /\ vrf' = vrf
      /\ hist'.bought = hist.bought /\ hist'.paid = hist.paid
      /\ hist'.stranded = hist.stranded \cup {q.user : q \in Owed(b)}
  BY <1>1 DEF Drop, History
<1>3. {q.user : q \in Owed(b)} \subseteq {b}
  BY DEF Owed
<1>4. ASSUME NEW u \in Users \ Closable PROVE SameTicket(u)
  <2>1. cards'[u] = cards[u] /\ u \notin hist.stranded
    BY <1>1, <1>2 DEF Loyal, Faithful, Live
  <2> QED BY <1>2, <1>3, <2>1 DEF SameTicket
<1> QED BY <1>4, LoyalStep

LEMMA InitLoyal == Init => Loyal
<1> SUFFICES ASSUME Init, NEW u \in Users PROVE Faithful(Live, u)
  BY DEF Loyal, Init
<1>1. /\ cards[u] = NoCard \/ \E c \in Carried : cards[u] = Old(c)
      /\ vrf = {} /\ hist.stranded = {} /\ hist.bought[u] = cards[u].ticket
      /\ \A n \in Tickets :
           hist.paid[u][n] = IF n = cards[u].ticket /\ cards[u].status = "Collected"
                             THEN 1 ELSE 0
  BY DEF Init
<1>2. CASE cards[u] = NoCard
  <2>1. \A n \in Tickets : ~(n <= 0)
    BY DEF Tickets
  <2> QED BY <1>1, <1>2, <2>1 DEF Faithful, NoCard, Exists, Live
<1>3. ASSUME NEW c \in Carried, cards[u] = Old(c) PROVE Faithful(Live, u)
  <2>1. cards[u].ticket = 1 /\ Exists(cards[u])
    BY <1>3, ConstantsAssumption DEF Old, Exists
  <2>2. \A n \in Tickets : n <= 1 => n = 1
    BY DEF Tickets
  <2> QED BY <1>1, <2>1, <2>2 DEF Faithful, Owns, Live
<1> QED BY <1>1, <1>2, <1>3

LEMMA NextLoyal == ASSUME Safe, Loyal, [Next]_vars PROVE Loyal'
<1>0. hist \in History /\ cards \in [Users -> Card] /\ vrf \subseteq Request
  BY PartsType DEF Safe, Typed
<1>1. CASE UNCHANGED vars
  BY <1>1, LoyalIdle DEF vars
<1>2. CASE BeginTx
  BY <1>2, LoyalIdle DEF BeginTx
<1>3. CASE \E k \in Keys, u \in Users, i \in CardIds : RequestPurchase(k, u, i)
  BY <1>3, LoyalIdle DEF RequestPurchase, Instruction
<1>4. CASE \E k \in Keys, u \in Users : RequestCollect(k, u)
  BY <1>4, LoyalIdle DEF RequestCollect, Instruction
<1>5. ASSUME NEW b \in Users, RequestReveal(b) PROVE Loyal'
  <2>1. /\ cards' = [cards EXCEPT ![b].status = "Requested"] /\ Waiting(cards[b])
        /\ vrf' = vrf \cup {[user |-> b, generation |-> cards[b].generation,
                             ticket |-> cards[b].ticket]}
        /\ hist' = hist /\ committed' = committed
    BY <1>5 DEF RequestReveal, Instruction
  <2>2. \A u \in Users \ Closable : SameTicket(u)
    BY <1>0, <2>1 DEF SameTicket, Waiting, Exists, Card, Loyal, Faithful, Live
  <2> QED BY <2>1, <2>2, LoyalStep
<1>6. CASE \E r \in receipts : SettlePurchase(r)
  BY <1>6, SettlePurchaseLoyal
<1>7. CASE \E r \in receipts : SettleCollect(r)
  BY <1>7, SettleCollectLoyal
<1>8. CASE CommitTx
  BY <1>8, LoyalIdle DEF CommitTx
<1>9. CASE AbortTx
  <2>1. Live' = committed /\ committed' = committed
    BY <1>9, Undone DEF Safe
  <2>2. \A u \in Users \ Closable : Faithful(Live, u)' /\ Faithful(committed, u)'
    BY <2>1 DEF Loyal, Faithful
  <2> QED BY <2>2 DEF Loyal
<1>10. ASSUME NEW q \in vrf, NEW s \in Seeds, CallbackReveal(q, s) PROVE Loyal'
  <2>1. /\ cards' = [cards EXCEPT ![q.user].seed = s, ![q.user].status = "Revealed",
                                  ![q.user].drawn = q.ticket]
        /\ vrf' = vrf /\ hist' = hist /\ committed' = Live' /\ Answers(q, cards[q.user])
    BY <1>10 DEF CallbackReveal, Keep
  <2>2. \A u \in Users \ Closable : SameTicket(u)
    BY <1>0, <2>1 DEF SameTicket, Answers, Exists, Card, Loyal, Faithful, Live
  <2> QED BY <2>1, <2>2, LoyalStep
<1>11. CASE \E q \in vrf : LoseRequest(q)
  BY <1>11, LoyalIdle DEF LoseRequest, Keep
<1>12. CASE \E u \in Users : CloseCard(u) \/ CloseStrayCard(u)
  BY <1>12, DropLoyal DEF CloseCard, CloseStrayCard, Keep
<1>13. CASE \E u \in Users : UpgradePermissions(u)
  BY <1>13, LoyalIdle DEF UpgradePermissions, Keep
<1>14. CASE \E i \in CardIds, t \in Terms : SetCard(i, t)
  BY <1>14, LoyalIdle DEF SetCard, Keep
<1>15. ASSUME NEW m \in Mints, NEW n \in Floats, TopUp(m, n) \/ WithdrawHouse(m, n)
       PROVE  Loyal'
  <2>1. /\ cards' = cards /\ vrf' = vrf /\ committed' = Live'
        /\ hist'.bought = hist.bought /\ hist'.paid = hist.paid
        /\ hist'.stranded = hist.stranded
    BY <1>0, <1>15 DEF TopUp, WithdrawHouse, Keep, History
  <2> QED BY <2>1, LoyalIdle
<1> QED
  BY <1>1, <1>2, <1>3, <1>4, <1>5, <1>6, <1>7, <1>8, <1>9, <1>10, <1>11,
     <1>12, <1>13, <1>14, <1>15 DEF Next

LEMMA LoyalAlways == Spec => []Loyal
  BY InitLoyal, NextLoyal, SafeAlways, PTL DEF Spec

\* No ticket is forgotten: whatever is retried, undone or answered late, a ticket
\* that was bought was paid, exactly once, or is the card the player holds, unless
\* the operator may close that player's card (resolve_purchase.rs 58-60 and
\* resolve_collect.rs 40-50).
THEOREM NothingForgottenAlways == Spec => []NothingForgotten
<1>1. Loyal => NothingForgotten
  BY DEF Loyal, Faithful, NothingForgotten, Live
<1> QED BY <1>1, LoyalAlways, PTL

\* Nor does a request repeat an earlier card's generation, there.
THEOREM RequestsUniqueAlways == Spec => []RequestsUnique
<1>1. Typed /\ Loyal => RequestsUnique
  <2> SUFFICES ASSUME Typed, Loyal, NEW q \in vrf, NEW r \in vrf, q.user = r.user,
                      q.user \notin Closable, q.generation = r.generation
               PROVE  q.ticket = r.ticket
    BY DEF RequestsUnique
  <2>1. vrf \subseteq Request /\ cards \in [Users -> Card]
    BY PartsType DEF Typed
  <2> DEFINE c == cards[q.user]
  <2>2. /\ q.ticket \in Nat /\ r.ticket \in Nat /\ q.generation \in Nat
        /\ c.generation \in Nat /\ c.ticket \in Nat /\ q.user \in Users
    BY <2>1, ConstantsAssumption DEF Request, Card
  <2>3. /\ q.ticket + c.generation = c.ticket + q.generation
        /\ r.ticket + c.generation = c.ticket + q.generation
    BY <2>2 DEF Loyal, Faithful, Live
  <2> HIDE DEF c
  <2> QED BY <2>2, <2>3
<1> QED BY <1>1, TypedAlways, LoyalAlways, PTL

\* What request_reveal (line 62) and the README say of late answers, without any
\* exception, where the operator closes no card: the counterexample of the run on
\* this property needs CloseCard.
THEOREM StaleAnswersRejectedUnclosed ==
  ASSUME Closable = {} PROVE Spec => []StaleAnswersRejected
<1>1. Loyal /\ AnswersMatch => StaleAnswersRejected
  BY DEF Loyal, Faithful, AnswersMatch, StaleAnswersRejected, Live
<1> QED BY <1>1, LoyalAlways, AnswersMatchAlways, PTL

-----------------------------------------------------------------------------
(* The ticket: Ticket is seen through `committed`, so its steps are the    *)
(* transactions that are kept.  The invariant Along says how far the       *)
(* running one has taken each player's ticket since it began.              *)

\* What a rollup state s shows of player u.
Shown(s, u) == Held(s.cards[u])
PaidIn(s, u) == {n \in Tickets : s.hist.paid[u][n] > 0}
Fresh(n, t) == [n |-> n, stage |-> "sold", terms |-> t, seed |-> NoSeed]
Drawn(old, s) == [n |-> old.n, stage |-> "drawn", terms |-> old.terms, seed |-> s]

\* The ways one player's part of the rollup state may go from a to b.
Stays(a, b, u) == /\ Shown(b, u) = Shown(a, u)
                  /\ b.hist.bought[u] = a.hist.bought[u]
                  /\ PaidIn(b, u) = PaidIn(a, u)
Sells(a, b, u) == /\ Shown(a, u).stage \in {"none", "paid"}
                  /\ \E t \in Terms : Shown(b, u) = Fresh(a.hist.bought[u] + 1, t)
                  /\ b.hist.bought[u] = a.hist.bought[u] + 1
                  /\ PaidIn(b, u) = PaidIn(a, u)
Pays(a, b, u) == /\ Shown(a, u).stage = "drawn"
                 /\ Shown(b, u) = [Shown(a, u) EXCEPT !.stage = "paid"]
                 /\ b.hist.bought[u] = a.hist.bought[u]
                 /\ PaidIn(b, u) = PaidIn(a, u) \cup {Shown(a, u).n}
PaysAndSells(a, b, u) ==
    /\ Shown(a, u).stage = "drawn"
    /\ \E t \in Terms : Shown(b, u) = Fresh(a.hist.bought[u] + 1, t)
    /\ b.hist.bought[u] = a.hist.bought[u] + 1
    /\ PaidIn(b, u) = PaidIn(a, u) \cup {Shown(a, u).n}
Draws(a, b, u) == /\ Shown(a, u).stage = "sold"
                  /\ \E s \in Seeds :
                       Shown(b, u) = Drawn(Shown(a, u), s)
                  /\ b.hist.bought[u] = a.hist.bought[u]
                  /\ PaidIn(b, u) = PaidIn(a, u)
Voids(a, b, u) == /\ Shown(a, u).stage # "none"
                  /\ Shown(b, u) = Held(NoCard)
                  /\ b.hist.bought[u] = a.hist.bought[u]
                  /\ PaidIn(b, u) = PaidIn(a, u)

\* What one transaction of a player may do to a ticket.
Moves(a, b, u) == \/ Stays(a, b, u) \/ Sells(a, b, u)
                  \/ Pays(a, b, u) \/ PaysAndSells(a, b, u)

Along == \A u \in Users : Moves(committed, Live, u)

\* The whole invariant.
Kept == Safe /\ Along

-----------------------------------------------------------------------------

\* A step of the snapshot by which every player's ticket moves is a step of
\* Ticket.
LEMMA StepOfTicket ==
  ASSUME \A u \in Users : \/ Moves(committed, committed', u)
                          \/ Draws(committed, committed', u)
                          \/ Voids(committed, committed', u)
  PROVE  Promise!Next
<1> SUFFICES ASSUME NEW u \in Users
             PROVE  \/ Promise!Sell(u) \/ Promise!Draw(u) \/ Promise!Pay(u)
                    \/ Promise!PayAndSell(u) \/ Promise!Void(u) \/ Promise!Stay(u)
  BY DEF Promise!Next
<1>1. CASE Stays(committed, committed', u)
  BY <1>1 DEF Stays, Shown, PaidIn, Promise!Stay
<1>2. CASE Sells(committed, committed', u)
  BY <1>2 DEF Sells, Shown, PaidIn, Fresh, Promise!Sell, Promise!Fresh
<1>3. CASE Pays(committed, committed', u)
  BY <1>3 DEF Pays, Shown, PaidIn, Promise!Pay
<1>4. CASE PaysAndSells(committed, committed', u)
  BY <1>4 DEF PaysAndSells, Shown, PaidIn, Fresh, Promise!PayAndSell, Promise!Fresh
<1>5. CASE Draws(committed, committed', u)
  BY <1>5 DEF Draws, Shown, PaidIn, Drawn, Promise!Draw, Promise!Drawn
<1>6. CASE Voids(committed, committed', u)
  <2>1. Held(NoCard) = Promise!Nobody
    BY DEF Held, NoCard, Exists, Promise!Nobody
  <2>2. QED
    BY <1>6, <2>1 DEF Voids, Shown, PaidIn, Promise!Void
<1>7. QED
  BY <1>1, <1>2, <1>3, <1>4, <1>5, <1>6 DEF Moves

\* A step that leaves the snapshot alone is a stutter of Ticket.
LEMMA StutterOfTicket ==
  ASSUME committed' = committed
  PROVE  UNCHANGED Promise!ticketVars
  BY DEF Promise!ticketVars

\* The initial states are initial states of Ticket.
LEMMA InitKept == Init => Kept /\ Promise!Init
<1> SUFFICES ASSUME Init PROVE Kept /\ Promise!Init
  OBVIOUS
<1>1. Safe
  BY InitSafe
<1>2. committed = Live
  BY DEF Init
<1>3. Along
  BY <1>2 DEF Along, Moves, Stays
<1>4. ASSUME NEW u \in Users
      PROVE  \/ /\ Held(cards[u]) = Promise!Nobody
                /\ hist.bought[u] = 0 /\ PaidIn(Live, u) = {}
             \/ /\ Held(cards[u]).n = 1 /\ hist.bought[u] = 1
                /\ \/ Held(cards[u]).stage = "sold" /\ PaidIn(Live, u) = {}
                   \/ Held(cards[u]).stage = "drawn" /\ PaidIn(Live, u) = {}
                   \/ Held(cards[u]).stage = "paid" /\ PaidIn(Live, u) = {1}
  <2>1. /\ hist.bought[u] = cards[u].ticket
        /\ \A n \in Tickets :
             hist.paid[u][n] = IF n = cards[u].ticket /\ cards[u].status = "Collected"
                               THEN 1 ELSE 0
    BY DEF Init
  <2>2. 1 \in Tickets /\ 0 \notin Tickets
    BY ConstantsAssumption DEF Tickets
  <2>3. CASE cards[u] = NoCard
    <3>1. hist.bought[u] = 0 /\ PaidIn(Live, u) = {}
      BY <2>1, <2>2, <2>3 DEF NoCard, PaidIn, Live
    <3>2. Held(cards[u]) = Promise!Nobody
      BY <2>3 DEF NoCard, Held, Exists, Promise!Nobody
    <3>3. QED
      BY <3>1, <3>2
  <2>4. ASSUME NEW c \in Carried, cards[u] = Old(c)
        PROVE  /\ Held(cards[u]).n = 1 /\ hist.bought[u] = 1
               /\ \/ Held(cards[u]).stage = "sold" /\ PaidIn(Live, u) = {}
                  \/ Held(cards[u]).stage = "drawn" /\ PaidIn(Live, u) = {}
                  \/ Held(cards[u]).stage = "paid" /\ PaidIn(Live, u) = {1}
    <3>1. cards[u].ticket = 1 /\ Exists(cards[u]) /\ cards[u].status \in Status
      BY <2>4, ConstantsAssumption DEF Old, Exists
    <3>2. PaidIn(Live, u) = IF cards[u].status = "Collected" THEN {1} ELSE {}
      BY <2>1, <2>2, <3>1 DEF PaidIn, Live
    <3>3. QED
      BY <2>1, <3>1, <3>2 DEF Held, Stage, Status
  <2>5. cards[u] = NoCard \/ \E c \in Carried : cards[u] = Old(c)
    BY DEF Init
  <2>6. QED
    BY <2>3, <2>4, <2>5
<1>5. Promise!Init
  BY <1>2, <1>4 DEF Promise!Init, Live, PaidIn
<1>6. QED
  BY <1>1, <1>3, <1>5 DEF Kept

\* An instruction that shows nothing of any ticket leaves every ticket where
\* the transaction had taken it.
LEMMA SameShown ==
  ASSUME Along, committed' = committed, \A u \in Users : Stays(Live, Live', u)
  PROVE  Along'
  BY DEF Along, Moves, Stays, Sells, Pays, PaysAndSells

\* A transaction of one instruction starts from the snapshot.
LEMMA SingleStart ==
  ASSUME Kept, Single, Keep
  PROVE  committed = Live /\ committed' = Live'
  BY DEF Kept, Safe, Typed, TypeOK, Single, Keep

\* So its step on the working state is its step on the snapshot.
LEMMA SingleKept ==
  ASSUME Kept, Single, Keep,
         \A u \in Users : \/ Stays(Live, Live', u) \/ Draws(Live, Live', u)
                          \/ Voids(Live, Live', u)
  PROVE  Along' /\ Promise!Next
<1>1. committed = Live /\ committed' = Live'
  BY SingleStart
<1>2. Along'
  BY <1>1 DEF Along, Moves, Stays
<1>3. \A u \in Users : \/ Moves(committed, committed', u)
                       \/ Draws(committed, committed', u)
                       \/ Voids(committed, committed', u)
  BY <1>1 DEF Moves
<1>4. QED
  BY <1>2, <1>3, StepOfTicket

\* A request for randomness is not seen: bought and requested are both "sold".
LEMMA RequestRevealAlong ==
  ASSUME Kept, NEW u \in Users, RequestReveal(u)
  PROVE  Along' /\ committed' = committed
<1>1. cards \in [Users -> Card]
  BY PartsType DEF Kept, Safe, Typed
<1>2. /\ cards' = [cards EXCEPT ![u].status = "Requested"] /\ hist' = hist
      /\ Exists(cards[u]) /\ cards[u].status \in {"Bought", "Requested"}
      /\ committed' = committed
  BY DEF RequestReveal, Waiting, Instruction
<1>3. ASSUME NEW v \in Users PROVE Held(cards'[v]) = Held(cards[v])
  <2>1. CASE v = u
    <3>1. /\ cards'[u].layout = cards[u].layout /\ cards'[u].ticket = cards[u].ticket
          /\ cards'[u].terms = cards[u].terms /\ cards'[u].status = "Requested"
      BY <1>1, <1>2 DEF Card
    <3>2. QED
      BY <1>2, <2>1, <3>1 DEF Held, Stage, Exists, Status
  <2>2. CASE v # u
    BY <1>1, <1>2, <2>2
  <2>3. QED
    BY <2>1, <2>2
<1>4. \A v \in Users : Stays(Live, Live', v)
  BY <1>2, <1>3 DEF Stays, Shown, PaidIn, Live
<1>5. QED
  BY <1>2, <1>4, SameShown DEF Kept

\* A sale leaves a ticket that is sold.
LEMMA SoldNow ==
  ASSUME NEW a, NEW b, NEW u, Sells(a, b, u) \/ PaysAndSells(a, b, u)
  PROVE  Shown(b, u).stage = "sold"
<1>1. PICK n, t : Shown(b, u) = Fresh(n, t)
  BY DEF Sells, PaysAndSells
<1>2. QED
  BY <1>1 DEF Fresh

\* A purchase settles only for a player whose ticket, if any, was paid before
\* or earlier in the same transaction.
LEMMA SettlePurchaseAlong ==
  ASSUME Kept, NEW r \in receipts, SettlePurchase(r)
  PROVE  Along' /\ committed' = committed
<1> DEFINE w == r.user
<1>1. w \in Users /\ r.card_id \in CardIds /\ shelf[r.card_id] \in Terms
  BY PartsType DEF Kept, Safe, Typed, Receipt
<1>2. cards \in [Users -> Card] /\ hist \in History
  BY PartsType DEF Kept, Safe, Typed
<1>3. /\ cards' = [cards EXCEPT ![w] = Bought(r)]
      /\ hist' = [hist EXCEPT !.bought[w] = @ + 1]
      /\ Exists(cards[w]) => cards[w].status = "Collected"
      /\ committed' = committed
  BY DEF SettlePurchase, PurchaseClears, CanBuy, Instruction
<1>4. /\ hist'.paid = hist.paid
      /\ \A u \in Users : hist'.bought[u] = IF u = w THEN hist.bought[u] + 1
                                            ELSE hist.bought[u]
  BY <1>1, <1>2, <1>3 DEF History
<1>5. ASSUME NEW u \in Users, u # w PROVE Stays(Live, Live', u)
  <2>1. cards'[u] = cards[u]
    BY <1>1, <1>2, <1>3, <1>5
  <2>2. QED
    BY <1>4, <1>5, <2>1 DEF Stays, Shown, PaidIn, Live
<1>6. Sells(Live, Live', w)
  <2>1. Shown(Live, w).stage \in {"none", "paid"}
    BY <1>3 DEF Shown, Live, Held, Stage, Status
  <2>2. Shown(Live', w) = Fresh(hist.bought[w] + 1, shelf[r.card_id])
    <3>1. cards'[w] = Bought(r)
      BY <1>1, <1>2, <1>3
    <3>2. QED
      BY <3>1 DEF Shown, Live, Held, Stage, Status, Bought, Exists, Fresh
  <2>3. PaidIn(Live', w) = PaidIn(Live, w)
    BY <1>4 DEF PaidIn, Live
  <2>4. QED
    BY <1>1, <1>4, <2>1, <2>2, <2>3 DEF Sells, Live
<1>7. Moves(committed, Live', w)
  <2>1. Moves(committed, Live, w)
    BY <1>1 DEF Kept, Along
  <2>2. CASE Stays(committed, Live, w)
    BY <1>6, <2>2 DEF Moves, Stays, Sells
  <2>3. CASE Pays(committed, Live, w)
    BY <1>6, <2>3 DEF Moves, Pays, Sells, PaysAndSells
  <2>4. CASE Sells(committed, Live, w) \/ PaysAndSells(committed, Live, w)
    <3>1. Shown(Live, w).stage = "sold"
      BY <2>4, SoldNow
    <3>2. QED
      BY <1>6, <3>1 DEF Sells
  <2>5. QED
    BY <2>1, <2>2, <2>3, <2>4 DEF Moves
<1>8. ASSUME NEW u \in Users, u # w PROVE Moves(committed, Live', u)
  <2>1. Moves(committed, Live, u) /\ Stays(Live, Live', u)
    BY <1>5, <1>8 DEF Kept, Along
  <2>2. QED
    BY <2>1 DEF Moves, Stays, Sells, Pays, PaysAndSells
<1>9. QED
  BY <1>3, <1>7, <1>8 DEF Along

\* A collect pays a drawn ticket that the transaction did not pay before.
LEMMA SettleCollectAlong ==
  ASSUME Kept, NEW r \in receipts, SettleCollect(r)
  PROVE  Along' /\ committed' = committed
<1> DEFINE w == r.user
           c == cards[w]
<1>1. w \in Users
  BY PartsType DEF Kept, Safe, Typed, Receipt
<1>2. cards \in [Users -> Card] /\ hist \in History
  BY PartsType DEF Kept, Safe, Typed
<1>3. Exists(c) /\ c.status = "Revealed" /\ c.ticket \in Tickets
  BY <1>1 DEF Kept, Safe, Typed, Made, MadeWell, SettleCollect, CollectClears, Unpaid
<1>4. /\ cards' = [cards EXCEPT ![w].status = "Collected"]
      /\ committed' = committed
  BY DEF SettleCollect, CollectClears, Instruction
<1>5. /\ hist'.bought = hist.bought
      /\ hist'.paid = [hist.paid EXCEPT ![w][c.ticket] = @ + 1]
  BY <1>2 DEF SettleCollect, CollectClears, History
<1>6. \A u \in Users \ {w} : cards'[u] = cards[u]
  BY <1>1, <1>2, <1>4
<1>7. /\ cards'[w].layout = c.layout /\ cards'[w].ticket = c.ticket
      /\ cards'[w].terms = c.terms /\ cards'[w].seed = c.seed
      /\ cards'[w].status = "Collected"
  BY <1>1, <1>2, <1>4 DEF Card
<1>8. \A u \in Users, n \in Tickets :
        /\ hist.paid[u][n] \in Nat
        /\ hist'.paid[u][n] = IF u = w /\ n = c.ticket THEN hist.paid[u][n] + 1
                              ELSE hist.paid[u][n]
  <2>1. hist.paid \in [Users -> [Tickets -> Nat]]
    BY <1>2 DEF History
  <2>2. QED
    BY <1>1, <1>3, <1>5, <2>1
<1> HIDE DEF c
<1>9. ASSUME NEW u \in Users, u # w PROVE Stays(Live, Live', u)
  BY <1>5, <1>6, <1>8, <1>9 DEF Stays, Shown, PaidIn, Live
<1>10. Pays(Live, Live', w)
  <2>1. Shown(Live, w) = [n |-> c.ticket, stage |-> "drawn", terms |-> c.terms,
                          seed |-> c.seed]
    BY <1>3 DEF Shown, Live, Held, Stage, Status, c
  <2>2. Shown(Live', w) = [n |-> c.ticket, stage |-> "paid", terms |-> c.terms,
                           seed |-> c.seed]
    BY <1>3, <1>7 DEF Shown, Live, Held, Stage, Status, Exists
  <2>3. PaidIn(Live', w) = PaidIn(Live, w) \cup {c.ticket}
    BY <1>1, <1>3, <1>8 DEF PaidIn, Live
  <2>4. hist'.bought[w] = hist.bought[w]
    BY <1>5
  <2>5. QED
    BY <2>1, <2>2, <2>3, <2>4 DEF Pays, Live
<1>11. Moves(committed, Live', w)
  <2>1. Moves(committed, Live, w)
    BY <1>1 DEF Kept, Along
  <2>2. CASE Stays(committed, Live, w)
    BY <1>10, <2>2 DEF Moves, Stays, Pays
  <2>3. CASE ~Stays(committed, Live, w)
    <3>1. Shown(Live, w).stage # "drawn"
      <4>1. CASE Sells(committed, Live, w) \/ PaysAndSells(committed, Live, w)
        BY <4>1, SoldNow
      <4>2. CASE Pays(committed, Live, w)
        <5>1. [Shown(committed, w) EXCEPT !.stage = "paid"].stage = "paid"
          BY DEF Shown, Held
        <5>2. QED
          BY <4>2, <5>1 DEF Pays
      <4>3. QED
        BY <2>1, <2>3, <4>1, <4>2 DEF Moves
    <3>2. QED
      BY <1>10, <3>1 DEF Pays
  <2>4. QED
    BY <2>2, <2>3
<1>12. ASSUME NEW u \in Users, u # w PROVE Moves(committed, Live', u)
  <2>1. Moves(committed, Live, u) /\ Stays(Live, Live', u)
    BY <1>9, <1>12 DEF Kept, Along
  <2>2. QED
    BY <2>1 DEF Moves, Stays, Sells, Pays, PaysAndSells
<1>13. QED
  BY <1>4, <1>11, <1>12 DEF Along

\* An answer draws a sold ticket.
LEMMA CallbackRevealAlong ==
  ASSUME Kept, NEW q \in vrf, NEW s \in Seeds, CallbackReveal(q, s)
  PROVE  Along' /\ Promise!Next
<1> DEFINE w == q.user
<1>1. w \in Users /\ cards \in [Users -> Card]
  BY PartsType DEF Kept, Safe, Typed, Request
<1>2. /\ Exists(cards[w]) /\ cards[w].status = "Requested" /\ hist' = hist
      /\ cards' = [cards EXCEPT ![w].seed = s, ![w].status = "Revealed",
                                ![w].drawn = q.ticket]
  BY DEF CallbackReveal, Answers
<1>3. \A u \in Users \ {w} : cards'[u] = cards[u]
  BY <1>1, <1>2
<1>4. /\ cards'[w].layout = cards[w].layout /\ cards'[w].ticket = cards[w].ticket
      /\ cards'[w].terms = cards[w].terms /\ cards'[w].seed = s
      /\ cards'[w].status = "Revealed"
  BY <1>1, <1>2 DEF Card
<1>5. \A u \in Users \ {w} : Stays(Live, Live', u)
  BY <1>2, <1>3 DEF Stays, Shown, PaidIn, Live
<1>6. Draws(Live, Live', w)
  <2>1. Shown(Live, w) = [n |-> cards[w].ticket, stage |-> "sold",
                          terms |-> cards[w].terms, seed |-> NoSeed]
    BY <1>2 DEF Shown, Live, Held, Stage, Status
  <2>2. Shown(Live', w) = [n |-> cards[w].ticket, stage |-> "drawn",
                           terms |-> cards[w].terms, seed |-> s]
    BY <1>2, <1>4 DEF Shown, Live, Held, Stage, Status, Exists
  <2>3. Shown(Live', w) = Drawn(Shown(Live, w), s)
    BY <2>1, <2>2 DEF Drawn
  <2>4. Live'.hist = Live.hist
    BY <1>2 DEF Live
  <2>5. Shown(Live, w).stage = "sold"
    BY <2>1
  <2>6. PaidIn(Live', w) = PaidIn(Live, w)
    BY <2>4 DEF PaidIn
  <2>7. QED
    BY <2>3, <2>4, <2>5, <2>6, Zenon DEF Draws
<1>7. QED
  BY <1>5, <1>6, SingleKept DEF CallbackReveal

\* A closed card is a ticket taken away.
LEMMA DropAlong ==
  ASSUME Kept, NEW w \in Users, Single, Keep, Exists(cards[w]), Drop(w)
  PROVE  Along' /\ Promise!Next
<1>1. cards \in [Users -> Card] /\ hist \in History
  BY PartsType DEF Kept, Safe, Typed
<1>2. /\ hist'.bought = hist.bought /\ hist'.paid = hist.paid
      /\ cards' = [cards EXCEPT ![w] = NoCard]
  BY <1>1 DEF Drop, History
<1>3. \A u \in Users \ {w} : Stays(Live, Live', u)
  BY <1>1, <1>2 DEF Stays, Shown, PaidIn, Live
<1>4. Voids(Live, Live', w)
  <2>1. Shown(Live, w).stage # "none"
    BY <1>1 DEF Shown, Live, Held, Stage, Card, Status
  <2>2. Shown(Live', w) = Held(NoCard)
    BY <1>1, <1>2 DEF Shown, Live
  <2>3. QED
    BY <1>2, <2>1, <2>2 DEF Voids, PaidIn, Live
<1>5. QED
  BY <1>3, <1>4, SingleKept

\* A transaction of one instruction that touches no card and no history of
\* purchases and payments shows nothing of any ticket.
LEMMA SingleSame ==
  ASSUME Kept, Single, Keep, cards' = cards,
         hist'.bought = hist.bought, hist'.paid = hist.paid
  PROVE  Along' /\ Promise!Next
<1>1. \A u \in Users : Stays(Live, Live', u)
  BY DEF Stays, Shown, PaidIn, Live
<1>2. QED
  BY <1>1, SingleKept

\* Every step is a step of Ticket or a stutter, and keeps the invariant.
LEMMA NextKept ==
  ASSUME Kept, [Next]_vars
  PROVE  Kept' /\ [Promise!Next]_Promise!ticketVars
<1> SUFFICES Along' /\ (Promise!Next \/ committed' = committed)
  <2>1. Safe'
    BY NextSafe DEF Kept
  <2>2. QED
    BY <2>1, StutterOfTicket DEF Kept
<1>0. hist \in History
  BY PartsType DEF Kept, Safe, Typed
<1>1. CASE UNCHANGED vars
  <2>1. Live' = Live /\ committed' = committed
    BY <1>1 DEF vars, Live
  <2>2. QED
    BY <2>1 DEF Kept, Along
<1>2. CASE BeginTx
  <2>1. Live' = Live /\ committed' = committed
    BY <1>2 DEF BeginTx, Live
  <2>2. QED
    BY <2>1 DEF Kept, Along
<1>3. CASE \E k \in Keys, u \in Users, i \in CardIds : RequestPurchase(k, u, i)
  <2>1. Live' = Live /\ committed' = committed
    BY <1>3 DEF RequestPurchase, Instruction, Live
  <2>2. QED
    BY <2>1 DEF Kept, Along
<1>4. CASE \E k \in Keys, u \in Users : RequestCollect(k, u)
  <2>1. Live' = Live /\ committed' = committed
    BY <1>4 DEF RequestCollect, Collectable, Won, Instruction, Live
  <2>2. QED
    BY <2>1 DEF Kept, Along
<1>5. CASE \E u \in Users : RequestReveal(u)
  BY <1>5, RequestRevealAlong
<1>6. CASE \E r \in receipts : SettlePurchase(r)
  BY <1>6, SettlePurchaseAlong
<1>7. CASE \E r \in receipts : SettleCollect(r)
  BY <1>7, SettleCollectAlong
<1>8. CASE CommitTx
  <2>1. committed' = Live /\ Live' = Live
    BY <1>8 DEF CommitTx, Live
  <2>2. \A u \in Users : Moves(committed, committed', u)
    BY <2>1 DEF Kept, Along
  <2>3. Along'
    BY <2>1 DEF Along, Moves, Stays
  <2>4. QED
    BY <2>2, <2>3, StepOfTicket
<1>9. CASE AbortTx
  <2>1. Live' = committed /\ committed' = committed
    BY <1>9, Undone DEF Kept, Safe
  <2>2. QED
    BY <2>1 DEF Along, Moves, Stays
<1>10. CASE \E q \in vrf, s \in Seeds : CallbackReveal(q, s)
  BY <1>10, CallbackRevealAlong
<1>11. CASE \E q \in vrf : LoseRequest(q)
  BY <1>11, SingleSame DEF LoseRequest
<1>12. CASE \E u \in Users : CloseCard(u)
  BY <1>12, DropAlong DEF CloseCard
<1>13. CASE \E u \in Users : CloseStrayCard(u)
  BY <1>13, DropAlong DEF CloseStrayCard, Exists
<1>14. CASE \E u \in Users : UpgradePermissions(u)
  BY <1>14, SingleSame DEF UpgradePermissions
<1>15. CASE \E i \in CardIds, t \in Terms : SetCard(i, t)
  BY <1>15, SingleSame DEF SetCard
<1>16. CASE \E m \in Mints, n \in Floats : TopUp(m, n) \/ WithdrawHouse(m, n)
  <2>1. /\ Single /\ Keep /\ cards' = cards
        /\ hist'.bought = hist.bought /\ hist'.paid = hist.paid
    BY <1>0, <1>16 DEF TopUp, WithdrawHouse, History
  <2>2. QED
    BY <2>1, SingleSame
<1>17. QED
  BY <1>1, <1>2, <1>3, <1>4, <1>5, <1>6, <1>7, <1>8, <1>9, <1>10, <1>11,
     <1>12, <1>13, <1>14, <1>15, <1>16 DEF Next

\* The program keeps its promise to every player, whatever transactions,
\* retries, late answers and closures are interleaved: ScratchCards implements
\* Ticket.
THEOREM ImplementsTicket == Spec => TicketPromise
<1>1. Init => Kept /\ Promise!Init
  BY InitKept
<1>2. Kept /\ [Next]_vars => Kept' /\ [Promise!Next]_Promise!ticketVars
  BY NextKept
<1>3. QED
  BY <1>1, <1>2, PTL DEF Spec, TicketPromise, Promise!Spec

-----------------------------------------------------------------------------
(* The clients *)

LEMMA PlayStep == [PlayNext]_playVars => [Next]_vars
  <1> SUFFICES ASSUME [PlayNext]_playVars PROVE [Next]_vars  OBVIOUS
  <1>1. ASSUME NEW u \in Users, Client(u) PROVE UNCHANGED vars
    BY <1>1 DEF Client, StartRun, Finish, EndRun, SeeSeed, GiveUp, Send
  <1>2. ASSUME NEW u \in Users, Die(u) PROVE UNCHANGED vars
    BY <1>2 DEF Die
  <1>3. ASSUME NEW u \in Users, Answer(u) PROVE Next
    BY <1>3 DEF Answer, Next
  <1>4. ASSUME NEW t \in flight, DropTx(t) PROVE UNCHANGED vars
    BY <1>4 DEF DropTx
  <1>5. ASSUME NEW t \in flight, Begin(t) PROVE Next
    BY <1>5 DEF Begin, Next
  <1>6. ASSUME Execute PROVE Next
    <2>1. CASE FirstOf(running)
      <3>1. ASSUME NEW u \in Users, RequestReveal(u) PROVE Next
        BY <3>1 DEF Next
      <3>2. ASSUME NEW k \in Keys, NEW u \in Users, NEW i \in CardIds,
                   RequestPurchase(k, u, i)
            PROVE  Next
        BY <3>2 DEF Next
      <3>3. ASSUME NEW k \in Keys, NEW u \in Users, RequestCollect(k, u) PROVE Next
        BY <3>3 DEF Next
      <3> QED  BY <2>1, <3>1, <3>2, <3>3 DEF FirstOf
    <2>2. CASE SettleOf(running)
      BY <2>2 DEF SettleOf, Next
    <2> QED  BY <1>6, <2>1, <2>2 DEF Execute, Instructions
  <1>7. ASSUME Land \/ Fail PROVE Next
    BY <1>7 DEF Land, Fail, Next
  <1>8. ASSUME Lose PROVE Next
    BY <1>8 DEF Lose, Next
  <1>9. CASE UNCHANGED playVars
    BY <1>9 DEF playVars
  <1> QED
    BY <1>1, <1>2, <1>3, <1>4, <1>5, <1>6, <1>7, <1>8, <1>9 DEF PlayNext, Rollup

\* Every behaviour of the clients is one of the program. That holds as the
\* clients' steps are written, from the program's own: it only carries what is
\* proved of the program over to its clients.
LEMMA PlayImplements == PlaySpec => Spec
  BY PlayStep, PTL DEF PlaySpec, PlayInit, Spec

\* However runs die, overlap and are repeated, no ticket is paid twice: what
\* they leave in flight may land any number of times over.
THEOREM PlayPaysOnce == PlaySpec => []PaidOnce
  BY PlayImplements, PaidOnceAlways, PTL

\* And no seed answers a ticket it was not drawn for, though every restart may
\* ask for it again.
THEOREM PlayAnswersMatch == PlaySpec => []AnswersMatch
  BY PlayImplements, AnswersMatchAlways, PTL

\* A player's ticket is kept its promise whatever becomes of the clients.
THEOREM PlayKeepsTicket == PlaySpec => TicketPromise
  BY PlayImplements, ImplementsTicket, PTL

\* And no ticket is forgotten between two runs.
THEOREM PlayForgetsNothing == PlaySpec => []NothingForgotten
  BY PlayImplements, NothingForgottenAlways, PTL

-----------------------------------------------------------------------------
(* What a run knows of its card: the card a transaction meets has the status *)
(* its run saw or waited for.                                                *)

\* What a run that is about to do `next` takes the card to be.
Expects(next, c) ==
    /\ next = "buy" => (Exists(c) => c.status = "Collected")
    /\ next = "reveal" => Exists(c) /\ c.status \in {"Bought", "Requested", "Revealed"}
    /\ next = "seed" => Exists(c) /\ c.status \in {"Requested", "Revealed"}
    /\ next = "collect" => Exists(c) /\ c.status = "Revealed"

\* What a transaction of that kind leaves.
Leaves(kind, c) ==
    /\ Exists(c)
    /\ c.status = CASE kind = "buy" -> "Bought"
                    [] kind = "reveal" -> "Requested"
                    [] kind = "collect" -> "Collected"

\* Sent by the run its player has going, not by one that was killed.
Own(t, u) == t # None /\ t.user = u /\ t.run = 0

ClientTypes ==
    /\ pc \in [Users -> {"off", "finish", "seed", "sent"} \cup Kinds]
    /\ spoiled \in [Users -> BOOLEAN]
    /\ flight \subseteq Transactions /\ running \in Transactions \cup {None}
    /\ deaths \in 0 .. MaxDeaths
    /\ running = None <=> ~open

\* A run waits for the one transaction it has sent.
OneAtATime ==
    \A u \in Users :
        /\ \A t \in flight : Own(t, u) => pc[u] = "sent" /\ ~Own(running, u)
        /\ Own(running, u) => pc[u] = "sent"
        /\ \A s, t \in flight : Own(s, u) /\ Own(t, u) => s = t

\* The transaction the rollup runs has done nothing, asked for its one receipt, or
\* done all of it; it touches its player's card alone.
HalfDone ==
    open =>
        /\ \A u \in Users : u # running.user => cards[u] = committed.cards[u]
        /\ \/ /\ cards = committed.cards
              /\ \A r \in receipts :
                   /\ r.user = running.user
                   /\ r.kind = CASE running.kind = "buy" -> "purchase"
                                 [] running.kind = "collect" -> "collect"
                                 [] OTHER -> "none"
              /\ \A r, s \in receipts : r = s
              /\ receipts = {} <=> room = MaxInstructions
           \/ /\ room < MaxInstructions /\ receipts = {}
              /\ Leaves(running.kind, cards[running.user])

\* Until a killed run's transaction lands in it, a run knows its card.
Knows ==
    \A u \in Users : ~spoiled[u] =>
        /\ Expects(pc[u], committed.cards[u])
        /\ \A t \in flight : Own(t, u) => Expects(t.kind, committed.cards[u])
        /\ Own(running, u) => Expects(running.kind, committed.cards[u])

StepInv == ClientTypes /\ OneAtATime /\ HalfDone /\ Knows

\* The transaction a run has sent, when the rollup comes to it, meets a card of
\* the status the run saw it have, unless it was overtaken.
MeetsItsCard ==
    \A u \in Users :
        Own(running, u) /\ room = MaxInstructions =>
            \/ spoiled[u]
            \/ running.kind = "buy" /\ (Exists(cards[u]) => cards[u].status = "Collected")
            \/ running.kind = "reveal" /\ (Waiting(cards[u]) \/ cards[u].status = "Revealed")
            \/ running.kind = "collect" /\ Unpaid(cards[u])

LEMMA NoneIsNone == None \notin Transactions
BY DEF None, Transactions, Kinds

\* A step of a run with nothing on its way.
LEMMA RunMoves ==
  ASSUME StepInv, NEW u \in Users, pc[u] # "sent",
         NEW next \in {"off", "finish", "seed"} \cup Kinds,
         pc' = [pc EXCEPT ![u] = next],
         UNCHANGED <<vars, flight, running, deaths>>,
         spoiled' = spoiled \/ spoiled' = [spoiled EXCEPT ![u] = FALSE],
         ~spoiled'[u] => Expects(next, committed.cards[u])
  PROVE  StepInv'
<1>1. ClientTypes' /\ HalfDone'
  BY DEF StepInv, ClientTypes, HalfDone, Leaves, vars
<1>2. \A v \in Users : v # u => pc'[v] = pc[v] /\ spoiled'[v] = spoiled[v]
  BY DEF StepInv, ClientTypes
<1>3. pc'[u] = next /\ committed' = committed
  BY DEF StepInv, ClientTypes, vars
<1>4. ~Own(running, u) /\ \A t \in flight : ~Own(t, u)
  BY DEF StepInv, OneAtATime
<1>5. OneAtATime'
  BY <1>2, <1>4 DEF StepInv, OneAtATime, Own
<1>6. Knows'
  <2> SUFFICES ASSUME NEW v \in Users, ~spoiled'[v]
               PROVE  /\ Expects(pc'[v], committed.cards[v])
                      /\ \A t \in flight : Own(t, v) => Expects(t.kind, committed.cards[v])
                      /\ Own(running, v) => Expects(running.kind, committed.cards[v])
    BY <1>3 DEF Knows, Own, Expects, Exists
  <2>1. CASE v = u
    BY <1>3, <1>4, <2>1
  <2>2. CASE v # u
    BY <1>2, <2>2 DEF StepInv, Knows
  <2> QED BY <2>1, <2>2
<1> QED BY <1>1, <1>5, <1>6 DEF StepInv

\* It takes up a card where an earlier run left it.
LEMMA AfterExpects ==
  ASSUME NEW c, c.status \in Status
  PROVE  After(c) \in Kinds /\ Expects(After(c), c)
<1>1. CASE ~Exists(c) \/ c.status = "Collected"
  <2>1. After(c) = "buy"
    BY <1>1 DEF After
  <2> QED BY <1>1, <2>1 DEF Expects, Kinds
<1>2. CASE Exists(c) /\ c.status \in {"Bought", "Requested"}
  <2>1. After(c) = "reveal"
    BY <1>2 DEF After
  <2> QED BY <1>2, <2>1 DEF Expects, Kinds
<1>3. CASE Exists(c) /\ c.status = "Revealed"
  <2>1. After(c) = "collect"
    BY <1>3 DEF After
  <2> QED BY <1>3, <2>1 DEF Expects, Kinds
<1> QED BY <1>1, <1>2, <1>3 DEF Status

LEMMA CommittedStatus ==
  ASSUME Typed, NEW u \in Users PROVE committed.cards[u].status \in Status
BY DEF Typed, TypeOK, LiveType, Card

LEMMA SendInStep ==
  ASSUME StepInv, NEW u \in Users, NEW kind \in Kinds, Send(u, kind)
  PROVE  StepInv'
<1> DEFINE new == [user |-> u, kind |-> kind, run |-> 0]
<1>1. new \in Transactions /\ Own(new, u) /\ new.kind = kind /\ new # None
  BY PlayAssumption, NoneIsNone DEF Transactions, Own
<1>2. /\ pc[u] = kind /\ pc' = [pc EXCEPT ![u] = "sent"] /\ flight' = flight \cup {new}
      /\ UNCHANGED <<vars, running, deaths, spoiled>>
  BY DEF Send
<1>3. \A v \in Users : v # u => ~Own(new, v)
  BY <1>1 DEF Own
<1> HIDE DEF new
<1>4. ClientTypes' /\ HalfDone'
  BY <1>1, <1>2 DEF StepInv, ClientTypes, HalfDone, Leaves, vars
<1>5. kind # "sent" /\ ~Own(running, u) /\ \A t \in flight : ~Own(t, u)
  BY <1>2 DEF StepInv, OneAtATime, Kinds
<1>6. pc' [u] = "sent" /\ \A v \in Users : v # u => pc'[v] = pc[v]
  BY <1>2 DEF StepInv, ClientTypes
<1>7. OneAtATime'
  BY <1>1, <1>2, <1>3, <1>5, <1>6 DEF StepInv, OneAtATime, Own
<1>8. Knows'
  <2> SUFFICES ASSUME NEW v \in Users, ~spoiled[v]
               PROVE  /\ Expects(pc'[v], committed.cards[v])
                      /\ \A t \in flight' : Own(t, v) => Expects(t.kind, committed.cards[v])
                      /\ Own(running, v) => Expects(running.kind, committed.cards[v])
    BY <1>2 DEF Knows, Own, Expects, Exists, vars
  <2>1. /\ Expects(pc[v], committed.cards[v])
        /\ \A t \in flight : Own(t, v) => Expects(t.kind, committed.cards[v])
        /\ Own(running, v) => Expects(running.kind, committed.cards[v])
    BY DEF StepInv, Knows
  <2>2. CASE v = u
    <3>1. Expects(pc'[v], committed.cards[v])
      BY <1>6, <2>2 DEF Expects
    <3> QED BY <1>1, <1>2, <2>1, <2>2, <3>1
  <2>3. CASE v # u
    BY <1>2, <1>3, <1>6, <2>1, <2>3
  <2> QED BY <2>2, <2>3
<1> QED BY <1>4, <1>7, <1>8 DEF StepInv

LEMMA ClientInStep ==
  ASSUME Typed, StepInv, NEW u \in Users, Client(u)
  PROVE  StepInv'
<1>1. ASSUME NEW n \in RunCards, StartRun(u, n) PROVE StepInv'
  <2>1. Expects("finish", committed.cards[u])
    BY DEF Expects
  <2> QED BY <1>1, <2>1, RunMoves DEF StartRun
<1>2. CASE Finish(u)
  <2>1. After(SeenCard(u)) \in Kinds /\ Expects(After(SeenCard(u)), committed.cards[u])
    BY AfterExpects, CommittedStatus DEF SeenCard
  <2> QED BY <1>2, <2>1, RunMoves DEF Finish
<1>3. CASE EndRun(u) \/ GiveUp(u)
  <2>1. Expects("off", committed.cards[u])
    BY DEF Expects
  <2> QED BY <1>3, <2>1, RunMoves DEF EndRun, GiveUp
<1>4. CASE SeeSeed(u)
  <2>1. ~spoiled[u] => Expects("seed", committed.cards[u])
    BY <1>4 DEF SeeSeed, StepInv, Knows
  <2>2. ~spoiled[u] => Expects("collect", committed.cards[u])
    BY <1>4, <2>1 DEF Expects, SeeSeed, SeenCard
  <2>3. "collect" \in Kinds
    BY DEF Kinds
  <2> QED BY <1>4, <2>2, <2>3, RunMoves DEF SeeSeed
<1>5. ASSUME NEW kind \in Kinds, Send(u, kind) PROVE StepInv'
  BY <1>5, SendInStep
<1> QED BY <1>1, <1>2, <1>3, <1>4, <1>5 DEF Client

\* What a killed run leaves is nobody's.
LEMMA DieInStep ==
  ASSUME StepInv, NEW u \in Users, Die(u)
  PROVE  StepInv'
<1>1. /\ pc' = [pc EXCEPT ![u] = "off"] /\ flight' = {Orphan(t, u) : t \in flight}
      /\ running' = Orphan(running, u) /\ deaths < MaxDeaths /\ deaths' = deaths + 1
      /\ UNCHANGED <<vars, left, spoiled>>
  BY DEF Die
<1>2. deaths + 1 \in 1 .. MaxDeaths /\ deaths' \in 0 .. MaxDeaths
  BY <1>1, PlayAssumption DEF StepInv, ClientTypes
<1>3. ASSUME NEW t \in Transactions
      PROVE  /\ Orphan(t, u) \in Transactions
             /\ Orphan(t, u).kind = t.kind /\ Orphan(t, u).user = t.user
             /\ ~Own(Orphan(t, u), u)
             /\ \A v \in Users : v # u /\ Own(Orphan(t, u), v) => Own(t, v) /\ Orphan(t, u) = t
  <2>1. CASE t.user = u /\ t.run = 0 /\ t.kind \in Kinds
    <3>1. Orphan(t, u) = [t EXCEPT !.run = deaths + 1]
      BY <2>1 DEF Orphan
    <3> QED BY <1>2, <2>1, <3>1 DEF Transactions, Own
  <2>2. CASE ~(t.user = u /\ t.run = 0 /\ t.kind \in Kinds)
    <3>1. Orphan(t, u) = t /\ t.kind \in Kinds
      BY <2>2 DEF Orphan, Transactions
    <3> QED BY <2>2, <3>1 DEF Own
  <2> QED BY <2>1, <2>2
<1>4. Orphan(None, u) = None
  BY DEF Orphan, None, Kinds
<1>5. /\ flight \subseteq Transactions /\ running \in Transactions \cup {None}
      /\ running = None <=> ~open
  BY DEF StepInv, ClientTypes
<1>6. /\ running' \in Transactions \cup {None} /\ (running' = None <=> running = None)
      /\ running'.kind = running.kind /\ running'.user = running.user
      /\ ~Own(running', u)
      /\ \A v \in Users : v # u /\ Own(running', v) => Own(running, v)
  <2>1. CASE running \in Transactions
    BY <1>1, <1>3, <2>1, NoneIsNone
  <2>2. CASE running = None
    BY <1>1, <1>4, <2>2 DEF Own
  <2> QED BY <1>5, <2>1, <2>2
<1>7. /\ flight' \subseteq Transactions
      /\ \A t \in flight' : ~Own(t, u) /\ \A v \in Users : v # u /\ Own(t, v) => t \in flight
  BY <1>1, <1>3, <1>5
<1>8. ClientTypes' /\ HalfDone'
  BY <1>1, <1>2, <1>5, <1>6, <1>7 DEF StepInv, ClientTypes, HalfDone, Leaves, vars
<1>9. pc'[u] = "off" /\ \A v \in Users : v # u => pc'[v] = pc[v]
  BY <1>1 DEF StepInv, ClientTypes
<1>10. OneAtATime'
  <2> SUFFICES ASSUME NEW v \in Users
               PROVE  /\ \A t \in flight' : Own(t, v) => pc'[v] = "sent" /\ ~Own(running', v)
                      /\ Own(running', v) => pc'[v] = "sent"
                      /\ \A s, t \in flight' : Own(s, v) /\ Own(t, v) => s = t
    BY DEF OneAtATime, Own
  <2>1. CASE v = u
    BY <1>6, <1>7, <2>1
  <2>2. CASE v # u
    BY <1>6, <1>7, <1>9, <2>2 DEF StepInv, OneAtATime
  <2> QED BY <2>1, <2>2
<1>11. Knows'
  <2> SUFFICES ASSUME NEW v \in Users, ~spoiled[v]
               PROVE  /\ Expects(pc'[v], committed.cards[v])
                      /\ \A t \in flight' : Own(t, v) => Expects(t.kind, committed.cards[v])
                      /\ Own(running', v) => Expects(running'.kind, committed.cards[v])
    BY <1>1 DEF Knows, Own, Expects, Exists, vars
  <2>1. CASE v = u
    <3>1. Expects("off", committed.cards[v])
      BY DEF Expects
    <3> QED BY <1>6, <1>7, <1>9, <2>1, <3>1
  <2>2. CASE v # u
    BY <1>6, <1>7, <1>9, <2>2 DEF StepInv, Knows
  <2> QED BY <2>1, <2>2
<1> QED BY <1>8, <1>10, <1>11 DEF StepInv

\* A transaction that is lost, or refused, leaves its player without a run.
LEMMA DropInStep ==
  ASSUME StepInv, NEW t \in flight, DropTx(t)
  PROVE  StepInv'
<1>1. t \in Transactions /\ t.user \in Users
  BY DEF StepInv, ClientTypes, Transactions
<1>2. /\ flight' = flight \ {t}
      /\ pc' = IF t.run = 0 THEN [pc EXCEPT ![t.user] = "off"] ELSE pc
      /\ UNCHANGED <<vars, left, running, deaths, spoiled>>
  BY DEF DropTx
<1>3. ClientTypes' /\ HalfDone'
  BY <1>1, <1>2 DEF StepInv, ClientTypes, HalfDone, Leaves, vars
<1>4. \A v \in Users : pc'[v] = IF Own(t, v) THEN "off" ELSE pc[v]
  <2>1. t # None
    BY <1>1, NoneIsNone
  <2>2. pc \in [Users -> {"off", "finish", "seed", "sent"} \cup Kinds]
    BY DEF StepInv, ClientTypes
  <2> QED BY <1>1, <1>2, <2>1, <2>2 DEF Own
<1>5. \A v \in Users : Own(t, v) => ~Own(running, v) /\ \A s \in flight' : ~Own(s, v)
  BY <1>2 DEF StepInv, OneAtATime
<1>6. OneAtATime'
  BY <1>2, <1>4, <1>5 DEF StepInv, OneAtATime, Own
<1>7. Knows'
  <2> SUFFICES ASSUME NEW v \in Users, ~spoiled[v]
               PROVE  /\ Expects(pc'[v], committed.cards[v])
                      /\ \A s \in flight' : Own(s, v) => Expects(s.kind, committed.cards[v])
                      /\ Own(running, v) => Expects(running.kind, committed.cards[v])
    BY <1>2 DEF Knows, Own, Expects, Exists, vars
  <2>1. Expects("off", committed.cards[v])
    BY DEF Expects
  <2> QED BY <1>2, <1>4, <2>1 DEF StepInv, Knows
<1> QED BY <1>3, <1>6, <1>7 DEF StepInv

LEMMA BeginInStep ==
  ASSUME Typed, StepInv, NEW t \in flight, Begin(t)
  PROVE  StepInv'
<1>1. t \in Transactions /\ t # None
  BY NoneIsNone DEF StepInv, ClientTypes
<1>2. /\ flight' = flight \ {t} /\ running' = t /\ UNCHANGED <<pc, deaths, spoiled>>
      /\ ~open /\ open' = TRUE /\ room' = MaxInstructions
      /\ cards' = cards /\ receipts' = receipts /\ committed' = committed
  BY DEF Begin, BeginTx
<1>3. receipts = {} /\ committed.cards = cards
  BY <1>2 DEF Typed, TypeOK, Live
<1>4. running = None
  BY <1>2 DEF StepInv, ClientTypes
<1>5. ClientTypes' /\ HalfDone'
  BY <1>1, <1>2, <1>3 DEF StepInv, ClientTypes, HalfDone
<1>6. OneAtATime'
  BY <1>1, <1>2 DEF StepInv, OneAtATime, Own
<1>7. Knows'
  BY <1>2 DEF StepInv, Knows, Own, Expects, Exists
<1> QED BY <1>5, <1>6, <1>7 DEF StepInv

\* What a settle does to the card and its receipt.
LEMMA SettleDoes ==
  ASSUME NEW r, SettlePurchase(r) \/ SettleCollect(r)
  PROVE  /\ r \in receipts /\ Instruction /\ receipts' = receipts \ {r}
         /\ \/ r.kind = "purchase" /\ cards' = [cards EXCEPT ![r.user] = Bought(r)]
            \/ /\ r.kind = "collect" /\ Unpaid(cards[r.user])
               /\ cards' = [cards EXCEPT ![r.user].status = "Collected"]
<1>1. CASE SettlePurchase(r)
  BY <1>1, Zenon DEF SettlePurchase, PurchaseClears
<1>2. CASE SettleCollect(r)
  BY <1>2, Zenon DEF SettleCollect, CollectClears
<1> QED BY <1>1, <1>2

\* An instruction of the transaction the rollup runs.
LEMMA ExecuteInStep ==
  ASSUME Typed, StepInv, Execute
  PROVE  StepInv'
<1>1. /\ UNCHANGED clientVars /\ running # None
      /\ FirstOf(running) \/ SettleOf(running)
  BY DEF Execute, Instructions
<1>2. running \in Transactions /\ open /\ running.user \in Users
  BY <1>1 DEF StepInv, ClientTypes, Transactions
<1> DEFINE w == running.user
<1>3. SUFFICES /\ open' = open /\ committed' = committed
               /\ HalfDone'
  BY <1>1 DEF StepInv, ClientTypes, OneAtATime, Knows, Own, Expects, Exists, clientVars
<1>4. cards \in [Users -> Card] /\ receipts \subseteq Receipt
  BY PartsType DEF Typed
<1>5. CASE FirstOf(running)
  <2>1. room = MaxInstructions /\ cards = committed.cards /\ receipts = {}
    <3>1. room = MaxInstructions /\ ~(room < MaxInstructions)
      BY <1>5, ConstantsAssumption DEF FirstOf
    <3> QED BY <1>2, <3>1 DEF StepInv, HalfDone
  <2>2. CASE running.kind = "reveal" /\ \E u \in Users : u = w /\ RequestReveal(u)
    <3>1. /\ Instruction /\ Waiting(cards[w]) /\ receipts' = receipts
          /\ cards' = [cards EXCEPT ![w].status = "Requested"]
      BY <2>2 DEF RequestReveal
    <3>2. room' < MaxInstructions /\ open' = open /\ committed' = committed
      BY <2>1, <3>1, ConstantsAssumption DEF Instruction
    <3>3. Leaves("reveal", cards'[w]) /\ \A u \in Users : u # w => cards'[u] = cards[u]
      BY <1>2, <1>4, <3>1 DEF Leaves, Waiting, Exists, Card
    <3> QED
      BY <1>1, <2>1, <2>2, <3>1, <3>2, <3>3 DEF HalfDone, Leaves, Exists, clientVars
  <2>3. ASSUME NEW k \in Keys, NEW u \in Users, u = w,
               \/ running.kind = "buy" /\ \E i \in CardIds : RequestPurchase(k, u, i)
               \/ running.kind = "collect" /\ RequestCollect(k, u)
        PROVE  open' = open /\ committed' = committed /\ HalfDone'
    <3>1. /\ Instruction /\ cards' = cards
          /\ \E r : /\ receipts' = receipts \cup {r} /\ r.user = w
                    /\ r.kind = CASE running.kind = "buy" -> "purchase"
                                  [] running.kind = "collect" -> "collect"
                                  [] OTHER -> "none"
      <4>1. CASE running.kind = "buy" /\ \E i \in CardIds : RequestPurchase(k, u, i)
        <5>1. PICK i \in CardIds : RequestPurchase(k, u, i)
          BY <4>1
        <5> DEFINE r == [key |-> k, user |-> u, kind |-> "purchase", card_id |-> i,
                         toHouse |-> ToHouse(shelf[i].price),
                         toPot |-> Take(shelf[i].price), wins |-> Nothing,
                         fromPot |-> 0]
        <5>2. Instruction /\ cards' = cards /\ receipts' = receipts \cup {r}
          BY <5>1 DEF RequestPurchase, CreateReceipt
        <5>3. r.user = w /\ r.kind = "purchase"
          BY <2>3
        <5> HIDE DEF r
        <5> QED BY <4>1, <5>2, <5>3
      <4>2. CASE running.kind = "collect" /\ RequestCollect(k, u)
        <5> DEFINE won == Winnings[PricedBy(cards[u])][cards[u].seed]
                   r == [key |-> k, user |-> u, kind |-> "collect",
                         card_id |-> cards[u].card_id, toHouse |-> 0, toPot |-> 0,
                         wins |-> won.amounts,
                         fromPot |-> IF won.jackpot THEN pot ELSE 0]
        <5>1. Instruction /\ cards' = cards /\ receipts' = receipts \cup {r}
          BY <4>2 DEF RequestCollect, Collectable, Won, CreateReceipt
        <5>2. r.user = w /\ r.kind = "collect"
          BY <2>3
        <5> HIDE DEF r
        <5> QED BY <4>2, <5>1, <5>2
      <4> QED BY <2>3, <4>1, <4>2
    <3>2. room' # MaxInstructions /\ open' = open /\ committed' = committed
      BY <2>1, <3>1, ConstantsAssumption DEF Instruction
    <3>3. PICK r : /\ receipts' = {r} /\ r.user = w
                   /\ r.kind = CASE running.kind = "buy" -> "purchase"
                                 [] running.kind = "collect" -> "collect"
                                 [] OTHER -> "none"
      BY <2>1, <3>1
    <3>4. running' = running /\ cards' = committed'.cards
      BY <1>1, <2>1, <3>1, <3>2 DEF clientVars
    <3>5. HalfDone'
      BY <3>2, <3>3, <3>4 DEF HalfDone
    <3> QED BY <3>2, <3>5
  <2> QED BY <1>5, <2>2, <2>3 DEF FirstOf
<1>6. CASE SettleOf(running)
  <2>1. PICK r \in receipts : SettlePurchase(r) \/ SettleCollect(r)
    BY <1>6 DEF SettleOf
  <2>2. /\ r.kind \in {"purchase", "collect"} /\ Instruction
        /\ receipts' = receipts \ {r}
    BY <2>1, SettleDoes
  <2>3. /\ cards = committed.cards /\ r.user = w /\ \A s \in receipts : r = s
        /\ r.kind = CASE running.kind = "buy" -> "purchase"
                      [] running.kind = "collect" -> "collect"
                      [] OTHER -> "none"
        /\ \A u \in Users : u # w => cards[u] = committed.cards[u]
    BY <1>2, <2>1 DEF StepInv, HalfDone
  <2>4. receipts' = {}
    BY <2>2, <2>3
  <2>5. /\ room' < MaxInstructions /\ open' = open /\ committed' = committed
    <3>1. room \in 0 .. MaxInstructions /\ MaxInstructions \in Nat
      BY ConstantsAssumption DEF Typed, TypeOK
    <3> QED BY <2>2, <3>1 DEF Instruction
  <2>6. /\ Leaves(running.kind, cards'[w])
        /\ \A u \in Users : u # w => cards'[u] = cards[u]
    <3>1. CASE running.kind = "buy"
      <4>1. cards' = [cards EXCEPT ![w] = Bought(r)]
        BY <2>1, <2>3, <3>1, SettleDoes
      <4>2. Bought(r).status = "Bought" /\ Exists(Bought(r))
        BY DEF Bought, Exists
      <4> QED BY <1>2, <1>4, <3>1, <4>1, <4>2 DEF Leaves
    <3>2. CASE running.kind = "collect"
      <4>1. Unpaid(cards[w]) /\ cards' = [cards EXCEPT ![w].status = "Collected"]
        BY <2>1, <2>3, <3>2, SettleDoes
      <4> QED BY <1>2, <1>4, <3>2, <4>1 DEF Leaves, Unpaid, Exists, Card
    <3> QED BY <2>2, <2>3, <3>1, <3>2
  <2> QED
    BY <1>1, <2>3, <2>4, <2>5, <2>6 DEF HalfDone, Leaves, Exists, clientVars
<1> QED BY <1>1, <1>5, <1>6

\* A transaction that lands shows its player the card its run waits for.
LEMMA LandInStep ==
  ASSUME Typed, StepInv, Land
  PROVE  StepInv'
<1> DEFINE w == running.user
<1>1. /\ running # None /\ room < MaxInstructions /\ open /\ receipts = {}
      /\ open' = FALSE /\ running' = None /\ committed' = Live
      /\ pc' = IF running.run = 0 THEN [pc EXCEPT ![w] = Then(running.kind)] ELSE pc
      /\ spoiled' = IF running.run = 0 THEN spoiled
                    ELSE [spoiled EXCEPT ![w] = TRUE]
      /\ UNCHANGED <<flight, deaths>>
  BY DEF Land, CommitTx, NoReceiptOpen
<1>2. running \in Transactions /\ w \in Users /\ running.kind \in Kinds
  BY <1>1 DEF StepInv, ClientTypes, Transactions
<1>3. room # MaxInstructions
  BY <1>1, ConstantsAssumption
<1>4. /\ Leaves(running.kind, cards[w])
      /\ \A u \in Users : u # w => cards[u] = committed.cards[u]
  BY <1>1, <1>3 DEF StepInv, HalfDone
<1>5. committed'.cards = cards
  BY <1>1 DEF Live
<1>6. Then(running.kind) \in {"seed"} \cup Kinds /\ Expects(Then(running.kind), cards[w])
  BY <1>2, <1>4 DEF Then, Kinds, Expects, Leaves
<1>7. pc \in [Users -> {"off", "finish", "seed", "sent"} \cup Kinds]
      /\ spoiled \in [Users -> BOOLEAN]
  BY DEF StepInv, ClientTypes
<1>8. \A v \in Users :
        /\ pc'[v] = IF Own(running, v) THEN Then(running.kind) ELSE pc[v]
        /\ spoiled'[v] <=> spoiled[v] \/ (v = w /\ running.run # 0)
  BY <1>1, <1>2, <1>7 DEF Own
<1>9. ~Own(None, w) /\ \A v : ~Own(running', v)
  BY <1>1 DEF Own
<1>10. ClientTypes' /\ HalfDone'
  <2>1. pc' \in [Users -> {"off", "finish", "seed", "sent"} \cup Kinds]
    BY <1>1, <1>6, <1>7
  <2>2. spoiled' \in [Users -> BOOLEAN]
    BY <1>1, <1>7
  <2> QED BY <1>1, <2>1, <2>2 DEF StepInv, ClientTypes, HalfDone
<1>11. OneAtATime'
  BY <1>1, <1>8, <1>9 DEF StepInv, OneAtATime, Own
<1>12. ASSUME NEW v \in Users, ~spoiled'[v]
       PROVE  /\ Expects(pc'[v], cards[v])
              /\ \A t \in flight : Own(t, v) => Expects(t.kind, cards[v])
  <2>1. ~spoiled[v] /\ (v = w => running.run = 0)
    BY <1>8, <1>12
  <2>2. CASE v = w
    <3>1. Own(running, v)
      BY <1>1, <2>1, <2>2 DEF Own
    <3>2. \A t \in flight : ~Own(t, v)
      BY <3>1 DEF StepInv, OneAtATime
    <3> QED BY <1>6, <1>8, <2>2, <3>1, <3>2
  <2>3. CASE v # w
    <3>1. ~Own(running, v) /\ cards[v] = committed.cards[v]
      BY <1>4, <2>3 DEF Own
    <3> QED BY <1>8, <2>1, <3>1 DEF StepInv, Knows
  <2> QED BY <2>2, <2>3
<1>13. Knows'
  <2> SUFFICES ASSUME NEW v \in Users, ~spoiled'[v]
               PROVE  /\ Expects(pc'[v], cards[v])
                      /\ \A t \in flight : Own(t, v) => Expects(t.kind, cards[v])
    BY <1>1, <1>5, <1>9 DEF Knows, Own, Expects, Exists
  <2> QED BY <1>12
<1> QED BY <1>10, <1>11, <1>13 DEF StepInv

LEMMA FailInStep ==
  ASSUME StepInv, Fail
  PROVE  StepInv'
<1> DEFINE w == running.user
<1>1. /\ running # None /\ open' = FALSE /\ running' = None /\ committed' = committed
      /\ pc' = IF running.run = 0 THEN [pc EXCEPT ![w] = "off"] ELSE pc
      /\ UNCHANGED <<flight, deaths, spoiled>>
  BY DEF Fail, Refused, AbortTx
<1>2. running \in Transactions /\ w \in Users
  BY <1>1 DEF StepInv, ClientTypes, Transactions
<1>3. \A v \in Users : pc'[v] = IF Own(running, v) THEN "off" ELSE pc[v]
  <2>1. pc \in [Users -> {"off", "finish", "seed", "sent"} \cup Kinds]
    BY DEF StepInv, ClientTypes
  <2> QED BY <1>1, <1>2, <2>1 DEF Own
<1>4. ~Own(None, w) /\ \A v : ~Own(running', v)
  BY <1>1 DEF Own
<1>5. ClientTypes' /\ HalfDone'
  BY <1>1, <1>2 DEF StepInv, ClientTypes, HalfDone
<1>6. OneAtATime'
  BY <1>1, <1>3, <1>4 DEF StepInv, OneAtATime, Own
<1>7. Knows'
  <2> SUFFICES ASSUME NEW v \in Users, ~spoiled[v]
               PROVE  /\ Expects(pc'[v], committed.cards[v])
                      /\ \A t \in flight : Own(t, v) => Expects(t.kind, committed.cards[v])
    BY <1>1, <1>4 DEF Knows, Own, Expects, Exists
  <2>1. Expects("off", committed.cards[v])
    BY DEF Expects
  <2> QED BY <1>3, <2>1 DEF StepInv, Knows
<1> QED BY <1>5, <1>6, <1>7 DEF StepInv

\* The oracle's answer is one every waiting run is ready for.
LEMMA AnswerExpects ==
  ASSUME NEW next, NEW c, NEW d, Expects(next, c), c.status = "Requested",
         Exists(c), Exists(d), d.status = "Revealed"
  PROVE  Expects(next, d)
BY DEF Expects

\* A step of the oracle: no transaction is running.
LEMMA OracleInStep ==
  ASSUME Typed, StepInv, UNCHANGED clientVars, Single, Keep,
         \A v \in Users :
            \/ cards'[v] = cards[v]
            \/ /\ Exists(cards[v]) /\ cards[v].status = "Requested"
               /\ Exists(cards'[v]) /\ cards'[v].status = "Revealed"
  PROVE  StepInv'
<1>1. ~open /\ open' = open /\ committed'.cards = cards' /\ committed.cards = cards
  BY DEF Single, Keep, Typed, TypeOK, Live
<1>2. UNCHANGED <<pc, spoiled, flight, running, deaths>>
  BY DEF clientVars
<1>3. ClientTypes' /\ HalfDone' /\ OneAtATime'
  BY <1>1, <1>2 DEF StepInv, ClientTypes, HalfDone, OneAtATime, Own
<1>4. \A v \in Users : \A next : Expects(next, cards[v]) => Expects(next, cards'[v])
  BY AnswerExpects
<1>5. Knows'
  <2> SUFFICES ASSUME NEW v \in Users, ~spoiled[v]
               PROVE  /\ Expects(pc[v], cards'[v])
                      /\ \A t \in flight : Own(t, v) => Expects(t.kind, cards'[v])
                      /\ Own(running, v) => Expects(running.kind, cards'[v])
    BY <1>1, <1>2 DEF Knows, Own, Expects, Exists
  <2> QED BY <1>1, <1>4 DEF StepInv, Knows
<1> QED BY <1>3, <1>5 DEF StepInv

LEMMA StepInit == PlayInit => StepInv
<1> SUFFICES ASSUME PlayInit PROVE StepInv
  OBVIOUS
<1>1. /\ pc = [u \in Users |-> "off"] /\ spoiled = [u \in Users |-> FALSE]
      /\ flight = {} /\ running = None /\ deaths = 0 /\ ~open
  BY DEF PlayInit, Init
<1>2. ClientTypes /\ HalfDone
  BY <1>1, PlayAssumption DEF ClientTypes, HalfDone
<1>3. \A u : ~Own(running, u)
  BY <1>1 DEF Own
<1> QED BY <1>1, <1>2, <1>3 DEF StepInv, OneAtATime, Knows, Expects

LEMMA StepNext == ASSUME Typed, StepInv, [PlayNext]_playVars PROVE StepInv'
<1>1. ASSUME NEW u \in Users, Client(u) \/ Die(u) PROVE StepInv'
  BY <1>1, ClientInStep, DieInStep
<1>2. ASSUME NEW u \in Users, Answer(u) PROVE StepInv'
  <2>1. PICK q \in vrf, s \in Seeds : q.user = u /\ CallbackReveal(q, s)
    BY <1>2 DEF Answer
  <2>2. /\ Single /\ Keep /\ Exists(cards[u]) /\ cards[u].status = "Requested"
        /\ cards' = [cards EXCEPT ![u].seed = s, ![u].status = "Revealed",
                                  ![u].drawn = q.ticket]
        /\ UNCHANGED clientVars
    BY <1>2, <2>1 DEF CallbackReveal, Answers, Answer
  <2>3. cards \in [Users -> Card]
    BY PartsType DEF Typed
  <2>4. /\ \A v \in Users : v # u => cards'[v] = cards[v]
        /\ Exists(cards'[u]) /\ cards'[u].status = "Revealed"
    BY <2>2, <2>3 DEF Card, Exists
  <2> QED BY <2>2, <2>4, OracleInStep
<1>3. ASSUME NEW t \in flight, DropTx(t) \/ Begin(t) PROVE StepInv'
  BY <1>3, DropInStep, BeginInStep
<1>4. CASE Rollup
  BY <1>4, ExecuteInStep, LandInStep, FailInStep DEF Rollup
<1>5. CASE Lose
  BY <1>5, OracleInStep DEF Lose, LoseRequest
<1>6. CASE UNCHANGED playVars
  BY <1>6 DEF StepInv, ClientTypes, OneAtATime, HalfDone, Knows, Leaves, Own,
              Expects, Exists, playVars, clientVars, vars
<1> QED BY <1>1, <1>2, <1>3, <1>4, <1>5, <1>6 DEF PlayNext

\* The card a run's transaction meets when the rollup comes to it is one the
\* instruction takes, but for what overtook the run.
LEMMA StepMeets == StepInv => MeetsItsCard
<1> SUFFICES ASSUME StepInv, NEW u \in Users, Own(running, u),
                    room = MaxInstructions, ~spoiled[u]
             PROVE  \/ running.kind = "buy" /\ (Exists(cards[u]) => cards[u].status = "Collected")
                    \/ running.kind = "reveal" /\ (Waiting(cards[u]) \/ cards[u].status = "Revealed")
                    \/ running.kind = "collect" /\ Unpaid(cards[u])
  BY DEF MeetsItsCard
<1>1. open /\ running \in Transactions /\ running.kind \in Kinds
  BY DEF StepInv, ClientTypes, Own, Transactions
<1>2. cards[u] = committed.cards[u]
  <2>1. ~(room < MaxInstructions)
    BY ConstantsAssumption
  <2> QED BY <1>1, <2>1 DEF StepInv, HalfDone
<1>3. Expects(running.kind, cards[u])
  BY <1>2 DEF StepInv, Knows
<1> QED BY <1>1, <1>3 DEF Expects, Kinds, Waiting, Unpaid

\* However runs die and overlap, the transaction of a run that nobody overtook
\* finds its card as the run saw it: a buy finds no unpaid ticket, a collect
\* finds a drawn one, and a request for a seed finds a card that waits or was
\* answered in the meantime (Table::finish and Player::until, play.rs).
THEOREM RunsMeetTheirCards == PlaySpec => []MeetsItsCard
<1>1. PlayInit => StepInv
  BY StepInit
<1>2. Typed /\ StepInv /\ [PlayNext]_playVars => StepInv'
  BY StepNext
<1>3. StepInv => MeetsItsCard
  BY StepMeets
<1>4. PlaySpec => []Typed
  BY PlayImplements, TypedAlways, PTL
<1> QED BY <1>1, <1>2, <1>3, <1>4, PTL DEF PlaySpec

-----------------------------------------------------------------------------
(* Why a run is refused *)

\* The receipt a transaction has open is its player's own, the last instruction
\* left for it is its settle, and the pot still holds what it asks for.
Ready ==
    open =>
        /\ receipts # {} => room + 1 = MaxInstructions
        /\ receipts # {} \/ room = MaxInstructions => hist = committed.hist
        /\ \A u \in Users : u # running.user =>
               hist.bought[u] = committed.hist.bought[u]
        /\ \A r \in receipts : Wallet[r.key] = r.user /\ r.fromPot <= pot

\* A run nobody overtook buys only while its player has a ticket left to buy.
RoomToBuy ==
    \A u \in Users : ~spoiled[u] =>
        /\ \A t \in flight :
               Own(t, u) /\ t.kind = "buy" => committed.hist.bought[u] < MaxBuys
        /\ Own(running, u) /\ running.kind = "buy"
               => committed.hist.bought[u] < MaxBuys

LEMMA ExecuteReady ==
  ASSUME Typed, StepInv, Ready, Execute
  PROVE  Ready'
<1>1. /\ UNCHANGED clientVars /\ running # None
      /\ FirstOf(running) \/ SettleOf(running)
  BY DEF Execute, Instructions
<1>2. running \in Transactions /\ open /\ running.user \in Users /\ running' = running
  BY <1>1 DEF StepInv, ClientTypes, Transactions, clientVars
<1> DEFINE w == running.user
<1>3. /\ hist \in History /\ pot \in Nat /\ receipts \subseteq Receipt
      /\ room \in 0 .. MaxInstructions /\ MaxInstructions \in Nat
  BY PartsType, ConstantsAssumption DEF Typed, TypeOK
<1>4. CASE FirstOf(running)
  <2>1. room = MaxInstructions /\ receipts = {} /\ hist = committed.hist
    <3>1. room = MaxInstructions /\ ~(room < MaxInstructions)
      BY <1>3, <1>4 DEF FirstOf
    <3> QED BY <1>2, <3>1 DEF StepInv, HalfDone, Ready
  <2>2. ASSUME Instruction, hist' = hist, pot' = pot,
               receipts' = {} \/ \E r : /\ receipts' = {r} /\ Wallet[r.key] = r.user
                                        /\ r.fromPot <= pot
        PROVE  Ready'
    <3>1. room' + 1 = MaxInstructions /\ room' # MaxInstructions /\ committed' = committed
      BY <1>3, <2>1, <2>2 DEF Instruction
    <3> QED BY <1>2, <2>1, <2>2, <3>1 DEF Ready
  <2>3. ASSUME RequestReveal(w) PROVE Ready'
    BY <2>1, <2>2, <2>3 DEF RequestReveal
  <2>4. ASSUME NEW k \in Keys, Wallet[k] = w, NEW i \in CardIds, RequestPurchase(k, w, i)
        PROVE  Ready'
    <3> DEFINE r == [key |-> k, user |-> w, kind |-> "purchase", card_id |-> i,
                     toHouse |-> ToHouse(shelf[i].price),
                     toPot |-> Take(shelf[i].price), wins |-> Nothing,
                     fromPot |-> 0]
    <3>1. Instruction /\ hist' = hist /\ pot' = pot /\ receipts' = receipts \cup {r}
      BY <2>4 DEF RequestPurchase, CreateReceipt
    <3>2. Wallet[r.key] = r.user /\ r.fromPot <= pot
      BY <1>3, <2>4
    <3> HIDE DEF r
    <3> QED BY <2>1, <2>2, <3>1, <3>2
  <2>5. ASSUME NEW k \in Keys, Wallet[k] = w, RequestCollect(k, w) PROVE Ready'
    <3> DEFINE won == Won(cards[w])
               r == [key |-> k, user |-> w, kind |-> "collect",
                     card_id |-> cards[w].card_id, toHouse |-> 0, toPot |-> 0,
                     wins |-> won.amounts,
                     fromPot |-> IF won.jackpot THEN pot ELSE 0]
    <3>1. Instruction /\ hist' = hist /\ pot' = pot /\ receipts' = receipts \cup {r}
      BY <2>5 DEF RequestCollect, CreateReceipt
    <3>2. Wallet[r.key] = r.user /\ r.fromPot <= pot
      BY <1>3, <2>5
    <3> HIDE DEF r
    <3> QED BY <2>1, <2>2, <3>1, <3>2
  <2> QED BY <1>4, <2>3, <2>4, <2>5 DEF FirstOf
<1>5. CASE SettleOf(running)
  <2>1. PICK r \in receipts : SettlePurchase(r) \/ SettleCollect(r)
    BY <1>5 DEF SettleOf
  <2>2. Instruction /\ receipts' = receipts \ {r}
    BY <2>1, SettleDoes
  <2>3. r.user = w /\ \A s \in receipts : r = s
    BY <1>2, <2>1 DEF StepInv, HalfDone
  <2>4. receipts' = {} /\ room' # MaxInstructions /\ committed' = committed
    BY <1>3, <2>2, <2>3 DEF Instruction
  <2>5. \A u \in Users : u # w => hist'.bought[u] = hist.bought[u]
    <3>1. CASE SettlePurchase(r)
      <4>1. hist' = [hist EXCEPT !.bought[w] = @ + 1]
        BY <2>3, <3>1 DEF SettlePurchase
      <4> QED BY <1>3, <4>1 DEF History
    <3>2. CASE SettleCollect(r)
      <4>1. hist'.bought = hist.bought
        BY <1>3, <3>2 DEF SettleCollect, History
      <4> QED BY <4>1
    <3> QED BY <2>1, <3>1, <3>2
  <2> QED BY <1>2, <2>4, <2>5 DEF Ready
<1> QED BY <1>1, <1>4, <1>5

LEMMA ReadyNext ==
  ASSUME Typed, StepInv, Ready, [PlayNext]_playVars
  PROVE  Ready'
<1>1. ASSUME UNCHANGED <<open, room, receipts, hist, committed, pot>>,
             running'.user = running.user
      PROVE  Ready'
  BY <1>1 DEF Ready
<1>2. ASSUME NEW u \in Users, Client(u) PROVE Ready'
  BY <1>1, <1>2 DEF Client, StartRun, Finish, EndRun, SeeSeed, GiveUp, Send, vars
<1>3. ASSUME NEW u \in Users, Die(u) PROVE Ready'
  <2>1. running' = Orphan(running, u) /\ UNCHANGED vars
    BY <1>3 DEF Die
  <2>2. running \in Transactions \cup {None}
    BY DEF StepInv, ClientTypes
  <2>3. running'.user = running.user
    BY <2>1, <2>2 DEF Orphan, Transactions, None
  <2> QED BY <1>1, <2>1, <2>3 DEF vars
<1>4. ASSUME NEW t \in flight, DropTx(t) PROVE Ready'
  BY <1>1, <1>4 DEF DropTx, vars
<1>5. ASSUME NEW t \in flight, Begin(t) PROVE Ready'
  <2>1. /\ ~open /\ receipts' = {} /\ hist' = committed'.hist
        /\ receipts = {} /\ hist = committed.hist
    BY <1>5 DEF Begin, BeginTx, Typed, TypeOK, Live
  <2> QED BY <2>1 DEF Ready
<1>6. CASE Execute
  BY <1>6, ExecuteReady
<1>7. CASE Land \/ Fail
  BY <1>7 DEF Land, Fail, CommitTx, AbortTx, Ready
<1>8. ASSUME NEW u \in Users, Answer(u) PROVE Ready'
  BY <1>8 DEF Answer, CallbackReveal, Single, Ready
<1>9. CASE Lose
  BY <1>9 DEF Lose, LoseRequest, Single, Ready
<1>10. CASE UNCHANGED playVars
  BY <1>1, <1>10 DEF playVars, clientVars, vars
<1> QED BY <1>2, <1>3, <1>4, <1>5, <1>6, <1>7, <1>8, <1>9, <1>10 DEF PlayNext, Rollup

\* A step that sends nothing and changes no ticket count.
LEMMA RoomStays ==
  ASSUME RoomToBuy, committed'.hist.bought = committed.hist.bought,
         \A u \in Users : ~spoiled'[u] =>
             \/ ~spoiled[u]
             \/ ~Own(running, u) /\ \A t \in flight : ~Own(t, u),
         \A u \in Users : \A t \in flight' : Own(t, u) => t \in flight,
         \A u \in Users :
             Own(running', u) => running' = running \/ running' \in flight
  PROVE  RoomToBuy'
<1> SUFFICES ASSUME NEW u \in Users, ~spoiled'[u]
             PROVE  /\ \A t \in flight' :
                          Own(t, u) /\ t.kind = "buy" => committed.hist.bought[u] < MaxBuys
                    /\ Own(running', u) /\ running'.kind = "buy"
                          => committed.hist.bought[u] < MaxBuys
  BY DEF RoomToBuy, Own
<1>1. \A t \in flight : Own(t, u) /\ t.kind = "buy" => committed.hist.bought[u] < MaxBuys
  BY DEF RoomToBuy
<1>2. Own(running, u) /\ running.kind = "buy" => committed.hist.bought[u] < MaxBuys
  BY DEF RoomToBuy
<1> QED BY <1>1, <1>2

LEMMA RoomToBuyNext ==
  ASSUME Typed, StepInv, Ready, RoomToBuy, [PlayNext]_playVars
  PROVE  RoomToBuy'
<1>1. ASSUME NEW u \in Users, Client(u) PROVE RoomToBuy'
  <2>1. /\ spoiled \in [Users -> BOOLEAN] /\ committed' = committed /\ running' = running
    BY <1>1 DEF Client, StartRun, Finish, EndRun, SeeSeed, GiveUp, Send, vars,
                StepInv, ClientTypes
  <2>2. pc[u] # "sent" => ~Own(running, u) /\ \A t \in flight : ~Own(t, u)
    BY DEF StepInv, OneAtATime
  <2>3. ASSUME NEW n \in RunCards, StartRun(u, n) PROVE RoomToBuy'
    <3>1. /\ flight' = flight /\ pc[u] # "sent"
          /\ spoiled' = [spoiled EXCEPT ![u] = FALSE]
      BY <2>3 DEF StartRun
    <3>2. \A v \in Users : v # u => spoiled'[v] = spoiled[v]
      BY <2>1, <3>1
    <3> QED BY <2>1, <2>2, <3>1, <3>2, RoomStays
  <2>4. CASE Finish(u) \/ EndRun(u) \/ SeeSeed(u) \/ GiveUp(u)
    <3>1. flight' = flight /\ spoiled' = spoiled
      BY <2>4 DEF Finish, EndRun, SeeSeed, GiveUp
    <3> QED BY <2>1, <3>1, RoomStays
  <2>5. ASSUME NEW kind \in Kinds, Send(u, kind) PROVE RoomToBuy'
    <3> DEFINE new == [user |-> u, kind |-> kind, run |-> 0]
    <3>1. /\ flight' = flight \cup {new} /\ spoiled' = spoiled
          /\ kind = "buy" => committed.hist.bought[u] < MaxBuys
      BY <2>5 DEF Send
    <3>2. new.kind = kind /\ \A v : Own(new, v) => v = u
      BY DEF Own
    <3> HIDE DEF new
    <3> QED BY <2>1, <3>1, <3>2 DEF RoomToBuy, Own
  <2> QED BY <1>1, <2>3, <2>4, <2>5 DEF Client
<1>2. ASSUME NEW u \in Users, Die(u) PROVE RoomToBuy'
  <2>1. /\ flight' = {Orphan(t, u) : t \in flight} /\ running' = Orphan(running, u)
        /\ deaths' = deaths + 1 /\ committed' = committed /\ spoiled' = spoiled
    BY <1>2 DEF Die, vars
  <2>2. /\ flight \subseteq Transactions /\ running \in Transactions \cup {None}
        /\ deaths \in Nat
    BY PlayAssumption DEF StepInv, ClientTypes
  <2>3. ASSUME NEW t \in Transactions, NEW v, Own(Orphan(t, u), v)
        PROVE  Orphan(t, u) = t
    <3>1. CASE t.user = u /\ t.run = 0 /\ t.kind \in Kinds
      <4>1. Orphan(t, u) = [t EXCEPT !.run = deaths + 1]
        BY <3>1 DEF Orphan
      <4>2. Orphan(t, u).run = deaths + 1
        BY <4>1 DEF Transactions
      <4> QED BY <2>2, <2>3, <4>2 DEF Own
    <3>2. CASE ~(t.user = u /\ t.run = 0 /\ t.kind \in Kinds)
      BY <3>2 DEF Orphan
    <3> QED BY <3>1, <3>2
  <2>4. Orphan(None, u) = None
    BY DEF Orphan, None, Kinds
  <2>5. /\ \A v \in Users : \A t \in flight' : Own(t, v) => t \in flight
        /\ \A v \in Users : Own(running', v) => running' = running
    BY <2>1, <2>2, <2>3, <2>4
  <2> QED BY <2>1, <2>5, RoomStays
<1>3. ASSUME NEW t \in flight, DropTx(t) \/ Begin(t) PROVE RoomToBuy'
  <2>1. /\ flight' = flight \ {t} /\ committed' = committed /\ spoiled' = spoiled
        /\ running' = running \/ running' = t
    BY <1>3 DEF DropTx, Begin, BeginTx, vars
  <2> QED BY <2>1, RoomStays
<1>4. CASE Execute
  <2>1. UNCHANGED clientVars /\ (FirstOf(running) \/ SettleOf(running))
    BY <1>4 DEF Execute, Instructions
  <2>2. committed' = committed
    <3>1. CASE FirstOf(running)
      BY <3>1 DEF FirstOf, RequestReveal, RequestPurchase, RequestCollect, Instruction
    <3>2. CASE SettleOf(running)
      BY <3>2, SettleDoes DEF SettleOf, Instruction
    <3> QED BY <2>1, <3>1, <3>2
  <2> QED BY <2>1, <2>2, RoomStays DEF clientVars
<1>5. CASE Land
  <2> DEFINE w == running.user
  <2>1. /\ running # None /\ open /\ committed' = Live /\ running' = None
        /\ flight' = flight
        /\ spoiled' = IF running.run = 0 THEN spoiled
                      ELSE [spoiled EXCEPT ![w] = TRUE]
    BY <1>5 DEF Land, CommitTx
  <2>2. /\ running \in Transactions /\ w \in Users /\ spoiled \in [Users -> BOOLEAN]
    BY <2>1 DEF StepInv, ClientTypes, Transactions
  <2>3. \A u \in Users : u # w => committed'.hist.bought[u] = committed.hist.bought[u]
    BY <2>1 DEF Ready, Live
  <2>4. \A u : ~Own(running', u)
    BY <2>1 DEF Own
  <2>5. \A u \in Users : ~spoiled'[u] => ~spoiled[u] /\ (u = w => Own(running, w))
    BY <2>1, <2>2 DEF Own
  <2>6. Own(running, w) => \A t \in flight : ~Own(t, w)
    BY <2>2 DEF StepInv, OneAtATime
  <2> QED BY <2>1, <2>3, <2>4, <2>5, <2>6 DEF RoomToBuy, Own
<1>6. CASE Fail
  <2>1. /\ committed' = committed /\ running' = None /\ flight' = flight
        /\ spoiled' = spoiled
    BY <1>6 DEF Fail, AbortTx
  <2> QED BY <2>1, RoomStays DEF Own
<1>7. ASSUME Single, Keep, hist' = hist, UNCHANGED clientVars PROVE RoomToBuy'
  <2>1. committed'.hist = committed.hist
    BY <1>7 DEF Single, Keep, Typed, TypeOK, Live
  <2> QED BY <1>7, <2>1, RoomStays DEF clientVars
<1>8. ASSUME NEW u \in Users, Answer(u) PROVE RoomToBuy'
  BY <1>7, <1>8 DEF Answer, CallbackReveal
<1>9. CASE Lose
  BY <1>7, <1>9 DEF Lose, LoseRequest
<1>10. CASE UNCHANGED playVars
  BY <1>10, RoomStays DEF playVars, clientVars, vars
<1> QED BY <1>1, <1>2, <1>3, <1>4, <1>5, <1>6, <1>8, <1>9, <1>10 DEF PlayNext, Rollup

\* What a transaction of u can be refused over besides having been overtaken:
\* nobody to consent, nothing on sale or no generation left, a price its ledger
\* does not hold; a seed that cannot be dealt, winnings the house does not hold.
Wanting(u) ==
    \/ running.kind \in {"buy", "collect"} /\ \A k \in Keys : Wallet[k] # u
    \/ running.kind = "buy" /\ (count = 0 \/ cards[u].generation >= WordMax)
    \/ running.kind = "buy" /\ \E r \in receipts : purse[u][SOL] < r.toHouse + r.toPot
    \/ running.kind = "collect" /\ ~Won(cards[u]).dealt
    \/ running.kind = "collect" /\ \E r \in receipts : ~Covers(house, r.wins)

RefusedForAReason ==
    Refused /\ running.run = 0 =>
        \/ spoiled[running.user]
        \/ running.kind = "reveal" /\ cards[running.user].status = "Revealed"
        \/ Wanting(running.user)

\* Up to its settle, the transaction of a run nobody overtook works on the card
\* the run saw.
LEMMA MeetsUntilSettled ==
  ASSUME StepInv, NEW u \in Users, Own(running, u), ~spoiled[u],
         room = MaxInstructions \/ receipts # {}
  PROVE  /\ cards[u] = committed.cards[u] /\ Expects(running.kind, cards[u])
         /\ room = MaxInstructions => receipts = {}
<1>1. open
  BY DEF StepInv, ClientTypes, Own
<1>2. room = MaxInstructions => ~(room < MaxInstructions)
  BY ConstantsAssumption
<1>3. cards[u] = committed.cards[u] /\ (room = MaxInstructions => receipts = {})
  BY <1>1, <1>2 DEF StepInv, HalfDone
<1> QED BY <1>3 DEF StepInv, Knows

LEMMA RefusalHasReason ==
  ASSUME MaxInstructions >= 2, Typed, StepInv, Ready, RoomToBuy
  PROVE  RefusedForAReason
<1> SUFFICES ASSUME Refused, running.run = 0, ~spoiled[running.user],
                    ~(running.kind = "reveal" /\ cards[running.user].status = "Revealed")
             PROVE  Wanting(running.user)
  BY DEF RefusedForAReason
<1> DEFINE u == running.user
<1>1. /\ running # None /\ open /\ ~(room > 0 /\ (TakesFirst(running) \/ TakesSettle))
      /\ room = MaxInstructions \/ receipts # {}
  BY DEF Refused
<1>2. u \in Users /\ running.kind \in Kinds /\ Own(running, u)
  BY <1>1 DEF StepInv, ClientTypes, Transactions, Own
<1>3. /\ cards[u] = committed.cards[u] /\ Expects(running.kind, cards[u])
      /\ room = MaxInstructions => receipts = {}
  BY <1>1, <1>2, MeetsUntilSettled
<1>4. receipts # {} => room + 1 = MaxInstructions
  BY <1>1 DEF Ready
<1>5. room > 0
  BY <1>1, <1>4, ConstantsAssumption DEF Typed, TypeOK
<1>6. CASE room = MaxInstructions
  <2>1. \A k \in Keys : MayConsent(k)
    BY <1>3, <1>6 DEF MayConsent
  <2>2. ~TakesFirst(running)
    BY <1>1, <1>5
  <2>3. CASE running.kind = "reveal"
    <3>1. Waiting(cards[u])
      BY <1>3, <2>3 DEF Expects, Waiting
    <3> QED BY <1>6, <2>2, <2>3, <3>1 DEF TakesFirst
  <2>4. CASE running.kind = "buy"
    <3>1. count \in Nat
      BY ConstantsAssumption DEF Typed, TypeOK
    <3>2. (\E k \in Keys : Wallet[k] = u) => ~(count > 0)
      BY <1>6, <2>1, <2>2, <2>4 DEF TakesFirst
    <3> QED BY <2>4, <3>1, <3>2 DEF Wanting
  <2>5. CASE running.kind = "collect"
    <3>1. Exists(cards[u]) /\ cards[u].status = "Revealed"
      BY <1>3, <2>5 DEF Expects
    <3>2. (\E k \in Keys : Wallet[k] = u) => ~Won(cards[u]).dealt
      BY <1>6, <2>1, <2>2, <2>5, <3>1 DEF TakesFirst, Collectable
    <3> QED BY <2>5, <3>2 DEF Wanting
  <2> QED BY <1>2, <2>3, <2>4, <2>5 DEF Kinds
<1>7. CASE receipts # {}
  <2>1. PICK r \in receipts : TRUE
    BY <1>7
  <2>2. /\ r.user = u
        /\ r.kind = CASE running.kind = "buy" -> "purchase"
                      [] running.kind = "collect" -> "collect"
                      [] OTHER -> "none"
    BY <1>1, <1>7, <2>1 DEF StepInv, HalfDone
  <2>3. Wallet[r.key] = u /\ r.fromPot <= pot /\ hist = committed.hist
    BY <1>1, <1>7, <2>1, <2>2 DEF Ready
  <2>4. ~PurchaseClears(r) /\ ~CollectClears(r) /\ r \in Receipt
    BY <1>1, <1>5, <2>1, PartsType DEF TakesSettle, Typed
  <2>5. running.kind # "reveal"
    BY <2>2, <2>4 DEF Receipt
  <2>6. CASE running.kind = "buy"
    <3>1. hist.bought[u] < MaxBuys /\ (Exists(cards[u]) => cards[u].status = "Collected")
      BY <1>2, <1>3, <2>3, <2>6 DEF RoomToBuy, Expects
    <3>2. cards[u].generation < WordMax \/ cards[u].generation >= WordMax
      BY <1>2, PartsType, ConstantsAssumption DEF Typed, Card
    <3>3. /\ purse[u][SOL] \in Nat /\ r.toHouse + r.toPot \in Nat
      BY <1>2, <2>4, PartsType, ConstantsAssumption DEF Typed, Amounts, Receipt
    <3>4. \/ ~(purse[u][SOL] >= r.toHouse + r.toPot)
          \/ ~(cards[u].generation < WordMax)
      BY <2>2, <2>3, <2>4, <2>6, <3>1 DEF PurchaseClears, CanBuy
    <3> QED BY <2>1, <2>6, <3>2, <3>3, <3>4 DEF Wanting
  <2>7. CASE running.kind = "collect"
    <3>1. Unpaid(cards[u])
      BY <1>3, <2>7 DEF Expects, Unpaid
    <3>2. ~Covers(house, r.wins)
      BY <2>2, <2>3, <2>4, <2>7, <3>1 DEF CollectClears
    <3> QED BY <2>1, <2>7, <3>2 DEF Wanting
  <2> QED BY <1>2, <2>5, <2>6, <2>7 DEF Kinds
<1> QED BY <1>1, <1>6, <1>7

RunInv == StepInv /\ Ready /\ RoomToBuy

LEMMA RunInvAlways == PlaySpec => []RunInv
<1>1. PlayInit => RunInv
  <2> SUFFICES ASSUME PlayInit PROVE RunInv
    OBVIOUS
  <2>1. StepInv /\ ~open /\ flight = {} /\ running = None
    BY StepInit DEF PlayInit, Init
  <2> QED BY <2>1 DEF RunInv, Ready, RoomToBuy, Own
<1>2. Typed /\ RunInv /\ [PlayNext]_playVars => RunInv'
  BY StepNext, ReadyNext, RoomToBuyNext DEF RunInv
<1>3. PlaySpec => []Typed
  BY PlayImplements, TypedAlways, PTL
<1> QED BY <1>1, <1>2, <1>3, PTL DEF PlaySpec

\* Whatever the money, the shelf and the sheet: the program refuses the
\* transaction of a run only because a killed run's landed during it, because the
\* oracle was faster, or for want of a key, a card on sale, a generation, a price,
\* a deal or a house that holds the winnings (play.rs; request_purchase.rs,
\* request_collect.rs and the settles' refusals).
THEOREM RefusedForAReasonAlways ==
  ASSUME MaxInstructions >= 2 PROVE PlaySpec => []RefusedForAReason
<1>1. Typed /\ RunInv => RefusedForAReason
  BY RefusalHasReason DEF RunInv
<1>2. PlaySpec => []Typed
  BY PlayImplements, TypedAlways, PTL
<1> QED BY <1>1, <1>2, RunInvAlways, PTL

-----------------------------------------------------------------------------
(* What a run waits for *)

\* A run that waits has a transaction of its own on its way or running.
WaitsForSomething ==
    \A u \in Users :
        pc[u] = "sent" => (\E t \in flight : Own(t, u)) \/ Own(running, u)

\* What a run has sent and the rollup has not begun.
OnItsWay(u) == {t \in flight : Own(t, u)}

\* A run waits just while it has one transaction out, on its way or running; and
\* while it waits for a seed, unless a killed run's transaction landed in it, its
\* card is asked for or drawn, so that finish takes it up when the wait ends.
WaitsForItsOwn ==
    \A u \in Users :
        /\ pc[u] = "sent" <=> (OnItsWay(u) # {} \/ Own(running, u))
        /\ Own(running, u) => OnItsWay(u) = {}
        /\ \A s, t \in OnItsWay(u) : s = t
        /\ pc[u] = "seed" /\ ~spoiled[u] =>
             /\ Exists(committed.cards[u])
             /\ committed.cards[u].status \in {"Requested", "Revealed"}

LEMMA WaitsStill ==
  ASSUME WaitsForSomething, UNCHANGED clientVars
  PROVE  WaitsForSomething'
BY DEF WaitsForSomething, clientVars, Own

LEMMA ClientWaits ==
  ASSUME Typed, StepInv, WaitsForSomething, NEW u \in Users, Client(u)
  PROVE  WaitsForSomething'
<1>1. pc \in [Users -> {"off", "finish", "seed", "sent"} \cup Kinds]
  BY DEF StepInv, ClientTypes
<1>2. ASSUME NEW next, next # "sent", pc' = [pc EXCEPT ![u] = next],
             flight' = flight, running' = running
      PROVE  WaitsForSomething'
  BY <1>1, <1>2 DEF WaitsForSomething, Own
<1>3. ASSUME NEW n \in RunCards, StartRun(u, n) PROVE WaitsForSomething'
  BY <1>2, <1>3 DEF StartRun
<1>4. CASE Finish(u)
  <2>1. After(SeenCard(u)) # "sent"
    BY AfterExpects, CommittedStatus DEF SeenCard, Kinds
  <2> QED BY <1>2, <1>4, <2>1 DEF Finish
<1>5. CASE EndRun(u)
  BY <1>2, <1>5 DEF EndRun
<1>6. CASE SeeSeed(u)
  BY <1>2, <1>6 DEF SeeSeed
<1>7. CASE GiveUp(u)
  BY <1>2, <1>7 DEF GiveUp
<1>8. ASSUME NEW kind \in Kinds, Send(u, kind) PROVE WaitsForSomething'
  <2> DEFINE t == [user |-> u, kind |-> kind, run |-> 0]
  <2>1. /\ pc' = [pc EXCEPT ![u] = "sent"] /\ flight' = flight \cup {t}
        /\ running' = running
    BY <1>8 DEF Send
  <2>2. t.user = u /\ t.run = 0 /\ t # None
    BY <1>8 DEF None, Kinds
  <2> HIDE DEF t
  <2> QED BY <1>1, <2>1, <2>2 DEF WaitsForSomething, Own
<1> QED BY <1>3, <1>4, <1>5, <1>6, <1>7, <1>8 DEF Client

LEMMA WaitsNext ==
  ASSUME Typed, StepInv, WaitsForSomething, [PlayNext]_playVars
  PROVE  WaitsForSomething'
<1>0. pc \in [Users -> {"off", "finish", "seed", "sent"} \cup Kinds]
  BY DEF StepInv, ClientTypes
<1>1. ASSUME NEW u \in Users, Client(u) PROVE WaitsForSomething'
  BY <1>1, ClientWaits
<1>2. ASSUME NEW u \in Users, Die(u) PROVE WaitsForSomething'
  <2>1. /\ pc' = [pc EXCEPT ![u] = "off"] /\ running' = Orphan(running, u)
        /\ flight' = {Orphan(t, u) : t \in flight}
    BY <1>2 DEF Die
  <2>2. \A t : t.user # u => Orphan(t, u) = t
    BY DEF Orphan
  <2>3. ASSUME NEW v \in Users, pc'[v] = "sent"
        PROVE  (\E t \in flight' : Own(t, v)) \/ Own(running', v)
    <3>1. v # u /\ pc[v] = "sent"
      BY <1>0, <2>1, <2>3
    <3>2. CASE Own(running, v)
      BY <2>1, <2>2, <3>1, <3>2 DEF Own
    <3>3. ASSUME NEW t \in flight, Own(t, v) PROVE \E s \in flight' : Own(s, v)
      <4>1. Orphan(t, u) = t
        BY <2>2, <3>1, <3>3 DEF Own
      <4>2. t \in flight'
        BY <2>1, <4>1
      <4> QED BY <3>3, <4>2
    <3> QED BY <3>1, <3>2, <3>3 DEF WaitsForSomething
  <2> QED BY <2>3 DEF WaitsForSomething, Own
<1>3. ASSUME NEW t \in flight, DropTx(t) PROVE WaitsForSomething'
  <2>1. /\ flight' = flight \ {t} /\ running' = running
        /\ pc' = IF t.run = 0 THEN [pc EXCEPT ![t.user] = "off"] ELSE pc
    BY <1>3 DEF DropTx
  <2>2. t.user \in Users
    BY DEF StepInv, ClientTypes, Transactions
  <2> QED BY <1>0, <2>1, <2>2 DEF WaitsForSomething, Own
<1>4. ASSUME NEW t \in flight, Begin(t) PROVE WaitsForSomething'
  <2>1. pc' = pc /\ flight' = flight \ {t} /\ running' = t /\ ~open
    BY <1>4 DEF Begin, BeginTx
  <2>2. running = None
    BY <2>1 DEF StepInv, ClientTypes
  <2> QED BY <2>1, <2>2 DEF WaitsForSomething, Own
<1>5. CASE Execute
  BY <1>5, WaitsStill DEF Execute
<1>6. CASE Land \/ Fail
  <2>1. /\ flight' = flight /\ running # None /\ running' = None
        /\ \E next \in {"off", "reveal", "seed", "buy"} :
             pc' = IF running.run = 0 THEN [pc EXCEPT ![running.user] = next] ELSE pc
    <3>1. CASE Land
      <4>1. running.kind \in Kinds
        BY <3>1 DEF Land, StepInv, ClientTypes, Transactions
      <4>2. Then(running.kind) \in {"off", "reveal", "seed", "buy"}
        BY <4>1 DEF Then, Kinds
      <4> QED BY <3>1, <4>2 DEF Land
    <3>2. CASE Fail
      BY <3>2 DEF Fail, Refused
    <3> QED BY <1>6, <3>1, <3>2
  <2>2. running.user \in Users
    BY <2>1 DEF StepInv, ClientTypes, Transactions
  <2> QED BY <1>0, <2>1, <2>2 DEF WaitsForSomething, Own
<1>7. ASSUME NEW u \in Users, Answer(u) PROVE WaitsForSomething'
  BY <1>7, WaitsStill DEF Answer
<1>8. CASE Lose
  BY <1>8, WaitsStill DEF Lose
<1>9. CASE UNCHANGED playVars
  BY <1>9, WaitsStill DEF playVars
<1> QED BY <1>1, <1>2, <1>3, <1>4, <1>5, <1>6, <1>7, <1>8, <1>9 DEF PlayNext, Rollup

LEMMA WaitingIsOwn == StepInv /\ WaitsForSomething => WaitsForItsOwn
<1> SUFFICES ASSUME StepInv, WaitsForSomething, NEW u \in Users
             PROVE  /\ pc[u] = "sent" <=> (OnItsWay(u) # {} \/ Own(running, u))
                    /\ Own(running, u) => OnItsWay(u) = {}
                    /\ \A s, t \in OnItsWay(u) : s = t
                    /\ pc[u] = "seed" /\ ~spoiled[u] =>
                         /\ Exists(committed.cards[u])
                         /\ committed.cards[u].status \in {"Requested", "Revealed"}
  BY DEF WaitsForItsOwn
<1>1. pc[u] = "sent" <=> (OnItsWay(u) # {} \/ Own(running, u))
  BY DEF StepInv, OneAtATime, WaitsForSomething, OnItsWay
<1>2. /\ Own(running, u) => OnItsWay(u) = {}
      /\ \A s, t \in OnItsWay(u) : s = t
  BY DEF StepInv, OneAtATime, OnItsWay
<1>3. ASSUME pc[u] = "seed", ~spoiled[u]
      PROVE  /\ Exists(committed.cards[u])
             /\ committed.cards[u].status \in {"Requested", "Revealed"}
  BY <1>3 DEF StepInv, Knows, Expects
<1> QED BY <1>1, <1>2, <1>3

\* However runs die, overlap and lose what they send, a run that waits for its
\* transaction has just one out (play.rs 46-91, each send waited for before the
\* next), and one that waits for a seed nobody took its card away from holds a
\* card that waits for it or has it (Player::until in reveal, 67). A seed that is
\* lost ends in the run's giving up, and the next run asks for it again:
\* RunsMeetTheirCards says that its request is one the program takes.
THEOREM WaitsForItsOwnAlways == PlaySpec => []WaitsForItsOwn
<1>1. PlayInit => WaitsForSomething
  BY DEF PlayInit, WaitsForSomething
<1>2. PlaySpec => []Typed
  BY PlayImplements, TypedAlways, PTL
<1>3. PlaySpec => []StepInv
  <2>1. RunInv => StepInv
    BY DEF RunInv
  <2> QED BY <2>1, RunInvAlways, PTL
<1> QED BY <1>1, <1>2, <1>3, WaitsNext, WaitingIsOwn, PTL DEF PlaySpec

-----------------------------------------------------------------------------
(* With enough of everything *)

\* How many tickets each player was not paid for, sold yet or not.
Left(paid) == [u \in Users |-> Cardinality({n \in Tickets : paid[u][n] = 0})]

\* What the players and the house still hold lasts for what may still be bought
\* and won.
Affords(s, P, W) ==
    /\ \A u \in Users :
         /\ s.cards[u].generation <= s.hist.bought[u]
         /\ s.purse[u][SOL] + P * s.hist.bought[u] >= P * MaxBuys
    /\ \A m \in Mints : s.house[m] >= W * SumOver(Left(s.hist.paid), Users)

WithinMeans(P, W) ==
    /\ shelf = Shelf0 /\ count = Count0
    /\ Affords(Live, P, W) /\ Affords(committed, P, W)
    /\ \A r \in receipts :
         r.kind = "collect" => \A m \in Mints : r.wins[m] <= W

LEMMA LeftType ==
  ASSUME NEW paid, NEW u \in Users
  PROVE  Left(paid)[u] \in 0 .. MaxBuys
<1> DEFINE T == {n \in Tickets : paid[u][n] = 0}
<1>1. IsFiniteSet(Tickets) /\ Cardinality(Tickets) = MaxBuys
  BY FS_Interval, ConstantsAssumption DEF Tickets
<1>2. T \in SUBSET Tickets
  OBVIOUS
<1>3. IsFiniteSet(T) /\ Cardinality(T) <= MaxBuys
  BY <1>1, <1>2, FS_Subset
<1>4. Cardinality(T) \in Nat
  BY <1>3, FS_CardinalityType
<1>5. Left(paid)[u] = Cardinality(T)
  BY DEF Left
<1> HIDE DEF T
<1> QED BY <1>3, <1>4, <1>5, ConstantsAssumption

LEMMA LeftSum == ASSUME NEW paid PROVE SumOver(Left(paid), Users) \in Nat
<1>1. \A u \in Users : Left(paid)[u] \in Nat
  BY LeftType, ConstantsAssumption
<1> QED BY <1>1, SumNat, ConstantsAssumption

\* The house starts with every ticket of every player ahead of it.
LEMMA LeftAtMost == ASSUME NEW paid
                    PROVE  SumOver(Left(paid), Users) <= Cardinality(Users) * MaxBuys
<1> DEFINE all == [u \in Users |-> MaxBuys]
<1>1. \A u \in Users : Left(paid)[u] \in Nat /\ all[u] \in Nat /\ Left(paid)[u] <= all[u]
  BY LeftType, ConstantsAssumption
<1>2. SumOver(all, Users) = MaxBuys * Cardinality(Users)
  BY SumConstant, ConstantsAssumption
<1>3. SumOver(Left(paid), Users) <= SumOver(all, Users)
  BY <1>1, SumLeq, ConstantsAssumption
<1>4. Cardinality(Users) \in Nat
  BY FS_CardinalityType, ConstantsAssumption
<1> HIDE DEF all
<1> QED BY <1>2, <1>3, <1>4, ConstantsAssumption

\* Paying a ticket takes it out of the sum.
LEMMA LeftPaid ==
  ASSUME NEW paid, NEW then, NEW u \in Users, NEW n \in Tickets, paid[u][n] = 0,
         \A v \in Users : \A k \in Tickets :
             then[v][k] = IF v = u /\ k = n THEN 1 ELSE paid[v][k]
  PROVE  SumOver(Left(paid), Users) = SumOver(Left(then), Users) + 1
<1> DEFINE S == {k \in Tickets : paid[u][k] = 0}
           T == {k \in Tickets : then[u][k] = 0}
<1>1. /\ then[u][n] # 0
      /\ \A v \in Users, k \in Tickets : ~(v = u /\ k = n) => then[v][k] = paid[v][k]
  OBVIOUS
<1>2. IsFiniteSet(Tickets)
  BY FS_Interval, ConstantsAssumption DEF Tickets
<1>3. IsFiniteSet(S)
  <2>1. S \in SUBSET Tickets
    OBVIOUS
  <2> QED BY <1>2, <2>1, FS_Subset
<1>4. n \in S /\ T = S \ {n}
  BY <1>1
<1>5. Left(paid)[u] = Cardinality(S) /\ Left(then)[u] = Cardinality(T)
  BY DEF Left
<1>6. Cardinality(S) = Cardinality(T) + 1 /\ Cardinality(T) \in Nat
  <2> HIDE DEF S, T
  <2> QED BY <1>3, <1>4, OneLess
<1>7. ASSUME NEW v \in Users, v # u PROVE Left(then)[v] = Left(paid)[v]
  <2>1. {k \in Tickets : paid[v][k] = 0} = {k \in Tickets : then[v][k] = 0}
    BY <1>1, <1>7
  <2> QED BY <2>1 DEF Left
<1>8. \A v \in Users : /\ Left(paid)[v] \in Nat /\ Left(then)[v] \in Nat
                       /\ v # u => Left(then)[v] = Left(paid)[v]
  BY <1>7, LeftType, ConstantsAssumption
<1>9. /\ SumOver(Left(paid), Users) \in Nat /\ SumOver(Left(then), Users) \in Nat
      /\ SumOver(Left(then), Users) + Left(paid)[u] = SumOver(Left(paid), Users) + Left(then)[u]
  BY <1>8, SumChanged, ConstantsAssumption
<1> HIDE DEF S, T
<1> QED BY <1>5, <1>6, <1>9

LEMMA SettlePurchaseAffords ==
  ASSUME Safe, NEW P \in Nat, NEW W \in Nat, Ample(P, W), WithinMeans(P, W),
         NEW r \in receipts, SettlePurchase(r)
  PROVE  Affords(Live', P, W)
<1> DEFINE u == r.user
<1>1. /\ hist \in History /\ purse \in [Users -> Amounts] /\ house \in Amounts
      /\ cards \in [Users -> Card] /\ shelf \in [CardIds -> Terms]
      /\ u \in Users /\ r.card_id \in CardIds /\ r.toHouse \in Nat /\ r.toPot \in Nat
  BY PartsType DEF Safe, Typed, Receipt
<1>2. /\ hist' = [hist EXCEPT !.bought[u] = @ + 1]
      /\ purse' = [purse EXCEPT ![u] = Less(@, Sols(r.toHouse + r.toPot))]
      /\ house' = Add(house, Sols(r.toHouse))
      /\ cards' = [cards EXCEPT ![u] = Bought(r)]
      /\ r.kind = "purchase" /\ purse[u][SOL] >= r.toHouse + r.toPot
  BY Zenon DEF SettlePurchase, PurchaseClears
<1>3. r.toHouse + r.toPot <= P
  <2> DEFINE price == shelf[r.card_id].price
  <2>1. price \in Nat /\ price <= P
    BY <1>1, ConstantsAssumption DEF WithinMeans, Ample
  <2>2. r.toPot = Take(price) /\ r.toHouse = price - Take(price)
    BY <1>2 DEF Safe, ReceiptsFair, ToHouse
  <2> HIDE DEF price
  <2> QED BY <2>1, <2>2, TakeBound
<1>4. /\ hist'.paid = hist.paid
      /\ hist'.bought = [hist.bought EXCEPT ![u] = @ + 1]
      /\ hist.bought \in [Users -> 0 .. MaxBuys]
  BY <1>1, <1>2 DEF History
<1>5. ASSUME NEW v \in Users
      PROVE  /\ cards'[v].generation <= hist'.bought[v]
             /\ purse'[v][SOL] + P * hist'.bought[v] >= P * MaxBuys
  <2>1. /\ cards[v].generation <= hist.bought[v]
        /\ purse[v][SOL] + P * hist.bought[v] >= P * MaxBuys
    BY DEF WithinMeans, Affords, Live
  <2>2. CASE v # u
    BY <1>1, <1>2, <1>4, <2>1, <2>2
  <2>3. CASE v = u
    <3>1. cards'[u].generation = cards[u].generation + 1
      BY <1>1, <1>2 DEF Bought
    <3>2. hist'.bought[u] = hist.bought[u] + 1 /\ hist.bought[u] \in Nat
      BY <1>1, <1>4, ConstantsAssumption
    <3>3. purse'[u][SOL] = purse[u][SOL] - (r.toHouse + r.toPot)
      BY <1>1, <1>2, ConstantsAssumption DEF Less, Sols
    <3>4. purse[u][SOL] \in Nat /\ cards[u].generation \in Nat
      BY <1>1, ConstantsAssumption DEF Amounts, Card
    <3>5. P * (hist.bought[u] + 1) = P * hist.bought[u] + P
      BY <3>2
    <3> DEFINE a == P * hist.bought[u]
               b == P * MaxBuys
               c == P * (hist.bought[u] + 1)
    <3>6. a \in Nat /\ b \in Nat /\ c = a + P /\ purse[u][SOL] + a >= b
      BY <2>1, <2>3, <3>2, <3>5, ConstantsAssumption
    <3> HIDE DEF a, b, c
    <3>7. purse'[u][SOL] + c >= b
      BY <1>1, <1>2, <1>3, <3>3, <3>4, <3>6
    <3> QED BY <2>1, <2>3, <3>1, <3>2, <3>4, <3>7 DEF b, c
  <2> QED BY <2>2, <2>3
<1>6. ASSUME NEW m \in Mints PROVE house'[m] >= W * SumOver(Left(hist'.paid), Users)
  <2>1. Left(hist'.paid) = Left(hist.paid)
    BY <1>4
  <2>2. house[m] >= W * SumOver(Left(hist.paid), Users)
    BY DEF WithinMeans, Affords, Live
  <2>3. house'[m] >= house[m] /\ house[m] \in Nat /\ house'[m] \in Nat
    BY <1>1, <1>2 DEF Add, Sols, Amounts
  <2>4. W * SumOver(Left(hist.paid), Users) \in Nat
    BY LeftSum
  <2> QED BY <2>1, <2>2, <2>3, <2>4
<1> QED BY <1>5, <1>6 DEF Affords, Live

LEMMA SettleCollectAffords ==
  ASSUME Safe, NEW P \in Nat, NEW W \in Nat, WithinMeans(P, W),
         NEW r \in receipts, SettleCollect(r)
  PROVE  Affords(Live', P, W)
<1> DEFINE u == r.user
           n == cards[u].ticket
<1>1. /\ hist \in History /\ purse \in [Users -> Amounts] /\ house \in Amounts
      /\ cards \in [Users -> Card] /\ u \in Users
      /\ r.wins \in Amounts /\ r.fromPot \in Nat
  BY PartsType DEF Safe, Typed, Receipt
<1>2. /\ house' = Less(house, r.wins) /\ Covers(house, r.wins)
      /\ purse' = [purse EXCEPT ![u] = Add(Add(@, r.wins), Sols(r.fromPot))]
      /\ cards' = [cards EXCEPT ![u].status = "Collected"]
      /\ r.kind = "collect" /\ Unpaid(cards[u])
  BY Zenon DEF SettleCollect, CollectClears
<1>3. /\ hist'.bought = hist.bought
      /\ hist'.paid = [hist.paid EXCEPT ![u][n] = @ + 1]
      /\ hist.bought \in [Users -> 0 .. MaxBuys]
      /\ hist.paid \in [Users -> [Tickets -> Nat]]
  BY <1>1 DEF SettleCollect, History
<1>4. n \in Tickets /\ hist.paid[u][n] = 0
  BY <1>1, <1>2 DEF Safe, Typed, Made, MadeWell, Unpaid, Good, PaidKept, Live
<1>5. ASSUME NEW v \in Users
      PROVE  /\ cards'[v].generation <= hist'.bought[v]
             /\ purse'[v][SOL] + P * hist'.bought[v] >= P * MaxBuys
  <2>1. /\ cards[v].generation <= hist.bought[v]
        /\ purse[v][SOL] + P * hist.bought[v] >= P * MaxBuys
    BY DEF WithinMeans, Affords, Live
  <2>2. cards'[v].generation = cards[v].generation
    BY <1>1, <1>2 DEF Card
  <2>3. /\ purse[v][SOL] \in Nat /\ purse'[v][SOL] \in Nat
        /\ purse'[v][SOL] >= purse[v][SOL]
    BY <1>1, <1>2, ConstantsAssumption DEF Add, Sols, Amounts
  <2>4. P * hist.bought[v] \in Nat /\ P * MaxBuys \in Nat
    BY <1>3, ConstantsAssumption
  <2> QED BY <1>3, <2>1, <2>2, <2>3, <2>4
<1>6. SumOver(Left(hist.paid), Users) = SumOver(Left(hist'.paid), Users) + 1
  <2> DEFINE before == hist.paid
             after == hist'.paid
  <2>1. /\ before[u][n] = 0
        /\ \A v \in Users : \A k \in Tickets :
             after[v][k] = IF v = u /\ k = n THEN 1 ELSE before[v][k]
    BY <1>1, <1>3, <1>4
  <2> HIDE DEF before, after, n, u
  <2>2. SumOver(Left(before), Users) = SumOver(Left(after), Users) + 1
    BY <1>1, <1>4, <2>1, LeftPaid
  <2> QED BY <2>2 DEF before, after
<1>7. ASSUME NEW m \in Mints PROVE house'[m] >= W * SumOver(Left(hist'.paid), Users)
  <2> DEFINE x == SumOver(Left(hist.paid), Users)
             y == SumOver(Left(hist'.paid), Users)
  <2>1. house[m] >= W * x /\ r.wins[m] <= W
    BY <1>2 DEF WithinMeans, Affords, Live
  <2>2. house'[m] = house[m] - r.wins[m] /\ house[m] \in Nat /\ r.wins[m] \in Nat
    BY <1>1, <1>2 DEF Less, Amounts
  <2>3. x \in Nat /\ y \in Nat /\ x = y + 1
    BY <1>6, LeftSum
  <2> HIDE DEF x, y
  <2>4. W * x = W * y + W /\ W * y \in Nat
    BY <2>3
  <2> DEFINE p == W * x
             q == W * y
  <2>5. p = q + W /\ q \in Nat /\ house[m] >= p
    BY <2>1, <2>4
  <2> HIDE DEF p, q
  <2>6. house'[m] >= q
    BY <2>1, <2>2, <2>5
  <2> QED BY <2>6 DEF q, y
<1> QED BY <1>5, <1>7 DEF Affords, Live

\* A step that moves no money and makes no card.
LEMMA SteadyAffords ==
  ASSUME NEW P, NEW W, Affords(Live, P, W), UNCHANGED <<hist, purse, house>>,
         \A u \in Users : cards'[u].generation = cards[u].generation
  PROVE  Affords(Live', P, W)
BY DEF Affords, Live

\* An instruction of a player's transaction.
LEMMA ExecuteWithinMeans ==
  ASSUME Safe, NEW P \in Nat, NEW W \in Nat, Ample(P, W), WithinMeans(P, W), Execute
  PROVE  WithinMeans(P, W)'
<1>1. FirstOf(running) \/ SettleOf(running)
  BY DEF Execute, Instructions
<1>2. /\ shelf = Shelf0 /\ count = Count0
      /\ Affords(Live, P, W) /\ Affords(committed, P, W)
      /\ \A r \in receipts :
           r.kind = "collect" => \A m \in Mints : r.wins[m] <= W
  BY DEF WithinMeans
<1>3. ASSUME Instruction, Affords(Live', P, W),
             \A r \in receipts' : r \in receipts
                \/ (r.kind = "collect" => \A m \in Mints : r.wins[m] <= W)
      PROVE  WithinMeans(P, W)'
  <2>1. shelf' = shelf /\ count' = count /\ committed' = committed
    BY <1>3 DEF Instruction
  <2>2. Affords(Live, P, W)' /\ Affords(committed, P, W)'
    BY <1>2, <1>3, <2>1
  <2> QED BY <1>2, <1>3, <2>1, <2>2 DEF WithinMeans
<1>4. ASSUME NEW u \in Users, RequestReveal(u) PROVE WithinMeans(P, W)'
  <2>1. /\ Instruction /\ UNCHANGED <<hist, purse, house, receipts>>
        /\ cards' = [cards EXCEPT ![u].status = "Requested"]
    BY <1>4 DEF RequestReveal
  <2>2. cards \in [Users -> Card]
    BY PartsType DEF Safe, Typed
  <2>3. \A v \in Users : cards'[v].generation = cards[v].generation
    BY <2>1, <2>2 DEF Card
  <2> QED BY <1>2, <1>3, <2>1, <2>3, SteadyAffords
<1>5. ASSUME NEW k \in Keys, NEW u \in Users, NEW i \in CardIds, RequestPurchase(k, u, i)
      PROVE  WithinMeans(P, W)'
  <2> DEFINE r == [key |-> k, user |-> u, kind |-> "purchase", card_id |-> i,
                   toHouse |-> ToHouse(shelf[i].price),
                   toPot |-> Take(shelf[i].price), wins |-> Nothing, fromPot |-> 0]
  <2>1. Instruction /\ UNCHANGED <<hist, purse, house, cards>> /\ receipts' = receipts \cup {r}
    BY <1>5 DEF RequestPurchase, CreateReceipt
  <2>2. r.kind # "collect"
    OBVIOUS
  <2> HIDE DEF r
  <2> QED BY <1>2, <1>3, <2>1, <2>2, SteadyAffords
<1>6. ASSUME NEW k \in Keys, NEW u \in Users, RequestCollect(k, u)
      PROVE  WithinMeans(P, W)'
  <2> DEFINE won == Won(cards[u])
             r == [key |-> k, user |-> u, kind |-> "collect",
                   card_id |-> cards[u].card_id, toHouse |-> 0, toPot |-> 0,
                   wins |-> won.amounts, fromPot |-> IF won.jackpot THEN pot ELSE 0]
  <2>1. /\ Instruction /\ UNCHANGED <<hist, purse, house, cards>>
        /\ receipts' = receipts \cup {r} /\ Collectable(cards[u])
    BY <1>6 DEF RequestCollect, CreateReceipt
  <2>2. cards[u] \in Card /\ MadeWell(cards[u])
    BY PartsType DEF Safe, Typed, Made
  <2>3. cards[u].seed \in Seeds
    BY <2>1, <2>2 DEF MadeWell, Collectable
  <2>4. PricedBy(cards[u]) \in Terms
    BY <2>1, <2>2, PartsType DEF Safe, Typed, PricedBy, MadeWell, Card, Layout,
                                 Exists, Collectable
  <2>5. \A m \in Mints : won.amounts[m] <= W
    BY <2>3, <2>4 DEF Won, Ample
  <2>6. r.wins = won.amounts
    OBVIOUS
  <2> HIDE DEF r, won
  <2> QED BY <1>2, <1>3, <2>1, <2>5, <2>6, SteadyAffords
<1>7. ASSUME NEW r \in receipts, SettlePurchase(r) \/ SettleCollect(r)
      PROVE  WithinMeans(P, W)'
  <2>1. Affords(Live', P, W)
    BY <1>7, SettlePurchaseAffords, SettleCollectAffords
  <2>2. Instruction /\ receipts' = receipts \ {r}
    BY <1>7, SettleDoes
  <2> QED BY <1>3, <2>1, <2>2
<1> QED BY <1>1, <1>4, <1>5, <1>6, <1>7 DEF FirstOf, SettleOf

LEMMA WithinMeansNext ==
  ASSUME Safe, NEW P \in Nat, NEW W \in Nat, Ample(P, W), WithinMeans(P, W),
         [PlayNext]_playVars
  PROVE  WithinMeans(P, W)'
<1>1. /\ shelf = Shelf0 /\ count = Count0
      /\ Affords(Live, P, W) /\ Affords(committed, P, W)
      /\ \A r \in receipts :
           r.kind = "collect" => \A m \in Mints : r.wins[m] <= W
  BY DEF WithinMeans
<1>2. ASSUME UNCHANGED vars PROVE WithinMeans(P, W)'
  BY <1>1, <1>2 DEF WithinMeans, Affords, Live, vars
<1>3. ASSUME UNCHANGED <<shelf, count>>, receipts' \subseteq receipts,
             Affords(Live', P, W), Affords(committed', P, W)
      PROVE  WithinMeans(P, W)'
  BY <1>1, <1>3 DEF WithinMeans
<1>4. ASSUME NEW u \in Users, Client(u) \/ Die(u) PROVE WithinMeans(P, W)'
  BY <1>2, <1>4 DEF Client, StartRun, Finish, EndRun, SeeSeed, GiveUp, Send, Die, vars
<1>5. ASSUME NEW t \in flight, DropTx(t) PROVE WithinMeans(P, W)'
  BY <1>2, <1>5 DEF DropTx
<1>6. ASSUME NEW t \in flight, Begin(t) PROVE WithinMeans(P, W)'
  <2>1. UNCHANGED <<shelf, count, cards, purse, house, receipts, hist, committed>>
    BY <1>6 DEF Begin, BeginTx
  <2> QED BY <1>1, <1>3, <2>1, SteadyAffords
<1>7. CASE Execute
  BY <1>7, ExecuteWithinMeans
<1>8. CASE Land
  <2>1. /\ UNCHANGED <<shelf, count, cards, purse, house, receipts, hist>>
        /\ committed' = Live
    BY <1>8 DEF Land, CommitTx
  <2> QED BY <1>1, <1>3, <2>1, SteadyAffords
<1>9. CASE Fail
  <2>1. AbortTx
    BY <1>9 DEF Fail
  <2>2. Live' = committed /\ committed' = committed
    BY <2>1, Undone DEF Safe
  <2>3. shelf' = shelf /\ count' = count /\ receipts' = {}
    BY <2>1 DEF AbortTx
  <2> QED BY <1>1, <1>3, <2>2, <2>3
<1>10. ASSUME NEW q \in vrf, NEW s \in Seeds, CallbackReveal(q, s)
       PROVE  WithinMeans(P, W)'
  <2>1. /\ UNCHANGED <<shelf, count, purse, house, receipts, hist>> /\ committed' = Live'
        /\ cards' = [cards EXCEPT ![q.user].seed = s, ![q.user].status = "Revealed",
                                  ![q.user].drawn = q.ticket]
    BY <1>10 DEF CallbackReveal, Single, Keep
  <2>2. cards \in [Users -> Card]
    BY PartsType DEF Safe, Typed
  <2>3. \A v \in Users : cards'[v].generation = cards[v].generation
    BY <2>1, <2>2 DEF Card
  <2> QED BY <1>1, <1>3, <2>1, <2>3, SteadyAffords
<1>11. ASSUME NEW q \in vrf, LoseRequest(q) PROVE WithinMeans(P, W)'
  <2>1. /\ UNCHANGED <<shelf, count, cards, purse, house, receipts, hist>>
        /\ committed' = Live'
    BY <1>11 DEF LoseRequest, Single, Keep
  <2> QED BY <1>1, <1>3, <2>1, SteadyAffords
<1>12. CASE UNCHANGED playVars
  BY <1>2, <1>12 DEF playVars
<1> QED BY <1>4, <1>5, <1>6, <1>7, <1>8, <1>9, <1>10, <1>11, <1>12
        DEF PlayNext, Rollup, Answer, Lose

LEMMA InitWithinMeans ==
  ASSUME NEW P \in Nat, NEW W \in Nat, Ample(P, W), PlayInit
  PROVE  WithinMeans(P, W)
<1>1. /\ shelf = Shelf0 /\ count = Count0 /\ receipts = {} /\ committed = Live
      /\ purse = Purse0 /\ house = House0
      /\ cards \in [Users -> {NoCard} \cup {Old(c) : c \in Carried}]
      /\ hist.bought = [u \in Users |-> cards[u].ticket]
  BY DEF PlayInit, Init
<1>2. ASSUME NEW u \in Users
      PROVE  /\ cards[u].generation <= hist.bought[u]
             /\ purse[u][SOL] + P * hist.bought[u] >= P * MaxBuys
  <2>1. cards[u].generation = 0 /\ hist.bought[u] \in Nat
    BY <1>1 DEF NoCard, Old
  <2>2. /\ purse[u][SOL] >= P * MaxBuys /\ purse[u][SOL] \in Nat
        /\ P * hist.bought[u] \in Nat /\ P * MaxBuys \in Nat
    BY <1>1, <2>1, ConstantsAssumption DEF Ample, Amounts
  <2> QED BY <2>1, <2>2
<1>3. ASSUME NEW m \in Mints PROVE house[m] >= W * SumOver(Left(hist.paid), Users)
  <2> DEFINE x == SumOver(Left(hist.paid), Users)
             y == Cardinality(Users) * MaxBuys
  <2>1. x \in Nat /\ y \in Nat /\ x <= y
    BY LeftSum, LeftAtMost, FS_CardinalityType, ConstantsAssumption
  <2>2. house[m] >= W * y /\ house[m] \in Nat
    BY <1>1, ConstantsAssumption DEF Ample, Amounts
  <2> HIDE DEF x, y
  <2>3. W * x <= W * y /\ W * x \in Nat /\ W * y \in Nat
    BY <2>1, ProductLeq
  <2>4. house[m] >= W * x
    BY <2>2, <2>3
  <2> QED BY <2>4 DEF x
<1>4. Affords(Live, P, W)
  BY <1>2, <1>3 DEF Affords, Live
<1> QED BY <1>1, <1>4 DEF WithinMeans

\* With enough of everything no reason but being overtaken is left.
LEMMA NothingWanting ==
  ASSUME Safe, RunInv, NEW P \in Nat, NEW W \in Nat, Ample(P, W), WithinMeans(P, W)
  PROVE  RefusedOnlyWhenOvertaken
<1> SUFFICES ASSUME Refused, running.run = 0, ~spoiled[running.user],
                    ~(running.kind = "reveal" /\ cards[running.user].status = "Revealed")
             PROVE  FALSE
  BY DEF RefusedOnlyWhenOvertaken
<1> DEFINE u == running.user
<1>1. /\ running # None /\ open /\ (room = MaxInstructions \/ receipts # {})
  BY DEF Refused
<1>2. u \in Users /\ Own(running, u)
  BY <1>1 DEF RunInv, StepInv, ClientTypes, Transactions, Own
<1>3. /\ cards[u] = committed.cards[u] /\ Expects(running.kind, cards[u])
      /\ room = MaxInstructions => receipts = {}
  BY <1>1, <1>2, MeetsUntilSettled DEF RunInv
<1>4. Wanting(u)
  BY RefusalHasReason DEF RefusedForAReason, Safe, RunInv, Ample
<1>5. /\ cards[u] \in Card /\ MadeWell(cards[u]) /\ hist \in History
      /\ purse \in [Users -> Amounts] /\ house \in Amounts
      /\ shelf \in [CardIds -> Terms] /\ receipts \subseteq Receipt
  BY <1>2, PartsType DEF Safe, Typed, Made
<1>6. \A r \in receipts :
        /\ r.user = u
        /\ r.kind = CASE running.kind = "buy" -> "purchase"
                      [] running.kind = "collect" -> "collect"
                      [] OTHER -> "none"
  BY <1>1 DEF RunInv, StepInv, HalfDone
<1>7. \E k \in Keys : Wallet[k] = u
  BY <1>2 DEF Ample
<1>8. CASE running.kind = "buy"
  <2>1. hist.bought[u] < MaxBuys /\ hist.bought[u] \in Nat
    <3>1. committed.hist.bought[u] < MaxBuys
      BY <1>2, <1>8 DEF RunInv, RoomToBuy
    <3>2. hist = committed.hist
      BY <1>1 DEF RunInv, Ready
    <3>3. hist.bought[u] \in 0 .. MaxBuys
      BY <1>2, <1>5 DEF History
    <3> QED BY <3>1, <3>2, <3>3, ConstantsAssumption
  <2>2. /\ cards[u].generation <= hist.bought[u]
        /\ purse[u][SOL] + P * hist.bought[u] >= P * MaxBuys
        /\ count = Count0
    BY <1>2 DEF WithinMeans, Affords, Live
  <2>3. count # 0
    BY <2>2, ConstantsAssumption DEF Ample
  <2>4. ~(cards[u].generation >= WordMax)
    BY <1>5, <2>1, <2>2, ConstantsAssumption DEF Ample, Card
  <2>5. PICK r \in receipts : purse[u][SOL] < r.toHouse + r.toPot
    BY <1>4, <1>7, <1>8, <2>3, <2>4 DEF Wanting
  <2>6. r.toHouse + r.toPot <= P /\ r.toHouse + r.toPot \in Nat
    <3> DEFINE price == shelf[r.card_id].price
    <3>1. r.kind = "purchase" /\ r.card_id \in CardIds
      BY <1>5, <1>6, <1>8, <2>5 DEF Receipt
    <3>2. price \in Nat /\ price <= P
      BY <1>5, <3>1, ConstantsAssumption DEF WithinMeans, Ample
    <3>3. r.toPot = Take(price) /\ r.toHouse = price - Take(price)
      BY <2>5, <3>1 DEF Safe, ReceiptsFair, ToHouse
    <3> HIDE DEF price
    <3> QED BY <3>2, <3>3, TakeBound
  <2> DEFINE a == P * hist.bought[u]
             b == P * MaxBuys
  <2>7. a + P <= b /\ a \in Nat /\ b \in Nat
    <3>1. hist.bought[u] + 1 <= MaxBuys /\ hist.bought[u] + 1 \in Nat /\ MaxBuys \in Nat
      BY <2>1, ConstantsAssumption
    <3>2. P * (hist.bought[u] + 1) <= P * MaxBuys
      BY <3>1, ProductLeq
    <3>3. P * (hist.bought[u] + 1) = P * hist.bought[u] + P
      BY <2>1
    <3> QED BY <2>1, <3>1, <3>2, <3>3
  <2>8. purse[u][SOL] \in Nat
    BY <1>2, <1>5, ConstantsAssumption DEF Amounts
  <2>9. purse[u][SOL] + a >= b
    BY <2>2
  <2> HIDE DEF a, b
  <2> QED BY <2>5, <2>6, <2>7, <2>8, <2>9
<1>9. CASE running.kind = "collect"
  <2>1. Exists(cards[u]) /\ cards[u].status = "Revealed"
    BY <1>3, <1>9 DEF Expects
  <2>2. cards[u].seed \in Seeds /\ cards[u].ticket \in Tickets
    BY <1>5, <2>1 DEF MadeWell
  <2>3. PricedBy(cards[u]) \in Terms
    BY <1>5, <2>1 DEF PricedBy, MadeWell, Card, Layout, Exists
  <2>4. Won(cards[u]).dealt
    BY <2>2, <2>3 DEF Won, Ample
  <2>5. PICK r \in receipts : ~Covers(house, r.wins)
    BY <1>4, <1>7, <1>9, <2>4 DEF Wanting
  <2>6. PICK m \in Mints : ~(r.wins[m] <= house[m])
    BY <2>5 DEF Covers
  <2>7. r.wins[m] <= W /\ house[m] >= W * SumOver(Left(hist.paid), Users)
    BY <1>6, <1>9, <2>5 DEF WithinMeans, Affords, Live
  <2>8. SumOver(Left(hist.paid), Users) >= 1
    <3>1. hist.paid[u][cards[u].ticket] = 0
      BY <1>2, <2>1 DEF Safe, Good, PaidKept, Live
    <3> DEFINE S == {n \in Tickets : hist.paid[u][n] = 0}
    <3>2. Left(hist.paid)[u] # 0
      <4>1. IsFiniteSet(Tickets)
        BY FS_Interval, ConstantsAssumption DEF Tickets
      <4>2. S # {}
        BY <2>2, <3>1
      <4>3. Left(hist.paid)[u] = Cardinality(S) /\ S \in SUBSET Tickets
        BY <1>2 DEF Left
      <4> HIDE DEF S
      <4> QED BY <4>1, <4>2, <4>3, FS_Subset, FS_EmptySet
    <3> HIDE DEF S
    <3>3. \A v \in Users : Left(hist.paid)[v] \in Nat
      BY LeftType, ConstantsAssumption
    <3>4. Left(hist.paid)[u] \in Nat
      BY <1>2, <3>3
    <3> DEFINE due == Left(hist.paid)
    <3>5. \A v \in Users : due[v] \in Nat
      BY <3>3
    <3> HIDE DEF due
    <3>6. due[u] <= SumOver(due, Users)
      BY <1>2, <3>5, SumAtLeast, ConstantsAssumption
    <3>7. SumOver(due, Users) \in Nat
      BY <3>5, SumNat, ConstantsAssumption
    <3> QED BY <3>2, <3>4, <3>6, <3>7 DEF due
  <2>9. r.wins[m] \in Nat /\ house[m] \in Nat
    BY <1>5, <2>5 DEF Receipt, Amounts
  <2> DEFINE x == SumOver(Left(hist.paid), Users)
  <2>10. x \in Nat /\ x >= 1
    BY <2>8, LeftSum
  <2> HIDE DEF x
  <2>11. W * x >= W /\ W * x \in Nat
    <3>1. W * 1 <= W * x
      BY <2>10, ProductLeq
    <3> QED BY <2>10, <3>1
  <2> QED BY <2>6, <2>7, <2>9, <2>11 DEF x
<1> QED BY <1>4, <1>8, <1>9 DEF Wanting

\* Where there is enough of everything, a run is refused nothing it sends, except
\* where it was overtaken: by a transaction of a killed run, or by the oracle
\* between its look at a waiting card and its second request for the seed
\* (play.rs 94-174, `play` and Table::finish).
THEOREM RefusedOnlyWhenOvertakenAlways ==
  ASSUME NEW P \in Nat, NEW W \in Nat, Ample(P, W)
  PROVE  PlaySpec => []RefusedOnlyWhenOvertaken
<1>1. PlayInit => WithinMeans(P, W)
  BY InitWithinMeans
<1>2. Safe /\ WithinMeans(P, W) /\ [PlayNext]_playVars => WithinMeans(P, W)'
  BY WithinMeansNext
<1>3. Safe /\ RunInv /\ WithinMeans(P, W) => RefusedOnlyWhenOvertaken
  BY NothingWanting
<1>4. PlaySpec => []Safe
  BY PlayImplements, SafeAlways, PTL
<1> QED BY <1>1, <1>2, <1>3, <1>4, RunInvAlways, PTL DEF PlaySpec
=============================================================================
