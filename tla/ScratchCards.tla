---------------------------- MODULE ScratchCards ----------------------------
(***************************************************************************)
(* The rollup half of the scratch-cards program: the card a player holds,  *)
(* the vault ledgers its money moves between, the receipts that carry a    *)
(* payment, the randomness requests in flight, and the analytics counters. *)
(*                                                                         *)
(* Two kinds of step change this state.  A player's transaction is a list  *)
(* of instructions that runs one at a time on working state and is kept or *)
(* undone as a whole: BeginTx, then RequestPurchase, RequestCollect,       *)
(* RequestReveal and the vault's settles in any order and by any keys,     *)
(* then CommitTx or AbortTx.  Everything else (the oracle's callback, the  *)
(* operator's instructions) is a transaction of one instruction.           *)
(***************************************************************************)
EXTENDS Naturals, FiniteSets

CONSTANTS
    Users,      \* players: a user's key names its card and its vault ledger
    Keys,       \* signers that can consent to a receipt
    Wallet,     \* Wallet[k]: the user whose ledger key k may debit
    Mints,      \* tokens the vault keeps balances in
    SOL,        \* the mint that pays for cards and fills the pot
    Terms,      \* card terms the operator may publish: [price, label]
    NoTerms,    \* what a card older than printed terms carries
    Seeds,      \* the oracle's possible answers
    NoSeed,     \* the zeroed seed of a player's first card
    Winnings,   \* Winnings[t][s]: what the engine deals for terms t, seed s
    Members,    \* full readers of a private card
    Shelf0,     \* the shelf at the start, a function on 0..Count0-1
    Count0,     \* how many cards it publishes
    MaxCards,   \* bound: how far the shelf may grow
    Carried,    \* cards of older layouts the program may start with
    CarriedMembers, \* the readers an older card was made with
    Purse0, House0, Pot0, \* the ledgers at the start
    Closable,   \* users whose cards the operator may close
    Floats,     \* amounts the operator adds to or takes from the house
    TopUpMax,   \* bound: what the operator deposits of one mint in all
    WordMax,    \* the largest value of a counter (2^64 - 1)
    CARD_SLOTS, \* per-card counters the analytics account has room for
    TOKEN_SLOTS,\* payout rows it has room for
    MaxBuys,    \* bound: tickets per user
    MaxInstructions \* bound: instructions in one transaction

-----------------------------------------------------------------------------
(* Types *)

Status == {"Bought", "Requested", "Revealed", "Collected"}

\* "none": no account.  "short": Card::SIZE, sold before terms were printed on
\* cards.  "terms": Card::WITH_TERMS, no generation.  "full":
\* Card::PERSISTENT_SIZE, what resolve_purchase makes.
Layout == {"none", "short", "terms", "full"}

Amounts == [Mints -> Nat]
Nothing == [m \in Mints |-> 0]
CardIds == 0 .. MaxCards - 1
Tickets == 1 .. MaxBuys

\* What engine::evaluate returns: an amount per mint, and whether the jackpot
\* line hit; `dealt` is FALSE where it fails with BadCard.
Wins == [dealt : BOOLEAN, amounts : Amounts, jackpot : BOOLEAN]

\* `ticket`, `drawn` and `charged` are history: which of the user's purchases
\* this card is, the purchase the seed was drawn for, and what was debited.
Card == [layout : Layout, status : Status, card_id : CardIds,
         seed : Seeds \cup {NoSeed}, terms : Terms \cup {NoTerms},
         generation : Nat, ticket : 0 .. MaxBuys, drawn : 0 .. MaxBuys,
         charged : Nat]

\* A receipt: who consented, the ledgers its movements name, and its callback.
Receipt == [key : Keys, user : Users, kind : {"purchase", "collect"},
            card_id : CardIds, toHouse : Nat, toPot : Nat,
            wins : Amounts, fromPot : Nat]

\* One randomness request; `generation` rides it, `ticket` is history.
Request == [user : Users, generation : Nat, ticket : 0 .. MaxBuys]

Books == [lamports_in : Nat, jackpot_in : Nat, jackpot_paid : Nat,
          jackpot_hits : Nat, cards_sold : [0 .. CARD_SLOTS - 1 -> Nat],
          cards_collected : [0 .. CARD_SLOTS - 1 -> Nat],
          rows : SUBSET Mints, payouts : Amounts]

\* History, for the properties: tickets bought and times each was paid, users
\* whose card was closed under a pending request, payouts the counters missed
\* and which of them were for cards without terms, tickets closed unpaid and
\* tickets carried in (per card id), and the operator's net deposits.
History == [bought : [Users -> 0 .. MaxBuys],
            paid : [Users -> [Tickets -> Nat]],
            stranded : SUBSET Users, unbooked : Amounts, termless : Amounts,
            voided : [CardIds -> Nat], carried : [CardIds -> Nat],
            added : Amounts, removed : Amounts]

ASSUME ConstantsAssumption ==
    /\ IsFiniteSet(Users)
    /\ Wallet \in [Keys -> Users]
    /\ SOL \in Mints
    /\ \A t \in Terms : t.price \in Nat
    /\ NoTerms \notin Terms
    /\ Winnings \in [Terms -> [Seeds -> Wins]]
    /\ MaxCards \in Nat \ {0} /\ Count0 \in 0 .. MaxCards
    /\ Shelf0 \in [CardIds -> Terms]
    /\ Carried \subseteq [layout : {"short", "terms"}, status : Status,
                          card_id : CardIds, seed : Seeds, terms : Terms]
    /\ \A c \in Carried : c.card_id < Count0
    /\ CarriedMembers \subseteq Members
    /\ Purse0 \in [Users -> Amounts] /\ House0 \in Amounts /\ Pot0 \in Nat
    /\ Closable \subseteq Users
    /\ Floats \subseteq Nat /\ TopUpMax \in Nat /\ WordMax \in Nat
    /\ CARD_SLOTS \in Nat /\ TOKEN_SLOTS \in Nat
    /\ MaxBuys \in Nat \ {0} /\ MaxInstructions \in Nat

\* A sheet names finitely many mints.
ASSUME MintsAssumption == IsFiniteSet(Mints)

VARIABLES
    shelf, count,   \* ["config"]: published terms, and how many are published
    cards,          \* ["card", user]
    perms,          \* readers of each user's card permission
    purse,          \* vault ledgers of the players
    house,          \* vault ledger of the house
    pot,            \* SOL of the jackpot's vault ledger
    receipts,       \* open receipts, at most one per key
    vrf,            \* randomness requests the oracle may still answer
    books,          \* ["analytics"]
    hist,           \* history
    open, room,     \* a transaction is running; instructions it may still hold
    committed       \* the rollup's state before the running transaction

vars == <<shelf, count, cards, perms, purse, house, pot, receipts, vrf, books,
          hist, open, room, committed>>

\* What a transaction works on and a failing one gives back.
Live == [cards |-> cards, perms |-> perms, purse |-> purse, house |-> house,
         pot |-> pot, vrf |-> vrf, books |-> books, hist |-> hist]

-----------------------------------------------------------------------------
(* Helpers *)

NoCard == [layout |-> "none", status |-> "Collected", card_id |-> 0,
           seed |-> NoSeed, terms |-> NoTerms, generation |-> 0,
           ticket |-> 0, drawn |-> 0, charged |-> 0]

Exists(c) == c.layout # "none"

\* u64 arithmetic that pins at its limit.
Sat(n) == IF n > WordMax THEN WordMax ELSE n

JACKPOT_SHARE_BP == 1000
Take(price) == Sat(price * JACKPOT_SHARE_BP) \div 10000

Add(a, b) == [m \in Mints |-> a[m] + b[m]]
Covers(a, b) == \A m \in Mints : b[m] <= a[m]
Less(a, b) == [m \in Mints |-> a[m] - b[m]]
Sols(n) == [m \in Mints |-> IF m = SOL THEN n ELSE 0]

\* Card::terms, and the shelf for a card too short to carry any.
PricedBy(c) == IF c.layout = "short" THEN shelf[c.card_id] ELSE c.terms

\* A slot of a fixed table, counted if the table has it.
Count(table, i) == IF i \in DOMAIN table
                   THEN [table EXCEPT ![i] = Sat(@ + 1)] ELSE table

-----------------------------------------------------------------------------
(* Initial states *)

\* A card made by an earlier build of the program: the user's first ticket.
Old(c) == [layout |-> c.layout, status |-> c.status, card_id |-> c.card_id,
           seed |-> IF c.status \in {"Revealed", "Collected"}
                    THEN c.seed ELSE NoSeed,
           terms |-> IF c.layout = "short" THEN NoTerms ELSE c.terms,
           generation |-> 0, ticket |-> 1,
           drawn |-> IF c.status \in {"Revealed", "Collected"} THEN 1 ELSE 0,
           charged |-> 0]

Outstanding(cs, i) ==
    {u \in Users : /\ Exists(cs[u]) /\ cs[u].status # "Collected"
                   /\ cs[u].card_id = i}

Init ==
    /\ shelf = Shelf0 /\ count = Count0
    /\ cards \in [Users -> {NoCard} \cup {Old(c) : c \in Carried}]
    /\ perms = [u \in Users |-> IF Exists(cards[u]) THEN CarriedMembers ELSE {}]
    /\ purse = Purse0 /\ house = House0 /\ pot = Pot0
    /\ receipts = {} /\ vrf = {}
    /\ books = [lamports_in |-> 0, jackpot_in |-> 0, jackpot_paid |-> 0,
                jackpot_hits |-> 0,
                cards_sold |-> [i \in 0 .. CARD_SLOTS - 1 |-> 0],
                cards_collected |-> [i \in 0 .. CARD_SLOTS - 1 |-> 0],
                rows |-> {}, payouts |-> Nothing]
    /\ hist = [bought |-> [u \in Users |-> cards[u].ticket],
               paid |-> [u \in Users |-> [n \in Tickets |->
                           IF n = cards[u].ticket /\ cards[u].status = "Collected"
                           THEN 1 ELSE 0]],
               stranded |-> {}, unbooked |-> Nothing, termless |-> Nothing,
               voided |-> [i \in CardIds |-> 0],
               carried |-> [i \in CardIds |-> Cardinality(Outstanding(cards, i))],
               added |-> Nothing, removed |-> Nothing]
    /\ open = FALSE /\ room = 0
    /\ committed = Live

-----------------------------------------------------------------------------
(* A player's transaction *)

BeginTx ==
    /\ ~open
    /\ open' = TRUE /\ room' = MaxInstructions
    /\ UNCHANGED <<shelf, count, cards, perms, purse, house, pot, receipts,
                   vrf, books, hist, committed>>

\* The next instruction of the running transaction.
Instruction ==
    /\ open /\ room > 0
    /\ room' = room - 1
    /\ UNCHANGED <<shelf, count, open, committed>>

\* receipt::create writes a receipt at ["receipt", program, consenter] and
\* refuses while another is live there.
MayConsent(k) == \A other \in receipts : other.key # k

CreateReceipt(r) ==
    /\ MayConsent(r.key)
    /\ receipts' = receipts \cup {r}

WholeToHouse(price) == price    \* mutant
ToHouse(price) == price - Take(price)

\* Asks for a card: a receipt for the price on the shelf now, split between
\* the house and the pot.
RequestPurchase(k, u, i) ==
    /\ Instruction
    /\ i < count
    /\ LET price == shelf[i].price
       IN CreateReceipt([key |-> k, user |-> u, kind |-> "purchase",
                         card_id |-> i, toHouse |-> ToHouse(price),
                         toPot |-> Take(price), wins |-> Nothing, fromPot |-> 0])
    /\ UNCHANGED <<cards, perms, purse, house, pot, vrf, books, hist>>

\* What a card's seed deals under the terms it is priced by.
Won(c) == Winnings[PricedBy(c)][c.seed]

Collectable(c) == Exists(c) /\ c.status = "Revealed" /\ Won(c).dealt

\* Asks for a revealed card's winnings, and the whole pot as it stands now
\* when the jackpot line hit.  Writes nothing to the card.
RequestCollect(k, u) ==
    /\ Instruction
    /\ Collectable(cards[u])
    /\ LET won == Won(cards[u])
       IN CreateReceipt([key |-> k, user |-> u, kind |-> "collect",
                         card_id |-> cards[u].card_id, toHouse |-> 0,
                         toPot |-> 0, wins |-> won.amounts,
                         fromPot |-> IF won.jackpot THEN pot ELSE 0])
    /\ UNCHANGED <<cards, perms, purse, house, pot, vrf, books, hist>>

WaitingOrRevealed(c) == Exists(c) /\ c.status # "Collected"    \* mutant
Waiting(c) == Exists(c) /\ c.status \in {"Bought", "Requested"}

\* Asks the oracle for a seed: first from Bought, again from Requested.
RequestReveal(u) ==
    /\ Instruction
    /\ Waiting(cards[u])
    /\ cards' = [cards EXCEPT ![u].status = "Requested"]
    /\ vrf' = vrf \cup {[user |-> u, generation |-> cards[u].generation,
                         ticket |-> cards[u].ticket]}
    /\ UNCHANGED <<perms, purse, house, pot, receipts, books, hist>>

CanBuyUnlessRequested(u) ==    \* mutant
    /\ Exists(cards[u]) => cards[u].status # "Requested"
    /\ hist.bought[u] < MaxBuys

\* resolve_purchase's refusal, and what a card's slot becomes under the terms
\* on the shelf now: a first card, a collected card reused, or a card of an
\* older layout closed and made again.
CanBuy(u) == /\ Exists(cards[u]) => cards[u].status = "Collected"
             /\ cards[u].generation < WordMax
             /\ hist.bought[u] < MaxBuys

Bought(r) ==
    [layout |-> "full", status |-> "Bought", card_id |-> r.card_id,
     seed |-> cards[r.user].seed, terms |-> shelf[r.card_id],
     generation |-> cards[r.user].generation + 1,
     ticket |-> hist.bought[r.user] + 1, drawn |-> cards[r.user].drawn,
     charged |-> r.toHouse + r.toPot]

UpgradedIfNone(readers) == IF readers = {} THEN Members ELSE readers    \* mutant

\* permission::upgrade_ephemeral: a permission short of a reader is made again.
Upgraded(readers) == readers \cup Members

CountSaleTwice(i, price) ==    \* mutant
    [books EXCEPT !.lamports_in = Sat(@ + price), !.jackpot_in = Sat(@ + price)]

CountSale(i, price) ==
    [books EXCEPT !.lamports_in = Sat(@ + price),
                  !.jackpot_in = Sat(@ + Take(price)),
                  !.cards_sold = Count(@, i)]

\* The consenter's own ledger is debited, and holds the price.
PurchaseClears(r) ==
    /\ r.kind = "purchase"
    /\ Wallet[r.key] = r.user
    /\ purse[r.user][SOL] >= r.toHouse + r.toPot
    /\ CanBuy(r.user)

\* The vault pays the receipt and calls resolve_purchase back: the debit, the
\* card, its readers and the counters land together.
SettlePurchase(r) ==
    /\ Instruction
    /\ r \in receipts /\ PurchaseClears(r)
    /\ receipts' = receipts \ {r}
    /\ purse' = [purse EXCEPT ![r.user] = Less(@, Sols(r.toHouse + r.toPot))]
    /\ house' = Add(house, Sols(r.toHouse))
    /\ pot' = pot + r.toPot
    /\ cards' = [cards EXCEPT ![r.user] = Bought(r)]
    /\ perms' = [perms EXCEPT ![r.user] = Upgraded(@)]
    /\ books' = CountSale(r.card_id, shelf[r.card_id].price)
    /\ hist' = [hist EXCEPT !.bought[r.user] = @ + 1]
    /\ UNCHANGED vrf

NewRowsButOne(won) ==    \* mutant
    LET wanted == {m \in Mints : won[m] > 0} \ books.rows
    IN {new \in SUBSET wanted :
          Cardinality(books.rows \cup new) < TOKEN_SLOTS \/ new = {}}

\* analytics::record_payout gives each mint it meets a row while rows last.
NewRows(won) ==
    LET wanted == {m \in Mints : won[m] > 0} \ books.rows
    IN {new \in SUBSET wanted :
          \/ new = wanted /\ Cardinality(books.rows \cup new) <= TOKEN_SLOTS
          \/ new # wanted /\ Cardinality(books.rows \cup new) = TOKEN_SLOTS}

CountCollect(c, won, rows, fromPot) ==
    [books EXCEPT
       !.rows = rows,
       !.payouts = [m \in Mints |-> IF m \in rows THEN Sat(@[m] + won[m]) ELSE @[m]],
       !.jackpot_paid = Sat(@ + fromPot),
       !.jackpot_hits = IF fromPot > 0 THEN Sat(@ + 1) ELSE @,
       !.cards_collected = Count(@, c.card_id)]

UnpaidIfExists(c) == Exists(c)    \* mutant
Unpaid(c) == Exists(c) /\ c.status = "Revealed"

CollectClears(r) ==
    /\ r.kind = "collect"
    /\ Covers(house, r.wins) /\ r.fromPot <= pot
    /\ Unpaid(cards[r.user])

\* The vault pays the receipt and calls resolve_collect back, which derives
\* the winnings again from the card; only a card carrying its terms is counted.
SettleCollect(r) ==
    /\ Instruction
    /\ r \in receipts /\ CollectClears(r)
    /\ receipts' = receipts \ {r}
    /\ house' = Less(house, r.wins)
    /\ pot' = pot - r.fromPot
    /\ purse' = [purse EXCEPT ![r.user] = Add(Add(@, r.wins), Sols(r.fromPot))]
    /\ LET c == cards[r.user]
           counted == IF c.layout = "short" THEN Nothing
                      ELSE Winnings[c.terms][c.seed].amounts
       IN \E new \in NewRows(counted) :
            /\ books' = CountCollect(c, counted, books.rows \cup new, r.fromPot)
            /\ hist' = [hist EXCEPT
                 !.paid[r.user][c.ticket] = @ + 1,
                 !.unbooked = [m \in Mints |->
                    IF c.layout # "short" /\ m \in books.rows \cup new
                    THEN @[m] ELSE @[m] + r.wins[m]],
                 !.termless = IF c.layout = "short" THEN Add(@, r.wins) ELSE @]
    /\ cards' = [cards EXCEPT ![r.user].status = "Collected"]
    /\ UNCHANGED <<perms, vrf>>

AnyReceipts == TRUE    \* mutant

\* An open receipt is funded by its own account, so the runtime keeps no
\* transaction that leaves one behind.
NoReceiptOpen == receipts = {}

CommitTx ==
    /\ open /\ NoReceiptOpen
    /\ open' = FALSE /\ room' = 0
    /\ committed' = Live
    /\ UNCHANGED <<shelf, count, cards, perms, purse, house, pot, receipts,
                   vrf, books, hist>>

\* Any instruction that fails undoes the whole transaction.
AbortTx ==
    /\ open
    /\ cards' = committed.cards /\ perms' = committed.perms
    /\ purse' = committed.purse /\ house' = committed.house
    /\ pot' = committed.pot /\ vrf' = committed.vrf
    /\ books' = committed.books /\ hist' = committed.hist
    /\ receipts' = {} /\ open' = FALSE /\ room' = 0
    /\ UNCHANGED <<shelf, count, committed>>

-----------------------------------------------------------------------------
(* Transactions of one instruction *)

Single == ~open /\ UNCHANGED <<receipts, open, room>>
Keep == committed' = Live'

AnswersWaiting(q, c) == Exists(c) /\ c.status = "Requested"    \* mutant

Answers(q, c) == /\ Exists(c)
                 /\ c.generation = q.generation
                 /\ c.status = "Requested"

\* The oracle's answer.  It is applied only to the card whose generation it
\* carries and only while that card waits; a request may be answered again.
CallbackReveal(q, s) ==
    /\ Single
    /\ q \in vrf
    /\ Answers(q, cards[q.user])
    /\ cards' = [cards EXCEPT ![q.user].seed = s,
                              ![q.user].status = "Revealed",
                              ![q.user].drawn = q.ticket]
    /\ UNCHANGED <<shelf, count, perms, purse, house, pot, vrf, books, hist>>
    /\ Keep

\* The oracle drops a request, or its last answer to one is refused.
LoseRequest(q) ==
    /\ Single
    /\ q \in vrf
    /\ vrf' = vrf \ {q}
    /\ UNCHANGED <<shelf, count, cards, perms, purse, house, pot, books, hist>>
    /\ Keep

\* Answers still owed to a player's card that a later card could meet.
Owed(u) == {q \in vrf : q.user = u /\ q.generation > 0}

\* A card's account goes; nothing else remembers it.
Drop(u) ==
    /\ cards' = [cards EXCEPT ![u] = NoCard]
    /\ hist' = [hist EXCEPT
         !.stranded = @ \cup {q.user : q \in Owed(u)},
         !.voided[cards[u].card_id] =
            IF cards[u].status # "Collected" THEN @ + 1 ELSE @]
    /\ UNCHANGED <<shelf, count, perms, purse, house, pot, vrf, books>>

\* The operator's escape hatch, whatever the card's status.
CloseCard(u) ==
    /\ Single
    /\ u \in Closable /\ Exists(cards[u])
    /\ Drop(u)
    /\ Keep

\* By address, and only a card of a layout the program no longer makes or
\* reads terms from.
CloseStrayCard(u) ==
    /\ Single
    /\ u \in Closable /\ cards[u].layout = "short"
    /\ Drop(u)
    /\ Keep

UpgradePermissions(u) ==
    /\ Single
    /\ perms' = IF Exists(cards[u])
                THEN [perms EXCEPT ![u] = Upgraded(@)] ELSE perms
    /\ UNCHANGED <<shelf, count, cards, purse, house, pot, vrf, books, hist>>
    /\ Keep

\* Rewrites a published card in place or publishes the next one.
SetCard(i, t) ==
    /\ Single
    /\ i <= count /\ i < MaxCards
    /\ shelf' = [shelf EXCEPT ![i] = t]
    /\ count' = IF i >= count THEN i + 1 ELSE count
    /\ UNCHANGED <<cards, perms, purse, house, pot, vrf, books, hist>>
    /\ Keep

TopUp(m, n) ==
    /\ Single
    /\ hist.added[m] + n <= TopUpMax
    /\ house' = [house EXCEPT ![m] = @ + n]
    /\ hist' = [hist EXCEPT !.added[m] = @ + n]
    /\ UNCHANGED <<shelf, count, cards, perms, purse, pot, vrf, books>>
    /\ Keep

WithdrawHouse(m, n) ==
    /\ Single
    /\ n <= house[m]
    /\ house' = [house EXCEPT ![m] = @ - n]
    /\ hist' = [hist EXCEPT !.removed[m] = @ + n]
    /\ UNCHANGED <<shelf, count, cards, perms, purse, pot, vrf, books>>
    /\ Keep

Next ==
    \/ BeginTx
    \/ \E k \in Keys, u \in Users, i \in CardIds : RequestPurchase(k, u, i)
    \/ \E k \in Keys, u \in Users : RequestCollect(k, u)
    \/ \E u \in Users : RequestReveal(u)
    \/ \E r \in receipts : SettlePurchase(r)
    \/ \E r \in receipts : SettleCollect(r)
    \/ CommitTx
    \/ AbortTx
    \/ \E q \in vrf, s \in Seeds : CallbackReveal(q, s)
    \/ \E q \in vrf : LoseRequest(q)
    \/ \E u \in Users : CloseCard(u)
    \/ \E u \in Users : CloseStrayCard(u)
    \/ \E u \in Users : UpgradePermissions(u)
    \/ \E i \in CardIds, t \in Terms : SetCard(i, t)
    \/ \E m \in Mints, n \in Floats : TopUp(m, n)
    \/ \E m \in Mints, n \in Floats : WithdrawHouse(m, n)

Spec == Init /\ [][Next]_vars

-----------------------------------------------------------------------------
(* Properties *)

\* Every variable has its type, the snapshot a failing transaction restores
\* included.
LiveType ==
    [cards : [Users -> Card], perms : [Users -> SUBSET Members],
     purse : [Users -> Amounts], house : Amounts, pot : Nat,
     vrf : SUBSET Request, books : Books, hist : History]

TypeOK ==
    /\ shelf \in [CardIds -> Terms] /\ count \in 0 .. MaxCards
    /\ receipts \subseteq Receipt
    /\ open \in BOOLEAN /\ room \in 0 .. MaxInstructions
    /\ Live \in LiveType /\ committed \in LiveType
    /\ ~open => receipts = {} /\ room = 0 /\ committed = Live

\* A ticket is paid at most once, however its collects are interleaved, by
\* whichever keys, in one transaction or several (request_collect writes
\* nothing to the card; only resolve_collect's status check stands in the way).
PaidOnce == \A u \in Users, n \in Tickets : hist.paid[u][n] <= 1

\* The pot is what the analytics say went in less what they say was paid out,
\* though it is read by one instruction, paid by a second and recorded by a
\* third from the receipt's arguments.
PotBooks ==
    books.jackpot_in < WordMax /\ books.jackpot_paid < WordMax =>
      pot + books.jackpot_paid = Pot0 + books.jackpot_in

\* The house ledger is explained by the analytics and the operator's own
\* movements, mint by mint, up to payouts the counters are allowed to miss.
HouseBooks ==
    \A m \in Mints :
      /\ books.lamports_in < WordMax /\ books.jackpot_in < WordMax
      /\ books.payouts[m] < WordMax
      => house[m] + books.payouts[m] + hist.unbooked[m] + hist.removed[m]
            + Sols(books.jackpot_in)[m]
         = House0[m] + hist.added[m] + Sols(books.lamports_in)[m]

\* But for cards sold before cards carried their terms, the counters miss a
\* payout only of a mint without a row, and only once every row is taken.
MissedOnlyWhenFull ==
    /\ Cardinality(books.rows) <= TOKEN_SLOTS
    /\ \A m \in Mints :
         hist.unbooked[m] > hist.termless[m] =>
            m \notin books.rows /\ Cardinality(books.rows) = TOKEN_SLOTS

\* Per card of the sheet, cards sold less cards collected is the number of
\* tickets players hold, but for those the operator closed and those carried
\* in from an earlier build, as long as neither counter has reached its limit.
CountsAgree ==
    \A i \in CardIds \cap (0 .. CARD_SLOTS - 1) :
      books.cards_sold[i] < WordMax /\ books.cards_collected[i] < WordMax =>
        books.cards_sold[i] + hist.carried[i]
          = books.cards_collected[i] + Cardinality(Outstanding(cards, i))
              + hist.voided[i]

\* A card's seed was drawn for the purchase that made the card, not for an
\* earlier one of the same player, unless the operator closed a card of that
\* player while the oracle still owed it an answer.
AnswersMatch ==
    \A u \in Users :
      Exists(cards[u]) /\ cards[u].status \in {"Revealed", "Collected"} =>
         cards[u].drawn = cards[u].ticket \/ u \in hist.stranded

\* The price debited is the price of the terms the card carries, though the
\* request and its settle each read the shelf.
ChargedPrice ==
    \A u \in Users :
      cards[u].layout = "full" => cards[u].charged = cards[u].terms.price

\* Every card made by a purchase is readable by all its readers, whatever
\* permission an earlier build left at its address.
ReadersComplete ==
    \A u \in Users : cards[u].layout = "full" => Members \subseteq perms[u]

Stage == [s \in Status |-> CASE s \in {"Bought", "Requested"} -> "sold"
                             [] s = "Revealed" -> "drawn"
                             [] s = "Collected" -> "paid"]

\* The ticket a card is, as Ticket sees it.
Held(c) == [n |-> c.ticket,
            stage |-> IF Exists(c) THEN Stage[c.status] ELSE "none",
            terms |-> c.terms,
            seed |-> IF c.status \in {"Revealed", "Collected"}
                     THEN c.seed ELSE NoSeed]

Promise == INSTANCE Ticket WITH
    ticket <- [u \in Users |-> Held(committed.cards[u])],
    sold <- [u \in Users |-> committed.hist.bought[u]],
    paid <- [u \in Users |->
               {n \in Tickets : committed.hist.paid[u][n] > 0}]

\* Seen between transactions, the program keeps the promise of Ticket: while
\* a player holds a ticket its terms never change, its seed is written once, it
\* is paid for once, and no purchase replaces one that was not paid, whatever
\* is re-rated, retried, answered late or undone.
TicketPromise == Promise!Spec

\* What request_reveal and the README say of every answer, without the
\* exception AnswersMatch makes.
StaleAnswersRejected ==
    \A u \in Users :
      Exists(cards[u]) /\ cards[u].status \in {"Revealed", "Collected"} =>
         cards[u].drawn = cards[u].ticket
=============================================================================
