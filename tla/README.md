# Scratch Cards in TLA+

A verification development for `scratch-cards-program`: TLA+ modules translated from the Rust
source, TLC instances of them, and theorems checked by TLAPS. Paths below are relative to the
repository root; `engine/src/lib.rs:271` is a line of it.

## 1. The system

### Components

| Component | State it keeps | Operations | What makes it correct |
| --- | --- | --- | --- |
| Card lifecycle (`src/instructions/{request,resolve}_purchase.rs`, `{request,callback}_reveal.rs`, `{request,resolve}_collect.rs`, `src/state/card.rs`) | one card account per player: layout, status, card id, seed, terms, generation | buy, reveal, collect, each asked for by one instruction and settled by another | a ticket keeps its terms, is drawn once and for that purchase, is paid once, and makes room for the next only when paid |
| Vault ledgers and receipts (casino-core and the vault program; external) | a balance per owner and mint, one open receipt per program and consenting key | create, settle with callback, deposit, withdraw | money moves with the callback or not at all |
| Randomness oracle (external) | requests in flight | answer late, twice, out of order or never | an answer reaches only the purchase it was drawn for |
| Analytics (`src/state/analytics.rs`) | saturating counters, 16 card slots, 16 payout rows | written by the two settle callbacks | the counters explain the ledgers; what they miss is known |
| Operator's card instructions (`close_card.rs`, `close_stray_card.rs`, `upgrade_permissions.rs`) | none of their own | drop a card, drop a card of an old layout, add missing readers | the stray-card path drops no card of the current layout at its player's address; cards stay readable |
| Shelf (`set_card.rs`, `initialize.rs`, `state/config.rs`, casino-core `grow_config`) | published cards, their count, the account's capacity | initialize, grow, rewrite or append one card | grows, never shrinks; no card is visible without content |
| Sheet validation (`set_card.rs:66-204`) | none | accept or refuse one card | an accepted card can always be dealt |
| Engine (`engine/src/lib.rs`) | none: a function of a card and a seed | roll, render, value | the cells are worth what was rolled; the jackpot line reads won only when it is |
| Treasury, delegation and ledger administration (`src/lib.rs` instructions 2-4, 15-22, 30) | in casino-core | thin adapters, one call each | out of this repository |
| Client loop (`cli/src/play.rs`) | where a player's run stands | buy, reveal, collect, finish a card left mid-flow | a run that died is picked up; every paid ticket is collected in the end |
| Operator's tool: publish and verify (`cli/src/main.rs:220-311, 375-422`, `sheet.rs`) | one read of the shelf, the slot it is at | publish, verify, setup | the shelf ends up saying what the sheet says, and never sells a retired card |
| Operator's tool: float (`cli/src/float.rs`) | one read of the house ledger and the admin's wallet | top-up, acquire-float | the house covers the worst single collect; what is bought can be moved |
| Operator's tool: stray cards (`cli/src/main.rs:313-373`) | one listing | close the cards listed | old cards go; only a card of today stops it |
| Operator's tool: prices and probes (`cli/src/{prices,probe}.rs`) | files of prices and mints | read and print | - |
| Sheet tool: weights (`tools/sheet/src/model/{types,solve}.ts`, `rebalance.ts`) | the weights being solved, the file | solve, pin, flood, check, write | weights are an exact partition; what it writes is accepted |
| Sheet tool: checks (`tools/sheet/src/model/validate.ts`) | none | accept or refuse a card | it agrees with `SetCard::validate` |

### How they interact

A purchase is one transaction of two instructions. `request_purchase` prices the card from the
shelf and has the vault open a receipt: price less 10 % to the house, 10 % to the pot. The vault's
settle moves the money and, inside the same instruction, calls back `resolve_purchase`, which
reads the shelf again, makes the card (or reuses a collected one), prints the terms on it, adds
missing readers and counts the sale. `request_reveal` marks the card and asks the oracle for
randomness; the oracle's `callback_reveal` comes in a transaction of its own, later.
`request_collect` values the card with the engine and opens a receipt for the winnings and, on a
jackpot line, the pot as it stands; the settle pays and calls back `resolve_collect`, which derives
the winnings again, counts them and marks the card collected. Any instruction that fails undoes
its whole transaction, and a receipt cannot outlive the transaction that made it (`AUDIT.md`,
item 13). The operator rewrites the shelf, closes cards and moves the float at any time between.
The client drives these instructions from outside and may die between any two; the operator's commands
each read the chain once and then send one transaction per card or per token, so every one of them
works on a reading that others may have overtaken.

### What is hard

Two readings of the shelf or the pot with other instructions between them; requests that write
nothing to the card and may be repeated by other keys; randomness that is asked for again while an
earlier answer is still due; accounts of three layouts left by earlier builds; counters that
saturate and tables that fill up; a failure late in a transaction that has already paid; a transaction
of a killed client that lands in the middle of the next run; commands that break off half-way, with the
last step landed or not, and are run again. `PROJECT.json` lists each hazard at its line with the properties that cover it.

## 2. The modules

| Module | What it is |
| --- | --- |
| `ScratchCards` | The core: card accounts, ledgers, receipts, oracle, analytics, and every instruction that changes them. |
| `Ticket` | The abstract specification: what a player is promised, without receipts, generations, requests or transactions. `ScratchCards` implements it (`TicketPromise`). |
| `MCScratchCards` | Small players, keys, mints, sheets and carried cards for TLC. |
| `ScratchCardsSafety` | Proofs: the types, the inductive invariant and the safety theorems. |
| `ScratchCardsPromises` | Proofs: the analytics' counts of players and rows, the money of all players and the house, the tickets of players whose cards nobody closes, that `ScratchCards` implements `Ticket`, and of the clients of `Play` what carries over to them, what a run meets and why it is refused. |
| `Totals`, `TotalsProofs` | Sums and largest elements over finite parts of a table, and the lemmas about them every proof below cites. |
| `Chances` | The number weights are chances out of. |
| `CardSheet` | A card of the sheet and `SetCard::validate` as a predicate. |
| `Engine` | The deal: roll, marks, duels, planted wins, fill, jackpot line, and what the cells are worth; the closed form that sizes the float. |
| `MCEngine` | Small cards for TLC. |
| `EngineProofs` | Proofs about the deal of any card. |
| `CardList` | The abstract shelf: a list of published cards without gaps that is overwritten or appended, never shortened. |
| `Shelf`, `MCShelf` | The config account with its capacity, slots, count and rent. Implements `CardList` (`KeepsTheList`). |
| `Publisher`, `MCPublisher` | `publish`, `setup` and `verify` over `Shelf`, broken off, repeated and overtaken. Its steps are written from those of `Shelf`. |
| `ShelfProofs` | Proofs about `Shelf` and `Publisher`: the shelf's promise, and what a run of `publish` leaves for `verify` to find. |
| `Play`, `MCPlay` | The client loop over `ScratchCards`, of which every behaviour is one. |
| `Float`, `MCFloat` | `top-up` and `acquire-float` over the house and the admin's wallet. |
| `FloatProofs` | Proofs about it. |
| `Strays`, `MCStrays` | `close-stray-cards --go` against `CloseStrayCard`. |
| `StraysProofs` | Proofs about it. |
| `SheetTool`, `MCSheetTool` | The weight solver's integer part, the waterfill, and the gate before a file is written. |
| `SheetCheck`, `MCSheetCheck` | The tool's validator beside the program's, over edited cards. |
| `SheetProofs` | Proofs about both. |

### ScratchCards

State. `shelf`, `count` are `["config"]`; `cards[u]` is `["card", u]`, a record of the account's
layout and fields; `perms[u]` the members of the card's permission; `purse`, `house`, `pot` the vault
ledgers; `receipts` the open receipts; `vrf` the randomness requests that may still be answered;
`books` the analytics account. `open`, `room` and `committed` are the runtime: whether a transaction
runs, how many more instructions the model lets it hold, and the state it would give back. `hist`, and
the fields `ticket`, `drawn` and `charged` of a card, are history: no guard of the code reads them,
with one exception that is a bound (`hist.bought[u] < MaxBuys` in `CanBuy`).

Actions. A player's transaction is `BeginTx`, then instructions in any order and by any keys, then
`CommitTx` or `AbortTx`. A failing instruction is not an action of its own: an abort is possible
after any instruction, so a guard that is false and an abort are what the runtime does with an error.

| Action | Code |
| --- | --- |
| `RequestPurchase` | `request_purchase.rs`: the price read, the split, the receipt |
| `SettlePurchase` | the vault's settle (the debit and both credits) and `resolve_purchase.rs` in one step, as in the code |
| `RequestReveal` | `request_reveal.rs`: the status, and a request that carries the card's generation |
| `CallbackReveal`, `LoseRequest` | `callback_reveal.rs`; the request stays, so it may be answered again, late or never |
| `RequestCollect` | `request_collect.rs`: the winnings by the card's own terms (the shelf's for a card too short to carry them), the whole pot on a jackpot line |
| `SettleCollect` | the settle and `resolve_collect.rs` |
| `CloseCard`, `CloseStrayCard`, `UpgradePermissions`, `SetCard` | the operator's instructions, each a transaction of its own |
| `TopUp`, `WithdrawHouse` | the house ledger moved by the operator |

What the engine deals is the constant `Winnings[terms][seed]`: the core's properties hold whatever
it is. A payload is its member of a small set; a mint, a key, a seed is a model value.

External parts, modelled from how `src/` uses them: the vault keeps at most one open receipt per
consenting key; settling moves the money and calls back in one instruction, and an open receipt does
not outlive its transaction (`AUDIT.md`, item 13); the oracle answers any request it was ever sent.

### Engine

One behaviour is one deal. `Init` picks any card `set_card` accepts (`Valid`); `Roll` draws the
outcome; `PlaceMarks`, `RenderDuels`, `Plant` (a win at a time), `Fill` (a cell at a time) and
`RenderJackpot` are the stretches of `render` in its order. Each draw of the generator is a choice
over what that draw can return, so TLC covers every seed, and also sequences of draws no seed produces. The stage "bad" is where `render` returns `BadCard` or panics. `Winnings` is `winnings`,
which reads only the cells, and `Rolled` the other side of `deal_checked`. `Worst` is `worst_cases` of
the operator's tool. Two bounded retry loops (256 draws for distinct marks, 64 for distinct house
numbers) are modelled by what they can leave behind, including having run out of tries.

### Shelf and Publisher

`made`, `capacity`, `slots`, `count` and `funds` are the config account: whether it exists, how many slots
its bytes hold, what is in them, the published count, and its lamports (`MinBalance` of a size stands for
the rent). `Initialize(n)` creates or grows it and raises the count to `n` at most, never lowering either;
`SetCard` overwrites or appends, growing by a slot when the next has none; `GrowConfig` only makes room.
A slot nobody wrote is `Zeroed`.

`Publisher` adds the tool: `file` is `cards.json`, `sheet` what a run loaded, `seen` the one reading of the
chain, `at` the next slot. `StartPublish`, `Skip`, `Write`, `StopAtRefused`, `FinishPublish` are the two
loops of `publish` (`Goal` is the end of the second, `Want` what a slot past the sheet gets); `BreakOff` a
send that failed, its card landed or not; `Verify` compares and ends the procedure or starts it over.
`Setup` is `Initialize(0)`, which is what the tool sends (`main.rs:524`). `Other` is another holder of the
ops key, `EditSheet` a new file. `touched` is history.

### Play

`Play` extends `ScratchCards` with clients: `pc` says where a run stands, `left` how many cards it has still
to buy, `flight` the transactions sent and not yet run, those of killed runs marked as such, `running` the
one the rollup executes.
`StartRun` is `play`, its card read `Table::finish`'s (`Finish`, `After`); `Send` builds a transaction;
`SeeSeed` and `GiveUp` are the two ends of the wait; `Die` kills the client with its transaction on the
way, `DropTx` loses one. `Begin`, `Execute`, `Land` and `Fail` run a transaction through the program's own
actions; `Answer` and `Lose` are the oracle. `Refused` says that the instruction a transaction has come to is
not one the program takes, by the guards of `ScratchCards` (`TakesFirst`, `TakesSettle`); `Ample(P, W)` that an
instance has enough of everything, at a price of `P` and winnings of `W` at most.

### Float, Strays

`Float`: `house`, `wallet`, `worst` (`Engine`'s `Worst`, per token), and a command's rows in `asked`.
`TopUp` reads once, `Fund` keeps the rows the wallet can pay in full, `Move` moves one; `Acquire` computes
what to buy, `Quote` checks it is affordable, `Swap` buys one token; `Fail` stops either at a row that may
have landed. `Collect`, `Publish` and `FundAdmin` go on meanwhile. `RoundUp` is `sheet::round_up` over the
powers of ten in `Steps`.

`Strays`: `List` takes one listing of the accounts the tool can read, `Send` closes one, `Refusal` and
`LoseSend` end the run; players collect and buy anew between. An account is told by its layout: a stub no
build reads, `short` and `terms` of older builds, `full` of this one, at a player's own address or (a relic)
elsewhere.

### SheetTool, SheetCheck

`SheetTool` is one card's way through the solver: `OnTheCurve` or `Pin`, `Fill` (a pass of the waterfill)
until `FillEnds`, `Odds` for the pays, `Apply` with its checks; `Unpriced` carries the file's weights
over, `Balance` is the tool's button, `Edit` a hand in the file. Floating-point quotients are exact fractions
here; what the solver derives from prices (the curves, and by how much the pays are off: `Gains`) is an
input. `SheetCheck` edits a card field by field; `Passes` is `validate.ts`, `Valid` is `CardSheet`'s.

## 3. What the runs check

| Run | Question | States |
| --- | --- | --- |
| `two_players` | Two players, a key each, two tickets each, one house and one pot, receipts of both in one transaction: types, the pot against the books, no double payment, the ticket promise. | 515,521 (players exchanged by symmetry) |
| `one_player` | One player with two keys, re-rated and appended cards, an operator who closes cards: price charged, seed drawn for this purchase, sales and collects against tickets held, the ticket promise. | 297,360 |
| `old_cards` | Cards of both older layouts in four statuses at the start, two mints and one payout row, an operator who tops up and withdraws, a seed that cannot be dealt: readers, missed payouts, the house against the books. | 678,127 |
| `stale_answer` | Expected violation: `StaleAnswersRejected`. | |
| `deals` | Every deal of five cards shaped like the published shelf, of thirteen cards `set_card` accepts and the engine does not keep its word on, of one with too many entries (not for sale: only a broken validator lets it in), and of every accepted pay table of one or two entries over four cells with two, three or four tokens: but for the shapes named below, the cells are worth what was rolled and the renderer is never stuck; no win is dropped, nothing fires that was not won, the float's closed form bounds every payout, the jackpot line tells the truth. | 190,898 |
| `shelf` | The account from nothing or carried over, grown three ways and written in any legal order. | 184 |
| `publish` | Sheets that grow, shrink and hold a refused card; runs broken off anywhere, forced or not; the file edited meanwhile and another writer: what a run without an error leaves, that a run broken off leaves no more than two sheets, that nothing retired sells, and under fairness that the chain ends up matching the file. | 66,870 |
| `play` | Two killed runs, timeouts, lost transactions and requests, a repeated wait, cards carried in any status: who can make the program refuse a run, and under fairness that every ticket bought is paid. | 184,492 |
| `topup` | Both commands, with `--fill` and without, a token whose route is not exact, failing rows, a collect and a new sheet at any moment; and under fairness that every token reaches its target. | 111,329 |
| `strays` | Two players and two relics in every mix of layouts, one card private, runs cut anywhere: what can stop a run, and what a run that nothing stopped leaves. | 130,166 |
| `sheet` | Pools of up to four tokens on every small curve, on it or pinned at any share, exclusive pays, files edited by hand, a run without prices: nothing is lost in rounding or flooding, and what is solved from prices passes the checks. | 138,460 |
| `checks` | Two cards and every pair of edits to them, through both validators. | 39,746 |

Deals end, edits run out and nothing has to follow, so `deals` and `checks` do not check deadlock; every
other run does.

**Bounds, and why they are enough.** Two tickets per player are what it takes for an answer, a receipt
or a payment to meet the wrong ticket; a third meets nothing new. Two keys are what it takes for two
receipts of one player to be open at once, two players for one pot to be drained under another's
receipt. Four instructions are a purchase and a collect, or two collects, of different keys in one
transaction; `one_player` needs it, `old_cards` gets by with three. One payout row and two mints fill the
table. `MaxCards = 2` with `Count0 = 1` lets a card be appended. `TopUpMax` bounds deposits only.
Prices of 15 and 25 make the pot's tenth round. `WordMax` is above every sum of the runs: saturation is stated (the books' properties hold below it)
and proved about, not driven into. In `MCEngine`, `TOTAL = 8` for 2^32 only has to tell a weight of
zero, a shortfall and a full table apart; a scope of four or five cells is the smallest in which a
tight and a loose cap, two rungs, and two crossing lines differ; three
tokens are the smallest pool in which the fill can run out; the theorems lift all of these. In `shelf` five slots leave room to grow
twice past the two it starts with. `publish` has two slots to spare and sheets of one to three cards, so that the
second loop has something to do; one edit and one foreign write each can fall between any two steps, and
the theorems lift both bounds. Two deaths in `play` leave two transactions in the air, which is what
it takes for one to overtake the other; each can land in any later run. `topup` runs at a factor of two,
where both halves of `OkMeansCovered` say something (the theorem is for every factor); targets of
8, 138 and 18 lie on both sides of the hundred where rounding begins. In `sheet` a `TOTAL` of 1000
leaves remainders in every division by three; four tokens are the smallest pool where raised tokens sink
again.

**Fairness.** Only three runs state any, and only of what somebody goes on doing. `PlayFairness`
(`play`): the player comes back while a card is unpaid, a client's next step and the rollup's are not put off for ever, the wait ends one
way or the other; a transaction sent again and again is not lost every time, and a request repeated is answered
once. Deaths are bounded: a client killed for ever promises nothing. `Diligence` (`publish`): the operator follows the
procedure to its end ("never skip verify"), and a card sent again and again is not lost every time.
A send lost on the way is settled one way or the other before the next run, which is what an expired
blockhash does. `Runbook` (`topup`): acquire and top up with `--fill` are repeated, the admin is kept in SOL, a
command ends, and no row is refused every time.

**A finding.** `stale_answer`: after `close_card` the player's next card has generation 1 again, so the
answer owed to the closed card reaches it; `AnswersMatch` is the property that does hold, with that one exception.

**Exceptions.** Where the code does less than a comment says, the property that holds is checked with
the exception written into it, and the comment's own wording is kept as a property of its own with a
small configuration that shows the counterexample:

| Configuration | Property | What it shows |
| --- | --- | --- |
| `misvalued` (`MCEngine`) | `AlwaysShowsIt` | one card at a time, for each shape of the next table whose cells are not worth what was rolled (against `engine/src/lib.rs:679`) |
| `stuck` | `NoneSticks` | the same for each shape the renderer stops on (against `set_card.rs:67-68`) |
| `declared` (`MCShelf`) | `PublishedWritten` | `Initialize` given a count of cards nobody wrote publishes them (`initialize.rs:139`, against `set_card.rs:220`); the tool declares none |
| `halfway` (`MCFloat`) | `HouseCovers` | without `--fill` a token is refilled below half its target, at the runbook's factor of 1.5 less than the worst collect (`float.rs:99`, against `float.rs:1`) |
| `whatever_lands` | `MovesWhateverLands` | a swap that lands short stays in the wallet (`float.rs:140`, against `float.rs:288`); acquiring again buys the rest |
| `closes_each` (`MCStrays`) | `ClosesEach` | a card of the current layout is listed as a stray (`main.rs:350`), refused, and ends the run |
| `unread` | `UnreadDropped` | an unpaid card of the first layout, which `request_collect` still pays, is closed as a stray (`close_stray_card.rs:42`) |
| `pinned` (`MCSheetTool`) | `AlwaysRarest` | two tokens take turns below the pin until the passes run out (`solve.ts:285`, against `solve.ts:279`) |
| `ceiling` | `UnderTheCeiling` | seven equal exclusive pays each round up, past the whole (`solve.ts:115`); the checks then refuse the file |
| `every_rule` (`MCSheetCheck`) | `EveryRule` | a pay of multiple nought passes the tool and is refused on chain (`validate.ts:14`); `Unasked` lists every such rule |

The engine's shapes, as `Engine` names them; `EngineProofs` shows that there are no others:

| Shape | What happens on such a card | Card of `MCEngine` |
| --- | --- | --- |
| `Tiered` | a tier is rolled (`engine/src/lib.rs:306`) and `render` writes no multiplier cell, so it is never paid | `Slot` |
| `DrawsWin` | with a non-strict duel a loss can be dealt as a draw (528), which pays (604) | `Tied` |
| `Straddling` | an entry over no prize cell, over two, or over another entry's: the duel pays once per prize, by the first entry that covers it (519-523, 612-619) | `Twice`, `Missed`, `Shared` |
| `Overlapping` | planting one entry puts enough tokens into another's scope, a short row inside a long one for one (427) | `Nested` |
| `Doubled` | two rungs of one height over one scope both count as the highest (636-644) | `Twin` |
| `Numbered` | a scope over number cells, which no fill reaches (448-452) and which end as plates of the first token (478-482) | `Blank` |
| `Undermarked` | more marked entries win at once, on tokens of their own, than there are marks to show (382-391) | `Unseen` |
| `NoRoom` | marks or a duel's numbers take the cells an entry is planted on (431) | `Reaching`, `Grabbing` |
| `HalfMarked` | the marked rung's cap is the lower one and `check_fillable` looks at the other (`set_card.rs:192`) | `Mixed` |
| `Overmarked` | more marks than the renderer's array, a pool long, has slots (382) | `Crowded` |

No card of `tools/sheet/cards.json` has any of these shapes, and a card reaches the shelf only through the
admin. Two more configurations pass: `any_count` (`MCShelf`, the count and the rent whatever
`Initialize` declares) and `runbook` (`MCFloat`, `ReachesTarget` at the policy's factor of 1.5).

## 4. What is proved

### ScratchCards

For every number of players, keys, mints, terms, seeds, carried cards and instructions, from
`ConstantsAssumption` alone (finitely many players; the types of the constants; a carried card is of a
published id and was readable by some of the members):

| Theorem | Statement |
| --- | --- |
| `TypeCorrect` | `Spec => []TypeOK` |
| `SafeAlways` | `Spec => []Safe`, the inductive invariant |
| `PaidOnceAlways`, `PotBooksAlways`, `HouseBooksAlways`, `AnswersMatchAlways`, `ChargedPriceAlways`, `ReadersCompleteAlways` | each invariant of that name |
| `MissedOnlyWhenFullAlways`, `CountsAgreeAlways` | the same of the counters, with `MintsAssumption` (finitely many mints) besides |
| `ImplementsTicket` | `Spec => TicketPromise` |
| `MoneyConserved` | `Spec => []Money`: mint by mint, what the vault holds for the players, the house and the pot is what it held at first, the operator's own movements aside |
| `PlayersBooksAlways` | what the players hold between them follows from the analytics, up to saturation |
| `NothingForgottenAlways`, `RequestsUniqueAlways` | of players whose cards nobody closes: a ticket bought was paid or is the card held now, and one generation is asked for one ticket only |
| `StaleAnswersRejectedUnclosed` | `Closable = {}` implies `Spec => []StaleAnswersRejected` |

**The argument.** A transaction changes `Live` and a failing one gives back `committed`, so every fact
is a predicate of such a record and the invariant says it of both: then `AbortTx` and `CommitTx` keep
it for free. `Safe` is `Typed /\ Good(Live) /\ Good(committed) /\ ReceiptsFair`. `PaidOnce` alone is not
inductive: `PaidKept` adds that a card that is not collected holds an unpaid ticket and that tickets
not yet bought are unpaid. `AnswersMatch` needs to speak of requests in flight: none carries a
generation above its player's card, and one that carries the card's own was made for its ticket
(`AnswersKept`); a card of an older layout has generation 0, which is why requests of generation 0 do
not count as owed. The books need the receipts: what an open receipt will credit is what the settle
will count (`ReceiptsFair`), which holds because a receipt cannot outlive its transaction and no re-rate
happens inside one. Saturation is why the books' properties are conditional: `SatExact` says a counter
below its limit was never pinned. Each action has a lemma (`...Typed`, `...Safe`, `...Along`); `NextTyped`,
`NextSafe` and `NextKept` put them together.

The refinement maps a player's ticket to the card in `committed`, so one step of `Ticket` is one
commit or one single-instruction transaction. A transaction may take several steps for one player;
`ScratchCardsPromises` shows that the stages passed in it add up to one step of `Ticket` (collect
and buy again is its `PayAndSell`), which is the strengthening its invariant `Kept` carries.

The counters' proofs count sets: `CountsAgree` compares a counter with the number of players holding
a card of that id, so a purchase or a collect changes a cardinality by the one player it is about, and the
invariant carries the tally for `Live` and for `committed`; it speaks of counters below `WordMax`, past which a saturated
one says nothing. `MissedOnlyWhenFull` carries that a row once taken is kept.

`MoneyConserved` is a sum over the players of a step that moves one of them (`PurseMoves`, from `SumChanged` of
`TotalsProofs`): whatever interleaves, what a settle takes from one ledger it puts on another, and an abort gives back
a state that was balanced. `PotBooks` and `HouseBooks`, parts of `Safe`, each explain one ledger by the counters; with `Money`
what they leave over is the players', which is `PlayersBooks`.

`NothingForgotten` and `RequestsUnique` rest on `Faithful`: the card is the player's last ticket, all before it were paid, and
a request is as many generations behind its player's card as it is tickets. `CloseCard` is the one
instruction that breaks this, because it starts generations over, so the theorems speak of players outside `Closable`, and
`StaleAnswersRejectedUnclosed` is the other side of the finding in §3: what `callback_reveal.rs` says of late answers
is true where no card is closed by hand.

### Shelf and Publisher

| Theorem | Statement |
| --- | --- |
| `CountFitsAlways`, `RentPaidAlways` | for every set of counts `Initialize` may be given |
| `PublishedWrittenAlways`, `KeepsTheListAlways` | where it declares none (`Declared = {0}`), which is what the operator's tool does |
| `PublishLandsAlways`, `NothingRetiredSellsAlways` | for every sheet, count and number of other writers, where `Declared = {0}`; `PublisherAssumption` says a sheet is not empty and not longer than the byte its index is sent in |
| `OnlyOthersDifferAlways` | after a publish without an error, a slot that `verify` lists was written by somebody else since the run began |
| `MixesOnlyTwoAlways` | while a run is under way, and wherever it broke off, every slot holds what its sheet wants there or what the run read of it, others' writes aside |
| `VerifyEndsAlways` | a verify after such a run of the file as it is, with nobody else writing, ends the procedure |
| `KeepsMatchingAlways` | a step changes a chain that matches the file only by another's card or an edited file |

`Publisher` writes its steps from `Shelf`'s, so what is proved of `Shelf` carries over (`PubIsShelf`, a lemma).
`PublishLands` is inductive with the types and the fact that what a run saw of a slot is still there
unless it or somebody else wrote it since (`RunInv`). `NothingRetiredSells` needs besides that the run reaches
every slot on sale: the count a run read bounds what it must overwrite, and a slot past that can only have been
put on sale by another's write, which `touched` remembers (`Counted`, `ReachInv`).

The last three are what of `Converges` is safety. From `ReachInv`, the run that reaches `verify` has left every slot on sale
as its sheet wants it, others' writes aside, so the verify ends the procedure where the sheet is still the file. And a chain that
matches stays so: a card the publisher sends again goes to a slot below the count that holds it already (`RewritesTheSame`),
wherever the run breaks off. That the runs come to an end is left to TLC.

### Play

| Theorem | Statement |
| --- | --- |
| `PlayPaysOnce`, `PlayAnswersMatch`, `PlayKeepsTicket`, `PlayForgetsNothing` | what is proved of the program holds under every client |
| `RunsMeetTheirCards` | `PlaySpec => []MeetsItsCard`: the transaction of a run nobody overtook meets its card in a status its instruction takes |
| `RefusedForAReasonAlways` | a run's own transaction is refused only because a killed run's landed during the run, because the oracle's answer came before the second request for the seed, or for a want (`Wanting`): no key of the player's, an empty shelf, the card's last generation, the price not held, a seed that cannot be dealt, a house short of the winnings; never for want of a pot |
| `RefusedOnlyWhenOvertakenAlways` | `Ample(P, W)` implies `PlaySpec => []RefusedOnlyWhenOvertaken` |
| `WaitsForItsOwnAlways` | a run waits for a transaction just while it has exactly one of its own on its way or running; while it waits for a seed, unless a killed run's transaction landed during it, its card is asked for or drawn |

`Play` writes the rollup's steps from the program's own and the clients' as stutters of it, so every behaviour of the clients is
one of `ScratchCards`: the lemma `PlayImplements` shows nothing of the clients, it only carries theorems over. The invariant
`StepInv` says that a run has one
transaction of its own at a time, that what the rollup runs has done nothing, opened its one receipt or done
all of it (`HalfDone`), and that until a killed run's transaction lands in it, a run takes its card for what it is
(`Knows`). `Typed` of the program, carried over, is the other half. `RunInv` adds that an open receipt is its
player's own with just its settle to come and a pot that holds what it asks for (`Ready`), and that who sends a purchase unspoiled has
tickets left to buy (`RoomToBuy`). With it a refusal goes back to a guard of the program that does not hold, and
`RefusedForAReason` names them all, given a transaction may hold the two instructions the client sends (`MaxInstructions >= 2`).

`RefusedOnlyWhenOvertaken` speaks of purses and of the house, and holds only where these suffice. `Ample(P, W)` says so of the constants,
as a hypothesis of the theorem, not an assumption of the module; the run's instance satisfies it with 10 and 10, which TLC evaluates as
`InstanceIsAmple`. `Affords` carries it along: a player still holds the price of every ticket it may yet buy, and the house
what every ticket not yet paid may win (`Left` counts them), so each collect takes out of the house what one ticket's share
covers. `WithinMeans` says it of both records and that no receipt asks for more than one ticket's share.

`WaitsForItsOwn`, `PlayForgetsNothing` and `RunsMeetTheirCards` are safety that `EveryTicketPaid` rests on: the ticket is still there to be
paid, what a run waits for was sent or asked for, and what the next run sends after a wait given up is taken. Whether
a seed comes is not said: a lost one ends in the run's giving up (`GiveUp`) and the next asks again. That the steps
which are possible are taken is fairness, and stays with TLC.

### Engine

For every card `set_card` accepts, with any number of blocks, pays, tiers, tokens and cells, from
`EngineAssumption` (the fields have the types of the wire):

| Theorem | Statement |
| --- | --- |
| `TypesAlways`, `NoWinDroppedAlways` | a roll is well formed and the list of wins has room for it |
| `NeverStuckAlways` | a win always finds cells for its group and a hole always a token, but for `NoRoom`, `HalfMarked`, `Overmarked` |
| `OnlyWinnersFireAlways` | in counting mode the fill fires nothing |
| `LineReadsTrueAlways` | the jackpot line looks won on a hit only |
| `ShowsWhatItRolledAlways` | what is shown is worth what was rolled, on a card of no named shape |
| `CoveredByFloatAlways` | one deal pays no more of a token than `Worst`, the closed form of `float.rs` |

**The argument.** `IInv` carries, beside the types: the line as drawn (`LineUp`); that the marks show every marked
win's token where there are enough of them (`MarksUp`); that a won duel reads as won and a lost one as lost
(`Duelled`); which cells are still bare when a win is planted (`Bare`); and two counts of a token's plates in a
scope: a planted win shows its group and no more (`PlantedKept`), and no other group is large enough to fire (`CapsKept`).
The last is where `placeable`'s cap is used: a cell is filled only with a token that stays below it. That a token is
always left to place is `check_fillable`'s own counting argument: the tokens locked out of a cell are, scope by scope,
no more than the scope's cells divided by its cap, and fewer than the pool. The value theorems then match the entries that
fire with the wins that were rolled and sum both over the same set. Sums are multiples of amounts, as in the engine, without its saturation at
2^64. What the theorem does not say it names: each shape above is a hypothesis, and `MCEngine` has a card of each on which it fails.

### Float and Strays

`FloatOkMeansCovered` and `FloatBoughtIsEnough` hold for every set of tokens, factor and sheet, from
`FloatAssumption` (types, finitely many tokens) and `ReachAssumption` (a power of ten is large enough to round every target to). The
first rests on an invariant of a running top-up, `OnTheWay`: what a row still asks and what the house holds
reach what was short; the second on `Coming`, of a running `acquire-float`. `RoundUp` takes a least element, which
`MinIsLeast` gives. `FloatTypeOK` says the wallet is never overdrawn: `Purse` carries that while rows move each is
covered by itself, and that while rows are bought what the rows left cost together, with the reserve for fees, is within the SOL
held. A swap takes its row's cost out of the sum and out of the wallet alike.

`StraysStoppedOnlyByToday` carries which cards a listing can still hold: a relic stays as old as it was (`RelicsOld`), and a player's card
is replaced by one of the current layout only, so whatever refuses a send is such a card. `StraysCleared` follows from an invariant that says of each card found whether it is still listed, gone, or replaced.

### SheetTool and SheetCheck

| Theorem | Statement |
| --- | --- |
| `TypesAlways`, `PoolExactAlways`, `CurveKeptAlways`, `SolvedPassesAlways` | the invariants of those names, for pools and pay tables of any length and any `TOTAL` |
| `AcceptedPassesAlways`, `PassingIsAcceptedAlways` | the two validators agree up to `Unasked`, whatever is edited and however often |

`IInv` adds to the properties that an idle tool keeps nothing (`Rested`), that a run is about one of the curves
(`Curved`), that under a pin the others' shares are exactly the rest and the pin no more than its part of the whole
(`Shared`), and that up to three tokens settle in one pass (`Settled`). `Shared` is what keeps a pass from raising every
token, or from running out of room. Below it lie the lemmas about `Normalize`, the largest-remainder
rounding: it hands out exactly `TOTAL` (`NormalizeExact`), because what the whole parts leave is fewer units than there are shares, and it
keeps the order of the shares (`NormalizeOrder`). `SheetToolAssumption` takes a curve's weights to be positive and a pool to have no more
tokens than `TOTAL`: `bendOf` is a power of a positive number (`solve.ts:234`), and a pool has ten slots (`MAX_POOL`).

`SolvedPasses` puts the solver's roundings against the gate's checks: the pool is whole (`PoolExact`); exclusive pays are scaled by a factor of one
at most once their table is whole, and no rounding takes one past its bound (`ScaledWithin`); of
independent pays the largest is held at the ceiling and the others below it (`SolvedApart`). Only the exclusive kind is in the run; independent pays are proved and not run.

The validators are compared for every card of the wire's types (`IsCard`), and the edits are shown to keep a card
such (`ScreenTyped`), from the types of the first cards and of what a field may be set to (`SheetCheckAssumption`).

## 5. What is only model-checked, and what is not modelled

Every invariant the passing runs check is a theorem. Model-checked only is liveness: `EveryTicketPaid`, `Converges`,
`ReachesTarget`, which rest on fairness and so on what is `ENABLED`; what of the first two is safety is proved (§4, *Play*, *Shelf and
Publisher*). Sums are folds over sets, about which the provers have no induction to instantiate; the lemmas of
`TotalsProofs` are proved by a least counterexample over the sizes of the sets summed, which needs none.

Not modelled, and why:

- The engine's byte layout reader and wasm buffer, and the generator: pinned by vectors in the tests.
- Dispatch and account checks: an instruction given the wrong accounts fails, which is an abort.
- Treasury, delegation, and opening, closing and permissions of ledgers: one call each into casino-core,
  whose code is not in the repository. `ReadJackpot` returns a balance and writes nothing.
- Devnet's `top-up`, which mints what it moves; `--check`, `balances`, `status` and the dry run of
  `close-stray-cards`, which print.
- `prices` and `probe`: reads of web services written to files.
- The sheet tool's curves and searches (`solveBend`, `solveShelf`, `solveTargets`): floating point over market
  prices. Its views, export and draft storage keep nothing the program reads.

A comment that is out of date: `cli/src/play.rs:71-72` says the collect's callback closes the card; it marks it
collected, and the line below that waits for either. The model follows the code.

## 6. Plan

1. **Done** - the card lifecycle with ledgers, receipts, oracle and analytics (`ScratchCards`), what
   it promises a player (`Ticket`), and their proofs, those of the counters included; the sheet's
   validation and the deal (`CardSheet`, `Engine`).
2. **Done** - the shelf and its publisher, with their proofs.
3. **Done** - the client loop, its refinement and its liveness.
4. **Done** - the float and the stray cards, with their proofs.
5. **Done** - the sheet tool's weights and checks, with their proofs.
6. **Done** - the deal of every card: its invariant over placed cells, the values, the float's closed form; that
   nothing retired sells; that no wallet is overdrawn; that a run meets its card.
7. **Done** - the money of all players together; the tickets of players whose cards nobody closes; why a run is refused;
   what of `EveryTicketPaid` and `Converges` is safety.
8. **Left** - the analytics under saturation; `WordMax` driven into by a run; the bound on a card's generation; the same
   half of `ReachesTarget`.
