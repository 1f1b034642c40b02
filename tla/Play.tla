-------------------------------- MODULE Play --------------------------------
(***************************************************************************)
(* The client's loop over the program: `play` buys a card, asks for its    *)
(* seed, waits for the oracle and collects, each in a transaction of its   *)
(* own, after it has finished whatever card an earlier run left behind.    *)
(*                                                                         *)
(* A transaction that is sent may run, be dropped, or run after the client *)
(* that sent it has died; a run that meets any error ends there, and the   *)
(* player starts another.  The program's own steps are ScratchCards'.      *)
(***************************************************************************)
EXTENDS ScratchCards

CONSTANTS
    RunCards,   \* how many cards a run may be asked to play
    MaxDeaths   \* bound: runs killed with a transaction on its way

ASSUME PlayAssumption == RunCards \subseteq Nat /\ MaxDeaths \in Nat

Kinds == {"buy", "reveal", "collect"}

\* A transaction: whose, what it does, and which killed run it is left from,
\* 0 for none.
Transactions == [user : Users, kind : Kinds, run : 0 .. MaxDeaths]
None == [user |-> CHOOSE u \in Users : TRUE, kind |-> "none", run |-> 0]

VARIABLES
    pc,         \* what each player's run does next: off, finish, one of Kinds,
                \* seed, or sent while its transaction is on its way
    left,       \* cards the run has still to buy
    flight,     \* transactions sent and not yet run
    running,    \* the transaction the rollup runs, or None
    deaths,     \* runs killed so far
    spoiled     \* history: a killed run's transaction landed during this run

clientVars == <<pc, left, flight, running, deaths, spoiled>>
playVars == <<vars, clientVars>>

PlayInit ==
    /\ Init
    /\ pc = [u \in Users |-> "off"]
    /\ left = [u \in Users |-> 0]
    /\ flight = {}
    /\ running = None
    /\ deaths = 0
    /\ spoiled = [u \in Users |-> FALSE]

-----------------------------------------------------------------------------
(* The client *)

\* The card account as a reader of the rollup sees it.
SeenCard(u) == committed.cards[u]

\* `play`, asked for n cards.
StartRun(u, n) ==
    /\ pc[u] = "off"
    /\ pc' = [pc EXCEPT ![u] = "finish"]
    /\ left' = [left EXCEPT ![u] = n]
    /\ spoiled' = [spoiled EXCEPT ![u] = FALSE]
    /\ UNCHANGED <<vars, flight, running, deaths>>

\* mutant: a card whose seed was asked for is taken to have it
AfterIfAsked(c) ==
    CASE ~Exists(c) \/ c.status = "Collected" -> "buy"
      [] c.status = "Bought" -> "reveal"
      [] OTHER -> "collect"

\* mutant: only a card with its seed is finished
AfterIfRevealed(c) ==
    IF Exists(c) /\ c.status = "Revealed" THEN "collect" ELSE "buy"

\* Table::finish: where a card from an earlier run is taken up.
After(c) ==
    CASE ~Exists(c) \/ c.status = "Collected" -> "buy"
      [] Exists(c) /\ c.status \in {"Bought", "Requested"} -> "reveal"
      [] Exists(c) /\ c.status = "Revealed" -> "collect"

Finish(u) ==
    /\ pc[u] = "finish"
    /\ pc' = [pc EXCEPT ![u] = After(SeenCard(u))]
    /\ UNCHANGED <<vars, left, flight, running, deaths, spoiled>>

\* The transaction goes out and the run waits for it.
Send(u, kind) ==
    /\ pc[u] = kind
    /\ kind = "buy" => left[u] > 0 /\ committed.hist.bought[u] < MaxBuys
    /\ left' = IF kind = "buy" THEN [left EXCEPT ![u] = @ - 1] ELSE left
    /\ pc' = [pc EXCEPT ![u] = "sent"]
    /\ flight' = flight \cup {[user |-> u, kind |-> kind, run |-> 0]}
    /\ UNCHANGED <<vars, running, deaths, spoiled>>

\* Every card played: the run is over.
EndRun(u) ==
    /\ pc[u] = "buy"
    /\ left[u] = 0 \/ committed.hist.bought[u] = MaxBuys
    /\ pc' = [pc EXCEPT ![u] = "off"]
    /\ UNCHANGED <<vars, left, flight, running, deaths, spoiled>>

\* Player::until, of the seed: it is there, or the wait is given up.
SeeSeed(u) ==
    /\ pc[u] = "seed"
    /\ SeenCard(u).status = "Revealed"
    /\ pc' = [pc EXCEPT ![u] = "collect"]
    /\ UNCHANGED <<vars, left, flight, running, deaths, spoiled>>

GiveUp(u) ==
    /\ pc[u] = "seed"
    /\ pc' = [pc EXCEPT ![u] = "off"]
    /\ UNCHANGED <<vars, left, flight, running, deaths, spoiled>>

\* The client is killed; what it sent may still land.
Orphan(t, u) == IF t.user = u /\ t.run = 0 /\ t.kind \in Kinds
                THEN [t EXCEPT !.run = deaths + 1] ELSE t

Die(u) ==
    /\ pc[u] # "off" /\ deaths < MaxDeaths
    /\ pc' = [pc EXCEPT ![u] = "off"]
    /\ flight' = {Orphan(t, u) : t \in flight}
    /\ running' = Orphan(running, u)
    /\ deaths' = deaths + 1
    /\ UNCHANGED <<vars, left, spoiled>>

-----------------------------------------------------------------------------
(* The rollup *)

\* A transaction that is never run is an error to whoever waits for it.
DropTx(t) ==
    /\ t \in flight
    /\ flight' = flight \ {t}
    /\ pc' = IF t.run = 0 THEN [pc EXCEPT ![t.user] = "off"] ELSE pc
    /\ UNCHANGED <<vars, left, running, deaths, spoiled>>

Begin(t) ==
    /\ t \in flight
    /\ BeginTx
    /\ flight' = flight \ {t}
    /\ running' = t
    /\ UNCHANGED <<pc, left, deaths, spoiled>>

\* The instructions each transaction is made of, in their order.
FirstOf(t) ==
    /\ room = MaxInstructions
    /\ \/ /\ t.kind = "reveal"
          /\ \E u \in Users : u = t.user /\ RequestReveal(u)
       \/ \E k \in Keys, u \in Users :
            /\ u = t.user /\ Wallet[k] = u
            /\ \/ t.kind = "buy" /\ \E i \in CardIds : RequestPurchase(k, u, i)
               \/ t.kind = "collect" /\ RequestCollect(k, u)

SettleOf(t) == \E r \in receipts : SettlePurchase(r) \/ SettleCollect(r)

Instructions == FirstOf(running) \/ SettleOf(running)

Execute ==
    /\ running # None
    /\ Instructions
    /\ UNCHANGED clientVars

\* What the run that sent it does next.
Then(kind) == CASE kind = "buy" -> "reveal"
                [] kind = "reveal" -> "seed"
                [] kind = "collect" -> "buy"

Land ==
    /\ running # None
    /\ room < MaxInstructions
    /\ CommitTx
    /\ running' = None
    /\ pc' = IF running.run = 0
             THEN [pc EXCEPT ![running.user] = Then(running.kind)] ELSE pc
    /\ spoiled' = IF running.run = 0 THEN spoiled
                  ELSE [spoiled EXCEPT ![running.user] = TRUE]
    /\ UNCHANGED <<left, flight, deaths>>

\* The instruction the transaction has come to is one the program takes.
TakesFirst(t) ==
    /\ room = MaxInstructions
    /\ \/ t.kind = "reveal" /\ Waiting(cards[t.user])
       \/ /\ \E k \in Keys : Wallet[k] = t.user /\ MayConsent(k)
          /\ \/ t.kind = "buy" /\ count > 0
             \/ t.kind = "collect" /\ Collectable(cards[t.user])

TakesSettle == \E r \in receipts : PurchaseClears(r) \/ CollectClears(r)

\* The program refuses it.
Refused == /\ running # None /\ open
           /\ ~(room > 0 /\ (TakesFirst(running) \/ TakesSettle))
           /\ room = MaxInstructions \/ receipts # {}

Fail ==
    /\ Refused
    /\ AbortTx
    /\ running' = None
    /\ pc' = IF running.run = 0 THEN [pc EXCEPT ![running.user] = "off"] ELSE pc
    /\ UNCHANGED <<left, flight, deaths, spoiled>>

\* The oracle answers or loses a request; neither is the client's doing.
Answer(u) ==
    /\ \E q \in vrf, s \in Seeds : q.user = u /\ CallbackReveal(q, s)
    /\ UNCHANGED clientVars

Lose ==
    /\ \E q \in vrf : LoseRequest(q)
    /\ UNCHANGED clientVars

-----------------------------------------------------------------------------

Client(u) ==
    \/ \E n \in RunCards : StartRun(u, n)
    \/ Finish(u) \/ EndRun(u) \/ SeeSeed(u) \/ GiveUp(u)
    \/ \E kind \in Kinds : Send(u, kind)

Rollup == Execute \/ Land \/ Fail

PlayNext ==
    \/ \E u \in Users : Client(u) \/ Die(u) \/ Answer(u)
    \/ \E t \in flight : DropTx(t) \/ Begin(t)
    \/ Rollup
    \/ Lose

PlaySpec == PlayInit /\ [][PlayNext]_playVars

\* The player comes back after every run and the client's waits end; the
\* rollup finishes what it begins; neither a transaction sent again and again
\* nor a request made again and again is lost every time.
PlayFairness ==
    /\ \A u \in Users :
         /\ WF_playVars(Client(u))
         /\ SF_playVars(Answer(u))
         /\ \A kind \in Kinds :
              SF_playVars(\E t \in flight : t.user = u /\ t.kind = kind
                                            /\ t.run = 0 /\ Begin(t))
    /\ WF_playVars(Rollup)

FairPlaySpec == PlaySpec /\ PlayFairness

-----------------------------------------------------------------------------
(* What must hold *)

\* Every ticket a player bought, or held from an earlier build, is paid in the
\* end, whatever status a run left it in when it died, timed out or failed,
\* and however many answers and transactions were lost (play.rs 94).
EveryTicketPaid ==
    \A u \in Users, n \in Tickets :
        hist.bought[u] >= n ~> committed.hist.paid[u][n] = 1

\* Enough of everything: each player has a key, something is on sale, and at
\* prices up to P and deals up to W the purses and the house last for every
\* ticket anybody may buy.
Ample(P, W) ==
    /\ Count0 > 0 /\ MaxInstructions >= 2 /\ MaxBuys <= WordMax
    /\ \A u \in Users : \E k \in Keys : Wallet[k] = u
    /\ \A i \in CardIds : Shelf0[i].price <= P
    /\ \A u \in Users : Purse0[u][SOL] >= P * MaxBuys
    /\ \A t \in Terms, s \in Seeds :
         Winnings[t][s].dealt /\ \A m \in Mints : Winnings[t][s].amounts[m] <= W
    /\ \A m \in Mints : House0[m] >= W * (Cardinality(Users) * MaxBuys)

\* A run is refused nothing it sends, except where it was overtaken: a
\* transaction of a killed run landed during it, or the oracle answered
\* between its look at a waiting card and its second request for the seed.
RefusedOnlyWhenOvertaken ==
    Refused /\ running.run = 0 =>
        \/ spoiled[running.user]
        \/ running.kind = "reveal" /\ cards[running.user].status = "Revealed"
=============================================================================
