------------------------------- MODULE Strays --------------------------------
(***************************************************************************)
(* Clearing the rollup of cards of older layouts: scratch-ops              *)
(* close-stray-cards --go lists the card accounts the admin may read and   *)
(* sends CloseStrayCard for those it takes for strays, one transaction     *)
(* each, while players go on collecting their cards and buying new ones in *)
(* their place.                                                            *)
(***************************************************************************)
EXTENDS Naturals, FiniteSets

CONSTANTS
    Players,    \* a player's card is at an address the program derives
    Relics,     \* addresses of earlier seeds, which it does not
    Readable,   \* the accounts the admin may read: its own card, public ones
    MaxBuys     \* bound: cards bought in all

ASSUME StraysAssumption ==
    /\ IsFiniteSet(Players) /\ IsFiniteSet(Relics) /\ Players \cap Relics = {}
    /\ Readable \subseteq Players \cup Relics
    /\ MaxBuys \in Nat

Addresses == Players \cup Relics

\* By length: nothing; less than Card::SIZE; Card::SIZE; Card::WITH_TERMS;
\* Card::PERSISTENT_SIZE.
Layouts == {"none", "stub", "short", "terms", "full"}
Current == {"terms", "full"}
\* Card::load refuses only what is shorter than a card.
Loads(c) == c.layout \in {"short", "terms", "full"}

VARIABLES
    cards,      \* the card at each address
    buys,       \* how many were bought
    running,    \* close-stray-cards --go is running
    listed,     \* what its one listing took for strays, less what was sent
    \* history: what the program closed here; of the last run, whether a send
    \* of it failed without the program's refusal, whether a card it was sent
    \* for was refused, and the old cards it could read when it listed
    closed, lost, refused, found

vars == <<cards, buys, running, listed, closed, lost, refused, found>>

Card == [layout : Layouts, paid : BOOLEAN]
NoCard == [layout |-> "none", paid |-> TRUE]

TypeOK ==
    /\ cards \in [Addresses -> Card] /\ buys \in 0 .. MaxBuys
    /\ running \in BOOLEAN /\ listed \subseteq Readable
    /\ closed \subseteq [reached : BOOLEAN, card : Card] /\ lost \in BOOLEAN /\ refused \in BOOLEAN
    /\ found \subseteq Readable

Init ==
    /\ cards \in [Addresses -> Card]
    /\ \A a \in Addresses :
          /\ cards[a].layout = "none" => cards[a] = NoCard
          /\ a \in Players => cards[a].layout # "stub"
          /\ a \in Relics => cards[a].layout \in {"stub", "short"}
    /\ buys = 0
    /\ running = FALSE /\ listed = {}
    /\ closed = {} /\ lost = FALSE /\ refused = FALSE /\ found = {}

-----------------------------------------------------------------------------
(* Players *)

\* A card the program can reach and load is collected, whatever its layout.
Collect(p) ==
    /\ Loads(cards[p]) /\ ~cards[p].paid
    /\ cards' = [cards EXCEPT ![p].paid = TRUE]
    /\ UNCHANGED <<buys, running, listed, closed, lost, refused, found>>

\* resolve_purchase: no card, or a collected one, becomes a card of today.
Buy(p) ==
    /\ buys < MaxBuys
    /\ cards[p].paid
    /\ cards' = [cards EXCEPT ![p] = [layout |-> "full", paid |-> FALSE]]
    /\ buys' = buys + 1
    /\ UNCHANGED <<running, listed, closed, lost, refused, found>>

-----------------------------------------------------------------------------
(* close-stray-cards --go *)

StubsAlone == {a \in Readable : cards[a].layout = "stub"}    \* mutant

\* What the tool takes for a stray: any length but that of a card with terms.
Strays == {a \in Readable : cards[a].layout \notin {"none", "terms"}}

OldCards == {a \in Readable : cards[a].layout \in {"stub", "short"}}

List ==
    /\ ~running
    /\ listed' = Strays
    /\ running' = (listed' # {})
    /\ found' = OldCards
    /\ lost' = FALSE /\ refused' = FALSE
    /\ UNCHANGED <<cards, buys, closed>>

\* What the program says of the account it is given by address.
Refuses(c) == c.layout \notin {"stub", "short"}

Close(a) ==
    /\ closed' = closed \cup {[reached |-> a \in Players, card |-> cards[a]]}
    /\ cards' = [cards EXCEPT ![a] = NoCard]

\* The next card of the listing, whatever order it came in, goes.
Send(a) ==
    /\ running /\ a \in listed
    /\ ~Refuses(cards[a])
    /\ Close(a)
    /\ listed' = listed \ {a}
    /\ running' = (listed' # {})
    /\ UNCHANGED <<buys, lost, refused, found>>

\* A refusal is an error and the first error ends the run, with the rest of
\* the listing left as it was.
Refusal(a) ==
    /\ running /\ a \in listed
    /\ Refuses(cards[a])
    /\ running' = FALSE /\ listed' = {}
    /\ refused' = TRUE
    /\ UNCHANGED <<cards, buys, closed, lost, found>>

\* mutant: a lost send is sent again, and the run goes on
LoseSendAgain(a) ==
    /\ running /\ a \in listed
    /\ \/ ~Refuses(cards[a]) /\ Close(a)
       \/ UNCHANGED <<cards, closed>>
    /\ lost' = TRUE
    /\ UNCHANGED <<buys, running, listed, refused, found>>

\* So does a send that fails on its way, its transaction landed or not.
LoseSend(a) ==
    /\ running /\ a \in listed
    /\ \/ ~Refuses(cards[a]) /\ Close(a)
       \/ UNCHANGED <<cards, closed>>
    /\ running' = FALSE /\ listed' = {}
    /\ lost' = TRUE
    /\ UNCHANGED <<buys, refused, found>>

Next ==
    \/ \E p \in Players : Collect(p)
    \/ \E p \in Players : Buy(p)
    \/ List
    \/ \E a \in Addresses : Send(a)
    \/ \E a \in Addresses : Refusal(a)
    \/ \E a \in Addresses : LoseSend(a)

Spec == Init /\ [][Next]_vars

-----------------------------------------------------------------------------
(* What must hold *)

\* The listing goes stale and is still safe to act on: whatever the players did
\* since it was read and wherever runs were cut, each card left on it is an old
\* one or a player's card of today, never one that this run or another has
\* closed already.  So a refusal, which ends the run, means that a player has a
\* card of today the admin can read, and never that the run ran into itself.
StoppedOnlyByToday ==
    /\ \A x \in listed : \/ cards[x].layout \in {"stub", "short"}
                         \/ x \in Players /\ cards[x].layout = "full"
    /\ refused => \E p \in Players \cap Readable : cards[p].layout = "full"

\* A run that was neither refused nor lost left none of the old cards it
\* could read: each is gone or its player has bought a new card in its place.
ClearsWhatItFound ==
    ~running /\ ~lost /\ ~refused =>
        \A a \in found : cards[a].layout \in {"none", "full"}

\* What the tool's help says without that exception: it closes each card of an
\* older layout and leaves a card of the current one alone, so none of the old
\* cards outlives a run none of whose sends was lost.
ClosesEach ==
    ~running /\ ~lost => \A a \in found : cards[a].layout \in {"none", "full"}

\* What the instruction's comment says it drops: cards of a layout this program
\* no longer reads, so none of those a player could still have collected.
UnreadDropped ==
    \A x \in closed : ~(x.reached /\ Loads(x.card) /\ ~x.card.paid)
=============================================================================
