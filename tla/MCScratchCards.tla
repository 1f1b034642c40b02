--------------------------- MODULE MCScratchCards ---------------------------
(***************************************************************************)
(* Small instances of ScratchCards for TLC.                                *)
(***************************************************************************)
EXTENDS ScratchCards, TLC

CONSTANTS u1, u2, k1, k2, sol, tok

OneUser == {u1}
OneKey == {k1}
TwoUsers == {u1, u2}
TwoKeys == {k1, k2}
\* A key of each player; two keys of one player.
EachItsOwn == k1 :> u1 @@ k2 :> u2
BothOfOne == k1 :> u1 @@ k2 :> u1
ItsOwn == k1 :> u1

OneMint == {sol}
TwoMints == {sol, tok}

Price(n, label) == [price |-> n, label |-> label]
\* Prices whose tenth is not whole, so that the pot's share rounds.
Cheap == Price(15, "cheap")
Dear == Price(25, "dear")
OneTerms == {Cheap}
TwoTerms == {Cheap, Dear}
Unprinted == Price(0, "none")

\* Seeds named for what they deal: nothing, a win, the jackpot line.
WinOrJackpot == {"win", "jackpot"}

Prize(t) == [m \in Mints |-> IF m = SOL /\ Cardinality(Mints) > 1 THEN t.price \div 2
                             ELSE t.price]
Deal == [t \in Terms |-> [s \in Seeds |->
           [dealt |-> s # "stuck",
            amounts |-> IF s = "win" THEN Prize(t) ELSE Nothing,
            jackpot |-> s = "jackpot"]]]

Sheet == [i \in CardIds |-> Cheap]
Funds == [u \in Users |-> [m \in Mints |-> IF m = SOL THEN 40 ELSE 0]]
Float == [m \in Mints |-> 30]
\* Cards older builds left: pre-terms and terms-only, unrevealed and revealed.
WithStuck == {"win", "stuck"}
OldCard(layout, status) == [layout |-> layout, status |-> status,
                            card_id |-> 0, seed |-> "win", terms |-> Cheap]
OldCards == {OldCard("short", "Bought"), OldCard("short", "Revealed"),
             OldCard("terms", "Requested"), OldCard("terms", "Collected")}
Ten == {10}
NoCarried == {}
Empty == {}

\* Exchanging the players, each with its own key, changes nothing.
Exchange == {u1 :> u2 @@ u2 :> u1 @@ k1 :> k2 @@ k2 :> k1}
=============================================================================
