------------------------------- MODULE MCPlay -------------------------------
(***************************************************************************)
(* Small instances of Play for TLC.                                        *)
(***************************************************************************)
EXTENDS Play, TLC

CONSTANTS u1, k1, sol

OneUser == {u1}
OneKey == {k1}
ItsOwn == k1 :> u1
OneMint == {sol}

Price(n, label) == [price |-> n, label |-> label]
Cheap == Price(10, "cheap")
OneTerms == {Cheap}
Unprinted == Price(0, "none")
WinOrJackpot == {"win", "jackpot"}

Deal == [t \in Terms |-> [s \in Seeds |->
           [dealt |-> TRUE,
            amounts |-> [m \in Mints |-> IF s = "win" THEN t.price ELSE 0],
            jackpot |-> s = "jackpot"]]]

Sheet == [i \in CardIds |-> Cheap]
Funds == [u \in Users |-> [m \in Mints |-> 30]]
Float == [m \in Mints |-> 40]
OldCard(layout, status) == [layout |-> layout, status |-> status,
                            card_id |-> 0, seed |-> "win", terms |-> Cheap]
OldCards == {OldCard("short", "Bought"), OldCard("short", "Requested"),
             OldCard("terms", "Revealed"), OldCard("terms", "Collected")}
Empty == {}
NoneOnceOrTwice == {0, 1, 2}

ASSUME InstanceIsAmple == Ample(10, 10)
=============================================================================
