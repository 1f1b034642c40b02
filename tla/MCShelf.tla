------------------------------- MODULE MCShelf -------------------------------
(***************************************************************************)
(* Small instances of Shelf for TLC.                                       *)
(***************************************************************************)
EXTENDS Shelf

CONSTANTS a, b, bad

TwoCards == {a, b}
OneBad == {bad}
Bytes == 0 .. 5
NoneOrShort == {1, 2}
SetupDeclares == {0}
AnyDeclared == {0, 1, 3}
=============================================================================
