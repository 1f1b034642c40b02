------------------------------- MODULE MCStrays ------------------------------
(***************************************************************************)
(* Small instances of Strays for TLC.                                      *)
(***************************************************************************)
EXTENDS Strays

CONSTANTS p, q, r, s

TwoPlayers == {p, q}
TwoRelics == {r, s}
\* q's card is private.
AllButOne == {p, r, s}
=============================================================================
