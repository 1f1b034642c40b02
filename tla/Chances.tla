------------------------------- MODULE Chances --------------------------------
(***************************************************************************)
(* What the weights of a card are chances out of.                          *)
(***************************************************************************)
EXTENDS Totals

CONSTANT TOTAL  \* what every weight table is drawn out of (2^32)
=============================================================================
