----------------------------- MODULE MCPublisher -----------------------------
(***************************************************************************)
(* Small instances of Publisher for TLC.                                   *)
(***************************************************************************)
EXTENDS Publisher

CONSTANTS a, b, bad

TwoCards == {a, b}
OneBad == {bad}
Bytes == 0 .. 3
UpToThree == {1, 3}
SetupDeclares == {0}

\* A sheet that grows, one that retires a slot, one the program refuses.
TheSheets == {<<a, b>>, <<b, a, b>>, <<b>>, <<a, bad>>}
Always == {FALSE, TRUE}
=============================================================================
