------------------------------- MODULE MCFloat -------------------------------
(***************************************************************************)
(* Small instances of Float for TLC.  A worst collect of 70 at a factor of *)
(* 1.5 is a target of 105, past the hundred where rounding begins.         *)
(***************************************************************************)
EXTENDS Float

CONSTANTS sol, tok, thin

Two == {sol, tok}
Three == {sol, tok, thin}
NoneThin == {}
OnlyThin == {thin}

Worst(s, n, m) == [t \in Tokens |-> CASE t = sol -> s [] t = tok -> n [] OTHER -> m]
Sheets == {Worst(4, 70, 0), Worst(4, 4, 0)}
WithThin == {Worst(4, 70, 9)}
ThinSheets == {Worst(4, 69, 9), Worst(4, 4, 9)}

Policy == {150}
Twice == {200}
Either == {TRUE, FALSE}
Filling == {TRUE}
Plain == {FALSE}
Sizes == {0, 3, 60}
Wallets == {0, 300}
Dry == {0}
JustSmall == {2}
SmallAndWorst == {2, 60}
=============================================================================
