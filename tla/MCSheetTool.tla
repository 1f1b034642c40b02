----------------------------- MODULE MCSheetTool ----------------------------
(***************************************************************************)
(* Small sheets for TLC.                                                   *)
(***************************************************************************)
EXTENDS SheetTool

CONSTANTS MaxLen, MaxRel

\* A curve falls from the cheapest token to the dearest.
Falling(c) == \A i \in 1 .. Len(c) - 1 : c[i] >= c[i + 1]
FallingCurves ==
    {c \in UNION {[1 .. n -> 1 .. MaxRel] : n \in 1 .. MaxLen} : Falling(c)}
\* A curve of values that prices left out of order too.
AnyCurves == UNION {[1 .. n -> 1 .. MaxRel] : n \in 1 .. MaxLen}

FewShapes == {<<1>>, <<1, 1, 1>>, <<8, 4, 2, 1>>}
AnyPins == {0, TOTAL \div 50, TOTAL \div 10, TOTAL \div 5, TOTAL}
HighPins == {TOTAL \div 10, TOTAL \div 5, TOTAL}
\* The card paid far too little, a little too little, too much, or just right,
\* which is also what one that pays nothing is left at.
SomeGains == {<<1, 1>>, <<5, 1>>, <<6, 5>>, <<2, 3>>}
\* Written by hand: whole, over, and seven equal ones that fall short.
HandTables == {<<TOTAL>>, <<TOTAL, 1>>, [i \in 1 .. 7 |-> TOTAL \div 8]}
=============================================================================
