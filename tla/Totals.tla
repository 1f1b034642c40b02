-------------------------------- MODULE Totals --------------------------------
(***************************************************************************)
(* Sums over the tables of a sheet: weights, cells of blocks, multiples.   *)
(* A table is a function, and what is summed a finite part of its domain.  *)
(***************************************************************************)
EXTENDS Naturals, FiniteSets, FiniteSetsExt

SumOver(table, S) == MapThenSumSet(LAMBDA i : table[i], S)

Sum(table) == SumOver(table, DOMAIN table)
=============================================================================
