------------------------------ MODULE CardList ------------------------------
(***************************************************************************)
(* What the shelf promises whoever buys from it: a list of cards, numbered *)
(* from 0 without a gap, that never loses one.  The operator overwrites a  *)
(* card of the list or appends the next; nothing else ever happens to it.  *)
(***************************************************************************)
EXTENDS Naturals

CONSTANT Cards
VARIABLES size, list

Init == /\ size \in Nat
        /\ list \in [0 .. size - 1 -> Cards]

Overwrite(i, c) == /\ list' = [list EXCEPT ![i] = c]
                   /\ size' = size

Append(c) == /\ list' = [j \in 0 .. size |-> IF j = size THEN c ELSE list[j]]
             /\ size' = size + 1

Next == \E c \in Cards : \/ \E i \in 0 .. size - 1 : Overwrite(i, c)
                         \/ Append(c)

Spec == Init /\ [][Next]_<<size, list>>
=============================================================================
