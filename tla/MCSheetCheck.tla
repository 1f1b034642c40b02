---------------------------- MODULE MCSheetCheck -----------------------------
(***************************************************************************)
(* Two small cards, edited.                                                *)
(***************************************************************************)
EXTENDS SheetCheck

Block(role, count, a, b) == [role |-> role, count |-> count, distinct |-> FALSE, a |-> a, b |-> b]
Pay(scope, min) == [scope |-> scope, weight |-> 2, min |-> min,
                    marked |-> FALSE, linear |-> FALSE, mult |-> 1]
Token(mint, weight) == [mint |-> mint, amount |-> 3, weight |-> weight]

Count == [mode |-> "count", roll |-> "exclusive",
          duel |-> [house |-> 0, mine |-> 0, prize |-> 0, strict |-> TRUE],
          blocks |-> <<Block("mark", 1, 0, 0), Block("plate", 3, 0, 0), Block("jackpot", 1, 1, 1)>>,
          pays |-> <<Pay(2 .. 4, 2), Pay(2 .. 4, 3)>>, tiers |-> <<>>,
          pool |-> <<Token(SOL, 4), Token("wif", 2), Token("skr", 1), Token("ray", 1)>>, hit |-> 1, near |-> 1]

Compare == [Count EXCEPT !.mode = "compare", !.roll = "independent",
              !.duel = [house |-> 1, mine |-> 2, prize |-> 3, strict |-> TRUE],
              !.blocks = <<Block("number", 1, 2, 3), Block("number", 1, 1, 4),
                           Block("plate", 1, 0, 0), Block("jackpot", 1, 1, 1)>>,
              !.pays = <<Pay(1 .. 3, 1)>>]

Both == {Count, Compare}
FewScopes == {{}, {2, 3}, 1 .. 3, 2 .. 5}
Few == {0, 1, 2, 4, 7, 8}

ASSUME BothArePublished == \A c \in Both : Valid(c)
=============================================================================
