------------------------------ MODULE MCEngine ------------------------------
(***************************************************************************)
(* Small cards for TLC: the shapes of tools/sheet/cards.json scaled down,  *)
(* a family of pay tables nobody wrote by hand, and cards that set_card    *)
(* accepts although the engine's promises do not hold of them.             *)
(***************************************************************************)
EXTENDS Engine

Block(role, count) == [role |-> role, count |-> count, distinct |-> FALSE, a |-> 0, b |-> 0]
Numbers(count, a, b) == [Block("number", count) EXCEPT !.a = a, !.b = b]
\* The jackpot line's a and b are its share of the pot.
Line(count) == [Block("jackpot", count) EXCEPT !.a = 1, !.b = 1]

Pay(scope, min, mult) == [scope |-> scope, weight |-> 1, min |-> min,
                          marked |-> FALSE, linear |-> FALSE, mult |-> mult]
Marked(pay) == [pay EXCEPT !.marked = TRUE]
Never(pay) == [pay EXCEPT !.weight = 0]
Linear(pay) == [pay EXCEPT !.linear = TRUE]

Token(mint, amount, weight) == [mint |-> mint, amount |-> amount, weight |-> weight]
Two == <<Token(SOL, 3, TOTAL - 1), Token("skr", 5, 1)>>
\* As published on devnet: all but one draw is SOL's, a token that is never drawn.
Three == <<Token("wif", 3, 1), Token(SOL, 5, TOTAL - 1), Token("skr", 7, 0)>>
Four == <<Token("wif", 3, TOTAL - 3), Token(SOL, 5, 1), Token("skr", 7, 1), Token("ray", 9, 1)>>

Card(roll, blocks, pays, pool) ==
    [mode |-> "count", roll |-> roll,
     duel |-> [house |-> 0, mine |-> 0, prize |-> 0, strict |-> TRUE],
     blocks |-> blocks, pays |-> pays, tiers |-> <<>>, pool |-> pool,
     hit |-> 1, near |-> 1]

-----------------------------------------------------------------------------
(* The shelf *)

\* Straight Three: rows that pay on their own; both tokens may win at once.
Straight == Card("independent", <<Block("plate", 3), Block("plate", 3), Line(2)>>,
                 <<Pay(1 .. 3, 3, 1), Pay(4 .. 6, 3, 2)>>, Two)
\* Match Three: rungs over one scope, the highest reached pays.
Triple == Card("exclusive", <<Block("plate", 5), Line(1)>>,
               <<Pay(1 .. 5, 3, 1), Pay(1 .. 5, 4, 2), Pay(1 .. 5, 5, 5)>>, Three)
\* The vault: lines that cross, one of them at a time and one retired.
Vault == Card("exclusive", <<Block("plate", 5), Line(1)>>,
              <<Pay({1, 2, 3}, 3, 1), Pay({3, 4, 5}, 3, 2), Never(Pay({1, 3, 5}, 3, 3))>>,
              Four)
\* The duels: each pays over its own house, mine and prize cell.
Five(strict) ==
    [Card("independent", <<Numbers(2, 2, 3), Numbers(2, 1, 4), Block("plate", 2), Line(1)>>,
          <<Pay({1, 3, 5}, 1, 1), Linear(Pay({2, 4, 6}, 1, 2))>>, Two)
     EXCEPT !.mode = "compare",
            !.duel = [house |-> 1, mine |-> 2, prize |-> 3, strict |-> strict]]
\* A hunt for marked tokens: the marks sit before the cells they mark.
Hunt == Card("exclusive", <<[Block("mark", 2) EXCEPT !.distinct = TRUE], Block("plate", 3), Line(1)>>,
             <<Linear(Marked(Pay(3 .. 5, 1, 1))), Linear(Marked(Pay(3 .. 5, 2, 2)))>>, Three)

\* One row too many for the list of wins: not for sale.
Rows == Card("independent", <<Block("plate", 2 * MAX_PAYS + 2), Line(1)>>,
             [i \in 1 .. MAX_PAYS + 1 |-> Pay({2 * i - 1, 2 * i}, 2, 1)], Three)

Shelf == {Straight, Triple, Vault, Five(TRUE), Hunt}

-----------------------------------------------------------------------------
(* Every pay table of one or two entries over four cells *)

Entries == {Pay(scope, min, mult) : scope \in SUBSET (1 .. 4) \ {{}}, min \in 2 .. 4, mult \in {1}}
Tables == {<<p>> : p \in Entries} \cup {<<p, q>> : p, q \in Entries}
Family == {[Card("exclusive", <<Block("plate", 4), Line(1)>>, pays, pool)
            EXCEPT !.hit = 0, !.near = 0] :
             pays \in Tables, pool \in {Two, Three, Four}}

-----------------------------------------------------------------------------
(* Cards set_card accepts that break a promise *)

\* A slot multiplier.
Slot == [Triple EXCEPT !.tiers = <<[factor |-> 2, weight |-> 1]>>]
\* A duel that a draw wins.
Tied == Five(FALSE)
\* An entry over the prizes of both duels, one over none, and two over one.
Twice == [Five(TRUE) EXCEPT !.pays = <<Pay({1, 3, 5, 6}, 1, 1)>>]
Missed == [Five(TRUE) EXCEPT
             !.blocks = <<Numbers(1, 2, 3), Numbers(1, 1, 4), Block("plate", 1), Block("plate", 1), Line(1)>>,
             !.pays = <<Pay({4}, 1, 1)>>]
Shared == [Five(TRUE) EXCEPT !.roll = "exclusive",
             !.pays = <<Never(Pay({1, 5}, 1, 1)), Pay({3, 5}, 1, 2)>>]
\* A short row inside a long one: planting the long row completes the short.
Nested == Card("exclusive", <<Block("plate", 4), Line(1)>>,
               <<Pay(1 .. 4, 4, 5), Pay(1 .. 2, 2, 1)>>, Four)
\* One rung entered twice.
Twin == Card("exclusive", <<Block("plate", 3), Line(1)>>,
             <<Pay(1 .. 3, 3, 2), Never(Pay(1 .. 3, 3, 5))>>, Three)
\* A row over a block of numbers that are never drawn.
Blank == Card("exclusive", <<Numbers(2, 1, 2), Block("plate", 1), Line(1)>>,
              <<Pay(1 .. 3, 2, 1)>>, Four)
\* Two marked entries that win together, and one mark.
Unseen == Card("independent", <<Block("mark", 1), Block("plate", 4), Line(1)>>,
               <<Marked(Pay(2 .. 3, 1, 1)), Marked(Pay(4 .. 5, 1, 2))>>, Two)
\* A scope that reaches over the marks, which are placed before it is planted,
\* and one over the numbers of a duel.
Reaching == Card("exclusive", <<Block("mark", 1), Block("plate", 2), Line(1)>>,
                 <<Pay(1 .. 3, 3, 1)>>, Three)
Grabbing == [Five(TRUE) EXCEPT !.pays = <<Pay({1, 3, 5}, 2, 1)>>]
\* A marked rung below an unmarked one of the same scope.
Mixed == Card("exclusive", <<[Block("mark", 3) EXCEPT !.distinct = TRUE], Block("plate", 4), Line(1)>>,
              <<Pay(4 .. 7, 3, 2), Marked(Pay(4 .. 7, 1, 1))>>, Three)
\* More marks than the scratch array of the renderer has slots.
Crowded == Card("exclusive", <<Block("mark", MAX_POOL + 1), Block("plate", 3), Line(1)>>,
                <<Pay(MAX_POOL + 2 .. MAX_POOL + 4, 3, 1)>>, Three)

\* What is dealt is not what was rolled; the renderer gets stuck.
Misvalued == {Slot, Tied, Twice, Missed, Shared, Nested, Twin, Blank, Unseen}
Stuck == {Reaching, Grabbing, Mixed, Crowded}
Accepted == Shelf \cup Misvalued \cup Stuck
Deals == Accepted \cup Family \cup {Rows}

\* One card at a time, for misvalued.cfg and stuck.cfg.
SlotOnly == {Slot}
TiedOnly == {Tied}
TwiceOnly == {Twice}
MissedOnly == {Missed}
SharedOnly == {Shared}
NestedOnly == {Nested}
TwinOnly == {Twin}
BlankOnly == {Blank}
UnseenOnly == {Unseen}
ReachingOnly == {Reaching}
GrabbingOnly == {Grabbing}
MixedOnly == {Mixed}
CrowdedOnly == {Crowded}

\* Every card named above is one set_card publishes.
ASSUME NamedCardsAreValid == \A c \in Accepted : Valid(c)
=============================================================================
