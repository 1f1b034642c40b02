------------------------------ MODULE SheetTool ------------------------------
(***************************************************************************)
(* How rebalance.ts sets the weights of one card of the sheet: the pool    *)
(* from the bend curve or, on a card whose pays share one multiple, with   *)
(* the dearest token pinned; the pays scaled to land the return; then the  *)
(* checks, and the file.                                                   *)
(*                                                                         *)
(* A curve lists the relative weights of the pool's tokens, the cheapest   *)
(* first.  Shares are weights out of TOTAL and the solver's real numbers   *)
(* are exact fractions here.                                               *)
(***************************************************************************)
EXTENDS Sequences, Chances

CONSTANTS
    Curves,     \* relative weights the bend may give a pool
    Shapes,     \* relative weights of a pay table
    Pins,       \* weights the top prize may be pinned at
    Gains,      \* target over current return, as fractions <<n, d>>
    Tables,     \* bound: pay and pool tables someone may write into the file,
                \* to which everything is done once
    Roll        \* how the card rolls: exclusive or independent

ASSUME SheetToolAssumption ==
    /\ TOTAL \in Nat \ {0} /\ Pins \subseteq Nat
    /\ \A c \in Curves : c \in Seq(Nat \ {0}) /\ Len(c) \in 1 .. TOTAL
    /\ \A s \in Shapes : s \in Seq(Nat) /\ Len(s) > 0
    /\ \A g \in Gains : g[1] \in Nat /\ g[2] \in Nat \ {0}
    /\ \A t \in Tables : t \in Seq(Nat) /\ Len(t) > 0

VARIABLES
    file,       \* the card's weights in cards.json: [pool, pays]
    stage,      \* idle, fill, odds or check
    curve,      \* the pool's relative weights in this run
    pinned,     \* what the dearest token is held at, 0 on the curve
    rest,       \* the pool's weights, without the pinned token
    pass,       \* passes of the waterfill
    pays,       \* the pay weights solved
    wrote       \* the run that just ended wrote the file

vars == <<file, stage, curve, pinned, rest, pass, pays, wrote>>

Exclusive == "exclusive"

Written == [pool : Tables, pays : Tables]

-----------------------------------------------------------------------------
(* types.ts *)

\* normalize: relative weights to whole ones out of `total`, the largest
\* remainders rounded up, ties to the earlier.
Normalize(rel, total) ==
    LET sum == Sum(rel)
        Cut(i) == (rel[i] * total) \div sum
        Left(i) == (rel[i] * total) % sum
        Before(i) == {j \in DOMAIN rel : Left(j) > Left(i) \/ (Left(j) = Left(i) /\ j < i)}
        short == total - Sum([i \in DOMAIN rel |-> Cut(i)])
    IN  IF sum = 0 THEN rel
        ELSE [i \in DOMAIN rel |-> Cut(i) + IF Cardinality(Before(i)) < short THEN 1 ELSE 0]

-----------------------------------------------------------------------------
(* solve.ts *)

\* Math.round of w * n / d.
Scaled(w, n, d) == (2 * w * n + d) \div (2 * d)

\* mutant: the ceiling of a card that rolls its pays one by one, for every card
CeilingByLargest(table, roll, gain) ==
    LET most == Max({table[i] : i \in DOMAIN table})
        k == IF most * gain[1] > TOTAL * gain[2] THEN <<TOTAL, most>> ELSE gain
    IN  [i \in DOMAIN table |-> Scaled(table[i], k[1], k[2])]

\* solveOdds: every pay weight by one factor, which stops at the ceiling of the
\* card's roll.
SolveOdds(table, roll, gain) ==
    LET most == IF roll = Exclusive THEN Sum(table) ELSE Max({table[i] : i \in DOMAIN table})
        k == IF most * gain[1] > TOTAL * gain[2] THEN <<TOTAL, most>> ELSE gain
    IN  [i \in DOMAIN table |-> Scaled(table[i], k[1], k[2])]

Init ==
    /\ file \in Written
    /\ stage = "idle"
    /\ curve = <<>> /\ pinned = 0 /\ rest = <<>> /\ pass = 0 /\ pays = <<>>
    /\ wrote = FALSE

Start == stage = "idle" /\ ~wrote /\ UNCHANGED <<file, pass, pays, wrote>>

\* A pool that stays on its curve.
OnTheCurve(c) ==
    /\ Start
    /\ curve' = c /\ pinned' = 0 /\ rest' = Normalize(c, TOTAL)
    /\ stage' = "odds"

\* The dearest token is held at a share of its own, at most one part in n, and
\* the others share what is left along the curve.
Pin(c, share) ==
    /\ Start
    /\ Len(c) > 1
    /\ curve' = c
    /\ pinned' = Max({1, Min({TOTAL \div Len(c), share})})
    /\ rest' = Normalize(SubSeq(c, 1, Len(c) - 1), TOTAL - pinned')
    /\ stage' = "fill"

\* With no price for SOL the solver returns the card's own weights.
Unpriced ==
    /\ Start
    /\ pinned' = 0 /\ rest' = file.pool
    /\ curve' = <<>>
    /\ stage' = "check"

\* mutant: the pinned token's own share is dealt out once more
FloodTwice(low) == TOTAL - Cardinality(low) * pinned

\* What those above the pin share once those below are raised to it.
Flood(low) == TOTAL - pinned - Cardinality(low) * pinned

\* mutant: only the end of the curve is looked at
LowLast == {i \in DOMAIN rest : i = Len(rest) /\ rest[i] < pinned}

Low == {i \in DOMAIN rest : rest[i] < pinned}

OnePassMore == pass <= Len(curve) /\ Low # {}    \* mutant
MorePasses == pass < Len(curve) /\ Low # {}

\* One pass of the waterfill: what is under the pin is raised to it, and the
\* others, those raised before among them, shrink to make room.
Fill ==
    /\ stage = "fill" /\ MorePasses
    /\ IF Low = DOMAIN rest
       THEN rest' = [i \in DOMAIN rest |-> pinned] /\ stage' = "odds"
       ELSE LET free == [i \in DOMAIN rest |-> IF i \in Low THEN 0 ELSE rest[i]]
                room == Max({Cardinality(DOMAIN rest \ Low), Flood(Low)})
                redone == Normalize(free, room)
            IN  /\ rest' = [i \in DOMAIN rest |-> IF i \in Low THEN pinned ELSE redone[i]]
                /\ stage' = stage
    /\ pass' = pass + 1
    /\ UNCHANGED <<file, curve, pinned, pays, wrote>>

FillEnds ==
    /\ stage = "fill" /\ ~MorePasses
    /\ stage' = "odds"
    /\ UNCHANGED <<file, curve, pinned, rest, pass, pays, wrote>>

\* The pays, from their own curve.
Odds(shape, roll, gain) ==
    /\ stage = "odds"
    /\ pays' = SolveOdds(Normalize(shape, TOTAL), roll, gain)
    /\ stage' = "check"
    /\ UNCHANGED <<file, curve, pinned, rest, pass, wrote>>

Pool == IF pinned > 0 THEN Append(rest, pinned) ELSE rest

-----------------------------------------------------------------------------
(* rebalance.ts *)

\* What validate.ts asks of the two tables.
Checks(pool, table, roll) ==
    /\ Sum(pool) = TOTAL
    /\ IF roll = Exclusive THEN Sum(table) <= TOTAL
       ELSE \A i \in DOMAIN table : table[i] <= TOTAL

\* The pays solved, or the file's own where the solver had no price.
Solved == IF pays = <<>> THEN file.pays ELSE pays

\* --apply: written if every check passes, else the run exits.
Apply(roll) ==
    /\ stage = "check"
    /\ stage' = "idle"
    /\ wrote' = Checks(Pool, Solved, roll)
    /\ file' = IF wrote' THEN [pool |-> Pool, pays |-> Solved] ELSE file
    /\ curve' = <<>> /\ pinned' = 0 /\ rest' = <<>> /\ pass' = 0 /\ pays' = <<>>

\* Someone edits the file.
Edit(pool, table) ==
    /\ stage = "idle"
    /\ file' = [pool |-> pool, pays |-> table]
    /\ wrote' = FALSE
    /\ UNCHANGED <<stage, curve, pinned, rest, pass, pays>>

\* The tool's own button: the file's pays scaled as they stand, and saved.
Balance(gain) ==
    /\ stage = "idle" /\ file \in Written
    /\ file' = [file EXCEPT !.pays = SolveOdds(@, Roll, gain)]
    /\ wrote' = FALSE
    /\ UNCHANGED <<stage, curve, pinned, rest, pass, pays>>

Next ==
    \/ \E gain \in Gains : Balance(gain)
    \/ \E c \in Curves : OnTheCurve(c)
    \/ \E c \in Curves, share \in Pins : Pin(c, share)
    \/ Unpriced
    \/ Fill \/ FillEnds
    \/ \E shape \in Shapes, gain \in Gains : Odds(shape, Roll, gain)
    \/ Apply(Roll)
    \/ \E pool, table \in Tables : Edit(pool, table)

Spec == Init /\ [][Next]_vars

-----------------------------------------------------------------------------
(* What must hold *)

TypeOK ==
    /\ file \in [pool : Seq(Nat), pays : Seq(Nat)]
    /\ stage \in {"idle", "fill", "odds", "check"}
    /\ curve \in Seq(Nat) /\ rest \in Seq(Nat) /\ pays \in Seq(Nat)
    /\ pinned \in 0 .. TOTAL /\ pass \in 0 .. Len(curve) /\ wrote \in BOOLEAN

\* Through every pass of the waterfill and however the parts round, the pool
\* is the whole of TOTAL: not a unit is lost or dealt twice.
PoolExact == stage \in {"fill", "odds"} => Sum(Pool) = TOTAL

\* A dearer token is never likelier than a cheaper one: on the curve rounding to
\* whole weights keeps the order, and in a pool of up to three no cheaper prize
\* ends up rarer than the pinned top, in whatever order prices left the curve.
CurveKept ==
    /\ stage = "odds" /\ pinned = 0 =>
         \A i, j \in DOMAIN rest : i < j /\ curve[i] >= curve[j] => rest[i] >= rest[j]
    /\ stage = "odds" /\ pinned > 0 /\ Len(curve) <= 3 =>
         \A i \in DOMAIN rest : rest[i] >= pinned

\* One card that fails a check stops the run for every card (rebalance.ts:100).
\* What the solver makes of prices never does: the pool is still whole after the
\* waterfill, and the pays of a curve stay within their ceiling however each of
\* them rounds, though those of a file that the button scales need not
\* (UnderTheCeiling).  Only weights carried over from the file, where there was
\* no price, can be refused.
SolvedPasses == stage = "check" /\ pays # <<>> => Checks(Pool, pays, Roll)

\* Of a pool of any size, as solve.ts:279 has it: "No cheaper prize may be rarer
\* than the pinned top".  Of four tokens two take turns below the pin until the
\* passes run out (pinned).
AlwaysRarest ==
    stage = "odds" /\ pinned > 0 => \A i \in DOMAIN rest : rest[i] >= pinned

\* solve.ts of the factor's ceiling: "exclusive weights cannot exceed 2^32
\* together", whatever table the tool's button is pressed on.
UnderTheCeiling ==
    [][(\E gain \in Gains : Balance(gain)) /\ Roll = Exclusive /\ Sum(file.pays) <= TOTAL
         => Sum(file'.pays) <= TOTAL]_vars
=============================================================================
