-------------------------------- MODULE Float --------------------------------
(***************************************************************************)
(* Keeping the house liquid.  For every token on the sheet the house       *)
(* ledger should cover the worst single collect, times a factor.  On       *)
(* mainnet acquire-float buys the tokens that are missing with SOL and     *)
(* top-up moves them, and SOL, from the admin's wallet into the house,     *)
(* while players buy and collect.                                          *)
(*                                                                         *)
(* Amounts are base units; a factor is in hundredths.                      *)
(***************************************************************************)
EXTENDS Naturals, FiniteSets, FiniteSetsExt, Totals

CONSTANTS
    Tokens, SOL,
    NoRoutes,       \* tokens the market quotes by what goes in, not comes out
    Factors,        \* the factors commands are given
    Fills,          \* whether top-up is given --fill
    FEE_RESERVE,    \* kept in the admin's wallet
    Steps,          \* the powers of ten, as many as the amounts need
    Worsts,         \* worst collects a sheet may have, per token
    Prizes,         \* what single collects may pay
    HouseSizes, WalletSizes, Ample,
    MaxPlays, MaxPublishes  \* bounds: collects and sales, sheets published

ASSUME FloatAssumption ==
    /\ IsFiniteSet(Tokens) /\ SOL \in Tokens /\ NoRoutes \subseteq Tokens \ {SOL}
    /\ Factors \subseteq Nat /\ Fills \subseteq BOOLEAN /\ FEE_RESERVE \in Nat
    /\ Worsts \subseteq [Tokens -> Nat] /\ Prizes \subseteq Nat
    /\ HouseSizes \subseteq Nat /\ WalletSizes \subseteq Nat /\ Ample \in Nat
    /\ Steps \subseteq Nat \ {0} /\ MaxPlays \in Nat /\ MaxPublishes \in Nat

VARIABLES
    house,      \* the house's vault ledger
    wallet,     \* the admin's token accounts and SOL
    worst,      \* worst_cases of the cards on chain now
    pc,         \* idle, funding, moving, quoting or buying
    factor, fill, \* what the running command was given
    seen,       \* the worst cases it read
    asked,      \* rows it has still to move or to buy
    verdict,    \* how the last command ended: nothing, done, short or failed
    \* history: paid out and taken in since the command's read; the factor of
    \* an acquire-float everything of which still stands, or 0
    drained, fresh,
    plays, publishes

vars == <<house, wallet, worst, pc, factor, fill, seen, asked, verdict,
          drained, fresh, plays, publishes>>

TypeOK ==
    /\ house \in [Tokens -> Nat] /\ wallet \in [Tokens -> Nat] /\ worst \in Worsts
    /\ pc \in {"idle", "funding", "moving", "quoting", "buying"}
    /\ factor \in Factors \cup {0} /\ fill \in BOOLEAN
    /\ seen \in [Tokens -> Nat] /\ asked \in [Tokens -> Nat]
    /\ verdict \in {"none", "nothing", "done", "short", "failed"}
    /\ drained \in [Tokens -> Nat] /\ fresh \in Factors \cup {0}
    /\ plays \in 0 .. MaxPlays /\ publishes \in 0 .. MaxPublishes

None == [t \in Tokens |-> 0]

\* sheet::round_up: up to two figures and a bit, so that a float is printed
\* and bought as a round number.
RoundUp(n) ==
    LET step == Min({s \in Steps : s * 100 >= n})
    IN  IF n <= 10 THEN n ELSE ((n + step - 1) \div step) * step

Target(w, f) == (w * f) \div 100

ASSUME ReachAssumption ==
    \A w \in Worsts, f \in Factors, t \in Tokens :
        \E s \in Steps : s * 100 >= Target(w[t], f)

Short(have, want) == IF have < want THEN want - have ELSE 0

Init ==
    /\ house \in [Tokens -> HouseSizes]
    /\ wallet \in [Tokens -> WalletSizes]
    /\ worst \in Worsts
    /\ pc = "idle" /\ factor = 0 /\ fill = FALSE
    /\ seen = None /\ asked = None /\ verdict = "none"
    /\ drained = None /\ fresh = 0
    /\ plays = 0 /\ publishes = 0

-----------------------------------------------------------------------------
(* What goes on meanwhile *)

\* A collect pays what its card won, if the house has it.
Collect(t, n) ==
    /\ plays < MaxPlays
    /\ n <= worst[t] /\ n <= house[t]
    /\ house' = [house EXCEPT ![t] = @ - n]
    /\ drained' = [drained EXCEPT ![t] = @ + n]
    /\ fresh' = 0
    /\ plays' = plays + 1
    /\ UNCHANGED <<wallet, worst, pc, factor, fill, seen, asked, verdict, publishes>>

\* The sheet changes and with it the worst cases.
Publish(w) ==
    /\ publishes < MaxPublishes
    /\ worst' = w
    /\ fresh' = 0
    /\ publishes' = publishes + 1
    /\ UNCHANGED <<house, wallet, pc, factor, fill, seen, asked, verdict, drained, plays>>

\* The operator puts SOL in the admin's wallet.
FundAdmin ==
    /\ wallet[SOL] < Ample
    /\ wallet' = [wallet EXCEPT ![SOL] = Ample]
    /\ UNCHANGED <<house, worst, pc, factor, fill, seen, asked, verdict,
                   drained, fresh, plays, publishes>>

-----------------------------------------------------------------------------
(* top-up *)

\* mutant: --fill is forgotten and every run waits for half
TriggerHalf(target, all) == target \div 2

\* Refilled below half the target only, or with --fill below all of it.
Trigger(target, all) == IF all THEN target ELSE target \div 2

\* The worst cases and the house ledger, read once, and what is short.
Ask(t, f, all) ==
    LET target == Target(worst[t], f)
    IN  IF house[t] < Trigger(target, all) THEN RoundUp(target - house[t]) ELSE 0

TopUp(f, all) ==
    /\ pc = "idle"
    /\ factor' = f /\ fill' = all
    /\ seen' = worst /\ drained' = None
    /\ asked' = [t \in Tokens |-> Ask(t, f, all)]
    /\ IF asked' = None THEN pc' = "idle" /\ verdict' = "nothing"
                        ELSE pc' = "funding" /\ verdict' = "none"
    /\ UNCHANGED <<house, wallet, worst, fresh, plays, publishes>>

Spendable(t) == IF t = SOL THEN Short(FEE_RESERVE, wallet[t]) ELSE wallet[t]

AnyRow == {t \in Tokens : asked[t] > 0 /\ wallet[t] > 0}    \* mutant

\* The rows the wallet can pay in full; the others are reported and left.
Fundable == {t \in Tokens : asked[t] > 0 /\ Spendable(t) >= asked[t]}

Fund ==
    /\ pc = "funding"
    /\ asked' = [t \in Tokens |-> IF t \in Fundable THEN asked[t] ELSE 0]
    /\ IF Fundable = {} THEN pc' = "idle" /\ verdict' = "failed"
       ELSE /\ pc' = "moving"
            /\ verdict' = IF asked' = asked THEN "done" ELSE "short"
    /\ UNCHANGED <<house, wallet, worst, factor, fill, seen, drained, fresh, plays, publishes>>

\* One row, deposited to the admin's ledger and settled into the house.
Move(t) ==
    /\ pc = "moving"
    /\ asked[t] > 0
    /\ wallet' = [wallet EXCEPT ![t] = @ - asked[t]]
    /\ house' = [house EXCEPT ![t] = @ + asked[t]]
    /\ asked' = [asked EXCEPT ![t] = 0]
    /\ pc' = IF asked' = None THEN "idle" ELSE pc
    /\ fresh' = 0
    /\ UNCHANGED <<worst, factor, fill, seen, verdict, drained, plays, publishes>>

-----------------------------------------------------------------------------
(* acquire-float *)

\* mutant: bought to the last base unit
NeedUnrounded(t, f) ==
    Short(wallet[t], Short(house[t], Target(worst[t], f)))

\* What the market must bring: what top-up will ask, less what is there.
Need(t, f) ==
    Short(wallet[t], RoundUp(Short(house[t], Target(worst[t], f))))

Acquire(f) ==
    /\ pc = "idle"
    /\ factor' = f /\ fill' = FALSE
    /\ seen' = worst /\ drained' = None
    /\ asked' = [t \in Tokens |-> IF t = SOL THEN 0 ELSE Need(t, f)]
    /\ verdict' = "none"
    /\ IF asked' = None THEN pc' = "idle" /\ fresh' = f
                        ELSE pc' = "quoting" /\ fresh' = f
    /\ UNCHANGED <<house, wallet, worst, plays, publishes>>

\* A unit costs a lamport: the swaps start only if the wallet can pay them all.
Cost(rows) == SumOver(rows, Tokens)

Quote ==
    /\ pc = "quoting"
    /\ IF wallet[SOL] < Cost(asked) + FEE_RESERVE
       THEN pc' = "idle" /\ verdict' = "failed" /\ fresh' = 0
       ELSE pc' = "buying" /\ UNCHANGED <<verdict, fresh>>
    /\ UNCHANGED <<house, wallet, worst, factor, fill, seen, asked, drained, plays, publishes>>

\* A route quoted by what comes out brings it; one quoted by what goes in is
\* sized with a pad and still may fall short.
Landing(t) == IF t \in NoRoutes THEN {asked[t] - asked[t] \div 5, asked[t]} ELSE {asked[t]}

Bring(t, n) ==
    wallet' = [wallet EXCEPT ![t] = @ + n, ![SOL] = @ - asked[t]]

Swap(t, n) ==
    /\ pc = "buying"
    /\ asked[t] > 0 /\ n \in Landing(t)
    /\ Bring(t, n)
    /\ asked' = [asked EXCEPT ![t] = 0]
    /\ pc' = IF asked' = None THEN "idle" ELSE pc
    /\ UNCHANGED <<house, worst, factor, fill, seen, verdict, drained, fresh, plays, publishes>>

\* Either command stops at the first row that fails; the row may have landed.
Fail(t) ==
    /\ asked[t] > 0
    /\ \/ /\ pc = "moving"
          /\ \/ UNCHANGED <<wallet, house>>
             \/ /\ wallet' = [wallet EXCEPT ![t] = @ - asked[t]]
                /\ house' = [house EXCEPT ![t] = @ + asked[t]]
       \/ /\ pc = "buying"
          /\ UNCHANGED house
          /\ UNCHANGED wallet \/ \E n \in Landing(t) : Bring(t, n)
    /\ pc' = "idle" /\ verdict' = "failed" /\ fresh' = 0
    /\ UNCHANGED <<worst, factor, fill, seen, asked, drained, plays, publishes>>

Next ==
    \/ \E t \in Tokens, n \in Prizes : Collect(t, n)
    \/ \E w \in Worsts : Publish(w)
    \/ FundAdmin
    \/ \E f \in Factors, all \in Fills : TopUp(f, all)
    \/ Fund
    \/ \E t \in Tokens : Move(t)
    \/ \E f \in Factors : Acquire(f)
    \/ Quote
    \/ \E t \in Tokens : \E n \in Landing(t) : Swap(t, n)
    \/ \E t \in Tokens : Fail(t)

Spec == Init /\ [][Next]_vars

\* The runbook: acquire, then top up with --fill, again and again; the admin
\* is kept in SOL, a command ends, and a row is not refused every time.
Runbook ==
    /\ WF_vars(FundAdmin)
    /\ WF_vars(Fund) /\ WF_vars(Quote)
    /\ \A f \in Factors : SF_vars(Acquire(f)) /\ SF_vars(TopUp(f, TRUE))
    /\ \A t \in Tokens : SF_vars(Move(t)) /\ SF_vars(\E n \in Landing(t) : Swap(t, n))

FairSpec == Spec /\ Runbook

-----------------------------------------------------------------------------
(* What must hold *)

\* A top-up that ended with nothing left to do, rows reported short aside.
SaidOk == pc = "idle" /\ verdict \in {"nothing", "done"}

\* A top-up with --fill that reports no row short leaves every token at its
\* target, but for what players were paid since it read the ledger; one
\* without leaves at least the worst case, as long as half the target covers it.
OkMeansCovered ==
    SaidOk =>
        \A t \in Tokens :
            LET have == house[t] + drained[t]
            IN  /\ fill => have >= Target(seen[t], factor)
                /\ factor >= 200 => have >= seen[t]

\* What acquire-float bought is what top-up --fill then asks for: no token of
\* it stays behind in the admin's wallet one rounding step short (float.rs 259).
BoughtIsEnough ==
    pc = "idle" /\ fresh > 0 =>
        \A t \in Tokens \ (NoRoutes \cup {SOL}) :
            wallet[t] >= Ask(t, fresh, TRUE)

\* Once players stop draining it and the sheet stands, the runbook's loop
\* brings every token of the house to its target, however swaps and deposits
\* failed and landed on the way.
ReachesTarget ==
    <>[](\A t \in Tokens : \A f \in Factors : house[t] >= Target(worst[t], f))

\* What the file's opening says of top-up: the house covers the worst single
\* collect, times the factor it is given, when a run ends well.
HouseCovers ==
    SaidOk => \A t \in Tokens : house[t] + drained[t] >= seen[t]

\* What acquire-float says of a route quoted by what goes in: "top-up moves
\* whatever lands".  Straight after it, top-up --fill leaves a token in the
\* wallet only if the house has its target.
MovesWhateverLands ==
    pc = "idle" /\ fill /\ fresh > 0 =>
        \A t \in NoRoutes : house[t] >= Target(worst[t], fresh) \/ wallet[t] = 0
=============================================================================
