----------------------------- MODULE FloatProofs -----------------------------
(***************************************************************************)
(* Of Float, for every set of tokens, every sheet, factor and purse: what  *)
(* top-up calls ok is covered, and what acquire-float buys is what top-up  *)
(* asks for.                                                               *)
(***************************************************************************)
EXTENDS Float, TotalsProofs

-----------------------------------------------------------------------------
(* Arithmetic *)

\* Rounding up to a multiple of a step.
LEMMA CeilBounds ==
  ASSUME NEW n \in Nat, NEW s \in Nat \ {0}
  PROVE  /\ ((n + s - 1) \div s) * s \in Nat
         /\ ((n + s - 1) \div s) * s >= n
<1> DEFINE m == n + s - 1
<1>1. m \in Nat
  OBVIOUS
<1>2. m \div s \in Nat /\ m < (m \div s) * s + s
  BY <1>1
<1> QED BY <1>2

\* An amount some step reaches is not rounded down.
LEMMA RoundUpBounds ==
  ASSUME NEW n \in Nat, \E s \in Steps : s * 100 >= n
  PROVE  RoundUp(n) \in Nat /\ RoundUp(n) >= n
<1> DEFINE Reach == {s \in Steps : s * 100 >= n}
<1>1. Min(Reach) \in Steps
  BY MinIsLeast, FloatAssumption
<1>2. Min(Reach) \in Nat \ {0}
  BY <1>1, FloatAssumption
<1> HIDE DEF Reach
<1> DEFINE step == Min(Reach)
<1>3. ((n + step - 1) \div step) * step \in Nat /\ ((n + step - 1) \div step) * step >= n
  BY <1>2, CeilBounds
<1>4. RoundUp(n) = IF n <= 10 THEN n ELSE ((n + step - 1) \div step) * step
  BY DEF RoundUp, Reach
<1> HIDE DEF step
<1> QED BY <1>3, <1>4

\* From a factor of two, half the target is a worst case.
LEMMA TargetBounds ==
  ASSUME NEW w \in Nat, NEW f \in Nat
  PROVE  /\ Target(w, f) \in Nat
         /\ f >= 200 => Target(w, f) \div 2 >= w
<1>1. w * f \in Nat
  OBVIOUS
<1>2. ASSUME f >= 200
      PROVE  w * f >= w * 200
  <2>1. PICK d \in Nat : f = 200 + d
    <3>1. f - 200 \in Nat /\ f = 200 + (f - 200)
      BY <1>2
    <3> QED BY <3>1
  <2>2. w * f = w * 200 + w * d /\ w * d \in Nat
    BY <2>1
  <2> QED BY <2>2
<1>3. Target(w, f) \in Nat
  BY <1>1 DEF Target
<1>4. ASSUME f >= 200
      PROVE  Target(w, f) \div 2 >= w
  BY <1>1, <1>2, <1>4 DEF Target
<1> QED BY <1>3, <1>4

\* Every amount rounded is short of some target, so a step reaches it.
LEMMA ShortRounded ==
  ASSUME NEW w \in Worsts, NEW f \in Factors, NEW t \in Tokens, NEW have \in Nat
  PROVE  LET n == Short(have, Target(w[t], f))
         IN  /\ n \in Nat /\ have + n >= Target(w[t], f)
             /\ RoundUp(n) \in Nat /\ RoundUp(n) >= n
<1>1. w[t] \in Nat /\ f \in Nat
  BY FloatAssumption
<1>2. Target(w[t], f) \in Nat
  BY <1>1, TargetBounds
<1> DEFINE n == Short(have, Target(w[t], f))
<1>3. n \in Nat /\ n <= Target(w[t], f) /\ have + n >= Target(w[t], f)
  BY <1>2 DEF Short
<1>4. PICK s \in Steps : s * 100 >= Target(w[t], f)
  BY ReachAssumption
<1>5. s \in Nat
  BY FloatAssumption
<1>6. s * 100 >= n
  BY <1>2, <1>3, <1>4, <1>5
<1>7. RoundUp(n) \in Nat /\ RoundUp(n) >= n
  BY <1>3, <1>6, RoundUpBounds
<1> QED BY <1>3, <1>7

\* What top-up asks for a token it has just read.
LEMMA AskBounds ==
  ASSUME NEW f \in Factors, NEW all \in BOOLEAN, NEW t \in Tokens,
         worst \in Worsts, house[t] \in Nat
  PROVE  /\ Ask(t, f, all) \in Nat
         /\ all => house[t] + Ask(t, f, all) >= Target(worst[t], f)
         /\ f >= 200 => house[t] + Ask(t, f, all) >= worst[t]
         /\ all => Ask(t, f, all) \in {0, RoundUp(Short(house[t], Target(worst[t], f)))}
<1> DEFINE goal == Target(worst[t], f)
           n == Short(house[t], goal)
<1>1. worst[t] \in Nat /\ f \in Nat
  BY FloatAssumption
<1>2. goal \in Nat /\ (f >= 200 => goal \div 2 >= worst[t])
  BY <1>1, TargetBounds
<1>3. n \in Nat /\ house[t] + n >= goal /\ RoundUp(n) \in Nat /\ RoundUp(n) >= n
  BY ShortRounded
<1>4. Ask(t, f, all) = IF house[t] < Trigger(goal, all) THEN RoundUp(goal - house[t]) ELSE 0
  BY DEF Ask
<1>5. Trigger(goal, all) \in Nat /\ Trigger(goal, all) <= goal
      /\ Trigger(goal, all) = IF all THEN goal ELSE goal \div 2
  BY <1>2 DEF Trigger
<1>6. house[t] < goal => n = goal - house[t]
  BY <1>2 DEF Short
<1>7. goal >= 2 * (goal \div 2) /\ goal \div 2 \in Nat
  BY <1>2
<1> HIDE DEF goal, n
<1>8. CASE house[t] < Trigger(goal, all)
  <2>1. Ask(t, f, all) = RoundUp(n)
    BY <1>2, <1>4, <1>5, <1>6, <1>8
  <2>2. house[t] + Ask(t, f, all) >= goal
    BY <1>2, <1>3, <2>1
  <2> QED BY <1>1, <1>2, <1>3, <1>7, <2>1, <2>2 DEF goal, n
<1>9. CASE ~(house[t] < Trigger(goal, all))
  BY <1>1, <1>2, <1>4, <1>5, <1>9 DEF goal
<1> QED BY <1>8, <1>9

-----------------------------------------------------------------------------
(* Shape *)

\* What the arithmetic needs of the state.  That the wallet is never overdrawn
\* is the last section's.
Shape ==
    /\ house \in [Tokens -> Nat] /\ wallet \in [Tokens -> Int] /\ worst \in Worsts
    /\ pc \in {"idle", "funding", "moving", "quoting", "buying"}
    /\ factor \in Factors \cup {0} /\ fill \in BOOLEAN
    /\ seen \in [Tokens -> Nat] /\ asked \in [Tokens -> Nat]
    /\ drained \in [Tokens -> Nat] /\ fresh \in Factors \cup {0}

LEMMA LandingType ==
  ASSUME Shape, NEW t \in Tokens, NEW n \in Landing(t)
  PROVE  n \in Int /\ (t \notin NoRoutes => n = asked[t])
<1>1. asked[t] \in Nat
  BY DEF Shape
<1>2. asked[t] \div 5 \in Nat
  BY <1>1
<1> QED BY <1>1, <1>2 DEF Landing

\* Tokens bought: only the row's and SOL change.
LEMMA BringType ==
  ASSUME Shape, NEW t \in Tokens, NEW n \in Landing(t), Bring(t, n)
  PROVE  /\ wallet' \in [Tokens -> Int]
         /\ \A s \in Tokens \ {SOL} :
              wallet'[s] = IF s = t THEN wallet[s] + n ELSE wallet[s]
<1>1. n \in Int /\ asked[t] \in Nat /\ SOL \in Tokens
  BY LandingType, FloatAssumption DEF Shape
<1> QED BY <1>1 DEF Bring, Shape

LEMMA FloatShape == Spec => []Shape
<1>1. Init => Shape
  <2> SUFFICES ASSUME Init PROVE Shape
    OBVIOUS
  <2>1. house \in [Tokens -> Nat] /\ wallet \in [Tokens -> Int]
    <3>1. house \in [Tokens -> HouseSizes] /\ wallet \in [Tokens -> WalletSizes]
      BY DEF Init
    <3>2. HouseSizes \subseteq Nat /\ WalletSizes \subseteq Int
      BY FloatAssumption
    <3> QED BY <3>1, <3>2
  <2>2. None \in [Tokens -> Nat]
    BY DEF None
  <2> QED BY <2>1, <2>2 DEF Init, Shape
<1>2. Shape /\ [Next]_vars => Shape'
  <2> SUFFICES ASSUME Shape, [Next]_vars
               PROVE  Shape'
    OBVIOUS
  <2> USE FloatAssumption DEF Shape
  <2>1. ASSUME NEW t \in Tokens, NEW n \in Prizes, Collect(t, n)
        PROVE  Shape'
    <3>1. n \in Nat /\ house[t] - n \in Nat /\ drained[t] + n \in Nat
      BY <2>1 DEF Collect
    <3> QED BY <2>1, <3>1 DEF Collect
  <2>2. ASSUME NEW w \in Worsts, Publish(w)
        PROVE  Shape'
    BY <2>2 DEF Publish
  <2>3. CASE FundAdmin
    BY <2>3 DEF FundAdmin
  <2>4. ASSUME NEW f \in Factors, NEW all \in Fills, TopUp(f, all)
        PROVE  Shape'
    <3>1. all \in BOOLEAN
      OBVIOUS
    <3>2. \A t \in Tokens : Ask(t, f, all) \in Nat
      BY <3>1, AskBounds
    <3>3. worst \in [Tokens -> Nat] /\ pc' \in {"idle", "funding"}
      BY <2>4 DEF TopUp
    <3> QED BY <2>4, <3>1, <3>2, <3>3 DEF TopUp, None
  <2>5. CASE Fund
    BY <2>5 DEF Fund
  <2>6. ASSUME NEW t \in Tokens, Move(t)
        PROVE  Shape'
    <3>1. wallet[t] - asked[t] \in Int /\ house[t] + asked[t] \in Nat
      OBVIOUS
    <3> QED BY <2>6, <3>1 DEF Move
  <2>7. ASSUME NEW f \in Factors, Acquire(f)
        PROVE  Shape'
    <3>1. \A t \in Tokens : Need(t, f) \in Nat
      BY ShortRounded DEF Need, Short
    <3>2. worst \in [Tokens -> Nat] /\ pc' \in {"idle", "quoting"} /\ fresh' = f
      BY <2>7 DEF Acquire
    <3> QED BY <2>7, <3>1, <3>2 DEF Acquire, None
  <2>8. CASE Quote
    BY <2>8 DEF Quote
  <2>9. ASSUME NEW t \in Tokens, NEW n \in Landing(t), Swap(t, n)
        PROVE  Shape'
    BY <2>9, BringType DEF Swap
  <2>10. ASSUME NEW t \in Tokens, Fail(t)
         PROVE  Shape'
    <3>1. wallet' \in [Tokens -> Int] /\ house' \in [Tokens -> Nat]
      <4>1. wallet[t] - asked[t] \in Int /\ house[t] + asked[t] \in Nat
        OBVIOUS
      <4> QED BY <2>10, <4>1, BringType DEF Fail
    <3> QED BY <2>10, <3>1 DEF Fail
  <2>11. CASE UNCHANGED vars
    BY <2>11 DEF vars
  <2> QED BY <2>1, <2>2, <2>3, <2>4, <2>5, <2>6, <2>7, <2>8, <2>9, <2>10, <2>11 DEF Next
<1> QED BY <1>1, <1>2, PTL DEF Spec

-----------------------------------------------------------------------------
(* top-up *)

\* With what is still to be moved and what was paid out since the read, a
\* token has what the run promises.
WillHave(t) ==
    LET have == house[t] + drained[t] + asked[t]
    IN  /\ fill => have >= Target(seen[t], factor)
        /\ factor >= 200 => have >= seen[t]

\* A run that may yet end well keeps that for every token, and one that has
\* moved everything has nothing left to move.
OnTheWay ==
    /\ pc = "funding" \/ verdict \in {"nothing", "done"} => \A t \in Tokens : WillHave(t)
    /\ pc = "funding" => verdict = "none"
    /\ pc \in {"quoting", "buying"} => verdict \notin {"nothing", "done"}
    /\ pc = "idle" /\ verdict \in {"nothing", "done"} => asked = None

\* Whatever is paid out and published between the rows, a top-up that says it
\* is done has left every token what it read that it needs.
THEOREM FloatOkMeansCovered == Spec => []OkMeansCovered
<1>1. Init => OnTheWay
  BY DEF Init, OnTheWay
<1>2. Shape /\ OnTheWay /\ [Next]_vars => OnTheWay'
  <2> SUFFICES ASSUME Shape, OnTheWay, [Next]_vars
               PROVE  OnTheWay'
    OBVIOUS
  <2> USE DEF OnTheWay
  <2>1. ASSUME NEW t \in Tokens, NEW n \in Prizes, Collect(t, n)
        PROVE  OnTheWay'
    <3>1. n \in Nat
      BY FloatAssumption
    <3>2. \A s \in Tokens : house'[s] + drained'[s] + asked'[s] = house[s] + drained[s] + asked[s]
      BY <2>1, <3>1 DEF Collect, Shape
    <3> QED BY <2>1, <3>2 DEF Collect, WillHave
  <2>2. ASSUME NEW w \in Worsts, Publish(w)
        PROVE  OnTheWay'
    BY <2>2 DEF Publish, WillHave
  <2>3. CASE FundAdmin
    BY <2>3 DEF FundAdmin, WillHave
  <2>4. ASSUME NEW f \in Factors, NEW all \in Fills, TopUp(f, all)
        PROVE  OnTheWay'
    <3>1. all \in BOOLEAN /\ worst \in [Tokens -> Nat]
      BY FloatAssumption DEF Shape
    <3>2. ASSUME NEW t \in Tokens
          PROVE  WillHave(t)'
      <4>1. house[t] \in Nat /\ worst \in Worsts
        BY DEF Shape
      <4>2. /\ Ask(t, f, all) \in Nat
            /\ all => house[t] + Ask(t, f, all) >= Target(worst[t], f)
            /\ f >= 200 => house[t] + Ask(t, f, all) >= worst[t]
        BY <3>1, <4>1, AskBounds
      <4>3. house'[t] + drained'[t] + asked'[t] = house[t] + Ask(t, f, all)
        BY <2>4, <4>1, <4>2 DEF TopUp, None
      <4> QED BY <2>4, <4>2, <4>3 DEF TopUp, WillHave
    <3> QED BY <2>4, <3>2 DEF TopUp
  <2>5. CASE Fund
    <3>1. CASE asked' = asked
      BY <2>5, <3>1 DEF Fund, WillHave
    <3>2. CASE asked' # asked
      BY <2>5, <3>2 DEF Fund
    <3> QED BY <3>1, <3>2
  <2>6. ASSUME NEW t \in Tokens, Move(t)
        PROVE  OnTheWay'
    <3>1. \A s \in Tokens : house'[s] + drained'[s] + asked'[s] = house[s] + drained[s] + asked[s]
      BY <2>6 DEF Move, Shape
    <3> QED BY <2>6, <3>1 DEF Move, WillHave
  <2>7. ASSUME NEW f \in Factors, Acquire(f)
        PROVE  OnTheWay'
    BY <2>7 DEF Acquire
  <2>8. CASE Quote
    BY <2>8 DEF Quote, WillHave
  <2>9. ASSUME NEW t \in Tokens, NEW n \in Landing(t), Swap(t, n)
        PROVE  OnTheWay'
    BY <2>9 DEF Swap
  <2>10. ASSUME NEW t \in Tokens, Fail(t)
         PROVE  OnTheWay'
    BY <2>10 DEF Fail
  <2>11. CASE UNCHANGED vars
    BY <2>11 DEF vars, WillHave
  <2> QED BY <2>1, <2>2, <2>3, <2>4, <2>5, <2>6, <2>7, <2>8, <2>9, <2>10, <2>11 DEF Next
<1>3. Shape /\ OnTheWay => OkMeansCovered
  BY DEF Shape, OnTheWay, OkMeansCovered, SaidOk, WillHave, None
<1> QED BY <1>1, <1>2, <1>3, FloatShape, PTL DEF Spec

-----------------------------------------------------------------------------
(* acquire-float *)

\* A token whose swap brings what was asked.
Exact(t) == t \notin NoRoutes /\ t # SOL

\* While nothing was paid out, published, moved or lost since acquire-float
\* read: with what it has still to buy, the wallet has what top-up will ask.
Coming ==
    /\ fresh > 0 =>
         \A t \in Tokens : Exact(t) =>
           wallet[t] + (IF pc \in {"quoting", "buying"} THEN asked[t] ELSE 0)
             >= Ask(t, fresh, TRUE)
    /\ pc \in {"quoting", "buying"} => asked[SOL] = 0

\* A token waits for the same ask as long as the house and the sheet stand.
LEMMA AskStands ==
  ASSUME NEW t, NEW f, UNCHANGED <<house, worst>>
  PROVE  Ask(t, f, TRUE)' = Ask(t, f, TRUE)
BY DEF Ask

\* The two commands round the same shortfall the same way: what the one buys
\* is no step short of what the other then asks for.
THEOREM FloatBoughtIsEnough == Spec => []BoughtIsEnough
<1>1. Init => Coming
  BY DEF Init, Coming
<1>2. Shape /\ Coming /\ [Next]_vars => Coming'
  <2> SUFFICES ASSUME Shape, Coming, [Next]_vars
               PROVE  Coming'
    OBVIOUS
  <2> USE DEF Coming, Exact
  <2>1. ASSUME NEW t \in Tokens, NEW n \in Prizes, Collect(t, n)
        PROVE  Coming'
    BY <2>1 DEF Collect
  <2>2. ASSUME NEW w \in Worsts, Publish(w)
        PROVE  Coming'
    BY <2>2 DEF Publish
  <2>3. CASE FundAdmin
    <3>1. \A t \in Tokens : Exact(t) => wallet'[t] = wallet[t]
      BY <2>3 DEF FundAdmin, Shape
    <3> QED BY <2>3, <3>1, AskStands DEF FundAdmin
  <2>4. ASSUME NEW f \in Factors, NEW all \in Fills, TopUp(f, all)
        PROVE  Coming'
    <3>1. pc' \notin {"quoting", "buying"} /\ pc = "idle" /\ UNCHANGED <<wallet, house, worst, fresh>>
      BY <2>4 DEF TopUp
    <3> QED BY <3>1, AskStands
  <2>5. CASE Fund
    <3>1. pc' \notin {"quoting", "buying"} /\ pc = "funding" /\ UNCHANGED <<wallet, house, worst, fresh>>
      BY <2>5 DEF Fund
    <3> QED BY <3>1, AskStands
  <2>6. ASSUME NEW t \in Tokens, Move(t)
        PROVE  Coming'
    BY <2>6 DEF Move
  <2>7. ASSUME NEW f \in Factors, Acquire(f)
        PROVE  Coming'
    <3>1. ASSUME NEW t \in Tokens, Exact(t)
          PROVE  wallet'[t] + (IF pc' \in {"quoting", "buying"} THEN asked'[t] ELSE 0)
                   >= Ask(t, f, TRUE)'
      <4> DEFINE want == RoundUp(Short(house[t], Target(worst[t], f)))
      <4>1. want \in Nat /\ Ask(t, f, TRUE) \in {0, want} /\ wallet[t] \in Int
        BY AskBounds, ShortRounded DEF Shape
      <4>2. asked'[t] = Short(wallet[t], want) /\ UNCHANGED <<wallet, house, worst>>
        BY <2>7, <3>1 DEF Acquire, Need
      <4>3. pc' \notin {"quoting", "buying"} => asked'[t] = 0
        BY <2>7 DEF Acquire, None
      <4> HIDE DEF want
      <4>4. wallet[t] + Short(wallet[t], want) >= want
        BY <4>1 DEF Short
      <4>5. wallet'[t] + (IF pc' \in {"quoting", "buying"} THEN asked'[t] ELSE 0) >= want
        BY <4>1, <4>2, <4>3, <4>4
      <4>6. Ask(t, f, TRUE)' = Ask(t, f, TRUE)
        BY <4>2, AskStands
      <4>7. wallet'[t] + (IF pc' \in {"quoting", "buying"} THEN asked'[t] ELSE 0) \in Int
        BY <4>1, <4>2 DEF Short
      <4> DEFINE has == wallet'[t] + (IF pc' \in {"quoting", "buying"} THEN asked'[t] ELSE 0)
      <4>8. has \in Int /\ has >= want
        BY <4>5, <4>7
      <4> HIDE DEF has
      <4>9. has >= Ask(t, f, TRUE)
        <5>1. has >= 0 /\ has >= want
          BY <4>1, <4>8
        <5>2. Ask(t, f, TRUE) = 0 \/ Ask(t, f, TRUE) = want
          BY <4>1
        <5> QED BY <5>1, <5>2, Zenon
      <4>10. has >= Ask(t, f, TRUE)'
        BY <4>6, <4>9
      <4> QED BY <4>10 DEF has
    <3>2. fresh' = f /\ (pc' \in {"quoting", "buying"} => asked'[SOL] = 0)
      BY <2>7, FloatAssumption DEF Acquire
    <3> QED BY <3>1, <3>2
  <2>8. CASE Quote
    <3>1. CASE fresh' = 0 /\ pc' = "idle"
      BY <3>1
    <3>2. CASE pc' = "buying" /\ pc = "quoting" /\ UNCHANGED <<fresh, wallet, asked, house, worst>>
      BY <3>2, AskStands
    <3> QED BY <2>8, <3>1, <3>2 DEF Quote
  <2>9. ASSUME NEW t \in Tokens, NEW n \in Landing(t), Swap(t, n)
        PROVE  Coming'
    <3>1. pc = "buying" /\ asked[SOL] = 0 /\ t # SOL
          /\ UNCHANGED <<house, worst, fresh>> /\ asked' = [asked EXCEPT ![t] = 0]
          /\ pc' \in {"idle", "buying"} /\ (pc' = "idle" => asked' = None)
      BY <2>9 DEF Swap, Shape
    <3>2. \A s \in Tokens \ {SOL} :
            wallet'[s] = IF s = t THEN wallet[s] + n ELSE wallet[s]
      BY <2>9, BringType DEF Swap
    <3>3. ASSUME NEW s \in Tokens, Exact(s)
          PROVE  wallet'[s] + asked'[s] = wallet[s] + asked[s]
      BY <3>1, <3>2, <3>3, LandingType DEF Shape
    <3>4. ASSUME pc' = "idle", NEW s \in Tokens
          PROVE  asked'[s] = 0
      BY <3>1, <3>4 DEF None
    <3>5. wallet' \in [Tokens -> Int]
      BY <2>9, BringType DEF Swap
    <3>6. asked'[SOL] = 0
      BY <3>1, FloatAssumption DEF Shape
    <3>7. ASSUME NEW s \in Tokens, Exact(s), fresh > 0
          PROVE  wallet'[s] + (IF pc' \in {"quoting", "buying"} THEN asked'[s] ELSE 0)
                   >= Ask(s, fresh, TRUE)
      <4>1. wallet[s] + asked[s] >= Ask(s, fresh, TRUE)
        BY <3>1, <3>7
      <4>2. wallet'[s] + asked'[s] >= Ask(s, fresh, TRUE)
        BY <3>3, <3>7, <4>1
      <4>3. CASE pc' = "idle"
        BY <3>4, <3>5, <4>2, <4>3
      <4>4. CASE pc' = "buying"
        BY <4>2, <4>4
      <4> QED BY <3>1, <4>3, <4>4
    <3>8. \A s \in Tokens : Ask(s, fresh, TRUE)' = Ask(s, fresh, TRUE)
      BY <3>1, AskStands
    <3> QED BY <3>1, <3>6, <3>7, <3>8
  <2>10. ASSUME NEW t \in Tokens, Fail(t)
         PROVE  Coming'
    BY <2>10 DEF Fail
  <2>11. CASE UNCHANGED vars
    BY <2>11, AskStands DEF vars
  <2> QED BY <2>1, <2>2, <2>3, <2>4, <2>5, <2>6, <2>7, <2>8, <2>9, <2>10, <2>11 DEF Next
<1>3. Shape /\ Coming => BoughtIsEnough
  <2> SUFFICES ASSUME Shape, Coming, pc = "idle", fresh > 0,
                      NEW t \in Tokens \ (NoRoutes \cup {SOL})
               PROVE  wallet[t] >= Ask(t, fresh, TRUE)
    BY DEF BoughtIsEnough
  <2>1. wallet[t] \in Int /\ Exact(t) /\ pc \notin {"quoting", "buying"}
    BY DEF Shape, Exact
  <2>2. wallet[t] + 0 >= Ask(t, fresh, TRUE)
    BY <2>1 DEF Coming
  <2>3. wallet[t] + 0 = wallet[t]
    BY <2>1
  <2> QED BY <2>2, <2>3
<1> QED BY <1>1, <1>2, <1>3, FloatShape, PTL DEF Spec

-----------------------------------------------------------------------------
(* The wallet *)

\* Neither command overdraws the admin: what top-up moves row by row is there
\* for every row it has left, and the SOL acquire-float pays covers the swaps
\* still to come and the fees, whatever is quoted, lands or fails between.
Purse ==
    /\ wallet \in [Tokens -> Nat]
    /\ pc = "moving" => \A t \in Tokens : asked[t] <= wallet[t]
    /\ pc \in {"quoting", "buying"} => asked[SOL] = 0
    /\ pc = "buying" => Cost(asked) + FEE_RESERVE <= wallet[SOL]

Tally ==
    /\ verdict \in {"none", "nothing", "done", "short", "failed"}
    /\ plays \in 0 .. MaxPlays /\ publishes \in 0 .. MaxPublishes

LEMMA TallyNext == ASSUME Tally, [Next]_vars PROVE Tally'
<1> USE FloatAssumption DEF Tally
<1>1. ASSUME NEW t \in Tokens, NEW n \in Prizes, Collect(t, n)
      PROVE  Tally'
  BY <1>1 DEF Collect
<1>2. ASSUME NEW w \in Worsts, Publish(w)
      PROVE  Tally'
  BY <1>2 DEF Publish
<1>3. ASSUME NEW f \in Factors, NEW all \in Fills, TopUp(f, all)
      PROVE  Tally'
  BY <1>3 DEF TopUp
<1>4. ASSUME NEW f \in Factors, Acquire(f)
      PROVE  Tally'
  BY <1>4 DEF Acquire
<1>5. ASSUME NEW t \in Tokens, Move(t) \/ Fail(t) \/ \E n \in Landing(t) : Swap(t, n)
      PROVE  Tally'
  BY <1>5 DEF Move, Fail, Swap
<1>6. CASE FundAdmin \/ Fund \/ Quote \/ UNCHANGED vars
  BY <1>6 DEF FundAdmin, Fund, Quote, vars
<1> QED BY <1>1, <1>2, <1>3, <1>4, <1>5, <1>6 DEF Next

\* A row paid for leaves the others' cost.
LEMMA CostLess ==
  ASSUME Shape, NEW t \in Tokens
  PROVE  LET rest == [asked EXCEPT ![t] = 0]
         IN  /\ Cost(rest) \in Nat /\ Cost(asked) \in Nat
             /\ Cost(asked) = asked[t] + Cost(rest)
<1> DEFINE rest == [asked EXCEPT ![t] = 0]
           Others == Tokens \ {t}
<1>1. IsFiniteSet(Tokens) /\ IsFiniteSet(Others)
  BY FloatAssumption, FS_RemoveElement
<1>2. /\ \A s \in Tokens : asked[s] \in Nat /\ rest[s] \in Nat
      /\ \A s \in Others : asked[s] = rest[s] /\ asked[s] \in Nat
      /\ rest[t] = 0
  BY DEF Shape
<1> HIDE DEF rest
<1>3. SumOver(asked, Tokens) = asked[t] + SumOver(asked, Others)
  BY <1>1, <1>2, SumRemove
<1>4. SumOver(rest, Tokens) = rest[t] + SumOver(rest, Others)
  BY <1>1, <1>2, SumRemove
<1>5. SumOver(asked, Others) = SumOver(rest, Others)
  BY <1>1, <1>2, SumSame
<1>6. /\ SumOver(rest, Tokens) \in Nat /\ SumOver(asked, Tokens) \in Nat
      /\ SumOver(rest, Others) \in Nat
  BY <1>1, <1>2, SumNat
<1> HIDE DEF Others
<1>7. SumOver(asked, Tokens) = asked[t] + SumOver(rest, Tokens)
  BY <1>2, <1>3, <1>4, <1>5, <1>6
<1> QED BY <1>6, <1>7 DEF Cost, rest

\* A swap brings its token and costs its row.
LEMMA SwapPays ==
  ASSUME Shape, Purse, pc = "buying", NEW t \in Tokens, NEW n \in Landing(t),
         asked[t] > 0, Bring(t, n)
  PROVE  /\ wallet' \in [Tokens -> Nat]
         /\ Cost([asked EXCEPT ![t] = 0]) + FEE_RESERVE <= wallet'[SOL]
<1>1. /\ asked[t] \in Nat /\ t # SOL /\ SOL \in Tokens /\ FEE_RESERVE \in Nat
      /\ wallet[SOL] \in Nat /\ wallet[t] \in Nat
      /\ Cost(asked) + FEE_RESERVE <= wallet[SOL]
  BY FloatAssumption DEF Shape, Purse
<1>2. n \in Nat
  <2>1. asked[t] \div 5 \in Nat /\ asked[t] \div 5 <= asked[t]
    BY <1>1
  <2> QED BY <1>1, <2>1 DEF Landing
<1>3. /\ Cost([asked EXCEPT ![t] = 0]) \in Nat /\ Cost(asked) \in Nat
      /\ Cost(asked) = asked[t] + Cost([asked EXCEPT ![t] = 0])
  BY CostLess
<1>4. wallet[SOL] - asked[t] \in Nat /\ wallet[t] + n \in Nat
  BY <1>1, <1>2, <1>3
<1>5. wallet'[SOL] = wallet[SOL] - asked[t] /\ wallet' \in [Tokens -> Nat]
  BY <1>1, <1>4 DEF Bring, Purse
<1> QED BY <1>1, <1>3, <1>5

\* A row moved leaves the wallet what it has for the others.
LEMMA MovePays ==
  ASSUME Shape, Purse, pc = "moving", NEW t \in Tokens,
         wallet' = [wallet EXCEPT ![t] = @ - asked[t]]
  PROVE  /\ wallet' \in [Tokens -> Nat]
         /\ \A s \in Tokens : [asked EXCEPT ![t] = 0][s] <= wallet'[s]
<1>1. asked[t] \in Nat /\ wallet[t] \in Nat /\ asked[t] <= wallet[t]
  BY DEF Shape, Purse
<1>2. wallet[t] - asked[t] \in Nat
  BY <1>1
<1> QED BY <1>1, <1>2 DEF Shape, Purse

LEMMA PurseNext == ASSUME Shape, Shape', Purse, [Next]_vars PROVE Purse'
<1>1. ASSUME NEW t \in Tokens, NEW n \in Prizes, Collect(t, n)
      PROVE  Purse'
  BY <1>1 DEF Collect, Purse
<1>2. ASSUME NEW w \in Worsts, Publish(w)
      PROVE  Purse'
  BY <1>2 DEF Publish, Purse
<1>3. CASE FundAdmin
  <2>1. Ample \in Nat /\ SOL \in Tokens /\ wallet[SOL] \in Nat /\ Ample > wallet[SOL]
    BY <1>3, FloatAssumption DEF FundAdmin, Purse
  <2>2. wallet' \in [Tokens -> Nat] /\ \A t \in Tokens : wallet'[t] >= wallet[t]
    BY <1>3, <2>1 DEF FundAdmin, Purse
  <2>3. UNCHANGED <<pc, asked>>
    BY <1>3 DEF FundAdmin
  <2>4. pc = "moving" => \A t \in Tokens : asked[t] <= wallet'[t]
    BY <2>2 DEF Purse, Shape
  <2>5. pc = "buying" => Cost(asked) + FEE_RESERVE <= wallet'[SOL]
    <3>1. Cost(asked) \in Nat /\ FEE_RESERVE \in Nat
      BY <2>1, CostLess, FloatAssumption
    <3> QED BY <2>1, <2>2, <3>1 DEF Purse
  <2> QED BY <2>2, <2>3, <2>4, <2>5 DEF Purse, Cost
<1>4. ASSUME NEW f \in Factors, NEW all \in Fills, TopUp(f, all)
      PROVE  Purse'
  <2>1. pc' \in {"idle", "funding"} /\ wallet' = wallet
    BY <1>4 DEF TopUp
  <2> QED BY <2>1 DEF Purse
<1>5. CASE Fund
  <2>1. wallet' = wallet /\ pc' \in {"idle", "moving"}
    BY <1>5 DEF Fund
  <2>2. ASSUME NEW t \in Tokens
        PROVE  asked'[t] <= wallet[t]
    <3>1. wallet[t] \in Nat /\ asked[t] \in Nat /\ FEE_RESERVE \in Nat
      BY FloatAssumption DEF Purse, Shape
    <3>2. asked'[t] = IF t \in Fundable THEN asked[t] ELSE 0
      BY <1>5 DEF Fund
    <3>3. Spendable(t) <= wallet[t] /\ Spendable(t) \in Nat
      BY <3>1 DEF Spendable, Short
    <3>4. t \in Fundable => Spendable(t) >= asked[t]
      BY DEF Fundable
    <3> QED BY <3>1, <3>2, <3>3, <3>4
  <2> QED BY <2>1, <2>2 DEF Purse
<1>6. ASSUME NEW t \in Tokens, Move(t)
      PROVE  Purse'
  <2>1. pc = "moving" /\ pc' \in {"idle", "moving"} /\ asked' = [asked EXCEPT ![t] = 0]
    BY <1>6 DEF Move
  <2> QED BY <1>6, <2>1, MovePays DEF Move, Purse
<1>7. ASSUME NEW f \in Factors, Acquire(f)
      PROVE  Purse'
  <2>1. pc' \in {"idle", "quoting"} /\ wallet' = wallet /\ asked'[SOL] = 0
    BY <1>7, FloatAssumption DEF Acquire
  <2> QED BY <2>1 DEF Purse
<1>8. CASE Quote
  <2>1. pc = "quoting" /\ pc' \in {"idle", "buying"} /\ UNCHANGED <<wallet, asked>>
    BY <1>8 DEF Quote
  <2>2. pc' = "buying" => Cost(asked) + FEE_RESERVE <= wallet[SOL]
    <3>1. Cost(asked) \in Nat /\ FEE_RESERVE \in Nat /\ wallet[SOL] \in Nat
      BY CostLess, FloatAssumption DEF Purse
    <3> QED BY <1>8, <3>1 DEF Quote
  <2> QED BY <2>1, <2>2 DEF Purse, Cost
<1>9. ASSUME NEW t \in Tokens, NEW n \in Landing(t), Swap(t, n)
      PROVE  Purse'
  <2>1. /\ pc = "buying" /\ pc' \in {"idle", "buying"} /\ asked[t] > 0 /\ Bring(t, n)
        /\ asked' = [asked EXCEPT ![t] = 0] /\ asked[SOL] = 0 /\ t # SOL /\ SOL \in Tokens
    BY <1>9, FloatAssumption DEF Swap, Purse, Shape
  <2>2. /\ wallet' \in [Tokens -> Nat]
        /\ Cost([asked EXCEPT ![t] = 0]) + FEE_RESERVE <= wallet'[SOL]
    BY <2>1, SwapPays
  <2>3. asked'[SOL] = 0
    BY <2>1 DEF Shape
  <2> QED BY <2>1, <2>2, <2>3 DEF Purse, Cost
<1>10. ASSUME NEW t \in Tokens, Fail(t)
       PROVE  Purse'
  <2>1. wallet' \in [Tokens -> Nat]
    <3>1. CASE UNCHANGED wallet
      BY <3>1 DEF Purse
    <3>2. CASE pc = "moving" /\ wallet' = [wallet EXCEPT ![t] = @ - asked[t]]
      BY <3>2, MovePays
    <3>3. ASSUME pc = "buying", NEW n \in Landing(t), Bring(t, n)
          PROVE  wallet' \in [Tokens -> Nat]
      BY <1>10, <3>3, SwapPays DEF Fail
    <3> QED BY <1>10, <3>1, <3>2, <3>3 DEF Fail
  <2>2. pc' = "idle"
    BY <1>10 DEF Fail
  <2> QED BY <2>1, <2>2 DEF Purse
<1>11. CASE UNCHANGED vars
  BY <1>11 DEF vars, Purse, Cost
<1> QED BY <1>1, <1>2, <1>3, <1>4, <1>5, <1>6, <1>7, <1>8, <1>9, <1>10, <1>11 DEF Next

\* The types of the house and the wallet, which neither command, nor both
\* with players between them, ever takes below nothing.
THEOREM FloatTypeOK == Spec => []TypeOK
<1>1. Init => Purse /\ Tally
  <2> SUFFICES ASSUME Init PROVE Purse /\ Tally
    OBVIOUS
  <2>1. wallet \in [Tokens -> WalletSizes] /\ WalletSizes \subseteq Nat
    BY FloatAssumption DEF Init
  <2>2. wallet \in [Tokens -> Nat]
    BY <2>1
  <2> QED BY <2>2, FloatAssumption DEF Init, Purse, Tally
<1>2. Shape /\ Shape' /\ Purse /\ Tally /\ [Next]_vars => Purse' /\ Tally'
  BY PurseNext, TallyNext
<1>3. Shape /\ Purse /\ Tally => TypeOK
  BY DEF Shape, Purse, Tally, TypeOK
<1> QED BY <1>1, <1>2, <1>3, FloatShape, PTL DEF Spec
=============================================================================
