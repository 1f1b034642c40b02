------------------------------ MODULE SheetProofs -----------------------------
(***************************************************************************)
(* The sheet tool, for every curve, pin, table of pays and card.           *)
(*                                                                         *)
(* Of SheetTool: the waterfill and the rounding that follow it lose and    *)
(* invent no chance, flood no share below what its pin asks, and what the  *)
(* solver makes of prices passes the checks.  Of SheetCheck, whose state   *)
(* stands beside it: the tool's checks and set_card's differ by the rules  *)
(* named in Unasked and no other.                                          *)
(***************************************************************************)
EXTENDS SheetTool, SheetCheck, TotalsProofs

\* What is known of a table, in the form the backends use it.
LEMMA TableFacts ==
  ASSUME NEW t \in Seq(Nat)
  PROVE  /\ DOMAIN t = 1 .. Len(t) /\ Len(t) \in Nat
         /\ \A i \in DOMAIN t : t[i] \in Nat
         /\ t \in [1 .. Len(t) -> Nat]
  OBVIOUS

LEMMA TableOf ==
  ASSUME NEW n \in Nat, NEW t, t \in [1 .. n -> Nat]
  PROVE  t \in Seq(Nat) /\ Len(t) = n
  OBVIOUS

LEMMA TableFinite ==
  ASSUME NEW n \in Nat
  PROVE  IsFiniteSet(1 .. n) /\ Cardinality(1 .. n) = n
<1>1. 1 \in Int /\ n \in Int
  OBVIOUS
<1>2. IsFiniteSet(1 .. n) /\ Cardinality(1 .. n) = IF 1 > n THEN 0 ELSE n - 1 + 1
  BY <1>1, FS_Interval
<1> QED BY <1>2

-----------------------------------------------------------------------------
(* normalize *)

\* The whole part of each share, what it leaves over, the shares served before
\* it, and how many units are left to serve.
Part(rel, total) == [i \in DOMAIN rel |-> (rel[i] * total) \div Sum(rel)]
Over(rel, total) == [i \in DOMAIN rel |-> (rel[i] * total) % Sum(rel)]
Ahead(rel, total) ==
    [i \in DOMAIN rel |-> {j \in DOMAIN rel :
        \/ Over(rel, total)[j] > Over(rel, total)[i]
        \/ Over(rel, total)[j] = Over(rel, total)[i] /\ j < i}]
Short(rel, total) == total - Sum(Part(rel, total))
Served(rel, total) == {i \in DOMAIN rel : Cardinality(Ahead(rel, total)[i]) < Short(rel, total)}

LEMMA NormalizeIs ==
  ASSUME NEW rel, NEW total, Sum(rel) # 0
  PROVE  Normalize(rel, total) =
           [i \in DOMAIN rel |-> Part(rel, total)[i] + IF i \in Served(rel, total) THEN 1 ELSE 0]
<1>1. ASSUME NEW i \in DOMAIN rel
      PROVE  Ahead(rel, total)[i] =
               {j \in DOMAIN rel : \/ (rel[j] * total) % Sum(rel) > (rel[i] * total) % Sum(rel)
                                   \/ (rel[j] * total) % Sum(rel) = (rel[i] * total) % Sum(rel) /\ j < i}
  BY DEF Ahead, Over
<1> QED BY <1>1 DEF Normalize, Part, Short, Served

\* Division of a share.
LEMMA SharesDivided ==
  ASSUME NEW n \in Nat, NEW rel \in [1 .. n -> Nat], NEW total \in Nat, Sum(rel) > 0
  PROVE  /\ Sum(rel) \in Nat
         /\ \A i \in 1 .. n :
              /\ Part(rel, total)[i] \in Nat /\ Over(rel, total)[i] \in Nat
              /\ Over(rel, total)[i] < Sum(rel)
              /\ rel[i] * total = Sum(rel) * Part(rel, total)[i] + Over(rel, total)[i]
<1>1. IsFiniteSet(1 .. n) /\ DOMAIN rel = 1 .. n
  BY TableFinite
<1>2. Sum(rel) \in Nat
  BY <1>1, SumNat DEF Sum
<1>3. ASSUME NEW i \in 1 .. n
      PROVE  /\ Part(rel, total)[i] \in Nat /\ Over(rel, total)[i] \in Nat
             /\ Over(rel, total)[i] < Sum(rel)
             /\ rel[i] * total = Sum(rel) * Part(rel, total)[i] + Over(rel, total)[i]
  <2> DEFINE m == Sum(rel)
             s == rel[i] * total
  <2>1. m \in Nat /\ m >= 1 /\ s \in Nat
    BY <1>2
  <2>2. Part(rel, total)[i] = s \div m /\ Over(rel, total)[i] = s % m
    BY <1>1 DEF Part, Over
  <2> HIDE DEF m, s
  <2>3. /\ s \div m \in Nat /\ s % m \in Nat /\ s % m < m
        /\ s = m * (s \div m) + (s % m)
    BY <2>1, Divided
  <2>4. /\ Part(rel, total)[i] \in Nat /\ Over(rel, total)[i] \in Nat
        /\ Over(rel, total)[i] < m
        /\ s = m * Part(rel, total)[i] + Over(rel, total)[i]
    BY <2>2, <2>3
  <2> QED BY <2>4 DEF m, s
<1> QED BY <1>2, <1>3

\* What is left over, together, is what whole parts fall short by.
LEMMA ShortIsOver ==
  ASSUME NEW n \in Nat, NEW rel \in [1 .. n -> Nat], NEW total \in Nat, Sum(rel) > 0
  PROVE  /\ Sum(Part(rel, total)) \in Nat /\ Short(rel, total) \in Int
         /\ Sum(rel) * Short(rel, total) = SumOver(Over(rel, total), 1 .. n)
<1> DEFINE m == Sum(rel)
           share == [i \in 1 .. n |-> rel[i] * total]
           whole == [i \in 1 .. n |-> Part(rel, total)[i] * m]
           p == SumOver(Part(rel, total), 1 .. n)
           o == SumOver(Over(rel, total), 1 .. n)
<1>1. IsFiniteSet(1 .. n) /\ DOMAIN rel = 1 .. n /\ DOMAIN Part(rel, total) = 1 .. n
  BY TableFinite DEF Part
<1>2. /\ m \in Nat /\ \A i \in 1 .. n : rel[i] \in Nat
      /\ \A i \in 1 .. n :
           /\ Part(rel, total)[i] \in Nat /\ Over(rel, total)[i] \in Nat
           /\ rel[i] * total = m * Part(rel, total)[i] + Over(rel, total)[i]
  BY SharesDivided
<1>3. m = SumOver(rel, 1 .. n) /\ p = Sum(Part(rel, total))
  BY <1>1, Zenon DEF Sum
<1> HIDE DEF m
<1>4. \A i \in 1 .. n : share[i] = rel[i] * total
  OBVIOUS
<1>5. SumOver(share, 1 .. n) = SumOver(rel, 1 .. n) * total
  <2>1. \A i \in 1 .. n : rel[i] \in Nat /\ share[i] = rel[i] * total
    BY <1>2, <1>4
  <2> DEFINE S == 1 .. n
  <2>2. IsFiniteSet(S) /\ \A i \in S : rel[i] \in Nat /\ share[i] = rel[i] * total
    BY <1>1, <2>1
  <2> HIDE DEF share, S
  <2>3. SumOver(share, S) = SumOver(rel, S) * total
    BY <2>2, SumScaled
  <2> QED BY <2>3 DEF S
<1>6. \A i \in 1 .. n : Part(rel, total)[i] \in Nat /\ whole[i] = Part(rel, total)[i] * m
  BY <1>2
<1>7. SumOver(whole, 1 .. n) = p * m
  <2>1. m \in Nat
    BY <1>2
  <2> DEFINE S == 1 .. n
             part == Part(rel, total)
  <2>2. IsFiniteSet(S) /\ \A i \in S : part[i] \in Nat /\ whole[i] = part[i] * m
    BY <1>1, <1>6
  <2> HIDE DEF whole, S, part
  <2>3. SumOver(whole, S) = SumOver(part, S) * m
    BY <2>1, <2>2, SumScaled
  <2> QED BY <2>3 DEF S, part, p
<1>8. \A i \in 1 .. n : /\ whole[i] \in Nat /\ Over(rel, total)[i] \in Nat
                        /\ share[i] = whole[i] + Over(rel, total)[i]
  <2> SUFFICES ASSUME NEW i \in 1 .. n
               PROVE  /\ whole[i] \in Nat /\ Over(rel, total)[i] \in Nat
                      /\ share[i] = whole[i] + Over(rel, total)[i]
    OBVIOUS
  <2> DEFINE a == Part(rel, total)[i]
             b == Over(rel, total)[i]
  <2>1. /\ a \in Nat /\ b \in Nat /\ m \in Nat /\ rel[i] * total = m * a + b
        /\ whole[i] = a * m /\ share[i] = rel[i] * total
    BY <1>2, <1>4, <1>6
  <2> HIDE DEF a, b, whole, share
  <2>2. a * m = m * a /\ a * m \in Nat
    BY <2>1
  <2> QED BY <2>1, <2>2 DEF b
<1>9. SumOver(share, 1 .. n) = SumOver(whole, 1 .. n) + o
  <2> HIDE DEF share, whole
  <2> QED BY <1>1, <1>8, SumPlus
<1>10. p \in Nat /\ o \in Nat
  BY <1>1, <1>2, SumNat
<1> HIDE DEF share, whole, p, o
<1>11. m * total = p * m + o
  BY <1>3, <1>5, <1>7, <1>9
<1>12. m * (total - p) = m * total - p * m
  BY <1>2, <1>10
<1>13. Short(rel, total) = total - p
  BY <1>3 DEF Short
<1>14. p * m = m * p /\ m * total \in Nat /\ p * m \in Nat
  BY <1>2, <1>10
<1>15. Short(rel, total) \in Int /\ m * Short(rel, total) = o
  BY <1>10, <1>11, <1>12, <1>13, <1>14
<1> QED BY <1>3, <1>10, <1>15 DEF m, o

\* The shares that leave something over are enough to serve.
LEMMA ShortBound ==
  ASSUME NEW n \in Nat, NEW rel \in [1 .. n -> Nat], NEW total \in Nat, Sum(rel) > 0
  PROVE  LET R == {i \in 1 .. n : Over(rel, total)[i] > 0}
         IN /\ Short(rel, total) \in Nat
            /\ IsFiniteSet(R) /\ Cardinality(R) \in Nat /\ Short(rel, total) <= Cardinality(R)
<1> DEFINE R == {i \in 1 .. n : Over(rel, total)[i] > 0}
           m == Sum(rel)
           s == Short(rel, total)
           c == Cardinality(R)
           full == [i \in 1 .. n |-> m]
<1>1. IsFiniteSet(1 .. n) /\ IsFiniteSet(R) /\ c \in Nat
  BY TableFinite, FS_Subset, FS_CardinalityType
<1>2. m \in Nat /\ m > 0
      /\ \A i \in 1 .. n : Over(rel, total)[i] \in Nat /\ Over(rel, total)[i] < m
  BY SharesDivided
<1>3. s \in Int /\ m * s = SumOver(Over(rel, total), 1 .. n)
  BY ShortIsOver
<1>4. SumOver(Over(rel, total), 1 .. n) = SumOver(Over(rel, total), R)
  <2>1. /\ \A i \in 1 .. n : Over(rel, total)[i] \in Nat
        /\ \A i \in (1 .. n) \ R : Over(rel, total)[i] = 0
    BY <1>2
  <2>2. R \in SUBSET (1 .. n)
    OBVIOUS
  <2> HIDE DEF R
  <2> QED BY <1>1, <2>1, <2>2, SumOfPart
<1> HIDE DEF m
<1>5. \A i \in R : full[i] = m
  OBVIOUS
<1> HIDE DEF full
<1>6. SumOver(full, R) = m * c
  BY <1>1, <1>2, <1>5, SumConstant
<1>7. SumOver(Over(rel, total), R) <= SumOver(full, R)
  <2>1. \A i \in R : Over(rel, total)[i] \in Nat /\ full[i] \in Nat
                     /\ Over(rel, total)[i] <= full[i]
    BY <1>2, <1>5
  <2> QED BY <1>1, <2>1, SumLeq
<1>8. SumOver(Over(rel, total), R) \in Nat
  BY <1>1, <1>2, SumNat
<1> HIDE DEF R, s, c
<1>9. m * s >= 0 /\ m * s <= m * c
  BY <1>3, <1>4, <1>6, <1>7, <1>8
<1>10. s >= 0
  <2> SUFFICES ASSUME s <= 0 - 1 PROVE FALSE
    BY <1>3
  <2>1. m * s <= m * (0 - 1)
    BY <1>2, <1>3
  <2> QED BY <1>2, <1>3, <1>9, <2>1
<1>11. s <= c
  <2> SUFFICES ASSUME s >= c + 1 PROVE FALSE
    BY <1>1, <1>3
  <2>1. m * s >= m * (c + 1)
    BY <1>1, <1>2, <1>3
  <2>2. m * (c + 1) = m * c + m
    BY <1>1, <1>2
  <2>3. m * s \in Int /\ m * c \in Int
    BY <1>1, <1>2, <1>3
  <2> QED BY <1>2, <1>9, <2>1, <2>2, <2>3
<1> QED BY <1>1, <1>3, <1>10, <1>11 DEF R, s, c

\* normalize gives whole weights,
LEMMA NormalizeType ==
  ASSUME NEW rel \in Seq(Nat), NEW total \in Nat
  PROVE  Normalize(rel, total) \in Seq(Nat) /\ Len(Normalize(rel, total)) = Len(rel)
<1> DEFINE n == Len(rel)
<1>1. n \in Nat /\ DOMAIN rel = 1 .. n /\ rel \in [1 .. n -> Nat]
  BY TableFacts
<1>2. IsFiniteSet(1 .. n)
  BY <1>1, TableFinite
<1>3. Sum(rel) \in Nat
  BY <1>1, <1>2, SumNat DEF Sum
<1>4. CASE Sum(rel) = 0
  BY <1>4 DEF Normalize
<1>5. CASE Sum(rel) # 0
  <2> HIDE DEF n
  <2>1. \A i \in 1 .. n : Part(rel, total)[i] \in Nat
    BY <1>1, <1>3, <1>5, SharesDivided
  <2>2. Normalize(rel, total) \in [1 .. n -> Nat]
    <3>1. \A i \in 1 .. n :
            Part(rel, total)[i] + (IF i \in Served(rel, total) THEN 1 ELSE 0) \in Nat
      BY <2>1
    <3>2. Normalize(rel, total) =
            [i \in 1 .. n |-> Part(rel, total)[i] + IF i \in Served(rel, total) THEN 1 ELSE 0]
      <4>1. Normalize(rel, total) =
              [i \in DOMAIN rel |->
                 Part(rel, total)[i] + IF i \in Served(rel, total) THEN 1 ELSE 0]
        BY <1>5, NormalizeIs
      <4> QED BY <1>1, <4>1
    <3> QED BY <3>1, <3>2
  <2>3. Normalize(rel, total) \in Seq(Nat) /\ Len(Normalize(rel, total)) = n
    BY <1>1, <2>2, TableOf
  <2> QED BY <2>3 DEF n
<1> QED BY <1>4, <1>5

\* that are `total` together: the parts left over are served once each, the
\* largest first, and there are enough of them;
LEMMA NormalizeExact ==
  ASSUME NEW n \in Nat, NEW rel \in [1 .. n -> Nat], NEW total \in Nat, Sum(rel) > 0
  PROVE  SumOver(Normalize(rel, total), 1 .. n) = total
<1> DEFINE below == Ahead(rel, total)
           short == Short(rel, total)
           R == {i \in 1 .. n : Over(rel, total)[i] > 0}
           unit == [i \in 1 .. n |-> IF i \in Served(rel, total) THEN 1 ELSE 0]
           part == Part(rel, total)
           whole == Normalize(rel, total)
<1>1. /\ IsFiniteSet(1 .. n) /\ Cardinality(1 .. n) = n
      /\ DOMAIN rel = 1 .. n /\ DOMAIN part = 1 .. n
  BY TableFinite DEF Part
<1>2. \A i \in 1 .. n : part[i] \in Nat /\ Over(rel, total)[i] \in Nat
  BY SharesDivided
<1>3. short \in Nat /\ short <= n
  <2>1. short \in Nat /\ short <= Cardinality(R)
    BY ShortBound
  <2>2. Cardinality(R) <= n /\ Cardinality(R) \in Nat
    BY <1>1, FS_Subset, FS_CardinalityType
  <2> QED BY <2>1, <2>2
<1>4. below \in [1 .. n -> SUBSET (1 .. n)]
  BY <1>1 DEF Ahead
<1>5. \A i, j \in 1 .. n : j \in below[i] <=>
        \/ Over(rel, total)[j] > Over(rel, total)[i]
        \/ Over(rel, total)[j] = Over(rel, total)[i] /\ j < i
  BY <1>1 DEF Ahead
<1> HIDE DEF below
<1>6. /\ \A x \in 1 .. n : x \notin below[x]
      /\ \A x, y \in 1 .. n : y \in below[x] => below[y] \subseteq below[x]
      /\ \A x, y \in 1 .. n : x # y => x \in below[y] \/ y \in below[x]
  <2> DEFINE over == Over(rel, total)
             S == 1 .. n
             Less(x, y) == over[y] > over[x] \/ (over[y] = over[x] /\ y < x)
  <2>0. /\ \A x \in S : x \in Nat /\ over[x] \in Nat
        /\ \A x \in S : below[x] \subseteq S
        /\ \A x, y \in S : y \in below[x] <=> Less(x, y)
    BY <1>2, <1>4, <1>5
  <2> HIDE DEF over, S
  <2>1. ASSUME NEW x \in S PROVE x \notin below[x]
    <3>1. over[x] \in Nat /\ x \in Nat
      BY <2>0
    <3>2. ~Less(x, x)
      BY <3>1
    <3> QED BY <2>0, <3>2
  <2>2. ASSUME NEW x \in S, NEW y \in S, y \in below[x]
        PROVE  below[y] \subseteq below[x]
    <3> SUFFICES ASSUME NEW z \in below[y] PROVE z \in below[x]
      OBVIOUS
    <3>1. z \in S
      BY <2>0
    <3>2. /\ over[x] \in Nat /\ over[y] \in Nat /\ over[z] \in Nat
          /\ x \in Nat /\ y \in Nat /\ z \in Nat
      BY <2>0, <3>1
    <3>3. Less(x, y) /\ Less(y, z)
      BY <2>0, <2>2, <3>1
    <3>4. Less(x, z)
      BY <3>2, <3>3
    <3> QED BY <2>0, <3>1, <3>4
  <2>3. ASSUME NEW x \in S, NEW y \in S, x # y PROVE x \in below[y] \/ y \in below[x]
    <3>1. over[x] \in Nat /\ over[y] \in Nat /\ x \in Nat /\ y \in Nat
      BY <2>0
    <3>2. Less(x, y) \/ Less(y, x)
      BY <2>3, <3>1
    <3> QED BY <2>0, <3>2
  <2> QED BY <2>1, <2>2, <2>3 DEF S
<1>7. Cardinality({i \in 1 .. n : Cardinality(below[i]) < short}) = short
  <2> DEFINE S == 1 .. n
  <2>1. IsFiniteSet(S) /\ Cardinality(S) = n /\ below \in [S -> SUBSET S]
    BY <1>1, <1>4
  <2>2. /\ \A x \in S : x \notin below[x]
        /\ \A x, y \in S : y \in below[x] => below[y] \subseteq below[x]
        /\ \A x, y \in S : x # y => x \in below[y] \/ y \in below[x]
    BY <1>6
  <2> HIDE DEF short, S
  <2>3. short \in Nat /\ short <= Cardinality(S)
    BY <1>3, <2>1
  <2>4. Cardinality({i \in S : Cardinality(below[i]) < short}) = short
    BY <2>1, <2>2, <2>3, FirstInOrder
  <2> QED BY <2>4 DEF S
<1>8. Served(rel, total) = {i \in 1 .. n : Cardinality(below[i]) < short}
  BY <1>1 DEF Served, below
<1>9. SumOver(unit, 1 .. n) = short
  <2>1. Served(rel, total) \in SUBSET (1 .. n) /\ Cardinality(Served(rel, total)) = short
    BY <1>7, <1>8, Zenon
  <2>2. \A i \in 1 .. n : unit[i] = IF i \in Served(rel, total) THEN 1 ELSE 0
    OBVIOUS
  <2> HIDE DEF unit, short
  <2> QED BY <1>1, <2>1, <2>2, SumOfOnes
<1>10. SumOver(whole, 1 .. n) = SumOver(part, 1 .. n) + SumOver(unit, 1 .. n)
  <2>1. \A i \in 1 .. n : unit[i] \in Nat /\ whole[i] = part[i] + unit[i]
    BY <1>1, NormalizeIs
  <2>2. \A i \in 1 .. n : part[i] \in Nat
    BY <1>2
  <2> HIDE DEF unit, whole, part
  <2> QED BY <1>1, <2>1, <2>2, SumPlus
<1>11. SumOver(part, 1 .. n) \in Nat /\ short = total - SumOver(part, 1 .. n)
  BY <1>1, <1>2, SumNat DEF Short, Sum
<1> HIDE DEF unit, whole, part, short
<1>12. SumOver(whole, 1 .. n) = total
  BY <1>9, <1>10, <1>11
<1> QED BY <1>12 DEF whole

\* a share of nothing stays nothing;
LEMMA NormalizeNothing ==
  ASSUME NEW n \in Nat, NEW rel \in [1 .. n -> Nat], NEW total \in Nat, Sum(rel) > 0,
         NEW i \in 1 .. n, rel[i] = 0
  PROVE  Normalize(rel, total)[i] = 0
<1> DEFINE R == {j \in 1 .. n : Over(rel, total)[j] > 0}
           A == Ahead(rel, total)[i]
<1>0. Sum(rel) \in Nat /\ Sum(rel) # 0 /\ DOMAIN rel = 1 .. n
  BY SharesDivided
<1>1. /\ Part(rel, total)[i] \in Nat /\ Over(rel, total)[i] \in Nat
      /\ rel[i] * total = Sum(rel) * Part(rel, total)[i] + Over(rel, total)[i]
  BY SharesDivided
<1>2. Part(rel, total)[i] = 0 /\ Over(rel, total)[i] = 0
  <2> DEFINE m == Sum(rel)
             p == Part(rel, total)[i]
             o == Over(rel, total)[i]
  <2>1. m \in Nat /\ m # 0 /\ p \in Nat /\ o \in Nat /\ 0 = m * p + o
    BY <1>0, <1>1
  <2> HIDE DEF m, p, o
  <2>2. m * p \in Nat
    BY <2>1
  <2>3. m * p = 0 /\ o = 0
    BY <2>1, <2>2
  <2>4. p = 0
    BY <2>1, <2>3
  <2> QED BY <2>3, <2>4 DEF p, o
<1>3. R \subseteq A
  BY <1>0, <1>2 DEF Ahead
<1>4. IsFiniteSet(A)
  <2>1. A \subseteq 1 .. n
    BY <1>0 DEF Ahead
  <2> QED BY <2>1, TableFinite, FS_Subset
<1>5. Cardinality(R) <= Cardinality(A) /\ Cardinality(A) \in Nat /\ Cardinality(R) \in Nat
  BY <1>3, <1>4, FS_Subset, FS_CardinalityType
<1>6. Short(rel, total) \in Nat /\ Short(rel, total) <= Cardinality(R)
  BY ShortBound
<1>7. i \notin Served(rel, total)
  BY <1>5, <1>6 DEF Served
<1>8. Normalize(rel, total)[i] = Part(rel, total)[i] + 0
  BY <1>0, <1>7, NormalizeIs
<1> QED BY <1>2, <1>8

\* and what is dearer never gets more: of two shares the earlier, if it is no
\* smaller, has no smaller a weight.
LEMMA NormalizeOrder ==
  ASSUME NEW n \in Nat, NEW rel \in [1 .. n -> Nat], NEW total \in Nat, Sum(rel) > 0,
         NEW i \in 1 .. n, NEW j \in 1 .. n, i < j, rel[i] >= rel[j]
  PROVE  Normalize(rel, total)[i] >= Normalize(rel, total)[j]
<1> DEFINE m == Sum(rel)
           a == Part(rel, total)[i]
           b == Part(rel, total)[j]
           x == Over(rel, total)[i]
           y == Over(rel, total)[j]
           A == Ahead(rel, total)[i]
           B == Ahead(rel, total)[j]
           s == Short(rel, total)
<1>1. m \in Nat /\ m > 0 /\ m # 0 /\ DOMAIN rel = 1 .. n
  BY SharesDivided
<1>2. /\ \A k \in 1 .. n : Over(rel, total)[k] \in Nat
      /\ a \in Nat /\ b \in Nat /\ x \in Nat /\ y \in Nat /\ x < m /\ y < m
      /\ rel[i] * total = m * a + x /\ rel[j] * total = m * b + y
  <2>1. \A k \in 1 .. n :
          /\ Part(rel, total)[k] \in Nat /\ Over(rel, total)[k] \in Nat
          /\ Over(rel, total)[k] < m
          /\ rel[k] * total = m * Part(rel, total)[k] + Over(rel, total)[k]
    BY SharesDivided
  <2> QED BY <2>1, Zenon
<1>3. rel[j] * total <= rel[i] * total
  <2>1. rel[i] \in Nat /\ rel[j] \in Nat /\ rel[j] <= rel[i]
    OBVIOUS
  <2> QED BY <2>1, ProductLeq
<1>4. \A k \in 1 .. n :
        /\ k \in A <=> Over(rel, total)[k] > x \/ (Over(rel, total)[k] = x /\ k < i)
        /\ k \in B <=> Over(rel, total)[k] > y \/ (Over(rel, total)[k] = y /\ k < j)
  BY <1>1 DEF Ahead
<1>5. A \subseteq 1 .. n /\ B \subseteq 1 .. n
  BY <1>1 DEF Ahead
<1>6. IsFiniteSet(B) /\ Cardinality(A) \in Nat /\ Cardinality(B) \in Nat
  BY <1>5, TableFinite, FS_Subset, FS_CardinalityType
<1>7. s \in Nat
  BY ShortBound
<1>8. /\ Normalize(rel, total)[i] = a + IF Cardinality(A) < s THEN 1 ELSE 0
      /\ Normalize(rel, total)[j] = b + IF Cardinality(B) < s THEN 1 ELSE 0
  <2>1. \A k \in 1 .. n : k \in Served(rel, total) <=> Cardinality(Ahead(rel, total)[k]) < s
    BY <1>1 DEF Served
  <2>2. \A k \in 1 .. n : Normalize(rel, total)[k] =
                            Part(rel, total)[k] + IF k \in Served(rel, total) THEN 1 ELSE 0
    BY <1>1, NormalizeIs
  <2> QED BY <2>1, <2>2
<1>9. m * b + y <= m * a + x
  BY <1>2, <1>3
<1> HIDE DEF m, a, b, x, y, s, A, B
<1>10. b <= a
  <2> SUFFICES ASSUME b >= a + 1 PROVE FALSE
    BY <1>2
  <2>1. m * (a + 1) <= m * b
    BY <1>1, <1>2, ProductLeq
  <2>2. m * (a + 1) = m * a + m
    BY <1>1, <1>2
  <2> DEFINE u == m * a
             v == m * b
  <2>3. u \in Nat /\ v \in Nat /\ v + y <= u + x /\ u + m <= v
    BY <1>1, <1>2, <1>9, <2>1, <2>2
  <2> HIDE DEF u, v
  <2> QED BY <1>1, <1>2, <2>3
<1>11. CASE b < a
  <2> QED BY <1>2, <1>8, <1>11
<1>12. CASE b = a
  <2>1. y <= x
    <3>1. m * a \in Nat /\ m * b = m * a
      BY <1>1, <1>2, <1>12
    <3> QED BY <1>2, <1>9, <3>1
  <2>2. A \subseteq B
    <3> SUFFICES ASSUME NEW k \in A PROVE k \in B
      OBVIOUS
    <3>1. k \in 1 .. n
      BY <1>5
    <3> DEFINE c == Over(rel, total)[k]
    <3>2. c \in Nat
      BY <1>2, <3>1
    <3>3. c > x \/ (c = x /\ k < i)
      BY <1>4, <3>1
    <3>4. k \in B <=> c > y \/ (c = y /\ k < j)
      BY <1>4, <3>1
    <3> HIDE DEF c
    <3>5. c > y \/ (c = y /\ k < j)
      BY <1>2, <2>1, <3>1, <3>2, <3>3
    <3> QED BY <3>4, <3>5
  <2>3. Cardinality(A) <= Cardinality(B)
    BY <1>6, <2>2, FS_Subset
  <2> QED BY <1>2, <1>6, <1>7, <1>8, <1>12, <2>3
<1> QED BY <1>2, <1>10, <1>11, <1>12

-----------------------------------------------------------------------------
(* The inductive invariant *)

\* Between runs nothing of the last one is left.
Rested == stage = "idle" => /\ curve = <<>> /\ rest = <<>> /\ pays = <<>>
                            /\ pass = 0 /\ pinned = 0

\* A run is about one of the curves; on it the pool is the curve itself.
Curved ==
    /\ stage \in {"fill", "odds"} => curve \in Curves
    /\ stage = "fill" => pinned > 0
    /\ stage = "odds" /\ pinned = 0 => rest = Normalize(curve, TOTAL)

\* With a pin the others share the rest, and the pin is no more than its part:
\* what keeps a pass from raising every token, or the room from running out.
Shared ==
    stage \in {"fill", "odds"} /\ pinned > 0 =>
      /\ Len(curve) > 1 /\ Len(rest) + 1 = Len(curve)
      /\ pinned * Len(curve) <= TOTAL
      /\ SumOver(rest, DOMAIN rest) = TOTAL - pinned

\* Of up to three tokens one pass raises what there is to raise.
Settled ==
    pinned > 0 /\ Len(curve) <= 3 /\ (stage = "odds" \/ (stage = "fill" /\ pass > 0)) =>
      Low = {}

IInv == TypeOK /\ Rested /\ Curved /\ Shared /\ Settled /\ SolvedPasses

-----------------------------------------------------------------------------
(* The tables a run starts from *)

LEMMA TablesTyped ==
  /\ \A t \in Tables : t \in Seq(Nat) /\ Len(t) > 0
  /\ \A s \in Shapes : s \in Seq(Nat) /\ Len(s) > 0
  /\ \A g \in Gains : g[1] \in Nat /\ g[2] \in Nat /\ g[2] > 0
  /\ TOTAL \in Nat /\ TOTAL > 0 /\ Pins \subseteq Nat
BY SheetToolAssumption

\* Every part of a curve that has an entry has weight.
LEMMA CurveFacts ==
  ASSUME NEW c \in Curves
  PROVE  /\ c \in Seq(Nat) /\ Len(c) \in Nat /\ Len(c) \in 1 .. TOTAL
         /\ c \in [1 .. Len(c) -> Nat] /\ DOMAIN c = 1 .. Len(c)
         /\ \A i \in 1 .. Len(c) : c[i] > 0
<1>1. c \in Seq(Nat \ {0}) /\ Len(c) \in 1 .. TOTAL
  BY SheetToolAssumption
<1>2. DOMAIN c = 1 .. Len(c) /\ Len(c) \in Nat /\ \A i \in 1 .. Len(c) : c[i] \in Nat \ {0}
  BY <1>1
<1>3. c \in Seq(Nat)
  BY <1>1
<1>4. c \in [1 .. Len(c) -> Nat]
  BY <1>3, TableFacts
<1> QED BY <1>1, <1>2, <1>3, <1>4

LEMMA SumPositive ==
  ASSUME NEW n \in Nat, NEW f \in [1 .. n -> Nat], NEW e \in 1 .. n, f[e] > 0
  PROVE  Sum(f) > 0 /\ Sum(f) \in Nat /\ Sum(f) = SumOver(f, 1 .. n)
<1>1. IsFiniteSet(1 .. n) /\ DOMAIN f = 1 .. n
  BY TableFinite
<1>2. SumOver(f, 1 .. n) \in Nat /\ f[e] <= SumOver(f, 1 .. n) /\ f[e] \in Nat
  BY <1>1, SumNat, SumAtLeast
<1>3. Sum(f) = SumOver(f, 1 .. n)
  BY <1>1, Zenon DEF Sum
<1> QED BY <1>2, <1>3

\* What the dearest token is held at is no more than one part in the number of
\* tokens.
LEMMA PinBounds ==
  ASSUME NEW c \in Curves, NEW share \in Pins
  PROVE  LET p == Max({1, Min({TOTAL \div Len(c), share})})
         IN p \in Nat /\ p > 0 /\ p <= TOTAL /\ p * Len(c) <= TOTAL
<1> DEFINE n == Len(c)
           q == TOTAL \div n
           least == Min({q, share})
           p == Max({1, least})
<1>1. n \in Nat /\ n >= 1 /\ n <= TOTAL /\ TOTAL \in Nat /\ share \in Nat
  BY CurveFacts, TablesTyped
<1> HIDE DEF n
<1>2. q \in Nat /\ 1 <= q /\ q * n <= TOTAL
  <2>1. n * 1 <= TOTAL
    BY <1>1
  <2>2. 1 <= q
    BY <1>1, <2>1, QuotientBound
  <2> QED BY <1>1, <2>2, Divided
<1> HIDE DEF q
<1>3. least \in {q, share} /\ least <= q
  BY <1>1, <1>2, MinIsLeast
<1>4. least \in Nat
  BY <1>1, <1>2, <1>3
<1> HIDE DEF least
<1>5. p \in {1, least} /\ 1 <= p
  <2>1. IsFiniteSet({1} \cup {least}) /\ {1} \cup {least} = {1, least}
    BY FS_Singleton, FS_Union
  <2> QED BY <1>4, <2>1, MaxIsLargest
<1>6. p \in Nat /\ p <= q
  BY <1>2, <1>3, <1>4, <1>5
<1> HIDE DEF p
<1>7. p * n <= q * n /\ p * n \in Nat /\ q * n \in Nat
  BY <1>1, <1>2, <1>6, ProductLeq
<1>8. p <= TOTAL
  <2>1. p * 1 <= p * n
    BY <1>1, <1>6, ProductLeq
  <2> QED BY <1>1, <1>2, <1>6, <1>7, <2>1
<1> QED BY <1>1, <1>2, <1>5, <1>6, <1>7, <1>8 DEF p, least, q, n

\* The button's factor leaves whole weights.
LEMMA SolveOddsType ==
  ASSUME NEW table \in Seq(Nat), Len(table) > 0, NEW roll, NEW gain \in Gains
  PROVE  SolveOdds(table, roll, gain) \in Seq(Nat)
<1> DEFINE n == Len(table)
           most == IF roll = Exclusive THEN Sum(table) ELSE Max({table[i] : i \in DOMAIN table})
           k == IF most * gain[1] > TOTAL * gain[2] THEN <<TOTAL, most>> ELSE gain
<1>1. n \in Nat /\ n >= 1 /\ DOMAIN table = 1 .. n /\ \A i \in 1 .. n : table[i] \in Nat
  BY TableFacts
<1>2. TOTAL \in Nat /\ gain[1] \in Nat /\ gain[2] \in Nat /\ gain[2] > 0
  BY TablesTyped
<1>3. most \in Nat
  <2>1. Sum(table) \in Nat
    BY <1>1, TableFinite, SumNat DEF Sum
  <2>2. Max({table[i] : i \in DOMAIN table}) \in Nat
    <3> DEFINE T == {table[i] : i \in 1 .. n}
    <3>1. IsFiniteSet(T)
      <4> HIDE DEF n
      <4>1. IsFiniteSet(1 .. n)
        BY <1>1, TableFinite
      <4> QED BY <4>1, ImageSize
    <3>2. T \subseteq Nat /\ T # {}
      BY <1>1
    <3> HIDE DEF T
    <3>3. Max(T) \in Nat
      BY <3>1, <3>2, MaxIsLargest
    <3> QED BY <1>1, <3>3 DEF T
  <2> QED BY <2>1, <2>2
<1> HIDE DEF most
<1>4. k[1] \in Nat /\ k[2] \in Nat /\ k[2] > 0
  <2>1. CASE most * gain[1] > TOTAL * gain[2]
    <3>1. most # 0
      <4> SUFFICES ASSUME most = 0 PROVE FALSE
        OBVIOUS
      <4>1. TOTAL * gain[2] \in Nat /\ most * gain[1] = 0
        BY <1>2
      <4> QED BY <2>1, <4>1
    <3> QED BY <1>2, <1>3, <2>1, <3>1
  <2>2. CASE ~(most * gain[1] > TOTAL * gain[2])
    BY <1>2, <2>2
  <2> QED BY <2>1, <2>2
<1> HIDE DEF k
<1>5. \A i \in 1 .. n : Scaled(table[i], k[1], k[2]) \in Nat
  <2> SUFFICES ASSUME NEW i \in 1 .. n PROVE Scaled(table[i], k[1], k[2]) \in Nat
    OBVIOUS
  <2> DEFINE w == table[i]
             a == k[1]
             d == k[2]
             s == 2 * w * a + d
             t == 2 * d
  <2>1. w \in Nat /\ a \in Nat /\ d \in Nat /\ d > 0
    BY <1>1, <1>4
  <2> HIDE DEF w, a, d
  <2>2. w * a \in Nat /\ 2 * w * a = 2 * (w * a)
    BY <2>1
  <2>3. s \in Nat /\ t \in Nat /\ t >= 1
    BY <2>1, <2>2
  <2>4. Scaled(w, a, d) = s \div t
    BY DEF Scaled
  <2> HIDE DEF s, t
  <2>5. t * 0 <= s
    BY <2>3
  <2>6. s \div t \in Nat
    BY <2>3, <2>5, QuotientBound
  <2> QED BY <2>4, <2>6 DEF w, a, d
<1>6. SolveOdds(table, roll, gain) = [i \in 1 .. n |-> Scaled(table[i], k[1], k[2])]
  BY <1>1 DEF SolveOdds, most, k
<1> HIDE DEF n
<1>7. SolveOdds(table, roll, gain) \in [1 .. n -> Nat]
  BY <1>5, <1>6
<1> QED BY <1>1, <1>7, TableOf

\* A share that is scaled by n / d ends no higher than b where w * n / d does:
\* half a unit is not enough to pass a whole one.
LEMMA ScaledWithin ==
  ASSUME NEW w \in Nat, NEW a \in Nat, NEW d \in Nat, d > 0, NEW b \in Nat, w * a <= b * d
  PROVE  Scaled(w, a, d) \in Nat /\ Scaled(w, a, d) <= b
<1> DEFINE s == 2 * w * a + d
           t == 2 * d
           q == s \div t
           u == w * a
           v == b * d
<1>1. u \in Nat /\ v \in Nat /\ u <= v /\ 2 * w * a = 2 * u
  OBVIOUS
<1>2. s \in Nat /\ t \in Nat /\ t >= 1 /\ s = 2 * u + d
  BY <1>1
<1>3. Scaled(w, a, d) = q
  BY DEF Scaled
<1> HIDE DEF s
<1>4. q \in Nat /\ q * t <= s
  <2> HIDE DEF t
  <2> QED BY <1>2, Divided
<1>5. q <= b
  <2> SUFFICES ASSUME q >= b + 1 PROVE FALSE
    BY <1>4
  <2>1. (b + 1) * t <= q * t
    <3> HIDE DEF q, t
    <3> QED BY <1>2, <1>4, ProductLeq
  <2>2. (b + 1) * t = 2 * v + 2 * d
    OBVIOUS
  <2> DEFINE x == q * t
             y == (b + 1) * t
  <2>3. y <= x /\ x <= s /\ y = 2 * v + 2 * d
    BY <1>4, <2>1, <2>2
  <2>4. x \in Nat /\ y \in Nat
    BY <1>2, <1>4
  <2> HIDE DEF x, y, u, v, t, q
  <2> QED BY <1>1, <1>2, <2>3, <2>4
<1> QED BY <1>3, <1>4, <1>5

\* What validate.ts asks of the pays alone.
SolvedChecks(table) ==
    IF Roll = Exclusive THEN Sum(table) <= TOTAL
    ELSE \A i \in DOMAIN table : table[i] <= TOTAL

\* Of a table that is whole, or empty of weight, the factor of an exclusive card
\* is no more than 1, so no share grows however it rounds.
LEMMA SolvedExclusive ==
  ASSUME NEW n \in Nat, NEW table \in [1 .. n -> Nat], NEW gain \in Gains,
         Sum(table) \in {0, TOTAL}
  PROVE  LET solved == SolveOdds(table, Exclusive, gain)
         IN  /\ DOMAIN solved = 1 .. n
             /\ \A i \in 1 .. n : solved[i] \in Nat /\ solved[i] <= table[i]
<1> DEFINE solved == SolveOdds(table, Exclusive, gain)
           most == Sum(table)
           k == IF most * gain[1] > TOTAL * gain[2] THEN <<TOTAL, most>> ELSE gain
<1>1. DOMAIN table = 1 .. n /\ IsFiniteSet(1 .. n) /\ \A i \in 1 .. n : table[i] \in Nat
  BY TableFinite
<1>2. /\ TOTAL \in Nat /\ TOTAL > 0
      /\ gain[1] \in Nat /\ gain[2] \in Nat /\ gain[2] > 0
  BY TablesTyped
<1>3. solved = [i \in 1 .. n |-> Scaled(table[i], k[1], k[2])]
  BY <1>1 DEF SolveOdds
<1>4. most = SumOver(table, 1 .. n)
  BY <1>1, Zenon DEF Sum
<1>5. most = 0 => \A i \in 1 .. n : table[i] = 0
  <2> SUFFICES ASSUME most = 0, NEW i \in 1 .. n PROVE table[i] = 0
    OBVIOUS
  <2>1. table[i] <= most
    BY <1>1, <1>4, SumAtLeast
  <2> QED BY <1>1, <2>1
<1> HIDE DEF most
<1>6. most \in {0, TOTAL}
  BY DEF most
<1>7. /\ k[1] \in Nat /\ k[2] \in Nat /\ k[2] > 0
      /\ most = TOTAL => k[1] <= k[2]
  <2>1. CASE most = 0
    <3>1. TOTAL * gain[2] \in Nat /\ most * gain[1] = 0
      BY <1>2, <2>1
    <3>2. k = gain
      BY <3>1
    <3> QED BY <1>2, <2>1, <3>2
  <2>2. CASE most = TOTAL /\ TOTAL * gain[1] > TOTAL * gain[2]
    <3>1. k = <<TOTAL, TOTAL>>
      BY <2>2
    <3> QED BY <1>2, <3>1
  <2>3. CASE most = TOTAL /\ ~(TOTAL * gain[1] > TOTAL * gain[2])
    <3>1. k = gain
      BY <2>3
    <3>2. gain[1] <= gain[2]
      <4> SUFFICES ASSUME gain[1] >= gain[2] + 1 PROVE FALSE
        BY <1>2
      <4> DEFINE g == gain[1]
                 h == gain[2]
      <4>1. g \in Nat /\ h \in Nat /\ g >= h + 1
        BY <1>2
      <4> HIDE DEF g, h
      <4>2. TOTAL * (h + 1) <= TOTAL * g /\ TOTAL * (h + 1) = TOTAL * h + TOTAL
        BY <1>2, <4>1, ProductLeq
      <4>3. TOTAL * g \in Nat /\ TOTAL * h \in Nat
        BY <1>2, <4>1
      <4>4. ~(TOTAL * g > TOTAL * h)
        BY <2>3 DEF g, h
      <4> QED BY <1>2, <4>2, <4>3, <4>4
    <3> QED BY <1>2, <3>1, <3>2
  <2> QED BY <1>6, <2>1, <2>2, <2>3
<1> HIDE DEF k
<1>8. ASSUME NEW i \in 1 .. n
      PROVE  Scaled(table[i], k[1], k[2]) \in Nat /\ Scaled(table[i], k[1], k[2]) <= table[i]
  <2> DEFINE w == table[i]
             a == k[1]
             d == k[2]
  <2>1. w \in Nat /\ a \in Nat /\ d \in Nat /\ d > 0 /\ (w = 0 \/ a <= d)
    BY <1>1, <1>5, <1>6, <1>7
  <2> HIDE DEF w, a, d
  <2>2. w * a <= w * d
    <3>1. CASE w = 0
      BY <2>1, <3>1
    <3>2. CASE a <= d
      BY <2>1, <3>2, ProductLeq
    <3> QED BY <2>1, <3>1, <3>2
  <2>3. Scaled(w, a, d) \in Nat /\ Scaled(w, a, d) <= w
    BY <2>1, <2>2, ScaledWithin
  <2> QED BY <2>3 DEF w, a, d
<1> HIDE DEF solved
<1>9. DOMAIN solved = 1 .. n /\ \A i \in 1 .. n : solved[i] = Scaled(table[i], k[1], k[2])
  BY <1>3
<1>10. \A i \in 1 .. n : solved[i] \in Nat /\ solved[i] <= table[i]
  BY <1>8, <1>9
<1> QED BY <1>9, <1>10 DEF solved

\* Where each pay rolls by itself the largest is held at the ceiling, and the
\* others stay below it.
LEMMA SolvedApart ==
  ASSUME NEW n \in Nat, n >= 1, NEW table \in [1 .. n -> Nat], NEW gain \in Gains,
         NEW roll, roll # Exclusive
  PROVE  LET solved == SolveOdds(table, roll, gain)
         IN  /\ DOMAIN solved = 1 .. n
             /\ \A i \in 1 .. n : solved[i] <= TOTAL
<1> DEFINE solved == SolveOdds(table, roll, gain)
           most == Max({table[i] : i \in DOMAIN table})
           k == IF most * gain[1] > TOTAL * gain[2] THEN <<TOTAL, most>> ELSE gain
<1>1. DOMAIN table = 1 .. n /\ IsFiniteSet(1 .. n) /\ \A i \in 1 .. n : table[i] \in Nat
  BY TableFinite
<1>2. /\ TOTAL \in Nat /\ TOTAL > 0
      /\ gain[1] \in Nat /\ gain[2] \in Nat /\ gain[2] > 0
  BY TablesTyped
<1>3. solved = [i \in 1 .. n |-> Scaled(table[i], k[1], k[2])]
  BY <1>1 DEF SolveOdds
<1>4. most \in Nat /\ \A i \in 1 .. n : table[i] <= most
  <2> DEFINE T == {table[i] : i \in 1 .. n}
  <2>1. IsFiniteSet(T)
    BY <1>1, ImageSize
  <2>2. T \subseteq Nat /\ T # {} /\ \A i \in 1 .. n : table[i] \in T
    BY <1>1
  <2>3. most = Max(T)
    BY <1>1
  <2> HIDE DEF T, most
  <2>4. most \in Nat /\ \A m \in T : most >= m
    BY <2>1, <2>2, <2>3, MaxIsLargest
  <2> QED BY <2>2, <2>4
<1> HIDE DEF most
<1>5. /\ k[1] \in Nat /\ k[2] \in Nat /\ k[2] > 0
      /\ most * k[1] <= TOTAL * k[2]
  <2>1. CASE most * gain[1] > TOTAL * gain[2]
    <3>1. most # 0
      <4> SUFFICES ASSUME most = 0 PROVE FALSE
        OBVIOUS
      <4>1. TOTAL * gain[2] \in Nat /\ most * gain[1] = 0
        BY <1>2
      <4> QED BY <2>1, <4>1
    <3>2. k = <<TOTAL, most>>
      BY <2>1
    <3>3. most * TOTAL = TOTAL * most
      BY <1>2, <1>4
    <3> QED BY <1>2, <1>4, <3>1, <3>2, <3>3
  <2>2. CASE ~(most * gain[1] > TOTAL * gain[2])
    <3>1. k = gain
      BY <2>2
    <3>2. most * gain[1] \in Nat /\ TOTAL * gain[2] \in Nat
      BY <1>2, <1>4
    <3> QED BY <1>2, <2>2, <3>1, <3>2
  <2> QED BY <2>1, <2>2
<1> HIDE DEF k
<1>6. ASSUME NEW i \in 1 .. n
      PROVE  Scaled(table[i], k[1], k[2]) <= TOTAL
  <2> DEFINE w == table[i]
             a == k[1]
             d == k[2]
  <2>1. /\ w \in Nat /\ a \in Nat /\ d \in Nat /\ d > 0 /\ w <= most
        /\ most * a <= TOTAL * d
    BY <1>1, <1>4, <1>5
  <2> HIDE DEF w, a, d
  <2>2. w * a <= most * a /\ w * a \in Nat /\ most * a \in Nat /\ TOTAL * d \in Nat
    BY <1>2, <1>4, <2>1, ProductLeq
  <2>3. w * a <= TOTAL * d
    BY <2>1, <2>2
  <2>4. Scaled(w, a, d) <= TOTAL
    BY <1>2, <2>1, <2>3, ScaledWithin
  <2> QED BY <2>4 DEF w, a, d
<1> HIDE DEF solved
<1>7. DOMAIN solved = 1 .. n /\ \A i \in 1 .. n : solved[i] = Scaled(table[i], k[1], k[2])
  BY <1>3
<1>8. \A i \in 1 .. n : solved[i] <= TOTAL
  BY <1>6, <1>7
<1> QED BY <1>7, <1>8 DEF solved

\* The pays the solver makes of any curve pass.
LEMMA ShapeSolved ==
  ASSUME NEW shape \in Shapes, NEW gain \in Gains
  PROVE  SolvedChecks(SolveOdds(Normalize(shape, TOTAL), Roll, gain))
<1> DEFINE table == Normalize(shape, TOTAL)
           n == Len(shape)
           solved == SolveOdds(table, Roll, gain)
<1>1. /\ shape \in Seq(Nat) /\ n \in Nat /\ n >= 1 /\ TOTAL \in Nat
      /\ DOMAIN shape = 1 .. n /\ shape \in [1 .. n -> Nat]
  BY TablesTyped, TableFacts
<1>2. table \in Seq(Nat) /\ Len(table) = n
  BY <1>1, NormalizeType
<1>3. DOMAIN table = 1 .. n /\ table \in [1 .. n -> Nat] /\ \A i \in 1 .. n : table[i] \in Nat
  BY <1>2, TableFacts
<1>4. Sum(shape) \in Nat
  BY <1>1, TableFinite, SumNat DEF Sum
<1>5. Sum(table) \in {0, TOTAL}
  <2>1. CASE Sum(shape) = 0
    BY <2>1 DEF Normalize
  <2>2. CASE Sum(shape) > 0
    <3> HIDE DEF n
    <3>1. SumOver(Normalize(shape, TOTAL), 1 .. n) = TOTAL
      BY <1>1, <2>2, NormalizeExact
    <3>2. Sum(table) = TOTAL
      BY <1>3, <3>1, Zenon DEF Sum
    <3> QED BY <3>2
  <2> QED BY <1>4, <2>1, <2>2
<1> HIDE DEF table, n
<1>6. CASE Roll = Exclusive
  <2>1. DOMAIN solved = 1 .. n /\ \A i \in 1 .. n : solved[i] \in Nat /\ solved[i] <= table[i]
    BY <1>1, <1>3, <1>5, <1>6, SolvedExclusive
  <2> HIDE DEF solved
  <2>2. \A i \in 1 .. n : solved[i] \in Nat /\ table[i] \in Nat /\ solved[i] <= table[i]
    BY <1>3, <2>1
  <2>3. IsFiniteSet(1 .. n)
    BY <1>1, TableFinite
  <2>4. SumOver(solved, 1 .. n) <= SumOver(table, 1 .. n)
    BY <2>2, <2>3, SumLeq
  <2>5. Sum(solved) = SumOver(solved, 1 .. n) /\ Sum(table) = SumOver(table, 1 .. n)
    BY <1>3, <2>1, Zenon DEF Sum
  <2>6. SumOver(solved, 1 .. n) \in Nat
    BY <2>2, <2>3, SumNat
  <2>7. Sum(solved) <= TOTAL
    BY <1>1, <1>5, <2>4, <2>5, <2>6, TablesTyped
  <2> QED BY <1>6, <2>7 DEF SolvedChecks, solved, table
<1>7. CASE Roll # Exclusive
  <2>1. DOMAIN solved = 1 .. n /\ \A i \in 1 .. n : solved[i] <= TOTAL
    BY <1>1, <1>3, <1>7, SolvedApart
  <2> HIDE DEF solved
  <2>2. SolvedChecks(solved)
    BY <1>7, <2>1 DEF SolvedChecks
  <2> QED BY <2>2 DEF solved, table
<1> QED BY <1>6, <1>7

-----------------------------------------------------------------------------
(* Steps outside the waterfill *)

LEMMA InitIInv == Init => IInv
<1> SUFFICES ASSUME Init PROVE IInv
  OBVIOUS
<1>1. file \in [pool : Seq(Nat), pays : Seq(Nat)]
  <2>1. file \in [pool : Tables, pays : Tables]
    BY DEF Init, Written
  <2>2. Tables \subseteq Seq(Nat)
    BY TablesTyped
  <2> QED BY <2>1, <2>2
<1>2. /\ stage = "idle" /\ curve = <<>> /\ pinned = 0 /\ rest = <<>> /\ pass = 0
      /\ pays = <<>> /\ wrote = FALSE
  BY DEF Init
<1>3. TypeOK
  <2>1. curve \in Seq(Nat) /\ rest \in Seq(Nat) /\ pays \in Seq(Nat) /\ Len(curve) = 0
    BY <1>2
  <2>2. pinned \in 0 .. TOTAL /\ pass \in 0 .. Len(curve)
    BY <1>2, <2>1, TablesTyped
  <2>3. stage \in {"idle", "fill", "odds", "check"} /\ wrote \in BOOLEAN
    BY <1>2
  <2> QED BY <1>1, <2>1, <2>2, <2>3 DEF TypeOK
<1> QED BY <1>2, <1>3 DEF IInv, Rested, Curved, Shared, Settled, SolvedPasses

\* Pool and pays of the file, whoever last wrote it.
LEMMA FileTyped ==
  ASSUME IInv
  PROVE  file.pool \in Seq(Nat) /\ file.pays \in Seq(Nat)
BY DEF IInv, TypeOK

LEMMA BalanceKeeps ==
  ASSUME IInv, NEW gain \in Gains, Balance(gain)
  PROVE  IInv'
<1>1. /\ stage = "idle" /\ wrote' = FALSE
      /\ stage' = stage /\ curve' = curve /\ pinned' = pinned /\ rest' = rest
      /\ pass' = pass /\ pays' = pays
      /\ file \in [pool : Tables, pays : Tables]
      /\ file' = [file EXCEPT !.pays = SolveOdds(file.pays, Roll, gain)]
  BY DEF Balance, Written
<1>2. SolveOdds(file.pays, Roll, gain) \in Seq(Nat)
  <2>1. file.pays \in Tables
    BY <1>1
  <2> QED BY <2>1, TablesTyped, SolveOddsType
<1>3. file' \in [pool : Seq(Nat), pays : Seq(Nat)]
  BY <1>1, <1>2 DEF IInv, TypeOK
<1>4. TypeOK'
  BY <1>1, <1>3 DEF IInv, TypeOK
<1>5. Rested' /\ SolvedPasses'
  BY <1>1 DEF IInv, Rested, SolvedPasses
<1>6. Curved' /\ Shared' /\ Settled'
  BY <1>1 DEF IInv, Rested, Curved, Shared, Settled
<1> QED BY <1>4, <1>5, <1>6 DEF IInv

LEMMA EditKeeps ==
  ASSUME IInv, NEW pool \in Tables, NEW table \in Tables, Edit(pool, table)
  PROVE  IInv'
<1>1. /\ stage = "idle" /\ wrote' = FALSE
      /\ stage' = stage /\ curve' = curve /\ pinned' = pinned /\ rest' = rest
      /\ pass' = pass /\ pays' = pays
      /\ file' = [pool |-> pool, pays |-> table]
  BY DEF Edit
<1>2. file' \in [pool : Seq(Nat), pays : Seq(Nat)]
  BY <1>1, TablesTyped
<1>3. TypeOK'
  BY <1>1, <1>2 DEF IInv, TypeOK
<1>4. Rested' /\ SolvedPasses'
  BY <1>1 DEF IInv, Rested, SolvedPasses
<1>5. Curved' /\ Shared' /\ Settled'
  BY <1>1 DEF IInv, Rested, Curved, Shared, Settled
<1> QED BY <1>3, <1>4, <1>5 DEF IInv

LEMMA UnpricedKeeps ==
  ASSUME IInv, Unpriced
  PROVE  IInv'
<1>1. /\ stage = "idle" /\ wrote = FALSE /\ stage' = "check"
      /\ file' = file /\ pass' = pass /\ pays' = pays /\ wrote' = wrote
      /\ pinned' = 0 /\ curve' = <<>> /\ rest' = file.pool
  BY DEF Unpriced, Start, IInv, TypeOK
<1>2. pass = 0
  BY <1>1 DEF IInv, Rested
<1>3. TypeOK'
  BY <1>1, <1>2, FileTyped, TablesTyped DEF IInv, TypeOK
<1> QED BY <1>1, <1>3 DEF IInv, Rested, Curved, Shared, Settled, SolvedPasses

LEMMA OnTheCurveKeeps ==
  ASSUME IInv, NEW c \in Curves, OnTheCurve(c)
  PROVE  IInv'
<1>1. /\ stage = "idle" /\ wrote = FALSE /\ stage' = "odds"
      /\ file' = file /\ pass' = pass /\ pays' = pays /\ wrote' = wrote
      /\ curve' = c /\ pinned' = 0 /\ rest' = Normalize(c, TOTAL)
  BY DEF OnTheCurve, Start, IInv, TypeOK
<1>2. pass = 0
  BY <1>1 DEF IInv, Rested
<1>3. c \in Seq(Nat) /\ Len(c) \in Nat /\ rest' \in Seq(Nat)
  BY <1>1, CurveFacts, NormalizeType, TablesTyped
<1>4. TypeOK'
  BY <1>1, <1>2, <1>3, TablesTyped DEF IInv, TypeOK
<1> QED BY <1>1, <1>4 DEF IInv, Rested, Curved, Shared, Settled, SolvedPasses

\* The pool less the pinned token, from the curve less its dearest.
LEMMA PinKeeps ==
  ASSUME IInv, NEW c \in Curves, NEW share \in Pins, Pin(c, share)
  PROVE  IInv'
<1> DEFINE n == Len(c)
           others == SubSeq(c, 1, n - 1)
           p == Max({1, Min({TOTAL \div n, share})})
<1>1. /\ stage = "idle" /\ wrote = FALSE /\ stage' = "fill" /\ n > 1
      /\ file' = file /\ pass' = pass /\ pays' = pays /\ wrote' = wrote
      /\ curve' = c /\ pinned' = p /\ rest' = Normalize(others, TOTAL - p)
  BY DEF Pin, Start, IInv, TypeOK
<1>2. pass = 0
  BY <1>1 DEF IInv, Rested
<1>3. p \in Nat /\ p > 0 /\ p <= TOTAL /\ p * n <= TOTAL /\ TOTAL \in Nat
  BY PinBounds, TablesTyped
<1>4. c \in Seq(Nat) /\ n \in Nat /\ \A i \in 1 .. n : c[i] > 0 /\ c[i] \in Nat
  BY CurveFacts, TableFacts
<1> HIDE DEF p
<1>5. /\ n - 1 \in Nat /\ 1 \in 1 .. n - 1
      /\ others \in Seq(Nat) /\ Len(others) = n - 1 /\ others \in [1 .. n - 1 -> Nat]
      /\ others[1] > 0
  <2> DEFINE k == n - 1
  <2>1. k \in Nat /\ 1 \in 1 .. k /\ \A i \in 1 .. k : i \in 1 .. n
    BY <1>1, <1>4
  <2>2. others = [i \in 1 .. k |-> c[i]]
    BY <1>1, <1>4
  <2>3. others \in [1 .. k -> Nat] /\ others[1] > 0
    BY <1>4, <2>1, <2>2
  <2> HIDE DEF k, others
  <2>4. others \in Seq(Nat) /\ Len(others) = k
    BY <2>1, <2>3, TableOf
  <2> QED BY <2>1, <2>3, <2>4 DEF k
<1> HIDE DEF others
<1>6. Sum(others) > 0
  <2> DEFINE k == n - 1
  <2>1. k \in Nat /\ 1 \in 1 .. k /\ others \in [1 .. k -> Nat] /\ others[1] > 0
    BY <1>5
  <2> HIDE DEF k
  <2> QED BY <2>1, SumPositive
<1>7. TOTAL - p \in Nat
  BY <1>3
<1>8. rest' \in Seq(Nat) /\ Len(rest') = n - 1
  BY <1>1, <1>5, <1>7, NormalizeType
<1>9. SumOver(rest', DOMAIN rest') = TOTAL - p
  <2> DEFINE k == n - 1
             left == TOTAL - p
  <2>1. k \in Nat /\ others \in [1 .. k -> Nat] /\ left \in Nat
    BY <1>5, <1>7
  <2>2. DOMAIN rest' = 1 .. k
    BY <1>8
  <2> HIDE DEF k, left
  <2>3. SumOver(Normalize(others, left), 1 .. k) = left
    BY <1>6, <2>1, NormalizeExact
  <2>4. rest' = Normalize(others, left)
    BY <1>1 DEF left
  <2>5. SumOver(rest', DOMAIN rest') = left
    BY <2>2, <2>3, <2>4, Zenon
  <2> QED BY <2>5 DEF left
<1> HIDE DEF n
<1>10. TypeOK'
  BY <1>1, <1>2, <1>3, <1>4, <1>8 DEF IInv, TypeOK, n
<1>11. Shared'
  <2>1. Len(curve') = n /\ n > 1 /\ Len(rest') + 1 = n
    BY <1>1, <1>4, <1>8 DEF n
  <2>2. pinned' * Len(curve') <= TOTAL
    BY <1>1, <1>3, <2>1
  <2>3. SumOver(rest', DOMAIN rest') = TOTAL - pinned'
    BY <1>1, <1>9
  <2> QED BY <2>1, <2>2, <2>3 DEF Shared
<1>12. Rested' /\ Curved' /\ Settled' /\ SolvedPasses'
  BY <1>1, <1>2, <1>3 DEF Rested, Curved, Settled, SolvedPasses
<1> QED BY <1>10, <1>11, <1>12 DEF IInv

\* While the pool is made it is whole: on its curve normalize is exact, and
\* under a pin the others share all that the top leaves.
LEMMA PoolWhole ==
  ASSUME IInv, stage \in {"fill", "odds"}
  PROVE  Sum(Pool) = TOTAL
<1>1. TOTAL \in Nat /\ rest \in Seq(Nat) /\ pinned \in Nat
  BY TablesTyped DEF IInv, TypeOK
<1>2. CASE pinned = 0
  <2>1. stage = "odds" /\ curve \in Curves /\ rest = Normalize(curve, TOTAL)
    BY <1>2 DEF IInv, Curved
  <2> DEFINE n == Len(curve)
  <2>2. n \in Nat /\ 1 \in 1 .. n /\ curve \in [1 .. n -> Nat] /\ curve[1] > 0
    BY <2>1, CurveFacts
  <2>3. DOMAIN rest = 1 .. n
    BY <2>1, <1>1, CurveFacts, NormalizeType, TableFacts
  <2> HIDE DEF n
  <2>4. SumOver(Normalize(curve, TOTAL), 1 .. n) = TOTAL
    BY <1>1, <2>2, SumPositive, NormalizeExact
  <2>5. Sum(rest) = TOTAL
    BY <2>1, <2>3, <2>4, Zenon DEF Sum
  <2> QED BY <1>2, <2>5 DEF Pool
<1>3. CASE pinned > 0
  <2> DEFINE n == Len(rest)
  <2>1. n \in Nat /\ DOMAIN rest = 1 .. n /\ \A i \in 1 .. n : rest[i] \in Nat
    BY <1>1, TableFacts
  <2>2. SumOver(rest, DOMAIN rest) = TOTAL - pinned
    BY <1>3 DEF IInv, Shared
  <2>3. Pool = Append(rest, pinned)
    BY <1>3 DEF Pool
  <2>4. /\ DOMAIN Append(rest, pinned) = 1 .. n + 1 /\ Append(rest, pinned)[n + 1] = pinned
        /\ \A i \in 1 .. n : Append(rest, pinned)[i] = rest[i]
    BY <1>1
  <2> DEFINE P == Append(rest, pinned)
  <2> HIDE DEF n, P
  <2>5. IsFiniteSet(1 .. n) /\ n + 1 \notin 1 .. n /\ 1 .. n + 1 = (1 .. n) \cup {n + 1}
    BY <2>1, TableFinite
  <2>6. DOMAIN P = 1 .. n + 1 /\ P[n + 1] = pinned /\ \A i \in 1 .. n : P[i] = rest[i]
    BY <2>4 DEF P
  <2>7. \A i \in (1 .. n) \cup {n + 1} : P[i] \in Nat
    BY <1>1, <2>1, <2>6
  <2>8. SumOver(P, (1 .. n) \cup {n + 1}) = P[n + 1] + SumOver(P, 1 .. n)
    BY <2>5, <2>7, SumAdd
  <2>9. SumOver(P, 1 .. n) = SumOver(rest, 1 .. n)
    BY <2>5, <2>6, SumSame
  <2>10. SumOver(rest, 1 .. n) = TOTAL - pinned
    BY <2>1, <2>2, Zenon
  <2>11. SumOver(P, (1 .. n) \cup {n + 1}) = TOTAL
    BY <1>1, <2>6, <2>8, <2>9, <2>10
  <2>12. Sum(P) = TOTAL
    BY <2>5, <2>6, <2>11, Zenon DEF Sum
  <2> QED BY <2>3, <2>12 DEF P
<1> QED BY <1>1, <1>2, <1>3

LEMMA OddsKeeps ==
  ASSUME IInv, NEW shape \in Shapes, NEW gain \in Gains, Odds(shape, Roll, gain)
  PROVE  IInv'
<1>1. /\ stage = "odds" /\ stage' = "check"
      /\ file' = file /\ curve' = curve /\ pinned' = pinned /\ rest' = rest
      /\ pass' = pass /\ wrote' = wrote
      /\ pays' = SolveOdds(Normalize(shape, TOTAL), Roll, gain)
  BY DEF Odds
<1>2. Normalize(shape, TOTAL) \in Seq(Nat) /\ Len(Normalize(shape, TOTAL)) > 0
  BY NormalizeType, TablesTyped
<1>3. pays' \in Seq(Nat)
  BY <1>1, <1>2, SolveOddsType
<1>4. TypeOK'
  BY <1>1, <1>3 DEF IInv, TypeOK
<1>5. SolvedPasses'
  <2>1. Sum(Pool) = TOTAL /\ Pool' = Pool
    BY <1>1, PoolWhole DEF Pool
  <2>2. SolvedChecks(pays')
    BY <1>1, ShapeSolved
  <2> QED BY <2>1, <2>2, Zenon DEF SolvedPasses, Checks, SolvedChecks
<1> QED BY <1>1, <1>4, <1>5 DEF IInv, Rested, Curved, Shared, Settled

LEMMA FillEndsKeeps ==
  ASSUME IInv, FillEnds
  PROVE  IInv'
<1>1. /\ stage = "fill" /\ ~(pass < Len(curve) /\ Low # {}) /\ stage' = "odds"
      /\ file' = file /\ curve' = curve /\ pinned' = pinned /\ rest' = rest
      /\ pass' = pass /\ pays' = pays /\ wrote' = wrote
  BY DEF FillEnds, MorePasses
<1>2. pinned > 0 /\ curve \in Curves /\ Len(curve) > 1
  BY <1>1 DEF IInv, Curved, Shared
<1>3. TypeOK'
  BY <1>1 DEF IInv, TypeOK
<1>4. SolvedPasses'
  BY <1>1 DEF IInv, SolvedPasses
<1>5. Shared'
  BY <1>1, <1>2 DEF IInv, Shared
<1>6. Rested' /\ Curved'
  BY <1>1, <1>2 DEF Rested, Curved
<1>7. Len(curve) \in Nat /\ pass \in Nat
  BY <1>2, CurveFacts DEF IInv, TypeOK
<1>8. Len(curve) <= 3 => Low = {}
  BY <1>1, <1>2, <1>7 DEF IInv, Settled
<1>9. Low' = Low
  BY <1>1 DEF Low
<1>10. Settled'
  BY <1>1, <1>8, <1>9 DEF Settled
<1> QED BY <1>3, <1>4, <1>5, <1>6, <1>10 DEF IInv

LEMMA ApplyKeeps ==
  ASSUME IInv, Apply(Roll)
  PROVE  IInv'
<1>1. /\ stage' = "idle"
      /\ wrote' = Checks(Pool, Solved, Roll)
      /\ file' = IF wrote' THEN [pool |-> Pool, pays |-> Solved] ELSE file
      /\ curve' = <<>> /\ pinned' = 0 /\ rest' = <<>> /\ pass' = 0 /\ pays' = <<>>
  BY DEF Apply
<1>2. Pool \in Seq(Nat) /\ Solved \in Seq(Nat)
  <2>1. rest \in Seq(Nat) /\ pays \in Seq(Nat) /\ pinned \in Nat
    BY TablesTyped DEF IInv, TypeOK
  <2> QED BY <2>1, FileTyped DEF Pool, Solved
<1>3. file' \in [pool : Seq(Nat), pays : Seq(Nat)]
  <2>1. file \in [pool : Seq(Nat), pays : Seq(Nat)]
    BY DEF IInv, TypeOK
  <2> QED BY <1>1, <1>2, <2>1
<1>4. wrote' \in BOOLEAN
  BY <1>1 DEF Checks
<1>5. TypeOK'
  BY <1>1, <1>3, <1>4, TablesTyped DEF TypeOK
<1>6. SolvedPasses'
  BY <1>1 DEF SolvedPasses
<1>7. Rested' /\ Curved' /\ Shared' /\ Settled'
  BY <1>1 DEF Rested, Curved, Shared, Settled
<1> QED BY <1>5, <1>6, <1>7 DEF IInv

-----------------------------------------------------------------------------
(* A pass of the waterfill *)

\* What a pass starts from: n tokens below the top, some of them under the pin
\* and never all, so that those above have room for more than the pin each.
LEMMA PassRoom ==
  ASSUME IInv, Fill
  PROVE  LET n == Len(rest)
             l == Cardinality(Low)
             h == Cardinality((1 .. n) \ Low)
         IN /\ n \in Nat /\ n >= 1 /\ rest \in [1 .. n -> Nat] /\ DOMAIN rest = 1 .. n
            /\ Len(curve) = n + 1 /\ pinned \in Nat /\ pinned > 0
            /\ pinned * (n + 1) <= TOTAL
            /\ SumOver(rest, 1 .. n) = TOTAL - pinned
            /\ Low \in SUBSET (1 .. n) /\ IsFiniteSet(Low) /\ Low # {}
            /\ l \in Nat /\ l >= 1 /\ h \in Nat /\ h >= 1 /\ l + h = n
            /\ IsFiniteSet((1 .. n) \ Low)
            /\ Flood(Low) \in Nat /\ Flood(Low) >= pinned * h /\ Flood(Low) >= h
            /\ Flood(Low) = TOTAL - pinned - l * pinned
<1> DEFINE n == Len(rest)
           High == (1 .. n) \ Low
           l == Cardinality(Low)
           h == Cardinality(High)
<1>1. stage = "fill" /\ Low # {} /\ pinned > 0 /\ pinned \in Nat /\ TOTAL \in Nat
  BY TablesTyped DEF Fill, MorePasses, IInv, TypeOK, Curved
<1>2. rest \in Seq(Nat)
  BY DEF IInv, TypeOK
<1>3. n \in Nat /\ rest \in [1 .. n -> Nat] /\ DOMAIN rest = 1 .. n
      /\ \A i \in 1 .. n : rest[i] \in Nat
  BY <1>2, TableFacts
<1>4. /\ Len(curve) > 1 /\ n + 1 = Len(curve) /\ pinned * Len(curve) <= TOTAL
      /\ SumOver(rest, DOMAIN rest) = TOTAL - pinned
  BY <1>1 DEF IInv, Shared
<1> HIDE DEF n
<1>5. n >= 1 /\ Len(curve) = n + 1 /\ pinned * (n + 1) <= TOTAL
  BY <1>3, <1>4
<1>6. SumOver(rest, 1 .. n) = TOTAL - pinned
  BY <1>3, <1>4, Zenon
<1>7. IsFiniteSet(1 .. n) /\ Cardinality(1 .. n) = n
  BY <1>3, TableFinite
<1>8. Low \in SUBSET (1 .. n) /\ Low = {i \in 1 .. n : rest[i] < pinned}
  BY <1>3 DEF Low
<1>9. IsFiniteSet(Low) /\ IsFiniteSet(High) /\ l \in Nat /\ h \in Nat
  BY <1>7, <1>8, FS_Subset, FS_CardinalityType
<1>10. l + h = n
  <2>1. Low \cup High = 1 .. n /\ Low \cap High = {}
    BY <1>8
  <2>2. Cardinality(Low \cup High) = l + h - Cardinality(Low \cap High)
    BY <1>9, FS_Union
  <2>3. Cardinality(Low \cap High) = 0
    BY <2>1, FS_EmptySet
  <2> HIDE DEF l, h, High
  <2>4. Cardinality(Low \cup High) = n
    BY <1>7, <2>1, Zenon
  <2> QED BY <1>9, <2>2, <2>3, <2>4
<1>11. l >= 1
  <2>1. l # 0
    BY <1>1, <1>9, FS_EmptySet
  <2> QED BY <1>9, <2>1
<1>12. SumOver(rest, Low) <= (pinned - 1) * l
  <2> DEFINE top == [i \in 1 .. n |-> pinned - 1]
  <2>1. pinned - 1 \in Nat /\ \A i \in Low : top[i] = pinned - 1
    BY <1>1, <1>8
  <2>2. \A i \in Low : rest[i] \in Nat /\ top[i] \in Nat /\ rest[i] <= top[i]
    BY <1>1, <1>3, <1>8
  <2> HIDE DEF top
  <2>3. SumOver(rest, Low) <= SumOver(top, Low)
    BY <1>9, <2>2, SumLeq
  <2>4. SumOver(top, Low) = (pinned - 1) * l
    BY <1>9, <2>1, SumConstant
  <2> QED BY <2>3, <2>4
<1>13. h >= 1
  <2> SUFFICES ASSUME h = 0 PROVE FALSE
    BY <1>9
  <2>1. Low = 1 .. n
    <3>1. High = {}
      BY <1>9, FS_EmptySet
    <3> QED BY <1>8, <3>1
  <2>2. SumOver(rest, 1 .. n) <= (pinned - 1) * n
    <3> HIDE DEF l, h, High
    <3>1. l = n
      BY <1>9, <1>10
    <3> QED BY <1>12, <2>1, <3>1, Zenon
  <2>3. TOTAL - pinned <= (pinned - 1) * n
    BY <1>6, <2>2
  <2>4. (pinned - 1) * n = pinned * n - n /\ pinned * (n + 1) = pinned * n + pinned
    BY <1>1, <1>3
  <2> DEFINE u == pinned * n
  <2>5. u \in Nat /\ TOTAL - pinned <= u - n /\ u + pinned <= TOTAL
    BY <1>1, <1>3, <1>5, <2>3, <2>4
  <2> HIDE DEF u
  <2> QED BY <1>1, <1>3, <1>5, <2>5
<1>14. Flood(Low) = TOTAL - pinned - l * pinned
  BY DEF Flood
<1> HIDE DEF l, h, High
<1>15. pinned * h + pinned * l + pinned <= TOTAL /\ l * pinned = pinned * l
       /\ pinned * h \in Nat /\ pinned * l \in Nat
  <2>1. pinned * (n + 1) = pinned * h + pinned * l + pinned
    <3>1. n + 1 = h + l + 1
      BY <1>9, <1>10
    <3>2. pinned * (h + l + 1) = pinned * h + pinned * l + pinned
      BY <1>1, <1>9
    <3> QED BY <3>1, <3>2
  <2> QED BY <1>1, <1>5, <1>9, <2>1
<1>16. pinned * h >= h
  <2>1. 1 * h <= pinned * h
    BY <1>1, <1>9, ProductLeq
  <2> QED BY <1>9, <2>1
<1>17. Flood(Low) \in Nat /\ Flood(Low) >= pinned * h /\ Flood(Low) >= h
  <2> DEFINE u == pinned * h
             v == pinned * l
  <2>1. u \in Nat /\ v \in Nat /\ u + v + pinned <= TOTAL /\ u >= h
        /\ Flood(Low) = TOTAL - pinned - v
    BY <1>14, <1>15, <1>16
  <2> HIDE DEF u, v
  <2>2. Flood(Low) \in Nat /\ Flood(Low) >= u /\ Flood(Low) >= h
    BY <1>1, <1>9, <2>1
  <2> QED BY <2>2 DEF u
<1> QED BY <1>1, <1>3, <1>5, <1>6, <1>8, <1>9, <1>10, <1>11, <1>13, <1>14, <1>17 DEF n, l, h, High

\* A pass leaves whole weights, as many units as it found, and the pin for
\* every token that was below it.
LEMMA PassKeepsSum ==
  ASSUME IInv, Fill
  PROVE  LET n == Len(rest)
         IN /\ stage' = "fill" /\ rest' \in [1 .. n -> Nat]
            /\ \A i \in Low : rest'[i] = pinned
            /\ SumOver(rest', (1 .. n) \ Low) = Flood(Low)
            /\ SumOver(rest', 1 .. n) = TOTAL - pinned
<1> DEFINE n == Len(rest)
           High == (1 .. n) \ Low
           l == Cardinality(Low)
           h == Cardinality(High)
           room == Max({Cardinality(DOMAIN rest \ Low), Flood(Low)})
           free == [i \in DOMAIN rest |-> IF i \in Low THEN 0 ELSE rest[i]]
           redone == Normalize(free, room)
<1>1. /\ n \in Nat /\ rest \in [1 .. n -> Nat] /\ DOMAIN rest = 1 .. n
      /\ pinned \in Nat /\ pinned > 0 /\ Low \in SUBSET (1 .. n)
      /\ l \in Nat /\ h \in Nat /\ h >= 1
      /\ IsFiniteSet(Low) /\ IsFiniteSet(High)
  BY PassRoom
<1>2. Flood(Low) \in Nat /\ Flood(Low) >= h /\ Flood(Low) = TOTAL - pinned - l * pinned
  BY PassRoom
<1> HIDE DEF n
<1>3. room = Flood(Low)
  <2> DEFINE T == {h} \cup {Flood(Low)}
  <2>1. IsFiniteSet(T) /\ T # {} /\ T \subseteq Nat
    BY <1>1, <1>2, FS_Singleton, FS_Union
  <2>2. Max(T) \in T /\ \A k \in T : Max(T) >= k
    BY <2>1, MaxIsLargest
  <2>3. room = Max(T)
    BY <1>1
  <2>4. Max(T) \in {h, Flood(Low)} /\ Max(T) >= Flood(Low)
    BY <2>2
  <2> HIDE DEF T, room, h
  <2> QED BY <1>1, <1>2, <2>3, <2>4
<1>4. Low # DOMAIN rest
  <2> SUFFICES ASSUME Low = DOMAIN rest PROVE FALSE
    OBVIOUS
  <2>1. High = {}
    BY <1>1
  <2> QED BY <1>1, <2>1, FS_EmptySet
<1>5. /\ stage' = stage /\ stage = "fill"
      /\ rest' = [i \in 1 .. n |-> IF i \in Low THEN pinned ELSE redone[i]]
  BY <1>1, <1>4 DEF Fill
<1>6. PICK e \in High : TRUE
  <2>1. High # {}
    BY <1>1, FS_EmptySet
  <2> QED BY <2>1
<1>7. free \in [1 .. n -> Nat] /\ free[e] > 0 /\ e \in 1 .. n
  <2>1. e \in 1 .. n /\ ~(rest[e] < pinned) /\ rest[e] \in Nat
    BY <1>1, <1>6 DEF Low
  <2>2. free[e] = rest[e]
    BY <1>1, <1>6
  <2> QED BY <1>1, <2>1, <2>2
<1>8. \A i \in Low : i \in 1 .. n /\ free[i] = 0
  BY <1>1
<1> HIDE DEF free, room, High
<1>9. room \in Nat /\ Sum(free) > 0
  BY <1>1, <1>2, <1>3, <1>7, SumPositive
<1>10. free \in Seq(Nat) /\ Len(free) = n
  BY <1>1, <1>7, TableOf
<1>11. redone \in [1 .. n -> Nat]
  <2>1. redone \in Seq(Nat) /\ Len(redone) = n
    BY <1>9, <1>10, NormalizeType
  <2> HIDE DEF redone
  <2> QED BY <2>1, TableFacts
<1>12. SumOver(redone, 1 .. n) = room
  BY <1>1, <1>7, <1>9, NormalizeExact
<1>13. \A i \in Low : redone[i] = 0
  BY <1>1, <1>7, <1>8, <1>9, NormalizeNothing
<1> HIDE DEF redone
<1>14. IsFiniteSet(1 .. n) /\ High = (1 .. n) \ Low
  BY <1>1, TableFinite DEF High
<1>15. SumOver(redone, 1 .. n) = SumOver(redone, High)
  <2>1. High \in SUBSET (1 .. n) /\ \A i \in (1 .. n) \ High : redone[i] = 0
    BY <1>1, <1>13, <1>14
  <2>2. \A i \in 1 .. n : redone[i] \in Nat
    BY <1>11
  <2> QED BY <1>14, <2>1, <2>2, SumOfPart
<1>16. SumOver(rest', High) = SumOver(redone, High)
  <2>1. \A i \in High : rest'[i] = redone[i]
    BY <1>5, <1>14
  <2> QED BY <1>1, <2>1, SumSame
<1>17. SumOver(rest', High) = Flood(Low)
  BY <1>3, <1>12, <1>15, <1>16
<1>18. rest' \in [1 .. n -> Nat] /\ \A i \in Low : rest'[i] = pinned
  BY <1>1, <1>5, <1>11
<1>19. SumOver(rest', Low) = pinned * l
  <2>1. \A i \in Low : rest'[i] = pinned
    BY <1>18
  <2> QED BY <1>1, <2>1, SumConstant
<1>20. SumOver(rest', 1 .. n) = SumOver(rest', Low) + SumOver(rest', High)
  <2>1. Low \cup High = 1 .. n /\ Low \cap High = {}
    BY <1>1, <1>14
  <2>2. \A i \in Low \cup High : rest'[i] \in Nat
    BY <1>18, <2>1
  <2>3. SumOver(rest', Low \cup High) = SumOver(rest', Low) + SumOver(rest', High)
    BY <1>1, <2>1, <2>2, SumUnion
  <2> QED BY <2>1, <2>3, Zenon
<1>21. SumOver(rest', 1 .. n) = TOTAL - pinned
  <2> DEFINE u == pinned * l
  <2>1. l * pinned = u /\ u \in Nat
    BY <1>1
  <2> HIDE DEF u
  <2> QED BY <1>1, <1>2, <1>17, <1>19, <1>20, <2>1, TablesTyped DEF u
<1>22. SumOver(rest', (1 .. n) \ Low) = Flood(Low)
  BY <1>14, <1>17, Zenon
<1> QED BY <1>5, <1>18, <1>21, <1>22 DEF n

LEMMA FillKeeps ==
  ASSUME IInv, Fill
  PROVE  IInv'
<1> DEFINE n == Len(rest)
           High == (1 .. n) \ Low
<1>1. /\ n \in Nat /\ n >= 1 /\ DOMAIN rest = 1 .. n /\ Len(curve) = n + 1
      /\ pinned \in Nat /\ pinned > 0 /\ pinned * (n + 1) <= TOTAL
      /\ Low \in SUBSET (1 .. n)
  BY PassRoom
<1>2. /\ Cardinality(Low) \in Nat /\ Cardinality(Low) >= 1 /\ Cardinality(High) \in Nat
      /\ Cardinality(High) >= 1 /\ Cardinality(Low) + Cardinality(High) = n
      /\ IsFiniteSet(High) /\ Flood(Low) \in Nat /\ Flood(Low) >= pinned * Cardinality(High)
  BY PassRoom
<1>3. /\ stage' = "fill" /\ rest' \in [1 .. n -> Nat] /\ \A i \in Low : rest'[i] = pinned
      /\ SumOver(rest', High) = Flood(Low) /\ SumOver(rest', 1 .. n) = TOTAL - pinned
  BY PassKeepsSum
<1>4. /\ stage = "fill" /\ pass' = pass + 1 /\ pass < Len(curve) /\ Low # {}
      /\ file' = file /\ curve' = curve /\ pinned' = pinned /\ pays' = pays /\ wrote' = wrote
  BY DEF Fill, MorePasses
<1> HIDE DEF n
<1>5. rest' \in Seq(Nat) /\ Len(rest') = n /\ DOMAIN rest' = 1 .. n
  BY <1>1, <1>3, TableOf
<1>6. TypeOK'
  <2>1. pass' \in 0 .. Len(curve')
    BY <1>1, <1>4 DEF IInv, TypeOK
  <2> QED BY <1>3, <1>4, <1>5, <2>1 DEF IInv, TypeOK
<1>7. Shared'
  <2>1. Len(rest') + 1 = Len(curve') /\ Len(curve') > 1
    BY <1>1, <1>4, <1>5
  <2>2. pinned' * Len(curve') <= TOTAL
    BY <1>1, <1>4
  <2>3. SumOver(rest', DOMAIN rest') = TOTAL - pinned'
    BY <1>3, <1>4, <1>5
  <2> QED BY <2>1, <2>2, <2>3 DEF Shared
<1>8. Rested' /\ Curved' /\ SolvedPasses'
  BY <1>1, <1>3, <1>4 DEF IInv, Rested, Curved, SolvedPasses
<1>9. Settled'
  <2> SUFFICES ASSUME Len(curve) <= 3 PROVE Low' = {}
    BY <1>4 DEF Settled
  <2>1. Cardinality(High) = 1
    <3> HIDE DEF High
    <3> QED BY <1>1, <1>2
  <2>2. PICK e : High = {e}
    BY <1>2, <2>1, FS_Singleton
  <2>3. e \in 1 .. n /\ rest'[e] \in Nat
    BY <1>3, <2>2
  <2>4. rest'[e] = Flood(Low)
    <3>1. SumOver(rest', {e}) = rest'[e]
      BY <2>3, SumOne
    <3> QED BY <1>3, <2>2, <3>1, Zenon
  <2>5. rest'[e] >= pinned
    BY <1>1, <1>2, <2>1, <2>4
  <2>6. ASSUME NEW i \in 1 .. n
        PROVE  ~(rest'[i] < pinned)
    <3>1. CASE i \in Low
      BY <1>1, <1>3, <3>1
    <3>2. CASE i \notin Low
      <4>1. i = e
        BY <2>2, <3>2
      <4> QED BY <1>1, <2>3, <2>5, <4>1
    <3> QED BY <3>1, <3>2
  <2> QED BY <1>4, <1>5, <2>6 DEF Low
<1> QED BY <1>6, <1>7, <1>8, <1>9 DEF IInv

LEMMA NextIInv == ASSUME IInv, [Next]_vars PROVE IInv'
<1>1. CASE UNCHANGED vars
  <2>1. TypeOK' /\ Rested' /\ Curved' /\ Shared' /\ Settled'
    BY <1>1 DEF vars, IInv, TypeOK, Rested, Curved, Shared, Settled, Low
  <2>2. stage' = stage /\ pays' = pays /\ Pool' = Pool
    BY <1>1 DEF vars, Pool
  <2>3. SolvedPasses'
    BY <2>2 DEF IInv, SolvedPasses, Checks
  <2> QED BY <2>1, <2>3 DEF IInv
<1>2. CASE \E gain \in Gains : Balance(gain)
  BY <1>2, BalanceKeeps
<1>3. CASE \E c \in Curves : OnTheCurve(c)
  BY <1>3, OnTheCurveKeeps
<1>4. CASE \E c \in Curves, share \in Pins : Pin(c, share)
  BY <1>4, PinKeeps
<1>5. CASE Unpriced
  BY <1>5, UnpricedKeeps
<1>6. CASE Fill
  BY <1>6, FillKeeps
<1>7. CASE FillEnds
  BY <1>7, FillEndsKeeps
<1>8. CASE \E shape \in Shapes, gain \in Gains : Odds(shape, Roll, gain)
  BY <1>8, OddsKeeps
<1>9. CASE Apply(Roll)
  BY <1>9, ApplyKeeps
<1>10. CASE \E pool, table \in Tables : Edit(pool, table)
  BY <1>10, EditKeeps
<1> QED BY <1>1, <1>2, <1>3, <1>4, <1>5, <1>6, <1>7, <1>8, <1>9, <1>10 DEF Next

\* The invariant holds of every state of the tool.
THEOREM IInvAlways == Spec => []IInv
<1>1. Init => IInv
  BY InitIInv
<1>2. IInv /\ [Next]_vars => IInv'
  BY NextIInv
<1> QED BY <1>1, <1>2, PTL DEF Spec

-----------------------------------------------------------------------------
(* What a run promises *)

\* Types, for sheets of any size: whatever is rounded, flooded or scaled stays a
\* table of whole weights, and the passes end (types.ts:197-210, solve.ts:94-117,
\* 285-298).
THEOREM TypesAlways == Spec => []TypeOK
<1>1. IInv => TypeOK
  BY DEF IInv
<1> QED BY <1>1, IInvAlways, PTL

\* Not a unit of 2^32 is lost or dealt twice, through any number of passes and
\* for pools of any size (types.ts:204, solve.ts:285-298).
THEOREM PoolExactAlways == Spec => []PoolExact
<1>1. IInv => PoolExact
  BY PoolWhole DEF PoolExact
<1> QED BY <1>1, IInvAlways, PTL

\* Rounding never makes a dearer token likelier than a cheaper one, in a pool of
\* any size, and under a pin no cheaper prize of up to three ends up rarer than
\* the top (types.ts:197-210, solve.ts:279-296).
THEOREM CurveKeptAlways == Spec => []CurveKept
<1>1. IInv => CurveKept
  <2> SUFFICES ASSUME IInv PROVE CurveKept
    OBVIOUS
  <2>1. TOTAL \in Nat /\ rest \in Seq(Nat) /\ pinned \in Nat
    BY TablesTyped DEF IInv, TypeOK
  <2>2. ASSUME stage = "odds", pinned = 0, NEW i \in DOMAIN rest, NEW j \in DOMAIN rest,
               i < j, curve[i] >= curve[j]
        PROVE  rest[i] >= rest[j]
    <3>1. curve \in Curves /\ rest = Normalize(curve, TOTAL)
      BY <2>2 DEF IInv, Curved
    <3> DEFINE n == Len(curve)
    <3>2. n \in Nat /\ 1 \in 1 .. n /\ curve \in [1 .. n -> Nat] /\ curve[1] > 0
      BY <3>1, CurveFacts
    <3>3. DOMAIN rest = 1 .. n
      BY <3>1, <2>1, CurveFacts, NormalizeType, TableFacts
    <3> HIDE DEF n
    <3>4. Sum(curve) > 0
      BY <3>2, SumPositive
    <3>5. Normalize(curve, TOTAL)[i] >= Normalize(curve, TOTAL)[j]
      BY <2>1, <2>2, <3>2, <3>3, <3>4, NormalizeOrder
    <3> QED BY <3>1, <3>5
  <2>3. ASSUME stage = "odds", pinned > 0, Len(curve) <= 3, NEW i \in DOMAIN rest
        PROVE  rest[i] >= pinned
    <3>1. Low = {}
      BY <2>3 DEF IInv, Settled
    <3>2. ~(rest[i] < pinned) /\ rest[i] \in Nat
      BY <2>1, <2>3, <3>1, TableFacts DEF Low
    <3> QED BY <2>1, <3>2
  <2> QED BY <2>2, <2>3 DEF CurveKept
<1> QED BY <1>1, IInvAlways, PTL

\* What the solver makes of prices passes the checks on both kinds of card, for
\* every curve, pin, shape and return it aims at: the factor of a whole table is
\* held to where no share can round past what is left for it, so a run with
\* prices is never stopped by weights of its own (solve.ts:94-117, 300-305,
\* rebalance.ts:100-105).
THEOREM SolvedPassesAlways == Spec => []SolvedPasses
<1>1. IInv => SolvedPasses
  BY DEF IInv
<1> QED BY <1>1, IInvAlways, PTL

-----------------------------------------------------------------------------
(* The two validators, on any card of the wire's types *)

\* The parts of a card.
LEMMA CardParts ==
  ASSUME NEW c, IsCard(c)
  PROVE  /\ c.mode \in {"count", "compare"} /\ c.roll \in {"exclusive", "independent"}
         /\ Len(c.blocks) \in Nat /\ DOMAIN c.blocks = 1 .. Len(c.blocks)
         /\ \A i \in DOMAIN c.blocks :
              c.blocks[i].count \in Nat /\ c.blocks[i].a \in Nat /\ c.blocks[i].b \in Nat
         /\ Len(c.pays) \in Nat /\ DOMAIN c.pays = 1 .. Len(c.pays)
         /\ \A i \in DOMAIN c.pays :
              /\ c.pays[i].min \in Nat /\ c.pays[i].mult \in Nat /\ c.pays[i].weight \in Nat
              /\ c.pays[i].marked \in BOOLEAN
         /\ Len(c.tiers) \in Nat /\ DOMAIN c.tiers = 1 .. Len(c.tiers)
         /\ \A i \in DOMAIN c.tiers : c.tiers[i].factor \in Nat /\ c.tiers[i].weight \in Nat
         /\ Len(c.pool) \in Nat /\ DOMAIN c.pool = 1 .. Len(c.pool)
         /\ \A t \in DOMAIN c.pool : c.pool[t].amount \in Nat /\ c.pool[t].weight \in Nat
         /\ c.hit \in Nat /\ c.near \in Nat
<1> DEFINE B == [role : Roles, count : Nat, distinct : BOOLEAN, a : Nat, b : Nat]
           P == [scope : SUBSET (1 .. MAX_CELLS), weight : Nat, min : Nat,
                 marked : BOOLEAN, linear : BOOLEAN, mult : Nat]
           T == [factor : Nat, weight : Nat]
<1>1. /\ c.mode \in {"count", "compare"} /\ c.roll \in {"exclusive", "independent"}
      /\ c.blocks \in Seq(B) /\ c.pays \in Seq(P) /\ c.tiers \in Seq(T)
      /\ Len(c.pool) \in Nat /\ DOMAIN c.pool = 1 .. Len(c.pool)
      /\ \A t \in DOMAIN c.pool : c.pool[t].amount \in Nat /\ c.pool[t].weight \in Nat
      /\ c.hit \in Nat /\ c.near \in Nat
  BY DEF IsCard
<1>2. \A b \in B : b.count \in Nat /\ b.a \in Nat /\ b.b \in Nat
  OBVIOUS
<1>3. \A p \in P : p.min \in Nat /\ p.mult \in Nat /\ p.weight \in Nat /\ p.marked \in BOOLEAN
  OBVIOUS
<1>4. \A t \in T : t.factor \in Nat /\ t.weight \in Nat
  OBVIOUS
<1> HIDE DEF B, P, T
<1>5. /\ Len(c.blocks) \in Nat /\ DOMAIN c.blocks = 1 .. Len(c.blocks)
      /\ \A i \in DOMAIN c.blocks : c.blocks[i] \in B
  BY <1>1
<1>6. /\ Len(c.pays) \in Nat /\ DOMAIN c.pays = 1 .. Len(c.pays)
      /\ \A i \in DOMAIN c.pays : c.pays[i] \in P
  BY <1>1
<1>7. /\ Len(c.tiers) \in Nat /\ DOMAIN c.tiers = 1 .. Len(c.tiers)
      /\ \A i \in DOMAIN c.tiers : c.tiers[i] \in T
  BY <1>1
<1> QED BY <1>1, <1>2, <1>3, <1>4, <1>5, <1>6, <1>7

\* The first block of a role, if there is one.
LEMMA FirstOfRole ==
  ASSUME NEW c, IsCard(c), NEW role, WithRole(c, role) # {}
  PROVE  \E i \in WithRole(c, role) : First(c, role) = {i}
<1> DEFINE W == WithRole(c, role)
<1>1. W \subseteq Nat
  BY CardParts DEF WithRole
<1>2. PICK i \in W : \A j \in W : i <= j
  BY <1>1, LeastExists
<1>3. First(c, role) = {i}
  BY <1>1, <1>2 DEF First
<1> QED BY <1>2, <1>3

\* A block of marks with a cell in it shows marks; no block shows none.
LEMMA MarksShown ==
  ASSUME NEW c, IsCard(c),
         \A i \in DOMAIN c.blocks : c.blocks[i].count > 0
  PROVE  Marks(c) > 0 <=> WithRole(c, "mark") # {}
<1> DEFINE W == WithRole(c, "mark")
<1>1. CASE W = {}
  <2>1. First(c, "mark") = {}
    BY <1>1 DEF First
  <2>2. FirstCells(c, "mark") = {}
    BY <2>1 DEF FirstCells
  <2> QED BY <1>1, <2>2, FS_EmptySet DEF Marks
<1>2. CASE W # {}
  <2>1. PICK i \in W : First(c, "mark") = {i}
    BY <1>2, FirstOfRole
  <2>2. FirstCells(c, "mark") = CellsOf(c, i)
    BY <2>1 DEF FirstCells
  <2> DEFINE o == Offset(c, i)
             k == c.blocks[i].count
  <2>3. i \in DOMAIN c.blocks /\ i \in 1 .. Len(c.blocks) /\ Len(c.blocks) \in Nat
    BY CardParts DEF WithRole
  <2>4. k \in Nat /\ k > 0
    BY <2>3, CardParts
  <2>5. o \in Nat
    <3> DEFINE m == i - 1
    <3>1. m \in Nat /\ \A j \in 1 .. m : j \in DOMAIN c.blocks
      BY <2>3, CardParts
    <3>2. \A j \in 1 .. m : Sizes(c)[j] \in Nat
      BY <3>1, CardParts DEF Sizes
    <3>3. o = SumOver(Sizes(c), 1 .. m)
      BY DEF Offset
    <3> HIDE DEF m, o
    <3>4. IsFiniteSet(1 .. m)
      BY <3>1, TableFinite
    <3> QED BY <3>2, <3>3, <3>4, SumNat
  <2>6. CellsOf(c, i) = o + 1 .. o + k
    BY DEF CellsOf
  <2> HIDE DEF o, k
  <2>7. IsFiniteSet(o + 1 .. o + k)
    <3>1. o + 1 \in Int /\ o + k \in Int
      BY <2>4, <2>5
    <3> QED BY <3>1, FS_Interval
  <2>8. o + 1 \in o + 1 .. o + k
    BY <2>4, <2>5
  <2>9. Cardinality(o + 1 .. o + k) \in Nat /\ Cardinality(o + 1 .. o + k) # 0
    BY <2>7, <2>8, FS_CardinalityType, FS_EmptySet
  <2>10. Marks(c) = Cardinality(o + 1 .. o + k)
    BY <2>2, <2>6 DEF Marks
  <2> QED BY <1>2, <2>9, <2>10
<1> QED BY <1>1, <1>2

\* A pool that is drawn out of 2^32 has a token that is drawn.
LEMMA SomethingDrawn ==
  ASSUME NEW c, IsCard(c), Sum(Weights(c.pool)) = TOTAL
  PROVE  \E t \in Tokens(c) : c.pool[t].weight > 0
<1> SUFFICES ASSUME \A t \in DOMAIN c.pool : ~(c.pool[t].weight > 0) PROVE FALSE
  BY DEF Tokens
<1> DEFINE n == Len(c.pool)
           w == Weights(c.pool)
<1>1. n \in Nat /\ DOMAIN w = 1 .. n /\ \A t \in 1 .. n : w[t] = 0
  BY CardParts DEF Weights
<1>2. Sum(w) = SumOver(w, DOMAIN w)
  BY DEF Sum
<1> HIDE DEF n, w
<1>3. SumOver(w, 1 .. n) = 0 * Cardinality(1 .. n) /\ Cardinality(1 .. n) = n
  BY <1>1, TableFinite, SumConstant
<1>4. SumOver(w, DOMAIN w) = SumOver(w, 1 .. n)
  BY <1>1, Zenon
<1>5. SumOver(w, DOMAIN w) = TOTAL
  BY <1>2 DEF w
<1> QED BY <1>1, <1>3, <1>4, <1>5, TablesTyped

\* The cells of a card are at least its body's.
LEMMA SomeCells ==
  ASSUME NEW c, IsCard(c), BodyLen(c) > 0
  PROVE  CellCount(c) \in Nat /\ CellCount(c) > 0
<1> DEFINE n == Len(c.blocks)
           s == Sizes(c)
           B == DOMAIN c.blocks \ WithRole(c, "jackpot")
<1>1. n \in Nat /\ DOMAIN c.blocks = 1 .. n /\ \A i \in 1 .. n : s[i] \in Nat
  BY CardParts DEF Sizes
<1>2. BodyLen(c) = SumOver(s, B)
  BY DEF BodyLen
<1>3. CellCount(c) = SumOver(s, 1 .. n)
  <2>1. n + 1 - 1 = n
    BY <1>1
  <2> QED BY <2>1 DEF CellCount, Offset
<1>4. B \in SUBSET (1 .. n)
  BY <1>1
<1> HIDE DEF n, s, B
<1>5. IsFiniteSet(1 .. n) /\ IsFiniteSet(B)
  BY <1>1, <1>4, TableFinite, FS_Subset
<1>6. SumOver(s, B) <= SumOver(s, 1 .. n)
  BY <1>1, <1>4, <1>5, SumSubset
<1>7. SumOver(s, 1 .. n) \in Nat /\ SumOver(s, B) \in Nat
  <2>1. \A i \in B : s[i] \in Nat
    BY <1>1, <1>4
  <2> QED BY <1>1, <1>5, <2>1, SumNat
<1> QED BY <1>2, <1>3, <1>6, <1>7

\* One card set_card takes passes the checks.
LEMMA AcceptedPassesTyped ==
  ASSUME IsCard(card)
  PROVE  AcceptedPasses
<1> SUFFICES ASSUME Valid(card) PROVE Passes(card)
  BY DEF AcceptedPasses
<1>1. /\ ShapeOk(card) /\ Widths(card) /\ PoolOk(card)
      /\ TiersOk(card) /\ JackpotOk(card) /\ PaysOk(card)
      /\ RollOk(card) /\ (card.mode = "compare" => DuelOk(card))
  BY DEF Valid
<1>2. WeightsPass(card)
  <2>1. \A i \in DOMAIN card.pays : card.pays[i].weight <= TOTAL
    <3> DEFINE w == Weights(card.pays)
    <3>1. \A i \in DOMAIN w : w[i] \in 0 .. TOTAL - 1
      BY <1>1 DEF Widths
    <3>2. DOMAIN w = DOMAIN card.pays /\ \A i \in DOMAIN card.pays : w[i] = card.pays[i].weight
      BY DEF Weights
    <3> HIDE DEF w
    <3> QED BY <3>1, <3>2, TablesTyped
  <2>2. /\ Sum(Weights(card.pool)) = TOTAL
        /\ card.hit + card.near <= TOTAL
        /\ Sum(Weights(card.tiers)) <= TOTAL
    BY <1>1 DEF PoolOk, JackpotOk, TiersOk
  <2>3. CASE card.roll = "exclusive"
    BY <1>1, <2>2, <2>3 DEF WeightsPass, RollOk
  <2>4. CASE card.roll # "exclusive"
    BY <1>1, <2>1, <2>2, <2>4 DEF WeightsPass, RollOk
  <2> QED BY <2>3, <2>4
<1>3. SizesPass(card)
  <2>1. CellCount(card) <= MAX_CELLS
    BY <1>1 DEF ShapeOk
  <2> QED BY <1>1, <2>1 DEF ShapeOk, SizesPass
<1>4. EntriesPass(card)
  <2>1. \A i \in DOMAIN card.blocks : card.blocks[i].count > 0
    BY <1>1 DEF ShapeOk
  <2>2. ASSUME NEW i \in DOMAIN card.pays
        PROVE  /\ card.pays[i].min \in 1 .. Cardinality(card.pays[i].scope)
               /\ card.pays[i].scope \subseteq Body(card)
               /\ card.pays[i].marked => WithRole(card, "mark") # {}
    BY <1>1, <2>1, MarksShown DEF PaysOk
  <2>3. ASSUME NEW i \in WithRole(card, "number")
        PROVE  RangeOk(card.blocks[i])
    <3>1. i \in DOMAIN card.blocks
      BY DEF WithRole
    <3>2. card.blocks[i].a \in 1 .. card.blocks[i].b /\ card.blocks[i].b <= CELL_PAYLOAD_MAX
      BY <1>1 DEF ShapeOk
    <3> QED BY <3>1, <3>2, CardParts DEF RangeOk
  <2>4. \E t \in Tokens(card) : card.pool[t].weight > 0
    BY <1>1, SomethingDrawn DEF PoolOk
  <2> QED BY <2>2, <2>3, <2>4 DEF EntriesPass
<1>5. card.mode = "compare" => DuelPasses(card)
  <2> SUFFICES ASSUME DuelOk(card) PROVE DuelPasses(card)
    BY <1>1
  <2> QED BY DEF DuelOk, DuelPasses
<1> QED BY <1>2, <1>3, <1>4, <1>5 DEF Passes

\* One card that passes and keeps the other rules is taken.
LEMMA PassingIsAcceptedTyped ==
  ASSUME IsCard(card)
  PROVE  PassingIsAccepted
<1> SUFFICES ASSUME Passes(card), Unasked(card) PROVE Valid(card)
  BY DEF PassingIsAccepted
<1>1. /\ WeightsPass(card) /\ SizesPass(card) /\ EntriesPass(card)
      /\ (card.mode = "compare" => DuelPasses(card))
  BY DEF Passes
<1> DEFINE line == card.blocks[Len(card.blocks)]
<1>2. /\ Widths(card) /\ line.a + line.b > 0 /\ BodyLen(card) > 0
      /\ \A i \in DOMAIN card.blocks : card.blocks[i].count > 0
      /\ \A i \in WithRole(card, "number") : card.blocks[i].a >= 1
      /\ \A t \in Tokens(card) : card.pool[t].amount > 0
      /\ \A s, t \in Tokens(card) : card.pool[s].mint = card.pool[t].mint => s = t
      /\ \A i \in DOMAIN card.tiers : card.tiers[i].factor >= 2
  BY DEF Unasked, Range
<1>3. \A i \in DOMAIN card.pays :
        card.pays[i].mult >= 1
        /\ (card.mode = "count" => card.pays[i].min > 1 \/ card.pays[i].marked)
  BY DEF Unasked, Range
<1>4. IF card.mode = "count" THEN Fillable(card)
      ELSE /\ card.blocks[card.duel.mine].a < card.blocks[card.duel.house].a
           /\ card.blocks[card.duel.mine].b > card.blocks[card.duel.house].b
  BY DEF Unasked
<1>5. ShapeOk(card)
  <2>1. CellCount(card) \in 1 .. MAX_CELLS
    <3>1. CellCount(card) \in Nat /\ CellCount(card) > 0
      BY <1>2, SomeCells
    <3>2. CellCount(card) <= MAX_CELLS
      BY <1>1 DEF SizesPass
    <3> QED BY <3>1, <3>2
  <2>2. ASSUME NEW i \in WithRole(card, "number")
        PROVE  /\ card.blocks[i].a \in 1 .. card.blocks[i].b
               /\ card.blocks[i].b <= CELL_PAYLOAD_MAX
    <3>1. i \in DOMAIN card.blocks
      BY DEF WithRole
    <3>2. card.blocks[i].a <= card.blocks[i].b /\ card.blocks[i].b <= CELL_PAYLOAD_MAX
      BY <1>1 DEF EntriesPass, RangeOk
    <3> QED BY <1>2, <3>1, <3>2, CardParts
  <2> QED BY <1>1, <1>2, <2>1, <2>2 DEF ShapeOk, SizesPass
<1>6. PoolOk(card) /\ TiersOk(card) /\ JackpotOk(card)
  BY <1>1, <1>2 DEF PoolOk, TiersOk, JackpotOk, WeightsPass
<1>7. PaysOk(card)
  <2> SUFFICES ASSUME NEW i \in DOMAIN card.pays
               PROVE  LET p == card.pays[i]
                      IN /\ p.scope # {} /\ p.scope \subseteq Body(card)
                         /\ p.min \in 1 .. Cardinality(p.scope)
                         /\ p.mult >= 1
                         /\ p.marked => Marks(card) > 0
                         /\ ~(card.mode = "count" /\ p.min = 1 /\ ~p.marked)
    BY DEF PaysOk
  <2> DEFINE p == card.pays[i]
  <2>1. /\ p.min \in 1 .. Cardinality(p.scope)
        /\ p.scope \subseteq Body(card)
        /\ p.marked => WithRole(card, "mark") # {}
    BY <1>1 DEF EntriesPass
  <2>2. p.scope # {}
    <3> SUFFICES ASSUME p.scope = {} PROVE FALSE
      OBVIOUS
    <3>1. Cardinality(p.scope) = 0
      BY FS_EmptySet
    <3> HIDE DEF p
    <3> QED BY <2>1, <3>1
  <2>3. p.marked => Marks(card) > 0
    BY <1>2, <2>1, MarksShown
  <2> QED BY <1>3, <2>1, <2>2, <2>3
<1>8. RollOk(card)
  BY <1>1 DEF WeightsPass, RollOk
<1>9. CASE card.mode = "compare"
  <2>1. DuelPasses(card)
    BY <1>1, <1>9
  <2>2. DuelOk(card)
    BY <1>4, <1>9, <2>1 DEF DuelPasses, DuelOk
  <2> QED BY <1>2, <1>5, <1>6, <1>7, <1>8, <1>9, <2>2 DEF Valid
<1>10. CASE card.mode = "count"
  <2>1. Fillable(card)
    BY <1>4, <1>10
  <2> QED BY <1>2, <1>5, <1>6, <1>7, <1>8, <1>10, <2>1 DEF Valid
<1> QED BY <1>9, <1>10, CardParts

-----------------------------------------------------------------------------
(* Every card an editor can reach is of the wire's types *)

ScreenCards == CardsOver(Mints)
ABlock == [role : Roles, count : Nat, distinct : BOOLEAN, a : Nat, b : Nat]
APay == [scope : SUBSET (1 .. MAX_CELLS), weight : Nat, min : Nat,
         marked : BOOLEAN, linear : BOOLEAN, mult : Nat]
ATier == [factor : Nat, weight : Nat]
AToken == [mint : Mints, amount : Nat, weight : Nat]

LEMMA ScreenCardIsCard ==
  ASSUME NEW c \in ScreenCards
  PROVE  IsCard(c)
<1>1. /\ c.mode \in {"count", "compare"} /\ c.roll \in {"exclusive", "independent"}
      /\ c.blocks \in Seq(ABlock) /\ c.pays \in Seq(APay) /\ c.tiers \in Seq(ATier)
      /\ c.pool \in Seq(AToken) /\ c.hit \in Nat /\ c.near \in Nat
      /\ c.duel.strict \in BOOLEAN
  BY DEF ScreenCards, CardsOver, ABlock, APay, ATier, AToken
<1>2. \A t \in AToken : t.amount \in Nat /\ t.weight \in Nat
  BY DEF AToken
<1>3. DOMAIN c.pool = 1 .. Len(c.pool) /\ Len(c.pool) \in Nat
      /\ \A t \in DOMAIN c.pool : c.pool[t] \in AToken
  BY <1>1
<1> QED BY <1>1, <1>2, <1>3 DEF IsCard, ABlock, APay, ATier

\* A field replaced by one of its type.
LEMMA FieldReplaced ==
  ASSUME NEW c \in ScreenCards
  PROVE  /\ \A x \in Seq(ABlock) : [c EXCEPT !.blocks = x] \in ScreenCards
         /\ \A x \in Seq(APay) : [c EXCEPT !.pays = x] \in ScreenCards
         /\ \A x \in Seq(ATier) : [c EXCEPT !.tiers = x] \in ScreenCards
         /\ \A x \in Seq(AToken) : [c EXCEPT !.pool = x] \in ScreenCards
         /\ \A x \in Nat : [c EXCEPT !.hit = x] \in ScreenCards
         /\ \A x \in Nat : [c EXCEPT !.near = x] \in ScreenCards
         /\ \A x \in {"exclusive", "independent"} : [c EXCEPT !.roll = x] \in ScreenCards
         /\ \A x \in {"count", "compare"} : [c EXCEPT !.mode = x] \in ScreenCards
BY DEF ScreenCards, CardsOver, ABlock, APay, ATier, AToken

\* One element of a sequence replaced, the rest cut off, another added.
LEMMA SeqEdits ==
  ASSUME NEW S, NEW s \in Seq(S)
  PROVE  /\ \A i \in DOMAIN s, x \in S : [s EXCEPT ![i] = x] \in Seq(S)
         /\ \A x \in S : Append(s, x) \in Seq(S)
         /\ \A i \in DOMAIN s : SubSeq(s, 1, i) \in Seq(S) /\ SubSeq(s, 1, i - 1) \in Seq(S)
         /\ \A i \in DOMAIN s : s[i] \in S
<1>1. DOMAIN s = 1 .. Len(s) /\ Len(s) \in Nat /\ \A i \in DOMAIN s : s[i] \in S
  OBVIOUS
<1>2. \A i \in DOMAIN s, x \in S : [s EXCEPT ![i] = x] \in Seq(S)
  OBVIOUS
<1>3. ASSUME NEW i \in DOMAIN s PROVE SubSeq(s, 1, i) \in Seq(S)
  BY <1>1
<1>4. ASSUME NEW i \in DOMAIN s PROVE SubSeq(s, 1, i - 1) \in Seq(S)
  BY <1>1
<1> QED BY <1>1, <1>2, <1>3, <1>4

LEMMA PayEdited ==
  ASSUME WellTyped, card \in ScreenCards, EditPay
  PROVE  card' \in ScreenCards
<1>1. card.pays \in Seq(APay)
  BY DEF ScreenCards, CardsOver, APay
<1>2. PICK i \in DOMAIN card.pays :
        \/ \E f \in PayFields, n \in Numbers : card' = [card EXCEPT !.pays[i][f] = n]
        \/ \E scope \in Scopes : card' = [card EXCEPT !.pays[i].scope = scope]
        \/ card' = [card EXCEPT !.pays[i].marked = ~@]
        \/ card' = [card EXCEPT !.pays = Append(@, card.pays[i])]
        \/ card' = [card EXCEPT !.pays = SubSeq(@, 1, i - 1)]
  BY DEF EditPay, Edited
<1>3. card.pays[i] \in APay
  BY <1>1, SeqEdits
<1>4. ASSUME NEW p \in APay, card' = [card EXCEPT !.pays = [@ EXCEPT ![i] = p]]
      PROVE  card' \in ScreenCards
  BY <1>1, <1>4, SeqEdits, FieldReplaced
<1>5. ASSUME NEW f \in PayFields, NEW n \in Numbers,
             card' = [card EXCEPT !.pays[i][f] = n]
      PROVE  card' \in ScreenCards
  <2>1. n \in Nat
    BY DEF WellTyped
  <2>2. [card.pays[i] EXCEPT ![f] = n] \in APay
    BY <1>3, <2>1 DEF APay, PayFields
  <2> QED BY <1>4, <1>5, <2>2
<1>6. ASSUME NEW scope \in Scopes, card' = [card EXCEPT !.pays[i].scope = scope]
      PROVE  card' \in ScreenCards
  <2>1. [card.pays[i] EXCEPT !.scope = scope] \in APay
    BY <1>3 DEF APay, WellTyped
  <2> QED BY <1>4, <1>6, <2>1
<1>7. CASE card' = [card EXCEPT !.pays[i].marked = ~@]
  <2>1. [card.pays[i] EXCEPT !.marked = ~@] \in APay
    BY <1>3 DEF APay
  <2> QED BY <1>4, <1>7, <2>1
<1>8. CASE \/ card' = [card EXCEPT !.pays = Append(@, card.pays[i])]
           \/ card' = [card EXCEPT !.pays = SubSeq(@, 1, i - 1)]
  <2>1. Append(card.pays, card.pays[i]) \in Seq(APay)
    BY <1>1, <1>3, SeqEdits
  <2>2. SubSeq(card.pays, 1, i - 1) \in Seq(APay)
    BY <1>1, SeqEdits
  <2> QED BY <1>8, <2>1, <2>2, FieldReplaced
<1> QED BY <1>2, <1>5, <1>6, <1>7, <1>8

LEMMA PoolEdited ==
  ASSUME WellTyped, card \in ScreenCards, EditPool
  PROVE  card' \in ScreenCards
<1>1. card.pool \in Seq(AToken)
  BY DEF ScreenCards, CardsOver, AToken
<1>2. PICK t \in DOMAIN card.pool :
        \/ \E f \in PoolFields, n \in Numbers : card' = [card EXCEPT !.pool[t][f] = n]
        \/ \E s \in DOMAIN card.pool : card' = [card EXCEPT !.pool[t].mint = card.pool[s].mint]
        \/ card' = [card EXCEPT !.pool = SubSeq(@, 1, t - 1)]
  BY DEF EditPool, Edited, Tokens
<1>3. \A s \in DOMAIN card.pool : card.pool[s] \in AToken
  BY <1>1, SeqEdits
<1>4. ASSUME NEW x \in AToken, card' = [card EXCEPT !.pool = [@ EXCEPT ![t] = x]]
      PROVE  card' \in ScreenCards
  BY <1>1, <1>4, SeqEdits, FieldReplaced
<1>5. ASSUME NEW f \in PoolFields, NEW n \in Numbers,
             card' = [card EXCEPT !.pool[t][f] = n]
      PROVE  card' \in ScreenCards
  <2>1. n \in Nat
    BY DEF WellTyped
  <2>2. [card.pool[t] EXCEPT ![f] = n] \in AToken
    BY <1>3, <2>1 DEF AToken, PoolFields
  <2> QED BY <1>4, <1>5, <2>2
<1>6. ASSUME NEW s \in DOMAIN card.pool, card' = [card EXCEPT !.pool[t].mint = card.pool[s].mint]
      PROVE  card' \in ScreenCards
  <2>1. [card.pool[t] EXCEPT !.mint = card.pool[s].mint] \in AToken
    BY <1>3 DEF AToken
  <2> QED BY <1>4, <1>6, <2>1
<1>7. CASE card' = [card EXCEPT !.pool = SubSeq(@, 1, t - 1)]
  BY <1>1, <1>7, SeqEdits, FieldReplaced
<1> QED BY <1>2, <1>5, <1>6, <1>7

LEMMA BlockEdited ==
  ASSUME WellTyped, card \in ScreenCards, EditBlock
  PROVE  card' \in ScreenCards
<1>1. card.blocks \in Seq(ABlock)
  BY DEF ScreenCards, CardsOver, ABlock
<1>2. PICK i \in DOMAIN card.blocks :
        \/ \E f \in BlockFields, n \in Numbers :
             card' = [card EXCEPT !.blocks[i][f] = n]
        \/ card' = [card EXCEPT !.blocks = SubSeq(@, 1, i)]
  BY DEF EditBlock, Edited
<1>3. card.blocks[i] \in ABlock
  BY <1>1, SeqEdits
<1>4. ASSUME NEW f \in BlockFields, NEW n \in Numbers,
             card' = [card EXCEPT !.blocks[i][f] = n]
      PROVE  card' \in ScreenCards
  <2>1. n \in Nat
    BY DEF WellTyped
  <2>2. [card.blocks[i] EXCEPT ![f] = n] \in ABlock
    BY <1>3, <2>1 DEF ABlock, BlockFields
  <2> QED BY <1>1, <1>4, <2>2, SeqEdits, FieldReplaced
<1>5. CASE card' = [card EXCEPT !.blocks = SubSeq(@, 1, i)]
  BY <1>1, <1>5, SeqEdits, FieldReplaced
<1> QED BY <1>2, <1>4, <1>5

LEMMA RestEdited ==
  ASSUME WellTyped, card \in ScreenCards, EditRest
  PROVE  card' \in ScreenCards
<1>1. card.tiers \in Seq(ATier) /\ Numbers \subseteq Nat
  BY DEF ScreenCards, CardsOver, ATier, WellTyped
<1>2. ASSUME NEW n \in Numbers, card' = [card EXCEPT !.near = n] \/ card' = [card EXCEPT !.hit = n]
      PROVE  card' \in ScreenCards
  BY <1>1, <1>2, FieldReplaced
<1>3. ASSUME NEW factor \in Numbers, NEW weight \in Numbers,
             card' = [card EXCEPT !.tiers = Append(@, [factor |-> factor, weight |-> weight])]
      PROVE  card' \in ScreenCards
  <2>1. [factor |-> factor, weight |-> weight] \in ATier
    BY <1>1 DEF ATier
  <2> QED BY <1>1, <1>3, <2>1, SeqEdits, FieldReplaced
<1>4. ASSUME NEW roll \in {"exclusive", "independent"}, card' = [card EXCEPT !.roll = roll]
      PROVE  card' \in ScreenCards
  BY <1>4, FieldReplaced
<1>5. ASSUME NEW mode \in {"count", "compare"}, card' = [card EXCEPT !.mode = mode]
      PROVE  card' \in ScreenCards
  BY <1>5, FieldReplaced
<1> QED BY <1>2, <1>3, <1>4, <1>5 DEF EditRest, Edited

OnScreen == card \in ScreenCards

LEMMA ScreenTyped == ScreenSpec => []OnScreen
<1>1. ScreenInit => OnScreen
  BY SheetCheckAssumption DEF ScreenInit, WellTyped, ScreenCards, OnScreen
<1>2. OnScreen /\ [ScreenNext]_screenVars => OnScreen'
  <2> SUFFICES ASSUME OnScreen, [ScreenNext]_screenVars PROVE card' \in ScreenCards
    BY DEF OnScreen, ScreenCards, Mints, CardsOver, Roles
  <2>1. CASE UNCHANGED screenVars
    BY <2>1 DEF screenVars, OnScreen
  <2>2. CASE ScreenNext
    BY <2>2, SheetCheckAssumption, PayEdited, PoolEdited, BlockEdited, RestEdited DEF ScreenNext, OnScreen
  <2> QED BY <2>1, <2>2
<1> QED BY <1>1, <1>2, PTL DEF ScreenSpec

\* Every card set_card takes passes the tool's checks: however a sheet is edited,
\* rebalance can go on from a shelf the chain holds (validate.ts:19-110,
\* set_card.rs:69-174).
THEOREM AcceptedPassesAlways == ScreenSpec => []AcceptedPasses
<1>1. OnScreen => AcceptedPasses
  BY ScreenCardIsCard, AcceptedPassesTyped DEF OnScreen
<1> QED BY <1>1, ScreenTyped, PTL

\* What passes the tool's checks and keeps the rules the tool does not ask about
\* set_card takes: those rules are all that stands between the two.
THEOREM PassingIsAcceptedAlways == ScreenSpec => []PassingIsAccepted
<1>1. OnScreen => PassingIsAccepted
  BY ScreenCardIsCard, PassingIsAcceptedTyped DEF OnScreen
<1> QED BY <1>1, ScreenTyped, PTL
=============================================================================
