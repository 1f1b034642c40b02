----------------------------- MODULE TotalsProofs -----------------------------
(***************************************************************************)
(* What the proofs about the sheet and the deal need of sums, least and    *)
(* largest numbers, ranks and counts.  Induction is over the size of a     *)
(* finite set, by the least counterexample; what is proved by it is given  *)
(* as the set of parts it holds of.                                        *)
(***************************************************************************)
EXTENDS Totals, FiniteSetTheorems, WellFoundedInduction, TLAPS

-----------------------------------------------------------------------------
(* Least and largest *)

\* Natural numbers have a least.
LEMMA LeastExists ==
  ASSUME NEW T, T \subseteq Nat, T # {}
  PROVE  \E n \in T : \A m \in T : n <= m
<1> DEFINE Less == OpToRel(<, Nat)
<1>1. IsWellFoundedOn(Less, Nat)
  BY NatLessThanWellFounded
<1>2. \A x, y \in Nat : <<y, x>> \in Less <=> y < x
  BY DEF OpToRel
<1> HIDE DEF Less
<1>3. PICK x \in T : \A y \in T : ~(<<y, x>> \in Less)
  BY <1>1, WFMin
<1>4. ASSUME NEW y \in T
      PROVE  x <= y
  <2>1. x \in Nat /\ y \in Nat
    OBVIOUS
  <2>2. ~(y < x)
    BY <1>2, <1>3, <2>1
  <2> QED BY <2>1, <2>2
<1> QED BY <1>4

\* What Min names is there.
LEMMA MinIsLeast ==
  ASSUME NEW T, T \subseteq Nat, T # {}
  PROVE  Min(T) \in T /\ \A m \in T : Min(T) <= m
BY LeastExists DEF Min

\* A property kept when one element is added holds of a finite set.
LEMMA FiniteInduction ==
  ASSUME NEW S, IsFiniteSet(S), NEW P,
         {} \in P,
         \A s \in SUBSET S : s # {} /\ (\A x \in s : s \ {x} \in P) => s \in P
  PROVE  S \in P
<1> SUFFICES ASSUME S \notin P PROVE FALSE
  OBVIOUS
<1> DEFINE Left == {s \in SUBSET S : s \notin P}
           Sizes == {Cardinality(s) : s \in Left}
<1>1. \A s \in Left : IsFiniteSet(s) /\ Cardinality(s) \in Nat
  BY FS_Subset, FS_CardinalityType
<1>2. Sizes \subseteq Nat /\ Sizes # {}
  BY <1>1
<1>3. PICK n \in Sizes : \A m \in Sizes : n <= m
  BY <1>2, LeastExists
<1>4. PICK s \in Left : Cardinality(s) = n
  BY <1>3
<1>5. s # {}
  OBVIOUS
<1>6. ASSUME NEW x \in s
      PROVE  s \ {x} \in P
  <2>1. Cardinality(s \ {x}) = Cardinality(s) - 1
    BY <1>1, FS_RemoveElement
  <2>2. s \ {x} \in Left => n <= Cardinality(s \ {x})
    BY <1>3
  <2> QED BY <1>1, <1>4, <2>1, <2>2
<1> QED BY <1>5, <1>6

\* A finite set of numbers has a largest.
LEMMA LargestExists ==
  ASSUME NEW T, IsFiniteSet(T), T \subseteq Nat, T # {}
  PROVE  \E n \in T : \A m \in T : n >= m
<1> DEFINE P == {s \in SUBSET T : s # {} => \E n \in s : \A m \in s : n >= m}
<1>1. ASSUME NEW s \in SUBSET T, s # {}, \A x \in s : s \ {x} \in P
      PROVE  s \in P
  <2>1. PICK x \in s : TRUE
    BY <1>1
  <2>2. CASE s \ {x} = {}
    BY <2>1, <2>2
  <2>3. CASE s \ {x} # {}
    <3>1. PICK n \in s \ {x} : \A m \in s \ {x} : n >= m
      BY <1>1, <2>3
    <3>2. n \in Nat /\ x \in Nat /\ \A m \in s : m \in Nat
      OBVIOUS
    <3>3. CASE n >= x
      BY <3>1, <3>2, <3>3
    <3>4. CASE x > n
      BY <3>1, <3>2, <3>4
    <3> QED BY <3>2, <3>3, <3>4
  <2> QED BY <2>2, <2>3
<1>2. {} \in P
  OBVIOUS
<1> HIDE DEF P
<1>3. T \in P
  BY <1>1, <1>2, FiniteInduction
<1> QED BY <1>3 DEF P

LEMMA MaxIsLargest ==
  ASSUME NEW T, IsFiniteSet(T), T \subseteq Nat, T # {}
  PROVE  Max(T) \in T /\ \A m \in T : Max(T) >= m
BY LargestExists DEF Max

LEMMA OneLess ==
  ASSUME NEW S, IsFiniteSet(S), NEW e \in S
  PROVE  /\ IsFiniteSet(S \ {e})
         /\ Cardinality(S \ {e}) \in Nat
         /\ Cardinality(S) = Cardinality(S \ {e}) + 1
<1>1. Cardinality(S) \in Nat
  BY FS_CardinalityType
<1>2. IsFiniteSet(S \ {e}) /\ Cardinality(S \ {e}) = Cardinality(S) - 1
  BY FS_RemoveElement
<1>3. Cardinality(S \ {e}) \in Nat
  BY <1>2, FS_CardinalityType
<1> QED BY <1>1, <1>2, <1>3

-----------------------------------------------------------------------------
(* Sums *)

\* The recursion SumOver is defined by, over the parts of S.
Pick(s) == CHOOSE x \in s : TRUE
Runs(f, S, it) ==
  it = [s \in SUBSET S |-> IF s = {} THEN 0 ELSE f[Pick(s)] + it[s \ {Pick(s)}]]

LEMMA SumIsRun ==
  ASSUME NEW f, NEW S
  PROVE  SumOver(f, S) = (CHOOSE it : Runs(f, S, it))[S]
BY DEF SumOver, MapThenSumSet, MapThenFoldSet, Runs, Pick

\* It is well defined on a finite set.
LEMMA RunExists ==
  ASSUME NEW f, NEW S, IsFiniteSet(S)
  PROVE  \E it : Runs(f, S, it)
<1> DEFINE Step(it, s) == IF s = {} THEN 0 ELSE f[Pick(s)] + it[s \ {Pick(s)}]
           UpTo(n) == \E it : \A s \in SUBSET S : Cardinality(s) <= n => it[s] = Step(it, s)
           Bad == {n \in Nat : ~UpTo(n)}
<1>1. \A s \in SUBSET S : /\ IsFiniteSet(s) /\ Cardinality(s) \in Nat
                          /\ Cardinality(s) <= Cardinality(S)
  BY FS_Subset, FS_CardinalityType
<1>2. \A s \in SUBSET S : s # {} => /\ Pick(s) \in s
                                    /\ s \ {Pick(s)} \in SUBSET S
                                    /\ Cardinality(s \ {Pick(s)}) = Cardinality(s) - 1
  BY <1>1, FS_RemoveElement DEF Pick
<1>3. \A s \in SUBSET S : Cardinality(s) = 0 <=> s = {}
  BY <1>1, FS_EmptySet
<1>4. UpTo(0)
  <2> DEFINE zero == [s \in SUBSET S |-> 0]
  <2>1. \A s \in SUBSET S : Cardinality(s) <= 0 => zero[s] = Step(zero, s)
    BY <1>1, <1>3
  <2> HIDE DEF zero, Step
  <2> QED BY <2>1
<1>5. ASSUME NEW n \in Nat, UpTo(n)
      PROVE  UpTo(n + 1)
  <2>1. PICK it : \A s \in SUBSET S : Cardinality(s) <= n => it[s] = Step(it, s)
    BY <1>5
  <2> DEFINE jt == [s \in SUBSET S |-> IF Cardinality(s) <= n THEN it[s] ELSE Step(it, s)]
  <2>2. ASSUME NEW s \in SUBSET S, Cardinality(s) <= n + 1
        PROVE  jt[s] = Step(jt, s)
    <3>1. jt[s] = Step(it, s)
      BY <2>1
    <3>2. CASE s = {}
      BY <3>1, <3>2
    <3>3. CASE s # {}
      <4>1. Cardinality(s \ {Pick(s)}) <= n /\ s \ {Pick(s)} \in SUBSET S
        BY <1>1, <1>2, <2>2, <3>3
      <4>2. jt[s \ {Pick(s)}] = it[s \ {Pick(s)}]
        BY <4>1
      <4> HIDE DEF jt
      <4> QED BY <3>1, <3>3, <4>2
    <3> QED BY <3>2, <3>3
  <2> HIDE DEF jt, Step
  <2> QED BY <2>2
<1> HIDE DEF UpTo
<1>6. UpTo(Cardinality(S))
  <2> SUFFICES ASSUME ~UpTo(Cardinality(S)) PROVE FALSE
    OBVIOUS
  <2>1. Bad \subseteq Nat /\ Bad # {}
    BY FS_CardinalityType
  <2>2. PICK n \in Bad : \A m \in Bad : n <= m
    BY <2>1, LeastExists
  <2>3. n # 0
    BY <1>4
  <2>4. n - 1 \in Nat /\ n - 1 \notin Bad
    BY <2>2, <2>3
  <2>5. UpTo((n - 1) + 1)
    BY <1>5, <2>4
  <2> QED BY <2>5, <2>2
<1>7. PICK it : \A s \in SUBSET S : Cardinality(s) <= Cardinality(S) => it[s] = Step(it, s)
  BY <1>6 DEF UpTo
<1> DEFINE jt == [s \in SUBSET S |-> it[s]]
<1>8. ASSUME NEW s \in SUBSET S
      PROVE  jt[s] = Step(jt, s)
  <2>1. jt[s] = Step(it, s)
    BY <1>1, <1>7
  <2>2. s # {} => jt[s \ {Pick(s)}] = it[s \ {Pick(s)}]
    BY <1>2
  <2> HIDE DEF jt
  <2> QED BY <2>1, <2>2
<1>9. jt = [s \in SUBSET S |-> Step(jt, s)]
  <2>1. jt = [s \in SUBSET S |-> jt[s]]
    OBVIOUS
  <2> HIDE DEF jt
  <2> QED BY <1>8, <2>1
<1> HIDE DEF jt
<1> QED BY <1>9 DEF Runs

\* The run over a table, at a part of what it was made for, is the sum there,
\* also of another table that agrees on it.
LEMMA RunAtPart ==
  ASSUME NEW f, NEW g, NEW S, IsFiniteSet(S), NEW R \in SUBSET S, \A x \in R : f[x] = g[x]
  PROVE  (CHOOSE i : Runs(f, S, i))[R] = SumOver(g, R)
<1> DEFINE it == CHOOSE i : Runs(f, S, i)
           jt == CHOOSE i : Runs(g, R, i)
           P == {s \in SUBSET R : it[s] = jt[s]}
<1>1. IsFiniteSet(R)
  BY FS_Subset
<1>2. Runs(f, S, it) /\ Runs(g, R, jt)
  BY <1>1, RunExists
<1> HIDE DEF it, jt
<1>3. \A s \in SUBSET R :
        /\ it[s] = IF s = {} THEN 0 ELSE f[Pick(s)] + it[s \ {Pick(s)}]
        /\ jt[s] = IF s = {} THEN 0 ELSE g[Pick(s)] + jt[s \ {Pick(s)}]
  BY <1>2 DEF Runs
<1>4. \A s \in SUBSET R : s # {} => Pick(s) \in s
  BY DEF Pick
<1>5. {} \in P
  BY <1>3
<1>6. ASSUME NEW s \in SUBSET R, s # {}, \A x \in s : s \ {x} \in P
      PROVE  s \in P
  <2>1. Pick(s) \in s /\ it[s \ {Pick(s)}] = jt[s \ {Pick(s)}]
    BY <1>4, <1>6
  <2>2. f[Pick(s)] = g[Pick(s)]
    BY <2>1
  <2> QED BY <1>3, <1>6, <2>1, <2>2
<1> HIDE DEF P
<1>7. R \in P
  BY <1>1, <1>5, <1>6, FiniteInduction
<1>8. SumOver(g, R) = jt[R]
  BY SumIsRun DEF jt
<1> QED BY <1>7, <1>8 DEF P, it

LEMMA SumEmpty ==
  ASSUME NEW f
  PROVE  SumOver(f, {}) = 0
<1>1. Runs(f, {}, CHOOSE it : Runs(f, {}, it))
  BY RunExists, FS_EmptySet
<1> QED BY <1>1, SumIsRun DEF Runs

\* Only the part of a table that is summed matters.
LEMMA SumSame ==
  ASSUME NEW f, NEW g, NEW S, IsFiniteSet(S), \A x \in S : f[x] = g[x]
  PROVE  SumOver(f, S) = SumOver(g, S)
<1>1. S \in SUBSET S
  OBVIOUS
<1>2. (CHOOSE i : Runs(f, S, i))[S] = SumOver(g, S)
  BY <1>1, RunAtPart
<1> QED BY <1>2, SumIsRun

\* The step of the recursion.
LEMMA SumPick ==
  ASSUME NEW f, NEW S, IsFiniteSet(S), S # {}
  PROVE  /\ Pick(S) \in S
         /\ SumOver(f, S) = f[Pick(S)] + SumOver(f, S \ {Pick(S)})
<1> DEFINE R == S \ {Pick(S)}
           it == CHOOSE i : Runs(f, S, i)
<1>1. Pick(S) \in S
  BY DEF Pick
<1>2. Runs(f, S, it)
  BY RunExists
<1>3. it[S] = f[Pick(S)] + it[R]
  <2> HIDE DEF it
  <2> QED BY <1>2 DEF Runs
<1>4. it[R] = SumOver(f, R)
  <2>1. R \in SUBSET S /\ \A x \in R : f[x] = f[x]
    OBVIOUS
  <2> HIDE DEF R
  <2> QED BY <2>1, RunAtPart
<1>5. SumOver(f, S) = it[S]
  BY SumIsRun
<1> QED BY <1>1, <1>3, <1>4, <1>5

LEMMA SumNat ==
  ASSUME NEW f, NEW S, IsFiniteSet(S), \A x \in S : f[x] \in Nat
  PROVE  SumOver(f, S) \in Nat
<1> DEFINE P == {s \in SUBSET S : SumOver(f, s) \in Nat}
<1>1. {} \in P
  BY SumEmpty
<1>2. ASSUME NEW s \in SUBSET S, s # {}, \A x \in s : s \ {x} \in P
      PROVE  s \in P
  <2>1. Pick(s) \in s /\ SumOver(f, s) = f[Pick(s)] + SumOver(f, s \ {Pick(s)})
    BY <1>2, FS_Subset, SumPick
  <2>2. SumOver(f, s \ {Pick(s)}) \in Nat
    BY <1>2, <2>1
  <2> QED BY <2>1, <2>2
<1> HIDE DEF P
<1>3. S \in P
  BY <1>1, <1>2, FiniteInduction
<1> QED BY <1>3 DEF P

\* Any element may be taken out first.
LEMMA SumRemove ==
  ASSUME NEW f, NEW S, IsFiniteSet(S), \A x \in S : f[x] \in Nat, NEW e \in S
  PROVE  SumOver(f, S) = f[e] + SumOver(f, S \ {e})
<1> DEFINE P == {s \in SUBSET S : \A x \in s : SumOver(f, s) = f[x] + SumOver(f, s \ {x})}
<1>1. {} \in P
  OBVIOUS
<1>2. ASSUME NEW s \in SUBSET S, s # {}, \A x \in s : s \ {x} \in P
      PROVE  s \in P
  <2> SUFFICES ASSUME NEW x \in s
               PROVE  SumOver(f, s) = f[x] + SumOver(f, s \ {x})
    OBVIOUS
  <2>1. Pick(s) \in s /\ SumOver(f, s) = f[Pick(s)] + SumOver(f, s \ {Pick(s)})
    BY <1>2, FS_Subset, SumPick
  <2>2. CASE x = Pick(s)
    BY <2>1, <2>2
  <2>3. CASE x # Pick(s)
    <3> DEFINE both == s \ {x, Pick(s)}
    <3>1. (s \ {Pick(s)}) \ {x} = both /\ (s \ {x}) \ {Pick(s)} = both
      OBVIOUS
    <3>2. SumOver(f, s \ {Pick(s)}) = f[x] + SumOver(f, both)
      BY <1>2, <2>1, <2>3, <3>1
    <3>3. SumOver(f, s \ {x}) = f[Pick(s)] + SumOver(f, both)
      BY <1>2, <2>1, <2>3, <3>1
    <3>4. SumOver(f, both) \in Nat
      BY SumNat, FS_Subset
    <3> HIDE DEF both
    <3>5. f[x] \in Nat /\ f[Pick(s)] \in Nat
      BY <2>1
    <3> QED BY <2>1, <3>2, <3>3, <3>4, <3>5
  <2> QED BY <2>2, <2>3
<1> HIDE DEF P
<1>3. S \in P
  BY <1>1, <1>2, FiniteInduction
<1> QED BY <1>3 DEF P

LEMMA SumAdd ==
  ASSUME NEW f, NEW S, IsFiniteSet(S), NEW e, e \notin S,
         \A x \in S \cup {e} : f[x] \in Nat
  PROVE  SumOver(f, S \cup {e}) = f[e] + SumOver(f, S)
<1>1. IsFiniteSet(S \cup {e}) /\ e \in S \cup {e} /\ (S \cup {e}) \ {e} = S
  BY FS_AddElement
<1>2. SumOver(f, S \cup {e}) = f[e] + SumOver(f, (S \cup {e}) \ {e})
  BY <1>1, SumRemove
<1> QED BY <1>1, <1>2

LEMMA SumUnion ==
  ASSUME NEW f, NEW S, NEW R, IsFiniteSet(S), IsFiniteSet(R), S \cap R = {},
         \A x \in S \cup R : f[x] \in Nat
  PROVE  SumOver(f, S \cup R) = SumOver(f, S) + SumOver(f, R)
<1> DEFINE P == {r \in SUBSET R : SumOver(f, S \cup r) = SumOver(f, S) + SumOver(f, r)}
<1>1. SumOver(f, S) \in Nat
  BY SumNat
<1>2. {} \in P
  BY <1>1, SumEmpty
<1>3. ASSUME NEW r \in SUBSET R, r # {}, \A x \in r : r \ {x} \in P
      PROVE  r \in P
  <2>1. PICK e \in r : TRUE
    BY <1>3
  <2>2. IsFiniteSet(r \ {e}) /\ IsFiniteSet(S \cup r) /\ IsFiniteSet(r)
    BY FS_Subset, FS_Union, FS_RemoveElement
  <2>3. SumOver(f, r) = f[e] + SumOver(f, r \ {e})
    BY <2>1, <2>2, SumRemove
  <2>4. SumOver(f, S \cup r) = f[e] + SumOver(f, S \cup (r \ {e}))
    <3>1. (S \cup r) \ {e} = S \cup (r \ {e})
      BY <2>1
    <3>2. SumOver(f, S \cup r) = f[e] + SumOver(f, (S \cup r) \ {e})
      BY <2>1, <2>2, SumRemove
    <3> QED BY <3>1, <3>2
  <2>5. SumOver(f, S \cup (r \ {e})) = SumOver(f, S) + SumOver(f, r \ {e})
    BY <1>3, <2>1
  <2>6. SumOver(f, r \ {e}) \in Nat /\ f[e] \in Nat
    BY <2>1, <2>2, SumNat
  <2> QED BY <1>1, <2>3, <2>4, <2>5, <2>6
<1> HIDE DEF P
<1>4. R \in P
  BY <1>2, <1>3, FiniteInduction
<1> QED BY <1>4 DEF P

\* A part sums to no more than the whole.
LEMMA SumSubset ==
  ASSUME NEW f, NEW S, IsFiniteSet(S), NEW R \in SUBSET S, \A x \in S : f[x] \in Nat
  PROVE  SumOver(f, R) <= SumOver(f, S)
<1>1. IsFiniteSet(R) /\ IsFiniteSet(S \ R) /\ R \cup (S \ R) = S
  BY FS_Subset
<1>2. SumOver(f, R \cup (S \ R)) = SumOver(f, R) + SumOver(f, S \ R)
  BY <1>1, SumUnion
<1>3. SumOver(f, R) \in Nat /\ SumOver(f, S \ R) \in Nat
  BY <1>1, SumNat
<1>4. SumOver(f, S) = SumOver(f, R) + SumOver(f, S \ R)
  BY <1>1, <1>2, Zenon
<1> QED BY <1>3, <1>4

LEMMA SumOne ==
  ASSUME NEW f, NEW e, f[e] \in Nat
  PROVE  SumOver(f, {e}) = f[e]
<1>1. {} \cup {e} = {e} /\ IsFiniteSet({})
  BY FS_EmptySet
<1>2. SumOver(f, {} \cup {e}) = f[e] + SumOver(f, {})
  BY <1>1, SumAdd
<1> QED BY <1>1, <1>2, SumEmpty

\* Entry by entry no more is no more together.
LEMMA SumLeq ==
  ASSUME NEW f, NEW g, NEW S, IsFiniteSet(S),
         \A x \in S : f[x] \in Nat /\ g[x] \in Nat /\ f[x] <= g[x]
  PROVE  SumOver(f, S) <= SumOver(g, S)
<1> DEFINE P == {s \in SUBSET S : SumOver(f, s) <= SumOver(g, s)}
<1>1. {} \in P
  BY SumEmpty
<1>2. ASSUME NEW s \in SUBSET S, s # {}, \A x \in s : s \ {x} \in P
      PROVE  s \in P
  <2>1. PICK e \in s : TRUE
    BY <1>2
  <2>2. IsFiniteSet(s) /\ IsFiniteSet(s \ {e})
    BY FS_Subset
  <2>3. /\ SumOver(f, s) = f[e] + SumOver(f, s \ {e})
        /\ SumOver(g, s) = g[e] + SumOver(g, s \ {e})
    BY <2>1, <2>2, SumRemove
  <2>4. SumOver(f, s \ {e}) <= SumOver(g, s \ {e})
    BY <1>2, <2>1
  <2>5. SumOver(f, s \ {e}) \in Nat /\ SumOver(g, s \ {e}) \in Nat
    BY <2>2, SumNat
  <2>6. f[e] \in Nat /\ g[e] \in Nat /\ f[e] <= g[e]
    BY <2>1
  <2> QED BY <2>3, <2>4, <2>5, <2>6
<1> HIDE DEF P
<1>3. S \in P
  BY <1>1, <1>2, FiniteInduction
<1> QED BY <1>3 DEF P

\* One entry of a table changed.
LEMMA SumChanged ==
  ASSUME NEW f, NEW g, NEW S, IsFiniteSet(S), NEW e \in S,
         \A x \in S : f[x] \in Nat /\ g[x] \in Nat /\ (x # e => g[x] = f[x])
  PROVE  /\ SumOver(f, S) \in Nat /\ SumOver(g, S) \in Nat
         /\ SumOver(g, S) + f[e] = SumOver(f, S) + g[e]
<1> DEFINE R == S \ {e}
<1>1. IsFiniteSet(R)
  BY FS_RemoveElement
<1>2. SumOver(f, S) = f[e] + SumOver(f, R) /\ SumOver(g, S) = g[e] + SumOver(g, R)
  BY SumRemove
<1>3. SumOver(g, R) = SumOver(f, R)
  BY <1>1, SumSame
<1>4. SumOver(f, R) \in Nat
  BY <1>1, SumNat
<1> HIDE DEF R
<1> QED BY <1>2, <1>3, <1>4

\* The same entries under other names.
LEMMA SumRenamed ==
  ASSUME NEW f, NEW g, NEW h, NEW S, IsFiniteSet(S),
         \A x \in S : f[x] \in Nat /\ g[h[x]] = f[x],
         \A x, y \in S : h[x] = h[y] => x = y
  PROVE  SumOver(g, {h[x] : x \in S}) = SumOver(f, S)
<1> DEFINE Named(s) == {h[x] : x \in s}
           P == {s \in SUBSET S : IsFiniteSet(Named(s)) /\ SumOver(g, Named(s)) = SumOver(f, s)}
<1>1. {} \in P
  <2>1. Named({}) = {}
    OBVIOUS
  <2> QED BY <2>1, SumEmpty, FS_EmptySet
<1>2. ASSUME NEW s \in SUBSET S, s # {}, \A x \in s : s \ {x} \in P
      PROVE  s \in P
  <2>1. PICK e \in s : TRUE
    BY <1>2
  <2>2. /\ Named(s) = Named(s \ {e}) \cup {h[e]}
        /\ h[e] \notin Named(s \ {e})
    BY <2>1
  <2>3. IsFiniteSet(Named(s \ {e})) /\ SumOver(g, Named(s \ {e})) = SumOver(f, s \ {e})
    BY <1>2, <2>1
  <2>4. \A x \in Named(s \ {e}) \cup {h[e]} : g[x] \in Nat
    BY <2>1
  <2>5. IsFiniteSet(s)
    BY FS_Subset
  <2>6. SumOver(f, s) = f[e] + SumOver(f, s \ {e})
    BY <2>1, <2>5, SumRemove
  <2>7. /\ SumOver(g, Named(s \ {e}) \cup {h[e]}) = g[h[e]] + SumOver(g, Named(s \ {e}))
        /\ IsFiniteSet(Named(s \ {e}) \cup {h[e]})
    <3> HIDE DEF Named
    <3> QED BY <2>2, <2>3, <2>4, SumAdd, FS_AddElement
  <2>8. g[h[e]] = f[e]
    BY <2>1
  <2> HIDE DEF Named
  <2> QED BY <2>2, <2>3, <2>6, <2>7, <2>8
<1> HIDE DEF P
<1>3. S \in P
  BY <1>1, <1>2, FiniteInduction
<1> QED BY <1>3 DEF P

\* Equal entries.
LEMMA SumConstant ==
  ASSUME NEW f, NEW S, IsFiniteSet(S), NEW k \in Nat, \A x \in S : f[x] = k
  PROVE  SumOver(f, S) = k * Cardinality(S)
<1> DEFINE P == {s \in SUBSET S : SumOver(f, s) = k * Cardinality(s)}
<1>1. {} \in P
  BY SumEmpty, FS_EmptySet
<1>2. ASSUME NEW s \in SUBSET S, s # {}, \A x \in s : s \ {x} \in P
      PROVE  s \in P
  <2>1. PICK e \in s : TRUE
    BY <1>2
  <2>2. IsFiniteSet(s)
    BY FS_Subset
  <2>3. SumOver(f, s) = f[e] + SumOver(f, s \ {e})
    BY <2>1, <2>2, SumRemove
  <2>4. SumOver(f, s \ {e}) = k * Cardinality(s \ {e})
    BY <1>2, <2>1
  <2>5. Cardinality(s \ {e}) \in Nat /\ Cardinality(s) = Cardinality(s \ {e}) + 1
    BY <2>1, <2>2, OneLess
  <2>6. f[e] = k
    BY <2>1
  <2>7. k * (Cardinality(s \ {e}) + 1) = k * Cardinality(s \ {e}) + k
    BY <2>5
  <2> QED BY <2>3, <2>4, <2>5, <2>6, <2>7
<1> HIDE DEF P
<1>3. S \in P
  BY <1>1, <1>2, FiniteInduction
<1> QED BY <1>3 DEF P

\* Every entry by one factor.
LEMMA SumScaled ==
  ASSUME NEW f, NEW g, NEW S, IsFiniteSet(S), NEW k \in Nat,
         \A x \in S : f[x] \in Nat /\ g[x] = f[x] * k
  PROVE  SumOver(g, S) = SumOver(f, S) * k
<1> DEFINE P == {s \in SUBSET S : SumOver(g, s) = SumOver(f, s) * k}
<1>1. {} \in P
  BY SumEmpty
<1>2. ASSUME NEW s \in SUBSET S, s # {}, \A x \in s : s \ {x} \in P
      PROVE  s \in P
  <2>1. PICK e \in s : TRUE
    BY <1>2
  <2>2. IsFiniteSet(s) /\ IsFiniteSet(s \ {e}) /\ \A x \in S : g[x] \in Nat
    BY FS_Subset
  <2>3. /\ SumOver(f, s) = f[e] + SumOver(f, s \ {e})
        /\ SumOver(g, s) = g[e] + SumOver(g, s \ {e})
    BY <2>1, <2>2, SumRemove
  <2>4. SumOver(g, s \ {e}) = SumOver(f, s \ {e}) * k
    BY <1>2, <2>1
  <2>5. SumOver(f, s \ {e}) \in Nat /\ f[e] \in Nat /\ g[e] = f[e] * k
    BY <2>1, <2>2, SumNat
  <2>6. (f[e] + SumOver(f, s \ {e})) * k = f[e] * k + SumOver(f, s \ {e}) * k
    BY <2>5
  <2> QED BY <2>3, <2>4, <2>5, <2>6
<1> HIDE DEF P
<1>3. S \in P
  BY <1>1, <1>2, FiniteInduction
<1> QED BY <1>3 DEF P

\* Two tables added entry by entry.
LEMMA SumPlus ==
  ASSUME NEW f, NEW g, NEW h, NEW S, IsFiniteSet(S),
         \A x \in S : f[x] \in Nat /\ g[x] \in Nat /\ h[x] = f[x] + g[x]
  PROVE  SumOver(h, S) = SumOver(f, S) + SumOver(g, S)
<1> DEFINE P == {s \in SUBSET S : SumOver(h, s) = SumOver(f, s) + SumOver(g, s)}
<1>1. {} \in P
  BY SumEmpty
<1>2. ASSUME NEW s \in SUBSET S, s # {}, \A x \in s : s \ {x} \in P
      PROVE  s \in P
  <2>1. PICK e \in s : TRUE
    BY <1>2
  <2>2. IsFiniteSet(s) /\ IsFiniteSet(s \ {e}) /\ \A x \in S : h[x] \in Nat
    BY FS_Subset
  <2>3. /\ SumOver(f, s) = f[e] + SumOver(f, s \ {e})
        /\ SumOver(g, s) = g[e] + SumOver(g, s \ {e})
        /\ SumOver(h, s) = h[e] + SumOver(h, s \ {e})
    BY <2>1, <2>2, SumRemove
  <2>4. SumOver(h, s \ {e}) = SumOver(f, s \ {e}) + SumOver(g, s \ {e})
    BY <1>2, <2>1
  <2>5. /\ SumOver(f, s \ {e}) \in Nat /\ SumOver(g, s \ {e}) \in Nat
        /\ f[e] \in Nat /\ g[e] \in Nat /\ h[e] = f[e] + g[e]
    BY <2>1, <2>2, SumNat
  <2> QED BY <2>3, <2>4, <2>5
<1> HIDE DEF P
<1>3. S \in P
  BY <1>1, <1>2, FiniteInduction
<1> QED BY <1>3 DEF P

\* No entry is more than all of them.
LEMMA SumAtLeast ==
  ASSUME NEW f, NEW S, IsFiniteSet(S), \A x \in S : f[x] \in Nat, NEW e \in S
  PROVE  f[e] <= SumOver(f, S)
<1>1. SumOver(f, S) = f[e] + SumOver(f, S \ {e})
  BY SumRemove
<1>2. SumOver(f, S \ {e}) \in Nat /\ f[e] \in Nat
  BY FS_Subset, SumNat
<1> QED BY <1>1, <1>2

\* Only the entries of a part are other than nought.
LEMMA SumOfPart ==
  ASSUME NEW f, NEW S, IsFiniteSet(S), NEW R \in SUBSET S, \A x \in S : f[x] \in Nat,
         \A x \in S \ R : f[x] = 0
  PROVE  SumOver(f, S) = SumOver(f, R)
<1> DEFINE Q == S \ R
<1>1. IsFiniteSet(R) /\ IsFiniteSet(Q) /\ R \cap Q = {} /\ R \cup Q = S
  BY FS_Subset
<1>2. SumOver(f, Q) = 0 * Cardinality(Q) /\ Cardinality(Q) \in Nat
  BY <1>1, SumConstant, FS_CardinalityType
<1>3. \A x \in R \cup Q : f[x] \in Nat
  OBVIOUS
<1> HIDE DEF Q
<1>4. SumOver(f, R \cup Q) = SumOver(f, R) + SumOver(f, Q)
  BY <1>1, <1>3, SumUnion
<1>5. SumOver(f, R) \in Nat
  BY <1>1, SumNat
<1>6. SumOver(f, S) = SumOver(f, R) + SumOver(f, Q)
  BY <1>1, <1>4, Zenon
<1> QED BY <1>2, <1>5, <1>6

\* One for every member of a part.
LEMMA SumOfOnes ==
  ASSUME NEW f, NEW S, IsFiniteSet(S), NEW R \in SUBSET S,
         \A x \in S : f[x] = IF x \in R THEN 1 ELSE 0
  PROVE  SumOver(f, S) = Cardinality(R) /\ Cardinality(R) \in Nat
<1>1. IsFiniteSet(R) /\ Cardinality(R) \in Nat
  BY FS_Subset, FS_CardinalityType
<1>2. SumOver(f, S) = SumOver(f, R)
  BY SumOfPart
<1>3. SumOver(f, R) = 1 * Cardinality(R)
  BY <1>1, SumConstant
<1> QED BY <1>1, <1>2, <1>3

-----------------------------------------------------------------------------
(* Counting *)

LEMMA CountBelow ==
  ASSUME NEW n \in Nat
  PROVE  IsFiniteSet(0 .. n - 1) /\ Cardinality(0 .. n - 1) = n
<1>1. 0 \in Int /\ n - 1 \in Int
  OBVIOUS
<1>2. IsFiniteSet(0 .. n - 1) /\ Cardinality(0 .. n - 1) = IF 0 > n - 1 THEN 0 ELSE (n - 1) - 0 + 1
  BY <1>1, FS_Interval
<1> QED BY <1>2

\* A set of sets has no more elements than its members together.
LEMMA CountUnion ==
  ASSUME NEW S, IsFiniteSet(S), NEW B, \A x \in S : IsFiniteSet(B[x])
  PROVE  /\ IsFiniteSet(UNION {B[x] : x \in S})
         /\ Cardinality(UNION {B[x] : x \in S})
              <= SumOver([x \in S |-> Cardinality(B[x])], S)
<1> DEFINE f == [x \in S |-> Cardinality(B[x])]
           Out(s) == UNION {B[x] : x \in s}
           P == {s \in SUBSET S : IsFiniteSet(Out(s)) /\ Cardinality(Out(s)) <= SumOver(f, s)}
<1>1. \A x \in S : f[x] \in Nat
  BY FS_CardinalityType
<1>2. {} \in P
  <2>1. Out({}) = {}
    OBVIOUS
  <2> HIDE DEF Out, f
  <2> QED BY <2>1, SumEmpty, FS_EmptySet
<1>3. ASSUME NEW s \in SUBSET S, s # {}, \A x \in s : s \ {x} \in P
      PROVE  s \in P
  <2>1. PICK e \in s : TRUE
    BY <1>3
  <2>2. Out(s) = Out(s \ {e}) \cup B[e]
    BY <2>1
  <2>3. /\ IsFiniteSet(Out(s \ {e})) /\ Cardinality(Out(s \ {e})) <= SumOver(f, s \ {e})
        /\ IsFiniteSet(B[e]) /\ f[e] = Cardinality(B[e])
    BY <1>3, <2>1
  <2>4. IsFiniteSet(s) /\ IsFiniteSet(s \ {e})
    BY FS_Subset
  <2> HIDE DEF Out, f
  <2>5. SumOver(f, s) = f[e] + SumOver(f, s \ {e}) /\ SumOver(f, s \ {e}) \in Nat
    BY <1>1, <2>1, <2>4, SumRemove, SumNat
  <2>6. /\ IsFiniteSet(Out(s \ {e}) \cup B[e])
        /\ Cardinality(Out(s \ {e}) \cup B[e]) <= Cardinality(Out(s \ {e})) + Cardinality(B[e])
    <3>1. /\ IsFiniteSet(Out(s \ {e}) \cup B[e])
          /\ Cardinality(Out(s \ {e}) \cup B[e])
               = Cardinality(Out(s \ {e})) + Cardinality(B[e]) - Cardinality(Out(s \ {e}) \cap B[e])
      BY <2>3, FS_Union
    <3>2. Cardinality(Out(s \ {e}) \cap B[e]) \in Nat
      BY <2>3, FS_Intersection, FS_CardinalityType
    <3>3. Cardinality(Out(s \ {e})) \in Nat /\ Cardinality(B[e]) \in Nat
      BY <2>3, FS_CardinalityType
    <3> QED BY <3>1, <3>2, <3>3
  <2>7. /\ Cardinality(Out(s \ {e})) \in Nat /\ Cardinality(B[e]) \in Nat
        /\ Cardinality(Out(s \ {e}) \cup B[e]) \in Nat
    BY <2>3, <2>6, FS_CardinalityType
  <2>8. IsFiniteSet(Out(s)) /\ Cardinality(Out(s)) = Cardinality(Out(s \ {e}) \cup B[e])
    BY <2>2, <2>6, Zenon
  <2> QED BY <2>3, <2>5, <2>6, <2>7, <2>8
<1> HIDE DEF P
<1>4. S \in P
  BY <1>2, <1>3, FiniteInduction
<1> QED BY <1>4 DEF P

\* Of sets that do not meet exactly as many.
LEMMA CountApart ==
  ASSUME NEW S, IsFiniteSet(S), NEW B, \A x \in S : IsFiniteSet(B[x]),
         \A x, y \in S : x # y => B[x] \cap B[y] = {}
  PROVE  Cardinality(UNION {B[x] : x \in S}) = SumOver([x \in S |-> Cardinality(B[x])], S)
<1> DEFINE f == [x \in S |-> Cardinality(B[x])]
           Out(s) == UNION {B[x] : x \in s}
           P == {s \in SUBSET S : IsFiniteSet(Out(s)) /\ Cardinality(Out(s)) = SumOver(f, s)}
<1>1. \A x \in S : f[x] \in Nat
  BY FS_CardinalityType
<1>2. {} \in P
  <2>1. Out({}) = {}
    OBVIOUS
  <2> HIDE DEF Out, f
  <2> QED BY <2>1, SumEmpty, FS_EmptySet
<1>3. ASSUME NEW s \in SUBSET S, s # {}, \A x \in s : s \ {x} \in P
      PROVE  s \in P
  <2>1. PICK e \in s : TRUE
    BY <1>3
  <2>2. Out(s) = Out(s \ {e}) \cup B[e] /\ Out(s \ {e}) \cap B[e] = {}
    BY <2>1
  <2>3. /\ IsFiniteSet(Out(s \ {e})) /\ Cardinality(Out(s \ {e})) = SumOver(f, s \ {e})
        /\ IsFiniteSet(B[e]) /\ f[e] = Cardinality(B[e])
    BY <1>3, <2>1
  <2>4. IsFiniteSet(s) /\ IsFiniteSet(s \ {e})
    BY FS_Subset
  <2> HIDE DEF Out, f
  <2>5. SumOver(f, s) = f[e] + SumOver(f, s \ {e}) /\ SumOver(f, s \ {e}) \in Nat
    BY <1>1, <2>1, <2>4, SumRemove, SumNat
  <2>6. /\ IsFiniteSet(Out(s))
        /\ Cardinality(Out(s)) = Cardinality(Out(s \ {e})) + Cardinality(B[e])
    <3>1. /\ IsFiniteSet(Out(s \ {e}) \cup B[e])
          /\ Cardinality(Out(s \ {e}) \cup B[e])
               = Cardinality(Out(s \ {e})) + Cardinality(B[e]) - Cardinality(Out(s \ {e}) \cap B[e])
      BY <2>3, FS_Union
    <3>2. Cardinality(Out(s \ {e}) \cap B[e]) = 0
      BY <2>2, FS_EmptySet, Zenon
    <3>3. Cardinality(Out(s \ {e})) \in Nat /\ Cardinality(B[e]) \in Nat
      BY <2>3, FS_CardinalityType
    <3>4. /\ IsFiniteSet(Out(s))
          /\ Cardinality(Out(s)) = Cardinality(Out(s \ {e}) \cup B[e])
      BY <2>2, <3>1, Zenon
    <3> QED BY <3>1, <3>2, <3>3, <3>4
  <2>7. Cardinality(Out(s \ {e})) \in Nat /\ Cardinality(B[e]) \in Nat
    BY <2>3, FS_CardinalityType
  <2> QED BY <1>1, <2>1, <2>3, <2>5, <2>6, <2>7
<1> HIDE DEF P
<1>4. S \in P
  BY <1>2, <1>3, FiniteInduction
<1> QED BY <1>4 DEF P

\* Of a finite set in order, the first n are n: `below` names what comes before
\* each element.
LEMMA FirstInOrder ==
  ASSUME NEW S, IsFiniteSet(S), NEW below \in [S -> SUBSET S],
         \A x \in S : x \notin below[x],
         \A x, y \in S : y \in below[x] => below[y] \subseteq below[x],
         \A x, y \in S : x # y => x \in below[y] \/ y \in below[x],
         NEW n \in Nat, n <= Cardinality(S)
  PROVE  Cardinality({x \in S : Cardinality(below[x]) < n}) = n
<1> DEFINE rank == [x \in S |-> Cardinality(below[x])]
           k == Cardinality(S)
           Ranks == 0 .. k - 1
           First == {x \in S : Cardinality(below[x]) < n}
<1>1. k \in Nat
  BY FS_CardinalityType
<1>2. \A x \in S : IsFiniteSet(below[x]) /\ rank[x] \in Nat
  BY FS_Subset, FS_CardinalityType
<1>3. \A x, y \in S : y \in below[x] => rank[y] < rank[x]
  <2> TAKE x, y \in S
  <2> HAVE y \in below[x]
  <2>1. below[y] \in SUBSET (below[x] \ {y})
    OBVIOUS
  <2>2. IsFiniteSet(below[x] \ {y}) /\ Cardinality(below[x]) = Cardinality(below[x] \ {y}) + 1
        /\ Cardinality(below[x] \ {y}) \in Nat
    BY <1>2, OneLess
  <2>3. Cardinality(below[y]) <= Cardinality(below[x] \ {y})
    BY <2>1, <2>2, FS_Subset
  <2> QED BY <1>2, <2>2, <2>3
<1>4. \A x \in S : rank[x] \in Ranks
  <2> TAKE x \in S
  <2>1. below[x] \in SUBSET (S \ {x})
    OBVIOUS
  <2>2. IsFiniteSet(S \ {x}) /\ k = Cardinality(S \ {x}) + 1 /\ Cardinality(S \ {x}) \in Nat
    BY OneLess
  <2>3. Cardinality(below[x]) <= Cardinality(S \ {x})
    BY <2>1, <2>2, FS_Subset
  <2> QED BY <1>1, <1>2, <2>2, <2>3
<1>5. \A x, y \in S : rank[x] = rank[y] => x = y
  <2> TAKE x, y \in S
  <2> HAVE rank[x] = rank[y]
  <2> SUFFICES ASSUME x # y PROVE FALSE
    OBVIOUS
  <2>1. rank[x] < rank[y] \/ rank[y] < rank[x]
    BY <1>3
  <2> QED BY <1>2, <2>1
<1>6. IsFiniteSet(Ranks) /\ Cardinality(Ranks) = k
  BY <1>1, CountBelow
<1>7. rank \in Surjection(S, Ranks)
  <2>1. rank \in Injection(S, Ranks)
    BY <1>4, <1>5 DEF Injection, IsInjective
  <2> HIDE DEF rank, Ranks, k
  <2> QED BY <1>6, <2>1, FS_Injection DEF k
<1>8. \A r \in Ranks : \E x \in S : rank[x] = r
  BY <1>7 DEF Surjection
<1> DEFINE pick == [x \in First |-> rank[x]]
<1>9. pick \in Bijection(First, 0 .. n - 1)
  <2>1. pick \in [First -> 0 .. n - 1]
    BY <1>2
  <2>2. \A x, y \in First : pick[x] = pick[y] => x = y
    BY <1>5
  <2>3. ASSUME NEW r \in 0 .. n - 1
        PROVE  \E x \in First : pick[x] = r
    <3>1. r \in Ranks
      BY <1>1
    <3>2. PICK x \in S : rank[x] = r
      BY <1>8, <3>1
    <3> QED BY <3>2
  <2> HIDE DEF pick, First
  <2> QED BY <2>1, <2>2, <2>3 DEF Bijection, Injection, Surjection, IsInjective
<1>10. IsFiniteSet(First) /\ IsFiniteSet(0 .. n - 1) /\ Cardinality(0 .. n - 1) = n
  <2>1. First \in SUBSET S
    OBVIOUS
  <2> QED BY <2>1, FS_Subset, CountBelow
<1>11. ExistsBijection(First, 0 .. n - 1)
  BY <1>9 DEF ExistsBijection
<1> HIDE DEF First, pick
<1> QED BY <1>10, <1>11, FS_Bijection DEF First

\* What a function takes a finite set to is finite and no larger.
LEMMA ImageSize ==
  ASSUME NEW S, IsFiniteSet(S), NEW f
  PROVE  LET T == {f[x] : x \in S}
         IN IsFiniteSet(T) /\ Cardinality(T) <= Cardinality(S) /\ Cardinality(T) \in Nat
<1> DEFINE T == {f[x] : x \in S}
           g == [x \in S |-> f[x]]
<1>1. g \in Surjection(S, T)
  BY DEF Surjection
<1> HIDE DEF g, T
<1>2. IsFiniteSet(T) /\ Cardinality(T) <= Cardinality(S)
  BY <1>1, FS_Surjection
<1> QED  BY <1>2, FS_CardinalityType DEF T

\* A set told apart by a function is no larger than what it is taken into.
LEMMA InjectedSize ==
  ASSUME NEW S, NEW T, IsFiniteSet(T), NEW f, \A x \in S : f[x] \in T,
         \A x, y \in S : f[x] = f[y] => x = y
  PROVE  IsFiniteSet(S) /\ Cardinality(S) <= Cardinality(T)
         /\ Cardinality(S) \in Nat /\ Cardinality(T) \in Nat
<1> DEFINE g == [x \in S |-> f[x]]
<1>1. g \in Injection(S, T)
  BY DEF Injection, IsInjective
<1> HIDE DEF g
<1>2. IsFiniteSet(S) /\ Cardinality(S) <= Cardinality(T)
  BY <1>1, FS_Injection
<1> QED  BY <1>2, FS_CardinalityType

-----------------------------------------------------------------------------
(* Products *)

LEMMA ProductLeq ==
  ASSUME NEW a \in Nat, NEW b \in Nat, NEW c \in Nat, NEW d \in Nat, a <= b, c <= d
  PROVE  a * c <= b * d
  OBVIOUS

LEMMA QuotientBound ==
  ASSUME NEW m \in Nat, m >= 1, NEW b \in Nat, NEW s \in Nat, m * b <= s
  PROVE  b <= s \div m /\ s \div m \in Nat
<1> DEFINE q == s \div m
           r == s % m
<1>1. q \in Int /\ r \in Int /\ s = m * q + r /\ 0 <= r /\ r < m
  OBVIOUS
<1> HIDE DEF q, r
<1>2. q >= 0
  <2> SUFFICES ASSUME q <= 0 - 1 PROVE FALSE
    BY <1>1
  <2>1. m * q <= m * (0 - 1)
    BY <1>1
  <2> QED BY <1>1, <2>1
<1>3. b <= q
  <2> SUFFICES ASSUME b >= q + 1 PROVE FALSE
    BY <1>1
  <2>1. m * b >= m * (q + 1)
    BY <1>1
  <2>2. m * (q + 1) = m * q + m
    BY <1>1
  <2> QED BY <1>1, <2>1, <2>2
<1> QED BY <1>1, <1>2, <1>3 DEF q

\* Division leaves a remainder.
LEMMA Divided ==
  ASSUME NEW m \in Nat, m >= 1, NEW s \in Nat
  PROVE  /\ s \div m \in Nat /\ s % m \in Nat /\ s % m < m
         /\ s = m * (s \div m) + (s % m) /\ (s \div m) * m <= s
<1> DEFINE q == s \div m
           r == s % m
<1>1. q \in Int /\ r \in Nat /\ r < m /\ s = m * q + r
  OBVIOUS
<1>2. q \in Nat
  <2>1. m * 0 <= s
    OBVIOUS
  <2> QED BY <2>1, QuotientBound
<1>3. q * m <= s
  <2> HIDE DEF q, r
  <2>1. m * q = q * m /\ m * q \in Nat
    BY <1>2
  <2> QED BY <1>1, <1>2, <2>1
<1> QED BY <1>1, <1>2, <1>3
=============================================================================
