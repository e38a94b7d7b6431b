------------------------------ MODULE NatExtremes ------------------------------
(***************************************************************************)
(* Least and greatest elements, which the CHOOSEs of the models rest on,   *)
(* induction for a set of numbers, and what a function is that is defined  *)
(* by recursion.                                                           *)
(***************************************************************************)
EXTENDS Integers, TLAPS, WellFoundedInduction

\* A non-empty set of naturals has a least element.
LEMMA LeastNat ==
  ASSUME NEW S \in SUBSET Nat, S # {}
  PROVE  \E m \in S : \A k \in S : m <= k
<1> DEFINE R == {ss \in Nat \X Nat : ss[1] < ss[2]}
<1>1. IsWellFoundedOn(R, Nat)
  BY NatLessThanWellFounded DEF OpToRel
<1>2. PICK x \in S : \A y \in S : ~ (<<y, x>> \in R)
  <2> HIDE DEF R
  <2> QED BY <1>1, WFMin
<1>3. ASSUME NEW y \in S PROVE x <= y
  <2>1. x \in Nat /\ y \in Nat
    OBVIOUS
  <2>2. ~(y < x)
    BY <1>2, <2>1
  <2> QED BY <2>1, <2>2
<1> QED BY <1>3

\* A non-empty set of naturals with an upper bound has a greatest element.
LEMMA GreatestNat ==
  ASSUME NEW b \in Nat, NEW S \in SUBSET (0..b), S # {}
  PROVE  \E m \in S : \A k \in S : k <= m
<1> DEFINE D == {d \in Nat : b - d \in S}
<1>1. D # {}
  <2> PICK s \in S : TRUE
    OBVIOUS
  <2>1. b - s \in Nat /\ b - (b - s) = s
    OBVIOUS
  <2> QED BY <2>1
<1>2. PICK d \in D : \A k \in D : d <= k
  <2>1. D \in SUBSET Nat
    OBVIOUS
  <2> HIDE DEF D
  <2> QED BY <1>1, <2>1, LeastNat
<1>3. ASSUME NEW k \in S PROVE k <= b - d
  <2>1. b - k \in Nat /\ b - (b - k) = k
    OBVIOUS
  <2>2. d <= b - k
    BY <1>2, <2>1
  <2> QED BY <2>2
<1> QED BY <1>2, <1>3

\* Induction.  The property is a set of numbers, so that a use of it needs no operator.
LEMMA SetInduction ==
  ASSUME NEW S \in SUBSET Nat, 0 \in S, \A n \in S : n + 1 \in S
  PROVE  S = Nat
<1>1. SUFFICES ASSUME Nat \ S # {} PROVE FALSE
  OBVIOUS
<1>2. PICK m \in Nat \ S : \A k \in Nat \ S : m <= k
  BY <1>1, LeastNat
<1>3. m # 0 /\ m - 1 \in Nat /\ ~(m <= m - 1)
  OBVIOUS
<1>4. m - 1 \in S
  BY <1>2, <1>3
<1>5. (m - 1) + 1 = m
  OBVIOUS
<1> QED BY <1>4, <1>5

\* Induction up to a bound.
LEMMA UpTo ==
  ASSUME NEW n \in Nat, NEW S \in SUBSET Nat, 0 \in S, \A k \in 1..n : k - 1 \in S => k \in S
  PROVE  \A k \in 0..n : k \in S
<1> DEFINE P == {k \in Nat : k <= n => k \in S}
<1>1. 0 \in P
  OBVIOUS
<1>2. ASSUME NEW k \in P PROVE k + 1 \in P
  <2>1. k + 1 <= n => k + 1 \in 1..n /\ (k + 1) - 1 = k /\ k <= n
    OBVIOUS
  <2> QED BY <2>1
<1>3. P = Nat
  <2>1. P \in SUBSET Nat
    OBVIOUS
  <2> HIDE DEF P
  <2> QED BY <1>1, <1>2, <2>1, SetInduction
<1>4. \A k \in 0..n : k \in P
  BY <1>3
<1> QED BY <1>4

\* f is base at 0, and at each number up to n what step makes of the value before it.
Iterates(f, n, S, base, step) ==
  f \in [0..n -> S] /\ f[0] = base /\ \A k \in 1..n : f[k] = step[k][f[k-1]]
\* There is such a function.
LEMMA Recursion ==
  ASSUME NEW n \in Nat, NEW S, NEW base \in S, NEW step \in [1..n -> [S -> S]]
  PROVE  \E f : Iterates(f, n, S, base, step)
<1> DEFINE P == {m \in Nat : \E f : Iterates(f, m, S, base, step)}
<1>1. 0 \in P
  <2>1. Iterates([k \in 0..0 |-> base], 0, S, base, step)
    BY DEF Iterates
  <2> QED BY <2>1
<1>2. ASSUME NEW m \in 1..n, m - 1 \in P PROVE m \in P
  <2>1. PICK f : Iterates(f, m - 1, S, base, step)
    BY <1>2
  <2>2. PICK x \in S : x = step[m][f[m - 1]]
    <3>1. f[m - 1] \in S /\ step[m] \in [S -> S]
      BY <2>1 DEF Iterates
    <3> QED BY <3>1
  <2> DEFINE g == [k \in 0..m |-> IF k < m THEN f[k] ELSE x]
  <2>3. g \in [0..m -> S] /\ g[0] = base
    BY <2>1 DEF Iterates
  <2>4. ASSUME NEW k \in 1..m PROVE g[k] = step[k][g[k-1]]
    <3>1. CASE k < m
      <4>1. g[k] = f[k] /\ g[k-1] = f[k-1] /\ k \in 1..m-1
        BY <3>1
      <4> QED BY <2>1, <4>1 DEF Iterates
    <3>2. CASE k = m
      <4>1. g[k] = x /\ g[k-1] = f[m-1]
        BY <3>2
      <4> QED BY <2>2, <3>2, <4>1
    <3> QED BY <3>1, <3>2
  <2> HIDE DEF g
  <2>5. Iterates(g, m, S, base, step)
    BY <2>3, <2>4 DEF Iterates
  <2> QED BY <2>5
<1>3. n \in P
  <2>1. P \in SUBSET Nat /\ n \in 0..n
    OBVIOUS
  <2> HIDE DEF P
  <2> QED BY <1>1, <1>2, <2>1, UpTo
<1> QED BY <1>3 DEF P

\* It is the only one, and its values depend on the steps up to there.
LEMMA IteratesOnce ==
  ASSUME NEW n \in Nat, NEW m \in Nat, n <= m, NEW S, NEW base, NEW step, NEW other, NEW f, NEW g,
         Iterates(f, n, S, base, step), Iterates(g, m, S, base, other),
         \A k \in 1..n : step[k] = other[k]
  PROVE  f[n] = g[n]
<1> DEFINE P == {k \in Nat : f[k] = g[k]}
<1>1. 0 \in P
  BY DEF Iterates
<1>2. ASSUME NEW k \in 1..n, k - 1 \in P PROVE k \in P
  <2>1. f[k] = step[k][f[k-1]] /\ g[k] = other[k][g[k-1]]
    BY DEF Iterates
  <2> QED BY <1>2, <2>1
<1>3. n \in P
  <2>1. P \in SUBSET Nat /\ n \in 0..n
    OBVIOUS
  <2> HIDE DEF P
  <2> QED BY <1>1, <1>2, <2>1, UpTo
<1> QED BY <1>3
==============================================================================
