--------------------------- MODULE ExpressionsProofs ---------------------------
(***************************************************************************)
(* The expression parser for any symbol table and expressions of any size: *)
(* the forms of operands, that eax is saved while it is needed, and that   *)
(* the stack is balanced on every path through the generated code.         *)
(***************************************************************************)
EXTENDS Expressions, NatExtremes

------------------------------------------------------------------------------
\* Sequences and sums over them

IsSeq(s) == \E S : s \in Seq(S)

\* What concatenation does to the elements, whatever they are.
LEMMA Concat ==
  ASSUME NEW s, NEW t, IsSeq(s), IsSeq(t)
  PROVE  /\ IsSeq(s \o t) /\ Len(s \o t) = Len(s) + Len(t)
         /\ Len(s) \in Nat /\ Len(t) \in Nat
         /\ DOMAIN s = 1..Len(s) /\ DOMAIN t = 1..Len(t)
         /\ DOMAIN (s \o t) = 1..Len(s) + Len(t)
         /\ \A i \in 1..Len(s) : (s \o t)[i] = s[i]
         /\ \A i \in 1..Len(t) : (s \o t)[Len(s) + i] = t[i]
<1>1. PICK S : s \in Seq(S)
  BY DEF IsSeq
<1>2. PICK T : t \in Seq(T)
  BY DEF IsSeq
<1> DEFINE U == S \cup T
<1>3. s \in Seq(U) /\ t \in Seq(U)
  BY <1>1, <1>2
<1> HIDE DEF U
<1>4. s \o t \in Seq(U)
  BY <1>3
<1> QED BY <1>3, <1>4 DEF IsSeq

\* Concatenation is associative.
LEMMA ConcatAssoc ==
  ASSUME NEW r, NEW s, NEW t, IsSeq(r), IsSeq(s), IsSeq(t)
  PROVE  (r \o s) \o t = r \o (s \o t)
<1>1. PICK R : r \in Seq(R)
  BY DEF IsSeq
<1>2. PICK S : s \in Seq(S)
  BY DEF IsSeq
<1>3. PICK T : t \in Seq(T)
  BY DEF IsSeq
<1> DEFINE U == R \cup S \cup T
<1>4. r \in Seq(U) /\ s \in Seq(U) /\ t \in Seq(U)
  BY <1>1, <1>2, <1>3
<1> HIDE DEF U
<1> QED BY <1>4

\* The sums of a sequence of numbers begin with 0 and each adds the next number.
LEMMA SumsProp ==
  ASSUME NEW s \in Seq(Int)
  PROVE  /\ Sums(s) \in [0..Len(s) -> Int]
         /\ Sums(s)[0] = 0
         /\ \A k \in 1..Len(s) : Sums(s)[k] = Sums(s)[k - 1] + s[k]
<1> DEFINE Partial(h, n) == /\ h \in [0..n -> Int] /\ h[0] = 0
                            /\ \A k \in 1..n : h[k] = h[k - 1] + s[k]
           P == {n \in Nat : n <= Len(s) => \E h : Partial(h, n)}
<1>1. 0 \in P
  <2>1. Partial([k \in 0..0 |-> 0], 0)
    OBVIOUS
  <2> QED BY <2>1
<1>2. ASSUME NEW n \in P PROVE n + 1 \in P
  <2> HIDE DEF Partial
  <2>0. n \in Nat /\ Len(s) \in Nat /\ (n <= Len(s) => \E h : Partial(h, n))
    OBVIOUS
  <2>1. SUFFICES ASSUME n + 1 <= Len(s) PROVE \E h : Partial(h, n + 1)
    BY <2>0
  <2>2. PICK h : Partial(h, n)
    BY <2>0, <2>1
  <2> USE DEF Partial
  <2>3. s[n + 1] \in Int /\ h[n] \in Int
    BY <2>1, <2>2
  <2> DEFINE g == [k \in 0..n + 1 |-> IF k <= n THEN h[k] ELSE h[n] + s[n + 1]]
  <2>4. g \in [0..n + 1 -> Int] /\ g[0] = 0
    <3>1. \A k \in 0..n + 1 : (IF k <= n THEN h[k] ELSE h[n] + s[n + 1]) \in Int
      BY <2>2, <2>3
    <3>2. h[0] = 0 /\ 0 \in 0..n + 1 /\ 0 <= n
      BY <2>2
    <3> QED BY <3>1, <3>2
  <2>5. ASSUME NEW k \in 1..n + 1 PROVE g[k] = g[k - 1] + s[k]
    <3>1. CASE k <= n
      BY <3>1, <2>2
    <3>2. CASE k = n + 1
      BY <3>2, <2>2
    <3> QED BY <3>1, <3>2
  <2> HIDE DEF g
  <2> QED BY <2>4, <2>5
<1>3. P = Nat
  <2> HIDE DEF P
  <2>1. P \in SUBSET Nat
    BY DEF P
  <2> QED BY <1>1, <1>2, <2>1, SetInduction
<1>4. PICK h : Partial(h, Len(s))
  <2> HIDE DEF P, Partial
  <2>1. Len(s) \in P
    BY <1>3
  <2> QED BY <2>1 DEF P
<1>5. h = [n \in 0..Len(s) |-> IF n = 0 THEN 0 ELSE h[n - 1] + s[n]]
  BY <1>4
<1> DEFINE F(f) == f = [n \in 0..Len(s) |-> IF n = 0 THEN 0 ELSE f[n - 1] + s[n]]
           f == CHOOSE x : F(x)
<1>6. F(f)
  <2>1. F(h)
    BY <1>5
  <2> HIDE DEF F
  <2> QED BY <2>1
<1>7. Sums(s) = f
  BY DEF Sums
<1> HIDE DEF f
<1>8. f[0] = 0 /\ \A k \in 1..Len(s) : f[k] = f[k - 1] + s[k]
  <2>1. 0 \in 0..Len(s) /\ \A k \in 1..Len(s) : k \in 0..Len(s) /\ k # 0
    OBVIOUS
  <2> QED BY <1>6, <2>1
<1> DEFINE Q == {n \in Nat : n <= Len(s) => f[n] \in Int}
<1>9. Q = Nat
  <2>1. 0 \in Q
    BY <1>8
  <2>2. ASSUME NEW n \in Q PROVE n + 1 \in Q
    <3>1. SUFFICES ASSUME n + 1 <= Len(s) PROVE f[n + 1] \in Int
      OBVIOUS
    <3>2. f[n + 1] = f[n] + s[n + 1] /\ f[n] \in Int /\ s[n + 1] \in Int
      BY <1>8, <3>1
    <3> QED BY <3>2
  <2>3. Q \in SUBSET Nat
    OBVIOUS
  <2> HIDE DEF Q
  <2> QED BY <2>1, <2>2, <2>3, SetInduction
<1>10. \A n \in 0..Len(s) : f[n] \in Int
  BY <1>9
<1>11. DOMAIN f = 0..Len(s) /\ f = [n \in 0..Len(s) |-> f[n]]
  BY <1>6
<1> QED BY <1>7, <1>8, <1>10, <1>11

\* n elements of t behind b are those of s behind a.
Agree(s, a, t, b, n) ==
  a + n <= Len(s) /\ b + n <= Len(t) /\ \A i \in 1..n : t[b + i] = s[a + i]
\* e grows behind b as d does behind a.
Alike(d, a, e, b, n) == \A i \in 0..n : e[b + i] = e[b] + d[a + i] - d[a]

\* Where two sequences of numbers agree, their sums grow alike.
LEMMA SumsShift ==
  ASSUME NEW s \in Seq(Int), NEW t \in Seq(Int), NEW a \in Nat, NEW b \in Nat, NEW n \in Nat,
         Agree(s, a, t, b, n)
  PROVE  Alike(Sums(s), a, Sums(t), b, n)
<1> USE DEF Agree, Alike
<1> DEFINE P == {i \in Nat : i <= n => Sums(t)[b + i] = Sums(t)[b] + Sums(s)[a + i] - Sums(s)[a]}
<1>1. /\ \A k \in 0..Len(s) : Sums(s)[k] \in Int
      /\ \A k \in 0..Len(t) : Sums(t)[k] \in Int
      /\ \A k \in 1..Len(s) : Sums(s)[k] = Sums(s)[k - 1] + s[k]
      /\ \A k \in 1..Len(t) : Sums(t)[k] = Sums(t)[k - 1] + t[k]
      /\ Len(s) \in Nat /\ Len(t) \in Nat
  <2>1. \A r \in Seq(Int) : /\ \A k \in 0..Len(r) : Sums(r)[k] \in Int
                            /\ \A k \in 1..Len(r) : Sums(r)[k] = Sums(r)[k - 1] + r[k]
    BY SumsProp
  <2> QED BY <2>1
<1>2. 0 \in P
  <2>1. Sums(s)[a] \in Int /\ Sums(t)[b] \in Int /\ a + 0 = a /\ b + 0 = b
    BY <1>1
  <2> QED BY <2>1
<1>3. ASSUME NEW i \in P PROVE i + 1 \in P
  <2>0. i \in Nat /\ (i <= n => Sums(t)[b + i] = Sums(t)[b] + Sums(s)[a + i] - Sums(s)[a])
    OBVIOUS
  <2>1. SUFFICES ASSUME i + 1 <= n
                 PROVE  Sums(t)[b + (i + 1)] = Sums(t)[b] + Sums(s)[a + (i + 1)] - Sums(s)[a]
    BY <2>0
  <2>2. /\ a + (i + 1) \in 1..Len(s) /\ (a + (i + 1)) - 1 = a + i
        /\ b + (i + 1) \in 1..Len(t) /\ (b + (i + 1)) - 1 = b + i
        /\ i + 1 \in 1..n /\ i <= n
    BY <2>0, <2>1, <1>1
  <2>3. /\ Sums(s)[a + (i + 1)] = Sums(s)[a + i] + s[a + (i + 1)]
        /\ Sums(t)[b + (i + 1)] = Sums(t)[b + i] + t[b + (i + 1)]
        /\ t[b + (i + 1)] = s[a + (i + 1)]
    BY <2>2, <1>1
  <2>4. /\ s[a + (i + 1)] \in Int /\ Sums(s)[a + i] \in Int /\ Sums(s)[a] \in Int
        /\ Sums(t)[b] \in Int
    <3>1. a + i \in 0..Len(s) /\ a \in 0..Len(s) /\ b \in 0..Len(t)
      BY <2>0, <2>1, <1>1
    <3> QED BY <2>2, <3>1, <1>1
  <2>5. Sums(t)[b + i] = Sums(t)[b] + Sums(s)[a + i] - Sums(s)[a]
    BY <2>0, <2>2
  <2>6. s[a + (i + 1)] + Sums(s)[a + i] \in Int
    BY <2>4
  <2> HIDE DEF P
  <2>7. Sums(t)[b + (i + 1)] = (Sums(t)[b] + Sums(s)[a + i] - Sums(s)[a]) + s[a + (i + 1)]
    BY <2>3, <2>5
  <2> QED BY <2>3, <2>4, <2>7, SMTT(30)
<1>4. P = Nat
  <2>1. P \in SUBSET Nat
    OBVIOUS
  <2> HIDE DEF P
  <2> QED BY <1>2, <1>3, <2>1, SetInduction
<1> QED
  <2> SUFFICES ASSUME NEW i \in 0..n
               PROVE  Sums(t)[b + i] = Sums(t)[b] + Sums(s)[a + i] - Sums(s)[a]
    OBVIOUS
  <2>1. i \in P
    <3> HIDE DEF P
    <3> QED BY <1>4
  <2> QED BY <2>1

------------------------------------------------------------------------------
\* The depth of the stack along a sequence of instructions

Instrs(s) == IsSeq(s) /\ \A i \in DOMAIN s : Pushes(s[i]) \in Int
PushesOf(s) == [i \in DOMAIN s |-> Pushes(s[i])]

\* Pushes is the sum of what the pieces of a sequence push.
LEMMA PushesProp ==
  ASSUME NEW s, Instrs(s)
  PROVE  /\ PushesOf(s) \in Seq(Int) /\ Len(PushesOf(s)) = Len(s) /\ Len(s) \in Nat
         /\ DOMAIN s = 1..Len(s)
         /\ Depths(s) = Sums(PushesOf(s))
         /\ Depths(s) \in [0..Len(s) -> Int] /\ Depths(s)[0] = 0
         /\ \A k \in 1..Len(s) : Depths(s)[k] = Depths(s)[k - 1] + Pushes(s[k])
<1>1. PICK S : s \in Seq(S)
  BY DEF Instrs, IsSeq
<1>2. Len(s) \in Nat /\ DOMAIN s = 1..Len(s)
  BY <1>1
<1>3. PushesOf(s) \in Seq(Int) /\ Len(PushesOf(s)) = Len(s)
  BY <1>2 DEF PushesOf, Instrs
<1>4. Depths(s) = Sums(PushesOf(s))
  BY DEF Depths, PushesOf
<1>5. \A k \in 1..Len(s) : PushesOf(s)[k] = Pushes(s[k])
  BY <1>2 DEF PushesOf
<1> HIDE DEF PushesOf
<1> QED BY <1>2, <1>3, <1>4, <1>5, SumsProp

\* The depths of a piece of code are numbers, the first of them 0.
LEMMA DepthsIn ==
  ASSUME NEW s, Instrs(s)
  PROVE  /\ Len(s) \in Nat /\ Depths(s)[0] = 0 /\ Depths(s)[Len(s)] \in Int
         /\ \A k \in 0..Len(s) : Depths(s)[k] \in Int
<1>1. /\ Depths(s) \in [0..Len(s) -> Int] /\ Depths(s)[0] = 0 /\ Len(s) \in Nat
  BY PushesProp
<1> QED BY <1>1

\* Where two pieces of code push and pop alike, their depths change alike.
LEMMA DepthsShift ==
  ASSUME NEW s, NEW t, Instrs(s), Instrs(t), NEW a \in Nat, NEW b \in Nat, NEW n \in Nat,
         a + n <= Len(s), b + n <= Len(t), \A i \in 1..n : Pushes(t[b + i]) = Pushes(s[a + i])
  PROVE  Alike(Depths(s), a, Depths(t), b, n)
<1>1. \A i \in 1..n : PushesOf(t)[b + i] = PushesOf(s)[a + i]
  <2> SUFFICES ASSUME NEW i \in 1..n PROVE PushesOf(t)[b + i] = PushesOf(s)[a + i]
    OBVIOUS
  <2>1. b + i \in DOMAIN t /\ a + i \in DOMAIN s
    BY PushesProp
  <2> QED BY <2>1 DEF PushesOf
<1> DEFINE x == PushesOf(s)
           y == PushesOf(t)
<1>2. /\ x \in Seq(Int) /\ Len(x) = Len(s) /\ Depths(s) = Sums(x)
      /\ y \in Seq(Int) /\ Len(y) = Len(t) /\ Depths(t) = Sums(y)
  BY PushesProp
<1>3. \A i \in 1..n : y[b + i] = x[a + i]
  BY <1>1
<1> HIDE DEF x, y
<1>4. Agree(x, a, y, b, n)
  BY <1>2, <1>3 DEF Agree
<1>5. Alike(Sums(x), a, Sums(y), b, n)
  BY <1>2, <1>4, SumsShift
<1> QED BY <1>2, <1>5

IsMark(it) == it.op \in JumpOps \cup {"label"}
Mark(op, l) == [op |-> op, size |-> 0, dst |-> Num(l), src |-> Num(0)]

\* s takes the depth of the stack from one number to another; each jump and label in it
\* is one of those in M, at the depth lev says.
Piece(s, from, to, lev, M) ==
  /\ Instrs(s)
  /\ from + Depths(s)[Len(s)] = to
  /\ \A i \in 1..Len(s) :
       IsMark(s[i]) => /\ s[i] = Mark(s[i].op, s[i].dst.n) /\ s[i].dst.n \in M
                       /\ from + Depths(s)[i] = lev[s[i].dst.n]

\* s has neither jumps nor labels, and adds k words.
Quiet(s, k) ==
  /\ Instrs(s)
  /\ Depths(s)[Len(s)] = k
  /\ \A i \in 1..Len(s) : ~IsMark(s[i])

\* The depth along a concatenation.
LEMMA DepthsConcat ==
  ASSUME NEW s, NEW t, Instrs(s), Instrs(t)
  PROVE  /\ Instrs(s \o t)
         /\ \A i \in 0..Len(s) : Depths(s \o t)[i] = Depths(s)[i]
         /\ \A i \in 0..Len(t) : Depths(s \o t)[Len(s) + i] = Depths(s)[Len(s)] + Depths(t)[i]
<1> DEFINE u == s \o t
<1>1. /\ IsSeq(u) /\ Len(u) = Len(s) + Len(t) /\ Len(s) \in Nat /\ Len(t) \in Nat
      /\ DOMAIN s = 1..Len(s) /\ DOMAIN t = 1..Len(t) /\ DOMAIN u = 1..Len(s) + Len(t)
      /\ \A i \in 1..Len(s) : u[i] = s[i]
      /\ \A i \in 1..Len(t) : u[Len(s) + i] = t[i]
  BY Concat DEF Instrs
<1> HIDE DEF u
<1>2. Instrs(u)
  <2> SUFFICES ASSUME NEW i \in 1..Len(s) + Len(t) PROVE Pushes(u[i]) \in Int
    BY <1>1 DEF Instrs
  <2>1. CASE i \in 1..Len(s)
    BY <2>1, <1>1 DEF Instrs
  <2>2. CASE i \notin 1..Len(s)
    <3>1. i - Len(s) \in 1..Len(t) /\ Len(s) + (i - Len(s)) = i
      BY <2>2, <1>1
    <3> QED BY <3>1, <1>1 DEF Instrs
  <2> QED BY <2>1, <2>2
<1>3. Alike(Depths(s), 0, Depths(u), 0, Len(s))
  <2>1. \A i \in 1..Len(s) : Pushes(u[0 + i]) = Pushes(s[0 + i])
    BY <1>1
  <2>2. 0 + Len(s) <= Len(s) /\ 0 + Len(s) <= Len(u)
    BY <1>1
  <2> QED BY <1>1, <1>2, <2>1, <2>2, DepthsShift
<1>4. Alike(Depths(t), 0, Depths(u), Len(s), Len(t))
  <2>1. \A i \in 1..Len(t) : Pushes(u[Len(s) + i]) = Pushes(t[0 + i])
    BY <1>1
  <2>2. 0 + Len(t) <= Len(t) /\ Len(s) + Len(t) <= Len(u)
    BY <1>1
  <2> QED BY <1>1, <1>2, <2>1, <2>2, DepthsShift
<1>5. /\ Depths(s) \in [0..Len(s) -> Int] /\ Depths(s)[0] = 0
      /\ Depths(t) \in [0..Len(t) -> Int] /\ Depths(t)[0] = 0
      /\ Depths(u) \in [0..Len(u) -> Int] /\ Depths(u)[0] = 0
  BY <1>2, PushesProp
<1>6. \A i \in 0..Len(s) : Depths(u)[i] = Depths(s)[i]
  <2> SUFFICES ASSUME NEW i \in 0..Len(s) PROVE Depths(u)[i] = Depths(s)[i]
    OBVIOUS
  <2>1. Depths(u)[0 + i] = Depths(u)[0] + Depths(s)[0 + i] - Depths(s)[0]
    BY <1>3 DEF Alike
  <2>2. 0 + i = i /\ Depths(s)[i] \in Int
    BY <1>1, <1>5
  <2> QED BY <1>5, <2>1, <2>2
<1>7. \A i \in 0..Len(t) : Depths(u)[Len(s) + i] = Depths(s)[Len(s)] + Depths(t)[i]
  <2> SUFFICES ASSUME NEW i \in 0..Len(t)
               PROVE  Depths(u)[Len(s) + i] = Depths(s)[Len(s)] + Depths(t)[i]
    OBVIOUS
  <2>1. Depths(u)[Len(s) + i] = Depths(u)[Len(s)] + Depths(t)[0 + i] - Depths(t)[0]
    BY <1>4 DEF Alike
  <2>2. 0 + i = i /\ Depths(t)[i] \in Int /\ Depths(s)[Len(s)] \in Int
    BY DepthsIn
  <2>3. Depths(u)[Len(s)] = Depths(s)[Len(s)]
    BY <1>1, <1>6
  <2> QED BY <1>5, <2>1, <2>2, <2>3
<1> QED BY <1>2, <1>6, <1>7 DEF u

\* Pieces follow each other.
LEMMA PieceConcat ==
  ASSUME NEW s, NEW t, NEW lev, NEW M, NEW a \in Int, NEW b \in Int, NEW c \in Int,
         Piece(s, a, b, lev, M), Piece(t, b, c, lev, M)
  PROVE  Piece(s \o t, a, c, lev, M)
<1> DEFINE u == s \o t
<1>1. Instrs(s) /\ Instrs(t)
  BY DEF Piece
<1>2. /\ Instrs(u)
      /\ \A i \in 0..Len(s) : Depths(u)[i] = Depths(s)[i]
      /\ \A i \in 0..Len(t) : Depths(u)[Len(s) + i] = Depths(s)[Len(s)] + Depths(t)[i]
  BY <1>1, DepthsConcat
<1>3. /\ Len(u) = Len(s) + Len(t) /\ Len(s) \in Nat /\ Len(t) \in Nat
      /\ \A i \in 1..Len(s) : u[i] = s[i]
      /\ \A i \in 1..Len(t) : u[Len(s) + i] = t[i]
  BY <1>1, Concat DEF Instrs
<1>4. Depths(s) \in [0..Len(s) -> Int] /\ Depths(t) \in [0..Len(t) -> Int]
  BY <1>1, PushesProp
<1> HIDE DEF u
<1>5. a + Depths(u)[Len(u)] = c
  <2>1. Depths(u)[Len(u)] = Depths(s)[Len(s)] + Depths(t)[Len(t)]
    BY <1>2, <1>3
  <2>2. Depths(s)[Len(s)] \in Int /\ Depths(t)[Len(t)] \in Int
    BY <1>3, <1>4
  <2> QED BY <2>1, <2>2 DEF Piece
<1>6. ASSUME NEW i \in 1..Len(u), IsMark(u[i])
      PROVE  /\ u[i] = Mark(u[i].op, u[i].dst.n) /\ u[i].dst.n \in M
             /\ a + Depths(u)[i] = lev[u[i].dst.n]
  <2>1. CASE i \in 1..Len(s)
    BY <1>2, <1>3, <1>6, <2>1 DEF Piece
  <2>2. CASE i \notin 1..Len(s)
    <3> DEFINE j == i - Len(s)
    <3>1. j \in 1..Len(t) /\ Len(s) + j = i
      BY <1>3, <2>2
    <3> HIDE DEF j
    <3>2. u[i] = t[j] /\ Depths(u)[i] = Depths(s)[Len(s)] + Depths(t)[j]
      BY <1>2, <1>3, <3>1
    <3>3. /\ t[j] = Mark(t[j].op, t[j].dst.n) /\ t[j].dst.n \in M
          /\ b + Depths(t)[j] = lev[t[j].dst.n] /\ a + Depths(s)[Len(s)] = b
      BY <1>6, <3>1, <3>2 DEF Piece
    <3>4. Depths(s)[Len(s)] \in Int
      <4>1. Len(s) \in 0..Len(s)
        BY <1>3
      <4> QED BY <4>1, <1>4
    <3>5. Depths(t)[j] \in Int
      <4>1. j \in 0..Len(t)
        BY <1>3, <3>1
      <4> QED BY <4>1, <1>4
    <3> QED BY <3>2, <3>3, <3>4, <3>5
  <2> QED BY <2>1, <2>2
<1>7. Piece(u, a, c, lev, M)
  BY <1>2, <1>5, <1>6 DEF Piece
<1> QED BY <1>7 DEF u

\* No instruction, and one.
LEMMA DepthsOne ==
  /\ Instrs(<<>>) /\ Len(<<>>) = 0 /\ Depths(<<>>)[0] = 0
  /\ \A it : Pushes(it) \in Int =>
       Instrs(<<it>>) /\ Len(<<it>>) = 1 /\ <<it>>[1] = it /\ Depths(<<it>>)[1] = Pushes(it)
<1>1. Instrs(<<>>) /\ Len(<<>>) = 0
  BY DEF Instrs, IsSeq
<1>2. Depths(<<>>)[0] = 0
  BY <1>1, PushesProp
<1>3. ASSUME NEW it, Pushes(it) \in Int
      PROVE  Instrs(<<it>>) /\ Len(<<it>>) = 1 /\ <<it>>[1] = it /\ Depths(<<it>>)[1] = Pushes(it)
  <2> DEFINE s == <<it>>
  <2>1. s \in Seq({it}) /\ Len(s) = 1 /\ s[1] = it /\ DOMAIN s = 1..1
    OBVIOUS
  <2> HIDE DEF s
  <2>2. Instrs(s)
    BY <1>3, <2>1 DEF Instrs, IsSeq
  <2>3. Depths(s)[0] = 0 /\ Depths(s)[1] = Depths(s)[1 - 1] + Pushes(s[1])
    <3>1. 1 \in 1..Len(s)
      BY <2>1
    <3> QED BY <2>2, <3>1, PushesProp
  <2>4. Depths(s)[1] = Pushes(it)
    BY <1>3, <2>1, <2>3
  <2> QED BY <2>1, <2>2, <2>4 DEF s
<1> QED BY <1>1, <1>2, <1>3

\* A single mark is a piece of code where the depth is its label's.
LEMMA PieceOne ==
  ASSUME NEW it, NEW lev, NEW M, NEW a \in Int, Pushes(it) = 0, it = Mark(it.op, it.dst.n),
         it.dst.n \in M, a = lev[it.dst.n]
  PROVE  Piece(<<it>>, a, a, lev, M)
<1>1. Instrs(<<it>>) /\ Len(<<it>>) = 1 /\ <<it>>[1] = it /\ Depths(<<it>>)[1] = 0
  BY DepthsOne
<1> QED BY <1>1 DEF Piece

\* Quiet pieces fit everywhere.
LEMMA QuietPiece ==
  ASSUME NEW s, NEW k \in Int, NEW a \in Int, NEW lev, NEW M, Quiet(s, k)
  PROVE  Piece(s, a, a + k, lev, M)
BY DEF Piece, Quiet

\* Two quiet sequences, one behind the other, are quiet.
LEMMA QuietConcat ==
  ASSUME NEW s, NEW t, NEW j \in Int, NEW k \in Int, Quiet(s, j), Quiet(t, k)
  PROVE  Quiet(s \o t, j + k)
<1>1. Piece(s, 0, j, <<>>, {}) /\ Piece(t, j, j + k, <<>>, {})
  <2>1. Piece(s, 0, 0 + j, <<>>, {}) /\ 0 + j = j
    BY QuietPiece
  <2>2. Piece(t, j, j + k, <<>>, {})
    BY QuietPiece
  <2> QED BY <2>1, <2>2
<1>2. j + k \in Int
  OBVIOUS
<1>3. Piece(s \o t, 0, j + k, <<>>, {})
  BY <1>1, <1>2, PieceConcat
<1>4. Instrs(s \o t)
  BY <1>3 DEF Piece
<1>5. Depths(s \o t)[Len(s \o t)] \in Int
  BY <1>4, DepthsIn
<1> QED BY <1>3, <1>5 DEF Piece, Quiet

\* An instruction that is no push, no pop, no call and no argument store is quiet.
LEMMA QuietOne ==
  /\ Quiet(<<>>, 0)
  /\ \A it : ~IsMark(it) /\ Pushes(it) \in Int => Quiet(<<it>>, Pushes(it))
<1>1. Quiet(<<>>, 0)
  BY DepthsOne DEF Quiet
<1>2. ASSUME NEW it, ~IsMark(it), Pushes(it) \in Int PROVE Quiet(<<it>>, Pushes(it))
  <2>1. /\ Instrs(<<it>>) /\ Len(<<it>>) = 1 /\ <<it>>[1] = it
        /\ Depths(<<it>>)[1] = Pushes(it)
    BY <1>2, DepthsOne
  <2> QED BY <1>2, <2>1 DEF Quiet
<1> QED BY <1>1, <1>2

------------------------------------------------------------------------------
\* The forms of operands

\* A struct expr_param, whatever its operand and its dimensions.
Good(p) ==
  /\ p = Param(p.com, p.opnd, p.numb, p.attr, p.dims)
  /\ p.attr \in Types /\ p.numb \in BOOLEAN
  /\ ParamOK(p)

\* A type of its parts.
LEMMA TypeParts ==
  ASSUME NEW a \in Types
  PROVE  /\ a = [base |-> a.base, uns |-> a.uns, ptr |-> a.ptr, arr |-> a.arr, arrp |-> a.arrp,
                 func |-> a.func, tag |-> a.tag]
         /\ a.base \in {"int", "short", "char", "none", "struct"} /\ a.uns \in BOOLEAN
         /\ a.ptr \in 0..MaxPointer /\ a.arr \in 0..MaxArray /\ a.arrp \in BOOLEAN
         /\ a.func \in BOOLEAN /\ a.tag \in DOMAIN Structs \cup {""}
         /\ a.base = "struct" => a.tag \in DOMAIN Structs
         /\ \A n \in 0..MaxPointer : [a EXCEPT !.ptr = n] \in Types
         /\ \A n \in 0..MaxArray : [a EXCEPT !.arr = n] \in Types
         /\ \A b \in BOOLEAN : [a EXCEPT !.arrp = b] \in Types
BY DEF Types

\* The types that occur in the code.
LEMMA TypeForms ==
  /\ IntAttr \in Types /\ NoAttr \in Types /\ StringAttr \in Types
  /\ \A a, b \in Types : Wider(a, b) \in Types
<1>1. ASSUME NEW b \in {"int", "short", "char", "none"}, NEW u \in BOOLEAN, NEW r \in BOOLEAN,
             NEW m \in {0, MaxArray}
      PROVE  [base |-> b, uns |-> u, ptr |-> 0, arr |-> m, arrp |-> r, func |-> FALSE,
              tag |-> ""] \in Types
  <2>1. 0 \in 0..MaxPointer /\ m \in 0..MaxArray /\ FALSE \in BOOLEAN
    BY DEF MaxPointer, MaxArray
  <2>2. b # "struct" /\ b \in {"int", "short", "char", "none", "struct"}
    OBVIOUS
  <2> QED BY <2>1, <2>2 DEF Types
<1>2. IntAttr \in Types /\ NoAttr \in Types /\ StringAttr \in Types
  BY <1>1 DEF IntAttr, NoAttr, StringAttr, Attr
<1>3. ASSUME NEW a \in Types, NEW b \in Types PROVE Wider(a, b) \in Types
  <2>1. a.uns \in BOOLEAN /\ b.uns \in BOOLEAN /\ a.arrp \in BOOLEAN /\ b.arrp \in BOOLEAN
    BY TypeParts
  <2>2. (a.uns \/ b.uns) \in BOOLEAN /\ (a.arrp \/ b.arrp) \in BOOLEAN
    OBVIOUS
  <2>3. Wider(a, b).base \in {"int", "short", "char", "none"}
    BY DEF Wider
  <2>4. Wider(a, b) =
          [base |-> Wider(a, b).base, uns |-> a.uns \/ b.uns, ptr |-> 0, arr |-> 0,
           arrp |-> a.arrp \/ b.arrp, func |-> FALSE, tag |-> ""]
    BY DEF Wider
  <2> QED BY <1>1, <2>2, <2>3, <2>4
<1> QED BY <1>2, <1>3

\* An operand with one member replaced.
LEMMA ParamWith ==
  ASSUME NEW com, NEW o, NEW numb, NEW a, NEW dims
  PROVE  LET q == Param(com, o, numb, a, dims) IN
         /\ q.com = com /\ q.opnd = o /\ q.numb = numb /\ q.attr = a /\ q.dims = dims
         /\ \A x : [q EXCEPT !.com = x] = Param(x, o, numb, a, dims)
         /\ \A x : [q EXCEPT !.opnd = x] = Param(com, x, numb, a, dims)
         /\ \A x : [q EXCEPT !.numb = x] = Param(com, o, x, a, dims)
         /\ \A x : [q EXCEPT !.attr = x] = Param(com, o, numb, x, dims)
         /\ \A x : [q EXCEPT !.dims = x] = Param(com, o, numb, a, x)
         /\ \A n : [q EXCEPT !.attr.ptr = n] = Param(com, o, numb, [a EXCEPT !.ptr = n], dims)
         /\ \A n : [q EXCEPT !.attr.arr = n] = Param(com, o, numb, [a EXCEPT !.arr = n], dims)
         /\ \A n : [q EXCEPT !.attr.arrp = n] = Param(com, o, numb, [a EXCEPT !.arrp = n], dims)
BY DEF Param

\* An operand with several members replaced.
Moved(q, com, o) == [q EXCEPT !.com = com, !.opnd = o]
Pointing(q, com, o, numb, ptr) ==
  [q EXCEPT !.com = com, !.opnd = o, !.numb = numb, !.attr.ptr = ptr]
Arrayed(q, com, o, numb, arrp) ==
  [q EXCEPT !.com = com, !.opnd = o, !.numb = numb, !.attr.arrp = arrp]
Narrowed(q, arr, dims) == [q EXCEPT !.attr.arr = arr, !.dims = dims]

\* Moved changes the place of the value and nothing else.
LEMMA ParamMoved ==
  ASSUME NEW com, NEW o, NEW numb, NEW a, NEW dims, NEW x, NEW y
  PROVE  Moved(Param(com, o, numb, a, dims), x, y) = Param(x, y, numb, a, dims)
<1> DEFINE q == Param(com, o, numb, a, dims)
           r == [q EXCEPT !.com = x]
<1>1. r = Param(x, o, numb, a, dims)
  BY ParamWith
<1>2. [q EXCEPT !.com = x, !.opnd = y] = [r EXCEPT !.opnd = y]
  <2> HIDE DEF q
  <2> QED OBVIOUS
<1> HIDE DEF r
<1> QED BY <1>1, <1>2, ParamWith DEF Moved

\* Narrowed changes the number of arrays and their dimensions.
LEMMA ParamNarrowed ==
  ASSUME NEW com, NEW o, NEW numb, NEW a, NEW dims, NEW n, NEW y
  PROVE  Narrowed(Param(com, o, numb, a, dims), n, y) = Param(com, o, numb, [a EXCEPT !.arr = n], y)
<1> DEFINE q == Param(com, o, numb, a, dims)
           r == [q EXCEPT !.attr.arr = n]
<1>1. r = Param(com, o, numb, [a EXCEPT !.arr = n], dims)
  BY ParamWith
<1>2. [q EXCEPT !.attr.arr = n, !.dims = y] = [r EXCEPT !.dims = y]
  <2> HIDE DEF q
  <2> QED OBVIOUS
<1> HIDE DEF r
<1> QED BY <1>1, <1>2, ParamWith DEF Narrowed

\* Pointing changes the place, the constant and the number of pointers.
LEMMA ParamPointing ==
  ASSUME NEW com, NEW o, NEW numb, NEW a, NEW dims, NEW x, NEW y, NEW z, NEW n
  PROVE  Pointing(Param(com, o, numb, a, dims), x, y, z, n) = Param(x, y, z, [a EXCEPT !.ptr = n], dims)
<1> DEFINE q == Param(com, o, numb, a, dims)
           r == Moved(q, x, y)
           s == [r EXCEPT !.numb = z]
<1>1. s = Param(x, y, z, a, dims)
  <2>1. r = Param(x, y, numb, a, dims)
    BY ParamMoved
  <2> HIDE DEF r
  <2> QED BY <2>1, ParamWith
<1>2. Pointing(q, x, y, z, n) = [s EXCEPT !.attr.ptr = n]
  <2> HIDE DEF q
  <2> QED BY DEF Pointing, Moved
<1>3. [s EXCEPT !.attr.ptr = n] = Param(x, y, z, [a EXCEPT !.ptr = n], dims)
  <2> HIDE DEF s
  <2> QED BY <1>1, ParamWith
<1> HIDE DEF s
<1> QED BY <1>2, <1>3

\* Arrayed changes the place, the constant and the pointer behind the arrays.
LEMMA ParamArrayed ==
  ASSUME NEW com, NEW o, NEW numb, NEW a, NEW dims, NEW x, NEW y, NEW z, NEW n
  PROVE  Arrayed(Param(com, o, numb, a, dims), x, y, z, n) = Param(x, y, z, [a EXCEPT !.arrp = n], dims)
<1> DEFINE q == Param(com, o, numb, a, dims)
           r == Moved(q, x, y)
           s == [r EXCEPT !.numb = z]
<1>1. s = Param(x, y, z, a, dims)
  <2>1. r = Param(x, y, numb, a, dims)
    BY ParamMoved
  <2> HIDE DEF r
  <2> QED BY <2>1, ParamWith
<1>2. Arrayed(q, x, y, z, n) = [s EXCEPT !.attr.arrp = n]
  <2> HIDE DEF q
  <2> QED BY DEF Arrayed, Moved
<1>3. [s EXCEPT !.attr.arrp = n] = Param(x, y, z, [a EXCEPT !.arrp = n], dims)
  <2> HIDE DEF s
  <2> QED BY <1>1, ParamWith
<1> HIDE DEF s
<1> QED BY <1>2, <1>3

\* No number.
No == FALSE
\* The hidden name of FALSE.
LEMMA NoProp == No = FALSE /\ No \in BOOLEAN /\ ~No
BY DEF No

\* A struct expr_param of its parts.
LEMMA GoodParam ==
  ASSUME NEW com \in {20, 21, 22}, NEW o, OpndOK(o),
         (o.mem = TRUE /\ com = 22) \/ (o.mem = FALSE /\ com # 22), NEW numb \in BOOLEAN,
         numb => o.base = "none", NEW a \in Types, NEW dims
  PROVE  Good(Param(com, o, numb, a, dims))
<1> DEFINE q == Param(com, o, numb, a, dims)
<1>1. a.ptr \in 0..MaxPointer /\ a.arr \in 0..MaxArray
  BY TypeParts
<1>2. q.com = com /\ q.opnd = o /\ q.numb = numb /\ q.attr = a /\ q.dims = dims
  BY ParamWith
<1>3. q = Param(q.com, q.opnd, q.numb, q.attr, q.dims)
  BY <1>2
<1> HIDE DEF q
<1>4. ParamOK(q)
  <2>1. o.mem = (com = 22)
    OBVIOUS
  <2> QED BY <1>1, <1>2, <2>1 DEF ParamOK
<1> QED BY <1>2, <1>3, <1>4 DEF Good

\* Its text is in brackets if it is a place.
LEMMA GoodKinds ==
  ASSUME NEW o, OpndOK(o), NEW numb \in BOOLEAN, numb => o.base = "none", NEW a \in Types, NEW dims
  PROVE  /\ o.mem = TRUE => Good(Param(22, o, numb, a, dims))
         /\ o.mem = FALSE => Good(Param(20, o, numb, a, dims)) /\ Good(Param(21, o, numb, a, dims))
<1>1. 20 # 22 /\ 21 # 22 /\ 20 \in {20, 21, 22} /\ 21 \in {20, 21, 22} /\ 22 \in {20, 21, 22}
  OBVIOUS
<1>2. ASSUME o.mem = TRUE PROVE Good(Param(22, o, numb, a, dims))
  BY <1>1, <1>2, GoodParam
<1>3. ASSUME o.mem = FALSE
      PROVE  Good(Param(20, o, numb, a, dims)) /\ Good(Param(21, o, numb, a, dims))
  <2>1. Good(Param(20, o, numb, a, dims))
    BY <1>1, <1>3, GoodParam
  <2>2. Good(Param(21, o, numb, a, dims))
    BY <1>1, <1>3, GoodParam
  <2> QED BY <2>1, <2>2
<1> QED BY <1>2, <1>3

\* The operands the code names.
LEMMA OpndForms ==
  /\ OpndOK(Eax) /\ Eax.mem = FALSE /\ Eax.base = "eax"
  /\ \A n : OpndOK(Num(n)) /\ Num(n).mem = FALSE /\ Num(n).base = "none"
  /\ \A b \in {"none", "eax", "ebp"} : \A n : OpndOK(At(b, n)) /\ At(b, n).mem = TRUE /\ At(b, n).base = b
  /\ \A o : OpndOK(o) => OpndOK(Brackets(o)) /\ Brackets(o).mem = TRUE /\ Brackets(o).base = o.base
  /\ \A o : OpndOK(o) => o.base \in {"none", "eax", "ebp"}
<1>1. OpndOK(Eax) /\ Eax.mem = FALSE /\ Eax.base = "eax"
  BY DEF OpndOK, Eax, Reg
<1>2. \A n : OpndOK(Num(n)) /\ Num(n).mem = FALSE /\ Num(n).base = "none"
  BY DEF OpndOK, Num
<1>3. \A b, n : At(b, n).mem = TRUE /\ At(b, n).base = b
  BY DEF At
<1>4. \A b \in {"none", "eax", "ebp"} : \A n : OpndOK(At(b, n))
  BY <1>3 DEF OpndOK
<1>5. \A o : OpndOK(o) => o.base \in {"none", "eax", "ebp"}
  BY DEF OpndOK
<1>6. ASSUME NEW o, OpndOK(o)
      PROVE  OpndOK(Brackets(o)) /\ Brackets(o).mem = TRUE /\ Brackets(o).base = o.base
  BY <1>3, <1>4, <1>5, <1>6 DEF Brackets
<1> QED BY <1>1, <1>2, <1>3, <1>4, <1>5, <1>6

\* An operand in eax, of any type.
LEMMA GoodInEax ==
  ASSUME NEW a \in Types, NEW dims
  PROVE  /\ Good(InEax(a, dims)) /\ InEax(a, dims).opnd = Eax /\ InEax(a, dims).attr = a
         /\ InEax(a, dims).com = 20 /\ InEax(a, dims).numb = FALSE
<1> DEFINE q == InEax(a, dims)
<1>1. q = Param(20, Eax, No, a, dims)
  BY NoProp DEF InEax
<1> HIDE DEF q
<1>2. OpndOK(Eax) /\ Eax.mem = FALSE /\ FALSE \in BOOLEAN
  BY OpndForms
<1>3. Good(Param(20, Eax, No, a, dims))
  BY <1>2, GoodKinds, NoProp
<1>4. Good(q) /\ q.com = 20 /\ q.opnd = Eax /\ q.attr = a /\ q.numb = No
  BY <1>1, <1>3, ParamWith
<1> QED BY <1>4, NoProp DEF q

\* What convert_com20 needs: the members, and a type.
Shaped(p) == p = Param(p.com, p.opnd, p.numb, p.attr, p.dims) /\ p.attr \in Types
\* What the rest of the proof uses of a Param of the right shape.
LEMMA Shapes == \A p : /\ Good(p) => Shaped(p)
                       /\ Shaped(p) => Shaped(AtEax(p))
<1>1. ASSUME NEW p, Good(p) PROVE Shaped(p)
  BY <1>1 DEF Good, Shaped
<1>2. ASSUME NEW p, Shaped(p) PROVE Shaped(AtEax(p))
  <2> DEFINE o == At("eax", 0)
  <2>1. p = Param(p.com, p.opnd, p.numb, p.attr, p.dims) /\ p.attr \in Types
    BY <1>2 DEF Shaped
  <2>2. AtEax(p) = Moved(p, 22, o)
    BY DEF AtEax, Moved
  <2> HIDE DEF o
  <2>3. AtEax(p) = Param(22, o, p.numb, p.attr, p.dims)
    BY <2>1, <2>2, ParamMoved
  <2>4. AtEax(p).attr = p.attr
    BY <2>3, ParamWith
  <2> QED BY <2>1, <2>3, <2>4, ParamWith DEF Shaped
<1> QED BY <1>1, <1>2

\* convert_com20 leaves an operand in eax, of the type it was given.
LEMMA GoodLoaded ==
  ASSUME NEW p, Shaped(p)
  PROVE  /\ Good(Loaded(p)) /\ Loaded(p).opnd = Eax /\ Loaded(p).com = 20
         /\ Loaded(p).attr.ptr = p.attr.ptr /\ Loaded(p).attr.arr = p.attr.arr
         /\ Loaded(p) = Param(20, Eax, No, Loaded(p).attr, p.dims)
<1>0. p = Param(p.com, p.opnd, p.numb, p.attr, p.dims) /\ p.attr \in Types
  BY DEF Shaped
<1>1. PICK r \in BOOLEAN : Loaded(p) = Arrayed(p, 20, Eax, No, r)
  <2> DEFINE x == p.attr.arrp \/ (p.com = 21 /\ p.opnd # Eax)
  <2>1. Loaded(p) = Arrayed(p, 20, Eax, No, x)
    BY NoProp DEF Loaded, Arrayed
  <2>2. x \in BOOLEAN
    OBVIOUS
  <2> HIDE DEF x
  <2> QED BY <2>1, <2>2
<1> DEFINE a == [p.attr EXCEPT !.arrp = r]
<1>2. Loaded(p) = Param(20, Eax, No, a, p.dims)
  BY <1>0, <1>1, ParamArrayed
<1>3. a \in Types /\ a.ptr = p.attr.ptr /\ a.arr = p.attr.arr
  <2> DEFINE c == p.attr
  <2>1. /\ c = [base |-> c.base, uns |-> c.uns, ptr |-> c.ptr, arr |-> c.arr, arrp |-> c.arrp,
                func |-> c.func, tag |-> c.tag]
        /\ \A b \in BOOLEAN : [c EXCEPT !.arrp = b] \in Types
    BY <1>0, TypeParts
  <2> HIDE DEF c
  <2>2. [c EXCEPT !.arrp = r] \in Types
    BY <2>1
  <2>3. [c EXCEPT !.arrp = r].ptr = c.ptr /\ [c EXCEPT !.arrp = r].arr = c.arr
    BY <2>1
  <2> QED BY <2>2, <2>3 DEF c
<1> HIDE DEF a
<1>4. OpndOK(Eax) /\ Eax.mem = FALSE /\ FALSE \in BOOLEAN /\ 20 \in {20, 21, 22}
  BY OpndForms
<1>5. Good(Loaded(p))
  BY <1>2, <1>3, <1>4, GoodKinds, NoProp
<1>6. Loaded(p).opnd = Eax /\ Loaded(p).com = 20 /\ Loaded(p).attr = a
  BY <1>2, ParamWith
<1> QED BY <1>2, <1>3, <1>5, <1>6

\* And of another type.
LEMMA GoodRetyped ==
  ASSUME NEW p, Shaped(p), NEW a \in Types
  PROVE  Good([Loaded(p) EXCEPT !.attr = a])
<1>1. Loaded(p) = Param(20, Eax, No, Loaded(p).attr, p.dims)
  BY GoodLoaded
<1>2. InEax(a, p.dims) = [Loaded(p) EXCEPT !.attr = a]
  <2> DEFINE q == Loaded(p)
  <2>1. q = Param(20, Eax, No, q.attr, p.dims)
    BY <1>1
  <2> HIDE DEF q
  <2>2. [q EXCEPT !.attr = a] = Param(20, Eax, No, a, p.dims)
    BY <2>1, ParamWith
  <2>3. InEax(a, p.dims) = Param(20, Eax, No, a, p.dims)
    BY NoProp DEF InEax
  <2> QED BY <2>2, <2>3 DEF q
<1>3. Good(InEax(a, p.dims))
  BY GoodInEax
<1> QED BY <1>2, <1>3, Zenon

\* And of a pointer with another number of levels.
LEMMA GoodRepointed ==
  ASSUME NEW p, Shaped(p), NEW n \in 0..MaxPointer
  PROVE  Good([Loaded(p) EXCEPT !.attr.ptr = n])
<1> DEFINE q == Loaded(p)
<1>1. q = Param(20, Eax, No, q.attr, p.dims) /\ q.attr \in Types
  BY GoodLoaded DEF Good
<1> DEFINE a == [q.attr EXCEPT !.ptr = n]
<1>2. a \in Types
  BY <1>1, TypeParts
<1> HIDE DEF q
<1>3. [q EXCEPT !.attr.ptr = n] = Param(20, Eax, No, a, p.dims)
  BY <1>1, ParamWith
<1> HIDE DEF a
<1>4. Good(Param(20, Eax, No, a, p.dims))
  BY <1>2, OpndForms, GoodKinds, NoProp
<1> QED BY <1>3, <1>4 DEF q

\* convert_com22 leaves a place, at the register the operand names.
LEMMA GoodPlace ==
  ASSUME NEW p, Good(p), IsPlace(p)
  PROVE  Good(Place(p)) /\ Place(p).opnd.base = p.opnd.base /\ Place(p).com = 22
<1>1. /\ p = Param(p.com, p.opnd, p.numb, p.attr, p.dims) /\ p.attr \in Types /\ OpndOK(p.opnd)
      /\ p.com \in {20, 21, 22}
  BY DEF Good, ParamOK
<1> DEFINE o == Brackets(p.opnd)
<1>2. OpndOK(o) /\ o.mem = TRUE /\ o.base = p.opnd.base
  BY <1>1, OpndForms
<1> HIDE DEF o
<1>3. ASSUME NEW a \in Types
      PROVE  LET q == Param(22, o, No, a, p.dims)
             IN Good(q) /\ q.opnd.base = p.opnd.base /\ q.com = 22
  <2>1. Good(Param(22, o, No, a, p.dims))
    BY <1>2, GoodKinds, NoProp
  <2> QED BY <1>2, <2>1, ParamWith
<1>4. CASE p.com = 20
  <2> DEFINE a == [p.attr EXCEPT !.ptr = p.attr.ptr - 1]
  <2>1. Place(p) = Param(22, o, No, a, p.dims)
    <3>1. Place(p) = Pointing(p, 22, o, No, p.attr.ptr - 1)
      <4>1. Place(p) = [p EXCEPT !.com = 22, !.opnd = o, !.numb = FALSE,
                                 !.attr.ptr = p.attr.ptr - 1]
        BY <1>4 DEF Place, o
      <4> QED BY <4>1, NoProp DEF Pointing
    <3> QED BY <1>1, <3>1, ParamPointing
  <2>2. p.attr.ptr - 1 \in 0..MaxPointer
    <3>1. p.attr.ptr \in 0..MaxPointer
      BY <1>1, TypeParts
    <3>2. p.attr.ptr > 0
      BY <1>4 DEF IsPlace
    <3> QED BY <3>1, <3>2 DEF MaxPointer
  <2>3. a \in Types
    BY <1>1, <2>2, TypeParts
  <2> HIDE DEF a
  <2> QED BY <1>3, <2>1, <2>3
<1>5. CASE p.com = 21
  <2> DEFINE a == [p.attr EXCEPT !.arrp = No]
  <2>1. Place(p) = Param(22, o, No, a, p.dims)
    <3>1. Place(p) = Arrayed(p, 22, o, No, No)
      <4>1. Place(p) = [p EXCEPT !.com = 22, !.opnd = o, !.numb = FALSE, !.attr.arrp = FALSE]
        <5>1. p.com # 20
          BY <1>5
        <5> QED BY <1>5, <5>1 DEF Place, o
      <4> QED BY <4>1, NoProp DEF Arrayed
    <3> QED BY <1>1, <3>1, ParamArrayed
  <2>2. a \in Types
    BY <1>1, NoProp, TypeParts
  <2> HIDE DEF a
  <2> QED BY <1>3, <2>1, <2>2
<1>6. CASE p.com = 22
  BY <1>6 DEF Place
<1> QED BY <1>1, <1>4, <1>5, <1>6

\* A number is set in place of another.
LEMMA GoodNumber ==
  ASSUME NEW p, Good(p), p.com = 20, NEW n
  PROVE  Good(SetNumber(p, n)) /\ SetNumber(p, n).opnd.base = "none"
<1>1. p = Param(20, p.opnd, p.numb, p.attr, p.dims) /\ p.attr \in Types /\ p.numb \in BOOLEAN
  BY DEF Good
<1> DEFINE o == Num(n)
<1>2. OpndOK(o) /\ o.mem = FALSE /\ o.base = "none"
  BY OpndForms
<1>3. SetNumber(p, n) = [p EXCEPT !.opnd = o]
  BY DEF SetNumber
<1> HIDE DEF o
<1>4. SetNumber(p, n) = Param(20, o, p.numb, p.attr, p.dims)
  BY <1>1, <1>3, ParamWith
<1>5. Good(Param(20, o, p.numb, p.attr, p.dims))
  BY <1>1, <1>2, GoodKinds
<1> QED BY <1>2, <1>4, <1>5, ParamWith

------------------------------------------------------------------------------
\* The operands of the parser

\* Operators that push expr_p1 exactly if it is used.
Saves == Product \cup Sum \cup Shift \cup BitOps \cup Assign

\* A frame, and the words it holds by its operator.
FrameOK(f) ==
  /\ f = [op |-> f.op, kids |-> f.kids, sym |-> f.sym, p |-> f.p, used |-> f.used,
          pushed |-> f.pushed, label |-> f.label, save |-> f.save, start |-> f.start,
          labels |-> f.labels]
  /\ Good(f.p) /\ f.used \in BOOLEAN /\ f.pushed \in Nat
  /\ f.op \in Saves => f.pushed = IF f.used THEN 1 ELSE 0
  /\ f.op \in Order \cup Equality => f.pushed = 1
  /\ f.op = "[]" => f.pushed \in {0, 1}
  /\ f.op \in Forgets \ {"call"} => f.pushed = 0
  /\ f.op = "call" => f.sym \in DOMAIN Symbols /\ f.pushed = Symbols[f.sym].params
  /\ f.op \notin Forgets /\ f.p.opnd.base = "eax" => f.pushed = 1

FramesOK(s) == IsSeq(s) /\ \A i \in 1..Len(s) : FrameOK(s[i])

Errors ==
  {"none", "E_SYNTAX_ERROR", "E_TO_BE_DEFINE", "E_TABLE_OVERFLOW", "E_VARIABLE_TYPE_ERROR",
   "E_PARAM_NUMBER_ERROR", "E_NOT_STRUCTURE", "E_UNDEFINED_SYMBOL", "E_INTERNAL_ERROR",
   "undefined", "divide"}

\* An operand: in eax only if it is used.
OperandOK(x) ==
  /\ Good(x.p) /\ x.used \in BOOLEAN
  /\ x.op # "none" /\ x.p.opnd.base = "eax" => x.used

\* The labels of what was parsed before the operand to come are counted.
Numbered(s, n) == \A i \in 1..Len(s) : s[i].labels \in 0..n

\* The inductive invariant of TypeOK and EaxKept.
Formed ==
  /\ profile \in Profiles /\ OperandOK(cur) /\ FramesOK(frames)
  /\ Numbered(frames, label_counter)
  /\ label_counter \in Nat /\ built \in Nat /\ err \in Errors

\* Operands are operands of their parts.
LEMMA OperandParts ==
  ASSUME NEW p, NEW used, NEW op, NEW kids, NEW sym, NEW n
  PROVE  LET x == Operand(p, used, op, kids, sym, n) IN
         /\ x.p = p /\ x.used = used /\ x.op = op
         /\ x.kids = kids /\ x.sym = sym /\ x.n = n
BY DEF Operand

\* Operators are opened and closed at the end of frames.
LEMMA FramesAppend ==
  ASSUME NEW s, FramesOK(s), NEW f, FrameOK(f)
  PROVE  /\ FramesOK(Append(s, f)) /\ Len(Append(s, f)) = Len(s) + 1 /\ Len(s) \in Nat
         /\ Append(s, f)[Len(s) + 1] = f /\ \A i \in 1..Len(s) : Append(s, f)[i] = s[i]
<1>1. PICK S : s \in Seq(S)
  BY DEF FramesOK, IsSeq
<1> DEFINE U == S \cup {f}
<1>2. s \in Seq(U) /\ f \in U
  BY <1>1
<1> HIDE DEF U
<1>3. /\ Append(s, f) \in Seq(U) /\ Len(Append(s, f)) = Len(s) + 1 /\ Len(s) \in Nat
      /\ Append(s, f)[Len(s) + 1] = f /\ \A i \in 1..Len(s) : Append(s, f)[i] = s[i]
  BY <1>2
<1>4. ASSUME NEW i \in 1..Len(s) + 1 PROVE FrameOK(Append(s, f)[i])
  <2>1. CASE i = Len(s) + 1
    BY <2>1, <1>3
  <2>2. CASE i # Len(s) + 1
    <3>1. i \in 1..Len(s)
      BY <2>2, <1>3
    <3> QED BY <3>1, <1>3 DEF FramesOK
  <2> QED BY <2>1, <2>2
<1> QED BY <1>3, <1>4 DEF FramesOK, IsSeq

\* The frames below the top keep what they promise when the top is taken away.
LEMMA FramesFront ==
  ASSUME NEW s, FramesOK(s), s # <<>>
  PROVE  /\ FramesOK(Front(s)) /\ Len(Front(s)) = Len(s) - 1 /\ Len(s) \in Nat \ {0}
         /\ Len(s) \in 1..Len(s) /\ FrameOK(s[Len(s)])
         /\ \A i \in 1..Len(s) - 1 : Front(s)[i] = s[i]
<1>1. PICK S : s \in Seq(S)
  BY DEF FramesOK, IsSeq
<1>2. Len(s) \in Nat \ {0}
  BY <1>1
<1>3. /\ Front(s) \in Seq(S) /\ Len(Front(s)) = Len(s) - 1
      /\ \A i \in 1..Len(s) - 1 : Front(s)[i] = s[i]
  <2> DEFINE n == Len(s) - 1
  <2>1. n \in Nat /\ 1 \in 1..Len(s) + 1 /\ n \in 0..Len(s) /\ Front(s) = SubSeq(s, 1, n)
    BY <1>2 DEF Front
  <2>2. \A i \in 1..n : s[i] \in S
    BY <1>1, <1>2
  <2>3. SubSeq(s, 1, n) = [i \in 1..n |-> s[i]]
    BY <1>1, <2>1
  <2> HIDE DEF n
  <2>4. Front(s) \in Seq(S) /\ Len(Front(s)) = n /\ \A i \in 1..n : Front(s)[i] = s[i]
    BY <2>1, <2>2, <2>3
  <2> QED BY <2>4 DEF n
<1>4. Len(s) \in 1..Len(s) /\ \A i \in 1..Len(s) - 1 : i \in 1..Len(s)
  BY <1>2
<1> QED BY <1>2, <1>3, <1>4 DEF FramesOK, IsSeq

\* Top.kids and Top.start change.
LEMMA FramesTop ==
  ASSUME NEW s, FramesOK(s), s # <<>>, NEW kids, NEW start, NEW t,
         t = [s EXCEPT ![Len(s)].kids = kids, ![Len(s)].start = start]
  PROVE  /\ FramesOK(t) /\ Len(t) = Len(s) /\ Len(s) \in Nat \ {0}
         /\ \A i \in 1..Len(s) - 1 : t[i] = s[i]
         /\ LET f == s[Len(s)]
                g == t[Len(s)]
            IN /\ g.op = f.op /\ g.kids = kids /\ g.sym = f.sym /\ g.p = f.p /\ g.used = f.used
               /\ g.pushed = f.pushed /\ g.label = f.label /\ g.save = f.save
               /\ g.start = start /\ g.labels = f.labels
<1>1. PICK S : s \in Seq(S)
  BY DEF FramesOK, IsSeq
<1>2. Len(s) \in Nat \ {0} /\ Len(s) \in 1..Len(s) /\ FrameOK(s[Len(s)])
  BY FramesFront
<1> DEFINE f == s[Len(s)]
           g == [op |-> f.op, kids |-> kids, sym |-> f.sym, p |-> f.p, used |-> f.used,
                 pushed |-> f.pushed, label |-> f.label, save |-> f.save, start |-> start,
                 labels |-> f.labels]
<1>3. [f EXCEPT !.kids = kids, !.start = start] = g
  <2>1. f = [op |-> f.op, kids |-> f.kids, sym |-> f.sym, p |-> f.p, used |-> f.used,
             pushed |-> f.pushed, label |-> f.label, save |-> f.save, start |-> f.start,
             labels |-> f.labels]
    BY <1>2 DEF FrameOK
  <2> HIDE DEF f
  <2> DEFINE r == [f EXCEPT !.kids = kids]
  <2>2. r = [op |-> f.op, kids |-> kids, sym |-> f.sym, p |-> f.p, used |-> f.used,
             pushed |-> f.pushed, label |-> f.label, save |-> f.save, start |-> f.start,
             labels |-> f.labels]
    BY <2>1
  <2>3. [f EXCEPT !.kids = kids, !.start = start] = [r EXCEPT !.start = start]
    OBVIOUS
  <2> HIDE DEF r
  <2> QED BY <2>2, <2>3
<1>4. t = [i \in DOMAIN s |-> IF i = Len(s) THEN [f EXCEPT !.kids = kids, !.start = start] ELSE s[i]]
  BY <1>1, <1>2
<1> HIDE DEF f
<1>5. t = [i \in 1..Len(s) |-> IF i = Len(s) THEN g ELSE s[i]]
  <2>1. DOMAIN s = 1..Len(s)
    BY <1>1
  <2> HIDE DEF g
  <2> QED BY <1>3, <1>4, <2>1
<1> HIDE DEF g
<1>6. t \in Seq(S \cup {g}) /\ Len(t) = Len(s)
  BY <1>1, <1>2, <1>5
<1>7. t[Len(s)] = g /\ \A i \in 1..Len(s) - 1 : t[i] = s[i]
  <2>1. \A i \in 1..Len(s) - 1 : i \in 1..Len(s) /\ i # Len(s)
    BY <1>2
  <2> QED BY <1>2, <1>5, <2>1
<1>8. FrameOK(f)
  BY <1>2 DEF f
<1>9. FrameOK(g)
  BY <1>8 DEF FrameOK, g
<1>10. \A i \in 1..Len(s) : FrameOK(t[i])
  BY <1>5, <1>9 DEF FramesOK
<1>11. FramesOK(t)
  BY <1>6, <1>10 DEF FramesOK, IsSeq
<1> QED BY <1>2, <1>6, <1>7, <1>11 DEF f, g

\* Numbered of frames that are opened, closed or changed.
LEMMA NumberedKeeps ==
  ASSUME NEW s, FramesOK(s), NEW n \in Nat, Numbered(s, n)
  PROVE  /\ \A m \in Nat : n <= m => Numbered(s, m)
         /\ \A m \in Nat : \A f : n <= m /\ FrameOK(f) /\ f.labels \in 0..m => Numbered(Append(s, f), m)
         /\ s # <<>> => Numbered(Front(s), n) /\ s[Len(s)].labels \in 0..n
         /\ \A kids, start, t :
              s # <<>> /\ t = [s EXCEPT ![Len(s)].kids = kids, ![Len(s)].start = start]
                => Numbered(t, n)
<1>1. ASSUME NEW m \in Nat, n <= m PROVE Numbered(s, m)
  BY <1>1 DEF Numbered
<1>2. ASSUME NEW m \in Nat, NEW f, n <= m, FrameOK(f), f.labels \in 0..m
      PROVE  Numbered(Append(s, f), m)
  <2>1. Numbered(s, m)
    BY <1>1, <1>2
  <2>2. /\ Len(Append(s, f)) = Len(s) + 1 /\ Len(s) \in Nat
        /\ Append(s, f)[Len(s) + 1] = f /\ \A i \in 1..Len(s) : Append(s, f)[i] = s[i]
    BY <1>2, FramesAppend
  <2>3. ASSUME NEW i \in 1..Len(s) + 1 PROVE Append(s, f)[i].labels \in 0..m
    <3>1. CASE i = Len(s) + 1
      BY <1>2, <2>2, <3>1
    <3>2. CASE i # Len(s) + 1
      <4>1. i \in 1..Len(s)
        BY <2>2, <3>2
      <4> QED BY <2>1, <2>2, <4>1 DEF Numbered
    <3> QED BY <3>1, <3>2
  <2> QED BY <2>2, <2>3 DEF Numbered
<1>3. ASSUME s # <<>> PROVE Numbered(Front(s), n) /\ s[Len(s)].labels \in 0..n
  <2>1. /\ Len(Front(s)) = Len(s) - 1 /\ Len(s) \in Nat \ {0} /\ Len(s) \in 1..Len(s)
        /\ \A i \in 1..Len(s) - 1 : Front(s)[i] = s[i]
    BY <1>3, FramesFront
  <2>2. \A i \in 1..Len(s) - 1 : i \in 1..Len(s)
    BY <2>1
  <2> QED BY <2>1, <2>2 DEF Numbered
<1>4. ASSUME NEW kids, NEW start, NEW t, s # <<>>,
             t = [s EXCEPT ![Len(s)].kids = kids, ![Len(s)].start = start]
      PROVE  Numbered(t, n)
  <2>1. /\ Len(t) = Len(s) /\ Len(s) \in Nat \ {0} /\ t[Len(s)].labels = s[Len(s)].labels
        /\ \A i \in 1..Len(s) - 1 : t[i] = s[i]
    BY <1>4, FramesTop
  <2>2. \A i \in 1..Len(s) : i = Len(s) \/ i \in 1..Len(s) - 1
    BY <2>1
  <2> QED BY <2>1, <2>2 DEF Numbered
<1> QED BY <1>1, <1>2, <1>3, <1>4

------------------------------------------------------------------------------
\* Chains of members

\* What a link takes and leaves.
LinkOK(z) ==
  /\ z = [p |-> z.p, first |-> z.first, err |-> z.err, x |-> z.x, items |-> z.items]
  /\ Shaped(z.p) /\ z.err \in Errors

\* Links(chain) begins with the operand and applies one link after the other.
LEMMA LinksProp ==
  ASSUME NEW chain, NEW S, chain \in Seq(S)
  PROVE  /\ Len(chain) \in Nat
         /\ Links(chain)[0] = Unlinked
         /\ \A k \in 1..Len(chain) : Links(chain)[k] = Link(Links(chain)[k - 1], chain[k])
<1> DEFINE Chain(h, n) == /\ h = [k \in 0..n |-> h[k]] /\ h[0] = Unlinked
                          /\ \A k \in 1..n : h[k] = Link(h[k - 1], chain[k])
           P == {n \in Nat : n <= Len(chain) => \E h : Chain(h, n)}
<1>0. Len(chain) \in Nat
  OBVIOUS
<1>1. 0 \in P
  <2>1. Chain([k \in 0..0 |-> Unlinked], 0)
    OBVIOUS
  <2> HIDE DEF Chain
  <2> QED BY <2>1
<1>2. ASSUME NEW n \in P PROVE n + 1 \in P
  <2> HIDE DEF Chain
  <2>0. n \in Nat /\ (n <= Len(chain) => \E h : Chain(h, n))
    OBVIOUS
  <2>1. SUFFICES ASSUME n + 1 <= Len(chain) PROVE \E h : Chain(h, n + 1)
    BY <2>0
  <2>2. PICK h : Chain(h, n)
    BY <2>0, <2>1, <1>0
  <2> USE DEF Chain
  <2> DEFINE g == [k \in 0..n + 1 |-> IF k <= n THEN h[k] ELSE Link(h[n], chain[n + 1])]
  <2>3. g[0] = Unlinked /\ g = [k \in 0..n + 1 |-> g[k]]
    BY <2>0, <2>2
  <2>4. ASSUME NEW k \in 1..n + 1 PROVE g[k] = Link(g[k - 1], chain[k])
    <3>1. k \in 0..n + 1 /\ k - 1 \in 0..n + 1 /\ k - 1 <= n
      BY <2>0
    <3>2. g[k - 1] = h[k - 1]
      BY <3>1
    <3>3. CASE k <= n
      <4>1. g[k] = h[k]
        BY <3>1, <3>3
      <4>2. h[k] = Link(h[k - 1], chain[k])
        <5>1. k \in 1..n
          BY <2>0, <3>3
        <5>2. \A j \in 1..n : h[j] = Link(h[j - 1], chain[j])
          BY <2>2
        <5> HIDE DEF g
        <5> QED BY <5>1, <5>2
      <4> HIDE DEF g
      <4> QED BY <3>2, <4>1, <4>2
    <3>4. CASE k = n + 1
      <4>1. g[k] = Link(h[n], chain[n + 1])
        BY <2>0, <3>1, <3>4
      <4>2. k - 1 = n
        BY <2>0, <3>4
      <4> HIDE DEF g
      <4> QED BY <3>2, <3>4, <4>1, <4>2
    <3> QED BY <2>0, <3>3, <3>4
  <2> HIDE DEF g
  <2>5. Chain(g, n + 1)
    BY <2>3, <2>4
  <2> QED BY <2>5
<1>3. P = Nat
  <2> HIDE DEF P
  <2>1. P \in SUBSET Nat
    BY DEF P
  <2> QED BY <1>1, <1>2, <2>1, SetInduction
<1>4. PICK h : Chain(h, Len(chain))
  <2> HIDE DEF P, Chain
  <2>1. Len(chain) \in P
    BY <1>0, <1>3
  <2> QED BY <2>1, <1>0 DEF P
<1> DEFINE F(f) == f = [k \in 0..Len(chain) |-> IF k = 0 THEN Unlinked ELSE Link(f[k - 1], chain[k])]
           f == CHOOSE x : F(x)
<1>5. F(h)
  <2>1. ASSUME NEW k \in 0..Len(chain)
        PROVE  h[k] = IF k = 0 THEN Unlinked ELSE Link(h[k - 1], chain[k])
    <3>1. CASE k = 0
      BY <1>4, <3>1
    <3>2. CASE k # 0
      <4>1. k \in 1..Len(chain)
        BY <1>0, <3>2
      <4> QED BY <1>4, <3>2, <4>1
    <3> QED BY <3>1, <3>2
  <2>2. h = [k \in 0..Len(chain) |-> h[k]]
    BY <1>4
  <2> QED BY <2>1, <2>2
<1>6. F(f)
  <2> HIDE DEF F
  <2> QED BY <1>5
<1>7. Links(chain) = f
  BY DEF Links
<1> HIDE DEF f
<1> QED BY <1>0, <1>6, <1>7

\* A link leaves an operand whatever it is given.
LEMMA LinkKeeps ==
  ASSUME NEW z, LinkOK(z), NEW l
  PROVE  LinkOK(Link(z, l))
<1> DEFINE R == Structs[z.p.attr.tag]
<1>1. CASE z.err # "none"
  BY <1>1 DEF Link
<1>2. ASSUME NEW e \in Errors PROVE LinkOK([z EXCEPT !.err = e])
  <2>1. [z EXCEPT !.err = e] = [p |-> z.p, first |-> z.first, err |-> e, x |-> z.x, items |-> z.items]
    BY DEF LinkOK
  <2> DEFINE w == [p |-> z.p, first |-> z.first, err |-> e, x |-> z.x, items |-> z.items]
  <2>2. w.p = z.p /\ w.first = z.first /\ w.err = e /\ w.x = z.x /\ w.items = z.items
    OBVIOUS
  <2>3. LinkOK(w)
    <3>1. w = [p |-> w.p, first |-> w.first, err |-> w.err, x |-> w.x, items |-> w.items]
      OBVIOUS
    <3> HIDE DEF w
    <3> QED BY <2>2, <3>1 DEF LinkOK
  <2> QED BY <2>1, <2>3
<1>3. CASE z.err = "none" /\ NotStructure(l.op, z.p.attr)
  BY <1>2, <1>3 DEF Link, Errors
<1>4. CASE z.err = "none" /\ ~NotStructure(l.op, z.p.attr) /\ l.name \notin DOMAIN R.elem
  BY <1>2, <1>4 DEF Link, Errors
<1>5. CASE z.err = "none" /\ ~NotStructure(l.op, z.p.attr) /\ l.name \in DOMAIN R.elem
  <2> DEFINE e == R.elem[l.name]
             p == InEax(e.attr, e.dims)
  <2>1. PICK x, items : Link(z, l) = [p |-> p, first |-> FALSE, err |-> "none", x |-> x, items |-> items]
    BY <1>5 DEF Link
  <2>2. e.attr \in Types
    <3>1. z.p.attr \in Types /\ z.p.attr.base = "struct"
      BY <1>5 DEF LinkOK, Shaped, NotStructure
    <3>2. z.p.attr.tag \in DOMAIN Structs
      BY <3>1, TypeParts
    <3> QED BY <1>5, <3>2, TablesAssumption
  <2> HIDE DEF e
  <2>3. Shaped(p)
    BY <2>2, GoodInEax, Shapes
  <2> HIDE DEF p
  <2> QED BY <2>1, <2>3 DEF LinkOK, Errors
<1> QED BY <1>1, <1>3, <1>4, <1>5

\* All links of a chain.
LEMMA LinksKeep ==
  ASSUME NEW chain, NEW S, chain \in Seq(S), Shaped(cur.p)
  PROVE  LinkOK(Links(chain)[Len(chain)])
<1> DEFINE P == {k \in Nat : k <= Len(chain) => LinkOK(Links(chain)[k])}
<1>1. 0 \in P
  <2>1. LinkOK(Unlinked)
    BY DEF LinkOK, Unlinked, Errors
  <2> QED BY <2>1, LinksProp
<1>2. ASSUME NEW k \in P PROVE k + 1 \in P
  <2>0. k \in Nat /\ (k <= Len(chain) => LinkOK(Links(chain)[k]))
    OBVIOUS
  <2>1. SUFFICES ASSUME k + 1 <= Len(chain) PROVE LinkOK(Links(chain)[k + 1])
    BY <2>0
  <2>2. Len(chain) \in Nat /\ k + 1 \in 1..Len(chain) /\ (k + 1) - 1 = k /\ k <= Len(chain)
    BY <2>0, <2>1
  <2>3. Links(chain)[k + 1] = Link(Links(chain)[k], chain[k + 1])
    BY <2>2, LinksProp
  <2>4. LinkOK(Links(chain)[k])
    BY <2>0, <2>2
  <2> QED BY <2>3, <2>4, LinkKeeps
<1>3. P = Nat
  <2>1. P \in SUBSET Nat
    OBVIOUS
  <2> HIDE DEF P
  <2> QED BY <1>1, <1>2, <2>1, SetInduction
<1>4. Len(chain) \in P
  <2> HIDE DEF P
  <2> QED BY <1>3
<1> QED BY <1>4

------------------------------------------------------------------------------
\* The steps the actions are made of

\* An expression is refused.
LEMMA FormedRefuse ==
  ASSUME Formed, NEW e \in Errors, Refuse(e)
  PROVE  Formed'
BY DEF Formed, Refuse

\* A symbol or a constant is parsed.
LEMMA FormedPrimary ==
  ASSUME Formed, NEW p, NEW used \in BOOLEAN, NEW op, NEW sym, NEW n, NEW items,
         Good(p), p.opnd.base = "eax" => used, Primary(p, used, op, sym, n, items)
  PROVE  Formed'
<1>1. cur'.p = p /\ cur'.used = used
  BY OperandParts DEF Primary
<1> QED BY <1>1 DEF Formed, Primary, OperandOK

\* A prefix or postfix operator is applied.
LEMMA FormedLabelled ==
  ASSUME Formed, NEW op, NEW p, NEW used \in BOOLEAN, NEW items, NEW labels \in Nat,
         Good(p), p.opnd.base = "eax" => used, ApplyLabelled(op, p, used, items, labels)
  PROVE  Formed'
<1>1. cur'.p = p /\ cur'.used = used
  BY DEF ApplyLabelled, Operand
<1>2. label_counter' \in Nat /\ built' \in Nat /\ label_counter <= label_counter'
  <2>1. label_counter' = label_counter + labels /\ built' = built + 1
    BY DEF ApplyLabelled
  <2> QED BY <2>1 DEF Formed
<1>3. Numbered(frames, label_counter')
  BY <1>2, NumberedKeeps DEF Formed
<1> QED BY <1>1, <1>2, <1>3 DEF Formed, ApplyLabelled, OperandOK
\* An operator that works on the top frame in place keeps the invariant.
LEMMA FormedApply ==
  ASSUME Formed, NEW op, NEW p, NEW used \in BOOLEAN, NEW items,
         Good(p), p.opnd.base = "eax" => used, Apply(op, p, used, items)
  PROVE  Formed'
BY FormedLabelled DEF Apply

\* What expr_p1 of the next operand may hold.
LEMMA Starts == /\ OperandOK(NoOperand) /\ NoOperand.op = "none"
                /\ Good(cur.p) => OperandOK(Leftover) /\ Leftover.op = "none"
<1>1. OperandOK(NoOperand) /\ NoOperand.op = "none"
  <2>1. Good(InEax(NoAttr, <<>>))
    BY TypeForms, GoodInEax
  <2> QED BY <2>1 DEF NoOperand, Operand, OperandOK
<1>2. ASSUME Good(cur.p) PROVE OperandOK(Leftover) /\ Leftover.op = "none"
  <2>1. Good(Loaded(cur.p))
    BY <1>2, Shapes, GoodLoaded
  <2> DEFINE q == Loaded(cur.p)
  <2> HIDE DEF q
  <2> DEFINE x == NoOperand
  <2>2. x.used = FALSE /\ x.op = "none" /\ {"p", "used", "op"} \subseteq DOMAIN x
    BY DEF NoOperand, Operand
  <2> HIDE DEF x
  <2>3. [x EXCEPT !.p = q].p = q /\ [x EXCEPT !.p = q].used = FALSE /\ [x EXCEPT !.p = q].op = "none"
    BY <2>2
  <2>4. Leftover = [x EXCEPT !.p = q]
    BY DEF Leftover, x, q
  <2>5. Leftover.p = q /\ Leftover.used = FALSE /\ Leftover.op = "none"
    BY <2>3, <2>4
  <2> QED BY <2>1, <2>5 DEF OperandOK, q
<1> QED BY <1>1, <1>2

\* The frame OpenFrame appends.
NewFrame(op, kids, sym, p, items, pushed, labels) ==
  [op |-> op, kids |-> kids, sym |-> sym, p |-> p, used |-> cur.used,
   pushed |-> pushed, label |-> label_counter, save |-> Len(code),
   start |-> Len(code) + Len(items), labels |-> label_counter + labels]

\* An operator is opened.
LEMMA FormedOpenFrame ==
  ASSUME Formed, NEW op, NEW kids, NEW sym, NEW p, NEW items, NEW pushed, NEW labels \in Nat,
         FrameOK(NewFrame(op, kids, sym, p, items, pushed, labels)),
         OpenFrame(op, kids, sym, p, items, pushed, labels)
  PROVE  Formed'
<1>1. frames' = Append(frames, NewFrame(op, kids, sym, p, items, pushed, labels))
  BY DEF OpenFrame, NewFrame
<1>2. FramesOK(frames')
  BY <1>1, FramesAppend DEF Formed
<1>3. OperandOK(cur')
  <2>1. cur' = IF op = "?:" THEN Leftover ELSE NoOperand
    BY DEF OpenFrame
  <2> QED BY <2>1, Starts DEF Formed, OperandOK
<1>4. label_counter' \in Nat /\ built' \in Nat /\ label_counter <= label_counter'
  BY DEF Formed, OpenFrame
<1>5. profile' = profile /\ err' = err /\ label_counter' = label_counter + labels
  BY DEF OpenFrame
<1>6. Numbered(frames', label_counter')
  <2>1. NewFrame(op, kids, sym, p, items, pushed, labels).labels = label_counter'
    BY <1>5 DEF NewFrame
  <2> QED BY <1>1, <1>4, <2>1, NumberedKeeps DEF Formed
<1> QED BY <1>2, <1>3, <1>4, <1>5, <1>6 DEF Formed

\* An operator other than a call is opened.
Operators == Saves \cup Order \cup Equality \cup {"[]"} \cup (Forgets \ {"call"})
Held1(op, pushed) ==
  /\ op \in Saves => pushed = IF cur.used THEN 1 ELSE 0
  /\ op \in Order \cup Equality => pushed = 1
  /\ op \in Forgets \ {"call"} => pushed = 0
\* Opening an operator whose operand is on the stack keeps the invariant.
LEMMA FormedOpen ==
  ASSUME Formed, NEW op \in Operators, NEW p, NEW items, NEW pushed \in {0, 1},
         NEW labels \in Nat, Good(p), Held1(op, pushed),
         op \notin Forgets /\ p.opnd.base = "eax" => pushed = 1,
         Open(op, p, items, pushed, labels)
  PROVE  Formed'
<1> DEFINE f == NewFrame(op, <<cur>>, "", p, items, pushed, labels)
<1>1. /\ f.op = op /\ f.kids = <<cur>> /\ f.sym = "" /\ f.p = p /\ f.used = cur.used
      /\ f.pushed = pushed /\ f.label = label_counter /\ f.save = Len(code)
      /\ f.start = Len(code) + Len(items) /\ f.labels = label_counter + labels
  BY DEF NewFrame
<1>2. f = [op |-> f.op, kids |-> f.kids, sym |-> f.sym, p |-> f.p, used |-> f.used,
          pushed |-> f.pushed, label |-> f.label, save |-> f.save, start |-> f.start,
          labels |-> f.labels]
  BY DEF NewFrame
<1> HIDE DEF f
<1>3. op # "call"
  BY DEF Operators, Saves, Product, Sum, Shift, BitOps, Assign, Order, Equality, Forgets
<1>4. cur.used \in BOOLEAN /\ pushed \in Nat
  BY DEF Formed, OperandOK
<1>5. FrameOK(f)
  <2>1. Good(f.p) /\ f.used \in BOOLEAN /\ f.pushed \in Nat /\ f.pushed \in {0, 1}
    BY <1>1, <1>4
  <2>2. f.op \in Saves => f.pushed = IF f.used THEN 1 ELSE 0
    BY <1>1 DEF Held1
  <2>3. /\ f.op \in Order \cup Equality => f.pushed = 1
        /\ f.op \in Forgets \ {"call"} => f.pushed = 0
    BY <1>1 DEF Held1
  <2>4. f.op \notin Forgets /\ f.p.opnd.base = "eax" => f.pushed = 1
    BY <1>1
  <2>5. f.op # "call"
    BY <1>1, <1>3
  <2> QED BY <1>2, <2>1, <2>2, <2>3, <2>4, <2>5 DEF FrameOK
<1> QED BY <1>5, FormedOpenFrame DEF Open, f

\* An operator is complete.
LEMMA FormedComplete ==
  ASSUME Formed, frames # <<>>, NEW p, NEW used \in BOOLEAN, NEW items,
         Good(p), p.opnd.base = "eax" => used, Complete(p, used, items)
  PROVE  Formed'
<1>1. FramesOK(frames') /\ Numbered(frames', label_counter)
  BY FramesFront, NumberedKeeps DEF Formed, Complete
<1>2. cur'.p = p /\ cur'.used = used
  BY OperandParts DEF Complete
<1> QED BY <1>1, <1>2 DEF Formed, Complete, OperandOK

\* expr_p1 of the innermost operator.
LEMMA TopOK ==
  ASSUME Formed, frames # <<>>
  PROVE  FrameOK(Top) /\ Good(Top.p) /\ Top.used \in BOOLEAN
BY FramesFront DEF Formed, Top, FrameOK

\* Two numbers make a number.
LEMMA FormedFolded ==
  ASSUME Formed, frames # <<>>, BothNumbers, Folded
  PROVE  Formed'
<1> DEFINE p == SetNumber(Top.p, Fold(Top.op, Top.p.opnd.n, cur.p.opnd.n))
<1>1. Good(p) /\ p.opnd.base = "none"
  BY TopOK, GoodNumber DEF BothNumbers, IsNumber
<1>2. Complete(p, FALSE, <<>>)
  BY DEF Folded
<1> HIDE DEF p
<1> QED BY <1>1, <1>2, FormedComplete

------------------------------------------------------------------------------
\* The actions keep the forms of operands

Yes == TRUE
\* The hidden name of TRUE.
LEMMA YesProp == Yes = TRUE /\ Yes \in BOOLEAN
BY DEF Yes

\* The operands factor and the prefix operators make.
LEMMA GoodLiterals ==
  ASSUME NEW a \in Types, NEW dims, NEW n
  PROVE  /\ \A com \in {20, 21} : /\ Good(Param(com, Num(n), TRUE, a, dims))
                                  /\ Good(Param(com, Num(n), FALSE, a, dims))
                                  /\ Good(Param(com, Eax, FALSE, a, dims))
         /\ \A b \in {"none", "eax", "ebp"} : Good(Param(22, At(b, n), FALSE, a, dims))
<1>1. ASSUME NEW com \in {20, 21}
      PROVE  /\ Good(Param(com, Num(n), TRUE, a, dims))
             /\ Good(Param(com, Num(n), FALSE, a, dims))
             /\ Good(Param(com, Eax, FALSE, a, dims))
  <2> DEFINE o == Num(n)
  <2>1. OpndOK(o) /\ o.mem = FALSE /\ o.base = "none"
    BY OpndForms
  <2>2. OpndOK(Eax) /\ Eax.mem = FALSE
    BY OpndForms
  <2> HIDE DEF o
  <2>3. Good(Param(com, o, Yes, a, dims))
    BY <2>1, GoodKinds, YesProp
  <2>4. Good(Param(com, o, No, a, dims))
    BY <2>1, GoodKinds, NoProp
  <2>5. Good(Param(com, Eax, No, a, dims))
    BY <2>2, GoodKinds, NoProp
  <2> QED BY <2>3, <2>4, <2>5, YesProp, NoProp DEF o
<1>2. ASSUME NEW b \in {"none", "eax", "ebp"}
      PROVE  Good(Param(22, At(b, n), FALSE, a, dims))
  <2> DEFINE o == At(b, n)
  <2>1. OpndOK(o) /\ o.mem = TRUE
    BY OpndForms
  <2> HIDE DEF o
  <2>2. Good(Param(22, o, No, a, dims))
    BY <2>1, GoodKinds, NoProp
  <2> QED BY <2>2, NoProp DEF o
<1> QED BY <1>1, <1>2

\* What is known of a symbol of the expression.
LEMMA SymbolOK ==
  ASSUME Formed, NEW s \in profile.symbols
  PROVE  s \in DOMAIN Symbols /\ Symbols[s].attr \in Types /\ Symbols[s].params \in Nat
BY TablesAssumption DEF Formed

\* Parenthesis keeps the invariant Formed.
LEMMA FormedParenthesis == ASSUME Formed, Parenthesis PROVE Formed'
BY Starts DEF Formed, Parenthesis

\* Constant keeps the invariant Formed.
LEMMA FormedConstant == ASSUME Formed, Constant PROVE Formed'
<1>1. PICK n : Primary(Param(20, Num(n), TRUE, IntAttr, <<>>), FALSE, "constant", "", n, <<>>)
  BY DEF Constant
<1> DEFINE p == Param(20, Num(n), TRUE, IntAttr, <<>>)
<1>2. Good(p) /\ p.opnd.base = "none"
  <2>1. Good(p)
    BY GoodLiterals, TypeForms
  <2>2. p.opnd = Num(n)
    BY DEF Param
  <2> HIDE DEF p
  <2> QED BY <2>1, <2>2, OpndForms
<1>3. Primary(p, FALSE, "constant", "", n, <<>>)
  BY <1>1
<1> HIDE DEF p
<1> QED BY <1>2, <1>3, FormedPrimary

\* TypeSize keeps the invariant Formed.
LEMMA FormedTypeSize == ASSUME Formed, TypeSize PROVE Formed'
<1>1. PICK n : Primary(Param(20, Num(n), TRUE, cur.p.attr, cur.p.dims), FALSE, "type", "", n, <<>>)
  BY DEF TypeSize
<1> DEFINE p == Param(20, Num(n), TRUE, cur.p.attr, cur.p.dims)
<1>2. Good(p) /\ p.opnd.base = "none"
  <2>1. cur.p.attr \in Types
    BY DEF Formed, OperandOK, Good
  <2>2. Good(p)
    BY <2>1, GoodLiterals
  <2>3. p.opnd = Num(n)
    BY DEF Param
  <2> HIDE DEF p
  <2> QED BY <2>2, <2>3, OpndForms
<1>3. Primary(p, FALSE, "type", "", n, <<>>)
  BY <1>1
<1> HIDE DEF p
<1> QED BY <1>2, <1>3, FormedPrimary

\* Variable keeps the invariant Formed.
LEMMA FormedVariable == ASSUME Formed, Variable PROVE Formed'
<1>1. PICK s \in profile.symbols :
        LET sym == Symbols[s] IN
        Primary(Param(22, At(IF sym.global THEN "none" ELSE "ebp", sym.at), FALSE, sym.attr, sym.dims),
                FALSE, "variable", s, 0, <<>>)
  BY DEF Variable
<1> DEFINE sym == Symbols[s]
           b == IF sym.global THEN "none" ELSE "ebp"
           p == Param(22, At(b, sym.at), FALSE, sym.attr, sym.dims)
<1>2. b \in {"none", "ebp"}
  OBVIOUS
<1>3. Good(p) /\ p.opnd.base # "eax"
  <2>1. sym.attr \in Types
    BY SymbolOK
  <2> HIDE DEF b, sym
  <2>2. Good(p)
    BY <1>2, <2>1, GoodLiterals
  <2>3. p.opnd = At(b, sym.at)
    BY DEF Param
  <2>4. At(b, sym.at).base = b
    BY <1>2, OpndForms
  <2> QED BY <1>2, <2>2, <2>3, <2>4
<1>4. Primary(p, FALSE, "variable", s, 0, <<>>)
  BY <1>1
<1> HIDE DEF p
<1> QED BY <1>3, <1>4, FormedPrimary

\* Array keeps the invariant Formed.
LEMMA FormedArray == ASSUME Formed, Array PROVE Formed'
<1>1. PICK s \in profile.symbols :
        LET sym == Symbols[s] IN
        \/ Primary(Param(21, Num(sym.at), FALSE, sym.attr, sym.dims), FALSE, "array", s, 0, <<>>)
        \/ Primary(Param(21, Eax, FALSE, sym.attr, sym.dims), TRUE, "array", s, 0,
                   Ins("mov", Eax, Reg("ebp", 4)) \o Ins("add", Eax, Num(sym.at)))
  BY DEF Array
<1> DEFINE sym == Symbols[s]
           p == Param(21, Num(sym.at), FALSE, sym.attr, sym.dims)
           q == Param(21, Eax, FALSE, sym.attr, sym.dims)
<1>2. sym.attr \in Types
  BY SymbolOK
<1>3. Good(p) /\ p.opnd.base = "none" /\ Good(q)
  <2> HIDE DEF sym
  <2>1. Good(p) /\ Good(q)
    BY <1>2, GoodLiterals
  <2>2. p.opnd = Num(sym.at)
    BY DEF Param
  <2> HIDE DEF p, q
  <2> QED BY <2>1, <2>2, OpndForms
<1>4. \/ Primary(p, FALSE, "array", s, 0, <<>>)
      \/ Primary(q, TRUE, "array", s, 0, Ins("mov", Eax, Reg("ebp", 4)) \o Ins("add", Eax, Num(sym.at)))
  BY <1>1
<1> HIDE DEF p, q
<1> QED BY <1>3, <1>4, FormedPrimary

\* Structure keeps the invariant Formed.
LEMMA FormedStructure == ASSUME Formed, Structure PROVE Formed'
<1>1. PICK s \in profile.symbols :
        LET sym == Symbols[s] IN
        Primary(InEax(sym.attr, sym.dims), TRUE, "variable", s, 0,
                Ins("mov", Eax, IF sym.global THEN Num(sym.at) ELSE EbpPlus(sym.at)))
  BY DEF Structure
<1> DEFINE p == InEax(Symbols[s].attr, Symbols[s].dims)
<1>2. Good(p)
  BY SymbolOK, GoodInEax
<1> HIDE DEF p
<1> QED BY <1>1, <1>2, FormedPrimary DEF p

\* String keeps the invariant Formed.
LEMMA FormedString == ASSUME Formed, String PROVE Formed'
<1>1. PICK s \in profile.symbols :
        LET sym == Symbols[s] IN
        /\ cur' = Operand(Param(21, Num(sym.at), TRUE, StringAttr, <<>>), FALSE, "string", <<>>, s, 0)
        /\ label_counter' = label_counter + 2
        /\ UNCHANGED <<profile, frames, built, err>>
  BY DEF String
<1> DEFINE sym == Symbols[s]
           p == Param(21, Num(sym.at), TRUE, StringAttr, <<>>)
<1>2. StringAttr \in Types
  BY TypeForms
<1>3. Good(p) /\ p.opnd.base = "none"
  <2> HIDE DEF sym
  <2>1. Good(p)
    BY <1>2, GoodLiterals
  <2>2. p.opnd = Num(sym.at)
    BY DEF Param
  <2> HIDE DEF p
  <2> QED BY <2>1, <2>2, OpndForms
<1>4. cur' = Operand(p, FALSE, "string", <<>>, s, 0)
  BY <1>1
<1> HIDE DEF p
<1>5. OperandOK(cur')
  BY <1>3, <1>4 DEF Operand, OperandOK
<1>6. label_counter' \in Nat /\ label_counter <= label_counter'
  BY <1>1 DEF Formed
<1>7. profile' = profile /\ frames' = frames /\ built' = built /\ err' = err
  BY <1>1
<1>8. Numbered(frames, label_counter')
  BY <1>6, NumberedKeeps DEF Formed
<1> QED BY <1>5, <1>6, <1>7, <1>8 DEF Formed

\* OpenCall keeps the invariant Formed.
LEMMA FormedOpenCall == ASSUME Formed, OpenCall PROVE Formed'
<1>1. PICK s \in profile.symbols :
        LET sym == Symbols[s] IN
        \/ OpenFrame("call", <<>>, s, InEax(sym.attr, <<>>), Ins("sub", Esp, Num(4 * sym.params)),
                     sym.params, 0)
        \/ /\ cur' = Operand(InEax(sym.attr, <<>>), TRUE, "call", <<>>, s, 0)
           /\ built' = built + 1
           /\ UNCHANGED <<profile, frames, label_counter, err>>
  BY DEF OpenCall
<1> DEFINE sym == Symbols[s]
<1>2. s \in DOMAIN Symbols /\ sym.attr \in Types /\ sym.params \in Nat
  BY SymbolOK
<1>3. CASE OpenFrame("call", <<>>, s, InEax(sym.attr, <<>>), Ins("sub", Esp, Num(4 * sym.params)),
                     sym.params, 0)
  <2> DEFINE p == InEax(sym.attr, <<>>)
             items == Ins("sub", Esp, Num(4 * sym.params))
             f == NewFrame("call", <<>>, s, p, items, sym.params, 0)
  <2>1. Good(p)
    BY <1>2, GoodInEax
  <2> HIDE DEF p, items
  <2>2. /\ f.op = "call" /\ f.sym = s /\ f.p = p /\ f.used = cur.used /\ f.pushed = sym.params
        /\ f = [op |-> f.op, kids |-> f.kids, sym |-> f.sym, p |-> f.p, used |-> f.used,
                pushed |-> f.pushed, label |-> f.label, save |-> f.save, start |-> f.start,
                labels |-> f.labels]
    BY DEF NewFrame
  <2> HIDE DEF f
  <2>3. /\ f.op \notin Saves /\ f.op \notin Order \cup Equality /\ f.op # "[]" /\ f.op \in Forgets
        /\ f.op \notin Forgets \ {"call"}
    BY <2>2 DEF Saves, Product, Sum, Shift, BitOps, Assign, Order, Equality, Forgets
  <2>4. FrameOK(f)
    BY <1>2, <2>1, <2>2, <2>3 DEF FrameOK, Formed, OperandOK
  <2>5. OpenFrame("call", <<>>, s, p, items, sym.params, 0)
    BY <1>3 DEF p, items
  <2> QED BY <2>4, <2>5, FormedOpenFrame DEF f
<1>4. CASE /\ cur' = Operand(InEax(sym.attr, <<>>), TRUE, "call", <<>>, s, 0)
           /\ built' = built + 1
           /\ UNCHANGED <<profile, frames, label_counter, err>>
  <2> DEFINE p == InEax(sym.attr, <<>>)
  <2>1. Good(p)
    BY <1>2, GoodInEax
  <2>2. cur' = Operand(p, TRUE, "call", <<>>, s, 0)
    BY <1>4
  <2> HIDE DEF p
  <2>3. OperandOK(cur')
    BY <2>1, <2>2 DEF Operand, OperandOK
  <2>4. built' \in Nat
    BY <1>4 DEF Formed
  <2>5. /\ profile' = profile /\ frames' = frames /\ label_counter' = label_counter
        /\ err' = err
    BY <1>4
  <2> QED BY <2>3, <2>4, <2>5 DEF Formed
<1> QED BY <1>1, <1>3, <1>4

\* Top.kids and Top.start change.
LEMMA FormedTop ==
  ASSUME Formed, frames # <<>>, NEW kids, NEW start,
         frames' = [frames EXCEPT ![Len(frames)].kids = kids, ![Len(frames)].start = start],
         cur' = NoOperand \/ cur' = Leftover, UNCHANGED <<profile, label_counter, built, err>>
  PROVE  Formed'
<1>1. FramesOK(frames') /\ Numbered(frames', label_counter)
  BY FramesTop, NumberedKeeps DEF Formed
<1>2. OperandOK(cur')
  BY Starts DEF Formed, OperandOK
<1> QED BY <1>1, <1>2 DEF Formed

\* NextArgument keeps the invariant Formed.
LEMMA FormedNextArgument == ASSUME Formed, NextArgument PROVE Formed'
<1>1. frames # <<>>
  BY DEF NextArgument, Completes
<1>2. CASE Refuse("E_PARAM_NUMBER_ERROR")
  BY <1>2, FormedRefuse DEF Errors
<1>3. CASE /\ frames' = [frames EXCEPT ![Len(frames)].kids = Append(Top.kids, cur),
                           ![Len(frames)].start = Len(code) + Len(StoreArgument)]
           /\ cur' = NoOperand
           /\ UNCHANGED <<profile, label_counter, built, err>>
  BY <1>1, <1>3, FormedTop
<1> QED BY <1>2, <1>3 DEF NextArgument

\* CloseCall keeps the invariant Formed.
LEMMA FormedCloseCall == ASSUME Formed, CloseCall PROVE Formed'
<1>1. frames # <<>> /\ Top.op = "call"
  BY DEF CloseCall, Completes
<1>2. CASE Refuse("E_PARAM_NUMBER_ERROR")
  BY <1>2, FormedRefuse DEF Errors
<1> DEFINE p == [Loaded(cur.p) EXCEPT !.attr = Symbols[Top.sym].attr]
<1>3. ASSUME NEW items, Complete(p, TRUE, items) PROVE Formed'
  <2>1. Symbols[Top.sym].attr \in Types
    BY <1>1, TopOK, TablesAssumption DEF FrameOK
  <2>2. Good(p)
    BY <2>1, Shapes, GoodRetyped DEF Formed, OperandOK
  <2> HIDE DEF p
  <2> QED BY <1>1, <1>3, <2>2, FormedComplete
<1> QED BY <1>2, <1>3 DEF CloseCall

\* expr_p1 is pushed if it is used.
LEMMA FormedOpenUsed ==
  ASSUME Formed, cur.op # "none", NEW op \in Saves \cup {"[]"}, OpenUsed(op)
  PROVE  Formed'
<1>1. /\ op \in Operators /\ op \notin Order \cup Equality /\ op \notin Forgets
      /\ Good(cur.p) /\ cur.used \in BOOLEAN /\ (cur.p.opnd.base = "eax" => cur.used)
  BY DEF Operators, Saves, Product, Sum, Shift, BitOps, Assign, Order, Equality, Forgets, Formed,
         OperandOK
<1>2. CASE cur.used
  <2> DEFINE p == Loaded(cur.p)
             items == Push(cur.p)
  <2>1. Good(p)
    BY <1>1, Shapes, GoodLoaded
  <2>2. Open(op, p, items, 1, 0)
    BY <1>2 DEF OpenUsed
  <2>3. Held1(op, 1)
    BY <1>1, <1>2 DEF Held1
  <2> HIDE DEF p, items
  <2> QED BY <1>1, <2>1, <2>2, <2>3, FormedOpen
<1>3. CASE ~cur.used
  <2>1. Open(op, cur.p, <<>>, 0, 0)
    BY <1>3 DEF OpenUsed
  <2>2. Held1(op, 0)
    BY <1>1, <1>3 DEF Held1
  <2> QED BY <1>1, <1>3, <2>1, <2>2, FormedOpen
<1> QED BY <1>1, <1>2, <1>3

\* OpenIndex keeps the invariant Formed.
LEMMA FormedOpenIndex == ASSUME Formed, OpenIndex PROVE Formed'
<1>1. cur.op # "none" /\ Shaped(cur.p) /\ cur.p.attr \in Types
  BY Shapes DEF OpenIndex, Follows, Formed, OperandOK, Shaped
<1>2. cur.p.attr.ptr \in 0..MaxPointer
  BY <1>1, TypeParts
<1> DEFINE p == [Loaded(cur.p) EXCEPT !.attr.ptr = cur.p.attr.ptr - 1]
           items == Push(cur.p)
<1>3. \/ cur.p.attr.arr > 0 /\ OpenUsed("[]")
      \/ cur.p.attr.ptr > 0 /\ Open("[]", p, items, 1, 0)
      \/ Refuse("E_SYNTAX_ERROR")
  BY DEF OpenIndex
<1>4. CASE OpenUsed("[]")
  BY <1>1, <1>4, FormedOpenUsed
<1>5. CASE cur.p.attr.ptr > 0 /\ Open("[]", p, items, 1, 0)
  <2>1. cur.p.attr.ptr - 1 \in 0..MaxPointer
    BY <1>2, <1>5 DEF MaxPointer
  <2>2. Good(p)
    BY <1>1, <2>1, GoodRepointed
  <2>3. Held1("[]", 1) /\ "[]" \in Operators
    BY DEF Held1, Operators, Saves, Product, Sum, Shift, BitOps, Assign, Order, Equality, Forgets
  <2> HIDE DEF p, items
  <2> QED BY <1>5, <2>2, <2>3, FormedOpen
<1>6. CASE Refuse("E_SYNTAX_ERROR")
  BY <1>6, FormedRefuse DEF Errors
<1> QED BY <1>3, <1>4, <1>5, <1>6

\* CloseIndex keeps the invariant Formed.
LEMMA FormedCloseIndex == ASSUME Formed, CloseIndex PROVE Formed'
<1> DEFINE a == Top.p.attr
           d == IF Top.p.dims = <<>> THEN <<>> ELSE Tail(Top.p.dims)
           b == [a EXCEPT !.arr = a.arr - 1]
           p1 == Param(22, At("eax", 0), FALSE, a, Top.p.dims)
           p2 == Param(22, At("eax", 0), FALSE, b, d)
           p3 == Param(21, Eax, FALSE, b, d)
<1>1. /\ frames # <<>>
      /\ \/ Refuse("undefined")
         \/ \E size : \/ a.arr = 0 /\ Complete(p1, TRUE, Element(size))
                      \/ a.arr # 0 /\ Complete(p2, TRUE, Element(size))
                      \/ a.arr # 0 /\ Complete(p3, TRUE, Element(size))
  <2>1. frames # <<>>
    BY DEF CloseIndex, Completes
  <2>2. CASE a.arr = 0
    BY <2>1, <2>2 DEF CloseIndex
  <2>3. CASE a.arr # 0 /\ ~Astray(Top.p) /\ Len(Top.p.dims) = 1
    <3>1. Complete(p2, TRUE, Element(Width(a) * ProductOf(d)))
      BY <2>3 DEF CloseIndex
    <3> QED BY <2>1, <2>3, <3>1
  <2>4. CASE a.arr # 0 /\ ~Astray(Top.p) /\ Len(Top.p.dims) # 1
    <3>1. Complete(p3, TRUE, Element(Width(a) * ProductOf(d)))
      BY <2>4 DEF CloseIndex
    <3> QED BY <2>1, <2>4, <3>1
  <2>5. CASE a.arr # 0 /\ Astray(Top.p)
    BY <2>1, <2>5 DEF CloseIndex
  <2> QED BY <2>2, <2>3, <2>4, <2>5
<1>2. a \in Types /\ a.arr \in 0..MaxArray
  <2>1. a \in Types
    BY <1>1, TopOK DEF Good
  <2> QED BY <2>1, TypeParts
<1> HIDE DEF d
<1>3. a.arr # 0 => b \in Types
  <2>1. a.arr # 0 => a.arr - 1 \in 0..MaxArray
    BY <1>2 DEF MaxArray
  <2> HIDE DEF a
  <2> QED BY <1>2, <2>1, TypeParts
<1>4. Good(p1)
  <2> HIDE DEF a
  <2> QED BY <1>2, GoodLiterals
<1>5. a.arr # 0 => Good(p2) /\ Good(p3)
  <2> HIDE DEF b, a
  <2> QED BY <1>3, GoodLiterals
<1> HIDE DEF p1, p2, p3, a, b
<1>6. CASE Refuse("undefined")
  BY <1>6, FormedRefuse DEF Errors
<1> QED BY <1>1, <1>4, <1>5, <1>6, FormedComplete

\* Members keeps the invariant Formed.
LEMMA FormedMembers == ASSUME Formed, Members PROVE Formed'
<1>1. PICK chain \in profile.chains :
        LET z == Links(chain)[Len(chain)] IN
        \/ z.err # "none" /\ Refuse(z.err)
        \/ /\ cur' = Operand(Loaded(AtEax(z.p)), TRUE, "member", <<z.x>>, "", 0)
           /\ built' = built + 1
           /\ UNCHANGED <<profile, frames, label_counter, err>>
  BY DEF Members
<1> DEFINE z == Links(chain)[Len(chain)]
<1>2. LinkOK(z)
  <2>1. chain \in Seq([op : {".", "->"}, name : STRING])
    BY TablesAssumption DEF Formed
  <2>2. Shaped(cur.p)
    BY Shapes DEF Formed, OperandOK
  <2> QED BY <2>1, <2>2, LinksKeep
<1> HIDE DEF z
<1>3. CASE Refuse(z.err)
  BY <1>2, <1>3, FormedRefuse DEF LinkOK
<1>4. CASE /\ cur' = Operand(Loaded(AtEax(z.p)), TRUE, "member", <<z.x>>, "", 0)
           /\ built' = built + 1
           /\ UNCHANGED <<profile, frames, label_counter, err>>
  <2> DEFINE p == Loaded(AtEax(z.p))
  <2>1. Good(p)
    BY <1>2, Shapes, GoodLoaded DEF LinkOK
  <2> HIDE DEF p
  <2>2. cur' = Operand(p, TRUE, "member", <<z.x>>, "", 0)
    BY <1>4 DEF p
  <2>3. OperandOK(cur')
    BY <2>1, <2>2 DEF Operand, OperandOK
  <2>4. built' \in Nat
    <3>1. built' = built + 1
      BY <1>4
    <3> QED BY <3>1 DEF Formed
  <2>5. /\ profile' = profile /\ frames' = frames /\ label_counter' = label_counter
        /\ err' = err
    BY <1>4
  <2> QED BY <2>3, <2>4, <2>5 DEF Formed
<1> QED BY <1>1, <1>3, <1>4 DEF z

\* MemberIndex keeps the invariant Formed.
LEMMA FormedMemberIndex == ASSUME Formed, MemberIndex PROVE Formed'
<1>1. Refuse("E_UNDEFINED_SYMBOL") \/ Refuse("E_SYNTAX_ERROR")
  BY DEF MemberIndex
<1> QED BY <1>1, FormedRefuse DEF Errors

\* Cast keeps the invariant Formed.
LEMMA FormedCast == ASSUME Formed, Cast PROVE Formed'
<1>1. PICK a, items : /\ a \in profile.casts
                      /\ Apply("cast", [Loaded(cur.p) EXCEPT !.attr = a], TRUE, items)
  BY DEF Cast
<1> DEFINE p == [Loaded(cur.p) EXCEPT !.attr = a]
<1>2. Good(p)
  <2>1. a \in Types
    BY <1>1, TablesAssumption DEF Formed
  <2> QED BY <2>1, Shapes, GoodRetyped DEF Formed, OperandOK
<1>3. Apply("cast", p, TRUE, items)
  BY <1>1
<1> HIDE DEF p
<1> QED BY <1>2, <1>3, FormedApply

\* Deref keeps the invariant Formed.
LEMMA FormedDeref == ASSUME Formed, Deref PROVE Formed'
<1> DEFINE p == cur.p
           o == Brackets(p.opnd)
           dims == Append(Tail(p.dims), 0)
           n == p.attr.arr - 1
           q == [p EXCEPT !.attr.arr = n, !.dims = dims]
           r == [q EXCEPT !.com = 22, !.opnd = o]
<1>1. /\ p = Param(p.com, p.opnd, p.numb, p.attr, p.dims) /\ p.attr \in Types /\ Good(p)
      /\ p.numb \in BOOLEAN /\ OpndOK(p.opnd) /\ ParamOK(p) /\ cur.used \in BOOLEAN
      /\ (p.opnd.base = "eax" => cur.used)
  <2>1. cur.op # "none"
    BY DEF Deref, Follows
  <2> QED BY <2>1 DEF Formed, OperandOK, Good, ParamOK
<1>2. \/ Refuse("E_INTERNAL_ERROR") \/ Refuse("E_SYNTAX_ERROR") \/ Refuse("undefined")
      \/ p.attr.arr > 0 /\ Apply("*x", IF q.attr.arr = 0 THEN r ELSE q, cur.used, <<>>)
      \/ p.com = 20 /\ p.attr.ptr > 0 /\ Apply("*x", Place(p), TRUE, <<>>)
      \/ p.attr.ptr > 0 /\ Apply("*x", Place(Loaded(p)), TRUE, Load(p))
  BY DEF Deref
<1>3. CASE Refuse("E_INTERNAL_ERROR") \/ Refuse("E_SYNTAX_ERROR") \/ Refuse("undefined")
  BY <1>3, FormedRefuse DEF Errors
<1>4. CASE p.attr.arr > 0 /\ Apply("*x", IF q.attr.arr = 0 THEN r ELSE q, cur.used, <<>>)
  <2> DEFINE a == [p.attr EXCEPT !.arr = n]
  <2>1. a \in Types
    <3>1. p.attr.arr \in 0..MaxArray
      BY <1>1, TypeParts
    <3>2. n \in 0..MaxArray
      BY <1>4, <3>1 DEF MaxArray
    <3> HIDE DEF n
    <3> QED BY <1>1, <3>2, TypeParts
  <2>2. OpndOK(o) /\ o.mem = TRUE /\ o.base = p.opnd.base
    BY <1>1, OpndForms
  <2>3. q = Narrowed(p, n, dims) /\ r = Moved(q, 22, o)
    <3> HIDE DEF o, n, dims, p
    <3> QED BY DEF Narrowed, Moved
  <2> HIDE DEF o, n, dims, a, q, r
  <2>4. q = Param(p.com, p.opnd, p.numb, a, dims)
    BY <1>1, <2>3, ParamNarrowed DEF a
  <2>5. r = Param(22, o, p.numb, a, dims)
    BY <2>3, <2>4, ParamMoved
  <2>6. Good(r) /\ r.opnd.base = p.opnd.base
    <3>1. p.numb => o.base = "none"
      BY <1>1, <2>2 DEF ParamOK
    <3>2. Good(Param(22, o, p.numb, a, dims))
      BY <1>1, <2>1, <2>2, <3>1, GoodKinds
    <3> QED BY <2>2, <2>5, <3>2, ParamWith
  <2>7. Good(q) /\ q.opnd.base = p.opnd.base
    <3>1. /\ p.com \in {20, 21, 22} /\ (p.numb => p.opnd.base = "none")
          /\ p.opnd.mem = (p.com = 22)
      BY <1>1 DEF ParamOK
    <3>2. (p.opnd.mem = TRUE /\ p.com = 22) \/ (p.opnd.mem = FALSE /\ p.com # 22)
      BY <3>1
    <3>3. Good(Param(p.com, p.opnd, p.numb, a, dims))
      BY <1>1, <2>1, <3>1, <3>2, GoodParam
    <3> QED BY <2>4, <3>3, ParamWith
  <2>8. CASE q.attr.arr = 0
    BY <1>1, <1>4, <2>6, <2>8, FormedApply
  <2>9. CASE q.attr.arr # 0
    BY <1>1, <1>4, <2>7, <2>9, FormedApply
  <2> QED BY <2>8, <2>9
<1>5. CASE p.com = 20 /\ p.attr.ptr > 0 /\ Apply("*x", Place(p), TRUE, <<>>)
  <2>1. Good(Place(p))
    BY <1>1, <1>5, GoodPlace DEF IsPlace
  <2> QED BY <1>5, <2>1, FormedApply
<1>6. CASE p.attr.ptr > 0 /\ Apply("*x", Place(Loaded(p)), TRUE, Load(p))
  <2> DEFINE l == Loaded(p)
  <2>1. Good(l) /\ l.com = 20 /\ l.attr.ptr = p.attr.ptr
    BY <1>1, Shapes, GoodLoaded
  <2> HIDE DEF l
  <2>2. Good(Place(l))
    BY <1>6, <2>1, GoodPlace DEF IsPlace
  <2> QED BY <1>6, <2>2, FormedApply DEF l
<1> QED BY <1>2, <1>3, <1>4, <1>5, <1>6

\* What Strip is given has its type and its text.
LEMMA FormedStrip ==
  ASSUME Formed, NEW p, Good(p), p.attr.ptr + 2 <= MaxPointer, Strip(p)
  PROVE  Formed'
<1> DEFINE a == Points(p.attr, 2)
<1>1. a \in Types
  <2>1. p.attr \in Types
    BY DEF Good
  <2>2. p.attr.ptr + 2 \in 0..MaxPointer
    <3>1. p.attr.ptr \in 0..MaxPointer
      BY <2>1, TypeParts
    <3> QED BY <3>1 DEF MaxPointer
  <2> QED BY <2>1, <2>2, TypeParts DEF Points
<1> HIDE DEF a
<1> DEFINE p1 == InEax(a, p.dims)
           p2 == Param(20, Num(p.opnd.n), FALSE, a, p.dims)
<1>2. p.opnd.base \in {"eax", "none", "ebp"}
  BY OpndForms DEF Good, ParamOK
<1>3. \E items : Apply("&x", p1, TRUE, items) \/ Apply("&x", p2, FALSE, items)
  <2>1. CASE p.opnd.base = "eax"
    BY <2>1 DEF Strip, a
  <2>2. CASE p.opnd.base = "none"
    BY <2>2 DEF Strip, a
  <2>3. CASE p.opnd.base = "ebp"
    BY <2>3 DEF Strip, a
  <2> QED BY <1>2, <2>1, <2>2, <2>3
<1>4. Good(p1) /\ Good(p2) /\ p2.opnd = Num(p.opnd.n)
  <2>1. Good(p1)
    BY <1>1, GoodInEax
  <2>2. Good(p2)
    BY <1>1, GoodLiterals
  <2>3. p2.opnd = Num(p.opnd.n)
    BY DEF Param
  <2> QED BY <2>1, <2>2, <2>3
<1>5. Num(p.opnd.n).base = "none"
  BY OpndForms
<1> HIDE DEF p1, p2
<1> QED BY <1>3, <1>4, <1>5, FormedApply

\* AddressOf keeps the invariant Formed.
LEMMA FormedAddressOf == ASSUME Formed, AddressOf PROVE Formed'
<1>1. CASE Refuse("E_SYNTAX_ERROR") \/ Refuse("E_TABLE_OVERFLOW")
  BY <1>1, FormedRefuse DEF Errors
<1>2. CASE IsPlace(cur.p) /\ ~(Place(cur.p).attr.ptr + 2 > MaxPointer) /\ Strip(Place(cur.p))
  <2> DEFINE p == Place(cur.p)
  <2>1. Good(p)
    BY <1>2, GoodPlace DEF Formed, OperandOK
  <2>2. ~(p.attr.ptr + 2 > MaxPointer) /\ Strip(p)
    BY <1>2
  <2> HIDE DEF p
  <2>3. p.attr.ptr \in 0..MaxPointer
    BY <2>1, TypeParts DEF Good
  <2>4. p.attr.ptr + 2 <= MaxPointer
    BY <2>2, <2>3 DEF MaxPointer
  <2> QED BY <2>1, <2>2, <2>4, FormedStrip
<1> QED
  <2>1. CASE cur.p.attr.arr > 0 \/ ~IsPlace(cur.p)
    BY <1>1, <2>1 DEF AddressOf
  <2>2. CASE cur.p.attr.arr = 0 /\ IsPlace(cur.p)
    BY <1>1, <1>2, <2>2 DEF AddressOf
  <2>3. cur.p.attr.arr \in Nat
    <3>1. cur.p.attr \in Types
      BY DEF Formed, OperandOK, Good
    <3>2. cur.p.attr.arr \in 0..MaxArray
      BY <3>1, TypeParts
    <3> QED BY <3>2 DEF MaxArray
  <2> QED BY <2>1, <2>2, <2>3

\* Increment keeps the invariant Formed.
LEMMA FormedIncrement == ASSUME Formed, Increment PROVE Formed'
<1>1. PICK s \in Steps :
        /\ cur.op # "none"
        /\ Refuse("E_SYNTAX_ERROR") \/ Apply(s[1], cur.p, cur.used, StepBy(s[2], cur.p))
  BY DEF Increment, Follows
<1>2. CASE Refuse("E_SYNTAX_ERROR")
  BY <1>2, FormedRefuse DEF Errors
<1>3. CASE Apply(s[1], cur.p, cur.used, StepBy(s[2], cur.p))
  BY <1>1, <1>3, FormedApply DEF Formed, OperandOK
<1> QED BY <1>1, <1>2, <1>3

\* PostIncrement keeps the invariant Formed.
LEMMA FormedPostIncrement == ASSUME Formed, PostIncrement PROVE Formed'
<1> DEFINE p == InEax(cur.p.attr, cur.p.dims)
<1>1. \/ Refuse("E_SYNTAX_ERROR")
      \/ \E op, items : Apply(op, p, TRUE, items)
  BY DEF PostIncrement
<1>2. Good(p)
  BY GoodInEax DEF Formed, OperandOK, Good
<1> HIDE DEF p
<1> QED BY <1>1, <1>2, FormedApply, FormedRefuse DEF Errors

\* Negate keeps the invariant Formed.
LEMMA FormedNegate == ASSUME Formed, Negate PROVE Formed'
<1>1. PICK op \in {"-x", "~x"} :
        \/ Refuse("E_SYNTAX_ERROR")
        \/ /\ IsNumber(cur.p)
           /\ Apply(op, SetNumber(cur.p, Negated(op, cur.p.opnd.n)), FALSE, <<>>)
        \/ \E items : Apply(op, Loaded(cur.p), TRUE, items)
  BY DEF Negate
<1> DEFINE n == Negated(op, cur.p.opnd.n)
<1> HIDE DEF n
<1>2. Good(cur.p)
  BY DEF Formed, OperandOK
<1>3. CASE Refuse("E_SYNTAX_ERROR")
  BY <1>3, FormedRefuse DEF Errors
<1>4. CASE IsNumber(cur.p) /\ Apply(op, SetNumber(cur.p, n), FALSE, <<>>)
  <2>1. Good(SetNumber(cur.p, n)) /\ SetNumber(cur.p, n).opnd.base = "none"
    BY <1>2, <1>4, GoodNumber DEF IsNumber
  <2> QED BY <1>4, <2>1, FormedApply
<1>5. CASE \E items : Apply(op, Loaded(cur.p), TRUE, items)
  <2>1. Good(Loaded(cur.p))
    BY <1>2, Shapes, GoodLoaded
  <2> QED BY <1>5, <2>1, FormedApply
<1> QED BY <1>1, <1>3, <1>4, <1>5 DEF n

\* Not keeps the invariant Formed.
LEMMA FormedNot == ASSUME Formed, Not PROVE Formed'
<1> DEFINE p == cur.p
           n == IF p.opnd.n = 0 THEN 1 ELSE 0
           q == InEax(p.attr, p.dims)
<1>1. \/ Refuse("E_SYNTAX_ERROR") \/ Refuse("E_INTERNAL_ERROR")
      \/ IsNumber(p) /\ Apply("!x", SetNumber(p, n), FALSE, <<>>)
      \/ \E items : ApplyLabelled("!x", q, TRUE, items, 1)
  BY DEF Not
<1>2. Good(p) /\ Good(q)
  BY GoodInEax DEF Formed, OperandOK, Good
<1> HIDE DEF n, p, q
<1>3. CASE Refuse("E_SYNTAX_ERROR") \/ Refuse("E_INTERNAL_ERROR")
  BY <1>3, FormedRefuse DEF Errors
<1>4. CASE IsNumber(p) /\ Apply("!x", SetNumber(p, n), FALSE, <<>>)
  <2>1. Good(SetNumber(p, n)) /\ SetNumber(p, n).opnd.base = "none"
    BY <1>2, <1>4, GoodNumber DEF IsNumber
  <2> QED BY <1>4, <2>1, FormedApply
<1>5. CASE \E items : ApplyLabelled("!x", q, TRUE, items, 1)
  BY <1>2, <1>5, FormedLabelled
<1> QED BY <1>1, <1>3, <1>4, <1>5

\* SizeOf keeps the invariant Formed.
LEMMA FormedSizeOf == ASSUME Formed, SizeOf PROVE Formed'
<1>1. \/ Refuse("E_INTERNAL_ERROR") \/ Refuse("undefined")
      \/ \E n : Apply("sizeof", Param(20, Num(n), TRUE, cur.p.attr, cur.p.dims), FALSE, <<>>)
  BY DEF SizeOf
<1>2. CASE Refuse("E_INTERNAL_ERROR") \/ Refuse("undefined")
  BY <1>2, FormedRefuse DEF Errors
<1>3. ASSUME NEW n, Apply("sizeof", Param(20, Num(n), TRUE, cur.p.attr, cur.p.dims), FALSE, <<>>)
      PROVE  Formed'
  <2> DEFINE p == Param(20, Num(n), TRUE, cur.p.attr, cur.p.dims)
  <2>1. cur.p.attr \in Types
    BY DEF Formed, OperandOK, Good
  <2>2. Good(p)
    BY <2>1, GoodLiterals
  <2>3. p.opnd = Num(n)
    BY DEF Param
  <2>4. Num(n).base = "none"
    BY OpndForms
  <2>5. Apply("sizeof", p, FALSE, <<>>)
    BY <1>3
  <2> HIDE DEF p
  <2> QED BY <2>2, <2>3, <2>4, <2>5, FormedApply
<1> QED BY <1>1, <1>2, <1>3

\* Operators that are opened by OpenUsed, or refuse expr_p1.
LEMMA FormedOpens ==
  ASSUME Formed, OpenArithmetic \/ OpenShift \/ OpenBits
  PROVE  Formed'
<1>1. \/ Refuse("E_SYNTAX_ERROR") \/ Refuse("E_TO_BE_DEFINE")
      \/ \E op \in Product \cup Sum \cup Shift \cup BitOps : cur.op # "none" /\ OpenUsed(op)
  BY DEF OpenArithmetic, OpenShift, OpenBits, Follows
<1>2. CASE Refuse("E_SYNTAX_ERROR") \/ Refuse("E_TO_BE_DEFINE")
  BY <1>2, FormedRefuse DEF Errors
<1>3. ASSUME NEW op \in Product \cup Sum \cup Shift \cup BitOps, cur.op # "none", OpenUsed(op)
      PROVE  Formed'
  <2>1. op \in Saves \cup {"[]"}
    BY DEF Saves
  <2> QED BY <1>3, <2>1, FormedOpenUsed
<1> QED BY <1>1, <1>2, <1>3

\* Binary operators leave expr_p1 or expr_p2, as it is or in eax.
LEMMA FormedResult ==
  ASSUME Formed, frames # <<>>, NEW items,
         \/ Complete(Loaded(Top.p), TRUE, items) \/ Complete(Top.p, TRUE, items)
         \/ Complete(Loaded(cur.p), TRUE, items)
  PROVE  Formed'
<1>1. Good(Top.p) /\ Good(Loaded(Top.p)) /\ Good(Loaded(cur.p))
  BY TopOK, Shapes, GoodLoaded DEF Formed, OperandOK
<1> QED BY <1>1, FormedComplete

\* CloseProduct keeps the invariant Formed.
LEMMA FormedCloseProduct == ASSUME Formed, CloseProduct PROVE Formed'
<1>1. /\ frames # <<>>
      /\ \/ Refuse("E_SYNTAX_ERROR") \/ Refuse("divide")
         \/ BothNumbers /\ Folded
         \/ \E items : Complete(Loaded(Top.p), TRUE, items)
  BY DEF CloseProduct, Completes
<1> QED BY <1>1, FormedRefuse, FormedFolded, FormedResult DEF Errors

\* CloseSum keeps the invariant Formed.
LEMMA FormedCloseSum == ASSUME Formed, CloseSum PROVE Formed'
<1>1. /\ frames # <<>>
      /\ \/ Refuse("E_SYNTAX_ERROR")
         \/ BothNumbers /\ Folded
         \/ Complete(Loaded(Top.p), TRUE, Add)
  BY DEF CloseSum, Completes
<1> QED BY <1>1, FormedRefuse, FormedFolded, FormedResult DEF Errors

\* CloseShift keeps the invariant Formed.
LEMMA FormedCloseShift == ASSUME Formed, CloseShift PROVE Formed'
<1>1. /\ frames # <<>>
      /\ \/ Refuse("E_SYNTAX_ERROR") \/ Refuse("E_INTERNAL_ERROR")
         \/ BothNumbers /\ Folded
         \/ \E items : Complete(Loaded(Top.p), TRUE, items)
  BY DEF CloseShift, Completes
<1> QED BY <1>1, FormedRefuse, FormedFolded, FormedResult DEF Errors

\* OpenCompare keeps the invariant Formed.
LEMMA FormedOpenCompare == ASSUME Formed, OpenCompare PROVE Formed'
<1>1. PICK op \in Order \cup Equality : Open(op, Loaded(cur.p), Push(cur.p), 1, 1)
  BY DEF OpenCompare
<1>2. op \in Operators /\ Held1(op, 1)
  BY DEF Held1, Operators, Saves, Product, Sum, Shift, BitOps, Assign, Order, Equality, Forgets
<1>3. Good(Loaded(cur.p))
  BY Shapes, GoodLoaded DEF Formed, OperandOK
<1> QED BY <1>1, <1>2, <1>3, FormedOpen

\* CloseCompare keeps the invariant Formed.
LEMMA FormedCloseCompare == ASSUME Formed, CloseOrder \/ CloseEquality PROVE Formed'
<1>1. /\ frames # <<>>
      /\ \/ Refuse("E_VARIABLE_TYPE_ERROR")
         \/ \E items : Complete(Top.p, TRUE, items)
  BY DEF CloseOrder, CloseEquality, Completes
<1> QED BY <1>1, FormedRefuse, FormedResult DEF Errors

\* CloseBits keeps the invariant Formed.
LEMMA FormedCloseBits == ASSUME Formed, CloseBits PROVE Formed'
<1> DEFINE w == Wider(Top.p.attr, cur.p.attr)
           p == [Loaded(Top.p) EXCEPT !.attr = w]
<1>1. frames # <<>>
  BY DEF CloseBits, Completes
<1>2. Good(p)
  <2>1. Top.p.attr \in Types /\ cur.p.attr \in Types /\ Shaped(Top.p)
    BY <1>1, TopOK, Shapes DEF Formed, OperandOK, Good
  <2>2. w \in Types
    BY <2>1, TypeForms
  <2> HIDE DEF w
  <2> QED BY <2>1, <2>2, GoodRetyped
<1>3. \/ Refuse("E_SYNTAX_ERROR")
      \/ BothNumbers /\ Folded
      \/ \E items : Complete(p, TRUE, items)
      \/ /\ cur' = Operand(p, TRUE, Top.op, Append(Top.kids, cur), "", 0)
         /\ label_counter' = label_counter + NewLabels
         /\ frames' = Front(frames)
         /\ UNCHANGED <<profile, built, err>>
  BY DEF CloseBits
<1> HIDE DEF p
<1>4. CASE Refuse("E_SYNTAX_ERROR")
  BY <1>4, FormedRefuse DEF Errors
<1>5. CASE BothNumbers /\ Folded
  BY <1>1, <1>5, FormedFolded
<1>6. CASE \E items : Complete(p, TRUE, items)
  BY <1>1, <1>2, <1>6, FormedComplete
<1>7. CASE /\ cur' = Operand(p, TRUE, Top.op, Append(Top.kids, cur), "", 0)
           /\ label_counter' = label_counter + NewLabels
           /\ frames' = Front(frames)
           /\ UNCHANGED <<profile, built, err>>
  <2>1. OperandOK(cur')
    BY <1>2, <1>7 DEF Operand, OperandOK
  <2>2. label_counter' \in Nat /\ label_counter <= label_counter'
    <3>1. Top.labels \in 0..label_counter
      BY <1>1, NumberedKeeps DEF Formed, Top
    <3>2. label_counter' = label_counter + (label_counter - Top.labels)
      BY <1>7 DEF NewLabels
    <3> QED BY <3>1, <3>2 DEF Formed
  <2>3. FramesOK(frames') /\ Numbered(frames', label_counter')
    <3>1. Numbered(Front(frames), label_counter)
      BY <1>1, NumberedKeeps DEF Formed
    <3>2. FramesOK(Front(frames))
      BY <1>1, FramesFront DEF Formed
    <3> QED BY <1>7, <2>2, <3>1, <3>2, NumberedKeeps DEF Formed
  <2>4. profile' = profile /\ built' = built /\ err' = err
    BY <1>7
  <2> QED BY <2>1, <2>2, <2>3, <2>4 DEF Formed
<1> QED BY <1>3, <1>4, <1>5, <1>6, <1>7

\* && || ?: and the comma.
LEMMA FormedOpenLogic == ASSUME Formed, OpenLogic \/ OpenCond \/ OpenComma PROVE Formed'
<1>1. Good(cur.p) /\ Good(Loaded(cur.p))
  BY Shapes, GoodLoaded DEF Formed, OperandOK
<1>2. ASSUME NEW op \in {"&&", "||", "?:", ","}, NEW p, Good(p), NEW items, NEW labels \in Nat,
             Open(op, p, items, 0, labels)
      PROVE  Formed'
  <2>1. op \in Operators /\ op \in Forgets /\ Held1(op, 0)
    BY DEF Held1, Operators, Saves, Product, Sum, Shift, BitOps, Assign, Order, Equality, Forgets
  <2> QED BY <1>2, <2>1, FormedOpen
<1> DEFINE p == Loaded(cur.p)
<1> HIDE DEF p
<1>3. CASE OpenLogic
  <2>1. PICK op, items : op \in {"&&", "||"} /\ Open(op, p, items, 0, 1)
    BY <1>3 DEF OpenLogic, p
  <2> QED BY <1>1, <1>2, <2>1 DEF p
<1>4. CASE OpenCond
  <2>1. Open("?:", p, Test("jz"), 0, 2)
    BY <1>4 DEF OpenCond, p
  <2> QED BY <1>1, <1>2, <2>1 DEF p
<1>5. CASE OpenComma
  <2>1. Open(",", cur.p, <<>>, 0, 0)
    BY <1>5 DEF OpenComma
  <2> QED BY <1>1, <1>2, <2>1
<1> QED BY <1>3, <1>4, <1>5

\* CloseLogic keeps the invariant Formed.
LEMMA FormedCloseLogic == ASSUME Formed, CloseLogic \/ CloseCond PROVE Formed'
<1>1. frames # <<>> /\ \E items : Complete(Loaded(cur.p), TRUE, items)
  BY DEF CloseLogic, CloseCond, Completes
<1> QED BY <1>1, FormedResult

\* CondColon keeps the invariant Formed.
LEMMA FormedCondColon == ASSUME Formed, CondColon PROVE Formed'
<1>1. /\ frames # <<>>
      /\ \E kids, start :
           frames' = [frames EXCEPT ![Len(frames)].kids = kids, ![Len(frames)].start = start]
      /\ cur' = Leftover
      /\ UNCHANGED <<profile, label_counter, built, err>>
  BY DEF CondColon, Completes
<1> QED BY <1>1, FormedTop

\* CloseComma keeps the invariant Formed.
LEMMA FormedCloseComma == ASSUME Formed, CloseComma PROVE Formed'
<1>1. /\ frames # <<>> /\ cur.op # "none" /\ Complete(cur.p, cur.used, <<>>)
  BY DEF CloseComma, Completes
<1> QED BY <1>1, FormedComplete DEF Formed, OperandOK

\* Assignments.
LEMMA FormedOpenAssign == ASSUME Formed, OpenAssign PROVE Formed'
<1>1. PICK op \in Assign :
        \/ Refuse("E_SYNTAX_ERROR")
        \/ /\ cur.op # "none" /\ (cur.p.attr.base # "struct" => IsPlace(cur.p))
           /\ LET p == IF cur.p.attr.base = "struct" THEN cur.p ELSE Place(cur.p) IN
              IF cur.used THEN Open(op, p, One("push", Eax), 1, 0) ELSE Open(op, p, <<>>, 0, 0)
  BY DEF OpenAssign, Follows
<1>2. CASE Refuse("E_SYNTAX_ERROR")
  BY <1>2, FormedRefuse DEF Errors
<1>3. CASE /\ cur.op # "none" /\ (cur.p.attr.base # "struct" => IsPlace(cur.p))
           /\ LET p == IF cur.p.attr.base = "struct" THEN cur.p ELSE Place(cur.p) IN
              IF cur.used THEN Open(op, p, One("push", Eax), 1, 0) ELSE Open(op, p, <<>>, 0, 0)
  <2> DEFINE p == IF cur.p.attr.base = "struct" THEN cur.p ELSE Place(cur.p)
  <2>1. Good(cur.p) /\ cur.used \in BOOLEAN /\ (cur.p.opnd.base = "eax" => cur.used)
    BY <1>3 DEF Formed, OperandOK
  <2>2. Good(p) /\ p.opnd.base = cur.p.opnd.base
    BY <1>3, <2>1, GoodPlace
  <2>3. /\ op \in Saves /\ op \in Operators /\ op \notin Order \cup Equality /\ op \notin Forgets
    BY DEF Operators, Saves, Product, Sum, Shift, BitOps, Assign, Order, Equality, Forgets
  <2>4. IF cur.used THEN Open(op, p, One("push", Eax), 1, 0) ELSE Open(op, p, <<>>, 0, 0)
    BY <1>3
  <2> HIDE DEF p
  <2>5. CASE cur.used
    <3>1. Held1(op, 1)
      BY <2>3, <2>5 DEF Held1
    <3> QED BY <2>2, <2>3, <2>4, <2>5, <3>1, FormedOpen
  <2>6. CASE ~cur.used
    <3>1. Held1(op, 0)
      BY <2>3, <2>6 DEF Held1
    <3> QED BY <2>1, <2>2, <2>3, <2>4, <2>6, <3>1, FormedOpen
  <2> QED BY <2>1, <2>5, <2>6
<1> QED BY <1>1, <1>2, <1>3

\* CloseAssign keeps the invariant Formed.
LEMMA FormedCloseAssign == ASSUME Formed, CloseAssign PROVE Formed'
<1>1. /\ frames # <<>> /\ Top.op \in Assign
      /\ \/ Refuse("E_SYNTAX_ERROR") \/ Refuse("E_TO_BE_DEFINE") \/ Refuse("E_INTERNAL_ERROR")
         \/ \E items : Complete(Top.p, Top.used, items)
  BY DEF CloseAssign, Completes
<1>2. CASE Refuse("E_SYNTAX_ERROR") \/ Refuse("E_TO_BE_DEFINE") \/ Refuse("E_INTERNAL_ERROR")
  BY <1>2, FormedRefuse DEF Errors
<1>3. CASE \E items : Complete(Top.p, Top.used, items)
  <2>1. FrameOK(Top) /\ Good(Top.p) /\ Top.used \in BOOLEAN
    BY <1>1, TopOK
  <2>2. Top.op \in Saves /\ Top.op \notin Forgets
    BY <1>1 DEF Saves, Product, Sum, Shift, BitOps, Assign, Forgets
  <2>3. Top.p.opnd.base = "eax" => Top.used
    BY <2>1, <2>2 DEF FrameOK
  <2> QED BY <1>1, <1>3, <2>1, <2>3, FormedComplete
<1> QED BY <1>1, <1>2, <1>3

------------------------------------------------------------------------------
\* The theorems

\* At the beginning of an expression.
LEMMA FormedInit == Init => Formed
<1> SUFFICES ASSUME Init PROVE Formed
  OBVIOUS
<1>1. profile \in Profiles /\ frames = <<>> /\ cur = NoOperand /\ label_counter = 0 /\ built = 0 /\ err = "none"
  BY DEF Init
<1>2. Len(frames) = 0 /\ IsSeq(frames)
  <2>1. frames \in Seq({})
    BY <1>1
  <2> QED BY <1>1, <2>1 DEF IsSeq
<1>3. FramesOK(frames) /\ Numbered(frames, label_counter)
  BY <1>2 DEF FramesOK, Numbered
<1> QED BY <1>1, <1>3, Starts DEF Formed, Errors

\* Every step of the parser.
LEMMA FormedNext == Formed /\ [Next]_vars => Formed'
<1> SUFFICES ASSUME Formed, [Next]_vars PROVE Formed'
  OBVIOUS
<1>1. CASE Parenthesis \/ Constant \/ TypeSize \/ Variable \/ Array \/ Structure \/ String
  BY <1>1, FormedParenthesis, FormedConstant, FormedTypeSize, FormedVariable, FormedArray,
     FormedStructure, FormedString
<1>2. CASE OpenCall \/ NextArgument \/ CloseCall \/ OpenIndex \/ CloseIndex \/ Members \/ MemberIndex
  BY <1>2, FormedOpenCall, FormedNextArgument, FormedCloseCall, FormedOpenIndex, FormedCloseIndex,
     FormedMembers, FormedMemberIndex
<1>3. CASE Cast \/ Deref \/ AddressOf \/ Increment \/ PostIncrement \/ Negate \/ Not \/ SizeOf
  BY <1>3, FormedCast, FormedDeref, FormedAddressOf, FormedIncrement, FormedPostIncrement,
     FormedNegate, FormedNot, FormedSizeOf
<1>4. CASE \/ OpenArithmetic \/ CloseProduct \/ CloseSum \/ OpenShift \/ CloseShift
           \/ OpenCompare \/ CloseOrder \/ CloseEquality \/ OpenBits \/ CloseBits
  BY <1>4, FormedOpens, FormedCloseProduct, FormedCloseSum, FormedCloseShift, FormedOpenCompare,
     FormedCloseCompare, FormedCloseBits
<1>5. CASE \/ OpenLogic \/ CloseLogic \/ OpenCond \/ CondColon \/ CloseCond \/ OpenComma \/ CloseComma
           \/ OpenAssign \/ CloseAssign
  BY <1>5, FormedOpenLogic, FormedCloseLogic, FormedCondColon, FormedCloseComma, FormedOpenAssign,
     FormedCloseAssign
<1>6. CASE UNCHANGED vars
  BY <1>6 DEF vars, Formed
<1> QED BY <1>1, <1>2, <1>3, <1>4, <1>5, <1>6 DEF Next

\* The invariant holds in every state.
LEMMA FormedAlways == Spec => []Formed
BY FormedInit, FormedNext, PTL DEF Spec

\* Every operand has one of the forms of struct expr_param, in every expression the
\* symbols and structures can be used in.
THEOREM TypeCorrect == Spec => []TypeOK
<1>1. Formed => TypeOK
  <2> SUFFICES ASSUME Formed PROVE TypeOK
    OBVIOUS
  <2>1. ParamOK(cur.p) /\ cur.used \in BOOLEAN
    BY DEF Formed, OperandOK, Good
  <2>2. DOMAIN frames = 1..Len(frames)
    BY DEF Formed, FramesOK, IsSeq
  <2>3. \A i \in DOMAIN frames : ParamOK(frames[i].p) /\ frames[i].pushed \in Nat
    BY <2>2 DEF Formed, FramesOK, FrameOK, Good
  <2> QED BY <2>1, <2>3 DEF Formed, Errors, TypeOK
<1> QED BY <1>1, FormedAlways, PTL

\* Whatever is in eax is known to be: factor and the operators tell their caller, and what
\* an operator needs again is pushed before its next operand is computed.
THEOREM EaxIsKept == Spec => []EaxKept
<1>1. Formed => EaxKept
  <2> SUFFICES ASSUME Formed PROVE EaxKept
    OBVIOUS
  <2>1. cur.op # "none" /\ cur.p.opnd.base = "eax" => cur.used
    BY DEF Formed, OperandOK
  <2>2. DOMAIN frames = 1..Len(frames)
    BY DEF Formed, FramesOK, IsSeq
  <2>3. \A i \in DOMAIN frames :
          frames[i].op \notin Forgets /\ frames[i].p.opnd.base = "eax" => frames[i].pushed = 1
    BY <2>2 DEF Formed, FramesOK, FrameOK
  <2> QED BY <2>1, <2>3 DEF EaxKept
<1> QED BY <1>1, FormedAlways, PTL

------------------------------------------------------------------------------
\* The words the open operators hold

HeldBy(s) == Sums([i \in DOMAIN s |-> s[i].pushed])

\* What an operator pushes is a number.
LEMMA PushedInt == ASSUME NEW s, FramesOK(s) PROVE \A i \in 1..Len(s) : s[i].pushed \in Int
<1> SUFFICES ASSUME NEW i \in 1..Len(s) PROVE s[i].pushed \in Int
  OBVIOUS
<1>1. FrameOK(s[i])
  BY DEF FramesOK
<1>2. s[i].pushed \in Nat
  BY <1>1 DEF FrameOK
<1> QED BY <1>2

\* Nothing is held at first, and each operator adds its own.
LEMMA HeldProp ==
  ASSUME NEW s, FramesOK(s)
  PROVE  /\ HeldBy(s)[0] = 0 /\ Len(s) \in Nat /\ DOMAIN s = 1..Len(s)
         /\ \A k \in 0..Len(s) : HeldBy(s)[k] \in Int
         /\ \A k \in 1..Len(s) : HeldBy(s)[k] = HeldBy(s)[k - 1] + s[k].pushed
<1>1. Len(s) \in Nat /\ DOMAIN s = 1..Len(s)
  BY DEF FramesOK, IsSeq
<1> DEFINE w == [i \in DOMAIN s |-> s[i].pushed]
<1>2. \A i \in 1..Len(s) : s[i].pushed \in Int
  BY PushedInt
<1>3. w \in Seq(Int) /\ Len(w) = Len(s) /\ \A i \in 1..Len(s) : w[i] = s[i].pushed
  BY <1>1, <1>2
<1>4. HeldBy(s) = Sums(w)
  BY DEF HeldBy
<1> HIDE DEF w
<1>5. Sums(w) \in [0..Len(s) -> Int] /\ Sums(w)[0] = 0
  BY <1>3, SumsProp
<1>6. \A k \in 1..Len(s) : Sums(w)[k] = Sums(w)[k - 1] + w[k]
  BY <1>3, SumsProp
<1> QED BY <1>1, <1>3, <1>4, <1>5, <1>6

\* Operators that are the same hold the same.
LEMMA HeldSame ==
  ASSUME NEW s, NEW t, FramesOK(s), FramesOK(t), NEW n \in Nat, n <= Len(s), n <= Len(t),
         \A i \in 1..n : t[i].pushed = s[i].pushed
  PROVE  \A k \in 0..n : HeldBy(t)[k] = HeldBy(s)[k]
<1> DEFINE v == [i \in DOMAIN s |-> s[i].pushed]
           w == [i \in DOMAIN t |-> t[i].pushed]
<1>1. /\ Len(s) \in Nat /\ DOMAIN s = 1..Len(s) /\ Len(t) \in Nat /\ DOMAIN t = 1..Len(t)
      /\ HeldBy(s)[0] = 0 /\ HeldBy(t)[0] = 0
      /\ \A k \in 0..Len(s) : HeldBy(s)[k] \in Int
      /\ \A k \in 0..Len(t) : HeldBy(t)[k] \in Int
  BY HeldProp
<1>2. \A i \in 1..Len(s) : s[i].pushed \in Int
  BY PushedInt
<1>3. \A i \in 1..Len(t) : t[i].pushed \in Int
  BY PushedInt
<1>4. v \in Seq(Int) /\ Len(v) = Len(s) /\ \A i \in 1..Len(s) : v[i] = s[i].pushed
  BY <1>1, <1>2
<1>5. w \in Seq(Int) /\ Len(w) = Len(t) /\ \A i \in 1..Len(t) : w[i] = t[i].pushed
  BY <1>1, <1>3
<1>6. \A i \in 1..n : w[0 + i] = v[0 + i]
  <2>1. \A i \in 1..n : i \in 1..Len(s) /\ i \in 1..Len(t) /\ 0 + i = i
    BY <1>1
  <2> HIDE DEF v, w
  <2> QED BY <1>4, <1>5, <2>1
<1>7. HeldBy(s) = Sums(v) /\ HeldBy(t) = Sums(w)
  BY DEF HeldBy
<1> HIDE DEF v, w
<1>8. Agree(v, 0, w, 0, n)
  BY <1>4, <1>5, <1>6 DEF Agree
<1>9. Alike(HeldBy(s), 0, HeldBy(t), 0, n)
  BY <1>4, <1>5, <1>7, <1>8, SumsShift
<1>10. \A k \in 0..n : 0 + k = k /\ k \in 0..Len(s) /\ k \in 0..Len(t)
  BY <1>1
<1> QED BY <1>1, <1>9, <1>10 DEF Alike

------------------------------------------------------------------------------
\* Open operators and the code

\* The jumps and labels behind the first n instructions are numbered from m on.
MarksFrom(c, n, m) ==
  \A i \in n + 1..Len(c) : IsMark(c[i]) => c[i].dst.n \in Nat /\ m <= c[i].dst.n

\* d begins with the first n instructions of c.
KeptTo(c, d, n) ==
  /\ n <= Len(c) /\ n <= Len(d) /\ \A i \in 1..n : d[i] = c[i]
  /\ \A i \in 0..n : Depths(d)[i] = Depths(c)[i]

\* The labels an operator keeps for itself, and that no constant is pushed.
Reserved(f) ==
  /\ f.op \in Order \cup Equality \cup {"&&", "||"} => f.labels = f.label + 1
  /\ f.op = "?:" => f.labels = f.label + 2
  /\ f.op \in Product \cup Sum \cup Shift /\ f.used => ~f.p.numb

\* An open operator: what it found, what it pushed, and the depth of the stack at its labels.
Within(f, c, lev, n, before) ==
  /\ f.save \in Nat /\ f.start \in Nat /\ f.save <= f.start /\ f.start <= Len(c)
  /\ f.label \in Nat /\ f.labels \in Nat /\ f.label <= f.labels /\ f.labels <= n
  /\ Depths(c)[f.save] = before /\ Depths(c)[f.start] = before + f.pushed
  /\ MarksFrom(c, f.start, f.labels)
  /\ \A l \in f.label..f.labels - 1 : lev[l] = before
  /\ Reserved(f)

\* The open operators follow each other in the code and in their labels.
Placed(s, c, lev, n) ==
  /\ \A k \in 1..Len(s) : Within(s[k], c, lev, n, HeldBy(s)[k - 1])
  /\ \A j, k \in 1..Len(s) : j < k => s[j].start <= s[k].save /\ s[j].labels <= s[k].label

\* They stay where they are while the code behind them changes.
LEMMA PlacedKeeps ==
  ASSUME NEW s, NEW c, NEW d, NEW lev, NEW lev2, NEW n \in Nat, NEW n2 \in Nat, n <= n2,
         Len(c) \in Nat, Len(d) \in Nat, NEW a \in Nat, NEW m \in Nat,
         Placed(s, c, lev, n), KeptTo(c, d, a), MarksFrom(d, a, m),
         \A k \in 1..Len(s) : s[k].start <= a /\ s[k].labels <= m,
         \A l \in 0..n - 1 : lev2[l] = lev[l]
  PROVE  Placed(s, d, lev2, n2)
<1>1. ASSUME NEW k \in 1..Len(s) PROVE Within(s[k], d, lev2, n2, HeldBy(s)[k - 1])
  <2> DEFINE f == s[k]
             b == HeldBy(s)[k - 1]
  <2>1. Within(f, c, lev, n, b) /\ f.start <= a /\ f.labels <= m
    BY DEF Placed
  <2> HIDE DEF f, b
  <2>2. /\ f.save \in Nat /\ f.start \in Nat /\ f.save <= f.start /\ f.start <= Len(d)
        /\ f.label \in Nat /\ f.labels \in Nat /\ f.label <= f.labels /\ f.labels <= n2
    BY <2>1 DEF Within, KeptTo
  <2>3. Depths(d)[f.save] = b /\ Depths(d)[f.start] = b + f.pushed
    BY <2>1, <2>2, SMTT(30) DEF Within, KeptTo
  <2>4. MarksFrom(d, f.start, f.labels)
    <3>1. ASSUME NEW i \in f.start + 1..Len(d), IsMark(d[i])
          PROVE  d[i].dst.n \in Nat /\ f.labels <= d[i].dst.n
      <4>1. CASE i <= a
        <5>1. i \in 1..a /\ i \in f.start + 1..Len(c)
          BY <2>2, <4>1 DEF KeptTo
        <5>2. d[i] = c[i]
          BY <5>1 DEF KeptTo
        <5> QED BY <2>1, <3>1, <5>1, <5>2 DEF Within, MarksFrom
      <4>2. CASE i > a
        <5>1. i \in a + 1..Len(d)
          BY <2>2, <4>2
        <5>2. d[i].dst.n \in Nat /\ m <= d[i].dst.n
          BY <3>1, <5>1 DEF MarksFrom
        <5> QED BY <2>1, <2>2, <5>2
      <4> QED BY <2>2, <4>1, <4>2
    <3> QED BY <3>1 DEF MarksFrom
  <2>5. \A l \in f.label..f.labels - 1 : lev2[l] = b
    <3>1. \A l \in f.label..f.labels - 1 : l \in 0..n - 1
      BY <2>1, <2>2 DEF Within
    <3> QED BY <2>1, <3>1 DEF Within
  <2>6. Reserved(f)
    BY <2>1 DEF Within
  <2> QED BY <2>2, <2>3, <2>4, <2>5, <2>6 DEF Within, f, b
<1> QED BY <1>1 DEF Placed

\* One more operator.
LEMMA PlacedMore ==
  ASSUME NEW s, NEW t, FramesOK(s), FramesOK(t), NEW c, NEW lev, NEW n \in Nat,
         Len(t) = Len(s) + 1, \A i \in 1..Len(s) : t[i] = s[i],
         Placed(s, c, lev, n), Within(t[Len(t)], c, lev, n, HeldBy(s)[Len(s)]),
         \A k \in 1..Len(s) : s[k].start <= t[Len(t)].save /\ s[k].labels <= t[Len(t)].label
  PROVE  Placed(t, c, lev, n) /\ HeldBy(t)[Len(t)] = HeldBy(s)[Len(s)] + t[Len(t)].pushed
<1>1. Len(s) \in Nat /\ Len(t) \in Nat /\ Len(t) \in 1..Len(t) /\ Len(t) - 1 = Len(s)
  BY HeldProp
<1>2. \A k \in 0..Len(s) : HeldBy(t)[k] = HeldBy(s)[k]
  BY <1>1, HeldSame
<1>3. ASSUME NEW k \in 1..Len(t) PROVE Within(t[k], c, lev, n, HeldBy(t)[k - 1])
  <2>1. CASE k = Len(t)
    BY <1>1, <1>2, <2>1
  <2>2. CASE k # Len(t)
    <3>1. k \in 1..Len(s) /\ k - 1 \in 0..Len(s)
      BY <1>1, <2>2
    <3> QED BY <1>2, <3>1 DEF Placed
  <2> QED BY <2>1, <2>2
<1>4. ASSUME NEW j \in 1..Len(t), NEW k \in 1..Len(t), j < k
      PROVE  t[j].start <= t[k].save /\ t[j].labels <= t[k].label
  <2>1. j \in 1..Len(s) /\ t[j] = s[j]
    BY <1>1, <1>4
  <2>2. CASE k = Len(t)
    BY <2>1, <2>2
  <2>3. CASE k # Len(t)
    <3>1. k \in 1..Len(s)
      BY <1>1, <2>3
    <3> QED BY <1>4, <2>1, <3>1 DEF Placed
  <2> QED BY <2>2, <2>3
<1>5. HeldBy(t)[Len(t)] = HeldBy(s)[Len(s)] + t[Len(t)].pushed
  <2>1. HeldBy(t)[Len(t)] = HeldBy(t)[Len(t) - 1] + t[Len(t)].pushed
    BY <1>1, HeldProp
  <2> QED BY <1>1, <1>2, <2>1
<1> QED BY <1>3, <1>4, <1>5 DEF Placed

\* One operator less.
LEMMA PlacedLess ==
  ASSUME NEW s, FramesOK(s), s # <<>>, NEW c, NEW lev, NEW n \in Nat, Placed(s, c, lev, n)
  PROVE  /\ FramesOK(Front(s)) /\ Placed(Front(s), c, lev, n)
         /\ Len(Front(s)) = Len(s) - 1 /\ Len(s) \in Nat \ {0}
         /\ Within(s[Len(s)], c, lev, n, HeldBy(Front(s))[Len(Front(s))])
         /\ HeldBy(s)[Len(s)] = HeldBy(Front(s))[Len(Front(s))] + s[Len(s)].pushed
         /\ \A k \in 1..Len(Front(s)) :
              Front(s)[k].start <= s[Len(s)].save /\ Front(s)[k].labels <= s[Len(s)].label
<1> DEFINE t == Front(s)
<1>1. /\ FramesOK(t) /\ Len(t) = Len(s) - 1 /\ Len(s) \in Nat \ {0} /\ Len(s) \in 1..Len(s)
      /\ \A i \in 1..Len(s) - 1 : t[i] = s[i]
  BY FramesFront
<1> HIDE DEF t
<1>2. /\ Len(t) \in Nat /\ Len(t) <= Len(s) /\ Len(t) <= Len(t) /\ \A i \in 1..Len(t) : t[i] = s[i] /\ i \in 1..Len(s)
      /\ \A i \in 1..Len(t) : t[i].pushed = s[i].pushed
  BY <1>1
<1>3. \A k \in 0..Len(t) : HeldBy(t)[k] = HeldBy(s)[k]
  BY <1>1, <1>2, HeldSame
<1>4. ASSUME NEW k \in 1..Len(t) PROVE Within(t[k], c, lev, n, HeldBy(t)[k - 1])
  <2>1. k \in 1..Len(s) /\ t[k] = s[k] /\ k - 1 \in 0..Len(t)
    BY <1>2
  <2> QED BY <1>3, <2>1 DEF Placed
<1>5. \A j, k \in 1..Len(t) : j < k => t[j].start <= t[k].save /\ t[j].labels <= t[k].label
  BY <1>2 DEF Placed
<1>6. Placed(t, c, lev, n)
  BY <1>4, <1>5 DEF Placed
<1>7. HeldBy(t)[Len(t)] = HeldBy(s)[Len(s) - 1] /\ Len(t) \in 0..Len(t)
  BY <1>1, <1>2, <1>3
<1>8. Within(s[Len(s)], c, lev, n, HeldBy(t)[Len(t)])
  BY <1>1, <1>7 DEF Placed
<1>9. HeldBy(s)[Len(s)] = HeldBy(t)[Len(t)] + s[Len(s)].pushed
  BY <1>1, <1>7, HeldProp
<1>10. \A k \in 1..Len(t) : t[k].start <= s[Len(s)].save /\ t[k].labels <= s[Len(s)].label
  <2>1. \A k \in 1..Len(t) : k \in 1..Len(s) /\ k < Len(s) /\ t[k] = s[k]
    BY <1>1, <1>2
  <2> QED BY <1>1, <2>1 DEF Placed
<1> QED BY <1>1, <1>6, <1>8, <1>9, <1>10 DEF t

------------------------------------------------------------------------------
\* Instructions with jumps

\* The labels of s are the n ones from lo on.  Where the stack is k words higher behind it
\* than at its labels, it was j words higher in front of it.
Marked(s, j, k, lo, n) ==
  \A lev, b : b \in Int /\ (\A l \in lo..lo + n - 1 : lev[l] = b)
                => Piece(s, b + j, b + k, lev, lo..lo + n - 1)

\* Without jumps and labels.
LEMMA MarkedQuiet ==
  ASSUME NEW s, NEW j \in Int, NEW k \in Int, NEW lo, NEW n, Quiet(s, k - j)
  PROVE  Marked(s, j, k, lo, n)
<1> SUFFICES ASSUME NEW lev, NEW b \in Int PROVE Piece(s, b + j, b + k, lev, lo..lo + n - 1)
  BY DEF Marked
<1>1. b + j \in Int /\ k - j \in Int /\ (b + j) + (k - j) = b + k
  OBVIOUS
<1>2. Piece(s, b + j, (b + j) + (k - j), lev, lo..lo + n - 1)
  BY <1>1, QuietPiece
<1> QED BY <1>1, <1>2

\* One after the other.
LEMMA MarkedConcat ==
  ASSUME NEW s, NEW t, NEW i \in Int, NEW j \in Int, NEW k \in Int, NEW lo, NEW n,
         Marked(s, i, j, lo, n), Marked(t, j, k, lo, n)
  PROVE  Marked(s \o t, i, k, lo, n)
<1> SUFFICES ASSUME NEW lev, NEW b \in Int, \A l \in lo..lo + n - 1 : lev[l] = b
             PROVE  Piece(s \o t, b + i, b + k, lev, lo..lo + n - 1)
  BY DEF Marked
<1>1. Piece(s, b + i, b + j, lev, lo..lo + n - 1) /\ Piece(t, b + j, b + k, lev, lo..lo + n - 1)
  BY DEF Marked
<1>2. b + i \in Int /\ b + j \in Int /\ b + k \in Int
  OBVIOUS
<1> QED BY <1>1, <1>2, PieceConcat

\* A jump or a label.
LEMMA MarkedOne ==
  ASSUME NEW it, Pushes(it) = 0, it = Mark(it.op, it.dst.n), NEW lo, NEW n,
         it.dst.n \in lo..lo + n - 1
  PROVE  Marked(<<it>>, 0, 0, lo, n)
<1> SUFFICES ASSUME NEW lev, NEW b \in Int, \A l \in lo..lo + n - 1 : lev[l] = b
             PROVE  Piece(<<it>>, b + 0, b + 0, lev, lo..lo + n - 1)
  BY DEF Marked
<1>1. b + 0 = b /\ b = lev[it.dst.n]
  OBVIOUS
<1> QED BY <1>1, PieceOne

\* More labels, whose depth is known too.
LEMMA PieceWider ==
  ASSUME NEW s, NEW a, NEW b, NEW lev, NEW lev2, NEW M, NEW N, M \subseteq N, Piece(s, a, b, lev, M),
         \A l \in M : lev2[l] = lev[l]
  PROVE  Piece(s, a, b, lev2, N)
BY DEF Piece

\* The depth of the stack behind a piece.
LEMMA PieceEnd ==
  ASSUME NEW c, NEW h, NEW lev, NEW M, Piece(c, 0, h, lev, M)
  PROVE  Depths(c)[Len(c)] = h
<1>1. 0 + Depths(c)[Len(c)] = h /\ Instrs(c)
  BY DEF Piece
<1>2. Depths(c)[Len(c)] \in Int
  BY <1>1, DepthsIn
<1> QED BY <1>1, <1>2

\* Instructions are appended.
LEMMA CodeAppended ==
  ASSUME NEW c, NEW items, NEW lev, NEW lev2, NEW M, NEW N, NEW h \in Int, NEW h2 \in Int,
         Piece(c, 0, h, lev, M), Piece(items, h, h2, lev2, N)
  PROVE  /\ Len(c) \in Nat /\ Len(items) \in Nat /\ Len(c \o items) = Len(c) + Len(items)
         /\ KeptTo(c, c \o items, Len(c))
         /\ Depths(c)[Len(c)] = h /\ Depths(c \o items)[Len(c \o items)] = h2
         /\ \A i \in 1..Len(items) : (c \o items)[Len(c) + i] = items[i]
<1> DEFINE d == c \o items
<1>1. Instrs(c) /\ Instrs(items) /\ IsSeq(c) /\ IsSeq(items)
  BY DEF Piece, Instrs
<1>2. /\ Len(c) \in Nat /\ Len(items) \in Nat /\ Len(d) = Len(c) + Len(items)
      /\ \A i \in 1..Len(c) : d[i] = c[i]
      /\ \A i \in 1..Len(items) : d[Len(c) + i] = items[i]
  BY <1>1, Concat
<1>3. /\ \A i \in 0..Len(c) : Depths(d)[i] = Depths(c)[i]
      /\ \A i \in 0..Len(items) : Depths(d)[Len(c) + i] = Depths(c)[Len(c)] + Depths(items)[i]
  BY <1>1, DepthsConcat
<1> HIDE DEF d
<1>4. KeptTo(c, d, Len(c))
  BY <1>2, <1>3 DEF KeptTo
<1>5. 0 + Depths(c)[Len(c)] = h /\ h + Depths(items)[Len(items)] = h2
  BY DEF Piece
<1>6. Depths(c)[Len(c)] \in Int /\ Depths(items)[Len(items)] \in Int
  BY <1>1, DepthsIn
<1>7. Depths(c)[Len(c)] = h
  BY <1>5, <1>6
<1>8. Len(items) \in 0..Len(items)
  BY <1>2
<1>9. Depths(d)[Len(d)] = h + Depths(items)[Len(items)]
  BY <1>2, <1>3, <1>7, <1>8
<1> QED BY <1>2, <1>4, <1>5, <1>7, <1>9 DEF d

\* What was open stays where it is, and its labels are not used again.
LEMMA CodeGrows ==
  ASSUME NEW s, NEW c, NEW lev, NEW lev2, NEW n \in Nat, NEW n2 \in Nat, n <= n2,
         NEW h \in Int, NEW h2 \in Int, Piece(c, 0, h, lev, 0..n - 1), Placed(s, c, lev, n),
         \A l \in 0..n - 1 : lev2[l] = lev[l], NEW items, NEW m \in Nat, NEW r \in Int, r < n2,
         Piece(items, h, h2, lev2, m..r), \A k \in 1..Len(s) : s[k].labels <= m
  PROVE  Piece(c \o items, 0, h2, lev2, 0..n2 - 1) /\ Placed(s, c \o items, lev2, n2)
<1> DEFINE d == c \o items
<1>1. Piece(d, 0, h2, lev2, 0..n2 - 1)
  <2>1. 0..n - 1 \subseteq 0..n2 - 1 /\ m..r \subseteq 0..n2 - 1 /\ 0 \in Int
    OBVIOUS
  <2>2. Piece(c, 0, h, lev2, 0..n2 - 1)
    BY <2>1, PieceWider
  <2>3. Piece(items, h, h2, lev2, 0..n2 - 1)
    BY <2>1, PieceWider
  <2> QED BY <2>1, <2>2, <2>3, PieceConcat
<1>2. /\ Len(c) \in Nat /\ Len(items) \in Nat /\ Len(d) = Len(c) + Len(items)
      /\ KeptTo(c, d, Len(c)) /\ \A i \in 1..Len(items) : d[Len(c) + i] = items[i]
  <2>1. Piece(c, 0, h, lev, 0..n - 1) /\ Piece(items, h, h2, lev2, m..r)
    OBVIOUS
  <2>2. /\ Len(c) \in Nat /\ Len(items) \in Nat /\ Len(c \o items) = Len(c) + Len(items)
        /\ KeptTo(c, c \o items, Len(c))
    BY <2>1, CodeAppended
  <2>3. \A i \in 1..Len(items) : (c \o items)[Len(c) + i] = items[i]
    BY <2>1, CodeAppended
  <2> QED BY <2>2, <2>3
<1> HIDE DEF d
<1>3. MarksFrom(d, Len(c), m)
  <2>1. ASSUME NEW i \in Len(c) + 1..Len(d), IsMark(d[i]) PROVE d[i].dst.n \in Nat /\ m <= d[i].dst.n
    <3>1. i - Len(c) \in 1..Len(items) /\ Len(c) + (i - Len(c)) = i
      BY <1>2
    <3>2. d[i] = items[i - Len(c)]
      BY <1>2, <3>1
    <3>3. d[i].dst.n \in m..r
      BY <2>1, <3>1, <3>2 DEF Piece
    <3> DEFINE x == d[i].dst.n
    <3>4. x \in m..r
      BY <3>3
    <3> HIDE DEF x
    <3>5. x \in Nat /\ m <= x
      BY <3>4
    <3> QED BY <3>5 DEF x
  <2> QED BY <2>1 DEF MarksFrom
<1>4. Placed(s, d, lev2, n2)
  <2>1. \A k \in 1..Len(s) : s[k].start <= Len(c) /\ s[k].labels <= m
    BY DEF Placed, Within
  <2>2. Len(d) \in Nat
    BY <1>2
  <2> QED BY <1>2, <1>3, <2>1, <2>2, PlacedKeeps
<1> QED BY <1>1, <1>4 DEF d

------------------------------------------------------------------------------
\* The steps the actions are made of

\* The stack is balanced: each label has a depth of the stack, whichever way it is reached.
Levels(lev) ==
  /\ lev \in [Nat -> Int]
  /\ Placed(frames, code, lev, label_counter)
  /\ Piece(code, 0, HeldBy(frames)[Len(frames)], lev, 0..label_counter - 1)
Balanced == \E lev : Levels(lev)

\* What the open operators hold.
HeldNow == HeldBy(frames)[Len(frames)]
\* What the code holds on the stack is a number.
LEMMA HeldInt == ASSUME Formed PROVE HeldNow \in Int
BY HeldProp DEF Formed, HeldNow

\* Depths of n more labels from lo on.
Deeper(lev, lo, n, h, lev2) ==
  /\ lev2 \in [Nat -> Int]
  /\ \A l \in 0..lo - 1 : lev2[l] = lev[l]
  /\ \A l \in lo..lo + n - 1 : lev2[l] = h
\* n new labels can all be given the height h, the older ones keep theirs.
LEMMA DeeperExists ==
  ASSUME NEW lev \in [Nat -> Int], NEW lo \in Nat, NEW n \in Nat, NEW h \in Int
  PROVE  \E lev2 : Deeper(lev, lo, n, h, lev2)
<1> DEFINE lev2 == [l \in Nat |-> IF l \in lo..lo + n - 1 THEN h ELSE lev[l]]
<1>1. lev2 \in [Nat -> Int]
  OBVIOUS
<1>2. \A l \in 0..lo - 1 : lev2[l] = lev[l]
  OBVIOUS
<1>3. \A l \in lo..lo + n - 1 : lev2[l] = h
  OBVIOUS
<1> HIDE DEF lev2
<1>4. Deeper(lev, lo, n, h, lev2)
  BY <1>1, <1>2, <1>3 DEF Deeper
<1> QED BY <1>4

\* Instructions are appended, with n new labels.
LEMMA BalancedEmit ==
  ASSUME Formed, Balanced, NEW items, NEW n \in Nat, Marked(items, 0, 0, label_counter, n),
         frames' = frames, code' = code \o items, label_counter' = label_counter + n
  PROVE  Balanced'
<1> DEFINE h == HeldNow
<1>1. PICK lev : Levels(lev)
  BY DEF Balanced
<1>2. label_counter \in Nat /\ h \in Int
  BY HeldInt DEF Formed
<1>3. PICK lev2 : Deeper(lev, label_counter, n, h, lev2)
  <2> HIDE DEF h
  <2>1. lev \in [Nat -> Int]
    BY <1>1 DEF Levels
  <2> QED BY <1>2, <2>1, DeeperExists
<1>4. Piece(items, h, h, lev2, label_counter..label_counter + n - 1)
  <2>1. Piece(items, h + 0, h + 0, lev2, label_counter..label_counter + n - 1)
    BY <1>2, <1>3 DEF Marked, Deeper
  <2> QED BY <1>2, <2>1
<1>5. \A k \in 1..Len(frames) : frames[k].labels <= label_counter
  BY <1>2 DEF Formed, Numbered
<1>6. Piece(code, 0, h, lev, 0..label_counter - 1) /\ Placed(frames, code, lev, label_counter)
  BY <1>1 DEF Levels, HeldNow
<1>7. /\ label_counter + n \in Nat /\ label_counter <= label_counter + n
      /\ label_counter + n - 1 \in Int /\ label_counter + n - 1 < label_counter + n
  BY <1>2
<1> HIDE DEF h
<1>8. /\ Piece(code \o items, 0, h, lev2, 0..(label_counter + n) - 1)
      /\ Placed(frames, code \o items, lev2, label_counter + n)
  BY <1>2, <1>3, <1>4, <1>5, <1>6, <1>7, CodeGrows DEF Deeper
<1>9. Levels(lev2)'
  BY <1>3, <1>8 DEF Levels, Deeper, h, HeldNow
<1> QED BY <1>9 DEF Balanced

\* Nothing is generated.
LEMMA BalancedStays ==
  ASSUME Balanced, UNCHANGED <<frames, code, label_counter>>
  PROVE  Balanced'
BY DEF Balanced, Levels

\* An operator is opened.
LEMMA BalancedOpen ==
  ASSUME Formed, Formed', Balanced, NEW op, NEW kids, NEW sym, NEW p, NEW items, NEW pushed \in Nat,
         NEW n \in Nat, Marked(items, 0, pushed, label_counter, n),
         Reserved(NewFrame(op, kids, sym, p, items, pushed, n)),
         OpenFrame(op, kids, sym, p, items, pushed, n)
  PROVE  Balanced'
<1> DEFINE h == HeldNow
           f == NewFrame(op, kids, sym, p, items, pushed, n)
           c == code \o items
           m == label_counter + n
<1>0. frames' = Append(frames, f) /\ code' = c /\ label_counter' = m
  BY DEF OpenFrame, NewFrame
<1>1. PICK lev : Levels(lev)
  BY DEF Balanced
<1>2. label_counter \in Nat /\ h \in Int /\ h + pushed \in Int /\ FramesOK(frames)
  BY HeldInt DEF Formed
<1>3. PICK lev2 : Deeper(lev, label_counter, n, h, lev2)
  <2> HIDE DEF h
  <2>1. lev \in [Nat -> Int]
    BY <1>1 DEF Levels
  <2> QED BY <1>2, <2>1, DeeperExists
<1>4. Piece(items, h, h + pushed, lev2, label_counter..m - 1)
  <2>1. \A l \in label_counter..label_counter + n - 1 : lev2[l] = h
    BY <1>3 DEF Deeper
  <2> HIDE DEF h, m
  <2>2. Piece(items, h + 0, h + pushed, lev2, label_counter..label_counter + n - 1)
    BY <1>2, <2>1 DEF Marked
  <2>3. h + 0 = h
    BY <1>2
  <2> QED BY <1>2, <2>2, <2>3 DEF m
<1>5. \A k \in 1..Len(frames) : frames[k].labels <= label_counter
  BY <1>2 DEF Formed, Numbered
<1>6. Piece(code, 0, h, lev, 0..label_counter - 1) /\ Placed(frames, code, lev, label_counter)
  BY <1>1 DEF Levels, HeldNow
<1>7. m \in Nat /\ label_counter <= m /\ m - 1 \in Int /\ m - 1 < m
  BY <1>2
<1> HIDE DEF h, m
<1>8. /\ Piece(c, 0, h + pushed, lev2, 0..m - 1) /\ Placed(frames, c, lev2, m)
      /\ Len(code) \in Nat /\ Len(items) \in Nat /\ Len(c) = Len(code) + Len(items)
      /\ KeptTo(code, c, Len(code)) /\ Depths(code)[Len(code)] = h /\ Depths(c)[Len(c)] = h + pushed
      /\ \A k : MarksFrom(c, Len(c), k)
  <2> DEFINE g == h + pushed
  <2>1. /\ g \in Int /\ Piece(items, h, g, lev2, label_counter..m - 1)
        /\ \A l \in 0..label_counter - 1 : lev2[l] = lev[l]
    BY <1>2, <1>3, <1>4 DEF Deeper
  <2> HIDE DEF g
  <2> USE <1>2, <1>5, <1>6, <1>7, <2>1
  <2>2. Piece(c, 0, g, lev2, 0..m - 1) /\ Placed(frames, c, lev2, m)
    BY CodeGrows
  <2>3. /\ Len(code) \in Nat /\ Len(items) \in Nat /\ Len(c) = Len(code) + Len(items)
        /\ KeptTo(code, c, Len(code)) /\ Depths(code)[Len(code)] = h /\ Depths(c)[Len(c)] = g
    BY CodeAppended
  <2>4. \A k : MarksFrom(c, Len(c), k)
    <3>1. Len(c) \in Nat
      BY <2>3
    <3> QED BY <3>1 DEF MarksFrom
  <2> QED BY <2>2, <2>3, <2>4 DEF g
<1> HIDE DEF c
<1>9. /\ f.save = Len(code) /\ f.start = Len(code) + Len(items) /\ f.label = label_counter
      /\ f.labels = m /\ f.pushed = pushed
  BY DEF NewFrame, m
<1>10. Reserved(f)
  OBVIOUS
<1> HIDE DEF f
<1>11. Within(f, c, lev2, m, h)
  <2>1. Depths(c)[f.save] = h
    <3>1. Len(code) \in 0..Len(code)
      BY <1>8
    <3> QED BY <1>8, <1>9, <3>1 DEF KeptTo
  <2>2. f.start = Len(c) /\ Depths(c)[f.start] = h + f.pushed /\ MarksFrom(c, f.start, f.labels)
    BY <1>8, <1>9
  <2>3. /\ f.save \in Nat /\ f.start \in Nat /\ f.save <= f.start /\ f.start <= Len(c)
        /\ f.label \in Nat /\ f.labels \in Nat /\ f.label <= f.labels /\ f.labels <= m
    BY <1>2, <1>7, <1>8, <1>9, <2>2
  <2>4. \A l \in f.label..f.labels - 1 : lev2[l] = h
    BY <1>2, <1>3, <1>9 DEF Deeper, m
  <2> QED BY <1>10, <2>1, <2>2, <2>3, <2>4 DEF Within
<1>12. /\ Len(frames') = Len(frames) + 1 /\ Len(frames) \in Nat /\ frames'[Len(frames')] = f
       /\ \A i \in 1..Len(frames) : frames'[i] = frames[i]
  <2>1. FrameOK(f)
    <3>1. PICK S : frames \in Seq(S)
      BY <1>2 DEF FramesOK, IsSeq
    <3>2. PICK T : frames' \in Seq(T)
      BY DEF Formed, FramesOK, IsSeq
    <3>3. /\ Append(frames, f) \in Seq(S \cup {f}) /\ Len(Append(frames, f)) = Len(frames) + 1
          /\ Len(frames) \in Nat /\ Append(frames, f)[Len(frames) + 1] = f
      <4> DEFINE U == S \cup {f}
      <4>1. frames \in Seq(U) /\ f \in U
        BY <3>1
      <4> HIDE DEF U
      <4>2. /\ Append(frames, f) \in Seq(U) /\ Len(Append(frames, f)) = Len(frames) + 1
            /\ Len(frames) \in Nat /\ Append(frames, f)[Len(frames) + 1] = f
        BY <4>1
      <4> QED BY <4>2 DEF U
    <3>4. Len(frames) + 1 \in 1..Len(frames')
      BY <1>0, <3>3
    <3> QED BY <1>0, <3>3, <3>4 DEF Formed, FramesOK
  <2> QED BY <1>0, <1>2, <2>1, FramesAppend
<1>13. \A k \in 1..Len(frames) : frames[k].start <= f.save /\ frames[k].labels <= f.label
  BY <1>5, <1>6, <1>9 DEF Placed, Within
<1>14. /\ Placed(frames', c, lev2, m)
       /\ HeldBy(frames')[Len(frames')] = h + pushed
  <2>1. Within(frames'[Len(frames')], c, lev2, m, HeldBy(frames)[Len(frames)])
    BY <1>11, <1>12 DEF h, HeldNow
  <2>2. FramesOK(frames) /\ FramesOK(frames')
    BY DEF Formed
  <2> QED BY <1>6, <1>7, <1>8, <1>9, <1>12, <1>13, <2>1, <2>2, PlacedMore DEF h, HeldNow
<1>15. Levels(lev2)'
  BY <1>0, <1>3, <1>8, <1>14 DEF Levels, Deeper
<1> QED BY <1>15 DEF Balanced

\* What is known of the innermost operator, and of those in front of it.
LEMMA InnerTop ==
  ASSUME Formed, frames # <<>>, NEW lev, Levels(lev), NEW s, s = Front(frames), NEW b,
         b = HeldBy(s)[Len(s)]
  PROVE  /\ FramesOK(s) /\ Placed(s, code, lev, label_counter)
         /\ Within(Top, code, lev, label_counter, b)
         /\ b \in Int /\ Top.pushed \in Nat /\ b + Top.pushed \in Int
         /\ Piece(code, 0, b + Top.pushed, lev, 0..label_counter - 1)
         /\ \A k \in 1..Len(s) : s[k].start <= Top.save /\ s[k].labels <= Top.label
<1>1. /\ FramesOK(frames) /\ label_counter \in Nat /\ Placed(frames, code, lev, label_counter)
      /\ Piece(code, 0, HeldBy(frames)[Len(frames)], lev, 0..label_counter - 1)
  BY DEF Formed, Levels
<1>2. /\ FramesOK(s) /\ Placed(s, code, lev, label_counter)
      /\ Within(Top, code, lev, label_counter, b)
      /\ HeldBy(frames)[Len(frames)] = b + Top.pushed
      /\ \A k \in 1..Len(s) : s[k].start <= Top.save /\ s[k].labels <= Top.label
  BY <1>1, PlacedLess DEF Top
<1>3. b \in Int
  <2>1. Len(s) \in Nat
    BY <1>2, HeldProp
  <2>2. Len(s) \in 0..Len(s)
    BY <2>1
  <2> QED BY <1>2, <2>2, HeldProp
<1>4. Top.pushed \in Nat
  BY TopOK DEF FrameOK
<1> QED BY <1>1, <1>2, <1>3, <1>4

\* The instructions of the innermost operator.
LEMMA InnerItems ==
  ASSUME NEW f, NEW c, NEW lev \in [Nat -> Int], NEW n \in Nat, NEW b \in Int, Within(f, c, lev, n, b),
         NEW items, NEW j \in Int, NEW k \in Int, Marked(items, j, k, f.label, f.labels - f.label)
  PROVE  /\ Piece(items, b + j, b + k, lev, f.label..f.labels - 1)
         /\ f.label \in Nat /\ f.labels - 1 \in Int /\ f.labels - 1 < n
<1> DEFINE l == f.label
           m == f.labels
<1>1. l \in Nat /\ m \in Nat /\ m <= n /\ \A i \in l..m - 1 : lev[i] = b
  BY DEF Within
<1>2. Marked(items, j, k, l, m - l)
  OBVIOUS
<1> HIDE DEF l, m
<1>3. l + (m - l) - 1 = m - 1
  BY <1>1
<1>4. \A i \in l..l + (m - l) - 1 : lev[i] = b
  BY <1>1, <1>3
<1>5. Piece(items, b + j, b + k, lev, l..l + (m - l) - 1)
  BY <1>2, <1>4 DEF Marked
<1>6. Piece(items, b + j, b + k, lev, l..m - 1) /\ l \in Nat /\ m - 1 \in Int /\ m - 1 < n
  BY <1>1, <1>3, <1>5
<1> QED BY <1>6 DEF l, m

\* An operator is complete.
LEMMA BalancedComplete ==
  ASSUME Formed, Balanced, frames # <<>>, NEW p, NEW used, NEW items,
         Marked(items, Top.pushed, 0, Top.label, Top.labels - Top.label),
         Complete(p, used, items)
  PROVE  Balanced'
<1>0. frames' = Front(frames) /\ code' = code \o items /\ label_counter' = label_counter
  BY DEF Complete
<1>1. PICK lev : Levels(lev)
  BY DEF Balanced
<1>2. label_counter \in Nat /\ lev \in [Nat -> Int]
  BY <1>1 DEF Formed, Levels
<1> DEFINE s == Front(frames)
           b == HeldBy(s)[Len(s)]
           f == Top
<1>3. /\ FramesOK(s) /\ Placed(s, code, lev, label_counter)
      /\ Within(f, code, lev, label_counter, b)
      /\ b \in Int /\ f.pushed \in Nat /\ b + f.pushed \in Int
      /\ Piece(code, 0, b + f.pushed, lev, 0..label_counter - 1)
      /\ \A k \in 1..Len(s) : s[k].start <= f.save /\ s[k].labels <= f.label
  BY <1>1, InnerTop
<1>4. Marked(items, f.pushed, 0, f.label, f.labels - f.label)
  OBVIOUS
<1> HIDE DEF s, b, f
<1>5. /\ Piece(items, b + f.pushed, b + 0, lev, f.label..f.labels - 1)
      /\ f.label \in Nat /\ f.labels - 1 \in Int /\ f.labels - 1 < label_counter
  <2>1. f.pushed \in Int /\ 0 \in Int
    BY <1>3
  <2> QED BY <1>2, <1>3, <1>4, <2>1, InnerItems
<1>6. b + 0 = b /\ label_counter <= label_counter /\ \A k \in 1..Len(s) : s[k].labels <= f.label
  BY <1>2, <1>3
<1>7. Piece(code \o items, 0, b, lev, 0..label_counter - 1) /\ Placed(s, code \o items, lev, label_counter)
  BY <1>2, <1>3, <1>5, <1>6, CodeGrows
<1>8. Levels(lev)'
  BY <1>0, <1>2, <1>7 DEF Levels, s, b
<1> QED BY <1>8 DEF Balanced

\* Another operand of the innermost operator is complete.
LEMMA BalancedTop ==
  ASSUME Formed, Formed', Balanced, frames # <<>>, NEW kids, NEW items,
         Marked(items, Top.pushed, Top.pushed, Top.label, Top.labels - Top.label),
         frames' = [frames EXCEPT ![Len(frames)].kids = kids,
                                  ![Len(frames)].start = Len(code) + Len(items)],
         code' = code \o items, label_counter' = label_counter
  PROVE  Balanced'
<1>1. PICK lev : Levels(lev)
  BY DEF Balanced
<1>2. label_counter \in Nat /\ lev \in [Nat -> Int]
  BY <1>1 DEF Formed, Levels
<1> DEFINE s == Front(frames)
           b == HeldBy(s)[Len(s)]
           f == Top
           d == code \o items
           t == frames'
           g == t[Len(t)]
           h == b + f.pushed
<1>3. /\ FramesOK(s) /\ Placed(s, code, lev, label_counter)
      /\ Within(f, code, lev, label_counter, b)
      /\ b \in Int /\ f.pushed \in Nat /\ h \in Int
      /\ Piece(code, 0, h, lev, 0..label_counter - 1)
      /\ \A k \in 1..Len(s) : s[k].start <= f.save /\ s[k].labels <= f.label
  BY <1>1, InnerTop
<1>4. Marked(items, f.pushed, f.pushed, f.label, f.labels - f.label)
  OBVIOUS
<1>5. /\ FramesOK(t) /\ Len(t) = Len(s) + 1 /\ \A i \in 1..Len(s) : t[i] = s[i]
      /\ g.op = f.op /\ g.pushed = f.pushed /\ g.label = f.label /\ g.save = f.save
      /\ g.start = Len(code) + Len(items) /\ g.labels = f.labels
      /\ g.p = f.p /\ g.used = f.used
  <2>1. FramesOK(frames)
    BY DEF Formed
  <2>2. /\ Len(s) = Len(frames) - 1 /\ Len(frames) \in Nat \ {0}
        /\ \A i \in 1..Len(frames) - 1 : s[i] = frames[i]
    BY <2>1, FramesFront
  <2>3. /\ FramesOK(t) /\ Len(t) = Len(frames) /\ \A i \in 1..Len(frames) - 1 : t[i] = frames[i]
    <3> DEFINE start == Len(code) + Len(items)
    <3>1. t = [frames EXCEPT ![Len(frames)].kids = kids, ![Len(frames)].start = start]
      OBVIOUS
    <3> HIDE DEF t, start
    <3>2. FramesOK(t)
      BY <2>1, <3>1, FramesTop
    <3>3. Len(t) = Len(frames)
      BY <2>1, <3>1, FramesTop
    <3>4. \A i \in 1..Len(frames) - 1 : t[i] = frames[i]
      BY <2>1, <3>1, FramesTop
    <3> QED BY <3>2, <3>3, <3>4
  <2>4. LET x == t[Len(frames)]
        IN /\ x.op = f.op /\ x.pushed = f.pushed /\ x.label = f.label /\ x.save = f.save
           /\ x.start = Len(code) + Len(items) /\ x.labels = f.labels /\ x.p = f.p /\ x.used = f.used
    BY <2>1, FramesTop DEF Top
  <2> HIDE DEF s, t, f
  <2> QED BY <2>2, <2>3, <2>4
<1>6. t = frames'
  OBVIOUS
<1> HIDE DEF s, b, f, t, g, h
<1>7. /\ Piece(items, h, h, lev, f.label..f.labels - 1)
      /\ f.label \in Nat /\ f.labels - 1 \in Int /\ f.labels - 1 < label_counter
  <2>1. f.pushed \in Int
    BY <1>3
  <2>2. Piece(items, b + f.pushed, b + f.pushed, lev, f.label..f.labels - 1)
    BY <1>2, <1>3, <1>4, <2>1, InnerItems
  <2>3. f.label \in Nat /\ f.labels - 1 \in Int /\ f.labels - 1 < label_counter
    <3>1. f.label \in Nat /\ f.labels \in Nat /\ f.labels <= label_counter
      BY <1>3 DEF Within
    <3> QED BY <1>2, <3>1
  <2> QED BY <2>2, <2>3 DEF h
<1>8. label_counter <= label_counter /\ \A k \in 1..Len(s) : s[k].labels <= f.label
  BY <1>2, <1>3
<1>9. Piece(d, 0, h, lev, 0..label_counter - 1) /\ Placed(s, d, lev, label_counter)
  BY <1>2, <1>3, <1>7, <1>8, CodeGrows
<1>10. /\ Len(code) \in Nat /\ Len(items) \in Nat /\ Len(d) = Len(code) + Len(items)
       /\ KeptTo(code, d, Len(code)) /\ Depths(code)[Len(code)] = h /\ Depths(d)[Len(d)] = h
  <2>1. /\ h \in Int /\ Piece(code, 0, h, lev, 0..label_counter - 1)
        /\ Piece(items, h, h, lev, f.label..f.labels - 1)
    BY <1>3, <1>7
  <2>2. Len(code) \in Nat /\ Len(items) \in Nat /\ Len(d) = Len(code) + Len(items)
    BY <2>1, CodeAppended
  <2>3. KeptTo(code, d, Len(code))
    BY <2>1, CodeAppended
  <2>4. Depths(code)[Len(code)] = h
    BY <2>1, PieceEnd
  <2>5. Depths(d)[Len(d)] = h
    BY <1>9, PieceEnd
  <2> QED BY <2>2, <2>3, <2>4, <2>5
<1> HIDE DEF d
<1>11. Within(g, d, lev, label_counter, b)
  <2>1. Depths(d)[g.save] = b
    <3>1. f.save \in 0..Len(code) /\ Depths(code)[f.save] = b
      BY <1>3, <1>10 DEF Within
    <3> QED BY <1>5, <1>10, <3>1 DEF KeptTo
  <2>2. g.start = Len(d) /\ Depths(d)[g.start] = b + g.pushed
    BY <1>5, <1>10 DEF h
  <2>3. MarksFrom(d, g.start, g.labels)
    <3>1. Len(d) \in Nat
      BY <1>10
    <3> QED BY <2>2, <3>1 DEF MarksFrom
  <2>4. /\ g.save \in Nat /\ g.start \in Nat /\ g.save <= g.start /\ g.start <= Len(d)
        /\ g.label \in Nat /\ g.labels \in Nat /\ g.label <= g.labels /\ g.labels <= label_counter
    BY <1>3, <1>5, <1>10, <2>2 DEF Within
  <2>5. \A l \in g.label..g.labels - 1 : lev[l] = b
    BY <1>3, <1>5 DEF Within
  <2>6. Reserved(g)
    BY <1>3, <1>5 DEF Within, Reserved
  <2> QED BY <2>1, <2>2, <2>3, <2>4, <2>5, <2>6 DEF Within
<1>12. Placed(t, d, lev, label_counter) /\ HeldBy(t)[Len(t)] = h
  <2>1. Within(t[Len(t)], d, lev, label_counter, HeldBy(s)[Len(s)])
    BY <1>11 DEF g, b
  <2>2. \A k \in 1..Len(s) : s[k].start <= t[Len(t)].save /\ s[k].labels <= t[Len(t)].label
    BY <1>3, <1>5 DEF g
  <2>3. Placed(t, d, lev, label_counter) /\ HeldBy(t)[Len(t)] = HeldBy(s)[Len(s)] + t[Len(t)].pushed
    BY <1>2, <1>3, <1>5, <1>9, <2>1, <2>2, PlacedMore
  <2> QED BY <1>5, <2>3 DEF g, b, h
<1>13. Levels(lev)'
  BY <1>2, <1>6, <1>9, <1>12 DEF Levels, d
<1> QED BY <1>13 DEF Balanced

------------------------------------------------------------------------------
\* The second operand of & ^ | is parsed twice

\* The beginning of the code.
LEMMA PieceFront ==
  ASSUME NEW c, NEW h, NEW lev, NEW M, Piece(c, 0, h, lev, M), NEW n \in Nat, n <= Len(c),
         NEW b, Depths(c)[n] = b
  PROVE  LET d == SubSeq(c, 1, n) IN
         /\ Piece(d, 0, b, lev, M) /\ Len(d) = n /\ KeptTo(c, d, n)
<1> DEFINE d == SubSeq(c, 1, n)
<1>1. PICK S : c \in Seq(S)
  BY DEF Piece, Instrs, IsSeq
<1>2. Len(c) \in Nat /\ DOMAIN c = 1..Len(c) /\ \A i \in 1..n : i \in 1..Len(c) /\ c[i] \in S
  BY <1>1
<1>3. d = [i \in 1..n |-> c[i]]
  BY <1>1
<1> HIDE DEF d
<1>4. d \in Seq(S) /\ Len(d) = n /\ DOMAIN d = 1..n /\ \A i \in 1..n : d[i] = c[i]
  BY <1>2, <1>3
<1>5. Instrs(c) /\ Instrs(d)
  BY <1>2, <1>4 DEF Piece, Instrs, IsSeq
<1>6. Alike(Depths(c), 0, Depths(d), 0, n)
  <2>1. \A i \in 1..n : Pushes(d[0 + i]) = Pushes(c[0 + i])
    BY <1>4
  <2>2. 0 + n <= Len(c) /\ 0 + n <= Len(d) /\ 0 \in Nat
    BY <1>4
  <2> QED BY <1>5, <2>1, <2>2, DepthsShift
<1>7. \A i \in 0..n : Depths(d)[i] = Depths(c)[i]
  <2>1. Depths(c)[0] = 0 /\ Depths(d)[0] = 0 /\ \A k \in 0..Len(c) : Depths(c)[k] \in Int
    BY <1>5, DepthsIn
  <2>2. \A i \in 0..n : 0 + i = i /\ i \in 0..Len(c)
    BY <1>2
  <2>3. ASSUME NEW i \in 0..n PROVE Depths(d)[i] = Depths(c)[i]
    <3>1. Depths(d)[0 + i] = Depths(d)[0] + Depths(c)[0 + i] - Depths(c)[0]
      BY <1>6 DEF Alike
    <3> QED BY <2>1, <2>2, <3>1
  <2> QED BY <2>3
<1>8. n \in 0..n /\ Depths(c)[n] \in Int
  <2>1. n \in 0..Len(c)
    BY <1>2
  <2> QED BY <1>5, <2>1, DepthsIn
<1>9. 0 + Depths(d)[Len(d)] = b
  BY <1>4, <1>7, <1>8
<1>10. ASSUME NEW i \in 1..Len(d), IsMark(d[i])
       PROVE  /\ d[i] = Mark(d[i].op, d[i].dst.n) /\ d[i].dst.n \in M
              /\ 0 + Depths(d)[i] = lev[d[i].dst.n]
  <2>1. i \in 1..Len(c) /\ d[i] = c[i] /\ Depths(d)[i] = Depths(c)[i]
    BY <1>2, <1>4, <1>7
  <2> QED BY <1>10, <2>1 DEF Piece
<1>11. Piece(d, 0, b, lev, M)
  BY <1>5, <1>9, <1>10 DEF Piece
<1> QED BY <1>2, <1>4, <1>7, <1>11 DEF KeptTo, d

\* A jump or label with another number.
LEMMA MarkRenumbered ==
  ASSUME NEW o, NEW l, NEW x
  PROVE  [Mark(o, l) EXCEPT !.dst.n = x] = Mark(o, x)
<1> DEFINE d == Num(l)
           z == Num(0)
           none == "none"
<1>1. /\ d = [mem |-> No, base |-> none, n |-> l, w |-> 0]
      /\ Num(x) = [mem |-> No, base |-> none, n |-> x, w |-> 0]
  BY NoProp DEF Num
<1> HIDE DEF d, none
<1>2. [[mem |-> No, base |-> none, n |-> l, w |-> 0] EXCEPT !.n = x]
        = [mem |-> No, base |-> none, n |-> x, w |-> 0]
  OBVIOUS
<1>3. [d EXCEPT !.n = x] = Num(x)
  BY <1>1, <1>2
<1> HIDE DEF z
<1>4. [[op |-> o, size |-> 0, dst |-> d, src |-> z] EXCEPT !.dst.n = x]
        = [op |-> o, size |-> 0, dst |-> [d EXCEPT !.n = x], src |-> z]
  OBVIOUS
<1> QED BY <1>3, <1>4 DEF Mark, d, z

\* Each instruction of Again is the old one, or a jump or label with a new number.
Renewed(it, k) == IF it.op \in JumpOps \cup {"label"} THEN [it EXCEPT !.dst.n = it.dst.n + k] ELSE it
\* Renumbering a mark moves its label and leaves what it pushes.
LEMMA RenewedProp ==
  ASSUME NEW it, NEW k \in Int,
         IsMark(it) => it = Mark(it.op, it.dst.n) /\ it.dst.n \in Int
  PROVE  /\ Pushes(Renewed(it, k)) = Pushes(it) /\ IsMark(Renewed(it, k)) = IsMark(it)
         /\ IsMark(it) => Renewed(it, k) = Mark(it.op, it.dst.n + k)
<1>1. CASE ~IsMark(it)
  BY <1>1 DEF Renewed, IsMark
<1>2. CASE IsMark(it)
  <2> DEFINE o == it.op
             l == it.dst.n
  <2>1. it = Mark(o, l) /\ l \in Int /\ Renewed(it, k) = [it EXCEPT !.dst.n = l + k]
    BY <1>2 DEF Renewed, IsMark
  <2> HIDE DEF o, l
  <2>2. [Mark(o, l) EXCEPT !.dst.n = l + k] = Mark(o, l + k)
    BY MarkRenumbered
  <2>3. Renewed(it, k) = Mark(o, l + k)
    BY <2>1, <2>2
  <2>4. \A x : Mark(o, x).op = o
    BY DEF Mark
  <2>5. o \in JumpOps \cup {"label"}
    BY <1>2 DEF IsMark, o
  <2>6. \A x : IsMark(Mark(o, x)) /\ Pushes(Mark(o, x)) = 0
    <3>1. o \notin {"push", "pop", "sub", "add"}
      BY <2>5 DEF JumpOps
    <3> QED BY <2>4, <2>5, <3>1 DEF IsMark, Pushes
  <2>7. IsMark(it) /\ IsMark(Renewed(it, k)) /\ Pushes(Renewed(it, k)) = Pushes(it)
    BY <2>1, <2>3, <2>6
  <2> QED BY <2>3, <2>7 DEF o, l
<1> QED BY <1>1, <1>2

\* A function on 1..w is a sequence.
LEMMA TableSeq ==
  ASSUME NEW w \in Nat, NEW d, DOMAIN d = 1..w, d = [i \in 1..w |-> d[i]]
  PROVE  IsSeq(d) /\ Len(d) = w /\ DOMAIN d = 1..w
<1> DEFINE S == {d[i] : i \in 1..w}
<1>1. \A i \in 1..w : d[i] \in S
  OBVIOUS
<1> HIDE DEF S
<1>2. d \in Seq(S)
  BY <1>1
<1>3. Len(d) = w
  BY <1>2
<1> QED BY <1>2, <1>3 DEF IsSeq

\* d is what c is behind a, where the stack is h words high, with other labels; its labels
\* are one word lower.
Repeats(c, a, d, h, lev, lev2, m, n, k) ==
  /\ h \in Int /\ lev \in [Nat -> Int] /\ m \in Nat /\ n \in Nat /\ m <= n /\ k \in Nat /\ k = n - m
  /\ Piece(c, 0, h, lev, 0..n - 1)
  /\ a \in Nat /\ a <= Len(c) /\ MarksFrom(c, a, m) /\ Depths(c)[a] = h
  /\ \A l \in m..n - 1 : lev2[l + k] = lev[l] - 1
  /\ IsSeq(d) /\ Len(d) = Len(c) - a
  /\ \A i \in 1..Len(c) - a : d[i] = Renewed(c[a + i], k)

\* What was generated behind a is generated once more, on a stack of one word less.
LEMMA PieceAgain ==
  ASSUME NEW c, NEW a, NEW d, NEW h, NEW lev, NEW lev2, NEW m, NEW n, NEW k,
         Repeats(c, a, d, h, lev, lev2, m, n, k)
  PROVE  Piece(d, h - 1, h - 1, lev2, n..n + k - 1)
<1> USE DEF Repeats
<1>1. Instrs(c) /\ Len(c) \in Nat /\ \A i \in 0..Len(c) : Depths(c)[i] \in Int
  BY DepthsIn DEF Piece
<1> DEFINE w == Len(c) - a
<1>2. w \in Nat /\ a + w = Len(c) /\ \A i \in 1..w : a + i \in 1..Len(c) /\ a + i \in a + 1..Len(c)
  BY <1>1
<1>3. ASSUME NEW i \in 1..w, IsMark(c[a + i])
      PROVE  /\ c[a + i] = Mark(c[a + i].op, c[a + i].dst.n)
             /\ c[a + i].dst.n \in m..n - 1 /\ c[a + i].dst.n \in Nat
             /\ Depths(c)[a + i] = lev[c[a + i].dst.n]
  <2> DEFINE it == c[a + i]
  <2>1. a + i \in 1..Len(c) /\ a + i \in a + 1..Len(c) /\ IsMark(it)
    BY <1>2, <1>3
  <2>2. /\ it = Mark(it.op, it.dst.n) /\ it.dst.n \in 0..n - 1 /\ 0 + Depths(c)[a + i] = lev[it.dst.n]
    BY <2>1 DEF Piece
  <2>3. it.dst.n \in Nat /\ m <= it.dst.n
    BY <2>1 DEF MarksFrom
  <2>4. Depths(c)[a + i] \in Int
    BY <1>1, <2>1
  <2> DEFINE x == it.dst.n
  <2> HIDE DEF x
  <2>5. x \in m..n - 1
    <3>1. x \in 0..n - 1 /\ m <= x
      BY <2>2, <2>3 DEF x
    <3> QED BY <3>1
  <2>6. it.dst.n \in m..n - 1
    BY <2>5 DEF x
  <2>7. Depths(c)[a + i] = lev[it.dst.n]
    <3> DEFINE y == Depths(c)[a + i]
               z == lev[it.dst.n]
    <3>1. y \in Int /\ 0 + y = z
      BY <2>2, <2>4
    <3> HIDE DEF y, z
    <3>2. y = z
      BY <3>1
    <3> QED BY <3>2 DEF y, z
  <2> QED BY <2>2, <2>3, <2>6, <2>7
<1>4. \A i \in 1..w : d[i] = Renewed(c[a + i], k)
  OBVIOUS
<1>5. /\ \A i \in 1..w : Pushes(d[i]) = Pushes(c[a + i]) /\ IsMark(d[i]) = IsMark(c[a + i])
      /\ \A i \in 1..w : IsMark(d[i]) => d[i] = Mark(c[a + i].op, c[a + i].dst.n + k)
  <2> SUFFICES ASSUME NEW i \in 1..w
               PROVE  /\ Pushes(d[i]) = Pushes(c[a + i]) /\ IsMark(d[i]) = IsMark(c[a + i])
                      /\ IsMark(d[i]) => d[i] = Mark(c[a + i].op, c[a + i].dst.n + k)
    OBVIOUS
  <2> DEFINE it == c[a + i]
  <2>1. IsMark(it) => it = Mark(it.op, it.dst.n) /\ it.dst.n \in Int
    <3>1. ASSUME IsMark(it) PROVE it = Mark(it.op, it.dst.n) /\ it.dst.n \in Nat
      BY <1>3, <3>1
    <3>2. \A x \in Nat : x \in Int
      OBVIOUS
    <3> HIDE DEF it
    <3> QED BY <3>1, <3>2
  <2>2. d[i] = Renewed(it, k) /\ k \in Int
    BY <1>4
  <2> HIDE DEF it
  <2>3. /\ Pushes(Renewed(it, k)) = Pushes(it) /\ IsMark(Renewed(it, k)) = IsMark(it)
        /\ IsMark(it) => Renewed(it, k) = Mark(it.op, it.dst.n + k)
    BY <2>1, <2>2, RenewedProp
  <2> QED BY <2>2, <2>3 DEF it
<1>6. IsSeq(d) /\ Len(d) = w /\ DOMAIN d = 1..w
  BY DEF IsSeq
<1> HIDE DEF w
<1>7. Instrs(d)
  <2>1. \A i \in 1..w : Pushes(c[a + i]) \in Int
    <3>1. DOMAIN c = 1..Len(c)
      BY <1>1, PushesProp
    <3> QED BY <1>1, <1>2, <3>1 DEF Instrs
  <2> QED BY <1>5, <1>6, <2>1 DEF Instrs
<1>8. ASSUME NEW i \in 0..w
      PROVE  Depths(d)[i] = Depths(c)[a + i] - h /\ Depths(c)[a + i] \in Int
  <2>1. Alike(Depths(c), a, Depths(d), 0, w)
    <3>1. \A j \in 1..w : Pushes(d[0 + j]) = Pushes(c[a + j])
      <4>1. \A j \in 1..w : 0 + j = j
        OBVIOUS
      <4> QED BY <1>5, <4>1
    <3>2. a + w <= Len(c) /\ 0 + w <= Len(d) /\ 0 \in Nat
      BY <1>1, <1>2, <1>6
    <3> QED BY <1>1, <1>2, <1>7, <3>1, <3>2, DepthsShift
  <2>2. Depths(d)[0 + i] = Depths(d)[0] + Depths(c)[a + i] - Depths(c)[a]
    BY <2>1 DEF Alike
  <2>3. Depths(d)[0] = 0 /\ 0 + i = i
    BY <1>7, DepthsIn
  <2>4. Depths(c)[a + i] \in Int
    <3>1. a + i \in 0..Len(c)
      BY <1>1, <1>2
    <3> QED BY <1>1, <3>1
  <2> QED BY SMTT(30), <2>2, <2>3, <2>4
<1>9. (h - 1) + Depths(d)[Len(d)] = h - 1
  <2>1. w \in 0..w
    BY <1>2
  <2>2. Depths(c)[Len(c)] = h
    BY PieceEnd
  <2>3. Depths(d)[w] = Depths(c)[a + w] - h
    BY <1>8, <2>1
  <2>4. Depths(d)[Len(d)] = h - h
    BY <1>2, <1>6, <2>2, <2>3
  <2> QED BY <2>4
<1>10. ASSUME NEW i \in 1..Len(d), IsMark(d[i])
       PROVE  /\ d[i] = Mark(d[i].op, d[i].dst.n) /\ d[i].dst.n \in n..n + k - 1
              /\ (h - 1) + Depths(d)[i] = lev2[d[i].dst.n]
  <2> DEFINE o == c[a + i].op
             l == c[a + i].dst.n
  <2>1. i \in 1..w /\ i \in 0..w
    BY <1>6
  <2>2. d[i] = Mark(o, l + k) /\ IsMark(c[a + i])
    BY <1>5, <1>10, <2>1
  <2>3. l \in m..n - 1 /\ l \in Nat /\ Depths(c)[a + i] = lev[l]
    BY <1>3, <2>1, <2>2
  <2> HIDE DEF o, l
  <2>4. Mark(o, l + k).op = o /\ Mark(o, l + k).dst.n = l + k
    BY DEF Mark, Num
  <2>5. l + k \in n..n + k - 1
    BY <2>3
  <2>6. (h - 1) + Depths(d)[i] = lev2[l + k]
    <3>1. Depths(d)[i] = lev[l] - h /\ lev[l] \in Int
      BY <1>8, <2>1, <2>3
    <3>2. lev2[l + k] = lev[l] - 1
      BY <2>3
    <3> DEFINE y == lev[l]
    <3>3. y \in Int /\ Depths(d)[i] = y - h /\ lev2[l + k] = y - 1
      BY <3>1, <3>2
    <3> HIDE DEF y
    <3> QED BY <3>3
  <2> QED BY <2>2, <2>4, <2>5, <2>6
<1> QED BY <1>7, <1>9, <1>10 DEF Piece

\* The code where the second operand was parsed again.
AgainWith(items) == SubSeq(code, 1, Top.save) \o Again \o items

\* c32_src_ptr_restore takes back the output since the operator, the second operand is
\* parsed again, and what was pushed is not.
LEMMA BalancedAgain ==
  ASSUME Formed, Balanced, frames # <<>>, Top.pushed = 1, NEW items, Quiet(items, 0),
         code' = AgainWith(items),
         label_counter' = label_counter + NewLabels, frames' = Front(frames)
  PROVE  Balanced'
<1>1. PICK lev : Levels(lev)
  BY DEF Balanced
<1> DEFINE n == label_counter
           k == NewLabels
           m == Top.labels
           a == Top.start
           v == Top.save
           s == Front(frames)
           b == HeldBy(s)[Len(s)]
           c == code
           pre == SubSeq(c, 1, v)
           d == Again
<1>2. n \in Nat /\ lev \in [Nat -> Int]
  BY <1>1 DEF Formed, Levels
<1>3. /\ FramesOK(s) /\ Placed(s, c, lev, n) /\ Within(Top, c, lev, n, b) /\ b \in Int
      /\ Piece(c, 0, b + 1, lev, 0..n - 1) /\ \A j \in 1..Len(s) : s[j].start <= v
  BY <1>1, InnerTop
<1>4. /\ v \in Nat /\ a \in Nat /\ v <= a /\ a <= Len(c) /\ m \in Nat /\ m <= n
      /\ Depths(c)[v] = b /\ Depths(c)[a] = b + 1 /\ MarksFrom(c, a, m)
  BY <1>3 DEF Within
<1>5. k = n - m /\ k \in Nat
  <2>1. k = n - m
    BY DEF NewLabels
  <2> HIDE DEF n, m, k
  <2>2. k \in Nat
    BY <1>2, <1>4, <2>1
  <2> QED BY <2>1, <2>2
<1>6. IsSeq(d) /\ Len(d) = Len(c) - a /\ \A i \in 1..Len(c) - a : d[i] = Renewed(c[a + i], k)
  <2> DEFINE w == Len(c) - a
  <2>1. w \in Nat
    <3>1. Len(c) \in Nat
      BY <1>3, DepthsIn DEF Piece
    <3> QED BY <1>4, <3>1
  <2>2. d = [i \in 1..w |-> Renewed(c[a + i], k)]
    BY DEF Again, Renewed
  <2>3. DOMAIN d = 1..w /\ d = [i \in 1..w |-> d[i]] /\ \A i \in 1..w : d[i] = Renewed(c[a + i], k)
    BY <2>2
  <2> HIDE DEF w, d
  <2>4. IsSeq(d) /\ Len(d) = w
    BY <2>1, <2>3, TableSeq
  <2> QED BY <2>3, <2>4 DEF w
<1>7. \A j \in 1..Len(s) : s[j].labels <= n
  BY <1>3 DEF Placed, Within
<1>8. /\ AgainWith(items) = pre \o d \o items /\ label_counter' = n + k /\ frames' = s
  BY DEF AgainWith
<1>9. PICK lev2 : /\ lev2 \in [Nat -> Int]
                  /\ \A l \in 0..n - 1 : lev2[l] = lev[l]
                  /\ \A l \in m..n - 1 : lev2[l + k] = lev[l] - 1
  <2> HIDE DEF n, k, m
  <2> DEFINE z == [l \in Nat |-> IF l >= n /\ l - k \in Nat THEN lev[l - k] - 1 ELSE lev[l]]
  <2>1. z \in [Nat -> Int]
    BY <1>2, <1>5
  <2>2. \A l \in 0..n - 1 : z[l] = lev[l]
    BY <1>2
  <2>3. \A l \in m..n - 1 : z[l + k] = lev[l] - 1
    <3> SUFFICES ASSUME NEW l \in m..n - 1 PROVE z[l + k] = lev[l] - 1
      OBVIOUS
    <3>1. l \in Nat /\ l + k \in Nat /\ l + k >= n /\ (l + k) - k = l
      BY <1>2, <1>4, <1>5
    <3> QED BY <3>1
  <2> HIDE DEF z
  <2> QED BY <2>1, <2>2, <2>3
<1> HIDE DEF n, k, m, a, v, s, b, c, pre, d
<1>10. Piece(pre, 0, b, lev, 0..n - 1) /\ Len(pre) = v /\ KeptTo(c, pre, v)
  <2>1. v <= Len(c) /\ Len(c) \in Nat
    <3>1. Len(c) \in Nat
      BY <1>3, DepthsIn DEF Piece
    <3> QED BY <1>4, <3>1
  <2> QED BY <1>3, <1>4, <2>1, PieceFront DEF pre
<1>11. Placed(s, pre, lev, n)
  <2>1. Len(c) \in Nat
    BY <1>3, DepthsIn DEF Piece
  <2>2. MarksFrom(pre, v, n) /\ Len(pre) \in Nat /\ n <= n
    <3>1. v + 1..v = {}
      BY <1>4
    <3>2. MarksFrom(pre, v, n)
      BY <1>10, <3>1 DEF MarksFrom
    <3>3. Len(pre) \in Nat
      BY <1>4, <1>10
    <3>4. n <= n
      BY <1>2
    <3> QED BY <3>2, <3>3, <3>4
  <2>3. \A j \in 1..Len(s) : s[j].start <= v /\ s[j].labels <= n
    BY <1>3, <1>7
  <2>4. \A l \in 0..n - 1 : lev[l] = lev[l]
    OBVIOUS
  <2> QED BY <1>2, <1>3, <1>4, <1>10, <2>1, <2>2, <2>3, <2>4, PlacedKeeps
<1>12. Piece(d \o items, b, b, lev2, n..n + k - 1)
  <2>1. Piece(d, b, b, lev2, n..n + k - 1)
    <3> DEFINE h == b + 1
    <3>1. h \in Int /\ h - 1 = b
      BY <1>3
    <3>2. Piece(c, 0, h, lev, 0..n - 1) /\ Depths(c)[a] = h
      BY <1>3, <1>4
    <3> HIDE DEF h
    <3>3. Piece(d, h - 1, h - 1, lev2, n..n + k - 1)
      <4>1. Repeats(c, a, d, h, lev, lev2, m, n, k)
        BY <1>2, <1>4, <1>5, <1>6, <1>9, <3>1, <3>2 DEF Repeats
      <4> QED BY <4>1, PieceAgain
    <3> QED BY <3>1, <3>3
  <2>2. Piece(items, b, b, lev2, n..n + k - 1)
    <3>1. b + 0 = b /\ 0 \in Int
      BY <1>3
    <3>2. Piece(items, b, b + 0, lev2, n..n + k - 1)
      BY <1>3, <3>1, QuietPiece
    <3> QED BY <3>1, <3>2
  <2> QED BY <1>3, <2>1, <2>2, PieceConcat
<1>13. AgainWith(items) = pre \o (d \o items)
  <2>1. IsSeq(pre) /\ IsSeq(d) /\ IsSeq(items)
    <3>1. IsSeq(pre) /\ IsSeq(items)
      BY <1>10 DEF Piece, Quiet, Instrs
    <3> QED BY <1>6, <3>1
  <2>2. (pre \o d) \o items = pre \o (d \o items)
    BY <2>1, ConcatAssoc
  <2> QED BY <1>8, <2>2
<1>14. Piece(pre \o (d \o items), 0, b, lev2, 0..(n + k) - 1) /\ Placed(s, pre \o (d \o items), lev2, n + k)
  <2> DEFINE x == d \o items
             r == n + k - 1
             n2 == n + k
  <2>1. n2 \in Nat /\ n <= n2 /\ r \in Int /\ r < n2
    <3>1. n \in Nat /\ k \in Nat
      BY <1>2, <1>5
    <3> QED BY <3>1
  <2>2. Piece(x, b, b, lev2, n..r)
    BY <1>12
  <2> HIDE DEF x, r, n2
  <2>3. Piece(pre \o x, 0, b, lev2, 0..n2 - 1) /\ Placed(s, pre \o x, lev2, n2)
    BY <1>2, <1>3, <1>7, <1>9, <1>10, <1>11, <2>1, <2>2, CodeGrows
  <2> QED BY <2>3 DEF x, n2
<1>15. Levels(lev2)'
  BY <1>8, <1>9, <1>13, <1>14 DEF Levels, b
<1> QED BY <1>15 DEF Balanced

------------------------------------------------------------------------------
\* What the instructions push

\* Instructions that are neither jumps nor labels, and leave esp alone.
Plain == {"mov", "and", "or", "xor", "neg", "not", "cbw", "cwde", "cmp", "mul", "imul", "div", "idiv",
          "shl", "shr", "dec", "cwd", "call"}
\* Code made of plain instructions does not touch the stack.
LEMMA QuietPlain ==
  /\ \A op \in Plain : \A size, dst, src : Quiet(Sized(op, size, dst, src), 0)
  /\ \A op \in Plain : \A dst, src : Quiet(Ins(op, dst, src), 0)
  /\ \A op \in Plain : \A dst : Quiet(One(op, dst), 0)
<1>1. ASSUME NEW op \in Plain, NEW size, NEW dst, NEW src PROVE Quiet(Sized(op, size, dst, src), 0)
  <2> DEFINE it == [op |-> op, size |-> size, dst |-> dst, src |-> src]
  <2>1. it.op = op
    OBVIOUS
  <2> HIDE DEF it
  <2>2. ~IsMark(it)
    BY <2>1 DEF Plain, IsMark, JumpOps
  <2>3. Pushes(it) = 0
    BY <2>1 DEF Plain, Pushes
  <2>4. Quiet(<<it>>, 0)
    BY <2>2, <2>3, QuietOne
  <2> QED BY <2>4 DEF it, Sized
<1> QED BY <1>1 DEF Ins, One

\* add and sub of anything but esp.
LEMMA QuietAdd ==
  ASSUME NEW op \in {"add", "sub"}, NEW size, NEW dst, NEW src, dst.base # "esp"
  PROVE  Quiet(Sized(op, size, dst, src), 0) /\ Quiet(Ins(op, dst, src), 0)
<1>1. ASSUME NEW w PROVE Quiet(Sized(op, w, dst, src), 0)
  <2> DEFINE it == [op |-> op, size |-> w, dst |-> dst, src |-> src]
  <2>1. it.op = op /\ it.dst = dst /\ dst # Esp
    BY DEF Esp, Reg
  <2> HIDE DEF it
  <2>2. ~IsMark(it)
    BY <2>1 DEF IsMark, JumpOps
  <2>3. Pushes(it) = 0
    BY <2>1 DEF Pushes
  <2>4. Quiet(<<it>>, 0)
    BY <2>2, <2>3, QuietOne
  <2> QED BY <2>4 DEF it, Sized
<1> QED BY <1>1 DEF Ins

\* push and pop.
LEMMA QuietPush == \A x : Quiet(One("push", x), 1) /\ Quiet(One("pop", x), -1)
<1>1. ASSUME NEW x, NEW op \in {"push", "pop"}
      PROVE  Quiet(One(op, x), IF op = "push" THEN 1 ELSE -1)
  <2> DEFINE it == [op |-> op, size |-> 0, dst |-> x, src |-> Num(0)]
  <2>1. it.op = op
    OBVIOUS
  <2> HIDE DEF it
  <2>2. ~IsMark(it)
    BY <2>1 DEF IsMark, JumpOps
  <2>3. Pushes(it) = IF op = "push" THEN 1 ELSE -1
    BY <2>1 DEF Pushes
  <2>4. Quiet(<<it>>, IF op = "push" THEN 1 ELSE -1)
    BY <2>2, <2>3, QuietOne
  <2> QED BY <2>4 DEF it, One, Ins, Sized
<1> QED BY <1>1

\* Room for n arguments.
LEMMA QuietRoom ==
  ASSUME NEW n \in Nat
  PROVE  Quiet(Ins("sub", Esp, Num(4 * n)), n) /\ Quiet(Ins("add", Esp, Num(4 * n)), -n)
<1>1. (4 * n) \div 4 = n
  OBVIOUS
<1>2. ASSUME NEW op \in {"sub", "add"}
      PROVE  Quiet(Ins(op, Esp, Num(4 * n)), IF op = "sub" THEN n ELSE -n)
  <2> DEFINE it == [op |-> op, size |-> 0, dst |-> Esp, src |-> Num(4 * n)]
  <2>1. it.op = op /\ it.dst = Esp /\ it.src.n = 4 * n
    BY DEF Num
  <2> HIDE DEF it
  <2>2. ~IsMark(it)
    BY <2>1 DEF IsMark, JumpOps
  <2>3. Pushes(it) = IF op = "sub" THEN n ELSE -n
    BY <1>1, <2>1 DEF Pushes
  <2>4. Quiet(<<it>>, IF op = "sub" THEN n ELSE -n)
    BY <2>2, <2>3, QuietOne
  <2> QED BY <2>4 DEF it, Ins, Sized
<1> QED BY <1>2

\* Pieces that push nothing, in front of others and behind them.
LEMMA QuietBoth ==
  ASSUME NEW s, NEW t, NEW k \in Int, (Quiet(s, 0) /\ Quiet(t, k)) \/ (Quiet(s, k) /\ Quiet(t, 0))
  PROVE  Quiet(s \o t, k)
<1>1. 0 + k = k /\ k + 0 = k
  OBVIOUS
<1>2. CASE Quiet(s, 0) /\ Quiet(t, k)
  <2>1. Quiet(s \o t, 0 + k)
    BY <1>2, QuietConcat
  <2> QED BY <1>1, <2>1
<1>3. CASE Quiet(s, k) /\ Quiet(t, 0)
  <2>1. Quiet(s \o t, k + 0)
    BY <1>3, QuietConcat
  <2> QED BY <1>1, <2>1
<1> QED BY <1>2, <1>3

\* The registers that are not esp.
LEMMA Registers ==
  /\ Eax.base = "eax" /\ Ebx.base = "ebx" /\ Ecx.base = "ecx" /\ Edx.base = "edx"
  /\ \A p : Good(p) => p.opnd.base # "esp"
BY DEF Eax, Ebx, Ecx, Edx, Reg, Good, ParamOK, OpndOK

\* The extension of eax pushes nothing.
LEMMA QuietExtend == \A w : Quiet(SignExtend(w), 0)
<1>1. Quiet(One("cbw", Eax), 0) /\ Quiet(One("cwde", Eax), 0) /\ Quiet(<<>>, 0)
  BY QuietPlain, QuietOne DEF Plain
<1>2. Quiet(One("cbw", Eax) \o One("cwde", Eax), 0)
  BY <1>1, QuietBoth
<1> QED BY <1>1, <1>2 DEF SignExtend

\* convert_com20 pushes nothing.
LEMMA QuietLoad == \A p : Quiet(Load(p), 0) /\ Quiet(Push(p), 1)
<1> SUFFICES ASSUME NEW p PROVE Quiet(Load(p), 0) /\ Quiet(Push(p), 1)
  OBVIOUS
<1>1. \A w : Quiet(SignExtend(w), 0)
  BY QuietExtend
<1>2. Quiet(Load(p), 0)
  <2> DEFINE w == Width(p.attr)
  <2>1. /\ \A x, y : Quiet(Ins("mov", x, y), 0)
        /\ Quiet(Ins("sub", Ebx, Ebx), 0) /\ Quiet(<<>>, 0)
    BY QuietPlain, QuietAdd, QuietOne, Registers DEF Plain
  <2> HIDE DEF w
  <2>2. Quiet(Ins("sub", Ebx, Ebx) \o Ins("mov", Reg("ebx", w), p.opnd), 0)
    BY <2>1, QuietBoth
  <2>3. Quiet(Ins("sub", Ebx, Ebx) \o Ins("mov", Reg("ebx", w), p.opnd) \o Ins("mov", Eax, Ebx), 0)
    BY <2>1, <2>2, QuietBoth
  <2>4. Quiet(Ins("mov", Reg("eax", w), p.opnd) \o IF p.attr.uns THEN <<>> ELSE SignExtend(w), 0)
    <3>1. Quiet(IF p.attr.uns THEN <<>> ELSE SignExtend(w), 0)
      BY <1>1, <2>1
    <3> QED BY <2>1, <3>1, QuietBoth
  <2> QED BY <2>1, <2>3, <2>4 DEF Load, w
<1>3. Quiet(Push(p), 1)
  BY <1>2, QuietPush, QuietBoth DEF Push
<1> QED BY <1>2, <1>3

------------------------------------------------------------------------------
\* The actions keep the balance

\* Nothing is pushed and no label is taken.
LEMMA BalancedQuiet ==
  ASSUME Formed, Balanced, NEW items, Quiet(items, 0),
         frames' = frames, code' = code \o items, label_counter' = label_counter
  PROVE  Balanced'
<1>1. label_counter + 0 = label_counter
  BY DEF Formed
<1>2. Marked(items, 0, 0, label_counter, 0)
  BY MarkedQuiet
<1>3. label_counter' = label_counter + 0
  BY <1>1
<1> QED BY <1>2, <1>3, BalancedEmit

\* An operand is parsed.
LEMMA BalancedPrimary ==
  ASSUME Formed, Balanced, NEW p, NEW used, NEW op, NEW sym, NEW n, NEW items, Quiet(items, 0),
         Primary(p, used, op, sym, n, items)
  PROVE  Balanced'
BY BalancedQuiet DEF Primary

\* A prefix or postfix operator is applied.
LEMMA BalancedApply ==
  ASSUME Formed, Balanced, NEW op, NEW p, NEW used, NEW items, Quiet(items, 0),
         Apply(op, p, used, items)
  PROVE  Balanced'
<1>1. label_counter + 0 = label_counter
  BY DEF Formed
<1>2. frames' = frames /\ code' = code \o items /\ label_counter' = label_counter
  BY <1>1 DEF Apply, ApplyLabelled
<1> QED BY <1>2, BalancedQuiet

\* An expression is refused.
LEMMA BalancedRefuse == ASSUME Balanced, NEW e, Refuse(e) PROVE Balanced'
BY BalancedStays DEF Refuse

\* Operators that keep labels for their end.
Labelled == Order \cup Equality \cup {"&&", "||", "?:"}

\* An operator without labels is opened.
LEMMA BalancedOpenFrame ==
  ASSUME Formed, Formed', Balanced, NEW op, op \notin Labelled, NEW kids, NEW sym, NEW p, NEW items,
         NEW pushed \in Nat, Quiet(items, pushed), OpenFrame(op, kids, sym, p, items, pushed, 0),
         op \in Product \cup Sum \cup Shift /\ cur.used => ~p.numb
  PROVE  Balanced'
<1>1. Marked(items, 0, pushed, label_counter, 0)
  <2>1. pushed - 0 = pushed
    OBVIOUS
  <2> QED BY <2>1, MarkedQuiet
<1>2. Reserved(NewFrame(op, kids, sym, p, items, pushed, 0))
  <2> DEFINE f == NewFrame(op, kids, sym, p, items, pushed, 0)
  <2>1. f.op = op /\ f.p = p /\ f.used = cur.used
    BY DEF NewFrame
  <2> HIDE DEF f
  <2>2. Reserved(f)
    BY <2>1 DEF Reserved, Labelled
  <2> QED BY <2>2 DEF f
<1> QED BY <1>1, <1>2, BalancedOpen

\* Another one than a call is opened.
LEMMA BalancedOpened ==
  ASSUME Formed, Formed', Balanced, NEW op, op \notin Labelled, NEW p, NEW items, NEW pushed \in Nat,
         Quiet(items, pushed), Open(op, p, items, pushed, 0),
         op \in Product \cup Sum \cup Shift /\ cur.used => ~p.numb
  PROVE  Balanced'
BY BalancedOpenFrame DEF Open

\* An operator is complete, and gives back what it pushed.
LEMMA BalancedClose ==
  ASSUME Formed, Balanced, frames # <<>>, NEW p, NEW used, NEW items, Quiet(items, -Top.pushed),
         Complete(p, used, items)
  PROVE  Balanced'
<1>1. Top.pushed \in Nat
  BY TopOK DEF FrameOK
<1>2. 0 - Top.pushed = -Top.pushed /\ Top.pushed \in Int
  BY <1>1
<1>3. Marked(items, Top.pushed, 0, Top.label, Top.labels - Top.label)
  BY <1>2, MarkedQuiet
<1> QED BY <1>3, BalancedComplete

\* Nothing less nothing.
LEMMA MinusZero == \A n \in Int : n = 0 => -n = 0
<1>1. \A n \in Int : 0 - n = -n
  OBVIOUS
<1>2. \A n \in Int : n = 0 => 0 - n = 0
  OBVIOUS
<1> QED BY <1>1, <1>2

\* What the innermost operator holds.
LEMMA TopPushed ==
  ASSUME Formed, frames # <<>>
  PROVE  /\ Top.pushed \in Nat
         /\ Top.op \in Saves => Top.pushed = IF Top.used THEN 1 ELSE 0
         /\ Top.op \in Order \cup Equality => Top.pushed = 1
         /\ Top.op = "[]" => Top.pushed \in {0, 1}
         /\ Top.op \in Forgets \ {"call"} => Top.pushed = 0
         /\ Top.op = "call" => Top.sym \in DOMAIN Symbols /\ Top.pushed = Symbols[Top.sym].params
BY TopOK DEF FrameOK

\* Operands.
LEMMA BalancedOperand ==
  ASSUME Formed, Balanced, Parenthesis \/ Constant \/ TypeSize \/ Variable \/ Array \/ Structure
  PROVE  Balanced'
<1>1. /\ Quiet(<<>>, 0) /\ \A x, y : Quiet(Ins("mov", x, y), 0)
      /\ \A x : Quiet(Ins("add", Eax, x), 0)
  BY QuietPlain, QuietOne, QuietAdd, Registers DEF Plain
<1>2. CASE Parenthesis
  BY <1>2, BalancedStays DEF Parenthesis
<1>3. CASE Constant
  BY <1>1, <1>3, BalancedPrimary DEF Constant
<1>4. CASE TypeSize
  BY <1>1, <1>4, BalancedPrimary DEF TypeSize
<1>5. CASE Variable
  BY <1>1, <1>5, BalancedPrimary DEF Variable
<1>6. CASE Array
  <2>1. \A n : Quiet(Ins("mov", Eax, Reg("ebp", 4)) \o Ins("add", Eax, Num(n)), 0)
    BY <1>1, QuietBoth
  <2> QED BY <1>1, <1>6, <2>1, BalancedPrimary DEF Array
<1>7. CASE Structure
  BY <1>1, <1>7, BalancedPrimary DEF Structure
<1> QED BY <1>2, <1>3, <1>4, <1>5, <1>6, <1>7

\* A jump or a label of an operator.
LEMMA MarkedJump ==
  ASSUME NEW op \in JumpOps \cup {"label"}, NEW lo \in Int, NEW n \in Int, NEW l \in lo..lo + n - 1
  PROVE  Marked(One(op, Num(l)), 0, 0, lo, n)
<1> DEFINE it == Mark(op, l)
<1>1. it.op = op /\ it.dst.n = l
  BY DEF Mark, Num
<1>2. One(op, Num(l)) = <<it>>
  BY DEF One, Ins, Sized, Mark
<1>3. it = Mark(it.op, it.dst.n)
  BY <1>1
<1> HIDE DEF it
<1>4. Pushes(it) = 0
  BY <1>1 DEF JumpOps, Pushes
<1>5. Marked(<<it>>, 0, 0, lo, n)
  BY <1>1, <1>3, <1>4, MarkedOne
<1> QED BY <1>2, <1>5

\* The code is a sequence, and so is one instruction.
LEMMA CodeSeq == Balanced => IsSeq(code)
BY DEF Balanced, Levels, Piece, Instrs
\* Code of one or of two instructions is a sequence.
LEMMA OneSeq == \A op, x, y : IsSeq(One(op, x)) /\ IsSeq(Ins(op, x, y))
<1>1. ASSUME NEW op, NEW x, NEW y PROVE IsSeq(Ins(op, x, y))
  <2> DEFINE it == [op |-> op, size |-> 0, dst |-> x, src |-> y]
  <2>1. <<it>> \in Seq({it})
    OBVIOUS
  <2> HIDE DEF it
  <2> QED BY <2>1 DEF IsSeq, Ins, Sized, it
<1> QED BY <1>1 DEF One

\* A string is printed behind a jump and in front of its label.
LEMMA BalancedString == ASSUME Formed, Balanced, String PROVE Balanced'
<1> DEFINE l == label_counter
           a == Jump("jmp", l + 1)
           b == Label(l)
           c == Label(l + 1)
<1>1. frames' = frames /\ code' = code \o a \o b \o c /\ label_counter' = l + 2
  BY DEF String
<1>2. l \in Int /\ l \in l..l + 2 - 1 /\ l + 1 \in l..l + 2 - 1
  BY DEF Formed
<1> HIDE DEF l
<1>3. Marked(a, 0, 0, l, 2) /\ Marked(b, 0, 0, l, 2) /\ Marked(c, 0, 0, l, 2)
  BY <1>2, MarkedJump DEF Jump, Label, JumpOps
<1>4. IsSeq(a) /\ IsSeq(b) /\ IsSeq(c)
  BY OneSeq DEF Jump, Label
<1> HIDE DEF a, b, c
<1>5. Marked(a \o b, 0, 0, l, 2)
  BY <1>3, MarkedConcat
<1>6. Marked((a \o b) \o c, 0, 0, l, 2)
  BY <1>3, <1>5, MarkedConcat
<1>7. code \o a \o b \o c = code \o ((a \o b) \o c)
  <2>1. IsSeq(code) /\ IsSeq(a \o b)
    BY <1>4, CodeSeq, Concat
  <2>2. (code \o a) \o b = code \o (a \o b)
    BY <1>4, <2>1, ConcatAssoc
  <2>3. (code \o (a \o b)) \o c = code \o ((a \o b) \o c)
    BY <1>4, <2>1, ConcatAssoc
  <2> QED BY <2>2, <2>3
<1>8. Marked((a \o b) \o c, 0, 0, label_counter, 2) /\ code' = code \o ((a \o b) \o c)
      /\ label_counter' = label_counter + 2
  BY <1>1, <1>6, <1>7 DEF l
<1> QED BY <1>1, <1>8, BalancedEmit

\* Calls.
LEMMA BalancedOpenCall == ASSUME Formed, Formed', Balanced, OpenCall PROVE Balanced'
<1>1. PICK s \in profile.symbols :
        LET sym == Symbols[s] IN
        IF sym.params > 0
        THEN OpenFrame("call", <<>>, s, InEax(sym.attr, <<>>), Ins("sub", Esp, Num(4 * sym.params)),
                       sym.params, 0)
        ELSE /\ code' = code \o One("call", Num(sym.at))
             /\ UNCHANGED <<frames, label_counter>>
  BY DEF OpenCall
<1>2. Symbols[s].params \in Nat
  BY TablesAssumption DEF Formed
<1>3. CASE Symbols[s].params > 0
  <2>1. Quiet(Ins("sub", Esp, Num(4 * Symbols[s].params)), Symbols[s].params)
    BY <1>2, QuietRoom
  <2>2. "call" \notin Labelled /\ "call" \notin Product \cup Sum \cup Shift
    BY DEF Labelled, Order, Equality, Product, Sum, Shift
  <2> QED BY <1>1, <1>2, <1>3, <2>1, <2>2, BalancedOpenFrame
<1>4. CASE ~(Symbols[s].params > 0)
  <2>1. Quiet(One("call", Num(Symbols[s].at)), 0)
    BY QuietPlain DEF Plain
  <2> QED BY <1>1, <1>4, <2>1, BalancedQuiet
<1> QED BY <1>3, <1>4

\* Storing an argument leaves the depth of the stack as it is.
LEMMA QuietArgument == Quiet(StoreArgument, 0)
BY QuietLoad, QuietPlain, QuietBoth DEF StoreArgument, Plain

\* NextArgument keeps the stack balanced.
LEMMA BalancedNextArgument == ASSUME Formed, Formed', Balanced, NextArgument PROVE Balanced'
<1>1. frames # <<>>
  BY DEF NextArgument, Completes
<1>2. CASE Refuse("E_PARAM_NUMBER_ERROR")
  BY <1>2, BalancedRefuse
<1>3. CASE /\ frames' = [frames EXCEPT ![Len(frames)].kids = Append(Top.kids, cur),
                           ![Len(frames)].start = Len(code) + Len(StoreArgument)]
           /\ code' = code \o StoreArgument
           /\ UNCHANGED <<profile, label_counter, built, err>>
  <2>1. Top.pushed \in Int /\ Top.pushed - Top.pushed = 0
    BY <1>1, TopPushed
  <2>2. Marked(StoreArgument, Top.pushed, Top.pushed, Top.label, Top.labels - Top.label)
    BY <2>1, QuietArgument, MarkedQuiet
  <2> QED BY <1>1, <1>3, <2>2, BalancedTop
<1> QED BY <1>2, <1>3 DEF NextArgument

\* CloseCall keeps the stack balanced.
LEMMA BalancedCloseCall == ASSUME Formed, Balanced, CloseCall PROVE Balanced'
<1> DEFINE sym == Symbols[Top.sym]
           items == StoreArgument \o One("call", Num(sym.at)) \o Ins("add", Esp, Num(4 * sym.params))
<1>1. frames # <<>> /\ Top.op = "call"
  BY DEF CloseCall, Completes
<1>2. CASE Refuse("E_PARAM_NUMBER_ERROR")
  BY <1>2, BalancedRefuse
<1>3. Top.pushed = sym.params /\ sym.params \in Nat
  BY <1>1, TopPushed
<1>4. Quiet(items, -Top.pushed)
  <2> DEFINE n == sym.params
  <2>1. n \in Nat /\ -n \in Int
    BY <1>3
  <2>2. Quiet(One("call", Num(sym.at)), 0)
    BY QuietPlain DEF Plain
  <2>3. Quiet(StoreArgument \o One("call", Num(sym.at)), 0)
    BY <2>2, QuietArgument, QuietBoth
  <2> HIDE DEF n
  <2>4. Quiet(Ins("add", Esp, Num(4 * n)), -n)
    BY <2>1, QuietRoom
  <2>5. Quiet(StoreArgument \o One("call", Num(sym.at)) \o Ins("add", Esp, Num(4 * n)), -n)
    BY <2>1, <2>3, <2>4, QuietBoth
  <2> QED BY <1>3, <2>5 DEF n
<1>5. CASE \E p : Complete(p, TRUE, items)
  <2> HIDE DEF items
  <2> QED BY <1>1, <1>4, <1>5, BalancedClose
<1> QED BY <1>2, <1>5 DEF CloseCall

\* Operators whose first operand is pushed if it is used.
LEMMA BalancedOpenUsed ==
  ASSUME Formed, Formed', Balanced, NEW op, op \notin Labelled, OpenUsed(op)
  PROVE  Balanced'
<1>1. Quiet(Push(cur.p), 1) /\ Quiet(<<>>, 0)
  BY QuietLoad, QuietOne
<1>2. CASE cur.used
  <2>1. Open(op, Loaded(cur.p), Push(cur.p), 1, 0)
    BY <1>2 DEF OpenUsed
  <2>2. ~Loaded(cur.p).numb
    <3>1. Good(Loaded(cur.p)) /\ Loaded(cur.p).opnd = Eax
      BY Shapes, GoodLoaded DEF Formed, OperandOK
    <3> QED BY <3>1, Registers DEF Good, ParamOK
  <2> QED BY <1>1, <2>1, <2>2, BalancedOpened
<1>3. CASE ~cur.used
  <2>1. Open(op, cur.p, <<>>, 0, 0)
    BY <1>3 DEF OpenUsed
  <2>2. op \in Product \cup Sum \cup Shift /\ cur.used => ~cur.p.numb
    BY <1>3
  <2> QED BY <1>1, <2>1, <2>2, BalancedOpened
<1> QED BY <1>2, <1>3

\* The operators that open without a label keep the stack balanced.
LEMMA BalancedOpens ==
  ASSUME Formed, Formed', Balanced, OpenIndex \/ OpenArithmetic \/ OpenShift \/ OpenBits
  PROVE  Balanced'
<1>1. \A op \in Product \cup Sum \cup Shift \cup BitOps \cup {"[]"} : op \notin Labelled
  BY DEF Product, Sum, Shift, BitOps, Labelled, Order, Equality
<1>2. CASE \E e : Refuse(e)
  BY <1>2, BalancedRefuse
<1>3. CASE \E op \in Product \cup Sum \cup Shift \cup BitOps \cup {"[]"} : OpenUsed(op)
  BY <1>1, <1>3, BalancedOpenUsed
<1>4. CASE \E p : Open("[]", p, Push(cur.p), 1, 0)
  <2>1. Quiet(Push(cur.p), 1) /\ "[]" \notin Labelled /\ "[]" \notin Product \cup Sum \cup Shift
    BY <1>1, QuietLoad DEF Product, Sum, Shift
  <2> QED BY <1>4, <2>1, BalancedOpened
<1> QED BY <1>2, <1>3, <1>4 DEF OpenIndex, OpenArithmetic, OpenShift, OpenBits

\* The address of an element; what was pushed is taken back whichever index there is.
LEMMA BalancedCloseIndex == ASSUME Formed, Balanced, CloseIndex PROVE Balanced'
<1>1. frames # <<>> /\ Top.op = "[]"
  BY DEF CloseIndex, Completes
<1>2. (\E e : Refuse(e)) \/ (\E p, size : Complete(p, TRUE, Element(size)))
  BY DEF CloseIndex
<1>3. Top.pushed \in {0, 1}
  BY <1>1, TopPushed
<1>4. ASSUME NEW size PROVE Quiet(Element(size), -Top.pushed)
  <2>1. /\ Quiet(<<>>, 0) /\ \A x, y : Quiet(Ins("mov", x, y), 0)
        /\ \A x : Quiet(Ins("add", Eax, x), 0) /\ Quiet(Load(cur.p), 0)
        /\ Quiet(One("mul", Ebx), 0) /\ \A x : Quiet(One("pop", x), -1)
    BY QuietPlain, QuietOne, QuietAdd, QuietLoad, QuietPush, Registers DEF Plain
  <2> DEFINE c == Load(cur.p) \o Ins("mov", Ebx, Num(size)) \o One("mul", Ebx)
  <2>2. Quiet(c, 0)
    <3>1. Quiet(Load(cur.p) \o Ins("mov", Ebx, Num(size)), 0)
      BY <2>1, QuietBoth
    <3> QED BY <2>1, <3>1, QuietBoth
  <2>3. CASE Top.pushed = 1
    <3>1. -Top.pushed = -1
      BY <2>3
    <3>2. \A x : Quiet(One("pop", Eax) \o Ins("add", Eax, x), -1)
      BY <2>1, QuietBoth
    <3>3. Quiet(One("pop", Ebx) \o Ins("add", Eax, Ebx), -1)
      BY <2>1, QuietBoth
    <3> HIDE DEF c
    <3>4. Quiet(c \o (One("pop", Ebx) \o Ins("add", Eax, Ebx)), -1)
      BY <2>2, <3>3, QuietBoth
    <3> QED BY <2>3, <3>1, <3>2, <3>4 DEF Element, c
  <2>4. CASE Top.pushed = 0
    <3>1. -Top.pushed = 0 /\ Top.pushed # 1
      <4>1. 0 \in Int /\ 0 # 1
        OBVIOUS
      <4> QED BY <2>4, <4>1, MinusZero
    <3>2. \A x, y : Quiet(Ins("mov", Eax, x) \o Ins("add", Eax, y), 0) /\ Quiet(<<>> \o Ins("add", Eax, y), 0)
      BY <2>1, QuietBoth
    <3> HIDE DEF c
    <3>3. \A x : Quiet(c \o Ins("add", Eax, x), 0)
      BY <2>1, <2>2, QuietBoth
    <3> QED BY <2>4, <3>1, <3>2, <3>3 DEF Element, c
  <2> QED BY <1>3, <2>3, <2>4
<1> QED BY <1>1, <1>2, <1>4, BalancedRefuse, BalancedClose

\* Each link pushes an address and takes it back.
LEMMA QuietLink ==
  ASSUME NEW z, NEW l, Quiet(z.items, 0)
  PROVE  Quiet(Link(z, l).items, 0)
<1>1. CASE z.err # "none"
  BY <1>1 DEF Link
<1>2. \A e : [z EXCEPT !.err = e].items = z.items
  OBVIOUS
<1>3. CASE z.err = "none" /\ NotStructure(l.op, z.p.attr)
  BY <1>2, <1>3 DEF Link
<1>4. CASE /\ z.err = "none" /\ ~NotStructure(l.op, z.p.attr)
           /\ l.name \notin DOMAIN Structs[z.p.attr.tag].elem
  BY <1>2, <1>4 DEF Link
<1>5. CASE /\ z.err = "none" /\ ~NotStructure(l.op, z.p.attr)
           /\ l.name \in DOMAIN Structs[z.p.attr.tag].elem
  <2>1. PICK from, n : Link(z, l).items =
          z.items \o Push(from) \o Ins("mov", Eax, Num(n)) \o One("pop", Ebx) \o Ins("add", Eax, Ebx)
    BY <1>5 DEF Link
  <2>2. Quiet(z.items \o Push(from), 1)
    BY QuietLoad, QuietBoth
  <2>3. Quiet(z.items \o Push(from) \o Ins("mov", Eax, Num(n)), 1)
    <3>1. Quiet(Ins("mov", Eax, Num(n)), 0)
      BY QuietPlain DEF Plain
    <3> QED BY <2>2, <3>1, QuietBoth
  <2>4. Quiet(z.items \o Push(from) \o Ins("mov", Eax, Num(n)) \o One("pop", Ebx), 0)
    <3>1. Quiet(One("pop", Ebx), -1) /\ 1 + (-1) = 0
      BY QuietPush
    <3>2. Quiet(z.items \o Push(from) \o Ins("mov", Eax, Num(n)) \o One("pop", Ebx), 1 + (-1))
      BY <2>3, <3>1, QuietConcat
    <3> QED BY <3>1, <3>2
  <2>5. Quiet(Ins("add", Eax, Ebx), 0)
    BY QuietAdd, Registers
  <2> QED BY <2>1, <2>4, <2>5, QuietBoth
<1> QED BY <1>1, <1>3, <1>4, <1>5

\* All links of a chain.
LEMMA QuietLinks ==
  ASSUME NEW chain, NEW S, chain \in Seq(S)
  PROVE  Quiet(Links(chain)[Len(chain)].items, 0)
<1> DEFINE P == {k \in Nat : k <= Len(chain) => Quiet(Links(chain)[k].items, 0)}
<1>1. 0 \in P
  <2>1. Quiet(Unlinked.items, 0)
    BY QuietOne DEF Unlinked
  <2> QED BY <2>1, LinksProp
<1>2. ASSUME NEW k \in P PROVE k + 1 \in P
  <2>0. k \in Nat /\ (k <= Len(chain) => Quiet(Links(chain)[k].items, 0))
    OBVIOUS
  <2>1. SUFFICES ASSUME k + 1 <= Len(chain) PROVE Quiet(Links(chain)[k + 1].items, 0)
    BY <2>0
  <2>2. Len(chain) \in Nat /\ k + 1 \in 1..Len(chain) /\ (k + 1) - 1 = k /\ k <= Len(chain)
    BY <2>0, <2>1
  <2>3. Links(chain)[k + 1] = Link(Links(chain)[k], chain[k + 1])
    BY <2>2, LinksProp
  <2>4. Quiet(Links(chain)[k].items, 0)
    BY <2>0, <2>2
  <2> QED BY <2>3, <2>4, QuietLink
<1>3. P = Nat
  <2>1. P \in SUBSET Nat
    OBVIOUS
  <2> HIDE DEF P
  <2> QED BY <1>1, <1>2, <2>1, SetInduction
<1>4. Len(chain) \in P
  <2> HIDE DEF P
  <2> QED BY <1>3
<1> QED BY <1>4

\* Members keeps the stack balanced.
LEMMA BalancedMembers == ASSUME Formed, Balanced, Members \/ MemberIndex PROVE Balanced'
<1>1. CASE \E e : Refuse(e)
  BY <1>1, BalancedRefuse
<1>2. ASSUME NEW chain \in profile.chains, NEW p,
             code' = code \o Links(chain)[Len(chain)].items \o Load(p),
             UNCHANGED <<frames, label_counter>>
      PROVE  Balanced'
  <2> DEFINE i == Links(chain)[Len(chain)].items
  <2>1. chain \in Seq([op : {".", "->"}, name : STRING])
    BY <1>2, TablesAssumption DEF Formed
  <2>2. Quiet(i, 0) /\ Quiet(Load(p), 0)
    BY <2>1, QuietLinks, QuietLoad
  <2> HIDE DEF i
  <2>3. Quiet(i \o Load(p), 0)
    BY <2>2, QuietBoth
  <2>4. (code \o i) \o Load(p) = code \o (i \o Load(p))
    BY SMTT(30), <2>2, CodeSeq, ConcatAssoc DEF Quiet, Instrs
  <2>5. code' = code \o (i \o Load(p))
    BY <1>2, <2>4 DEF i
  <2> QED BY <1>2, <2>3, <2>5, BalancedQuiet
<1> QED BY <1>1, <1>2 DEF Members, MemberIndex

\* Prefix and postfix operators.
LEMMA BalancedCast == ASSUME Formed, Balanced, Cast PROVE Balanced'
<1>1. PICK a, p : Apply("cast", p, TRUE, Load(cur.p) \o
        IF a.uns
        THEN Ins("mov", Ebx, Eax) \o Ins("xor", Eax, Eax) \o Ins("mov", Reg("eax", Width(a)), Reg("ebx", Width(a)))
        ELSE SignExtend(Width(a)))
  BY DEF Cast
<1> DEFINE c == Ins("mov", Ebx, Eax) \o Ins("xor", Eax, Eax)
                  \o Ins("mov", Reg("eax", Width(a)), Reg("ebx", Width(a)))
           e == IF a.uns THEN c ELSE SignExtend(Width(a))
<1>2. \A x, y : Quiet(Ins("mov", x, y), 0) /\ Quiet(Ins("xor", x, y), 0)
  BY QuietPlain DEF Plain
<1>3. Quiet(c, 0)
  <2>1. Quiet(Ins("mov", Ebx, Eax) \o Ins("xor", Eax, Eax), 0)
    BY <1>2, QuietBoth
  <2> QED BY <1>2, <2>1, QuietBoth
<1>4. Quiet(SignExtend(Width(a)), 0)
  BY QuietExtend
<1>5. Quiet(e, 0)
  <2> HIDE DEF c
  <2> QED BY <1>3, <1>4
<1>6. Apply("cast", p, TRUE, Load(cur.p) \o e)
  BY <1>1
<1> HIDE DEF e
<1>7. Quiet(Load(cur.p) \o e, 0)
  BY <1>5, QuietLoad, QuietBoth
<1> QED BY <1>6, <1>7, BalancedApply

\* Deref keeps the stack balanced.
LEMMA BalancedDeref == ASSUME Formed, Balanced, Deref PROVE Balanced'
<1>1. Quiet(<<>>, 0) /\ Quiet(Load(cur.p), 0)
  BY QuietLoad, QuietOne
<1>2. CASE \E e : Refuse(e)
  BY <1>2, BalancedRefuse
<1>3. CASE \E p, used : Apply("*x", p, used, <<>>)
  BY <1>1, <1>3, BalancedApply
<1>4. CASE \E p, used : Apply("*x", p, used, Load(cur.p))
  BY <1>1, <1>4, BalancedApply
<1> QED BY <1>2, <1>3, <1>4 DEF Deref

\* AddressOf keeps the stack balanced.
LEMMA BalancedAddressOf == ASSUME Formed, Balanced, AddressOf PROVE Balanced'
<1>1. CASE \E e : Refuse(e)
  BY <1>1, BalancedRefuse
<1>2. CASE IsPlace(cur.p) /\ Strip(Place(cur.p))
  <2> DEFINE p == Place(cur.p)
  <2>1. p.opnd.base \in {"none", "eax", "ebp"}
    <3>1. Good(p)
      BY <1>2, Shapes, GoodPlace DEF Formed, OperandOK
    <3> QED BY <3>1 DEF Good, ParamOK, OpndOK
  <2> HIDE DEF p
  <2>2. Strip(p)
    BY <1>2 DEF p
  <2>3. /\ Quiet(<<>>, 0)
        /\ \A n : Quiet(Ins("mov", Eax, Reg("ebp", 4)) \o Ins("add", Eax, Num(n)), 0)
    <3>1. Quiet(Ins("mov", Eax, Reg("ebp", 4)), 0) /\ \A x : Quiet(Ins("add", Eax, x), 0)
      BY QuietPlain, QuietAdd, Registers DEF Plain
    <3> QED BY <3>1, QuietOne, QuietBoth
  <2>4. PICK q, used, n :
          \/ Apply("&x", q, used, <<>>)
          \/ Apply("&x", q, used, Ins("mov", Eax, Reg("ebp", 4)) \o Ins("add", Eax, Num(n)))
    BY <2>1, <2>2 DEF Strip
  <2> QED BY <2>3, <2>4, BalancedApply
<1> QED BY <1>1, <1>2 DEF AddressOf

\* Steps keeps the stack balanced.
LEMMA BalancedSteps == ASSUME Formed, Balanced, Increment \/ PostIncrement PROVE Balanced'
<1>1. CASE \E e : Refuse(e)
  BY <1>1, BalancedRefuse
<1> DEFINE once(op) == StepBy(op, cur.p)
           kept(op) == Ins("mov", Ebx, cur.p.opnd) \o once(op) \o Ins("mov", Eax, Ebx)
<1>2. \A op \in {"add", "sub"} : Quiet(once(op), 0)
  <2>1. cur.p.opnd.base # "esp"
    BY Registers DEF Formed, OperandOK
  <2> QED BY <2>1, QuietAdd DEF StepBy
<1> HIDE DEF once
<1>3. \A op \in {"add", "sub"} : Quiet(kept(op), 0)
  <2>1. \A x, y : Quiet(Ins("mov", x, y), 0)
    BY QuietPlain DEF Plain
  <2>2. \A op \in {"add", "sub"} : Quiet(Ins("mov", Ebx, cur.p.opnd) \o once(op), 0)
    BY <1>2, <2>1, QuietBoth
  <2> QED BY <2>1, <2>2, QuietBoth
<1> HIDE DEF kept
<1>4. CASE \E s \in Steps : Apply(s[1], cur.p, cur.used, once(s[2]))
  <2>1. PICK s \in Steps : Apply(s[1], cur.p, cur.used, once(s[2]))
    BY <1>4
  <2>2. s[2] \in {"add", "sub"}
    BY DEF Steps
  <2> QED BY <1>2, <2>1, <2>2, BalancedApply
<1>5. CASE \E s \in PostSteps : Apply(s[1], InEax(cur.p.attr, cur.p.dims), TRUE, kept(s[2]))
  <2>1. PICK s \in PostSteps : Apply(s[1], InEax(cur.p.attr, cur.p.dims), TRUE, kept(s[2]))
    BY <1>5
  <2>2. s[2] \in {"add", "sub"}
    BY DEF PostSteps
  <2> QED BY <1>3, <2>1, <2>2, BalancedApply
<1> QED BY <1>1, <1>4, <1>5 DEF Increment, PostIncrement, once, kept

\* Negate keeps the stack balanced.
LEMMA BalancedNegate == ASSUME Formed, Balanced, Negate \/ SizeOf PROVE Balanced'
<1>1. CASE \E e : Refuse(e)
  BY <1>1, BalancedRefuse
<1>2. CASE \E op, p : Apply(op, p, FALSE, <<>>)
  BY <1>2, QuietOne, BalancedApply
<1>3. CASE \E op, p : \E o \in {"neg", "not"} : Apply(op, p, TRUE, Load(cur.p) \o One(o, Eax))
  <2>1. \A o \in {"neg", "not"} : Quiet(One(o, Eax), 0)
    BY QuietPlain DEF Plain
  <2>2. \A o \in {"neg", "not"} : Quiet(Load(cur.p) \o One(o, Eax), 0)
    BY <2>1, QuietLoad, QuietBoth
  <2> QED BY <1>3, <2>2, BalancedApply
<1>4. Negate => (\E e : Refuse(e)) \/ (\E op, p : Apply(op, p, FALSE, <<>>))
                  \/ (\E op, p : \E o \in {"neg", "not"} : Apply(op, p, TRUE, Load(cur.p) \o One(o, Eax)))
  BY DEF Negate
<1>5. SizeOf => (\E e : Refuse(e)) \/ (\E op, p : Apply(op, p, FALSE, <<>>))
  BY DEF SizeOf
<1> QED BY <1>1, <1>2, <1>3, <1>4, <1>5

\* ! jumps to a label behind it.
LEMMA BalancedNot == ASSUME Formed, Balanced, Not PROVE Balanced'
<1>1. CASE \E e : Refuse(e)
  BY <1>1, BalancedRefuse
<1>2. CASE \E p : Apply("!x", p, FALSE, <<>>)
  BY <1>2, QuietOne, BalancedApply
<1> DEFINE l == label_counter
           a == Sized("sub", Width(cur.p.attr), cur.p.opnd, Num(0)) \o Ins("mov", Eax, Num(1))
           b == Jump("jz", l)
           c == Ins("xor", Eax, Eax)
           d == Label(l)
<1>3. CASE \E p : ApplyLabelled("!x", p, TRUE, a \o b \o c \o d, 1)
  <2>1. cur.p.opnd.base # "esp"
    BY Registers DEF Formed, OperandOK
  <2>2. Quiet(a, 0)
    BY <2>1, QuietAdd, QuietPlain, QuietBoth DEF Plain
  <2>3. Quiet(c, 0)
    BY QuietPlain DEF Plain
  <2>4. l \in Int /\ l \in l..l + 1 - 1
    BY DEF Formed
  <2>5. Marked(b, 0, 0, l, 1) /\ Marked(d, 0, 0, l, 1)
    <3> HIDE DEF l
    <3> QED BY <2>4, MarkedJump DEF Jump, Label, JumpOps
  <2> HIDE DEF l, a, b, c, d
  <2>6. Marked(a, 0, 0, l, 1) /\ Marked(c, 0, 0, l, 1)
    BY <2>2, <2>3, MarkedQuiet
  <2>7. Marked(a \o b, 0, 0, l, 1)
    BY <2>5, <2>6, MarkedConcat
  <2>8. Marked(a \o b \o c, 0, 0, l, 1)
    BY <2>6, <2>7, MarkedConcat
  <2>9. Marked(a \o b \o c \o d, 0, 0, l, 1)
    BY <2>5, <2>8, MarkedConcat
  <2>10. /\ frames' = frames /\ code' = code \o (a \o b \o c \o d) /\ label_counter' = label_counter + 1
         /\ Marked(a \o b \o c \o d, 0, 0, label_counter, 1)
    BY <1>3, <2>9 DEF ApplyLabelled, l
  <2> QED BY <2>10, BalancedEmit
<1> QED BY <1>1, <1>2, <1>3 DEF Not

\* The innermost operator and its labels.
LEMMA TopReserved == ASSUME Formed, Balanced, frames # <<>> PROVE Reserved(Top)
<1>1. PICK lev : Levels(lev)
  BY DEF Balanced
<1> DEFINE s == Front(frames)
           b == HeldBy(s)[Len(s)]
<1>2. Within(Top, code, lev, label_counter, b)
  BY <1>1, InnerTop
<1> QED BY <1>2 DEF Within

\* Two constants, or the second operand and the first, taken from the stack if it was pushed.
LEMMA BalancedFolded == ASSUME Formed, Balanced, frames # <<>>, Top.pushed = 0, Folded PROVE Balanced'
<1>1. -Top.pushed = 0
  <2>1. Top.pushed \in Int
    BY TopPushed
  <2> QED BY <2>1, MinusZero
<1>2. Quiet(<<>>, -Top.pushed)
  BY <1>1, QuietOne
<1> QED BY <1>2, BalancedClose DEF Folded

\* What Top.used makes of the operator's end.
LEMMA BalancedSaved ==
  ASSUME Formed, Balanced, frames # <<>>, Top.op \in Saves, NEW p, NEW used, NEW items,
         Quiet(items, IF Top.used THEN -1 ELSE 0), Complete(p, used, items)
  PROVE  Balanced'
<1>1. -Top.pushed = IF Top.used THEN -1 ELSE 0
  <2>1. CASE Top.used
    BY <2>1, TopPushed
  <2>2. CASE ~Top.used
    BY <2>2, TopPushed, MinusZero
  <2> QED BY <2>1, <2>2
<1> QED BY <1>1, BalancedClose

\* The first operand is what was pushed, or is loaded.
LEMMA QuietFirst ==
  /\ \A r : Quiet(IF Top.used THEN One("pop", r) ELSE Load(Top.p), IF Top.used THEN -1 ELSE 0)
  /\ \A r : Quiet(IF Top.used THEN One("pop", r) ELSE <<>>, IF Top.used THEN -1 ELSE 0)
BY QuietLoad, QuietPush, QuietOne

\* Where both operands are constants, the first was not pushed.
LEMMA NumbersUnpushed ==
  ASSUME Formed, Balanced, frames # <<>>, Top.op \in Product \cup Sum \cup Shift, BothNumbers
  PROVE  Top.pushed = 0
<1>1. ~Top.used
  BY TopReserved DEF Reserved, BothNumbers, IsNumber
<1>2. Top.op \in Saves
  BY DEF Saves
<1> QED BY <1>1, <1>2, TopPushed

\* * / % + - and the shifts.
LEMMA QuietSaved ==
  ASSUME NEW a, NEW b, NEW c, Quiet(a, 0), Quiet(b, IF Top.used THEN -1 ELSE 0), Quiet(c, 0)
  PROVE  /\ Quiet(a \o b, IF Top.used THEN -1 ELSE 0)
         /\ Quiet(a \o b \o c, IF Top.used THEN -1 ELSE 0)
<1> DEFINE k == IF Top.used THEN -1 ELSE 0
<1>1. k \in Int
  OBVIOUS
<1>2. Quiet(b, k)
  OBVIOUS
<1> HIDE DEF k
<1>3. Quiet(a \o b, k)
  BY <1>1, <1>2, QuietBoth
<1>4. Quiet(a \o b \o c, k)
  BY <1>1, <1>3, QuietBoth
<1> QED BY <1>3, <1>4 DEF k

\* expr03 multiplies without the stack.
LEMMA QuietMultiply == Quiet(Multiply, 0)
<1>1. /\ \A op \in {"mul", "imul", "div", "idiv"} : \A x : Quiet(One(op, x), 0)
      /\ \A x, y : Quiet(Ins("xor", x, y), 0) /\ Quiet(Ins("mov", x, y), 0) /\ Quiet(<<>>, 0)
  BY QuietPlain, QuietOne DEF Plain
<1>2. \A op \in {"div", "idiv"} : Quiet(Ins("xor", Edx, Edx) \o One(op, Ebx), 0)
  BY <1>1, QuietBoth
<1>3. \A op \in {"div", "idiv"} :
        /\ Quiet(Ins("xor", Edx, Edx) \o One(op, Ebx) \o Ins("mov", Eax, Edx), 0)
        /\ Quiet(Ins("xor", Edx, Edx) \o One(op, Ebx) \o <<>>, 0)
  BY <1>1, <1>2, QuietBoth
<1> QED BY <1>1, <1>3 DEF Multiply

\* CloseProduct keeps the stack balanced.
LEMMA BalancedCloseProduct == ASSUME Formed, Balanced, CloseProduct PROVE Balanced'
<1> DEFINE first == IF Top.used THEN One("pop", Eax) ELSE Load(Top.p)
           items == Load(cur.p) \o Ins("mov", Ebx, Eax) \o first \o Multiply
<1>1. frames # <<>> /\ Top.op \in Product /\ Top.op \in Saves
  BY DEF CloseProduct, Completes, Saves
<1>2. CASE \E e : Refuse(e)
  BY <1>2, BalancedRefuse
<1>3. CASE BothNumbers /\ Folded
  BY <1>1, <1>3, NumbersUnpushed, BalancedFolded
<1>4. Quiet(items, IF Top.used THEN -1 ELSE 0)
  <2>1. Quiet(Load(cur.p) \o Ins("mov", Ebx, Eax), 0)
    BY QuietLoad, QuietPlain, QuietBoth DEF Plain
  <2>2. Quiet(first, IF Top.used THEN -1 ELSE 0)
    BY QuietFirst
  <2> HIDE DEF first
  <2> QED BY <2>1, <2>2, QuietMultiply, QuietSaved
<1>5. CASE Complete(Loaded(Top.p), TRUE, items)
  <2> HIDE DEF items
  <2> QED BY <1>1, <1>4, <1>5, BalancedSaved
<1> QED BY <1>2, <1>3, <1>5 DEF CloseProduct

\* expr04 pops the left operand when it had been pushed.
LEMMA QuietSum == Quiet(Add, IF Top.used THEN -1 ELSE 0)
<1> DEFINE a == Load(cur.p)
           m == Ins("mov", Ebx, Eax)
           p == One("pop", Ebx)
           sum == Ins("add", Eax, Ebx)
           diff == Ins("sub", Ebx, Eax) \o Ins("mov", Eax, Ebx)
           last == Ins(IF Top.op = "+" THEN "add" ELSE "sub", Eax, Ebx)
           loaded == Load(Top.p)
<1>1. /\ Quiet(a, 0) /\ Quiet(m, 0) /\ Quiet(p, -1) /\ Quiet(sum, 0) /\ Quiet(loaded, 0)
      /\ Quiet(last, 0)
  BY QuietLoad, QuietPlain, QuietAdd, QuietPush, Registers DEF Plain
<1>2. Quiet(diff, 0)
  <2>1. Quiet(Ins("sub", Ebx, Eax), 0) /\ Quiet(Ins("mov", Eax, Ebx), 0)
    BY QuietPlain, QuietAdd, Registers DEF Plain
  <2> QED BY <2>1, QuietBoth
<1>3. Add = IF Top.used THEN a \o p \o (IF Top.op = "+" THEN sum ELSE diff)
            ELSE a \o m \o loaded \o last
  BY DEF Add
<1> HIDE DEF a, m, p, sum, diff, last, loaded
<1>4. Quiet(a \o p, -1) /\ Quiet(a \o m, 0)
  BY <1>1, QuietBoth
<1>5. Quiet(a \o p \o sum, -1) /\ Quiet(a \o p \o diff, -1) /\ Quiet(a \o m \o loaded, 0)
  BY <1>1, <1>2, <1>4, QuietBoth
<1>6. Quiet(a \o m \o loaded \o last, 0)
  BY <1>1, <1>5, QuietBoth
<1> QED BY <1>3, <1>5, <1>6

\* CloseSum keeps the stack balanced.
LEMMA BalancedCloseSum == ASSUME Formed, Balanced, CloseSum PROVE Balanced'
<1>1. frames # <<>> /\ Top.op \in Sum /\ Top.op \in Saves
  BY DEF CloseSum, Completes, Saves
<1>2. CASE \E e : Refuse(e)
  BY <1>2, BalancedRefuse
<1>3. CASE BothNumbers /\ Folded
  BY <1>1, <1>3, NumbersUnpushed, BalancedFolded
<1>4. CASE Complete(Loaded(Top.p), TRUE, Add)
  BY <1>1, <1>4, QuietSum, BalancedSaved
<1> QED BY <1>2, <1>3, <1>4 DEF CloseSum

\* CloseShift keeps the stack balanced.
LEMMA BalancedCloseShift == ASSUME Formed, Balanced, CloseShift PROVE Balanced'
<1> DEFINE first == IF Top.used THEN One("pop", Eax) ELSE Load(Top.p)
           shift == Ins(IF Top.op = "<<" THEN "shl" ELSE "shr", Eax, Cl)
           items == LoadCount \o first \o shift
<1>1. frames # <<>> /\ Top.op \in Shift /\ Top.op \in Saves
  BY DEF CloseShift, Completes, Saves
<1>2. CASE \E e : Refuse(e)
  BY <1>2, BalancedRefuse
<1>3. CASE BothNumbers /\ Folded
  BY <1>1, <1>3, NumbersUnpushed, BalancedFolded
<1>4. Quiet(items, IF Top.used THEN -1 ELSE 0)
  <2>1. Quiet(LoadCount, 0)
    BY QuietPlain DEF Plain, LoadCount
  <2>2. Quiet(first, IF Top.used THEN -1 ELSE 0)
    BY QuietFirst
  <2>3. Quiet(shift, 0)
    BY QuietPlain DEF Plain
  <2> HIDE DEF first, shift
  <2> QED BY <2>1, <2>2, <2>3, QuietSaved
<1>5. CASE Complete(Loaded(Top.p), TRUE, items)
  <2> HIDE DEF items
  <2> QED BY <1>1, <1>4, <1>5, BalancedSaved
<1> QED BY <1>2, <1>3, <1>5 DEF CloseShift

\* & ^ and |, the second operand parsed once more or not.
LEMMA BalancedCloseBits == ASSUME Formed, Balanced, CloseBits PROVE Balanced'
<1> DEFINE first == IF Top.used THEN One("pop", Ebx) ELSE Ins("mov", Ebx, Eax) \o Load(Top.p)
           items == Load(cur.p) \o first \o Ins(BitIns, Eax, Ebx)
<1>1. frames # <<>> /\ Top.op \in BitOps /\ Top.op \in Saves
  BY DEF CloseBits, Completes, Saves
<1>2. \A x, y : Quiet(Ins(BitIns, x, y), 0)
  <2>1. BitIns \in Plain
    BY <1>1 DEF BitIns, BitOps, Plain
  <2> QED BY <2>1, QuietPlain
<1>3. CASE \E e : Refuse(e)
  BY <1>3, BalancedRefuse
<1>4. CASE ~Top.used /\ Folded
  BY <1>1, <1>4, TopPushed, BalancedFolded
<1>5. CASE /\ Top.used /\ code' = AgainWith(Ins(BitIns, Eax, cur.p.opnd))
           /\ label_counter' = label_counter + NewLabels /\ frames' = Front(frames)
  <2>1. Top.pushed = 1
    BY <1>1, <1>5, TopPushed
  <2>2. Quiet(Ins(BitIns, Eax, cur.p.opnd), 0)
    BY <1>2
  <2> QED BY <1>1, <1>5, <2>1, <2>2, BalancedAgain
<1>6. Quiet(items, IF Top.used THEN -1 ELSE 0)
  <2>1. Quiet(first, IF Top.used THEN -1 ELSE 0)
    <3>1. Quiet(Ins("mov", Ebx, Eax) \o Load(Top.p), 0)
      BY QuietLoad, QuietPlain, QuietBoth DEF Plain
    <3> QED BY <3>1, QuietPush
  <2> HIDE DEF first
  <2> QED BY <1>2, <2>1, QuietLoad, QuietSaved
<1>7. CASE \E p : Complete(p, TRUE, items)
  <2> HIDE DEF items
  <2> QED BY <1>1, <1>6, <1>7, BalancedSaved
<1> QED BY <1>3, <1>4, <1>5, <1>7 DEF CloseBits, AgainWith

\* What an operator with labels keeps.
LEMMA NewReserved ==
  ASSUME Formed, NEW op \in Labelled, NEW kids, NEW sym, NEW p, NEW items, NEW pushed, NEW n,
         n = IF op = "?:" THEN 2 ELSE 1
  PROVE  Reserved(NewFrame(op, kids, sym, p, items, pushed, n))
<1> DEFINE f == NewFrame(op, kids, sym, p, items, pushed, n)
<1>1. f.op = op /\ f.label = label_counter /\ f.labels = label_counter + n
  BY DEF NewFrame
<1>2. op \notin Product \cup Sum \cup Shift /\ (op = "?:" <=> op \notin Order \cup Equality \cup {"&&", "||"})
  BY DEF Labelled, Product, Sum, Shift, Order, Equality
<1> HIDE DEF f
<1>3. Reserved(f)
  BY <1>1, <1>2 DEF Reserved
<1> QED BY <1>3 DEF f

\* The labels of the innermost operator.
LEMMA TopLabels ==
  ASSUME Formed, Balanced, frames # <<>>
  PROVE  /\ Top.label \in Nat
         /\ Top.op \in Order \cup Equality \cup {"&&", "||"} => Top.labels - Top.label = 1
         /\ Top.op = "?:" => Top.labels - Top.label = 2
<1>1. PICK lev : Levels(lev)
  BY DEF Balanced
<1> DEFINE s == Front(frames)
           b == HeldBy(s)[Len(s)]
<1>2. Within(Top, code, lev, label_counter, b)
  BY <1>1, InnerTop
<1>3. Top.label \in Nat /\ Reserved(Top)
  BY <1>2 DEF Within
<1> QED BY <1>3 DEF Reserved

\* Comparisons push their first operand and jump to a label behind them.
LEMMA BalancedOpenCompare == ASSUME Formed, Formed', Balanced, OpenCompare PROVE Balanced'
<1>1. PICK op \in Order \cup Equality : Open(op, Loaded(cur.p), Push(cur.p), 1, 1)
  BY DEF OpenCompare
<1>2. op \in Labelled /\ op # "?:"
  BY DEF Labelled, Order, Equality
<1>3. Marked(Push(cur.p), 0, 1, label_counter, 1)
  <2>1. Quiet(Push(cur.p), 1 - 0)
    BY QuietLoad
  <2> QED BY <2>1, MarkedQuiet
<1>4. Reserved(NewFrame(op, <<cur>>, "", Loaded(cur.p), Push(cur.p), 1, 1))
  BY <1>2, NewReserved
<1> QED BY <1>1, <1>3, <1>4, BalancedOpen DEF Open

\* The code that makes 0 or 1 of a comparison does not touch the stack.
LEMMA MarkedTruth ==
  ASSUME NEW jcc \in JumpOps, NEW lo \in Int, NEW n \in Int, NEW l \in lo..lo + n - 1
  PROVE  Marked(Truth(jcc, l), 0, 0, lo, n)
<1> DEFINE a == Ins("mov", Eax, Num(1))
           b == Jump(jcc, l)
           c == One("dec", Eax)
           d == Label(l)
<1>1. Marked(a, 0, 0, lo, n) /\ Marked(c, 0, 0, lo, n)
  BY QuietPlain, MarkedQuiet DEF Plain
<1>2. Marked(b, 0, 0, lo, n) /\ Marked(d, 0, 0, lo, n)
  BY MarkedJump DEF Jump, Label
<1>3. Truth(jcc, l) = a \o b \o c \o d
  BY DEF Truth
<1> HIDE DEF a, b, c, d
<1>4. Marked(a \o b, 0, 0, lo, n)
  BY <1>1, <1>2, MarkedConcat
<1>5. Marked(a \o b \o c, 0, 0, lo, n)
  BY <1>1, <1>4, MarkedConcat
<1>6. Marked(a \o b \o c \o d, 0, 0, lo, n)
  BY <1>2, <1>5, MarkedConcat
<1> QED BY <1>3, <1>6

\* CloseCompare keeps the stack balanced.
LEMMA BalancedCloseCompare ==
  ASSUME Formed, Balanced, CloseOrder \/ CloseEquality
  PROVE  Balanced'
<1>1. /\ frames # <<>> /\ Top.op \in Order \cup Equality
  BY DEF CloseOrder, CloseEquality, Completes
<1>2. CASE \E e : Refuse(e)
  BY <1>2, BalancedRefuse
<1>3. Top.pushed = 1 /\ Top.label \in Nat /\ Top.labels - Top.label = 1
  BY <1>1, TopPushed, TopLabels
<1>4. ASSUME NEW x, NEW y, NEW jcc \in JumpOps,
             Complete(Top.p, TRUE, Load(cur.p) \o One("pop", Ebx) \o Ins("cmp", x, y) \o Truth(jcc, Top.label))
      PROVE  Balanced'
  <2> DEFINE l == Top.label
             a == Load(cur.p) \o One("pop", Ebx) \o Ins("cmp", x, y)
  <2>1. Quiet(a, -1)
    <3>1. Quiet(Load(cur.p) \o One("pop", Ebx), -1)
      BY QuietLoad, QuietPush, QuietBoth
    <3>2. Quiet(Ins("cmp", x, y), 0)
      BY QuietPlain DEF Plain
    <3> QED BY <3>1, <3>2, QuietBoth
  <2>2. l \in Int /\ l \in l..l + 1 - 1 /\ 0 - 1 = -1
    BY <1>3
  <2> HIDE DEF l, a
  <2>3. Marked(a, 1, 0, l, 1)
    BY <2>1, <2>2, MarkedQuiet
  <2>4. Marked(Truth(jcc, l), 0, 0, l, 1)
    BY <2>2, MarkedTruth
  <2>5. Marked(a \o Truth(jcc, l), 1, 0, l, 1)
    BY <2>3, <2>4, MarkedConcat
  <2>6. Marked(a \o Truth(jcc, l), Top.pushed, 0, Top.label, Top.labels - Top.label)
    BY <1>3, <2>5 DEF l
  <2>7. Complete(Top.p, TRUE, a \o Truth(jcc, l))
    BY <1>4 DEF a, l
  <2> QED BY <1>1, <2>6, <2>7, BalancedComplete
<1>5. CloseOrder => \A u : Below(u) \in JumpOps
  BY DEF CloseOrder, Completes, Below, Order, JumpOps
<1>6. "jnz" \in JumpOps /\ "jz" \in JumpOps
  BY DEF JumpOps
<1> QED BY <1>2, <1>4, <1>5, <1>6 DEF CloseOrder, CloseEquality

\* && || ?: and the comma push nothing.
LEMMA MarkedTest ==
  ASSUME Formed, NEW jcc \in JumpOps, NEW n \in Nat \ {0}
  PROVE  Marked(Test(jcc), 0, 0, label_counter, n)
<1> DEFINE l == label_counter
           a == Load(cur.p) \o Ins("and", Eax, Eax)
           b == Jump(jcc, l)
<1>1. Quiet(a, 0)
  BY QuietLoad, QuietPlain, QuietBoth DEF Plain
<1>2. l \in Int /\ l \in l..l + n - 1
  BY DEF Formed
<1>3. Test(jcc) = a \o b
  BY DEF Test
<1> HIDE DEF a, l
<1>4. Marked(a, 0, 0, l, n)
  BY <1>1, MarkedQuiet
<1>5. Marked(b, 0, 0, l, n)
  BY <1>2, MarkedJump DEF Jump
<1> HIDE DEF b
<1>6. Marked(a \o b, 0, 0, l, n)
  BY <1>4, <1>5, MarkedConcat
<1> QED BY <1>3, <1>6 DEF l

\* OpenLogic keeps the stack balanced.
LEMMA BalancedOpenLogic ==
  ASSUME Formed, Formed', Balanced, OpenLogic \/ OpenCond \/ OpenComma
  PROVE  Balanced'
<1>1. "jz" \in JumpOps /\ "jnz" \in JumpOps
  BY DEF JumpOps
<1>2. CASE OpenLogic
  <2>1. PICK op \in {"&&", "||"} :
          Open(op, Loaded(cur.p), Test(IF op = "&&" THEN "jz" ELSE "jnz"), 0, 1)
    BY <1>2 DEF OpenLogic
  <2> DEFINE t == Test(IF op = "&&" THEN "jz" ELSE "jnz")
  <2>2. Marked(t, 0, 0, label_counter, 1)
    BY <1>1, MarkedTest
  <2>3. op \in Labelled /\ op # "?:"
    BY DEF Labelled
  <2> HIDE DEF t
  <2>4. Reserved(NewFrame(op, <<cur>>, "", Loaded(cur.p), t, 0, 1))
    BY <2>3, NewReserved
  <2>5. OpenFrame(op, <<cur>>, "", Loaded(cur.p), t, 0, 1)
    BY <2>1 DEF Open, t
  <2> QED BY <2>2, <2>4, <2>5, BalancedOpen
<1>3. CASE OpenCond
  <2> DEFINE t == Test("jz")
  <2>1. OpenFrame("?:", <<cur>>, "", Loaded(cur.p), t, 0, 2)
    BY <1>3 DEF OpenCond, Open
  <2>2. Marked(t, 0, 0, label_counter, 2)
    BY <1>1, MarkedTest
  <2>3. "?:" \in Labelled
    BY DEF Labelled
  <2> HIDE DEF t
  <2>4. Reserved(NewFrame("?:", <<cur>>, "", Loaded(cur.p), t, 0, 2))
    BY <2>3, NewReserved
  <2> QED BY <2>1, <2>2, <2>4, BalancedOpen
<1>4. CASE OpenComma
  <2>1. Open(",", cur.p, <<>>, 0, 0)
    BY <1>4 DEF OpenComma
  <2>2. "," \notin Labelled /\ "," \notin Product \cup Sum \cup Shift
    BY DEF Labelled, Order, Equality, Product, Sum, Shift
  <2> QED BY <2>1, <2>2, QuietOne, BalancedOpened
<1> QED BY <1>2, <1>3, <1>4

\* Their ends are labels.
LEMMA MarkedEnd ==
  ASSUME NEW lo \in Int, NEW n \in Int, NEW l \in lo..lo + n - 1
  PROVE  Marked(Load(cur.p) \o Label(l), 0, 0, lo, n)
<1> DEFINE a == Load(cur.p)
           b == Label(l)
<1>1. Quiet(a, 0 - 0)
  BY QuietLoad
<1>2. Marked(a, 0, 0, lo, n)
  BY <1>1, MarkedQuiet
<1>3. Marked(b, 0, 0, lo, n)
  BY MarkedJump DEF Label
<1> HIDE DEF a, b
<1>4. Marked(a \o b, 0, 0, lo, n)
  BY <1>2, <1>3, MarkedConcat
<1> QED BY <1>4 DEF a, b

\* CloseLogic keeps the stack balanced.
LEMMA BalancedCloseLogic ==
  ASSUME Formed, Balanced, CloseLogic \/ CloseCond \/ CloseComma
  PROVE  Balanced'
<1>1. /\ frames # <<>> /\ Top.op \in Forgets \ {"call"} /\ Top.pushed = 0 /\ Top.label \in Int
  <2>1. frames # <<>> /\ Top.op \in {"&&", "||", "?:", ","}
    BY DEF CloseLogic, CloseCond, CloseComma, Completes
  <2>2. Top.op \in Forgets \ {"call"}
    BY <2>1 DEF Forgets
  <2>3. Top.pushed = 0
    BY <2>1, <2>2, TopPushed
  <2>4. Top.label \in Nat
    BY <2>1, TopLabels
  <2>5. \A n \in Nat : n \in Int
    OBVIOUS
  <2> QED BY <2>1, <2>2, <2>3, <2>4, <2>5
<1> DEFINE lo == Top.label
           n == Top.labels - Top.label
<1>2. ASSUME NEW l \in lo..lo + n - 1, n \in Int,
             Complete(Loaded(cur.p), TRUE, Load(cur.p) \o Label(l))
      PROVE  Balanced'
  <2> DEFINE items == Load(cur.p) \o Label(l)
  <2>1. Marked(items, 0, 0, lo, n)
    BY <1>1, <1>2, MarkedEnd
  <2> HIDE DEF items
  <2>2. Marked(items, Top.pushed, 0, Top.label, Top.labels - Top.label)
    BY <1>1, <2>1
  <2>3. Complete(Loaded(cur.p), TRUE, items)
    BY <1>2 DEF items
  <2> QED BY <1>1, <2>2, <2>3, BalancedComplete
<1>3. CASE CloseLogic
  <2>1. n = 1 /\ Complete(Loaded(cur.p), TRUE, Load(cur.p) \o Label(lo))
    BY <1>1, <1>3, TopLabels DEF CloseLogic, Completes
  <2> HIDE DEF n, lo
  <2>2. lo \in lo..lo + n - 1 /\ n \in Int
    BY <1>1, <2>1 DEF lo
  <2> QED BY <1>2, <2>1, <2>2
<1>4. CASE CloseCond
  <2>1. n = 2 /\ Complete(Loaded(cur.p), TRUE, Load(cur.p) \o Label(lo + 1))
    BY <1>1, <1>4, TopLabels DEF CloseCond, Completes
  <2> HIDE DEF n, lo
  <2>2. lo + 1 \in lo..lo + n - 1 /\ n \in Int
    BY <1>1, <2>1 DEF lo
  <2> QED BY <1>2, <2>1, <2>2
<1>5. CASE CloseComma
  <2>1. -Top.pushed = 0
    <3>1. 0 \in Int
      OBVIOUS
    <3> QED BY <1>1, <3>1, MinusZero
  <2>2. Quiet(<<>>, -Top.pushed)
    BY <2>1, QuietOne
  <2>3. Complete(cur.p, cur.used, <<>>)
    BY <1>5 DEF CloseComma
  <2> QED BY <1>1, <2>2, <2>3, BalancedClose
<1> QED BY <1>3, <1>4, <1>5

\* The false part begins where the true one jumps to the end.
LEMMA BalancedCondColon == ASSUME Formed, Formed', Balanced, CondColon PROVE Balanced'
<1> DEFINE l == Top.label
           a == Load(cur.p)
           b == Jump("jmp", l + 1)
           c == Label(l)
           items == a \o b \o c
<1>1. /\ frames # <<>> /\ Top.op = "?:" /\ label_counter' = label_counter /\ code' = code \o items
      /\ frames' = [frames EXCEPT ![Len(frames)].kids = Append(Top.kids, cur),
                                  ![Len(frames)].start = Len(code) + Len(items)]
  BY DEF CondColon, Completes
<1>2. Top.pushed = 0 /\ l \in Int /\ Top.labels - Top.label = 2
  BY <1>1, TopPushed, TopLabels DEF Forgets
<1>3. Marked(items, 0, 0, l, 2)
  <2>1. l \in l..l + 2 - 1 /\ l + 1 \in l..l + 2 - 1
    <3> HIDE DEF l
    <3> QED BY <1>2
  <2>2. Quiet(a, 0 - 0)
    BY QuietLoad
  <2> HIDE DEF l
  <2>3. Marked(b, 0, 0, l, 2) /\ Marked(c, 0, 0, l, 2)
    BY <1>2, <2>1, MarkedJump DEF Jump, Label, JumpOps
  <2> HIDE DEF a, b, c
  <2>4. Marked(a, 0, 0, l, 2)
    BY <2>2, MarkedQuiet
  <2>5. Marked(a \o b, 0, 0, l, 2)
    BY <2>3, <2>4, MarkedConcat
  <2> QED BY <2>3, <2>5, MarkedConcat
<1> HIDE DEF items
<1>4. Marked(items, Top.pushed, Top.pushed, Top.label, Top.labels - Top.label)
  BY <1>2, <1>3
<1> QED BY <1>1, <1>4, BalancedTop

------------------------------------------------------------------------------
\* Assignments

\* OpenAssign keeps the stack balanced.
LEMMA BalancedOpenAssign == ASSUME Formed, Formed', Balanced, OpenAssign PROVE Balanced'
<1>1. CASE \E e : Refuse(e)
  BY <1>1, BalancedRefuse
<1>2. ASSUME NEW op \in Assign, NEW p,
             IF cur.used THEN Open(op, p, One("push", Eax), 1, 0) ELSE Open(op, p, <<>>, 0, 0)
      PROVE  Balanced'
  <2>1. op \notin Labelled /\ op \notin Product \cup Sum \cup Shift
    BY DEF Assign, Labelled, Order, Equality, Product, Sum, Shift
  <2>2. Quiet(One("push", Eax), 1) /\ Quiet(<<>>, 0)
    BY QuietPush, QuietOne
  <2> QED BY <1>2, <2>1, <2>2, BalancedOpened
<1> QED BY <1>1, <1>2 DEF OpenAssign

\* What the end of an assignment takes back: its place is pushed exactly if it is used.
Given == IF Top.used THEN -1 ELSE 0

\* The value is loaded, and the address, if it was pushed, taken back and used.
LEMMA QuietGiven ==
  ASSUME NEW a, NEW b, NEW c, NEW d, Quiet(a, 0), Quiet(b, 0), Quiet(c, 0), Quiet(d, 0)
  PROVE  Quiet(a \o (IF Top.used THEN b \o One("pop", Eax) \o c ELSE d), Given)
<1>1. Quiet(One("pop", Eax), -1)
  BY QuietPush
<1>2. Quiet(b \o One("pop", Eax), -1)
  BY <1>1, QuietBoth
<1>3. Quiet(b \o One("pop", Eax) \o c, -1)
  BY <1>2, QuietBoth
<1> DEFINE e == b \o One("pop", Eax) \o c
<1> HIDE DEF e
<1>4. Quiet(a \o e, -1) /\ Quiet(a \o d, 0)
  BY <1>3, QuietBoth DEF e
<1> QED BY <1>4 DEF Given, e

\* The store of = pops the address if it had been pushed (Given).
LEMMA QuietStore == \A p : Quiet(Store(p), Given)
<1> SUFFICES ASSUME NEW p PROVE Quiet(Store(p), Given)
  OBVIOUS
<1> DEFINE b == Ins("mov", Ebx, Eax)
           c == Ins("mov", p.opnd, Reg("ebx", Width(p.attr)))
           d == Ins("mov", p.opnd, Reg("eax", Width(p.attr)))
<1>1. Quiet(b, 0) /\ Quiet(c, 0) /\ Quiet(d, 0) /\ Quiet(Load(cur.p), 0)
  BY QuietPlain, QuietLoad DEF Plain
<1>2. Store(p) = Load(cur.p) \o (IF Top.used THEN b \o One("pop", Eax) \o c ELSE d)
  BY DEF Store
<1> HIDE DEF b, c, d
<1> QED BY <1>1, <1>2, QuietGiven

\* Scaling a pointer operand does not touch the stack.
LEMMA QuietScale == ASSUME NEW r, r.base # "esp" PROVE \A a : Quiet(Scale(r, a), 0)
<1> SUFFICES ASSUME NEW a PROVE Quiet(Scale(r, a), 0)
  OBVIOUS
<1> DEFINE twice == Ins("add", r, r)
<1>1. Quiet(twice, 0) /\ Quiet(<<>>, 0)
  BY QuietAdd, QuietOne
<1> HIDE DEF twice
<1>2. Quiet(twice \o twice, 0)
  BY <1>1, QuietBoth
<1> QED BY <1>1, <1>2 DEF Scale, Scaled, twice

\* += and -= pop the address they had pushed.
LEMMA QuietAddTo == ASSUME NEW p, Good(p) PROVE Quiet(AddTo(p), Given)
<1> DEFINE ins == IF Top.op = "+=" THEN "add" ELSE "sub"
           b == Ins("mov", Ebx, Eax)
           s == Scale(Ebx, p.attr)
           i == Ins(ins, p.opnd, Ebx)
           t == Scale(Eax, p.attr)
           j == Ins(ins, p.opnd, Eax)
           o == One("pop", Eax)
           x == Load(cur.p)
<1>1. Quiet(b, 0) /\ Quiet(s, 0) /\ Quiet(t, 0) /\ Quiet(x, 0)
  BY QuietPlain, QuietLoad, QuietScale, Registers DEF Plain
<1>2. Quiet(i, 0) /\ Quiet(j, 0)
  <2>1. ins \in {"add", "sub"} /\ p.opnd.base # "esp"
    BY Registers
  <2> HIDE DEF ins
  <2> QED BY <2>1, QuietAdd
<1>3. Quiet(o, -1)
  BY QuietPush
<1>4. AddTo(p) = x \o (IF Top.used THEN b \o o \o s \o i ELSE t \o j)
  BY DEF AddTo
<1> HIDE DEF ins, b, s, i, t, j, o, x
<1>5. Quiet(b \o o, -1) /\ Quiet(t \o j, 0)
  BY <1>1, <1>2, <1>3, QuietBoth
<1>6. Quiet(b \o o \o s, -1)
  BY <1>1, <1>5, QuietBoth
<1>7. Quiet(b \o o \o s \o i, -1)
  BY <1>2, <1>6, QuietBoth
<1> DEFINE y == b \o o \o s \o i
           z == t \o j
<1> HIDE DEF y, z
<1>8. Quiet(x \o y, -1) /\ Quiet(x \o z, 0)
  BY <1>1, <1>5, <1>7, QuietBoth DEF y, z
<1> QED BY <1>4, <1>8 DEF Given, y, z

\* &=, ^= and |= pop the address they had pushed.
LEMMA QuietBitsTo == ASSUME NEW p, Top.op \in {"&=", "^=", "|="} PROVE Quiet(BitsTo(p), Given)
<1> DEFINE ins == CASE Top.op = "&=" -> "and" [] Top.op = "^=" -> "xor" [] Top.op = "|=" -> "or"
           b == Ins("mov", Ecx, Eax)
           c == Ins(ins, p.opnd, Reg("ecx", Width(cur.p.attr)))
           d == Ins(ins, p.opnd, Reg("eax", Width(p.attr)))
<1>1. Quiet(b, 0) /\ Quiet(Load(cur.p), 0)
  BY QuietPlain, QuietLoad DEF Plain
<1>2. Quiet(c, 0) /\ Quiet(d, 0)
  <2>1. ins \in Plain
    BY DEF Plain
  <2> HIDE DEF ins
  <2> QED BY <2>1, QuietPlain
<1>3. BitsTo(p) = Load(cur.p) \o (IF Top.used THEN b \o One("pop", Eax) \o c ELSE d)
  BY DEF BitsTo
<1> HIDE DEF b, c, d
<1> QED BY <1>1, <1>2, <1>3, QuietGiven

\* *=, /= and %= pop the address they had pushed.
LEMMA QuietMultiplyTo == \A p : Quiet(MultiplyTo(p), Given)
<1> SUFFICES ASSUME NEW p PROVE Quiet(MultiplyTo(p), Given)
  OBVIOUS
<1> DEFINE w == Width(p.attr)
           m == Ins("mov", Reg("eax", w), p.opnd)
           b == Ins("mov", Ebx, Eax)
           x == Load(cur.p)
           mul == One(IF p.attr.uns THEN "mul" ELSE "imul", Ebx)
           udiv == Ins("sub", Edx, Edx) \o One("div", Ebx)
           sdiv == One("cwd", Eax) \o One("idiv", Ebx)
           compute == IF Top.op = "*=" THEN mul ELSE IF p.attr.uns THEN udiv ELSE sdiv
           pop == One("pop", Eax)
           edx == Ins("mov", p.opnd, Reg("edx", w))
           eax == Ins("mov", p.opnd, Reg("eax", w))
           keep == Ins("mov", Edx, Eax)
           put == CASE Top.op = "%=" -> (IF Top.used THEN pop ELSE <<>>) \o edx
                    [] Top.op # "%=" /\ Top.used -> keep \o pop \o edx
                    [] OTHER -> eax
<1>1. /\ Quiet(m, 0) /\ Quiet(b, 0) /\ Quiet(x, 0) /\ Quiet(edx, 0) /\ Quiet(eax, 0) /\ Quiet(keep, 0)
      /\ Quiet(mul, 0) /\ Quiet(<<>>, 0)
  BY QuietPlain, QuietLoad, QuietOne DEF Plain
<1>2. Quiet(udiv, 0) /\ Quiet(sdiv, 0)
  <2>1. Quiet(Ins("sub", Edx, Edx), 0) /\ Quiet(One("div", Ebx), 0)
        /\ Quiet(One("cwd", Eax), 0) /\ Quiet(One("idiv", Ebx), 0)
    BY QuietPlain, QuietAdd, Registers DEF Plain
  <2> QED BY <2>1, QuietBoth
<1>3. Quiet(compute, 0)
  <2> HIDE DEF mul, udiv, sdiv
  <2> QED BY <1>1, <1>2
<1>4. Quiet(pop, -1)
  BY QuietPush
<1> HIDE DEF edx, eax, keep, pop
<1>5. Quiet(put, Given)
  <2>1. Quiet(pop \o edx, -1) /\ Quiet(<<>> \o edx, 0) /\ Quiet(keep \o pop, -1)
    BY <1>1, <1>4, QuietBoth
  <2>2. Quiet(keep \o pop \o edx, -1)
    BY <1>1, <2>1, QuietBoth
  <2> QED BY <1>1, <2>1, <2>2 DEF Given
<1>6. MultiplyTo(p) = x \o b \o m \o compute \o put
  BY DEF MultiplyTo, edx, eax, keep, pop
<1> HIDE DEF m, b, x, compute, put
<1>7. Quiet(x \o b, 0)
  BY <1>1, QuietBoth
<1>8. Quiet(x \o b \o m, 0)
  BY <1>1, <1>7, QuietBoth
<1>9. Quiet(x \o b \o m \o compute, 0)
  BY <1>3, <1>8, QuietBoth
<1>10. Given \in Int
  BY DEF Given
<1> QED BY <1>5, <1>6, <1>9, <1>10, QuietBoth

\* <<= and >>= pop the address they had pushed.
LEMMA QuietShiftTo == \A p : Quiet(ShiftTo(p), Given)
<1> SUFFICES ASSUME NEW p PROVE Quiet(ShiftTo(p), Given)
  OBVIOUS
<1> DEFINE first == IF Top.used THEN One("pop", Eax) ELSE <<>>
           shift == Sized(IF Top.op = "<<=" THEN "shl" ELSE "shr", Width(p.attr), p.opnd, Cl)
<1>1. Quiet(LoadCount, 0) /\ Quiet(shift, 0)
  BY QuietPlain DEF Plain, LoadCount
<1>2. Quiet(first, IF Top.used THEN -1 ELSE 0)
  BY QuietFirst
<1>3. ShiftTo(p) = LoadCount \o first \o shift
  BY DEF ShiftTo
<1> HIDE DEF first, shift
<1> QED BY <1>1, <1>2, <1>3, QuietSaved DEF Given

\* CloseAssign keeps the stack balanced.
LEMMA BalancedCloseAssign == ASSUME Formed, Balanced, CloseAssign PROVE Balanced'
<1> DEFINE p == Top.p
           items == CASE Top.op = "=" -> Store(p)
                      [] Top.op \in {"+=", "-="} -> AddTo(p)
                      [] Top.op \in {"&=", "^=", "|="} -> BitsTo(p)
                      [] Top.op \in {"*=", "/=", "%="} -> MultiplyTo(p)
                      [] OTHER -> ShiftTo(p)
<1>1. frames # <<>> /\ Top.op \in Assign /\ Top.op \in Saves
  BY DEF CloseAssign, Completes, Saves
<1>2. CASE \E e : Refuse(e)
  BY <1>2, BalancedRefuse
<1>3. CASE Complete(p, Top.used, items)
  <2>1. Good(p)
    BY <1>1, TopOK
  <2> HIDE DEF p
  <2>2. /\ Quiet(Store(p), Given) /\ Quiet(AddTo(p), Given) /\ Quiet(MultiplyTo(p), Given)
        /\ Quiet(ShiftTo(p), Given) /\ (Top.op \in {"&=", "^=", "|="} => Quiet(BitsTo(p), Given))
    BY <2>1, QuietStore, QuietAddTo, QuietMultiplyTo, QuietShiftTo, QuietBitsTo
  <2>3. Quiet(items, Given)
    BY <2>2
  <2> HIDE DEF items
  <2> QED BY <1>1, <1>3, <2>3, BalancedSaved DEF Given
<1> QED BY <1>2, <1>3 DEF CloseAssign

------------------------------------------------------------------------------
\* The invariant of the stack

\* The first operand starts with nothing pushed.
LEMMA BalancedInit == Init => Balanced
<1> SUFFICES ASSUME Init PROVE Balanced
  OBVIOUS
<1>1. frames = <<>> /\ code = <<>> /\ label_counter = 0
  BY DEF Init
<1>2. PICK lev : lev = [n \in Nat |-> 0]
  OBVIOUS
<1>3. lev \in [Nat -> Int]
  BY <1>2
<1>4. FramesOK(<<>>) /\ Len(<<>>) = 0
  <2>1. IsSeq(<<>>) /\ Len(<<>>) = 0
    <3>1. <<>> \in Seq({})
      OBVIOUS
    <3> QED BY <3>1 DEF IsSeq
  <2> QED BY <2>1 DEF FramesOK
<1>5. HeldBy(<<>>)[Len(<<>>)] = 0
  BY <1>4, HeldProp
<1>6. Placed(<<>>, <<>>, lev, 0)
  BY <1>4 DEF Placed
<1>7. Piece(<<>>, 0, 0, lev, 0..0 - 1)
  <2>1. 0 + 0 = 0 /\ 0 \in Int
    OBVIOUS
  <2>2. Piece(<<>>, 0, 0 + 0, lev, 0..0 - 1)
    BY <2>1, QuietOne, QuietPiece
  <2> QED BY <2>1, <2>2
<1>8. Levels(lev)
  BY <1>1, <1>3, <1>5, <1>6, <1>7 DEF Levels
<1> QED BY <1>8 DEF Balanced

\* Every step of the parser keeps it.
LEMMA BalancedNext == Formed /\ Formed' /\ Balanced /\ [Next]_vars => Balanced'
<1> SUFFICES ASSUME Formed, Formed', Balanced, [Next]_vars PROVE Balanced'
  OBVIOUS
<1>1. CASE Parenthesis \/ Constant \/ TypeSize \/ Variable \/ Array \/ Structure \/ String
  BY <1>1, BalancedOperand, BalancedString
<1>2. CASE OpenCall \/ NextArgument \/ CloseCall \/ OpenIndex \/ CloseIndex \/ Members \/ MemberIndex
  BY <1>2, BalancedOpenCall, BalancedNextArgument, BalancedCloseCall, BalancedOpens,
     BalancedCloseIndex, BalancedMembers
<1>3. CASE Cast \/ Deref \/ AddressOf \/ Increment \/ PostIncrement \/ Negate \/ Not \/ SizeOf
  BY <1>3, BalancedCast, BalancedDeref, BalancedAddressOf, BalancedSteps, BalancedNegate, BalancedNot
<1>4. CASE \/ OpenArithmetic \/ CloseProduct \/ CloseSum \/ OpenShift \/ CloseShift
           \/ OpenCompare \/ CloseOrder \/ CloseEquality \/ OpenBits \/ CloseBits
  BY <1>4, BalancedOpens, BalancedCloseProduct, BalancedCloseSum, BalancedCloseShift,
     BalancedOpenCompare, BalancedCloseCompare, BalancedCloseBits
<1>5. CASE \/ OpenLogic \/ CloseLogic \/ OpenCond \/ CondColon \/ CloseCond \/ OpenComma \/ CloseComma
           \/ OpenAssign \/ CloseAssign
  BY <1>5, BalancedOpenLogic, BalancedCloseLogic, BalancedCondColon, BalancedOpenAssign,
     BalancedCloseAssign
<1>6. CASE UNCHANGED vars
  BY <1>6, BalancedStays DEF vars
<1> QED BY <1>1, <1>2, <1>3, <1>4, <1>5, <1>6 DEF Next

\* What the invariant says of a complete operand, and of jumps and labels.
LEMMA BalancedSays == Formed /\ Balanced => StackBalanced
<1> SUFFICES ASSUME Formed, Balanced PROVE StackBalanced
  OBVIOUS
<1>1. PICK lev : Levels(lev)
  BY DEF Balanced
<1>2. /\ Placed(frames, code, lev, label_counter) /\ FramesOK(frames)
      /\ Piece(code, 0, HeldBy(frames)[Len(frames)], lev, 0..label_counter - 1)
  BY <1>1 DEF Levels, Formed
<1>3. \A n : Held(n) = HeldBy(frames)[n] /\ Height(n) = Depths(code)[n]
  BY DEF Held, HeldBy, Height
<1>4. DOMAIN frames = 1..Len(frames) /\ DOMAIN code = 1..Len(code)
      /\ \A n \in 0..Len(code) : Depths(code)[n] \in Int
  <2>1. Instrs(code)
    BY <1>2 DEF Piece
  <2> QED BY <1>2, <2>1, HeldProp, PushesProp, DepthsIn
<1>5. \A i \in DOMAIN frames : Height(frames[i].start) = Held(i)
  <2>1. ASSUME NEW i \in 1..Len(frames) PROVE Depths(code)[frames[i].start] = HeldBy(frames)[i]
    <3>1. Depths(code)[frames[i].start] = HeldBy(frames)[i - 1] + frames[i].pushed
      BY <1>2 DEF Placed, Within
    <3> QED BY <1>2, <3>1, HeldProp
  <2> QED BY <1>3, <1>4, <2>1
<1>6. Height(Len(code)) = Held(Len(frames))
  BY <1>2, <1>3, PieceEnd
<1>7. ASSUME NEW i \in DOMAIN code, code[i].op \in JumpOps,
             NEW j \in DOMAIN code, code[j].op = "label", code[j].dst.n = code[i].dst.n
      PROVE  Height(j) = Height(i)
  <2>1. IsMark(code[i]) /\ IsMark(code[j])
    BY <1>7 DEF IsMark
  <2>2. 0 + Depths(code)[i] = lev[code[i].dst.n] /\ 0 + Depths(code)[j] = lev[code[j].dst.n]
    BY <1>2, <1>4, <2>1 DEF Piece
  <2>3. Depths(code)[i] \in Int /\ Depths(code)[j] \in Int
    BY <1>4
  <2>4. 0 + Depths(code)[i] = 0 + Depths(code)[j]
    BY <1>7, <2>2
  <2>5. Depths(code)[i] = Depths(code)[j]
    BY <2>3, <2>4
  <2> QED BY <1>3, <2>5
<1> QED BY <1>5, <1>6, <1>7 DEF StackBalanced

\* In the code of every expression each operand that is complete finds on the stack what the
\* open operators pushed and nothing else, and a jump and its label agree on it: the stack
\* is as high at a label whichever way it is reached.
THEOREM StackIsBalanced == Spec => []StackBalanced
<1>1. Init => Balanced
  BY BalancedInit
<1>2. Formed /\ Formed' /\ Balanced /\ [Next]_vars => Balanced'
  BY BalancedNext
<1>3. Formed /\ Balanced => StackBalanced
  BY BalancedSays
<1> QED BY <1>1, <1>2, <1>3, FormedAlways, PTL DEF Spec
================================================================================
