-------------------------- MODULE InitialisersProofs --------------------------
(***************************************************************************)
(* Proofs about Initialisers, for every text, every type and dimensions of *)
(* any number and size: each value is printed where C reads the element it *)
(* initialises, and what is printed for an object has the object's size.   *)
(***************************************************************************)
EXTENDS StructLayoutProofs

------------------------------------------------------------------------------
\* Products and sums

\* The product of the last dimensions is an iteration.
Lasts(dims, n) == [k \in 1..n |-> [x \in Nat |-> dims[Len(dims) + 1 - k] * x]]

\* Below multiplies them one after the other.
LEMMA BelowIterates ==
  ASSUME NEW dims \in Seq(Nat), NEW d \in 0..Len(dims)
  PROVE  \E f : /\ f[Len(dims) - d] = Below(dims, d)
                /\ Iterates(f, Len(dims) - d, Nat, 1, Lasts(dims, Len(dims) - d))
<1> DEFINE n == Len(dims) - d
           step == Lasts(dims, n)
           F(f) == f = [k \in 0..n |-> IF k = 0 THEN 1 ELSE dims[Len(dims) + 1 - k] * f[k-1]]
           f == CHOOSE x : F(x)
<1>0. n \in Nat /\ \A k \in 1..n : dims[Len(dims) + 1 - k] \in Nat
  OBVIOUS
<1> HIDE DEF n
<1>1. step \in [1..n -> [Nat -> Nat]]
  BY <1>0 DEF Lasts
<1>2. PICK h : Iterates(h, n, Nat, 1, step)
  <2> HIDE DEF step
  <2> QED BY <1>0, <1>1, Recursion
<1>3. ASSUME NEW k \in 1..n PROVE h[k] = dims[Len(dims) + 1 - k] * h[k-1]
  <2>1. k - 1 \in 0..n /\ h[k-1] \in Nat
    BY <1>0, <1>2 DEF Iterates
  <2>2. h[k] = step[k][h[k-1]]
    BY <1>2 DEF Iterates
  <2> QED BY <2>1, <2>2 DEF Lasts
<1>4. F(h)
  <2>1. h \in [0..n -> Nat] /\ h[0] = 1
    BY <1>2 DEF Iterates
  <2>2. \A k \in 0..n : k # 0 => k \in 1..n
    BY <1>0
  <2> QED BY <1>3, <2>1, <2>2
<1>5. F(f)
  <2> HIDE DEF F
  <2> QED BY <1>4
<1>6. Below(dims, d) = f[n]
  BY DEF Below, n
<1> HIDE DEF f
<1>7. f[0] = 1 /\ \A k \in 1..n : f[k] = dims[Len(dims) + 1 - k] * f[k-1]
  <2>1. 0 \in 0..n /\ \A k \in 1..n : k \in 0..n /\ k # 0
    BY <1>0
  <2> QED BY <1>5, <2>1
<1>8. \A k \in 0..n : f[k] \in Nat
  <2> DEFINE S == {k \in Nat : f[k] \in Nat}
  <2>1. 0 \in S
    BY <1>7
  <2>2. ASSUME NEW k \in 1..n, k - 1 \in S PROVE k \in S
    <3>1. PICK x, y \in Nat : x = dims[Len(dims) + 1 - k] /\ y = f[k-1]
      BY <1>0, <2>2
    <3>2. f[k] = x * y /\ k \in Nat
      BY <1>0, <1>7, <3>1
    <3>3. x * y \in Nat
      OBVIOUS
    <3> QED BY <3>2, <3>3
  <2>3. \A k \in 0..n : k \in S
    <3>1. S \in SUBSET Nat
      OBVIOUS
    <3> HIDE DEF S
    <3> QED BY <1>0, <2>1, <2>2, <3>1, UpTo
  <2> QED BY <2>3
<1>9. Iterates(f, n, Nat, 1, step)
  <2>1. f \in [0..n -> Nat]
    BY <1>5, <1>8
  <2>2. ASSUME NEW k \in 1..n PROVE f[k] = step[k][f[k-1]]
    <3>1. k - 1 \in 0..n /\ f[k-1] \in Nat
      BY <1>0, <1>8
    <3> QED BY <1>7, <3>1 DEF Lasts
  <2> HIDE DEF step
  <2> QED BY <1>7, <2>1, <2>2 DEF Iterates
<1> QED BY <1>6, <1>9 DEF n

\* How many elements there are below a dimension.
LEMMA BelowProp ==
  ASSUME NEW dims \in Seq(Nat), NEW d \in 0..Len(dims)
  PROVE  /\ Below(dims, d) \in Nat
         /\ d = Len(dims) => Below(dims, d) = 1
         /\ d < Len(dims) => Below(dims, d) = dims[d + 1] * Below(dims, d + 1)
<1>0. Len(dims) - d \in Nat
  OBVIOUS
<1>1. PICK n \in Nat : n = Len(dims) - d
  BY <1>0
<1>2. PICK f : f[n] = Below(dims, d) /\ Iterates(f, n, Nat, 1, Lasts(dims, n))
  BY <1>1, BelowIterates
<1>3. f[n] \in Nat /\ f[0] = 1
  BY <1>2 DEF Iterates
<1>4. ASSUME d < Len(dims) PROVE Below(dims, d) = dims[d + 1] * Below(dims, d + 1)
  <2>1. PICK m \in Nat : m = n - 1 /\ m = Len(dims) - (d + 1) /\ d + 1 \in 0..Len(dims)
    BY <1>1, <1>4
  <2>2. PICK g : g[m] = Below(dims, d + 1) /\ Iterates(g, m, Nat, 1, Lasts(dims, m))
    BY <2>1, BelowIterates
  <2>3. g[m] = f[m]
    <3>1. m <= n /\ \A k \in 1..m : Lasts(dims, m)[k] = Lasts(dims, n)[k]
      BY <2>1 DEF Lasts
    <3> QED BY <1>2, <2>2, <3>1, IteratesOnce
  <2>4. f[n] = Lasts(dims, n)[n][f[m]] /\ f[m] \in Nat
    BY <1>2, <2>1 DEF Iterates
  <2>5. f[n] = dims[Len(dims) + 1 - n] * f[m]
    <3>1. PICK e : e = dims[Len(dims) + 1 - n]
      OBVIOUS
    <3>2. n \in 1..n
      BY <1>1, <1>4
    <3>3. Lasts(dims, n)[n] = [x \in Nat |-> e * x]
      BY <3>1, <3>2, Zenon DEF Lasts
    <3> QED BY <2>4, <3>1, <3>3, Zenon
  <2>6. Len(dims) + 1 - n = d + 1
    BY <1>1
  <2> QED BY <1>2, <2>2, <2>3, <2>5, <2>6
<1> QED BY <1>1, <1>2, <1>3, <1>4

\* Only the dimensions below count.
LEMMA BelowSame ==
  ASSUME NEW dims \in Seq(Nat), NEW new \in Seq(Nat), Len(new) = Len(dims),
         NEW d \in 0..Len(dims), \A k \in d+1..Len(dims) : new[k] = dims[k]
  PROVE  Below(new, d) = Below(dims, d)
<1>0. Len(dims) - d \in Nat
  OBVIOUS
<1>1. PICK n \in Nat : n = Len(dims) - d
  BY <1>0
<1>2. PICK f : f[n] = Below(dims, d) /\ Iterates(f, n, Nat, 1, Lasts(dims, n))
  BY <1>1, BelowIterates
<1>3. PICK g : g[n] = Below(new, d) /\ Iterates(g, n, Nat, 1, Lasts(new, n))
  BY <1>1, BelowIterates
<1>4. n <= n /\ \A k \in 1..n : Lasts(new, n)[k] = Lasts(dims, n)[k]
  <2>1. ASSUME NEW k \in 1..n PROVE new[Len(new) + 1 - k] = dims[Len(dims) + 1 - k]
    <3>1. Len(dims) + 1 - k \in d+1..Len(dims)
      BY <1>1
    <3> QED BY <3>1
  <2>2. ASSUME NEW k \in 1..n PROVE Lasts(new, n)[k] = Lasts(dims, n)[k]
    <3>1. PICK d1, d2 : d1 = new[Len(new) + 1 - k] /\ d2 = dims[Len(dims) + 1 - k]
      OBVIOUS
    <3>2. Lasts(new, n)[k] = [x \in Nat |-> d1 * x] /\ Lasts(dims, n)[k] = [x \in Nat |-> d2 * x]
      BY <3>1, Zenon DEF Lasts
    <3> QED BY <2>1, <3>1, <3>2, Zenon
  <2> QED BY <1>1, <2>2
<1> QED BY <1>2, <1>3, <1>4, IteratesOnce

\* What is printed.
Items == [bytes : Int, tok : Int, text : BOOLEAN]

\* The sum of their bytes is an iteration.
Adding(items, n) == [k \in 1..n |-> [x \in Int |-> x + items[k].bytes]]

\* BytesOf adds them one after the other.
LEMMA BytesOfIterates ==
  ASSUME NEW items \in Seq(Items), NEW n \in 0..Len(items)
  PROVE  \E f : f[n] = BytesOf(items, n) /\ Iterates(f, n, Int, 0, Adding(items, n))
<1> DEFINE step == Adding(items, n)
           F(f) == f = [k \in 0..n |-> IF k = 0 THEN 0 ELSE f[k-1] + items[k].bytes]
           f == CHOOSE x : F(x)
<1>0. n \in Nat /\ \A k \in 1..n : items[k].bytes \in Int
  <2>1. n \in Nat /\ \A k \in 1..n : items[k] \in Items
    OBVIOUS
  <2> QED BY <2>1 DEF Items
<1>1. step \in [1..n -> [Int -> Int]]
  BY <1>0 DEF Adding
<1>2. PICK h : Iterates(h, n, Int, 0, step)
  <2>1. 0 \in Int
    OBVIOUS
  <2> HIDE DEF step
  <2> QED BY <1>0, <1>1, <2>1, Recursion
<1>3. ASSUME NEW k \in 1..n PROVE h[k] = h[k-1] + items[k].bytes
  <2>1. k - 1 \in 0..n /\ h[k-1] \in Int
    BY <1>0, <1>2 DEF Iterates
  <2>2. h[k] = step[k][h[k-1]]
    BY <1>2 DEF Iterates
  <2> QED BY <2>1, <2>2 DEF Adding
<1>4. F(h)
  <2>1. h \in [0..n -> Int] /\ h[0] = 0
    BY <1>2 DEF Iterates
  <2>2. \A k \in 0..n : k # 0 => k \in 1..n
    BY <1>0
  <2> QED BY <1>3, <2>1, <2>2
<1>5. F(f)
  <2> HIDE DEF F
  <2> QED BY <1>4
<1>6. BytesOf(items, n) = f[n]
  BY DEF BytesOf
<1> HIDE DEF f
<1>7. f[0] = 0 /\ \A k \in 1..n : f[k] = f[k-1] + items[k].bytes
  <2>1. 0 \in 0..n /\ \A k \in 1..n : k \in 0..n /\ k # 0
    BY <1>0
  <2> QED BY <1>5, <2>1
<1>8. \A k \in 0..n : f[k] \in Int
  <2> DEFINE S == {k \in Nat : f[k] \in Int}
  <2>1. 0 \in S
    BY <1>7
  <2>2. ASSUME NEW k \in 1..n, k - 1 \in S PROVE k \in S
    <3>1. f[k-1] \in Int /\ k \in Nat
      BY <2>2
    <3>2. items[k].bytes \in Int
      BY <1>0
    <3>3. f[k] = f[k-1] + items[k].bytes
      BY <1>7
    <3> QED BY <3>1, <3>2, <3>3
  <2>3. \A k \in 0..n : k \in S
    <3>1. S \in SUBSET Nat
      OBVIOUS
    <3> HIDE DEF S
    <3> QED BY <1>0, <2>1, <2>2, <3>1, UpTo
  <2> QED BY <2>3
<1>9. Iterates(f, n, Int, 0, step)
  <2>1. f \in [0..n -> Int]
    BY <1>5, <1>8
  <2>2. ASSUME NEW k \in 1..n PROVE f[k] = step[k][f[k-1]]
    <3>1. k - 1 \in 0..n /\ f[k-1] \in Int
      BY <1>0, <1>8
    <3> QED BY <1>7, <3>1 DEF Adding
  <2> HIDE DEF step
  <2> QED BY <1>7, <2>1, <2>2 DEF Iterates
<1> QED BY <1>6, <1>9

\* It is an int, and grows by each item.
LEMMA BytesOfProp ==
  ASSUME NEW items \in Seq(Items), NEW n \in 0..Len(items)
  PROVE  /\ BytesOf(items, n) \in Int
         /\ n = 0 => BytesOf(items, n) = 0
         /\ n > 0 => BytesOf(items, n) = BytesOf(items, n - 1) + items[n].bytes
<1>1. n \in Nat
  OBVIOUS
<1>2. PICK f : f[n] = BytesOf(items, n) /\ Iterates(f, n, Int, 0, Adding(items, n))
  BY BytesOfIterates
<1>3. f[n] \in Int /\ f[0] = 0
  BY <1>1, <1>2 DEF Iterates
<1>4. ASSUME n > 0 PROVE BytesOf(items, n) = BytesOf(items, n - 1) + items[n].bytes
  <2>1. PICK m \in Nat : m = n - 1 /\ m \in 0..Len(items) /\ n \in 1..n /\ m \in 0..n
    BY <1>1, <1>4
  <2>2. PICK g : g[m] = BytesOf(items, m) /\ Iterates(g, m, Int, 0, Adding(items, m))
    BY <2>1, BytesOfIterates
  <2>3. g[m] = f[m]
    <3>1. m <= n /\ \A k \in 1..m : Adding(items, m)[k] = Adding(items, n)[k]
      BY <2>1 DEF Adding
    <3> QED BY <1>1, <1>2, <2>2, <3>1, IteratesOnce
  <2>4. f[n] = Adding(items, n)[n][f[m]] /\ f[m] \in Int
    BY <1>2, <2>1 DEF Iterates
  <2>5. f[n] = f[m] + items[n].bytes
    BY <2>1, <2>4 DEF Adding
  <2> QED BY <1>2, <2>1, <2>2, <2>3, <2>5
<1> QED BY <1>2, <1>3, <1>4

\* Only the items up to there count.
LEMMA BytesOfSame ==
  ASSUME NEW items \in Seq(Items), NEW new \in Seq(Items), NEW n \in 0..Len(items), n <= Len(new),
         \A k \in 1..n : new[k] = items[k]
  PROVE  BytesOf(new, n) = BytesOf(items, n)
<1>1. PICK f : f[n] = BytesOf(items, n) /\ Iterates(f, n, Int, 0, Adding(items, n))
  BY BytesOfIterates
<1>2. n \in 0..Len(new) /\ n \in Nat
  OBVIOUS
<1>3. PICK g : g[n] = BytesOf(new, n) /\ Iterates(g, n, Int, 0, Adding(new, n))
  BY <1>2, BytesOfIterates
<1>4. n <= n /\ \A k \in 1..n : Adding(new, n)[k] = Adding(items, n)[k]
  BY <1>2 DEF Adding
<1> QED BY <1>1, <1>2, <1>3, <1>4, IteratesOnce

------------------------------------------------------------------------------
\* Paths

\* A path is followed one token further.
LEMMA FollowProp ==
  ASSUME NEW path \in Seq(Nat), NEW t
  PROVE  Follow(path, t) \in Seq(Nat)
<1>1. Append(path, 0) \in Seq(Nat)
  OBVIOUS
<1>2. Front(path) \in Seq(Nat)
  <2>1. Len(path) \in Nat /\ \A k \in 1..Len(path)-1 : path[k] \in Nat
    OBVIOUS
  <2>2. CASE Len(path) = 0
    BY <2>2 DEF Front
  <2>3. CASE Len(path) # 0
    <3>1. Len(path) - 1 \in Nat
      BY <2>1, <2>3
    <3> QED BY <2>1, <3>1 DEF Front
  <2> QED BY <2>2, <2>3
<1>3. ASSUME path # <<>> PROVE Append(Front(path), Last(path) + 1) \in Seq(Nat)
  <2>1. Last(path) \in Nat
    BY <1>3 DEF Last
  <2> QED BY <1>2, <2>1
<1> QED BY <1>1, <1>2, <1>3, Zenon DEF Follow

\* The path in front of an item is an iteration.
Following(n) == [k \in 1..n |-> [x \in Seq(Nat) |-> Follow(x, TokenAt(var.at + k))]]

\* Path follows the tokens one after the other.
LEMMA PathIterates ==
  ASSUME var.at \in Nat, NEW p \in Nat, p > var.at
  PROVE  LET n == p - var.at - 1 IN
         \E f : f[n] = Path(p) /\ Iterates(f, n, Seq(Nat), <<>>, Following(n))
<1> DEFINE n == p - var.at - 1
           step == Following(n)
           F(f) == f = [k \in 0..n |-> IF k = 0 THEN <<>> ELSE Follow(f[k-1], TokenAt(var.at + k))]
           f == CHOOSE x : F(x)
<1>6. Path(p) = f[n]
  BY DEF Path
<1>0. <<>> \in Seq(Nat) /\ n \in Nat
  OBVIOUS
<1> HIDE DEF n
<1>1. step \in [1..n -> [Seq(Nat) -> Seq(Nat)]]
  BY FollowProp DEF Following
<1>2. PICK h : Iterates(h, n, Seq(Nat), <<>>, step)
  <2> HIDE DEF step
  <2> QED BY <1>0, <1>1, Recursion
<1>3. ASSUME NEW k \in 1..n PROVE h[k] = Follow(h[k-1], TokenAt(var.at + k))
  <2>1. k - 1 \in 0..n /\ h[k-1] \in Seq(Nat)
    BY <1>0, <1>2 DEF Iterates
  <2>2. h[k] = step[k][h[k-1]]
    BY <1>2 DEF Iterates
  <2> QED BY <2>1, <2>2 DEF Following
<1>4. F(h)
  <2>1. h \in [0..n -> Seq(Nat)] /\ h[0] = <<>>
    BY <1>2 DEF Iterates
  <2>2. \A k \in 0..n : k # 0 => k \in 1..n
    BY <1>0
  <2> QED BY <1>3, <2>1, <2>2
<1>5. F(f)
  <2> HIDE DEF F
  <2> QED BY <1>4
<1> HIDE DEF f
<1>7. f[0] = <<>> /\ \A k \in 1..n : f[k] = Follow(f[k-1], TokenAt(var.at + k))
  <2>1. 0 \in 0..n /\ \A k \in 1..n : k \in 0..n /\ k # 0
    BY <1>0
  <2> QED BY <1>5, <2>1
<1>8. \A k \in 0..n : f[k] \in Seq(Nat)
  <2> DEFINE S == {k \in Nat : f[k] \in Seq(Nat)}
  <2>1. 0 \in S
    BY <1>0, <1>7
  <2>2. \A k \in 1..n : k - 1 \in S => k \in S
    BY <1>7, FollowProp
  <2>3. \A k \in 0..n : k \in S
    <3>1. S \in SUBSET Nat
      OBVIOUS
    <3> HIDE DEF S
    <3> QED BY <1>0, <2>1, <2>2, <3>1, UpTo
  <2> QED BY <2>3
<1>9. Iterates(f, n, Seq(Nat), <<>>, step)
  <2>1. f \in [0..n -> Seq(Nat)]
    BY <1>5, <1>8
  <2>2. ASSUME NEW k \in 1..n PROVE f[k] = step[k][f[k-1]]
    <3>1. k - 1 \in 0..n /\ f[k-1] \in Seq(Nat)
      BY <1>0, <1>8
    <3> QED BY <1>7, <3>1 DEF Following
  <2> HIDE DEF step
  <2> QED BY <1>7, <2>1, <2>2 DEF Iterates
<1> QED BY <1>6, <1>9 DEF n

\* No brace is open at first, and each token takes the path further.
PathRule ==
  var.at \in Nat =>
    /\ Path(var.at + 1) = <<>>
    /\ \A p \in Nat : p > var.at =>
         Path(p) \in Seq(Nat) /\ Path(p + 1) = Follow(Path(p), TokenAt(p))

\* Path follows that rule: it is what the recursion defines.
LEMMA PathGoesOn == PathRule
<1> SUFFICES ASSUME var.at \in Nat PROVE PathRule
  BY DEF PathRule
<1>1. ASSUME NEW n \in Nat
      PROVE  /\ Path(var.at + 1 + n) \in Seq(Nat)
             /\ n = 0 => Path(var.at + 1 + n) = <<>>
             /\ Path(var.at + 1 + (n + 1)) = Follow(Path(var.at + 1 + n), TokenAt(var.at + 1 + n))
  <2>0. PICK m \in Nat : m = n + 1
    OBVIOUS
  <2>9. PICK p, q : p = var.at + 1 + n /\ q = var.at + 1 + m
    OBVIOUS
  <2>10. /\ p \in Nat /\ p > var.at /\ p - var.at - 1 = n
         /\ q \in Nat /\ q > var.at /\ q - var.at - 1 = m
    BY <2>0, <2>9
  <2>1. PICK f : f[n] = Path(var.at + 1 + n) /\ Iterates(f, n, Seq(Nat), <<>>, Following(n))
    BY <2>9, <2>10, PathIterates
  <2>2. m = n + 1
    BY <2>0
  <2>3. PICK g : g[m] = Path(var.at + 1 + m) /\ Iterates(g, m, Seq(Nat), <<>>, Following(m))
    BY <2>9, <2>10, PathIterates
  <2>4. f[n] = g[n]
    <3>1. n <= m /\ \A k \in 1..n : Following(n)[k] = Following(m)[k]
      BY <2>2 DEF Following
    <3> QED BY <2>1, <2>2, <2>3, <3>1, IteratesOnce
  <2>5. g[m] = Following(m)[m][g[n]] /\ g[n] \in Seq(Nat)
    BY <2>2, <2>3 DEF Iterates
  <2>6. g[m] = Follow(g[n], TokenAt(var.at + m))
    BY <2>2, <2>5 DEF Following
  <2>7. n = 0 => f[n] = <<>>
    BY <2>1 DEF Iterates
  <2>8. var.at + m = var.at + 1 + n
    BY <2>2
  <2> QED BY <2>1, <2>2, <2>3, <2>4, <2>5, <2>6, <2>7, <2>8
<1>2. Path(var.at + 1) = <<>>
  <2>1. var.at + 1 + 0 = var.at + 1
    OBVIOUS
  <2> QED BY <1>1, <2>1
<1>3. ASSUME NEW p \in Nat, p > var.at
      PROVE  Path(p) \in Seq(Nat) /\ Path(p + 1) = Follow(Path(p), TokenAt(p))
  <2>1. PICK n : n = p - var.at - 1
    OBVIOUS
  <2>2. n \in Nat /\ var.at + 1 + n = p /\ var.at + 1 + (n + 1) = p + 1
    BY <1>3, <2>1
  <2> QED BY <1>1, <2>2
<1> QED BY <1>2, <1>3 DEF PathRule

\* So does the path that the next state has.
LEMMA PathGoesOnThen == PathRule'
  BY PathGoesOn, PTL

\* A path stays as the text does.
LEMMA PathKept ==
  ASSUME var.at \in Nat, var'.at = var.at, UNCHANGED unit, NEW p \in Nat, p > var.at
  PROVE  Path(p)' = Path(p)
<1> DEFINE S == {n \in Nat : Path(var.at + 1 + n)' = Path(var.at + 1 + n)}
<1>0. \A q : TokenAt(q)' = TokenAt(q)
  BY DEF TokenAt
<1>1. 0 \in S
  <2>1. Path(var.at + 1) = <<>> /\ Path(var.at + 1)' = <<>> /\ var.at + 1 + 0 = var.at + 1
    BY PathGoesOn, PathGoesOnThen DEF PathRule
  <2> QED BY <2>1
<1>2. ASSUME NEW n \in S PROVE n + 1 \in S
  <2>1. PICK q : q = var.at + 1 + n
    OBVIOUS
  <2>2. q \in Nat /\ q > var.at /\ Path(q)' = Path(q) /\ q + 1 = var.at + 1 + (n + 1)
    BY <2>1
  <2>3. Path(q + 1) = Follow(Path(q), TokenAt(q))
    BY <2>2, PathGoesOn DEF PathRule
  <2>4. Path(q + 1)' = Follow(Path(q)', TokenAt(q)')
    BY <2>2, PathGoesOnThen DEF PathRule, Follow
  <2>5. Path(q + 1)' = Path(q + 1)
    BY <1>0, <2>2, <2>3, <2>4
  <2> QED BY <2>2, <2>5
<1>3. S = Nat
  <2>1. S \in SUBSET Nat
    OBVIOUS
  <2> HIDE DEF S
  <2> QED BY <1>1, <1>2, <2>1, SetInduction
<1>4. PICK n : n = p - var.at - 1
  OBVIOUS
<1>5. n \in Nat /\ var.at + 1 + n = p
  BY <1>4
<1> QED BY <1>3, <1>5

------------------------------------------------------------------------------
\* Walks

\* Where a walk starts.
Start == [type |-> var.type, dims |-> var.dims, dim |-> 0, at |-> 0]

\* A walk of n steps along the path.
Walks(f, path, n) ==
  /\ f = [k \in 0..n |-> f[k]] /\ f[0] = Start
  /\ \A k \in 1..n : f[k] = Element(f[k-1], path[k])

\* There is one.
LEMMA WalkExists ==
  ASSUME NEW path, NEW n \in Nat
  PROVE  \E f : Walks(f, path, n)
<1> DEFINE P == {m \in Nat : \E f : Walks(f, path, m)}
<1>1. 0 \in P
  <2>1. Walks([k \in 0..0 |-> Start], path, 0)
    BY DEF Walks
  <2> QED BY <2>1
<1>2. ASSUME NEW m \in P PROVE m + 1 \in P
  <2>1. PICK f : Walks(f, path, m)
    OBVIOUS
  <2> DEFINE g == [k \in 0..m+1 |-> IF k <= m THEN f[k] ELSE Element(f[m], path[m+1])]
  <2>2. ASSUME NEW k \in 1..m+1 PROVE g[k] = Element(g[k-1], path[k])
    <3>1. CASE k <= m
      <4>1. g[k] = f[k] /\ g[k-1] = f[k-1] /\ k \in 1..m
        BY <3>1
      <4> QED BY <2>1, <4>1 DEF Walks
    <3>2. CASE k = m + 1
      <4>1. g[k] = Element(f[m], path[m+1]) /\ g[k-1] = f[m]
        BY <3>2
      <4> QED BY <3>2, <4>1
    <3> QED BY <3>1, <3>2
  <2>3. g[0] = Start /\ g = [k \in 0..m+1 |-> g[k]]
    <3>1. 0 \in 0..m+1 /\ 0 <= m /\ f[0] = Start
      BY <2>1 DEF Walks
    <3> QED BY <3>1
  <2> HIDE DEF g
  <2>4. Walks(g, path, m + 1)
    BY <2>2, <2>3 DEF Walks
  <2> QED BY <2>4
<1>3. P = Nat
  <2>1. P \in SUBSET Nat
    OBVIOUS
  <2> HIDE DEF P
  <2> QED BY <1>1, <1>2, <2>1, SetInduction
<1> QED BY <1>3

\* Walk takes it.
LEMMA WalkTakes ==
  ASSUME NEW path \in Seq(Nat)
  PROVE  \E f : Walks(f, path, Len(path)) /\ Walk(path) = f[Len(path)]
<1> DEFINE n == Len(path)
           F(f) == f = [k \in 0..n |-> IF k = 0 THEN Start ELSE Element(f[k-1], path[k])]
           f == CHOOSE x : F(x)
<1>0. n \in Nat
  OBVIOUS
<1>1. Walk(path) = f[n]
  BY DEF Walk, Start
<1> HIDE DEF n
<1>2. PICK h : Walks(h, path, n)
  BY <1>0, WalkExists
<1>3. F(h)
  <2>1. h = [k \in 0..n |-> h[k]] /\ h[0] = Start
    BY <1>2 DEF Walks
  <2>2. \A k \in 0..n : h[k] = IF k = 0 THEN Start ELSE Element(h[k-1], path[k])
    <3>1. \A k \in 0..n : k # 0 => k \in 1..n
      BY <1>0
    <3> QED BY <1>2, <2>1, <3>1 DEF Walks
  <2> QED BY <2>1, <2>2
<1>4. F(f)
  <2> HIDE DEF F
  <2> QED BY <1>3
<1> HIDE DEF f
<1>5. f[0] = Start /\ \A k \in 1..n : f[k] = Element(f[k-1], path[k])
  <2>1. 0 \in 0..n /\ \A k \in 1..n : k \in 0..n /\ k # 0
    BY <1>0
  <2> QED BY <1>4, <2>1
<1>6. f = [k \in 0..n |-> f[k]]
  BY <1>4
<1> QED BY <1>1, <1>5, <1>6 DEF Walks, n

\* It begins at the variable, and each step goes to an element.
WalkRule ==
  /\ Walk(<<>>) = Start
  /\ \A path \in Seq(Nat), i \in Nat : Walk(Append(path, i)) = Element(Walk(path), i)

\* Walk follows that rule: it is what the recursion defines.
LEMMA WalkGoesOn == WalkRule
<1>1. Walk(<<>>) = Start
  <2>1. <<>> \in Seq(Nat) /\ Len(<<>>) = 0
    OBVIOUS
  <2> QED BY <2>1, WalkTakes DEF Walks
<1>2. ASSUME NEW path \in Seq(Nat), NEW i \in Nat
      PROVE  Walk(Append(path, i)) = Element(Walk(path), i)
  <2>1. PICK n, new : n = Len(path) /\ new = Append(path, i)
    OBVIOUS
  <2>2. n \in Nat /\ new \in Seq(Nat) /\ Len(new) = n + 1 /\ new[n + 1] = i
        /\ \A k \in 1..n : new[k] = path[k]
    BY <2>1
  <2>3. PICK f : Walks(f, path, n) /\ Walk(path) = f[n]
    BY <2>1, WalkTakes
  <2>4. PICK g : Walks(g, new, n + 1) /\ Walk(new) = g[n + 1]
    BY <2>2, WalkTakes
  <2> DEFINE S == {k \in Nat : f[k] = g[k]}
  <2>5. n \in S
    <3>1. 0 \in S
      BY <2>3, <2>4 DEF Walks
    <3>2. ASSUME NEW k \in 1..n, k - 1 \in S PROVE k \in S
      <4>1. k \in 1..n+1 /\ k \in Nat
        BY <2>2
      <4> QED BY <2>2, <2>3, <2>4, <3>2, <4>1 DEF Walks
    <3>3. S \in SUBSET Nat /\ n \in 0..n
      BY <2>2
    <3> HIDE DEF S
    <3> QED BY <2>2, <3>1, <3>2, <3>3, UpTo
  <2>6. g[n + 1] = Element(g[n], new[n + 1])
    <3>1. n + 1 \in 1..n+1 /\ n + 1 - 1 = n
      BY <2>2
    <3> QED BY <2>4, <3>1 DEF Walks
  <2> QED BY <2>1, <2>2, <2>3, <2>4, <2>5, <2>6
<1> QED BY <1>1, <1>2 DEF WalkRule

\* So does the walk in the next state.
LEMMA WalkGoesOnThen == WalkRule'
  BY WalkGoesOn, PTL

------------------------------------------------------------------------------
\* Plain structures

\* A type that is none of a structure outside T.
TypeIn(type, T) ==
  /\ type \in Types
  /\ type.base = "struct" => type.ptr = 0 /\ Known(type.tag) /\ StructOf(type.tag) \in T

\* A structure is found by its tag, later as well.
FoundByTag ==
  StateInv /\ NamesInv => \A s \in Structs : StructOf(c32_st_root[s].tag) = s

\* The tags differ, so that the search ends at the structure itself.
LEMMA Found == FoundByTag
  BY StructOfProp DEF FoundByTag

\* So it does in the next state.
LEMMA FoundThen == FoundByTag'
  BY Found, PTL

\* A type takes what it did, and its structure is the same.
LEMMA BytesSteady ==
  ASSUME LayoutInv, LayoutInv', Steady, Growing = 0, NEW type \in Types,
         type.base = "struct" => Known(type.tag)
  PROVE  /\ Bytes(type)' = Bytes(type) /\ Bytes(type) \in Int
         /\ type.base = "struct" =>
              /\ StructOf(type.tag)' = StructOf(type.tag) /\ StructOf(type.tag) \in Structs
              /\ Known(type.tag)'
<1>1. DOMAIN c32_st_root = Structs /\ DOMAIN c32_st_root' = Structs
  <2>1. c32_st_root \in Seq(Tables) /\ c32_st_root' \in Seq(Tables) /\ Structs' = Structs
    BY DEF LayoutInv, StateInv, Steady
  <2> QED BY <2>1 DEF Structs
<1>2. ASSUME type.base = "struct"
      PROVE  \E t \in Structs : /\ c32_st_root[t].tag = type.tag
                                /\ t \in Structs'
                                /\ c32_st_root'[t].tag = c32_st_root[t].tag
                                /\ c32_st_root'[t].size = c32_st_root[t].size
                                /\ StructOf(type.tag)' = t /\ StructOf(type.tag) = t
                                /\ Known(type.tag)'
  <2>1. PICK t \in Structs : c32_st_root[t].tag = type.tag
    BY <1>1, <1>2 DEF Known
  <2>2. /\ t \in Structs' /\ c32_st_root'[t].tag = c32_st_root[t].tag /\ t # 0
        /\ c32_st_root'[t].size = c32_st_root[t].size
    BY DEF Steady, Longer, Structs
  <2>3. StructOf(type.tag) = t
    BY <2>1, Found DEF FoundByTag, LayoutInv
  <2>4. StructOf(type.tag)' = t
    <3>1. StructOf(c32_st_root[t].tag)' = t
      BY <2>2, FoundThen DEF FoundByTag, LayoutInv
    <3> QED BY <2>1, <2>2, <3>1 DEF StructOf
  <2>5. Known(type.tag)'
    BY <1>1, <2>1, <2>2 DEF Known
  <2> QED BY <2>1, <2>2, <2>3, <2>4, <2>5
<1>3. Bytes(type)' = Bytes(type)
  BY <1>2, BytesKept DEF LayoutInv, IsStruct
<1>4. Bytes(type) \in Int
  BY BytesProp DEF LayoutInv
<1> QED BY <1>2, <1>3, <1>4

\* A member of a plain structure.
PlainMember(s, k, T) ==
  LET e == Elem(s, k) IN
  /\ e \in Elems /\ ~Vague(s, k) /\ TypeIn(e.type, T)
  /\ \A t \in 1..Len(e.dims) : e.dims[t] # 0
  /\ e.value >= 0 /\ e.size >= 0
  /\ e.value + e.size = IF k < Len(c32_st_root[s].elem) THEN Elem(s, k + 1).value ELSE c32_st_root[s].size
  /\ e.size = RowBytes(e, 0)
  /\ k = 1 => e.value = 0

\* Every member of a plain structure is one.
LEMMA PlainProp ==
  ASSUME LayoutInv, NEW T \in SUBSET Structs, Plain(T), NEW s \in T, NEW k \in Places(s)
  PROVE  PlainMember(s, k, T)
<1> DEFINE e == Elem(s, k)
           n == Len(c32_st_root[s].elem)
<1>1. e \in Elems /\ MemberInv(s, k) /\ s \in Structs /\ k \in 1..n /\ DOMAIN c32_st_root = Structs
  BY TablesProp DEF LayoutInv, MembersInv, Places
<1>2. Measured(s, n)
  BY DEF Plain
<1>3. /\ 0 \notin Range(Dims(unit[e.at].dims)) /\ e.value >= 0 /\ e.size >= 0
      /\ IsStruct(e.type) => e.type.tag # c32_st_root[s].tag
  BY <1>1, <1>2 DEF Measured, Elem
<1>4. ~Vague(s, k)
  BY <1>3 DEF Vague, Source
<1>5. e.dims = Dims(Source(s, k).dims) /\ (k = 1 => e.value = 0)
  BY <1>1, <1>4 DEF MemberInv, Written
<1>6. \A t \in 1..Len(e.dims) : e.dims[t] # 0
  <2>1. e.dims \in Seq(Nat) /\ 0 \notin Range(e.dims)
    BY <1>1, <1>3, <1>5 DEF Elems, Source
  <2>2. \A t \in 1..Len(e.dims) : t \in DOMAIN e.dims
    BY <2>1
  <2> HIDE DEF e
  <2> QED BY <2>1, <2>2 DEF Range
<1>7. /\ e.value + e.size = IF k < n THEN Elem(s, k + 1).value ELSE c32_st_root[s].size
      /\ e.size = RowBytes(e, 0)
      /\ e.type.base = "struct" => e.type.ptr = 0 /\ StructOf(e.type.tag) \in T
  BY <1>1 DEF Plain, Elem
<1>8. TypeIn(e.type, T)
  <2>1. e.type \in Types
    BY <1>1 DEF Elems
  <2>2. ASSUME e.type.base = "struct" PROVE Known(e.type.tag)
    <3>1. PICK t \in 1..s : c32_st_root[t].tag = e.type.tag
      BY <1>1, <2>2 DEF MemberInv, Written
    <3>2. t \in DOMAIN c32_st_root
      <4>1. Len(c32_st_root) \in Nat
        BY TablesProp DEF LayoutInv
      <4> QED BY <1>1, <4>1 DEF Structs
    <3> QED BY <3>1, <3>2 DEF Known
  <2> QED BY <1>7, <2>1, <2>2 DEF TypeIn
<1> QED BY <1>1, <1>3, <1>4, <1>5, <1>6, <1>7, <1>8 DEF PlainMember

\* What is plain later was so before, and nothing of it has changed.
LEMMA PlainBack ==
  ASSUME LayoutInv, LayoutInv', Steady, Growing = 0, NEW T \in SUBSET Structs', Plain(T)'
  PROVE  /\ T \in SUBSET Structs /\ Plain(T)
         /\ \A s \in T : c32_st_root'[s] = c32_st_root[s]
<1>1. T \in SUBSET Structs
  BY DEF Steady
<1>2. ASSUME NEW s \in T
      PROVE  /\ c32_st_root'[s] = c32_st_root[s]
             /\ Measured(s, Len(c32_st_root[s].elem))
  <2>1. s \in Structs /\ s \in Structs' /\ s # 0 /\ Places(s)' = Places(s)
    BY <1>1 DEF Structs, Steady
  <2>2. PICK n \in Nat : n = Len(c32_st_root[s].elem) /\ n > 0 /\ Places(s) = 1..n
    <3>1. Len(c32_st_root[s].elem) > 0
      BY <2>1 DEF LayoutInv, TablesInv, TableInv
    <3>2. Len(c32_st_root[s].elem) \in Nat
      BY <2>1, TablesProp DEF LayoutInv
    <3> QED BY <3>1, <3>2 DEF Places
  <2>3. c32_st_root[s] \in Tables /\ c32_st_root'[s] \in Tables
    <3>1. c32_st_root \in Seq(Tables) /\ c32_st_root' \in Seq(Tables)
      BY DEF LayoutInv, StateInv
    <3> QED BY <2>1, <3>1 DEF Structs
  <2>4. Len(c32_st_root'[s].elem) = n
    <3>1. PICK m \in Nat : m = Len(c32_st_root'[s].elem)
      BY <2>3 DEF Tables
    <3>2. 1..m = 1..n
      BY <2>1, <2>2, <3>1 DEF Places
    <3>3. n \in 1..n
      BY <2>2
    <3>4. n \in 1..m /\ (m > 0 => m \in 1..m)
      BY <3>2, <3>3
    <3> QED BY <3>1, <3>2, <3>4
  <2>5. Measured(s, n)' /\ n \in Places(s)
    BY <2>2, <2>4 DEF Plain
  <2>6. Measured(s, n)
    BY <2>1, <2>5, OldMeasured DEF LayoutInv, Steady
  <2>7. ASSUME NEW k \in 1..n PROVE c32_st_root'[s].elem[k] = c32_st_root[s].elem[k]
    <3>1. ~Vague(s, k)
      BY <2>6 DEF Measured, Vague, Source, Elem
    <3> DEFINE e == c32_st_root[s].elem[k]
               f == c32_st_root'[s].elem[k]
    <3>2. /\ f.name = e.name /\ f.type = e.type /\ f.value = e.value /\ f.at = e.at
          /\ f.dims = e.dims /\ f.size = e.size
      BY <2>1, <2>2, <3>1 DEF Steady, Longer
    <3>3. e \in Elems /\ f \in Elems
      BY <2>2, <2>3, <2>4 DEF Tables
    <3> HIDE DEF e, f
    <3>4. f = e
      BY <3>2, <3>3 DEF Elems
    <3> QED BY <3>4 DEF e, f
  <2>8. c32_st_root'[s].elem = c32_st_root[s].elem
    <3>1. c32_st_root[s].elem \in Seq(Elems) /\ c32_st_root'[s].elem \in Seq(Elems)
      BY <2>3 DEF Tables
    <3> QED BY <2>2, <2>4, <2>7, <3>1
  <2>9. c32_st_root'[s].tag = c32_st_root[s].tag /\ c32_st_root'[s].size = c32_st_root[s].size
    BY <2>1 DEF Steady, Longer
  <2>10. c32_st_root'[s] = c32_st_root[s]
    BY <2>3, <2>8, <2>9 DEF Tables
  <2> QED BY <2>2, <2>6, <2>10
<1>3. ASSUME NEW s \in T, NEW k \in Places(s)
      PROVE  LET e == c32_st_root[s].elem[k]
                 n == Len(c32_st_root[s].elem) IN
             /\ e.value + e.size = IF k < n THEN c32_st_root[s].elem[k+1].value ELSE c32_st_root[s].size
             /\ e.size = RowBytes(e, 0)
             /\ e.type.base = "struct" => e.type.ptr = 0 /\ StructOf(e.type.tag) \in T
  <2>0. PICK e, n : e = c32_st_root[s].elem[k] /\ n = Len(c32_st_root[s].elem)
    OBVIOUS
  <2>1. /\ e.value + e.size = IF k < n THEN c32_st_root[s].elem[k+1].value ELSE c32_st_root[s].size
        /\ e.size = Bytes(e.type)' * Below(e.dims, 0)
        /\ e.type.base = "struct" => e.type.ptr = 0 /\ StructOf(e.type.tag)' \in T
    <3>1. k \in 1..Len(c32_st_root'[s].elem) /\ c32_st_root'[s] = c32_st_root[s]
      BY <1>2 DEF Places
    <3>2. LET ee == c32_st_root'[s].elem[k] IN
          /\ ee.value + ee.size = IF k < Len(c32_st_root'[s].elem) THEN c32_st_root'[s].elem[k+1].value
                                  ELSE c32_st_root'[s].size
          /\ ee.size = RowBytes(c32_st_root[s].elem[k], 0)'
          /\ ee.type.base = "struct" => ee.type.ptr = 0 /\ StructOf(c32_st_root[s].elem[k].type.tag)' \in T
      BY <3>1 DEF Plain
    <3>3. /\ RowBytes(c32_st_root[s].elem[k], 0)' = Bytes(e.type)' * Below(e.dims, 0)
          /\ StructOf(c32_st_root[s].elem[k].type.tag)' = StructOf(e.type.tag)'
      BY <2>0, <3>1 DEF RowBytes, Below, Bytes, StructOf, IsStruct
    <3> QED BY <2>0, <3>1, <3>2, <3>3
  <2>2. e.type \in Types /\ (e.type.base = "struct" => Known(e.type.tag))
    <3>1. s \in Structs
      BY <1>1
    <3>2. Elem(s, k) \in Elems /\ MemberInv(s, k)
      BY <3>1, TablesProp DEF LayoutInv, MembersInv
    <3>3. ASSUME e.type.base = "struct" PROVE Known(e.type.tag)
      <4>1. PICK t \in 1..s : c32_st_root[t].tag = e.type.tag
        BY <2>0, <3>2, <3>3 DEF MemberInv, Written, Elem
      <4>2. t \in DOMAIN c32_st_root
        <5>1. Len(c32_st_root) \in Nat /\ DOMAIN c32_st_root = Structs
          BY TablesProp DEF LayoutInv
        <5> QED BY <3>1, <5>1 DEF Structs
      <4> QED BY <4>1, <4>2 DEF Known
    <3> QED BY <2>0, <3>2, <3>3 DEF Elem, Elems
  <2>3. Bytes(e.type)' = Bytes(e.type) /\ (e.type.base = "struct" => StructOf(e.type.tag)' = StructOf(e.type.tag))
    BY <2>2, BytesSteady
  <2> QED BY <2>0, <2>1, <2>3 DEF RowBytes
<1>4. Plain(T)
  BY <1>2, <1>3 DEF Plain, Places
<1> QED BY <1>1, <1>2, <1>4

------------------------------------------------------------------------------
\* Where a walk leads

\* A walk that has come to something of a type that is none of a structure outside T.
Steps == [type : Types, dims : Seq(Nat), dim : Nat, at : Int]
Typed(w, T) == w \in Steps /\ w.dim <= Len(w.dims) /\ TypeIn(w.type, T)

\* There is an element i.
Fits(w, i) ==
  w.dim < Len(w.dims) \/ (w.type.base = "struct" /\ i < Len(c32_st_root[StructOf(w.type.tag)].elem))

\* What an element of a dimension takes.
LEMMA RowBytesProp ==
  ASSUME LayoutInv, NEW T, NEW sym, sym.dims \in Seq(Nat), TypeIn(sym.type, T), NEW d \in 0..Len(sym.dims)
  PROVE  /\ RowBytes(sym, d) \in Int
         /\ d = Len(sym.dims) => RowBytes(sym, d) = Bytes(sym.type)
         /\ d < Len(sym.dims) => RowBytes(sym, d) = sym.dims[d + 1] * RowBytes(sym, d + 1)
<1>1. PICK b \in Int : b = Bytes(sym.type)
  BY BytesProp DEF LayoutInv, TypeIn
<1>2. PICK x \in Nat : x = Below(sym.dims, d)
  BY BelowProp
<1>3. RowBytes(sym, d) = b * x
  BY <1>1, <1>2 DEF RowBytes
<1>4. b * x \in Int
  OBVIOUS
<1>5. d = Len(sym.dims) => b * x = b
  BY <1>2, BelowProp
<1>6. ASSUME d < Len(sym.dims) PROVE RowBytes(sym, d) = sym.dims[d + 1] * RowBytes(sym, d + 1)
  <2>1. d + 1 \in 0..Len(sym.dims) /\ d + 1 \in 1..Len(sym.dims)
    BY <1>6
  <2>2. PICK y, m \in Nat : y = Below(sym.dims, d + 1) /\ m = sym.dims[d + 1]
    BY <2>1, BelowProp
  <2>3. x = m * y
    BY <1>2, <1>6, <2>2, BelowProp
  <2>4. b * (m * y) = m * (b * y)
    OBVIOUS
  <2> QED BY <1>1, <1>3, <2>2, <2>3, <2>4 DEF RowBytes
<1> QED BY <1>1, <1>3, <1>4, <1>5, <1>6

\* An element of an array.
LEMMA RowElement ==
  ASSUME LayoutInv, NEW T, NEW w, Typed(w, T), NEW i \in Nat, w.dim < Len(w.dims)
  PROVE  LET v == Element(w, i) IN
         /\ Typed(v, T) /\ v.type = w.type /\ v.dims = w.dims /\ v.dim = w.dim + 1
         /\ v.at = w.at + i * RowBytes(w, w.dim + 1)
<1>1. w \in Steps /\ w.dim + 1 \in 0..Len(w.dims) /\ w.dims \in Seq(Nat) /\ TypeIn(w.type, T)
  BY DEF Typed, Steps
<1>2. PICK r \in Int : r = RowBytes(w, w.dim + 1)
  BY <1>1, RowBytesProp
<1>3. PICK at \in Int : at = w.at + i * r
  <2>1. i * r \in Int /\ w.at \in Int
    BY <1>1 DEF Steps
  <2> QED BY <2>1
<1>4. Element(w, i) = [w EXCEPT !.dim = @ + 1, !.at = @ + i * r]
  BY <1>2 DEF Element
<1>5. PICK v : v = Element(w, i)
  OBVIOUS
<1>6. v = [w EXCEPT !.dim = w.dim + 1, !.at = at]
  BY <1>3, <1>4, <1>5
<1>7. w.dim + 1 \in Nat
  BY <1>1 DEF Steps
<1>8. v \in Steps /\ v.type = w.type /\ v.dims = w.dims /\ v.dim = w.dim + 1 /\ v.at = at
  BY <1>1, <1>6, <1>7 DEF Steps
<1> QED BY <1>1, <1>2, <1>3, <1>5, <1>8 DEF Typed

\* A member of a structure.
LEMMA MemberElement ==
  ASSUME LayoutInv, NEW T \in SUBSET Structs, Plain(T), NEW w, Typed(w, T), NEW i \in Nat,
         w.dim >= Len(w.dims), Fits(w, i)
  PROVE  LET v == Element(w, i)
             s == StructOf(w.type.tag)
             e == Elem(s, i + 1) IN
         /\ s \in T /\ i + 1 \in Places(s)
         /\ Typed(v, T) /\ v.type = e.type /\ v.dims = e.dims /\ v.dim = 0
         /\ v.at = w.at + e.value
<1>1. w \in Steps /\ ~(w.dim < Len(w.dims)) /\ w.dims \in Seq(Nat) /\ w.dim \in Nat /\ w.at \in Int
  BY DEF Typed, Steps
<1>2. PICK s : s = StructOf(w.type.tag)
  OBVIOUS
<1>3. s \in T /\ i < Len(c32_st_root[s].elem)
  BY <1>1, <1>2 DEF Fits, Typed, TypeIn
<1>4. i + 1 \in Places(s)
  BY <1>3, TablesProp DEF Places, LayoutInv
<1>5. PICK e : e = Elem(s, i + 1)
  OBVIOUS
<1>6. e \in Elems /\ TypeIn(e.type, T)
  BY <1>3, <1>4, <1>5, PlainProp DEF PlainMember
<1>7. Element(w, i) = [type |-> e.type, dims |-> e.dims, dim |-> 0, at |-> w.at + e.value]
  BY <1>1, <1>2, <1>5 DEF Element, Elem
<1>8. PICK at \in Int : at = w.at + e.value
  BY <1>1, <1>6 DEF Elems
<1>9. e.type \in Types /\ e.dims \in Seq(Nat)
  BY <1>6 DEF Elems
<1>10. PICK v : v = Element(w, i)
  OBVIOUS
<1>11. v \in Steps /\ v.type = e.type /\ v.dims = e.dims /\ v.dim = 0 /\ v.at = at
  BY <1>7, <1>8, <1>9, <1>10 DEF Steps
<1> QED BY <1>2, <1>3, <1>4, <1>5, <1>6, <1>8, <1>9, <1>10, <1>11 DEF Typed

\* The first k of a path.
Upto(path, k) == [l \in 1..k |-> path[l]]

\* There is what each part of the path names.
Fitting(path) == \A k \in 0..Len(path) - 1 : Fits(Walk(Upto(path, k)), path[k + 1])

\* A path that is not empty has a last part.
LEMMA LastPart ==
  ASSUME NEW path \in Seq(Nat), path # <<>>
  PROVE  \E front \in Seq(Nat), i \in Nat :
           /\ path = Append(front, i) /\ Len(path) = Len(front) + 1
           /\ front = Front(path) /\ i = Last(path)
<1>1. PICK n \in Nat : n + 1 = Len(path)
  <2>1. Len(path) \in Nat \ {0}
    OBVIOUS
  <2>2. Len(path) - 1 \in Nat /\ (Len(path) - 1) + 1 = Len(path)
    BY <2>1
  <2> QED BY <2>2
<1>2. PICK front, i : front = Front(path) /\ i = Last(path)
  OBVIOUS
<1>3. front = [k \in 1..n |-> path[k]] /\ i = path[n + 1]
  <2>1. Len(path) - 1 = n
    BY <1>1
  <2> QED BY <1>1, <1>2, <2>1 DEF Front, Last
<1>4. front \in Seq(Nat) /\ Len(front) = n /\ i \in Nat
  BY <1>1, <1>3
<1>5. path = Append(front, i)
  BY <1>1, <1>3, <1>4
<1> QED BY <1>1, <1>2, <1>4, <1>5

\* A path with one more part.
LEMMA FittingNext ==
  ASSUME NEW path \in Seq(Nat), NEW i \in Nat
  PROVE  Fitting(Append(path, i)) <=> Fitting(path) /\ Fits(Walk(path), i)
<1>1. PICK n, new : n = Len(path) /\ new = Append(path, i)
  OBVIOUS
<1>2. n \in Nat /\ Len(new) = n + 1 /\ new[n + 1] = i /\ \A k \in 1..n : new[k] = path[k]
  BY <1>1
<1>3. Upto(new, n) = path
  BY <1>1, <1>2 DEF Upto
<1>4. \A k \in 0..n-1 : Upto(new, k) = Upto(path, k) /\ new[k + 1] = path[k + 1]
  <2>1. \A k \in 0..n-1 : k + 1 \in 1..n /\ 1..k \in SUBSET (1..n)
    BY <1>2
  <2> QED BY <1>2, <2>1 DEF Upto
<1> DEFINE P(k) == Fits(Walk(Upto(path, k)), path[k + 1])
           Q(k) == Fits(Walk(Upto(new, k)), new[k + 1])
<1>5. /\ Fitting(path) <=> \A k \in 0..n-1 : P(k)
      /\ Fitting(new) <=> \A k \in 0..n : Q(k)
  <2>1. n + 1 - 1 = n
    BY <1>2
  <2> QED BY <1>1, <1>2, <2>1 DEF Fitting
<1>6. \A k \in 0..n-1 : P(k) <=> Q(k)
  BY <1>4, Zenon
<1>7. Q(n) <=> Fits(Walk(path), i)
  BY <1>2, <1>3, Zenon
<1> HIDE DEF P, Q
<1>8. (\A k \in 0..n : Q(k)) <=> (\A k \in 0..n-1 : Q(k)) /\ Q(n)
  <2>1. \A k \in 0..n : k \in 0..n-1 \/ k = n
    BY <1>2
  <2>2. n \in 0..n /\ \A k \in 0..n-1 : k \in 0..n
    BY <1>2
  <2> QED BY <2>1, <2>2
<1>9. Fitting(new) <=> Fitting(path) /\ Fits(Walk(path), i)
  BY <1>5, <1>6, <1>7, <1>8
<1> QED BY <1>1, <1>9

\* Without an element there is nothing to fit.
LEMMA FittingFirst == Fitting(<<>>)
  BY DEF Fitting
FittingRule ==
  /\ Fitting(<<>>)
  /\ \A path \in Seq(Nat), i \in Nat : Fitting(Append(path, i)) <=> Fitting(path) /\ Fits(Walk(path), i)

\* A path fits when the path in front of its last element does and there is that element.
LEMMA FittingGoesOn == FittingRule
  BY FittingNext, FittingFirst DEF FittingRule

\* So it does in the next state.
LEMMA FittingGoesOnThen == FittingRule'
  BY FittingGoesOn, PTL

\* The variable is of the type, with its dimensions.
ObjectIn(T) == TypeIn(var.type, T) /\ var.dims \in Seq(Nat)

\* Its walk begins at a place of that type.
LEMMA StartTyped ==
  ASSUME NEW T, ObjectIn(T)
  PROVE  Typed(Start, T) /\ Start.type = var.type /\ Start.dims = var.dims /\ Start.dim = 0 /\ Start.at = 0
BY DEF ObjectIn, Typed, Start, TypeIn, Steps

\* A path that fits leads to something typed.
LEMMA WalkTyped ==
  ASSUME LayoutInv, NEW T \in SUBSET Structs, Plain(T), ObjectIn(T),
         NEW path \in Seq(Nat), Fitting(path)
  PROVE  Typed(Walk(path), T)
<1> DEFINE S == {n \in Nat : \A q \in Seq(Nat) : Len(q) = n /\ Fitting(q) => Typed(Walk(q), T)}
<1>1. 0 \in S
  <2>1. \A q \in Seq(Nat) : Len(q) = 0 => q = <<>>
    OBVIOUS
  <2> QED BY <2>1, StartTyped, WalkGoesOn DEF WalkRule
<1>2. ASSUME NEW n \in S PROVE n + 1 \in S
  <2>1. SUFFICES ASSUME NEW q \in Seq(Nat), Len(q) = n + 1, Fitting(q) PROVE Typed(Walk(q), T)
    OBVIOUS
  <2>2. PICK front \in Seq(Nat), i \in Nat : q = Append(front, i) /\ Len(q) = Len(front) + 1
    <3>1. q # <<>>
      BY <2>1
    <3> QED BY <3>1, LastPart
  <2>3. Len(front) = n
    BY <2>1, <2>2
  <2>4. Fitting(front) /\ Fits(Walk(front), i)
    BY <2>1, <2>2, FittingGoesOn DEF FittingRule
  <2>5. PICK w : w = Walk(front)
    OBVIOUS
  <2>6. Typed(w, T) /\ Fits(w, i)
    BY <2>3, <2>4, <2>5
  <2>7. Walk(q) = Element(w, i)
    BY <2>2, <2>5, WalkGoesOn DEF WalkRule
  <2>8. CASE w.dim < Len(w.dims)
    BY <2>6, <2>7, <2>8, RowElement
  <2>9. CASE ~(w.dim < Len(w.dims))
    <3>1. w.dim >= Len(w.dims)
      BY <2>6, <2>9 DEF Typed, Steps
    <3> QED BY <2>6, <2>7, <3>1, MemberElement
  <2> QED BY <2>8, <2>9
<1>3. S = Nat
  <2>1. S \in SUBSET Nat
    OBVIOUS
  <2> HIDE DEF S
  <2> QED BY <1>1, <1>2, <2>1, SetInduction
<1>4. Len(path) \in S
  BY <1>3
<1> QED BY <1>4

\* A step that may give the variable other dimensions, and nothing else of it or of
\* the structures in T.
Keeps(T) ==
  /\ LayoutInv /\ LayoutInv' /\ Steady /\ Growing = 0
  /\ T \in SUBSET Structs /\ Plain(T) /\ Plain(T)' /\ \A s \in T : c32_st_root'[s] = c32_st_root[s]
  /\ ObjectIn(T) /\ var'.type = var.type
  /\ var'.dims \in Seq(Nat) /\ Len(var'.dims) = Len(var.dims)

\* The path goes to the first element of every dimension that has one that changes below.
Unmoved(path) ==
  \A t \in 1..Len(var.dims) :
    var'.dims[t] # var.dims[t] => \A j \in 1..Len(path) : j < t => path[j] = 0

\* Then it leads to the same place.
SamePlace(path) ==
  LET w == Walk(path)
      v == Walk(path)'
  IN /\ v.type = w.type /\ v.dim = w.dim /\ v.at = w.at /\ Len(v.dims) = Len(w.dims)
     /\ IF Len(path) <= Len(var.dims)
          THEN /\ w.type = var.type /\ w.dims = var.dims /\ w.dim = Len(path)
               /\ v = [w EXCEPT !.dims = var'.dims]
          ELSE v = w

\* One element further.
LEMMA SameElement ==
  ASSUME NEW T, Keeps(T), NEW path \in Seq(Nat), NEW i \in Nat, SamePlace(path),
         Typed(Walk(path), T), Fits(Walk(path), i), Unmoved(Append(path, i))
  PROVE  SamePlace(Append(path, i)) /\ Fits(Walk(path), i)'
<1>1. PICK w, v, n : w = Walk(path) /\ v = Walk(path)' /\ n = Len(path)
  OBVIOUS
<1>2. PICK new : new = Append(path, i)
  OBVIOUS
<1>3. n \in Nat /\ Len(new) = n + 1 /\ new[n + 1] = i
  BY <1>1, <1>2
<1>4. /\ Typed(w, T) /\ Fits(w, i) /\ v.type = w.type /\ v.dim = w.dim /\ v.at = w.at
      /\ Len(v.dims) = Len(w.dims)
      /\ n <= Len(var.dims) => /\ w.type = var.type /\ w.dims = var.dims /\ w.dim = n
                               /\ v = [w EXCEPT !.dims = var'.dims]
      /\ n > Len(var.dims) => v = w
  BY <1>1, <1>3 DEF SamePlace, Keeps, ObjectIn
<1>5. Walk(new) = Element(w, i) /\ Walk(new)' = Element(v, i)'
  BY <1>1, <1>2, WalkGoesOn, WalkGoesOnThen DEF WalkRule
<1>6. w \in Steps /\ w.dims \in Seq(Nat) /\ w.dim \in 0..Len(w.dims) /\ w.type \in Types
      /\ TypeIn(w.type, T) /\ Len(var.dims) \in Nat
  BY <1>4 DEF Typed, Steps, Keeps, ObjectIn
<1>7. /\ Bytes(w.type)' = Bytes(w.type)
      /\ w.type.base = "struct" => /\ StructOf(w.type.tag)' = StructOf(w.type.tag)
                                   /\ StructOf(w.type.tag) \in T
  <2>1. w.type.base = "struct" => Known(w.type.tag) /\ StructOf(w.type.tag) \in T
    BY <1>6 DEF TypeIn
  <2> QED BY <1>6, <2>1, BytesSteady DEF Keeps
<1>8. Fits(w, i)' /\ Fits(v, i)'
  BY <1>4, <1>7 DEF Fits, Keeps
<1>9. CASE w.dim < Len(w.dims)
  <2>0. w.dim + 1 \in 0..Len(w.dims) /\ LayoutInv
    BY <1>6, <1>9 DEF Keeps
  <2>1. PICK r \in Int : r = RowBytes(w, w.dim + 1)
    BY <1>6, <2>0, RowBytesProp
  <2>2. Element(w, i) = [w EXCEPT !.dim = @ + 1, !.at = @ + i * r]
    BY <1>9, <2>1 DEF Element
  <2>3. Element(v, i)' = [v EXCEPT !.dim = @ + 1, !.at = @ + i * RowBytes(v, v.dim + 1)']
    BY <1>4, <1>9 DEF Element
  <2>4. i * RowBytes(v, v.dim + 1)' = i * r
    <3>1. RowBytes(v, v.dim + 1)' = Bytes(w.type) * Below(v.dims, w.dim + 1)
      BY <1>4, <1>7 DEF RowBytes
    <3>2. r = Bytes(w.type) * Below(w.dims, w.dim + 1)
      BY <2>1 DEF RowBytes
    <3>3. CASE v.dims = w.dims
      BY <3>1, <3>2, <3>3
    <3>4. CASE v.dims # w.dims
      <4>1. n <= Len(var.dims) /\ w.dim = n /\ w.dims = var.dims /\ v.dims = var'.dims
        BY <1>3, <1>4, <1>6, <3>4 DEF Steps
      <4>2. v.dims \in Seq(Nat) /\ Len(v.dims) = Len(w.dims) /\ n + 1 \in 0..Len(w.dims)
        BY <1>3, <1>9, <4>1 DEF Keeps
      <4>3. CASE \A t \in (n + 1) + 1..Len(w.dims) : v.dims[t] = w.dims[t]
        <5>1. Below(v.dims, n + 1) = Below(w.dims, n + 1)
          BY <1>6, <4>2, <4>3, BelowSame
        <5> QED BY <3>1, <3>2, <4>1, <5>1
      <4>4. CASE \E t \in (n + 1) + 1..Len(w.dims) : v.dims[t] # w.dims[t]
        <5>1. PICK t \in (n + 1) + 1..Len(w.dims) : v.dims[t] # w.dims[t]
          BY <4>4
        <5>2. t \in 1..Len(var.dims) /\ n + 1 < t /\ n + 1 \in 1..Len(new)
          BY <1>3, <4>1, <5>1
        <5>3. i = 0
          BY <1>2, <1>3, <4>1, <5>1, <5>2 DEF Unmoved
        <5>4. PICK x, y \in Nat : x = Below(v.dims, n + 1) /\ y = Below(w.dims, n + 1)
          BY <1>6, <4>2, BelowProp
        <5>5. PICK b \in Int : b = Bytes(w.type)
          <6>1. w.type.base = "struct" => Known(w.type.tag)
            BY <1>6 DEF TypeIn
          <6> QED BY <1>6, <6>1, BytesSteady DEF Keeps
        <5>6. 0 * (b * x) = 0 /\ 0 * (b * y) = 0
          OBVIOUS
        <5> QED BY <3>1, <3>2, <4>1, <5>3, <5>4, <5>5, <5>6
      <4> QED BY <4>3, <4>4
    <3> QED BY <3>3, <3>4
  <2>5. PICK a \in Int : a = w.at + i * r
    <3>1. i * r \in Int
      OBVIOUS
    <3> QED BY <1>6, <3>1 DEF Steps
  <2>6. Element(w, i) = [w EXCEPT !.dim = w.dim + 1, !.at = a]
    BY <2>2, <2>5
  <2>7. Element(v, i)' = [v EXCEPT !.dim = w.dim + 1, !.at = a]
    BY <1>4, <2>3, <2>4, <2>5
  <2>8. CASE n <= Len(var.dims)
    <3>1. n + 1 <= Len(var.dims) /\ w.dims = var.dims /\ w.type = var.type /\ w.dim = n
      BY <1>3, <1>4, <1>6, <1>9, <2>8
    <3>2. v = [w EXCEPT !.dims = var'.dims] /\ Len(v.dims) = Len(w.dims)
      BY <1>4, <2>8
    <3>3. PICK x, y : x = Element(w, i) /\ y = Element(v, i)'
      OBVIOUS
    <3>4. x = [w EXCEPT !.dim = n + 1, !.at = a] /\ y = [v EXCEPT !.dim = n + 1, !.at = a]
      BY <2>6, <2>7, <3>1, <3>3
    <3>5. x.type = var.type /\ x.dims = var.dims /\ x.dim = n + 1 /\ x.at = a
      BY <1>6, <3>1, <3>4 DEF Steps
    <3>6. y = [x EXCEPT !.dims = var'.dims]
      BY <1>6, <3>2, <3>4 DEF Steps
    <3>7. y.type = x.type /\ y.dims = var'.dims /\ y.dim = x.dim /\ y.at = x.at
      <4>1. x \in [type : {x.type}, dims : {x.dims}, dim : {x.dim}, at : {x.at}]
        BY <1>6, <3>4 DEF Steps
      <4> QED BY <3>6, <4>1
    <3>8. Len(y.dims) = Len(x.dims)
      BY <3>5, <3>7 DEF Keeps
    <3>9. x = Walk(new) /\ y = Walk(new)'
      BY <1>5, <3>3
    <3> QED BY <1>2, <1>3, <1>8, <1>1, <3>1, <3>5, <3>6, <3>7, <3>8, <3>9 DEF SamePlace, Fits
  <2>9. CASE n > Len(var.dims)
    <3>1. v = w
      BY <1>4, <2>9
    <3>2. Walk(new)' = Walk(new) /\ ~(n + 1 <= Len(var.dims))
      BY <1>3, <1>5, <1>6, <2>6, <2>7, <2>9, <3>1
    <3> QED BY <1>1, <1>2, <1>3, <1>8, <3>2 DEF SamePlace, Fits
  <2> QED BY <1>3, <1>6, <2>8, <2>9
<1>10. CASE ~(w.dim < Len(w.dims))
  <2>1. PICK s : s = StructOf(w.type.tag)
    OBVIOUS
  <2>2. s \in T /\ StructOf(w.type.tag)' = s /\ c32_st_root'[s] = c32_st_root[s]
    BY <1>4, <1>7, <1>10, <2>1 DEF Fits, Keeps
  <2>3. Element(v, i)' = Element(w, i)
    BY <1>4, <1>10, <2>1, <2>2 DEF Element
  <2>4. ~(n + 1 <= Len(var.dims))
    BY <1>3, <1>4, <1>6, <1>10
  <2>5. Walk(new)' = Walk(new)
    BY <1>5, <2>3
  <2> QED BY <1>1, <1>2, <1>3, <1>8, <2>4, <2>5 DEF SamePlace, Fits
<1> QED BY <1>9, <1>10

\* A step leads each path to where it led.
LEMMA WalkKept ==
  ASSUME NEW T, Keeps(T), NEW path \in Seq(Nat), Fitting(path), Unmoved(path)
  PROVE  SamePlace(path) /\ Fitting(path)' /\ Typed(Walk(path), T)
<1> DEFINE Goal(q) == SamePlace(q) /\ Fitting(q)' /\ Typed(Walk(q), T)
           S == {n \in Nat : \A q \in Seq(Nat) : Len(q) = n /\ Fitting(q) /\ Unmoved(q) => Goal(q)}
<1>1. 0 \in S
  <2>1. \A q \in Seq(Nat) : Len(q) = 0 => q = <<>>
    OBVIOUS
  <2>2. Walk(<<>>) = Start /\ Walk(<<>>)' = Start' /\ Fitting(<<>>)'
    BY WalkGoesOn, WalkGoesOnThen, FittingGoesOnThen DEF WalkRule, FittingRule
  <2>3. Typed(Start, T)
    BY StartTyped DEF Keeps
  <2>4. SamePlace(<<>>)
    <3>1. Len(<<>>) = 0 /\ Len(var.dims) \in Nat
      BY DEF Keeps, ObjectIn
    <3>2. Start' = [type |-> var.type, dims |-> var'.dims, dim |-> 0, at |-> 0]
      BY DEF Start, Keeps
    <3>3. Start' = [Start EXCEPT !.dims = var'.dims]
      BY <3>2 DEF Start
    <3>4. /\ Start.type = var.type /\ Start.dims = var.dims /\ Start.dim = 0
          /\ Start'.type = var.type /\ Start'.dims = var'.dims /\ Start'.dim = 0
          /\ Start.at = 0 /\ Start'.at = 0 /\ Len(var'.dims) = Len(var.dims)
      BY <3>2 DEF Start, Keeps
    <3>5. PICK w, v : w = Start /\ v = Start'
      OBVIOUS
    <3> HIDE DEF Start
    <3>6. /\ v.type = w.type /\ v.dim = w.dim /\ v.at = w.at /\ Len(v.dims) = Len(w.dims)
          /\ w.type = var.type /\ w.dims = var.dims /\ w.dim = 0 /\ v = [w EXCEPT !.dims = var'.dims]
      BY <3>3, <3>4, <3>5
    <3>7. w = Walk(<<>>) /\ v = Walk(<<>>)'
      BY <2>2, <3>5
    <3>8. 0 <= Len(var.dims)
      BY <3>1
    <3> QED BY <3>1, <3>6, <3>7, <3>8 DEF SamePlace
  <2>5. Goal(<<>>)
    BY <2>2, <2>3, <2>4
  <2> HIDE DEF Goal
  <2> QED BY <2>1, <2>5
<1>2. ASSUME NEW n \in S PROVE n + 1 \in S
  <2>1. SUFFICES ASSUME NEW q \in Seq(Nat), Len(q) = n + 1, Fitting(q), Unmoved(q) PROVE Goal(q)
    OBVIOUS
  <2>2. PICK front \in Seq(Nat), i \in Nat : q = Append(front, i) /\ Len(q) = Len(front) + 1
    <3>1. q # <<>>
      BY <2>1
    <3> QED BY <3>1, LastPart
  <2>3. Len(front) = n /\ \A j \in 1..n : j \in 1..n+1 /\ q[j] = front[j]
    BY <2>1, <2>2
  <2>4. Fitting(front) /\ Fits(Walk(front), i)
    BY <2>1, <2>2, FittingGoesOn DEF FittingRule
  <2>5. Unmoved(front)
    BY <2>1, <2>3 DEF Unmoved
  <2>6. SamePlace(front) /\ Fitting(front)' /\ Typed(Walk(front), T)
    BY <2>3, <2>4, <2>5
  <2>7. SamePlace(q) /\ Fits(Walk(front), i)'
    BY <2>1, <2>2, <2>4, <2>6, SameElement
  <2>8. Fitting(q)'
    BY <2>2, <2>6, <2>7, FittingGoesOnThen DEF FittingRule
  <2>9. Typed(Walk(q), T)
    BY <2>1, WalkTyped DEF Keeps
  <2> QED BY <2>7, <2>8, <2>9
<1>3. S = Nat
  <2>1. S \in SUBSET Nat
    OBVIOUS
  <2> HIDE DEF S
  <2> QED BY <1>1, <1>2, <2>1, SetInduction
<1>4. Len(path) \in S
  BY <1>3
<1> QED BY <1>4

------------------------------------------------------------------------------
\* The braces that are open

\* The element that is read in each of the j outermost braces.
Prefix(j) == [k \in 1..j |-> frames[k].i]
Depth == Len(frames)

\* The braces j are those of the symbol there, and there is the element that is read.
BraceInv(j) ==
  LET f == frames[j]
      u == Under(j - 1)
      sym == Sym(u.ref)
  IN IF f.kind = "row"
       THEN f.dim <= Len(sym.dims) /\ (sym.dims[f.dim] # 0 => f.i < sym.dims[f.dim])
       ELSE /\ u.dim = Len(sym.dims) + 1 /\ sym.type.base = "struct"
            /\ f.ref.s = StructOf(sym.type.tag) /\ f.i < Len(c32_st_root[f.ref.s].elem)

\* What the parser is at within the j outermost braces is what their elements lead to.
Cursor(j, T) ==
  LET w == Walk(Prefix(j))
      u == Under(j)
      sym == Sym(u.ref)
  IN /\ Prefix(j) \in Seq(Nat) /\ Len(Prefix(j)) = j
     /\ Fitting(Prefix(j)) /\ Typed(w, T)
     /\ w.type = sym.type /\ w.dims = sym.dims /\ u.dim = w.dim + 1
     /\ IF u.ref = Object THEN w.dim = j /\ j <= Len(var.dims)
        ELSE IsMember(u.ref) /\ u.ref.s \in T /\ j > Len(var.dims)

\* What is known of a brace.
LEMMA FrameProp ==
  ASSUME LayoutInv, NEW j \in 1..Depth
  PROVE  /\ Depth \in Nat /\ frames[j].i \in Nat /\ frames[j].dim \in Nat /\ RowInv(j)
         /\ frames[j].kind \in {"row", "struct"}
         /\ Prefix(j) = Append(Prefix(j - 1), frames[j].i)
<1>1. PICK R : frames \in Seq(FrameOf(R))
  BY DEF LayoutInv, FramesInv
<1>2. frames[j] \in FrameOf(R) /\ Depth \in Nat
  BY <1>1 DEF Depth
<1>3. Prefix(j) = Append(Prefix(j - 1), frames[j].i)
  <2>1. j \in Nat /\ j - 1 \in Nat /\ j - 1 + 1 = j
    BY <1>2
  <2>2. PICK m \in Nat : m = j - 1 /\ j = m + 1
    BY <2>1
  <2>3. [k \in 1..m+1 |-> frames[k].i] = Append([k \in 1..m |-> frames[k].i], frames[m+1].i)
    <3>1. [k \in 1..m |-> frames[k].i] \in Seq({frames[k].i : k \in 1..m})
      OBVIOUS
    <3>2. Len([k \in 1..m |-> frames[k].i]) = m
      OBVIOUS
    <3> QED BY <3>1, <3>2
  <2> QED BY <2>2, <2>3 DEF Prefix
<1>4. RowInv(j)
  BY DEF LayoutInv, FramesInv, Depth
<1> QED BY <1>2, <1>3, <1>4 DEF FrameOf

\* The braces that are open are where the path to them leads.
LEMMA CursorProp ==
  ASSUME LayoutInv, NEW T \in SUBSET Structs, Plain(T), ObjectIn(T),
         \A j \in 1..Depth : BraceInv(j), NEW n \in 0..Depth
  PROVE  Cursor(n, T)
<1>0. Depth \in Nat
  BY DEF Depth, LayoutInv, FramesInv
<1> DEFINE S == {j \in Nat : Cursor(j, T)}
<1>1. 0 \in S
  <2>1. Prefix(0) = <<>> /\ <<>> \in Seq(Nat) /\ Len(<<>>) = 0
    BY DEF Prefix
  <2>2. Walk(<<>>) = Start /\ Fitting(<<>>)
    BY WalkGoesOn, FittingGoesOn DEF WalkRule, FittingRule
  <2>3. /\ Typed(Start, T) /\ Start.type = var.type /\ Start.dims = var.dims /\ Start.dim = 0
        /\ Len(var.dims) \in Nat
    BY StartTyped DEF ObjectIn
  <2>4. Under(0).ref = Object /\ Under(0).dim = 1 /\ Sym(Object) = var
    BY DEF Under, Sym
  <2>6. PICK u, w : u = Under(0) /\ w = Walk(Prefix(0))
    OBVIOUS
  <2>7. w = Start /\ u.ref = Object /\ u.dim = 1 /\ Sym(u.ref) = var
    BY <2>1, <2>2, <2>4, <2>6
  <2>8. Prefix(0) \in Seq(Nat) /\ Len(Prefix(0)) = 0 /\ Fitting(Prefix(0))
    BY <2>1, <2>2
  <2>5. Cursor(0, T)
    BY <2>3, <2>6, <2>7, <2>8 DEF Cursor
  <2> QED BY <2>5
<1>2. ASSUME NEW j \in 1..Depth, j - 1 \in S PROVE j \in S
  <2>1. /\ frames[j].i \in Nat /\ frames[j].dim \in Nat /\ RowInv(j)
        /\ frames[j].kind \in {"row", "struct"} /\ j \in Nat
    BY <1>0, FrameProp
  <2>2. PICK path, i, f : path = Prefix(j - 1) /\ i = frames[j].i /\ f = frames[j]
    OBVIOUS
  <2>3. PICK w, u, sym : w = Walk(path) /\ u = Under(j - 1) /\ sym = Sym(u.ref)
    OBVIOUS
  <2>4. /\ path \in Seq(Nat) /\ Len(path) = j - 1 /\ Fitting(path) /\ Typed(w, T)
        /\ w.type = sym.type /\ w.dims = sym.dims /\ u.dim = w.dim + 1
        /\ u.ref = Object => w.dim = j - 1 /\ j - 1 <= Len(var.dims)
        /\ u.ref # Object => IsMember(u.ref) /\ u.ref.s \in T /\ j - 1 > Len(var.dims)
    BY <1>2, <2>2, <2>3 DEF Cursor
  <2>5. Prefix(j) = Append(path, i) /\ i \in Nat
    BY <2>1, <2>2, FrameProp
  <2>6. Prefix(j) \in Seq(Nat) /\ Len(Prefix(j)) = j
    BY <2>1, <2>4, <2>5
  <2>7. Walk(Prefix(j)) = Element(w, i) /\ (Fits(w, i) => Fitting(Prefix(j)))
    BY <2>3, <2>4, <2>5, WalkGoesOn, FittingGoesOn DEF WalkRule, FittingRule
  <2>8. w \in Steps /\ w.dim \in Nat /\ w.dims \in Seq(Nat) /\ Len(w.dims) \in Nat /\ w.dim <= Len(w.dims)
        /\ Len(var.dims) \in Nat
    BY <2>4 DEF Typed, Steps, ObjectIn
  <2>9. BraceInv(j)
    OBVIOUS
  <2>10. CASE f.kind = "row"
    <3>1. f.ref = u.ref /\ f.dim = u.dim /\ f.dim <= Len(sym.dims)
      BY <2>1, <2>2, <2>3, <2>9, <2>10 DEF RowInv, BraceInv
    <3>2. w.dim < Len(w.dims)
      BY <2>4, <2>8, <3>1
    <3>3. PICK v : v = Element(w, i)
      OBVIOUS
    <3>4. Typed(v, T) /\ v.type = w.type /\ v.dims = w.dims /\ v.dim = w.dim + 1
      BY <2>4, <2>5, <3>2, <3>3, RowElement
    <3>5. j # 0 /\ Under(j) = [ref |-> f.ref, dim |-> f.dim + 1]
      BY <2>2, <2>10 DEF Under
    <3>6. Sym(Under(j).ref) = sym /\ Under(j).dim = v.dim + 1 /\ Under(j).ref = u.ref
      BY <2>3, <2>4, <3>1, <3>4, <3>5
    <3>7. Fits(w, i)
      BY <3>2 DEF Fits
    <3>8. u.ref = Object => v.dim = j /\ j <= Len(var.dims)
      <4>1. u.ref = Object => sym = var
        BY <2>3 DEF Sym
      <4> QED BY <2>1, <2>4, <2>8, <3>2, <3>4, <4>1
    <3>9. u.ref # Object => j > Len(var.dims)
      BY <2>1, <2>4, <2>8
    <3>10. Cursor(j, T)
      BY <2>4, <2>6, <2>7, <3>3, <3>4, <3>6, <3>7, <3>8, <3>9 DEF Cursor
    <3> QED BY <2>1, <3>10
  <2>11. CASE f.kind # "row"
    <3>1. /\ u.dim = Len(sym.dims) + 1 /\ sym.type.base = "struct"
          /\ f.ref.s = StructOf(sym.type.tag) /\ f.i < Len(c32_st_root[f.ref.s].elem)
      BY <2>2, <2>3, <2>9, <2>11 DEF BraceInv
    <3>2. w.dim >= Len(w.dims) /\ Fits(w, i) /\ w.dim = Len(w.dims)
      BY <2>2, <2>4, <2>8, <3>1 DEF Fits
    <3>3. PICK v, s : v = Element(w, i) /\ s = f.ref.s
      OBVIOUS
    <3>4. /\ s = StructOf(w.type.tag) /\ s \in T /\ i + 1 \in Places(s)
          /\ Typed(v, T) /\ v.type = Elem(s, i + 1).type /\ v.dims = Elem(s, i + 1).dims /\ v.dim = 0
      <4>1. s = StructOf(w.type.tag)
        BY <2>2, <2>4, <3>1, <3>3
      <4>2. Typed(w, T) /\ i \in Nat /\ w.dim >= Len(w.dims) /\ Fits(w, i)
        BY <2>4, <2>5, <3>2
      <4>3. /\ s \in T /\ i + 1 \in Places(s)
            /\ Typed(v, T) /\ v.type = Elem(s, i + 1).type /\ v.dims = Elem(s, i + 1).dims /\ v.dim = 0
        BY <3>3, <4>1, <4>2, MemberElement
      <4> QED BY <4>1, <4>3
    <3>5. j # 0 /\ Under(j) = [ref |-> [s |-> s, k |-> i + 1], dim |-> 1]
      BY <2>2, <2>11, <3>3 DEF Under
    <3>6. PICK ref : ref = Under(j).ref /\ ref.s = s /\ ref.k = i + 1 /\ Under(j).dim = 1
      BY <3>5
    <3>7. IsMember(ref) /\ ref # Object /\ Sym(ref) = Elem(s, i + 1)
      <4>1. IsMember(ref)
        BY <3>4, <3>6 DEF IsMember
      <4> QED BY <3>6, <4>1, SymProp DEF LayoutInv
    <3>8. j > Len(var.dims)
      <4>1. u.ref = Object => w.dims = var.dims
        BY <2>3, <2>4 DEF Sym
      <4> QED BY <2>1, <2>4, <2>8, <3>2, <4>1
    <3>9. Cursor(j, T)
      BY <2>6, <2>7, <3>2, <3>3, <3>4, <3>6, <3>7, <3>8 DEF Cursor
    <3> QED BY <2>1, <3>9
  <2> QED BY <2>10, <2>11
<1>3. S \in SUBSET Nat
  OBVIOUS
<1> HIDE DEF S
<1>4. n \in S
  BY <1>0, <1>1, <1>2, <1>3, UpTo
<1> QED BY <1>4 DEF S

------------------------------------------------------------------------------
\* The invariant

\* In PASS3 a declaration is being read.
Filling == pass = "PASS3" /\ mode # "none" /\ err = "none"

\* The variable, whose type is known.
Objects == [type : Types, dims : Seq(Nat), size : Int, at : Nat, init : BOOLEAN]
ObjectInv ==
  Filling \/ data # <<>> =>
    /\ var \in Objects /\ var.at < next
    /\ var.type.base = "struct" => Known(var.type.tag)
    /\ Filling /\ ~var.init => mode = "end"

\* The texts of strings take none of the variable's bytes.
StringsInv ==
  Filling => /\ strings \in Seq(Items)
             /\ \A k \in 1..Len(strings) : strings[k].bytes = 0 /\ strings[k].text

\* Each open brace goes one level into the type of what the brace around it has reached.
BracesInv ==
  Filling /\ PlainType(var.type) => \A j \in 1..Depth : BraceInv(j)

\* The path in front of the next token says which elements are read; behind a comma
\* the loop has still to go round.
Indexes ==
  IF mode = "comma" THEN [Prefix(Depth) EXCEPT ![Depth] = @ + 1] ELSE Prefix(Depth)
PathInv ==
  Filling /\ Separated(next) =>
    /\ mode \in {"after", "comma"} => frames # <<>>
    /\ mode = "after" => next - 1 > var.at /\ TokenAt(next - 1) \in {"num", "str", "}"}
    /\ Path(next) = Indexes

\* The text up to q separates and counts its elements.
Told(q) == Separated(q) /\ Counted(q)

\* As long as a dimension has no size, only the first row of each dimension in front
\* of it has been gone into.
FirstInv ==
  Filling /\ PlainType(var.type) =>
    \A t \in 1..Len(var.dims) : var.dims[t] = 0 =>
      \A q \in var.at+1..next : Told(q) => \A j \in 1..Len(Path(q)) : j < t => Path(q)[j] = 0

\* An element that is complete has all its sizes.
CountsInv ==
  Filling /\ PlainType(var.type) /\ Told(next) /\ var.init /\ mode \in {"after", "comma", "end"} =>
    \A t \in 1..Len(var.dims) : t > Depth => var.dims[t] # 0

\* What has been printed when w is complete, or is to be read.
Covered(w) == w.at + IF mode \in {"value", "more"} THEN 0 ELSE RowBytes(w, w.dim)

\* No address of a string is put into fewer bytes than it has.
Wide == \A tok \in var.at+1..next-1 : ~NarrowString(tok)

\* What has been printed ends where the element to be read begins, or where the one just
\* completed ends.
SumInv ==
  /\ Filling /\ PlainType(var.type) /\ Told(next)
  /\ mode = "end" => Wide
  /\ var.init \/ var.size = RowBytes(var, 0)
  => BytesOf(data, Len(data)) = Covered(Walk(Prefix(Depth)))

\* So many bytes behind those before are the value of w.
Placed(w, bytes, before) == w.dim = Len(w.dims) /\ bytes = Bytes(w.type) /\ before = w.at

\* Value k has been printed where it belongs.
Right(k) ==
  LET tok == data[k].tok IN
  tok # 0 /\ ~data[k].text =>
    /\ var.at < tok /\ tok < next
    /\ Told(tok) => /\ Fitting(Path(tok))
                    /\ ~NarrowString(tok) => Placed(Walk(Path(tok)), data[k].bytes, BytesOf(data, k - 1))

\* So have all values; PASS1 prints none.
PrintedInv ==
  /\ pass = "PASS1" => data = <<>>
  /\ PlainType(var.type) => data \in Seq(Items) /\ \A k \in 1..Len(data) : Right(k)

\* The inductive invariant.
InitialiserInv ==
  /\ LayoutInv /\ ObjectInv /\ StringsInv /\ BracesInv /\ PathInv
  /\ FirstInv /\ CountsInv /\ SumInv /\ PrintedInv

------------------------------------------------------------------------------
\* What every step keeps

\* The declaration goes on, or is over.
SameObject ==
  /\ var'.at = var.at /\ var'.type = var.type
  /\ var'.dims \in Seq(Nat) /\ Len(var'.dims) = Len(var.dims)
SameText ==
  /\ var.at \in Nat /\ next \in Nat /\ var.at < next
  /\ UNCHANGED unit /\ var'.at = var.at /\ next' \in {next, next + 1}

\* If its type is plain afterwards it was so before.
LEMMA PlainBefore ==
  ASSUME LayoutInv, LayoutInv', Steady, Growing = 0, var \in Objects,
         var.type.base = "struct" => Known(var.type.tag), SameObject, PlainType(var.type)'
  PROVE  \E T : Keeps(T)
<1>1. PICK type : type = var.type /\ type = var'.type
  BY DEF SameObject
<1>2. type \in Types /\ var.dims \in Seq(Nat) /\ (type.base = "struct" => Known(type.tag))
  BY <1>1 DEF Objects
<1>3. DOMAIN c32_st_root' = Structs'
  BY DEF LayoutInv, StateInv, Structs
<1>4. PICK T : /\ T \in SUBSET Structs' /\ Plain(T)'
               /\ type.base = "struct" => type.ptr = 0 /\ StructOf(type.tag)' \in T
  <2>1. CASE type.base = "struct"
    <3>1. type.ptr = 0 /\ \E T \in SUBSET DOMAIN c32_st_root' : StructOf(type.tag)' \in T /\ Plain(T)'
      BY <1>1, <2>1 DEF PlainType, StructOf
    <3> QED BY <1>3, <3>1
  <2>2. CASE type.base # "struct"
    <3>1. {} \in SUBSET Structs' /\ Plain({})'
      BY DEF Plain
    <3> QED BY <2>2, <3>1
  <2> QED BY <2>1, <2>2
<1>5. /\ T \in SUBSET Structs /\ Plain(T)
      /\ \A s \in T : c32_st_root'[s] = c32_st_root[s]
  BY <1>4, PlainBack
<1>6. type.base = "struct" => StructOf(type.tag)' = StructOf(type.tag)
  BY <1>2, BytesSteady
<1>7. TypeIn(type, T)
  BY <1>2, <1>4, <1>6 DEF TypeIn
<1> QED BY <1>1, <1>2, <1>4, <1>5, <1>7 DEF Keeps, ObjectIn, SameObject

\* An object that stays plain is plain.
LEMMA KeepsPlain ==
  ASSUME NEW T, Keeps(T)
  PROVE  PlainType(var.type)
<1>1. T \in SUBSET DOMAIN c32_st_root
  BY DEF Keeps, LayoutInv, StateInv, Structs
<1> QED BY <1>1 DEF Keeps, ObjectIn, TypeIn, PlainType

\* What the text says stays.
LEMMA TextKept ==
  ASSUME SameText, NEW q \in Nat, q > var.at
  PROVE  /\ Path(q)' = Path(q) /\ TokenAt(q)' = TokenAt(q)
         /\ Separated(q)' <=> Separated(q)
         /\ Counted(q)' <=> Counted(q)
         /\ Told(q)' <=> Told(q)
<1>1. \A p \in Nat : p > var.at => Path(p)' = Path(p)
  BY PathKept DEF SameText
<1>2. TokenAt(q)' = TokenAt(q)
  BY DEF TokenAt, SameText
<1>3. Separated(q)' <=> Separated(q)
  BY DEF Separated, TokenAt, SameText
<1>4. Counted(q)' <=> Counted(q)
  <2>1. \A p \in var.at+1..q : p \in Nat /\ p > var.at
    BY DEF SameText
  <2>2. \A p \in var.at+1..q : Path(p)' = Path(p)
    BY <1>1, <2>1
  <2>3. Counted(q)' <=> \A p \in var.at+1..q : \A k \in DOMAIN Path(p)' : Path(p)'[k] + 1 < USHRT
    BY DEF Counted, SameText
  <2> QED BY <2>2, <2>3 DEF Counted
<1> QED BY <1>1, <1>2, <1>3, <1>4 DEF Told

\* What it says in front of a token it says in front of those before.
LEMMA ToldBefore ==
  ASSUME var.at \in Nat, next \in Nat, var.at < next
  PROVE  /\ Separated(next + 1) =>
              /\ Separated(next) /\ TokenAt(next) # ";"
              /\ TokenAt(next) \in {"{", "num", "str"} =>
                   next = var.at + 1 \/ TokenAt(next - 1) \in {"{", ","}
         /\ Counted(next + 1) => Counted(next) /\ \A k \in DOMAIN Path(next) : Path(next)[k] + 1 < USHRT
         /\ Told(next + 1) => Told(next)
<1>1. next \in var.at+1..(next+1)-1 /\ \A q \in var.at+1..next-1 : q \in var.at+1..(next+1)-1
  OBVIOUS
<1>2. ASSUME Separated(next + 1)
      PROVE  /\ Separated(next) /\ TokenAt(next) # ";"
             /\ TokenAt(next) \in {"{", "num", "str"} =>
                  next = var.at + 1 \/ TokenAt(next - 1) \in {"{", ","}
  <2> DEFINE P(q) == /\ TokenAt(q) # ";"
                     /\ TokenAt(q) \in {"{", "num", "str"} =>
                          q = var.at + 1 \/ TokenAt(q - 1) \in {"{", ","}
  <2>1. \A q \in var.at+1..(next+1)-1 : P(q)
    BY <1>2, Zenon DEF Separated
  <2>2. P(next) /\ \A q \in var.at+1..next-1 : P(q)
    <3> HIDE DEF P
    <3> QED BY <1>1, <2>1
  <2> QED BY <2>2 DEF Separated
<1>3. next \in var.at+1..next+1 /\ \A q \in var.at+1..next : q \in var.at+1..next+1
  OBVIOUS
<1>4. Counted(next + 1) => Counted(next) /\ \A k \in DOMAIN Path(next) : Path(next)[k] + 1 < USHRT
  BY <1>3 DEF Counted
<1> QED BY <1>2, <1>4 DEF Told

\* A value stays where it belongs.
LEMMA RightKept ==
  ASSUME NEW T, Keeps(T), SameText, data \in Seq(Items), data' \in Seq(Items),
         NEW k \in 1..Len(data), Len(data) <= Len(data'), \A l \in 1..k : data'[l] = data[l],
         Right(k), Told(data[k].tok) => Unmoved(Path(data[k].tok))
  PROVE  Right(k)'
<1>1. PICK tok, text, bytes : tok = data[k].tok /\ text = data[k].text /\ bytes = data[k].bytes
  OBVIOUS
<1>2. data'[k].tok = tok /\ data'[k].text = text /\ data'[k].bytes = bytes /\ k \in Nat \ {0} /\ tok \in Int
  <2>1. k \in 1..k /\ k \in Nat \ {0} /\ data[k] \in Items
    OBVIOUS
  <2> QED BY <1>1, <2>1 DEF Items
<1>3. PICK path, before : path = Path(tok) /\ before = BytesOf(data, k - 1)
  OBVIOUS
<1>4. BytesOf(data, k - 1)' = before
  <2>1. k - 1 \in 0..Len(data) /\ k - 1 <= Len(data') /\ \A l \in 1..k-1 : l \in 1..k
    OBVIOUS
  <2>2. \A l \in 1..k-1 : data'[l] = data[l]
    BY <2>1
  <2>3. BytesOf(data', k - 1) = before
    BY <1>3, <2>1, <2>2, BytesOfSame
  <2>4. BytesOf(data, k - 1)' = BytesOf(data', k - 1)
    BY DEF BytesOf
  <2> QED BY <2>3, <2>4
<1>5. SUFFICES ASSUME tok # 0, ~text
               PROVE  /\ var'.at < tok /\ tok < next'
                      /\ Told(tok)' =>
                           /\ Fitting(path)' /\ Path(tok)' = path
                           /\ ~NarrowString(tok)' => Placed(Walk(path), bytes, before)'
  <2>1. data[k]'.tok = tok /\ data[k]'.text = text /\ data[k]'.bytes = bytes
    BY <1>2
  <2>2. Told(data[k].tok)' = Told(tok)' /\ Path(data[k].tok)' = Path(tok)'
        /\ NarrowString(data[k].tok)' = NarrowString(tok)'
    BY <2>1
  <2> QED BY <1>4, <1>5, <2>1, <2>2 DEF Right
<1>6. var.at < tok /\ tok < next /\ tok \in Nat /\ var'.at < tok /\ tok < next'
  BY <1>1, <1>2, <1>5 DEF Right, SameText
<1>7. SUFFICES ASSUME Told(tok)'
               PROVE  /\ Fitting(path)' /\ Path(tok)' = path
                      /\ ~NarrowString(tok)' => Placed(Walk(path), bytes, before)'
  BY <1>6
<1>8. Told(tok) /\ Path(tok)' = path /\ TokenAt(tok)' = TokenAt(tok) /\ path \in Seq(Nat)
  <2>1. Path(tok) \in Seq(Nat)
    BY <1>6, PathGoesOn DEF PathRule, SameText
  <2> QED BY <1>3, <1>6, <1>7, <2>1, TextKept
<1>9. Fitting(path) /\ Unmoved(path)
  BY <1>1, <1>3, <1>5, <1>8 DEF Right
<1>10. SamePlace(path) /\ Fitting(path)' /\ Typed(Walk(path), T)
  BY <1>8, <1>9, WalkKept
<1>11. PICK w, v : w = Walk(path) /\ v = Walk(path)'
  OBVIOUS
<1>12. v.type = w.type /\ v.dim = w.dim /\ v.at = w.at /\ Len(v.dims) = Len(w.dims)
  BY <1>10, <1>11 DEF SamePlace
<1>13. ASSUME ~NarrowString(tok)'
       PROVE  Placed(v, bytes, before)'
  <2>1. ~NarrowString(tok)
    <3>1. PICK type : type = var.type
      OBVIOUS
    <3>2. var'.type = type /\ type \in Types /\ (type.base = "struct" => Known(type.tag))
      BY <3>1 DEF Keeps, ObjectIn, TypeIn
    <3>3. Bytes(type)' = Bytes(type)
      BY <3>2, BytesSteady DEF Keeps
    <3>4. Bytes(var.type)' = Bytes(type)'
      BY <3>2
    <3>5. var.dims = <<>> => var'.dims = <<>>
      BY DEF Keeps
    <3> QED BY <1>8, <1>13, <3>1, <3>2, <3>3, <3>4, <3>5 DEF NarrowString, Simple
  <2>2. w.dim = Len(w.dims) /\ bytes = Bytes(w.type) /\ before = w.at
    BY <1>1, <1>3, <1>5, <1>8, <1>11, <2>1 DEF Right, Placed
  <2>3. Bytes(w.type)' = Bytes(w.type)
    <3>1. PICK type : type = w.type
      OBVIOUS
    <3>2. type \in Types /\ (type.base = "struct" => Known(type.tag))
      BY <1>10, <1>11, <3>1 DEF Typed, TypeIn
    <3> QED BY <3>1, <3>2, BytesSteady DEF Keeps
  <2> QED BY <1>12, <2>2, <2>3 DEF Placed
<1> QED BY <1>8, <1>10, <1>11, <1>13

------------------------------------------------------------------------------
\* The tokens of an initialiser

Opens(t) == t = "{"
Closes(t) == t = "}"
Parts(t) == t = ","

\* What a path makes of each.
LEMMA FollowCases ==
  ASSUME NEW path, NEW t
  PROVE  /\ Opens(t) => Follow(path, t) = Append(path, 0)
         /\ Closes(t) => Follow(path, t) = Front(path)
         /\ Parts(t) /\ path # <<>> => Follow(path, t) = Append(Front(path), Last(path) + 1)
         /\ ~Opens(t) /\ ~Closes(t) /\ (Parts(t) => path = <<>>) => Follow(path, t) = path
<1>1. Opens(t) => Follow(path, t) = Append(path, 0)
  BY Zenon DEF Opens, Follow
<1>2. Closes(t) => Follow(path, t) = Front(path)
  BY Zenon DEF Closes, Follow
<1>3. Parts(t) /\ path # <<>> => Follow(path, t) = Append(Front(path), Last(path) + 1)
  BY Zenon DEF Parts, Follow
<1>4. ~Opens(t) /\ ~Closes(t) /\ (Parts(t) => path = <<>>) => Follow(path, t) = path
  BY Zenon DEF Opens, Closes, Parts, Follow
<1> QED BY <1>1, <1>2, <1>3, <1>4

------------------------------------------------------------------------------
\* A step inside a declaration

\* What is known while a declaration is read.
LEMMA GoingProp ==
  ASSUME InitialiserInv, Filling
  PROVE  /\ open = 0 /\ Growing = 0 /\ FramesInv /\ LayoutInv /\ Depth \in Nat /\ next \in Nat
         /\ pass = "PASS3" /\ mode # "none" /\ err = "none"
         /\ var \in Objects /\ var.at \in Nat /\ var.at < next
         /\ var.dims \in Seq(Nat) /\ Len(var.dims) \in Nat /\ var.type \in Types
         /\ var.type.base = "struct" => Known(var.type.tag)
         /\ mode # "end" => var.init
         /\ Here = Under(Depth) /\ Here.dim \in Nat \ {0}
         /\ frames = <<>> <=> Depth = 0
         /\ Outermost(frames, Depth)
<1>1. LayoutInv /\ FramesInv /\ open = 0 /\ next \in Nat
  BY DEF InitialiserInv, LayoutInv, FramesInv, Filling, StateInv
<1>2. Growing = 0 /\ pass = "PASS3" /\ mode # "none" /\ err = "none"
  BY <1>1 DEF Growing, Filling
<1>3. /\ var \in Objects /\ var.at < next /\ (var.type.base = "struct" => Known(var.type.tag))
      /\ mode # "end" => var.init
  BY DEF InitialiserInv, ObjectInv
<1>4. var.at \in Nat /\ var.dims \in Seq(Nat) /\ Len(var.dims) \in Nat /\ var.type \in Types
  BY <1>3 DEF Objects
<1>5. Depth \in Nat /\ Here = Under(Depth) /\ Here.dim \in Nat \ {0}
  BY <1>1, PlaceNow DEF Depth
<1>6. Outermost(frames, Depth)
  BY <1>1, OutermostBraces DEF Depth
<1>7. frames = <<>> <=> Depth = 0
  BY <1>6 DEF Outermost
<1> QED BY <1>1, <1>2, <1>3, <1>4, <1>5, <1>6, <1>7

\* A token of the text is read again.
LEMMA TokenRead ==
  ASSUME InitialiserInv, Filling, NEW t, Scan(t)
  PROVE  next' = next + 1 /\ UNCHANGED unit /\ TokenAt(next) = t /\ At = next
<1>1. pass = "PASS3" /\ next \in Nat
  BY GoingProp
<1>2. next' = next + 1 /\ UNCHANGED unit /\ unit[next] = Token(t)
  BY <1>1 DEF Scan, Read
<1> QED BY <1>1, <1>2 DEF TokenAt, Token, At

\* A step inside a declaration: the variable stays what it is, and only a dimension
\* without a size may get one.
Advance ==
  /\ InitialiserInv /\ Filling /\ Filling' /\ mode # "end"
  /\ LayoutInv' /\ Steady
  /\ UNCHANGED unit /\ next' \in {next, next + 1}
  /\ var' \in Objects /\ var'.at = var.at /\ var'.type = var.type /\ var'.init = var.init
  /\ Len(var'.dims) = Len(var.dims)
  /\ \A t \in 1..Len(var.dims) : var'.dims[t] # var.dims[t] => var.dims[t] = 0

\* What is plain afterwards was so before, and the braces lead to their elements.
LEMMA AdvanceKeeps ==
  ASSUME Advance
  PROVE  /\ SameText /\ SameObject
         /\ PlainType(var.type)' =>
              \E T : /\ Keeps(T) /\ PlainType(var.type)
                     /\ \A j \in 1..Depth : BraceInv(j)
                     /\ \A n \in 0..Depth : Cursor(n, T)
<1>1. InitialiserInv /\ Filling
  BY DEF Advance
<1>2. SameText
  BY <1>1, GoingProp DEF Advance, SameText
<1>3. SameObject
  BY DEF Advance, SameObject, Objects
<1>4. ASSUME PlainType(var.type)'
      PROVE  \E T : /\ Keeps(T) /\ PlainType(var.type)
                    /\ \A j \in 1..Depth : BraceInv(j)
                    /\ \A n \in 0..Depth : Cursor(n, T)
  <2>1. PICK T : Keeps(T)
    BY <1>1, <1>3, <1>4, GoingProp, PlainBefore DEF Advance
  <2>2. PlainType(var.type)
    BY <2>1, KeepsPlain
  <2>3. \A j \in 1..Depth : BraceInv(j)
    BY <1>1, <2>2 DEF InitialiserInv, BracesInv
  <2>4. \A n \in 0..Depth : Cursor(n, T)
    BY <2>1, <2>3, CursorProp DEF Keeps
  <2> QED BY <2>1, <2>2, <2>3, <2>4
<1> QED BY <1>2, <1>3, <1>4

\* The variable stays known.
LEMMA AdvanceObject ==
  ASSUME Advance
  PROVE  ObjectInv'
<1>1. InitialiserInv /\ Filling /\ LayoutInv' /\ Steady /\ mode # "end"
  BY DEF Advance
<1>2. /\ LayoutInv /\ Growing = 0 /\ var.init /\ var.at < next /\ next \in Nat /\ var.at \in Nat
      /\ var.type \in Types /\ (var.type.base = "struct" => Known(var.type.tag))
  BY <1>1, GoingProp
<1>3. PICK type : type = var.type /\ type = var'.type
  BY DEF Advance
<1>4. type.base = "struct" => Known(type.tag)'
  BY <1>1, <1>2, <1>3, BytesSteady
<1>5. var'.type.base = "struct" => Known(var.type.tag)'
  <2>1. Known(var.type.tag)' <=> Known(type.tag)'
    BY <1>3 DEF Known
  <2> QED BY <1>3, <1>4, <2>1
<1>6. var' \in Objects /\ var'.at < next' /\ var'.init
  BY <1>2 DEF Advance
<1> QED BY <1>5, <1>6 DEF ObjectInv

\* What gets a size now has been gone into only by its first element.
LEMMA AdvanceUnmoved ==
  ASSUME Advance, PlainType(var.type), NEW q \in var.at+1..next, Told(q)
  PROVE  Unmoved(Path(q))
<1>1. FirstInv /\ Filling
  BY DEF Advance, InitialiserInv
<1> QED BY <1>1 DEF FirstInv, Unmoved, Advance

\* The values that have been printed stay where they belong.
LEMMA AdvanceRight ==
  ASSUME Advance, PlainType(var.type)', data' \in Seq(Items), Len(data) <= Len(data'),
         \A k \in 1..Len(data) : data'[k] = data[k]
  PROVE  \A k \in 1..Len(data) : Right(k)'
<1>1. PICK T : Keeps(T) /\ PlainType(var.type)
  BY AdvanceKeeps
<1>2. data \in Seq(Items) /\ \A k \in 1..Len(data) : Right(k)
  BY <1>1 DEF Advance, InitialiserInv, PrintedInv
<1>3. SUFFICES ASSUME NEW k \in 1..Len(data) PROVE Right(k)'
  OBVIOUS
<1>4. Right(k) /\ \A l \in 1..k : data'[l] = data[l]
  <2>1. \A l \in 1..k : l \in 1..Len(data)
    BY <1>2
  <2> QED BY <1>2, <2>1
<1>5. SameText
  BY AdvanceKeeps
<1>6. CASE data[k].tok = 0 \/ data[k].text
  <2>1. data[k]' = data[k]
    <3>1. k \in 1..k
      BY <1>2
    <3> QED BY <1>4, <3>1
  <2> QED BY <1>6, <2>1 DEF Right
<1>7. CASE data[k].tok # 0 /\ ~data[k].text
  <2>1. Told(data[k].tok) => Unmoved(Path(data[k].tok))
    <3>1. PICK tok : tok = data[k].tok
      OBVIOUS
    <3>2. tok \in Int
      <4>1. data[k] \in Items
        BY <1>2
      <4> QED BY <3>1, <4>1 DEF Items
    <3>3. var.at < tok /\ tok < next
      BY <1>4, <1>7, <3>1 DEF Right
    <3>4. tok \in var.at+1..next
      BY <1>5, <3>2, <3>3 DEF SameText
    <3> QED BY <1>1, <3>1, <3>4, AdvanceUnmoved
  <2> QED BY <1>1, <1>2, <1>4, <1>5, <2>1, RightKept
<1> QED BY <1>6, <1>7

\* Of a symbol that is a member of a plain structure nothing changes, of the variable
\* only dimensions.
LEMMA AdvanceSym ==
  ASSUME Advance, NEW T, Keeps(T), NEW j \in 0..Depth, Cursor(j, T), NEW ref, ref = Under(j).ref
  PROVE  /\ ref # Object => Sym(ref)' = Sym(ref) /\ \A t \in 1..Len(Sym(ref).dims) : Sym(ref).dims[t] # 0
         /\ ref = Object => Sym(ref)' = var' /\ Sym(ref) = var /\ Under(j).dim = j + 1 /\ j <= Len(var.dims)
<1>1. PICK u, w : u = Under(j) /\ w = Walk(Prefix(j))
  OBVIOUS
<1>2. ref = u.ref
  BY <1>1
<1>3. /\ u.dim = w.dim + 1
      /\ ref = Object => w.dim = j /\ j <= Len(var.dims)
      /\ ref # Object => IsMember(ref) /\ ref.s \in T
  BY <1>1, <1>2 DEF Cursor
<1>4. ASSUME ref # Object
      PROVE  Sym(ref)' = Sym(ref) /\ \A t \in 1..Len(Sym(ref).dims) : Sym(ref).dims[t] # 0
  <2>1. ref.s \in T /\ ref.k \in Places(ref.s)
    BY <1>3, <1>4 DEF IsMember
  <2>2. PICK e : e = Elem(ref.s, ref.k)
    OBVIOUS
  <2>3. Sym(ref) = e /\ Sym(ref)' = e
    <3>1. c32_st_root'[ref.s] = c32_st_root[ref.s] /\ Object' = Object
      BY <2>1 DEF Keeps, Object
    <3> QED BY <1>4, <2>2, <3>1 DEF Sym, Elem
  <2>4. \A t \in 1..Len(e.dims) : e.dims[t] # 0
    BY <2>1, <2>2, PlainProp DEF Keeps, PlainMember
  <2> QED BY <2>3, <2>4
<1>5. ref = Object => Sym(ref)' = var' /\ Sym(ref) = var
  BY DEF Sym, Object
<1> QED BY <1>1, <1>2, <1>3, <1>4, <1>5

\* A brace that is left as it was is still that of the symbol there.
LEMMA AdvanceBrace ==
  ASSUME Advance, PlainType(var.type)', NEW j \in 1..Depth, frames'[j] = frames[j],
         \A l \in 1..j-1 : frames'[l] = frames[l],
         j <= Len(var.dims) => var'.dims[j] = var.dims[j]
  PROVE  BraceInv(j)'
<1>1. PICK T : Keeps(T) /\ (\A l \in 1..Depth : BraceInv(l)) /\ \A n \in 0..Depth : Cursor(n, T)
  BY AdvanceKeeps
<1>2. Depth \in Nat
  BY GoingProp DEF Advance
<1>3. PICK m \in Nat : m = j - 1 /\ m \in 0..Depth /\ j = m + 1
  BY <1>2
<1>4. PICK u, f : u = Under(m) /\ f = frames[j]
  OBVIOUS
<1>5. PICK ref, sym, new : ref = u.ref /\ sym = Sym(ref) /\ new = Sym(ref)'
  OBVIOUS
<1>6. u = Under(m)' /\ Under(j - 1)' = u
  <2>1. m # 0 => m \in 1..j-1
    BY <1>3
  <2> QED BY <1>3, <1>4, <2>1 DEF Under
<1>7. /\ ref # Object => new = sym
      /\ ref = Object => new = var' /\ sym = var /\ u.dim = j /\ m <= Len(var.dims)
  BY <1>1, <1>3, <1>4, <1>5, AdvanceSym
<1>8. /\ new.type = sym.type /\ Len(new.dims) = Len(sym.dims)
      /\ u.dim \in 1..Len(sym.dims) => new.dims[u.dim] = sym.dims[u.dim]
  BY <1>7 DEF Advance
<1>9. CASE f.kind = "row"
  <2>1. f.dim <= Len(sym.dims) /\ (sym.dims[f.dim] # 0 => f.i < sym.dims[f.dim])
    BY <1>1, <1>3, <1>4, <1>5, <1>9 DEF BraceInv
  <2>2. f.dim = u.dim /\ f.dim \in Nat \ {0}
    <3>1. RowInv(j) /\ frames[j].dim \in Nat
      BY FrameProp, <1>1 DEF Keeps
    <3> QED BY <1>3, <1>4, <1>9, <3>1 DEF RowInv
  <2>3. Len(sym.dims) \in Nat
    <3>1. Cursor(m, T)
      BY <1>1, <1>3
    <3>2. Walk(Prefix(m)).dims \in Seq(Nat) /\ Walk(Prefix(m)).dims = sym.dims
      BY <1>4, <1>5, <3>1 DEF Cursor, Typed, Steps
    <3>3. sym.dims \in Seq(Nat)
      BY <3>2
    <3> QED BY <3>3
  <2>4. f.dim <= Len(new.dims) /\ (new.dims[f.dim] # 0 => f.i < new.dims[f.dim])
    BY <1>8, <2>1, <2>2, <2>3
  <2>5. frames'[j] = f /\ Under(j - 1)' = u /\ Sym(Under(j - 1).ref)' = new
    BY <1>4, <1>5, <1>6 DEF Sym
  <2> QED BY <1>9, <2>4, <2>5 DEF BraceInv
<1>10. CASE f.kind # "row"
  <2>1. /\ u.dim = Len(sym.dims) + 1 /\ sym.type.base = "struct"
        /\ f.ref.s = StructOf(sym.type.tag) /\ f.i < Len(c32_st_root[f.ref.s].elem)
    BY <1>1, <1>3, <1>4, <1>5, <1>10 DEF BraceInv
  <2>2. Cursor(m, T) /\ Walk(Prefix(m)).type = sym.type
    BY <1>1, <1>3, <1>4, <1>5 DEF Cursor
  <2>3. TypeIn(sym.type, T)
    BY <2>2 DEF Cursor, Typed
  <2>4. PICK type : type = sym.type
    OBVIOUS
  <2>5. /\ StructOf(type.tag)' = StructOf(type.tag) /\ StructOf(type.tag) \in T
        /\ c32_st_root'[StructOf(type.tag)] = c32_st_root[StructOf(type.tag)]
    <3>1. type \in Types /\ type.base = "struct" /\ Known(type.tag) /\ StructOf(type.tag) \in T
      BY <2>1, <2>3, <2>4 DEF TypeIn
    <3> QED BY <1>1, <3>1, BytesSteady DEF Keeps
  <2>6. frames'[j] = f /\ Under(j - 1)' = u /\ Sym(Under(j - 1).ref)' = new
    BY <1>4, <1>5, <1>6 DEF Sym
  <2>7. new.type = type /\ StructOf(Sym(Under(j - 1).ref).type.tag)' = StructOf(type.tag)
    <3>1. new.type = type
      BY <1>8, <2>4
    <3> QED BY <2>5, <2>6, <3>1 DEF StructOf
  <2>8. frames[j]'.ref.s = StructOf(type.tag) /\ c32_st_root'[f.ref.s] = c32_st_root[f.ref.s]
    BY <2>1, <2>4, <2>5, <2>6
  <2> QED BY <1>8, <1>10, <2>1, <2>4, <2>6, <2>7, <2>8 DEF BraceInv
<1> QED BY <1>9, <1>10

\* The text up to the next token, one token further.
LEMMA AdvanceText ==
  ASSUME Advance
  PROVE  /\ next' = next + 1 =>
              /\ Separated(next)' => Separated(next + 1)
              /\ Told(next)' => Told(next + 1) /\ Told(next)
              /\ Path(next)' = Follow(Path(next), TokenAt(next))
         /\ next' = next =>
              /\ Separated(next)' => Separated(next)
              /\ Told(next)' => Told(next)
              /\ Path(next)' = Path(next)
         /\ Path(next) \in Seq(Nat)
<1>1. SameText /\ next \in Nat /\ var.at \in Nat /\ var.at < next
  BY AdvanceKeeps, GoingProp DEF Advance
<1>2. PICK p : p = next'
  OBVIOUS
<1>3. p \in Nat /\ p > var.at /\ p \in {next, next + 1}
  BY <1>1, <1>2 DEF Advance
<1>4. /\ Path(p)' = Path(p) /\ (Separated(p)' <=> Separated(p)) /\ (Told(p)' <=> Told(p))
  BY <1>1, <1>3, TextKept
<1>5. /\ Path(next)' = Path(p)' /\ (Separated(next)' <=> Separated(p)') /\ (Told(next)' <=> Told(p)')
  BY <1>2 DEF Path, Separated, Told, Counted
<1>6. Path(next + 1) = Follow(Path(next), TokenAt(next)) /\ Path(next) \in Seq(Nat)
  BY <1>1, PathGoesOn DEF PathRule
<1>7. Told(next + 1) => Told(next)
  BY <1>1, ToldBefore
<1> QED BY <1>2, <1>3, <1>4, <1>5, <1>6, <1>7

\* A path that begins with zeros goes on so, unless a comma ends an element of them.
LEMMA FollowZeros ==
  ASSUME NEW path \in Seq(Nat), NEW t \in Nat, NEW tok, Parts(tok) => Len(path) >= t,
         \A j \in 1..Len(path) : j < t => path[j] = 0
  PROVE  \A j \in 1..Len(Follow(path, tok)) : j < t => Follow(path, tok)[j] = 0
<1>0. PICK n \in Nat : n = Len(path) /\ \A j \in 1..n : path[j] \in Nat
  OBVIOUS
<1>1. CASE Opens(tok)
  <2>1. PICK f : f = Follow(path, tok) /\ f = Append(path, 0)
    BY <1>1, FollowCases
  <2>2. Len(f) = n + 1 /\ f[n + 1] = 0 /\ \A j \in 1..n : f[j] = path[j]
    BY <1>0, <2>1
  <2>3. \A j \in 1..n+1 : j \in 1..n \/ j = n + 1
    BY <1>0
  <2> QED BY <1>0, <2>1, <2>2, <2>3
<1>2. CASE path = <<>> /\ ~Opens(tok)
  <2>1. Follow(path, tok) = Front(path) \/ Follow(path, tok) = path
    BY <1>2, FollowCases
  <2>2. Len(Front(path)) = 0
    BY <1>2 DEF Front
  <2>3. Len(path) = 0 /\ 1..0 = {}
    BY <1>2
  <2> QED BY <2>1, <2>2, <2>3
<1>3. CASE path # <<>> /\ ~Opens(tok)
  <2>1. PICK front \in Seq(Nat), i \in Nat :
          /\ path = Append(front, i) /\ Len(path) = Len(front) + 1
          /\ front = Front(path) /\ i = Last(path)
    BY <1>3, LastPart
  <2>2. PICK m \in Nat : m = Len(front) /\ n = m + 1
    BY <1>0, <2>1
  <2>3. \A j \in 1..m : j \in 1..n /\ front[j] = path[j]
    <3>1. \A j \in 1..m : j \in 1..m+1
      OBVIOUS
    <3>2. \A j \in 1..m : Append(front, i)[j] = front[j]
      BY <2>2
    <3> QED BY <2>1, <2>2, <3>1, <3>2
  <2>4. CASE Closes(tok)
    <3>1. Follow(path, tok) = front
      BY <2>1, <2>4, FollowCases
    <3> QED BY <1>0, <2>2, <2>3, <3>1
  <2>5. CASE Parts(tok)
    <3>1. PICK f : f = Follow(path, tok) /\ f = Append(front, i + 1)
      BY <1>3, <2>1, <2>5, FollowCases
    <3>2. Len(f) = n /\ \A j \in 1..m : f[j] = front[j]
      BY <2>2, <3>1
    <3>3. \A j \in 1..n : j < t => j \in 1..m
      BY <1>0, <2>2, <2>5
    <3> QED BY <1>0, <2>2, <2>3, <3>1, <3>2, <3>3
  <2>6. CASE ~Closes(tok) /\ ~Parts(tok)
    <3>1. Follow(path, tok) = path
      BY <1>3, <2>6, FollowCases
    <3> QED BY <3>1
  <2> QED BY <2>4, <2>5, <2>6
<1> QED BY <1>1, <1>2, <1>3

\* What is counted in the braces that are open.
LEMMA PrefixProp ==
  ASSUME InitialiserInv, Filling
  PROVE  /\ \A n \in 0..Depth : Prefix(n) \in Seq(Nat) /\ Len(Prefix(n)) = n
         /\ Indexes \in Seq(Nat) /\ Len(Indexes) = Depth
         /\ mode # "comma" => Indexes = Prefix(Depth)
<1>1. LayoutInv /\ Depth \in Nat
  BY GoingProp
<1>2. \A j \in 1..Depth : frames[j].i \in Nat
  BY <1>1, FrameProp
<1>3. ASSUME NEW n \in 0..Depth
      PROVE  Prefix(n) \in Seq(Nat) /\ Len(Prefix(n)) = n
  <2>1. n \in Nat /\ \A j \in 1..n : frames[j].i \in Nat
    BY <1>1, <1>2
  <2> QED BY <2>1 DEF Prefix
<1>4. Prefix(Depth) \in Seq(Nat) /\ Len(Prefix(Depth)) = Depth
  <2>1. Depth \in 0..Depth
    BY <1>1
  <2> QED BY <1>3, <2>1
<1>5. PICK path \in Seq(Nat) : path = Prefix(Depth) /\ Len(path) = Depth
  BY <1>4
<1>6. [path EXCEPT ![Depth] = @ + 1] \in Seq(Nat) /\ Len([path EXCEPT ![Depth] = @ + 1]) = Depth
  <2>1. CASE Depth = 0
    <3>1. 0 \notin DOMAIN path /\ path = [k \in DOMAIN path |-> path[k]]
      BY <1>5, <2>1
    <3>2. \A x : [path EXCEPT ![0] = x] = path
      BY <3>1
    <3>3. [path EXCEPT ![Depth] = @ + 1] = path
      BY <2>1, <3>2
    <3> QED BY <1>5, <3>3, Zenon
  <2>2. CASE Depth # 0
    <3>1. PICK n \in 1..Len(path), x \in Nat : n = Depth /\ x = path[n] + 1
      <4>1. Depth \in 1..Len(path) /\ path[Depth] \in Nat
        BY <1>1, <1>5, <2>2
      <4> QED BY <4>1
    <3>2. [path EXCEPT ![n] = x] \in Seq(Nat) /\ Len([path EXCEPT ![n] = x]) = Len(path)
      BY ExceptSeq
    <3>3. [path EXCEPT ![Depth] = @ + 1] = [path EXCEPT ![n] = x]
      BY <3>1
    <3>4. Len(path) = Depth
      BY <1>5
    <3> QED BY <3>2, <3>3, <3>4, Zenon
  <2> QED BY <2>1, <2>2
<1> QED BY <1>3, <1>4, <1>5, <1>6 DEF Indexes

\* A dimension that still has no size has been gone into only by its first row.
LEMMA AdvanceFirst ==
  ASSUME Advance, next' = next + 1 /\ Parts(TokenAt(next)) => mode = "after"
  PROVE  FirstInv'
<1>1. SameText /\ next \in Nat /\ var.at \in Nat /\ var.at < next
  BY AdvanceKeeps, GoingProp DEF Advance
<1>2. SUFFICES ASSUME PlainType(var.type)', NEW t \in 1..Len(var'.dims), var'.dims[t] = 0,
                      NEW q \in var'.at+1..next', Told(q)'
               PROVE  \A j \in 1..Len(Path(q)') : j < t => Path(q)'[j] = 0
  BY DEF FirstInv
<1>3. InitialiserInv /\ Filling /\ PlainType(var.type)
  BY <1>2, AdvanceKeeps DEF Advance
<1>4. t \in 1..Len(var.dims) /\ var.dims[t] = 0 /\ t \in Nat
  <2>1. PICK n \in Nat : n = Len(var.dims) /\ n = Len(var'.dims)
    BY <1>3, GoingProp DEF Advance
  <2>2. t \in 1..n /\ (var'.dims[t] # var.dims[t] => var.dims[t] = 0)
    BY <1>2, <2>1 DEF Advance
  <2> QED BY <1>2, <2>1, <2>2
<1>5. q \in Nat /\ q > var.at /\ (q \in var.at+1..next \/ (q = next + 1 /\ next' = next + 1))
  <2>1. PICK at, n, m \in Nat : at = var.at /\ at = var'.at /\ n = next /\ m = next'
    BY <1>1 DEF SameText
  <2>2. at < n /\ q \in at+1..m /\ (m = n \/ m = n + 1)
    BY <1>1, <1>2, <2>1 DEF SameText
  <2> QED BY <2>1, <2>2
<1>6. Path(q)' = Path(q) /\ Told(q)
  BY <1>1, <1>2, <1>5, TextKept
<1>7. CASE q \in var.at+1..next
  BY <1>3, <1>4, <1>6, <1>7 DEF InitialiserInv, FirstInv
<1>8. CASE q = next + 1 /\ next' = next + 1
  <2>1. Told(next) /\ next \in var.at+1..next
    <3>1. Told(next + 1) => Told(next)
      BY <1>1, ToldBefore
    <3>2. Told(next + 1)
      BY <1>6, <1>8
    <3> QED BY <1>1, <3>1, <3>2
  <2>2. \A j \in 1..Len(Path(next)) : j < t => Path(next)[j] = 0
    BY <1>3, <1>4, <2>1 DEF InitialiserInv, FirstInv
  <2>3. Path(q) = Follow(Path(next), TokenAt(next)) /\ Path(next) \in Seq(Nat)
    BY <1>1, <1>8, PathGoesOn DEF PathRule
  <2>4. ASSUME Parts(TokenAt(next)) PROVE Len(Path(next)) >= t
    <3>1. mode = "after" /\ Separated(next)
      BY <1>8, <2>1, <2>4 DEF Told
    <3>5. Len(Path(next)) \in Nat
      BY <2>3
    <3>2. Path(next) = Prefix(Depth) /\ Len(Path(next)) = Depth
      BY <1>3, <3>1, PrefixProp DEF InitialiserInv, PathInv
    <3>3. var.init /\ Depth \in Nat
      BY <1>3, <3>1, GoingProp
    <3>4. ~(t > Depth)
      BY <1>3, <1>4, <2>1, <3>1, <3>3 DEF InitialiserInv, CountsInv
    <3> QED BY <1>4, <3>2, <3>3, <3>4
  <2> QED BY <1>4, <1>6, <2>2, <2>3, <2>4, FollowZeros
<1> QED BY <1>5, <1>7, <1>8

------------------------------------------------------------------------------
\* Bytes

Total(items) == BytesOf(items, Len(items))

\* What is printed behind something else.
LEMMA TotalBoth ==
  ASSUME NEW a \in Seq(Items), NEW b \in Seq(Items)
  PROVE  /\ a \o b \in Seq(Items) /\ Len(a \o b) = Len(a) + Len(b) /\ Len(a) <= Len(a \o b)
         /\ \A k \in 1..Len(a) : (a \o b)[k] = a[k]
         /\ Total(a \o b) = Total(a) + Total(b)
         /\ Total(a) \in Int
<1>1. PICK n, m \in Nat : n = Len(a) /\ m = Len(b)
  OBVIOUS
<1>2. PICK c : c = a \o b
  OBVIOUS
<1>3. /\ c \in Seq(Items) /\ Len(c) = n + m /\ \A k \in 1..n : c[k] = a[k]
      /\ \A k \in 1..m : c[n + k] = b[k]
  BY <1>1, <1>2
<1> DEFINE S == {k \in Nat : BytesOf(c, n + k) = BytesOf(a, n) + BytesOf(b, k)}
<1>4. 0 \in S
  <2>1. n \in 0..Len(a) /\ 0 \in 0..Len(b) /\ n <= Len(c) /\ n + 0 = n
    BY <1>1, <1>3
  <2>2. BytesOf(c, n) = BytesOf(a, n)
    BY <1>1, <1>3, <2>1, BytesOfSame
  <2>3. BytesOf(b, 0) = 0 /\ BytesOf(a, n) \in Int
    BY <2>1, BytesOfProp
  <2> QED BY <2>1, <2>2, <2>3
<1>5. ASSUME NEW k \in 1..m, k - 1 \in S PROVE k \in S
  <2>1. /\ n + k \in 0..Len(c) /\ n + k > 0 /\ n + k - 1 = n + (k - 1)
        /\ k \in 0..Len(b) /\ k > 0 /\ k \in Nat /\ k - 1 \in 0..Len(b) /\ n \in 0..Len(a)
    BY <1>1, <1>3
  <2>2. BytesOf(c, n + k) = BytesOf(c, n + k - 1) + c[n + k].bytes
    BY <1>3, <2>1, BytesOfProp
  <2>3. BytesOf(b, k) = BytesOf(b, k - 1) + b[k].bytes /\ BytesOf(b, k - 1) \in Int
        /\ BytesOf(a, n) \in Int
    BY <2>1, BytesOfProp
  <2>4. BytesOf(c, n + (k - 1)) = BytesOf(a, n) + BytesOf(b, k - 1)
    BY <1>5
  <2>5. c[n + k] = b[k] /\ b[k].bytes \in Int
    <3>1. b[k] \in Items
      BY <1>1
    <3> QED BY <1>3, <3>1 DEF Items
  <2>6. PICK x, y, z \in Int : x = BytesOf(a, n) /\ y = BytesOf(b, k - 1) /\ z = b[k].bytes
    BY <2>3, <2>5
  <2>7. BytesOf(c, n + k - 1) = x + y
    BY <2>1, <2>4, <2>6
  <2>8. BytesOf(c, n + k) = x + y + z
    BY <2>2, <2>5, <2>6, <2>7
  <2>9. BytesOf(b, k) = y + z
    BY <2>3, <2>6
  <2>10. BytesOf(c, n + k) = BytesOf(a, n) + BytesOf(b, k)
    BY <2>6, <2>8, <2>9
  <2> QED BY <2>1, <2>10
<1>6. m \in S
  <2>1. S \in SUBSET Nat /\ m \in 0..m
    OBVIOUS
  <2> HIDE DEF S
  <2> QED BY <1>4, <1>5, <2>1, UpTo
<1>7. BytesOf(a, n) \in Int
  <2>1. n \in 0..Len(a)
    BY <1>1
  <2> QED BY <2>1, BytesOfProp
<1> QED BY <1>1, <1>2, <1>3, <1>6, <1>7 DEF Total

\* Nothing, and a single item.
LEMMA TotalEntry ==
  ASSUME NEW n \in Int, NEW tok \in Int, NEW text \in BOOLEAN, NEW e, e = Entry(n, tok, text)
  PROVE  /\ e \in Seq(Items) /\ Len(e) = 1 /\ Total(e) = n
         /\ e[1].bytes = n /\ e[1].tok = tok /\ e[1].text = text
<1>1. e = Entry(n, tok, text)
  OBVIOUS
<1>2. e \in Seq(Items) /\ Len(e) = 1 /\ e[1].bytes = n /\ e[1].tok = tok /\ e[1].text = text
  BY <1>1 DEF Entry, Items
<1>3. Total(e) = n
  <2>1. PICK i, j \in 0..Len(e) : i = 1 /\ j = 0 /\ i > 0 /\ i - 1 = j
    BY <1>2
  <2>2. BytesOf(e, i) = BytesOf(e, i - 1) + e[i].bytes /\ BytesOf(e, j) = 0
    BY <1>2, <2>1, BytesOfProp
  <2> QED BY <1>2, <2>1, <2>2 DEF Total
<1> QED BY <1>1, <1>2, <1>3

\* No items have no bytes.
LEMMA TotalNone == <<>> \in Seq(Items) /\ Len(<<>>) = 0 /\ Total(<<>>) = 0
<1>1. <<>> \in Seq(Items) /\ Len(<<>>) = 0 /\ 0 \in 0..0
  OBVIOUS
<1> QED BY <1>1, BytesOfProp DEF Total

\* What is filled up.
LEMMA TotalFill ==
  ASSUME NEW n \in Nat
  PROVE  Fill(n) \in Seq(Items) /\ Total(Fill(n)) = n /\ \A k \in 1..Len(Fill(n)) : Fill(n)[k].tok = 0
<1>1. CASE n > 0
  <2>1. PICK e : e = Fill(n) /\ e = Entry(n, 0, FALSE)
    BY <1>1 DEF Fill
  <2>0. n \in Int /\ 0 \in Int /\ FALSE \in BOOLEAN
    OBVIOUS
  <2>2. e \in Seq(Items) /\ Len(e) = 1 /\ Total(e) = n /\ e[1].tok = 0
    <3>1. \A text \in BOOLEAN : \A f : f = Entry(n, 0, text) =>
            f \in Seq(Items) /\ Len(f) = 1 /\ Total(f) = n /\ f[1].tok = 0
      BY <2>0, TotalEntry
    <3> QED BY <2>0, <2>1, <3>1, Zenon
  <2>3. \A k \in 1..1 : k = 1
    OBVIOUS
  <2>4. \A k \in 1..Len(e) : e[k].tok = 0
    BY <2>2, <2>3
  <2> QED BY <2>1, <2>2, <2>4
<1>2. CASE n = 0
  <2>1. Fill(n) = <<>>
    BY <1>2 DEF Fill
  <2>2. 1..0 = {}
    OBVIOUS
  <2> QED BY <1>2, <2>1, <2>2, TotalNone
<1> QED BY <1>1, <1>2

\* Items without bytes.
LEMMA TotalZero ==
  ASSUME NEW items \in Seq(Items), \A k \in 1..Len(items) : items[k].bytes = 0
  PROVE  Total(items) = 0
<1> DEFINE S == {k \in Nat : BytesOf(items, k) = 0}
<1>1. Len(items) \in Nat
  OBVIOUS
<1>2. 0 \in S
  <2>1. 0 \in 0..Len(items)
    BY <1>1
  <2> QED BY <2>1, BytesOfProp
<1>3. ASSUME NEW k \in 1..Len(items), k - 1 \in S PROVE k \in S
  <2>1. k \in 0..Len(items) /\ k > 0 /\ k \in Nat
    BY <1>1
  <2>2. BytesOf(items, k) = BytesOf(items, k - 1) + items[k].bytes
    BY <2>1, BytesOfProp
  <2> QED BY <1>3, <2>1, <2>2
<1>4. S \in SUBSET Nat /\ Len(items) \in 0..Len(items)
  BY <1>1
<1> HIDE DEF S
<1>5. Len(items) \in S
  BY <1>1, <1>2, <1>3, <1>4, UpTo
<1> QED BY <1>5 DEF S, Total

------------------------------------------------------------------------------
\* Steps that print nothing

\* Nothing of the variable or of the structures changes.
LEMMA QuietAdvance ==
  ASSUME InitialiserInv, Filling, mode # "end", LayoutInv', mode' # "none",
         UNCHANGED <<unit, var, c32_st_root, pass, err>>, next' \in {next, next + 1}
  PROVE  Advance
<1>1. Filling' /\ var \in Objects
  BY GoingProp DEF Filling
<1>2. Steady
  <2>1. TextGrows
    <3>1. PICK S : unit \in Seq(S)
      BY DEF InitialiserInv, LayoutInv, UnitInv
    <3> QED BY <3>1 DEF TextGrows
  <2> QED BY <2>1, SteadySame
<1> QED BY <1>1, <1>2 DEF Advance

\* A walk then leads where it led.
LEMMA WalkSame ==
  ASSUME NEW T, Keeps(T), var'.dims = var.dims, NEW path \in Seq(Nat), Fitting(path)
  PROVE  Walk(path)' = Walk(path) /\ Fitting(path)' /\ Typed(Walk(path), T)
<1>1. Unmoved(path)
  BY DEF Unmoved
<1>2. SamePlace(path) /\ Fitting(path)' /\ Typed(Walk(path), T)
  BY <1>1, WalkKept
<1>3. PICK w, v : w = Walk(path) /\ v = Walk(path)'
  OBVIOUS
<1>4. Len(path) <= Len(var.dims) => w.dims = var.dims /\ v = [w EXCEPT !.dims = var'.dims]
  BY <1>2, <1>3 DEF SamePlace
<1>5. ~(Len(path) <= Len(var.dims)) => v = w
  BY <1>2, <1>3 DEF SamePlace
<1>6. w \in Steps
  BY <1>2, <1>3 DEF Typed
<1>7. [w EXCEPT !.dims = w.dims] = w
  BY <1>6 DEF Steps
<1> QED BY <1>2, <1>3, <1>4, <1>5, <1>7

\* What such a step leaves as it was.
LEMMA QuietInv ==
  ASSUME Advance, UNCHANGED <<data, strings, pass>>
  PROVE  ObjectInv' /\ StringsInv' /\ PrintedInv'
<1>1. InitialiserInv /\ Filling
  BY DEF Advance
<1>2. StringsInv'
  BY <1>1 DEF InitialiserInv, StringsInv
<1>3. PrintedInv'
  <2>1. ASSUME PlainType(var.type)' PROVE data' \in Seq(Items) /\ \A k \in 1..Len(data') : Right(k)'
    <3>1. PlainType(var.type)
      BY <2>1, AdvanceKeeps
    <3>2. data \in Seq(Items) /\ Len(data) <= Len(data') /\ data' = data
      BY <1>1, <3>1 DEF InitialiserInv, PrintedInv
    <3> QED BY <2>1, <3>2, AdvanceRight
  <2>2. pass' # "PASS1"
    BY <1>1, GoingProp
  <2> QED BY <2>1, <2>2 DEF PrintedInv
<1> QED BY <1>2, <1>3, AdvanceObject

\* What has been printed when an element is to be read, or has been.
LEMMA SumNow ==
  ASSUME InitialiserInv, Filling, mode # "end", PlainType(var.type), Told(next)
  PROVE  Total(data) = Covered(Walk(Prefix(Depth))) /\ data \in Seq(Items)
<1>1. var.init
  BY GoingProp
<1> QED BY <1>1 DEF InitialiserInv, SumInv, Total, PrintedInv

------------------------------------------------------------------------------
\* A brace is opened

\* The brace of a row of the symbol here, or of the structure that it is.
OpensBrace(kind, ref, dim) ==
  \/ kind = "row" /\ AtRow /\ ref = Here.ref /\ dim = Here.dim
  \/ kind = "struct" /\ AtStruct /\ ref.s = StructOf(HereSym.type.tag)

\* Which element is read in it: the first.
LEMMA OpenedBraces ==
  ASSUME InitialiserInv, Filling, NEW kind, NEW ref, NEW dim, Push(kind, ref, dim)
  PROVE  /\ Depth' = Depth + 1
         /\ \A j \in 1..Depth : frames'[j] = frames[j]
         /\ \A j \in 0..Depth : Under(j)' = Under(j)
         /\ frames'[Depth + 1].kind = kind /\ frames'[Depth + 1].ref = ref
         /\ frames'[Depth + 1].dim = dim /\ frames'[Depth + 1].i = 0
         /\ Prefix(Depth)' = Append(Prefix(Depth), 0)
<1> DEFINE f == [kind |-> kind, ref |-> ref, dim |-> dim, i |-> 0]
<1>1. f.kind = kind /\ f.ref = ref /\ f.dim = dim /\ f.i = 0
  OBVIOUS
<1>2. frames' = Append(frames, f)
  BY DEF Push
<1> HIDE DEF f
<1>3. PICK n \in Nat : n = Depth /\ n = Len(frames)
  BY GoingProp DEF Depth
<1>4. \E S : frames \in Seq(S) /\ f \in S
  <2>1. PICK R : frames \in Seq(R)
    BY GoingProp DEF FramesInv
  <2>2. frames \in Seq(R \cup {f}) /\ f \in R \cup {f}
    BY <2>1
  <2> QED BY <2>2
<1>5. Len(frames') = n + 1 /\ frames'[n + 1] = f /\ \A j \in 1..n : frames'[j] = frames[j]
  BY <1>2, <1>3, <1>4
<1>6. Depth' = n + 1
  BY <1>5 DEF Depth
<1>7. \A j \in 0..n : Under(j)' = Under(j)
  BY <1>3, <1>5 DEF Under
<1>8. Prefix(Depth)' = Append(Prefix(Depth), 0)
  <2>1. PICK path \in Seq(Nat) : path = Prefix(Depth) /\ Len(path) = n
    <3>1. Depth \in 0..Depth
      BY <1>3
    <3> QED BY <1>3, <3>1, PrefixProp
  <2>2. PICK new : new = Prefix(Depth)'
    OBVIOUS
  <2>3. new = [k \in 1..n+1 |-> frames'[k].i]
    BY <1>6, <2>2 DEF Prefix
  <2>4. new = [k \in 1..n+1 |-> new[k]] /\ new[n + 1] = 0 /\ \A k \in 1..n : new[k] = path[k]
    <3>1. path = [k \in 1..n |-> frames[k].i]
      BY <1>3, <2>1 DEF Prefix
    <3>2. n + 1 \in 1..n+1 /\ \A k \in 1..n : k \in 1..n+1
      OBVIOUS
    <3> QED BY <1>1, <1>5, <2>3, <3>1, <3>2
  <2>5. PICK g : g = Append(path, 0)
    OBVIOUS
  <2>6. /\ g = [k \in 1..n+1 |-> g[k]] /\ g[n + 1] = 0
        /\ \A k \in 1..n : g[k] = path[k]
    <3>1. g \in Seq(Nat) /\ Len(g) = n + 1 /\ g[n + 1] = 0 /\ \A k \in 1..n : g[k] = path[k]
      BY <2>1, <2>5
    <3>2. g = [k \in 1..n+1 |-> g[k]]
      BY <3>1
    <3> QED BY <3>1, <3>2
  <2>7. \A k \in 1..n+1 : k \in 1..n \/ k = n + 1
    OBVIOUS
  <2>8. \A k \in 1..n+1 : g[k] = new[k]
    BY <2>4, <2>6, <2>7
  <2>9. new = Append(path, 0)
    BY <2>4, <2>5, <2>6, <2>8
  <2> QED BY <2>1, <2>2, <2>9
<1> QED BY <1>1, <1>3, <1>5, <1>6, <1>7, <1>8

\* It is the brace of what is there.
LEMMA OpenedBrace ==
  ASSUME Advance, UNCHANGED <<var, c32_st_root>>, PlainType(var.type)',
         NEW kind, NEW ref, NEW dim, Push(kind, ref, dim), OpensBrace(kind, ref, dim),
         NEW n, n = Depth
  PROVE  BraceInv(n + 1)' /\ Fits(Walk(Prefix(n)), 0)
<1>1. PICK T : Keeps(T) /\ (\A l \in 1..Depth : BraceInv(l)) /\ \A m \in 0..Depth : Cursor(m, T)
  BY AdvanceKeeps
<1>2. InitialiserInv /\ Filling
  BY DEF Advance
<1>3. n \in Nat /\ n = Depth
  BY <1>2, GoingProp
<1>4. PICK u, w, sym : u = Here /\ w = Walk(Prefix(n)) /\ sym = HereSym
  OBVIOUS
<1>5. Under(n)' = u /\ u = Under(n)
  <2>1. n \in 0..Depth
    BY <1>3
  <2> QED BY <1>2, <1>3, <1>4, <2>1, GoingProp, OpenedBraces
<1>6. /\ w.type = sym.type /\ w.dims = sym.dims /\ u.dim = w.dim + 1 /\ Typed(w, T)
      /\ w.dim <= Len(w.dims) /\ w.dim \in Nat /\ Len(w.dims) \in Nat
  <2>1. Cursor(n, T) /\ sym = Sym(Under(n).ref)
    BY <1>1, <1>3, <1>4, <1>5 DEF HereSym
  <2>2. w.type = sym.type /\ w.dims = sym.dims /\ u.dim = w.dim + 1 /\ Typed(w, T)
    BY <1>4, <1>5, <2>1 DEF Cursor
  <2> QED BY <2>2 DEF Typed, Steps
<1>7. PICK r : r = u.ref /\ Sym(r)' = sym
  BY <1>4 DEF HereSym, Sym, Object
<1>8. PICK j : j = n + 1 /\ Under(j - 1)' = u /\ Sym(Under(j - 1).ref)' = sym
  <2>1. PICK j : j = n + 1 /\ j - 1 = n
    BY <1>3
  <2>2. Under(j - 1)' = u
    BY <1>5, <2>1
  <2> QED BY <1>7, <2>1, <2>2 DEF Sym
<1>9. PICK f : f = frames'[j] /\ f.kind = kind /\ f.ref = ref /\ f.dim = dim /\ f.i = 0
  BY <1>2, <1>3, <1>8, OpenedBraces
<1>10. CASE kind = "row"
  <2>1. f.dim <= Len(sym.dims) /\ f.dim = u.dim
    BY <1>4, <1>9, <1>10 DEF OpensBrace, AtRow
  <2>2. sym.dims[f.dim] # 0 => f.i < sym.dims[f.dim]
    <3>1. w.dims \in Seq(Nat) /\ u.dim \in 1..Len(w.dims)
      BY <1>6, <2>1 DEF Typed, Steps
    <3>2. sym.dims[f.dim] \in Nat
      BY <1>6, <2>1, <3>1
    <3> QED BY <1>9, <3>2
  <2>3. BraceInv(j)'
    BY <1>5, <1>8, <1>9, <1>10, <2>1, <2>2 DEF BraceInv
  <2>4. Fits(w, 0)
    BY <1>6, <2>1 DEF Fits
  <2> QED BY <1>4, <1>8, <2>3, <2>4
<1>11. CASE kind # "row"
  <2>1. /\ AtStruct /\ ref.s = StructOf(sym.type.tag) /\ ~(u.dim <= Len(sym.dims))
        /\ sym.type.base = "struct"
    BY <1>4, <1>11 DEF OpensBrace, AtStruct, AtRow
  <2>2. u.dim = Len(sym.dims) + 1
    BY <1>6, <2>1
  <2>3. PICK s : s = StructOf(sym.type.tag) /\ s \in T
    BY <1>6, <2>1 DEF Typed, TypeIn
  <2>4. 0 < Len(c32_st_root[s].elem)
    <3>1. s \in Structs /\ Growing = 0 /\ LayoutInv
      BY <1>1, <1>2, <2>3, GoingProp DEF Keeps
    <3>2. s # Growing
      BY <3>1 DEF Structs
    <3> QED BY <3>1, <3>2 DEF LayoutInv, TablesInv, TableInv
  <2>5. f.ref.s = s /\ f.i < Len(c32_st_root'[f.ref.s].elem)
    BY <1>9, <2>1, <2>3, <2>4
  <2>6. StructOf(Sym(Under(j - 1).ref).type.tag)' = s
    BY <1>8, <2>3 DEF StructOf
  <2>7. BraceInv(j)'
    BY <1>5, <1>8, <1>9, <1>11, <2>1, <2>2, <2>5, <2>6 DEF BraceInv
  <2>8. Fits(w, 0)
    BY <1>6, <2>1, <2>3, <2>4 DEF Fits
  <2> QED BY <1>4, <1>8, <2>7, <2>8
<1> QED BY <1>10, <1>11

\* What the sum of the bytes has to be, when the braces that are open then are known.
LEMMA SumThen ==
  ASSUME NEW path, path = Prefix(Depth)', NEW v, v = Walk(path)',
         Filling' /\ PlainType(var.type)' /\ Told(next)' /\ (mode' = "end" => Wide') =>
           Total(data)' = v.at + IF mode' \in {"value", "more"} THEN 0 ELSE RowBytes(v, v.dim)'
  PROVE  SumInv'
<1>1. Walk(Prefix(Depth))' = v
  <2>1. Walk(Prefix(Depth))' = Walk(path)'
    BY DEF Walk
  <2> QED BY <2>1
<1>2. Covered(Walk(Prefix(Depth)))' = v.at + IF mode' \in {"value", "more"} THEN 0 ELSE RowBytes(v, v.dim)'
  <2>1. PICK w : w = Walk(Prefix(Depth))'
    OBVIOUS
  <2>2. Covered(Walk(Prefix(Depth)))' =
          w.at + IF mode' \in {"value", "more"} THEN 0 ELSE RowBytes(w, w.dim)'
    BY <2>1 DEF Covered, RowBytes, Bytes, Below, IsStruct, StructOf
  <2> QED BY <1>1, <2>1, <2>2
<1>3. Total(data)' = BytesOf(data, Len(data))'
  BY DEF Total
<1> QED BY <1>2, <1>3 DEF SumInv

\* The first element of something begins where that begins.
LEMMA FirstElement ==
  ASSUME NEW T, Keeps(T), NEW w, Typed(w, T), Fits(w, 0)
  PROVE  Element(w, 0).at = w.at /\ Typed(Element(w, 0), T)
<1>1. /\ w \in Steps /\ w.dim \in Nat /\ w.at \in Int /\ w.dims \in Seq(Nat) /\ 0 \in Nat
      /\ w.dim <= Len(w.dims) /\ TypeIn(w.type, T) /\ LayoutInv
  BY DEF Typed, Steps, Keeps
<1>2. CASE w.dim < Len(w.dims)
  <2>1. PICK d : d = w.dim + 1 /\ d \in 0..Len(w.dims)
    BY <1>1, <1>2
  <2>2. PICK r \in Int : r = RowBytes(w, d)
    BY <1>1, <2>1, RowBytesProp
  <2>3. Element(w, 0).at = w.at + 0 * r /\ Typed(Element(w, 0), T)
    BY <1>1, <1>2, <2>1, <2>2, RowElement
  <2> QED BY <1>1, <2>3
<1>3. CASE w.dim >= Len(w.dims)
  <2>1. PICK s, e : s = StructOf(w.type.tag) /\ e = Elem(s, 0 + 1)
    OBVIOUS
  <2>2. /\ s \in T /\ 0 + 1 \in Places(s) /\ Element(w, 0).at = w.at + e.value
        /\ Typed(Element(w, 0), T)
    BY <1>1, <1>3, <2>1, MemberElement DEF Keeps
  <2>3. e.value = 0
    BY <1>1, <2>1, <2>2, PlainProp DEF Keeps, PlainMember
  <2> QED BY <1>1, <2>2, <2>3
<1> QED BY <1>1, <1>2, <1>3

\* A brace is opened.
LEMMA OpenInvariant ==
  ASSUME InitialiserInv, Filling, OpenRow \/ OpenStruct
  PROVE  InitialiserInv'
<1>0. PICK n \in Nat : n = Depth
  BY GoingProp
<1>1. \E t, kind, ref, dim : Scan(t) /\ Opens(t) /\ ~Parts(t) /\ Wanted /\ Push(kind, ref, dim)
                             /\ OpensBrace(kind, ref, dim)
  <2>1. CASE OpenRow
    <3>1. Wanted /\ AtRow /\ Push("row", Here.ref, Here.dim) /\ \E t : Opens(t) /\ Scan(t)
      BY <2>1, Zenon DEF OpenRow, Opens
    <3>2. OpensBrace("row", Here.ref, Here.dim)
      BY <3>1 DEF OpensBrace
    <3>3. \A t : Opens(t) => ~Parts(t)
      BY Zenon DEF Opens, Parts
    <3> QED BY <3>1, <3>2, <3>3, Zenon
  <2>2. CASE OpenStruct
    <3>1. PICK ref : ref = [s |-> StructOf(HereSym.type.tag), k |-> 0]
      OBVIOUS
    <3>2. Wanted /\ AtStruct /\ Push("struct", ref, 0) /\ \E t : Opens(t) /\ Scan(t)
      BY <2>2, <3>1, Zenon DEF OpenStruct, Opens
    <3>3. OpensBrace("struct", ref, 0)
      BY <3>1, <3>2 DEF OpensBrace
    <3>4. \A t : Opens(t) => ~Parts(t)
      BY Zenon DEF Opens, Parts
    <3> QED BY <3>2, <3>3, <3>4, Zenon
  <2> QED BY <2>1, <2>2
<1>2. PICK t, kind, ref, dim : Scan(t) /\ Opens(t) /\ ~Parts(t) /\ Wanted /\ Push(kind, ref, dim)
                               /\ OpensBrace(kind, ref, dim)
  BY <1>1
<1>3. LayoutInv'
  <2>1. LayoutInv
    BY DEF InitialiserInv
  <2> QED BY <2>1, OpenRowStep, OpenStructStep
<1>4. mode \in {"value", "more"} /\ mode' = "value"
      /\ UNCHANGED <<var, c32_st_root, pass, err, data, strings>>
  BY <1>2 DEF Wanted, Push, Declared
<1>5. next' = next + 1 /\ UNCHANGED unit /\ TokenAt(next) = t
  BY <1>2, TokenRead
<1>6. Advance
  BY <1>3, <1>4, <1>5, QuietAdvance
<1>7. ObjectInv' /\ StringsInv' /\ PrintedInv'
  BY <1>4, <1>6, QuietInv
<1>8. /\ Depth' = n + 1 /\ \A j \in 1..n : frames'[j] = frames[j]
      /\ Prefix(Depth)' = Append(Prefix(n), 0) /\ Prefix(n) \in Seq(Nat)
  <2>1. n \in 0..Depth
    BY <1>0
  <2> QED BY <1>0, <1>2, <2>1, OpenedBraces, PrefixProp
<1>9. PICK path, new : path = Prefix(n) /\ new = Append(path, 0)
  OBVIOUS
<1>10. BracesInv'
  <2>1. SUFFICES ASSUME PlainType(var.type)', NEW j \in 1..n+1 PROVE BraceInv(j)'
    BY <1>8 DEF BracesInv
  <2>2. CASE j \in 1..n
    <3>1. j \in 1..Depth /\ \A l \in 1..j-1 : frames'[l] = frames[l]
      BY <1>0, <1>8, <2>2
    <3> QED BY <1>4, <1>6, <1>8, <2>1, <2>2, <3>1, AdvanceBrace
  <2>3. CASE j = n + 1
    <3>1. BraceInv(n + 1)'
      BY <1>0, <1>2, <1>4, <1>6, <2>1, OpenedBrace
    <3> QED BY <2>3, <3>1
  <2> QED BY <2>2, <2>3
<1>11. Separated(next)' => Path(next) = path /\ Path(next)' = new
  <2>1. SUFFICES ASSUME Separated(next)' PROVE Path(next) = path /\ Path(next)' = new
    OBVIOUS
  <2>2. Separated(next) /\ Path(next)' = Follow(Path(next), t)
    <3>1. Separated(next + 1) /\ Path(next)' = Follow(Path(next), t)
      BY <1>5, <1>6, <2>1, AdvanceText
    <3> QED BY <3>1, GoingProp, ToldBefore
  <2>3. Path(next) = path
    BY <1>0, <1>4, <1>9, <2>2, PrefixProp DEF InitialiserInv, PathInv
  <2> QED BY <1>2, <1>9, <2>2, <2>3, FollowCases
<1>12. PathInv'
  <2>1. Indexes' = new
    BY <1>4, <1>8, <1>9 DEF Indexes
  <2> QED BY <1>4, <1>11, <2>1 DEF PathInv
<1>13. FirstInv'
  BY <1>2, <1>5, <1>6, AdvanceFirst
<1>14. CountsInv'
  BY <1>4 DEF CountsInv
<1>15. SumInv'
  <2>1. PICK v : v = Walk(new)'
    OBVIOUS
  <2>2. ASSUME PlainType(var.type)', Told(next)' PROVE Total(data)' = v.at
    <3>1. PICK T : Keeps(T) /\ PlainType(var.type) /\ Cursor(n, T)
      <4>1. n \in 0..Depth
        BY <1>0
      <4> QED BY <1>6, <2>2, <4>1, AdvanceKeeps
    <3>2. Told(next)
      BY <1>5, <1>6, <2>2, AdvanceText
    <3>3. PICK w : w = Walk(path)
      OBVIOUS
    <3>4. Total(data) = w.at
      <4>1. Total(data) = Covered(w)
        BY <1>0, <1>4, <1>9, <3>1, <3>2, <3>3, SumNow
      <4>2. w \in Steps
        BY <1>9, <3>1, <3>3 DEF Cursor, Typed
      <4> QED BY <1>4, <4>1, <4>2 DEF Covered, Steps
    <3>5. Fits(w, 0) /\ Typed(w, T) /\ Fitting(path) /\ path \in Seq(Nat)
      <4>1. Fits(w, 0)
        BY <1>0, <1>2, <1>4, <1>6, <1>9, <2>2, <3>3, OpenedBrace
      <4> QED BY <1>9, <3>1, <3>3, <4>1 DEF Cursor
    <3>6. Fitting(new) /\ Walk(new) = Element(w, 0) /\ new \in Seq(Nat)
      <4>1. 0 \in Nat
        OBVIOUS
      <4> QED BY <1>9, <3>3, <3>5, <4>1, FittingGoesOn, WalkGoesOn DEF FittingRule, WalkRule
    <3>7. v = Element(w, 0)
      BY <1>4, <2>1, <3>1, <3>6, WalkSame
    <3>8. v.at = w.at
      BY <3>1, <3>5, <3>7, FirstElement
    <3> QED BY <1>4, <3>4, <3>8 DEF Total
  <2>3. v.at \in Int => v.at = v.at + 0
    OBVIOUS
  <2>4. PlainType(var.type)' /\ Told(next)' => v.at \in Int
    <3>1. PlainType(var.type)' => data' \in Seq(Items)
      BY <1>7 DEF PrintedInv
    <3>2. data' \in Seq(Items) => Total(data)' \in Int
      <4>1. Total(data') = Total(data)'
        BY DEF Total
      <4> QED BY <4>1, TotalBoth
    <3> QED BY <2>2, <3>1, <3>2
  <2> QED BY <1>4, <1>8, <1>9, <2>1, <2>2, <2>3, <2>4, SumThen
<1> QED BY <1>3, <1>7, <1>10, <1>12, <1>13, <1>14, <1>15 DEF InitialiserInv

------------------------------------------------------------------------------
\* Behind a value

\* What an element takes stays.
LEMMA RowBytesSame ==
  ASSUME NEW T, Keeps(T), NEW w, Typed(w, T), NEW d
  PROVE  RowBytes(w, d)' = RowBytes(w, d)
<1>1. PICK type : type = w.type /\ type \in Types /\ (type.base = "struct" => Known(type.tag))
  BY DEF Typed, TypeIn
<1>2. Bytes(type)' = Bytes(type)
  BY <1>1, BytesSteady DEF Keeps
<1>3. RowBytes(w, d)' = Bytes(type)' * Below(w.dims, d)
  BY <1>1 DEF RowBytes, Below
<1> QED BY <1>1, <1>2, <1>3 DEF RowBytes

\* The next element begins where one ends.
LEMMA ElementsMeet ==
  ASSUME NEW T, Keeps(T), NEW u, Typed(u, T), NEW i \in Nat, Fits(u, i), Fits(u, i + 1),
         NEW w, w = Element(u, i), NEW v, v = Element(u, i + 1)
  PROVE  v.at = w.at + RowBytes(w, w.dim)
<1>1. /\ u \in Steps /\ u.dim \in Nat /\ u.at \in Int /\ u.dims \in Seq(Nat) /\ i + 1 \in Nat
      /\ u.dim <= Len(u.dims) /\ TypeIn(u.type, T) /\ LayoutInv /\ T \in SUBSET Structs /\ Plain(T)
  BY DEF Typed, Steps, Keeps
<1>2. CASE u.dim < Len(u.dims)
  <2>1. PICK d : d = u.dim + 1 /\ d \in 0..Len(u.dims)
    BY <1>1, <1>2
  <2>2. PICK r \in Int : r = RowBytes(u, d)
    BY <1>1, <2>1, RowBytesProp
  <2>3. v.at = u.at + (i + 1) * r
    BY <1>1, <1>2, <2>1, <2>2, RowElement
  <2>4. w.at = u.at + i * r /\ w.type = u.type /\ w.dims = u.dims /\ w.dim = d
    BY <1>1, <1>2, <2>1, <2>2, RowElement
  <2>5. RowBytes(w, w.dim) = r
    BY <2>2, <2>4 DEF RowBytes
  <2>6. PICK a \in Int : a = u.at
    BY <1>1
  <2>7. PICK x \in Int : x = i * r
    OBVIOUS
  <2>8. (i + 1) * r = x + r
    BY <2>7
  <2> QED BY <2>3, <2>4, <2>5, <2>6, <2>7, <2>8
<1>3. CASE u.dim >= Len(u.dims)
  <2>1. PICK s, e, f : s = StructOf(u.type.tag) /\ e = Elem(s, i + 1) /\ f = Elem(s, (i + 1) + 1)
    OBVIOUS
  <2>2. /\ s \in T /\ i + 1 \in Places(s) /\ w.type = e.type /\ w.dims = e.dims /\ w.dim = 0
        /\ w.at = u.at + e.value
    BY <1>1, <1>3, <2>1, MemberElement
  <2>3. (i + 1) + 1 \in Places(s) /\ v.at = u.at + f.value
    BY <1>1, <1>3, <2>1, MemberElement
  <2>4. i + 1 < Len(c32_st_root[s].elem)
    BY <1>1, <1>3, <2>1 DEF Fits
  <2>5. PlainMember(s, i + 1, T)
    BY <1>1, <2>2, PlainProp
  <2>6. e.value + e.size = f.value /\ e.size = RowBytes(e, 0) /\ e.value \in Int /\ e.size \in Int
    BY <2>1, <2>4, <2>5 DEF PlainMember, Elems
  <2>7. RowBytes(w, w.dim) = e.size
    BY <2>2, <2>6 DEF RowBytes
  <2> QED BY <1>1, <2>2, <2>3, <2>6, <2>7
<1> QED BY <1>1, <1>2, <1>3

\* Something is refused, or a declaration is over: what has been printed stays right.
LEMMA QuietPrinted ==
  ASSUME InitialiserInv, LayoutInv', Steady, UNCHANGED <<unit, var, data>>, next' \in {next, next + 1},
         pass # "PASS1", pass' # "PASS1", ~Filling'
  PROVE  InitialiserInv'
<1>1. LayoutInv /\ ObjectInv /\ PrintedInv
  BY DEF InitialiserInv
<1>2. next \in Nat /\ Growing = 0
  BY <1>1 DEF LayoutInv, StateInv, Growing
<1>3. ASSUME data # <<>>
      PROVE  /\ var \in Objects /\ var.at \in Nat /\ var.at < next /\ var.type \in Types /\ var.dims \in Seq(Nat)
             /\ var.type.base = "struct" => Known(var.type.tag)
  <2>1. var \in Objects /\ var.at < next /\ (var.type.base = "struct" => Known(var.type.tag))
    BY <1>1, <1>3 DEF ObjectInv
  <2> QED BY <2>1 DEF Objects
<1>4. ObjectInv'
  <2>1. SUFFICES ASSUME data # <<>> PROVE ObjectInv'
    BY DEF ObjectInv
  <2>2. var.type.base = "struct" => Known(var.type.tag)'
    <3>1. PICK type : type = var.type
      OBVIOUS
    <3>2. type.base = "struct" => Known(type.tag)'
      BY <1>1, <1>2, <1>3, <2>1, <3>1, BytesSteady
    <3> QED BY <3>1, <3>2 DEF Known
  <2>3. var.at < next'
    BY <1>2, <1>3, <2>1
  <2> QED BY <1>3, <2>1, <2>2, <2>3 DEF ObjectInv
<1>5. PrintedInv'
  <2>1. SUFFICES ASSUME PlainType(var.type)', data # <<>>
                 PROVE  data \in Seq(Items) /\ \A k \in 1..Len(data) : Right(k)'
    <3>1. <<>> \in Seq(Items) /\ 1..Len(<<>>) = {}
      OBVIOUS
    <3> QED BY <3>1 DEF PrintedInv
  <2>2. SameObject /\ SameText
    BY <1>2, <1>3, <2>1 DEF SameObject, SameText
  <2>3. PICK T : Keeps(T)
    BY <1>1, <1>2, <1>3, <2>1, <2>2, PlainBefore
  <2>4. PlainType(var.type)
    BY <2>3, KeepsPlain
  <2>5. data \in Seq(Items) /\ \A k \in 1..Len(data) : Right(k)
    BY <1>1, <2>4 DEF PrintedInv
  <2>6. ASSUME NEW k \in 1..Len(data) PROVE Right(k)'
    <3>1. Unmoved(Path(data[k].tok))
      BY DEF Unmoved
    <3>2. Len(data) <= Len(data') /\ \A l \in 1..k : data'[l] = data[l]
      BY <2>5
    <3> QED BY <2>2, <2>3, <2>5, <3>1, <3>2, RightKept
  <2> QED BY <2>5, <2>6
<1> QED BY <1>4, <1>5 DEF InitialiserInv, StringsInv, BracesInv, PathInv, FirstInv, CountsInv, SumInv

\* Nothing has been printed yet.
LEMMA QuietFirst ==
  ASSUME LayoutInv', data' = <<>>, ~Filling'
  PROVE  InitialiserInv'
<1>1. <<>> \in Seq(Items) /\ 1..Len(<<>>) = {}
  OBVIOUS
<1>2. PrintedInv'
  BY <1>1 DEF PrintedInv
<1> QED BY <1>2 DEF InitialiserInv, ObjectInv, StringsInv, BracesInv, PathInv, FirstInv, CountsInv, SumInv

\* An initialiser is refused.
LEMMA RefuseInvariant ==
  ASSUME InitialiserInv, Filling, LayoutInv', UNCHANGED unit, next' \in {next, next + 1},
         NEW e, e # "none", Refuse(e)
  PROVE  InitialiserInv'
<1>1. ~Filling' /\ UNCHANGED <<var, data, c32_st_root, pass>> /\ pass = "PASS3"
  BY DEF Filling, Refuse, Stop, initVars
<1>2. Steady
  <2>1. TextGrows
    <3>1. PICK S : unit \in Seq(S)
      BY DEF InitialiserInv, LayoutInv, UnitInv
    <3> QED BY <3>1 DEF TextGrows
  <2> QED BY <1>1, <2>1, SteadySame
<1> QED BY <1>1, <1>2, QuietPrinted

\* The number of elements in the innermost braces is counted up.
Raised == [Prefix(Depth) EXCEPT ![Depth] = @ + 1]

\* The paths before and after differ in their last element only.
LEMMA RaisedProp ==
  ASSUME InitialiserInv, Filling, frames # <<>>
  PROVE  \E n \in Nat, outer \in Seq(Nat), i \in Nat :
           /\ Depth = n + 1 /\ outer = Prefix(n) /\ Len(outer) = n /\ i = Top.i /\ Top = frames[n + 1]
           /\ Prefix(Depth) = Append(outer, i) /\ Raised = Append(outer, i + 1)
           /\ Front(Prefix(Depth)) = outer /\ Last(Prefix(Depth)) = i
           /\ Front(Raised) = outer /\ Last(Raised) = i + 1
<1>1. PICK n \in Nat : Depth = n + 1
  <2>1. Depth \in Nat /\ Depth # 0
    BY GoingProp
  <2>2. Depth - 1 \in Nat /\ Depth = (Depth - 1) + 1
    BY <2>1
  <2> QED BY <2>2
<1>2. n + 1 \in 1..Depth /\ n \in 0..Depth
  BY <1>1
<1>3. PICK outer \in Seq(Nat), i \in Nat : outer = Prefix(n) /\ Len(outer) = n /\ i = frames[n + 1].i
  BY <1>2, PrefixProp, FrameProp, GoingProp
<1>4. Prefix(Depth) = Append(outer, i)
  <2>1. Prefix(n + 1) = Append(Prefix(n + 1 - 1), frames[n + 1].i)
    BY <1>2, FrameProp, GoingProp
  <2>2. n + 1 - 1 = n
    OBVIOUS
  <2> QED BY <1>1, <1>3, <2>1, <2>2
<1>5. Top = frames[n + 1]
  BY <1>1 DEF Top, Depth
<1>6. Raised = Append(outer, i + 1)
  <2>1. Raised = [Append(outer, i) EXCEPT ![n + 1] = Append(outer, i)[n + 1] + 1]
    BY <1>1, <1>4 DEF Raised
  <2>2. Append(outer, i)[n + 1] = i
    BY <1>3
  <2>3. [Append(outer, i) EXCEPT ![n + 1] = i + 1] = Append(outer, i + 1)
    <3>1. PICK a, c : a = Append(outer, i) /\ c = Append(outer, i + 1)
      OBVIOUS
    <3>2. /\ a \in Seq(Nat) /\ Len(a) = n + 1 /\ c \in Seq(Nat) /\ Len(c) = n + 1
          /\ \A k \in 1..n : c[k] = a[k]
          /\ c[n + 1] = i + 1
      BY <1>3, <3>1
    <3>3. PICK m \in 1..Len(a), x \in Nat : m = n + 1 /\ x = i + 1
      BY <3>2
    <3>4. PICK b : b = [a EXCEPT ![m] = x]
      OBVIOUS
    <3>5. b \in Seq(Nat) /\ Len(b) = n + 1
      BY <3>2, <3>3, <3>4, ExceptSeq
    <3>6. \A k \in 1..n+1 : b[k] = c[k]
      <4>1. \A k \in 1..n+1 : b[k] = IF k = m THEN x ELSE a[k]
        BY <3>2, <3>4
      <4>2. \A k \in 1..n+1 : k = n + 1 \/ k \in 1..n
        OBVIOUS
      <4> QED BY <3>2, <3>3, <4>1, <4>2
    <3>7. b = c
      BY <3>2, <3>5, <3>6
    <3> QED BY <3>1, <3>3, <3>4, <3>7
  <2> QED BY <2>1, <2>2, <2>3
<1>7. ASSUME NEW x \in Nat PROVE Front(Append(outer, x)) = outer /\ Last(Append(outer, x)) = x
  <2>0. PICK path : path = Append(outer, x)
    OBVIOUS
  <2>1. /\ path \in Seq(Nat) /\ Len(path) = n + 1 /\ path[n + 1] = x
        /\ \A k \in 1..n : path[k] = outer[k]
    BY <1>3, <2>0
  <2>2. Len(path) - 1 = n
    BY <2>1
  <2>3. Front(path) = [k \in 1..n |-> path[k]] /\ Last(path) = x
    BY <2>1, <2>2 DEF Front, Last
  <2>4. outer = [k \in 1..n |-> outer[k]]
    BY <1>3
  <2> QED BY <2>0, <2>1, <2>3, <2>4
<1>8. /\ Front(Prefix(Depth)) = outer /\ Last(Prefix(Depth)) = i
      /\ Front(Raised) = outer /\ Last(Raised) = i + 1
  <2>1. i + 1 \in Nat
    OBVIOUS
  <2> QED BY <1>4, <1>6, <1>7, <2>1
<1>9. i = Top.i
  BY <1>3, <1>5
<1> QED BY <1>1, <1>3, <1>4, <1>5, <1>6, <1>8, <1>9

\* The comma.
LEMMA CommaInvariant ==
  ASSUME InitialiserInv, Filling, Comma
  PROVE  InitialiserInv'
<1>1. PICK t : Scan(t) /\ Parts(t)
  BY Zenon DEF Comma, Parts
<1>2. mode = "after" /\ mode' = "comma" /\ frames # <<>>
      /\ UNCHANGED <<var, frames, c32_st_root, pass, err, data, strings>>
  BY Zenon DEF Comma, Declared, After
<1>3. LayoutInv'
  BY CommaStep DEF InitialiserInv
<1>4. next' = next + 1 /\ UNCHANGED unit /\ TokenAt(next) = t
  BY <1>1, TokenRead
<1>5. Advance
  BY <1>2, <1>3, <1>4, QuietAdvance
<1>6. ObjectInv' /\ StringsInv' /\ PrintedInv'
  BY <1>2, <1>5, QuietInv
<1>7. PICK n \in Nat : n = Depth /\ n = Depth'
  BY <1>2, GoingProp DEF Depth
<1>8. Prefix(Depth)' = Prefix(n) /\ Prefix(n) \in Seq(Nat)
  <2>1. n \in 0..Depth
    BY <1>7
  <2>2. Prefix(Depth)' = Prefix(Depth)
    BY <1>2 DEF Prefix, Depth
  <2> QED BY <1>7, <2>1, <2>2, PrefixProp
<1>9. BracesInv'
  <2>1. SUFFICES ASSUME PlainType(var.type)', NEW j \in 1..n PROVE BraceInv(j)'
    BY <1>7 DEF BracesInv
  <2> QED BY <1>2, <1>5, <1>7, <2>1, AdvanceBrace
<1>10. PathInv'
  <2>1. SUFFICES ASSUME Separated(next)' PROVE Path(next)' = Indexes'
    BY <1>2 DEF PathInv
  <2>2. Separated(next) /\ Path(next)' = Follow(Path(next), t)
    <3>1. Separated(next + 1) /\ Path(next)' = Follow(Path(next), t)
      BY <1>4, <1>5, <2>1, AdvanceText
    <3> QED BY <3>1, GoingProp, ToldBefore
  <2>3. Path(next) = Prefix(Depth)
    BY <1>2, <2>2, PrefixProp DEF InitialiserInv, PathInv
  <2>4. PICK outer \in Seq(Nat), i \in Nat :
          /\ Prefix(Depth) = Append(outer, i) /\ Raised = Append(outer, i + 1)
          /\ Front(Prefix(Depth)) = outer /\ Last(Prefix(Depth)) = i
    BY <1>2, RaisedProp
  <2>5. Prefix(Depth) # <<>>
    <3>1. Len(Append(outer, i)) = Len(outer) + 1 /\ Len(outer) \in Nat
      OBVIOUS
    <3>2. Len(<<>>) = 0
      OBVIOUS
    <3> QED BY <2>4, <3>1, <3>2
  <2>6. Follow(Path(next), t) = Raised
    <3>1. PICK path : path = Path(next)
      OBVIOUS
    <3>2. path # <<>> /\ Front(path) = outer /\ Last(path) = i
      BY <2>3, <2>4, <2>5, <3>1
    <3>3. Follow(path, t) = Append(Front(path), Last(path) + 1)
      BY <1>1, <3>2, FollowCases
    <3> QED BY <2>4, <3>1, <3>2, <3>3
  <2>7. Indexes' = Raised
    BY <1>2, <1>7, <1>8 DEF Indexes, Raised
  <2> QED BY <2>2, <2>6, <2>7
<1>11. FirstInv'
  BY <1>2, <1>5, AdvanceFirst
<1>12. CountsInv'
  <2>1. SUFFICES ASSUME PlainType(var.type)', Told(next)', NEW t2 \in 1..Len(var.dims), t2 > n
                 PROVE  var.dims[t2] # 0
    BY <1>2, <1>7 DEF CountsInv
  <2>2. PlainType(var.type) /\ Told(next)
    BY <1>4, <1>5, <2>1, AdvanceKeeps, AdvanceText
  <2>3. var.init
    BY <1>2, GoingProp
  <2> QED BY <1>2, <1>7, <2>1, <2>2, <2>3 DEF InitialiserInv, CountsInv
<1>13. SumInv'
  <2>1. PICK path, v : path = Prefix(n) /\ v = Walk(path)'
    OBVIOUS
  <2>2. ASSUME PlainType(var.type)', Told(next)' PROVE Total(data)' = v.at + RowBytes(v, v.dim)'
    <3>1. PICK T : Keeps(T) /\ PlainType(var.type) /\ Cursor(n, T)
      <4>1. n \in 0..Depth
        BY <1>7
      <4> QED BY <1>5, <2>2, <4>1, AdvanceKeeps
    <3>2. Total(data) = Covered(Walk(Prefix(Depth)))
      <4>1. Told(next)
        BY <1>4, <1>5, <2>2, AdvanceText
      <4> QED BY <1>2, <3>1, <4>1, SumNow
    <3>3. v = Walk(path) /\ Typed(v, T)
      BY <1>2, <2>1, <3>1, WalkSame DEF Cursor
    <3>4. Total(data) = v.at + RowBytes(v, v.dim)
      BY <1>2, <1>7, <2>1, <3>2, <3>3 DEF Covered
    <3>5. PICK d : d = v.dim
      OBVIOUS
    <3>6. RowBytes(v, d)' = RowBytes(v, d)
      BY <3>1, <3>3, RowBytesSame
    <3> QED BY <1>2, <3>4, <3>5, <3>6 DEF Total
  <2> QED BY <1>2, <1>8, <2>1, <2>2, SumThen
<1> QED BY <1>3, <1>6, <1>9, <1>10, <1>11, <1>12, <1>13 DEF InitialiserInv

\* The loop goes round.
Rounds(m) ==
  /\ frames # <<>> /\ m \in {"value", "more"} /\ mode' = m
  /\ ~(Room # 0 /\ Top.i + 1 = Room)
  /\ frames' = [frames EXCEPT ![Len(frames)].i = @ + 1]
  /\ UNCHANGED <<var, c32_st_root, pass, err, data, strings>>

\* What NextElement does.
LEMMA NextCases ==
  ASSUME frames # <<>>, NEW m \in {"value", "more"}, NextElement(m)
  PROVE  Refuse("overflow") \/ Rounds(m)
<1>1. CASE Room # 0 /\ Top.i + 1 = Room
  BY <1>1 DEF NextElement
<1>2. CASE ~(Room # 0 /\ Top.i + 1 = Room)
  BY <1>2 DEF NextElement, Rounds, Declared
<1> QED BY <1>1, <1>2

\* Which element is read then.
LEMMA RoundFrames ==
  ASSUME InitialiserInv, Filling, NEW m, Rounds(m)
  PROVE  /\ Depth' = Depth /\ frames'[Depth].i = Top.i + 1
         /\ frames'[Depth].kind = Top.kind /\ frames'[Depth].ref = Top.ref /\ frames'[Depth].dim = Top.dim
         /\ \A j \in 1..Depth-1 : frames'[j] = frames[j]
         /\ \A j \in 0..Depth-1 : Under(j)' = Under(j)
         /\ Prefix(Depth)' = Raised
<1>1. PICK R : frames \in Seq(FrameOf(R))
  BY GoingProp DEF FramesInv
<1>2. PICK n \in Nat \ {0} : n = Depth /\ n = Len(frames)
  <2>1. Depth \in Nat /\ Depth # 0
    BY GoingProp DEF Rounds
  <2> QED BY <2>1 DEF Depth
<1>3. frames[n] \in FrameOf(R) /\ Top = frames[n] /\ n \in 1..Len(frames)
  BY <1>1, <1>2 DEF Top
<1>4. PICK f : f = [Top EXCEPT !.i = @ + 1]
  OBVIOUS
<1>5. f.i = Top.i + 1 /\ f.kind = Top.kind /\ f.ref = Top.ref /\ f.dim = Top.dim
  BY <1>3, <1>4 DEF FrameOf
<1>6. frames' = [frames EXCEPT ![n] = f]
  BY <1>2, <1>3, <1>4 DEF Rounds
<1>7. /\ Len(frames') = n /\ frames'[n] = f /\ \A j \in 1..n-1 : frames'[j] = frames[j]
      /\ DOMAIN frames' = 1..n
  BY <1>1, <1>2, <1>3, <1>6
<1>8. Depth' = n
  BY <1>7 DEF Depth
<1>9. \A j \in 0..n-1 : Under(j)' = Under(j)
  BY <1>2, <1>7 DEF Under
<1>10. Prefix(Depth)' = Raised
  <2>1. Prefix(Depth)' = [k \in 1..n |-> frames'[k].i]
    BY <1>8 DEF Prefix
  <2>2. PICK path : path = Prefix(Depth) /\ path = [k \in 1..n |-> frames[k].i]
    BY <1>2 DEF Prefix
  <2>3. Raised = [path EXCEPT ![n] = Top.i + 1]
    <3>1. path[n] = Top.i
      BY <1>2, <1>3, <2>2
    <3> QED BY <1>2, <2>2, <3>1 DEF Raised
  <2>4. Raised = [k \in 1..n |-> IF k = n THEN Top.i + 1 ELSE frames[k].i]
    BY <2>2, <2>3
  <2>5. \A k \in 1..n : frames'[k].i = IF k = n THEN Top.i + 1 ELSE frames[k].i
    BY <1>5, <1>7
  <2> QED BY <2>1, <2>4, <2>5
<1> QED BY <1>2, <1>3, <1>5, <1>7, <1>8, <1>9, <1>10

\* There is that element.
LEMMA RoundFits ==
  ASSUME Advance, PlainType(var.type)', NEW m, Rounds(m)
  PROVE  /\ \A j \in 1..Depth : BraceInv(j)'
         /\ \A outer, i : Prefix(Depth) = Append(outer, i) /\ outer \in Seq(Nat) /\ i \in Nat
                          /\ Len(outer) = Depth - 1 /\ i = Top.i /\ outer = Prefix(Depth - 1) =>
              Fits(Walk(outer), i) /\ Fits(Walk(outer), i + 1)
<1>1. PICK T : Keeps(T) /\ (\A l \in 1..Depth : BraceInv(l)) /\ \A n \in 0..Depth : Cursor(n, T)
  BY AdvanceKeeps
<1>2. InitialiserInv /\ Filling /\ LayoutInv /\ T \in SUBSET Structs
  BY <1>1 DEF Advance, Keeps
<1>3. PICK n \in Nat : n + 1 = Depth /\ n \in 0..Depth /\ n + 1 \in 1..Depth /\ Depth - 1 = n
  <2>1. Depth \in Nat /\ Depth # 0
    BY <1>2, GoingProp DEF Rounds
  <2>2. Depth - 1 \in Nat /\ Depth - 1 + 1 = Depth
    BY <2>1
  <2> QED BY <2>1, <2>2
<1>4. PICK u, f, g, sym : u = Under(n) /\ f = frames[n + 1] /\ g = frames'[n + 1] /\ sym = Sym(u.ref)
  OBVIOUS
<1>5. /\ f = Top /\ g.i = f.i + 1 /\ g.kind = f.kind /\ g.ref = f.ref /\ g.dim = f.dim
      /\ f.i \in Nat /\ f.dim \in Nat /\ RowInv(n + 1) /\ f.kind \in {"row", "struct"}
  <2>1. f = Top
    BY <1>3, <1>4 DEF Top, Depth
  <2>2. g.i = Top.i + 1 /\ g.kind = Top.kind /\ g.ref = Top.ref /\ g.dim = Top.dim
    BY <1>2, <1>3, <1>4, RoundFrames
  <2>3. f.i \in Nat /\ f.dim \in Nat /\ RowInv(n + 1) /\ f.kind \in {"row", "struct"}
    BY <1>2, <1>3, <1>4, FrameProp
  <2> QED BY <2>1, <2>2, <2>3
<1>6. PICK w : w = Walk(Prefix(n))
  OBVIOUS
<1>7. /\ w.type = sym.type /\ w.dims = sym.dims /\ u.dim = w.dim + 1 /\ Typed(w, T)
      /\ w.dim \in Nat /\ w.dims \in Seq(Nat) /\ Len(w.dims) \in Nat /\ TypeIn(w.type, T)
  <2>1. Cursor(n, T)
    BY <1>1, <1>3
  <2>2. w.type = sym.type /\ w.dims = sym.dims /\ u.dim = w.dim + 1 /\ Typed(w, T)
    BY <1>4, <1>6, <2>1 DEF Cursor
  <2> QED BY <2>2 DEF Typed, Steps
<1>8. PICK j : j = n + 1 /\ j - 1 = n /\ Under(j - 1) = u /\ Under(j - 1)' = u
  <2>1. n \in 0..Depth-1
    BY <1>3
  <2>2. Under(n)' = u
    BY <1>2, <1>4, <2>1, RoundFrames
  <2>3. PICK j : j = n + 1 /\ j - 1 = n
    OBVIOUS
  <2> QED BY <1>4, <2>2, <2>3
<1>9. BraceInv(j) /\ ~(Room # 0 /\ Top.i + 1 = Room)
  BY <1>1, <1>3, <1>8 DEF Rounds
<1>10. UNCHANGED <<var, c32_st_root>> /\ Sym(Under(j - 1).ref)' = sym
  BY <1>4, <1>8 DEF Rounds, Sym, Object
<1>11. CASE f.kind = "row"
  <2>1. f.ref = u.ref /\ f.dim = u.dim /\ f.dim # 0
    BY <1>5, <1>4, <1>8, <1>11 DEF RowInv
  <2>2. f.dim <= Len(sym.dims) /\ (sym.dims[f.dim] # 0 => f.i < sym.dims[f.dim])
    BY <1>4, <1>8, <1>9, <1>11 DEF BraceInv
  <2>3. sym.dims[f.dim] \in Nat
    BY <1>5, <1>7, <2>1, <2>2
  <2>4. Room = sym.dims[f.dim]
    BY <1>4, <1>5, <1>11, <2>1 DEF Room, InRow
  <2>5. sym.dims[f.dim] # 0 => g.i < sym.dims[f.dim]
    BY <1>5, <1>9, <2>2, <2>3, <2>4
  <2>6. BraceInv(j)'
    BY <1>4, <1>5, <1>8, <1>10, <1>11, <2>2, <2>5 DEF BraceInv
  <2>7. w.dim < Len(w.dims)
    BY <1>7, <2>1, <2>2
  <2>8. \A i : Fits(w, i)
    BY <2>7 DEF Fits
  <2>9. ASSUME NEW l \in 1..Depth PROVE BraceInv(l)'
    <3>1. CASE l = j
      BY <2>6, <3>1
    <3>2. CASE l # j
      <4>1. l \in 1..Depth-1 /\ \A k \in 1..l-1 : k \in 1..Depth-1
        BY <1>3, <1>8, <3>2
      <4>2. frames'[l] = frames[l] /\ \A k \in 1..l-1 : frames'[k] = frames[k]
        BY <1>2, <4>1, RoundFrames
      <4> QED BY <1>10, <4>2, AdvanceBrace
    <3> QED BY <3>1, <3>2
  <2> QED BY <1>3, <1>6, <2>8, <2>9
<1>12. CASE f.kind # "row"
  <2>1. /\ u.dim = Len(sym.dims) + 1 /\ sym.type.base = "struct"
        /\ f.ref.s = StructOf(sym.type.tag) /\ f.i < Len(c32_st_root[f.ref.s].elem)
    BY <1>4, <1>8, <1>9, <1>12 DEF BraceInv
  <2>2. PICK s, l : s = f.ref.s /\ l = Len(c32_st_root[s].elem) /\ l \in Nat /\ s \in T
    <3>1. f.ref.s \in T
      BY <1>7, <2>1 DEF TypeIn
    <3>2. Len(c32_st_root[f.ref.s].elem) \in Nat
      BY <1>2, <3>1, TablesProp DEF LayoutInv
    <3> QED BY <3>1, <3>2
  <2>3. Room = l
    BY <1>5, <1>12, <2>2 DEF Room, InRow, Members
  <2>4. g.i < l /\ f.i + 1 < l
    BY <1>5, <1>9, <2>1, <2>2, <2>3
  <2>5. StructOf(Sym(Under(j - 1).ref).type.tag)' = StructOf(sym.type.tag)
    BY <1>10 DEF StructOf
  <2>6. BraceInv(j)'
    BY <1>4, <1>5, <1>8, <1>10, <1>12, <2>1, <2>2, <2>4, <2>5 DEF BraceInv
  <2>7. Fits(w, f.i) /\ Fits(w, f.i + 1)
    BY <1>7, <2>1, <2>2, <2>4 DEF Fits
  <2>9. ASSUME NEW k \in 1..Depth PROVE BraceInv(k)'
    <3>1. CASE k = j
      BY <2>6, <3>1
    <3>2. CASE k # j
      <4>1. k \in 1..Depth-1 /\ \A h \in 1..k-1 : h \in 1..Depth-1
        BY <1>3, <1>8, <3>2
      <4>2. frames'[k] = frames[k] /\ \A h \in 1..k-1 : frames'[h] = frames[h]
        BY <1>2, <4>1, RoundFrames
      <4> QED BY <1>10, <4>2, AdvanceBrace
    <3> QED BY <3>1, <3>2
  <2> QED BY <1>3, <1>5, <1>6, <2>7, <2>9
<1> QED BY <1>11, <1>12

\* What the loop leaves as it was, and which brace it is in.
LEMMA RoundKeeps ==
  ASSUME InitialiserInv, Filling, NEW m, Rounds(m), LayoutInv', mode # "end",
         UNCHANGED unit, next' \in {next, next + 1}
  PROVE  Advance /\ ObjectInv' /\ StringsInv' /\ PrintedInv' /\ BracesInv' /\ CountsInv'
<1>1. UNCHANGED <<var, c32_st_root, pass, err, data, strings>> /\ mode' \in {"value", "more"}
  BY DEF Rounds
<1>2. Advance
  BY <1>1, QuietAdvance
<1>3. BracesInv'
  <2>1. Depth' = Depth
    BY RoundFrames
  <2> QED BY <1>2, <2>1, RoundFits DEF BracesInv
<1>4. CountsInv'
  BY <1>1 DEF CountsInv
<1> QED BY <1>1, <1>2, <1>3, <1>4, QuietInv

\* No closing brace behind the comma.
LEMMA NoBraceInvariant ==
  ASSUME InitialiserInv, Filling, NoBrace
  PROVE  InitialiserInv'
<1>1. mode = "comma" /\ frames # <<>> /\ NextElement("more") /\ UNCHANGED <<unit, next>>
  BY Zenon DEF NoBrace, After
<1>2. LayoutInv'
  BY CommaStep DEF InitialiserInv
<1>3. Refuse("overflow") \/ Rounds("more")
  BY <1>1, NextCases
<1>4. CASE Refuse("overflow")
  BY <1>1, <1>2, <1>4, RefuseInvariant
<1>5. CASE Rounds("more")
  <2>0. PICK m : m = "more" /\ Rounds(m)
    BY <1>5
  <2>1. Advance /\ ObjectInv' /\ StringsInv' /\ PrintedInv' /\ BracesInv' /\ CountsInv'
    BY <1>1, <1>2, <2>0, RoundKeeps
  <2>2. /\ mode' = "more" /\ frames' # <<>> /\ Depth' = Depth /\ Prefix(Depth)' = Raised
        /\ UNCHANGED <<var, c32_st_root, pass, err, data, strings>>
    <3>1. Depth' = Depth /\ Depth # 0
      BY <1>1, <2>0, RoundFrames, GoingProp
    <3>2. frames' # <<>>
      BY <3>1 DEF Depth
    <3> QED BY <2>0, <3>1, <3>2, RoundFrames DEF Rounds
  <2>3. Separated(next)' => Path(next)' = Raised
    <3>1. SUFFICES ASSUME Separated(next)' PROVE Path(next)' = Raised
      OBVIOUS
    <3>2. Separated(next) /\ Path(next)' = Path(next)
      BY <1>1, <2>1, <3>1, AdvanceText
    <3>3. Path(next) = Indexes
      BY <3>2 DEF InitialiserInv, PathInv
    <3> QED BY <1>1, <3>2, <3>3 DEF Indexes, Raised
  <2>4. PathInv'
    <3>1. Indexes' = Raised
      BY <2>2 DEF Indexes
    <3> QED BY <2>2, <2>3, <3>1 DEF PathInv
  <2>5. FirstInv'
    <3>1. ~(next' = next + 1)
      BY <1>1, GoingProp
    <3> QED BY <2>1, <3>1, AdvanceFirst
  <2>6. SumInv'
    <3>1. PICK path, v : path = Raised /\ v = Walk(path)'
      OBVIOUS
    <3>2. ASSUME PlainType(var.type)', Told(next)' PROVE Total(data)' = v.at + 0
      <4>1. PICK T : Keeps(T) /\ PlainType(var.type) /\ \A n \in 0..Depth : Cursor(n, T)
        BY <2>1, <3>2, AdvanceKeeps
      <4>2. Told(next)
        BY <1>1, <2>1, <3>2, AdvanceText
      <4>3. PICK n \in Nat, outer \in Seq(Nat), i \in Nat :
              /\ Depth = n + 1 /\ outer = Prefix(n) /\ Len(outer) = n /\ i = Top.i
              /\ Prefix(Depth) = Append(outer, i) /\ Raised = Append(outer, i + 1)
        BY <1>1, RaisedProp
      <4>4. PICK u, w : u = Walk(outer) /\ w = Walk(Prefix(Depth))
        OBVIOUS
      <4>5. Typed(u, T) /\ Fitting(outer) /\ n = Depth - 1
        <5>1. Cursor(n, T) /\ n = Depth - 1
          BY <4>1, <4>3
        <5> QED BY <4>3, <4>4, <5>1 DEF Cursor
      <4>6. Fits(u, i) /\ Fits(u, i + 1)
        BY <2>0, <2>1, <3>2, <4>3, <4>4, <4>5, RoundFits
      <4>7. w = Element(u, i) /\ Walk(path) = Element(u, i + 1) /\ Fitting(path) /\ path \in Seq(Nat)
        <5>1. i + 1 \in Nat
          OBVIOUS
        <5> QED BY <3>1, <4>3, <4>4, <4>5, <4>6, <5>1, WalkGoesOn, FittingGoesOn DEF WalkRule, FittingRule
      <4>8. v = Element(u, i + 1)
        BY <2>2, <3>1, <4>1, <4>7, WalkSame
      <4>9. v.at = w.at + RowBytes(w, w.dim)
        BY <4>1, <4>3, <4>5, <4>6, <4>7, <4>8, ElementsMeet
      <4>10. Total(data) = w.at + RowBytes(w, w.dim) /\ Total(data) \in Int
        <5>1. Total(data) = Covered(w) /\ data \in Seq(Items)
          BY <1>1, <4>1, <4>2, <4>4, SumNow
        <5>2. Total(data) \in Int
          BY <5>1, TotalBoth
        <5> QED BY <1>1, <5>1, <5>2 DEF Covered
      <4>11. Total(data)' = Total(data)
        BY <2>2 DEF Total
      <4> QED BY <4>9, <4>10, <4>11
    <3> QED BY <2>2, <3>1, <3>2, SumThen
  <2> QED BY <1>2, <2>1, <2>4, <2>5, <2>6 DEF InitialiserInv
<1> QED BY <1>3, <1>4, <1>5

\* What begins a value, or ends the declaration.
Strays(t) == t \in {"{", "num", "str", ";"}

\* Where the text separates the elements none of it stands behind a value.
LEMMA AfterValue ==
  ASSUME InitialiserInv, Filling, mode = "after", Separated(next + 1)
  PROVE  ~Strays(TokenAt(next))
<1> DEFINE Begun(t) == t \in {"{", ","}
           Ended(t) == t \in {"num", "str", "}"}
<1>1. var.at \in Nat /\ next \in Nat /\ var.at < next
  BY GoingProp
<1>2. /\ Separated(next)
      /\ Strays(TokenAt(next)) => next = var.at + 1 \/ Begun(TokenAt(next - 1))
  <2>1. /\ Separated(next) /\ TokenAt(next) # ";"
        /\ TokenAt(next) \in {"{", "num", "str"} => next = var.at + 1 \/ TokenAt(next - 1) \in {"{", ","}
    BY <1>1, ToldBefore, Zenon
  <2> QED BY <2>1, Zenon DEF Strays
<1>3. next - 1 > var.at /\ Ended(TokenAt(next - 1))
  <2>1. Separated(next)
    BY <1>2
  <2> QED BY <2>1, Zenon DEF InitialiserInv, PathInv
<1>4. \A t : ~(Begun(t) /\ Ended(t))
  BY Zenon
<1> HIDE DEF Begun, Ended
<1>5. next # var.at + 1
  BY <1>1, <1>3
<1> QED BY <1>2, <1>3, <1>4, <1>5

\* Anything else behind a value.
LEMMA SwallowInvariant ==
  ASSUME InitialiserInv, Filling, Swallow
  PROVE  InitialiserInv'
<1>1. mode = "after" /\ frames # <<>>
  BY Zenon DEF Swallow, After
<1>2. PICK t : Scan(t) /\ Strays(t) /\ (NextElement("value") \/ Refuse("syntax"))
  <2>1. PICK t \in {"{", "num", "str", ";"} : Scan(t) /\ IF InRow THEN NextElement("value") ELSE Refuse("syntax")
    BY Zenon DEF Swallow
  <2> QED BY <2>1, Zenon DEF Strays
<1>3. LayoutInv'
  BY CommaStep DEF InitialiserInv
<1>4. next' = next + 1 /\ UNCHANGED unit /\ TokenAt(next) = t
  BY <1>2, TokenRead
<1>5. Refuse("syntax") \/ Refuse("overflow") \/ Rounds("value")
  <2>1. NextElement("value") => Refuse("overflow") \/ Rounds("value")
    BY <1>1, NextCases
  <2> QED BY <1>2, <2>1
<1>6. CASE Refuse("syntax") \/ Refuse("overflow")
  BY <1>3, <1>4, <1>6, RefuseInvariant
<1>7. CASE Rounds("value")
  <2>0. PICK m : m = "value" /\ Rounds(m)
    BY <1>7
  <2>1. Advance /\ ObjectInv' /\ StringsInv' /\ PrintedInv' /\ BracesInv' /\ CountsInv'
    BY <1>1, <1>3, <1>4, <2>0, RoundKeeps
  <2>2. ~Separated(next)'
    <3>1. Separated(next)' => Separated(next + 1)
      BY <1>4, <2>1, AdvanceText
    <3> QED BY <1>1, <1>2, <1>4, <3>1, AfterValue
  <2>3. PathInv' /\ SumInv'
    BY <2>2 DEF PathInv, SumInv, Told
  <2>4. FirstInv'
    BY <1>1, <2>1, AdvanceFirst
  <2> QED BY <1>3, <2>1, <2>3, <2>4 DEF InitialiserInv
<1> QED BY <1>5, <1>6, <1>7

\* No brace, or no value, where one must be.
LEMMA MisplacedInvariant ==
  ASSUME InitialiserInv, Filling, Misplaced
  PROVE  InitialiserInv'
<1>1. PICK t : Scan(t) /\ Refuse(IF AtScalar THEN "syntax" ELSE "l_namikakko")
  BY Zenon DEF Misplaced
<1>2. LayoutInv'
  BY CommaStep DEF InitialiserInv
<1>3. next' = next + 1 /\ UNCHANGED unit
  BY <1>1, TokenRead
<1>4. PICK e : e = (IF AtScalar THEN "syntax" ELSE "l_namikakko") /\ e # "none" /\ Refuse(e)
  <2>1. "syntax" # "none" /\ "l_namikakko" # "none"
    OBVIOUS
  <2>2. PICK e : e = (IF AtScalar THEN "syntax" ELSE "l_namikakko")
    OBVIOUS
  <2>3. Refuse(e)
    BY <1>1, <2>2
  <2> QED BY <2>1, <2>2, <2>3
<1> QED BY <1>2, <1>3, <1>4, RefuseInvariant

------------------------------------------------------------------------------
\* An element is complete

\* Behind token t the innermost braces are the n outermost ones, whose symbol got the
\* dimensions dims.
Completes(t, n, dims, items) ==
  /\ Scan(t) /\ t \in {"num", "str", "}"}
  /\ \E fs : Outermost(fs, n) /\ Complete(fs, dims, items)
  /\ mode # "end" /\ LayoutInv' /\ Steady
  \* The symbol of the variable got one only where it had none.
  /\ Under(n).ref = Object =>
       /\ dims \in Seq(Nat) /\ Len(dims) = Len(var.dims)
       /\ \A d \in 1..Len(var.dims) : dims[d] # var.dims[d] => var.dims[d] = 0 /\ d = n + 1

\* What becomes of the state.
LEMMA CompleteState ==
  ASSUME InitialiserInv, Filling, NEW t, NEW n, NEW dims, NEW items, Completes(t, n, dims, items)
  PROVE  /\ Advance /\ ObjectInv'
         /\ next' = next + 1 /\ TokenAt(next) = t /\ At = next
         /\ n \in 0..Depth /\ n \in Nat /\ Depth' = n /\ \A j \in 1..n : frames'[j] = frames[j]
         /\ Prefix(Depth)' = Prefix(n)
         /\ mode' = (IF n = 0 THEN "end" ELSE "after") /\ (frames' = <<>> <=> n = 0)
         /\ data' = data \o (items \o IF n = 0 THEN strings' ELSE <<>>)
         /\ var'.dims = IF Under(n).ref = Object THEN dims ELSE var.dims
<1>1. PICK fs : Outermost(fs, n) /\ Complete(fs, dims, items)
  BY DEF Completes
<1>2. next' = next + 1 /\ UNCHANGED unit /\ TokenAt(next) = t /\ At = next
  BY TokenRead DEF Completes
<1>3. Depth \in Nat /\ var \in Objects /\ var.dims \in Seq(Nat) /\ pass = "PASS3"
      /\ mode # "none" /\ err = "none"
  BY GoingProp
<1>4. /\ n \in 0..Depth /\ n \in Nat /\ Len(fs) = n /\ (n = 0 <=> fs = <<>>)
      /\ DOMAIN fs = 1..n /\ \A j \in 1..n : fs[j] = frames[j]
  BY <1>1, <1>3 DEF Outermost, Depth
<1>5. Place(fs) = Under(n)
  <2>1. FramesInv /\ n \in 0..Len(frames)
    BY <1>3, <1>4, GoingProp DEF Depth
  <2> QED BY <1>4, <2>1, PlaceProp
<1>6. PICK p, old : p = Under(n) /\ old = Sym(p.ref)
  OBVIOUS
<1>7. PICK size : size = IF p.dim = 1 THEN Times(Bytes(old.type), dims) ELSE old.size
  OBVIOUS
<1>8. /\ frames' = fs /\ mode' = (IF fs = <<>> THEN "end" ELSE "after")
      /\ var' = IF p.ref = Object THEN [old EXCEPT !.dims = dims, !.size = size] ELSE var
      /\ data' = data \o (items \o IF fs = <<>> THEN strings' ELSE <<>>)
      /\ UNCHANGED <<pass, open, err>>
  BY <1>1, <1>3, <1>5, <1>6, <1>7 DEF Complete, Printed, Declared
<1>9. Depth' = n /\ \A j \in 1..n : frames'[j] = frames[j]
  BY <1>4, <1>8 DEF Depth
<1>10. Prefix(Depth)' = Prefix(n)
  <2>1. Prefix(Depth)' = [k \in 1..n |-> frames'[k].i]
    BY <1>9 DEF Prefix
  <2>2. Prefix(n) = [k \in 1..n |-> frames[k].i]
    BY DEF Prefix
  <2> QED BY <1>9, <2>1, <2>2
<1>11. /\ var' \in Objects /\ var'.at = var.at /\ var'.type = var.type /\ var'.init = var.init
       /\ Len(var'.dims) = Len(var.dims)
       /\ \A d \in 1..Len(var.dims) : var'.dims[d] # var.dims[d] => var.dims[d] = 0
       /\ var'.dims = IF Under(n).ref = Object THEN dims ELSE var.dims
  <2>1. CASE p.ref = Object
    <3>1. old = var /\ dims \in Seq(Nat) /\ Len(dims) = Len(var.dims)
          /\ \A d \in 1..Len(var.dims) : dims[d] # var.dims[d] => var.dims[d] = 0
      BY <1>6, <2>1 DEF Completes, Sym
    <3>2. size \in Int
      <4>1. Bytes(var.type) \in Int
        <5>1. LayoutInv /\ var.type \in Types /\ (var.type.base = "struct" => Known(var.type.tag))
          BY GoingProp
        <5> QED BY <5>1, BytesProp DEF LayoutInv
      <4>2. Times(Bytes(var.type), dims) \in Int
        <5>1. dims \in Seq(Int)
          BY <3>1
        <5> QED BY <4>1, <5>1, TimesProp
      <4> QED BY <1>3, <1>7, <3>1, <4>2 DEF Objects
    <3>3. var' = [var EXCEPT !.dims = dims, !.size = size]
      BY <1>8, <2>1, <3>1
    <3>4. /\ var' \in Objects /\ var'.at = var.at /\ var'.type = var.type /\ var'.init = var.init
          /\ var'.dims = dims
      BY <1>3, <3>1, <3>2, <3>3 DEF Objects
    <3> QED BY <1>6, <2>1, <3>1, <3>4
  <2>2. CASE p.ref # Object
    BY <1>3, <1>6, <1>8, <2>2
  <2> QED BY <2>1, <2>2
<1>12. Filling' /\ mode' = (IF n = 0 THEN "end" ELSE "after")
  BY <1>3, <1>4, <1>8 DEF Filling
<1>13. Advance
  BY <1>2, <1>11, <1>12 DEF Advance, Completes
<1>14. ObjectInv'
  BY <1>13, AdvanceObject
<1>15. frames' = <<>> <=> n = 0
  BY <1>4, <1>8
<1>16. data' = data \o (items \o IF n = 0 THEN strings' ELSE <<>>)
  BY <1>4, <1>8
<1> QED BY <1>2, <1>4, <1>9, <1>10, <1>11, <1>12, <1>13, <1>14, <1>15, <1>16

\* The braces, the path and the dimensions then.
LEMMA CompleteText ==
  ASSUME InitialiserInv, Filling, NEW t, NEW n, NEW dims, NEW items, Completes(t, n, dims, items),
         Separated(next) => Follow(Path(next), t) = Prefix(n),
         PlainType(var.type)' /\ Told(next)' => \A d \in 1..Len(var'.dims) : d > n => var'.dims[d] # 0
  PROVE  BracesInv' /\ PathInv' /\ FirstInv' /\ CountsInv'
<1>1. /\ Advance /\ next' = next + 1 /\ TokenAt(next) = t
      /\ n \in 0..Depth /\ n \in Nat /\ Depth' = n /\ \A j \in 1..n : frames'[j] = frames[j]
      /\ Prefix(Depth)' = Prefix(n)
      /\ mode' = (IF n = 0 THEN "end" ELSE "after") /\ (frames' = <<>> <=> n = 0)
      /\ var'.dims = IF Under(n).ref = Object THEN dims ELSE var.dims
  BY CompleteState
<1>2. Depth \in Nat /\ next \in Nat /\ var.at \in Nat /\ var.at < next
  BY GoingProp
<1>3. BracesInv'
  <2>1. SUFFICES ASSUME PlainType(var.type)', NEW j \in 1..n PROVE BraceInv(j)'
    BY <1>1 DEF BracesInv
  <2>2. j \in 1..Depth /\ frames'[j] = frames[j] /\ \A l \in 1..j-1 : frames'[l] = frames[l]
    BY <1>1, <1>2
  <2>3. j <= Len(var.dims) => var'.dims[j] = var.dims[j]
    <3>1. SUFFICES ASSUME j <= Len(var.dims), Under(n).ref = Object PROVE dims[j] = var.dims[j]
      BY <1>1
    <3>2. j \in 1..Len(var.dims) /\ j # n + 1
      <4>1. Len(var.dims) \in Nat
        BY GoingProp
      <4> QED BY <1>1, <3>1, <4>1
    <3> QED BY <3>1, <3>2 DEF Completes
  <2> QED BY <1>1, <2>1, <2>2, <2>3, AdvanceBrace
<1>4. PathInv'
  <2>1. mode' # "comma" /\ Indexes' = Prefix(n)
    BY <1>1 DEF Indexes
  <2>2. Separated(next)' => Path(next)' = Prefix(n)
    <3>1. Separated(next)' => Separated(next + 1) /\ Path(next)' = Follow(Path(next), t)
      BY <1>1, AdvanceText
    <3>2. Separated(next + 1) => Separated(next)
      BY <1>2, ToldBefore
    <3> QED BY <3>1, <3>2
  <2>3. next' - 1 > var'.at /\ TokenAt(next - 1)' = t
    <3>1. next' - 1 = next /\ var'.at = var.at /\ unit' = unit
      BY <1>1, <1>2 DEF Advance
    <3>2. TokenAt(next - 1)' = TokenAt(next)
      BY <3>1 DEF TokenAt
    <3> QED BY <1>1, <1>2, <3>1, <3>2
  <2>4. t \in {"num", "str", "}"}
    BY Zenon DEF Completes
  <2>5. mode' \in {"after", "comma"} => frames' # <<>>
    BY <1>1
  <2>6. TokenAt(next - 1)' \in {"num", "str", "}"}
    BY <2>3, <2>4, Zenon
  <2> QED BY <2>1, <2>2, <2>3, <2>5, <2>6, Zenon DEF PathInv
<1>5. FirstInv'
  <2>1. ~Parts(t)
    BY Zenon DEF Completes, Parts
  <2> QED BY <1>1, <2>1, AdvanceFirst
<1>6. CountsInv'
  BY <1>1 DEF CountsInv
<1> QED BY <1>3, <1>4, <1>5, <1>6

\* Without a string its text is not printed, and the strings before stay to be printed.
StringsLeft ==
  /\ strings' \in Seq(Items)
  /\ \A k \in 1..Len(strings') : strings'[k].bytes = 0 /\ strings'[k].text

\* So it is when no string is read.
LEMMA StringsStay ==
  ASSUME InitialiserInv, Filling, UNCHANGED strings
  PROVE  StringsLeft
BY DEF StringsLeft, InitialiserInv, StringsInv

\* A value that is where it belongs stays there.
LEMMA ValueKept ==
  ASSUME NEW T, Keeps(T), SameText, NEW tok \in Nat, tok > var.at, NEW bytes, NEW before,
         Told(tok) => /\ Unmoved(Path(tok)) /\ Fitting(Path(tok))
                      /\ ~NarrowString(tok) => Placed(Walk(Path(tok)), bytes, before)
  PROVE  Told(tok)' => /\ Fitting(Path(tok))'
                       /\ ~NarrowString(tok)' => Placed(Walk(Path(tok)), bytes, before)'
<1>1. SUFFICES ASSUME Told(tok)'
               PROVE  /\ Fitting(Path(tok))'
                      /\ ~NarrowString(tok)' => Placed(Walk(Path(tok)), bytes, before)'
  OBVIOUS
<1>2. PICK path : path = Path(tok)
  OBVIOUS
<1>3. Told(tok) /\ Path(tok)' = path /\ TokenAt(tok)' = TokenAt(tok) /\ path \in Seq(Nat)
  <2>1. Path(tok) \in Seq(Nat)
    BY PathGoesOn DEF PathRule, SameText
  <2> QED BY <1>1, <1>2, <2>1, TextKept
<1>4. SamePlace(path) /\ Fitting(path)' /\ Typed(Walk(path), T)
  BY <1>2, <1>3, WalkKept
<1>5. PICK w, v : w = Walk(path) /\ v = Walk(path)'
  OBVIOUS
<1>6. v.type = w.type /\ v.dim = w.dim /\ v.at = w.at /\ Len(v.dims) = Len(w.dims)
  BY <1>4, <1>5 DEF SamePlace
<1>7. ASSUME ~NarrowString(tok)' PROVE Placed(v, bytes, before)'
  <2>1. ~NarrowString(tok)
    <3>1. PICK type : type = var.type
      OBVIOUS
    <3>2. var'.type = type /\ type \in Types /\ (type.base = "struct" => Known(type.tag))
      BY <3>1 DEF Keeps, ObjectIn, TypeIn
    <3>3. Bytes(type)' = Bytes(type)
      BY <3>2, BytesSteady DEF Keeps
    <3>4. Bytes(var.type)' = Bytes(type)'
      BY <3>2
    <3>5. var.dims = <<>> => var'.dims = <<>>
      BY DEF Keeps
    <3> QED BY <1>3, <1>7, <3>1, <3>2, <3>3, <3>4, <3>5 DEF NarrowString, Simple
  <2>2. w.dim = Len(w.dims) /\ bytes = Bytes(w.type) /\ before = w.at
    BY <1>2, <1>3, <1>5, <2>1 DEF Placed
  <2>3. Bytes(w.type)' = Bytes(w.type)
    <3>1. PICK type : type = w.type
      OBVIOUS
    <3>2. type \in Types /\ (type.base = "struct" => Known(type.tag))
      BY <1>4, <1>5, <3>1 DEF Typed, TypeIn
    <3> QED BY <3>1, <3>2, BytesSteady DEF Keeps
  <2> QED BY <1>6, <2>2, <2>3 DEF Placed
<1>8. Fitting(Path(tok))' <=> Fitting(path)'
  BY <1>3
<1>9. Placed(Walk(Path(tok)), bytes, before)' <=> Placed(v, bytes, before)'
  BY <1>3, <1>5
<1> QED BY <1>4, <1>7, <1>8, <1>9

\* The bytes then.  Of the items that are printed only the first may be a value, at t.
LEMMA CompleteBytes ==
  ASSUME InitialiserInv, Filling, NEW t, NEW n, NEW dims, NEW items, Completes(t, n, dims, items),
         StringsLeft,
         PlainType(var.type)' =>
           /\ items \in Seq(Items)
           /\ \A k \in 1..Len(items) : items[k].tok # 0 =>
                /\ k = 1 /\ items[k].tok = next
                /\ Told(next) =>
                     /\ Fitting(Path(next))
                     /\ ~NarrowString(next) => Placed(Walk(Path(next)), items[k].bytes, Total(data)),
         NEW path, path = Prefix(n), NEW v, v = Walk(path)',
         PlainType(var.type)' /\ Told(next)' /\ (n = 0 => Wide') =>
           Total(data) + Total(items) = v.at + RowBytes(v, v.dim)'
  PROVE  PrintedInv' /\ SumInv' /\ StringsInv'
<1>1. /\ Advance /\ next' = next + 1 /\ n \in Nat
      /\ mode' = (IF n = 0 THEN "end" ELSE "after")
      /\ data' = data \o (items \o IF n = 0 THEN strings' ELSE <<>>)
  BY CompleteState
<1>2. /\ next \in Nat /\ var.at \in Nat /\ var.at < next /\ pass = "PASS3"
      /\ var'.at = var.at /\ var'.type = var.type /\ Filling'
  BY <1>1, GoingProp DEF Advance
<1>3. StringsInv'
  BY DEF StringsInv, StringsLeft
<1>4. PICK rest : rest = IF n = 0 THEN strings' ELSE <<>>
  OBVIOUS
<1>5. rest \in Seq(Items) /\ Total(rest) = 0 /\ \A k \in 1..Len(rest) : rest[k].text
  <2>1. CASE n = 0
    <3>1. rest = strings'
      BY <1>4, <2>1
    <3>2. rest \in Seq(Items) /\ \A k \in 1..Len(rest) : rest[k].bytes = 0 /\ rest[k].text
      BY <3>1 DEF StringsLeft
    <3> QED BY <3>2, TotalZero
  <2>2. CASE n # 0
    <3>1. rest = <<>> /\ 1..0 = {}
      BY <1>4, <2>2
    <3> QED BY <3>1, TotalNone
  <2> QED BY <2>1, <2>2
<1>6. ASSUME PlainType(var.type)'
      PROVE  /\ data \in Seq(Items) /\ items \in Seq(Items) /\ data' \in Seq(Items)
             /\ Total(data') = Total(data) + Total(items)
             /\ Total(data) \in Int
             /\ Len(data) <= Len(data') /\ \A k \in 1..Len(data) : data'[k] = data[k]
             /\ \A k \in Len(data)+1..Len(data') :
                  data'[k].text \/ (k - Len(data) \in 1..Len(items) /\ data'[k] = items[k - Len(data)])
  <2>1. data \in Seq(Items) /\ items \in Seq(Items)
    <3>1. PlainType(var.type)
      BY <1>1, <1>6, AdvanceKeeps
    <3> QED BY <1>6, <3>1 DEF InitialiserInv, PrintedInv
  <2>2. PICK more : more = items \o rest
    OBVIOUS
  <2>3. more \in Seq(Items) /\ Total(more) = Total(items) + 0 /\ Total(items) \in Int
    BY <1>5, <2>1, <2>2, TotalBoth
  <2>4. data' = data \o more
    BY <1>1, <1>4, <2>2
  <2>5. /\ data' \in Seq(Items) /\ Len(data) <= Len(data')
        /\ \A k \in 1..Len(data) : data'[k] = data[k]
        /\ Total(data') = Total(data) + Total(more) /\ Total(data) \in Int
    BY <2>1, <2>3, <2>4, TotalBoth
  <2>6. Total(data') = Total(data) + Total(items)
    BY <2>3, <2>5
  <2>7. ASSUME NEW k \in Len(data)+1..Len(data')
        PROVE  data'[k].text \/ (k - Len(data) \in 1..Len(items) /\ data'[k] = items[k - Len(data)])
    <3>1. PICK a, b, c \in Nat : a = Len(data) /\ b = Len(items) /\ c = Len(rest)
      BY <1>5, <2>1
    <3>2. Len(more) = b + c /\ Len(data') = a + (b + c)
      BY <1>5, <2>1, <2>2, <2>3, <2>4, <3>1
    <3>3. PICK l : l = k - a
      OBVIOUS
    <3>4. l \in 1..b+c /\ k = a + l
      BY <3>1, <3>2, <3>3
    <3>5. data'[k] = more[l]
      BY <2>1, <2>3, <2>4, <3>1, <3>2, <3>4
    <3>6. CASE l <= b
      <4>1. l \in 1..b /\ more[l] = items[l]
        BY <1>5, <2>1, <2>2, <3>1, <3>4, <3>6
      <4> QED BY <3>1, <3>3, <3>5, <4>1
    <3>7. CASE l > b
      <4>1. PICK h : h = l - b
        OBVIOUS
      <4>2. h \in 1..c /\ l = b + h
        BY <3>1, <3>4, <3>7, <4>1
      <4>3. more[l] = rest[h]
        BY <1>5, <2>1, <2>2, <3>1, <4>2
      <4> QED BY <1>5, <3>1, <3>5, <4>2, <4>3
    <3> QED BY <3>1, <3>4, <3>6, <3>7
  <2> QED BY <2>1, <2>5, <2>6, <2>7
<1>7. ASSUME PlainType(var.type)', NEW k \in 1..Len(data') PROVE Right(k)'
  <2>1. PICK a \in Nat : a = Len(data)
    BY <1>6, <1>7
  <2>2. CASE k <= a
    <3>1. k \in 1..Len(data)
      BY <1>6, <1>7, <2>1, <2>2
    <3> QED BY <1>1, <1>6, <1>7, <3>1, AdvanceRight
  <2>3. CASE k > a
    <3>1. PICK l : l = k - a
      OBVIOUS
    <3>2. k \in Len(data)+1..Len(data') /\ k = a + l
      BY <1>6, <1>7, <2>1, <2>3, <3>1
    <3>3. CASE data'[k].text
      BY <3>3 DEF Right
    <3>4. CASE l \in 1..Len(items) /\ data'[k] = items[l]
      <4>1. CASE items[l].tok = 0
        BY <3>4, <4>1 DEF Right
      <4>2. CASE items[l].tok # 0
        <5>1. l = 1 /\ items[l].tok = next /\ k - 1 = a
          BY <1>6, <1>7, <2>1, <3>2, <3>4, <4>2
        <5>2. data[k]'.tok = next /\ data[k]'.bytes = items[l].bytes
          BY <3>4, <5>1
        <5>3. BytesOf(data, k - 1)' = Total(data)
          <6>1. BytesOf(data', a) = BytesOf(data, a)
            <7>1. a \in 0..Len(data) /\ a <= Len(data')
              BY <1>6, <1>7, <2>1
            <7> QED BY <1>6, <1>7, <2>1, <7>1, BytesOfSame
          <6>2. BytesOf(data, k - 1)' = BytesOf(data', k - 1)
            BY DEF BytesOf
          <6> QED BY <2>1, <5>1, <6>1, <6>2 DEF Total
        <5>4. PICK tok, bytes, before : tok = next /\ bytes = items[l].bytes /\ before = Total(data)
          OBVIOUS
        <5>5. SameText /\ tok \in Nat /\ tok > var.at /\ tok \in var.at+1..next
          BY <1>1, <1>2, <5>4, AdvanceKeeps
        <5>6. PICK T : Keeps(T) /\ PlainType(var.type)
          BY <1>1, <1>7, AdvanceKeeps
        <5>7. Told(tok) => /\ Unmoved(Path(tok)) /\ Fitting(Path(tok))
                           /\ ~NarrowString(tok) => Placed(Walk(Path(tok)), bytes, before)
          BY <1>1, <1>7, <3>4, <4>2, <5>1, <5>4, <5>5, <5>6, AdvanceUnmoved
        <5>8. Told(tok)' => /\ Fitting(Path(tok))'
                            /\ ~NarrowString(tok)' => Placed(Walk(Path(tok)), bytes, before)'
          BY <5>5, <5>6, <5>7, ValueKept
        <5>9. /\ data'[k].tok = tok /\ data'[k].bytes = bytes /\ BytesOf(data, k - 1)' = before
          BY <5>2, <5>3, <5>4
        <5>10. /\ Told(data[k].tok)' = Told(tok)' /\ Path(data[k].tok)' = Path(tok)'
               /\ NarrowString(data[k].tok)' = NarrowString(tok)'
          BY <5>9
        <5>11. var'.at < tok /\ tok < next'
          BY <1>1, <1>2, <5>4
        <5>12. Fitting(Path(data[k].tok))' = Fitting(Path(tok))'
               /\ Placed(Walk(Path(data[k].tok)), data[k].bytes, BytesOf(data, k - 1))'
                    = Placed(Walk(Path(tok)), bytes, before)'
          BY <5>9
        <5> QED BY <5>8, <5>9, <5>10, <5>11, <5>12 DEF Right
      <4> QED BY <4>1, <4>2
    <3> QED BY <1>6, <1>7, <2>1, <3>1, <3>2, <3>3, <3>4
  <2> QED BY <2>1, <2>2, <2>3, <1>6, <1>7
<1>8. PrintedInv'
  <2>1. pass' # "PASS1"
    BY <1>1 DEF Advance, Filling
  <2> QED BY <1>6, <1>7, <2>1 DEF PrintedInv
<1>9. SumInv'
  <2>1. ASSUME PlainType(var.type)', Told(next)', mode' = "end" => Wide'
        PROVE  Total(data)' = v.at + RowBytes(v, v.dim)'
    <3>1. n = 0 => Wide'
      BY <1>1, <2>1
    <3>2. Total(data)' = Total(data')
      BY DEF Total
    <3> QED BY <1>6, <2>1, <3>1, <3>2
  <2>2. mode' \notin {"value", "more"} /\ path = Prefix(Depth)'
    BY <1>1, CompleteState
  <2> QED BY <2>1, <2>2, SumThen
<1> QED BY <1>3, <1>8, <1>9

------------------------------------------------------------------------------
\* A number and a string

\* Where a value is looked for that is no array and no structure.
LEMMA ScalarHere ==
  ASSUME InitialiserInv, Filling, AtScalar, NEW T, Keeps(T), Cursor(Depth, T),
         NEW w, w = Walk(Prefix(Depth))
  PROVE  /\ w.type = HereSym.type /\ w.dims = HereSym.dims /\ w.dim = Len(w.dims) /\ Typed(w, T)
         /\ Fitting(Prefix(Depth)) /\ Prefix(Depth) \in Seq(Nat)
         /\ Depth >= Len(var.dims)
         /\ RowBytes(w, w.dim) = Bytes(w.type) /\ Bytes(w.type) \in Int
<1>1. Here = Under(Depth) /\ Depth \in Nat /\ Len(var.dims) \in Nat
  BY GoingProp
<1>2. /\ w.type = HereSym.type /\ w.dims = HereSym.dims /\ Here.dim = w.dim + 1 /\ Typed(w, T)
      /\ Fitting(Prefix(Depth)) /\ Prefix(Depth) \in Seq(Nat)
      /\ Here.ref = Object => w.dim = Depth /\ Depth <= Len(var.dims)
      /\ Here.ref # Object => Depth > Len(var.dims)
  BY <1>1 DEF Cursor, HereSym
<1>3. w.dim \in Nat /\ w.dims \in Seq(Nat) /\ Len(w.dims) \in Nat /\ w.dim <= Len(w.dims) /\ TypeIn(w.type, T)
  BY <1>2 DEF Typed, Steps
<1>4. ~(Here.dim <= Len(HereSym.dims))
  BY DEF AtScalar, AtRow
<1>5. w.dim = Len(w.dims)
  BY <1>2, <1>3, <1>4
<1>6. Here.ref = Object => w.dims = var.dims
  BY <1>2 DEF HereSym, Sym
<1>7. Depth >= Len(var.dims)
  BY <1>1, <1>2, <1>5, <1>6
<1>8. RowBytes(w, w.dim) = Bytes(w.type)
  <2>1. w.dim \in 0..Len(w.dims) /\ LayoutInv
    BY <1>3 DEF Keeps
  <2> QED BY <1>3, <1>5, <2>1, RowBytesProp
<1>9. Bytes(w.type) \in Int
  BY <1>3, BytesProp DEF Keeps, LayoutInv, TypeIn
<1> QED BY <1>2, <1>5, <1>7, <1>8, <1>9

\* A value of so many bytes is printed.
LEMMA ScalarInvariant ==
  ASSUME InitialiserInv, Filling, Wanted, AtScalar, NEW t, NEW bytes, Bytes(HereSym.type) \in Int => bytes \in Int,
         ~Opens(t), ~Closes(t), ~Parts(t),
         Completes(t, Depth, HereSym.dims, Entry(bytes, next, FALSE)), StringsLeft,
         PlainType(var.type) /\ NarrowString(next) => Depth = 0,
         PlainType(var.type) /\ ~NarrowString(next) => bytes = Bytes(HereSym.type)
  PROVE  InitialiserInv'
<1>1. PICK n, items, dims : n = Depth /\ items = Entry(bytes, next, FALSE) /\ dims = HereSym.dims
  OBVIOUS
<1>2. Completes(t, n, dims, items)
  BY <1>1
<1>3. /\ Advance /\ ObjectInv' /\ next' = next + 1 /\ n \in 0..Depth /\ n \in Nat
      /\ var'.dims = IF Under(n).ref = Object THEN dims ELSE var.dims
  BY <1>2, CompleteState
<1>4. next \in Nat /\ mode \in {"value", "more"} /\ Here = Under(n)
  BY <1>1, GoingProp DEF Wanted
<1>5. var'.dims = var.dims
  <2>1. Under(n).ref = Object => dims = var.dims
    BY <1>1, <1>4 DEF HereSym, Sym
  <2> QED BY <1>3, <2>1
<1>6. Separated(next) => Path(next) = Prefix(n) /\ Follow(Path(next), t) = Prefix(n)
  <2>1. Separated(next) => Path(next) = Prefix(n)
    BY <1>1, <1>4, PrefixProp DEF InitialiserInv, PathInv
  <2> QED BY <2>1, FollowCases
<1>7. PICK w, v, path : path = Prefix(n) /\ w = Walk(path) /\ v = Walk(path)'
  OBVIOUS
<1>8. ASSUME PlainType(var.type)'
      PROVE  \E T : /\ Keeps(T) /\ PlainType(var.type) /\ Cursor(n, T) /\ Typed(w, T) /\ Fitting(path)
                    /\ w.dim = Len(w.dims) /\ w.type = HereSym.type /\ Depth >= Len(var.dims)
                    /\ RowBytes(w, w.dim) = Bytes(w.type) /\ Bytes(w.type) \in Int
                    /\ v = w /\ RowBytes(v, v.dim)' = Bytes(w.type)
  <2>1. PICK T : Keeps(T) /\ PlainType(var.type) /\ Cursor(n, T)
    BY <1>3, <1>8, AdvanceKeeps
  <2>2. /\ Typed(w, T) /\ w.dim = Len(w.dims) /\ w.type = HereSym.type /\ Depth >= Len(var.dims)
        /\ RowBytes(w, w.dim) = Bytes(w.type) /\ Bytes(w.type) \in Int
        /\ Fitting(path) /\ path \in Seq(Nat)
    BY <1>1, <1>7, <2>1, ScalarHere
  <2>3. v = w
    BY <1>5, <1>7, <2>1, <2>2, WalkSame
  <2>4. PICK d : d = w.dim
    OBVIOUS
  <2>5. RowBytes(w, d)' = RowBytes(w, d)
    BY <2>1, <2>2, RowBytesSame
  <2> QED BY <2>1, <2>2, <2>3, <2>4, <2>5
<1>9. ASSUME PlainType(var.type)'
      PROVE  /\ items \in Seq(Items) /\ Len(items) = 1 /\ Total(items) = bytes
             /\ items[1].bytes = bytes /\ items[1].tok = next
  <2>1. next \in Int /\ FALSE \in BOOLEAN
    BY <1>4
  <2>2. bytes \in Int
    BY <1>9, <1>8
  <2>3. \A text \in BOOLEAN : \A e : e = Entry(bytes, next, text) =>
          e \in Seq(Items) /\ Len(e) = 1 /\ Total(e) = bytes /\ e[1].bytes = bytes /\ e[1].tok = next
    BY <2>1, <2>2, TotalEntry
  <2> QED BY <1>1, <2>1, <2>3, Zenon
<1>10. BracesInv' /\ PathInv' /\ FirstInv' /\ CountsInv'
  <2>1. PlainType(var.type)' => \A d \in 1..Len(var'.dims) : ~(d > n)
    <3>1. Len(var.dims) \in Nat
      BY GoingProp
    <3> QED BY <1>1, <1>3, <1>5, <1>8, <3>1
  <2> QED BY <1>2, <1>6, <2>1, CompleteText
<1>11. PrintedInv' /\ SumInv' /\ StringsInv'
  <2>1. ASSUME PlainType(var.type)', NEW k \in 1..Len(items), items[k].tok # 0
        PROVE  /\ k = 1 /\ items[k].tok = next
               /\ Told(next) =>
                    /\ Fitting(Path(next))
                    /\ ~NarrowString(next) => Placed(Walk(Path(next)), items[k].bytes, Total(data))
    <3>1. k = 1 /\ items[k].tok = next /\ items[k].bytes = bytes
      <4>1. Len(items) = 1 /\ items[1].bytes = bytes /\ items[1].tok = next
        BY <1>9, <2>1
      <4>2. k = 1
        BY <2>1, <4>1
      <4> QED BY <4>1, <4>2
    <3>2. ASSUME Told(next)
          PROVE  /\ Fitting(Path(next))
                 /\ ~NarrowString(next) => Placed(Walk(Path(next)), bytes, Total(data))
      <4>1. Path(next) = path
        BY <1>6, <1>7, <3>2 DEF Told
      <4>2. PICK T : /\ PlainType(var.type) /\ Fitting(path) /\ Typed(w, T)
                     /\ w.dim = Len(w.dims) /\ w.type = HereSym.type
        BY <1>8, <2>1
      <4>3. Total(data) = w.at
        <5>1. Total(data) = Covered(w)
          BY <1>1, <1>4, <1>7, <3>2, <4>2, SumNow
        <5>2. w.at \in Int
          BY <4>2 DEF Typed, Steps
        <5> QED BY <1>4, <5>1, <5>2 DEF Covered
      <4>4. ~NarrowString(next) => bytes = Bytes(w.type)
        BY <4>2
      <4> QED BY <1>7, <4>1, <4>2, <4>3, <4>4 DEF Placed
    <3> QED BY <3>1, <3>2
  <2>2. ASSUME PlainType(var.type)', Told(next)', n = 0 => Wide'
        PROVE  Total(data) + Total(items) = v.at + RowBytes(v, v.dim)'
    <3>1. PICK T : /\ Keeps(T) /\ PlainType(var.type) /\ Typed(w, T) /\ w.type = HereSym.type
                   /\ v = w /\ RowBytes(v, v.dim)' = Bytes(w.type)
      BY <1>8, <2>2
    <3>2. Total(data) = w.at
      <4>1. Told(next)
        BY <1>3, <2>2, AdvanceText
      <4>2. Total(data) = Covered(w)
        BY <1>1, <1>4, <1>7, <3>1, <4>1, SumNow
      <4>3. w.at \in Int
        BY <3>1 DEF Typed, Steps
      <4> QED BY <1>4, <4>2, <4>3 DEF Covered
    <3>3. ~NarrowString(next)
      <4>1. SUFFICES ASSUME NarrowString(next) PROVE FALSE
        OBVIOUS
      <4>2. Wide'
        BY <1>1, <2>2, <3>1, <4>1
      <4>3. PICK tok : tok = next
        OBVIOUS
      <4>4. tok \in var'.at+1..next'-1 /\ var'.at = var.at
        <5>1. var'.at = var.at /\ var.at \in Nat /\ var.at < next
          BY <1>3, GoingProp DEF Advance
        <5> QED BY <1>3, <1>4, <4>3, <5>1
      <4>5. ~NarrowString(tok)'
        BY <4>2, <4>4 DEF Wide
      <4>6. PICK type : type = var.type
        OBVIOUS
      <4>7. var'.type = type /\ type \in Types /\ (type.base = "struct" => Known(type.tag))
        BY <3>1, <4>6 DEF Keeps, ObjectIn, TypeIn
      <4>8. Bytes(type)' = Bytes(type) /\ Bytes(var.type)' = Bytes(type)'
        BY <3>1, <4>7, BytesSteady DEF Keeps
      <4>9. TokenAt(tok)' = TokenAt(tok)
        BY <1>3 DEF TokenAt, Advance
      <4> QED BY <1>5, <4>1, <4>3, <4>5, <4>6, <4>7, <4>8, <4>9 DEF NarrowString, Simple
    <3>4. bytes = Bytes(w.type)
      BY <3>1, <3>3
    <3> QED BY <1>9, <2>2, <3>1, <3>2, <3>4
  <2> QED BY <1>2, <1>9, <1>7, <2>1, <2>2, CompleteBytes
<1>12. LayoutInv'
  BY <1>2 DEF Completes
<1> QED BY <1>3, <1>10, <1>11, <1>12 DEF InitialiserInv

\* What is no brace and no comma.
Plainly(t) == t \in {"num", "str"}

\* Such a token is none of them, and a value it is.
LEMMA NoMark ==
  ASSUME NEW t, Plainly(t)
  PROVE  ~Opens(t) /\ ~Closes(t) /\ ~Parts(t) /\ t \in {"num", "str", "}"}
BY Zenon DEF Plainly, Opens, Closes, Parts

\* The symbol here keeps its dimensions.
LEMMA CompletesHere ==
  ASSUME InitialiserInv, Filling, Wanted, NEW t, Plainly(t), Scan(t), NEW items,
         Complete(frames, HereSym.dims, items), LayoutInv', Steady
  PROVE  Completes(t, Depth, HereSym.dims, items)
<1>1. Outermost(frames, Depth) /\ Here = Under(Depth) /\ var.dims \in Seq(Nat) /\ mode # "end"
  BY GoingProp DEF Wanted
<1>2. Under(Depth).ref = Object => HereSym = var
  BY <1>1 DEF HereSym, Sym
<1>3. t \in {"num", "str", "}"}
  BY NoMark
<1> HIDE DEF HereSym, Steady
<1>4. Under(Depth).ref = Object =>
        /\ HereSym.dims \in Seq(Nat) /\ Len(HereSym.dims) = Len(var.dims)
        /\ \A d \in 1..Len(var.dims) : HereSym.dims[d] # var.dims[d] => var.dims[d] = 0 /\ d = Depth + 1
  BY <1>1, <1>2
<1> QED BY <1>1, <1>3, <1>4, Zenon DEF Completes

\* A number.
LEMMA NumberInvariant ==
  ASSUME InitialiserInv, Filling, Number
  PROVE  InitialiserInv'
<1>1. LayoutInv' /\ Steady
  BY NumberStep DEF InitialiserInv
<1>2. PICK t : t = "num" /\ Plainly(t) /\ Scan(t)
  BY Zenon DEF Number, Plainly
<1>3. At = next /\ TokenAt(next) = t
  BY <1>2, TokenRead
<1>4. PICK bytes : bytes = Bytes(HereSym.type)
  OBVIOUS
<1>5. Wanted /\ AtScalar /\ UNCHANGED strings /\ Complete(frames, HereSym.dims, Entry(bytes, next, FALSE))
  BY <1>3, <1>4, Zenon DEF Number
<1>6. Completes(t, Depth, HereSym.dims, Entry(bytes, next, FALSE))
  BY <1>1, <1>2, <1>5, CompletesHere, Zenon
<1>7. ~NarrowString(next)
  BY <1>2, <1>3 DEF NarrowString
<1>8. Bytes(HereSym.type) \in Int => bytes \in Int
  BY <1>4
<1> QED BY <1>2, <1>4, <1>5, <1>6, <1>7, <1>8, NoMark, StringsStay, ScalarInvariant, Zenon

\* The variable is no array and no structure: no brace is open.
LEMMA SimpleDepth ==
  ASSUME InitialiserInv, Filling, PlainType(var.type), Simple
  PROVE  Depth = 0 /\ HereSym = var
<1>1. Depth = 0
  <2>1. SUFFICES ASSUME Depth # 0 PROVE FALSE
    OBVIOUS
  <2>2. 1 \in 1..Depth /\ LayoutInv
    BY <2>1, GoingProp
  <2>3. BraceInv(1) /\ RowInv(1) /\ frames[1].dim \in Nat
    BY <2>2, FrameProp DEF InitialiserInv, BracesInv
  <2>4. Under(1 - 1) = [ref |-> Object, dim |-> 1]
    BY DEF Under
  <2>5. Sym(Under(1 - 1).ref) = var
    BY <2>4 DEF Sym
  <2>6. frames[1].dim <= 0 /\ frames[1].kind = "row"
    BY <2>3, <2>5 DEF BraceInv, Simple
  <2> QED BY <2>3, <2>6 DEF RowInv
<1>2. Here = Under(0)
  BY <1>1, GoingProp
<1> QED BY <1>1, <1>2 DEF HereSym, Under, Sym

\* What is read of a string that is stored.
Stores(t, bytes) ==
  /\ Wanted /\ AtScalar /\ Scan(t) /\ Plainly(t)
  /\ Simple \/ Bytes(HereSym.type) = bytes
  /\ \E text \in BOOLEAN : strings' = (IF Simple THEN <<>> ELSE strings \o Entry(0, next, text)) /\ text
  /\ Complete(frames, HereSym.dims, Entry(bytes, next, FALSE))

\* String refuses, or stores the four bytes of a pointer and keeps the text for later: what
\* array_init_sub and c32_global_array_init do with a string.
LEMMA StringCases ==
  ASSUME String, At = next
  PROVE  (\E e : e # "none" /\ Refuse(e)) \/ (\E t, bytes : t = "str" /\ bytes = 4 /\ Stores(t, bytes))
BY Zenon DEF String, Stores, Plainly

\* Two lists of such items make one.
LEMMA JoinedItems ==
  ASSUME NEW a \in Seq(Items), NEW b \in Seq(Items), NEW S,
         \A k \in 1..Len(a) : a[k] \in S, \A k \in 1..Len(b) : b[k] \in S
  PROVE  \A k \in 1..Len(a \o b) : (a \o b)[k] \in S
<1>1. SUFFICES ASSUME NEW k \in 1..Len(a \o b) PROVE (a \o b)[k] \in S
  OBVIOUS
<1>2. Len(a \o b) = Len(a) + Len(b) /\ Len(a) \in Nat /\ Len(b) \in Nat
  OBVIOUS
<1>3. CASE k <= Len(a)
  BY <1>2, <1>3
<1>4. CASE k > Len(a)
  <2>1. (a \o b)[k] = b[k - Len(a)] /\ k - Len(a) \in 1..Len(b)
    BY <1>2, <1>4
  <2> QED BY <2>1
<1> QED BY <1>2, <1>3, <1>4

\* The strings so far and one more are to be printed.
Texts == {r \in Items : r.bytes = 0 /\ r.text}

\* The new string is printed after the values, as the others are.
LEMMA StringsMore ==
  ASSUME InitialiserInv, Filling, NEW text \in BOOLEAN, text,
         strings' = IF Simple THEN <<>> ELSE strings \o Entry(0, next, text)
  PROVE  StringsLeft
<1>1. strings \in Seq(Items) /\ \A k \in 1..Len(strings) : strings[k] \in Texts
  <2>1. strings \in Seq(Items) /\ \A k \in 1..Len(strings) : strings[k].bytes = 0 /\ strings[k].text
    BY DEF InitialiserInv, StringsInv
  <2>2. \A k \in 1..Len(strings) : strings[k] \in Items
    BY <2>1
  <2> QED BY <2>1, <2>2, Zenon DEF Texts
<1>2. <<>> \in Seq(Items) /\ Len(<<>>) = 0
  BY TotalNone
<1>3. PICK e : e = Entry(0, next, text)
  OBVIOUS
<1>4. e \in Seq(Items) /\ \A k \in 1..Len(e) : e[k] \in Texts
  <2>1. next \in Int /\ 0 \in Int
    BY GoingProp
  <2>2. \A x \in BOOLEAN : \A y : y = Entry(0, next, x) =>
          y \in Seq(Items) /\ Len(y) = 1 /\ y[1].bytes = 0 /\ y[1].text = x
    BY <2>1, TotalEntry
  <2>3. e \in Seq(Items) /\ Len(e) = 1 /\ e[1].bytes = 0 /\ e[1].text = text
    BY <1>3, <2>2, Zenon
  <2>4. e[1] \in Items
    BY <2>3
  <2>5. e[1] \in Texts
    BY <2>3, <2>4, Zenon DEF Texts
  <2> QED BY <2>3, <2>5
<1>5. strings' \in Seq(Items) /\ \A k \in 1..Len(strings') : strings'[k] \in Texts
  <2>1. CASE Simple
    BY <1>2, <2>1
  <2>2. CASE ~Simple
    <3>1. strings' = strings \o e
      BY <1>3, <2>2
    <3>2. strings \o e \in Seq(Items)
      BY <1>1, <1>4
    <3> QED BY <1>1, <1>4, <3>1, <3>2, JoinedItems
  <2> QED BY <2>1, <2>2
<1> QED BY <1>5, Zenon DEF StringsLeft, Texts

\* A string.
LEMMA StringInvariant ==
  ASSUME InitialiserInv, Filling, String
  PROVE  InitialiserInv'
<1>1. LayoutInv' /\ Steady
  BY StringStep DEF InitialiserInv
<1>2. PICK s : s = "str" /\ Scan(s)
  BY Zenon DEF String
<1>3. next' = next + 1 /\ UNCHANGED unit /\ At = next /\ TokenAt(next) = s
  BY <1>2, TokenRead
<1>4. CASE \E e : e # "none" /\ Refuse(e)
  <2>1. PICK e : e # "none" /\ Refuse(e)
    BY <1>4
  <2> QED BY <1>1, <1>3, <2>1, RefuseInvariant
<1>5. CASE \E t, bytes : t = "str" /\ bytes = 4 /\ Stores(t, bytes)
  <2>1. PICK t, bytes : t = "str" /\ bytes = 4 /\ Stores(t, bytes)
    BY <1>5
  <2>2. StringsLeft
    <3>1. PICK text \in BOOLEAN : strings' = (IF Simple THEN <<>> ELSE strings \o Entry(0, next, text)) /\ text
      BY <2>1 DEF Stores
    <3> QED BY <3>1, StringsMore
  <2>3. Completes(t, Depth, HereSym.dims, Entry(bytes, next, FALSE))
    BY <1>1, <2>1, CompletesHere, Zenon DEF Stores
  <2>4. PlainType(var.type) /\ NarrowString(next) => Depth = 0
    BY SimpleDepth DEF NarrowString
  <2>5. PlainType(var.type) /\ ~NarrowString(next) => bytes = Bytes(HereSym.type)
    <3>1. ~Simple => bytes = Bytes(HereSym.type)
      BY <2>1 DEF Stores
    <3>2. TokenAt(next) = "str"
      BY <1>2, <1>3
    <3>3. PlainType(var.type) /\ Simple => HereSym = var
      BY SimpleDepth
    <3>4. Simple /\ ~NarrowString(next) => Bytes(var.type) = bytes
      BY <2>1, <3>2 DEF NarrowString
    <3> QED BY <3>1, <3>3, <3>4
  <2>6. Bytes(HereSym.type) \in Int => bytes \in Int
    BY <2>1
  <2> QED BY <2>1, <2>2, <2>3, <2>4, <2>5, <2>6, NoMark, ScalarInvariant, Zenon DEF Stores
<1> QED BY <1>3, <1>4, <1>5, StringCases

------------------------------------------------------------------------------
\* What is filled up behind the last element

\* Items that stand for no value of the text.
Blank(items) == items \in Seq(Items) /\ \A k \in 1..Len(items) : items[k].tok = 0

\* They stay so when they are joined, and their bytes add up.
LEMMA BlankBoth ==
  ASSUME NEW a, NEW b, Blank(a), Blank(b)
  PROVE  Blank(a \o b) /\ Total(a \o b) = Total(a) + Total(b) /\ Total(a) \in Int /\ Total(b) \in Int
<1> DEFINE S == {r \in Items : r.tok = 0}
<1>1. ASSUME NEW c, Blank(c) PROVE c \in Seq(Items) /\ \A k \in 1..Len(c) : c[k] \in S
  BY <1>1 DEF Blank
<1>2. \A k \in 1..Len(a \o b) : (a \o b)[k] \in S
  <2>1. /\ a \in Seq(Items) /\ \A k \in 1..Len(a) : a[k] \in S
        /\ b \in Seq(Items) /\ \A k \in 1..Len(b) : b[k] \in S
    BY <1>1
  <2> HIDE DEF S
  <2> QED BY <2>1, JoinedItems
<1>3. a \o b \in Seq(Items) /\ Total(a \o b) = Total(a) + Total(b) /\ Total(a) \in Int /\ Total(b) \in Int
  BY TotalBoth DEF Blank
<1> QED BY <1>2, <1>3 DEF Blank

\* The zeroes that are filled in are such an item.
LEMMA BlankFill ==
  ASSUME NEW n \in Nat
  PROVE  Blank(Fill(n)) /\ Total(Fill(n)) = n
BY TotalFill DEF Blank

\* So is no item at all.
LEMMA BlankNone == Blank(<<>>) /\ Total(<<>>) = 0
BY TotalNone DEF Blank

\* The members behind the one that has been given, up to the end of the structure.
LEMMA RestOfStructProp ==
  ASSUME LayoutInv, NEW T \in SUBSET Structs, Plain(T), NEW s \in T, s = Top.ref.s,
         NEW i \in Nat, i = Top.i, i < Len(c32_st_root[s].elem)
  PROVE  /\ Blank(RestOfStruct)
         /\ Total(RestOfStruct) = c32_st_root[s].size - (Elem(s, i + 1).value + Elem(s, i + 1).size)
<1> DEFINE n == Len(Members)
           E(k) == Members[k].value + Members[k].size
           F(f) == f = [k \in 0..n |-> IF k <= Top.i + 1 THEN <<>> ELSE f[k-1] \o Fill(Members[k].size)]
           f == CHOOSE x : F(x)
           step == [k \in 1..n |-> [x \in Seq(Items) |->
                      IF k <= Top.i + 1 THEN <<>> ELSE x \o Fill(Members[k].size)]]
<1>1. /\ n \in Nat /\ i + 1 <= n /\ n # 0 /\ Members = c32_st_root[s].elem
      /\ \A k \in 1..n : k \in Places(s) /\ Members[k] = Elem(s, k)
  BY TablesProp DEF LayoutInv, Members, Places, Elem
<1>2. \A k \in 1..n : /\ Members[k].value \in Int /\ Members[k].size \in Nat
                      /\ E(k) \in Int
                      /\ E(k) = IF k < n THEN Members[k + 1].value ELSE c32_st_root[s].size
  <2>1. SUFFICES ASSUME NEW k \in 1..n
                 PROVE  /\ E(k) \in Int /\ Members[k].value \in Int /\ Members[k].size \in Nat
                        /\ E(k) = IF k < n THEN Members[k + 1].value ELSE c32_st_root[s].size
    OBVIOUS
  <2>2. PlainMember(s, k, T) /\ Elem(s, k) = Members[k] /\ Elem(s, k + 1) = Members[k + 1]
    BY <1>1, PlainProp DEF Elem
  <2>3. Members[k] \in Elems /\ Members[k].size >= 0
    BY <2>2 DEF PlainMember
  <2>4. E(k) = IF k < n THEN Members[k + 1].value ELSE c32_st_root[s].size
    BY <1>1, <2>2 DEF PlainMember
  <2> QED BY <2>3, <2>4 DEF Elems
<1>3. step \in [1..n -> [Seq(Items) -> Seq(Items)]]
  <2>1. ASSUME NEW k \in 1..n, NEW x \in Seq(Items)
        PROVE  (IF k <= Top.i + 1 THEN <<>> ELSE x \o Fill(Members[k].size)) \in Seq(Items)
    <3>1. Fill(Members[k].size) \in Seq(Items)
      BY <1>2, TotalFill
    <3> QED BY <3>1
  <2> QED BY <2>1
<1>4. PICK h : Iterates(h, n, Seq(Items), <<>>, step)
  <2>1. <<>> \in Seq(Items)
    OBVIOUS
  <2> HIDE DEF step, n
  <2> QED BY <1>1, <1>3, <2>1, Recursion
<1>5. F(h)
  <2>1. h \in [0..n -> Seq(Items)] /\ h[0] = <<>>
    BY <1>4 DEF Iterates
  <2>2. ASSUME NEW k \in 0..n
        PROVE  h[k] = IF k <= Top.i + 1 THEN <<>> ELSE h[k-1] \o Fill(Members[k].size)
    <3>1. CASE k = 0
      BY <2>1, <3>1
    <3>2. CASE k # 0
      <4>1. k \in 1..n /\ k - 1 \in 0..n
        BY <1>1, <3>2
      <4>2. h[k] = step[k][h[k-1]] /\ h[k-1] \in Seq(Items)
        BY <1>4, <4>1, <2>1 DEF Iterates
      <4> QED BY <4>1, <4>2
    <3> QED BY <3>1, <3>2
  <2> QED BY <2>1, <2>2
<1>6. F(f)
  <2> HIDE DEF F
  <2> QED BY <1>5
<1>7. RestOfStruct = f[n]
  BY DEF RestOfStruct
<1> HIDE DEF f
<1>8. \A k \in 0..n : f[k] = IF k <= i + 1 THEN <<>> ELSE f[k-1] \o Fill(Members[k].size)
  BY <1>6
<1> DEFINE Left(k) == Blank(f[k]) /\ (k >= i + 1 => Total(f[k]) = E(k) - E(i + 1))
           S == {k \in Nat : Left(k)}
<1>9. 0 \in S
  <2>1. f[0] = <<>>
    BY <1>1, <1>8
  <2> QED BY <2>1, BlankNone
<1>10. \A k \in 1..n : k - 1 \in S => k \in S
  <2>1. SUFFICES ASSUME NEW k \in 1..n, Left(k - 1) PROVE Left(k)
    OBVIOUS
  <2>2. E(k) \in Int /\ E(i + 1) \in Int
    <3>1. i + 1 \in 1..n
      BY <1>1
    <3> HIDE DEF E, n
    <3> QED BY <1>2, <3>1
  <2>3. CASE k <= i + 1
    <3>1. f[k] = <<>>
      BY <1>8, <2>3
    <3>2. k >= i + 1 => E(k) = E(i + 1)
      BY <2>3
    <3> QED BY <2>2, <3>1, <3>2, BlankNone
  <2>4. CASE k > i + 1
    <3>1. PICK l \in Nat : l = k - 1 /\ l >= i + 1 /\ l < n /\ l + 1 = k /\ l \in 1..n
      BY <1>1, <2>4
    <3>2. PICK b : b = Fill(Members[k].size)
      OBVIOUS
    <3>3. f[k] = f[l] \o b
      <4>1. k \in 0..n /\ ~(k <= i + 1) /\ k - 1 = l
        BY <1>1, <2>4, <3>1
      <4>2. f[k] = f[k-1] \o Fill(Members[k].size)
        BY <1>8, <4>1
      <4> QED BY <3>2, <4>1, <4>2
    <3>4. Blank(b) /\ Total(b) = Members[k].size
      BY <1>2, <3>2, BlankFill
    <3>5. Blank(f[l]) /\ Total(f[l]) = E(l) - E(i + 1)
      BY <2>1, <3>1
    <3>6. E(l) = Members[k].value
      BY <1>2, <3>1
    <3>7. Blank(f[k]) /\ Total(f[k]) = Total(f[l]) + Total(b)
      BY <3>3, <3>4, <3>5, BlankBoth
    <3>8. Members[k].value \in Int /\ Members[k].size \in Int
      BY <1>2
    <3>9. Total(f[k]) = E(k) - E(i + 1)
      <4>1. E(k) = Members[k].value + Members[k].size
        OBVIOUS
      <4> HIDE DEF E
      <4>2. PICK x, y, z \in Int : x = Members[k].value /\ y = Members[k].size /\ z = E(i + 1)
        BY <2>2, <3>8
      <4>3. Total(f[l]) = x - z
        BY <3>5, <3>6, <4>2
      <4>4. Total(f[k]) = x - z + y
        BY <3>4, <3>7, <4>2, <4>3
      <4>5. E(k) = x + y
        BY <4>1, <4>2
      <4> QED BY <4>2, <4>4, <4>5
    <3> QED BY <3>7, <3>9
  <2>5. k <= i + 1 \/ k > i + 1
    BY <1>1
  <2> HIDE DEF Left
  <2> QED BY <2>3, <2>4, <2>5
<1>11. n \in S
  <2> HIDE DEF Left
  <2>1. S \in SUBSET Nat /\ n \in 0..n
    BY <1>1
  <2> HIDE DEF S
  <2> QED BY <1>1, <1>9, <1>10, <2>1, UpTo
<1>12. Left(n)
  BY <1>11
<1>13. E(n) = c32_st_root[s].size /\ E(i + 1) = Elem(s, i + 1).value + Elem(s, i + 1).size
  <2>1. n \in 1..n /\ i + 1 \in 1..n
    BY <1>1
  <2>2. E(n) = c32_st_root[s].size
    <3> HIDE DEF E
    <3> QED BY <1>2, <2>1
  <2>3. Members[i + 1] = Elem(s, i + 1)
    BY <1>1, <2>1
  <2> QED BY <2>2, <2>3
<1> QED BY <1>1, <1>7, <1>12, <1>13

\* A closing brace makes the element of the brace around it complete.
LEMMA CloseCompletes ==
  ASSUME InitialiserInv, Filling, After, NEW t, Closes(t), Scan(t), NEW n \in Nat, n + 1 = Depth,
         NEW dims, NEW items, Complete(Outer, dims, items), LayoutInv', Steady,
         Under(n).ref = Object =>
           /\ dims \in Seq(Nat) /\ Len(dims) = Len(var.dims)
           /\ \A d \in 1..Len(var.dims) : dims[d] # var.dims[d] => var.dims[d] = 0 /\ d = n + 1
  PROVE  Completes(t, n, dims, items)
<1>1. FramesInv /\ frames # <<>>
  BY GoingProp DEF After
<1>2. Len(frames) - 1 = n
  BY DEF Depth
<1>3. Outermost(Outer, n)
  BY <1>1, <1>2, OutermostBraces
<1>4. mode # "end"
  BY <1>1, GoingProp DEF FramesInv
<1>5. t \in {"num", "str", "}"}
  BY Zenon DEF Closes
<1> QED BY <1>3, <1>4, <1>5, Zenon DEF Completes

\* What the braces around it name is then looked at again.
LEMMA ClosePath ==
  ASSUME InitialiserInv, Filling, After, mode \in {"after", "comma"}, NEW t, Closes(t),
         NEW n \in Nat, n + 1 = Depth
  PROVE  Separated(next) => Follow(Path(next), t) = Prefix(n)
<1>1. SUFFICES ASSUME Separated(next) PROVE Follow(Path(next), t) = Prefix(n)
  OBVIOUS
<1>2. Path(next) = Indexes /\ frames # <<>>
  BY <1>1 DEF InitialiserInv, PathInv, After
<1>3. Follow(Path(next), t) = Front(Path(next))
  BY FollowCases
<1>4. Front(Prefix(Depth)) = Prefix(n) /\ Front(Raised) = Prefix(n)
  <2>1. PICK m \in Nat, outer \in Seq(Nat) :
          Depth = m + 1 /\ outer = Prefix(m) /\ Front(Prefix(Depth)) = outer /\ Front(Raised) = outer
    BY <1>2, RaisedProp
  <2>2. m = n
    BY <2>1
  <2> QED BY <2>1, <2>2
<1>5. Indexes = IF mode = "comma" THEN Raised ELSE Prefix(Depth)
  BY DEF Indexes, Raised
<1> QED BY <1>2, <1>3, <1>4, <1>5

\* With the rest of it the bytes of a structure are complete.
LEMMA StructBytes ==
  ASSUME InitialiserInv, Filling, After, ~InRow, NEW T, Keeps(T), NEW n \in Nat, n + 1 = Depth,
         Cursor(n, T), BraceInv(n + 1), NEW u, u = Walk(Prefix(n)), NEW w, w = Walk(Prefix(n + 1))
  PROVE  /\ Typed(u, T) /\ Fitting(Prefix(n)) /\ Prefix(n) \in Seq(Nat) /\ u.at \in Int
         /\ n >= Len(var.dims)
         /\ Blank(RestOfStruct)
         /\ RowBytes(u, u.dim) \in Int /\ w.at \in Int /\ RowBytes(w, w.dim) \in Int
         /\ w.at + RowBytes(w, w.dim) + Total(RestOfStruct) = u.at + RowBytes(u, u.dim)
<1>1. /\ LayoutInv /\ T \in SUBSET Structs /\ Plain(T) /\ ObjectIn(T)
      /\ frames # <<>> /\ n + 1 \in 1..Depth /\ Depth \in Nat
  BY GoingProp DEF Keeps, After
<1>0. Top = frames[n + 1] /\ frames[n + 1].i \in Nat
  BY <1>1, FrameProp DEF Top, Depth
<1>i. PICK i \in Nat : i = Top.i
  BY <1>0
<1>2. PICK f, sym : /\ i = Top.i /\ f = frames[n + 1] /\ f = Top
                    /\ sym = Sym(Under(n).ref) /\ f.kind # "row"
  BY <1>0, <1>i DEF InRow
<1>3. /\ Typed(u, T) /\ Fitting(Prefix(n)) /\ Prefix(n) \in Seq(Nat) /\ Len(Prefix(n)) = n
      /\ u.type = sym.type /\ u.dims = sym.dims /\ Under(n).dim = u.dim + 1
      /\ IF Under(n).ref = Object THEN u.dim = n ELSE n > Len(var.dims)
  BY <1>2 DEF Cursor
<1>4. u.dim \in Nat /\ u.dims \in Seq(Nat) /\ Len(u.dims) \in Nat /\ TypeIn(u.type, T) /\ u.at \in Int
  BY <1>3 DEF Typed, Steps
<1>5. /\ Under(n).dim = Len(sym.dims) + 1 /\ sym.type.base = "struct"
      /\ f.ref.s = StructOf(sym.type.tag) /\ f.i < Len(c32_st_root[f.ref.s].elem)
  <2>1. PICK j : j = n + 1 /\ j - 1 = n
    OBVIOUS
  <2>2. BraceInv(j) /\ f = frames[j] /\ sym = Sym(Under(j - 1).ref) /\ Under(j - 1) = Under(n)
    BY <1>2, <2>1
  <2> QED BY <1>2, <2>2 DEF BraceInv
<1>6. u.dim = Len(u.dims)
  <2>1. PICK a, b \in Nat : a = u.dim /\ b = Len(u.dims)
    BY <1>4
  <2>2. Under(n).dim = a + 1 /\ Under(n).dim = b + 1
    BY <1>3, <1>5, <2>1
  <2> QED BY <2>1, <2>2
<1>7. n >= Len(var.dims)
  <2>1. CASE Under(n).ref = Object
    <3>1. u.dims = var.dims /\ u.dim = n
      BY <1>2, <1>3, <2>1 DEF Sym
    <3> QED BY <1>4, <1>6, <3>1
  <2>2. CASE Under(n).ref # Object
    <3>1. Len(var.dims) \in Nat
      BY GoingProp
    <3> QED BY <1>3, <2>2, <3>1
  <2> QED BY <2>1, <2>2
<1>8. PICK s : s = Top.ref.s /\ s = StructOf(u.type.tag) /\ s \in T /\ i < Len(c32_st_root[s].elem)
               /\ u.type.base = "struct" /\ u.type.ptr = 0
  BY <1>2, <1>3, <1>4, <1>5 DEF TypeIn
<1>9. PICK e : e = Elem(s, i + 1)
  OBVIOUS
<1>10. /\ Blank(RestOfStruct)
       /\ Total(RestOfStruct) = c32_st_root[s].size - (e.value + e.size)
  BY <1>1, <1>2, <1>8, <1>9, RestOfStructProp
<1>11. RowBytes(u, u.dim) = c32_st_root[s].size /\ RowBytes(u, u.dim) \in Int
  <2>1. RowBytes(u, u.dim) = Bytes(u.type) /\ RowBytes(u, u.dim) \in Int
    <3>1. u.dim \in 0..Len(u.dims)
      BY <1>4, <1>6
    <3> QED BY <1>1, <1>4, <1>6, <3>1, RowBytesProp
  <2>2. Bytes(u.type) = c32_st_root[s].size
    BY <1>8 DEF Bytes, IsStruct
  <2> QED BY <2>1, <2>2
<1>12. PICK place : place = i + 1 /\ place \in Places(s) /\ e = Elem(s, place)
  BY <1>1, <1>8, <1>9, TablesProp DEF LayoutInv, Places
<1>13. e \in Elems /\ e.size = RowBytes(e, 0) /\ e.value \in Int /\ e.size \in Int
  <2>1. PlainMember(s, place, T)
    BY <1>1, <1>8, <1>12, PlainProp
  <2>2. e \in Elems /\ e.size = RowBytes(e, 0)
    BY <1>12, <2>1 DEF PlainMember
  <2> QED BY <2>2 DEF Elems
<1>14. w.at = u.at + e.value /\ RowBytes(w, w.dim) = e.size
  <2>1. w = Element(u, i)
    <3>1. Prefix(n + 1) = Append(Prefix(n), i)
      <4>1. PICK j : j = n + 1 /\ j - 1 = n /\ j \in 1..Depth
        BY <1>1
      <4>2. Prefix(j) = Append(Prefix(j - 1), frames[j].i)
        BY <1>1, <4>1, FrameProp
      <4> QED BY <1>2, <4>1, <4>2
    <3> QED BY <1>3, <3>1, WalkGoesOn DEF WalkRule
  <2>2. Fits(u, i) /\ u.dim >= Len(u.dims)
    <3>1. PICK a \in Nat : a = u.dim /\ a = Len(u.dims)
      BY <1>4, <1>6
    <3>2. ~(u.dim < Len(u.dims)) /\ u.dim >= Len(u.dims)
      BY <3>1
    <3> QED BY <1>8, <3>2 DEF Fits
  <2>3. w.type = e.type /\ w.dims = e.dims /\ w.dim = 0 /\ w.at = u.at + e.value
    BY <1>1, <1>3, <1>8, <1>9, <2>1, <2>2, MemberElement
  <2>4. RowBytes(w, w.dim) = RowBytes(e, 0)
    BY <2>3 DEF RowBytes
  <2> QED BY <1>13, <2>3, <2>4
<1>15. w.at + RowBytes(w, w.dim) + Total(RestOfStruct) = u.at + RowBytes(u, u.dim)
  BY <1>4, <1>10, <1>11, <1>13, <1>14
<1> QED BY <1>3, <1>4, <1>7, <1>10, <1>11, <1>13, <1>14, <1>15

\* The brace that ends a structure.
LEMMA CloseStructInvariant ==
  ASSUME InitialiserInv, Filling, CloseStruct
  PROVE  InitialiserInv'
<1>1. LayoutInv' /\ Steady
  BY CloseStructStep DEF InitialiserInv
<1>2. PICK t : Closes(t) /\ Scan(t)
  BY Zenon DEF CloseStruct, Closes
<1>3. PICK dims, items : /\ dims = Sym(Place(Outer).ref).dims /\ items = RestOfStruct
                         /\ Complete(Outer, dims, items)
  BY Zenon DEF CloseStruct
<1>4. After /\ ~InRow /\ frames # <<>> /\ mode \in {"after", "comma"} /\ UNCHANGED strings
  BY DEF CloseStruct, After
<1>5. PICK n \in Nat : Depth = n + 1
  BY <1>4, RaisedProp
<1>6. Completes(t, n, dims, items)
  <2>1. Place(Outer) = Under(n)
    <3>1. FramesInv /\ Len(frames) - 1 = n
      BY <1>5, GoingProp DEF Depth
    <3> QED BY <1>4, <3>1, PlaceOuter
  <2>2. Under(n).ref = Object => dims = var.dims
    BY <1>3, <2>1 DEF Sym
  <2>3. Under(n).ref = Object =>
          /\ dims \in Seq(Nat) /\ Len(dims) = Len(var.dims)
          /\ \A d \in 1..Len(var.dims) : dims[d] # var.dims[d] => var.dims[d] = 0 /\ d = n + 1
    BY <2>2, GoingProp
  <2> QED BY <1>1, <1>2, <1>3, <1>4, <1>5, <2>3, CloseCompletes, Zenon
<1>7. /\ Advance /\ ObjectInv' /\ next' = next + 1 /\ n \in 0..Depth
      /\ var'.dims = IF Under(n).ref = Object THEN dims ELSE var.dims
  BY <1>6, CompleteState
<1>8. var'.dims = var.dims
  <2>1. Place(Outer) = Under(n)
    <3>1. FramesInv /\ Len(frames) - 1 = n
      BY <1>5, GoingProp DEF Depth
    <3> QED BY <1>4, <3>1, PlaceOuter
  <2>2. Under(n).ref = Object => dims = var.dims
    BY <1>3, <2>1 DEF Sym
  <2> QED BY <1>7, <2>2
<1>9. PICK u, v, w, path : path = Prefix(n) /\ u = Walk(path) /\ v = Walk(path)' /\ w = Walk(Prefix(n + 1))
  OBVIOUS
<1>10. ASSUME PlainType(var.type)'
       PROVE  /\ PlainType(var.type) /\ n >= Len(var.dims) /\ Blank(items)
              /\ v = u /\ RowBytes(v, v.dim)' = RowBytes(u, u.dim)
              /\ w.at \in Int /\ RowBytes(w, w.dim) \in Int
              /\ w.at + RowBytes(w, w.dim) + Total(items) = u.at + RowBytes(u, u.dim)
  <2>1. PICK T : Keeps(T) /\ PlainType(var.type) /\ Cursor(n, T) /\ BraceInv(n + 1)
    <3>1. n + 1 \in 1..Depth
      BY <1>5
    <3> QED BY <1>7, <1>10, <3>1, AdvanceKeeps
  <2>2. /\ Typed(u, T) /\ Fitting(path) /\ path \in Seq(Nat) /\ n >= Len(var.dims) /\ Blank(items)
        /\ w.at \in Int /\ RowBytes(w, w.dim) \in Int
        /\ w.at + RowBytes(w, w.dim) + Total(items) = u.at + RowBytes(u, u.dim)
    BY <1>3, <1>4, <1>5, <1>9, <2>1, StructBytes
  <2>3. v = u
    BY <1>8, <1>9, <2>1, <2>2, WalkSame
  <2>4. PICK d : d = u.dim
    OBVIOUS
  <2>5. RowBytes(u, d)' = RowBytes(u, d)
    BY <2>1, <2>2, RowBytesSame
  <2> QED BY <2>1, <2>2, <2>3, <2>4, <2>5
<1>11. BracesInv' /\ PathInv' /\ FirstInv' /\ CountsInv'
  <2>1. PlainType(var.type)' => \A d \in 1..Len(var'.dims) : ~(d > n)
    <3>1. Len(var.dims) \in Nat
      BY GoingProp
    <3> QED BY <1>8, <1>10, <3>1
  <2>2. Separated(next) => Follow(Path(next), t) = Prefix(n)
    BY <1>2, <1>4, <1>5, ClosePath
  <2> QED BY <1>6, <2>1, <2>2, CompleteText
<1>12. PrintedInv' /\ SumInv' /\ StringsInv'
  <2>1. PlainType(var.type)' => items \in Seq(Items) /\ \A k \in 1..Len(items) : items[k].tok = 0
    BY <1>10 DEF Blank
  <2>2. ASSUME PlainType(var.type)', Told(next)'
        PROVE  Total(data) + Total(items) = v.at + RowBytes(v, v.dim)'
    <3>1. Told(next)
      BY <1>7, <2>2, AdvanceText
    <3>2. Total(data) = Covered(w)
      <4>1. PlainType(var.type) /\ mode # "end"
        BY <1>4, <1>10, <2>2
      <4>2. w = Walk(Prefix(Depth))
        BY <1>5, <1>9
      <4> QED BY <3>1, <4>1, <4>2, SumNow
    <3>3. Total(data) = w.at + RowBytes(w, w.dim)
      BY <1>4, <3>2 DEF Covered
    <3> QED BY <1>10, <2>2, <3>3
  <2>3. StringsLeft
    BY <1>4, StringsStay
  <2> QED BY <1>6, <1>9, <2>1, <2>2, <2>3, CompleteBytes
<1> QED BY <1>1, <1>7, <1>11, <1>12 DEF InitialiserInv

\* Nothing plain has a negative size.
LEMMA BytesPositive ==
  ASSUME LayoutInv, Growing = 0, NEW T \in SUBSET Structs, Plain(T), NEW type, TypeIn(type, T)
  PROVE  Bytes(type) \in Nat
<1>1. type \in Types /\ type.ptr \in Nat /\ type.base \in {"char", "short", "int", "struct"}
  BY DEF TypeIn, Types
<1>2. CASE IsStruct(type)
  <2>1. PICK s \in T : s = StructOf(type.tag)
    BY <1>2 DEF TypeIn, IsStruct
  <2>2. Bytes(type) = c32_st_root[s].size
    BY <1>2, <2>1 DEF Bytes, IsStruct
  <2>3. PICK n : n = Len(c32_st_root[s].elem) /\ n \in Nat /\ n \in Places(s)
    <3>1. s \in Structs /\ s # Growing /\ TableInv(s)
      BY DEF LayoutInv, TablesInv, Structs
    <3>2. Len(c32_st_root[s].elem) \in Nat
      BY <3>1, TablesProp DEF LayoutInv
    <3>3. Len(c32_st_root[s].elem) > 0
      BY <3>1 DEF TableInv
    <3> QED BY <3>2, <3>3 DEF Places
  <2>4. PlainMember(s, n, T)
    BY <2>3, PlainProp
  <2>5. PICK e : e = Elem(s, n) /\ e \in Elems /\ e.value >= 0 /\ e.size >= 0 /\ e.value + e.size = c32_st_root[s].size
    BY <2>3, <2>4 DEF PlainMember
  <2> QED BY <2>2, <2>5 DEF Elems
<1>3. CASE ~IsStruct(type)
  <2>1. Bytes(type) \in {1, 2, 4}
    BY <1>1, <1>3 DEF Bytes, IsStruct
  <2> QED BY <2>1
<1> QED BY <1>2, <1>3

\* While the symbol is the variable each brace goes into the next dimension.
LEMMA ObjectDim ==
  ASSUME LayoutInv, NEW n \in 0..Depth, Under(n).ref = Object
  PROVE  Under(n).dim = n + 1
<1> DEFINE S == {j \in Nat : Under(j).ref = Object => Under(j).dim = j + 1}
<1>1. 0 \in S
  BY DEF Under
<1>2. ASSUME NEW j \in 1..n, j - 1 \in S PROVE j \in S
  <2>1. j \in 1..Depth /\ j \in Nat /\ j # 0
    <3>1. Depth \in Nat
      BY DEF LayoutInv, FramesInv, Depth
    <3> QED BY <3>1
  <2>2. SUFFICES ASSUME Under(j).ref = Object PROVE Under(j).dim = j + 1
    BY <2>1
  <2>3. frames[j].i \in Nat /\ frames[j].dim \in Nat /\ RowInv(j) /\ frames[j].kind \in {"row", "struct"}
    BY <2>1, FrameProp
  <2>4. frames[j].kind = "row"
    <3>1. ASSUME frames[j].kind # "row" PROVE FALSE
      <4>1. Under(j).ref = [s |-> frames[j].ref.s, k |-> frames[j].i + 1]
        BY <2>1, <3>1 DEF Under
      <4>2. Under(j).ref.k = frames[j].i + 1 /\ Under(j).ref.k = 0
        BY <2>2, <4>1 DEF Object
      <4> QED BY <2>3, <4>2
    <3> QED BY <3>1
  <2>5. Under(j) = [ref |-> frames[j].ref, dim |-> frames[j].dim + 1]
    BY <2>1, <2>4 DEF Under
  <2>6. Under(j-1).ref = Object /\ Under(j-1).dim = frames[j].dim
    BY <2>2, <2>3, <2>4, <2>5 DEF RowInv
  <2>7. Under(j-1).dim = (j - 1) + 1
    BY <1>2, <2>6
  <2> QED BY <2>1, <2>5, <2>6, <2>7
<1>3. n \in S
  <2>1. n \in Nat /\ n \in 0..n /\ S \in SUBSET Nat
    <3>1. Depth \in Nat
      BY DEF LayoutInv, FramesInv, Depth
    <3> QED BY <3>1
  <2> HIDE DEF S
  <2> QED BY <1>1, <1>2, <2>1, UpTo
<1> QED BY <1>3

\* The row that the innermost brace has opened, and its elements.
LEMMA RowHere ==
  ASSUME InitialiserInv, Filling, After, InRow, NEW T, Keeps(T), NEW n \in Nat, n + 1 = Depth,
         Cursor(n, T), BraceInv(n + 1), NEW u, u = Walk(Prefix(n)), NEW w, w = Walk(Prefix(n + 1)),
         NEW i, i = Top.i, NEW m, m = Room, NEW r, r = RowBytes(u, u.dim + 1)
  PROVE  /\ i \in Nat /\ m \in Nat /\ r \in Nat /\ u.at \in Int /\ (m # 0 => i < m)
         /\ Typed(u, T) /\ Fitting(Prefix(n)) /\ Prefix(n) \in Seq(Nat) /\ Len(Prefix(n)) = n
         /\ u.dim \in Nat /\ u.dim < Len(u.dims) /\ m = u.dims[u.dim + 1]
         /\ Top.ref = Under(n).ref /\ Top.dim = u.dim + 1
         /\ IF Under(n).ref = Object THEN u.dim = n /\ u.dims = var.dims ELSE n > Len(var.dims)
         /\ w.at = u.at + i * r /\ RowBytes(w, w.dim) = r
         /\ RowBytes(Sym(Top.ref), Top.dim) = r
         /\ RowBytes(u, u.dim) = m * r
<1>1. /\ LayoutInv /\ T \in SUBSET Structs /\ Plain(T) /\ Growing = 0
      /\ frames # <<>> /\ n + 1 \in 1..Depth /\ Depth \in Nat
  BY GoingProp DEF Keeps, After
<1>2. PICK f, sym : /\ f = frames[n + 1] /\ f = Top /\ sym = Sym(Under(n).ref)
                    /\ f.kind = "row" /\ f.i \in Nat /\ f.ref = Under(n).ref /\ f.dim = Under(n).dim
                    /\ Prefix(n + 1) = Append(Prefix(n), i)
  <2>1. PICK j : j = n + 1 /\ j - 1 = n /\ j \in 1..Depth
    BY <1>1
  <2>2. RowInv(j) /\ frames[j].i \in Nat /\ Prefix(j) = Append(Prefix(j - 1), frames[j].i)
    BY <1>1, <2>1, FrameProp
  <2>3. frames[j] = Top
    BY <2>1 DEF Top, Depth
  <2>4. frames[j].kind = "row"
    BY <2>3 DEF InRow
  <2>5. frames[j].ref = Under(n).ref /\ frames[j].dim = Under(n).dim
    BY <2>1, <2>2, <2>4 DEF RowInv
  <2> QED BY <2>1, <2>2, <2>3, <2>4, <2>5
<1>3. /\ Typed(u, T) /\ Fitting(Prefix(n)) /\ Prefix(n) \in Seq(Nat) /\ Len(Prefix(n)) = n
      /\ u.type = sym.type /\ u.dims = sym.dims /\ Under(n).dim = u.dim + 1
      /\ IF Under(n).ref = Object THEN u.dim = n ELSE n > Len(var.dims)
  BY <1>2 DEF Cursor
<1>4. u.dim \in Nat /\ u.dims \in Seq(Nat) /\ Len(u.dims) \in Nat /\ TypeIn(u.type, T) /\ u.at \in Int
  BY <1>3 DEF Typed, Steps
<1>5. f.dim <= Len(sym.dims) /\ (sym.dims[f.dim] # 0 => f.i < sym.dims[f.dim])
  <2>1. PICK j : j = n + 1 /\ j - 1 = n
    OBVIOUS
  <2>2. BraceInv(j) /\ f = frames[j] /\ sym = Sym(Under(j - 1).ref) /\ Under(j - 1) = Under(n)
    BY <1>2, <2>1
  <2> QED BY <1>2, <2>2 DEF BraceInv
<1>6. /\ u.dim < Len(u.dims) /\ f.dim = u.dim + 1 /\ m = u.dims[u.dim + 1] /\ m \in Nat
      /\ i \in Nat /\ (m # 0 => i < m)
  <2>1. u.dim < Len(u.dims) /\ f.dim = u.dim + 1
    BY <1>2, <1>3, <1>4, <1>5
  <2>2. m = u.dims[u.dim + 1]
    BY <1>2, <1>3 DEF Room
  <2>3. m \in Nat
    <3>1. u.dim + 1 \in 1..Len(u.dims)
      BY <1>4, <2>1
    <3> QED BY <1>4, <2>2, <3>1
  <2>4. i \in Nat /\ i = f.i
    BY <1>2
  <2>5. m # 0 => i < m
    BY <1>3, <1>5, <2>1, <2>2, <2>4
  <2> QED BY <2>1, <2>2, <2>3, <2>4, <2>5
<1>7. Under(n).ref = Object => u.dims = var.dims
  BY <1>2, <1>3 DEF Sym
<1>8. r \in Int /\ RowBytes(u, u.dim) = m * r
  <2>1. u.dim \in 0..Len(u.dims) /\ u.dim + 1 \in 0..Len(u.dims)
    BY <1>4, <1>6
  <2> QED BY <1>1, <1>4, <1>6, <2>1, RowBytesProp
<1>9. r \in Nat
  <2>1. PICK a, b : a = Bytes(u.type) /\ b = Below(u.dims, u.dim + 1)
    OBVIOUS
  <2>2. a \in Nat /\ r = a * b
    BY <1>1, <1>4, <2>1, BytesPositive DEF RowBytes
  <2>3. b \in Nat
    <3>1. u.dim + 1 \in 0..Len(u.dims)
      BY <1>4, <1>6
    <3> QED BY <1>4, <2>1, <3>1, BelowProp
  <2> QED BY <2>2, <2>3
<1>10. w.at = u.at + i * r /\ RowBytes(w, w.dim) = r
  <2>1. w = Element(u, i)
    BY <1>2, <1>3, <1>6, WalkGoesOn DEF WalkRule
  <2>2. w.type = u.type /\ w.dims = u.dims /\ w.dim = u.dim + 1 /\ w.at = u.at + i * r
    BY <1>1, <1>3, <1>6, <2>1, RowElement
  <2> QED BY <2>2 DEF RowBytes
<1>11. RowBytes(Sym(Top.ref), Top.dim) = r
  BY <1>2, <1>3, <1>6 DEF RowBytes
<1> QED BY <1>2, <1>3, <1>4, <1>6, <1>7, <1>8, <1>9, <1>10, <1>11

\* The elements of the row that are left.
LEMMA RestOfRowProp ==
  ASSUME NEW i \in Nat, i = Top.i, NEW m \in Nat, m = Room, m # 0 => i < m,
         NEW sym, NEW r \in Nat, r = RowBytes(sym, Top.dim)
  PROVE  Blank(RestOfRow(sym)) /\ Total(RestOfRow(sym)) = IF m = 0 THEN 0 ELSE (m - i - 1) * r
<1>1. CASE m = 0
  BY <1>1, BlankNone DEF RestOfRow
<1>2. CASE m # 0
  <2>1. PICK k \in Nat : k = m - i - 1
    BY <1>2
  <2>2. k * r \in Nat
    OBVIOUS
  <2>3. RestOfRow(sym) = Fill(k * r)
    BY <1>2, <2>1 DEF RestOfRow
  <2> QED BY <1>2, <2>1, <2>2, <2>3, BlankFill
<1> QED BY <1>1, <1>2

\* The dimensions of the symbol when the row is complete.
Given(sym) == IF Room = 0 THEN [sym.dims EXCEPT ![Top.dim] = (Top.i + 1) % USHRT] ELSE sym.dims

\* Only the dimension that was left empty is given a value, the number of elements read.
LEMMA GivenDims ==
  ASSUME InitialiserInv, Filling, After, InRow, NEW n \in Nat, n + 1 = Depth,
         Under(n).ref = Object, NEW dims, dims = Given(Sym(Top.ref))
  PROVE  /\ dims \in Seq(Nat) /\ Len(dims) = Len(var.dims)
         /\ \A d \in 1..Len(var.dims) : dims[d] # var.dims[d] => var.dims[d] = 0 /\ d = n + 1
         /\ n + 1 \in 1..Len(var.dims) => Room = var.dims[n + 1]
         /\ n + 1 \in 1..Len(var.dims) /\ Room = 0 => dims[n + 1] = (Top.i + 1) % USHRT
<1>1. LayoutInv /\ frames # <<>> /\ n + 1 \in 1..Depth /\ n \in 0..Depth /\ Depth \in Nat /\ var.dims \in Seq(Nat)
  BY GoingProp DEF After
<1>2. Top.ref = Object /\ Top.dim = n + 1 /\ Top.i \in Nat
  <2>1. PICK j : j = n + 1 /\ j - 1 = n /\ j \in 1..Depth
    BY <1>1
  <2>2. RowInv(j) /\ frames[j].i \in Nat
    BY <1>1, <2>1, FrameProp
  <2>3. frames[j] = Top
    BY <2>1 DEF Top, Depth
  <2>4. frames[j].kind = "row"
    BY <2>3 DEF InRow
  <2>5. frames[j].ref = Under(n).ref /\ frames[j].dim = Under(n).dim
    BY <2>1, <2>2, <2>4 DEF RowInv
  <2>6. Under(n).dim = n + 1
    BY <1>1, ObjectDim
  <2> QED BY <2>2, <2>3, <2>5, <2>6
<1>3. Sym(Top.ref) = var
  BY <1>2 DEF Sym
<1>4. (Top.i + 1) % USHRT \in Nat
  BY <1>2, WidthAssumption
<1>5. Room = var.dims[n + 1]
  BY <1>2, <1>3 DEF Room
<1>6. dims = IF Room = 0 THEN [var.dims EXCEPT ![n + 1] = (Top.i + 1) % USHRT] ELSE var.dims
  BY <1>2, <1>3 DEF Given
<1>7. PICK x \in Nat, old \in Seq(Nat) : x = (Top.i + 1) % USHRT /\ old = var.dims
  BY <1>1, <1>4
<1>8. CASE Room = 0
  <2>1. dims = [old EXCEPT ![n + 1] = x]
    BY <1>6, <1>7, <1>8
  <2>2. dims \in Seq(Nat) /\ Len(dims) = Len(old)
    <3>1. old \in [1..Len(old) -> Nat] /\ Len(old) \in Nat
      OBVIOUS
    <3>2. PICK m \in Nat : m = Len(old)
      BY <3>1
    <3>3. dims \in [1..m -> Nat]
      BY <2>1, <3>1, <3>2
    <3>4. dims \in Seq(Nat) /\ Len(dims) = m
      BY <3>3
    <3> QED BY <3>2, <3>4
  <2>3. \A d \in 1..Len(old) : d # n + 1 => dims[d] = old[d]
    BY <2>1
  <2>4. n + 1 \in 1..Len(old) => dims[n + 1] = x
    BY <2>1
  <2> QED BY <1>5, <1>7, <1>8, <2>2, <2>3, <2>4
<1>9. CASE Room # 0
  BY <1>1, <1>5, <1>6, <1>9
<1> QED BY <1>8, <1>9

\* The text up to the brace tells how many elements there are, and no unsigned short
\* is too narrow for them.
LEMMA CloseCount ==
  ASSUME InitialiserInv, Filling, After, mode \in {"after", "comma"}, NEW n \in Nat, n + 1 = Depth,
         Told(next + 1)
  PROVE  /\ Told(next) /\ (Top.i + 1) % USHRT = Top.i + 1 /\ Top.i \in Nat
         /\ \A j \in 1..n : j \in 1..Len(Path(next)) /\ Path(next)[j] = Prefix(n)[j]
<1>1. frames # <<>> /\ next \in Nat /\ var.at \in Nat /\ var.at < next
  BY GoingProp DEF After
<1>2. Told(next) /\ \A k \in DOMAIN Path(next) : Path(next)[k] + 1 < USHRT
  BY <1>1, ToldBefore DEF Told
<1>3. PICK outer \in Seq(Nat), i \in Nat :
        /\ outer = Prefix(n) /\ Len(outer) = n /\ i = Top.i
        /\ Prefix(Depth) = Append(outer, i) /\ Raised = Append(outer, i + 1)
  <2>1. PICK m \in Nat, outer \in Seq(Nat), i \in Nat :
          /\ Depth = m + 1 /\ outer = Prefix(m) /\ Len(outer) = m /\ i = Top.i
          /\ Prefix(Depth) = Append(outer, i) /\ Raised = Append(outer, i + 1)
    BY <1>1, RaisedProp
  <2>2. m = n
    BY <2>1
  <2> QED BY <2>1, <2>2
<1>4. PICK x \in {i, i + 1} : Path(next) = Append(outer, x)
  <2>1. Path(next) = Indexes
    BY <1>2 DEF InitialiserInv, PathInv, Told
  <2>2. Indexes = IF mode = "comma" THEN Raised ELSE Prefix(Depth)
    BY DEF Indexes, Raised
  <2> QED BY <1>3, <2>1, <2>2
<1>5. x \in Nat /\ DOMAIN Path(next) = 1..n+1 /\ Len(Path(next)) = n + 1 /\ Path(next)[n + 1] = x
      /\ \A j \in 1..n : Path(next)[j] = outer[j]
  BY <1>3, <1>4
<1>6. i + 1 < USHRT
  <2>1. x + 1 < USHRT
    BY <1>2, <1>5
  <2> QED BY <1>3, <1>4, <2>1, WidthAssumption
<1>7. (i + 1) % USHRT = i + 1
  <2>1. PICK a, b \in Nat : a = i + 1 /\ b = USHRT /\ a < b
    BY <1>3, <1>6, WidthAssumption
  <2>2. a % b = a
    BY <2>1
  <2> QED BY <2>1, <2>2
<1> QED BY <1>2, <1>3, <1>5, <1>7

\* Where the row is read in.
ClosesRow(n, dims) ==
  /\ n \in Nat /\ n + 1 = Depth /\ dims = Given(Sym(Top.ref))
  /\ After /\ InRow /\ mode \in {"after", "comma"}
  /\ Advance /\ next' = next + 1
  /\ var'.dims = IF Under(n).ref = Object THEN dims ELSE var.dims

\* The dimensions do not change unless the row had no number of elements.
LEMMA RowCounted ==
  ASSUME InitialiserInv, Filling, NEW n, NEW dims, ClosesRow(n, dims), Room # 0
  PROVE  var'.dims = var.dims
<1>1. SUFFICES ASSUME Under(n).ref = Object PROVE dims = var.dims
  BY DEF ClosesRow
<1>2. n \in Nat /\ n + 1 = Depth /\ After /\ InRow /\ dims = Given(Sym(Top.ref))
  BY DEF ClosesRow
<1>3. dims = Sym(Top.ref).dims
  BY <1>2 DEF Given
<1>4. Top.ref = Under(n).ref
  <2>1. LayoutInv /\ frames # <<>> /\ n + 1 \in 1..Depth
    BY <1>2, GoingProp DEF After
  <2>2. PICK j : j = n + 1 /\ j - 1 = n /\ j \in 1..Depth
    BY <1>2, <2>1
  <2>3. RowInv(j)
    BY <2>1, <2>2, FrameProp
  <2>4. frames[j] = Top
    BY <1>2, <2>2 DEF Top, Depth
  <2> QED BY <1>2, <2>2, <2>3, <2>4 DEF RowInv, InRow
<1> QED BY <1>1, <1>3, <1>4 DEF Sym

\* With what is left of it the bytes of the row are complete: as many elements as it has.
LEMMA FullRow ==
  ASSUME NEW i \in Nat, NEW m \in Nat, i < m, NEW r \in Nat
  PROVE  i * r + r + (m - i - 1) * r = m * r
<1>1. PICK k \in Nat : k = m - i - 1 /\ m = i + 1 + k
  OBVIOUS
<1>2. (i + 1 + k) * r = i * r + r + k * r
  OBVIOUS
<1> QED BY <1>1, <1>2

\* As many elements as the braces give.
LEMMA OpenedRow ==
  ASSUME InitialiserInv, Filling, NEW n, NEW dims, ClosesRow(n, dims), Room = 0, Told(next)',
         NEW T, Keeps(T), Cursor(n, T), BraceInv(n + 1), PlainType(var.type),
         NEW u, u = Walk(Prefix(n)), NEW path, path = Prefix(n), NEW v, v = Walk(path)',
         NEW i, i = Top.i, NEW r, r = RowBytes(u, u.dim + 1)
  PROVE  v.at = u.at /\ RowBytes(v, v.dim)' = i * r + r
<1>1. /\ n \in Nat /\ n + 1 = Depth /\ After /\ InRow /\ mode \in {"after", "comma"}
      /\ Advance /\ next' = next + 1 /\ dims = Given(Sym(Top.ref))
      /\ var'.dims = IF Under(n).ref = Object THEN dims ELSE var.dims
      /\ Depth \in Nat /\ next \in Nat /\ var.at < next /\ var.at \in Nat /\ n \in 0..Depth
  BY GoingProp DEF ClosesRow
<1>2. /\ i \in Nat /\ r \in Nat /\ u.at \in Int
      /\ Typed(u, T) /\ Fitting(path) /\ path \in Seq(Nat) /\ Len(path) = n
      /\ u.dim \in Nat /\ u.dim < Len(u.dims) /\ u.dims[u.dim + 1] = 0
      /\ Top.ref = Under(n).ref /\ Top.dim = u.dim + 1
      /\ IF Under(n).ref = Object THEN u.dim = n /\ u.dims = var.dims ELSE n > Len(var.dims)
  <2>1. PICK w, m : w = Walk(Prefix(n + 1)) /\ m = Room
    OBVIOUS
  <2>2. m = 0
    BY <2>1
  <2>3. /\ i \in Nat /\ r \in Nat /\ u.at \in Int
        /\ Typed(u, T) /\ Fitting(Prefix(n)) /\ Prefix(n) \in Seq(Nat) /\ Len(Prefix(n)) = n
        /\ u.dim \in Nat /\ u.dim < Len(u.dims) /\ m = u.dims[u.dim + 1]
        /\ Top.ref = Under(n).ref /\ Top.dim = u.dim + 1
        /\ IF Under(n).ref = Object THEN u.dim = n /\ u.dims = var.dims ELSE n > Len(var.dims)
    <3>1. n \in Nat /\ n + 1 = Depth /\ After /\ InRow
      BY <1>1
    <3>2. i \in Nat /\ r \in Nat /\ u.at \in Int
      BY <2>1, <3>1, RowHere
    <3>3. Typed(u, T) /\ Fitting(Prefix(n)) /\ Prefix(n) \in Seq(Nat) /\ Len(Prefix(n)) = n
      BY <2>1, <3>1, RowHere
    <3>4. u.dim \in Nat /\ u.dim < Len(u.dims)
      BY <2>1, <3>1, RowHere
    <3>5. m = u.dims[u.dim + 1]
      BY <2>1, <3>1, RowHere
    <3>6. Top.ref = Under(n).ref /\ Top.dim = u.dim + 1
      BY <2>1, <3>1, RowHere
    <3>7. IF Under(n).ref = Object THEN u.dim = n /\ u.dims = var.dims ELSE n > Len(var.dims)
      BY <2>1, <3>1, RowHere
    <3> QED BY <3>2, <3>3, <3>4, <3>5, <3>6, <3>7
  <2> QED BY <2>2, <2>3
<1>3. u.dims \in Seq(Nat) /\ Len(u.dims) \in Nat /\ TypeIn(u.type, T) /\ u \in Steps
  BY <1>2 DEF Typed, Steps
<1>4. Under(n).ref = Object
  <2>1. SUFFICES ASSUME Under(n).ref # Object PROVE FALSE
    OBVIOUS
  <2>2. PICK ref : ref = Under(n).ref
    OBVIOUS
  <2>3. \A t \in 1..Len(Sym(ref).dims) : Sym(ref).dims[t] # 0
    BY <1>1, <2>1, <2>2, AdvanceSym
  <2>4. u.dims = Sym(ref).dims
    BY <2>2 DEF Cursor
  <2>5. u.dim + 1 \in 1..Len(u.dims)
    <3>1. PICK a, b \in Nat : a = u.dim /\ b = Len(u.dims) /\ a < b
      BY <1>2, <1>3
    <3>2. a + 1 \in 1..b
      BY <3>1
    <3> QED BY <3>1, <3>2
  <2> QED BY <1>2, <2>3, <2>4, <2>5
<1>5. u.dim = n /\ u.dims = var.dims /\ var'.dims = dims /\ n + 1 \in 1..Len(u.dims) /\ n \in 0..Len(u.dims)
  BY <1>1, <1>2, <1>3, <1>4
<1>6. Told(next + 1)
  BY <1>1, AdvanceText
<1>7. /\ (i + 1) % USHRT = i + 1 /\ Told(next)
      /\ \A j \in 1..n : j \in 1..Len(Path(next)) /\ Path(next)[j] = path[j]
  BY <1>1, <1>6, CloseCount
<1>8. /\ dims \in Seq(Nat) /\ Len(dims) = Len(u.dims) /\ dims[n + 1] = i + 1
      /\ \A d \in 1..Len(u.dims) : d # n + 1 => dims[d] = u.dims[d]
  <2>1. /\ dims \in Seq(Nat) /\ Len(dims) = Len(var.dims)
        /\ \A d \in 1..Len(var.dims) : dims[d] # var.dims[d] => var.dims[d] = 0 /\ d = n + 1
    BY <1>1, <1>4, GivenDims
  <2>2. n + 1 \in 1..Len(var.dims) /\ Room = 0 => dims[n + 1] = (Top.i + 1) % USHRT
    BY <1>1, <1>4, GivenDims
  <2>3. dims[n + 1] = i + 1
    BY <1>5, <1>7, <2>2
  <2> QED BY <1>5, <2>1, <2>3
<1>9. Unmoved(path)
  <2>1. Unmoved(Path(next))
    BY <1>1, <1>7, AdvanceUnmoved
  <2> QED BY <1>2, <1>7, <2>1 DEF Unmoved
<1>10. v = [u EXCEPT !.dims = dims]
  <2>1. SamePlace(path)
    BY <1>2, <1>9, WalkKept
  <2>2. Len(path) <= Len(var.dims)
    BY <1>2, <1>3, <1>5
  <2> QED BY <1>5, <2>1, <2>2 DEF SamePlace
<1>11. v.type = u.type /\ v.dims = dims /\ v.dim = n /\ v.at = u.at
  BY <1>3, <1>5, <1>10 DEF Steps
<1>12. PICK b, l : b = Bytes(u.type) /\ l = Below(u.dims, n + 1)
  OBVIOUS
<1>13. l \in Nat /\ Below(dims, n) = (i + 1) * l
  <2>1. n + 1 \in 0..Len(u.dims) /\ n \in 0..Len(dims) /\ n + 1 \in 0..Len(dims) /\ n < Len(dims)
    BY <1>1, <1>5, <1>8
  <2>2. Below(dims, n) = dims[n + 1] * Below(dims, n + 1)
    BY <1>8, <2>1, BelowProp
  <2>3. Below(dims, n + 1) = Below(u.dims, n + 1)
    <3>1. \A k \in n+1+1..Len(u.dims) : dims[k] = u.dims[k]
      <4>1. PICK m \in Nat : m = Len(u.dims)
        BY <1>3
      <4>2. n \in Nat
        BY <1>1
      <4>3. \A k \in n+1+1..m : k \in 1..m /\ k # n + 1
        BY <4>1, <4>2
      <4> QED BY <1>8, <4>1, <4>3
    <3> QED BY <1>3, <1>8, <2>1, <3>1, BelowSame
  <2>4. l \in Nat
    BY <1>3, <1>12, <2>1, BelowProp
  <2> QED BY <1>8, <1>12, <2>2, <2>3, <2>4
<1>14. r = b * l
  BY <1>5, <1>12 DEF RowBytes
<1>15. Bytes(v.type)' = b /\ b \in Int
  <2>1. PICK type : type = u.type
    OBVIOUS
  <2>2. type \in Types /\ (type.base = "struct" => Known(type.tag))
    BY <1>3, <2>1 DEF TypeIn
  <2>3. Bytes(type)' = Bytes(type) /\ Bytes(type) \in Int
    BY <2>2, BytesSteady DEF Keeps
  <2> QED BY <1>11, <1>12, <2>1, <2>3
<1>16. RowBytes(v, v.dim)' = b * ((i + 1) * l)
  <2>1. RowBytes(v, v.dim)' = Bytes(v.type)' * Below(v.dims, v.dim)
    BY DEF RowBytes
  <2> QED BY <1>11, <1>13, <1>15, <2>1
<1>17. b * ((i + 1) * l) = i * (b * l) + b * l
  BY <1>2, <1>13, <1>15
<1> QED BY <1>11, <1>14, <1>16, <1>17

\* With the rest of it the bytes of a row are complete.
LEMMA RowBytesThen ==
  ASSUME InitialiserInv, Filling, NEW n, NEW dims, ClosesRow(n, dims), Told(next)', PlainType(var.type)',
         NEW path, path = Prefix(n), NEW v, v = Walk(path)'
  PROVE  /\ Blank(RestOfRow(Sym(Top.ref)))
         /\ Total(data) + Total(RestOfRow(Sym(Top.ref))) = v.at + RowBytes(v, v.dim)'
<1>1. /\ n \in Nat /\ n + 1 = Depth /\ After /\ InRow /\ mode \in {"after", "comma"} /\ Advance
      /\ next' = next + 1
  BY DEF ClosesRow
<1>2. PICK T : Keeps(T) /\ PlainType(var.type) /\ Cursor(n, T) /\ BraceInv(n + 1)
  <2>1. n + 1 \in 1..Depth /\ n \in 0..Depth
    BY <1>1
  <2> QED BY <1>1, <2>1, AdvanceKeeps
<1>3. PICK u, w, i, m, r, sym : /\ u = Walk(Prefix(n)) /\ w = Walk(Prefix(n + 1)) /\ i = Top.i /\ m = Room
                                /\ r = RowBytes(u, u.dim + 1) /\ sym = Sym(Top.ref)
  OBVIOUS
<1>4. i \in Nat /\ m \in Nat /\ r \in Nat /\ u.at \in Int /\ (m # 0 => i < m)
  BY <1>1, <1>2, <1>3, RowHere
<1>5. RowBytes(sym, Top.dim) = r /\ RowBytes(u, u.dim) = m * r
  BY <1>1, <1>2, <1>3, RowHere
<1>6. w.at = u.at + i * r /\ RowBytes(w, w.dim) = r
  BY <1>1, <1>2, <1>3, RowHere
<1>7. Typed(u, T) /\ Fitting(path) /\ path \in Seq(Nat)
  BY <1>1, <1>2, <1>3, RowHere
<1>8. Blank(RestOfRow(sym)) /\ Total(RestOfRow(sym)) = IF m = 0 THEN 0 ELSE (m - i - 1) * r
  BY <1>3, <1>4, <1>5, RestOfRowProp
<1>9. Total(data) = u.at + (i * r + r)
  <2>1. Told(next)
    BY <1>1, AdvanceText
  <2>2. mode # "end" /\ mode \notin {"value", "more"}
    BY <1>1
  <2>3. Total(data) = Covered(w)
    BY <1>1, <1>2, <1>3, <2>1, <2>2, SumNow
  <2>4. Total(data) = w.at + RowBytes(w, w.dim)
    BY <2>2, <2>3 DEF Covered
  <2>5. i * r \in Int
    BY <1>4
  <2> QED BY <1>4, <1>6, <2>4, <2>5
<1>10. CASE m = 0
  <2>1. v.at = u.at /\ RowBytes(v, v.dim)' = i * r + r
    BY <1>2, <1>3, <1>10, OpenedRow
  <2>2. Total(RestOfRow(sym)) = 0 /\ i * r \in Int
    BY <1>4, <1>8, <1>10
  <2> QED BY <1>3, <1>4, <1>8, <1>9, <2>1, <2>2
<1>11. CASE m # 0
  <2>1. var'.dims = var.dims
    BY <1>3, <1>11, RowCounted
  <2>2. v = u
    BY <1>2, <1>3, <1>7, <2>1, WalkSame
  <2>3. PICK d : d = u.dim
    OBVIOUS
  <2>4. RowBytes(u, d)' = RowBytes(u, d)
    BY <1>2, <1>7, RowBytesSame
  <2>5. RowBytes(v, v.dim)' = m * r
    BY <1>5, <2>2, <2>3, <2>4
  <2>6. i * r + r + (m - i - 1) * r = m * r /\ i * r \in Int /\ (m - i - 1) * r \in Int
    BY <1>4, <1>11, FullRow
  <2> QED BY <1>3, <1>4, <1>8, <1>9, <1>11, <2>2, <2>5, <2>6
<1> QED BY <1>10, <1>11

\* Each dimension that has no number of elements has been given one, up to the row.
LEMMA RowNumbers ==
  ASSUME InitialiserInv, Filling, NEW n, NEW dims, ClosesRow(n, dims), Told(next)', PlainType(var.type)',
         NEW d \in 1..Len(var'.dims), d > n
  PROVE  var'.dims[d] # 0
<1>1. /\ n \in Nat /\ n + 1 = Depth /\ After /\ InRow /\ mode \in {"after", "comma"} /\ Advance
      /\ next' = next + 1 /\ dims = Given(Sym(Top.ref))
      /\ var'.dims = IF Under(n).ref = Object THEN dims ELSE var.dims
  BY DEF ClosesRow
<1>2. PICK T : Keeps(T) /\ PlainType(var.type) /\ Cursor(n, T) /\ BraceInv(n + 1)
  <2>1. n + 1 \in 1..Depth /\ n \in 0..Depth
    BY <1>1
  <2> QED BY <1>1, <2>1, AdvanceKeeps
<1>3. Told(next + 1) /\ Told(next)
  BY <1>1, AdvanceText
<1>4. (Top.i + 1) % USHRT = Top.i + 1 /\ Top.i \in Nat
  BY <1>1, <1>3, CloseCount
<1>5. Len(var'.dims) = Len(var.dims) /\ Len(var.dims) \in Nat /\ var.init /\ n \in 0..Depth
  BY <1>1, GoingProp DEF Advance
<1>6. d > Depth => var.dims[d] # 0
  BY <1>1, <1>2, <1>3, <1>5 DEF InitialiserInv, CountsInv
<1>7. CASE Under(n).ref # Object
  <2>1. n > Len(var.dims)
    BY <1>2, <1>7 DEF Cursor
  <2> QED BY <1>1, <1>5, <2>1
<1>8. CASE Under(n).ref = Object
  <2>1. /\ \A l \in 1..Len(var.dims) : dims[l] # var.dims[l] => var.dims[l] = 0 /\ l = n + 1
        /\ n + 1 \in 1..Len(var.dims) => Room = var.dims[n + 1]
        /\ n + 1 \in 1..Len(var.dims) /\ Room = 0 => dims[n + 1] = (Top.i + 1) % USHRT
    BY <1>1, <1>8, GivenDims
  <2>2. var'.dims = dims /\ d \in 1..Len(var.dims)
    BY <1>1, <1>5, <1>8
  <2>3. CASE d = n + 1
    <3>1. Room = 0 => dims[d] = Top.i + 1
      BY <1>4, <2>1, <2>2, <2>3
    <3>2. Room # 0 => dims[d] # 0
      BY <2>1, <2>2, <2>3
    <3> QED BY <1>4, <2>2, <3>1, <3>2
  <2>4. CASE d # n + 1
    <3>1. d > Depth
      BY <1>1, <2>2, <2>4
    <3> QED BY <1>6, <2>1, <2>2, <2>4, <3>1
  <2> QED BY <2>3, <2>4
<1> QED BY <1>7, <1>8

\* The brace that ends a row.
LEMMA CloseRowInvariant ==
  ASSUME InitialiserInv, Filling, CloseRow
  PROVE  InitialiserInv'
<1>1. LayoutInv' /\ Steady
  BY CloseRowStep DEF InitialiserInv
<1>2. PICK t : Closes(t) /\ Scan(t)
  BY Zenon DEF CloseRow, Closes
<1>3. PICK dims, items : /\ dims = Given(Sym(Top.ref)) /\ items = RestOfRow(Sym(Top.ref))
                         /\ Complete(Outer, dims, items)
  BY Zenon DEF CloseRow, Given
<1>4. After /\ InRow /\ frames # <<>> /\ mode \in {"after", "comma"} /\ UNCHANGED strings
  BY DEF CloseRow, After
<1>5. PICK n \in Nat : n + 1 = Depth
  BY <1>4, RaisedProp
<1>6. Completes(t, n, dims, items)
  <2>1. Under(n).ref = Object =>
          /\ dims \in Seq(Nat) /\ Len(dims) = Len(var.dims)
          /\ \A d \in 1..Len(var.dims) : dims[d] # var.dims[d] => var.dims[d] = 0 /\ d = n + 1
    BY <1>3, <1>4, <1>5, GivenDims
  <2> QED BY <1>1, <1>2, <1>3, <1>4, <1>5, <2>1, CloseCompletes, Zenon
<1>7. /\ Advance /\ ObjectInv' /\ next' = next + 1 /\ n \in 0..Depth
      /\ var'.dims = IF Under(n).ref = Object THEN dims ELSE var.dims
  BY <1>6, CompleteState
<1>8. ClosesRow(n, dims)
  BY <1>3, <1>4, <1>5, <1>7 DEF ClosesRow
<1>9. BracesInv' /\ PathInv' /\ FirstInv' /\ CountsInv'
  <2>1. PlainType(var.type)' /\ Told(next)' => \A d \in 1..Len(var'.dims) : d > n => var'.dims[d] # 0
    BY <1>8, RowNumbers
  <2>2. Separated(next) => Follow(Path(next), t) = Prefix(n)
    BY <1>2, <1>4, <1>5, ClosePath
  <2> QED BY <1>6, <2>1, <2>2, CompleteText
<1>10. PICK path, v : path = Prefix(n) /\ v = Walk(path)'
  OBVIOUS
<1>11. PrintedInv' /\ SumInv' /\ StringsInv'
  <2>1. ASSUME PlainType(var.type)' PROVE Blank(items)
    <3>1. PICK T : Keeps(T) /\ PlainType(var.type) /\ Cursor(n, T) /\ BraceInv(n + 1)
      <4>1. n + 1 \in 1..Depth
        BY <1>5
      <4> QED BY <1>7, <2>1, <4>1, AdvanceKeeps
    <3>2. PICK u, w, i, m, r : /\ u = Walk(Prefix(n)) /\ w = Walk(Prefix(n + 1)) /\ i = Top.i /\ m = Room
                               /\ r = RowBytes(u, u.dim + 1)
      OBVIOUS
    <3>3. i \in Nat /\ m \in Nat /\ r \in Nat /\ (m # 0 => i < m)
      BY <1>4, <1>5, <3>1, <3>2, RowHere
    <3>4. RowBytes(Sym(Top.ref), Top.dim) = r
      BY <1>4, <1>5, <3>1, <3>2, RowHere
    <3> QED BY <1>3, <3>2, <3>3, <3>4, RestOfRowProp
  <2>2. PlainType(var.type)' => items \in Seq(Items) /\ \A k \in 1..Len(items) : items[k].tok = 0
    BY <2>1 DEF Blank
  <2>3. PlainType(var.type)' /\ Told(next)' => Total(data) + Total(items) = v.at + RowBytes(v, v.dim)'
    BY <1>3, <1>8, <1>10, RowBytesThen
  <2>4. StringsLeft
    BY <1>4, StringsStay
  <2> QED BY <1>6, <1>10, <2>2, <2>3, <2>4, CompleteBytes
<1> QED BY <1>1, <1>7, <1>9, <1>11 DEF InitialiserInv

------------------------------------------------------------------------------
\* Steps in which nothing is printed for a variable

\* As long as nothing changes the text and the layout say the same.
LEMMA StillWalk ==
  ASSUME UNCHANGED vars, NEW path
  PROVE  Walk(path)' = Walk(path)
BY DEF vars, structVars, initVars, Walk, Element, RowBytes, Bytes, StructOf, IsStruct

\* So do the path, the tests of the text and the sizes.
LEMMA StillSaid ==
  ASSUME UNCHANGED vars, NEW q, NEW w, NEW d
  PROVE  /\ Path(q)' = Path(q) /\ TokenAt(q)' = TokenAt(q)
         /\ Separated(q)' <=> Separated(q)
         /\ Counted(q)' <=> Counted(q)
         /\ NarrowString(q)' <=> NarrowString(q)
         /\ RowBytes(w, d)' = RowBytes(w, d) /\ Bytes(w)' = Bytes(w)
         /\ PlainType(var.type)' <=> PlainType(var.type)
<1>1. Path(q)' = Path(q) /\ TokenAt(q)' = TokenAt(q)
  BY DEF vars, structVars, initVars, Path, TokenAt
<1>2. Separated(q)' <=> Separated(q)
  BY DEF vars, structVars, initVars, Separated, TokenAt
<1>3. Counted(q)' <=> Counted(q)
  <2>1. \A p : Path(p)' = Path(p)
    BY DEF vars, structVars, initVars, Path, TokenAt
  <2> QED BY <2>1 DEF vars, initVars, Counted
<1>4. RowBytes(w, d)' = RowBytes(w, d) /\ Bytes(w)' = Bytes(w)
  BY DEF vars, structVars, initVars, RowBytes, Bytes, StructOf, IsStruct
<1>5. NarrowString(q)' <=> NarrowString(q)
  BY DEF vars, structVars, initVars, NarrowString, Simple, TokenAt, Bytes, StructOf, IsStruct
<1>6. PlainType(var.type)' <=> PlainType(var.type)
  BY DEF vars, structVars, initVars, PlainType, Plain, Measured, StructOf, RowBytes, Bytes, IsStruct
<1> QED BY <1>1, <1>2, <1>3, <1>4, <1>5, <1>6

\* So do the open braces.
LEMMA StillBraces ==
  ASSUME UNCHANGED vars, NEW j
  PROVE  /\ BraceInv(j)' <=> BraceInv(j)
         /\ Prefix(j)' = Prefix(j) /\ Depth' = Depth /\ Indexes' = Indexes
         /\ Filling' <=> Filling
<1>1. Sym(Under(j - 1).ref)' = Sym(Under(j - 1).ref) /\ Under(j - 1)' = Under(j - 1)
  BY DEF vars, structVars, initVars, Under, Sym
<1>2. \A tag : StructOf(tag)' = StructOf(tag)
  BY DEF vars, structVars, StructOf
<1>3. BraceInv(j)' <=> BraceInv(j)
  BY <1>1, <1>2 DEF vars, structVars, initVars, BraceInv
<1>4. Prefix(j)' = Prefix(j) /\ Depth' = Depth /\ Indexes' = Indexes
  BY DEF vars, initVars, Prefix, Depth, Indexes
<1>5. Filling' <=> Filling
  BY DEF vars, structVars, initVars, Filling
<1> QED BY <1>3, <1>4, <1>5

\* So does what fits.
LEMMA StillFitting ==
  ASSUME UNCHANGED vars, NEW path
  PROVE  Fitting(path)' <=> Fitting(path)
<1>1. \A p : Walk(p)' = Walk(p)
  BY StillWalk
<1>2. \A w, i : Fits(w, i)' <=> Fits(w, i)
  BY DEF vars, structVars, Fits, StructOf
<1> QED BY <1>1, <1>2 DEF Fitting

\* Nothing happens.
LEMMA StillInvariant ==
  ASSUME InitialiserInv, UNCHANGED vars
  PROVE  InitialiserInv'
<1>1. LayoutInv'
  BY LayoutStep DEF InitialiserInv
<1>2. ObjectInv' /\ StringsInv'
  BY DEF InitialiserInv, vars, structVars, initVars, ObjectInv, StringsInv, Filling, Known
<1>3. UNCHANGED <<profile, pass, unit, next, err, var, frames, mode, strings, data>>
  BY DEF vars, structVars, initVars
<1>4. BracesInv'
  <2>1. SUFFICES ASSUME Filling', PlainType(var.type)', NEW j \in (1..Depth)' PROVE BraceInv(j)'
    BY DEF BracesInv
  <2>2. j \in 1..Depth /\ Filling /\ PlainType(var.type)
    BY <2>1, StillBraces, StillSaid
  <2>3. BraceInv(j)
    BY <2>2 DEF InitialiserInv, BracesInv
  <2> QED BY <2>3, StillBraces
<1>5. PathInv'
  <2>1. PICK n : n = next
    OBVIOUS
  <2>2. next' = n /\ (Filling' <=> Filling) /\ Indexes' = Indexes
    BY <1>3, <2>1, StillBraces
  <2>3. /\ Separated(n)' <=> Separated(n)
        /\ Path(n)' = Path(n)
        /\ TokenAt(n - 1)' = TokenAt(n - 1)
    BY StillSaid
  <2>4. /\ Separated(next)' <=> Separated(next)
        /\ Path(next)' = Path(next)
        /\ TokenAt(next - 1)' = TokenAt(next - 1)
    <3>1. /\ Separated(next)' <=> Separated(n)'
          /\ Path(next)' = Path(n)'
          /\ TokenAt(next - 1)' = TokenAt(n - 1)'
      BY <2>2, Zenon DEF Separated, Path, TokenAt
    <3> QED BY <2>1, <2>3, <3>1
  <2> QED BY <1>3, <2>2, <2>4 DEF InitialiserInv, PathInv
<1>6. \A q : (Told(q)' <=> Told(q)) /\ Path(q)' = Path(q)
  BY StillSaid DEF Told
<1>7. PlainType(var.type)' <=> PlainType(var.type)
  BY StillSaid
<1>8. FirstInv'
  BY <1>3, <1>6, <1>7, StillBraces DEF InitialiserInv, FirstInv
<1>9. PICK n : n = next
  OBVIOUS
<1>10. Told(next)' <=> Told(next)
  BY <1>3, <1>6, <1>9 DEF Told, Separated, Counted
<1>11. CountsInv'
  BY <1>3, <1>7, <1>10, StillBraces DEF InitialiserInv, CountsInv
<1>12. SumInv'
  <2>1. PICK path, v, d : path = Prefix(Depth) /\ v = Walk(path) /\ d = v.dim
    OBVIOUS
  <2>2. path = Prefix(Depth)'
    BY <1>3, <2>1 DEF Prefix, Depth
  <2>3. v = Walk(path)' /\ RowBytes(v, d)' = RowBytes(v, d)
    BY <2>1, StillWalk, StillSaid
  <2>4. Wide' <=> Wide
    BY <1>3, StillSaid DEF Wide
  <2>5. RowBytes(var, 0)' = RowBytes(var, 0)
    BY DEF vars, structVars, initVars, RowBytes, Bytes, StructOf, IsStruct
  <2> QED BY <1>3, <1>7, <1>10, <2>1, <2>2, <2>3, <2>4, <2>5, StillBraces DEF InitialiserInv, SumInv, Covered
<1>13. PrintedInv'
  <2>1. \A k \in 1..Len(data) : Right(k)' <=> Right(k)
    <3>1. SUFFICES ASSUME NEW k \in 1..Len(data) PROVE Right(k)' <=> Right(k)
      OBVIOUS
    <3>2. PICK tok, path, w : tok = data[k].tok /\ path = Path(tok) /\ w = Walk(path)
      OBVIOUS
    <3>3. path = Path(tok)' /\ w = Walk(path)' /\ (Fitting(path)' <=> Fitting(path)) /\ (Told(tok)' <=> Told(tok))
          /\ (NarrowString(tok)' <=> NarrowString(tok)) /\ Bytes(w.type)' = Bytes(w.type)
      BY <1>6, <3>2, StillWalk, StillFitting, StillSaid
    <3> QED BY <1>3, <3>2, <3>3 DEF Right, Placed
  <2> QED BY <1>3, <1>7, <2>1 DEF InitialiserInv, PrintedInv
<1> QED BY <1>1, <1>2, <1>4, <1>5, <1>8, <1>11, <1>12, <1>13 DEF InitialiserInv

\* In PASS1 nothing is printed, and what is behind it begins with a declaration.
Ahead == data' = <<>> /\ (pass' # "PASS3" \/ mode' = "none")

\* The parts that the operations are made of keep that.
LEMMA AheadParts ==
  ASSUME pass = "PASS1", data = <<>>
  PROVE  /\ \A e : Refuse(e) => Ahead
         /\ \A kind, ref, dim : Push(kind, ref, dim) => Ahead
         /\ \A fs, dims, items : Complete(fs, dims, items) => Ahead
         /\ \A m : NextElement(m) => Ahead
         /\ Declared /\ UNCHANGED data => Ahead
<1>1. Declared /\ UNCHANGED data => Ahead
  BY DEF Declared, Ahead
<1>2. \A e : Refuse(e) => Ahead
  BY DEF Refuse, Stop, initVars, Ahead
<1>3. \A kind, ref, dim : Push(kind, ref, dim) => Ahead
  BY <1>1 DEF Push
<1>4. \A fs, dims, items : Complete(fs, dims, items) => Ahead
  BY <1>1 DEF Complete, Printed
<1>5. \A m : NextElement(m) => Ahead
  BY <1>1, <1>2, Zenon DEF NextElement
<1> QED BY <1>1, <1>2, <1>3, <1>4, <1>5

\* So does every step of the first pass.
LEMMA AheadStep ==
  ASSUME pass = "PASS1", data = <<>>, InitialNext
  PROVE  Ahead
<1>1. ASSUME Between PROVE Ahead
  <2>1. UNCHANGED <<data, mode>> /\ mode = "none"
    BY <1>1 DEF Between, initVars
  <2> QED BY <2>1 DEF Ahead
<1>2. ASSUME NEW type, NEW dims, NEW init, Declare(type, dims, init) PROVE Ahead
  <2>1. (\E e : Refuse(e)) \/ (data' = <<>> /\ Declared)
    BY <1>2 DEF Declare
  <2>2. Declared => pass' = pass
    BY DEF Declared
  <2> QED BY <2>1, <2>2, AheadParts DEF Ahead
<1>3. ASSUME Initialiser PROVE Ahead
  BY <1>3, AheadParts, Zenon
     DEF Initialiser, OpenRow, OpenStruct, Number, String, Misplaced, Comma, NoBrace, Swallow, CloseRow, CloseStruct
<1>4. ASSUME EndDeclaration PROVE Ahead
  BY <1>4, AheadParts, Zenon DEF EndDeclaration
<1> QED BY <1>1, <1>2, <1>3, <1>4, Zenon DEF InitialNext

\* The invariant speaks of what PASS3 prints: a step of PASS1 keeps it.
LEMMA FirstPassInvariant ==
  ASSUME InitialiserInv, pass = "PASS1", InitialNext
  PROVE  InitialiserInv'
<1>1. data = <<>>
  BY DEF InitialiserInv, PrintedInv
<1>2. Ahead
  BY <1>1, AheadStep
<1>3. LayoutInv'
  BY LayoutStep DEF InitialiserInv
<1> QED BY <1>2, <1>3, QuietFirst DEF Ahead, Filling

\* The text is the same in PASS3.
LEMMA ReadAgain ==
  ASSUME UnitInv, pass = "PASS3", NEW x, Read(x)
  PROVE  /\ UNCHANGED unit /\ next' = next + 1 /\ TextGrows
         /\ UNCHANGED c32_st_root => Steady
<1>1. UNCHANGED unit /\ next' = next + 1
  BY DEF Read
<1>2. TextGrows
  BY <1>1 DEF TextGrows
<1> QED BY <1>1, <1>2, SteadySame

\* The ; behind the variable.
LEMMA EndDeclarationInvariant ==
  ASSUME InitialiserInv, Filling, EndDeclaration
  PROVE  InitialiserInv'
<1>1. LayoutInv' /\ UnitInv /\ pass = "PASS3"
  BY EndDeclarationStep, GoingProp DEF InitialiserInv, LayoutInv
<1>2. CASE \E t : Scan(t) /\ Refuse("syntax")
  <2>1. PICK t : Scan(t) /\ Refuse("syntax")
    BY <1>2
  <2>2. UNCHANGED unit /\ next' = next + 1
    BY <1>1, <2>1, ReadAgain DEF Scan
  <2> QED BY <1>1, <2>1, <2>2, RefuseInvariant
<1>3. CASE \E t : Scan(t) /\ mode' = "none" /\ Declared /\ UNCHANGED <<c32_st_root, var, frames, strings, data>>
  <2>1. PICK t : Scan(t) /\ mode' = "none" /\ Declared /\ UNCHANGED <<c32_st_root, var, frames, strings, data>>
    BY <1>3
  <2>2. UNCHANGED unit /\ next' = next + 1 /\ Steady
    BY <1>1, <2>1, ReadAgain DEF Scan
  <2>3. ~Filling' /\ pass' = pass
    BY <2>1 DEF Filling, Declared
  <2> QED BY <1>1, <2>1, <2>2, <2>3, QuietPrinted
<1> QED BY <1>2, <1>3, Zenon DEF EndDeclaration

\* The structures and the end of the text in PASS3.
LEMMA BetweenInvariant ==
  ASSUME InitialiserInv, pass = "PASS3", Between
  PROVE  InitialiserInv'
<1>1. /\ LayoutInv /\ LayoutInv' /\ UnitInv /\ mode = "none" /\ StructNext
      /\ UNCHANGED <<var, frames, mode, strings, data>> /\ ~Filling'
  BY BetweenStep DEF InitialiserInv, LayoutInv, Between, initVars, Filling
<1>2. SUFFICES Steady /\ UNCHANGED unit /\ next' \in {next, next + 1} /\ pass' # "PASS1"
  BY <1>1, QuietPrinted
<1>3. ASSUME NEW x, Read(x), UNCHANGED <<c32_st_root, pass>>
      PROVE  Steady /\ UNCHANGED unit /\ next' \in {next, next + 1} /\ pass' # "PASS1"
  BY <1>1, <1>3, ReadAgain
<1>4. ASSUME NEW t, StructName(t) PROVE \E x : Read(x) /\ UNCHANGED <<c32_st_root, pass>>
  BY <1>4 DEF StructName
<1>5. ASSUME EndStruct PROVE \E x : Read(x) /\ UNCHANGED <<c32_st_root, pass>>
  BY <1>5 DEF EndStruct
<1>6. ASSUME NEW n \in Names, NEW shape \in profile.shapes, Member(n, shape.type, shape.dims)
      PROVE  Steady /\ UNCHANGED unit /\ next' \in {next, next + 1} /\ pass' # "PASS1"
  <2>1. PICK type, dims : type = shape.type /\ dims = shape.dims
    OBVIOUS
  <2>2. type \in Types /\ dims \in Seq(Nat \cup {Empty}) /\ Member(n, type, dims)
    BY <1>1, <1>6, <2>1, ProfilesAssumption DEF LayoutInv, StateInv
  <2>3. Read(MemberItem(n, type, dims)) /\ open # 0 /\ err = "none"
    BY <2>2 DEF Member, MemberItem, Reading
  <2>4. CASE \E e : Stop(e)
    BY <1>3, <2>3, <2>4 DEF Stop
  <2>5. CASE c32_st_root' = Again(n, dims) /\ UNCHANGED <<profile, pass, open, err>>
    <3>1. Steady
      BY <1>1, <2>2, <2>3, <2>5, AgainTables
    <3> QED BY <1>1, <2>3, <2>5, <3>1, ReadAgain
  <2> QED BY <2>2, <2>4, <2>5 DEF Member
<1>7. CASE EndPass1
  BY <1>7 DEF EndPass1
<1>8. CASE EndPass3
  <2>1. UNCHANGED <<unit, next, c32_st_root>> /\ pass' = "DONE"
    BY <1>8 DEF EndPass3
  <2>2. TextGrows
    BY <2>1 DEF TextGrows
  <2> QED BY <2>1, <2>2, SteadySame
<1> QED BY <1>1, <1>3, <1>4, <1>5, <1>6, <1>7, <1>8 DEF StructNext, Definition

\* The variable that is declared.
Declares(type, dims, init, v) ==
  /\ type \in Types /\ init \in BOOLEAN /\ (type.base = "struct" => Known(type.tag))
  /\ v \in Objects /\ v.type = type /\ v.at = next /\ v.init = init
  /\ var' = v /\ mode' = (IF init THEN "value" ELSE "end") /\ frames' = <<>> /\ strings' = <<>>
  /\ data' = IF init THEN <<>> ELSE Fill(v.size)
  /\ UNCHANGED <<profile, pass, open, err, c32_st_root>>

\* Declare refuses, or begins with the initialiser of such a variable.
LEMMA DeclareCases ==
  ASSUME InitialiserInv, pass = "PASS3", NEW type \in Types, NEW dims \in Seq(Nat \cup {Empty}),
         NEW init \in BOOLEAN, Declare(type, dims, init)
  PROVE  (\E e : e # "none" /\ Refuse(e)) \/ (\E v : Declares(type, dims, init, v))
<1> DEFINE sym == [type |-> type, dims |-> <<>>, size |-> Bytes(type), at |-> At, init |-> init]
           v == IF dims = <<>> THEN sym ELSE Sized(sym, dims)
<1>1. CASE \E e : e # "none" /\ Refuse(e)
  BY <1>1
<1>2. CASE ~(\E e : e # "none" /\ Refuse(e))
  <2>1. /\ type.base = "struct" => Known(type.tag)
        /\ var' = v /\ mode' = (IF init THEN "value" ELSE "end") /\ frames' = <<>> /\ strings' = <<>>
        /\ data' = (IF pass = "PASS3" /\ ~init THEN Fill(v.size) ELSE <<>>)
        /\ Declared /\ UNCHANGED c32_st_root
    <3>1. "undefined" # "none" /\ "syntax" # "none"
      OBVIOUS
    <3> QED BY <1>2, <3>1, Zenon DEF Declare
  <2>2. PICK b \in Int, d \in Seq(Nat), a \in Nat : b = Bytes(type) /\ d = Dims(dims) /\ a = At /\ a = next
    <3>1. Bytes(type) \in Int
      BY <2>1, BytesProp DEF InitialiserInv, LayoutInv
    <3>2. At = next /\ next \in Nat
      BY DEF At, InitialiserInv, LayoutInv, StateInv
    <3> QED BY <3>1, <3>2, DimsProp
  <2>3. PICK z \in Int : z = Times(b, d)
    <3>1. d \in Seq(Int)
      BY <2>2
    <3> QED BY <2>2, <3>1, TimesProp
  <2>4. sym = [type |-> type, dims |-> <<>>, size |-> b, at |-> a, init |-> init]
    BY <2>2
  <2>5. v \in Objects /\ v.type = type /\ v.at = a /\ v.init = init
    <3>1. CASE dims = <<>>
      BY <2>2, <2>4, <3>1 DEF Objects
    <3>2. CASE dims # <<>>
      <4>1. sym.type = type
        OBVIOUS
      <4>2. Sized(sym, dims) = [sym EXCEPT !.dims = d, !.size = z]
        BY <2>2, <2>3, <4>1 DEF Sized
      <4>3. v = [type |-> type, dims |-> d, size |-> z, at |-> a, init |-> init]
        BY <2>4, <3>2, <4>2
      <4> QED BY <2>2, <2>3, <4>3 DEF Objects
    <3> QED BY <3>1, <3>2
  <2> HIDE DEF v
  <2>6. data' = IF init THEN <<>> ELSE Fill(v.size)
    BY <2>1
  <2>7. UNCHANGED <<profile, pass, open, err, c32_st_root>>
    BY <2>1 DEF Declared
  <2>8. Declares(type, dims, init, v)
    BY <2>1, <2>2, <2>5, <2>6, <2>7, Zenon DEF Declares
  <2> QED BY <2>8
<1> QED BY <1>1, <1>2

\* Filled up or not, no value of the text is printed.
LEMMA BlankData ==
  ASSUME NEW n \in Int
  PROVE  Blank(Fill(n)) /\ (n >= 0 => Total(Fill(n)) = n)
<1>1. CASE n >= 0
  <2>1. n \in Nat
    BY <1>1
  <2> QED BY <2>1, BlankFill
<1>2. CASE ~(n >= 0)
  <2>1. ~(n > 0)
    BY <1>2
  <2>2. Fill(n) = <<>>
    BY <2>1, Zenon DEF Fill
  <2> QED BY <1>2, <2>2, BlankNone
<1> QED BY <1>1, <1>2

\* A variable is declared.
LEMMA DeclareInvariant ==
  ASSUME InitialiserInv, pass = "PASS3", NEW type \in Types, NEW dims \in Seq(Nat \cup {Empty}),
         NEW init \in BOOLEAN, Declare(type, dims, init)
  PROVE  InitialiserInv'
<1>1. /\ LayoutInv /\ LayoutInv' /\ UnitInv /\ StateInv /\ NamesInv /\ mode = "none"
      /\ err = "none" /\ open = 0 /\ next \in Nat
  BY DeclareStep DEF InitialiserInv, LayoutInv, StateInv, Declare, Reading
<1>2. UNCHANGED unit /\ next' = next + 1 /\ (UNCHANGED c32_st_root => Steady)
  <2>1. PICK x : Read(x)
    BY DEF Declare
  <2> QED BY <1>1, <2>1, ReadAgain
<1>3. CASE \E e : e # "none" /\ Refuse(e)
  <2>1. UNCHANGED <<c32_st_root, pass, var, mode, data>>
    BY <1>3 DEF Refuse, Stop, initVars
  <2> QED BY <1>1, <1>2, <2>1, QuietPrinted DEF Filling
<1>4. CASE \E v : Declares(type, dims, init, v)
  <2>1. PICK v : Declares(type, dims, init, v)
    BY <1>4
  <2>2. /\ v \in Objects /\ v.type = type /\ v.at = next /\ v.init = init /\ (type.base = "struct" => Known(type.tag))
        /\ var' = v /\ mode' = (IF init THEN "value" ELSE "end") /\ frames' = <<>> /\ strings' = <<>>
        /\ data' = (IF init THEN <<>> ELSE Fill(v.size))
        /\ UNCHANGED <<profile, pass, open, err, c32_st_root>>
    BY <2>1 DEF Declares
  <2>3. v.dims \in Seq(Nat) /\ v.size \in Int
    BY <2>2 DEF Objects
  <2>4. ObjectInv'
    <3>1. Known(type.tag)' <=> Known(type.tag)
      BY <2>2 DEF Known
    <3> QED BY <1>1, <1>2, <2>2, <3>1 DEF ObjectInv, Filling
  <2>5. StringsInv'
    BY <2>2, TotalNone DEF StringsInv
  <2>6. Depth' = 0 /\ Prefix(Depth)' = <<>>
    BY <2>2 DEF Depth, Prefix
  <2>7. BracesInv'
    BY <2>6 DEF BracesInv
  <2>8. \A q \in var'.at+1..next' : Path(q)' = <<>>
    <3>1. var'.at \in Nat /\ var'.at = next
      BY <1>1, <2>2
    <3>2. Path(var.at + 1)' = <<>>
      BY <3>1, PathGoesOnThen DEF PathRule
    <3>3. ASSUME NEW q \in var'.at+1..next' PROVE q = var'.at + 1
      BY <1>1, <1>2, <3>1
    <3> QED BY <3>2, <3>3
  <2>9. PathInv'
    <3>1. Path(next)' = <<>>
      <4>1. PICK q : q = next'
        OBVIOUS
      <4>2. q \in var'.at+1..next'
        BY <1>1, <1>2, <2>2, <4>1
      <4>3. Path(q)' = Path(next)'
        BY <4>1 DEF Path
      <4> QED BY <2>8, <4>2, <4>3
    <3>2. Indexes' = <<>> /\ mode' \notin {"after", "comma"}
      BY <2>2, <2>6 DEF Indexes
    <3> QED BY <3>1, <3>2 DEF PathInv
  <2>10. FirstInv'
    BY <2>8 DEF FirstInv
  <2>11. CountsInv'
    BY <2>2 DEF CountsInv
  <2>12. ASSUME PlainType(var.type)'
         PROVE  RowBytes(v, 0) \in Nat /\ RowBytes(v, 0)' = RowBytes(v, 0)
    <3>1. PlainType(type)
      <4>1. \A T : Plain(T)' <=> Plain(T)
        BY <1>2, <2>2 DEF Plain, Measured, RowBytes, Bytes, StructOf, IsStruct
      <4>2. \A tag : StructOf(tag)' = StructOf(tag)
        BY <2>2 DEF StructOf
      <4>3. var'.type = type
        BY <2>2
      <4> QED BY <2>2, <2>12, <4>1, <4>2, <4>3 DEF PlainType
    <3>2. PICK T \in SUBSET Structs : Plain(T) /\ TypeIn(type, T)
      <4>1. CASE type.base = "struct"
        <5>1. PICK T \in SUBSET DOMAIN c32_st_root : StructOf(type.tag) \in T /\ Plain(T) /\ type.ptr = 0
          BY <3>1, <4>1 DEF PlainType
        <5>2. DOMAIN c32_st_root = Structs
          BY <1>1, TablesProp
        <5> QED BY <2>2, <5>1, <5>2 DEF TypeIn
      <4>2. CASE type.base # "struct"
        <5>1. {} \in SUBSET Structs /\ Plain({})
          BY DEF Plain
        <5> QED BY <4>2, <5>1 DEF TypeIn
      <4> QED BY <4>1, <4>2
    <3>3. Growing = 0
      BY <1>1 DEF Growing
    <3>4. PICK a, b \in Nat : a = Bytes(v.type) /\ b = Below(v.dims, 0)
      <4>1. Bytes(v.type) \in Nat
        BY <1>1, <2>2, <3>2, <3>3, BytesPositive
      <4>2. 0 \in 0..Len(v.dims)
        BY <2>3
      <4> QED BY <2>3, <4>1, <4>2, BelowProp
    <3>5. RowBytes(v, 0) = a * b /\ a * b \in Nat
      BY <3>4 DEF RowBytes
    <3>6. RowBytes(v, 0)' = RowBytes(v, 0)
      BY <2>2 DEF RowBytes, Bytes, StructOf, IsStruct
    <3> QED BY <3>5, <3>6
  <2>13. Blank(data)' /\ (v.size >= 0 /\ ~init => Total(data)' = v.size) /\ (init => Total(data)' = 0)
    <3>1. PICK items : items = data'
      OBVIOUS
    <3>2. Blank(items) /\ (v.size >= 0 /\ ~init => Total(items) = v.size) /\ (init => Total(items) = 0)
      BY <2>2, <2>3, <3>1, BlankData, BlankNone
    <3> QED BY <3>1, <3>2 DEF Blank, Total
  <2>14. SumInv'
    <3>1. PICK path, w : path = Prefix(Depth)' /\ w = Walk(path)'
      OBVIOUS
    <3>2. w = [type |-> v.type, dims |-> v.dims, dim |-> 0, at |-> 0]
      BY <2>2, <2>6, <3>1, WalkGoesOnThen DEF WalkRule, Start
    <3>3. RowBytes(w, w.dim)' = RowBytes(v, 0)'
      BY <3>2 DEF RowBytes
    <3>4. Walk(Prefix(Depth))' = w
      BY <3>1 DEF Walk
    <3>5. ASSUME PlainType(var.type)', init \/ v.size = RowBytes(v, 0)'
          PROVE  Total(data)' = w.at + IF mode' \in {"value", "more"} THEN 0 ELSE RowBytes(w, w.dim)'
      <4>1. RowBytes(v, 0) \in Nat /\ RowBytes(v, 0)' = RowBytes(v, 0)
        BY <2>12, <3>5
      <4>2. w.at = 0
        BY <3>2
      <4>3. CASE init
        BY <2>2, <2>13, <4>2, <4>3
      <4>4. CASE ~init
        BY <2>2, <2>13, <3>3, <3>5, <4>1, <4>2, <4>4
      <4> QED BY <4>3, <4>4
    <3>6. RowBytes(var, 0)' = RowBytes(v, 0)'
      BY <2>2 DEF RowBytes
    <3> QED BY <2>2, <3>4, <3>5, <3>6 DEF SumInv, Covered, Total
  <2>15. PrintedInv'
    <3>1. data' \in Seq(Items) /\ \A k \in 1..Len(data') : data'[k].tok = 0
      BY <2>13 DEF Blank
    <3>2. \A k \in 1..Len(data') : Right(k)'
      BY <3>1 DEF Right
    <3> QED BY <2>2, <3>1, <3>2 DEF PrintedInv
  <2> QED BY <1>1, <2>4, <2>5, <2>7, <2>9, <2>10, <2>11, <2>14, <2>15 DEF InitialiserInv
<1> QED BY <1>3, <1>4, DeclareCases

------------------------------------------------------------------------------
\* All steps

\* An initialiser is read only behind the name of a variable.
LEMMA InitialiserReads ==
  ASSUME Initialiser \/ EndDeclaration
  PROVE  Reading /\ mode # "none"
<1>1. OpenRow \/ OpenStruct \/ Number \/ String \/ Misplaced => Wanted
  BY Zenon DEF OpenRow, OpenStruct, Number, String, Misplaced
<1>2. Wanted => Reading /\ mode # "none"
  BY DEF Wanted
<1>3. Comma \/ NoBrace \/ Swallow \/ CloseRow \/ CloseStruct =>
        Reading /\ (mode \in {"after", "comma"} \/ mode = "after" \/ mode = "comma")
  BY Zenon DEF Comma, NoBrace, Swallow, CloseRow, CloseStruct, After
<1>4. EndDeclaration => Reading /\ mode = "end"
  BY Zenon DEF EndDeclaration
<1>5. (mode \in {"after", "comma"} \/ mode = "after" \/ mode = "comma" \/ mode = "end") => mode # "none"
  OBVIOUS
<1> QED BY <1>1, <1>2, <1>3, <1>4, <1>5, Zenon DEF Initialiser

\* No step breaks the invariant.
LEMMA InitialiserStep ==
  ASSUME InitialiserInv, [InitialNext]_vars
  PROVE  InitialiserInv'
<1>1. CASE UNCHANGED vars
  BY <1>1, StillInvariant
<1>2. CASE InitialNext /\ pass = "PASS1"
  BY <1>2, FirstPassInvariant
<1>3. CASE InitialNext /\ pass # "PASS1"
  <2>1. CASE Between
    <3>1. Reading
      BY <2>1 DEF Between, StructNext, Definition, StructName, Member, EndStruct, EndPass1, EndPass3
    <3> QED BY <1>3, <2>1, <3>1, BetweenInvariant DEF Reading
  <2>2. ASSUME NEW shape \in profile.vars, NEW init \in BOOLEAN, Declare(shape.type, shape.dims, init)
        PROVE  InitialiserInv'
    <3>1. PICK type, dims : type = shape.type /\ dims = shape.dims
      OBVIOUS
    <3>2. type \in Types /\ dims \in Seq(Nat \cup {Empty}) /\ Declare(type, dims, init)
      BY <2>2, <3>1, ProfilesAssumption DEF InitialiserInv, LayoutInv, StateInv
    <3>3. pass = "PASS3"
      BY <1>3, <3>2 DEF Declare, Reading
    <3> QED BY <3>2, <3>3, DeclareInvariant
  <2>3. CASE Initialiser \/ EndDeclaration
    <3>1. Filling
      BY <1>3, <2>3, InitialiserReads DEF Reading, Filling
    <3>2. CASE EndDeclaration
      BY <3>1, <3>2, EndDeclarationInvariant
    <3>3. CASE Initialiser
      BY <3>1, <3>3, OpenInvariant, NumberInvariant, StringInvariant, MisplacedInvariant, CommaInvariant,
         NoBraceInvariant, SwallowInvariant, CloseRowInvariant, CloseStructInvariant, Zenon DEF Initialiser
    <3> QED BY <2>3, <3>2, <3>3
  <2> QED BY <1>3, <2>1, <2>2, <2>3, Zenon DEF InitialNext
<1> QED BY <1>1, <1>2, <1>3

\* At first nothing is printed.
LEMMA InitialiserFirst == InitialInit => InitialiserInv
<1>1. SUFFICES ASSUME InitialInit PROVE InitialiserInv
  OBVIOUS
<1>2. data = <<>> /\ pass = "PASS1"
  BY <1>1, Zenon DEF InitialInit, StructInit
<1>3. ~Filling
  BY <1>2 DEF Filling
<1>4. PrintedInv
  BY <1>2, TotalNone DEF PrintedInv
<1>5. LayoutInv
  BY <1>1, LayoutFirst
<1> QED BY <1>2, <1>3, <1>4, <1>5, Zenon
     DEF InitialiserInv, ObjectInv, StringsInv, BracesInv, PathInv, FirstInv, CountsInv, SumInv

\* A variable that is read to the end has all its bytes.
LEMMA WholeNow ==
  ASSUME InitialiserInv, Filling, mode = "end", PlainType(var.type), Told(next), Wide,
         var.init \/ var.size = RowBytes(var, 0)
  PROVE  Total(data) = RowBytes(var, 0)
<1>1. /\ LayoutInv /\ Growing = 0 /\ var \in Objects /\ (var.type.base = "struct" => Known(var.type.tag))
      /\ var.dims \in Seq(Nat) /\ var.type \in Types /\ Depth = 0
  BY GoingProp DEF FramesInv
<1>2. Prefix(Depth) = <<>>
  BY <1>1 DEF Prefix
<1>3. PICK w : w = Walk(<<>>)
  OBVIOUS
<1>4. w.at = 0 /\ w.dim = 0 /\ RowBytes(w, 0) = RowBytes(var, 0)
  BY <1>3, WalkGoesOn DEF WalkRule, Start, RowBytes
<1>5. Total(data) = Covered(w)
  BY <1>2, <1>3 DEF InitialiserInv, SumInv, Total
<1>6. RowBytes(var, 0) \in Int
  <2>1. Bytes(var.type) \in Int
    BY <1>1, BytesProp DEF LayoutInv
  <2>2. 0 \in 0..Len(var.dims)
    BY <1>1
  <2>3. Below(var.dims, 0) \in Nat
    BY <1>1, <2>2, BelowProp
  <2> QED BY <2>1, <2>3 DEF RowBytes
<1> QED BY <1>4, <1>5, <1>6 DEF Covered

\* The invariant implies the two properties.
LEMMA InitialiserSafe == InitialiserInv => ValuesWhereRead /\ WholeObject
<1>1. SUFFICES ASSUME InitialiserInv PROVE ValuesWhereRead /\ WholeObject
  OBVIOUS
<1>2. ValuesWhereRead
  <2>1. SUFFICES ASSUME PlainType(var.type), NEW k \in DOMAIN data, NEW tok, tok = data[k].tok,
                        tok # 0, ~data[k].text, Told(tok), ~NarrowString(tok), NEW w, w = Walk(Path(tok))
                 PROVE  /\ w.dim = Len(w.dims) /\ data[k].bytes = Bytes(w.type)
                        /\ BytesOf(data, k - 1) = w.at
    BY Zenon DEF ValuesWhereRead, Told
  <2>2. data \in Seq(Items) /\ \A l \in 1..Len(data) : Right(l)
    BY <1>1, <2>1 DEF InitialiserInv, PrintedInv
  <2>3. Right(k)
    BY <2>2
  <2> QED BY <2>1, <2>3 DEF Right, Placed
<1>3. WholeObject
  <2>1. SUFFICES ASSUME mode = "end", err = "none", pass = "PASS3", PlainType(var.type), Told(next), Wide,
                        var.init \/ var.size = RowBytes(var, 0)
                 PROVE  Total(data) = RowBytes(var, 0)
    BY Zenon DEF WholeObject, Told, Wide, Total
  <2>2. Filling
    BY <2>1 DEF Filling
  <2> QED BY <1>1, <2>1, <2>2, WholeNow
<1> QED BY <1>2, <1>3

\* The invariant of the initialisers.
THEOREM InitialisersInductive == InitialSpec => []InitialiserInv
<1>1. InitialInit => InitialiserInv
  BY InitialiserFirst
<1>2. InitialiserInv /\ [InitialNext]_vars => InitialiserInv'
  BY InitialiserStep
<1> QED BY <1>1, <1>2, PTL DEF InitialSpec

\* Each value of an array, or of a structure that PlainType allows, is printed at the
\* offset and in the bytes where the code that uses the variable looks for it
\* (c32_global_array_init and what it calls).  It is not so for a structure with gaps,
\* like that of src/compiler/test.prep:5-19, which the property leaves out, nor for one
\* with a member of no size or a pointer to a structure.
THEOREM ValuesArePlaced == InitialSpec => []ValuesWhereRead
<1>1. InitialiserInv => ValuesWhereRead
  BY InitialiserSafe
<1> QED BY <1>1, InitialisersInductive, PTL

\* What array_init_sub and struct_init print for a variable, with array_dummy_init
\* for what the braces leave out, has the size of the variable, of a structure without
\* gaps, members of no size and pointers to structures.
THEOREM ObjectsAreWhole == InitialSpec => []WholeObject
<1>1. InitialiserInv => WholeObject
  BY InitialiserSafe
<1> QED BY <1>1, InitialisersInductive, PTL
===============================================================================
