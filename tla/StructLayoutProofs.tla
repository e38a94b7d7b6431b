--------------------------- MODULE StructLayoutProofs ---------------------------
(***************************************************************************)
(* Proofs about StructLayout, for every text: the members of a structure   *)
(* lie apart, whole and aligned, in both passes and whatever initialisers  *)
(* stand between the definitions.                                          *)
(***************************************************************************)
EXTENDS Initialisers, NatExtremes, SequenceTheorems

------------------------------------------------------------------------------
\* Numbers

\* An int keeps every number that fits, and of the others whether it is a multiple of
\* 2 or 4.
LEMMA WordProp ==
  ASSUME NEW n \in Int
  PROVE  /\ Word(n) \in Int
         /\ 0 <= n /\ n < INT \div 2 => Word(n) = n
         /\ \A d \in {2, 4} : n % d = 0 => Word(n) % d = 0
<1> DEFINE h == INT \div 2
           r == (n + h) % INT
           q == (n + h) \div INT
<1>1. PICK i \in Nat : INT = 8 * i /\ i > 0
  <2>1. INT \in Nat /\ INT % 8 = 0 /\ INT # 0
    BY WidthAssumption
  <2>2. INT = 8 * (INT \div 8) /\ INT \div 8 \in Nat
    BY <2>1
  <2> QED BY <2>1, <2>2
<1>2. h = 4 * i /\ h \in Nat
  BY <1>1
<1> HIDE DEF h
<1>3. n + h \in Int /\ INT \in Nat /\ INT > 0
  BY <1>1, <1>2
<1>4. r \in 0..INT-1 /\ q \in Int /\ n + h = INT * q + r
  BY <1>3
<1>5. 0 <= n /\ n < h => r = n + h
  BY <1>1, <1>2, <1>3
<1> HIDE DEF r, q
<1>6. Word(n) = r - h
  BY DEF Word, r, h
<1> DEFINE w == i * q
<1>7. w \in Int /\ INT * q = 8 * w
  BY <1>1, <1>4
<1> HIDE DEF w
<1>8. n % 4 = 0 => (r - h) % 4 = 0
  <2> SUFFICES ASSUME n % 4 = 0 PROVE (r - h) % 4 = 0
    OBVIOUS
  <2>1. n = 4 * (n \div 4) /\ n \div 4 \in Int
    OBVIOUS
  <2>2. r - h = 4 * ((n \div 4) - 2 * w)
    BY <1>2, <1>4, <1>7, <2>1
  <2> QED BY <1>7, <2>1, <2>2
<1>9. n % 2 = 0 => (r - h) % 2 = 0
  <2> SUFFICES ASSUME n % 2 = 0 PROVE (r - h) % 2 = 0
    OBVIOUS
  <2>1. n = 2 * (n \div 2) /\ n \div 2 \in Int
    OBVIOUS
  <2>2. r - h = 2 * ((n \div 2) - 4 * w)
    BY <1>2, <1>4, <1>7, <2>1
  <2> QED BY <1>7, <2>1, <2>2
<1> QED BY <1>2, <1>4, <1>5, <1>6, <1>8, <1>9 DEF h

\* A place that is rounded up is a multiple of what is asked for, and behind n.
LEMMA RoundUpProp ==
  ASSUME NEW n \in Int, NEW bytes
  PROVE  /\ RoundUp(n, bytes) \in Int
         /\ RoundUp(n, bytes) % (IF bytes \in {1, 2} THEN bytes ELSE 4) = 0
         /\ 0 <= n /\ n + 3 < INT \div 2 => RoundUp(n, bytes) >= n
<1>1. CASE bytes = 1
  <2>1. RoundUp(n, bytes) = n
    BY <1>1 DEF RoundUp
  <2>2. n % 1 = 0
    OBVIOUS
  <2> QED BY <1>1, <2>1, <2>2
<1>2. CASE bytes = 2
  <2> DEFINE m == 2 * ((n + 1) \div 2)
  <2>1. RoundUp(n, bytes) = Word(m)
    BY <1>2 DEF RoundUp
  <2>2. m \in Int /\ m >= n /\ m <= n + 1 /\ m % 2 = 0
    OBVIOUS
  <2> HIDE DEF m
  <2>3. INT \div 2 \in Int
    BY WidthAssumption
  <2>4. Word(m) \in Int /\ Word(m) % 2 = 0 /\ (0 <= m /\ m < INT \div 2 => Word(m) = m)
    BY <2>2, WordProp
  <2> QED BY <1>2, <2>1, <2>2, <2>3, <2>4
<1>3. CASE bytes \notin {1, 2}
  <2> DEFINE m == 4 * ((n + 3) \div 4)
  <2>1. RoundUp(n, bytes) = Word(m)
    BY <1>3 DEF RoundUp
  <2>2. m \in Int /\ m >= n /\ m <= n + 3 /\ m % 4 = 0
    OBVIOUS
  <2> HIDE DEF m
  <2>3. INT \div 2 \in Int
    BY WidthAssumption
  <2>4. Word(m) \in Int /\ Word(m) % 4 = 0 /\ (0 <= m /\ m < INT \div 2 => Word(m) = m)
    BY <2>2, WordProp
  <2> QED BY <1>3, <2>1, <2>2, <2>3, <2>4
<1> QED BY <1>1, <1>2, <1>3

\* What so many elements of so many bytes take is an int.
LEMMA TimesProp ==
  ASSUME NEW n \in Int, NEW s \in Seq(Int)
  PROVE  Times(n, s) \in Int
<1> DEFINE Partial(h, m) == /\ h \in [0..m -> Int] /\ h[0] = n
                            /\ \A k \in 1..m : h[k] = Word(h[k - 1] * s[k])
           P == {m \in Nat : m <= Len(s) => \E h : Partial(h, m)}
<1>0. \A x, y \in Int : Word(x * y) \in Int
  <2> SUFFICES ASSUME NEW x \in Int, NEW y \in Int PROVE Word(x * y) \in Int
    OBVIOUS
  <2> DEFINE z == x * y
  <2>1. z \in Int
    OBVIOUS
  <2> HIDE DEF z
  <2>2. Word(z) \in Int
    BY <2>1, WordProp
  <2> QED BY <2>2 DEF z
<1>1. 0 \in P
  <2>1. Partial([k \in 0..0 |-> n], 0)
    OBVIOUS
  <2> QED BY <2>1
<1>2. ASSUME NEW m \in P PROVE m + 1 \in P
  <2> HIDE DEF Partial
  <2>0. m \in Nat /\ Len(s) \in Nat /\ (m <= Len(s) => \E h : Partial(h, m))
    OBVIOUS
  <2>1. SUFFICES ASSUME m + 1 <= Len(s) PROVE \E h : Partial(h, m + 1)
    BY <2>0
  <2>2. PICK h : Partial(h, m)
    BY <2>0, <2>1
  <2> USE DEF Partial
  <2>3. s[m + 1] \in Int /\ h[m] \in Int
    BY <2>1, <2>2
  <2> DEFINE x == Word(h[m] * s[m + 1])
  <2>4. x \in Int
    BY <1>0, <2>3
  <2> HIDE DEF x
  <2> DEFINE g == [k \in 0..m + 1 |-> IF k <= m THEN h[k] ELSE x]
  <2>5. g \in [0..m + 1 -> Int] /\ g[0] = n
    <3>1. \A k \in 0..m + 1 : (IF k <= m THEN h[k] ELSE x) \in Int
      BY <2>2, <2>4
    <3>2. h[0] = n /\ 0 \in 0..m + 1 /\ 0 <= m
      BY <2>2
    <3> QED BY <3>1, <3>2
  <2>6. ASSUME NEW k \in 1..m + 1 PROVE g[k] = Word(g[k - 1] * s[k])
    <3>1. CASE k <= m
      <4>1. g[k] = h[k] /\ g[k - 1] = h[k - 1]
        BY <3>1
      <4> QED BY <2>2, <3>1, <4>1
    <3>2. CASE k = m + 1
      <4>1. g[k] = x /\ g[k - 1] = h[m]
        BY <3>2
      <4> QED BY <3>2, <4>1 DEF x
    <3> QED BY <3>1, <3>2
  <2> HIDE DEF g
  <2> QED BY <2>5, <2>6
<1>3. P = Nat
  <2> HIDE DEF P
  <2>1. P \in SUBSET Nat
    BY DEF P
  <2> QED BY <1>1, <1>2, <2>1, SetInduction
<1>4. PICK h : Partial(h, Len(s))
  <2> HIDE DEF P, Partial
  <2>1. Len(s) \in P
    BY <1>3
  <2> QED BY <2>1 DEF P
<1> DEFINE F(f) == f = [m \in 0..Len(s) |-> IF m = 0 THEN n ELSE Word(f[m - 1] * s[m])]
           f == CHOOSE x : F(x)
<1>5. F(f)
  <2>1. F(h)
    BY <1>4
  <2> HIDE DEF F
  <2> QED BY <2>1
<1>6. Times(n, s) = f[Len(s)]
  BY DEF Times
<1> HIDE DEF f
<1>7. f[0] = n /\ \A k \in 1..Len(s) : f[k] = Word(f[k - 1] * s[k])
  <2>1. 0 \in 0..Len(s) /\ \A k \in 1..Len(s) : k \in 0..Len(s) /\ k # 0
    OBVIOUS
  <2> QED BY <1>5, <2>1
<1> DEFINE Q == {m \in Nat : m <= Len(s) => f[m] \in Int}
<1>8. Q = Nat
  <2>1. 0 \in Q
    BY <1>7
  <2>2. ASSUME NEW m \in Q PROVE m + 1 \in Q
    <3>1. SUFFICES ASSUME m + 1 <= Len(s) PROVE f[m + 1] \in Int
      OBVIOUS
    <3>2. f[m + 1] = Word(f[m] * s[m + 1]) /\ f[m] \in Int /\ s[m + 1] \in Int
      BY <1>7, <3>1
    <3> QED BY <1>0, <3>2
  <2>3. Q \in SUBSET Nat
    OBVIOUS
  <2> HIDE DEF Q
  <2> QED BY <2>1, <2>2, <2>3, SetInduction
<1>9. Len(s) \in Q
  BY <1>8
<1> QED BY <1>6, <1>9
------------------------------------------------------------------------------
\* The invariant

\* What the table keeps of a member.
Elems == [name : Names, type : Types, dims : Seq(Nat), size : Int, value : Int, at : Nat]
\* A structure.
Tables == [tag : Tags, elem : Seq(Elems), size : Int]

\* Member k of structure s, and the item of the text it was read from.
Elem(s, k) == c32_st_root[s].elem[k]
Structs == 1..Len(c32_st_root)
Places(s) == 1..Len(c32_st_root[s].elem)
Source(s, k) == unit[Elem(s, k).at]

\* The structure whose members get their offsets.
Growing == IF pass = "PASS1" THEN open ELSE 0

\* The items of the text; of what else unit is a sequence does not matter.
UnitInv ==
  /\ \E S : unit \in Seq(S)
  /\ \A p \in 1..Len(unit) :
       /\ unit[p].kind = "struct" => unit[p].tag \in Tags
       /\ unit[p].kind = "member" =>
            unit[p].name \in Names /\ unit[p].type \in Types /\ unit[p].dims \in Seq(Nat \cup {Empty})

\* The types of the state; in PASS1 only the last structure may be open.
StateInv ==
  /\ profile \in Profiles
  /\ pass \in {"PASS1", "PASS3", "DONE"}
  /\ next \in Nat \ {0}
  /\ c32_st_root \in Seq(Tables)
  /\ open \in 0..Len(c32_st_root)
  /\ Growing \in {0, Len(c32_st_root)}

\* No tag and, in a structure, no name is there twice.
NamesInv ==
  /\ \A s, t \in Structs : c32_st_root[s].tag = c32_st_root[t].tag => s = t
  /\ \A s \in Structs : \A k, l \in Places(s) : Elem(s, k).name = Elem(s, l).name => k = l

\* A member whose size the text has not fixed: it has a dimension 0, or is the structure itself.
Vague(s, k) ==
  \/ 0 \in Range(Dims(Source(s, k).dims))
  \/ IsStruct(Elem(s, k).type) /\ Elem(s, k).type.tag = c32_st_root[s].tag

\* A member is what its item says; if it has a structure as type, one defined before,
\* or this one.
Written(s, k) ==
  /\ Elem(s, k).at \in 1..Len(unit) /\ Source(s, k).kind = "member"
  /\ Elem(s, k).name = Source(s, k).name /\ Elem(s, k).type = Source(s, k).type
  /\ Elem(s, k).type.base = "struct" =>
       \E t \in 1..s : c32_st_root[t].tag = Elem(s, k).type.tag
  /\ k = 1 => Elem(s, k).value = 0
  /\ \/ Vague(s, k)
     \/ /\ Elem(s, k).dims = Dims(Source(s, k).dims)
        /\ Elem(s, k).size = Times(Bytes(Elem(s, k).type), Elem(s, k).dims)

\* Where a member of a type may lie: at a multiple of this.
Alignment(type) == IF Bytes(type) \in {1, 2} THEN Bytes(type) ELSE 4
\* A member lies behind those in front of it.
Behind(s, k) ==
  /\ Elem(s, k).value % Alignment(Elem(s, k).type) = 0
  /\ \A l \in 1..k-1 : Elem(s, l).value + Elem(s, l).size <= Elem(s, k).value

\* Of a member behind one that is not measured, the offset says nothing.
MemberInv(s, k) == Written(s, k) /\ (Measured(s, k) => Behind(s, k))

\* The size of a structure, which while it grows is where its last member ends.
TableInv(s) ==
  LET n == Len(c32_st_root[s].elem) IN
  /\ n > 0 /\ Measured(s, n) => Elem(s, n).value + Elem(s, n).size <= c32_st_root[s].size
  /\ s # Growing => c32_st_root[s].size % 4 = 0 /\ n > 0
  /\ s = Growing => c32_st_root[s].size =
                      IF n = 0 THEN 0 ELSE Word(Elem(s, n).value + Elem(s, n).size)

\* How many items have been read in this pass.
Count == IF pass = "PASS1" THEN Len(unit) ELSE next - 1
\* The items from q + 1 to p are members of the structure named at q.
Inside(q, p) ==
  unit[q].kind = "struct" /\ \A r \in q+1..p : unit[r].kind = "member"

\* Every structure and member of the text that has been accepted is in the table.
Kept ==
  \A q \in 1..Len(unit) :
    unit[q].kind = "struct" =>
      \E s \in Structs :
        /\ c32_st_root[s].tag = unit[q].tag
        /\ \A p \in q+1..Len(unit) : Inside(q, p) => \E k \in Places(s) : Elem(s, k).at = p
\* The structure that is open is the one whose members are being read.
OpenInv ==
  open # 0 =>
    \E q \in 1..Len(unit) :
      q <= Count /\ Inside(q, Count) /\ unit[q].tag = c32_st_root[open].tag

\* A brace that is open; what ref names does not matter.
FrameOf(R) == [kind : {"row", "struct"}, ref : R, dim : Nat, i : Nat]
\* What Place says of the i outermost braces.
Under(i) ==
  IF i = 0 THEN [ref |-> Object, dim |-> 1]
  ELSE IF frames[i].kind = "row" THEN [ref |-> frames[i].ref, dim |-> frames[i].dim + 1]
  ELSE [ref |-> [s |-> frames[i].ref.s, k |-> frames[i].i + 1], dim |-> 1]
IsMember(ref) == ref.s \in Structs /\ ref.k \in Places(ref.s)

\* A row is one of the symbol that was looked for, which has the dimension.
RowInv(i) ==
  frames[i].kind = "row" =>
    /\ frames[i].dim # 0
    /\ frames[i].ref = Under(i-1).ref /\ frames[i].dim = Under(i-1).dim
    /\ IsMember(frames[i].ref) =>
         frames[i].dim <= Len(Elem(frames[i].ref.s, frames[i].ref.k).dims)
\* No structure is being read behind a declaration, and no brace is open outside of one.
FramesInv ==
  /\ \E R : frames \in Seq(FrameOf(R))
  /\ mode # "none" => open = 0
  /\ frames # <<>> => mode # "none"
  /\ mode = "end" => frames = <<>>
  /\ \A i \in 1..Len(frames) : RowInv(i)

\* All of it.
MembersInv == \A s \in Structs : \A k \in Places(s) : MemberInv(s, k)
TablesInv == \A s \in Structs : TableInv(s)
LayoutInv ==
  /\ UnitInv /\ StateInv /\ NamesInv /\ TablesInv /\ MembersInv
  /\ err = "none" => Kept /\ OpenInv
  /\ FramesInv

------------------------------------------------------------------------------
\* What no step takes back

\* The text and the tables grow, and of a member that is not vague nothing changes.
Longer ==
  /\ \A p \in 1..Len(unit) : p \in 1..Len(unit') /\ unit'[p] = unit[p]
  /\ \A s \in Structs : s \in Structs' /\ c32_st_root'[s].tag = c32_st_root[s].tag
  /\ \A s \in Structs : s # Growing => c32_st_root'[s].size = c32_st_root[s].size
  /\ \A s \in Structs : \A k \in Places(s) :
       LET e == c32_st_root[s].elem[k]
           f == c32_st_root'[s].elem[k]
       IN  /\ k \in Places(s)'
           /\ f.name = e.name /\ f.type = e.type /\ f.value = e.value /\ f.at = e.at
           /\ Vague(s, k) \/ (f.dims = e.dims /\ f.size = e.size)

\* Nor is a table or a member added.
Steady ==
  Longer /\ Structs' = Structs /\ \A s \in Structs : Places(s)' = Places(s)

\* What the tables hold.
LEMMA TablesProp ==
  ASSUME StateInv
  PROVE  /\ Len(c32_st_root) \in Nat /\ DOMAIN c32_st_root = Structs
         /\ \A s \in Structs : /\ c32_st_root[s] \in Tables
                               /\ DOMAIN c32_st_root[s].elem = Places(s)
                               /\ Len(c32_st_root[s].elem) \in Nat
         /\ \A s \in Structs : \A k \in Places(s) : Elem(s, k) \in Elems
<1>1. c32_st_root \in Seq(Tables)
  BY DEF StateInv
<1>2. ASSUME NEW s \in Structs PROVE c32_st_root[s] \in Tables
  BY <1>1 DEF Structs
<1>3. ASSUME NEW s \in Structs
      PROVE  /\ DOMAIN c32_st_root[s].elem = Places(s)
             /\ Len(c32_st_root[s].elem) \in Nat
             /\ \A k \in Places(s) : Elem(s, k) \in Elems
  <2>1. c32_st_root[s].elem \in Seq(Elems)
    BY <1>2 DEF Tables
  <2> QED BY <2>1 DEF Places, Elem
<1> QED BY <1>1, <1>2, <1>3 DEF Structs

\* One structure is changed.
LEMMA SetTable ==
  ASSUME StateInv, NEW o \in Structs, NEW r \in Tables
  PROVE  /\ [c32_st_root EXCEPT ![o] = r] \in Seq(Tables)
         /\ Len([c32_st_root EXCEPT ![o] = r]) = Len(c32_st_root)
         /\ \A s \in Structs : [c32_st_root EXCEPT ![o] = r][s] = IF s = o THEN r ELSE c32_st_root[s]
<1>1. c32_st_root \in Seq(Tables) /\ o \in 1..Len(c32_st_root)
  BY DEF StateInv, Structs
<1> QED BY <1>1, ExceptSeq DEF Structs

\* Its size is.
LEMMA SetSize ==
  ASSUME StateInv, NEW o \in Structs, NEW size \in Int
  PROVE  LET new == [c32_st_root EXCEPT ![o].size = size] IN
         /\ new \in Seq(Tables) /\ Len(new) = Len(c32_st_root)
         /\ \A s \in Structs : new[s].tag = c32_st_root[s].tag
         /\ \A s \in Structs : new[s].elem = c32_st_root[s].elem
         /\ \A s \in Structs : s # o => new[s].size = c32_st_root[s].size
         /\ new[o].size = size
<1> DEFINE r == [c32_st_root[o] EXCEPT !.size = size]
           new == [c32_st_root EXCEPT ![o] = r]
<1>1. c32_st_root[o] \in Tables
  BY TablesProp
<1>2. /\ r \in Tables /\ r.size = size /\ r.tag = c32_st_root[o].tag
      /\ r.elem = c32_st_root[o].elem
  BY <1>1 DEF Tables
<1>3. new = [c32_st_root EXCEPT ![o].size = size]
  OBVIOUS
<1> HIDE DEF r
<1>4. /\ new \in Seq(Tables) /\ Len(new) = Len(c32_st_root)
      /\ \A s \in Structs : new[s] = IF s = o THEN r ELSE c32_st_root[s]
  BY <1>2, SetTable
<1> HIDE DEF new
<1>5. new[o] = r /\ \A s \in Structs : s # o => new[s] = c32_st_root[s]
  BY <1>4
<1>6. \A s \in Structs : new[s].tag = c32_st_root[s].tag /\ new[s].elem = c32_st_root[s].elem
  BY <1>2, <1>5
<1> QED BY <1>2, <1>3, <1>4, <1>5, <1>6

\* One of its members is given other dimensions and another size.
Resized(o, m, dims, size) ==
  [c32_st_root EXCEPT ![o].elem[m] =
     [c32_st_root[o].elem[m] EXCEPT !.dims = dims, !.size = size]]

\* Another measure for a member: what that changes, and that nothing else does.
LEMMA SetMember ==
  ASSUME StateInv, NEW o \in Structs, NEW m \in Places(o), NEW dims \in Seq(Nat), NEW size \in Int
  PROVE  LET new == Resized(o, m, dims, size) IN
         /\ new \in Seq(Tables) /\ Len(new) = Len(c32_st_root)
         /\ \A s \in Structs : s # o => new[s] = c32_st_root[s]
         /\ new[o].tag = c32_st_root[o].tag /\ new[o].size = c32_st_root[o].size
         /\ Len(new[o].elem) = Len(c32_st_root[o].elem)
         /\ \A k \in Places(o) : k # m => new[o].elem[k] = c32_st_root[o].elem[k]
         /\ new[o].elem[m].name = Elem(o, m).name /\ new[o].elem[m].type = Elem(o, m).type
         /\ new[o].elem[m].value = Elem(o, m).value /\ new[o].elem[m].at = Elem(o, m).at
         /\ new[o].elem[m].dims = dims /\ new[o].elem[m].size = size
<1> DEFINE e == [c32_st_root[o].elem[m] EXCEPT !.dims = dims, !.size = size]
           es == [c32_st_root[o].elem EXCEPT ![m] = e]
           r == [c32_st_root[o] EXCEPT !.elem = es]
           new == [c32_st_root EXCEPT ![o] = r]
<1>1. c32_st_root[o] \in Tables /\ Elem(o, m) \in Elems
  BY TablesProp
<1>2. /\ e \in Elems /\ e.dims = dims /\ e.size = size
      /\ e.name = Elem(o, m).name /\ e.type = Elem(o, m).type
      /\ e.value = Elem(o, m).value /\ e.at = Elem(o, m).at
  BY <1>1 DEF Elems, Elem
<1>3. new = [c32_st_root EXCEPT ![o].elem[m] = e]
  OBVIOUS
<1> HIDE DEF e
<1>4. /\ es \in Seq(Elems) /\ Len(es) = Len(c32_st_root[o].elem)
      /\ \A k \in Places(o) : es[k] = IF k = m THEN e ELSE c32_st_root[o].elem[k]
  <2>1. c32_st_root[o].elem \in Seq(Elems) /\ m \in 1..Len(c32_st_root[o].elem)
    BY <1>1 DEF Tables, Places
  <2> QED BY <1>2, <2>1, ExceptSeq DEF Places
<1> HIDE DEF es
<1>5. /\ r \in Tables /\ r.elem = es /\ r.tag = c32_st_root[o].tag
      /\ r.size = c32_st_root[o].size
  BY <1>1, <1>4 DEF Tables
<1> HIDE DEF r
<1>6. /\ new \in Seq(Tables) /\ Len(new) = Len(c32_st_root)
      /\ \A s \in Structs : new[s] = IF s = o THEN r ELSE c32_st_root[s]
  BY <1>5, SetTable
<1> HIDE DEF new
<1>7. new[o] = r /\ \A s \in Structs : s # o => new[s] = c32_st_root[s]
  BY <1>6
<1>8. es[m] = e /\ \A k \in Places(o) : k # m => es[k] = c32_st_root[o].elem[k]
  BY <1>4
<1> DEFINE root == [c32_st_root EXCEPT ![o].elem[m] = e]
<1>9. new = root
  BY <1>3
<1> HIDE DEF root
<1>10. /\ root \in Seq(Tables) /\ Len(root) = Len(c32_st_root)
       /\ \A s \in Structs : s # o => root[s] = c32_st_root[s]
       /\ root[o].tag = c32_st_root[o].tag /\ root[o].size = c32_st_root[o].size
       /\ root[o].elem = es
  BY <1>5, <1>6, <1>7, <1>9
<1>11. /\ root \in Seq(Tables) /\ Len(root) = Len(c32_st_root)
       /\ \A s \in Structs : s # o => root[s] = c32_st_root[s]
       /\ root[o].tag = c32_st_root[o].tag /\ root[o].size = c32_st_root[o].size
       /\ Len(root[o].elem) = Len(c32_st_root[o].elem)
       /\ \A k \in Places(o) : k # m => root[o].elem[k] = c32_st_root[o].elem[k]
       /\ root[o].elem[m].name = Elem(o, m).name /\ root[o].elem[m].type = Elem(o, m).type
       /\ root[o].elem[m].value = Elem(o, m).value /\ root[o].elem[m].at = Elem(o, m).at
       /\ root[o].elem[m].dims = dims /\ root[o].elem[m].size = size
  BY <1>2, <1>4, <1>8, <1>10
<1>12. root = Resized(o, m, dims, size)
  BY DEF root, e, Resized
<1> QED BY <1>11, <1>12

\* It is given one more member, and a size.
Enlarged(o, e, size) == [c32_st_root EXCEPT ![o].elem = Append(@, e), ![o].size = size]

\* A member behind the others: what that changes.
LEMMA AddMember ==
  ASSUME StateInv, NEW o \in Structs, NEW e \in Elems, NEW size \in Int,
         NEW m, m = Len(c32_st_root[o].elem) + 1
  PROVE  LET new == Enlarged(o, e, size) IN
         /\ new \in Seq(Tables) /\ Len(new) = Len(c32_st_root)
         /\ \A s \in Structs : s # o => new[s] = c32_st_root[s]
         /\ new[o].tag = c32_st_root[o].tag /\ new[o].size = size /\ Len(new[o].elem) = m
         /\ \A k \in Places(o) : new[o].elem[k] = c32_st_root[o].elem[k]
         /\ new[o].elem[m] = e
<1> DEFINE es == Append(c32_st_root[o].elem, e)
           r == [c32_st_root[o] EXCEPT !.elem = es, !.size = size]
           new == [c32_st_root EXCEPT ![o] = r]
<1>1. c32_st_root[o] \in Tables /\ c32_st_root[o].elem \in Seq(Elems)
  <2>1. c32_st_root[o] \in Tables
    BY TablesProp
  <2> QED BY <2>1 DEF Tables
<1>2. /\ es \in Seq(Elems) /\ Len(es) = m /\ es[m] = e
      /\ \A k \in Places(o) : es[k] = c32_st_root[o].elem[k]
  BY <1>1 DEF Places
<1>3. new = Enlarged(o, e, size)
  <2>1. o \in DOMAIN c32_st_root /\ "elem" \in DOMAIN c32_st_root[o] /\ "size" \in DOMAIN c32_st_root[o]
    BY <1>1, TablesProp DEF Tables
  <2> QED BY <2>1 DEF Enlarged
<1> HIDE DEF es
<1>4. /\ r \in Tables /\ r.elem = es /\ r.tag = c32_st_root[o].tag /\ r.size = size
  BY <1>1, <1>2 DEF Tables
<1> HIDE DEF r
<1>5. /\ new \in Seq(Tables) /\ Len(new) = Len(c32_st_root)
      /\ \A s \in Structs : new[s] = IF s = o THEN r ELSE c32_st_root[s]
  BY <1>4, SetTable
<1> HIDE DEF new
<1>6. new[o] = r /\ \A s \in Structs : s # o => new[s] = c32_st_root[s]
  BY <1>5
<1>7. /\ new \in Seq(Tables) /\ Len(new) = Len(c32_st_root)
      /\ \A s \in Structs : s # o => new[s] = c32_st_root[s]
      /\ new[o].tag = c32_st_root[o].tag /\ new[o].size = size /\ Len(new[o].elem) = m
      /\ \A k \in Places(o) : new[o].elem[k] = c32_st_root[o].elem[k]
      /\ new[o].elem[m] = e
  BY <1>2, <1>4, <1>5, <1>6
<1> QED BY <1>3, <1>7

\* A structure is found by its tag.
LEMMA StructOfProp ==
  ASSUME StateInv, NamesInv, NEW s \in Structs
  PROVE  StructOf(c32_st_root[s].tag) = s
BY TablesProp DEF StructOf, NamesInv

\* What a type takes, as long as its structure has the size it had.
LEMMA BytesKept ==
  ASSUME StateInv, NamesInv, StateInv', NamesInv', NEW type \in Types,
         IsStruct(type) =>
           \E t \in Structs : /\ c32_st_root[t].tag = type.tag
                              /\ t \in Structs'
                              /\ c32_st_root'[t].tag = c32_st_root[t].tag
                              /\ c32_st_root'[t].size = c32_st_root[t].size
  PROVE  Bytes(type)' = Bytes(type)
<1>1. CASE IsStruct(type)
  <2>1. PICK t \in Structs : /\ c32_st_root[t].tag = type.tag
                             /\ t \in Structs'
                             /\ c32_st_root'[t].tag = c32_st_root[t].tag
                             /\ c32_st_root'[t].size = c32_st_root[t].size
    BY <1>1
  <2>2. StructOf(type.tag) = t
    BY <2>1, TablesProp DEF StructOf, NamesInv
  <2>3. StructOf(type.tag)' = t
    <3>1. DOMAIN c32_st_root' = Structs'
      BY TablesProp DEF StateInv, Structs
    <3> QED BY <2>1, <3>1 DEF StructOf, NamesInv
  <2> QED BY <2>1, <2>2, <2>3 DEF Bytes, IsStruct
<1>2. CASE ~IsStruct(type)
  BY <1>2 DEF Bytes, IsStruct
<1> QED BY <1>1, <1>2

\* They are an int.
LEMMA BytesProp ==
  ASSUME StateInv, NamesInv, NEW type \in Types,
         type.base = "struct" => Known(type.tag)
  PROVE  Bytes(type) \in Int
<1>0. type.base \in {"char", "short", "int", "struct"} /\ type.ptr \in Nat
  BY DEF Types
<1>1. CASE type.base = "struct" /\ type.ptr = 0
  <2>1. PICK t \in Structs : c32_st_root[t].tag = type.tag
    BY <1>1, TablesProp DEF Known
  <2>2. StructOf(type.tag) = t
    BY <2>1, TablesProp DEF StructOf, NamesInv
  <2>3. c32_st_root[t].size \in Int
    BY TablesProp DEF Tables
  <2>4. Bytes(type) = c32_st_root[t].size
    BY <1>1, <2>2 DEF Bytes, IsStruct
  <2> QED BY <2>3, <2>4
<1>2. CASE ~(type.base = "struct" /\ type.ptr = 0)
  <2>1. type.ptr > 0 \/ type.ptr = 0
    BY <1>0
  <2>2. Bytes(type) = IF type.base = "int" \/ type.ptr > 0 THEN 4
                      ELSE IF type.base = "char" THEN 1 ELSE 2
    BY <1>0, <1>2, <2>1 DEF Bytes, IsStruct
  <2> QED BY <2>2
<1> QED BY <1>1, <1>2
\* An old member keeps its item, and whether it is vague.
LEMMA OldItem ==
  ASSUME StateInv, StateInv', MembersInv, Longer, NEW s \in Structs, NEW k \in Places(s)
  PROVE  /\ s \in Structs' /\ k \in Places(s)'
         /\ Source(s, k)' = Source(s, k)
         /\ Vague(s, k)' = Vague(s, k)
<1>1. /\ s \in Structs' /\ k \in Places(s)'
      /\ c32_st_root'[s].tag = c32_st_root[s].tag
      /\ c32_st_root'[s].elem[k].type = c32_st_root[s].elem[k].type
      /\ c32_st_root'[s].elem[k].at = c32_st_root[s].elem[k].at
  BY DEF Longer
<1>2. Elem(s, k).at \in 1..Len(unit)
  BY DEF MembersInv, MemberInv, Written
<1>3. Source(s, k)' = Source(s, k)
  BY <1>1, <1>2 DEF Longer, Source, Elem
<1>4. Elem(s, k)'.type = Elem(s, k).type
  BY <1>1 DEF Elem
<1> QED BY <1>1, <1>3, <1>4 DEF Vague, IsStruct, Dims

\* A member that is measured was so before; nothing of those up to it has changed.
LEMMA OldMeasured ==
  ASSUME StateInv, StateInv', MembersInv, Longer, NEW s \in Structs, NEW k \in Places(s),
         Measured(s, k)'
  PROVE  /\ Measured(s, k)
         /\ \A l \in 1..k : /\ Elem(s, l)'.size = Elem(s, l).size
                            /\ Elem(s, l)'.dims = Elem(s, l).dims
                            /\ Elem(s, l)'.value = Elem(s, l).value
<1>1. ASSUME NEW l \in 1..k
      PROVE  /\ Elem(s, l)'.size = Elem(s, l).size
             /\ Elem(s, l)'.dims = Elem(s, l).dims
             /\ Elem(s, l)'.value = Elem(s, l).value
             /\ 0 \notin Range(Dims(Source(s, l).dims))
             /\ IsStruct(Elem(s, l).type) => Elem(s, l).type.tag # c32_st_root[s].tag
             /\ Elem(s, l).value >= 0 /\ Elem(s, l).size >= 0
             /\ Elem(s, l).value + Elem(s, l).size + 3 < INT \div 2
  <2>1. l \in Places(s)
    BY TablesProp DEF Places
  <2>2. ~Vague(s, l)'
    BY DEF Measured, Vague, Source, Elem
  <2>3. ~Vague(s, l)
    BY <2>1, <2>2, OldItem
  <2>4. /\ Elem(s, l)'.size = Elem(s, l).size
        /\ Elem(s, l)'.dims = Elem(s, l).dims
        /\ Elem(s, l)'.value = Elem(s, l).value
    BY <2>1, <2>3 DEF Longer, Elem
  <2>5. /\ Elem(s, l)'.value >= 0 /\ Elem(s, l)'.size >= 0
        /\ Elem(s, l)'.value + Elem(s, l)'.size + 3 < INT \div 2
    BY DEF Measured, Elem
  <2> QED BY <2>3, <2>4, <2>5 DEF Vague
<1>2. Measured(s, k)
  BY <1>1 DEF Measured, Source, Elem
<1> QED BY <1>1, <1>2

\* A member that was there keeps what is known of it.
LEMMA OldMembers ==
  ASSUME StateInv, NamesInv, MembersInv, StateInv', NamesInv', Longer,
         Growing \in {0, Len(c32_st_root)}, NEW s \in Structs, NEW k \in Places(s)
  PROVE  MemberInv(s, k)'
<1>1. /\ s \in Structs' /\ k \in Places(s)'
      /\ Source(s, k)' = Source(s, k)
      /\ Vague(s, k)' = Vague(s, k)
  BY OldItem
<1>2. /\ Elem(s, k)'.name = Elem(s, k).name /\ Elem(s, k)'.type = Elem(s, k).type
      /\ Elem(s, k)'.value = Elem(s, k).value /\ Elem(s, k)'.at = Elem(s, k).at
      /\ ~Vague(s, k) => Elem(s, k)'.dims = Elem(s, k).dims /\ Elem(s, k)'.size = Elem(s, k).size
  BY DEF Longer, Elem
<1>3. Written(s, k) /\ (Measured(s, k) => Behind(s, k))
  BY DEF MembersInv, MemberInv
<1>4. PICK type \in Types : type = Elem(s, k).type
  <2>1. Elem(s, k) \in Elems
    BY TablesProp
  <2> QED BY <2>1 DEF Elems
<1>5. /\ Bytes(Elem(s, k).type) = Bytes(type)
      /\ Bytes(Elem(s, k).type)' = Bytes(type)'
  BY <1>2, <1>4 DEF Bytes, IsStruct, StructOf
<1>6. ASSUME ~Vague(s, k) PROVE Bytes(type)' = Bytes(type)
  <2>1. SUFFICES ASSUME IsStruct(type)
                 PROVE  \E t \in Structs : /\ c32_st_root[t].tag = type.tag
                                           /\ t \in Structs'
                                           /\ c32_st_root'[t].tag = c32_st_root[t].tag
                                           /\ c32_st_root'[t].size = c32_st_root[t].size
    BY BytesKept
  <2>2. PICK t \in 1..s : c32_st_root[t].tag = type.tag
    BY <1>3, <1>4, <2>1 DEF Written, IsStruct
  <2>3. Len(c32_st_root) \in Nat
    BY TablesProp
  <2>5. s \in 1..Len(c32_st_root) /\ t \in Structs
    BY <2>3 DEF Structs
  <2>4. t # Growing
    <3>1. t # s
      BY <1>4, <1>6, <2>1, <2>2 DEF Vague
    <3> QED BY <2>3, <2>5, <3>1
  <2> QED BY <2>2, <2>5, <2>4 DEF Longer
<1>7. Written(s, k)'
  <2>1. Elem(s, k)'.at \in 1..Len(unit')
    <3>1. Elem(s, k).at \in 1..Len(unit)
      BY <1>3 DEF Written
    <3> QED BY <1>2, <3>1 DEF Longer
  <2>2. Elem(s, k)'.type.base = "struct" =>
          \E t \in 1..s : c32_st_root'[t].tag = Elem(s, k)'.type.tag
    <3>1. Len(c32_st_root) \in Nat
      BY TablesProp
    <3>2. \A t \in 1..s : t \in Structs
      BY <3>1 DEF Structs
    <3> QED BY <1>2, <1>3, <3>2 DEF Written, Longer
  <2>3. Vague(s, k)' \/ /\ Elem(s, k)'.dims = Dims(Source(s, k).dims)
                        /\ Elem(s, k)'.size = Times(Bytes(Elem(s, k).type)', Elem(s, k)'.dims)
    BY <1>1, <1>2, <1>3, <1>4, <1>5, <1>6 DEF Written
  <2>4. /\ Dims(Source(s, k).dims)' = Dims(Source(s, k).dims)
        /\ Times(Bytes(Elem(s, k).type), Elem(s, k).dims)'
             = Times(Bytes(Elem(s, k).type)', Elem(s, k)'.dims)
    BY <1>1 DEF Dims, Times
  <2> QED BY <1>1, <1>2, <1>3, <2>1, <2>2, <2>3, <2>4 DEF Written
<1>8. ASSUME Measured(s, k)' PROVE Behind(s, k)'
  <2>1. /\ Measured(s, k)
        /\ \A l \in 1..k : /\ Elem(s, l)'.size = Elem(s, l).size
                           /\ Elem(s, l)'.value = Elem(s, l).value
    BY <1>8, OldMeasured
  <2>2. \A l \in 1..k-1 : l \in 1..k
    BY TablesProp DEF Places
  <2>3. ~Vague(s, k)
    <3>1. k \in 1..k
      BY TablesProp DEF Places
    <3> QED BY <2>1, <3>1 DEF Measured, Vague, Source, Elem
  <2>4. Alignment(Elem(s, k).type)' = Alignment(Elem(s, k).type)
    BY <1>5, <1>6, <2>3 DEF Alignment
  <2> QED BY <1>2, <1>3, <2>1, <2>2, <2>4 DEF Behind
<1> QED BY <1>7, <1>8 DEF MemberInv

\* A structure that is not growing keeps its size.
LEMMA OldTable ==
  ASSUME StateInv, MembersInv, StateInv', Longer, NEW s \in Structs, TableInv(s),
         s # Growing, s # Growing', Len(c32_st_root'[s].elem) = Len(c32_st_root[s].elem)
  PROVE  TableInv(s)'
<1>0. PICK n \in Nat : n = Len(c32_st_root[s].elem)
  BY TablesProp
<1>1. c32_st_root'[s].size = c32_st_root[s].size
  BY DEF Longer
<1>2. ASSUME n > 0, Measured(s, n)'
      PROVE  Elem(s, n)'.value + Elem(s, n)'.size <= c32_st_root'[s].size
  <2>1. n \in Places(s) /\ n \in 1..n
    BY <1>0, <1>2 DEF Places
  <2>2. /\ Measured(s, n) /\ Elem(s, n)'.size = Elem(s, n).size
        /\ Elem(s, n)'.value = Elem(s, n).value
    BY <1>2, <2>1, OldMeasured
  <2> QED BY <1>0, <1>1, <1>2, <2>2 DEF TableInv
<1>3. c32_st_root'[s].size % 4 = 0
  BY <1>1 DEF TableInv
<1>4. Len(c32_st_root'[s].elem) = n
  BY <1>0
<1>5. Measured(s, Len(c32_st_root[s].elem))' <=> Measured(s, n)'
  BY <1>4 DEF Measured
<1>6. Elem(s, Len(c32_st_root[s].elem))' = Elem(s, n)'
  BY <1>4 DEF Elem
<1> QED BY <1>2, <1>3, <1>4, <1>5, <1>6 DEF TableInv

------------------------------------------------------------------------------
\* The text

\* PASS1 adds the item that is read, PASS3 finds it.
LEMMA ReadProp ==
  ASSUME UnitInv, StateInv, NEW x, Read(x), pass' = pass
  PROVE  /\ \E S : unit' \in Seq(S)
         /\ \A p \in 1..Len(unit) : p \in 1..Len(unit') /\ unit'[p] = unit[p]
         /\ \A p \in 1..Len(unit') : p \in 1..Len(unit) \/ p = Count'
         /\ Count' \in 1..Len(unit') /\ unit'[Count'] = x /\ Count' = Count + 1
         /\ pass = "PASS1" => Len(unit') = Len(unit) + 1 /\ Count = Len(unit)
         /\ pass = "PASS3" => UNCHANGED unit
         /\ next' \in Nat \ {0} /\ Count \in Nat /\ Len(unit) \in Nat /\ Len(unit') \in Nat
<1>1. PICK S : unit \in Seq(S)
  BY DEF UnitInv
<1>2. next \in Nat \ {0} /\ Len(unit) \in Nat
  BY <1>1 DEF StateInv
<1>3. CASE pass = "PASS1" /\ unit' = Append(unit, x) /\ UNCHANGED next
  <2> DEFINE T == S \cup {x}
  <2>1. unit \in Seq(T) /\ x \in T
    BY <1>1
  <2>2. unit' \in Seq(T) /\ Len(unit') = Len(unit) + 1
    BY <1>3, <2>1
  <2>3. \A p \in 1..Len(unit) : unit'[p] = unit[p]
    BY <1>3, <2>1
  <2>4. unit'[Len(unit) + 1] = x
    BY <1>3, <2>1
  <2> QED BY <1>2, <1>3, <2>2, <2>3, <2>4 DEF Count
<1>4. CASE pass = "PASS3" /\ next <= Len(unit) /\ unit[next] = x /\ next' = next + 1 /\ UNCHANGED unit
  BY <1>1, <1>2, <1>4 DEF Count
<1> QED BY <1>3, <1>4 DEF Read

\* So the items of the text are what they may be.
LEMMA ReadUnit ==
  ASSUME UnitInv, StateInv, NEW x, Read(x), pass' = pass,
         x.kind = "struct" => x.tag \in Tags,
         x.kind = "member" =>
           x.name \in Names /\ x.type \in Types /\ x.dims \in Seq(Nat \cup {Empty})
  PROVE  UnitInv'
<1>1. /\ \E S : unit' \in Seq(S)
      /\ \A p \in 1..Len(unit) : unit'[p] = unit[p]
      /\ \A p \in 1..Len(unit') : p \in 1..Len(unit) \/ p = Count'
      /\ unit'[Count'] = x
  BY ReadProp
<1>2. ASSUME NEW p \in 1..Len(unit')
      PROVE  /\ unit'[p].kind = "struct" => unit'[p].tag \in Tags
             /\ unit'[p].kind = "member" =>
                  unit'[p].name \in Names /\ unit'[p].type \in Types
                    /\ unit'[p].dims \in Seq(Nat \cup {Empty})
  BY <1>1 DEF UnitInv
<1> QED BY <1>1, <1>2 DEF UnitInv

\* The text and the tables when an item is read that is neither.
LEMMA ReadKept ==
  ASSUME UnitInv, StateInv, Kept, NEW x, Read(x), pass' = pass, Longer,
         x.kind \notin {"struct", "member"} \/ pass = "PASS3"
  PROVE  Kept'
<1>1. /\ \A p \in 1..Len(unit) : p \in 1..Len(unit') /\ unit'[p] = unit[p]
      /\ Len(unit) \in Nat /\ Len(unit') \in Nat
      /\ \A p \in 1..Len(unit') :
           unit'[p].kind \in {"struct", "member"} => p \in 1..Len(unit)
  BY ReadProp
<1>2. ASSUME NEW q \in 1..Len(unit'), unit'[q].kind = "struct"
      PROVE  \E s \in Structs' :
               /\ c32_st_root'[s].tag = unit'[q].tag
               /\ \A p \in q+1..Len(unit') :
                    Inside(q, p)' => \E k \in Places(s)' : Elem(s, k)'.at = p
  <2>1. q \in 1..Len(unit) /\ unit[q].kind = "struct" /\ unit[q].tag = unit'[q].tag
    BY <1>1, <1>2
  <2>2. PICK s \in Structs :
               /\ c32_st_root[s].tag = unit[q].tag
               /\ \A p \in q+1..Len(unit) :
                    Inside(q, p) => \E k \in Places(s) : Elem(s, k).at = p
    BY <2>1 DEF Kept
  <2>3. s \in Structs' /\ c32_st_root'[s].tag = unit'[q].tag
    BY <2>1, <2>2 DEF Longer
  <2>4. ASSUME NEW p \in q+1..Len(unit'), Inside(q, p)'
        PROVE  \E k \in Places(s)' : Elem(s, k)'.at = p
    <3>1. p \in q+1..p /\ p \in 1..Len(unit')
      BY <1>2
    <3>2. unit'[p].kind = "member"
      BY <2>4, <3>1 DEF Inside
    <3>3. p \in q+1..Len(unit)
      BY <1>1, <3>1, <3>2
    <3>4. Inside(q, p)
      <4>1. \A r \in q+1..p : r \in 1..Len(unit)
        BY <1>1, <2>1, <3>3
      <4> QED BY <1>1, <2>1, <2>4, <4>1 DEF Inside
    <3>5. PICK k \in Places(s) : Elem(s, k).at = p
      BY <2>2, <3>3, <3>4
    <3> QED BY <3>5 DEF Longer, Elem
  <2> QED BY <2>3, <2>4
<1> QED BY <1>2 DEF Kept

------------------------------------------------------------------------------
\* Steps that leave the tables as they are

\* The text is longer, or the same.
TextGrows == \A p \in 1..Len(unit) : p \in 1..Len(unit') /\ unit'[p] = unit[p]

\* What is known of them stays.
LEMMA SameTables ==
  ASSUME LayoutInv, UNCHANGED c32_st_root, TextGrows, profile' = profile,
         pass' \in {"PASS1", "PASS3", "DONE"}, next' \in Nat \ {0},
         open' \in 0..Len(c32_st_root), Growing' = Growing
  PROVE  StateInv' /\ NamesInv' /\ TablesInv' /\ MembersInv' /\ Longer
<1>1. StateInv'
  BY DEF LayoutInv, StateInv, Growing
<1>2. NamesInv'
  BY DEF LayoutInv, NamesInv, Structs, Places, Elem
<1>3. Longer
  BY DEF Longer, TextGrows, Structs, Places
<1>4. Growing \in {0, Len(c32_st_root)}
  BY DEF LayoutInv, StateInv
<1>5. MembersInv'
  <2>1. ASSUME NEW s \in Structs, NEW k \in Places(s) PROVE MemberInv(s, k)'
    BY <1>1, <1>2, <1>3, <1>4, OldMembers DEF LayoutInv
  <2> QED BY <2>1 DEF MembersInv, Structs, Places
<1>6. ASSUME NEW s \in Structs PROVE TableInv(s)'
  <2>0. PICK n \in Nat : n = Len(c32_st_root[s].elem)
    BY TablesProp DEF LayoutInv
  <2>1. ASSUME n > 0, Measured(s, n)' PROVE Measured(s, n)
    <3>1. n \in Places(s)
      BY <2>0, <2>1 DEF Places
    <3> QED BY <1>1, <1>3, <2>1, <3>1, OldMeasured DEF LayoutInv
  <2>2. TableInv(s)
    BY DEF LayoutInv, TablesInv
  <2>3. /\ Measured(s, Len(c32_st_root[s].elem))' <=> Measured(s, n)'
        /\ Measured(s, Len(c32_st_root[s].elem)) <=> Measured(s, n)
    BY <2>0 DEF Measured
  <2> QED BY <2>0, <2>1, <2>2, <2>3 DEF TableInv, Elem
<1>7. TablesInv'
  BY <1>6 DEF TablesInv, Structs
<1> QED BY <1>1, <1>2, <1>3, <1>5, <1>7

\* The braces, too, when they and the tables stay.
LEMMA SameFrames ==
  ASSUME FramesInv, UNCHANGED <<c32_st_root, open, frames, mode>>
  PROVE  FramesInv'
BY DEF FramesInv, RowInv, Under, IsMember, Structs, Places, Elem

\* What stops the compiler leaves them alone.
LEMMA StopStep ==
  ASSUME LayoutInv, NEW x, Read(x), UnitInv', NEW e, e # "none", Stop(e), UNCHANGED <<frames, mode>>
  PROVE  LayoutInv'
<1>1. pass' = pass /\ open' = open /\ profile' = profile /\ UNCHANGED c32_st_root /\ err' # "none"
  BY DEF Stop
<1>2. TextGrows /\ next' \in Nat \ {0}
  BY <1>1, ReadProp DEF LayoutInv, TextGrows
<1>3. /\ pass' \in {"PASS1", "PASS3", "DONE"} /\ open' \in 0..Len(c32_st_root)
      /\ Growing' = Growing
  BY <1>1 DEF LayoutInv, StateInv, Growing
<1>4. StateInv' /\ NamesInv' /\ TablesInv' /\ MembersInv'
  BY <1>1, <1>2, <1>3, SameTables
<1>5. FramesInv'
  BY <1>1, SameFrames DEF LayoutInv
<1> QED BY <1>1, <1>4, <1>5 DEF LayoutInv

\* PASS1 ends.
LEMMA EndPass1Step == ASSUME LayoutInv, EndPass1, UNCHANGED <<frames, mode>> PROVE LayoutInv'
<1>1. /\ pass' = "PASS3" /\ next' = 1 /\ open = 0 /\ err = "none"
      /\ UNCHANGED <<profile, c32_st_root, open, unit, err>>
  BY DEF EndPass1, Reading
<1>2. TextGrows /\ Growing' = Growing /\ open' \in 0..Len(c32_st_root)
  BY <1>1 DEF TextGrows, Growing, LayoutInv, StateInv
<1>3. StateInv' /\ NamesInv' /\ TablesInv' /\ MembersInv'
  BY <1>1, <1>2, SameTables
<1>4. FramesInv' /\ UnitInv'
  BY <1>1, SameFrames DEF LayoutInv, UnitInv
<1>5. Kept' /\ OpenInv'
  BY <1>1 DEF LayoutInv, Kept, OpenInv, Structs, Places, Elem, Inside
<1> QED BY <1>3, <1>4, <1>5 DEF LayoutInv

\* PASS3 ends.
LEMMA EndPass3Step == ASSUME LayoutInv, EndPass3, UNCHANGED <<frames, mode>> PROVE LayoutInv'
<1>1. /\ pass' = "DONE" /\ open = 0 /\ err = "none"
      /\ UNCHANGED <<profile, c32_st_root, open, unit, next, err>>
  BY DEF EndPass3, Reading
<1>2. /\ TextGrows /\ Growing' = Growing /\ open' \in 0..Len(c32_st_root)
      /\ next' \in Nat \ {0}
  BY <1>1 DEF TextGrows, Growing, LayoutInv, StateInv
<1>3. StateInv' /\ NamesInv' /\ TablesInv' /\ MembersInv'
  BY <1>1, <1>2, SameTables
<1>4. FramesInv' /\ UnitInv'
  BY <1>1, SameFrames DEF LayoutInv, UnitInv
<1>5. Kept' /\ OpenInv'
  BY <1>1 DEF LayoutInv, Kept, OpenInv, Structs, Places, Elem, Inside
<1> QED BY <1>3, <1>4, <1>5 DEF LayoutInv

\* An item that is neither a structure nor a member, and does not change the tables.
LEMMA TokenStep ==
  ASSUME LayoutInv, NEW x, Read(x), x.kind \notin {"struct", "member"}, UNCHANGED c32_st_root,
         pass' = pass, open' = 0, pass = "PASS3" \/ open = 0, profile' = profile, err' = err, FramesInv'
  PROVE  LayoutInv'
<1>1. TextGrows /\ next' \in Nat \ {0} /\ UnitInv'
  BY ReadProp, ReadUnit DEF LayoutInv, TextGrows
<1>2. /\ pass' \in {"PASS1", "PASS3", "DONE"} /\ open' \in 0..Len(c32_st_root)
      /\ Growing' = Growing
  BY TablesProp DEF LayoutInv, StateInv, Growing
<1>3. StateInv' /\ NamesInv' /\ TablesInv' /\ MembersInv' /\ Longer
  BY <1>1, <1>2, SameTables
<1>4. err = "none" => Kept' /\ OpenInv'
  BY <1>3, ReadKept DEF LayoutInv, OpenInv
<1> QED BY <1>1, <1>3, <1>4 DEF LayoutInv

------------------------------------------------------------------------------
\* A structure begins

\* The table of a new structure.
Fresh(t) == [tag |-> t, elem |-> <<>>, size |-> 0]

\* What the text names stays in the tables.
LEMMA KeptOld ==
  ASSUME Len(unit) \in Nat, Kept, Longer, NEW q \in 1..Len(unit), unit'[q].kind = "struct"
  PROVE  \E s \in Structs :
           /\ s \in Structs' /\ c32_st_root[s].tag = unit[q].tag /\ c32_st_root'[s].tag = unit'[q].tag
           /\ \A p \in q+1..Len(unit) : Inside(q, p)' => \E k \in Places(s)' : Elem(s, k)'.at = p
<1>1. unit[q].kind = "struct" /\ unit[q] = unit'[q]
  BY DEF Longer
<1>2. PICK s \in Structs :
        /\ c32_st_root[s].tag = unit[q].tag
        /\ \A p \in q+1..Len(unit) : Inside(q, p) => \E k \in Places(s) : Elem(s, k).at = p
  BY <1>1 DEF Kept
<1>3. ASSUME NEW p \in q+1..Len(unit), Inside(q, p)'
      PROVE  \E k \in Places(s)' : Elem(s, k)'.at = p
  <2>1. \A r \in q+1..p : r \in 1..Len(unit)
    OBVIOUS
  <2>2. Inside(q, p)
    BY <1>1, <1>3, <2>1 DEF Inside, Longer
  <2>3. PICK k \in Places(s) : Elem(s, k).at = p
    BY <1>2, <2>2
  <2> QED BY <2>3 DEF Longer, Elem
<1> QED BY <1>1, <1>2, <1>3 DEF Longer

\* PASS1 adds it.
LEMMA NewStructStep ==
  ASSUME LayoutInv, NEW t \in Tags, Read([kind |-> "struct", tag |-> t]), pass = "PASS1", open = 0,
         err = "none", ~Known(t), c32_st_root' = Append(c32_st_root, Fresh(t)),
         open' = Len(c32_st_root) + 1,
         UNCHANGED <<profile, pass, err>>, UNCHANGED <<frames, mode>>, mode = "none"
  PROVE  LayoutInv'
<1> DEFINE x == [kind |-> "struct", tag |-> t]
<1>0. x.kind = "struct" /\ x.tag = t
  OBVIOUS
<1> HIDE DEF x
<1>1. /\ TextGrows /\ next' \in Nat \ {0} /\ UnitInv'
      /\ Count' = Len(unit) + 1 /\ Len(unit') = Len(unit) + 1 /\ unit'[Len(unit) + 1] = x
      /\ Len(unit) \in Nat
  <2>1. Read(x)
    BY DEF x
  <2>2. TextGrows /\ next' \in Nat \ {0} /\ Len(unit) \in Nat
    BY <2>1, ReadProp DEF LayoutInv, TextGrows
  <2>3. Count' = Len(unit) + 1 /\ Len(unit') = Len(unit) + 1 /\ unit'[Len(unit) + 1] = x
    BY <2>1, ReadProp DEF LayoutInv
  <2>4. UnitInv'
    BY <1>0, <2>1, ReadUnit DEF LayoutInv
  <2> QED BY <2>2, <2>3, <2>4
<1>2. PICK n \in Nat : n = Len(c32_st_root)
  BY TablesProp DEF LayoutInv
<1>3. /\ c32_st_root' \in Seq(Tables) /\ Len(c32_st_root') = n + 1
      /\ \A s \in 1..n : c32_st_root'[s] = c32_st_root[s]
      /\ c32_st_root'[n + 1] = Fresh(t)
  <2>1. c32_st_root \in Seq(Tables) /\ Fresh(t) \in Tables
    BY DEF LayoutInv, StateInv, Fresh, Tables
  <2> QED BY <1>2, <2>1
<1>4. Structs = 1..n /\ Structs' = 1..n+1
  BY <1>2, <1>3 DEF Structs
<1>5. Fresh(t).tag = t /\ Fresh(t).elem = <<>> /\ Fresh(t).size = 0
  BY DEF Fresh
<1>6. Places(n + 1)' = {}
  BY <1>3, <1>5 DEF Places
<1>7. StateInv' /\ Growing' = n + 1
  BY <1>1, <1>2, <1>3 DEF LayoutInv, StateInv, Growing
<1>8. NamesInv'
  <2>1. \A s \in Structs : c32_st_root[s].tag # t
    BY TablesProp DEF Known, LayoutInv
  <2>2. \A s, u \in Structs' : c32_st_root'[s].tag = c32_st_root'[u].tag => s = u
    BY <1>3, <1>4, <1>5, <2>1 DEF LayoutInv, NamesInv
  <2>3. ASSUME NEW s \in Structs', NEW k \in Places(s)', NEW l \in Places(s)',
               Elem(s, k)'.name = Elem(s, l)'.name
        PROVE  k = l
    <3>1. s \in Structs /\ c32_st_root'[s] = c32_st_root[s]
      BY <1>3, <1>4, <1>6
    <3> QED BY <2>3, <3>1 DEF LayoutInv, NamesInv, Places, Elem
  <2> QED BY <2>2, <2>3 DEF NamesInv
<1>9. Longer
  BY <1>1, <1>3, <1>4 DEF Longer, TextGrows, Places
<1>10. Growing = 0
  BY DEF Growing
<1>11. MembersInv'
  <2>1. ASSUME NEW s \in Structs, NEW k \in Places(s) PROVE MemberInv(s, k)'
    BY <1>7, <1>8, <1>9, <1>10, OldMembers DEF LayoutInv
  <2>2. \A s \in Structs : Places(s)' = Places(s)
    BY <1>3, <1>4 DEF Places
  <2> QED BY <1>4, <1>6, <2>1, <2>2 DEF MembersInv
<1>12. TablesInv'
  <2>1. ASSUME NEW s \in Structs PROVE TableInv(s)'
    <3>1. s # Growing /\ s # Growing' /\ Len(c32_st_root'[s].elem) = Len(c32_st_root[s].elem)
      BY <1>3, <1>4, <1>7, <1>10
    <3> QED BY <1>7, <1>9, <3>1, OldTable DEF LayoutInv, TablesInv
  <2>2. TableInv(n + 1)'
    BY <1>3, <1>5, <1>7 DEF TableInv
  <2> QED BY <1>4, <2>1, <2>2 DEF TablesInv
<1>13. FramesInv'
  BY DEF LayoutInv, FramesInv
<1>14. Kept'
  <2>1. Kept
    BY DEF LayoutInv
  <2>2. ASSUME NEW q \in 1..Len(unit'), unit'[q].kind = "struct"
        PROVE  \E s \in Structs' :
                 /\ c32_st_root'[s].tag = unit'[q].tag
                 /\ \A p \in q+1..Len(unit') :
                      Inside(q, p)' => \E k \in Places(s)' : Elem(s, k)'.at = p
    <3>1. CASE q = Len(unit) + 1
      <4>1. n + 1 \in Structs' /\ c32_st_root'[n + 1].tag = unit'[q].tag
        BY <1>0, <1>1, <1>3, <1>4, <1>5, <3>1
      <4>2. q+1..Len(unit') = {}
        BY <1>1, <3>1
      <4> QED BY <4>1, <4>2
    <3>2. CASE q \in 1..Len(unit)
      <4>1. PICK s \in Structs :
              /\ s \in Structs' /\ c32_st_root'[s].tag = unit'[q].tag
              /\ \A p \in q+1..Len(unit) : Inside(q, p)' => \E k \in Places(s)' : Elem(s, k)'.at = p
        BY <1>1, <1>9, <2>1, <2>2, <3>2, KeptOld
      <4>2. ASSUME NEW p \in q+1..Len(unit'), Inside(q, p)' PROVE p \in q+1..Len(unit)
        <5>1. p \in q+1..p /\ p <= Len(unit) + 1
          BY <1>1, <3>2
        <5>2. unit'[p].kind = "member"
          BY <4>2, <5>1 DEF Inside
        <5>3. p # Len(unit) + 1
          BY <1>0, <1>1, <5>2
        <5> QED BY <1>1, <5>1, <5>3
      <4> QED BY <4>1, <4>2
    <3>3. q = Len(unit) + 1 \/ q \in 1..Len(unit)
      BY <1>1
    <3> QED BY <3>1, <3>2, <3>3
  <2> QED BY <2>2 DEF Kept
<1>15. OpenInv'
  <2>0. PICK m \in Nat : m = Len(unit)
    BY <1>1
  <2>1. m + 1 \in 1..Len(unit') /\ m + 1 <= Count' /\ unit'[m + 1] = x /\ Count' = m + 1
    BY <1>1, <2>0
  <2>2. Inside(m + 1, Count)'
    <3>1. m+2..Count' = {} /\ m + 1 + 1 = m + 2
      BY <2>1
    <3> QED BY <1>0, <2>1, <3>1 DEF Inside
  <2>3. unit'[m + 1].tag = c32_st_root'[open'].tag
    BY <1>0, <2>1, <1>2, <1>3, <1>5
  <2> QED BY <2>1, <2>2, <2>3 DEF OpenInv
<1> QED BY <1>1, <1>7, <1>8, <1>11, <1>12, <1>13, <1>14, <1>15 DEF LayoutInv

\* PASS3 finds it again.
LEMMA ReopenStep ==
  ASSUME LayoutInv, NEW t \in Tags, Read([kind |-> "struct", tag |-> t]), pass = "PASS3", open = 0,
         err = "none", UNCHANGED c32_st_root, open' = StructOf(t),
         UNCHANGED <<profile, pass, err>>, UNCHANGED <<frames, mode>>, mode = "none"
  PROVE  LayoutInv'
<1> DEFINE x == [kind |-> "struct", tag |-> t]
<1>0. x.kind = "struct" /\ x.tag = t
  OBVIOUS
<1> HIDE DEF x
<1>1. /\ TextGrows /\ next' \in Nat \ {0} /\ UnitInv' /\ UNCHANGED unit
      /\ Count' \in 1..Len(unit) /\ unit[Count'] = x /\ Len(unit) \in Nat
  <2>1. Read(x)
    BY DEF x
  <2>2. TextGrows /\ next' \in Nat \ {0} /\ Len(unit) \in Nat /\ UNCHANGED unit
    BY <2>1, ReadProp DEF LayoutInv, TextGrows
  <2>3. Count' \in 1..Len(unit') /\ unit'[Count'] = x
    BY <2>1, ReadProp DEF LayoutInv
  <2>4. UnitInv'
    BY <1>0, <2>1, ReadUnit DEF LayoutInv
  <2> QED BY <2>2, <2>3, <2>4
<1>2. PICK c \in 1..Len(unit) : c = Count'
  BY <1>1
<1>3. PICK s \in Structs : c32_st_root[s].tag = t
  BY <1>0, <1>1 DEF LayoutInv, Kept
<1>4. open' = s
  BY <1>3, StructOfProp DEF LayoutInv
<1>5. /\ open' \in 0..Len(c32_st_root) /\ Growing' = Growing /\ pass' \in {"PASS1", "PASS3", "DONE"}
      /\ profile' = profile
  BY <1>4, TablesProp DEF LayoutInv, StateInv, Growing, Structs
<1>6. StateInv' /\ NamesInv' /\ TablesInv' /\ MembersInv' /\ Longer
  BY <1>1, <1>5, SameTables
<1>7. Kept'
  BY <1>1 DEF LayoutInv, Kept, Structs, Places, Elem, Inside
<1>8. OpenInv'
  <2>1. Inside(c, Count)'
    <3>0. c \in Nat /\ Count' = c
      BY <1>1, <1>2
    <3>1. c+1..Count' = {}
      BY <3>0
    <3> QED BY <1>0, <1>1, <1>2, <3>1 DEF Inside
  <2>2. unit'[c].tag = c32_st_root'[open'].tag
    BY <1>0, <1>1, <1>2, <1>3, <1>4
  <2> QED BY <1>1, <1>2, <2>1, <2>2 DEF OpenInv
<1>9. FramesInv'
  BY DEF LayoutInv, FramesInv
<1> QED BY <1>1, <1>6, <1>7, <1>8, <1>9 DEF LayoutInv

\* struct t {
LEMMA StructNameStep ==
  ASSUME LayoutInv, NEW t \in Tags, StructName(t), UNCHANGED <<frames, mode>>, mode = "none"
  PROVE  LayoutInv'
<1> DEFINE x == [kind |-> "struct", tag |-> t]
<1>0. Read(x) /\ open = 0 /\ err = "none"
  BY DEF StructName, Reading
<1>1. ASSUME Stop("multiple") PROVE LayoutInv'
  <2>1. pass' = pass
    BY <1>1 DEF Stop
  <2>2. x.kind = "struct" /\ x.tag = t
    OBVIOUS
  <2> HIDE DEF x
  <2>3. UnitInv'
    BY <1>0, <2>1, <2>2, ReadUnit DEF LayoutInv
  <2> QED BY <1>0, <1>1, <2>3, StopStep
<1>2. ASSUME pass = "PASS1", ~Known(t),
             c32_st_root' = Append(c32_st_root, [tag |-> t, elem |-> <<>>, size |-> 0]),
             open' = Len(c32_st_root) + 1, UNCHANGED <<profile, pass, err>>
      PROVE  LayoutInv'
  BY <1>0, <1>2, NewStructStep DEF Fresh
<1>3. ASSUME pass = "PASS3", open' = StructOf(t), UNCHANGED <<profile, pass, c32_st_root, err>>
      PROVE  LayoutInv'
  BY <1>0, <1>3, ReopenStep
<1> QED BY <1>1, <1>2, <1>3 DEF StructName

------------------------------------------------------------------------------
\* A structure ends

\* Its size is rounded up in PASS1.
LEMMA CloseTableStep ==
  ASSUME LayoutInv, Read([kind |-> "end"]), pass = "PASS1", open # 0, err = "none",
         c32_st_root' = [c32_st_root EXCEPT ![open].size = RoundUp(@, 4)], open' = 0,
         c32_st_root[open].elem # <<>>,
         UNCHANGED <<profile, pass, err>>, UNCHANGED <<frames, mode>>, mode = "none"
  PROVE  LayoutInv'
<1> DEFINE x == [kind |-> "end"]
<1>0. x.kind = "end"
  OBVIOUS
<1> HIDE DEF x
<1>1. TextGrows /\ next' \in Nat \ {0} /\ UnitInv' /\ Read(x) /\ Len(unit) \in Nat
  <2>1. Read(x)
    BY DEF x
  <2>2. TextGrows /\ next' \in Nat \ {0} /\ Len(unit) \in Nat
    BY <2>1, ReadProp DEF LayoutInv, TextGrows
  <2>3. UnitInv'
    BY <1>0, <2>1, ReadUnit DEF LayoutInv
  <2> QED BY <2>1, <2>2, <2>3
<1>2. open \in Structs /\ Growing = open /\ Growing' = 0
  BY TablesProp DEF LayoutInv, StateInv, Growing, Structs
<1>11. PICK o \in Structs : o = open
  BY <1>2
<1>12. PICK size \in Int : size = RoundUp(c32_st_root[o].size, 4)
  <2>1. c32_st_root[o].size \in Int
    BY TablesProp DEF LayoutInv, Tables
  <2> QED BY <2>1, RoundUpProp
<1>3. /\ Structs' = Structs
      /\ \A s \in Structs : c32_st_root'[s].tag = c32_st_root[s].tag
      /\ \A s \in Structs : c32_st_root'[s].elem = c32_st_root[s].elem
      /\ \A s \in Structs : s # o => c32_st_root'[s].size = c32_st_root[s].size
      /\ c32_st_root'[o].size = size
      /\ c32_st_root' \in Seq(Tables) /\ Len(c32_st_root') = Len(c32_st_root)
  <2> DEFINE new == [c32_st_root EXCEPT ![o].size = size]
  <2>1. c32_st_root' = new
    BY <1>11, <1>12
  <2>2. StateInv
    BY DEF LayoutInv
  <2>4. /\ new \in Seq(Tables) /\ Len(new) = Len(c32_st_root)
        /\ \A s \in Structs : new[s].tag = c32_st_root[s].tag
        /\ \A s \in Structs : new[s].elem = c32_st_root[s].elem
        /\ \A s \in Structs : s # o => new[s].size = c32_st_root[s].size
        /\ new[o].size = size
    BY <2>2, SetSize
  <2> HIDE DEF new
  <2>3. /\ c32_st_root' \in Seq(Tables) /\ Len(c32_st_root') = Len(c32_st_root)
        /\ \A s \in Structs : c32_st_root'[s].tag = c32_st_root[s].tag
        /\ \A s \in Structs : c32_st_root'[s].elem = c32_st_root[s].elem
        /\ \A s \in Structs : s # o => c32_st_root'[s].size = c32_st_root[s].size
        /\ c32_st_root'[o].size = size
    BY <2>1, <2>4
  <2> QED BY <2>3 DEF Structs
<1>4. StateInv'
  BY <1>1, <1>2, <1>3 DEF LayoutInv, StateInv, Growing
<1>5. NamesInv'
  BY <1>3 DEF LayoutInv, NamesInv, Places, Elem
<1>6. Longer
  BY <1>1, <1>2, <1>3, <1>11 DEF Longer, TextGrows, Places
<1>7. MembersInv'
  <2>1. ASSUME NEW s \in Structs, NEW k \in Places(s) PROVE MemberInv(s, k)'
    BY <1>4, <1>5, <1>6, OldMembers DEF LayoutInv, StateInv
  <2> QED BY <1>3, <2>1 DEF MembersInv, Places
<1>8. TablesInv'
  <2>1. ASSUME NEW s \in Structs, s # o PROVE TableInv(s)'
    <3>1. s # Growing /\ s # Growing' /\ Len(c32_st_root'[s].elem) = Len(c32_st_root[s].elem)
      BY <1>2, <1>3, <1>11, <2>1, TablesProp DEF Structs, LayoutInv
    <3> QED BY <1>4, <1>6, <3>1, OldTable DEF LayoutInv, TablesInv
  <2>2. TableInv(o)'
    <3>0. PICK n \in Nat : n = Len(c32_st_root[o].elem)
      BY TablesProp DEF LayoutInv
    <3>1. /\ c32_st_root'[o].size = size /\ c32_st_root'[o].elem = c32_st_root[o].elem
          /\ c32_st_root[o].size \in Int
      BY <1>3, TablesProp DEF LayoutInv, Tables
    <3>2. o # Growing'
      BY <1>2, TablesProp DEF Structs, LayoutInv
    <3>3. size % 4 = 0
      BY <1>12, <3>1, RoundUpProp
    <3>4. ASSUME n > 0, Measured(o, n)' PROVE Elem(o, n)'.value + Elem(o, n)'.size <= size
      <4>1. n \in Places(o) /\ n \in 1..n
        BY <3>0, <3>4 DEF Places
      <4>2. Measured(o, n)
        BY <1>4, <1>6, <3>4, <4>1, OldMeasured DEF LayoutInv
      <4>3. /\ Elem(o, n).value >= 0 /\ Elem(o, n).size >= 0
            /\ Elem(o, n).value + Elem(o, n).size + 3 < INT \div 2
        BY <4>1, <4>2 DEF Measured, Elem
      <4>4. c32_st_root[o].size = Word(Elem(o, n).value + Elem(o, n).size)
        BY <1>2, <1>11, <3>0, <3>4 DEF LayoutInv, TablesInv, TableInv
      <4>5. PICK m \in Int : m = Elem(o, n).value + Elem(o, n).size
        <5>1. Elem(o, n) \in Elems
          BY <4>1, TablesProp DEF LayoutInv
        <5> QED BY <5>1 DEF Elems
      <4>6. INT \div 2 \in Int /\ 0 <= m /\ m + 3 < INT \div 2
        <5>1. Elem(o, n).value \in Int /\ Elem(o, n).size \in Int
          <6>1. Elem(o, n) \in Elems
            BY <4>1, TablesProp DEF LayoutInv
          <6> QED BY <6>1 DEF Elems
        <5>2. INT \div 2 \in Int
          BY WidthAssumption
        <5> QED BY <4>3, <4>5, <5>1, <5>2
      <4>7. m < INT \div 2
        BY <4>6
      <4>8. c32_st_root[o].size = m
        BY <4>4, <4>5, <4>6, <4>7, WordProp
      <4>9. size >= m
        BY <1>12, <4>6, <4>8, RoundUpProp
      <4> QED BY <3>1, <4>5, <4>9 DEF Elem
    <3>5. Measured(o, Len(c32_st_root[o].elem))' <=> Measured(o, n)'
      BY <3>0, <3>1 DEF Measured
    <3>6. Elem(o, Len(c32_st_root[o].elem))' = Elem(o, n)'
      BY <3>0, <3>1 DEF Elem
    <3>7. n > 0
      <4>1. c32_st_root[o].elem \in Seq(Elems)
        BY TablesProp DEF LayoutInv, Tables
      <4> QED BY <1>11, <3>0, <4>1
    <3> QED BY <3>0, <3>1, <3>2, <3>3, <3>4, <3>5, <3>6, <3>7 DEF TableInv
  <2> QED BY <1>3, <2>1, <2>2 DEF TablesInv
<1>9. Kept' /\ OpenInv'
  BY <1>0, <1>1, <1>6, ReadKept DEF LayoutInv, OpenInv
<1>10. FramesInv'
  BY DEF LayoutInv, FramesInv
<1> QED BY <1>1, <1>4, <1>5, <1>7, <1>8, <1>9, <1>10 DEF LayoutInv

\* };
LEMMA EndStructStep == ASSUME LayoutInv, EndStruct, UNCHANGED <<frames, mode>>, mode = "none" PROVE LayoutInv'
<1> DEFINE x == [kind |-> "end"]
<1>0. /\ Read(x) /\ open # 0 /\ err = "none" /\ open' = 0 /\ UNCHANGED <<profile, pass, err>>
      /\ pass \in {"PASS1", "PASS3"}
  BY DEF EndStruct, Reading
<1>1. CASE pass = "PASS1"
  <2>1. c32_st_root' = [c32_st_root EXCEPT ![open].size = RoundUp(@, 4)]
    BY <1>1 DEF EndStruct
  <2>2. c32_st_root[open].elem # <<>>
    BY DEF EndStruct, Struct
  <2> QED BY <1>0, <1>1, <2>1, <2>2, CloseTableStep
<1>2. CASE pass = "PASS3"
  <2>1. UNCHANGED c32_st_root
    BY <1>2 DEF EndStruct
  <2>2. FramesInv'
    BY DEF LayoutInv, FramesInv
  <2>3. x.kind \notin {"struct", "member"}
    OBVIOUS
  <2> HIDE DEF x
  <2> QED BY <1>0, <1>2, <2>1, <2>2, <2>3, TokenStep
<1> QED BY <1>0, <1>1, <1>2

------------------------------------------------------------------------------
\* Dimensions

\* The dimensions written are kept as numbers.
LEMMA DimsProp ==
  ASSUME NEW dims \in Seq(Nat \cup {Empty})
  PROVE  Dims(dims) \in Seq(Nat)
<1>1. \A k \in DOMAIN dims : dims[k] = Empty \/ dims[k] % USHRT \in Nat
  BY WidthAssumption
<1>2. DOMAIN dims = 1..Len(dims) /\ Len(dims) \in Nat
  OBVIOUS
<1>3. \A k \in 1..Len(dims) : (IF dims[k] = Empty THEN 0 ELSE dims[k] % USHRT) \in Nat
  BY <1>1, <1>2
<1> QED BY <1>2, <1>3 DEF Dims

\* A member is given others: when its text leaves them open, or they are what it has.
LEMMA ResizedTables ==
  ASSUME LayoutInv, NEW o \in Structs, NEW m \in Places(o), NEW dims \in Seq(Nat), NEW size \in Int,
         c32_st_root' = Resized(o, m, dims, size),
         Vague(o, m) \/ (dims = Elem(o, m).dims /\ size = Elem(o, m).size),
         TextGrows, profile' = profile, pass' = pass, open' = open, next' \in Nat \ {0}, Growing = 0
  PROVE  /\ StateInv' /\ NamesInv' /\ TablesInv' /\ MembersInv' /\ Longer
         /\ Structs' = Structs /\ \A s \in Structs : Places(s)' = Places(s)
         /\ \A s \in Structs : \A k \in Places(s) :
              s # o \/ k # m => c32_st_root'[s].elem[k] = c32_st_root[s].elem[k]
         /\ c32_st_root'[o].elem[m].dims = dims
<1>0. StateInv
  BY DEF LayoutInv
<1>1. /\ c32_st_root' \in Seq(Tables) /\ Len(c32_st_root') = Len(c32_st_root)
      /\ \A s \in Structs : s # o => c32_st_root'[s] = c32_st_root[s]
      /\ c32_st_root'[o].tag = c32_st_root[o].tag /\ c32_st_root'[o].size = c32_st_root[o].size
      /\ Len(c32_st_root'[o].elem) = Len(c32_st_root[o].elem)
      /\ \A k \in Places(o) : k # m => c32_st_root'[o].elem[k] = c32_st_root[o].elem[k]
      /\ c32_st_root'[o].elem[m].name = Elem(o, m).name
      /\ c32_st_root'[o].elem[m].type = Elem(o, m).type
      /\ c32_st_root'[o].elem[m].value = Elem(o, m).value
      /\ c32_st_root'[o].elem[m].at = Elem(o, m).at
      /\ c32_st_root'[o].elem[m].dims = dims /\ c32_st_root'[o].elem[m].size = size
  <2> DEFINE new == Resized(o, m, dims, size)
  <2>1. /\ new \in Seq(Tables) /\ Len(new) = Len(c32_st_root)
        /\ \A s \in Structs : s # o => new[s] = c32_st_root[s]
        /\ new[o].tag = c32_st_root[o].tag /\ new[o].size = c32_st_root[o].size
        /\ Len(new[o].elem) = Len(c32_st_root[o].elem)
        /\ \A k \in Places(o) : k # m => new[o].elem[k] = c32_st_root[o].elem[k]
        /\ new[o].elem[m].name = Elem(o, m).name /\ new[o].elem[m].type = Elem(o, m).type
        /\ new[o].elem[m].value = Elem(o, m).value /\ new[o].elem[m].at = Elem(o, m).at
        /\ new[o].elem[m].dims = dims /\ new[o].elem[m].size = size
    BY <1>0, SetMember, SMTT(30)
  <2>2. c32_st_root' = new
    OBVIOUS
  <2> HIDE DEF new
  <2> QED BY <2>1, <2>2
<1>2. Structs' = Structs /\ \A s \in Structs : Places(s)' = Places(s)
  <2>1. ASSUME NEW s \in Structs PROVE Places(s)' = Places(s)
    <3>1. CASE s = o
      BY <1>1, <3>1 DEF Places
    <3>2. CASE s # o
      BY <1>1, <3>2 DEF Places
    <3> QED BY <3>1, <3>2
  <2> QED BY <1>1, <2>1 DEF Structs
<1>3. \A s \in Structs : \A k \in Places(s) :
        s # o \/ k # m => c32_st_root'[s].elem[k] = c32_st_root[s].elem[k]
  BY <1>1
<1>4. \A s \in Structs : c32_st_root'[s].tag = c32_st_root[s].tag /\ c32_st_root'[s].size = c32_st_root[s].size
  BY <1>1
<1>5. Growing' = 0
  BY DEF Growing
<1>6. StateInv'
  BY <1>0, <1>1, <1>5 DEF StateInv
<1>7. \A s \in Structs : \A k \in Places(s) :
        LET e == c32_st_root[s].elem[k]
            f == c32_st_root'[s].elem[k]
        IN  /\ f.name = e.name /\ f.type = e.type /\ f.value = e.value /\ f.at = e.at
            /\ Vague(s, k) \/ (f.dims = e.dims /\ f.size = e.size)
  <2> SUFFICES ASSUME NEW s \in Structs, NEW k \in Places(s)
               PROVE  LET e == c32_st_root[s].elem[k]
                          f == c32_st_root'[s].elem[k]
                      IN  /\ f.name = e.name /\ f.type = e.type /\ f.value = e.value /\ f.at = e.at
                          /\ Vague(s, k) \/ (f.dims = e.dims /\ f.size = e.size)
    OBVIOUS
  <2>1. CASE s = o /\ k = m
    BY <1>1, <2>1 DEF Elem
  <2>2. CASE s # o \/ k # m
    BY <1>3, <2>2
  <2> QED BY <2>1, <2>2
<1>8. Longer
  BY <1>2, <1>4, <1>7 DEF Longer, TextGrows
<1>9. NamesInv'
  BY <1>2, <1>4, <1>7 DEF LayoutInv, NamesInv, Elem
<1>10. MembersInv'
  <2>1. ASSUME NEW s \in Structs, NEW k \in Places(s) PROVE MemberInv(s, k)'
    BY <1>6, <1>8, <1>9, OldMembers DEF LayoutInv
  <2> QED BY <1>2, <2>1 DEF MembersInv
<1>11. TablesInv'
  <2>1. ASSUME NEW s \in Structs PROVE TableInv(s)'
    <3>1. s # Growing /\ s # Growing'
      BY <1>0, <1>5, TablesProp DEF Structs
    <3>2. Len(c32_st_root'[s].elem) = Len(c32_st_root[s].elem)
      BY <1>1
    <3> QED BY <1>6, <1>8, <3>1, <3>2, OldTable DEF LayoutInv, TablesInv
  <2> QED BY <1>2, <2>1 DEF TablesInv
<1> QED BY <1>1, <1>2, <1>3, <1>6, <1>8, <1>9, <1>10, <1>11

------------------------------------------------------------------------------
\* A member

\* The item of a member.
MemberItem(n, type, dims) == [kind |-> "member", name |-> n, type |-> type, dims |-> dims]

\* The structure that is open goes on with it.
LEMMA InsideNext ==
  ASSUME UnitInv, StateInv, OpenInv, open # 0, NEW x, Read(x), pass' = pass, x.kind = "member"
  PROVE  \E q \in 1..Len(unit) :
           /\ q + 1 <= Count' /\ unit[q].kind = "struct" /\ unit[q].tag = c32_st_root[open].tag
           /\ \A r \in q+1..Count' : unit'[r].kind = "member"
<1>1. PICK q \in 1..Len(unit) :
        q <= Count /\ Inside(q, Count) /\ unit[q].tag = c32_st_root[open].tag
  BY DEF OpenInv
<1>2. /\ Len(unit) \in Nat /\ Count \in Nat /\ Count' = Count + 1
      /\ unit'[Count'] = x /\ Count' \in 1..Len(unit')
  BY ReadProp
<1>3. \A p \in 1..Len(unit) : unit'[p] = unit[p]
  BY ReadProp
<1>4. \A r \in 1..Count : r \in 1..Len(unit)
  <2>1. pass = "PASS1" => Count = Len(unit)
    BY DEF Count
  <2>2. pass = "PASS3" => Len(unit') = Len(unit)
    BY ReadProp
  <2>3. pass \in {"PASS1", "PASS3"}
    BY DEF Read
  <2> QED BY <1>2, <2>1, <2>2, <2>3
<1>5. ASSUME NEW r \in q+1..Count' PROVE unit'[r].kind = "member"
  <2>1. CASE r = Count'
    BY <1>2, <2>1
  <2>2. CASE r # Count'
    <3>1. r \in q+1..Count /\ r \in 1..Count
      BY <1>2, <2>2
    <3> QED BY <1>1, <1>3, <1>4, <3>1 DEF Inside
  <2> QED BY <2>1, <2>2
<1> QED BY <1>1, <1>2, <1>5 DEF Inside

\* PASS3 finds the member PASS1 made of this item.
LEMMA FoundAgain ==
  ASSUME LayoutInv, NEW n \in Names, NEW type, NEW dims, Read(MemberItem(n, type, dims)),
         pass = "PASS3", open # 0, err = "none", pass' = pass
  PROVE  \E k \in Places(open) :
           /\ Elem(open, k).at = Count' /\ Source(open, k) = MemberItem(n, type, dims)
           /\ MemberOf(n) = k /\ Elem(open, k).type = type
<1> DEFINE x == MemberItem(n, type, dims)
<1>0. x.kind = "member" /\ x.name = n /\ x.type = type /\ x.dims = dims
  BY DEF MemberItem
<1> HIDE DEF x
<1>1. Read(x) /\ UnitInv /\ StateInv /\ NamesInv /\ Kept /\ OpenInv
  BY DEF x, LayoutInv
<1>2. PICK q \in 1..Len(unit) :
        /\ q + 1 <= Count' /\ unit[q].kind = "struct" /\ unit[q].tag = c32_st_root[open].tag
        /\ \A r \in q+1..Count' : unit'[r].kind = "member"
  BY <1>0, <1>1, InsideNext
<1>3. PICK c \in 1..Len(unit) : c = Count' /\ unit[c] = x
  BY <1>1, ReadProp
<1>4. UNCHANGED unit /\ Len(unit) \in Nat
  BY <1>1, ReadProp
<1>5. c \in q+1..Len(unit) /\ Inside(q, c)
  BY <1>2, <1>3, <1>4 DEF Inside
<1>6. PICK s \in Structs :
        /\ c32_st_root[s].tag = unit[q].tag
        /\ \A p \in q+1..Len(unit) : Inside(q, p) => \E k \in Places(s) : Elem(s, k).at = p
  BY <1>1, <1>2 DEF Kept
<1>7. open \in Structs /\ s = open
  <2>1. open \in Structs
    BY <1>1, TablesProp DEF StateInv, Structs
  <2> QED BY <1>1, <1>2, <1>6, <2>1 DEF NamesInv
<1>8. PICK k \in Places(open) : Elem(open, k).at = c
  BY <1>5, <1>6, <1>7
<1>9. Written(open, k)
  BY <1>7 DEF LayoutInv, MembersInv, MemberInv
<1>10. Source(open, k) = x /\ Elem(open, k).name = n /\ Elem(open, k).type = type
  BY <1>0, <1>3, <1>8, <1>9 DEF Written, Source
<1>11. MemberOf(n) = k
  <2>1. DOMAIN Struct.elem = Places(open)
    BY <1>1, <1>7, TablesProp DEF Struct
  <2>2. \A l \in Places(open) : Struct.elem[l].name = n => l = k
    BY <1>1, <1>7, <1>10 DEF NamesInv, Elem, Struct
  <2>3. Struct.elem[k].name = n
    BY <1>10 DEF Elem, Struct
  <2> QED BY <2>1, <2>2, <2>3 DEF MemberOf
<1> QED BY <1>3, <1>8, <1>10, <1>11 DEF x

\* It changes nothing that the text has fixed.
LEMMA AgainTables ==
  ASSUME LayoutInv, NEW n \in Names, NEW type \in Types, NEW dims \in Seq(Nat \cup {Empty}),
         Read(MemberItem(n, type, dims)), pass = "PASS3", open # 0, err = "none",
         c32_st_root' = Again(n, dims), UNCHANGED <<profile, pass, open, err>>
  PROVE  StateInv' /\ NamesInv' /\ TablesInv' /\ MembersInv' /\ Longer /\ Steady
<1>1. PICK k \in Places(open) :
        /\ Source(open, k) = MemberItem(n, type, dims)
        /\ MemberOf(n) = k /\ Elem(open, k).type = type
  BY FoundAgain
<1>2. TextGrows /\ next' \in Nat \ {0}
  BY ReadProp DEF LayoutInv, TextGrows
<1>3. open \in Structs /\ Growing = 0 /\ Growing' = 0 /\ open' \in 0..Len(c32_st_root)
      /\ pass' \in {"PASS1", "PASS3", "DONE"} /\ profile' = profile
  BY TablesProp DEF LayoutInv, StateInv, Structs, Growing
<1>4. CASE dims = <<>>
  <2>1. UNCHANGED c32_st_root
    BY <1>4 DEF Again
  <2> QED BY <1>2, <1>3, <2>1, SameTables DEF Steady, Structs, Places
<1>5. CASE dims # <<>>
  <2>1. PICK d \in Seq(Nat) : d = Dims(dims)
    BY DimsProp
  <2>2. Written(open, k) /\ StateInv /\ NamesInv
    BY <1>3 DEF LayoutInv, MembersInv, MemberInv
  <2>3. Bytes(type) \in Int
    <3>1. type.base = "struct" => Known(type.tag)
      <4> SUFFICES ASSUME type.base = "struct" PROVE Known(type.tag)
        OBVIOUS
      <4>1. PICK t \in 1..open : c32_st_root[t].tag = type.tag
        BY <1>1, <2>2 DEF Written
      <4>2. t \in DOMAIN c32_st_root
        <5>1. Len(c32_st_root) \in Nat /\ DOMAIN c32_st_root = Structs
          BY <2>2, TablesProp
        <5> QED BY <1>3, <5>1 DEF Structs
      <4> QED BY <4>1, <4>2 DEF Known
    <3> QED BY <2>2, <3>1, BytesProp
  <2>4. PICK z \in Int : z = Times(Bytes(type), d)
    <3>1. d \in Seq(Int)
      BY <2>1
    <3> QED BY <2>3, <3>1, TimesProp
  <2>5. c32_st_root' = Resized(open, k, d, z)
    BY <1>1, <1>5, <2>1, <2>4 DEF Again, Sized, Resized, Elem
  <2>6. Vague(open, k) \/ (d = Elem(open, k).dims /\ z = Elem(open, k).size)
    BY <1>1, <2>1, <2>2, <2>4 DEF Written, MemberItem
  <2> QED BY <1>2, <1>3, <2>5, <2>6, ResizedTables DEF Steady
<1> QED BY <1>4, <1>5

\* PASS3 reads a member.
LEMMA AgainStep ==
  ASSUME LayoutInv, NEW n \in Names, NEW type \in Types, NEW dims \in Seq(Nat \cup {Empty}),
         Read(MemberItem(n, type, dims)), pass = "PASS3", open # 0, err = "none",
         c32_st_root' = Again(n, dims), UNCHANGED <<profile, pass, open, err>>,
         UNCHANGED <<frames, mode>>, mode = "none"
  PROVE  LayoutInv'
<1> DEFINE x == MemberItem(n, type, dims)
<1>0. x.kind = "member" /\ x.name = n /\ x.type = type /\ x.dims = dims
  BY DEF MemberItem
<1> HIDE DEF x
<1>1. Read(x) /\ UnitInv /\ StateInv /\ Kept /\ OpenInv /\ pass' = pass
  BY DEF x, LayoutInv
<1>2. StateInv' /\ NamesInv' /\ TablesInv' /\ MembersInv' /\ Longer
  BY AgainTables
<1>3. UnitInv'
  BY <1>0, <1>1, ReadUnit
<1>4. Kept'
  BY <1>1, <1>2, ReadKept
<1>5. OpenInv'
  <2>1. PICK q \in 1..Len(unit) :
          /\ q + 1 <= Count' /\ unit[q].kind = "struct" /\ unit[q].tag = c32_st_root[open].tag
          /\ \A r \in q+1..Count' : unit'[r].kind = "member"
    BY <1>0, <1>1, InsideNext
  <2>2. q \in 1..Len(unit') /\ unit'[q] = unit[q] /\ Count' \in Nat /\ Len(unit) \in Nat
    <3>1. Count' \in 1..Len(unit') /\ Len(unit) \in Nat
      BY <1>1, ReadProp
    <3>2. q \in 1..Len(unit') /\ unit'[q] = unit[q]
      BY <1>1, ReadProp
    <3> QED BY <3>1, <3>2
  <2>3. Inside(q, Count)'
    BY <2>1, <2>2 DEF Inside
  <2>4. q <= Count'
    BY <2>1, <2>2
  <2>5. c32_st_root'[open'].tag = unit'[q].tag
    <3>1. open \in Structs
      BY <1>1, TablesProp DEF StateInv, Structs
    <3> QED BY <1>2, <2>1, <2>2, <3>1 DEF Longer
  <2> QED BY <2>2, <2>3, <2>4, <2>5 DEF OpenInv
<1>6. FramesInv'
  BY DEF LayoutInv, FramesInv
<1> QED BY <1>2, <1>3, <1>4, <1>5, <1>6 DEF LayoutInv

\* PASS1 puts the member e, which has the dimensions dims in the text, at place m
\* of structure o.
Enters(o, m, e, dims) ==
  /\ pass = "PASS1" /\ open = o /\ UNCHANGED <<profile, pass, open>>
  /\ Read(MemberItem(e.name, e.type, dims))
  /\ \A k \in Places(o) : Elem(o, k).name # e.name
  /\ e.type.base = "struct" => Known(e.type.tag)
  /\ e.dims = Dims(dims) /\ e.size = Times(Bytes(e.type), e.dims)
  /\ e.value = RoundUp(c32_st_root[o].size, Bytes(e.type)) /\ e.at = Len(unit) + 1
  /\ m = Len(c32_st_root[o].elem) + 1
  /\ c32_st_root' = Enlarged(o, e, Word(e.value + e.size))

\* What changes in the tables, and that nothing else does.
Changes(o, m, e) ==
  /\ c32_st_root' \in Seq(Tables) /\ Len(c32_st_root') = Len(c32_st_root)
  /\ \A s \in Structs : s # o => c32_st_root'[s] = c32_st_root[s]
  /\ c32_st_root'[o].tag = c32_st_root[o].tag
  /\ c32_st_root'[o].size = Word(e.value + e.size)
  /\ m \in Nat \ {0} /\ Len(c32_st_root'[o].elem) = m /\ Len(c32_st_root[o].elem) = m - 1
  /\ \A k \in Places(o) : c32_st_root'[o].elem[k] = c32_st_root[o].elem[k]
  /\ c32_st_root'[o].elem[m] = e

\* That PASS1 does so.
LEMMA EntersChanges ==
  ASSUME StateInv, NEW o \in Structs, NEW m, NEW e \in Elems, NEW dims, Enters(o, m, e, dims)
  PROVE  Changes(o, m, e)
<1>1. PICK size \in Int : size = Word(e.value + e.size)
  <2>1. e.value + e.size \in Int
    BY DEF Elems
  <2> QED BY <2>1, WordProp
<1> DEFINE new == Enlarged(o, e, size)
<1>2. m = Len(c32_st_root[o].elem) + 1 /\ c32_st_root' = new
  BY <1>1 DEF Enters
<1>3. /\ new \in Seq(Tables) /\ Len(new) = Len(c32_st_root)
      /\ \A s \in Structs : s # o => new[s] = c32_st_root[s]
      /\ new[o].tag = c32_st_root[o].tag /\ new[o].size = size /\ Len(new[o].elem) = m
      /\ \A k \in Places(o) : new[o].elem[k] = c32_st_root[o].elem[k]
      /\ new[o].elem[m] = e
  BY <1>2, AddMember
<1> HIDE DEF new
<1>4. Len(c32_st_root[o].elem) \in Nat
  BY TablesProp
<1>5. m \in Nat \ {0} /\ Len(c32_st_root[o].elem) = m - 1
  BY <1>2, <1>4
<1> QED BY <1>1, <1>2, <1>3, <1>5 DEF Changes

\* The names are still different, and nothing that was there is lost.
LEMMA EntersNames ==
  ASSUME LayoutInv, NEW o \in Structs, NEW m, NEW e \in Elems, NEW dims, Enters(o, m, e, dims)
  PROVE  /\ StateInv' /\ NamesInv' /\ Longer /\ Growing = o /\ Growing' = o
         /\ Structs' = Structs /\ o = Len(c32_st_root)
         /\ \A s \in Structs : s # o => Places(s)' = Places(s)
         /\ Places(o)' = Places(o) \cup {m}
<1>1. /\ c32_st_root' \in Seq(Tables) /\ Len(c32_st_root') = Len(c32_st_root)
      /\ \A s \in Structs : s # o => c32_st_root'[s] = c32_st_root[s]
      /\ c32_st_root'[o].tag = c32_st_root[o].tag
      /\ m \in Nat \ {0} /\ Len(c32_st_root'[o].elem) = m /\ Len(c32_st_root[o].elem) = m - 1
      /\ \A k \in Places(o) : c32_st_root'[o].elem[k] = c32_st_root[o].elem[k]
      /\ c32_st_root'[o].elem[m] = e
  <2>1. StateInv
    BY DEF LayoutInv
  <2>2. Changes(o, m, e)
    BY <2>1, EntersChanges
  <2> QED BY <2>2 DEF Changes
<1>2. Structs' = Structs
  BY <1>1 DEF Structs
<1>3. \A s \in Structs : s # o => Places(s)' = Places(s)
  BY <1>1 DEF Places
<1>4. Places(o)' = Places(o) \cup {m}
  BY <1>1 DEF Places
<1>5. TextGrows /\ next' \in Nat \ {0}
  <2>1. Read(MemberItem(e.name, e.type, dims)) /\ pass' = pass
    BY DEF Enters
  <2> QED BY <2>1, ReadProp DEF LayoutInv, TextGrows
<1>6. Growing = o /\ Growing' = o /\ o = Len(c32_st_root)
  <2>1. Growing = o /\ Growing' = o /\ Growing \in {0, Len(c32_st_root)}
    BY DEF Enters, Growing, LayoutInv, StateInv
  <2>2. o # 0
    BY TablesProp DEF LayoutInv, Structs
  <2> QED BY <2>1, <2>2
<1>7. StateInv'
  <2>1. profile' = profile /\ pass' = pass /\ open' = open
    BY DEF Enters
  <2> QED BY <1>1, <1>5, <1>6, <2>1 DEF LayoutInv, StateInv
<1>8. Longer
  <2>1. ASSUME NEW s \in Structs, NEW k \in Places(s)
        PROVE  k \in Places(s)' /\ c32_st_root'[s].elem[k] = c32_st_root[s].elem[k]
    BY <1>1, <1>3, <1>4
  <2>2. ASSUME NEW s \in Structs
        PROVE  /\ c32_st_root'[s].tag = c32_st_root[s].tag
               /\ s # Growing => c32_st_root'[s].size = c32_st_root[s].size
    BY <1>1, <1>6
  <2> QED BY <1>2, <1>5, <2>1, <2>2 DEF Longer, TextGrows
<1>9. NamesInv'
  <2>1. \A s, t \in Structs' : c32_st_root'[s].tag = c32_st_root'[t].tag => s = t
    BY <1>2, <1>8 DEF LayoutInv, NamesInv, Longer
  <2>2. ASSUME NEW s \in Structs, NEW k \in Places(s)', NEW l \in Places(s)',
               Elem(s, k)'.name = Elem(s, l)'.name
        PROVE  k = l
    <3>1. CASE s # o
      BY <1>1, <1>3, <2>2, <3>1 DEF LayoutInv, NamesInv, Elem
    <3>2. CASE s = o
      <4>1. Elem(o, m)'.name = e.name
        BY <1>1 DEF Elem
      <4>2. \A j \in Places(o) : Elem(o, j)'.name = Elem(o, j).name /\ Elem(o, j).name # e.name
        BY <1>1 DEF Elem, Enters
      <4>3. (k = m \/ k \in Places(o)) /\ (l = m \/ l \in Places(o))
        BY <1>4, <3>2
      <4> QED BY <2>2, <3>2, <4>1, <4>2, <4>3 DEF LayoutInv, NamesInv
    <3> QED BY <3>1, <3>2
  <2> QED BY <1>2, <2>1, <2>2 DEF NamesInv
<1> QED BY <1>2, <1>3, <1>4, <1>6, <1>7, <1>8, <1>9

\* The new member is what its item says.
LEMMA EntersWritten ==
  ASSUME LayoutInv, NEW o \in Structs, NEW m, NEW e \in Elems, NEW dims, Enters(o, m, e, dims)
  PROVE  /\ Written(o, m)'
         /\ ~Vague(o, m)' => Bytes(Elem(o, m).type)' = Bytes(e.type)
<1>1. /\ c32_st_root'[o].tag = c32_st_root[o].tag /\ c32_st_root'[o].elem[m] = e
      /\ \A s \in Structs : s # o => c32_st_root'[s] = c32_st_root[s]
  <2>1. StateInv
    BY DEF LayoutInv
  <2>2. Changes(o, m, e)
    BY <2>1, EntersChanges
  <2> QED BY <2>2 DEF Changes
<1>2. StateInv' /\ NamesInv' /\ Longer /\ Structs' = Structs /\ o = Len(c32_st_root)
  BY EntersNames
<1>3. Elem(o, m)' = e
  BY <1>1 DEF Elem
<1> DEFINE x == MemberItem(e.name, e.type, dims)
<1>4. x.kind = "member" /\ x.name = e.name /\ x.type = e.type /\ x.dims = dims
  BY DEF MemberItem
<1> HIDE DEF x
<1>5. e.at \in 1..Len(unit') /\ unit'[e.at] = x
  <2>1. Read(x) /\ pass' = pass /\ pass = "PASS1" /\ e.at = Len(unit) + 1
    BY DEF Enters, x
  <2>2. Count' = Len(unit) + 1
    BY <2>1, ReadProp DEF LayoutInv
  <2> QED BY <2>1, <2>2, ReadProp DEF LayoutInv
<1>6. Source(o, m)' = x
  BY <1>3, <1>5 DEF Source
<1>7. e.type.base = "struct" => \E t \in 1..o : c32_st_root'[t].tag = e.type.tag
  <2> SUFFICES ASSUME e.type.base = "struct"
               PROVE  \E t \in 1..o : c32_st_root'[t].tag = e.type.tag
    OBVIOUS
  <2>1. PICK t \in Structs : c32_st_root[t].tag = e.type.tag
    BY TablesProp DEF Enters, Known, LayoutInv
  <2>2. t \in 1..o
    BY <1>2 DEF Structs
  <2> QED BY <1>2, <2>1, <2>2 DEF Longer
<1>8. ASSUME ~Vague(o, m)' PROVE Bytes(e.type)' = Bytes(e.type)
  <2>1. e.type \in Types
    BY DEF Elems
  <2>2. SUFFICES ASSUME IsStruct(e.type)
                 PROVE  \E t \in Structs : /\ c32_st_root[t].tag = e.type.tag
                                           /\ t \in Structs'
                                           /\ c32_st_root'[t].tag = c32_st_root[t].tag
                                           /\ c32_st_root'[t].size = c32_st_root[t].size
    BY <1>2, <2>1, BytesKept DEF LayoutInv
  <2>3. PICK t \in Structs : c32_st_root[t].tag = e.type.tag
    BY <2>2, TablesProp DEF Enters, Known, LayoutInv, IsStruct
  <2>4. t # o
    BY <1>1, <1>3, <1>8, <2>2, <2>3 DEF Vague, IsStruct
  <2> QED BY <1>1, <1>2, <2>3, <2>4
<1>9. Bytes(Elem(o, m).type)' = Bytes(e.type)'
  BY <1>3 DEF Bytes, IsStruct, StructOf
<1>10. Vague(o, m)' \/ /\ e.dims = Dims(x.dims)
                       /\ e.size = Times(Bytes(Elem(o, m).type)', e.dims)
  BY <1>4, <1>8, <1>9 DEF Enters
<1>11. /\ Dims(Source(o, m).dims)' = Dims(x.dims)
       /\ Times(Bytes(Elem(o, m).type), Elem(o, m).dims)' = Times(Bytes(Elem(o, m).type)', e.dims)
  BY <1>3, <1>6 DEF Dims, Times
<1>13. ASSUME m = 1 PROVE e.value = 0
  <2>1. /\ Growing = o /\ c32_st_root[o].elem \in Seq(Elems)
        /\ m = Len(c32_st_root[o].elem) + 1 /\ e.value = RoundUp(c32_st_root[o].size, Bytes(e.type))
    BY EntersNames, TablesProp DEF LayoutInv, Tables, Enters
  <2>2. c32_st_root[o].size = 0
    <3>1. TableInv(o) /\ Len(c32_st_root[o].elem) = 0
      BY <1>13, <2>1 DEF LayoutInv, TablesInv
    <3> QED BY <2>1, <3>1 DEF TableInv
  <2>3. Word(0) = 0
    <3>1. INT \div 2 \in Nat /\ INT \div 2 > 0
      BY WidthAssumption
    <3> QED BY <3>1, WordProp
  <2>4. 2 * ((0 + 1) \div 2) = 0 /\ 4 * ((0 + 3) \div 4) = 0
    OBVIOUS
  <2> QED BY <2>1, <2>2, <2>3, <2>4 DEF RoundUp
<1>12. Written(o, m)'
  BY <1>3, <1>4, <1>5, <1>6, <1>7, <1>10, <1>11, <1>13 DEF Written
<1> QED BY <1>8, <1>9, <1>12

\* It lies behind the others.
LEMMA EntersBehind ==
  ASSUME LayoutInv, NEW o \in Structs, NEW m, NEW e \in Elems, NEW dims, Enters(o, m, e, dims),
         Measured(o, m)'
  PROVE  /\ Behind(o, m)'
         /\ e.value + e.size <= c32_st_root'[o].size
<1>1. /\ c32_st_root'[o].elem[m] = e /\ c32_st_root'[o].size = Word(e.value + e.size)
      /\ m \in Nat \ {0} /\ Len(c32_st_root[o].elem) = m - 1
      /\ \A k \in Places(o) : c32_st_root'[o].elem[k] = c32_st_root[o].elem[k]
  <2>1. StateInv
    BY DEF LayoutInv
  <2>2. Changes(o, m, e)
    BY <2>1, EntersChanges
  <2> QED BY <2>2 DEF Changes
<1>2. StateInv' /\ Longer /\ Growing = o
  BY EntersNames
<1>3. Elem(o, m)' = e /\ m \in 1..m
  BY <1>1 DEF Elem
<1>4. PICK h \in Int : h = INT \div 2
  BY WidthAssumption
<1>5. e.value \in Int /\ e.size \in Int
  BY DEF Elems
<1>6. e.value >= 0 /\ e.size >= 0 /\ e.value + e.size + 3 < h /\ ~Vague(o, m)'
  <2>1. /\ Elem(o, m)'.value >= 0 /\ Elem(o, m)'.size >= 0
        /\ Elem(o, m)'.value + Elem(o, m)'.size + 3 < h
    BY <1>3, <1>4 DEF Measured, Elem
  <2>2. ~Vague(o, m)'
    BY <1>3 DEF Measured, Vague, Elem, Source
  <2> QED BY <1>3, <2>1, <2>2
<1>7. e.value + e.size <= c32_st_root'[o].size
  <2>1. PICK w \in Int : w = e.value + e.size
    BY <1>5
  <2>2. 0 <= w /\ w < h
    BY <1>5, <1>6, <2>1
  <2>3. Word(w) = w
    BY <1>4, <2>2, WordProp
  <2> QED BY <1>1, <2>1, <2>3
<1>8. c32_st_root[o].size \in Int /\ e.value = RoundUp(c32_st_root[o].size, Bytes(e.type))
  <2>1. c32_st_root[o] \in Tables
    BY TablesProp DEF LayoutInv
  <2> QED BY <2>1 DEF Tables, Enters
<1>9. e.value % Alignment(e.type) = 0
  BY <1>8, RoundUpProp DEF Alignment
<1>10. Alignment(Elem(o, m).type)' = Alignment(e.type)
  BY <1>6, EntersWritten DEF Alignment
<1>11. ASSUME NEW l \in 1..m-1 PROVE Elem(o, l)'.value + Elem(o, l)'.size <= e.value
  <2>1. PICK n \in Nat : n = m - 1 /\ n > 0 /\ n \in Places(o) /\ l \in 1..n /\ l \in Places(o)
    BY <1>1 DEF Places
  <2>2. Measured(o, n)'
    <3>1. \A j \in 1..n : j \in 1..m
      BY <1>1, <2>1
    <3> QED BY <3>1 DEF Measured
  <2>3. Measured(o, n)
    BY <1>2, <2>1, <2>2, OldMeasured DEF LayoutInv
  <2>4. n \in 1..n
    BY <2>1
  <2>5. PICK v, z \in Int : v = Elem(o, n).value /\ z = Elem(o, n).size
    <3>1. Elem(o, n) \in Elems
      BY <2>1, TablesProp DEF LayoutInv
    <3> QED BY <3>1 DEF Elems
  <2>6. v >= 0 /\ z >= 0 /\ v + z + 3 < h
    BY <1>4, <2>3, <2>4, <2>5 DEF Measured, Elem
  <2>7. c32_st_root[o].size = Word(v + z)
    BY <1>1, <1>2, <2>1, <2>5 DEF LayoutInv, TablesInv, TableInv
  <2>8. PICK w \in Int : w = v + z
    OBVIOUS
  <2>9. 0 <= w /\ w < h /\ w + 3 < h
    BY <2>6, <2>8
  <2>10. c32_st_root[o].size = w
    BY <1>4, <2>7, <2>8, <2>9, WordProp
  <2>11. e.value >= w
    BY <1>4, <1>8, <2>9, <2>10, RoundUpProp
  <2>12. PICK y, u \in Int : y = Elem(o, l).value /\ u = Elem(o, l).size
    <3>1. Elem(o, l) \in Elems
      BY <2>1, TablesProp DEF LayoutInv
    <3> QED BY <3>1 DEF Elems
  <2>13. y + u <= w
    <3>1. CASE l = n
      BY <2>5, <2>8, <2>12, <3>1
    <3>2. CASE l # n
      <4>1. l \in 1..n-1
        BY <2>1, <3>2
      <4>2. Behind(o, n)
        BY <2>1, <2>3 DEF LayoutInv, MembersInv, MemberInv
      <4>3. y + u <= v
        BY <2>5, <2>12, <4>1, <4>2 DEF Behind
      <4> QED BY <2>6, <2>8, <4>3
    <3> QED BY <3>1, <3>2
  <2>14. Elem(o, l)'.value = y /\ Elem(o, l)'.size = u
    BY <1>1, <2>1, <2>12 DEF Elem
  <2> QED BY <1>5, <2>11, <2>13, <2>14
<1>12. Behind(o, m)'
  BY <1>3, <1>9, <1>10, <1>11 DEF Behind
<1> QED BY <1>7, <1>12

\* The text and the tables then.
LEMMA EntersText ==
  ASSUME LayoutInv, err = "none", NEW o \in Structs, NEW m, NEW e \in Elems, NEW dims,
         Enters(o, m, e, dims)
  PROVE  Kept' /\ OpenInv'
<1> DEFINE x == MemberItem(e.name, e.type, dims)
<1>0. x.kind = "member"
  BY DEF MemberItem
<1> HIDE DEF x
<1>1. /\ Read(x) /\ pass = "PASS1" /\ pass' = pass /\ open = o /\ open' = o /\ o # 0
      /\ UnitInv /\ StateInv /\ NamesInv /\ Kept /\ OpenInv /\ e.at = Len(unit) + 1
  BY TablesProp DEF x, Enters, LayoutInv, Structs
<1>2. Longer /\ Structs' = Structs /\ Places(o)' = Places(o) \cup {m}
  BY EntersNames
<1>3. Elem(o, m)' = e
  <2>1. Changes(o, m, e)
    BY <1>1, EntersChanges
  <2> QED BY <2>1 DEF Changes, Elem
<1>4. PICK q0 \in 1..Len(unit) :
        /\ q0 + 1 <= Count' /\ unit[q0].kind = "struct" /\ unit[q0].tag = c32_st_root[open].tag
        /\ \A r \in q0+1..Count' : unit'[r].kind = "member"
  BY <1>0, <1>1, InsideNext
<1>5. PICK c \in Nat : /\ c = Count' /\ c = Len(unit) + 1 /\ Len(unit') = c /\ Len(unit) \in Nat
                       /\ unit'[c] = x
  <2>1. Count' = Len(unit) + 1 /\ Len(unit') = Len(unit) + 1 /\ Len(unit) \in Nat
    BY <1>1, ReadProp
  <2>2. unit'[Count'] = x
    BY <1>1, ReadProp
  <2> QED BY <2>1, <2>2
<1>6. \A p \in 1..Len(unit) : unit'[p] = unit[p]
  BY <1>1, ReadProp
<1>7. ASSUME NEW q \in 1..Len(unit'), unit'[q].kind = "struct"
      PROVE  \E s \in Structs' :
               /\ c32_st_root'[s].tag = unit'[q].tag
               /\ \A p \in q+1..Len(unit') :
                    Inside(q, p)' => \E k \in Places(s)' : Elem(s, k)'.at = p
  <2>1. q \in 1..Len(unit) /\ unit[q] = unit'[q]
    BY <1>0, <1>5, <1>6, <1>7
  <2>2. PICK s \in Structs :
          /\ s \in Structs' /\ c32_st_root[s].tag = unit[q].tag /\ c32_st_root'[s].tag = unit'[q].tag
          /\ \A p \in q+1..Len(unit) : Inside(q, p)' => \E k \in Places(s)' : Elem(s, k)'.at = p
    BY <1>1, <1>2, <1>5, <1>7, <2>1, KeptOld
  <2>3. ASSUME Inside(q, c)' PROVE s = o
    <3>1. q = q0
      <4>1. CASE q < q0
        <5>1. q0 \in q+1..c
          BY <1>5, <2>1, <4>1
        <5>2. unit'[q0].kind = "member" /\ unit'[q0] = unit[q0]
          BY <1>6, <2>3, <5>1 DEF Inside
        <5> QED BY <1>4, <5>2
      <4>2. CASE q0 < q
        <5>1. q \in q0+1..c
          BY <1>5, <2>1, <4>2
        <5> QED BY <1>4, <1>5, <1>7, <5>1
      <4> QED BY <1>5, <2>1, <4>1, <4>2
    <3> QED BY <1>1, <1>4, <2>2, <3>1 DEF NamesInv
  <2>4. ASSUME NEW p \in q+1..Len(unit'), Inside(q, p)'
        PROVE  \E k \in Places(s)' : Elem(s, k)'.at = p
    <3>1. CASE p \in q+1..Len(unit)
      BY <2>2, <2>4, <3>1
    <3>2. CASE p = c
      BY <1>1, <1>2, <1>3, <1>5, <2>3, <2>4, <3>2
    <3>3. p \in q+1..Len(unit) \/ p = c
      BY <1>5, <2>1
    <3> QED BY <3>1, <3>2, <3>3
  <2> QED BY <2>2, <2>4
<1>8. Kept'
  BY <1>7 DEF Kept
<1>9. OpenInv'
  <2>1. q0 \in 1..Len(unit') /\ unit'[q0] = unit[q0] /\ q0 <= Count'
    BY <1>5, <1>6
  <2>2. Inside(q0, Count)'
    BY <1>4, <2>1 DEF Inside
  <2>3. c32_st_root'[open'].tag = unit'[q0].tag
    BY <1>1, <1>2, <1>4, <2>1 DEF Longer
  <2> QED BY <2>1, <2>2, <2>3 DEF OpenInv
<1> QED BY <1>8, <1>9

\* So all is kept when a member is added.
LEMMA EntersStep ==
  ASSUME LayoutInv, err = "none", NEW o \in Structs, NEW m, NEW e \in Elems,
         NEW dims \in Seq(Nat \cup {Empty}), Enters(o, m, e, dims),
         UNCHANGED <<frames, mode>>, mode = "none"
  PROVE  LayoutInv'
<1>1. /\ StateInv' /\ NamesInv' /\ Longer /\ Growing = o /\ Growing' = o
      /\ Structs' = Structs /\ o = Len(c32_st_root)
      /\ \A s \in Structs : s # o => Places(s)' = Places(s)
      /\ Places(o)' = Places(o) \cup {m}
  BY EntersNames
<1>2. Changes(o, m, e)
  <2>1. StateInv
    BY DEF LayoutInv
  <2> QED BY <2>1, EntersChanges
<1>3. UnitInv'
  <2> DEFINE x == MemberItem(e.name, e.type, dims)
  <2>1. x.kind = "member" /\ x.name = e.name /\ x.type = e.type /\ x.dims = dims
    BY DEF MemberItem
  <2>2. Read(x) /\ pass' = pass
    BY DEF Enters
  <2>3. e.name \in Names /\ e.type \in Types
    BY DEF Elems
  <2> HIDE DEF x
  <2> QED BY <2>1, <2>2, <2>3, ReadUnit DEF LayoutInv
<1>4. MembersInv'
  <2>1. ASSUME NEW s \in Structs, NEW k \in Places(s) PROVE MemberInv(s, k)'
    BY <1>1, OldMembers DEF LayoutInv
  <2>2. MemberInv(o, m)'
    BY EntersWritten, EntersBehind DEF MemberInv
  <2>3. ASSUME NEW s \in Structs, NEW k \in Places(s)' PROVE MemberInv(s, k)'
    BY <1>1, <2>1, <2>2
  <2> QED BY <1>1, <2>3 DEF MembersInv
<1>5. TablesInv'
  <2>1. ASSUME NEW s \in Structs, s # o PROVE TableInv(s)'
    <3>1. s # Growing /\ s # Growing' /\ Len(c32_st_root'[s].elem) = Len(c32_st_root[s].elem)
      BY <1>1, <1>2, <2>1 DEF Changes
    <3> QED BY <1>1, <3>1, OldTable DEF LayoutInv, TablesInv
  <2>2. TableInv(o)'
    <3>1. /\ Len(c32_st_root'[o].elem) = m /\ m # 0 /\ Elem(o, m)' = e
          /\ c32_st_root'[o].size = Word(e.value + e.size)
      BY <1>2 DEF Changes, Elem
    <3>2. /\ Measured(o, Len(c32_st_root[o].elem))' <=> Measured(o, m)'
          /\ Elem(o, Len(c32_st_root[o].elem))' = Elem(o, m)'
      BY <3>1 DEF Measured, Elem
    <3>3. Measured(o, m)' => e.value + e.size <= c32_st_root'[o].size
      BY EntersBehind
    <3> QED BY <1>1, <3>1, <3>2, <3>3 DEF TableInv
  <2> QED BY <1>1, <2>1, <2>2 DEF TablesInv
<1>6. Kept' /\ OpenInv'
  BY EntersText
<1>7. FramesInv'
  BY DEF LayoutInv, FramesInv
<1> QED BY <1>1, <1>3, <1>4, <1>5, <1>6, <1>7 DEF LayoutInv

\* type n dims ;
LEMMA MemberStep ==
  ASSUME LayoutInv, NEW n \in Names, NEW type \in Types, NEW dims \in Seq(Nat \cup {Empty}),
         Member(n, type, dims), UNCHANGED <<frames, mode>>, mode = "none"
  PROVE  LayoutInv'
<1> DEFINE x == MemberItem(n, type, dims)
<1>0. /\ Read(x) /\ open # 0 /\ err = "none" /\ pass \in {"PASS1", "PASS3"}
      /\ x.kind = "member" /\ x.name = n /\ x.type = type /\ x.dims = dims
  BY DEF Member, Reading, MemberItem
<1> HIDE DEF x
<1>1. ASSUME NEW stop, stop # "none", Stop(stop) PROVE LayoutInv'
  <2>1. pass' = pass
    BY <1>1 DEF Stop
  <2>2. UnitInv'
    BY <1>0, <2>1, ReadUnit DEF LayoutInv
  <2> QED BY <1>0, <1>1, <2>2, StopStep
<1>2. ASSUME type.base = "struct" => Known(type.tag), ~HasMember(n), pass = "PASS1",
             c32_st_root' = Added(n, type, dims), UNCHANGED <<profile, pass, open, err>>
      PROVE  LayoutInv'
  <2>1. PICK o \in Structs : o = open
    <3>1. open \in Structs
      BY <1>0, TablesProp DEF LayoutInv, StateInv, Structs
    <3> QED BY <3>1
  <2>2. PICK b \in Int : b = Bytes(type)
    BY <1>2, BytesProp DEF LayoutInv
  <2>3. PICK d \in Seq(Nat) : d = Dims(dims)
    BY DimsProp
  <2>4. PICK z \in Int : z = Times(b, d)
    <3>1. d \in Seq(Int)
      BY <2>3
    <3> QED BY <2>2, <3>1, TimesProp
  <2>5. PICK v \in Int : v = RoundUp(c32_st_root[o].size, b)
    <3>1. c32_st_root[o] \in Tables
      BY TablesProp DEF LayoutInv
    <3>2. c32_st_root[o].size \in Int
      BY <3>1 DEF Tables
    <3> QED BY <3>2, RoundUpProp
  <2>6. PICK a \in Nat : a = Len(unit) + 1
    <3>1. Len(unit) \in Nat
      BY <1>0, <1>2, ReadProp DEF LayoutInv
    <3> QED BY <3>1
  <2> DEFINE e == [name |-> n, type |-> type, dims |-> d, size |-> z, value |-> v, at |-> a]
             m == Len(c32_st_root[o].elem) + 1
  <2>7. /\ e \in Elems /\ e.name = n /\ e.type = type /\ e.dims = d /\ e.size = z
        /\ e.value = v /\ e.at = a
    BY DEF Elems
  <2>8. c32_st_root' = Enlarged(o, e, Word(v + z))
    <3> DEFINE base == [name |-> n, type |-> type, dims |-> <<>>, size |-> 0, value |-> v, at |-> a]
    <3>1. base.type = type
      OBVIOUS
    <3>2. Sized(base, dims) = [base EXCEPT !.dims = d, !.size = z]
      <4> HIDE DEF base
      <4> QED BY <2>2, <2>3, <2>4, <3>1 DEF Sized
    <3>3. Sized(base, dims) = e
      BY <3>2
    <3> HIDE DEF e
    <3>4. Added(n, type, dims) = [c32_st_root EXCEPT ![o].elem = Append(@, e), ![o].size = Word(v + e.size)]
      BY <2>1, <2>2, <2>5, <2>6, <3>3 DEF Added, Struct
    <3> QED BY <1>2, <2>7, <3>4 DEF Enlarged
  <2> HIDE DEF e
  <2>9. \A k \in Places(o) : Elem(o, k).name # n
    BY <1>2, <2>1, TablesProp DEF HasMember, Struct, Elem, LayoutInv
  <2>10. Enters(o, m, e, dims)
    BY <1>0, <1>2, <2>1, <2>2, <2>3, <2>4, <2>5, <2>6, <2>7, <2>8, <2>9 DEF Enters, x
  <2> HIDE DEF m
  <2> QED BY <1>0, <2>7, <2>10, EntersStep
<1>3. ASSUME pass = "PASS3", c32_st_root' = Again(n, dims), UNCHANGED <<profile, pass, open, err>>
      PROVE  LayoutInv'
  BY <1>0, <1>3, AgainStep DEF x
<1> QED BY <1>0, <1>1, <1>2, <1>3 DEF Member

------------------------------------------------------------------------------
\* Initialisers

\* An item of an initialiser is read, or none.
Looks == \/ \E x : Read(x) /\ x.kind \notin {"struct", "member"}
         \/ UNCHANGED <<unit, next>>

\* The text stays as it was, or grows by an item that no definition reads.
LEMMA LooksProp ==
  ASSUME LayoutInv, Looks, pass' = pass
  PROVE  /\ UnitInv' /\ TextGrows /\ next' \in Nat \ {0}
         /\ Kept /\ Longer => Kept'
<1>1. CASE \E x : Read(x) /\ x.kind \notin {"struct", "member"}
  <2>1. PICK x : Read(x) /\ x.kind \notin {"struct", "member"}
    BY <1>1
  <2>2. UnitInv' /\ (Kept /\ Longer => Kept')
    BY <2>1, ReadUnit, ReadKept DEF LayoutInv
  <2>3. TextGrows /\ next' \in Nat \ {0}
    BY <2>1, ReadProp DEF LayoutInv, TextGrows
  <2> QED BY <2>2, <2>3
<1>2. CASE UNCHANGED <<unit, next>>
  <2>1. UnitInv' /\ TextGrows /\ next' \in Nat \ {0}
    BY <1>2 DEF LayoutInv, UnitInv, TextGrows, StateInv
  <2>2. ASSUME Kept, Longer PROVE Kept'
    <3>1. PICK S : unit \in Seq(S)
      BY DEF LayoutInv, UnitInv
    <3>2. Len(unit) \in Nat /\ unit' = unit
      BY <1>2, <3>1
    <3>3. ASSUME NEW q \in 1..Len(unit'), unit'[q].kind = "struct"
          PROVE  \E s \in Structs' :
                   /\ c32_st_root'[s].tag = unit'[q].tag
                   /\ \A p \in q+1..Len(unit') :
                        Inside(q, p)' => \E k \in Places(s)' : Elem(s, k)'.at = p
      BY <2>2, <3>2, <3>3, KeptOld
    <3> QED BY <3>3 DEF Kept
  <2> QED BY <2>1, <2>2
<1> QED BY <1>1, <1>2 DEF Looks

\* A step that leaves the tables as they are.
LEMMA SteadySame ==
  ASSUME TextGrows, UNCHANGED c32_st_root
  PROVE  Steady
  BY DEF Steady, Longer, TextGrows, Structs, Places

\* What is left to show of such a step.
LEMMA GoesOn ==
  ASSUME LayoutInv, Looks, open = 0, UNCHANGED <<pass, open>>, err' = "none" => err = "none",
         StateInv', NamesInv', TablesInv', MembersInv', Longer, FramesInv'
  PROVE  LayoutInv'
<1>1. UnitInv' /\ (Kept /\ Longer => Kept')
  BY LooksProp
<1>2. OpenInv'
  BY DEF OpenInv
<1> QED BY <1>1, <1>2 DEF LayoutInv

\* Without a change of the tables that is the braces.
LEMMA GoesOnSame ==
  ASSUME LayoutInv, Looks, open = 0, UNCHANGED <<profile, pass, open, c32_st_root>>,
         err' = "none" => err = "none", FramesInv'
  PROVE  LayoutInv'
<1>1. TextGrows /\ next' \in Nat \ {0}
  BY LooksProp
<1>2. /\ pass' \in {"PASS1", "PASS3", "DONE"} /\ open' \in 0..Len(c32_st_root)
      /\ Growing' = Growing /\ profile' = profile
  BY DEF LayoutInv, StateInv, Growing
<1>3. StateInv' /\ NamesInv' /\ TablesInv' /\ MembersInv' /\ Longer
  BY <1>1, <1>2, SameTables
<1> QED BY <1>3, GoesOn

\* An initialiser is refused.
LEMMA RefuseStep ==
  ASSUME LayoutInv, Looks, open = 0, NEW e, e # "none", Refuse(e)
  PROVE  LayoutInv'
<1>1. UNCHANGED <<profile, pass, open, c32_st_root>> /\ err' # "none" /\ UNCHANGED <<frames, mode>>
  BY DEF Refuse, Stop, initVars
<1>2. FramesInv'
  BY <1>1, SameFrames DEF LayoutInv
<1> QED BY <1>1, <1>2, GoesOnSame

\* The parser looks for something: what Place says of it.
LEMMA PlaceProp ==
  ASSUME FramesInv, NEW n \in 0..Len(frames), NEW fs, DOMAIN fs = 1..n, Len(fs) = n, n = 0 <=> fs = <<>>,
         \A i \in 1..n : fs[i] = frames[i]
  PROVE  /\ Place(fs) = Under(n) /\ Under(n).dim \in Nat \ {0}
<1>1. PICK R : frames \in Seq(FrameOf(R))
  BY DEF FramesInv
<1>2. Len(frames) \in Nat /\ n \in Nat
  BY <1>1
<1>3. CASE n = 0
  BY <1>3 DEF Place, Under
<1>4. CASE n # 0
  <2>1. n \in 1..Len(frames) /\ n \in 1..n
    BY <1>2, <1>4
  <2>2. fs[Len(fs)] = frames[n] /\ fs # <<>>
    BY <1>4, <2>1
  <2>3. frames[n] \in FrameOf(R) /\ RowInv(n)
    BY <1>1, <2>1 DEF FramesInv
  <2>4. frames[n].dim \in Nat
    BY <2>3 DEF FrameOf
  <2> QED BY <1>4, <2>2, <2>4 DEF Place, Under
<1> QED BY <1>3, <1>4

\* With all the braces that are open.
LEMMA PlaceNow ==
  ASSUME FramesInv
  PROVE  /\ Len(frames) \in Nat /\ Here = Under(Len(frames)) /\ Here.dim \in Nat \ {0}
<1>1. PICK R : frames \in Seq(FrameOf(R))
  BY DEF FramesInv
<1>2. Len(frames) \in Nat /\ DOMAIN frames = 1..Len(frames) /\ (Len(frames) = 0 <=> frames = <<>>)
  BY <1>1
<1> QED BY <1>2, PlaceProp DEF Here

\* With those around the innermost.
LEMMA PlaceOuter ==
  ASSUME FramesInv, frames # <<>>
  PROVE  /\ Len(frames) \in Nat \ {0}
         /\ DOMAIN Outer = 1..Len(frames)-1 /\ Len(Outer) = Len(frames) - 1
         /\ Len(frames) - 1 = 0 <=> Outer = <<>>
         /\ \A i \in 1..Len(frames)-1 : Outer[i] = frames[i]
         /\ Place(Outer) = Under(Len(frames) - 1)
         /\ \A R : frames \in Seq(FrameOf(R)) => Outer \in Seq(FrameOf(R))
<1>1. PICK R : frames \in Seq(FrameOf(R))
  BY DEF FramesInv
<1>2. Len(frames) \in Nat \ {0}
  BY <1>1
<1>3. /\ DOMAIN Outer = 1..Len(frames)-1 /\ Len(Outer) = Len(frames) - 1
      /\ \A i \in 1..Len(frames)-1 : Outer[i] = frames[i]
  <2>1. PICK n \in Nat : n = Len(frames) - 1 /\ n + 1 = Len(frames)
    BY <1>2
  <2>2. Outer = SubSeq(frames, 1, n)
    BY <2>1 DEF Outer, Front
  <2>3. SubSeq(frames, 1, n) = [i \in 1..n |-> frames[i]]
    BY <1>1, <2>1
  <2>4. DOMAIN Outer = 1..n /\ \A i \in 1..n : Outer[i] = frames[i]
    BY <2>2, <2>3
  <2>5. Len(Outer) = n
    BY <1>1, <2>1, <2>2
  <2> QED BY <2>1, <2>4, <2>5
<1>4. Outer \in Seq(FrameOf(R))
  BY <1>1, <1>2 DEF Outer, Front
<1>5. Len(frames) - 1 = 0 <=> Outer = <<>>
  BY <1>2, <1>3, <1>4
<1>6. Place(Outer) = Under(Len(frames) - 1)
  BY <1>2, <1>3, <1>5, PlaceProp
<1>7. \A Q : frames \in Seq(FrameOf(Q)) => Outer \in Seq(FrameOf(Q))
  BY <1>2 DEF Outer, Front
<1> QED BY <1>2, <1>3, <1>5, <1>6, <1>7

\* A token is an item that is neither a structure nor a member.
LEMMA ScanLooks ==
  ASSUME NEW t, Scan(t)
  PROVE  Looks
<1> DEFINE x == Token(t)
<1>1. Read(x) /\ x.kind \notin {"struct", "member"}
  BY DEF Scan, Token
<1> HIDE DEF x
<1> QED BY <1>1 DEF Looks

\* Outside of definitions.
LEMMA Declaring ==
  ASSUME LayoutInv, mode # "none"
  PROVE  open = 0 /\ FramesInv
BY DEF LayoutInv, FramesInv

\* No brace is open.
LEMMA NoFrames ==
  ASSUME frames' = <<>>, open' = 0
  PROVE  FramesInv'
<1>1. frames' \in Seq(FrameOf({})) /\ Len(frames') = 0
  OBVIOUS
<1>2. \A i \in 1..Len(frames') : RowInv(i)'
  BY <1>1
<1> QED BY <1>1, <1>2 DEF FramesInv

\* type name dims ;   or   type name dims =
LEMMA DeclareStep ==
  ASSUME LayoutInv, NEW type, NEW dims, NEW init, Declare(type, dims, init)
  PROVE  LayoutInv'
<1> DEFINE x == [kind |-> "object", type |-> type, dims |-> dims, init |-> init]
<1>1. Looks /\ open = 0
  <2>1. Read(x) /\ x.kind \notin {"struct", "member"} /\ open = 0
    BY DEF Declare
  <2> HIDE DEF x
  <2> QED BY <2>1 DEF Looks
<1>2. ASSUME NEW e, e # "none", Refuse(e) PROVE LayoutInv'
  BY <1>1, <1>2, RefuseStep
<1>3. ASSUME mode' = IF init THEN "value" ELSE "end", frames' = <<>>, Declared, UNCHANGED c32_st_root
      PROVE  LayoutInv'
  <2>1. UNCHANGED <<profile, pass, open, c32_st_root, err>>
    BY <1>3 DEF Declared
  <2>2. FramesInv'
    BY <1>1, <1>3, <2>1, NoFrames
  <2> QED BY <1>1, <2>1, <2>2, GoesOnSame
<1> QED BY <1>2, <1>3 DEF Declare

\* The ; behind it.
LEMMA EndDeclarationStep == ASSUME LayoutInv, EndDeclaration PROVE LayoutInv'
<1>1. mode = "end" /\ open = 0 /\ frames = <<>>
  BY DEF EndDeclaration, LayoutInv, FramesInv
<1>2. ASSUME Scan(";"), mode' = "none", Declared, UNCHANGED <<c32_st_root, frames>> PROVE LayoutInv'
  <2>1. UNCHANGED <<profile, pass, open, c32_st_root, err>> /\ Looks
    BY <1>2, ScanLooks DEF Declared
  <2>2. FramesInv'
    <3>1. frames' = <<>>
      BY <1>1, <1>2
    <3> QED BY <1>1, <2>1, <3>1, NoFrames
  <2> QED BY <1>1, <2>1, <2>2, GoesOnSame
<1>3. ASSUME NEW t, Scan(t), Refuse("syntax") PROVE LayoutInv'
  BY <1>1, <1>3, ScanLooks, RefuseStep
<1> QED BY <1>2, <1>3 DEF EndDeclaration

\* A brace is opened.
LEMMA PushFrames ==
  ASSUME FramesInv, mode # "none", NEW kind \in {"row", "struct"}, NEW ref, NEW dim \in Nat,
         Push(kind, ref, dim),
         kind = "row" => /\ ref = Here.ref /\ dim = Here.dim
                         /\ IsMember(ref) => dim <= Len(Elem(ref.s, ref.k).dims)
  PROVE  FramesInv'
<1> DEFINE f == [kind |-> kind, ref |-> ref, dim |-> dim, i |-> 0]
<1>1. f.kind = kind /\ f.ref = ref /\ f.dim = dim /\ \A R : ref \in R => f \in FrameOf(R)
  BY DEF FrameOf
<1>2. /\ frames' = Append(frames, f) /\ mode' = "value" /\ UNCHANGED <<open, c32_st_root>>
  BY DEF Push, Declared
<1> HIDE DEF f
<1>3. PICK R : frames \in Seq(FrameOf(R))
  BY DEF FramesInv
<1> DEFINE Q == R \cup {ref}
<1>4. frames \in Seq(FrameOf(Q)) /\ f \in FrameOf(Q)
  <2>1. FrameOf(R) \subseteq FrameOf(Q)
    BY DEF FrameOf
  <2>2. f \in FrameOf(Q)
    BY <1>1
  <2> HIDE DEF Q
  <2> QED BY <1>3, <2>1, <2>2
<1> HIDE DEF Q
<1>5. PICK n \in Nat : n = Len(frames)
  BY <1>3
<1>6. /\ frames' \in Seq(FrameOf(Q)) /\ Len(frames') = n + 1 /\ frames'[n + 1] = f
      /\ \A i \in 1..n : frames'[i] = frames[i]
  BY <1>2, <1>4, <1>5
<1>7. Here = Under(n) /\ Here.dim \in Nat \ {0}
  BY <1>5, PlaceNow
<1>8. \A i \in 0..n : Under(i)' = Under(i)
  BY <1>5, <1>6 DEF Under
<1>9. \A i \in 1..n : RowInv(i)'
  <2> SUFFICES ASSUME NEW i \in 1..n PROVE RowInv(i)'
    OBVIOUS
  <2>1. RowInv(i) /\ frames'[i] = frames[i] /\ Under(i - 1)' = Under(i - 1)
    BY <1>5, <1>6, <1>8 DEF FramesInv
  <2> QED BY <1>2, <2>1 DEF RowInv, IsMember, Structs, Places, Elem
<1>10. RowInv(n + 1)'
  <2>1. Under(n + 1 - 1)' = Under(n)
    BY <1>8
  <2>2. IsMember(ref)' = IsMember(ref) /\ Elem(ref.s, ref.k)' = Elem(ref.s, ref.k)
    BY <1>2 DEF IsMember, Structs, Places, Elem
  <2>3. frames'[n + 1].kind = kind /\ frames'[n + 1].ref = ref /\ frames'[n + 1].dim = dim
    BY <1>1, <1>6
  <2>4. /\ IsMember(frames[n + 1].ref)' = IsMember(ref)
        /\ Elem(frames[n + 1].ref.s, frames[n + 1].ref.k)' = Elem(ref.s, ref.k)
    BY <2>2, <2>3 DEF IsMember, Structs, Places, Elem
  <2>5. kind = "row" => dim # 0 /\ ref = Under(n + 1 - 1)'.ref /\ dim = Under(n + 1 - 1)'.dim
    BY <1>7, <2>1
  <2> QED BY <2>3, <2>4, <2>5 DEF RowInv
<1>11. \A i \in 1..Len(frames') : RowInv(i)'
  <2>1. \A i \in 1..n+1 : i \in 1..n \/ i = n + 1
    OBVIOUS
  <2> QED BY <1>6, <1>9, <1>10, <2>1
<1>12. open = 0
  BY DEF FramesInv
<1> QED BY <1>2, <1>6, <1>11, <1>12 DEF FramesInv

\* A symbol that is a member is an element of its table.
LEMMA SymProp ==
  ASSUME StateInv, NEW ref, IsMember(ref)
  PROVE  ref # Object /\ Sym(ref) = Elem(ref.s, ref.k) /\ Elem(ref.s, ref.k) \in Elems
<1>1. Object.s = 0
  BY DEF Object
<1>2. ref.s \in Structs /\ ref.k \in Places(ref.s)
  BY DEF IsMember
<1>3. ref.s # 0
  BY <1>2, TablesProp DEF Structs
<1> QED BY <1>1, <1>2, <1>3, TablesProp DEF Sym, Elem

\* The braces of an array and of a structure.
LEMMA OpenRowStep == ASSUME LayoutInv, OpenRow PROVE LayoutInv'
<1>1. /\ mode # "none" /\ AtRow /\ Looks /\ Push("row", Here.ref, Here.dim)
  BY ScanLooks DEF OpenRow, Wanted
<1>2. open = 0 /\ FramesInv
  BY <1>1, Declaring
<1>3. IsMember(Here.ref) => Here.dim <= Len(Elem(Here.ref.s, Here.ref.k).dims)
  BY <1>1, SymProp DEF LayoutInv, AtRow, HereSym
<1>4. FramesInv'
  <2>1. PICK ref, dim : ref = Here.ref /\ dim = Here.dim
    OBVIOUS
  <2>2. dim \in Nat
    BY <1>2, <2>1, PlaceNow
  <2> QED BY <1>1, <1>2, <1>3, <2>1, <2>2, PushFrames
<1>5. UNCHANGED <<profile, pass, open, c32_st_root, err>>
  BY <1>1 DEF Push, Declared
<1> QED BY <1>1, <1>2, <1>4, <1>5, GoesOnSame

\* The brace of a structure.
LEMMA OpenStructStep == ASSUME LayoutInv, OpenStruct PROVE LayoutInv'
<1>1. PICK ref : mode # "none" /\ Looks /\ Push("struct", ref, 0)
  BY ScanLooks DEF OpenStruct, Wanted
<1>2. open = 0 /\ FramesInv
  BY <1>1, Declaring
<1>3. FramesInv'
  BY <1>1, <1>2, PushFrames
<1>4. UNCHANGED <<profile, pass, open, c32_st_root, err>>
  BY <1>1 DEF Push, Declared
<1> QED BY <1>1, <1>2, <1>3, <1>4, GoesOnSame

\* The loop goes round: only the number of elements of the innermost braces changes.
LEMMA NextFrames ==
  ASSUME FramesInv, frames # <<>>, frames' = [frames EXCEPT ![Len(frames)].i = @ + 1],
         mode' \notin {"none", "end"}, UNCHANGED <<open, c32_st_root>>
  PROVE  FramesInv'
<1>1. PICK R : frames \in Seq(FrameOf(R))
  BY DEF FramesInv
<1>2. PICK n \in Nat \ {0} : n = Len(frames) /\ n \in 1..Len(frames)
  BY <1>1
<1>3. frames[n] \in FrameOf(R)
  BY <1>1, <1>2
<1> DEFINE f == [frames[n] EXCEPT !.i = @ + 1]
           fs == [frames EXCEPT ![n] = f]
<1>4. /\ f \in FrameOf(R) /\ f.kind = frames[n].kind /\ f.ref = frames[n].ref
      /\ f.dim = frames[n].dim
  BY <1>3 DEF FrameOf
<1>5. frames' = fs
  BY <1>2
<1> HIDE DEF f
<1>6. fs \in Seq(FrameOf(R)) /\ Len(fs) = n /\ \A j \in 1..n : fs[j] = IF j = n THEN f ELSE frames[j]
  BY <1>1, <1>2, <1>4, ExceptSeq
<1> HIDE DEF fs
<1>7. \A j \in 1..n : /\ frames'[j].kind = frames[j].kind /\ frames'[j].ref = frames[j].ref
                      /\ frames'[j].dim = frames[j].dim
  BY <1>4, <1>5, <1>6
<1>8. \A j \in 0..n-1 : Under(j)' = Under(j)
  <2> SUFFICES ASSUME NEW j \in 0..n-1 PROVE Under(j)' = Under(j)
    OBVIOUS
  <2>1. j # 0 => frames'[j] = frames[j]
    BY <1>2, <1>5, <1>6
  <2> QED BY <2>1 DEF Under
<1>9. \A j \in 1..n : RowInv(j)'
  <2> SUFFICES ASSUME NEW j \in 1..n PROVE RowInv(j)'
    OBVIOUS
  <2>1. RowInv(j) /\ Under(j - 1)' = Under(j - 1)
    BY <1>2, <1>8 DEF FramesInv
  <2> QED BY <1>7, <2>1 DEF RowInv, IsMember, Structs, Places, Elem
<1>10. frames # <<>> /\ mode # "none" /\ open = 0 /\ Len(frames') = n
  BY <1>5, <1>6 DEF FramesInv
<1> QED BY <1>5, <1>6, <1>9, <1>10 DEF FramesInv

\* The loop of array_init_sub or struct_init goes round, or stops at its end.
LEMMA NextElementStep ==
  ASSUME LayoutInv, frames # <<>>, Looks, NEW m \in {"value", "more"}, NextElement(m)
  PROVE  LayoutInv'
<1>1. open = 0 /\ FramesInv
  BY DEF LayoutInv, FramesInv
<1>2. ASSUME Refuse("overflow") PROVE LayoutInv'
  BY <1>1, <1>2, RefuseStep
<1>3. ASSUME frames' = [frames EXCEPT ![Len(frames)].i = @ + 1], mode' = m, Declared,
             UNCHANGED c32_st_root
      PROVE  LayoutInv'
  <2>1. UNCHANGED <<profile, pass, open, c32_st_root, err>>
    BY <1>3 DEF Declared
  <2>2. FramesInv'
    BY <1>1, <1>3, <2>1, NextFrames
  <2> QED BY <1>1, <2>1, <2>2, GoesOnSame
<1> QED BY <1>2, <1>3 DEF NextElement

\* A comma, and what stands there instead.
LEMMA CommaStep == ASSUME LayoutInv, Comma \/ NoBrace \/ Swallow \/ Misplaced PROVE LayoutInv'
<1>1. CASE Comma
  <2>1. frames # <<>> /\ Looks /\ mode' = "comma" /\ UNCHANGED <<profile, pass, open, c32_st_root, frames, err>>
    BY <1>1, ScanLooks DEF Comma, After, Declared
  <2>2. FramesInv' /\ open = 0
    BY <2>1 DEF LayoutInv, FramesInv, RowInv, Under, IsMember, Structs, Places, Elem
  <2> QED BY <2>1, <2>2, GoesOnSame
<1>2. CASE NoBrace
  <2>1. frames # <<>> /\ Looks /\ NextElement("more")
    BY <1>2 DEF NoBrace, After, Looks
  <2> QED BY <2>1, NextElementStep
<1>3. CASE Swallow
  <2>1. frames # <<>> /\ Looks /\ (NextElement("value") \/ Refuse("syntax"))
    BY <1>3, ScanLooks DEF Swallow, After
  <2>2. open = 0
    BY <2>1 DEF LayoutInv, FramesInv
  <2> QED BY <2>1, <2>2, NextElementStep, RefuseStep
<1>4. CASE Misplaced
  <2>1. PICK e : mode # "none" /\ Looks /\ e # "none" /\ Refuse(e)
    BY <1>4, ScanLooks DEF Misplaced, Wanted
  <2>2. open = 0
    BY <2>1 DEF LayoutInv, FramesInv
  <2> QED BY <2>1, <2>2, RefuseStep
<1> QED BY <1>1, <1>2, <1>3, <1>4

------------------------------------------------------------------------------
\* An element is complete

\* The braces fs are the n outermost.
Outermost(fs, n) ==
  /\ n \in 0..Len(frames)
  /\ DOMAIN fs = 1..n /\ Len(fs) = n /\ (n = 0 <=> fs = <<>>)
  /\ \A i \in 1..n : fs[i] = frames[i]
  /\ \A R : frames \in Seq(FrameOf(R)) => fs \in Seq(FrameOf(R))

\* They stay when the members keep the numbers of their dimensions.
LEMMA CompleteFrames ==
  ASSUME FramesInv, NEW fs, NEW n, Outermost(fs, n), frames' = fs, open' = 0,
         mode' = IF fs = <<>> THEN "end" ELSE "after",
         \A s \in Structs' : \A k \in Places(s)' :
           /\ s \in Structs /\ k \in Places(s)
           /\ Len(c32_st_root'[s].elem[k].dims) = Len(c32_st_root[s].elem[k].dims)
  PROVE  FramesInv'
<1>1. PICK R : frames \in Seq(FrameOf(R))
  BY DEF FramesInv
<1>2. frames' \in Seq(FrameOf(R)) /\ Len(frames') = n /\ n \in 0..Len(frames) /\ Len(frames) \in Nat
  BY <1>1 DEF Outermost
<1>3. \A i \in 1..n : frames'[i] = frames[i]
  BY DEF Outermost
<1>4. \A i \in 0..n : Under(i)' = Under(i)
  BY <1>2, <1>3 DEF Under
<1>5. \A i \in 1..n : RowInv(i)'
  <2> SUFFICES ASSUME NEW i \in 1..n PROVE RowInv(i)'
    OBVIOUS
  <2>1. RowInv(i) /\ frames'[i] = frames[i] /\ Under(i - 1)' = Under(i - 1)
    BY <1>2, <1>3, <1>4 DEF FramesInv
  <2>2. IsMember(frames[i].ref)' =>
          /\ IsMember(frames[i].ref)
          /\ Len(Elem(frames[i].ref.s, frames[i].ref.k).dims)'
               = Len(Elem(frames[i].ref.s, frames[i].ref.k).dims)
    BY <2>1 DEF IsMember, Elem
  <2> QED BY <2>1, <2>2 DEF RowInv
<1>6. frames' = <<>> <=> n = 0
  BY DEF Outermost
<1> QED BY <1>2, <1>5 DEF FramesInv

\* The tables with another symbol for a member.
Put(s, k, sym) == [c32_st_root EXCEPT ![s].elem[k] = sym]
\* They are as before where there is no such member.
LEMMA NoMember ==
  ASSUME StateInv, NEW s, NEW k, NEW sym, ~(s \in Structs /\ k \in Places(s))
  PROVE  Put(s, k, sym) = c32_st_root
<1>1. c32_st_root \in Seq(Tables) /\ DOMAIN c32_st_root = Structs
  BY TablesProp DEF StateInv
<1>2. CASE s \notin Structs
  <2>1. c32_st_root = [t \in Structs |-> c32_st_root[t]]
    BY <1>1
  <2> QED BY <1>1, <1>2, <2>1 DEF Put
<1>3. CASE s \in Structs
  <2>1. k \notin DOMAIN c32_st_root[s].elem
    BY <1>3, TablesProp
  <2>2. c32_st_root[s] \in Tables /\ c32_st_root[s].elem \in Seq(Elems)
    <3>1. c32_st_root[s] \in Tables
      BY <1>3, TablesProp
    <3> QED BY <3>1 DEF Tables
  <2>3. [c32_st_root[s].elem EXCEPT ![k] = sym] = c32_st_root[s].elem
    BY <2>1, <2>2
  <2>4. [c32_st_root[s] EXCEPT !.elem = c32_st_root[s].elem] = c32_st_root[s]
    BY <2>2 DEF Tables
  <2>5. [c32_st_root EXCEPT ![s] = c32_st_root[s]] = c32_st_root
    BY <1>1
  <2>6. Put(s, k, sym)
          = [c32_st_root EXCEPT ![s] = [c32_st_root[s] EXCEPT !.elem = [c32_st_root[s].elem EXCEPT ![k] = sym]]]
    BY DEF Put
  <2> QED BY <2>3, <2>4, <2>5, <2>6
<1> QED BY <1>2, <1>3

\* An element is complete: its symbol keeps what the text fixes of it.
LEMMA CompleteStep ==
  ASSUME LayoutInv, Looks, mode # "none", NEW fs, NEW n, Outermost(fs, n), NEW dims, NEW items,
         Complete(fs, dims, items),
         LET ref == Place(fs).ref IN
         IsMember(ref) => /\ dims \in Seq(Nat) /\ Len(dims) = Len(Sym(ref).dims)
                          /\ Vague(ref.s, ref.k) \/ dims = Sym(ref).dims
  PROVE  LayoutInv' /\ Steady
<1>0. open = 0 /\ FramesInv /\ StateInv /\ Growing = 0
  BY DEF LayoutInv, FramesInv, Growing
<1>1. PICK p : p = Place(fs)
  OBVIOUS
<1>2. PICK s, k : s = p.ref.s /\ k = p.ref.k
  OBVIOUS
<1>3. /\ frames' = fs /\ mode' = IF fs = <<>> THEN "end" ELSE "after"
      /\ UNCHANGED <<profile, pass, open, err>>
  BY DEF Complete, Declared
<1>4. CASE ~IsMember(p.ref)
  <2>1. c32_st_root' = c32_st_root
    <3>1. CASE p.ref = Object
      <4>1. \E x : c32_st_root' = IF Place(fs).ref = Object THEN c32_st_root ELSE x
        BY ZenonT(30) DEF Complete
      <4> QED BY <1>1, <3>1, <4>1
    <3>2. CASE p.ref # Object
      <4>1. PICK sym : c32_st_root' = Put(s, k, sym)
        BY <1>1, <1>2, <3>2 DEF Complete, Put
      <4>2. ~(s \in Structs /\ k \in Places(s))
        BY <1>2, <1>4 DEF IsMember
      <4> QED BY <1>0, <4>1, <4>2, NoMember
    <3> QED BY <3>1, <3>2
  <2>2. FramesInv'
    <3>1. \A t \in Structs' : \A j \in Places(t)' :
           /\ t \in Structs /\ j \in Places(t)
           /\ Len(c32_st_root'[t].elem[j].dims) = Len(c32_st_root[t].elem[j].dims)
      BY <2>1 DEF Structs, Places
    <3> QED BY <1>0, <1>3, <3>1, CompleteFrames
  <2>3. Steady
    BY <1>3, <2>1, LooksProp, SteadySame
  <2> QED BY <1>0, <1>3, <2>1, <2>2, <2>3, GoesOnSame
<1>5. CASE IsMember(p.ref)
  <2>1. /\ s \in Structs /\ k \in Places(s) /\ p.ref # Object
        /\ Sym(p.ref) = Elem(s, k) /\ Elem(s, k) \in Elems
    BY <1>0, <1>2, <1>5, SymProp DEF IsMember
  <2>2. PICK d \in Seq(Nat) : /\ d = dims /\ Len(d) = Len(Elem(s, k).dims)
                              /\ Vague(s, k) \/ d = Elem(s, k).dims
    BY <1>1, <1>2, <1>5, <2>1
  <2>3. Written(s, k) /\ Elem(s, k).type \in Types /\ Elem(s, k).size \in Int
    BY <2>1 DEF LayoutInv, MembersInv, MemberInv, Elems
  <2>4. PICK z \in Int : z = IF p.dim = 1 THEN Times(Bytes(Elem(s, k).type), d) ELSE Elem(s, k).size
    <3>1. Bytes(Elem(s, k).type) \in Int
      <4>1. Elem(s, k).type.base = "struct" => Known(Elem(s, k).type.tag)
        <5>1. \A t \in 1..s : t \in DOMAIN c32_st_root
          <6>1. Len(c32_st_root) \in Nat /\ DOMAIN c32_st_root = Structs
            BY <1>0, TablesProp
          <6> QED BY <2>1, <6>1 DEF Structs
        <5> QED BY <2>3, <5>1 DEF Written, Known
      <4> QED BY <2>3, <4>1, BytesProp DEF LayoutInv
    <3>2. d \in Seq(Int)
      BY <2>2
    <3> QED BY <2>3, <3>1, <3>2, TimesProp
  <2>5. c32_st_root' = Resized(s, k, d, z)
    BY <1>1, <1>2, <2>1, <2>2, <2>4 DEF Complete, Resized, Elem
  <2>6. Vague(s, k) \/ (d = Elem(s, k).dims /\ z = Elem(s, k).size)
    BY <2>2, <2>3, <2>4 DEF Written
  <2>7. TextGrows /\ next' \in Nat \ {0} /\ profile' = profile /\ pass' = pass /\ open' = open
    BY <1>3, LooksProp
  <2>8. /\ StateInv' /\ NamesInv' /\ TablesInv' /\ MembersInv' /\ Longer
        /\ Structs' = Structs /\ \A t \in Structs : Places(t)' = Places(t)
        /\ \A t \in Structs : \A j \in Places(t) :
             t # s \/ j # k => c32_st_root'[t].elem[j] = c32_st_root[t].elem[j]
        /\ c32_st_root'[s].elem[k].dims = d
    BY <1>0, <2>1, <2>5, <2>6, <2>7, ResizedTables
  <2>9. FramesInv'
    <3>1. \A t \in Structs' : \A j \in Places(t)' :
           /\ t \in Structs /\ j \in Places(t)
           /\ Len(c32_st_root'[t].elem[j].dims) = Len(c32_st_root[t].elem[j].dims)
      BY <2>2, <2>8 DEF Elem
    <3> QED BY <1>0, <1>3, <3>1, CompleteFrames
  <2>10. Steady
    BY <2>8 DEF Steady
  <2> QED BY <1>0, <1>3, <2>8, <2>9, <2>10, GoesOn
<1> QED BY <1>4, <1>5

\* All the braces, and those around the innermost, are outermost ones.
LEMMA OutermostBraces ==
  ASSUME FramesInv
  PROVE  /\ Outermost(frames, Len(frames))
         /\ frames # <<>> => Outermost(Outer, Len(frames) - 1)
<1>1. PICK R : frames \in Seq(FrameOf(R))
  BY DEF FramesInv
<1>2. Outermost(frames, Len(frames))
  BY <1>1 DEF Outermost
<1>3. ASSUME frames # <<>> PROVE Outermost(Outer, Len(frames) - 1)
  <2>1. Len(frames) - 1 \in 0..Len(frames)
    BY <1>3, PlaceOuter
  <2> QED BY <1>3, <2>1, PlaceOuter DEF Outermost
<1> QED BY <1>2, <1>3

\* The element is complete and its dimensions are what they were.
LEMMA CompleteSame ==
  ASSUME LayoutInv, Looks, mode # "none", NEW fs, NEW n, Outermost(fs, n), NEW items,
         Complete(fs, Sym(Place(fs).ref).dims, items)
  PROVE  LayoutInv' /\ Steady
<1>1. PICK ref : ref = Place(fs).ref
  OBVIOUS
<1>2. PICK dims : dims = Sym(ref).dims
  OBVIOUS
<1>3. IsMember(ref) => dims \in Seq(Nat) /\ Len(dims) = Len(Sym(ref).dims) /\ dims = Sym(ref).dims
  <2> SUFFICES ASSUME IsMember(ref) PROVE dims \in Seq(Nat)
    BY <1>2
  <2> QED BY <1>2, SymProp DEF LayoutInv, Elems
<1>4. Complete(fs, dims, items)
  BY <1>1, <1>2
<1> QED BY <1>1, <1>3, <1>4, CompleteStep

\* A number.
LEMMA NumberStep == ASSUME LayoutInv, Number PROVE LayoutInv' /\ Steady
<1>1. PICK items : mode # "none" /\ Looks /\ Complete(frames, Sym(Place(frames).ref).dims, items)
  BY ScanLooks DEF Number, Wanted, HereSym, Here
<1>2. Outermost(frames, Len(frames))
  BY <1>1, Declaring, OutermostBraces
<1> QED BY <1>1, <1>2, CompleteSame

\* The address of a string.
LEMMA StringStep == ASSUME LayoutInv, String PROVE LayoutInv' /\ Steady
<1>1. /\ mode # "none" /\ Looks
      /\ \/ \E e \in {"memory", "syntax"} : Refuse(e)
         \/ \E items : Complete(frames, Sym(Place(frames).ref).dims, items)
  BY ScanLooks DEF String, Wanted, HereSym, Here
<1>2. open = 0 /\ Outermost(frames, Len(frames))
  BY <1>1, Declaring, OutermostBraces
<1>3. ASSUME NEW e \in {"memory", "syntax"}, Refuse(e) PROVE LayoutInv' /\ Steady
  <2>1. UNCHANGED <<profile, pass, open, c32_st_root>>
    BY <1>3 DEF Refuse, Stop
  <2>2. Steady
    BY <1>1, <2>1, LooksProp, SteadySame
  <2> QED BY <1>1, <1>2, <1>3, <2>2, RefuseStep
<1>4. ASSUME NEW items, Complete(frames, Sym(Place(frames).ref).dims, items) PROVE LayoutInv' /\ Steady
  BY <1>1, <1>2, <1>4, CompleteSame
<1> QED BY <1>1, <1>3, <1>4

\* The brace that ends a structure.
LEMMA CloseStructStep == ASSUME LayoutInv, CloseStruct PROVE LayoutInv' /\ Steady
<1>1. PICK items : /\ mode # "none" /\ frames # <<>> /\ Looks
                   /\ Complete(Outer, Sym(Place(Outer).ref).dims, items)
  BY ScanLooks DEF CloseStruct, After
<1>2. Outermost(Outer, Len(frames) - 1)
  BY <1>1, Declaring, OutermostBraces
<1> QED BY <1>1, <1>2, CompleteSame

\* The brace that ends a row: it fixes the dimension if the text left it open.
LEMMA CloseRowStep == ASSUME LayoutInv, CloseRow PROVE LayoutInv' /\ Steady
<1>1. PICK items, dims :
        /\ mode # "none" /\ frames # <<>> /\ Looks /\ InRow
        /\ Complete(Outer, dims, items)
        /\ dims = IF Room = 0 THEN [Sym(Top.ref).dims EXCEPT ![Top.dim] = (Top.i + 1) % USHRT]
                  ELSE Sym(Top.ref).dims
  BY ScanLooks DEF CloseRow, After
<1>2. FramesInv /\ Outermost(Outer, Len(frames) - 1)
  BY <1>1, Declaring, OutermostBraces
<1>3. PICK ref : ref = Place(Outer).ref
  OBVIOUS
<1>4. /\ Len(frames) \in Nat \ {0} /\ Place(Outer) = Under(Len(frames) - 1)
  BY <1>1, <1>2, PlaceOuter
<1>5. /\ ref = Top.ref /\ Top.dim # 0
      /\ IsMember(ref) => Top.dim <= Len(Elem(ref.s, ref.k).dims)
  <2>1. RowInv(Len(frames)) /\ frames[Len(frames)].kind = "row"
    BY <1>1, <1>2, <1>4 DEF FramesInv, InRow, Top
  <2> QED BY <1>3, <1>4, <2>1 DEF RowInv, Top
<1>6. ASSUME IsMember(ref)
      PROVE  /\ dims \in Seq(Nat) /\ Len(dims) = Len(Sym(ref).dims)
             /\ Vague(ref.s, ref.k) \/ dims = Sym(ref).dims
  <2>1. PICK old \in Seq(Nat) : old = Sym(ref).dims /\ old = Elem(ref.s, ref.k).dims
    BY <1>6, SymProp DEF LayoutInv, Elems
  <2>2. PICK d, i : d = Top.dim /\ i = Top.i
    OBVIOUS
  <2>3. d \in 1..Len(old) /\ i \in Nat
    <3>1. PICK R : frames \in Seq(FrameOf(R))
      BY <1>2 DEF FramesInv
    <3>2. Top \in FrameOf(R)
      BY <1>4, <3>1 DEF Top
    <3> QED BY <1>5, <1>6, <2>1, <2>2, <3>2 DEF FrameOf
  <2>4. CASE Room # 0
    BY <1>1, <1>5, <2>1, <2>4
  <2>5. CASE Room = 0
    <3>1. dims = [old EXCEPT ![d] = (i + 1) % USHRT]
      BY <1>1, <1>5, <2>1, <2>2, <2>5
    <3>2. (i + 1) % USHRT \in Nat
      BY <2>3, WidthAssumption
    <3>3. dims \in Seq(Nat) /\ Len(dims) = Len(old)
      BY <2>3, <3>1, <3>2
    <3>4. old[d] = 0
      BY <1>1, <1>5, <2>1, <2>2, <2>5 DEF Room
    <3>5. Vague(ref.s, ref.k)
      <4>1. Written(ref.s, ref.k)
        BY <1>6 DEF LayoutInv, MembersInv, MemberInv, IsMember
      <4>2. CASE old = Dims(Source(ref.s, ref.k).dims)
        <5>1. 0 \in Range(old)
          BY <2>3, <3>4 DEF Range
        <5> QED BY <4>2, <5>1 DEF Vague
      <4> QED BY <2>1, <4>1, <4>2 DEF Written
    <3> QED BY <2>1, <3>3, <3>5
  <2> QED BY <2>4, <2>5
<1> QED BY <1>1, <1>2, <1>3, <1>6, CompleteStep

------------------------------------------------------------------------------
\* The theorem

\* A definition, or the end of a pass.
LEMMA BetweenStep == ASSUME LayoutInv, Between PROVE LayoutInv'
<1>1. mode = "none" /\ StructNext /\ UNCHANGED <<frames, mode>>
  BY DEF Between, initVars
<1>2. ASSUME NEW n \in Names, NEW shape \in profile.shapes, Member(n, shape.type, shape.dims)
      PROVE  LayoutInv'
  <2>1. PICK type, dims : type = shape.type /\ dims = shape.dims
    OBVIOUS
  <2>2. type \in Types /\ dims \in Seq(Nat \cup {Empty}) /\ Member(n, type, dims)
    BY <1>2, <2>1, ProfilesAssumption DEF LayoutInv, StateInv
  <2> QED BY <1>1, <2>2, MemberStep
<1>3. ASSUME NEW t \in Tags, StructName(t) PROVE LayoutInv'
  BY <1>1, <1>3, StructNameStep
<1>4. CASE EndStruct
  BY <1>1, <1>4, EndStructStep
<1>5. CASE EndPass1
  BY <1>1, <1>5, EndPass1Step
<1>6. CASE EndPass3
  BY <1>1, <1>6, EndPass3Step
<1> QED BY <1>1, <1>2, <1>3, <1>4, <1>5, <1>6 DEF StructNext, Definition

\* No step breaks the invariant.
LEMMA LayoutStep == ASSUME LayoutInv, [InitialNext]_vars PROVE LayoutInv'
<1>1. CASE Between
  BY <1>1, BetweenStep
<1>2. ASSUME NEW shape \in profile.vars, NEW init \in BOOLEAN, Declare(shape.type, shape.dims, init)
      PROVE  LayoutInv'
  BY <1>2, DeclareStep
<1>3. CASE OpenRow \/ OpenStruct
  BY <1>3, OpenRowStep, OpenStructStep
<1>4. CASE Number \/ String
  BY <1>4, NumberStep, StringStep
<1>5. CASE Comma \/ NoBrace \/ Swallow \/ Misplaced
  BY <1>5, CommaStep
<1>6. CASE CloseRow \/ CloseStruct
  BY <1>6, CloseRowStep, CloseStructStep
<1>7. CASE EndDeclaration
  BY <1>7, EndDeclarationStep
<1>8. CASE UNCHANGED vars
  <2>1. /\ UNCHANGED <<unit, next>> /\ UNCHANGED <<profile, pass, c32_st_root, open, err>>
        /\ UNCHANGED <<frames, mode>>
    BY <1>8 DEF vars, structVars, initVars
  <2>2. /\ UnitInv' /\ TextGrows /\ next' \in Nat \ {0}
        /\ Kept /\ Longer => Kept'
    BY <2>1, LooksProp DEF Looks
  <2>3. StateInv' /\ NamesInv' /\ TablesInv' /\ MembersInv' /\ Longer
    <3>1. /\ pass' \in {"PASS1", "PASS3", "DONE"} /\ open' \in 0..Len(c32_st_root)
          /\ Growing' = Growing /\ profile' = profile
      BY <2>1 DEF LayoutInv, StateInv, Growing
    <3> QED BY <2>1, <2>2, <3>1, SameTables
  <2>4. Kept => Kept'
    BY <2>2, <2>3
  <2>5. OpenInv => OpenInv'
    BY <2>1 DEF OpenInv, Inside, Count
  <2>6. FramesInv'
    BY <2>1, SameFrames DEF LayoutInv
  <2> QED BY <2>1, <2>2, <2>3, <2>4, <2>5, <2>6 DEF LayoutInv
<1> QED BY <1>1, <1>2, <1>3, <1>4, <1>5, <1>6, <1>7, <1>8 DEF InitialNext, Initialiser

\* At first there is no text.
LEMMA LayoutFirst == InitialInit => LayoutInv
<1> SUFFICES ASSUME InitialInit PROVE LayoutInv
  OBVIOUS
<1>1. /\ profile \in Profiles /\ pass = "PASS1" /\ c32_st_root = <<>> /\ open = 0
      /\ unit = <<>> /\ next = 1 /\ frames = <<>> /\ mode = "none"
  BY DEF InitialInit, StructInit
<1>2. unit \in Seq({}) /\ 1..Len(unit) = {} /\ c32_st_root \in Seq(Tables) /\ Structs = {}
  BY <1>1 DEF Structs
<1>3. UnitInv
  BY <1>2 DEF UnitInv
<1>4. StateInv
  BY <1>1, <1>2 DEF StateInv, Growing
<1>5. NamesInv /\ TablesInv /\ MembersInv
  BY <1>2 DEF NamesInv, TablesInv, MembersInv
<1>6. Kept /\ OpenInv
  BY <1>1, <1>2 DEF Kept, OpenInv
<1>7. FramesInv
  <2>1. frames \in Seq(FrameOf({})) /\ 1..Len(frames) = {}
    BY <1>1
  <2> QED BY <1>1, <2>1 DEF FramesInv
<1> QED BY <1>3, <1>4, <1>5, <1>6, <1>7 DEF LayoutInv

\* What the invariant says of the members up to one that is not measured.
LEMMA LayoutApart == LayoutInv => MembersApart
<1> SUFFICES ASSUME LayoutInv PROVE MembersApart
  OBVIOUS
<1> SUFFICES ASSUME NEW s \in Structs, NEW k \in Places(s), Measured(s, k)
             PROVE  /\ Elem(s, k).size = Times(Bytes(Elem(s, k).type), Elem(s, k).dims)
                    /\ Elem(s, k).value % Alignment(Elem(s, k).type) = 0
                    /\ \A l \in 1..k-1 : Elem(s, l).value + Elem(s, l).size <= Elem(s, k).value
                    /\ k = Len(c32_st_root[s].elem) =>
                         Elem(s, k).value + Elem(s, k).size <= c32_st_root[s].size
                    /\ s # open => c32_st_root[s].size % 4 = 0
  <2>1. \A t \in DOMAIN c32_st_root : t \in Structs /\ DOMAIN c32_st_root[t].elem = Places(t)
    BY TablesProp DEF LayoutInv, StateInv
  <2> QED BY <2>1 DEF MembersApart, Alignment, Elem
<1>1. MemberInv(s, k) /\ TableInv(s)
  BY DEF LayoutInv, MembersInv, TablesInv
<1>2. Len(c32_st_root[s].elem) \in Nat /\ k \in 1..Len(c32_st_root[s].elem) /\ k \in 1..k
  BY TablesProp DEF LayoutInv, StateInv, Places
<1>3. ~Vague(s, k)
  BY <1>2 DEF Measured, Vague, Source, Elem
<1>4. s # open => s # Growing
  <2>1. s # 0
    BY TablesProp DEF LayoutInv, StateInv, Structs
  <2> QED BY <2>1 DEF Growing
<1>5. k = Len(c32_st_root[s].elem) => Elem(s, k).value + Elem(s, k).size <= c32_st_root[s].size
  BY <1>1, <1>2 DEF TableInv
<1> QED BY <1>1, <1>3, <1>4, <1>5 DEF MemberInv, Written, Behind, TableInv

\* Whatever a text defines: the members of a structure lie apart, in the order of their
\* definition, each has all the bytes its type takes and lies aligned, and all end inside
\* the structure, whose size is a multiple of 4 (st_def, st_define, c32_parser_array).
\* The second reading of the text, which sets the dimensions anew, and the initialisers,
\* which write to the symbols of the members, change nothing of it.
THEOREM MembersLieApart == InitialSpec => []MembersApart
<1>1. InitialInit => LayoutInv
  BY LayoutFirst
<1>2. LayoutInv /\ [InitialNext]_vars => LayoutInv'
  BY LayoutStep
<1>3. LayoutInv => MembersApart
  BY LayoutApart
<1> QED BY <1>1, <1>2, <1>3, PTL DEF InitialSpec
==============================================================================
