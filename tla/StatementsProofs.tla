---------------------------- MODULE StatementsProofs ----------------------------
(***************************************************************************)
(* Proofs about Statements, for programs of every size and nesting: every  *)
(* label is printed once, every jump lands, and nothing is refused that    *)
(* could be left or gone on with.                                          *)
(***************************************************************************)
EXTENDS Statements, NatExtremes, SequenceTheorems

------------------------------------------------------------------------------
\* The labels a piece of code prints and the labels it jumps to.

JumpOps == {"jmp", "jz", "jnz", "cmp"}
DefsOf(s) == {s[i].label : i \in {j \in DOMAIN s : s[j].op = "def"}}
JumpsOf(s) ==
  {s[i].label : i \in {j \in DOMAIN s : s[j].op \in JumpOps /\ s[j].label.kind # "user"}}
Once(s) ==
  \A i, j \in DOMAIN s :
    /\ s[i].op = "def" /\ s[j].op = "def" /\ s[i].label = s[j].label
    /\ s[i].label.kind # "user"
    => i = j
Plains(first, last) == {Plain(m) : m \in first..last}

------------------------------------------------------------------------------
\* The invariant, of the open statements fs, the labels P printed and J jumped
\* to so far, the label counter lc and the number nn of nodes.

\* The labels a statement prints at its end, and the number its last case leaves.
Owes(f) ==
  CASE f.kind = "if" /\ f.part = "body" -> {Plain(f.labels.false), Plain(f.labels.end)}
    [] f.kind = "if" /\ f.part = "else" -> {Plain(f.labels.end)}
    [] f.kind \in {"while", "for", "switch"} -> {Plain(f.numb.break)}
    [] f.kind = "do" -> {Plain(f.numb.continue)}
    [] OTHER -> {}
OwedBy(fs) == UNION {Owes(fs[i]) : i \in DOMAIN fs}
End(f) == CaseLabel(f.numb.switch, f.numb.serial)
EndsOf(fs) == {End(fs[i]) : i \in {j \in DOMAIN fs : fs[j].kind = "switch"}}

Known(l, lc, nn) ==
  /\ l.kind \in {"L", "case", "default"} => l.numb < lc
  /\ l.kind = "func" => l.numb <= nn

\* A frame by itself.
FrameOK(f, P, lc) ==
  /\ f.kind = "if" => f.labels.false # f.labels.end
  /\ f.kind = "function" => f.numb.break < 0 /\ f.numb.continue < 0 /\ f.numb.switch < 0
  /\ f.kind = "do" => Plain(f.labels.top) \in P
  /\ f.kind \in {"while", "for"} => Plain(f.numb.continue) \in P
  /\ f.kind = "switch" =>
       /\ 0 <= f.numb.switch /\ f.numb.switch < lc
       /\ \A l \in P : l.kind = "case" /\ l.numb = f.numb.switch => l.serial < f.numb.serial
       /\ f.numb.default => DefaultLabel(f.numb.switch) \in P
  /\ \A l \in Owes(f) : l.numb < lc /\ l \notin P

\* Two frames.
Apart(f, g) ==
  /\ Owes(f) \cap Owes(g) = {}
  /\ f.kind = "switch" /\ g.kind = "switch" => f.numb.switch # g.numb.switch

\* The jumps to J find their labels in P, unless a break left a do.
Landing(J, P) == "break_in_do" \notin Dialect => J \subseteq P

LInv(fs, P, J, lc, nn) ==
  /\ \A l \in P : Known(l, lc, nn)
  /\ \A i \in DOMAIN fs : FrameOK(fs[i], P, lc)
  /\ \A i, j \in DOMAIN fs : i # j => Apart(fs[i], fs[j])
  /\ \A i \in DOMAIN fs :
       fs[i].kind # "if" /\ fs[i].numb.continue >= 0 =>
         Plain(fs[i].numb.continue) \in P \cup OwedBy(fs)
  /\ Landing(J, P \cup OwedBy(fs) \cup EndsOf(fs))

IInv ==
  /\ TypeOK
  /\ Once(code)
  /\ LInv(frames, DefsOf(code), JumpsOf(code), label_counter, Len(nodes))

------------------------------------------------------------------------------
\* Code, piece by piece.

\* Code laid behind other code prints and jumps to the labels of both.
LEMMA ConcatCode ==
  ASSUME NEW s \in Seq(Items), NEW t \in Seq(Items)
  PROVE  /\ s \o t \in Seq(Items)
         /\ DefsOf(s \o t) = DefsOf(s) \cup DefsOf(t)
         /\ JumpsOf(s \o t) = JumpsOf(s) \cup JumpsOf(t)
<1>1. /\ s \o t \in Seq(Items) /\ Len(s \o t) = Len(s) + Len(t)
      /\ \A i \in 1..Len(s) : (s \o t)[i] = s[i]
      /\ \A j \in 1..Len(t) : (s \o t)[Len(s) + j] = t[j]
  <2>1. \A i \in 1..Len(s)+Len(t) :
          (s \o t)[i] = IF i <= Len(s) THEN s[i] ELSE t[i - Len(s)]
    BY ConcatProperties
  <2> QED BY <2>1, ConcatProperties, LenProperties
<1>2. /\ DOMAIN s = 1..Len(s) /\ DOMAIN t = 1..Len(t)
      /\ DOMAIN (s \o t) = 1..Len(s) + Len(t)
      /\ Len(s) \in Nat /\ Len(t) \in Nat
  BY <1>1, LenProperties
<1> DEFINE u == s \o t
<1>3. \A k \in DOMAIN u :
        \/ k \in DOMAIN s /\ u[k] = s[k]
        \/ \E j \in DOMAIN t : u[k] = t[j]
  <2> SUFFICES ASSUME NEW k \in 1..Len(s) + Len(t), k \notin 1..Len(s)
               PROVE  k - Len(s) \in 1..Len(t) /\ Len(s) + (k - Len(s)) = k
    BY <1>1, <1>2
  <2> QED BY <1>2
<1>4. \A k \in DOMAIN s : k \in DOMAIN u /\ u[k] = s[k]
  BY <1>1, <1>2
<1>5. \A j \in DOMAIN t : Len(s) + j \in DOMAIN u /\ u[Len(s) + j] = t[j]
  BY <1>1, <1>2
<1> HIDE DEF u
<1>6. DefsOf(u) = DefsOf(s) \cup DefsOf(t)
  BY <1>3, <1>4, <1>5 DEF DefsOf
<1>7. JumpsOf(u) = JumpsOf(s) \cup JumpsOf(t)
  BY <1>3, <1>4, <1>5 DEF JumpsOf
<1> QED BY <1>1, <1>6, <1>7 DEF u

\* No label is printed twice if none is in either piece, or in both.
LEMMA ConcatOnce ==
  ASSUME NEW s \in Seq(Items), NEW t \in Seq(Items), Once(s), Once(t),
         \A l \in DefsOf(s) \cap DefsOf(t) : l.kind = "user"
  PROVE  Once(s \o t)
<1> DEFINE u == s \o t
<1>1. /\ Len(s) \in Nat /\ Len(t) \in Nat /\ DOMAIN s = 1..Len(s) /\ DOMAIN t = 1..Len(t)
      /\ DOMAIN u = 1..Len(s) + Len(t)
      /\ \A i \in 1..Len(s)+Len(t) : u[i] = IF i <= Len(s) THEN s[i] ELSE t[i - Len(s)]
  BY ConcatProperties, LenProperties
<1>2. \A k \in DOMAIN u :
        \/ k \in DOMAIN s /\ u[k] = s[k]
        \/ k - Len(s) \in DOMAIN t /\ u[k] = t[k - Len(s)]
  <2> SUFFICES ASSUME NEW k \in 1..Len(s) + Len(t)
               PROVE  \/ k \in 1..Len(s) /\ k <= Len(s)
                      \/ k - Len(s) \in 1..Len(t) /\ ~(k <= Len(s))
    BY <1>1
  <2> QED BY <1>1
<1> HIDE DEF u
<1>3. SUFFICES ASSUME NEW i \in DOMAIN u, NEW j \in DOMAIN u,
                      u[i].op = "def", u[j].op = "def", u[i].label = u[j].label,
                      u[i].label.kind # "user"
               PROVE  i = j
  BY DEF Once, u
<1>4. CASE i \in DOMAIN s /\ u[i] = s[i] /\ j \in DOMAIN s /\ u[j] = s[j]
  BY <1>3, <1>4 DEF Once
<1>5. CASE /\ i - Len(s) \in DOMAIN t /\ u[i] = t[i - Len(s)]
           /\ j - Len(s) \in DOMAIN t /\ u[j] = t[j - Len(s)]
  <2>1. i - Len(s) = j - Len(s)
    BY <1>3, <1>5 DEF Once
  <2> QED BY <2>1, <1>1
<1>6. CASE i \in DOMAIN s /\ u[i] = s[i] /\ j - Len(s) \in DOMAIN t /\ u[j] = t[j - Len(s)]
  <2>1. s[i].label \in DefsOf(s)
    BY <1>3, <1>6 DEF DefsOf
  <2>2. t[j - Len(s)].label \in DefsOf(t)
    BY <1>3, <1>6 DEF DefsOf
  <2> QED BY <2>1, <2>2, <1>3, <1>6
<1>7. CASE j \in DOMAIN s /\ u[j] = s[j] /\ i - Len(s) \in DOMAIN t /\ u[i] = t[i - Len(s)]
  <2>1. s[j].label \in DefsOf(s)
    BY <1>3, <1>7 DEF DefsOf
  <2>2. t[i - Len(s)].label \in DefsOf(t)
    BY <1>3, <1>7 DEF DefsOf
  <2> QED BY <2>1, <2>2, <1>3, <1>7
<1> QED BY <1>2, <1>4, <1>5, <1>6, <1>7

\* One item of code.
LEMMA OneItem ==
  ASSUME NEW x \in Items
  PROVE  /\ <<x>> \in Seq(Items) /\ Once(<<x>>)
         /\ DefsOf(<<x>>) = IF x.op = "def" THEN {x.label} ELSE {}
         /\ JumpsOf(<<x>>) =
              IF x.op \in JumpOps /\ x.label.kind # "user" THEN {x.label} ELSE {}
<1>1. <<x>> \in Seq(Items) /\ DOMAIN <<x>> = {1} /\ <<x>>[1] = x
  OBVIOUS
<1> DEFINE s == <<x>>
<1> HIDE DEF s
<1>2. s \in Seq(Items) /\ DOMAIN s = {1} /\ s[1] = x
  BY <1>1 DEF s
<1>3. Once(s)
  BY <1>2 DEF Once
<1>4. DefsOf(s) = IF x.op = "def" THEN {x.label} ELSE {}
  BY <1>2 DEF DefsOf
<1>5. JumpsOf(s) = IF x.op \in JumpOps /\ x.label.kind # "user" THEN {x.label} ELSE {}
  BY <1>2 DEF JumpsOf
<1> QED BY <1>2, <1>3, <1>4, <1>5 DEF s

\* The parts of a statement that are expressions.
Parts == {"x", "test", "a", "b", "c"}

\* The labels are labels, and two with the same name are the same label.
LEMMA LabelProp ==
  /\ \A n \in Int : Plain(n) \in Labels /\ Plain(n).kind = "L" /\ Plain(n).numb = n
  /\ \A n, s \in Int : /\ CaseLabel(n, s) \in Labels /\ CaseLabel(n, s).kind = "case"
                       /\ CaseLabel(n, s).numb = n /\ CaseLabel(n, s).serial = s
  /\ \A n \in Int : DefaultLabel(n) \in Labels /\ DefaultLabel(n).kind = "default"
                      /\ DefaultLabel(n).numb = n
  /\ \A n, u \in Int : UserLabel(n, u) \in Labels /\ UserLabel(n, u).kind = "user"
  /\ \A n \in Int : FuncLabel(n) \in Labels /\ FuncLabel(n).kind = "func"
                      /\ FuncLabel(n).numb = n
  /\ NoLabel \in Labels
BY DEF Plain, CaseLabel, DefaultLabel, UserLabel, FuncLabel, NoLabel, Labels

\* The items are items.
LEMMA ItemProp ==
  ASSUME NEW l \in Labels, NEW v \in Nat, NEW n \in Nat,
         NEW part \in Parts
  PROVE  /\ Def(l) \in Items /\ Def(l).op = "def" /\ Def(l).label = l
         /\ Jmp(l) \in Items /\ Jmp(l).op = "jmp" /\ Jmp(l).label = l
         /\ Jz(l) \in Items /\ Jz(l).op = "jz" /\ Jz(l).label = l
         /\ Jnz(l) \in Items /\ Jnz(l).op = "jnz" /\ Jnz(l).label = l
         /\ CmpJnz(v, l) \in Items /\ CmpJnz(v, l).op = "cmp" /\ CmpJnz(v, l).label = l
         /\ Ret \in Items /\ Ret.op = "ret"
         /\ Obs(n, part) \in Items /\ Obs(n, part).op = "obs"
<1> DEFINE At == Nat \X {"", "x", "test", "a", "b", "c"}
<1>1. <<0, "">> \in At /\ <<n, part>> \in At
  BY DEF Parts
<1> HIDE DEF At
<1>2. Items = [op : {"def", "jmp", "jz", "jnz", "cmp", "ret", "obs"}, label : Labels,
               arg : Nat, at : At]
  BY DEF Items, At
<1> DEFINE Ops == {"def", "jmp", "jz", "jnz", "cmp", "ret", "obs"}
<1>3. \A op \in Ops, k \in Labels, a \in Nat, x \in At :
        /\ Item(op, k, a, x) \in Items
        /\ Item(op, k, a, x).op = op /\ Item(op, k, a, x).label = k
  BY <1>2 DEF Item
<1>4. NoLabel \in Labels /\ 0 \in Nat
  BY LabelProp
<1>5. \A op \in Ops, a \in Nat :
        /\ Item(op, l, a, <<0, "">>) \in Items
        /\ Item(op, l, a, <<0, "">>).op = op
        /\ Item(op, l, a, <<0, "">>).label = l
  BY <1>1, <1>2 DEF Item
<1>6. Def(l) \in Items /\ Def(l).op = "def" /\ Def(l).label = l
  BY <1>4, <1>5 DEF Def
<1>7. Jmp(l) \in Items /\ Jmp(l).op = "jmp" /\ Jmp(l).label = l
  BY <1>4, <1>5 DEF Jmp
<1>8. Jz(l) \in Items /\ Jz(l).op = "jz" /\ Jz(l).label = l
  BY <1>4, <1>5 DEF Jz
<1>9. Jnz(l) \in Items /\ Jnz(l).op = "jnz" /\ Jnz(l).label = l
  BY <1>4, <1>5 DEF Jnz
<1>10. CmpJnz(v, l) \in Items /\ CmpJnz(v, l).op = "cmp" /\ CmpJnz(v, l).label = l
  BY <1>4, <1>5 DEF CmpJnz
<1>11. ASSUME NEW op \in Ops, NEW x \in At
       PROVE  Item(op, NoLabel, 0, x) \in Items /\ Item(op, NoLabel, 0, x).op = op
  <2> HIDE DEF Ops
  <2> QED BY <1>3, <1>4, <1>11
<1>12. Ret \in Items /\ Ret.op = "ret"
  BY <1>1, <1>11 DEF Ret
<1>13. Obs(n, part) \in Items /\ Obs(n, part).op = "obs"
  BY <1>1, <1>11 DEF Obs
<1> QED BY <1>6, <1>7, <1>8, <1>9, <1>10, <1>12, <1>13

\* No code.
LEMMA NoCode ==
  /\ <<>> \in Seq(Items) /\ Once(<<>>) /\ DefsOf(<<>>) = {} /\ JumpsOf(<<>>) = {}
BY DEF Once, DefsOf, JumpsOf

\* The code of an expression prints its k labels and jumps nowhere.
LEMMA ExprProp ==
  ASSUME NEW n \in Nat, NEW part \in Parts,
         NEW first \in Nat, NEW k \in Nat
  PROVE  /\ ExprCode(n, part, first, k) \in Seq(Items)
         /\ Once(ExprCode(n, part, first, k))
         /\ DefsOf(ExprCode(n, part, first, k)) = Plains(first, first + k - 1)
         /\ JumpsOf(ExprCode(n, part, first, k)) = {}
<1> DEFINE o == Obs(n, part)
           t == [i \in 1..k |-> Def(Plain(first + i - 1))]
<1>1. o \in Items /\ o.op = "obs"
  BY ItemProp, LabelProp
<1>2. \A i \in 1..k : /\ Def(Plain(first + i - 1)) \in Items
                      /\ Def(Plain(first + i - 1)).op = "def"
                      /\ Def(Plain(first + i - 1)).label = Plain(first + i - 1)
  <2>1. \A i \in 1..k : first + i - 1 \in Int
    OBVIOUS
  <2>2. 0 \in Nat
    OBVIOUS
  <2> QED BY <2>1, <2>2, ItemProp, LabelProp
<1>3. t \in Seq(Items) /\ DOMAIN t = 1..k
  <2>1. t \in [1..k -> Items]
    BY <1>2
  <2> HIDE DEF t
  <2> QED BY <2>1, IsASeq, SeqDef
<1>4. \A i \in DOMAIN t : t[i].op = "def" /\ t[i].label = Plain(first + i - 1)
  BY <1>2
<1>5. \A a, b \in Int : Plain(a) = Plain(b) => a = b
  BY DEF Plain
<1> HIDE DEF t
<1>6. Once(t)
  BY <1>3, <1>4, <1>5 DEF Once
<1>7. DefsOf(t) = Plains(first, first + k - 1)
  <2>1. DefsOf(t) = {Plain(first + i - 1) : i \in 1..k}
    BY <1>3, <1>4 DEF DefsOf
  <2>2. ASSUME NEW m \in first..first + k - 1
        PROVE  \E i \in 1..k : m = first + i - 1
    <3>1. m - first + 1 \in 1..k /\ m = first + (m - first + 1) - 1
      OBVIOUS
    <3> QED BY <3>1
  <2>3. \A i \in 1..k : first + i - 1 \in first..first + k - 1
    OBVIOUS
  <2> QED BY <2>1, <2>2, <2>3 DEF Plains
<1>8. JumpsOf(t) = {}
  BY <1>4 DEF JumpsOf, JumpOps
<1>9. <<o>> \in Seq(Items) /\ Once(<<o>>) /\ DefsOf(<<o>>) = {} /\ JumpsOf(<<o>>) = {}
  BY <1>1, OneItem DEF JumpOps
<1>10. ExprCode(n, part, first, k) = <<o>> \o t
  BY DEF ExprCode, t
<1> HIDE DEF o
<1>11. Once(<<o>> \o t)
  BY <1>3, <1>6, <1>9, ConcatOnce
<1>12. /\ <<o>> \o t \in Seq(Items)
       /\ DefsOf(<<o>> \o t) = DefsOf(<<o>>) \cup DefsOf(t)
       /\ JumpsOf(<<o>> \o t) = JumpsOf(<<o>>) \cup JumpsOf(t)
  BY <1>3, <1>9, ConcatCode
<1> QED BY <1>7, <1>8, <1>9, <1>10, <1>11, <1>12

------------------------------------------------------------------------------
\* The frames, one and two at a time.

\* A label that may be printed while f is the innermost statement.
Fresh(l, lc, md, nn, mm) ==
  \/ l.kind = "user"
  \/ l.kind = "L" /\ l.numb \in lc..md-1
  \/ l.kind = "default" /\ l.numb < md
  \/ l.kind = "func" /\ l.numb \in nn+1..mm
NewFor(l, f, lc, md, nn, mm) ==
  Fresh(l, lc, md, nn, mm) \/ l \in Owes(f) \/ (f.kind = "switch" /\ l = End(f))

\* What a statement owes are labels "L%d".
LEMMA OwesProp ==
  ASSUME NEW f \in Frames
  PROVE  \A l \in Owes(f) : l \in Labels /\ l.kind = "L"
<1>1. /\ f.labels.false \in Int /\ f.labels.end \in Int
      /\ f.numb.break \in Int /\ f.numb.continue \in Int
  BY DEF Frames
<1> QED BY <1>1, LabelProp DEF Owes

\* The label after the last case, as a label.
LEMMA EndProp ==
  ASSUME NEW f \in Frames
  PROVE  /\ End(f) \in Labels /\ End(f).kind = "case"
         /\ End(f).numb = f.numb.switch /\ End(f).serial = f.numb.serial
<1>1. f.numb.switch \in Int /\ f.numb.serial \in Int
  BY DEF Frames
<1> QED BY <1>1, LabelProp DEF End

\* What is printed while f is innermost leaves every other statement in order.
LEMMA OtherOK ==
  ASSUME NEW f \in Frames, NEW h \in Frames, NEW P \in SUBSET Labels, NEW D \in SUBSET Labels,
         NEW lc \in Nat, NEW md \in Nat, lc <= md, NEW nn \in Nat, NEW mm \in Nat,
         FrameOK(h, P, lc), Apart(h, f),
         \A l \in D : NewFor(l, f, lc, md, nn, mm)
  PROVE  FrameOK(h, P \cup D, md)
<1>1. ASSUME NEW l \in Owes(h)
      PROVE  l.numb < md /\ l \notin P \cup D
  <2>1. l \in Labels /\ l.kind = "L" /\ l.numb < lc /\ l \notin P
    BY OwesProp DEF FrameOK
  <2>2. l.numb \in Int
    BY <2>1 DEF Labels
  <2>3. ASSUME l \in D PROVE FALSE
    <3>1. CASE l \in Owes(f)
      BY <3>1 DEF Apart
    <3>2. CASE f.kind = "switch" /\ l = End(f)
      BY <3>2, <2>1, EndProp
    <3>3. CASE Fresh(l, lc, md, nn, mm)
      BY <3>3, <2>1, <2>2 DEF Fresh
    <3> QED BY <2>3, <3>1, <3>2, <3>3 DEF NewFor
  <2> QED BY <2>1, <2>2, <2>3
<1>2. ASSUME h.kind = "switch", NEW l \in P \cup D,
             l.kind = "case" /\ l.numb = h.numb.switch
      PROVE  l.serial < h.numb.serial
  <2>1. CASE l \in P
    BY <2>1, <1>2 DEF FrameOK
  <2>2. CASE l \in D
    <3>1. ~Fresh(l, lc, md, nn, mm) /\ l \notin Owes(f)
      BY <1>2, OwesProp DEF Fresh
    <3>2. f.kind = "switch" /\ l = End(f)
      BY <3>1, <2>2 DEF NewFor
    <3> QED BY <3>2, <1>2, EndProp DEF Apart
  <2> QED BY <2>1, <2>2, <1>2
<1>3. h.kind = "switch" => h.numb.switch \in Int /\ 0 <= h.numb.switch /\ h.numb.switch < md
  <2>1. h.numb.switch \in Int
    BY DEF Frames
  <2> QED BY <2>1 DEF FrameOK
<1> QED BY <1>1, <1>2, <1>3 DEF FrameOK

\* None of it has been printed before, user labels and default labels aside.
LEMMA NewIsNew ==
  ASSUME NEW f \in Frames, NEW P \in SUBSET Labels, NEW D \in SUBSET Labels,
         NEW lc \in Nat, NEW md \in Nat, lc <= md, NEW nn \in Nat, NEW mm \in Nat,
         FrameOK(f, P, lc), \A l \in P : Known(l, lc, nn),
         \A l \in D : NewFor(l, f, lc, md, nn, mm)
  PROVE  \A l \in P \cap D : l.kind \in {"user", "default"}
<1> SUFFICES ASSUME NEW l \in P, l \in D
             PROVE  l.kind \in {"user", "default"}
  OBVIOUS
<1>1. l \notin Owes(f)
  BY DEF FrameOK
<1>2. ASSUME f.kind = "switch", l = End(f) PROVE FALSE
  <2>1. l.kind = "case" /\ l.numb = f.numb.switch /\ l.serial = f.numb.serial
    BY <1>2, EndProp
  <2>2. l.serial < f.numb.serial
    BY <2>1, <1>2 DEF FrameOK
  <2>3. f.numb.serial \in Int
    BY DEF Frames
  <2> QED BY <2>1, <2>2, <2>3
<1>3. Fresh(l, lc, md, nn, mm)
  BY <1>1, <1>2 DEF NewFor
<1>4. l.numb \in Int /\ Known(l, lc, nn)
  BY DEF Labels
<1> QED BY <1>3, <1>4 DEF Fresh, Known

\* What is known stays known, and what is printed becomes known.
LEMMA KnownGrows ==
  ASSUME NEW f \in Frames, NEW P \in SUBSET Labels, NEW l \in Labels,
         NEW lc \in Nat, NEW md \in Nat, lc <= md, NEW nn \in Nat, NEW mm \in Nat, nn <= mm,
         FrameOK(f, P, lc),
         Known(l, lc, nn) \/ NewFor(l, f, lc, md, nn, mm)
  PROVE  Known(l, md, mm)
<1>1. l.numb \in Int
  BY DEF Labels
<1>2. CASE Known(l, lc, nn)
  BY <1>1, <1>2 DEF Known
<1>3. CASE l \in Owes(f)
  BY <1>1, <1>3, OwesProp DEF Known, FrameOK
<1>4. CASE f.kind = "switch" /\ l = End(f)
  BY <1>1, <1>4, EndProp DEF Known, FrameOK
<1>5. CASE Fresh(l, lc, md, nn, mm)
  BY <1>1, <1>5 DEF Known, Fresh
<1> QED BY <1>2, <1>3, <1>4, <1>5 DEF NewFor

------------------------------------------------------------------------------
\* The stack as a whole.

\* Two frames that differ in what is left of the body only.
Same(f, g) ==
  g.kind = f.kind /\ g.part = f.part /\ g.numb = f.numb /\ g.labels = f.labels

\* They owe the same.
LEMMA SameProp ==
  ASSUME NEW f, NEW g, Same(f, g)
  PROVE  /\ Owes(g) = Owes(f) /\ End(g) = End(f)
         /\ \A P, lc : FrameOK(f, P, lc) => FrameOK(g, P, lc)
         /\ \A h : Apart(f, h) => Apart(g, h)
<1>1. Owes(g) = Owes(f) /\ End(g) = End(f)
  BY DEF Owes, End, Same
<1> QED BY <1>1 DEF Same, FrameOK, Apart

\* A frame that owes nothing, for code printed for no statement in particular.
Nobody == Frame("function", 1, NoNumb, NoLabels, "many")

\* Code printed for no statement.
LEMMA NobodyProp ==
  /\ Nobody \in Frames /\ Owes(Nobody) = {}
  /\ \A h : Apart(h, Nobody)
  /\ \A P, lc : FrameOK(Nobody, P, lc)
  /\ Nobody.kind = "function"
<1>1. Nobody \in Frames /\ Nobody.kind = "function"
      /\ Nobody.numb.break < 0 /\ Nobody.numb.continue < 0 /\ Nobody.numb.switch < 0
  BY DEF Nobody, Frame, Frames, NoNumb, NoLabels, NONE, Compound, Loops
<1>2. Owes(Nobody) = {}
  BY <1>1 DEF Owes
<1> QED BY <1>1, <1>2 DEF Apart, FrameOK

\* The counters lc of the labels and nn of the nodes grow to md and mm.
Grows(lc, md, nn, mm) == lc \in Nat /\ md \in Nat /\ lc <= md /\ nn \in Nat /\ mm \in Nat /\ nn <= mm

\* The stack gs is fs but for what is left of the bodies.
Like(fs, gs) == DOMAIN gs = DOMAIN fs /\ \A i \in DOMAIN fs : Same(fs[i], gs[i])

\* The statement fs[n] becomes gs[n], the others stay: what D prints it no longer
\* owes, and K jumps to labels that are printed or owed.
Updated(fs, gs, n, P, D, K, lc, md, nn, mm) ==
  /\ n \in DOMAIN fs /\ DOMAIN gs = DOMAIN fs
  /\ \A i \in DOMAIN fs \ {n} : Same(fs[i], gs[i])
  /\ \A l \in D : NewFor(l, fs[n], lc, md, nn, mm)
  /\ FrameOK(gs[n], P \cup D, md)
  /\ gs[n].kind = fs[n].kind /\ gs[n].numb.switch = fs[n].numb.switch
  /\ gs[n].numb.continue = fs[n].numb.continue
  /\ Owes(gs[n]) \subseteq Owes(fs[n]) /\ Owes(fs[n]) \subseteq Owes(gs[n]) \cup D
  /\ fs[n].kind = "switch" => End(fs[n]) \in D \cup {End(gs[n])}
  /\ Landing(K, P \cup D \cup OwedBy(gs) \cup EndsOf(gs))

\* A step like that keeps the invariant.
LEMMA Update ==
  ASSUME NEW fs \in Seq(Frames), NEW gs \in Seq(Frames), NEW n,
         NEW P \in SUBSET Labels, NEW D \in SUBSET Labels, NEW J, NEW K,
         NEW lc, NEW md, NEW nn, NEW mm, Grows(lc, md, nn, mm),
         LInv(fs, P, J, lc, nn), Updated(fs, gs, n, P, D, K, lc, md, nn, mm)
  PROVE  /\ LInv(gs, P \cup D, J \cup K, md, mm)
         /\ \A l \in P \cap D : l.kind \in {"user", "default"}
<1> USE DEF Grows, Updated
<1>1. \A i \in DOMAIN fs : fs[i] \in Frames /\ gs[i] \in Frames /\ FrameOK(fs[i], P, lc)
  BY ElementOfSeq, LenProperties DEF LInv
<1>2. \A l \in P \cup D : Known(l, md, mm)
  <2>1. fs[n] \in Frames /\ FrameOK(fs[n], P, lc)
    BY <1>1
  <2>2. \A l \in P \cup D : l \in Labels /\ (Known(l, lc, nn) \/ NewFor(l, fs[n], lc, md, nn, mm))
    BY DEF LInv
  <2> QED BY <2>1, <2>2, KnownGrows
<1>3. \A i \in DOMAIN fs \ {n} :
        /\ Owes(gs[i]) = Owes(fs[i]) /\ End(gs[i]) = End(fs[i])
        /\ gs[i].kind = fs[i].kind /\ gs[i].numb = fs[i].numb
        /\ \A Q, m : FrameOK(fs[i], Q, m) => FrameOK(gs[i], Q, m)
  BY SameProp DEF Same
<1>4. ASSUME NEW i \in DOMAIN gs PROVE FrameOK(gs[i], P \cup D, md)
  <2>1. CASE i = n
    BY <2>1
  <2>2. CASE i # n
    <3>1. Apart(fs[i], fs[n])
      BY <2>2 DEF LInv
    <3>2. FrameOK(fs[i], P \cup D, md)
      BY <1>1, <3>1, OtherOK
    <3> QED BY <3>2, <2>2, <1>3
  <2> QED BY <2>1, <2>2
<1>5. ASSUME NEW i \in DOMAIN gs, NEW j \in DOMAIN gs, i # j PROVE Apart(gs[i], gs[j])
  <2>1. Apart(fs[i], fs[j])
    BY <1>5 DEF LInv
  <2>2. /\ Owes(gs[i]) \subseteq Owes(fs[i]) /\ Owes(gs[j]) \subseteq Owes(fs[j])
        /\ gs[i].kind = fs[i].kind /\ gs[j].kind = fs[j].kind
        /\ gs[i].numb.switch = fs[i].numb.switch /\ gs[j].numb.switch = fs[j].numb.switch
    BY <1>3
  <2> QED BY <2>1, <2>2 DEF Apart
<1>6. OwedBy(fs) \subseteq OwedBy(gs) \cup D
  <2>1. \A i \in DOMAIN fs : Owes(fs[i]) \subseteq Owes(gs[i]) \cup D
    BY <1>3
  <2> QED BY <2>1 DEF OwedBy
<1>7. EndsOf(fs) \subseteq EndsOf(gs) \cup D
  <2>1. \A i \in DOMAIN fs : fs[i].kind = "switch" =>
          gs[i].kind = "switch" /\ (End(fs[i]) = End(gs[i]) \/ End(fs[i]) \in D)
    BY <1>3
  <2> QED BY <2>1 DEF EndsOf
<1>8. \A i \in DOMAIN gs : gs[i].kind # "if" /\ gs[i].numb.continue >= 0 =>
        Plain(gs[i].numb.continue) \in (P \cup D) \cup OwedBy(gs)
  <2>1. \A i \in DOMAIN gs : gs[i].kind = fs[i].kind
                               /\ gs[i].numb.continue = fs[i].numb.continue
    BY <1>3
  <2> QED BY <2>1, <1>6 DEF LInv
<1>9. Landing(J \cup K, (P \cup D) \cup OwedBy(gs) \cup EndsOf(gs))
  BY <1>6, <1>7 DEF LInv, Landing
<1>10. \A l \in P \cap D : l.kind \in {"user", "default"}
  <2>1. fs[n] \in Frames /\ FrameOK(fs[n], P, lc) /\ \A l \in P : Known(l, lc, nn)
    BY <1>1 DEF LInv
  <2> QED BY <2>1, NewIsNew
<1> QED BY <1>2, <1>4, <1>5, <1>8, <1>9, <1>10 DEF LInv

\* A statement without a body prints new labels, and K jumps to labels that are
\* printed or owed.
Kept(fs, P, D, K, lc, md, nn, mm) ==
  /\ \A l \in D : Fresh(l, lc, md, nn, mm)
  /\ Landing(K, P \cup D \cup OwedBy(fs) \cup EndsOf(fs))

\* The stack keeps its frames, and the invariant.
LEMMA Keep ==
  ASSUME NEW fs \in Seq(Frames), NEW gs \in Seq(Frames), fs # <<>>, Like(fs, gs),
         NEW P \in SUBSET Labels, NEW D \in SUBSET Labels, NEW J, NEW K,
         NEW lc, NEW md, NEW nn, NEW mm, Grows(lc, md, nn, mm),
         LInv(fs, P, J, lc, nn), Kept(fs, P, D, K, lc, md, nn, mm)
  PROVE  /\ LInv(gs, P \cup D, J \cup K, md, mm)
         /\ \A l \in P \cap D : l.kind \in {"user", "default"}
<1> USE DEF Grows, Like, Kept
<1> DEFINE n == Len(fs)
<1>1. n \in DOMAIN fs /\ fs[n] \in Frames /\ FrameOK(fs[n], P, lc)
  <2>1. n \in DOMAIN fs
    BY EmptySeq, LenProperties
  <2> QED BY <2>1, ElementOfSeq, LenProperties DEF LInv
<1> HIDE DEF n
<1>2. \A l \in D : NewFor(l, fs[n], lc, md, nn, mm) /\ NewFor(l, Nobody, lc, md, nn, mm)
  BY DEF NewFor
<1>3. FrameOK(fs[n], P \cup D, md)
  BY <1>1, <1>2, OtherOK, NobodyProp
<1>4. \A i \in DOMAIN fs : Owes(gs[i]) = Owes(fs[i]) /\ End(gs[i]) = End(fs[i])
                             /\ gs[i].kind = fs[i].kind /\ gs[i].numb = fs[i].numb
  BY SameProp DEF Same
<1>5. OwedBy(gs) = OwedBy(fs) /\ EndsOf(gs) = EndsOf(fs)
  BY <1>4 DEF OwedBy, EndsOf
<1>6. FrameOK(gs[n], P \cup D, md)
  BY <1>1, <1>3, SameProp
<1>7. Landing(K, P \cup D \cup OwedBy(gs) \cup EndsOf(gs))
  BY <1>5
<1>8. /\ gs[n].kind = fs[n].kind /\ gs[n].numb.switch = fs[n].numb.switch
      /\ gs[n].numb.continue = fs[n].numb.continue
      /\ Owes(gs[n]) \subseteq Owes(fs[n]) /\ Owes(fs[n]) \subseteq Owes(gs[n]) \cup D
      /\ fs[n].kind = "switch" => End(fs[n]) \in D \cup {End(gs[n])}
  BY <1>1, <1>4
<1>9. n \in DOMAIN fs /\ \A i \in DOMAIN fs \ {n} : Same(fs[i], gs[i])
  BY <1>1
<1>10. \A l \in D : NewFor(l, fs[n], lc, md, nn, mm)
  BY <1>2
<1>11. Updated(fs, gs, n, P, D, K, lc, md, nn, mm)
  BY <1>6, <1>7, <1>8, <1>9, <1>10 DEF Updated
<1> QED BY <1>11, Update

\* A statement f with a body is opened: it owes new labels, and K jumps to labels
\* that are printed or owed.
Pushed(fs, f, P, D, K, lc, md, nn, mm) ==
  /\ \A l \in D : Fresh(l, lc, md, nn, mm)
  /\ FrameOK(f, P \cup D, md)
  /\ \A l \in Owes(f) : l.numb >= lc
  /\ f.kind = "switch" => f.numb.switch >= lc
  /\ f.kind # "if" /\ f.numb.continue >= 0 =>
       Plain(f.numb.continue) \in P \cup D \cup OwedBy(fs) \cup Owes(f)
  /\ \A l \in K :
       \/ l \in P \cup D \cup OwedBy(fs) \cup EndsOf(fs) \cup Owes(f)
       \/ f.kind = "switch" /\ l = End(f)

\* A step that pushes such a frame keeps the invariant.
LEMMA Push ==
  ASSUME NEW fs \in Seq(Frames), NEW gs \in Seq(Frames), NEW f \in Frames, Like(fs, gs),
         NEW P \in SUBSET Labels, NEW D \in SUBSET Labels, NEW J, NEW K,
         NEW lc, NEW md, NEW nn, NEW mm, Grows(lc, md, nn, mm),
         LInv(fs, P, J, lc, nn), Pushed(fs, f, P, D, K, lc, md, nn, mm)
  PROVE  /\ LInv(Append(gs, f), P \cup D, J \cup K, md, mm)
         /\ \A l \in P \cap D : l.kind \in {"user", "default"}
<1> USE DEF Grows, Like, Pushed
<1> DEFINE hs == Append(gs, f)
           n == Len(gs) + 1
<1>1. /\ hs \in Seq(Frames) /\ DOMAIN hs = DOMAIN gs \cup {n} /\ n \notin DOMAIN gs
      /\ hs[n] = f /\ \A i \in DOMAIN gs : hs[i] = gs[i]
  <2>1. Len(gs) \in Nat /\ DOMAIN gs = 1..Len(gs)
    BY LenProperties
  <2>2. 1..Len(gs)+1 = (1..Len(gs)) \cup {Len(gs)+1} /\ Len(gs)+1 \notin 1..Len(gs)
        /\ \A i \in 1..Len(gs) : i # Len(gs) + 1
    BY <2>1
  <2> QED BY <2>1, <2>2, AppendProperties, LenProperties
<1> HIDE DEF hs, n
<1>2. \A i \in DOMAIN fs : fs[i] \in Frames /\ FrameOK(fs[i], P, lc)
  BY ElementOfSeq, LenProperties DEF LInv
<1>3. \A l \in D : NewFor(l, Nobody, lc, md, nn, mm)
  BY DEF NewFor
<1>4. \A i \in DOMAIN fs : Owes(gs[i]) = Owes(fs[i]) /\ End(gs[i]) = End(fs[i])
                             /\ gs[i].kind = fs[i].kind /\ gs[i].numb = fs[i].numb
  BY SameProp DEF Same
<1>5. ASSUME NEW i \in DOMAIN gs PROVE FrameOK(gs[i], P \cup D, md)
  <2>1. FrameOK(fs[i], P \cup D, md)
    BY <1>2, <1>3, OtherOK, NobodyProp
  <2> QED BY <2>1, SameProp
<1>6. ASSUME NEW i \in DOMAIN gs PROVE Apart(gs[i], f) /\ Apart(f, gs[i])
  <2>1. \A l \in Owes(gs[i]) : l.numb < lc
    BY <1>2, <1>4 DEF FrameOK
  <2>2. \A l \in Labels : l.numb \in Int
    BY DEF Labels
  <2>3. \A l \in Owes(f) : l \in Labels
    BY OwesProp
  <2>4. Owes(gs[i]) \cap Owes(f) = {}
    BY <2>1, <2>2, <2>3
  <2>5. gs[i].kind = "switch" => gs[i].numb.switch < lc
    BY <1>2, <1>4 DEF FrameOK
  <2>6. gs[i].numb.switch \in Int /\ f.numb.switch \in Int
    <3>1. \A g \in Frames : g.numb.switch \in Int
      BY DEF Frames
    <3>2. fs[i].numb.switch \in Int /\ gs[i].numb = fs[i].numb
      BY <1>2, <1>4, <3>1
    <3> QED BY <3>1, <3>2
  <2> QED BY <2>4, <2>5, <2>6 DEF Apart
<1>7. \A i, j \in DOMAIN gs : i # j => Apart(gs[i], gs[j])
  BY <1>4 DEF LInv, Apart
<1>8. OwedBy(hs) = OwedBy(fs) \cup Owes(f)
  BY <1>1, <1>4 DEF OwedBy
<1>9. EndsOf(fs) \subseteq EndsOf(hs) /\ (f.kind = "switch" => End(f) \in EndsOf(hs))
  <2>1. \A i \in DOMAIN fs : i \in DOMAIN hs /\ hs[i].kind = fs[i].kind /\ End(hs[i]) = End(fs[i])
    BY <1>1, <1>4
  <2> QED BY <2>1, <1>1 DEF EndsOf
<1>10. \A l \in P \cup D : Known(l, md, mm)
  <2>1. \A l \in P \cup D : l \in Labels /\ (Known(l, lc, nn) \/ NewFor(l, Nobody, lc, md, nn, mm))
    BY <1>3 DEF LInv
  <2> QED BY <2>1, NobodyProp, KnownGrows
<1>11. \A l \in P \cap D : l.kind \in {"user", "default"}
  <2>1. \A l \in P : Known(l, lc, nn)
    BY DEF LInv
  <2> QED BY <2>1, <1>3, NobodyProp, NewIsNew
<1>12. \A i \in DOMAIN hs : FrameOK(hs[i], P \cup D, md)
  BY <1>1, <1>5
<1>13. \A i, j \in DOMAIN hs : i # j => Apart(hs[i], hs[j])
  BY <1>1, <1>6, <1>7
<1>14. \A i \in DOMAIN hs : hs[i].kind # "if" /\ hs[i].numb.continue >= 0 =>
         Plain(hs[i].numb.continue) \in (P \cup D) \cup OwedBy(hs)
  BY <1>1, <1>4, <1>8, SMTT(60) DEF LInv
<1>15. Landing(J \cup K, (P \cup D) \cup OwedBy(hs) \cup EndsOf(hs))
  BY <1>8, <1>9 DEF LInv, Landing
<1>16. LInv(hs, P \cup D, J \cup K, md, mm)
  BY <1>10, <1>12, <1>13, <1>14, <1>15 DEF LInv
<1> QED BY <1>11, <1>16 DEF hs

\* The innermost statement is done: D prints all that it owed.
Paid(f, P, D, K, lc, md, nn) ==
  /\ \A l \in D : NewFor(l, f, lc, md, nn, nn)
  /\ Owes(f) \subseteq D
  /\ f.kind = "switch" => End(f) \in D
  /\ K \subseteq P \cup D

\* A step that pops its frame keeps the invariant.
LEMMA Pop ==
  ASSUME NEW fs \in Seq(Frames), fs # <<>>,
         NEW P \in SUBSET Labels, NEW D \in SUBSET Labels, NEW J, NEW K,
         NEW lc, NEW md, NEW nn, Grows(lc, md, nn, nn),
         LInv(fs, P, J, lc, nn), Paid(fs[Len(fs)], P, D, K, lc, md, nn)
  PROVE  /\ LInv(SubSeq(fs, 1, Len(fs) - 1), P \cup D, J \cup K, md, nn)
         /\ \A l \in P \cap D : l.kind \in {"user", "default"}
<1> USE DEF Grows, Paid
<1> DEFINE hs == SubSeq(fs, 1, Len(fs) - 1)
           n == Len(fs)
<1>1. /\ hs \in Seq(Frames) /\ DOMAIN fs = DOMAIN hs \cup {n} /\ n \notin DOMAIN hs
      /\ \A i \in DOMAIN hs : hs[i] = fs[i]
  <2>1. Len(fs) \in Nat /\ Len(fs) # 0 /\ DOMAIN fs = 1..Len(fs)
    BY EmptySeq, LenProperties
  <2>2. \A m \in Nat : m # 0 =>
          /\ \A i \in 1..m-1 : i \in 1..m /\ 1 + i - 1 = i /\ i # m
          /\ 1..m = (1..m-1) \cup {m}
          /\ m - 1 \in Nat /\ 1 \in 1..(m - 1)+1 /\ m - 1 \in 1-1..m /\ (m - 1) - 1 + 1 = m - 1
    OBVIOUS
  <2>3. hs \in Seq(Frames) /\ Len(hs) = Len(fs) - 1
        /\ \A i \in 1..Len(fs)-1 : hs[i] = fs[i]
    BY <2>1, <2>2, SubSeqProperties
  <2> QED BY <2>1, <2>2, <2>3, LenProperties
<1> HIDE DEF hs
<1>2. n \in DOMAIN fs /\ \A i \in DOMAIN fs : fs[i] \in Frames /\ FrameOK(fs[i], P, lc)
  BY <1>1, ElementOfSeq, LenProperties DEF LInv
<1>3. \A l \in D : NewFor(l, fs[n], lc, md, nn, nn)
  OBVIOUS
<1> HIDE DEF n
<1>4. \A l \in P : Known(l, lc, nn)
  BY DEF LInv
<1>5. \A l \in P \cup D : Known(l, md, nn)
  <2>1. nn <= nn
    OBVIOUS
  <2>2. \A l \in P \cup D : l \in Labels /\ (Known(l, lc, nn) \/ NewFor(l, fs[n], lc, md, nn, nn))
    BY <1>3, <1>4
  <2> QED BY <2>1, <2>2, <1>2, KnownGrows
<1>6. \A l \in P \cap D : l.kind \in {"user", "default"}
  BY <1>2, <1>3, <1>4, NewIsNew
<1>7. ASSUME NEW i \in DOMAIN hs PROVE FrameOK(hs[i], P \cup D, md)
  <2>1. Apart(fs[i], fs[n]) /\ i \in DOMAIN fs
    BY <1>1, <1>2 DEF LInv
  <2>2. FrameOK(fs[i], P \cup D, md)
    BY <2>1, <1>2, <1>3, OtherOK
  <2> QED BY <2>2, <1>1
<1>8. \A i, j \in DOMAIN hs : i # j => Apart(hs[i], hs[j])
  BY <1>1 DEF LInv
<1>9. OwedBy(fs) \subseteq OwedBy(hs) \cup D
  BY <1>1 DEF OwedBy, n
<1>10. EndsOf(fs) \subseteq EndsOf(hs) \cup D
  <2>1. \A i \in DOMAIN fs : \/ i \in DOMAIN hs /\ hs[i] = fs[i]
                             \/ fs[i].kind = "switch" => End(fs[i]) \in D
    BY <1>1 DEF n
  <2> QED BY <2>1 DEF EndsOf
<1>11. \A i \in DOMAIN hs : hs[i].kind # "if" /\ hs[i].numb.continue >= 0 =>
         Plain(hs[i].numb.continue) \in (P \cup D) \cup OwedBy(hs)
  BY <1>1, <1>9 DEF LInv
<1>12. Landing(J \cup K, (P \cup D) \cup OwedBy(hs) \cup EndsOf(hs))
  BY <1>9, <1>10 DEF LInv, Landing
<1>13. LInv(hs, P \cup D, J \cup K, md, nn)
  BY <1>5, <1>7, <1>8, <1>11, <1>12 DEF LInv
<1> QED BY <1>6, <1>13 DEF hs

------------------------------------------------------------------------------
\* The code of a statement.

\* The code s prints the labels D and jumps to K.
Emits(s, D, K) == s \in Seq(Items) /\ Once(s) /\ DefsOf(s) = D /\ JumpsOf(s) = K

\* What is printed and jumped to are labels.
LEMMA EmitsLabels ==
  ASSUME NEW s, NEW D, NEW K, Emits(s, D, K)
  PROVE  D \in SUBSET Labels /\ K \in SUBSET Labels
<1>1. DOMAIN s = 1..Len(s) /\ \A i \in 1..Len(s) : s[i] \in Items
  BY ElementOfSeq, LenProperties DEF Emits
<1>2. \A i \in DOMAIN s : s[i].label \in Labels
  BY <1>1 DEF Items
<1> QED BY <1>2 DEF Emits, DefsOf, JumpsOf

\* One piece behind another.
LEMMA EmitsConcat ==
  ASSUME NEW s, NEW t, NEW D, NEW K, NEW E, NEW M, Emits(s, D, K), Emits(t, E, M),
         \A l \in D \cap E : l.kind = "user"
  PROVE  Emits(s \o t, D \cup E, K \cup M)
BY ConcatCode, ConcatOnce DEF Emits

\* Code of one item, and of none.
LEMMA EmitsItem ==
  /\ \A l \in Labels : /\ Emits(<<Def(l)>>, {l}, {})
                       /\ l.kind # "user" => /\ Emits(<<Jmp(l)>>, {}, {l})
                                             /\ Emits(<<Jz(l)>>, {}, {l})
                                             /\ Emits(<<Jnz(l)>>, {}, {l})
                       /\ l.kind # "user" => \A v \in Nat : Emits(<<CmpJnz(v, l)>>, {}, {l})
                       /\ l.kind = "user" => Emits(<<Jmp(l)>>, {}, {})
  /\ \A n \in Nat : Emits(<<Obs(n, "x")>>, {}, {})
  /\ Emits(<<Ret>>, {}, {})
  /\ Emits(<<>>, {}, {})
<1>0. 0 \in Nat /\ "x" \in Parts
  BY DEF Parts
<1>1. ASSUME NEW x \in Items
      PROVE  /\ x.op = "def" => Emits(<<x>>, {x.label}, {})
             /\ x.op \in JumpOps /\ x.label.kind # "user" => Emits(<<x>>, {}, {x.label})
             /\ x.op \in JumpOps /\ x.label.kind = "user" => Emits(<<x>>, {}, {})
             /\ x.op \in {"ret", "obs"} => Emits(<<x>>, {}, {})
  BY OneItem DEF Emits, JumpOps
<1>2. ASSUME NEW l \in Labels
      PROVE  /\ Emits(<<Def(l)>>, {l}, {})
             /\ l.kind # "user" => /\ Emits(<<Jmp(l)>>, {}, {l})
                                   /\ Emits(<<Jz(l)>>, {}, {l})
                                   /\ Emits(<<Jnz(l)>>, {}, {l})
             /\ l.kind = "user" => Emits(<<Jmp(l)>>, {}, {})
  <2>1. /\ Def(l) \in Items /\ Def(l).op = "def" /\ Def(l).label = l
        /\ Jmp(l) \in Items /\ Jmp(l).op = "jmp" /\ Jmp(l).label = l
        /\ Jz(l) \in Items /\ Jz(l).op = "jz" /\ Jz(l).label = l
        /\ Jnz(l) \in Items /\ Jnz(l).op = "jnz" /\ Jnz(l).label = l
    BY <1>0, ItemProp
  <2> QED BY <2>1, <1>1 DEF JumpOps
<1>3. ASSUME NEW l \in Labels, l.kind # "user", NEW v \in Nat
      PROVE  Emits(<<CmpJnz(v, l)>>, {}, {l})
  <2>1. CmpJnz(v, l) \in Items /\ CmpJnz(v, l).op = "cmp" /\ CmpJnz(v, l).label = l
    BY <1>0, ItemProp
  <2> QED BY <2>1, <1>1, <1>3 DEF JumpOps
<1>4. ASSUME NEW n \in Nat PROVE Emits(<<Obs(n, "x")>>, {}, {})
  <2>1. Obs(n, "x") \in Items /\ Obs(n, "x").op = "obs"
    BY <1>0, ItemProp, LabelProp
  <2> QED BY <2>1, <1>1
<1>5. Emits(<<Ret>>, {}, {})
  <2>1. Ret \in Items /\ Ret.op = "ret"
    BY <1>0, ItemProp, LabelProp
  <2> QED BY <2>1, <1>1
<1>6. Emits(<<>>, {}, {})
  BY NoCode DEF Emits
<1> QED BY <1>2, <1>3, <1>4, <1>5, <1>6

\* The labels "L%d" of an interval.
LEMMA PlainsProp ==
  /\ \A m, n \in Int : Plain(m) = Plain(n) => m = n
  /\ \A a, b \in Int : \A l \in Plains(a, b) :
       l \in Labels /\ l.kind = "L" /\ l.numb \in a..b /\ l = Plain(l.numb)
  /\ \A a, b \in Int : \A m \in a..b : Plain(m) \in Plains(a, b)
<1>1. \A m, n \in Int : Plain(m) = Plain(n) => m = n
  BY DEF Plain
<1>2. ASSUME NEW a \in Int, NEW b \in Int, NEW l \in Plains(a, b)
      PROVE  l \in Labels /\ l.kind = "L" /\ l.numb \in a..b /\ l = Plain(l.numb)
  <2>1. PICK m \in a..b : l = Plain(m)
    BY DEF Plains
  <2>2. m \in Int
    OBVIOUS
  <2> QED BY <2>1, <2>2, LabelProp
<1>3. \A a, b \in Int : \A m \in a..b : Plain(m) \in Plains(a, b)
  BY DEF Plains
<1> QED BY <1>1, <1>2, <1>3

\* Code of which the labels are all "L%d", of one interval after another.
LEMMA EmitsNext ==
  ASSUME NEW s, NEW t, NEW D, NEW K, NEW E, NEW M, Emits(s, D, K), Emits(t, E, M),
         NEW a \in Int, NEW b \in Int, NEW c \in Int,
         D \subseteq Plains(a, b - 1), E \subseteq Plains(b, c)
  PROVE  Emits(s \o t, D \cup E, K \cup M)
<1>1. \A l \in D \cap E : FALSE
  <2> SUFFICES ASSUME NEW l \in D, l \in E PROVE FALSE
    OBVIOUS
  <2>1. l.numb \in a..b-1 /\ l.numb \in b..c
    BY PlainsProp
  <2> QED BY <2>1
<1> QED BY <1>1, EmitsConcat

------------------------------------------------------------------------------
\* The stack and its types.

StackOK(fs) ==
  /\ fs \in Seq(Frames)
  /\ \A i \in DOMAIN fs : fs[i].kind = "function" <=> i = 1
  /\ \A i \in 1..Len(fs)-1 : fs[i].left # "one"

\* Consumed, of any stack; and no frame in it waits for one statement more.
Consume(fs) == [fs EXCEPT ![Len(fs)] = Used(fs[Len(fs)])]

\* The innermost statement is the last of the stack.
LEMMA TopProp ==
  ASSUME NEW fs, StackOK(fs), fs # <<>>
  PROVE  /\ Len(fs) \in Nat \ {0} /\ Len(fs) \in DOMAIN fs /\ DOMAIN fs = 1..Len(fs)
         /\ fs[Len(fs)] \in Frames
<1>1. Len(fs) \in Nat /\ Len(fs) # 0 /\ DOMAIN fs = 1..Len(fs)
  BY EmptySeq, LenProperties DEF StackOK
<1> QED BY <1>1, ElementOfSeq DEF StackOK

\* A statement that is read changes what is left of the innermost body only.
LEMMA ConsumeProp ==
  ASSUME NEW fs, StackOK(fs), fs # <<>>
  PROVE  /\ StackOK(Consume(fs)) /\ Like(fs, Consume(fs)) /\ Consume(fs) # <<>>
         /\ Len(Consume(fs)) = Len(fs)
         /\ \A i \in DOMAIN Consume(fs) : Consume(fs)[i].left # "one"
<1> DEFINE n == Len(fs)
           cs == Consume(fs)
<1>1. n \in Nat \ {0} /\ n \in DOMAIN fs /\ DOMAIN fs = 1..n /\ fs[n] \in Frames
  BY TopProp
<1>2. Used(fs[n]) \in Frames /\ Same(fs[n], Used(fs[n])) /\ Used(fs[n]).left # "one"
  BY <1>1 DEF Used, Frames, Same
<1>3. cs \in Seq(Frames) /\ Len(cs) = n /\ DOMAIN cs = 1..n
      /\ \A i \in 1..n : cs[i] = IF i = n THEN Used(fs[n]) ELSE fs[i]
  <2>1. cs = [i \in 1..n |-> IF i = n THEN Used(fs[n]) ELSE fs[i]]
    BY <1>1 DEF Consume, StackOK
  <2>2. \A i \in 1..n : fs[i] \in Frames
    BY ElementOfSeq DEF StackOK
  <2> HIDE DEF cs, n
  <2>3. cs \in [1..n -> Frames]
    BY <2>1, <2>2, <1>2
  <2>4. cs \in Seq(Frames)
    BY <2>3, <1>1, IsASeq, SeqDef
  <2>5. DOMAIN cs = 1..n /\ Len(cs) \in Nat /\ DOMAIN cs = 1..Len(cs)
    BY <2>3, <2>4, LenProperties
  <2>6. \A m, k \in Nat : 1..m = 1..k => m = k
    OBVIOUS
  <2>7. Len(cs) = n
    BY <2>5, <2>6, <1>1
  <2> QED BY <2>1, <2>4, <2>5, <2>7
<1>4. cs # <<>>
  BY <1>1, <1>3
<1> HIDE DEF cs
<1>5. Like(fs, cs)
  BY <1>1, <1>2, <1>3 DEF Like, Same
<1>6. \A i \in 1..n : cs[i].left # "one"
  <2>1. ASSUME NEW i \in 1..n, i # n PROVE cs[i].left # "one"
    <3>1. \A m \in Nat : \A j \in 1..m : j # m => j \in 1..m-1
      OBVIOUS
    <3>2. i \in 1..n-1
      BY <3>1, <2>1, <1>1
    <3> QED BY <3>2, <2>1, <1>3 DEF StackOK
  <2> QED BY <2>1, <1>2, <1>3
<1>7. \A i \in 1..n : cs[i].kind = fs[i].kind
  BY <1>2, <1>3 DEF Same
<1>8. StackOK(cs)
  <2>1. \A i \in 1..n-1 : i \in 1..n
    BY <1>1
  <2> QED BY <1>1, <1>3, <1>6, <1>7, <2>1 DEF StackOK
<1> QED BY <1>3, <1>4, <1>5, <1>6, <1>8 DEF cs

\* A statement is pushed on a stack on which nothing waits for one more.
LEMMA PushOK ==
  ASSUME NEW fs, StackOK(fs), fs # <<>>, \A i \in DOMAIN fs : fs[i].left # "one",
         NEW f \in Frames, f.kind # "function"
  PROVE  StackOK(Append(fs, f))
<1>1. Len(fs) \in Nat \ {0} /\ DOMAIN fs = 1..Len(fs)
  BY TopProp
<1> DEFINE hs == Append(fs, f)
<1>2. hs \in Seq(Frames) /\ Len(hs) = Len(fs) + 1 /\ DOMAIN hs = 1..Len(fs)+1
      /\ hs[Len(fs)+1] = f /\ \A i \in 1..Len(fs) : hs[i] = fs[i]
  BY <1>1, AppendProperties, LenProperties DEF StackOK
<1> HIDE DEF hs
<1>3. \A m \in Nat \ {0} : /\ (m + 1) - 1 = m /\ m + 1 # 1
                           /\ \A i \in 1..m+1 : i \in 1..m \/ i = m + 1
  OBVIOUS
<1>4. \A i \in 1..Len(fs)+1 : hs[i].kind = "function" <=> i = 1
  BY <1>1, <1>2, <1>3 DEF StackOK
<1>5. \A i \in 1..Len(hs)-1 : hs[i].left # "one"
  BY <1>1, <1>2, <1>3
<1> QED BY <1>2, <1>4, <1>5 DEF StackOK, hs

\* A statement that is done leaves the stack below it.
LEMMA PopOK ==
  ASSUME NEW fs, StackOK(fs), fs # <<>>
  PROVE  StackOK(SubSeq(fs, 1, Len(fs) - 1))
<1>1. Len(fs) \in Nat \ {0} /\ DOMAIN fs = 1..Len(fs)
  BY TopProp
<1> DEFINE hs == SubSeq(fs, 1, Len(fs) - 1)
<1>2. \A m \in Nat \ {0} :
        /\ \A i \in 1..m-1 : i \in 1..m /\ 1 + i - 1 = i
        /\ \A i \in 1..(m-1)-1 : i \in 1..m-1
        /\ m - 1 \in Nat /\ 1 \in 1..(m - 1)+1 /\ m - 1 \in 1-1..m /\ (m - 1) - 1 + 1 = m - 1
  OBVIOUS
<1>3. hs \in Seq(Frames) /\ Len(hs) = Len(fs) - 1
      /\ \A i \in 1..Len(fs)-1 : hs[i] = fs[i]
  BY <1>1, <1>2, SubSeqProperties DEF StackOK
<1> HIDE DEF hs
<1>4. DOMAIN hs = 1..Len(fs)-1
  BY <1>3, LenProperties
<1>5. \A i \in DOMAIN hs : hs[i].kind = "function" <=> i = 1
  BY <1>1, <1>2, <1>3, <1>4 DEF StackOK
<1>6. \A i \in 1..Len(hs)-1 : hs[i].left # "one"
  BY <1>1, <1>2, <1>3 DEF StackOK
<1> QED BY <1>3, <1>5, <1>6 DEF StackOK, hs

------------------------------------------------------------------------------
\* The steps of the parser.

\* No label of a default is printed.
NoDefault(D) == \A l \in D : l.kind # "default"

\* The nodes stay nodes when one is read.
LEMMA NodeStep ==
  ASSUME TypeOK, frames # <<>>, NEW kind \in Statement, Reads(kind), NEW arg \in Nat,
         NEW form \in SUBSET {"a", "b", "c"}, nodes' = Append(nodes, Node(kind, arg, form))
  PROVE  /\ nodes' \in Seq(Nodes) /\ Len(nodes') = Len(nodes) + 1 /\ Len(nodes') <= MaxNodes
         /\ Len(nodes) \in Nat /\ NewNode \in Nat \ {0}
<1>1. Len(frames) \in DOMAIN frames /\ Top \in Frames
  BY TopProp DEF TypeOK, StackOK, Top
<1>2. Top.node \in Nat /\ Top.part \in {"body", "else"}
  BY <1>1 DEF Frames
<1>3. Node(kind, arg, form) \in Nodes
  BY <1>2 DEF Node, Nodes
<1>4. Len(nodes) \in Nat
  BY LenProperties DEF TypeOK
<1>5. Len(nodes) < MaxNodes
  BY DEF Reads
<1>6. nodes' \in Seq(Nodes) /\ Len(nodes') = Len(nodes) + 1
  BY <1>3, AppendProperties DEF TypeOK
<1>7. \A m, k \in Nat : m < k => m + 1 <= k /\ m + 1 \in Nat \ {0}
  OBVIOUS
<1> QED BY <1>4, <1>5, <1>6, <1>7, ConstantsAssumption DEF NewNode

\* The code after a step that lays the code items.
LEMMA CodeStep ==
  ASSUME TypeOK, Once(code), NEW items, NEW D, NEW K, Emits(items, D, K),
         code' = code \o items, \A l \in DefsOf(code) \cap D : l.kind = "user"
  PROVE  /\ code' \in Seq(Items) /\ Once(code')
         /\ DefsOf(code') = DefsOf(code) \cup D /\ JumpsOf(code') = JumpsOf(code) \cup K
BY ConcatCode, ConcatOnce DEF Emits, TypeOK

\* The labels of the code so far.
LEMMA CodeLabels ==
  ASSUME TypeOK
  PROVE  DefsOf(code) \in SUBSET Labels /\ Len(nodes) \in Nat /\ label_counter \in Nat
<1>1. DOMAIN code = 1..Len(code) /\ \A i \in 1..Len(code) : code[i] \in Items
  BY ElementOfSeq, LenProperties DEF TypeOK
<1>2. \A i \in DOMAIN code : code[i].label \in Labels
  BY <1>1 DEF Items
<1>3. Len(nodes) \in Nat
  BY LenProperties DEF TypeOK
<1> QED BY <1>2, <1>3 DEF DefsOf, TypeOK

\* A statement without a body keeps the invariant.
LEMMA SimpleStep ==
  ASSUME IInv, NEW kind \in Statement, NEW arg \in Nat, NEW items, NEW D, NEW K,
         Emits(items, D, K), Simple(kind, arg, items),
         label_counter' \in Nat, label_counter <= label_counter',
         Kept(frames, DefsOf(code), D, K,
              label_counter, label_counter', Len(nodes), Len(nodes) + 1),
         NoDefault(D)
  PROVE  IInv'
<1> USE DEF IInv
<1>1. frames # <<>> /\ Reads(kind) /\ StackOK(frames)
  BY DEF Simple, Reads, TypeOK, StackOK
<1>2. frames' = Consume(frames) /\ code' = code \o items /\ no_else' = FALSE /\ err' = err
  BY DEF Simple, Consumed, Consume, Top
<1>3. /\ nodes' \in Seq(Nodes) /\ Len(nodes') = Len(nodes) + 1 /\ Len(nodes') <= MaxNodes
      /\ Len(nodes) \in Nat
  <2>1. nodes' = Append(nodes, Node(kind, arg, {})) /\ {} \in SUBSET {"a", "b", "c"}
    BY DEF Simple
  <2> QED BY <2>1, <1>1, NodeStep
<1>4. StackOK(frames') /\ Like(frames, frames')
  BY <1>1, <1>2, ConsumeProp
<1>5. Grows(label_counter, label_counter', Len(nodes), Len(nodes) + 1)
  BY <1>3, CodeLabels DEF Grows
<1>6. /\ LInv(frames', DefsOf(code) \cup D, JumpsOf(code) \cup K, label_counter', Len(nodes) + 1)
      /\ \A l \in DefsOf(code) \cap D : l.kind \in {"user", "default"}
  <2>1. DefsOf(code) \in SUBSET Labels /\ D \in SUBSET Labels
    BY CodeLabels, EmitsLabels
  <2>2. frames \in Seq(Frames) /\ frames' \in Seq(Frames)
    BY <1>1, <1>4 DEF StackOK
  <2> QED BY <2>1, <2>2, <1>1, <1>4, <1>5, Keep
<1>7. \A l \in DefsOf(code) \cap D : l.kind = "user"
  BY <1>6 DEF NoDefault
<1>8. /\ code' \in Seq(Items) /\ Once(code')
      /\ DefsOf(code') = DefsOf(code) \cup D /\ JumpsOf(code') = JumpsOf(code) \cup K
  BY <1>2, <1>7, CodeStep
<1>9. label_counter' >= FirstLabel
  BY ConstantsAssumption DEF TypeOK
<1>10. TypeOK'
  BY <1>2, <1>3, <1>4, <1>8, <1>9 DEF TypeOK, StackOK
<1> QED BY <1>3, <1>6, <1>8, <1>10

\* A statement with a body keeps the invariant, if its labels are new.
LEMMA OpenStep ==
  ASSUME IInv, NEW kind \in Compound, NEW form \in SUBSET {"a", "b", "c"},
         NEW numb, NEW labels, NEW left,
         Frame(kind, NewNode, numb, labels, left) \in Frames,
         NEW items, NEW D, NEW K, Emits(items, D, K),
         Open(kind, form, numb, labels, left, items),
         label_counter' \in Nat, label_counter <= label_counter',
         Pushed(frames, Frame(kind, NewNode, numb, labels, left), DefsOf(code), D, K,
                label_counter, label_counter', Len(nodes), Len(nodes) + 1),
         NoDefault(D)
  PROVE  IInv'
<1> USE DEF IInv
<1> DEFINE f == Frame(kind, NewNode, numb, labels, left)
<1>1. frames # <<>> /\ Reads(kind) /\ StackOK(frames)
  BY DEF Open, Reads, TypeOK, StackOK
<1>2. /\ frames' = Append(Consume(frames), f)
      /\ code' = code \o items /\ no_else' = FALSE /\ err' = err
  BY DEF Open, Consumed, Consume, Top
<1>3. /\ nodes' \in Seq(Nodes) /\ Len(nodes') = Len(nodes) + 1 /\ Len(nodes') <= MaxNodes
      /\ Len(nodes) \in Nat
  <2>1. nodes' = Append(nodes, Node(kind, 0, form)) /\ 0 \in Nat /\ kind \in Statement
    BY DEF Open, Statement
  <2> QED BY <2>1, <1>1, NodeStep
<1>4. f.kind # "function"
  BY DEF Frame, Compound, Loops
<1> HIDE DEF f
<1>5. StackOK(frames') /\ Like(frames, Consume(frames)) /\ StackOK(Consume(frames))
  <2>1. /\ StackOK(Consume(frames)) /\ Like(frames, Consume(frames)) /\ Consume(frames) # <<>>
        /\ \A i \in DOMAIN Consume(frames) : Consume(frames)[i].left # "one"
    BY <1>1, ConsumeProp
  <2>2. f \in Frames
    BY DEF f
  <2> QED BY <2>1, <2>2, <1>2, <1>4, PushOK
<1>6. Grows(label_counter, label_counter', Len(nodes), Len(nodes) + 1)
  BY <1>3, CodeLabels DEF Grows
<1>7. /\ LInv(frames', DefsOf(code) \cup D, JumpsOf(code) \cup K, label_counter', Len(nodes) + 1)
      /\ \A l \in DefsOf(code) \cap D : l.kind \in {"user", "default"}
  <2>1. DefsOf(code) \in SUBSET Labels /\ D \in SUBSET Labels
    BY CodeLabels, EmitsLabels
  <2>2. frames \in Seq(Frames) /\ Consume(frames) \in Seq(Frames) /\ f \in Frames
    BY <1>1, <1>5 DEF StackOK, f
  <2>3. Pushed(frames, f, DefsOf(code), D, K,
               label_counter, label_counter', Len(nodes), Len(nodes) + 1)
    BY DEF f
  <2> QED BY <2>1, <2>2, <2>3, <1>2, <1>5, <1>6, Push, ZenonT(60)
<1>8. \A l \in DefsOf(code) \cap D : l.kind = "user"
  BY <1>7 DEF NoDefault
<1>9. /\ code' \in Seq(Items) /\ Once(code')
      /\ DefsOf(code') = DefsOf(code) \cup D /\ JumpsOf(code') = JumpsOf(code) \cup K
  BY <1>2, <1>8, CodeStep
<1>10. label_counter' >= FirstLabel
  BY ConstantsAssumption DEF TypeOK
<1>11. TypeOK'
  BY <1>2, <1>3, <1>5, <1>9, <1>10 DEF TypeOK, StackOK
<1> QED BY <1>3, <1>7, <1>9, <1>11

\* A statement that is done keeps the invariant, if it prints what it owes.
LEMMA CloseStep ==
  ASSUME IInv, frames # <<>>, NEW items, NEW D, NEW K, Emits(items, D, K),
         frames' = Popped, code' = code \o items, UNCHANGED <<nodes, err>>,
         no_else' \in BOOLEAN,
         label_counter' \in Nat, label_counter <= label_counter',
         Paid(Top, DefsOf(code), D, K, label_counter, label_counter', Len(nodes)),
         NoDefault(D)
  PROVE  IInv'
<1> USE DEF IInv
<1>1. StackOK(frames)
  BY DEF TypeOK, StackOK
<1>2. frames' = SubSeq(frames, 1, Len(frames) - 1) /\ Top = frames[Len(frames)]
  BY DEF Popped, Top
<1>3. StackOK(frames')
  BY <1>1, <1>2, PopOK
<1>4. Grows(label_counter, label_counter', Len(nodes), Len(nodes))
  <2>1. \A m \in Nat : m <= m
    OBVIOUS
  <2> QED BY <2>1, CodeLabels DEF Grows
<1>5. /\ LInv(frames', DefsOf(code) \cup D, JumpsOf(code) \cup K, label_counter', Len(nodes))
      /\ \A l \in DefsOf(code) \cap D : l.kind \in {"user", "default"}
  <2>1. DefsOf(code) \in SUBSET Labels /\ D \in SUBSET Labels
    BY CodeLabels, EmitsLabels
  <2>2. frames \in Seq(Frames)
    BY <1>1 DEF StackOK
  <2>3. Paid(frames[Len(frames)], DefsOf(code), D, K, label_counter, label_counter', Len(nodes))
    BY <1>2
  <2>4. LInv(frames, DefsOf(code), JumpsOf(code), label_counter, Len(nodes))
    OBVIOUS
  <2> HIDE DEF IInv
  <2>5. /\ LInv(SubSeq(frames, 1, Len(frames) - 1), DefsOf(code) \cup D,
                JumpsOf(code) \cup K, label_counter', Len(nodes))
        /\ \A l \in DefsOf(code) \cap D : l.kind \in {"user", "default"}
    BY <2>1, <2>2, <2>3, <2>4, <1>4, Pop
  <2> QED BY <2>5, <1>2
<1>6. \A l \in DefsOf(code) \cap D : l.kind = "user"
  BY <1>5 DEF NoDefault
<1>7. /\ code' \in Seq(Items) /\ Once(code')
      /\ DefsOf(code') = DefsOf(code) \cup D /\ JumpsOf(code') = JumpsOf(code) \cup K
  BY <1>6, CodeStep
<1>8. label_counter' >= FirstLabel
  BY ConstantsAssumption DEF TypeOK
<1>9. TypeOK'
  BY <1>3, <1>7, <1>8 DEF TypeOK, StackOK
<1> QED BY <1>5, <1>7, <1>9

\* Code written as a list, piece by piece.
LEMMA Pieces ==
  /\ \A a, b \in Items : <<a, b>> = <<a>> \o <<b>>
  /\ \A a, b, c \in Items : <<a, b, c>> = <<a, b>> \o <<c>>
  /\ \A s \in Seq(Items), a \in Items : Append(s, a) = s \o <<a>>
<1>1. ASSUME NEW a \in Items, NEW b \in Items PROVE <<a, b>> = <<a>> \o <<b>>
  <2>1. <<a, b>> = Append(<<a>>, b)
    OBVIOUS
  <2>2. <<a>> \in Seq(Items)
    OBVIOUS
  <2> QED BY <2>1, <2>2, AppendIsConcat
<1>2. \A a, b, c \in Items : <<a, b, c>> = <<a, b>> \o <<c>>
  OBVIOUS
<1>3. \A s \in Seq(Items), a \in Items : Append(s, a) = s \o <<a>>
  BY AppendIsConcat
<1> QED BY <1>1, <1>2, <1>3

\* The code of an expression.
LEMMA EmitsExpr ==
  ASSUME NEW n \in Nat, NEW part \in Parts,
         NEW first \in Nat, NEW k \in Nat
  PROVE  Emits(ExprCode(n, part, first, k), Plains(first, first + k - 1), {})
<1>1. /\ ExprCode(n, part, first, k) \in Seq(Items)
      /\ Once(ExprCode(n, part, first, k))
      /\ DefsOf(ExprCode(n, part, first, k)) = Plains(first, first + k - 1)
      /\ JumpsOf(ExprCode(n, part, first, k)) = {}
  BY ExprProp
<1> QED BY <1>1 DEF Emits

\* The statement whose numb_param is the current one.
LEMMA OwnerProp ==
  ASSUME TypeOK, frames # <<>>
  PROVE  /\ Owner \in DOMAIN frames /\ frames[Owner].kind # "if"
         /\ Top.kind # "if" => Owner = Len(frames)
         /\ \A j \in Owner+1..Len(frames) : frames[j].kind = "if"
         /\ frames[Owner] \in Frames
<1> DEFINE S == {i \in DOMAIN frames : frames[i].kind # "if"}
<1>1. Len(frames) \in Nat \ {0} /\ DOMAIN frames = 1..Len(frames)
  BY TopProp DEF TypeOK, StackOK
<1>2. 1 \in S
  <2>1. 1 \in DOMAIN frames
    BY <1>1
  <2> QED BY <2>1 DEF TypeOK
<1>3. PICK m \in S : \A i \in S : i <= m
  <2>1. S # {} /\ S \in SUBSET (0..Len(frames)) /\ Len(frames) \in Nat
    BY <1>1, <1>2
  <2> HIDE DEF S
  <2> QED BY <2>1, <1>1, GreatestNat
<1>4. IsOwner(m)
  BY <1>1, <1>3 DEF IsOwner
<1>5. IsOwner(Owner)
  BY <1>4 DEF Owner
<1>6. Top.kind # "if" => Owner = Len(frames)
  <2>1. ASSUME Top.kind # "if", Owner # Len(frames) PROVE FALSE
    <3>1. Owner \in 1..Len(frames)
      BY <1>1, <1>5 DEF IsOwner
    <3>2. \A q \in Nat : \A i \in 1..q : i # q => q \in i+1..q
      OBVIOUS
    <3>3. Len(frames) \in Owner+1..Len(frames)
      BY <3>1, <3>2, <2>1, <1>1
    <3> QED BY <3>3, <2>1, <1>5 DEF IsOwner, Top
  <2> QED BY <2>1
<1>7. frames[Owner] \in Frames
  BY <1>1, <1>5, ElementOfSeq DEF TypeOK, IsOwner
<1> QED BY <1>5, <1>6, <1>7 DEF IsOwner

\* The labels of an interval may be printed when the counter goes past it.
LEMMA FreshPlains ==
  ASSUME NEW a \in Int, NEW b \in Int, NEW lc \in Int, NEW md \in Int, lc <= a, b < md,
         NEW nn, NEW mm
  PROVE  /\ \A l \in Plains(a, b) : Fresh(l, lc, md, nn, mm)
         /\ NoDefault(Plains(a, b))
<1>1. ASSUME NEW l \in Plains(a, b) PROVE l.kind = "L" /\ l.numb \in lc..md-1
  <2>1. l.kind = "L" /\ l.numb \in a..b
    BY PlainsProp
  <2>2. \A x \in a..b : x \in lc..md-1
    OBVIOUS
  <2> QED BY <2>1, <2>2
<1> QED BY <1>1 DEF Fresh, NoDefault

\* One label "L%d".
LEMMA FreshPlain ==
  ASSUME NEW m \in Int, NEW lc \in Int, NEW md \in Int, lc <= m, m < md, NEW nn, NEW mm
  PROVE  Fresh(Plain(m), lc, md, nn, mm) /\ Plain(m).kind = "L"
BY LabelProp DEF Fresh

------------------------------------------------------------------------------
\* The statements without a body.

\* A statement that prints no label of a default but what its expression prints.
LEMMA SimpleExpr ==
  ASSUME IInv, NEW kind \in Statement, NEW arg \in Nat, NEW items, NEW k \in ExprLabels,
         Emits(items, Plains(label_counter, label_counter + k - 1), {}),
         Simple(kind, arg, items), label_counter' = label_counter + k
  PROVE  IInv'
<1>1. k \in Nat /\ label_counter \in Nat
  BY ConstantsAssumption DEF IInv, TypeOK
<1>2. \A a, b \in Nat : /\ a + b \in Nat /\ a <= a + b /\ a + b - 1 < a + b
                        /\ a <= a /\ a + b - 1 \in Int /\ a \in Int
  OBVIOUS
<1> DEFINE D == Plains(label_counter, label_counter + k - 1)
<1>3. /\ \A l \in D : Fresh(l, label_counter, label_counter', Len(nodes), Len(nodes) + 1)
      /\ NoDefault(D)
  BY <1>1, <1>2, FreshPlains
<1> HIDE DEF D
<1>4. Kept(frames, DefsOf(code), D, {},
           label_counter, label_counter', Len(nodes), Len(nodes) + 1)
  BY <1>3 DEF Kept, Landing
<1>5. Emits(items, D, {})
  BY DEF D
<1>6. label_counter' \in Nat /\ label_counter <= label_counter'
  BY <1>1, <1>2
<1> QED BY <1>3, <1>4, <1>5, <1>6, SimpleStep

\* Code without jumps.
LEMMA NoJump == \A P : Landing({}, P)
BY DEF Landing

\* A statement that uses no label.
LEMMA SimpleSame ==
  ASSUME IInv, NEW kind \in Statement, NEW arg \in Nat, NEW items, NEW D, NEW K,
         Emits(items, D, K), \A l \in D : l.kind = "user",
         Landing(K, OwedBy(frames) \cup DefsOf(code)),
         Simple(kind, arg, items), UNCHANGED label_counter
  PROVE  IInv'
<1>1. /\ \A l \in D : Fresh(l, label_counter, label_counter', Len(nodes), Len(nodes) + 1)
      /\ NoDefault(D)
  BY DEF Fresh, NoDefault
<1>2. Kept(frames, DefsOf(code), D, K,
           label_counter, label_counter', Len(nodes), Len(nodes) + 1)
  BY <1>1 DEF Kept, Landing
<1>3. label_counter' \in Nat /\ label_counter <= label_counter'
  BY DEF IInv, TypeOK
<1> QED BY <1>1, <1>2, <1>3, SimpleStep

\* The label of an expression statement are those of its expression.
LEMMA ExprStatementStep == ASSUME IInv, ExprStatement PROVE IInv'
<1>1. PICK k \in ExprLabels :
        /\ Simple("expr", 0, ExprCode(NewNode, "x", label_counter, k))
        /\ label_counter' = label_counter + k
  BY DEF ExprStatement
<1>2. k \in Nat /\ label_counter \in Nat /\ NewNode \in Nat /\ "x" \in Parts
  BY ConstantsAssumption, CodeLabels DEF IInv, TypeOK, NewNode, Parts
<1>3. Emits(ExprCode(NewNode, "x", label_counter, k),
            Plains(label_counter, label_counter + k - 1), {})
  BY <1>2, EmitsExpr
<1>4. "expr" \in Statement /\ 0 \in Nat
  BY DEF Statement
<1> QED BY <1>1, <1>3, <1>4, SimpleExpr

\* Nothing is printed for an empty statement.
LEMMA EmptyStep == ASSUME IInv, Empty PROVE IInv'
<1>1. Simple("empty", 0, <<>>) /\ UNCHANGED label_counter
  BY DEF Empty
<1>2. "empty" \in Statement /\ 0 \in Nat
  BY DEF Statement
<1>3. Emits(<<>>, {}, {})
  BY EmitsItem
<1> QED BY <1>1, <1>2, <1>3, NoJump, SimpleSame

\* An asm has a label of its own.
LEMMA AsmStep == ASSUME IInv, Asm PROVE IInv'
<1> DEFINE l == Plain(label_counter)
           items == <<Obs(NewNode, "x"), Def(l)>>
<1>1. Simple("asm", 0, items) /\ label_counter' = label_counter + 1
  BY DEF Asm
<1>2. label_counter \in Nat /\ NewNode \in Nat /\ "x" \in Parts /\ 0 \in Nat /\ l \in Labels
      /\ label_counter' \in Nat /\ label_counter <= label_counter' /\ label_counter < label_counter'
  BY <1>1, CodeLabels, LabelProp DEF IInv, TypeOK, NewNode, Parts
<1>3. Emits(items, {l}, {})
  <2>1. Obs(NewNode, "x") \in Items /\ Def(l) \in Items
    BY <1>2, ItemProp
  <2>2. items = <<Obs(NewNode, "x")>> \o <<Def(l)>>
    BY <2>1, Pieces
  <2>3. Emits(<<Obs(NewNode, "x")>>, {}, {}) /\ Emits(<<Def(l)>>, {l}, {})
    BY <1>2, EmitsItem
  <2>4. Emits(<<Obs(NewNode, "x")>> \o <<Def(l)>>, {} \cup {l}, {} \cup {})
    BY <2>3, EmitsConcat
  <2> QED BY <2>2, <2>4
<1>4. /\ Fresh(l, label_counter, label_counter', Len(nodes), Len(nodes) + 1)
      /\ l.kind = "L"
  BY <1>2, FreshPlain
<1> HIDE DEF l, items
<1>5. Kept(frames, DefsOf(code), {l}, {},
           label_counter, label_counter', Len(nodes), Len(nodes) + 1) /\ NoDefault({l})
  BY <1>4 DEF Kept, NoDefault, Landing
<1>6. "asm" \in Statement
  BY DEF Statement
<1> QED BY <1>1, <1>2, <1>3, <1>5, <1>6, SimpleStep

\* A return lays the code of its expression, if it has one, and a ret.
LEMMA ReturnStep == ASSUME IInv, Return PROVE IInv'
<1>1. "return" \in Statement /\ 0 \in Nat /\ 1 \in Nat
  BY DEF Statement
<1>2. Emits(<<Ret>>, {}, {})
  BY EmitsItem
<1>3. CASE Simple("return", 0, <<Ret>>) /\ UNCHANGED label_counter
  BY <1>1, <1>2, <1>3, NoJump, SimpleSame
<1>4. CASE \E k \in ExprLabels :
             /\ Simple("return", 1, Append(ExprCode(NewNode, "x", label_counter, k), Ret))
             /\ label_counter' = label_counter + k
  <2>1. PICK k \in ExprLabels :
          /\ Simple("return", 1, Append(ExprCode(NewNode, "x", label_counter, k), Ret))
          /\ label_counter' = label_counter + k
    BY <1>4
  <2> DEFINE s == ExprCode(NewNode, "x", label_counter, k)
             D == Plains(label_counter, label_counter + k - 1)
  <2>2. k \in Nat /\ label_counter \in Nat /\ NewNode \in Nat /\ "x" \in Parts
    BY ConstantsAssumption, CodeLabels DEF IInv, TypeOK, NewNode, Parts
  <2>3. Emits(s, D, {})
    BY <2>2, EmitsExpr
  <2> HIDE DEF s, D
  <2>4. Emits(s \o <<Ret>>, D \cup {}, {} \cup {})
    BY <2>3, <1>2, EmitsConcat
  <2>5. Append(s, Ret) = s \o <<Ret>>
    <3>1. s \in Seq(Items)
      BY <2>3 DEF Emits
    <3>2. Ret \in Items
      BY <1>1, <2>2, ItemProp, LabelProp
    <3> QED BY <3>1, <3>2, Pieces
  <2>6. Emits(Append(s, Ret), D, {})
    BY <2>4, <2>5
  <2> QED BY <2>1, <2>6, <1>1, SimpleExpr DEF s, D
<1> QED BY <1>3, <1>4 DEF Return

\* A goto and its label name labels of the program.
LEMMA GotoStep == ASSUME IInv, Goto \/ Label PROVE IInv'
<1>1. PICK u \in UserLabels :
        \/ Simple("goto", u, <<Jmp(UserLabel(Function, u))>>) /\ UNCHANGED label_counter
        \/ Simple("label", u, <<Def(UserLabel(Function, u))>>) /\ UNCHANGED label_counter
  BY DEF Goto, Label
<1> DEFINE l == UserLabel(Function, u)
<1>2. frames # <<>>
  BY <1>1 DEF Simple, Reads
<1>3. l \in Labels /\ l.kind = "user"
  <2>1. Len(frames) \in Nat \ {0} /\ DOMAIN frames = 1..Len(frames) /\ frames \in Seq(Frames)
    BY <1>2, TopProp DEF IInv, TypeOK, StackOK
  <2>2. frames[1] \in Frames
    BY <2>1, ElementOfSeq
  <2>3. Function \in Int
    BY <2>2 DEF Function, Frames
  <2>4. u \in Int
    BY ConstantsAssumption
  <2> QED BY <2>3, <2>4, LabelProp
<1> HIDE DEF l
<1>4. Emits(<<Jmp(l)>>, {}, {}) /\ Emits(<<Def(l)>>, {l}, {})
  BY <1>3, EmitsItem
<1>5. "goto" \in Statement /\ "label" \in Statement /\ u \in Nat
  BY ConstantsAssumption DEF Statement
<1>6. CASE Simple("goto", u, <<Jmp(l)>>) /\ UNCHANGED label_counter
  BY <1>4, <1>5, <1>6, NoJump, SimpleSame
<1>7. CASE Simple("label", u, <<Def(l)>>) /\ UNCHANGED label_counter
  BY <1>3, <1>4, <1>5, <1>7, NoJump, SimpleSame
<1> QED BY <1>1, <1>6, <1>7 DEF l

\* An error changes nothing but err.
LEMMA HaltStep ==
  ASSUME IInv,
         NEW e \in {"E_ILLEGAL_CONTINUE", "E_ILLEGAL_BREAK", "E_ILLEGAL_ELSE", "E_SYNTAX_ERROR"},
         Halt(e)
  PROVE  IInv'
BY DEF Halt, IInv, TypeOK

\* A jump to a label that is printed or owed.
LEMMA SimpleJump ==
  ASSUME IInv, NEW kind \in {"break", "continue"}, NEW l \in Labels, l.kind = "L",
         Landing({l}, OwedBy(frames) \cup DefsOf(code)),
         Simple(kind, 0, <<Jmp(l)>>), UNCHANGED label_counter
  PROVE  IInv'
<1>1. Emits(<<Jmp(l)>>, {}, {l})
  BY EmitsItem
<1>2. kind \in Statement /\ 0 \in Nat
  BY DEF Statement
<1>3. \A x \in {} : x.kind = "user"
  OBVIOUS
<1> QED BY <1>1, <1>2, <1>3, SimpleSame

\* Where a continue is accepted, its label is printed or owed.
LEMMA ContinueStep == ASSUME IInv, Continue PROVE IInv'
<1>1. CASE Reads("continue") /\ Numb.continue < 0 /\ Halt("E_ILLEGAL_CONTINUE")
  BY <1>1, HaltStep
<1>2. CASE /\ Reads("continue") /\ Numb.continue >= 0
           /\ Simple("continue", 0, <<Jmp(Plain(Numb.continue))>>) /\ UNCHANGED label_counter
  <2> DEFINE l == Plain(Numb.continue)
  <2>1. Owner \in DOMAIN frames /\ frames[Owner].kind # "if" /\ frames[Owner] \in Frames
    BY <1>2, OwnerProp DEF Reads, IInv
  <2>2. Numb.continue \in Int
    BY <2>1 DEF Numb, Frames
  <2>3. l \in DefsOf(code) \cup OwedBy(frames)
    BY <1>2, <2>1 DEF IInv, LInv, Numb
  <2>4. l \in Labels /\ l.kind = "L"
    BY <2>2, LabelProp
  <2> HIDE DEF l
  <2>5. Landing({l}, OwedBy(frames) \cup DefsOf(code))
    BY <2>3 DEF Landing
  <2>6. Simple("continue", 0, <<Jmp(l)>>) /\ UNCHANGED label_counter
    BY <1>2 DEF l
  <2> QED BY <2>4, <2>5, <2>6, SimpleJump
<1> QED BY <1>1, <1>2 DEF Continue

\* A break that does not leave a do loop jumps to a label its statement owes.
LEMMA BreakStep == ASSUME IInv, Break PROVE IInv'
<1>1. CASE Reads("break") /\ Numb.break < 0 /\ Halt("E_ILLEGAL_BREAK")
  BY <1>1, HaltStep
<1>2. CASE /\ Reads("break") /\ Numb.break >= 0
           /\ Simple("break", 0, <<Jmp(Plain(Numb.break))>>) /\ UNCHANGED label_counter
  <2> DEFINE l == Plain(Numb.break)
  <2>1. /\ Owner \in DOMAIN frames /\ frames[Owner].kind # "if" /\ frames[Owner] \in Frames
        /\ \A j \in Owner+1..Len(frames) : frames[j].kind = "if"
    BY <1>2, OwnerProp DEF Reads, IInv
  <2>2. Numb.break \in Int
    BY <2>1 DEF Numb, Frames
  <2>3. frames[Owner].kind # "function"
    BY <1>2, <2>1, <2>2 DEF IInv, LInv, FrameOK, Numb
  <2>4. "break_in_do" \notin Dialect => frames[Owner].kind # "do"
    <3>1. ASSUME "break_in_do" \notin Dialect, frames[Owner].kind = "do" PROVE FALSE
      <4>1. Len(frames) \in Nat /\ DOMAIN frames = 1..Len(frames)
        BY LenProperties DEF IInv, TypeOK
      <4>2. \A m \in Nat : \A i, j \in 1..m : j <= i \/ j \in i+1..m
        OBVIOUS
      <4>3. \A j \in Breakable : j <= Owner
        BY <4>1, <4>2, <2>1 DEF Breakable, Loops
      <4>4. BreaksDo
        BY <4>3, <3>1, <2>1 DEF BreaksDo, Breakable, Loops
      <4> QED BY <4>4, <3>1 DEF Break
    <3> QED BY <3>1
  <2>5. "break_in_do" \notin Dialect => frames[Owner].kind \in {"while", "for", "switch"}
    BY <2>1, <2>3, <2>4 DEF Frames, Compound, Loops
  <2>6. "break_in_do" \notin Dialect => l \in OwedBy(frames)
    BY <2>1, <2>5 DEF OwedBy, Owes, Numb
  <2>7. l \in Labels /\ l.kind = "L"
    BY <2>2, LabelProp
  <2> HIDE DEF l
  <2>8. Landing({l}, OwedBy(frames) \cup DefsOf(code))
    BY <2>6 DEF Landing
  <2>9. Simple("break", 0, <<Jmp(l)>>) /\ UNCHANGED label_counter
    BY <1>2 DEF l
  <2> QED BY <2>7, <2>8, <2>9, SimpleJump
<1> QED BY <1>1, <1>2 DEF Break

------------------------------------------------------------------------------
\* The statements that change the frame they are in.

\* The innermost frame is replaced.
LEMMA ReplaceTop ==
  ASSUME NEW fs, StackOK(fs), fs # <<>>, NEW g \in Frames, g.kind = fs[Len(fs)].kind
  PROVE  LET gs == [fs EXCEPT ![Len(fs)] = g]
         IN  /\ StackOK(gs) /\ Len(gs) = Len(fs) /\ DOMAIN gs = DOMAIN fs
             /\ gs[Len(fs)] = g /\ \A i \in DOMAIN fs \ {Len(fs)} : gs[i] = fs[i]
<1> DEFINE n == Len(fs)
           gs == [fs EXCEPT ![n] = g]
<1>1. n \in Nat \ {0} /\ n \in DOMAIN fs /\ DOMAIN fs = 1..n
  BY TopProp
<1>2. gs \in Seq(Frames) /\ Len(gs) = n /\ DOMAIN gs = 1..n
      /\ \A i \in 1..n : gs[i] = IF i = n THEN g ELSE fs[i]
  BY <1>1, ExceptSeq DEF StackOK
<1> HIDE DEF gs
<1>3. \A m \in Nat : \A i \in 1..m-1 : i \in 1..m /\ i # m
  OBVIOUS
<1>4. \A i \in 1..n : gs[i].kind = "function" <=> i = 1
  BY <1>1, <1>2 DEF StackOK
<1>5. \A i \in 1..n-1 : gs[i].left # "one"
  BY <1>1, <1>2, <1>3 DEF StackOK
<1>6. StackOK(gs)
  BY <1>1, <1>2, <1>4, <1>5 DEF StackOK
<1> QED BY <1>1, <1>2, <1>6 DEF gs

\* Such a step keeps the invariant.
LEMMA UpdateStep ==
  ASSUME IInv, NEW items, NEW D, NEW K, Emits(items, D, K),
         code' = code \o items, StackOK(frames'), UNCHANGED <<label_counter, err>>,
         no_else' \in BOOLEAN,
         nodes' \in Seq(Nodes), Len(nodes') <= MaxNodes, Len(nodes) <= Len(nodes'),
         Updated(frames, frames', Len(frames), DefsOf(code), D, K,
                 label_counter, label_counter, Len(nodes), Len(nodes')),
         \A l \in DefsOf(code) \cap D : l.kind # "default"
  PROVE  IInv'
<1>1. Len(nodes') \in Nat
  BY LenProperties
<1>2. Grows(label_counter, label_counter, Len(nodes), Len(nodes'))
  <2>1. \A m \in Nat : m <= m
    OBVIOUS
  <2> QED BY <1>1, <2>1, CodeLabels DEF Grows, IInv
<1>3. /\ DefsOf(code) \in SUBSET Labels /\ D \in SUBSET Labels
      /\ frames \in Seq(Frames) /\ frames' \in Seq(Frames)
      /\ LInv(frames, DefsOf(code), JumpsOf(code), label_counter, Len(nodes))
  BY CodeLabels, EmitsLabels DEF IInv, TypeOK, StackOK
<1>4. /\ LInv(frames', DefsOf(code) \cup D, JumpsOf(code) \cup K, label_counter, Len(nodes'))
      /\ \A l \in DefsOf(code) \cap D : l.kind \in {"user", "default"}
  BY <1>2, <1>3, Update
<1>5. \A l \in DefsOf(code) \cap D : l.kind = "user"
  BY <1>4
<1>6. /\ code' \in Seq(Items) /\ Once(code')
      /\ DefsOf(code') = DefsOf(code) \cup D /\ JumpsOf(code') = JumpsOf(code) \cup K
  BY <1>5, CodeStep DEF IInv
<1>7. TypeOK'
  BY <1>6 DEF TypeOK, StackOK, IInv
<1> QED BY <1>4, <1>6, <1>7 DEF IInv

\* In a program of plain C, case and default stand in the braces of their switch:
\* the frame they change is the innermost one.
LEMMA InSwitch ==
  ASSUME IInv, frames # <<>>, MayLabel, Numb.switch >= 0, "nested_case" \notin Dialect
  PROVE  /\ Top.kind = "switch" /\ Owner = Len(frames) /\ Numb = Top.numb
         /\ Top \in Frames /\ Used(Top) = Top /\ Consumed = frames
         /\ StackOK(frames) /\ FrameOK(Top, DefsOf(code), label_counter)
<1>1. StackOK(frames)
  BY DEF IInv, TypeOK, StackOK
<1>2. Len(frames) \in DOMAIN frames /\ Top \in Frames
  BY <1>1, TopProp DEF Top
<1>3. Top.kind = "switch" /\ Top.left = "many"
  <2>1. Numb.switch \in Int
    BY OwnerProp DEF Numb, Frames, IInv
  <2> QED BY <2>1 DEF MayLabel, InBraces
<1>4. Owner = Len(frames) /\ Numb = Top.numb
  BY <1>3, OwnerProp DEF Numb, Top, IInv
<1>5. Used(Top) = Top
  BY <1>2, <1>3 DEF Used, Frames
<1>6. Consumed = frames
  BY <1>1, <1>5 DEF Consumed, Top, StackOK
<1>7. FrameOK(Top, DefsOf(code), label_counter)
  BY <1>2 DEF IInv, LInv, Top
<1> QED BY <1>1, <1>2, <1>3, <1>4, <1>5, <1>6, <1>7

\* A case prints the label that was owed, and jumps to the next one, which now is.
LEMMA CaseStep == ASSUME IInv, Case, "nested_case" \notin Dialect PROVE IInv'
<1> DEFINE n == Numb.switch
           s == Numb.serial
<1>1. PICK v \in CaseValues :
        /\ Reads("case") /\ MayCase(v)
        /\ \/ /\ n >= 0
              /\ nodes' = Append(nodes, Node("case", v, {}))
              /\ frames' = [Consumed EXCEPT ![Owner].numb.serial = s + 1]
              /\ code' = code \o <<Def(CaseLabel(n, s)), CmpJnz(v, CaseLabel(n, s + 1))>>
              /\ no_else' = FALSE
              /\ UNCHANGED <<label_counter, err>>
           \/ n < 0 /\ Halt("E_SYNTAX_ERROR")
  BY DEF Case
<1>2. CASE n < 0 /\ Halt("E_SYNTAX_ERROR")
  BY <1>2, HaltStep
<1>3. CASE ~(n < 0 /\ Halt("E_SYNTAX_ERROR"))
  <2> DEFINE f == Top
             g == [f EXCEPT !.numb.serial = s + 1]
             l == CaseLabel(n, s)
             k == CaseLabel(n, s + 1)
  <2>1. frames # <<>> /\ MayLabel /\ Numb.switch >= 0 /\ v \in Nat
    BY <1>1, <1>3, ConstantsAssumption DEF Reads, MayCase
  <2>2. /\ f.kind = "switch" /\ Owner = Len(frames) /\ n = f.numb.switch /\ s = f.numb.serial
        /\ f \in Frames /\ Consumed = frames
        /\ StackOK(frames) /\ FrameOK(f, DefsOf(code), label_counter)
    BY <2>1, InSwitch
  <2>3. n \in Int /\ s \in Int /\ s + 1 \in Int
    BY <2>2 DEF Frames
  <2>4. /\ g \in Frames /\ g.kind = f.kind /\ g.part = f.part /\ g.labels = f.labels
        /\ g.numb.switch = f.numb.switch /\ g.numb.serial = s + 1 /\ g.numb.break = f.numb.break
        /\ g.numb.continue = f.numb.continue /\ g.numb.default = f.numb.default
    BY <2>2, <2>3 DEF Frames
  <2>5. frames' = [frames EXCEPT ![Len(frames)] = g]
    BY <1>1, <1>3, <2>2 DEF Top
  <2>6. /\ l \in Labels /\ l.kind = "case" /\ l.numb = n /\ l.serial = s
        /\ k \in Labels /\ k.kind = "case"
    BY <2>3, LabelProp
  <2>7. l = End(f) /\ k = End(g)
    BY <2>2, <2>4 DEF End
  <2>8. Emits(<<Def(l), CmpJnz(v, k)>>, {l}, {k})
    <3>1. Emits(<<Def(l)>>, {l}, {}) /\ Emits(<<CmpJnz(v, k)>>, {}, {k})
      BY <2>1, <2>6, EmitsItem
    <3>2. Emits(<<Def(l)>> \o <<CmpJnz(v, k)>>, {l} \cup {}, {} \cup {k})
      BY <3>1, EmitsConcat
    <3>3. Def(l) \in Items /\ CmpJnz(v, k) \in Items
      BY <2>1, <2>6, ItemProp DEF Parts
    <3>4. <<Def(l), CmpJnz(v, k)>> = <<Def(l)>> \o <<CmpJnz(v, k)>>
      BY <3>3, Pieces
    <3> QED BY <3>2, <3>4
  <2>9. code' = code \o <<Def(l), CmpJnz(v, k)>> /\ no_else' \in BOOLEAN
        /\ UNCHANGED <<label_counter, err>>
    BY <1>1, <1>3
  <2>10. nodes' \in Seq(Nodes) /\ Len(nodes') <= MaxNodes /\ Len(nodes) <= Len(nodes')
    <3>1. nodes' = Append(nodes, Node("case", v, {})) /\ "case" \in Statement
      BY <1>1, <1>3 DEF Statement
    <3>2. nodes' \in Seq(Nodes) /\ Len(nodes') = Len(nodes) + 1 /\ Len(nodes') <= MaxNodes
          /\ Len(nodes) \in Nat
      BY <3>1, <1>1, <2>1, NodeStep DEF IInv
    <3> QED BY <3>2
  <2> HIDE DEF g, l, k, n, s
  <2>11. /\ StackOK(frames') /\ Len(frames') = Len(frames) /\ DOMAIN frames' = DOMAIN frames
         /\ frames'[Len(frames)] = g
         /\ \A i \in DOMAIN frames \ {Len(frames)} : frames'[i] = frames[i]
    BY <2>1, <2>2, <2>4, <2>5, ReplaceTop DEF Top
  <2>12. Owes(g) = Owes(f) /\ Owes(f) = {Plain(f.numb.break)}
    BY <2>2, <2>4 DEF Owes
  <2>13. FrameOK(g, DefsOf(code) \cup {l}, label_counter)
    <3>1. \A x \in Owes(f) : x.kind = "L"
      BY <2>2, OwesProp
    <3>2. \A x \in Owes(g) : x.numb < label_counter /\ x \notin DefsOf(code) \cup {l}
      BY <3>1, <2>2, <2>6, <2>12 DEF FrameOK
    <3>3. \A x \in DefsOf(code) \cup {l} :
            x.kind = "case" /\ x.numb = f.numb.switch => x.serial < s + 1
      <4>1. ASSUME NEW x \in DefsOf(code), x.kind = "case", x.numb = f.numb.switch
            PROVE  x.serial < s + 1
        <5>1. x \in Labels /\ x.serial < s
          BY <4>1, <2>2, CodeLabels DEF FrameOK, IInv
        <5>2. x.serial \in Int
          BY <5>1 DEF Labels
        <5> QED BY <5>1, <5>2, <2>3
      <4> QED BY <4>1, <2>3, <2>6
    <3> QED BY <3>2, <3>3, <2>2, <2>4 DEF FrameOK
  <2>14. {k} \subseteq EndsOf(frames')
    <3>1. Len(frames) \in DOMAIN frames
      BY <2>1, <2>2, TopProp
    <3> QED BY <3>1, <2>2, <2>4, <2>7, <2>11 DEF EndsOf
  <2>15. Updated(frames, frames', Len(frames), DefsOf(code), {l}, {k},
                 label_counter, label_counter, Len(nodes), Len(nodes'))
    <3>1. Len(frames) \in DOMAIN frames
      BY <2>1, <2>2, TopProp
    <3>2. \A x \in {l} :
            NewFor(x, frames[Len(frames)], label_counter, label_counter, Len(nodes), Len(nodes'))
      BY <2>2, <2>7 DEF NewFor, Top
    <3>3. \A i \in DOMAIN frames \ {Len(frames)} : Same(frames[i], frames'[i])
      BY <2>11 DEF Same
    <3> QED BY <3>1, <3>2, <3>3, <2>2, <2>4, <2>7, <2>11, <2>12, <2>13, <2>14 DEF Updated, Top, Landing
  <2>16. \A x \in DefsOf(code) \cap {l} : x.kind # "default"
    BY <2>6
  <2> QED BY <2>8, <2>9, <2>10, <2>11, <2>15, <2>16, UpdateStep
<1> QED BY <1>2, <1>3

\* A default prints its label, which no default of this switch has printed.
LEMMA DefaultStep == ASSUME IInv, Default, "nested_case" \notin Dialect PROVE IInv'
<1> DEFINE n == Numb.switch
<1>1. /\ Reads("default") /\ MayDefault
      /\ \/ /\ n >= 0
            /\ nodes' = Append(nodes, Node("default", 0, {}))
            /\ frames' = [Consumed EXCEPT ![Owner].numb.default = TRUE]
            /\ code' = Append(code, Def(DefaultLabel(n)))
            /\ no_else' = FALSE
            /\ UNCHANGED <<label_counter, err>>
         \/ n < 0 /\ Halt("E_SYNTAX_ERROR")
  BY DEF Default
<1>2. CASE n < 0 /\ Halt("E_SYNTAX_ERROR")
  BY <1>2, HaltStep
<1>3. CASE ~(n < 0 /\ Halt("E_SYNTAX_ERROR"))
  <2> DEFINE f == Top
             g == [f EXCEPT !.numb.default = TRUE]
             l == DefaultLabel(n)
  <2>1. frames # <<>> /\ MayLabel /\ Numb.switch >= 0 /\ 0 \in Nat
    BY <1>1, <1>3 DEF Reads, MayDefault
  <2>2. /\ f.kind = "switch" /\ Owner = Len(frames) /\ n = f.numb.switch
        /\ f \in Frames /\ Consumed = frames
        /\ StackOK(frames) /\ FrameOK(f, DefsOf(code), label_counter)
    BY <2>1, InSwitch
  <2>3. n \in Int
    BY <2>2 DEF Frames
  <2>4. /\ g \in Frames /\ g.kind = f.kind /\ g.part = f.part /\ g.labels = f.labels
        /\ g.numb.switch = f.numb.switch /\ g.numb.serial = f.numb.serial
        /\ g.numb.break = f.numb.break /\ g.numb.continue = f.numb.continue
    BY <2>2 DEF Frames
  <2>5. frames' = [frames EXCEPT ![Len(frames)] = g]
    BY <1>1, <1>3, <2>2 DEF Top
  <2>6. l \in Labels /\ l.kind = "default" /\ l.numb = n
    BY <2>3, LabelProp
  <2>7. Emits(<<Def(l)>>, {l}, {})
    BY <2>6, EmitsItem
  <2>8. code' = code \o <<Def(l)>> /\ no_else' \in BOOLEAN /\ UNCHANGED <<label_counter, err>>
    <3>1. Def(l) \in Items /\ code \in Seq(Items)
      BY <2>1, <2>6, ItemProp DEF Parts, IInv, TypeOK
    <3> QED BY <3>1, <1>1, <1>3, Pieces
  <2>9. nodes' \in Seq(Nodes) /\ Len(nodes') <= MaxNodes /\ Len(nodes) <= Len(nodes')
    <3>1. nodes' = Append(nodes, Node("default", 0, {})) /\ "default" \in Statement
      BY <1>1, <1>3 DEF Statement
    <3>2. nodes' \in Seq(Nodes) /\ Len(nodes') = Len(nodes) + 1 /\ Len(nodes') <= MaxNodes
          /\ Len(nodes) \in Nat
      BY <3>1, <1>1, <2>1, NodeStep DEF IInv
    <3> QED BY <3>2
  <2>10. l \notin DefsOf(code)
    BY <1>1 DEF MayDefault, DefsOf
  <2>11. l = DefaultLabel(g.numb.switch)
    BY <2>2, <2>4
  <2> HIDE DEF g, l, n
  <2>12. /\ StackOK(frames') /\ Len(frames') = Len(frames) /\ DOMAIN frames' = DOMAIN frames
         /\ frames'[Len(frames)] = g
         /\ \A i \in DOMAIN frames \ {Len(frames)} : frames'[i] = frames[i]
    BY <2>1, <2>2, <2>4, <2>5, ReplaceTop DEF Top
  <2>13. Owes(g) = Owes(f) /\ Owes(f) = {Plain(f.numb.break)} /\ End(g) = End(f)
    BY <2>2, <2>4 DEF Owes, End
  <2>14. FrameOK(g, DefsOf(code) \cup {l}, label_counter)
    <3>1. \A x \in Owes(f) : x.kind = "L"
      BY <2>2, OwesProp
    <3>2. \A x \in Owes(g) : x.numb < label_counter /\ x \notin DefsOf(code) \cup {l}
      BY <3>1, <2>2, <2>6, <2>13 DEF FrameOK
    <3>3. \A x \in DefsOf(code) \cup {l} :
            x.kind = "case" /\ x.numb = f.numb.switch => x.serial < f.numb.serial
      BY <2>2, <2>6 DEF FrameOK
    <3> QED BY <3>2, <3>3, <2>2, <2>4, <2>11 DEF FrameOK
  <2>15. Updated(frames, frames', Len(frames), DefsOf(code), {l}, {},
                 label_counter, label_counter, Len(nodes), Len(nodes'))
    <3>1. Len(frames) \in DOMAIN frames
      BY <2>1, <2>2, TopProp
    <3>2. \A x \in {l} :
            NewFor(x, frames[Len(frames)], label_counter, label_counter, Len(nodes), Len(nodes'))
      BY <2>2, <2>6 DEF NewFor, Fresh, FrameOK
    <3>3. \A i \in DOMAIN frames \ {Len(frames)} : Same(frames[i], frames'[i])
      BY <2>12 DEF Same
    <3> QED BY <3>1, <3>2, <3>3, <2>2, <2>4, <2>12, <2>13, <2>14 DEF Updated, Top, Landing
  <2>16. \A x \in DefsOf(code) \cap {l} : x.kind # "default"
    BY <2>10
  <2> QED BY <2>7, <2>8, <2>9, <2>12, <2>15, <2>16, UpdateStep
<1> QED BY <1>2, <1>3

\* What an if, or its else, does when it comes to its end.
LEMMA IfTop ==
  ASSUME IInv, Closes("if")
  PROVE  /\ frames # <<>> /\ StackOK(frames) /\ Top \in Frames /\ Top.kind = "if"
         /\ Top = frames[Len(frames)] /\ Len(frames) \in DOMAIN frames
         /\ Top.labels.false \in Int /\ Top.labels.end \in Int
         /\ Top.labels.false # Top.labels.end
         /\ FrameOK(Top, DefsOf(code), label_counter) /\ ElseAfter \in BOOLEAN
<1>1. frames # <<>> /\ StackOK(frames) /\ Top.kind = "if"
  BY DEF Closes, IInv, TypeOK, StackOK
<1>2. Top \in Frames /\ Len(frames) \in DOMAIN frames
  BY <1>1, TopProp DEF Top
<1>3. FrameOK(Top, DefsOf(code), label_counter)
  BY <1>2 DEF IInv, LInv, Top
<1>4. Top.labels.false \in Int /\ Top.labels.end \in Int
  BY <1>2 DEF Frames
<1>5. ElseAfter \in BOOLEAN
  BY DEF ElseAfter, IInv, TypeOK
<1> QED BY <1>1, <1>2, <1>3, <1>4, <1>5 DEF FrameOK, Top

\* An else prints the first label the if owes and jumps to the second.
LEMMA ElseStep == ASSUME IInv, Else PROVE IInv'
<1>1. PICK braces \in BOOLEAN :
        /\ Then
        /\ frames' = [frames EXCEPT ![Len(frames)].left = LeftOf(braces),
                                    ![Len(frames)].part = "else"]
        /\ no_else' = FALSE
  BY DEF Else
<1> DEFINE f == Top
           g == [f EXCEPT !.left = LeftOf(braces), !.part = "else"]
           l == Plain(f.labels.false)
           k == Plain(f.labels.end)
<1>2. /\ frames # <<>> /\ StackOK(frames) /\ f \in Frames /\ f.kind = "if"
      /\ f = frames[Len(frames)] /\ Len(frames) \in DOMAIN frames
      /\ f.labels.false \in Int /\ f.labels.end \in Int
      /\ f.labels.false # f.labels.end
      /\ FrameOK(f, DefsOf(code), label_counter)
  BY <1>1, IfTop DEF Then
<1>3. f.part = "body" /\ code' = code \o <<Jmp(k), Def(l)>>
      /\ UNCHANGED <<label_counter, nodes, err>>
  BY <1>1 DEF Then
<1>4. l \in Labels /\ k \in Labels /\ l.kind = "L" /\ k.kind = "L" /\ l # k
  BY <1>2, LabelProp, PlainsProp
<1>5. g \in Frames /\ g.kind = f.kind /\ g.part = "else" /\ g.labels = f.labels /\ g.numb = f.numb
  <2>1. LeftOf(braces) \in {"many", "one", "none"}
    BY DEF LeftOf
  <2> QED BY <2>1, <1>2 DEF Frames
<1>6. frames' = [frames EXCEPT ![Len(frames)] = g]
  BY <1>1, <1>2 DEF StackOK
<1>7. Owes(f) = {l, k} /\ Owes(g) = {k}
  BY <1>2, <1>3, <1>5 DEF Owes
<1>8. Emits(<<Jmp(k), Def(l)>>, {l}, {k})
  <2>1. Emits(<<Jmp(k)>>, {}, {k}) /\ Emits(<<Def(l)>>, {l}, {})
    BY <1>4, EmitsItem
  <2>2. Emits(<<Jmp(k)>> \o <<Def(l)>>, {} \cup {l}, {k} \cup {})
    BY <2>1, EmitsConcat
  <2>3. Jmp(k) \in Items /\ Def(l) \in Items
    <3>1. 0 \in Nat /\ "x" \in Parts
      BY DEF Parts
    <3> QED BY <3>1, <1>4, ItemProp
  <2>4. <<Jmp(k), Def(l)>> = <<Jmp(k)>> \o <<Def(l)>>
    BY <2>3, Pieces
  <2> QED BY <2>2, <2>4
<1> HIDE DEF f, g, l, k
<1>9. /\ StackOK(frames') /\ Len(frames') = Len(frames) /\ DOMAIN frames' = DOMAIN frames
      /\ frames'[Len(frames)] = g
      /\ \A i \in DOMAIN frames \ {Len(frames)} : frames'[i] = frames[i]
  BY <1>2, <1>5, <1>6, ReplaceTop
<1>10. FrameOK(g, DefsOf(code) \cup {l}, label_counter)
  <2>1. \A x \in Owes(g) : x.numb < label_counter /\ x \notin DefsOf(code) \cup {l}
    BY <1>2, <1>4, <1>7 DEF FrameOK
  <2> QED BY <2>1, <1>2, <1>5 DEF FrameOK
<1>11. k \in OwedBy(frames')
  BY <1>2, <1>7, <1>9 DEF OwedBy
<1>12. Updated(frames, frames', Len(frames), DefsOf(code), {l}, {k},
               label_counter, label_counter, Len(nodes), Len(nodes'))
  <2>1. \A x \in {l} :
          NewFor(x, frames[Len(frames)], label_counter, label_counter, Len(nodes), Len(nodes'))
    BY <1>2, <1>7 DEF NewFor
  <2>2. \A i \in DOMAIN frames \ {Len(frames)} : Same(frames[i], frames'[i])
    BY <1>9 DEF Same
  <2>3. f.kind # "switch"
    BY <1>2
  <2> QED BY <2>1, <2>2, <2>3, <1>2, <1>5, <1>7, <1>9, <1>10, <1>11 DEF Updated, Landing
<1>13. nodes' \in Seq(Nodes) /\ Len(nodes') <= MaxNodes /\ Len(nodes) <= Len(nodes')
  <2>1. \A m \in Nat : m <= m
    OBVIOUS
  <2> QED BY <2>1, <1>3, CodeLabels DEF IInv, TypeOK
<1>14. no_else' \in BOOLEAN /\ \A x \in DefsOf(code) \cap {l} : x.kind # "default"
  BY <1>1, <1>4
<1> QED BY <1>3, <1>8, <1>9, <1>12, <1>13, <1>14, UpdateStep

------------------------------------------------------------------------------
\* The statements that come to their end.

\* One without an else prints both labels the if owes.
LEMMA NoElseStep == ASSUME IInv, NoElse PROVE IInv'
<1> DEFINE l == Plain(Top.labels.false)
           k == Plain(Top.labels.end)
           items == <<Jmp(k), Def(l), Def(k)>>
<1>1. /\ frames # <<>> /\ Top \in Frames /\ Top.kind = "if"
      /\ Top.labels.false \in Int /\ Top.labels.end \in Int
      /\ Top.labels.false # Top.labels.end
      /\ FrameOK(Top, DefsOf(code), label_counter)
  BY IfTop DEF NoElse
<1>2. /\ Top.part = "body" /\ frames' = Popped /\ code' = code \o items
      /\ no_else' \in BOOLEAN /\ UNCHANGED <<label_counter, nodes, err>>
  BY DEF NoElse
<1>3. l \in Labels /\ k \in Labels /\ l.kind = "L" /\ k.kind = "L" /\ l # k
  BY <1>1, LabelProp, PlainsProp
<1>4. Owes(Top) = {l, k}
  BY <1>1, <1>2 DEF Owes
<1> HIDE DEF l, k
<1>5. Emits(items, {l, k}, {k})
  <2>1. Emits(<<Jmp(k)>>, {}, {k}) /\ Emits(<<Def(l)>>, {l}, {}) /\ Emits(<<Def(k)>>, {k}, {})
    BY <1>3, EmitsItem
  <2>2. Emits(<<Jmp(k)>> \o <<Def(l)>>, {} \cup {l}, {k} \cup {})
    BY <2>1, EmitsConcat
  <2>3. Emits((<<Jmp(k)>> \o <<Def(l)>>) \o <<Def(k)>>, ({} \cup {l}) \cup {k}, ({k} \cup {}) \cup {})
    BY <2>1, <2>2, <1>3, EmitsConcat
  <2>4. Jmp(k) \in Items /\ Def(l) \in Items /\ Def(k) \in Items
    <3>1. 0 \in Nat /\ "x" \in Parts
      BY DEF Parts
    <3> QED BY <3>1, <1>3, ItemProp
  <2>5. items = (<<Jmp(k)>> \o <<Def(l)>>) \o <<Def(k)>>
    BY <2>4, Pieces
  <2>6. ({} \cup {l}) \cup {k} = {l, k} /\ ({k} \cup {}) \cup {} = {k}
    OBVIOUS
  <2> QED BY <2>3, <2>5, <2>6
<1> HIDE DEF items
<1>6. Paid(Top, DefsOf(code), {l, k}, {k}, label_counter, label_counter', Len(nodes))
  BY <1>1, <1>4 DEF Paid, NewFor
<1>7. NoDefault({l, k}) /\ label_counter' \in Nat /\ label_counter <= label_counter'
  BY <1>2, <1>3 DEF NoDefault, IInv, TypeOK
<1> QED BY <1>1, <1>2, <1>5, <1>6, <1>7, CloseStep

\* One with an else has printed the first of them.
LEMMA CloseElseStep == ASSUME IInv, CloseElse PROVE IInv'
<1> DEFINE k == Plain(Top.labels.end)
<1>1. /\ frames # <<>> /\ Top \in Frames /\ Top.kind = "if" /\ Top.labels.end \in Int
      /\ ElseAfter \in BOOLEAN
  BY IfTop DEF CloseElse
<1>2. /\ Top.part = "else" /\ frames' = Popped /\ code' = code \o <<Def(k)>>
      /\ no_else' \in BOOLEAN /\ UNCHANGED <<label_counter, nodes, err>>
  BY <1>1 DEF CloseElse, Close
<1>3. k \in Labels /\ k.kind = "L"
  BY <1>1, LabelProp
<1>4. Owes(Top) = {k}
  BY <1>1, <1>2 DEF Owes
<1> HIDE DEF k
<1>5. Emits(<<Def(k)>>, {k}, {})
  BY <1>3, EmitsItem
<1>6. Paid(Top, DefsOf(code), {k}, {}, label_counter, label_counter', Len(nodes))
  BY <1>1, <1>4 DEF Paid, NewFor
<1>7. NoDefault({k}) /\ label_counter' \in Nat /\ label_counter <= label_counter'
  BY <1>2, <1>3 DEF NoDefault, IInv, TypeOK
<1> QED BY <1>1, <1>2, <1>5, <1>6, <1>7, CloseStep

\* The statement that comes to its end, and the types of its labels.
LEMMA DoneTop ==
  ASSUME IInv, NEW kind, Closes(kind)
  PROVE  /\ frames # <<>> /\ Top \in Frames /\ Top.kind = kind /\ ElseAfter \in BOOLEAN
         /\ FrameOK(Top, DefsOf(code), label_counter)
         /\ Top.node \in Nat /\ Top.labels.top \in Int
         /\ Top.numb.break \in Int /\ Top.numb.continue \in Int
         /\ Top.numb.switch \in Int /\ Top.numb.serial \in Int
<1>1. frames # <<>> /\ StackOK(frames) /\ Top.kind = kind
  BY DEF Closes, IInv, TypeOK, StackOK
<1>2. Top \in Frames /\ Len(frames) \in DOMAIN frames
  BY <1>1, TopProp DEF Top
<1>3. FrameOK(Top, DefsOf(code), label_counter)
  BY <1>2 DEF IInv, LInv, Top
<1>4. /\ Top.node \in Nat /\ Top.labels.top \in Int
      /\ Top.numb.break \in Int /\ Top.numb.continue \in Int
      /\ Top.numb.switch \in Int /\ Top.numb.serial \in Int
  BY <1>2 DEF Frames
<1>5. ElseAfter \in BOOLEAN
  BY DEF ElseAfter, IInv, TypeOK
<1> QED BY <1>1, <1>2, <1>3, <1>4, <1>5

\* A while or a for prints its break label; it jumps back to its continue label.
LEMMA CloseLoopStep == ASSUME IInv, CloseLoop PROVE IInv'
<1> DEFINE b == Plain(Top.numb.break)
           c == Plain(Top.numb.continue)
           items == <<Jmp(c), Def(b)>>
<1>1. /\ frames # <<>> /\ Top \in Frames /\ Top.kind \in {"while", "for"}
      /\ ElseAfter \in BOOLEAN /\ FrameOK(Top, DefsOf(code), label_counter)
      /\ Top.numb.break \in Int /\ Top.numb.continue \in Int
  BY DoneTop DEF CloseLoop
<1>2. /\ frames' = Popped /\ code' = code \o items
      /\ no_else' \in BOOLEAN /\ UNCHANGED <<label_counter, nodes, err>>
  BY <1>1 DEF CloseLoop, Close
<1>3. b \in Labels /\ c \in Labels /\ b.kind = "L" /\ c.kind = "L"
  BY <1>1, LabelProp
<1>4. Owes(Top) = {b} /\ c \in DefsOf(code)
  BY <1>1 DEF Owes, FrameOK
<1> HIDE DEF b, c
<1>5. Emits(items, {b}, {c})
  <2>1. Emits(<<Jmp(c)>>, {}, {c}) /\ Emits(<<Def(b)>>, {b}, {})
    BY <1>3, EmitsItem
  <2>2. Emits(<<Jmp(c)>> \o <<Def(b)>>, {} \cup {b}, {c} \cup {})
    BY <2>1, EmitsConcat
  <2>3. Jmp(c) \in Items /\ Def(b) \in Items
    <3>1. 0 \in Nat /\ "x" \in Parts
      BY DEF Parts
    <3> QED BY <3>1, <1>3, ItemProp
  <2>4. items = <<Jmp(c)>> \o <<Def(b)>>
    BY <2>3, Pieces
  <2> QED BY <2>2, <2>4
<1> HIDE DEF items
<1>6. Paid(Top, DefsOf(code), {b}, {c}, label_counter, label_counter', Len(nodes))
  BY <1>1, <1>4 DEF Paid, NewFor
<1>7. NoDefault({b}) /\ label_counter' \in Nat /\ label_counter <= label_counter'
  BY <1>2, <1>3 DEF NoDefault, IInv, TypeOK
<1> QED BY <1>1, <1>2, <1>5, <1>6, <1>7, CloseStep

\* A do prints its continue label and the labels of its condition; it jumps back
\* to its first label.
LEMMA CloseDoStep == ASSUME IInv, CloseDo PROVE IInv'
<1> DEFINE c == Plain(Top.numb.continue)
           t == Plain(Top.labels.top)
<1>1. PICK k \in ExprLabels :
        /\ Closes("do")
        /\ Close(<<Def(c)>> \o ExprCode(Top.node, "test", label_counter, k) \o <<Jnz(t)>>)
        /\ label_counter' = label_counter + k
  BY DEF CloseDo
<1> DEFINE s == ExprCode(Top.node, "test", label_counter, k)
           D == Plains(label_counter, label_counter + k - 1)
           items == <<Def(c)>> \o s \o <<Jnz(t)>>
<1>2. /\ frames # <<>> /\ Top \in Frames /\ Top.kind = "do"
      /\ ElseAfter \in BOOLEAN /\ FrameOK(Top, DefsOf(code), label_counter)
      /\ Top.node \in Nat /\ Top.labels.top \in Int /\ Top.numb.continue \in Int
  BY <1>1, DoneTop
<1>3. /\ frames' = Popped /\ code' = code \o items
      /\ no_else' \in BOOLEAN /\ UNCHANGED <<nodes, err>>
  BY <1>1, <1>2 DEF Close
<1>4. c \in Labels /\ t \in Labels /\ c.kind = "L" /\ t.kind = "L"
  BY <1>2, LabelProp
<1>5. Owes(Top) = {c} /\ t \in DefsOf(code)
  BY <1>2 DEF Owes, FrameOK
<1>6. k \in Nat /\ label_counter \in Nat /\ "test" \in Parts
  BY ConstantsAssumption, CodeLabels DEF IInv, Parts
<1>7. Emits(s, D, {})
  BY <1>2, <1>6, EmitsExpr
<1>8. /\ \A l \in D : Fresh(l, label_counter, label_counter', Len(nodes), Len(nodes))
      /\ NoDefault(D)
      /\ label_counter' \in Nat /\ label_counter <= label_counter'
  <2>1. \A a, b \in Nat : /\ a + b \in Nat /\ a <= a + b /\ a + b - 1 < a + b
                          /\ a <= a /\ a + b - 1 \in Int /\ a \in Int
    OBVIOUS
  <2>2. label_counter' = label_counter + k
    BY <1>1
  <2> QED BY <2>1, <2>2, <1>6, FreshPlains
<1>9. c \notin D
  <2>1. ASSUME c \in D PROVE FALSE
    <3>1. c.numb \in label_counter..label_counter+k-1
      BY <2>1, <1>6, PlainsProp
    <3>2. c.numb < label_counter
      BY <1>2, <1>5 DEF FrameOK
    <3> QED BY <3>1, <3>2, <1>6
  <2> QED BY <2>1
<1> HIDE DEF c, t, s, D
<1>10. Emits(items, {c} \cup D, {t})
  <2>1. Emits(<<Def(c)>>, {c}, {}) /\ Emits(<<Jnz(t)>>, {}, {t})
    BY <1>4, EmitsItem
  <2>2. Emits(<<Def(c)>> \o s, {c} \cup D, {} \cup {})
    BY <2>1, <1>7, <1>9, EmitsConcat
  <2>3. Emits((<<Def(c)>> \o s) \o <<Jnz(t)>>, ({c} \cup D) \cup {}, ({} \cup {}) \cup {t})
    BY <2>1, <2>2, EmitsConcat
  <2>4. ({c} \cup D) \cup {} = {c} \cup D /\ ({} \cup {}) \cup {t} = {t}
    OBVIOUS
  <2> QED BY <2>3, <2>4
<1> HIDE DEF items
<1>11. Paid(Top, DefsOf(code), {c} \cup D, {t}, label_counter, label_counter', Len(nodes))
  BY <1>2, <1>5, <1>8 DEF Paid, NewFor
<1>12. NoDefault({c} \cup D)
  BY <1>4, <1>8 DEF NoDefault
<1> QED BY <1>2, <1>3, <1>8, <1>10, <1>11, <1>12, CloseStep

\* A switch prints the label its last case jumps to, and its break label.
LEMMA CloseSwitchStep == ASSUME IInv, CloseSwitch PROVE IInv'
<1> DEFINE b == Plain(Top.numb.break)
           e == CaseLabel(Top.numb.switch, Top.numb.serial)
           d == DefaultLabel(Top.numb.switch)
           m == IF Top.numb.default THEN <<Jmp(d)>> ELSE <<>>
           M == IF Top.numb.default THEN {d} ELSE {}
           items == <<Jmp(b), Def(e)>> \o m \o <<Def(b)>>
<1>1. /\ frames # <<>> /\ Top \in Frames /\ Top.kind = "switch"
      /\ ElseAfter \in BOOLEAN /\ FrameOK(Top, DefsOf(code), label_counter)
      /\ Top.numb.break \in Int /\ Top.numb.switch \in Int /\ Top.numb.serial \in Int
  BY DoneTop DEF CloseSwitch
<1>2. /\ frames' = Popped /\ code' = code \o items
      /\ no_else' \in BOOLEAN /\ UNCHANGED <<label_counter, nodes, err>>
  BY <1>1 DEF CloseSwitch, Close
<1>3. /\ b \in Labels /\ b.kind = "L" /\ e \in Labels /\ e.kind = "case"
      /\ d \in Labels /\ d.kind = "default"
  BY <1>1, LabelProp
<1>4. Owes(Top) = {b} /\ e = End(Top) /\ M \subseteq DefsOf(code)
  BY <1>1 DEF Owes, FrameOK, End
<1>5. Emits(m, {}, M)
  BY <1>3, EmitsItem
<1> HIDE DEF b, e, d, m, M
<1>6. Emits(items, {e, b}, {b} \cup M)
  <2>1. Emits(<<Jmp(b)>>, {}, {b}) /\ Emits(<<Def(e)>>, {e}, {}) /\ Emits(<<Def(b)>>, {b}, {})
    BY <1>3, EmitsItem
  <2>2. Emits(<<Jmp(b)>> \o <<Def(e)>>, {} \cup {e}, {b} \cup {})
    BY <2>1, EmitsConcat
  <2>3. Jmp(b) \in Items /\ Def(e) \in Items
    <3>1. 0 \in Nat /\ "x" \in Parts
      BY DEF Parts
    <3> QED BY <3>1, <1>3, ItemProp
  <2>4. <<Jmp(b), Def(e)>> = <<Jmp(b)>> \o <<Def(e)>>
    BY <2>3, Pieces
  <2>5. Emits(<<Jmp(b), Def(e)>>, {e}, {b})
    BY <2>2, <2>4
  <2>6. Emits(<<Jmp(b), Def(e)>> \o m, {e} \cup {}, {b} \cup M)
    BY <2>5, <1>5, EmitsConcat
  <2>7. Emits((<<Jmp(b), Def(e)>> \o m) \o <<Def(b)>>, ({e} \cup {}) \cup {b}, ({b} \cup M) \cup {})
    BY <2>1, <2>6, <1>3, EmitsConcat
  <2>8. ({e} \cup {}) \cup {b} = {e, b} /\ ({b} \cup M) \cup {} = {b} \cup M
    OBVIOUS
  <2> QED BY <2>7, <2>8
<1> HIDE DEF items
<1>7. Paid(Top, DefsOf(code), {e, b}, {b} \cup M, label_counter, label_counter', Len(nodes))
  BY <1>1, <1>4 DEF Paid, NewFor
<1>8. NoDefault({e, b}) /\ label_counter' \in Nat /\ label_counter <= label_counter'
  BY <1>2, <1>3 DEF NoDefault, IInv, TypeOK
<1> QED BY <1>1, <1>2, <1>6, <1>7, <1>8, CloseStep

\* A function owes nothing.
LEMMA CloseFunctionStep == ASSUME IInv, CloseFunction PROVE IInv'
<1>1. /\ frames # <<>> /\ Top.kind = "function" /\ ElseAfter \in BOOLEAN
  BY DoneTop DEF CloseFunction
<1>2. /\ frames' = Popped /\ code' = code \o <<Ret>>
      /\ no_else' \in BOOLEAN /\ UNCHANGED <<label_counter, nodes, err>>
  BY <1>1 DEF CloseFunction, Close
<1>3. Emits(<<Ret>>, {}, {})
  BY EmitsItem
<1>4. Paid(Top, DefsOf(code), {}, {}, label_counter, label_counter', Len(nodes))
  BY <1>1 DEF Paid, Owes
<1>5. NoDefault({}) /\ label_counter' \in Nat /\ label_counter <= label_counter'
  BY <1>2 DEF NoDefault, IInv, TypeOK
<1> QED BY <1>1, <1>2, <1>3, <1>4, <1>5, CloseStep

------------------------------------------------------------------------------
\* The statements that open a body.

Numbs == [break : Int, continue : Int, switch : Int, serial : Int, default : BOOLEAN]

\* The fields of a frame.
LEMMA FrameProp ==
  ASSUME NEW kind \in Compound \cup {"function"}, NEW node \in Nat \ {0}, NEW numb \in Numbs,
         NEW labels \in [top : Int, false : Int, end : Int],
         NEW left \in {"many", "one", "none"}
  PROVE  LET f == Frame(kind, node, numb, labels, left)
         IN  f \in Frames /\ f.kind = kind /\ f.numb = numb /\ f.labels = labels
               /\ f.part = "body"
BY DEF Frame, Frames, Numbs

\* The labels of a frame.
LEMMA NoLabelsProp == NoLabels \in [top : Int, false : Int, end : Int]
BY DEF NoLabels, NONE
\* Those of an if.
LEMMA LabelsProp ==
  \A x, y \in Int :
    /\ [NoLabels EXCEPT !.false = x, !.end = y] \in [top : Int, false : Int, end : Int]
    /\ [NoLabels EXCEPT !.false = x, !.end = y].false = x
    /\ [NoLabels EXCEPT !.false = x, !.end = y].end = y
BY NoLabelsProp
\* Those of a do.
LEMMA TopLabelProp ==
  \A x \in Int : /\ [NoLabels EXCEPT !.top = x] \in [top : Int, false : Int, end : Int]
                 /\ [NoLabels EXCEPT !.top = x].top = x
BY NoLabelsProp

\* The numb_param a statement is called with.
LEMMA NumbProp ==
  ASSUME IInv, frames # <<>>
  PROVE  /\ Numb \in Numbs
         /\ Numb.continue >= 0 => Plain(Numb.continue) \in DefsOf(code) \cup OwedBy(frames)
<1>1. Owner \in DOMAIN frames /\ frames[Owner].kind # "if" /\ frames[Owner] \in Frames
  BY OwnerProp DEF IInv
<1> QED BY <1>1 DEF IInv, LInv, Numb, Numbs, Frames

\* A label past the counter has not been printed.
LEMMA NotYet ==
  ASSUME IInv
  PROVE  /\ \A m \in Int : m >= label_counter => Plain(m) \notin DefsOf(code)
         /\ \A l \in DefsOf(code) : l.kind = "case" => l.numb \in Int /\ l.numb < label_counter
<1>1. \A l \in DefsOf(code) : Known(l, label_counter, Len(nodes)) /\ l.numb \in Int
  BY CodeLabels DEF IInv, LInv, Labels
<1>2. \A m \in Int : Plain(m).kind = "L" /\ Plain(m).numb = m
  BY LabelProp
<1> QED BY <1>1, <1>2, CodeLabels DEF Known, IInv

\* What every statement with a body starts from.
LEMMA OpenProp ==
  ASSUME IInv, NEW kind \in Compound, NEW form, NEW numb, NEW labels, NEW left, NEW items,
         Open(kind, form, numb, labels, left, items)
  PROVE  /\ frames # <<>> /\ NewNode \in Nat \ {0} /\ label_counter \in Nat
         /\ Numb \in Numbs
         /\ Numb.continue >= 0 => Plain(Numb.continue) \in DefsOf(code) \cup OwedBy(frames)
<1>1. frames # <<>>
  BY DEF Open, Reads
<1>2. Len(nodes) \in Nat /\ label_counter \in Nat
  BY CodeLabels DEF IInv
<1> QED BY <1>1, <1>2, NumbProp DEF NewNode

\* An if owes two labels; its condition jumps to the first.
LEMMA OpenIfStep == ASSUME IInv, OpenIf PROVE IInv'
<1> DEFINE lc == label_counter
           false == lc
           end == lc + 1
           labels == [NoLabels EXCEPT !.false = false, !.end = end]
<1>1. PICK braces \in BOOLEAN, k \in ExprLabels :
        /\ Open("if", {}, NoNumb, labels, LeftOf(braces),
                Append(ExprCode(NewNode, "test", end + 1, k), Jz(Plain(false))))
        /\ label_counter' = end + 1 + k
  BY DEF OpenIf
<1> DEFINE f == Frame("if", NewNode, NoNumb, labels, LeftOf(braces))
           s == ExprCode(NewNode, "test", end + 1, k)
           a == Plain(false)
           b == Plain(end)
           D == Plains(end + 1, end + 1 + k - 1)
           items == Append(s, Jz(a))
           md == label_counter'
<1>2. "if" \in Compound /\ {} \in SUBSET {"a", "b", "c"} /\ "test" \in Parts
  BY DEF Compound, Parts
<1>3. /\ NewNode \in Nat \ {0} /\ lc \in Nat /\ k \in Nat
  BY <1>1, <1>2, OpenProp, ConstantsAssumption
<1>4. /\ end \in Nat /\ end + 1 \in Nat /\ end + 1 + k - 1 \in Int /\ md \in Nat
      /\ lc <= end /\ lc <= end + 1 /\ end + 1 + k - 1 < md /\ lc <= md
      /\ false < md /\ end < md /\ false # end /\ false < end + 1 /\ end < end + 1
  BY <1>1, <1>3
<1>5. f \in Frames /\ f.kind = "if" /\ f.labels = labels /\ f.part = "body"
  <2>1. NoNumb \in Numbs /\ labels \in [top : Int, false : Int, end : Int]
        /\ LeftOf(braces) \in {"many", "one", "none"}
    <3>1. NoNumb \in Numbs
      BY DEF NoNumb, NONE, Numbs
    <3>2. labels \in [top : Int, false : Int, end : Int]
      <4>1. false \in Int /\ end \in Int
        BY <1>3, <1>4
      <4> HIDE DEF false, end
      <4> QED BY <4>1, LabelsProp
    <3>3. LeftOf(braces) \in {"many", "one", "none"}
      BY DEF LeftOf
    <3> QED BY <3>1, <3>2, <3>3
  <2> HIDE DEF labels
  <2> QED BY <2>1, <1>2, <1>3, FrameProp
<1>6. /\ a \in Labels /\ a.kind = "L" /\ a.numb = false
      /\ b \in Labels /\ b.kind = "L" /\ b.numb = end
      /\ a \notin DefsOf(code) /\ b \notin DefsOf(code)
  BY <1>3, <1>4, LabelProp, NotYet
<1>7. Emits(items, D, {a})
  <2>1. Emits(s, D, {})
    BY <1>2, <1>3, <1>4, EmitsExpr
  <2>2. Emits(<<Jz(a)>>, {}, {a})
    BY <1>6, EmitsItem
  <2>3. Emits(s \o <<Jz(a)>>, D \cup {}, {} \cup {a})
    BY <2>1, <2>2, EmitsConcat
  <2>4. items = s \o <<Jz(a)>>
    <3>1. s \in Seq(Items) /\ 0 \in Nat
      BY <2>1 DEF Emits
    <3>2. Jz(a) \in Items
      BY <3>1, <1>2, <1>6, ItemProp
    <3> QED BY <3>1, <3>2, Pieces
  <2> QED BY <2>3, <2>4
<1>8. a \notin D /\ b \notin D
  <2>1. \A l \in D : l.numb \in end + 1 .. end + 1 + k - 1
    BY <1>4, PlainsProp
  <2> QED BY <2>1, <1>4, <1>6
<1>9. Owes(f) = {a, b}
  BY <1>5, <1>3 DEF Owes, NoLabels
<1>10. /\ \A l \in D : Fresh(l, lc, md, Len(nodes), Len(nodes) + 1)
       /\ NoDefault(D)
  BY <1>3, <1>4, FreshPlains
<1>11. f.labels.false # f.labels.end
  BY <1>4, <1>5 DEF NoLabels
<1> HIDE DEF a, b, D, items, f, s
<1>12. FrameOK(f, DefsOf(code) \cup D, md)
  BY <1>4, <1>5, <1>6, <1>8, <1>9, <1>11 DEF FrameOK
<1>13. Pushed(frames, f, DefsOf(code), D, {a}, lc, md, Len(nodes), Len(nodes) + 1)
  <2>1. \A l \in Owes(f) : l.numb >= lc
    BY <1>3, <1>4, <1>6, <1>9
  <2>2. f.kind # "switch" /\ f.kind = "if" /\ a \in Owes(f)
    BY <1>5, <1>9
  <2> HIDE DEF lc, md
  <2>3. \A l \in {a} : l \in DefsOf(code) \cup D \cup OwedBy(frames) \cup EndsOf(frames) \cup Owes(f)
    BY <2>2
  <2>4. f.kind = "switch" => f.numb.switch >= lc
    BY <2>2
  <2>5. f.kind # "if" /\ f.numb.continue >= 0 =>
          Plain(f.numb.continue) \in DefsOf(code) \cup D \cup OwedBy(frames) \cup Owes(f)
    BY <2>2
  <2> QED BY <2>1, <2>3, <2>4, <2>5, <1>10, <1>12 DEF Pushed
<1>14. Open("if", {}, NoNumb, labels, LeftOf(braces), items)
  BY <1>1 DEF items, s, a
<1> HIDE DEF labels
<1> QED BY <1>2, <1>4, <1>5, <1>7, <1>10, <1>13, <1>14, OpenStep DEF f

\* The numb_param of a while or a for, of a do and of a switch called with nb.
LoopNumb(nb, b, c) == [nb EXCEPT !.break = b, !.continue = c, !.default = FALSE]
DoNumb(nb, b, c) == [nb EXCEPT !.break = b, !.continue = c]
SwitchNumb(nb, b, s) ==
  [nb EXCEPT !.break = b, !.switch = s, !.serial = 1, !.default = FALSE]

\* Their fields.
LEMMA NumbExcept ==
  ASSUME NEW nb \in Numbs, NEW b \in Int, NEW c \in Int
  PROVE  /\ LoopNumb(nb, b, c) \in Numbs
         /\ LoopNumb(nb, b, c).break = b /\ LoopNumb(nb, b, c).continue = c
         /\ DoNumb(nb, b, c) \in Numbs
         /\ DoNumb(nb, b, c).break = b /\ DoNumb(nb, b, c).continue = c
<1>1. LoopNumb(nb, b, c) \in Numbs
  BY DEF Numbs, LoopNumb
<1>2. LoopNumb(nb, b, c).break = b /\ LoopNumb(nb, b, c).continue = c
  BY DEF Numbs, LoopNumb
<1>3. DoNumb(nb, b, c) \in Numbs
  BY DEF Numbs, DoNumb
<1>4. DoNumb(nb, b, c).break = b /\ DoNumb(nb, b, c).continue = c
  BY DEF Numbs, DoNumb
<1> QED BY <1>1, <1>2, <1>3, <1>4

\* Those of a switch.
LEMMA NumbSwitch ==
  ASSUME NEW nb \in Numbs, NEW b \in Int, NEW s \in Int
  PROVE  /\ SwitchNumb(nb, b, s) \in Numbs /\ SwitchNumb(nb, b, s).break = b
         /\ SwitchNumb(nb, b, s).continue = nb.continue /\ SwitchNumb(nb, b, s).switch = s
         /\ SwitchNumb(nb, b, s).serial = 1 /\ ~SwitchNumb(nb, b, s).default
<1> DEFINE n1 == [nb EXCEPT !.break = b, !.switch = s]
           n2 == [n1 EXCEPT !.serial = 1]
           n3 == [n2 EXCEPT !.default = FALSE]
<1>1. n1 \in Numbs /\ n1.break = b /\ n1.switch = s /\ n1.continue = nb.continue
  BY DEF Numbs
<1>2. SwitchNumb(nb, b, s) = n3
  BY DEF SwitchNumb
<1> HIDE DEF n1
<1>3. n2 \in Numbs /\ n2.serial = 1
      /\ n2.break = n1.break /\ n2.switch = n1.switch /\ n2.continue = n1.continue
  BY <1>1 DEF Numbs
<1> HIDE DEF n2
<1>4. n3 \in Numbs /\ n3.default = FALSE /\ n3.serial = n2.serial
      /\ n3.break = n2.break /\ n3.switch = n2.switch /\ n3.continue = n2.continue
  <2>1. n3 \in Numbs
    BY <1>3 DEF Numbs
  <2>2. n3.default = FALSE
    BY <1>3 DEF Numbs
  <2>3. n3.serial = n2.serial
        /\ n3.break = n2.break /\ n3.switch = n2.switch /\ n3.continue = n2.continue
    BY <1>3 DEF Numbs
  <2> QED BY <2>1, <2>2, <2>3
<1> HIDE DEF n3
<1> QED BY <1>1, <1>2, <1>3, <1>4

\* A while owes its break label, which its condition jumps to.
LEMMA OpenWhileStep == ASSUME IInv, OpenWhile PROVE IInv'
<1> DEFINE lc == label_counter
           break == lc
           continue == lc + 1
           true == lc + 2
           numb == [Numb EXCEPT !.break = break, !.continue = continue, !.default = FALSE]
<1>1. PICK braces \in BOOLEAN, k \in ExprLabels :
        /\ Open("while", {}, numb, NoLabels, LeftOf(braces),
                <<Def(Plain(continue))>>
                  \o ExprCode(NewNode, "test", true + 1, k)
                  \o <<Jz(Plain(break)), Def(Plain(true))>>)
        /\ label_counter' = true + 1 + k
  BY DEF OpenWhile
<1> DEFINE f == Frame("while", NewNode, numb, NoLabels, LeftOf(braces))
           s == ExprCode(NewNode, "test", true + 1, k)
           b == Plain(break)
           c == Plain(continue)
           t == Plain(true)
           S == Plains(true + 1, true + 1 + k - 1)
           D == {c} \cup S \cup {t}
           items == <<Def(c)>> \o s \o <<Jz(b), Def(t)>>
           md == label_counter'
<1>2. "while" \in Compound /\ {} \in SUBSET {"a", "b", "c"} /\ "test" \in Parts
  BY DEF Compound, Loops, Parts
<1>3. NewNode \in Nat \ {0} /\ lc \in Nat /\ k \in Nat /\ Numb \in Numbs
  BY <1>1, <1>2, OpenProp, ConstantsAssumption
<1>4. /\ break \in Int /\ continue \in Int /\ true \in Int /\ true + 1 \in Nat
      /\ true + 1 + k - 1 \in Int /\ md \in Nat
      /\ lc <= break /\ lc <= continue /\ lc <= true /\ lc <= true + 1
      /\ true + 1 + k - 1 < md /\ lc <= md /\ break < md /\ continue < md /\ true < md
      /\ break # continue /\ break # true /\ continue # true
      /\ break < true + 1 /\ continue < true + 1 /\ true < true + 1
  BY <1>1, <1>3
<1>5. /\ f \in Frames /\ f.kind = "while" /\ f.numb.break = break
      /\ f.numb.continue = continue
  <2>1. numb \in Numbs /\ numb.break = break /\ numb.continue = continue
    <3>1. numb = LoopNumb(Numb, break, continue)
      BY DEF LoopNumb
    <3> HIDE DEF break, continue, numb
    <3> QED BY <3>1, <1>3, <1>4, NumbExcept
  <2>2. LeftOf(braces) \in {"many", "one", "none"}
    BY DEF LeftOf
  <2>3. NoLabels \in [top : Int, false : Int, end : Int]
    BY NoLabelsProp
  <2> HIDE DEF numb, break, continue
  <2> QED BY <2>1, <2>2, <2>3, <1>2, <1>3, FrameProp
<1>6. /\ b \in Labels /\ b.kind = "L" /\ b.numb = break /\ b \notin DefsOf(code)
      /\ c \in Labels /\ c.kind = "L" /\ c.numb = continue
      /\ t \in Labels /\ t.kind = "L" /\ t.numb = true
  <2> HIDE DEF break, continue, true
  <2> QED BY <1>3, <1>4, LabelProp, NotYet
<1>7. /\ \A l \in S : l.numb \in true + 1 .. true + 1 + k - 1
      /\ \A l \in S : Fresh(l, lc, md, Len(nodes), Len(nodes) + 1)
      /\ NoDefault(S)
  <2> HIDE DEF true, lc, md
  <2> QED BY <1>3, <1>4, PlainsProp, FreshPlains
<1>8. b \notin S /\ c \notin S /\ t \notin S /\ b # c /\ b # t /\ c # t
  BY <1>3, <1>4, <1>6, <1>7
<1>9. Owes(f) = {b}
  BY <1>5 DEF Owes
<1>10. Fresh(c, lc, md, Len(nodes), Len(nodes) + 1) /\ Fresh(t, lc, md, Len(nodes), Len(nodes) + 1)
  <2> HIDE DEF continue, true, lc, md
  <2> QED BY <1>3, <1>4, FreshPlain
<1>11. c = Plain(f.numb.continue)
  BY <1>5
<1>12. Emits(s, S, {})
  BY <1>2, <1>3, <1>4, EmitsExpr
<1>13. b.numb >= lc /\ b.numb < md
  BY <1>3, <1>4, <1>6
<1>14. Open("while", {}, numb, NoLabels, LeftOf(braces), items)
  BY <1>1
<1> HIDE DEF b, c, t, s, S, f, numb
<1>15. Emits(items, D, {b})
  <2>1. /\ Emits(<<Def(c)>>, {c}, {}) /\ Emits(<<Jz(b)>>, {}, {b})
        /\ Emits(<<Def(t)>>, {t}, {})
    BY <1>6, EmitsItem
  <2>2. Emits(<<Def(c)>> \o s, {c} \cup S, {} \cup {})
    BY <2>1, <1>8, <1>12, EmitsConcat
  <2>3. Emits(<<Jz(b)>> \o <<Def(t)>>, {} \cup {t}, {b} \cup {})
    BY <2>1, EmitsConcat
  <2>4. <<Jz(b), Def(t)>> = <<Jz(b)>> \o <<Def(t)>>
    <3>1. Jz(b) \in Items /\ Def(t) \in Items
      <4>1. 0 \in Nat
        OBVIOUS
      <4> QED BY <4>1, <1>2, <1>6, ItemProp
    <3> QED BY <3>1, Pieces
  <2>5. Emits(<<Jz(b), Def(t)>>, {t}, {b})
    BY <2>3, <2>4
  <2>6. \A l \in ({c} \cup S) \cap {t} : l.kind = "user"
    BY <1>8
  <2>7. Emits((<<Def(c)>> \o s) \o <<Jz(b), Def(t)>>, ({c} \cup S) \cup {t}, ({} \cup {}) \cup {b})
    BY <2>2, <2>5, <2>6, EmitsConcat
  <2> QED BY <2>7
<1>16. b \notin D /\ c \in D
  BY <1>8
<1>17. /\ \A l \in D : Fresh(l, lc, md, Len(nodes), Len(nodes) + 1)
       /\ NoDefault(D)
  BY <1>6, <1>7, <1>10 DEF NoDefault
<1> HIDE DEF D, items, lc, md, break, continue, true
<1>18. FrameOK(f, DefsOf(code) \cup D, md)
  BY <1>5, <1>6, <1>9, <1>11, <1>13, <1>16 DEF FrameOK
<1>19. Pushed(frames, f, DefsOf(code), D, {b}, lc, md, Len(nodes), Len(nodes) + 1)
  BY <1>5, <1>9, <1>11, <1>13, <1>16, <1>17, <1>18 DEF Pushed
<1> QED BY <1>2, <1>3, <1>4, <1>5, <1>14, <1>15, <1>17, <1>19, OpenStep DEF f, lc, md

\* A part of a for that may be left out: its code prints an interval of labels.
LEMMA PartProp ==
  ASSUME NEW form, NEW x \in Parts, NEW n \in Nat, NEW first \in Nat, NEW k \in Nat,
         NEW after, NEW M, Emits(after, {}, M)
  PROVE  Emits(IF x \in form THEN ExprCode(n, x, first, k) \o after ELSE <<>>,
               IF x \in form THEN Plains(first, first + k - 1) ELSE {},
               IF x \in form THEN M ELSE {})
<1>1. Emits(ExprCode(n, x, first, k), Plains(first, first + k - 1), {})
  BY EmitsExpr
<1>2. Emits(ExprCode(n, x, first, k) \o after, Plains(first, first + k - 1) \cup {}, {} \cup M)
  BY <1>1, EmitsConcat
<1>3. Plains(first, first + k - 1) \cup {} = Plains(first, first + k - 1) /\ {} \cup M = M
  OBVIOUS
<1> QED BY <1>2, <1>3, EmitsItem

\* A for owes its break label, which its second part jumps to; the labels of the
\* parts that are there follow one another.
LEMMA OpenForStep == ASSUME IInv, OpenFor PROVE IInv'
<1> DEFINE lc == label_counter
           break == lc
           continue == lc + 1
           top == lc + 2
           true == lc + 3
           numb == [Numb EXCEPT !.break = break, !.continue = continue, !.default = FALSE]
           b == Plain(break)
           c == Plain(continue)
           o == Plain(top)
           t == Plain(true)
<1>1. PICK braces \in BOOLEAN, form \in ForForms, k \in ExprLabels :
        /\ Open("for", form, numb, NoLabels, LeftOf(braces),
                (IF "a" \in form THEN ExprCode(NewNode, "a", true + 1, k) \o <<>> ELSE <<>>)
                  \o <<Def(o)>>
                  \o (IF "b" \in form
                        THEN ExprCode(NewNode, "b", true + 1 + k, k) \o <<Jz(b)>> ELSE <<>>)
                  \o <<Jmp(t), Def(c)>>
                  \o (IF "c" \in form
                        THEN ExprCode(NewNode, "c", true + 1 + 2*k, k) \o <<>> ELSE <<>>)
                  \o <<Jmp(o), Def(t)>>)
        /\ label_counter' = true + 1 + 3*k
  BY DEF OpenFor
<1> DEFINE f == Frame("for", NewNode, numb, NoLabels, LeftOf(braces))
           p1 == true + 1
           p2 == true + 1 + k
           p3 == true + 1 + 2*k
           s1 == IF "a" \in form THEN ExprCode(NewNode, "a", p1, k) \o <<>> ELSE <<>>
           s2 == IF "b" \in form THEN ExprCode(NewNode, "b", p2, k) \o <<Jz(b)>> ELSE <<>>
           s3 == IF "c" \in form THEN ExprCode(NewNode, "c", p3, k) \o <<>> ELSE <<>>
           S1 == IF "a" \in form THEN Plains(p1, p1 + k - 1) ELSE {}
           S2 == IF "b" \in form THEN Plains(p2, p2 + k - 1) ELSE {}
           S3 == IF "c" \in form THEN Plains(p3, p3 + k - 1) ELSE {}
           M2 == IF "b" \in form THEN {b} ELSE {}
           items == s1 \o <<Def(o)>> \o s2 \o <<Jmp(t), Def(c)>> \o s3 \o <<Jmp(o), Def(t)>>
           D == S1 \cup {o} \cup S2 \cup {c} \cup S3 \cup {t}
           K == M2 \cup {t} \cup {o}
           md == label_counter'
<1>2. /\ "for" \in Compound /\ form \in SUBSET {"a", "b", "c"}
      /\ "a" \in Parts /\ "b" \in Parts /\ "c" \in Parts
  BY ConstantsAssumption DEF Compound, Loops, Parts
<1>3. Open("for", form, numb, NoLabels, LeftOf(braces), items)
  BY <1>1
<1>4. NewNode \in Nat \ {0} /\ lc \in Nat /\ k \in Nat /\ Numb \in Numbs
  <2> HIDE DEF items, numb
  <2> QED BY <1>2, <1>3, OpenProp, ConstantsAssumption
<1>5. md = true + 1 + 3*k
  BY <1>1
<1>6. /\ break \in Int /\ continue \in Int /\ top \in Int /\ true \in Int /\ md \in Nat
      /\ break < p1 /\ continue < p1 /\ top < p1 /\ true < p1
      /\ lc <= break /\ lc <= continue /\ lc <= top /\ lc <= true /\ lc <= p1 /\ lc <= md
      /\ p1 <= md /\ break < continue /\ continue < top /\ top < true
  BY <1>4, <1>5
<1>7. /\ p1 \in Nat /\ p2 \in Nat /\ p3 \in Nat
      /\ p1 + k - 1 \in Int /\ p2 + k - 1 \in Int /\ p3 + k - 1 \in Int
      /\ p1 <= p2 /\ p1 <= p3 /\ p1 + k - 1 < p2 /\ p2 <= p3 /\ p2 + k - 1 < p3
      /\ p1 + k - 1 < md /\ p2 + k - 1 < md /\ p3 + k - 1 < md
      /\ lc <= p1 /\ lc <= p2 /\ lc <= p3
  BY <1>4, <1>5
<1>8. /\ f \in Frames /\ f.kind = "for" /\ f.numb.break = break
      /\ f.numb.continue = continue
  <2>1. numb \in Numbs /\ numb.break = break /\ numb.continue = continue
    <3>1. numb = LoopNumb(Numb, break, continue)
      BY DEF LoopNumb
    <3> HIDE DEF break, continue, numb
    <3> QED BY <3>1, <1>4, <1>6, NumbExcept
  <2>2. LeftOf(braces) \in {"many", "one", "none"}
    BY DEF LeftOf
  <2> HIDE DEF numb, break, continue
  <2> QED BY <2>1, <2>2, <1>2, <1>4, NoLabelsProp, FrameProp
<1>9. /\ b \in Labels /\ b.kind = "L" /\ b.numb = break /\ b \notin DefsOf(code)
      /\ c \in Labels /\ c.kind = "L" /\ c.numb = continue
      /\ o \in Labels /\ o.kind = "L" /\ o.numb = top
      /\ t \in Labels /\ t.kind = "L" /\ t.numb = true
  <2> HIDE DEF break, continue, top, true
  <2> QED BY <1>4, <1>6, LabelProp, NotYet
<1>10. /\ Fresh(c, lc, md, Len(nodes), Len(nodes) + 1) /\ Fresh(o, lc, md, Len(nodes), Len(nodes) + 1)
       /\ Fresh(t, lc, md, Len(nodes), Len(nodes) + 1)
  <2>1. continue < md /\ top < md /\ true < md /\ lc \in Int /\ md \in Int
    BY <1>4, <1>6
  <2> HIDE DEF continue, top, true, lc, md
  <2> QED BY <2>1, <1>6, FreshPlain
<1>11. Owes(f) = {b} /\ c = Plain(f.numb.continue)
  BY <1>8 DEF Owes
<1>12. b.numb >= lc /\ b.numb < md /\ b # c /\ b # o /\ b # t /\ c # o /\ c # t /\ o # t
  BY <1>4, <1>6, <1>9
<1>13. Emits(s1, S1, {})
  <2>1. Emits(<<>>, {}, {})
    BY EmitsItem
  <2> HIDE DEF p1
  <2> QED BY <2>1, <1>2, <1>4, <1>7, PartProp
<1>14. Emits(s2, S2, M2)
  <2>1. Emits(<<Jz(b)>>, {}, {b})
    BY <1>9, EmitsItem
  <2> HIDE DEF p2, b
  <2> QED BY <2>1, <1>2, <1>4, <1>7, PartProp
<1>15. Emits(s3, S3, {})
  <2>1. Emits(<<>>, {}, {})
    BY EmitsItem
  <2> HIDE DEF p3
  <2> QED BY <2>1, <1>2, <1>4, <1>7, PartProp
<1>16. ASSUME NEW p \in Nat, p1 <= p, p + k - 1 \in Int, p + k - 1 < md,
              NEW l \in Plains(p, p + k - 1)
       PROVE  /\ l.kind = "L" /\ l.numb \in Int /\ p1 <= l.numb /\ p <= l.numb
              /\ l.numb <= p + k - 1
              /\ Fresh(l, lc, md, Len(nodes), Len(nodes) + 1)
  <2>1. l.kind = "L" /\ l.numb \in p .. p + k - 1
    BY <1>16, PlainsProp
  <2>2. l.numb \in Int /\ p1 <= l.numb /\ p <= l.numb /\ l.numb <= p + k - 1
    BY <2>1, <1>16, <1>7
  <2>3. Fresh(l, lc, md, Len(nodes), Len(nodes) + 1)
    <3>1. lc \in Int /\ md \in Int /\ lc <= p
      BY <1>16, <1>4, <1>6
    <3> HIDE DEF lc, md
    <3> QED BY <3>1, <1>16, FreshPlains
  <2> QED BY <2>1, <2>2, <2>3
<1> HIDE DEF p1, p2, p3, s1, s2, s3
<1>17. /\ \A l \in S1 : l.kind = "L" /\ l.numb \in Int /\ p1 <= l.numb /\ l.numb <= p1 + k - 1
       /\ \A l \in S2 : l.kind = "L" /\ l.numb \in Int /\ p2 <= l.numb /\ l.numb <= p2 + k - 1
       /\ \A l \in S3 : l.kind = "L" /\ l.numb \in Int /\ p3 <= l.numb
       /\ \A l \in S1 \cup S2 \cup S3 :
            l.kind = "L" /\ l.numb \in Int /\ p1 <= l.numb
              /\ Fresh(l, lc, md, Len(nodes), Len(nodes) + 1)
  <2>1. p1 <= p1
    BY <1>7
  <2>2. \A l \in S1 : /\ l.kind = "L" /\ l.numb \in Int /\ p1 <= l.numb /\ l.numb <= p1 + k - 1
                      /\ Fresh(l, lc, md, Len(nodes), Len(nodes) + 1)
    BY <2>1, <1>7, <1>16
  <2>3. \A l \in S2 : /\ l.kind = "L" /\ l.numb \in Int /\ p2 <= l.numb /\ l.numb <= p2 + k - 1
                      /\ p1 <= l.numb /\ Fresh(l, lc, md, Len(nodes), Len(nodes) + 1)
    BY <1>7, <1>16
  <2>4. \A l \in S3 : /\ l.kind = "L" /\ l.numb \in Int /\ p3 <= l.numb
                      /\ p1 <= l.numb /\ Fresh(l, lc, md, Len(nodes), Len(nodes) + 1)
    BY <1>7, <1>16
  <2> HIDE DEF S1, S2, S3, lc, md
  <2> QED BY <2>2, <2>3, <2>4
<1> HIDE DEF S1, S2, S3
<1>18. /\ S1 \cap S2 = {} /\ S1 \cap S3 = {} /\ S2 \cap S3 = {}
  <2>1. \A x \in Int : ~(x <= p1 + k - 1 /\ p2 <= x) /\ ~(x <= p1 + k - 1 /\ p3 <= x)
                         /\ ~(x <= p2 + k - 1 /\ p3 <= x)
    BY <1>4, <1>7
  <2> QED BY <2>1, <1>17
<1>19. b \notin S1 \cup S2 \cup S3 /\ c \notin S1 \cup S2 \cup S3
       /\ o \notin S1 \cup S2 \cup S3 /\ t \notin S1 \cup S2 \cup S3
  <2>1. ~(p1 <= break) /\ ~(p1 <= continue) /\ ~(p1 <= top) /\ ~(p1 <= true)
    BY <1>4, <1>6, <1>7
  <2> HIDE DEF b, c, o, t
  <2> QED BY <2>1, <1>9, <1>17
<1> HIDE DEF b, c, o, t, f, numb, M2
<1>20. Emits(items, D, K)
  <2>1. /\ Emits(<<Def(o)>>, {o}, {}) /\ Emits(<<Jmp(t)>>, {}, {t}) /\ Emits(<<Def(c)>>, {c}, {})
        /\ Emits(<<Jmp(o)>>, {}, {o}) /\ Emits(<<Def(t)>>, {t}, {})
    BY <1>9, EmitsItem
  <2>2. /\ <<Jmp(t), Def(c)>> = <<Jmp(t)>> \o <<Def(c)>>
        /\ <<Jmp(o), Def(t)>> = <<Jmp(o)>> \o <<Def(t)>>
    <3>1. 0 \in Nat
      OBVIOUS
    <3>2. Jmp(t) \in Items /\ Def(c) \in Items /\ Jmp(o) \in Items /\ Def(t) \in Items
      BY <3>1, <1>2, <1>9, ItemProp
    <3> QED BY <3>2, Pieces
  <2>3. Emits(<<Jmp(t), Def(c)>>, {} \cup {c}, {t} \cup {})
    <3>1. Emits(<<Jmp(t)>> \o <<Def(c)>>, {} \cup {c}, {t} \cup {})
      BY <2>1, EmitsConcat
    <3> QED BY <3>1, <2>2
  <2>4. Emits(<<Jmp(o), Def(t)>>, {} \cup {t}, {o} \cup {})
    <3>1. Emits(<<Jmp(o)>> \o <<Def(t)>>, {} \cup {t}, {o} \cup {})
      BY <2>1, EmitsConcat
    <3> QED BY <3>1, <2>2
  <2> DEFINE u1 == s1 \o <<Def(o)>>
             u2 == u1 \o s2
             u3 == u2 \o <<Jmp(t), Def(c)>>
             u4 == u3 \o s3
  <2>5. Emits(u1, S1 \cup {o}, {} \cup {})
    BY <2>1, <1>13, <1>19, EmitsConcat
  <2> HIDE DEF u1
  <2>6. Emits(u2, (S1 \cup {o}) \cup S2, ({} \cup {}) \cup M2)
    <3>1. \A l \in (S1 \cup {o}) \cap S2 : l.kind = "user"
      BY <1>18, <1>19
    <3> QED BY <3>1, <2>5, <1>14, EmitsConcat
  <2> HIDE DEF u2
  <2>7. Emits(u3, ((S1 \cup {o}) \cup S2) \cup ({} \cup {c}), (({} \cup {}) \cup M2) \cup ({t} \cup {}))
    <3>1. \A l \in ((S1 \cup {o}) \cup S2) \cap ({} \cup {c}) : l.kind = "user"
      BY <1>12, <1>19
    <3> QED BY <3>1, <2>3, <2>6, EmitsConcat
  <2> HIDE DEF u3
  <2>8. Emits(u4, (((S1 \cup {o}) \cup S2) \cup ({} \cup {c})) \cup S3,
                  ((({} \cup {}) \cup M2) \cup ({t} \cup {})) \cup {})
    <3>1. \A l \in (((S1 \cup {o}) \cup S2) \cup ({} \cup {c})) \cap S3 : l.kind = "user"
      BY <1>18, <1>19
    <3> QED BY <3>1, <2>7, <1>15, EmitsConcat
  <2> HIDE DEF u4
  <2>9. Emits(u4 \o <<Jmp(o), Def(t)>>,
              ((((S1 \cup {o}) \cup S2) \cup ({} \cup {c})) \cup S3) \cup ({} \cup {t}),
              (((({} \cup {}) \cup M2) \cup ({t} \cup {})) \cup {}) \cup ({o} \cup {}))
    <3>1. \A l \in ((((S1 \cup {o}) \cup S2) \cup ({} \cup {c})) \cup S3) \cap ({} \cup {t}) :
            l.kind = "user"
      BY <1>12, <1>19
    <3> QED BY <3>1, <2>4, <2>8, EmitsConcat
  <2>10. /\ ((((S1 \cup {o}) \cup S2) \cup ({} \cup {c})) \cup S3) \cup ({} \cup {t}) = D
         /\ (((({} \cup {}) \cup M2) \cup ({t} \cup {})) \cup {}) \cup ({o} \cup {}) = K
    OBVIOUS
  <2>11. u4 \o <<Jmp(o), Def(t)>> = items
    BY DEF u1, u2, u3, u4
  <2> QED BY <2>9, <2>10, <2>11
<1>21. b \notin D /\ c \in D /\ t \in D /\ o \in D /\ M2 \subseteq {b}
  BY <1>12, <1>19 DEF M2
<1>22. /\ \A l \in D : Fresh(l, lc, md, Len(nodes), Len(nodes) + 1)
       /\ NoDefault(D)
  <2>1. \A l \in D : l \in S1 \cup S2 \cup S3 \/ l \in {c, o, t}
    OBVIOUS
  <2> HIDE DEF D, lc, md
  <2> QED BY <2>1, <1>9, <1>10, <1>17 DEF NoDefault
<1>23. \A l \in K : l \in D \cup Owes(f)
  BY <1>11, <1>21
<1> HIDE DEF D, K, items, lc, md, break, continue, top, true
<1>24. FrameOK(f, DefsOf(code) \cup D, md)
  BY <1>8, <1>9, <1>11, <1>12, <1>21 DEF FrameOK
<1>25. Pushed(frames, f, DefsOf(code), D, K, lc, md, Len(nodes), Len(nodes) + 1)
  BY <1>8, <1>11, <1>12, <1>21, <1>22, <1>23, <1>24 DEF Pushed
<1> QED BY <1>2, <1>3, <1>6, <1>8, <1>20, <1>22, <1>25, OpenStep DEF f, lc, md

\* A do prints its first label and owes its continue label.  Its break label is
\* never printed, and nothing but a break in it jumps there.
LEMMA OpenDoStep == ASSUME IInv, OpenDo PROVE IInv'
<1> DEFINE lc == label_counter
           top == lc
           break == lc + 1
           continue == lc + 2
           numb == [Numb EXCEPT !.break = break, !.continue = continue]
           labels == [NoLabels EXCEPT !.top = top]
           f == Frame("do", NewNode, numb, labels, "many")
           t == Plain(top)
           c == Plain(continue)
           md == label_counter'
<1>1. Open("do", {}, numb, labels, "many", <<Def(t)>>) /\ md = continue + 1
  BY DEF OpenDo
<1>2. "do" \in Compound /\ {} \in SUBSET {"a", "b", "c"}
  BY DEF Compound, Loops
<1>3. NewNode \in Nat \ {0} /\ lc \in Nat /\ Numb \in Numbs
  <2> HIDE DEF numb, labels, t
  <2> QED BY <1>1, <1>2, OpenProp
<1>4. /\ top \in Int /\ break \in Int /\ continue \in Int /\ md \in Nat
      /\ lc <= top /\ lc <= continue /\ lc <= md /\ top < md /\ continue < md
      /\ top # continue
  BY <1>1, <1>3
<1>5. /\ f \in Frames /\ f.kind = "do" /\ f.numb.continue = continue /\ f.labels.top = top
  <2>1. numb \in Numbs /\ numb.continue = continue
    <3>1. numb = DoNumb(Numb, break, continue)
      BY DEF DoNumb
    <3> HIDE DEF break, continue, numb
    <3> QED BY <3>1, <1>3, <1>4, NumbExcept
  <2>2. labels \in [top : Int, false : Int, end : Int] /\ labels.top = top
    <3> HIDE DEF top
    <3> QED BY <1>4, TopLabelProp
  <2> HIDE DEF numb, labels, break, continue, top
  <2> QED BY <2>1, <2>2, <1>2, <1>3, FrameProp
<1>6. /\ c \in Labels /\ c.kind = "L" /\ c.numb = continue /\ c \notin DefsOf(code)
      /\ t \in Labels /\ t.kind = "L" /\ t.numb = top
  <2> HIDE DEF top, continue
  <2> QED BY <1>3, <1>4, LabelProp, NotYet
<1>7. Owes(f) = {c} /\ c = Plain(f.numb.continue) /\ t = Plain(f.labels.top) /\ c # t
  BY <1>4, <1>5, <1>6 DEF Owes
<1>8. Fresh(t, lc, md, Len(nodes), Len(nodes) + 1)
  <2> HIDE DEF top, lc, md
  <2> QED BY <1>3, <1>4, FreshPlain
<1>9. Emits(<<Def(t)>>, {t}, {})
  BY <1>6, EmitsItem
<1>10. c.numb >= lc /\ c.numb < md
  BY <1>3, <1>4, <1>6
<1> HIDE DEF f, numb, labels, t, c, lc, md, top, break, continue
<1>11. FrameOK(f, DefsOf(code) \cup {t}, md)
  BY <1>5, <1>6, <1>7, <1>10 DEF FrameOK
<1>12. Pushed(frames, f, DefsOf(code), {t}, {}, lc, md, Len(nodes), Len(nodes) + 1)
  BY <1>5, <1>7, <1>8, <1>10, <1>11 DEF Pushed
<1>13. NoDefault({t})
  BY <1>6 DEF NoDefault
<1> QED BY <1>1, <1>2, <1>3, <1>4, <1>5, <1>9, <1>12, <1>13, OpenStep DEF f, lc, md

\* A switch owes its break label, and the label its first case is to print.
LEMMA OpenSwitchStep == ASSUME IInv, OpenSwitch PROVE IInv'
<1> DEFINE lc == label_counter
           break == lc
           switch == lc + 1
           numb == [Numb EXCEPT !.break = break, !.switch = switch, !.serial = 1, !.default = FALSE]
           e == CaseLabel(switch, 1)
<1>1. PICK k \in ExprLabels :
        /\ Open("switch", {}, numb, NoLabels, "many",
                Append(ExprCode(NewNode, "test", switch + 1, k), Jmp(e)))
        /\ label_counter' = switch + 1 + k
  BY DEF OpenSwitch
<1> DEFINE f == Frame("switch", NewNode, numb, NoLabels, "many")
           s == ExprCode(NewNode, "test", switch + 1, k)
           b == Plain(break)
           D == Plains(switch + 1, switch + 1 + k - 1)
           items == Append(s, Jmp(e))
           md == label_counter'
<1>2. "switch" \in Compound /\ {} \in SUBSET {"a", "b", "c"} /\ "test" \in Parts
  BY DEF Compound, Parts
<1>3. /\ NewNode \in Nat \ {0} /\ lc \in Nat /\ k \in Nat /\ Numb \in Numbs
      /\ Numb.continue >= 0 => Plain(Numb.continue) \in DefsOf(code) \cup OwedBy(frames)
  <2> HIDE DEF numb
  <2> QED BY <1>1, <1>2, OpenProp, ConstantsAssumption
<1>4. /\ break \in Int /\ switch \in Int /\ switch + 1 \in Nat /\ switch + 1 + k - 1 \in Int
      /\ md \in Nat /\ lc <= break /\ lc <= switch /\ lc <= switch + 1
      /\ switch + 1 + k - 1 < md /\ lc <= md /\ break < md /\ switch < md
      /\ break < switch + 1 /\ 0 <= switch
  BY <1>1, <1>3
<1>5. /\ f \in Frames /\ f.kind = "switch" /\ f.numb.break = break /\ f.numb.switch = switch
      /\ f.numb.serial = 1 /\ ~f.numb.default /\ f.numb.continue = Numb.continue
  <2>1. /\ numb \in Numbs /\ numb.break = break /\ numb.switch = switch
        /\ numb.serial = 1 /\ ~numb.default /\ numb.continue = Numb.continue
    <3>1. numb = SwitchNumb(Numb, break, switch)
      BY DEF SwitchNumb
    <3> HIDE DEF break, switch, numb
    <3> QED BY <3>1, <1>3, <1>4, NumbSwitch
  <2> HIDE DEF numb, break, switch
  <2> QED BY <2>1, <1>2, <1>3, NoLabelsProp, FrameProp
<1>6. /\ b \in Labels /\ b.kind = "L" /\ b.numb = break /\ b \notin DefsOf(code)
      /\ e \in Labels /\ e.kind = "case"
  <2>1. 1 \in Int
    OBVIOUS
  <2> HIDE DEF break, switch
  <2> QED BY <2>1, <1>3, <1>4, LabelProp, NotYet
<1>7. Emits(items, D, {e})
  <2>1. Emits(s, D, {})
    BY <1>2, <1>3, <1>4, EmitsExpr
  <2>2. Emits(<<Jmp(e)>>, {}, {e})
    BY <1>6, EmitsItem
  <2>3. Emits(s \o <<Jmp(e)>>, D \cup {}, {} \cup {e})
    BY <2>1, <2>2, EmitsConcat
  <2>4. items = s \o <<Jmp(e)>>
    <3>1. s \in Seq(Items) /\ 0 \in Nat
      BY <2>1 DEF Emits
    <3>2. Jmp(e) \in Items
      BY <3>1, <1>2, <1>6, ItemProp
    <3> QED BY <3>1, <3>2, Pieces
  <2> QED BY <2>3, <2>4
<1>8. /\ b \notin D
      /\ \A l \in D : l.kind = "L"
  <2>1. \A l \in D : l.kind = "L" /\ l.numb \in switch + 1 .. switch + 1 + k - 1
    BY <1>4, PlainsProp
  <2> QED BY <2>1, <1>4, <1>6
<1>9. Owes(f) = {b} /\ e = End(f)
  BY <1>5 DEF Owes, End
<1>10. /\ \A l \in D : Fresh(l, lc, md, Len(nodes), Len(nodes) + 1)
       /\ NoDefault(D)
  BY <1>3, <1>4, FreshPlains
<1>11. b.numb >= lc /\ b.numb < md
  BY <1>3, <1>4, <1>6
<1>12. \A l \in DefsOf(code) \cup D : ~(l.kind = "case" /\ l.numb = switch)
  <2>1. \A l \in DefsOf(code) : l.kind = "case" => l.numb \in Int /\ l.numb < lc
    BY NotYet
  <2> QED BY <2>1, <1>3, <1>4, <1>8
<1>13. Open("switch", {}, numb, NoLabels, "many", items)
  BY <1>1
<1> HIDE DEF f, s, b, e, D, items, numb, lc, md, break, switch
<1>14. FrameOK(f, DefsOf(code) \cup D, md)
  BY <1>4, <1>5, <1>6, <1>8, <1>9, <1>11, <1>12 DEF FrameOK
<1>15. Pushed(frames, f, DefsOf(code), D, {e}, lc, md, Len(nodes), Len(nodes) + 1)
  <2>1. f.numb.switch >= lc /\ f.numb.continue >= 0 =>
          Plain(f.numb.continue) \in DefsOf(code) \cup D \cup OwedBy(frames) \cup Owes(f)
    BY <1>3, <1>4, <1>5
  <2>2. f.numb.switch >= lc
    BY <1>3, <1>4, <1>5
  <2> QED BY <2>1, <2>2, <1>5, <1>9, <1>10, <1>11, <1>14 DEF Pushed
<1> QED BY <1>2, <1>3, <1>4, <1>5, <1>7, <1>10, <1>13, <1>15, OpenStep DEF f, lc, md

\* A function prints its name.
LEMMA OpenFunctionStep == ASSUME IInv, OpenFunction PROVE IInv'
<1> DEFINE f == Frame("function", NewNode, NoNumb, NoLabels, "many")
           l == FuncLabel(NewNode)
           node == [kind |-> "function", parent |-> 0, part |-> "body", arg |-> 0, form |-> {}]
<1>1. /\ frames = <<>> /\ Len(nodes) < MaxNodes /\ nodes' = Append(nodes, node)
      /\ frames' = <<f>> /\ code' = Append(code, Def(l)) /\ no_else' = FALSE
      /\ UNCHANGED <<label_counter, err>>
  BY DEF OpenFunction
<1>2. /\ Len(nodes) \in Nat /\ label_counter \in Nat /\ NewNode \in Nat \ {0}
      /\ DefsOf(code) \in SUBSET Labels
  BY CodeLabels DEF IInv, NewNode
<1>3. l \in Labels /\ l.kind = "func" /\ l.numb = NewNode
  BY <1>2, LabelProp
<1>4. f \in Frames /\ f.kind = "function" /\ f.numb = NoNumb
  <2>1. NoNumb \in Numbs
    BY DEF NoNumb, NONE, Numbs
  <2>2. "function" \in Compound \cup {"function"} /\ "many" \in {"many", "one", "none"}
    OBVIOUS
  <2> QED BY <2>1, <2>2, <1>2, NoLabelsProp, FrameProp
<1>5. nodes' \in Seq(Nodes) /\ Len(nodes') = Len(nodes) + 1 /\ Len(nodes') <= MaxNodes
  <2>1. node \in Nodes
    BY DEF Nodes
  <2>2. \A m, k \in Nat : m < k => m + 1 <= k
    OBVIOUS
  <2> HIDE DEF node
  <2> QED BY <2>1, <2>2, <1>1, <1>2, AppendProperties, ConstantsAssumption DEF IInv, TypeOK
<1>6. Fresh(l, label_counter, label_counter, Len(nodes), Len(nodes) + 1)
  <2>1. \A m \in Nat : m + 1 \in m+1..m+1
    OBVIOUS
  <2> QED BY <2>1, <1>2, <1>3 DEF Fresh, NewNode
<1>7. Emits(<<Def(l)>>, {l}, {})
  BY <1>3, EmitsItem
<1>8. code' = code \o <<Def(l)>>
  <2>1. Def(l) \in Items /\ code \in Seq(Items)
    <3>1. 0 \in Nat /\ "x" \in Parts
      BY DEF Parts
    <3> QED BY <3>1, <1>3, ItemProp DEF IInv, TypeOK
  <2> QED BY <2>1, <1>1, Pieces
<1>9. f.numb.break < 0 /\ f.numb.continue < 0 /\ f.numb.switch < 0
  BY <1>4 DEF NoNumb, NONE
<1>10. Owes(f) = {}
  BY <1>4 DEF Owes
<1> HIDE DEF f, l, node
<1>11. StackOK(<<f>>)
  <2>1. <<f>> \in Seq(Frames) /\ DOMAIN <<f>> = {1} /\ <<f>>[1] = f /\ Len(<<f>>) = 1
    BY <1>4
  <2> QED BY <2>1, <1>4 DEF StackOK
<1>12. FrameOK(f, DefsOf(code) \cup {l}, label_counter)
  BY <1>4, <1>9, <1>10 DEF FrameOK
<1>13. Pushed(<<>>, f, DefsOf(code), {l}, {},
              label_counter, label_counter, Len(nodes), Len(nodes) + 1)
  BY <1>4, <1>6, <1>9, <1>10, <1>12 DEF Pushed, NoNumb, NONE
<1>14. Grows(label_counter, label_counter, Len(nodes), Len(nodes) + 1)
  BY <1>2 DEF Grows
<1>15. /\ LInv(Append(<<>>, f), DefsOf(code) \cup {l}, JumpsOf(code) \cup {},
               label_counter, Len(nodes) + 1)
       /\ \A x \in DefsOf(code) \cap {l} : x.kind \in {"user", "default"}
  <2>1. LInv(<<>>, DefsOf(code), JumpsOf(code), label_counter, Len(nodes))
    BY <1>1 DEF IInv
  <2>2. Like(<<>>, <<>>) /\ <<>> \in Seq(Frames) /\ {l} \in SUBSET Labels
    BY <1>3 DEF Like
  <2> QED BY <2>1, <2>2, <1>2, <1>4, <1>13, <1>14, Push
<1>16. Append(<<>>, f) = <<f>>
  OBVIOUS
<1>17. /\ code' \in Seq(Items) /\ Once(code')
       /\ DefsOf(code') = DefsOf(code) \cup {l} /\ JumpsOf(code') = JumpsOf(code) \cup {}
  <2>1. \A x \in DefsOf(code) \cap {l} : x.kind = "user"
    BY <1>3, <1>15
  <2> QED BY <2>1, <1>7, <1>8, CodeStep DEF IInv
<1>18. TypeOK'
  BY <1>1, <1>5, <1>11, <1>17 DEF IInv, TypeOK, StackOK
<1> QED BY <1>1, <1>5, <1>15, <1>16, <1>17, <1>18 DEF IInv

\* A token that starts no statement is an error.
LEMMA StrayTokenStep == ASSUME IInv, StrayToken PROVE IInv'
BY HaltStep DEF StrayToken

------------------------------------------------------------------------------
\* The invariant.

\* It holds before the first function.
LEMMA InitIInv == Init => IInv
<1> SUFFICES ASSUME Init PROVE IInv
  OBVIOUS
<1>1. DOMAIN frames = {} /\ Len(frames) = 0 /\ Len(nodes) = 0 /\ code = <<>>
  BY DEF Init
<1>2. TypeOK
  <2>1. /\ frames \in Seq(Frames) /\ code \in Seq(Items) /\ nodes \in Seq(Nodes)
        /\ label_counter \in Nat /\ label_counter >= FirstLabel /\ 0 <= MaxNodes
    BY ConstantsAssumption DEF Init
  <2>2. \A i \in 1..Len(frames)-1 : frames[i].left # "one"
    BY <1>1
  <2> QED BY <1>1, <2>1, <2>2 DEF Init, TypeOK
<1>3. Once(code) /\ DefsOf(code) = {} /\ JumpsOf(code) = {}
  BY <1>1, NoCode
<1>4. LInv(frames, {}, {}, label_counter, Len(nodes))
  BY <1>1 DEF LInv, Landing
<1> QED BY <1>2, <1>3, <1>4 DEF IInv

\* Every step keeps it, if case and default stand in the braces of their switch.
LEMMA NextIInv ==
  ASSUME "nested_case" \notin Dialect
  PROVE  IInv /\ [Next]_vars => IInv'
<1> SUFFICES ASSUME IInv, [Next]_vars PROVE IInv'
  OBVIOUS
<1>1. CASE UNCHANGED vars
  BY <1>1 DEF vars, IInv, TypeOK
<1>2. CASE ExprStatement \/ Empty \/ Asm \/ Return \/ Goto \/ Label
  BY <1>2, ExprStatementStep, EmptyStep, AsmStep, ReturnStep, GotoStep
<1>3. CASE Continue \/ Break
  BY <1>3, ContinueStep, BreakStep
<1>4. CASE Case \/ Default
  BY <1>4, CaseStep, DefaultStep
<1>5. CASE OpenIf \/ OpenWhile \/ OpenFor \/ OpenDo \/ OpenSwitch \/ OpenFunction
  BY <1>5, OpenIfStep, OpenWhileStep, OpenForStep, OpenDoStep, OpenSwitchStep, OpenFunctionStep
<1>6. CASE CloseLoop \/ CloseDo \/ CloseSwitch \/ CloseElse \/ CloseFunction
  BY <1>6, CloseLoopStep, CloseDoStep, CloseSwitchStep, CloseElseStep, CloseFunctionStep
<1>7. CASE Else \/ NoElse
  BY <1>7, ElseStep, NoElseStep
<1>8. CASE StrayToken
  BY <1>8, StrayTokenStep
<1> QED BY <1>1, <1>2, <1>3, <1>4, <1>5, <1>6, <1>7, <1>8 DEF Next

\* Frames, code and nodes keep their types: a function is at the bottom of the
\* stack, and a statement being read is counted by the one around it.
THEOREM TypeCorrect ==
  ASSUME "nested_case" \notin Dialect
  PROVE  Spec => []TypeOK
<1>1. IInv => TypeOK
  BY DEF IInv
<1> QED BY <1>1, InitIInv, NextIInv, PTL DEF Spec

\* No label but a goto label of the program is printed twice, however statements
\* are nested and whatever labels their expressions use.
THEOREM LabelsAreUnique ==
  ASSUME "nested_case" \notin Dialect
  PROVE  Spec => []LabelsUnique
<1>1. IInv => LabelsUnique
  BY DEF IInv, Once, LabelsUnique
<1> QED BY <1>1, InitIInv, NextIInv, PTL DEF Spec

\* When a function is complete, no jump of it, nor of any before it, is left
\* without its label, if no break leaves a do.
THEOREM JumpsDoLand ==
  ASSUME "nested_case" \notin Dialect, "break_in_do" \notin Dialect
  PROVE  Spec => []JumpsLand
<1>1. IInv => JumpsLand
  <2> SUFFICES ASSUME IInv, Complete, NEW i \in DOMAIN code,
                      code[i].op \in JumpOps, code[i].label.kind # "user"
               PROVE  Defined(code[i].label) # {}
    BY DEF JumpsLand, JumpOps
  <2>1. OwedBy(frames) = {} /\ EndsOf(frames) = {}
    BY DEF Complete, OwedBy, EndsOf
  <2>2. code[i].label \in JumpsOf(code)
    BY DEF JumpsOf
  <2>3. code[i].label \in DefsOf(code)
    BY <2>1, <2>2 DEF IInv, LInv, Landing
  <2> QED BY <2>3 DEF DefsOf, Defined
<1> QED BY <1>1, InitIInv, NextIInv, PTL DEF Spec

------------------------------------------------------------------------------
\* What break and continue are refused for.

\* Down to every statement that passes its numb_param on, break and continue have
\* arrived if anything around it can be left or gone on with.
Through(fs) ==
  \A i \in DOMAIN fs : fs[i].kind # "if" =>
    /\ (\E j \in 1..i : fs[j].kind \in Loops \cup {"switch"}) => fs[i].numb.break >= 0
    /\ (\E j \in 1..i : fs[j].kind \in Loops) => fs[i].numb.continue >= 0

RefusalInv == Through(frames) /\ RefusedRightly

\* Two stacks with the same statements, which break and go on alike.
Alike(fs, gs) ==
  /\ DOMAIN gs = DOMAIN fs
  /\ \A i \in DOMAIN fs :
       /\ gs[i].kind = fs[i].kind
       /\ gs[i].numb.break = fs[i].numb.break /\ gs[i].numb.continue = fs[i].numb.continue

\* A frame on top of fs, called with the numb_param nb, that is reached as well.
Entered(f, nb) ==
  \/ f.kind = "if"
  \/ f.kind \in Loops /\ f.numb.break >= 0 /\ f.numb.continue >= 0
  \/ f.kind = "switch" /\ f.numb.break >= 0 /\ f.numb.continue = nb.continue

\* What the steps do to the stack.
Moves ==
  \/ Alike(frames, frames') /\ UNCHANGED err
  \/ /\ frames # <<>> /\ UNCHANGED err
     /\ \E f : frames' = Append(Consume(frames), f) /\ Entered(f, Numb)
  \/ /\ frames # <<>> /\ UNCHANGED err
     /\ frames' = SubSeq(frames, 1, Len(frames) - 1)
  \/ \E f : frames' = <<f>> /\ f.kind = "function" /\ UNCHANGED err
  \/ /\ UNCHANGED frames /\ err' # err
     /\ err' = "E_ILLEGAL_BREAK" => frames # <<>> /\ Numb.break < 0
     /\ err' = "E_ILLEGAL_CONTINUE" => frames # <<>> /\ Numb.continue < 0

\* A stack like it passes break and continue on as well.
LEMMA ThroughAlike ==
  ASSUME NEW fs \in Seq(Frames), NEW gs, Alike(fs, gs), Through(fs)
  PROVE  Through(gs)
<1>1. DOMAIN fs = 1..Len(fs) /\ Len(fs) \in Nat
  BY LenProperties
<1>2. \A i \in 1..Len(fs) : \A j \in 1..i : j \in 1..Len(fs)
  BY <1>1
<1> QED BY <1>1, <1>2 DEF Alike, Through

\* The statement whose numb_param is the current one has all the others but if
\* below it.
LEMMA ThroughTop ==
  ASSUME TypeOK, frames # <<>>, Through(frames)
  PROVE  /\ Numb.break < 0 => Breakable = {}
         /\ Numb.continue < 0 => \A i \in DOMAIN frames : frames[i].kind \notin Loops
<1>1. Len(frames) \in Nat /\ DOMAIN frames = 1..Len(frames)
  BY LenProperties DEF TypeOK
<1>2. /\ Owner \in 1..Len(frames) /\ frames[Owner].kind # "if" /\ frames[Owner] \in Frames
      /\ \A j \in Owner+1..Len(frames) : frames[j].kind = "if"
  BY <1>1, OwnerProp
<1>3. Numb.break \in Int /\ Numb.continue \in Int
  BY <1>2 DEF Numb, Frames
<1>4. \A i \in 1..Len(frames) : i \in 1..Owner \/ frames[i].kind = "if"
  <2>1. \A o \in 1..Len(frames) : \A i \in 1..Len(frames) : i \in 1..o \/ i \in o+1..Len(frames)
    BY <1>1
  <2> QED BY <1>2, <2>1
<1>5. "if" \notin Loops \cup {"switch"}
  BY DEF Loops
<1>6. /\ (\E j \in 1..Owner : frames[j].kind \in Loops \cup {"switch"}) => Numb.break >= 0
      /\ (\E j \in 1..Owner : frames[j].kind \in Loops) => Numb.continue >= 0
  BY <1>1, <1>2 DEF Through, Numb
<1>7. Numb.break < 0 => Breakable = {}
  <2>1. ASSUME NEW i \in DOMAIN frames, frames[i].kind \in Loops \cup {"switch"}
        PROVE  Numb.break >= 0
    BY <1>1, <1>4, <1>5, <1>6, <2>1
  <2> QED BY <1>3, <2>1 DEF Breakable
<1>8. ASSUME NEW i \in DOMAIN frames, frames[i].kind \in Loops PROVE Numb.continue >= 0
  BY <1>1, <1>4, <1>5, <1>6, <1>8
<1> QED BY <1>3, <1>7, <1>8

\* A statement is pushed.
LEMMA ThroughPush ==
  ASSUME TypeOK, frames # <<>>, Through(frames), NEW f, Entered(f, Numb),
         frames' = Append(Consume(frames), f)
  PROVE  Through(frames')
<1> DEFINE n == Len(frames)
           cs == Consume(frames)
           gs == Append(cs, f)
<1>1. StackOK(frames)
  BY DEF TypeOK, StackOK
<1>2. cs \in Seq(Frames) /\ Len(cs) = n /\ Like(frames, cs)
  BY <1>1, ConsumeProp DEF StackOK
<1>3. n \in Nat /\ DOMAIN frames = 1..n
  BY <1>1, TopProp
<1>4. Alike(frames, cs)
  BY <1>2 DEF Alike, Like, Same
<1>5. Through(cs)
  BY <1>1, <1>4, ThroughAlike DEF StackOK
<1> HIDE DEF cs
<1>6. DOMAIN gs = 1..n+1 /\ gs[n + 1] = f /\ \A i \in 1..n : gs[i] = cs[i]
  BY <1>2, <1>3
<1> HIDE DEF gs, n
<1>7. DOMAIN cs = 1..n
  BY <1>2, <1>3, LenProperties
<1>8. \A i \in 1..n+1 : i \in 1..n \/ i = n + 1
  BY <1>3
<1>9. ASSUME NEW i \in 1..n
      PROVE  gs[i].kind # "if" =>
        /\ (\E j \in 1..i : gs[j].kind \in Loops \cup {"switch"}) => gs[i].numb.break >= 0
        /\ (\E j \in 1..i : gs[j].kind \in Loops) => gs[i].numb.continue >= 0
  <2>1. \A j \in 1..i : gs[j] = cs[j]
    BY <1>3, <1>6
  <2>2. gs[i] = cs[i]
    BY <1>6
  <2> QED BY <1>5, <1>7, <2>1, <2>2 DEF Through
<1>10. f.kind # "if" =>
        /\ (\E j \in 1..n+1 : gs[j].kind \in Loops \cup {"switch"}) => f.numb.break >= 0
        /\ (\E j \in 1..n+1 : gs[j].kind \in Loops) => f.numb.continue >= 0
  <2>1. f.kind # "if" => f.numb.break >= 0
    BY DEF Entered
  <2>2. ASSUME f.kind # "if", NEW j \in 1..n+1, gs[j].kind \in Loops PROVE f.numb.continue >= 0
    <3>1. CASE f.kind \in Loops
      BY <2>2, <3>1 DEF Entered, Loops
    <3>2. CASE f.kind = "switch"
      <4>1. f.kind \notin Loops /\ f.numb.continue = Numb.continue
        BY <3>2 DEF Entered, Loops
      <4>2. j \in 1..n
        BY <1>6, <1>8, <2>2, <4>1
      <4>3. frames[j].kind \in Loops
        BY <1>3, <1>4, <1>6, <2>2, <4>2 DEF Alike
      <4>4. Numb.continue \in Int
        BY OwnerProp DEF Numb, Frames
      <4> QED BY <1>3, <4>1, <4>2, <4>3, <4>4, ThroughTop
    <3> QED BY <2>2, <3>1, <3>2 DEF Entered
  <2> QED BY <2>1, <2>2
<1>11. ASSUME NEW i \in 1..n+1
       PROVE  gs[i].kind # "if" =>
        /\ (\E j \in 1..i : gs[j].kind \in Loops \cup {"switch"}) => gs[i].numb.break >= 0
        /\ (\E j \in 1..i : gs[j].kind \in Loops) => gs[i].numb.continue >= 0
  <2>1. CASE i = n + 1
    BY <1>6, <1>10, <2>1
  <2> QED BY <1>8, <1>9, <2>1
<1> QED BY <1>6, <1>11 DEF Through, gs, cs

\* A statement is done.
LEMMA ThroughPop ==
  ASSUME TypeOK, frames # <<>>, Through(frames),
         frames' = SubSeq(frames, 1, Len(frames) - 1)
  PROVE  Through(frames')
<1> DEFINE m == Len(frames) - 1
           gs == SubSeq(frames, 1, m)
<1>1. Len(frames) \in Nat \ {0} /\ DOMAIN frames = 1..Len(frames)
  BY TopProp DEF TypeOK, StackOK
<1>2. m \in 0..Len(frames)
  BY <1>1
<1>3. \A i \in 1..m : i \in 1..Len(frames) /\ \A j \in 1..i : j \in 1..m
  BY <1>1
<1>4. DOMAIN gs = 1..m /\ \A i \in 1..m : gs[i] = frames[i]
  <2> HIDE DEF m
  <2> QED BY <1>1, <1>2 DEF TypeOK
<1> HIDE DEF gs, m
<1>5. Through(gs)
  BY <1>1, <1>3, <1>4 DEF Through
<1> QED BY <1>5 DEF gs, m

\* However the stack moves, nothing is refused wrongly.
LEMMA MovesKeep ==
  ASSUME TypeOK, RefusalInv, err = "none", Moves
  PROVE  RefusalInv'
<1>1. CASE Alike(frames, frames') /\ UNCHANGED err
  BY <1>1, ThroughAlike DEF RefusalInv, RefusedRightly, TypeOK
<1>2. CASE /\ frames # <<>> /\ UNCHANGED err
           /\ \E f : frames' = Append(Consume(frames), f) /\ Entered(f, Numb)
  BY <1>2, ThroughPush DEF RefusalInv, RefusedRightly
<1>3. CASE /\ frames # <<>> /\ UNCHANGED err
           /\ frames' = SubSeq(frames, 1, Len(frames) - 1)
  BY <1>3, ThroughPop DEF RefusalInv, RefusedRightly
<1>4. CASE \E f : frames' = <<f>> /\ f.kind = "function" /\ UNCHANGED err
  <2>1. PICK f : frames' = <<f>> /\ f.kind = "function" /\ UNCHANGED err
    BY <1>4
  <2>2. DOMAIN <<f>> = {1} /\ <<f>>[1] = f /\ \A j \in 1..1 : j = 1
    OBVIOUS
  <2>3. Through(<<f>>)
    BY <2>1, <2>2 DEF Through, Loops
  <2> QED BY <2>1, <2>3 DEF RefusalInv, RefusedRightly
<1>5. CASE /\ UNCHANGED frames /\ err' # err
           /\ err' = "E_ILLEGAL_BREAK" => frames # <<>> /\ Numb.break < 0
           /\ err' = "E_ILLEGAL_CONTINUE" => frames # <<>> /\ Numb.continue < 0
  BY <1>5, ThroughTop DEF RefusalInv, RefusedRightly, Breakable
<1> QED BY <1>1, <1>2, <1>3, <1>4, <1>5 DEF Moves

\* Statements without a body leave the stack as it is.
LEMMA SimpleMoves ==
  ASSUME TypeOK, NEW kind, NEW arg, NEW items, Simple(kind, arg, items)
  PROVE  Moves
<1>1. frames # <<>> /\ frames' = Consume(frames) /\ UNCHANGED err
  BY DEF Simple, Reads, Consumed, Consume, Top
<1>2. Like(frames, frames')
  BY <1>1, ConsumeProp DEF TypeOK, StackOK
<1> QED BY <1>1, <1>2 DEF Moves, Alike, Like, Same

\* A case or a default marks its switch.
LEMMA CaseMoves ==
  ASSUME TypeOK, Case \/ Default
  PROVE  Moves
<1> DEFINE cs == Consume(frames)
<1>1. frames # <<>> /\ StackOK(frames) /\ Consumed = cs
  BY DEF Case, Default, Reads, Consumed, Consume, Top, TypeOK, StackOK
<1>2. StackOK(cs) /\ Like(frames, cs)
  BY <1>1, ConsumeProp
<1>3. /\ Owner \in DOMAIN cs /\ cs \in Seq(Frames)
      /\ \A i \in DOMAIN cs : cs[i] \in Frames
  <2>1. Owner \in DOMAIN cs /\ cs \in Seq(Frames)
    BY <1>1, <1>2, OwnerProp DEF Like, StackOK
  <2> QED BY <2>1, LenProperties, ElementOfSeq
<1> HIDE DEF cs
<1>4. ASSUME NEW g \in Frames, g.kind = cs[Owner].kind,
             g.numb.break = cs[Owner].numb.break, g.numb.continue = cs[Owner].numb.continue
      PROVE  Alike(frames, [cs EXCEPT ![Owner] = g])
  <2>1. /\ DOMAIN [cs EXCEPT ![Owner] = g] = DOMAIN cs
        /\ \A i \in DOMAIN cs : [cs EXCEPT ![Owner] = g][i] = IF i = Owner THEN g ELSE cs[i]
    BY <1>3
  <2> QED BY <1>2, <1>4, <2>1 DEF Alike, Like, Same
<1>5. ASSUME NEW x \in Int
      PROVE  Alike(frames, [cs EXCEPT ![Owner].numb.serial = x])
  <2> DEFINE f == cs[Owner]
             nb == [f.numb EXCEPT !.serial = x]
             g == [f EXCEPT !.numb.serial = x]
  <2>0. f \in Frames /\ f.numb \in Numbs
    BY <1>3 DEF Frames, Numbs
  <2>1. /\ g \in Frames /\ g.kind = cs[Owner].kind
        /\ g.numb.break = cs[Owner].numb.break /\ g.numb.continue = cs[Owner].numb.continue
    <3>1. nb \in Numbs /\ nb.break = f.numb.break /\ nb.continue = f.numb.continue
      BY <2>0 DEF Numbs
    <3>2. g = [f EXCEPT !.numb = nb]
      BY <2>0 DEF Frames
    <3> HIDE DEF nb
    <3>3. [f EXCEPT !.numb = nb] \in Frames
      BY <2>0, <3>1 DEF Frames, Numbs
    <3>4. [f EXCEPT !.numb = nb].kind = f.kind /\ [f EXCEPT !.numb = nb].numb = nb
      BY <2>0 DEF Frames
    <3> QED BY <3>1, <3>2, <3>3, <3>4
  <2>2. [cs EXCEPT ![Owner].numb.serial = x] = [cs EXCEPT ![Owner] = g]
    BY <1>3
  <2> HIDE DEF g
  <2> QED BY <1>4, <2>1, <2>2
<1>6. Alike(frames, [cs EXCEPT ![Owner].numb.default = TRUE])
  <2> DEFINE f == cs[Owner]
             nb == [f.numb EXCEPT !.default = TRUE]
             g == [f EXCEPT !.numb.default = TRUE]
  <2>0. f \in Frames /\ f.numb \in Numbs
    BY <1>3 DEF Frames, Numbs
  <2>1. /\ g \in Frames /\ g.kind = cs[Owner].kind
        /\ g.numb.break = cs[Owner].numb.break /\ g.numb.continue = cs[Owner].numb.continue
    <3>1. nb \in Numbs /\ nb.break = f.numb.break /\ nb.continue = f.numb.continue
      BY <2>0 DEF Numbs
    <3>2. g = [f EXCEPT !.numb = nb]
      BY <2>0 DEF Frames
    <3> HIDE DEF nb
    <3>3. [f EXCEPT !.numb = nb] \in Frames
      BY <2>0, <3>1 DEF Frames, Numbs
    <3>4. [f EXCEPT !.numb = nb].kind = f.kind /\ [f EXCEPT !.numb = nb].numb = nb
      BY <2>0 DEF Frames
    <3> QED BY <3>1, <3>2, <3>3, <3>4
  <2>2. [cs EXCEPT ![Owner].numb.default = TRUE] = [cs EXCEPT ![Owner] = g]
    BY <1>3
  <2> HIDE DEF g
  <2> QED BY <1>4, <2>1, <2>2
<1>7. Numb.serial \in Int /\ Numb.serial + 1 \in Int
  <2>1. Numb.serial \in Int
    BY <1>1, OwnerProp DEF Numb, Frames
  <2> QED BY <2>1
<1>8. CASE frames' = [cs EXCEPT ![Owner].numb.serial = Numb.serial + 1] /\ UNCHANGED err
  BY <1>5, <1>7, <1>8 DEF Moves
<1>9. CASE frames' = [cs EXCEPT ![Owner].numb.default = TRUE] /\ UNCHANGED err
  BY <1>6, <1>9 DEF Moves
<1>10. CASE Halt("E_SYNTAX_ERROR") /\ err = "none"
  BY <1>10 DEF Halt, Moves
<1> QED BY <1>1, <1>8, <1>9, <1>10 DEF Case, Default, Reads

\* A statement with a body passes numb_param on, with labels of its own.
LEMMA OpenMoves ==
  ASSUME TypeOK, IInv, NEW kind, NEW form, NEW numb, NEW labels, NEW left, NEW items,
         Open(kind, form, numb, labels, left, items),
         \/ kind = "if"
         \/ kind \in Loops /\ numb.break >= 0 /\ numb.continue >= 0
         \/ kind = "switch" /\ numb.break >= 0 /\ numb.continue = Numb.continue
  PROVE  Moves
<1> DEFINE f == Frame(kind, NewNode, numb, labels, left)
<1>1. frames # <<>> /\ frames' = Append(Consume(frames), f) /\ UNCHANGED err
  BY DEF Open, Reads, Consumed, Consume, Top
<1>2. f.kind = kind /\ f.numb = numb
  BY DEF Frame
<1> HIDE DEF f
<1>3. Entered(f, Numb)
  BY <1>2 DEF Entered
<1> QED BY <1>1, <1>3 DEF Moves

\* The statements that open a body.
LEMMA AnyOpenMoves ==
  ASSUME IInv, OpenIf \/ OpenWhile \/ OpenFor \/ OpenDo \/ OpenSwitch
  PROVE  Moves
<1>1. TypeOK /\ label_counter \in Nat
  BY DEF IInv, TypeOK
<1> DEFINE lc == label_counter
<1>2. lc \in Int /\ lc + 1 \in Int /\ lc + 2 \in Int /\ lc >= 0 /\ lc + 1 >= 0 /\ lc + 2 >= 0
  BY <1>1
<1>3. frames # <<>> => Numb \in Numbs
  BY NumbProp
<1>4. CASE OpenIf
  BY <1>1, <1>4, OpenMoves DEF OpenIf
<1>5. CASE OpenWhile
  <2>1. \E numb, labels, left, items :
           /\ Open("while", {}, numb, labels, left, items)
           /\ numb = LoopNumb(Numb, lc, lc + 1)
    BY <1>5 DEF OpenWhile, LoopNumb
  <2> HIDE DEF lc
  <2>2. frames # <<>>
    BY <2>1 DEF Open, Reads
  <2>3. LoopNumb(Numb, lc, lc + 1).break >= 0 /\ LoopNumb(Numb, lc, lc + 1).continue >= 0
    BY <1>2, <1>3, <2>2, NumbExcept
  <2> QED BY <1>1, <2>1, <2>3, OpenMoves DEF Loops
<1>6. CASE OpenFor
  <2>1. \E form, numb, labels, left, items :
           /\ Open("for", form, numb, labels, left, items)
           /\ numb = LoopNumb(Numb, lc, lc + 1)
    BY <1>6 DEF OpenFor, LoopNumb
  <2> HIDE DEF lc
  <2>2. frames # <<>>
    BY <2>1 DEF Open, Reads
  <2>3. LoopNumb(Numb, lc, lc + 1).break >= 0 /\ LoopNumb(Numb, lc, lc + 1).continue >= 0
    BY <1>2, <1>3, <2>2, NumbExcept
  <2> QED BY <1>1, <2>1, <2>3, OpenMoves DEF Loops
<1>7. CASE OpenDo
  <2>1. \E numb, labels, left, items :
           /\ Open("do", {}, numb, labels, left, items)
           /\ numb = DoNumb(Numb, lc + 1, lc + 2)
    BY <1>7 DEF OpenDo, DoNumb
  <2> HIDE DEF lc
  <2>2. frames # <<>>
    BY <2>1 DEF Open, Reads
  <2>3. DoNumb(Numb, lc + 1, lc + 2).break >= 0 /\ DoNumb(Numb, lc + 1, lc + 2).continue >= 0
    BY <1>2, <1>3, <2>2, NumbExcept
  <2> QED BY <1>1, <2>1, <2>3, OpenMoves DEF Loops
<1>8. CASE OpenSwitch
  <2>1. \E numb, labels, left, items :
           /\ Open("switch", {}, numb, labels, left, items)
           /\ numb = SwitchNumb(Numb, lc, lc + 1)
    BY <1>8 DEF OpenSwitch, SwitchNumb
  <2> HIDE DEF lc
  <2>2. frames # <<>>
    BY <2>1 DEF Open, Reads
  <2>3. /\ SwitchNumb(Numb, lc, lc + 1).break >= 0
        /\ SwitchNumb(Numb, lc, lc + 1).continue = Numb.continue
    BY <1>2, <1>3, <2>2, NumbSwitch
  <2> QED BY <1>1, <2>1, <2>3, OpenMoves
<1> QED BY <1>4, <1>5, <1>6, <1>7, <1>8

\* The second part of an if begins where the first one was.
LEMMA ElseMoves ==
  ASSUME TypeOK, Else
  PROVE  Moves
<1> DEFINE n == Len(frames)
<1>1. PICK braces \in BOOLEAN :
        /\ Closes("if") /\ UNCHANGED err
        /\ frames' = [frames EXCEPT ![n].left = LeftOf(braces), ![n].part = "else"]
  BY DEF Else, Then
<1> DEFINE f == frames[n]
           g == [f EXCEPT !.left = LeftOf(braces), !.part = "else"]
<1>2. n \in DOMAIN frames /\ f \in Frames
  BY <1>1, TopProp DEF Closes, TypeOK, StackOK
<1>3. frames' = [frames EXCEPT ![n] = g]
  BY <1>1, <1>2 DEF TypeOK
<1>4. g.kind = f.kind /\ g.numb = f.numb
  BY <1>2 DEF Frames
<1> HIDE DEF g
<1>5. Alike(frames, frames')
  BY <1>2, <1>3, <1>4 DEF Alike, TypeOK
<1> QED BY <1>1, <1>5 DEF Moves

\* Every step moves the stack so.
LEMMA NextMoves ==
  ASSUME IInv, Next
  PROVE  Moves /\ err = "none"
<1>1. TypeOK
  BY DEF IInv
<1>2. CASE ExprStatement \/ Empty \/ Asm \/ Return \/ Goto \/ Label
  <2>1. PICK kind, arg, items : Simple(kind, arg, items)
    BY <1>2 DEF ExprStatement, Empty, Asm, Return, Goto, Label
  <2> QED BY <1>1, <2>1, SimpleMoves DEF Simple, Reads
<1>3. CASE Continue
  <2>1. CASE \E kind, arg, items : Simple(kind, arg, items)
    BY <1>1, <2>1, SimpleMoves DEF Simple, Reads
  <2>2. CASE Reads("continue") /\ Numb.continue < 0 /\ Halt("E_ILLEGAL_CONTINUE")
    BY <2>2 DEF Halt, Moves, Reads
  <2> QED BY <1>3, <2>1, <2>2 DEF Continue
<1>4. CASE Break
  <2>1. CASE \E kind, arg, items : Simple(kind, arg, items)
    BY <1>1, <2>1, SimpleMoves DEF Simple, Reads
  <2>2. CASE Reads("break") /\ Numb.break < 0 /\ Halt("E_ILLEGAL_BREAK")
    BY <2>2 DEF Halt, Moves, Reads
  <2> QED BY <1>4, <2>1, <2>2 DEF Break
<1>5. CASE Case \/ Default
  <2>1. err = "none"
    BY <1>5 DEF Case, Default, Reads
  <2> QED BY <1>1, <1>5, <2>1, CaseMoves
<1>6. CASE OpenIf \/ OpenWhile \/ OpenFor \/ OpenDo \/ OpenSwitch
  <2>1. err = "none"
    BY <1>6 DEF OpenIf, OpenWhile, OpenFor, OpenDo, OpenSwitch, Open, Reads
  <2> QED BY <1>6, <2>1, AnyOpenMoves
<1>7. CASE CloseLoop \/ CloseDo \/ CloseSwitch \/ CloseElse \/ CloseFunction \/ NoElse
  <2>1. frames # <<>> /\ frames' = Popped /\ UNCHANGED err /\ err = "none"
    BY <1>7 DEF CloseLoop, CloseDo, CloseSwitch, CloseElse, CloseFunction, NoElse, Closes, Close
  <2> QED BY <2>1 DEF Moves, Popped
<1>8. CASE Else
  BY <1>1, <1>8, ElseMoves DEF Else, Then, Closes
<1>9. CASE OpenFunction
  <2>1. frames' = <<Frame("function", NewNode, NoNumb, NoLabels, "many")>> /\ UNCHANGED err
        /\ err = "none"
    BY <1>9 DEF OpenFunction
  <2>2. Frame("function", NewNode, NoNumb, NoLabels, "many").kind = "function"
    BY DEF Frame
  <2> QED BY <2>1, <2>2 DEF Moves
<1>10. CASE StrayToken
  BY <1>10 DEF StrayToken, Halt, Moves
<1> QED BY <1>2, <1>3, <1>4, <1>5, <1>6, <1>7, <1>8, <1>9, <1>10 DEF Next

\* A break or continue is refused only where nothing around it can be left or
\* gone on with, however deep it stands and whatever if and switch are in between.
THEOREM RefusalsAreRight ==
  ASSUME "nested_case" \notin Dialect
  PROVE  Spec => []RefusedRightly
<1>1. Init => RefusalInv
  BY DEF Init, RefusalInv, Through, RefusedRightly
<1>2. IInv /\ RefusalInv /\ [Next]_vars => RefusalInv'
  <2> SUFFICES ASSUME IInv, RefusalInv, [Next]_vars PROVE RefusalInv'
    OBVIOUS
  <2>1. CASE Next
    BY <2>1, NextMoves, MovesKeep DEF IInv
  <2>2. CASE UNCHANGED vars
    BY <2>2 DEF vars, RefusalInv, RefusedRightly, Breakable
  <2> QED BY <2>1, <2>2
<1>3. RefusalInv => RefusedRightly
  BY DEF RefusalInv
<1> QED BY <1>1, <1>2, <1>3, InitIInv, NextIInv, PTL DEF Spec
===============================================================================
