-------------------------- MODULE ExpressionsMeaning --------------------------
(***************************************************************************)
(* What the generated code of Expressions does when it runs, against what  *)
(* the expression means in C.  The code runs on the part of a 386 it uses, *)
(* with ByteBits bits to a byte; the expression is evaluated by the rules  *)
(* of C, which leave some expressions without a meaning.                   *)
(***************************************************************************)
EXTENDS Expressions

CONSTANTS
  FrameBase,  \* the value of ebp
  Excluded    \* kinds of expression that are not compared, of AllFaults

------------------------------------------------------------------------------
\* Memory

Bits(w) == w * ByteBits
Low(n, w) == n % 2^Bits(w)
AsSigned(n, w) == IF Bit(n, Bits(w) - 1) = 1 THEN Low(n, w) - 2^Bits(w) ELSE Low(n, w)
Junk == Word(165)

Mapped(m, a, w) == {a + i : i \in 0..w-1} \subseteq DOMAIN m
Fetch(m, a, w) ==
  FoldLeft(LAMBDA v, i : v + m[a + i] * 2^Bits(i), 0, [i \in 1..w |-> i - 1])
Put(m, a, w, v) ==
  [b \in DOMAIN m |-> IF b \in a..a+w-1 THEN (v \div 2^Bits(b - a)) % 2^ByteBits ELSE m[b]]

\* The functions called: their result for arguments, and how many they take.
CalleeStep(v, y) == Signed(2 * v + y + 1)
Callee(args) == FoldLeft(CalleeStep, 1, args)
ParamsOf(at) == Symbols[CHOOSE s \in DOMAIN Symbols : Symbols[s].attr.func /\ Symbols[s].at = at].params

------------------------------------------------------------------------------
\* The machine: registers, the operands of the last comparison, memory, the
\* stack with its top first, and whether it got this far.

Start(m) ==
  [r |-> [eax |-> Junk, ebx |-> Junk, ecx |-> Junk, edx |-> Junk],
   f |-> <<0, 0, 4>>, m |-> m, k |-> <<>>, ok |-> TRUE]
Stuck(s) == [s EXCEPT !.ok = FALSE]

IsReg(o) == ~o.mem /\ o.base # "none"
OpWidth(it) ==
  CASE it.size > 0 -> it.size [] it.size = 0 /\ IsReg(it.dst) -> it.dst.w [] OTHER -> it.src.w

\* The assembler has an encoding for the instruction.
Assembles(it) ==
  /\ it.dst.mem \/ IsReg(it.dst)
  /\ OpWidth(it) \in {1, 2, 4} /\ it.src.base # "ebp+" /\ ~(it.dst.mem /\ it.src.mem)
  /\ IsReg(it.dst) => it.dst.w = OpWidth(it)
  /\ IsReg(it.src) /\ it.op \notin {"shl", "shr"} => it.src.w = OpWidth(it)

AddressIn(o, s) ==
  Word(o.n + CASE o.base = "none" -> 0 [] o.base = "ebp" -> FrameBase [] OTHER -> s.r[o.base])
Get(o, w, s) ==
  CASE o.mem -> Fetch(s.m, AddressIn(o, s), w)
    [] ~o.mem /\ o.base = "none" -> Low(o.n, w)
    [] ~o.mem /\ o.base = "ebp" -> FrameBase
    [] OTHER -> Low(s.r[o.base], w)
SetReg(s, r, w, v) == [s EXCEPT !.r[r] = s.r[r] - Low(s.r[r], w) + Low(v, w)]
Set(o, w, v, s) ==
  IF o.mem THEN [s EXCEPT !.m = Put(s.m, AddressIn(o, s), w, Low(v, w))]
  ELSE SetReg(s, o.base, w, v)

Reaches(o, w, s) == o.mem => Mapped(s.m, AddressIn(o, s), w)

\* dst and src of width w
TwoOperands(it, s) ==
  LET w == OpWidth(it)
      x == Get(it.dst, w, s)
      y == Get(it.src, w, s)
      count == Low(s.r.ecx, 1) % WordBits
      v == CASE it.op = "mov" -> y
             [] it.op = "add" -> x + y
             [] it.op \in {"sub", "cmp"} -> x - y
             [] it.op = "and" -> BitwiseOf("&", x, y)
             [] it.op = "or" -> BitwiseOf("|", x, y)
             [] it.op = "xor" -> BitwiseOf("^", x, y)
             [] it.op = "shl" -> x * 2^count
             [] it.op = "shr" -> x \div 2^count
      t == IF it.op = "cmp" THEN s ELSE Set(it.dst, w, v, s)
  IN CASE ~Assembles(it) \/ ~Reaches(it.dst, w, s) \/ ~Reaches(it.src, w, s) -> Stuck(s)
       [] it.op = "mov" -> t
       [] it.op \in {"sub", "cmp"} -> [t EXCEPT !.f = <<x, y, w>>]
       [] OTHER -> [t EXCEPT !.f = <<Low(v, w), 0, w>>]

Multiplied(it, s) ==
  LET y == s.r[it.dst.base]
      z == IF it.op = "mul" THEN s.r.eax * y ELSE Signed(s.r.eax) * Signed(y)
  IN [s EXCEPT !.r.eax = Word(z), !.r.edx = Word(z \div 2^WordBits)]

Divided(it, s) ==
  LET uns == it.op = "div"
      x == s.r.eax + 2^WordBits * IF uns THEN s.r.edx ELSE Signed(s.r.edx)
      y == IF uns THEN s.r[it.dst.base] ELSE Signed(s.r[it.dst.base])
      q == Quotient(x, y)
  IN IF y = 0 \/ (IF uns THEN Word(q) # q ELSE Signed(q) # q) THEN Stuck(s)
     ELSE [s EXCEPT !.r.eax = Word(q), !.r.edx = Word(x - y * q)]

OneOperand(it, s) ==
  LET eax == s.r.eax IN
  CASE it.op = "push" -> [s EXCEPT !.k = <<eax>> \o s.k]
    [] it.op = "pop" -> IF s.k = <<>> THEN Stuck(s)
                        ELSE [SetReg(s, it.dst.base, 4, Head(s.k)) EXCEPT !.k = Tail(s.k)]
    [] it.op = "neg" -> SetReg(s, "eax", 4, -eax)
    [] it.op = "not" -> SetReg(s, "eax", 4, -eax - 1)
    [] it.op = "dec" -> SetReg(s, "eax", 4, eax - 1)
    [] it.op = "cbw" -> SetReg(s, "eax", 2, AsSigned(eax, 1))
    [] it.op = "cwde" -> SetReg(s, "eax", 4, AsSigned(eax, 2))
    [] it.op = "cwd" -> SetReg(s, "edx", 2, IF AsSigned(eax, 2) < 0 THEN -1 ELSE 0)
    [] it.op \in {"mul", "imul"} -> Multiplied(it, s)
    [] it.op \in {"div", "idiv"} -> Divided(it, s)
    [] it.op = "call" ->
         IF Len(s.k) < ParamsOf(it.dst.n) THEN Stuck(s)
         ELSE [s EXCEPT !.r = [eax |-> Word(Callee([i \in 1..ParamsOf(it.dst.n) |-> Signed(s.k[i])])),
                               ebx |-> Junk, ecx |-> Junk, edx |-> Junk]]

\* sub esp, add esp and stores to [esp+n]
OnStack(it, s) ==
  CASE it.op = "sub" -> [s EXCEPT !.k = [i \in 1..it.src.n \div 4 |-> Junk] \o s.k]
    [] it.op = "add" -> [s EXCEPT !.k = SubSeq(s.k, 1 + it.src.n \div 4, Len(s.k))]
    [] it.op = "mov" -> [s EXCEPT !.k[1 + it.dst.n \div 4] = s.r.eax]

Taken(op, f) ==
  LET x == f[1]
      y == f[2]
      sx == AsSigned(x, f[3])
      sy == AsSigned(y, f[3])
  IN CASE op = "jmp" -> TRUE [] op = "jz" -> x = y [] op = "jnz" -> x # y
       [] op = "jb" -> x < y [] op = "jbe" -> x <= y [] op = "ja" -> x > y [] op = "jae" -> x >= y
       [] op = "jl" -> sx < sy [] op = "jle" -> sx <= sy [] op = "jg" -> sx > sy
       [] op = "jge" -> sx >= sy

\* Every jump goes forward: one pass over the code runs it.  to is the label
\* jumped to, or -1.
Step(z, it) ==
  LET s == z.s
      on(t) == [s |-> t, to |-> -1]
  IN CASE z.to >= 0 -> IF it.op = "label" /\ it.dst.n = z.to THEN on(s) ELSE z
       [] z.to < 0 /\ ~s.ok -> z
       [] z.to < 0 /\ s.ok /\ it.op = "label" -> z
       [] z.to < 0 /\ s.ok /\ it.op \in JumpOps ->
            IF Taken(it.op, s.f) THEN [z EXCEPT !.to = it.dst.n] ELSE z
       [] z.to < 0 /\ s.ok /\ it.dst.base = "esp" -> on(OnStack(it, s))
       [] z.to < 0 /\ s.ok /\ it.op \in
            {"push", "pop", "neg", "not", "dec", "cbw", "cwde", "cwd", "mul", "imul", "div", "idiv", "call"} ->
            on(OneOperand(it, s))
       [] OTHER -> on(TwoOperands(it, s))
Run(items, m) ==
  LET z == FoldLeft(Step, [s |-> Start(m), to |-> -1], items)
  IN IF z.to >= 0 THEN Stuck(z.s) ELSE z.s

------------------------------------------------------------------------------
\* C: types

Type(a, dims) == [a |-> [a EXCEPT !.arrp = FALSE, !.func = FALSE], dims |-> dims]
IntType == Type(IntAttr, <<>>)
UnsignedType == Type(Attr("int", TRUE, 0, 0), <<>>)
Arithmetic(t) == ~IsAddress(t.a)
Pointer(t) == t.dims = <<>> /\ t.a.ptr > 0
SizeOfType(t) == Width(t.a) * ProductOf(t.dims)
\* What a pointer or an array of type t points to.
Target(t) ==
  IF t.dims # <<>> THEN [a |-> [t.a EXCEPT !.arr = t.a.arr - 1], dims |-> Tail(t.dims)]
  ELSE [t EXCEPT !.a.ptr = t.a.ptr - 1]
PointerTo(t) == [t EXCEPT !.a.ptr = t.a.ptr + 1]
Decays(t) == IF t.dims # <<>> THEN PointerTo(Target(t)) ELSE t

IsUnsigned(t) == t.a.uns \/ t.a.ptr > 0
Promoted(t) == IF Arithmetic(t) /\ t.a.base # "int" THEN IntType ELSE t
Common(s, t) == IF UnsignedType \in {Promoted(s), Promoted(t)} THEN UnsignedType ELSE IntType
CommonOf(ts) == IF Arithmetic(ts[1]) THEN Common(ts[1], ts[2]) ELSE ts[1]
\* n as a value of type t, and whether t has the value n.
As(n, t) == IF IsUnsigned(t) THEN Low(n, Width(t.a)) ELSE AsSigned(n, Width(t.a))
Fits(n, t) == IsUnsigned(t) \/ As(n, t) = n

------------------------------------------------------------------------------
\* C: values

\* The value v of an expression of type t, or for a place its address; memory
\* afterwards; whether it has a meaning, and has written or read memory.
Result(t, v, m, ok, wr, rd) == [t |-> t, v |-> v, m |-> m, ok |-> ok, wr |-> wr, rd |-> rd]
Then(x, t, v, ok) == [x EXCEPT !.t = t, !.v = v, !.ok = x.ok /\ ok]

\* Two operands whose order C leaves open: neither writes what the other uses.
Unordered(x, y) == ~(x.wr /\ (y.wr \/ y.rd)) /\ ~(y.wr /\ x.rd)
Join(x, y) == [y EXCEPT !.ok = x.ok /\ y.ok, !.wr = x.wr \/ y.wr, !.rd = x.rd \/ y.rd]

\* The binary operators on values.  (A byte has room for every shift count of a
\* real machine; here a count has to fit into one.)
Calculate(op, x, y, t) ==
  CASE op \in {"<<", ">>"} -> Fold(op, x, y)
    [] op \in {"/", "%"} /\ IsUnsigned(t) -> IF op = "/" THEN x \div y ELSE x % y
    [] op \in {"/", "%"} /\ ~IsUnsigned(t) ->
         IF op = "/" THEN Quotient(x, y) ELSE x - y * Quotient(x, y)
    [] op = "+" -> x + y [] op = "-" -> x - y [] op = "*" -> x * y
    [] OTHER -> As(BitwiseOf(op, Word(x), Word(y)), t)
Operates(op, x, y, t) ==
  CASE op \in {"/", "%"} -> y # 0
    [] op \in Shift ->
         x >= 0 /\ y \in 0..WordBits-1 /\ y < 2^ByteBits /\ (op = "<<" => Fits(x * 2^y, t))
    [] OTHER -> TRUE
Binary(op, x, y) ==
  LET t == IF op \in Shift THEN Promoted(x.t) ELSE Common(x.t, y.t)
      a == IF op \in Shift THEN x.v ELSE As(x.v, t)
      b == IF op \in Shift THEN y.v ELSE As(y.v, t)
      ok == Arithmetic(x.t) /\ Arithmetic(y.t) /\ Operates(op, a, b, t)
      v == IF ok THEN Calculate(op, a, b, t) ELSE 0
  IN Then(Join(x, y), t, As(v, t), ok /\ Unordered(x, y) /\ Fits(v, t))

Holds(op, a, b) ==
  CASE op = "<" -> a < b [] op = "<=" -> a <= b [] op = ">" -> a > b [] op = ">=" -> a >= b
    [] op = "==" -> a = b [] op = "!=" -> a # b
TruthOf(b) == IF b THEN 1 ELSE 0
Comparison(op, x, y) ==
  LET both == Arithmetic(x.t) /\ Arithmetic(y.t)
      t == IF both THEN Common(x.t, y.t) ELSE x.t
      ok == Unordered(x, y) /\ (both \/ (Pointer(x.t) /\ x.t = y.t))
  IN Then(Join(x, y), IntType, TruthOf(Holds(op, As(x.v, t), As(y.v, t))), ok)

BaseOp(op) == CASE op = "+=" -> "+" [] op = "-=" -> "-" [] op = "*=" -> "*" [] op = "/=" -> "/"
                [] op = "%=" -> "%" [] op = "&=" -> "&" [] op = "^=" -> "^" [] op = "|=" -> "|"
                [] op = "<<=" -> "<<" [] op = ">>=" -> ">>"
Stepped(op) == IF op \in {"++x", "x++"} THEN 1 ELSE -1

\* The object at place x has the value v from now on.
Assigned(x, v) == Then([x EXCEPT !.m = Put(x.m, x.v, Width(x.t.a), Word(v)), !.wr = TRUE],
                       x.t, As(v, x.t), TRUE)
Content(x) ==
  IF x.t.dims # <<>> THEN [x EXCEPT !.t = Decays(x.t)]
  ELSE IF IsStruct(x.t.a) THEN [x EXCEPT !.v = 0, !.ok = FALSE]
  ELSE Then([x EXCEPT !.rd = TRUE], x.t,
            IF x.ok THEN As(Fetch(x.m, x.v, Width(x.t.a)), x.t) ELSE 0, TRUE)

Nothing(m) == Result(IntType, 0, m, FALSE, FALSE, FALSE)

\* a[n] for a pointer a
Indexed(a, n) ==
  LET t == Target(a.t)
      at == a.v + n.v * SizeOfType(t)
  IN IF ~Pointer(a.t) \/ ~Arithmetic(n.t) THEN Nothing(n.m)
     ELSE Then(Join(a, n), t, at, Unordered(a, n) /\ Mapped(n.m, at, SizeOfType(t)))

\* Member n of the structure at place x.
MemberAt(x, n) ==
  LET e == Structs[x.t.a.tag].elem[n] IN
  IF x.t.dims # <<>> \/ ~IsStruct(x.t.a) THEN Nothing(x.m)
  ELSE Then(x, Type(e.attr, e.dims), x.v + e.value, Mapped(x.m, x.v + e.value, 1))

RECURSIVE Eval(_, _), PlaceOf(_, _), Arguments(_, _, _)
\* The place an expression names.
PlaceOf(x, m) ==
  LET sym == Symbols[x.sym] IN
  CASE x.op \in {"variable", "array", "string"} ->
         Result(Type(sym.attr, sym.dims), IF sym.global THEN sym.at ELSE FrameBase + sym.at, m,
                TRUE, FALSE, FALSE)
    [] x.op = "[]" -> LET a == Eval(x.kids[1], m) IN Indexed(a, Eval(x.kids[2], a.m))
    [] x.op = "*x" -> LET a == Eval(x.kids[1], m) IN Indexed(a, Result(IntType, 0, a.m, TRUE, FALSE, FALSE))
    [] x.op = "." -> MemberAt(PlaceOf(x.kids[1], m), x.sym)
    [] x.op = "->" ->
         LET a == Eval(x.kids[1], m) IN
         MemberAt(Indexed(a, Result(IntType, 0, a.m, TRUE, FALSE, FALSE)), x.sym)
    [] x.op = "member" -> PlaceOf(x.kids[1], m)
    [] OTHER -> Nothing(m)

\* What has an address.
Places == {"variable", "array", "string", "[]", "*x", ".", "->", "member"}

Arguments(kids, i, x) ==
  IF i > Len(kids) THEN x
  ELSE LET y == Eval(kids[i], x.m)
       IN Arguments(kids, i + 1,
                    Then(Join(x, y), IntType, CalleeStep(x.v, As(y.v, IntType)), Unordered(x, y)))

Assignment(op, l, r) ==
  LET old == Content(Then([l EXCEPT !.m = r.m], l.t, l.v, r.ok))
      new == CASE op = "=" -> r
               [] op # "=" /\ Arithmetic(l.t) -> Binary(BaseOp(op), [old EXCEPT !.rd = FALSE], r)
               [] OTHER -> Then(r, l.t, old.v + r.v * SizeOfType(Target(l.t)) * IF op = "+=" THEN 1 ELSE -1,
                                op \in {"+=", "-="} /\ Arithmetic(r.t))
      x == Join([l EXCEPT !.t = l.t], [r EXCEPT !.t = l.t])
  IN IF ~l.ok \/ ~r.ok THEN Nothing(r.m)
     ELSE Assigned(Then(x, l.t, l.v,
                        /\ new.ok /\ l.t.dims = <<>> /\ Unordered(l, r)
                        /\ op # "=" => Content(l).v = old.v
                        /\ IsAddress(l.t.a) = IsAddress(new.t.a)),
                   new.v)

Eval(x, m) ==
  LET kid(i) == Eval(x.kids[i], m) IN
  CASE x.op = "constant" -> Result(IntType, x.n, m, TRUE, FALSE, FALSE)
    [] x.op = "type" -> Result(UnsignedType, x.n, m, TRUE, FALSE, FALSE)
    [] x.op \in Places -> Content(PlaceOf(x, m))
    [] x.op = "call" ->
         LET y == Arguments(x.kids, 1, Result(IntType, 1, m, TRUE, FALSE, FALSE))
         IN Then(y, Type(Symbols[x.sym].attr, <<>>), y.v, TRUE)
    [] x.op = "&x" -> LET y == PlaceOf(x.kids[1], m)
                      IN Then(y, PointerTo(y.t), y.v, y.t.dims = <<>>)
    [] x.op \in {"++x", "--x", "x++", "x--"} ->
         LET y == PlaceOf(x.kids[1], m)
             old == Content(y)
             by == Stepped(x.op) * IF Pointer(y.t) THEN SizeOfType(Target(y.t)) ELSE 1
             new == Assigned([y EXCEPT !.rd = TRUE], old.v + by)
             fits == y.t.dims = <<>> /\ Fits(old.v + by, Promoted(y.t))
         IN IF ~y.ok THEN Nothing(m)
            ELSE IF x.op \in {"++x", "--x"} THEN Then(new, y.t, new.v, fits)
            ELSE Then(new, y.t, old.v, fits)
    [] x.op \in {"-x", "~x"} ->
         LET y == kid(1)
             t == Promoted(y.t)
             v == IF x.op = "-x" THEN -y.v ELSE -y.v - 1
         IN Then(y, t, As(v, t), Arithmetic(y.t) /\ Fits(v, t))
    [] x.op = "!x" -> Then(kid(1), IntType, TruthOf(kid(1).v = 0), TRUE)
    [] x.op = "cast" -> Then(kid(1), Type(x.p.attr, <<>>), As(kid(1).v, Type(x.p.attr, <<>>)),
                           ~IsStruct(x.p.attr))
    [] x.op = "sizeof" ->
         LET y == x.kids[1]
             z == IF y.op \in Places THEN PlaceOf(y, m) ELSE kid(1)
         IN Result(UnsignedType, SizeOfType(z.t), m, z.ok, FALSE, FALSE)
    [] x.op \in Product \cup Sum \cup Shift \cup BitOps ->
         LET l == kid(1) IN Binary(x.op, l, Eval(x.kids[2], l.m))
    [] x.op \in Order \cup Equality ->
         LET l == kid(1) IN Comparison(x.op, l, Eval(x.kids[2], l.m))
    [] x.op \in {"&&", "||"} ->
         LET l == kid(1)
             r == Eval(x.kids[2], l.m)
         IN IF (l.v # 0) = (x.op = "||") THEN Then(l, IntType, TruthOf(l.v # 0), r.ok)
            ELSE Then(Join(l, r), IntType, TruthOf(r.v # 0), TRUE)
    [] x.op = "?:" ->
         LET c == kid(1)
             l == Eval(x.kids[2], c.m)
             r == Eval(x.kids[3], c.m)
             both == Arithmetic(l.t) /\ Arithmetic(r.t)
             t == IF both THEN Common(l.t, r.t) ELSE l.t
             chosen == IF c.v # 0 THEN l ELSE r
         IN Then(Join(c, chosen), t, As(chosen.v, t), l.ok /\ r.ok /\ (both \/ l.t = r.t))
    [] x.op = "," -> LET l == kid(1) IN Join(l, Eval(x.kids[2], l.m))
    [] x.op \in Assign ->
         LET l == PlaceOf(x.kids[1], m) IN Assignment(x.op, l, Eval(x.kids[2], l.m))

------------------------------------------------------------------------------
\* Where the code is known not to follow C.  An operator applied to its operands
\* has such a fault of the following kinds (lines of expr.cpp where no file is named).
\*   ebx       a second operand in ebx is overwritten when a first one, unsigned and
\*             narrow, is loaded through ebx (1174, 1269, 1647; 1995)
\*   rollback  a constant behind & ^ | : the load of an element is taken back with
\*             the push, and its address is used instead (1608)
\*   address   & raises the pointer by two, so *&x is not x (779, 619)
\*   division  a negative number is divided without its sign in edx (1142), or with
\*             that of ax only (expr_eq.cpp:191)
\*   not       ! of an address, or of a char in eax, compares what is not there (924)
\*   postfix   x++ of a char reads an int (1027)
\*   sizeof    the type of a result is not C's: sizeof((c+d)) is 1 (971)
\*   logic     && and || have the value of an operand, not 0 or 1 (1906, 1959)
\*   mixed     < and / look at the unsigned flag of the first operand, or of a char,
\*             where C compares or divides int (1417, 1143)
\*   count     the count of a shift, in eax already, is taken with a char's width
\*             (1354; expr_eq.cpp:29)
\*   compound  += *= &= ... of a char, or of an element, use the wrong width or
\*             overwrite the element's address (expr_eq.cpp:189, 275, 380)
\*   string    an element of a string is its address (212, 433)
\*   member    a structure is right only as the global variable in front of a chain of
\*             . and later ->: a pointer to a structure stands for its own address,
\*             also in front of -> (246), a local structure for no operand at all (253),
\*             any other structure for its first word (546); the last member is loaded
\*             even if it is an array, or to be written to or pointed at (579)

RECURSIVE IsAmp(_)
IsAmp(x) ==
  \/ x.op = "&x"
  \/ x.op = "?:" /\ (IsAmp(x.kids[2]) \/ IsAmp(x.kids[3]))
  \/ x.op = "," /\ IsAmp(x.kids[2])

Boolean(x) == x.op \in Order \cup Equality \cup {"!x"} \/ (x.op = "constant" /\ x.n \in {0, 1})
Narrow(p) == Width(p.attr) < 4
IsByte(p) == p.com = 22 /\ p.attr.uns /\ Narrow(p)
\* Whether the code of a comparison or a division is that for unsigned operands,
\* and the type C compares or divides in.
Unsigned(x) ==
  LET l == x.kids[1].p.attr IN
  IF x.op \in Order THEN l.uns \/ IsAddress(l) ELSE l.uns \/ x.kids[2].p.attr.uns
MeantType(x) == CommonOf([i \in {1, 2} |-> Eval(x.kids[i], CHOOSE m \in profile.stores : TRUE).t])
\* A structure taken for something else, or a member not taken for its value.
StructFault(x) ==
  CASE x.op = "variable" -> x.p.attr.base = "struct" /\ (x.p.attr.ptr > 0 \/ ~Symbols[x.sym].global)
    [] x.op = "." -> x.kids[1].op \notin {"variable", ".", "->"}
    [] x.op = "member" -> x.p.attr.arr > 0
    [] x.op \in Assign \cup {"&x"} -> x.kids[1].op = "member"
    [] OTHER -> FALSE
HasFault(k, x) ==
  LET l == x.kids[1].p
      used == x.kids[1].used
      r == x.kids[Len(x.kids)].p
  IN
  CASE k = "ebx" -> x.op \in Product \cup Sum \cup BitOps /\ ~used /\ l.com = 22 /\ l.attr.uns
                      /\ Narrow(l)
    [] k = "rollback" -> x.op \in BitOps /\ used /\ IsNumber(r) /\ l.opnd # Eax
    [] k = "address" -> x.op \in {"*x", "[]"} /\ IsAmp(x.kids[1])
    [] k = "division" ->
         \/ x.op \in {"/", "%"} /\ ~Unsigned(x) /\ ~(IsNumber(l) /\ l.opnd.n >= 0)
         \/ x.op \in {"/=", "%="} /\ ~l.attr.uns
    [] k = "not" -> x.op = "!x" /\ l.com = 20 /\ ~l.numb /\ (Narrow(l) \/ l.opnd # Eax)
    [] k = "postfix" -> x.op \in {"x++", "x--"} /\ Narrow(l)
    [] k = "sizeof" -> x.op = "sizeof" /\ (x.kids[1].op \notin Places \ {"string"})
    [] k = "logic" -> x.op \in {"&&", "||"} /\ (~Boolean(x.kids[2]) \/ (x.op = "||" /\ ~Boolean(x.kids[1])))
    [] k = "mixed" -> x.op \in Order \cup {"/", "%"} /\ Unsigned(x) # IsUnsigned(MeantType(x))
                        /\ ~(IsByte(l) /\ IsByte(r))
    [] k = "count" -> x.op \in Shift \cup {"<<=", ">>="} /\ r.opnd = Eax /\ Narrow(r)
    [] k = "string" -> x.op = "[]" /\ l.attr.arr > 0 /\ l.dims = <<>>
    [] k = "member" -> StructFault(x)
    [] k = "compound" ->
         \/ x.op \in {"+=", "-="} /\ Narrow(l)
         \/ x.op \in {"&=", "^=", "|="} /\ used /\ Width(l.attr) # Width(r.attr)
         \/ x.op \in {"*=", "/=", "%="} /\ (used \/ Narrow(l))
AllFaults == {"ebx", "rollback", "address", "division", "not", "postfix", "sizeof", "logic",
              "mixed", "count", "compound", "string", "member"}
Faults(x) ==
  IF x.kids = <<>> THEN {k \in {"member"} : StructFault(x)} ELSE {k \in AllFaults : HasFault(k, x)}
RECURSIVE FaultsIn(_)
FaultsIn(x) ==
  Faults(x) \cup UNION {FaultsIn(x.kids[i]) : i \in DOMAIN x.kids}

AllButRollback == AllFaults \ {"rollback"}

\* The state s the code leaves is what C makes of the expression.
Agrees(s, c) == c.ok => s.ok /\ s.k = <<>> /\ s.m = c.m /\ s.r.eax = Word(c.v)

\* A complete expression computes what C says it does: for all contents of memory
\* for which C gives it a meaning, the generated code runs to its end, leaves the
\* stack as it was, memory as C does, and the value in eax.
MeansSame ==
  Final /\ FaultsIn(cur) \cap Excluded = {} =>
    \A m \in profile.stores : Agrees(Run(code \o Load(cur.p), m), Eval(cur, m))
===============================================================================
