------------------------------ MODULE Expressions ------------------------------
(***************************************************************************)
(* The expression parser of banana-c32 and the code it generates: factor   *)
(* to c32_expr and the assignments of expr_eq.cpp, in a pass that prints.  *)
(*                                                                         *)
(* The parser is recursive: frames holds the operators whose last operand  *)
(* is still to come, cur the struct expr_param of the operand just parsed. *)
(* The expression is not fixed beforehand: the next operand or operator is *)
(* chosen when the parser looks for it, in any nesting parentheses can     *)
(* write.  A prefix operator generates nothing before its operand is       *)
(* complete, so it is one step.  Each operand keeps, as history, the       *)
(* operator it is the result of and the operands that one was given.       *)
(***************************************************************************)
EXTENDS Integers, Sequences, SequencesExt

CONSTANTS
  ByteBits,   \* bits of a byte; an int has four bytes
  Symbols,    \* the symbol table, a function of names
  Structs,    \* c32_st_root: size and members of each structure, by its tag
  Profiles    \* what one expression may be made of

VARIABLES
  profile,        \* the operators, symbols, constants and size of this expression
  frames,         \* operators with an operand to come, innermost last
  cur,            \* the operand parsed last, or NoOperand
  code,           \* the generated code
  label_counter,  \* c32_label_counter
  built,          \* operators parsed so far
  err             \* the code c32_error_message stopped with

vars == <<profile, frames, cur, code, label_counter, built, err>>

------------------------------------------------------------------------------
\* Types (attr_s) and words

Attr(base, uns, ptr, arr) ==
  [base |-> base, uns |-> uns, ptr |-> ptr, arr |-> arr, arrp |-> FALSE, func |-> FALSE,
   tag |-> ""]
IntAttr == Attr("int", FALSE, 0, 0)
NoAttr == Attr("none", FALSE, 0, 0)     \* what memset leaves
MaxPointer == 3    \* ATTR_POINTER is two bits wide
MaxArray == 7      \* ATTR_ARRAY is three bits wide

IsStruct(a) == a.base = "struct" /\ a.ptr = 0
\* c32_attr_to_byte; 0 stands for its E_INTERNAL_ERROR.
Width(a) ==
  CASE a.base = "int" \/ a.ptr > 0 -> 4
    [] a.base = "char" /\ a.ptr = 0 -> 1
    [] a.base = "short" /\ a.ptr = 0 -> 2
    [] IsStruct(a) -> Structs[a.tag].size
    [] a.base = "none" /\ a.ptr = 0 -> 0

\* c32_attr_to_shift_bit: by what a pointer's or an array's element is scaled.
ShiftBit(a) ==
  CASE a.base = "int" \/ (a.arr > 0 /\ a.ptr > 0) \/ a.ptr > 1 -> 2
    [] a.base = "short" -> 1
    [] OTHER -> 0

IsAddress(a) == a.ptr > 0 \/ a.arr > 0
NotScalar(a) == a.arr > 0 \/ a.func \/ a.base = "struct"
NotArithmetic(a) == a.ptr > 0 \/ NotScalar(a)
Points(a, n) == [a EXCEPT !.ptr = a.ptr + n]

\* factor5_sub
Wider(a, b) ==
  [base |-> CASE "int" \in {a.base, b.base} -> "int"
              [] "int" \notin {a.base, b.base} /\ "short" \in {a.base, b.base} -> "short"
              [] {a.base, b.base} = {"none"} -> "none"
              [] OTHER -> "char",
   uns |-> a.uns \/ b.uns, ptr |-> 0, arr |-> 0, arrp |-> a.arrp \/ b.arrp,
   func |-> FALSE, tag |-> ""]

WordBits == 4 * ByteBits
Bit(n, i) == (n \div 2^i) % 2
Word(n) == n % 2^WordBits
Signed(n) == IF Bit(n, WordBits - 1) = 1 THEN Word(n) - 2^WordBits ELSE Word(n)

BitwiseOf(op, x, y) ==
  FoldLeft(LAMBDA r, i :
             LET b == Bit(x, i) + Bit(y, i)
             IN r + (CASE op = "&" -> b \div 2 [] op = "|" -> (b + 1) \div 2
                       [] OTHER -> b % 2) * 2^i,
           0, [i \in 1..WordBits |-> i - 1])

Abs(n) == IF n < 0 THEN -n ELSE n
Quotient(x, y) == IF (x < 0) = (y < 0) THEN Abs(x) \div Abs(y) ELSE -(Abs(x) \div Abs(y))

\* What the compiler itself computes for two constants (y # 0 for / and %).
Fold(op, x, y) ==
  Signed(CASE op = "*" -> x * y
           [] op = "/" -> Quotient(x, y)
           [] op = "%" -> x - y * Quotient(x, y)
           [] op = "+" -> x + y
           [] op = "-" -> x - y
           [] op = "<<" -> x * 2^(y % WordBits)
           [] op = ">>" -> x \div 2^(y % WordBits)
           [] OTHER -> BitwiseOf(op, x, y))

\* What the declarations leave: types as attr_s holds them, a structure's with the
\* structure it points to.
Types ==
  {a \in [base : {"int", "short", "char", "none", "struct"}, uns : BOOLEAN, ptr : 0..MaxPointer,
          arr : 0..MaxArray, arrp : BOOLEAN, func : BOOLEAN,
          tag : DOMAIN Structs \cup {""}] :
     a.base = "struct" => a.tag \in DOMAIN Structs}
ASSUME TablesAssumption ==
  /\ \A s \in DOMAIN Symbols : Symbols[s].attr \in Types /\ Symbols[s].params \in Nat
  /\ \A t \in DOMAIN Structs : \A n \in DOMAIN Structs[t].elem : Structs[t].elem[n].attr \in Types
  /\ \A p \in Profiles :
       /\ p.symbols \subseteq DOMAIN Symbols /\ p.casts \subseteq Types
       /\ \A chain \in p.chains : chain \in Seq([op : {".", "->"}, name : STRING])

------------------------------------------------------------------------------
\* Instructions

Reg(r, w) == [mem |-> FALSE, base |-> r, n |-> 0, w |-> w]
Num(n) == [mem |-> FALSE, base |-> "none", n |-> n, w |-> 0]
At(base, n) == [mem |-> TRUE, base |-> base, n |-> n, w |-> 0]   \* "[...]"
EbpPlus(n) == [mem |-> FALSE, base |-> "ebp+", n |-> n, w |-> 0]
Brackets(o) == At(o.base, o.n)
Eax == Reg("eax", 4)
Ebx == Reg("ebx", 4)
Ecx == Reg("ecx", 4)
Edx == Reg("edx", 4)
Cl == Reg("ecx", 1)

\* "op size dst, src", with a size only where the code prints one.
Sized(op, size, dst, src) == <<[op |-> op, size |-> size, dst |-> dst, src |-> src]>>
Ins(op, dst, src) == Sized(op, 0, dst, src)
One(op, dst) == Ins(op, dst, Num(0))
Jump(op, l) == One(op, Num(l))
Label(l) == One("label", Num(l))

\* A jump to the end of the next instruction: eax is 1 if it is taken, else 0.
Truth(jcc, l) ==
  Ins("mov", Eax, Num(1)) \o Jump(jcc, l) \o One("dec", Eax) \o Label(l)

------------------------------------------------------------------------------
\* struct expr_param

Param(com, opnd, numb, attr, dims) ==
  [com |-> com, opnd |-> opnd, numb |-> numb, attr |-> attr, dims |-> dims]
InEax(attr, dims) == Param(20, Eax, FALSE, attr, dims)
IsNumber(p) == p.com = 20 /\ p.numb
SetNumber(p, n) == [p EXCEPT !.opnd = Num(n)]

SignExtend(w) ==
  CASE w = 1 -> One("cbw", Eax) \o One("cwde", Eax) [] w = 2 -> One("cwde", Eax)
    [] OTHER -> <<>>

\* convert_com20: the code it generates, and the operand it leaves.
Load(p) ==
  LET w == Width(p.attr) IN
  CASE p.com # 22 /\ p.opnd = Eax -> <<>>
    [] p.com # 22 /\ p.opnd # Eax -> Ins("mov", Eax, p.opnd)
    [] p.com = 22 /\ p.attr.uns /\ w # 4 ->
         Ins("sub", Ebx, Ebx) \o Ins("mov", Reg("ebx", w), p.opnd) \o Ins("mov", Eax, Ebx)
    [] OTHER ->
         Ins("mov", Reg("eax", w), p.opnd) \o IF p.attr.uns THEN <<>> ELSE SignExtend(w)
Loaded(p) ==
  [p EXCEPT !.com = 20, !.opnd = Eax, !.numb = FALSE,
            !.attr.arrp = p.attr.arrp \/ (p.com = 21 /\ p.opnd # Eax)]
Push(p) == Load(p) \o One("push", Eax)

\* convert_com22: the operand it leaves, where it accepts one.
IsPlace(p) ==
  \/ p.com = 22
  \/ p.com = 20 /\ p.attr.ptr > 0
  \/ p.com = 21 /\ p.attr.arrp
Place(p) ==
  CASE p.com = 20 -> [p EXCEPT !.com = 22, !.opnd = Brackets(p.opnd), !.numb = FALSE,
                               !.attr.ptr = p.attr.ptr - 1]
    [] p.com = 21 -> [p EXCEPT !.com = 22, !.opnd = Brackets(p.opnd), !.numb = FALSE,
                               !.attr.arrp = FALSE]
    [] OTHER -> p

\* The place whose address is in eax.
AtEax(p) == [p EXCEPT !.com = 22, !.opnd = At("eax", 0)]

\* An operand with what it was made from: op applied to kids, or a symbol sym,
\* or a constant n.
Operand(p, used, op, kids, sym, n) ==
  [p |-> p, used |-> used, op |-> op, kids |-> kids, sym |-> sym, n |-> n]
NoOperand == Operand(InEax(NoAttr, <<>>), FALSE, "none", <<>>, "", 0)
\* The next operand is read into an expr_p1 with something in it.  factor clears it
\* (145); only sizeof of a type leaves it as it is.
Leftover == [NoOperand EXCEPT !.p = Loaded(cur.p)]
\* An array without a dimension, of which an index has taken one: xyz_dim is 65535 (431),
\* and what uses it goes on far behind xyz_size.
Astray(p) == p.dims = <<>> /\ p.attr.arr \in 1..MaxArray-1

------------------------------------------------------------------------------
\* The parser

Product == {"*", "/", "%"}
Sum == {"+", "-"}
Shift == {"<<", ">>"}
Order == {"<", "<=", ">", ">="}
Equality == {"==", "!="}
BitOps == {"&", "^", "|"}
Assign == {"=", "+=", "-=", "*=", "/=", "%=", "&=", "^=", "|=", "<<=", ">>="}

Top == frames[Len(frames)]

\* An operand is looked for.
Expected == err = "none" /\ cur.op = "none"
\* An operator follows the operand parsed last.
Follows(op) ==
  err = "none" /\ built < profile.size /\ cur.op # "none" /\ op \in profile.ops
\* The last operand of operator op, innermost of those open, is complete.
Completes(ops) ==
  err = "none" /\ frames # <<>> /\ cur.op # "none" /\ Top.op \in ops

Refuse(e) ==
  err' = e /\ UNCHANGED <<profile, frames, cur, code, label_counter, built>>

\* A symbol or a constant is parsed.
Primary(p, used, op, sym, n, items) ==
  /\ cur' = Operand(p, used, op, <<>>, sym, n)
  /\ code' = code \o items
  /\ UNCHANGED <<profile, frames, label_counter, built, err>>

\* A prefix or postfix operator with labels of its own is applied.
ApplyLabelled(op, p, used, items, labels) ==
  /\ cur' = Operand(p, used, op, <<cur>>, "", 0)
  /\ code' = code \o items
  /\ label_counter' = label_counter + labels
  /\ built' = built + 1
  /\ UNCHANGED <<profile, frames, err>>
Apply(op, p, used, items) == ApplyLabelled(op, p, used, items, 0)

\* An operator that has another operand to come.  p: expr_p1 as it is kept;
\* pushed: words of the stack held until the operator is complete.
OpenFrame(op, kids, sym, p, items, pushed, labels) ==
  /\ frames' = Append(frames,
       [op |-> op, kids |-> kids, sym |-> sym, p |-> p, used |-> cur.used,
        pushed |-> pushed, label |-> label_counter, save |-> Len(code),
        start |-> Len(code) + Len(items), labels |-> label_counter + labels])
  /\ code' = code \o items
  /\ label_counter' = label_counter + labels
  /\ cur' = IF op = "?:" THEN Leftover ELSE NoOperand
  /\ built' = built + 1
  /\ UNCHANGED <<profile, err>>
Open(op, p, items, pushed, labels) ==
  OpenFrame(op, <<cur>>, "", p, items, pushed, labels)

\* Mutant: expr_p1 stays in eax.
OpenUsedUnpushed(op) == Open(op, cur.p, <<>>, 0, 0)
\* expr_p1 is pushed if it is in eax.
OpenUsed(op) ==
  IF cur.used THEN Open(op, Loaded(cur.p), Push(cur.p), 1, 0)
  ELSE Open(op, cur.p, <<>>, 0, 0)

Complete(p, used, items) ==
  /\ cur' = Operand(p, used, Top.op, Append(Top.kids, cur), Top.sym, 0)
  /\ code' = code \o items
  /\ frames' = Front(frames)
  /\ UNCHANGED <<profile, label_counter, built, err>>

BothNumbers == IsNumber(Top.p) /\ IsNumber(cur.p)
Folded == Complete(SetNumber(Top.p, Fold(Top.op, Top.p.opnd.n, cur.p.opnd.n)), FALSE, <<>>)

------------------------------------------------------------------------------
\* Operands: factor

\* ( of a nested expression, which begins with a cleared expr_p1.
Parenthesis ==
  /\ Expected /\ cur # NoOperand
  /\ cur' = NoOperand
  /\ UNCHANGED <<profile, frames, code, label_counter, built, err>>

Constant == \E n \in profile.values :
  /\ Expected
  /\ Primary(Param(20, Num(n), TRUE, IntAttr, <<>>), FALSE, "constant", "", n, <<>>)

\* sizeof of a type leaves expr_p1 the type and the dimensions it had.
TypeSize == \E a \in profile.casts :
  /\ Expected /\ "sizeof" \in profile.ops
  /\ Primary(Param(20, Num(Width(a)), TRUE, cur.p.attr, cur.p.dims), FALSE, "type", "", Width(a), <<>>)

Variable == \E s \in profile.symbols :
  LET sym == Symbols[s] IN
  /\ Expected /\ ~sym.attr.func /\ sym.attr.base # "struct" /\ sym.attr.arr = 0
  /\ Primary(Param(22, At(IF sym.global THEN "none" ELSE "ebp", sym.at), FALSE, sym.attr, sym.dims),
             FALSE, "variable", s, 0, <<>>)

Array == \E s \in profile.symbols :
  LET sym == Symbols[s] IN
  /\ Expected /\ ~sym.attr.func /\ sym.attr.base # "struct" /\ sym.attr.arr > 0
  /\ ~sym.literal
  /\ IF sym.global
     THEN Primary(Param(21, Num(sym.at), FALSE, sym.attr, sym.dims), FALSE, "array", s, 0, <<>>)
     ELSE Primary(Param(21, Eax, FALSE, sym.attr, sym.dims), TRUE, "array", s, 0,
                  Ins("mov", Eax, Reg("ebp", 4)) \o Ins("add", Eax, Num(sym.at)))

\* A structure, a pointer to one, or an array: its address ("mov eax, ebp+n" of a local
\* one is no instruction).
Structure == \E s \in profile.symbols :
  LET sym == Symbols[s] IN
  /\ Expected /\ ~sym.attr.func /\ sym.attr.base = "struct"
  /\ Primary(InEax(sym.attr, sym.dims), TRUE, "variable", s, 0,
             Ins("mov", Eax, IF sym.global THEN Num(sym.at) ELSE EbpPlus(sym.at)))

\* A string of a statement is printed where it stands, with a jump around it.  Its type
\* has every bit of ATTR_ARRAY set (206), and no dimension.
StringAttr == Attr("char", FALSE, 0, MaxArray)
String == \E s \in profile.symbols :
  LET sym == Symbols[s] IN
  /\ Expected /\ sym.literal
  /\ cur' = Operand(Param(21, Num(sym.at), TRUE, StringAttr, <<>>), FALSE, "string", <<>>, s, 0)
  /\ code' = code \o Jump("jmp", label_counter + 1) \o Label(label_counter)
                  \o Label(label_counter + 1)
  /\ label_counter' = label_counter + 2
  /\ UNCHANGED <<profile, frames, built, err>>

\* expr_function_call.  The arguments are stored below the words pushed so far.
Esp == Reg("esp", 4)
OpenCall == \E s \in profile.symbols :
  LET sym == Symbols[s] IN
  /\ Expected /\ sym.attr.func /\ "call" \in profile.ops /\ built < profile.size
  /\ IF sym.params > 0
     THEN OpenFrame("call", <<>>, s, InEax(sym.attr, <<>>),
                    Ins("sub", Esp, Num(4 * sym.params)), sym.params, 0)
     ELSE /\ cur' = Operand(InEax(sym.attr, <<>>), TRUE, "call", <<>>, s, 0)
          /\ code' = code \o One("call", Num(sym.at))
          /\ built' = built + 1
          /\ UNCHANGED <<profile, frames, label_counter, err>>

StoreArgument == Load(cur.p) \o Ins("mov", At("esp", 4 * Len(Top.kids)), Eax)
NextArgument ==
  /\ Completes({"call"})
  /\ IF Len(Top.kids) + 1 < Symbols[Top.sym].params
     THEN /\ frames' = [frames EXCEPT ![Len(frames)].kids = Append(Top.kids, cur),
                          ![Len(frames)].start = Len(code) + Len(StoreArgument)]
          /\ code' = code \o StoreArgument
          /\ cur' = NoOperand
          /\ UNCHANGED <<profile, label_counter, built, err>>
     ELSE Refuse("E_PARAM_NUMBER_ERROR")
CloseCall ==
  /\ Completes({"call"})
  /\ LET sym == Symbols[Top.sym] IN
     IF Len(Top.kids) + 1 = sym.params
     THEN Complete([Loaded(cur.p) EXCEPT !.attr = sym.attr], TRUE,
                   StoreArgument \o One("call", Num(sym.at))
                     \o Ins("add", Esp, Num(4 * sym.params)))
     ELSE Refuse("E_PARAM_NUMBER_ERROR")

------------------------------------------------------------------------------
\* Indices: factor15

ProductOf(s) == FoldLeft(LAMBDA a, b : a * b, 1, s)

OpenIndex ==
  /\ Follows("[]")
  /\ CASE cur.p.attr.arr > 0 -> OpenUsed("[]")
       [] cur.p.attr.arr = 0 /\ cur.p.attr.ptr > 0 ->
            Open("[]", [Loaded(cur.p) EXCEPT !.attr.ptr = cur.p.attr.ptr - 1], Push(cur.p), 1, 0)
       [] OTHER -> Refuse("E_SYNTAX_ERROR")

\* Mutant: what was pushed stays there when the index is a constant.
ElementNotPopped(size) ==
  IF IsNumber(cur.p) THEN Ins("add", Eax, Num(size * cur.p.opnd.n))
  ELSE Load(cur.p) \o Ins("mov", Ebx, Num(size)) \o One("mul", Ebx)
         \o IF Top.pushed = 1 THEN One("pop", Ebx) \o Ins("add", Eax, Ebx)
            ELSE Ins("add", Eax, Top.p.opnd)
\* eax: the address of an element of the given size.
Element(size) ==
  IF IsNumber(cur.p)
  THEN (CASE Top.pushed = 1 -> One("pop", Eax)
          [] Top.pushed = 0 /\ Top.p.opnd # Eax -> Ins("mov", Eax, Top.p.opnd)
          [] OTHER -> <<>>)
         \o Ins("add", Eax, Num(size * cur.p.opnd.n))
  ELSE Load(cur.p) \o Ins("mov", Ebx, Num(size)) \o One("mul", Ebx)
         \o IF Top.pushed = 1 THEN One("pop", Ebx) \o Ins("add", Eax, Ebx)
            ELSE Ins("add", Eax, Top.p.opnd)
CloseIndex ==
  /\ Completes({"[]"})
  /\ LET a == Top.p.attr IN
     CASE a.arr = 0 ->
            Complete(Param(22, At("eax", 0), FALSE, a, Top.p.dims), TRUE, Element(Width(a)))
       [] Astray(Top.p) -> Refuse("undefined")
       [] OTHER ->
          LET last == Len(Top.p.dims) = 1
              dims == IF Top.p.dims = <<>> THEN <<>> ELSE Tail(Top.p.dims)
          IN Complete(Param(IF last THEN 22 ELSE 21, IF last THEN At("eax", 0) ELSE Eax,
                            FALSE, [a EXCEPT !.arr = a.arr - 1], dims),
                      TRUE, Element(Width(a) * ProductOf(dims)))

------------------------------------------------------------------------------
\* Members: factor14

\* The operand is the address of a structure (at its first -> too), and the member's
\* offset is added.  A later -> first loads the pointer there.
NotStructure(op, a) ==
  \/ a.base # "struct" \/ a.arr > 0
  \/ a.ptr # IF op = "." THEN 0 ELSE 1
Link(z, l) ==
  LET e == Structs[z.p.attr.tag].elem[l.name]
      p == InEax(e.attr, e.dims)
      from == IF l.op = "->" /\ ~z.first THEN AtEax(z.p) ELSE z.p
  IN CASE z.err # "none" -> z
       [] z.err = "none" /\ NotStructure(l.op, z.p.attr) -> [z EXCEPT !.err = "E_NOT_STRUCTURE"]
       [] z.err = "none" /\ ~NotStructure(l.op, z.p.attr)
            /\ l.name \notin DOMAIN Structs[z.p.attr.tag].elem ->
            [z EXCEPT !.err = "E_UNDEFINED_SYMBOL"]
       [] OTHER ->
            [p |-> p, first |-> FALSE, err |-> "none",
             x |-> Operand(p, TRUE, l.op, <<z.x>>, l.name, 0),
             items |-> z.items \o Push(from) \o Ins("mov", Eax, Num(e.value))
                         \o One("pop", Ebx) \o Ins("add", Eax, Ebx)]

Unlinked == [p |-> cur.p, first |-> TRUE, err |-> "none", x |-> cur, items |-> <<>>]
Links(chain) ==
  LET z[k \in 0..Len(chain)] == IF k = 0 THEN Unlinked ELSE Link(z[k - 1], chain[k]) IN z

\* A chain of . and ->, whose last member is loaded, whatever it is.
Members == \E chain \in profile.chains :
  /\ Follows(".")
  /\ LET z == Links(chain)[Len(chain)]
         p == AtEax(z.p)
     IN IF z.err # "none" THEN Refuse(z.err)
        ELSE /\ cur' = Operand(Loaded(p), TRUE, "member", <<z.x>>, "", 0)
             /\ code' = code \o z.items \o Load(p)
             /\ built' = built + 1
             /\ UNCHANGED <<profile, frames, label_counter, err>>

\* An index behind a member is looked for among the members, like the member itself.
MemberIndex ==
  /\ Follows("[]") /\ cur.op = "member"
  /\ Refuse(IF IsAddress(cur.p.attr) THEN "E_UNDEFINED_SYMBOL" ELSE "E_SYNTAX_ERROR")

------------------------------------------------------------------------------
\* Prefix and postfix operators: factor13

Cast == \E a \in profile.casts :
  LET w == Width(a) IN
  /\ Follows("cast")
  /\ Apply("cast", [Loaded(cur.p) EXCEPT !.attr = a], TRUE,
       Load(cur.p) \o
       IF a.uns
       THEN Ins("mov", Ebx, Eax) \o Ins("xor", Eax, Eax) \o Ins("mov", Reg("eax", w), Reg("ebx", w))
       ELSE SignExtend(w))

Deref ==
  LET p == cur.p IN
  /\ Follows("*x")
  /\ CASE p.attr.arr > 0 /\ p.dims = <<>> ->
            Refuse(IF Astray(p) THEN "undefined" ELSE "E_INTERNAL_ERROR")
       [] p.attr.arr > 0 /\ p.dims # <<>> ->
            LET q == [p EXCEPT !.attr.arr = p.attr.arr - 1, !.dims = Append(Tail(p.dims), 0)]
            IN Apply("*x", IF q.attr.arr = 0 THEN [q EXCEPT !.com = 22, !.opnd = Brackets(p.opnd)]
                           ELSE q, cur.used, <<>>)
       [] p.attr.arr = 0 /\ p.attr.ptr > 0 /\ p.com = 20 -> Apply("*x", Place(p), TRUE, <<>>)
       [] p.attr.arr = 0 /\ p.attr.ptr > 0 /\ p.com = 22 ->
            Apply("*x", Place(Loaded(p)), TRUE, Load(p))
       [] OTHER -> Refuse("E_SYNTAX_ERROR")

\* c32_strip, for the address of the place p (a place named by a number, as of
\* *sizeof(p), stays a number in the code).
Strip(p) ==
  LET a == Points(p.attr, 2) IN
  CASE p.opnd.base = "eax" -> Apply("&x", InEax(a, p.dims), TRUE, <<>>)
    [] p.opnd.base = "none" -> Apply("&x", Param(20, Num(p.opnd.n), FALSE, a, p.dims), FALSE, <<>>)
    [] p.opnd.base = "ebp" ->
         Apply("&x", InEax(a, p.dims), TRUE,
               Ins("mov", Eax, Reg("ebp", 4)) \o Ins("add", Eax, Num(p.opnd.n)))
\* Mutant: ATTR_POINTER overflows.
AddressOfUnchecked ==
  /\ Follows("&x")
  /\ IF cur.p.attr.arr > 0 \/ ~IsPlace(cur.p) THEN Refuse("E_SYNTAX_ERROR")
     ELSE Strip(Place(cur.p))
AddressOf ==
  /\ Follows("&x")
  /\ CASE cur.p.attr.arr > 0 \/ ~IsPlace(cur.p) -> Refuse("E_SYNTAX_ERROR")
       [] cur.p.attr.arr = 0 /\ IsPlace(cur.p) /\ Place(cur.p).attr.ptr + 2 > MaxPointer ->
            Refuse("E_TABLE_OVERFLOW")
       [] OTHER -> Strip(Place(cur.p))

StepOf(a) == IF a.ptr > 0 THEN Width(Points(a, -1)) ELSE 1
StepBy(ins, p) == Sized(ins, Width(p.attr), p.opnd, Num(StepOf(p.attr)))
Steps == {<<"++x", "add">>, <<"--x", "sub">>}
PostSteps == {<<"x++", "add">>, <<"x--", "sub">>}
Increment == \E s \in Steps :
  /\ Follows(s[1])
  /\ IF cur.p.attr.arr > 0 \/ IsStruct(cur.p.attr) \/ cur.p.com # 22 THEN Refuse("E_SYNTAX_ERROR")
     ELSE Apply(s[1], cur.p, cur.used, StepBy(s[2], cur.p))
PostIncrement == \E s \in PostSteps :
  /\ Follows(s[1])
  /\ IF cur.p.attr.arr > 0 \/ IsStruct(cur.p.attr) \/ cur.p.com # 22 THEN Refuse("E_SYNTAX_ERROR")
     ELSE Apply(s[1], InEax(cur.p.attr, cur.p.dims), TRUE,
                Ins("mov", Ebx, cur.p.opnd) \o StepBy(s[2], cur.p) \o Ins("mov", Eax, Ebx))

Negated(op, n) == Signed(IF op = "-x" THEN -n ELSE -n - 1)
Negate == \E op \in {"-x", "~x"} :
  /\ Follows(op)
  /\ CASE NotArithmetic(cur.p.attr) -> Refuse("E_SYNTAX_ERROR")
       [] ~NotArithmetic(cur.p.attr) /\ IsNumber(cur.p) ->
            Apply(op, SetNumber(cur.p, Negated(op, cur.p.opnd.n)), FALSE, <<>>)
       [] OTHER ->
            Apply(op, Loaded(cur.p), TRUE,
                  Load(cur.p) \o One(IF op = "-x" THEN "neg" ELSE "not", Eax))

Not ==
  LET p == cur.p IN
  /\ Follows("!x")
  /\ CASE p.attr.arr > 0 -> Refuse("E_SYNTAX_ERROR")
       [] p.attr.arr = 0 /\ IsStruct(p.attr) -> Refuse("E_SYNTAX_ERROR")
       [] p.attr.arr = 0 /\ IsNumber(p) ->
            Apply("!x", SetNumber(p, IF p.opnd.n = 0 THEN 1 ELSE 0), FALSE, <<>>)
       [] p.attr.arr = 0 /\ ~IsNumber(p) /\ Width(p.attr) = 0 -> Refuse("E_INTERNAL_ERROR")
       [] OTHER ->
            ApplyLabelled("!x", InEax(p.attr, p.dims), TRUE,
              Sized("sub", Width(p.attr), p.opnd, Num(0)) \o Ins("mov", Eax, Num(1))
                \o Jump("jz", label_counter) \o Ins("xor", Eax, Eax) \o Label(label_counter), 1)

\* More than a name needs parentheses of its own: sizeof((c+d)).
SizeOf ==
  /\ Follows("sizeof")
  /\ CASE Width(cur.p.attr) = 0 -> Refuse("E_INTERNAL_ERROR")
       [] Width(cur.p.attr) # 0 /\ Astray(cur.p) -> Refuse("undefined")
       [] OTHER -> Apply("sizeof",
            Param(20, Num(Width(cur.p.attr) * IF cur.p.attr.arr > 0 THEN ProductOf(cur.p.dims) ELSE 1),
                  TRUE, cur.p.attr, cur.p.dims), FALSE, <<>>)

------------------------------------------------------------------------------
\* * / % + -: factor12 and factor11

OpenArithmetic == \E op \in Product \cup Sum :
  /\ Follows(op)
  /\ CASE NotScalar(cur.p.attr) -> Refuse("E_SYNTAX_ERROR")
       [] ~NotScalar(cur.p.attr) /\ cur.p.attr.ptr > 0 -> Refuse("E_TO_BE_DEFINE")
       [] OTHER -> OpenUsed(op)

\* ebx = p2, eax = p1
Multiply ==
  LET uns == Top.p.attr.uns \/ cur.p.attr.uns IN
  IF Top.op = "*" THEN One(IF uns THEN "mul" ELSE "imul", Ebx)
  ELSE Ins("xor", Edx, Edx) \o One(IF uns THEN "div" ELSE "idiv", Ebx)
         \o IF Top.op = "%" THEN Ins("mov", Eax, Edx) ELSE <<>>

CloseProduct ==
  /\ Completes(Product)
  /\ CASE NotArithmetic(cur.p.attr) -> Refuse("E_SYNTAX_ERROR")
       [] ~NotArithmetic(cur.p.attr) /\ BothNumbers ->
            IF Top.op # "*" /\ cur.p.opnd.n = 0 THEN Refuse("divide") ELSE Folded
       [] OTHER ->
            Complete(Loaded(Top.p), TRUE,
              Load(cur.p) \o Ins("mov", Ebx, Eax)
                \o (IF Top.used THEN One("pop", Eax) ELSE Load(Top.p)) \o Multiply)

\* Mutant: p1 is subtracted from p2 if it was pushed.
AddSwapped ==
  LET ins == IF Top.op = "+" THEN "add" ELSE "sub" IN
  IF Top.used THEN Load(cur.p) \o One("pop", Ebx) \o Ins(ins, Eax, Ebx)
  ELSE Load(cur.p) \o Ins("mov", Ebx, Eax) \o Load(Top.p) \o Ins(ins, Eax, Ebx)
\* p1 was pushed: ebx = p1, eax = p2.  It was not: ebx = p2, eax = p1.
Add ==
  IF Top.used
  THEN Load(cur.p) \o One("pop", Ebx)
         \o IF Top.op = "+" THEN Ins("add", Eax, Ebx)
            ELSE Ins("sub", Ebx, Eax) \o Ins("mov", Eax, Ebx)
  ELSE Load(cur.p) \o Ins("mov", Ebx, Eax) \o Load(Top.p)
         \o Ins(IF Top.op = "+" THEN "add" ELSE "sub", Eax, Ebx)
CloseSum ==
  /\ Completes(Sum)
  /\ CASE NotArithmetic(cur.p.attr) -> Refuse("E_SYNTAX_ERROR")
       [] ~NotArithmetic(cur.p.attr) /\ BothNumbers -> Folded
       [] OTHER -> Complete(Loaded(Top.p), TRUE, Add)

------------------------------------------------------------------------------
\* << >>: factor10

OpenShift == \E op \in Shift : Follows(op) /\ OpenUsed(op)

LoadCount == Ins("mov", Reg("ecx", Width(cur.p.attr)), cur.p.opnd)
NoShift(a) == IsAddress(a) \/ a.base = "struct"
CloseShift ==
  /\ Completes(Shift)
  /\ CASE NoShift(Top.p.attr) \/ NoShift(cur.p.attr) -> Refuse("E_SYNTAX_ERROR")
       [] ~(NoShift(Top.p.attr) \/ NoShift(cur.p.attr)) /\ BothNumbers -> Folded
       [] ~BothNumbers /\ Width(cur.p.attr) = 0 -> Refuse("E_INTERNAL_ERROR")
       [] OTHER ->
            Complete(Loaded(Top.p), TRUE,
              LoadCount \o (IF Top.used THEN One("pop", Eax) ELSE Load(Top.p))
                \o Ins(IF Top.op = "<<" THEN "shl" ELSE "shr", Eax, Cl))

------------------------------------------------------------------------------
\* < <= > >= == !=: factor9 and factor8

OpenCompare == \E op \in Order \cup Equality :
  Follows(op) /\ Open(op, Loaded(cur.p), Push(cur.p), 1, 1)

Unlike ==
  /\ Top.p.attr # Loaded(cur.p).attr \/ Top.p.attr.base = "struct"
  /\ IsAddress(Top.p.attr)
Below(unsigned) ==
  CASE Top.op = "<" -> IF unsigned THEN "jb" ELSE "jl"
    [] Top.op = "<=" -> IF unsigned THEN "jbe" ELSE "jle"
    [] Top.op = ">" -> IF unsigned THEN "ja" ELSE "jg"
    [] Top.op = ">=" -> IF unsigned THEN "jae" ELSE "jge"
CloseOrder ==
  /\ Completes(Order)
  /\ IF Unlike THEN Refuse("E_VARIABLE_TYPE_ERROR")
     ELSE Complete(Top.p, TRUE,
            Load(cur.p) \o One("pop", Ebx) \o Ins("cmp", Ebx, Eax)
              \o Truth(Below(Top.p.attr.uns \/ IsAddress(Top.p.attr)), Top.label))
CloseEquality ==
  /\ Completes(Equality)
  /\ IF Unlike THEN Refuse("E_VARIABLE_TYPE_ERROR")
     ELSE Complete(Top.p, TRUE,
            Load(cur.p) \o One("pop", Ebx) \o Ins("cmp", Eax, Ebx)
              \o Truth(IF Top.op = "!=" THEN "jnz" ELSE "jz", Top.label))

------------------------------------------------------------------------------
\* & ^ |: factor7, factor6 and factor5

OpenBits == \E op \in BitOps : Follows(op) /\ OpenUsed(op)

BitIns == CASE Top.op = "&" -> "and" [] Top.op = "^" -> "xor" [] Top.op = "|" -> "or"

\* The source from p2 on is parsed again: the same code, with new labels.
JumpOps == {"jmp", "jz", "jnz", "jb", "jbe", "ja", "jae", "jl", "jle", "jg", "jge"}
NewLabels == label_counter - Top.labels
Again ==
  [i \in 1..Len(code) - Top.start |->
     LET it == code[Top.start + i] IN
     IF it.op \in JumpOps \cup {"label"} THEN [it EXCEPT !.dst.n = it.dst.n + NewLabels] ELSE it]

CloseBits ==
  /\ Completes(BitOps)
  /\ LET p == [Loaded(Top.p) EXCEPT !.attr = Wider(Top.p.attr, cur.p.attr)] IN
     CASE ~Top.used /\ BothNumbers -> Folded
       [] ~(~Top.used /\ BothNumbers) /\ (NotArithmetic(Top.p.attr) \/ NotArithmetic(cur.p.attr)) ->
            Refuse("E_SYNTAX_ERROR")
       [] Top.used /\ IsNumber(cur.p) /\ ~(NotArithmetic(Top.p.attr) \/ NotArithmetic(cur.p.attr)) ->
            \* c32_src_ptr_restore takes back the output since the operator too
            /\ cur' = Operand(p, TRUE, Top.op, Append(Top.kids, cur), "", 0)
            /\ code' = SubSeq(code, 1, Top.save) \o Again \o Ins(BitIns, Eax, cur.p.opnd)
            /\ label_counter' = label_counter + NewLabels
            /\ frames' = Front(frames)
            /\ UNCHANGED <<profile, built, err>>
       [] OTHER ->
            Complete(p, TRUE,
              Load(cur.p)
                \o (IF Top.used THEN One("pop", Ebx) ELSE Ins("mov", Ebx, Eax) \o Load(Top.p))
                \o Ins(BitIns, Eax, Ebx))

------------------------------------------------------------------------------
\* && || ?: and the comma: factor4, factor3, factor2 and c32_expr

Test(jcc) == Load(cur.p) \o Ins("and", Eax, Eax) \o Jump(jcc, label_counter)

OpenLogic == \E op \in {"&&", "||"} :
  Follows(op) /\ Open(op, Loaded(cur.p), Test(IF op = "&&" THEN "jz" ELSE "jnz"), 0, 1)
CloseLogic ==
  /\ Completes({"&&", "||"})
  /\ Complete(Loaded(cur.p), TRUE, Load(cur.p) \o Label(Top.label))

\* label: the false part, label + 1: the end.
OpenCond == Follows("?:") /\ Open("?:", Loaded(cur.p), Test("jz"), 0, 2)
CondColon ==
  /\ Completes({"?:"}) /\ Len(Top.kids) = 1
  /\ LET items == Load(cur.p) \o Jump("jmp", Top.label + 1) \o Label(Top.label) IN
     /\ code' = code \o items
     /\ frames' = [frames EXCEPT ![Len(frames)].kids = Append(Top.kids, cur),
                                 ![Len(frames)].start = Len(code) + Len(items)]
  /\ cur' = Leftover
  /\ UNCHANGED <<profile, label_counter, built, err>>
CloseCond ==
  /\ Completes({"?:"}) /\ Len(Top.kids) = 2
  /\ Complete(Loaded(cur.p), TRUE, Load(cur.p) \o Label(Top.label + 1))

OpenComma == Follows(",") /\ Open(",", cur.p, <<>>, 0, 0)
CloseComma == Completes({","}) /\ Complete(cur.p, cur.used, <<>>)

------------------------------------------------------------------------------
\* Assignments: c32_factor1 and the functions of expr_eq.cpp

OpenAssign == \E op \in Assign :
  /\ Follows(op)
  /\ IF cur.p.attr.base # "struct" /\ ~IsPlace(cur.p) THEN Refuse("E_SYNTAX_ERROR")
     ELSE LET p == IF cur.p.attr.base = "struct" THEN cur.p ELSE Place(cur.p) IN
          IF cur.used THEN Open(op, p, One("push", Eax), 1, 0) ELSE Open(op, p, <<>>, 0, 0)

\* c32_expr_eq
Store(p) ==
  Load(cur.p) \o
  IF Top.used
  THEN Ins("mov", Ebx, Eax) \o One("pop", Eax) \o Ins("mov", p.opnd, Reg("ebx", Width(p.attr)))
  ELSE Ins("mov", p.opnd, Reg("eax", Width(p.attr)))

\* c32_expr_plus_eq, c32_expr_minus_eq
Scaled(r, a) ==
  LET twice == Ins("add", r, r) IN
  CASE ShiftBit(a) = 1 -> twice [] ShiftBit(a) = 2 -> twice \o twice [] OTHER -> <<>>
Scale(r, a) == IF IsAddress(a) THEN Scaled(r, a) ELSE <<>>
AddTo(p) ==
  LET ins == IF Top.op = "+=" THEN "add" ELSE "sub" IN
  Load(cur.p) \o
  IF Top.used
  THEN Ins("mov", Ebx, Eax) \o One("pop", Eax) \o Scale(Ebx, p.attr) \o Ins(ins, p.opnd, Ebx)
  ELSE Scale(Eax, p.attr) \o Ins(ins, p.opnd, Eax)

\* c32_expr_and_eq, c32_expr_xor_eq, c32_expr_or_eq
BitsTo(p) ==
  LET ins == CASE Top.op = "&=" -> "and" [] Top.op = "^=" -> "xor" [] Top.op = "|=" -> "or" IN
  Load(cur.p) \o
  IF Top.used
  THEN Ins("mov", Ecx, Eax) \o One("pop", Eax) \o Ins(ins, p.opnd, Reg("ecx", Width(cur.p.attr)))
  ELSE Ins(ins, p.opnd, Reg("eax", Width(p.attr)))

\* c32_expr_asterisk_eq, c32_expr_slush_eq, c32_expr_percent_eq.  db 0x99 is cwd.
MultiplyTo(p) ==
  LET w == Width(p.attr)
      compute ==
        IF Top.op = "*=" THEN One(IF p.attr.uns THEN "mul" ELSE "imul", Ebx)
        ELSE IF p.attr.uns THEN Ins("sub", Edx, Edx) \o One("div", Ebx)
        ELSE One("cwd", Eax) \o One("idiv", Ebx)
      put ==
        CASE Top.op = "%=" ->
               (IF Top.used THEN One("pop", Eax) ELSE <<>>) \o Ins("mov", p.opnd, Reg("edx", w))
          [] Top.op # "%=" /\ Top.used ->
               Ins("mov", Edx, Eax) \o One("pop", Eax) \o Ins("mov", p.opnd, Reg("edx", w))
          [] OTHER -> Ins("mov", p.opnd, Reg("eax", w))
  IN Load(cur.p) \o Ins("mov", Ebx, Eax) \o Ins("mov", Reg("eax", w), p.opnd) \o compute \o put

\* c32_expr_l_shift_eq, c32_expr_r_shift_eq
ShiftTo(p) ==
  LoadCount \o (IF Top.used THEN One("pop", Eax) ELSE <<>>)
    \o Sized(IF Top.op = "<<=" THEN "shl" ELSE "shr", Width(p.attr), p.opnd, Cl)

CloseAssign ==
  /\ Completes(Assign)
  /\ LET p == Top.p
         struct == p.attr.base = "struct"
         copied == /\ cur.p.attr.base = "struct" /\ ~IsAddress(cur.p.attr)
                   /\ cur.p.attr.tag = p.attr.tag
         wrong == \/ struct /\ (p.attr.arr > 0 \/ (p.attr.ptr = 0 /\ ~copied))
                  \/ Top.op # "=" /\ IsAddress(cur.p.attr)
                  \/ Top.op \notin {"=", "+=", "-="} /\ IsAddress(p.attr)
         unsized == /\ Width(cur.p.attr) = 0
                    /\ Top.op \in {"<<=", ">>="} \/ (Top.used /\ Top.op \in {"&=", "^=", "|="})
         pointer == struct /\ p.attr.ptr = 1 /\ Top.op # "="
     IN
     CASE wrong -> Refuse("E_SYNTAX_ERROR")
       [] ~wrong /\ IsStruct(p.attr) -> Refuse("E_TO_BE_DEFINE")
       [] ~wrong /\ ~IsStruct(p.attr) /\ (pointer \/ unsized) -> Refuse("E_INTERNAL_ERROR")
       [] OTHER -> Complete(p, Top.used,
            CASE Top.op = "=" -> Store(p)
              [] Top.op \in {"+=", "-="} -> AddTo(p)
              [] Top.op \in {"&=", "^=", "|="} -> BitsTo(p)
              [] Top.op \in {"*=", "/=", "%="} -> MultiplyTo(p)
              [] OTHER -> ShiftTo(p))

------------------------------------------------------------------------------
Init ==
  /\ profile \in Profiles
  /\ frames = <<>> /\ cur = NoOperand /\ code = <<>>
  /\ label_counter = 0 /\ built = 0 /\ err = "none"

Next ==
  \/ Parenthesis \/ Constant \/ TypeSize \/ Variable \/ Array \/ Structure \/ String
  \/ OpenCall \/ NextArgument \/ CloseCall
  \/ OpenIndex \/ CloseIndex \/ Members \/ MemberIndex
  \/ Cast \/ Deref \/ AddressOf \/ Increment \/ PostIncrement \/ Negate \/ Not \/ SizeOf
  \/ OpenArithmetic \/ CloseProduct \/ CloseSum
  \/ OpenShift \/ CloseShift
  \/ OpenCompare \/ CloseOrder \/ CloseEquality
  \/ OpenBits \/ CloseBits
  \/ OpenLogic \/ CloseLogic \/ OpenCond \/ CondColon \/ CloseCond \/ OpenComma \/ CloseComma
  \/ OpenAssign \/ CloseAssign

Spec == Init /\ [][Next]_vars

------------------------------------------------------------------------------
\* Properties

\* The expression is complete: its value is what Load makes of cur.
Final == err = "none" /\ frames = <<>> /\ cur.op # "none"

\* The forms of struct expr_param.
OpndOK(o) ==
  \/ ~o.mem /\ o.base \in {"none", "eax"}
  \/ o.mem /\ o.base \in {"none", "eax", "ebp"}
ParamOK(p) ==
  /\ p.com \in {20, 21, 22} /\ OpndOK(p.opnd)
  /\ p.opnd.mem = (p.com = 22)
  /\ p.attr.ptr \in 0..MaxPointer /\ p.attr.arr \in 0..MaxArray
  /\ p.numb => p.opnd.base = "none"
\* The type invariant: every operand has one of the forms of struct expr_param.
TypeOK ==
  /\ profile \in Profiles
  /\ ParamOK(cur.p) /\ cur.used \in BOOLEAN
  /\ \A i \in DOMAIN frames : ParamOK(frames[i].p) /\ frames[i].pushed \in Nat
  /\ label_counter \in Nat /\ built \in Nat
  /\ err \in {"none", "E_SYNTAX_ERROR", "E_TO_BE_DEFINE", "E_TABLE_OVERFLOW",
              "E_VARIABLE_TYPE_ERROR", "E_PARAM_NUMBER_ERROR", "E_NOT_STRUCTURE",
              "E_UNDEFINED_SYMBOL", "E_INTERNAL_ERROR", "undefined", "divide"}

\* Operators that need no expr_p1 again.
Forgets == {"&&", "||", "?:", ",", "call"}

\* An operand whose text names eax is returned as used, and while a later operand
\* is computed, which may take eax for itself, its value is on the stack.
EaxKept ==
  /\ cur.op # "none" /\ cur.p.opnd.base = "eax" => cur.used
  /\ \A i \in DOMAIN frames :
       frames[i].op \notin Forgets /\ frames[i].p.opnd.base = "eax" => frames[i].pushed = 1

\* Words the instruction pushes, the words on the stack after n instructions in
\* the order of the text, and those the open operators hold.
Pushes(it) ==
  CASE it.op = "push" -> 1
    [] it.op = "pop" -> -1
    [] it.op = "sub" /\ it.dst = Esp -> it.src.n \div 4
    [] it.op = "add" /\ it.dst = Esp -> -(it.src.n \div 4)
    [] OTHER -> 0
Sums(s) == LET h[n \in 0..Len(s)] == IF n = 0 THEN 0 ELSE h[n - 1] + s[n] IN h
Depths(s) == Sums([i \in DOMAIN s |-> Pushes(s[i])])
Height(n) == Depths(code)[n]
Held(n) == Sums([i \in DOMAIN frames |-> frames[i].pushed])[n]

\* When an operand is complete the stack holds what the open operators pushed,
\* nothing else, and a jump and its label agree on it, whichever way is taken.
StackBalanced ==
  /\ \A i \in DOMAIN frames : Height(frames[i].start) = Held(i)
  /\ cur.op # "none" => Height(Len(code)) = Held(Len(frames))
  /\ \A i \in DOMAIN code : code[i].op \in JumpOps =>
       \A j \in DOMAIN code :
         code[j].op = "label" /\ code[j].dst.n = code[i].dst.n => Height(j) = Height(i)
================================================================================
