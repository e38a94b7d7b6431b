----------------------------- MODULE MCExpressions -----------------------------
(***************************************************************************)
(* Small symbol tables, memories and grammars for ExpressionsMeaning.      *)
(***************************************************************************)
EXTENDS ExpressionsMeaning, TLC

Sym(attr, global, at) ==
  [attr |-> attr, dims |-> <<>>, global |-> global, at |-> at, params |-> 0,
   literal |-> FALSE]
Arr(sym, n) == [sym EXCEPT !.attr.arr = 1, !.dims = <<n>>]
Fun(params, at) ==
  [Sym(IntAttr, TRUE, at) EXCEPT !.attr.func = TRUE, !.params = params]

Literal(sym) == [sym EXCEPT !.literal = TRUE]
StructAttr(tag, ptr) == [Attr("struct", FALSE, ptr, 0) EXCEPT !.tag = tag]

Char == Attr("char", FALSE, 0, 0)
Byte == Attr("char", TRUE, 0, 0)
Short == Attr("short", FALSE, 0, 0)
Pointer1 == Attr("int", FALSE, 1, 0)

MCSymbols ==
  "i" :> Sym(IntAttr, FALSE, 0) @@ "u" :> Sym(Byte, TRUE, 3)
    @@ "p" :> Sym(Pointer1, TRUE, 4) @@ "a" :> Arr(Sym(IntAttr, TRUE, 8), 2)
    @@ "b" :> Arr(Sym(Char, FALSE, 4), 2) @@ "n" :> Sym(Attr("int", TRUE, 0, 0), TRUE, 24)
    @@ "s" :> Sym(StructAttr("s", 0), TRUE, 28) @@ "q" :> Sym(StructAttr("t", 1), TRUE, 40)
    @@ "v" :> Arr(Sym(StructAttr("t", 0), TRUE, 44), 2)
    @@ "l" :> Sym(StructAttr("t", 0), FALSE, 44)
    @@ "text" :> Literal(Arr(Sym(Char, TRUE, 68), 2))
    @@ "d" :> Arr(Sym(Char, TRUE, 0), 2)
    @@ "f" :> Fun(1, 40) @@ "g" :> Fun(2, 41) @@ "h" :> Fun(0, 42)

\* struct t { int x; struct t *n; };  struct s { char c; char b[2]; struct t t; };
Elem(attr, dims, value) == [attr |-> attr, dims |-> dims, value |-> value]
MCStructs ==
  "t" :> [size |-> 8,
          elem |-> "x" :> Elem(IntAttr, <<>>, 0) @@ "n" :> Elem(StructAttr("t", 1), <<>>, 4)]
    @@ "s" :> [size |-> 12,
               elem |-> "c" :> Elem(Char, <<>>, 0)
                          @@ "b" :> Elem([Char EXCEPT !.arr = 1], <<2>>, 1)
                          @@ "t" :> Elem(StructAttr("t", 0), <<>>, 4)]

\* i, u, a[0], a[1], b[0], b[1] and n; p points to a[0].
Filled(addresses, set) ==
  FoldLeft(LAMBDA m, s : Put(m, s[1], s[2], Word(s[3])), [x \in addresses |-> 0], set)
Memory(i, u, a0, a1, b0, b1, n) ==
  Filled(0..27, <<<<16, 4, i>>, <<3, 1, u>>, <<4, 4, 8>>, <<8, 4, a0>>, <<12, 4, a1>>,
                  <<20, 1, b0>>, <<21, 1, b1>>, <<24, 4, n>>>>)
MCStores == {Memory(1, 3, 5, -2, 1, 3, 2), Memory(0, 1, -1, 3, 2, 0, 200)}

\* i, s.c, s.b[0], s.t.x, s.t.n, q, v[0].x, v[1].x and the string: s.t.n points to v[0],
\* q to v[1], v[0].n to s.t.
StructMemory(i, c, b, x, v0, v1) ==
  Filled(0..3 \cup 16..19 \cup 28..69,
         <<<<16, 4, i>>, <<28, 1, c>>, <<29, 1, b>>, <<32, 4, x>>, <<36, 4, 44>>, <<40, 4, 52>>,
           <<44, 4, v0>>, <<48, 4, 32>>, <<52, 4, v1>>, <<56, 4, 0>>, <<68, 1, 1>>>>)
StructStores == {StructMemory(1, -1, 2, 5, -3, 7), StructMemory(0, 1, 0, 0, 100, 2)}

\* Operators with each other, two at a time.
Grammar(symbols, values, casts, size, ops) ==
  [symbols |-> symbols, values |-> values, casts |-> casts, size |-> size, ops |-> ops,
   chains |-> {}, stores |-> MCStores]
\* Structures and strings.
Dot(n) == [op |-> ".", name |-> n]
Arrow(n) == [op |-> "->", name |-> n]
MCChains ==
  {<<Dot("c")>>, <<Dot("b")>>, <<Dot("x")>>, <<Dot("t"), Dot("x")>>, <<Dot("t"), Dot("n")>>, <<Arrow("x")>>,
   <<Dot("t"), Dot("n"), Arrow("n"), Arrow("x")>>}
MCProfiles ==
  {Grammar({"i", "u", "p", "f", "b"}, {1}, {Char, Byte}, 2,
     {"*", "+", "&", "<<", "<", "==", "&&", "?:", ",", "=", "+=", "[]", "call", "*x", "&x", "!x",
      "-x", "++x", "x--", "cast"}),
   Grammar({"i", "n", "u", "b"}, {3}, {}, 2,
     {"/", "%", "-", ">>", "<=", ">", ">=", "!=", "^", "|", "||", "-=", "*=", "/=", "%=", "&=",
      "|=", "^=", "<<=", ">>=", "[]", "~x", "--x", "x++"}),
   Grammar({"i", "a", "g", "h"}, {1}, {}, 3, {"+", "[]", "call"}),
   [Grammar({"i", "s", "q", "v", "l", "text", "f"}, {1}, {StructAttr("t", 1)}, 2,
      {".", "[]", "=", "+=", "+", "&", "<<", "*x", "&x", "!x", "-x", "++x", "cast", "sizeof", "==",
       ",", "call"})
      EXCEPT !.chains = MCChains, !.stores = StructStores],
   [Grammar({"d", "text"}, {}, {IntAttr}, 2, {"?:", "[]", "*x", "<<", "sizeof", "!x", "|=", "<<="})
      EXCEPT !.stores = StructStores]}
===============================================================================
