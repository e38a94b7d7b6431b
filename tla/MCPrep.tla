-------------------------------- MODULE MCPrep ---------------------------------
(***************************************************************************)
(* Small source files for prep.                                            *)
(***************************************************************************)
EXTENDS PrepOutput

CONSTANTS MaxMain, MaxHeader  \* bounds: lines of each file

Text(toks) == [kind |-> "text", name |-> "", params |-> <<>>, toks |-> toks]
Define_(n, params, toks) == [kind |-> "define", name |-> n, params |-> params, toks |-> toks]
Include_(f) == [kind |-> "include", name |-> f, params |-> <<>>, toks |-> <<>>]

A == Symbol("A")
B == Symbol("B")
F == Symbol("F")
G == Symbol("G")
P == Symbol("p")
Q == Symbol("q")
X == Mark("other")
Lp == Mark("lp")
Rp == Mark("rp")
Comma == Mark("comma")
Open == Mark("open")
Close == Mark("close")
Quote == Mark("quote")

------------------------------------------------------------------------------
\* Lines, comments and inclusion

HeaderLines ==
  { Text(<<A>>),
    Text(<<Open>>),                                 \* /*
    Text(<<A, Close, A>>),                          \* A */ A
    Define_("B", <<>>, <<A>>),                      \* #define B A
    Include_("g") }

MainLines == (HeaderLines \ {Text(<<A>>), Include_("g")}) \cup
  { Include_("h"),
    Text(<<Quote, A, Open, Quote, B>>),             \* "A /*" B
    Text(<<Open, A, Close, A, Mark("slashes"), A>>),  \* /* A */ A // A
    Text(<<Mark("hidden"), A, Open>>),              \* '"' A /*
    Define_("A", <<>>, <<X, Mark("slashes"), A>>),  \* #define A x // A
    Define_("A", <<>>, <<B>>),                      \* #define A B
    Define_("A", <<>>, <<X, Open>>),                \* #define A x /*
    Define_("A", <<>>, <<Quote>>),                  \* #define A "
    Define_("A", <<>>, <<X, Close, X>>),            \* #define A x */ x
    Include_("missing"),
    [kind |-> "directive", name |-> "", params |-> <<>>, toks |-> <<>>] }

MainTexts == UNION {[1..n -> MainLines] : n \in 0..MaxMain}
HeaderTexts == UNION {[1..n -> HeaderLines] : n \in 0..MaxHeader}

\* The innermost header, which may include itself.
InnerTexts == {<<>>, <<Text(<<A>>)>>, <<Text(<<Open>>)>>, <<Include_("g")>>}

\* A header is empty if nothing includes it.
Sources(main, header, inner) ==
  [f \in Files |-> CASE f = Main -> main [] f = "h" -> header [] f = "g" -> inner]
Inclusions ==
  {t \in MainTexts \X HeaderTexts \X InnerTexts :
     /\ t[2] = <<>> \/ Include_("h") \in Range(t[1])
     /\ t[3] = <<>> \/ Include_("g") \in Range(t[2])}

------------------------------------------------------------------------------
\* Replacement: two definitions and a line

DefineLines ==
  { Define_("A", <<>>, <<X>>),                      \* #define A x
    Define_("A", <<>>, <<B, Comma, X>>),            \* #define A B, x
    Define_("A", <<>>, <<Quote, B, Quote, B>>),     \* #define A "B" B
    Define_("A", <<>>, <<F, Lp, X, Comma>>),        \* #define A F(x,
    Define_("A", <<>>, <<F>>),                      \* #define A F
    Define_("B", <<>>, <<X, X>>),                   \* #define B x x
    Define_("B", <<>>, <<A>>),                      \* #define B A
    Define_("L", <<>>, <<X>>),                      \* a name that is too long
    Define_("B", <<>>, [p \in 1..8 |-> A]),         \* #define B A A A A A A A A
    Define_("F", <<"p">>, <<P, B, P>>),             \* #define F(p) p B p
    Define_("F", <<"p">>, <<P, Lp, P, Rp>>),        \* #define F(p) p(p)
    Define_("F", <<"p">>, <<Quote, P, Quote, Char("p")>>),  \* #define F(p) "p" 'p'
    Define_("F", <<"p", "q">>, <<Q, P>>),           \* #define F(p, q) q p
    Define_("F", <<"p", "L">>, <<P>>),              \* a parameter that is too long
    Define_("F", <<"p", "q", "r", "s">>, <<Q>>),    \* #define F(p, q, r, s) q
    Define_("G", <<"p">>, <<F, Lp, P, Comma, B, Rp>>),      \* #define G(p) F(p, B)
    Define_("G", <<"p">>, <<F, Lp, P, Rp, Symbol("L")>>) }  \* #define G(p) F(p) and a long name

Call(f, args) == <<f, Lp>> \o args \o <<Rp>>
UseLines ==
  { <<A, B>>, <<Char("A"), X>>, <<Symbol("L")>>,
    Call(F, <<X>>), Call(F, <<A>>), Call(F, <<A, Comma>>), Call(F, <<F>>),
    Call(F, <<X, Comma, A>>), Call(F, <<B, Comma, A, B>>),
    Call(F, <<Q, Comma, A>>) \o <<F>>,              \* F(q, A) F
    Call(F, <<A, Comma, X>>) \o <<F, Lp>>,          \* F(A, x) F(
    Call(F, <<A, Comma, A, Comma, X>>),
    Call(F, Call(G, <<A>>)),                        \* F(G(A))
    Call(F, <<Mark("blank"), A, Rp, Comma, X>>),    \* F( (A), x)
    Call(F, <<Quote, Comma, Quote>>),               \* F(",")
    Call(F, <<X, X, X, X, X>>),                     \* an argument that is too long
    <<F, Mark("blank"), A, Rp>>,                    \* F (A)
    Call(G, <<A>>) \o <<B>>, Call(G, <<X>>) \o Call(F, <<B>>) }

Replacements ==
  { <<<<d, e, line>>, <<>>, <<>>>> :
     d \in DefineLines, e \in DefineLines \cup {Text(<<X>>)},
     line \in {Text(toks) : toks \in UseLines} \cup {Define_("C", <<>>, <<>>)}}

MCContents == {Sources(t[1], t[2], t[3]) : t \in Replacements \cup Inclusions}
==============================================================================
