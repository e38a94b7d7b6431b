----------------------------- MODULE MCInitialisers -----------------------------
(***************************************************************************)
(* The texts Initialisers is checked with.  The first profile is for the   *)
(* layout of structures, with members of every kind; the others define     *)
(* what they need and initialise variables of it.                          *)
(***************************************************************************)
EXTENDS Initialisers, TLC

Shape(base, tag, ptr, dims) == [type |-> Type(base, tag, ptr), dims |-> dims]
Chars(dims) == Shape("char", "", 0, dims)
Ints(dims) == Shape("int", "", 0, dims)

Text(shapes, members, structs, variables, objects, tokens, input) ==
  [shapes |-> shapes, members |-> members, structs |-> structs,
   vars |-> variables, objects |-> objects, tokens |-> tokens, input |-> input]

AllTokens == {"{", "}", ",", "num", "str", ";"}

\* Members of one, two and four bytes, a pointer, an array that is too large for an
\* int, one of which an unsigned short keeps nothing, one without a size, one with too
\* many dimensions, and the structure itself.
Layout ==
  Text({Chars(<<>>), Chars(<<3>>), Shape("short", "", 0, <<>>), Ints(<<>>), Ints(<<2, 2>>),
        Shape("char", "", 1, <<>>), Ints(<<7, 7>>), Chars(<<8>>), Chars(<<Empty>>),
        Chars(<<2, 2, 2>>), Shape("struct", "s", 0, <<>>)},
       3, 1, {}, 0, 0, {})

\* Structures in structures.
Nested ==
  Text({Chars(<<>>), Shape("short", "", 0, <<>>), Chars(<<5>>), Shape("struct", "s", 0, <<>>),
        Shape("struct", "t", 0, <<2>>), Shape("struct", "t", 1, <<>>)},
       2, 2, {}, 0, 0, {})

\* Arrays.
Arrays ==
  Text({}, 0, 0,
       {Ints(<<>>), Chars(<<>>), Shape("char", "", 1, <<>>), Ints(<<2>>), Chars(<<Empty>>),
        Ints(<<2, 2>>), Ints(<<2, Empty>>), Shape("char", "", 1, <<3>>), Chars(<<0>>)},
       1, 9, AllTokens)

\* Structures.
Structures ==
  Text({Ints(<<>>), Chars(<<4>>), Shape("struct", "t", 0, <<>>)},
       2, 2, {Shape("struct", "s", 0, <<>>)}, 1, 9, AllTokens \ {"str"})

\* Gaps, which the initialiser leaves out, and strings.
Gaps ==
  Text({Chars(<<>>), Shape("char", "", 1, <<>>)},
       2, 1, {Shape("struct", "s", 0, <<>>), Shape("struct", "s", 0, <<2>>)}, 1, 10, AllTokens)

\* Two variables: what the first leaves behind.
Twice ==
  Text({Shape("char", "", 1, <<Empty>>), Shape("char", "", 1, <<>>)},
       1, 1, {Shape("struct", "s", 0, <<2>>)}, 2, 8, AllTokens \ {"num"})

MCProfiles == {Layout, Nested, Arrays, Structures, Gaps, Twice}
MCSymmetry == Permutations(Names)
===============================================================================
