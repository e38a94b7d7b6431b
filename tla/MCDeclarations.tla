---------------------------- MODULE MCDeclarations -----------------------------
(***************************************************************************)
(* Small translation units for Declarations.                               *)
(***************************************************************************)
EXTENDS Declarations, TLC

Type(char, short, byte, bytes) ==
  [char |-> char, short |-> short, byte |-> byte, size |-> bytes]

\* char and int.
MCTypes == {Type(TRUE, FALSE, 1, 1), Type(FALSE, FALSE, 4, 4)}
NameSymmetry == Permutations(Names)
==============================================================================
