----------------------------- MODULE MCFrameLayout -----------------------------
(***************************************************************************)
(* The types of variables FrameLayout is checked with.                     *)
(***************************************************************************)
EXTENDS FrameLayout

Type(char, short, byte, bytes) ==
  [char |-> char, short |-> short, byte |-> byte, size |-> bytes]

\* char, char[3], short, int, char *, a struct of six bytes.
MCTypes ==
  {Type(TRUE, FALSE, 1, 1), Type(TRUE, FALSE, 1, 3), Type(FALSE, TRUE, 2, 2),
   Type(FALSE, FALSE, 4, 4), Type(TRUE, FALSE, 4, 4), Type(FALSE, FALSE, 6, 6)}
==============================================================================
