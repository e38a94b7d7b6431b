------------------------------ MODULE MCStatements ------------------------------
(***************************************************************************)
(* Small programs for StatementsFlow.  Each function counts as a statement *)
(* of its program.                                                         *)
(***************************************************************************)
EXTENDS StatementsFlow

Program(kinds, size) == [kinds |-> kinds, size |-> size]
MCPrograms ==
  {Program({"expr", "if", "while", "do", "for", "break", "continue"}, 5),
   Program({"expr", "while", "switch", "case", "default", "break", "continue"}, 6),
   Program({"asm", "empty", "return", "if", "while", "goto", "label"}, 5)}
CasePrograms == {Program({"expr", "while", "switch", "case", "break"}, 6)}
DoPrograms == {Program({"do", "break"}, 5)}
Forms == {{}, {"a", "b", "c"}}
===============================================================================
