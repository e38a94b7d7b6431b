------------------------------ MODULE MCSrcBuffer ------------------------------
(***************************************************************************)
(* A prep output of seven lines: the file marker comment; a line of two    *)
(* tokens and a line comment; a blank line; the start of a block comment;  *)
(* a blank line inside it; a line with its end and a token; and a line     *)
(* with a comment that is still open when the file ends.  One token call   *)
(* reads over lines 3 to 5, another meets the end of the file inside the   *)
(* last comment.                                                           *)
(***************************************************************************)
EXTENDS SrcBuffer

Lines == << "nul",
  "colon", "copen", "word", "cclose", "nul",
  "colon", "word", "space", "word", "line", "word", "nul",
  "colon", "nul",
  "colon", "space", "copen", "nul",
  "colon", "nul",
  "colon", "cclose", "word", "nul",
  "colon", "copen", "word", "nul" >>
MCN == Len(Lines) - 1
MCText == [p \in 0..MCN |-> Lines[p+1]]
===============================================================================
