------------------------------ MODULE PrepComments ------------------------------
(***************************************************************************)
(* What prep writes, as its reader takes it: the comments the compiler's   *)
(* c32_token_process finds in the output.                                  *)
(***************************************************************************)
EXTENDS Prep

------------------------------------------------------------------------------
\* The output as c32_token_process reads it

AfterToken(at, tok) ==
  CASE at = "comment" -> IF tok.t = "close" THEN "code" ELSE "comment"
    [] at = "string"  -> IF tok.t = "quote" THEN "code" ELSE "string"
    [] at = "line"    -> "line"
    [] at = "code"    -> CASE tok.t = "open" -> "comment"
                           [] tok.t = "slashes" -> "line"
                           [] tok.t = "quote" -> "string"
                           [] OTHER -> "code"

\* What it takes the text for behind the first p of toks, if they begin in at.
Scan(at, toks, p) ==
  LET scan[k \in 0..p] == IF k = 0 THEN at ELSE AfterToken(scan[k-1], toks[k])
  IN scan[p]

\* A comment goes on in the next line, nothing else does: strings have an end.
AfterLine(at, toks) == IF Scan(at, toks, Len(toks)) = "comment" THEN "comment" ELSE "code"

\* Whether the line behind the first k of the output begins in a comment.
Behind(lines, k) ==
  LET behind[l \in 0..k] == IF l = 0 THEN "code" ELSE AfterLine(behind[l-1], lines[l].toks)
  IN behind[k]

\* Up to k no line lies in the middle of a comment, which sends the scan astray; no file
\* has ended in a comment; and no quote stands where only the compiler knows that it is
\* none.
Regular(k) ==
  \A l \in 1..k :
    /\ ~out[l].astray
    /\ out[l].numb = 0 => ~out[l].was
    /\ \A p \in DOMAIN out[l].toks : out[l].toks[p].t # "hidden"

\* What prep takes for a comment when it reads a line the compiler takes for one, so
\* that no code is left unscanned and no comment is searched for symbols and
\* directives.  (The line is the one printed last; the lines in front of it are Regular.)
CommentsAgree ==
  LET k == Len(out) IN
  out[k].numb # 0 /\ Regular(k - 1) => (out[k].was <=> Behind(out, k - 1) = "comment")
==============================================================================
