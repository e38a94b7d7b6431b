----------------------------- MODULE PrepInclusion -----------------------------
(***************************************************************************)
(* Which lines prep writes, against the rule of C: the lines of a file,    *)
(* and in the place of each #include the lines of the file it names.       *)
(***************************************************************************)
EXTENDS PrepComments

------------------------------------------------------------------------------
\* Inclusion

\* Line n of f, or a marker that names f.
Entry(f, n) == [numb |-> n, file |-> f]

\* What should be in the output for the first n lines of f, if included says it of the
\* files they include: the lines, and what the compiler takes the text for behind them.
\* A directive counts where the compiler is in code, and leaves no line.
Copied(lines, f, n, included) ==
  LET copied[k \in 0..n] ==
        IF k = 0 THEN [at |-> "code", lines |-> <<>>]
        ELSE LET line == lines[k]
                 before == copied[k-1]
             IN IF before.at = "code" /\ line.kind = "include" /\ line.name \in Files
                  THEN [at |-> included[line.name].at,
                        lines |-> before.lines
                                    \o (<<Entry(line.name, 0)>> \o included[line.name].lines)
                                    \o <<Entry(f, 0)>>]
                ELSE IF before.at = "code" /\ line.kind # "text"
                  THEN before
                ELSE [at |-> AfterLine(before.at, line.toks),
                      lines |-> before.lines \o <<Entry(f, k)>>]
  IN copied[n]

\* The same for whole files that include others up to a depth of d.
Flat(contents) ==
  LET flat[d \in 0..MAX_INFILE] ==
        [f \in Files |-> IF d = 0 THEN [at |-> "code", lines |-> <<>>]
                         ELSE Copied(contents[f], f, Len(contents[f]), flat[d-1])]
  IN flat

\* Up to k, what was put in for symbols has opened no comment and closed none.
Settled(k) ==
  \A l \in 1..k : out[l].numb # 0 =>
    \A at \in {"code", "comment"} :
      AfterLine(at, out[l].toks) = AfterLine(at, text[out[l].file][out[l].at].toks)

Entries(lines) == [k \in 1..Len(lines) |-> Entry(lines[k].file, lines[k].numb)]

\* When prep is done, every line of every file is in the output that is no directive,
\* once for each time its file is included, in the order of inclusion, with a marker
\* at each change.  Regular leaves out comments that have a line in their middle (464),
\* and Settled replacements that begin or end one.
Whole ==
  pc = "done" /\ Regular(Len(out)) /\ Settled(Len(out)) =>
    Entries(out) = <<Entry(Main, 0)>> \o Flat(text)[MAX_INFILE][Main].lines
==============================================================================
