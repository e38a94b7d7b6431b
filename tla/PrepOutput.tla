------------------------------ MODULE PrepOutput -------------------------------
(***************************************************************************)
(* What prep writes, against the rules of C: the text C replaces the       *)
(* symbols by.                                                             *)
(***************************************************************************)
EXTENDS PrepInclusion

------------------------------------------------------------------------------
\* Replacement in C

\* How many "(" are open behind the first p of toks, which begin behind a "(".
Depth(toks) ==
  LET depth[p \in 0..Len(toks)] ==
        IF p = 0 THEN 1
        ELSE depth[p-1] + (CASE toks[p].t \in {"lp", "blank"} -> 1
                             [] toks[p].t = "rp" -> -1
                             [] OTHER -> 0)
  IN depth

\* Where the arguments end: at the commas and the ")" of their own call.
Ends(toks) ==
  LET depth == Depth(toks)
      inside == {q \in DOMAIN toks : \A p \in 0..q-1 : depth[p] > 0}
  IN SetToSortSeq({q \in inside : depth[q] = 0 \/ (depth[q] = 1 /\ toks[q].t = "comma")},
                  LAMBDA a, b : a < b)
Closed(toks) == \E p \in DOMAIN toks : Depth(toks)[p] = 0
ArgumentsOf(toks) ==
  LET ends == Ends(toks)
  IN [k \in DOMAIN ends |-> SubSeq(toks, IF k = 1 THEN 1 ELSE ends[k-1] + 1, ends[k] - 1)]

\* All parameters of d are replaced at once.
AtOnce(d, args) ==
  FlattenSeq([p \in DOMAIN d.text |->
    LET k == SelectInSeq(d.params, LAMBDA param : d.text[p] = Symbol(param))
    IN IF k \in DOMAIN args THEN args[k] ELSE <<d.text[p]>>])

Kinds(toks) == {toks[p].t : p \in DOMAIN toks}

\* Where prep departs from C, or C gives no meaning.  tok, with definition d, stands in
\* front of rest.
\*   char      a name between apostrophes is replaced (306)
\*   literal   the text of the definition opens a comment or a string without closing it
\*             (C goes on with the comment in the next line), or names a parameter inside
\*             of one or between apostrophes, which is replaced as well (205)
\*   bare      a symbol with parameters is replaced even if no "(" follows (190), or one
\*             with a blank in front
\*   open      the arguments go on in the next line
\*   number    there are not as many arguments as parameters
\*   nested    an argument has a "(", and the first ")" ends it (172)
\*   comma     an argument has a string or a comment, whose comma or ")" ends it as well
\*   param     an argument has the name of a later parameter, which replaces it (205)
\*   split     an argument comes to have a comma or a bracket, and the text has a call,
\*             which prep replaces with the argument as it was
\*   handed    an argument leads to another call, perhaps without an end
Literal == {"open", "close", "slashes", "quote", "hidden", "char"}
Separators == {"comma", "lp", "blank", "rp"}
CallDeparts(d, rest) ==
  LET args == ArgumentsOf(Tail(rest)) IN
  IF rest = <<>> \/ Head(rest).t # "lp" THEN {"bare"}
  ELSE IF ~Closed(Tail(rest)) THEN {"open"}
  ELSE {w \in {"number", "nested", "comma", "param", "handed"} :
    CASE w = "number" -> Len(args) # Len(d.params)
      [] w = "nested" -> \E k \in DOMAIN args : Kinds(args[k]) \cap Separators # {}
      [] w = "comma" -> \E k \in DOMAIN args : Kinds(args[k]) \cap Literal # {}
      [] w = "param" -> \E k \in DOMAIN args, l \in DOMAIN d.params :
                          k < l /\ Symbol(d.params[l]) \in Range(args[k])
      [] w = "handed" -> \E k \in DOMAIN args : HandsOn(args[k])}
Masked(d) ==
  \/ Scan("code", d.text, Len(d.text)) # "code"
  \/ \E p \in DOMAIN d.text :
       /\ d.text[p].t \in Names /\ d.text[p].n \in Range(d.params)
       /\ d.text[p].t = "char" \/ Scan("code", d.text, p - 1) # "code"
Departs(tok, d, rest) ==
  (IF tok.t = "char" THEN {"char"} ELSE {})
    \cup (IF Masked(d) THEN {"literal"} ELSE {})
    \cup (IF tok.t = "sym" /\ d.params # <<>> THEN CallDeparts(d, rest) ELSE {})

\* What C makes of toks, which begin in at, with the first n definitions, up to where
\* prep departs from it.  The arguments of a call are replaced first.
RECURSIVE Expand(_, _, _)
Expand(toks, at, n) ==
  IF toks = <<>> THEN [toks |-> <<>>, departs |-> {}]
  ELSE LET tok == Head(toks)
           rest == Tail(toks)
           k == SelectInSeq(SubSeq(define_data, 1, n),
                            LAMBDA d : tok.t \in Names /\ tok.n = d.name)
       IN IF at # "code" \/ k = 0
          THEN LET behind == Expand(rest, AfterToken(at, tok), n)
               IN [behind EXCEPT !.toks = <<tok>> \o @]
          ELSE LET d == define_data[k] IN
            IF Departs(tok, d, rest) # {}
            THEN [toks |-> toks, departs |-> Departs(tok, d, rest)]
            ELSE IF d.params = <<>> THEN Expand(d.text \o rest, "code", n)
            ELSE LET args == ArgumentsOf(Tail(rest))
                     new == [j \in DOMAIN args |-> Expand(args[j], "code", n)]
                     text_ == AtOnce(d, [j \in DOMAIN args |-> new[j].toks])
                     split == /\ "lp" \in Kinds(d.text)
                              /\ \E j \in DOMAIN new : Kinds(new[j].toks) \cap Separators # {}
                     departs == UNION {new[j].departs : j \in DOMAIN new}
                                  \cup IF split THEN {"split"} ELSE {}
                 IN IF departs # {} THEN [toks |-> toks, departs |-> departs]
                    ELSE Expand(text_ \o SubSeq(rest, Last(Ends(Tail(rest))) + 2, Len(rest)),
                                "code", n)

\* The text of the line printed last is what C makes of it with the definitions as
\* define_process has entered them: every symbol in code is replaced, again and again,
\* and none in a comment or a string, but for the departures named above.  (Circular
\* definitions end in C and not in prep.)
Expanded ==
  LET k == Len(out)
      meant == Expand(text[out[k].file][out[k].at].toks, Behind(out, k - 1), out[k].defs)
  IN out[k].numb # 0 /\ Regular(k) /\ ~Circular => meant.departs # {} \/ out[k].toks = meant.toks
==============================================================================
