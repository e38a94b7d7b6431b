--------------------------------- MODULE Prep ---------------------------------
(***************************************************************************)
(* The preprocessor.  It copies the lines of a file and of the files this  *)
(* one includes, replaces the symbols that are defined, and puts in front  *)
(* of each line its number, and a line with a marker comment wherever the  *)
(* file changes.                                                           *)
(*                                                                         *)
(* A line is a record: kind is "text", or the directive the line is when   *)
(* it does not lie in a comment; toks are its tokens, without those of the *)
(* directive itself, without blanks and without the newline.  A token is   *)
(* one of the things the scanner tells apart.                              *)
(***************************************************************************)
EXTENDS Integers, SequencesExt

CONSTANTS
  Files,       \* names of files that exist
  Main,        \* the one on the command line
  Contents,       \* what the files may contain: functions from files to sequences of lines
  LongSymbols,    \* names longer than symbuf
  MAX_INFILE,     \* files open at a time
  MAX_DEFINE,     \* entries of define_data
  MAX_PARAMETER,  \* parameters of an entry
  MAX_BUFF,       \* tokens that buff has room for, the names and texts of define_data
  MAX_SYMBUF,     \* tokens of an argument that get_bun reads
  MAX_LINE        \* tokens that linebuf and str have room for

ASSUME FilesAssumption == Main \in Files /\ \A t \in Contents : DOMAIN t = Files
ASSUME LimitsAssumption ==
  {MAX_INFILE, MAX_DEFINE, MAX_PARAMETER, MAX_BUFF, MAX_SYMBUF, MAX_LINE} \subseteq Nat \ {0}

\* Tokens: a symbol, or one of "open" and "close" of a comment, "slashes", "quote",
\* "hidden" (a quote in '"' or \", which the compiler does not end a string at), "lp"
\* and "blank" (a "(" with no blank in front of it, and with one), "comma", "rp", "other";
\* or a name between apostrophes, which prep takes for a symbol as well (306).
Symbol(n) == [t |-> "sym", n |-> n]
Char(n) == [t |-> "char", n |-> n]
Mark(k) == [t |-> k, n |-> k]
Tokens ==
  [t : {"sym", "char", "open", "close", "slashes", "quote", "hidden", "lp", "blank", "comma",
        "rp", "other"},
   n : STRING]

\* A line, with the name and the parameters of its directive if it has some.
Lines ==
  [kind : {"text", "include", "define", "directive"},
   name : STRING, params : Seq(STRING), toks : Seq(Tokens)]

ASSUME ContentsAssumption ==
  \A t \in Contents : \A f \in Files :
    t[f] \in Seq(Lines) /\ \A k \in DOMAIN t[f] : Len(t[f][k].toks) <= MAX_LINE

VARIABLES
  text,             \* the contents of the files
  inc_data,         \* the files being read, the innermost last: name, line_numb, and
                    \* how many lines fgets has read
  line_numb,
  linebuf,          \* the line being processed, its tokens
  linebufp,         \* the next of them; behind the last one is the newline
  define_data,
  in_comment_flag,
  pc,               \* where parser, parser_normal_line or a directive stands
  out,              \* the lines of the output file
  err               \* the code error_message stopped with; "overrun" if linebuf or str is
                    \* written past its end, "undefined" if what comes next depends on memory

vars == <<text, inc_data, line_numb, linebuf, linebufp, define_data, in_comment_flag,
          pc, out, err>>

------------------------------------------------------------------------------
\* Where the line is that is being processed

File == inc_data[Len(inc_data)]
Line == text[File.name][File.read]
Here == linebuf[linebufp]
AtEnd == linebufp > Len(linebuf)

\* q is the place of the first of the kinds from p on; or there is none.
First(kinds, p, q) == linebuf[q].t \in kinds /\ \A r \in p..q-1 : linebuf[r].t \notin kinds
None(kinds, p) == \A r \in p..Len(linebuf) : linebuf[r].t \notin kinds

------------------------------------------------------------------------------
\* Output

\* A marker: "   0:   /*#$& file */".  was is the flag when it is printed.
Marker(f) ==
  [numb |-> 0, file |-> f, at |-> 0, defs |-> 0, was |-> in_comment_flag,
   astray |-> FALSE, toks |-> <<Mark("open"), Mark("other"), Mark("close")>>]
\* A line: its number and its text.  The other fields say where it comes from, how
\* many symbols were defined, in_comment_flag when it was read, and whether the
\* scan has left it.
Numbered(astray) ==
  [numb |-> line_numb, file |-> File.name, at |-> File.read, defs |-> Len(define_data),
   was |-> in_comment_flag, astray |-> astray, toks |-> linebuf]

\* parser_normal_line has returned flag.
EndLine(flag, astray) ==
  /\ out' = Append(out, Numbered(astray))
  /\ in_comment_flag' = flag
  /\ pc' = "read"
  /\ UNCHANGED <<text, inc_data, line_numb, linebuf, linebufp, define_data, err>>

Stop(e) ==
  /\ err' = e
  /\ UNCHANGED <<text, inc_data, line_numb, linebuf, linebufp, define_data,
                 in_comment_flag, pc, out>>

GoTo(q) ==
  /\ linebufp' = q /\ pc' = "normal"
  /\ UNCHANGED <<text, inc_data, line_numb, linebuf, define_data, in_comment_flag,
                 out, err>>

Running(place) == err = "none" /\ pc = place

------------------------------------------------------------------------------
\* parser: the loop over the lines

\* fgets gives a line: it is scanned for the end of a comment, or it is a directive,
\* or a line of C.
NextLine ==
  /\ Running("read") /\ File.read < Len(text[File.name])
  /\ inc_data' = [inc_data EXCEPT ![Len(inc_data)].read = @ + 1]
  /\ line_numb' = line_numb + 1
  /\ LET line == text[File.name][File.read + 1] IN
       /\ linebuf' = line.toks /\ linebufp' = 1
       /\ pc' = IF in_comment_flag THEN "comment"
                ELSE IF line.kind = "text" THEN "normal" ELSE line.kind
  /\ UNCHANGED <<text, define_data, in_comment_flag, out, err>>

\* Mutant: the line number of the file that was included goes on.
EndOfFileNumbersOn ==
  /\ Running("read") /\ File.read = Len(text[File.name])
  /\ IF Len(inc_data) = 1
       THEN pc' = "done" /\ UNCHANGED <<inc_data, line_numb, out>>
       ELSE LET up == inc_data[Len(inc_data) - 1] IN
            /\ inc_data' = Front(inc_data)
            /\ out' = Append(out, Marker(up.name))
            /\ UNCHANGED <<line_numb, pc>>
  /\ UNCHANGED <<text, linebuf, linebufp, define_data, in_comment_flag, err>>

\* fgets gives none: back to the file that includes this one, and to its line number.
EndOfFile ==
  /\ Running("read") /\ File.read = Len(text[File.name])
  /\ IF Len(inc_data) = 1
       THEN pc' = "done" /\ UNCHANGED <<inc_data, line_numb, out>>
       ELSE LET up == inc_data[Len(inc_data) - 1] IN
            /\ inc_data' = Front(inc_data)
            /\ line_numb' = up.line_numb
            /\ out' = Append(out, Marker(up.name))
            /\ UNCHANGED pc
  /\ UNCHANGED <<text, linebuf, linebufp, define_data, in_comment_flag, err>>

\* A line in a comment is searched for the end of it.  The loop does not stop at the
\* end of the line: if there is none, it goes on into what lies behind the newline.
EndComment ==
  /\ Running("comment")
  /\ \/ \E q \in DOMAIN linebuf : First({"close"}, 1, q) /\ GoTo(q + 1)
     \/ /\ None({"close"}, 1)
        /\ linebufp' = Len(linebuf) + 2 /\ pc' = "astray"
        /\ UNCHANGED <<text, inc_data, line_numb, linebuf, define_data, in_comment_flag,
                       out, err>>

\* What parser_normal_line returns from wherever that ends is anybody's guess, if it ends.
Astray ==
  /\ Running("astray")
  /\ (\E flag \in BOOLEAN : EndLine(flag, TRUE)) \/ Stop("undefined")

------------------------------------------------------------------------------
\* Directives

\* Mutant: the file is opened in the entry of the one that includes it.
IncludeInPlace ==
  /\ Running("include")
  /\ IF Len(inc_data) >= MAX_INFILE THEN Stop("memory")
     ELSE IF Line.name \notin Files THEN Stop("file")
     ELSE /\ inc_data' = [inc_data EXCEPT ![Len(inc_data)] =
                            [name |-> Line.name, read |-> 0, line_numb |-> line_numb]]
          /\ line_numb' = 0
          /\ out' = Append(out, Marker(Line.name))
          /\ pc' = "read"
          /\ UNCHANGED <<text, linebuf, linebufp, define_data, in_comment_flag, err>>

\* include_process
Include ==
  /\ Running("include")
  /\ IF Len(inc_data) >= MAX_INFILE \/ Line.name \in LongSymbols THEN Stop("memory")
     ELSE IF Line.name \notin Files THEN Stop("file")
     ELSE /\ inc_data' =
               Append([inc_data EXCEPT ![Len(inc_data)].line_numb = line_numb],
                      [name |-> Line.name, read |-> 0, line_numb |-> 0])
          /\ line_numb' = 0
          /\ out' = Append(out, Marker(Line.name))
          /\ pc' = "read"
          /\ UNCHANGED <<text, linebuf, linebufp, define_data, in_comment_flag, err>>

Defined(n) == \E d \in DOMAIN define_data : define_data[d].name = n

\* Mutant: the limit is checked one too late.
RoomForDefineLate == Len(define_data) <= MAX_DEFINE
RoomForDefine == Len(define_data) < MAX_DEFINE

\* There is room for MAX_PARAMETER parameters; the text begins with what follows them,
\* that is with the other parameters and the ")".
Kept == IF Len(Line.params) <= MAX_PARAMETER THEN Line.params
        ELSE SubSeq(Line.params, 1, MAX_PARAMETER)
Surplus ==
  LET n == Len(Line.params) - MAX_PARAMETER
  IN [p \in 1..2*n |-> IF p % 2 = 1 THEN Symbol(Line.params[MAX_PARAMETER + (p + 1) \div 2])
                       ELSE Mark(IF p = 2*n THEN "rp" ELSE "comma")]

\* What buff holds: names, parameters and texts.
Room(d) == 1 + Len(d.params) + Len(d.text)
Held ==
  LET held[k \in 0..Len(define_data)] == IF k = 0 THEN 0 ELSE held[k-1] + Room(define_data[k])
  IN held[Len(define_data)]

\* The new entry, with the first n tokens of the line as its text.
Enter(n) ==
  LET d == [name |-> Line.name, params |-> Kept, text |-> Surplus \o SubSeq(linebuf, 1, n)]
  IN IF Held + Room(d) > MAX_BUFF THEN Stop("memory")
     ELSE /\ define_data' = Append(define_data, d)
          /\ pc' = "read"
          /\ UNCHANGED <<text, inc_data, line_numb, linebuf, linebufp, in_comment_flag,
                         out, err>>

\* define_process: the text goes up to "//" or to the end of the line.
Define ==
  /\ Running("define")
  /\ IF Line.name \in LongSymbols THEN Stop("symbol")
     ELSE IF ~RoomForDefine THEN Stop("memory")
     ELSE IF Defined(Line.name) THEN Stop("multiple")
     ELSE IF \E p \in DOMAIN Kept : Kept[p] \in LongSymbols /\ Held + p <= MAX_BUFF
            THEN Stop("symbol")
     ELSE \/ \E q \in DOMAIN linebuf : First({"slashes"}, 1, q) /\ Enter(q - 1)
          \/ None({"slashes"}, 1) /\ Enter(Len(linebuf))

\* Any other directive is refused, #if and #ifdef as well, and what is malformed.
OtherDirective == Running("directive") /\ Stop("syntax")

------------------------------------------------------------------------------
\* parser_normal_line, one turn of its loop

LineDone ==
  /\ Running("normal")
  /\ ~AtEnd => Here.t = "slashes"
  /\ EndLine(FALSE, FALSE)

At(kinds) == Running("normal") /\ ~AtEnd /\ Here.t \in kinds

OpenComment ==
  /\ At({"open"})
  /\ \/ \E q \in linebufp+1..Len(linebuf) :
          First({"close"}, linebufp + 1, q) /\ GoTo(q + 1)
     \/ None({"close"}, linebufp + 1) /\ EndLine(TRUE, FALSE)

\* A quote that is preceded by a backslash or stands between apostrophes is a quote too.
Quotes == {"quote", "hidden"}

\* Mutant: a string is not skipped.
StringScanned == At(Quotes) /\ GoTo(linebufp + 1)

String ==
  /\ At(Quotes)
  /\ \/ \E q \in linebufp+1..Len(linebuf) : First(Quotes, linebufp + 1, q) /\ GoTo(q + 1)
     \/ None(Quotes, linebufp + 1) /\ EndLine(FALSE, FALSE)

\* Mutant: the head stays where it is.
OtherTokenStays == At({"close", "lp", "blank", "comma", "rp", "other"}) /\ GoTo(linebufp)
OtherToken == At({"close", "lp", "blank", "comma", "rp", "other"}) /\ GoTo(linebufp + 1)

Names == {"sym", "char"}

PlainSymbol ==
  /\ At(Names)
  /\ IF Here.n \in LongSymbols THEN Stop("symbol") ELSE ~Defined(Here.n) /\ GoTo(linebufp + 1)

\* toks in the place of tok: between its apostrophes, where the compiler ends no string.
InPlaceOf(tok, toks) ==
  IF tok.t = "sym" THEN toks
  ELSE <<Mark("other")>>
         \o [p \in 1..Len(toks) |-> IF toks[p].t = "quote" THEN Mark("hidden") ELSE toks[p]]
         \o <<Mark("other")>>

Spliced(toks, q) == SubSeq(linebuf, 1, linebufp - 1) \o toks \o SubSeq(linebuf, q, Len(linebuf))

\* Mutant: the head stays behind the text that was put in.
PutBehind(toks, q) ==
  /\ linebuf' = Spliced(toks, q) /\ linebufp' = linebufp + Len(toks)
  /\ err' = IF Len(linebuf') > MAX_LINE THEN "overrun" ELSE "none"
  /\ UNCHANGED <<text, inc_data, line_numb, define_data, in_comment_flag, pc, out>>

\* linebuf from linebufp up to q is replaced, and what is put there is scanned again.
\* What does not fit is written over str, where the text is read from; what the line is
\* then is not followed.
Put(toks, q) ==
  /\ linebuf' = Spliced(toks, q)
  /\ err' = IF Len(linebuf') > MAX_LINE THEN "overrun" ELSE "none"
  /\ UNCHANGED <<text, inc_data, line_numb, linebufp, define_data, in_comment_flag, pc, out>>

\* A symbol that was defined without parameters, or is used without "(".
IsCall(d) ==
  /\ d.params # <<>> /\ Here.t = "sym"
  /\ linebufp < Len(linebuf) /\ linebuf[linebufp + 1].t = "lp"

Replace ==
  /\ At(Names)
  /\ \E k \in DOMAIN define_data :
       /\ define_data[k].name = Here.n /\ ~IsCall(define_data[k])
       /\ Put(InPlaceOf(Here, define_data[k].text), linebufp + 1)

\* The arguments of a call that ends at c, the first ")": between "(", commas and ")".
Arguments(c) ==
  LET args[q \in 0..c-linebufp-2] ==
        IF q = 0 THEN <<<<>>>>
        ELSE LET tok == linebuf[linebufp + 1 + q]
                 read == args[q-1]
             IN IF tok.t = "comma" THEN Append(read, <<>>)
                ELSE [read EXCEPT ![Len(read)] = Append(@, tok)]
  IN args[c-linebufp-2]

\* One argument is put in for one parameter.
PutIn(toks, param, arg) ==
  LET new[k \in 0..Len(toks)] ==
        IF k = 0 THEN <<>>
        ELSE new[k-1] \o IF toks[k].t \in Names /\ toks[k].n = param
                           THEN InPlaceOf(toks[k], arg) ELSE <<toks[k]>>
  IN new[Len(toks)]

\* What is in str when the parameters up to k have been replaced, one after the other,
\* each in what the one before has left; parameters without an argument stay.
Substitution(d, args) ==
  LET new[k \in 0..Len(d.params)] ==
        IF k = 0 THEN d.text
        ELSE IF k <= Len(args) THEN PutIn(new[k-1], d.params[k], args[k]) ELSE new[k-1]
  IN new
Substituted(d, args) == Substitution(d, args)[Len(d.params)]

\* More arguments than parameters are refused, but for an empty one behind the last; and
\* an argument that get_bun does not read to its end.
TooMany(d, args) ==
  \/ Len(args) > Len(d.params) + 1
  \/ Len(args) = Len(d.params) + 1 /\ Last(args) # <<>>
  \/ \E k \in DOMAIN args : Len(args[k]) > MAX_SYMBUF

\* The replacement of parameters fails: str is too small, or a symbol too long.
StrOverrun(d, args) == \E k \in 0..Len(d.params) : Len(Substitution(d, args)[k]) > MAX_LINE
LongSymbol(d, args) ==
  \E k \in DOMAIN d.params : k <= Len(args) /\
    \E p \in DOMAIN Substitution(d, args)[k-1] :
      Substitution(d, args)[k-1][p].n \in LongSymbols

\* The call that begins here and ends at c.  It stops at the first of the errors it
\* comes to, here at any of them.
Failures(d, args) ==
  {e \in {"overrun", "symbol", "param"} :
     \/ e = "overrun" /\ StrOverrun(d, args)
     \/ e = "symbol" /\ LongSymbol(d, args)
     \/ e = "param" /\ TooMany(d, args)}
ReplaceUpTo(d, c) ==
  \/ \E e \in Failures(d, Arguments(c)) : Stop(e)
  \/ Failures(d, Arguments(c)) = {} /\ Put(Substituted(d, Arguments(c)), c + 1)

\* If there is no ")", the arguments are looked for behind the end of the line, in what
\* longer lines have left there.
ReplaceCall ==
  /\ At({"sym"})
  /\ \E k \in DOMAIN define_data :
       /\ define_data[k].name = Here.n /\ IsCall(define_data[k])
       /\ \/ None({"rp"}, linebufp + 2) /\ \E e \in {"param", "undefined"} : Stop(e)
          \/ \E c \in linebufp+2..Len(linebuf) :
               First({"rp"}, linebufp + 2, c) /\ ReplaceUpTo(define_data[k], c)

------------------------------------------------------------------------------
\* The specification

Init ==
  /\ text \in Contents
  /\ inc_data = <<[name |-> Main, read |-> 0, line_numb |-> 0]>>
  /\ line_numb = 0
  /\ linebuf = <<>> /\ linebufp = 1
  /\ define_data = <<>>
  /\ in_comment_flag = FALSE
  /\ pc = "read"
  /\ out = <<Marker(Main)>>
  /\ err = "none"

Next ==
  \/ NextLine \/ EndOfFile \/ EndComment \/ Astray
  \/ Include \/ Define \/ OtherDirective
  \/ LineDone \/ OpenComment \/ String \/ OtherToken
  \/ PlainSymbol \/ Replace \/ ReplaceCall

Spec == Init /\ [][Next]_vars /\ WF_vars(Next)

------------------------------------------------------------------------------
\* Properties

\* The files that are open exist and are read at most to their ends, the tables stay in
\* their room, and no name is defined twice.  The line being scanned fits linebuf until a
\* replacement overruns it (236), and the head is in the line until a line of a comment
\* has no end of the comment (464).
PrepTypeOK ==
  /\ DOMAIN text = Files
  /\ Len(inc_data) \in 1..MAX_INFILE
  /\ \A k \in DOMAIN inc_data :
       /\ inc_data[k].name \in Files
       /\ inc_data[k].read \in 0..Len(text[inc_data[k].name])
       /\ inc_data[k].line_numb \in 0..inc_data[k].read
  /\ line_numb \in Nat
  /\ Len(linebuf) <= MAX_LINE \/ (err = "overrun" /\ pc = "normal")
  /\ linebufp \in 1..Len(linebuf)+2
  /\ linebufp = Len(linebuf) + 2 => pc \in {"astray", "read", "done"} /\ None({"close"}, 1)
  /\ Len(define_data) <= MAX_DEFINE
  /\ \A k \in DOMAIN define_data, l \in DOMAIN define_data :
       define_data[k].name = define_data[l].name => k = l
  /\ \A k \in DOMAIN define_data : Len(define_data[k].params) <= MAX_PARAMETER
  /\ in_comment_flag \in BOOLEAN
  /\ pc \in {"read", "comment", "astray", "normal", "include", "define", "directive", "done"}
  /\ err \in {"none", "syntax", "memory", "file", "multiple", "symbol", "param", "overrun",
              "undefined"}

\* Marker m is the last one up to k.
LastMarker(lines, m, k) == lines[m].numb = 0 /\ \A l \in m+1..k : lines[l].numb # 0

\* Each line carries the number it has in the file the last marker before it names,
\* also after files that were included, however deep and however often.
LinesInPlace ==
  \A k \in DOMAIN out :
    out[k].numb # 0 =>
      /\ out[k].numb = out[k].at
      /\ \E m \in 1..k : LastMarker(out, m, k) /\ out[m].file = out[k].file

\* The text of definition k has the name of definition l.
Mentions(k, l) ==
  \E p \in DOMAIN define_data[k].text :
    define_data[k].text[p].t \in Names /\ define_data[k].text[p].n = define_data[l].name

\* Some definitions mention each other in a circle.
Circular ==
  \E S \in SUBSET DOMAIN define_data : S # {} /\ \A k \in S : \E l \in S : Mentions(k, l)

\* Definition k has parameters, or comes to mention one that has.
LeadsToCall(k) ==
  \A S \in SUBSET DOMAIN define_data :
    k \in S /\ (\A l \in S, m \in DOMAIN define_data : Mentions(l, m) => m \in S)
      => \E l \in S : define_data[l].params # <<>>

\* Such a definition is an argument, or part of one.
HandsOn(toks) ==
  \E p \in DOMAIN toks, k \in DOMAIN define_data :
    toks[p].t \in Names /\ toks[p].n = define_data[k].name /\ LeadsToCall(k)

\* The call at the head has such an argument: with F(p) defined as p(p), F(F) is replaced
\* by itself for ever (in C, once).
CallHandsOn ==
  /\ At({"sym"})
  /\ \E k \in DOMAIN define_data, c \in linebufp+2..Len(linebuf) :
       /\ define_data[k].name = Here.n /\ IsCall(define_data[k]) /\ First({"rp"}, linebufp + 2, c)
       /\ HandsOn(SubSeq(linebuf, linebufp + 2, c - 1))

\* prep comes to an end, unless definitions mention each other in a circle or a call has
\* an argument that leads to another call.
Terminates == <>(pc = "done" \/ err # "none" \/ Circular \/ CallHandsOn)
==============================================================================
