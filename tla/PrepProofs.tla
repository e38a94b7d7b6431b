------------------------------ MODULE PrepProofs -------------------------------
(***************************************************************************)
(* Whatever the files hold and however they include one another, prep      *)
(* stays inside its tables and its line, prints the right numbers and      *)
(* markers, takes for comments what the compiler takes for them, and       *)
(* leaves out no line.                                                     *)
(***************************************************************************)
EXTENDS PrepInclusion, NatExtremes, SequenceTheorems, TLAPS

------------------------------------------------------------------------------
\* The invariant

IncData == [name : Files, read : Nat, line_numb : Nat]

\* The stack of files; below the innermost one each keeps the number of the line that
\* includes the next.
StackInv ==
  /\ inc_data \in Seq(IncData) /\ Len(inc_data) > 0
  /\ \A k \in 1..Len(inc_data)-1 : inc_data[k].line_numb = inc_data[k].read

\* line_numb counts what fgets has read of the innermost file; a line that is being
\* processed has been counted.
NumberInv ==
  /\ line_numb \in Nat /\ line_numb = File.read
  /\ pc \notin {"read", "done"} => line_numb > 0

\* The last marker of the output names the innermost file.
OutInv ==
  /\ \E S : out \in Seq(S)
  /\ \E m \in 1..Len(out) : LastMarker(out, m, Len(out)) /\ out[m].file = File.name

Inv == StackInv /\ NumberInv /\ OutInv /\ LinesInPlace

------------------------------------------------------------------------------
\* Lemmas

\* One more entry: what was there stays.
LEMMA Appended ==
  ASSUME NEW S, NEW s \in Seq(S), NEW x
  PROVE  /\ Append(s, x) \in Seq(S \cup {x})
         /\ Len(Append(s, x)) = Len(s) + 1 /\ Len(s) \in Nat
         /\ Append(s, x)[Len(s) + 1] = x
         /\ \A k \in 1..Len(s) : Append(s, x)[k] = s[k]
<1> DEFINE T == S \cup {x}
<1>1. s \in Seq(T) /\ x \in T
  BY SeqMonotonic
<1> HIDE DEF T
<1>2. /\ Append(s, x) \in Seq(T)
      /\ Len(Append(s, x)) = Len(s) + 1 /\ Len(s) \in Nat
      /\ Append(s, x)[Len(s) + 1] = x
      /\ \A k \in 1..Len(s) : Append(s, x)[k] = s[k]
  BY <1>1, AppendProperties, LenProperties
<1> QED BY <1>2 DEF T

\* The stack without its last entry.
LEMMA Popped ==
  ASSUME NEW S, NEW s \in Seq(S), Len(s) > 1
  PROVE  /\ Front(s) \in Seq(S) /\ Len(Front(s)) = Len(s) - 1
         /\ \A k \in 1..Len(s)-1 : Front(s)[k] = s[k]
BY SubSeqProperties, LenProperties DEF Front

\* An entry with the right number and file is appended: the lines stay in place.
\* The marker before it is itself, or the last one there was.
LEMMA Printed ==
  ASSUME NEW S, out \in Seq(S), NEW e, out' = Append(out, e), LinesInPlace,
         \/ e.numb = 0
         \/ /\ e.numb # 0 /\ e.numb = e.at
            /\ \E m \in 1..Len(out) : LastMarker(out, m, Len(out)) /\ out[m].file = e.file
  PROVE  /\ \E T : out' \in Seq(T)
         /\ \E m \in 1..Len(out') : LastMarker(out', m, Len(out')) /\ out'[m].file = e.file
         /\ LinesInPlace'
<1>1. /\ out' \in Seq(S \cup {e})
      /\ Len(out') = Len(out) + 1 /\ Len(out) \in Nat
      /\ out'[Len(out) + 1] = e
      /\ \A k \in 1..Len(out) : out'[k] = out[k]
  BY Appended
<1>2. DOMAIN out = 1..Len(out) /\ DOMAIN out' = 1..Len(out')
  BY <1>1, LenProperties
<1>3. \E m \in 1..Len(out') : LastMarker(out', m, Len(out')) /\ out'[m].file = e.file
  <2>1. CASE e.numb = 0
    <3>1. Len(out) + 1 \in 1..Len(out') /\ (Len(out)+1)+1..Len(out') = {}
      BY <1>1
    <3> QED BY <1>1, <2>1, <3>1 DEF LastMarker
  <2>2. CASE e.numb # 0
    <3>1. PICK m \in 1..Len(out) : LastMarker(out, m, Len(out)) /\ out[m].file = e.file
      BY <2>2
    <3>2. m \in 1..Len(out') /\ out'[m] = out[m]
      BY <1>1
    <3>3. ASSUME NEW l \in m+1..Len(out') PROVE out'[l].numb # 0
      <4>1. l \in m+1..Len(out) \/ l = Len(out) + 1
        BY <1>1
      <4> QED BY <1>1, <2>2, <3>1, <4>1 DEF LastMarker
    <3> QED BY <3>1, <3>2, <3>3 DEF LastMarker
  <2> QED BY <2>1, <2>2
<1>4. ASSUME NEW k \in DOMAIN out', out'[k].numb # 0
      PROVE  /\ out'[k].numb = out'[k].at
             /\ \E m \in 1..k : LastMarker(out', m, k) /\ out'[m].file = out'[k].file
  <2>1. CASE k = Len(out) + 1
    <3>1. out'[k] = e /\ k = Len(out')
      BY <1>1, <2>1
    <3> QED BY <1>3, <1>4, <3>1
  <2>2. CASE k # Len(out) + 1
    <3>1. k \in 1..Len(out) /\ out'[k] = out[k]
      BY <1>1, <1>2, <2>2
    <3>2. PICK m \in 1..k : LastMarker(out, m, k) /\ out[m].file = out[k].file
      BY <1>2, <1>4, <3>1 DEF LinesInPlace
    <3>3. out[k].numb = out[k].at
      BY <1>2, <1>4, <3>1 DEF LinesInPlace
    <3>4. out'[m] = out[m] /\ \A l \in m+1..k : out'[l] = out[l]
      BY <1>1, <3>1
    <3> QED BY <3>1, <3>2, <3>3, <3>4 DEF LastMarker
  <2> QED BY <2>1, <2>2
<1> QED BY <1>1, <1>3, <1>4 DEF LinesInPlace

------------------------------------------------------------------------------
\* The steps

\* The first file is open, its marker printed.
LEMMA InitInv == Init => Inv
<1> SUFFICES ASSUME Init PROVE Inv
  OBVIOUS
<1> DEFINE first == [name |-> Main, read |-> 0, line_numb |-> 0]
<1>1. first \in IncData /\ inc_data = <<first>> /\ out = <<Marker(Main)>>
  BY FilesAssumption DEF Init, IncData
<1>2. StackInv
  <2> HIDE DEF first
  <2>1. inc_data \in Seq(IncData) /\ Len(inc_data) = 1
    BY <1>1
  <2>2. 1..Len(inc_data)-1 = {} /\ Len(inc_data) > 0
    BY <2>1
  <2> QED BY <2>1, <2>2 DEF StackInv
<1>3. NumberInv
  BY <1>1 DEF Init, NumberInv, File
<1>4. out \in Seq({Marker(Main)}) /\ Len(out) = 1 /\ out[1] = Marker(Main)
  BY <1>1
<1>5. Marker(Main).numb = 0 /\ Marker(Main).file = Main /\ File.name = Main
  BY <1>1 DEF Marker, File
<1>6. OutInv
  BY <1>4, <1>5 DEF OutInv, LastMarker
<1>7. LinesInPlace
  BY <1>4, <1>5 DEF LinesInPlace
<1> QED BY <1>2, <1>3, <1>6, <1>7 DEF Inv

\* What touches neither the files nor the output.
LEMMA QuietInv ==
  ASSUME Inv, UNCHANGED <<inc_data, line_numb, out>>,
         pc' \in {"read", "done"} \/ pc \notin {"read", "done"}
  PROVE  Inv'
<1>1. StackInv' /\ LinesInPlace'
  BY DEF Inv, StackInv, LinesInPlace
<1>2. NumberInv' /\ OutInv'
  BY DEF Inv, NumberInv, OutInv, File
<1> QED BY <1>1, <1>2 DEF Inv

\* A line is printed.
LEMMA EndLineInv ==
  ASSUME Inv, NEW flag, NEW astray, EndLine(flag, astray), pc \notin {"read", "done"}
  PROVE  Inv'
<1> DEFINE e == Numbered(astray)
<1>1. e.numb = line_numb /\ e.at = File.read /\ e.file = File.name
  BY DEF Numbered
<1>2. e.numb # 0 /\ e.numb = e.at
  BY <1>1 DEF Inv, NumberInv
<1>3. out' = Append(out, e) /\ UNCHANGED <<inc_data, line_numb>> /\ pc' = "read"
  BY DEF EndLine
<1>4. PICK S : out \in Seq(S)
  BY DEF Inv, OutInv
<1>5. \E m \in 1..Len(out) : LastMarker(out, m, Len(out)) /\ out[m].file = e.file
  BY <1>1 DEF Inv, OutInv
<1> HIDE DEF e
<1>6. /\ \E T : out' \in Seq(T)
      /\ \E m \in 1..Len(out') : LastMarker(out', m, Len(out')) /\ out'[m].file = e.file
      /\ LinesInPlace'
  BY <1>2, <1>3, <1>4, <1>5, Printed DEF Inv
<1>7. StackInv' /\ NumberInv' /\ File' = File
  BY <1>3 DEF Inv, StackInv, NumberInv, File
<1> QED BY <1>1, <1>6, <1>7 DEF Inv, OutInv

\* A marker is printed that names the file which is the innermost one from now on.
LEMMA MarkerInv ==
  ASSUME Inv, out' = Append(out, Marker(File'.name))
  PROVE  OutInv' /\ LinesInPlace'
<1> DEFINE e == Marker(File'.name)
<1>1. e.numb = 0 /\ e.file = File'.name
  BY DEF Marker
<1>2. PICK S : out \in Seq(S)
  BY DEF Inv, OutInv
<1> HIDE DEF e
<1>3. out' = Append(out, e)
  BY DEF e
<1> QED BY <1>1, <1>2, <1>3, Printed DEF Inv, OutInv

\* One more line is read and counted.
LEMMA NextLineInv == Inv /\ NextLine => Inv'
<1> SUFFICES ASSUME Inv, NextLine PROVE Inv'
  OBVIOUS
<1> DEFINE n == Len(inc_data)
<1>1. n \in Nat /\ n > 0 /\ inc_data \in Seq(IncData) /\ inc_data[n] \in IncData
  BY ElementOfSeq, LenProperties DEF Inv, StackInv
<1> DEFINE f == [inc_data[n] EXCEPT !.read = @ + 1]
<1>2. f \in IncData /\ f.name = inc_data[n].name /\ f.read = inc_data[n].read + 1
  BY <1>1 DEF IncData
<1>3. inc_data' = [inc_data EXCEPT ![n] = f] /\ line_numb' = line_numb + 1 /\ out' = out
  BY DEF NextLine
<1>4. /\ inc_data' \in Seq(IncData) /\ Len(inc_data') = n
      /\ inc_data'[n] = f
      /\ \A k \in 1..n-1 : inc_data'[k] = inc_data[k]
  <2> HIDE DEF f
  <2>1. n \in 1..n
    BY <1>1
  <2> QED BY <1>1, <1>2, <1>3, <2>1, ExceptSeq
<1>5. File = inc_data[n] /\ File' = f
  BY <1>4 DEF File
<1>6. StackInv'
  BY <1>1, <1>4 DEF Inv, StackInv
<1>7. NumberInv'
  BY <1>1, <1>2, <1>3, <1>5 DEF Inv, NumberInv, IncData
<1>8. OutInv' /\ LinesInPlace'
  <2>1. File'.name = File.name
    BY <1>2, <1>5
  <2> QED BY <1>3, <2>1 DEF Inv, OutInv, LinesInPlace
<1> QED BY <1>6, <1>7, <1>8 DEF Inv

\* A file is opened: the one that includes it keeps its line number.
LEMMA IncludeInv == Inv /\ Include => Inv'
<1> SUFFICES ASSUME Inv, Include PROVE Inv'
  OBVIOUS
<1>1. CASE UNCHANGED <<inc_data, line_numb, out, pc>>
  BY <1>1, QuietInv DEF Include, Running
<1>2. CASE ~UNCHANGED <<inc_data, line_numb, out, pc>>
  <2> DEFINE n == Len(inc_data)
             keep == [inc_data[n] EXCEPT !.line_numb = line_numb]
             stack == [inc_data EXCEPT ![n] = keep]
             new == [name |-> Line.name, read |-> 0, line_numb |-> 0]
  <2>1. /\ Line.name \in Files /\ inc_data' = Append(stack, new) /\ line_numb' = 0
        /\ out' = Append(out, Marker(Line.name)) /\ pc' = "read"
    BY <1>2 DEF Include, Stop
  <2>2. n \in Nat /\ n > 0 /\ inc_data \in Seq(IncData) /\ inc_data[n] \in IncData
    BY ElementOfSeq, LenProperties DEF Inv, StackInv
  <2>3. File = inc_data[n]
    BY DEF File
  <2>4. new \in IncData /\ keep \in IncData /\ keep.line_numb = keep.read
    BY <2>1, <2>2, <2>3 DEF IncData, Inv, NumberInv
  <2>5. new.name = Line.name /\ new.read = 0
    OBVIOUS
  <2> HIDE DEF new, keep
  <2>6. /\ stack \in Seq(IncData) /\ Len(stack) = n /\ stack[n] = keep
        /\ \A k \in 1..n-1 : stack[k] = inc_data[k]
    <3>1. n \in 1..n
      BY <2>2
    <3> QED BY <2>2, <2>4, <3>1, ExceptSeq
  <2> HIDE DEF stack
  <2>7. /\ inc_data' \in Seq(IncData) /\ Len(inc_data') = n + 1 /\ inc_data'[n + 1] = new
        /\ \A k \in 1..n : inc_data'[k] = stack[k]
    BY <2>1, <2>4, <2>6, AppendProperties
  <2>8. StackInv'
    <3>1. ASSUME NEW k \in 1..Len(inc_data')-1 PROVE inc_data'[k].line_numb = inc_data'[k].read
      <4>1. k = n \/ k \in 1..n-1
        BY <2>2, <2>7
      <4>2. k \in 1..n
        BY <2>2, <2>7
      <4> QED BY <2>4, <2>6, <2>7, <4>1, <4>2 DEF Inv, StackInv
    <3>2. Len(inc_data') > 0
      BY <2>2, <2>7
    <3> QED BY <2>7, <3>1, <3>2 DEF StackInv
  <2>9. File' = new
    BY <2>2, <2>7 DEF File
  <2>10. NumberInv'
    BY <2>1, <2>5, <2>9 DEF NumberInv
  <2>11. OutInv' /\ LinesInPlace'
    BY <2>1, <2>5, <2>9, MarkerInv
  <2> QED BY <2>8, <2>10, <2>11 DEF Inv
<1> QED BY <1>1, <1>2

\* A file ends: the one below it goes on where it was, with its number.
LEMMA EndOfFileInv == Inv /\ EndOfFile => Inv'
<1> SUFFICES ASSUME Inv, EndOfFile PROVE Inv'
  OBVIOUS
<1> DEFINE n == Len(inc_data)
<1>1. n \in Nat /\ n > 0 /\ inc_data \in Seq(IncData)
  BY LenProperties DEF Inv, StackInv
<1>2. CASE n = 1
  BY <1>2, QuietInv DEF EndOfFile
<1>3. CASE n # 1
  <2>1. /\ inc_data' = Front(inc_data) /\ line_numb' = inc_data[n - 1].line_numb
        /\ out' = Append(out, Marker(inc_data[n - 1].name)) /\ pc' = "read"
    BY <1>3 DEF EndOfFile, Running
  <2>2. n > 1
    <3> HIDE DEF n
    <3> QED BY <1>1, <1>3
  <2>3. /\ inc_data' \in Seq(IncData) /\ Len(inc_data') = n - 1
        /\ \A k \in 1..n-1 : inc_data'[k] = inc_data[k]
    BY <1>1, <2>1, <2>2, Popped
  <2> HIDE DEF n
  <2>4. n - 1 \in 1..n-1 /\ n - 1 \in 1..n
    BY <1>1, <2>2
  <2>5. inc_data[n - 1] \in IncData /\ inc_data[n - 1].line_numb = inc_data[n - 1].read
    BY <1>1, <2>4, ElementOfSeq DEF Inv, StackInv, n
  <2>6. File' = inc_data[n - 1]
    BY <2>3, <2>4 DEF File
  <2>7. StackInv'
    <3>1. ASSUME NEW k \in 1..(n-1)-1 PROVE inc_data'[k].line_numb = inc_data'[k].read
      <4>1. k \in 1..n-1
        BY <1>1
      <4> QED BY <2>3, <4>1 DEF Inv, StackInv, n
    <3>2. n - 1 > 0
      BY <1>1, <2>2
    <3> QED BY <2>3, <3>1, <3>2 DEF StackInv
  <2>8. NumberInv'
    BY <2>1, <2>5, <2>6 DEF NumberInv, IncData
  <2>9. OutInv' /\ LinesInPlace'
    BY <2>1, <2>6, MarkerInv
  <2> QED BY <2>7, <2>8, <2>9 DEF Inv
<1> QED BY <1>2, <1>3

------------------------------------------------------------------------------
\* Theorems

\* The invariant holds: one step for each action of Next.
THEOREM PrepInvariant == Spec => []Inv
<1>1. Inv /\ [Next]_vars => Inv'
  <2> SUFFICES ASSUME Inv, [Next]_vars PROVE Inv'
    OBVIOUS
  <2>1. CASE NextLine
    BY <2>1, NextLineInv
  <2>2. CASE EndOfFile
    BY <2>2, EndOfFileInv
  <2>3. CASE EndComment
    <3>1. UNCHANGED <<inc_data, line_numb, out>> /\ pc = "comment"
      BY <2>3 DEF EndComment, GoTo, Running
    <3> QED BY <3>1, QuietInv
  <2>4. CASE Include
    BY <2>4, IncludeInv
  <2>5. CASE Define
    <3>1. UNCHANGED <<inc_data, line_numb, out>> /\ pc = "define"
      BY <2>5, Zenon DEF Define, Enter, Running, Stop
    <3> QED BY <3>1, QuietInv
  <2>6. CASE OtherDirective
    BY <2>6, QuietInv DEF OtherDirective, Running, Stop
  <2>7. CASE LineDone
    BY <2>7, EndLineInv DEF LineDone, Running
  <2>8. CASE OpenComment
    BY <2>8, EndLineInv, QuietInv DEF OpenComment, At, Running, GoTo
  <2>9. CASE String
    BY <2>9, EndLineInv, QuietInv DEF String, At, Running, GoTo
  <2>10. CASE OtherToken
    BY <2>10, QuietInv DEF OtherToken, At, Running, GoTo
  <2>11. CASE PlainSymbol
    BY <2>11, QuietInv DEF PlainSymbol, At, Running, GoTo, Stop
  <2>12. ASSUME NEW toks, NEW q, Put(toks, q), pc = "normal" PROVE Inv'
    <3>1. UNCHANGED <<inc_data, line_numb, out>>
      BY <2>12, Zenon DEF Put
    <3> QED BY <2>12, <3>1, QuietInv
  <2>13. CASE Replace
    BY <2>12, <2>13 DEF Replace, At, Running
  <2>14. CASE ReplaceCall
    <3>1. pc = "normal"
      BY <2>14 DEF ReplaceCall, At, Running
    <3>2. ASSUME NEW e, Stop(e) PROVE Inv'
      BY <3>1, <3>2, QuietInv DEF Stop
    <3> QED BY <2>12, <2>14, <3>1, <3>2, Zenon DEF ReplaceCall, ReplaceUpTo
  <2>15. CASE Astray
    <3>1. pc = "astray"
      BY <2>15 DEF Astray, Running
    <3>2. ASSUME Stop("undefined") PROVE Inv'
      BY <3>1, <3>2, QuietInv DEF Stop
    <3> QED BY <2>15, <3>1, <3>2, EndLineInv DEF Astray
  <2>16. CASE UNCHANGED vars
    BY <2>16, QuietInv DEF vars
  <2> QED BY <2>1, <2>2, <2>3, <2>4, <2>5, <2>6, <2>7, <2>8, <2>9, <2>10, <2>11, <2>13,
             <2>14, <2>15, <2>16 DEF Next
<1> QED BY InitInv, <1>1, PTL DEF Spec

\* Whatever the files hold and however they include one another, each printed line has
\* the number it has in the file that the last marker names.
THEOREM NumbersAreRight == Spec => []LinesInPlace
<1>1. Inv => LinesInPlace
  BY DEF Inv
<1> QED BY <1>1, PrepInvariant, PTL

------------------------------------------------------------------------------
\* What the compiler takes the text for

States == {"code", "comment", "string", "line"}

\* It is always one of the four.
LEMMA AfterTokenProp ==
  ASSUME NEW at \in States, NEW tok
  PROVE  AfterToken(at, tok) \in States
BY DEF AfterToken, States

\* What each token makes of it.
Tokenwise(toks, p) == [k \in 1..p |-> [x \in States |-> AfterToken(x, toks[k])]]

\* The scan of a line is an iteration.
LEMMA ScanIterates ==
  ASSUME NEW at \in States, NEW toks, NEW p \in Nat
  PROVE  \E f : f[p] = Scan(at, toks, p) /\ Iterates(f, p, States, at, Tokenwise(toks, p))
<1> DEFINE step == Tokenwise(toks, p)
           F(f) == f = [k \in 0..p |-> IF k = 0 THEN at ELSE AfterToken(f[k-1], toks[k])]
           f == CHOOSE x : F(x)
<1>1. step \in [1..p -> [States -> States]]
  BY AfterTokenProp DEF Tokenwise
<1>2. PICK h : Iterates(h, p, States, at, step)
  <2> HIDE DEF step
  <2> QED BY <1>1, Recursion
<1>3. ASSUME NEW k \in 1..p PROVE h[k-1] \in States /\ h[k] = AfterToken(h[k-1], toks[k])
  <2>1. k - 1 \in 0..p /\ h[k-1] \in States
    BY <1>2 DEF Iterates
  <2>2. h[k] = step[k][h[k-1]]
    BY <1>2 DEF Iterates
  <2> QED BY <2>1, <2>2 DEF Tokenwise
<1>4. F(h)
  BY <1>2, <1>3 DEF Iterates
<1>5. F(f)
  <2> HIDE DEF F
  <2> QED BY <1>4
<1>6. Scan(at, toks, p) = f[p]
  BY DEF Scan
<1> HIDE DEF f
<1>7. f[0] = at /\ \A k \in 1..p : f[k] = AfterToken(f[k-1], toks[k])
  BY <1>5
<1>8. \A k \in 0..p : f[k] \in States
  <2> DEFINE S == {k \in Nat : f[k] \in States}
  <2>1. 0 \in S
    BY <1>7
  <2>2. \A k \in 1..p : k - 1 \in S => k \in S
    BY <1>7, AfterTokenProp
  <2>3. \A k \in 0..p : k \in S
    <3>1. S \in SUBSET Nat
      OBVIOUS
    <3> HIDE DEF S
    <3> QED BY <2>1, <2>2, <3>1, UpTo
  <2> QED BY <2>3
<1>9. Iterates(f, p, States, at, step)
  <2>1. f \in [0..p -> States]
    BY <1>5, <1>8
  <2>2. ASSUME NEW k \in 1..p PROVE f[k] = step[k][f[k-1]]
    <3>1. k - 1 \in 0..p /\ f[k-1] \in States
      BY <1>8
    <3> QED BY <1>7, <3>1 DEF Tokenwise
  <2> HIDE DEF step
  <2> QED BY <1>7, <2>1, <2>2 DEF Iterates
<1> QED BY <1>6, <1>9

\* At the start, and one token further.
LEMMA ScanNext ==
  ASSUME NEW at \in States, NEW toks, NEW p \in Nat
  PROVE  /\ Scan(at, toks, p) \in States
         /\ p = 0 => Scan(at, toks, p) = at
         /\ Scan(at, toks, p + 1) = AfterToken(Scan(at, toks, p), toks[p + 1])
<1>1. PICK f : f[p] = Scan(at, toks, p) /\ Iterates(f, p, States, at, Tokenwise(toks, p))
  BY ScanIterates
<1>2. PICK q \in Nat : q = p + 1
  OBVIOUS
<1>3. PICK g : g[q] = Scan(at, toks, q) /\ Iterates(g, q, States, at, Tokenwise(toks, q))
  BY ScanIterates
<1>4. f[p] = g[p]
  <2>1. p <= q /\ \A k \in 1..p : Tokenwise(toks, p)[k] = Tokenwise(toks, q)[k]
    BY <1>2 DEF Tokenwise
  <2> QED BY <1>1, <1>3, <2>1, IteratesOnce
<1>5. g[q] = Tokenwise(toks, q)[q][g[p]] /\ g[p] \in States
  BY <1>2, <1>3 DEF Iterates
<1>6. g[q] = AfterToken(g[p], toks[q])
  BY <1>2, <1>5 DEF Tokenwise
<1>7. p = 0 => f[p] = at
  BY <1>1 DEF Iterates
<1> QED BY <1>1, <1>2, <1>3, <1>4, <1>5, <1>6, <1>7

\* Only the tokens up to there count.
LEMMA ScanSame ==
  ASSUME NEW at \in States, NEW toks, NEW new, NEW p \in Nat, \A k \in 1..p : new[k] = toks[k]
  PROVE  Scan(at, new, p) = Scan(at, toks, p)
<1>1. PICK f : f[p] = Scan(at, toks, p) /\ Iterates(f, p, States, at, Tokenwise(toks, p))
  BY ScanIterates
<1>2. PICK g : g[p] = Scan(at, new, p) /\ Iterates(g, p, States, at, Tokenwise(new, p))
  BY ScanIterates
<1>3. p <= p /\ \A k \in 1..p : Tokenwise(toks, p)[k] = Tokenwise(new, p)[k]
  BY DEF Tokenwise
<1> QED BY <1>1, <1>2, <1>3, IteratesOnce

\* AnyTokens that change nothing.
LEMMA ScanAcross ==
  ASSUME NEW at \in States, NEW toks, NEW p \in Nat, NEW q \in Nat, p <= q, NEW x,
         Scan(at, toks, p) = x, \A k \in p+1..q : AfterToken(x, toks[k]) = x
  PROVE  Scan(at, toks, q) = x
<1> DEFINE P == {k \in Nat : k >= p => Scan(at, toks, k) = x}
<1>1. 0 \in P
  <2>1. 0 >= p => p = 0
    OBVIOUS
  <2> QED BY <2>1
<1>2. ASSUME NEW k \in 1..q, k - 1 \in P PROVE k \in P
  <2>1. CASE k <= p
    <3>1. k >= p => k = p
      BY <2>1
    <3> QED BY <3>1
  <2>2. CASE k > p
    <3>1. PICK j \in Nat : j = k - 1
      OBVIOUS
    <3>2. j + 1 = k /\ Scan(at, toks, j) = x /\ k \in p+1..q
      BY <1>2, <2>2, <3>1
    <3>3. Scan(at, toks, j + 1) = AfterToken(Scan(at, toks, j), toks[j + 1])
      BY ScanNext
    <3> QED BY <3>2, <3>3
  <2> QED BY <2>1, <2>2
<1>3. q \in P
  <2>1. P \in SUBSET Nat /\ q \in 0..q
    OBVIOUS
  <2> HIDE DEF P
  <2> QED BY <1>1, <1>2, <2>1, UpTo
<1> QED BY <1>3

\* The lines one after the other: whether the next one begins in a comment.
Starts == {"code", "comment"}
Linewise(lines, n) == [k \in 1..n |-> [x \in Starts |-> AfterLine(x, lines[k].toks)]]

\* A line ends in code or in a comment.
LEMMA AfterLineProp ==
  ASSUME NEW at, NEW toks
  PROVE  AfterLine(at, toks) \in Starts
BY DEF AfterLine, Starts

\* What each line makes of it.
LEMMA BehindIterates ==
  ASSUME NEW lines, NEW n \in Nat
  PROVE  \E f : f[n] = Behind(lines, n) /\ Iterates(f, n, Starts, "code", Linewise(lines, n))
<1> DEFINE step == Linewise(lines, n)
           F(f) == f = [l \in 0..n |-> IF l = 0 THEN "code" ELSE AfterLine(f[l-1], lines[l].toks)]
           f == CHOOSE x : F(x)
<1>1. step \in [1..n -> [Starts -> Starts]]
  BY AfterLineProp DEF Linewise
<1>2. PICK h : Iterates(h, n, Starts, "code", step)
  <2>1. "code" \in Starts
    BY DEF Starts
  <2> HIDE DEF step
  <2> QED BY <1>1, <2>1, Recursion
<1>3. ASSUME NEW k \in 1..n PROVE h[k] = AfterLine(h[k-1], lines[k].toks)
  <2>1. k - 1 \in 0..n /\ h[k-1] \in Starts
    BY <1>2 DEF Iterates
  <2>2. h[k] = step[k][h[k-1]]
    BY <1>2 DEF Iterates
  <2> QED BY <2>1, <2>2 DEF Linewise
<1>4. F(h)
  BY <1>2, <1>3 DEF Iterates
<1>5. F(f)
  <2> HIDE DEF F
  <2> QED BY <1>4
<1>6. Behind(lines, n) = f[n]
  BY DEF Behind
<1> HIDE DEF f
<1>7. f[0] = "code" /\ \A k \in 1..n : f[k] = AfterLine(f[k-1], lines[k].toks)
  BY <1>5
<1>8. \A k \in 0..n : f[k] \in Starts
  <2>1. ASSUME NEW k \in 0..n PROVE f[k] \in Starts
    <3>1. k = 0 \/ k \in 1..n
      OBVIOUS
    <3> QED BY <1>7, <3>1, AfterLineProp DEF Starts
  <2> QED BY <2>1
<1>9. Iterates(f, n, Starts, "code", step)
  <2>1. f \in [0..n -> Starts]
    BY <1>5, <1>8
  <2>2. ASSUME NEW k \in 1..n PROVE f[k] = step[k][f[k-1]]
    <3>1. k - 1 \in 0..n /\ f[k-1] \in Starts
      BY <1>8
    <3> QED BY <1>7, <3>1 DEF Linewise
  <2> HIDE DEF step
  <2> QED BY <1>7, <2>1, <2>2 DEF Iterates
<1> QED BY <1>6, <1>9

\* At the start, and one line further.
LEMMA BehindNext ==
  ASSUME NEW lines, NEW n \in Nat
  PROVE  /\ Behind(lines, n) \in Starts
         /\ n = 0 => Behind(lines, n) = "code"
         /\ Behind(lines, n + 1) = AfterLine(Behind(lines, n), lines[n + 1].toks)
<1>1. PICK f : f[n] = Behind(lines, n) /\ Iterates(f, n, Starts, "code", Linewise(lines, n))
  BY BehindIterates
<1>2. PICK m \in Nat : m = n + 1
  OBVIOUS
<1>3. PICK g : g[m] = Behind(lines, m) /\ Iterates(g, m, Starts, "code", Linewise(lines, m))
  BY BehindIterates
<1>4. f[n] = g[n]
  <2>1. n <= m /\ \A k \in 1..n : Linewise(lines, n)[k] = Linewise(lines, m)[k]
    BY <1>2 DEF Linewise
  <2> QED BY <1>1, <1>3, <2>1, IteratesOnce
<1>5. g[m] = Linewise(lines, m)[m][g[n]] /\ g[n] \in Starts
  BY <1>2, <1>3 DEF Iterates
<1>6. g[m] = AfterLine(g[n], lines[m].toks)
  BY <1>2, <1>5 DEF Linewise
<1>7. n = 0 => f[n] = "code"
  BY <1>1 DEF Iterates
<1> QED BY <1>1, <1>2, <1>3, <1>4, <1>5, <1>6, <1>7

\* Only the lines up to there count.
LEMMA BehindSame ==
  ASSUME NEW lines, NEW new, NEW n \in Nat, \A k \in 1..n : new[k] = lines[k]
  PROVE  Behind(new, n) = Behind(lines, n)
<1>1. PICK f : f[n] = Behind(lines, n) /\ Iterates(f, n, Starts, "code", Linewise(lines, n))
  BY BehindIterates
<1>2. PICK g : g[n] = Behind(new, n) /\ Iterates(g, n, Starts, "code", Linewise(new, n))
  BY BehindIterates
<1>3. n <= n /\ \A k \in 1..n : Linewise(lines, n)[k] = Linewise(new, n)[k]
  BY DEF Linewise
<1> QED BY <1>1, <1>2, <1>3, IteratesOnce

------------------------------------------------------------------------------
\* What is put in for a symbol

\* The tokens of a line, and those that a replacement adds.
AnyTokens == Tokens \cup {Mark(k) : k \in {"other", "hidden", "comma", "rp"}}
Texts == Seq(AnyTokens)

\* What is put in the place of a token are tokens.
LEMMA InPlaceOfProp ==
  ASSUME NEW tok, NEW toks \in Texts
  PROVE  InPlaceOf(tok, toks) \in Texts
<1> DEFINE inner == [p \in 1..Len(toks) |->
                       IF toks[p].t = "quote" THEN Mark("hidden") ELSE toks[p]]
           edge == <<Mark("other")>>
<1>1. Mark("hidden") \in AnyTokens /\ Mark("other") \in AnyTokens
  BY DEF AnyTokens
<1>2. inner \in Seq(AnyTokens)
  <2>1. ASSUME NEW p \in 1..Len(toks) PROVE toks[p] \in AnyTokens
    BY ElementOfSeq DEF Texts
  <2>2. Len(toks) \in Nat
    BY LenProperties DEF Texts
  <2>3. inner \in [1..Len(toks) -> AnyTokens]
    BY <1>1, <2>1
  <2> QED BY <2>2, <2>3
<1>3. edge \in Seq(AnyTokens)
  BY <1>1
<1> HIDE DEF inner, edge
<1>4. edge \o inner \o edge \in Seq(AnyTokens)
  BY <1>2, <1>3, ConcatProperties
<1>5. InPlaceOf(tok, toks) = IF tok.t = "sym" THEN toks ELSE edge \o inner \o edge
  BY DEF InPlaceOf, inner, edge
<1> QED BY <1>4, <1>5 DEF Texts

\* An argument for a parameter: the text stays one of tokens.
LEMMA PutInProp ==
  ASSUME NEW toks \in Texts, NEW param, NEW arg \in Texts
  PROVE  PutIn(toks, param, arg) \in Texts
<1> DEFINE n == Len(toks)
           Next_(x, k) == x \o IF toks[k].t \in Names /\ toks[k].n = param
                                 THEN InPlaceOf(toks[k], arg) ELSE <<toks[k]>>
           step == [k \in 1..n |-> [x \in Texts |-> Next_(x, k)]]
           F(f) == f = [k \in 0..n |-> IF k = 0 THEN <<>> ELSE Next_(f[k-1], k)]
           f == CHOOSE x : F(x)
<1>0. n \in Nat /\ <<>> \in Texts
  BY DEF Texts
<1>1. ASSUME NEW x \in Texts, NEW k \in 1..n PROVE Next_(x, k) \in Texts
  <2>1. toks[k] \in AnyTokens
    BY DEF Texts
  <2>2. InPlaceOf(toks[k], arg) \in Texts /\ <<toks[k]>> \in Texts
    BY <2>1, InPlaceOfProp DEF Texts
  <2> QED BY <2>2, ConcatProperties DEF Texts
<1> HIDE DEF Next_
<1>2. PICK h : Iterates(h, n, Texts, <<>>, step)
  <2>1. step \in [1..n -> [Texts -> Texts]]
    BY <1>1
  <2> HIDE DEF step, n
  <2> QED BY <1>0, <2>1, Recursion
<1>3. ASSUME NEW k \in 1..n PROVE h[k] = Next_(h[k-1], k)
  <2>1. k - 1 \in 0..n /\ h[k-1] \in Texts
    BY <1>2 DEF Iterates
  <2>2. h[k] = step[k][h[k-1]]
    BY <1>2 DEF Iterates
  <2> QED BY <2>1, <2>2
<1>4. F(h)
  BY <1>2, <1>3 DEF Iterates
<1>5. F(f)
  <2> HIDE DEF F
  <2> QED BY <1>4
<1>6. PutIn(toks, param, arg) = f[n]
  BY DEF PutIn, Next_
<1> HIDE DEF f
<1>7. f[0] = <<>> /\ \A k \in 1..n : f[k] = Next_(f[k-1], k)
  BY <1>0, <1>5
<1> DEFINE P == {k \in Nat : f[k] \in Texts}
<1>8. n \in P
  <2>1. 0 \in P /\ P \in SUBSET Nat /\ n \in 0..n
    BY <1>0, <1>7
  <2>2. \A k \in 1..n : k - 1 \in P => k \in P
    BY <1>1, <1>7
  <2> HIDE DEF P, n
  <2> QED BY <1>0, <2>1, <2>2, UpTo
<1> QED BY <1>6, <1>8

\* One after the other.
LEMMA SubstitutedProp ==
  ASSUME NEW d, d.text \in Texts, NEW N, d.params \in Seq(N), NEW args \in Seq(Texts)
  PROVE  Substituted(d, args) \in Texts
<1> DEFINE n == Len(d.params)
           Next_(x, k) == IF k <= Len(args) THEN PutIn(x, d.params[k], args[k]) ELSE x
           step == [k \in 1..n |-> [x \in Texts |-> Next_(x, k)]]
           F(f) == f = [k \in 0..n |-> IF k = 0 THEN d.text ELSE Next_(f[k-1], k)]
           f == CHOOSE x : F(x)
<1>0. n \in Nat
  OBVIOUS
<1>1. ASSUME NEW x \in Texts, NEW k \in 1..n PROVE Next_(x, k) \in Texts
  <2>1. k <= Len(args) => args[k] \in Texts
    OBVIOUS
  <2> QED BY <2>1, PutInProp
<1> HIDE DEF Next_
<1>2. PICK h : Iterates(h, n, Texts, d.text, step)
  <2>1. step \in [1..n -> [Texts -> Texts]]
    BY <1>1
  <2> HIDE DEF step, n
  <2> QED BY <1>0, <2>1, Recursion
<1>3. ASSUME NEW k \in 1..n PROVE h[k] = Next_(h[k-1], k)
  <2>1. k - 1 \in 0..n /\ h[k-1] \in Texts
    BY <1>2 DEF Iterates
  <2>2. h[k] = step[k][h[k-1]]
    BY <1>2 DEF Iterates
  <2> QED BY <2>1, <2>2
<1>4. F(h)
  BY <1>2, <1>3 DEF Iterates
<1>5. F(f)
  <2> HIDE DEF F
  <2> QED BY <1>4
<1>6. Substituted(d, args) = f[n]
  BY DEF Substituted, Substitution, Next_
<1> HIDE DEF f
<1>7. f[0] = d.text /\ \A k \in 1..n : f[k] = Next_(f[k-1], k)
  <2>1. 0 \in 0..n /\ \A k \in 1..n : k \in 0..n /\ k # 0
    BY <1>0
  <2> HIDE DEF n
  <2> QED BY <1>5, <2>1
<1> DEFINE P == {k \in Nat : f[k] \in Texts}
<1>8. n \in P
  <2>1. 0 \in P /\ P \in SUBSET Nat /\ n \in 0..n
    BY <1>0, <1>7
  <2>2. \A k \in 1..n : k - 1 \in P => k \in P
    BY <1>1, <1>7
  <2> HIDE DEF P, n
  <2> QED BY <1>0, <2>1, <2>2, UpTo
<1> QED BY <1>6, <1>8

\* What is read between the brackets of a call are texts.
LEMMA ArgumentsProp ==
  ASSUME linebuf \in Texts, linebufp \in Nat \ {0}, NEW c \in linebufp+2..Len(linebuf)
  PROVE  Arguments(c) \in Seq(Texts)
<1> DEFINE n == c - linebufp - 2
           S == Seq(Texts) \ {<<>>}
           Next_(x, k) == LET tok == linebuf[linebufp + 1 + k] IN
                          IF tok.t = "comma" THEN Append(x, <<>>)
                          ELSE [x EXCEPT ![Len(x)] = Append(@, tok)]
           step == [k \in 1..n |-> [x \in S |-> Next_(x, k)]]
           F(f) == f = [k \in 0..n |-> IF k = 0 THEN <<<<>>>> ELSE Next_(f[k-1], k)]
           f == CHOOSE x : F(x)
<1>0. n \in Nat /\ <<<<>>>> \in S
  BY DEF Texts
<1>1. ASSUME NEW x \in S, NEW k \in 1..n PROVE Next_(x, k) \in S
  <2> DEFINE tok == linebuf[linebufp + 1 + k]
  <2>1. tok \in AnyTokens
    BY DEF Texts
  <2> HIDE DEF tok
  <2>2. CASE tok.t = "comma"
    <3>1. <<>> \in Texts
      BY DEF Texts
    <3>2. Append(x, <<>>) \in S
      BY <3>1
    <3> QED BY <2>2, <3>2 DEF tok
  <2>3. CASE tok.t # "comma"
    <3>1. PICK l \in 1..Len(x) : l = Len(x)
      OBVIOUS
    <3>2. PICK y \in Texts : y = Append(x[l], tok)
      <4>1. PICK z \in Seq(AnyTokens) : z = x[l]
        BY DEF Texts
      <4>2. Append(z, tok) \in Seq(AnyTokens)
        BY <2>1, AppendProperties
      <4> QED BY <4>1, <4>2 DEF Texts
    <3>3. [x EXCEPT ![l] = y] \in Seq(Texts) /\ Len([x EXCEPT ![l] = y]) = Len(x)
      OBVIOUS
    <3>4. [x EXCEPT ![l] = y] \in S
      BY <3>1, <3>3
    <3> QED BY <2>3, <3>1, <3>2, <3>4 DEF tok
  <2> QED BY <2>2, <2>3
<1> HIDE DEF Next_
<1>2. PICK h : Iterates(h, n, S, <<<<>>>>, step)
  <2>1. step \in [1..n -> [S -> S]]
    <3> HIDE DEF S
    <3> QED BY <1>1
  <2> HIDE DEF step, n, S
  <2> QED BY <1>0, <2>1, Recursion
<1>3. ASSUME NEW k \in 1..n PROVE h[k] = Next_(h[k-1], k)
  <2> HIDE DEF S
  <2>1. k - 1 \in 0..n /\ h[k-1] \in S
    BY <1>2 DEF Iterates
  <2>2. h[k] = step[k][h[k-1]]
    BY <1>2 DEF Iterates
  <2> QED BY <2>1, <2>2
<1>4. F(h)
  <2>1. h \in [0..n -> S] /\ h[0] = <<<<>>>>
    BY <1>2 DEF Iterates
  <2>2. n \in Nat
    BY <1>0
  <2> HIDE DEF S, n
  <2>3. ASSUME NEW k \in 0..n
        PROVE  h[k] = IF k = 0 THEN <<<<>>>> ELSE Next_(h[k-1], k)
    <3>1. k = 0 \/ k \in 1..n
      BY <2>2
    <3> QED BY <1>3, <2>1, <3>1
  <2>4. h = [k \in 0..n |-> h[k]]
    BY <2>1
  <2> QED BY <2>3, <2>4
<1>5. F(f)
  <2> HIDE DEF F
  <2> QED BY <1>4
<1>6. Arguments(c) = f[n]
  BY DEF Arguments, Next_
<1> HIDE DEF f
<1>7. f[0] = <<<<>>>> /\ \A k \in 1..n : f[k] = Next_(f[k-1], k)
  BY <1>0, <1>5
<1> DEFINE P == {k \in Nat : f[k] \in S}
<1>8. n \in P
  <2> HIDE DEF S
  <2>1. 0 \in P /\ P \in SUBSET Nat /\ n \in 0..n
    BY <1>0, <1>7
  <2>2. \A k \in 1..n : k - 1 \in P => k \in P
    BY <1>1, <1>7
  <2> HIDE DEF P, n
  <2> QED BY <1>0, <2>1, <2>2, UpTo
<1> QED BY <1>6, <1>8

------------------------------------------------------------------------------
\* The type invariant

Definitions == [name : STRING, params : Seq(STRING), text : Texts]

\* No file is read beyond its end, and no line counted that was not read.
FilesInv ==
  /\ text \in Contents /\ Len(inc_data) <= MAX_INFILE
  /\ \A k \in 1..Len(inc_data) :
       /\ inc_data[k].read <= Len(text[inc_data[k].name])
       /\ inc_data[k].line_numb <= inc_data[k].read

\* The line is one of tokens; it fits until a replacement overruns linebuf, and the scan
\* does not leave it until it looks for the end of a comment that has none there.
LineInv ==
  /\ linebuf \in Texts
  /\ Len(linebuf) <= MAX_LINE \/ (err = "overrun" /\ pc = "normal")
  /\ linebufp \in Nat \ {0}
  /\ \/ linebufp <= Len(linebuf) + 1
     \/ /\ linebufp = Len(linebuf) + 2 /\ None({"close"}, 1)
        /\ pc \in {"astray", "read", "done"}

\* No name is defined twice.
DefineInv ==
  /\ define_data \in Seq(Definitions) /\ Len(define_data) <= MAX_DEFINE
  /\ \A k \in 1..Len(define_data) : Len(define_data[k].params) <= MAX_PARAMETER
  /\ \A k \in 1..Len(define_data), l \in 1..Len(define_data) :
       define_data[k].name = define_data[l].name => k = l

Errors ==
  {"syntax", "memory", "file", "multiple", "symbol", "param", "overrun", "undefined"}
PlaceInv ==
  /\ in_comment_flag \in BOOLEAN
  /\ pc \in {"read", "comment", "astray", "normal", "include", "define", "directive", "done"}
  /\ err \in {"none"} \cup Errors

TypeInv == FilesInv /\ LineInv /\ DefineInv /\ PlaceInv

\* A line of a file is one, and fits.
LEMMA LinesOfFiles ==
  ASSUME FilesInv, NEW f \in Files
  PROVE  /\ text[f] \in Seq(Lines) /\ Len(text[f]) \in Nat
         /\ \A k \in 1..Len(text[f]) :
              /\ text[f][k].name \in STRING /\ text[f][k].params \in Seq(STRING)
              /\ text[f][k].toks \in Texts /\ Len(text[f][k].toks) <= MAX_LINE
              /\ text[f][k].kind \in {"text", "include", "define", "directive"}
<1>1. text[f] \in Seq(Lines) /\ \A k \in DOMAIN text[f] : Len(text[f][k].toks) <= MAX_LINE
  BY ContentsAssumption DEF FilesInv
<1>2. Len(text[f]) \in Nat /\ DOMAIN text[f] = 1..Len(text[f])
  BY <1>1, LenProperties
<1>3. ASSUME NEW k \in 1..Len(text[f]) PROVE text[f][k] \in Lines
  BY <1>1, ElementOfSeq
<1>4. \A l \in Lines : /\ l.name \in STRING /\ l.params \in Seq(STRING)
                       /\ l.toks \in Texts
                       /\ l.kind \in {"text", "include", "define", "directive"}
  <2>1. Seq(Tokens) \subseteq Texts
    BY DEF Texts, AnyTokens
  <2> QED BY <2>1 DEF Lines
<1> QED BY <1>1, <1>2, <1>3, <1>4

\* The line that is being processed is one of the innermost file.
LEMMA LineProp ==
  ASSUME Inv, FilesInv, pc \notin {"read", "done"}
  PROVE  Line.name \in STRING /\ Line.params \in Seq(STRING)
<1>1. /\ Len(inc_data) \in 1..Len(inc_data)
      /\ inc_data[Len(inc_data)] \in IncData
  BY ElementOfSeq, LenProperties DEF Inv, StackInv
<1>2. /\ File.name \in Files /\ File.read \in Nat /\ File.read > 0
      /\ File.read <= Len(text[File.name])
  BY <1>1 DEF Inv, NumberInv, IncData, FilesInv, File
<1>3. File.read \in 1..Len(text[File.name])
  BY <1>2, LinesOfFiles
<1> QED BY <1>2, <1>3, LinesOfFiles DEF Line

\* Files are opened and read as far as they go.
LEMMA FilesStep == Inv /\ FilesInv /\ (NextLine \/ Include \/ EndOfFile) => FilesInv'
<1> SUFFICES ASSUME Inv, FilesInv, NextLine \/ Include \/ EndOfFile PROVE FilesInv'
  OBVIOUS
<1> DEFINE n == Len(inc_data)
<1>1. n \in Nat /\ n > 0 /\ inc_data \in Seq(IncData) /\ File = inc_data[n]
  BY LenProperties DEF Inv, StackInv, File
<1>2. n \in 1..n /\ File \in IncData
  BY <1>1, ElementOfSeq
<1>3. \A k \in 1..n : inc_data[k] \in IncData
  BY <1>1, ElementOfSeq
<1>4. \A f \in Files : Len(text[f]) \in Nat
  BY LinesOfFiles
<1>5. CASE NextLine
  <2> DEFINE f == [File EXCEPT !.read = @ + 1]
  <2>1. /\ f \in IncData /\ f.name = File.name /\ f.read = File.read + 1
        /\ f.line_numb = File.line_numb
    BY <1>2 DEF IncData
  <2>2. /\ inc_data' = [inc_data EXCEPT ![n] = f] /\ text' = text
        /\ File.read < Len(text[File.name])
    BY <1>1, <1>5 DEF NextLine
  <2> HIDE DEF f
  <2>3. /\ Len(inc_data') = n /\ inc_data'[n] = f
        /\ \A k \in 1..n : k # n => inc_data'[k] = inc_data[k]
    BY <1>1, <1>2, <2>1, <2>2, ExceptSeq
  <2>4. f.read <= Len(text[f.name]) /\ f.line_numb <= f.read
    BY <1>1, <1>2, <1>4, <2>1, <2>2 DEF FilesInv, IncData
  <2> QED BY <2>2, <2>3, <2>4 DEF FilesInv
<1>6. CASE Include
  <2>1. CASE UNCHANGED <<text, inc_data>>
    BY <2>1 DEF FilesInv
  <2>2. CASE ~UNCHANGED <<text, inc_data>>
    <3> DEFINE keep == [File EXCEPT !.line_numb = line_numb]
               stack == [inc_data EXCEPT ![n] = keep]
               new == [name |-> Line.name, read |-> 0, line_numb |-> 0]
    <3>1. /\ Line.name \in Files /\ text' = text
          /\ inc_data' = Append([inc_data EXCEPT ![n].line_numb = line_numb], new)
          /\ ~(n >= MAX_INFILE)
      BY <1>6, <2>2, Zenon DEF Include, Stop
    <3>2. inc_data' = Append(stack, new)
      BY <1>1, <3>1
    <3>3. /\ new \in IncData /\ new.name \in Files /\ new.read = 0 /\ new.line_numb = 0
          /\ keep \in IncData /\ keep.name = File.name /\ keep.read = File.read
          /\ keep.line_numb = keep.read
      BY <1>2, <3>1 DEF IncData, Inv, NumberInv
    <3> HIDE DEF new, keep
    <3>4. /\ stack \in Seq(IncData) /\ Len(stack) = n /\ stack[n] = keep
          /\ \A k \in 1..n : k # n => stack[k] = inc_data[k]
      BY <1>1, <1>2, <3>3, ExceptSeq
    <3> HIDE DEF stack
    <3>5. /\ Len(inc_data') = n + 1 /\ inc_data'[n + 1] = new
          /\ \A k \in 1..n : inc_data'[k] = stack[k]
      BY <3>2, <3>3, <3>4, AppendProperties
    <3>6. ASSUME NEW k \in 1..Len(inc_data')
          PROVE  /\ inc_data'[k].read <= Len(text[inc_data'[k].name])
                 /\ inc_data'[k].line_numb <= inc_data'[k].read
      <4>1. CASE k = n + 1
        BY <1>4, <3>3, <3>5, <4>1
      <4>2. CASE k = n
        <5>1. inc_data'[k] = keep /\ keep.read \in Nat
          BY <1>2, <3>3, <3>4, <3>5, <4>2 DEF IncData
        <5>2. File.read <= Len(text[File.name])
          BY <1>1, <1>2 DEF FilesInv
        <5> QED BY <3>3, <5>1, <5>2
      <4>3. CASE k \in 1..n /\ k # n
        <5>1. inc_data'[k] = inc_data[k]
          BY <3>4, <3>5, <4>3
        <5> QED BY <4>3, <5>1 DEF FilesInv
      <4> QED BY <1>1, <3>5, <4>1, <4>2, <4>3
    <3>7. Len(inc_data') <= MAX_INFILE
      BY <1>1, <3>1, <3>5, LimitsAssumption
    <3> QED BY <3>1, <3>6, <3>7 DEF FilesInv
  <2> QED BY <2>1, <2>2
<1>7. CASE EndOfFile
  <2>1. CASE UNCHANGED <<text, inc_data>>
    BY <2>1 DEF FilesInv
  <2>2. CASE ~UNCHANGED <<text, inc_data>>
    <3>1. inc_data' = Front(inc_data) /\ text' = text /\ n # 1
      BY <1>7, <2>2 DEF EndOfFile
    <3>2. n > 1
      <4> HIDE DEF n
      <4> QED BY <1>1, <3>1
    <3>3. Len(inc_data') = n - 1 /\ \A k \in 1..n-1 : inc_data'[k] = inc_data[k]
      BY <1>1, <3>1, <3>2, Popped
    <3>4. MAX_INFILE \in Nat
      BY LimitsAssumption
    <3> QED BY <1>1, <3>1, <3>2, <3>3, <3>4 DEF FilesInv
  <2> QED BY <2>1, <2>2
<1> QED BY <1>5, <1>6, <1>7

\* What is put in leaves the line in front of it as it was.
LEMMA PutProp ==
  ASSUME LineInv, pc = "normal", NEW toks \in Texts, NEW q \in Int, q >= linebufp, Put(toks, q)
  PROVE  LineInv' /\ linebufp' = linebufp /\ \A k \in 1..linebufp-1 : linebuf'[k] = linebuf[k]
<1> DEFINE a == SubSeq(linebuf, 1, linebufp - 1)
           b == SubSeq(linebuf, q, Len(linebuf))
<1>1. /\ linebuf' = a \o toks \o b /\ linebufp' = linebufp
      /\ pc' = "normal" /\ (Len(linebuf') > MAX_LINE => err' = "overrun")
  BY Zenon DEF Put, Spliced
<1>2. /\ linebuf \in Seq(AnyTokens) /\ Len(linebuf) \in Nat /\ MAX_LINE \in Nat
      /\ linebufp \in Nat /\ linebufp >= 1 /\ linebufp <= Len(linebuf) + 1
  BY LenProperties, LimitsAssumption DEF LineInv, Texts
<1>3. \A k \in 1..Len(linebuf) : linebuf[k] \in AnyTokens
  BY <1>2, ElementOfSeq
<1>4. /\ a \in Seq(AnyTokens) /\ Len(a) = linebufp - 1
      /\ \A k \in 1..linebufp-1 : a[k] = linebuf[k]
  <2>1. linebufp - 1 \in Int /\ \A k \in 1..linebufp-1 : linebuf[k] \in AnyTokens
    BY <1>2, <1>3
  <2>2. /\ a \in Seq(AnyTokens)
        /\ Len(a) = IF 1 <= linebufp - 1 THEN (linebufp - 1) - 1 + 1 ELSE 0
        /\ \A k \in 1..(linebufp-1)-1+1 : a[k] = linebuf[1+k-1]
    BY <2>1, SubSeqProperties
  <2> QED BY <1>2, <2>2
<1>5. b \in Seq(AnyTokens)
  <2>1. \A k \in q..Len(linebuf) : linebuf[k] \in AnyTokens
    BY <1>2, <1>3
  <2> QED BY <1>2, <2>1, SubSeqProperties
<1> HIDE DEF a, b
<1>6. /\ a \o toks \in Seq(AnyTokens) /\ Len(a \o toks) = Len(a) + Len(toks)
      /\ Len(a) \in Nat /\ Len(toks) \in Nat /\ Len(b) \in Nat
      /\ \A k \in 1..Len(a) : (a \o toks)[k] = a[k]
  <2>1. toks \in Seq(AnyTokens)
    BY DEF Texts
  <2> QED BY <1>4, <1>5, <2>1, ConcatProperties, LenProperties
<1>7. /\ (a \o toks) \o b \in Seq(AnyTokens)
      /\ Len((a \o toks) \o b) = Len(a) + Len(toks) + Len(b)
      /\ \A k \in 1..Len(a) : ((a \o toks) \o b)[k] = a[k]
  BY <1>5, <1>6, ConcatProperties
<1>8. LineInv'
  <2>1. Len(linebuf') = Len(a) + Len(toks) + Len(b)
    BY <1>1, <1>7
  <2>2. PICK n \in Nat : n = Len(linebuf')
    BY <1>6, <2>1
  <2>3. linebufp <= n + 1
    BY <1>2, <1>4, <1>6, <2>1, <2>2
  <2> QED BY <1>1, <1>2, <1>7, <2>2, <2>3 DEF LineInv, Texts
<1> QED BY <1>1, <1>2, <1>4, <1>7, <1>8

\* The ways an action ends: a line is printed, an error stops prep, the scan goes on
\* behind what it has read, or something is put in.
LEMMA EndLineType ==
  ASSUME TypeInv, err = "none", NEW flag \in BOOLEAN, NEW astray, EndLine(flag, astray)
  PROVE  TypeInv'
<1>1. UNCHANGED <<text, inc_data, linebuf, linebufp, define_data, err>> /\ pc' = "read"
  BY DEF EndLine
<1>2. PlaceInv'
  BY DEF EndLine, TypeInv, PlaceInv
<1>3. LineInv'
  BY <1>1 DEF TypeInv, LineInv, None
<1> QED BY <1>1, <1>2, <1>3 DEF TypeInv, FilesInv, DefineInv

\* An error keeps the types.
LEMMA StopType ==
  ASSUME TypeInv, err = "none", NEW e \in Errors, Stop(e)
  PROVE  TypeInv'
<1>1. UNCHANGED <<text, inc_data, linebuf, linebufp, define_data, pc>>
  BY DEF Stop
<1>2. PlaceInv'
  BY DEF Stop, TypeInv, PlaceInv
<1>3. LineInv'
  BY <1>1 DEF TypeInv, LineInv, None
<1> QED BY <1>1, <1>2, <1>3 DEF TypeInv, FilesInv, DefineInv

\* The scan keeps the types when it goes on in its line.
LEMMA GoToType ==
  ASSUME TypeInv, NEW q \in Nat \ {0}, q <= Len(linebuf) + 1, GoTo(q)
  PROVE  TypeInv'
<1>1. /\ UNCHANGED <<text, inc_data, linebuf, define_data, err>> /\ linebufp' = q
      /\ pc' = "normal"
  BY DEF GoTo
<1>2. PlaceInv'
  BY DEF GoTo, TypeInv, PlaceInv
<1>3. LineInv'
  BY <1>1 DEF TypeInv, LineInv
<1> QED BY <1>1, <1>2, <1>3 DEF TypeInv, FilesInv, DefineInv

\* Putting a text into the line keeps the types.
LEMMA PutType ==
  ASSUME TypeInv, pc = "normal", NEW toks \in Texts, NEW q \in Int, q >= linebufp, Put(toks, q)
  PROVE  TypeInv'
<1>1. UNCHANGED <<text, inc_data, define_data, in_comment_flag, pc>>
  BY Zenon DEF Put
<1>2. err' = "none" \/ err' = "overrun"
  BY Zenon DEF Put
<1>3. LineInv'
  BY PutProp DEF TypeInv
<1>4. PlaceInv'
  BY <1>1, <1>2 DEF TypeInv, PlaceInv, Errors
<1> QED BY <1>1, <1>3, <1>4 DEF TypeInv, FilesInv, DefineInv

\* A line of a file is read.
LEMMA NextLineType == Inv /\ TypeInv /\ NextLine => TypeInv'
<1> SUFFICES ASSUME Inv, TypeInv, NextLine PROVE TypeInv'
  OBVIOUS
<1> DEFINE line == text[File.name][File.read + 1]
<1>1. File \in IncData
  BY ElementOfSeq, LenProperties DEF Inv, StackInv, File
<1>2. File.name \in Files /\ File.read + 1 \in 1..Len(text[File.name])
  BY <1>1, LinesOfFiles DEF NextLine, IncData, TypeInv
<1>3. /\ line.toks \in Texts /\ Len(line.toks) <= MAX_LINE
      /\ line.kind \in {"text", "include", "define", "directive"}
  BY <1>2, LinesOfFiles DEF TypeInv
<1> HIDE DEF line
<1>4. /\ linebuf' = line.toks /\ linebufp' = 1
      /\ pc' \in {"comment", "normal", line.kind}
      /\ UNCHANGED <<define_data, in_comment_flag, err>>
  BY DEF NextLine, line
<1>5. LineInv'
  <2>1. PICK n \in Nat : n = Len(line.toks)
    BY <1>3, LenProperties DEF Texts
  <2>2. 1 <= Len(line.toks) + 1 /\ 1 \in Nat \ {0}
    BY <2>1
  <2> QED BY <1>3, <1>4, <2>2 DEF LineInv
<1>6. PlaceInv'
  <2>1. pc' \in {"comment", "normal", "text", "include", "define", "directive"} /\ pc' # "text"
    BY <1>3, <1>4 DEF NextLine, line
  <2> QED BY <1>4, <2>1 DEF TypeInv, PlaceInv
<1>7. DefineInv'
  BY <1>4 DEF TypeInv, DefineInv
<1> QED BY <1>5, <1>6, <1>7, FilesStep DEF TypeInv

\* A file is opened or comes to its end.
LEMMA FilesType == Inv /\ TypeInv /\ (Include \/ EndOfFile) => TypeInv'
<1> SUFFICES ASSUME Inv, TypeInv, Include \/ EndOfFile PROVE TypeInv'
  OBVIOUS
<1>1. /\ UNCHANGED <<linebuf, linebufp, define_data, in_comment_flag>>
      /\ pc' \in {pc, "read", "done"} /\ err' \in {err, "memory", "file"} /\ err = "none"
  BY DEF Include, EndOfFile, Running, Stop
<1>2. PlaceInv'
  BY <1>1 DEF TypeInv, PlaceInv, Errors
<1>3. LineInv'
  BY <1>1 DEF TypeInv, LineInv, None
<1> QED BY <1>1, <1>2, <1>3, FilesStep DEF TypeInv, DefineInv

\* The parameters that are kept are names, and as many as there is room for.
LEMMA KeptProp ==
  ASSUME Line.params \in Seq(STRING)
  PROVE  Kept \in Seq(STRING) /\ Len(Kept) <= MAX_PARAMETER
<1>1. MAX_PARAMETER \in Nat \ {0} /\ Len(Line.params) \in Nat
  BY LimitsAssumption, LenProperties
<1>2. CASE Len(Line.params) <= MAX_PARAMETER
  BY <1>2 DEF Kept
<1>3. CASE ~(Len(Line.params) <= MAX_PARAMETER)
  <2>1. \A k \in 1..MAX_PARAMETER : Line.params[k] \in STRING
    BY <1>1, <1>3, ElementOfSeq
  <2>2. /\ SubSeq(Line.params, 1, MAX_PARAMETER) \in Seq(STRING)
        /\ Len(SubSeq(Line.params, 1, MAX_PARAMETER))
             = IF 1 <= MAX_PARAMETER THEN MAX_PARAMETER - 1 + 1 ELSE 0
    BY <1>1, <2>1, SubSeqProperties
  <2> QED BY <1>1, <1>3, <2>2 DEF Kept
<1> QED BY <1>2, <1>3

\* The others are tokens of the text.
LEMMA SurplusProp ==
  ASSUME Line.params \in Seq(STRING)
  PROVE  Surplus \in Texts
<1> DEFINE n == Len(Line.params) - MAX_PARAMETER
           tok(p) == IF p % 2 = 1 THEN Symbol(Line.params[MAX_PARAMETER + (p + 1) \div 2])
                     ELSE Mark(IF p = 2*n THEN "rp" ELSE "comma")
<1>1. MAX_PARAMETER \in Nat \ {0} /\ Len(Line.params) \in Nat /\ n \in Int
  BY LimitsAssumption, LenProperties
<1>2. ASSUME NEW p \in 1..2*n PROVE tok(p) \in AnyTokens
  <2>1. CASE p % 2 = 1
    <3>1. (p + 1) \div 2 \in 1..n
      <4> HIDE DEF n
      <4> QED BY <1>1, <2>1
    <3>2. MAX_PARAMETER + (p + 1) \div 2 \in 1..Len(Line.params)
      BY <1>1, <3>1
    <3>3. Line.params[MAX_PARAMETER + (p + 1) \div 2] \in STRING
      BY <3>2, ElementOfSeq
    <3>4. \A s \in STRING : Symbol(s) \in AnyTokens
      BY DEF Symbol, Tokens, AnyTokens
    <3> QED BY <2>1, <3>3, <3>4
  <2>2. CASE p % 2 # 1
    <3>1. Mark("rp") \in AnyTokens /\ Mark("comma") \in AnyTokens
      BY DEF AnyTokens
    <3> QED BY <2>2, <3>1
  <2> QED BY <2>1, <2>2
<1>3. \E m \in Nat : 1..2*n = 1..m
  <2> HIDE DEF n
  <2>1. CASE n >= 0
    BY <1>1, <2>1
  <2>2. CASE n < 0
    <3>1. 1..2*n = 1..0
      BY <1>1, <2>2
    <3> QED BY <3>1
  <2> QED BY <1>1, <2>1, <2>2
<1>4. Surplus = [p \in 1..2*n |-> tok(p)]
  BY DEF Surplus
<1> HIDE DEF n, tok
<1>5. PICK m \in Nat : 1..2*n = 1..m
  BY <1>3
<1>6. Surplus \in [1..m -> AnyTokens]
  BY <1>2, <1>4, <1>5
<1> QED BY <1>6 DEF Texts

\* What Define does: it stops, or enters the tokens of the line up to some n.
LEMMA DefineCases ==
  ASSUME TypeInv, Define
  PROVE  \/ \E e \in Errors : Stop(e)
         \/ /\ RoomForDefine /\ ~Defined(Line.name)
            /\ \E n \in Int : Enter(n) /\ n <= Len(linebuf)
<1>1. Len(linebuf) \in Int /\ DOMAIN linebuf = 1..Len(linebuf)
  BY LenProperties DEF TypeInv, LineInv, Texts
<1>2. ASSUME NEW q \in DOMAIN linebuf PROVE q - 1 \in Int /\ q - 1 <= Len(linebuf)
  BY <1>1
<1>3. Len(linebuf) <= Len(linebuf)
  BY <1>1
<1>4. "symbol" \in Errors /\ "memory" \in Errors /\ "multiple" \in Errors
  BY DEF Errors
<1> QED BY <1>1, <1>2, <1>3, <1>4, Zenon DEF Define

\* A new name is entered.
LEMMA DefineType == Inv /\ TypeInv /\ Define => TypeInv'
<1> SUFFICES ASSUME Inv, TypeInv, Define PROVE TypeInv'
  OBVIOUS
<1>0. err = "none" /\ pc = "define" /\ "memory" \in Errors
  BY DEF Define, Running, Errors
<1>1. CASE \E e \in Errors : Stop(e)
  BY <1>0, <1>1, StopType
<1>2. CASE RoomForDefine /\ ~Defined(Line.name) /\ \E n \in Int : Enter(n) /\ n <= Len(linebuf)
  <2>1. PICK n \in Int : Enter(n) /\ n <= Len(linebuf)
    BY <1>2
  <2> DEFINE new == [name |-> Line.name, params |-> Kept,
                     text |-> Surplus \o SubSeq(linebuf, 1, n)]
  <2>2. \/ Stop("memory")
        \/ /\ define_data' = Append(define_data, new) /\ pc' = "read"
           /\ UNCHANGED <<text, inc_data, linebuf, linebufp, in_comment_flag, err>>
    BY <2>1, Zenon DEF Enter
  <2>3. /\ new \in Definitions /\ new.name = Line.name
        /\ Len(new.params) <= MAX_PARAMETER
    <3>1. Line.name \in STRING /\ Line.params \in Seq(STRING)
      BY <1>0, LineProp DEF TypeInv
    <3>2. \A k \in 1..n : linebuf[k] \in AnyTokens
      BY <2>1, ElementOfSeq, LenProperties DEF TypeInv, LineInv, Texts
    <3>3. SubSeq(linebuf, 1, n) \in Seq(AnyTokens) /\ Surplus \in Seq(AnyTokens)
      BY <3>1, <3>2, SubSeqProperties, SurplusProp DEF Texts
    <3>4. Surplus \o SubSeq(linebuf, 1, n) \in Texts
      BY <3>3, ConcatProperties DEF Texts
    <3> QED BY <3>1, <3>4, KeptProp DEF Definitions
  <2> HIDE DEF new
  <2>4. CASE Stop("memory")
    BY <1>0, <2>4, StopType
  <2> SUFFICES ASSUME define_data' = Append(define_data, new), pc' = "read",
                      UNCHANGED <<text, inc_data, linebuf, linebufp, in_comment_flag, err>>
               PROVE  TypeInv'
    BY <2>2, <2>4
  <2>5. /\ define_data \in Seq(Definitions) /\ Len(define_data) \in Nat
        /\ DOMAIN define_data = 1..Len(define_data)
    BY LenProperties DEF TypeInv, DefineInv
  <2>6. /\ define_data' \in Seq(Definitions) /\ Len(define_data') = Len(define_data) + 1
        /\ define_data'[Len(define_data) + 1] = new
        /\ \A k \in 1..Len(define_data) : define_data'[k] = define_data[k]
    BY <2>3, <2>5, AppendProperties
  <2>7. \A k \in 1..Len(define_data) : define_data[k].name # new.name
    BY <1>2, <2>3, <2>5 DEF Defined
  <2>8. Len(define_data') <= MAX_DEFINE
    BY <1>2, <2>5, <2>6, LimitsAssumption DEF RoomForDefine
  <2>9. ASSUME NEW k \in 1..Len(define_data'), NEW l \in 1..Len(define_data'),
               define_data'[k].name = define_data'[l].name
        PROVE  k = l
    <3>1. /\ k = Len(define_data) + 1 \/ k \in 1..Len(define_data)
          /\ l = Len(define_data) + 1 \/ l \in 1..Len(define_data)
      BY <2>5, <2>6
    <3> QED BY <2>6, <2>7, <2>9, <3>1 DEF TypeInv, DefineInv
  <2>10. ASSUME NEW k \in 1..Len(define_data')
         PROVE  Len(define_data'[k].params) <= MAX_PARAMETER
    <3>1. k = Len(define_data) + 1 \/ k \in 1..Len(define_data)
      BY <2>5, <2>6
    <3> QED BY <2>3, <2>6, <3>1 DEF TypeInv, DefineInv
  <2>11. DefineInv'
    BY <2>6, <2>8, <2>9, <2>10 DEF DefineInv
  <2>12. PlaceInv'
    BY DEF TypeInv, PlaceInv
  <2>13. LineInv'
    BY <1>0 DEF TypeInv, LineInv
  <2>14. FilesInv'
    BY DEF TypeInv, FilesInv
  <2> QED BY <2>11, <2>12, <2>13, <2>14 DEF TypeInv
<1> QED BY <1>1, <1>2, DefineCases

\* The loop over a line: the scan goes on in the line, ends with it or leaves it.
LEMMA ScanType ==
  TypeInv /\ (EndComment \/ Astray \/ LineDone \/ OpenComment \/ String \/ OtherToken
                \/ PlainSymbol)
    => TypeInv'
<1> SUFFICES ASSUME TypeInv,
                    EndComment \/ Astray \/ LineDone \/ OpenComment \/ String \/ OtherToken
                      \/ PlainSymbol
             PROVE  TypeInv'
  OBVIOUS
<1>0. /\ err = "none" /\ pc \in {"comment", "astray", "normal"}
      /\ EndComment => pc = "comment"
      /\ LineDone \/ OpenComment \/ String \/ OtherToken \/ PlainSymbol => pc = "normal"
  BY DEF EndComment, Astray, LineDone, OpenComment, String, OtherToken, PlainSymbol, At, Running
<1>1. /\ Len(linebuf) \in Nat /\ DOMAIN linebuf = 1..Len(linebuf)
      /\ linebufp \in Nat \ {0} /\ (pc = "normal" => linebufp <= Len(linebuf) + 1)
  BY LenProperties DEF TypeInv, LineInv, Texts
<1>2. ASSUME NEW q \in 1..Len(linebuf), GoTo(q + 1) PROVE TypeInv'
  <2>1. q + 1 \in Nat \ {0} /\ q + 1 <= Len(linebuf) + 1
    BY <1>1
  <2> QED BY <1>2, <2>1, GoToType
<1>3. CASE EndComment
  <2>1. CASE \E q \in DOMAIN linebuf : GoTo(q + 1)
    BY <1>1, <1>2, <2>1
  <2>2. CASE /\ None({"close"}, 1)
             /\ linebufp' = Len(linebuf) + 2 /\ pc' = "astray"
             /\ UNCHANGED <<text, inc_data, linebuf, define_data, in_comment_flag, err>>
    <3>1. LineInv'
      <4>1. Len(linebuf) + 2 \in Nat \ {0} /\ None({"close"}, 1)'
        BY <1>1, <2>2 DEF None
      <4> QED BY <1>0, <2>2, <4>1 DEF TypeInv, LineInv
    <3>2. PlaceInv'
      BY <2>2 DEF TypeInv, PlaceInv
    <3>3. FilesInv' /\ DefineInv'
      BY <2>2 DEF TypeInv, FilesInv, DefineInv
    <3> QED BY <3>1, <3>2, <3>3 DEF TypeInv
  <2> QED BY <1>3, <2>1, <2>2 DEF EndComment
<1>4. CASE Astray
  <2>1. "undefined" \in Errors
    BY DEF Errors
  <2> QED BY <1>0, <1>4, <2>1, EndLineType, StopType DEF Astray
<1>5. CASE LineDone
  <2>1. EndLine(FALSE, FALSE)
    BY <1>5 DEF LineDone
  <2> QED BY <1>0, <2>1, EndLineType
<1>6. ASSUME NEW q \in linebufp+1..Len(linebuf) PROVE q \in 1..Len(linebuf)
  BY <1>1
<1>7. CASE OpenComment
  BY <1>0, <1>2, <1>6, <1>7, EndLineType DEF OpenComment
<1>8. CASE String
  BY <1>0, <1>2, <1>6, <1>8, EndLineType DEF String
<1>9. ASSUME ~AtEnd, pc = "normal" PROVE linebufp \in 1..Len(linebuf)
  BY <1>1, <1>9 DEF AtEnd
<1>10. CASE OtherToken
  BY <1>0, <1>2, <1>9, <1>10 DEF OtherToken, At
<1>11. CASE PlainSymbol
  <2>1. "symbol" \in Errors
    BY DEF Errors
  <2>2. CASE Stop("symbol")
    BY <1>0, <2>1, <2>2, StopType
  <2> QED BY <1>0, <1>2, <1>9, <1>11, <2>2 DEF PlainSymbol, At
<1> QED BY <1>3, <1>4, <1>5, <1>7, <1>8, <1>10, <1>11

\* A text of tokens is put in for a symbol, or prep stops.
LEMMA ReplacePuts ==
  ASSUME TypeInv, Replace \/ ReplaceCall
  PROVE  /\ err = "none" /\ pc = "normal"
         /\ \/ \E e \in Errors : Stop(e)
            \/ \E toks \in Texts, q \in Int : q >= linebufp /\ Put(toks, q)
<1>0. err = "none" /\ pc = "normal"
  BY DEF Replace, ReplaceCall, At, Running
<1>1. /\ linebuf \in Texts /\ linebufp \in Nat \ {0}
      /\ define_data \in Seq(Definitions) /\ DOMAIN define_data = 1..Len(define_data)
  BY LenProperties DEF TypeInv, LineInv, DefineInv
<1>2. ASSUME NEW k \in DOMAIN define_data
      PROVE  define_data[k].text \in Texts /\ define_data[k].params \in Seq(STRING)
  <2>1. define_data[k] \in Definitions
    BY <1>1, ElementOfSeq
  <2> QED BY <2>1 DEF Definitions
<1>3. CASE Replace
  <2>1. PICK k \in DOMAIN define_data : Put(InPlaceOf(Here, define_data[k].text), linebufp + 1)
    BY <1>3, Zenon DEF Replace
  <2>2. linebufp + 1 \in Int /\ linebufp + 1 >= linebufp
    BY <1>1
  <2>3. InPlaceOf(Here, define_data[k].text) \in Texts
    BY <1>2, InPlaceOfProp
  <2> QED BY <1>0, <2>1, <2>2, <2>3
<1>4. CASE ReplaceCall
  <2>1. CASE \E e \in Errors : Stop(e)
    BY <1>0, <2>1
  <2>2. CASE \E k \in DOMAIN define_data, c \in linebufp+2..Len(linebuf) :
               Put(Substituted(define_data[k], Arguments(c)), c + 1)
    <3>1. PICK k \in DOMAIN define_data, c \in linebufp+2..Len(linebuf) :
                 Put(Substituted(define_data[k], Arguments(c)), c + 1)
      BY <2>2
    <3>2. Arguments(c) \in Seq(Texts)
      BY <1>1, ArgumentsProp
    <3>3. Substituted(define_data[k], Arguments(c)) \in Texts
      BY <1>2, <3>2, SubstitutedProp
    <3>4. c + 1 \in Int /\ c + 1 >= linebufp
      BY <1>1
    <3> QED BY <1>0, <3>1, <3>3, <3>4
  <2>3. /\ "param" \in Errors /\ "undefined" \in Errors
        /\ \A d, args : Failures(d, args) \subseteq Errors
    BY DEF Errors, Failures
  <2> QED BY <1>4, <2>1, <2>2, <2>3, Zenon DEF ReplaceCall, ReplaceUpTo
<1> QED BY <1>3, <1>4

\* A replacement keeps the types.
LEMMA ReplaceType == TypeInv /\ (Replace \/ ReplaceCall) => TypeInv'
BY ReplacePuts, StopType, PutType

\* Nothing is open but the first file, and nothing defined.
LEMMA InitType == Init => TypeInv
<1> SUFFICES ASSUME Init PROVE TypeInv
  OBVIOUS
<1> DEFINE first == [name |-> Main, read |-> 0, line_numb |-> 0]
<1>1. inc_data = <<first>> /\ first.name = Main /\ first.read = 0 /\ first.line_numb = 0
  BY DEF Init
<1> HIDE DEF first
<1>2. Len(inc_data) = 1 /\ inc_data[1] = first
  BY <1>1
<1>3. FilesInv
  <2>1. text \in Contents /\ Main \in Files
    BY FilesAssumption DEF Init
  <2>2. text[Main] \in Seq(Lines)
    BY <2>1, ContentsAssumption
  <2>3. Len(text[Main]) \in Nat /\ 1 <= MAX_INFILE
    BY <2>2, LenProperties, LimitsAssumption
  <2> QED BY <1>1, <1>2, <2>1, <2>3 DEF FilesInv
<1>4. LineInv
  <2>1. <<>> \in Seq(AnyTokens) /\ Len(<<>>) = 0 /\ 0 <= MAX_LINE
    BY LimitsAssumption
  <2> QED BY <2>1 DEF Init, LineInv, Texts
<1>5. DefineInv
  <2>1. <<>> \in Seq(Definitions) /\ Len(<<>>) = 0 /\ 0 <= MAX_DEFINE
    BY LimitsAssumption
  <2> QED BY <2>1 DEF Init, DefineInv
<1>6. PlaceInv
  BY DEF Init, PlaceInv
<1> QED BY <1>3, <1>4, <1>5, <1>6 DEF TypeInv

\* What the run checks follows.
LEMMA TypeInvImplies == Inv /\ TypeInv => PrepTypeOK
<1> SUFFICES ASSUME Inv, TypeInv PROVE PrepTypeOK
  OBVIOUS
<1>1. DOMAIN text = Files
  BY FilesAssumption DEF TypeInv, FilesInv
<1>2. /\ Len(inc_data) \in Nat /\ Len(inc_data) > 0 /\ DOMAIN inc_data = 1..Len(inc_data)
      /\ \A k \in 1..Len(inc_data) : inc_data[k] \in IncData
  BY ElementOfSeq, LenProperties DEF Inv, StackInv
<1>3. Len(inc_data) \in 1..MAX_INFILE
  BY <1>2, LimitsAssumption DEF TypeInv, FilesInv
<1>4. ASSUME NEW k \in DOMAIN inc_data
      PROVE  /\ inc_data[k].name \in Files
             /\ inc_data[k].read \in 0..Len(text[inc_data[k].name])
             /\ inc_data[k].line_numb \in 0..inc_data[k].read
  <2>1. /\ inc_data[k].name \in Files /\ inc_data[k].read \in Nat
        /\ inc_data[k].line_numb \in Nat
    BY <1>2 DEF IncData
  <2>2. Len(text[inc_data[k].name]) \in Nat
    BY <2>1, LinesOfFiles DEF TypeInv
  <2> QED BY <1>2, <2>1, <2>2 DEF TypeInv, FilesInv
<1>5. /\ Len(linebuf) <= MAX_LINE \/ (err = "overrun" /\ pc = "normal")
      /\ linebufp \in 1..Len(linebuf)+2
      /\ linebufp = Len(linebuf) + 2 => pc \in {"astray", "read", "done"} /\ None({"close"}, 1)
  BY LenProperties DEF TypeInv, LineInv, Texts
<1>6. DOMAIN define_data = 1..Len(define_data)
  BY LenProperties DEF TypeInv, DefineInv
<1> QED BY <1>1, <1>3, <1>4, <1>5, <1>6
       DEF PrepTypeOK, TypeInv, DefineInv, PlaceInv, Errors, Inv, NumberInv

\* One step for each group of actions.
LEMMA TypeStep == Inv /\ TypeInv /\ [Next]_vars => TypeInv'
<1> SUFFICES ASSUME Inv, TypeInv, [Next]_vars PROVE TypeInv'
  OBVIOUS
<1>1. CASE OtherDirective
  BY <1>1, StopType DEF OtherDirective, Running, Errors
<1>2. CASE UNCHANGED vars
  BY <1>2 DEF vars, TypeInv, FilesInv, LineInv, None, DefineInv, PlaceInv
<1> QED BY <1>1, <1>2, NextLineType, FilesType, DefineType, ScanType, ReplaceType DEF Next

\* In every state the files, the line and the definitions are what TypeInv says.
LEMMA TypeInvariant == Spec => []TypeInv
<1>1. Spec => []Inv
  BY PrepInvariant
<1> QED BY <1>1, TypeStep, InitType, PTL DEF Spec

\* Every file that is open exists and is read at most to its end, lines are counted as
\* they are read, the tables stay in their room, no definition keeps more parameters than
\* there is room for, and no name is defined twice.  The line fits linebuf, but for a
\* replaced one that overruns it (prep.cpp:236); the scan stays in the line, but for a line
\* of a comment in which the comment does not end (464).
THEOREM PrepTypeCorrect == Spec => []PrepTypeOK
<1> QED BY TypeInvariant, PrepInvariant, TypeInvImplies, PTL

------------------------------------------------------------------------------
\* Comments

Begins == IF in_comment_flag THEN "comment" ELSE "code"
Plain(toks, p) == \A k \in 1..p : toks[k].t # "hidden"

\* Between the lines: the flag says where the compiler stands behind what is printed.
OutsideInv == Regular(Len(out)) => Behind(out, Len(out)) = Begins

\* In a line: what prep has scanned of it ends in code for the compiler too.
InsideInv ==
  /\ pc \in {"comment", "astray"} => in_comment_flag
  /\ pc = "normal" /\ Plain(linebuf, linebufp - 1) =>
       Scan(Begins, linebuf, linebufp - 1) = "code"

CommentInv == OutsideInv /\ InsideInv /\ CommentsAgree

\* What a token makes of the states prep tells apart.
LEMMA AfterKinds ==
  ASSUME NEW tok
  PROVE  /\ AfterToken("comment", tok) = IF tok.t = "close" THEN "code" ELSE "comment"
         /\ AfterToken("string", tok) = IF tok.t = "quote" THEN "code" ELSE "string"
         /\ AfterToken("line", tok) = "line"
         /\ tok.t = "open" => AfterToken("code", tok) = "comment"
         /\ tok.t = "slashes" => AfterToken("code", tok) = "line"
         /\ tok.t = "quote" => AfterToken("code", tok) = "string"
         /\ tok.t \notin {"open", "slashes", "quote"} => AfterToken("code", tok) = "code"
BY DEF AfterToken

\* A text begins outside comments.
LEMMA BeginsProp == Begins \in States /\ Begins \in Starts
BY DEF Begins, States, Starts

\* A marker is a comment that is closed.
LEMMA MarkerToks ==
  ASSUME NEW f
  PROVE  AfterLine("code", Marker(f).toks) = "code"
<1> DEFINE toks == <<Mark("open"), Mark("other"), Mark("close")>>
<1>1. /\ Len(toks) = 3
      /\ toks[1].t = "open" /\ toks[2].t = "other" /\ toks[3].t = "close"
  BY DEF Mark
<1>2. Marker(f).toks = toks
  BY DEF Marker
<1> HIDE DEF toks
<1>3. "code" \in States
  BY DEF States
<1>4. Scan("code", toks, 0) = "code" /\ Scan("code", toks, 0 + 1) = "comment"
  <2>1. /\ Scan("code", toks, 0) = "code"
        /\ Scan("code", toks, 0 + 1) = AfterToken(Scan("code", toks, 0), toks[0 + 1])
    BY <1>3, ScanNext
  <2> QED BY <1>1, <2>1, AfterKinds
<1>5. Scan("code", toks, 1 + 1) = "comment"
  <2>1. Scan("code", toks, 1 + 1) = AfterToken(Scan("code", toks, 1), toks[1 + 1])
    BY <1>3, ScanNext
  <2> QED BY <1>1, <1>4, <2>1, AfterKinds
<1>6. Scan("code", toks, 2 + 1) = "code"
  <2>1. Scan("code", toks, 2 + 1) = AfterToken(Scan("code", toks, 2), toks[2 + 1])
    BY <1>3, ScanNext
  <2> QED BY <1>1, <1>5, <2>1, AfterKinds
<1>7. Len(toks) = 2 + 1
  BY <1>1
<1> QED BY <1>2, <1>6, <1>7 DEF AfterLine

\* One line more is printed.  If it is regular, it takes the compiler to where prep is.
LEMMA PrintedAgrees ==
  ASSUME Inv, CommentInv, NEW e, out' = Append(out, e),
         e.numb # 0 => e.was = in_comment_flag,
         ~e.astray /\ (e.numb = 0 => ~e.was) /\ (\A p \in DOMAIN e.toks : e.toks[p].t # "hidden")
           => AfterLine(Begins, e.toks) = Begins'
  PROVE  OutsideInv' /\ CommentsAgree'
<1>1. PICK S : out \in Seq(S)
  BY DEF Inv, OutInv
<1> PICK n \in Nat : n = Len(out)
  BY <1>1, LenProperties
<1>2. /\ Len(out') = n + 1 /\ out'[n + 1] = e
      /\ \A k \in 1..n : out'[k] = out[k]
  BY <1>1, Appended
<1>3. Behind(out', n) = Behind(out, n)
  BY <1>2, BehindSame
<1>4. Behind(out', n + 1) = AfterLine(Behind(out', n), e.toks)
  BY <1>2, BehindNext
<1>5. Regular(n)' => Regular(n)
  BY <1>2 DEF Regular
<1>6. OutsideInv'
  <2> SUFFICES ASSUME Regular(n + 1)' PROVE Behind(out', n + 1) = Begins'
    BY <1>2 DEF OutsideInv
  <2>1. Regular(n)
    BY <1>2, <1>5 DEF Regular
  <2>2. /\ ~e.astray /\ (e.numb = 0 => ~e.was)
        /\ \A p \in DOMAIN e.toks : e.toks[p].t # "hidden"
    <3>1. n + 1 \in 1..n+1
      BY <1>2
    <3> QED BY <1>2, <3>1 DEF Regular
  <2>3. Behind(out, n) = Begins
    BY <2>1 DEF CommentInv, OutsideInv
  <2> QED BY <1>3, <1>4, <2>2, <2>3
<1>7. CommentsAgree'
  <2> SUFFICES ASSUME e.numb # 0, Regular(n)' PROVE e.was <=> Behind(out', n) = "comment"
    <3>1. (n + 1) - 1 = n
      BY <1>2
    <3> QED BY <1>2, <3>1 DEF CommentsAgree
  <2>1. Behind(out, n) = Begins
    BY <1>5 DEF CommentInv, OutsideInv
  <2>2. in_comment_flag <=> Begins = "comment"
    BY DEF Begins
  <2> QED BY <1>3, <2>1, <2>2
<1> QED BY <1>6, <1>7

\* A line that does not go astray ends where the scan says.
LEMMA EndLineAgrees ==
  ASSUME Inv, TypeInv, CommentInv, NEW flag \in BOOLEAN, NEW astray, EndLine(flag, astray),
         ~astray /\ Plain(linebuf, Len(linebuf)) =>
           (flag <=> Scan(Begins, linebuf, Len(linebuf)) = "comment")
  PROVE  CommentInv'
<1> DEFINE e == Numbered(astray)
<1>1. e.was = in_comment_flag /\ e.astray = astray /\ e.toks = linebuf
  BY DEF Numbered
<1> HIDE DEF e
<1>2. /\ out' = Append(out, e) /\ in_comment_flag' = flag /\ pc' = "read"
  BY DEF EndLine, e
<1>3. DOMAIN linebuf = 1..Len(linebuf)
  BY LenProperties DEF TypeInv, LineInv, Texts
<1>4. ASSUME ~astray, Plain(linebuf, Len(linebuf)) PROVE AfterLine(Begins, linebuf) = Begins'
  BY <1>2, <1>4 DEF AfterLine, Begins
<1>5. OutsideInv' /\ CommentsAgree'
  BY <1>1, <1>2, <1>3, <1>4, PrintedAgrees DEF Plain
<1>6. InsideInv'
  BY <1>2 DEF InsideInv
<1> QED BY <1>5, <1>6 DEF CommentInv

\* A marker leaves the compiler where it is, unless it stands in a comment.
LEMMA MarkerAgrees ==
  ASSUME Inv, CommentInv, NEW f, out' = Append(out, Marker(f)), pc' = "read",
         UNCHANGED in_comment_flag
  PROVE  CommentInv'
<1> DEFINE e == Marker(f)
<1>1. e.numb = 0 /\ e.was = in_comment_flag
  BY DEF Marker
<1>2. ~in_comment_flag => AfterLine(Begins, e.toks) = Begins'
  BY MarkerToks DEF Begins
<1> HIDE DEF e
<1>3. out' = Append(out, e)
  BY DEF e
<1>4. OutsideInv' /\ CommentsAgree'
  BY <1>1, <1>2, <1>3, PrintedAgrees
<1>5. InsideInv'
  BY DEF InsideInv
<1> QED BY <1>4, <1>5 DEF CommentInv

\* Nothing is printed.
LEMMA QuietAgrees ==
  ASSUME CommentInv, UNCHANGED <<out, in_comment_flag>>, InsideInv'
  PROVE  CommentInv'
<1>1. OutsideInv' /\ CommentsAgree'
  BY DEF CommentInv, OutsideInv, CommentsAgree, Regular, Begins
<1> QED BY <1>1 DEF CommentInv

\* The scan goes on behind text that the compiler has left for code, too.
LEMMA GoToAgrees ==
  ASSUME CommentInv, NEW q \in Nat, GoTo(q + 1),
         Plain(linebuf, q) => Scan(Begins, linebuf, q) = "code"
  PROVE  CommentInv'
<1>1. /\ UNCHANGED <<linebuf, out, in_comment_flag>>
      /\ linebufp' = q + 1 /\ pc' = "normal" /\ (q + 1) - 1 = q
  BY DEF GoTo
<1>2. InsideInv'
  BY <1>1 DEF InsideInv, Begins
<1> QED BY <1>1, <1>2, QuietAgrees

\* The next token: it is plain, and the compiler reads it as code.
LEMMA HereProp ==
  ASSUME TypeInv, InsideInv, pc = "normal", ~AtEnd
  PROVE  /\ linebufp \in 1..Len(linebuf) /\ Len(linebuf) \in Nat
         /\ Plain(linebuf, linebufp) =>
              /\ Here.t # "hidden"
              /\ Scan(Begins, linebuf, linebufp) = AfterToken("code", Here)
<1>1. linebufp \in 1..Len(linebuf) /\ Len(linebuf) \in Nat
  BY LenProperties DEF TypeInv, LineInv, Texts, AtEnd
<1> PICK p \in Nat : p = linebufp - 1
  BY <1>1
<1>2. p + 1 = linebufp
  BY <1>1
<1>3. Scan(Begins, linebuf, p + 1) = AfterToken(Scan(Begins, linebuf, p), linebuf[p + 1])
  BY BeginsProp, ScanNext
<1>4. ASSUME Plain(linebuf, linebufp) PROVE Here.t # "hidden" /\ Plain(linebuf, p)
  BY <1>1, <1>4 DEF Plain, Here
<1>5. Plain(linebuf, p) => Scan(Begins, linebuf, p) = "code"
  BY DEF InsideInv
<1> QED BY <1>1, <1>2, <1>3, <1>4, <1>5 DEF Here

\* From x on the compiler goes across tokens that do not end it; q is the one that does.
LEMMA AcrossProp ==
  ASSUME NEW at \in States, NEW toks, NEW p \in Nat, NEW q \in Nat, p < q, NEW x,
         Scan(at, toks, p) = x, \A k \in p+1..q-1 : AfterToken(x, toks[k]) = x
  PROVE  Scan(at, toks, q) = AfterToken(x, toks[q])
<1> PICK r \in Nat : r = q - 1
  OBVIOUS
<1>1. p <= r /\ \A k \in p+1..r : AfterToken(x, toks[k]) = x
  OBVIOUS
<1>2. Scan(at, toks, r) = x
  BY <1>1, ScanAcross
<1>3. Scan(at, toks, r + 1) = AfterToken(Scan(at, toks, r), toks[r + 1])
  BY ScanNext
<1> QED BY <1>2, <1>3

\* A comment that goes on: up to its end, or beyond the line.
LEMMA EndCommentAgrees == Inv /\ TypeInv /\ CommentInv /\ EndComment => CommentInv'
<1> SUFFICES ASSUME Inv, TypeInv, CommentInv, EndComment PROVE CommentInv'
  OBVIOUS
<1>1. DOMAIN linebuf = 1..Len(linebuf) /\ Len(linebuf) \in Nat
  BY LenProperties DEF TypeInv, LineInv, Texts
<1>2. ASSUME NEW q \in DOMAIN linebuf, First({"close"}, 1, q), GoTo(q + 1) PROVE CommentInv'
  <2>1. Begins = "comment" /\ Begins \in States
    BY BeginsProp DEF EndComment, Running, CommentInv, InsideInv, Begins
  <2>2. Scan(Begins, linebuf, 0) = "comment"
    BY <2>1, ScanNext
  <2>3. /\ \A k \in 0+1..q-1 : AfterToken("comment", linebuf[k]) = "comment"
        /\ AfterToken("comment", linebuf[q]) = "code"
    BY <1>2, AfterKinds DEF First
  <2>4. q \in Nat /\ 0 < q
    BY <1>1
  <2>5. Scan(Begins, linebuf, q) = "code"
    BY <2>1, <2>2, <2>3, <2>4, AcrossProp
  <2> QED BY <1>2, <2>4, <2>5, GoToAgrees
<1>3. ASSUME pc' = "astray", UNCHANGED <<out, in_comment_flag>> PROVE CommentInv'
  <2>1. InsideInv'
    BY <1>3 DEF EndComment, Running, CommentInv, InsideInv
  <2> QED BY <1>3, <2>1, QuietAgrees
<1> QED BY <1>2, <1>3 DEF EndComment

\* The scan has left the line: what is printed then is not Regular.
LEMMA AstrayAgrees == Inv /\ TypeInv /\ CommentInv /\ Astray => CommentInv'
<1> SUFFICES ASSUME Inv, TypeInv, CommentInv, Astray PROVE CommentInv'
  OBVIOUS
<1>1. ASSUME NEW flag \in BOOLEAN, EndLine(flag, TRUE) PROVE CommentInv'
  BY <1>1, EndLineAgrees
<1>2. ASSUME Stop("undefined") PROVE CommentInv'
  BY <1>2, QuietAgrees DEF Stop, CommentInv, InsideInv, Begins
<1> QED BY <1>1, <1>2 DEF Astray

\* The line ends, or what is left of it is a comment of the "//" kind.
LEMMA LineDoneAgrees == Inv /\ TypeInv /\ CommentInv /\ LineDone => CommentInv'
<1> SUFFICES ASSUME Inv, TypeInv, CommentInv, LineDone PROVE CommentInv'
  OBVIOUS
<1>1. EndLine(FALSE, FALSE) /\ pc = "normal" /\ (~AtEnd => Here.t = "slashes")
  BY DEF LineDone, Running
<1>2. /\ Len(linebuf) \in Nat /\ linebufp \in Nat \ {0} /\ linebufp <= Len(linebuf) + 1
  BY <1>1, LenProperties DEF TypeInv, LineInv, Texts
<1>3. ASSUME Plain(linebuf, Len(linebuf)) PROVE Scan(Begins, linebuf, Len(linebuf)) # "comment"
  <2>1. CASE AtEnd
    <3>1. linebufp - 1 = Len(linebuf)
      BY <1>2, <2>1 DEF AtEnd
    <3> QED BY <1>1, <1>3, <3>1 DEF CommentInv, InsideInv
  <2>2. CASE ~AtEnd
    <3>1. /\ linebufp \in 1..Len(linebuf)
          /\ Plain(linebuf, linebufp) => Scan(Begins, linebuf, linebufp) = "line"
      BY <1>1, <2>2, HereProp, AfterKinds DEF CommentInv
    <3>2. Plain(linebuf, linebufp) /\ linebufp \in Nat /\ linebufp <= Len(linebuf)
      BY <1>2, <1>3, <3>1 DEF Plain
    <3>3. \A k \in linebufp+1..Len(linebuf) : AfterToken("line", linebuf[k]) = "line"
      BY AfterKinds
    <3>4. Scan(Begins, linebuf, linebufp) = "line"
      BY <3>1, <3>2
    <3> QED BY <1>2, <3>2, <3>3, <3>4, BeginsProp, ScanAcross
  <2> QED BY <2>1, <2>2
<1> QED BY <1>1, <1>3, EndLineAgrees

\* A comment begins; it ends in the line, or goes on behind it.
LEMMA OpenCommentAgrees == Inv /\ TypeInv /\ CommentInv /\ OpenComment => CommentInv'
<1> SUFFICES ASSUME Inv, TypeInv, CommentInv, OpenComment PROVE CommentInv'
  OBVIOUS
<1>1. pc = "normal" /\ ~AtEnd /\ Here.t = "open"
  BY DEF OpenComment, At, Running
<1>2. /\ linebufp \in 1..Len(linebuf) /\ Len(linebuf) \in Nat
      /\ Plain(linebuf, linebufp) => Scan(Begins, linebuf, linebufp) = "comment"
  BY <1>1, HereProp, AfterKinds DEF CommentInv
<1>3. \A q \in 1..Len(linebuf) : linebufp <= q /\ Plain(linebuf, q) => Plain(linebuf, linebufp)
  BY <1>2 DEF Plain
<1>4. ASSUME NEW q \in linebufp+1..Len(linebuf), First({"close"}, linebufp + 1, q), GoTo(q + 1)
      PROVE  CommentInv'
  <2>1. /\ \A k \in linebufp+1..q-1 : AfterToken("comment", linebuf[k]) = "comment"
        /\ AfterToken("comment", linebuf[q]) = "code"
    BY <1>4, AfterKinds DEF First
  <2>2. q \in Nat /\ linebufp \in Nat /\ linebufp < q /\ q \in 1..Len(linebuf) /\ linebufp <= q
    BY <1>2
  <2>3. ASSUME Plain(linebuf, q) PROVE Scan(Begins, linebuf, q) = "code"
    <3>1. Scan(Begins, linebuf, linebufp) = "comment"
      BY <1>2, <1>3, <2>2, <2>3
    <3> QED BY <2>1, <2>2, <3>1, BeginsProp, AcrossProp
  <2> QED BY <1>4, <2>2, <2>3, GoToAgrees
<1>5. ASSUME None({"close"}, linebufp + 1), EndLine(TRUE, FALSE) PROVE CommentInv'
  <2>1. \A k \in linebufp+1..Len(linebuf) : AfterToken("comment", linebuf[k]) = "comment"
    BY <1>5, AfterKinds DEF None
  <2>2. linebufp \in Nat /\ linebufp <= Len(linebuf) /\ Len(linebuf) \in 1..Len(linebuf)
    BY <1>2
  <2>3. ASSUME Plain(linebuf, Len(linebuf)) PROVE Scan(Begins, linebuf, Len(linebuf)) = "comment"
    <3>1. Scan(Begins, linebuf, linebufp) = "comment"
      BY <1>2, <1>3, <2>2, <2>3
    <3> QED BY <1>2, <2>1, <2>2, <3>1, BeginsProp, ScanAcross
  <2> QED BY <1>5, <2>3, EndLineAgrees
<1> QED BY <1>4, <1>5 DEF OpenComment

\* A string; without hidden quotes the compiler ends it where prep does.
LEMMA StringAgrees == Inv /\ TypeInv /\ CommentInv /\ String => CommentInv'
<1> SUFFICES ASSUME Inv, TypeInv, CommentInv, String PROVE CommentInv'
  OBVIOUS
<1>1. pc = "normal" /\ ~AtEnd /\ Here.t \in Quotes
  BY DEF String, At, Running
<1>2. /\ linebufp \in 1..Len(linebuf) /\ Len(linebuf) \in Nat
      /\ Plain(linebuf, linebufp) => Scan(Begins, linebuf, linebufp) = "string"
  BY <1>1, HereProp, AfterKinds DEF CommentInv, Quotes
<1>3. \A q \in 1..Len(linebuf) : linebufp <= q /\ Plain(linebuf, q) => Plain(linebuf, linebufp)
  BY <1>2 DEF Plain
<1>4. ASSUME NEW q \in linebufp+1..Len(linebuf), First(Quotes, linebufp + 1, q), GoTo(q + 1)
      PROVE  CommentInv'
  <2>1. \A k \in linebufp+1..q-1 : AfterToken("string", linebuf[k]) = "string"
    BY <1>4, AfterKinds DEF First, Quotes
  <2>2. q \in Nat /\ linebufp \in Nat /\ linebufp < q /\ q \in 1..Len(linebuf) /\ linebufp <= q
    BY <1>2
  <2>3. ASSUME Plain(linebuf, q) PROVE Scan(Begins, linebuf, q) = "code"
    <3>1. Scan(Begins, linebuf, linebufp) = "string"
      BY <1>2, <1>3, <2>2, <2>3
    <3>2. linebuf[q].t = "quote"
      <4>1. q \in 1..q
        BY <2>2
      <4> QED BY <1>4, <2>3, <4>1 DEF First, Quotes, Plain
    <3>3. AfterToken("string", linebuf[q]) = "code"
      BY <3>2, AfterKinds
    <3> QED BY <2>1, <2>2, <3>1, <3>3, BeginsProp, AcrossProp
  <2> QED BY <1>4, <2>2, <2>3, GoToAgrees
<1>5. ASSUME None(Quotes, linebufp + 1), EndLine(FALSE, FALSE) PROVE CommentInv'
  <2>1. \A k \in linebufp+1..Len(linebuf) : AfterToken("string", linebuf[k]) = "string"
    BY <1>5, AfterKinds DEF None, Quotes
  <2>2. linebufp \in Nat /\ linebufp <= Len(linebuf) /\ Len(linebuf) \in 1..Len(linebuf)
    BY <1>2
  <2>3. ASSUME Plain(linebuf, Len(linebuf)) PROVE Scan(Begins, linebuf, Len(linebuf)) = "string"
    <3>1. Scan(Begins, linebuf, linebufp) = "string"
      BY <1>2, <1>3, <2>2, <2>3
    <3> QED BY <1>2, <2>1, <2>2, <3>1, BeginsProp, ScanAcross
  <2> QED BY <1>5, <2>3, EndLineAgrees
<1> QED BY <1>4, <1>5 DEF String

\* prep stops.
LEMMA StopAgrees ==
  ASSUME CommentInv, NEW e, Stop(e)
  PROVE  CommentInv'
BY QuietAgrees DEF Stop, CommentInv, InsideInv, Begins

\* Any other token, or a symbol that is not defined, is code to both.
LEMMA OtherAgrees == TypeInv /\ CommentInv /\ (OtherToken \/ PlainSymbol) => CommentInv'
<1> SUFFICES ASSUME TypeInv, CommentInv, OtherToken \/ PlainSymbol PROVE CommentInv'
  OBVIOUS
<1>1. /\ pc = "normal" /\ ~AtEnd /\ (GoTo(linebufp + 1) \/ Stop("symbol"))
      /\ Here.t \notin {"open", "slashes", "quote"}
  BY DEF OtherToken, PlainSymbol, At, Names, Running
<1>2. CASE Stop("symbol")
  BY <1>2, StopAgrees
<1>3. CASE GoTo(linebufp + 1)
  <2>1. /\ linebufp \in 1..Len(linebuf) /\ Len(linebuf) \in Nat
        /\ Plain(linebuf, linebufp) => Scan(Begins, linebuf, linebufp) = AfterToken("code", Here)
    BY <1>1, HereProp DEF CommentInv
  <2>2. AfterToken("code", Here) = "code"
    BY <1>1, AfterKinds
  <2> QED BY <1>3, <2>1, <2>2, GoToAgrees
<1> QED BY <1>1, <1>2, <1>3

\* What is put in stands behind what has been scanned.
LEMMA PutAgrees ==
  ASSUME TypeInv, CommentInv, pc = "normal", NEW toks \in Texts, NEW q \in Int,
         q >= linebufp, Put(toks, q)
  PROVE  CommentInv'
<1>1. UNCHANGED <<out, in_comment_flag, pc>>
  BY Zenon DEF Put
<1>2. linebufp' = linebufp /\ \A k \in 1..linebufp-1 : linebuf'[k] = linebuf[k]
  BY PutProp DEF TypeInv
<1> PICK p \in Nat : p = linebufp - 1
  BY DEF TypeInv, LineInv
<1>3. Scan(Begins, linebuf', p) = Scan(Begins, linebuf, p)
  BY <1>2, BeginsProp, ScanSame
<1>4. Plain(linebuf', p) => Plain(linebuf, p)
  BY <1>2 DEF Plain
<1>5. Begins' = Begins
  BY <1>1 DEF Begins
<1>6. InsideInv'
  BY <1>1, <1>2, <1>3, <1>4, <1>5 DEF CommentInv, InsideInv
<1> QED BY <1>1, <1>6, QuietAgrees

\* A replacement keeps CommentInv.
LEMMA ReplaceAgrees == TypeInv /\ CommentInv /\ (Replace \/ ReplaceCall) => CommentInv'
BY ReplacePuts, StopAgrees, PutAgrees

\* A line is read: where it begins is what the flag says.
LEMMA NextLineAgrees == Inv /\ TypeInv /\ CommentInv /\ NextLine => CommentInv'
<1> SUFFICES ASSUME Inv, TypeInv, CommentInv, NextLine PROVE CommentInv'
  OBVIOUS
<1>1. File.name \in Files /\ File.read + 1 \in 1..Len(text[File.name])
  <2>1. File \in IncData
    BY ElementOfSeq, LenProperties DEF Inv, StackInv, File
  <2> QED BY <2>1, LinesOfFiles DEF NextLine, IncData, TypeInv
<1>2. text[File.name][File.read + 1].kind \notin {"comment", "astray"}
  BY <1>1, LinesOfFiles DEF TypeInv
<1>3. /\ UNCHANGED <<out, in_comment_flag>> /\ linebufp' = 1
      /\ (pc' = "comment" <=> in_comment_flag) /\ pc' # "astray"
  BY <1>2 DEF NextLine
<1>4. Scan(Begins, linebuf', 0) = Begins
  BY BeginsProp, ScanNext
<1>5. linebufp' - 1 = 0 /\ Begins' = Begins /\ (pc' = "normal" => Begins = "code")
  BY <1>3 DEF Begins
<1>6. InsideInv'
  BY <1>3, <1>4, <1>5 DEF InsideInv
<1> QED BY <1>3, <1>6, QuietAgrees

\* The first marker leaves the compiler in code.
LEMMA InitAgrees == Init => CommentInv
<1> SUFFICES ASSUME Init PROVE CommentInv
  OBVIOUS
<1> DEFINE e == Marker(Main)
<1>1. e.numb = 0 /\ AfterLine("code", e.toks) = "code"
  BY MarkerToks DEF Marker
<1> HIDE DEF e
<1>2. out = <<e>>
  BY DEF Init, e
<1>3. Len(out) = 0 + 1 /\ out[0 + 1] = e /\ out[Len(out)] = e
  BY <1>2
<1>4. Behind(out, 0 + 1) = AfterLine(Behind(out, 0), out[0 + 1].toks) /\ Behind(out, 0) = "code"
  BY BehindNext
<1>5. OutsideInv
  BY <1>1, <1>3, <1>4 DEF OutsideInv, Init, Begins
<1>6. InsideInv
  BY DEF Init, InsideInv
<1>7. CommentsAgree
  BY <1>1, <1>3 DEF CommentsAgree
<1> QED BY <1>5, <1>6, <1>7 DEF CommentInv

\* In every state the two scanners stand where CommentInv says.
THEOREM CommentInvariant == Spec => []CommentInv
<1>1. Inv /\ TypeInv /\ CommentInv /\ [Next]_vars => CommentInv'
  <2> SUFFICES ASSUME Inv, TypeInv, CommentInv, [Next]_vars PROVE CommentInv'
    OBVIOUS
  <2>1. CASE Include \/ EndOfFile
    <3>1. CASE UNCHANGED <<out, in_comment_flag, linebuf, linebufp>> /\ pc' \in {pc, "done"}
      <4>1. InsideInv'
        BY <3>1 DEF CommentInv, InsideInv, Begins
      <4> QED BY <3>1, <4>1, QuietAgrees
    <3>2. CASE pc' = "read" /\ UNCHANGED in_comment_flag /\ \E f : out' = Append(out, Marker(f))
      BY <3>2, MarkerAgrees
    <3> QED BY <2>1, <3>1, <3>2 DEF Include, EndOfFile, Running, Stop
  <2>2. CASE Define
    <3>1. /\ UNCHANGED <<out, in_comment_flag, linebuf, linebufp>>
          /\ pc' \in {pc, "read"}
      BY <2>2, DefineCases DEF Enter, Stop
    <3>2. InsideInv'
      BY <3>1 DEF CommentInv, InsideInv, Begins
    <3> QED BY <3>1, <3>2, QuietAgrees
  <2>3. CASE OtherDirective
    BY <2>3, StopAgrees DEF OtherDirective
  <2>4. CASE UNCHANGED vars
    BY <2>4, QuietAgrees DEF vars, CommentInv, InsideInv, Begins
  <2> QED BY <2>1, <2>2, <2>3, <2>4, NextLineAgrees, EndCommentAgrees, AstrayAgrees,
             LineDoneAgrees, OpenCommentAgrees, StringAgrees, OtherAgrees, ReplaceAgrees DEF Next
<1>2. Inv /\ TypeInv /\ [Next]_vars => TypeInv'
  BY TypeStep
<1>3. Spec => []Inv
  BY PrepInvariant
<1> QED BY <1>1, <1>2, <1>3, InitType, InitAgrees, PTL DEF Spec

\* As long as no comment has a line that neither begins nor ends it (prep.cpp:464), no file
\* ends in a comment and no quote is hidden, prep and the compiler take the same lines for
\* comments, whatever is included and defined.
THEOREM CommentsDoAgree == Spec => []CommentsAgree
<1>1. CommentInv => CommentsAgree
  BY DEF CommentInv
<1> QED BY <1>1, CommentInvariant, PTL

------------------------------------------------------------------------------
\* Inclusion: what the operators of PrepInclusion are

Records == [numb : Nat, file : Files]
Results == [at : Starts, lines : Seq(Records)]
Nothing == [at |-> "code", lines |-> <<>>]

\* The file and the number of an entry.
LEMMA EntryProp ==
  ASSUME NEW f \in Files, NEW n \in Nat
  PROVE  Entry(f, n) \in Records /\ <<Entry(f, n)>> \in Seq(Records)
<1>1. Entry(f, n) \in Records
  BY DEF Entry, Records
<1> QED BY <1>1

\* Nothing is a result of the reading.
LEMMA NothingProp == Nothing \in Results
BY DEF Nothing, Results, Starts

\* What line k of f makes of what there is before it.
LineOf(lines, f, k, included, before) ==
  IF before.at = "code" /\ lines[k].kind = "include" /\ lines[k].name \in Files
    THEN [at |-> included[lines[k].name].at,
          lines |-> before.lines
                      \o (<<Entry(lines[k].name, 0)>> \o included[lines[k].name].lines)
                      \o <<Entry(f, 0)>>]
  ELSE IF before.at = "code" /\ lines[k].kind # "text"
    THEN before
  ELSE [at |-> AfterLine(before.at, lines[k].toks),
        lines |-> before.lines \o <<Entry(f, k)>>]

\* It is a result.
LEMMA LineOfProp ==
  ASSUME NEW lines, NEW f \in Files, NEW k \in Nat, NEW included \in [Files -> Results],
         NEW before \in Results
  PROVE  LineOf(lines, f, k, included, before) \in Results
<1>1. before.at \in Starts /\ before.lines \in Seq(Records)
  BY DEF Results
<1>2. <<Entry(f, 0)>> \in Seq(Records) /\ <<Entry(f, k)>> \in Seq(Records)
  BY EntryProp
<1>3. CASE before.at = "code" /\ lines[k].kind = "include" /\ lines[k].name \in Files
  <2> DEFINE inner == included[lines[k].name]
             one == <<Entry(lines[k].name, 0)>>
  <2>1. inner.at \in Starts /\ inner.lines \in Seq(Records)
    BY <1>3 DEF Results
  <2>2. one \in Seq(Records)
    BY <1>3, EntryProp
  <2>3. LineOf(lines, f, k, included, before) =
          [at |-> inner.at, lines |-> before.lines \o (one \o inner.lines) \o <<Entry(f, 0)>>]
    BY <1>3 DEF LineOf
  <2> HIDE DEF inner, one
  <2>4. before.lines \o (one \o inner.lines) \o <<Entry(f, 0)>> \in Seq(Records)
    BY <1>1, <1>2, <2>1, <2>2, ConcatProperties
  <2> QED BY <2>1, <2>3, <2>4 DEF Results
<1>4. CASE /\ ~(before.at = "code" /\ lines[k].kind = "include" /\ lines[k].name \in Files)
           /\ before.at = "code" /\ lines[k].kind # "text"
  BY <1>4 DEF LineOf
<1>5. CASE /\ ~(before.at = "code" /\ lines[k].kind = "include" /\ lines[k].name \in Files)
           /\ ~(before.at = "code" /\ lines[k].kind # "text")
  <2>1. LineOf(lines, f, k, included, before) =
          [at |-> AfterLine(before.at, lines[k].toks),
           lines |-> before.lines \o <<Entry(f, k)>>]
    BY <1>5 DEF LineOf
  <2>2. before.lines \o <<Entry(f, k)>> \in Seq(Records)
    BY <1>1, <1>2, ConcatProperties
  <2> QED BY <2>1, <2>2, AfterLineProp DEF Results
<1> QED BY <1>3, <1>4, <1>5

\* All lines of a file, as steps.
Linesteps(lines, f, n, included) ==
  [k \in 1..n |-> [x \in Results |-> LineOf(lines, f, k, included, x)]]

\* A file is an iteration over its lines.
LEMMA CopiedIterates ==
  ASSUME NEW lines, NEW f \in Files, NEW n \in Nat, NEW included \in [Files -> Results]
  PROVE  \E g : /\ g[n] = Copied(lines, f, n, included)
                /\ Iterates(g, n, Results, Nothing, Linesteps(lines, f, n, included))
<1> DEFINE step == Linesteps(lines, f, n, included)
           F(g) == g = [k \in 0..n |-> IF k = 0 THEN Nothing
                                       ELSE LineOf(lines, f, k, included, g[k-1])]
           g == CHOOSE x : F(x)
<1>1. step \in [1..n -> [Results -> Results]]
  BY LineOfProp DEF Linesteps
<1>2. PICK h : Iterates(h, n, Results, Nothing, step)
  <2> HIDE DEF step
  <2> QED BY <1>1, NothingProp, Recursion
<1>3. ASSUME NEW k \in 1..n PROVE h[k] = LineOf(lines, f, k, included, h[k-1])
  <2>1. k - 1 \in 0..n /\ h[k-1] \in Results
    BY <1>2 DEF Iterates
  <2>2. h[k] = step[k][h[k-1]]
    BY <1>2 DEF Iterates
  <2> QED BY <2>1, <2>2 DEF Linesteps
<1>4. F(h)
  BY <1>2, <1>3 DEF Iterates
<1>5. F(g)
  <2> HIDE DEF F
  <2> QED BY <1>4
<1>6. Copied(lines, f, n, included) = g[n]
  BY DEF Copied, LineOf, Nothing
<1> HIDE DEF g
<1>7. g[0] = Nothing /\ \A k \in 1..n : g[k] = LineOf(lines, f, k, included, g[k-1])
  BY <1>5
<1>8. \A k \in 0..n : g[k] \in Results
  <2> DEFINE S == {k \in Nat : g[k] \in Results}
  <2>1. 0 \in S
    BY <1>7, NothingProp
  <2>2. \A k \in 1..n : k - 1 \in S => k \in S
    BY <1>7, LineOfProp
  <2>3. \A k \in 0..n : k \in S
    <3>1. S \in SUBSET Nat
      OBVIOUS
    <3> HIDE DEF S
    <3> QED BY <2>1, <2>2, <3>1, UpTo
  <2> QED BY <2>3
<1>9. Iterates(g, n, Results, Nothing, step)
  <2>1. g \in [0..n -> Results]
    BY <1>5, <1>8
  <2>2. ASSUME NEW k \in 1..n PROVE g[k] = step[k][g[k-1]]
    <3>1. k - 1 \in 0..n /\ g[k-1] \in Results
      BY <1>8
    <3> QED BY <1>7, <3>1 DEF Linesteps
  <2> HIDE DEF step
  <2> QED BY <1>7, <2>1, <2>2 DEF Iterates
<1> QED BY <1>6, <1>9

\* At the start, and one line further.
LEMMA CopiedNext ==
  ASSUME NEW lines, NEW f \in Files, NEW n \in Nat, NEW included \in [Files -> Results]
  PROVE  /\ Copied(lines, f, n, included) \in Results
         /\ n = 0 => Copied(lines, f, n, included) = Nothing
         /\ Copied(lines, f, n + 1, included)
              = LineOf(lines, f, n + 1, included, Copied(lines, f, n, included))
<1> DEFINE step(m) == Linesteps(lines, f, m, included)
<1>1. PICK g : g[n] = Copied(lines, f, n, included) /\ Iterates(g, n, Results, Nothing, step(n))
  BY CopiedIterates
<1>2. PICK m \in Nat : m = n + 1
  OBVIOUS
<1>3. PICK h : h[m] = Copied(lines, f, m, included) /\ Iterates(h, m, Results, Nothing, step(m))
  BY CopiedIterates
<1>4. g[n] = h[n]
  <2>1. n <= m /\ \A k \in 1..n : step(n)[k] = step(m)[k]
    BY <1>2 DEF Linesteps
  <2> HIDE DEF step
  <2> QED BY <1>1, <1>3, <2>1, IteratesOnce
<1>5. h[m] = step(m)[m][h[n]] /\ h[n] \in Results
  BY <1>2, <1>3 DEF Iterates
<1>6. h[m] = LineOf(lines, f, m, included, h[n])
  BY <1>2, <1>5 DEF Linesteps
<1>7. n = 0 => g[n] = Nothing
  BY <1>1 DEF Iterates
<1> QED BY <1>1, <1>2, <1>3, <1>4, <1>5, <1>6, <1>7

\* Files that include others, one depth more.
Deeper(contents, x) == [f \in Files |-> Copied(contents[f], f, Len(contents[f]), x)]

\* Flat goes from depth to depth.
LEMMA FlatProp ==
  ASSUME NEW contents, \A f \in Files : Len(contents[f]) \in Nat
  PROVE  /\ \A d \in 0..MAX_INFILE : Flat(contents)[d] \in [Files -> Results]
         /\ \A d \in 1..MAX_INFILE : Flat(contents)[d] = Deeper(contents, Flat(contents)[d-1])
<1> DEFINE T == [Files -> Results]
           N == MAX_INFILE
           base == [f \in Files |-> Nothing]
           step == [k \in 1..N |-> [x \in T |-> Deeper(contents, x)]]
           F(g) == g = [d \in 0..N |->
                         [f \in Files |-> IF d = 0 THEN Nothing
                            ELSE Copied(contents[f], f, Len(contents[f]), g[d-1])]]
           g == CHOOSE x : F(x)
<1>0. N \in Nat
  BY LimitsAssumption
<1>1. ASSUME NEW x \in T PROVE Deeper(contents, x) \in T
  BY CopiedNext DEF Deeper
<1>2. PICK h : Iterates(h, N, T, base, step)
  <2>1. step \in [1..N -> [T -> T]]
    <3> HIDE DEF T
    <3> QED BY <1>1
  <2>2. base \in T
    BY NothingProp
  <2> HIDE DEF step, N, T, base
  <2> QED BY <1>0, <2>1, <2>2, Recursion
<1>3. ASSUME NEW k \in 1..N PROVE h[k] = Deeper(contents, h[k-1])
  <2> HIDE DEF T
  <2>1. k - 1 \in 0..N /\ h[k-1] \in T
    BY <1>0, <1>2 DEF Iterates
  <2>2. h[k] = step[k][h[k-1]]
    BY <1>2 DEF Iterates
  <2> QED BY <2>1, <2>2
<1>4. F(h)
  <2>1. h \in [0..N -> T] /\ h[0] = base
    BY <1>2 DEF Iterates
  <2>2. ASSUME NEW d \in 0..N
        PROVE  h[d] = [f \in Files |-> IF d = 0 THEN Nothing
                         ELSE Copied(contents[f], f, Len(contents[f]), h[d-1])]
    <3>1. CASE d = 0
      BY <2>1, <3>1
    <3>2. CASE d # 0
      <4>1. d \in 1..N
        BY <1>0, <3>2
      <4> QED BY <1>3, <3>2, <4>1 DEF Deeper
    <3> QED BY <3>1, <3>2
  <2> QED BY <2>1, <2>2
<1>5. F(g)
  <2> HIDE DEF F
  <2> QED BY <1>4
<1>6. Flat(contents) = g
  BY DEF Flat, Nothing
<1> HIDE DEF g
<1>7. g[0] = base /\ \A d \in 1..N : g[d] = Deeper(contents, g[d-1])
  <2>1. 0 \in 0..N /\ \A d \in 1..N : d \in 0..N /\ d # 0
    BY <1>0
  <2> HIDE DEF N
  <2> QED BY <1>5, <2>1 DEF Deeper
<1>8. \A d \in 0..N : g[d] \in T
  <2> DEFINE S == {k \in Nat : g[k] \in T}
  <2>1. 0 \in S
    BY <1>7, NothingProp
  <2>2. \A k \in 1..N : k - 1 \in S => k \in S
    <3> HIDE DEF T, N
    <3> QED BY <1>0, <1>1, <1>7
  <2>3. \A k \in 0..N : k \in S
    <3>1. S \in SUBSET Nat
      OBVIOUS
    <3> HIDE DEF S, N
    <3> QED BY <1>0, <2>1, <2>2, <3>1, UpTo
  <2> QED BY <2>3
<1> QED BY <1>6, <1>7, <1>8

------------------------------------------------------------------------------
\* The output as pieces, one for each open file

\* Up to and with piece n, the pieces make s.
Joined(P, n, s) ==
  \E w \in [0..n -> Seq(Records)] :
    w[0] = <<>> /\ (\A k \in 1..n : w[k] = w[k-1] \o P[k]) /\ w[n] = s

\* The order in which pieces are put together does not matter.
LEMMA Regrouped ==
  ASSUME NEW a \in Seq(Records), NEW b \in Seq(Records), NEW c \in Seq(Records)
  PROVE  (a \o b) \o c = a \o (b \o c)
BY ConcatAssociative

\* The last piece goes on.
LEMMA JoinedTop ==
  ASSUME NEW n \in Nat \ {0}, NEW P, NEW Q, NEW s, NEW x \in Seq(Records), Joined(P, n, s),
         P[n] \in Seq(Records), \A k \in 1..n-1 : Q[k] = P[k], Q[n] = P[n] \o x
  PROVE  Joined(Q, n, s \o x)
<1>1. PICK w \in [0..n -> Seq(Records)] :
        w[0] = <<>> /\ (\A k \in 1..n : w[k] = w[k-1] \o P[k]) /\ w[n] = s
  BY DEF Joined
<1> DEFINE v == [k \in 0..n |-> IF k = n THEN s \o x ELSE w[k]]
<1>2. s \in Seq(Records) /\ s \o x \in Seq(Records)
  <2>1. n \in 0..n
    OBVIOUS
  <2> QED BY <1>1, <2>1, ConcatProperties
<1>3. v \in [0..n -> Seq(Records)] /\ v[0] = <<>> /\ v[n] = s \o x
  BY <1>1, <1>2
<1>4. ASSUME NEW k \in 1..n PROVE v[k] = v[k-1] \o Q[k]
  <2>1. k - 1 \in 0..n /\ k - 1 # n /\ k \in 0..n
    OBVIOUS
  <2>2. v[k-1] = w[k-1] /\ w[k-1] \in Seq(Records) /\ w[k] = w[k-1] \o P[k]
    BY <1>1, <2>1
  <2>3. CASE k = n
    <3>1. v[k] = (w[k-1] \o P[k]) \o x
      BY <1>1, <2>1, <2>2, <2>3
    <3>2. (w[k-1] \o P[k]) \o x = w[k-1] \o (P[k] \o x)
      <4>1. PICK a \in Seq(Records) : a = w[k-1]
        BY <2>2
      <4>2. PICK b \in Seq(Records) : b = P[k]
        BY <2>3
      <4>3. (a \o b) \o x = a \o (b \o x)
        BY <4>1, <4>2, Regrouped
      <4> QED BY <4>1, <4>2, <4>3
    <3> QED BY <2>2, <2>3, <3>1, <3>2
  <2>4. CASE k # n
    <3>1. k \in 1..n-1 /\ v[k] = w[k]
      BY <2>1, <2>4
    <3> QED BY <2>2, <3>1
  <2> QED BY <2>3, <2>4
<1> HIDE DEF v
<1> QED BY <1>3, <1>4 DEF Joined

\* A piece more.
LEMMA JoinedPush ==
  ASSUME NEW n \in Nat, NEW P, NEW Q, NEW s, NEW x \in Seq(Records), Joined(P, n, s),
         \A k \in 1..n : Q[k] = P[k], Q[n + 1] = x
  PROVE  Joined(Q, n + 1, s \o x)
<1>1. PICK w \in [0..n -> Seq(Records)] :
        w[0] = <<>> /\ (\A k \in 1..n : w[k] = w[k-1] \o P[k]) /\ w[n] = s
  BY DEF Joined
<1> DEFINE v == [k \in 0..n+1 |-> IF k = n + 1 THEN s \o x ELSE w[k]]
<1>2. s \in Seq(Records) /\ s \o x \in Seq(Records)
  <2>1. n \in 0..n
    OBVIOUS
  <2> QED BY <1>1, <2>1, ConcatProperties
<1>3. v \in [0..n+1 -> Seq(Records)] /\ v[0] = <<>> /\ v[n + 1] = s \o x
  BY <1>1, <1>2
<1>4. ASSUME NEW k \in 1..n+1 PROVE v[k] = v[k-1] \o Q[k]
  <2>1. k - 1 \in 0..n /\ k - 1 \in 0..n+1 /\ k - 1 # n + 1 /\ k \in 0..n+1
    OBVIOUS
  <2>2. v[k-1] = w[k-1]
    BY <2>1
  <2>3. CASE k = n + 1
    <3>1. k - 1 = n
      BY <2>3
    <3>2. v[k] = s \o x
      BY <2>1, <2>3
    <3> HIDE DEF v
    <3> QED BY <1>1, <2>2, <2>3, <3>1, <3>2
  <2>4. CASE k # n + 1
    <3>1. k \in 1..n /\ v[k] = w[k]
      BY <2>1, <2>4
    <3> QED BY <1>1, <2>2, <3>1
  <2> QED BY <2>3, <2>4
<1> HIDE DEF v
<1> QED BY <1>3, <1>4 DEF Joined

\* The last piece becomes a part of the one before it.
LEMMA JoinedPop ==
  ASSUME NEW n \in Nat \ {0}, NEW P, NEW Q, NEW s, NEW x \in Seq(Records), Joined(P, n + 1, s),
         P[n] \in Seq(Records), P[n + 1] \in Seq(Records), \A k \in 1..n-1 : Q[k] = P[k],
         Q[n] = P[n] \o (P[n + 1] \o x)
  PROVE  Joined(Q, n, s \o x)
<1>1. PICK w \in [0..n+1 -> Seq(Records)] :
        w[0] = <<>> /\ (\A k \in 1..n+1 : w[k] = w[k-1] \o P[k]) /\ w[n + 1] = s
  BY DEF Joined
<1> DEFINE v == [k \in 0..n |-> w[k]]
<1>2. Joined(P, n, w[n])
  <2>1. v \in [0..n -> Seq(Records)] /\ v[0] = <<>> /\ v[n] = w[n]
    BY <1>1
  <2>2. ASSUME NEW k \in 1..n PROVE v[k] = v[k-1] \o P[k]
    <3>1. k - 1 \in 0..n /\ k \in 0..n /\ k \in 1..n+1
      OBVIOUS
    <3> QED BY <1>1, <3>1
  <2> HIDE DEF v
  <2> QED BY <2>1, <2>2 DEF Joined
<1>3. P[n + 1] \o x \in Seq(Records)
  BY ConcatProperties
<1>4. Joined(Q, n, w[n] \o (P[n + 1] \o x))
  BY <1>2, <1>3, JoinedTop
<1>5. s = w[n] \o P[n + 1] /\ w[n] \in Seq(Records)
  <2>1. n + 1 \in 1..n+1 /\ (n + 1) - 1 = n /\ n \in 0..n+1
    OBVIOUS
  <2> QED BY <1>1, <2>1
<1>6. s \o x = w[n] \o (P[n + 1] \o x)
  <2>1. PICK a \in Seq(Records) : a = w[n]
    BY <1>5
  <2>2. PICK b \in Seq(Records) : b = P[n + 1]
    OBVIOUS
  <2>3. (a \o b) \o x = a \o (b \o x)
    BY Regrouped
  <2> QED BY <1>5, <2>1, <2>2, <2>3
<1> QED BY <1>4, <1>6

\* A line more in the output.
LEMMA EntriesNext ==
  ASSUME NEW S, NEW lines \in Seq(S), NEW e, e.file \in Files, e.numb \in Nat,
         Entries(lines) \in Seq(Records)
  PROVE  Entries(Append(lines, e)) = Entries(lines) \o <<Entry(e.file, e.numb)>>
<1> DEFINE n == Len(lines)
           x == Entry(e.file, e.numb)
           s == Entries(lines)
           new == Append(lines, e)
<1>1. /\ Len(new) = n + 1 /\ n \in Nat /\ new[n + 1] = e
      /\ \A k \in 1..n : new[k] = lines[k]
  BY Appended
<1>2. x \in Records
  BY EntryProp
<1>3. s = [k \in 1..n |-> Entry(lines[k].file, lines[k].numb)]
  BY DEF Entries
<1>4. Entries(new) = [k \in 1..Len(new) |-> Entry(new[k].file, new[k].numb)]
  BY DEF Entries
<1>5. Len(s) = n
  <2>1. DOMAIN s = 1..n
    BY <1>3
  <2>2. DOMAIN s = 1..Len(s) /\ Len(s) \in Nat
    BY LenProperties
  <2> HIDE DEF s, n
  <2> QED BY <1>1, <2>1, <2>2
<1> HIDE DEF n, x, s, new
<1>6. s \in Seq(Records)
  BY DEF s
<1>7. /\ Append(s, x) \in Seq(Records) /\ Len(Append(s, x)) = n + 1
      /\ \A k \in 1..n : Append(s, x)[k] = s[k]
      /\ Append(s, x)[n + 1] = x
  BY <1>2, <1>5, <1>6, AppendProperties
<1>8. Append(s, x) = Entries(new)
  <2>1. DOMAIN Append(s, x) = 1..n+1 /\ DOMAIN Entries(new) = 1..n+1
    BY <1>1, <1>4, <1>7, LenProperties
  <2>2. ASSUME NEW k \in 1..n+1 PROVE Append(s, x)[k] = Entries(new)[k]
    <3>1. CASE k = n + 1
      <4>1. Entries(new)[k] = Entry(new[k].file, new[k].numb)
        BY <1>1, <1>4
      <4>2. new[k] = e
        BY <1>1, <3>1
      <4> QED BY <1>7, <3>1, <4>1, <4>2 DEF x
    <3>2. CASE k # n + 1
      <4>1. k \in 1..n
        BY <1>1, <3>2
      <4> QED BY <1>1, <1>3, <1>4, <1>7, <4>1
    <3> QED BY <3>1, <3>2
  <2>3. Entries(new) \in Seq(Records) /\ Len(Entries(new)) = n + 1
    <3>1. Entries(new) \in [1..n+1 -> Records]
      <4>1. ASSUME NEW k \in 1..n+1 PROVE Append(s, x)[k] \in Records
        BY <1>7, <4>1, ElementOfSeq
      <4> QED BY <1>1, <1>4, <2>1, <2>2, <4>1
    <3> QED BY <1>1, <3>1
  <2> QED BY <1>1, <1>7, <2>2, <2>3, SeqEqual
<1>9. Append(s, x) = s \o <<x>>
  BY <1>2, <1>6, AppendIsConcat
<1> QED BY <1>8, <1>9 DEF s, x, new

------------------------------------------------------------------------------
\* Inclusion: the invariant

\* Whether a line of file k of the stack has been read and not been dealt with, so that
\* it is not counted: the line being processed, or the #include that file k + 1 is for.
InWork(k) == k # Len(inc_data) \/ pc \notin {"read", "done"}
DoneOf(k) == IF InWork(k) THEN inc_data[k].read - 1 ELSE inc_data[k].read

\* What should be in the output for the lines of file k that are done; a file that it
\* includes may include others up to the depth the rest of the stack has room for.
PartOf(t, f, n, k) == Copied(t[f], f, n, Flat(t)[MAX_INFILE - k])
Part(k) == PartOf(text, inc_data[k].name, DoneOf(k), k)
Pieces == [k \in 1..Len(inc_data) |-> <<Entry(inc_data[k].name, 0)>> \o Part(k).lines]

\* Each file below the innermost one stands at the #include of the next.
LeadsOn(k) ==
  LET line == text[inc_data[k].name][inc_data[k].read]
  IN inc_data[k].read > 0 /\ line.kind = "include" /\ line.name = inc_data[k + 1].name

\* A directive is one, and outside comments; a line of C is none, or in a comment.
PathInv ==
  /\ inc_data[1].name = Main
  /\ \A k \in 1..Len(inc_data)-1 : LeadsOn(k)
  /\ pc \in {"include", "define"} => Line.kind = pc /\ ~in_comment_flag
  /\ pc = "normal" => Line.kind = "text" \/ in_comment_flag
  /\ pc = "done" => Len(inc_data) = 1 /\ File.read = Len(text[File.name])

\* The output is, from the bottom of the stack to its top, what should be there.
Correct ==
  /\ Part(Len(inc_data)).at = Begins
  /\ \A k \in 1..Len(inc_data)-1 : Part(k).at = "code"
  /\ Joined(Pieces, Len(inc_data), Entries(out))
OutputInv == Regular(Len(out)) /\ Settled(Len(out)) => Correct

\* What is known of the stack.
LEMMA StackProp ==
  ASSUME Inv, FilesInv
  PROVE  /\ inc_data \in Seq(IncData) /\ Len(inc_data) \in 1..MAX_INFILE
         /\ File = inc_data[Len(inc_data)] /\ MAX_INFILE \in Nat
         /\ \A k \in 1..Len(inc_data) :
              /\ inc_data[k] \in IncData /\ inc_data[k].name \in Files
              /\ inc_data[k].read \in Nat
              /\ inc_data[k].read <= Len(text[inc_data[k].name])
              /\ Len(text[inc_data[k].name]) \in Nat
<1>1. inc_data \in Seq(IncData) /\ Len(inc_data) \in Nat /\ Len(inc_data) > 0
  BY LenProperties DEF Inv, StackInv
<1>2. MAX_INFILE \in Nat /\ Len(inc_data) <= MAX_INFILE
  BY LimitsAssumption DEF FilesInv
<1>3. ASSUME NEW k \in 1..Len(inc_data)
      PROVE  /\ inc_data[k] \in IncData /\ inc_data[k].name \in Files
             /\ inc_data[k].read \in Nat
             /\ inc_data[k].read <= Len(text[inc_data[k].name])
             /\ Len(text[inc_data[k].name]) \in Nat
  <2>1. inc_data[k] \in IncData
    BY <1>1, ElementOfSeq
  <2>2. inc_data[k].name \in Files /\ inc_data[k].read \in Nat
    BY <2>1 DEF IncData
  <2>3. inc_data[k].read <= Len(text[inc_data[k].name])
    BY DEF FilesInv
  <2> QED BY <2>1, <2>2, <2>3, LinesOfFiles
<1> QED BY <1>1, <1>2, <1>3 DEF File

\* Behind no line, and one line further.
LEMMA PartProp ==
  ASSUME FilesInv, NEW f \in Files, NEW n \in Nat, NEW k \in 1..MAX_INFILE
  PROVE  /\ PartOf(text, f, n, k) \in Results
         /\ PartOf(text, f, 0, k) = Nothing
         /\ PartOf(text, f, n + 1, k)
              = LineOf(text[f], f, n + 1, Flat(text)[MAX_INFILE - k], PartOf(text, f, n, k))
<1>1. \A g \in Files : Len(text[g]) \in Nat
  BY LinesOfFiles
<1>2. MAX_INFILE - k \in 0..MAX_INFILE
  BY LimitsAssumption
<1>3. Flat(text)[MAX_INFILE - k] \in [Files -> Results]
  BY <1>1, <1>2, FlatProp
<1>4. PartOf(text, f, 0, k) = Nothing
  BY <1>3, CopiedNext DEF PartOf
<1> QED BY <1>3, <1>4, CopiedNext DEF PartOf

\* A part is a result, and a piece a sequence of entries.
LEMMA PieceProp ==
  ASSUME Inv, FilesInv, PathInv, NEW k \in 1..Len(inc_data)
  PROVE  /\ DoneOf(k) \in Nat /\ Part(k) \in Results /\ Part(k).lines \in Seq(Records)
         /\ Pieces[k] = <<Entry(inc_data[k].name, 0)>> \o Part(k).lines
         /\ <<Entry(inc_data[k].name, 0)>> \in Seq(Records) /\ Pieces[k] \in Seq(Records)
<1>1. k \in 1..MAX_INFILE /\ inc_data[k].name \in Files /\ inc_data[k].read \in Nat
  BY StackProp
<1>2. InWork(k) => inc_data[k].read > 0
  <2>1. CASE k # Len(inc_data)
    <3>1. k \in 1..Len(inc_data)-1
      BY <2>1, StackProp
    <3> QED BY <3>1 DEF PathInv, LeadsOn
  <2>2. CASE k = Len(inc_data) /\ pc \notin {"read", "done"}
    BY <2>2, StackProp DEF Inv, NumberInv
  <2> QED BY <2>1, <2>2 DEF InWork
<1>3. DoneOf(k) \in Nat
  BY <1>1, <1>2 DEF DoneOf
<1>4. Part(k) \in Results
  BY <1>1, <1>3, PartProp DEF Part
<1>5. Part(k).lines \in Seq(Records)
  BY <1>4 DEF Results
<1>6. <<Entry(inc_data[k].name, 0)>> \in Seq(Records)
  BY <1>1, EntryProp
<1>7. Pieces[k] = <<Entry(inc_data[k].name, 0)>> \o Part(k).lines
  BY DEF Pieces
<1> QED BY <1>3, <1>4, <1>5, <1>6, <1>7, ConcatProperties

\* Where the line that is being processed takes its file.
LEMMA TopProp ==
  ASSUME Inv, FilesInv, pc \notin {"read", "done"}
  PROVE  LET n == Len(inc_data) IN
         /\ DoneOf(n) \in Nat /\ DoneOf(n) + 1 = File.read
         /\ File.read \in 1..Len(text[File.name])
         /\ PartOf(text, File.name, File.read, n)
              = LineOf(text[File.name], File.name, File.read, Flat(text)[MAX_INFILE - n], Part(n))
<1> DEFINE n == Len(inc_data)
<1>1. n \in 1..MAX_INFILE /\ n \in 1..n /\ File = inc_data[n]
  BY StackProp
<1>2. File.name \in Files /\ File.read \in Nat /\ File.read <= Len(text[File.name])
      /\ Len(text[File.name]) \in Nat
  BY <1>1, StackProp
<1>3. File.read > 0
  BY DEF Inv, NumberInv
<1>4. DoneOf(n) = File.read - 1
  BY <1>1 DEF DoneOf, InWork
<1>5. DoneOf(n) \in Nat /\ DoneOf(n) + 1 = File.read
  BY <1>2, <1>3, <1>4
<1>6. Part(n) = PartOf(text, File.name, DoneOf(n), n)
  BY <1>1 DEF Part
<1> HIDE DEF n
<1>7. PICK m \in Nat : m = DoneOf(n)
  BY <1>5
<1>8. PartOf(text, File.name, m + 1, n)
        = LineOf(text[File.name], File.name, m + 1, Flat(text)[MAX_INFILE - n],
                 PartOf(text, File.name, m, n))
  BY <1>1, <1>2, PartProp
<1> QED BY <1>2, <1>3, <1>5, <1>6, <1>7, <1>8 DEF n

------------------------------------------------------------------------------
\* Inclusion: the steps

\* Nothing is printed, and no line is done that should be.
LEMMA OutputSame ==
  ASSUME OutputInv, UNCHANGED <<text, out, in_comment_flag>>, Len(inc_data') = Len(inc_data),
         Len(inc_data) \in Nat \ {0},
         \A k \in 1..Len(inc_data) : inc_data'[k].name = inc_data[k].name /\ Part(k)' = Part(k)
  PROVE  OutputInv'
<1>1. (Regular(Len(out)) /\ Settled(Len(out)))' => Regular(Len(out)) /\ Settled(Len(out))
  BY DEF Regular, Settled
<1>2. Begins' = Begins /\ Entries(out)' = Entries(out)
  BY DEF Begins
<1>3. Pieces' = Pieces
  BY DEF Pieces
<1>4. Len(inc_data) \in 1..Len(inc_data)
      /\ \A k \in 1..Len(inc_data)-1 : k \in 1..Len(inc_data)
  OBVIOUS
<1>5. Correct => Correct'
  BY <1>2, <1>3, <1>4 DEF Correct
<1> QED BY <1>1, <1>5 DEF OutputInv

\* A line is printed: it is the next one of its file, and leaves the compiler where the
\* rule says.
LEMMA LinePrinted ==
  ASSUME Inv, TypeInv, CommentInv, CommentInv', PathInv, OutputInv, NEW flag, NEW astray,
         EndLine(flag, astray), pc \in {"normal", "comment", "astray"}
  PROVE  OutputInv'
<1> SUFFICES ASSUME Regular(Len(out))', Settled(Len(out))' PROVE Correct'
  BY DEF OutputInv
<1> PICK n \in 1..MAX_INFILE : n = Len(inc_data)
  BY StackProp DEF TypeInv
<1> DEFINE e == Numbered(astray)
           x == <<Entry(File.name, File.read)>>
<1>1. FilesInv /\ n = Len(inc_data) /\ n \in 1..n /\ n \in Nat \ {0} /\ File = inc_data[n]
      /\ File.name \in Files /\ File.read \in Nat
  BY StackProp DEF TypeInv
<1>2. /\ DoneOf(n) \in Nat /\ File.read \in 1..Len(text[File.name])
      /\ PartOf(text, File.name, File.read, n)
           = LineOf(text[File.name], File.name, File.read, Flat(text)[MAX_INFILE - n], Part(n))
  BY <1>1, TopProp
<1>3. /\ e.numb = File.read /\ e.numb # 0 /\ e.file = File.name /\ e.at = File.read
      /\ e.toks = linebuf
  BY <1>2 DEF Numbered, Inv, NumberInv
<1>4. /\ out' = Append(out, e) /\ UNCHANGED <<text, inc_data>> /\ pc' = "read"
  BY DEF EndLine
<1> HIDE DEF e
<1>5. PICK S : out \in Seq(S)
  BY DEF Inv, OutInv
<1>6. /\ Len(out') = Len(out) + 1 /\ Len(out) \in Nat /\ out'[Len(out) + 1] = e
      /\ \A k \in 1..Len(out) : out'[k] = out[k]
  BY <1>4, <1>5, Appended
<1>7. Regular(Len(out)) /\ Settled(Len(out))
  <2>1. \A k \in 1..Len(out) : k \in 1..Len(out')
    BY <1>6
  <2> QED BY <1>4, <1>6, <2>1 DEF Regular, Settled
<1>8. Correct
  BY <1>7 DEF OutputInv
<1>9. Begins' = AfterLine(Begins, linebuf)
  <2>1. Behind(out', Len(out')) = Begins'
    BY DEF CommentInv, OutsideInv
  <2>2. Behind(out, Len(out)) = Begins
    BY <1>7 DEF CommentInv, OutsideInv
  <2>3. Behind(out', Len(out)) = Behind(out, Len(out))
    BY <1>6, BehindSame
  <2>4. Behind(out', Len(out) + 1) = AfterLine(Behind(out', Len(out)), e.toks)
    BY <1>6, BehindNext
  <2> QED BY <1>3, <1>6, <2>1, <2>2, <2>3, <2>4
<1>10. AfterLine(Begins, linebuf) = AfterLine(Begins, Line.toks)
  <2>1. Len(out) + 1 \in 1..Len(out')
    BY <1>6
  <2>2. Begins \in {"code", "comment"}
    BY DEF Begins
  <2>3. AfterLine(Begins, e.toks) = AfterLine(Begins, text[e.file][e.at].toks)
    BY <1>3, <1>4, <1>6, <2>1, <2>2 DEF Settled
  <2> QED BY <1>3, <2>3 DEF Line
<1>11. Part(n).at = Begins /\ (Begins = "code" => Line.kind = "text")
  <2>1. pc \in {"comment", "astray"} => in_comment_flag
    BY DEF CommentInv, InsideInv
  <2> QED BY <1>8, <2>1 DEF Correct, PathInv, Begins
<1>12. PartOf(text, File.name, File.read, n) = [at |-> Begins', lines |-> Part(n).lines \o x]
  BY <1>2, <1>9, <1>10, <1>11 DEF LineOf, Line
<1>13. Part(n)' = [at |-> Begins', lines |-> Part(n).lines \o x]
  <2>1. DoneOf(n)' = File.read
    BY <1>1, <1>4 DEF DoneOf, InWork
  <2> QED BY <1>1, <1>4, <1>12, <2>1 DEF Part
<1>14. ASSUME NEW k \in 1..n-1 PROVE Part(k)' = Part(k)
  <2>1. k # n
    BY <1>1
  <2>2. DoneOf(k)' = DoneOf(k)
    BY <1>4, <2>1 DEF DoneOf, InWork
  <2> QED BY <1>4, <2>2 DEF Part
<1>15. Joined(Pieces', n, Entries(out'))
  <2>1. /\ Part(n).lines \in Seq(Records) /\ Pieces[n] \in Seq(Records)
        /\ <<Entry(File.name, 0)>> \in Seq(Records)
        /\ Pieces[n] = <<Entry(File.name, 0)>> \o Part(n).lines
    BY <1>1, PieceProp
  <2>2. x \in Seq(Records)
    BY <1>1, EntryProp
  <2>3. Pieces'[n] = Pieces[n] \o x
    <3>1. Pieces'[n] = <<Entry(File.name, 0)>> \o (Part(n).lines \o x)
      <4>1. Pieces'[n] = <<Entry(inc_data'[n].name, 0)>> \o Part(n)'.lines
        BY <1>1, <1>4 DEF Pieces
      <4>2. Part(n)'.lines = Part(n).lines \o x
        BY <1>13
      <4>3. inc_data'[n].name = File.name
        BY <1>1, <1>4
      <4> QED BY <4>1, <4>2, <4>3
    <3>2. PICK a \in Seq(Records) : a = <<Entry(File.name, 0)>>
      BY <2>1
    <3>3. PICK b \in Seq(Records) : b = Part(n).lines
      BY <2>1
    <3>4. (a \o b) \o x = a \o (b \o x)
      BY <2>2, Regrouped
    <3> QED BY <2>1, <3>1, <3>2, <3>3, <3>4
  <2>4. \A k \in 1..n-1 : Pieces'[k] = Pieces[k]
    BY <1>1, <1>4, <1>14 DEF Pieces
  <2>5. Entries(out') = Entries(out) \o x
    <3>1. Entries(out) \in Seq(Records)
      <4>1. n \in 0..n
        BY <1>1
      <4> QED BY <1>8, <4>1 DEF Correct, Joined
    <3> QED BY <1>1, <1>3, <1>4, <1>5, <3>1, EntriesNext
  <2>6. Joined(Pieces, n, Entries(out))
    BY <1>8 DEF Correct
  <2> HIDE DEF x
  <2>7. Joined(Pieces', n, Entries(out) \o x)
    BY <1>1, <2>1, <2>2, <2>3, <2>4, <2>6, JoinedTop
  <2> QED BY <2>5, <2>7
<1>16. Len(inc_data') = n
  BY <1>4
<1>17. \A k \in 1..n-1 : Part(k)'.at = "code"
  BY <1>8, <1>14 DEF Correct
<1> HIDE DEF x
<1> QED BY <1>13, <1>15, <1>16, <1>17 DEF Correct

\* What holds of the whole output holds of what there was before.
LEMMA OutLonger ==
  ASSUME Inv, NEW e, out' = Append(out, e), UNCHANGED text
  PROVE  /\ Regular(Len(out))' => Regular(Len(out))
         /\ Settled(Len(out))' => Settled(Len(out))
<1>1. PICK S : out \in Seq(S)
  BY DEF Inv, OutInv
<1>2. /\ Len(out') = Len(out) + 1 /\ Len(out) \in Nat
      /\ \A k \in 1..Len(out) : out'[k] = out[k]
  BY <1>1, Appended
<1>3. \A k \in 1..Len(out) : k \in 1..Len(out')
  BY <1>2
<1>4. Regular(Len(out))' => Regular(Len(out))
  BY <1>2, <1>3 DEF Regular
<1>5. Settled(Len(out))' => Settled(Len(out))
  BY <1>2, <1>3 DEF Settled
<1> QED BY <1>4, <1>5

\* A marker names a file, and is no line of one.
LEMMA MarkerPrinted ==
  ASSUME Inv, NEW f \in Files, out' = Append(out, Marker(f)), Entries(out) \in Seq(Records)
  PROVE  Entries(out') = Entries(out) \o <<Entry(f, 0)>>
<1> DEFINE e == Marker(f)
<1>1. e.numb = 0 /\ e.file = f
  BY DEF Marker
<1> HIDE DEF e
<1>2. PICK S : out \in Seq(S)
  BY DEF Inv, OutInv
<1>3. out' = Append(out, e)
  BY DEF e
<1>4. e.file \in Files /\ e.numb \in Nat
  BY <1>1
<1>5. Entries(Append(out, e)) = Entries(out) \o <<Entry(e.file, e.numb)>>
  BY <1>2, <1>4, EntriesNext
<1> QED BY <1>1, <1>3, <1>5

\* A file is opened: nothing of it is done yet.
LEMMA IncludeOutput ==
  ASSUME Inv, TypeInv, PathInv, OutputInv, Include, ~UNCHANGED inc_data
  PROVE  PathInv' /\ OutputInv'
<1> PICK n \in 1..MAX_INFILE : n = Len(inc_data)
  BY StackProp DEF TypeInv
<1>1. /\ FilesInv /\ n = Len(inc_data) /\ n \in 1..n /\ n \in Nat \ {0}
      /\ inc_data \in Seq(IncData) /\ File = inc_data[n]
      /\ inc_data[n] \in IncData /\ File.name \in Files /\ File.read \in Nat
      /\ MAX_INFILE \in Nat
  BY StackProp DEF TypeInv
<1> DEFINE keep == [File EXCEPT !.line_numb = line_numb]
           stack == [inc_data EXCEPT ![n] = keep]
           new == [name |-> Line.name, read |-> 0, line_numb |-> 0]
<1>2. /\ Line.name \in Files /\ UNCHANGED <<text, in_comment_flag>>
      /\ inc_data' = Append([inc_data EXCEPT ![Len(inc_data)].line_numb = line_numb], new)
      /\ ~(Len(inc_data) >= MAX_INFILE)
      /\ out' = Append(out, Marker(Line.name)) /\ pc' = "read" /\ pc = "include"
  BY Zenon DEF Include, Stop, Running
<1>3. inc_data' = Append(stack, new)
  BY <1>1, <1>2
<1>4. /\ new \in IncData /\ new.name = Line.name /\ new.read = 0
      /\ keep \in IncData /\ keep.name = File.name /\ keep.read = File.read
  BY <1>1, <1>2 DEF IncData, Inv, NumberInv
<1> HIDE DEF new, keep
<1>5. /\ stack \in Seq(IncData) /\ Len(stack) = n /\ stack[n] = keep
      /\ \A k \in 1..n : k # n => stack[k] = inc_data[k]
  BY <1>1, <1>4, ExceptSeq
<1> HIDE DEF stack
<1>6. /\ Len(inc_data') = n + 1 /\ inc_data'[n + 1] = new
      /\ \A k \in 1..n : inc_data'[k] = stack[k]
  BY <1>3, <1>4, <1>5, AppendProperties
<1>7. ASSUME NEW k \in 1..n
      PROVE  inc_data'[k].name = inc_data[k].name /\ inc_data'[k].read = inc_data[k].read
  <2>1. CASE k = n
    BY <1>1, <1>4, <1>5, <1>6, <2>1
  <2>2. CASE k # n
    BY <1>5, <1>6, <2>2
  <2> QED BY <2>1, <2>2
<1>8. Line.kind = "include" /\ ~in_comment_flag
  BY <1>2 DEF PathInv
<1>9. PathInv'
  <2>1. inc_data'[1].name = Main
    BY <1>1, <1>7 DEF PathInv
  <2>2. ASSUME NEW k \in 1..n PROVE LeadsOn(k)'
    <3>1. CASE k = n
      <4>1. File.read > 0
        BY <1>2 DEF Inv, NumberInv
      <4> QED BY <1>1, <1>2, <1>4, <1>6, <1>7, <1>8, <3>1, <4>1 DEF LeadsOn, Line
    <3>2. CASE k # n
      <4>1. k \in 1..Len(inc_data)-1 /\ k + 1 \in 1..n
        BY <1>1, <3>2
      <4>2. LeadsOn(k)
        BY <4>1 DEF PathInv
      <4> QED BY <1>2, <1>7, <4>1, <4>2 DEF LeadsOn
    <3> QED BY <3>1, <3>2
  <2>3. 1..Len(inc_data')-1 = 1..n
    BY <1>1, <1>6
  <2> QED BY <1>2, <2>1, <2>2, <2>3 DEF PathInv
<1>10. OutputInv'
  <2> SUFFICES ASSUME Regular(Len(out))', Settled(Len(out))' PROVE Correct'
    BY DEF OutputInv
  <2>1. FilesInv' /\ n + 1 \in 1..MAX_INFILE
    <3>1. n + 1 <= MAX_INFILE
      BY <1>1, <1>2
    <3> QED BY <1>1, <3>1, FilesStep
  <2>2. ASSUME NEW k \in 1..n PROVE Part(k)' = Part(k)
    <3>1. InWork(k)' /\ InWork(k)
      BY <1>1, <1>2, <1>6 DEF InWork
    <3>2. DoneOf(k)' = DoneOf(k)
      BY <1>7, <3>1 DEF DoneOf
    <3> QED BY <1>2, <1>7, <3>2 DEF Part
  <2>3. Part(n + 1)' = Nothing
    <3>1. DoneOf(n + 1)' = 0
      BY <1>2, <1>4, <1>6 DEF DoneOf, InWork
    <3>2. PartOf(text, Line.name, 0, n + 1) = Nothing
      BY <1>1, <1>2, <2>1, PartProp
    <3> QED BY <1>2, <1>4, <1>6, <3>1, <3>2 DEF Part
  <2> DEFINE x == <<Entry(Line.name, 0)>>
             y == Pieces'
  <2>4. x \in Seq(Records)
    BY <1>2, EntryProp
  <2>5. y[n + 1] = x
    <3>1. y[n + 1] = <<Entry(inc_data'[n + 1].name, 0)>> \o Part(n + 1)'.lines
      BY <1>1, <1>6 DEF Pieces
    <3>2. Part(n + 1)'.lines = <<>>
      BY <2>3 DEF Nothing
    <3>3. x \o <<>> = x
      BY <2>4, ConcatEmptySeq
    <3> QED BY <1>4, <1>6, <3>1, <3>2, <3>3
  <2>6. \A k \in 1..n : y[k] = Pieces[k]
    <3> SUFFICES ASSUME NEW k \in 1..n PROVE y[k] = Pieces[k]
      OBVIOUS
    <3>1. y[k] = <<Entry(inc_data'[k].name, 0)>> \o Part(k)'.lines
      BY <1>1, <1>6 DEF Pieces
    <3>2. Pieces[k] = <<Entry(inc_data[k].name, 0)>> \o Part(k).lines
      BY <1>1 DEF Pieces
    <3> QED BY <1>7, <2>2, <3>1, <3>2
  <2> HIDE DEF x, y
  <2>7. Regular(Len(out)) /\ Settled(Len(out)) /\ Correct
        => Joined(Pieces, n, Entries(out)) /\ Entries(out) \in Seq(Records)
    <3>1. n \in 0..n
      OBVIOUS
    <3> QED BY <1>1, <3>1 DEF Correct, Joined
  <2>8. Regular(Len(out)) /\ Settled(Len(out))
    BY <1>2, OutLonger
  <2>9. Correct
    BY <2>8 DEF OutputInv
  <2>10. Entries(out') = Entries(out) \o x
    BY <1>2, <2>7, <2>8, <2>9, MarkerPrinted DEF x
  <2>11. Joined(y, n + 1, Entries(out'))
    <3>1. Joined(Pieces, n, Entries(out))
      BY <2>7, <2>8, <2>9
    <3>2. Joined(y, n + 1, Entries(out) \o x)
      BY <2>4, <2>5, <2>6, <3>1, JoinedPush
    <3> QED BY <2>10, <3>2
  <2>12. Part(n + 1)'.at = Begins'
    BY <1>2, <1>8, <2>3 DEF Nothing, Begins
  <2>13. ASSUME NEW k \in 1..n PROVE Part(k)'.at = "code"
    <3>1. Part(k).at = "code"
      <4>1. k = n \/ k \in 1..n-1
        BY <1>1
      <4> QED BY <1>1, <1>8, <2>9, <4>1 DEF Correct, Begins
    <3> QED BY <2>2, <3>1
  <2>14. Len(inc_data') = n + 1 /\ 1..Len(inc_data')-1 = 1..n
    BY <1>1, <1>6
  <2> QED BY <2>11, <2>12, <2>13, <2>14 DEF Correct, y
<1> QED BY <1>9, <1>10

\* What is included, between what its file has had before and the marker behind it.
LEMMA Bracketed ==
  ASSUME NEW x \in Seq(Records), NEW a \in Seq(Records), NEW c \in Seq(Records)
  PROVE  x \o ((a \o c) \o x) = (x \o a) \o (c \o x)
<1>1. c \o x \in Seq(Records)
  BY ConcatProperties
<1>2. (a \o c) \o x = a \o (c \o x)
  BY Regrouped
<1>3. (x \o a) \o (c \o x) = x \o (a \o (c \o x))
  BY <1>1, Regrouped
<1> QED BY <1>2, <1>3

\* A file is done: its lines are those of an included one, in front of the marker.
LEMMA EndOfFileOutput ==
  ASSUME Inv, TypeInv, PathInv, OutputInv, EndOfFile, ~UNCHANGED inc_data
  PROVE  PathInv' /\ OutputInv'
<1> PICK m \in 1..MAX_INFILE : m = Len(inc_data)
  BY StackProp DEF TypeInv
<1>1. /\ FilesInv /\ m = Len(inc_data) /\ inc_data \in Seq(IncData) /\ File = inc_data[m]
      /\ MAX_INFILE \in Nat
  BY StackProp DEF TypeInv
<1>2. /\ m # 1 /\ UNCHANGED <<text, in_comment_flag, pc>>
      /\ inc_data' = Front(inc_data) /\ pc = "read"
      /\ out' = Append(out, Marker(inc_data[m - 1].name))
      /\ File.read = Len(text[File.name])
  BY <1>1, Zenon DEF EndOfFile, Running
<1> PICK n \in Nat : n = m - 1
  OBVIOUS
<1>3. n + 1 = m /\ n \in Nat \ {0} /\ n \in 1..MAX_INFILE /\ m \in 1..Len(inc_data)
      /\ n \in 1..Len(inc_data) /\ n # Len(inc_data)
  BY <1>1, <1>2
<1>4. Len(inc_data') = n /\ \A k \in 1..n : inc_data'[k] = inc_data[k]
  <2>1. Len(inc_data) > 1 /\ Len(inc_data) - 1 = n
    BY <1>1, <1>2
  <2>2. Len(Front(inc_data)) = n /\ \A k \in 1..n : Front(inc_data)[k] = inc_data[k]
    BY <1>1, <2>1, Popped
  <2> QED BY <1>2, <2>2
<1>5. \A k \in 1..n : LeadsOn(k)
  BY <1>1, <1>3 DEF PathInv
<1>6. PathInv'
  <2>1. inc_data'[1].name = Main
    BY <1>3, <1>4 DEF PathInv
  <2>2. ASSUME NEW k \in 1..n-1 PROVE LeadsOn(k)'
    <3>1. k \in 1..n /\ k + 1 \in 1..n
      BY <1>3
    <3>2. LeadsOn(k)
      BY <1>5, <3>1
    <3> QED BY <1>2, <1>4, <3>1, <3>2 DEF LeadsOn
  <2> QED BY <1>2, <1>4, <2>1, <2>2 DEF PathInv
<1>7. OutputInv'
  <2> SUFFICES ASSUME Regular(Len(out))', Settled(Len(out))' PROVE Correct'
    BY DEF OutputInv
  <2> DEFINE f == inc_data[n].name
             g == inc_data[m].name
             r == inc_data[n].read
             x == <<Entry(f, 0)>>
             z == <<Entry(g, 0)>>
  <2>1. /\ f \in Files /\ g \in Files /\ r \in Nat /\ r > 0
        /\ x \in Seq(Records) /\ z \in Seq(Records)
    BY <1>1, <1>3, <1>5, StackProp, EntryProp DEF LeadsOn
  <2>2. Regular(Len(out)) /\ Settled(Len(out))
    BY <1>2, OutLonger
  <2>3. Correct
    BY <2>2 DEF OutputInv
  <2>4. Joined(Pieces, n + 1, Entries(out)) /\ Entries(out) \in Seq(Records)
    <3>1. m \in 0..m
      OBVIOUS
    <3> QED BY <1>1, <1>3, <2>3, <3>1 DEF Correct, Joined
  <2>5. Entries(out') = Entries(out) \o x
    <3>1. out' = Append(out, Marker(f)) /\ UNCHANGED text
      BY <1>2, <1>3
    <3> HIDE DEF f
    <3> QED BY <2>1, <2>4, <3>1, MarkerPrinted
  <2>6. Part(m) = Flat(text)[MAX_INFILE - n][g]
    <3>1. DoneOf(m) = Len(text[g])
      BY <1>1, <1>2 DEF DoneOf, InWork
    <3>2. Part(m) = Copied(text[g], g, Len(text[g]), Flat(text)[MAX_INFILE - m])
      BY <3>1 DEF Part, PartOf
    <3>3. MAX_INFILE - n \in 1..MAX_INFILE /\ (MAX_INFILE - n) - 1 = MAX_INFILE - m
      BY <1>1, <1>3
    <3>4. Flat(text)[MAX_INFILE - n] = Deeper(text, Flat(text)[(MAX_INFILE - n) - 1])
      BY <1>1, <3>3, LinesOfFiles, FlatProp
    <3> HIDE DEF g
    <3> QED BY <2>1, <3>2, <3>3, <3>4 DEF Deeper
  <2>7. DoneOf(n) = r - 1 /\ DoneOf(n)' = r
    BY <1>2, <1>3, <1>4 DEF DoneOf, InWork
  <2>8. PartOf(text, f, r, n) = LineOf(text[f], f, r, Flat(text)[MAX_INFILE - n], Part(n))
    <3>1. PICK q \in Nat : q = r - 1
      BY <2>1
    <3>2. PartOf(text, f, q + 1, n)
            = LineOf(text[f], f, q + 1, Flat(text)[MAX_INFILE - n], PartOf(text, f, q, n))
      <4> HIDE DEF f
      <4>1. FilesInv /\ n \in 1..MAX_INFILE /\ f \in Files
        BY <1>1, <1>3, <2>1
      <4> QED BY <4>1, PartProp
    <3>3. Part(n) = PartOf(text, f, q, n)
      BY <2>7, <3>1 DEF Part
    <3> QED BY <2>1, <3>1, <3>2, <3>3
  <2>9. Part(n).at = "code" /\ text[f][r].kind = "include" /\ text[f][r].name = g
    <3>1. n \in 1..n /\ n \in 1..Len(inc_data)-1
      BY <1>1, <1>3
    <3>2. LeadsOn(n)
      BY <1>5, <3>1
    <3>3. Part(n).at = "code"
      BY <2>3, <3>1 DEF Correct
    <3> QED BY <1>3, <3>2, <3>3 DEF LeadsOn
  <2> DEFINE a == Part(n).lines
             b == Part(m).lines
             y == Pieces'
  <2>10. Part(n)' = PartOf(text, f, r, n)
    BY <1>2, <1>3, <1>4, <2>7 DEF Part
  <2>11. Part(n)'.at = Part(m).at /\ Part(n)'.lines = a \o (z \o b) \o x
    <3>1. PICK u, v : u = Part(m).at /\ v = a \o (z \o b) \o x
      OBVIOUS
    <3>2. Part(n)' = [at |-> Part(m).at, lines |-> a \o (z \o b) \o x]
      <4> HIDE DEF f, g, r
      <4> QED BY <2>1, <2>6, <2>8, <2>9, <2>10 DEF LineOf
    <3>3. Part(n)' = [at |-> u, lines |-> v]
      BY <3>1, <3>2
    <3>4. Part(n)'.at = u /\ Part(n)'.lines = v
      BY <3>3
    <3> QED BY <3>1, <3>4
  <2>12. a \in Seq(Records) /\ b \in Seq(Records) /\ Pieces[n] = x \o a /\ Pieces[n + 1] = z \o b
         /\ Pieces[n] \in Seq(Records) /\ Pieces[n + 1] \in Seq(Records)
    BY <1>1, <1>3, PieceProp
  <2>13. y[n] = x \o (a \o (z \o b) \o x)
    <3>1. y[n] = <<Entry(inc_data'[n].name, 0)>> \o Part(n)'.lines
      BY <1>3, <1>4 DEF Pieces
    <3>2. Part(n)'.lines = a \o (z \o b) \o x
      BY <2>11
    <3>3. inc_data'[n].name = f
      BY <1>3, <1>4
    <3> QED BY <3>1, <3>2, <3>3
  <2>14. ASSUME NEW k \in 1..n-1 PROVE Part(k)' = Part(k)
    <3>1. k \in 1..n /\ k # n /\ k # m
      BY <1>3
    <3>2. DoneOf(k)' = DoneOf(k)
      BY <1>1, <1>4, <3>1 DEF DoneOf, InWork
    <3> QED BY <1>2, <1>4, <3>1, <3>2 DEF Part
  <2>15. ASSUME NEW k \in 1..n-1 PROVE y[k] = Pieces[k]
    <3>0. k \in 1..n /\ k \in 1..Len(inc_data)
      BY <1>1, <1>3
    <3>1. y[k] = <<Entry(inc_data'[k].name, 0)>> \o Part(k)'.lines
      BY <1>4, <3>0 DEF Pieces
    <3>2. Pieces[k] = <<Entry(inc_data[k].name, 0)>> \o Part(k).lines
      BY <3>0 DEF Pieces
    <3> QED BY <1>4, <2>14, <3>0, <3>1, <3>2
  <2> HIDE DEF a, b, x, y, z
  <2>16. y[n] = Pieces[n] \o (Pieces[n + 1] \o x)
    <3>1. PICK c \in Seq(Records) : c = z \o b
      BY <2>12
    <3>2. x \o ((a \o c) \o x) = (x \o a) \o (c \o x)
      <4>1. a \in Seq(Records) /\ x \in Seq(Records)
        BY <2>1, <2>12
      <4> QED BY <4>1, Bracketed
    <3> QED BY <2>12, <2>13, <3>1, <3>2
  <2>17. Joined(y, n, Entries(out'))
    <3>1. Joined(y, n, Entries(out) \o x)
      BY <1>3, <2>1, <2>4, <2>12, <2>15, <2>16, JoinedPop
    <3> QED BY <2>5, <3>1
  <2>18. Part(n)'.at = Begins'
    <3>1. Part(m).at = Begins /\ Begins' = Begins
      BY <1>1, <1>2, <2>3 DEF Correct, Begins
    <3> QED BY <2>11, <3>1
  <2>19. ASSUME NEW k \in 1..n-1 PROVE Part(k)'.at = "code"
    <3>1. k \in 1..Len(inc_data)-1
      BY <1>1, <1>3
    <3> QED BY <2>3, <2>14, <3>1 DEF Correct
  <2> QED BY <1>4, <2>17, <2>18, <2>19 DEF Correct, y
<1> QED BY <1>6, <1>7

\* Nothing is printed and no line is begun or done.
LEMMA QuietInclusion ==
  ASSUME Inv, TypeInv, PathInv, OutputInv, UNCHANGED <<text, inc_data, out, in_comment_flag>>,
         pc' = pc \/ (pc = "comment" /\ pc' \in {"normal", "astray"} /\ in_comment_flag)
  PROVE  PathInv' /\ OutputInv'
<1>1. Len(inc_data) \in Nat \ {0}
  BY StackProp DEF TypeInv
<1>2. PathInv'
  BY DEF PathInv, LeadsOn, Line, File
<1>3. ASSUME NEW k \in 1..Len(inc_data) PROVE Part(k)' = Part(k)
  <2>1. DoneOf(k)' = DoneOf(k)
    BY DEF DoneOf, InWork
  <2> QED BY <2>1 DEF Part
<1> QED BY <1>1, <1>2, <1>3, OutputSame

\* A line is begun.
LEMMA NextLineInclusion ==
  ASSUME Inv, TypeInv, PathInv, OutputInv, NextLine
  PROVE  PathInv' /\ OutputInv'
<1> PICK n \in 1..MAX_INFILE : n = Len(inc_data)
  BY StackProp DEF TypeInv
<1>1. /\ FilesInv /\ n = Len(inc_data) /\ n \in Nat \ {0} /\ n \in 1..n
      /\ inc_data \in Seq(IncData) /\ File = inc_data[n] /\ inc_data[n] \in IncData
  BY StackProp DEF TypeInv
<1> DEFINE f == [File EXCEPT !.read = @ + 1]
           line == text[File.name][File.read + 1]
<1>2. /\ inc_data' = [inc_data EXCEPT ![n] = f] /\ pc = "read"
      /\ UNCHANGED <<text, out, in_comment_flag>>
      /\ pc' = IF in_comment_flag THEN "comment"
               ELSE IF line.kind = "text" THEN "normal" ELSE line.kind
      /\ File.read < Len(text[File.name])
  BY <1>1 DEF NextLine, Running
<1>3. f \in IncData /\ f.name = File.name /\ f.read = File.read + 1 /\ File.read \in Nat
      /\ File.name \in Files
  BY <1>1 DEF IncData
<1>4. line.kind \in {"text", "include", "define", "directive"}
  <2>1. Len(text[File.name]) \in Nat
    BY <1>1, <1>3, LinesOfFiles
  <2>2. File.read + 1 \in 1..Len(text[File.name])
    BY <1>2, <1>3, <2>1
  <2> QED BY <1>1, <1>3, <2>2, LinesOfFiles
<1> HIDE DEF f
<1>5. /\ Len(inc_data') = n /\ inc_data'[n] = f
      /\ \A k \in 1..n : k # n => inc_data'[k] = inc_data[k]
  BY <1>1, <1>2, <1>3, ExceptSeq
<1>6. ASSUME NEW k \in 1..n PROVE inc_data'[k].name = inc_data[k].name
  BY <1>1, <1>3, <1>5
<1>7. File' = f /\ Line' = line
  BY <1>2, <1>3, <1>5 DEF File, Line
<1> HIDE DEF line
<1>8. PathInv'
  <2>1. inc_data'[1].name = Main
    BY <1>1, <1>6 DEF PathInv
  <2>2. ASSUME NEW k \in 1..n-1 PROVE LeadsOn(k)'
    <3>1. k \in 1..n /\ k + 1 \in 1..n /\ k # n
      BY <1>1
    <3>2. LeadsOn(k)
      BY <1>1 DEF PathInv
    <3>3. inc_data'[k] = inc_data[k] /\ inc_data'[k + 1].name = inc_data[k + 1].name
      BY <1>5, <1>6, <3>1
    <3> QED BY <1>2, <3>2, <3>3 DEF LeadsOn
  <2>3. pc' \in {"include", "define"} => line.kind = pc' /\ ~in_comment_flag
    BY <1>2, <1>4
  <2>4. pc' = "normal" => line.kind = "text" \/ in_comment_flag
    BY <1>2, <1>4
  <2>5. pc' # "done"
    BY <1>2, <1>4
  <2> QED BY <1>2, <1>5, <1>7, <2>1, <2>2, <2>3, <2>4, <2>5 DEF PathInv
<1>9. ASSUME NEW k \in 1..n PROVE Part(k)' = Part(k)
  <2>1. DoneOf(k)' = DoneOf(k)
    <3>1. CASE k = n
      <4>1. InWork(k)' /\ ~InWork(k)
        BY <1>1, <1>2, <1>4, <3>1 DEF InWork
      <4>2. DoneOf(k)' = inc_data'[k].read - 1 /\ DoneOf(k) = inc_data[k].read
        BY <4>1 DEF DoneOf
      <4> QED BY <1>1, <1>3, <1>5, <3>1, <4>2
    <3>2. CASE k # n
      BY <1>1, <1>5, <3>2 DEF DoneOf, InWork
    <3> QED BY <3>1, <3>2
  <2> QED BY <1>2, <1>6, <2>1 DEF Part
<1>10. OutputInv'
  BY <1>1, <1>2, <1>5, <1>6, <1>9, OutputSame
<1> QED BY <1>8, <1>10

\* A definition is done, and leaves no line.
LEMMA DefineInclusion ==
  ASSUME Inv, TypeInv, PathInv, OutputInv, pc = "define", pc' = "read",
         UNCHANGED <<text, inc_data, out, in_comment_flag>>
  PROVE  PathInv' /\ OutputInv'
<1> PICK n \in 1..MAX_INFILE : n = Len(inc_data)
  BY StackProp DEF TypeInv
<1>1. FilesInv /\ n = Len(inc_data) /\ n \in Nat \ {0} /\ n \in 1..n /\ File = inc_data[n]
  BY StackProp DEF TypeInv
<1>2. PathInv'
  BY DEF PathInv, LeadsOn
<1>3. Line.kind = "define" /\ Begins = "code"
  BY DEF PathInv, Begins
<1>4. OutputInv'
  <2> SUFFICES ASSUME Correct, Regular(Len(out)), Settled(Len(out)) PROVE OutputInv'
    <3>1. (Regular(Len(out)) /\ Settled(Len(out)))' <=> Regular(Len(out)) /\ Settled(Len(out))
      BY DEF Regular, Settled
    <3> QED BY <3>1 DEF OutputInv
  <2>1. PartOf(text, File.name, File.read, n) = Part(n)
    <3>1. PartOf(text, File.name, File.read, n)
            = LineOf(text[File.name], File.name, File.read, Flat(text)[MAX_INFILE - n], Part(n))
      BY <1>1, TopProp
    <3>2. Part(n).at = "code"
      BY <1>1, <1>3 DEF Correct
    <3> QED BY <1>3, <3>1, <3>2 DEF LineOf, Line
  <2>2. ASSUME NEW k \in 1..n PROVE Part(k)' = Part(k)
    <3>1. CASE k = n
      <4>1. DoneOf(k)' = File.read
        BY <1>1, <3>1 DEF DoneOf, InWork
      <4> QED BY <1>1, <2>1, <3>1, <4>1 DEF Part
    <3>2. CASE k # n
      <4>1. DoneOf(k)' = DoneOf(k)
        BY <1>1, <3>2 DEF DoneOf, InWork
      <4> QED BY <4>1 DEF Part
    <3> QED BY <3>1, <3>2
  <2> QED BY <1>1, <2>2, OutputSame
<1> QED BY <1>2, <1>4

\* The last file is done.
LEMMA DoneInclusion ==
  ASSUME Inv, TypeInv, PathInv, OutputInv, EndOfFile, UNCHANGED inc_data
  PROVE  PathInv' /\ OutputInv'
<1>1. Len(inc_data) \in Nat \ {0} /\ inc_data \in Seq(IncData)
  BY StackProp DEF TypeInv
<1>2. /\ pc = "read" /\ pc' = "done" /\ Len(inc_data) = 1
      /\ UNCHANGED <<text, out, in_comment_flag>> /\ File.read = Len(text[File.name])
  <2>1. CASE Len(inc_data) = 1
    BY <2>1 DEF EndOfFile, Running
  <2>2. CASE Len(inc_data) # 1
    <3>1. inc_data' = Front(inc_data)
      BY <2>2 DEF EndOfFile
    <3>2. Len(inc_data) > 1
      BY <1>1, <2>2
    <3>3. Len(inc_data') = Len(inc_data) - 1
      BY <1>1, <3>1, <3>2, Popped
    <3> QED BY <1>1, <3>3
  <2> QED BY <2>1, <2>2
<1>3. PathInv'
  BY <1>2 DEF PathInv, LeadsOn, File
<1>4. ASSUME NEW k \in 1..Len(inc_data) PROVE Part(k)' = Part(k)
  <2>1. DoneOf(k)' = DoneOf(k)
    BY <1>2 DEF DoneOf, InWork
  <2> QED BY <1>2, <2>1 DEF Part
<1> QED BY <1>1, <1>2, <1>3, <1>4, OutputSame

\* What a printed line does to the place.
LEMMA LineInclusion ==
  ASSUME Inv, TypeInv, CommentInv, CommentInv', PathInv, OutputInv, NEW flag, NEW astray,
         EndLine(flag, astray), pc \in {"normal", "comment", "astray"}
  PROVE  PathInv' /\ OutputInv'
<1>1. pc' = "read" /\ UNCHANGED <<text, inc_data>>
  BY DEF EndLine
<1>2. PathInv'
  BY <1>1 DEF PathInv, LeadsOn
<1> QED BY <1>2, LinePrinted

\* The first file is open, and nothing of it is done.
LEMMA InitInclusion == Init => PathInv /\ OutputInv
<1> SUFFICES ASSUME Init PROVE PathInv /\ OutputInv
  OBVIOUS
<1>1. Inv /\ FilesInv
  BY InitInv, InitType DEF TypeInv
<1>2. /\ Len(inc_data) = 1 /\ inc_data[1].name = Main /\ inc_data[1].read = 0 /\ pc = "read"
      /\ ~in_comment_flag /\ out = <<Marker(Main)>>
  BY DEF Init
<1>3. PathInv
  BY <1>2 DEF PathInv
<1>4. Main \in Files /\ 1 \in 1..MAX_INFILE
  BY FilesAssumption, LimitsAssumption
<1>5. Part(1) = Nothing
  <2>1. DoneOf(1) = 0
    BY <1>2 DEF DoneOf, InWork
  <2>2. PartOf(text, Main, 0, 1) = Nothing
    BY <1>1, <1>4, PartProp
  <2> QED BY <1>2, <2>1, <2>2 DEF Part
<1> DEFINE x == <<Entry(Main, 0)>>
<1>6. x \in Seq(Records)
  BY <1>4, EntryProp
<1>7. Pieces[1] = x
  <2>1. Pieces[1] = x \o Part(1).lines
    BY <1>2 DEF Pieces
  <2>2. Part(1).lines = <<>>
    BY <1>5 DEF Nothing
  <2> QED BY <1>6, <2>1, <2>2, ConcatEmptySeq
<1>8. Entries(out) = x
  <2>1. Len(out) = 1 /\ out[1].numb = 0 /\ out[1].file = Main
    BY <1>2 DEF Marker
  <2>2. Entries(out) = [k \in 1..1 |-> Entry(out[k].file, out[k].numb)]
    BY <2>1 DEF Entries
  <2>3. Entries(out) = [k \in 1..1 |-> Entry(Main, 0)]
    BY <2>1, <2>2
  <2> QED BY <2>3
<1>9. Joined(Pieces, 1, Entries(out))
  <2> DEFINE w == [k \in 0..1 |-> IF k = 0 THEN <<>> ELSE x]
  <2>1. w \in [0..1 -> Seq(Records)] /\ w[0] = <<>> /\ w[1] = x
    BY <1>6
  <2>2. <<>> \o x = x
    BY <1>6, ConcatEmptySeq
  <2> HIDE DEF w, x
  <2>3. \A k \in 1..1 : w[k] = w[k-1] \o Pieces[k]
    <3>1. w[1] = w[0] \o Pieces[1]
      BY <1>7, <2>1, <2>2
    <3> SUFFICES ASSUME NEW k \in 1..1 PROVE w[k] = w[k-1] \o Pieces[k]
      OBVIOUS
    <3>2. k = 1 /\ k - 1 = 0
      OBVIOUS
    <3> QED BY <3>1, <3>2
  <2> QED BY <1>8, <2>1, <2>3 DEF Joined
<1>10. Part(Len(inc_data)).at = Begins
  BY <1>2, <1>5 DEF Nothing, Begins
<1> HIDE DEF x
<1> QED BY <1>2, <1>3, <1>9, <1>10 DEF OutputInv, Correct

\* Each step keeps both invariants.
LEMMA InclusionStep ==
  ASSUME Inv, TypeInv, CommentInv, CommentInv', PathInv, OutputInv, [Next]_vars
  PROVE  PathInv' /\ OutputInv'
<1>1. CASE UNCHANGED vars
  BY <1>1, QuietInclusion DEF vars
<1>2. ASSUME NEW e, Stop(e) PROVE PathInv' /\ OutputInv'
  BY <1>2, QuietInclusion DEF Stop
<1>3. ASSUME NEW q, GoTo(q), pc \in {"normal", "comment"} PROVE PathInv' /\ OutputInv'
  <2>1. pc = "comment" => in_comment_flag
    BY DEF CommentInv, InsideInv
  <2> QED BY <1>3, <2>1, QuietInclusion DEF GoTo
<1>4. ASSUME NEW toks, NEW q, Put(toks, q) PROVE PathInv' /\ OutputInv'
  BY <1>4, QuietInclusion DEF Put
<1>5. ASSUME NEW flag, NEW astray, EndLine(flag, astray), pc \in {"normal", "comment", "astray"}
      PROVE  PathInv' /\ OutputInv'
  BY <1>5, LineInclusion
<1>6. CASE NextLine
  BY <1>6, NextLineInclusion
<1>7. CASE EndOfFile
  <2>1. CASE UNCHANGED inc_data
    BY <1>7, <2>1, DoneInclusion
  <2>2. CASE ~UNCHANGED inc_data
    BY <1>7, <2>2, EndOfFileOutput
  <2> QED BY <2>1, <2>2
<1>8. CASE Include
  <2>1. CASE ~UNCHANGED inc_data
    BY <1>8, <2>1, IncludeOutput
  <2>2. CASE UNCHANGED inc_data
    <3>1. \/ \E e : Stop(e)
          \/ inc_data' = Append([inc_data EXCEPT ![Len(inc_data)].line_numb = line_numb],
                                [name |-> Line.name, read |-> 0, line_numb |-> 0])
      BY <1>8, Zenon DEF Include
    <3>2. ASSUME inc_data' = Append([inc_data EXCEPT ![Len(inc_data)].line_numb = line_numb],
                                    [name |-> Line.name, read |-> 0, line_numb |-> 0])
          PROVE  FALSE
      <4> DEFINE keep == [File EXCEPT !.line_numb = line_numb]
                 stack == [inc_data EXCEPT ![Len(inc_data)] = keep]
      <4>1. inc_data \in Seq(IncData) /\ Len(inc_data) \in 1..Len(inc_data) /\ File \in IncData
            /\ File = inc_data[Len(inc_data)] /\ line_numb \in Nat
        BY StackProp DEF TypeInv, Inv, NumberInv
      <4>2. keep \in IncData
        BY <4>1 DEF IncData
      <4>3. inc_data' = Append(stack, [name |-> Line.name, read |-> 0, line_numb |-> 0])
        BY <3>2, <4>1
      <4> HIDE DEF keep
      <4>4. stack \in Seq(IncData) /\ Len(stack) = Len(inc_data)
        BY <4>1, <4>2, ExceptSeq
      <4> HIDE DEF stack
      <4>5. Len(inc_data') = Len(inc_data) + 1 /\ Len(inc_data) \in Nat
        BY <4>3, <4>4, Appended
      <4> QED BY <2>2, <4>5
    <3> QED BY <1>2, <3>1, <3>2
  <2> QED BY <2>1, <2>2
<1>9. CASE Define
  <2>1. CASE \E e : Stop(e)
    BY <1>2, <2>1
  <2>2. CASE pc' = "read" /\ UNCHANGED <<text, inc_data, out, in_comment_flag>>
    BY <1>9, <2>2, DefineInclusion DEF Define, Running
  <2>3. ASSUME NEW n, Enter(n)
        PROVE  \/ \E e : Stop(e)
               \/ pc' = "read" /\ UNCHANGED <<text, inc_data, out, in_comment_flag>>
    BY <2>3, Zenon DEF Enter
  <2> QED BY <1>9, <2>1, <2>2, <2>3, DefineCases
<1>10. CASE OtherDirective
  BY <1>2, <1>10 DEF OtherDirective
<1>11. CASE EndComment \/ Astray
  <2>1. CASE EndComment
    <3>1. ASSUME pc' = "astray", UNCHANGED <<text, inc_data, out, in_comment_flag>>
          PROVE  PathInv' /\ OutputInv'
      <4>1. pc = "comment" /\ in_comment_flag
        BY <2>1 DEF EndComment, Running, CommentInv, InsideInv
      <4> QED BY <3>1, <4>1, QuietInclusion
    <3> QED BY <1>3, <2>1, <3>1 DEF EndComment, Running
  <2>2. CASE Astray
    BY <1>2, <1>5, <2>2 DEF Astray, Running
  <2> QED BY <1>11, <2>1, <2>2
<1>12. CASE LineDone
  BY <1>5, <1>12 DEF LineDone, Running
<1>13. CASE OpenComment
  BY <1>3, <1>5, <1>13 DEF OpenComment, At, Running
<1>14. CASE String
  BY <1>3, <1>5, <1>14 DEF String, At, Running
<1>15. CASE OtherToken \/ PlainSymbol
  BY <1>2, <1>3, <1>15 DEF OtherToken, PlainSymbol, At, Running
<1>16. CASE Replace \/ ReplaceCall
  BY <1>2, <1>4, <1>16, ReplacePuts
<1> QED BY <1>1, <1>6, <1>7, <1>8, <1>9, <1>10, <1>11, <1>12, <1>13, <1>14, <1>15, <1>16 DEF Next

\* What should be there at the end.
LEMMA DoneWhole == Inv /\ TypeInv /\ PathInv /\ OutputInv => Whole
<1> SUFFICES ASSUME Inv, TypeInv, PathInv, OutputInv, pc = "done",
                    Regular(Len(out)), Settled(Len(out))
             PROVE  Entries(out) = <<Entry(Main, 0)>> \o Flat(text)[MAX_INFILE][Main].lines
  BY DEF Whole
<1>1. FilesInv /\ MAX_INFILE \in Nat /\ 1 \in 1..MAX_INFILE /\ Main \in Files
  BY FilesAssumption, LimitsAssumption DEF TypeInv
<1>2. Len(inc_data) = 1 /\ inc_data[1].name = Main /\ File = inc_data[1]
      /\ File.read = Len(text[Main])
  BY DEF PathInv, File
<1>3. Part(1) = Flat(text)[MAX_INFILE][Main]
  <2>1. DoneOf(1) = Len(text[Main])
    BY <1>2 DEF DoneOf, InWork
  <2>2. Part(1) = Copied(text[Main], Main, Len(text[Main]), Flat(text)[MAX_INFILE - 1])
    BY <1>2, <2>1 DEF Part, PartOf
  <2>3. MAX_INFILE \in 1..MAX_INFILE
    BY <1>1
  <2>4. Flat(text)[MAX_INFILE] = Deeper(text, Flat(text)[MAX_INFILE - 1])
    BY <1>1, <2>3, LinesOfFiles, FlatProp
  <2> QED BY <1>1, <2>2, <2>4 DEF Deeper
<1>4. Correct
  BY DEF OutputInv
<1>5. PICK w \in [0..1 -> Seq(Records)] :
        w[0] = <<>> /\ (\A k \in 1..1 : w[k] = w[k-1] \o Pieces[k]) /\ w[1] = Entries(out)
  BY <1>2, <1>4 DEF Correct, Joined
<1>6. Entries(out) = <<>> \o Pieces[1]
  <2>1. w[1] = w[1-1] \o Pieces[1] /\ 1 - 1 = 0
    BY <1>5
  <2> QED BY <1>5, <2>1
<1>7. 1 \in 1..Len(inc_data)
  BY <1>2
<1>8. Pieces[1] = <<Entry(Main, 0)>> \o Part(1).lines /\ Pieces[1] \in Seq(Records)
  BY <1>1, <1>2, <1>7, PieceProp
<1>9. <<>> \o Pieces[1] = Pieces[1]
  BY <1>8, ConcatEmptySeq
<1> QED BY <1>3, <1>6, <1>8, <1>9

\* Whatever the files hold and however they include one another: when prep is done,
\* each line that is no directive has been printed once for each inclusion of its file,
\* in the order of inclusion, with a marker at each change of file.  That is so as long as
\* no comment has a line that neither begins nor ends it (prep.cpp:464), no file ends in a
\* comment, no quote is hidden, and nothing that was put in opens or closes a comment.
THEOREM NothingIsLost == Spec => []Whole
<1>1. /\ Inv /\ TypeInv /\ CommentInv /\ CommentInv' /\ PathInv /\ OutputInv /\ [Next]_vars
      => PathInv' /\ OutputInv'
  BY InclusionStep
<1>2. Spec => [](PathInv /\ OutputInv)
  BY <1>1, PrepInvariant, TypeInvariant, CommentInvariant, InitInclusion, PTL DEF Spec
<1> QED BY <1>2, PrepInvariant, TypeInvariant, DoneWhole, PTL
==============================================================================
