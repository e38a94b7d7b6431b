---------------------------- MODULE SrcBufferProofs ----------------------------
(***************************************************************************)
(* Proofs about SrcBuffer, for every input file and every buffer size: its *)
(* invariants, that every step of it maps to a step of SourceTape or       *)
(* changes nothing the parser can see, and the order of the listing.       *)
(***************************************************************************)
EXTENDS SrcBuffer, NatExtremes, SequenceTheorems

------------------------------------------------------------------------------
\* The window as a value.

\* An unbroken piece of the file that ends with a line end.
Piece(buf) ==
  /\ buf \in Seq(0..N) /\ buf # <<>>
  /\ \A i \in 1..Len(buf)-1 : buf[i+1] = buf[i] + 1
  /\ Char(buf, Len(buf)) = "nul"

\* strlen from any index of a window stops inside it, at the first NUL.
LEMMA StrEndProp ==
  ASSUME NEW buf, Piece(buf), NEW i \in 1..Len(buf)
  PROVE  /\ StrEnd(buf, i) \in i..Len(buf)
         /\ Char(buf, StrEnd(buf, i)) = "nul"
         /\ \A k \in i..StrEnd(buf, i)-1 : Char(buf, k) # "nul"
<1> DEFINE S == {j \in i..Len(buf) : Char(buf, j) = "nul"}
<1>1. Len(buf) \in Nat /\ i \in Nat
  BY DEF Piece
<1>2. S \in SUBSET Nat /\ Len(buf) \in S
  BY <1>1 DEF Piece
<1>3. PICK m \in S : \A k \in S : m <= k
  <2> HIDE DEF S
  <2> QED BY <1>2, LeastNat
<1>4. m \in i..Len(buf) /\ Char(buf, m) = "nul"
  OBVIOUS
<1>5. \A k \in i..m-1 : Char(buf, k) # "nul"
  <2> SUFFICES ASSUME NEW k \in i..m-1, Char(buf, k) = "nul" PROVE FALSE
    OBVIOUS
  <2>1. k \in S /\ k < m
    BY <1>1, <1>4
  <2> QED BY <1>1, <1>3, <1>4, <2>1
<1> QED
  <2> HIDE DEF S
  <2> QED BY <1>4, <1>5 DEF StrEnd

\* strchr for ':' from any index of a window, when it finds one, stops before
\* the end of that line.
LEMMA StrChrProp ==
  ASSUME NEW buf, Piece(buf), NEW i \in 1..Len(buf), HasColon(buf, i)
  PROVE  /\ StrChr(buf, i) \in i..StrEnd(buf, i)-1
         /\ StrEnd(buf, i) \in i..Len(buf)
         /\ Char(buf, StrChr(buf, i)) = "colon"
         /\ \A k \in i..StrChr(buf, i)-1 : Char(buf, k) \notin {"nul", "colon"}
<1> DEFINE S == {j \in i..StrEnd(buf, i) : Char(buf, j) = "colon"}
<1>1. Len(buf) \in Nat /\ i \in Nat
  BY DEF Piece
<1>2. StrEnd(buf, i) \in i..Len(buf) /\ Char(buf, StrEnd(buf, i)) = "nul"
      /\ \A k \in i..StrEnd(buf, i)-1 : Char(buf, k) # "nul"
  BY StrEndProp
<1>3. S \in SUBSET Nat /\ S # {}
  BY <1>1, <1>2 DEF HasColon
<1>4. PICK m \in S : \A k \in S : m <= k
  <2> HIDE DEF S
  <2> QED BY <1>3, LeastNat
<1>5. m \in i..StrEnd(buf, i) /\ Char(buf, m) = "colon"
  OBVIOUS
<1>6. \A k \in i..m-1 : Char(buf, k) # "colon"
  <2> SUFFICES ASSUME NEW k \in i..m-1, Char(buf, k) = "colon" PROVE FALSE
    OBVIOUS
  <2>1. k \in S /\ k < m
    BY <1>1, <1>2, <1>5
  <2> QED BY <1>1, <1>2, <1>4, <1>5, <2>1
<1>7. /\ StrChr(buf, i) \in i..StrEnd(buf, i)
      /\ Char(buf, StrChr(buf, i)) = "colon"
      /\ \A k \in i..StrChr(buf, i)-1 : Char(buf, k) # "colon"
  <2> HIDE DEF S
  <2> QED BY <1>5, <1>6 DEF StrChr
<1>8. StrChr(buf, i) # StrEnd(buf, i)
  BY <1>2, <1>7
<1> QED BY <1>1, <1>2, <1>7, <1>8

\* A line of the file ends inside the file.
LEMMA LineEndProp ==
  ASSUME NEW p \in 0..N
  PROVE  /\ LineEnd(p) \in p..N /\ Text[LineEnd(p)] = "nul"
         /\ \A r \in p..LineEnd(p)-1 : Text[r] # "nul"
<1> DEFINE S == {q \in p..N : Text[q] = "nul"}
<1>1. N \in Nat /\ p \in Nat
  BY TextAssumption
<1>2. S \in SUBSET Nat /\ N \in S
  BY <1>1, TextAssumption
<1>3. PICK m \in S : \A k \in S : m <= k
  <2> HIDE DEF S
  <2> QED BY <1>2, LeastNat
<1>4. m \in p..N /\ Text[m] = "nul"
  OBVIOUS
<1>5. \A r \in p..m-1 : Text[r] # "nul"
  <2> SUFFICES ASSUME NEW r \in p..m-1, Text[r] = "nul" PROVE FALSE
    OBVIOUS
  <2>1. r \in S /\ r < m
    BY <1>1, <1>4
  <2> QED BY <1>1, <1>3, <1>4, <2>1
<1> QED
  <2> HIDE DEF S
  <2> QED BY <1>4, <1>5 DEF LineEnd

\* A window holds consecutive file positions.
LEMMA PieceIndex ==
  ASSUME NEW buf, Piece(buf), NEW i \in 1..Len(buf)
  PROVE  buf[i] = buf[1] + i - 1
<1> DEFINE S == {j \in 1..Len(buf) : buf[j] # buf[1] + j - 1}
<1>1. Len(buf) \in Nat /\ S \in SUBSET Nat
  BY DEF Piece
<1>2. SUFFICES S = {}
  OBVIOUS
<1>3. SUFFICES ASSUME S # {} PROVE FALSE
  OBVIOUS
<1>4. PICK m \in S : \A k \in S : m <= k
  <2> HIDE DEF S
  <2> QED BY <1>1, <1>3, LeastNat
<1>5. m \in 1..Len(buf) /\ buf[m] # buf[1] + m - 1
  OBVIOUS
<1>6. buf[1] \in Int /\ buf[1] + 1 - 1 = buf[1]
  BY <1>1, <1>5, TextAssumption DEF Piece
<1>7. m # 1
  BY <1>5, <1>6
<1>8. m - 1 \in 1..Len(buf)-1 /\ m - 1 < m
  BY <1>1, <1>5, <1>7
<1>9. buf[m-1] = buf[1] + (m-1) - 1
  <2>1. ~(m <= m - 1)
    BY <1>5
  <2>2. m - 1 \notin S
    BY <1>4, <2>1
  <2> QED BY <1>1, <1>8, <2>2
<1>10. buf[(m-1)+1] = buf[m-1] + 1
  BY <1>8 DEF Piece
<1>11. m \in Int /\ (m-1) + 1 = m
  BY <1>5
<1>12. buf[m] = (buf[1] + (m-1) - 1) + 1
  BY <1>9, <1>10, <1>11
<1> QED BY <1>5, <1>6, <1>11, <1>12

\* In a window two NULs are never adjacent, so only its end looks like one.
LEMMA NoTwoNuls ==
  ASSUME NEW buf, Piece(buf), NEW j \in 1..Len(buf)-1, Char(buf, j) = "nul"
  PROVE  Char(buf, j+1) # "nul"
<1>1. Len(buf) \in Nat /\ j \in 1..Len(buf) /\ j+1 \in 1..Len(buf)
  BY DEF Piece
<1>2. buf[j] \in 0..N /\ buf[j+1] \in 0..N
  BY <1>1, ElementOfSeq DEF Piece
<1>2a. buf[j+1] = buf[j] + 1
  BY DEF Piece
<1>3. buf[j] \in 0..N-1
  BY <1>2, <1>2a, TextAssumption
<1> QED BY <1>2a, <1>3, TextAssumption DEF Char

\* Appending the next line of the file to a window that ends just before it
\* gives a window.
LEMMA AppendPiece ==
  ASSUME NEW buf, Piece(buf), NEW p \in 0..N, p = buf[Len(buf)] + 1
  PROVE  /\ Piece(buf \o FileLine(p))
         /\ LineLen(p) \in Nat /\ LineLen(p) >= 1
         /\ Len(buf \o FileLine(p)) = Len(buf) + LineLen(p)
         /\ \A i \in 1..Len(buf) : (buf \o FileLine(p))[i] = buf[i]
         /\ (buf \o FileLine(p))[Len(buf) + 1] = p
         /\ (buf \o FileLine(p))[Len(buf) + LineLen(p)] = LineEnd(p)
<1> DEFINE line == FileLine(p)
<1> DEFINE new == buf \o line
<1>1. N \in Nat /\ p \in Nat /\ Len(buf) \in Nat /\ buf \in Seq(0..N) /\ Len(buf) >= 1
  BY TextAssumption DEF Piece
<1>2. LineEnd(p) \in p..N /\ Text[LineEnd(p)] = "nul"
  BY LineEndProp
<1>3. LineLen(p) \in Nat /\ LineLen(p) >= 1 /\ p + LineLen(p) - 1 = LineEnd(p)
  BY <1>1, <1>2 DEF LineLen
<1>4. /\ line \in Seq(0..N) /\ Len(line) = LineLen(p)
      /\ \A i \in 1..LineLen(p) : line[i] = p + i - 1
  <2>1. line = [i \in 1..LineLen(p) |-> p + i - 1]
    BY DEF FileLine
  <2>2. \A i \in 1..LineLen(p) : p + i - 1 \in 0..N
    BY <1>1, <1>2, <1>3, SMTT(60)
  <2>3. line \in [1..LineLen(p) -> 0..N]
    BY <2>1, <2>2
  <2>4. line \in Seq(0..N)
    BY <1>3, <2>3, SeqDef
  <2>5. DOMAIN line = 1..Len(line) /\ Len(line) \in Nat
    BY <2>4, LenProperties
  <2>6. Len(line) = LineLen(p)
    BY <1>3, <2>3, <2>5
  <2> QED BY <2>1, <2>4, <2>6
<1> HIDE DEF line
<1>5. /\ new \in Seq(0..N) /\ Len(new) = Len(buf) + LineLen(p)
      /\ \A i \in 1..Len(buf) : new[i] = buf[i]
      /\ \A i \in 1..LineLen(p) : new[Len(buf) + i] = line[i]
  <2>1. /\ new \in Seq(0..N) /\ Len(new) = Len(buf) + LineLen(p)
        /\ \A i \in 1..Len(buf)+LineLen(p) :
             new[i] = IF i <= Len(buf) THEN buf[i] ELSE line[i - Len(buf)]
    <3>1. /\ new \in Seq(0..N) /\ Len(new) = Len(buf) + Len(line)
          /\ \A i \in 1..Len(buf)+Len(line) :
               new[i] = IF i <= Len(buf) THEN buf[i] ELSE line[i - Len(buf)]
      BY <1>1, <1>4, ConcatProperties
    <3> HIDE DEF new
    <3> QED BY <1>4, <3>1
  <2>2. \A i \in 1..Len(buf) : i \in 1..Len(buf)+LineLen(p) /\ i <= Len(buf)
    BY <1>1, <1>3
  <2>3. \A i \in 1..LineLen(p) :
          /\ Len(buf) + i \in 1..Len(buf)+LineLen(p)
          /\ ~(Len(buf) + i <= Len(buf)) /\ (Len(buf) + i) - Len(buf) = i
    BY <1>1, <1>3, SMTT(60)
  <2> HIDE DEF new
  <2> QED BY <2>1, <2>2, <2>3
<1> HIDE DEF new
<1>6. /\ new[Len(buf) + 1] = p
      /\ new[Len(buf) + LineLen(p)] = LineEnd(p)
  <2>1. 1 \in 1..LineLen(p) /\ LineLen(p) \in 1..LineLen(p) /\ p + 1 - 1 = p
    BY <1>1, <1>3
  <2>2. line[1] = p /\ line[LineLen(p)] = LineEnd(p)
    BY <1>3, <1>4, <2>1
  <2> QED BY <1>5, <2>1, <2>2
<1>7. ASSUME NEW i \in 1..Len(new)-1 PROVE new[i+1] = new[i] + 1
  <2>1. CASE i < Len(buf)
    <3>0. i \in Nat /\ i >= 1 /\ Len(buf) \in Nat
      BY <1>1, <1>5
    <3>1. i \in 1..Len(buf)-1 /\ i \in 1..Len(buf) /\ i+1 \in 1..Len(buf)
      BY <2>1, <3>0
    <3> QED BY <1>5, <3>1 DEF Piece
  <2>2. CASE i = Len(buf)
    BY <1>1, <1>5, <1>6, <2>2
  <2>3. CASE i > Len(buf)
    <3>1. PICK k \in 1..LineLen(p)-1 : i = Len(buf) + k
      <4>1. i \in Int /\ Len(new) = Len(buf) + LineLen(p)
        BY <1>5
      <4>2. i - Len(buf) \in 1..LineLen(p)-1 /\ i = Len(buf) + (i - Len(buf))
        BY <1>1, <1>3, <4>1, <2>3, SMTT(60)
      <4> QED BY <4>2
    <3>2. new[Len(buf) + k] = p + k - 1 /\ new[Len(buf) + (k+1)] = p + (k+1) - 1
      <4>1. k \in 1..LineLen(p) /\ k+1 \in 1..LineLen(p)
        BY <1>3
      <4> QED BY <1>4, <1>5, <4>1
    <3>3. i + 1 = Len(buf) + (k+1) /\ p + (k+1) - 1 = (p + k - 1) + 1
      BY <1>1, <3>1
    <3> QED BY <3>1, <3>2, <3>3
  <2> QED BY <1>1, <1>5, <2>1, <2>2, <2>3
<1>8. Char(new, Len(new)) = "nul"
  BY <1>2, <1>5, <1>6 DEF Char
<1>9. new # <<>>
  BY <1>1, <1>3, <1>5
<1>10. Piece(new)
  BY <1>5, <1>7, <1>8, <1>9 DEF Piece
<1> QED BY <1>3, <1>5, <1>6, <1>10 DEF new, line

\* Dropping the cells before any index of a window leaves a window.
LEMMA CutPiece ==
  ASSUME NEW buf, Piece(buf), NEW top \in 1..Len(buf)
  PROVE  /\ Piece(SubSeq(buf, top, Len(buf)))
         /\ Len(SubSeq(buf, top, Len(buf))) = Len(buf) - top + 1
         /\ \A i \in 1..Len(buf)-top+1 :
              SubSeq(buf, top, Len(buf))[i] = buf[top + i - 1]
<1> DEFINE new == SubSeq(buf, top, Len(buf))
<1>1. N \in Nat /\ Len(buf) \in Nat /\ buf \in Seq(0..N) /\ Len(buf) >= 1
  BY TextAssumption DEF Piece
<1>2. /\ new \in Seq(0..N) /\ Len(new) = Len(buf) - top + 1
      /\ \A i \in 1..Len(buf)-top+1 : new[i] = buf[top + i - 1]
  BY <1>1, SMTT(60)
<1> HIDE DEF new
<1>3. ASSUME NEW i \in 1..Len(new)-1 PROVE new[i+1] = new[i] + 1
  <2>1. i \in 1..Len(buf)-top+1 /\ i+1 \in 1..Len(buf)-top+1
        /\ top + i - 1 \in 1..Len(buf)-1 /\ top + (i+1) - 1 = (top + i - 1) + 1
    BY <1>1, <1>2
  <2>2. new[i] = buf[top + i - 1] /\ new[i+1] = buf[top + (i+1) - 1]
    BY <1>2, <2>1
  <2> QED BY <2>1, <2>2 DEF Piece
<1>4. new[Len(new)] = buf[Len(buf)]
  <2>1. Len(new) \in 1..Len(buf)-top+1 /\ top + Len(new) - 1 = Len(buf)
    BY <1>1, <1>2
  <2> QED BY <1>2, <2>1
<1>5. Char(new, Len(new)) = "nul" /\ new # <<>>
  BY <1>1, <1>2, <1>4 DEF Piece, Char
<1>6. Piece(new)
  BY <1>2, <1>3, <1>5 DEF Piece
<1> QED BY <1>2, <1>6 DEF new

\* The walk on from the head finds the end of the window.
LEMMA WindowEndProp ==
  ASSUME Piece(src_buffer), linebufp \in 1..Len(src_buffer)
  PROVE  WindowEnd = Len(src_buffer)
<1>1. Len(src_buffer) \in Nat /\ linebufp \in Nat
  BY DEF Piece
<1>2. TwoNuls(Len(src_buffer))
  BY <1>1 DEF Piece, TwoNuls
<1>3. ASSUME NEW k \in linebufp..Len(src_buffer)-1 PROVE ~TwoNuls(k)
  <2>1. k \in 1..Len(src_buffer)-1 /\ k < Len(src_buffer)
    BY <1>1
  <2> QED BY <2>1, NoTwoNuls DEF TwoNuls
<1>4. Len(src_buffer) \in linebufp..Len(src_buffer)
  BY <1>1
<1>5. ASSUME NEW j \in linebufp..Len(src_buffer),
             TwoNuls(j), \A k \in linebufp..j-1 : ~TwoNuls(k)
      PROVE  j = Len(src_buffer)
  <2>1. j \in linebufp..Len(src_buffer)-1 \/ j = Len(src_buffer)
    BY <1>1
  <2> QED BY <1>3, <1>5, <2>1
<1>6. \E j \in linebufp..Len(src_buffer) :
        TwoNuls(j) /\ \A k \in linebufp..j-1 : ~TwoNuls(k)
  BY <1>2, <1>3, <1>4
<1> QED BY <1>5, <1>6 DEF WindowEnd

\* An empty-looking window is one in which nothing has been read.
LEMMA EmptyWindowProp ==
  ASSUME Piece(src_buffer), EmptyWindow
  PROVE  Len(src_buffer) = 1
<1>1. Len(src_buffer) \in Nat /\ Len(src_buffer) >= 1
  BY DEF Piece
<1>2. ASSUME Len(src_buffer) > 1 PROVE FALSE
  <2>1. 1 \in 1..Len(src_buffer)-1 /\ 1 < Len(src_buffer)
    BY <1>1, <1>2
  <2> QED BY <2>1, NoTwoNuls DEF EmptyWindow, TwoNuls
<1>3. \A n \in Nat : n >= 1 /\ ~(n > 1) => n = 1
  OBVIOUS
<1> QED
  BY <1>1, <1>2, <1>3, Zenon

\* The walk back from the head stops at the start of the head's line, or at
\* the window's first cell; no line end lies between there and the head.
LEMMA LineTopProp ==
  ASSUME Piece(src_buffer), linebufp \in 1..Len(src_buffer), Before >= 1
  PROVE  /\ LineTop \in 1..linebufp
         /\ LineTop = 1 \/ Char(src_buffer, LineTop - 1) = "nul"
         /\ \A k \in LineTop..linebufp-1 : k > 1 => Char(src_buffer, k) # "nul"
<1> DEFINE S == {j \in 2..Before : Char(src_buffer, j) = "nul"}
<1>1. Len(src_buffer) \in Nat /\ linebufp \in Nat
  BY DEF Piece
<1>2. /\ Before \in Nat
      /\ Here = "nul" => Before = linebufp - 1
      /\ Here # "nul" => Before = linebufp
  BY <1>1 DEF Before
<1>3. CASE S = {}
  <2>1. LineTop = 1
    BY <1>3 DEF LineTop
  <2>2. ASSUME NEW k \in LineTop..linebufp-1, k > 1 PROVE Char(src_buffer, k) # "nul"
    <3>1. k \in 2..Before
      BY <1>1, <1>2, <2>1, <2>2
    <3> QED BY <1>3, <3>1
  <2> QED BY <1>1, <2>1, <2>2
<1>4. CASE S # {}
  <2>1. PICK m \in S : \A k \in S : k <= m
    <3>1. S \in SUBSET (0..Before)
      BY <1>2
    <3> HIDE DEF S
    <3> QED BY <1>2, <1>4, <3>1, GreatestNat
  <2>2. m \in 2..Before /\ Char(src_buffer, m) = "nul"
    OBVIOUS
  <2>3. \A k \in m+1..Before : Char(src_buffer, k) # "nul"
    <3> SUFFICES ASSUME NEW k \in m+1..Before, Char(src_buffer, k) = "nul" PROVE FALSE
      OBVIOUS
    <3>1. k \in S /\ ~(k <= m)
      BY <1>2, <2>2
    <3> QED BY <2>1, <3>1
  <2>4. \E j \in 2..Before : Char(src_buffer, j) = "nul"
    BY <2>2
  <2>5. PICK j \in 2..Before :
          /\ LineTop = 1 + j /\ Char(src_buffer, j) = "nul"
          /\ \A k \in j+1..Before : Char(src_buffer, k) # "nul"
    <3> HIDE DEF S
    <3> QED BY <2>2, <2>3, <2>4 DEF LineTop
  <2>6. j < linebufp
    <3>1. j # linebufp \/ Here = "nul"
      BY <2>5 DEF Here
    <3> QED BY <1>1, <1>2, <2>5, <3>1
  <2>7. LineTop \in 1..linebufp /\ LineTop - 1 = j
    BY <1>1, <1>2, <2>5, <2>6
  <2>8. ASSUME NEW k \in LineTop..linebufp-1 PROVE Char(src_buffer, k) # "nul"
    <3>1. k \in j+1..Before
      BY <1>1, <1>2, <2>7
    <3> QED BY <2>5, <3>1
  <2> QED BY <2>5, <2>7, <2>8
<1> QED BY <1>3, <1>4

------------------------------------------------------------------------------
\* The inductive invariant.

\* Records made later hold more output: a restore to the innermost one leaves
\* the output the outer ones point into.
SavesNested ==
  \A i, j \in 1..Len(saves) : i < j => saves[i].line_ptr <= saves[j].line_ptr

\* c32_spskip stops only at a character, so the token scan may step over it.
TokenAhead == pc = "token" => Here # "nul"

IInv ==
  /\ TypeOK /\ WindowIsPieceOfFile /\ BuffersFit
  /\ SavesValid /\ SavesNested /\ TokenAhead

\* Under the invariant the window is a piece of the file.
LEMMA WindowIsPiece == IInv => Piece(src_buffer)
  BY DEF IInv, TypeOK, WindowIsPieceOfFile, Piece

\* What the invariant says of one live record.
LEMMA SaveProp ==
  ASSUME IInv, NEW i \in 1..Len(saves)
  PROVE  /\ saves[i] \in Pointers
         /\ saves[i].line_ptr \in Nat /\ saves[i].line_ptr <= Len(output_buffer)
         /\ saves[i].linebufp \in 1..Len(src_buffer)
         /\ src_buffer[saves[i].linebufp] = saves[i].at
         /\ saves[i].listed = Len(asm) + saves[i].line_ptr
<1>1. saves[i] \in Pointers
  BY ElementOfSeq DEF IInv, TypeOK
<1>2. saves[i].line_ptr \in Nat
  BY <1>1 DEF Pointers
<1> QED BY <1>1, <1>2 DEF IInv, SavesValid

\* main starts with an empty window, and the invariant holds of it.
THEOREM InitInv == Init => IInv
<1> SUFFICES ASSUME Init PROVE IInv
  OBVIOUS
<1>1. N \in Nat \ {0} /\ Text[0] = "nul"
  BY TextAssumption
<1>2. Len(src_buffer) = 1 /\ src_buffer[1] = 0 /\ src_buffer \in Seq(0..N)
  BY <1>1 DEF Init
<1>3. TypeOK
  BY <1>1, <1>2 DEF Init, TypeOK, NULL
<1>4. WindowIsPieceOfFile
  BY <1>1, <1>2 DEF Init, WindowIsPieceOfFile, Char
<1>5. BuffersFit
  BY <1>2, SizeAssumption DEF Init, BuffersFit
<1>6. SavesValid /\ SavesNested /\ TokenAhead
  BY DEF Init, SavesValid, SavesNested, TokenAhead
<1> QED BY <1>3, <1>4, <1>5, <1>6 DEF IInv

\* A fatal error changes nothing the invariant speaks of but pc and err.
LEMMA HaltInv ==
  ASSUME IInv, NEW e \in {"E_OUT_OF_MEMORY", "E_INTERNAL_ERROR", "E_INPUT_FILE_ERROR"},
         Halt(e)
  PROVE  IInv'
<1> USE DEF Halt, window, head, output
<1>1. TypeOK'
  BY DEF IInv, TypeOK
<1>2. WindowIsPieceOfFile' /\ BuffersFit'
  BY DEF IInv, WindowIsPieceOfFile, BuffersFit, Char
<1>3. SavesValid' /\ SavesNested' /\ TokenAhead'
  BY DEF IInv, SavesValid, SavesNested, TokenAhead
<1> QED BY <1>1, <1>2, <1>3 DEF IInv

\* A step of the head inside an unchanged window.
LEMMA MoveInv ==
  ASSUME IInv,
         UNCHANGED <<window, linebuf, output, no_printx, saves, err>>,
         linebufp' \in 1..Len(src_buffer),
         pc' \in {"client", "skip", "token", "comment"},
         ctx' \in {"token", "comment"},
         tok' \in {"none", "token", "eof", "error"},
         pc' = "token" => Char(src_buffer, linebufp') # "nul"
  PROVE  IInv'
<1> USE DEF window, head, output
<1>1. TypeOK'
  BY DEF IInv, TypeOK
<1>2. WindowIsPieceOfFile' /\ BuffersFit'
  BY DEF IInv, WindowIsPieceOfFile, BuffersFit, Char
<1>3. SavesValid' /\ SavesNested'
  BY DEF IInv, SavesValid, SavesNested
<1>4. TokenAhead'
  BY DEF TokenAhead, Here, Char
<1> QED BY <1>1, <1>2, <1>3, <1>4 DEF IInv

\* A character that is no line end is not the last one of the window.
LEMMA HeadCanMove ==
  ASSUME IInv, Here # "nul"
  PROVE  linebufp + 1 \in 1..Len(src_buffer)
<1>1. Len(src_buffer) \in Nat /\ linebufp \in 1..Len(src_buffer)
  BY DEF IInv, TypeOK
<1>2. linebufp # Len(src_buffer)
  BY DEF IInv, WindowIsPieceOfFile, Here
<1> QED BY <1>1, <1>2

\* Skipping a blank keeps the head in the window.
LEMMA SkipBlankInv == IInv /\ SkipBlank => IInv'
<1> SUFFICES ASSUME IInv, SkipBlank PROVE IInv'
  OBVIOUS
<1>1. linebufp + 1 \in 1..Len(src_buffer)
  BY HeadCanMove DEF SkipBlank
<1>2. ctx \in {"token", "comment"} /\ tok \in {"none", "token", "eof", "error"}
  BY DEF IInv, TypeOK
<1> QED BY <1>1, <1>2, MoveInv DEF SkipBlank, window, output

\* The end of c32_spskip keeps the invariant: before a token or a comment the
\* head is on a character the scan may look at.
LEMMA SkipDoneInv == IInv /\ SkipDone => IInv'
<1> SUFFICES ASSUME IInv, SkipDone PROVE IInv'
  OBVIOUS
<1>1. /\ linebufp \in 1..Len(src_buffer)
      /\ ctx \in {"token", "comment"} /\ tok \in {"none", "token", "eof", "error"}
  BY DEF IInv, TypeOK
<1>2. UNCHANGED <<window, linebuf, linebufp, output, no_printx, saves, ctx, err>>
  BY DEF SkipDone, head
<1>3. CASE Here \notin {"space", "nul"} /\ pc' = ctx /\ UNCHANGED tok
  BY <1>1, <1>2, <1>3, MoveInv DEF Here
<1>4. CASE pc' = "client" /\ tok' = IF ctx = "comment" THEN "error" ELSE "eof"
  BY <1>1, <1>2, <1>4, MoveInv
<1> QED BY <1>3, <1>4 DEF SkipDone

\* A call of c32_token_process changes nothing but what runs.
LEMMA TokenProcessInv == IInv /\ TokenProcess => IInv'
<1> SUFFICES ASSUME IInv, TokenProcess PROVE IInv'
  OBVIOUS
<1>1. linebufp \in 1..Len(src_buffer) /\ tok \in {"none", "token", "eof", "error"}
  BY DEF IInv, TypeOK
<1> QED BY <1>1, MoveInv DEF TokenProcess, head

\* Scanning a token, or a comment's start, stays inside the line: the head is not
\* on the NUL at its end.
LEMMA ScanTokenInv == IInv /\ ScanToken => IInv'
<1> SUFFICES ASSUME IInv, ScanToken PROVE IInv'
  OBVIOUS
<1>1. /\ linebufp \in 1..Len(src_buffer) /\ Len(src_buffer) \in Nat
      /\ ctx \in {"token", "comment"} /\ tok \in {"none", "token", "eof", "error"}
  BY DEF IInv, TypeOK
<1>2. linebufp + 1 \in 1..Len(src_buffer)
  BY HeadCanMove DEF ScanToken, IInv, TokenAhead
<1>3. StrEnd(src_buffer, linebufp) \in 1..Len(src_buffer)
  BY <1>1, StrEndProp, WindowIsPiece
<1>4. UNCHANGED <<window, linebuf, output, no_printx, saves, ctx, err>>
  BY DEF ScanToken
<1>5. CASE linebufp' = linebufp + 1 /\ pc' = "comment" /\ UNCHANGED tok
  BY <1>1, <1>2, <1>4, <1>5, MoveInv
<1>6. CASE linebufp' = StrEnd(src_buffer, linebufp) /\ pc' = "skip" /\ UNCHANGED tok
  BY <1>1, <1>3, <1>4, <1>6, MoveInv
<1>7. CASE linebufp' = linebufp + 1 /\ pc' = "client" /\ tok' = "token"
  BY <1>1, <1>2, <1>4, <1>7, MoveInv
<1> QED BY <1>5, <1>6, <1>7 DEF ScanToken

\* Scanning a block comment stays inside the line: it leaves for c32_spskip at
\* the NUL.
LEMMA ScanCommentInv == IInv /\ ScanComment => IInv'
<1> SUFFICES ASSUME IInv, ScanComment PROVE IInv'
  OBVIOUS
<1>1. /\ linebufp \in 1..Len(src_buffer)
      /\ ctx \in {"token", "comment"} /\ tok \in {"none", "token", "eof", "error"}
  BY DEF IInv, TypeOK
<1>2. UNCHANGED <<window, linebuf, output, no_printx, saves, tok, err>>
  BY DEF ScanComment
<1>3. CASE pc' = "skip" /\ ctx' = "comment" /\ UNCHANGED linebufp
  BY <1>1, <1>2, <1>3, MoveInv
<1>4. CASE Here = "cclose" /\ linebufp' = linebufp + 1 /\ pc' = "skip" /\ ctx' = "token"
  BY <1>1, <1>2, <1>4, HeadCanMove, MoveInv
<1>5. CASE /\ Here \notin {"nul", "cclose"} /\ linebufp' = linebufp + 1
           /\ UNCHANGED <<pc, ctx>> /\ pc = "comment"
  BY <1>1, <1>2, <1>5, HeadCanMove, MoveInv
<1> QED BY <1>3, <1>4, <1>5 DEF ScanComment

------------------------------------------------------------------------------
\* Printing.

\* c32_printf appends one entry, or nothing in PASS1, and stays in bounds.
LEMMA PrintedProp ==
  ASSUME IInv, NEW e \in Entry, CanPrint
  PROVE  /\ Printed(e) \in Seq(Entry)
         /\ Len(Printed(e)) + 1 <= MAX_BUFF_LEN
         /\ Len(output_buffer) <= Len(Printed(e))
<1>1. output_buffer \in Seq(Entry) /\ Len(output_buffer) \in Nat
      /\ Len(output_buffer) + 1 <= MAX_BUFF_LEN
  BY DEF IInv, TypeOK, BuffersFit
<1>2. CASE no_printx
  BY <1>1, <1>2 DEF Printed
<1>3. CASE ~no_printx
  <2>1. 1 + 1 <= MAX_BUFF_LEN - Len(output_buffer)
    BY <1>3 DEF CanPrint
  <2>2. Append(output_buffer, e) \in Seq(Entry)
        /\ Len(Append(output_buffer, e)) = Len(output_buffer) + 1
    BY <1>1, AppendProperties
  <2>3. Printed(e) = Append(output_buffer, e)
    BY <1>3 DEF Printed
  <2> QED BY <1>1, <2>1, <2>2, <2>3, SizeAssumption
<1> QED BY <1>2, <1>3

\* Entering a line of a window that extends the present one.
LEMMA EnterLineInv ==
  ASSUME IInv, NEW buf, Piece(buf), NEW top \in 1..Len(buf),
         HasColon(buf, top), CanPrint, EnterLine(buf, top), src_buffer' = buf,
         Len(src_buffer) <= Len(buf),
         \A i \in 1..Len(src_buffer) : buf[i] = src_buffer[i],
         filepos' = buf[Len(buf)] + 1,
         Len(buf) + 1 <= MAX_SRC_BUFFER_LEN,
         pc = "skip"
  PROVE  IInv'
<1>1. /\ buf \in Seq(0..N) /\ buf # <<>> /\ Len(buf) \in Nat /\ N \in Nat
      /\ Len(src_buffer) \in Nat /\ Len(src_buffer) >= 1
  BY TextAssumption, SMTT(60) DEF Piece, IInv, TypeOK
<1>2. /\ linebuf' = top
      /\ linebufp' = StrChr(buf, top) + 1
      /\ output_buffer' = Printed(Echo(buf[top]))
      /\ UNCHANGED <<asm, no_printx, saves, pc, ctx, tok, err>>
  BY DEF EnterLine
<1>3. StrChr(buf, top) \in top..StrEnd(buf, top)-1 /\ StrEnd(buf, top) \in top..Len(buf)
  BY StrChrProp
<1>4. linebufp' \in 1..Len(buf)
  BY <1>1, <1>2, <1>3, SMTT(60)
<1>5. /\ output_buffer' \in Seq(Entry)
      /\ Len(output_buffer') + 1 <= MAX_BUFF_LEN
      /\ Len(output_buffer) <= Len(output_buffer')
  <2>1. buf[top] \in 0..N
    BY <1>1, ElementOfSeq
  <2>2. Echo(buf[top]) \in Entry
    BY <2>1 DEF Echo, Entry
  <2> QED BY <1>2, <2>2, PrintedProp
<1>6. filepos' \in 1..N+1
  <2>1. buf[Len(buf)] \in 0..N
    BY <1>1, ElementOfSeq DEF Piece
  <2> QED BY <1>1, <2>1
<1>7. TypeOK'
  BY <1>1, <1>2, <1>4, <1>5, <1>6 DEF IInv, TypeOK
<1>8. WindowIsPieceOfFile'
  <2>1. src_buffer'[1] = src_buffer[1]
    BY <1>1
  <2> QED BY <2>1 DEF IInv, WindowIsPieceOfFile, Piece, Char
<1>9. BuffersFit'
  BY <1>5 DEF BuffersFit
<1>10. SavesValid'
  <2> SUFFICES ASSUME NEW i \in 1..Len(saves)
      PROVE  /\ saves[i].linebufp \in 1..Len(src_buffer')
             /\ src_buffer'[saves[i].linebufp] = saves[i].at
             /\ saves[i].line_ptr <= Len(output_buffer')
             /\ saves[i].listed = Len(asm') + saves[i].line_ptr
    BY <1>2 DEF SavesValid
  <2>1. /\ saves[i].linebufp \in 1..Len(src_buffer)
        /\ src_buffer[saves[i].linebufp] = saves[i].at
        /\ saves[i].line_ptr \in Nat /\ saves[i].line_ptr <= Len(output_buffer)
        /\ saves[i].listed = Len(asm) + saves[i].line_ptr
    BY SaveProp
  <2>2. Len(output_buffer) \in Nat /\ Len(output_buffer') \in Nat
    BY <1>5 DEF IInv, TypeOK
  <2>3. /\ saves[i].linebufp \in 1..Len(src_buffer')
        /\ src_buffer'[saves[i].linebufp] = saves[i].at
    <3>1. \A k \in 1..Len(src_buffer) : k \in 1..Len(buf)
      BY <1>1
    <3> QED BY <2>1, <3>1
  <2>4. saves[i].line_ptr <= Len(output_buffer')
    BY <1>5, <2>1, <2>2
  <2> QED BY <1>2, <2>1, <2>3, <2>4
<1>11. SavesNested' /\ TokenAhead'
  BY <1>2 DEF IInv, SavesNested, TokenAhead
<1> QED BY <1>7, <1>8, <1>9, <1>10, <1>11 DEF IInv

\* Entering a line that a restore left in the window keeps the invariant.
LEMMA ReenterLineInv == IInv /\ ReenterLine => IInv'
<1> SUFFICES ASSUME IInv, ReenterLine PROVE IInv'
  OBVIOUS
<1> DEFINE top == linebufp + 1
<1>1. CASE ~CanPrint /\ Halt("E_OUT_OF_MEMORY")
  BY <1>1, HaltInv
<1>2. CASE CanPrint /\ HasColon(src_buffer, top) /\ EnterLine(src_buffer, top)
           /\ UNCHANGED window
  <2>1. Piece(src_buffer)
    BY WindowIsPiece
  <2>2. Len(src_buffer) \in Nat /\ linebufp \in 1..Len(src_buffer) /\ linebufp < Len(src_buffer)
    BY DEF ReenterLine, IInv, TypeOK
  <2>3. top \in 1..Len(src_buffer)
    BY <2>2
  <2>4. src_buffer' = src_buffer /\ filepos' = src_buffer[Len(src_buffer)] + 1
    BY <1>2 DEF window, IInv, WindowIsPieceOfFile
  <2>5. Len(src_buffer) + 1 <= MAX_SRC_BUFFER_LEN /\ Len(src_buffer) <= Len(src_buffer)
    BY <2>2 DEF IInv, BuffersFit
  <2> HIDE DEF top
  <2> QED BY <1>2, <2>1, <2>3, <2>4, <2>5, EnterLineInv DEF ReenterLine
<1> QED BY <1>1, <1>2 DEF ReenterLine

\* The next line of the file, when it fits, extends the window.
LEMMA Fetched ==
  ASSUME IInv, filepos <= N,
         Fits(Chunk(filepos)), LineLen(filepos) < MAX_STRING_LEN
  PROVE  LET buf == src_buffer \o FileLine(filepos) IN
         /\ Piece(buf)
         /\ Len(src_buffer) + 1 \in 1..Len(buf)
         /\ \A i \in 1..Len(src_buffer) : buf[i] = src_buffer[i]
         /\ buf[Len(buf)] = LineEnd(filepos)
         /\ buf[Len(src_buffer) + 1] = filepos
         /\ Len(buf) + 1 <= MAX_SRC_BUFFER_LEN
<1>1. /\ Piece(src_buffer) /\ Len(src_buffer) \in Nat
      /\ filepos = src_buffer[Len(src_buffer)] + 1 /\ filepos \in 0..N
  BY WindowIsPiece, TextAssumption, SMTT(30) DEF IInv, TypeOK, WindowIsPieceOfFile
<1> DEFINE buf == src_buffer \o FileLine(filepos)
<1>2. /\ Piece(buf)
      /\ LineLen(filepos) \in Nat /\ LineLen(filepos) >= 1
      /\ Len(buf) = Len(src_buffer) + LineLen(filepos)
      /\ \A i \in 1..Len(src_buffer) : buf[i] = src_buffer[i]
      /\ buf[Len(src_buffer) + 1] = filepos
      /\ buf[Len(src_buffer) + LineLen(filepos)] = LineEnd(filepos)
  BY <1>1, AppendPiece
<1>3. LineLen(filepos) + Len(src_buffer) < MAX_SRC_BUFFER_LEN - 2
  BY <1>2 DEF Fits, Chunk
<1> HIDE DEF buf
<1>4. Len(src_buffer) + 1 \in 1..Len(buf) /\ Len(buf) + 1 <= MAX_SRC_BUFFER_LEN
  BY <1>1, <1>2, <1>3, SizeAssumption
<1> QED BY <1>2, <1>4 DEF buf

\* Appending the line fgets returns keeps the window one piece of the file, and
\* inside its array.
LEMMA FetchLineInv == IInv /\ FetchLine => IInv'
<1> SUFFICES ASSUME IInv, FetchLine PROVE IInv'
  OBVIOUS
<1> DEFINE buf == src_buffer \o FileLine(filepos)
<1>1. linebufp = Len(src_buffer) /\ filepos <= N /\ pc = "skip"
  BY DEF FetchLine
<1>2. CASE \E e \in {"E_OUT_OF_MEMORY", "E_INTERNAL_ERROR", "E_INPUT_FILE_ERROR"} : Halt(e)
  BY <1>2, HaltInv
<1>3. CASE /\ Fits(Chunk(filepos)) /\ LineLen(filepos) < MAX_STRING_LEN
           /\ CanPrint /\ HasColon(buf, linebufp + 1)
           /\ src_buffer' = buf
           /\ filepos' = LineEnd(filepos) + 1
           /\ EnterLine(buf, linebufp + 1)
  <2>1. /\ Piece(buf)
        /\ Len(src_buffer) + 1 \in 1..Len(buf)
        /\ \A i \in 1..Len(src_buffer) : buf[i] = src_buffer[i]
        /\ buf[Len(buf)] = LineEnd(filepos)
        /\ Len(buf) + 1 <= MAX_SRC_BUFFER_LEN
    BY <1>1, <1>3, Fetched
  <2> HIDE DEF buf
  <2>2. Len(src_buffer) <= Len(buf)
    <3>1. Len(src_buffer) \in Nat /\ Len(buf) \in Nat
      BY <2>1 DEF IInv, TypeOK, Piece
    <3> QED BY <2>1, <3>1
  <2> QED BY <1>1, <1>3, <2>1, <2>2, EnterLineInv
<1> QED BY <1>2, <1>3 DEF FetchLine

\* c32_printf keeps the invariant: it appends behind every saved line_ptr.
LEMMA PrintCodeInv == IInv /\ PrintCode => IInv'
<1> SUFFICES ASSUME IInv, PrintCode PROVE IInv'
  OBVIOUS
<1>1. CASE ~CanPrint /\ Halt("E_OUT_OF_MEMORY")
  BY <1>1, HaltInv
<1>2. CASE /\ CanPrint
           /\ output_buffer' = Printed(Code(src_buffer[linebufp]))
           /\ UNCHANGED <<window, head, asm, no_printx, saves, pc, ctx, tok, err>>
  <2> USE DEF window, head
  <2>1. src_buffer[linebufp] \in 0..N
    BY ElementOfSeq DEF IInv, TypeOK
  <2>2. Code(src_buffer[linebufp]) \in Entry
    BY <2>1 DEF Code, Entry
  <2>3. /\ output_buffer' \in Seq(Entry)
        /\ Len(output_buffer') + 1 <= MAX_BUFF_LEN
        /\ Len(output_buffer) <= Len(output_buffer')
    BY <1>2, <2>2, PrintedProp
  <2>4. TypeOK' /\ BuffersFit'
    BY <1>2, <2>3 DEF IInv, TypeOK, BuffersFit
  <2>5. WindowIsPieceOfFile' /\ SavesNested' /\ TokenAhead'
    BY <1>2 DEF IInv, WindowIsPieceOfFile, SavesNested, TokenAhead, Char, Here
  <2>6. SavesValid'
    <3>1. ASSUME NEW i \in 1..Len(saves) PROVE saves[i].line_ptr <= Len(output_buffer')
      <4>1. saves[i].line_ptr <= Len(output_buffer) /\ saves[i].line_ptr \in Nat
        BY SaveProp
      <4>2. Len(output_buffer) \in Nat /\ Len(output_buffer') \in Nat
        BY <2>3 DEF IInv, TypeOK
      <4> QED BY <2>3, <4>1, <4>2
    <3> QED BY <1>2, <3>1 DEF IInv, SavesValid
  <2> QED BY <2>4, <2>5, <2>6 DEF IInv
<1> QED BY <1>1, <1>2 DEF PrintCode

------------------------------------------------------------------------------
\* Saving and restoring the place.

\* A new src_ptr is valid, and the innermost.
LEMMA SaveInv == IInv /\ Save => IInv'
<1> SUFFICES ASSUME IInv, Save PROVE IInv'
  OBVIOUS
<1> DEFINE rec == [line_ptr |-> Len(output_buffer), linebuf |-> linebuf,
                   linebufp |-> linebufp, at |-> src_buffer[linebufp],
                   listed |-> Len(asm) + Len(output_buffer)]
<1> USE DEF window, head, output
<1>1. /\ Len(output_buffer) \in Nat /\ Len(asm) \in Nat /\ Len(saves) \in Nat
      /\ linebuf \in Nat /\ linebufp \in 1..Len(src_buffer)
      /\ saves \in Seq(Pointers)
  BY DEF IInv, TypeOK
<1>2. src_buffer[linebufp] \in 0..N
  BY <1>1, ElementOfSeq DEF IInv, TypeOK
<1>3. rec \in Pointers
  BY <1>1, <1>2 DEF Pointers
<1>4. saves' = Append(saves, rec)
      /\ UNCHANGED <<window, head, output, no_printx, pc, ctx, tok, err>>
  BY DEF Save
<1>5. /\ saves' \in Seq(Pointers) /\ Len(saves') = Len(saves) + 1
      /\ \A i \in 1..Len(saves) : saves'[i] = saves[i]
      /\ saves'[Len(saves) + 1] = rec
  <2> HIDE DEF rec
  <2> QED BY <1>1, <1>3, <1>4, AppendProperties
<1>6. TypeOK' /\ BuffersFit'
  BY <1>4, <1>5 DEF IInv, TypeOK, BuffersFit
<1>7. WindowIsPieceOfFile' /\ TokenAhead'
  BY <1>4 DEF IInv, WindowIsPieceOfFile, TokenAhead, Char, Here
<1>8. ASSUME NEW i \in 1..Len(saves') PROVE i \in 1..Len(saves) \/ i = Len(saves) + 1
  BY <1>1, <1>5
<1>9. SavesValid'
  <2> SUFFICES ASSUME NEW i \in 1..Len(saves')
      PROVE  /\ saves'[i].linebufp \in 1..Len(src_buffer)
             /\ src_buffer[saves'[i].linebufp] = saves'[i].at
             /\ saves'[i].line_ptr <= Len(output_buffer)
             /\ saves'[i].listed = Len(asm) + saves'[i].line_ptr
    BY <1>4 DEF SavesValid
  <2>1. CASE i \in 1..Len(saves)
    BY <1>5, <2>1, SaveProp
  <2>2. CASE i = Len(saves) + 1
    BY <1>1, <1>5, <2>2
  <2> QED BY <1>8, <2>1, <2>2
<1>10. SavesNested'
  <2> SUFFICES ASSUME NEW i \in 1..Len(saves'), NEW j \in 1..Len(saves'), i < j
      PROVE  saves'[i].line_ptr <= saves'[j].line_ptr
    BY DEF SavesNested
  <2>1. i \in 1..Len(saves)
    BY <1>1, <1>5
  <2>2. CASE j \in 1..Len(saves)
    BY <1>5, <2>1, <2>2 DEF IInv, SavesNested
  <2>3. CASE j = Len(saves) + 1
    <3>1. saves'[j].line_ptr = Len(output_buffer)
      BY <1>5, <2>3
    <3> QED BY <1>5, <2>1, <3>1, SaveProp
  <2> QED BY <1>8, <2>2, <2>3
<1> QED BY <1>6, <1>7, <1>9, <1>10 DEF IInv

\* What a restore does to the output: the listing becomes what it was.
LEMMA Truncated ==
  ASSUME IInv, saves # <<>>
  PROVE  /\ Len(saves) \in 1..Len(saves)
         /\ LastSave.line_ptr \in 0..Len(output_buffer)
         /\ SubSeq(output_buffer, 1, LastSave.line_ptr) \in Seq(Entry)
         /\ Len(SubSeq(output_buffer, 1, LastSave.line_ptr)) = LastSave.line_ptr
<1>1. Len(saves) \in 1..Len(saves)
  BY EmptySeq DEF IInv, TypeOK
<1>2. LastSave.line_ptr \in Nat /\ LastSave.line_ptr <= Len(output_buffer)
  BY <1>1, SaveProp DEF LastSave
<1>3. output_buffer \in Seq(Entry) /\ Len(output_buffer) \in Nat
  BY DEF IInv, TypeOK
<1>4. \A i \in 1..LastSave.line_ptr : output_buffer[i] \in Entry
  <2> TAKE i \in 1..LastSave.line_ptr
  <2>1. i \in 1..Len(output_buffer)
    BY <1>2, <1>3
  <2> QED BY <1>3, <2>1, ElementOfSeq
<1>5. SubSeq(output_buffer, 1, LastSave.line_ptr) \in Seq(Entry)
      /\ Len(SubSeq(output_buffer, 1, LastSave.line_ptr)) =
           IF 1 <= LastSave.line_ptr THEN LastSave.line_ptr - 1 + 1 ELSE 0
  <2>1. 1 \in Int /\ LastSave.line_ptr \in Int
    BY <1>2
  <2> HIDE DEF LastSave
  <2> QED BY <1>4, <2>1, SubSeqProperties
<1> QED BY <1>1, <1>2, <1>3, <1>5

\* A restore cuts the output no shorter than an outer src_ptr still needs.
LEMMA RestoreInv == IInv /\ Restore => IInv'
<1> SUFFICES ASSUME IInv, Restore PROVE IInv'
  OBVIOUS
<1> USE DEF window, head, output
<1>1. saves # <<>> /\ pc = "client"
  BY DEF Restore
<1>2. /\ Len(saves) \in 1..Len(saves)
      /\ LastSave.line_ptr \in 0..Len(output_buffer)
      /\ SubSeq(output_buffer, 1, LastSave.line_ptr) \in Seq(Entry)
      /\ Len(SubSeq(output_buffer, 1, LastSave.line_ptr)) = LastSave.line_ptr
  BY <1>1, Truncated
<1>3. LastSave.linebufp \in 1..Len(src_buffer) /\ LastSave.linebuf \in Nat
  <2>1. LastSave \in Pointers /\ LastSave.linebufp \in 1..Len(src_buffer)
    BY <1>2, SaveProp DEF LastSave
  <2> QED BY <2>1 DEF Pointers
<1>4. /\ output_buffer' = SubSeq(output_buffer, 1, LastSave.line_ptr)
      /\ linebuf' = LastSave.linebuf /\ linebufp' = LastSave.linebufp
      /\ tok' = "none"
      /\ UNCHANGED <<window, asm, no_printx, saves, pc, ctx, err>>
  <2>1. LastSave.line_ptr <= Len(output_buffer)
    BY <1>2
  <2> QED BY <2>1 DEF Restore
<1>5. TypeOK'
  BY <1>2, <1>3, <1>4 DEF IInv, TypeOK
<1>6. WindowIsPieceOfFile'
  BY <1>4 DEF IInv, WindowIsPieceOfFile, Char
<1>7. BuffersFit'
  <2>1. Len(output_buffer) \in Nat /\ Len(output_buffer) + 1 <= MAX_BUFF_LEN
    BY DEF IInv, TypeOK, BuffersFit
  <2>2. Len(output_buffer') + 1 <= MAX_BUFF_LEN
    BY <1>2, <1>4, <2>1, SizeAssumption
  <2> QED BY <1>4, <2>2 DEF IInv, BuffersFit
<1>8. SavesNested' /\ TokenAhead'
  BY <1>1, <1>4 DEF IInv, SavesNested, TokenAhead
<1>9. SavesValid'
  <2> SUFFICES ASSUME NEW i \in 1..Len(saves)
      PROVE saves[i].line_ptr <= Len(output_buffer')
    BY <1>4 DEF IInv, SavesValid
  <2>1. i = Len(saves) \/ i < Len(saves)
    BY <1>2
  <2>2. saves[i].line_ptr \in Nat /\ LastSave.line_ptr \in Nat
    BY <1>2, SaveProp
  <2>3. saves[i].line_ptr <= LastSave.line_ptr
    BY <1>2, <2>1, <2>2 DEF IInv, SavesNested, LastSave
  <2> QED BY <1>2, <1>4, <2>3
<1> QED BY <1>5, <1>6, <1>7, <1>8, <1>9 DEF IInv

\* Dropping the innermost src_ptr leaves the others valid.
LEMMA ForgetInv == IInv /\ Forget => IInv'
<1> SUFFICES ASSUME IInv, Forget PROVE IInv'
  OBVIOUS
<1> USE DEF window, head, output
<1>1. /\ saves # <<>> /\ saves' = SubSeq(saves, 1, Len(saves) - 1)
      /\ UNCHANGED <<window, head, output, no_printx, pc, ctx, tok, err>>
  BY DEF Forget
<1>2. saves \in Seq(Pointers) /\ Len(saves) \in Nat /\ Len(saves) >= 1
  BY <1>1, EmptySeq DEF IInv, TypeOK
<1>3. \A i \in 1..Len(saves)-1 : saves[i] \in Pointers
  BY <1>2, ElementOfSeq
<1>4. /\ saves' \in Seq(Pointers)
      /\ Len(saves') = IF 1 <= Len(saves)-1 THEN (Len(saves)-1) - 1 + 1 ELSE 0
      /\ \A i \in 1..(Len(saves)-1) - 1 + 1 : saves'[i] = saves[1 + i - 1]
  <2>1. 1 \in Int /\ Len(saves) - 1 \in Int
    BY <1>2
  <2> QED BY <1>1, <1>3, <2>1, SubSeqProperties
<1>5. Len(saves') = Len(saves) - 1
  <2>1. \A n \in Nat : n >= 1 => (IF 1 <= n-1 THEN (n-1) - 1 + 1 ELSE 0) = n - 1
    OBVIOUS
  <2> QED BY <1>2, <1>4, <2>1, Zenon
<1>6. ASSUME NEW i \in 1..Len(saves') PROVE i \in 1..Len(saves) /\ saves'[i] = saves[i]
  <2>1. i \in 1..Len(saves) /\ i \in 1..(Len(saves)-1) - 1 + 1 /\ 1 + i - 1 = i
    BY <1>2, <1>5
  <2> QED BY <1>4, <2>1
<1>7. TypeOK' /\ BuffersFit'
  BY <1>1, <1>4 DEF IInv, TypeOK, BuffersFit
<1>8. WindowIsPieceOfFile' /\ TokenAhead'
  BY <1>1 DEF IInv, WindowIsPieceOfFile, TokenAhead, Char, Here
<1>9. SavesValid'
  BY <1>1, <1>6 DEF IInv, SavesValid
<1>10. SavesNested'
  BY <1>6 DEF IInv, SavesNested
<1> QED BY <1>7, <1>8, <1>9, <1>10 DEF IInv

------------------------------------------------------------------------------
\* Flushing, and the second pass.

\* Writing the output out leaves the listing as it was.
LEMMA Written ==
  ASSUME IInv, asm' = asm \o output_buffer, output_buffer' = <<>>
  PROVE  /\ asm' \in Seq(Entry) /\ output_buffer' \in Seq(Entry)
         /\ Len(output_buffer') + 1 <= MAX_BUFF_LEN
         /\ asm' \o output_buffer' = asm \o output_buffer
<1>1. asm \in Seq(Entry) /\ output_buffer \in Seq(Entry)
  BY DEF IInv, TypeOK
<1>2. asm \o output_buffer \in Seq(Entry)
  BY <1>1, ConcatProperties
<1>3. (asm \o output_buffer) \o <<>> = asm \o output_buffer
  BY <1>2, ConcatEmptySeq
<1>4. Len(<<>>) = 0 /\ <<>> \in Seq(Entry)
  BY EmptySeq
<1> QED BY <1>2, <1>3, <1>4, SizeAssumption

\* Compaction keeps a piece of the file, with the head on the same character.
LEMMA CompactProp ==
  ASSUME IInv, Before >= 1, Compact
  PROVE  /\ Piece(src_buffer')
         /\ linebufp' \in 1..Len(src_buffer')
         /\ src_buffer'[linebufp'] = src_buffer[linebufp]
         /\ src_buffer'[Len(src_buffer')] = src_buffer[Len(src_buffer)]
         /\ src_buffer'[1] = 0 \/ Text[src_buffer'[1] - 1] = "nul"
         /\ Len(src_buffer') + 1 <= MAX_SRC_BUFFER_LEN
         /\ linebuf' = 1
<1>1. /\ Piece(src_buffer) /\ Len(src_buffer) \in Nat
      /\ linebufp \in 1..Len(src_buffer) /\ src_buffer \in Seq(0..N)
      /\ N \in Nat
  BY WindowIsPiece, TextAssumption DEF IInv, TypeOK
<1>2. WindowEnd = Len(src_buffer)
  BY <1>1, WindowEndProp
<1>3. /\ LineTop \in 1..linebufp
      /\ LineTop = 1 \/ Char(src_buffer, LineTop - 1) = "nul"
  BY <1>1, LineTopProp
<1>4. LineTop \in 1..Len(src_buffer)
  BY <1>1, <1>3
<1>5. /\ src_buffer' = SubSeq(src_buffer, LineTop, Len(src_buffer))
      /\ linebufp' = linebufp - LineTop + 1 /\ linebuf' = 1
  BY <1>2 DEF Compact
<1>6. /\ Piece(src_buffer')
      /\ Len(src_buffer') = Len(src_buffer) - LineTop + 1
      /\ \A i \in 1..Len(src_buffer)-LineTop+1 : src_buffer'[i] = src_buffer[LineTop + i - 1]
  <2> HIDE DEF LineTop
  <2> QED BY <1>1, <1>4, <1>5, CutPiece
<1>7. /\ linebufp' \in 1..Len(src_buffer)-LineTop+1
      /\ LineTop + linebufp' - 1 = linebufp
      /\ Len(src_buffer') \in 1..Len(src_buffer)-LineTop+1
      /\ LineTop + Len(src_buffer') - 1 = Len(src_buffer)
      /\ 1 \in 1..Len(src_buffer)-LineTop+1 /\ LineTop + 1 - 1 = LineTop
  BY <1>1, <1>3, <1>4, <1>5, <1>6
<1>8. /\ src_buffer'[linebufp'] = src_buffer[linebufp]
      /\ src_buffer'[Len(src_buffer')] = src_buffer[Len(src_buffer)]
      /\ src_buffer'[1] = src_buffer[LineTop]
  BY <1>6, <1>7
<1>9. src_buffer'[1] = 0 \/ Text[src_buffer'[1] - 1] = "nul"
  <2>1. CASE LineTop = 1
    BY <1>8, <2>1 DEF IInv, WindowIsPieceOfFile
  <2>2. CASE Char(src_buffer, LineTop - 1) = "nul" /\ LineTop # 1
    <3>1. LineTop - 1 \in 1..Len(src_buffer)-1 /\ (LineTop - 1) + 1 = LineTop
          /\ LineTop - 1 \in 1..Len(src_buffer)
      BY <1>1, <1>4, <2>2
    <3>2. src_buffer[(LineTop - 1) + 1] = src_buffer[LineTop - 1] + 1
      BY <1>1, <3>1 DEF Piece
    <3>3. src_buffer[LineTop - 1] \in 0..N
      BY <1>1, <3>1, ElementOfSeq
    <3>4. src_buffer[LineTop] - 1 = src_buffer[LineTop - 1]
      BY <1>1, <3>1, <3>2, <3>3, SMTT(30)
    <3> QED BY <1>8, <2>2, <3>4 DEF Char
  <2> QED BY <1>3, <2>1, <2>2
<1>10. Len(src_buffer') + 1 <= MAX_SRC_BUFFER_LEN
  <2>1. Len(src_buffer) + 1 <= MAX_SRC_BUFFER_LEN
    BY DEF IInv, BuffersFit
  <2> QED BY <1>1, <1>4, <1>6, <2>1, SizeAssumption
<1>11. linebufp' \in 1..Len(src_buffer')
  BY <1>6, <1>7
<1> QED BY <1>5, <1>6, <1>8, <1>9, <1>10, <1>11

\* A flush with no src_ptr alive keeps the invariant, whatever is run next.
LEMMA FlushWithInv ==
  ASSUME IInv, NEW next \in {"client", "done"}, FlushWith(next), saves = <<>>
  PROVE  IInv'
<1>1. /\ asm' = asm \o output_buffer /\ output_buffer' = <<>>
      /\ pc' = next
      /\ UNCHANGED <<filepos, no_printx, saves, ctx, tok, err>>
  BY DEF FlushWith
<1>2. /\ asm' \in Seq(Entry) /\ output_buffer' \in Seq(Entry)
      /\ Len(output_buffer') + 1 <= MAX_BUFF_LEN
  BY <1>1, Written
<1>3. /\ Piece(src_buffer')
      /\ linebufp' \in 1..Len(src_buffer') /\ linebuf' \in Nat
      /\ src_buffer'[Len(src_buffer')] = src_buffer[Len(src_buffer)]
      /\ src_buffer'[1] = 0 \/ Text[src_buffer'[1] - 1] = "nul"
      /\ Len(src_buffer') + 1 <= MAX_SRC_BUFFER_LEN
  <2>1. CASE UNCHANGED <<src_buffer, head>>
    BY <2>1, WindowIsPiece DEF head, IInv, TypeOK, WindowIsPieceOfFile, BuffersFit
  <2>2. CASE Before >= 1 /\ Compact
    <3>1. 1 \in Nat
      OBVIOUS
    <3> QED BY <2>2, <3>1, CompactProp
  <2> QED BY <2>1, <2>2 DEF FlushWith
<1>4. TypeOK'
  BY <1>1, <1>2, <1>3 DEF IInv, TypeOK, Piece
<1>5. WindowIsPieceOfFile'
  BY <1>1, <1>3 DEF IInv, WindowIsPieceOfFile, Piece
<1>6. BuffersFit'
  BY <1>2, <1>3 DEF BuffersFit
<1>7. SavesValid' /\ SavesNested'
  <2>1. Len(saves') = 0
    BY <1>1, EmptySeq
  <2> QED BY <2>1 DEF SavesValid, SavesNested
<1>8. TokenAhead'
  BY <1>1 DEF TokenAhead
<1> QED BY <1>4, <1>5, <1>6, <1>7, <1>8 DEF IInv

\* The flush after a statement keeps the invariant.
LEMMA FlushInv == IInv /\ Flush => IInv'
  BY FlushWithInv, HaltInv DEF Flush, FlushFault

\* The flush at the end of PASS3 keeps the invariant.
LEMMA FinishInv == IInv /\ Finish => IInv'
  BY FlushWithInv DEF Finish

\* Rewinding the file for PASS3 empties the window as at the start.
LEMMA StartPass3Inv == IInv /\ StartPass3 => IInv'
<1> SUFFICES ASSUME IInv, StartPass3 PROVE IInv'
  OBVIOUS
<1>1. /\ no_printx' = FALSE
      /\ asm' = asm \o Append(output_buffer, Code(0)) /\ output_buffer' = <<>>
      /\ src_buffer' = <<0>> /\ linebufp' = 1 /\ filepos' = 1
      /\ tok' = "none" /\ pc = "client" /\ saves = <<>>
      /\ UNCHANGED <<linebuf, saves, pc, ctx, err>>
  BY DEF StartPass3
<1>2. N \in Nat \ {0} /\ Text[0] = "nul" /\ 0 \in 0..N
  BY TextAssumption
<1>3. Len(src_buffer') = 1 /\ src_buffer'[1] = 0 /\ src_buffer' \in Seq(0..N)
  BY <1>1, <1>2
<1>4. asm' \in Seq(Entry) /\ output_buffer' \in Seq(Entry) /\ Len(output_buffer') = 0
  <2>1. Code(0) \in Entry
    BY <1>2 DEF Code, Entry
  <2>2. Append(output_buffer, Code(0)) \in Seq(Entry)
    BY <2>1, AppendProperties DEF IInv, TypeOK
  <2> QED BY <1>1, <2>2, ConcatProperties, EmptySeq DEF IInv, TypeOK
<1>5. TypeOK'
  <2>1. src_buffer' # <<>>
    BY <1>1
  <2>2. filepos' \in 1..N+1 /\ linebufp' \in 1..Len(src_buffer')
    BY <1>1, <1>2, <1>3
  <2>3. linebuf' \in Nat /\ saves' \in Seq(Pointers)
        /\ pc' = "client" /\ ctx' \in {"token", "comment"}
        /\ err' \in {"none", "E_OUT_OF_MEMORY", "E_INTERNAL_ERROR", "E_INPUT_FILE_ERROR"}
    BY <1>1 DEF IInv, TypeOK
  <2> QED BY <1>1, <1>3, <1>4, <2>1, <2>2, <2>3 DEF TypeOK
<1>6. WindowIsPieceOfFile'
  BY <1>1, <1>2, <1>3 DEF WindowIsPieceOfFile, Char
<1>7. BuffersFit'
  BY <1>3, <1>4, SizeAssumption DEF BuffersFit
<1>8. SavesValid' /\ SavesNested'
  <2>1. Len(saves') = 0
    BY <1>1, EmptySeq
  <2> QED BY <2>1 DEF SavesValid, SavesNested
<1>9. TokenAhead'
  BY <1>1 DEF TokenAhead
<1> QED BY <1>5, <1>6, <1>7, <1>8, <1>9 DEF IInv

------------------------------------------------------------------------------
\* Every step keeps the invariant.

\* Every step keeps the invariant.
LEMMA NextInv == IInv /\ [Next]_vars => IInv'
<1> SUFFICES ASSUME IInv, [Next]_vars PROVE IInv'
  OBVIOUS
<1>1. CASE Spskip
  BY <1>1, SkipBlankInv, ReenterLineInv, FetchLineInv, SkipDoneInv DEF Spskip
<1>2. CASE Token
  BY <1>2, TokenProcessInv, ScanTokenInv, ScanCommentInv DEF Token
<1>3. CASE Save
  BY <1>3, SaveInv
<1>4. CASE Restore
  BY <1>4, RestoreInv
<1>5. CASE Forget
  BY <1>5, ForgetInv
<1>6. CASE PrintCode
  BY <1>6, PrintCodeInv
<1>7. CASE Flush
  BY <1>7, FlushInv
<1>8. CASE StartPass3
  BY <1>8, StartPass3Inv
<1>9. CASE Finish
  BY <1>9, FinishInv
<1>10. CASE UNCHANGED vars
  <2> USE <1>10 DEF vars, window, head, output
  <2>1. TypeOK' /\ BuffersFit'
    BY DEF IInv, TypeOK, BuffersFit
  <2>2. WindowIsPieceOfFile' /\ TokenAhead'
    BY DEF IInv, WindowIsPieceOfFile, TokenAhead, Char, Here
  <2>3. SavesValid' /\ SavesNested'
    BY DEF IInv, SavesValid, SavesNested
  <2> QED BY <2>1, <2>2, <2>3 DEF IInv
<1> QED BY <1>1, <1>2, <1>3, <1>4, <1>5, <1>6, <1>7, <1>8, <1>9, <1>10 DEF Next

\* The inductive invariant holds in every state of the reader and its client.
THEOREM Invariant == Spec => []IInv
  BY InitInv, NextInv, PTL DEF Spec

\* The head of the reader never leaves the window, whatever the file and
\* however small the buffers.
THEOREM TypeCorrect == Spec => []TypeOK
<1>1. IInv => TypeOK
  BY DEF IInv
<1> QED BY <1>1, Invariant, PTL

\* Filling, compacting and rewinding keep the window a piece of the file.
THEOREM WindowCorrect == Spec => []WindowIsPieceOfFile
<1>1. IInv => WindowIsPieceOfFile
  BY DEF IInv
<1> QED BY <1>1, Invariant, PTL

\* No fetch and no c32_printf writes past its array.
THEOREM NoOverflow == Spec => []BuffersFit
<1>1. IInv => BuffersFit
  BY DEF IInv
<1> QED BY <1>1, Invariant, PTL

\* A src_ptr that may still be restored is never stale.
THEOREM SavesCorrect == Spec => []SavesValid
<1>1. IInv => SavesValid
  BY DEF IInv
<1> QED BY <1>1, Invariant, PTL

------------------------------------------------------------------------------
\* The refinement

\* What the parser sees.
Pos == src_buffer[linebufp]
MarksOf(s) == [i \in 1..Len(s) |-> [pos |-> s[i].at, len |-> s[i].listed]]
Marks == MarksOf(saves)
TapeStep == Tape!Next \/ UNCHANGED Tape!tape

\* A step that changes nothing the tape shows is a stutter.
LEMMA Stutter ==
  ASSUME UNCHANGED <<Pos, Listing, no_printx, saves>>
  PROVE  TapeStep
  BY DEF TapeStep, Tape!tape, Pos, Listing

\* Stopping with an error changes nothing the tape shows.
LEMMA HaltStutters ==
  ASSUME NEW e, Halt(e)
  PROVE  TapeStep
<1>1. UNCHANGED <<Pos, Listing, no_printx, saves>>
  BY DEF Halt, window, head, output, Pos, Listing
<1> QED BY <1>1, Stutter

\* Reading one character.
LEMMA ReadStep ==
  ASSUME IInv, Here # "nul", linebufp' = linebufp + 1,
         UNCHANGED <<window, output, no_printx, saves>>
  PROVE  TapeStep
<1>1. linebufp + 1 \in 1..Len(src_buffer) /\ linebufp \in 1..Len(src_buffer)
      /\ Len(src_buffer) \in Nat
  BY HeadCanMove DEF IInv, TypeOK
<1>2. linebufp \in 1..Len(src_buffer)-1
  BY <1>1
<1>3. src_buffer[linebufp + 1] = src_buffer[linebufp] + 1
  BY <1>2 DEF IInv, WindowIsPieceOfFile
<1>4. Text[src_buffer[linebufp]] # "nul"
  BY DEF Here, Char
<1> QED BY <1>3, <1>4 DEF TapeStep, Tape!Next, Tape!Read, window, output, Listing

\* Printing, as the listing sees it.
LEMMA PrintedList ==
  ASSUME IInv, NEW e \in Entry, output_buffer' = Printed(e), UNCHANGED <<asm, no_printx>>
  PROVE  Listing' = IF ~no_printx THEN Append(Listing, e) ELSE Listing
<1>1. asm \in Seq(Entry) /\ output_buffer \in Seq(Entry)
  BY DEF IInv, TypeOK
<1>2. CASE no_printx
  BY <1>2 DEF Listing, Printed
<1>3. CASE ~no_printx
  <2>1. output_buffer' = Append(output_buffer, e)
    BY <1>3 DEF Printed
  <2>2. Append(output_buffer, e) = output_buffer \o <<e>>
    BY <1>1, AppendIsConcat
  <2>3. asm \o output_buffer \in Seq(Entry) /\ <<e>> \in Seq(Entry)
    BY <1>1, ConcatProperties
  <2>4. Append(asm \o output_buffer, e) = (asm \o output_buffer) \o <<e>>
    BY <2>3, AppendIsConcat
  <2>5. (asm \o output_buffer) \o <<e>> = asm \o (output_buffer \o <<e>>)
    BY <1>1, <2>3, ConcatAssociative
  <2> QED BY <1>3, <2>1, <2>2, <2>4, <2>5 DEF Listing
<1> QED BY <1>2, <1>3

\* Entering the next line.
LEMMA EnterNextLine ==
  ASSUME IInv, NEW buf, Piece(buf), NEW top \in 1..Len(buf), top = linebufp + 1,
         HasColon(buf, top), EnterLine(buf, top), src_buffer' = buf,
         Here = "nul", buf[linebufp] = src_buffer[linebufp]
  PROVE  Tape!NextLine
<1> DEFINE c == StrChr(buf, top)
<1>1. /\ buf \in Seq(0..N) /\ Len(buf) \in Nat /\ N \in Nat
      /\ linebufp \in Nat /\ linebufp >= 1
  BY TextAssumption DEF Piece, IInv, TypeOK
<1>2. /\ c \in top..StrEnd(buf, top)-1 /\ StrEnd(buf, top) \in top..Len(buf)
      /\ Char(buf, c) = "colon"
      /\ \A k \in top..c-1 : Char(buf, k) \notin {"nul", "colon"}
  BY StrChrProp
<1>3. /\ linebufp' = c + 1
      /\ output_buffer' = Printed(Echo(buf[top]))
      /\ UNCHANGED <<asm, no_printx, saves>>
  BY DEF EnterLine
<1> HIDE DEF c
<1>4. c \in Int /\ c >= top /\ c + 1 <= Len(buf)
  BY <1>1, <1>2
<1>5. \A k \in 1..Len(buf) : buf[k] \in 0..N /\ buf[k] = buf[1] + k - 1
  BY <1>1, PieceIndex, ElementOfSeq
<1>6. linebufp \in 1..Len(buf) /\ c \in 1..Len(buf) /\ c + 1 \in 1..Len(buf)
  BY <1>1, <1>4
<1>7. /\ buf[1] \in 0..N /\ buf[linebufp] \in 0..N /\ buf[c] \in 0..N /\ buf[c+1] \in 0..N
      /\ buf[top] = buf[linebufp] + 1
      /\ buf[c + 1] = buf[c] + 1
      /\ buf[c] - buf[linebufp] = c - linebufp
  <2>1. 1 \in 1..Len(buf)
    BY <1>1, <1>6
  <2>2. /\ buf[1] \in 0..N /\ buf[linebufp] \in 0..N /\ buf[c] \in 0..N /\ buf[c+1] \in 0..N
        /\ buf[linebufp] = buf[1] + linebufp - 1
        /\ buf[top] = buf[1] + top - 1
        /\ buf[c] = buf[1] + c - 1 /\ buf[c+1] = buf[1] + (c+1) - 1
    BY <1>5, <1>6, <2>1
  <2>3. \A b, h, t, k \in Int : t = h + 1 =>
          /\ b + t - 1 = (b + h - 1) + 1
          /\ b + (k+1) - 1 = (b + k - 1) + 1
          /\ (b + k - 1) - (b + h - 1) = k - h
    OBVIOUS
  <2>4. buf[1] \in Int /\ linebufp \in Int /\ top \in Int /\ c \in Int
    BY <1>1, <1>4, <2>2
  <2>5. /\ buf[1] + top - 1 = (buf[1] + linebufp - 1) + 1
        /\ buf[1] + (c+1) - 1 = (buf[1] + c - 1) + 1
        /\ (buf[1] + c - 1) - (buf[1] + linebufp - 1) = c - linebufp
    BY <2>3, <2>4
  <2> QED BY <2>2, <2>5
<1>8. buf[c] \in buf[linebufp]+1 .. N-1
  <2>1. \A n, x, y, k, h \in Int :
          (y - x = k - h /\ k >= h + 1 /\ y + 1 <= n) => y \in x+1 .. n-1
    OBVIOUS
  <2>2. /\ N \in Int /\ buf[linebufp] \in Int /\ buf[c] \in Int
        /\ c \in Int /\ linebufp \in Int
    BY <1>1, <1>4, <1>7, SMTT(60)
  <2>3. c >= linebufp + 1 /\ buf[c] + 1 <= N
    BY <1>1, <1>4, <1>7
  <2> QED BY <1>7, <2>1, <2>2, <2>3
<1>9. ASSUME NEW r \in buf[linebufp]+1 .. buf[c]-1
      PROVE  Text[r] \notin {"nul", "colon"}
  <2>1. PICK k \in top..c-1 : r = buf[1] + k - 1
    <3>1. r - buf[1] + 1 \in top..c-1 /\ r = buf[1] + (r - buf[1] + 1) - 1
      <4>1. /\ buf[linebufp] = buf[1] + linebufp - 1
            /\ buf[c] = buf[1] + c - 1
        BY <1>5, <1>6
      <4>2. \A b, h, k, x \in Int : x \in (b + h - 1)+1 .. (b + k - 1)-1 =>
              x - b + 1 \in h+1 .. k-1 /\ x = b + (x - b + 1) - 1
        OBVIOUS
      <4>3. \A k \in 0..N : k \in Int
        BY <1>1
      <4>4. buf[1] \in Int /\ buf[linebufp] \in Int /\ buf[c] \in Int
        BY <1>7, <4>3
      <4>5. linebufp \in Int /\ c \in Int /\ r \in Int
        BY <1>1, <1>4, <4>4
      <4>6. r \in (buf[1] + linebufp - 1)+1 .. (buf[1] + c - 1)-1
        BY <4>1
      <4> QED BY <4>2, <4>4, <4>5, <4>6, SMTT(60)
    <3> QED BY <3>1
  <2>2. k \in 1..Len(buf)
    BY <1>1, <1>4
  <2>3. buf[k] = r
    BY <1>5, <2>1, <2>2
  <2> QED BY <1>2, <2>3 DEF Char
<1>10. Listing' = IF ~no_printx THEN Append(Listing, Echo(buf[top])) ELSE Listing
  <2>1. Echo(buf[top]) \in Entry
    BY <1>5 DEF Echo, Entry
  <2> QED BY <1>3, <2>1, PrintedList
<1>11. src_buffer[linebufp] < N /\ Text[src_buffer[linebufp]] = "nul"
  <2>1. \A n, x, y \in Int : y \in x+1 .. n-1 => x < n
    OBVIOUS
  <2>2. N \in Int /\ buf[linebufp] \in Int /\ buf[c] \in Int
    BY <1>1, <1>7, SMTT(60)
  <2> QED BY <1>8, <2>1, <2>2 DEF Here, Char
<1>12. src_buffer'[linebufp'] = buf[c] + 1
  BY <1>3, <1>7
<1>13. Text[buf[c]] = "colon"
  BY <1>2 DEF Char
<1>14. Tape!List(Tape!Echo(src_buffer[linebufp] + 1))
  BY <1>7, <1>10 DEF Tape!List, Tape!Echo, Echo, Listing
<1>15. \E d \in src_buffer[linebufp]+1 .. N-1 :
        /\ Text[d] = "colon"
        /\ \A r \in src_buffer[linebufp]+1 .. d-1 : Text[r] \notin {"nul", "colon"}
        /\ src_buffer'[linebufp'] = d + 1
  BY <1>8, <1>9, <1>12, <1>13
<1> QED BY <1>3, <1>11, <1>14, <1>15 DEF Tape!NextLine

\* Entering a line is the tape's NextLine: the line is in the window already, or fetched,
\* and the append moves nothing under the head.
LEMMA EntersLine == IInv /\ (ReenterLine \/ FetchLine) => Tape!NextLine \/ \E e : Halt(e)
<1> SUFFICES ASSUME IInv, ReenterLine \/ FetchLine, ~\E e : Halt(e) PROVE Tape!NextLine
  OBVIOUS
<1> DEFINE top == linebufp + 1
           buf == src_buffer \o FileLine(filepos)
<1>1. CASE ReenterLine
  <2>1. /\ HasColon(src_buffer, top) /\ EnterLine(src_buffer, top) /\ UNCHANGED window
    BY <1>1 DEF ReenterLine
  <2>2. Piece(src_buffer) /\ Here = "nul"
    BY <1>1, WindowIsPiece DEF ReenterLine
  <2>3. top \in 1..Len(src_buffer)
    BY <1>1 DEF ReenterLine, IInv, TypeOK
  <2>4. src_buffer' = src_buffer
    BY <2>1 DEF window
  <2> HIDE DEF top
  <2>5. top = linebufp + 1
    BY DEF top
  <2> QED BY <2>1, <2>2, <2>3, <2>4, <2>5, EnterNextLine
<1>2. CASE FetchLine
  <2>1. /\ Fits(Chunk(filepos)) /\ LineLen(filepos) < MAX_STRING_LEN
        /\ HasColon(buf, top) /\ src_buffer' = buf /\ EnterLine(buf, top)
    BY <1>2 DEF FetchLine
  <2>2. linebufp = Len(src_buffer) /\ filepos <= N /\ Here = "nul"
    BY <1>2 DEF FetchLine
  <2>3. /\ Piece(buf) /\ Len(src_buffer) + 1 \in 1..Len(buf)
        /\ \A i \in 1..Len(src_buffer) : buf[i] = src_buffer[i]
    BY <2>1, <2>2, Fetched
  <2>4. linebufp \in 1..Len(src_buffer)
    BY DEF IInv, TypeOK
  <2> HIDE DEF top, buf
  <2>5. top = linebufp + 1
    BY DEF top
  <2> QED BY <2>1, <2>2, <2>3, <2>4, <2>5, EnterNextLine
<1> QED BY <1>1, <1>2

\* A line is entered.
LEMMA EnterStep == IInv /\ (ReenterLine \/ FetchLine) => TapeStep
BY EntersLine, HaltStutters DEF TapeStep, Tape!Next

\* A character of a token is the tape's Read, a line comment its SkipLine.
LEMMA ScanTokenStep == IInv /\ ScanToken => TapeStep
<1> SUFFICES ASSUME IInv, ScanToken PROVE TapeStep
  OBVIOUS
<1>1. UNCHANGED <<window, output, no_printx, saves>> /\ Here # "nul"
  BY DEF ScanToken, IInv, TokenAhead
<1>2. CASE linebufp' = linebufp + 1
  BY <1>1, <1>2, ReadStep
<1>3. CASE Here = "line" /\ linebufp' = StrEnd(src_buffer, linebufp)
  <2> DEFINE e == StrEnd(src_buffer, linebufp)
  <2>1. /\ linebufp \in 1..Len(src_buffer) /\ Len(src_buffer) \in Nat
        /\ Piece(src_buffer) /\ src_buffer \in Seq(0..N) /\ N \in Nat
    BY WindowIsPiece, TextAssumption DEF IInv, TypeOK
  <2>2. /\ e \in linebufp..Len(src_buffer)
        /\ Char(src_buffer, e) = "nul"
        /\ \A k \in linebufp..e-1 : Char(src_buffer, k) # "nul"
    BY <2>1, StrEndProp
  <2>3. linebufp' = e
    BY <1>3
  <2> HIDE DEF e
  <2>4. e \in 1..Len(src_buffer) /\ e \in Int /\ linebufp \in Int
    BY <2>1, <2>2
  <2>5. e # linebufp
    BY <1>1, <2>2 DEF Here
  <2>6. \A k \in 1..Len(src_buffer) : src_buffer[k] \in 0..N
          /\ src_buffer[k] = src_buffer[1] + k - 1
    BY <2>1, PieceIndex, ElementOfSeq
  <2>7. /\ src_buffer[1] \in Int /\ src_buffer[e] \in 0..N /\ src_buffer[linebufp] \in 0..N
        /\ src_buffer[e] = src_buffer[1] + e - 1
        /\ src_buffer[linebufp] = src_buffer[1] + linebufp - 1
    <3>1. 1 \in 1..Len(src_buffer)
      BY <2>1
    <3> QED BY <2>1, <2>4, <2>6, <3>1
  <2>8. src_buffer[e] \in src_buffer[linebufp]+1 .. N
    <3>1. \A b, h, k \in Int : (k >= h /\ k # h /\ b + k - 1 <= N) =>
            b + k - 1 \in (b + h - 1)+1 .. N
      BY <2>1
    <3>2. src_buffer[1] + e - 1 <= N /\ e >= linebufp
      BY <2>1, <2>2, <2>4, <2>7
    <3> QED BY <2>4, <2>5, <2>7, <3>1, <3>2
  <2>9. ASSUME NEW r \in src_buffer[linebufp] .. src_buffer[e]-1 PROVE Text[r] # "nul"
    <3>1. \A b, h, k, x \in Int : x \in (b + h - 1) .. (b + k - 1)-1 =>
            x - b + 1 \in h .. k-1 /\ x = b + (x - b + 1) - 1
      OBVIOUS
    <3>2. r \in Int
      BY <2>7
    <3>3. /\ r - src_buffer[1] + 1 \in linebufp..e-1
          /\ r = src_buffer[1] + (r - src_buffer[1] + 1) - 1
      BY <2>4, <2>7, <3>1, <3>2, SMTT(60)
    <3>4. PICK k \in linebufp..e-1 : r = src_buffer[1] + k - 1
      BY <3>3
    <3>5. k \in 1..Len(src_buffer)
      BY <2>1, <2>4
    <3> QED BY <2>2, <2>6, <3>4, <3>5 DEF Char
  <2>10. Text[src_buffer[e]] = "nul" /\ Text[src_buffer[linebufp]] = "line"
    BY <1>3, <2>2 DEF Char, Here
  <2>11. src_buffer'[linebufp'] = src_buffer[e] /\ UNCHANGED <<Listing, no_printx, saves>>
    BY <1>1, <2>3 DEF window, output, Listing
  <2>12. Tape!SkipLine
    BY <2>8, <2>9, <2>10, <2>11 DEF Tape!SkipLine
  <2> QED BY <2>12 DEF TapeStep, Tape!Next
<1> QED BY <1>2, <1>3 DEF ScanToken

\* A character of a comment is the tape's Read.
LEMMA ScanCommentStep == IInv /\ ScanComment => TapeStep
<1> SUFFICES ASSUME IInv, ScanComment PROVE TapeStep
  OBVIOUS
<1>1. UNCHANGED <<window, output, no_printx, saves>>
  BY DEF ScanComment
<1>2. CASE Here # "nul" /\ linebufp' = linebufp + 1
  BY <1>1, <1>2, ReadStep
<1>3. CASE UNCHANGED linebufp
  BY <1>1, <1>3, Stutter DEF window, output, Pos, Listing
<1> QED BY <1>2, <1>3 DEF ScanComment

\* Records of saved places, as the marks of the tape.
Mark == [pos : 0..N, len : Nat]

\* The marks of the tape are those of the live src_ptr records, one for one.
LEMMA MarksProp ==
  ASSUME NEW s \in Seq(Pointers)
  PROVE  /\ MarksOf(s) \in Seq(Mark) /\ Len(MarksOf(s)) = Len(s) /\ Len(s) \in Nat
         /\ \A i \in 1..Len(s) :
              MarksOf(s)[i] = [pos |-> s[i].at, len |-> s[i].listed]
<1>1. Len(s) \in Nat
  OBVIOUS
<1>2. ASSUME NEW i \in 1..Len(s)
      PROVE  [pos |-> s[i].at, len |-> s[i].listed] \in Mark
  <2>1. s[i] \in Pointers
    BY ElementOfSeq
  <2> QED BY <2>1 DEF Pointers, Mark
<1>3. MarksOf(s) \in [1..Len(s) -> Mark]
  BY <1>2 DEF MarksOf
<1>4. MarksOf(s) \in Seq(Mark)
  BY <1>1, <1>3, SeqDef
<1>5. Len(MarksOf(s)) = Len(s)
  <2>1. DOMAIN MarksOf(s) = 1..Len(MarksOf(s)) /\ Len(MarksOf(s)) \in Nat
    BY <1>4, LenProperties
  <2> QED BY <1>1, <1>3, <2>1
<1> QED BY <1>1, <1>4, <1>5 DEF MarksOf

\* c32_src_ptr_save is the tape's Mark.
LEMMA SaveStep == IInv /\ Save => TapeStep
<1> SUFFICES ASSUME IInv, Save PROVE TapeStep
  OBVIOUS
<1> DEFINE rec == [line_ptr |-> Len(output_buffer), linebuf |-> linebuf,
                   linebufp |-> linebufp, at |-> src_buffer[linebufp],
                   listed |-> Len(asm) + Len(output_buffer)]
           m == [pos |-> Pos, len |-> Len(Listing)]
<1>1. /\ asm \in Seq(Entry) /\ output_buffer \in Seq(Entry)
      /\ src_buffer \in Seq(0..N) /\ linebufp \in 1..Len(src_buffer)
      /\ saves' = Append(saves, rec)
      /\ UNCHANGED <<window, head, output, no_printx, pc, ctx, tok, err>>
  BY DEF IInv, TypeOK, Save
<1>2. Len(Listing) = Len(asm) + Len(output_buffer) /\ Len(Listing) \in Nat
  BY <1>1, ConcatProperties DEF Listing
<1>3. m \in Mark
  BY <1>1, <1>2, ElementOfSeq DEF Pos, Mark
<1>4. rec.at = m.pos /\ rec.listed = m.len
  BY <1>2 DEF Pos
<1>5. /\ Marks \in Seq(Mark) /\ Len(Marks) = Len(saves) /\ Len(saves) \in Nat
      /\ \A i \in 1..Len(saves) :
           Marks[i] = [pos |-> saves[i].at, len |-> saves[i].listed]
  BY MarksProp DEF IInv, TypeOK, Marks
<1>6. saves' \in Seq(Pointers)
  BY SaveInv DEF IInv, TypeOK
<1>7. /\ Marks' \in Seq(Mark) /\ Len(Marks') = Len(saves')
      /\ \A i \in 1..Len(saves') :
           Marks'[i] = [pos |-> saves'[i].at, len |-> saves'[i].listed]
  BY <1>6, MarksProp DEF Marks
<1>8. /\ Len(saves') = Len(saves) + 1
      /\ \A i \in 1..Len(saves) : saves'[i] = saves[i]
      /\ saves'[Len(saves) + 1] = rec
  <2>1. saves \in Seq(Pointers)
    BY DEF IInv, TypeOK
  <2> HIDE DEF rec
  <2> QED BY <1>1, <2>1, <1>5
<1>9. Append(Marks, m) \in Seq(Mark) /\ Len(Append(Marks, m)) = Len(saves) + 1
      /\ \A i \in 1..Len(saves) : Append(Marks, m)[i] = Marks[i]
      /\ Append(Marks, m)[Len(saves) + 1] = m
  <2> HIDE DEF m
  <2> QED BY <1>3, <1>5, AppendProperties
<1>10. ASSUME NEW i \in 1..Len(Marks') PROVE Marks'[i] = Append(Marks, m)[i]
  <2>1. i \in 1..Len(saves') /\ (i \in 1..Len(saves) \/ i = Len(saves) + 1)
    BY <1>5, <1>7, <1>8
  <2>2. CASE i \in 1..Len(saves)
    BY <1>5, <1>7, <1>8, <1>9, <2>1, <2>2
  <2>3. CASE i = Len(saves) + 1
    <3>1. Marks'[i] = [pos |-> saves'[i].at, len |-> saves'[i].listed] /\ saves'[i] = rec
      BY <1>7, <1>8, <2>1, <2>3
    <3>2. Marks'[i] = m
      BY <1>4, <3>1
    <3> QED BY <1>9, <2>3, <3>2
  <2> QED BY <2>1, <2>2, <2>3
<1>11. Marks' = Append(Marks, m)
  <2>1. Len(Marks') = Len(Append(Marks, m))
    BY <1>7, <1>8, <1>9
  <2> HIDE DEF m, rec
  <2> QED BY <1>7, <1>9, <1>10, <2>1, SeqEqual
<1>12. UNCHANGED <<Pos, Listing, no_printx>>
  BY <1>1 DEF window, head, output, Pos, Listing
<1>13. Tape!Mark
  BY <1>11, <1>12 DEF Tape!Mark, Marks, MarksOf, Pos, Listing
<1> QED BY <1>13 DEF TapeStep, Tape!Next

\* A restore cuts the listing at the length it had at the save.
LEMMA ListingCut ==
  ASSUME IInv, saves # <<>>
  PROVE  asm \o SubSeq(output_buffer, 1, LastSave.line_ptr)
           = SubSeq(Listing, 1, LastSave.listed)
<1> DEFINE n == LastSave.line_ptr
           cut == SubSeq(output_buffer, 1, n)
           l == LastSave.listed
<1>1. /\ asm \in Seq(Entry) /\ output_buffer \in Seq(Entry)
      /\ Len(asm) \in Nat /\ Len(output_buffer) \in Nat
  BY DEF IInv, TypeOK
<1>2. /\ n \in 0..Len(output_buffer) /\ cut \in Seq(Entry) /\ Len(cut) = n
      /\ Len(saves) \in 1..Len(saves)
  BY Truncated
<1>3. l = Len(asm) + n
  BY <1>2, SaveProp DEF LastSave
<1>4. \A i \in 1..n : cut[i] = output_buffer[i]
  <2>1. \A i \in 1..n : output_buffer[i] \in Entry
    BY <1>1, <1>2, ElementOfSeq
  <2>2. n \in Int /\ 1 \in Int
    BY <1>2
  <2> HIDE DEF n
  <2>3. \A i \in 1..n-1+1 : cut[i] = output_buffer[1+i-1]
    BY <2>1, <2>2, SubSeqProperties
  <2>4. \A i \in 1..n : i \in 1..n-1+1 /\ 1+i-1 = i
    BY <2>2
  <2> HIDE DEF cut
  <2> QED BY <2>3, <2>4
<1>5. /\ Listing \in Seq(Entry) /\ Len(Listing) = Len(asm) + Len(output_buffer)
      /\ \A i \in 1..Len(asm)+Len(output_buffer) :
           Listing[i] = IF i <= Len(asm) THEN asm[i] ELSE output_buffer[i - Len(asm)]
  BY <1>1, ConcatProperties DEF Listing
<1> HIDE DEF n, l, cut
<1>6. /\ asm \o cut \in Seq(Entry) /\ Len(asm \o cut) = Len(asm) + Len(cut)
      /\ \A i \in 1..Len(asm)+Len(cut) :
           (asm \o cut)[i] = IF i <= Len(asm) THEN asm[i] ELSE cut[i - Len(asm)]
  BY <1>1, <1>2, ConcatProperties
<1>7. /\ n \in Int /\ l \in Nat /\ l <= Len(asm) + Len(output_buffer)
      /\ Len(asm \o cut) = l
  BY <1>1, <1>2, <1>3, <1>6
<1>8. /\ SubSeq(Listing, 1, l) \in Seq(Entry)
      /\ Len(SubSeq(Listing, 1, l)) = l
      /\ \A i \in 1..l : SubSeq(Listing, 1, l)[i] = Listing[i]
  <2>1. \A i \in 1..l : Listing[i] \in Entry
    <3>1. \A i \in 1..l : i \in 1..Len(Listing)
      BY <1>1, <1>5, <1>7
    <3> QED BY <1>5, <3>1, ElementOfSeq
  <2>2. /\ SubSeq(Listing, 1, l) \in Seq(Entry)
        /\ Len(SubSeq(Listing, 1, l)) = IF 1 <= l THEN l-1+1 ELSE 0
        /\ \A i \in 1..l-1+1 : SubSeq(Listing, 1, l)[i] = Listing[1+i-1]
    BY <1>7, <2>1, SubSeqProperties
  <2>3. (IF 1 <= l THEN l-1+1 ELSE 0) = l /\ \A i \in 1..l : i \in 1..l-1+1 /\ 1+i-1 = i
    BY <1>7
  <2> QED BY <2>2, <2>3
<1>9. ASSUME NEW i \in 1..l PROVE (asm \o cut)[i] = SubSeq(Listing, 1, l)[i]
  <2>1. i \in 1..Len(asm)+Len(output_buffer) /\ i \in 1..Len(asm)+Len(cut)
    BY <1>1, <1>2, <1>3, <1>7
  <2>2. CASE i <= Len(asm)
    BY <1>5, <1>6, <1>8, <2>1, <2>2
  <2>3. CASE ~(i <= Len(asm))
    <3>1. i - Len(asm) \in 1..n
      BY <1>1, <1>3, <1>7, <2>3
    <3> QED BY <1>4, <1>5, <1>6, <1>8, <2>1, <2>3, <3>1
  <2> QED BY <2>2, <2>3
<1>10. asm \o cut = SubSeq(Listing, 1, l)
  BY <1>6, <1>7, <1>8, <1>9, SeqEqual
<1> QED BY <1>10 DEF n, l, cut

\* c32_src_ptr_restore is the tape's Rewind: head and listing come back exactly.
LEMMA RestoreStep == IInv /\ Restore => TapeStep
<1> SUFFICES ASSUME IInv, Restore PROVE TapeStep
  OBVIOUS
<1>1. saves # <<>> /\ UNCHANGED <<window, asm, no_printx, saves>>
      /\ linebufp' = LastSave.linebufp
  BY DEF Restore
<1>2. /\ Len(saves) \in 1..Len(saves) /\ LastSave.line_ptr \in 0..Len(output_buffer)
  BY <1>1, Truncated
<1>3. output_buffer' = SubSeq(output_buffer, 1, LastSave.line_ptr)
  <2>1. LastSave.line_ptr <= Len(output_buffer)
    BY <1>2
  <2> QED BY <2>1 DEF Restore
<1>4. Listing' = SubSeq(Listing, 1, LastSave.listed)
  BY <1>1, <1>3, ListingCut DEF Listing
<1>5. src_buffer'[linebufp'] = LastSave.at
  BY <1>1, <1>2, SaveProp DEF LastSave, window
<1>6. /\ Marks \in Seq(Mark) /\ Len(Marks) = Len(saves) /\ Len(saves) \in Nat
      /\ Marks[Len(saves)] = [pos |-> LastSave.at, len |-> LastSave.listed]
  BY <1>2, MarksProp DEF IInv, TypeOK, Marks, LastSave
<1>7. Marks # <<>> /\ Marks' = Marks
  <2>1. Len(<<>>) = 0
    BY EmptySeq
  <2> QED BY <1>1, <1>2, <1>6, <2>1 DEF Marks
<1>8. Tape!Rewind
  <2>1. /\ Marks[Len(Marks)].pos = LastSave.at
        /\ Marks[Len(Marks)].len = LastSave.listed
    BY <1>6
  <2>2. /\ Marks # <<>>
        /\ src_buffer'[linebufp'] = Marks[Len(Marks)].pos
        /\ Listing' = SubSeq(Listing, 1, Marks[Len(Marks)].len)
        /\ Marks' = Marks /\ no_printx' = no_printx
    BY <1>1, <1>4, <1>5, <1>7, <2>1
  <2> QED BY <2>2, Zenon DEF Tape!Rewind, Marks, MarksOf, Listing
<1> QED BY <1>8 DEF TapeStep, Tape!Next

\* The end of a src_ptr is the tape's Forget.
LEMMA ForgetStep == IInv /\ Forget => TapeStep
<1> SUFFICES ASSUME IInv, Forget PROVE TapeStep
  OBVIOUS
<1>1. /\ saves # <<>> /\ saves' = SubSeq(saves, 1, Len(saves) - 1)
      /\ UNCHANGED <<window, head, output, no_printx, pc, ctx, tok, err>>
  BY DEF Forget
<1>2. saves \in Seq(Pointers) /\ Len(saves) \in Nat /\ Len(saves) >= 1
  BY <1>1, EmptySeq DEF IInv, TypeOK
<1>3. /\ Marks \in Seq(Mark) /\ Len(Marks) = Len(saves)
      /\ \A i \in 1..Len(saves) :
           Marks[i] = [pos |-> saves[i].at, len |-> saves[i].listed]
  BY <1>2, MarksProp DEF Marks
<1>4. saves' \in Seq(Pointers)
  BY ForgetInv DEF IInv, TypeOK
<1>5. /\ Marks' \in Seq(Mark) /\ Len(Marks') = Len(saves')
      /\ \A i \in 1..Len(saves') :
           Marks'[i] = [pos |-> saves'[i].at, len |-> saves'[i].listed]
  BY <1>4, MarksProp DEF Marks
<1> DEFINE n == Len(saves) - 1
<1>6. /\ n \in Nat
      /\ (IF 1 <= n THEN n-1+1 ELSE 0) = n
      /\ \A i \in 1..n : i \in 1..Len(saves) /\ i \in 1..n-1+1 /\ 1+i-1 = i
  <2>1. \A k \in Nat : k >= 1 =>
          /\ k-1 \in Nat
          /\ (IF 1 <= k-1 THEN (k-1)-1+1 ELSE 0) = k-1
          /\ \A i \in 1..k-1 : i \in 1..k /\ i \in 1..(k-1)-1+1 /\ 1+i-1 = i
    OBVIOUS
  <2> QED BY <1>2, <2>1, Zenon
<1> HIDE DEF n
<1>7. Len(saves') = n /\ \A i \in 1..n : saves'[i] = saves[i]
  <2>1. \A i \in 1..n : saves[i] \in Pointers
    BY <1>2, <1>6, ElementOfSeq
  <2>2. 1 \in Int /\ n \in Int
    BY <1>6
  <2>3. /\ Len(SubSeq(saves, 1, n)) = IF 1 <= n THEN n-1+1 ELSE 0
        /\ \A i \in 1..n-1+1 : SubSeq(saves, 1, n)[i] = saves[1+i-1]
    BY <2>1, <2>2, SubSeqProperties
  <2>4. saves' = SubSeq(saves, 1, n)
    BY <1>1 DEF n
  <2> QED BY <1>6, <2>3, <2>4
<1>8. /\ SubSeq(Marks, 1, n) \in Seq(Mark) /\ Len(SubSeq(Marks, 1, n)) = n
      /\ \A i \in 1..n : SubSeq(Marks, 1, n)[i] = Marks[i]
  <2>1. \A i \in 1..n : Marks[i] \in Mark
    BY <1>3, <1>6, ElementOfSeq
  <2>2. 1 \in Int /\ n \in Int
    BY <1>6
  <2>3. /\ SubSeq(Marks, 1, n) \in Seq(Mark)
        /\ Len(SubSeq(Marks, 1, n)) = IF 1 <= n THEN n-1+1 ELSE 0
        /\ \A i \in 1..n-1+1 : SubSeq(Marks, 1, n)[i] = Marks[1+i-1]
    BY <2>1, <2>2, SubSeqProperties
  <2> QED BY <1>6, <2>3
<1>9. Marks' = SubSeq(Marks, 1, n)
  <2>1. Len(Marks') = n
    BY <1>5, <1>7
  <2>2. \A i \in 1..Len(Marks') : Marks'[i] = SubSeq(Marks, 1, n)[i]
    BY <1>3, <1>5, <1>6, <1>7, <1>8, <2>1
  <2> QED BY <1>5, <1>8, <2>1, <2>2, SeqEqual
<1>10. Marks # <<>>
  <2>1. Len(<<>>) = 0
    BY EmptySeq
  <2> QED BY <1>2, <1>3, <2>1
<1>11. UNCHANGED <<Pos, Listing, no_printx>>
  BY <1>1 DEF window, head, output, Pos, Listing
<1>12. Marks' = SubSeq(Marks, 1, Len(Marks) - 1)
  BY <1>3, <1>9 DEF n
<1>13. Tape!Forget
  BY <1>10, <1>11, <1>12, Zenon DEF Tape!Forget, Marks, MarksOf, Pos, Listing
<1> QED BY <1>13 DEF TapeStep, Tape!Next

\* c32_printf is the tape's Write.
LEMMA PrintCodeStep == IInv /\ PrintCode => TapeStep
<1> SUFFICES ASSUME IInv, PrintCode PROVE TapeStep
  OBVIOUS
<1>1. CASE Halt("E_OUT_OF_MEMORY")
  BY <1>1, HaltStutters
<1>2. CASE /\ output_buffer' = Printed(Code(src_buffer[linebufp]))
           /\ UNCHANGED <<window, head, asm, no_printx, saves, pc, ctx, tok, err>>
  <2>1. src_buffer[linebufp] \in 0..N
    BY ElementOfSeq DEF IInv, TypeOK
  <2>2. Code(src_buffer[linebufp]) \in Entry
    BY <2>1 DEF Code, Entry
  <2>3. Listing' = IF ~no_printx THEN Append(Listing, Code(src_buffer[linebufp])) ELSE Listing
    BY <1>2, <2>2, PrintedList
  <2>4. Tape!Write
    BY <1>2, <2>3 DEF Tape!Write, Tape!List, Tape!Code, Code, Listing, window, head
  <2> QED BY <2>4 DEF TapeStep, Tape!Next
<1> QED BY <1>1, <1>2 DEF PrintCode

\* Flushing is invisible.
LEMMA FlushWithStep ==
  ASSUME IInv, NEW next, FlushWith(next)
  PROVE  TapeStep
<1>1. /\ asm' = asm \o output_buffer /\ output_buffer' = <<>>
      /\ UNCHANGED <<no_printx, saves>>
  BY DEF FlushWith
<1>2. Listing' = Listing
  BY <1>1, Written DEF Listing
<1>3. Pos' = Pos
  <2>1. CASE UNCHANGED <<src_buffer, head>>
    BY <2>1 DEF head, Pos
  <2>2. CASE Before >= 1 /\ Compact
    BY <2>2, CompactProp DEF Pos
  <2> QED BY <2>1, <2>2 DEF FlushWith
<1> QED BY <1>1, <1>2, <1>3, Stutter

\* The start of PASS3 is the tape's Restart.
LEMMA StartPass3Step == IInv /\ StartPass3 => TapeStep
<1> SUFFICES ASSUME IInv, StartPass3 PROVE TapeStep
  OBVIOUS
<1>1. /\ no_printx /\ no_printx' = FALSE
      /\ asm' = asm \o Append(output_buffer, Code(0)) /\ output_buffer' = <<>>
      /\ src_buffer' = <<0>> /\ linebufp' = 1
      /\ saves = <<>> /\ saves' = saves
  BY DEF StartPass3
<1>2. asm \in Seq(Entry) /\ output_buffer \in Seq(Entry)
  BY DEF IInv, TypeOK
<1>3. Code(0) \in Entry
  BY TextAssumption DEF Code, Entry
<1>4. Listing' = Append(Listing, Code(0))
  <2>1. Append(output_buffer, Code(0)) \in Seq(Entry)
        /\ Append(output_buffer, Code(0)) = output_buffer \o <<Code(0)>>
    BY <1>2, <1>3, AppendProperties, AppendIsConcat
  <2>2. Listing \in Seq(Entry) /\ <<Code(0)>> \in Seq(Entry)
    BY <1>2, <1>3, ConcatProperties DEF Listing
  <2>3. Append(Listing, Code(0)) = Listing \o <<Code(0)>>
    BY <1>3, <2>2, AppendIsConcat
  <2>4. (asm \o output_buffer) \o <<Code(0)>> = asm \o (output_buffer \o <<Code(0)>>)
    BY <1>2, <2>2, ConcatAssociative
  <2>5. asm' \in Seq(Entry)
    BY <1>1, <1>2, <2>1, ConcatProperties
  <2>6. asm' \o <<>> = asm'
    BY <2>5, ConcatEmptySeq
  <2> QED BY <1>1, <2>1, <2>3, <2>4, <2>6 DEF Listing
<1>5. Marks = <<>>
  <2>1. Len(saves) = 0 /\ saves \in Seq(Pointers)
    BY <1>1, EmptySeq
  <2>2. Marks \in Seq(Mark) /\ Len(Marks) = 0
    BY <2>1, MarksProp DEF Marks
  <2> QED BY <2>2, EmptySeq
<1>6. Marks' = Marks /\ src_buffer'[linebufp'] = 0
  BY <1>1 DEF Marks
<1>7. Tape!Code(0) = Code(0)
  BY DEF Tape!Code, Code
<1>8. Tape!Restart
  BY <1>1, <1>4, <1>5, <1>6, <1>7, Zenon DEF Tape!Restart, Marks, MarksOf, Listing
<1> QED BY <1>8 DEF TapeStep, Tape!Next

\* The initial state of main is the initial state of the tape.
LEMMA InitMaps == Init => Tape!Init
<1> SUFFICES ASSUME Init PROVE Tape!Init
  OBVIOUS
<1>1. src_buffer[linebufp] = 0 /\ (~no_printx) = FALSE
  BY DEF Init
<1>2. Listing = <<>>
  <2>1. asm = <<>> /\ output_buffer = <<>>
    BY DEF Init
  <2>2. <<>> \in Seq(Entry)
    BY EmptySeq
  <2>3. <<>> \o <<>> = <<>>
    BY <2>2, ConcatEmptySeq
  <2> QED BY <2>1, <2>3 DEF Listing
<1>3. Marks = <<>>
  <2>1. saves = <<>> /\ Len(saves) = 0 /\ saves \in Seq(Pointers)
    BY EmptySeq DEF Init
  <2>2. Marks \in Seq(Mark) /\ Len(Marks) = 0
    BY <2>1, MarksProp DEF Marks
  <2> QED BY <2>2, EmptySeq
<1> QED BY <1>1, <1>2, <1>3, Zenon DEF Tape!Init, Marks, MarksOf, Listing

\* Every step of the reader is a step of the tape or a stutter.
LEMMA NextMaps == IInv /\ [Next]_vars => TapeStep
<1> SUFFICES ASSUME IInv, [Next]_vars PROVE TapeStep
  OBVIOUS
<1>1. CASE SkipBlank
  BY <1>1, ReadStep DEF SkipBlank
<1>2. CASE SkipDone \/ TokenProcess
  <2>1. UNCHANGED <<Pos, Listing, no_printx, saves>>
    BY <1>2 DEF SkipDone, TokenProcess, window, head, output, Pos, Listing
  <2> QED BY <2>1, Stutter
<1>3. CASE ReenterLine \/ FetchLine
  BY <1>3, EnterStep
<1>4. CASE ScanToken \/ ScanComment
  BY <1>4, ScanTokenStep, ScanCommentStep
<1>5. CASE Save \/ Restore \/ Forget
  BY <1>5, SaveStep, RestoreStep, ForgetStep
<1>6. CASE PrintCode
  BY <1>6, PrintCodeStep
<1>7. CASE Flush \/ Finish
  BY <1>7, FlushWithStep, HaltStutters DEF Flush, FlushFault, Finish
<1>8. CASE StartPass3
  BY <1>8, StartPass3Step
<1>9. CASE UNCHANGED vars
  <2>1. UNCHANGED <<Pos, Listing, no_printx, saves>>
    BY <1>9 DEF vars, window, head, output, Pos, Listing
  <2> QED BY <2>1, Stutter
<1> QED BY <1>1, <1>2, <1>3, <1>4, <1>5, <1>6, <1>7, <1>8, <1>9
        DEF Next, Spskip, Token

\* To the parser the windowed, compacted, flushed source is one tape over the
\* whole file, and a restore is exact.
THEOREM Refinement == Spec => ImplementsTape
<1>1. IInv /\ [Next]_vars => [Tape!Next]_(Tape!tape)
  BY NextMaps DEF TapeStep
<1> QED BY <1>1, InitMaps, Invariant, PTL DEF Spec, ImplementsTape, Tape!Spec

------------------------------------------------------------------------------
\* The listing

\* The first characters of the lines entered up to position p.
EnteredTo(p) == {q + 1 : q \in {r \in 0..p-1 : Text[r] = "nul"}}

\* The first n entries of the listing l are those of the source up to position p.
ListsTo(l, n, p) ==
  /\ \A i, j \in 1..n : i < j => l[i].at <= l[j].at
  /\ \A i, j \in 1..n : i < j /\ l[i].kind = "echo" /\ l[j].kind = "echo" => l[i].at < l[j].at
  /\ \A i \in 1..n : l[i].at \in 0..p
  /\ \A i \in 1..n : l[i].kind = "echo" => l[i].at \in EnteredTo(p)
  /\ \A a \in EnteredTo(p) : \E i \in 1..n : l[i].kind = "echo" /\ l[i].at = a

\* What is listed belongs to what was read, now and at every place marked.
OrderInv ==
  /\ \A i \in 1..Len(Marks) : Marks[i].len <= Len(Listing)
  /\ \A i, j \in 1..Len(Marks) : i < j => Marks[i].len <= Marks[j].len
  /\ no_printx => Listing = <<>>
  /\ ~no_printx => /\ ListsTo(Listing, Len(Listing), Pos)
                   /\ \A i \in 1..Len(Marks) : ListsTo(Listing, Marks[i].len, Marks[i].pos)

\* Only the first n entries matter.
LEMMA ListsSame ==
  ASSUME NEW l, NEW m, NEW n \in Nat, NEW p, \A i \in 1..n : m[i] = l[i], ListsTo(l, n, p)
  PROVE  ListsTo(m, n, p)
BY DEF ListsTo

\* The lines entered, one after the other.
LEMMA EnteredProp ==
  ASSUME NEW p \in 0..N, NEW q \in 0..N, p <= q
  PROVE  /\ (\A r \in p..q-1 : Text[r] # "nul") => EnteredTo(q) = EnteredTo(p)
         /\ p < q /\ Text[p] = "nul" /\ (\A r \in p+1..q-1 : Text[r] # "nul")
              => EnteredTo(q) = EnteredTo(p) \cup {p + 1}
         /\ \A a \in EnteredTo(p) : a \in 1..p
         /\ EnteredTo(0) = {}
<1>1. N \in Nat
  BY TextAssumption
<1>2. ASSUME \A r \in p..q-1 : Text[r] # "nul" PROVE EnteredTo(q) = EnteredTo(p)
  <2>1. {r \in 0..q-1 : Text[r] = "nul"} = {r \in 0..p-1 : Text[r] = "nul"}
    BY <1>1, <1>2
  <2> QED BY <2>1 DEF EnteredTo
<1>3. ASSUME p < q, Text[p] = "nul", \A r \in p+1..q-1 : Text[r] # "nul"
      PROVE  EnteredTo(q) = EnteredTo(p) \cup {p + 1}
  <2>1. {r \in 0..q-1 : Text[r] = "nul"} = {r \in 0..p-1 : Text[r] = "nul"} \cup {p}
    BY <1>1, <1>3
  <2> QED BY <2>1 DEF EnteredTo
<1>4. \A a \in EnteredTo(p) : a \in 1..p
  BY <1>1 DEF EnteredTo
<1>5. EnteredTo(0) = {}
  BY DEF EnteredTo
<1> QED BY <1>2, <1>3, <1>4, <1>5

\* Reading on inside a line lists nothing.
LEMMA ListsMove ==
  ASSUME NEW l, NEW n \in Nat, NEW p \in 0..N, NEW q \in 0..N, p <= q,
         \A r \in p..q-1 : Text[r] # "nul", ListsTo(l, n, p)
  PROVE  ListsTo(l, n, q)
<1>1. EnteredTo(q) = EnteredTo(p)
  BY EnteredProp
<1>2. \A i \in 1..n : l[i].at \in 0..q
  BY TextAssumption DEF ListsTo
<1> QED BY <1>1, <1>2 DEF ListsTo

\* Entering a line lists it.
LEMMA ListsEcho ==
  ASSUME NEW l \in Seq(Entry), NEW p \in 0..N, NEW q \in 0..N, p < q, Text[p] = "nul",
         \A r \in p+1..q-1 : Text[r] # "nul", ListsTo(l, Len(l), p)
  PROVE  ListsTo(Append(l, Echo(p + 1)), Len(l) + 1, q)
<1> DEFINE e == Echo(p + 1)
           m == Append(l, e)
           n == Len(l)
<1>1. n \in Nat /\ N \in Nat /\ \A i \in 1..n : m[i] = l[i]
  BY TextAssumption
<1>2. m[n + 1] = e
  OBVIOUS
<1>3. e.at = p + 1 /\ e.kind = "echo"
  BY DEF Echo
<1> HIDE DEF e, m, n
<1>4. EnteredTo(q) = EnteredTo(p) \cup {p + 1} /\ \A a \in EnteredTo(p) : a \in 1..p
  BY EnteredProp
<1>5. ListsTo(l, n, p)
  BY DEF n
<1>6. \A i \in 1..n + 1 : i \in 1..n \/ i = n + 1
  BY <1>1
<1>7. \A i \in 1..n : m[i].at \in 0..p /\ (m[i].kind = "echo" => m[i].at \in EnteredTo(p))
  BY <1>1, <1>5 DEF ListsTo
<1>8. m[n + 1].at = p + 1 /\ m[n + 1].kind = "echo"
  BY <1>2, <1>3
<1>9. ASSUME NEW i \in 1..n + 1, NEW j \in 1..n + 1, i < j
      PROVE  /\ m[i].at <= m[j].at
             /\ m[i].kind = "echo" /\ m[j].kind = "echo" => m[i].at < m[j].at
  <2>1. i \in 1..n
    BY <1>1, <1>9
  <2>2. CASE j \in 1..n
    <3>1. m[i] = l[i] /\ m[j] = l[j]
      BY <1>1, <2>1, <2>2
    <3> QED BY <1>5, <1>9, <2>1, <2>2, <3>1 DEF ListsTo
  <2>3. CASE j = n + 1
    BY <1>1, <1>7, <1>8, <2>1, <2>3
  <2> QED BY <1>6, <2>2, <2>3
<1>10. ASSUME NEW i \in 1..n + 1 PROVE m[i].at \in 0..q /\ (m[i].kind = "echo" => m[i].at \in EnteredTo(q))
  <2>1. CASE i \in 1..n
    BY <1>1, <1>4, <1>7, <2>1
  <2>2. CASE i = n + 1
    BY <1>1, <1>4, <1>8, <2>2
  <2> QED BY <1>6, <2>1, <2>2
<1>11. ASSUME NEW a \in EnteredTo(q) PROVE \E i \in 1..n + 1 : m[i].kind = "echo" /\ m[i].at = a
  <2>1. CASE a \in EnteredTo(p)
    <3>1. PICK i \in 1..n : l[i].kind = "echo" /\ l[i].at = a
      BY <1>5, <2>1 DEF ListsTo
    <3> QED BY <1>1, <3>1
  <2>2. CASE a = p + 1
    BY <1>1, <1>8, <2>2
  <2> QED BY <1>4, <2>1, <2>2
<1>12. ListsTo(m, n + 1, q)
  BY <1>9, <1>10, <1>11 DEF ListsTo
<1> QED BY <1>12 DEF m, n, e

\* Code is listed behind the lines it is made from.
LEMMA ListsCode ==
  ASSUME NEW l \in Seq(Entry), NEW p \in 0..N, ListsTo(l, Len(l), p)
  PROVE  ListsTo(Append(l, Code(p)), Len(l) + 1, p)
<1> DEFINE e == Code(p)
           m == Append(l, e)
           n == Len(l)
<1>1. n \in Nat /\ N \in Nat /\ \A i \in 1..n : m[i] = l[i]
  BY TextAssumption
<1>2. m[n + 1] = e
  OBVIOUS
<1>3. e.at = p /\ e.kind = "code"
  BY DEF Code
<1> HIDE DEF e, m, n
<1>5. ListsTo(l, n, p)
  BY DEF n
<1>6. \A i \in 1..n + 1 : i \in 1..n \/ i = n + 1
  BY <1>1
<1>7. \A i \in 1..n : m[i].at \in 0..p /\ (m[i].kind = "echo" => m[i].at \in EnteredTo(p))
  BY <1>1, <1>5 DEF ListsTo
<1>8. m[n + 1].at = p /\ m[n + 1].kind = "code"
  BY <1>2, <1>3
<1>9. ASSUME NEW i \in 1..n + 1, NEW j \in 1..n + 1, i < j
      PROVE  /\ m[i].at <= m[j].at
             /\ m[i].kind = "echo" /\ m[j].kind = "echo" => m[i].at < m[j].at
  <2>1. i \in 1..n
    BY <1>1, <1>9
  <2>2. CASE j \in 1..n
    <3>1. m[i] = l[i] /\ m[j] = l[j]
      BY <1>1, <2>1, <2>2
    <3> QED BY <1>5, <1>9, <2>1, <2>2, <3>1 DEF ListsTo
  <2>3. CASE j = n + 1
    BY <1>1, <1>7, <1>8, <2>1, <2>3
  <2> QED BY <1>6, <2>2, <2>3
<1>10. \A i \in 1..n + 1 : m[i].at \in 0..p /\ (m[i].kind = "echo" => m[i].at \in EnteredTo(p))
  BY <1>1, <1>6, <1>7, <1>8
<1>11. ASSUME NEW a \in EnteredTo(p) PROVE \E i \in 1..n + 1 : m[i].kind = "echo" /\ m[i].at = a
  <2>1. PICK i \in 1..n : l[i].kind = "echo" /\ l[i].at = a
    BY <1>5 DEF ListsTo
  <2> QED BY <1>1, <2>1
<1>12. ListsTo(m, n + 1, p)
  BY <1>9, <1>10, <1>11 DEF ListsTo
<1> QED BY <1>12 DEF m, n, e

\* What the tape shows has its type.
Shown ==
  /\ Pos \in 0..N /\ Listing \in Seq(Entry) /\ Len(Listing) \in Nat
  /\ Marks \in Seq(Mark) /\ Len(Marks) \in Nat
  /\ \A i \in 1..Len(Marks) : Marks[i].pos \in 0..N /\ Marks[i].len \in Nat

\* It does in every state of the invariant.
LEMMA ShownNow == IInv => Shown
<1> SUFFICES ASSUME IInv PROVE Shown
  OBVIOUS
<1>1. Pos \in 0..N
  BY ElementOfSeq DEF IInv, TypeOK, Pos
<1>2. Listing \in Seq(Entry)
  BY DEF IInv, TypeOK, Listing
<1>3. Marks \in Seq(Mark) /\ Len(Marks) \in Nat
  BY MarksProp DEF IInv, TypeOK, Marks
<1>4. \A i \in 1..Len(Marks) : Marks[i] \in Mark
  BY <1>3, ElementOfSeq
<1> QED BY <1>1, <1>2, <1>3, <1>4 DEF Mark, Shown

\* So it does after every step.
LEMMA ShownNext == IInv' => Shown'
BY ShownNow, PTL

Lists == ~no_printx
Same(p) == Pos' = p /\ Listing' = Listing /\ Lists' = Lists /\ Marks' = Marks

\* Inside a line nothing is listed.
LEMMA OrderMoves ==
  ASSUME Shown, Shown', OrderInv, NEW q, Same(q), q >= Pos, \A r \in Pos..q-1 : Text[r] # "nul"
  PROVE  OrderInv'
<1>1. q \in 0..N
  BY DEF Same, Shown
<1>2. CASE no_printx
  BY <1>2 DEF Same, OrderInv, Lists
<1>3. CASE ~no_printx
  <2>1. ListsTo(Listing, Len(Listing), Pos)
    BY <1>3 DEF OrderInv
  <2>2. ListsTo(Listing, Len(Listing), q)
    BY <1>1, <2>1, ListsMove DEF Shown
  <2> QED BY <1>3, <2>2 DEF Same, OrderInv, Lists
<1> QED BY <1>2, <1>3

\* What is added to the listing leaves the marked parts alone.
LEMMA OrderAdds ==
  ASSUME Shown, OrderInv, Lists, Lists', Marks' = Marks, NEW e \in Entry,
         Listing' = Append(Listing, e), ListsTo(Append(Listing, e), Len(Listing) + 1, Pos')
  PROVE  OrderInv'
<1> DEFINE l == Listing
           m == Append(l, e)
           n == Len(l)
<1>1. n \in Nat /\ Len(m) = n + 1 /\ \A i \in 1..n : m[i] = l[i]
  BY DEF Shown
<1>2. l = Listing /\ m = Listing' /\ n = Len(Listing) /\ ListsTo(m, n + 1, Pos')
  OBVIOUS
<1> HIDE DEF l, m, n
<1>3. ASSUME NEW k \in 1..Len(Marks)
      PROVE  Marks[k].len <= n + 1 /\ ListsTo(m, Marks[k].len, Marks[k].pos)
  <2>1. Marks[k].len \in Nat /\ Marks[k].len <= n /\ ListsTo(l, Marks[k].len, Marks[k].pos)
    BY <1>2 DEF Shown, OrderInv, Lists
  <2>2. \A i \in 1..Marks[k].len : m[i] = l[i]
    BY <1>1, <2>1
  <2> QED BY <1>1, <2>1, <2>2, ListsSame
<1> QED BY <1>1, <1>2, <1>3 DEF OrderInv, Lists

\* The tape moves on inside a line, lists, is marked, goes back, or starts again.
LEMMA OrderNext ==
  ASSUME IInv, IInv', OrderInv, TapeStep
  PROVE  OrderInv'
<1> DEFINE l == Listing
           n == Len(l)
<1>0. Shown /\ Shown' /\ N \in Nat
  BY ShownNow, ShownNext, TextAssumption
<1>1. CASE Tape!Read
  <2>1. Same(Pos + 1) /\ Text[Pos] # "nul"
    BY <1>1 DEF Tape!Read, Same, Pos, Marks, MarksOf, Lists
  <2> QED BY <1>0, <2>1, OrderMoves DEF Shown
<1>2. CASE Tape!SkipLine
  <2>1. \E q \in Pos + 1 .. N : Same(q) /\ \A r \in Pos .. q - 1 : Text[r] # "nul"
    BY <1>2 DEF Tape!SkipLine, Same, Pos, Marks, MarksOf, Lists
  <2> QED BY <1>0, <2>1, OrderMoves DEF Shown
<1>3. CASE Tape!NextLine
  <2>1. PICK c \in Pos + 1 .. N - 1 :
          /\ Text[c] = "colon" /\ Pos' = c + 1
          /\ \A r \in Pos + 1 .. c - 1 : Text[r] \notin {"nul", "colon"}
    BY <1>3 DEF Tape!NextLine, Pos
  <2>2. \A r \in Pos + 1 .. Pos' - 1 : Text[r] # "nul"
    BY <1>0, <2>1 DEF Shown
  <2>6. Pos < Pos'
    BY <1>0, <2>1 DEF Shown
  <2>3. /\ Pos < N /\ Text[Pos] = "nul"
        /\ Listing' = (IF Lists THEN Append(Listing, Echo(Pos + 1)) ELSE Listing)
        /\ Lists' = Lists /\ Marks' = Marks
    BY <1>3, Zenon DEF Tape!NextLine, Tape!List, Tape!Echo, Echo, Pos, Marks, MarksOf, Listing, Lists
  <2>4. CASE Lists
    <3>1. ListsTo(Append(Listing, Echo(Pos + 1)), Len(Listing) + 1, Pos')
      BY <1>0, <2>2, <2>3, <2>4, <2>6, ListsEcho DEF Shown, OrderInv, Lists
    <3>2. Echo(Pos + 1) \in Entry
      BY <1>0, <2>3 DEF Shown, Echo, Entry
    <3> QED BY <1>0, <2>3, <2>4, <3>1, <3>2, OrderAdds
  <2>5. CASE ~Lists
    BY <2>3, <2>5 DEF OrderInv, Lists
  <2> QED BY <2>4, <2>5
<1>4. CASE Tape!Write
  <2>1. /\ Listing' = (IF Lists THEN Append(Listing, Code(Pos)) ELSE Listing)
        /\ Pos' = Pos /\ Lists' = Lists /\ Marks' = Marks
    BY <1>4 DEF Tape!Write, Tape!List, Tape!Code, Code, Pos, Marks, MarksOf, Lists
  <2>2. CASE Lists
    <3>1. ListsTo(Append(Listing, Code(Pos)), Len(Listing) + 1, Pos')
      BY <1>0, <2>1, <2>2, ListsCode DEF Shown, OrderInv, Lists
    <3>2. Code(Pos) \in Entry
      BY <1>0 DEF Shown, Code, Entry
    <3> QED BY <1>0, <2>1, <2>2, <3>1, <3>2, OrderAdds
  <2>3. CASE ~Lists
    BY <2>1, <2>3 DEF OrderInv, Lists
  <2> QED BY <2>2, <2>3
<1>5. CASE Tape!Mark
  <2>1. /\ Marks' = Append(Marks, [pos |-> Pos, len |-> Len(Listing)])
        /\ Pos' = Pos /\ Listing' = Listing /\ Lists' = Lists
    BY <1>5 DEF Tape!Mark, Pos, Marks, MarksOf, Lists
  <2>2. /\ Len(Marks') = Len(Marks) + 1
        /\ \A i \in 1..Len(Marks) : Marks'[i] = Marks[i]
        /\ Marks'[Len(Marks) + 1].pos = Pos /\ Marks'[Len(Marks) + 1].len = Len(Listing)
    BY <1>0, <2>1 DEF Shown
  <2>3. \A i \in 1..Len(Marks') : i \in 1..Len(Marks) \/ i = Len(Marks) + 1
    BY <1>0, <2>2 DEF Shown
  <2>4. ASSUME NEW i \in 1..Len(Marks')
        PROVE  /\ Marks'[i].len <= Len(Listing)
               /\ Lists => ListsTo(Listing, Marks'[i].len, Marks'[i].pos)
    <3>1. CASE i \in 1..Len(Marks)
      BY <2>2, <3>1 DEF OrderInv, Lists
    <3>2. CASE i = Len(Marks) + 1
      BY <1>0, <2>2, <3>2 DEF OrderInv, Lists, Shown
    <3> QED BY <2>3, <3>1, <3>2
  <2>5. ASSUME NEW i \in 1..Len(Marks'), NEW j \in 1..Len(Marks'), i < j
        PROVE  Marks'[i].len <= Marks'[j].len
    <3>1. i \in 1..Len(Marks)
      BY <1>0, <2>2, <2>5 DEF Shown
    <3>2. CASE j \in 1..Len(Marks)
      BY <2>2, <2>5, <3>1, <3>2 DEF OrderInv
    <3>3. CASE j = Len(Marks) + 1
      BY <2>2, <3>1, <3>3 DEF OrderInv
    <3> QED BY <2>3, <3>2, <3>3
  <2> QED BY <2>1, <2>4, <2>5 DEF OrderInv, Lists
<1>6. CASE Tape!Rewind
  <2>1. /\ Marks # <<>> /\ Pos' = Marks[Len(Marks)].pos
        /\ Listing' = SubSeq(Listing, 1, Marks[Len(Marks)].len)
        /\ Lists' = Lists /\ Marks' = Marks
    BY <1>6 DEF Tape!Rewind, Pos, Marks, MarksOf, Lists
  <2> DEFINE m == Len(Marks)
             k == Marks[m].len
  <2>2. m \in 1..Len(Marks) /\ k \in Nat
    BY <1>0, <2>1 DEF Shown
  <2>3. k <= Len(Listing) /\ (Lists => ListsTo(Listing, k, Marks[m].pos))
    BY <2>2 DEF OrderInv, Lists
  <2>4. Len(Listing') = k /\ \A i \in 1..k : Listing'[i] = Listing[i]
    BY <1>0, <2>1, <2>2, <2>3 DEF Shown
  <2>5. Lists => ListsTo(Listing', Len(Listing'), Pos')
    BY <2>1, <2>2, <2>3, <2>4, ListsSame
  <2>6. ASSUME NEW i \in 1..Len(Marks)
        PROVE  Marks[i].len <= k /\ (Lists => ListsTo(Listing', Marks[i].len, Marks[i].pos))
    <3>1. Marks[i].len <= k
      BY <1>0, <2>2 DEF OrderInv, Shown
    <3>2. Marks[i].len \in Nat /\ (Lists => ListsTo(Listing, Marks[i].len, Marks[i].pos))
      BY <1>0 DEF OrderInv, Lists, Shown
    <3>3. \A j \in 1..Marks[i].len : Listing'[j] = Listing[j]
      BY <2>2, <2>4, <3>1, <3>2
    <3> QED BY <3>1, <3>2, <3>3, ListsSame
  <2>7. ~Lists => Listing' = <<>>
    <3>1. ~Lists => Len(Listing') = 0
      BY <1>0, <2>2, <2>3, <2>4 DEF OrderInv, Lists, Shown
    <3> QED BY <1>0, <3>1 DEF Shown
  <2>8. \A i, j \in 1..Len(Marks) : i < j => Marks[i].len <= Marks[j].len
    BY DEF OrderInv
  <2> HIDE DEF k, m
  <2> QED BY <2>1, <2>4, <2>5, <2>6, <2>7, <2>8 DEF OrderInv, Lists
<1>7. CASE Tape!Forget
  <2>1. /\ Marks # <<>> /\ Marks' = SubSeq(Marks, 1, Len(Marks) - 1)
        /\ Pos' = Pos /\ Listing' = Listing /\ Lists' = Lists
    BY <1>7 DEF Tape!Forget, Pos, Marks, MarksOf, Lists
  <2> DEFINE m == Len(Marks) - 1
  <2>3. m \in 0..Len(Marks) /\ \A i \in 1..m : i \in 1..Len(Marks)
    BY <1>0, <2>1 DEF Shown
  <2>4. Len(SubSeq(Marks, 1, m)) = m /\ \A i \in 1..m : SubSeq(Marks, 1, m)[i] = Marks[i]
    <3> HIDE DEF m
    <3> QED BY <1>0, <2>3 DEF Shown
  <2>2. /\ Len(Marks') = m /\ \A i \in 1..m : Marks'[i] = Marks[i]
        /\ \A i \in 1..m : i \in 1..Len(Marks)
    BY <2>1, <2>3, <2>4
  <2> HIDE DEF m
  <2> QED BY <2>1, <2>2 DEF OrderInv, Lists
<1>8. CASE Tape!Restart
  <2>1. /\ ~Lists /\ Marks = <<>> /\ Pos' = 0 /\ Lists'
        /\ Listing' = Append(Listing, Code(0)) /\ Marks' = Marks
    BY <1>8 DEF Tape!Restart, Tape!Code, Code, Pos, Marks, MarksOf, Lists
  <2>2. Listing = <<>> /\ <<>> \in Seq(Entry) /\ Len(Marks) = 0 /\ 0 \in 0..N
    BY <1>0, <2>1 DEF OrderInv, Lists
  <2>3. ListsTo(<<>>, 0, 0)
    BY <1>0, EnteredProp DEF ListsTo
  <2>4. ListsTo(Append(<<>>, Code(0)), 0 + 1, 0) /\ Len(Listing') = 1
    <3>1. Len(<<>>) = 0
      OBVIOUS
    <3>2. ListsTo(Append(<<>>, Code(0)), Len(<<>>) + 1, 0)
      BY <2>2, <2>3, <3>1, ListsCode
    <3> QED BY <2>1, <2>2, <3>1, <3>2
  <2> QED BY <2>1, <2>2, <2>4 DEF OrderInv, Lists
<1>9. CASE UNCHANGED Tape!tape
  <2>1. Same(Pos)
    BY <1>9 DEF Tape!tape, Same, Pos, Marks, MarksOf, Lists
  <2> QED BY <1>0, <2>1, OrderMoves DEF Shown
<1> QED BY <1>1, <1>2, <1>3, <1>4, <1>5, <1>6, <1>7, <1>8, <1>9 DEF TapeStep, Tape!Next

\* Nothing is listed at first.
LEMMA OrderInit == Init => OrderInv
<1> SUFFICES ASSUME Init PROVE OrderInv
  OBVIOUS
<1>1. Tape!Init
  BY InitMaps
<1>2. Listing = <<>> /\ Marks = <<>> /\ no_printx
  BY <1>1 DEF Tape!Init, Marks, MarksOf, Init
<1>3. Len(Listing) = 0 /\ Len(Marks) = 0
  BY <1>2
<1> QED BY <1>2, <1>3 DEF OrderInv

\* The invariant says what ListingInOrder asks for.
LEMMA OrderSays ==
  ASSUME IInv, OrderInv
  PROVE  ListingInOrder
<1>1. DOMAIN Listing = 1..Len(Listing) /\ LinesEntered = EnteredTo(Pos)
  BY ShownNow DEF Shown, LinesEntered, EnteredTo, Pos
<1>2. CASE no_printx
  BY <1>2 DEF OrderInv, ListingInOrder, Echoes
<1>3. CASE ~no_printx
  <2>1. ListsTo(Listing, Len(Listing), Pos)
    BY <1>3 DEF OrderInv
  <2>2. {Listing[i].at : i \in Echoes} = EnteredTo(Pos)
    BY <1>1, <2>1 DEF ListsTo, Echoes
  <2> QED BY <1>1, <2>1, <2>2 DEF ListsTo, Echoes, ListingInOrder
<1> QED BY <1>2, <1>3

\* Each source line the head has passed is listed exactly once, in the order of the source
\* and before the code made from it, for every file and however the parser goes back.
THEOREM ListingIsInOrder == Spec => []ListingInOrder
<1>1. Init => OrderInv
  BY OrderInit
<1>2. IInv /\ IInv' /\ OrderInv /\ [Next]_vars => OrderInv'
  BY NextMaps, OrderNext
<1>3. IInv /\ OrderInv => ListingInOrder
  BY OrderSays
<1> QED BY <1>1, <1>2, <1>3, Invariant, PTL DEF Spec
------------------------------------------------------------------------------
\* The line the head is on.

\* lb is the start of the line that index h of the window is in, and h behind it.
StartsLine(buf, lb, h) ==
  /\ lb \in 1..h-1
  /\ \A i \in lb..h-1 : Char(buf, i) # "nul"
  /\ lb = 1 \/ Char(buf, lb - 1) = "nul"
\* Nothing of the file has been read, or lb is where the line of h starts.
LineAt(buf, lb, h) == IF h = 1 THEN buf[1] = 0 ELSE StartsLine(buf, lb, h)

LineInv ==
  /\ LineAt(src_buffer, linebuf, linebufp)
  /\ \A i \in 1..Len(saves) : LineAt(src_buffer, saves[i].linebuf, saves[i].linebufp)

\* The head goes on in its line.
LEMMA LineGoesOn ==
  ASSUME NEW buf, NEW lb, NEW h \in Nat, NEW k \in Nat, 1 <= h, h <= k, LineAt(buf, lb, h),
         h = 1 => h = k, \A i \in h..k-1 : Char(buf, i) # "nul"
  PROVE  LineAt(buf, lb, k)
<1>1. CASE h = 1
  BY <1>1
<1>2. CASE h # 1
  <2>1. lb \in 1..h-1 /\ \A i \in lb..h-1 : Char(buf, i) # "nul"
        /\ (lb = 1 \/ Char(buf, lb - 1) = "nul")
    BY <1>2 DEF LineAt, StartsLine
  <2>2. k # 1 /\ lb \in 1..k-1
    BY <1>2, <2>1
  <2>3. ASSUME NEW i \in lb..k-1 PROVE Char(buf, i) # "nul"
    <3>1. i \in lb..h-1 \/ i \in h..k-1
      BY <2>1
    <3> QED BY <2>1, <3>1
  <2> QED BY <2>1, <2>2, <2>3 DEF LineAt, StartsLine
<1> QED BY <1>1, <1>2

\* What the window holds behind h does not matter.
LEMMA LineStays ==
  ASSUME NEW buf, NEW new, NEW lb, NEW h \in 1..Len(buf), Len(buf) \in Nat,
         \A i \in 1..Len(buf) : new[i] = buf[i], LineAt(buf, lb, h)
  PROVE  LineAt(new, lb, h)
<1>1. CASE h = 1
  BY <1>1 DEF LineAt
<1>2. CASE h # 1
  <2>1. lb \in 1..h-1 /\ \A i \in lb..h-1 : Char(buf, i) # "nul"
        /\ (lb = 1 \/ Char(buf, lb - 1) = "nul")
    BY <1>2 DEF LineAt, StartsLine
  <2>2. ASSUME NEW i \in lb..h-1 PROVE Char(new, i) # "nul"
    <3>1. i \in 1..Len(buf)
      BY <2>1
    <3> QED BY <2>1, <3>1 DEF Char
  <2>3. lb = 1 \/ Char(new, lb - 1) = "nul"
    <3>1. lb # 1 => lb - 1 \in 1..Len(buf)
      BY <2>1
    <3> QED BY <2>1, <3>1 DEF Char
  <2> QED BY <1>2, <2>1, <2>2, <2>3 DEF LineAt, StartsLine
<1> QED BY <1>1, <1>2

\* The line that is entered starts at top.
LEMMA LineEntered ==
  ASSUME NEW buf, Piece(buf), NEW top \in 2..Len(buf), Char(buf, top - 1) = "nul",
         HasColon(buf, top)
  PROVE  LineAt(buf, top, StrChr(buf, top) + 1)
<1> DEFINE c == StrChr(buf, top)
<1>1. /\ c \in top..StrEnd(buf, top)-1 /\ StrEnd(buf, top) \in top..Len(buf)
      /\ \A k \in top..c-1 : Char(buf, k) \notin {"nul", "colon"}
      /\ Char(buf, c) = "colon" /\ Len(buf) \in Nat
  BY StrChrProp DEF Piece
<1> HIDE DEF c
<1>2. c + 1 # 1 /\ top \in 1..(c + 1)-1
  BY <1>1
<1>3. ASSUME NEW i \in top..(c + 1)-1 PROVE Char(buf, i) # "nul"
  <2>1. i \in top..c-1 \/ i = c
    BY <1>1
  <2> QED BY <1>1, <2>1
<1> QED BY <1>2, <1>3 DEF LineAt, StartsLine, c

\* No action moves the places of records but Save, which makes one of the head.
LEMMA LinesKept ==
  ASSUME LineInv, UNCHANGED <<src_buffer, linebuf, linebufp, saves>>
  PROVE  LineInv'
  BY DEF LineInv

\* The head goes on in its line, whoever moves it.
LEMMA HeadGoesOn ==
  ASSUME IInv, LineInv, UNCHANGED <<src_buffer, linebuf, saves>>, linebufp' \in Nat,
         linebufp <= linebufp', \A i \in linebufp..linebufp'-1 : Char(src_buffer, i) # "nul"
  PROVE  LineInv'
<1>1. linebufp \in Nat /\ linebufp >= 1 /\ Len(src_buffer) \in Nat
  BY DEF IInv, TypeOK
<1>2. linebufp = 1 => linebufp = linebufp'
  <2>1. ASSUME linebufp = 1, linebufp # linebufp' PROVE FALSE
    <3>1. Char(src_buffer, 1) # "nul"
      <4> DEFINE h == linebufp'
      <4>1. h \in Nat /\ 1 <= h /\ h # 1
        BY <2>1
      <4>2. \A i \in 1..h-1 : Char(src_buffer, i) # "nul"
        BY <2>1
      <4> HIDE DEF h
      <4>3. 1 \in 1..h-1
        BY <4>1
      <4> QED BY <4>2, <4>3
    <3>2. src_buffer[1] = 0
      BY <2>1 DEF LineInv, LineAt
    <3> QED BY <3>1, <3>2, TextAssumption DEF Char
  <2> QED BY <2>1
<1>3. LineAt(src_buffer, linebuf, linebufp')
  BY <1>1, <1>2, LineGoesOn DEF LineInv
<1> QED BY <1>3 DEF LineInv

\* A line is entered, in a window that holds what it held.
LEMMA HeadEnters ==
  ASSUME IInv, LineInv, NEW buf, Piece(buf), linebufp + 1 \in 1..Len(buf), Here = "nul",
         HasColon(buf, linebufp + 1), EnterLine(buf, linebufp + 1), src_buffer' = buf,
         \A i \in 1..Len(src_buffer) : buf[i] = src_buffer[i]
  PROVE  LineInv'
<1>1. linebufp \in 1..Len(src_buffer) /\ Len(src_buffer) \in Nat /\ Len(buf) \in Nat
  BY DEF IInv, TypeOK, Piece
<1>2. linebufp + 1 \in 2..Len(buf) /\ (linebufp + 1) - 1 = linebufp
  BY <1>1
<1>3. Char(buf, (linebufp + 1) - 1) = "nul"
  BY <1>1, <1>2 DEF Here, Char
<1>4. LineAt(buf, linebufp + 1, StrChr(buf, linebufp + 1) + 1)
  BY <1>2, <1>3, LineEntered
<1>5. LineAt(src_buffer', linebuf', linebufp') /\ saves' = saves
  BY <1>4 DEF EnterLine
<1>6. ASSUME NEW i \in 1..Len(saves)
      PROVE  LineAt(buf, saves[i].linebuf, saves[i].linebufp)
  <2>1. saves[i].linebufp \in 1..Len(src_buffer)
    BY SaveProp
  <2> QED BY <1>1, <2>1, LineStays DEF LineInv
<1> QED BY <1>5, <1>6 DEF LineInv

\* c32_spskip and c32_token_process stay in the line, or enter the next.
LEMMA ReaderLines ==
  ASSUME IInv, LineInv, Spskip \/ Token
  PROVE  LineInv'
<1>1. linebufp \in Nat /\ linebufp \in 1..Len(src_buffer) /\ Len(src_buffer) \in Nat
  BY DEF IInv, TypeOK
<1>2. ASSUME Here # "nul", linebufp' = linebufp + 1, UNCHANGED <<src_buffer, linebuf, saves>>
      PROVE  LineInv'
  <2>1. \A i \in linebufp..linebufp'-1 : i = linebufp
    BY <1>1, <1>2
  <2> QED BY <1>1, <1>2, <2>1, HeadGoesOn DEF Here
<1>3. CASE SkipBlank
  BY <1>2, <1>3 DEF SkipBlank, window
<1>4. CASE ReenterLine
  <2>1. CASE Halt("E_OUT_OF_MEMORY")
    BY <2>1, LinesKept DEF Halt, window, head
  <2>2. CASE HasColon(src_buffer, linebufp + 1) /\ EnterLine(src_buffer, linebufp + 1)
             /\ UNCHANGED window
    <3>1. linebufp + 1 \in 1..Len(src_buffer) /\ Here = "nul"
      BY <1>1, <1>4 DEF ReenterLine
    <3> QED BY <2>2, <3>1, WindowIsPiece, HeadEnters DEF window
  <2> QED BY <1>4, <2>1, <2>2 DEF ReenterLine
<1>5. CASE FetchLine
  <2> DEFINE buf == src_buffer \o FileLine(filepos)
  <2>1. CASE \E e : Halt(e)
    BY <2>1, LinesKept DEF Halt, window, head
  <2>2. CASE /\ Fits(Chunk(filepos)) /\ LineLen(filepos) < MAX_STRING_LEN
             /\ HasColon(buf, linebufp + 1) /\ src_buffer' = buf
             /\ EnterLine(buf, linebufp + 1)
    <3>1. linebufp = Len(src_buffer) /\ filepos <= N /\ Here = "nul"
      BY <1>5 DEF FetchLine
    <3>2. /\ Piece(buf) /\ linebufp + 1 \in 1..Len(buf)
          /\ \A i \in 1..Len(src_buffer) : buf[i] = src_buffer[i]
      BY <2>2, <3>1, Fetched
    <3> HIDE DEF buf
    <3> QED BY <2>2, <3>1, <3>2, HeadEnters
  <2> QED BY <1>5, <2>1, <2>2 DEF FetchLine
<1>6. CASE SkipDone \/ TokenProcess
  BY <1>6, LinesKept DEF SkipDone, TokenProcess, window, head
<1>7. CASE ScanToken
  <2>1. Here # "nul" /\ UNCHANGED <<src_buffer, linebuf, saves>>
    BY <1>7 DEF ScanToken, window, IInv, TokenAhead
  <2>2. CASE linebufp' = StrEnd(src_buffer, linebufp)
    <3>1. /\ StrEnd(src_buffer, linebufp) \in linebufp..Len(src_buffer)
          /\ \A k \in linebufp..StrEnd(src_buffer, linebufp)-1 : Char(src_buffer, k) # "nul"
      BY <1>1, WindowIsPiece, StrEndProp
    <3> QED BY <1>1, <2>1, <2>2, <3>1, HeadGoesOn
  <2> QED BY <1>2, <1>7, <2>1, <2>2 DEF ScanToken
<1>8. CASE ScanComment
  <2>1. UNCHANGED <<src_buffer, linebuf, saves>>
    BY <1>8 DEF ScanComment, window
  <2>2. CASE UNCHANGED linebufp
    BY <2>1, <2>2, LinesKept
  <2>3. CASE Here # "nul" /\ linebufp' = linebufp + 1
    BY <1>2, <2>1, <2>3
  <2> QED BY <1>8, <2>2, <2>3 DEF ScanComment
<1> QED BY <1>3, <1>4, <1>5, <1>6, <1>7, <1>8 DEF Spskip, Token

\* A place that is saved, brought back or dropped.
LEMMA ClientLines ==
  ASSUME IInv, LineInv, Save \/ Restore \/ Forget \/ PrintCode \/ StartPass3
  PROVE  LineInv'
<1>1. CASE Save
  <2> DEFINE rec == [line_ptr |-> Len(output_buffer), linebuf |-> linebuf,
                     linebufp |-> linebufp, at |-> src_buffer[linebufp],
                     listed |-> Len(asm) + Len(output_buffer)]
  <2>1. /\ saves \in Seq(Pointers) /\ linebuf \in Nat /\ linebufp \in 1..Len(src_buffer)
        /\ Len(output_buffer) \in Nat /\ Len(asm) \in Nat /\ Len(saves) \in Nat
    BY DEF IInv, TypeOK
  <2>2. src_buffer[linebufp] \in 0..N
    BY <2>1, ElementOfSeq DEF IInv, TypeOK
  <2>3. rec \in Pointers /\ rec.linebuf = linebuf /\ rec.linebufp = linebufp
    BY <2>1, <2>2 DEF Pointers
  <2>4. saves' = Append(saves, rec) /\ UNCHANGED <<src_buffer, linebuf, linebufp>>
    BY <1>1 DEF Save, window, head
  <2> HIDE DEF rec
  <2>5. /\ Len(saves') = Len(saves) + 1 /\ saves'[Len(saves) + 1] = rec
        /\ \A i \in 1..Len(saves) : saves'[i] = saves[i]
    BY <2>1, <2>3, <2>4, AppendProperties
  <2>6. \A i \in 1..Len(saves') : i \in 1..Len(saves) \/ i = Len(saves) + 1
    BY <2>1, <2>5
  <2> QED BY <2>3, <2>4, <2>5, <2>6 DEF LineInv
<1>2. CASE Restore
  <2>1. /\ Len(saves) \in 1..Len(saves)
        /\ linebuf' = LastSave.linebuf /\ linebufp' = LastSave.linebufp
        /\ UNCHANGED <<src_buffer, saves>>
    BY <1>2, Truncated DEF Restore, window
  <2> QED BY <2>1 DEF LineInv, LastSave
<1>3. CASE Forget
  <2>1. /\ saves \in Seq(Pointers) /\ Len(saves) \in Nat /\ Len(saves) >= 1
        /\ saves' = SubSeq(saves, 1, Len(saves) - 1)
        /\ UNCHANGED <<src_buffer, linebuf, linebufp>>
    BY <1>3, EmptySeq DEF Forget, window, head, IInv, TypeOK
  <2>2. \A i \in 1..Len(saves') : i \in 1..Len(saves) /\ saves'[i] = saves[i]
    BY <2>1
  <2> QED BY <2>1, <2>2 DEF LineInv
<1>4. CASE PrintCode
  BY <1>4, LinesKept DEF PrintCode, Halt, window, head, output
<1>5. CASE StartPass3
  <2>1. src_buffer' = <<0>> /\ linebufp' = 1 /\ Len(saves') = 0
    BY <1>5, EmptySeq DEF StartPass3
  <2> QED BY <2>1 DEF LineInv, LineAt
<1> QED BY <1>1, <1>2, <1>3, <1>4, <1>5

\* A flush cuts the window off where the line of the head starts, if the line is not the
\* first of the file, in front of which there is a NUL.
LEMMA FlushLines ==
  ASSUME IInv, LineInv, NEW next, FlushWith(next), saves = <<>>,
         NEW m \in 1..N-1, Text[m] = "nul", Pos = 0 \/ Pos > m
  PROVE  LineInv'
<1>1. /\ linebufp \in Nat /\ linebufp \in 1..Len(src_buffer) /\ Len(src_buffer) \in Nat
      /\ Piece(src_buffer) /\ Len(saves') = 0 /\ N \in Nat
  BY WindowIsPiece, EmptySeq, TextAssumption DEF IInv, TypeOK, FlushWith
<1>2. CASE UNCHANGED <<src_buffer, head>>
  BY <1>1, <1>2 DEF LineInv, head
<1>3. CASE Before >= 1 /\ Compact
  <2>1. /\ LineTop \in 1..linebufp
        /\ LineTop = 1 \/ Char(src_buffer, LineTop - 1) = "nul"
        /\ \A k \in LineTop..linebufp-1 : k > 1 => Char(src_buffer, k) # "nul"
    BY <1>1, <1>3, LineTopProp
  <2>2. \A k \in 1..Len(src_buffer) :
          src_buffer[k] \in 0..N /\ src_buffer[k] = src_buffer[1] + k - 1
    BY <1>1, PieceIndex, ElementOfSeq DEF Piece
  <2>3. linebufp # 1
    <3>1. ASSUME linebufp = 1 PROVE FALSE
      <4>1. Here = "nul"
        BY <3>1, TextAssumption DEF LineInv, LineAt, Here, Char
      <4> QED BY <1>3, <3>1, <4>1 DEF Before
    <3> QED BY <3>1
  <2>4. /\ linebuf \in 1..linebufp-1
        /\ \A i \in linebuf..linebufp-1 : Char(src_buffer, i) # "nul"
        /\ linebuf = 1 \/ Char(src_buffer, linebuf - 1) = "nul"
    BY <2>3 DEF LineInv, LineAt, StartsLine
  <2>5. Pos = src_buffer[1] + linebufp - 1 /\ src_buffer[1] \in 0..N
    BY <1>1, <2>2 DEF Pos
  <2>6. Pos > m
    BY <1>1, <2>3, <2>5
  <2>7. \A k \in LineTop..linebufp-1 : Char(src_buffer, k) # "nul"
    <3> SUFFICES ASSUME LineTop = 1, Char(src_buffer, 1) = "nul" PROVE FALSE
      BY <2>1
    <3>1. src_buffer[1] = 0
      <4> SUFFICES ASSUME Text[src_buffer[1] - 1] = "nul", src_buffer[1] \in 1..N PROVE FALSE
        BY <2>5 DEF IInv, WindowIsPieceOfFile
      <4>1. src_buffer[1] - 1 \in 0..N-1 /\ (src_buffer[1] - 1) + 1 = src_buffer[1]
        BY <1>1
      <4> QED BY <4>1, TextAssumption DEF Char
    <3>2. m + 1 \in 1..linebufp-1 /\ m + 1 > 1 /\ m + 1 \in 1..Len(src_buffer)
      BY <1>1, <2>5, <2>6, <3>1
    <3>3. src_buffer[m + 1] = m
      BY <2>2, <3>1, <3>2
    <3> QED BY <2>1, <3>2, <3>3 DEF Char
  <2>8. LineTop \in 1..linebufp-1
    <3>1. ASSUME LineTop = linebufp PROVE FALSE
      <4>1. linebufp - 1 \in linebuf..linebufp-1
        BY <1>1, <2>4
      <4> QED BY <2>1, <2>3, <2>4, <3>1, <4>1
    <3> QED BY <1>1, <2>1, <3>1
  <2>9. WindowEnd = Len(src_buffer)
    BY <1>1, WindowEndProp
  <2> DEFINE t == LineTop
  <2>10. /\ src_buffer' = SubSeq(src_buffer, t, Len(src_buffer))
         /\ linebufp' = linebufp - t + 1 /\ linebuf' = 1 /\ t \in 1..linebufp-1
         /\ \A k \in t..linebufp-1 : Char(src_buffer, k) # "nul"
    BY <1>3, <2>7, <2>8, <2>9 DEF Compact
  <2> HIDE DEF t
  <2>11. \A i \in 1..Len(src_buffer)-t+1 : src_buffer'[i] = src_buffer[t + i - 1]
    <3>1. t \in 1..Len(src_buffer)
      BY <1>1, <2>10
    <3> QED BY <1>1, <2>10, <3>1, CutPiece
  <2>12. ASSUME NEW i \in 1..linebufp'-1 PROVE Char(src_buffer', i) # "nul"
    <3>1. i \in 1..Len(src_buffer)-t+1 /\ t + i - 1 \in t..linebufp-1
      BY <1>1, <2>10
    <3> QED BY <2>10, <2>11, <3>1 DEF Char
  <2>13. LineAt(src_buffer', linebuf', linebufp')
    <3>1. linebufp' # 1 /\ 1 \in 1..linebufp'-1
      BY <1>1, <2>10
    <3> QED BY <2>10, <2>12, <3>1 DEF LineAt, StartsLine
  <2> QED BY <1>1, <2>13 DEF LineInv
<1> QED BY <1>2, <1>3 DEF FlushWith

\* The marker, the first line: its colon, and the ends of its comment.
Marker == CHOOSE m \in [c : 1..N-2, o : 1..N-2, e : 1..N-2] :
            m.c < m.o /\ m.o < m.e /\ MarkerLine(m.c, m.o, m.e)
ColonAt == Marker.c
OpenAt == Marker.o
CloseAt == Marker.e

\* What the assumption says of them.
LEMMA MarkerProp ==
  /\ ColonAt \in 1..N-2 /\ OpenAt \in 1..N-2 /\ CloseAt \in 1..N-2
  /\ ColonAt < OpenAt /\ OpenAt < CloseAt /\ MarkerLine(ColonAt, OpenAt, CloseAt)
  /\ N \in Nat
<1> DEFINE M == [c : 1..N-2, o : 1..N-2, e : 1..N-2]
<1>1. PICK c \in 1..N-2, o \in 1..N-2, e \in 1..N-2 : c < o /\ o < e /\ MarkerLine(c, o, e)
  BY MarkerAssumption
<1>2. \E m \in M : m.c < m.o /\ m.o < m.e /\ MarkerLine(m.c, m.o, m.e)
  <2>1. [c |-> c, o |-> o, e |-> e] \in M
    OBVIOUS
  <2> QED BY <1>1, <2>1
<1>3. Marker \in M /\ Marker.c < Marker.o /\ Marker.o < Marker.e
      /\ MarkerLine(Marker.c, Marker.o, Marker.e)
  <2> HIDE DEF MarkerLine
  <2> QED BY <1>2 DEF Marker
<1> QED BY <1>3, TextAssumption DEF ColonAt, OpenAt, CloseAt

\* The marker has no token: the reader goes through it without a stop, so that the parser
\* is in front of it, at the start, or behind it.
MarkerInv ==
  /\ pc \in {"client", "done"} => Pos = 0 \/ Pos > CloseAt + 1
  /\ pc = "skip" =>
       \/ Pos > CloseAt + 1
       \/ ctx = "token" /\ Pos \in {0, CloseAt + 1} \cup (ColonAt + 1..OpenAt)
  /\ pc = "token" => Pos = OpenAt \/ Pos > CloseAt + 1
  /\ pc = "comment" => Pos \in OpenAt + 1..CloseAt \/ Pos > CloseAt + 1
  /\ \A i \in 1..Len(saves) : saves[i].at = 0 \/ saves[i].at > CloseAt + 1

\* Where the reader is in the file, and what it is at.
LEMMA PosProp ==
  ASSUME IInv
  PROVE  /\ Pos \in 0..N /\ Here = Text[Pos]
         /\ linebufp \in 1..Len(src_buffer) /\ Len(src_buffer) \in Nat
         /\ Here # "nul" => src_buffer[linebufp + 1] = Pos + 1
         /\ linebufp = Len(src_buffer) => filepos = Pos + 1
<1>1. linebufp \in 1..Len(src_buffer) /\ Len(src_buffer) \in Nat /\ src_buffer \in Seq(0..N)
  BY DEF IInv, TypeOK
<1>2. Pos \in 0..N
  BY <1>1, ElementOfSeq DEF Pos
<1>3. ASSUME Here # "nul" PROVE src_buffer[linebufp + 1] = Pos + 1
  <2>1. linebufp \in 1..Len(src_buffer)-1
    BY <1>1, <1>3, HeadCanMove
  <2> QED BY <2>1 DEF IInv, WindowIsPieceOfFile, Pos
<1> QED BY <1>1, <1>2, <1>3 DEF Here, Char, Pos, IInv, WindowIsPieceOfFile

\* A step that leaves the places alone.
LEMMA MarkerKept ==
  ASSUME MarkerInv, UNCHANGED <<Pos, saves>>, pc' \in {pc, "halt"}, UNCHANGED ctx
  PROVE  MarkerInv'
  BY DEF MarkerInv

\* The line that is entered is the marker, or lies behind it.
LEMMA MarkerEntered ==
  ASSUME IInv, MarkerInv, pc = "skip", NEW buf, Piece(buf), linebufp + 1 \in 1..Len(buf),
         Here = "nul", HasColon(buf, linebufp + 1), EnterLine(buf, linebufp + 1),
         src_buffer' = buf, buf[linebufp] = Pos
  PROVE  MarkerInv'
<1> DEFINE top == linebufp + 1
           c == StrChr(buf, top)
<1>1. /\ c \in top..StrEnd(buf, top)-1 /\ StrEnd(buf, top) \in top..Len(buf)
      /\ \A k \in top..c-1 : Char(buf, k) \notin {"nul", "colon"}
      /\ Char(buf, c) = "colon" /\ Len(buf) \in Nat
  BY StrChrProp DEF Piece
<1>2. linebufp' = c + 1 /\ UNCHANGED <<saves, pc, ctx>>
  BY DEF EnterLine
<1> HIDE DEF c
<1>3. linebufp \in 1..Len(buf) /\ c \in 1..Len(buf) /\ c + 1 \in 1..Len(buf)
  BY <1>1, PosProp
<1>4. \A k \in 1..Len(buf) : buf[k] = buf[1] + k - 1 /\ buf[k] \in 0..N
  BY PieceIndex, ElementOfSeq DEF Piece
<1>5. /\ buf[c] = Pos + (c - linebufp) /\ Pos' = Pos + (c - linebufp) + 1
      /\ \A k \in top..c-1 : buf[k] = Pos + (k - linebufp)
      /\ Pos \in 0..N /\ Text[Pos] = "nul" /\ buf[c] \in 0..N
  <2>1. buf[1] \in Int /\ buf[linebufp] = buf[1] + linebufp - 1 /\ buf[c] = buf[1] + c - 1
        /\ buf[c + 1] = buf[1] + (c + 1) - 1
    <3>1. buf[linebufp] = buf[1] + linebufp - 1
      BY <1>3, <1>4
    <3>2. buf[c] = buf[1] + c - 1
      BY <1>3, <1>4
    <3>3. buf[c + 1] = buf[1] + (c + 1) - 1
      BY <1>3, <1>4
    <3>4. buf[1] \in 0..N /\ N \in Nat
      <4>1. 1 \in 1..Len(buf)
        BY <1>1, <1>3
      <4> QED BY <1>4, <4>1, MarkerProp
    <3> QED BY <3>1, <3>2, <3>3, <3>4
  <2>2. \A k \in top..c-1 : k \in 1..Len(buf)
    BY <1>1, <1>3
  <2>3. Pos' = buf[c + 1]
    BY <1>2 DEF Pos
  <2>4. Pos \in 0..N /\ Text[Pos] = "nul" /\ buf[c] \in 0..N
    BY <1>3, <1>4, PosProp
  <2> DEFINE d == buf[1]
  <2>a. Pos = d + linebufp - 1 /\ buf[c] = d + c - 1 /\ Pos' = d + (c + 1) - 1 /\ d \in Int
    BY <2>1, <2>3
  <2> HIDE DEF d
  <2>5. buf[c] = Pos + (c - linebufp) /\ Pos' = Pos + (c - linebufp) + 1
    <3>1. linebufp \in Int /\ c \in Int
      BY <1>3
    <3> QED BY <2>a, <3>1
  <2>6. ASSUME NEW k \in top..c-1 PROVE buf[k] = Pos + (k - linebufp)
    <3>1. buf[k] = d + k - 1
      BY <1>4, <2>2 DEF d
    <3>2. linebufp \in Int /\ k \in Int
      BY <1>3, <2>2
    <3> QED BY <2>a, <3>1, <3>2
  <2> QED BY <2>4, <2>5, <2>6
<1>6. Text[buf[c]] = "colon" /\ \A p \in Pos + 1..buf[c] - 1 : Text[p] \notin {"nul", "colon"}
  <2>1. Text[buf[c]] = "colon"
    BY <1>1 DEF Char
  <2>2. ASSUME NEW p \in Pos + 1..buf[c] - 1 PROVE Text[p] \notin {"nul", "colon"}
    <3>1. linebufp + (p - Pos) \in top..c-1
      BY <1>1, <1>3, <1>5
    <3>2. buf[linebufp + (p - Pos)] = p
      BY <1>3, <1>5, <3>1
    <3> QED BY <1>1, <3>1, <3>2 DEF Char
  <2> QED BY <2>1, <2>2
<1>7. Pos' = buf[c] + 1 /\ Pos < buf[c]
  BY <1>1, <1>3, <1>5
<1>8. CASE Pos = 0
  <2>1. ColonAt \in 1..N-2 /\ Text[ColonAt] = "colon"
        /\ \A p \in 1..ColonAt-1 : Text[p] \notin {"nul", "colon"}
    BY MarkerProp DEF MarkerLine
  <2>2. buf[c] = ColonAt
    <3>1. ~(buf[c] < ColonAt)
      <4> SUFFICES ASSUME buf[c] < ColonAt PROVE FALSE
        OBVIOUS
      <4>1. buf[c] \in 1..ColonAt-1
        BY <1>5, <1>7, <1>8, <2>1
      <4> QED BY <1>6, <2>1, <4>1
    <3>2. ~(ColonAt < buf[c])
      <4> SUFFICES ASSUME ColonAt < buf[c] PROVE FALSE
        OBVIOUS
      <4>1. ColonAt \in Pos + 1..buf[c]-1
        BY <1>5, <1>8, <2>1
      <4> QED BY <1>6, <2>1, <4>1
    <3> QED BY <1>5, <2>1, <3>1, <3>2
  <2>3. Pos' \in ColonAt + 1..OpenAt
    BY <1>7, <2>1, <2>2, MarkerProp
  <2>4. ctx = "token"
    BY <1>8, MarkerProp DEF MarkerInv
  <2> QED BY <1>2, <2>3, <2>4 DEF MarkerInv
<1>9. CASE Pos # 0
  <2>1. Pos \notin ColonAt + 1..OpenAt
    <3> SUFFICES ASSUME Pos \in ColonAt + 1..OpenAt PROVE FALSE
      OBVIOUS
    <3>1. Pos = OpenAt \/ Pos \in ColonAt + 1..OpenAt - 1
      BY MarkerProp
    <3>2. Text[Pos] \in {"space", "copen"}
      BY <3>1, MarkerProp DEF MarkerLine
    <3> QED BY <1>5, <3>2
  <2>2. Pos' > CloseAt + 1
    BY <1>5, <1>7, <1>9, <2>1, MarkerProp DEF MarkerInv
  <2> QED BY <1>2, <2>2 DEF MarkerInv
<1> QED BY <1>8, <1>9

\* The reader goes through the marker as it should.
LEMMA ReaderMarker ==
  ASSUME IInv, MarkerInv, Spskip \/ Token
  PROVE  MarkerInv'
<1>1. /\ Pos \in 0..N /\ Here = Text[Pos] /\ N \in Nat
      /\ linebufp \in 1..Len(src_buffer) /\ Len(src_buffer) \in Nat
      /\ Here # "nul" => src_buffer[linebufp + 1] = Pos + 1
      /\ linebufp = Len(src_buffer) => filepos = Pos + 1
  BY PosProp, TextAssumption
<1>2. /\ ColonAt \in 1..N-2 /\ OpenAt \in 1..N-2 /\ CloseAt \in 1..N-2
      /\ ColonAt < OpenAt /\ OpenAt < CloseAt
      /\ Text[0] = "nul" /\ Text[OpenAt] = "copen" /\ Text[CloseAt] = "cclose"
      /\ Text[CloseAt + 1] = "nul"
      /\ \A p \in ColonAt + 1..OpenAt - 1 : Text[p] = "space"
      /\ \A p \in OpenAt + 1..CloseAt - 1 : Text[p] \notin {"nul", "cclose"}
  BY MarkerProp, TextAssumption DEF MarkerLine
<1>3. CASE SkipBlank
  <2>1. /\ pc = "skip" /\ Text[Pos] = "space" /\ Pos' = Pos + 1
        /\ UNCHANGED <<pc, ctx, saves>>
    BY <1>1, <1>3 DEF SkipBlank, window, Pos
  <2>2. Pos' > CloseAt + 1 \/ (ctx = "token" /\ Pos' \in ColonAt + 1..OpenAt)
    BY <1>1, <1>2, <2>1 DEF MarkerInv
  <2> QED BY <2>1, <2>2 DEF MarkerInv
<1>4. CASE ReenterLine
  <2>1. CASE Halt("E_OUT_OF_MEMORY")
    BY <2>1, MarkerKept DEF Halt, window, head, Pos
  <2>2. CASE HasColon(src_buffer, linebufp + 1) /\ EnterLine(src_buffer, linebufp + 1)
             /\ UNCHANGED window
    <3>1. linebufp + 1 \in 1..Len(src_buffer) /\ Here = "nul" /\ pc = "skip"
      BY <1>1, <1>4 DEF ReenterLine
    <3> QED BY <2>2, <3>1, WindowIsPiece, MarkerEntered DEF window, Pos
  <2> QED BY <1>4, <2>1, <2>2 DEF ReenterLine
<1>5. CASE FetchLine
  <2> DEFINE buf == src_buffer \o FileLine(filepos)
  <2>1. CASE \E e : Halt(e)
    BY <2>1, MarkerKept DEF Halt, window, head, Pos
  <2>2. CASE /\ Fits(Chunk(filepos)) /\ LineLen(filepos) < MAX_STRING_LEN
             /\ HasColon(buf, linebufp + 1) /\ src_buffer' = buf
             /\ EnterLine(buf, linebufp + 1)
    <3>1. linebufp = Len(src_buffer) /\ filepos <= N /\ Here = "nul" /\ pc = "skip"
      BY <1>5 DEF FetchLine
    <3>2. /\ Piece(buf) /\ linebufp + 1 \in 1..Len(buf)
          /\ \A i \in 1..Len(src_buffer) : buf[i] = src_buffer[i]
      BY <2>2, <3>1, Fetched
    <3>3. buf[linebufp] = Pos
      BY <1>1, <3>2 DEF Pos
    <3> HIDE DEF buf
    <3> QED BY <2>2, <3>1, <3>2, <3>3, MarkerEntered
  <2> QED BY <1>5, <2>1, <2>2 DEF FetchLine
<1>6. CASE SkipDone
  <2>1. UNCHANGED <<Pos, ctx, saves>> /\ pc = "skip" /\ ctx \in {"token", "comment"}
    BY <1>6 DEF SkipDone, window, head, Pos, IInv, TypeOK
  <2>2. CASE Here \notin {"space", "nul"} /\ pc' = ctx
    <3>1. (Pos = OpenAt /\ ctx = "token") \/ Pos > CloseAt + 1
      BY <1>1, <1>2, <2>1, <2>2 DEF MarkerInv
    <3> QED BY <2>1, <2>2, <3>1 DEF MarkerInv
  <2>3. CASE linebufp = Len(src_buffer) /\ filepos > N /\ pc' = "client"
    <3>1. Pos > CloseAt + 1
      BY <1>1, <1>2, <2>3
    <3> QED BY <2>1, <2>3, <3>1 DEF MarkerInv
  <2> QED BY <1>6, <2>2, <2>3 DEF SkipDone
<1>7. CASE TokenProcess
  <2>1. UNCHANGED <<Pos, saves>> /\ pc = "client" /\ pc' = "skip" /\ ctx' = "token"
    BY <1>7 DEF TokenProcess, window, head, Pos
  <2> QED BY <2>1 DEF MarkerInv
<1>8. CASE ScanToken
  <2>1. UNCHANGED <<src_buffer, ctx, saves>> /\ pc = "token" /\ Here # "nul"
    BY <1>8 DEF ScanToken, window, IInv, TokenAhead
  <2>2. Pos = OpenAt \/ Pos > CloseAt + 1
    BY <2>1 DEF MarkerInv
  <2>3. CASE Here = "copen" /\ linebufp' = linebufp + 1 /\ pc' = "comment"
    <3>1. Pos' = Pos + 1
      BY <1>1, <2>1, <2>3 DEF Pos
    <3>2. Pos' \in OpenAt + 1..CloseAt \/ Pos' > CloseAt + 1
      BY <1>1, <1>2, <2>2, <3>1
    <3> QED BY <2>1, <2>3, <3>2 DEF MarkerInv
  <2>4. CASE Here # "copen" /\ linebufp' = linebufp + 1 /\ pc' = "client"
    <3>1. Pos' = Pos + 1
      BY <1>1, <2>1, <2>4 DEF Pos
    <3>2. Pos' > CloseAt + 1
      BY <1>1, <1>2, <2>2, <2>4, <3>1
    <3> QED BY <2>1, <2>4, <3>2 DEF MarkerInv
  <2>5. CASE Here = "line" /\ linebufp' = StrEnd(src_buffer, linebufp) /\ pc' = "skip"
    <3>1. Piece(src_buffer) /\ linebufp' \in linebufp..Len(src_buffer)
      BY <1>1, <2>5, WindowIsPiece, StrEndProp
    <3>2. linebufp' \in 1..Len(src_buffer)
      BY <1>1, <3>1
    <3>3. /\ Pos = src_buffer[1] + linebufp - 1
          /\ Pos' = src_buffer[1] + linebufp' - 1
          /\ src_buffer[1] \in 0..N
      <4>1. src_buffer[linebufp] = src_buffer[1] + linebufp - 1
        BY <1>1, <3>1, PieceIndex
      <4>2. src_buffer[linebufp'] = src_buffer[1] + linebufp' - 1
        BY <3>1, <3>2, PieceIndex
      <4>3. src_buffer[1] \in 0..N
        <5>1. src_buffer \in Seq(0..N) /\ 1 \in 1..Len(src_buffer)
          BY <1>1, <3>1 DEF Piece
        <5> QED BY <5>1, ElementOfSeq
      <4>4. Pos = src_buffer[linebufp] /\ Pos' = src_buffer[linebufp']
        BY <2>1 DEF Pos
      <4> QED BY <4>1, <4>2, <4>3, <4>4
    <3>4. Pos' >= Pos /\ Pos' \in Int
      <4>1. linebufp \in Int /\ linebufp' \in Int /\ linebufp' >= linebufp
        BY <1>1, <3>1
      <4> QED BY <3>3, <4>1
    <3>5. Pos' > CloseAt + 1
      <4>1. Pos # OpenAt
        BY <1>1, <1>2, <2>5
      <4> QED BY <1>1, <1>2, <2>2, <3>4, <4>1
    <3> QED BY <2>1, <2>5, <3>5 DEF MarkerInv
  <2> QED BY <1>8, <2>3, <2>4, <2>5 DEF ScanToken
<1>9. CASE ScanComment
  <2>1. UNCHANGED <<src_buffer, saves>> /\ pc = "comment"
        /\ (Pos \in OpenAt + 1..CloseAt \/ Pos > CloseAt + 1)
    BY <1>9 DEF ScanComment, window, MarkerInv
  <2>2. CASE Here = "nul" /\ pc' = "skip" /\ UNCHANGED linebufp
    <3>1. Pos' = Pos
      BY <2>1, <2>2 DEF Pos
    <3>2. Pos \notin OpenAt + 1..CloseAt
      <4> SUFFICES ASSUME Pos \in OpenAt + 1..CloseAt PROVE FALSE
        OBVIOUS
      <4>1. Pos = CloseAt \/ Pos \in OpenAt + 1..CloseAt - 1
        BY <1>2
      <4> QED BY <1>1, <1>2, <2>2, <4>1
    <3>3. Pos > CloseAt + 1
      BY <2>1, <3>2
    <3> QED BY <2>1, <2>2, <3>1, <3>3 DEF MarkerInv
  <2>3. CASE Here = "cclose" /\ linebufp' = linebufp + 1 /\ pc' = "skip" /\ ctx' = "token"
    <3>1. Pos' = Pos + 1
      BY <1>1, <2>1, <2>3 DEF Pos
    <3>2. Pos' = CloseAt + 1 \/ Pos' > CloseAt + 1
      <4>1. ASSUME Pos \in OpenAt + 1..CloseAt PROVE Pos = CloseAt
        <5>1. Pos = CloseAt \/ Pos \in OpenAt + 1..CloseAt - 1
          BY <1>2, <4>1
        <5> QED BY <1>1, <1>2, <2>3, <5>1
      <4>2. Pos \in Int /\ CloseAt \in Int
        BY <1>1, <1>2
      <4> QED BY <2>1, <3>1, <4>1, <4>2
    <3> QED BY <2>1, <2>3, <3>2 DEF MarkerInv
  <2>4. CASE Here \notin {"nul", "cclose"} /\ linebufp' = linebufp + 1 /\ UNCHANGED <<pc, ctx>>
    <3>1. Pos' = Pos + 1
      BY <1>1, <2>1, <2>4 DEF Pos
    <3>2. Pos' \in OpenAt + 1..CloseAt \/ Pos' > CloseAt + 1
      BY <1>1, <1>2, <2>1, <2>4, <3>1
    <3> QED BY <2>1, <2>4, <3>2 DEF MarkerInv
  <2> QED BY <1>9, <2>2, <2>3, <2>4 DEF ScanComment
<1> QED BY <1>3, <1>4, <1>5, <1>6, <1>7, <1>8, <1>9 DEF Spskip, Token

\* The client keeps its places behind the marker.
LEMMA ClientMarker ==
  ASSUME IInv, MarkerInv, Save \/ Restore \/ Forget \/ PrintCode \/ StartPass3
  PROVE  MarkerInv'
<1>1. CASE Save
  <2> DEFINE rec == [line_ptr |-> Len(output_buffer), linebuf |-> linebuf,
                     linebufp |-> linebufp, at |-> src_buffer[linebufp],
                     listed |-> Len(asm) + Len(output_buffer)]
  <2>1. /\ saves \in Seq(Pointers) /\ linebuf \in Nat /\ linebufp \in 1..Len(src_buffer)
        /\ Len(output_buffer) \in Nat /\ Len(asm) \in Nat /\ Len(saves) \in Nat
    BY DEF IInv, TypeOK
  <2>2. rec \in Pointers /\ rec.at = Pos
    BY <2>1, PosProp DEF Pointers, Pos
  <2>3. saves' = Append(saves, rec) /\ UNCHANGED <<Pos, pc, ctx>> /\ pc = "client"
    BY <1>1 DEF Save, window, head, Pos
  <2> HIDE DEF rec
  <2>4. /\ Len(saves') = Len(saves) + 1 /\ saves'[Len(saves) + 1] = rec
        /\ \A i \in 1..Len(saves) : saves'[i] = saves[i]
    BY <2>1, <2>2, <2>3, AppendProperties
  <2>5. \A i \in 1..Len(saves') : i \in 1..Len(saves) \/ i = Len(saves) + 1
    BY <2>1, <2>4
  <2>6. \A i \in 1..Len(saves') : saves'[i].at = 0 \/ saves'[i].at > CloseAt + 1
    BY <2>2, <2>3, <2>4, <2>5 DEF MarkerInv
  <2> QED BY <2>3, <2>6 DEF MarkerInv
<1>2. CASE Restore
  <2>1. /\ Len(saves) \in 1..Len(saves) /\ linebufp' = LastSave.linebufp
        /\ UNCHANGED <<src_buffer, saves, pc, ctx>> /\ pc = "client"
    BY <1>2, Truncated DEF Restore, window
  <2>2. Pos' = LastSave.at
    BY <2>1, SaveProp DEF LastSave, Pos
  <2> QED BY <2>1, <2>2 DEF MarkerInv, LastSave
<1>3. CASE Forget
  <2>1. /\ saves \in Seq(Pointers) /\ Len(saves) \in Nat /\ Len(saves) >= 1
        /\ saves' = SubSeq(saves, 1, Len(saves) - 1) /\ UNCHANGED <<Pos, pc, ctx>>
    BY <1>3, EmptySeq DEF Forget, window, head, IInv, TypeOK, Pos
  <2>2. \A i \in 1..Len(saves') : i \in 1..Len(saves) /\ saves'[i] = saves[i]
    BY <2>1
  <2> QED BY <2>1, <2>2 DEF MarkerInv
<1>4. CASE PrintCode
  BY <1>4, MarkerKept DEF PrintCode, Halt, window, head, output, Pos
<1>5. CASE StartPass3
  <2>1. Pos' = 0 /\ Len(saves') = 0 /\ pc' = "client"
    BY <1>5, EmptySeq DEF StartPass3, Pos
  <2> QED BY <2>1 DEF MarkerInv
<1> QED BY <1>1, <1>2, <1>3, <1>4, <1>5

\* A flush is behind the marker, or where there is nothing to write.
LEMMA FlushesBehind ==
  ASSUME IInv, LineInv, MarkerInv, NEW next \in {"client", "done"}, FlushWith(next),
         saves = <<>>
  PROVE  LineInv' /\ MarkerInv'
<1>1. CloseAt + 1 \in 1..N-1 /\ Text[CloseAt + 1] = "nul"
  BY MarkerProp DEF MarkerLine
<1>2. Pos = 0 \/ Pos > CloseAt + 1
  BY DEF FlushWith, MarkerInv
<1>3. LineInv'
  BY <1>1, <1>2, FlushLines
<1>4. Pos' = Pos
  <2>1. CASE UNCHANGED <<src_buffer, head>>
    BY <2>1 DEF head, Pos
  <2>2. CASE Before >= 1 /\ Compact
    BY <2>2, CompactProp DEF Pos
  <2> QED BY <2>1, <2>2 DEF FlushWith
<1>5. pc' = next /\ saves' = saves
  BY DEF FlushWith
<1>6. MarkerInv'
  BY <1>2, <1>4, <1>5 DEF MarkerInv
<1> QED BY <1>3, <1>6

\* Every step keeps the two.
LEMMA LinesNext ==
  ASSUME IInv, LineInv, MarkerInv, [Next]_vars
  PROVE  LineInv' /\ MarkerInv'
<1>1. CASE Spskip \/ Token
  BY <1>1, ReaderLines, ReaderMarker
<1>2. CASE Save \/ Restore \/ Forget \/ PrintCode \/ StartPass3
  BY <1>2, ClientLines, ClientMarker
<1>3. CASE Flush
  BY <1>3, FlushesBehind, LinesKept, MarkerKept
     DEF Flush, FlushFault, Halt, window, head, Pos
<1>4. CASE Finish
  BY <1>4, FlushesBehind DEF Finish
<1>5. CASE UNCHANGED vars
  BY <1>5, LinesKept, MarkerKept DEF vars, window, head, Pos
<1> QED BY <1>1, <1>2, <1>3, <1>4, <1>5 DEF Next

\* c32_linebuf is the start of the line the head is on, after roll-backs and compactions
\* too, in every file prep makes from one that is not empty.
THEOREM LinebufIsLine == Spec => []LinebufStartsLine
<1>1. Init => LineInv /\ MarkerInv
  <2> SUFFICES ASSUME Init PROVE LineInv /\ MarkerInv
    OBVIOUS
  <2>1. src_buffer[1] = 0 /\ linebufp = 1 /\ Len(saves) = 0 /\ pc = "client"
    BY EmptySeq DEF Init
  <2> QED BY <2>1 DEF LineInv, LineAt, MarkerInv, Pos
<1>2. IInv /\ LineInv /\ MarkerInv /\ [Next]_vars => LineInv' /\ MarkerInv'
  BY LinesNext
<1>3. LineInv => LinebufStartsLine
  BY DEF LineInv, LineAt, StartsLine, LinebufStartsLine
<1> QED BY <1>1, <1>2, <1>3, Invariant, PTL DEF Spec
===============================================================================
