------------------------------ MODULE SourceTape ------------------------------
(***************************************************************************)
(* What the source buffer promises the parser (banana-c32).  The parser    *)
(* reads the whole input file as one tape and writes one listing: it never *)
(* has to know that only a few lines of the file are in memory, that the   *)
(* window is compacted behind its back, or that part of the listing is     *)
(* already on disk.  It may mark a place, read on, and rewind to the mark: *)
(* the head is then exactly where it was and the listing is exactly what   *)
(* it was.                                                                 *)
(***************************************************************************)
EXTENDS Integers, Sequences

CONSTANTS N,      \* position of the last character of the input file
          Text    \* the kind of the character at each position 0..N

VARIABLES pos,      \* position of the read head
          log,      \* the listing written so far
          listing,  \* whether output is being listed (c32_no_printx is 0)
          marks     \* the places the parser may still rewind to, innermost last

tape == <<pos, log, listing, marks>>

Echo(p) == [kind |-> "echo", at |-> p]   \* the source line that starts at p
Code(p) == [kind |-> "code", at |-> p]   \* output produced with the head at p

List(entry) == log' = IF listing THEN Append(log, entry) ELSE log

Init == pos = 0 /\ log = <<>> /\ listing = FALSE /\ marks = <<>>

\* The head moves on one character, and never runs over a line end.
Read ==
  /\ Text[pos] # "nul"
  /\ pos' = pos + 1
  /\ UNCHANGED <<log, listing, marks>>

\* The head skips a comment to the end of its line.
SkipLine ==
  /\ Text[pos] = "line"
  /\ \E q \in pos+1 .. N :
       /\ Text[q] = "nul" /\ \A r \in pos .. q-1 : Text[r] # "nul"
       /\ pos' = q
  /\ UNCHANGED <<log, listing, marks>>

\* The head leaves a line end, skips the line number and its colon, and the
\* line it enters is listed.
NextLine ==
  /\ pos < N /\ Text[pos] = "nul"
  /\ \E c \in pos+1 .. N-1 :
       /\ Text[c] = "colon"
       /\ \A r \in pos+1 .. c-1 : Text[r] \notin {"nul", "colon"}
       /\ pos' = c + 1
  /\ List(Echo(pos + 1))
  /\ UNCHANGED <<listing, marks>>

Write == List(Code(pos)) /\ UNCHANGED <<pos, listing, marks>>

Mark ==
  /\ marks' = Append(marks, [pos |-> pos, len |-> Len(log)])
  /\ UNCHANGED <<pos, log, listing>>

Rewind ==
  /\ marks # <<>>
  /\ LET m == marks[Len(marks)] IN
       pos' = m.pos /\ log' = SubSeq(log, 1, m.len)
  /\ UNCHANGED <<listing, marks>>

Forget ==
  /\ marks # <<>>
  /\ marks' = SubSeq(marks, 1, Len(marks) - 1)
  /\ UNCHANGED <<pos, log, listing>>

\* The second pass reads the file again from its start, and lists it.
Restart ==
  /\ ~listing /\ marks = <<>>
  /\ pos' = 0 /\ listing' = TRUE /\ log' = Append(log, Code(0))
  /\ UNCHANGED marks

Next ==
  \/ Read \/ SkipLine \/ NextLine
  \/ Write \/ Mark \/ Rewind \/ Forget \/ Restart

Spec == Init /\ [][Next]_tape
===============================================================================
