------------------------------- MODULE SrcBuffer -------------------------------
(***************************************************************************)
(* The source window and the output buffer of banana-c32: c32_spskip,      *)
(* c32_token_process, c32_src_ptr_save / restore, c32_printf,              *)
(* c32_output_buffer_flush and the two reading passes of main.             *)
(*                                                                         *)
(* src_buffer holds a few lines of the input file, each ended by a NUL; a  *)
(* second NUL, which is not a cell of the sequence here, ends the window.  *)
(* A cell is the position in the file of the character it holds, so        *)
(* Text[src_buffer[i]] is the character itself.  linebufp and linebuf are  *)
(* indexes into the window as the C pointers are: compaction moves the     *)
(* characters under a pointer that is not moved with them.                 *)
(*                                                                         *)
(* The parser is the client: it reads tokens, saves and restores its place *)
(* (src_ptr records live in the frames of the parsing functions, so they   *)
(* nest), prints code and flushes.                                         *)
(***************************************************************************)
EXTENDS Integers, Sequences

CONSTANTS
  N,                   \* position of the file's last character, a line end
  Text,                \* kind of each character, 0..N; position 0 is the NUL
                       \* that memset leaves in front of the first line
  MAX_SRC_BUFFER_LEN,  \* bytes of src_buffer
  MAX_BUFF_LEN,        \* entries of output_buffer
  MAX_STRING_LEN,      \* bytes fgets may fill, its NUL included
  MaxSaves,            \* bound: nesting of live src_ptr records
  MaxLog               \* bound: entries listed before the client stops printing

Kind == {"nul", "colon", "space", "word", "copen", "cclose", "line"}

\* The input is a text file of non-empty lines (prep writes each with a number
\* and a colon, prep.cpp:460), the last one ended too.
ASSUME TextAssumption ==
  /\ N \in Nat \ {0}
  /\ Text \in [0..N -> Kind]
  /\ Text[0] = "nul" /\ Text[N] = "nul"
  /\ \A p \in 0..N-1 : Text[p] = "nul" => Text[p+1] # "nul"

\* The first line is the marker that names the file, a comment behind the number and
\* the colon (prep.cpp:521), and is not the only one.
MarkerLine(c, o, e) ==
  /\ Text[c] = "colon" /\ \A p \in 1..c-1 : Text[p] \notin {"nul", "colon"}
  /\ Text[o] = "copen" /\ \A p \in c+1..o-1 : Text[p] = "space"
  /\ Text[e] = "cclose" /\ \A p \in o+1..e-1 : Text[p] \notin {"nul", "cclose"}
  /\ Text[e+1] = "nul"
ASSUME MarkerAssumption ==
  \E c, o, e \in 1..N-2 : c < o /\ o < e /\ MarkerLine(c, o, e)

ASSUME SizeAssumption ==
  /\ MAX_SRC_BUFFER_LEN \in Nat /\ MAX_SRC_BUFFER_LEN > 1
  /\ MAX_BUFF_LEN \in Nat /\ MAX_BUFF_LEN > 0
  /\ MAX_STRING_LEN \in Nat /\ MAX_STRING_LEN > 1
  /\ MaxSaves \in Nat
  /\ MaxLog \in Nat

VARIABLES
  src_buffer,     \* the window: file positions of the characters held
  filepos,        \* first position fgets has not read
  linebufp,       \* c32_linebufp, the read head
  linebuf,        \* c32_linebuf, start of the current line
  output_buffer,  \* output not yet written to the file
  asm,            \* the output file
  no_printx,      \* c32_no_printx: TRUE in PASS1, FALSE in PASS3
  saves,          \* live src_ptr records, innermost last
  pc, ctx,        \* what is running, and who called c32_spskip
  tok,            \* the last token: "none", "token", "eof" or "error"
  err             \* the code c32_error_message stopped with

window == <<src_buffer, filepos>>
head == <<linebufp, linebuf>>
output == <<output_buffer, asm>>
vars == <<window, head, output, no_printx, saves, pc, ctx, tok, err>>

NULL == 0

------------------------------------------------------------------------------
\* The window

Char(buf, i) == Text[buf[i]]

\* Index of the NUL that ends the string at i.
StrEnd(buf, i) ==
  CHOOSE j \in i..Len(buf) :
    Char(buf, j) = "nul" /\ \A k \in i..j-1 : Char(buf, k) # "nul"

\* strchr(i, ':'), and whether it finds one.
HasColon(buf, i) == \E j \in i..StrEnd(buf, i) : Char(buf, j) = "colon"
StrChr(buf, i) ==
  CHOOSE j \in i..StrEnd(buf, i) :
    Char(buf, j) = "colon" /\ \A k \in i..j-1 : Char(buf, k) # "colon"

\* The line fgets reads at filepos, its '\n' already turned into a NUL.
LineEnd(p) ==
  CHOOSE q \in p..N : Text[q] = "nul" /\ \A r \in p..q-1 : Text[r] # "nul"
LineLen(p) == LineEnd(p) - p + 1
FileLine(p) == [i \in 1..LineLen(p) |-> p + i - 1]

\* What one fgets returns: at most MAX_STRING_LEN - 1 bytes of the line.
Chunk(p) ==
  IF LineLen(p) < MAX_STRING_LEN THEN LineLen(p) ELSE MAX_STRING_LEN - 1
\* Mutant: the room for the two NULs is not kept back.
FitsExactly(n) == n + Len(src_buffer) <= MAX_SRC_BUFFER_LEN
Fits(n) == n + Len(src_buffer) < MAX_SRC_BUFFER_LEN - 2

------------------------------------------------------------------------------
\* The output

Echo(p) == [kind |-> "echo", at |-> p]
Code(p) == [kind |-> "code", at |-> p]

CanPrint == no_printx \/ 1 + 1 <= MAX_BUFF_LEN - Len(output_buffer)
Printed(entry) ==
  IF no_printx THEN output_buffer ELSE Append(output_buffer, entry)

\* c32_error_message: the program exits, with output_buffer unwritten.
Halt(e) ==
  /\ pc' = "halt" /\ err' = e
  /\ UNCHANGED <<window, head, output, no_printx, saves, ctx, tok>>

------------------------------------------------------------------------------
\* c32_spskip: one step for each turn of its loop

Here == Char(src_buffer, linebufp)

SkipBlank ==
  /\ pc = "skip" /\ Here = "space"
  /\ linebufp' = linebufp + 1
  /\ UNCHANGED <<window, linebuf, output, no_printx, saves, pc, ctx, tok, err>>

\* The line whose first character is at index top becomes the current one: it
\* is listed, and the head moves past its line number.
EnterLine(buf, top) ==
  /\ linebuf' = top
  /\ linebufp' = StrChr(buf, top) + 1
  /\ output_buffer' = Printed(Echo(buf[top]))
  /\ UNCHANGED <<asm, no_printx, saves, pc, ctx, tok, err>>

\* The next line is in the window already, read before a restore.
ReenterLine ==
  LET top == linebufp + 1 IN
  /\ pc = "skip" /\ Here = "nul" /\ linebufp < Len(src_buffer)
  /\ \/ /\ CanPrint /\ HasColon(src_buffer, top)
        /\ EnterLine(src_buffer, top)
        /\ UNCHANGED window
     \/ ~CanPrint /\ Halt("E_OUT_OF_MEMORY")

\* The next line is fetched and appended to the window.
FetchLine ==
  LET top == linebufp + 1
      buf == src_buffer \o FileLine(filepos)
  IN
  /\ pc = "skip" /\ Here = "nul" /\ linebufp = Len(src_buffer) /\ filepos <= N
  /\ \/ /\ Fits(Chunk(filepos)) /\ LineLen(filepos) < MAX_STRING_LEN
        /\ CanPrint /\ HasColon(buf, top)
        /\ src_buffer' = buf
        /\ filepos' = LineEnd(filepos) + 1
        /\ EnterLine(buf, top)
     \/ ~Fits(Chunk(filepos)) /\ Halt("E_OUT_OF_MEMORY")
     \/ /\ Fits(Chunk(filepos)) /\ LineLen(filepos) >= MAX_STRING_LEN
        /\ Halt("E_INTERNAL_ERROR")
     \/ /\ Fits(Chunk(filepos)) /\ LineLen(filepos) < MAX_STRING_LEN
        /\ \/ ~CanPrint /\ Halt("E_OUT_OF_MEMORY")
           \/ CanPrint /\ ~HasColon(buf, top) /\ Halt("E_INPUT_FILE_ERROR")

\* Mutant: the comment scan does not look whether the file has ended under it.
SkipDoneCommentGoesOn ==
  /\ pc = "skip"
  /\ \/ /\ Here \notin {"space", "nul"}
        /\ pc' = ctx /\ UNCHANGED tok
     \/ /\ Here = "nul" /\ linebufp = Len(src_buffer) /\ filepos > N
        /\ IF ctx = "comment" THEN pc' = "comment" /\ UNCHANGED tok
           ELSE pc' = "client" /\ tok' = "eof"
  /\ UNCHANGED <<window, head, output, no_printx, saves, ctx, err>>

\* The loop ends at a character that is not blank, or at the end of the file,
\* where the head stays on the last NUL; the comment scan takes that for an error.
SkipDone ==
  /\ pc = "skip"
  /\ \/ /\ Here \notin {"space", "nul"}
        /\ pc' = ctx /\ UNCHANGED tok
     \/ /\ Here = "nul" /\ linebufp = Len(src_buffer) /\ filepos > N
        /\ pc' = "client"
        /\ tok' = IF ctx = "comment" THEN "error" ELSE "eof"
  /\ UNCHANGED <<window, head, output, no_printx, saves, ctx, err>>

------------------------------------------------------------------------------
\* c32_token_process: comments are skipped, and restart the scan

TokenProcess ==
  /\ pc = "client" /\ tok # "eof"
  /\ pc' = "skip" /\ ctx' = "token"
  /\ UNCHANGED <<window, head, output, no_printx, saves, tok, err>>

ScanToken ==
  /\ pc = "token"
  /\ \/ /\ Here = "copen"
        /\ linebufp' = linebufp + 1 /\ pc' = "comment" /\ UNCHANGED tok
     \/ /\ Here = "line"
        /\ linebufp' = StrEnd(src_buffer, linebufp)
        /\ pc' = "skip" /\ UNCHANGED tok
     \/ /\ Here \notin {"copen", "line"}
        /\ linebufp' = linebufp + 1 /\ pc' = "client" /\ tok' = "token"
  /\ UNCHANGED <<window, linebuf, output, no_printx, saves, ctx, err>>

\* Mutant: the comment scan does not stop at the end of its line.
ScanCommentPastNul ==
  /\ pc = "comment" /\ linebufp' = linebufp + 1
  /\ \/ Here = "cclose" /\ pc' = "skip" /\ ctx' = "token"
     \/ Here # "cclose" /\ UNCHANGED <<pc, ctx>>
  /\ UNCHANGED <<window, linebuf, output, no_printx, saves, tok, err>>

ScanComment ==
  /\ pc = "comment"
  /\ \/ /\ Here = "nul"
        /\ pc' = "skip" /\ ctx' = "comment" /\ UNCHANGED linebufp
     \/ /\ Here = "cclose"
        /\ linebufp' = linebufp + 1 /\ pc' = "skip" /\ ctx' = "token"
     \/ /\ Here \notin {"nul", "cclose"}
        /\ linebufp' = linebufp + 1 /\ UNCHANGED <<pc, ctx>>
  /\ UNCHANGED <<window, linebuf, output, no_printx, saves, tok, err>>

------------------------------------------------------------------------------
\* c32_src_ptr_save and c32_src_ptr_restore

\* The last two fields are no part of struct src_ptr: they record, for the
\* properties, the file position and the length of the listing at the save.
Save ==
  /\ pc = "client" /\ Len(saves) < MaxSaves
  /\ saves' = Append(saves,
       [line_ptr |-> Len(output_buffer), linebuf |-> linebuf,
        linebufp |-> linebufp, at |-> src_buffer[linebufp],
        listed |-> Len(asm) + Len(output_buffer)])
  /\ UNCHANGED <<window, head, output, no_printx, pc, ctx, tok, err>>

LastSave == saves[Len(saves)]

\* Mutant: the output is not rewound with the source.
RestoreKeepsOutput ==
  /\ pc = "client" /\ saves # <<>>
  /\ linebuf' = LastSave.linebuf
  /\ linebufp' = LastSave.linebufp
  /\ tok' = "none"
  /\ UNCHANGED <<window, output, no_printx, saves, pc, ctx, err>>

\* output_buffer[line_ptr] = 0 shortens the string, and never lengthens it.
Restore ==
  /\ pc = "client" /\ saves # <<>>
  /\ output_buffer' = IF LastSave.line_ptr <= Len(output_buffer)
                      THEN SubSeq(output_buffer, 1, LastSave.line_ptr)
                      ELSE output_buffer
  /\ linebuf' = LastSave.linebuf
  /\ linebufp' = LastSave.linebufp
  /\ tok' = "none"
  /\ UNCHANGED <<window, asm, no_printx, saves, pc, ctx, err>>

\* The function that declared the src_ptr is done with it.
Forget ==
  /\ pc = "client" /\ saves # <<>>
  /\ saves' = SubSeq(saves, 1, Len(saves) - 1)
  /\ UNCHANGED <<window, head, output, no_printx, pc, ctx, tok, err>>

------------------------------------------------------------------------------
\* c32_printf of generated code, and c32_output_buffer_flush

PrintCode ==
  /\ pc = "client" /\ Len(asm) + Len(output_buffer) < MaxLog
  /\ \/ /\ CanPrint
        /\ output_buffer' = Printed(Code(src_buffer[linebufp]))
        /\ UNCHANGED <<window, head, asm, no_printx, saves, pc, ctx, tok, err>>
     \/ ~CanPrint /\ Halt("E_OUT_OF_MEMORY")

\* The walk back from the head to the start of its line.  It stops at the first
\* cell of the window without looking at it.
Before == IF Here = "nul" THEN linebufp - 1 ELSE linebufp
LineTop ==
  IF \E j \in 2..Before : Char(src_buffer, j) = "nul"
  THEN 1 + CHOOSE j \in 2..Before :
             /\ Char(src_buffer, j) = "nul"
             /\ \A k \in j+1..Before : Char(src_buffer, k) # "nul"
  ELSE 1

\* The walk on to the first of two NULs in a row, the end of the window.
TwoNuls(j) ==
  /\ Char(src_buffer, j) = "nul"
  /\ j < Len(src_buffer) => Char(src_buffer, j+1) = "nul"
\* Mutant: the walk stops at the first NUL.
WindowEndFirstNul == StrEnd(src_buffer, linebufp)
WindowEnd ==
  CHOOSE j \in linebufp..Len(src_buffer) :
    TwoNuls(j) /\ \A k \in linebufp..j-1 : ~TwoNuls(k)

\* Nothing has been read yet: b_top[0] and b_top[1] are both NUL.
EmptyWindow == TwoNuls(1)

\* Mutant: c32_linebuf is not moved with the line.
CompactKeepsLinebuf ==
  /\ src_buffer' = SubSeq(src_buffer, LineTop, WindowEnd)
  /\ linebufp' = linebufp - LineTop + 1
  /\ UNCHANGED linebuf
Compact ==
  /\ src_buffer' = SubSeq(src_buffer, LineTop, WindowEnd)
  /\ linebufp' = linebufp - LineTop + 1
  /\ linebuf' = 1

FlushWith(next) ==
  /\ pc = "client"
  /\ \/ /\ EmptyWindow /\ linebufp = 1
        /\ UNCHANGED <<src_buffer, head>>
     \/ /\ ~EmptyWindow /\ Before >= 1
        /\ Compact
  /\ asm' = asm \o output_buffer /\ output_buffer' = <<>>
  /\ pc' = next
  /\ UNCHANGED <<filepos, no_printx, saves, ctx, tok, err>>

FlushFault ==
  /\ pc = "client"
  /\ EmptyWindow => linebufp # 1
  /\ ~EmptyWindow => Before < 1
  /\ Halt("E_INTERNAL_ERROR")

\* Mutant: a flush wherever the parser likes.
FlushAnywhere == FlushWith("client") \/ FlushFault

\* A statement is done: no function up the stack will restore to before it.
Flush == saves = <<>> /\ (FlushWith("client") \/ FlushFault)

------------------------------------------------------------------------------
\* main: the two passes

\* Mutant: the header is printed before c32_no_printx is cleared.
StartPass3HeaderLost ==
  /\ pc = "client" /\ tok = "eof" /\ saves = <<>> /\ no_printx
  /\ no_printx' = FALSE
  /\ asm' = asm \o output_buffer /\ output_buffer' = <<>>
  /\ src_buffer' = <<0>> /\ linebufp' = 1 /\ filepos' = 1
  /\ tok' = "none"
  /\ UNCHANGED <<linebuf, saves, pc, ctx, err>>
StartPass3 ==
  /\ pc = "client" /\ tok = "eof" /\ saves = <<>> /\ no_printx
  /\ no_printx' = FALSE
  /\ asm' = asm \o Append(output_buffer, Code(0)) /\ output_buffer' = <<>>
  /\ src_buffer' = <<0>> /\ linebufp' = 1 /\ filepos' = 1
  /\ tok' = "none"
  /\ UNCHANGED <<linebuf, saves, pc, ctx, err>>

Finish ==
  /\ tok = "eof" /\ saves = <<>> /\ ~no_printx
  /\ FlushWith("done")

------------------------------------------------------------------------------
Init ==
  /\ src_buffer = <<0>> /\ filepos = 1
  /\ linebufp = 1 /\ linebuf = NULL
  /\ output_buffer = <<>> /\ asm = <<>>
  /\ no_printx = TRUE
  /\ saves = <<>>
  /\ pc = "client" /\ ctx = "token" /\ tok = "none" /\ err = "none"

Spskip == SkipBlank \/ ReenterLine \/ FetchLine \/ SkipDone
Token == TokenProcess \/ ScanToken \/ ScanComment
Next ==
  \/ Spskip \/ Token
  \/ Save \/ Restore \/ Forget
  \/ PrintCode \/ Flush
  \/ StartPass3 \/ Finish

Spec == Init /\ [][Next]_vars

\* A call of c32_token_process is not interrupted: it runs to its return.
FairSpec == Spec /\ WF_vars(Spskip \/ ScanToken \/ ScanComment)

\* A struct declared inside a function: c32_parser_array flushes for a member's
\* array size while parser_function_block_single holds the place to go back to.
ProbeFlush ==
  /\ saves # <<>> /\ tok = "token"
  /\ FlushWith("client")
SpecProbe == Init /\ [][Next \/ ProbeFlush]_vars

------------------------------------------------------------------------------
\* Properties

Pointers == [line_ptr : Nat, linebuf : Nat, linebufp : Nat, at : 0..N, listed : Nat]
Entry == [kind : {"echo", "code"}, at : 0..N]

\* The type invariant: the head stays inside the window in every state, so no
\* step of the reader looks at a character that is not there.
TypeOK ==
  /\ src_buffer \in Seq(0..N) /\ src_buffer # <<>>
  /\ filepos \in 1..N+1
  /\ linebufp \in 1..Len(src_buffer) /\ linebuf \in Nat
  /\ output_buffer \in Seq(Entry) /\ asm \in Seq(Entry)
  /\ no_printx \in BOOLEAN
  /\ saves \in Seq(Pointers)
  /\ pc \in {"client", "skip", "token", "comment", "halt", "done"}
  /\ ctx \in {"token", "comment"}
  /\ tok \in {"none", "token", "eof", "error"}
  /\ err \in {"none", "E_OUT_OF_MEMORY", "E_INTERNAL_ERROR", "E_INPUT_FILE_ERROR"}

\* However the window was filled and compacted, it is one unbroken piece of the
\* file, it starts at a line's start (or at the NUL before the first line), it
\* ends with a whole line, and fgets goes on exactly where it ends.
WindowIsPieceOfFile ==
  /\ \A i \in 1..Len(src_buffer)-1 : src_buffer[i+1] = src_buffer[i] + 1
  /\ src_buffer[1] = 0 \/ Text[src_buffer[1] - 1] = "nul"
  /\ Char(src_buffer, Len(src_buffer)) = "nul"
  /\ filepos = src_buffer[Len(src_buffer)] + 1

\* The window with both its NULs, and the output with its NUL, fit their arrays.
BuffersFit ==
  /\ Len(src_buffer) + 1 <= MAX_SRC_BUFFER_LEN
  /\ Len(output_buffer) + 1 <= MAX_BUFF_LEN

\* A live src_ptr still points at the character it pointed at when it was
\* saved, and at the end of what had been listed then.
SavesValid ==
  \A i \in 1..Len(saves) :
    LET s == saves[i] IN
    /\ s.linebufp \in 1..Len(src_buffer) /\ src_buffer[s.linebufp] = s.at
    /\ s.line_ptr <= Len(output_buffer) /\ s.listed = Len(asm) + s.line_ptr

\* c32_linebuf is the start of the line the head is on: error messages print
\* from there, and parser_asm looks for the line's colon from there.
LinebufStartsLine ==
  linebufp > 1 =>
    /\ linebuf \in 1..linebufp-1
    /\ \A i \in linebuf..linebufp-1 : Char(src_buffer, i) # "nul"
    /\ linebuf = 1 \/ Char(src_buffer, linebuf - 1) = "nul"

\* The listing of PASS3, on disk and in output_buffer, has each source line the
\* head has passed exactly once, and lines and code in the order of the source:
\* what a restore rewinds over is listed again, and not twice.
Listing == asm \o output_buffer
Echoes == {i \in DOMAIN Listing : Listing[i].kind = "echo"}
LinesEntered == {p + 1 : p \in {q \in 0..src_buffer[linebufp]-1 : Text[q] = "nul"}}
ListingInOrder ==
  /\ \A i, j \in DOMAIN Listing : i < j => Listing[i].at <= Listing[j].at
  /\ \A i, j \in Echoes : i < j => Listing[i].at < Listing[j].at
  /\ ~no_printx => {Listing[i].at : i \in Echoes} = LinesEntered

\* c32_src_ptr_restore brings back the place c32_src_ptr_save saved.
RestoreReturns ==
  [][Restore => /\ linebufp' \in 1..Len(src_buffer')
                /\ src_buffer'[linebufp'] = LastSave.at]_vars

\* To the parser all this is one tape over the whole file and one listing:
\* flushing, compacting and fetching are invisible, and a restore rewinds the
\* head and the listing exactly.
Tape == INSTANCE SourceTape WITH
  pos     <- src_buffer[linebufp],
  log     <- Listing,
  listing <- ~no_printx,
  marks   <- [i \in 1..Len(saves) |-> [pos |-> saves[i].at, len |-> saves[i].listed]]
ImplementsTape == Tape!Spec

\* A call for the next token returns (or stops the program), whatever mix of
\* blank lines and comments lies ahead, in a block comment the end of the file
\* leaves open too: it then returns an error (token.cpp:382-385).
TokenReturns == (pc \in {"skip", "token", "comment"}) ~> (pc \in {"client", "halt"})
===============================================================================
