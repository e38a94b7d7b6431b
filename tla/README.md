# A verification development of banana-c32

banana-c32 is a C compiler for 16-bit x86 (`src/compiler/`). It reads one file
that the preprocessor `prep` (`src/prep/prep.cpp`) has expanded and numbered,
and writes one NASM source. Both programs are sequential: there are no threads,
no signals and no restarts. What is hard here is of another kind:

- the parser decides by reading ahead and **rolling back** (`c32_src_ptr_save` /
  `c32_src_ptr_restore`) over a source buffer and an output buffer that are
  **flushed and compacted** in between;
- the file is compiled **twice** (PASS1 without output, PASS3 with it), and the
  second pass relies on what the first left in global tables;
- the statement parser is a recursive descent that **prints jumps while it
  parses**: labels come from one counter, and records of label numbers are copied
  on the way down and partly written on the way up;
- offsets and sizes are computed in several places that must agree.

The names in the modules are those of the code wherever TLA+ allows it. Bounds,
constants and the C the models do *not* cover are named below.

## 1. Inventory

| component | state it keeps | operations | source |
|---|---|---|---|
| Source window and token reader | `src_buffer`, `c32_linebufp`, `c32_linebuf`, the file position, `c32_src_filename` | `c32_spskip`, `c32_token_process`, `c32_getsym`, `c32_src_ptr_save/restore` | token.cpp, utility.cpp:57-73 |
| Output buffer and listing | `output_buffer`, the `.s` file, `c32_no_printx` | `c32_printf`, `c32_output_buffer_flush`, `c32_error_message` | utility.cpp:34-155 |
| Compile passes | `c32_pass`, `c32_no_printx` | `main`, `parser`, `startup` | banana-c32.cpp:1481-1661 |
| Statement parser and label generator | `c32_label_counter`, the C call stack with its `numb_param` records | `parser_function_block_single` and the function for each statement | banana-c32.cpp:213-948 |
| Symbol tables and declarations | `symtbl`, `func_tbl`, `struct_tbl`, the arena of `c32_malloc`, `flag1` | `registration`, `parser_char_short_int`, `parser_function`, `parser_auto_variable(_reg)` | banana-c32.cpp:736-817, 1001-1100, 1346-1525, utility.cpp:15-33 |
| Storage layout | `value`, `size` of each symbol, `auto_size` of each function | `variable_addr_auto_cal`, `variable_addr_global_cal`, `c32_parser_array` | banana-c32.cpp:1134-1320 |
| Structures, types and initialisers | `c32_st_root` with the members, `attr_s`, `init_string`, the initial data | `st_def`, `st_define`, `c32_global_array_init`, `struct_init`, the type parsers of utility.cpp | struct.cpp, utility.cpp:222-282 |
| Expression code generator | `expr_param` (operand mode COM20/21/22, constant flag), the pushed registers | `c32_expr`, `c32_factor*`, `convert_com20` | expr.cpp, expr_eq.cpp |
| Preprocessor | the stack of open files, the define table, line numbers | `include`, `define`, `parser` | prep.cpp |
| Debug dumps | none | `__test__`, table dumps | useless.cpp, test.cpp |
| Runtime library and sample | none (they are input) | | lib/lib.c, test3/test3.c |

How they interact: every parsing function calls `c32_token_process`, which calls
`c32_spskip`; entering a line lists it through `c32_printf` into the output
buffer, so *reading* writes, and a roll-back has to rewind both buffers.
Statement functions call one another recursively, call the expression generator
for every expression, and flush after every statement. The declarations fill the
symbol tables in PASS1, the storage layout turns them into offsets between the
passes, and PASS3 looks all of them up again. `prep` hands over a text file in
which every line starts with its number and a colon, and marker comments say
which file the lines come from.

What makes each part correct:

- *Window and reader*: the window is one unbroken piece of the file; a roll-back
  restores place and listing; no buffer overflows; a call returns.
- *Listing*: each source line is listed once, in order, before the code made from it.
- *Statement parser*: no label is printed twice, every jump has its label, the
  code goes from expression to expression as C says, `break` and `continue` are
  refused exactly where they mean nothing.
- *Declarations*: PASS3 finds what PASS1 registered; the entry PASS1 writes
  behind a full table ends it there and then.
- *Storage layout*: variables of a frame do not overlap, are aligned, and lie
  where the code that uses them expects them; an initialiser fills the layout.
- *Expressions*: what is pushed is popped, on every path; a value read is the one
  computed; a constant the compiler folds is the value the code would compute.
- *prep*: the include stack returns to the line behind the `#include`, with its number;
  every line is printed once; what it takes for a comment the compiler does too.

## 2. Modules

| module | what it is |
|---|---|
| `SourceTape` | abstract: the parser reads one tape and writes one listing, may mark a place and rewind to it |
| `SrcBuffer` | the source window, the token reader, the output buffer and the two reading passes; its properties |
| `MCSrcBuffer` | a small file for it |
| `NatExtremes` | least and greatest element of a bounded set of numbers, induction for a set of numbers, and functions that are defined by recursion over numbers |
| `SrcBufferProofs` | the inductive invariant of `SrcBuffer`; that it implements `SourceTape`; the order of the listing; where the head's line starts |
| `Statements` | the statement parser and the code it prints; its properties |
| `StatementsFlow` | what that code does when it runs, against what the program means in C |
| `MCStatements` | grammars of small programs for it |
| `StatementsProofs` | the inductive invariant of `Statements` and what follows from it |
| `Expressions` | the expression parser, the operands it keeps and the code it generates; its properties |
| `ExpressionsMeaning` | what that code does on a small 386, against what the expression means in C |
| `MCExpressions` | small symbol tables, memories and grammars for it |
| `ExpressionsProofs` | the forms of operands and what `eax` holds: the inductive invariant of `Expressions`; the heights of the stack as a second one |
| `StructLayout` | the definition of structures: offsets, sizes and dimensions of their members in both passes; its property |
| `StructLayoutProofs` | the inductive invariant of the layout, kept by every step of `Initialisers` |
| `Initialisers` | global variables and their initial values, over `StructLayout`; its properties |
| `InitialisersProofs` | the inductive invariant of the initialisers: where values are printed and how many bytes in all |
| `MCInitialisers` | small texts for the two |
| `FrameLayout` | the layout of one function's variables and parameters; its properties |
| `MCFrameLayout` | six types for it |
| `Declarations` | the symbol tables in PASS1 and PASS3, with `FrameLayout` between the passes |
| `MCDeclarations` | small translation units |
| `DeclarationsProofs` | the inductive invariants of `FrameLayout` and, over it, of `Declarations`, and what follows from them |
| `Prep` | the preprocessor on lines of tokens; which numbers and markers it prints |
| `PrepComments` | the comments the compiler finds in its output |
| `PrepInclusion` | which lines its output should have, by the rule of `#include` |
| `PrepOutput` | what the text of a line should be, by the rules of `#define` |
| `MCPrep` | small source files for it |
| `PrepProofs` | the inductive invariant of `Prep` and what follows from it |

### SrcBuffer: the source window and the listing

`src_buffer` is a sequence of *file positions*: cell `i` holds the position of the
character that is there, and `Text[src_buffer[i]]` is the character, of one of
the kinds the reader tells apart (NUL, `:`, blank, a token's character, `/*`,
`*/`, `//`). The second NUL that ends the window is not a cell. `linebufp` and
`linebuf` are indexes, as the pointers of the code are, so compaction moves the
characters under a saved index as it does in memory.

| action | code |
|---|---|
| `SkipBlank`, `ReenterLine`, `FetchLine`, `SkipDone` | one turn of the loop of `c32_spskip`: a blank, a line that is in the window already (after a roll-back), `fgets` with its checks, the exit |
| `TokenProcess`, `ScanToken`, `ScanComment` | a call of `c32_token_process`: tokens, `//`, `/* */` |
| `Save`, `Restore`, `Forget` | `c32_src_ptr_save`, `c32_src_ptr_restore`, and the return of the function that holds the `struct src_ptr` |
| `PrintCode` | `c32_printf` of generated code |
| `Flush` | `c32_output_buffer_flush` at the end of a statement: output written, window compacted |
| `StartPass3`, `Finish` | `main` |

The order in which the parser calls these is left open but for two rules taken
from the code: a flush comes when no function up the stack will restore to before
it, and the passes end at the end of the file. The first rule is not always kept
(finding *stale_restore*); `ProbeFlush` is the call that breaks it and belongs to
`SpecProbe` only.

Left out: which token a character makes, the text in `c32_symbuf`, the name in
`c32_src_filename`; the string literal loop; `parser_asm`, which moves the head
itself and lists lines as code. A line is listed as one entry of the output
buffer, and so is a print, so the sizes of the run count entries, not bytes.

### Statements: the statement parser

`frames` is the call stack: one entry for each compound statement being parsed,
with its own `numb_param` (`if` has none and passes on its caller's) and what is
left of its body. `nodes` is the program read so far, chosen one statement at a
time from the kinds and up to the size of one member of `Programs`. `code` is the generated code: label definitions, jumps, returns, and for
each expression one observation (`obs`) and the labels the expression generator
takes from the counter. `no_else` says that the next token has been looked at and
was not `else`.

Each statement without a body is an action, and each with a body is two: one up
to the call that parses the body (`OpenWhile`), one after it (`CloseLoop`); `if`
has `OpenIf`, then `Else` and `CloseElse`, or `NoElse`. `StrayToken` and the
second disjuncts of `Break`, `Continue`, `Case`, `Default` are the ends with
`c32_error_message`.

`Dialect` names C the programs may use although the compiler translates it
wrongly: `break_in_do`, `fall_into_case`, `nested_case`. The passing runs use
none of it, the violation runs one each.

`StatementsFlow` defines two functions, both from a place where an expression has
just been evaluated, and its value, to the next expression evaluated (or return,
or a loop without expressions): `CodeFrom` follows labels and jumps of `code`,
`Choose` follows the rules of C over `nodes`. They share nothing but the two
sequences. `FlowCorrect` says they agree everywhere in a complete function.

Left out: the code inside an expression, register saving at function entry and
exit, the lines `_asm` copies, and the tables a declaration fills (a declaration
is an `empty` statement here). `__test__` is a debug aid.

### Expressions: operands, registers and the stack

`cur` is the `struct expr_param` of the operand just parsed: its form (`com`: 20 a
value or a constant, 21 the address of an array, 22 a place), the text of the operand
as a record (a register, a number, or `[...]` of one), `numb_flag`, and the type as
the flags of `attr_s` that an expression reads (`ptr` and `arr` are the counters
`ATTR_POINTER` and `ATTR_ARRAY`, two and three bits wide). `used` is the result of
the factor functions: the operand is in, or is addressed by, `eax`. `frames` holds the
operators whose last operand is still to come, with `expr_p1` as they keep it and
the words they have pushed. `code` is the generated code, one record for each
instruction. The expression is not fixed beforehand; `cur.kids` is the tree parsed,
which only properties read.

| action | code |
|---|---|
| `Constant`, `Variable`, `Array`, `Structure`, `String` | `factor` on a number, a name or a string |
| `Parenthesis` | `c32_expr` for a nested expression: it clears `expr_p1` |
| `Members`, `MemberIndex` | `factor14` on a chain of `.` and `->`, `factor15` on a `[` behind a member |
| `OpenCall`, `NextArgument`, `CloseCall` | `expr_function_call` |
| `OpenIndex`, `CloseIndex` | `factor15`, up to `[` and from `]` on |
| `Cast`, `Deref`, `AddressOf`, `Increment`, `Negate`, `Not`, `SizeOf`, `TypeSize`, `PostIncrement` | the branches of `factor13`, with `c32_strip` |
| `OpenArithmetic`, `CloseProduct`, `CloseSum` | `factor12`, `factor11` |
| `OpenShift`, `CloseShift`, `OpenCompare`, `CloseOrder`, `CloseEquality` | `factor10`, `factor9`, `factor8` |
| `OpenBits`, `CloseBits` | `factor7`, `factor6`, `factor5` |
| `OpenLogic`, `CloseLogic`, `OpenCond`, `CondColon`, `CloseCond` | `factor4`, `factor3`, `factor2` |
| `OpenComma`, `CloseComma`, `OpenAssign`, `CloseAssign` | `c32_expr`, `c32_factor1` with `expr_eq.cpp` |

`Load` and `Loaded` are `convert_com20` (what it prints, what it leaves), `IsPlace`
and `Place` `convert_com22`. `CloseBits` contains the roll-back of an operand that
turns out to be a constant: it takes the code back to the save, parses the operand
again (`Again`: the same code with new labels) and keeps `expr_p1` as it was changed.

`ExpressionsMeaning` runs the code: `Run` is a machine with four registers, flags,
memory and a stack, that is `Stuck` where the instruction has no encoding, memory is
left, the stack is empty, or a division overflows. `Eval` is C: conversions, the
types of results, places, order of evaluation; `ok` is false where C leaves the
expression undefined or unspecified (overflow, division by zero, a shift too far, an object
written and used without a sequence point, an address outside its array) or refuses it.
`MeansSame` says that for every complete expression with a meaning the code ends with
the value of C in `eax`, the memory of C, and an empty stack.

The compiler is not C everywhere. `AllFaults` lists thirteen kinds of operator with the
lines where each is made; `HasFault` says when an operator is of one of them, by its
operands alone. `MeansSame` skips the expressions with a kind in `Excluded`; the
passing run excludes all and so shows that these are *all* the deviations the grammars
reach. A kind is told by the operands, so some expressions of a kind that come out
right are skipped as well. One of them, `rollback`, contradicts what the source says of itself and is a
finding; the others are where the source says nothing, and the list in the module
is their documentation. One more deviation is a refusal, which no
property speaks of: the type of a call keeps `ATTR_FUNC` (expr.cpp:238, whose comment
asks to clear it), so `f()+1` is `E_SYNTAX_ERROR`.

Structures are the part where an operand is least like C's, and the model says so
action by action. A name in front of a chain stands for its own address, whatever its
type, so the first `->` does not load the pointer and each later one does
(`Link`, kind `member`); an array member without an index is loaded like a scalar; a
local structure gives an address `ebp+n` that no instruction can hold, which the
machine refuses (`Assembles`). What is refused by the parser is an `err` of the
model: the assignment of structures (`E_TO_BE_DEFINE`), arithmetic on them. A string
in a statement is printed where it stands, behind a jump around it. Its type has every bit
of the array field set (expr.cpp:206) and no dimension, so that `*"abc"` is refused and
`"abc"[1]` is an address that is still an array (kind `string`). What uses the
dimensions of that reads `xyz_size` far behind its end, the count of dimensions being 65535
(431): the model stops there with `err = "undefined"` (`Astray`). `sizeof` of a
type leaves `expr_p1` the type it had, which at the start of an expression is none:
an operator that asks for its width then ends in `E_INTERNAL_ERROR` (`Width` 0). Behind
the `?` and the `:` `expr_p1` is not cleared, and `Leftover` is what the next
operand finds in it; `factor` clears it (145), so that only a `sizeof` of a type keeps it. The
operand of `sizeof` is one of `factor14`: `sizeof(c+d)` is a syntax error in the code, and
the model's `sizeof` of such an operand stands for `sizeof((c+d))`.

Left out: an index or an argument inside a chain of members, whose names the code looks
up among the members too, the type `void`, and `expr_function_call_pass1`, which prints
nothing.

### StructLayout and Initialisers: structures and global data

`c32_st_root` is the list of structures, each with its members in the order of their
definition; a member has its type, its dimensions (`xyz_size`, cut to a `ushort`), the
size and the offset (`value`) the code computes for it. As in `Declarations`, PASS1
chooses the next item of the text, `unit` keeps it, and PASS3 reads `unit` again.

| action | code |
|---|---|
| `StructName`, `Member`, `EndStruct` | `st_def`, one turn of the loop of `st_define`, its end (struct.cpp:41-172), with `c32_parser_array` for a member with dimensions |
| `Declare`, `EndDeclaration` | one declarator of `parser_char_short_int` with `parser_global_array`, up to `=` and from the end of the value on |
| `OpenRow`, `CloseRow` | `array_init_sub` at `{` and at `}`, with `array_dummy_init` for what is left out |
| `OpenStruct`, `CloseStruct` | `struct_init` at `{` and at `}` |
| `Number`, `String` | `array_init_elem` on a value, and the same for a variable that is neither array nor structure |
| `Comma`, `NoBrace`, `Swallow` | what `array_init_sub` and `struct_init` do behind a value: look for a comma, for a brace behind it, go round the loop |
| `Misplaced` | the ends with `c32_error_message` |
| `EndPass1`, `EndPass3` | `main` |

`frames` has one entry for each open brace, that is for each activation of the loops of
`array_init_sub` and `struct_init`, with their counter `i`; `mode` is the token the loop
on top looks for next; `data` is what PASS3 has printed behind the label of the variable,
one entry for each value or run of filling bytes, with its width and the token it comes
from. `init_string` collects strings, whose text follows the variable.

The properties look at the text alone: `Path` counts commas and braces in front of a
token, `Walk` follows them through the dimensions and members of the variable's type
to an offset, and `ValuesWhereRead` says that this is where the value was printed.
They are not stated for:

- structures with gaps between their members: the layout leaves them, the initialiser
  does not print them, the labels meant to align are commented out at struct.cpp:364,
  390 and 421 (`Plain`). The repository's own `src/compiler/test.prep:5-19` initialises
  such a structure, a `char` in front of a structure of two `short`s: 5 bytes are printed
  for 8, and the first `short`, `s.k`, is printed at 1 and read at 4;
- members that are pointers to structures, which `array_init_elem` takes for the
  structure itself;
- members that are arrays without a size: the layout gives them no bytes, and the size
  an initialiser finds stays with the member for the next variable;
- a structure that has itself as a member, which gets the size it has at that moment;
- lists in which two elements have no comma between them: `array_init_sub` reads over
  any token there (`Separated`);
- `char c = "abc";`, which prints the four bytes of an address (`NarrowString`);
- lists so long that the `ushort` that counts their elements goes back to 0, behind which a
  dimension that was left open is too small (`Counted`), and, for `WholeObject`, a variable without an
  initialiser whose size was cut down when `c32_parser_array` stored it.

All of these are in the model, and the run reaches them; only the
properties do not speak of them. `MembersApart` speaks of structures with gaps too, and
`RefusedAtRoom` of lists of any length; neither speaks of members without a size, so what an
initialiser leaves with such a member has no property.

Left out: the value of a constant expression (a value is its place and its width),
the words a type is made of (`c32_char_short_int_unsigned_pointer`), `const`, `enum`,
and `variable_addr_global_cal`, whose offsets nothing
that is printed uses. A structure defined inside the braces of another (as in `test.prep`)
is read as one defined in front of it; the code would know the outer one inside, by the size
it has so far. The item `Member` reads ends with a `;`: without dimensions `st_define` takes any one token
but `[` in its place, and the item stands for all of these. A comma behind an initialised scalar or structure is
refused, as in the code (banana-c32.cpp:1425, 1439); elsewhere the next declarator is read
like a declaration of its own.

### FrameLayout: the variables of a function

`variable_addr_auto_cal` statement by statement: `pc` is the loop it is in, `i`
its variable, `tbl` the array of pointers it sorts. A symbol is what the
procedure reads of it: whether it is an auto variable (`FLAG_02`) and its type,
a record of the flags `ATTR_CHAR` and `ATTR_SHORT`, the size of an element
(`c32_attr_to_byte`) and of the whole variable. A pointer to `char` has the flag
and four bytes, so that it is sorted as a char and aligned as a pointer; the
types of the run have that case, arrays of both sizes, and an odd structure.
`Init` is any function's table: parameters first, then variables.

`ArgumentPlace` and `CalleeEbp` are the other half of the agreement: where
`expr_function_call` stores an argument and what `function_push_reg` makes of
`ebp`, both counted from the caller's `esp`.

### Declarations: the two passes over the symbol tables

| action | code |
|---|---|
| `GlobalVariable`, `FunctionName` | one declarator of `parser_char_short_int` |
| `Parameter`, `Prototype`, `Body`, `EndBody` | the parameter loop, the `;`, the `{` and the end of `parser_function` |
| `AutoVariable` | one declarator of `parser_auto_variable` with `parser_auto_variable_reg` |
| `Use`, `Call` | `factor` on a name, `expr_function_call` and `expr_function_call_pass1` |
| `EndPass1`, `SkipVariable`, `CallLayout`, `LayoutStep`, `LayoutReturns`, `StartPass3`, `EndPass3` | `main` and `variable_addr_cal` |

The module extends `FrameLayout`: `LayoutStep` is its next-state relation, started
by `CallLayout` on the table of one function and written back by `LayoutReturns`.
In PASS1 every action may choose any name, and `unit` records what was read;
PASS3 reads `unit` again, so a run is one translation unit compiled. `code` keeps
what PASS3 prints for a name, `first` what PASS1 took it for. `IsLocal` and
`IsGlobal` are the linear searches of `utility.cpp` over names that occur once.
The reserved words of `tbl_g` are not kept; `MAX_SYMBOL_TABLE_G` is what is left
for the program. Left out: `typedef`, `enum`, struct tags, array dimensions
and initial values (these are in `Initialisers`), and everything of an expression but the names it uses.

### Prep: the preprocessor

| action | code |
|---|---|
| `NextLine`, `EndOfFile` | `fgets` in `parser`, and what follows when it gives nothing |
| `EndComment` | the loop that looks for the end of a comment a line begins in |
| `Include`, `Define`, `OtherDirective` | `include_process`, `define_process`, the error for any other `#` |
| `LineDone`, `OpenComment`, `String`, `OtherToken`, `PlainSymbol` | one turn of `parser_normal_line` |
| `Replace`, `ReplaceCall` | `sym_change` when the symbol is defined: without arguments, or with them |

A line is a sequence of tokens, of the kinds the scanner tells apart; `linebufp` is
the next one, and a replacement changes `linebuf` in front of it, as in the code. A
line that is a directive has `kind` for it, which counts only when the line does not
begin in a comment. `inc_data` is the stack of files, `read` the position of each,
which is what `line_numb` should be and is kept apart from it. The entries of `out`
carry, beside number and tokens, where they come from; only properties read that.

Two ends of the model are not ends of the program. `err = "undefined"` is a search that leaves its
line (464, and a call without `)`) and finds what memory holds there; the code may also go on
from it, and the model has both: behind 464 (`Astray`) any value of
`in_comment_flag`, behind the call the error for its arguments. `err = "overrun"` is a replaced line that no longer fits
linebuf (236), or a text that outgrows `str` while parameters are put in (208): the code does not check, and
what it writes over is not followed. The other ends are those of `error_message`: with them
the arena of `prep_malloc` (`Held` against `MAX_BUFF`), an argument longer than
`get_bun` reads (171), and a symbol longer than `symbuf` (159). The parameters behind the last there
is room for become part of the text (`Surplus`, 385).

`PrepComments` takes the output as its reader does: `CommentsAgree` compares
`in_comment_flag` with what `c32_token_process` of the compiler would take for a
comment in the text printed. In `PrepInclusion`, `Whole` compares the printed lines with `Flat`, which
puts files in the places of their `#include`s, as deep as the stack of files has room; in
`PrepOutput`, `Expanded` compares each line with `Expand`, which is C's rule: the arguments of a
call end at the commas and the `)` of its own level (`Ends`), they are replaced first, all
parameters are put in at once, and what comes of it is scanned again. All of them are stated for texts in which no line in the middle of a comment has
made the scan run away (`astray`), no file ends in a comment (the marker that follows
closes it), and no quote is written `'"'` or `\"`, which prep takes for a quote. `Whole`
also asks that what is put in for symbols opens and closes no comment (`Settled`): it says
from the source alone where a directive counts. `Departs` names the ten ways in which prep is not C's
preprocessor, each with its line: names between apostrophes, comments and strings in
a definition, a name of a call without one, calls over two lines, a wrong number of arguments,
parentheses, strings and comments in an argument, a later parameter's name in one, an
argument that becomes several, and one that leads to another call. `Expanded`
speaks of lines without these, calls among them, and of definitions that are not circular.

`Terminates` has two exceptions: `Circular`, definitions whose texts mention each other in a
circle, and `CallHandsOn`, a call that is given the name of another: with `#define F(p) p(p)`
the line `F(F)` is replaced by itself for ever, and C replaces it once.

What the compiler's model assumes of its input, non-empty lines with a number in
front, is what `NextLine` to `EndLine` print. Left out: characters, blanks (but the one in front
of a `(`), lines of a file too long for linebuf, opening and closing of files.

## 3. What is checked

| run | question | states | result |
|---|---|---|---|
| `source_window` | does the window, with all its fetching, flushing and rolling back, behave as the tape? | 20 699 | passes |
| `statements` | do the labels and jumps of every small program lead where C says? | 877 571 | passes |
| `expressions` | does the code of every small expression compute what C says, with the stack kept? | 408 525 | passes |
| `initialisers` | is every value printed where the layout of its structure or array puts it? | 894 947 | passes |
| `frame_layout` | is the frame laid out as the code that uses it expects, for every table of four? | 83 110 | passes |
| `declarations` | do the two passes agree on every name, for every unit of eight items? | 1 585 094 | passes |
| `prep` | does prep print every line with its number, replaced as in C but for the named departures? | 640 223 | passes |
| `stale_restore` | restore after a flush | | violated |
| `break_in_do` | break out of a do | | violated |
| `nested_case` | case inside a statement of the switch body | | violated |
| `fall_into_case` | control runs into a case label | | violated |
| `masked_element` | `a[1] & 1`, `*p & 1` | | violated |

Properties of `source_window`:

- `WindowIsPieceOfFile`: the window is one unbroken piece of the file, of whole
  lines, and `fgets` goes on where it ends.
- `BuffersFit`: both arrays hold what is put into them, with their NULs.
- `SavesValid`: a live `src_ptr` points at the character and the listing's end it
  was saved at.
- `LinebufStartsLine`: `c32_linebuf` is the start of the head's line (the place `parser_asm`
  goes back to), after roll-backs and compactions too.
- `ListingInOrder`: each line passed is listed once, in the order of the source.
- `ImplementsTape`: refinement of `SourceTape`.
- `TokenReturns`: a call for a token comes back, over blank lines and comments and at the
  end of the file inside a comment too.

Properties of `statements`: `LabelsUnique`, `JumpsLand`, `RefusedRightly`,
`FlowCorrect` as in section 1. Each module has one type invariant besides; the
one of `Statements` also says that a function is at the bottom of the stack and
nowhere else, and that a compound statement has been counted by the one around it.

Properties of `expressions`: `EaxKept`, an operand whose text names `eax` is returned as
used, and its value is pushed while a later operand is computed; `StackBalanced`, at
the end of each operand the stack holds what the open operators have pushed and
nothing else, and each jump has the height of its label; `MeansSame` as in
section 2. The type invariant has the form of the operand and the range of the
pointer counter.

Properties of `initialisers` (for the structures `Plain` allows, except the first): `MembersApart`, the members of a structure lie apart, are
aligned, have as many bytes as the type they are read by, and end inside the structure, in
both passes; `ValuesWhereRead` as in section 2; `WholeObject`, what is printed for a variable
has the variable's size, so that whatever the braces leave out was filled up, at each
level of the recursion; `RefusedAtRoom`, a list is refused exactly when it has more
elements than there is room for, and never in PASS3, when half of the output is
written.

Properties of `frame_layout`: `TableKept`, the sort is a permutation that leaves the
parameters alone; `CharsThenShorts`, it sorts; `NoOverlap`, variables are apart and
aligned; `InsideFrame`, they end inside the frame; `ArgumentsReached`, a parameter is
where the caller has put the argument; `LayoutEnds`. The last two safety properties
are stated for frames whose size a `ushort` holds.

Properties of `declarations`: `SymbolsFound`, `LabelsOnce`, `UsesAgree` and
`CallsMatchBody` say that the passes agree, and name the texts for which they do
not: the table of a function is the one of its *last* declaration, so a prototype
after the body makes PASS3 stop with an internal error at the first local
variable (or use the prototype's names for the parameters); a function with two
bodies is not refused (`flag1 = 0` at 1392 clears the flag 1068 looks at); a name
used before the local declaration that hides it is the global variable in PASS1
and the local one in PASS3. `RefusedTwice` is about second definitions: PASS1 refuses
each of them and nothing else, but for two kinds it lets through (`LetThrough`): a second
body, and a variable beside a function of its name that came first. Of these the label of
each definition is printed, so the assembler has the name twice and refuses it. The type
invariant has the write behind a full `variable_tbl` (743, before the check at 748): the
pointer lands on `auto_size` and the count (`Overwrite`, with the values of `Addresses`),
and only in the step the compiler stops in. `CallsMatchBody` speaks of the offsets
that are less than `USHRT`: beyond, `auto_size` is not the size of the frame (`InsideFrame`).

Properties of `prep`: `LinesInPlace`, the number of a line is the one it has in the file
the last marker names; `CommentsAgree`, `Whole`, `Expanded` as above; `Terminates`,
unless definitions are circular or a call is given the name of a call. The type invariant has the limits of the tables
and of the line, with the two places where the code leaves the line (464) and its room (236) as exceptions.

**Bounds.** `source_window` reads a file of seven lines: a marker comment; two
tokens with a line comment; a blank line; a block comment that starts on one line, goes
over a blank one and ends on a third, in front of a token; and a comment that is still open
when the file ends. One call for a token reads over three lines, another meets the end
of the file inside a comment, which ends it (token.cpp:382-385). `MAX_SRC_BUFFER_LEN` and `MAX_STRING_LEN` are
the smallest the lines fit at all, so that the window is compacted, refilled and
found full; `MAX_BUFF_LEN` is less than the lines and prints of the file, so that
it overflows unless flushed. `MaxSaves = 2` has one roll-back inside another;
`MaxLog` stops the prints of the client. `statements` has three grammars: loops and `if` with `break` and
`continue` (programs of five nodes, the function one of them), `switch`, `case` and
`default` with `while` (six), and `goto` forwards, backwards, into and out of `if`
and `while`, with `return`, `_asm` and `;` (five); nested up to three deep. That is
enough for a loop in a loop, an `if` with both bodies inside a loop, a `switch` with
two cases and a default, a loop around a `switch` around a loop. `ExprLabels = {1}`
lets each expression take one label, which is what could collide with a statement's;
two case constants and the values beside them reach each arm, in programs without a
`switch` a value is zero or it is not. `FirstLabel = 3` only keeps
0 from being special. `frame_layout` has tables of up to four symbols
of six types: with fewer than three auto variables the sorting loops cannot swap
and go on; `USHRT = 32` lets a frame be too large. `declarations` has units of
eight items: a function with a parameter, a variable and a use, declared again
with other parameters, fits, and so do two functions of which one calls the
other; `MAX_VARIABLE` and `MAX_SYMBOL_TABLE_G` are two, fewer than there are names,
so that both tables fill up; `Addresses` has one value for the pointer that is then written
behind `variable_tbl`. The names are symmetric: no action and no property
orders or singles out one. `prep` has two families of text. One is about lines, comments
and inclusion: every main file of up to three lines of
fourteen kinds, a header of up to two of five, and a header in the header that may
include itself. With `MAX_INFILE = 3` the stack fills up and empties again, and
three lines suffice for a definition used inside and behind a comment that spans a file, also
one whose text opens or closes a comment or a string. The other is about
replacement: every pair of definitions of seventeen kinds, with and without parameters, and
nineteen lines that use them: calls with too few and too many arguments, calls in an argument, strings and
commas in one, names between apostrophes, definitions used inside one another,
circular ones, and `#define F(p) p(p)` with `F(F)`. With `MAX_DEFINE = 2` a third definition is one too
many, with `MAX_PARAMETER = 2` a third parameter (it goes into the text); `MAX_BUFF = 12`, `MAX_SYMBUF = 4` and
`MAX_LINE = 12` are room for most of these texts, arguments and lines and less than some
need; `L` in `LongSymbols` is a name too long for `symbuf`.
`expressions` has five grammars. Two have every expression of two operators over the
operands `int`, `unsigned int`, `unsigned char`, `int *`, an array of `char`, local
and global, and a function, with
43 operators between them; one has every expression of three operators of `+`, `[]` and
calls with no, one and two arguments. The fourth has two operators over global and local
structures, a pointer to one, an array of them and a string, with chains of up to four
members (scalars, an array, a structure, and a pointer that closes a cycle between
structures); the fifth what `?:` leaves behind for a string, an array and a `sizeof` of a
type, with the operators that look at a string's type and dimensions. Each operator meets each
other one of its grammar on both sides, so that the forms of operand the symbols give,
pushed and not, reach each path. A byte has two bits
(`ByteBits = 2`), so an `int` has eight: enough for the widths to differ and for
signs and carries to be lost, and small enough to compute. Two memories for each grammar,
with negative, zero and large contents, decide the conditions both ways.
`initialisers` has six kinds of text: one structure of up to three members of eleven kinds
(each width, pointers, arrays of one, two and too many dimensions, of a size that
an `int` or a `ushort` does not hold, without a size, and the structure itself); two
structures in each other; and initialisers of up to eight to ten tokens, right and wrong ones, for
arrays, for structures of arrays and structures, for strings with gaps, and for
two variables of one structure. `USHRT = 8` and `INT = 128` bring both limits within
reach, `MAX_ARRAY_DIM = 2` has a row in a row and a dimension too many. The names of
members are symmetric: they are compared with each other and nothing else.
Complete programs and halted parsers are final states,
hence `CHECK_DEADLOCK FALSE`.

**Fairness.** `FairSpec` asks weak fairness of
`Spskip \/ ScanToken \/ ScanComment`: a call of `c32_token_process` is sequential
code and runs until it returns. Nothing is assumed of the parser that calls it.
`Spec` of `FrameLayout` and `Spec` of `Prep` ask weak fairness of their next steps,
for the same reason.
`statements`, `declarations`, `expressions` and `initialisers` have no liveness property.

## 4. What is proved

All theorems hold for every value of the constants that satisfies the
assumptions below, and every leaf is checked by TLAPS.

*SrcBufferProofs.* Assumptions: `TextAssumption` (the input is a text file of
non-empty lines whose last one is ended: prep numbers every line, prep.cpp:460), `MarkerAssumption`
(the first line is prep's marker, a number and a comment, prep.cpp:521, and there is a second)
and `SizeAssumption` (positive sizes). The four properties are not inductive one
by one: that the head stays inside the window needs the window to end with a NUL,
that a save stays valid needs that a flush finds none alive, and that a comment is
left needs the scan never to start on a line end. `Inv` joins them with the
nesting of the saves; `InitInv` and `Invariant` establish it, with one lemma per
action. `TypeCorrect`, `WindowCorrect`, `NoOverflow`, `SavesCorrect` follow.
`LineTop`, `StrEnd`, `WindowEnd` are `CHOOSE` over a bounded set of numbers; that
what they choose exists is `LeastNat` and `GreatestNat` of `NatExtremes`, proved
there by well-foundedness of the numbers.

Its second section is `Refinement == Spec => ImplementsTape` under the mapping
`pos <- src_buffer[linebufp]`, `log <- asm \o output_buffer`: each step of the
buffers is a step of the tape or leaves it unchanged. It rests on `Inv`: a flush
is invisible because compaction keeps the cell under the head, a restore is a
rewind because `SavesValid` holds.

Its third section is `ListingIsInOrder`, and needs nothing more of the buffers: it is
proved of the tape. `OrderInv` says that the listing holds the lines entered up to the head, each once and
in their order (`ListsTo`), and that the same holds at every place marked, of the part of the
listing that was there then; so a rewind, which cuts the listing to that part, keeps it. A step
of the tape moves inside a line, enters the next one or rewinds (`OrderMoves`, `OrderAdds`), and
the refinement carries this over to the buffers and their flushes.

Its fourth section is `LinebufIsLine`. `LineInv` says that `c32_linebuf`, and the one in
every save, is the start of the line the head, or the place saved, is in. A compaction makes the head's
line the beginning of the window, and `c32_linebuf` its first cell. That is right in every line but the
first of the file: the window begins with a NUL there, the walk back to the start of the line stops at
that NUL without looking at it, and `c32_linebuf` would be the NUL. `MarkerInv` shows that no client stands there when it flushes. It only
flushes between tokens, and the first line has none: the reader goes from the start of the file through the
number and the comment and stops at the second line. This is what `MarkerAssumption` is for. A
file whose only line is the marker (an empty source) is excluded by it: nothing is parsed there,
PASS1 finds the end of file at its first token.

*StatementsProofs.* Assumptions: `ConstantsAssumption`, and in each theorem that
`"nested_case"` is not in `Dialect`; `JumpsDoLand` also excludes `"break_in_do"`.
(Both are needed: the violation runs are the counterexamples.) The invariant is
`IInv`: the type invariant; `Once(code)`, no label is defined at two places; and
`LInv`, which relates the labels defined, the labels jumped to, and what the
frames still owe. Labels below the counter are partitioned: a label is either
defined, or reserved by exactly one open frame that will define it when it closes,
or never printed at all; a jump goes to a label defined or owed; case labels of a
switch are those below its `serial`, and the `serial` of inherited `numb_param`
copies is never used. The stack changes in four ways (`Update`, `Keep`, `Push`,
`Pop`), and each action is one of them with the labels it emits, which keeps the
proof of an action to a few lines. `LabelsAreUnique` and `JumpsDoLand` follow; when
the stack is empty nothing is owed. `RefusalsAreRight` has an invariant of its own,
`Through`: in every frame but that of an `if`, where the one around it counts (`Owner`),
the labels for break and continue have arrived if any statement around it can be left
or gone on with. `Moves` is what the steps do to the stack as far as this is concerned.

*ExpressionsProofs.* Assumption: `TablesAssumption` (the symbols, members and casts have
types the bit fields of `attr_s` can hold, and a chain of members is a sequence of `.`
and `->`: what the declarations and the scanner leave). `TypeOK` says what operands look
like, but not what the frames keep for the step that closes them. `Formed` adds that
(`FrameOK`): the left operand of an open operator has the form of a parsed one, how many words the
operator has pushed follows from its kind and from `used`, a call has reserved what the declaration says, and
a left operand whose text names `eax` has been pushed unless the operator needs it no more;
an operand is returned as used when its text names `eax`. There is one lemma per
action (`FormedVariable`, `FormedCloseCall`, ...). `Shapes`, `FormedApply` and `FormedOpen` are what most
actions come down to: an operator applied to the top operand, and one opened above it.
A chain of members is a recursive function, `Links`; that the operand keeps its form along a
chain of any length is by `SetInduction` of `NatExtremes`, for the set of lengths for which it holds.
`TypeCorrect` and `EaxIsKept` follow.

Its second part is about the stack. `StackBalanced` compares two places in the code, a jump and its
label, which are far apart and printed at different times; a step that prints the label knows
nothing of the jump. The invariant `Balanced` therefore gives every label a height, in advance: there
is a function `lev` from labels to heights such that each jump to `l` and `l` itself are
met with `lev[l]` words on the stack, the labels still to be printed by an open operator have the height
at which that operator started, and the operand just parsed ends at the height of the open ones.
`Levels` is this for one `lev`; `Placed` is its part for the operators, `Piece` the one for a
sequence of instructions, which `PieceConcat` composes, so that an action is proved by
looking at the few instructions it adds: most are `Quiet` (they keep the height, or change it by what
was pushed, and have no labels). `DeeperExists` extends `lev` by the labels a step takes from the
counter. Where `&`, `^` and `|` parse a constant again (`Again`) the code behind the left operand is
printed a second time with new labels; the copy changes the height as the original does
(`Renewed`), because the code behind an open operator has no labels older than the
operator (`MarksFrom`, part of `Within`). `StackIsBalanced` follows.

*DeclarationsProofs, the layout.* Assumptions: `TypesAssumption` (sizes are natural numbers, a
type is not both char and short) and `LimitsAssumption`. `Inv` adds to the
properties what each loop has done up to slot `i`: `SortInv` says that the slots
behind `i` hold no char once the first loop has left by its `break`, which is why
the second may go on at the same `i`; `PlaceInv` that every placed variable ends at
or below `size`, without which the next one could overlap any but the last;
`ParamInv` what is known of the frame when the parameters get their offsets. The
only arithmetic on the rounding is in `RoundUpFacts` and what follows from it for
the three alignments and the frame; one lemma per action, then six theorems, one for each safety property.

*DeclarationsProofs, the tables.* Assumptions: those of `FrameLayout` and `TablesAssumption` (the limits are
numbers). There is one invariant, `DeclInv`, with two layers.

`TypeInv` is the type part of it. It needs `Inv` of the layout while a layout runs
(`LayoutInv`): `CallLayout` starts `FrameLayout` in one of its initial states, because PASS1 leaves the parameters
in front (`OrderInv`), each `LayoutStep` is a step of it, and what `LayoutReturns` writes back is in
range because the theorem's invariant holds. It also says that while an item is parsed there is a function around it
exactly when the parser is not at the top level.

The other parts relate the tables to the text, `unit`, and to the code:

- `TextInv` and `CurrentInv`: a parameter, a variable, a use or a call stands in the declaration of
  exactly one function (`Within`), in PASS3 as in PASS1, and that is the one being parsed;
- `KindInv`: a name that was a function first stays one, and a variable is declared once;
- `TableInv`: the table of a function holds the names its *last* declaration declares and no
  others (`Fits`); before the layout the parameters are the first `m` (`Split`), after it the first
  `m` have the offsets and `param_numb` is `m` (`Offsets`). The sort must lose no name for that
  (`TablePermuted`: an injection of a finite set into itself is onto) and leave the parameters alone;
  this is `TableKept` of the layout;
- `TwiceInv`, `UseInv`: what PASS1 refused and what it took a use for, by the text;
- `FoundInv`, `InternalInv`: what PASS3 has passed was in the table, and where it stopped was not;
- `OverrunInv`: a table that was written behind its end is full, is the one being filled,
  and PASS1 has stopped with it; so no layout and no call reads what the pointer destroyed;
- `LabelInv`: PASS3 has printed a label for each variable and body it has passed;
- `CodeInv`: each entry of the code is what the text and the tables say, and entries are in order.

A step is first shown to be one of nine effects an item can have (`Reacts`: it is refused, adds or
finds a variable, names a function, ...), or a step of `main`, or the end of a layout (`StepCases`);
the parts of the invariant are then proved of the effects, one lemma each (`TableStep`, `CodeStep`, ...).
`PassesAgree` is where they meet: a use that PASS1 took for a local variable is
one PASS3 finds, because the table that is there holds what PASS3 has come across (`FoundInv`); one it took for a
global variable and PASS3 for a local one is declared behind the use, by the last declaration.

*StructLayoutProofs.* Assumptions: `WidthAssumption` (an `int` has a multiple of 8 values, so
that rounding up to 2 or 4 is exact or recognisably wrong) and `ProfilesAssumption` (the shapes a text
may use are types and dimensions). `MembersLieApart` is a theorem of `InitialSpec`, not only of the
definitions: initialisers write to the symbols of members too, and set their dimensions and sizes.
The sizes wrap, so the property speaks of the members up to the first that is not `Measured`; the
invariant has to speak of all. `LayoutInv` joins:

- `NamesInv`: no structure and no member of one is there twice, without which `StructOf` and `MemberOf`,
  the linear searches of the code, could find another than the one just read;
- `MembersInv`: each member is what its item in the text says (`Written`) and lies behind those in
  front of it (`Behind`). A member with a dimension 0, or that is its own structure, is `Vague`:
  its size is whatever the last initialiser left;
- `TablesInv`: a structure that is complete has a multiple of 4 as its size, and the one that is growing
  ends where its last member does;
- `Kept` and `OpenInv`: PASS3 reads a member's item only within its structure, so that `Again` finds
  the place where PASS1 put it and writes the same dimensions and size again;
- `FramesInv`: each open brace of an initialiser is at a dimension its symbol has, so that `CloseRow`
  sets a dimension only where the text left it open, that is of a vague member.

`Longer` says what no step takes back: text, tags, offsets, and dimensions and sizes of members that are not
vague. Then the size of a type that was known stays what it was (`BytesKept`) and members
laid out earlier stay right (`OldMembers`, `OldTable`), so that an action is proved by what it adds: one
lemma for each. `CompleteStep` is the one the initialisers come down to.

*InitialisersProofs.* The same assumptions, and `LayoutInv` with its theorem. Two programs are compared: the
one that prints, whose loops know the element they are in by their counters and the symbol at hand,
and `Walk`, which knows the text only. `InitialiserInv` says of every moment in PASS3 how they are related:

- `BracesInv`: each open brace goes one dimension or one structure further into the type of what the brace
  around it has reached, and its counter is within that, so that `Walk` of the counters is
  defined; `CursorProp` follows by induction over the braces: the symbol the innermost loop works on
  has the type and dimensions `Walk` arrives at;
- `PathInv`: the counters are the `Path` that commas and braces give (behind a comma
  the loop has still to count);
- `FirstInv` and `CountsInv`: a dimension left open is 0 until its brace closes, so nothing in front of it
  has gone beyond its first row, and the places computed with 0 elements so far are the same when it
  gets its number; without `FirstInv` an earlier value could move when `CloseRow` writes the dimension;
- `SumInv`: the bytes printed end where the element to be read begins, or where the one just completed
  ends. This is what `NextElement` and the filling at a closing brace keep: `RowNumbers` and
  `RestOfStructProp` say that the rest of a row or structure is what is missing to its size;
- `PrintedInv`: each value printed was put where `Walk` of its `Path` says and still is (`RightKept`).

`ValuesArePlaced` is the last, `ObjectsAreWhole` is `SumInv` when no brace is open. Both are theorems about structures
without gaps, without members of no size and without pointers to structures (`PlainType`), of any size and depth; for others
they say nothing, and for those with gaps the properties are false. A structure is found by its tag and
keeps its members while values are read (`Steady`, `Keeps`: the set of structures inside the variable stays plain), a string's
text takes none of the variable's bytes (`StringsInv`), and `Path`, `Walk`, `Below` and `BytesOf` are recursive
functions about which `Recursion` and `IteratesOnce` give what their definitions promise (`PathRule`, `WalkRule`, `BelowProp`,
`BytesOfProp`). There is one lemma for each action and each way to end a value; those that print nothing for a variable are
`StillInvariant`, `FirstPassInvariant` and `BetweenInvariant`.

*PrepProofs.* Assumptions: `FilesAssumption` (the file of the command line exists),
`LimitsAssumption` (the limits are positive) and `ContentsAssumption` (files are sequences of
lines of tokens, none longer than linebuf: longer ones are not modelled). There are four
invariants, one on top of the other.

`Inv` adds to `LinesInPlace` three facts:
every file below the innermost one keeps the number of the line that includes the
next (`StackInv`), `line_numb` counts what was read (`NumberInv`), and the last marker
printed names the innermost file (`OutInv`). `Printed` is the lemma all three kinds of
output rest on: a line under the right marker, or a marker, keeps what was printed in
place. `NumbersAreRight` holds for every text, circular and astray ones included.

`TypeInv` says that the files are read at most to their ends, the tables stay in their room and names
are defined once; the line fits its room unless a replacement has just overrun it (`err = "overrun"`, and nothing
follows), and the scan stays in its line unless a line of a comment had no end of it
(`pc = "astray"`, and the lines behind). `PrepTypeCorrect` follows: it says where the code keeps these limits and names
the two places where it does not. `TypeInv` needs `Inv`: what `Define` enters is the name of a line that was read.
That the text put in for a symbol consists of tokens is by `ArgumentsProp`, `PutInProp` and
`SubstitutedProp`, one for each loop of `sym_change_exec`.

`CommentInv` relates two scanners that never see each other, prep's and the compiler's, which runs
later on what prep has printed. `CommentsAgree` alone is not inductive: it speaks of the beginnings of
lines. Between lines, `in_comment_flag` is where the compiler stands behind the output
(`OutsideInv`); within one, the compiler, begun where the line begins, is in code behind the tokens
prep has scanned (`InsideInv`). A replacement keeps the latter because it touches only what lies
behind `linebufp` (`PutProp`), a comment or string that is skipped because the compiler goes across
the same tokens (`AcrossProp`), and the end of a line carries it over to the former
(`EndLineAgrees`). The exceptions of `Regular` are needed: a hidden quote breaks the second, a
marker in a comment the first, and behind a comment's line that does not end it (464) the flag is
whatever memory makes it. So `CommentsDoAgree` and `NothingIsLost` are theorems about comments of at most two lines. `Scan` and `Behind` are recursive functions; that they go on as they should
is by `Recursion` and `IteratesOnce` of `NatExtremes` (there is a function that follows the steps, and
no other).

`NothingIsLost` is the theorem of `Whole`, by `PathInv` and `OutputInv`. The property speaks of the end, the
invariant of every line: the output is cut into one piece for each file on the stack (`Joined`), each
the marker and what the rule gives for the lines of that file done so far (`Part`, `DoneOf`). A line
printed makes the top piece longer (`LinePrinted`), an `#include` puts an empty piece on top
(`IncludeOutput`), and the end of a file is where the rule's definition is used: the top piece is then
`Flat` of the file, at the depth the stack has left, and becomes part of the one below
(`EndOfFileOutput`). `PathInv` says that each file on the stack is named by an `#include` in the line
the one below is in, where the compiler is in code. That prep takes a line for a directive exactly where the rule does needs
`CommentInv`, which says where the compiler stands behind what prep has printed, and `Settled`, which
carries that over to the source. `Copied` and `Flat` are recursive functions, over lines and over depth; with the exceptions of
`Regular` and `Settled` no line
and no file goes missing or comes twice for any files and any depth.

**Only model-checked**: `TokenReturns`, `LayoutEnds` and `Terminates` (liveness);
`Expanded` of `PrepOutput` (an operator recursive over texts of any depth);
`RefusedAtRoom` of `Initialisers`: that a list is not refused in PASS3 compares two readings of one text, and its
proof would need what PASS1 had in each variable of the loops at each token, of which nothing is kept; and
`FlowCorrect` and `MeansSame`, whose meanings of a program and of an expression are
recursive over data of any size. (The induction theorems of the library take an operator as a
parameter, which the provers do not accept; `SetInduction` takes a set instead, and serves where
the induction is over a length, as in `Sums`, `Depths` and `Links`.)

## 5. Findings

1. **A roll-back over a flush** (`stale_restore`, utility.cpp:71).
   `parser_function_block_single` saves its place, parses a type and restores; a
   struct with an array member in that type reaches `c32_parser_array`, which
   flushes. Pointers are restored to where the characters were before.
2. **`break` in a `do`** (`break_in_do`, banana-c32.cpp:259). The line that prints the break
   label is commented out, so the jump has no target.
3. **Case labels inside a statement of the switch** (`nested_case`, banana-c32.cpp:342). `serial_numb`
   is counted up in the copy of the inner loop; the switch prints the label again.
4. **Falling into a case** (`fall_into_case`, banana-c32.cpp:345). The comparison is executed by
   control that comes from the statement above, and the body is skipped.
5. **An element and a constant** (`masked_element`, expr.cpp:1608). In `*p & 1` the roll-back
   that parses the constant again takes back the code that loaded the element; the
   address is combined with the constant.

## 6. Plan

In this order; the parts that other parts rest on come first.

1. Proofs: that a list is refused in PASS1 only. PASS3 finds the structures PASS1 left, with all
   their names, which `Kept` already says; what is missing is a record of the braces, counters and dimensions
   PASS1 had in front of each token, and that PASS3 has the same.
2. `RECURSIVE` stays out of `StructLayout`, `Initialisers` and `Expressions`, so that theorems
   about them are possible.

## 7. Not modelled, and why

- **`_asm` blocks** (`parser_asm`, banana-c32.cpp:597-634). It moves `c32_linebufp` back to the
  start of the line itself, and copies raw lines to the output until a line begins with
  `}`. These moves are not steps of the tape that `SrcBuffer` implements: the head goes back
  without a save, and no call of `c32_spskip` lists the lines. What can go wrong there
  (no way out at the end of the file, a block larger than the window) is in the list of
  hazards, without a property.
- **The scanner** (token.cpp:64-138, 295-608): which characters make which token. It
  keeps no state of its own but `c32_symbuf` and the place of the head, and the latter
  is what `SrcBuffer` models.
- **The words of a type** (utility.cpp:222-282), `const`, `enum`: one token after the
  other into a set of flags; the other modules take the flags as they are.
- **Lines of 1023 characters and more in the files prep reads**: lines are tokens in `Prep`, and fit
  linebuf until a replacement makes them longer.
Not planned: debug dumps (no state), `lib.c` and `test3.c` (input), the `__XC32`
variant of the sources (not built), the text of messages.
