------------------------------ MODULE Initialisers ------------------------------
(***************************************************************************)
(* Global variables of banana-c32 and their initial values: what           *)
(* parser_char_short_int and parser_global_array do behind the name, and   *)
(* the recursive descent of c32_global_array_init, array_init_sub,         *)
(* array_init_elem and struct_init, which prints the data of a variable    *)
(* while it reads the braces.                                              *)
(*                                                                         *)
(* frames is the C call stack: one entry for each brace that is open.  The *)
(* next token is chosen when the parser looks for it.                      *)
(***************************************************************************)
EXTENDS StructLayout, FiniteSets

CONSTANT MAX_INIT_STRING_LEN   \* strings that init_string has room for

VARIABLES
  var,      \* the global variable being declared
  frames,   \* loops of array_init_sub and struct_init, innermost last
  mode,     \* what is looked for: see below
  strings,  \* init_string: the strings whose text is still to be printed
  data      \* PASS3: what has been printed behind the label of var

initVars == <<var, frames, mode, strings, data>>
vars == <<structVars, initVars>>

\* "none"   a declaration          "end"    the ; of the declaration
\* "value"  a value or an opening brace        "more"   the same, behind a comma
\* "after"  what follows a value   "comma"  whether a closing brace follows

------------------------------------------------------------------------------
\* Symbols

\* A symbol is the variable or a member of a structure, which both the layout and
\* the initialiser write to.
Object == [s |-> 0, k |-> 0]
Sym(ref) == IF ref = Object THEN var ELSE c32_st_root[ref.s].elem[ref.k]

\* Where the parser is with the braces fs open: a symbol, and at which of its
\* dimensions.
Place(fs) ==
  IF fs = <<>> THEN [ref |-> Object, dim |-> 1]
  ELSE LET f == fs[Len(fs)] IN
       IF f.kind = "row" THEN [ref |-> f.ref, dim |-> f.dim + 1]
       ELSE [ref |-> [s |-> f.ref.s, k |-> f.i + 1], dim |-> 1]

Here == Place(frames)
HereSym == Sym(Here.ref)
AtRow == Here.dim <= Len(HereSym.dims)
\* array_init_elem takes a pointer to a structure for a structure.
AtStruct == ~AtRow /\ HereSym.type.base = "struct"
AtScalar == ~AtRow /\ HereSym.type.base # "struct"

\* A variable that c32_global_array_init is not called for.
Simple == var.dims = <<>> /\ var.type.base # "struct"

Top == frames[Len(frames)]
Outer == Front(frames)

------------------------------------------------------------------------------
\* Output

\* Bytes of data, for the value at item tok, or filled up (0), or of a string.
Entry(n, tok, text) == <<[bytes |-> n, tok |-> tok, text |-> text]>>
Fill(n) == IF n > 0 THEN Entry(n, 0, FALSE) ELSE <<>>
Printed(items) == IF pass = "PASS3" THEN data \o items ELSE data

Token(t) == [kind |-> "token", tok |-> t]
\* The item of the text that is being read.
At == IF pass = "PASS1" THEN Len(unit) + 1 ELSE next
Scan(t) ==
  /\ pass = "PASS1" => t \in profile.input /\ At - var.at <= profile.tokens
  /\ Read(Token(t))

Refuse(e) == Stop(e) /\ UNCHANGED initVars

Declared == UNCHANGED <<profile, pass, open, err>>

------------------------------------------------------------------------------
\* A declaration up to its ; or =

\* type name dims ;   or   type name dims =
Declare(type, dims, init) ==
  LET defined == type.base = "struct" => Known(type.tag)
      sym == [type |-> type, dims |-> <<>>, size |-> Bytes(type), at |-> At, init |-> init]
      v == IF dims = <<>> THEN sym ELSE Sized(sym, dims)
  IN
  /\ Reading /\ open = 0 /\ mode = "none"
  /\ pass = "PASS1" => Cardinality({k \in DOMAIN unit : unit[k].kind = "object"}) < profile.objects
  /\ Read([kind |-> "object", type |-> type, dims |-> dims, init |-> init])
  /\ \/ ~defined /\ Refuse("undefined")
     \/ defined /\ ~Accepted(dims) /\ Refuse("syntax")
     \/ /\ defined /\ Accepted(dims)
        /\ var' = v
        /\ mode' = IF init THEN "value" ELSE "end"
        /\ frames' = <<>> /\ strings' = <<>>
        /\ data' = IF pass = "PASS3" /\ ~init THEN Fill(v.size) ELSE <<>>
        /\ Declared /\ UNCHANGED c32_st_root

\* The ; behind it, or the comma of the next declarator, which is read as a ; here.
\* No declarator may follow a scalar or a structure with an initial value.
EndDeclaration ==
  /\ Reading /\ mode = "end"
  /\ \/ /\ Scan(";")
        /\ mode' = "none"
        /\ Declared /\ UNCHANGED <<c32_st_root, var, frames, strings, data>>
     \/ \E t \in {"{", "}", "num", "str"} : Scan(t) /\ Refuse("syntax")
     \/ var.init /\ var.dims = <<>> /\ Scan(",") /\ Refuse("syntax")

------------------------------------------------------------------------------
\* A value is looked for

Wanted == Reading /\ mode \in {"value", "more"}

Push(kind, ref, dim) ==
  /\ frames' = Append(frames, [kind |-> kind, ref |-> ref, dim |-> dim, i |-> 0])
  /\ mode' = "value"
  /\ Declared /\ UNCHANGED <<c32_st_root, var, strings, data>>

OpenRow == Wanted /\ AtRow /\ Scan("{") /\ Push("row", Here.ref, Here.dim)

OpenStruct ==
  /\ Wanted /\ AtStruct
  /\ Scan("{")
  /\ Push("struct", [s |-> StructOf(HereSym.type.tag), k |-> 0], 0)

\* An element is complete, the braces fs being open; its symbol has the dimensions
\* dims.  When it is the whole symbol, c32_global_array_init sets the size anew.
Complete(fs, dims, items) ==
  LET p == Place(fs)
      old == Sym(p.ref)
      sym == [old EXCEPT !.dims = dims,
                !.size = IF p.dim = 1 THEN Times(Bytes(old.type), dims) ELSE old.size]
  IN
  /\ frames' = fs
  /\ var' = IF p.ref = Object THEN sym ELSE var
  /\ c32_st_root' = IF p.ref = Object THEN c32_st_root
                    ELSE [c32_st_root EXCEPT ![p.ref.s].elem[p.ref.k] = sym]
  \* The strings follow when the variable is complete.
  /\ data' = Printed(items \o IF fs = <<>> THEN strings' ELSE <<>>)
  /\ mode' = IF fs = <<>> THEN "end" ELSE "after"
  /\ Declared

Number ==
  /\ Wanted /\ AtScalar
  /\ Scan("num")
  /\ UNCHANGED strings
  /\ Complete(frames, HereSym.dims, Entry(Bytes(HereSym.type), At, FALSE))

\* Mutant: the label of a string is stored in a char as well.
StringUnchecked ==
  /\ Wanted /\ AtScalar
  /\ Scan("str")
  /\ strings' = IF Simple THEN <<>> ELSE strings \o Entry(0, At, TRUE)
  /\ Complete(frames, HereSym.dims, Entry(4, At, FALSE))
\* The address of a string: four bytes, which only array_init_elem makes sure of.
\* Without c32_init_string_flag the text of the string is printed at once, in front.
String ==
  /\ Wanted /\ AtScalar
  /\ Scan("str")
  /\ \/ ~Simple /\ Len(strings) = MAX_INIT_STRING_LEN /\ Refuse("memory")
     \/ /\ ~Simple /\ Len(strings) < MAX_INIT_STRING_LEN /\ Bytes(HereSym.type) # 4
        /\ Refuse("syntax")
     \/ /\ Simple \/ (Len(strings) < MAX_INIT_STRING_LEN /\ Bytes(HereSym.type) = 4)
        /\ strings' = IF Simple THEN <<>> ELSE strings \o Entry(0, At, TRUE)
        /\ Complete(frames, HereSym.dims, Entry(4, At, FALSE))

\* No brace where one must be, or no value.  Behind a comma a closing brace has
\* been looked for already.
Misplaced == \E t \in {"{", "}", ",", "num", "str", ";"} :
  /\ Wanted
  /\ IF AtScalar THEN t \notin {"num", "str"} ELSE t # "{"
  /\ mode = "more" => t # "}"
  /\ Scan(t)
  /\ Refuse(IF AtScalar THEN "syntax" ELSE "l_namikakko")

------------------------------------------------------------------------------
\* What follows a value inside braces

After == Reading /\ frames # <<>>
InRow == Top.kind = "row"
Members == c32_st_root[Top.ref.s].elem

\* The number of elements the braces have room for, 0 if the text does not say.
Room == IF InRow THEN Sym(Top.ref).dims[Top.dim] ELSE Len(Members)

\* Mutant: the loop goes round once more.
NextElementLate(m) ==
  IF Room # 0 /\ Top.i = Room THEN Refuse("overflow")
  ELSE /\ frames' = [frames EXCEPT ![Len(frames)].i = @ + 1]
       /\ mode' = m
       /\ Declared /\ UNCHANGED <<c32_st_root, var, strings, data>>
\* The loop goes round.
NextElement(m) ==
  IF Room # 0 /\ Top.i + 1 = Room THEN Refuse("overflow")
  ELSE /\ frames' = [frames EXCEPT ![Len(frames)].i = @ + 1]
       /\ mode' = m
       /\ Declared /\ UNCHANGED <<c32_st_root, var, strings, data>>

Comma ==
  /\ After /\ mode = "after"
  /\ Scan(",")
  /\ mode' = "comma"
  /\ Declared /\ UNCHANGED <<c32_st_root, var, frames, strings, data>>

\* No closing brace behind the comma, which is left for the loop to read.
NoBrace ==
  /\ After /\ mode = "comma"
  /\ pass = "PASS3" => unit[next] # Token("}")
  /\ NextElement("more")
  /\ UNCHANGED <<unit, next>>

\* Anything else: array_init_sub reads over it and goes on as behind a comma.
Swallow == \E t \in {"{", "num", "str", ";"} :
  /\ After /\ mode = "after"
  /\ Scan(t)
  /\ IF InRow THEN NextElement("value") ELSE Refuse("syntax")

\* How many elements the dimensions behind the first d make.
Below(dims, d) ==
  LET product[k \in 0..Len(dims) - d] ==
        IF k = 0 THEN 1 ELSE dims[Len(dims) + 1 - k] * product[k-1]
  IN product[Len(dims) - d]

\* array_dummy_init: the bytes of what is below dimension dim.
RowBytes(sym, dim) == Bytes(sym.type) * Below(sym.dims, dim)

\* Mutant: the rows that are left are not filled up.
RestOfRowLost(sym) == <<>>
RestOfRow(sym) ==
  IF Room = 0 THEN <<>> ELSE Fill((Room - Top.i - 1) * RowBytes(sym, Top.dim))

\* Mutant: each member that is left is filled up by the size of its type.
RestOfStructByType ==
  LET rest[k \in 0..Len(Members)] ==
        IF k <= Top.i + 1 THEN <<>> ELSE rest[k-1] \o Fill(Bytes(Members[k].type))
  IN rest[Len(Members)]
RestOfStruct ==
  LET rest[k \in 0..Len(Members)] ==
        IF k <= Top.i + 1 THEN <<>> ELSE rest[k-1] \o Fill(Members[k].size)
  IN rest[Len(Members)]

CloseRow ==
  LET sym == Sym(Top.ref) IN
  /\ After /\ InRow /\ mode \in {"after", "comma"}
  /\ Scan("}")
  /\ UNCHANGED strings
  /\ Complete(Outer, IF Room = 0 THEN [sym.dims EXCEPT ![Top.dim] = (Top.i + 1) % USHRT]
                     ELSE sym.dims,
              RestOfRow(sym))

CloseStruct ==
  /\ After /\ ~InRow /\ mode \in {"after", "comma"}
  /\ Scan("}")
  /\ UNCHANGED strings
  /\ Complete(Outer, Sym(Place(Outer).ref).dims, RestOfStruct)

------------------------------------------------------------------------------
\* The specification

NoVar == [type |-> Type("int", "", 0), dims |-> <<>>, size |-> 4, at |-> 0, init |-> FALSE]

InitialInit ==
  /\ StructInit
  /\ var = NoVar /\ frames = <<>> /\ mode = "none" /\ strings = <<>> /\ data = <<>>

Between == mode = "none" /\ StructNext /\ UNCHANGED initVars
Initialiser ==
  \/ OpenRow \/ OpenStruct \/ Number \/ String \/ Misplaced
  \/ Comma \/ NoBrace \/ Swallow \/ CloseRow \/ CloseStruct
InitialNext ==
  \/ Between
  \/ \E shape \in profile.vars, init \in BOOLEAN : Declare(shape.type, shape.dims, init)
  \/ Initialiser
  \/ EndDeclaration

InitialSpec == InitialInit /\ [][InitialNext]_vars

------------------------------------------------------------------------------
\* Where the value at a token belongs, by the text alone

TokenAt(p) == unit[p].tok

\* One number for each brace that is open in front of item p: the commas since then.
Follow(path, t) ==
  CASE t = "{" -> Append(path, 0)
    [] t = "}" -> Front(path)
    [] t = "," /\ path # <<>> -> Append(Front(path), Last(path) + 1)
    [] OTHER -> path
Path(p) ==
  LET path[k \in 0..p - var.at - 1] ==
        IF k = 0 THEN <<>> ELSE Follow(path[k-1], TokenAt(var.at + k))
  IN path[p - var.at - 1]

\* In front of p a comma stands between every two elements.
Separated(p) ==
  \A q \in var.at + 1..p - 1 :
    /\ TokenAt(q) # ";"
    /\ TokenAt(q) \in {"{", "num", "str"} => q = var.at + 1 \/ TokenAt(q - 1) \in {"{", ","}

\* Up to p no list is so long that an unsigned short does not count its elements.
Counted(p) == \A q \in var.at + 1..p : \A k \in DOMAIN Path(q) : Path(q)[k] + 1 < USHRT

\* Element i of the array or structure w, which begins at w.at; the first w.dim
\* dimensions have been gone into.
Element(w, i) ==
  IF w.dim < Len(w.dims)
    THEN [w EXCEPT !.dim = @ + 1, !.at = @ + i * RowBytes(w, w.dim + 1)]
    ELSE LET e == c32_st_root[StructOf(w.type.tag)].elem[i + 1]
         IN [type |-> e.type, dims |-> e.dims, dim |-> 0, at |-> w.at + e.value]
Walk(path) ==
  LET walk[k \in 0..Len(path)] ==
        IF k = 0 THEN [type |-> var.type, dims |-> var.dims, dim |-> 0, at |-> 0]
        ELSE Element(walk[k-1], path[k])
  IN walk[Len(path)]

\* Every structure inside one of T is in T, and of the members none leaves a gap, which
\* the initialiser does not print; none is an array whose size an initialiser sets;
\* none is a pointer to a structure, which the initialiser takes for the structure;
\* and none is too large.
Plain(T) ==
  \A s \in T :
    LET tab == c32_st_root[s]
        n == Len(tab.elem)
    IN /\ Measured(s, n)
       /\ \A k \in 1..n :
            LET e == tab.elem[k] IN
            /\ e.value + e.size = IF k < n THEN tab.elem[k+1].value ELSE tab.size
            /\ e.size = RowBytes(e, 0)
            /\ e.type.base = "struct" => e.type.ptr = 0 /\ StructOf(e.type.tag) \in T

PlainType(type) ==
  type.base = "struct" =>
    type.ptr = 0 /\ \E T \in SUBSET DOMAIN c32_st_root : StructOf(type.tag) \in T /\ Plain(T)

\* A char or short that is given the address of a string.
NarrowString(tok) == Simple /\ TokenAt(tok) = "str" /\ Bytes(var.type) # 4

\* The bytes of the first n items.
BytesOf(items, n) ==
  LET sum[k \in 0..n] == IF k = 0 THEN 0 ELSE sum[k-1] + items[k].bytes
  IN sum[n]

------------------------------------------------------------------------------
\* Properties

\* Every value is printed where the code that uses the variable looks for it: at the
\* offset of the array's element or of the structure's member that the braces and
\* commas around it name, in as many bytes as that has.  Excepted are structures
\* that PlainType rules out: with a gap between or behind their members the code
\* breaks this.  src/compiler/test.prep:5-19 initialises such a one, and its k is
\* printed at 1 and read at 4.
ValuesWhereRead ==
  PlainType(var.type) =>
    \A k \in DOMAIN data :
      LET tok == data[k].tok IN
      /\ tok # 0 /\ ~data[k].text
      /\ Separated(tok) /\ Counted(tok) /\ ~NarrowString(tok)
      => LET w == Walk(Path(tok)) IN
         /\ w.dim = Len(w.dims)
         /\ data[k].bytes = Bytes(w.type)
         /\ BytesOf(data, k - 1) = w.at

\* What is printed for a variable has the size of the variable, so that none of it is
\* another's: whatever is left out between the braces is filled up. (Without an
\* initialiser it is the size that c32_parser_array has stored, which an int or an
\* unsigned short may have cut down.)  Excepted are the structures that PlainType
\* rules out: for the one of src/compiler/test.prep:5-19, which has a gap, 5 bytes are
\* printed and 8 are its size.
WholeObject ==
  /\ mode = "end" /\ err = "none" /\ pass = "PASS3"
  /\ PlainType(var.type) /\ Separated(next) /\ Counted(next)
  /\ \A tok \in var.at + 1..next - 1 : ~NarrowString(tok)
  /\ var.init \/ var.size = RowBytes(var, 0)
  => BytesOf(data, Len(data)) = RowBytes(var, 0)

\* A list is refused exactly when it has more elements than the array or the structure,
\* and not in PASS3, when the assembler text is half written. (PlainType leaves out the
\* structures with a member of no size, char b[], whose first list sets the size for all.)
RefusedAtRoom ==
  /\ err # "none" => pass = "PASS1"
  /\ frames # <<>> /\ PlainType(var.type) /\ Separated(At) /\ Path(At) # <<>>
       /\ ((err = "none" /\ mode \in {"value", "more"}) \/ err = "overflow") =>
       LET w == Walk(Front(Path(At)))
           room == IF w.dim < Len(w.dims) THEN w.dims[w.dim + 1]
                   ELSE Len(c32_st_root[StructOf(w.type.tag)].elem)
       IN err = "overflow" <=> room # 0 /\ Last(Path(At)) >= room
===============================================================================
