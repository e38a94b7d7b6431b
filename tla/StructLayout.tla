------------------------------ MODULE StructLayout ------------------------------
(***************************************************************************)
(* Structures and arrays of banana-c32: st_def and st_define read the      *)
(* definition of a structure, c32_parser_array the dimensions of an array, *)
(* and c32_attr_to_byte says what a type takes.  In PASS1 the members get  *)
(* their offsets; in PASS3 the same text is read again and only the        *)
(* dimensions are set anew.                                                *)
(*                                                                         *)
(* The text is not fixed beforehand: PASS1 chooses the next item, unit     *)
(* keeps it, and PASS3 reads unit.                                         *)
(***************************************************************************)
EXTENDS Integers, Sequences, SequencesExt

CONSTANTS
  Tags,           \* the names of structures
  Names,          \* the names of members
  MAX_ARRAY_DIM,  \* dimensions of an array
  USHRT,          \* values of an unsigned short, which keeps a dimension
  INT,            \* values of an int
  Profiles        \* what one text may be made of

ASSUME WidthAssumption ==
  /\ MAX_ARRAY_DIM \in Nat
  /\ USHRT \in Nat \ {0}
  /\ INT \in Nat \ {0} /\ INT % 8 = 0

\* A type is a base, the tag of a structure, and a number of asterisks.
Types == [base : {"char", "short", "int", "struct"}, tag : Tags \cup {""}, ptr : Nat]
Empty == -1

\* The members and the variables a text may define.
ASSUME ProfilesAssumption ==
  \A p \in Profiles : \A shape \in p.shapes \cup p.vars :
    shape.type \in Types /\ shape.dims \in Seq(Nat \cup {Empty})

VARIABLES
  profile,      \* shapes and bounds of this text
  pass,         \* c32_pass
  c32_st_root,  \* the structures, with their members
  open,         \* the structure whose members are being read, 0 outside
  unit,         \* the items of the text
  next,         \* PASS3: the item to read
  err           \* the code c32_error_message stopped with

structVars == <<profile, pass, c32_st_root, open, unit, next, err>>

------------------------------------------------------------------------------
\* Types and sizes

\* The dimensions of an array are the numbers written, Empty for [].
Type(base, tag, ptr) == [base |-> base, tag |-> tag, ptr |-> ptr]

\* What an int keeps of n.
Word(n) == ((n + INT \div 2) % INT) - INT \div 2

Known(t) == \E s \in DOMAIN c32_st_root : c32_st_root[s].tag = t
StructOf(t) == CHOOSE s \in DOMAIN c32_st_root : c32_st_root[s].tag = t

IsStruct(type) == type.base = "struct" /\ type.ptr = 0

\* c32_attr_to_byte: of a structure, the size its table has now.
Bytes(type) ==
  CASE type.base = "int" \/ type.ptr > 0 -> 4
    [] type.base = "char" /\ type.ptr = 0 -> 1
    [] type.base = "short" /\ type.ptr = 0 -> 2
    [] IsStruct(type) -> c32_st_root[StructOf(type.tag)].size

Times(n, dims) ==
  LET product[k \in 0..Len(dims)] == IF k = 0 THEN n ELSE Word(product[k-1] * dims[k])
  IN product[Len(dims)]

\* xyz_size: 0 stands for [].
Dims(dims) == [k \in DOMAIN dims |-> IF dims[k] = Empty THEN 0 ELSE dims[k] % USHRT]

\* The dimensions c32_parser_array accepts: the value is looked at, not what is kept.
Accepted(dims) == Len(dims) <= MAX_ARRAY_DIM /\ \A k \in DOMAIN dims : dims[k] # 0

\* Mutant: members of two bytes follow without a gap.
RoundUpInts(n, bytes) ==
  IF bytes \in {1, 2} THEN n ELSE Word(4 * ((n + 3) \div 4))
\* n rounded up to where a member of so many bytes may be.
RoundUp(n, bytes) ==
  CASE bytes = 1 -> n
    [] bytes = 2 -> Word(2 * ((n + 1) \div 2))
    [] OTHER -> Word(4 * ((n + 3) \div 4))

------------------------------------------------------------------------------
\* Reading the text

Reading == err = "none" /\ pass \in {"PASS1", "PASS3"}

\* The next item of the text is x: any in PASS1, the one that was there in PASS3.
Read(x) ==
  \/ /\ pass = "PASS1"
     /\ unit' = Append(unit, x) /\ UNCHANGED next
  \/ /\ pass = "PASS3" /\ next <= Len(unit) /\ unit[next] = x
     /\ next' = next + 1 /\ UNCHANGED unit

Stop(e) == err' = e /\ UNCHANGED <<profile, pass, c32_st_root, open>>

\* struct t {
StructName(t) ==
  /\ Reading /\ open = 0
  /\ pass = "PASS1" => Len(c32_st_root) < profile.structs
  /\ Read([kind |-> "struct", tag |-> t])
  /\ \/ /\ pass = "PASS1" /\ Known(t) /\ Stop("multiple")
     \/ /\ pass = "PASS1" /\ ~Known(t)
        /\ c32_st_root' = Append(c32_st_root, [tag |-> t, elem |-> <<>>, size |-> 0])
        /\ open' = Len(c32_st_root) + 1
        /\ UNCHANGED <<profile, pass, err>>
     \/ /\ pass = "PASS3"
        /\ open' = StructOf(t)
        /\ UNCHANGED <<profile, pass, c32_st_root, err>>

Struct == c32_st_root[open]
HasMember(n) == \E k \in DOMAIN Struct.elem : Struct.elem[k].name = n
MemberOf(n) == CHOOSE k \in DOMAIN Struct.elem : Struct.elem[k].name = n

\* What c32_parser_array leaves in a symbol; without dimensions it is not called.
Sized(sym, dims) ==
  [sym EXCEPT !.dims = Dims(dims), !.size = Times(Bytes(sym.type), Dims(dims))]

\* PASS1 puts a member behind the others (at: its item in the text); PASS3 finds it and sets its dimensions.
Added(n, type, dims) ==
  LET at == RoundUp(Struct.size, Bytes(type))
      sym == Sized([name |-> n, type |-> type, dims |-> <<>>, size |-> 0, value |-> at,
                    at |-> Len(unit) + 1], dims)
  IN [c32_st_root EXCEPT ![open].elem = Append(@, sym), ![open].size = Word(at + sym.size)]
Again(n, dims) ==
  IF dims = <<>> THEN c32_st_root
  ELSE [c32_st_root EXCEPT ![open].elem[MemberOf(n)] = Sized(@, dims)]

\* type n dims ;  Without dimensions st_define takes any one token but [ for the ;
\* (int a, or int a }), and the item stands for all of these; behind dimensions it
\* must be a ;.  A structure that is defined here, struct t {...} n; , is read as if it
\* were defined in front of this one, which the code would know inside its braces.
Member(n, type, dims) ==
  LET multiple == pass = "PASS1" /\ HasMember(n)
      defined == type.base = "struct" => Known(type.tag)
  IN
  /\ Reading /\ open # 0
  /\ pass = "PASS1" => Len(Struct.elem) < profile.members
  /\ Read([kind |-> "member", name |-> n, type |-> type, dims |-> dims])
  /\ \/ ~defined /\ Stop("undefined")
     \/ defined /\ multiple /\ Stop("multiple")
     \/ defined /\ ~multiple /\ ~Accepted(dims) /\ Stop("syntax")
     \/ /\ defined /\ ~multiple /\ Accepted(dims)
        /\ c32_st_root' = IF pass = "PASS1" THEN Added(n, type, dims) ELSE Again(n, dims)
        /\ UNCHANGED <<profile, pass, open, err>>

\* Mutant: the size of a structure ends with its last member.
EndStructUnrounded ==
  /\ Reading /\ open # 0 /\ Struct.elem # <<>>
  /\ Read([kind |-> "end"])
  /\ open' = 0
  /\ UNCHANGED <<profile, pass, c32_st_root, err>>
\* };
EndStruct ==
  /\ Reading /\ open # 0 /\ Struct.elem # <<>>
  /\ Read([kind |-> "end"])
  /\ c32_st_root' = IF pass = "PASS1"
                    THEN [c32_st_root EXCEPT ![open].size = RoundUp(@, 4)]
                    ELSE c32_st_root
  /\ open' = 0
  /\ UNCHANGED <<profile, pass, err>>

------------------------------------------------------------------------------
\* main: the two passes

EndPass1 ==
  /\ Reading /\ pass = "PASS1" /\ open = 0
  /\ pass' = "PASS3" /\ next' = 1
  /\ UNCHANGED <<profile, c32_st_root, open, unit, err>>

EndPass3 ==
  /\ Reading /\ pass = "PASS3" /\ open = 0 /\ next > Len(unit)
  /\ pass' = "DONE"
  /\ UNCHANGED <<profile, c32_st_root, open, unit, next, err>>

------------------------------------------------------------------------------
\* The specification

StructInit ==
  /\ profile \in Profiles
  /\ pass = "PASS1" /\ c32_st_root = <<>> /\ open = 0
  /\ unit = <<>> /\ next = 1 /\ err = "none"

Definition ==
  \/ \E t \in Tags : StructName(t)
  \/ \E n \in Names, shape \in profile.shapes : Member(n, shape.type, shape.dims)
  \/ EndStruct

StructNext == Definition \/ EndPass1 \/ EndPass3
StructSpec == StructInit /\ [][StructNext]_structVars

------------------------------------------------------------------------------
\* Properties

\* The members up to k all have their sizes, and no sum of them leaves an int.
Measured(s, k) ==
  \A l \in 1..k :
    LET e == c32_st_root[s].elem[l] IN
    /\ 0 \notin Range(Dims(unit[e.at].dims))
    /\ IsStruct(e.type) => e.type.tag # c32_st_root[s].tag
    /\ e.value >= 0 /\ e.size >= 0 /\ e.value + e.size + 3 < INT \div 2

\* Members lie apart, in the order of their definition, each has all the bytes its
\* type takes now (the compiler reads and fills it by that type) and lies at a
\* multiple of 1, 2 or 4 as its type asks, and all end inside the structure, whose
\* size keeps an array of it aligned; for the members up to one that is an array
\* without a size, or is the structure itself.
MembersApart ==
  \A s \in DOMAIN c32_st_root : \A k \in DOMAIN c32_st_root[s].elem :
    Measured(s, k) =>
      LET e == c32_st_root[s].elem IN
      /\ e[k].size = Times(Bytes(e[k].type), e[k].dims)
      /\ e[k].value % (IF Bytes(e[k].type) \in {1, 2} THEN Bytes(e[k].type) ELSE 4) = 0
      /\ \A l \in 1..k-1 : e[l].value + e[l].size <= e[k].value
      /\ k = Len(e) => e[k].value + e[k].size <= c32_st_root[s].size
      /\ s # open => c32_st_root[s].size % 4 = 0
===============================================================================
