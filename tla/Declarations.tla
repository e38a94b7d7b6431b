----------------------------- MODULE Declarations ------------------------------
(***************************************************************************)
(* The symbol tables of banana-c32 and the two passes that use them.  In   *)
(* PASS1 the declarations fill tbl_g and the variable_tbl of each function *)
(* (parser_char_short_int, parser_function, parser_auto_variable_reg);     *)
(* then variable_addr_cal lays out every function (FrameLayout); in PASS3  *)
(* the same functions read the same text again, find what is registered,   *)
(* and print the code.                                                     *)
(*                                                                         *)
(* The translation unit is not fixed beforehand: PASS1 chooses the next    *)
(* item, unit keeps it, and PASS3 reads unit.                              *)
(***************************************************************************)
EXTENDS FrameLayout, Sequences

CONSTANTS
  Names,               \* identifiers
  MAX_SYMBOL_TABLE_G,  \* symbols of the program that tbl_g has room for
  Addresses,           \* what the low half of a pointer may hold
  MAX_PARAM,           \* bound: arguments of a call
  MaxUnit              \* bound: items of the translation unit

ASSUME TablesAssumption ==
  /\ MAX_SYMBOL_TABLE_G \in Nat /\ MAX_PARAM \in Nat /\ MaxUnit \in Nat
  /\ Addresses \subseteq 0..USHRT-1

VARIABLES
  pass,    \* c32_pass; "LAYOUT" is variable_addr_cal between the two
  tbl_g,   \* the global symbol table, without the reserved words
  func,    \* the slot of the function being parsed or laid out, 0 outside
  where,   \* what is being parsed: the top level, a parameter list, a body
  unit,    \* the items of the translation unit
  next,    \* PASS3: the item to read; LAYOUT: the slot of tbl_g to look at
  first,   \* what PASS1 took the name of each item for
  code,    \* what PASS3 printed
  err      \* the code c32_error_message stopped with

declVars == <<pass, tbl_g, func, where, unit, next, first, code, err>>
vars == <<pass, tbl_g, func, where, unit, next, first, code, err, layoutVars>>

------------------------------------------------------------------------------
\* Symbols

Var(n, auto, t) == [name |-> n, auto |-> auto, type |-> t, value |-> 0]

\* A symbol of tbl_g: isfunc is ATTR_FUNC, body FLAG_40, vars and the rest func_tbl.
\* overrun says that a pointer was written behind variable_tbl, on auto_size and on
\* variable_tbl_cnt (pointers have four bytes, banana-c32.h:239).
NoTable == [vars |-> <<>>, auto_size |-> 0, param_numb |-> 0, overrun |-> FALSE]
Variable(n) == [name |-> n, isfunc |-> FALSE, body |-> FALSE, table |-> NoTable]

IsGlobal(n) == \E k \in DOMAIN tbl_g : tbl_g[k].name = n
GlobalSlot(n) == CHOOSE k \in DOMAIN tbl_g : tbl_g[k].name = n
IsFunction(n) == IsGlobal(n) /\ tbl_g[GlobalSlot(n)].isfunc
Table == tbl_g[func].table

\* Mutant: the loop of c32_sym_search_auto ends one too early.
IsLocalNotLast(n) == \E k \in 1..Len(Table.vars)-1 : Table.vars[k].name = n
\* c32_sym_search_auto, then c32_sym_search_all.
IsLocal(n) == \E k \in DOMAIN Table.vars : Table.vars[k].name = n
Resolve(n) == IF IsLocal(n) THEN "local"
              ELSE IF IsGlobal(n) THEN (IF IsFunction(n) THEN "function" ELSE "global")
              ELSE "undefined"

\* The next item of the text is x: any in PASS1, the one that was there in PASS3.
Read(x, as) ==
  \/ /\ pass = "PASS1" /\ Len(unit) < MaxUnit
     /\ unit' = Append(unit, x) /\ first' = Append(first, as)
     /\ UNCHANGED next
  \/ /\ pass = "PASS3" /\ next <= Len(unit) /\ unit[next] = x
     /\ next' = next + 1
     /\ UNCHANGED <<unit, first>>

Item(kind, n) == [kind |-> kind, name |-> n]
Parsing(place) == err = "none" /\ where = place /\ pass \in {"PASS1", "PASS3"}

\* c32_printf: nothing in PASS1.
Emit(entries) == code' = IF pass = "PASS3" THEN code \o entries ELSE code
Label(n) == <<[what |-> "label", name |-> n, arg |-> 0, at |-> next]>>
Access(n, as) == <<[what |-> as, name |-> n, arg |-> 0, at |-> next]>>
CallOf(n, a) == <<[what |-> "call", name |-> n, arg |-> a, at |-> next]>>

Stop(e) == err' = e /\ UNCHANGED <<pass, tbl_g, func, where, code>>

------------------------------------------------------------------------------
\* The top level: parser_char_short_int

\* Mutant: a name that is registered as a variable is taken again.
RegisterAgain(n) ==
  IF IsGlobal(n) THEN "old"
  ELSE IF Len(tbl_g) >= MAX_SYMBOL_TABLE_G THEN "memory" ELSE "new"
\* PASS1 looks the name up: only a function may be declared again.
Register(n) ==
  IF IsGlobal(n) THEN (IF IsFunction(n) THEN "old" ELSE "multiple")
  ELSE IF Len(tbl_g) >= MAX_SYMBOL_TABLE_G THEN "memory" ELSE "new"

\* int n;  int n[...];  with or without initial values.
GlobalVariable(n) ==
  /\ Parsing("top")
  /\ Read(Item("variable", n), "global")
  /\ LET r == IF pass = "PASS1" THEN Register(n) ELSE "old"
     IN \/ /\ r \in {"multiple", "memory"} /\ Stop(r)
        \/ /\ r \in {"old", "new"}
           /\ tbl_g' = IF r = "new" THEN Append(tbl_g, Variable(n)) ELSE tbl_g
           /\ Emit(Label(n))
           /\ UNCHANGED <<pass, func, where, err>>
  /\ UNCHANGED layoutVars

\* Mutants: PASS3 empties the table as well; or PASS1 does not.
FuncTableAlways(t) == NoTable
FuncTableNever(t) == t
FuncTable(t) == IF pass = "PASS1" THEN NoTable ELSE t
AsFunction(s) == [name |-> s.name, isfunc |-> TRUE, body |-> FALSE, table |-> FuncTable(s.table)]

\* The name of a function is read: in PASS1 it gets an empty func_tbl, also when it
\* has been declared before, and flag1 is cleared in both passes.
FunctionName(n) ==
  /\ Parsing("top")
  /\ Read(Item("function", n), "function")
  /\ LET r == IF pass = "PASS1" THEN Register(n) ELSE "old"
         g == IF r = "new" THEN Append(tbl_g, Variable(n)) ELSE tbl_g
         f == CHOOSE k \in DOMAIN g : g[k].name = n
     IN \/ /\ r \in {"multiple", "memory"} /\ Stop(r)
        \/ /\ r \in {"old", "new"}
           /\ tbl_g' = [g EXCEPT ![f] = AsFunction(@)]
           /\ func' = f /\ where' = "params"
           /\ UNCHANGED <<pass, code, err>>
  /\ UNCHANGED layoutVars

------------------------------------------------------------------------------
\* Parameters and local variables

\* Mutant: the limit of variable_tbl is checked one too late.
LocalCheckLate(n) ==
  IF pass = "PASS3" THEN (IF IsLocal(n) THEN "found" ELSE "internal")
  ELSE IF IsLocal(n) THEN "multiple"
  ELSE IF Len(Table.vars) > MAX_VARIABLE THEN "memory" ELSE "new"
\* What comes of it: c32_sym_search_auto in PASS3; in PASS1 parser_auto_variable_reg,
\* which compares cnt with MAX_VARIABLE when it has written the entry.
LocalCheck(n) ==
  IF pass = "PASS3" THEN (IF IsLocal(n) THEN "found" ELSE "internal")
  ELSE IF IsLocal(n) THEN "multiple"
  ELSE IF Len(Table.vars) >= MAX_VARIABLE THEN "memory" ELSE "new"

\* The entry behind a full variable_tbl: the pointer lands on the fields behind it.
Overwrite(t, a) == [t EXCEPT !.auto_size = a, !.overrun = TRUE]

Local(x, n, auto, t) ==
  /\ Read(x, "local")
  /\ \/ /\ LocalCheck(n) \in {"internal", "multiple"} /\ Stop(LocalCheck(n))
     \/ /\ LocalCheck(n) = "memory"
        /\ \E a \in Addresses : tbl_g' = [tbl_g EXCEPT ![func].table = Overwrite(@, a)]
        /\ err' = "memory" /\ UNCHANGED <<pass, func, where, code>>
     \/ /\ LocalCheck(n) = "found"
        /\ UNCHANGED <<pass, tbl_g, func, where, code, err>>
     \/ /\ LocalCheck(n) = "new"
        /\ tbl_g' = [tbl_g EXCEPT ![func].table.vars = Append(@, Var(n, auto, t))]
        /\ UNCHANGED <<pass, func, where, code, err>>
  /\ UNCHANGED layoutVars

Parameter(n, t) ==
  /\ Parsing("params")
  /\ Local([kind |-> "param", name |-> n, type |-> t], n, FALSE, t)

AutoVariable(n, t) ==
  /\ Parsing("body")
  /\ Local([kind |-> "auto", name |-> n, type |-> t], n, TRUE, t)

\* );
Prototype ==
  /\ Parsing("params")
  /\ Read(Item("prototype", tbl_g[func].name), "none")
  /\ func' = 0 /\ where' = "top"
  /\ UNCHANGED <<pass, tbl_g, code, err, layoutVars>>

\* ){  The equ lines of the variables and the label of the function.
Body ==
  /\ Parsing("params")
  /\ Read(Item("body", tbl_g[func].name), "none")
  /\ IF pass = "PASS1" /\ tbl_g[func].body
       THEN Stop("multiple")
       ELSE /\ tbl_g' = IF pass = "PASS1" THEN [tbl_g EXCEPT ![func].body = TRUE] ELSE tbl_g
            /\ Emit(Label(tbl_g[func].name))
            /\ where' = "body"
            /\ UNCHANGED <<pass, func, err>>
  /\ UNCHANGED layoutVars

EndBody ==
  /\ Parsing("body")
  /\ Read(Item("end", tbl_g[func].name), "none")
  /\ func' = 0 /\ where' = "top"
  /\ UNCHANGED <<pass, tbl_g, code, err, layoutVars>>

------------------------------------------------------------------------------
\* Expressions of a body, as far as they name symbols: factor

\* A name alone: a variable.
Use(n) ==
  /\ Parsing("body")
  /\ Read(Item("use", n), Resolve(n))
  /\ \/ /\ Resolve(n) = "undefined" /\ Stop("undefined")
     \/ /\ Resolve(n) = "function" /\ Stop("l_kakko")
     \/ /\ Resolve(n) \in {"local", "global"}
        /\ Emit(Access(n, Resolve(n)))
        /\ UNCHANGED <<pass, tbl_g, func, where, err>>
  /\ UNCHANGED layoutVars

\* Mutant: PASS3 counts the arguments of a call like PASS1, not at all.
ArgumentsUncounted(n, a) == TRUE
\* expr_function_call in PASS3; expr_function_call_pass1 takes any number.
ArgumentsFit(n, a) == pass = "PASS3" => a = tbl_g[GlobalSlot(n)].table.param_numb

\* A name and arguments in parentheses.  One err stands for the three codes a wrong
\* number of arguments is refused with: E_R_KAKKO_MISSING where none is expected (59),
\* an error of the expression where one is missing, E_PARAM_NUMBER_ERROR otherwise (79).
Call(n, a) ==
  /\ Parsing("body")
  /\ Read([kind |-> "call", name |-> n, arg |-> a], Resolve(n))
  /\ \/ /\ Resolve(n) = "undefined" /\ Stop("undefined")
     \/ /\ Resolve(n) \in {"local", "global"} /\ Stop("to_be_define")
     \/ /\ Resolve(n) = "function" /\ ~ArgumentsFit(n, a) /\ Stop("param_number")
     \/ /\ Resolve(n) = "function" /\ ArgumentsFit(n, a)
        /\ Emit(CallOf(n, a))
        /\ UNCHANGED <<pass, tbl_g, func, where, err>>
  /\ UNCHANGED layoutVars

------------------------------------------------------------------------------
\* main: between the passes, variable_addr_cal

EndPass1 ==
  /\ Parsing("top") /\ pass = "PASS1"
  /\ pass' = "LAYOUT" /\ next' = 1
  /\ UNCHANGED <<tbl_g, func, where, unit, first, code, err, layoutVars>>

Laying == pass = "LAYOUT" /\ err = "none"

SkipVariable ==
  /\ Laying /\ next <= Len(tbl_g) /\ ~tbl_g[next].isfunc
  /\ next' = next + 1
  /\ UNCHANGED <<pass, tbl_g, func, where, unit, first, code, err, layoutVars>>

\* The symbols of a func_tbl, numbered from 0.
SymbolsOf(v) == [k \in Slots(Len(v)) |-> [auto |-> v[k+1].auto, type |-> v[k+1].type]]

CallLayout ==
  /\ Laying /\ next <= Len(tbl_g) /\ tbl_g[next].isfunc /\ func = 0
  /\ func' = next
  /\ LET v == tbl_g[next].table.vars
         s == Start(Len(v), SymbolsOf(v))
     IN cnt' = s.cnt /\ sym' = s.sym /\ tbl' = s.tbl /\ value' = s.value
  /\ pc' = "top" /\ i' = 0 /\ size' = 0 /\ auto_top' = 0 /\ auto_size' = 0 /\ param_numb' = 0
  /\ UNCHANGED <<pass, tbl_g, where, unit, next, first, code, err>>

LayoutStep == Laying /\ func # 0 /\ Next /\ UNCHANGED declVars

\* The table in its new order, with its offsets.
Arranged(v) == [k \in DOMAIN v |-> [v[tbl[k-1]+1] EXCEPT !.value = value[tbl[k-1]]]]
LaidOut(t) == [t EXCEPT !.vars = Arranged(@), !.auto_size = auto_size, !.param_numb = param_numb]

LayoutReturns ==
  /\ Laying /\ func # 0 /\ pc = "done"
  /\ tbl_g' = [tbl_g EXCEPT ![func].table = LaidOut(@)]
  /\ func' = 0 /\ next' = next + 1
  /\ UNCHANGED <<pass, where, unit, first, code, err, layoutVars>>

StartPass3 ==
  /\ Laying /\ next > Len(tbl_g)
  /\ pass' = "PASS3" /\ next' = 1
  /\ UNCHANGED <<tbl_g, func, where, unit, first, code, err, layoutVars>>

EndPass3 ==
  /\ Parsing("top") /\ pass = "PASS3" /\ next > Len(unit)
  /\ pass' = "DONE"
  /\ UNCHANGED <<tbl_g, func, where, unit, next, first, code, err, layoutVars>>

------------------------------------------------------------------------------
\* The specification

DeclInit ==
  /\ pass = "PASS1" /\ tbl_g = <<>> /\ func = 0 /\ where = "top"
  /\ unit = <<>> /\ next = 1 /\ first = <<>> /\ code = <<>> /\ err = "none"
  /\ cnt = 0 /\ sym = Start(0, SymbolsOf(<<>>)).sym
  /\ tbl = Start(0, sym).tbl /\ value = Start(0, sym).value
  /\ Fresh

DeclNext ==
  \/ \E n \in Names :
       \/ GlobalVariable(n) \/ FunctionName(n) \/ Use(n)
       \/ \E t \in Types : Parameter(n, t) \/ AutoVariable(n, t)
       \/ \E a \in 0..MAX_PARAM : Call(n, a)
  \/ Prototype \/ Body \/ EndBody
  \/ EndPass1 \/ SkipVariable \/ CallLayout \/ LayoutStep \/ LayoutReturns
  \/ StartPass3 \/ EndPass3

DeclSpec == DeclInit /\ [][DeclNext]_vars

------------------------------------------------------------------------------
\* The text, as C reads it

Largest(S) == CHOOSE k \in S : \A l \in S : l <= k
Smallest(S) == CHOOSE k \in S : \A l \in S : k <= l

\* The declarations of function n, by the item of its name; the one that item p
\* belongs to; its last item.
DeclarationsOf(n) == {d \in DOMAIN unit : unit[d].kind = "function" /\ unit[d].name = n}
DeclarationAt(p) == Largest({d \in 1..p : unit[d].kind = "function"})
EndOf(d) ==
  Smallest({e \in d..Len(unit) : unit[e].kind \in {"prototype", "end"}} \cup {Len(unit)})

DeclaresAt(e, n) == unit[e].kind \in {"param", "auto"} /\ unit[e].name = n

------------------------------------------------------------------------------
\* Properties

Kept(v) == v \in [name : Names, auto : BOOLEAN, type : Types, value : Nat]

\* The type invariant.  No table has more symbols than it has room for, and the entry
\* behind a full one, which is written before the room is checked, is written only by
\* the step the compiler stops in: no step goes on with the auto_size and the count it
\* has destroyed.
DeclTypeOK ==
  /\ pass \in {"PASS1", "LAYOUT", "PASS3", "DONE"}
  /\ Len(tbl_g) <= MAX_SYMBOL_TABLE_G
  /\ \A k \in DOMAIN tbl_g :
       /\ tbl_g[k].name \in Names /\ tbl_g[k].isfunc \in BOOLEAN /\ tbl_g[k].body \in BOOLEAN
       /\ Len(tbl_g[k].table.vars) <= MAX_VARIABLE
       /\ \A l \in DOMAIN tbl_g[k].table.vars : Kept(tbl_g[k].table.vars[l])
       /\ tbl_g[k].table.auto_size \in 0..USHRT-1
       /\ tbl_g[k].table.param_numb \in 0..MAX_VARIABLE
       /\ tbl_g[k].table.overrun =>
            /\ pass = "PASS1" /\ err = "memory" /\ k = func
            /\ Len(tbl_g[k].table.vars) = MAX_VARIABLE
  /\ \A k, l \in DOMAIN tbl_g : tbl_g[k].name = tbl_g[l].name => k = l
  /\ func \in 0..Len(tbl_g) /\ (where # "top" => func # 0)
  /\ where \in {"top", "params", "body"}
  /\ Len(unit) <= MaxUnit /\ Len(first) = Len(unit)
  /\ next \in 1..Len(unit) + Len(tbl_g) + 1
  /\ err \in {"none", "multiple", "memory", "internal", "undefined", "l_kakko",
              "to_be_define", "param_number"}

\* PASS3 looks for a parameter or local variable that PASS1 did not leave in the
\* table only when the function is declared again further down, without that name:
\* the table of a function is the one of its last declaration.
SymbolsFound ==
  err = "internal" =>
    \E d \in DeclarationsOf(tbl_g[func].name) :
      /\ d > next - 1
      /\ ~ \E e \in d..EndOf(d) : DeclaresAt(e, unit[next-1].name)

\* A label is printed twice only for a function that has two bodies or is declared
\* as a variable as well, which PASS1 does not refuse.
LabelsOnce ==
  \A k, l \in DOMAIN code :
    /\ k < l /\ code[k].what = "label" /\ code[l].what = "label"
    /\ code[k].name = code[l].name
    => \A d \in {code[k].at, code[l].at} :
         /\ unit[d].kind \in {"body", "variable"}
         /\ DeclarationsOf(code[k].name) # {}

\* PASS3 makes code for the variable PASS1 found under the name, unless the
\* function declares the name after it has been used, there or when it is declared
\* again.
UsesAgree ==
  \A k \in DOMAIN code :
    LET p == code[k].at IN
    code[k].what \in {"local", "global"} =>
      \/ code[k].what = first[p]
      \/ \E e \in p+1..Len(unit) :
           /\ DeclaresAt(e, code[k].name)
           /\ unit[DeclarationAt(e)].name = unit[DeclarationAt(p)].name

\* A call passes one argument for each parameter of the body of the function, which
\* are the items between its name and its body, and the frame has the k-th of them in
\* slot k, where the k-th argument lies, also when the function was declared otherwise
\* before: the body need only be the last declaration.  The offset is the right one
\* unless the frame is so large that auto_size, a ushort, does not hold its size.
CallsMatchBody ==
  \A k \in DOMAIN code :
    code[k].what = "call" =>
      LET n == code[k].name
          d == Largest(DeclarationsOf(n))
          t == tbl_g[GlobalSlot(n)].table
      IN \A b \in d..EndOf(d) :
           unit[b].kind = "body" =>
             /\ code[k].arg = b - d - 1
             /\ \A l \in 1..code[k].arg :
                  /\ unit[d + l].kind = "param" /\ t.vars[l].name = unit[d + l].name
                  /\ t.vars[l].value < USHRT =>
                       t.vars[l].value = t.auto_size + 4 + 2 + 4 * (l - 1)

\* What an item defines a second time: the name of a variable or function, when one
\* of the two is a variable; the body of a function; a name of the same declaration of
\* a function.
SameName(p, q) == unit[p].name = unit[q].name
Second(p) ==
  LET earlier(kinds) == {q \in 1..p-1 : SameName(p, q) /\ unit[q].kind \in kinds} IN
  CASE unit[p].kind = "variable" -> earlier({"variable", "function"}) # {}
    [] unit[p].kind = "function" -> earlier({"variable"}) # {}
    [] unit[p].kind = "body" -> earlier({"body"}) # {}
    [] unit[p].kind \in {"param", "auto"} ->
         \E q \in DeclarationAt(p)..p-1 : DeclaresAt(q, unit[p].name)
    [] OTHER -> FALSE
\* Those PASS1 lets through: a second body, for the flag 1068 looks at is cleared by
\* 1392 in front of each declaration; a variable beside a function of its name, unless
\* the variable comes first (1362 looks at ATTR_FUNC alone).
LetThrough(p) ==
  \/ unit[p].kind = "body"
  \/ /\ unit[p].kind \in {"variable", "function"}
     /\ \E d \in DeclarationsOf(unit[p].name) : \A q \in 1..d :
          SameName(p, q) => unit[q].kind # "variable"
Refused(p) == pass = "PASS1" /\ err = "multiple" /\ p = Len(unit)
Defines(p) == unit[p].kind \in {"variable", "body"}
Labelled(p) == \E k \in DOMAIN code : code[k].what = "label" /\ code[k].at = p
                                       /\ code[k].name = unit[p].name

\* No name is defined twice without a refusal.  PASS1 refuses an item exactly when
\* it is a second definition, but for those it lets through; of these PASS3 prints
\* the label of each definition, so that the assembler has a label twice and refuses
\* it.  (A variable beside a function without a body has one definition.)
RefusedTwice ==
  /\ \A p \in DOMAIN unit : Refused(p) <=> Second(p) /\ ~LetThrough(p)
  /\ pass = "DONE" => \A p, q \in DOMAIN unit :
       p < q /\ Defines(p) /\ Defines(q) /\ SameName(p, q) => Labelled(p) /\ Labelled(q)
==============================================================================
