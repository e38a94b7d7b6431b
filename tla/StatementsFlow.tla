----------------------------- MODULE StatementsFlow -----------------------------
(***************************************************************************)
(* What the generated code of Statements does, against what the program    *)
(* means.  Both are functions from a point where an expression has just    *)
(* been evaluated, and its value, to the next expression evaluated: for    *)
(* the code, by following its labels and jumps; for the program, by the    *)
(* rules of C for its statements.                                          *)
(***************************************************************************)
EXTENDS Statements

\* Values of an expression: false, each case constant, and another one.
Values == {0, -1} \cup {nodes[i].arg : i \in {j \in DOMAIN nodes : nodes[j].kind = "case"}}

Returned == <<0, "return">>
Diverged == <<0, "loop">>       \* a loop without an expression
Undefined == <<0, "undefined">> \* no such label

------------------------------------------------------------------------------
\* The code.  eax keeps its value through labels and jumps.

RECURSIVE RunCode(_, _, _)
JumpTo(l, eax, fuel) ==
  IF Defined(l) = {} THEN Undefined
  ELSE RunCode(CHOOSE i \in Defined(l) : TRUE, eax, fuel)
RunCode(i, eax, fuel) ==
  LET it == code[i]
      taken == \/ it.op = "jmp"
               \/ it.op = "jz" /\ eax = 0
               \/ it.op = "jnz" /\ eax # 0
               \/ it.op = "cmp" /\ eax # it.arg
  IN
  CASE fuel = 0 -> Diverged
    [] fuel > 0 /\ it.op = "ret" -> Returned
    [] fuel > 0 /\ it.op = "obs" -> it.at
    [] fuel > 0 /\ taken -> JumpTo(it.label, eax, fuel - 1)
    [] OTHER -> RunCode(i + 1, eax, fuel - 1)

CodeFrom(i, eax) == RunCode(i, eax, 2 * Len(code))

------------------------------------------------------------------------------
\* The program

Body(p, part) == {m \in DOMAIN nodes : nodes[m].parent = p /\ nodes[m].part = part}
FirstOf(S) == CHOOSE m \in S : \A k \in S : m <= k
Later(n) == {m \in Body(nodes[n].parent, nodes[n].part) : m > n}

RECURSIVE Around(_, _)
Around(n, kinds) ==
  LET p == nodes[n].parent IN IF nodes[p].kind \in kinds THEN p ELSE Around(p, kinds)
FunctionOf(n) == Around(n, {"function"})

GotoLabels(n) ==
  {m \in DOMAIN nodes : nodes[m].kind = "label" /\ nodes[m].arg = nodes[n].arg
                          /\ FunctionOf(m) = FunctionOf(n)}
CasesOf(n, v) ==
  {m \in DOMAIN nodes : nodes[m].kind = "case" /\ nodes[m].arg = v
                          /\ Around(m, {"switch", "function"}) = n}
DefaultsOf(n) ==
  {m \in DOMAIN nodes : nodes[m].kind = "default" /\ Around(m, {"switch", "function"}) = n}

RECURSIVE Enter(_, _), After(_, _), EnterBody(_, _, _), LeaveBody(_, _), Again(_, _)

\* The test of a for is left out if there is none.
ForTest(n, fuel) ==
  IF "b" \in nodes[n].form THEN <<n, "b">> ELSE EnterBody(n, "body", fuel)

\* Control reaches statement n.
Enter(n, fuel) ==
  LET kind == nodes[n].kind
      arg == nodes[n].arg
  IN
  CASE fuel = 0 -> Diverged
    [] fuel > 0 /\ kind \in {"expr", "asm"} -> <<n, "x">>
    [] fuel > 0 /\ kind = "return" -> IF arg = 1 THEN <<n, "x">> ELSE Returned
    [] fuel > 0 /\ kind \in {"empty", "case", "default", "label"} -> After(n, fuel - 1)
    [] fuel > 0 /\ kind = "goto" ->
         IF GotoLabels(n) = {} THEN Undefined
         ELSE After(FirstOf(GotoLabels(n)), fuel - 1)
    [] fuel > 0 /\ kind = "break" -> After(Around(n, Loops \cup {"switch"}), fuel - 1)
    [] fuel > 0 /\ kind = "continue" -> Again(Around(n, Loops), fuel - 1)
    [] fuel > 0 /\ kind \in {"if", "while", "switch"} -> <<n, "test">>
    [] fuel > 0 /\ kind = "do" -> EnterBody(n, "body", fuel - 1)
    [] fuel > 0 /\ kind = "for" ->
         IF "a" \in nodes[n].form THEN <<n, "a">> ELSE ForTest(n, fuel - 1)

\* Statement n is done.
After(n, fuel) ==
  IF Later(n) # {} THEN Enter(FirstOf(Later(n)), fuel)
  ELSE LeaveBody(nodes[n].parent, fuel)

EnterBody(p, part, fuel) ==
  IF Body(p, part) # {} THEN Enter(FirstOf(Body(p, part)), fuel)
  ELSE IF fuel = 0 THEN Diverged ELSE LeaveBody(p, fuel - 1)

LeaveBody(p, fuel) ==
  CASE nodes[p].kind = "function" -> Returned
    [] nodes[p].kind \in Loops -> Again(p, fuel)
    [] nodes[p].kind \in {"if", "switch"} -> After(p, fuel)

\* The next round of a loop.
Again(n, fuel) ==
  CASE nodes[n].kind \in {"while", "do"} -> <<n, "test">>
    [] nodes[n].kind = "for" ->
         IF "c" \in nodes[n].form THEN <<n, "c">> ELSE ForTest(n, fuel)

\* A switch goes on after the case label with its value, else after default.
Select(n, v, fuel) ==
  IF CasesOf(n, v) # {} THEN After(FirstOf(CasesOf(n, v)), fuel)
  ELSE IF DefaultsOf(n) # {} THEN After(FirstOf(DefaultsOf(n)), fuel)
  ELSE After(n, fuel)

\* The expression at <<n, part>> has the value v.
Choose(n, part, v, fuel) ==
  LET kind == nodes[n].kind IN
  CASE part = "x" -> IF kind = "return" THEN Returned ELSE After(n, fuel)
    [] part \in {"a", "c"} -> ForTest(n, fuel)
    [] part = "b" -> IF v # 0 THEN EnterBody(n, "body", fuel) ELSE After(n, fuel)
    [] part = "test" /\ kind = "if" ->
         EnterBody(n, IF v # 0 THEN "body" ELSE "else", fuel)
    [] part = "test" /\ kind \in {"while", "do"} ->
         IF v # 0 THEN EnterBody(n, "body", fuel) ELSE After(n, fuel)
    [] part = "test" /\ kind = "switch" -> Select(n, v, fuel)

Fuel == 2 * Len(nodes) + 2

------------------------------------------------------------------------------
\* A complete function runs as it is written: from every expression, with every
\* value, the code goes on where the program does.
FlowCorrect ==
  Complete =>
    \A i \in DOMAIN code :
      /\ code[i].op = "obs" =>
           \A v \in Values :
             CodeFrom(i + 1, v) = Choose(code[i].at[1], code[i].at[2], v, Fuel)
      /\ code[i].op = "def" /\ code[i].label.kind = "func" =>
           CodeFrom(i + 1, 0) = EnterBody(code[i].label.numb, "body", Fuel)
===============================================================================
