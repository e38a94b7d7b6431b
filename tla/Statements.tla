------------------------------- MODULE Statements -------------------------------
(***************************************************************************)
(* The statement parser of banana-c32 and the labels it generates:         *)
(* parser_function_block_single and the functions it calls for each        *)
(* statement, in PASS3 (in PASS1 the same steps are taken and c32_printf   *)
(* prints nothing).                                                        *)
(*                                                                         *)
(* The parser is recursive: frames is its C call stack, one entry for each *)
(* compound statement that is open.  The program is not fixed beforehand:  *)
(* the next statement is chosen when the parser looks for it, and nodes is *)
(* the program read so far, each statement with the one it belongs to.     *)
(***************************************************************************)
EXTENDS Integers, Sequences

CONSTANTS
  FirstLabel,   \* c32_label_counter when the first function is reached
  ExprLabels,   \* how many labels the code of one expression may use
  CaseValues,   \* constants of case labels
  UserLabels,   \* goto labels of the program
  Programs,     \* kinds of statements a program is made of, and how many it has
  ForForms,     \* which of a, b, c a for(a;b;c) may have
  Dialect,      \* C the programs may use beyond what the compiler can do
  MaxNodes,     \* bound: statements and functions of the program
  MaxDepth      \* bound: compound statements open at a time

Loops == {"for", "while", "do"}
Compound == Loops \cup {"switch", "if"}
Statement == Compound \cup
  {"expr", "empty", "asm", "return", "goto", "label", "break", "continue", "case", "default"}

\* break_in_do: a break that leaves a do loop.
\* fall_into_case: control runs into a case label from the statement before it.
\* nested_case: a case or default label inside a statement of the switch body.
ASSUME ConstantsAssumption ==
  /\ FirstLabel \in Nat
  /\ ExprLabels \subseteq Nat
  /\ CaseValues \subseteq Nat \ {0}
  /\ UserLabels \subseteq Nat
  /\ \A p \in Programs : p.kinds \subseteq Statement /\ p.size \in Nat
  /\ ForForms \subseteq SUBSET {"a", "b", "c"}
  /\ Dialect \subseteq {"break_in_do", "fall_into_case", "nested_case"}
  /\ MaxNodes \in Nat /\ MaxDepth \in Nat

VARIABLES
  label_counter,  \* c32_label_counter
  frames,         \* the open statements, innermost last
  code,           \* the generated code: label definitions, jumps, observations
  nodes,          \* the program read so far
  no_else,        \* the next token is known not to be else
  err             \* the code c32_error_message stopped with

vars == <<label_counter, frames, code, nodes, no_else, err>>

------------------------------------------------------------------------------
\* Labels and code

Plain(n) == [kind |-> "L", numb |-> n, serial |-> 0]         \* "L%d"
CaseLabel(n, s) == [kind |-> "case", numb |-> n, serial |-> s]  \* "L%d@%d"
DefaultLabel(n) == [kind |-> "default", numb |-> n, serial |-> 0]
UserLabel(f, u) == [kind |-> "user", numb |-> f, serial |-> u]  \* "%s@%s"
FuncLabel(f) == [kind |-> "func", numb |-> f, serial |-> 0]

NoLabel == [kind |-> "none", numb |-> 0, serial |-> 0]
Item(op, label, arg, at) == [op |-> op, label |-> label, arg |-> arg, at |-> at]

Def(l) == Item("def", l, 0, <<0, "">>)
Jmp(l) == Item("jmp", l, 0, <<0, "">>)
Jz(l) == Item("jz", l, 0, <<0, "">>)
Jnz(l) == Item("jnz", l, 0, <<0, "">>)
CmpJnz(v, l) == Item("cmp", l, v, <<0, "">>)
Ret == Item("ret", NoLabel, 0, <<0, "">>)

\* The code of one expression of statement n, with the k labels it uses.  It
\* leaves its value in eax.
Obs(n, part) == Item("obs", NoLabel, 0, <<n, part>>)
ExprCode(n, part, first, k) ==
  <<Obs(n, part)>> \o [i \in 1..k |-> Def(Plain(first + i - 1))]

------------------------------------------------------------------------------
\* The stack of the parser

NONE == -100

\* struct numb_param of a function body: nothing to break out of.
NoNumb == [break |-> NONE, continue |-> NONE, switch |-> NONE, serial |-> NONE,
           default |-> FALSE]

\* The labels a statement keeps beside its numb_param.
NoLabels == [top |-> NONE, false |-> NONE, end |-> NONE]

\* An open statement: its node, its own numb_param (an if has none and passes on
\* its caller's), its other labels, and its body: in braces ("many" statements),
\* one statement still to come, or complete ("none").
Frame(kind, node, numb, labels, left) ==
  [kind |-> kind, node |-> node, numb |-> numb, labels |-> labels,
   left |-> left, part |-> "body"]

Top == frames[Len(frames)]
LeftOf(braces) == IF braces THEN "many" ELSE "one"

\* The frame whose numb_param is passed down to the current statement.
IsOwner(i) == i \in DOMAIN frames /\ frames[i].kind # "if"
                /\ \A j \in i+1..Len(frames) : frames[j].kind = "if"
Owner == CHOOSE i \in DOMAIN frames : IsOwner(i)
Numb == frames[Owner].numb

\* The innermost statement a break leaves.
Breakable == {i \in DOMAIN frames : frames[i].kind \in Loops \cup {"switch"}}
BreaksDo ==
  \E i \in Breakable : frames[i].kind = "do" /\ \A j \in Breakable : j <= i

\* The statement read is the last one of a body without braces.
Used(f) == [f EXCEPT !.left = IF f.left = "one" THEN "none" ELSE f.left]
Consumed == [frames EXCEPT ![Len(frames)] = Used(Top)]

\* One of the programs goes on with a statement of this kind.
Occurs(kind) ==
  \E p \in Programs :
    /\ Len(nodes) < p.size
    /\ \A k \in {kind} \cup {nodes[i].kind : i \in DOMAIN nodes} : k \in p.kinds \cup {"function"}

\* A statement starts here.
Reads(kind) ==
  /\ err = "none" /\ Occurs(kind)
  /\ frames # <<>> /\ Top.left # "none" /\ Len(nodes) < MaxNodes

Node(kind, arg, form) ==
  [kind |-> kind, parent |-> Top.node, part |-> Top.part, arg |-> arg, form |-> form]
NewNode == Len(nodes) + 1

\* A simple statement is read, and this code is generated for it.
Simple(kind, arg, items) ==
  /\ Reads(kind)
  /\ nodes' = Append(nodes, Node(kind, arg, {}))
  /\ frames' = Consumed
  /\ code' = code \o items
  /\ no_else' = FALSE
  /\ UNCHANGED err

\* Mutant: a statement that opens a body is not the one its caller waits for.
OpenUncounted(kind, form, numb, labels, left, items) ==
  /\ Reads(kind) /\ Len(frames) < MaxDepth
  /\ nodes' = Append(nodes, Node(kind, 0, form))
  /\ frames' = Append(frames, Frame(kind, NewNode, numb, labels, left))
  /\ code' = code \o items
  /\ no_else' = FALSE
  /\ UNCHANGED err

\* A compound statement is opened.
Open(kind, form, numb, labels, left, items) ==
  /\ Reads(kind) /\ Len(frames) < MaxDepth
  /\ nodes' = Append(nodes, Node(kind, 0, form))
  /\ frames' = Append(Consumed, Frame(kind, NewNode, numb, labels, left))
  /\ code' = code \o items
  /\ no_else' = FALSE
  /\ UNCHANGED err

Halt(e) == err' = e /\ UNCHANGED <<label_counter, frames, code, nodes, no_else>>

------------------------------------------------------------------------------
\* Statements without a body

ExprStatement == \E k \in ExprLabels :
  /\ Simple("expr", 0, ExprCode(NewNode, "x", label_counter, k))
  /\ label_counter' = label_counter + k

\* ';' and declarations of auto variables.
Empty == Simple("empty", 0, <<>>) /\ UNCHANGED label_counter

Asm ==
  /\ Simple("asm", 0, <<Obs(NewNode, "x"), Def(Plain(label_counter))>>)
  /\ label_counter' = label_counter + 1

Return ==
  \/ Simple("return", 0, <<Ret>>) /\ UNCHANGED label_counter
  \/ \E k \in ExprLabels :
       /\ Simple("return", 1, Append(ExprCode(NewNode, "x", label_counter, k), Ret))
       /\ label_counter' = label_counter + k

Function == frames[1].node

\* The programs have their labels in braces, before the statement they label.
InBraces == Top.left = "many"

Goto == \E u \in UserLabels :
  /\ Reads("goto")
  /\ Simple("goto", u, <<Jmp(UserLabel(Function, u))>>) /\ UNCHANGED label_counter
Label == \E u \in UserLabels :
  /\ Reads("label") /\ InBraces
  /\ Simple("label", u, <<Def(UserLabel(Function, u))>>) /\ UNCHANGED label_counter

Continue ==
  \/ /\ Reads("continue") /\ Numb.continue >= 0
     /\ Simple("continue", 0, <<Jmp(Plain(Numb.continue))>>) /\ UNCHANGED label_counter
  \/ Reads("continue") /\ Numb.continue < 0 /\ Halt("E_ILLEGAL_CONTINUE")

Break ==
  /\ BreaksDo => "break_in_do" \in Dialect
  /\ \/ /\ Reads("break") /\ Numb.break >= 0
        /\ Simple("break", 0, <<Jmp(Plain(Numb.break))>>) /\ UNCHANGED label_counter
     \/ Reads("break") /\ Numb.break < 0 /\ Halt("E_ILLEGAL_BREAK")

------------------------------------------------------------------------------
\* case and default

\* The statements of the body being read, and those that never run on into the
\* next one.
Siblings == {n \in DOMAIN nodes : nodes[n].parent = Top.node /\ nodes[n].part = Top.part}
FallsThrough ==
  \E n \in Siblings :
    /\ \A m \in Siblings : m <= n
    /\ nodes[n].kind \notin {"break", "continue", "return", "goto"}

\* The program is legal C of the dialect: labels belong to the switch body, with
\* no value twice and one default.
MayLabel ==
  /\ InBraces
  /\ Top.kind # "switch" /\ Numb.switch >= 0 => "nested_case" \in Dialect
MayCase(v) ==
  /\ MayLabel
  /\ Top.kind = "switch" /\ FallsThrough => "fall_into_case" \in Dialect
  /\ \A i \in DOMAIN code :
       code[i].op = "cmp" /\ code[i].label.numb = Numb.switch => code[i].arg # v
MayDefault ==
  /\ MayLabel
  /\ \A i \in DOMAIN code : code[i].label # DefaultLabel(Numb.switch)

\* Mutant: serial_numb is counted up in a copy.
CaseNotCounted == \E v \in CaseValues :
  LET n == Numb.switch
      s == Numb.serial
  IN
  /\ Reads("case") /\ MayCase(v) /\ n >= 0
  /\ nodes' = Append(nodes, Node("case", v, {}))
  /\ frames' = Consumed
  /\ code' = code \o <<Def(CaseLabel(n, s)), CmpJnz(v, CaseLabel(n, s + 1))>>
  /\ no_else' = FALSE
  /\ UNCHANGED <<label_counter, err>>

\* The case label of this switch, and the jump to the next one; serial_numb is
\* counted up in the numb_param the statement was called with.
Case == \E v \in CaseValues :
  LET n == Numb.switch
      s == Numb.serial
  IN
  /\ Reads("case") /\ MayCase(v)
  /\ \/ /\ n >= 0
        /\ nodes' = Append(nodes, Node("case", v, {}))
        /\ frames' = [Consumed EXCEPT ![Owner].numb.serial = s + 1]
        /\ code' = code \o <<Def(CaseLabel(n, s)), CmpJnz(v, CaseLabel(n, s + 1))>>
        /\ no_else' = FALSE
        /\ UNCHANGED <<label_counter, err>>
     \/ n < 0 /\ Halt("E_SYNTAX_ERROR")

Default ==
  /\ Reads("default") /\ MayDefault
  /\ \/ /\ Numb.switch >= 0
        /\ nodes' = Append(nodes, Node("default", 0, {}))
        /\ frames' = [Consumed EXCEPT ![Owner].numb.default = TRUE]
        /\ code' = Append(code, Def(DefaultLabel(Numb.switch)))
        /\ no_else' = FALSE
        /\ UNCHANGED <<label_counter, err>>
     \/ Numb.switch < 0 /\ Halt("E_SYNTAX_ERROR")

------------------------------------------------------------------------------
\* Compound statements, up to their bodies

OpenIf == \E braces \in BOOLEAN, k \in ExprLabels :
  LET false == label_counter
      end == label_counter + 1
  IN
  /\ Open("if", {}, NoNumb, [NoLabels EXCEPT !.false = false, !.end = end], LeftOf(braces),
          Append(ExprCode(NewNode, "test", end + 1, k), Jz(Plain(false))))
  /\ label_counter' = end + 1 + k

OpenWhile == \E braces \in BOOLEAN, k \in ExprLabels :
  LET break == label_counter
      continue == label_counter + 1
      true == label_counter + 2
  IN
  /\ Open("while", {}, [Numb EXCEPT !.break = break, !.continue = continue, !.default = FALSE],
          NoLabels, LeftOf(braces),
          <<Def(Plain(continue))>>
            \o ExprCode(NewNode, "test", true + 1, k)
            \o <<Jz(Plain(break)), Def(Plain(true))>>)
  /\ label_counter' = true + 1 + k

\* The parts a, b and c of a for are each there or not.
OpenFor == \E braces \in BOOLEAN, form \in ForForms, k \in ExprLabels :
  LET break == label_counter
      continue == label_counter + 1
      top == label_counter + 2
      true == label_counter + 3
      part(x, first, after) ==
        IF x \in form THEN ExprCode(NewNode, x, first, k) \o after ELSE <<>>
  IN
  /\ Open("for", form, [Numb EXCEPT !.break = break, !.continue = continue, !.default = FALSE],
          NoLabels, LeftOf(braces),
          part("a", true + 1, <<>>)
            \o <<Def(Plain(top))>>
            \o part("b", true + 1 + k, <<Jz(Plain(break))>>)
            \o <<Jmp(Plain(true)), Def(Plain(continue))>>
            \o part("c", true + 1 + 2*k, <<>>)
            \o <<Jmp(Plain(top)), Def(Plain(true))>>)
  /\ label_counter' = true + 1 + 3*k

OpenDo ==
  LET top == label_counter
      break == label_counter + 1
      continue == label_counter + 2
  IN
  /\ Open("do", {}, [Numb EXCEPT !.break = break, !.continue = continue],
          [NoLabels EXCEPT !.top = top], "many", <<Def(Plain(top))>>)
  /\ label_counter' = continue + 1

\* Mutant: a switch starts with a numb_param of its own.
OpenSwitchFresh == \E k \in ExprLabels :
  LET break == label_counter
      switch == label_counter + 1
  IN
  /\ Open("switch", {},
          [NoNumb EXCEPT !.break = break, !.switch = switch, !.serial = 1],
          NoLabels, "many",
          Append(ExprCode(NewNode, "test", switch + 1, k), Jmp(CaseLabel(switch, 1))))
  /\ label_counter' = switch + 1 + k
OpenSwitch == \E k \in ExprLabels :
  LET break == label_counter
      switch == label_counter + 1
  IN
  /\ Open("switch", {},
          [Numb EXCEPT !.break = break, !.switch = switch, !.serial = 1, !.default = FALSE],
          NoLabels, "many",
          Append(ExprCode(NewNode, "test", switch + 1, k), Jmp(CaseLabel(switch, 1))))
  /\ label_counter' = switch + 1 + k

------------------------------------------------------------------------------
\* Compound statements, after their bodies

\* The body is complete; a '}' is read if it is in braces.
Closes(kind) == err = "none" /\ frames # <<>> /\ Top.kind = kind /\ Top.left # "one"
Popped == SubSeq(frames, 1, Len(frames) - 1)
ElseAfter == IF Top.left = "many" THEN FALSE ELSE no_else

\* The statement is done, and the parser returns to the one around it.
Close(items) ==
  /\ frames' = Popped /\ code' = code \o items
  /\ no_else' = ElseAfter
  /\ UNCHANGED <<nodes, err>>

CloseLoop ==
  /\ Closes("while") \/ Closes("for")
  /\ Close(<<Jmp(Plain(Top.numb.continue)), Def(Plain(Top.numb.break))>>)
  /\ UNCHANGED label_counter

\* The label a break in a do loop jumps to is not printed.
CloseDo == \E k \in ExprLabels :
  /\ Closes("do")
  /\ Close(<<Def(Plain(Top.numb.continue))>>
             \o ExprCode(Top.node, "test", label_counter, k)
             \o <<Jnz(Plain(Top.labels.top))>>)
  /\ label_counter' = label_counter + k

CloseSwitch ==
  LET break == Plain(Top.numb.break)
      n == Top.numb.switch
  IN
  /\ Closes("switch")
  /\ Close(<<Jmp(break), Def(CaseLabel(n, Top.numb.serial))>>
             \o (IF Top.numb.default THEN <<Jmp(DefaultLabel(n))>> ELSE <<>>)
             \o <<Def(break)>>)
  /\ UNCHANGED label_counter

\* Mutant: the first part of an if runs on into the else.
ThenFallsIn ==
  /\ Closes("if") /\ Top.part = "body"
  /\ code' = Append(code, Def(Plain(Top.labels.false)))
  /\ UNCHANGED <<label_counter, nodes, err>>
\* After the first part of an if, the parser looks for an else.
Then ==
  /\ Closes("if") /\ Top.part = "body"
  /\ code' = code \o <<Jmp(Plain(Top.labels.end)), Def(Plain(Top.labels.false))>>
  /\ UNCHANGED <<label_counter, nodes, err>>

Else == \E braces \in BOOLEAN :
  /\ Then /\ ~ElseAfter
  /\ frames' = [frames EXCEPT ![Len(frames)].left = LeftOf(braces),
                              ![Len(frames)].part = "else"]
  /\ no_else' = FALSE

\* There is none: what follows is the next statement.
NoElse ==
  /\ Closes("if") /\ Top.part = "body"
  /\ frames' = Popped
  /\ code' = code \o <<Jmp(Plain(Top.labels.end)), Def(Plain(Top.labels.false)),
                       Def(Plain(Top.labels.end))>>
  /\ no_else' = TRUE
  /\ UNCHANGED <<label_counter, nodes, err>>

\* Mutant: the label after an else is left out.
CloseElseNoEnd ==
  /\ Closes("if") /\ Top.part = "else"
  /\ Close(<<>>)
  /\ UNCHANGED label_counter
CloseElse ==
  /\ Closes("if") /\ Top.part = "else"
  /\ Close(<<Def(Plain(Top.labels.end))>>)
  /\ UNCHANGED label_counter

------------------------------------------------------------------------------
\* Functions and errors

OpenFunction ==
  /\ err = "none" /\ frames = <<>> /\ Len(nodes) < MaxNodes /\ Occurs("function")
  /\ nodes' = Append(nodes, [kind |-> "function", parent |-> 0, part |-> "body", arg |-> 0, form |-> {}])
  /\ frames' = <<Frame("function", NewNode, NoNumb, NoLabels, "many")>>
  /\ code' = Append(code, Def(FuncLabel(NewNode)))
  /\ no_else' = FALSE
  /\ UNCHANGED <<label_counter, err>>

CloseFunction ==
  /\ Closes("function") /\ Close(<<Ret>>)
  /\ UNCHANGED label_counter

\* An else, or a token that starts no statement, where one is expected; a token
\* missing from a statement ends the same way, and E_SYNTAX_ERROR stands for all
\* the codes of these.
StrayToken ==
  /\ err = "none" /\ frames # <<>> /\ Top.left # "none"
  /\ \/ ~no_else /\ Halt("E_ILLEGAL_ELSE")
     \/ Halt("E_SYNTAX_ERROR")

------------------------------------------------------------------------------
Init ==
  /\ label_counter = FirstLabel
  /\ frames = <<>> /\ code = <<>> /\ nodes = <<>>
  /\ no_else = FALSE /\ err = "none"

Next ==
  \/ ExprStatement \/ Empty \/ Asm \/ Return \/ Goto \/ Label
  \/ Continue \/ Break \/ Case \/ Default
  \/ OpenIf \/ OpenWhile \/ OpenFor \/ OpenDo \/ OpenSwitch
  \/ CloseLoop \/ CloseDo \/ CloseSwitch \/ Else \/ NoElse \/ CloseElse
  \/ OpenFunction \/ CloseFunction \/ StrayToken

Spec == Init /\ [][Next]_vars

------------------------------------------------------------------------------
\* Properties

Frames == [kind : Compound \cup {"function"}, node : Nat \ {0},
           numb : [break : Int, continue : Int, switch : Int, serial : Int, default : BOOLEAN],
           labels : [top : Int, false : Int, end : Int],
           left : {"many", "one", "none"}, part : {"body", "else"}]
Nodes == [kind : Statement \cup {"function"}, parent : Nat, part : {"body", "else"},
          arg : Nat, form : SUBSET {"a", "b", "c"}]
Labels == [kind : {"L", "case", "default", "user", "func", "none"}, numb : Int, serial : Int]
Items == [op : {"def", "jmp", "jz", "jnz", "cmp", "ret", "obs"}, label : Labels, arg : Nat,
          at : Nat \X {"", "x", "test", "a", "b", "c"}]

\* The type invariant.  A function is at the bottom of the stack and nowhere
\* else; a statement that is being read has been counted by the one around it.
TypeOK ==
  /\ label_counter \in Nat /\ label_counter >= FirstLabel
  /\ frames \in Seq(Frames)
  /\ \A i \in DOMAIN frames : frames[i].kind = "function" <=> i = 1
  /\ \A i \in 1..Len(frames)-1 : frames[i].left # "one"
  /\ code \in Seq(Items)
  /\ nodes \in Seq(Nodes) /\ Len(nodes) <= MaxNodes
  /\ no_else \in BOOLEAN
  /\ err \in {"none", "E_ILLEGAL_CONTINUE", "E_ILLEGAL_BREAK", "E_ILLEGAL_ELSE", "E_SYNTAX_ERROR"}

\* The assembler sees no label twice (the program's own goto labels aside),
\* however statements, and the labels of their expressions, are nested.
Defined(l) == {i \in DOMAIN code : code[i].op = "def" /\ code[i].label = l}
LabelsUnique ==
  \A i \in DOMAIN code :
    code[i].op = "def" /\ code[i].label.kind # "user" =>
      \A j \in DOMAIN code : code[j].op = "def" /\ code[j].label = code[i].label => i = j

\* When a function is complete, every label its code jumps to has been printed.
Complete == frames = <<>> /\ err = "none"
JumpsLand ==
  Complete =>
    \A i \in DOMAIN code :
      code[i].op \in {"jmp", "jz", "jnz", "cmp"} /\ code[i].label.kind # "user" =>
        Defined(code[i].label) # {}

\* break and continue are refused only where there is nothing to leave or to go
\* on with: numb_param reaches them through every statement in between.
RefusedRightly ==
  /\ err = "E_ILLEGAL_BREAK" => Breakable = {}
  /\ err = "E_ILLEGAL_CONTINUE" => \A i \in DOMAIN frames : frames[i].kind \notin Loops
===============================================================================
