------------------------------ MODULE FrameLayout ------------------------------
(***************************************************************************)
(* The frame of a function: variable_addr_auto_cal orders the local        *)
(* variables of one function by size, gives each its place, and finds the  *)
(* parameters where expr_function_call has put the arguments.              *)
(*                                                                         *)
(* variable_tbl is an array of pointers to symbols: tbl[k] is the symbol   *)
(* in slot k, sym[s] and value[s] its attributes and its "value".  Slots   *)
(* and symbols are numbered from 0, and a symbol has the number of the     *)
(* slot it was registered in.                                              *)
(***************************************************************************)
EXTENDS Integers

CONSTANTS
  Types,         \* types of variables, see TypesAssumption
  MAX_VARIABLE,  \* slots of variable_tbl
  USHRT          \* 1 + the greatest value of the ushort auto_size

\* What the layout reads of a type: the flags ATTR_CHAR and ATTR_SHORT, which a
\* pointer to char or short has as well; byte, what c32_attr_to_byte makes of it;
\* size, the bytes of the whole variable (a multiple of byte for an array).
ASSUME TypesAssumption ==
  \A t \in Types :
    /\ t \in [char : BOOLEAN, short : BOOLEAN, byte : Nat, size : Nat]
    /\ ~(t.char /\ t.short)
ASSUME LimitsAssumption == MAX_VARIABLE \in Nat /\ USHRT \in Nat \ {0}

VARIABLES
  cnt,         \* variable_tbl_cnt
  sym,         \* the registered symbols: is it an auto variable (FLAG_02), its type
  tbl,         \* variable_tbl
  value,       \* ptr->value of each symbol
  pc,          \* the loop the procedure is in
  i,           \* its variable
  size,        \* bytes of the frame so far
  auto_top,    \* the first slot of an auto variable
  auto_size,   \* func_tbl->auto_size
  param_numb   \* func_tbl->param_numb

layoutVars ==
  <<cnt, sym, tbl, value, pc, i, size, auto_top, auto_size, param_numb>>

Slots(n) == 0..n-1
Symbols == [auto : BOOLEAN, type : Types]

\* Parameters are registered before the variables of the body.
ParamsFirst(n, s) == \A k \in Slots(n), l \in Slots(n) : k < l /\ s[k].auto => s[l].auto

\* variable_addr_auto_cal is called for a function with n symbols.
Start(n, s) ==
  [cnt |-> n, sym |-> s, tbl |-> [k \in Slots(n) |-> k], value |-> [k \in Slots(n) |-> 0]]

\* The locals of the procedure and what it leaves in func_tbl.
Fresh == /\ pc = "top" /\ i = 0 /\ size = 0 /\ auto_top = 0
         /\ auto_size = 0 /\ param_numb = 0

Init ==
  \E n \in 0..MAX_VARIABLE :
    \E s \in [Slots(n) -> Symbols] :
      /\ ParamsFirst(n, s)
      /\ cnt = n /\ sym = s
      /\ tbl = Start(n, s).tbl /\ value = Start(n, s).value
      /\ Fresh

IsAuto(k) == sym[tbl[k]].auto
IsChar(k) == sym[tbl[k]].type.char
IsShort(k) == sym[tbl[k]].type.short
Byte(k) == sym[tbl[k]].type.byte
Bytes(k) == sym[tbl[k]].type.size

\* for(auto_top=0; ...): the slots before the first auto variable are parameters.
FindAutoTop ==
  /\ pc = "top"
  /\ \E t \in 0..cnt :
       /\ \A k \in Slots(t) : ~IsAuto(k)
       /\ t < cnt => IsAuto(t)
       /\ auto_top' = t /\ i' = t
  /\ pc' = "char"
  /\ UNCHANGED <<cnt, sym, tbl, value, size, auto_size, param_numb>>

\* Mutant: the search starts two slots further on.
WantedSkipsOne ==
  {k \in (i..cnt-1) \ {i+1} : (pc = "char" /\ IsChar(k)) \/ (pc = "short" /\ IsShort(k))}
\* The slots from i on that the sorting loop brings to the front.
Wanted == {k \in i..cnt-1 : (pc = "char" /\ IsChar(k)) \/ (pc = "short" /\ IsShort(k))}

\* Mutant: without tmp one pointer ends up in both slots.
SwapSlotsNoTmp(a, b) == [tbl EXCEPT ![a] = tbl[b]]
SwapSlots(a, b) == [tbl EXCEPT ![a] = tbl[b], ![b] = tbl[a]]

\* Mutant: the loop variable is not counted up.
SortSkipStays ==
  /\ pc \in {"char", "short"} /\ i \in Wanted
  /\ UNCHANGED layoutVars
\* Slot i already holds such a variable.
SortSkip ==
  /\ pc \in {"char", "short"} /\ i \in Wanted
  /\ i' = i + 1
  /\ UNCHANGED <<cnt, sym, tbl, value, pc, size, auto_top, auto_size, param_numb>>

\* The first one behind slot i is swapped with it.
SortSwap ==
  /\ pc \in {"char", "short"} /\ i \notin Wanted
  /\ \E j \in Wanted : (\A k \in Wanted : j <= k) /\ tbl' = SwapSlots(i, j)
  /\ i' = i + 1
  /\ UNCHANGED <<cnt, sym, value, pc, size, auto_top, auto_size, param_numb>>

\* None is left: the loop for short goes on where the one for char stopped.
SortDone ==
  /\ pc \in {"char", "short"} /\ Wanted = {}
  /\ IF pc = "char"
       THEN pc' = "short" /\ UNCHANGED <<i, size>>
       ELSE pc' = "place" /\ i' = auto_top /\ size' = 0
  /\ UNCHANGED <<cnt, sym, tbl, value, auto_top, auto_size, param_numb>>

\* size += m-1; size &= ~(m-1).
RoundUp(n, m) == (n + m - 1) - ((n + m - 1) % m)
Alignment(byte) == IF byte \in {1, 2} THEN byte ELSE 4

Aligned(n, byte) == RoundUp(n, Alignment(byte))

\* Mutant: the next variable starts where an element of this one ends.
PlaceElement ==
  /\ pc = "place" /\ i < cnt
  /\ value' = [value EXCEPT ![tbl[i]] = Aligned(size, Byte(i))]
  /\ size' = Aligned(size, Byte(i)) + Byte(i)
  /\ i' = i + 1
  /\ UNCHANGED <<cnt, sym, tbl, pc, auto_top, auto_size, param_numb>>

\* Auto variable i gets its offset.
Place ==
  /\ pc = "place" /\ i < cnt
  /\ value' = [value EXCEPT ![tbl[i]] = Aligned(size, Byte(i))]
  /\ size' = Aligned(size, Byte(i)) + Bytes(i)
  /\ i' = i + 1
  /\ UNCHANGED <<cnt, sym, tbl, pc, auto_top, auto_size, param_numb>>

\* Mutant: the frame is rounded down.
FrameSizeDown(n) == n - (n % 4)
FrameSize(n) == RoundUp(n, 4)

\* Mutant: auto_size has no width.
UshortWide(n) == n
\* auto_size is a ushort.
Ushort(n) == n % USHRT

CloseFrame ==
  /\ pc = "place" /\ i = cnt
  /\ size' = FrameSize(size)
  /\ auto_size' = Ushort(FrameSize(size))
  /\ param_numb' = auto_top
  /\ pc' = "param" /\ i' = 0
  /\ UNCHANGED <<cnt, sym, tbl, value, auto_top>>

\* Mutant: the offset of a 32-bit return address (the #else of BIT16).
ParamOffset32(k) == size + 4 + 4 + k * 4
\* size + 4 + 2 + i*4: the frame, the saved ebp and the return address are between.
ParamOffset(k) == size + 4 + 2 + k * 4

PlaceParam ==
  /\ pc = "param" /\ i < auto_top
  /\ value' = [value EXCEPT ![tbl[i]] = ParamOffset(i)]
  /\ i' = i + 1
  /\ UNCHANGED <<cnt, sym, tbl, pc, size, auto_top, auto_size, param_numb>>

Return ==
  /\ pc = "param" /\ i = auto_top
  /\ pc' = "done"
  /\ UNCHANGED <<cnt, sym, tbl, value, i, size, auto_top, auto_size, param_numb>>

Next == \/ FindAutoTop \/ SortSkip \/ SortSwap \/ SortDone
        \/ Place \/ CloseFrame \/ PlaceParam \/ Return

Spec == Init /\ [][Next]_layoutVars /\ WF_layoutVars(Next)

------------------------------------------------------------------------------
\* The stack of a call, counted from esp before it (expr_function_call and
\* function_push_reg): room for the arguments, the return address of a 16-bit
\* call, ebp, the frame.

ArgumentPlace(k) == -4 * param_numb + 4 * k
CalleeEbp == -4 * param_numb - 2 - 4 - auto_size

------------------------------------------------------------------------------
\* Properties

LayoutTypeOK ==
  /\ cnt \in 0..MAX_VARIABLE
  /\ sym \in [Slots(cnt) -> Symbols]
  /\ tbl \in [Slots(cnt) -> Slots(cnt)]
  /\ value \in [Slots(cnt) -> Nat]
  /\ pc \in {"top", "char", "short", "place", "param", "done"}
  /\ i \in 0..cnt /\ auto_top \in 0..cnt
  /\ size \in Nat /\ auto_size \in 0..USHRT-1
  /\ param_numb \in 0..cnt

Placed == IF pc = "place" THEN auto_top..i-1 ELSE auto_top..cnt-1
OffsetOf(k) == value[tbl[k]]

\* The table still names every symbol once, and the parameters are in the slots
\* they were registered in: sorting loses and doubles nothing.
TableKept ==
  /\ \A k \in Slots(cnt), l \in Slots(cnt) : k # l => tbl[k] # tbl[l]
  /\ \A k \in Slots(cnt) : ~sym[k].auto => tbl[k] = k

\* When the places are given, char variables come first, then short ones, so the
\* two loops with their breaks have sorted the table.
CharsThenShorts ==
  pc \in {"place", "param", "done"} =>
    \A k \in auto_top..cnt-1, l \in auto_top..cnt-1 :
      k < l => /\ IsChar(l) => IsChar(k)
               /\ IsShort(l) => IsChar(k) \/ IsShort(k)

\* No two local variables share a byte, each lies at a multiple of its alignment.
NoOverlap ==
  pc \in {"place", "param", "done"} =>
    \A k \in Placed :
      /\ OffsetOf(k) % Alignment(Byte(k)) = 0
      /\ \A l \in Placed : k < l => OffsetOf(k) + Bytes(k) <= OffsetOf(l)

\* Local variables end inside the frame that function_push_reg makes, below the
\* saved ebp, if the size of the frame is one auto_size can hold.
InsideFrame ==
  pc = "done" /\ size < USHRT =>
    \A k \in Placed : OffsetOf(k) + Bytes(k) <= auto_size

\* What the function reads as its k-th parameter is what the caller stored as its
\* k-th argument.
ArgumentsReached ==
  pc = "done" /\ size < USHRT =>
    /\ \A k \in Slots(cnt) : ~sym[k].auto <=> k < param_numb
    /\ \A k \in Slots(param_numb) : CalleeEbp + OffsetOf(k) = ArgumentPlace(k)

\* The procedure ends.
LayoutEnds == <>(pc = "done")
==============================================================================
