-------------------------- MODULE DeclarationsProofs ---------------------------
(***************************************************************************)
(* Proofs about FrameLayout and Declarations: for any list of variables of *)
(* any types the layout keeps the table, no two local variables overlap,   *)
(* and the parameters are where the caller has stored the arguments; for   *)
(* translation units of any length and tables of any size the two passes   *)
(* find the same symbols.                                                  *)
(***************************************************************************)
EXTENDS Declarations, NatExtremes, SequenceTheorems, FiniteSetTheorems, TLAPS

------------------------------------------------------------------------------
\* The layout of one function (FrameLayout)

\* The slots from auto_top on are those of the auto variables.
TopInv ==
  /\ ParamsFirst(cnt, sym)
  /\ pc = "top" => \A k \in Slots(cnt) : tbl[k] = k
  /\ pc # "top" => \A k \in Slots(cnt) : sym[k].auto <=> auto_top <= k
  /\ pc \in {"char", "short", "place"} => auto_top <= i
  /\ pc = "param" => i <= auto_top

Autos == auto_top..cnt-1

\* What the two sorting loops have done when they reach slot i.
SortInv ==
  /\ pc = "char" => \A k \in auto_top..i-1 : IsChar(k)
  /\ pc \in {"short", "place", "param", "done"} =>
       \A k \in Autos, l \in Autos : k < l /\ IsChar(l) => IsChar(k)
  /\ pc = "short" => /\ \A k \in auto_top..i-1 : IsChar(k) \/ IsShort(k)
                     /\ \A k \in i..cnt-1 : ~IsChar(k)
  /\ pc \in {"place", "param", "done"} =>
       \A k \in Autos, l \in Autos : k < l /\ IsShort(l) => IsChar(k) \/ IsShort(k)

\* The variables that have their place end below size, in the order of the slots.
PlaceInv ==
  pc \in {"place", "param", "done"} =>
    \A k \in Placed :
      /\ OffsetOf(k) % Alignment(Byte(k)) = 0
      /\ OffsetOf(k) + Bytes(k) <= size
      /\ \A l \in Placed : k < l => OffsetOf(k) + Bytes(k) <= OffsetOf(l)

\* The frame is closed and the parameters up to slot i have their offset.
ParamInv ==
  pc \in {"param", "done"} =>
    /\ param_numb = auto_top
    /\ auto_size = size % USHRT
    /\ \A k \in Slots(IF pc = "param" THEN i ELSE auto_top) :
         OffsetOf(k) = size + 4 + 2 + k * 4

Inv == LayoutTypeOK /\ TableKept /\ TopInv /\ SortInv /\ PlaceInv /\ ParamInv

------------------------------------------------------------------------------
\* Arithmetic

\* Rounding up to a multiple of 1, 2 or 4.
LEMMA RoundUpFacts ==
  ASSUME NEW n \in Nat, NEW m \in {1, 2, 4}
  PROVE  RoundUp(n, m) \in Nat /\ n <= RoundUp(n, m) /\ RoundUp(n, m) % m = 0
<1>1. CASE m = 1
  BY <1>1 DEF RoundUp
<1>2. CASE m = 2
  BY <1>2 DEF RoundUp
<1>3. CASE m = 4
  BY <1>3 DEF RoundUp
<1> QED BY <1>1, <1>2, <1>3

\* The place of the next variable.
LEMMA AlignedFacts ==
  ASSUME NEW n \in Nat, NEW byte \in Nat
  PROVE  /\ Alignment(byte) \in {1, 2, 4}
         /\ Aligned(n, byte) \in Nat /\ n <= Aligned(n, byte)
         /\ Aligned(n, byte) % Alignment(byte) = 0
<1>1. Alignment(byte) \in {1, 2, 4}
  BY DEF Alignment
<1> QED BY <1>1, RoundUpFacts DEF Aligned

\* The size of the frame.
LEMMA FrameSizeFacts ==
  ASSUME NEW n \in Nat
  PROVE  FrameSize(n) \in Nat /\ n <= FrameSize(n)
BY RoundUpFacts DEF FrameSize

\* What a ushort holds.
LEMMA UshortFacts ==
  ASSUME NEW n \in Nat
  PROVE  Ushort(n) \in 0..USHRT-1 /\ Ushort(n) = n % USHRT
BY LimitsAssumption DEF Ushort

\* A number that fits is not changed.
LEMMA UshortFits ==
  ASSUME NEW n \in Nat, NEW m \in Nat \ {0}, n < m
  PROVE  n % m = n
OBVIOUS

------------------------------------------------------------------------------
\* One lemma for each action

\* The numbers of the procedure.
LEMMA Numbers ==
  Inv => /\ cnt \in Nat /\ i \in Nat /\ auto_top \in Nat /\ i <= cnt /\ auto_top <= cnt
         /\ Slots(cnt) = 0..cnt-1
BY LimitsAssumption DEF Inv, LayoutTypeOK, Slots

\* The table starts as it was registered.
LEMMA InitInv == Init => Inv
<1> SUFFICES ASSUME Init PROVE Inv
  OBVIOUS
<1>1. /\ cnt \in 0..MAX_VARIABLE /\ sym \in [Slots(cnt) -> Symbols]
      /\ ParamsFirst(cnt, sym)
      /\ tbl = [k \in Slots(cnt) |-> k] /\ value = [k \in Slots(cnt) |-> 0]
      /\ Fresh
  BY DEF Init, Start
<1>2. LayoutTypeOK
  BY <1>1, LimitsAssumption DEF LayoutTypeOK, Fresh, Slots
<1>3. TableKept
  BY <1>1 DEF TableKept
<1>4. TopInv /\ SortInv /\ PlaceInv /\ ParamInv
  BY <1>1 DEF TopInv, SortInv, PlaceInv, ParamInv, Fresh
<1> QED BY <1>2, <1>3, <1>4 DEF Inv

\* The parameters are the slots before the first auto variable.
LEMMA FindAutoTopInv == Inv /\ FindAutoTop => Inv'
<1> SUFFICES ASSUME Inv, FindAutoTop PROVE Inv'
  OBVIOUS
<1>1. PICK t \in 0..cnt :
        /\ \A k \in Slots(t) : ~IsAuto(k)
        /\ t < cnt => IsAuto(t)
        /\ auto_top' = t /\ i' = t
  BY Numbers DEF FindAutoTop
<1>2. LayoutTypeOK'
  BY Numbers, <1>1 DEF Inv, LayoutTypeOK, FindAutoTop
<1>3. TableKept'
  BY Numbers DEF Inv, TableKept, FindAutoTop
<1>4. \A k \in Slots(cnt) : sym[k].auto <=> t <= k
  <2>1. \A k \in Slots(cnt) : tbl[k] = k
    BY Numbers DEF Inv, TopInv, FindAutoTop
  <2>2. \A k \in 0..t-1 : ~sym[k].auto
    BY Numbers, <1>1, <2>1, Numbers DEF IsAuto, Slots
  <2>3. t < cnt => sym[t].auto
    BY Numbers, <1>1, <2>1, Numbers DEF IsAuto
  <2>4. \A k \in Slots(cnt) : t < k => sym[k].auto
    BY Numbers, <2>3, Numbers DEF Inv, TopInv, ParamsFirst
  <2> QED BY <2>2, <2>3, <2>4, Numbers
<1>5. TopInv'
  BY Numbers, <1>1, <1>4 DEF Inv, TopInv, FindAutoTop
<1>6. SortInv' /\ PlaceInv' /\ ParamInv'
  BY Numbers, <1>1, <1>2 DEF FindAutoTop, SortInv, PlaceInv, ParamInv, LayoutTypeOK
<1> QED BY <1>2, <1>3, <1>5, <1>6 DEF Inv

\* A slot that already holds what the loop looks for.
LEMMA SortSkipInv == Inv /\ SortSkip => Inv'
<1> SUFFICES ASSUME Inv, SortSkip PROVE Inv'
  OBVIOUS
<1> USE DEF SortSkip, Wanted
<1>1. LayoutTypeOK'
  BY Numbers DEF Inv, LayoutTypeOK
<1>2. TableKept' /\ TopInv'
  BY Numbers DEF Inv, TableKept, TopInv, LayoutTypeOK
<1>3. SortInv'
  <2>1. i' = i + 1 /\ pc \in {"char", "short"} /\ i < cnt
    BY Numbers DEF Inv, LayoutTypeOK
  <2>2. \A k \in auto_top..i'-1 : k \in auto_top..i-1 \/ k = i
    BY Numbers, <2>1
  <2>3. pc = "char" => \A k \in auto_top..i'-1 : IsChar(k)
    BY <2>2 DEF Inv, SortInv
  <2>4. pc = "short" => \A k \in auto_top..i'-1 : IsChar(k) \/ IsShort(k)
    BY <2>2 DEF Inv, SortInv
  <2>5. pc = "short" => \A k \in i'..cnt-1 : ~IsChar(k)
    BY Numbers, <2>1 DEF Inv, SortInv
  <2> QED BY <2>1, <2>3, <2>4, <2>5 DEF Inv, SortInv, IsChar, IsShort, Autos
<1>4. PlaceInv' /\ ParamInv'
  BY Numbers DEF PlaceInv, ParamInv
<1> QED BY <1>1, <1>2, <1>3, <1>4 DEF Inv

\* Two pointers change places; both belong to auto variables.
LEMMA SortSwapInv == Inv /\ SortSwap => Inv'
<1> SUFFICES ASSUME Inv, SortSwap PROVE Inv'
  OBVIOUS
<1> DEFINE N == 0..cnt-1
<1>1. PICK j \in Wanted : (\A k \in Wanted : j <= k) /\ tbl' = SwapSlots(i, j)
  BY DEF SortSwap
<1>2. /\ i \notin Wanted /\ i' = i + 1
      /\ pc = "char" \/ pc = "short"
      /\ UNCHANGED <<cnt, sym, value, pc, size, auto_top, auto_size, param_numb>>
  BY DEF SortSwap
<1>3. /\ cnt \in Nat /\ i \in N /\ j \in N /\ i < j
      /\ auto_top \in Nat /\ auto_top <= i /\ Slots(cnt) = N
  BY <1>1, <1>2, Numbers DEF Wanted, Inv, TopInv
<1>4. /\ tbl \in [N -> N] /\ tbl' \in [N -> N]
      /\ tbl'[i] = tbl[j] /\ tbl'[j] = tbl[i]
      /\ \A k \in N : k # i /\ k # j => tbl'[k] = tbl[k]
  BY <1>1, <1>3 DEF SwapSlots, Inv, LayoutTypeOK
<1>5. LayoutTypeOK'
  <2>1. tbl' \in [Slots(cnt') -> Slots(cnt')]
    BY <1>2, <1>3, <1>4
  <2>2. i' \in 0..cnt'
    BY <1>2, <1>3
  <2> QED BY <1>2, <2>1, <2>2 DEF Inv, LayoutTypeOK
<1>6. TableKept'
  <2>1. \A k \in N, l \in N : k # l => tbl[k] # tbl[l]
    BY <1>3 DEF Inv, TableKept
  <2>2. \A k \in N, l \in N : k # l => tbl'[k] # tbl'[l]
    BY <1>3, <1>4, <2>1
  <2>3. sym[i].auto /\ sym[j].auto
    BY <1>2, <1>3 DEF Inv, TopInv
  <2>4. \A k \in N : ~sym[k].auto => tbl'[k] = k
    BY <1>3, <1>4, <2>3 DEF Inv, TableKept
  <2> QED BY <1>2, <1>3, <2>2, <2>4 DEF TableKept
<1>7. TopInv'
  BY <1>2, <1>3 DEF Inv, TopInv
<1>8. SortInv'
  <2>1. \A k \in auto_top..i-1 : tbl'[k] = tbl[k]
    BY <1>3, <1>4
  <2>4. \A k \in auto_top..i : k = i \/ k \in auto_top..i-1
    BY <1>3
  <2>5. \A k \in i..cnt-1 : k = i \/ k = j \/ (k \in N /\ k # i /\ k # j)
    BY <1>3
  <2>6. i \in i..cnt-1 /\ j \in i..cnt-1
    BY <1>3
  <2>2. CASE pc = "char"
    <3>1. IsChar(j)
      BY <1>1, <2>2 DEF Wanted
    <3>2. \A k \in auto_top..i-1 : IsChar(k)
      BY <2>2 DEF Inv, SortInv
    <3>3. \A k \in auto_top..i : sym[tbl'[k]].type.char
      BY <1>4, <2>1, <2>4, <3>1, <3>2 DEF IsChar
    <3> QED BY <1>2, <1>3, <2>2, <3>3 DEF SortInv, IsChar
  <2>3. CASE pc = "short"
    <3>1. IsShort(j)
      BY <1>1, <2>3 DEF Wanted
    <3>2. /\ \A k \in auto_top..i-1 : IsChar(k) \/ IsShort(k)
          /\ \A k \in i..cnt-1 : ~IsChar(k)
          /\ \A k \in Autos, l \in Autos : k < l /\ IsChar(l) => IsChar(k)
      BY <2>3 DEF Inv, SortInv
    <3>3. \A k \in auto_top..i : sym[tbl'[k]].type.char \/ sym[tbl'[k]].type.short
      BY <1>4, <2>1, <2>4, <3>1, <3>2 DEF IsChar, IsShort
    <3>4. \A k \in i..cnt-1 : ~sym[tbl'[k]].type.char
      BY <1>4, <2>5, <2>6, <3>2 DEF IsChar
    <3>5. \A k \in Autos, l \in Autos :
            k < l /\ sym[tbl'[l]].type.char => sym[tbl'[k]].type.char
      BY <1>3, <2>1, <3>2, <3>4 DEF IsChar, Autos
    <3> QED BY <1>2, <1>3, <2>3, <3>3, <3>4, <3>5 DEF SortInv, IsChar, IsShort, Autos
  <2> QED BY <1>2, <2>2, <2>3
<1>9. PlaceInv' /\ ParamInv'
  BY <1>2 DEF PlaceInv, ParamInv
<1> QED BY <1>5, <1>6, <1>7, <1>8, <1>9 DEF Inv

\* No slot from i on holds what the loop looks for.
LEMMA SortDoneInv == Inv /\ SortDone => Inv'
<1> SUFFICES ASSUME Inv, SortDone PROVE Inv'
  OBVIOUS
<1> USE DEF SortDone
<1>1. LayoutTypeOK'
  BY Numbers DEF Inv, LayoutTypeOK
<1>2. TableKept' /\ TopInv'
  BY Numbers DEF Inv, TableKept, TopInv, LayoutTypeOK
<1>3. SortInv'
  <2>1. CASE pc = "char"
    <3>1. \A k \in i..cnt-1 : ~IsChar(k)
      BY Numbers, <2>1 DEF Wanted
    <3>2. \A k \in Autos, l \in Autos : k < l /\ IsChar(l) => IsChar(k)
      BY Numbers, <2>1, <3>1 DEF Inv, SortInv, Autos, LayoutTypeOK
    <3> QED BY <2>1, <3>1, <3>2 DEF Inv, SortInv, IsChar, IsShort, Autos
  <2>2. CASE pc = "short"
    <3>1. \A k \in i..cnt-1 : ~IsShort(k)
      BY Numbers, <2>2 DEF Wanted
    <3>2. \A k \in Autos, l \in Autos : k < l /\ IsShort(l) => IsChar(k) \/ IsShort(k)
      BY Numbers, <2>2, <3>1 DEF Inv, SortInv, Autos, LayoutTypeOK
    <3> QED BY <2>2, <3>2 DEF Inv, SortInv, IsChar, IsShort, Autos
  <2> QED BY <2>1, <2>2
<1>4. PlaceInv'
  BY Numbers DEF PlaceInv, Placed
<1>5. ParamInv'
  BY Numbers DEF ParamInv
<1> QED BY <1>1, <1>2, <1>3, <1>4, <1>5 DEF Inv

\* The next auto variable is placed behind the ones before it.
LEMMA PlaceIsInv == Inv /\ Place => Inv'
<1> SUFFICES ASSUME Inv, Place PROVE Inv'
  OBVIOUS
<1> DEFINE N == 0..cnt-1
           at == Aligned(size, Byte(i))
<1>1. /\ pc = "place" /\ i < cnt /\ i' = i + 1
      /\ value' = [value EXCEPT ![tbl[i]] = at]
      /\ size' = at + Bytes(i)
      /\ UNCHANGED <<cnt, sym, tbl, pc, auto_top, auto_size, param_numb>>
  BY DEF Place
<1>2. /\ cnt \in Nat /\ i \in N /\ auto_top \in Nat /\ auto_top <= i
      /\ Slots(cnt) = N /\ size \in Nat
      /\ tbl \in [N -> N] /\ value \in [N -> Nat]
      /\ \A k \in N : Byte(k) \in Nat /\ Bytes(k) \in Nat
  <2>1. cnt \in Nat /\ i \in N /\ auto_top \in Nat /\ auto_top <= i /\ Slots(cnt) = N
    BY <1>1, Numbers DEF Inv, TopInv
  <2>2. size \in Nat /\ tbl \in [N -> N] /\ value \in [N -> Nat] /\ sym \in [N -> Symbols]
    BY <2>1 DEF Inv, LayoutTypeOK
  <2>3. \A k \in N : sym[tbl[k]].type \in Types
    BY <2>2 DEF Symbols
  <2>4. \A k \in N : Byte(k) \in Nat /\ Bytes(k) \in Nat
    BY <2>3, TypesAssumption DEF Byte, Bytes
  <2> QED BY <2>1, <2>2, <2>4
<1>3. /\ at \in Nat /\ size <= at /\ at % Alignment(Byte(i)) = 0
  BY <1>2, AlignedFacts
<1> HIDE DEF at
<1>4. /\ value' \in [N -> Nat] /\ value'[tbl[i]] = at
      /\ \A k \in N : k # i => value'[tbl[k]] = value[tbl[k]]
  <2>1. \A k \in N : k # i => tbl[k] # tbl[i]
    BY <1>2 DEF Inv, TableKept
  <2> QED BY <1>1, <1>2, <1>3, <2>1
<1>5. LayoutTypeOK'
  <2>1. value' \in [Slots(cnt') -> Nat] /\ i' \in 0..cnt'
    BY <1>1, <1>2, <1>4
  <2>2. Bytes(i) \in Nat
    BY <1>2
  <2>3. size' \in Nat
    BY <1>1, <1>3, <2>2
  <2> QED BY <1>1, <2>1, <2>3 DEF Inv, LayoutTypeOK
<1>6. TableKept' /\ TopInv'
  BY <1>1, <1>2 DEF Inv, TableKept, TopInv
<1>7. SortInv'
  BY <1>1 DEF Inv, SortInv, IsChar, IsShort, Autos
<1>8. PlaceInv'
  <2> DEFINE at2(k) == value'[tbl[k]]
  <2>1. \A k \in auto_top..i-1 : k \in N /\ k # i
    BY <1>2
  <2>2. \A k \in auto_top..i-1 : at2(k) = OffsetOf(k) /\ at2(k) \in Nat /\ Bytes(k) \in Nat
    BY <1>2, <1>4, <2>1 DEF OffsetOf
  <2>3. \A k \in auto_top..i-1 :
          /\ OffsetOf(k) % Alignment(Byte(k)) = 0
          /\ OffsetOf(k) + Bytes(k) <= size
          /\ \A l \in auto_top..i-1 : k < l => OffsetOf(k) + Bytes(k) <= OffsetOf(l)
    BY <1>1 DEF Inv, PlaceInv, Placed
  <2>4. at2(i) = at /\ Bytes(i) \in Nat
    BY <1>2, <1>4
  <2> HIDE DEF at2
  <2>5. \A k \in auto_top..i-1 :
          /\ at2(k) % Alignment(Byte(k)) = 0
          /\ at2(k) + Bytes(k) <= at
          /\ \A l \in auto_top..i-1 : k < l => at2(k) + Bytes(k) <= at2(l)
    <3>1. ASSUME NEW k \in auto_top..i-1
          PROVE  at2(k) % Alignment(Byte(k)) = 0
      BY <2>2, <2>3
    <3>2. ASSUME NEW k \in auto_top..i-1
          PROVE  at2(k) + Bytes(k) <= at
      <4>1. at2(k) + Bytes(k) \in Nat /\ at2(k) + Bytes(k) <= size
        BY <2>2, <2>3
      <4> QED BY <1>2, <1>3, <4>1
    <3>3. ASSUME NEW k \in auto_top..i-1, NEW l \in auto_top..i-1, k < l
          PROVE  at2(k) + Bytes(k) <= at2(l)
      BY <2>2, <2>3, <3>3
    <3> QED BY <3>1, <3>2, <3>3
  <2>6. \A k \in auto_top..i : k = i \/ (k \in auto_top..i-1 /\ k < i)
    BY <1>2
  <2>7. \A k \in auto_top..i : at2(k) % Alignment(Byte(k)) = 0
    BY <1>3, <2>4, <2>5, <2>6
  <2>8. \A k \in auto_top..i : at2(k) + Bytes(k) <= size'
    BY <1>1, <1>3, <2>2, <2>4, <2>5, <2>6
  <2>9. ASSUME NEW k \in auto_top..i, NEW l \in auto_top..i, k < l
        PROVE  at2(k) + Bytes(k) <= at2(l)
    <3>1. k \in auto_top..i-1
      BY <1>2, <2>9
    <3> QED BY <2>4, <2>5, <2>6, <2>9, <3>1
  <2>10. Placed' = auto_top..i
    BY <1>1, <1>2 DEF Placed
  <2>11. \A k \in Placed' :
           /\ OffsetOf(k)' = at2(k) /\ Byte(k)' = Byte(k) /\ Bytes(k)' = Bytes(k)
    BY <1>1 DEF OffsetOf, Byte, Bytes, at2
  <2> QED BY <2>7, <2>8, <2>9, <2>10, <2>11 DEF PlaceInv
<1>9. ParamInv'
  BY <1>1 DEF ParamInv
<1> QED BY <1>5, <1>6, <1>7, <1>8, <1>9 DEF Inv

\* The size is rounded up, so what fitted still fits.
LEMMA CloseFrameInv == Inv /\ CloseFrame => Inv'
<1> SUFFICES ASSUME Inv, CloseFrame PROVE Inv'
  OBVIOUS
<1>1. /\ pc = "place" /\ i = cnt /\ pc' = "param" /\ i' = 0
      /\ size' = FrameSize(size) /\ auto_size' = Ushort(FrameSize(size))
      /\ param_numb' = auto_top
      /\ UNCHANGED <<cnt, sym, tbl, value, auto_top>>
  BY DEF CloseFrame
<1>2. size \in Nat /\ FrameSize(size) \in Nat /\ size <= FrameSize(size)
  BY FrameSizeFacts DEF Inv, LayoutTypeOK
<1>3. auto_size' \in 0..USHRT-1 /\ auto_size' = size' % USHRT
  BY <1>1, <1>2, UshortFacts
<1>4. LayoutTypeOK'
  BY <1>1, <1>2, <1>3, Numbers DEF Inv, LayoutTypeOK
<1>5. TableKept' /\ TopInv' /\ SortInv'
  BY <1>1, Numbers DEF Inv, TableKept, TopInv, SortInv, IsChar, IsShort, Autos
<1>6. PlaceInv'
  <2>1. \A k \in auto_top..cnt-1 :
          /\ OffsetOf(k) % Alignment(Byte(k)) = 0
          /\ OffsetOf(k) + Bytes(k) <= size
          /\ \A l \in auto_top..cnt-1 : k < l => OffsetOf(k) + Bytes(k) <= OffsetOf(l)
    BY <1>1 DEF Inv, PlaceInv, Placed
  <2>2. \A k \in auto_top..cnt-1 : OffsetOf(k) \in Nat /\ Bytes(k) \in Nat
    BY Numbers, TypesAssumption DEF Inv, LayoutTypeOK, Symbols, OffsetOf, Bytes
  <2>3. \A k \in auto_top..cnt-1 : OffsetOf(k) + Bytes(k) <= size'
    BY <1>1, <1>2, <2>1, <2>2
  <2> QED BY <1>1, <2>1, <2>3 DEF PlaceInv, Placed, OffsetOf, Byte, Bytes
<1>7. ParamInv'
  BY <1>1, <1>3 DEF ParamInv, Slots
<1> QED BY <1>4, <1>5, <1>6, <1>7 DEF Inv

\* A parameter gets its offset; the auto variables keep theirs.
LEMMA PlaceParamInv == Inv /\ PlaceParam => Inv'
<1> SUFFICES ASSUME Inv, PlaceParam PROVE Inv'
  OBVIOUS
<1> DEFINE N == 0..cnt-1
<1>1. /\ pc = "param" /\ i < auto_top /\ i' = i + 1
      /\ value' = [value EXCEPT ![tbl[i]] = ParamOffset(i)]
      /\ UNCHANGED <<cnt, sym, tbl, pc, size, auto_top, auto_size, param_numb>>
  BY DEF PlaceParam
<1>2. /\ cnt \in Nat /\ i \in N /\ auto_top \in Nat /\ auto_top <= cnt
      /\ Slots(cnt) = N /\ size \in Nat /\ ParamOffset(i) \in Nat
      /\ tbl \in [N -> N] /\ value \in [N -> Nat]
  <2>1. cnt \in Nat /\ i \in Nat /\ auto_top \in Nat /\ auto_top <= cnt /\ Slots(cnt) = N
    BY Numbers
  <2>2. i \in N
    BY <1>1, <2>1
  <2>3. size \in Nat /\ tbl \in [N -> N] /\ value \in [N -> Nat]
    BY <2>1 DEF Inv, LayoutTypeOK
  <2> QED BY <2>1, <2>2, <2>3 DEF ParamOffset
<1>3. /\ value' \in [N -> Nat] /\ value'[tbl[i]] = size + 4 + 2 + i * 4
      /\ \A k \in N : k # i => value'[tbl[k]] = value[tbl[k]]
  <2>1. \A k \in N : k # i => tbl[k] # tbl[i]
    BY <1>2 DEF Inv, TableKept
  <2> QED BY <1>1, <1>2, <2>1 DEF ParamOffset
<1>4. LayoutTypeOK'
  BY <1>1, <1>2, <1>3 DEF Inv, LayoutTypeOK
<1>5. TableKept' /\ TopInv' /\ SortInv'
  BY <1>1, <1>2 DEF Inv, TableKept, TopInv, SortInv, IsChar, IsShort, Autos
<1>6. PlaceInv'
  <2>1. \A k \in auto_top..cnt-1 : value'[tbl[k]] = value[tbl[k]]
    BY <1>1, <1>2, <1>3
  <2> QED BY <1>1, <2>1 DEF Inv, PlaceInv, Placed, OffsetOf, Byte, Bytes
<1>7. ParamInv'
  <2>1. \A k \in 0..i-1 : value[tbl[k]] = size + 4 + 2 + k * 4
    BY <1>1 DEF Inv, ParamInv, Slots, OffsetOf
  <2>2. \A k \in 0..i : value'[tbl[k]] = size + 4 + 2 + k * 4
    <3>1. \A k \in 0..i : k = i \/ (k \in N /\ k # i /\ k \in 0..i-1)
      BY <1>2
    <3> QED BY <1>3, <2>1, <3>1
  <2> QED BY <1>1, <1>2, <2>2 DEF Inv, ParamInv, Slots, OffsetOf
<1> QED BY <1>4, <1>5, <1>6, <1>7 DEF Inv

\* All parameters have their offset.
LEMMA ReturnInv == Inv /\ Return => Inv'
<1> SUFFICES ASSUME Inv, Return PROVE Inv'
  OBVIOUS
<1>1. /\ pc = "param" /\ i = auto_top /\ pc' = "done"
      /\ UNCHANGED <<cnt, sym, tbl, value, i, size, auto_top, auto_size, param_numb>>
  BY DEF Return
<1>2. LayoutTypeOK' /\ TableKept' /\ TopInv' /\ SortInv'
  BY <1>1 DEF Inv, LayoutTypeOK, TableKept, TopInv, SortInv, IsChar, IsShort, Autos
<1>3. PlaceInv' /\ ParamInv'
  BY <1>1 DEF Inv, PlaceInv, ParamInv, Placed, OffsetOf, Byte, Bytes
<1> QED BY <1>2, <1>3 DEF Inv

------------------------------------------------------------------------------
\* The invariant, and what follows from it

\* Nothing changes.
LEMMA StutterInv == Inv /\ UNCHANGED layoutVars => Inv'
BY DEF Inv, layoutVars, LayoutTypeOK, TableKept, TopInv, SortInv, PlaceInv, ParamInv,
       IsChar, IsShort, Autos, Placed, OffsetOf, Byte, Bytes

\* The inductive invariant.
THEOREM LayoutInvariant == Spec => []Inv
<1>1. Inv /\ [Next]_layoutVars => Inv'
  BY FindAutoTopInv, SortSkipInv, SortSwapInv, SortDoneInv, PlaceIsInv, CloseFrameInv,
     PlaceParamInv, ReturnInv, StutterInv DEF Next
<1> QED BY InitInv, <1>1, PTL DEF Spec

\* variable_addr_auto_cal keeps its variables in their types.
THEOREM LayoutTypeCorrect == Spec => []LayoutTypeOK
<1>1. Inv => LayoutTypeOK
  BY DEF Inv
<1> QED BY LayoutInvariant, <1>1, PTL

\* The sort permutes variable_tbl and leaves the parameters alone.
THEOREM TableIsKept == Spec => []TableKept
<1>1. Inv => TableKept
  BY DEF Inv
<1> QED BY LayoutInvariant, <1>1, PTL

\* The two loops with their breaks sort the table.
THEOREM Sorts == Spec => []CharsThenShorts
<1>1. Inv => CharsThenShorts
  BY DEF Inv, SortInv, CharsThenShorts, Autos
<1> QED BY LayoutInvariant, <1>1, PTL

\* Local variables are aligned and do not overlap.
THEOREM VariablesApart == Spec => []NoOverlap
<1>1. Inv => NoOverlap
  BY DEF Inv, PlaceInv, NoOverlap
<1> QED BY LayoutInvariant, <1>1, PTL

\* Local variables lie inside the frame, if auto_size can hold its size.
THEOREM FrameHolds == Spec => []InsideFrame
<1>1. Inv => InsideFrame
  <2> SUFFICES ASSUME Inv, pc = "done", size < USHRT
               PROVE  \A k \in Placed : OffsetOf(k) + Bytes(k) <= auto_size
    BY DEF InsideFrame
  <2>1. size \in Nat
    BY DEF Inv, LayoutTypeOK
  <2>2. auto_size = size
    BY <2>1, UshortFits, LimitsAssumption DEF Inv, ParamInv
  <2> QED BY <2>2 DEF Inv, PlaceInv
<1> QED BY LayoutInvariant, <1>1, PTL

\* The k-th parameter is the k-th argument, if auto_size can hold the frame's size.
THEOREM ArgumentsAreParameters == Spec => []ArgumentsReached
<1>1. Inv => ArgumentsReached
  <2> SUFFICES ASSUME Inv, pc = "done", size < USHRT
               PROVE  /\ \A k \in Slots(cnt) : ~sym[k].auto <=> k < param_numb
                      /\ \A k \in Slots(param_numb) :
                           CalleeEbp + OffsetOf(k) = ArgumentPlace(k)
    BY DEF ArgumentsReached
  <2>1. size \in Nat /\ auto_top \in Nat
    BY Numbers DEF Inv, LayoutTypeOK
  <2>2. auto_size = size /\ param_numb = auto_top
    BY <2>1, UshortFits, LimitsAssumption DEF Inv, ParamInv
  <2>3. \A k \in Slots(cnt) : ~sym[k].auto <=> k < param_numb
    BY <2>1, <2>2, Numbers DEF Inv, TopInv
  <2>4. \A k \in 0..auto_top-1 : OffsetOf(k) = size + 4 + 2 + k * 4
    BY DEF Inv, ParamInv, Slots
  <2>5. \A n \in Nat, z \in Nat, k \in Nat :
          (-4 * n - 2 - 4 - z) + (z + 4 + 2 + k * 4) = -4 * n + 4 * k
    OBVIOUS
  <2> QED BY <2>1, <2>2, <2>3, <2>4, <2>5 DEF CalleeEbp, ArgumentPlace, Slots
<1> QED BY LayoutInvariant, <1>1, PTL

------------------------------------------------------------------------------
\* Types

Locals == [name : Names, auto : BOOLEAN, type : Types, value : Nat]
Tables == [vars : Seq(Locals), auto_size : 0..USHRT-1, param_numb : 0..MAX_VARIABLE,
           overrun : BOOLEAN]
Globals == [name : Names, isfunc : BOOLEAN, body : BOOLEAN, table : Tables]

Items ==
  [kind : {"variable", "function", "prototype", "body", "end", "use"}, name : Names]
    \cup [kind : {"param", "auto"}, name : Names, type : Types]
    \cup [kind : {"call"}, name : Names, arg : Nat]
Kinds ==
  {"variable", "function", "prototype", "body", "end", "use", "param", "auto", "call"}
Senses == {"global", "local", "function", "undefined", "none"}

\* A table of symbols: each name once, and all in their room.
TableOK(g) ==
  /\ g \in Seq(Globals) /\ Len(g) <= MAX_SYMBOL_TABLE_G
  /\ \A k \in 1..Len(g) : Len(g[k].table.vars) <= MAX_VARIABLE
  /\ \A k \in 1..Len(g), l \in 1..Len(g) : g[k].name = g[l].name => k = l

UnitOK ==
  /\ unit \in Seq(Items) /\ Len(unit) <= MaxUnit
  /\ first \in Seq(Senses) /\ Len(first) = Len(unit)

PlaceOK ==
  /\ pass \in {"PASS1", "LAYOUT", "PASS3", "DONE"}
  /\ func \in 0..Len(tbl_g) /\ (pass # "LAYOUT" => (where # "top" <=> func # 0))
  /\ where \in {"top", "params", "body"}
  /\ next \in Nat \ {0}
  /\ pass = "PASS1" => next = 1
  /\ pass = "LAYOUT" => next <= Len(tbl_g) + 1 /\ where = "top"
  /\ pass \in {"PASS3", "DONE"} => next <= Len(unit) + 1
  /\ err \in {"none", "multiple", "memory", "internal", "undefined", "l_kakko",
              "to_be_define", "param_number"}

\* What PASS1 has read without an error is in the table.
Live == pass # "PASS1" \/ err = "none"
NamesInv ==
  Live =>
    \A p \in 1..Len(unit) : unit[p].kind \in {"variable", "function"} =>
      \E k \in 1..Len(tbl_g) : tbl_g[k].name = unit[p].name

\* Until a table is laid out, its parameters come first.
Ordered(v) == \A a \in 1..Len(v), b \in 1..Len(v) : a < b /\ v[a].auto => v[b].auto
Pending(k) == pass = "PASS1" \/ (pass = "LAYOUT" /\ next <= k)
OrderInv ==
  /\ \A k \in 1..Len(tbl_g) : Pending(k) => Ordered(tbl_g[k].table.vars)
  /\ pass = "PASS1" /\ where = "params" =>
       \A l \in 1..Len(tbl_g[func].table.vars) : ~tbl_g[func].table.vars[l].auto

\* The layout that runs is the one of the function at next.
LayoutInv ==
  /\ Inv
  /\ pass = "LAYOUT" /\ func # 0 =>
       /\ func = next /\ tbl_g[func].isfunc
       /\ cnt = Len(tbl_g[func].table.vars) /\ sym = SymbolsOf(tbl_g[func].table.vars)

TypeInv == TableOK(tbl_g) /\ UnitOK /\ PlaceOK /\ NamesInv /\ OrderInv /\ LayoutInv

------------------------------------------------------------------------------
\* Tables

\* One entry of a table is another one, and the others are the same; one more entry.
Changes(g, h, k, s) ==
  Len(h) = Len(g) /\ h[k] = s /\ \A j \in 1..Len(g) : j # k => h[j] = g[j]
Extends(g, h, s) ==
  Len(h) = Len(g) + 1 /\ h[Len(g) + 1] = s /\ \A j \in 1..Len(g) : h[j] = g[j]

\* The entries of a table.
LEMMA Entries ==
  ASSUME NEW g, TableOK(g)
  PROVE  /\ Len(g) \in Nat /\ DOMAIN g = 1..Len(g) /\ \A k \in 1..Len(g) : g[k] \in Globals
BY ElementOfSeq, LenProperties DEF TableOK

\* The parts of an entry.
LEMMA GlobalProp ==
  ASSUME NEW s \in Globals
  PROVE  /\ s.name \in Names /\ s.isfunc \in BOOLEAN /\ s.body \in BOOLEAN
         /\ s.table \in Tables /\ s.table.vars \in Seq(Locals) /\ Len(s.table.vars) \in Nat
         /\ s.table.auto_size \in 0..USHRT-1 /\ s.table.param_numb \in 0..MAX_VARIABLE
         /\ s.table.overrun \in BOOLEAN
<1>1. /\ s.name \in Names /\ s.isfunc \in BOOLEAN /\ s.body \in BOOLEAN /\ s.table \in Tables
  BY DEF Globals
<1>2. /\ s.table.vars \in Seq(Locals)
      /\ s.table.auto_size \in 0..USHRT-1 /\ s.table.param_numb \in 0..MAX_VARIABLE
      /\ s.table.overrun \in BOOLEAN
  BY <1>1 DEF Tables
<1> QED BY <1>1, <1>2, LenProperties

\* An entry may change as long as it keeps its name.
LEMMA Changing ==
  ASSUME NEW g, TableOK(g), NEW k \in 1..Len(g), NEW s \in Globals, s.name = g[k].name,
         Len(s.table.vars) <= MAX_VARIABLE, NEW h, h = [g EXCEPT ![k] = s]
  PROVE  TableOK(h) /\ Changes(g, h, k, s)
<1>1. /\ h \in Seq(Globals) /\ Len(h) = Len(g)
      /\ \A j \in 1..Len(g) : h[j] = IF j = k THEN s ELSE g[j]
  BY ExceptSeq DEF TableOK
<1>2. Changes(g, h, k, s)
  BY <1>1 DEF Changes
<1>3. \A j \in 1..Len(h) : Len(h[j].table.vars) <= MAX_VARIABLE /\ h[j].name = g[j].name
  BY <1>1 DEF TableOK
<1> QED BY <1>1, <1>2, <1>3 DEF TableOK

\* An entry of a new name may be added.
LEMMA Adding ==
  ASSUME NEW g, TableOK(g), NEW s \in Globals, \A k \in 1..Len(g) : g[k].name # s.name,
         Len(s.table.vars) <= MAX_VARIABLE, Len(g) < MAX_SYMBOL_TABLE_G,
         NEW h, h = Append(g, s)
  PROVE  TableOK(h) /\ Extends(g, h, s)
<1>1. /\ h \in Seq(Globals) /\ Len(h) = Len(g) + 1 /\ Len(g) \in Nat
      /\ h[Len(g) + 1] = s /\ \A j \in 1..Len(g) : h[j] = g[j]
  BY AppendProperties, LenProperties DEF TableOK
<1>2. Extends(g, h, s)
  BY <1>1 DEF Extends
<1>3. ASSUME NEW j \in 1..Len(h) PROVE j = Len(g) + 1 \/ j \in 1..Len(g)
  BY <1>1
<1>4. \A j \in 1..Len(h) : Len(h[j].table.vars) <= MAX_VARIABLE
  BY <1>1, <1>3 DEF TableOK
<1>5. \A j \in 1..Len(h), k \in 1..Len(h) : h[j].name = h[k].name => j = k
  BY <1>1, <1>3 DEF TableOK
<1>6. Len(h) <= MAX_SYMBOL_TABLE_G
  BY <1>1, TablesAssumption
<1> QED BY <1>1, <1>2, <1>4, <1>5, <1>6 DEF TableOK

\* Items of the text.
LEMMA ItemProp ==
  ASSUME NEW x \in Items
  PROVE  x.kind \in Kinds /\ x.name \in Names
BY DEF Items, Kinds

\* What an item makes of unit, in the two passes.
Reads1(x, as) ==
  /\ pass = "PASS1" /\ next' = next
  /\ Len(unit') = Len(unit) + 1 /\ unit'[Len(unit) + 1] = x
  /\ \A p \in 1..Len(unit) : unit'[p] = unit[p]
  /\ first'[Len(unit) + 1] = as
  /\ \A p \in 1..Len(unit) : first'[p] = first[p]
Reads3(x) ==
  /\ pass = "PASS3" /\ UNCHANGED <<unit, first>>
  /\ next <= Len(unit) /\ unit[next] = x /\ next' = next + 1

\* Reading an item keeps the text well-formed, and is what Reads1 and Reads3 say.
LEMMA Reading ==
  ASSUME UnitOK, NEW x \in Items, NEW e \in Senses, Read(x, e)
  PROVE  UnitOK' /\ (Reads1(x, e) \/ Reads3(x))
<1>1. Len(unit) \in Nat /\ Len(first) = Len(unit)
  BY LenProperties DEF UnitOK
<1>2. CASE pass = "PASS1"
  <2>1. /\ Len(unit) < MaxUnit /\ unit' = Append(unit, x) /\ first' = Append(first, e)
        /\ next' = next
    BY <1>2 DEF Read
  <2>2. /\ unit' \in Seq(Items) /\ Len(unit') = Len(unit) + 1 /\ unit'[Len(unit) + 1] = x
        /\ \A p \in 1..Len(unit) : unit'[p] = unit[p]
    <3>1. unit \in Seq(Items)
      BY DEF UnitOK
    <3> HIDE DEF Items
    <3> QED BY <2>1, <3>1, AppendProperties
  <2>3. /\ first' \in Seq(Senses) /\ Len(first') = Len(first) + 1
        /\ first'[Len(first) + 1] = e
        /\ \A p \in 1..Len(first) : first'[p] = first[p]
    <3>1. first \in Seq(Senses) /\ e \in Senses /\ first' = Append(first, e)
      BY <2>1 DEF UnitOK
    <3>2. first' \in Seq(Senses)
      BY <3>1, AppendProperties, Zenon
    <3>3. Len(first') = Len(first) + 1
      BY <3>1, AppendProperties, Zenon
    <3>4. first'[Len(first) + 1] = e
      BY <3>1, AppendProperties, Zenon
    <3>5. \A p \in 1..Len(first) : first'[p] = first[p]
      BY <3>1, AppendProperties, ZenonT(40)
    <3> QED BY <3>2, <3>3, <3>4, <3>5
  <2>4. UnitOK'
    <3>1. Len(unit) + 1 <= MaxUnit
      BY <1>1, <2>1, TablesAssumption
    <3> QED BY <1>1, <2>2, <2>3, <3>1 DEF UnitOK
  <2> QED BY <1>1, <1>2, <2>1, <2>2, <2>3, <2>4 DEF Reads1
<1>3. CASE pass # "PASS1"
  BY <1>3 DEF Read, Reads3, UnitOK
<1> QED BY <1>2, <1>3

\* Symbols that enter a table.
LEMMA NewSymbols ==
  ASSUME NEW n \in Names
  PROVE  /\ Variable(n) \in Globals /\ Variable(n).name = n /\ ~Variable(n).isfunc
         /\ Variable(n).table.vars = <<>> /\ NoTable \in Tables /\ NoTable.vars = <<>>
         /\ ~Variable(n).table.overrun /\ ~NoTable.overrun
<1>1. NoTable \in Tables
  <2>1. <<>> \in Seq(Locals) /\ 0 \in 0..USHRT-1 /\ 0 \in 0..MAX_VARIABLE
    BY LimitsAssumption
  <2> QED BY <2>1 DEF NoTable, Tables
<1>2. Variable(n) \in Globals
  BY <1>1 DEF Variable, Globals
<1> QED BY <1>1, <1>2 DEF Variable, NoTable

\* The entry of a function whose name has been read.
LEMMA AsFunctionProp ==
  ASSUME NEW s \in Globals
  PROVE  /\ AsFunction(s) \in Globals /\ AsFunction(s).name = s.name
         /\ AsFunction(s).isfunc /\ ~AsFunction(s).body
         /\ pass = "PASS1" => AsFunction(s).table.vars = <<>> /\ ~AsFunction(s).table.overrun
         /\ pass # "PASS1" => AsFunction(s).table = s.table
<1>1. FuncTable(s.table) \in Tables /\ s.name \in Names
  BY NewSymbols, GlobalProp DEF FuncTable
<1>2. AsFunction(s) \in Globals
  BY <1>1 DEF AsFunction, Globals
<1> QED BY <1>2 DEF AsFunction, FuncTable, NoTable

------------------------------------------------------------------------------
\* The steps that read an item keep the types

Codes == {"none", "multiple", "memory", "internal", "undefined", "l_kakko",
          "to_be_define", "param_number"}
Persist(g, h) == Len(g) <= Len(h) /\ \A k \in 1..Len(g) : h[k].name = g[k].name

\* Names persist in a table that changes or grows.
LEMMA PersistProp ==
  ASSUME NEW g, TableOK(g), NEW h
  PROVE  /\ \A k, s : k \in 1..Len(g) /\ s.name = g[k].name /\ Changes(g, h, k, s) => Persist(g, h)
         /\ \A s : Extends(g, h, s) => Persist(g, h)
         /\ Persist(g, g)
<1>1. Len(g) \in Nat
  BY Entries
<1>2. ASSUME NEW k, NEW s, k \in 1..Len(g), s.name = g[k].name, Changes(g, h, k, s)
      PROVE  Persist(g, h)
  BY <1>1, <1>2 DEF Changes, Persist
<1>3. ASSUME NEW s, Extends(g, h, s) PROVE Persist(g, h)
  BY <1>1, <1>3 DEF Extends, Persist
<1> QED BY <1>1, <1>2, <1>3 DEF Persist

\* What all of them have in common.
LEMMA ReadType ==
  ASSUME TypeInv, NEW x \in Items, NEW as \in Senses, Read(x, as), err = "none",
         UNCHANGED <<pass, layoutVars>>,
         TableOK(tbl_g'), Persist(tbl_g, tbl_g'),
         pass = "PASS1" /\ err' = "none" /\ x.kind \in {"variable", "function"} =>
           \E k \in 1..Len(tbl_g') : tbl_g'[k].name = x.name,
         func' \in 0..Len(tbl_g'), where' \in {"top", "params", "body"},
         (where' # "top" <=> func' # 0), err' \in Codes, OrderInv'
  PROVE  TypeInv'
<1>1. UnitOK' /\ (Reads1(x, as) \/ Reads3(x))
  BY Reading DEF TypeInv
<1>2. Len(unit) \in Nat /\ Len(tbl_g) \in Nat
  BY Entries, LenProperties DEF TypeInv, UnitOK
<1>3. PlaceOK'
  <2>1. next' \in Nat \ {0} /\ pass' \in {"PASS1", "PASS3"}
    <3>1. next \in Nat \ {0} /\ pass' = pass
      BY DEF TypeInv, PlaceOK
    <3>2. next' = next \/ next' = next + 1
      BY <1>1 DEF Reads1, Reads3
    <3>3. pass \in {"PASS1", "PASS3"}
      BY <1>1 DEF Reads1, Reads3
    <3> QED BY <3>1, <3>2, <3>3
  <2>2. pass' = "PASS1" => next' = 1
    BY <1>1 DEF TypeInv, PlaceOK, Reads1, Reads3
  <2>3. pass' = "PASS3" => next' <= Len(unit') + 1
    BY <1>1, <1>2 DEF TypeInv, PlaceOK, Reads1, Reads3
  <2> QED BY <2>1, <2>2, <2>3 DEF PlaceOK, Codes
<1>4. NamesInv'
  <2> SUFFICES ASSUME Live', NEW p \in 1..Len(unit'), unit'[p].kind \in {"variable", "function"}
               PROVE  \E k \in 1..Len(tbl_g') : tbl_g'[k].name = unit'[p].name
    BY DEF NamesInv
  <2>1. Live
    BY DEF Live
  <2>2. CASE p \in 1..Len(unit) /\ unit'[p] = unit[p]
    <3>1. PICK k \in 1..Len(tbl_g) : tbl_g[k].name = unit[p].name
      BY <2>1, <2>2 DEF TypeInv, NamesInv
    <3>2. k \in 1..Len(tbl_g') /\ tbl_g'[k].name = tbl_g[k].name
      <4>1. Len(tbl_g') \in Nat
        BY Entries
      <4> QED BY <1>2, <4>1 DEF Persist
    <3> QED BY <2>2, <3>1, <3>2
  <2>3. CASE ~(p \in 1..Len(unit) /\ unit'[p] = unit[p])
    <3>0. ~Reads3(x)
      BY <2>3 DEF Reads3
    <3>1. Reads1(x, as)
      BY <1>1, <3>0
    <3>1a. p = Len(unit) + 1
      BY <3>1, <1>2, <2>3 DEF Reads1
    <3>2. unit'[p] = x /\ pass = "PASS1" /\ err' = "none"
      BY <3>1, <3>1a DEF Reads1, Live
    <3> QED BY <3>2
  <2> QED BY <2>2, <2>3
<1>5. LayoutInv'
  <2>1. Inv'
    BY StutterInv DEF TypeInv, LayoutInv
  <2>2. pass' # "LAYOUT"
    BY <1>1 DEF Reads1, Reads3
  <2> QED BY <2>1, <2>2 DEF LayoutInv
<1> QED BY <1>1, <1>3, <1>4, <1>5 DEF TypeInv

\* An error: nothing is registered.
LEMMA StopType ==
  ASSUME TypeInv, NEW x \in Items, NEW as \in Senses, Read(x, as), err = "none",
         NEW e \in Codes \ {"none"}, Stop(e), UNCHANGED layoutVars
  PROVE  TypeInv'
<1>1. UNCHANGED <<pass, tbl_g, func, where>> /\ err' = e
  BY DEF Stop
<1>2. TableOK(tbl_g') /\ Persist(tbl_g, tbl_g')
  BY <1>1, PersistProp DEF TypeInv
<1>3. OrderInv'
  <2>1. pass \in {"PASS1", "PASS3"}
    BY DEF Read
  <2> QED BY <1>1, <2>1 DEF TypeInv, OrderInv, Pending
<1>4. /\ func' \in 0..Len(tbl_g') /\ where' \in {"top", "params", "body"}
      /\ (where' # "top" <=> func' # 0)
  <2>1. pass # "LAYOUT"
    BY DEF Read
  <2> QED BY <1>1, <2>1 DEF TypeInv, PlaceOK
<1>5. err' \in Codes /\ err' # "none" /\ UNCHANGED <<pass, layoutVars>>
  BY <1>1
<1> QED BY <1>2, <1>3, <1>4, <1>5, ReadType

\* Nothing is registered, and no error.
LEMMA QuietType ==
  ASSUME TypeInv, NEW x \in Items, x.kind \notin {"variable", "function"},
         NEW as \in Senses, Read(x, as), err = "none",
         UNCHANGED <<pass, tbl_g, err, layoutVars>>,
         \/ UNCHANGED <<func, where>>
         \/ func' = 0 /\ where' = "top"
         \/ UNCHANGED func /\ where' = "body" /\ where = "params"
  PROVE  TypeInv'
<1>1. TableOK(tbl_g') /\ Persist(tbl_g, tbl_g')
  BY PersistProp DEF TypeInv
<1>2. OrderInv'
  <2>1. pass \in {"PASS1", "PASS3"}
    BY DEF Read
  <2> QED BY <2>1 DEF TypeInv, OrderInv, Pending
<1>3. Len(tbl_g) \in Nat
  BY Entries DEF TypeInv
<1>4. /\ func' \in 0..Len(tbl_g') /\ where' \in {"top", "params", "body"}
      /\ (where' # "top" <=> func' # 0)
  <2>1. pass # "LAYOUT"
    BY DEF Read
  <2> QED BY <1>3, <2>1 DEF TypeInv, PlaceOK
<1>5. err' \in Codes /\ UNCHANGED <<pass, layoutVars>>
  BY DEF Codes
<1> QED BY <1>1, <1>2, <1>4, <1>5, ReadType

\* The items are items.
LEMMA ItemsAre ==
  ASSUME NEW n \in Names
  PROVE  /\ \A k \in {"variable", "function", "prototype", "body", "end", "use"} :
              Item(k, n) \in Items /\ Item(k, n).kind = k /\ Item(k, n).name = n
         /\ \A t \in Types, k \in {"param", "auto"} :
              [kind |-> k, name |-> n, type |-> t] \in Items
         /\ \A a \in Nat : [kind |-> "call", name |-> n, arg |-> a] \in Items
BY DEF Item, Items

\* What a name can be taken for.
LEMMA ResolveProp ==
  ASSUME NEW n
  PROVE  Resolve(n) \in Senses
BY DEF Resolve, Senses

\* The slot of a name that is there.
LEMMA SlotProp ==
  ASSUME NEW g, TableOK(g), NEW k \in 1..Len(g)
  PROVE  (CHOOSE j \in DOMAIN g : g[j].name = g[k].name) = k
<1> DEFINE j == CHOOSE j \in DOMAIN g : g[j].name = g[k].name
<1>1. DOMAIN g = 1..Len(g)
  BY Entries
<1>2. j \in DOMAIN g /\ g[j].name = g[k].name
  BY <1>1
<1> QED BY <1>1, <1>2 DEF TableOK

\* What a local symbol does to the entry of its function.
PutLocal(g, f, x) == [g EXCEPT ![f].table.vars = Append(@, x)]

\* The entry of a function with one more symbol.
LEMMA AddingLocal ==
  ASSUME NEW g, TableOK(g), NEW f \in 1..Len(g), NEW x \in Locals,
         Len(g[f].table.vars) < MAX_VARIABLE,
         NEW h, h = PutLocal(g, f, x)
  PROVE  /\ TableOK(h) /\ Changes(g, h, f, h[f])
         /\ h[f].name = g[f].name /\ h[f].isfunc = g[f].isfunc /\ h[f].body = g[f].body
         /\ h[f].table.vars = Append(g[f].table.vars, x)
         /\ h[f].table.overrun = g[f].table.overrun
<1> DEFINE v == Append(g[f].table.vars, x)
           s == [g[f] EXCEPT !.table.vars = v]
<1>1. g[f] \in Globals /\ Len(g[f].table.vars) \in Nat /\ g[f].table.vars \in Seq(Locals)
  BY Entries, GlobalProp
<1>2. v \in Seq(Locals) /\ Len(v) = Len(g[f].table.vars) + 1
  BY <1>1, AppendProperties
<1>3. Len(v) <= MAX_VARIABLE
  BY <1>1, <1>2, LimitsAssumption
<1>4. h = [g EXCEPT ![f] = s]
  BY DEF PutLocal
<1> HIDE DEF v
<1>5. /\ s \in Globals /\ s.name = g[f].name /\ s.isfunc = g[f].isfunc
      /\ s.body = g[f].body /\ s.table.vars = v /\ s.table.overrun = g[f].table.overrun
  BY <1>1, <1>2 DEF Globals, Tables
<1> HIDE DEF s
<1>6. TableOK(h) /\ Changes(g, h, f, s)
  BY <1>3, <1>4, <1>5, Changing
<1>7. h[f] = s
  BY <1>6 DEF Changes
<1> QED BY <1>5, <1>6, <1>7 DEF v

\* What the write behind a full table does to the entry of its function.
PutBehind(g, f, a) == [g EXCEPT ![f].table = Overwrite(@, a)]

\* The entry of a function whose full table is written behind.
LEMMA Overwriting ==
  ASSUME NEW g, TableOK(g), NEW f \in 1..Len(g), NEW a \in Addresses,
         NEW h, h = PutBehind(g, f, a)
  PROVE  /\ TableOK(h) /\ Changes(g, h, f, h[f])
         /\ h[f].name = g[f].name /\ h[f].isfunc = g[f].isfunc /\ h[f].body = g[f].body
         /\ h[f].table.vars = g[f].table.vars
<1> DEFINE t == [g[f].table EXCEPT !.auto_size = a, !.overrun = TRUE]
           s == [g[f] EXCEPT !.table = t]
<1>1. g[f] \in Globals /\ g[f].table \in Tables /\ Len(g[f].table.vars) <= MAX_VARIABLE
  BY Entries, GlobalProp DEF TableOK
<1>2. a \in 0..USHRT-1
  BY TablesAssumption
<1>3. t \in Tables /\ t.vars = g[f].table.vars
  BY <1>1, <1>2 DEF Tables
<1>4. h = [g EXCEPT ![f] = s]
  BY DEF PutBehind, Overwrite
<1> HIDE DEF t
<1>5. /\ s \in Globals /\ s.name = g[f].name /\ s.isfunc = g[f].isfunc
      /\ s.body = g[f].body /\ s.table = t
  BY <1>1, <1>3 DEF Globals
<1> HIDE DEF s
<1>6. Len(s.table.vars) <= MAX_VARIABLE
  BY <1>1, <1>3, <1>5
<1>7. TableOK(h) /\ Changes(g, h, f, s)
  BY <1>4, <1>5, <1>6, Changing
<1>8. h[f] = s
  BY <1>7 DEF Changes
<1> QED BY <1>3, <1>5, <1>7, <1>8

\* A new symbol of a function.
LEMMA VarProp ==
  ASSUME NEW n \in Names, NEW auto \in BOOLEAN, NEW t \in Types
  PROVE  /\ Var(n, auto, t) \in Locals /\ Var(n, auto, t).name = n
         /\ Var(n, auto, t).auto = auto
BY DEF Var, Locals

\* A symbol at the end leaves the parameters first.
LEMMA OrderedAppend ==
  ASSUME NEW v \in Seq(Locals), Ordered(v), NEW x \in Locals,
         x.auto \/ \A l \in 1..Len(v) : ~v[l].auto
  PROVE  Ordered(Append(v, x))
<1>1. /\ Len(Append(v, x)) = Len(v) + 1 /\ Append(v, x)[Len(v) + 1] = x /\ Len(v) \in Nat
      /\ \A l \in 1..Len(v) : Append(v, x)[l] = v[l]
  BY AppendProperties, LenProperties
<1>2. ASSUME NEW a \in 1..Len(v)+1, NEW b \in 1..Len(v)+1, a < b, Append(v, x)[a].auto
      PROVE  Append(v, x)[b].auto
  <2>1. a \in 1..Len(v) /\ Append(v, x)[a] = v[a]
    BY <1>1, <1>2
  <2>2. CASE b = Len(v) + 1
    BY <1>1, <1>2, <2>1, <2>2
  <2>3. CASE b # Len(v) + 1
    <3>1. b \in 1..Len(v)
      BY <1>1, <2>3
    <3> QED BY <1>1, <1>2, <2>1, <3>1 DEF Ordered
  <2> QED BY <2>2, <2>3
<1> QED BY <1>1, <1>2 DEF Ordered

\* Parameter and AutoVariable keep the types.
LEMMA LocalType ==
  ASSUME TypeInv, NEW x \in Items, x.kind \notin {"variable", "function"}, NEW n \in Names,
         NEW auto \in BOOLEAN, NEW t \in Types, err = "none", Local(x, n, auto, t),
         where = IF auto THEN "body" ELSE "params"
  PROVE  TypeInv'
<1>0. Read(x, "local") /\ UNCHANGED layoutVars /\ "local" \in Senses
  BY DEF Local, Senses
<1>1. CASE LocalCheck(n) \in {"internal", "multiple"} /\ Stop(LocalCheck(n))
  <2> DEFINE e == LocalCheck(n)
  <2>1. e \in Codes \ {"none"} /\ Stop(e)
    BY <1>1 DEF Codes
  <2> HIDE DEF e
  <2> QED BY <1>0, <2>1, StopType
<1>1a. CASE /\ LocalCheck(n) = "memory"
            /\ \E a \in Addresses : tbl_g' = [tbl_g EXCEPT ![func].table = Overwrite(@, a)]
            /\ err' = "memory" /\ UNCHANGED <<pass, func, where, code>>
  <2>1. func \in 1..Len(tbl_g) /\ Len(tbl_g) \in Nat
    <3>1. Len(tbl_g) \in Nat
      BY Entries DEF TypeInv
    <3> QED BY <3>1 DEF TypeInv, PlaceOK
  <2>2. PICK a \in Addresses : tbl_g' = PutBehind(tbl_g, func, a)
    BY <1>1a DEF PutBehind
  <2>3. /\ TableOK(tbl_g') /\ Changes(tbl_g, tbl_g', func, tbl_g'[func])
        /\ tbl_g'[func].name = tbl_g[func].name
        /\ tbl_g'[func].table.vars = tbl_g[func].table.vars
    BY <2>1, <2>2, Overwriting DEF TypeInv
  <2>4. Persist(tbl_g, tbl_g')
    BY <2>1, <2>3, PersistProp DEF TypeInv
  <2>5. OrderInv'
    <3>1. pass \in {"PASS1", "PASS3"} /\ UNCHANGED <<pass, func, where>>
      BY <1>0, <1>1a DEF Read
    <3>2. /\ Len(tbl_g') = Len(tbl_g)
          /\ \A k \in 1..Len(tbl_g) : tbl_g'[k].table.vars = tbl_g[k].table.vars
      BY <2>3 DEF Changes
    <3>3. \A k \in 1..Len(tbl_g') : Pending(k)' => Ordered(tbl_g'[k].table.vars)
      BY <3>1, <3>2 DEF TypeInv, OrderInv, Pending
    <3>4. pass' = "PASS1" /\ where' = "params" =>
            \A l \in 1..Len(tbl_g'[func'].table.vars) : ~tbl_g'[func'].table.vars[l].auto
      BY <2>3, <3>1 DEF TypeInv, OrderInv
    <3> QED BY <3>3, <3>4 DEF OrderInv
  <2>6. /\ func' \in 0..Len(tbl_g') /\ where' \in {"top", "params", "body"}
        /\ (where' # "top" <=> func' # 0)
    <3>1. Len(tbl_g') = Len(tbl_g)
      BY <2>3 DEF Changes
    <3> QED BY <1>1a, <2>1, <3>1 DEF TypeInv, PlaceOK
  <2>7. err' \in Codes /\ UNCHANGED <<pass, layoutVars>>
    BY <1>0, <1>1a DEF Codes
  <2> QED BY <1>0, <2>3, <2>4, <2>5, <2>6, <2>7, ReadType
<1>2. CASE UNCHANGED <<pass, tbl_g, func, where, code, err>>
  BY <1>0, <1>2, QuietType
<1>3. CASE /\ LocalCheck(n) = "new"
           /\ tbl_g' = [tbl_g EXCEPT ![func].table.vars = Append(@, Var(n, auto, t))]
           /\ UNCHANGED <<pass, func, where, code, err>>
  <2>1. pass = "PASS1" /\ ~(Len(Table.vars) >= MAX_VARIABLE)
    BY <1>0, <1>3 DEF LocalCheck, Read
  <2>2. func \in 1..Len(tbl_g) /\ func \in Nat
    <3>1. Len(tbl_g) \in Nat
      BY Entries DEF TypeInv
    <3> QED BY <3>1 DEF TypeInv, PlaceOK
  <2>2a. tbl_g[func] \in Globals /\ Len(tbl_g[func].table.vars) \in Nat
         /\ tbl_g[func].table.vars \in Seq(Locals) /\ Len(tbl_g) \in Nat
    BY <2>2, Entries, GlobalProp DEF TypeInv
  <2>3. Len(tbl_g[func].table.vars) < MAX_VARIABLE
    BY <2>1, <2>2a, LimitsAssumption DEF Table
  <2> DEFINE z == Var(n, auto, t)
  <2>4. z \in Locals /\ z.auto = auto
    BY VarProp
  <2>5. tbl_g' = PutLocal(tbl_g, func, z)
    BY <1>3 DEF PutLocal
  <2> HIDE DEF z
  <2>6. /\ TableOK(tbl_g') /\ Changes(tbl_g, tbl_g', func, tbl_g'[func])
        /\ tbl_g'[func].name = tbl_g[func].name
        /\ tbl_g'[func].table.vars = Append(tbl_g[func].table.vars, z)
    BY <2>2, <2>3, <2>4, <2>5, AddingLocal DEF TypeInv
  <2>7. Persist(tbl_g, tbl_g')
    BY <2>2, <2>6, PersistProp DEF TypeInv
  <2>8. OrderInv'
    <3>1. Ordered(tbl_g'[func].table.vars)
      <4>1. Ordered(tbl_g[func].table.vars)
        BY <2>1, <2>2 DEF TypeInv, OrderInv, Pending
      <4>2. z.auto \/ \A l \in 1..Len(tbl_g[func].table.vars) : ~tbl_g[func].table.vars[l].auto
        BY <2>1, <2>4 DEF TypeInv, OrderInv
      <4> QED BY <2>2a, <2>4, <2>6, <4>1, <4>2, OrderedAppend
    <3>2. \A k \in 1..Len(tbl_g') : Ordered(tbl_g'[k].table.vars)
      BY <2>1, <2>6, <3>1 DEF TypeInv, OrderInv, Pending, Changes
    <3>3. ASSUME where' = "params", NEW l \in 1..Len(tbl_g'[func].table.vars)
          PROVE  ~tbl_g'[func].table.vars[l].auto
      <4>1. where = "params" /\ ~z.auto
        BY <1>3, <2>4, <3>3
      <4>2. /\ Len(tbl_g'[func].table.vars) = Len(tbl_g[func].table.vars) + 1
            /\ tbl_g'[func].table.vars[Len(tbl_g[func].table.vars) + 1] = z
            /\ \A j \in 1..Len(tbl_g[func].table.vars) :
                 tbl_g'[func].table.vars[j] = tbl_g[func].table.vars[j]
        <5> DEFINE v == tbl_g[func].table.vars
                   y == tbl_g'[func].table.vars
        <5>1. v \in Seq(Locals) /\ y = Append(v, z)
          BY <2>2a, <2>4, <2>6
        <5> HIDE DEF v, y, Locals
        <5>2. /\ Len(y) = Len(v) + 1 /\ y[Len(v) + 1] = z
              /\ \A j \in 1..Len(v) : y[j] = v[j]
          BY <2>4, <5>1, AppendProperties
        <5> QED BY <5>2 DEF v, y
      <4>3. \A j \in 1..Len(tbl_g[func].table.vars) : ~tbl_g[func].table.vars[j].auto
        BY <2>1, <4>1 DEF TypeInv, OrderInv
      <4>4. CASE l = Len(tbl_g[func].table.vars) + 1
        BY <4>1, <4>2, <4>4
      <4>5. CASE l # Len(tbl_g[func].table.vars) + 1
        <5>1. l \in 1..Len(tbl_g[func].table.vars)
          <6> DEFINE old == Len(tbl_g[func].table.vars)
                     new == Len(tbl_g'[func].table.vars)
          <6>1. old \in Nat
            BY <2>2a, LenProperties
          <6>2. new = old + 1 /\ l \in 1..new /\ l # old + 1
            BY <4>2, <4>5
          <6> HIDE DEF old, new
          <6>3. l \in 1..old
            BY <6>1, <6>2
          <6> QED BY <6>3 DEF old
        <5> QED BY <4>2, <4>3, <5>1
      <4> QED BY <4>4, <4>5
    <3>4. func' = func
      BY <1>3
    <3> QED BY <3>2, <3>3, <3>4 DEF OrderInv
  <2>9. /\ func' \in 0..Len(tbl_g') /\ where' \in {"top", "params", "body"}
        /\ (where' # "top" <=> func' # 0)
    <3>1. Len(tbl_g') = Len(tbl_g)
      BY <2>6 DEF Changes
    <3> QED BY <1>3, <3>1 DEF TypeInv, PlaceOK
  <2>10. err' \in Codes /\ UNCHANGED <<pass, layoutVars>>
    BY <1>0, <1>3 DEF Codes
  <2> QED BY <1>0, <2>6, <2>7, <2>8, <2>9, <2>10, ReadType
<1> QED BY <1>1, <1>1a, <1>2, <1>3 DEF Local

\* The same for Parameter.
LEMMA ParameterType ==
  ASSUME TypeInv, NEW n \in Names, NEW t \in Types, Parameter(n, t)
  PROVE  TypeInv'
<1> DEFINE x == [kind |-> "param", name |-> n, type |-> t]
<1>1. x \in Items /\ x.kind \notin {"variable", "function"}
  BY ItemsAre
<1>2. Local(x, n, FALSE, t) /\ err = "none" /\ where = "params"
  BY DEF Parameter, Parsing
<1> HIDE DEF x
<1> QED BY <1>1, <1>2, LocalType

\* The same for AutoVariable.
LEMMA AutoVariableType ==
  ASSUME TypeInv, NEW n \in Names, NEW t \in Types, AutoVariable(n, t)
  PROVE  TypeInv'
<1> DEFINE x == [kind |-> "auto", name |-> n, type |-> t]
<1>1. x \in Items /\ x.kind \notin {"variable", "function"}
  BY ItemsAre
<1>2. Local(x, n, TRUE, t) /\ err = "none" /\ where = "body"
  BY DEF AutoVariable, Parsing
<1> HIDE DEF x
<1> QED BY <1>1, <1>2, LocalType

\* What Register finds.
LEMMA RegisterProp ==
  ASSUME TableOK(tbl_g), NEW n \in Names
  PROVE  /\ Register(n) \in {"old", "new", "multiple", "memory"}
         /\ Register(n) = "new" =>
              (\A k \in 1..Len(tbl_g) : tbl_g[k].name # n) /\ Len(tbl_g) < MAX_SYMBOL_TABLE_G
         /\ Register(n) = "old" =>
              \E k \in 1..Len(tbl_g) : tbl_g[k].name = n /\ tbl_g[k].isfunc
         /\ Register(n) = "multiple" =>
              \E k \in 1..Len(tbl_g) : tbl_g[k].name = n /\ ~tbl_g[k].isfunc
         /\ Register(n) = "memory" => \A k \in 1..Len(tbl_g) : tbl_g[k].name # n
<1>1. DOMAIN tbl_g = 1..Len(tbl_g) /\ Len(tbl_g) \in Nat
  BY Entries
<1>2. IsGlobal(n) <=> \E k \in 1..Len(tbl_g) : tbl_g[k].name = n
  BY <1>1, Zenon DEF IsGlobal
<1>3. ASSUME NEW k \in 1..Len(tbl_g), tbl_g[k].name = n PROVE GlobalSlot(n) = k
  BY <1>3, SlotProp DEF GlobalSlot
<1>4. ~(Len(tbl_g) >= MAX_SYMBOL_TABLE_G) => Len(tbl_g) < MAX_SYMBOL_TABLE_G
  BY <1>1, TablesAssumption
<1>5. CASE IsGlobal(n)
  <2>1. PICK k \in 1..Len(tbl_g) : tbl_g[k].name = n
    BY <1>2, <1>5
  <2>2. GlobalSlot(n) = k
    BY <1>3, <2>1
  <2>3. Register(n) = IF tbl_g[k].isfunc THEN "old" ELSE "multiple"
    BY <1>5, <2>2 DEF Register, IsFunction
  <2> QED BY <2>1, <2>3
<1>6. CASE ~IsGlobal(n)
  <2>1. Register(n) = IF Len(tbl_g) >= MAX_SYMBOL_TABLE_G THEN "memory" ELSE "new"
    BY <1>6 DEF Register
  <2> QED BY <1>2, <1>4, <1>6, <2>1
<1> QED BY <1>5, <1>6

\* GlobalVariable keeps the types.
LEMMA GlobalVariableType ==
  ASSUME TypeInv, NEW n \in Names, GlobalVariable(n)
  PROVE  TypeInv'
<1> DEFINE x == Item("variable", n)
           r == IF pass = "PASS1" THEN Register(n) ELSE "old"
<1>1. x \in Items /\ x.name = n
  BY ItemsAre
<1>2. Read(x, "global") /\ err = "none" /\ where = "top" /\ UNCHANGED layoutVars
      /\ "global" \in Senses /\ pass \in {"PASS1", "PASS3"}
  BY DEF GlobalVariable, Parsing, Senses
<1>3. \/ r \in {"multiple", "memory"} /\ Stop(r)
      \/ /\ r \in {"old", "new"}
         /\ tbl_g' = IF r = "new" THEN Append(tbl_g, Variable(n)) ELSE tbl_g
         /\ UNCHANGED <<pass, func, where, err>>
  BY Zenon DEF GlobalVariable
<1>4. /\ r = "new" => pass = "PASS1" /\ (\A k \in 1..Len(tbl_g) : tbl_g[k].name # n)
                      /\ Len(tbl_g) < MAX_SYMBOL_TABLE_G
      /\ r = "old" /\ pass = "PASS1" => \E k \in 1..Len(tbl_g) : tbl_g[k].name = n
  BY RegisterProp DEF TypeInv
<1> HIDE DEF x, r
<1>5. CASE r \in {"multiple", "memory"} /\ Stop(r)
  <2>1. r \in Codes \ {"none"}
    BY <1>5 DEF Codes
  <2> QED BY <1>1, <1>2, <1>5, <2>1, StopType
<1>6. CASE /\ r \in {"old", "new"}
           /\ tbl_g' = IF r = "new" THEN Append(tbl_g, Variable(n)) ELSE tbl_g
           /\ UNCHANGED <<pass, func, where, err>>
  <2>0. Len(tbl_g) \in Nat
    BY Entries DEF TypeInv
  <2>1. /\ TableOK(tbl_g') /\ Persist(tbl_g, tbl_g') /\ OrderInv'
        /\ pass = "PASS1" => \E k \in 1..Len(tbl_g') : tbl_g'[k].name = n
    <3>1. CASE r = "new"
      <4> DEFINE s == Variable(n)
      <4>1. s \in Globals /\ s.name = n /\ s.table.vars = <<>> /\ Len(s.table.vars) <= MAX_VARIABLE
        BY NewSymbols, LimitsAssumption
      <4>2. tbl_g' = Append(tbl_g, s)
        BY <1>6, <3>1
      <4> HIDE DEF s
      <4>3. TableOK(tbl_g') /\ Extends(tbl_g, tbl_g', s)
        BY <1>4, <3>1, <4>1, <4>2, Adding DEF TypeInv
      <4>4. OrderInv'
        <5>1. Ordered(s.table.vars)
          BY <4>1 DEF Ordered
        <5>2. \A k \in 1..Len(tbl_g') : Ordered(tbl_g'[k].table.vars)
          BY <1>4, <2>0, <3>1, <4>3, <5>1 DEF TypeInv, OrderInv, Pending, Extends
        <5>3. where' = "top"
          BY <1>2, <1>6
        <5> QED BY <5>2, <5>3 DEF OrderInv
      <4>5. Len(tbl_g') \in 1..Len(tbl_g') /\ tbl_g'[Len(tbl_g')].name = n
        BY <2>0, <4>1, <4>3 DEF Extends
      <4>6. Persist(tbl_g, tbl_g')
        BY <4>3, PersistProp DEF TypeInv
      <4> QED BY <4>3, <4>4, <4>5, <4>6
    <3>2. CASE r = "old"
      <4>1. tbl_g' = tbl_g
        BY <1>6, <3>2
      <4>2. OrderInv'
        BY <1>2, <1>6, <4>1 DEF TypeInv, OrderInv, Pending
      <4>3. TableOK(tbl_g') /\ Persist(tbl_g, tbl_g')
        BY <4>1, PersistProp DEF TypeInv
      <4> QED BY <1>4, <3>2, <4>1, <4>2, <4>3
    <3> QED BY <1>6, <3>1, <3>2
  <2>2. /\ func' \in 0..Len(tbl_g') /\ where' \in {"top", "params", "body"}
        /\ (where' # "top" <=> func' # 0)
    <3>1. Len(tbl_g') \in Nat /\ Len(tbl_g) <= Len(tbl_g')
      BY <2>1, Entries DEF Persist
    <3> QED BY <1>2, <1>6, <2>0, <3>1 DEF TypeInv, PlaceOK
  <2>3. err' \in Codes /\ UNCHANGED <<pass, layoutVars>>
    BY <1>2, <1>6 DEF Codes
  <2> QED BY <1>1, <1>2, <2>1, <2>2, <2>3, ReadType
<1> QED BY <1>3, <1>5, <1>6

\* What the name of a function does to the table.
Named(n, f) ==
  /\ f \in 1..Len(tbl_g') /\ func' = f /\ where' = "params" /\ UNCHANGED <<pass, err>>
  /\ TableOK(tbl_g') /\ Persist(tbl_g, tbl_g')
  /\ tbl_g'[f].name = n /\ tbl_g'[f].isfunc /\ ~tbl_g'[f].body
  /\ \A k \in 1..Len(tbl_g) : k # f => tbl_g'[k] = tbl_g[k]
  /\ pass = "PASS1" => tbl_g'[f].table.vars = <<>> /\ ~tbl_g'[f].table.overrun
  /\ pass # "PASS1" => f \in 1..Len(tbl_g) /\ tbl_g'[f].table = tbl_g[f].table
  /\ \/ Len(tbl_g') = Len(tbl_g) /\ (pass = "PASS1" => tbl_g[f].isfunc)
     \/ /\ pass = "PASS1" /\ Len(tbl_g') = Len(tbl_g) + 1 /\ f = Len(tbl_g) + 1
        /\ \A k \in 1..Len(tbl_g) : tbl_g[k].name # n

\* Naming a function changes its entry only.
LEMMA NamedProp ==
  ASSUME TypeInv, NEW n \in Names, NEW g, TableOK(g), NEW f \in 1..Len(g), g[f].name = n,
         tbl_g' = [g EXCEPT ![f] = AsFunction(@)], func' = f, where' = "params",
         UNCHANGED <<pass, err>>,
         \/ g = tbl_g /\ (pass = "PASS1" => g[f].isfunc)
         \/ /\ pass = "PASS1" /\ Extends(tbl_g, g, Variable(n)) /\ f = Len(tbl_g) + 1
            /\ \A k \in 1..Len(tbl_g) : tbl_g[k].name # n
  PROVE  Named(n, f)
<1> DEFINE s == AsFunction(g[f])
<1>1. g[f] \in Globals /\ Len(g) \in Nat /\ Len(tbl_g) \in Nat
  BY Entries DEF TypeInv
<1>2. /\ s \in Globals /\ s.name = n /\ s.isfunc /\ ~s.body
      /\ pass = "PASS1" => s.table.vars = <<>> /\ ~s.table.overrun
      /\ pass # "PASS1" => s.table = g[f].table
  BY <1>1, AsFunctionProp
<1>3. Len(s.table.vars) <= MAX_VARIABLE
  <2>1. CASE pass = "PASS1"
    BY <1>2, <2>1, LimitsAssumption
  <2>2. CASE pass # "PASS1"
    BY <1>2, <2>2 DEF TableOK
  <2> QED BY <2>1, <2>2
<1>4. tbl_g' = [g EXCEPT ![f] = s]
  OBVIOUS
<1> HIDE DEF s
<1>5. TableOK(tbl_g') /\ Changes(g, tbl_g', f, s)
  BY <1>2, <1>3, <1>4, Changing
<1>6. CASE g = tbl_g /\ (pass = "PASS1" => g[f].isfunc)
  <2>1. Persist(tbl_g, tbl_g')
    BY <1>2, <1>5, <1>6, PersistProp
  <2> QED BY <1>2, <1>5, <1>6, <2>1 DEF Named, Changes
<1>7. CASE /\ pass = "PASS1" /\ Extends(tbl_g, g, Variable(n)) /\ f = Len(tbl_g) + 1
           /\ \A k \in 1..Len(tbl_g) : tbl_g[k].name # n
  <2>1. /\ Len(tbl_g') = Len(tbl_g) + 1
        /\ \A k \in 1..Len(tbl_g) : tbl_g'[k] = tbl_g[k]
    BY <1>1, <1>5, <1>7 DEF Extends, Changes
  <2>2. Persist(tbl_g, tbl_g')
    BY <1>1, <2>1 DEF Persist
  <2>3. f \in 1..Len(tbl_g') /\ tbl_g'[f] = s
    BY <1>1, <1>5, <1>7, <2>1 DEF Changes
  <2> QED BY <1>2, <1>5, <1>7, <2>1, <2>2, <2>3 DEF Named
<1> QED BY <1>6, <1>7

\* FunctionName refuses the name or names the function.
LEMMA FunctionNameProp ==
  ASSUME TypeInv, NEW n \in Names, FunctionName(n)
  PROVE  \/ /\ pass = "PASS1" /\ Register(n) \in {"multiple", "memory"} /\ Stop(Register(n))
         \/ \E f \in Nat : Named(n, f)
<1> DEFINE r == IF pass = "PASS1" THEN Register(n) ELSE "old"
           g == IF r = "new" THEN Append(tbl_g, Variable(n)) ELSE tbl_g
           f == CHOOSE k \in DOMAIN g : g[k].name = n
<1>1. Read(Item("function", n), "function") /\ pass \in {"PASS1", "PASS3"}
  BY DEF FunctionName, Parsing
<1>2. \/ r \in {"multiple", "memory"} /\ Stop(r)
      \/ /\ r \in {"old", "new"}
         /\ tbl_g' = [g EXCEPT ![f] = AsFunction(@)]
         /\ func' = f /\ where' = "params"
         /\ UNCHANGED <<pass, code, err>>
  BY Zenon DEF FunctionName
<1>3. /\ r = "new" => pass = "PASS1" /\ (\A k \in 1..Len(tbl_g) : tbl_g[k].name # n)
                      /\ Len(tbl_g) < MAX_SYMBOL_TABLE_G
      /\ r = "old" /\ pass = "PASS1" => \E k \in 1..Len(tbl_g) : tbl_g[k].name = n /\ tbl_g[k].isfunc
  BY RegisterProp DEF TypeInv
<1>4. ASSUME r = "old"
      PROVE  g = tbl_g /\ \E k \in 1..Len(tbl_g) :
                            tbl_g[k].name = n /\ (pass = "PASS1" => tbl_g[k].isfunc)
  <2>1. CASE pass = "PASS1"
    BY <1>3, <1>4, <2>1
  <2>2. CASE pass = "PASS3"
    <3>1. next \in Nat \ {0} /\ next <= Len(unit) /\ unit[next] = Item("function", n)
      BY <1>1, <2>2 DEF Read, TypeInv, PlaceOK
    <3>2. next \in 1..Len(unit) /\ unit[next].kind = "function" /\ unit[next].name = n
      BY <3>1, LenProperties DEF Item, TypeInv, UnitOK
    <3>3. \E k \in 1..Len(tbl_g) : tbl_g[k].name = n
      BY <2>2, <3>2 DEF TypeInv, NamesInv, Live
    <3> QED BY <1>4, <2>2, <3>3
  <2> QED BY <1>1, <1>4, <2>1, <2>2
<1>5. ASSUME r = "new"
      PROVE  /\ TableOK(g) /\ Extends(tbl_g, g, Variable(n))
             /\ Len(tbl_g) + 1 \in 1..Len(g) /\ g[Len(tbl_g) + 1].name = n
  <2> DEFINE s == Variable(n)
  <2>1. /\ s \in Globals /\ s.name = n
        /\ s.table.vars = <<>> /\ Len(s.table.vars) <= MAX_VARIABLE
    BY NewSymbols, LimitsAssumption
  <2>2. g = Append(tbl_g, s) /\ Len(tbl_g) \in Nat
    BY <1>5, Entries DEF TypeInv
  <2> HIDE DEF s, g
  <2>3. TableOK(g) /\ Extends(tbl_g, g, s)
    BY <1>3, <1>5, <2>1, <2>2, Adding DEF TypeInv
  <2>4. Len(tbl_g) + 1 \in 1..Len(g) /\ g[Len(tbl_g) + 1].name = n
    BY <2>1, <2>2, <2>3 DEF Extends
  <2> QED BY <2>3, <2>4 DEF s
<1> HIDE DEF g, r
<1>6. ASSUME TableOK(g), NEW k \in 1..Len(g), g[k].name = n PROVE f = k
  BY <1>6, SlotProp
<1>7. CASE r \in {"multiple", "memory"} /\ Stop(r)
  <2>1. pass = "PASS1" /\ r = Register(n)
    BY <1>1, <1>7 DEF r
  <2> QED BY <1>7, <2>1
<1> HIDE DEF f
<1>8. CASE /\ r \in {"old", "new"}
           /\ tbl_g' = [g EXCEPT ![f] = AsFunction(@)]
           /\ func' = f /\ where' = "params"
           /\ UNCHANGED <<pass, code, err>>
  <2>1. CASE r = "old"
    <3>1. PICK k \in 1..Len(tbl_g) : tbl_g[k].name = n /\ (pass = "PASS1" => tbl_g[k].isfunc)
      BY <1>4, <2>1
    <3>2. g = tbl_g /\ f = k /\ TableOK(g) /\ k \in Nat
      BY <1>4, <1>6, <2>1, <3>1 DEF TypeInv
    <3>3. Named(n, f)
      BY <1>8, <3>1, <3>2, NamedProp
    <3> QED BY <3>2, <3>3
  <2>2. CASE r = "new"
    <3>1. f = Len(tbl_g) + 1 /\ f \in Nat /\ f \in 1..Len(g) /\ TableOK(g) /\ g[f].name = n
      BY <1>5, <1>6, <2>2
    <3>2. Named(n, f)
      BY <1>3, <1>5, <1>8, <2>2, <3>1, NamedProp
    <3> QED BY <3>1, <3>2
  <2> QED BY <1>8, <2>1, <2>2
<1> QED BY <1>2, <1>7, <1>8

\* FunctionName keeps the types.
LEMMA FunctionNameType ==
  ASSUME TypeInv, NEW n \in Names, FunctionName(n)
  PROVE  TypeInv'
<1> DEFINE x == Item("function", n)
<1>1. x \in Items /\ x.name = n
  BY ItemsAre
<1>2. Read(x, "function") /\ err = "none" /\ UNCHANGED layoutVars /\ "function" \in Senses
      /\ pass \in {"PASS1", "PASS3"}
  BY DEF FunctionName, Parsing, Senses
<1> HIDE DEF x
<1>3. CASE pass = "PASS1" /\ Register(n) \in {"multiple", "memory"} /\ Stop(Register(n))
  <2> DEFINE e == Register(n)
  <2>1. e \in Codes \ {"none"} /\ Stop(e)
    BY <1>3 DEF Codes
  <2> HIDE DEF e
  <2> QED BY <1>1, <1>2, <2>1, StopType
<1>4. CASE \E f \in Nat : Named(n, f)
  <2>1. PICK f \in Nat : Named(n, f)
    BY <1>4
  <2>2. TableOK(tbl_g') /\ Persist(tbl_g, tbl_g') /\ Len(tbl_g') \in Nat /\ Len(tbl_g) \in Nat
    BY <2>1, Entries DEF Named, TypeInv
  <2>3. OrderInv'
    <3>1. CASE pass = "PASS1"
      <4>1. ASSUME NEW k \in 1..Len(tbl_g') PROVE Ordered(tbl_g'[k].table.vars)
        <5>1. CASE k = f
          BY <2>1, <3>1, <5>1 DEF Named, Ordered
        <5>2. CASE k # f
          <6>1. k \in 1..Len(tbl_g) /\ tbl_g'[k] = tbl_g[k]
            BY <2>1, <2>2, <5>2 DEF Named
          <6> QED BY <3>1, <6>1 DEF TypeInv, OrderInv, Pending
        <5> QED BY <5>1, <5>2
      <4>2. \A l \in 1..Len(tbl_g'[func'].table.vars) : ~tbl_g'[func'].table.vars[l].auto
        BY <2>1, <3>1 DEF Named
      <4> QED BY <4>1, <4>2 DEF OrderInv
    <3>2. CASE pass = "PASS3"
      BY <2>1, <3>2 DEF Named, OrderInv, Pending
    <3> QED BY <1>2, <3>1, <3>2
  <2>4. /\ func' \in 0..Len(tbl_g') /\ where' \in {"top", "params", "body"}
        /\ (where' # "top" <=> func' # 0)
    BY <2>1, <2>2 DEF Named
  <2>5. err' \in Codes /\ UNCHANGED <<pass, layoutVars>>
        /\ \E k \in 1..Len(tbl_g') : tbl_g'[k].name = n
    BY <1>2, <2>1 DEF Codes, Named
  <2> QED BY <1>1, <1>2, <2>2, <2>3, <2>4, <2>5, ReadType
<1> QED BY <1>3, <1>4, FunctionNameProp

\* The current function is in the table.
LEMMA NameOfCurrent ==
  ASSUME TypeInv, where # "top"
  PROVE  func \in 1..Len(tbl_g) /\ tbl_g[func] \in Globals /\ tbl_g[func].name \in Names
<1>1. Len(tbl_g) \in Nat
  BY Entries DEF TypeInv
<1>2. func \in 1..Len(tbl_g)
  BY <1>1 DEF TypeInv, PlaceOK
<1> QED BY <1>2, Entries, GlobalProp DEF TypeInv

\* Prototype and EndBody keep the types.
LEMMA LeavingType ==
  ASSUME TypeInv, Prototype \/ EndBody
  PROVE  TypeInv'
<1>1. CASE Prototype
  <2> DEFINE x == Item("prototype", tbl_g[func].name)
  <2>1. where = "params" /\ Read(x, "none") /\ err = "none" /\ func' = 0 /\ where' = "top"
        /\ UNCHANGED <<pass, tbl_g, err, layoutVars>> /\ "none" \in Senses
    BY <1>1 DEF Prototype, Parsing, Senses
  <2>2. x \in Items /\ x.kind \notin {"variable", "function"}
    BY <2>1, NameOfCurrent, ItemsAre
  <2> HIDE DEF x
  <2> QED BY <2>1, <2>2, QuietType
<1>2. CASE EndBody
  <2> DEFINE x == Item("end", tbl_g[func].name)
  <2>1. where = "body" /\ Read(x, "none") /\ err = "none" /\ func' = 0 /\ where' = "top"
        /\ UNCHANGED <<pass, tbl_g, err, layoutVars>> /\ "none" \in Senses
    BY <1>2 DEF EndBody, Parsing, Senses
  <2>2. x \in Items /\ x.kind \notin {"variable", "function"}
    BY <2>1, NameOfCurrent, ItemsAre
  <2> HIDE DEF x
  <2> QED BY <2>1, <2>2, QuietType
<1> QED BY <1>1, <1>2

\* What a body does to the table.
Bodied ==
  /\ where' = "body" /\ UNCHANGED <<pass, func, err>>
  /\ TableOK(tbl_g') /\ Persist(tbl_g, tbl_g')
  /\ Changes(tbl_g, tbl_g', func, tbl_g'[func])
  /\ tbl_g'[func].name = tbl_g[func].name /\ tbl_g'[func].isfunc = tbl_g[func].isfunc
  /\ tbl_g'[func].table = tbl_g[func].table
  /\ pass = "PASS1" => tbl_g'[func].body /\ ~tbl_g[func].body
  /\ pass # "PASS1" => tbl_g' = tbl_g

\* Body refuses a second body or enters it.
LEMMA BodyProp ==
  ASSUME TypeInv, Body
  PROVE  \/ pass = "PASS1" /\ tbl_g[func].body /\ Stop("multiple")
         \/ Bodied /\ Emit(Label(tbl_g[func].name))
<1>1. where = "params"
  BY DEF Body, Parsing
<1>2. /\ func \in 1..Len(tbl_g) /\ tbl_g[func] \in Globals
      /\ Len(tbl_g[func].table.vars) <= MAX_VARIABLE
  BY <1>1, NameOfCurrent DEF TypeInv, TableOK
<1>3. CASE pass = "PASS1" /\ tbl_g[func].body
  BY <1>3, Zenon DEF Body
<1>4. CASE ~(pass = "PASS1" /\ tbl_g[func].body)
  <2>1. /\ tbl_g' = IF pass = "PASS1" THEN [tbl_g EXCEPT ![func].body = TRUE] ELSE tbl_g
        /\ Emit(Label(tbl_g[func].name))
        /\ where' = "body" /\ UNCHANGED <<pass, func, err>>
    BY <1>4, Zenon DEF Body
  <2> DEFINE s == [tbl_g[func] EXCEPT !.body = TRUE]
  <2>2. /\ s \in Globals /\ s.name = tbl_g[func].name /\ s.isfunc = tbl_g[func].isfunc
        /\ s.table = tbl_g[func].table /\ s.body
    BY <1>2 DEF Globals
  <2>3. CASE pass = "PASS1"
    <3>1. tbl_g' = [tbl_g EXCEPT ![func] = s]
      BY <2>1, <2>3
    <3> HIDE DEF s
    <3>2. TableOK(tbl_g') /\ Changes(tbl_g, tbl_g', func, s)
      BY <1>2, <2>2, <3>1, Changing DEF TypeInv
    <3>3. Persist(tbl_g, tbl_g') /\ tbl_g'[func] = s
      BY <1>2, <2>2, <3>2, PersistProp DEF TypeInv, Changes
    <3> QED BY <1>4, <2>1, <2>2, <2>3, <3>2, <3>3 DEF Bodied
  <2>4. CASE pass # "PASS1"
    <3>1. tbl_g' = tbl_g
      BY <2>1, <2>4
    <3>2. TableOK(tbl_g') /\ Persist(tbl_g, tbl_g') /\ Changes(tbl_g, tbl_g', func, tbl_g'[func])
      BY <3>1, PersistProp DEF TypeInv, Changes
    <3> QED BY <2>1, <2>4, <3>1, <3>2 DEF Bodied
  <2> QED BY <2>3, <2>4
<1> QED BY <1>3, <1>4

\* Body keeps the types.
LEMMA BodyType ==
  ASSUME TypeInv, Body
  PROVE  TypeInv'
<1> DEFINE x == Item("body", tbl_g[func].name)
<1>1. where = "params" /\ Read(x, "none") /\ err = "none" /\ UNCHANGED layoutVars
      /\ "none" \in Senses /\ pass \in {"PASS1", "PASS3"}
  BY DEF Body, Parsing, Senses
<1>2. x \in Items /\ x.kind \notin {"variable", "function"} /\ func \in 1..Len(tbl_g)
  BY <1>1, NameOfCurrent, ItemsAre
<1> HIDE DEF x
<1>3. CASE Stop("multiple")
  <2>1. "multiple" \in Codes \ {"none"}
    BY DEF Codes
  <2> QED BY <1>1, <1>2, <1>3, <2>1, StopType
<1>4. CASE Bodied
  <2>1. TableOK(tbl_g') /\ Persist(tbl_g, tbl_g') /\ where' = "body"
        /\ UNCHANGED <<pass, func, err>> /\ Len(tbl_g') = Len(tbl_g)
    BY <1>4 DEF Bodied, Changes
  <2>2. OrderInv'
    <3>1. \A k \in 1..Len(tbl_g) : tbl_g'[k].table = tbl_g[k].table
      BY <1>4 DEF Bodied, Changes
    <3> QED BY <1>1, <2>1, <3>1 DEF TypeInv, OrderInv, Pending
  <2>3. /\ func' \in 0..Len(tbl_g') /\ where' \in {"top", "params", "body"}
        /\ (where' # "top" <=> func' # 0)
    BY <1>2, <2>1 DEF TypeInv, PlaceOK
  <2>4. err' \in Codes /\ UNCHANGED <<pass, layoutVars>>
    BY <1>1, <2>1 DEF Codes
  <2> QED BY <1>1, <1>2, <2>1, <2>2, <2>3, <2>4, ReadType
<1> QED BY <1>3, <1>4, BodyProp

\* Use keeps the types.
LEMMA UseType ==
  ASSUME TypeInv, NEW n \in Names, Use(n)
  PROVE  TypeInv'
<1> DEFINE x == Item("use", n)
           as == Resolve(n)
<1>1. Read(x, as) /\ err = "none" /\ UNCHANGED layoutVars /\ as \in Senses
  BY ResolveProp DEF Use, Parsing
<1>2. x \in Items /\ x.kind \notin {"variable", "function"}
  BY ItemsAre
<1>3. \/ Stop("undefined") \/ Stop("l_kakko")
      \/ UNCHANGED <<pass, tbl_g, func, where, err>>
  BY DEF Use
<1>4. {"undefined", "l_kakko"} \subseteq Codes \ {"none"}
  BY DEF Codes
<1> HIDE DEF x, as
<1>5. CASE Stop("undefined")
  BY <1>1, <1>2, <1>4, <1>5, StopType
<1>6. CASE Stop("l_kakko")
  BY <1>1, <1>2, <1>4, <1>6, StopType
<1>7. CASE UNCHANGED <<pass, tbl_g, func, where, err>>
  BY <1>1, <1>2, <1>7, QuietType
<1> QED BY <1>3, <1>5, <1>6, <1>7

\* Call keeps the types.
LEMMA CallType ==
  ASSUME TypeInv, NEW n \in Names, NEW a \in 0..MAX_PARAM, Call(n, a)
  PROVE  TypeInv'
<1> DEFINE x == [kind |-> "call", name |-> n, arg |-> a]
           as == Resolve(n)
<1>1. Read(x, as) /\ err = "none" /\ UNCHANGED layoutVars /\ as \in Senses
  BY ResolveProp DEF Call, Parsing
<1>2. x \in Items /\ x.kind \notin {"variable", "function"}
  BY ItemsAre, TablesAssumption
<1>3. \/ Stop("undefined") \/ Stop("to_be_define") \/ Stop("param_number")
      \/ UNCHANGED <<pass, tbl_g, func, where, err>>
  BY DEF Call
<1>4. {"undefined", "to_be_define", "param_number"} \subseteq Codes \ {"none"}
  BY DEF Codes
<1> HIDE DEF x, as
<1>5. CASE Stop("undefined")
  BY <1>1, <1>2, <1>4, <1>5, StopType
<1>6. CASE Stop("to_be_define")
  BY <1>1, <1>2, <1>4, <1>6, StopType
<1>7. CASE Stop("param_number")
  BY <1>1, <1>2, <1>4, <1>7, StopType
<1>8. CASE UNCHANGED <<pass, tbl_g, func, where, err>>
  BY <1>1, <1>2, <1>8, QuietType
<1> QED BY <1>3, <1>5, <1>6, <1>7, <1>8

------------------------------------------------------------------------------
\* The steps of main and of the layout keep the types

\* The symbols of a table are what FrameLayout starts from.
LEMMA SymbolsProp ==
  ASSUME NEW v \in Seq(Locals)
  PROVE  /\ SymbolsOf(v) \in [Slots(Len(v)) -> Symbols]
         /\ \A k \in Slots(Len(v)) : SymbolsOf(v)[k].auto = v[k+1].auto
         /\ Ordered(v) => ParamsFirst(Len(v), SymbolsOf(v))
<1>1. Len(v) \in Nat
  BY LenProperties
<1>2. ASSUME NEW k \in Slots(Len(v))
      PROVE  /\ k + 1 \in 1..Len(v) /\ v[k+1] \in Locals
             /\ SymbolsOf(v)[k] = [auto |-> v[k+1].auto, type |-> v[k+1].type]
  <2>1. k + 1 \in 1..Len(v)
    BY <1>1 DEF Slots
  <2> QED BY <2>1, ElementOfSeq DEF SymbolsOf
<1>3. \A k \in Slots(Len(v)) : SymbolsOf(v)[k] \in Symbols /\ SymbolsOf(v)[k].auto = v[k+1].auto
  <2> SUFFICES ASSUME NEW k \in Slots(Len(v))
               PROVE  SymbolsOf(v)[k] \in Symbols /\ SymbolsOf(v)[k].auto = v[k+1].auto
    OBVIOUS
  <2> DEFINE a == v[k+1].auto
             t == v[k+1].type
  <2>1. a \in BOOLEAN /\ t \in Types /\ SymbolsOf(v)[k] = [auto |-> a, type |-> t]
    BY <1>2 DEF Locals
  <2> HIDE DEF a, t
  <2>2. SymbolsOf(v)[k] \in Symbols /\ SymbolsOf(v)[k].auto = a
    BY <2>1 DEF Symbols
  <2> QED BY <2>2 DEF a
<1>4. SymbolsOf(v) \in [Slots(Len(v)) -> Symbols]
  BY <1>2, <1>3 DEF SymbolsOf
<1>5. ASSUME Ordered(v), NEW k \in Slots(Len(v)), NEW l \in Slots(Len(v)), k < l,
             SymbolsOf(v)[k].auto
      PROVE  SymbolsOf(v)[l].auto
  <2>1. k + 1 < l + 1 /\ v[k+1].auto /\ k + 1 \in 1..Len(v) /\ l + 1 \in 1..Len(v)
    BY <1>1, <1>2, <1>3, <1>5 DEF Slots
  <2>2. v[l+1].auto
    BY <1>5, <2>1 DEF Ordered
  <2> QED BY <1>3, <2>2
<1> QED BY <1>3, <1>4, <1>5 DEF ParamsFirst

\* The invariant of FrameLayout where it is started.
LEMMA InitInvNext == (Init => Inv)'
BY InitInv, PTL

\* The invariant of FrameLayout at each of its steps.
LEMMA LayoutKeepsInv == Inv /\ Next => Inv'
BY FindAutoTopInv, SortSkipInv, SortSwapInv, SortDoneInv, PlaceIsInv, CloseFrameInv,
   PlaceParamInv, ReturnInv DEF Next

\* A layout leaves the symbols alone.
LEMMA NextKeeps == Next => UNCHANGED <<cnt, sym>>
BY DEF Next, FindAutoTop, SortSkip, SortSwap, SortDone, Place, CloseFrame, PlaceParam, Return

\* What variable_addr_cal leaves in the table of a function.
LEMMA LaidOutProp ==
  ASSUME Inv, NEW t \in Tables, NEW v, v = t.vars, cnt = Len(v)
  PROVE  /\ LaidOut(t) \in Tables /\ Len(LaidOut(t).vars) = Len(v)
         /\ LaidOut(t).auto_size = auto_size /\ LaidOut(t).param_numb = param_numb
         /\ LaidOut(t).overrun = t.overrun
         /\ \A k \in 1..Len(v) :
              /\ tbl[k-1] + 1 \in 1..Len(v)
              /\ LaidOut(t).vars[k].name = v[tbl[k-1] + 1].name
              /\ LaidOut(t).vars[k].auto = v[tbl[k-1] + 1].auto
              /\ LaidOut(t).vars[k].value = value[tbl[k-1]]
<1>0. v \in Seq(Locals)
  BY DEF Tables
<1>1. Len(v) \in Nat /\ DOMAIN v = 1..Len(v) /\ \A k \in 1..Len(v) : v[k] \in Locals
  BY <1>0, ElementOfSeq, LenProperties
<1>2. /\ tbl \in [Slots(cnt) -> Slots(cnt)] /\ value \in [Slots(cnt) -> Nat]
      /\ auto_size \in 0..USHRT-1 /\ param_numb \in 0..cnt /\ cnt \in 0..MAX_VARIABLE
  BY DEF Inv, LayoutTypeOK
<1>3. ASSUME NEW k \in 1..Len(v)
      PROVE  tbl[k-1] + 1 \in 1..Len(v) /\ value[tbl[k-1]] \in Nat
  <2>1. k - 1 \in Slots(cnt)
    BY <1>1 DEF Slots
  <2>2. tbl[k-1] \in Slots(cnt)
    BY <1>2, <2>1
  <2> QED BY <1>1, <1>2, <2>2 DEF Slots
<1> DEFINE z(k) == [v[tbl[k-1] + 1] EXCEPT !.value = value[tbl[k-1]]]
           w == [k \in DOMAIN v |-> z(k)]
<1>4. ASSUME NEW k \in 1..Len(v)
      PROVE  /\ z(k) \in Locals /\ z(k).name = v[tbl[k-1] + 1].name
             /\ z(k).auto = v[tbl[k-1] + 1].auto /\ z(k).value = value[tbl[k-1]]
  BY <1>1, <1>3 DEF Locals
<1>5. LaidOut(t) = [t EXCEPT !.vars = w, !.auto_size = auto_size, !.param_numb = param_numb]
  BY DEF LaidOut, Arranged
<1> HIDE DEF z
<1>6. w \in Seq(Locals) /\ Len(w) = Len(v) /\ \A k \in 1..Len(v) : w[k] = z(k)
  <2>1. w \in [1..Len(v) -> Locals]
    BY <1>1, <1>4
  <2>2. w \in Seq(Locals)
    BY <1>1, <2>1, SeqDef
  <2>3. DOMAIN w = 1..Len(v)
    BY <2>1
  <2>4. Len(w) = Len(v)
    BY <1>1, <2>2, <2>3, LenProperties
  <2> QED BY <1>1, <2>2, <2>4
<1> HIDE DEF w
<1>7. param_numb \in 0..MAX_VARIABLE
  BY <1>2, LimitsAssumption
<1>8. /\ LaidOut(t) \in Tables /\ LaidOut(t).vars = w /\ LaidOut(t).overrun = t.overrun
      /\ LaidOut(t).auto_size = auto_size /\ LaidOut(t).param_numb = param_numb
  BY <1>2, <1>5, <1>6, <1>7 DEF Tables
<1> QED BY <1>3, <1>4, <1>6, <1>8

\* The steps of main that only move on.
LEMMA MovingType ==
  ASSUME TypeInv, EndPass1 \/ SkipVariable \/ StartPass3 \/ EndPass3
  PROVE  TypeInv'
<1>1. UNCHANGED <<tbl_g, func, where, unit, first, code, err, layoutVars>>
  BY DEF EndPass1, SkipVariable, StartPass3, EndPass3
<1>2. Len(tbl_g) \in Nat /\ Len(unit) \in Nat
  BY Entries, LenProperties DEF TypeInv, UnitOK
<1>3. TableOK(tbl_g') /\ UnitOK'
  BY <1>1 DEF TypeInv, UnitOK
<1>4. PlaceOK'
  <2>1. CASE EndPass1
    BY <1>1, <1>2, <2>1 DEF EndPass1, Parsing, TypeInv, PlaceOK
  <2>2. CASE SkipVariable
    BY <1>1, <1>2, <2>2 DEF SkipVariable, Laying, TypeInv, PlaceOK
  <2>3. CASE StartPass3
    <3>1. func = 0
      BY <1>2, <2>3 DEF StartPass3, Laying, TypeInv, PlaceOK, LayoutInv
    <3> QED BY <1>1, <1>2, <2>3, <3>1 DEF StartPass3, Laying, TypeInv, PlaceOK
  <2>4. CASE EndPass3
    BY <1>1, <1>2, <2>4 DEF EndPass3, Parsing, TypeInv, PlaceOK
  <2> QED BY <2>1, <2>2, <2>3, <2>4
<1>5. NamesInv'
  <2>1. Live
    BY DEF EndPass1, SkipVariable, StartPass3, EndPass3, Parsing, Laying, Live
  <2> QED BY <1>1, <2>1 DEF TypeInv, NamesInv
<1>6. OrderInv'
  <2>1. \A k \in 1..Len(tbl_g) : Pending(k)' => Pending(k)
    BY <1>2 DEF EndPass1, SkipVariable, StartPass3, EndPass3, Parsing, Laying, Pending, TypeInv,
                PlaceOK
  <2>2. pass' # "PASS1"
    BY DEF EndPass1, SkipVariable, StartPass3, EndPass3, Laying
  <2> QED BY <1>1, <2>1, <2>2 DEF TypeInv, OrderInv
<1>7. LayoutInv'
  <2>1. Inv'
    BY <1>1, StutterInv DEF TypeInv, LayoutInv
  <2>2. CASE EndPass1
    <3>1. func = 0
      BY <2>2 DEF EndPass1, Parsing, TypeInv, PlaceOK
    <3> QED BY <1>1, <2>1, <3>1 DEF LayoutInv
  <2>3. CASE SkipVariable
    <3>1. func = 0
      BY <2>3 DEF SkipVariable, Laying, TypeInv, LayoutInv
    <3> QED BY <1>1, <2>1, <3>1 DEF LayoutInv
  <2>4. CASE StartPass3 \/ EndPass3
    BY <2>1, <2>4 DEF StartPass3, EndPass3, LayoutInv
  <2> QED BY <2>2, <2>3, <2>4
<1> QED BY <1>3, <1>4, <1>5, <1>6, <1>7 DEF TypeInv

\* CallLayout keeps the types: it starts FrameLayout in an initial state.
LEMMA CallLayoutType ==
  ASSUME TypeInv, CallLayout
  PROVE  TypeInv'
<1> DEFINE v == tbl_g[next].table.vars
           s == SymbolsOf(v)
<1>1. /\ pass = "LAYOUT" /\ err = "none" /\ next <= Len(tbl_g) /\ tbl_g[next].isfunc
      /\ func = 0 /\ func' = next
      /\ UNCHANGED <<pass, tbl_g, where, unit, next, first, code, err>>
      /\ Fresh'
  BY DEF CallLayout, Laying, Fresh
<1>2. cnt' = Len(v) /\ sym' = s /\ tbl' = Start(Len(v), s).tbl
      /\ value' = Start(Len(v), s).value
  BY DEF CallLayout, Start
<1>3. next \in 1..Len(tbl_g) /\ Len(tbl_g) \in Nat
  BY <1>1, Entries DEF TypeInv, PlaceOK
<1>4. tbl_g[next] \in Globals
  BY <1>3, Entries DEF TypeInv
<1>5. v \in Seq(Locals) /\ Len(v) \in Nat /\ Len(v) <= MAX_VARIABLE /\ Ordered(v)
  BY <1>1, <1>3, <1>4, GlobalProp DEF TypeInv, TableOK, OrderInv, Pending
<1>6. s \in [Slots(Len(v)) -> Symbols] /\ ParamsFirst(Len(v), s)
  BY <1>5, SymbolsProp
<1>7. LayoutInv'
  <2>1. Len(v) \in 0..MAX_VARIABLE
    BY <1>5, LimitsAssumption
  <2> HIDE DEF v, s
  <2>2. Init'
    BY <1>1, <1>2, <1>6, <2>1 DEF Init
  <2>3. Inv'
    BY <2>2, InitInvNext
  <2>4. tbl_g'[func'].table.vars = v /\ tbl_g'[func'].isfunc /\ func' = next'
    BY <1>1 DEF v
  <2> QED BY <1>2, <2>3, <2>4 DEF LayoutInv, s
<1>8. TableOK(tbl_g') /\ UnitOK' /\ PlaceOK' /\ NamesInv'
  <2>1. TableOK(tbl_g') /\ UnitOK' /\ NamesInv'
    BY <1>1 DEF TypeInv, UnitOK, NamesInv, Live
  <2>2. PlaceOK'
    BY <1>1, <1>3 DEF TypeInv, PlaceOK
  <2> QED BY <2>1, <2>2
<1>9. OrderInv'
  BY <1>1 DEF TypeInv, OrderInv, Pending
<1> QED BY <1>7, <1>8, <1>9 DEF TypeInv

\* LayoutStep keeps the types.
LEMMA LayoutStepType ==
  ASSUME TypeInv, LayoutStep
  PROVE  TypeInv'
<1>1. Next /\ UNCHANGED <<pass, tbl_g, func, where, unit, next, first, code, err>>
  BY DEF LayoutStep, declVars
<1>2. Inv' /\ UNCHANGED <<cnt, sym>>
  BY <1>1, LayoutKeepsInv, NextKeeps DEF TypeInv, LayoutInv
<1>3. LayoutInv'
  BY <1>1, <1>2 DEF TypeInv, LayoutInv
<1>4. TableOK(tbl_g') /\ UnitOK' /\ PlaceOK' /\ NamesInv' /\ OrderInv'
  BY <1>1 DEF TypeInv, UnitOK, PlaceOK, NamesInv, Live, OrderInv, Pending
<1> QED BY <1>3, <1>4 DEF TypeInv

\* What the end of a layout does to the table.
Laid ==
  /\ pass = "LAYOUT" /\ err = "none" /\ func = next /\ func \in 1..Len(tbl_g) /\ pc = "done"
  /\ cnt = Len(tbl_g[func].table.vars) /\ sym = SymbolsOf(tbl_g[func].table.vars)
  /\ func' = 0 /\ next' = next + 1
  /\ UNCHANGED <<pass, where, unit, first, code, err, layoutVars>>
  /\ TableOK(tbl_g') /\ Changes(tbl_g, tbl_g', func, tbl_g'[func])
  /\ tbl_g'[func].name = tbl_g[func].name /\ tbl_g'[func].isfunc = tbl_g[func].isfunc
  /\ tbl_g'[func].body = tbl_g[func].body
  /\ tbl_g'[func].table = LaidOut(tbl_g[func].table)

\* LayoutReturns does what Laid says.
LEMMA LayoutReturnsProp ==
  ASSUME TypeInv, LayoutReturns
  PROVE  Laid
<1> DEFINE v == tbl_g[func].table.vars
           o == tbl_g[func].table
           s == [tbl_g[func] EXCEPT !.table = LaidOut(o)]
<1>1. /\ pass = "LAYOUT" /\ err = "none" /\ func # 0 /\ pc = "done"
      /\ func' = 0 /\ next' = next + 1
      /\ UNCHANGED <<pass, where, unit, first, code, err, layoutVars>>
  BY DEF LayoutReturns, Laying
<1>2. func = next /\ Inv /\ cnt = Len(v) /\ sym = SymbolsOf(v)
  BY <1>1 DEF TypeInv, LayoutInv
<1>3. func \in 1..Len(tbl_g)
  <2>1. Len(tbl_g) \in Nat
    BY Entries DEF TypeInv
  <2> QED BY <1>1, <2>1 DEF TypeInv, PlaceOK
<1>4. /\ tbl_g[func] \in Globals /\ v \in Seq(Locals) /\ Len(v) <= MAX_VARIABLE
      /\ o \in Tables /\ v = o.vars
  BY <1>3, Entries, GlobalProp DEF TypeInv, TableOK
<1>5. tbl_g' = [tbl_g EXCEPT ![func] = s]
  BY DEF LayoutReturns
<1> HIDE DEF v, o
<1>6. LaidOut(o) \in Tables /\ Len(LaidOut(o).vars) = Len(v)
  BY <1>2, <1>4, LaidOutProp
<1>7. /\ s \in Globals /\ s.name = tbl_g[func].name /\ s.isfunc = tbl_g[func].isfunc
      /\ s.body = tbl_g[func].body /\ s.table = LaidOut(o)
  <2> DEFINE l == LaidOut(o)
  <2>1. l \in Tables
    BY <1>6
  <2> HIDE DEF l
  <2>2. /\ [tbl_g[func] EXCEPT !.table = l] \in Globals
        /\ [tbl_g[func] EXCEPT !.table = l].name = tbl_g[func].name
        /\ [tbl_g[func] EXCEPT !.table = l].isfunc = tbl_g[func].isfunc
        /\ [tbl_g[func] EXCEPT !.table = l].body = tbl_g[func].body
        /\ [tbl_g[func] EXCEPT !.table = l].table = l
    BY <1>4, <2>1 DEF Globals
  <2> QED BY <2>2 DEF l
<1> HIDE DEF s
<1>8. TableOK(tbl_g') /\ Changes(tbl_g, tbl_g', func, s)
  BY <1>3, <1>4, <1>5, <1>6, <1>7, Changing DEF TypeInv
<1>9. tbl_g'[func] = s
  BY <1>8 DEF Changes
<1> QED BY <1>1, <1>2, <1>3, <1>7, <1>8, <1>9 DEF Laid, v, o

\* LayoutReturns keeps the types.
LEMMA LayoutReturnsType ==
  ASSUME TypeInv, LayoutReturns
  PROVE  TypeInv'
<1>1. Laid /\ Len(tbl_g) \in Nat
  BY LayoutReturnsProp, Entries DEF TypeInv
<1>2. TableOK(tbl_g') /\ UnitOK'
  BY <1>1 DEF Laid, TypeInv, UnitOK
<1>3. Persist(tbl_g, tbl_g')
  BY <1>1, PersistProp DEF Laid, TypeInv
<1>4. PlaceOK'
  <2>1. Len(tbl_g') = Len(tbl_g)
    BY <1>1 DEF Laid, Changes
  <2> QED BY <1>1, <2>1 DEF Laid, TypeInv, PlaceOK
<1>5. NamesInv'
  <2> SUFFICES ASSUME NEW p \in 1..Len(unit), unit[p].kind \in {"variable", "function"}
               PROVE  \E k \in 1..Len(tbl_g') : tbl_g'[k].name = unit[p].name
    BY <1>1 DEF NamesInv, Laid
  <2>1. PICK k \in 1..Len(tbl_g) : tbl_g[k].name = unit[p].name
    BY <1>1 DEF Laid, TypeInv, NamesInv, Live
  <2>2. Len(tbl_g') \in Nat
    BY <1>2, Entries
  <2>3. k \in 1..Len(tbl_g') /\ tbl_g'[k].name = tbl_g[k].name
    BY <1>1, <1>3, <2>2 DEF Persist
  <2> QED BY <2>1, <2>3
<1>6. OrderInv'
  <2>1. ASSUME NEW k \in 1..Len(tbl_g'), Pending(k)' PROVE Ordered(tbl_g'[k].table.vars)
    <3>1. next \in Nat
      BY DEF TypeInv, PlaceOK
    <3>2. k \in 1..Len(tbl_g) /\ k # func /\ next <= k
      BY <1>1, <2>1, <3>1 DEF Laid, Changes, Pending
    <3>3. tbl_g'[k] = tbl_g[k]
      BY <1>1, <3>2 DEF Laid, Changes
    <3> QED BY <1>1, <3>2, <3>3 DEF Laid, TypeInv, OrderInv, Pending
  <2>2. pass' # "PASS1"
    BY <1>1 DEF Laid
  <2> QED BY <2>1, <2>2 DEF OrderInv
<1>7. LayoutInv'
  <2>1. Inv' /\ func' = 0
    BY <1>1, StutterInv DEF Laid, TypeInv, LayoutInv
  <2> QED BY <2>1 DEF LayoutInv
<1> QED BY <1>2, <1>4, <1>5, <1>6, <1>7 DEF TypeInv

\* The types hold at the start.
LEMMA InitType == DeclInit => TypeInv
<1> SUFFICES ASSUME DeclInit PROVE TypeInv
  OBVIOUS
<1>1. /\ pass = "PASS1" /\ tbl_g = <<>> /\ func = 0 /\ where = "top" /\ unit = <<>>
      /\ next = 1 /\ first = <<>> /\ err = "none"
  BY DEF DeclInit
<1>2. <<>> \in Seq(Globals) /\ <<>> \in Seq(Items) /\ <<>> \in Seq(Senses) /\ Len(<<>>) = 0
  OBVIOUS
<1>3. TableOK(tbl_g) /\ UnitOK
  BY <1>1, <1>2, TablesAssumption DEF TableOK, UnitOK
<1>4. PlaceOK /\ NamesInv /\ OrderInv
  BY <1>1, <1>2 DEF PlaceOK, NamesInv, OrderInv
<1>5. LayoutInv
  <2>1. <<>> \in Seq(Locals) /\ Ordered(<<>>) /\ 0 \in 0..MAX_VARIABLE
    BY LimitsAssumption DEF Ordered
  <2> DEFINE s == SymbolsOf(<<>>)
  <2>2. s \in [Slots(0) -> Symbols] /\ ParamsFirst(0, s)
    BY <1>2, <2>1, SymbolsProp
  <2>3. /\ cnt = 0 /\ sym = s /\ tbl = Start(0, s).tbl /\ value = Start(0, s).value /\ Fresh
    BY DEF DeclInit, Start
  <2> HIDE DEF s
  <2>4. Init
    BY <2>1, <2>2, <2>3 DEF Init
  <2>5. Inv
    BY <2>4, InitInv
  <2> QED BY <1>1, <2>5 DEF LayoutInv
<1> QED BY <1>3, <1>4, <1>5 DEF TypeInv

\* A stutter keeps the types.
LEMMA StutterType ==
  ASSUME TypeInv, UNCHANGED vars
  PROVE  TypeInv'
<1>1. UNCHANGED <<pass, tbl_g, func, where, unit, next, first, err, layoutVars>>
  BY DEF vars
<1>2. Inv' /\ UNCHANGED <<cnt, sym>>
  BY <1>1, StutterInv DEF TypeInv, LayoutInv, layoutVars
<1>3. LayoutInv'
  BY <1>1, <1>2 DEF TypeInv, LayoutInv
<1> QED BY <1>1, <1>3 DEF TypeInv, UnitOK, PlaceOK, NamesInv, Live, OrderInv, Pending

\* The inductive invariant of the types.
LEMMA TypeStep == TypeInv /\ [DeclNext]_vars => TypeInv'
<1> SUFFICES ASSUME TypeInv, [DeclNext]_vars PROVE TypeInv'
  OBVIOUS
<1>1. CASE \E n \in Names : GlobalVariable(n) \/ FunctionName(n) \/ Use(n)
  BY <1>1, GlobalVariableType, FunctionNameType, UseType
<1>2. CASE \E n \in Names, t \in Types : Parameter(n, t) \/ AutoVariable(n, t)
  BY <1>2, ParameterType, AutoVariableType
<1>3. CASE \E n \in Names, a \in 0..MAX_PARAM : Call(n, a)
  BY <1>3, CallType
<1>4. CASE Prototype \/ Body \/ EndBody
  BY <1>4, LeavingType, BodyType
<1>5. CASE EndPass1 \/ SkipVariable \/ StartPass3 \/ EndPass3
  BY <1>5, MovingType
<1>6. CASE CallLayout \/ LayoutStep \/ LayoutReturns
  BY <1>6, CallLayoutType, LayoutStepType, LayoutReturnsType
<1>7. CASE UNCHANGED vars
  BY <1>7, StutterType
<1> QED BY <1>1, <1>2, <1>3, <1>4, <1>5, <1>6, <1>7 DEF DeclNext

\* The types hold in every state.
LEMMA TypeInvariant == DeclSpec => []TypeInv
BY InitType, TypeStep, PTL DEF DeclSpec

------------------------------------------------------------------------------
\* The text and its declarations

Inside == {"param", "auto", "body", "use", "call"}
Closing == {"prototype", "end"}
FunctionAt(u, d, n) == u[d].kind = "function" /\ u[d].name = n
VariableAt(u, q, n) == u[q].kind = "variable" /\ u[q].name = n
SymbolAt(u, q, n) == u[q].kind \in {"param", "auto"} /\ u[q].name = n

\* Between the name of a function at d and p there is nothing but what belongs to it.
Within(u, d, p) ==
  /\ d \in 1..p-1 /\ u[d].kind = "function"
  /\ \A q \in d+1..p-1 : u[q].kind \in Inside
\* The declaration at d has declared n before p.
Declares(u, d, p, n) == \E q \in d+1..p-1 : SymbolAt(u, q, n)
\* d is the last declaration of n.
Latest(u, d, n) ==
  d \in 1..Len(u) /\ FunctionAt(u, d, n) /\ \A q \in d+1..Len(u) : ~FunctionAt(u, q, n)
\* The declaration at d ends at e.
Closed(u, d, e) == Within(u, d, e) /\ e \in 1..Len(u) /\ u[e].kind \in Closing

\* What stands in a declaration belongs to one.
TextInv ==
  \A p \in 1..Len(unit) : unit[p].kind \in Inside \cup Closing =>
    \E d \in 1..p-1 :
      Within(unit, d, p) /\ (unit[p].kind \in Closing \cup {"body"} => unit[p].name = unit[d].name)

\* The function being parsed is the one whose declaration is being read.
Now == IF pass = "PASS1" THEN Len(unit) + 1 ELSE next
CurrentInv ==
  /\ where # "top" =>
       /\ tbl_g[func].isfunc
       /\ \E d \in 1..Now-1 : Within(unit, d, Now) /\ unit[d].name = tbl_g[func].name
  /\ where = "params" => ~tbl_g[func].body

\* A name that was a function first stays one; one that was a variable is nothing else.
KindOf(u, s) ==
  IF s.isfunc
    THEN /\ \E d \in 1..Len(u) : FunctionAt(u, d, s.name)
         /\ \A q \in 1..Len(u) :
              VariableAt(u, q, s.name) => \E d \in 1..q-1 : FunctionAt(u, d, s.name)
    ELSE /\ \E q \in 1..Len(u) : VariableAt(u, q, s.name)
         /\ \A q \in 1..Len(u) : ~FunctionAt(u, q, s.name)
         /\ \A p \in 1..Len(u), q \in 1..Len(u) :
              VariableAt(u, p, s.name) /\ VariableAt(u, q, s.name) => p = q
KindInv == Live => \A k \in 1..Len(tbl_g) : KindOf(unit, tbl_g[k])

\* Conflict, as far as PASS1 has read.
Twice(u, p) ==
  \/ /\ u[p].kind \in {"variable", "function"}
     /\ \E q \in 1..p-1 : VariableAt(u, q, u[p].name) /\ \A d \in 1..q : ~FunctionAt(u, d, u[p].name)
  \/ /\ u[p].kind \in {"param", "auto"}
     /\ \E d \in 1..p-1 : Within(u, d, p) /\ Declares(u, d, p, u[p].name)
TwiceInv ==
  \A p \in 1..Len(unit) : Twice(unit, p) <=> pass = "PASS1" /\ err = "multiple" /\ p = Len(unit)

\* What PASS1 took a name for.
UseInv ==
  Live =>
    \A p \in 1..Len(unit) : unit[p].kind = "use" =>
      /\ first[p] \in {"local", "global"}
      /\ \E d \in 1..p-1 :
           Within(unit, d, p) /\ (first[p] = "local" <=> Declares(unit, d, p, unit[p].name))

\* A table holds what the last declaration of its function declares, m parameters first.
Fits(u, v, d, e, m) ==
  /\ \A n \in Names : (\E l \in 1..Len(v) : v[l].name = n) <=> Declares(u, d, e, n)
  /\ m \in 0..Len(v) /\ d + m < e
  /\ \A l \in 1..m : SymbolAt(u, d + l, v[l].name) /\ u[d + l].kind = "param"
  /\ \A b \in d+1..e-1 : u[b].kind = "body" => b = d + m + 1
Offsets(t, m) ==
  /\ t.param_numb = m
  /\ \A l \in 1..m :
       t.vars[l].value < USHRT => t.vars[l].value = t.auto_size + 4 + 2 + 4 * (l - 1)
Split(v, m) == \A l \in 1..Len(v) : v[l].auto <=> l > m
Current(k) == pass = "PASS1" /\ where # "top" /\ func = k
TableFits(k, d, e, m) ==
  /\ Latest(unit, d, tbl_g[k].name) /\ Within(unit, d, e)
  /\ IF Current(k) THEN e = Len(unit) + 1 ELSE e <= Len(unit) /\ unit[e].kind \in Closing
  /\ Fits(unit, tbl_g[k].table.vars, d, e, m)
  /\ IF Pending(k) THEN Split(tbl_g[k].table.vars, m) ELSE Offsets(tbl_g[k].table, m)
  /\ Current(k) /\ where = "params" => e = d + m + 1
HasFit(k) ==
  \E d \in 1..Len(unit), e \in 1..Len(unit)+1, m \in 0..MAX_VARIABLE : TableFits(k, d, e, m)
TableInv == Live => \A k \in 1..Len(tbl_g) : tbl_g[k].isfunc => HasFit(k)

\* PASS3 has found what it has read.
FoundAt(p, d, k) ==
  /\ Within(unit, d, p) /\ tbl_g[k].name = unit[d].name
  /\ \E l \in 1..Len(tbl_g[k].table.vars) : tbl_g[k].table.vars[l].name = unit[p].name
FoundInv ==
  pass = "PASS3" /\ err = "none" =>
    \A p \in 1..next-1 : unit[p].kind \in {"param", "auto"} =>
      \E d \in 1..p-1, k \in 1..Len(tbl_g) : FoundAt(p, d, k)

\* The code.
Codings == [what : {"label", "local", "global", "call"}, name : Names, arg : Nat, at : Nat]
Later(u, p, n) ==
  \E e \in p+1..Len(u) : SymbolAt(u, e, n) /\
    \E c \in 1..p-1, d \in 1..e-1 : Within(u, c, p) /\ Within(u, d, e) /\ u[c].name = u[d].name
CodingOK(c) ==
  /\ c.at \in 1..next-1 /\ c.at \in 1..Len(unit)
  /\ c.what = "label" => unit[c.at].kind \in {"body", "variable"} /\ unit[c.at].name = c.name
  /\ c.what \in {"local", "global"} =>
       unit[c.at].kind = "use" /\ (c.what = first[c.at] \/ Later(unit, c.at, c.name))
  /\ c.what = "call" =>
       \E k \in 1..Len(tbl_g) :
         tbl_g[k].name = c.name /\ tbl_g[k].isfunc /\ c.arg = tbl_g[k].table.param_numb
CodeInv ==
  /\ code \in Seq(Codings)
  /\ pass \in {"PASS1", "LAYOUT"} => code = <<>>
  /\ \A k \in 1..Len(code) : CodingOK(code[k])
  /\ \A k \in 1..Len(code), l \in 1..Len(code) : k < l => code[k].at < code[l].at

\* Where PASS3 does not find a name.
InternalInv ==
  err = "internal" =>
    /\ pass = "PASS3" /\ where # "top" /\ next > 1
    /\ \E d \in next..Len(unit), e \in 1..Len(unit) :
         /\ FunctionAt(unit, d, tbl_g[func].name) /\ Closed(unit, d, e)
         /\ ~Declares(unit, d, e, unit[next-1].name)

\* What has been written behind a table.
OverrunInv ==
  \A k \in 1..Len(tbl_g) : tbl_g[k].table.overrun =>
    pass = "PASS1" /\ err = "memory" /\ k = func /\ Len(tbl_g[k].table.vars) = MAX_VARIABLE

\* The labels of the definitions that PASS3 has read.
LabelOf(u, p, c) == c.what = "label" /\ c.at = p /\ c.name = u[p].name
LabelInv ==
  /\ pass \in {"PASS3", "DONE"} /\ err = "none" =>
       \A p \in 1..next-1 : unit[p].kind \in {"variable", "body"} =>
         \E k \in 1..Len(code) : LabelOf(unit, p, code[k])
  /\ pass = "DONE" => err = "none" /\ next > Len(unit)

\* unit grows by x.
Grown(u, w, x) ==
  Len(w) = Len(u) + 1 /\ w[Len(u) + 1] = x /\ \A p \in 1..Len(u) : w[p] = u[p]

\* An item belongs to one declaration.
LEMMA WithinUnique ==
  ASSUME NEW u, NEW p \in Nat, NEW c, NEW d, Within(u, c, p), Within(u, d, p)
  PROVE  c = d
<1>1. c \in 1..p-1 /\ d \in 1..p-1
  BY DEF Within
<1>2. ASSUME c < d PROVE FALSE
  BY <1>1, <1>2 DEF Within, Inside
<1>3. ASSUME d < c PROVE FALSE
  BY <1>1, <1>3 DEF Within, Inside
<1> QED BY <1>1, <1>2, <1>3

\* Where a declaration goes on or begins.
LEMMA WithinNext ==
  ASSUME NEW u, NEW p \in Nat
  PROVE  /\ \A d : Within(u, d, p) /\ u[p].kind \in Inside => Within(u, d, p + 1)
         /\ p # 0 /\ u[p].kind = "function" => Within(u, p, p + 1)
         /\ \A d : Within(u, d, p + 1) => d = p \/ (Within(u, d, p) /\ u[p].kind \in Inside)
<1>1. ASSUME NEW d, Within(u, d, p), u[p].kind \in Inside PROVE Within(u, d, p + 1)
  <2>1. d \in 1..p /\ \A q \in d+1..p : q \in d+1..p-1 \/ q = p
    BY <1>1 DEF Within
  <2> QED BY <1>1, <2>1 DEF Within
<1>2. ASSUME p # 0, u[p].kind = "function" PROVE Within(u, p, p + 1)
  BY <1>2 DEF Within
<1>3. ASSUME NEW d, Within(u, d, p + 1), d # p
      PROVE  Within(u, d, p) /\ u[p].kind \in Inside
  BY <1>3 DEF Within
<1> QED BY <1>1, <1>2, <1>3

\* What a declaration has declared after one more item.
LEMMA DeclaresNext ==
  ASSUME NEW u, NEW p \in Nat, NEW d \in 1..p-1, NEW n
  PROVE  Declares(u, d, p + 1, n) <=> Declares(u, d, p, n) \/ SymbolAt(u, p, n)
<1>1. d+1..p = (d+1..p-1) \cup {p}
  OBVIOUS
<1>2. \A q \in d+1..p : q \in d+1..p-1 \/ q = p
  OBVIOUS
<1>3. (d+1..p-1) \subseteq d+1..p /\ p \in d+1..p
  OBVIOUS
<1> QED BY <1>2, <1>3 DEF Declares

\* The name of a function declares nothing in it.
LEMMA DeclaresNothing ==
  ASSUME NEW u, NEW p \in Nat, NEW n
  PROVE  ~Declares(u, p, p + 1, n)
BY DEF Declares

\* What has been read stays as it was.
LEMMA GrownKeeps ==
  ASSUME NEW u, Len(u) \in Nat, NEW w, NEW x, Grown(u, w, x),
         NEW p \in 1..Len(u) + 1
  PROVE  /\ \A d : Within(w, d, p) <=> Within(u, d, p)
         /\ \A d \in Nat : \A n : Declares(w, d, p, n) <=> Declares(u, d, p, n)
         /\ \A q \in 1..p-1 : w[q] = u[q]
<1>1. \A q \in 1..p-1 : w[q] = u[q]
  BY DEF Grown
<1>2. ASSUME NEW d \in 1..p-1 PROVE Within(w, d, p) <=> Within(u, d, p)
  <2>1. \A q \in d+1..p-1 : w[q] = u[q]
    BY <1>1
  <2> QED BY <1>1, <2>1 DEF Within
<1>3. \A d : Within(w, d, p) <=> Within(u, d, p)
  BY <1>2 DEF Within
<1>4. ASSUME NEW d \in Nat, NEW n PROVE Declares(w, d, p, n) <=> Declares(u, d, p, n)
  <2>1. \A q \in d+1..p-1 : w[q] = u[q]
    BY <1>1
  <2> QED BY <2>1 DEF Declares, SymbolAt
<1> QED BY <1>1, <1>3, <1>4

------------------------------------------------------------------------------
\* What the steps that read an item do

\* The symbol x declares is there already.
Doubled(x) ==
  \/ /\ x.kind \in {"variable", "function"}
     /\ \E k \in 1..Len(tbl_g) : tbl_g[k].name = x.name /\ ~tbl_g[k].isfunc
  \/ /\ x.kind \in {"param", "auto"}
     /\ IsLocal(x.name)

Takes(x, as) ==
  /\ x \in Items /\ as \in Senses /\ err = "none" /\ pass' = pass
  /\ Reads1(x, as) \/ Reads3(x)
  /\ where = CASE x.kind \in {"variable", "function"} -> "top"
               [] x.kind \in {"param", "prototype", "body"} -> "params"
               [] OTHER -> "body"
  /\ x.kind \in Closing \cup {"body"} => x.name = tbl_g[func].name
  /\ pass = "PASS1" => (err' = "multiple" <=> Doubled(x))

Halts(x) ==
  /\ err' # "none" /\ x.kind \notin Closing
  /\ UNCHANGED <<tbl_g, func, where, code>>
  /\ err' = "internal" => pass = "PASS3" /\ x.kind \in {"param", "auto"} /\ ~IsLocal(x.name)

Overruns(x) ==
  /\ x.kind \in {"param", "auto"} /\ pass = "PASS1" /\ err' = "memory"
  /\ TableOK(tbl_g') /\ Changes(tbl_g, tbl_g', func, tbl_g'[func])
  /\ tbl_g'[func].name = tbl_g[func].name /\ tbl_g'[func].isfunc = tbl_g[func].isfunc
  /\ tbl_g'[func].body = tbl_g[func].body
  /\ tbl_g'[func].table.vars = tbl_g[func].table.vars
  /\ Len(tbl_g[func].table.vars) = MAX_VARIABLE
  /\ UNCHANGED <<func, where, code>>
AddsVariable(x) ==
  /\ x.kind = "variable" /\ pass = "PASS1"
  /\ Extends(tbl_g, tbl_g', Variable(x.name)) /\ \A k \in 1..Len(tbl_g) : tbl_g[k].name # x.name
  /\ UNCHANGED <<func, where, err, code>>
SeesVariable(x) ==
  /\ x.kind = "variable" /\ Emit(Label(x.name))
  /\ UNCHANGED <<tbl_g, func, where, err>>
NamesFunction(x) ==
  x.kind = "function" /\ UNCHANGED code /\ \E f \in Nat : Named(x.name, f)
AddsLocal(x) ==
  /\ x.kind \in {"param", "auto"} /\ pass = "PASS1"
  /\ TableOK(tbl_g') /\ Changes(tbl_g, tbl_g', func, tbl_g'[func])
  /\ tbl_g'[func].name = tbl_g[func].name /\ tbl_g'[func].isfunc = tbl_g[func].isfunc
  /\ tbl_g'[func].body = tbl_g[func].body
  /\ \E z \in Locals : /\ z.name = x.name /\ (z.auto <=> x.kind = "auto")
                       /\ tbl_g'[func].table.vars = Append(tbl_g[func].table.vars, z)
  /\ tbl_g'[func].table.overrun = tbl_g[func].table.overrun
  /\ UNCHANGED <<func, where, err, code>>
SeesLocal(x) ==
  /\ x.kind \in {"param", "auto"} /\ pass = "PASS3" /\ IsLocal(x.name)
  /\ UNCHANGED <<tbl_g, func, where, err, code>>
Leaves(x) ==
  /\ x.kind \in Closing /\ func' = 0 /\ where' = "top" /\ UNCHANGED <<tbl_g, err, code>>
Enters(x) ==
  x.kind = "body" /\ Bodied /\ Emit(Label(x.name))
Mentions(x, as) ==
  /\ as = Resolve(x.name) /\ UNCHANGED <<tbl_g, func, where, err>>
  /\ \/ x.kind = "use" /\ as \in {"local", "global"} /\ Emit(Access(x.name, as))
     \/ /\ x.kind = "call" /\ as = "function" /\ Emit(CallOf(x.name, x.arg))
        /\ pass = "PASS3" => x.arg = tbl_g[GlobalSlot(x.name)].table.param_numb

Reacts(x, as) ==
  \/ Halts(x) \/ Overruns(x) \/ AddsVariable(x) \/ SeesVariable(x) \/ NamesFunction(x)
  \/ AddsLocal(x) \/ SeesLocal(x) \/ Leaves(x) \/ Enters(x) \/ Mentions(x, as)
ReadStep == UNCHANGED layoutVars /\ \E x \in Items, as \in Senses : Takes(x, as) /\ Reacts(x, as)

\* GlobalVariable as a step that reads an item.
LEMMA GlobalVariableStep ==
  ASSUME TypeInv, NEW n \in Names, GlobalVariable(n)
  PROVE  ReadStep
<1> DEFINE x == Item("variable", n)
           r == IF pass = "PASS1" THEN Register(n) ELSE "old"
<1>1. x \in Items /\ x.name = n /\ x.kind = "variable" /\ "global" \in Senses
  BY ItemsAre DEF Senses
<1>2. Read(x, "global") /\ err = "none" /\ where = "top" /\ UNCHANGED layoutVars
  BY DEF GlobalVariable, Parsing
<1>3. \/ r \in {"multiple", "memory"} /\ Stop(r)
      \/ /\ r \in {"old", "new"}
         /\ tbl_g' = IF r = "new" THEN Append(tbl_g, Variable(n)) ELSE tbl_g
         /\ Emit(Label(n))
         /\ UNCHANGED <<pass, func, where, err>>
  BY Zenon DEF GlobalVariable
<1>4. /\ r = "new" => pass = "PASS1" /\ (\A k \in 1..Len(tbl_g) : tbl_g[k].name # n)
                      /\ Len(tbl_g) < MAX_SYMBOL_TABLE_G
      /\ r = "old" /\ pass = "PASS1" =>
           \E k \in 1..Len(tbl_g) : tbl_g[k].name = n /\ tbl_g[k].isfunc
      /\ r = "multiple" => \E k \in 1..Len(tbl_g) : tbl_g[k].name = n /\ ~tbl_g[k].isfunc
      /\ r = "memory" => \A k \in 1..Len(tbl_g) : tbl_g[k].name # n
      /\ r \in {"multiple", "memory"} => pass = "PASS1"
  BY RegisterProp DEF TypeInv
<1>5. Reads1(x, "global") \/ Reads3(x)
  BY <1>1, <1>2, Reading DEF TypeInv
<1> HIDE DEF x, r
<1>6. \A k \in 1..Len(tbl_g), l \in 1..Len(tbl_g) : tbl_g[k].name = tbl_g[l].name => k = l
  BY DEF TypeInv, TableOK
<1>7. CASE r \in {"multiple", "memory"} /\ Stop(r)
  <2>1. Halts(x) /\ pass' = pass /\ err' = r
    BY <1>1, <1>7 DEF Halts, Stop, Closing
  <2>2. err' = "multiple" <=> Doubled(x)
    BY <1>1, <1>4, <1>7, <2>1 DEF Doubled
  <2>3. Takes(x, "global")
    BY <1>1, <1>2, <1>5, <2>1, <2>2 DEF Takes, Closing
  <2> QED BY <1>1, <1>2, <2>1, <2>3 DEF ReadStep, Reacts
<1>8. CASE /\ r \in {"old", "new"}
           /\ tbl_g' = IF r = "new" THEN Append(tbl_g, Variable(n)) ELSE tbl_g
           /\ Emit(Label(n))
           /\ UNCHANGED <<pass, func, where, err>>
  <2>1. pass = "PASS1" => ~Doubled(x)
    BY <1>1, <1>4, <1>6, <1>8 DEF Doubled
  <2>2. Takes(x, "global")
    BY <1>1, <1>2, <1>5, <1>8, <2>1 DEF Takes, Closing
  <2>3. CASE r = "old"
    <3>1. SeesVariable(x)
      BY <1>1, <1>8, <2>3 DEF SeesVariable
    <3> QED BY <1>1, <1>2, <2>2, <3>1 DEF ReadStep, Reacts
  <2>4. CASE r = "new"
    <3> DEFINE s == Variable(n)
    <3>1. s \in Globals /\ s.name = n /\ Len(s.table.vars) <= MAX_VARIABLE
      BY NewSymbols, LimitsAssumption
    <3>2. tbl_g' = Append(tbl_g, s)
      BY <1>8, <2>4
    <3> HIDE DEF s
    <3>3. Extends(tbl_g, tbl_g', s)
      BY <1>4, <2>4, <3>1, <3>2, Adding DEF TypeInv
    <3>4. code' = code
      BY <1>4, <1>8, <2>4 DEF Emit
    <3>5. AddsVariable(x)
      BY <1>1, <1>4, <1>8, <2>4, <3>3, <3>4 DEF AddsVariable, s
    <3> QED BY <1>1, <1>2, <2>2, <3>5 DEF ReadStep, Reacts
  <2> QED BY <1>8, <2>3, <2>4
<1> QED BY <1>3, <1>7, <1>8

\* FunctionName as a step that reads an item.
LEMMA FunctionNameStep ==
  ASSUME TypeInv, NEW n \in Names, FunctionName(n)
  PROVE  ReadStep
<1> DEFINE x == Item("function", n)
           r == Register(n)
<1>1. x \in Items /\ x.name = n /\ x.kind = "function" /\ "function" \in Senses
  BY ItemsAre DEF Senses
<1>2. Read(x, "function") /\ err = "none" /\ where = "top" /\ UNCHANGED <<code, layoutVars>>
  <2>1. Read(x, "function") /\ err = "none" /\ where = "top" /\ UNCHANGED layoutVars
    BY DEF FunctionName, Parsing
  <2>2. UNCHANGED code
    BY Zenon DEF FunctionName, Stop
  <2> QED BY <2>1, <2>2
<1>3. Reads1(x, "function") \/ Reads3(x)
  BY <1>1, <1>2, Reading DEF TypeInv
<1>4. /\ r = "multiple" => \E k \in 1..Len(tbl_g) : tbl_g[k].name = n /\ ~tbl_g[k].isfunc
      /\ r = "memory" => \A k \in 1..Len(tbl_g) : tbl_g[k].name # n
  BY RegisterProp DEF TypeInv
<1> HIDE DEF x, r
<1>6. \A k \in 1..Len(tbl_g), l \in 1..Len(tbl_g) : tbl_g[k].name = tbl_g[l].name => k = l
  BY DEF TypeInv, TableOK
<1>7. CASE pass = "PASS1" /\ r \in {"multiple", "memory"} /\ Stop(r)
  <2>1. Halts(x) /\ pass' = pass /\ err' = r
    BY <1>1, <1>7 DEF Halts, Stop, Closing
  <2>2. err' = "multiple" <=> Doubled(x)
    BY <1>1, <1>4, <1>7, <2>1 DEF Doubled
  <2>3. Takes(x, "function")
    BY <1>1, <1>2, <1>3, <2>1, <2>2 DEF Takes, Closing
  <2> QED BY <1>1, <1>2, <2>1, <2>3 DEF ReadStep, Reacts
<1>8. CASE \E f \in Nat : Named(n, f)
  <2>1. PICK f \in Nat : Named(n, f)
    BY <1>8
  <2>2. ASSUME pass = "PASS1" PROVE ~Doubled(x)
    <3>1. Len(tbl_g) \in Nat
      BY Entries DEF TypeInv
    <3>2. CASE Len(tbl_g') = Len(tbl_g) /\ tbl_g[f].isfunc
      <4>1. f \in 1..Len(tbl_g) /\ tbl_g[f].name = n
        BY <2>1, <3>1, <3>2 DEF Named, Persist
      <4> QED BY <1>1, <1>6, <3>2, <4>1 DEF Doubled
    <3>3. CASE \A k \in 1..Len(tbl_g) : tbl_g[k].name # n
      BY <1>1, <3>3 DEF Doubled
    <3> QED BY <2>1, <2>2, <3>2, <3>3 DEF Named
  <2>3. Takes(x, "function")
    BY <1>1, <1>2, <1>3, <2>1, <2>2 DEF Takes, Closing, Named
  <2>4. NamesFunction(x)
    BY <1>1, <1>2, <2>1 DEF NamesFunction
  <2> QED BY <1>1, <1>2, <2>3, <2>4 DEF ReadStep, Reacts
<1> QED BY <1>7, <1>8, FunctionNameProp DEF r

\* Parameter and AutoVariable as steps that read an item.
LEMMA LocalStep ==
  ASSUME TypeInv, NEW x \in Items, NEW auto \in BOOLEAN, NEW t \in Types,
         x.kind = IF auto THEN "auto" ELSE "param",
         err = "none", Local(x, x.name, auto, t), where = IF auto THEN "body" ELSE "params"
  PROVE  ReadStep
<1> DEFINE e == LocalCheck(x.name)
<1>1. x.name \in Names /\ "local" \in Senses /\ x.kind \in {"param", "auto"}
  BY ItemProp DEF Senses
<1>2. Read(x, "local") /\ UNCHANGED layoutVars /\ pass \in {"PASS1", "PASS3"}
  BY DEF Local, Read
<1>3. Reads1(x, "local") \/ Reads3(x)
  BY <1>1, <1>2, Reading DEF TypeInv
<1>4. \/ e \in {"internal", "multiple"} /\ Stop(e)
      \/ /\ e = "memory"
         /\ \E a \in Addresses : tbl_g' = [tbl_g EXCEPT ![func].table = Overwrite(@, a)]
         /\ err' = "memory" /\ UNCHANGED <<pass, func, where, code>>
      \/ e = "found" /\ UNCHANGED <<pass, tbl_g, func, where, code, err>>
      \/ /\ e = "new"
         /\ tbl_g' = [tbl_g EXCEPT ![func].table.vars = Append(@, Var(x.name, auto, t))]
         /\ UNCHANGED <<pass, func, where, code, err>>
  BY Zenon DEF Local
<1>5. /\ pass = "PASS1" => (e = "multiple" <=> IsLocal(x.name))
      /\ e = "internal" => pass = "PASS3" /\ ~IsLocal(x.name)
      /\ e = "found" => pass = "PASS3" /\ IsLocal(x.name)
      /\ e \in {"new", "memory"} => pass = "PASS1"
  <2>1. CASE pass = "PASS1"
    <3>1. e = IF IsLocal(x.name) THEN "multiple"
              ELSE IF Len(Table.vars) >= MAX_VARIABLE THEN "memory" ELSE "new"
      BY <2>1 DEF LocalCheck
    <3> QED BY <2>1, <3>1
  <2>2. CASE pass = "PASS3"
    <3>1. e = IF IsLocal(x.name) THEN "found" ELSE "internal"
      BY <2>2 DEF LocalCheck
    <3> QED BY <2>2, <3>1
  <2> QED BY <1>2, <2>1, <2>2
<1> HIDE DEF e
<1>6. Doubled(x) <=> IsLocal(x.name)
  BY <1>1 DEF Doubled
<1>7. ASSUME pass' = pass, err' = IF e \in {"found", "new"} THEN "none" ELSE e
      PROVE  Takes(x, "local")
  BY <1>1, <1>2, <1>3, <1>4, <1>5, <1>6, <1>7 DEF Takes, Closing
<1>8. CASE e \in {"internal", "multiple"} /\ Stop(e)
  <2>1. Halts(x) /\ pass' = pass /\ err' = e
    BY <1>1, <1>5, <1>8 DEF Halts, Stop, Closing
  <2> QED BY <1>1, <1>2, <1>7, <1>8, <2>1 DEF ReadStep, Reacts
<1>8a. CASE /\ e = "memory"
            /\ \E a \in Addresses : tbl_g' = [tbl_g EXCEPT ![func].table = Overwrite(@, a)]
            /\ err' = "memory" /\ UNCHANGED <<pass, func, where, code>>
  <2>1. func \in 1..Len(tbl_g) /\ tbl_g[func] \in Globals
    BY NameOfCurrent
  <2>2. PICK a \in Addresses : tbl_g' = PutBehind(tbl_g, func, a)
    BY <1>8a DEF PutBehind
  <2>3. /\ TableOK(tbl_g') /\ Changes(tbl_g, tbl_g', func, tbl_g'[func])
        /\ tbl_g'[func].name = tbl_g[func].name /\ tbl_g'[func].isfunc = tbl_g[func].isfunc
        /\ tbl_g'[func].body = tbl_g[func].body
        /\ tbl_g'[func].table.vars = tbl_g[func].table.vars
    BY <2>1, <2>2, Overwriting DEF TypeInv
  <2>4. Len(tbl_g[func].table.vars) = MAX_VARIABLE
    <3>1. Len(Table.vars) >= MAX_VARIABLE
      BY <1>5, <1>8a DEF LocalCheck, e
    <3>2. Len(tbl_g[func].table.vars) \in Nat /\ Len(tbl_g[func].table.vars) <= MAX_VARIABLE
      BY <2>1, GlobalProp DEF TypeInv, TableOK
    <3> QED BY <3>1, <3>2, LimitsAssumption DEF Table
  <2>5. Overruns(x)
    BY <1>1, <1>5, <1>8a, <2>3, <2>4 DEF Overruns
  <2> QED BY <1>1, <1>2, <1>7, <1>8a, <2>5 DEF ReadStep, Reacts
<1>9. CASE e = "found" /\ UNCHANGED <<pass, tbl_g, func, where, code, err>>
  <2>1. SeesLocal(x)
    BY <1>1, <1>5, <1>9 DEF SeesLocal
  <2> QED BY <1>1, <1>2, <1>7, <1>9, <2>1 DEF ReadStep, Reacts
<1>10. CASE /\ e = "new"
            /\ tbl_g' = [tbl_g EXCEPT ![func].table.vars = Append(@, Var(x.name, auto, t))]
            /\ UNCHANGED <<pass, func, where, code, err>>
  <2> DEFINE z == Var(x.name, auto, t)
  <2>1. z \in Locals /\ z.auto = auto /\ z.name = x.name
    BY <1>1, VarProp
  <2>2. tbl_g' = PutLocal(tbl_g, func, z)
    BY <1>10 DEF PutLocal
  <2>3. func \in 1..Len(tbl_g) /\ tbl_g[func] \in Globals
    BY NameOfCurrent
  <2>4. Len(tbl_g[func].table.vars) < MAX_VARIABLE
    <3>1. ~(Len(Table.vars) >= MAX_VARIABLE)
      BY <1>5, <1>10 DEF LocalCheck, e
    <3>2. Len(tbl_g[func].table.vars) \in Nat
      BY <2>3, GlobalProp
    <3> QED BY <3>1, <3>2, LimitsAssumption DEF Table
  <2> HIDE DEF z
  <2>5. /\ TableOK(tbl_g') /\ Changes(tbl_g, tbl_g', func, tbl_g'[func])
        /\ tbl_g'[func].name = tbl_g[func].name /\ tbl_g'[func].isfunc = tbl_g[func].isfunc
        /\ tbl_g'[func].body = tbl_g[func].body
        /\ tbl_g'[func].table.vars = Append(tbl_g[func].table.vars, z)
        /\ tbl_g'[func].table.overrun = tbl_g[func].table.overrun
    BY <2>1, <2>2, <2>3, <2>4, AddingLocal DEF TypeInv
  <2>6. z.auto <=> x.kind = "auto"
    BY <2>1
  <2>7. AddsLocal(x)
    BY <1>1, <1>5, <1>10, <2>1, <2>5, <2>6 DEF AddsLocal
  <2> QED BY <1>1, <1>2, <1>7, <1>10, <2>7 DEF ReadStep, Reacts
<1> QED BY <1>4, <1>8, <1>8a, <1>9, <1>10

\* The same, for the two actions.
LEMMA SymbolStep ==
  ASSUME TypeInv, NEW n \in Names, NEW t \in Types, Parameter(n, t) \/ AutoVariable(n, t)
  PROVE  ReadStep
<1>1. CASE Parameter(n, t)
  <2> DEFINE x == [kind |-> "param", name |-> n, type |-> t]
  <2>1. x \in Items /\ x.kind = "param" /\ x.name = n
    BY ItemsAre
  <2>2. Local(x, n, FALSE, t) /\ err = "none" /\ where = "params"
    BY <1>1 DEF Parameter, Parsing
  <2> HIDE DEF x
  <2>3. Local(x, x.name, FALSE, t)
    BY <2>1, <2>2
  <2> QED BY <2>1, <2>2, <2>3, LocalStep
<1>2. CASE AutoVariable(n, t)
  <2> DEFINE x == [kind |-> "auto", name |-> n, type |-> t]
  <2>1. x \in Items /\ x.kind = "auto" /\ x.name = n
    BY ItemsAre
  <2>2. Local(x, n, TRUE, t) /\ err = "none" /\ where = "body"
    BY <1>2 DEF AutoVariable, Parsing
  <2> HIDE DEF x
  <2>3. Local(x, x.name, TRUE, t)
    BY <2>1, <2>2
  <2> QED BY <2>1, <2>2, <2>3, LocalStep
<1> QED BY <1>1, <1>2

\* Prototype and EndBody as steps that read an item.
LEMMA LeavingStep ==
  ASSUME TypeInv, Prototype \/ EndBody
  PROVE  ReadStep
<1>1. ASSUME NEW x \in Items, x.kind \in Closing, Read(x, "none"), err = "none",
             where = IF x.kind = "prototype" THEN "params" ELSE "body", func' = 0, where' = "top",
             UNCHANGED <<pass, tbl_g, code, err, layoutVars>>, x.name = tbl_g[func].name
      PROVE  ReadStep
  <2>1. "none" \in Senses /\ (Reads1(x, "none") \/ Reads3(x))
    BY <1>1, Reading DEF TypeInv, Senses
  <2>2. ~Doubled(x)
    BY <1>1 DEF Doubled, Closing
  <2>3. Takes(x, "none")
    BY <1>1, <2>1, <2>2 DEF Takes, Closing
  <2>4. Leaves(x)
    BY <1>1 DEF Leaves
  <2> QED BY <1>1, <2>1, <2>3, <2>4 DEF ReadStep, Reacts
<1>2. CASE Prototype
  <2> DEFINE x == Item("prototype", tbl_g[func].name)
  <2>1. where = "params" /\ Read(x, "none") /\ err = "none" /\ func' = 0 /\ where' = "top"
        /\ UNCHANGED <<pass, tbl_g, code, err, layoutVars>>
    BY <1>2 DEF Prototype, Parsing
  <2>2. x \in Items /\ x.kind = "prototype" /\ x.name = tbl_g[func].name
    BY <2>1, NameOfCurrent, ItemsAre
  <2> HIDE DEF x
  <2> QED BY <1>1, <2>1, <2>2 DEF Closing
<1>3. CASE EndBody
  <2> DEFINE x == Item("end", tbl_g[func].name)
  <2>1. where = "body" /\ Read(x, "none") /\ err = "none" /\ func' = 0 /\ where' = "top"
        /\ UNCHANGED <<pass, tbl_g, code, err, layoutVars>>
    BY <1>3 DEF EndBody, Parsing
  <2>2. x \in Items /\ x.kind = "end" /\ x.name = tbl_g[func].name
    BY <2>1, NameOfCurrent, ItemsAre
  <2> HIDE DEF x
  <2> QED BY <1>1, <2>1, <2>2 DEF Closing
<1> QED BY <1>2, <1>3

\* Body as a step that reads an item.
LEMMA BodyStep ==
  ASSUME TypeInv, CurrentInv, Body
  PROVE  ReadStep
<1> DEFINE x == Item("body", tbl_g[func].name)
<1>1. where = "params" /\ Read(x, "none") /\ err = "none" /\ UNCHANGED layoutVars
      /\ "none" \in Senses /\ ~tbl_g[func].body
  BY DEF Body, Parsing, Senses, CurrentInv
<1>2. x \in Items /\ x.kind = "body" /\ x.name = tbl_g[func].name
  BY <1>1, NameOfCurrent, ItemsAre
<1> HIDE DEF x
<1>3. Reads1(x, "none") \/ Reads3(x)
  BY <1>1, <1>2, Reading DEF TypeInv
<1>4. Bodied /\ Emit(Label(x.name))
  BY <1>1, <1>2, BodyProp
<1>5. ~Doubled(x)
  BY <1>2 DEF Doubled
<1>6. Takes(x, "none")
  BY <1>1, <1>2, <1>3, <1>4, <1>5 DEF Takes, Closing, Bodied
<1>7. Enters(x)
  BY <1>2, <1>4 DEF Enters
<1> QED BY <1>1, <1>2, <1>6, <1>7 DEF ReadStep, Reacts

\* A name in an expression as a step that reads an item.
LEMMA MentionStep ==
  ASSUME TypeInv, NEW x \in Items, x.kind \in {"use", "call"}, NEW as, as = Resolve(x.name),
         Read(x, as), err = "none", where = "body", UNCHANGED layoutVars,
         \/ \E e \in {"undefined", "l_kakko", "to_be_define", "param_number"} : Stop(e)
         \/ pass' = pass /\ Mentions(x, as)
  PROVE  ReadStep
<1>1. as \in Senses /\ (Reads1(x, as) \/ Reads3(x))
  BY ResolveProp, Reading DEF TypeInv
<1>2. ~Doubled(x)
  BY DEF Doubled
<1>3. ASSUME pass' = pass, err' # "multiple" PROVE Takes(x, as)
  BY <1>1, <1>2, <1>3 DEF Takes, Closing
<1>4. ASSUME NEW e \in {"undefined", "l_kakko", "to_be_define", "param_number"}, Stop(e)
      PROVE  ReadStep
  <2>1. Halts(x) /\ pass' = pass /\ err' # "multiple"
    BY <1>4 DEF Halts, Stop, Closing
  <2> QED BY <1>1, <1>3, <2>1 DEF ReadStep, Reacts
<1>5. CASE pass' = pass /\ Mentions(x, as)
  <2>1. err' # "multiple"
    BY <1>5 DEF Mentions
  <2> QED BY <1>1, <1>3, <1>5, <2>1 DEF ReadStep, Reacts
<1> QED BY <1>4, <1>5

\* Use as a step that reads an item.
LEMMA UseStep ==
  ASSUME TypeInv, NEW n \in Names, Use(n)
  PROVE  ReadStep
<1> DEFINE x == Item("use", n)
           as == Resolve(n)
<1>1. Read(x, as) /\ err = "none" /\ where = "body" /\ UNCHANGED layoutVars
  BY DEF Use, Parsing
<1>2. x \in Items /\ x.kind = "use" /\ x.name = n
  BY ItemsAre
<1>3. \/ Stop("undefined") \/ Stop("l_kakko")
      \/ /\ as \in {"local", "global"} /\ Emit(Access(n, as))
         /\ UNCHANGED <<pass, tbl_g, func, where, err>>
  BY Zenon DEF Use
<1> HIDE DEF x
<1>4. CASE /\ as \in {"local", "global"} /\ Emit(Access(n, as))
           /\ UNCHANGED <<pass, tbl_g, func, where, err>>
  <2>1. pass' = pass /\ Mentions(x, as)
    BY <1>2, <1>4 DEF Mentions
  <2> QED BY <1>1, <1>2, <2>1, MentionStep
<1>5. CASE Stop("undefined") \/ Stop("l_kakko")
  BY <1>1, <1>2, <1>5, MentionStep
<1> QED BY <1>3, <1>4, <1>5

\* Call as a step that reads an item.
LEMMA CallStep ==
  ASSUME TypeInv, NEW n \in Names, NEW a \in 0..MAX_PARAM, Call(n, a)
  PROVE  ReadStep
<1> DEFINE x == [kind |-> "call", name |-> n, arg |-> a]
           as == Resolve(n)
<1>1. Read(x, as) /\ err = "none" /\ where = "body" /\ UNCHANGED layoutVars
  BY DEF Call, Parsing
<1>2. x \in Items /\ x.kind = "call" /\ x.name = n /\ x.arg = a
  BY ItemsAre, TablesAssumption
<1>3. \/ Stop("undefined") \/ Stop("to_be_define") \/ Stop("param_number")
      \/ /\ as = "function" /\ ArgumentsFit(n, a) /\ Emit(CallOf(n, a))
         /\ UNCHANGED <<pass, tbl_g, func, where, err>>
  BY Zenon DEF Call
<1> HIDE DEF x
<1>4. CASE /\ as = "function" /\ ArgumentsFit(n, a) /\ Emit(CallOf(n, a))
           /\ UNCHANGED <<pass, tbl_g, func, where, err>>
  <2>1. pass' = pass /\ Mentions(x, as)
    BY <1>2, <1>4 DEF Mentions, ArgumentsFit
  <2> QED BY <1>1, <1>2, <2>1, MentionStep
<1>5. CASE Stop("undefined") \/ Stop("to_be_define") \/ Stop("param_number")
  BY <1>1, <1>2, <1>5, MentionStep
<1> QED BY <1>3, <1>4, <1>5

\* Every step reads an item, or is one of main.
MainStep == EndPass1 \/ SkipVariable \/ CallLayout \/ LayoutStep \/ StartPass3 \/ EndPass3

\* The steps of the specification, by what they do.
LEMMA StepCases ==
  ASSUME TypeInv, CurrentInv, [DeclNext]_vars
  PROVE  ReadStep \/ MainStep \/ Laid \/ UNCHANGED vars
<1>1. CASE \E n \in Names : GlobalVariable(n) \/ FunctionName(n) \/ Use(n)
  BY <1>1, GlobalVariableStep, FunctionNameStep, UseStep
<1>2. CASE \E n \in Names, t \in Types : Parameter(n, t) \/ AutoVariable(n, t)
  BY <1>2, SymbolStep
<1>3. CASE \E n \in Names, a \in 0..MAX_PARAM : Call(n, a)
  BY <1>3, CallStep
<1>4. CASE Prototype \/ Body \/ EndBody
  BY <1>4, LeavingStep, BodyStep
<1>5. CASE LayoutReturns
  BY <1>5, LayoutReturnsProp
<1> QED BY <1>1, <1>2, <1>3, <1>4, <1>5 DEF DeclNext, MainStep

------------------------------------------------------------------------------
\* The text and the current declaration

\* In both passes the item read is the one at Now.
LEMMA TakesNow ==
  ASSUME TypeInv, NEW x \in Items, NEW as, Takes(x, as)
  PROVE  /\ Now \in Nat \ {0} /\ Now' = Now + 1 /\ unit'[Now] = x
         /\ Now \in 1..Len(unit') /\ Len(unit') \in Nat /\ Len(unit) \in Nat
         /\ \A p \in 1..Now-1 : unit'[p] = unit[p]
         /\ \A d : Within(unit', d, Now) <=> Within(unit, d, Now)
         /\ pass = "PASS1" => Reads1(x, as) /\ Grown(unit, unit', x) /\ Now = Len(unit) + 1
         /\ pass # "PASS1" => Reads3(x) /\ unit' = unit /\ Now = next
<1>1. Len(unit) \in Nat /\ next \in Nat \ {0}
  BY LenProperties DEF TypeInv, UnitOK, PlaceOK
<1>2. CASE pass = "PASS1"
  <2>1. Reads1(x, as) /\ Grown(unit, unit', x)
    BY <1>2 DEF Takes, Reads1, Reads3, Grown
  <2>2. Now = Len(unit) + 1 /\ Now' = Len(unit') + 1 /\ Len(unit') = Len(unit) + 1
    BY <1>2, <2>1 DEF Now, Takes, Grown
  <2>3. \A d : Within(unit', d, Now) <=> Within(unit, d, Now)
    BY <1>1, <2>1, <2>2, GrownKeeps
  <2>4. unit'[Now] = x /\ \A p \in 1..Now-1 : unit'[p] = unit[p]
    BY <1>1, <2>1, <2>2 DEF Grown
  <2> QED BY <1>1, <1>2, <2>1, <2>2, <2>3, <2>4
<1>3. CASE pass # "PASS1"
  <2>1. Reads3(x) /\ pass' = pass
    BY <1>3 DEF Takes, Reads1
  <2>2. Now = next /\ Now' = next + 1 /\ unit' = unit /\ next <= Len(unit) /\ unit[next] = x
    BY <1>3, <2>1 DEF Now, Reads3
  <2>3. \A d : Within(unit', d, Now) <=> Within(unit, d, Now)
    BY <2>2
  <2>4. Now \in Nat \ {0} /\ Now \in 1..Len(unit') /\ Len(unit') \in Nat
    BY <1>1, <2>2
  <2>5. Now' = Now + 1 /\ unit'[Now] = x /\ \A p \in 1..Now-1 : unit'[p] = unit[p]
    BY <2>2
  <2> QED BY <1>1, <1>3, <2>1, <2>2, <2>3, <2>4, <2>5
<1> QED BY <1>2, <1>3

\* What the steps of main leave alone.
LEMMA MainFrame ==
  ASSUME TypeInv, MainStep \/ Laid \/ UNCHANGED vars
  PROVE  UNCHANGED <<where, unit, first, code, err>>
BY DEF MainStep, EndPass1, SkipVariable, CallLayout, LayoutStep, StartPass3, EndPass3, Laid, vars,
       declVars

\* The steps of main are taken at the top level, without an error.
LEMMA MainPlace ==
  ASSUME TypeInv, MainStep \/ Laid
  PROVE  where = "top" /\ err = "none" /\ Live /\ Live'
<1>1. where = "top" /\ err = "none"
  BY DEF MainStep, EndPass1, SkipVariable, CallLayout, LayoutStep, StartPass3, EndPass3, Laid,
         Parsing, Laying, TypeInv, PlaceOK
<1>2. err' = err
  BY MainFrame
<1> QED BY <1>1, <1>2 DEF Live

\* Every step keeps TextInv.
LEMMA TextStep ==
  ASSUME TypeInv, TextInv, CurrentInv, ReadStep \/ MainStep \/ Laid \/ UNCHANGED vars
  PROVE  TextInv'
<1>1. CASE ReadStep
  <2>1. PICK x \in Items, as \in Senses : Takes(x, as)
    BY <1>1 DEF ReadStep
  <2>2. CASE pass # "PASS1"
    <3>1. unit' = unit
      BY <2>1, <2>2, TakesNow
    <3> QED BY <3>1 DEF TextInv
  <2>3. CASE pass = "PASS1"
    <3>1. Grown(unit, unit', x) /\ Now = Len(unit) + 1 /\ Len(unit) \in Nat
      BY <2>1, <2>3, TakesNow
    <3> SUFFICES ASSUME NEW p \in 1..Len(unit'), unit'[p].kind \in Inside \cup Closing
                 PROVE  \E d \in 1..p-1 :
                          /\ Within(unit', d, p)
                          /\ unit'[p].kind \in Closing \cup {"body"} => unit'[p].name = unit'[d].name
      BY DEF TextInv
    <3>2. p \in 1..Len(unit) + 1
      BY <3>1 DEF Grown
    <3>3. CASE p \in 1..Len(unit)
      <4>1. unit'[p] = unit[p]
        BY <3>1, <3>3 DEF Grown
      <4>2. PICK d \in 1..p-1 :
              Within(unit, d, p) /\ (unit[p].kind \in Closing \cup {"body"} => unit[p].name = unit[d].name)
        BY <3>3, <4>1 DEF TextInv
      <4>3. Within(unit', d, p) /\ unit'[d] = unit[d]
        BY <3>1, <3>2, <4>2, GrownKeeps
      <4> QED BY <4>1, <4>2, <4>3
    <3>4. CASE p = Len(unit) + 1
      <4>1. unit'[p] = x
        BY <3>1, <3>4 DEF Grown
      <4>2. where # "top"
        BY <2>1, <4>1 DEF Takes, Inside, Closing
      <4>3. PICK d \in 1..Now-1 : Within(unit, d, Now) /\ unit[d].name = tbl_g[func].name
        BY <4>2 DEF CurrentInv
      <4>4. Within(unit', d, p) /\ unit'[d] = unit[d] /\ d \in 1..p-1
        BY <3>1, <3>2, <3>4, <4>3, GrownKeeps
      <4>5. x.kind \in Closing \cup {"body"} => x.name = tbl_g[func].name
        BY <2>1 DEF Takes
      <4> QED BY <4>1, <4>3, <4>4, <4>5
    <3> QED BY <3>1, <3>2, <3>3, <3>4
  <2> QED BY <2>2, <2>3
<1>2. CASE MainStep \/ Laid \/ UNCHANGED vars
  BY <1>2, MainFrame DEF TextInv
<1> QED BY <1>1, <1>2

\* Every step keeps CurrentInv.
LEMMA CurrentStep ==
  ASSUME TypeInv, TypeInv', CurrentInv, ReadStep \/ MainStep \/ Laid \/ UNCHANGED vars
  PROVE  CurrentInv'
<1>1. CASE ReadStep
  <2>1. PICK x \in Items, as \in Senses : Takes(x, as) /\ Reacts(x, as)
    BY <1>1 DEF ReadStep
  <2>2. /\ Now \in Nat \ {0} /\ Now' = Now + 1 /\ unit'[Now] = x
        /\ \A p \in 1..Now-1 : unit'[p] = unit[p]
        /\ \A d : Within(unit', d, Now) <=> Within(unit, d, Now)
    BY <2>1, TakesNow
  <2>3. ASSUME where # "top", x.kind \in Inside, tbl_g'[func'].isfunc,
               tbl_g'[func'].name = tbl_g[func].name,
               where' = "params" => ~tbl_g'[func'].body
        PROVE  CurrentInv'
    <3>1. PICK d \in 1..Now-1 : Within(unit, d, Now) /\ unit[d].name = tbl_g[func].name
      BY <2>3 DEF CurrentInv
    <3>2. Within(unit', d, Now + 1) /\ unit'[d] = unit[d] /\ d \in 1..Now'-1
      BY <2>2, <2>3, <3>1, WithinNext
    <3> QED BY <2>2, <2>3, <3>1, <3>2 DEF CurrentInv
  <2>4. CASE Halts(x)
    <3>1. CASE where = "top"
      BY <2>4, <3>1 DEF Halts, CurrentInv
    <3>2. CASE where # "top"
      <4>1. x.kind \in Inside
        <5>1. x.kind \in Kinds
          BY ItemProp
        <5> QED BY <2>1, <2>4, <3>2, <5>1 DEF Halts, Takes, Inside, Closing, Kinds
      <4> QED BY <2>3, <2>4, <3>2, <4>1 DEF Halts, CurrentInv
    <3> QED BY <3>1, <3>2
  <2>5. CASE AddsVariable(x) \/ SeesVariable(x)
    <3>1. where' = "top"
      BY <2>1, <2>5 DEF AddsVariable, SeesVariable, Takes
    <3> QED BY <3>1 DEF CurrentInv
  <2>6. CASE NamesFunction(x)
    <3>1. PICK f \in Nat : Named(x.name, f)
      BY <2>6 DEF NamesFunction
    <3>2. x.kind = "function"
      BY <2>6 DEF NamesFunction
    <3>3. Within(unit', Now, Now + 1) /\ Now \in 1..Now'-1
      BY <2>2, <3>2, WithinNext
    <3>4. /\ tbl_g'[func'].isfunc /\ tbl_g'[func'].name = unit'[Now].name
          /\ ~tbl_g'[func'].body
      BY <2>2, <3>1 DEF Named
    <3> QED BY <2>2, <3>3, <3>4 DEF CurrentInv
  <2>7. CASE AddsLocal(x) \/ SeesLocal(x) \/ Mentions(x, as) \/ Overruns(x)
    <3>1. where # "top" /\ x.kind \in Inside
      BY <2>1, <2>7 DEF AddsLocal, SeesLocal, Mentions, Overruns, Takes, Inside
    <3>2. /\ tbl_g'[func'].isfunc /\ tbl_g'[func'].name = tbl_g[func].name
          /\ tbl_g'[func'].body = tbl_g[func].body /\ where' = where
      BY <2>7, <3>1 DEF AddsLocal, SeesLocal, Mentions, Overruns, CurrentInv
    <3> QED BY <2>3, <3>1, <3>2 DEF CurrentInv
  <2>8. CASE Leaves(x)
    BY <2>8 DEF Leaves, CurrentInv
  <2>9. CASE Enters(x)
    <3>1. where # "top" /\ x.kind \in Inside
      BY <2>1, <2>9 DEF Enters, Takes, Inside
    <3>2. /\ tbl_g'[func'].isfunc /\ tbl_g'[func'].name = tbl_g[func].name
          /\ where' = "body"
      BY <2>9, <3>1 DEF Enters, Bodied, CurrentInv
    <3> QED BY <2>3, <3>1, <3>2
  <2> QED BY <2>1, <2>4, <2>5, <2>6, <2>7, <2>8, <2>9 DEF Reacts
<1>2. CASE MainStep \/ Laid
  <2>1. where' = "top"
    BY <1>2, MainFrame, MainPlace
  <2> QED BY <2>1 DEF CurrentInv
<1>3. CASE UNCHANGED vars
  BY <1>3 DEF vars, CurrentInv, Now
<1> QED BY <1>1, <1>2, <1>3

------------------------------------------------------------------------------
\* Functions and variables

\* Entries keep their name and what they are; in PASS3 the tables of the functions too.
LEMMA EntriesStay ==
  ASSUME TypeInv, KindInv, NEW x \in Items, NEW as, Takes(x, as), Reacts(x, as)
  PROVE  /\ Len(tbl_g) \in Nat /\ Len(tbl_g') \in Nat /\ Len(tbl_g) <= Len(tbl_g')
         /\ \A k \in 1..Len(tbl_g) :
              tbl_g'[k].name = tbl_g[k].name /\ tbl_g'[k].isfunc = tbl_g[k].isfunc
         /\ pass # "PASS1" =>
              /\ Len(tbl_g') = Len(tbl_g)
              /\ \A k \in 1..Len(tbl_g) : tbl_g'[k].table = tbl_g[k].table
<1>1. Len(tbl_g) \in Nat
  BY Entries DEF TypeInv
<1>2. CASE tbl_g' = tbl_g
  BY <1>1, <1>2
<1>3. CASE AddsVariable(x)
  BY <1>1, <1>3 DEF AddsVariable, Extends
<1>4. CASE NamesFunction(x)
  <2>1. PICK f \in Nat : Named(x.name, f)
    BY <1>4 DEF NamesFunction
  <2>2. /\ f \in 1..Len(tbl_g') /\ TableOK(tbl_g') /\ Persist(tbl_g, tbl_g')
        /\ tbl_g'[f].name = x.name /\ tbl_g'[f].isfunc
        /\ \A k \in 1..Len(tbl_g) : k # f => tbl_g'[k] = tbl_g[k]
        /\ pass # "PASS1" => f \in 1..Len(tbl_g) /\ tbl_g'[f].table = tbl_g[f].table
    BY <2>1 DEF Named
  <2>3. \A k \in 1..Len(tbl_g) : tbl_g'[k].name = tbl_g[k].name
    BY <2>2 DEF Persist
  <2>4. ASSUME f \in 1..Len(tbl_g) PROVE tbl_g[f].isfunc
    <3>1. CASE pass = "PASS1"
      BY <1>1, <2>1, <2>4, <3>1 DEF Named
    <3>2. CASE pass # "PASS1"
      <4>1. Reads3(x) /\ Live
        BY <3>2 DEF Takes, Reads1, Live
      <4>2. next \in 1..Len(unit) /\ unit[next] = x
        <5>1. Len(unit) \in Nat
          BY LenProperties DEF TypeInv, UnitOK
        <5> QED BY <4>1, <5>1 DEF Reads3, TypeInv, PlaceOK
      <4>3. FunctionAt(unit, next, tbl_g[f].name)
        BY <1>4, <2>2, <2>3, <2>4, <4>2 DEF FunctionAt, NamesFunction
      <4> QED BY <2>4, <4>1, <4>2, <4>3 DEF KindInv, KindOf
    <3> QED BY <3>1, <3>2
  <2>5. (tbl_g[f] \in Globals /\ tbl_g'[f] \in Globals) \/ f \notin 1..Len(tbl_g)
    BY <2>2, Entries DEF TypeInv
  <2>6. Len(tbl_g') \in Nat /\ Len(tbl_g) <= Len(tbl_g')
    BY <2>2, Entries DEF Persist
  <2>7. pass # "PASS1" => Len(tbl_g') = Len(tbl_g)
    BY <2>1 DEF Named
  <2>8. \A k \in 1..Len(tbl_g) : tbl_g'[k].isfunc = tbl_g[k].isfunc
    BY <2>2, <2>4, <2>5, GlobalProp
  <2>9. pass # "PASS1" => \A k \in 1..Len(tbl_g) : tbl_g'[k].table = tbl_g[k].table
    BY <2>2
  <2> QED BY <1>1, <2>3, <2>6, <2>7, <2>8, <2>9
<1>5. CASE AddsLocal(x) \/ Overruns(x)
  <2>1. /\ Changes(tbl_g, tbl_g', func, tbl_g'[func]) /\ pass = "PASS1"
        /\ tbl_g'[func].name = tbl_g[func].name /\ tbl_g'[func].isfunc = tbl_g[func].isfunc
    BY <1>5 DEF AddsLocal, Overruns
  <2> QED BY <1>1, <2>1 DEF Changes
<1>6. CASE Enters(x)
  <2>1. /\ Changes(tbl_g, tbl_g', func, tbl_g'[func])
        /\ tbl_g'[func].name = tbl_g[func].name /\ tbl_g'[func].isfunc = tbl_g[func].isfunc
        /\ tbl_g'[func].table = tbl_g[func].table
    BY <1>6 DEF Enters, Bodied
  <2> QED BY <1>1, <2>1 DEF Changes
<1>7. CASE Halts(x) \/ SeesVariable(x) \/ SeesLocal(x) \/ Leaves(x) \/ Mentions(x, as)
  BY <1>2, <1>7 DEF Halts, SeesVariable, SeesLocal, Leaves, Mentions
<1> QED BY <1>3, <1>4, <1>5, <1>6, <1>7 DEF Reacts

\* In PASS1 there is no new entry, or the one x makes.
LEMMA NewEntry ==
  ASSUME TypeInv, NEW x \in Items, NEW as, Takes(x, as), Reacts(x, as), pass = "PASS1",
         NEW k \in 1..Len(tbl_g'), k \notin 1..Len(tbl_g)
  PROVE  /\ k = Len(tbl_g) + 1 /\ tbl_g'[k].name = x.name
         /\ \A l \in 1..Len(tbl_g) : tbl_g[l].name # x.name
         /\ \/ AddsVariable(x) /\ x.kind = "variable" /\ ~tbl_g'[k].isfunc
            \/ NamesFunction(x) /\ x.kind = "function" /\ tbl_g'[k].isfunc
<1>1. Len(tbl_g) \in Nat
  BY Entries DEF TypeInv
<1>2. CASE AddsVariable(x)
  <2>1. /\ Extends(tbl_g, tbl_g', Variable(x.name)) /\ \A l \in 1..Len(tbl_g) : tbl_g[l].name # x.name
        /\ x.kind = "variable"
    BY <1>2 DEF AddsVariable
  <2>2. Variable(x.name).name = x.name /\ ~Variable(x.name).isfunc
    BY ItemProp, NewSymbols
  <2> QED BY <1>1, <1>2, <2>1, <2>2 DEF Extends
<1>3. CASE NamesFunction(x)
  <2>1. PICK f \in Nat : Named(x.name, f)
    BY <1>3 DEF NamesFunction
  <2>2. /\ Len(tbl_g') = Len(tbl_g) + 1 /\ f = Len(tbl_g) + 1
        /\ \A l \in 1..Len(tbl_g) : tbl_g[l].name # x.name
    BY <2>1 DEF Named
  <2>3. k = f
    BY <1>1, <2>2
  <2> QED BY <1>3, <2>1, <2>2, <2>3 DEF Named, NamesFunction
<1>4. CASE Halts(x) \/ SeesVariable(x) \/ SeesLocal(x) \/ Leaves(x) \/ Mentions(x, as)
  BY <1>4 DEF Halts, SeesVariable, SeesLocal, Leaves, Mentions
<1>5. CASE AddsLocal(x) \/ Overruns(x) \/ Enters(x)
  BY <1>5 DEF AddsLocal, Overruns, Enters, Bodied, Changes
<1> QED BY <1>2, <1>3, <1>4, <1>5 DEF Reacts

\* One more item does not change what a name is.
LEMMA KindKept ==
  ASSUME NEW u, Len(u) \in Nat, NEW w, NEW x, Grown(u, w, x), NEW s, NEW t,
         t.name = s.name, t.isfunc = s.isfunc, KindOf(u, s),
         x.kind \in {"variable", "function"} /\ x.name = s.name => s.isfunc
  PROVE  KindOf(w, t)
<1>1. Len(w) = Len(u) + 1 /\ w[Len(u) + 1] = x /\ \A p \in 1..Len(u) : w[p] = u[p]
  BY DEF Grown
<1>2. \A q \in 1..Len(w) : q \in 1..Len(u) \/ q = Len(u) + 1
  BY <1>1
<1>3. \A q \in 1..Len(u) : \A n : /\ q \in 1..Len(w)
                                  /\ VariableAt(w, q, n) <=> VariableAt(u, q, n)
                                  /\ FunctionAt(w, q, n) <=> FunctionAt(u, q, n)
  BY <1>1 DEF VariableAt, FunctionAt
<1>4. CASE s.isfunc
  <2>1. PICK d \in 1..Len(u) : FunctionAt(u, d, s.name)
    BY <1>4 DEF KindOf
  <2>2. FunctionAt(w, d, s.name) /\ d \in 1..Len(w)
    BY <1>3, <2>1
  <2>3. ASSUME NEW q \in 1..Len(w), VariableAt(w, q, s.name)
        PROVE  \E c \in 1..q-1 : FunctionAt(w, c, s.name)
    <3>1. CASE q \in 1..Len(u)
      <4>1. PICK c \in 1..q-1 : FunctionAt(u, c, s.name)
        BY <1>3, <1>4, <2>3, <3>1 DEF KindOf
      <4>2. c \in 1..Len(u)
        BY <3>1
      <4> QED BY <1>3, <4>1, <4>2
    <3>2. CASE q = Len(u) + 1
      <4>1. d \in 1..q-1
        BY <3>2
      <4> QED BY <2>2, <4>1
    <3> QED BY <1>2, <2>3, <3>1, <3>2
  <2> QED BY <1>4, <2>2, <2>3 DEF KindOf
<1>5. CASE ~s.isfunc
  <2>1. ~VariableAt(w, Len(u) + 1, s.name) /\ ~FunctionAt(w, Len(u) + 1, s.name)
    BY <1>1, <1>5 DEF VariableAt, FunctionAt
  <2>2. \A q \in 1..Len(w) : VariableAt(w, q, s.name) => q \in 1..Len(u) /\ VariableAt(u, q, s.name)
    BY <1>2, <1>3, <2>1
  <2>3. \A q \in 1..Len(w) : ~FunctionAt(w, q, s.name)
    BY <1>2, <1>3, <1>5, <2>1 DEF KindOf
  <2>4. \E q \in 1..Len(w) : VariableAt(w, q, s.name)
    BY <1>3, <1>5 DEF KindOf
  <2>5. \A p \in 1..Len(w), q \in 1..Len(w) :
          VariableAt(w, p, s.name) /\ VariableAt(w, q, s.name) => p = q
    BY <1>5, <2>2 DEF KindOf
  <2> QED BY <1>5, <2>3, <2>4, <2>5 DEF KindOf
<1> QED BY <1>4, <1>5

\* Every step keeps KindInv.
LEMMA KindStep ==
  ASSUME TypeInv, KindInv, ReadStep \/ MainStep \/ Laid \/ UNCHANGED vars
  PROVE  KindInv'
<1>1. CASE ReadStep
  <2>1. PICK x \in Items, as \in Senses : Takes(x, as) /\ Reacts(x, as)
    BY <1>1 DEF ReadStep
  <2>2. /\ Len(tbl_g) \in Nat /\ Len(tbl_g') \in Nat /\ Len(tbl_g) <= Len(tbl_g')
        /\ \A k \in 1..Len(tbl_g) :
             tbl_g'[k].name = tbl_g[k].name /\ tbl_g'[k].isfunc = tbl_g[k].isfunc
        /\ pass # "PASS1" => Len(tbl_g') = Len(tbl_g)
    BY <2>1, EntriesStay
  <2>3. Live /\ pass' = pass
    BY <2>1 DEF Takes, Live
  <2> SUFFICES ASSUME Live', NEW k \in 1..Len(tbl_g') PROVE KindOf(unit', tbl_g'[k])
    BY DEF KindInv
  <2>4. CASE pass # "PASS1"
    <3>1. unit' = unit /\ k \in 1..Len(tbl_g)
      BY <2>1, <2>2, <2>4, TakesNow
    <3>2. KindOf(unit, tbl_g[k])
      BY <2>3, <3>1 DEF KindInv
    <3> QED BY <2>2, <3>1, <3>2 DEF KindOf
  <2>5. CASE pass = "PASS1"
    <3>1. Grown(unit, unit', x) /\ Len(unit) \in Nat /\ ~Doubled(x)
      <4>1. err' = "none"
        BY <2>3, <2>5 DEF Live
      <4> QED BY <2>1, <2>5, <4>1, TakesNow DEF Takes
    <3>2. CASE k \in 1..Len(tbl_g)
      <4>1. KindOf(unit, tbl_g[k])
        BY <2>3, <3>2 DEF KindInv
      <4>2. x.kind \in {"variable", "function"} /\ x.name = tbl_g[k].name => tbl_g[k].isfunc
        BY <3>1, <3>2 DEF Doubled
      <4> QED BY <2>2, <3>1, <3>2, <4>1, <4>2, KindKept
    <3>3. CASE k \notin 1..Len(tbl_g)
      <4>1. /\ tbl_g'[k].name = x.name /\ \A l \in 1..Len(tbl_g) : tbl_g[l].name # x.name
            /\ \/ x.kind = "variable" /\ ~tbl_g'[k].isfunc
               \/ x.kind = "function" /\ tbl_g'[k].isfunc
        BY <2>1, <2>5, <3>3, NewEntry
      <4>2. \A p \in 1..Len(unit) : ~VariableAt(unit, p, x.name) /\ ~FunctionAt(unit, p, x.name)
        BY <2>3, <4>1 DEF TypeInv, NamesInv, VariableAt, FunctionAt
      <4>3. /\ Len(unit') = Len(unit) + 1 /\ unit'[Len(unit) + 1] = x
            /\ \A p \in 1..Len(unit) : unit'[p] = unit[p]
        BY <3>1 DEF Grown
      <4>4. \A p \in 1..Len(unit') : p # Len(unit) + 1 =>
              ~VariableAt(unit', p, x.name) /\ ~FunctionAt(unit', p, x.name)
        BY <3>1, <4>2, <4>3 DEF VariableAt, FunctionAt
      <4>5. Len(unit) + 1 \in 1..Len(unit')
        BY <3>1, <4>3
      <4>6. CASE x.kind = "variable" /\ ~tbl_g'[k].isfunc
        <5>1. VariableAt(unit', Len(unit) + 1, x.name) /\ ~FunctionAt(unit', Len(unit) + 1, x.name)
          BY <4>3, <4>6 DEF VariableAt, FunctionAt
        <5> QED BY <4>1, <4>4, <4>5, <4>6, <5>1 DEF KindOf
      <4>7. CASE x.kind = "function" /\ tbl_g'[k].isfunc
        <5>1. FunctionAt(unit', Len(unit) + 1, x.name) /\ ~VariableAt(unit', Len(unit) + 1, x.name)
          BY <4>3, <4>7 DEF VariableAt, FunctionAt
        <5> QED BY <4>1, <4>4, <4>5, <4>7, <5>1 DEF KindOf
      <4> QED BY <4>1, <4>6, <4>7
    <3> QED BY <3>2, <3>3
  <2> QED BY <2>4, <2>5
<1>2. CASE MainStep \/ UNCHANGED vars
  <2>1. UNCHANGED <<tbl_g, unit>>
    BY <1>2 DEF MainStep, EndPass1, SkipVariable, CallLayout, LayoutStep, StartPass3, EndPass3,
                vars, declVars
  <2>2. Live' => Live
    BY <1>2, MainPlace DEF vars, Live
  <2> QED BY <2>1, <2>2 DEF KindInv
<1>3. CASE Laid
  <2>1. /\ Changes(tbl_g, tbl_g', func, tbl_g'[func]) /\ unit' = unit
        /\ tbl_g'[func].name = tbl_g[func].name /\ tbl_g'[func].isfunc = tbl_g[func].isfunc
    BY <1>3 DEF Laid
  <2>2. Live
    BY <1>3, MainPlace
  <2>3. \A k \in 1..Len(tbl_g') : /\ k \in 1..Len(tbl_g) /\ tbl_g'[k].name = tbl_g[k].name
                                  /\ tbl_g'[k].isfunc = tbl_g[k].isfunc
    BY <2>1 DEF Changes
  <2> QED BY <2>1, <2>2, <2>3 DEF KindInv, KindOf
<1> QED BY <1>1, <1>2, <1>3

------------------------------------------------------------------------------
\* What is declared twice, and what a use was taken for

\* A local name, by the table of the current function.
LEMMA LocalProp ==
  ASSUME TypeInv, where # "top", NEW n
  PROVE  IsLocal(n) <=> \E l \in 1..Len(tbl_g[func].table.vars) : tbl_g[func].table.vars[l].name = n
<1>1. tbl_g[func] \in Globals
  BY NameOfCurrent
<1>2. tbl_g[func].table.vars \in Seq(Locals)
  BY <1>1, GlobalProp
<1>3. DOMAIN tbl_g[func].table.vars = 1..Len(tbl_g[func].table.vars)
  BY <1>2, LenProperties
<1> QED BY <1>3, Zenon DEF IsLocal, Table

\* In PASS1 the table of the current function holds what its declaration has declared.
LEMMA CurrentTable ==
  ASSUME TypeInv, CurrentInv, TableInv, pass = "PASS1", err = "none", where # "top"
  PROVE  \E d \in 1..Len(unit), m \in 0..MAX_VARIABLE :
           /\ TableFits(func, d, Len(unit) + 1, m)
           /\ Within(unit, d, Len(unit) + 1)
           /\ \A n \in Names : IsLocal(n) <=> Declares(unit, d, Len(unit) + 1, n)
<1>1. func \in 1..Len(tbl_g) /\ tbl_g[func].isfunc /\ Live
  BY NameOfCurrent DEF CurrentInv, Live
<1>2. PICK d \in 1..Len(unit), e \in 1..Len(unit)+1, m \in 0..MAX_VARIABLE :
        TableFits(func, d, e, m)
  BY <1>1 DEF TableInv, HasFit
<1>3. e = Len(unit) + 1 /\ Within(unit, d, e) /\ Fits(unit, tbl_g[func].table.vars, d, e, m)
  BY <1>2 DEF TableFits, Current
<1>4. \A n \in Names : IsLocal(n) <=> Declares(unit, d, Len(unit) + 1, n)
  BY <1>3, LocalProp DEF Fits
<1> QED BY <1>2, <1>3, <1>4

\* One more item does not make an earlier one a second definition.
LEMMA TwiceGrown ==
  ASSUME NEW u, Len(u) \in Nat, NEW w, NEW x, Grown(u, w, x), NEW p \in 1..Len(u)
  PROVE  Twice(w, p) <=> Twice(u, p)
<1>1. w[p] = u[p] /\ \A q \in 1..p-1 : w[q] = u[q]
  BY DEF Grown
<1>2. p \in 1..Len(u) + 1
  OBVIOUS
<1>3. \A d \in 1..p-1 : /\ Within(w, d, p) <=> Within(u, d, p)
                        /\ \A n : Declares(w, d, p, n) <=> Declares(u, d, p, n)
  BY <1>2, GrownKeeps
<1>4. \A q \in 1..p-1 : \A n : /\ VariableAt(w, q, n) <=> VariableAt(u, q, n)
                               /\ \A d \in 1..q : FunctionAt(w, d, n) <=> FunctionAt(u, d, n)
  <2>1. \A q \in 1..p-1 : \A d \in 1..q : d \in 1..p-1
    OBVIOUS
  <2> QED BY <1>1, <2>1 DEF VariableAt, FunctionAt
<1> QED BY <1>1, <1>3, <1>4 DEF Twice

\* The item that is read now is declared twice if PASS1 finds it in a table.
LEMMA TwiceNow ==
  ASSUME TypeInv, TextInv, CurrentInv, KindInv, TableInv, pass = "PASS1",
         NEW x \in Items, NEW as, Takes(x, as)
  PROVE  Twice(unit', Len(unit) + 1) <=> Doubled(x)
<1> DEFINE p == Len(unit) + 1
<1>1. /\ Grown(unit, unit', x) /\ Len(unit) \in Nat /\ Now = p /\ unit'[p] = x
      /\ \A d : Within(unit', d, p) <=> Within(unit, d, p)
      /\ \A q \in 1..p-1 : unit'[q] = unit[q]
  BY TakesNow
<1>2. err = "none" /\ Live
  BY DEF Takes, Live
<1>3. p \in Nat /\ p - 1 = Len(unit)
  BY <1>1
<1>3a. Len(unit) \in Nat
  BY <1>1
<1>4. CASE x.kind \in {"variable", "function"}
  <2>1. \A q \in 1..Len(unit) : \A n : /\ VariableAt(unit', q, n) <=> VariableAt(unit, q, n)
                                       /\ FunctionAt(unit', q, n) <=> FunctionAt(unit, q, n)
    BY <1>1, <1>3 DEF VariableAt, FunctionAt
  <2>2. ASSUME NEW k \in 1..Len(tbl_g), tbl_g[k].name = x.name, ~tbl_g[k].isfunc
        PROVE  Twice(unit', p)
    <3>1. KindOf(unit, tbl_g[k])
      BY <1>2 DEF KindInv
    <3>2. PICK q \in 1..Len(unit) : VariableAt(unit, q, x.name)
      BY <2>2, <3>1 DEF KindOf
    <3>3. \A d \in 1..Len(unit) : ~FunctionAt(unit, d, x.name)
      BY <2>2, <3>1 DEF KindOf
    <3>4. q \in 1..p-1 /\ VariableAt(unit', q, x.name)
      BY <1>3, <2>1, <3>2
    <3>5. \A d \in 1..q : d \in 1..Len(unit) /\ ~FunctionAt(unit', d, x.name)
      BY <1>3a, <2>1, <3>2, <3>3
    <3> QED BY <1>1, <1>4, <3>4, <3>5 DEF Twice
  <2>3. ASSUME Twice(unit', p)
        PROVE  \E k \in 1..Len(tbl_g) : tbl_g[k].name = x.name /\ ~tbl_g[k].isfunc
    <3>1. PICK q \in 1..p-1 :
            VariableAt(unit', q, x.name) /\ \A d \in 1..q : ~FunctionAt(unit', d, x.name)
      BY <1>1, <1>4, <2>3 DEF Twice
    <3>2. q \in 1..Len(unit) /\ VariableAt(unit, q, x.name)
      BY <1>3, <2>1, <3>1
    <3>3. PICK k \in 1..Len(tbl_g) : tbl_g[k].name = x.name
      BY <1>2, <3>2 DEF TypeInv, NamesInv, VariableAt
    <3>4. ASSUME tbl_g[k].isfunc PROVE FALSE
      <4>1. PICK d \in 1..q-1 : FunctionAt(unit, d, x.name)
        BY <1>2, <3>2, <3>3, <3>4 DEF KindInv, KindOf
      <4>2. d \in 1..q /\ d \in 1..Len(unit)
        BY <1>3a, <3>2
      <4> QED BY <2>1, <3>1, <4>1, <4>2
    <3> QED BY <3>3, <3>4
  <2> QED BY <1>4, <2>2, <2>3 DEF Doubled
<1>5. CASE x.kind \in {"param", "auto"}
  <2>1. where # "top" /\ x.name \in Names
    BY <1>5, ItemProp DEF Takes
  <2>2. PICK d \in 1..Len(unit) :
          /\ Within(unit, d, p)
          /\ \A n \in Names : IsLocal(n) <=> Declares(unit, d, p, n)
    BY <1>2, <2>1, CurrentTable
  <2>3. Within(unit', d, p) /\ (Declares(unit', d, p, x.name) <=> Declares(unit, d, p, x.name))
    <3>1. p \in 1..Len(unit) + 1 /\ d \in Nat
      BY <1>1
    <3> QED BY <1>1, <2>2, <3>1, GrownKeeps
  <2>4. \A c : Within(unit', c, p) => c = d
    BY <1>3, <2>3, WithinUnique
  <2>5. d \in 1..p-1
    BY <1>3, <2>2
  <2>6. Twice(unit', p) <=> Declares(unit', d, p, x.name)
    BY <1>1, <1>5, <2>3, <2>4, <2>5 DEF Twice
  <2>7. Doubled(x) <=> IsLocal(x.name)
    BY <1>5 DEF Doubled
  <2> QED BY <2>1, <2>2, <2>3, <2>6, <2>7
<1>6. CASE x.kind \notin {"variable", "function", "param", "auto"}
  BY <1>1, <1>6 DEF Twice, Doubled
<1> QED BY <1>4, <1>5, <1>6

\* Every step keeps TwiceInv.
LEMMA TwiceStep ==
  ASSUME TypeInv, TextInv, CurrentInv, KindInv, TableInv, TwiceInv,
         ReadStep \/ MainStep \/ Laid \/ UNCHANGED vars
  PROVE  TwiceInv'
<1>1. CASE ReadStep
  <2>1. PICK x \in Items, as \in Senses : Takes(x, as)
    BY <1>1 DEF ReadStep
  <2>2. err = "none" /\ pass' = pass
    BY <2>1 DEF Takes
  <2>3. CASE pass # "PASS1"
    <3>1. unit' = unit
      BY <2>1, <2>3, TakesNow
    <3> QED BY <2>2, <2>3, <3>1 DEF TwiceInv
  <2>4. CASE pass = "PASS1"
    <3>1. Grown(unit, unit', x) /\ Len(unit) \in Nat /\ Len(unit') = Len(unit) + 1
      BY <2>1, <2>4, TakesNow DEF Grown
    <3>2. ASSUME NEW p \in 1..Len(unit)
          PROVE  ~Twice(unit', p) /\ p # Len(unit')
      <4>1. ~Twice(unit, p)
        BY <2>2 DEF TwiceInv
      <4> QED BY <3>1, <4>1, TwiceGrown
    <3>3. Twice(unit', Len(unit')) <=> err' = "multiple"
      <4>1. Twice(unit', Len(unit')) <=> Doubled(x)
        BY <2>1, <2>4, <3>1, TwiceNow
      <4>2. err' = "multiple" <=> Doubled(x)
        BY <2>1, <2>4 DEF Takes
      <4> QED BY <4>1, <4>2
    <3>4. \A p \in 1..Len(unit') : p \in 1..Len(unit) \/ p = Len(unit')
      BY <3>1
    <3> QED BY <2>2, <2>4, <3>2, <3>3, <3>4 DEF TwiceInv
  <2> QED BY <2>3, <2>4
<1>2. CASE MainStep \/ Laid
  <2>1. err = "none" /\ err' = err /\ unit' = unit
    BY <1>2, MainPlace, MainFrame
  <2> QED BY <2>1 DEF TwiceInv
<1>3. CASE UNCHANGED vars
  BY <1>3 DEF vars, TwiceInv
<1> QED BY <1>1, <1>2, <1>3

\* Every step keeps UseInv.
LEMMA UseInvStep ==
  ASSUME TypeInv, CurrentInv, TableInv, UseInv, ReadStep \/ MainStep \/ Laid \/ UNCHANGED vars
  PROVE  UseInv'
<1>1. CASE ReadStep
  <2>1. PICK x \in Items, as \in Senses : Takes(x, as) /\ Reacts(x, as)
    BY <1>1 DEF ReadStep
  <2>2. err = "none" /\ pass' = pass /\ Live
    BY <2>1 DEF Takes, Live
  <2>3. CASE pass # "PASS1"
    <3>1. unit' = unit /\ first' = first
      BY <2>1, <2>3, TakesNow DEF Reads3
    <3> QED BY <2>2, <3>1 DEF UseInv
  <2>4. CASE pass = "PASS1"
    <3>1. Grown(unit, unit', x) /\ Len(unit) \in Nat /\ Reads1(x, as) /\ unit'[Len(unit) + 1] = x
      BY <2>1, <2>4, TakesNow DEF Grown
    <3> SUFFICES ASSUME Live', NEW p \in 1..Len(unit'), unit'[p].kind = "use"
                 PROVE  /\ first'[p] \in {"local", "global"}
                        /\ \E d \in 1..p-1 :
                             /\ Within(unit', d, p)
                             /\ first'[p] = "local" <=> Declares(unit', d, p, unit'[p].name)
      BY DEF UseInv
    <3>2. p \in 1..Len(unit) + 1
      BY <3>1 DEF Grown
    <3>3. \A d \in 1..p-1 : /\ Within(unit', d, p) <=> Within(unit, d, p)
                            /\ \A n : Declares(unit', d, p, n) <=> Declares(unit, d, p, n)
      <4>1. \A d : Within(unit', d, p) <=> Within(unit, d, p)
        BY <3>1, <3>2, GrownKeeps
      <4>2. \A d \in Nat : \A n : Declares(unit', d, p, n) <=> Declares(unit, d, p, n)
        BY <3>1, <3>2, GrownKeeps
      <4> QED BY <4>1, <4>2
    <3>4. CASE p \in 1..Len(unit)
      <4>1. unit'[p] = unit[p] /\ first'[p] = first[p]
        BY <3>1, <3>4 DEF Reads1
      <4>2. /\ first[p] \in {"local", "global"}
            /\ \E d \in 1..p-1 : /\ Within(unit, d, p)
                                 /\ first[p] = "local" <=> Declares(unit, d, p, unit[p].name)
        BY <2>2, <3>4, <4>1 DEF UseInv
      <4> QED BY <3>3, <4>1, <4>2
    <3>5. CASE p = Len(unit) + 1
      <4>1. unit'[p] = x /\ first'[p] = as /\ x.kind = "use" /\ x.name \in Names
        BY <3>1, <3>5, ItemProp DEF Reads1
      <4>2. err' = "none" /\ where # "top"
        BY <2>1, <2>2, <2>4, <4>1 DEF Live, Takes
      <4>3. as = Resolve(x.name) /\ as \in {"local", "global"}
        BY <2>1, <4>1, <4>2 DEF Reacts, Halts, Overruns, AddsVariable, SeesVariable,
             NamesFunction, AddsLocal, SeesLocal, Leaves, Enters, Mentions, Closing
      <4>4. as = "local" <=> IsLocal(x.name)
        BY <4>3 DEF Resolve
      <4>5. PICK d \in 1..Len(unit) :
              /\ Within(unit, d, p)
              /\ \A n \in Names : IsLocal(n) <=> Declares(unit, d, p, n)
        BY <2>2, <2>4, <3>5, <4>2, CurrentTable
      <4>6. d \in 1..p-1
        BY <3>1, <3>5
      <4> QED BY <3>3, <4>1, <4>3, <4>4, <4>5, <4>6
    <3> QED BY <3>1, <3>2, <3>4, <3>5
  <2> QED BY <2>3, <2>4
<1>2. CASE MainStep \/ Laid \/ UNCHANGED vars
  <2>1. UNCHANGED <<unit, first, err>>
    BY <1>2, MainFrame
  <2>2. Live' => Live
    BY <1>2, MainPlace DEF vars, Live
  <2> QED BY <2>1, <2>2 DEF UseInv
<1> QED BY <1>1, <1>2

------------------------------------------------------------------------------
\* The tables of the functions

\* The last declaration after one more item.
LEMMA LatestGrown ==
  ASSUME NEW u, Len(u) \in Nat, NEW w, NEW x, Grown(u, w, x), NEW n
  PROVE  /\ \A d : Latest(u, d, n) /\ ~(x.kind = "function" /\ x.name = n) => Latest(w, d, n)
         /\ x.kind = "function" /\ x.name = n => Latest(w, Len(u) + 1, n)
<1>1. Len(w) = Len(u) + 1 /\ w[Len(u) + 1] = x /\ \A p \in 1..Len(u) : w[p] = u[p]
  BY DEF Grown
<1>2. ASSUME NEW d, Latest(u, d, n), ~(x.kind = "function" /\ x.name = n) PROVE Latest(w, d, n)
  <2>1. d \in 1..Len(u) /\ FunctionAt(u, d, n) /\ \A q \in d+1..Len(u) : ~FunctionAt(u, q, n)
    BY <1>2 DEF Latest
  <2>2. d \in 1..Len(w) /\ FunctionAt(w, d, n)
    BY <1>1, <2>1 DEF FunctionAt
  <2>3. ASSUME NEW q \in d+1..Len(w) PROVE ~FunctionAt(w, q, n)
    <3>1. (q \in d+1..Len(u) /\ w[q] = u[q]) \/ w[q] = x
      BY <1>1, <2>1
    <3> QED BY <1>2, <2>1, <3>1 DEF FunctionAt
  <2> QED BY <2>2, <2>3 DEF Latest
<1>3. ASSUME x.kind = "function", x.name = n PROVE Latest(w, Len(u) + 1, n)
  BY <1>1, <1>3 DEF Latest, FunctionAt
<1> QED BY <1>2, <1>3

\* One more item does not change what a table fits.
LEMMA FitsGrown ==
  ASSUME NEW u, Len(u) \in Nat, NEW w, NEW x, Grown(u, w, x), NEW v, Len(v) \in Nat,
         NEW d \in Nat, NEW e \in 1..Len(u) + 1, NEW m, Fits(u, v, d, e, m)
  PROVE  Fits(w, v, d, e, m)
<1>1. /\ \A n : Declares(w, d, e, n) <=> Declares(u, d, e, n)
      /\ \A q \in 1..e-1 : w[q] = u[q]
  BY GrownKeeps
<1>2. m \in 0..Len(v) /\ d + m < e
  BY DEF Fits
<1>3. \A l \in 1..m : d + l \in 1..e-1
  BY <1>2
<1>4. \A l \in 1..m : SymbolAt(w, d + l, v[l].name) /\ w[d + l].kind = "param"
  BY <1>1, <1>3 DEF Fits, SymbolAt
<1>5. ASSUME NEW b \in d+1..e-1, w[b].kind = "body" PROVE b = d + m + 1
  <2>1. w[b] = u[b]
    BY <1>1
  <2> QED BY <1>5, <2>1 DEF Fits
<1>6. \A n \in Names : (\E l \in 1..Len(v) : v[l].name = n) <=> Declares(w, d, e, n)
  BY <1>1 DEF Fits
<1> QED BY <1>2, <1>4, <1>5, <1>6 DEF Fits

\* The name of a function, and an empty table.
LEMMA FitsNothing ==
  ASSUME NEW u, NEW v, Len(v) = 0, NEW d \in Nat
  PROVE  Fits(u, v, d, d + 1, 0) /\ Split(v, 0)
<1>1. \A n : ~Declares(u, d, d + 1, n)
  BY DeclaresNothing
<1>2. 0 \in 0..Len(v) /\ d + 0 < d + 1
  OBVIOUS
<1>3. \A b : b \notin d+1..d+1-1
  OBVIOUS
<1>4. \A l : l \notin 1..Len(v) /\ l \notin 1..0
  OBVIOUS
<1>5. \A n \in Names : (\E l \in 1..Len(v) : v[l].name = n) <=> Declares(u, d, d + 1, n)
  BY <1>1, <1>4
<1>6. /\ \A l \in 1..0 : SymbolAt(u, d + l, v[l].name) /\ u[d + l].kind = "param"
      /\ \A b \in d+1..d+1-1 : u[b].kind = "body" => b = d + 0 + 1
  BY <1>3, <1>4, Zenon
<1>7. Fits(u, v, d, d + 1, 0)
  BY <1>2, <1>5, <1>6 DEF Fits
<1> QED BY <1>4, <1>7 DEF Split

\* An item that declares nothing, or is the body.
LEMMA FitsOn ==
  ASSUME NEW u, NEW v, Len(v) \in Nat, NEW d \in Nat, NEW e \in Nat, d < e, NEW m,
         Fits(u, v, d, e, m), u[e].kind \notin {"param", "auto"},
         u[e].kind = "body" => e = d + m + 1
  PROVE  Fits(u, v, d, e + 1, m)
<1>1. m \in 0..Len(v) /\ d + m < e + 1
  BY DEF Fits
<1>2. \A n : Declares(u, d, e + 1, n) <=> Declares(u, d, e, n)
  <2>1. \A n : ~SymbolAt(u, e, n)
    BY DEF SymbolAt
  <2>2. CASE d = 0
    <3>1. \A q \in d+1..e : q \in d+1..e-1 \/ q = e
      OBVIOUS
    <3>2. \A q \in d+1..e-1 : q \in d+1..e
      OBVIOUS
    <3> QED BY <2>1, <3>1, <3>2 DEF Declares
  <2>3. CASE d # 0
    <3>1. d \in 1..e-1
      BY <2>3
    <3> QED BY <2>1, <3>1, DeclaresNext
  <2> QED BY <2>2, <2>3
<1>3. ASSUME NEW b \in d+1..e, u[b].kind = "body" PROVE b = d + m + 1
  <2>1. b \in d+1..e-1 \/ b = e
    OBVIOUS
  <2> QED BY <1>3, <2>1 DEF Fits
<1>4. e + 1 - 1 = e
  OBVIOUS
<1> QED BY <1>1, <1>2, <1>3, <1>4 DEF Fits

\* An item that declares a symbol, and its entry.
LEMMA FitsMore ==
  ASSUME NEW u, NEW v \in Seq(Locals), NEW z \in Locals, NEW d \in Nat, NEW e \in Nat, d \in 1..e-1,
         NEW m, Fits(u, v, d, e, m), SymbolAt(u, e, z.name), NEW y, y = Append(v, z)
  PROVE  /\ Fits(u, y, d, e + 1, m)
         /\ u[e].kind = "param" /\ e = d + m + 1 /\ Len(v) = m => Fits(u, y, d, e + 1, m + 1)
<1>1. /\ Len(v) \in Nat /\ Len(y) = Len(v) + 1 /\ y[Len(v) + 1] = z
      /\ \A l \in 1..Len(v) : y[l] = v[l]
  BY AppendProperties, LenProperties
<1>2. m \in 0..Len(v) /\ d + m < e
  BY DEF Fits
<1>3. ASSUME NEW n \in Names
      PROVE  (\E l \in 1..Len(y) : y[l].name = n) <=> Declares(u, d, e + 1, n)
  <2>1. (\E l \in 1..Len(y) : y[l].name = n) <=> (\E l \in 1..Len(v) : v[l].name = n) \/ z.name = n
    <3>1. \A l \in 1..Len(y) : l \in 1..Len(v) \/ l = Len(v) + 1
      BY <1>1
    <3>2. Len(v) + 1 \in 1..Len(y) /\ \A l \in 1..Len(v) : l \in 1..Len(y)
      BY <1>1
    <3> QED BY <1>1, <3>1, <3>2
  <2>2. SymbolAt(u, e, n) <=> z.name = n
    BY DEF SymbolAt
  <2>3. Declares(u, d, e + 1, n) <=> Declares(u, d, e, n) \/ SymbolAt(u, e, n)
    BY DeclaresNext
  <2> QED BY <2>1, <2>2, <2>3 DEF Fits
<1>4. \A b \in d+1..e : u[b].kind = "body" => b = d + m + 1 /\ b \in d+1..e-1
  <2>1. u[e].kind # "body"
    BY DEF SymbolAt
  <2>2. \A b \in d+1..e : b \in d+1..e-1 \/ b = e
    OBVIOUS
  <2> QED BY <2>1, <2>2 DEF Fits
<1>5. \A l \in 1..m : y[l] = v[l]
  BY <1>1, <1>2
<1>6. e + 1 - 1 = e
  OBVIOUS
<1>7. Fits(u, y, d, e + 1, m)
  <2>1. m \in 0..Len(y) /\ d + m < e + 1
    BY <1>1, <1>2
  <2>2. \A l \in 1..m : SymbolAt(u, d + l, y[l].name) /\ u[d + l].kind = "param"
    BY <1>5 DEF Fits
  <2> QED BY <1>3, <1>4, <1>6, <2>1, <2>2 DEF Fits
<1>8. ASSUME u[e].kind = "param", e = d + m + 1, Len(v) = m
      PROVE  Fits(u, y, d, e + 1, m + 1)
  <2>1. m + 1 \in 0..Len(y) /\ d + (m + 1) < e + 1
    BY <1>1, <1>2, <1>8
  <2>2. ASSUME NEW l \in 1..m+1
        PROVE  SymbolAt(u, d + l, y[l].name) /\ u[d + l].kind = "param"
    <3>1. CASE l \in 1..m
      BY <1>5, <3>1 DEF Fits
    <3>2. CASE l = m + 1
      <4>1. d + l = e /\ y[l] = z
        BY <1>1, <1>2, <1>8, <3>2
      <4> QED BY <1>8, <4>1
    <3> QED BY <1>2, <2>2, <3>1, <3>2
  <2>3. \A b \in d+1..e : u[b].kind = "body" => b = d + (m + 1) + 1
    <3>1. ASSUME NEW b \in d+1..e-1, b = d + m + 1 PROVE FALSE
      BY <1>8, <3>1
    <3> QED BY <1>4, <3>1
  <2> QED BY <1>3, <1>6, <2>1, <2>2, <2>3 DEF Fits
<1> QED BY <1>7, <1>8

\* A table PASS1 does not touch.
LEMMA UntouchedTable ==
  ASSUME TypeInv, NEW x \in Items, NEW as, Takes(x, as), pass = "PASS1",
         NEW k \in 1..Len(tbl_g), tbl_g'[k].table = tbl_g[k].table,
         tbl_g'[k].name = tbl_g[k].name, ~Current(k), ~Current(k)',
         ~(x.kind = "function" /\ x.name = tbl_g[k].name), HasFit(k)
  PROVE  HasFit(k)'
<1>1. Grown(unit, unit', x) /\ Len(unit) \in Nat /\ pass' = "PASS1"
  BY TakesNow DEF Takes
<1>1a. Len(unit') = Len(unit) + 1
  BY <1>1 DEF Grown
<1>2. PICK d \in 1..Len(unit), e \in 1..Len(unit)+1, m \in 0..MAX_VARIABLE : TableFits(k, d, e, m)
  BY DEF HasFit
<1>3. /\ Latest(unit, d, tbl_g[k].name) /\ Within(unit, d, e)
      /\ e <= Len(unit) /\ unit[e].kind \in Closing
      /\ Fits(unit, tbl_g[k].table.vars, d, e, m) /\ Split(tbl_g[k].table.vars, m)
  BY <1>2 DEF TableFits, Pending
<1>4. Latest(unit', d, tbl_g[k].name) /\ Within(unit', d, e)
  BY <1>1, <1>3, LatestGrown, GrownKeeps
<1>5. e <= Len(unit') /\ unit'[e] = unit[e]
  BY <1>1, <1>1a, <1>3 DEF Grown
<1>6. Fits(unit', tbl_g[k].table.vars, d, e, m)
  <2>1. Len(tbl_g[k].table.vars) \in Nat
    BY Entries, GlobalProp DEF TypeInv
  <2> QED BY <1>1, <1>3, <2>1, FitsGrown
<1>7. TableFits(k, d, e, m)'
  BY <1>1, <1>3, <1>4, <1>5, <1>6 DEF TableFits, Pending
<1>8. d \in 1..Len(unit') /\ e \in 1..Len(unit')+1
  BY <1>1, <1>1a
<1> QED BY <1>7, <1>8 DEF HasFit

\* The table of the current function, after an item of its declaration.
LEMMA AdvancedTable ==
  ASSUME TypeInv, TypeInv', NEW x \in Items, NEW as, Takes(x, as), pass = "PASS1", where # "top",
         NEW k \in 1..Len(tbl_g), k = func,
         tbl_g'[func].name = tbl_g[func].name, func \in 1..Len(tbl_g'),
         NEW d \in 1..Len(unit), Latest(unit, d, tbl_g[func].name), Within(unit, d, Len(unit) + 1),
         NEW e, NEW m \in Nat, Fits(unit', tbl_g'[func].table.vars, d, e, m),
         Split(tbl_g'[func].table.vars, m),
         \/ /\ where' # "top" /\ func' = func /\ x.kind \in Inside /\ e = Len(unit) + 2
            /\ where' = "params" => e = d + m + 1
         \/ where' = "top" /\ x.kind \in Closing /\ e = Len(unit) + 1
  PROVE  HasFit(k)'
<1>1. Grown(unit, unit', x) /\ Len(unit) \in Nat /\ pass' = "PASS1"
  BY TakesNow DEF Takes
<1>2. Len(unit') = Len(unit) + 1 /\ unit'[Len(unit) + 1] = x
  BY <1>1 DEF Grown
<1>3. Within(unit', d, Len(unit) + 1)
  <2>1. Len(unit) + 1 \in 1..Len(unit) + 1
    BY <1>1
  <2> QED BY <1>1, <2>1, GrownKeeps
<1>4. x.kind # "function"
  BY DEF Inside, Closing
<1>5. Latest(unit', d, tbl_g[func].name)
  BY <1>1, <1>4, LatestGrown
<1>6. m <= Len(tbl_g'[func].table.vars)
  <2>1. Len(tbl_g'[func].table.vars) \in Nat
    BY Entries, GlobalProp DEF TypeInv
  <2> QED BY <2>1 DEF Fits
<1>7. m \in 0..MAX_VARIABLE
  <2>1. Len(tbl_g'[func].table.vars) <= MAX_VARIABLE /\ Len(tbl_g'[func].table.vars) \in Nat
    BY Entries, GlobalProp DEF TypeInv, TableOK
  <2> QED BY <1>6, <2>1, LimitsAssumption
<1>8. CASE /\ where' # "top" /\ func' = func /\ x.kind \in Inside /\ e = Len(unit) + 2
           /\ where' = "params" => e = d + m + 1
  <2>1. Within(unit', d, e)
    <3>1. Len(unit) + 1 \in Nat /\ e = (Len(unit) + 1) + 1
      BY <1>1, <1>8
    <3> QED BY <1>2, <1>3, <1>8, <3>1, WithinNext
  <2>2. TableFits(k, d, e, m)'
    BY <1>1, <1>2, <1>5, <1>8, <2>1 DEF TableFits, Current, Pending
  <2>3. d \in 1..Len(unit') /\ e \in 1..Len(unit')+1
    BY <1>1, <1>2, <1>8
  <2> QED BY <1>7, <2>2, <2>3 DEF HasFit
<1>9. CASE where' = "top" /\ x.kind \in Closing /\ e = Len(unit) + 1
  <2>1. TableFits(k, d, e, m)'
    BY <1>1, <1>2, <1>3, <1>5, <1>9 DEF TableFits, Current, Pending
  <2>3. d \in 1..Len(unit') /\ e \in 1..Len(unit')+1
    BY <1>1, <1>2, <1>9
  <2> QED BY <1>7, <2>1, <2>3 DEF HasFit
<1> QED BY <1>8, <1>9

\* A step of PASS1 that is not refused keeps TableInv.
LEMMA TableRead1 ==
  ASSUME TypeInv, TypeInv', CurrentInv, KindInv, TableInv,
         NEW x \in Items, NEW as, Takes(x, as), Reacts(x, as), pass = "PASS1", Live'
  PROVE  TableInv'
<1>1. err = "none" /\ err' = "none" /\ pass' = "PASS1" /\ Live
  BY DEF Takes, Live
<1>2. /\ Grown(unit, unit', x) /\ Len(unit) \in Nat /\ Len(unit') = Len(unit) + 1
      /\ unit'[Len(unit) + 1] = x
  BY TakesNow DEF Grown
<1>3. /\ Len(tbl_g) \in Nat /\ Len(tbl_g') \in Nat /\ Len(tbl_g) <= Len(tbl_g')
      /\ \A k \in 1..Len(tbl_g) :
           tbl_g'[k].name = tbl_g[k].name /\ tbl_g'[k].isfunc = tbl_g[k].isfunc
  BY EntriesStay
<1> SUFFICES ASSUME NEW k \in 1..Len(tbl_g'), tbl_g'[k].isfunc PROVE HasFit(k)'
  BY DEF TableInv
\* An entry that the step leaves alone.
<1>4. ASSUME k \in 1..Len(tbl_g), tbl_g'[k].table = tbl_g[k].table, ~Current(k), ~Current(k)',
             ~(x.kind = "function" /\ x.name = tbl_g[k].name)
      PROVE  HasFit(k)'
  <2>1. HasFit(k)
    BY <1>1, <1>3, <1>4 DEF TableInv
  <2> QED BY <1>3, <1>4, <2>1, UntouchedTable
<1>5. CASE AddsVariable(x) \/ SeesVariable(x)
  <2>1. where = "top" /\ where' = "top" /\ x.kind = "variable"
    BY <1>5 DEF AddsVariable, SeesVariable, Takes
  <2>2. k \in 1..Len(tbl_g)
    <3>1. ~NamesFunction(x)
      BY <2>1 DEF NamesFunction
    <3> QED BY <2>1, NewEntry
  <2>3. tbl_g'[k] = tbl_g[k]
    BY <1>5, <2>2 DEF AddsVariable, SeesVariable, Extends
  <2> QED BY <1>4, <2>1, <2>2, <2>3 DEF Current
<1>6. CASE NamesFunction(x)
  <2>1. PICK f \in Nat : Named(x.name, f)
    BY <1>6 DEF NamesFunction
  <2>2. /\ f \in 1..Len(tbl_g') /\ func' = f /\ where' = "params" /\ tbl_g'[f].name = x.name
        /\ tbl_g'[f].table.vars = <<>> /\ x.kind = "function" /\ where = "top"
        /\ \A j \in 1..Len(tbl_g) : j # f => tbl_g'[j] = tbl_g[j]
    BY <1>6, <2>1 DEF Named, NamesFunction, Takes
  <2>3. CASE k = f
    <3>0. PICK d \in Nat : d = Len(unit) + 1
      BY <1>2
    <3>1. d \in 1..Len(unit') /\ d + 1 \in 1..Len(unit')+1 /\ d # 0
      BY <1>2, <3>0
    <3>2. Latest(unit', d, x.name) /\ Within(unit', d, d + 1)
      BY <1>2, <2>2, <3>0, <3>1, LatestGrown, WithinNext
    <3>3. Fits(unit', tbl_g'[k].table.vars, d, d + 1, 0) /\ Split(tbl_g'[k].table.vars, 0)
      <4>1. Len(tbl_g'[k].table.vars) = 0
        BY <2>2, <2>3
      <4> QED BY <4>1, FitsNothing
    <3>5. Current(k)' /\ Pending(k)'
      BY <1>1, <2>2, <2>3 DEF Current, Pending
    <3>6. d + 1 = Len(unit') + 1 /\ d + 1 = d + 0 + 1
      BY <1>2, <3>0
    <3>7. TableFits(k, d, d + 1, 0)'
      BY <2>2, <2>3, <3>2, <3>3, <3>5, <3>6 DEF TableFits
    <3>8. 0 \in 0..MAX_VARIABLE
      BY LimitsAssumption
    <3> QED BY <3>1, <3>7, <3>8 DEF HasFit
  <2>4. CASE k # f
    <3>1. k \in 1..Len(tbl_g)
      <4>1. Len(tbl_g') = Len(tbl_g) \/ (Len(tbl_g') = Len(tbl_g) + 1 /\ f = Len(tbl_g) + 1)
        BY <2>1 DEF Named
      <4> QED BY <1>3, <2>4, <4>1
    <3>2. tbl_g[k].name # x.name
      <4>1. tbl_g'[k].name # tbl_g'[f].name
        BY <2>2, <2>4 DEF TypeInv, TableOK
      <4> QED BY <1>3, <2>2, <3>1, <4>1
    <3> QED BY <1>4, <2>2, <2>4, <3>1, <3>2 DEF Current
  <2> QED BY <2>3, <2>4
<1>7. CASE AddsLocal(x) \/ Leaves(x) \/ Enters(x) \/ Mentions(x, as)
  <2>1. where # "top" /\ x.kind \notin {"variable", "function"}
    BY <1>7 DEF AddsLocal, Leaves, Enters, Mentions, Takes, Closing
  <2>2. /\ Len(tbl_g') = Len(tbl_g) /\ \A j \in 1..Len(tbl_g) : j # func => tbl_g'[j] = tbl_g[j]
    BY <1>7 DEF AddsLocal, Leaves, Enters, Mentions, Bodied, Changes
  <2>3. k \in 1..Len(tbl_g) /\ func \in 1..Len(tbl_g)
    BY <2>1, <2>2, NameOfCurrent
  <2>4. CASE k # func
    <3>1. func' = func \/ where' = "top"
      BY <1>7 DEF AddsLocal, Leaves, Enters, Mentions, Bodied
    <3> QED BY <1>4, <2>1, <2>2, <2>3, <2>4, <3>1 DEF Current
  <2>5. CASE k = func
    <3>1. PICK d \in 1..Len(unit), m \in 0..MAX_VARIABLE :
            TableFits(func, d, Len(unit) + 1, m) /\ Within(unit, d, Len(unit) + 1)
      BY <1>1, <2>1, CurrentTable
    <3> DEFINE v == tbl_g[k].table.vars
               e == Len(unit) + 1
    <3>2. /\ Latest(unit, d, tbl_g[func].name) /\ Fits(unit, v, d, e, m) /\ Split(v, m)
          /\ where = "params" => e = d + m + 1
      BY <2>1, <2>5, <3>1 DEF TableFits, Current, Pending
    <3>3. v \in Seq(Locals) /\ Len(v) \in Nat /\ m \in Nat
      BY <2>3, Entries, GlobalProp, LimitsAssumption DEF TypeInv
    <3>4. e \in Nat /\ d \in 1..e-1 /\ d \in Nat /\ d < e /\ e \in 1..Len(unit) + 1 /\ unit'[e] = x
          /\ e + 1 = Len(unit) + 2
      BY <1>2
    <3>5. Fits(unit', v, d, e, m)
      <4> HIDE DEF v
      <4> QED BY <1>2, <3>2, <3>3, <3>4, FitsGrown
    <3>6. func \in 1..Len(tbl_g') /\ tbl_g'[func].name = tbl_g[func].name
      BY <1>3, <2>2, <2>3
    <3> HIDE DEF v
    <3>7. CASE AddsLocal(x)
      <4>1. PICK z \in Locals : /\ z.name = x.name /\ (z.auto <=> x.kind = "auto")
                                /\ tbl_g'[func].table.vars = Append(v, z)
        BY <2>5, <3>7 DEF AddsLocal, v
      <4> DEFINE y == tbl_g'[func].table.vars
      <4>2. /\ x.kind \in {"param", "auto"} /\ where' = where /\ func' = func /\ x.kind \in Inside
        BY <3>7 DEF AddsLocal, Inside
      <4>3. SymbolAt(unit', e, z.name)
        BY <3>4, <4>1, <4>2 DEF SymbolAt
      <4>4. y = Append(v, z)
        BY <4>1
      <4> HIDE DEF y, e
      <4>5. /\ Fits(unit', y, d, e + 1, m)
            /\ unit'[e].kind = "param" /\ e = d + m + 1 /\ Len(v) = m =>
                 Fits(unit', y, d, e + 1, m + 1)
        BY <3>3, <3>4, <3>5, <4>3, <4>4, FitsMore
      <4>6. /\ Len(y) = Len(v) + 1 /\ y[Len(v) + 1] = z /\ \A l \in 1..Len(v) : y[l] = v[l]
        BY <3>3, <4>4, AppendProperties
      <4>7. CASE x.kind = "auto"
        <5>1. where = "body" /\ z.auto
          BY <4>1, <4>7 DEF Takes, Closing
        <5>2. Split(y, m)
          <6>1. m <= Len(v)
            BY <3>2, <3>3 DEF Fits
          <6>2. ASSUME NEW l \in 1..Len(y) PROVE y[l].auto <=> l > m
            <7>1. CASE l \in 1..Len(v)
              BY <3>2, <4>6, <7>1 DEF Split
            <7>2. CASE l = Len(v) + 1
              <8>1. l > m /\ y[l] = z
                BY <3>3, <4>6, <6>1, <7>2
              <8> QED BY <5>1, <8>1
            <7> QED BY <3>3, <4>6, <7>1, <7>2
          <6> QED BY <6>2 DEF Split
        <5> QED BY <1>2, <2>1, <2>3, <2>5, <3>1, <3>2, <3>3, <3>4, <3>6, <4>2, <4>5, <5>1, <5>2,
                   AdvancedTable DEF y
      <4>8. CASE x.kind = "param"
        <5>1. where = "params" /\ ~z.auto /\ e = d + m + 1
          BY <3>2, <4>1, <4>8 DEF Takes, Closing
        <5>2. Len(v) = m
          <6>1. \A l \in 1..Len(v) : ~v[l].auto
            BY <2>5, <5>1 DEF TypeInv, OrderInv, v
          <6>2. m \in 0..Len(v)
            BY <3>2 DEF Fits
          <6>3. ASSUME m < Len(v) PROVE FALSE
            <7>1. m + 1 \in 1..Len(v) /\ m + 1 > m
              BY <3>3, <6>2, <6>3
            <7> QED BY <3>2, <6>1, <7>1 DEF Split
          <6> QED BY <3>3, <6>2, <6>3
        <5>3. Fits(unit', y, d, e + 1, m + 1)
          BY <3>4, <4>5, <4>8, <5>1, <5>2
        <5>4. Split(y, m + 1)
          <6>1. ASSUME NEW l \in 1..Len(y) PROVE y[l].auto <=> l > m + 1
            <7>1. ~(l > m + 1)
              BY <3>3, <4>6, <5>2
            <7>2. CASE l \in 1..Len(v)
              <8>1. ~(l > m)
                BY <3>3, <5>2, <7>2
              <8> QED BY <3>2, <4>6, <7>1, <7>2, <8>1 DEF Split
            <7>3. CASE l = Len(v) + 1
              BY <4>6, <5>1, <7>1, <7>3
            <7> QED BY <3>3, <4>6, <7>2, <7>3
          <6> QED BY <6>1 DEF Split
        <5>5. m + 1 \in Nat /\ e + 1 = d + (m + 1) + 1
          BY <3>3, <3>4, <5>1
        <5> QED BY <1>2, <2>1, <2>3, <2>5, <3>1, <3>2, <3>4, <3>6, <4>2, <5>1, <5>3, <5>4,
                   <5>5, AdvancedTable DEF y
      <4> QED BY <4>2, <4>7, <4>8
    <3>8. CASE Leaves(x)
      <4>1. x.kind \in Closing /\ where' = "top" /\ tbl_g'[func].table.vars = v
        BY <2>5, <3>8 DEF Leaves, v
      <4> QED BY <1>2, <2>1, <2>3, <2>5, <3>1, <3>2, <3>3, <3>4, <3>5, <3>6, <4>1, AdvancedTable
    <3>9. CASE Enters(x)
      <4>1. /\ x.kind = "body" /\ where' = "body" /\ func' = func /\ where = "params"
            /\ tbl_g'[func].table.vars = v /\ x.kind \in Inside
        BY <2>5, <3>9 DEF Enters, Bodied, v, Takes, Inside, Closing
      <4>2. Fits(unit', v, d, e + 1, m)
        <5> HIDE DEF e
        <5> QED BY <3>2, <3>3, <3>4, <3>5, <4>1, FitsOn
      <4> QED BY <1>2, <2>1, <2>3, <2>5, <3>1, <3>2, <3>3, <3>4, <3>6, <4>1, <4>2, AdvancedTable
    <3>10. CASE Mentions(x, as)
      <4>1. /\ x.kind \in {"use", "call"} /\ where' = where /\ func' = func /\ where = "body"
            /\ tbl_g'[func].table.vars = v /\ x.kind \in Inside
        BY <2>5, <3>10 DEF Mentions, v, Takes, Inside, Closing
      <4>2. Fits(unit', v, d, e + 1, m)
        <5> HIDE DEF e
        <5> QED BY <3>2, <3>3, <3>4, <3>5, <4>1, FitsOn
      <4> QED BY <1>2, <2>1, <2>3, <2>5, <3>1, <3>2, <3>3, <3>4, <3>6, <4>1, <4>2, AdvancedTable
    <3> QED BY <1>7, <3>7, <3>8, <3>9, <3>10
  <2> QED BY <2>4, <2>5
<1>8. ~Halts(x) /\ ~Overruns(x) /\ ~SeesLocal(x)
  BY <1>1 DEF Halts, Overruns, SeesLocal
<1> QED BY <1>5, <1>6, <1>7, <1>8 DEF Reacts

\* Sorting a table loses no name.
LEMMA TablePermuted ==
  ASSUME Inv, NEW v \in Seq(Locals), cnt = Len(v), NEW j \in 1..Len(v)
  PROVE  \E k \in 1..Len(v) : tbl[k-1] + 1 = j
<1>1. cnt \in Nat /\ tbl \in [Slots(cnt) -> Slots(cnt)]
  BY LenProperties DEF Inv, LayoutTypeOK
<1>2. tbl \in Injection(Slots(cnt), Slots(cnt))
  BY <1>1, Zenon DEF Inv, TableKept, Injection, IsInjective
<1>3. IsFiniteSet(Slots(cnt))
  BY <1>1, FS_Interval DEF Slots
<1>4. tbl \in Surjection(Slots(cnt), Slots(cnt))
  BY <1>2, <1>3, FS_Injection
<1>5. j - 1 \in Slots(cnt)
  BY <1>1 DEF Slots
<1>6. PICK l \in Slots(cnt) : tbl[l] = j - 1
  BY <1>4, <1>5 DEF Surjection
<1>7. l + 1 \in 1..Len(v) /\ (l + 1) - 1 = l /\ (j - 1) + 1 = j
  BY <1>1, <1>6 DEF Slots
<1>8. tbl[(l + 1) - 1] + 1 = j
  BY <1>6, <1>7
<1> QED BY <1>7, <1>8

\* The same of one place.
LEMMA LaidOutPlace ==
  ASSUME Inv, NEW t \in Tables, cnt = Len(t.vars), NEW k \in 1..Len(t.vars)
  PROVE  /\ tbl[k-1] + 1 \in 1..Len(t.vars)
         /\ LaidOut(t).vars[k].name = t.vars[tbl[k-1] + 1].name
         /\ LaidOut(t).vars[k].value = value[tbl[k-1]]
<1> DEFINE v == t.vars
<1>1. \A j \in 1..Len(v) :
        /\ tbl[j-1] + 1 \in 1..Len(v)
        /\ LaidOut(t).vars[j].name = v[tbl[j-1] + 1].name
        /\ LaidOut(t).vars[j].auto = v[tbl[j-1] + 1].auto
        /\ LaidOut(t).vars[j].value = value[tbl[j-1]]
  BY LaidOutProp
<1> QED BY <1>1, Zenon


\* The table of a function after its layout.
LEMMA LaidTable ==
  ASSUME TypeInv, Laid, NEW k \in 1..Len(tbl_g), k = func, HasFit(k)
  PROVE  HasFit(k)'
<1> DEFINE v == tbl_g[func].table.vars
           o == tbl_g[func].table
           t == LaidOut(o)
           w == t.vars
<1>1. PICK d \in 1..Len(unit), e \in 1..Len(unit)+1, m \in 0..MAX_VARIABLE : TableFits(k, d, e, m)
  BY DEF HasFit
<1>2. /\ Latest(unit, d, tbl_g[func].name) /\ Within(unit, d, e)
      /\ e <= Len(unit) /\ unit[e].kind \in Closing
      /\ Fits(unit, v, d, e, m) /\ Split(v, m)
  <2>1. ~Current(func) /\ Pending(func)
    BY DEF Laid, Current, Pending, TypeInv, PlaceOK
  <2> QED BY <1>1, <2>1 DEF TableFits
<1>3. v \in Seq(Locals) /\ Len(v) \in Nat /\ func \in Nat /\ o \in Tables /\ v = o.vars
  BY Entries, GlobalProp DEF TypeInv, Laid
<1>4. /\ Inv /\ cnt = Len(v) /\ sym = SymbolsOf(v) /\ pc = "done"
      /\ tbl_g'[func].table = t /\ tbl_g'[func].name = tbl_g[func].name /\ unit' = unit
      /\ pass' = "LAYOUT" /\ next' = func + 1 /\ func' = 0
  BY DEF TypeInv, LayoutInv, Laid
<1> HIDE DEF v, o
<1>5. /\ Len(w) = Len(v) /\ t.auto_size = auto_size /\ t.param_numb = param_numb
      /\ \A j \in 1..Len(v) :
           /\ tbl[j-1] + 1 \in 1..Len(v) /\ w[j].name = v[tbl[j-1] + 1].name
           /\ w[j].value = value[tbl[j-1]]
  <2>1. Inv /\ o \in Tables /\ v = o.vars /\ cnt = Len(v)
    BY <1>3, <1>4
  <2>2. Len(LaidOut(o).vars) = Len(v)
    BY ONLY <2>1, LaidOutProp
  <2>3. LaidOut(o).auto_size = auto_size /\ LaidOut(o).param_numb = param_numb
    BY ONLY <2>1, LaidOutProp
  <2>4. \A j \in 1..Len(v) :
           /\ tbl[j-1] + 1 \in 1..Len(v) /\ LaidOut(o).vars[j].name = v[tbl[j-1] + 1].name
           /\ LaidOut(o).vars[j].value = value[tbl[j-1]]
    <3> SUFFICES ASSUME NEW j \in 1..Len(v)
                 PROVE  /\ tbl[j-1] + 1 \in 1..Len(v)
                        /\ LaidOut(o).vars[j].name = v[tbl[j-1] + 1].name
                        /\ LaidOut(o).vars[j].value = value[tbl[j-1]]
      OBVIOUS
    <3>1. Inv /\ o \in Tables /\ cnt = Len(o.vars) /\ j \in 1..Len(o.vars)
      BY <2>1
    <3>2. /\ tbl[j-1] + 1 \in 1..Len(o.vars)
          /\ LaidOut(o).vars[j].name = o.vars[tbl[j-1] + 1].name
          /\ LaidOut(o).vars[j].value = value[tbl[j-1]]
      BY ONLY <3>1, LaidOutPlace, Zenon
    <3> QED BY <2>1, <3>2, Zenon
  <2> QED BY <2>2, <2>3, <2>4
<1> HIDE DEF t
<1>6. \A j \in 1..Len(v) : v[j].auto <=> auto_top <= j - 1
  <2> SUFFICES ASSUME NEW j \in 1..Len(v) PROVE v[j].auto <=> auto_top <= j - 1
    OBVIOUS
  <2>1. j - 1 \in Slots(Len(v)) /\ (j - 1) + 1 = j
    BY <1>3 DEF Slots
  <2>2. sym[j-1].auto = v[j].auto
    BY <1>3, <1>4, <2>1, SymbolsProp
  <2>3. sym[j-1].auto <=> auto_top <= j - 1
    BY <1>4, <2>1 DEF Inv, TopInv
  <2> QED BY <2>2, <2>3
<1>7. auto_top \in 0..Len(v) /\ m \in 0..Len(v)
  BY <1>2, <1>4 DEF Inv, LayoutTypeOK, Fits
<1>8. auto_top = m
  <2>1. ASSUME auto_top < m PROVE FALSE
    <3>1. m \in 1..Len(v) /\ auto_top <= m - 1 /\ ~(m > m)
      BY <1>3, <1>7, <2>1
    <3> QED BY <1>2, <1>6, <3>1 DEF Split
  <2>2. ASSUME m < auto_top PROVE FALSE
    <3>1. m + 1 \in 1..Len(v) /\ ~(auto_top <= (m + 1) - 1) /\ m + 1 > m
      BY <1>3, <1>7, <2>2
    <3> QED BY <1>2, <1>6, <3>1 DEF Split
  <2> QED BY <1>7, <2>1, <2>2
<1>9. ASSUME NEW l \in 1..m
      PROVE  l \in 1..Len(v) /\ l - 1 \in Slots(cnt) /\ l - 1 \in Slots(auto_top) /\ tbl[l-1] = l - 1
  <2>1. l \in 1..Len(v) /\ l - 1 \in Slots(cnt) /\ l - 1 \in Slots(auto_top)
    BY <1>3, <1>4, <1>7, <1>8 DEF Slots
  <2>2. ~(auto_top <= l - 1)
    BY <1>7, <1>8
  <2>3. ~sym[l-1].auto
    BY <1>4, <2>1, <2>2 DEF Inv, TopInv
  <2> QED BY <1>4, <2>1, <2>3 DEF Inv, TableKept
<1>10. Fits(unit, w, d, e, m)
  <2>1. ASSUME NEW n \in Names
        PROVE  (\E l \in 1..Len(w) : w[l].name = n) <=> Declares(unit, d, e, n)
    <3>1. ASSUME NEW l \in 1..Len(w), w[l].name = n PROVE \E j \in 1..Len(v) : v[j].name = n
      BY <1>5, <3>1
    <3>2. ASSUME NEW j \in 1..Len(v), v[j].name = n PROVE \E l \in 1..Len(w) : w[l].name = n
      <4>1. PICK l \in 1..Len(v) : tbl[l-1] + 1 = j
        BY <1>3, <1>4, TablePermuted
      <4> QED BY <1>5, <3>2, <4>1
    <3>3. (\E l \in 1..Len(v) : v[l].name = n) <=> Declares(unit, d, e, n)
      BY <1>2 DEF Fits
    <3> QED BY <3>1, <3>2, <3>3
  <2>2. ASSUME NEW l \in 1..m
        PROVE  SymbolAt(unit, d + l, w[l].name) /\ unit[d + l].kind = "param"
    <3>1. tbl[l-1] + 1 = l
      BY <1>9
    <3>2. w[l].name = v[l].name
      BY <1>5, <1>9, <3>1
    <3> QED BY <1>2, <3>2 DEF Fits
  <2>3. m \in 0..Len(w) /\ d + m < e
    BY <1>2, <1>5 DEF Fits
  <2>4. \A b \in d+1..e-1 : unit[b].kind = "body" => b = d + m + 1
    BY <1>2 DEF Fits
  <2> QED BY <2>1, <2>2, <2>3, <2>4 DEF Fits
<1>11. Offsets(t, m)
  <2>1. /\ param_numb = auto_top /\ auto_size = size % USHRT
        /\ \A j \in Slots(auto_top) : value[tbl[j]] = size + 4 + 2 + j * 4
    BY <1>4 DEF Inv, ParamInv, OffsetOf
  <2>2. size \in Nat /\ USHRT \in Nat \ {0}
    BY <1>4, LimitsAssumption DEF Inv, LayoutTypeOK
  <2>3. ASSUME NEW l \in 1..m, w[l].value < USHRT
        PROVE  w[l].value = t.auto_size + 4 + 2 + 4 * (l - 1)
    <3>1. w[l].value = size + 4 + 2 + (l - 1) * 4
      BY <1>5, <1>9, <2>1
    <3>2. size < USHRT
      BY <2>2, <2>3, <3>1
    <3>3. auto_size = size
      BY <2>1, <2>2, <3>2, UshortFits
    <3> QED BY <1>5, <2>2, <3>1, <3>3
  <2> QED BY <1>5, <1>8, <2>1, <2>3 DEF Offsets
<1>12. TableFits(k, d, e, m)'
  <2>1. ~Current(k)' /\ ~Pending(k)'
    BY <1>3, <1>4 DEF Current, Pending
  <2> QED BY <1>2, <1>4, <1>10, <1>11, <2>1 DEF TableFits
<1> QED BY <1>4, <1>12 DEF HasFit

\* A table that stays, in a text that stays.
LEMMA KeptTable ==
  ASSUME NEW k, HasFit(k), unit' = unit, tbl_g'[k].table = tbl_g[k].table,
         tbl_g'[k].name = tbl_g[k].name, ~Current(k), ~Current(k)', Pending(k)' <=> Pending(k)
  PROVE  HasFit(k)'
<1>1. PICK d \in 1..Len(unit), e \in 1..Len(unit)+1, m \in 0..MAX_VARIABLE : TableFits(k, d, e, m)
  BY DEF HasFit
<1>2. TableFits(k, d, e, m)'
  BY <1>1 DEF TableFits
<1> QED BY <1>2 DEF HasFit

\* Every step keeps TableInv.
LEMMA TableStep ==
  ASSUME TypeInv, TypeInv', CurrentInv, KindInv, TableInv,
         ReadStep \/ MainStep \/ Laid \/ UNCHANGED vars
  PROVE  TableInv'
<1> SUFFICES ASSUME Live' PROVE TableInv'
  BY DEF TableInv
<1>1. CASE ReadStep
  <2>1. PICK x \in Items, as \in Senses : Takes(x, as) /\ Reacts(x, as)
    BY <1>1 DEF ReadStep
  <2>2. CASE pass = "PASS1"
    BY <2>1, <2>2, TableRead1
  <2>3. CASE pass # "PASS1"
    <3>1. /\ Len(tbl_g') = Len(tbl_g) /\ unit' = unit /\ pass' = pass /\ pass = "PASS3" /\ Live
          /\ \A k \in 1..Len(tbl_g) : /\ tbl_g'[k].name = tbl_g[k].name
                                      /\ tbl_g'[k].isfunc = tbl_g[k].isfunc
                                      /\ tbl_g'[k].table = tbl_g[k].table
      BY <2>1, <2>3, EntriesStay, TakesNow DEF Takes, Reads3, Live
    <3>2. ASSUME NEW k \in 1..Len(tbl_g'), tbl_g'[k].isfunc PROVE HasFit(k)'
      <4>1. HasFit(k)
        BY <3>1, <3>2 DEF TableInv
      <4>2. ~Current(k) /\ ~Current(k)' /\ ~Pending(k) /\ ~Pending(k)'
        BY <3>1 DEF Current, Pending
      <4> QED BY <3>1, <3>2, <4>1, <4>2, KeptTable
    <3> QED BY <3>2 DEF TableInv
  <2> QED BY <2>2, <2>3
<1>2. CASE MainStep
  <2>1. unit' = unit /\ tbl_g' = tbl_g /\ where = "top" /\ where' = "top" /\ Live
    BY <1>2, MainFrame, MainPlace
    DEF MainStep, EndPass1, SkipVariable, CallLayout, LayoutStep, StartPass3, EndPass3, declVars
  <2>2. ASSUME NEW k \in 1..Len(tbl_g), tbl_g[k].isfunc PROVE HasFit(k)'
    <3>1. Pending(k)' <=> Pending(k)
      <4>1. next \in Nat /\ Len(tbl_g) \in Nat
        BY Entries DEF TypeInv, PlaceOK
      <4>2. CASE EndPass1
        BY <4>1, <4>2 DEF EndPass1, Pending
      <4>3. CASE SkipVariable
        <5>1. k # next
          BY <2>2, <4>3 DEF SkipVariable
        <5> QED BY <4>1, <4>3, <5>1 DEF SkipVariable, Pending
      <4>4. CASE StartPass3
        BY <4>1, <4>4 DEF StartPass3, Laying, Pending
      <4>5. CASE CallLayout \/ LayoutStep
        BY <4>5 DEF CallLayout, LayoutStep, declVars, Pending
      <4>6. CASE EndPass3
        BY <4>6 DEF EndPass3, Pending
      <4> QED BY <1>2, <4>2, <4>3, <4>4, <4>5, <4>6 DEF MainStep
    <3>2. HasFit(k) /\ ~Current(k) /\ ~Current(k)'
      BY <2>1, <2>2 DEF TableInv, Current
    <3> QED BY <2>1, <3>1, <3>2, KeptTable
  <2> QED BY <2>1, <2>2 DEF TableInv
<1>3. CASE Laid
  <2>1. /\ unit' = unit /\ where = "top" /\ where' = "top" /\ Live /\ next' = next + 1
        /\ func = next /\ pass = "LAYOUT" /\ pass' = "LAYOUT" /\ func \in 1..Len(tbl_g)
        /\ Len(tbl_g') = Len(tbl_g) /\ \A k \in 1..Len(tbl_g) : k # func => tbl_g'[k] = tbl_g[k]
        /\ tbl_g'[func].name = tbl_g[func].name /\ tbl_g'[func].isfunc = tbl_g[func].isfunc
    BY <1>3, MainPlace DEF Laid, Changes
  <2>2. ASSUME NEW k \in 1..Len(tbl_g), tbl_g'[k].isfunc PROVE HasFit(k)'
    <3>1. tbl_g[k].isfunc
      BY <2>1, <2>2
    <3>2. HasFit(k)
      BY <2>1, <3>1 DEF TableInv
    <3>3. CASE k = func
      BY <1>3, <3>2, <3>3, LaidTable
    <3>4. CASE k # func
      <4>1. next \in Nat /\ Len(tbl_g) \in Nat
        BY Entries DEF TypeInv, PlaceOK
      <4>2. Pending(k)' <=> Pending(k)
        BY <2>1, <3>4, <4>1 DEF Pending
      <4> QED BY <2>1, <3>2, <3>4, <4>2, KeptTable DEF Current
    <3> QED BY <3>3, <3>4
  <2> QED BY <2>1, <2>2 DEF TableInv
<1>4. CASE UNCHANGED vars
  <2>1. UNCHANGED <<pass, tbl_g, func, where, unit, next, err>>
    BY <1>4 DEF vars
  <2>2. Live
    BY <2>1 DEF Live
  <2>3. \A k : HasFit(k) => HasFit(k)'
    BY <2>1 DEF HasFit, TableFits, Current, Pending
  <2> QED BY <2>1, <2>2, <2>3 DEF TableInv
<1> QED BY <1>1, <1>2, <1>3, <1>4

------------------------------------------------------------------------------
\* What PASS3 finds

\* What follows a declaration up to an item of it belongs to it.
LEMMA WithinUpTo ==
  ASSUME NEW u, NEW p \in Nat, NEW d, Within(u, d, p), NEW q \in d+1..p-1
  PROVE  Within(u, d, q) /\ q \in Nat /\ d \in 1..q-1
<1>1. d \in 1..p-1
  BY DEF Within
<1>2. q \in Nat /\ d \in 1..q-1
  BY <1>1
<1>3. \A j \in d+1..q-1 : j \in d+1..p-1
  BY <1>1
<1> QED BY <1>2, <1>3 DEF Within

\* The last declaration of a function is the one PASS3 is in, or comes later.
LEMMA LatestComesLater ==
  ASSUME NEW u, Len(u) \in Nat, NEW n, NEW p \in 1..Len(u), u[p].kind # "function",
         NEW c, Within(u, c, p), u[c].name = n, NEW d, Latest(u, d, n)
  PROVE  d = c \/ d > p
<1>1. c \in 1..p-1 /\ c \in 1..Len(u) /\ d \in 1..Len(u) /\ FunctionAt(u, c, n)
  BY DEF Within, Latest, FunctionAt
<1>2. ~(d < c)
  <2>1. ASSUME d < c PROVE c \in d+1..Len(u)
    BY <1>1, <2>1
  <2> QED BY <1>1, <2>1 DEF Latest
<1>3. ASSUME d # c, ~(d > p) PROVE FALSE
  <2>1. d # p
    BY DEF Latest, FunctionAt
  <2>2. d \in c+1..p-1
    BY <1>1, <1>2, <1>3, <2>1
  <2>3. u[d].kind \in Inside
    BY <2>2 DEF Within
  <2> QED BY <2>3 DEF Latest, FunctionAt, Inside
<1> QED BY <1>3

\* In PASS3 the table of the current function holds what its last declaration declares.
LEMMA CurrentFits ==
  ASSUME TypeInv, CurrentInv, TableInv, pass = "PASS3", where # "top", next <= Len(unit),
         unit[next].kind # "function"
  PROVE  \E c \in 1..next-1, d \in 1..Len(unit), e \in 1..Len(unit) :
           /\ Within(unit, c, next) /\ unit[c].name = tbl_g[func].name
           /\ FunctionAt(unit, d, tbl_g[func].name) /\ Closed(unit, d, e)
           /\ d = c \/ d > next
           /\ \A n \in Names : IsLocal(n) <=> Declares(unit, d, e, n)
<1>1. func \in 1..Len(tbl_g) /\ tbl_g[func].isfunc /\ Live /\ Len(unit) \in Nat /\ next \in 1..Len(unit)
  <2>1. func \in 1..Len(tbl_g)
    BY NameOfCurrent
  <2>2. Len(unit) \in Nat
    BY LenProperties DEF TypeInv, UnitOK
  <2> QED BY <2>1, <2>2 DEF CurrentInv, Live, TypeInv, PlaceOK
<1>2. PICK d \in 1..Len(unit), e \in 1..Len(unit)+1, m \in 0..MAX_VARIABLE :
        TableFits(func, d, e, m)
  BY <1>1 DEF TableInv, HasFit
<1>3. /\ Latest(unit, d, tbl_g[func].name) /\ Within(unit, d, e)
      /\ e <= Len(unit) /\ unit[e].kind \in Closing /\ Fits(unit, tbl_g[func].table.vars, d, e, m)
  BY <1>2 DEF TableFits, Current
<1>4. e \in 1..Len(unit)
  BY <1>1, <1>3
<1>5. \A n \in Names : IsLocal(n) <=> Declares(unit, d, e, n)
  BY <1>3, LocalProp DEF Fits
<1>6. PICK c \in 1..next-1 : Within(unit, c, next) /\ unit[c].name = tbl_g[func].name
  BY DEF CurrentInv, Now
<1>7. d = c \/ d > next
  BY <1>1, <1>3, <1>6, LatestComesLater
<1>8. FunctionAt(unit, d, tbl_g[func].name) /\ Closed(unit, d, e)
  BY <1>3, <1>4 DEF Latest, Closed
<1> QED BY <1>4, <1>5, <1>6, <1>7, <1>8

\* A step in PASS3.
LEMMA Takes3 ==
  ASSUME TypeInv, KindInv, NEW x \in Items, NEW as, Takes(x, as), Reacts(x, as), pass # "PASS1"
  PROVE  /\ pass = "PASS3" /\ pass' = "PASS3" /\ err = "none" /\ UNCHANGED <<unit, first>>
         /\ next \in 1..Len(unit) /\ unit[next] = x /\ next' = next + 1 /\ Len(unit) \in Nat
         /\ Len(tbl_g') = Len(tbl_g)
         /\ \A k \in 1..Len(tbl_g) : /\ tbl_g'[k].name = tbl_g[k].name
                                     /\ tbl_g'[k].isfunc = tbl_g[k].isfunc
                                     /\ tbl_g'[k].table = tbl_g[k].table
<1>1. Reads3(x) /\ Len(unit) \in Nat /\ unit' = unit
  BY TakesNow
<1>2. pass = "PASS3" /\ pass' = "PASS3" /\ err = "none" /\ first' = first
  BY <1>1 DEF Reads3, Takes
<1>3. next \in 1..Len(unit) /\ unit[next] = x /\ next' = next + 1
  BY <1>1 DEF Reads3, TypeInv, PlaceOK
<1> QED BY <1>1, <1>2, <1>3, EntriesStay

\* Every step keeps FoundInv.
LEMMA FoundStep ==
  ASSUME TypeInv, CurrentInv, KindInv, FoundInv, ReadStep \/ MainStep \/ Laid \/ UNCHANGED vars
  PROVE  FoundInv'
<1>1. CASE ReadStep
  <2>1. PICK x \in Items, as \in Senses : Takes(x, as) /\ Reacts(x, as)
    BY <1>1 DEF ReadStep
  <2>2. CASE pass = "PASS1"
    BY <2>1, <2>2 DEF Takes, FoundInv
  <2>3. CASE pass # "PASS1"
    <3>1. /\ pass = "PASS3" /\ err = "none" /\ unit' = unit
          /\ next \in 1..Len(unit) /\ unit[next] = x /\ next' = next + 1 /\ Len(unit) \in Nat
          /\ Len(tbl_g') = Len(tbl_g)
          /\ \A k \in 1..Len(tbl_g) : /\ tbl_g'[k].name = tbl_g[k].name
                                      /\ tbl_g'[k].table = tbl_g[k].table
      BY <2>1, <2>3, Takes3
    <3>2. ASSUME err' = "none", NEW p \in 1..next'-1, unit[p].kind \in {"param", "auto"}
          PROVE  \E d \in 1..p-1, k \in 1..Len(tbl_g) : FoundAt(p, d, k)
      <4>1. CASE p \in 1..next-1
        BY <3>1, <3>2, <4>1 DEF FoundInv
      <4>2. CASE p = next
        <5>1. SeesLocal(x)
          BY <2>1, <3>1, <3>2, <4>2 DEF Reacts, Halts, Overruns, AddsVariable, SeesVariable,
               NamesFunction, AddsLocal, Leaves, Enters, Mentions, Closing
        <5>2. where # "top" /\ IsLocal(x.name)
          BY <2>1, <5>1 DEF Takes, SeesLocal
        <5>3. func \in 1..Len(tbl_g)
          BY <5>2, NameOfCurrent
        <5>4. \E l \in 1..Len(tbl_g[func].table.vars) : tbl_g[func].table.vars[l].name = x.name
          BY <5>2, LocalProp
        <5>5. PICK d \in 1..next-1 : Within(unit, d, next) /\ unit[d].name = tbl_g[func].name
          BY <3>1, <5>2 DEF CurrentInv, Now
        <5>6. FoundAt(p, d, func)
          BY <3>1, <4>2, <5>4, <5>5 DEF FoundAt
        <5> QED BY <4>2, <5>3, <5>5, <5>6
      <4> QED BY <3>1, <4>1, <4>2
    <3>3. \A p, d : \A k \in 1..Len(tbl_g) : FoundAt(p, d, k) => FoundAt(p, d, k)'
      BY <3>1 DEF FoundAt
    <3> QED BY <3>1, <3>2, <3>3, Zenon DEF FoundInv
  <2> QED BY <2>2, <2>3
<1>2. CASE EndPass1 \/ SkipVariable \/ CallLayout \/ LayoutStep \/ EndPass3 \/ Laid
  <2>1. pass' # "PASS3"
    BY <1>2 DEF EndPass1, SkipVariable, CallLayout, LayoutStep, EndPass3, Laid, Laying, declVars
  <2> QED BY <2>1 DEF FoundInv
<1>3. CASE StartPass3
  <2>1. 1..next'-1 = {}
    BY <1>3 DEF StartPass3
  <2> QED BY <2>1 DEF FoundInv
<1>4. CASE UNCHANGED vars
  BY <1>4 DEF vars, FoundInv, FoundAt
<1> QED BY <1>1, <1>2, <1>3, <1>4 DEF MainStep

\* Every step keeps InternalInv.
LEMMA InternalStep ==
  ASSUME TypeInv, CurrentInv, KindInv, TableInv, InternalInv,
         ReadStep \/ MainStep \/ Laid \/ UNCHANGED vars
  PROVE  InternalInv'
<1>1. CASE ReadStep
  <2>1. PICK x \in Items, as \in Senses : Takes(x, as) /\ Reacts(x, as)
    BY <1>1 DEF ReadStep
  <2> SUFFICES ASSUME err' = "internal" PROVE InternalInv'
    BY DEF InternalInv
  <2>2. Halts(x) /\ err = "none"
    BY <2>1 DEF Takes, Reacts, Overruns, AddsVariable, SeesVariable, NamesFunction, Named,
                AddsLocal, SeesLocal, Leaves, Enters, Bodied, Mentions
  <2>3. /\ pass = "PASS3" /\ x.kind \in {"param", "auto"} /\ ~IsLocal(x.name)
        /\ UNCHANGED <<tbl_g, func, where>> /\ where # "top"
    BY <2>1, <2>2 DEF Halts, Takes
  <2>4. /\ pass' = "PASS3" /\ unit' = unit /\ next \in 1..Len(unit) /\ unit[next] = x
        /\ next' = next + 1 /\ Len(unit) \in Nat
    BY <2>1, <2>3, Takes3
  <2>5. PICK c \in 1..next-1, d \in 1..Len(unit), e \in 1..Len(unit) :
          /\ Within(unit, c, next) /\ FunctionAt(unit, d, tbl_g[func].name) /\ Closed(unit, d, e)
          /\ d = c \/ d > next
          /\ \A n \in Names : IsLocal(n) <=> Declares(unit, d, e, n)
    <3>1. next <= Len(unit) /\ unit[next].kind # "function"
      BY <2>3, <2>4
    <3> QED BY <2>3, <3>1, CurrentFits
  <2>6. ~Declares(unit, d, e, x.name)
    BY <2>3, <2>5, ItemProp
  <2>7. d # c
    <3>1. ASSUME d = c PROVE FALSE
      <4>1. ~(e \in c+1..next-1)
        BY <2>5 DEF Within, Closed, Inside, Closing
      <4>2. e # next /\ c < e
        BY <2>3, <2>4, <2>5, <3>1 DEF Closed, Closing, Within
      <4>3. next \in d+1..e-1
        BY <2>4, <2>5, <3>1, <4>1, <4>2
      <4> QED BY <2>3, <2>4, <2>6, <4>3 DEF Declares, SymbolAt
    <3> QED BY <3>1
  <2>8. d \in next'..Len(unit) /\ next' > 1 /\ next' - 1 = next
    BY <2>4, <2>5, <2>7
  <2>9. unit'[next'-1].name = x.name
    BY <2>4, <2>8
  <2> QED BY <2>3, <2>4, <2>5, <2>6, <2>8, <2>9 DEF InternalInv
<1>2. CASE MainStep \/ Laid
  <2>1. err' = "none"
    BY <1>2, MainFrame, MainPlace
  <2> QED BY <2>1 DEF InternalInv
<1>3. CASE UNCHANGED vars
  BY <1>3 DEF vars, InternalInv
<1> QED BY <1>1, <1>2, <1>3

------------------------------------------------------------------------------
\* What PASS3 prints

\* An entry that was right stays so.
LEMMA CodingKept ==
  ASSUME NEW c, CodingOK(c), next \in Nat, next' \in Nat, next <= next', UNCHANGED <<unit, first>>,
         Len(tbl_g') = Len(tbl_g),
         \A k \in 1..Len(tbl_g) : /\ tbl_g'[k].name = tbl_g[k].name
                                  /\ tbl_g'[k].isfunc = tbl_g[k].isfunc
                                  /\ tbl_g'[k].table = tbl_g[k].table
  PROVE  CodingOK(c)'
<1>1. c.at \in 1..next'-1 /\ c.at \in 1..Len(unit)
  BY DEF CodingOK
<1>2. ASSUME c.what = "call"
      PROVE  \E k \in 1..Len(tbl_g') :
               tbl_g'[k].name = c.name /\ tbl_g'[k].isfunc /\ c.arg = tbl_g'[k].table.param_numb
  BY <1>2 DEF CodingOK
<1> QED BY <1>1, <1>2 DEF CodingOK

\* One more entry, for the item just read.
LEMMA CodeGrows ==
  ASSUME CodeInv, pass' = "PASS3", NEW p \in Nat, next = p, next' = p + 1,
         NEW c \in Codings, c.at = p, CodingOK(c)', code' = code \o <<c>>,
         \A d : CodingOK(d) => CodingOK(d)'
  PROVE  CodeInv'
<1>1. code \in Seq(Codings) /\ Len(code) \in Nat
  BY LenProperties DEF CodeInv
<1>2. /\ code' \in Seq(Codings) /\ Len(code') = Len(code) + 1 /\ code'[Len(code) + 1] = c
      /\ \A k \in 1..Len(code) : code'[k] = code[k]
  <2>1. <<c>> \in Seq(Codings) /\ Len(<<c>>) = 1 /\ <<c>>[1] = c
    OBVIOUS
  <2>2. /\ code' \in Seq(Codings) /\ Len(code') = Len(code) + Len(<<c>>)
        /\ \A k \in 1..Len(code) + Len(<<c>>) :
             code'[k] = IF k <= Len(code) THEN code[k] ELSE <<c>>[k - Len(code)]
    BY <1>1, <2>1, ConcatProperties
  <2> HIDE DEF Codings
  <2> QED BY <1>1, <2>1, <2>2
<1>3. ASSUME NEW k \in 1..Len(code') PROVE CodingOK(code[k])'
  <2>1. \E d : d = code'[k] /\ CodingOK(d)'
    <3>1. CASE k \in 1..Len(code)
      BY <1>2, <3>1 DEF CodeInv
    <3>2. CASE k = Len(code) + 1
      BY <1>2, <3>2
    <3> QED BY <1>1, <1>2, <3>1, <3>2
  <2>2. PICK d : d = code'[k] /\ CodingOK(d)'
    BY <2>1
  <2> QED BY <2>2 DEF CodingOK
<1>4. ASSUME NEW k \in 1..Len(code'), NEW l \in 1..Len(code'), k < l
      PROVE  code'[k].at < code'[l].at
  <2>1. CASE l \in 1..Len(code)
    <3>1. k \in 1..Len(code)
      BY <1>1, <1>4, <2>1
    <3> QED BY <1>2, <1>4, <2>1, <3>1 DEF CodeInv
  <2>2. CASE l = Len(code) + 1
    <3>1. k \in 1..Len(code)
      BY <1>1, <1>4, <2>2
    <3>2. code[k].at \in 1..next-1
      BY <3>1 DEF CodeInv, CodingOK
    <3> QED BY <1>2, <2>2, <3>1, <3>2
  <2> QED BY <1>1, <1>2, <2>1, <2>2
<1> QED BY <1>2, <1>3, <1>4, Zenon DEF CodeInv

\* PASS3 uses the variable PASS1 used, or one that is declared later.
LEMMA UseCoded ==
  ASSUME TypeInv, CurrentInv, TableInv, UseInv, FoundInv, pass = "PASS3", err = "none",
         where = "body", next \in 1..Len(unit), NEW x \in Items, unit[next] = x, x.kind = "use",
         Resolve(x.name) \in {"local", "global"}
  PROVE  Resolve(x.name) = first[next] \/ Later(unit, next, x.name)
<1>1. Live /\ Len(unit) \in Nat /\ x.name \in Names /\ next \in Nat /\ func \in 1..Len(tbl_g)
  BY LenProperties, ItemProp, NameOfCurrent DEF Live, TypeInv, UnitOK
<1>2. PICK c \in 1..next-1, d \in 1..Len(unit), e \in 1..Len(unit) :
        /\ Within(unit, c, next) /\ unit[c].name = tbl_g[func].name
        /\ FunctionAt(unit, d, tbl_g[func].name) /\ Closed(unit, d, e)
        /\ d = c \/ d > next
        /\ \A n \in Names : IsLocal(n) <=> Declares(unit, d, e, n)
  <2>1. next <= Len(unit) /\ unit[next].kind # "function"
    BY <1>1
  <2> QED BY <2>1, CurrentFits
<1>3. first[next] \in {"local", "global"} /\ (first[next] = "local" <=> Declares(unit, c, next, x.name))
  <2>1. PICK a \in 1..next-1 :
          /\ first[next] \in {"local", "global"} /\ Within(unit, a, next)
          /\ first[next] = "local" <=> Declares(unit, a, next, x.name)
    BY <1>1 DEF UseInv
  <2>2. a = c
    BY <1>1, <1>2, <2>1, WithinUnique
  <2> QED BY <2>1, <2>2
<1>4. Resolve(x.name) = "local" <=> Declares(unit, d, e, x.name)
  <2>1. Resolve(x.name) = "local" <=> IsLocal(x.name)
    BY DEF Resolve
  <2> QED BY <1>1, <1>2, <2>1
<1>5. CASE first[next] = "global" /\ Resolve(x.name) = "local"
  <2>1. PICK q \in d+1..e-1 : SymbolAt(unit, q, x.name)
    BY <1>4, <1>5 DEF Declares
  <2>2. Within(unit, d, q) /\ q \in Nat /\ d \in 1..q-1
    BY <1>2, <2>1, WithinUpTo DEF Closed
  <2>3. q > next
    <3>1. CASE d > next
      BY <2>2, <3>1
    <3>2. CASE d = c
      <4>1. ~Declares(unit, c, next, x.name)
        BY <1>3, <1>5
      <4>2. q # next
        BY <2>1 DEF SymbolAt
      <4>3. ~(q \in c+1..next-1)
        BY <2>1, <4>1 DEF Declares
      <4> QED BY <1>1, <2>2, <3>2, <4>2, <4>3
    <3> QED BY <1>2, <3>1, <3>2
  <2>4. q \in next+1..Len(unit)
    BY <1>1, <1>2, <2>1, <2>2, <2>3
  <2>5. unit[c].name = unit[d].name
    BY <1>2 DEF FunctionAt
  <2> QED BY <1>2, <2>1, <2>2, <2>4, <2>5 DEF Later
<1>6. CASE first[next] = "local" /\ Resolve(x.name) = "global"
  <2>1. PICK q \in c+1..next-1 : SymbolAt(unit, q, x.name)
    BY <1>3, <1>6 DEF Declares
  <2>2. Within(unit, c, q) /\ q \in Nat /\ q \in 1..next-1
    BY <1>1, <1>2, <2>1, WithinUpTo
  <2>3. PICK a \in 1..q-1, k \in 1..Len(tbl_g) : FoundAt(q, a, k)
    BY <2>1, <2>2 DEF FoundInv, SymbolAt
  <2>4. a = c
    BY <2>2, <2>3, WithinUnique DEF FoundAt
  <2>5. k = func
    BY <1>1, <1>2, <2>3, <2>4 DEF FoundAt, TypeInv, TableOK
  <2>6. IsLocal(x.name)
    BY <2>1, <2>3, <2>5, LocalProp DEF FoundAt, SymbolAt
  <2> QED BY <1>6, <2>6 DEF Resolve
<1> QED BY <1>3, <1>5, <1>6

\* A name that is resolved as a function is an entry of the table.
LEMMA FunctionSlot ==
  ASSUME TypeInv, NEW n, Resolve(n) = "function"
  PROVE  \E k \in 1..Len(tbl_g) : tbl_g[k].name = n /\ tbl_g[k].isfunc /\ GlobalSlot(n) = k
<1>1. IsGlobal(n) /\ IsFunction(n)
  BY DEF Resolve
<1>2. PICK k \in 1..Len(tbl_g) : tbl_g[k].name = n
  BY <1>1, Entries DEF IsGlobal, TypeInv
<1>3. GlobalSlot(n) = k
  BY <1>2, SlotProp DEF GlobalSlot, TypeInv
<1> QED BY <1>1, <1>2, <1>3 DEF IsFunction

\* Every step keeps CodeInv.
LEMMA CodeStep ==
  ASSUME TypeInv, TypeInv', CurrentInv, KindInv, TableInv, UseInv, FoundInv, CodeInv,
         ReadStep \/ MainStep \/ Laid \/ UNCHANGED vars
  PROVE  CodeInv'
<1>1. CASE ReadStep
  <2>1. PICK x \in Items, as \in Senses : Takes(x, as) /\ Reacts(x, as)
    BY <1>1 DEF ReadStep
  <2>2. CASE pass = "PASS1"
    <3>1. code' = code /\ code = <<>> /\ pass' = pass
      BY <2>1, <2>2 DEF CodeInv, Takes, Reacts, Halts, Overruns, AddsVariable, SeesVariable,
         NamesFunction, AddsLocal, SeesLocal, Leaves, Enters, Mentions, Emit
    <3>2. 1..Len(code') = {}
      BY <3>1
    <3> QED BY <3>1, <3>2 DEF CodeInv
  <2>3. CASE pass # "PASS1"
    <3>1. /\ pass = "PASS3" /\ pass' = "PASS3" /\ err = "none" /\ UNCHANGED <<unit, first>>
          /\ next \in 1..Len(unit) /\ unit[next] = x /\ next' = next + 1 /\ Len(unit) \in Nat
          /\ Len(tbl_g') = Len(tbl_g)
          /\ \A k \in 1..Len(tbl_g) : /\ tbl_g'[k].name = tbl_g[k].name
                                      /\ tbl_g'[k].isfunc = tbl_g[k].isfunc
                                      /\ tbl_g'[k].table = tbl_g[k].table
      BY <2>1, <2>3, Takes3
    <3>2. PICK p \in Nat : p = next
      BY <3>1
    <3>3. \A c : CodingOK(c) => CodingOK(c)'
      BY <3>1, CodingKept
    <3>4. x.name \in Names /\ p \in 1..next'-1 /\ p \in 1..Len(unit) /\ unit'[p] = x
      BY <3>1, <3>2, ItemProp
    <3>5. CASE SeesVariable(x) \/ Enters(x)
      <4>1. x.kind \in {"body", "variable"} /\ code' = code \o Label(x.name)
        BY <3>1, <3>5 DEF SeesVariable, Enters, Emit
      <4> DEFINE c == [what |-> "label", name |-> x.name, arg |-> 0, at |-> p]
      <4>2. c \in Codings /\ c.at = p /\ c.what = "label" /\ c.name = x.name
        BY <3>4 DEF Codings
      <4>3. code' = code \o <<c>>
        BY <3>2, <4>1 DEF Label
      <4> HIDE DEF c
      <4>4. CodingOK(c)'
        BY <3>1, <3>4, <4>1, <4>2 DEF CodingOK
      <4> QED BY <3>1, <3>2, <3>3, <4>2, <4>3, <4>4, CodeGrows
    <3>6. CASE Mentions(x, as) /\ x.kind = "use"
      <4>1. as = Resolve(x.name) /\ as \in {"local", "global"} /\ code' = code \o Access(x.name, as)
        BY <3>1, <3>6 DEF Mentions, Emit
      <4>2. where = "body"
        BY <2>1, <3>6 DEF Takes, Closing
      <4>3. as = first[p] \/ Later(unit, p, x.name)
        BY <3>1, <3>2, <3>6, <4>1, <4>2, UseCoded
      <4> DEFINE c == [what |-> as, name |-> x.name, arg |-> 0, at |-> p]
      <4>4. c \in Codings /\ c.at = p /\ c.what = as /\ c.name = x.name
        BY <3>4, <4>1 DEF Codings
      <4>5. code' = code \o <<c>>
        BY <3>2, <4>1 DEF Access
      <4> HIDE DEF c
      <4>6. CodingOK(c)'
        BY <3>1, <3>4, <3>6, <4>1, <4>3, <4>4 DEF CodingOK
      <4> QED BY <3>1, <3>2, <3>3, <4>4, <4>5, <4>6, CodeGrows
    <3>7. CASE Mentions(x, as) /\ x.kind = "call"
      <4>1. /\ Resolve(x.name) = "function" /\ code' = code \o CallOf(x.name, x.arg)
            /\ x.arg = tbl_g[GlobalSlot(x.name)].table.param_numb
        BY <3>1, <3>7 DEF Mentions, Emit
      <4>2. PICK k \in 1..Len(tbl_g) :
              tbl_g[k].name = x.name /\ tbl_g[k].isfunc /\ GlobalSlot(x.name) = k
        BY <4>1, FunctionSlot
      <4>3. x.arg \in Nat
        BY <4>1, <4>2, Entries, GlobalProp, LimitsAssumption DEF TypeInv
      <4> DEFINE c == [what |-> "call", name |-> x.name, arg |-> x.arg, at |-> p]
      <4>4. c \in Codings /\ c.at = p /\ c.what = "call" /\ c.name = x.name /\ c.arg = x.arg
        BY <3>4, <4>3 DEF Codings
      <4>5. code' = code \o <<c>>
        BY <3>2, <4>1 DEF CallOf
      <4> HIDE DEF c
      <4>6. \E j \in 1..Len(tbl_g') :
              tbl_g'[j].name = c.name /\ tbl_g'[j].isfunc /\ c.arg = tbl_g'[j].table.param_numb
        BY <3>1, <4>1, <4>2, <4>4
      <4>7. CodingOK(c)'
        BY <3>1, <3>4, <4>4, <4>6 DEF CodingOK
      <4> QED BY <3>1, <3>2, <3>3, <4>4, <4>5, <4>7, CodeGrows
    <3>8. CASE code' = code
      BY <3>1, <3>3, <3>8, Zenon DEF CodeInv
    <3>9. CASE Halts(x) \/ Overruns(x) \/ AddsVariable(x) \/ NamesFunction(x) \/ AddsLocal(x)
               \/ SeesLocal(x) \/ Leaves(x)
      BY <3>8, <3>9 DEF Halts, Overruns, AddsVariable, NamesFunction, AddsLocal, SeesLocal, Leaves
    <3> QED BY <2>1, <3>5, <3>6, <3>7, <3>9 DEF Reacts, Mentions
  <2> QED BY <2>2, <2>3
<1>2. CASE MainStep \/ Laid
  <2>1. UNCHANGED <<unit, first, code>>
    BY <1>2, MainFrame
  <2>2. CASE EndPass3
    <3>1. UNCHANGED <<next, tbl_g>> /\ pass' = "DONE" /\ pass = "PASS3"
      BY <2>2 DEF EndPass3
    <3> QED BY <2>1, <3>1 DEF CodeInv, CodingOK
  <2>3. CASE ~EndPass3
    <3>1. pass \in {"PASS1", "LAYOUT"}
      BY <1>2, <2>3 DEF MainStep, EndPass1, SkipVariable, CallLayout, LayoutStep, StartPass3, Laid,
                       Laying
    <3>2. code = <<>> /\ 1..Len(code') = {}
      BY <2>1, <3>1 DEF CodeInv
    <3> QED BY <2>1, <3>2 DEF CodeInv
  <2> QED BY <2>2, <2>3
<1>3. CASE UNCHANGED vars
  BY <1>3 DEF vars, CodeInv, CodingOK
<1> QED BY <1>1, <1>2, <1>3

\* Every step keeps OverrunInv.
LEMMA OverrunStep ==
  ASSUME TypeInv, OverrunInv, ReadStep \/ MainStep \/ Laid \/ UNCHANGED vars
  PROVE  OverrunInv'
<1>1. ASSUME err = "none", NEW k \in 1..Len(tbl_g) PROVE ~tbl_g[k].table.overrun
  BY <1>1 DEF OverrunInv
<1>2. CASE ReadStep
  <2>1. PICK x \in Items, as \in Senses : Takes(x, as) /\ Reacts(x, as)
    BY <1>2 DEF ReadStep
  <2>2. err = "none" /\ pass' = pass /\ Len(tbl_g) \in Nat
    BY <2>1, Entries DEF Takes, TypeInv
  <2>3. \A k \in 1..Len(tbl_g) : ~tbl_g[k].table.overrun
    BY <1>1, <2>2
  <2>4. CASE tbl_g' = tbl_g
    BY <2>3, <2>4 DEF OverrunInv
  <2>5. CASE AddsVariable(x)
    <3>1. /\ Len(tbl_g') = Len(tbl_g) + 1 /\ tbl_g'[Len(tbl_g) + 1] = Variable(x.name)
          /\ \A k \in 1..Len(tbl_g) : tbl_g'[k] = tbl_g[k]
      BY <2>5 DEF AddsVariable, Extends
    <3>2. ~Variable(x.name).table.overrun
      BY ItemProp, NewSymbols
    <3>3. ASSUME NEW k \in 1..Len(tbl_g') PROVE ~tbl_g'[k].table.overrun
      <4>1. CASE k = Len(tbl_g) + 1
        BY <3>1, <3>2, <4>1
      <4>2. CASE k \in 1..Len(tbl_g)
        BY <2>3, <3>1, <4>2
      <4> QED BY <2>2, <3>1, <4>1, <4>2
    <3> QED BY <3>3 DEF OverrunInv
  <2>6. CASE NamesFunction(x)
    <3>1. PICK f \in Nat : Named(x.name, f)
      BY <2>6 DEF NamesFunction
    <3>2. ASSUME NEW k \in 1..Len(tbl_g'), k # f PROVE k \in 1..Len(tbl_g) /\ tbl_g'[k] = tbl_g[k]
      BY <2>2, <3>1, <3>2 DEF Named
    <3>3. ~tbl_g'[f].table.overrun
      <4>1. CASE pass = "PASS1"
        BY <3>1, <4>1 DEF Named
      <4>2. CASE pass # "PASS1"
        BY <2>3, <3>1, <4>2 DEF Named
      <4> QED BY <4>1, <4>2
    <3>4. ASSUME NEW k \in 1..Len(tbl_g') PROVE ~tbl_g'[k].table.overrun
      BY <2>3, <3>2, <3>3
    <3> QED BY <3>4 DEF OverrunInv
  <2>7. CASE AddsLocal(x) \/ Enters(x)
    <3>1. /\ Len(tbl_g') = Len(tbl_g) /\ \A k \in 1..Len(tbl_g) : k # func => tbl_g'[k] = tbl_g[k]
          /\ tbl_g'[func].table.overrun = tbl_g[func].table.overrun
      BY <2>7 DEF AddsLocal, Enters, Bodied, Changes
    <3>2. \A k \in 1..Len(tbl_g') : tbl_g'[k].table.overrun = tbl_g[k].table.overrun
      BY <3>1
    <3> QED BY <2>3, <3>1, <3>2 DEF OverrunInv
  <2>8. CASE Overruns(x)
    <3>1. /\ Len(tbl_g') = Len(tbl_g) /\ \A k \in 1..Len(tbl_g) : k # func => tbl_g'[k] = tbl_g[k]
          /\ tbl_g'[func].table.vars = tbl_g[func].table.vars
          /\ Len(tbl_g[func].table.vars) = MAX_VARIABLE
          /\ pass = "PASS1" /\ err' = "memory" /\ func' = func
      BY <2>8 DEF Overruns, Changes
    <3>2. ASSUME NEW k \in 1..Len(tbl_g'), tbl_g'[k].table.overrun
          PROVE  k = func
      BY <2>3, <3>1, <3>2
    <3> QED BY <2>2, <3>1, <3>2 DEF OverrunInv
  <2>9. CASE Halts(x) \/ SeesVariable(x) \/ SeesLocal(x) \/ Leaves(x) \/ Mentions(x, as)
    BY <2>4, <2>9 DEF Halts, SeesVariable, SeesLocal, Leaves, Mentions
  <2> QED BY <2>1, <2>5, <2>6, <2>7, <2>8, <2>9 DEF Reacts
<1>3. CASE MainStep
  <2>1. tbl_g' = tbl_g /\ err = "none"
    BY <1>3, MainPlace
    DEF MainStep, EndPass1, SkipVariable, CallLayout, LayoutStep, StartPass3, EndPass3, declVars
  <2> QED BY <1>1, <2>1 DEF OverrunInv
<1>4. CASE Laid
  <2> DEFINE o == tbl_g[func].table
  <2>1. /\ err = "none" /\ func \in 1..Len(tbl_g) /\ Len(tbl_g') = Len(tbl_g)
        /\ \A k \in 1..Len(tbl_g) : k # func => tbl_g'[k] = tbl_g[k]
        /\ tbl_g'[func].table = LaidOut(o) /\ cnt = Len(o.vars) /\ Inv
    BY <1>4 DEF Laid, Changes, TypeInv, LayoutInv
  <2>2. o \in Tables
    BY <2>1, Entries, GlobalProp DEF TypeInv
  <2> HIDE DEF o
  <2>3. LaidOut(o).overrun = o.overrun
    BY <2>1, <2>2, LaidOutProp
  <2>4. \A k \in 1..Len(tbl_g') : tbl_g'[k].table.overrun = tbl_g[k].table.overrun
    BY <2>1, <2>3 DEF o
  <2> QED BY <1>1, <2>1, <2>4 DEF OverrunInv
<1>5. CASE UNCHANGED vars
  BY <1>5 DEF vars, OverrunInv
<1> QED BY <1>2, <1>3, <1>4, <1>5

\* What is printed stays, and goes on with one entry.
LEMMA CodeGoesOn ==
  ASSUME code \in Seq(Codings), NEW c, code' = code \o <<c>>
  PROVE  /\ Len(code) \in Nat /\ Len(code') = Len(code) + 1 /\ code'[Len(code) + 1] = c
         /\ \A k \in 1..Len(code) : code'[k] = code[k]
<1> DEFINE S == Codings \cup {c}
<1>1. code \in Seq(S) /\ <<c>> \in Seq(S) /\ Len(<<c>>) = 1 /\ <<c>>[1] = c /\ Len(code) \in Nat
  <2>1. Codings \subseteq S /\ c \in S
    OBVIOUS
  <2> HIDE DEF S, Codings
  <2> QED BY <2>1, LenProperties
<1> HIDE DEF S
<1>2. /\ Len(code') = Len(code) + Len(<<c>>)
      /\ \A k \in 1..Len(code) + Len(<<c>>) :
           code'[k] = IF k <= Len(code) THEN code[k] ELSE <<c>>[k - Len(code)]
  BY <1>1, ConcatProperties
<1> QED BY <1>1, <1>2

\* Every step keeps LabelInv.
LEMMA LabelStep ==
  ASSUME TypeInv, KindInv, CodeInv, LabelInv, ReadStep \/ MainStep \/ Laid \/ UNCHANGED vars
  PROVE  LabelInv'
<1>1. CASE ReadStep
  <2>1. PICK x \in Items, as \in Senses : Takes(x, as) /\ Reacts(x, as)
    BY <1>1 DEF ReadStep
  <2>2. CASE pass = "PASS1"
    BY <2>1, <2>2 DEF Takes, LabelInv
  <2>3. CASE pass # "PASS1"
    <3>1. /\ pass = "PASS3" /\ pass' = "PASS3" /\ err = "none" /\ unit' = unit
          /\ next \in 1..Len(unit) /\ unit[next] = x /\ next' = next + 1
      BY <2>1, <2>3, Takes3
    <3>0. next \in Nat
      BY DEF TypeInv, PlaceOK
    <3> SUFFICES ASSUME err' = "none", NEW p \in 1..next'-1, unit[p].kind \in {"variable", "body"}
                 PROVE  \E k \in 1..Len(code') : LabelOf(unit, p, code'[k])
      BY <3>0, <3>1 DEF LabelInv
    <3>2. code \in Seq(Codings)
      BY DEF CodeInv
    <3>3. ASSUME p # next PROVE \E k \in 1..Len(code) : LabelOf(unit, p, code[k])
      <4>1. p \in 1..next-1
        BY <3>0, <3>1, <3>3
      <4> QED BY <3>1, <4>1 DEF LabelInv
    <3>4. \A c : LabelOf(unit, p, c) <=> c.what = "label" /\ c.at = p /\ c.name = unit[p].name
      BY <3>1 DEF LabelOf
    <3>5. CASE SeesVariable(x) \/ Enters(x)
      <4> DEFINE c == [what |-> "label", name |-> x.name, arg |-> 0, at |-> next]
      <4>1. code' = code \o <<c>>
        BY <3>1, <3>5 DEF SeesVariable, Enters, Emit, Label
      <4>2. c.what = "label" /\ c.at = next /\ c.name = x.name
        OBVIOUS
      <4> HIDE DEF c
      <4>3. /\ Len(code) \in Nat /\ Len(code') = Len(code) + 1 /\ code'[Len(code) + 1] = c
            /\ \A k \in 1..Len(code) : code'[k] = code[k]
        BY <3>2, <4>1, CodeGoesOn
      <4>4. CASE p = next
        <5>1. LabelOf(unit, p, code'[Len(code) + 1]) /\ Len(code) + 1 \in 1..Len(code')
          BY <3>1, <3>4, <4>2, <4>3, <4>4
        <5> QED BY <5>1
      <4>5. CASE p # next
        <5>1. PICK k \in 1..Len(code) : LabelOf(unit, p, code[k])
          BY <3>3, <4>5
        <5>2. k \in 1..Len(code') /\ LabelOf(unit, p, code'[k])
          BY <3>1, <3>4, <4>3, <5>1 DEF LabelOf
        <5> QED BY <5>2
      <4> QED BY <4>4, <4>5
    <3>6. ASSUME p # next,
                 \/ code' = code
                 \/ \E c : code' = code \o <<c>>
          PROVE  \E k \in 1..Len(code') : LabelOf(unit, p, code'[k])
      <4>1. PICK k \in 1..Len(code) : LabelOf(unit, p, code[k])
        BY <3>3, <3>6
      <4>2. k \in 1..Len(code') /\ code'[k] = code[k]
        <5>1. CASE code' = code
          BY <5>1
        <5>2. CASE \E c : code' = code \o <<c>>
          <6>1. PICK c : code' = code \o <<c>>
            BY <5>2
          <6> QED BY <3>2, <6>1, CodeGoesOn
        <5> QED BY <3>6, <5>1, <5>2
      <4>3. LabelOf(unit, p, code'[k])
        BY <3>4, <4>1, <4>2 DEF LabelOf
      <4> QED BY <4>2, <4>3
    <3>7. CASE Mentions(x, as)
      <4>1. p # next
        BY <3>1, <3>7 DEF Mentions
      <4>2. \E c : code' = code \o <<c>>
        BY <3>1, <3>7 DEF Mentions, Emit, Access, CallOf
      <4> QED BY <3>6, <4>1, <4>2
    <3>8. CASE AddsVariable(x) \/ NamesFunction(x) \/ AddsLocal(x) \/ SeesLocal(x) \/ Leaves(x)
      <4>1. p # next /\ code' = code
        BY <3>1, <3>8 DEF AddsVariable, NamesFunction, AddsLocal, SeesLocal, Leaves, Closing
      <4> QED BY <3>6, <4>1
    <3>9. ~Halts(x) /\ ~Overruns(x)
      BY <3>1 DEF Halts, Overruns
    <3> QED BY <2>1, <3>5, <3>7, <3>8, <3>9 DEF Reacts
  <2> QED BY <2>2, <2>3
<1>2. CASE EndPass1 \/ SkipVariable \/ CallLayout \/ LayoutStep \/ Laid
  <2>1. pass' \notin {"PASS3", "DONE"}
    BY <1>2 DEF EndPass1, SkipVariable, CallLayout, LayoutStep, Laid, Laying, declVars
  <2> QED BY <2>1 DEF LabelInv
<1>3. CASE StartPass3
  <2>1. pass' = "PASS3" /\ 1..next'-1 = {}
    BY <1>3 DEF StartPass3
  <2> QED BY <2>1 DEF LabelInv
<1>4. CASE EndPass3
  <2>1. /\ pass = "PASS3" /\ err = "none" /\ next > Len(unit)
        /\ UNCHANGED <<unit, next, code, err>>
    BY <1>4 DEF EndPass3, Parsing
  <2> QED BY <2>1 DEF LabelInv, LabelOf
<1>5. CASE UNCHANGED vars
  BY <1>5 DEF vars, LabelInv, LabelOf
<1> QED BY <1>1, <1>2, <1>3, <1>4, <1>5 DEF MainStep

------------------------------------------------------------------------------
\* The invariant

DeclInv ==
  /\ TypeInv /\ TextInv /\ CurrentInv /\ KindInv /\ TwiceInv /\ UseInv /\ TableInv
  /\ FoundInv /\ CodeInv /\ InternalInv /\ OverrunInv /\ LabelInv

\* The invariant holds at the start.
LEMMA DeclInitInv == DeclInit => DeclInv
<1> SUFFICES ASSUME DeclInit PROVE DeclInv
  OBVIOUS
<1>1. /\ pass = "PASS1" /\ tbl_g = <<>> /\ where = "top" /\ unit = <<>> /\ first = <<>>
      /\ code = <<>> /\ err = "none"
  BY DEF DeclInit
<1>2. 1..Len(tbl_g) = {} /\ 1..Len(unit) = {} /\ 1..Len(code) = {} /\ code \in Seq(Codings)
  BY <1>1
<1> QED BY <1>1, <1>2, InitType
        DEF DeclInv, TextInv, CurrentInv, KindInv, TwiceInv, UseInv, TableInv, FoundInv, CodeInv,
            InternalInv, OverrunInv, LabelInv

\* Every step keeps the invariant.
LEMMA DeclStepInv == DeclInv /\ [DeclNext]_vars => DeclInv'
<1> SUFFICES ASSUME DeclInv, [DeclNext]_vars PROVE DeclInv'
  OBVIOUS
<1>1. /\ TypeInv /\ TextInv /\ CurrentInv /\ KindInv /\ TwiceInv /\ UseInv /\ TableInv
      /\ FoundInv /\ CodeInv /\ InternalInv /\ OverrunInv /\ LabelInv
  BY DEF DeclInv
<1>2. TypeInv' /\ (ReadStep \/ MainStep \/ Laid \/ UNCHANGED vars)
  BY <1>1, TypeStep, StepCases
<1> QED BY <1>1, <1>2, TextStep, CurrentStep, KindStep, TwiceStep, UseInvStep, TableStep, FoundStep,
           CodeStep, InternalStep, OverrunStep, LabelStep DEF DeclInv

\* The invariant that the properties follow from.
THEOREM DeclInvariant == DeclSpec => []DeclInv
BY DeclInitInv, DeclStepInv, PTL DEF DeclSpec

------------------------------------------------------------------------------
\* The declarations of the text

\* The value of Largest.
LEMMA LargestIs ==
  ASSUME NEW S, S \in SUBSET Nat, NEW k \in S, \A l \in S : l <= k
  PROVE  Largest(S) = k
<1>1. Largest(S) \in S /\ \A l \in S : l <= Largest(S)
  BY DEF Largest
<1>2. k \in Nat /\ Largest(S) \in Nat /\ (\A l \in S : l \in Nat)
  BY <1>1
<1> HIDE DEF Largest
<1> QED BY <1>1, <1>2

\* The value of Smallest.
LEMMA SmallestIs ==
  ASSUME NEW S, S \in SUBSET Nat, NEW k \in S, \A l \in S : k <= l
  PROVE  Smallest(S) = k
<1>1. Smallest(S) \in S /\ \A l \in S : Smallest(S) <= l
  BY DEF Smallest
<1>2. k \in Nat /\ Smallest(S) \in Nat /\ (\A l \in S : l \in Nat)
  BY <1>1
<1> HIDE DEF Smallest
<1> QED BY <1>1, <1>2

\* The declaration an item belongs to.
LEMMA DeclarationIs ==
  ASSUME NEW p \in Nat, NEW c, Within(unit, c, p), unit[p].kind # "function"
  PROVE  DeclarationAt(p) = c
<1> DEFINE S == {d \in 1..p : unit[d].kind = "function"}
<1>1. S \in SUBSET Nat /\ c \in S
  BY DEF Within
<1>2. ASSUME NEW l \in S PROVE l <= c
  <2>1. ASSUME l > c PROVE FALSE
    <3>1. l \in c+1..p-1
      BY <1>1, <2>1
    <3> QED BY <3>1 DEF Within, Inside
  <2> QED BY <1>1, <2>1
<1> HIDE DEF S
<1>3. Largest(S) = c
  BY <1>1, <1>2, LargestIs
<1> QED BY <1>3 DEF S, DeclarationAt

\* The last item of a declaration.
LEMMA EndIs ==
  ASSUME NEW d, NEW e, Len(unit) \in Nat, Closed(unit, d, e)
  PROVE  EndOf(d) = e /\ d \in 1..Len(unit) /\ d < e
<1> DEFINE S == {k \in d..Len(unit) : unit[k].kind \in {"prototype", "end"}} \cup {Len(unit)}
<1>1. d \in 1..e-1 /\ e \in 1..Len(unit)
  BY DEF Closed, Within
<1>2. S \in SUBSET Nat /\ e \in S
  BY <1>1 DEF Closed, Closing
<1>3. ASSUME NEW l \in S PROVE e <= l
  <2>1. ASSUME l < e PROVE FALSE
    <3>1. l \in d..e-1 /\ unit[l].kind \in Closing
      BY <1>1, <2>1 DEF Closing
    <3>2. CASE l = d
      BY <3>1, <3>2 DEF Closed, Within, Closing
    <3>3. CASE l \in d+1..e-1
      BY <3>1, <3>3 DEF Closed, Within, Closing, Inside
    <3> QED BY <1>1, <3>1, <3>2, <3>3
  <2> QED BY <1>1, <2>1
<1> HIDE DEF S
<1>4. Smallest(S) = e
  BY <1>2, <1>3, SmallestIs
<1> QED BY <1>1, <1>4 DEF S, EndOf

\* The declarations of a function.
LEMMA DeclarationsProp ==
  ASSUME TypeInv, NEW n
  PROVE  /\ Len(unit) \in Nat /\ DOMAIN unit = 1..Len(unit)
         /\ \A d : d \in DeclarationsOf(n) <=> d \in 1..Len(unit) /\ FunctionAt(unit, d, n)
<1>1. Len(unit) \in Nat /\ DOMAIN unit = 1..Len(unit)
  BY LenProperties DEF TypeInv, UnitOK
<1> QED BY <1>1 DEF DeclarationsOf, FunctionAt

\* The last declaration of a name.
LEMMA LatestIs ==
  ASSUME TypeInv, NEW n, NEW d, Latest(unit, d, n)
  PROVE  Largest(DeclarationsOf(n)) = d
<1>1. Len(unit) \in Nat /\ \A c : c \in DeclarationsOf(n) <=> c \in 1..Len(unit) /\ FunctionAt(unit, c, n)
  BY DeclarationsProp
<1> DEFINE S == DeclarationsOf(n)
<1>2. S \in SUBSET Nat /\ d \in S
  BY <1>1 DEF Latest
<1>3. ASSUME NEW l \in S PROVE l <= d
  <2>1. ASSUME l > d PROVE l \in d+1..Len(unit) /\ FunctionAt(unit, l, n)
    BY <1>1, <1>2, <2>1
  <2> QED BY <1>1, <1>2, <2>1 DEF Latest
<1> HIDE DEF S
<1>4. Largest(S) = d
  BY <1>2, <1>3, LargestIs
<1> QED BY <1>4 DEF S

------------------------------------------------------------------------------
\* The properties

\* The invariant implies the type invariant of the runs.
LEMMA DeclInvTypes == DeclInv => DeclTypeOK
<1> SUFFICES ASSUME DeclInv PROVE DeclTypeOK
  OBVIOUS
<1>0. TypeInv /\ OverrunInv
  BY DEF DeclInv
<1>1. DOMAIN tbl_g = 1..Len(tbl_g) /\ Len(tbl_g) \in Nat /\ Len(unit) \in Nat
  BY <1>0, Entries, LenProperties DEF TypeInv, UnitOK
<1>2. ASSUME NEW k \in DOMAIN tbl_g
      PROVE  /\ tbl_g[k].name \in Names /\ tbl_g[k].isfunc \in BOOLEAN
             /\ tbl_g[k].body \in BOOLEAN
             /\ Len(tbl_g[k].table.vars) <= MAX_VARIABLE
             /\ \A l \in DOMAIN tbl_g[k].table.vars : Kept(tbl_g[k].table.vars[l])
             /\ tbl_g[k].table.auto_size \in 0..USHRT-1
             /\ tbl_g[k].table.param_numb \in 0..MAX_VARIABLE
  <2>1. tbl_g[k] \in Globals /\ Len(tbl_g[k].table.vars) <= MAX_VARIABLE
    BY <1>0, <1>1, Entries DEF TypeInv, TableOK
  <2>2. \A l \in DOMAIN tbl_g[k].table.vars : tbl_g[k].table.vars[l] \in Locals
    BY <2>1, GlobalProp, ElementOfSeq, LenProperties
  <2> QED BY <2>1, <2>2, GlobalProp DEF Kept, Locals
<1>2a. ASSUME NEW k \in DOMAIN tbl_g, tbl_g[k].table.overrun
       PROVE  /\ pass = "PASS1" /\ err = "memory" /\ k = func
              /\ Len(tbl_g[k].table.vars) = MAX_VARIABLE
  BY <1>0, <1>1, <1>2a DEF OverrunInv
<1>3. \A k, l \in DOMAIN tbl_g : tbl_g[k].name = tbl_g[l].name => k = l
  BY <1>0, <1>1 DEF TypeInv, TableOK
<1>4. next \in 1..Len(unit) + Len(tbl_g) + 1
  BY <1>0, <1>1 DEF TypeInv, PlaceOK
<1>5. Len(tbl_g) <= MAX_SYMBOL_TABLE_G /\ Len(unit) <= MaxUnit /\ Len(first) = Len(unit)
  BY <1>0 DEF TypeInv, TableOK, UnitOK
<1>6. /\ pass \in {"PASS1", "LAYOUT", "PASS3", "DONE"}
      /\ func \in 0..Len(tbl_g) /\ (where # "top" => func # 0)
      /\ where \in {"top", "params", "body"}
      /\ err \in {"none", "multiple", "memory", "internal", "undefined", "l_kakko",
                   "to_be_define", "param_number"}
  BY <1>0 DEF TypeInv, PlaceOK
<1> QED BY <1>2, <1>2a, <1>3, <1>4, <1>5, <1>6 DEF DeclTypeOK

\* The symbol tables keep their types and limits: a name stands in tbl_g once, the
\* function being parsed is one of its slots, PASS3 reads within the text, and what is
\* written behind a full table is written by the step the compiler stops in.
THEOREM DeclTypeCorrect == DeclSpec => []DeclTypeOK
BY DeclInvariant, DeclInvTypes, PTL

\* What the property says of the items is what the invariant says of them.
LEMMA SecondIsTwice ==
  ASSUME DeclInv, NEW p \in 1..Len(unit)
  PROVE  Second(p) /\ ~LetThrough(p) <=> Twice(unit, p)
<1>1. TypeInv /\ TextInv /\ Len(unit) \in Nat /\ p \in Nat
  BY DeclarationsProp DEF DeclInv
<1> DEFINE n == unit[p].name
<1>2. \A d : d \in DeclarationsOf(n) <=> d \in 1..Len(unit) /\ FunctionAt(unit, d, n)
  BY <1>1, DeclarationsProp
<1>3. CASE unit[p].kind \in {"variable", "function"}
  <2>1. LetThrough(p) <=> \E d \in DeclarationsOf(n) : \A q \in 1..d : ~VariableAt(unit, q, n)
    BY <1>3 DEF LetThrough, SameName, VariableAt
  <2>2. ASSUME Second(p), ~LetThrough(p) PROVE Twice(unit, p)
    <3> DEFINE V == {q \in 1..p-1 : VariableAt(unit, q, n)}
    <3>1. PICK q \in 1..p-1 : VariableAt(unit, q, n) \/ FunctionAt(unit, q, n)
      BY <1>3, <2>2 DEF Second, SameName, VariableAt, FunctionAt
    <3>2. V # {}
      <4>1. CASE VariableAt(unit, q, n)
        BY <4>1
      <4>2. CASE FunctionAt(unit, q, n)
        <5>1. q \in DeclarationsOf(n)
          <6> HIDE DEF n
          <6>1. q \in 1..Len(unit)
            BY <1>1
          <6> QED BY <1>2, <4>2, <6>1
        <5>2. PICK v \in 1..q : VariableAt(unit, v, n)
          BY <2>1, <2>2, <5>1
        <5>3. v \in 1..p-1
          BY <1>1
        <5> QED BY <5>2, <5>3
      <4> QED BY <3>1, <4>1, <4>2
    <3>3. PICK m \in V : \A k \in V : m <= k
      <4>1. V \in SUBSET Nat
        OBVIOUS
      <4> HIDE DEF V
      <4> QED BY <3>2, <4>1, LeastNat
    <3>4. ASSUME NEW d \in 1..m, FunctionAt(unit, d, n) PROVE FALSE
      <4>1. d \in DeclarationsOf(n)
        <5> HIDE DEF n
        <5>1. d \in 1..Len(unit)
          BY <1>1
        <5> QED BY <1>2, <3>4, <5>1
      <4>2. PICK v \in 1..d : VariableAt(unit, v, n)
        BY <2>1, <2>2, <4>1
      <4>3. v # d
        BY <3>4, <4>2 DEF FunctionAt, VariableAt
      <4>4. v \in V /\ v < m
        BY <1>1, <4>2, <4>3
      <4> QED BY <1>1, <3>3, <4>4
    <3> QED BY <1>3, <3>3, <3>4 DEF Twice
  <2>3. ASSUME Twice(unit, p) PROVE Second(p) /\ ~LetThrough(p)
    <3>1. PICK q \in 1..p-1 : VariableAt(unit, q, n) /\ \A d \in 1..q : ~FunctionAt(unit, d, n)
      BY <1>3, <2>3 DEF Twice
    <3>2. Second(p)
      BY <1>3, <3>1 DEF Second, SameName, VariableAt
    <3>3. ASSUME NEW d \in DeclarationsOf(n) PROVE q \in 1..d
      <4>1. d \in 1..Len(unit) /\ FunctionAt(unit, d, n)
        <5> HIDE DEF n
        <5> QED BY <1>2
      <4>2. d \notin 1..q
        BY <3>1, <4>1
      <4> QED BY <1>1, <4>1, <4>2
    <3> QED BY <2>1, <3>1, <3>2, <3>3
  <2> QED BY <2>2, <2>3
<1>4. CASE unit[p].kind \in {"param", "auto"}
  <2>1. PICK c \in 1..p-1 : Within(unit, c, p)
    BY <1>1, <1>4 DEF TextInv, Inside
  <2>2. DeclarationAt(p) = c /\ unit[c].kind = "function"
    BY <1>1, <1>4, <2>1, DeclarationIs DEF Within
  <2>3. (\E q \in c..p-1 : DeclaresAt(q, n)) <=> Declares(unit, c, p, n)
    <3>1. \A q \in c..p-1 : q = c \/ q \in c+1..p-1
      BY <1>1
    <3>2. \A q \in c+1..p-1 : q \in c..p-1
      BY <1>1
    <3>3. ~DeclaresAt(c, n)
      BY <2>2 DEF DeclaresAt
    <3> QED BY <3>1, <3>2, <3>3 DEF Declares, DeclaresAt, SymbolAt
  <2>4. (\E d \in 1..p-1 : Within(unit, d, p) /\ Declares(unit, d, p, n)) <=> Declares(unit, c, p, n)
    BY <1>1, <2>1, WithinUnique
  <2>5. Second(p) <=> \E q \in c..p-1 : DeclaresAt(q, n)
    BY <1>4, <2>2 DEF Second
  <2>6. ~LetThrough(p)
    BY <1>4 DEF LetThrough
  <2> QED BY <1>4, <2>3, <2>4, <2>5, <2>6 DEF Twice
<1>5. CASE unit[p].kind \notin {"variable", "function", "param", "auto"}
  <2>1. CASE unit[p].kind = "body"
    BY <2>1 DEF LetThrough, Twice
  <2>2. CASE unit[p].kind # "body"
    BY <1>5, <2>2 DEF Second, Twice
  <2> QED BY <2>1, <2>2
<1> QED BY <1>3, <1>4, <1>5

\* A second definition is refused by PASS1, but for a second body and for a variable
\* beside a function that comes first; those are two labels of one name.
THEOREM RefusalsAreSeconds == DeclSpec => []RefusedTwice
<1>1. ASSUME DeclInv PROVE RefusedTwice
  <2>1. DOMAIN unit = 1..Len(unit) /\ Len(unit) \in Nat
    BY <1>1, DeclarationsProp DEF DeclInv
  <2>2. ASSUME NEW p \in 1..Len(unit)
        PROVE  Refused(p) <=> Second(p) /\ ~LetThrough(p)
    BY <1>1, SecondIsTwice DEF DeclInv, TwiceInv, Refused
  <2>3. ASSUME pass = "DONE", NEW p \in 1..Len(unit), Defines(p) PROVE Labelled(p)
    <3>1. p \in 1..next-1 /\ err = "none"
      BY <1>1, <2>1, <2>3 DEF DeclInv, LabelInv, TypeInv, PlaceOK
    <3>2. PICK k \in 1..Len(code) : LabelOf(unit, p, code[k])
      BY <1>1, <2>3, <3>1 DEF DeclInv, LabelInv, Defines
    <3>3. DOMAIN code = 1..Len(code)
      BY <1>1, LenProperties DEF DeclInv, CodeInv
    <3> QED BY <3>2, <3>3 DEF LabelOf, Labelled
  <2> QED BY <2>1, <2>2, <2>3 DEF RefusedTwice
<1>2. DeclInv => RefusedTwice
  BY <1>1
<1> QED BY DeclInvariant, <1>2, PTL

\* A name PASS3 does not find is one that a later declaration of its function leaves out.
THEOREM MissingAreDropped == DeclSpec => []SymbolsFound
<1>1. ASSUME DeclInv, err = "internal"
      PROVE  \E d \in DeclarationsOf(tbl_g[func].name) :
               /\ d > next - 1
               /\ ~ \E e \in d..EndOf(d) : DeclaresAt(e, unit[next-1].name)
  <2>1. TypeInv /\ Len(unit) \in Nat /\ next \in Nat
    BY <1>1, DeclarationsProp DEF DeclInv, TypeInv, PlaceOK
  <2> DEFINE n == unit[next-1].name
  <2>2. PICK d \in next..Len(unit), e \in 1..Len(unit) :
          /\ FunctionAt(unit, d, tbl_g[func].name) /\ Closed(unit, d, e) /\ ~Declares(unit, d, e, n)
    BY <1>1 DEF DeclInv, InternalInv
  <2>3. EndOf(d) = e /\ d \in 1..Len(unit) /\ d < e
    BY <2>1, <2>2, EndIs
  <2>4. d \in DeclarationsOf(tbl_g[func].name) /\ d > next - 1
    BY <2>1, <2>2, <2>3, DeclarationsProp
  <2> HIDE DEF n
  <2>5. ASSUME NEW q \in d..e, DeclaresAt(q, n) PROVE FALSE
    <3>1. SymbolAt(unit, q, n)
      BY <2>5 DEF DeclaresAt, SymbolAt
    <3>2. q # d /\ q # e
      BY <2>2, <3>1 DEF SymbolAt, FunctionAt, Closed, Closing
    <3>3. q \in d+1..e-1
      BY <2>1, <2>3, <3>2
    <3> QED BY <2>2, <3>1, <3>3 DEF Declares
  <2> QED BY <2>3, <2>4, <2>5 DEF n
<1>2. DeclInv => SymbolsFound
  BY <1>1 DEF SymbolsFound
<1> QED BY DeclInvariant, <1>2, PTL

\* A label is printed once, but for what the text defines twice.
THEOREM LabelsAreOnce == DeclSpec => []LabelsOnce
<1>1. ASSUME DeclInv, NEW k \in 1..Len(code), NEW l \in 1..Len(code), k < l,
             code[k].what = "label", code[l].what = "label", code[k].name = code[l].name
      PROVE  \A d \in {code[k].at, code[l].at} :
               unit[d].kind \in {"body", "variable"} /\ DeclarationsOf(code[k].name) # {}
  <2> PICK p \in 1..Len(unit), q \in 1..Len(unit) : p = code[k].at /\ q = code[l].at
    BY <1>1 DEF DeclInv, CodeInv, CodingOK
  <2> DEFINE n == code[k].name
  <2>1. /\ unit[p].kind \in {"body", "variable"} /\ unit[p].name = n
        /\ unit[q].kind \in {"body", "variable"} /\ unit[q].name = n
    BY <1>1 DEF DeclInv, CodeInv, CodingOK
  <2>2. p # q
    <3>1. p < q
      BY <1>1 DEF DeclInv, CodeInv
    <3> QED BY <3>1
  <2> HIDE DEF n
  <2>3. \E d \in 1..Len(unit) : FunctionAt(unit, d, n)
    <3>1. ASSUME NEW b \in 1..Len(unit), unit[b].kind = "body", unit[b].name = n
          PROVE  \E d \in 1..Len(unit) : FunctionAt(unit, d, n)
      <4>1. PICK d \in 1..b-1 : Within(unit, d, b) /\ unit[b].name = unit[d].name
        BY <1>1, <3>1 DEF DeclInv, TextInv, Inside
      <4>2. d \in 1..Len(unit)
        BY <1>1, DeclarationsProp DEF DeclInv
      <4> QED BY <3>1, <4>1, <4>2 DEF Within, FunctionAt
    <3>2. CASE unit[p].kind = "variable" /\ unit[q].kind = "variable"
      <4>1. Live
        <5>1. pass \notin {"PASS1", "LAYOUT"}
          <6>1. code # <<>>
            BY <1>1
          <6> QED BY <1>1, <6>1 DEF DeclInv, CodeInv
        <5> QED BY <5>1 DEF Live
      <4>2. PICK j \in 1..Len(tbl_g) : tbl_g[j].name = n
        BY <1>1, <2>1, <3>2, <4>1 DEF DeclInv, TypeInv, NamesInv
      <4>3. KindOf(unit, tbl_g[j]) /\ VariableAt(unit, p, n) /\ VariableAt(unit, q, n)
        BY <1>1, <2>1, <3>2, <4>1 DEF DeclInv, KindInv, VariableAt
      <4> QED BY <2>2, <4>2, <4>3 DEF KindOf
    <3> QED BY <2>1, <3>1, <3>2
  <2>4. DeclarationsOf(n) # {}
    BY <1>1, <2>3, DeclarationsProp DEF DeclInv
  <2> QED BY <2>1, <2>4 DEF n
<1>2. ASSUME DeclInv PROVE DOMAIN code = 1..Len(code)
  BY <1>2, LenProperties DEF DeclInv, CodeInv
<1>3. DeclInv => LabelsOnce
  BY <1>1, <1>2, Zenon DEF LabelsOnce
<1> QED BY DeclInvariant, <1>3, PTL

\* The two passes mean the same variable, but for one that is declared later.
THEOREM PassesAgree == DeclSpec => []UsesAgree
<1>1. ASSUME DeclInv, NEW k \in 1..Len(code), NEW p, p = code[k].at,
             code[k].what \in {"local", "global"}
      PROVE  \/ code[k].what = first[p]
             \/ \E e \in p+1..Len(unit) :
                  /\ DeclaresAt(e, code[k].name)
                  /\ unit[DeclarationAt(e)].name = unit[DeclarationAt(p)].name
  <2>1. /\ p \in 1..Len(unit) /\ unit[p].kind = "use"
        /\ code[k].what = first[p] \/ Later(unit, p, code[k].name)
    BY <1>1 DEF DeclInv, CodeInv, CodingOK
  <2>2. CASE Later(unit, p, code[k].name)
    <3>1. PICK e \in p+1..Len(unit) :
            /\ SymbolAt(unit, e, code[k].name)
            /\ \E c \in 1..p-1, d \in 1..e-1 :
                 Within(unit, c, p) /\ Within(unit, d, e) /\ unit[c].name = unit[d].name
      BY <2>2 DEF Later
    <3>1a. PICK c \in 1..p-1, d \in 1..e-1 :
             Within(unit, c, p) /\ Within(unit, d, e) /\ unit[c].name = unit[d].name
      BY <3>1
    <3>2. e \in Nat /\ p \in Nat
      BY <2>1
    <3>3. DeclarationAt(e) = d /\ DeclarationAt(p) = c
      BY <2>1, <3>1, <3>1a, <3>2, DeclarationIs DEF SymbolAt
    <3> QED BY <3>1, <3>1a, <3>3 DEF DeclaresAt, SymbolAt
  <2> QED BY <2>1, <2>2
<1>2. ASSUME DeclInv PROVE DOMAIN code = 1..Len(code)
  BY <1>2, LenProperties DEF DeclInv, CodeInv
<1>3. DeclInv => UsesAgree
  BY <1>1, <1>2, Zenon DEF UsesAgree
<1> QED BY DeclInvariant, <1>3, PTL

\* What a call passes is what the body at the end of the declaration d reads.
Matches(c, d, t) ==
  \A b \in d..EndOf(d) :
    unit[b].kind = "body" =>
      /\ c.arg = b - d - 1
      /\ \A l \in 1..c.arg :
           /\ unit[d + l].kind = "param" /\ t.vars[l].name = unit[d + l].name
           /\ t.vars[l].value < USHRT =>
                t.vars[l].value = t.auto_size + 4 + 2 + 4 * (l - 1)

\* A call passes what the body of the function reads, where it reads it.
THEOREM CallsFitBodies == DeclSpec => []CallsMatchBody
<1>1. ASSUME DeclInv, NEW j \in 1..Len(code), code[j].what = "call", NEW n, n = code[j].name,
             NEW d, d = Largest(DeclarationsOf(n)), NEW t, t = tbl_g[GlobalSlot(n)].table,
             NEW b \in d..EndOf(d), unit[b].kind = "body"
      PROVE  /\ code[j].arg = b - d - 1
             /\ \A l \in 1..code[j].arg :
                  /\ unit[d + l].kind = "param" /\ t.vars[l].name = unit[d + l].name
                  /\ t.vars[l].value < USHRT =>
                       t.vars[l].value = t.auto_size + 4 + 2 + 4 * (l - 1)
  <2>1. TypeInv /\ Len(unit) \in Nat
    BY <1>1, DeclarationsProp DEF DeclInv
  <2>2. PICK k \in 1..Len(tbl_g) :
          tbl_g[k].name = n /\ tbl_g[k].isfunc /\ code[j].arg = tbl_g[k].table.param_numb
    BY <1>1 DEF DeclInv, CodeInv, CodingOK
  <2>3. t = tbl_g[k].table
    <3>1. GlobalSlot(n) = k
      BY <2>1, <2>2, SlotProp DEF GlobalSlot, TypeInv
    <3> QED BY <1>1, <3>1
  <2>4. pass \in {"PASS3", "DONE"}
    <3>1. code # <<>>
      BY <1>1
    <3> QED BY <1>1, <3>1 DEF DeclInv, CodeInv, TypeInv, PlaceOK
  <2>5. ~Current(k) /\ ~Pending(k) /\ Live
    BY <2>4 DEF Current, Pending, Live
  <2>6. PICK a \in 1..Len(unit), e \in 1..Len(unit)+1, m \in 0..MAX_VARIABLE : TableFits(k, a, e, m)
    BY <1>1, <2>2, <2>5 DEF DeclInv, TableInv, HasFit
  <2>7. /\ Latest(unit, a, n) /\ Within(unit, a, e) /\ e <= Len(unit) /\ unit[e].kind \in Closing
        /\ Fits(unit, t.vars, a, e, m) /\ Offsets(t, m)
    BY <2>2, <2>3, <2>5, <2>6 DEF TableFits
  <2>8. Closed(unit, a, e)
    BY <2>1, <2>6, <2>7 DEF Closed
  <2>9. d = a /\ EndOf(d) = e
    BY <1>1, <2>1, <2>7, <2>8, LatestIs, EndIs
  <2>10. b \in a+1..e-1
    <3>1. b # a /\ b # e
      BY <1>1, <2>7 DEF Latest, FunctionAt, Closing
    <3>2. b \in a..e
      BY <1>1, <2>9
    <3> QED BY <2>6, <3>1, <3>2
  <2>11. b = a + m + 1 /\ code[j].arg = m
    BY <1>1, <2>2, <2>3, <2>7, <2>10 DEF Fits, Offsets
  <2>12. code[j].arg = b - d - 1
    BY <2>6, <2>9, <2>11
  <2>13. \A l \in 1..m : /\ unit[d + l].kind = "param" /\ t.vars[l].name = unit[d + l].name
                         /\ t.vars[l].value < USHRT =>
                              t.vars[l].value = t.auto_size + 4 + 2 + 4 * (l - 1)
    BY <2>7, <2>9 DEF Fits, Offsets, SymbolAt
  <2> QED BY <2>11, <2>12, <2>13
<1>2. ASSUME DeclInv PROVE DOMAIN code = 1..Len(code)
  BY <1>2, LenProperties DEF DeclInv, CodeInv
<1>3. ASSUME DeclInv PROVE CallsMatchBody
  <2>1. \A j \in DOMAIN code : code[j].what = "call" =>
          Matches(code[j], Largest(DeclarationsOf(code[j].name)), tbl_g[GlobalSlot(code[j].name)].table)
    BY <1>1, <1>2, <1>3 DEF Matches
  <2> QED BY <2>1, Zenon DEF CallsMatchBody, Matches
<1>4. DeclInv => CallsMatchBody
  BY <1>3
<1> QED BY DeclInvariant, <1>4, PTL
==============================================================================
