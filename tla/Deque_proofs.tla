---------------------------- MODULE Deque_proofs ----------------------------
(***************************************************************************)
(* Theorems about Deque, for every set of values and every capacity limit.  *)
(* The types of what the calls return rest on the ring: a pop, a peek and a  *)
(* get read cells of the ring only, and those were stored.                   *)
(* The ring refines the queue of DequeSpec: its elements, in order from the  *)
(* front, are the queue's, and a growth in a push moves them unchanged.      *)
(***************************************************************************)
EXTENDS Deque, TLAPS

\* Cell j belongs to the ring f..b.
InRing(j, f, b) == IF f <= b THEN f <= j /\ j <= b ELSE f <= j \/ j <= b

\* The cells of the ring were stored, none is what malloc left there.
RingStored == ~IsEmpty => \A j \in 0 .. cap - 1 : InRing(j, front, back) => cell[j] \in Values

IInv == TypeOK /\ NeverFull /\ RingStored

-----------------------------------------------------------------------------
\* A capacity deque_grow asks for is larger than the old one.
LEMMA GrownCapGrows ==
    ASSUME NEW c \in Nat, GrownCap(c, c + 1) <= MaxCap
    PROVE  GrownCap(c, c + 1) \in c + 1 .. MaxCap
  BY DequeAssumption DEF GrownCap

\* The length of a ring that is not empty, and that its cells are told by
\* their distance from the front.
LEMMA RingLength ==
    ASSUME NEW c \in Nat, NEW f \in 0 .. c - 1, NEW b \in 0 .. c - 1
    PROVE  /\ DequeLen(f, b, c) \in 1 .. c
           /\ \A i \in 0 .. DequeLen(f, b, c) - 1 :
                /\ f + i < c => InRing(f + i, f, b)
                /\ ~(f + i < c) => f + i - c \in 0 .. c - 1 /\ InRing(f + i - c, f, b)
  BY DEF DequeLen, InRing

\* The index of a neighbour of a cell is an index too.
LEMMA Neighbours ==
    ASSUME TypeOK
    PROVE  /\ \A i \in -1 .. cap - 1 : NextIndex(i) \in 0 .. cap - 1
           /\ \A i \in 0 .. cap - 1 : PrevIndex(i) \in 0 .. cap - 1
  BY DequeAssumption DEF TypeOK, NextIndex, PrevIndex

\* The end of a push keeps the invariant, whether it grows the block or not, if
\* every cell of the new ring but the one it stores was stored before.
LEMMA StoredKeeps ==
    ASSUME IInv, NEW v \in Values,
           NEW f \in 0 .. cap - 1, NEW b \in 0 .. cap - 1, NEW i \in 0 .. cap - 1,
           \A j \in 0 .. cap - 1 : InRing(j, f, b) /\ j # i => cell[j] \in Values,
           Stored(i, f, b, v), UNCHANGED out
    PROVE  IInv'
<1> DEFINE d == [cell EXCEPT ![i] = v]
           len == DequeLen(f, b, cap)
<1>0. /\ cap \in 1 .. MaxCap /\ MaxCap \in Nat
      /\ cell \in [Idx -> Values \cup {Junk}]
      /\ 0 .. cap - 1 \subseteq Idx
  BY DequeAssumption DEF IInv, TypeOK, Idx
<1>1. /\ d \in [Idx -> Values \cup {Junk}]
      /\ \A j \in 0 .. cap - 1 : InRing(j, f, b) => d[j] \in Values
  BY <1>0
<1>2. len \in 1 .. cap
  BY <1>0, RingLength
<1>3. CASE len # cap /\ cell' = d /\ front' = f /\ back' = b /\ UNCHANGED cap
  <2>1. TypeOK'
    BY <1>0, <1>1, <1>3 DEF TypeOK, IInv, Idx
  <2>2. NeverFull'
    BY <1>0, <1>2, <1>3 DEF NeverFull, IsEmpty, DequeLen
  <2>3. RingStored'
    BY <1>1, <1>3 DEF RingStored, IsEmpty
  <2>. QED BY <2>1, <2>2, <2>3 DEF IInv
<1>4. CASE /\ len = cap /\ GrownCap(cap, cap + 1) <= MaxCap
           /\ cap' = GrownCap(cap, cap + 1)
           /\ cell' = Unwrapped(d, f, b, cap)
           /\ front' = 0 /\ back' = len - 1
  <2> DEFINE c == GrownCap(cap, cap + 1)
  <2>0. cap' = c /\ front' = 0 /\ back' = len - 1 /\ out' = out
    BY <1>4
  <2>1. /\ c \in 1 .. MaxCap /\ 0 \in -1 .. c - 1 /\ len - 1 \in -1 .. c - 1
        /\ len - 1 # -1 /\ DequeLen(0, len - 1, c) < c
    BY <1>0, <1>2, <1>4, GrownCapGrows DEF DequeLen
  <2>2. cell' \in [Idx -> Values \cup {Junk}] /\ \A j \in 0 .. len - 1 : cell'[j] \in Values
    <3>1. ASSUME NEW j \in 0 .. len - 1
          PROVE  (IF f + j < cap THEN d[f + j] ELSE d[f + j - cap]) \in Values
      BY <1>0, <1>1, <1>2, RingLength
    <3>2. cell' = [j \in Idx |-> IF j >= len THEN Junk
                                 ELSE IF f + j < cap THEN d[f + j] ELSE d[f + j - cap]]
      BY <1>4 DEF Unwrapped
    <3>3. \A j \in Idx : j < len => j \in 0 .. len - 1
      BY <1>0, <1>2 DEF Idx
    <3>4. 0 .. len - 1 \subseteq Idx
      BY <1>0, <1>2 DEF Idx
    <3>5. \A j \in Idx : (j >= len) \/ (j < len)
      BY <1>0, <1>2 DEF Idx
    <3>6. \A j \in 0 .. len - 1 : ~(j >= len)
      BY <1>0, <1>2
    <3>. HIDE DEF d, len
    <3>. QED BY <3>1, <3>2, <3>3, <3>4, <3>5, <3>6
  <2>3. \A j \in 0 .. c - 1 : InRing(j, 0, len - 1) => j \in 0 .. len - 1
    BY <1>0, <1>2, <2>1 DEF InRing
  <2>. HIDE DEF c, d, len
  <2>4. TypeOK'
    BY <2>0, <2>1, <2>2 DEF IInv, TypeOK
  <2>5. NeverFull'
    BY <2>0, <2>1 DEF NeverFull
  <2>6. RingStored'
    BY <2>0, <2>2, <2>3 DEF RingStored
  <2>. QED BY <2>4, <2>5, <2>6 DEF IInv
<1>. QED BY <1>3, <1>4 DEF Stored

\* A pop that leaves part of the ring, or none, keeps the invariant.
LEMMA ShrunkKeeps ==
    ASSUME IInv, ~IsEmpty, UNCHANGED <<cap, cell>>, out' \in Values,
           \/ front' = -1 /\ back' = -1
           \/ front # back /\ front' = NextIndex(front) /\ back' = back
           \/ front # back /\ front' = front /\ back' = PrevIndex(back)
    PROVE  IInv'
<1>0. /\ cap \in 1 .. MaxCap /\ front \in 0 .. cap - 1 /\ back \in 0 .. cap - 1
      /\ MaxCap \in Nat /\ DequeLen(front, back, cap) < cap
      /\ \A j \in 0 .. cap - 1 : InRing(j, front, back) => cell[j] \in Values
  BY DequeAssumption DEF IInv, TypeOK, IsEmpty, NeverFull, RingStored
<1>1. CASE front' = -1 /\ back' = -1
  BY <1>0, <1>1 DEF IInv, TypeOK, NeverFull, RingStored, IsEmpty
<1>2. CASE \/ front # back /\ front' = NextIndex(front) /\ back' = back
           \/ front # back /\ front' = front /\ back' = PrevIndex(back)
  <2>1. front' \in 0 .. cap - 1 /\ back' \in 0 .. cap - 1
    BY <1>0, <1>2 DEF NextIndex, PrevIndex
  <2>2. DequeLen(front', back', cap) < cap
    BY <1>0, <1>2 DEF NextIndex, PrevIndex, DequeLen
  <2>3. \A j \in 0 .. cap - 1 : InRing(j, front', back') => InRing(j, front, back)
    BY <1>0, <1>2 DEF NextIndex, PrevIndex, InRing
  <2>4. TypeOK'
    BY <1>0, <2>1 DEF IInv, TypeOK
  <2>5. NeverFull' /\ RingStored'
    BY <1>0, <2>1, <2>2, <2>3 DEF NeverFull, RingStored, IsEmpty
  <2>. QED BY <2>4, <2>5 DEF IInv
<1>. QED BY <1>1, <1>2

\* A call that moves neither end and stores at most an element in the ring
\* keeps the invariant.
LEMMA InPlaceKeeps ==
    ASSUME IInv, UNCHANGED <<cap, front, back>>, out' \in Values \cup {NoValue},
           \/ UNCHANGED cell
           \/ \E j \in Idx, v \in Values : cell' = [cell EXCEPT ![j] = v]
    PROVE  IInv'
<1>1. TypeOK' /\ NeverFull'
  BY DEF IInv, TypeOK, NeverFull, IsEmpty
<1>2. \A j \in 0 .. cap - 1 : j \in Idx
  BY DequeAssumption DEF IInv, TypeOK, Idx
<1>3. RingStored'
  BY <1>2 DEF IInv, TypeOK, RingStored, IsEmpty
<1>. QED BY <1>1, <1>3 DEF IInv

-----------------------------------------------------------------------------
\* open_deque establishes the invariant.
LEMMA InitInv == Init => IInv
  BY DequeAssumption DEF Init, IInv, TypeOK, NeverFull, RingStored, IsEmpty, NewCells, Idx

\* Every call of deque.c keeps it.
LEMMA StepInv == IInv /\ [Next]_vars => IInv'
<1> SUFFICES ASSUME IInv, [Next]_vars PROVE IInv'
  OBVIOUS
<1>0. /\ cap \in 1 .. MaxCap /\ MaxCap \in Nat
      /\ front \in -1 .. cap - 1 /\ back \in -1 .. cap - 1 /\ (front = -1 <=> back = -1)
      /\ out \in Values \cup {NoValue}
      /\ \A j \in 0 .. cap - 1 : j \in Idx
  BY DequeAssumption DEF IInv, TypeOK, Idx
<1>1. ~IsEmpty => /\ front \in 0 .. cap - 1 /\ back \in 0 .. cap - 1
                  /\ cell[front] \in Values /\ cell[back] \in Values
                  /\ DequeLen(front, back, cap) < cap
                  /\ \A j \in 0 .. cap - 1 : InRing(j, front, back) => cell[j] \in Values
  BY <1>0 DEF IInv, RingStored, NeverFull, IsEmpty, InRing
<1>2. ASSUME NEW v \in Values, PushFront(v) PROVE IInv'
  <2>1. /\ ~IsEmpty /\ PrevIndex(front) \in 0 .. cap - 1
        /\ Stored(PrevIndex(front), PrevIndex(front), back, v) /\ UNCHANGED out
    BY <1>1, <1>2, Neighbours DEF PushFront, IInv
  <2>2. \A j \in 0 .. cap - 1 :
            InRing(j, PrevIndex(front), back) /\ j # PrevIndex(front) => InRing(j, front, back)
    BY <1>0, <1>1, <2>1 DEF PrevIndex, InRing, DequeLen
  <2>. QED BY <1>1, <2>1, <2>2, StoredKeeps
<1>3. ASSUME NEW v \in Values, PushBack(v) PROVE IInv'
  <2> DEFINE f == IF IsEmpty THEN 0 ELSE front
  <2>1. /\ f \in 0 .. cap - 1 /\ NextIndex(back) \in 0 .. cap - 1
        /\ Stored(NextIndex(back), f, NextIndex(back), v) /\ UNCHANGED out
    BY <1>0, <1>1, <1>3, Neighbours DEF PushBack, IInv
  <2>2. CASE IsEmpty
    <3>1. NextIndex(back) = 0 /\ f = 0
      BY <1>0, <2>2 DEF NextIndex, IsEmpty
    <3>2. \A j \in 0 .. cap - 1 : ~(InRing(j, 0, 0) /\ j # 0)
      BY <1>0 DEF InRing
    <3>. QED BY <2>1, <3>1, <3>2, StoredKeeps
  <2>3. CASE ~IsEmpty
    <3>1. \A j \in 0 .. cap - 1 :
            InRing(j, front, NextIndex(back)) /\ j # NextIndex(back) => InRing(j, front, back)
      BY <1>0, <1>1, <2>3 DEF NextIndex, InRing, DequeLen
    <3>. QED BY <1>1, <2>1, <2>3, <3>1, StoredKeeps
  <2>. QED BY <2>2, <2>3
<1>4. CASE PopFront
  <2>1. CASE IsEmpty
    BY <1>4, <2>1, InPlaceKeeps DEF PopFront
  <2>2. CASE ~IsEmpty
    BY <1>1, <1>4, <2>2, ShrunkKeeps DEF PopFront
  <2>. QED BY <2>1, <2>2
<1>5. CASE PopBack
  <2>1. CASE IsEmpty
    BY <1>5, <2>1, InPlaceKeeps DEF PopBack
  <2>2. CASE ~IsEmpty
    BY <1>1, <1>5, <2>2, ShrunkKeeps DEF PopBack
  <2>. QED BY <2>1, <2>2
<1>6. CASE Peek
  BY <1>1, <1>6, InPlaceKeeps DEF Peek
<1>7. ASSUME NEW i \in Idx, Get(i) \/ \E v \in Values : Set(i, v) PROVE IInv'
  <2>1. /\ ~IsEmpty /\ i < DequeLen(front, back, cap) /\ ArrayIndex(i) < cap
        /\ out' = cell[ArrayIndex(i)] /\ UNCHANGED <<cap, front, back>>
    BY <1>7 DEF Get, Set
  <2>2. ArrayIndex(i) \in 0 .. cap - 1 /\ InRing(ArrayIndex(i), front, back)
    BY <1>0, <1>1, <2>1 DEF ArrayIndex, InRing, DequeLen, Idx
  <2>3. out' \in Values /\ ArrayIndex(i) \in Idx
    BY <1>0, <1>1, <2>1, <2>2
  <2>. QED BY <1>7, <2>1, <2>3, InPlaceKeeps DEF Get, Set
<1>8. CASE UNCHANGED vars
  BY <1>0, <1>8, InPlaceKeeps DEF vars
<1>. QED BY <1>2, <1>3, <1>4, <1>5, <1>6, <1>7, <1>8 DEF Next

\* The ring keeps its types, its free cell and its stored elements through any
\* series of calls.
THEOREM Inductive == Spec => []IInv
  BY InitInv, StepInv, PTL DEF Spec

\* Ends and capacity stay in range, and no call returns a cell that was never
\* stored.
THEOREM TypeCorrect == Spec => []TypeOK
  BY Inductive, PTL DEF IInv

\* One cell of the ring is free between calls, on every series of pushes and
\* pops at both ends and for every capacity.
THEOREM RingNeverFull == Spec => []NeverFull
  BY Inductive, PTL DEF IInv

-----------------------------------------------------------------------------
(* The ring as a sequence. *)

\* The cell of the i-th element of a ring that starts at f in a block of c cells.
At(f, i, c) == IF f + i - 1 < c THEN f + i - 1 ELSE f + i - 1 - c

\* The elements of the ring f..b in block d of c cells.
Ring(d, f, b, c) == [i \in 1 .. DequeLen(f, b, c) |-> d[At(f, i, c)]]

\* The cells after and before cell i in a block of c cells.
After(i, c) == IF i + 1 = c THEN 0 ELSE i + 1
Before(i, c) == IF i = 0 THEN c - 1 ELSE i - 1

\* A function with another value at i.
Put(d, i, v) == [d EXCEPT ![i] = v]

\* The cells of the ring f..b were stored.
Filled(d, f, b, c) == \A j \in 0 .. c - 1 : InRing(j, f, b) => d[j] \in Values

\* Two sequences are one if they have the same elements.
LEMMA SameElements ==
    ASSUME NEW S, NEW x \in Seq(S), NEW y \in Seq(S), Len(x) = Len(y),
           \A i \in 1 .. Len(x) : x[i] = y[i]
    PROVE  x = y
  OBVIOUS

\* An index that is past the end by less than a block wraps once.
LEMMA Wraps ==
    ASSUME NEW c \in Nat \ {0}, NEW x \in 0 .. 2 * c - 1
    PROVE  x % c = IF x < c THEN x ELSE x - c
  OBVIOUS

\* The index of an element, with the code's test and as a remainder.
LEMMA RingByRemainder ==
    ASSUME NEW c \in Nat, NEW f \in 0 .. c - 1, NEW b \in 0 .. c - 1, NEW d
    PROVE  [i \in 1 .. DequeLen(f, b, c) |-> d[(f + i - 1) % c]] = Ring(d, f, b, c)
<1>1. DequeLen(f, b, c) \in 1 .. c /\ c \in Nat \ {0}
  BY RingLength
<1>2. ASSUME NEW i \in 1 .. DequeLen(f, b, c)
      PROVE  (f + i - 1) % c = At(f, i, c)
  <2> DEFINE x == f + i - 1
  <2>1. x \in 0 .. 2 * c - 1
    BY <1>1
  <2>2. At(f, i, c) = IF x < c THEN x ELSE x - c
    BY <1>1 DEF At
  <2> HIDE DEF x
  <2>3. x % c = IF x < c THEN x ELSE x - c
    BY <1>1, <2>1, Wraps
  <2>4. x % c = At(f, i, c)
    BY <2>2, <2>3
  <2> QED BY <2>4 DEF x
<1> QED BY <1>2 DEF Ring

\* Contents are the ring's elements, before and after a step.
LEMMA ContentsIsRing ==
    /\ IInv => Contents = IF IsEmpty THEN << >> ELSE Ring(cell, front, back, cap)
    /\ IInv' => Contents' = IF front' = -1 THEN << >> ELSE Ring(cell', front', back', cap')
<1>1. ASSUME IInv
      PROVE  Contents = IF IsEmpty THEN << >> ELSE Ring(cell, front, back, cap)
  <2>1. ~IsEmpty => cap \in Nat /\ front \in 0 .. cap - 1 /\ back \in 0 .. cap - 1
    BY <1>1, DequeAssumption DEF IInv, TypeOK, IsEmpty
  <2> QED BY <2>1, RingByRemainder DEF Contents
<1>2. ASSUME IInv'
      PROVE  Contents' = IF front' = -1 THEN << >> ELSE Ring(cell', front', back', cap')
  <2>1. front' # -1 => cap' \in Nat /\ front' \in 0 .. cap' - 1 /\ back' \in 0 .. cap' - 1
    <3>1. TypeOK'
      BY <1>2 DEF IInv
    <3>2. /\ cap' \in 1 .. MaxCap
          /\ front' \in -1 .. cap' - 1 /\ back' \in -1 .. cap' - 1
          /\ front' = -1 <=> back' = -1
      BY <3>1 DEF TypeOK
    <3>3. \A c, f, b : /\ c \in 1 .. MaxCap
                       /\ f \in -1 .. c - 1 /\ b \in -1 .. c - 1 /\ (f = -1 <=> b = -1)
                       => (f # -1 => c \in Nat /\ f \in 0 .. c - 1 /\ b \in 0 .. c - 1)
      BY DequeAssumption
    <3> QED BY <3>2, <3>3
  <2> QED BY <2>1, RingByRemainder DEF Contents, IsEmpty
<1> QED BY <1>1, <1>2

\* A ring of stored cells is a sequence of values, which starts at f and ends at b.
LEMMA RingIsSeq ==
    ASSUME NEW c \in Nat, NEW f \in 0 .. c - 1, NEW b \in 0 .. c - 1, NEW d,
           Filled(d, f, b, c)
    PROVE  /\ Ring(d, f, b, c) \in Seq(Values) /\ Len(Ring(d, f, b, c)) = DequeLen(f, b, c)
           /\ DequeLen(f, b, c) \in 1 .. c
           /\ \A i \in 1 .. DequeLen(f, b, c) :
                Ring(d, f, b, c)[i] = d[At(f, i, c)] /\ At(f, i, c) \in 0 .. c - 1
           /\ At(f, 1, c) = f /\ At(f, DequeLen(f, b, c), c) = b
<1> DEFINE n == DequeLen(f, b, c)
<1>1. n \in 1 .. c
  BY RingLength
<1>2. ASSUME NEW i \in 1 .. n
      PROVE  At(f, i, c) \in 0 .. c - 1 /\ InRing(At(f, i, c), f, b)
  <2>1. i \in Int /\ 1 <= i /\ i <= n
    BY <1>1
  <2> QED BY <2>1 DEF At, InRing, DequeLen
<1>3. At(f, 1, c) = f /\ At(f, n, c) = b
  BY DEF At, DequeLen
<1> HIDE DEF n
<1>4. \A i \in 1 .. n : d[At(f, i, c)] \in Values
  BY <1>2 DEF Filled
<1>5. Ring(d, f, b, c) = [i \in 1 .. n |-> d[At(f, i, c)]]
  BY DEF Ring, n
<1>6. Ring(d, f, b, c) \in [1 .. n -> Values]
  BY <1>4, <1>5
<1>7. n \in Nat
  BY <1>1
<1>8. Ring(d, f, b, c) \in Seq(Values) /\ Len(Ring(d, f, b, c)) = n
  BY <1>6, <1>7
<1> QED BY <1>1, <1>2, <1>3, <1>5, <1>8 DEF n

\* Different elements have different cells.
LEMMA Apart ==
    ASSUME NEW c \in Nat, NEW f \in 0 .. c - 1, NEW i \in 1 .. c, NEW j \in 1 .. c, i # j
    PROVE  At(f, i, c) # At(f, j, c)
  BY DEF At

\* A growth moves the ring to the start of the new block.
LEMMA UnwrappedRing ==
    ASSUME NEW c \in 1 .. MaxCap, NEW f \in 0 .. c - 1, NEW b \in 0 .. c - 1, NEW d,
           Filled(d, f, b, c),
           NEW n \in Nat, DequeLen(f, b, c) < n
    PROVE  Ring(Unwrapped(d, f, b, c), 0, DequeLen(f, b, c) - 1, n) = Ring(d, f, b, c)
<1> DEFINE l == DequeLen(f, b, c)
           e == Unwrapped(d, f, b, c)
<1>1. l \in 1 .. c /\ c \in Nat /\ MaxCap \in Nat /\ l < n
  BY RingLength, DequeAssumption
<1>2. DequeLen(0, l - 1, n) = l
  BY <1>1 DEF DequeLen
<1>3. e = [i \in Idx |-> IF i >= l THEN Junk ELSE IF f + i < c THEN d[f + i] ELSE d[f + i - c]]
  BY DEF Unwrapped
<1> HIDE DEF l, e
<1>4. ASSUME NEW i \in 1 .. l PROVE e[At(0, i, n)] = d[At(f, i, c)]
  <2>1. At(0, i, n) = i - 1 /\ i - 1 \in Idx /\ ~(i - 1 >= l)
    BY <1>1 DEF At, Idx
  <2>2. e[i - 1] = IF f + (i - 1) < c THEN d[f + (i - 1)] ELSE d[f + (i - 1) - c]
    BY <1>3, <2>1
  <2>3. f + (i - 1) = f + i - 1
    BY <1>1
  <2> QED BY <2>1, <2>2, <2>3 DEF At
<1>5. Ring(e, 0, l - 1, n) = [i \in 1 .. l |-> e[At(0, i, n)]]
  BY <1>2 DEF Ring
<1>6. Ring(d, f, b, c) = [i \in 1 .. l |-> d[At(f, i, c)]]
  BY DEF Ring, l
<1> QED BY <1>4, <1>5, <1>6 DEF l, e

\* What the end of a push leaves is the ring it stored its element in.
LEMMA StoredRing ==
    ASSUME IInv, NEW v \in Values,
           NEW f \in 0 .. cap - 1, NEW b \in 0 .. cap - 1, NEW i \in 0 .. cap - 1,
           \A j \in 0 .. cap - 1 : InRing(j, f, b) /\ j # i => cell[j] \in Values,
           Stored(i, f, b, v), IInv'
    PROVE  Contents' = Ring([cell EXCEPT ![i] = v], f, b, cap)
<1> DEFINE d == [cell EXCEPT ![i] = v]
           l == DequeLen(f, b, cap)
<1>0. /\ cap \in 1 .. MaxCap /\ MaxCap \in Nat /\ cap \in Nat
      /\ cell \in [Idx -> Values \cup {Junk}] /\ 0 .. cap - 1 \subseteq Idx
  BY DequeAssumption DEF IInv, TypeOK, Idx
<1>1. Filled(d, f, b, cap)
  BY <1>0 DEF Filled
<1>2. l \in 1 .. cap
  BY <1>0, RingLength
<1>3. Contents' = IF front' = -1 THEN << >> ELSE Ring(cell', front', back', cap')
  BY ContentsIsRing
<1>4. CASE l # cap /\ cell' = d /\ front' = f /\ back' = b /\ UNCHANGED cap
  <2>1. front' # -1
    BY <1>0, <1>4
  <2> QED BY <1>3, <1>4, <2>1
<1>5. CASE /\ l = cap /\ GrownCap(cap, cap + 1) <= MaxCap
           /\ cap' = GrownCap(cap, cap + 1)
           /\ cell' = Unwrapped(d, f, b, cap)
           /\ front' = 0 /\ back' = l - 1
  <2>1. cap' \in Nat /\ l < cap'
    BY <1>0, <1>5, GrownCapGrows
  <2>2. Contents' = Ring(Unwrapped(d, f, b, cap), 0, l - 1, cap')
    BY <1>3, <1>5
  <2> HIDE DEF d
  <2>3. Ring(Unwrapped(d, f, b, cap), 0, l - 1, cap') = Ring(d, f, b, cap)
    BY <1>0, <1>1, <2>1, UnwrappedRing
  <2> QED BY <2>2, <2>3 DEF d
<1> QED BY <1>4, <1>5 DEF Stored

\* One element more behind the last one.
LEMMA RingPushedBack ==
    ASSUME NEW c \in 1 .. MaxCap, NEW f \in 0 .. c - 1, NEW b \in 0 .. c - 1, NEW d \in [Idx -> Values \cup {Junk}],
           Filled(d, f, b, c),
           DequeLen(f, b, c) < c,
           NEW v \in Values
    PROVE  Ring(Put(d, After(b, c), v), f, After(b, c), c) = Append(Ring(d, f, b, c), v)
<1> DEFINE i == After(b, c)
           l == DequeLen(f, b, c)
           e == [d EXCEPT ![i] = v]
           w == Ring(d, f, b, c)
           x == Ring(e, f, i, c)
<1>0. c \in Nat /\ MaxCap \in Nat /\ c <= MaxCap /\ i \in 0 .. c - 1 /\ i \in Idx
      /\ i = (IF b + 1 = c THEN 0 ELSE b + 1)
  BY DequeAssumption DEF Idx, After
<1> HIDE DEF i
<1>1. /\ w \in Seq(Values) /\ Len(w) = l /\ l \in 1 .. c
      /\ \A j \in 1 .. l : w[j] = d[At(f, j, c)] /\ At(f, j, c) \in 0 .. c - 1
  BY <1>0, RingIsSeq
<1>2. DequeLen(f, i, c) = l + 1
  BY <1>0 DEF DequeLen
<1>3. At(f, l + 1, c) = i
  BY <1>0, <1>2 DEF At, DequeLen
<1>4. x = [j \in 1 .. l + 1 |-> e[At(f, j, c)]]
  BY <1>2 DEF Ring
<1>5. e[i] = v /\ \A j \in 0 .. c - 1 : j # i => e[j] = d[j]
  BY <1>0 DEF Idx
<1>6. \A j \in 1 .. l : At(f, j, c) # i
  <2> TAKE j \in 1 .. l
  <2>1. l + 1 \in 1 .. c /\ j \in 1 .. c /\ j # l + 1
    BY <1>1
  <2> DEFINE m == l + 1
  <2>2. m \in 1 .. c /\ j # m /\ At(f, m, c) = i
    BY <1>3, <2>1
  <2> HIDE DEF m
  <2> QED BY <1>0, <2>1, <2>2, Apart
<1> HIDE DEF e, w, x, l
<1>7. \A j \in 1 .. l : e[At(f, j, c)] = w[j]
  BY <1>1, <1>5, <1>6
<1>8. l \in Nat
  BY <1>1
<1>9. x \in Seq(Values) /\ Len(x) = l + 1 /\ x[l + 1] = v /\ \A j \in 1 .. l : x[j] = w[j]
  <2>1. \A j \in 1 .. l : w[j] \in Values
    BY <1>1
  <2>2. \A j \in 1 .. l + 1 : j \in 1 .. l \/ j = l + 1
    BY <1>8
  <2>3. \A j \in 1 .. l + 1 : e[At(f, j, c)] \in Values
    BY <1>3, <1>5, <1>7, <2>1, <2>2
  <2>4. x \in [1 .. l + 1 -> Values]
    BY <1>4, <2>3
  <2>5. l + 1 \in Nat /\ l + 1 \in 1 .. l + 1 /\ \A j \in 1 .. l : j \in 1 .. l + 1
    BY <1>8
  <2>6. x \in Seq(Values) /\ Len(x) = l + 1
    BY <2>4, <2>5
  <2> QED BY <1>3, <1>4, <1>5, <1>7, <2>5, <2>6
<1>10. x = Append(w, v)
  BY <1>1, <1>9
<1> QED BY <1>10 DEF w, x, e, i, Put

\* One element more before the first one.
LEMMA RingPushedFront ==
    ASSUME NEW c \in 1 .. MaxCap, NEW f \in 0 .. c - 1, NEW b \in 0 .. c - 1, NEW d \in [Idx -> Values \cup {Junk}],
           Filled(d, f, b, c),
           DequeLen(f, b, c) < c,
           NEW v \in Values
    PROVE  Ring(Put(d, Before(f, c), v), Before(f, c), b, c) = <<v>> \o Ring(d, f, b, c)
<1> DEFINE i == Before(f, c)
           l == DequeLen(f, b, c)
           e == [d EXCEPT ![i] = v]
           w == Ring(d, f, b, c)
           x == Ring(e, i, b, c)
<1>0. c \in Nat /\ MaxCap \in Nat /\ c <= MaxCap /\ i \in 0 .. c - 1 /\ i \in Idx
      /\ i = (IF f = 0 THEN c - 1 ELSE f - 1)
  BY DequeAssumption DEF Idx, Before
<1> HIDE DEF i
<1>1. /\ w \in Seq(Values) /\ Len(w) = l /\ l \in 1 .. c
      /\ \A j \in 1 .. l : w[j] = d[At(f, j, c)] /\ At(f, j, c) \in 0 .. c - 1
  BY <1>0, RingIsSeq
<1>2. DequeLen(i, b, c) = l + 1
  BY <1>0 DEF DequeLen
<1>3. At(i, 1, c) = i /\ \A j \in 1 .. l : At(i, j + 1, c) = At(f, j, c)
  BY <1>0, <1>1 DEF At
<1>4. x = [j \in 1 .. l + 1 |-> e[At(i, j, c)]]
  BY <1>2 DEF Ring
<1>5. e[i] = v /\ \A j \in 0 .. c - 1 : j # i => e[j] = d[j]
  BY <1>0 DEF Idx
<1>6. \A j \in 1 .. l : At(f, j, c) # i
  <2> TAKE j \in 1 .. l
  <2> QED BY <1>0, <1>1, <1>2 DEF At, DequeLen
<1> HIDE DEF e, w, x, l
<1>7. \A j \in 1 .. l : e[At(f, j, c)] = w[j]
  BY <1>1, <1>5, <1>6
<1>8. l \in Nat
  BY <1>1
<1>9. x[1] = v /\ \A j \in 1 .. l : x[j + 1] = w[j]
  <2>1. 1 \in 1 .. l + 1 /\ \A j \in 1 .. l : j + 1 \in 1 .. l + 1
    BY <1>8
  <2> QED BY <1>3, <1>4, <1>5, <1>7, <2>1
<1>10. x \in Seq(Values) /\ Len(x) = l + 1
  <2>1. \A j \in 1 .. l : w[j] \in Values
    BY <1>1
  <2>2. \A j \in 1 .. l + 1 : j = 1 \/ (j - 1 \in 1 .. l /\ (j - 1) + 1 = j)
    BY <1>8
  <2>3. \A j \in 1 .. l + 1 : x[j] \in Values
    BY <1>9, <2>1, <2>2
  <2>4. x \in [1 .. l + 1 -> Values]
    BY <1>4, <2>3
  <2>5. l + 1 \in Nat
    BY <1>8
  <2> QED BY <2>4, <2>5
<1> DEFINE y == <<v>> \o w
<1>11. y \in Seq(Values) /\ Len(y) = l + 1 /\ y[1] = v /\ \A j \in 1 .. l : y[j + 1] = w[j]
  BY <1>1
<1> HIDE DEF y
<1>12. \A j \in 1 .. l + 1 : x[j] = y[j]
  <2> TAKE j \in 1 .. l + 1
  <2>1. j = 1 \/ (j - 1 \in 1 .. l /\ (j - 1) + 1 = j)
    BY <1>8
  <2> QED BY <1>9, <1>11, <2>1
<1>13. x = y
  BY <1>10, <1>11, <1>12, SameElements
<1> QED BY <1>13 DEF w, x, y, e, i, Put

\* One element less at the front.
LEMMA RingPoppedFront ==
    ASSUME NEW c \in Nat, NEW f \in 0 .. c - 1, NEW b \in 0 .. c - 1, f # b, NEW d,
           Filled(d, f, b, c)
    PROVE  Ring(d, After(f, c), b, c) = Tail(Ring(d, f, b, c))
<1> DEFINE i == After(f, c)
           l == DequeLen(f, b, c)
           w == Ring(d, f, b, c)
           x == Ring(d, i, b, c)
<1>0. i \in 0 .. c - 1 /\ i = (IF f + 1 = c THEN 0 ELSE f + 1)
  BY DEF After
<1> HIDE DEF i
<1>1. /\ w \in Seq(Values) /\ Len(w) = l /\ l \in 1 .. c
      /\ \A j \in 1 .. l : w[j] = d[At(f, j, c)]
  <2>1. /\ Ring(d, f, b, c) \in Seq(Values) /\ Len(Ring(d, f, b, c)) = DequeLen(f, b, c)
        /\ DequeLen(f, b, c) \in 1 .. c
        /\ \A j \in 1 .. DequeLen(f, b, c) : Ring(d, f, b, c)[j] = d[At(f, j, c)]
    BY RingIsSeq
  <2> QED BY <2>1
<1>2. DequeLen(i, b, c) = l - 1 /\ l - 1 \in 1 .. c
  BY <1>0 DEF DequeLen
<1>3. \A j \in 1 .. l - 1 : At(i, j, c) = At(f, j + 1, c)
  BY <1>0, <1>1 DEF At
<1>4. x = [j \in 1 .. l - 1 |-> d[At(i, j, c)]]
  BY <1>2 DEF Ring
<1> HIDE DEF w, x, l
<1>5. \A j \in 1 .. l - 1 : x[j] = w[j + 1] /\ w[j + 1] \in Values
  <2> TAKE j \in 1 .. l - 1
  <2>1. j + 1 \in 1 .. l
    BY <1>1
  <2> QED BY <1>1, <1>3, <1>4, <2>1
<1>6. x \in Seq(Values) /\ Len(x) = l - 1
  <2>1. x \in [1 .. l - 1 -> Values]
    BY <1>4, <1>5
  <2>2. l - 1 \in Nat
    BY <1>1
  <2> QED BY <2>1, <2>2
<1> DEFINE y == Tail(w)
<1>7. y \in Seq(Values) /\ Len(y) = l - 1 /\ \A j \in 1 .. l - 1 : y[j] = w[j + 1]
  BY <1>1
<1> HIDE DEF y
<1>8. x = y
  BY <1>5, <1>6, <1>7, SameElements
<1> QED BY <1>8 DEF w, x, y, i

\* A sequence without its last element.
AllButLast(w) == SubSeq(w, 1, Len(w) - 1)

\* One element less at the back.
LEMMA RingPoppedBack ==
    ASSUME NEW c \in Nat, NEW f \in 0 .. c - 1, NEW b \in 0 .. c - 1, f # b, NEW d,
           Filled(d, f, b, c)
    PROVE  Ring(d, f, Before(b, c), c) = AllButLast(Ring(d, f, b, c))
<1> DEFINE i == Before(b, c)
           l == DequeLen(f, b, c)
           w == Ring(d, f, b, c)
           x == Ring(d, f, i, c)
<1>0. i \in 0 .. c - 1 /\ i = (IF b = 0 THEN c - 1 ELSE b - 1)
  BY DEF Before
<1> HIDE DEF i
<1>1. /\ w \in Seq(Values) /\ Len(w) = l /\ l \in 1 .. c
      /\ \A j \in 1 .. l : w[j] = d[At(f, j, c)]
  <2>1. /\ Ring(d, f, b, c) \in Seq(Values) /\ Len(Ring(d, f, b, c)) = DequeLen(f, b, c)
        /\ DequeLen(f, b, c) \in 1 .. c
        /\ \A j \in 1 .. DequeLen(f, b, c) : Ring(d, f, b, c)[j] = d[At(f, j, c)]
    BY RingIsSeq
  <2> QED BY <2>1
<1>2. DequeLen(f, i, c) = l - 1 /\ l - 1 \in 1 .. c
  BY <1>0 DEF DequeLen
<1>4. x = [j \in 1 .. l - 1 |-> d[At(f, j, c)]]
  BY <1>2 DEF Ring
<1> HIDE DEF w, x, l
<1>5. \A j \in 1 .. l - 1 : x[j] = w[j] /\ w[j] \in Values
  <2> TAKE j \in 1 .. l - 1
  <2>1. j \in 1 .. l
    BY <1>1
  <2> QED BY <1>1, <1>4, <2>1
<1>6. x \in Seq(Values) /\ Len(x) = l - 1
  <2>1. x \in [1 .. l - 1 -> Values]
    BY <1>4, <1>5
  <2>2. l - 1 \in Nat
    BY <1>1
  <2> QED BY <2>1, <2>2
<1> DEFINE y == SubSeq(w, 1, l - 1)
<1>7. y \in Seq(Values) /\ Len(y) = l - 1 /\ \A j \in 1 .. l - 1 : y[j] = w[j]
  BY <1>1
<1> HIDE DEF y
<1>8. x = y
  BY <1>5, <1>6, <1>7, SameElements
<1> QED BY <1>1, <1>8 DEF w, x, y, l, i, AllButLast

\* Another element in one place.
LEMMA RingSet ==
    ASSUME NEW c \in 1 .. MaxCap, NEW f \in 0 .. c - 1, NEW b \in 0 .. c - 1, NEW d \in [Idx -> Values \cup {Junk}],
           Filled(d, f, b, c),
           NEW k \in 1 .. DequeLen(f, b, c), NEW v
    PROVE  Ring(Put(d, At(f, k, c), v), f, b, c) = Put(Ring(d, f, b, c), k, v)
<1> DEFINE l == DequeLen(f, b, c)
           i == At(f, k, c)
           e == [d EXCEPT ![i] = v]
<1>0. c \in Nat /\ MaxCap \in Nat /\ c <= MaxCap /\ 0 .. c - 1 \subseteq Idx
  BY DequeAssumption DEF Idx
<1>1. l \in 1 .. c /\ \A j \in 1 .. l : At(f, j, c) \in 0 .. c - 1
  BY <1>0, RingIsSeq
<1>2. \A j \in 1 .. l : j # k => At(f, j, c) # i
  <2> TAKE j \in 1 .. l
  <2>1. j \in 1 .. c /\ k \in 1 .. c
    BY <1>1
  <2> QED BY <1>0, <2>1, Apart
<1>3. Ring(d, f, b, c) = [j \in 1 .. l |-> d[At(f, j, c)]]
      /\ Ring(e, f, b, c) = [j \in 1 .. l |-> e[At(f, j, c)]]
  BY DEF Ring
<1>4. i \in Idx /\ k \in 1 .. l /\ \A j \in 1 .. l : At(f, j, c) \in Idx
  BY <1>0, <1>1
<1> HIDE DEF l, i
<1>5. \A j \in 1 .. l : e[At(f, j, c)] = IF j = k THEN v ELSE d[At(f, j, c)]
  BY <1>2, <1>4 DEF i
<1> HIDE DEF e
<1>6. Ring(e, f, b, c) = [Ring(d, f, b, c) EXCEPT ![k] = v]
  BY <1>3, <1>4, <1>5
<1> QED BY <1>6 DEF e, i, Put

-----------------------------------------------------------------------------
(* The ring is the queue. *)

\* A deque that is not empty: its ring.
LEMMA RingFacts ==
    ASSUME IInv, ~IsEmpty
    PROVE  /\ cap \in 1 .. MaxCap /\ cap \in Nat
           /\ front \in 0 .. cap - 1 /\ back \in 0 .. cap - 1
           /\ cell \in [Idx -> Values \cup {Junk}]
           /\ DequeLen(front, back, cap) < cap
           /\ Filled(cell, front, back, cap)
           /\ Contents = Ring(cell, front, back, cap)
           /\ Contents \in Seq(Values) /\ Len(Contents) = DequeLen(front, back, cap)
           /\ Len(Contents) \in 1 .. cap /\ Contents # << >>
           /\ Contents[1] = cell[front] /\ Contents[Len(Contents)] = cell[back]
<1>1. /\ cap \in 1 .. MaxCap /\ cap \in Nat
      /\ front \in 0 .. cap - 1 /\ back \in 0 .. cap - 1
      /\ cell \in [Idx -> Values \cup {Junk}]
      /\ DequeLen(front, back, cap) < cap
      /\ Filled(cell, front, back, cap)
  BY DequeAssumption DEF IInv, TypeOK, IsEmpty, NeverFull, RingStored, Filled
<1>2. Contents = Ring(cell, front, back, cap)
  BY ContentsIsRing
<1> DEFINE w == Ring(cell, front, back, cap)
           l == DequeLen(front, back, cap)
<1>3. /\ w \in Seq(Values) /\ Len(w) = l /\ l \in 1 .. cap
      /\ \A i \in 1 .. l : w[i] = cell[At(front, i, cap)]
      /\ At(front, 1, cap) = front /\ At(front, l, cap) = back
  BY <1>1, RingIsSeq
<1> HIDE DEF w, l
<1>4. 1 \in 1 .. l /\ l \in 1 .. l
  BY <1>3
<1>5. w[1] = cell[front] /\ w[l] = cell[back]
  BY <1>3, <1>4
<1>6. w # << >>
  BY <1>3
<1> QED BY <1>1, <1>2, <1>3, <1>5, <1>6 DEF w, l

\* A block without elements is the empty queue.
LEMMA EmptyFacts ==
    ASSUME IInv, IsEmpty
    PROVE  Contents = << >> /\ back = -1 /\ cap \in 1 .. MaxCap /\ cap \in Nat
  BY DequeAssumption DEF Contents, IsEmpty, IInv, TypeOK

\* deque_push_front is the queue's.
LEMMA PushFrontRefines ==
    ASSUME IInv, IInv', NEW v \in Values, PushFront(v)
    PROVE  Contents' = <<v>> \o Contents
<1> DEFINE i == PrevIndex(front)
<1>1. ~IsEmpty /\ Stored(i, i, back, v)
  BY DEF PushFront
<1>2. /\ cap \in 1 .. MaxCap /\ cap \in Nat
      /\ front \in 0 .. cap - 1 /\ back \in 0 .. cap - 1
      /\ cell \in [Idx -> Values \cup {Junk}]
      /\ DequeLen(front, back, cap) < cap
      /\ Filled(cell, front, back, cap)
      /\ Contents = Ring(cell, front, back, cap)
  BY <1>1, RingFacts
<1>3. /\ i \in 0 .. cap - 1 /\ i = Before(front, cap)
      /\ i = (IF front = 0 THEN cap - 1 ELSE front - 1)
  BY <1>2 DEF PrevIndex, Before
<1> HIDE DEF i
<1>4. \A j \in 0 .. cap - 1 : InRing(j, i, back) /\ j # i => cell[j] \in Values
  <2>1. \A j \in 0 .. cap - 1 : InRing(j, i, back) /\ j # i => InRing(j, front, back)
    BY <1>2, <1>3 DEF InRing, DequeLen
  <2> QED BY <1>2, <2>1 DEF Filled
<1>5. Contents' = Ring([cell EXCEPT ![i] = v], i, back, cap)
  BY <1>1, <1>2, <1>3, <1>4, StoredRing
<1>6. Ring(Put(cell, Before(front, cap), v), Before(front, cap), back, cap)
        = <<v>> \o Ring(cell, front, back, cap)
  BY <1>2, RingPushedFront
<1> QED BY <1>2, <1>3, <1>5, <1>6 DEF Put

\* So is deque_push_back, on an empty deque too.
LEMMA PushBackRefines ==
    ASSUME IInv, IInv', NEW v \in Values, PushBack(v)
    PROVE  Contents' = Append(Contents, v)
<1> DEFINE i == NextIndex(back)
<1>1. Stored(i, IF IsEmpty THEN 0 ELSE front, i, v)
  BY DEF PushBack
<1>2. CASE ~IsEmpty
  <2>1. /\ cap \in 1 .. MaxCap /\ cap \in Nat
        /\ front \in 0 .. cap - 1 /\ back \in 0 .. cap - 1
        /\ cell \in [Idx -> Values \cup {Junk}]
        /\ DequeLen(front, back, cap) < cap
        /\ Filled(cell, front, back, cap)
        /\ Contents = Ring(cell, front, back, cap)
    BY <1>2, RingFacts
  <2>2. /\ i \in 0 .. cap - 1 /\ i = After(back, cap)
        /\ i = (IF back + 1 = cap THEN 0 ELSE back + 1)
    BY <2>1 DEF NextIndex, After
  <2>3. Stored(i, front, i, v)
    BY <1>1, <1>2
  <2> HIDE DEF i
  <2>4. \A j \in 0 .. cap - 1 : InRing(j, front, i) /\ j # i => cell[j] \in Values
    <3>1. \A j \in 0 .. cap - 1 : InRing(j, front, i) /\ j # i => InRing(j, front, back)
      BY <2>1, <2>2 DEF InRing, DequeLen
    <3> QED BY <2>1, <3>1 DEF Filled
  <2>5. Contents' = Ring([cell EXCEPT ![i] = v], front, i, cap)
    BY <2>1, <2>2, <2>3, <2>4, StoredRing
  <2>6. Ring(Put(cell, After(back, cap), v), front, After(back, cap), cap)
          = Append(Ring(cell, front, back, cap), v)
    BY <2>1, RingPushedBack
  <2> QED BY <2>1, <2>2, <2>5, <2>6 DEF Put
<1>3. CASE IsEmpty
  <2>1. Contents = << >> /\ back = -1 /\ cap \in 1 .. MaxCap /\ cap \in Nat
    BY <1>3, EmptyFacts
  <2>2. i = 0 /\ 0 \in 0 .. cap - 1 /\ 0 \in Idx
    BY <2>1, DequeAssumption DEF NextIndex, Idx
  <2>3. Stored(0, 0, 0, v)
    BY <1>1, <1>3, <2>2
  <2>4. \A j \in 0 .. cap - 1 : InRing(j, 0, 0) /\ j # 0 => cell[j] \in Values
    BY <2>1 DEF InRing
  <2> DEFINE d == [cell EXCEPT ![0] = v]
  <2>5. Contents' = Ring(d, 0, 0, cap)
    BY <2>2, <2>3, <2>4, StoredRing
  <2>6. d[0] = v
    BY <2>2 DEF IInv, TypeOK
  <2>7. DequeLen(0, 0, cap) = 1 /\ At(0, 1, cap) = 0
    BY <2>1 DEF DequeLen, At
  <2> HIDE DEF d
  <2>8. Ring(d, 0, 0, cap) = [j \in 1 .. 1 |-> d[At(0, j, cap)]]
    BY <2>7 DEF Ring
  <2>9. \A j \in 1 .. 1 : d[At(0, j, cap)] = v
    <3>1. \A j \in 1 .. 1 : j = 1
      OBVIOUS
    <3> QED BY <2>6, <2>7, <3>1
  <2>10. Ring(d, 0, 0, cap) = [j \in 1 .. 1 |-> v]
    BY <2>8, <2>9
  <2>11. [j \in 1 .. 1 |-> v] = Append(<< >>, v)
    OBVIOUS
  <2> QED BY <2>1, <2>5, <2>10, <2>11
<1> QED BY <1>2, <1>3

\* Every call is the abstract queue's, or changes nothing it could tell.
LEMMA StepRefines == IInv /\ IInv' /\ [Next]_vars => [Queue!Next]_(Queue!vars)
<1> SUFFICES ASSUME IInv, IInv', [Next]_vars PROVE [Queue!Next]_(Queue!vars)
  OBVIOUS
<1>1. ASSUME NEW v \in Values, PushFront(v) PROVE Queue!PushFront(v)
  BY <1>1, PushFrontRefines DEF Queue!PushFront, PushFront
<1>2. ASSUME NEW v \in Values, PushBack(v) PROVE Queue!PushBack(v)
  BY <1>2, PushBackRefines DEF Queue!PushBack, PushBack
<1>3. ASSUME IsEmpty, PopFront \/ PopBack \/ Peek
      PROVE  Contents = << >> /\ Contents' = << >> /\ out' = NoValue
  BY <1>3, EmptyFacts DEF PopFront, PopBack, Peek, Contents, IsEmpty
<1>4. ASSUME ~IsEmpty, PopFront PROVE Queue!PopFront
  <2>1. out' = cell[front] /\ cap' = cap /\ cell' = cell
        /\ IF front = back THEN front' = -1 /\ back' = -1
           ELSE front' = NextIndex(front) /\ back' = back
    BY <1>4 DEF PopFront
  <2>2. /\ cap \in 1 .. MaxCap /\ cap \in Nat
        /\ front \in 0 .. cap - 1 /\ back \in 0 .. cap - 1
        /\ Filled(cell, front, back, cap)
        /\ Contents = Ring(cell, front, back, cap)
        /\ Contents \in Seq(Values) /\ Len(Contents) = DequeLen(front, back, cap)
        /\ Contents # << >> /\ Contents[1] = cell[front]
    BY <1>4, RingFacts
  <2>3. CASE front = back
    <3>1. Contents' = << >>
      BY <2>1, <2>3 DEF Contents, IsEmpty
    <3>2. Len(Contents) = 1
      BY <2>2, <2>3 DEF DequeLen
    <3> HIDE DEF Contents
    <3>3. Tail(Contents) = << >>
      <4>1. ASSUME NEW x \in Seq(Values), Len(x) = 1
            PROVE  Tail(x) = << >>
        <5>1. Tail(x) \in Seq(Values) /\ Len(Tail(x)) = 0
          BY <4>1
        <5>2. \A y \in Seq(Values) : Len(y) = 0 => y = << >>
          OBVIOUS
        <5> QED BY <5>1, <5>2
      <4> QED BY <2>2, <3>2, <4>1
    <3>4. Head(Contents) = Contents[1]
      BY <2>2
    <3> QED BY <2>1, <2>2, <3>1, <3>3, <3>4 DEF Queue!PopFront
  <2>4. CASE front # back
    <3> DEFINE i == NextIndex(front)
    <3>1. i = After(front, cap) /\ i # -1
      BY <2>2 DEF NextIndex, After
    <3>2. Contents' = Ring(cell, i, back, cap)
      BY <2>1, <2>4, <3>1, ContentsIsRing
    <3> HIDE DEF i
    <3>3. Ring(cell, i, back, cap) = Tail(Ring(cell, front, back, cap))
      BY <2>2, <2>4, <3>1, RingPoppedFront
    <3>4. Head(Contents) = Contents[1]
      BY <2>2
    <3> QED BY <2>1, <2>2, <3>2, <3>3, <3>4 DEF Queue!PopFront
  <2> QED BY <2>3, <2>4
<1>5. ASSUME ~IsEmpty, PopBack PROVE Queue!PopBack
  <2>1. out' = cell[back] /\ cap' = cap /\ cell' = cell
        /\ IF front = back THEN front' = -1 /\ back' = -1
           ELSE back' = PrevIndex(back) /\ front' = front
    BY <1>5 DEF PopBack
  <2>2. /\ cap \in 1 .. MaxCap /\ cap \in Nat
        /\ front \in 0 .. cap - 1 /\ back \in 0 .. cap - 1
        /\ Filled(cell, front, back, cap)
        /\ Contents = Ring(cell, front, back, cap)
        /\ Contents \in Seq(Values) /\ Len(Contents) = DequeLen(front, back, cap)
        /\ Contents # << >> /\ Contents[Len(Contents)] = cell[back]
    BY <1>5, RingFacts
  <2>3. CASE front = back
    <3>1. Contents' = << >>
      BY <2>1, <2>3 DEF Contents, IsEmpty
    <3>2. Len(Contents) = 1
      BY <2>2, <2>3 DEF DequeLen
    <3>3. SubSeq(Contents, 1, Len(Contents) - 1) = << >>
      <4>1. Len(Contents) - 1 = 0
        BY <3>2
      <4>2. \A x \in Seq(Values) : SubSeq(x, 1, 0) = << >>
        OBVIOUS
      <4> QED BY <2>2, <4>1, <4>2
    <3> QED BY <2>1, <2>2, <3>1, <3>3 DEF Queue!PopBack
  <2>4. CASE front # back
    <3> DEFINE i == PrevIndex(back)
    <3>1. i = Before(back, cap) /\ front # -1
      BY <2>2 DEF PrevIndex, Before
    <3>2. Contents' = Ring(cell, front, i, cap)
      BY <2>1, <2>4, <3>1, ContentsIsRing
    <3> HIDE DEF i
    <3>3. Ring(cell, front, i, cap) = AllButLast(Ring(cell, front, back, cap))
      BY <2>2, <2>4, <3>1, RingPoppedBack
    <3> QED BY <2>1, <2>2, <3>2, <3>3 DEF Queue!PopBack, AllButLast
  <2> QED BY <2>3, <2>4
<1>6. ASSUME ~IsEmpty, Peek PROVE Queue!Peek
  <2>1. Contents' = Contents
    BY <1>6 DEF Peek, Contents, IsEmpty
  <2>2. out' = cell[front] \/ out' = cell[back]
    BY <1>6 DEF Peek
  <2> QED BY <1>6, <2>1, <2>2, RingFacts DEF Queue!Peek
<1>7. ASSUME IsEmpty, PopFront \/ PopBack \/ Peek PROVE Queue!Next
  BY <1>3, <1>7 DEF Queue!Next, Queue!PopFront
<1>8. ASSUME NEW i \in Idx, Get(i) \/ \E v \in Values : Set(i, v) PROVE Queue!Next
  <2>1. /\ ~IsEmpty /\ i < DequeLen(front, back, cap) /\ ArrayIndex(i) < cap
        /\ out' = cell[ArrayIndex(i)] /\ UNCHANGED <<cap, front, back>>
    BY <1>8 DEF Get, Set
  <2>2. /\ cap \in 1 .. MaxCap /\ cap \in Nat
        /\ front \in 0 .. cap - 1 /\ back \in 0 .. cap - 1
        /\ cell \in [Idx -> Values \cup {Junk}]
        /\ Filled(cell, front, back, cap)
        /\ Contents = Ring(cell, front, back, cap)
        /\ Len(Contents) = DequeLen(front, back, cap) /\ Len(Contents) \in Nat
    BY <2>1, RingFacts
  <2> DEFINE k == i + 1
  <2>3. i \in 0 .. Len(Contents) /\ i < Len(Contents) /\ k \in 1 .. DequeLen(front, back, cap)
    BY <2>1, <2>2 DEF Idx
  <2>4. ArrayIndex(i) = At(front, k, cap)
    BY <2>1, <2>2, <2>3 DEF ArrayIndex, At
  <2>5. Values # {} 
    <3>1. front \in 0 .. cap - 1 /\ InRing(front, front, back)
      BY <2>2 DEF InRing
    <3> QED BY <2>2, <3>1 DEF Filled
  <2> HIDE DEF k
  <2>6. Contents[k] = cell[At(front, k, cap)]
    BY <2>2, <2>3, RingIsSeq
  <2>7. CASE Get(i)
    <3>1. Contents' = Contents
      BY <2>7 DEF Get, Contents, IsEmpty
    <3>2. Queue!Get(i)
      BY <2>1, <2>3, <2>4, <2>6, <3>1 DEF Queue!Get, k
    <3> QED BY <2>3, <2>5, <3>2 DEF Queue!Next
  <2>8. ASSUME NEW v \in Values, Set(i, v) PROVE Queue!Next
    <3>1. cell' = [cell EXCEPT ![At(front, k, cap)] = v]
      BY <2>4, <2>8 DEF Set
    <3>2. front' # -1 /\ front' = front /\ back' = back /\ cap' = cap
      BY <2>1, <2>2
    <3>3. Contents' = Ring([cell EXCEPT ![At(front, k, cap)] = v], front, back, cap)
      BY <3>1, <3>2, ContentsIsRing
    <3>6. Ring(Put(cell, At(front, k, cap), v), front, back, cap)
            = Put(Ring(cell, front, back, cap), k, v)
      BY <2>2, <2>3, RingSet
    <3>4. Contents' = [Contents EXCEPT ![k] = v]
      BY <2>2, <3>3, <3>6 DEF Put
    <3>5. Queue!Set(i, v)
      BY <2>1, <2>3, <2>4, <2>6, <3>4 DEF Queue!Set, k
    <3> QED BY <2>3, <3>5 DEF Queue!Next
  <2> QED BY <1>8, <2>7, <2>8
<1>9. CASE UNCHANGED vars
  BY <1>9 DEF vars, Queue!vars, Contents, IsEmpty
<1> QED BY <1>1, <1>2, <1>4, <1>5, <1>6, <1>7, <1>8, <1>9 DEF Next, Queue!Next

\* For every capacity limit and every set of values, the ring with its growths is
\* the double-ended queue deque.h promises, whose elements are the ring's.
THEOREM RingIsAQueue == Spec => QueueSpec
<1>1. Init => Queue!Init
  BY DEF Init, Queue!Init, Contents, IsEmpty
<1> QED BY <1>1, StepRefines, Inductive, PTL DEF Spec, QueueSpec, Queue!Spec

=============================================================================
