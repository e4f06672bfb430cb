--------------------------- MODULE Arrays_proofs ---------------------------
(***************************************************************************)
(* Theorems about Slice, and about CrbArrays on top of it.                   *)
(* The three invariants of Slice hold for every set of addresses, slices    *)
(* and variables and every block limit. None is inductive alone: a store    *)
(* keeps its type only inside a window that fits its array, a window's       *)
(* array stays allocated only because its count is its number of holders,   *)
(* and the count is a number only by the type. IInv is their conjunction.    *)
(* Under it, a slice acts as a sequence, its growth is its own business, and *)
(* no call writes outside a window.                                         *)
(* The size the collector goes by is never below what the arrays take,       *)
(* whatever is shared, grown and disposed of.  The accounting reads          *)
(* reference counts and capacities, so its invariant CInv stands on IInv: an *)
(* array that is taken off the books when its count is one has no other      *)
(* holder.  Each step's change of the number of cells is computed from the   *)
(* arrays it opens and frees.                                               *)
(***************************************************************************)
EXTENDS CrbArrays, FiniteSetTheorems, TLAPS

IInv == TypeOK /\ RefCountsHolders /\ WindowInArray

-----------------------------------------------------------------------------
(* What one holder's move does to the sets of holders. *)

\* An array has finitely many holders, before a step and after it.
LEMMA HoldersFinite ==
    ASSUME NEW a
    PROVE  IsFiniteSet(Holders(a)) /\ IsFiniteSet(Holders(a)')
<1>1. Holders(a) \subseteq Slices \cup Handles /\ Holders(a)' \subseteq Slices \cup Handles
    BY DEF Holders
<1>2. IsFiniteSet(Slices \cup Handles)
    BY SliceAssumption, FS_Union
<1> QED BY <1>1, <1>2, FS_Subset

\* One holder x more or less changes the number of holders by one.
LEMMA OneMore ==
    ASSUME NEW S, NEW x, IsFiniteSet(S)
    PROVE  /\ x \notin S => Cardinality(S \cup {x}) = Cardinality(S) + 1
           /\ x \in S => Cardinality(S \ {x}) = Cardinality(S) - 1
           /\ Cardinality(S) \in Nat
           /\ x \in S => Cardinality(S) > 0
           /\ (x \in S /\ Cardinality(S) = 1) => S = {x}
<1>1. Cardinality(S) \in Nat
    BY FS_CardinalityType
<1>2. Cardinality(S \cup {x}) = IF x \in S THEN Cardinality(S) ELSE Cardinality(S) + 1
    BY FS_AddElement
<1>3. Cardinality(S \ {x}) = IF x \in S THEN Cardinality(S) - 1 ELSE Cardinality(S)
    BY FS_RemoveElement
<1>4. ASSUME x \in S PROVE Cardinality(S) > 0
    BY <1>1, <1>4, FS_EmptySet
<1>5. ASSUME x \in S, Cardinality(S) = 1 PROVE S = {x}
    <2>1. IsFiniteSet(S \ {x}) /\ Cardinality(S \ {x}) = 0
        BY <1>3, <1>5, FS_RemoveElement
    <2> QED BY <2>1, <1>5, FS_EmptySet
<1> QED BY <1>1, <1>2, <1>3, <1>4, <1>5
\* When slice s alone changes its array, the array it leaves loses a holder
\* and the array it joins gains one.
LEMMA SliceMove ==
    ASSUME NEW s \in Slices, NEW b \in Arrays, handle' = handle,
           \A t \in Slices \ {s} : sli'[t].data = sli[t].data
    PROVE  Cardinality(Holders(b)') =
             Cardinality(Holders(b)) - (IF sli[s].data = b THEN 1 ELSE 0)
                                     + (IF sli'[s].data = b THEN 1 ELSE 0)
<1> DEFINE S == Holders(b) \ {s}
<1>1. s \notin Handles
    BY SliceAssumption
<1>2. s \in Holders(b) <=> sli[s].data = b
    BY <1>1 DEF Holders
<1>3. s \in Holders(b)' <=> sli'[s].data = b
    BY <1>1 DEF Holders
<1>4. Holders(b)' \ {s} = S
    BY DEF Holders
<1>5. IsFiniteSet(Holders(b))
    BY HoldersFinite
<1>6. IsFiniteSet(S)
    BY <1>5, FS_RemoveElement
<1>7. Holders(b) = IF sli[s].data = b THEN S \cup {s} ELSE S
    BY <1>2
<1>8. Holders(b)' = IF sli'[s].data = b THEN S \cup {s} ELSE S
    BY <1>3, <1>4
<1>9. s \notin S
    OBVIOUS
<1>10. /\ Cardinality(S \cup {s}) = Cardinality(S) + 1
       /\ Cardinality(S) \in Nat
    BY <1>6, <1>9, OneMore
<1> HIDE DEF S
<1> QED BY <1>7, <1>8, <1>10

\* The same for an ARRAY* variable.
LEMMA HandleMove ==
    ASSUME NEW h \in Handles, NEW b \in Arrays, sli' = sli,
           \A g \in Handles \ {h} : handle'[g] = handle[g]
    PROVE  Cardinality(Holders(b)') =
             Cardinality(Holders(b)) - (IF handle[h] = b THEN 1 ELSE 0)
                                     + (IF handle'[h] = b THEN 1 ELSE 0)
<1> DEFINE S == Holders(b) \ {h}
<1>1. h \notin Slices
    BY SliceAssumption
<1>2. h \in Holders(b) <=> handle[h] = b
    BY <1>1 DEF Holders
<1>3. h \in Holders(b)' <=> handle'[h] = b
    BY <1>1 DEF Holders
<1>4. Holders(b)' \ {h} = S
    BY DEF Holders
<1>5. IsFiniteSet(Holders(b))
    BY HoldersFinite
<1>6. IsFiniteSet(S)
    BY <1>5, FS_RemoveElement
<1>7. Holders(b) = IF handle[h] = b THEN S \cup {h} ELSE S
    BY <1>2
<1>8. Holders(b)' = IF handle'[h] = b THEN S \cup {h} ELSE S
    BY <1>3, <1>4
<1>9. h \notin S
    OBVIOUS
<1>10. /\ Cardinality(S \cup {h}) = Cardinality(S) + 1
       /\ Cardinality(S) \in Nat
    BY <1>6, <1>9, OneMore
<1> HIDE DEF S
<1> QED BY <1>7, <1>8, <1>10

\* Under IInv the array a slice or a variable holds is allocated, and when its
\* count is one nothing else holds it.
LEMMA Held ==
    ASSUME IInv, NEW a \in Arrays, NEW x \in Holders(a)
    PROVE  /\ arr[a].ref \in Nat \ {0}
           /\ arr[a].ref = 1 => Holders(a) = {x}
<1>1. IsFiniteSet(Holders(a))
    BY HoldersFinite
<1>2. arr[a].ref = Cardinality(Holders(a))
    BY DEF IInv, RefCountsHolders
<1>3. /\ Cardinality(Holders(a)) \in Nat
      /\ Cardinality(Holders(a)) > 0
      /\ Cardinality(Holders(a)) = 1 => Holders(a) = {x}
    BY <1>1, OneMore
<1> QED BY <1>2, <1>3

\* A step of slice s keeps IInv if it keeps the types, counts its own leaving
\* and joining, resizes no array in use and leaves its window inside its array.
LEMMA SliceStepKeeps ==
    ASSUME IInv, TypeOK', NEW s \in Slices, handle' = handle,
           \A t \in Slices \ {s} : sli'[t] = sli[t],
           \A b \in Arrays : arr'[b].ref = arr[b].ref
                                - (IF sli[s].data = b THEN 1 ELSE 0)
                                + (IF sli'[s].data = b THEN 1 ELSE 0),
           \A b \in Arrays : arr[b].ref > 0 /\ arr'[b].ref > 0 => arr'[b].cap = arr[b].cap,
           sli'[s].data # NoArray =>
                sli'[s].pos + sli'[s].len <= arr'[sli'[s].data].cap
    PROVE  IInv'
<1>1. RefCountsHolders'
    <2>1. SUFFICES ASSUME NEW b \in Arrays
                   PROVE  arr'[b].ref = Cardinality(Holders(b)')
        BY DEF RefCountsHolders
    <2>2. arr[b].ref = Cardinality(Holders(b))
        BY DEF IInv, RefCountsHolders
    <2> QED BY <2>2, SliceMove
<1>2. ASSUME NEW t \in Slices, IsOpen(t)'
      PROVE  /\ arr'[sli'[t].data].ref > 0
             /\ sli'[t].pos + sli'[t].len <= arr'[sli'[t].data].cap
    <2>1. PICK b \in Arrays : b = sli'[t].data
        BY <1>2 DEF TypeOK, SliceStruct, IsOpen
    <2>2. t \in Holders(b)' /\ IsFiniteSet(Holders(b)')
        BY <2>1, HoldersFinite DEF Holders
    <2>6. Cardinality(Holders(b)') > 0
        BY <2>2, OneMore
    <2>3. arr'[b].ref > 0
        BY <1>1, <2>6 DEF RefCountsHolders
    <2>4. ASSUME t # s
          PROVE  sli'[t].pos + sli'[t].len <= arr'[sli'[t].data].cap
        <3>1. sli[t] = sli'[t]
            BY <2>4
        <3>2. arr[b].ref > 0 /\ sli[t].pos + sli[t].len <= arr[b].cap
            BY <1>2, <2>1, <3>1 DEF IInv, WindowInArray, IsOpen
        <3> QED BY <2>1, <2>3, <3>1, <3>2
    <2> QED BY <1>2, <2>1, <2>3, <2>4 DEF IsOpen
<1>3. WindowInArray'
    BY <1>2 DEF WindowInArray
<1> QED BY <1>1, <1>3 DEF IInv

\* The same for a step of an ARRAY* variable, which may resize an array that
\* no slice holds.
LEMMA HandleStepKeeps ==
    ASSUME IInv, TypeOK', NEW h \in Handles, sli' = sli,
           \A g \in Handles \ {h} : handle'[g] = handle[g],
           \A b \in Arrays : arr'[b].ref = arr[b].ref
                                - (IF handle[h] = b THEN 1 ELSE 0)
                                + (IF handle'[h] = b THEN 1 ELSE 0),
           \A t \in Slices : sli[t].data # NoArray =>
                arr'[sli[t].data].cap = arr[sli[t].data].cap
                \/ arr'[sli[t].data].ref = 0
    PROVE  IInv'
<1>1. RefCountsHolders'
    <2>1. SUFFICES ASSUME NEW b \in Arrays
                   PROVE  arr'[b].ref = Cardinality(Holders(b)')
        BY DEF RefCountsHolders
    <2>2. arr[b].ref = Cardinality(Holders(b))
        BY DEF IInv, RefCountsHolders
    <2> QED BY <2>2, HandleMove
<1>2. ASSUME NEW t \in Slices, IsOpen(t)'
      PROVE  /\ arr'[sli'[t].data].ref > 0
             /\ sli'[t].pos + sli'[t].len <= arr'[sli'[t].data].cap
    <2>1. PICK b \in Arrays : b = sli'[t].data
        BY <1>2 DEF TypeOK, SliceStruct, IsOpen
    <2>2. t \in Holders(b)' /\ IsFiniteSet(Holders(b)')
        BY <2>1, HoldersFinite DEF Holders
    <2>6. Cardinality(Holders(b)') > 0
        BY <2>2, OneMore
    <2>3. arr'[b].ref > 0
        BY <1>1, <2>6 DEF RefCountsHolders
    <2>4. sli[t].pos + sli[t].len <= arr[b].cap
        BY <1>2, <2>1 DEF IInv, WindowInArray, IsOpen
    <2>5. arr'[b].cap = arr[b].cap
        BY <1>2, <2>1, <2>3 DEF IsOpen
    <2> QED BY <2>1, <2>3, <2>4, <2>5
<1>3. WindowInArray'
    BY <1>2 DEF WindowInArray
<1> QED BY <1>1, <1>3 DEF IInv
-----------------------------------------------------------------------------
(* The steps of slices. *)

\* A slice's array is allocated, and its window lies in the block.
LEMMA OpenSliceFacts ==
    ASSUME IInv, NEW s \in Slices, IsOpen(s)
    PROVE  /\ sli[s].data \in Arrays
           /\ sli[s].pos \in 0 .. MaxCap /\ sli[s].len \in 0 .. MaxCap
           /\ arr[sli[s].data] \in ArrayStruct
           /\ arr[sli[s].data].ref \in Nat \ {0}
           /\ sli[s].pos + sli[s].len <= arr[sli[s].data].cap
BY DEF IInv, TypeOK, WindowInArray, SliceStruct, ArrayStruct, IsOpen

\* A variable's array is allocated.
LEMMA HandleFacts ==
    ASSUME IInv, NEW h \in Handles, handle[h] # NoArray
    PROVE  /\ handle[h] \in Arrays
           /\ arr[handle[h]] \in ArrayStruct
           /\ arr[handle[h]].ref \in Nat \ {0}
<1>1. handle[h] \in Arrays
    BY DEF IInv, TypeOK
<1>2. h \in Holders(handle[h])
    BY DEF Holders
<1> QED BY <1>1, <1>2, Held DEF IInv, TypeOK

\* close_array takes one off the count of an array in use, and changes no
\* other array; the cells of an array that stays in use stay.
LEMMA CloseArrayFacts ==
    ASSUME NEW H \in [Arrays -> ArrayStruct], NEW a \in Arrays, H[a].ref \in Nat \ {0}
    PROVE  /\ ClosedHeap(H, a) \in [Arrays -> ArrayStruct]
           /\ ClosedHeap(H, a)[a].ref = H[a].ref - 1
           /\ H[a].ref # 1 => /\ ClosedHeap(H, a)[a].cap = H[a].cap
                              /\ ClosedHeap(H, a)[a].data = H[a].data
           /\ \A b \in Arrays \ {a} : ClosedHeap(H, a)[b] = H[b]
<1>1. Freed \in ArrayStruct /\ Freed.ref = 0
    BY SliceAssumption DEF Freed, ArrayStruct, NewCells, Cells
<1>2. CASE H[a].ref = 1
    <2>1. ClosedHeap(H, a) = [H EXCEPT ![a] = Freed]
        BY <1>2 DEF ClosedHeap
    <2> QED BY <1>1, <1>2, <2>1
<1>3. CASE H[a].ref # 1
    <2>1. ClosedHeap(H, a) = [H EXCEPT ![a] = [H[a] EXCEPT !.ref = @ - 1]]
        BY <1>3 DEF ClosedHeap
    <2>2. [H[a] EXCEPT !.ref = @ - 1] \in ArrayStruct
        BY DEF ArrayStruct
    <2> QED BY <1>3, <2>1, <2>2 DEF ArrayStruct
<1> QED BY <1>2, <1>3

\* open_slice keeps IInv: the new array has one holder, and the window its cells.
LEMMA OpenSliceKeeps ==
    ASSUME IInv, NEW s \in Slices, NEW l \in 0 .. MaxCap, NEW c \in 0 .. MaxCap,
           OpenSlice(s, l, c)
    PROVE  IInv'
<1>1. PICK a \in Arrays :
        /\ arr[a].ref = 0
        /\ arr' = [arr EXCEPT ![a] = [cap |-> c, ref |-> 1, data |-> NewCells]]
        /\ sli' = [sli EXCEPT ![s] = [data |-> a, pos |-> 0, len |-> l]]
    BY DEF OpenSlice, Opened, Unallocated
<1>2. sli[s].data = NoArray /\ l <= c /\ handle' = handle
    BY DEF OpenSlice, IsOpen
<1>3. TypeOK'
    BY <1>1, <1>2, SliceAssumption
    DEF IInv, TypeOK, ArrayStruct, SliceStruct, NewCells, Cells
<1>4. \A t \in Slices \ {s} : sli'[t] = sli[t]
    BY <1>1 DEF IInv, TypeOK
<1>5. \A b \in Arrays : /\ arr'[b].ref = IF b = a THEN 1 ELSE arr[b].ref
                        /\ b # a => arr'[b].cap = arr[b].cap
    BY <1>1 DEF IInv, TypeOK
<1>6. sli'[s].data = a /\ sli'[s].pos = 0 /\ sli'[s].len = l /\ arr'[a].cap = c
    BY <1>1 DEF IInv, TypeOK
<1>7. sli'[s].data # NoArray => sli'[s].pos + sli'[s].len <= arr'[sli'[s].data].cap
    BY <1>2, <1>6
<1>8. \A b \in Arrays : arr'[b].ref = arr[b].ref
                           - (IF sli[s].data = b THEN 1 ELSE 0)
                           + (IF sli'[s].data = b THEN 1 ELSE 0)
    BY <1>1, <1>2, <1>5, <1>6, SliceAssumption DEF IInv, TypeOK, ArrayStruct
<1> QED
    BY <1>1, <1>2, <1>3, <1>4, <1>5, <1>7, <1>8, SliceStepKeeps

\* A slice that is opened on an array in use, at any window of the array.
LEMMA JoinKeeps ==
    ASSUME IInv, NEW s \in Slices, sli[s].data = NoArray, NEW a \in Arrays,
           NEW p \in 0 .. MaxCap, NEW l \in 0 .. MaxCap,
           arr[a].ref > 0, p + l <= arr[a].cap,
           arr' = Assigned(arr, a),
           sli' = [sli EXCEPT ![s] = [data |-> a, pos |-> p, len |-> l]],
           handle' = handle
    PROVE  IInv'
<1>1. TypeOK'
    BY DEF IInv, TypeOK, ArrayStruct, SliceStruct, Assigned
<1> QED BY <1>1, SliceAssumption, SliceStepKeeps
        DEF IInv, TypeOK, ArrayStruct, SliceStruct, Assigned

\* open_slice_by_array keeps IInv: assign_array counts the new slice.
LEMMA OpenSliceByArrayKeeps ==
    ASSUME IInv, NEW s \in Slices, NEW h \in Handles,
           NEW i \in 0 .. MaxCap, NEW j \in 0 .. MaxCap, OpenSliceByArray(s, h, i, j)
    PROVE  IInv'
<1>1. handle[h] # NoArray /\ i <= j /\ j <= arr[handle[h]].cap /\ sli[s].data = NoArray
    BY DEF OpenSliceByArray, IsOpen
<1>2. handle[h] \in Arrays /\ arr[handle[h]] \in ArrayStruct /\ arr[handle[h]].ref > 0
    BY <1>1, HandleFacts
<1>3. j - i \in 0 .. MaxCap /\ i + (j - i) <= arr[handle[h]].cap
    BY <1>1, <1>2, SliceAssumption DEF ArrayStruct
<1> QED BY <1>1, <1>2, <1>3, JoinKeeps DEF OpenSliceByArray

\* open_slice_by_slice keeps IInv: the bound adds the slice's own offset.
LEMMA OpenSliceBySliceKeeps ==
    ASSUME IInv, NEW s \in Slices, NEW t \in Slices,
           NEW i \in 0 .. MaxCap, NEW j \in 0 .. MaxCap, OpenSliceBySlice(s, t, i, j)
    PROVE  IInv'
<1>1. IsOpen(t) /\ i <= j /\ sli[t].pos + j <= arr[sli[t].data].cap /\ sli[s].data = NoArray
    BY DEF OpenSliceBySlice, InReach, IsOpen
<1>2. /\ sli[t].data \in Arrays /\ arr[sli[t].data] \in ArrayStruct
      /\ arr[sli[t].data].ref > 0 /\ sli[t].pos \in 0 .. MaxCap
    BY <1>1, OpenSliceFacts
<1>3. /\ sli[t].pos + i \in 0 .. MaxCap /\ j - i \in 0 .. MaxCap
      /\ (sli[t].pos + i) + (j - i) <= arr[sli[t].data].cap
    BY <1>1, <1>2, SliceAssumption DEF ArrayStruct
<1> QED BY <1>1, <1>2, <1>3, JoinKeeps DEF OpenSliceBySlice

\* close_slice keeps IInv: the array is freed if and only if nothing else holds it.
LEMMA CloseSliceKeeps ==
    ASSUME IInv, NEW s \in Slices, CloseSlice(s)
    PROVE  IInv'
<1>1. PICK a \in Arrays : a = sli[s].data /\ arr[a].ref \in Nat \ {0}
    BY OpenSliceFacts DEF CloseSlice
<1>2. /\ arr' = ClosedHeap(arr, a) /\ handle' = handle
      /\ sli' = [sli EXCEPT ![s] = Closed]
    BY <1>1 DEF CloseSlice
<1>3. /\ arr' \in [Arrays -> ArrayStruct]
      /\ arr'[a].ref = arr[a].ref - 1
      /\ arr[a].ref # 1 => arr'[a].cap = arr[a].cap
      /\ \A b \in Arrays \ {a} : arr'[b] = arr[b]
    BY <1>1, <1>2, CloseArrayFacts DEF IInv, TypeOK
<1>4. TypeOK'
    BY <1>2, <1>3, SliceAssumption DEF IInv, TypeOK, SliceStruct, Closed
<1>5. \A b \in Arrays :
        /\ arr'[b].ref = arr[b].ref - (IF a = b THEN 1 ELSE 0)
        /\ arr[b].ref > 0 /\ arr'[b].ref > 0 => arr'[b].cap = arr[b].cap
    BY <1>1, <1>3 DEF IInv, TypeOK, ArrayStruct
<1>6. sli'[s].data = NoArray /\ \A t \in Slices \ {s} : sli'[t] = sli[t]
    BY <1>2 DEF IInv, TypeOK, Closed
<1>7. \A b \in Arrays : arr[b].ref - (IF a = b THEN 1 ELSE 0) =
        arr[b].ref - (IF sli[s].data = b THEN 1 ELSE 0)
                   + (IF sli'[s].data = b THEN 1 ELSE 0)
    BY <1>1, <1>6, SliceAssumption DEF IInv, TypeOK, ArrayStruct
<1> QED BY <1>2, <1>3, <1>4, <1>5, <1>6, <1>7, SliceStepKeeps

\* A store inside the block changes neither counts nor capacities.
LEMMA SliceSetKeeps ==
    ASSUME IInv, NEW s \in Slices, NEW i \in Idx, NEW v \in Values, SliceSet(s, i, v)
    PROVE  IInv'
<1>1. PICK a \in Arrays : a = sli[s].data /\ arr[a] \in ArrayStruct
    BY OpenSliceFacts DEF SliceSet
<1>2. /\ arr' = [arr EXCEPT ![a].data[sli[s].pos + i] = v]
      /\ sli' = sli /\ handle' = handle
    BY <1>1 DEF SliceSet
<1>3. TypeOK'
    BY <1>1, <1>2 DEF IInv, TypeOK, ArrayStruct, Cells
<1>4. \A b \in Arrays : arr'[b].ref = arr[b].ref /\ arr'[b].cap = arr[b].cap
    BY <1>1, <1>2 DEF IInv, TypeOK, ArrayStruct
<1>5. sli[s].data # NoArray => sli[s].pos + sli[s].len <= arr'[sli[s].data].cap
    BY <1>1, <1>4 DEF IInv, WindowInArray, IsOpen
<1> QED BY <1>1, <1>2, <1>3, <1>4, <1>5, SliceStepKeeps DEF IInv, TypeOK, ArrayStruct
\* What slice_grow asks for, when it is not more than the limit, is at least
\* the capacity wanted.
LEMMA GrownCapFacts ==
    ASSUME NEW old \in 0 .. MaxCap, NEW least \in Nat
    PROVE  /\ GrownCap(old, least) \in Nat
           /\ GrownCap(old, least) <= MaxCap => GrownCap(old, least) >= least
BY SliceAssumption DEF GrownCap

\* The copy slice_grow makes is an array, if the window it copies from and the
\* capacity it asks for are within the limit.
LEMMA CopyFromType ==
    ASSUME NEW old \in ArrayStruct, NEW p \in 0 .. MaxCap, NEW n \in 0 .. MaxCap
    PROVE  /\ CopyFrom(old, p, n) \in ArrayStruct
           /\ CopyFrom(old, p, n).cap = n /\ CopyFrom(old, p, n).ref = 1
<1> DEFINE c == [i \in Idx |-> IF i < old.cap - p THEN old.data[p + i] ELSE Junk]
<1>1. ASSUME NEW i \in Idx, i < old.cap - p
      PROVE  old.data[p + i] \in Values \cup {Junk}
    <2>1. p + i \in Idx
        BY <1>1, SliceAssumption DEF ArrayStruct, Idx
    <2> QED BY <2>1 DEF ArrayStruct, Cells
<1>2. c \in Cells
    BY <1>1 DEF Cells
<1> HIDE DEF c
<1>3. CopyFrom(old, p, n) = [cap |-> n, ref |-> 1, data |-> c]
    BY DEF CopyFrom, c
<1> QED BY <1>2, <1>3 DEF ArrayStruct

\* Once there is room, the heap is well typed, the slice's window and one more
\* cell lie inside its array, and the counts follow the slice's move.
LEMMA RoomFacts ==
    ASSUME IInv, NEW s \in Slices, IsOpen(s), NEW r \in WithRoom(s)
    PROVE  /\ r.heap \in [Arrays -> ArrayStruct]
           /\ r.slice \in SliceStruct
           /\ r.slice.data \in Arrays
           /\ r.slice.len = sli[s].len
           /\ r.slice.pos + r.slice.len < r.heap[r.slice.data].cap
           /\ \A b \in Arrays :
                /\ r.heap[b].ref = arr[b].ref - (IF sli[s].data = b THEN 1 ELSE 0)
                                              + (IF r.slice.data = b THEN 1 ELSE 0)
                /\ arr[b].ref > 0 /\ r.heap[b].ref > 0 => r.heap[b].cap = arr[b].cap
<1> DEFINE p == sli[s].pos
<1>1. PICK d \in Arrays :
        /\ d = sli[s].data /\ arr[d] \in ArrayStruct /\ arr[d].ref \in Nat \ {0}
        /\ p \in 0 .. MaxCap /\ sli[s].len \in 0 .. MaxCap
        /\ p + sli[s].len <= arr[d].cap /\ sli[s] \in SliceStruct
    BY OpenSliceFacts DEF IInv, TypeOK
<1>2. CASE ~Full(s)
    <2>1. r.heap = arr /\ r.slice = sli[s]
        BY <1>2 DEF WithRoom
    <2>2. p + sli[s].len < arr[d].cap
        BY <1>1, <1>2 DEF Full, ArrayStruct
    <2> QED BY <1>1, <2>1, <2>2 DEF IInv, TypeOK, ArrayStruct
<1>3. CASE Full(s)
    <2>1. PICK a \in Arrays : arr[a].ref = 0 /\ NextCap(s) <= MaxCap /\ r = GrownTo(s, a)
        BY <1>3 DEF WithRoom, Grown, Unallocated
    <2>2. /\ arr[d].cap - p \in 0 .. MaxCap
          /\ arr[d].cap + 1 - p \in Nat /\ arr[d].cap + 1 - p = sli[s].len + 1
        BY <1>1, <1>3, SliceAssumption DEF Full, ArrayStruct
    <2>3. NextCap(s) \in 0 .. MaxCap /\ NextCap(s) >= sli[s].len + 1
        BY <1>1, <2>1, <2>2, GrownCapFacts DEF NextCap
    <2> DEFINE new == CopyFrom(arr[d], p, NextCap(s))
               H == [arr EXCEPT ![a] = new]
    <2>4. new \in ArrayStruct /\ new.cap = NextCap(s) /\ new.ref = 1
        BY <1>1, <2>3, CopyFromType
    <2>5. r.heap = ClosedHeap(H, d) /\ r.slice = [data |-> a, pos |-> 0, len |-> sli[s].len]
        BY <1>1, <2>1 DEF GrownTo
    <2> HIDE DEF new
    <2>6. H \in [Arrays -> ArrayStruct] /\ a # d /\ H[d] = arr[d] /\ H[a] = new
          /\ \A b \in Arrays \ {a} : H[b] = arr[b]
        BY <1>1, <2>1, <2>4 DEF IInv, TypeOK, ArrayStruct
    <2> HIDE DEF H
    <2>7. /\ r.heap \in [Arrays -> ArrayStruct]
          /\ r.heap[d].ref = arr[d].ref - 1
          /\ arr[d].ref # 1 => r.heap[d].cap = arr[d].cap
          /\ \A b \in Arrays \ {d} : r.heap[b] = H[b]
        BY <1>1, <2>5, <2>6, CloseArrayFacts
    <2>8. r.heap[a].ref = 1 /\ r.heap[a].cap = NextCap(s)
        BY <2>4, <2>6, <2>7
    <2>9. /\ r.slice \in SliceStruct /\ r.slice.data = a
          /\ r.slice.len = sli[s].len /\ r.slice.pos = 0
        BY <1>1, <2>5, SliceAssumption DEF SliceStruct
    <2>10. r.slice.pos + r.slice.len < r.heap[r.slice.data].cap
        BY <1>1, <2>3, <2>8, <2>9
    <2>11. ASSUME NEW b \in Arrays
           PROVE  /\ r.heap[b].ref = arr[b].ref - (IF d = b THEN 1 ELSE 0)
                                                + (IF a = b THEN 1 ELSE 0)
                  /\ arr[b].ref > 0 /\ r.heap[b].ref > 0 => r.heap[b].cap = arr[b].cap
        <3>1. CASE b = d
            <4>1. b # a /\ r.heap[b].ref = arr[b].ref - 1 /\ arr[b].ref \in Nat \ {0}
                BY <1>1, <2>6, <2>7, <3>1
            <4>2. arr[b].ref # 1 => r.heap[b].cap = arr[b].cap
                BY <2>7, <3>1
            <4> QED BY <3>1, <4>1, <4>2
        <3>2. CASE b = a
            BY <2>1, <2>6, <2>8, <3>2
        <3>3. CASE b # a /\ b # d
            BY <2>6, <2>7, <3>3 DEF IInv, TypeOK, ArrayStruct
        <3> QED BY <3>1, <3>2, <3>3
    <2> QED BY <1>1, <2>7, <2>9, <2>10, <2>11
<1> QED BY <1>2, <1>3

\* A call that makes room for one element in s and stores it in s's array.
LEMMA LengthenKeeps ==
    ASSUME IInv, NEW s \in Slices, IsOpen(s), NEW r \in WithRoom(s), NEW c \in Cells,
           arr' = [r.heap EXCEPT ![r.slice.data].data = c],
           sli' = [sli EXCEPT ![s] = [r.slice EXCEPT !.len = @ + 1]],
           handle' = handle
    PROVE  IInv'
<1>1. /\ r.heap \in [Arrays -> ArrayStruct]
      /\ r.slice \in SliceStruct
      /\ r.slice.data \in Arrays
      /\ r.slice.pos + r.slice.len < r.heap[r.slice.data].cap
      /\ \A b \in Arrays :
           /\ r.heap[b].ref = arr[b].ref - (IF sli[s].data = b THEN 1 ELSE 0)
                                         + (IF r.slice.data = b THEN 1 ELSE 0)
           /\ arr[b].ref > 0 /\ r.heap[b].ref > 0 => r.heap[b].cap = arr[b].cap
    BY RoomFacts
<1>2. \A b \in Arrays : arr'[b].ref = r.heap[b].ref /\ arr'[b].cap = r.heap[b].cap
    BY <1>1 DEF ArrayStruct
<1>3. arr' \in [Arrays -> ArrayStruct]
    BY <1>1 DEF ArrayStruct
<1>4. /\ sli'[s].data = r.slice.data /\ sli'[s].pos = r.slice.pos
      /\ sli'[s].len = r.slice.len + 1
      /\ \A t \in Slices \ {s} : sli'[t] = sli[t]
    BY <1>1 DEF IInv, TypeOK, SliceStruct
<1>5. r.slice.len + 1 \in 0 .. MaxCap
    BY <1>1, SliceAssumption DEF SliceStruct, ArrayStruct
<1>6. sli' \in [Slices -> SliceStruct]
    BY <1>1, <1>5 DEF IInv, TypeOK, SliceStruct
<1>7. TypeOK'
    BY <1>3, <1>6 DEF IInv, TypeOK
<1>8. sli'[s].pos + sli'[s].len <= arr'[sli'[s].data].cap
    BY <1>1, <1>2, <1>4 DEF SliceStruct, ArrayStruct
<1> QED BY <1>1, <1>2, <1>4, <1>7, <1>8, SliceStepKeeps

\* slice_append keeps IInv, whether or not the call grows the slice.
LEMMA SliceAppendKeeps ==
    ASSUME IInv, NEW s \in Slices, NEW v \in Values, SliceAppend(s, v)
    PROVE  IInv'
<1>1. IsOpen(s) /\ handle' = handle
    BY DEF SliceAppend
<1>2. PICK r \in WithRoom(s) :
        /\ arr' = [r.heap EXCEPT ![r.slice.data].data[r.slice.pos + r.slice.len] = v]
        /\ sli' = [sli EXCEPT ![s] = [r.slice EXCEPT !.len = @ + 1]]
    BY DEF SliceAppend
<1>3. r.heap \in [Arrays -> ArrayStruct] /\ r.slice.data \in Arrays
    BY <1>1, RoomFacts
<1> DEFINE c == [r.heap[r.slice.data].data EXCEPT ![r.slice.pos + r.slice.len] = v]
<1>4. c \in Cells
    BY <1>3 DEF ArrayStruct, Cells
<1>5. arr' = [r.heap EXCEPT ![r.slice.data].data = c]
    BY <1>2
<1> HIDE DEF c
<1> QED BY <1>1, <1>2, <1>4, <1>5, LengthenKeeps

\* The memmove of slice_insert reads and writes cells of the block.
LEMMA InsertedType ==
    ASSUME NEW d \in Cells, NEW p \in Nat, NEW l \in Nat, NEW i \in Nat, NEW v \in Values
    PROVE  Inserted(d, p, l, i, v) \in Cells
<1> DEFINE moved == [k \in Idx |-> IF p < k /\ k <= p + l - i THEN d[k - 1] ELSE d[k]]
<1>1. moved \in Cells
    BY SliceAssumption DEF Cells, Idx
<1>2. [moved EXCEPT ![p + i] = v] \in Cells
    BY <1>1 DEF Cells
<1> QED BY <1>2 DEF Inserted

\* slice_insert keeps IInv, whether or not the call grows the slice.
LEMMA SliceInsertKeeps ==
    ASSUME IInv, NEW s \in Slices, NEW i \in 0 .. MaxCap, NEW v \in Values,
           SliceInsert(s, i, v)
    PROVE  IInv'
<1>1. IsOpen(s) /\ handle' = handle
    BY DEF SliceInsert
<1>2. PICK r \in WithRoom(s) :
        /\ arr' = [r.heap EXCEPT ![r.slice.data].data =
                    Inserted(@, r.slice.pos, r.slice.len, i, v)]
        /\ sli' = [sli EXCEPT ![s] = [r.slice EXCEPT !.len = @ + 1]]
    BY DEF SliceInsert
<1>3. r.heap \in [Arrays -> ArrayStruct] /\ r.slice.data \in Arrays /\ r.slice \in SliceStruct
    BY <1>1, RoomFacts
<1> DEFINE c == Inserted(r.heap[r.slice.data].data, r.slice.pos, r.slice.len, i, v)
<1>4. c \in Cells
    BY <1>3, InsertedType DEF ArrayStruct, SliceStruct
<1>5. arr' = [r.heap EXCEPT ![r.slice.data].data = c]
    BY <1>2
<1> HIDE DEF c
<1> QED BY <1>1, <1>2, <1>4, <1>5, LengthenKeeps

\* The memcpy of slice_pop stays inside a window that lies in the block.
LEMMA PoppedType ==
    ASSUME NEW d \in Cells, NEW p \in Nat, NEW l \in Nat, NEW i \in Nat, p + l <= MaxCap
    PROVE  Popped(d, p, l, i) \in Cells
<1>1. ASSUME NEW k \in Idx, p + i <= k, k < p + l - 1
      PROVE  d[k + 1] \in Values \cup {Junk}
    <2>1. k + 1 \in Idx
        BY <1>1, SliceAssumption DEF Idx
    <2> QED BY <2>1 DEF Cells
<1> QED BY <1>1 DEF Popped, Cells

\* slice_pop keeps IInv: the window shrinks.
LEMMA SlicePopKeeps ==
    ASSUME IInv, NEW s \in Slices, NEW i \in Idx, SlicePop(s, i)
    PROVE  IInv'
<1>1. PICK a \in Arrays :
        /\ a = sli[s].data /\ arr[a] \in ArrayStruct
        /\ sli[s].pos \in 0 .. MaxCap /\ sli[s].len \in 0 .. MaxCap
        /\ sli[s].pos + sli[s].len <= arr[a].cap
    BY OpenSliceFacts DEF SlicePop
<1> DEFINE c == Popped(arr[a].data, sli[s].pos, sli[s].len, i)
<1>2. /\ arr' = [arr EXCEPT ![a].data = c]
      /\ sli' = [sli EXCEPT ![s].len = @ - 1]
      /\ handle' = handle /\ i < sli[s].len
    BY <1>1 DEF SlicePop
<1>3. c \in Cells
    <2>1. sli[s].pos + sli[s].len <= MaxCap /\ i \in Nat
        BY <1>1, SliceAssumption DEF ArrayStruct, Idx
    <2>2. /\ arr[a].data \in Cells /\ sli[s].pos \in Nat /\ sli[s].len \in Nat
        BY <1>1, SliceAssumption DEF ArrayStruct
    <2> QED BY <2>1, <2>2, PoppedType
<1> HIDE DEF c
<1>4. arr' \in [Arrays -> ArrayStruct]
    BY <1>2, <1>3 DEF IInv, TypeOK, ArrayStruct
<1>5. \A b \in Arrays : arr'[b].ref = arr[b].ref /\ arr'[b].cap = arr[b].cap
    BY <1>2 DEF IInv, TypeOK, ArrayStruct
<1>6. sli[s].len - 1 \in 0 .. MaxCap
    BY <1>1, <1>2, SliceAssumption DEF Idx
<1>7. /\ sli'[s].data = a /\ sli'[s].pos = sli[s].pos /\ sli'[s].len = sli[s].len - 1
      /\ \A t \in Slices \ {s} : sli'[t] = sli[t]
    BY <1>1, <1>2 DEF IInv, TypeOK, SliceStruct
<1>8. TypeOK'
    BY <1>2, <1>4, <1>6 DEF IInv, TypeOK, SliceStruct
<1>9. sli'[s].pos + sli'[s].len <= arr'[sli'[s].data].cap
    BY <1>1, <1>5, <1>6, <1>7 DEF ArrayStruct
<1>10. \A b \in Arrays : arr'[b].ref = arr[b].ref - (IF sli[s].data = b THEN 1 ELSE 0)
                                         + (IF sli'[s].data = b THEN 1 ELSE 0)
    BY <1>1, <1>5, <1>7 DEF IInv, TypeOK, ArrayStruct
<1> QED BY <1>2, <1>5, <1>7, <1>8, <1>9, <1>10, SliceStepKeeps
-----------------------------------------------------------------------------
(* The steps of ARRAY* variables. *)

\* A variable that is set to an array opened for it.
LEMMA FreshHandleKeeps ==
    ASSUME IInv, NEW h \in Handles, handle[h] = NoArray, NEW a \in Arrays, arr[a].ref = 0,
           NEW new \in ArrayStruct, new.ref = 1,
           arr' = [arr EXCEPT ![a] = new],
           handle' = [handle EXCEPT ![h] = a],
           sli' = sli
    PROVE  IInv'
<1>1. TypeOK'
    BY DEF IInv, TypeOK
<1>2. \A t \in Slices : sli[t].data # NoArray => sli[t].data # a /\ sli[t].data \in Arrays
    BY OpenSliceFacts DEF IsOpen
<1>3. \A t \in Slices : sli[t].data # NoArray => arr'[sli[t].data].cap = arr[sli[t].data].cap
    BY <1>2 DEF IInv, TypeOK
<1>4. \A b \in Arrays : arr'[b].ref = arr[b].ref - (IF handle[h] = b THEN 1 ELSE 0)
                                         + (IF handle'[h] = b THEN 1 ELSE 0)
    BY SliceAssumption DEF IInv, TypeOK, ArrayStruct
<1>5. \A g \in Handles \ {h} : handle'[g] = handle[g]
    BY DEF IInv, TypeOK
<1> QED BY <1>1, <1>3, <1>4, <1>5, HandleStepKeeps

\* open_array keeps IInv.
LEMMA OpenArrayKeeps ==
    ASSUME IInv, NEW h \in Handles, NEW c \in 0 .. MaxCap, OpenArray(h, c)
    PROVE  IInv'
<1> DEFINE new == [cap |-> c, ref |-> 1, data |-> NewCells]
<1>1. PICK a \in Arrays :
        /\ arr[a].ref = 0 /\ arr' = [arr EXCEPT ![a] = new]
        /\ handle' = [handle EXCEPT ![h] = a]
    BY DEF OpenArray, Opened, Unallocated
<1>2. new \in ArrayStruct /\ new.ref = 1
    BY DEF ArrayStruct, NewCells, Cells
<1> HIDE DEF new
<1> QED BY <1>1, <1>2, FreshHandleKeeps DEF OpenArray

\* open_array_by_data keeps IInv.
LEMMA OpenArrayByDataKeeps ==
    ASSUME IInv, NEW h \in Handles, NEW c \in 0 .. MaxCap, NEW d \in [0 .. c - 1 -> Values],
           OpenArrayByData(h, d, c)
    PROVE  IInv'
<1> DEFINE cells == [i \in Idx |-> IF i < c THEN d[i] ELSE Junk]
           new == [cap |-> c, ref |-> 1, data |-> cells]
<1>1. PICK a \in Arrays :
        /\ arr[a].ref = 0 /\ arr' = [arr EXCEPT ![a] = new]
        /\ handle' = [handle EXCEPT ![h] = a]
    BY DEF OpenArrayByData, Unallocated
<1>2. cells \in Cells
    BY SliceAssumption DEF Cells, Idx
<1> HIDE DEF cells
<1>3. new \in ArrayStruct /\ new.ref = 1
    BY <1>2 DEF ArrayStruct
<1> HIDE DEF new
<1> QED BY <1>1, <1>3, FreshHandleKeeps DEF OpenArrayByData

\* reopen_array keeps IInv: no slice holds the array, so none can overhang it.
LEMMA ReopenArrayKeeps ==
    ASSUME IInv, NEW h \in Handles, NEW c \in 1 .. MaxCap, ReopenArray(h, c)
    PROVE  IInv'
<1>1. PICK d \in Arrays :
        d = handle[h] /\ arr[d] \in ArrayStruct /\ arr[d].ref = 1 /\ arr \in [Arrays -> ArrayStruct]
    BY HandleFacts DEF ReopenArray, IInv, TypeOK
<1> DEFINE cells == [i \in Idx |-> IF i < arr[d].cap /\ i < c THEN arr[d].data[i] ELSE Junk]
           new == [cap |-> c, ref |-> arr[d].ref, data |-> cells]
<1>2. cells \in Cells
    BY <1>1 DEF Cells, ArrayStruct
<1> HIDE DEF cells
<1>3. new \in ArrayStruct /\ new.ref = 1
    BY <1>1, <1>2, SliceAssumption DEF ArrayStruct
<1> HIDE DEF new
<1>4. \A t \in Slices : sli[t].data # d
    <2>1. h \in Holders(d)
        BY <1>1 DEF Holders
    <2>2. Holders(d) = {h}
        BY <1>1, <2>1, Held
    <2>3. h \notin Slices
        BY SliceAssumption
    <2>4. \A t \in Slices : sli[t].data = d => t \in Holders(d)
        BY DEF Holders
    <2> QED BY <2>2, <2>3, <2>4
<1>10. sli' = sli
    BY DEF ReopenArray
<1>5. sli' = sli /\ Freed \in ArrayStruct /\ Freed.ref = 0
    BY <1>10, SliceAssumption DEF Freed, ArrayStruct, NewCells, Cells
<1>6. CASE arr' = [arr EXCEPT ![d] = new] /\ handle' = handle
    <2>1. TypeOK'
        BY <1>3, <1>5, <1>6 DEF IInv, TypeOK
    <2>2. \A t \in Slices : arr'[sli[t].data].cap = arr[sli[t].data].cap
                            \/ sli[t].data = NoArray
        BY <1>4, <1>6 DEF IInv, TypeOK, SliceStruct
    <2>3. \A b \in Arrays : arr'[b].ref = arr[b].ref /\ arr[b].ref \in Nat
        BY <1>1, <1>3, <1>6 DEF IInv, TypeOK, ArrayStruct
    <2> QED BY <1>5, <1>6, <2>1, <2>2, <2>3, HandleStepKeeps
<1>7. ASSUME NEW a \in Arrays, arr[a].ref = 0,
             arr' = [arr EXCEPT ![d] = Freed, ![a] = new],
             handle' = [handle EXCEPT ![h] = a]
      PROVE  IInv'
    <2>1. a # d
        BY <1>1, <1>7
    <2>2. TypeOK'
        BY <1>3, <1>5, <1>7 DEF IInv, TypeOK
    <2>3. \A t \in Slices : sli[t].data # NoArray => sli[t].data # a /\ sli[t].data \in Arrays
        BY <1>7, OpenSliceFacts DEF IsOpen
    <2>4. \A t \in Slices : sli[t].data # NoArray =>
            arr'[sli[t].data].cap = arr[sli[t].data].cap
        BY <1>4, <1>7, <2>3 DEF IInv, TypeOK
    <2>5. handle'[h] = a /\ \A g \in Handles \ {h} : handle'[g] = handle[g]
        BY <1>7 DEF IInv, TypeOK
    <2>6. \A b \in Arrays : arr'[b].ref = arr[b].ref - (IF d = b THEN 1 ELSE 0)
                                             + (IF a = b THEN 1 ELSE 0)
        BY <1>1, <1>3, <1>5, <1>7, <2>1 DEF IInv, TypeOK, ArrayStruct
    <2> QED BY <1>1, <1>5, <2>2, <2>4, <2>5, <2>6, HandleStepKeeps
<1>8. \/ arr' = [arr EXCEPT ![d] = new] /\ handle' = handle
      \/ \E a \in Arrays : /\ arr[a].ref = 0
                           /\ arr' = [arr EXCEPT ![d] = Freed, ![a] = new]
                           /\ handle' = [handle EXCEPT ![h] = a]
    BY <1>1 DEF ReopenArray, Unallocated, new, cells
<1> QED BY <1>6, <1>7, <1>8

\* assign_array keeps IInv: it counts the second variable.
LEMMA AssignArrayKeeps ==
    ASSUME IInv, NEW g \in Handles, NEW h \in Handles, AssignArray(g, h)
    PROVE  IInv'
<1>1. PICK a \in Arrays : a = handle[h] /\ arr[a] \in ArrayStruct /\ arr[a].ref \in Nat \ {0}
    BY HandleFacts DEF AssignArray
<1>2. /\ handle[g] = NoArray /\ sli' = sli
      /\ arr' = [arr EXCEPT ![a].ref = @ + 1]
      /\ handle' = [handle EXCEPT ![g] = a]
    BY <1>1 DEF AssignArray, Assigned
<1>3. TypeOK'
    BY <1>1, <1>2 DEF IInv, TypeOK, ArrayStruct
<1>4. \A b \in Arrays : arr'[b].cap = arr[b].cap
    BY <1>2 DEF IInv, TypeOK, ArrayStruct
<1>5. handle'[g] = a /\ \A k \in Handles \ {g} : handle'[k] = handle[k]
    BY <1>2 DEF IInv, TypeOK
<1>6. \A b \in Arrays : arr'[b].ref = arr[b].ref - (IF handle[g] = b THEN 1 ELSE 0)
                                         + (IF handle'[g] = b THEN 1 ELSE 0)
    BY <1>2, <1>5, SliceAssumption DEF IInv, TypeOK, ArrayStruct
<1>7. \A t \in Slices : sli[t].data # NoArray => arr'[sli[t].data].cap = arr[sli[t].data].cap
    BY <1>4 DEF IInv, TypeOK, SliceStruct
<1> QED BY <1>2, <1>3, <1>5, <1>6, <1>7, HandleStepKeeps

\* close_array of a variable keeps IInv.
LEMMA CloseArrayKeeps ==
    ASSUME IInv, NEW h \in Handles, CloseArray(h)
    PROVE  IInv'
<1>1. PICK a \in Arrays : a = handle[h] /\ arr[a].ref \in Nat \ {0}
    BY HandleFacts DEF CloseArray
<1>2. /\ arr' = ClosedHeap(arr, a) /\ sli' = sli
      /\ handle' = [handle EXCEPT ![h] = NoArray]
    BY <1>1 DEF CloseArray
<1>3. /\ arr' \in [Arrays -> ArrayStruct]
      /\ arr'[a].ref = arr[a].ref - 1
      /\ arr[a].ref # 1 => arr'[a].cap = arr[a].cap
      /\ \A b \in Arrays \ {a} : arr'[b] = arr[b]
    BY <1>1, <1>2, CloseArrayFacts DEF IInv, TypeOK
<1>4. TypeOK'
    BY <1>2, <1>3 DEF IInv, TypeOK
<1>5. handle'[h] = NoArray /\ \A g \in Handles \ {h} : handle'[g] = handle[g]
    BY <1>2 DEF IInv, TypeOK
<1>6. \A b \in Arrays :
        /\ arr'[b].ref = arr[b].ref - (IF a = b THEN 1 ELSE 0)
        /\ arr'[b].cap = arr[b].cap \/ arr'[b].ref = 0
    BY <1>1, <1>3 DEF IInv, TypeOK, ArrayStruct
<1>7. \A b \in Arrays : arr'[b].ref = arr[b].ref - (IF handle[h] = b THEN 1 ELSE 0)
                                         + (IF handle'[h] = b THEN 1 ELSE 0)
    BY <1>1, <1>3, <1>5, <1>6, SliceAssumption DEF IInv, TypeOK, ArrayStruct
<1>8. \A t \in Slices : sli[t].data # NoArray =>
        arr'[sli[t].data].cap = arr[sli[t].data].cap \/ arr'[sli[t].data].ref = 0
    BY <1>6 DEF IInv, TypeOK, SliceStruct
<1> QED BY <1>2, <1>4, <1>5, <1>7, <1>8, HandleStepKeeps

\* array_set keeps IInv: the store is inside the block.
LEMMA ArraySetKeeps ==
    ASSUME IInv, NEW h \in Handles, NEW i \in Idx, NEW v \in Values, ArraySet(h, i, v)
    PROVE  IInv'
<1>1. PICK a \in Arrays : a = handle[h] /\ arr[a] \in ArrayStruct
    BY HandleFacts DEF ArraySet
<1>2. arr' = [arr EXCEPT ![a].data[i] = v] /\ sli' = sli /\ handle' = handle
    BY <1>1 DEF ArraySet
<1>3. TypeOK'
    BY <1>1, <1>2 DEF IInv, TypeOK, ArrayStruct, Cells
<1>4. \A b \in Arrays : arr'[b].ref = arr[b].ref /\ arr'[b].cap = arr[b].cap
    BY <1>2 DEF IInv, TypeOK, ArrayStruct
<1>5. \A b \in Arrays : arr'[b].ref = arr[b].ref - (IF handle[h] = b THEN 1 ELSE 0)
                                         + (IF handle'[h] = b THEN 1 ELSE 0)
    BY <1>2, <1>4 DEF IInv, TypeOK, ArrayStruct
<1>6. \A t \in Slices : sli[t].data # NoArray => arr'[sli[t].data].cap = arr[sli[t].data].cap
    BY <1>4 DEF IInv, TypeOK, SliceStruct
<1> QED BY <1>2, <1>3, <1>5, <1>6, HandleStepKeeps

-----------------------------------------------------------------------------
(* The specification. *)

\* Nothing is allocated or held at the start.
LEMMA InitIInv == Init => IInv
<1> SUFFICES ASSUME Init PROVE IInv
    OBVIOUS
<1>1. TypeOK
    BY SliceAssumption
    DEF Init, TypeOK, Freed, Closed, ArrayStruct, SliceStruct, NewCells, Cells
<1>2. \A a \in Arrays : Holders(a) = {}
    BY SliceAssumption DEF Init, Holders, Closed
<1>3. RefCountsHolders
    BY <1>2, FS_EmptySet DEF RefCountsHolders, Init, Freed
<1>4. WindowInArray
    BY DEF WindowInArray, IsOpen, Init, Closed
<1> QED BY <1>1, <1>3, <1>4 DEF IInv

\* A step of any ARRAY* variable keeps IInv.
LEMMA HandleStepIInv == IInv /\ HandleStep => IInv'
<1> SUFFICES ASSUME IInv, NEW h \in Handles,
        \/ \E c \in 0 .. MaxCap : OpenArray(h, c)
        \/ \E c \in 0 .. MaxCap : \E d \in [0 .. c - 1 -> Values] : OpenArrayByData(h, d, c)
        \/ \E c \in 1 .. MaxCap : ReopenArray(h, c)
        \/ \E g \in Handles : AssignArray(g, h)
        \/ CloseArray(h)
        \/ \E i \in Idx, v \in Values : ArraySet(h, i, v)
    PROVE  IInv'
    BY DEF HandleStep
<1> QED BY OpenArrayKeeps, OpenArrayByDataKeeps, ReopenArrayKeeps, AssignArrayKeeps,
           CloseArrayKeeps, ArraySetKeeps

\* A step of any slice keeps IInv.
LEMMA SliceStepIInv == IInv /\ SliceStep => IInv'
<1> SUFFICES ASSUME IInv, NEW s \in Slices,
        \/ \E l, c \in 0 .. MaxCap : OpenSlice(s, l, c)
        \/ \E h \in Handles, i, j \in 0 .. MaxCap : OpenSliceByArray(s, h, i, j)
        \/ \E t \in Slices, i, j \in 0 .. MaxCap : OpenSliceBySlice(s, t, i, j)
        \/ CloseSlice(s)
        \/ \E i \in Idx, v \in Values : SliceSet(s, i, v)
        \/ \E v \in Values : SliceAppend(s, v)
        \/ \E i \in 0 .. MaxCap, v \in Values : SliceInsert(s, i, v)
        \/ \E i \in Idx : SlicePop(s, i)
    PROVE  IInv'
    BY DEF SliceStep
<1> QED BY OpenSliceKeeps, OpenSliceByArrayKeeps, OpenSliceBySliceKeeps, CloseSliceKeeps,
           SliceSetKeeps, SliceAppendKeeps, SliceInsertKeeps, SlicePopKeeps

\* A step that changes nothing keeps IInv.
LEMMA StutterIInv == IInv /\ UNCHANGED vars => IInv'
BY DEF IInv, TypeOK, RefCountsHolders, WindowInArray, Holders, IsOpen, vars

\* IInv is an invariant of the specification.
THEOREM Inductive == Spec => []IInv
BY InitIInv, HandleStepIInv, SliceStepIInv, StutterIInv, PTL DEF Spec, Next

\* Every reachable state is well typed: no reference count goes below zero and
\* no window or block outgrows the limit, for every set of holders.
THEOREM TypeCorrect == Spec => []TypeOK
BY Inductive, PTL DEF IInv

\* close_array frees an array exactly when its last holder closes it.
THEOREM CountsAreHolders == Spec => []RefCountsHolders
BY Inductive, PTL DEF IInv

\* No operation leaves a slice over freed memory or past the end of its array.
THEOREM WindowsAreSafe == Spec => []WindowInArray
BY Inductive, PTL DEF IInv

-----------------------------------------------------------------------------
(* What a caller sees through a slice. *)

Content == Values \cup {Junk}

\* The cells of a block d that a window shows; View(s) is s's.
Window(d, p, l) == [i \in 1 .. l |-> d[p + i - 1]]

\* A window inside the largest block shows a sequence.
LEMMA WindowIsSeq ==
    ASSUME NEW d \in Cells, NEW p \in Nat, NEW l \in Nat, p + l <= MaxCap
    PROVE  /\ Window(d, p, l) \in Seq(Content) /\ Len(Window(d, p, l)) = l
           /\ \A i \in 1 .. l : Window(d, p, l)[i] = d[p + i - 1]
<1>1. ASSUME NEW i \in 1 .. l PROVE d[p + i - 1] \in Content
    <2>1. p + i - 1 \in Idx
        BY SliceAssumption DEF Idx
    <2> QED BY <2>1 DEF Cells, Content
<1>2. Window(d, p, l) \in [1 .. l -> Content]
    BY <1>1 DEF Window
<1>3. \A i \in 1 .. l : Window(d, p, l)[i] = d[p + i - 1]
    BY DEF Window
<1>4. [1 .. l -> Content] \subseteq Seq(Content)
    OBVIOUS
<1>5. Len(Window(d, p, l)) = l
    BY <1>2
<1> QED BY <1>2, <1>3, <1>4, <1>5

\* Sequences with the same elements.
LEMMA SameElements ==
    ASSUME NEW S, NEW x \in Seq(S), NEW y \in Seq(S), Len(x) = Len(y),
           \A i \in 1 .. Len(x) : x[i] = y[i]
    PROVE  x = y
OBVIOUS

\* Sequences put together.
LEMMA Joined ==
    ASSUME NEW S, NEW x \in Seq(S), NEW y \in Seq(S)
    PROVE  /\ x \o y \in Seq(S) /\ Len(x \o y) = Len(x) + Len(y)
           /\ \A i \in 1 .. Len(x) : (x \o y)[i] = x[i]
           /\ \A i \in Len(x) + 1 .. Len(x) + Len(y) : (x \o y)[i] = y[i - Len(x)]
OBVIOUS

\* Block c has what window (p, l) of block d shows at offset q, with v behind it,
AppendedCells(d, p, l, c, q, v) ==
    c[q + l] = v /\ \A k \in 0 .. l - 1 : c[q + k] = d[p + k]

\* with v before it,
PrependedCells(d, p, l, c, q, v) ==
    c[q] = v /\ \A k \in 0 .. l - 1 : c[q + k + 1] = d[p + k]

\* or in its place, without the i-th.
RemovedCells(d, p, l, c, i) ==
    /\ \A k \in 0 .. i - 1 : c[p + k] = d[p + k]
    /\ \A k \in i .. l - 2 : c[p + k] = d[p + k + 1]

\* One cell more behind the elements, wherever they are now.
LEMMA ShowsAppended ==
    ASSUME NEW d \in Cells, NEW c \in Cells, NEW p \in Nat, NEW q \in Nat, NEW l \in Nat,
           p + l <= MaxCap, q + l < MaxCap, NEW v \in Content,
           AppendedCells(d, p, l, c, q, v)
    PROVE  Window(c, q, l + 1) = Append(Window(d, p, l), v)
<1> DEFINE w == Window(d, p, l)
           x == Window(c, q, l + 1)
<1>1. w \in Seq(Content) /\ Len(w) = l /\ \A i \in 1 .. l : w[i] = d[p + i - 1]
    BY WindowIsSeq
<1>2. l + 1 \in Nat /\ q + (l + 1) <= MaxCap
    BY SliceAssumption
<1>3. x \in Seq(Content) /\ Len(x) = l + 1 /\ \A i \in 1 .. l + 1 : x[i] = c[q + i - 1]
    BY <1>2, WindowIsSeq
<1> HIDE DEF w, x
<1>4. \A i \in 1 .. l : x[i] = w[i]
    <2> TAKE i \in 1 .. l
    <2>1. i - 1 \in 0 .. l - 1 /\ i \in 1 .. l + 1
        OBVIOUS
    <2>2. q + (i - 1) = q + i - 1 /\ p + (i - 1) = p + i - 1
        OBVIOUS
    <2> QED BY <1>1, <1>3, <2>1, <2>2 DEF AppendedCells
<1>5. x[l + 1] = v
    <2>1. q + (l + 1) - 1 = q + l /\ l + 1 \in 1 .. l + 1
        OBVIOUS
    <2> QED BY <1>3, <2>1 DEF AppendedCells
<1>6. x = Append(w, v)
    BY <1>1, <1>3, <1>4, <1>5
<1> QED BY <1>6 DEF w, x

\* One cell more before them.
LEMMA ShowsPrepended ==
    ASSUME NEW d \in Cells, NEW c \in Cells, NEW p \in Nat, NEW q \in Nat, NEW l \in Nat,
           p + l <= MaxCap, q + l < MaxCap, NEW v \in Content,
           PrependedCells(d, p, l, c, q, v)
    PROVE  Window(c, q, l + 1) = <<v>> \o Window(d, p, l)
<1> DEFINE w == Window(d, p, l)
           x == Window(c, q, l + 1)
<1>1. w \in Seq(Content) /\ Len(w) = l /\ \A i \in 1 .. l : w[i] = d[p + i - 1]
    BY WindowIsSeq
<1>2. l + 1 \in Nat /\ q + (l + 1) <= MaxCap
    BY SliceAssumption
<1>3. x \in Seq(Content) /\ Len(x) = l + 1 /\ \A i \in 1 .. l + 1 : x[i] = c[q + i - 1]
    BY <1>2, WindowIsSeq
<1> HIDE DEF w, x
<1>4. \A i \in 1 .. l : x[i + 1] = w[i]
    <2> TAKE i \in 1 .. l
    <2>1. i - 1 \in 0 .. l - 1 /\ i + 1 \in 1 .. l + 1
        OBVIOUS
    <2>2. q + (i - 1) + 1 = q + (i + 1) - 1 /\ p + (i - 1) = p + i - 1
        OBVIOUS
    <2> QED BY <1>1, <1>3, <2>1, <2>2 DEF PrependedCells
<1>5. x[1] = v
    <2>1. q + 1 - 1 = q /\ 1 \in 1 .. l + 1
        OBVIOUS
    <2> QED BY <1>3, <2>1 DEF PrependedCells
<1> DEFINE y == <<v>> \o w
<1>6. y \in Seq(Content) /\ Len(y) = l + 1 /\ y[1] = v /\ \A i \in 1 .. l : y[i + 1] = w[i]
    BY <1>1
<1> HIDE DEF y
<1>7. \A i \in 1 .. l + 1 : x[i] = y[i]
    <2> TAKE i \in 1 .. l + 1
    <2>1. i = 1 \/ (i - 1 \in 1 .. l /\ (i - 1) + 1 = i)
        OBVIOUS
    <2> QED BY <1>4, <1>5, <1>6, <2>1
<1>8. x = y
    BY <1>3, <1>6, <1>7, SameElements
<1> QED BY <1>8 DEF w, x, y

\* A sequence without its element at index i, from 0.
Without(w, i) == SubSeq(w, 1, i) \o SubSeq(w, i + 2, Len(w))

\* One cell less, at index i.
LEMMA ShowsRemoved ==
    ASSUME NEW d \in Cells, NEW c \in Cells, NEW p \in Nat, NEW l \in Nat, NEW i \in Nat,
           p + l <= MaxCap, i < l,
           RemovedCells(d, p, l, c, i)
    PROVE  Window(c, p, l - 1) = Without(Window(d, p, l), i)
<1> DEFINE w == Window(d, p, l)
           x == Window(c, p, l - 1)
<1>1. w \in Seq(Content) /\ Len(w) = l /\ \A j \in 1 .. l : w[j] = d[p + j - 1]
    BY WindowIsSeq
<1>2. l - 1 \in Nat /\ p + (l - 1) <= MaxCap
    BY SliceAssumption
<1>3. x \in Seq(Content) /\ Len(x) = l - 1 /\ \A j \in 1 .. l - 1 : x[j] = c[p + j - 1]
    BY <1>2, WindowIsSeq
<1> HIDE DEF w, x
<1>4. \A j \in 1 .. i : x[j] = w[j]
    <2> TAKE j \in 1 .. i
    <2>2. j \in 1 .. l /\ j \in 1 .. l - 1 /\ j - 1 \in 0 .. i - 1
        OBVIOUS
    <2>3. p + (j - 1) = p + j - 1
        OBVIOUS
    <2> QED BY <1>1, <1>3, <2>2, <2>3 DEF RemovedCells
<1>5. \A j \in i + 1 .. l - 1 : x[j] = w[j + 1]
    <2> TAKE j \in i + 1 .. l - 1
    <2>1. j - 1 \in i .. l - 2 /\ j + 1 \in 1 .. l /\ j \in 1 .. l - 1
        OBVIOUS
    <2>2. p + (j - 1) + 1 = p + (j + 1) - 1 /\ p + (j - 1) = p + j - 1
        OBVIOUS
    <2> QED BY <1>1, <1>3, <2>1, <2>2 DEF RemovedCells
<1> DEFINE u == SubSeq(w, 1, i)
           z == SubSeq(w, i + 2, l)
           y == u \o z
<1>6. u \in Seq(Content) /\ Len(u) = i /\ \A j \in 1 .. i : u[j] = w[j]
    BY <1>1
<1>7. z \in Seq(Content) /\ Len(z) = l - (i + 1)
      /\ \A j \in 1 .. l - (i + 1) : z[j] = w[j + i + 1]
    BY <1>1
<1> HIDE DEF u, z
<1>8. y \in Seq(Content) /\ Len(y) = l - 1 /\ (\A j \in 1 .. i : y[j] = u[j])
      /\ \A j \in i + 1 .. l - 1 : y[j] = z[j - i]
    <2>3. u \in Seq(Content) /\ z \in Seq(Content)
        BY <1>6, <1>7
    <2>1. /\ y \in Seq(Content) /\ Len(y) = Len(u) + Len(z)
          /\ \A j \in 1 .. Len(u) : y[j] = u[j]
          /\ \A j \in Len(u) + 1 .. Len(u) + Len(z) : y[j] = z[j - Len(u)]
        BY <2>3, Joined
    <2>2. i + (l - (i + 1)) = l - 1
        OBVIOUS
    <2> HIDE DEF y
    <2> QED BY <1>6, <1>7, <2>1, <2>2
<1> HIDE DEF y
<1>9. \A j \in 1 .. l - 1 : x[j] = y[j]
    <2> TAKE j \in 1 .. l - 1
    <2>1. CASE j <= i
        <3>1. j \in 1 .. i
            BY <2>1
        <3> QED BY <1>4, <1>6, <1>8, <3>1
    <2>2. CASE ~(j <= i)
        <3>1. j \in i + 1 .. l - 1 /\ j - i \in 1 .. l - (i + 1) /\ (j - i) + i + 1 = j + 1
            BY <2>2
        <3> QED BY <1>5, <1>7, <1>8, <3>1
    <2> QED BY <2>1, <2>2
<1>10. x = y
    BY <1>3, <1>8, <1>9, SameElements
<1> QED BY <1>1, <1>10 DEF w, x, y, u, z, Without

-----------------------------------------------------------------------------
(* What growing and storing leave. *)

\* Once there is room, s shows the elements it showed.  It stayed where it was or
\* moved to a block that was free; no other array has lost a cell, and the one it
\* left has its cells unless it was freed.
LEMMA RoomKeepsCells ==
    ASSUME IInv, NEW s \in Slices, IsOpen(s), NEW r \in WithRoom(s)
    PROVE  /\ \A k \in 0 .. sli[s].len - 1 :
                r.heap[r.slice.data].data[r.slice.pos + k]
                  = arr[sli[s].data].data[sli[s].pos + k]
           /\ r.slice.data = sli[s].data => r.heap = arr /\ r.slice = sli[s]
           /\ r.slice.data # sli[s].data =>
                /\ arr[r.slice.data].ref = 0
                /\ \A b \in Arrays \ {r.slice.data, sli[s].data} : r.heap[b] = arr[b]
                /\ arr[sli[s].data].ref # 1 =>
                     r.heap[sli[s].data].data = arr[sli[s].data].data
                /\ arr[sli[s].data].ref = 1 => r.heap[sli[s].data].ref = 0
<1> DEFINE p == sli[s].pos
           l == sli[s].len
<1>1. PICK d \in Arrays :
        /\ d = sli[s].data /\ arr[d] \in ArrayStruct /\ arr[d].ref \in Nat \ {0}
        /\ p \in 0 .. MaxCap /\ l \in 0 .. MaxCap
        /\ p + l <= arr[d].cap
    BY OpenSliceFacts DEF IInv, TypeOK
<1>2. CASE ~Full(s)
    BY <1>2 DEF WithRoom
<1>3. CASE Full(s)
    <2>1. PICK a \in Arrays : arr[a].ref = 0 /\ NextCap(s) <= MaxCap /\ r = GrownTo(s, a)
        BY <1>3 DEF WithRoom, Grown, Unallocated
    <2>2. /\ arr[d].cap - p \in 0 .. MaxCap /\ arr[d].cap - p = l
          /\ arr[d].cap + 1 - p \in Nat
        BY <1>1, <1>3, SliceAssumption DEF Full, ArrayStruct
    <2>3. NextCap(s) \in 0 .. MaxCap
        BY <1>1, <2>1, <2>2, GrownCapFacts DEF NextCap
    <2> DEFINE new == CopyFrom(arr[d], p, NextCap(s))
               H == [arr EXCEPT ![a] = new]
    <2>4. new \in ArrayStruct
        BY <1>1, <2>3, CopyFromType
    <2>5. \A k \in 0 .. l - 1 : new.data[k] = arr[d].data[p + k]
        <3> TAKE k \in 0 .. l - 1
        <3>1. k \in Idx /\ k < arr[d].cap - p
            BY <1>1, <2>2, SliceAssumption DEF Idx
        <3> QED BY <3>1 DEF CopyFrom
    <2>6. r.heap = ClosedHeap(H, d) /\ r.slice = [data |-> a, pos |-> 0, len |-> l]
        BY <1>1, <2>1 DEF GrownTo
    <2> HIDE DEF new
    <2>7. H \in [Arrays -> ArrayStruct] /\ a # d /\ H[d] = arr[d] /\ H[a] = new
          /\ \A b \in Arrays \ {a} : H[b] = arr[b]
        BY <1>1, <2>1, <2>4 DEF IInv, TypeOK, ArrayStruct
    <2> HIDE DEF H
    <2>8. /\ r.heap[d].ref = arr[d].ref - 1
          /\ arr[d].ref # 1 => r.heap[d].data = arr[d].data
          /\ \A b \in Arrays \ {d} : r.heap[b] = H[b]
        BY <1>1, <2>6, <2>7, CloseArrayFacts
    <2>9. r.slice.data = a /\ r.slice.pos = 0
        BY <2>6
    <2>10. \A k \in 0 .. l - 1 : r.heap[a].data[0 + k] = arr[d].data[p + k]
        <3>1. r.heap[a] = new
            BY <2>7, <2>8
        <3>2. \A k \in 0 .. l - 1 : 0 + k = k
            OBVIOUS
        <3> QED BY <2>5, <3>1, <3>2
    <2>11. \A b \in Arrays \ {a, d} : r.heap[b] = arr[b]
        BY <2>7, <2>8
    <2>12. arr[d].ref = 1 => r.heap[d].ref = 0
        BY <2>8
    <2> QED BY <1>1, <2>1, <2>7, <2>8, <2>9, <2>10, <2>11, <2>12
<1> QED BY <1>2, <1>3

\* s has grown if it had to, and its array's cells are c.
Lengthened(s, r, c) ==
    /\ arr' = [r.heap EXCEPT ![r.slice.data].data = c]
    /\ sli' = [sli EXCEPT ![s] = [r.slice EXCEPT !.len = @ + 1]]

\* Then s is one longer, and no other slice and no other array has changed.
LEMMA LengthenedFacts ==
    ASSUME IInv, NEW s \in Slices, IsOpen(s), NEW r \in WithRoom(s), NEW c \in Cells,
           Lengthened(s, r, c)
    PROVE  /\ sli'[s].data = r.slice.data /\ sli'[s].pos = r.slice.pos
           /\ sli'[s].len = sli[s].len + 1
           /\ \A t \in Slices \ {s} : sli'[t] = sli[t]
           /\ arr'[r.slice.data].data = c
           /\ \A b \in Arrays : arr'[b].ref = r.heap[b].ref
           /\ \A b \in Arrays \ {r.slice.data} : arr'[b] = r.heap[b]
<1>1. /\ r.heap \in [Arrays -> ArrayStruct] /\ r.slice \in SliceStruct
      /\ r.slice.data \in Arrays /\ r.slice.len = sli[s].len
    BY RoomFacts
<1>2. arr' = [r.heap EXCEPT ![r.slice.data].data = c]
      /\ sli' = [sli EXCEPT ![s] = [r.slice EXCEPT !.len = @ + 1]]
    BY DEF Lengthened
<1>3. sli \in [Slices -> SliceStruct]
    BY DEF IInv, TypeOK
<1>4. /\ sli'[s].data = r.slice.data /\ sli'[s].pos = r.slice.pos
      /\ sli'[s].len = r.slice.len + 1 /\ \A t \in Slices \ {s} : sli'[t] = sli[t]
    BY <1>1, <1>2, <1>3 DEF SliceStruct
<1>5. /\ arr'[r.slice.data].data = c /\ \A b \in Arrays : arr'[b].ref = r.heap[b].ref
      /\ \A b \in Arrays \ {r.slice.data} : arr'[b] = r.heap[b]
    BY <1>1, <1>2 DEF ArrayStruct
<1> QED BY <1>1, <1>4, <1>5

\* slice_append stores behind the window.
LEMMA AppendLengthens ==
    ASSUME IInv, NEW s \in Slices, NEW v \in Values, SliceAppend(s, v)
    PROVE  \E r \in WithRoom(s) : \E c \in Cells :
             /\ Lengthened(s, r, c)
             /\ c = [r.heap[r.slice.data].data EXCEPT ![r.slice.pos + r.slice.len] = v]
<1>1. PICK r \in WithRoom(s) :
        /\ arr' = [r.heap EXCEPT ![r.slice.data].data[r.slice.pos + r.slice.len] = v]
        /\ sli' = [sli EXCEPT ![s] = [r.slice EXCEPT !.len = @ + 1]]
    BY DEF SliceAppend
<1>2. r.heap \in [Arrays -> ArrayStruct] /\ r.slice.data \in Arrays
    BY RoomFacts DEF SliceAppend
<1> DEFINE c == [r.heap[r.slice.data].data EXCEPT ![r.slice.pos + r.slice.len] = v]
<1>3. c \in Cells
    BY <1>2 DEF ArrayStruct, Cells
<1>4. Lengthened(s, r, c)
    BY <1>1 DEF Lengthened
<1> QED BY <1>3, <1>4

\* slice_insert stores inside the longer window.
LEMMA InsertLengthens ==
    ASSUME IInv, NEW s \in Slices, NEW i \in 0 .. MaxCap, NEW v \in Values, SliceInsert(s, i, v)
    PROVE  \E r \in WithRoom(s) : \E c \in Cells :
             /\ Lengthened(s, r, c)
             /\ c = Inserted(r.heap[r.slice.data].data, r.slice.pos, r.slice.len, i, v)
<1>1. PICK r \in WithRoom(s) :
        /\ arr' = [r.heap EXCEPT ![r.slice.data].data =
                    Inserted(@, r.slice.pos, r.slice.len, i, v)]
        /\ sli' = [sli EXCEPT ![s] = [r.slice EXCEPT !.len = @ + 1]]
    BY DEF SliceInsert
<1>2. r.heap \in [Arrays -> ArrayStruct] /\ r.slice.data \in Arrays /\ r.slice \in SliceStruct
    BY RoomFacts DEF SliceInsert
<1> DEFINE c == Inserted(r.heap[r.slice.data].data, r.slice.pos, r.slice.len, i, v)
<1>3. c \in Cells
    BY <1>2, InsertedType DEF ArrayStruct, SliceStruct
<1>4. Lengthened(s, r, c)
    BY <1>1 DEF Lengthened
<1> QED BY <1>3, <1>4

\* s's elements, before and after a call.
LEMMA ViewIsWindow ==
    ASSUME NEW s \in Slices
    PROVE  /\ View(s) = Window(arr[sli[s].data].data, sli[s].pos, sli[s].len)
           /\ View(s)' = Window(arr'[sli'[s].data].data, sli'[s].pos, sli'[s].len)
BY DEF View, Window

\* The numbers that place a slice's next cell.
LEMMA RoomInBlock ==
    ASSUME IInv, NEW s \in Slices, IsOpen(s), NEW r \in WithRoom(s)
    PROVE  /\ sli[s].pos \in Nat /\ sli[s].len \in Nat /\ r.slice.pos \in Nat
           /\ r.slice.len = sli[s].len
           /\ sli[s].pos + sli[s].len <= MaxCap /\ r.slice.pos + sli[s].len < MaxCap
           /\ arr[sli[s].data].data \in Cells /\ r.heap[r.slice.data].data \in Cells
<1>1. /\ r.heap[r.slice.data] \in ArrayStruct /\ r.slice \in SliceStruct
      /\ r.slice.len = sli[s].len
      /\ r.slice.pos + r.slice.len < r.heap[r.slice.data].cap
    BY RoomFacts
<1>2. /\ sli[s].pos \in 0 .. MaxCap /\ sli[s].len \in 0 .. MaxCap
      /\ arr[sli[s].data] \in ArrayStruct
      /\ sli[s].pos + sli[s].len <= arr[sli[s].data].cap
    BY OpenSliceFacts
<1> QED BY <1>1, <1>2, SliceAssumption DEF ArrayStruct, SliceStruct

\* slice_append adds an element at the end of what the slice shows.
LEMMA AppendShown ==
    ASSUME IInv, NEW s \in Slices, NEW v \in Values, SliceAppend(s, v)
    PROVE  View(s)' = Append(View(s), v)
<1> DEFINE d == arr[sli[s].data].data
           p == sli[s].pos
           l == sli[s].len
<1>1. IsOpen(s)
    BY DEF SliceAppend
<1>2. PICK r \in WithRoom(s), c \in Cells :
             /\ Lengthened(s, r, c)
             /\ c = [r.heap[r.slice.data].data EXCEPT ![r.slice.pos + r.slice.len] = v]
    BY AppendLengthens
<1> DEFINE q == r.slice.pos
           e == r.heap[r.slice.data].data
<1>3. /\ p \in Nat /\ l \in Nat /\ q \in Nat /\ r.slice.len = l
      /\ p + l <= MaxCap /\ q + l < MaxCap /\ d \in Cells /\ e \in Cells
    BY <1>1, RoomInBlock
<1>4. \A k \in 0 .. l - 1 : e[q + k] = d[p + k]
    BY <1>1, RoomKeepsCells
<1>5. sli'[s].pos = q /\ sli'[s].len = l + 1 /\ arr'[sli'[s].data].data = c
    BY <1>1, <1>2, LengthenedFacts
<1>6. c = [e EXCEPT ![q + l] = v] /\ v \in Content
    BY <1>2, <1>3 DEF Content
<1>7. View(s) = Window(d, p, l) /\ View(s)' = Window(c, q, l + 1)
    BY <1>5, ViewIsWindow
<1> HIDE DEF d, p, l, q, e
<1>8. c[q + l] = v /\ \A k \in 0 .. l - 1 : c[q + k] = d[p + k]
    <2>1. q + l \in Idx
        BY <1>3, SliceAssumption DEF Idx
    <2>2. c[q + l] = v
        BY <1>3, <1>6, <2>1 DEF Cells
    <2>3. ASSUME NEW k \in 0 .. l - 1 PROVE c[q + k] = d[p + k]
        <3>1. q + k # q + l /\ q + k \in Idx
            BY <1>3, SliceAssumption DEF Idx
        <3>2. c[q + k] = e[q + k]
            BY <1>3, <1>6, <3>1 DEF Cells
        <3> QED BY <1>4, <3>2
    <2> QED BY <2>2, <2>3
<1>9. Window(c, q, l + 1) = Append(Window(d, p, l), v)
    <2>1. d \in Cells /\ c \in Cells /\ p \in Nat /\ q \in Nat /\ l \in Nat /\ v \in Content
        BY <1>2, <1>3, <1>6
    <2>2. p + l <= MaxCap /\ q + l < MaxCap
        BY <1>3
    <2>3. AppendedCells(d, p, l, c, q, v)
        BY <1>8 DEF AppendedCells
    <2> QED BY <2>1, <2>2, <2>3, ShowsAppended
<1> QED BY <1>7, <1>9

\* slice_insert at index 0 adds one before it.
LEMMA InsertShown ==
    ASSUME IInv, NEW s \in Slices, NEW v \in Values, SliceInsert(s, 0, v)
    PROVE  View(s)' = <<v>> \o View(s)
<1> DEFINE d == arr[sli[s].data].data
           p == sli[s].pos
           l == sli[s].len
<1>1. IsOpen(s)
    BY DEF SliceInsert
<1>0. 0 \in 0 .. MaxCap
    BY SliceAssumption
<1>2. PICK r \in WithRoom(s), c \in Cells :
             /\ Lengthened(s, r, c)
             /\ c = Inserted(r.heap[r.slice.data].data, r.slice.pos, r.slice.len, 0, v)
    BY <1>0, InsertLengthens
<1> DEFINE q == r.slice.pos
           e == r.heap[r.slice.data].data
<1>3. /\ p \in Nat /\ l \in Nat /\ q \in Nat /\ r.slice.len = l
      /\ p + l <= MaxCap /\ q + l < MaxCap /\ d \in Cells /\ e \in Cells
    BY <1>1, RoomInBlock
<1>4. \A k \in 0 .. l - 1 : e[q + k] = d[p + k]
    BY <1>1, RoomKeepsCells
<1>5. sli'[s].pos = q /\ sli'[s].len = l + 1 /\ arr'[sli'[s].data].data = c
    BY <1>1, <1>2, LengthenedFacts
<1>6. c = Inserted(e, q, l, 0, v) /\ v \in Content
    BY <1>2, <1>3 DEF Content
<1>7. View(s) = Window(d, p, l) /\ View(s)' = Window(c, q, l + 1)
    BY <1>5, ViewIsWindow
<1> HIDE DEF d, p, l, q, e
<1>8. c[q] = v /\ \A k \in 0 .. l - 1 : c[q + k + 1] = d[p + k]
    <2> DEFINE m == [k \in Idx |-> IF q < k /\ k <= q + l - 0 THEN e[k - 1] ELSE e[k]]
    <2>1. q \in Idx /\ q + 0 = q
        BY <1>3, SliceAssumption DEF Idx
    <2>2. c = [m EXCEPT ![q + 0] = v]
        BY <1>6 DEF Inserted
    <2>3. c[q] = v
        BY <2>1, <2>2
    <2>4. ASSUME NEW k \in 0 .. l - 1 PROVE c[q + k + 1] = d[p + k]
        <3>1. /\ q + k + 1 # q /\ q + k + 1 \in Idx /\ q < q + k + 1
              /\ q + k + 1 <= q + l - 0 /\ (q + k + 1) - 1 = q + k
            BY <1>3, SliceAssumption DEF Idx
        <3>2. m[q + k + 1] = e[q + k]
            BY <3>1
        <3> HIDE DEF m
        <3>3. c[q + k + 1] = m[q + k + 1]
            BY <2>1, <2>2, <3>1
        <3> QED BY <1>4, <3>2, <3>3
    <2> QED BY <2>3, <2>4
<1>9. Window(c, q, l + 1) = <<v>> \o Window(d, p, l)
    <2>1. d \in Cells /\ c \in Cells /\ p \in Nat /\ q \in Nat /\ l \in Nat /\ v \in Content
        BY <1>2, <1>3, <1>6
    <2>2. p + l <= MaxCap /\ q + l < MaxCap
        BY <1>3
    <2>3. PrependedCells(d, p, l, c, q, v)
        BY <1>8 DEF PrependedCells
    <2> QED BY <2>1, <2>2, <2>3, ShowsPrepended
<1> QED BY <1>7, <1>9

\* slice_pop's cells and window.
LEMMA PopFacts ==
    ASSUME IInv, NEW s \in Slices, NEW i \in Idx, SlicePop(s, i)
    PROVE  /\ sli[s].data \in Arrays /\ arr[sli[s].data].data \in Cells
           /\ sli[s].pos \in Nat /\ sli[s].len \in Nat /\ sli[s].pos + sli[s].len <= MaxCap
           /\ i \in Nat /\ i < sli[s].len
           /\ sli'[s].data = sli[s].data /\ sli'[s].pos = sli[s].pos
           /\ sli'[s].len = sli[s].len - 1
           /\ arr'[sli[s].data].data
                = Popped(arr[sli[s].data].data, sli[s].pos, sli[s].len, i)
           /\ \A b \in Arrays \ {sli[s].data} : arr'[b] = arr[b]
<1>1. /\ sli[s].data \in Arrays
      /\ sli[s].pos \in 0 .. MaxCap /\ sli[s].len \in 0 .. MaxCap
      /\ arr[sli[s].data] \in ArrayStruct
      /\ sli[s].pos + sli[s].len <= arr[sli[s].data].cap
    BY OpenSliceFacts DEF SlicePop
<1>2. /\ arr' = [arr EXCEPT ![sli[s].data].data = Popped(@, sli[s].pos, sli[s].len, i)]
      /\ sli' = [sli EXCEPT ![s].len = @ - 1] /\ i < sli[s].len
    BY DEF SlicePop
<1>3. arr \in [Arrays -> ArrayStruct] /\ sli \in [Slices -> SliceStruct]
    BY DEF IInv, TypeOK
<1>4. /\ sli'[s].data = sli[s].data /\ sli'[s].pos = sli[s].pos
      /\ sli'[s].len = sli[s].len - 1
    BY <1>2, <1>3 DEF SliceStruct
<1> DEFINE c == Popped(arr[sli[s].data].data, sli[s].pos, sli[s].len, i)
<1>5. arr' = [arr EXCEPT ![sli[s].data].data = c]
    BY <1>2
<1> HIDE DEF c
<1>6. arr'[sli[s].data].data = c /\ \A b \in Arrays \ {sli[s].data} : arr'[b] = arr[b]
    BY <1>1, <1>3, <1>5 DEF ArrayStruct
<1>7. i \in Nat /\ sli[s].pos + sli[s].len <= MaxCap
    BY <1>1, SliceAssumption DEF Idx, ArrayStruct
<1> QED BY <1>1, <1>2, <1>4, <1>6, <1>7 DEF ArrayStruct, c

\* slice_pop takes out the element at its index.
LEMMA PopShown ==
    ASSUME IInv, NEW s \in Slices, NEW i \in Idx, SlicePop(s, i)
    PROVE  View(s)' = SubSeq(View(s), 1, i) \o SubSeq(View(s), i + 2, Len(View(s)))
<1> DEFINE d == arr[sli[s].data].data
           p == sli[s].pos
           l == sli[s].len
           c == Popped(d, p, l, i)
<1>1. /\ d \in Cells /\ p \in Nat /\ l \in Nat /\ p + l <= MaxCap /\ i \in Nat /\ i < l
      /\ sli'[s].pos = p /\ sli'[s].len = l - 1 /\ arr'[sli'[s].data].data = c
    BY PopFacts
<1>2. View(s) = Window(d, p, l) /\ View(s)' = Window(c, p, l - 1)
    BY <1>1, ViewIsWindow
<1> HIDE DEF d, p, l
<1>3. c \in Cells
    BY <1>1, PoppedType
<1>4. \A k \in 0 .. i - 1 : c[p + k] = d[p + k]
    <2> TAKE k \in 0 .. i - 1
    <2>1. p + k \in Idx /\ ~(p + i <= p + k)
        BY <1>1, SliceAssumption DEF Idx
    <2> QED BY <2>1 DEF Popped
<1>5. \A k \in i .. l - 2 : c[p + k] = d[p + k + 1]
    <2> TAKE k \in i .. l - 2
    <2>1. p + k \in Idx /\ p + i <= p + k /\ p + k < p + l - 1
        BY <1>1, SliceAssumption DEF Idx
    <2> QED BY <2>1 DEF Popped
<1> HIDE DEF c
<1>6. Window(c, p, l - 1) = Without(Window(d, p, l), i)
    <2>1. d \in Cells /\ p \in Nat /\ l \in Nat /\ i \in Nat
        BY <1>1
    <2>2. p + l <= MaxCap /\ i < l
        BY <1>1
    <2>3. RemovedCells(d, p, l, c, i)
        BY <1>4, <1>5 DEF RemovedCells
    <2> QED BY <1>3, <2>1, <2>2, <2>3, ShowsRemoved
<1> QED BY <1>2, <1>6 DEF Without

\* Whoever else shares the array, and whether the call grows the slice, append adds
\* at the end of what the slice shows, insert at index 0 before it, and pop
\* removes what is at its index.
THEOREM ActsOnASequence == Spec => OwnViewIsASequence
<1> DEFINE A == \A s \in Slices :
        /\ \A v \in Values : SliceAppend(s, v) => View(s)' = Append(View(s), v)
        /\ \A v \in Values : SliceInsert(s, 0, v) => View(s)' = <<v>> \o View(s)
        /\ \A i \in Idx : SlicePop(s, i) =>
            View(s)' = SubSeq(View(s), 1, i) \o SubSeq(View(s), i + 2, Len(View(s)))
<1>1. IInv => A
    <2> SUFFICES ASSUME IInv, NEW s \in Slices
                 PROVE  /\ \A v \in Values : SliceAppend(s, v) => View(s)' = Append(View(s), v)
                        /\ \A v \in Values : SliceInsert(s, 0, v) => View(s)' = <<v>> \o View(s)
                        /\ \A i \in Idx : SlicePop(s, i) =>
                            View(s)' = SubSeq(View(s), 1, i) \o SubSeq(View(s), i + 2, Len(View(s)))
        OBVIOUS
    <2>1. ASSUME NEW v \in Values, SliceAppend(s, v) PROVE View(s)' = Append(View(s), v)
        BY <2>1, AppendShown
    <2>2. ASSUME NEW v \in Values, SliceInsert(s, 0, v) PROVE View(s)' = <<v>> \o View(s)
        BY <2>2, InsertShown
    <2>3. ASSUME NEW i \in Idx, SlicePop(s, i)
          PROVE  View(s)' = SubSeq(View(s), 1, i) \o SubSeq(View(s), i + 2, Len(View(s)))
        BY <2>3, PopShown
    <2> QED BY <2>1, <2>2, <2>3
<1>2. IInv /\ [Next]_vars => [A]_vars
    BY <1>1
<1> QED BY <1>2, Inductive, PTL DEF Spec, OwnViewIsASequence

-----------------------------------------------------------------------------
(* What the others see of a growth. *)

\* Nobody holds a block that is not allocated.
LEMMA NobodyHoldsFree ==
    ASSUME IInv, NEW a \in Arrays, arr[a].ref = 0
    PROVE  Holders(a) = {}
<1>1. IsFiniteSet(Holders(a)) /\ Cardinality(Holders(a)) = 0
    BY HoldersFinite DEF IInv, RefCountsHolders
<1> QED BY <1>1, FS_EmptySet

\* What a growth of s into b must leave alone.
Alone(s, b) ==
    /\ Holders(b)' = {s}
    /\ \A t \in Slices \ {s} : IsOpen(t) => View(t)' = View(t)
    /\ \A a \in Arrays : Holders(a) \ {s} # {} => arr'[a].data = arr[a].data

\* A slice that grows leaves the others their arrays.
LEMMA LengthenIsolates ==
    ASSUME IInv, NEW s \in Slices, IsOpen(s), NEW r \in WithRoom(s), NEW c \in Cells,
           Lengthened(s, r, c), handle' = handle,
           NEW b \in Arrays, sli[s].data # b, sli'[s].data = b
    PROVE  Alone(s, b)
<1>1. /\ sli'[s].data = r.slice.data /\ \A t \in Slices \ {s} : sli'[t] = sli[t]
      /\ \A a \in Arrays \ {r.slice.data} : arr'[a] = r.heap[a]
    BY LengthenedFacts
<1>2. r.slice.data = b /\ r.slice.data # sli[s].data
    BY <1>1
<1>3. /\ arr[b].ref = 0
      /\ \A a \in Arrays \ {b, sli[s].data} : r.heap[a] = arr[a]
      /\ arr[sli[s].data].ref # 1 => r.heap[sli[s].data].data = arr[sli[s].data].data
    BY <1>2, RoomKeepsCells
<1>4. sli[s].data \in Arrays /\ s \notin Handles
    BY OpenSliceFacts, SliceAssumption
<1>5. Holders(b) = {}
    BY <1>3, NobodyHoldsFree
<1>6. Holders(b)' = {s}
    BY <1>1, <1>5 DEF Holders
<1>7. ASSUME NEW a \in Arrays, NEW x \in Holders(a) \ {s} PROVE arr'[a].data = arr[a].data
    <2>1. a # b
        BY <1>5
    <2>2. CASE a = sli[s].data
        <3>1. s \in Holders(a)
            BY <2>2 DEF Holders
        <3>2. arr[a].ref # 1
            BY <3>1, Held
        <3> QED BY <1>1, <1>2, <1>3, <2>1, <2>2, <3>2
    <2>3. CASE a # sli[s].data
        BY <1>1, <1>2, <1>3, <2>1, <2>3
    <2> QED BY <2>2, <2>3
<1>8. ASSUME NEW t \in Slices \ {s}, IsOpen(t) PROVE View(t)' = View(t)
    <2>1. sli[t].data \in Arrays /\ sli'[t] = sli[t]
        BY <1>1, <1>8, OpenSliceFacts
    <2>2. t \in Holders(sli[t].data) \ {s}
        BY DEF Holders
    <2>3. arr'[sli[t].data].data = arr[sli[t].data].data
        BY <1>7, <2>1, <2>2
    <2>4. View(t) = Window(arr[sli[t].data].data, sli[t].pos, sli[t].len)
          /\ View(t)' = Window(arr'[sli'[t].data].data, sli'[t].pos, sli'[t].len)
        BY ViewIsWindow
    <2> QED BY <2>1, <2>3, <2>4
<1>9. \A a \in Arrays : Holders(a) \ {s} # {} => arr'[a].data = arr[a].data
    BY <1>7
<1> QED BY <1>6, <1>8, <1>9 DEF Alone

\* A step of s that moves it to another array is a growth.
LEMMA MoveIsGrowth ==
    ASSUME IInv, Next, NEW s \in Slices, IsOpen(s), NEW b \in Arrays,
           sli[s].data # b, sli'[s].data = b
    PROVE  \E r \in WithRoom(s) : \E c \in Cells : Lengthened(s, r, c) /\ handle' = handle
<1>1. sli \in [Slices -> SliceStruct] /\ NoArray \notin Arrays
    BY SliceAssumption DEF IInv, TypeOK
<1>2. sli' # sli
    OBVIOUS
<1>3. CASE HandleStep
    BY <1>2, <1>3 DEF HandleStep, OpenArray, OpenArrayByData, ReopenArray, AssignArray,
                      CloseArray, ArraySet
<1>4. CASE SliceStep
    <2>1. PICK t \in Slices :
        \/ \E l, k \in 0 .. MaxCap : OpenSlice(t, l, k)
        \/ \E h \in Handles, i, j \in 0 .. MaxCap : OpenSliceByArray(t, h, i, j)
        \/ \E u \in Slices, i, j \in 0 .. MaxCap : OpenSliceBySlice(t, u, i, j)
        \/ CloseSlice(t)
        \/ \E i \in Idx, v \in Values : SliceSet(t, i, v)
        \/ \E v \in Values : SliceAppend(t, v)
        \/ \E i \in 0 .. MaxCap, v \in Values : SliceInsert(t, i, v)
        \/ \E i \in Idx : SlicePop(t, i)
        BY <1>4 DEF SliceStep
    <2>2. ASSUME sli' = [sli EXCEPT ![t] = Closed] \/ sli' = sli \/ sli' = [sli EXCEPT ![t].len = @ - 1]
          PROVE  FALSE
        BY <1>1, <2>2 DEF Closed, SliceStruct
    <2>3. ASSUME ~IsOpen(t), NEW x, sli' = [sli EXCEPT ![t] = x]
          PROVE  FALSE
        <3>1. t # s
            BY <2>3
        <3> QED BY <1>1, <2>3, <3>1
    <2>4. CASE \E l, k \in 0 .. MaxCap : OpenSlice(t, l, k)
        BY <2>3, <2>4 DEF OpenSlice
    <2>5. CASE \E h \in Handles, i, j \in 0 .. MaxCap : OpenSliceByArray(t, h, i, j)
        BY <2>3, <2>5 DEF OpenSliceByArray
    <2>6. CASE \E u \in Slices, i, j \in 0 .. MaxCap : OpenSliceBySlice(t, u, i, j)
        BY <2>3, <2>6 DEF OpenSliceBySlice
    <2>7. CASE CloseSlice(t)
        BY <2>2, <2>7 DEF CloseSlice
    <2>8. CASE \E i \in Idx, v \in Values : SliceSet(t, i, v)
        BY <2>2, <2>8 DEF SliceSet
    <2>9. CASE \E i \in Idx : SlicePop(t, i)
        BY <2>2, <2>9 DEF SlicePop
    <2>10. ASSUME NEW r \in WithRoom(t), NEW c \in Cells, IsOpen(t), Lengthened(t, r, c)
           PROVE  t = s
        <3>1. \A u \in Slices \ {t} : sli'[u] = sli[u]
            BY <2>10, LengthenedFacts
        <3> QED BY <3>1
    <2>11. CASE \E v \in Values : SliceAppend(t, v)
        <3>1. PICK v \in Values : SliceAppend(t, v)
            BY <2>11
        <3>2. \E r \in WithRoom(t) : \E c \in Cells : Lengthened(t, r, c)
            BY <3>1, AppendLengthens
        <3>3. handle' = handle /\ IsOpen(t)
            BY <3>1 DEF SliceAppend
        <3>4. t = s
            BY <2>10, <3>2, <3>3
        <3> QED BY <3>2, <3>3, <3>4
    <2>12. CASE \E i \in 0 .. MaxCap, v \in Values : SliceInsert(t, i, v)
        <3>1. PICK i \in 0 .. MaxCap, v \in Values : SliceInsert(t, i, v)
            BY <2>12
        <3>2. \E r \in WithRoom(t) : \E c \in Cells : Lengthened(t, r, c)
            BY <3>1, InsertLengthens
        <3>3. handle' = handle /\ IsOpen(t)
            BY <3>1 DEF SliceInsert
        <3>4. t = s
            BY <2>10, <3>2, <3>3
        <3> QED BY <3>2, <3>3, <3>4
    <2> QED BY <2>1, <2>4, <2>5, <2>6, <2>7, <2>8, <2>9, <2>11, <2>12
<1> QED BY <1>3, <1>4 DEF Next

\* A slice that outgrows its array moves to one of its own; what any other slice
\* shows and any array somebody else holds stay as they were.
THEOREM GrowthIsPrivate == Spec => GrowthIsolates
<1> DEFINE A == \A s \in Slices, b \in Arrays :
            (IsOpen(s) /\ sli[s].data # b /\ sli'[s].data = b) =>
                /\ Holders(b)' = {s}
                /\ \A t \in Slices \ {s} : IsOpen(t) => View(t)' = View(t)
                /\ \A a \in Arrays : Holders(a) \ {s} # {} => arr'[a].data = arr[a].data
<1>1. IInv /\ [Next]_vars => [A]_vars
    <2> SUFFICES ASSUME IInv, Next PROVE A
        OBVIOUS
    <2> SUFFICES ASSUME NEW s \in Slices, NEW b \in Arrays,
                        IsOpen(s), sli[s].data # b, sli'[s].data = b
                 PROVE  Alone(s, b)
        BY DEF Alone
    <2> QED BY MoveIsGrowth, LengthenIsolates
<1> QED BY <1>1, Inductive, PTL DEF Spec, GrowthIsolates

-----------------------------------------------------------------------------
(* Where a call writes. *)

\* Some slice shows cell i of array a after the step.
Shown(a, i) ==
    \E s \in Slices : /\ sli'[s].data = a
                      /\ sli'[s].pos <= i /\ i < sli'[s].pos + sli'[s].len

\* Array a was and is allocated, and its cell i has changed.
Written(a, i) == arr[a].ref > 0 /\ arr'[a].ref > 0 /\ arr'[a].data[i] # arr[a].data[i]

\* A slice that gets one element longer, and whose cells only change inside its
\* window then, writes nowhere else.
LEMMA LengthenWrites ==
    ASSUME IInv, NEW s \in Slices, IsOpen(s), NEW r \in WithRoom(s), NEW c \in Cells,
           Lengthened(s, r, c),
           \A k \in Idx : c[k] # r.heap[r.slice.data].data[k] =>
                r.slice.pos <= k /\ k < r.slice.pos + (r.slice.len + 1),
           NEW a \in Arrays, NEW i \in Idx, Written(a, i)
    PROVE  Shown(a, i)
<1>1. /\ sli'[s].data = r.slice.data /\ sli'[s].pos = r.slice.pos
      /\ sli'[s].len = sli[s].len + 1 /\ arr'[r.slice.data].data = c
      /\ \A b \in Arrays : arr'[b].ref = r.heap[b].ref
      /\ \A b \in Arrays \ {r.slice.data} : arr'[b] = r.heap[b]
    BY LengthenedFacts
<1>2. r.slice.len = sli[s].len /\ sli[s].data \in Arrays
    BY RoomInBlock, OpenSliceFacts
<1>3. CASE r.slice.data = sli[s].data
    <2>1. r.heap = arr
        BY <1>3, RoomKeepsCells
    <2>2. a = r.slice.data
        BY <1>1, <2>1 DEF Written
    <2>3. c[i] # r.heap[r.slice.data].data[i]
        BY <1>1, <2>1, <2>2 DEF Written
    <2> QED BY <1>1, <1>2, <2>2, <2>3 DEF Shown
<1>4. CASE r.slice.data # sli[s].data
    <2>1. /\ arr[r.slice.data].ref = 0
          /\ \A b \in Arrays \ {r.slice.data, sli[s].data} : r.heap[b] = arr[b]
          /\ arr[sli[s].data].ref # 1 => r.heap[sli[s].data].data = arr[sli[s].data].data
          /\ arr[sli[s].data].ref = 1 => r.heap[sli[s].data].ref = 0
        BY <1>4, RoomKeepsCells
    <2>2. a # r.slice.data
        BY <2>1 DEF Written
    <2>3. CASE a = sli[s].data
        BY <1>1, <2>1, <2>2, <2>3 DEF Written
    <2>4. CASE a # sli[s].data
        BY <1>1, <2>1, <2>2, <2>4 DEF Written
    <2> QED BY <2>3, <2>4
<1> QED BY <1>3, <1>4

\* slice_append's store.
LEMMA AppendWrites ==
    ASSUME IInv, NEW s \in Slices, NEW v \in Values, SliceAppend(s, v),
           NEW a \in Arrays, NEW i \in Idx, Written(a, i)
    PROVE  Shown(a, i)
<1>1. IsOpen(s)
    BY DEF SliceAppend
<1>2. PICK r \in WithRoom(s), c \in Cells :
             /\ Lengthened(s, r, c)
             /\ c = [r.heap[r.slice.data].data EXCEPT ![r.slice.pos + r.slice.len] = v]
    BY AppendLengthens
<1> DEFINE q == r.slice.pos
           l == r.slice.len
           e == r.heap[r.slice.data].data
<1>3. q \in Nat /\ l \in Nat /\ e \in Cells
    BY <1>1, RoomInBlock
<1>4. c = [e EXCEPT ![q + l] = v]
    BY <1>2
<1> HIDE DEF q, l, e
<1>5. \A k \in Idx : c[k] # e[k] => q <= k /\ k < q + (l + 1)
    <2> SUFFICES ASSUME NEW k \in Idx, c[k] # e[k] PROVE q <= k /\ k < q + (l + 1)
        OBVIOUS
    <2>1. k = q + l
        BY <1>3, <1>4 DEF Cells
    <2> QED BY <1>3, <2>1
<1> QED BY <1>1, <1>2, <1>5, LengthenWrites DEF q, l, e

\* slice_insert's move and store.
LEMMA InsertWrites ==
    ASSUME IInv, NEW s \in Slices, NEW j \in 0 .. MaxCap, NEW v \in Values, SliceInsert(s, j, v),
           NEW a \in Arrays, NEW i \in Idx, Written(a, i)
    PROVE  Shown(a, i)
<1>1. IsOpen(s) /\ j <= sli[s].len /\ j \in Nat
    BY SliceAssumption DEF SliceInsert
<1>2. PICK r \in WithRoom(s), c \in Cells :
             /\ Lengthened(s, r, c)
             /\ c = Inserted(r.heap[r.slice.data].data, r.slice.pos, r.slice.len, j, v)
    BY InsertLengthens
<1> DEFINE q == r.slice.pos
           l == r.slice.len
           e == r.heap[r.slice.data].data
<1>3. q \in Nat /\ l \in Nat /\ e \in Cells /\ j <= l
    BY <1>1, RoomInBlock
<1>4. c = Inserted(e, q, l, j, v)
    BY <1>2
<1> HIDE DEF q, l, e
<1>5. \A k \in Idx : c[k] # e[k] => q <= k /\ k < q + (l + 1)
    <2> SUFFICES ASSUME NEW k \in Idx, c[k] # e[k] PROVE q <= k /\ k < q + (l + 1)
        OBVIOUS
    <2> DEFINE m == [n \in Idx |-> IF q < n /\ n <= q + l - j THEN e[n - 1] ELSE e[n]]
    <2>1. c = [m EXCEPT ![q + j] = v]
        BY <1>4 DEF Inserted
    <2>2. DOMAIN m = Idx /\ m[k] = IF q < k /\ k <= q + l - j THEN e[k - 1] ELSE e[k]
        OBVIOUS
    <2> HIDE DEF m
    <2>3. k = q + j \/ (q < k /\ k <= q + l - j)
        BY <2>1, <2>2
    <2>4. k \in Int
        BY DEF Idx
    <2> QED BY <1>1, <1>3, <2>3, <2>4
<1> QED BY <1>1, <1>2, <1>5, LengthenWrites DEF q, l, e

\* slice_pop's move.
LEMMA PopWrites ==
    ASSUME IInv, NEW s \in Slices, NEW j \in Idx, SlicePop(s, j),
           NEW a \in Arrays, NEW i \in Idx, Written(a, i)
    PROVE  Shown(a, i)
<1> DEFINE d == sli[s].data
           e == arr[d].data
           p == sli[s].pos
           l == sli[s].len
<1>1. /\ e \in Cells /\ p \in Nat /\ l \in Nat /\ j \in Nat
      /\ sli'[s].data = d /\ sli'[s].pos = p /\ sli'[s].len = l - 1
      /\ arr'[d].data = Popped(e, p, l, j)
      /\ \A b \in Arrays \ {d} : arr'[b] = arr[b]
    BY PopFacts
<1>2. a = d
    BY <1>1 DEF Written
<1>3. arr'[d].data[i] # e[i]
    BY <1>2 DEF Written
<1> HIDE DEF d, e, p, l
<1>4. p + j <= i /\ i < p + l - 1
    BY <1>1, <1>3 DEF Popped
<1>5. p <= i /\ i < p + (l - 1)
    <2>1. i \in Int
        BY DEF Idx
    <2> QED BY <1>1, <1>4, <2>1
<1> QED BY <1>1, <1>2, <1>5 DEF Shown

\* slice_set's store.
LEMMA SetWrites ==
    ASSUME IInv, NEW s \in Slices, NEW j \in Idx, NEW v \in Values, SliceSet(s, j, v),
           NEW a \in Arrays, NEW i \in Idx, Written(a, i)
    PROVE  Shown(a, i)
<1>1. /\ IsOpen(s) /\ j < sli[s].len /\ sli' = sli
      /\ arr' = [arr EXCEPT ![sli[s].data].data[sli[s].pos + j] = v]
    BY DEF SliceSet
<1>2. arr \in [Arrays -> ArrayStruct] /\ sli[s].data \in Arrays
      /\ sli[s].pos \in Nat /\ sli[s].len \in Nat
    BY <1>1, OpenSliceFacts DEF IInv, TypeOK
<1>3. a = sli[s].data
    BY <1>1, <1>2 DEF Written
<1>4. i = sli[s].pos + j
    BY <1>1, <1>2, <1>3 DEF Written, ArrayStruct, Cells
<1>5. j \in Nat
    BY DEF Idx
<1> QED BY <1>1, <1>2, <1>3, <1>4, <1>5 DEF Shown

\* close_array leaves the cells of what stays allocated.
LEMMA CloseWrites ==
    ASSUME IInv, NEW d \in Arrays, arr[d].ref \in Nat \ {0}, arr' = ClosedHeap(arr, d),
           NEW a \in Arrays, NEW i
    PROVE  ~Written(a, i)
<1>1. /\ arr'[d].ref = arr[d].ref - 1
      /\ arr[d].ref # 1 => arr'[d].data = arr[d].data
      /\ \A b \in Arrays \ {d} : arr'[b] = arr[b]
    BY CloseArrayFacts DEF IInv, TypeOK
<1>2. arr[d].ref = 1 => arr'[d].ref = 0
    BY <1>1
<1> QED BY <1>1, <1>2 DEF Written

\* Nothing is written in a block that is opened, nor by counting a holder.
LEMMA OpenWrites ==
    ASSUME IInv, NEW d \in Arrays, NEW new,
           \/ arr[d].ref = 0 /\ arr' = [arr EXCEPT ![d] = new]
           \/ arr' = Assigned(arr, d),
           NEW a \in Arrays, NEW i
    PROVE  ~Written(a, i)
<1>1. arr \in [Arrays -> ArrayStruct]
    BY DEF IInv, TypeOK
<1>2. CASE arr[d].ref = 0 /\ arr' = [arr EXCEPT ![d] = new]
    BY <1>1, <1>2 DEF Written
<1>3. CASE arr' = Assigned(arr, d)
    BY <1>1, <1>3 DEF Written, Assigned, ArrayStruct
<1> QED BY <1>2, <1>3

\* The steps of ARRAY* variables write in arrays a variable holds.
LEMMA HandleWrites ==
    ASSUME IInv, HandleStep, NEW a \in Arrays, NEW i \in Idx, \A h \in Handles : handle[h] # a
    PROVE  ~Written(a, i)
<1>1. PICK h \in Handles :
        \/ \E c \in 0 .. MaxCap : OpenArray(h, c)
        \/ \E c \in 0 .. MaxCap : \E d \in [0 .. c - 1 -> Values] : OpenArrayByData(h, d, c)
        \/ \E c \in 1 .. MaxCap : ReopenArray(h, c)
        \/ \E g \in Handles : AssignArray(g, h)
        \/ CloseArray(h)
        \/ \E j \in Idx, v \in Values : ArraySet(h, j, v)
    BY DEF HandleStep
<1>2. arr \in [Arrays -> ArrayStruct]
    BY DEF IInv, TypeOK
<1>3. CASE \E c \in 0 .. MaxCap : OpenArray(h, c)
    BY <1>3, OpenWrites DEF OpenArray, Opened, Unallocated
<1>4. CASE \E c \in 0 .. MaxCap : \E d \in [0 .. c - 1 -> Values] : OpenArrayByData(h, d, c)
    BY <1>4, OpenWrites DEF OpenArrayByData, Unallocated
<1>5. CASE \E c \in 1 .. MaxCap : ReopenArray(h, c)
    <2>1. handle[h] # a /\ handle[h] \in Arrays
        BY <1>5, HandleFacts DEF ReopenArray
    <2>2. arr[a].ref > 0 => arr'[a] = arr[a]
        BY <1>2, <1>5, <2>1 DEF ReopenArray, Unallocated
    <2> QED BY <2>2 DEF Written
<1>6. CASE \E g \in Handles : AssignArray(g, h)
    <2>1. handle[h] \in Arrays /\ arr' = Assigned(arr, handle[h])
        BY <1>6, HandleFacts DEF AssignArray
    <2> QED BY <2>1, OpenWrites
<1>7. CASE CloseArray(h)
    <2>1. handle[h] \in Arrays /\ arr[handle[h]].ref \in Nat \ {0} /\ arr' = ClosedHeap(arr, handle[h])
        BY <1>7, HandleFacts DEF CloseArray
    <2> QED BY <2>1, CloseWrites
<1>8. CASE \E j \in Idx, v \in Values : ArraySet(h, j, v)
    <2>1. handle[h] # a /\ arr'[a] = arr[a]
        BY <1>2, <1>8 DEF ArraySet
    <2> QED BY <2>1 DEF Written
<1> QED BY <1>1, <1>3, <1>4, <1>5, <1>6, <1>7, <1>8

\* Those of slices write where a slice shows it.
LEMMA SliceWrites ==
    ASSUME IInv, SliceStep, NEW a \in Arrays, NEW i \in Idx, Written(a, i)
    PROVE  Shown(a, i)
<1>1. PICK s \in Slices :
        \/ \E l, c \in 0 .. MaxCap : OpenSlice(s, l, c)
        \/ \E h \in Handles, m, n \in 0 .. MaxCap : OpenSliceByArray(s, h, m, n)
        \/ \E t \in Slices, m, n \in 0 .. MaxCap : OpenSliceBySlice(s, t, m, n)
        \/ CloseSlice(s)
        \/ \E j \in Idx, v \in Values : SliceSet(s, j, v)
        \/ \E v \in Values : SliceAppend(s, v)
        \/ \E j \in 0 .. MaxCap, v \in Values : SliceInsert(s, j, v)
        \/ \E j \in Idx : SlicePop(s, j)
    BY DEF SliceStep
<1>2. CASE \E l, c \in 0 .. MaxCap : OpenSlice(s, l, c)
    BY <1>2, OpenWrites DEF OpenSlice, Opened, Unallocated
<1>3. CASE \E h \in Handles, m, n \in 0 .. MaxCap : OpenSliceByArray(s, h, m, n)
    <2>1. PICK h \in Handles : handle[h] \in Arrays /\ arr' = Assigned(arr, handle[h])
        BY <1>3, HandleFacts DEF OpenSliceByArray
    <2> QED BY <2>1, OpenWrites
<1>4. CASE \E t \in Slices, m, n \in 0 .. MaxCap : OpenSliceBySlice(s, t, m, n)
    <2>1. PICK t \in Slices : sli[t].data \in Arrays /\ arr' = Assigned(arr, sli[t].data)
        BY <1>4, OpenSliceFacts DEF OpenSliceBySlice
    <2> QED BY <2>1, OpenWrites
<1>5. CASE CloseSlice(s)
    <2>1. sli[s].data \in Arrays /\ arr[sli[s].data].ref \in Nat \ {0}
          /\ arr' = ClosedHeap(arr, sli[s].data)
        BY <1>5, OpenSliceFacts DEF CloseSlice
    <2> QED BY <2>1, CloseWrites
<1>6. CASE \E j \in Idx, v \in Values : SliceSet(s, j, v)
    BY <1>6, SetWrites
<1>7. CASE \E v \in Values : SliceAppend(s, v)
    BY <1>7, AppendWrites
<1>8. CASE \E j \in 0 .. MaxCap, v \in Values : SliceInsert(s, j, v)
    BY <1>8, InsertWrites
<1>9. CASE \E j \in Idx : SlicePop(s, j)
    BY <1>9, PopWrites
<1> QED BY <1>1, <1>2, <1>3, <1>4, <1>5, <1>6, <1>7, <1>8, <1>9

\* Unless an ARRAY* variable has the array, a cell changes only inside a window
\* some slice has after the call: append, insert and pop touch nothing behind it.
THEOREM WritesAreShown == Spec => WritesStayInWindow
<1> DEFINE A == \A a \in Arrays, i \in Idx :
        (/\ arr[a].ref > 0 /\ arr'[a].ref > 0 /\ arr'[a].data[i] # arr[a].data[i]
         /\ \A h \in Handles : handle[h] # a)
        => \E s \in Slices :
            /\ sli'[s].data = a
            /\ sli'[s].pos <= i /\ i < sli'[s].pos + sli'[s].len
<1>1. IInv /\ [Next]_vars => [A]_vars
    <2> SUFFICES ASSUME IInv, Next, NEW a \in Arrays, NEW i \in Idx,
                        Written(a, i), \A h \in Handles : handle[h] # a
                 PROVE  Shown(a, i)
        BY DEF Written, Shown
    <2>1. CASE HandleStep
        BY <2>1, HandleWrites
    <2>2. CASE SliceStep
        BY <2>2, SliceWrites
    <2> QED BY <2>1, <2>2 DEF Next
<1> QED BY <1>1, Inductive, PTL DEF Spec, WritesStayInWindow

-----------------------------------------------------------------------------
(* The accounting of array objects: CrbArrays. *)

\* The books are right, and an array that is not allocated has no cells.
Books ==
    /\ IsFiniteSet(CellsOf(arr))
    /\ \A a \in Arrays : arr[a].ref = 0 => arr[a].cap = 0
    /\ size \in Int /\ size >= ActualSize

CInv == IInv /\ Books

\* A step records what it allocates and frees.
Exact == ActualSize' = ActualSize + (size' - size)

-----------------------------------------------------------------------------
(* Numbers of cells. *)

\* The cells of one array.
Block(a, n) == {a} \X (1 .. n)

\* There are as many as its capacity.
LEMMA BlockSize ==
    ASSUME NEW a, NEW n \in Nat
    PROVE  IsFiniteSet(Block(a, n)) /\ Cardinality(Block(a, n)) = n
<1> DEFINE S == 1 .. n
           A == {a}
<1>1. IsFiniteSet(A) /\ Cardinality(A) = 1
    BY FS_Singleton
<1>2. IsFiniteSet(S) /\ Cardinality(S) = IF 1 > n THEN 0 ELSE n - 1 + 1
    <2>1. 1 \in Int /\ n \in Int
        OBVIOUS
    <2> QED BY <2>1, FS_Interval
<1> HIDE DEF S, A
<1>3. Cardinality(S) = n
    BY <1>2
<1>4. IsFiniteSet(A \X S) /\ Cardinality(A \X S) = Cardinality(A) * Cardinality(S)
    BY <1>1, <1>2, FS_Product
<1>5. Cardinality(A \X S) = n
    <2>1. 1 * n = n
        OBVIOUS
    <2> QED BY <1>1, <1>3, <1>4, <2>1
<1> QED BY <1>4, <1>5 DEF Block, A, S

\* One array gets another capacity.
LEMMA Resizes ==
    ASSUME NEW H, NEW G, IsFiniteSet(CellsOf(H)), NEW a \in Arrays,
           H[a].cap \in 0 .. MaxCap, G[a].cap \in 0 .. MaxCap,
           \A b \in Arrays \ {a} : G[b].cap = H[b].cap
    PROVE  /\ IsFiniteSet(CellsOf(G)) /\ Cardinality(CellsOf(H)) \in Nat
           /\ Cardinality(CellsOf(G)) = Cardinality(CellsOf(H)) - H[a].cap + G[a].cap
<1> DEFINE m == H[a].cap
           n == G[a].cap
           C == CellsOf(H)
           M == Block(a, m)
           N == Block(a, n)
           R == C \ M
<1>1. m \in Nat /\ n \in Nat /\ m <= MaxCap /\ n <= MaxCap /\ MaxCap \in Nat
    BY SliceAssumption
<1>2. \A c : c \in C <=> c \in Arrays \X (1 .. MaxCap) /\ c[2] <= H[c[1]].cap
    BY DEF CellsOf
<1>3. \A c : c \in CellsOf(G) <=> c \in Arrays \X (1 .. MaxCap) /\ c[2] <= G[c[1]].cap
    BY DEF CellsOf
<1>4. \A c \in Arrays \X (1 .. MaxCap) : c[1] = a => (c \in M <=> c[2] <= m) /\ (c \in N <=> c[2] <= n)
    BY <1>1 DEF Block
<1>5. M \subseteq C /\ N \subseteq CellsOf(G)
    BY <1>1, <1>2, <1>3 DEF Block
<1>6. \A c \in Arrays \X (1 .. MaxCap) : c[1] # a => c \notin M /\ c \notin N
    BY DEF Block
<1>7. CellsOf(G) = R \cup N /\ R \cap N = {}
    <2>1. \A c \in Arrays \X (1 .. MaxCap) : c[1] \in Arrays
        OBVIOUS
    <2>2. ASSUME NEW c \in Arrays \X (1 .. MaxCap)
          PROVE  (c \in CellsOf(G) <=> c \in R \cup N) /\ ~(c \in R /\ c \in N)
        <3>1. CASE c[1] = a
            BY <1>2, <1>3, <1>4, <3>1
        <3>2. CASE c[1] # a
            BY <1>2, <1>3, <1>6, <2>1, <3>2
        <3> QED BY <3>1, <3>2
    <2>3. R \subseteq Arrays \X (1 .. MaxCap) /\ N \subseteq Arrays \X (1 .. MaxCap)
          /\ CellsOf(G) \subseteq Arrays \X (1 .. MaxCap)
        BY <1>2, <1>3, <1>5
    <2> HIDE DEF R, N
    <2> QED BY <2>2, <2>3
<1>8. IsFiniteSet(M) /\ Cardinality(M) = m /\ IsFiniteSet(N) /\ Cardinality(N) = n
    BY <1>1, BlockSize
<1>9. C \cap M = M /\ IsFiniteSet(C)
    BY <1>5
<1>10. Cardinality(C) \in Nat
    BY <1>9, FS_CardinalityType
<1>11. IsFiniteSet(R) /\ Cardinality(R) = Cardinality(C) - m
    <2> HIDE DEF C, M
    <2>1. IsFiniteSet(C \ M) /\ Cardinality(C \ M) = Cardinality(C) - Cardinality(C \cap M)
        BY <1>9, FS_Difference
    <2>2. Cardinality(C \cap M) = m
        BY <1>8, <1>9
    <2> QED BY <2>1, <2>2
<1>12. Cardinality(R \cap N) = 0
    BY <1>7, FS_EmptySet
<1>13. IsFiniteSet(R \cup N) /\ Cardinality(R \cup N) = Cardinality(R) + Cardinality(N) - 0
    <2> HIDE DEF R, N
    <2> QED BY <1>8, <1>11, <1>12, FS_Union
<1> HIDE DEF R, N, M, C, m, n
<1>14. Cardinality(R \cup N) = Cardinality(C) - m + n
    BY <1>1, <1>8, <1>10, <1>11, <1>13
<1> QED BY <1>7, <1>10, <1>13, <1>14 DEF C, m, n

\* No array gets another capacity.
LEMMA SameCells ==
    ASSUME NEW H, NEW G, \A b \in Arrays : G[b].cap = H[b].cap
    PROVE  CellsOf(G) = CellsOf(H)
<1>1. \A c \in Arrays \X (1 .. MaxCap) : c[1] \in Arrays
    OBVIOUS
<1> QED BY <1>1 DEF CellsOf

\* A step that neither changes a capacity nor the books.
LEMMA NothingMoves ==
    ASSUME CInv, size' = size, \A b \in Arrays : arr'[b].cap = arr[b].cap,
           \A b \in Arrays : arr'[b].ref = 0 => arr[b].ref = 0
    PROVE  Books' /\ Exact
<1>1. CellsOf(arr') = CellsOf(arr)
    BY SameCells
<1>2. ActualSize' = ActualSize
    BY <1>1 DEF ActualSize
<1>3. ActualSize \in Nat
    BY FS_CardinalityType DEF CInv, Books, ActualSize
<1> QED BY <1>1, <1>2, <1>3 DEF CInv, Books, Exact, ActualSize

-----------------------------------------------------------------------------
(* The operations. *)

\* Room for one more element: in the slice's array, or in one of its own, its
\* old array freed if nobody else holds it.
LEMMA Moves ==
    ASSUME IInv, NEW s \in Slices, IsOpen(s), NEW r \in WithRoom(s), NEW d, d = sli[s].data
    PROVE  \/ r.heap = arr /\ r.slice.data = d
           \/ \E a \in Arrays :
                /\ a # d /\ arr[a].ref = 0 /\ r.slice.data = a
                /\ r.heap[a].ref = 1 /\ r.heap[a].cap \in 0 .. MaxCap
                /\ r.heap[d].ref = arr[d].ref - 1
                /\ r.heap[d].cap = IF arr[d].ref = 1 THEN 0 ELSE arr[d].cap
                /\ \A b \in Arrays \ {a, d} : r.heap[b] = arr[b]
<1> DEFINE p == sli[s].pos
<1>1. /\ d \in Arrays /\ arr[d] \in ArrayStruct /\ arr[d].ref \in Nat \ {0}
      /\ p \in 0 .. MaxCap /\ sli[s].len \in 0 .. MaxCap
      /\ p + sli[s].len <= arr[d].cap
    BY OpenSliceFacts
<1>2. CASE ~Full(s)
    BY <1>2 DEF WithRoom
<1>3. CASE Full(s)
    <2>1. PICK a \in Arrays : arr[a].ref = 0 /\ NextCap(s) <= MaxCap /\ r = GrownTo(s, a)
        BY <1>3 DEF WithRoom, Grown, Unallocated
    <2>2. /\ arr[d].cap - p \in 0 .. MaxCap
          /\ arr[d].cap + 1 - p \in Nat
        BY <1>1, <1>3, SliceAssumption DEF Full, ArrayStruct
    <2>3. NextCap(s) \in 0 .. MaxCap
        BY <1>1, <2>1, <2>2, GrownCapFacts DEF NextCap
    <2> DEFINE new == CopyFrom(arr[d], p, NextCap(s))
               H == [arr EXCEPT ![a] = new]
    <2>4. new \in ArrayStruct /\ new.cap = NextCap(s) /\ new.ref = 1
        BY <1>1, <2>3, CopyFromType
    <2>5. r.heap = ClosedHeap(H, d) /\ r.slice.data = a
        BY <1>1, <2>1 DEF GrownTo
    <2> HIDE DEF new
    <2>6. H \in [Arrays -> ArrayStruct] /\ a # d /\ H[d] = arr[d] /\ H[a] = new
          /\ \A b \in Arrays \ {a} : H[b] = arr[b]
        BY <1>1, <2>1, <2>4 DEF IInv, TypeOK, ArrayStruct
    <2> HIDE DEF H
    <2>7. /\ r.heap \in [Arrays -> ArrayStruct]
          /\ r.heap[d].ref = arr[d].ref - 1
          /\ arr[d].ref # 1 => r.heap[d].cap = arr[d].cap
          /\ \A b \in Arrays \ {d} : r.heap[b] = H[b]
        BY <1>1, <2>5, <2>6, CloseArrayFacts
    <2>8. arr[d].ref = 1 => r.heap[d].cap = 0
        BY <1>1, <2>5, <2>6 DEF ClosedHeap, Freed
    <2>9. r.heap[a].ref = 1 /\ r.heap[a].cap = NextCap(s)
        BY <2>4, <2>6, <2>7
    <2>10. \A b \in Arrays \ {a, d} : r.heap[b] = arr[b]
        BY <2>6, <2>7
    <2>11. r.heap[d].cap = IF arr[d].ref = 1 THEN 0 ELSE arr[d].cap
        BY <2>7, <2>8
    <2> QED BY <2>1, <2>3, <2>5, <2>6, <2>7, <2>9, <2>10, <2>11
<1> QED BY <1>2, <1>3

\* A call that may grow slice s, between record_slice_state and check_slice_state.
LEMMA Lengthens ==
    ASSUME CInv, NEW s \in Slices, IsOpen(s), NEW r \in WithRoom(s),
           \A b \in Arrays : arr'[b].cap = r.heap[b].cap /\ arr'[b].ref = r.heap[b].ref,
           sli'[s].data = r.slice.data, Resized(s, sli[s].data)
    PROVE  Books' /\ Exact
<1> DEFINE d == sli[s].data
<1>1. IInv /\ Books
    BY DEF CInv
<1>2. d \in Arrays /\ arr[d].cap \in 0 .. MaxCap /\ arr[d].ref \in Nat \ {0} /\ MaxCap \in Nat
    BY <1>1, OpenSliceFacts, SliceAssumption DEF ArrayStruct
<1>3. CASE r.heap = arr /\ r.slice.data = d
    <2>1. size' = size
        BY <1>3 DEF Resized
    <2> QED BY <1>3, <2>1, NothingMoves
<1>4. ASSUME NEW a \in Arrays,
             a # d, arr[a].ref = 0, r.slice.data = a,
             r.heap[a].ref = 1, r.heap[a].cap \in 0 .. MaxCap,
             r.heap[d].ref = arr[d].ref - 1,
             r.heap[d].cap = IF arr[d].ref = 1 THEN 0 ELSE arr[d].cap,
             \A b \in Arrays \ {a, d} : r.heap[b] = arr[b]
      PROVE  Books' /\ Exact
    <2>1. /\ size' = size - (IF arr[d].ref = 1 THEN arr[d].cap ELSE 0) + arr'[a].cap
          /\ arr'[a].ref = 1 /\ arr'[a].cap \in 0 .. MaxCap
          /\ arr'[d].cap = IF arr[d].ref = 1 THEN 0 ELSE arr[d].cap
          /\ arr'[d].ref = arr[d].ref - 1
          /\ \A b \in Arrays \ {a, d} : arr'[b].cap = arr[b].cap /\ arr'[b].ref = arr[b].ref
        <3>1. arr'[a].ref = 1 /\ arr'[a].cap = r.heap[a].cap /\ sli'[s].data = a
            BY <1>4
        <3>2. size' = size - (IF arr[d].ref = 1 THEN arr[d].cap ELSE 0) + arr'[a].cap
            BY <1>4, <3>1 DEF Resized
        <3>3. /\ arr'[d].cap = IF arr[d].ref = 1 THEN 0 ELSE arr[d].cap
              /\ arr'[d].ref = arr[d].ref - 1
            BY <1>2, <1>4
        <3>4. \A b \in Arrays \ {a, d} : arr'[b].cap = arr[b].cap /\ arr'[b].ref = arr[b].ref
            BY <1>4
        <3> QED BY <1>4, <3>1, <3>2, <3>3, <3>4
    <2> DEFINE H == [b \in Arrays |-> IF b = a THEN arr'[a] ELSE arr[b]]
    <2>2. /\ H[a].cap = arr'[a].cap /\ H[d].cap = arr[d].cap
          /\ \A b \in Arrays \ {a} : H[b].cap = arr[b].cap
          /\ \A b \in Arrays \ {d} : arr'[b].cap = H[b].cap
        BY <1>2, <1>4, <2>1
    <2> HIDE DEF H
    <2>3. arr[a].cap = 0 /\ arr[a].cap \in 0 .. MaxCap /\ arr'[d].cap \in 0 .. MaxCap
        BY <1>1, <1>2, <1>4, <2>1 DEF Books
    <2>4. /\ IsFiniteSet(CellsOf(H)) /\ ActualSize \in Nat
          /\ Cardinality(CellsOf(H)) = ActualSize - arr[a].cap + arr'[a].cap
        BY <1>1, <2>1, <2>2, <2>3, Resizes DEF Books, ActualSize
    <2>5. /\ IsFiniteSet(CellsOf(arr')) /\ Cardinality(CellsOf(H)) \in Nat
          /\ Cardinality(CellsOf(arr')) = Cardinality(CellsOf(H)) - arr[d].cap + arr'[d].cap
        BY <1>2, <2>2, <2>3, <2>4, Resizes
    <2>6. ActualSize' = ActualSize + arr'[a].cap - arr[d].cap + arr'[d].cap
        BY <1>2, <2>1, <2>3, <2>4, <2>5 DEF ActualSize
    <2>7. size \in Int /\ size >= ActualSize
        BY <1>1 DEF Books
    <2>8. size' \in Int /\ size' - size = arr'[a].cap - arr[d].cap + arr'[d].cap
        BY <1>2, <2>1, <2>7
    <2>9. Exact /\ size' >= ActualSize'
        BY <1>2, <2>1, <2>3, <2>4, <2>6, <2>7, <2>8 DEF Exact
    <2>10. \A b \in Arrays : arr'[b].ref = 0 => arr'[b].cap = 0
        <3>1. \A b \in Arrays : arr[b].ref = 0 => arr[b].cap = 0
            BY <1>1 DEF Books
        <3>2. arr'[d].ref = 0 => arr[d].ref = 1
            BY <1>2, <2>1
        <3>3. arr'[a].ref # 0 /\ (arr'[d].ref = 0 => arr'[d].cap = 0)
            BY <2>1, <3>2
        <3>4. \A b \in Arrays \ {a, d} : arr'[b].ref = 0 => arr'[b].cap = 0
            BY <2>1, <3>1
        <3> QED BY <3>3, <3>4
    <2>11. IsFiniteSet(CellsOf(arr')) /\ Exact
        BY <2>5, <2>9
    <2>12. size' \in Int /\ size' >= ActualSize'
        BY <2>8, <2>9
    <2>13. Books'
        BY <2>10, <2>11, <2>12 DEF Books
    <2> QED BY <2>11, <2>13
<1> HIDE DEF d
<1>5. \/ r.heap = arr /\ r.slice.data = d
      \/ \E a \in Arrays :
           /\ a # d /\ arr[a].ref = 0 /\ r.slice.data = a
           /\ r.heap[a].ref = 1 /\ r.heap[a].cap \in 0 .. MaxCap
           /\ r.heap[d].ref = arr[d].ref - 1
           /\ r.heap[d].cap = IF arr[d].ref = 1 THEN 0 ELSE arr[d].cap
           /\ \A b \in Arrays \ {a, d} : r.heap[b] = arr[b]
    BY <1>1, Moves DEF d
<1> QED BY <1>3, <1>4, <1>5

\* crb_create_array_i
LEMMA CreateArrayKeeps ==
    ASSUME CInv, NEW s \in Slices, NEW n \in 0 .. MaxCap, CreateArray(s, n)
    PROVE  CInv' /\ Exact
<1> DEFINE c == [i \in Idx |-> IF i < n THEN Null ELSE Junk]
           new == [cap |-> n, ref |-> 1, data |-> c]
<1>1. PICK a \in Arrays :
        /\ arr[a].ref = 0 /\ arr' = [arr EXCEPT ![a] = new]
        /\ sli' = [sli EXCEPT ![s] = [data |-> a, pos |-> 0, len |-> n]]
    BY DEF CreateArray, Unallocated
<1>2. sli[s].data = NoArray /\ size' = size + n /\ handle' = handle
    BY DEF CreateArray, IsOpen
<1>3. IInv /\ Books /\ n \in Nat /\ n <= MaxCap /\ MaxCap \in Nat
    BY SliceAssumption DEF CInv
<1>4. c \in Cells
    BY CrbAssumption DEF Cells
<1>5. new \in ArrayStruct /\ new.cap = n /\ new.ref = 1
    BY <1>4 DEF ArrayStruct
<1> HIDE DEF new
<1>6. /\ arr' \in [Arrays -> ArrayStruct] /\ arr'[a] = new
      /\ \A b \in Arrays \ {a} : arr'[b] = arr[b]
    BY <1>1, <1>3, <1>5 DEF IInv, TypeOK
<1>7. /\ sli' \in [Slices -> SliceStruct] /\ sli'[s].data = a /\ sli'[s].pos = 0 /\ sli'[s].len = n
      /\ \A t \in Slices \ {s} : sli'[t] = sli[t]
    BY <1>1, <1>3, SliceAssumption DEF IInv, TypeOK, SliceStruct
<1>8. TypeOK'
    BY <1>2, <1>3, <1>6, <1>7 DEF IInv, TypeOK
<1>9. \A b \in Arrays : arr'[b].ref = arr[b].ref - (IF sli[s].data = b THEN 1 ELSE 0)
                                        + (IF sli'[s].data = b THEN 1 ELSE 0)
    BY <1>1, <1>2, <1>3, <1>5, <1>6, <1>7, SliceAssumption DEF IInv, TypeOK, ArrayStruct
<1>10. \A b \in Arrays : arr[b].ref > 0 /\ arr'[b].ref > 0 => arr'[b].cap = arr[b].cap
    BY <1>1, <1>6
<1>11. sli'[s].pos + sli'[s].len <= arr'[sli'[s].data].cap
    BY <1>3, <1>5, <1>6, <1>7
<1>12. IInv'
    BY <1>2, <1>3, <1>7, <1>8, <1>9, <1>10, <1>11, SliceStepKeeps
<1>13. arr[a].cap = 0 /\ arr[a].cap \in 0 .. MaxCap /\ arr'[a].cap = n
    BY <1>1, <1>3, <1>5, <1>6 DEF Books
<1>14. /\ IsFiniteSet(CellsOf(arr')) /\ ActualSize \in Nat
       /\ ActualSize' = ActualSize - arr[a].cap + arr'[a].cap
    BY <1>3, <1>6, <1>13, Resizes DEF Books, ActualSize
<1>15. Exact /\ size' \in Int /\ size' >= ActualSize'
    BY <1>2, <1>3, <1>13, <1>14 DEF Exact, Books
<1>16. \A b \in Arrays : arr'[b].ref = 0 => arr'[b].cap = 0
    BY <1>3, <1>5, <1>6 DEF Books
<1> QED BY <1>12, <1>14, <1>15, <1>16 DEF CInv, Books

\* eval_array_slice_expression
LEMMA ArraySliceKeeps ==
    ASSUME CInv, NEW s \in Slices, NEW t \in Slices,
           NEW i \in 0 .. MaxCap, NEW j \in 0 .. MaxCap, ArraySlice(s, t, i, j)
    PROVE  CInv' /\ Exact
<1>1. OpenSliceBySlice(s, t, i, j) /\ size' = size /\ IInv /\ IsOpen(t)
    BY DEF ArraySlice, SliceSize, CInv
<1>2. IInv'
    BY <1>1, OpenSliceBySliceKeeps
<1>3. arr' = Assigned(arr, sli[t].data) /\ sli[t].data \in Arrays
    BY <1>1, OpenSliceFacts DEF OpenSliceBySlice
<1>4. \A b \in Arrays : arr'[b].cap = arr[b].cap /\ (arr'[b].ref = 0 => arr[b].ref = 0)
    BY <1>1, <1>3 DEF Assigned, IInv, TypeOK, ArrayStruct
<1>5. Books' /\ Exact
    BY <1>1, <1>4, NothingMoves
<1> QED BY <1>2, <1>5 DEF CInv

\* CRB_array_set
LEMMA ArrayStoreKeeps ==
    ASSUME CInv, NEW s \in Slices, NEW i \in Idx, NEW v \in Values, ArrayStore(s, i, v)
    PROVE  CInv' /\ Exact
<1>1. SliceSet(s, i, v) /\ size' = size /\ IInv
    BY DEF ArrayStore, CInv
<1>2. IInv'
    BY <1>1, SliceSetKeeps
<1>3. \A b \in Arrays : arr'[b].cap = arr[b].cap /\ arr'[b].ref = arr[b].ref
    BY <1>1 DEF SliceSet, IInv, TypeOK, ArrayStruct
<1>4. Books' /\ Exact
    BY <1>1, <1>3, NothingMoves
<1> QED BY <1>2, <1>4 DEF CInv

\* array_method_pop
LEMMA ArrayPopKeeps ==
    ASSUME CInv, NEW s \in Slices, ArrayPop(s)
    PROVE  CInv' /\ Exact
<1> DEFINE z == 0
<1>1. SlicePop(s, z) /\ size' = size /\ IInv
    BY DEF ArrayPop, CInv
<1>2. z \in Idx
    BY SliceAssumption DEF Idx
<1> HIDE DEF z
<1>3. IInv'
    BY <1>1, <1>2, SlicePopKeeps
<1>4. \A b \in Arrays : arr'[b].cap = arr[b].cap /\ arr'[b].ref = arr[b].ref
    BY <1>1 DEF SlicePop, IInv, TypeOK, ArrayStruct
<1>5. Books' /\ Exact
    BY <1>1, <1>4, NothingMoves
<1> QED BY <1>3, <1>5 DEF CInv

\* CRB_array_append
LEMMA ArrayAppendKeeps ==
    ASSUME CInv, NEW s \in Slices, NEW v \in Values, ArrayAppend(s, v)
    PROVE  CInv' /\ Exact
<1>1. SliceAppend(s, v) /\ Resized(s, sli[s].data) /\ IInv /\ IsOpen(s)
    BY DEF ArrayAppend, SliceAppend, CInv
<1>2. IInv'
    BY <1>1, SliceAppendKeeps
<1>3. PICK r \in WithRoom(s) :
        /\ arr' = [r.heap EXCEPT ![r.slice.data].data[r.slice.pos + r.slice.len] = v]
        /\ sli' = [sli EXCEPT ![s] = [r.slice EXCEPT !.len = @ + 1]]
    BY <1>1 DEF SliceAppend
<1>4. r.heap \in [Arrays -> ArrayStruct] /\ r.slice \in SliceStruct
    BY <1>1, RoomFacts
<1>5. \A b \in Arrays : arr'[b].cap = r.heap[b].cap /\ arr'[b].ref = r.heap[b].ref
    BY <1>3, <1>4 DEF ArrayStruct
<1>6. sli'[s].data = r.slice.data
    BY <1>1, <1>3, <1>4 DEF IInv, TypeOK, SliceStruct
<1>7. Books' /\ Exact
    BY <1>1, <1>5, <1>6, Lengthens
<1> QED BY <1>2, <1>7 DEF CInv

\* CRB_array_insert
LEMMA ArrayInsertKeeps ==
    ASSUME CInv, NEW s \in Slices, NEW i \in 0 .. MaxCap, NEW v \in Values, ArrayInsert(s, i, v)
    PROVE  CInv' /\ Exact
<1>1. SliceInsert(s, i, v) /\ Resized(s, sli[s].data) /\ IInv /\ IsOpen(s)
    BY DEF ArrayInsert, SliceInsert, CInv
<1>2. IInv'
    BY <1>1, SliceInsertKeeps
<1>3. PICK r \in WithRoom(s) :
        /\ arr' = [r.heap EXCEPT ![r.slice.data].data =
                    Inserted(@, r.slice.pos, r.slice.len, i, v)]
        /\ sli' = [sli EXCEPT ![s] = [r.slice EXCEPT !.len = @ + 1]]
    BY <1>1 DEF SliceInsert
<1>4. r.heap \in [Arrays -> ArrayStruct] /\ r.slice \in SliceStruct
    BY <1>1, RoomFacts
<1>5. \A b \in Arrays : arr'[b].cap = r.heap[b].cap /\ arr'[b].ref = r.heap[b].ref
    BY <1>3, <1>4 DEF ArrayStruct
<1>6. sli'[s].data = r.slice.data
    BY <1>1, <1>3, <1>4 DEF IInv, TypeOK, SliceStruct
<1>7. Books' /\ Exact
    BY <1>1, <1>5, <1>6, Lengthens
<1> QED BY <1>2, <1>7 DEF CInv

\* gc_dispose_object
LEMMA DisposeKeeps ==
    ASSUME CInv, NEW s \in Slices, Dispose(s)
    PROVE  CInv' /\ (Exact \/ (IsOpen(s) /\ ~IsOpen(s)' /\ arr[sli[s].data].ref = 1 /\ sli[s].pos > 0))
<1> DEFINE d == sli[s].data
           p == sli[s].pos
<1>1. CloseSlice(s) /\ IsOpen(s) /\ IInv /\ Books /\ size' = DisposedSize(s)
    BY DEF Dispose, CInv
<1>2. /\ d \in Arrays /\ arr[d] \in ArrayStruct /\ arr[d].ref \in Nat \ {0}
      /\ p \in 0 .. MaxCap /\ sli[s].len \in 0 .. MaxCap /\ p + sli[s].len <= arr[d].cap
      /\ arr[d].cap \in 0 .. MaxCap /\ MaxCap \in Nat
    BY <1>1, OpenSliceFacts, SliceAssumption DEF ArrayStruct
<1>3. IInv'
    BY <1>1, CloseSliceKeeps
<1>4. arr' = ClosedHeap(arr, d) /\ sli' = [sli EXCEPT ![s] = Closed]
    BY <1>1 DEF CloseSlice
<1>5. ~IsOpen(s)'
    BY <1>1, <1>4 DEF IsOpen, Closed, IInv, TypeOK
<1>6. size' = IF arr[d].ref = 1 THEN size - (arr[d].cap - p) ELSE size
    BY <1>1 DEF DisposedSize
<1> HIDE DEF d, p
<1>7. /\ arr' \in [Arrays -> ArrayStruct] /\ arr'[d].ref = arr[d].ref - 1
      /\ arr[d].ref # 1 => arr'[d].cap = arr[d].cap
      /\ \A b \in Arrays \ {d} : arr'[b] = arr[b]
    BY <1>1, <1>2, <1>4, CloseArrayFacts DEF IInv, TypeOK
<1>8. CASE arr[d].ref # 1
    <2>1. \A b \in Arrays : arr'[b].cap = arr[b].cap
        BY <1>7, <1>8
    <2>2. \A b \in Arrays : arr'[b].ref = 0 => arr[b].ref = 0
        BY <1>2, <1>7, <1>8
    <2>3. size' = size
        BY <1>6, <1>8
    <2> QED BY <1>3, <2>1, <2>2, <2>3, NothingMoves DEF CInv
<1>9. CASE arr[d].ref = 1
    <2>1. arr'[d].cap = 0
        BY <1>1, <1>2, <1>4, <1>9 DEF ClosedHeap, Freed, IInv, TypeOK
    <2>2. arr'[d].cap \in 0 .. MaxCap
        BY <1>2, <2>1
    <2>3. /\ IsFiniteSet(CellsOf(arr')) /\ ActualSize \in Nat
          /\ ActualSize' = ActualSize - arr[d].cap + arr'[d].cap
        BY <1>1, <1>2, <1>7, <2>2, Resizes DEF Books, ActualSize
    <2>4. size \in Int /\ size >= ActualSize
        BY <1>1 DEF Books
    <2>5. size' = size - (arr[d].cap - p)
        BY <1>6, <1>9
    <2>6. size' \in Int /\ size' >= ActualSize' /\ (Exact \/ p > 0)
        BY <1>2, <2>1, <2>3, <2>4, <2>5 DEF Exact
    <2>7. \A b \in Arrays : arr'[b].ref = 0 => arr'[b].cap = 0
        BY <1>1, <1>7, <2>1 DEF Books
    <2>8. Books'
        BY <2>3, <2>6, <2>7 DEF Books
    <2> QED BY <1>1, <1>3, <1>5, <1>9, <2>6, <2>8 DEF CInv, d, p
<1> QED BY <1>8, <1>9

-----------------------------------------------------------------------------
(* The theorems. *)

\* Nothing is allocated, and nothing recorded.
LEMMA CrbStarts == CrbInit => CInv
<1> SUFFICES ASSUME CrbInit PROVE CInv
    OBVIOUS
<1>1. IInv /\ size = 0
    BY InitIInv DEF CrbInit
<1>2. \A a \in Arrays : arr[a].cap = 0
    BY DEF CrbInit, Init, Freed
<1>3. CellsOf(arr) = {}
    <2>1. \A c \in Arrays \X (1 .. MaxCap) : c[1] \in Arrays /\ c[2] \in 1 .. MaxCap
        OBVIOUS
    <2>2. \A c \in Arrays \X (1 .. MaxCap) : ~(c[2] <= arr[c[1]].cap)
        BY <1>2, <2>1, SliceAssumption
    <2> QED BY <2>2 DEF CellsOf
<1>4. IsFiniteSet(CellsOf(arr)) /\ ActualSize = 0
    BY <1>3, FS_EmptySet DEF ActualSize
<1> QED BY <1>1, <1>2, <1>4 DEF CInv, Books

\* What every step does to the invariant and to the books.
LEMMA CrbSteps ==
    ASSUME CInv, CrbNext
    PROVE  /\ CInv'
           /\ \/ Exact
              \/ \E s \in Slices : /\ IsOpen(s) /\ ~IsOpen(s)'
                                   /\ arr[sli[s].data].ref = 1 /\ sli[s].pos > 0
<1>1. PICK s \in Slices :
        \/ \E n \in 0 .. MaxCap : CreateArray(s, n)
        \/ \E t \in Slices, i, j \in 0 .. MaxCap : ArraySlice(s, t, i, j)
        \/ \E i \in Idx, v \in Values : ArrayStore(s, i, v)
        \/ \E v \in Values : ArrayAppend(s, v)
        \/ \E i \in 0 .. MaxCap, v \in Values : ArrayInsert(s, i, v)
        \/ ArrayPop(s)
        \/ Dispose(s)
    BY DEF CrbNext
<1>2. CASE \E n \in 0 .. MaxCap : CreateArray(s, n)
    BY <1>2, CreateArrayKeeps
<1>3. CASE \E t \in Slices, i, j \in 0 .. MaxCap : ArraySlice(s, t, i, j)
    BY <1>3, ArraySliceKeeps
<1>4. CASE \E i \in Idx, v \in Values : ArrayStore(s, i, v)
    BY <1>4, ArrayStoreKeeps
<1>5. CASE \E v \in Values : ArrayAppend(s, v)
    BY <1>5, ArrayAppendKeeps
<1>6. CASE \E i \in 0 .. MaxCap, v \in Values : ArrayInsert(s, i, v)
    BY <1>6, ArrayInsertKeeps
<1>7. CASE ArrayPop(s)
    BY <1>7, ArrayPopKeeps
<1>8. CASE Dispose(s)
    BY <1>8, DisposeKeeps
<1> QED BY <1>1, <1>2, <1>3, <1>4, <1>5, <1>6, <1>7, <1>8

\* Slice's invariant with right books is inductive under the operations of
\* crowbar's array objects.
THEOREM BooksKept == CrbSpec => []CInv
<1>1. CInv /\ [CrbNext]_crbVars => CInv'
    <2> SUFFICES ASSUME CInv, [CrbNext]_crbVars PROVE CInv'
        OBVIOUS
    <2>1. CASE CrbNext
        BY <2>1, CrbSteps
    <2>2. CASE UNCHANGED crbVars
        <3>1. arr' = arr /\ sli' = sli /\ handle' = handle /\ size' = size
            BY <2>2 DEF crbVars
        <3>2. IInv'
            BY <3>1, StutterIInv DEF CInv, vars
        <3>3. Books'
            BY <3>1 DEF CInv, Books, ActualSize, CellsOf
        <3> QED BY <3>2, <3>3 DEF CInv
    <2> QED BY <2>1, <2>2
<1> QED BY <1>1, CrbStarts, PTL DEF CrbSpec

\* heap.current_heap_size is never below the cells the arrays take, and so never
\* negative: memory cannot grow unnoticed by the collector.
THEOREM NeverBelow == CrbSpec => []NeverUndercounts
<1>1. CInv => NeverUndercounts
    BY DEF CInv, IInv, Books, NeverUndercounts, CrbTypeOK
<1> QED BY <1>1, BooksKept, PTL

\* Every operation records exactly what it allocates and frees, but for the
\* disposal of a window that does not start at its array's first cell.
THEOREM SizeFollows == CrbSpec => SizeFollowsArrays
<1> DEFINE A == \/ size' - size = ActualSize' - ActualSize
                \/ \E s \in Slices : /\ IsOpen(s) /\ ~IsOpen(s)'
                                     /\ arr[sli[s].data].ref = 1 /\ sli[s].pos > 0
<1>1. CInv /\ CInv' /\ [CrbNext]_crbVars => [A]_crbVars
    <2> SUFFICES ASSUME CInv, CInv', CrbNext PROVE A
        OBVIOUS
    <2>1. \/ Exact
          \/ \E s \in Slices : /\ IsOpen(s) /\ ~IsOpen(s)'
                               /\ arr[sli[s].data].ref = 1 /\ sli[s].pos > 0
        BY CrbSteps
    <2>2. ActualSize \in Nat /\ ActualSize' \in Nat /\ size \in Int /\ size' \in Int
        BY FS_CardinalityType DEF CInv, Books, ActualSize
    <2>3. Exact => size' - size = ActualSize' - ActualSize
        BY <2>2 DEF Exact
    <2> QED BY <2>1, <2>3
<1> QED BY <1>1, BooksKept, PTL DEF CrbSpec, SizeFollowsArrays

=============================================================================
