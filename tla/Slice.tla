------------------------------- MODULE Slice -------------------------------
(***************************************************************************)
(* Reference-counted arrays and the slices that share them: src/src/array.c *)
(* and its macro twin src/include/array_tpl.h (the crowbar interpreter's    *)
(* CRB_Value arrays are the twin's instance).                               *)
(*                                                                         *)
(* A `struct array` is a capacity, a reference count and a block of cells   *)
(* that malloc leaves uninitialised.  A `struct slice` is a window          *)
(* [pos, pos+len) over one array.  Several slices, and ARRAY* variables of  *)
(* a caller, hold one array at a time; a full slice that grows moves to a   *)
(* private copy and leaves the others behind.                               *)
(***************************************************************************)
EXTENDS Integers, Sequences, FiniteSets

CONSTANTS
    Arrays,     \* addresses malloc can return for a struct array
    Slices,     \* struct slice objects a caller can open
    Handles,    \* ARRAY* variables of a caller
    Values,     \* what a cell can be given
    Junk,       \* what an uninitialised cell holds
    NoArray,    \* no array: a closed slice, an unset ARRAY* variable
    MaxCap      \* ARRAY_MAX_SIZE: the largest block the allocator serves

ASSUME SliceAssumption ==
    /\ IsFiniteSet(Slices) /\ IsFiniteSet(Handles)
    /\ Slices \cap Handles = {}
    /\ NoArray \notin Arrays
    /\ Junk \notin Values
    /\ MaxCap \in Nat \ {0}

VARIABLES
    arr,        \* [Arrays -> struct array]; ref = 0 is a block not allocated
    sli,        \* [Slices -> struct slice]; data = NoArray is a closed slice
    handle      \* [Handles -> Arrays \cup {NoArray}]

vars == <<arr, sli, handle>>

Idx == 0 .. MaxCap - 1
Cells == [Idx -> Values \cup {Junk}]
ArrayStruct == [cap : 0 .. MaxCap, ref : Nat, data : Cells]
SliceStruct == [data : Arrays \cup {NoArray}, pos : 0 .. MaxCap, len : 0 .. MaxCap]

NewCells == [i \in Idx |-> Junk]
Freed == [cap |-> 0, ref |-> 0, data |-> NewCells]
Closed == [data |-> NoArray, pos |-> 0, len |-> 0]

IsOpen(s) == sli[s].data # NoArray
Unallocated == {a \in Arrays : arr[a].ref = 0}

\* Everything that holds array a and has yet to close it.
Holders(a) == {s \in Slices : sli[s].data = a} \cup {h \in Handles : handle[h] = a}

\* The elements a caller reads through slice s with slice_get.
View(s) == [i \in 1 .. sli[s].len |-> arr[sli[s].data].data[sli[s].pos + i - 1]]

-----------------------------------------------------------------------------
(* Arrays. Each operator maps the heap H of array structures to the next. *)

\* open_array: the cells are not initialised.
Opened(H, a, c) == [H EXCEPT ![a] = [cap |-> c, ref |-> 1, data |-> NewCells]]

\* A second holder that is not counted.
AssignedUncounted(H, a) == H

\* assign_array
Assigned(H, a) == [H EXCEPT ![a].ref = @ + 1]

\* A close that frees the block whatever its count.
ClosedHeapFreesShared(H, a) == [H EXCEPT ![a] = Freed]

\* close_array
ClosedHeap(H, a) ==
    [H EXCEPT ![a] = IF H[a].ref = 1 THEN Freed ELSE [H[a] EXCEPT !.ref = @ - 1]]

\* ARRAY* h = open_array(c)
OpenArray(h, c) ==
    /\ handle[h] = NoArray
    /\ \E a \in Unallocated :
        /\ arr' = Opened(arr, a, c)
        /\ handle' = [handle EXCEPT ![h] = a]
    /\ UNCHANGED sli

\* ARRAY* h = open_array_by_data(d, c), d a block of c cells
OpenArrayByData(h, d, c) ==
    /\ handle[h] = NoArray
    /\ \E a \in Unallocated :
        /\ arr' = [arr EXCEPT ![a] =
                    [cap |-> c, ref |-> 1,
                     data |-> [i \in Idx |-> IF i < c THEN d[i] ELSE Junk]]]
        /\ handle' = [handle EXCEPT ![h] = a]
    /\ UNCHANGED sli

\* h = reopen_array(h, c), c > 0. RENEW2 is realloc: any other pointer to the
\* block is stale after it, so a caller must be the only holder.
ReopenArray(h, c) ==
    /\ handle[h] # NoArray /\ arr[handle[h]].ref = 1
    /\ LET old == arr[handle[h]]
           new == [cap |-> c, ref |-> old.ref,
                   data |-> [i \in Idx |-> IF i < old.cap /\ i < c THEN old.data[i] ELSE Junk]]
       IN  \/ /\ arr' = [arr EXCEPT ![handle[h]] = new]
              /\ UNCHANGED handle
           \/ \E a \in Unallocated :
                /\ arr' = [arr EXCEPT ![handle[h]] = Freed, ![a] = new]
                /\ handle' = [handle EXCEPT ![h] = a]
    /\ UNCHANGED sli

\* g = assign_array(h)
AssignArray(g, h) ==
    /\ handle[g] = NoArray /\ handle[h] # NoArray
    /\ arr' = Assigned(arr, handle[h])
    /\ handle' = [handle EXCEPT ![g] = handle[h]]
    /\ UNCHANGED sli

\* close_array(h)
CloseArray(h) ==
    /\ handle[h] # NoArray
    /\ arr' = ClosedHeap(arr, handle[h])
    /\ handle' = [handle EXCEPT ![h] = NoArray]
    /\ UNCHANGED sli

\* array_set(h, i, v)
ArraySet(h, i, v) ==
    /\ handle[h] # NoArray /\ i < arr[handle[h]].cap
    /\ arr' = [arr EXCEPT ![handle[h]].data[i] = v]
    /\ UNCHANGED <<sli, handle>>

-----------------------------------------------------------------------------
(* Slices. *)

\* s = open_slice(l, c)
OpenSlice(s, l, c) ==
    /\ ~IsOpen(s) /\ l <= c
    /\ \E a \in Unallocated :
        /\ arr' = Opened(arr, a, c)
        /\ sli' = [sli EXCEPT ![s] = [data |-> a, pos |-> 0, len |-> l]]
    /\ UNCHANGED handle

\* s = open_slice_by_array(h, i, j)
OpenSliceByArray(s, h, i, j) ==
    /\ ~IsOpen(s) /\ handle[h] # NoArray
    /\ i <= j /\ j <= arr[handle[h]].cap
    /\ arr' = Assigned(arr, handle[h])
    /\ sli' = [sli EXCEPT ![s] = [data |-> handle[h], pos |-> i, len |-> j - i]]
    /\ UNCHANGED handle

\* The bound an implementer might write: t's own window forgotten.
InReachIgnoringPos(t, j) == j <= arr[sli[t].data].cap

\* assert(sli->pos+end <= sli->data->cap): past t's length, up to the capacity
InReach(t, j) == sli[t].pos + j <= arr[sli[t].data].cap

\* s = open_slice_by_slice(t, i, j)
OpenSliceBySlice(s, t, i, j) ==
    /\ ~IsOpen(s) /\ IsOpen(t)
    /\ i <= j /\ InReach(t, j)
    /\ arr' = Assigned(arr, sli[t].data)
    /\ sli' = [sli EXCEPT ![s] =
                [data |-> sli[t].data, pos |-> sli[t].pos + i, len |-> j - i]]
    /\ UNCHANGED handle

\* close_slice(s)
CloseSlice(s) ==
    /\ IsOpen(s)
    /\ arr' = ClosedHeap(arr, sli[s].data)
    /\ sli' = [sli EXCEPT ![s] = Closed]
    /\ UNCHANGED handle

\* slice_set(s, i, v)
SliceSet(s, i, v) ==
    /\ IsOpen(s) /\ i < sli[s].len
    /\ arr' = [arr EXCEPT ![sli[s].data].data[sli[s].pos + i] = v]
    /\ UNCHANGED <<sli, handle>>

\* The capacity slice_grow asks for, from the window's capacity and the least
\* capacity wanted. LONG_MAX, which no allocator serves, is MaxCap + 16.
GrownCap(old, least) ==
    LET half == old + (old \div 2)
        want == IF half < least THEN least ELSE half
    IN  IF want <= MaxCap THEN want
        ELSE IF least > MaxCap THEN MaxCap + 16 ELSE MaxCap

\* slice_append's and slice_insert's test for a window that ends the array
Full(s) == sli[s].pos + sli[s].len = arr[sli[s].data].cap

\* A growth that copies from the start of the old array instead of the window's.
CopyFromStart(old, p, n) ==
    [cap |-> n, ref |-> 1,
     data |-> [i \in Idx |-> IF i < old.cap - p THEN old.data[i] ELSE Junk]]

\* The array slice_grow opens: n cells, of which the first are the old array's
\* cells from offset p to its capacity.
CopyFrom(old, p, n) ==
    [cap |-> n, ref |-> 1,
     data |-> [i \in Idx |-> IF i < old.cap - p THEN old.data[p + i] ELSE Junk]]

\* The capacity of a full slice s's next array: slice_grow(s, cap+1).
NextCap(s) ==
    LET old == arr[sli[s].data]
    IN  GrownCap(old.cap - sli[s].pos, old.cap + 1 - sli[s].pos)

\* slice_grow of s into a block at address a.
GrownTo(s, a) ==
    [heap |-> ClosedHeap([arr EXCEPT ![a] = CopyFrom(arr[sli[s].data], sli[s].pos, NextCap(s))],
                         sli[s].data),
     slice |-> [data |-> a, pos |-> 0, len |-> sli[s].len]]

\* Heap and slice after slice_grow; there is no outcome when malloc fails
\* (assert(ret != NULL) aborts the program).
Grown(s) == {GrownTo(s, a) : a \in {b \in Unallocated : NextCap(s) <= MaxCap}}

\* An insertion or an append that never looks for room.
WithRoomUnchecked(s) == {[heap |-> arr, slice |-> sli[s]]}

\* Heap and slice once there is a cell for one more element.
WithRoom(s) == IF Full(s) THEN Grown(s) ELSE {[heap |-> arr, slice |-> sli[s]]}

\* slice_append(s, v)
SliceAppend(s, v) ==
    /\ IsOpen(s)
    /\ \E r \in WithRoom(s) :
        /\ arr' = [r.heap EXCEPT ![r.slice.data].data[r.slice.pos + r.slice.len] = v]
        /\ sli' = [sli EXCEPT ![s] = [r.slice EXCEPT !.len = @ + 1]]
    /\ UNCHANGED handle

\* The cells after slice_insert's memmove and store. The memmove starts at the
\* window's first cell, not at index i, and moves len - i cells.
Inserted(d, p, l, i, v) ==
    [[k \in Idx |-> IF p < k /\ k <= p + l - i THEN d[k - 1] ELSE d[k]] EXCEPT ![p + i] = v]

\* slice_insert(s, i, v)
SliceInsert(s, i, v) ==
    /\ IsOpen(s) /\ i <= sli[s].len
    /\ \E r \in WithRoom(s) :
        /\ arr' = [r.heap EXCEPT ![r.slice.data].data =
                    Inserted(@, r.slice.pos, r.slice.len, i, v)]
        /\ sli' = [sli EXCEPT ![s] = [r.slice EXCEPT !.len = @ + 1]]
    /\ UNCHANGED handle

\* A pop that moves one cell too many and pulls in the cell past the window.
PoppedPastEnd(d, p, l, i) ==
    [k \in Idx |-> IF p + i <= k /\ k < p + l /\ k + 1 < MaxCap THEN d[k + 1] ELSE d[k]]

\* The cells after slice_pop moved the elements that follow index i. The source
\* and the target of its memcpy overlap: it is taken to copy upwards.
Popped(d, p, l, i) ==
    [k \in Idx |-> IF p + i <= k /\ k < p + l - 1 THEN d[k + 1] ELSE d[k]]

\* slice_pop(s, i)
SlicePop(s, i) ==
    /\ IsOpen(s) /\ i < sli[s].len
    /\ arr' = [arr EXCEPT ![sli[s].data].data = Popped(@, sli[s].pos, sli[s].len, i)]
    /\ sli' = [sli EXCEPT ![s].len = @ - 1]
    /\ UNCHANGED handle

-----------------------------------------------------------------------------
Init ==
    /\ arr = [a \in Arrays |-> Freed]
    /\ sli = [s \in Slices |-> Closed]
    /\ handle = [h \in Handles |-> NoArray]

HandleStep ==
    \E h \in Handles :
        \/ \E c \in 0 .. MaxCap : OpenArray(h, c)
        \/ \E c \in 0 .. MaxCap : \E d \in [0 .. c - 1 -> Values] : OpenArrayByData(h, d, c)
        \/ \E c \in 1 .. MaxCap : ReopenArray(h, c)
        \/ \E g \in Handles : AssignArray(g, h)
        \/ CloseArray(h)
        \/ \E i \in Idx, v \in Values : ArraySet(h, i, v)

SliceStep ==
    \E s \in Slices :
        \/ \E l, c \in 0 .. MaxCap : OpenSlice(s, l, c)
        \/ \E h \in Handles, i, j \in 0 .. MaxCap : OpenSliceByArray(s, h, i, j)
        \/ \E t \in Slices, i, j \in 0 .. MaxCap : OpenSliceBySlice(s, t, i, j)
        \/ CloseSlice(s)
        \/ \E i \in Idx, v \in Values : SliceSet(s, i, v)
        \/ \E v \in Values : SliceAppend(s, v)
        \/ \E i \in 0 .. MaxCap, v \in Values : SliceInsert(s, i, v)
        \/ \E i \in Idx : SlicePop(s, i)

Next == HandleStep \/ SliceStep

Spec == Init /\ [][Next]_vars

-----------------------------------------------------------------------------
(* Properties. *)

\* Every structure keeps its type: in particular no count is negative and no
\* window leaves the largest block.
TypeOK ==
    /\ arr \in [Arrays -> ArrayStruct]
    /\ sli \in [Slices -> SliceStruct]
    /\ handle \in [Handles -> Arrays \cup {NoArray}]

\* ref is the number of slices and ARRAY* variables that still hold the array:
\* so close_array frees a block exactly when its last holder leaves, through
\* any mix of assign_array, subslicing, growth and closing.
RefCountsHolders == \A a \in Arrays : arr[a].ref = Cardinality(Holders(a))

\* Every window lies inside a block that is still allocated, which is what
\* makes the unchecked stores of slice_set, slice_append and slice_insert safe.
WindowInArray ==
    \A s \in Slices : IsOpen(s) =>
        /\ arr[sli[s].data].ref > 0
        /\ sli[s].pos + sli[s].len <= arr[sli[s].data].cap

\* Through the slice it is called on, slice_append adds at the end, slice_pop
\* removes the indexed element and slice_insert at index 0 (the only index a
\* test uses) adds at the front, whether or not the call grows the array and
\* whoever else shares it.
OwnViewIsASequence ==
    [][\A s \in Slices :
        /\ \A v \in Values : SliceAppend(s, v) => View(s)' = Append(View(s), v)
        /\ \A v \in Values : SliceInsert(s, 0, v) => View(s)' = <<v>> \o View(s)
        /\ \A i \in Idx : SlicePop(s, i) =>
            View(s)' = SubSeq(View(s), 1, i) \o SubSeq(View(s), i + 2, Len(View(s)))]_vars

\* A slice that grows leaves alone: its new array is its own, and neither an
\* element another slice sees nor a cell of an array another holder still has
\* changes, although the call stores an element.
GrowthIsolates ==
    [][\A s \in Slices, b \in Arrays :
        (IsOpen(s) /\ sli[s].data # b /\ sli'[s].data = b) =>
            /\ Holders(b)' = {s}
            /\ \A t \in Slices \ {s} : IsOpen(t) => View(t)' = View(t)
            /\ \A a \in Arrays : Holders(a) \ {s} # {} => arr'[a].data = arr[a].data]_vars

\* A call that changes a cell of an array no ARRAY* variable holds changes it
\* inside the window some slice has after the call: append, insert and pop
\* never touch a cell beyond the end of the window they leave.
WritesStayInWindow ==
    [][\A a \in Arrays, i \in Idx :
        (/\ arr[a].ref > 0 /\ arr'[a].ref > 0 /\ arr'[a].data[i] # arr[a].data[i]
         /\ \A h \in Handles : handle[h] # a)
        => \E s \in Slices :
            /\ sli'[s].data = a
            /\ sli'[s].pos <= i /\ i < sli'[s].pos + sli'[s].len]_vars
=============================================================================
