----------------------------- MODULE CrbArrays -----------------------------
(***************************************************************************)
(* Crowbar's array objects over the shared arrays of Slice, and the share    *)
(* of heap.current_heap_size they account for: theap.c (creation, slicing,  *)
(* disposal by the collector) and tnative.c (append, insert, pop).          *)
(*                                                                         *)
(* An array object owns one slice, so the objects are the members of Slices *)
(* and an object exists while its slice is open.  Sizes are in units of     *)
(* sizeof(CRB_Value); the fixed size of a CRB_Object is left out, since its *)
(* addition and subtraction match one to one.  Which objects are garbage is *)
(* not modelled here: the collector may dispose of any object at any time.   *)
(***************************************************************************)
EXTENDS Slice

CONSTANTS
    Null,       \* CRB_NULL_VALUE, what creation stores in every cell
    SizeBound   \* no operation allocates once the recorded size is above this

ASSUME CrbAssumption == Null \in Values /\ SizeBound \in Nat

VARIABLE
    size        \* the part of heap.current_heap_size arrays account for

crbVars == <<arr, sli, handle, size>>

\* crb_create_array_i(n): a slice of n cells, all set to null.
CreateArray(s, n) ==
    /\ ~IsOpen(s) /\ size <= SizeBound
    /\ \E a \in Unallocated :
        /\ arr' = [arr EXCEPT ![a] =
                    [cap |-> n, ref |-> 1,
                     data |-> [i \in Idx |-> IF i < n THEN Null ELSE Junk]]]
        /\ sli' = [sli EXCEPT ![s] = [data |-> a, pos |-> 0, len |-> n]]
    /\ size' = size + n
    /\ UNCHANGED handle

\* crb_create_array_slice_i adds nothing for the array it shares.
SliceSize(s, t, i, j) == size' = size

\* eval_array_slice_expression: arr[i:j] of object t makes object s. The test is
\* against the window's capacity and adds the offset once more.
ArraySlice(s, t, i, j) ==
    /\ IsOpen(t) /\ sli[t].pos + j <= arr[sli[t].data].cap - sli[t].pos
    /\ OpenSliceBySlice(s, t, i, j)
    /\ SliceSize(s, t, i, j)

\* CRB_array_set, and assignment to an element
ArrayStore(s, i, v) == SliceSet(s, i, v) /\ UNCHANGED size

\* An accounting that takes the old array off although others still hold it.
ResizedForgetful(s, old) ==
    size' = IF sli'[s].data = old THEN size
            ELSE size - arr[old].cap + arr'[sli'[s].data].cap

\* record_slice_state before, check_slice_state after a call that may grow s:
\* a new array is added, the old one taken off if s was its only holder.
Resized(s, old) ==
    size' = IF sli'[s].data = old THEN size
            ELSE size - (IF arr[old].ref = 1 THEN arr[old].cap ELSE 0)
                      + (IF arr'[sli'[s].data].ref = 1 THEN arr'[sli'[s].data].cap ELSE 0)

\* CRB_array_append, and array_method_append for each of its arguments
ArrayAppend(s, v) ==
    /\ size <= SizeBound
    /\ SliceAppend(s, v)
    /\ Resized(s, sli[s].data)

\* CRB_array_insert at an index that passed its bounds check
ArrayInsert(s, i, v) ==
    /\ size <= SizeBound
    /\ SliceInsert(s, i, v)
    /\ Resized(s, sli[s].data)

\* array_method_pop: whatever index the program passes, it is set to 0 first.
ArrayPop(s) == SlicePop(s, 0) /\ UNCHANGED size

\* A disposal that takes the window off whoever else holds the array.
DisposedSizeAlways(s) == size - (arr[sli[s].data].cap - sli[s].pos)

\* gc_dispose_object takes slice_cap, the capacity from the window's start on,
\* off the size when no other object shares the array.
DisposedSize(s) ==
    IF arr[sli[s].data].ref = 1 THEN size - (arr[sli[s].data].cap - sli[s].pos) ELSE size

\* gc_dispose_object(s)
Dispose(s) ==
    /\ IsOpen(s)
    /\ size' = DisposedSize(s)
    /\ CloseSlice(s)

CrbInit == Init /\ size = 0

CrbNext ==
    \E s \in Slices :
        \/ \E n \in 0 .. MaxCap : CreateArray(s, n)
        \/ \E t \in Slices, i, j \in 0 .. MaxCap : ArraySlice(s, t, i, j)
        \/ \E i \in Idx, v \in Values : ArrayStore(s, i, v)
        \/ \E v \in Values : ArrayAppend(s, v)
        \/ \E i \in 0 .. MaxCap, v \in Values : ArrayInsert(s, i, v)
        \/ ArrayPop(s)
        \/ Dispose(s)

CrbSpec == CrbInit /\ [][CrbNext]_crbVars

-----------------------------------------------------------------------------
(* Properties. *)

\* The cells the allocated arrays really have.
CellsOf(H) == {c \in Arrays \X (1 .. MaxCap) : c[2] <= H[c[1]].cap}
ActualSize == Cardinality(CellsOf(arr))

\* The types of the variables, a part of NeverUndercounts.
CrbTypeOK == TypeOK /\ size \in Int

\* The collector is driven by a size that is never below what the arrays take:
\* otherwise memory could grow without a collection, and the size go negative.
NeverUndercounts == CrbTypeOK /\ size >= ActualSize

\* A step moves the recorded size by what it allocates less what it frees, but
\* for one case: disposing of the last object on an array whose window does not
\* start at the array's first cell.
SizeFollowsArrays ==
    [][\/ size' - size = ActualSize' - ActualSize
       \/ \E s \in Slices : /\ IsOpen(s) /\ ~IsOpen(s)'
                            /\ arr[sli[s].data].ref = 1 /\ sli[s].pos > 0]_crbVars

\* DBG_assert(inter->heap.current_heap_size == 0, "%d bytes leaked") at the end
\* of CRB_dispose_interpreter (tinterpreter.c:257): when every object has been
\* disposed of, nothing is left on the books.
NothingLeaked == (\A s \in Slices : ~IsOpen(s)) => size = 0
=============================================================================
