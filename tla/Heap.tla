-------------------------------- MODULE Heap --------------------------------
(* The binary heap of src/src/heap.c over a slice of its own, of which it    *)
(* uses append, the removal of the last cell, set and get.  Cells count from *)
(* 1 here, so the children of i are 2i and 2i+1.                             *)
EXTENDS Integers, Sequences, FiniteSets, Bags

CONSTANTS
    HeapValues,     \* what compare orders
    HeapMax,        \* bound on the values in a heap, for model checking
    EMPTY_VALUE

ASSUME HeapAssumption == HeapValues \subseteq Int

VARIABLES
    data,       \* the heap's slice
    inside,     \* ghost: the bag of what was put in the heap and not taken out
    popped      \* what the last operation returned

heapVars == <<data, inside, popped>>

Compare(a, b) == a - b

(* Values above k move down its path to the root, and k takes the last's place *)
SiftUp(arr, index) ==
    LET k == arr[index]
        climb[i \in 1..index] ==
          LET p == i \div 2 IN
          IF i = 1 \/ Compare(arr[p], k) <= 0 THEN [arr EXCEPT ![i] = k]
          ELSE [climb[p] EXCEPT ![i] = arr[p]]
    IN  climb[index]

\* The last child is never compared with its sibling.
SmallerChildUnbounded(arr, size, i) ==
    LET c == 2 * i IN
    IF c < size - 1 /\ Compare(arr[c], arr[c + 1]) > 0 THEN c + 1 ELSE c

SmallerChild(arr, size, i) ==
    LET c == 2 * i IN
    IF c < size /\ Compare(arr[c], arr[c + 1]) > 0 THEN c + 1 ELSE c

(* The smaller child moves up while it is smaller than k, which takes the     *)
(* place of the last one that did.                                            *)
SiftDown(arr, size, index) ==
    LET k == arr[index]
        sink[i \in 1..size] ==
          LET c == SmallerChild(arr, size, i) IN
          IF 2 * i > size \/ Compare(k, arr[c]) <= 0 THEN [arr EXCEPT ![i] = k]
          ELSE [sink[c] EXCEPT ![i] = arr[c]]
    IN  sink[index]

Build(arr) ==
    LET from[i \in 1..(Len(arr) \div 2 + 1)] ==
          IF i > Len(arr) \div 2 THEN arr ELSE SiftDown(from[i + 1], Len(arr), i)
    IN  from[1]

-----------------------------------------------------------------------------

HeapInit == data = << >> /\ inside = EmptyBag /\ popped = EMPTY_VALUE

BagOf(s) == [v \in {s[i] : i \in 1..Len(s)} |-> Cardinality({i \in 1..Len(s) : s[i] = v})]

(* open_heap_by_data takes an array over, in any order *)
OpenHeapByData(arr) ==
    /\ data = << >>
    /\ data' = Build(arr)
    /\ inside' = BagOf(arr)
    /\ popped' = EMPTY_VALUE

HeapPush(v) ==
    /\ Len(data) < HeapMax
    /\ data' = SiftUp(Append(data, v), Len(data) + 1)
    /\ inside' = inside (+) SetToBag({v})
    /\ popped' = EMPTY_VALUE

WithoutLast(s) == SubSeq(s, 1, Len(s) - 1)

AfterPop ==
    IF Len(data) <= 1 THEN << >>
    ELSE SiftDown([WithoutLast(data) EXCEPT ![1] = data[Len(data)]], Len(data) - 1, 1)

HeapTop == IF data = << >> THEN EMPTY_VALUE ELSE data[1]

HeapPop ==
    /\ data' = AfterPop
    /\ popped' = HeapTop
    /\ inside' = IF data = << >> THEN inside ELSE inside (-) SetToBag({HeapTop})

HeapNext ==
    \/ \E n \in 1..HeapMax : \E arr \in [1..n -> HeapValues] : OpenHeapByData(arr)
    \/ \E v \in HeapValues : HeapPush(v)
    \/ HeapPop

HeapSpec == HeapInit /\ [][HeapNext]_heapVars

-----------------------------------------------------------------------------

(* The slice is a heap of just the values that went in and have not come out, *)
(* and what comes out is the least of them: heap_push, heap_pop and           *)
(* open_heap_by_data, at every size up to the bound.                          *)
PopsTheLeast ==
    /\ \A i \in 2..Len(data) : Compare(data[i \div 2], data[i]) <= 0
    /\ BagOf(data) = inside
    /\ popped # EMPTY_VALUE => \A i \in 1..Len(data) : Compare(popped, data[i]) <= 0

=============================================================================
