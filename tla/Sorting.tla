------------------------------ MODULE Sorting ------------------------------
(* The sorts of src/src/sort.c over an array of values that have a key,      *)
(* which compare looks at, and the place they had in the input.  Cells count *)
(* from 1.  A loop is the table of its states after each round, as long as   *)
(* the loop can be; a state the loop ends in stays.                          *)
EXTENDS Integers, Sequences

CONSTANTS
    SortKeys,   \* what compare tells apart
    MaxSize,    \* bound on the size of the input, for model checking
    Threshold   \* the size above which sort() merges: 60

ASSUME SortAssumption == SortKeys \subseteq Int /\ MaxSize \in Nat /\ Threshold \in Nat

VARIABLES
    input,      \* the array before the call
    sorted,     \* the array now
    algorithm   \* the function that sorted it, or "none"

sortVars == <<input, sorted, algorithm>>

Above(a, b) == a.key > b.key            \* compare(a, b) > 0
Swapped(arr, i, j) == [arr EXCEPT ![i] = arr[j], ![j] = arr[i]]

\* The rounds of the outer loops: i from 1 to size - 1
Rounds(arr) == IF arr = << >> THEN 0 ELSE Len(arr) - 1

BubblePass(arr, i) ==
    LET pass[j \in 0..i] ==
          IF j = 0 THEN arr
          ELSE IF Above(pass[j - 1][j], pass[j - 1][j + 1]) THEN Swapped(pass[j - 1], j, j + 1)
          ELSE pass[j - 1]
    IN  pass[i]

BubbleSort(arr) ==
    LET after[m \in 0..Rounds(arr)] ==
          IF m = 0 THEN arr ELSE BubblePass(after[m - 1], Len(arr) - m)
    IN  after[Rounds(arr)]

LeastFrom(arr, i) ==
    LET least[j \in 0..(Len(arr) - i)] ==
          IF j = 0 THEN i
          ELSE IF Above(arr[least[j - 1]], arr[i + j]) THEN i + j ELSE least[j - 1]
    IN  least[Len(arr) - i]

SelectSort(arr) ==
    LET after[i \in 0..Rounds(arr)] ==
          IF i = 0 THEN arr ELSE Swapped(after[i - 1], LeastFrom(after[i - 1], i), i)
    IN  after[Rounds(arr)]

(* The hole moves down past every larger value, and arr[i] goes into it *)
InsertOne(arr, i) ==
    LET j == CHOOSE h \in 1..i : /\ \A p \in h..(i - 1) : Above(arr[p], arr[i])
                                 /\ h = 1 \/ ~ Above(arr[h - 1], arr[i])
    IN  [p \in 1..Len(arr) |->
            IF p = j THEN arr[i] ELSE IF p \in (j + 1)..i THEN arr[p - 1] ELSE arr[p]]

InsertSort(arr) ==
    LET after[i \in 0..Rounds(arr)] ==
          IF i = 0 THEN arr ELSE InsertOne(after[i - 1], i + 1)
    IN  after[Rounds(arr)]

(* The hole is at i, then at j: the first value from the right that is below  *)
(* the pivot k fills it, then the first from the left that is above           *)
FromRight(s, k) == CHOOSE p \in s.i..s.j : /\ \A q \in (p + 1)..s.j : ~ Above(k, s.arr[q])
                                           /\ p = s.i \/ Above(k, s.arr[p])
FilledLeft(s, p) ==
    IF p > s.i THEN [arr |-> [s.arr EXCEPT ![s.i] = s.arr[p]], i |-> s.i + 1, j |-> p]
    ELSE [s EXCEPT !.j = p]

FromLeft(s, k) == CHOOSE p \in s.i..s.j : /\ \A q \in s.i..(p - 1) : ~ Above(s.arr[q], k)
                                          /\ p = s.j \/ Above(s.arr[p], k)
FilledRight(s, p) ==
    IF p < s.j THEN [arr |-> [s.arr EXCEPT ![s.j] = s.arr[p]], i |-> p, j |-> s.j - 1]
    ELSE [s EXCEPT !.i = p]

PartitionRound(s, k) ==
    LET left == FilledLeft(s, FromRight(s, k)) IN
    IF s.i < s.j THEN FilledRight(left, FromLeft(left, k)) ELSE s

Partition(arr, l, r) ==
    LET k == arr[l]
        loop[m \in 0..(r - l)] ==
          IF m = 0 THEN [arr |-> arr, i |-> l, j |-> r] ELSE PartitionRound(loop[m - 1], k)
        end == loop[r - l]
    IN  [arr |-> [end.arr EXCEPT ![end.i] = k], mid |-> end.i]

\* quick[c] is quick_sort(c.arr, c.l, c.r).
QuickCall(arr, l, r) == [arr |-> arr, l |-> l, r |-> r]

QuickSort(arr) ==
    LET n == Len(arr)
        quick[c \in [arr : [1..n -> {arr[p] : p \in 1..n}], l : 1..(n + 1), r : 0..n]] ==
          IF c.l >= c.r THEN c.arr
          ELSE LET part == Partition(c.arr, c.l, c.r)
                   left == quick[QuickCall(part.arr, c.l, part.mid - 1)]
               IN  quick[QuickCall(left, part.mid + 1, c.r)]
    IN  quick[QuickCall(arr, 1, n)]

\* Equal ones are taken from the right.
TakesLeftOnlyLess(a, b) == Above(b, a)

TakesLeft(a, b) == ~ Above(a, b)

(* The two runs l..ml-1 and ml..mr-1 are taken from in turn; of what one of    *)
(* them has left over, the left run's moves up and the right run's stays      *)
Merged(arr, l, ml, mr) ==
    LET taken[j \in 0..(mr - l)] ==
          IF j = 0 THEN [l |-> l, r |-> ml, t |-> << >>]
          ELSE LET s == taken[j - 1] IN
               IF s.l = ml \/ s.r = mr THEN s
               ELSE IF TakesLeft(arr[s.l], arr[s.r])
                    THEN [s EXCEPT !.l = @ + 1, !.t = Append(@, arr[s.l])]
                    ELSE [s EXCEPT !.r = @ + 1, !.t = Append(@, arr[s.r])]
        end == taken[mr - l]
        out == end.t \o SubSeq(arr, end.l, ml - 1) \o SubSeq(arr, end.r, mr - 1)
    IN  [p \in 1..Len(arr) |-> IF p \in l..(mr - 1) THEN out[p - l + 1] ELSE arr[p]]

MergeRound(arr, i) ==
    LET Upto(p) == IF p > Len(arr) + 1 THEN Len(arr) + 1 ELSE p
        round[m \in 0..Len(arr)] ==
          IF m = 0 THEN [arr |-> arr, l |-> 1]
          ELSE LET s == round[m - 1] IN
               IF s.l + i > Len(arr) THEN s
               ELSE [arr |-> Merged(s.arr, s.l, s.l + i, Upto(s.l + i + i)), l |-> Upto(s.l + i + i)]
    IN  round[Len(arr)].arr

MergeSort(arr) ==
    LET after[m \in 0..Len(arr)] ==
          IF m = 0 THEN [arr |-> arr, i |-> 1]
          ELSE LET s == after[m - 1] IN
               IF s.i >= Len(arr) THEN s ELSE [arr |-> MergeRound(s.arr, s.i), i |-> s.i + s.i]
    IN  after[Len(arr)].arr

Sort(arr) == IF Len(arr) > Threshold THEN MergeSort(arr) ELSE InsertSort(arr)

-----------------------------------------------------------------------------

SortInit ==
    /\ input \in UNION {[1..n -> SortKeys] : n \in 0..MaxSize}
    /\ sorted = [i \in 1..Len(input) |-> [key |-> input[i], place |-> i]]
    /\ algorithm = "none"

SortWith(name, result) ==
    /\ algorithm = "none"
    /\ algorithm' = name /\ sorted' = result
    /\ UNCHANGED input

SortNext ==
    \/ SortWith("bubble_sort", BubbleSort(sorted)) \/ SortWith("select_sort", SelectSort(sorted))
    \/ SortWith("insert_sort", InsertSort(sorted)) \/ SortWith("quick_sort", QuickSort(sorted))
    \/ SortWith("merge_sort", MergeSort(sorted)) \/ SortWith("sort", Sort(sorted))

SortSpec == SortInit /\ [][SortNext]_sortVars

-----------------------------------------------------------------------------

Stable == {"bubble_sort", "insert_sort", "merge_sort", "sort"}

(* Every sort puts the input's values, each once, in ascending order.  All of *)
(* them but quick_sort and select_sort keep the order of equal values, so     *)
(* that sort() gives the same result on both sides of its threshold.          *)
SortsStably ==
    algorithm # "none" =>
    /\ Len(sorted) = Len(input)
    /\ {sorted[i].place : i \in 1..Len(sorted)} = 1..Len(input)
    /\ \A i \in 1..Len(sorted) : sorted[i].key = input[sorted[i].place]
    /\ \A i \in 1..(Len(sorted) - 1) :
          /\ ~ Above(sorted[i], sorted[i + 1])
          /\ algorithm \in Stable /\ sorted[i].key = sorted[i + 1].key
                => sorted[i].place < sorted[i + 1].place

=============================================================================
