------------------------------- MODULE Deque -------------------------------
(***************************************************************************)
(* The ring buffer of src/src/deque.c: an array, the index of its first and *)
(* of its last element, -1 for both when it is empty.  A push that fills    *)
(* the array moves the elements to the start of a larger one.               *)
(*                                                                         *)
(* deque_push_front on an empty deque stores at index -2, before the block: *)
(* it is undefined behaviour and no action here.  The callers modelled, as  *)
(* test/main.c's deque_test, give an empty deque its element with           *)
(* deque_push_back.                                                         *)
(***************************************************************************)
EXTENDS Integers, Sequences

CONSTANTS
    Values,     \* what a VALUE can be
    Junk,       \* what an uninitialised cell holds
    NoValue,    \* EMPTY_VALUE
    MaxCap      \* ARRAY_MAX_SIZE: the largest block the allocator serves

ASSUME DequeAssumption ==
    /\ MaxCap \in Nat \ {0}
    /\ Junk \notin Values /\ NoValue \notin Values

VARIABLES
    cap,        \* capacity of dq->data
    cell,       \* the cells of dq->data
    front, back,
    out         \* what the last call that returns a VALUE returned

vars == <<cap, cell, front, back, out>>

Idx == 0 .. MaxCap - 1
NewCells == [i \in Idx |-> Junk]

IsEmpty == front = -1

\* deque_len: an empty deque, front = back = -1, has length 1 too.
DequeLen(f, b, c) == IF b - f < 0 THEN b - f + c + 1 ELSE b - f + 1

\* deque_grow's new capacity; MaxCap + 16 is LONG_MAX, which is never served.
GrownCap(old, least) ==
    LET half == old + (old \div 2)
        want == IF half < least THEN least ELSE half
    IN  IF want <= MaxCap THEN want
        ELSE IF least > MaxCap THEN MaxCap + 16 ELSE MaxCap

\* A growth that copies the upper part of a wrapped ring only.
UnwrappedUpperOnly(d, f, b, c) ==
    [i \in Idx |-> IF i < DequeLen(f, b, c) /\ f + i < c THEN d[f + i] ELSE Junk]

\* deque_grow's copy: from f to the end of the old block, then from its start.
Unwrapped(d, f, b, c) ==
    [i \in Idx |-> IF i >= DequeLen(f, b, c) THEN Junk
                   ELSE IF f + i < c THEN d[f + i] ELSE d[f + i - c]]

\* A push that grows only when the next element would not fit.
StoredLate(i, f, b, v) ==
    /\ cell' = [cell EXCEPT ![i] = v]
    /\ front' = f /\ back' = b
    /\ UNCHANGED cap

\* The end of both pushes: the element is stored at i, the ring is f..b, and a
\* ring that is full moves to a larger block at once.
Stored(i, f, b, v) ==
    LET d == [cell EXCEPT ![i] = v]
        len == DequeLen(f, b, cap)
    IN  \/ /\ len # cap
           /\ cell' = d /\ front' = f /\ back' = b
           /\ UNCHANGED cap
        \/ /\ len = cap /\ GrownCap(cap, cap + 1) <= MaxCap
           /\ cap' = GrownCap(cap, cap + 1)
           /\ cell' = Unwrapped(d, f, b, cap)
           /\ front' = 0 /\ back' = len - 1

\* An advance that runs off the end of the block.
NextIndexUnwrapped(i) == i + 1

\* The cells after and before i, round the end of the block.
NextIndex(i) == IF i + 1 = cap THEN 0 ELSE i + 1
PrevIndex(i) == IF i = 0 THEN cap - 1 ELSE i - 1

\* deque_push_front on a deque that holds an element.
PushFront(v) ==
    /\ ~IsEmpty
    /\ Stored(PrevIndex(front), PrevIndex(front), back, v)
    /\ UNCHANGED out

\* deque_push_back
PushBack(v) ==
    /\ Stored(NextIndex(back), IF IsEmpty THEN 0 ELSE front, NextIndex(back), v)
    /\ UNCHANGED out

\* deque_pop_front
PopFront ==
    /\ \/ /\ IsEmpty
          /\ out' = NoValue
          /\ UNCHANGED <<front, back>>
       \/ /\ ~IsEmpty
          /\ out' = cell[front]
          /\ IF front = back THEN front' = -1 /\ back' = -1
             ELSE /\ front' = NextIndex(front)
                  /\ UNCHANGED back
    /\ UNCHANGED <<cap, cell>>

\* deque_pop_back
PopBack ==
    /\ \/ /\ IsEmpty
          /\ out' = NoValue
          /\ UNCHANGED <<front, back>>
       \/ /\ ~IsEmpty
          /\ out' = cell[back]
          /\ IF front = back THEN front' = -1 /\ back' = -1
             ELSE /\ back' = PrevIndex(back)
                  /\ UNCHANGED front
    /\ UNCHANGED <<cap, cell>>

\* deque_front and deque_back
Peek ==
    /\ \/ out' = IF IsEmpty THEN NoValue ELSE cell[front]
       \/ out' = IF IsEmpty THEN NoValue ELSE cell[back]
    /\ UNCHANGED <<cap, cell, front, back>>

\* The array index deque_get and deque_set compute for the element at i. The
\* index wraps when it passes the capacity, not when it reaches it.
ArrayIndex(i) == IF front + i - cap > 0 THEN front + i - cap ELSE front + i

\* deque_get(i) of a deque that is not empty. array_get asserts that the index
\* is below the capacity and stops the program otherwise.
Get(i) ==
    /\ ~IsEmpty /\ i < DequeLen(front, back, cap)
    /\ ArrayIndex(i) < cap
    /\ out' = cell[ArrayIndex(i)]
    /\ UNCHANGED <<cap, cell, front, back>>

\* deque_set(i, v)
Set(i, v) ==
    /\ ~IsEmpty /\ i < DequeLen(front, back, cap)
    /\ ArrayIndex(i) < cap
    /\ out' = cell[ArrayIndex(i)]
    /\ cell' = [cell EXCEPT ![ArrayIndex(i)] = v]
    /\ UNCHANGED <<cap, front, back>>

\* open_deque(c)
Init ==
    /\ \E c \in 0 .. MaxCap : cap = IF c < 1 THEN 1 ELSE c
    /\ cell = NewCells
    /\ front = -1 /\ back = -1
    /\ out = NoValue

Next ==
    \/ \E v \in Values : PushFront(v) \/ PushBack(v)
    \/ PopFront \/ PopBack \/ Peek
    \/ \E i \in Idx : Get(i) \/ \E v \in Values : Set(i, v)

Spec == Init /\ [][Next]_vars

-----------------------------------------------------------------------------
(* Properties. *)

\* The elements the ring holds, front first.
Contents ==
    IF IsEmpty THEN << >>
    ELSE [i \in 1 .. DequeLen(front, back, cap) |-> cell[(front + i - 1) % cap]]

\* Every variable keeps its type: both ends are unset together, and are indices
\* of the block otherwise.
TypeOK ==
    /\ cap \in 1 .. MaxCap
    /\ cell \in [Idx -> Values \cup {Junk}]
    /\ front \in -1 .. cap - 1 /\ back \in -1 .. cap - 1
    /\ front = -1 <=> back = -1
    /\ out \in Values \cup {NoValue}

\* Between calls one cell is always free. DequeLen tells a ring that wraps from
\* one that does not only because of it, and a push that meets a full ring
\* would overwrite the element at the other end.
NeverFull == ~IsEmpty => DequeLen(front, back, cap) < cap

Queue == INSTANCE DequeSpec WITH items <- Contents

\* Whatever the order of pushes, pops and growths on both sides of the wrap,
\* the ring is a double-ended queue: each call returns and changes what the
\* abstract queue's call does.
QueueSpec == Queue!Spec

\* array_get and array_set assert index < cap (src/src/array.c:75 and :81): no
\* index that deque_get accepts may fail it.
AcceptedIndexInArray ==
    ~IsEmpty => \A i \in 0 .. DequeLen(front, back, cap) - 1 : ArrayIndex(i) < cap
=============================================================================
