----------------------------- MODULE DequeSpec -----------------------------
(* What a double-ended queue promises its caller: src/include/deque.h.      *)
EXTENDS Naturals, Sequences

CONSTANTS
    Values,     \* what is queued
    NoValue     \* EMPTY_VALUE, what a call on an empty queue returns

VARIABLES
    items,      \* the queue, front first
    out         \* what the last call returned

vars == <<items, out>>

Init == items = << >> /\ out = NoValue

PushFront(v) == items' = <<v>> \o items /\ UNCHANGED out
PushBack(v) == items' = Append(items, v) /\ UNCHANGED out

PopFront ==
    \/ items = << >> /\ out' = NoValue /\ UNCHANGED items
    \/ items # << >> /\ out' = Head(items) /\ items' = Tail(items)

PopBack ==
    \/ items = << >> /\ out' = NoValue /\ UNCHANGED items
    \/ /\ items # << >> /\ out' = items[Len(items)]
       /\ items' = SubSeq(items, 1, Len(items) - 1)

\* Index i counts from 0 at the front.
Get(i) == i < Len(items) /\ out' = items[i + 1] /\ UNCHANGED items
Set(i, v) == i < Len(items) /\ out' = items[i + 1] /\ items' = [items EXCEPT ![i + 1] = v]

Peek ==
    /\ out' \in IF items = << >> THEN {NoValue} ELSE {items[1], items[Len(items)]}
    /\ UNCHANGED items

Next ==
    \/ \E v \in Values : PushFront(v) \/ PushBack(v)
    \/ PopFront \/ PopBack \/ Peek
    \/ \E i \in 0 .. Len(items), v \in Values : Get(i) \/ Set(i, v)

Spec == Init /\ [][Next]_vars
=============================================================================
