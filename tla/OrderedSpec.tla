---------------------------- MODULE OrderedSpec ----------------------------
(* What an ordered list of values promises its caller: src/include/          *)
(* skiplist.h.  Values have a key, by which they are found and removed, and  *)
(* a second comparison may tell values of one key apart.                     *)
EXTENDS Integers, FiniteSets

CONSTANTS Elements, Keys

VARIABLES
    compare2,   \* whether values of one key are told apart
    entries,    \* the values stored
    removed     \* what a removal returned, after it

vars == <<compare2, entries, removed>>

Same(e, v) == e.key = v.key /\ (compare2 => e.tag = v.tag)

Init == compare2 \in BOOLEAN /\ entries = {} /\ removed = 0

Set(v) == entries' = {e \in entries : ~ Same(e, v)} \cup {v} /\ removed' = 0 /\ UNCHANGED compare2

(* Everything between the two keys, given in either order *)
Between(k1, k2) == {e \in entries : \/ k1 <= e.key /\ e.key <= k2
                                    \/ k2 <= e.key /\ e.key <= k1}

Remove(k1, k2) ==
    /\ entries' = entries \ Between(k1, k2)
    /\ removed' = Cardinality(Between(k1, k2))
    /\ UNCHANGED compare2

Clear == entries' = {} /\ removed' = 0 /\ UNCHANGED compare2

Next ==
    \/ Clear
    \/ \E v \in Elements : Set(v)
    \/ \E k1 \in Keys, k2 \in Keys : Remove(k1, k2)

Spec == Init /\ [][Next]_vars
=============================================================================
