------------------------------ MODULE SetSpec ------------------------------
(* What an ordered container of distinct keys promises its caller:           *)
(* src/include/rbtree.h.                                                     *)

CONSTANT Keys

VARIABLES
    keys,       \* the keys stored
    found       \* whether the last get or pop found its key

vars == <<keys, found>>

Init == keys = {} /\ found = FALSE

Get(k) == found' = (k \in keys) /\ UNCHANGED keys
Set(k) == keys' = keys \cup {k} /\ UNCHANGED found
Pop(k) == found' = (k \in keys) /\ keys' = keys \ {k}
Clear == keys' = {} /\ UNCHANGED found

Next == Clear \/ \E k \in Keys : Get(k) \/ Set(k) \/ Pop(k)

Spec == Init /\ [][Next]_vars
=============================================================================
