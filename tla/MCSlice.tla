------------------------------ MODULE MCSlice ------------------------------
(* Slice for TLC: two slices and two ARRAY* variables over two addresses.    *)
EXTENDS Slice, TLC

Symmetry == Permutations(Arrays) \cup Permutations(Slices) \cup Permutations(Handles)
=============================================================================
