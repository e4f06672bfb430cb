---------------------------- MODULE MCCrbArrays ----------------------------
(* CrbArrays for TLC. Cell contents play no part in the accounting, so one  *)
(* value, null, is enough; there are no ARRAY* variables in crowbar.         *)
EXTENDS CrbArrays, TLC

Symmetry == Permutations(Arrays) \cup Permutations(Slices)
=============================================================================
