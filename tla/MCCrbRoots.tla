---------------------------- MODULE MCCrbRoots -----------------------------
(* CrbRoots for TLC: addresses are interchangeable.  The constants bound     *)
(* every program; the programs explored are of two kinds, `part` says which: *)
(* expressions and statements at the top level, and calls.                   *)
EXTENDS CrbRoots, TLC

VARIABLE part

Values == INSTANCE CrbRoots WITH
            Ops <- {"string", "array", "assoc", "add", "concat", "index", "slice",
                    "variable", "member", "element", "try", "throw"},
            MaxLive <- 3, MaxEnvs <- 0, MaxCtl <- 4

Calls == INSTANCE CrbRoots WITH
            Ops <- {"closure", "variable", "call", "native", "return", "tryfinally", "throw"},
            MaxStack <- 2

MCInit == part \in {"values", "calls"} /\ Init

MCNext ==
    /\ UNCHANGED part
    /\ \/ part = "values" /\ Values!Next
       \/ part = "calls" /\ Calls!Next

MCSpec == MCInit /\ [][MCNext]_<<vars, part>>

Symmetry == Permutations(Objs)
=============================================================================
