------------------------------- MODULE RBTree -------------------------------
(***************************************************************************)
(* The red-black tree of src/src/rbtree.c and of its macro twin             *)
(* src/include/rbtree_tpl.h (crowbar's associative arrays).                 *)
(*                                                                         *)
(* Values never move between nodes, so a node is named by the key it was    *)
(* opened with; what a value has beside its key is left out.  One sentinel, *)
(* the leaf inside struct rbtree, stands for every missing child: its       *)
(* parent is what the last removal put there.  One iteration of a repair    *)
(* loop is one action.                                                       *)
(***************************************************************************)
EXTENDS Integers, Sequences, SequencesExt, FiniteSets

CONSTANTS
    Keys,       \* what the compare function tells apart
    Leaf,       \* &tr->leaf
    NULL

ASSUME TreeAssumption ==
    /\ Keys \subseteq Int /\ IsFiniteSet(Keys)
    /\ {Leaf, NULL} \cap Keys = {} /\ Leaf # NULL

VARIABLES
    tree,       \* [root, node]: tr->root, and the nodes in memory
    length,     \* tr->length
    mode,       \* the call in progress, or "idle"
    at,         \* the node its loop stands at: `node` or `temp`
    popped,     \* the node rbtree_pop will free
    found       \* *ok of the last get or pop

vars == <<tree, length, mode, at, popped, found>>

Sides == {"left", "right"}
Other(side) == IF side = "left" THEN "right" ELSE "left"
Link == Keys \cup {Leaf, NULL}
Node == [parent : Link, left : Link, right : Link, red : BOOLEAN]

\* Memory that is not allocated, and the sentinel at first
Freed == [parent |-> NULL, left |-> NULL, right |-> NULL, red |-> FALSE]

InMemory(T) == {x \in Keys : T.node[x] # Freed}

\* A child of node x, by its side; whether x is red
Child(T, x, side) == T.node[x][side]
Parent(T, x) == T.node[x].parent
SideOf(T, x) == IF x = Child(T, Parent(T, x), "left") THEN "left" ELSE "right"
IsRed(T, x) == T.node[x].red

Painted(T, x, red) == [T EXCEPT !.node[x].red = red]
WithParent(T, x, p) == [T EXCEPT !.node[x].parent = p]
WithChild(T, x, side, c) == [T EXCEPT !.node[x][side] = c]

\* A rotation that leaves the root where it was.
ReplacedBelowRoot(T, x, y) ==
    IF x = T.root THEN T ELSE WithChild(T, Parent(T, x), SideOf(T, x), y)

\* The link of x's parent, or the root, now leads to y.
Replaced(T, x, y) ==
    IF x = T.root THEN [T EXCEPT !.root = y]
    ELSE WithChild(T, Parent(T, x), SideOf(T, x), y)

\* A rotation that forgets the subtree that changes sides.
RotatedInnerLost(T, x, side) ==
    LET up == Child(T, x, Other(side))
        inner == Child(T, up, side)
        R == WithChild(Replaced(T, x, up), x, Other(side), inner)
    IN  WithChild(WithParent(WithParent(R, x, up), up, Parent(T, x)), up, side, x)

\* rbtree_left_rotate, rbtree_right_rotate: x goes down to `side`.
Rotated(T, x, side) ==
    LET up == Child(T, x, Other(side))
        inner == Child(T, up, side)
        R == WithChild(Replaced(T, x, up), x, Other(side), inner)
        S == WithChild(WithParent(WithParent(R, x, up), up, Parent(T, x)), up, side, x)
    IN  IF inner = Leaf THEN S ELSE WithParent(S, inner, x)

-----------------------------------------------------------------------------
(* Look-up. *)

\* rbtree_fast_get: the node that has key k, or the one k would be a child of.
Search(T, k) ==
    LET toward(x) == IF k < x THEN "left" ELSE "right"
        go[x \in InMemory(T)] ==
            IF k = x \/ Child(T, x, toward(x)) = Leaf THEN x ELSE go[Child(T, x, toward(x))]
    IN  go[T.root]

Has(T, k) == T.root # Leaf /\ Search(T, k) = k

\* rbtree_get
Get(k) ==
    /\ mode = "idle"
    /\ found' = Has(tree, k)
    /\ UNCHANGED <<tree, length, mode, at, popped>>

-----------------------------------------------------------------------------
(* Insertion. *)

\* rbtree_open_node and the store through `where`: a red node, or the root.
Inserted(T, k) ==
    LET p == IF T.root = Leaf THEN NULL ELSE Search(T, k)
        new == [parent |-> p, left |-> Leaf, right |-> Leaf, red |-> p # NULL]
        U == [T EXCEPT !.node[k] = new]
    IN  IF p = NULL THEN [U EXCEPT !.root = k]
        ELSE WithChild(U, p, IF k < p THEN "left" ELSE "right", k)

\* rbtree_set of a key that is there replaces its value: no change here.
Set(k) ==
    /\ mode = "idle" /\ ~Has(tree, k)
    /\ tree' = Inserted(tree, k)
    /\ length' = length + 1
    /\ mode' = "set" /\ at' = k
    /\ UNCHANGED <<popped, found>>

\* The loop's condition in rbtree_fast_set
RedParent == at # tree.root /\ IsRed(tree, Parent(tree, at))

\* The uncle is red: the grandparent gives both its colour.
RecolorUp ==
    /\ mode = "set" /\ RedParent
    /\ LET p == Parent(tree, at)
           g == Parent(tree, p)
           uncle == Child(tree, g, Other(SideOf(tree, p)))
       IN  /\ IsRed(tree, uncle)
           /\ tree' = Painted(Painted(Painted(tree, p, FALSE), uncle, FALSE), g, TRUE)
           /\ at' = g
    /\ UNCHANGED <<length, mode, popped, found>>

\* The uncle is black: an inner grandchild is first made an outer one.
RotateUp ==
    /\ mode = "set" /\ RedParent
    /\ LET p == Parent(tree, at)
           g == Parent(tree, p)
           side == SideOf(tree, p)
           inner == SideOf(tree, at) # side
           T == IF inner THEN Rotated(tree, p, side) ELSE tree
           q == IF inner THEN at ELSE p
       IN  /\ ~IsRed(tree, Child(tree, g, Other(side)))
           /\ tree' = Rotated(Painted(Painted(T, q, FALSE), g, TRUE), g, Other(side))
           /\ at' = IF inner THEN p ELSE at
    /\ UNCHANGED <<length, mode, popped, found>>

\* rbnode_set_black(tr->root)
RootPainted(T) == Painted(T, T.root, FALSE)

SetEnds ==
    /\ mode = "set" /\ ~RedParent
    /\ tree' = RootPainted(tree)
    /\ mode' = "idle" /\ at' = Leaf
    /\ UNCHANGED <<length, popped, found>>

-----------------------------------------------------------------------------
(* Removal. *)

\* The last node on the way from x to the left
Leftmost(T, x) ==
    LET go[y \in InMemory(T)] == IF Child(T, y, "left") = Leaf THEN y ELSE go[Child(T, y, "left")]
    IN  go[x]

\* The node that leaves its place when x is removed, and what takes that place
Subst(T, x) ==
    IF Child(T, x, "left") = Leaf \/ Child(T, x, "right") = Leaf THEN x
    ELSE Leftmost(T, Child(T, x, "right"))
Temp(T, x) ==
    LET s == Subst(T, x)
    IN  IF s = x /\ Child(T, x, "left") # Leaf THEN Child(T, x, "left") ELSE Child(T, s, "right")

\* The tree after x was taken out of it and its substitute put in its place
Unlinked(T, x) ==
    LET s == Subst(T, x)
        t == Temp(T, x)
        p == Parent(T, s)
        U == WithChild(T, p, SideOf(T, s), t)
    IN  IF s = x THEN WithParent(U, t, p)
        ELSE LET V == WithParent(U, t, IF p = x THEN s ELSE p)
                 W == Replaced([V EXCEPT !.node[s] = V.node[x]], x, s)
                 set(S, side) == IF Child(W, s, side) = Leaf THEN S
                                 ELSE WithParent(S, Child(W, s, side), s)
             IN  set(set(W, "left"), "right")

\* rbtree_get's part of rbtree_pop: no such key
PopMissing(k) ==
    /\ mode = "idle" /\ ~Has(tree, k)
    /\ found' = FALSE
    /\ UNCHANGED <<tree, length, mode, at, popped>>

\* rbtree_fast_pop of a root with one child at most: its parent is not updated.
PopRoot(k) ==
    /\ mode = "idle" /\ Has(tree, k) /\ Subst(tree, k) = tree.root
    /\ LET t == Temp(tree, k)
           T == Painted([tree EXCEPT !.root = t], t, FALSE)
       IN  tree' = [T EXCEPT !.node[k] = Freed]
    /\ length' = length - 1
    /\ found' = TRUE
    /\ UNCHANGED <<mode, at, popped>>

\* rbtree_fast_pop up to the loop. A red node leaves no repair to do.
Pop(k) ==
    /\ mode = "idle" /\ Has(tree, k) /\ Subst(tree, k) # tree.root
    /\ tree' = Unlinked(tree, k)
    /\ at' = Temp(tree, k)
    /\ mode' = IF IsRed(tree, Subst(tree, k)) THEN "popped" ELSE "pop"
    /\ popped' = k
    /\ length' = length - 1
    /\ found' = TRUE

\* The loop's condition
LacksBlack == at # tree.root /\ ~IsRed(tree, at)

\* The first half of an iteration: the sibling becomes black.
SiblingBlack(T, p, side) ==
    LET w == Child(T, p, Other(side))
    IN  IF IsRed(T, w) THEN Rotated(Painted(Painted(T, w, FALSE), p, TRUE), p, side) ELSE T

BothBlack(T, w) == ~IsRed(T, Child(T, w, "left")) /\ ~IsRed(T, Child(T, w, "right"))

\* A loop that goes on at the same node.
NextUpStays(p) == at

\* temp = rbnode_parent(temp)
NextUp(p) == p

\* The sibling has no red child: it turns red and the parent lacks a black.
PopUp ==
    /\ mode = "pop" /\ LacksBlack
    /\ LET p == Parent(tree, at)
           side == SideOf(tree, at)
           T == SiblingBlack(tree, p, side)
           w == Child(T, p, Other(side))
       IN  /\ BothBlack(T, w)
           /\ tree' = Painted(T, w, TRUE)
           /\ at' = NextUp(p)
    /\ UNCHANGED <<length, mode, popped, found>>

\* The far child of the sibling is made red if it is not.
FarRed(T, p, side) ==
    LET w == Child(T, p, Other(side))
    IN  IF IsRed(T, Child(T, w, Other(side))) THEN T
        ELSE Rotated(Painted(Painted(T, Child(T, w, side), FALSE), w, TRUE), w, Other(side))

\* A last rotation after which the sibling keeps its own colour.
BorrowedKeepsColor(T, p, side) ==
    LET w == Child(T, p, Other(side))
    IN  Rotated(Painted(Painted(T, p, FALSE), Child(T, w, Other(side)), FALSE), p, side)

\* The sibling takes the parent's colour and place.
Borrowed(T, p, side) ==
    LET w == Child(T, p, Other(side))
        C == Painted(T, w, IsRed(T, p))
    IN  Rotated(Painted(Painted(C, p, FALSE), Child(T, w, Other(side)), FALSE), p, side)

\* The sibling has a red child: one rotation or two and the loop ends.
PopBorrow ==
    /\ mode = "pop" /\ LacksBlack
    /\ LET p == Parent(tree, at)
           side == SideOf(tree, at)
           T == SiblingBlack(tree, p, side)
       IN  /\ ~BothBlack(T, Child(T, p, Other(side)))
           /\ tree' = Borrowed(FarRed(T, p, side), p, side)
           /\ at' = tree'.root
    /\ UNCHANGED <<length, mode, popped, found>>

\* rbnode_set_black(temp), unless nothing was to repair; rbtree_close_node
PopEnds ==
    /\ mode = "popped" \/ (mode = "pop" /\ ~LacksBlack)
    /\ tree' = LET T == IF mode = "pop" THEN Painted(tree, at, FALSE) ELSE tree
               IN  [T EXCEPT !.node[popped] = Freed]
    /\ mode' = "idle" /\ at' = Leaf /\ popped' = NULL
    /\ UNCHANGED <<length, found>>

-----------------------------------------------------------------------------
(* Walks. *)

\* A walk that goes down only from the root.
DescentStays(right) == Leaf

\* Where a walk goes on after a node with right child `right`; Leaf: nowhere,
\* the next node comes from the stack.
Descent(right) == right

\* A walk's state: the node it goes down from, its stack, the nodes visited.
\* Each step is one push on the way down to the left, or one pop, after which the
\* right child of the node visited, if it has one, is pushed.
Stepped(T, w) ==
    LET left == IF w.top = Leaf THEN Leaf ELSE Child(T, w.top, "left")
        right == Child(T, Last(w.st), "right")
    IN  IF left # Leaf THEN [top |-> left, st |-> Append(w.st, left), seen |-> w.seen]
        ELSE IF w.st = << >> THEN w
        ELSE [top |-> Descent(right),
              st |-> IF right = Leaf THEN Front(w.st) ELSE Append(Front(w.st), right),
              seen |-> Append(w.seen, Last(w.st))]

\* The nodes that rbtree_ldr and rbtree_clear visit, in their order: no node is
\* pushed twice.
Walked(T) ==
    LET steps == 2 * Cardinality(InMemory(T))
        walk[n \in 0 .. steps] ==
            IF n = 0 THEN [top |-> T.root, st |-> <<T.root>>, seen |-> << >>]
            ELSE Stepped(T, walk[n - 1])
    IN  IF T.root = Leaf THEN << >> ELSE walk[steps].seen

\* rbtree_clear
Clear ==
    /\ mode = "idle" /\ tree.root # Leaf
    /\ tree' = [root |-> Leaf,
                node |-> [x \in DOMAIN tree.node |->
                            IF x \in Range(Walked(tree)) THEN Freed ELSE tree.node[x]]]
    /\ length' = 0
    /\ UNCHANGED <<mode, at, popped, found>>

-----------------------------------------------------------------------------
\* open_rbtree
Init ==
    /\ tree = [root |-> Leaf, node |-> [x \in Keys \cup {Leaf} |-> Freed]]
    /\ length = 0
    /\ mode = "idle" /\ at = Leaf /\ popped = NULL
    /\ found = FALSE

Repair == RecolorUp \/ RotateUp \/ SetEnds \/ PopUp \/ PopBorrow \/ PopEnds

Next ==
    \/ \E k \in Keys : Get(k) \/ Set(k) \/ PopMissing(k) \/ PopRoot(k) \/ Pop(k)
    \/ Clear
    \/ Repair

Spec == Init /\ [][Next]_vars

-----------------------------------------------------------------------------
(* Properties. *)

\* The nodes of the tree: in memory and not about to be freed
Contents == InMemory(tree) \ {popped}

\* The types of the variables, a part of LinksAgree: tr->length counts the nodes.
TypeOK ==
    /\ tree.root \in Keys \cup {Leaf}
    /\ tree.node \in [Keys \cup {Leaf} -> Node]
    /\ mode \in {"idle", "set", "pop", "popped"}
    /\ at \in Keys \cup {Leaf} /\ popped \in Keys \cup {NULL}
    /\ found \in BOOLEAN
    /\ length = Cardinality(Contents)

\* Links agree after every step, in the middle of a repair too: the child of a
\* node has it as its parent, and every link of the tree, but for the stale
\* parent of a root, leads to a node of the tree. So no repair follows a pointer
\* to a node that was freed.
LinksAgree ==
    /\ TypeOK
    /\ tree.root # Leaf => tree.root \in Contents
    /\ \A x \in Contents, side \in Sides :
        LET c == Child(tree, x, side)
        IN  c # Leaf => c \in Contents /\ c # tree.root /\ Parent(tree, c) = x

\* The numbers of black nodes on the ways from x down, where the sentinel or
\* node a removal has yet to repair counts once more.
BlackHeights ==
    LET extra(x, c) == IF /\ mode = "pop" /\ c = at
                          /\ c = Leaf => Parent(tree, Leaf) = x
                       THEN 1 ELSE 0
        own(c) == IF IsRed(tree, c) THEN 0 ELSE 1
        down[x \in Contents \cup {Leaf}] ==
            IF x = Leaf THEN {0}
            ELSE UNION {{h + own(Child(tree, x, s)) + extra(x, Child(tree, x, s)) :
                            h \in down[Child(tree, x, s)]} : s \in Sides}
    IN  down[tree.root]

\* No red node has a red child, but for the node a repair stands at, and the
\* root is black when no call is in progress.
NoRedRed ==
    /\ mode = "idle" => ~IsRed(tree, tree.root)
    /\ ~IsRed(tree, Leaf)
    /\ \A x \in Contents, side \in Sides :
        IsRed(tree, x) /\ IsRed(tree, Child(tree, x, side)) =>
            \/ mode = "set" /\ Child(tree, x, side) = at
            \/ mode = "pop" /\ at \in {x, Child(tree, x, side)}

\* All ways from the root to the sentinel have the same number of black nodes,
\* after every step, with the one a removal is short of counted where it is, and
\* red nodes are apart: the tree is never more than twice as deep as it must be.
BlackBalanced == NoRedRed /\ Cardinality(BlackHeights) = 1

Container == INSTANCE SetSpec WITH keys <- Contents

\* Look-ups through a tree that was rotated and relinked by any series of calls
\* find just the keys that were set and not removed.
ContainerSpec == Container!Spec

\* Between calls rbtree_ldr visits the nodes in order and misses none; so does
\* rbtree_clear, which frees what it visits.
WalkInOrder ==
    mode = "idle" =>
        LET w == Walked(tree)
        IN  Range(w) = Contents /\ \A i \in 1 .. Len(w) - 1 : w[i] < w[i + 1]

\* How far node x is from the root; the sentinel is where the repair is.
Depth(x) ==
    LET up[y \in Contents] == IF y = tree.root THEN 0 ELSE 1 + up[Parent(tree, y)]
    IN  IF x = Leaf THEN 1 + up[Parent(tree, Leaf)] ELSE up[x]

\* Both repair loops end: each iteration comes closer to the root or makes the
\* node it goes on to one that ends the loop.
RepairClimbs ==
    [][(mode \in {"set", "pop"} /\ mode' = mode) =>
        (Depth(at)' < Depth(at) \/ (mode = "pop" /\ IsRed(tree', at')))]_vars
=============================================================================
