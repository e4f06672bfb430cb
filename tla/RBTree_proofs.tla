---------------------------- MODULE RBTree_proofs ----------------------------
(***************************************************************************)
(* Theorems about RBTree, for every finite set of integer keys and every    *)
(* series of calls.                                                         *)
(* The invariant says of the tree what no variable holds: there is a set of *)
(* nodes below each node, which the links divide in order, and a number of  *)
(* black nodes below each node, which all ways down agree on but for the    *)
(* way where a removal stands.  A rotation, an exchange of colours, an      *)
(* insertion and a removal are lemmas about trees; the steps cite them.     *)
(* The recursive functions of the model (a search, the first node of a      *)
(* subtree, a walk, the black heights) exist because every way down ends:   *)
(* Lowest takes the place of an induction over the tree.                    *)
(***************************************************************************)
EXTENDS RBTree, FiniteSetTheorems, WellFoundedInduction, TLAPS

Cells == Keys \cup {Leaf}
Trees == [root : Cells, node : [Cells -> Node]]

\* a is on side `side` of b
Less(side, a, b) == IF side = "left" THEN a < b ELSE b < a

\* The nodes C of tree T: every link but the root's parent agrees with the
\* one it answers.
Linked(T, C) ==
    /\ T \in Trees /\ C \subseteq Keys
    /\ T.root \in C \cup {Leaf} /\ (T.root = Leaf => C = {})
    /\ \A x \in C, side \in Sides :
          /\ Child(T, x, side) \in C \cup {Leaf}
          /\ Child(T, x, side) # Leaf =>
                Child(T, x, side) # T.root /\ Parent(T, Child(T, x, side)) = x
    /\ \A x \in C : x # T.root =>
          Parent(T, x) \in C /\ \E side \in Sides : Child(T, Parent(T, x), side) = x

\* D[x] is the set of the nodes below x, x included: those to the left of x
\* come before x, those to the right after it.
Sorted(T, C, D) ==
    /\ D \in [C \cup {Leaf} -> SUBSET C]
    /\ D[Leaf] = {} /\ D[T.root] = C
    /\ \A x \in C, side \in Sides, z \in C :
          z \in D[x] <=>
             z = x \/ z \in D[Child(T, x, side)] \/ z \in D[Child(T, x, Other(side))]
    /\ \A x \in C, side \in Sides : \A z \in D[Child(T, x, side)] : Less(side, z, x)

\* What a node adds to the black nodes on a way through it
Own(T, c) == IF IsRed(T, c) THEN 0 ELSE 1

\* The way from x to its child c lacks a black: a removal stands there.
Lack(T, x, c, hole) ==
    IF c = hole /\ (c = Leaf => Parent(T, Leaf) = x) THEN 1 ELSE 0

\* h[x] is the number of black nodes below x on every way down from it.
Level(T, C, h, hole) ==
    /\ h \in [C \cup {Leaf} -> Nat] /\ h[Leaf] = 0
    /\ \A x \in C, side \in Sides :
          h[x] = h[Child(T, x, side)] + Own(T, Child(T, x, side))
                   + Lack(T, x, Child(T, x, side), hole)

\* A red node has no red child, but where the call m in progress stands.
Colored(T, C, m, a) ==
    /\ ~IsRed(T, Leaf)
    /\ IsRed(T, T.root) => m \in {"set", "pop"} /\ a = T.root
    /\ \A x \in C, side \in Sides :
          IsRed(T, x) /\ IsRed(T, Child(T, x, side)) =>
             \/ m = "set" /\ Child(T, x, side) = a
             \/ m = "pop" /\ a \in {x, Child(T, x, side)}

\* The repair of a call m stands at a node, or at the sentinel, which then has
\* a sibling and knows its parent.
Standing(T, C, m, a) ==
    /\ m = "set" => a \in C /\ (a # T.root => IsRed(T, a))
    /\ m = "pop" =>
          /\ T.root # Leaf /\ a \in C \cup {Leaf}
          /\ a = Leaf =>
                /\ Parent(T, Leaf) \in C
                /\ \E side \in Sides : /\ Child(T, Parent(T, Leaf), side) = Leaf
                                      /\ Child(T, Parent(T, Leaf), Other(side)) # Leaf

HoleOf(m, a) == IF m = "pop" THEN a ELSE NULL

Good(T, C, m, a) ==
    /\ \E D : Linked(T, C) /\ Sorted(T, C, D)
    /\ \E h : Level(T, C, h, HoleOf(m, a))
    /\ Colored(T, C, m, a)
    /\ Standing(T, C, m, a)

-----------------------------------------------------------------------------
(* The links after a step. *)

\* A node has two sides.
LEMMA TwoSides ==
    /\ \A s \in Sides : Other(s) \in Sides /\ Other(s) # s /\ Other(Other(s)) = s
    /\ \A s, t \in Sides : t = s \/ t = Other(s)
    /\ "left" \in Sides /\ "right" \in Sides
    /\ \A s \in Sides : s # "parent" /\ s # "red"
    /\ Other("left") = "right" /\ Other("right") = "left"
  BY DEF Sides, Other

\* Writing one field of a node changes no other.
ChildSet(T, R, y, s, v) ==
    /\ R \in Trees /\ R.root = T.root
    /\ \A z \in Cells, t \in Sides :
          Child(R, z, t) = IF z = y /\ t = s THEN v ELSE Child(T, z, t)
    /\ \A z \in Cells : Parent(R, z) = Parent(T, z) /\ IsRed(R, z) = IsRed(T, z)
    /\ \A z \in Cells : z # y => R.node[z] = T.node[z]

ParentSet(T, R, y, v) ==
    /\ R \in Trees /\ R.root = T.root
    /\ \A z \in Cells, t \in Sides : Child(R, z, t) = Child(T, z, t)
    /\ \A z \in Cells : Parent(R, z) = IF z = y THEN v ELSE Parent(T, z)
    /\ \A z \in Cells : IsRed(R, z) = IsRed(T, z)
    /\ \A z \in Cells : z # y => R.node[z] = T.node[z]

ColorSet(T, R, y, red) ==
    /\ R \in Trees /\ R.root = T.root
    /\ \A z \in Cells, t \in Sides : Child(R, z, t) = Child(T, z, t)
    /\ \A z \in Cells : Parent(R, z) = Parent(T, z)
    /\ \A z \in Cells : IsRed(R, z) = IF z = y THEN red ELSE IsRed(T, z)
    /\ \A z \in Cells : z # y => R.node[z] = T.node[z]

\* rbnode_set_left and rbnode_set_right write one link of a node.
LEMMA ChildWritten ==
    ASSUME NEW T \in Trees, NEW y \in Cells, NEW s \in Sides, NEW v \in Link
    PROVE  ChildSet(T, WithChild(T, y, s, v), y, s, v)
  BY DEF Trees, Node, WithChild, Child, Parent, IsRed, Sides, ChildSet

\* rbnode_set_parent writes a node's parent and keeps its colour, which the code
\* packs into the same word.
LEMMA ParentWritten ==
    ASSUME NEW T \in Trees, NEW y \in Cells, NEW v \in Link
    PROVE  ParentSet(T, WithParent(T, y, v), y, v)
  BY DEF Trees, Node, WithParent, Child, Parent, IsRed, Sides, ParentSet

\* rbnode_set_red and rbnode_set_black write a node's colour and keep its parent.
LEMMA ColorWritten ==
    ASSUME NEW T \in Trees, NEW y \in Cells, NEW red \in BOOLEAN
    PROVE  ColorSet(T, Painted(T, y, red), y, red)
  BY DEF Trees, Node, Painted, Child, Parent, IsRed, Sides, ColorSet

\* Writing tr->root changes no node.
LEMMA RootWritten ==
    ASSUME NEW T \in Trees, NEW y \in Cells
    PROVE  LET R == [T EXCEPT !.root = y]
           IN  R \in Trees /\ R.root = y /\ R.node = T.node
  BY DEF Trees

\* What the links of a sorted tree exclude: a node is not below its children,
\* and it is the child of one node on one side.
LEMMA Apart ==
    ASSUME NEW T, NEW C, NEW D, Linked(T, C), Sorted(T, C, D)
    PROVE  /\ C \subseteq Int /\ Leaf \notin C /\ NULL \notin C /\ C \cup {Leaf} \subseteq Cells
           /\ \A x \in C : x \in D[x] /\ D[x] \subseteq C
           /\ \A x \in C, s \in Sides :
                 /\ D[Child(T, x, s)] \subseteq C
                 /\ x \notin D[Child(T, x, s)] /\ Child(T, x, s) # x
                 /\ \A z \in D[Child(T, x, s)] : z \notin D[Child(T, x, Other(s))]
                 /\ Child(T, x, s) # Leaf => Child(T, x, s) # Child(T, x, Other(s))
           /\ \A x, y \in C, s, t \in Sides :
                 Child(T, x, s) = Child(T, y, t) /\ Child(T, x, s) # Leaf => x = y /\ s = t
<1>1. C \subseteq Int /\ Leaf \notin C /\ NULL \notin C /\ C \cup {Leaf} \subseteq Cells
  BY TreeAssumption DEF Linked, Cells
<1>2. \A x \in C : x \in D[x] /\ D[x] \subseteq C
  BY TwoSides DEF Sorted
<1>3. ASSUME NEW x \in C, NEW s \in Sides
      PROVE  /\ D[Child(T, x, s)] \subseteq C
             /\ x \notin D[Child(T, x, s)] /\ Child(T, x, s) # x
             /\ \A z \in D[Child(T, x, s)] : z \notin D[Child(T, x, Other(s))]
             /\ Child(T, x, s) # Leaf => Child(T, x, s) # Child(T, x, Other(s))
  <2>1. Child(T, x, s) \in C \cup {Leaf} /\ Child(T, x, Other(s)) \in C \cup {Leaf}
    BY TwoSides DEF Linked
  <2>2. D[Child(T, x, s)] \subseteq C
    BY <2>1 DEF Sorted
  <2>3. \A z \in D[Child(T, x, s)] : Less(s, z, x)
    BY DEF Sorted
  <2>4. \A z \in D[Child(T, x, Other(s))] : Less(Other(s), z, x)
    BY TwoSides DEF Sorted
  <2>5. x \notin D[Child(T, x, s)] /\ Child(T, x, s) # x
    BY <1>1, <1>2, <2>1, <2>3 DEF Less
  <2>0. \A z \in D[Child(T, x, s)] : z \in Int
    BY <1>1, <2>2
  <2>00. x \in Int
    BY <1>1
  <2>6. ASSUME NEW z \in D[Child(T, x, s)], z \in D[Child(T, x, Other(s))]
        PROVE  FALSE
    <3>0. Less(s, z, x) /\ Less(Other(s), z, x) /\ z \in Int
      BY <2>0, <2>3, <2>4, <2>6
    <3>1. CASE s = "left"
      <4>1. Other(s) = "right"
        BY <3>1, TwoSides
      <4> QED
        BY <2>00, <3>0, <3>1, <4>1 DEF Less
    <3>2. CASE s = "right"
      <4>1. Other(s) = "left"
        BY <3>2, TwoSides
      <4> QED
        BY <2>00, <3>0, <3>2, <4>1 DEF Less
    <3> QED
      BY <3>1, <3>2 DEF Sides
  <2> QED
    BY <1>2, <2>1, <2>2, <2>5, <2>6
<1>4. ASSUME NEW x \in C, NEW y \in C, NEW s \in Sides, NEW t \in Sides,
             Child(T, x, s) = Child(T, y, t), Child(T, x, s) # Leaf
      PROVE  x = y /\ s = t
  <2>1. x = y
    BY <1>4 DEF Linked
  <2> QED
    BY <1>3, <1>4, <2>1, TwoSides
<1> QED
  BY <1>1, <1>2, <1>3, <1>4

\* The link that led to x leads to y.
LEMMA ReplacedLinks ==
    ASSUME NEW T, NEW C, NEW D, Linked(T, C), Sorted(T, C, D), NEW x \in C, NEW y \in Cells
    PROVE  LET R == Replaced(T, x, y)
           IN  /\ R \in Trees /\ R.root = IF x = T.root THEN y ELSE T.root
               /\ \A z \in C, t \in Sides :
                     Child(R, z, t) = IF Child(T, z, t) = x THEN y ELSE Child(T, z, t)
               /\ \A z \in Cells : Parent(R, z) = Parent(T, z) /\ IsRed(R, z) = IsRed(T, z)
               /\ \A z \in Cells : z \notin C => R.node[z] = T.node[z]
<1> DEFINE R == Replaced(T, x, y)
<1>0. T \in Trees /\ x \in Cells /\ C \subseteq Cells /\ y \in Link
  BY Apart DEF Linked, Cells, Link
<1>1. CASE x = T.root
  <2>1. R \in Trees /\ R.root = y /\ R.node = T.node
    BY <1>0, <1>1, RootWritten DEF Replaced
  <2>2. \A z \in C, t \in Sides : Child(T, z, t) # x
    BY <1>1, Apart DEF Linked
  <2> HIDE DEF R
  <2> QED
    BY <1>1, <2>1, <2>2 DEF R, Child, Parent, IsRed
<1>2. CASE x # T.root
  <2> DEFINE p == Parent(T, x)
             s == SideOf(T, x)
  <2>1. p \in C /\ s \in Sides /\ Child(T, p, s) = x
    BY <1>2 DEF Linked, SideOf, Sides
  <2>2. R = WithChild(T, p, s, y)
    BY <1>2 DEF Replaced
  <2>3. \A z \in C, t \in Sides : (z = p /\ t = s) <=> Child(T, z, t) = x
    <3> HIDE DEF p, s
    <3> QED
      BY <2>1, Apart
  <2> HIDE DEF p, s, R
  <2>4. ChildSet(T, R, p, s, y)
    BY <1>0, <2>1, <2>2, ChildWritten
  <2> QED
    BY <1>0, <1>2, <2>1, <2>3, <2>4 DEF R, ChildSet
<1> QED
  BY <1>1, <1>2

\* R is T after a rotation at x, which goes down to `side`: its child `up`
\* takes its place and hands it the subtree `inner`.
Turned(T, R, C, x, up, inner, side) ==
    /\ R \in Trees /\ R.root = IF x = T.root THEN up ELSE T.root
    /\ \A z \in C, t \in Sides :
          Child(R, z, t) = IF z = up /\ t = side THEN x
                           ELSE IF z = x /\ t = Other(side) THEN inner
                           ELSE IF Child(T, z, t) = x THEN up ELSE Child(T, z, t)
    /\ \A z \in C \cup {Leaf} :
          Parent(R, z) = IF z = inner /\ z # Leaf THEN x
                         ELSE IF z = up THEN Parent(T, x)
                         ELSE IF z = x THEN up ELSE Parent(T, z)
    /\ \A z \in Cells : z \notin C => R.node[z] = T.node[z]

\* rbtree_left_rotate and rbtree_right_rotate write the links of three nodes, and
\* of the one above them, and no colour.
LEMMA RotatedLinks ==
    ASSUME NEW T, NEW C, NEW D, Linked(T, C), Sorted(T, C, D), NEW x \in C, NEW side \in Sides,
           Child(T, x, Other(side)) # Leaf
    PROVE  /\ Turned(T, Rotated(T, x, side), C, x, Child(T, x, Other(side)),
                     Child(T, Child(T, x, Other(side)), side), side)
           /\ \A z \in Cells : IsRed(Rotated(T, x, side), z) = IsRed(T, z)
<1> DEFINE up == Child(T, x, Other(side))
           inner == Child(T, up, side)
           R == Replaced(T, x, up)
           S1 == WithChild(R, x, Other(side), inner)
           S2 == WithParent(S1, x, up)
           S3 == WithParent(S2, up, Parent(T, x))
           S4 == WithChild(S3, up, side, x)
           S5 == WithParent(S4, inner, x)
<1>1. /\ x \in Cells /\ Other(side) \in Sides /\ up \in C /\ up \in Link /\ x \in Link
      /\ up \in Cells /\ up # x /\ T \in Trees /\ C \subseteq Cells /\ Leaf \notin C
  BY Apart, TwoSides DEF Linked, Cells, Link
<1>2. /\ inner \in C \cup {Leaf} /\ inner \in Link /\ inner \in Cells
      /\ Parent(T, x) \in Link
  BY <1>1, Apart DEF Linked, Cells, Link, Trees, Node, Parent
<1>3. Rotated(T, x, side) = IF inner = Leaf THEN S4 ELSE S5
  BY DEF Rotated
<1>4. /\ R \in Trees /\ R.root = IF x = T.root THEN up ELSE T.root
      /\ \A z \in C, t \in Sides :
            Child(R, z, t) = IF Child(T, z, t) = x THEN up ELSE Child(T, z, t)
      /\ \A z \in Cells : Parent(R, z) = Parent(T, z) /\ IsRed(R, z) = IsRed(T, z)
      /\ \A z \in Cells : z \notin C => R.node[z] = T.node[z]
  BY <1>1, ReplacedLinks
<1> HIDE DEF R, S1, S2, S3, S4, S5
<1>5. ChildSet(R, S1, x, Other(side), inner)
  BY <1>1, <1>2, <1>4, ChildWritten DEF S1
<1>6. ParentSet(S1, S2, x, up)
  <2>1. S1 \in Trees
    BY <1>5 DEF ChildSet
  <2> QED
    BY <1>1, <2>1, ParentWritten DEF S2
<1>7. ParentSet(S2, S3, up, Parent(T, x))
  <2>1. S2 \in Trees
    BY <1>6 DEF ParentSet
  <2> QED
    BY <1>1, <1>2, <2>1, ParentWritten DEF S3
<1>8. ChildSet(S3, S4, up, side, x)
  <2>1. S3 \in Trees
    BY <1>7 DEF ParentSet
  <2> QED
    BY <1>1, <2>1, ChildWritten DEF S4
<1>9. ParentSet(S4, S5, inner, x)
  <2>1. S4 \in Trees
    BY <1>8 DEF ChildSet
  <2> QED
    BY <1>1, <1>2, <2>1, ParentWritten DEF S5
<1>10. ASSUME inner = Leaf
       PROVE  /\ Turned(T, S4, C, x, up, inner, side)
              /\ \A z \in Cells : IsRed(S4, z) = IsRed(T, z)
  BY <1>1, <1>2, <1>4, <1>5, <1>6, <1>7, <1>8, <1>10 DEF Turned, Cells, ChildSet, ParentSet
<1>11. ASSUME inner # Leaf
       PROVE  /\ Turned(T, S5, C, x, up, inner, side)
              /\ \A z \in Cells : IsRed(S5, z) = IsRed(T, z)
  BY <1>1, <1>2, <1>4, <1>5, <1>6, <1>7, <1>8, <1>9, <1>11 DEF Turned, Cells, ChildSet, ParentSet
<1> QED
  BY <1>3, <1>10, <1>11

\* Sides are opposite, and each of them is an order.
LEMMA SidesOrder ==
    ASSUME NEW s \in Sides, NEW a \in Int, NEW b \in Int
    PROVE  /\ Less(Other(s), a, b) <=> Less(s, b, a)
           /\ \A c \in Int : Less(s, a, b) /\ Less(s, b, c) => Less(s, a, c)
           /\ ~Less(s, a, a)
           /\ a = b \/ Less(s, a, b) \/ Less(s, b, a)
  BY TwoSides DEF Less, Sides, Other

\* The three nodes of a rotation, and the ways into them.
LEMMA TurnNodes ==
    ASSUME NEW T, NEW C, NEW D, Linked(T, C), Sorted(T, C, D), NEW x \in C, NEW side \in Sides,
           NEW up, up = Child(T, x, Other(side)), up # Leaf,
           NEW inner, inner = Child(T, up, side)
    PROVE  /\ up \in C /\ up # x /\ inner \in C \cup {Leaf} /\ inner # x /\ inner # up
           /\ \A z \in C, t \in Sides : Child(T, z, t) = up <=> (z = x /\ t = Other(side))
           /\ \A z \in C, t \in Sides :
                 inner # Leaf => (Child(T, z, t) = inner <=> (z = up /\ t = side))
           /\ Child(T, up, Other(side)) # x
<1>1. Other(side) \in Sides
  BY TwoSides
<1>2. up \in C /\ up # x
  BY <1>1, Apart DEF Linked
<1>3. inner \in C \cup {Leaf} /\ inner # up /\ Child(T, up, Other(side)) \in C \cup {Leaf}
  BY <1>1, <1>2, Apart DEF Linked
<1>4. x \notin D[up]
  BY <1>1, Apart
<1>5. \A c \in C : c = inner \/ c = Child(T, up, Other(side)) => c \in D[up]
  BY <1>1, <1>2, Apart DEF Sorted
<1>6. \A z \in C, t \in Sides : Child(T, z, t) = up <=> (z = x /\ t = Other(side))
  BY <1>1, Apart
<1>7. \A z \in C, t \in Sides :
         inner # Leaf => (Child(T, z, t) = inner <=> (z = up /\ t = side))
  BY <1>2, Apart
<1> QED
  BY <1>2, <1>3, <1>4, <1>5, <1>6, <1>7

\* A rotation keeps the links in order.
LEMMA TurnKeepsLinks ==
    ASSUME NEW T, NEW C, NEW D, Linked(T, C), Sorted(T, C, D), NEW x \in C, NEW side \in Sides,
           NEW up, up = Child(T, x, Other(side)), up # Leaf,
           NEW inner, inner = Child(T, up, side),
           NEW R, Turned(T, R, C, x, up, inner, side)
    PROVE  Linked(R, C)
<1>1. /\ up \in C /\ up # x /\ inner \in C \cup {Leaf} /\ inner # x /\ inner # up
      /\ \A z \in C, t \in Sides : Child(T, z, t) = up <=> (z = x /\ t = Other(side))
      /\ \A z \in C, t \in Sides :
            inner # Leaf => (Child(T, z, t) = inner <=> (z = up /\ t = side))
      /\ Child(T, up, Other(side)) # x
  BY TurnNodes
<1>2. Leaf \notin C /\ Other(side) \in Sides /\ Other(side) # side /\ up # T.root
      /\ inner # T.root
  BY <1>1, Apart, TwoSides DEF Linked
<1>3. R \in Trees /\ R.root \in C \cup {Leaf} /\ R.root # Leaf /\ R.root # inner /\ R.root # x
  BY <1>1, <1>2 DEF Turned, Linked
<1>4. ASSUME NEW z \in C, NEW t \in Sides
      PROVE  /\ Child(R, z, t) \in C \cup {Leaf}
             /\ Child(R, z, t) # Leaf =>
                   Child(R, z, t) # R.root /\ Parent(R, Child(R, z, t)) = z
  <2>1. CASE z = up /\ t = side
    BY <1>1, <1>2, <1>3, <2>1 DEF Turned
  <2>2. CASE z = x /\ t = Other(side)
    BY <1>1, <1>2, <1>3, <2>2 DEF Turned
  <2>3. CASE ~(z = up /\ t = side) /\ ~(z = x /\ t = Other(side)) /\ Child(T, z, t) = x
    BY <1>1, <1>2, <1>3, <2>3 DEF Turned, Linked
  <2>4. CASE ~(z = up /\ t = side) /\ ~(z = x /\ t = Other(side)) /\ Child(T, z, t) # x
    <3>1. Child(R, z, t) = Child(T, z, t)
      BY <2>4 DEF Turned
    <3> QED
      BY <1>1, <1>2, <1>3, <2>4, <3>1 DEF Turned, Linked
  <2> QED
    BY <2>1, <2>2, <2>3, <2>4
<1>5. ASSUME NEW z \in C, z # R.root
      PROVE  Parent(R, z) \in C /\ \E t \in Sides : Child(R, Parent(R, z), t) = z
  <2>1. CASE z = inner \/ z = x
    BY <1>1, <1>2, <1>5, <2>1 DEF Turned
  <2>2. CASE z = up
    <3>1. x # T.root /\ Parent(R, z) = Parent(T, x)
      BY <1>1, <1>5, <2>2 DEF Turned
    <3>2. PICK t \in Sides : Child(T, Parent(T, x), t) = x
      BY <3>1 DEF Linked
    <3>3. Parent(T, x) \in C /\ Child(R, Parent(T, x), t) = up
      BY <1>1, <1>2, <3>1, <3>2 DEF Turned, Linked
    <3> QED
      BY <2>2, <3>1, <3>3
  <2>3. CASE z # inner /\ z # x /\ z # up
    <3>1. z # T.root /\ Parent(R, z) = Parent(T, z)
      BY <1>1, <1>2, <1>5, <2>3 DEF Turned
    <3>2. PICK t \in Sides : Child(T, Parent(T, z), t) = z
      BY <3>1 DEF Linked
    <3>3. Parent(T, z) \in C /\ Child(R, Parent(T, z), t) = z
      BY <1>1, <1>2, <2>3, <3>1, <3>2 DEF Turned, Linked
    <3> QED
      BY <3>1, <3>3
  <2> QED
    BY <2>1, <2>2, <2>3
<1> QED
  BY <1>3, <1>4, <1>5 DEF Linked

\* What a rotation at x changes of the sets of nodes below: those below its two
\* nodes.
Reordered(D, E, C, x, up) ==
    /\ \A y \in C : y # x /\ y # up => E[y] = D[y]
    /\ E[up] = D[x] /\ up \notin E[x]

\* A rotation keeps the order.
LEMMA TurnOrder ==
    ASSUME NEW T, NEW C, NEW D, Linked(T, C), Sorted(T, C, D), NEW x \in C, NEW side \in Sides,
           NEW up, up = Child(T, x, Other(side)), up # Leaf,
           NEW inner, inner = Child(T, up, side),
           NEW R, Turned(T, R, C, x, up, inner, side)
    PROVE  \E E : Sorted(R, C, E) /\ Reordered(D, E, C, x, up)
<1> DEFINE o == Child(T, x, side)
           outer == Child(T, up, Other(side))
           E == [y \in C \cup {Leaf} |-> IF y = up THEN D[x]
                                         ELSE IF y = x THEN {x} \cup D[o] \cup D[inner] ELSE D[y]]
<1>1. /\ up \in C /\ up # x /\ inner \in C \cup {Leaf} /\ inner # x /\ inner # up
      /\ \A z \in C, t \in Sides : Child(T, z, t) = up <=> (z = x /\ t = Other(side))
      /\ \A z \in C, t \in Sides :
            inner # Leaf => (Child(T, z, t) = inner <=> (z = up /\ t = side))
      /\ outer # x
  BY TurnNodes
<1>2. /\ Leaf \notin C /\ Other(side) \in Sides /\ Other(side) # side /\ up # T.root
      /\ \A t \in Sides : t = side \/ t = Other(side)
      /\ Other(Other(side)) = side
  BY <1>1, Apart, TwoSides DEF Linked
<1>3. o \in C \cup {Leaf} /\ o # x /\ o # up /\ outer \in C \cup {Leaf} /\ outer # up
  BY <1>1, <1>2, Apart DEF Linked
<1>4. D[o] \subseteq C /\ D[inner] \subseteq C /\ D[outer] \subseteq C /\ D[x] \subseteq C
      /\ D[up] \subseteq C
  BY <1>1, <1>2, Apart
<1>5. /\ E \in [C \cup {Leaf} -> SUBSET C] /\ E[up] = D[x] /\ E[Leaf] = {}
      /\ E[x] = {x} \cup D[o] \cup D[inner]
      /\ \A y \in C \cup {Leaf} : y # up /\ y # x => E[y] = D[y]
  BY <1>1, <1>2, <1>4 DEF Sorted
<1>6. /\ Child(R, up, side) = x /\ Child(R, up, Other(side)) = outer
      /\ Child(R, x, side) = o /\ Child(R, x, Other(side)) = inner
      /\ \A z \in C, t \in Sides : z # up /\ z # x =>
            Child(R, z, t) = IF Child(T, z, t) = x THEN up ELSE Child(T, z, t)
  BY <1>1, <1>2, <1>3 DEF Turned
<1> HIDE DEF E
<1>7. E[R.root] = C
  BY <1>1, <1>2, <1>5 DEF Turned, Sorted, Linked
<1>8. \A z \in C : z \in D[x] <=> z = x \/ z \in D[o] \/ z \in D[up]
  BY DEF Sorted
<1>9. \A z \in C : z \in D[up] <=> z = up \/ z \in D[inner] \/ z \in D[outer]
  BY <1>1 DEF Sorted
<1>10. /\ \A z \in D[o] : Less(side, z, x)
       /\ \A z \in D[up] : Less(Other(side), z, x)
       /\ \A z \in D[inner] : Less(side, z, up)
       /\ \A z \in D[outer] : Less(Other(side), z, up)
  BY <1>1, <1>2 DEF Sorted
<1> HIDE DEF o, outer
<1>11. ASSUME NEW z \in C, NEW t \in Sides, NEW w \in C
       PROVE  w \in E[z] <=>
                 w = z \/ w \in E[Child(R, z, t)] \/ w \in E[Child(R, z, Other(t))]
  <2>1. CASE z = up
    <3>1. w \in E[up] <=> w = up \/ w \in E[x] \/ w \in E[outer]
      BY <1>1, <1>3, <1>5, <1>8, <1>9
    <3>2. CASE t = side
      BY <1>6, <2>1, <3>1, <3>2
    <3>3. CASE t = Other(side)
      BY <1>2, <1>6, <2>1, <3>1, <3>3
    <3> QED
      BY <1>2, <3>2, <3>3
  <2>2. CASE z = x
    <3>1. w \in E[x] <=> w = x \/ w \in E[o] \/ w \in E[inner]
      BY <1>1, <1>3, <1>5
    <3>2. CASE t = side
      BY <1>6, <2>2, <3>1, <3>2
    <3>3. CASE t = Other(side)
      BY <1>2, <1>6, <2>2, <3>1, <3>3
    <3> QED
      BY <1>2, <3>2, <3>3
  <2>3. CASE z # up /\ z # x
    <3>1. ASSUME NEW s \in Sides
          PROVE  E[Child(R, z, s)] = D[Child(T, z, s)]
      <4>1. Child(T, z, s) \in C \cup {Leaf} /\ Child(T, z, s) # up
        BY <1>1, <2>3 DEF Linked
      <4> QED
        BY <1>5, <1>6, <2>3, <4>1
    <3>2. Other(t) \in Sides
      BY TwoSides
    <3>3. E[z] = D[z]
      BY <1>5, <2>3
    <3> QED
      BY <3>1, <3>2, <3>3 DEF Sorted
  <2> QED
    BY <2>1, <2>2, <2>3
<1>12. ASSUME NEW z \in C, NEW t \in Sides, NEW w \in E[Child(R, z, t)]
       PROVE  Less(t, w, z)
  <2>0. C \subseteq Int
    BY Apart
  <2>1. CASE z = up /\ t = side
    <3>1. w = x \/ w \in D[o] \/ w \in D[inner]
      BY <1>5, <1>6, <1>12, <2>1
    <3>2. Less(Other(side), up, x) /\ up \in Int /\ x \in Int
      BY <1>1, <1>9, <1>10, <2>0
    <3>3. Less(side, x, up)
      BY <3>2, SidesOrder
    <3>4. CASE w \in D[o]
      <4>1. w \in Int /\ Less(side, w, x)
        BY <1>4, <1>10, <2>0, <3>4
      <4> QED
        BY <2>1, <3>2, <3>3, <4>1, SidesOrder
    <3> QED
      BY <1>10, <2>1, <3>1, <3>3, <3>4
  <2>2. CASE z = up /\ t = Other(side)
    BY <1>3, <1>1, <1>5, <1>6, <1>10, <1>12, <2>2
  <2>3. CASE z = x /\ t = side
    BY <1>3, <1>1, <1>5, <1>6, <1>10, <1>12, <2>3
  <2>4. CASE z = x /\ t = Other(side)
    BY <1>4, <1>1, <1>5, <1>6, <1>9, <1>10, <1>12, <2>4
  <2>5. CASE z # up /\ z # x
    <3>1. Child(T, z, t) \in C \cup {Leaf} /\ Child(T, z, t) # up
      BY <1>1, <2>5 DEF Linked
    <3>2. E[Child(R, z, t)] = D[Child(T, z, t)]
      BY <1>5, <1>6, <2>5, <3>1
    <3> QED
      BY <1>12, <3>2 DEF Sorted
  <2> QED
    BY <1>2, <2>1, <2>2, <2>3, <2>4, <2>5
<1>13. Sorted(R, C, E)
  BY <1>5, <1>7, <1>11, <1>12 DEF Sorted
<1>14. up \notin D[inner] /\ up \notin D[o]
  <2>1. up \in D[up] /\ up \notin D[inner]
    BY <1>1, Apart
  <2>2. \A z \in D[Child(T, x, Other(side))] : z \notin D[Child(T, x, Other(Other(side)))]
    BY <1>2, Apart
  <2> QED
    BY <1>2, <2>1, <2>2 DEF o
<1>15. Reordered(D, E, C, x, up)
  BY <1>1, <1>2, <1>5, <1>14 DEF Reordered
<1> QED
  BY <1>13, <1>15

\* The same without the sets
LEMMA TurnKeepsOrder ==
    ASSUME NEW T, NEW C, NEW D, Linked(T, C), Sorted(T, C, D), NEW x \in C, NEW side \in Sides,
           NEW up, up = Child(T, x, Other(side)), up # Leaf,
           NEW inner, inner = Child(T, up, side),
           NEW R, Turned(T, R, C, x, up, inner, side)
    PROVE  \E E : Sorted(R, C, E)
  BY TurnOrder

\* Colours change neither links nor order.
SameLinks(T, R) ==
    /\ R \in Trees /\ R.root = T.root
    /\ \A z \in Cells, t \in Sides : Child(R, z, t) = Child(T, z, t)
    /\ \A z \in Cells : Parent(R, z) = Parent(T, z)

\* A tree whose links are the same has its nodes linked and sorted as before.
LEMMA PaintKeeps ==
    ASSUME NEW T, NEW C, NEW D, Linked(T, C), Sorted(T, C, D), NEW R, SameLinks(T, R)
    PROVE  Linked(R, C) /\ Sorted(R, C, D)
<1>1. C \subseteq Cells
  BY DEF Linked, Cells
<1>2. Linked(R, C)
  BY <1>1 DEF Linked, SameLinks
<1>3. Sorted(R, C, D)
  BY <1>1, TwoSides DEF Sorted, SameLinks
<1> QED
  BY <1>2, <1>3

\* A rotation about a red node that swaps its colour with x's changes the
\* black height of no node.
LEMMA TurnKeepsLevel ==
    ASSUME NEW T, NEW C, NEW D, Linked(T, C), Sorted(T, C, D), NEW x \in C, NEW side \in Sides,
           NEW up, up = Child(T, x, Other(side)), up # Leaf,
           NEW inner, inner = Child(T, up, side),
           NEW R, Turned(T, R, C, x, up, inner, side),
           NEW h, NEW hole, Level(T, C, h, hole), hole # x, hole # up,
           inner = Leaf /\ hole = Leaf => Parent(T, Leaf) \notin {x, up},
           IsRed(T, up), IsRed(R, x), IsRed(R, up) = IsRed(T, x),
           \A z \in Cells : z \notin {x, up} => IsRed(R, z) = IsRed(T, z)
    PROVE  Level(R, C, h, hole)
<1>1. /\ up \in C /\ up # x /\ inner \in C \cup {Leaf} /\ inner # x /\ inner # up
      /\ \A z \in C, t \in Sides : Child(T, z, t) = up <=> (z = x /\ t = Other(side))
      /\ \A z \in C, t \in Sides :
            inner # Leaf => (Child(T, z, t) = inner <=> (z = up /\ t = side))
      /\ Child(T, up, Other(side)) # x
  BY TurnNodes
<1>2. /\ Leaf \notin C /\ Other(side) \in Sides /\ Other(side) # side /\ C \cup {Leaf} \subseteq Cells
      /\ Child(T, x, side) # x /\ Child(T, x, side) # up
  BY <1>1, Apart, TwoSides
<1>3. Parent(R, Leaf) = Parent(T, Leaf)
  BY <1>1, <1>2 DEF Turned
<1>4. \A z \in C, c \in C \cup {Leaf} :
         /\ Lack(R, z, c, hole) = Lack(T, z, c, hole)
         /\ c \notin {x, up} => Own(R, c) = Own(T, c)
  BY <1>2, <1>3 DEF Lack, Own
<1>5. h[x] = h[up]
  BY <1>1, <1>2 DEF Level, Lack, Own
<1>6. \A z \in C : Lack(T, z, x, hole) = 0 /\ Lack(T, z, up, hole) = 0
  BY <1>1, <1>2 DEF Lack
<1>7. Lack(T, x, inner, hole) = Lack(T, up, inner, hole)
  BY DEF Lack
<1>8. Own(R, x) = 0 /\ Own(T, up) = 0 /\ Own(R, up) = Own(T, x)
  BY DEF Own
<1>9. \A z \in C, t \in Sides : Child(T, z, t) \in C \cup {Leaf}
  BY DEF Linked
<1>10. h \in [C \cup {Leaf} -> Nat] /\ h[Leaf] = 0
       /\ \A z \in C, t \in Sides :
            h[z] = h[Child(T, z, t)] + Own(T, Child(T, z, t)) + Lack(T, z, Child(T, z, t), hole)
  BY DEF Level
<1>11. ASSUME NEW z \in C, NEW t \in Sides
       PROVE  h[z] = h[Child(R, z, t)] + Own(R, Child(R, z, t))
                       + Lack(R, z, Child(R, z, t), hole)
  <2>1. CASE z = up /\ t = side
    <3>1. Child(R, z, t) = x
      BY <2>1 DEF Turned
    <3>2. h[x] \in Int
      BY <1>10
    <3> QED
      BY <1>4, <1>5, <1>6, <1>8, <2>1, <3>1, <3>2
  <2>2. CASE z = x /\ t = Other(side)
    <3>1. Child(R, z, t) = inner
      BY <1>1, <2>2 DEF Turned
    <3>2. h[up] = h[inner] + Own(T, inner) + Lack(T, up, inner, hole)
      BY <1>1, <1>10
    <3> QED
      BY <1>1, <1>4, <1>5, <1>7, <2>2, <3>1, <3>2
  <2>3. CASE ~(z = up /\ t = side) /\ ~(z = x /\ t = Other(side)) /\ Child(T, z, t) = x
    <3>1. Child(R, z, t) = up
      BY <2>3 DEF Turned
    <3>2. h[z] = h[x] + Own(T, x) + Lack(T, z, x, hole)
      BY <1>10, <2>3
    <3> QED
      BY <1>1, <1>4, <1>5, <1>6, <1>8, <3>1, <3>2
  <2>4. CASE ~(z = up /\ t = side) /\ ~(z = x /\ t = Other(side)) /\ Child(T, z, t) # x
    <3>1. Child(R, z, t) = Child(T, z, t) /\ Child(T, z, t) \notin {x, up}
      BY <1>1, <2>4 DEF Turned
    <3> QED
      BY <1>4, <1>9, <1>10, <3>1
  <2> QED
    BY <2>1, <2>2, <2>3, <2>4
<1> QED
  BY <1>10, <1>11 DEF Level

\* A rotation as the repairs do it: the red child `up` of a black node turns
\* black and takes its place.
Exchanged(T, R, C, x, up, inner, side) ==
    /\ Linked(R, C) /\ Turned(T, R, C, x, up, inner, side)
    /\ \E E : Sorted(R, C, E)
    /\ \A z \in Cells :
          IsRed(R, z) = IF z = x THEN TRUE ELSE IF z = up THEN FALSE ELSE IsRed(T, z)

\* A rotation whose nodes exchange their colours first is what Exchanged says.
LEMMA ExchangeLinks ==
    ASSUME NEW T, NEW C, NEW D, Linked(T, C), Sorted(T, C, D), NEW x \in C, NEW side \in Sides,
           NEW up, up = Child(T, x, Other(side)), up # Leaf,
           NEW inner, inner = Child(T, up, side)
    PROVE  Exchanged(T, Rotated(Painted(Painted(T, up, FALSE), x, TRUE), x, side),
                     C, x, up, inner, side)
<1> DEFINE V == Painted(T, up, FALSE)
           U == Painted(V, x, TRUE)
           R == Rotated(U, x, side)
<1>1. /\ up \in C /\ up # x /\ inner \in C \cup {Leaf} /\ inner # x /\ inner # up
  BY TurnNodes
<1>2. T \in Trees /\ C \cup {Leaf} \subseteq Cells /\ Leaf \notin C /\ Other(side) \in Sides
  BY Apart, TwoSides DEF Linked
<1>3. ColorSet(T, V, up, FALSE)
  BY <1>1, <1>2, ColorWritten
<1>4. ColorSet(V, U, x, TRUE)
  <2>1. V \in Trees
    BY <1>3 DEF ColorSet
  <2> HIDE DEF V
  <2> QED
    BY <1>2, <2>1, ColorWritten
<1> HIDE DEF U, V
<1>5. SameLinks(T, U)
  BY <1>3, <1>4 DEF ColorSet, SameLinks
<1>6. Linked(U, C) /\ Sorted(U, C, D)
  BY <1>5, PaintKeeps
<1>7. up = Child(U, x, Other(side)) /\ inner = Child(U, up, side)
  BY <1>1, <1>2, <1>5 DEF SameLinks
<1>8. /\ Turned(U, R, C, x, up, inner, side)
      /\ \A z \in Cells : IsRed(R, z) = IsRed(U, z)
  BY <1>6, <1>7, RotatedLinks
<1> HIDE DEF R
<1>9. Linked(R, C)
  BY <1>6, <1>7, <1>8, TurnKeepsLinks
<1>10. \E E : Sorted(R, C, E)
  BY <1>6, <1>7, <1>8, TurnKeepsOrder
<1>11. Turned(T, R, C, x, up, inner, side)
  <2>1. \A z \in C, t \in Sides : Child(U, z, t) = Child(T, z, t)
    BY <1>2, <1>5 DEF SameLinks
  <2>2. \A z \in C \cup {Leaf} : Parent(U, z) = Parent(T, z)
    BY <1>2, <1>5 DEF SameLinks
  <2>3. U.root = T.root
    BY <1>5 DEF SameLinks
  <2>4. \A z \in Cells : z \notin C => U.node[z] = T.node[z]
    BY <1>1, <1>3, <1>4 DEF ColorSet
  <2> QED
    BY <1>8, <2>1, <2>2, <2>3, <2>4 DEF Turned
<1>12. \A z \in Cells : IsRed(R, z) = IF z = x THEN TRUE
                                      ELSE IF z = up THEN FALSE ELSE IsRed(T, z)
  BY <1>3, <1>4, <1>8 DEF ColorSet
<1> QED
  BY <1>9, <1>10, <1>11, <1>12 DEF R, U, V, Exchanged

-----------------------------------------------------------------------------
(* The repair after an insertion. *)

\* What a step leaves alone: the memory of the nodes that are not in the tree.
Elsewhere(T, R, C) == \A z \in Cells : z \notin C => R.node[z] = T.node[z]

\* A node that is not the root is the child of its parent on its side.
LEMMA OnItsSide ==
    ASSUME NEW T, NEW C, Linked(T, C), NEW x \in C, x # T.root
    PROVE  /\ Parent(T, x) \in C /\ SideOf(T, x) \in Sides
           /\ Child(T, Parent(T, x), SideOf(T, x)) = x
  BY DEF Linked, SideOf, Sides

\* Three nodes change colour: the subtree's root turns red, its children black.
LEMMA RecolorGood ==
    ASSUME NEW T, NEW C, NEW a, Good(T, C, "set", a), a # T.root,
           NEW p, p = Parent(T, a), IsRed(T, p), NEW g, g = Parent(T, p),
           NEW uncle, uncle = Child(T, g, Other(SideOf(T, p))), IsRed(T, uncle)
    PROVE  LET R == Painted(Painted(Painted(T, p, FALSE), uncle, FALSE), g, TRUE)
           IN  Good(R, C, "set", g) /\ Elsewhere(T, R, C)
<1> DEFINE U == Painted(T, p, FALSE)
           V == Painted(U, uncle, FALSE)
           R == Painted(V, g, TRUE)
           side == SideOf(T, p)
<1>1. PICK D : Linked(T, C) /\ Sorted(T, C, D)
  BY DEF Good
<1>2. PICK h : Level(T, C, h, NULL)
  BY DEF Good, HoleOf
<1>3. Colored(T, C, "set", a) /\ a \in C
  BY DEF Good, Standing
<1>4. p \in C /\ p # T.root /\ \E s \in Sides : Child(T, p, s) = a
  BY <1>1, <1>3 DEF Linked, Colored
<1>5. g \in C /\ side \in Sides /\ Child(T, g, side) = p
  BY <1>1, <1>4, OnItsSide
<1> HIDE DEF side
<1>6. Other(side) \in Sides /\ Other(side) # side /\ \A t \in Sides : t = side \/ t = Other(side)
  BY <1>5, TwoSides
<1>7. uncle = Child(T, g, Other(side)) /\ uncle \in C
  BY <1>1, <1>3, <1>5, <1>6 DEF Linked, Colored, side
<1>8. /\ p # g /\ uncle # g /\ uncle # p /\ p # a /\ Leaf \notin C /\ C \cup {Leaf} \subseteq Cells
      /\ \A z \in C, t \in Sides : Child(T, z, t) = p <=> z = g /\ t = side
      /\ \A z \in C, t \in Sides : Child(T, z, t) = uncle <=> z = g /\ t = Other(side)
  BY <1>1, <1>4, <1>5, <1>6, <1>7, Apart
<1>9. ~IsRed(T, g)
  BY <1>3, <1>5, <1>8 DEF Colored
<1>10. ColorSet(T, U, p, FALSE)
  BY <1>1, <1>4, <1>8, ColorWritten DEF Linked
<1>11. ColorSet(U, V, uncle, FALSE)
  <2>1. U \in Trees
    BY <1>10 DEF ColorSet
  <2> HIDE DEF U
  <2> QED
    BY <1>7, <1>8, <2>1, ColorWritten
<1>12. ColorSet(V, R, g, TRUE)
  <2>1. V \in Trees
    BY <1>11 DEF ColorSet
  <2> HIDE DEF V
  <2> QED
    BY <1>5, <1>8, <2>1, ColorWritten
<1> HIDE DEF U, V, R
<1>13. SameLinks(T, R) /\ Elsewhere(T, R, C)
  BY <1>4, <1>5, <1>7, <1>10, <1>11, <1>12 DEF ColorSet, SameLinks, Elsewhere
<1>14. Linked(R, C) /\ Sorted(R, C, D)
  BY <1>1, <1>13, PaintKeeps
<1>15. /\ R.root = T.root
       /\ \A z \in C, t \in Sides : Child(R, z, t) = Child(T, z, t)
       /\ \A z \in Cells : IsRed(R, z) = IF z = g THEN TRUE
                                         ELSE IF z \in {p, uncle} THEN FALSE ELSE IsRed(T, z)
  <2>1. R.root = T.root /\ \A z \in C, t \in Sides : Child(R, z, t) = Child(T, z, t)
    BY <1>8, <1>13 DEF SameLinks
  <2>2. \A z \in Cells : IsRed(R, z) = IF z = g THEN TRUE
                                       ELSE IF z \in {p, uncle} THEN FALSE ELSE IsRed(T, z)
    BY <1>10, <1>11, <1>12 DEF ColorSet
  <2> QED
    BY <2>1, <2>2
<1>16. \E k : Level(R, C, k, HoleOf("set", g))
  <2> DEFINE k == [h EXCEPT ![g] = @ + 1]
  <2>1. /\ h \in [C \cup {Leaf} -> Nat] /\ h[Leaf] = 0
        /\ \A z \in C, c \in C \cup {Leaf} : Lack(T, z, c, NULL) = 0 /\ Lack(R, z, c, NULL) = 0
        /\ \A z \in C, t \in Sides : /\ Child(T, z, t) \in C \cup {Leaf}
                                     /\ h[z] = h[Child(T, z, t)] + Own(T, Child(T, z, t))
    <3>1. NULL \notin C \cup {Leaf}
      BY <1>1, Apart, TreeAssumption
    <3>2. \A z \in C, c \in C \cup {Leaf} : Lack(T, z, c, NULL) = 0 /\ Lack(R, z, c, NULL) = 0
      BY <3>1 DEF Lack
    <3>3. \A z \in C, t \in Sides : Child(T, z, t) \in C \cup {Leaf}
      BY <1>1 DEF Linked
    <3>4. \A c \in C \cup {Leaf} : Own(T, c) \in Nat
      BY DEF Own
    <3> QED
      BY <1>2, <3>2, <3>3, <3>4 DEF Level
  <2>2. k \in [C \cup {Leaf} -> Nat] /\ k[Leaf] = 0 /\ k[g] = h[g] + 1
        /\ \A c \in C \cup {Leaf} : c # g => k[c] = h[c]
    BY <1>5, <1>8, <2>1
  <2>3. /\ Own(R, g) = 0 /\ Own(T, g) = 1 /\ Own(T, p) = 0 /\ Own(T, uncle) = 0
        /\ Own(R, p) = 1 /\ Own(R, uncle) = 1
        /\ \A c \in C \cup {Leaf} : c \notin {g, p, uncle} => Own(R, c) = Own(T, c)
    BY <1>4, <1>5, <1>7, <1>8, <1>9, <1>15 DEF Own
  <2> HIDE DEF k
  <2>4. ASSUME NEW z \in C, NEW t \in Sides
        PROVE  k[z] = k[Child(R, z, t)] + Own(R, Child(R, z, t))
                        + Lack(R, z, Child(R, z, t), NULL)
    <3>0. /\ Child(R, z, t) = Child(T, z, t) /\ Lack(R, z, Child(R, z, t), NULL) = 0
          /\ Child(T, z, t) \in C \cup {Leaf} /\ h[z] \in Nat /\ h[Child(T, z, t)] \in Nat
      BY <1>15, <2>1
    <3>1. h[z] = h[Child(T, z, t)] + Own(T, Child(T, z, t))
      BY <2>1
    <3>2. CASE z = g
      <4>1. Child(T, z, t) \in {p, uncle}
        BY <1>5, <1>6, <1>7, <3>2
      <4> QED
        BY <1>8, <2>2, <2>3, <3>0, <3>1, <3>2, <4>1
    <3>3. CASE z # g /\ Child(T, z, t) = g
      BY <1>8, <2>2, <2>3, <3>0, <3>1, <3>3
    <3>4. CASE z # g /\ Child(T, z, t) # g
      <4>1. Child(T, z, t) \notin {g, p, uncle}
        BY <1>8, <3>4
      <4>2. Own(R, Child(T, z, t)) = Own(T, Child(T, z, t)) /\ Own(T, Child(T, z, t)) \in Nat
        BY <2>3, <3>0, <4>1 DEF Own
      <4> QED
        BY <2>2, <3>0, <3>1, <3>4, <4>1, <4>2
    <3> QED
      BY <3>2, <3>3, <3>4
  <2>5. Level(R, C, k, NULL)
    BY <2>2, <2>4 DEF Level
  <2> QED
    BY <2>5 DEF HoleOf
<1>17. Colored(R, C, "set", g)
  <2>1. ~IsRed(R, Leaf)
    BY <1>3, <1>4, <1>5, <1>7, <1>8, <1>15 DEF Colored
  <2>2. IsRed(R, R.root) => g = R.root
    <3>1. T.root \in Cells
      BY <1>1 DEF Linked, Trees
    <3> QED
      BY <1>3, <1>15, <3>1 DEF Colored
  <2>3. ASSUME NEW z \in C, NEW t \in Sides, IsRed(R, z), IsRed(R, Child(R, z, t))
        PROVE  Child(R, z, t) = g
    <3>1. Child(R, z, t) = Child(T, z, t) /\ Child(T, z, t) \in C \cup {Leaf}
      BY <1>1, <1>15 DEF Linked
    <3>2. SUFFICES ASSUME Child(T, z, t) # g PROVE FALSE
      BY <3>1
    <3>3. Child(T, z, t) \notin {p, uncle} /\ IsRed(T, Child(T, z, t))
      BY <1>8, <1>15, <2>3, <3>1, <3>2
    <3>4. z # g
      BY <1>5, <1>6, <1>7, <3>3
    <3>5. z \notin {p, uncle} /\ IsRed(T, z)
      BY <1>8, <1>15, <2>3, <3>4
    <3>6. Child(T, z, t) = a
      BY <1>3, <3>3, <3>5 DEF Colored
    <3>7. z = p
      BY <1>1, <1>3, <1>8, <3>6 DEF Linked
    <3> QED
      BY <3>5, <3>7
  <2> QED
    BY <2>1, <2>2, <2>3 DEF Colored
<1>18. Standing(R, C, "set", g)
  BY <1>5, <1>8, <1>15 DEF Standing
<1> QED
  BY <1>13, <1>14, <1>16, <1>17, <1>18 DEF Good, R, U, V

\* The last rotation after an insertion.
LEMMA OuterTurn ==
    ASSUME NEW T, NEW C, NEW D, Linked(T, C), Sorted(T, C, D), NEW h, Level(T, C, h, NULL),
           NEW a \in C, Colored(T, C, "set", a), IsRed(T, a), NEW side \in Sides,
           NEW g \in C, ~IsRed(T, g), NEW p, p = Child(T, g, side), IsRed(T, p),
           a = Child(T, p, side), ~IsRed(T, Child(T, g, Other(side)))
    PROVE  LET R == Rotated(Painted(Painted(T, p, FALSE), g, TRUE), g, Other(side))
           IN  Good(R, C, "set", a) /\ Elsewhere(T, R, C)
<1> DEFINE R == Rotated(Painted(Painted(T, p, FALSE), g, TRUE), g, Other(side))
           inner == Child(T, p, Other(side))
<1>0. /\ p \in C /\ p # T.root /\ Other(side) \in Sides /\ Other(Other(side)) = side
      /\ Other(side) # side /\ \A t \in Sides : t = side \/ t = Other(side)
      /\ p # Leaf /\ NULL \notin C \cup {Leaf} /\ C \cup {Leaf} \subseteq Cells /\ Leaf \notin C
  <2>1. NULL \notin C \cup {Leaf} /\ C \cup {Leaf} \subseteq Cells /\ Leaf \notin C
    BY Apart, TreeAssumption
  <2>2. p \in C /\ p # T.root /\ p # Leaf
    BY DEF Linked, Colored
  <2> QED
    BY <2>1, <2>2, TwoSides
<1>1. /\ Linked(R, C) /\ Turned(T, R, C, g, p, inner, Other(side))
      /\ \E E : Sorted(R, C, E)
      /\ \A z \in Cells : IsRed(R, z) = IF z = g THEN TRUE
                                        ELSE IF z = p THEN FALSE ELSE IsRed(T, z)
  <2>1. p = Child(T, g, Other(Other(side))) /\ inner = Child(T, p, Other(side))
    BY <1>0
  <2> HIDE DEF inner
  <2>2. p # Leaf /\ Other(side) \in Sides
    BY <1>0
  <2> QED
    <3> DEFINE o == Other(side)
    <3>1. p = Child(T, g, Other(o)) /\ inner = Child(T, p, o) /\ o \in Sides /\ p # Leaf
      BY <2>1, <2>2
    <3> HIDE DEF o
    <3>2. Exchanged(T, Rotated(Painted(Painted(T, p, FALSE), g, TRUE), g, o), C, g, p, inner, o)
      BY <3>1, ExchangeLinks
    <3> QED
      BY <3>2 DEF Exchanged, o
<1> HIDE DEF R
<1>2. p # g /\ inner \in C \cup {Leaf} /\ inner # g /\ inner # p
  BY <1>0, TurnNodes
<1>3. Level(R, C, h, NULL)
  <2>1. NULL # g /\ NULL # p /\ NULL # Leaf
    BY <1>0
  <2>2. IsRed(R, g) /\ IsRed(R, p) = IsRed(T, g)
        /\ \A z \in Cells : z \notin {g, p} => IsRed(R, z) = IsRed(T, z)
    <3>1. IsRed(R, g) /\ ~IsRed(R, p) /\ ~IsRed(T, g)
      BY <1>0, <1>1, <1>2
    <3>2. IsRed(R, p) \in BOOLEAN /\ IsRed(T, g) \in BOOLEAN
      BY <1>0, <1>1 DEF Linked, Trees, Node, IsRed
    <3> QED
      BY <1>1, <3>1, <3>2
  <2> HIDE DEF inner
  <2> QED
    BY <1>0, <1>1, <2>1, <2>2, TurnKeepsLevel DEF inner
<1>4. ~IsRed(T, inner) /\ ~IsRed(T, Leaf)
  BY <1>0, Apart DEF Colored
<1>5. ASSUME NEW z \in C, NEW t \in Sides, IsRed(R, z), IsRed(R, Child(R, z, t))
      PROVE  FALSE
  <2>1. z # p
    BY <1>0, <1>1, <1>2, <1>5
  <2>2. CASE z = g
    <3>1. CASE t = side
      BY <1>0, <1>1, <1>2, <1>4, <1>5, <2>2, <3>1 DEF Turned
    <3>2. CASE t = Other(side)
      <4>1. Child(R, z, t) = Child(T, g, Other(side))
        BY <1>0, <1>1, <1>2, <2>2, <3>2, Apart DEF Turned
      <4>2. Child(T, g, Other(side)) # g /\ Child(T, g, Other(side)) \in Cells
        BY <1>0, Apart DEF Linked
      <4> QED
        BY <1>1, <1>5, <4>1, <4>2
    <3> QED
      BY <1>0, <3>1, <3>2
  <2>3. CASE z # g
    <3>1. Child(R, z, t) = IF Child(T, z, t) = g THEN p ELSE Child(T, z, t)
      BY <1>1, <2>1, <2>3 DEF Turned
    <3>2. Child(R, z, t) # p
      BY <1>0, <1>1, <1>2, <1>5
    <3>3. Child(R, z, t) = Child(T, z, t) /\ Child(T, z, t) # g /\ Child(T, z, t) \in Cells
      BY <1>0, <3>1, <3>2 DEF Linked
    <3>4. IsRed(T, z) /\ IsRed(T, Child(T, z, t))
      BY <1>0, <1>1, <1>5, <2>1, <2>3, <3>2, <3>3
    <3>5. Child(T, z, t) = a
      BY <3>4 DEF Colored
    <3> QED
      BY <1>0, <2>1, <3>5, Apart
  <2> QED
    BY <2>2, <2>3
<1>6. ~IsRed(R, R.root)
  <2>1. CASE g = T.root
    BY <1>0, <1>1, <1>2, <2>1 DEF Turned
  <2>2. CASE g # T.root
    <3>1. R.root = T.root /\ T.root \in Cells /\ T.root # a
      BY <1>0, <1>1, <2>2 DEF Turned, Linked, Trees
    <3> QED
      BY <1>0, <1>1, <2>2, <3>1 DEF Colored
  <2> QED
    BY <2>1, <2>2
<1>7. ~IsRed(R, Leaf) /\ IsRed(R, a)
  <2>1. a # g /\ a # p
    BY <1>0, TurnNodes, Apart DEF Sorted
  <2> QED
    BY <1>0, <1>1, <1>4, <2>1
<1>8. Colored(R, C, "set", a)
  BY <1>5, <1>6, <1>7 DEF Colored
<1>9. Standing(R, C, "set", a)
  BY <1>7 DEF Standing
<1>10. Elsewhere(T, R, C)
  BY <1>1 DEF Turned, Elsewhere
<1>11. Good(R, C, "set", a)
  BY <1>1, <1>3, <1>8, <1>9 DEF Good, HoleOf
<1> QED
  BY <1>10, <1>11 DEF R

\* The rotation before it, which makes an inner grandchild an outer one.
LEMMA InnerTurn ==
    ASSUME NEW T, NEW C, NEW D, Linked(T, C), Sorted(T, C, D), NEW h, Level(T, C, h, NULL),
           NEW a \in C, Colored(T, C, "set", a), IsRed(T, a), NEW side \in Sides,
           NEW g \in C, NEW p, p = Child(T, g, side), IsRed(T, p),
           a = Child(T, p, Other(side))
    PROVE  LET R == Rotated(T, p, side)
           IN  /\ Linked(R, C) /\ \E E : Sorted(R, C, E)
               /\ Level(R, C, h, NULL) /\ Colored(R, C, "set", p)
               /\ \A z \in Cells : IsRed(R, z) = IsRed(T, z)
               /\ Child(R, g, side) = a /\ Child(R, a, side) = p
               /\ Child(R, g, Other(side)) = Child(T, g, Other(side))
               /\ Elsewhere(T, R, C)
<1> DEFINE R == Rotated(T, p, side)
           inner == Child(T, a, side)
<1>0. /\ p \in C /\ p # T.root /\ p # g /\ a # p /\ a # T.root /\ Other(side) \in Sides
      /\ Other(side) # side /\ \A t \in Sides : t = side \/ t = Other(side)
      /\ p # Leaf /\ NULL \notin C \cup {Leaf} /\ C \cup {Leaf} \subseteq Cells /\ Leaf \notin C
      /\ a # Leaf /\ Child(T, g, Other(side)) # p
  <2>1. NULL \notin C \cup {Leaf} /\ C \cup {Leaf} \subseteq Cells /\ Leaf \notin C
    BY Apart, TreeAssumption
  <2>2. p \in C /\ p # T.root /\ p # Leaf
    BY DEF Linked, Colored
  <2>3. Other(side) \in Sides /\ Other(side) # side /\ \A t \in Sides : t = side \/ t = Other(side)
    BY TwoSides
  <2>4. a # T.root /\ a # Leaf
    BY <2>1, <2>2, <2>3 DEF Linked
  <2> QED
    BY <2>1, <2>2, <2>3, <2>4, Apart
<1>1. Turned(T, R, C, p, a, inner, side) /\ \A z \in Cells : IsRed(R, z) = IsRed(T, z)
  BY <1>0, RotatedLinks
<1> HIDE DEF R
<1>2. Linked(R, C)
  BY <1>0, <1>1, TurnKeepsLinks
<1>3. \E E : Sorted(R, C, E)
  BY <1>0, <1>1, TurnKeepsOrder
<1>4. Level(R, C, h, NULL)
  <2>1. NULL # p /\ NULL # a /\ NULL # Leaf
    BY <1>0
  <2>2. IsRed(R, p) /\ IsRed(R, a) = IsRed(T, p)
    <3>1. IsRed(R, p) = IsRed(T, p) /\ IsRed(R, a) = IsRed(T, a)
      BY <1>0, <1>1
    <3>2. IsRed(T, a) \in BOOLEAN /\ IsRed(T, p) \in BOOLEAN
      BY <1>0 DEF Linked, Trees, Node, IsRed
    <3> QED
      BY <3>1, <3>2
  <2>3. inner = Child(T, a, side) /\ \A z \in Cells : IsRed(R, z) = IsRed(T, z)
    BY <1>1
  <2>4. inner = Leaf /\ NULL = Leaf => Parent(T, Leaf) \notin {p, a}
    BY <2>1
  <2> HIDE DEF inner
  <2> QED
    BY ONLY <1>0, <1>1, <2>1, <2>2, <2>3, <2>4, TurnKeepsLevel, Linked(T, C), Sorted(T, C, D),
            Level(T, C, h, NULL), p \in C, side \in Sides, a = Child(T, p, Other(side)), IsRed(T, a)
<1>5. g # a
  BY <1>0, TurnNodes, Apart DEF Sorted
<1>6. /\ Child(R, a, side) = p
      /\ Child(R, g, side) = a /\ Child(R, g, Other(side)) = Child(T, g, Other(side))
  BY <1>0, <1>1, <1>5 DEF Turned
<1>7. /\ inner \in C \cup {Leaf} /\ inner # p /\ inner # a /\ Child(T, a, Other(side)) # p
  BY <1>0, TurnNodes
<1>8. ASSUME NEW z \in C, NEW t \in Sides, IsRed(R, z), IsRed(R, Child(R, z, t))
      PROVE  Child(R, z, t) = p
  <2>0. SUFFICES ASSUME Child(R, z, t) # p PROVE FALSE
    OBVIOUS
  <2>1. CASE z = p /\ t = Other(side)
    <3>1. Child(R, z, t) = inner
      BY <1>0, <1>1, <2>1 DEF Turned
    <3>2. IsRed(T, a) /\ IsRed(T, inner)
      BY <1>0, <1>1, <1>7, <1>8, <3>1
    <3> QED
      BY <1>7, <3>2 DEF Colored
  <2>2. CASE ~(z = p /\ t = Other(side)) /\ Child(T, z, t) = p
    <3>1. IsRed(T, z) /\ IsRed(T, p)
      BY <1>0, <1>1, <1>8
    <3>2. Child(T, z, t) = a
      BY <2>2, <3>1 DEF Colored
    <3> QED
      BY <1>0, <2>2, <3>2
  <2>3. CASE ~(z = p /\ t = Other(side)) /\ Child(T, z, t) # p
    <3>1. Child(R, z, t) = Child(T, z, t) /\ Child(T, z, t) \in Cells
      BY <1>0, <1>1, <2>0, <2>3 DEF Turned, Linked
    <3>2. IsRed(T, z) /\ IsRed(T, Child(T, z, t))
      BY <1>0, <1>1, <1>8, <3>1
    <3>3. Child(T, z, t) = a
      BY <3>2 DEF Colored
    <3> QED
      BY <1>0, <2>3, <3>3, Apart
  <2> QED
    BY <2>1, <2>2, <2>3
<1>9. ~IsRed(R, Leaf) /\ ~IsRed(R, R.root)
  <2>1. R.root = T.root /\ T.root \in Cells
    BY <1>0, <1>1 DEF Turned, Linked, Trees
  <2> QED
    BY <1>0, <1>1, <2>1 DEF Colored
<1>10. Colored(R, C, "set", p)
  BY <1>8, <1>9 DEF Colored
<1>11. Elsewhere(T, R, C)
  BY <1>1 DEF Turned, Elsewhere
<1> QED
  BY <1>1, <1>2, <1>3, <1>4, <1>6, <1>10, <1>11 DEF R

\* The repair of an insertion that rotates.
LEMMA RotateGood ==
    ASSUME NEW T, NEW C, NEW a, Good(T, C, "set", a), a # T.root,
           NEW p, p = Parent(T, a), IsRed(T, p), NEW g, g = Parent(T, p),
           NEW side, side = SideOf(T, p), ~IsRed(T, Child(T, g, Other(side)))
    PROVE  LET inner == SideOf(T, a) # side
               S == IF inner THEN Rotated(T, p, side) ELSE T
               q == IF inner THEN a ELSE p
               R == Rotated(Painted(Painted(S, q, FALSE), g, TRUE), g, Other(side))
           IN  Good(R, C, "set", IF inner THEN p ELSE a) /\ Elsewhere(T, R, C)
<1>1. PICK D : Linked(T, C) /\ Sorted(T, C, D)
  BY DEF Good
<1>2. PICK h : Level(T, C, h, NULL)
  BY DEF Good, HoleOf
<1>3. Colored(T, C, "set", a) /\ a \in C /\ IsRed(T, a)
  BY DEF Good, Standing
<1>4. p \in C /\ SideOf(T, a) \in Sides /\ Child(T, p, SideOf(T, a)) = a
  BY <1>1, <1>3, OnItsSide
<1>5. p # T.root
  BY <1>3 DEF Colored
<1>6. g \in C /\ side \in Sides /\ Child(T, g, side) = p
  BY <1>1, <1>4, <1>5, OnItsSide
<1>7. ~IsRed(T, g)
  <2>1. p # a
    BY <1>1, <1>4, Apart
  <2> QED
    BY <1>3, <1>6, <2>1 DEF Colored
<1>8. CASE SideOf(T, a) = side
  BY <1>1, <1>2, <1>3, <1>4, <1>6, <1>7, <1>8, OuterTurn
<1>9. CASE SideOf(T, a) # side
  <2> DEFINE S == Rotated(T, p, side)
             R == Rotated(Painted(Painted(S, a, FALSE), g, TRUE), g, Other(side))
  <2>1. a = Child(T, p, Other(side))
    BY <1>4, <1>6, <1>9, TwoSides
  <2>2. /\ Linked(S, C) /\ \E E : Sorted(S, C, E)
        /\ Level(S, C, h, NULL) /\ Colored(S, C, "set", p)
        /\ \A z \in Cells : IsRed(S, z) = IsRed(T, z)
        /\ Child(S, g, side) = a /\ Child(S, a, side) = p
        /\ Child(S, g, Other(side)) = Child(T, g, Other(side))
        /\ Elsewhere(T, S, C)
    BY <1>1, <1>2, <1>3, <1>6, <2>1, InnerTurn
  <2> HIDE DEF S
  <2>3. PICK E : Sorted(S, C, E)
    BY <2>2
  <2>4. Child(T, g, Other(side)) \in Cells /\ C \subseteq Cells
    BY <1>1, <1>6, TwoSides, Apart DEF Linked
  <2>5. IsRed(S, a) /\ IsRed(S, p) /\ ~IsRed(S, g) /\ ~IsRed(S, Child(S, g, Other(side)))
    BY <1>3, <1>4, <1>6, <1>7, <2>2, <2>4
  <2>6. Good(R, C, "set", p) /\ Elsewhere(S, R, C)
    BY <1>4, <1>6, <2>2, <2>3, <2>5, OuterTurn
  <2>7. Elsewhere(T, R, C)
    BY <2>2, <2>6 DEF Elsewhere
  <2> HIDE DEF R
  <2> QED
    BY <1>9, <2>6, <2>7 DEF R, S
<1> QED
  BY <1>8, <1>9

\* The end of an insertion.
LEMMA SetEndsGood ==
    ASSUME NEW T, NEW C, NEW a, Good(T, C, "set", a),
           ~(a # T.root /\ IsRed(T, Parent(T, a)))
    PROVE  Good(RootPainted(T), C, "idle", Leaf) /\ Elsewhere(T, RootPainted(T), C)
<1> DEFINE R == RootPainted(T)
<1>1. PICK D : Linked(T, C) /\ Sorted(T, C, D)
  BY DEF Good
<1>2. PICK h : Level(T, C, h, NULL)
  BY DEF Good, HoleOf
<1>3. Colored(T, C, "set", a) /\ a \in C
  BY DEF Good, Standing
<1>4. T.root \in C /\ T.root \in Cells /\ C \cup {Leaf} \subseteq Cells /\ Leaf \notin C
  BY <1>1, <1>3, Apart DEF Linked
<1>5. ColorSet(T, R, T.root, FALSE)
  BY <1>1, <1>4, ColorWritten DEF RootPainted, Linked
<1> HIDE DEF R
<1>6. SameLinks(T, R) /\ Elsewhere(T, R, C)
  BY <1>4, <1>5 DEF ColorSet, SameLinks, Elsewhere
<1>7. Linked(R, C) /\ Sorted(R, C, D)
  BY <1>1, <1>6, PaintKeeps
<1>8. /\ R.root = T.root
      /\ \A z \in C, t \in Sides : Child(R, z, t) = Child(T, z, t)
      /\ \A z \in Cells : IsRed(R, z) = IF z = T.root THEN FALSE ELSE IsRed(T, z)
      /\ Parent(R, Leaf) = Parent(T, Leaf)
  BY <1>4, <1>5 DEF ColorSet
<1>9. \A z \in C, t \in Sides :
         Child(T, z, t) \in C \cup {Leaf} /\ Child(T, z, t) # T.root
  BY <1>1, <1>4 DEF Linked
<1>10. Level(R, C, h, NULL)
  <2>1. \A c \in C \cup {Leaf} : c # T.root => Own(R, c) = Own(T, c)
    BY <1>4, <1>8 DEF Own
  <2>2. \A z, c \in C \cup {Leaf} : Lack(R, z, c, NULL) = Lack(T, z, c, NULL)
    BY <1>8 DEF Lack
  <2> QED
    BY <1>2, <1>8, <1>9, <2>1, <2>2 DEF Level
<1>11. Colored(R, C, "idle", Leaf)
  <2>1. ~IsRed(R, Leaf) /\ ~IsRed(R, R.root)
    BY <1>3, <1>4, <1>8 DEF Colored
  <2>2. ASSUME NEW z \in C, NEW t \in Sides, IsRed(R, z), IsRed(R, Child(R, z, t))
        PROVE  FALSE
    <3>1. IsRed(T, z) /\ IsRed(T, Child(T, z, t)) /\ Child(T, z, t) # T.root
      BY <1>4, <1>8, <1>9, <2>2
    <3>2. Child(T, z, t) = a
      BY <1>3, <3>1 DEF Colored
    <3>3. Parent(T, a) = z
      BY <1>1, <1>3, <1>4, <3>2 DEF Linked
    <3> QED
      BY <3>1, <3>2, <3>3
  <2> QED
    BY <2>1, <2>2 DEF Colored
<1>12. Good(R, C, "idle", Leaf)
  BY <1>7, <1>10, <1>11 DEF Good, HoleOf, Standing
<1> QED
  BY <1>6, <1>12 DEF R

-----------------------------------------------------------------------------
(* The repair after a removal. *)

\* A removal's repair stands at a, the child of p on `side`: a is black and
\* short of a black, its sibling is a node, and red nodes are apart.
Lacking(T, C, a, p, side, h) ==
    /\ Linked(T, C) /\ \E D : Sorted(T, C, D)
    /\ Level(T, C, h, a)
    /\ \A x \in C, s \in Sides : ~(IsRed(T, x) /\ IsRed(T, Child(T, x, s)))
    /\ ~IsRed(T, Leaf) /\ ~IsRed(T, T.root) /\ ~IsRed(T, a)
    /\ p \in C /\ side \in Sides /\ a \in C \cup {Leaf} /\ Child(T, p, side) = a
    /\ Child(T, p, Other(side)) \in C
    /\ a = Leaf => Parent(T, Leaf) = p

\* Where the loop of a removal goes on, a black is lacking at the node it
\* stands at.
LEMMA PopStands ==
    ASSUME NEW T, NEW C, NEW a, Good(T, C, "pop", a), a # T.root, ~IsRed(T, a),
           NEW p, p = Parent(T, a), NEW side, side = SideOf(T, a)
    PROVE  \E h : Lacking(T, C, a, p, side, h)
<1>1. PICK D : Linked(T, C) /\ Sorted(T, C, D)
  BY DEF Good
<1>2. PICK h : Level(T, C, h, a)
  BY DEF Good, HoleOf
<1>3. /\ a \in C \cup {Leaf}
      /\ a = Leaf =>
            /\ Parent(T, Leaf) \in C
            /\ \E s \in Sides : /\ Child(T, Parent(T, Leaf), s) = Leaf
                                /\ Child(T, Parent(T, Leaf), Other(s)) # Leaf
  BY DEF Good, Standing
<1>4. ~IsRed(T, Leaf) /\ ~IsRed(T, T.root)
      /\ \A x \in C, s \in Sides : ~(IsRed(T, x) /\ IsRed(T, Child(T, x, s)))
  <2>1. Colored(T, C, "pop", a)
    BY DEF Good
  <2> QED
    BY <2>1 DEF Colored
<1>5. /\ p \in C /\ side \in Sides /\ Child(T, p, side) = a
      /\ a = Leaf => Child(T, p, Other(side)) # Leaf
  <2>1. CASE a = Leaf
    <3>1. PICK s \in Sides : Child(T, p, s) = Leaf /\ Child(T, p, Other(s)) # Leaf
      BY <1>3, <2>1
    <3>2. side = s
      BY <2>1, <3>1, TwoSides DEF SideOf, Sides
    <3> QED
      BY <1>3, <2>1, <3>1, <3>2
  <2>2. CASE a \in C
    BY <1>1, <2>2, OnItsSide, Apart
  <2> QED
    BY <1>3, <2>1, <2>2
<1>6. Child(T, p, Other(side)) \in C
  <2>1. CASE a = Leaf
    BY <1>1, <1>5, <2>1, TwoSides DEF Linked
  <2>2. CASE a # Leaf
    <3>1. Other(side) \in Sides
      BY <1>5, TwoSides
    <3>2. h[p] = h[a] + 2 /\ h[a] \in Nat
      BY <1>2, <1>3, <1>5, <2>2 DEF Level, Lack, Own
    <3>3. Child(T, p, Other(side)) = Leaf => h[p] = 1
      BY <1>2, <1>4, <1>5, <2>2, <3>1 DEF Level, Lack, Own
    <3> QED
      BY <1>1, <1>5, <3>1, <3>2, <3>3 DEF Linked
  <2> QED
    BY <2>1, <2>2
<1>7. Lacking(T, C, a, p, side, h)
  BY <1>1, <1>2, <1>3, <1>4, <1>5, <1>6 DEF Lacking
<1> QED
  BY <1>7

\* What the black heights say there: the sibling has one more.
Uneven(T, C, a, p, w, h) ==
    /\ h \in [C \cup {Leaf} -> Nat] /\ h[Leaf] = 0
    /\ h[p] = h[a] + 2 /\ h[p] = h[w] + Own(T, w)
    /\ Lack(T, p, w, a) = 0 /\ Lack(T, p, a, a) = 1
    /\ \A z \in C, t \in Sides : z # p => Lack(T, z, Child(T, z, t), a) = 0

\* The heights around a node that lacks a black: its sibling's is higher by the
\* black that lacks.
LEMMA LackingHeights ==
    ASSUME NEW T, NEW C, NEW a, NEW p, NEW side, NEW h, Lacking(T, C, a, p, side, h),
           NEW w, w = Child(T, p, Other(side))
    PROVE  Uneven(T, C, a, p, w, h)
<1>1. PICK D : Linked(T, C) /\ Sorted(T, C, D)
  BY DEF Lacking
<1>2. Other(side) \in Sides /\ side \in Sides /\ w \in C /\ p \in C /\ Leaf \notin C /\ Child(T, p, side) = a
      /\ a \in C \cup {Leaf}
  BY <1>1, TwoSides, Apart DEF Lacking
<1>3. w # a
  BY <1>1, <1>2, Apart
<1>4. Lack(T, p, w, a) = 0 /\ Lack(T, p, a, a) = 1
  BY <1>2, <1>3 DEF Lack, Lacking
<1>5. ASSUME NEW z \in C, NEW t \in Sides, z # p
      PROVE  Lack(T, z, Child(T, z, t), a) = 0
  <2>1. Child(T, z, t) = a => a = Leaf
    BY <1>1, <1>2, <1>5, Apart
  <2>2. a = Leaf => Parent(T, Leaf) = p
    BY DEF Lacking
  <2> QED
    BY <1>5, <2>1, <2>2 DEF Lack
<1>6. h \in [C \cup {Leaf} -> Nat] /\ h[Leaf] = 0
      /\ h[p] = h[a] + Own(T, a) + Lack(T, p, a, a)
      /\ h[p] = h[w] + Own(T, w) + Lack(T, p, w, a)
  BY <1>2 DEF Lacking, Level
<1>7. Own(T, a) = 1 /\ Own(T, w) \in Nat
  BY DEF Lacking, Own
<1>8. h[a] \in Nat /\ h[w] \in Nat
  BY <1>2, <1>6
<1>9. h[p] = h[a] + 2 /\ h[p] = h[w] + Own(T, w)
  BY <1>4, <1>6, <1>7, <1>8
<1> QED
  BY <1>4, <1>5, <1>6, <1>9 DEF Uneven

\* The first half of an iteration: the sibling is black after it.
LEMMA SiblingTurned ==
    ASSUME NEW T, NEW C, NEW a, NEW p, NEW side, NEW h, Lacking(T, C, a, p, side, h)
    PROVE  LET S == SiblingBlack(T, p, side)
           IN  /\ Lacking(S, C, a, p, side, h)
               /\ ~IsRed(S, Child(S, p, Other(side)))
               /\ Elsewhere(T, S, C)
<1> DEFINE w == Child(T, p, Other(side))
           S == SiblingBlack(T, p, side)
           inner == Child(T, w, side)
<1>1. CASE ~IsRed(T, w)
  BY <1>1 DEF SiblingBlack, Elsewhere
<1>2. CASE IsRed(T, w)
  <2>1. PICK D : Linked(T, C) /\ Sorted(T, C, D)
    BY DEF Lacking
  <2>2. /\ Other(side) \in Sides /\ side \in Sides /\ w \in C /\ p \in C /\ Leaf \notin C
        /\ Child(T, p, side) = a /\ a \in C \cup {Leaf} /\ w # Leaf /\ C \cup {Leaf} \subseteq Cells
        /\ Other(side) # side
    BY <2>1, TwoSides, Apart DEF Lacking
  <2>3. S = Rotated(Painted(Painted(T, w, FALSE), p, TRUE), p, side)
    BY <1>2 DEF SiblingBlack
  <2> HIDE DEF S
  <2>4. Exchanged(T, S, C, p, w, inner, side)
    <3>1. w = Child(T, p, Other(side)) /\ inner = Child(T, w, side)
      OBVIOUS
    <3> HIDE DEF w, inner
    <3> QED
      BY <2>1, <2>2, <2>3, <3>1, ExchangeLinks
  <2>5. w # p /\ inner \in C \cup {Leaf} /\ inner # p /\ inner # w
    BY <2>1, <2>2, TurnNodes
  <2>6. a # p /\ a # w
    BY <2>1, <2>2, Apart
  <2>7. ~IsRed(T, p) /\ ~IsRed(T, inner)
    BY <1>2, <2>2 DEF Lacking
  <2>8. a = Leaf => Parent(T, Leaf) = p
    BY DEF Lacking
  <2>9. inner # Leaf
    <3>1. /\ h[p] = h[a] + 2 /\ h[p] = h[w] + Own(T, w)
          /\ h \in [C \cup {Leaf} -> Nat] /\ h[Leaf] = 0
          /\ Lack(T, w, inner, a) = 0
      <4>1. w = Child(T, p, Other(side)) /\ inner = Child(T, w, side)
        OBVIOUS
      <4> HIDE DEF w, inner
      <4> QED
        <5>1. Uneven(T, C, a, p, w, h)
          BY <4>1, LackingHeights
        <5> QED
          BY <2>2, <2>5, <4>1, <5>1 DEF Uneven
    <3>2. h[w] = h[inner] + Own(T, inner) + Lack(T, w, inner, a)
      BY <2>2 DEF Lacking, Level
    <3>3. Own(T, w) = 0 /\ Own(T, inner) = 1
      BY <1>2, <2>7 DEF Own
    <3>4. h[a] \in Nat /\ h[w] \in Nat /\ h[inner] \in Nat
      BY <2>2, <2>5, <3>1
    <3>5. h[inner] = h[a] + 1
      BY <3>1, <3>2, <3>3, <3>4
    <3> QED
      BY <3>1, <3>4, <3>5
  <2>10. Level(S, C, h, a)
    <3>1. IsRed(S, p) /\ IsRed(S, w) = IsRed(T, p)
          /\ \A z \in Cells : z \notin {p, w} => IsRed(S, z) = IsRed(T, z)
      <4>1. IsRed(S, p) /\ ~IsRed(S, w)
        BY <2>2, <2>4, <2>5 DEF Exchanged
      <4>2. IsRed(S, w) \in BOOLEAN /\ IsRed(T, p) \in BOOLEAN
        BY <2>1, <2>2, <2>4 DEF Exchanged, Linked, Trees, Node, IsRed
      <4> QED
        BY <2>4, <2>7, <4>1, <4>2 DEF Exchanged
    <3>2. w = Child(T, p, Other(side)) /\ inner = Child(T, w, side)
      OBVIOUS
    <3>3. Turned(T, S, C, p, w, inner, side) /\ Level(T, C, h, a)
      BY <2>4 DEF Exchanged, Lacking
    <3> HIDE DEF w, inner
    <3> QED
      BY ONLY <1>2, <2>1, <2>2, <2>6, <2>9, <3>1, <3>2, <3>3, TurnKeepsLevel
  <2> HIDE DEF w, inner
  <2>11. /\ Child(S, p, side) = a /\ Child(S, p, Other(side)) = inner
         /\ Parent(S, Leaf) = Parent(T, Leaf) /\ Child(S, w, side) = p
         /\ \A z \in C, t \in Sides : Child(T, z, t) \in C \cup {Leaf}
         /\ \A z \in Cells :
              IsRed(S, z) = IF z = p THEN TRUE ELSE IF z = w THEN FALSE ELSE IsRed(T, z)
    <3>1. Child(S, p, side) = a /\ Child(S, p, Other(side)) = inner /\ Child(S, w, side) = p
      BY <2>2, <2>4, <2>5, <2>6 DEF Exchanged, Turned
    <3>2. Parent(S, Leaf) = Parent(T, Leaf)
      BY <2>2, <2>4, <2>9 DEF Exchanged, Turned
    <3>3. \A z \in C, t \in Sides : Child(T, z, t) \in C \cup {Leaf}
      BY <2>1 DEF Linked
    <3> QED
      BY <2>4, <3>1, <3>2, <3>3 DEF Exchanged
  <2>12. ~IsRed(S, Leaf) /\ ~IsRed(S, S.root) /\ ~IsRed(S, a) /\ ~IsRed(S, inner)
    <3>1. T.root \in Cells
      BY <2>1 DEF Linked, Trees
    <3>2. S.root = IF p = T.root THEN w ELSE T.root
      BY <2>4 DEF Exchanged, Turned
    <3> QED
      BY <2>2, <2>5, <2>6, <2>7, <2>11, <3>1, <3>2 DEF Lacking
  <2>13. ASSUME NEW z \in C, NEW t \in Sides, IsRed(S, z), IsRed(S, Child(S, z, t))
         PROVE  FALSE
    <3>1. z # w
      BY <2>2, <2>5, <2>11, <2>13
    <3>2. CASE z = p
      <4>1. t = side \/ t = Other(side)
        BY <2>2, TwoSides
      <4> QED
        BY <2>11, <2>12, <2>13, <3>2, <4>1
    <3>3. CASE z # p
      <4>1. Child(S, z, t) = IF Child(T, z, t) = p THEN w ELSE Child(T, z, t)
        BY <2>4, <3>1, <3>3 DEF Exchanged, Turned
      <4>2. Child(S, z, t) # w
        BY <2>2, <2>5, <2>11, <2>13
      <4>3. Child(S, z, t) = Child(T, z, t) /\ Child(T, z, t) # p
        BY <4>1, <4>2
      <4>4. IsRed(T, z) /\ IsRed(T, Child(T, z, t))
        BY <2>2, <2>11, <2>13, <3>1, <3>3, <4>2, <4>3
      <4> QED
        BY <4>4 DEF Lacking
    <3> QED
      BY <3>2, <3>3
  <2>14. Lacking(S, C, a, p, side, h)
    <3>1. Linked(S, C) /\ \E E : Sorted(S, C, E)
      BY <2>4 DEF Exchanged
    <3> QED
      BY <2>2, <2>5, <2>8, <2>9, <2>10, <2>11, <2>12, <2>13, <3>1 DEF Lacking
  <2>15. Elsewhere(T, S, C)
    BY <2>4 DEF Exchanged, Turned, Elsewhere
  <2> QED
    BY <2>11, <2>12, <2>14, <2>15 DEF S
<1> QED
  BY <1>1, <1>2

\* The sibling and its children are black: it turns red, and its parent is
\* the one that lacks a black.
LEMMA PopUpGood ==
    ASSUME NEW T, NEW C, NEW a, NEW p, NEW side, NEW h, Lacking(T, C, a, p, side, h),
           NEW w, w = Child(T, p, Other(side)), ~IsRed(T, w), BothBlack(T, w)
    PROVE  Good(Painted(T, w, TRUE), C, "pop", p) /\ Elsewhere(T, Painted(T, w, TRUE), C)
<1> DEFINE R == Painted(T, w, TRUE)
           k == [h EXCEPT ![p] = @ - 1]
<1>1. PICK D : Linked(T, C) /\ Sorted(T, C, D)
  BY DEF Lacking
<1>2. /\ Other(side) \in Sides /\ side \in Sides /\ w \in C /\ p \in C /\ Leaf \notin C
      /\ Child(T, p, side) = a /\ a \in C \cup {Leaf} /\ C \cup {Leaf} \subseteq Cells
      /\ \A t \in Sides : t = side \/ t = Other(side)
  BY <1>1, TwoSides, Apart DEF Lacking
<1>3. w # p /\ w # a /\ a # p /\ \A z \in C, t \in Sides : Child(T, z, t) = w => z = p
  BY <1>1, <1>2, Apart
<1>4. ColorSet(T, R, w, TRUE)
  BY <1>1, <1>2, ColorWritten DEF Linked
<1> HIDE DEF R
<1>5. SameLinks(T, R) /\ Elsewhere(T, R, C)
  BY <1>2, <1>4 DEF ColorSet, SameLinks, Elsewhere
<1>6. Linked(R, C) /\ Sorted(R, C, D)
  BY <1>1, <1>5, PaintKeeps
<1>7. /\ R.root = T.root /\ Parent(R, Leaf) = Parent(T, Leaf)
      /\ \A z \in C, t \in Sides : Child(R, z, t) = Child(T, z, t)
      /\ \A z \in C, t \in Sides : Child(T, z, t) \in C \cup {Leaf}
      /\ \A z \in Cells : IsRed(R, z) = IF z = w THEN TRUE ELSE IsRed(T, z)
  BY <1>1, <1>2, <1>4 DEF ColorSet, Linked
<1>8. Uneven(T, C, a, p, w, h)
  BY LackingHeights
<1>9. /\ Own(T, w) = 1 /\ Own(R, w) = 0 /\ Own(R, a) = 1
      /\ \A c \in C \cup {Leaf} : c # w => Own(R, c) = Own(T, c)
      /\ \A c \in C \cup {Leaf} : Own(T, c) \in Nat
  BY <1>2, <1>3, <1>7 DEF Own, Lacking
<1>10. h \in [C \cup {Leaf} -> Nat] /\ h[Leaf] = 0 /\ h[p] = h[a] + 2 /\ h[p] = h[w] + 1
       /\ h[p] \in Nat /\ h[a] \in Nat /\ h[w] \in Nat
  BY <1>2, <1>8, <1>9 DEF Uneven
<1>11. k \in [C \cup {Leaf} -> Nat] /\ k[Leaf] = 0 /\ k[p] = h[p] - 1
       /\ \A c \in C \cup {Leaf} : c # p => k[c] = h[c]
  BY <1>2, <1>10
<1> HIDE DEF k
<1>12. ASSUME NEW z \in C, NEW t \in Sides
       PROVE  k[z] = k[Child(R, z, t)] + Own(R, Child(R, z, t))
                       + Lack(R, z, Child(R, z, t), p)
  <2> DEFINE c == Child(T, z, t)
  <2>1. Child(R, z, t) = c /\ c \in C \cup {Leaf}
    BY <1>7
  <2>2. h[z] = h[c] + Own(T, c) + Lack(T, z, c, a)
    BY DEF Lacking, Level
  <2>3. Lack(R, z, c, p) = IF c = p THEN 1 ELSE 0
    BY <1>2 DEF Lack
  <2>4. CASE z = p
    <3>1. c = a \/ c = w
      BY <1>2, <2>4
    <3> QED
      BY <1>3, <1>9, <1>10, <1>11, <2>1, <2>3, <2>4, <3>1
  <2>5. CASE z # p
    <3>1. Lack(T, z, c, a) = 0 /\ c # w
      BY <1>3, <1>8, <2>5 DEF Uneven
    <3>2. h[z] \in Nat /\ h[c] \in Nat /\ Own(T, c) \in Nat
      BY <1>9, <1>10, <2>1
    <3>3. k[z] = h[z] /\ h[z] = h[c] + Own(T, c) /\ Own(R, c) = Own(T, c)
      BY <1>9, <1>11, <2>1, <2>2, <2>5, <3>1, <3>2
    <3> HIDE DEF c
    <3> QED
      BY <1>11, <2>1, <2>3, <3>2, <3>3
  <2> QED
    BY <2>4, <2>5
<1>13. Level(R, C, k, p)
  BY <1>11, <1>12 DEF Level
<1>14. Colored(R, C, "pop", p)
  <2>1. ~IsRed(R, Leaf) /\ ~IsRed(R, R.root)
    <3>1. T.root # w /\ T.root \in Cells
      BY <1>1, <1>2 DEF Linked, Trees
    <3> QED
      BY <1>2, <1>7, <3>1 DEF Lacking
  <2>2. ASSUME NEW z \in C, NEW t \in Sides, IsRed(R, z), IsRed(R, Child(R, z, t)), z # p
        PROVE  FALSE
    <3>1. Child(R, z, t) = Child(T, z, t) /\ Child(T, z, t) # w /\ IsRed(T, Child(T, z, t))
      BY <1>2, <1>3, <1>7, <2>2
    <3>2. ~IsRed(T, z)
      BY <3>1 DEF Lacking
    <3>3. z = w
      BY <1>2, <1>7, <2>2, <3>2
    <3> QED
      BY <3>1, <3>3 DEF BothBlack, Sides
  <2> QED
    BY <2>1, <2>2 DEF Colored
<1>15. Standing(R, C, "pop", p)
  BY <1>1, <1>2, <1>7 DEF Standing, Linked
<1>16. Good(R, C, "pop", p)
  BY <1>6, <1>13, <1>14, <1>15 DEF Good, HoleOf
<1> QED
  BY <1>5, <1>16 DEF R

\* The near child of the sibling is red and the far one is not: a rotation
\* makes the far one red.
LEMMA FarTurned ==
    ASSUME NEW T, NEW C, NEW a, NEW p, NEW side, NEW h, Lacking(T, C, a, p, side, h),
           ~IsRed(T, Child(T, p, Other(side))), ~BothBlack(T, Child(T, p, Other(side)))
    PROVE  LET S == FarRed(T, p, side)
               w == Child(S, p, Other(side))
           IN  /\ Lacking(S, C, a, p, side, h)
               /\ ~IsRed(S, w) /\ IsRed(S, Child(S, w, Other(side)))
               /\ Elsewhere(T, S, C)
<1> DEFINE w == Child(T, p, Other(side))
           S == FarRed(T, p, side)
           far == Child(T, w, Other(side))
           near == Child(T, w, side)
           inner == Child(T, near, Other(side))
<1>1. CASE IsRed(T, far)
  BY <1>1 DEF FarRed, Elsewhere
<1>2. CASE ~IsRed(T, far)
  <2>1. PICK D : Linked(T, C) /\ Sorted(T, C, D)
    BY DEF Lacking
  <2>2. /\ Other(side) \in Sides /\ side \in Sides /\ w \in C /\ p \in C /\ Leaf \notin C
        /\ Child(T, p, side) = a /\ a \in C \cup {Leaf} /\ w # Leaf /\ C \cup {Leaf} \subseteq Cells
        /\ Other(side) # side /\ Other(Other(side)) = side
        /\ \A t \in Sides : t = side \/ t = Other(side)
    BY <2>1, TwoSides, Apart DEF Lacking
  <2>3. IsRed(T, near)
    BY <1>2, <2>2 DEF BothBlack, Sides
  <2>4. near \in C /\ near # Leaf /\ far \in C \cup {Leaf}
    BY <2>1, <2>2, <2>3 DEF Linked, Lacking
  <2>5. S = Rotated(Painted(Painted(T, near, FALSE), w, TRUE), w, Other(side))
    BY <1>2 DEF FarRed
  <2> HIDE DEF S
  <2>6. near = Child(T, w, Other(Other(side))) /\ inner = Child(T, near, Other(side))
        /\ w = Child(T, p, Other(side)) /\ far = Child(T, w, Other(side))
    BY <2>2
  <2> HIDE DEF inner, near, w, far
  <2>7. Exchanged(T, S, C, w, near, inner, Other(side))
    <3> DEFINE o == Other(side)
    <3>1. near = Child(T, w, Other(o)) /\ inner = Child(T, near, o) /\ o \in Sides
      BY <2>2, <2>6
    <3>2. S = Rotated(Painted(Painted(T, near, FALSE), w, TRUE), w, o)
      BY <2>5
    <3> HIDE DEF o
    <3>3. Exchanged(T, S, C, w, near, inner, o)
      BY <2>1, <2>2, <2>4, <3>1, <3>2, ExchangeLinks
    <3> QED
      BY <3>3 DEF o
  <2>8. /\ near # w /\ inner \in C \cup {Leaf} /\ inner # w /\ inner # near
        /\ far # w /\ far # near
    <3>1. far # w
      BY <2>1, <2>2, <2>6, Apart
    <3>2. far # near
      <4>1. near = Child(T, w, side)
        BY <2>2, <2>6
      <4> QED
        BY <2>1, <2>2, <2>4, <2>6, <4>1, Apart
    <3> QED
      BY <2>1, <2>2, <2>4, <2>6, <3>1, <3>2, TurnNodes
  <2>9. /\ near # p /\ w # p /\ a # w /\ a # near /\ a # p
        /\ \A z \in C, t \in Sides : Child(T, z, t) = w => z = p /\ t = Other(side)
    <3>1. near # p
      <4>1. near = Child(T, w, side)
        BY <2>2, <2>6
      <4>2. p \notin D[w] /\ near \in D[w]
        <5>1. near \in D[near] /\ p \notin D[w]
          BY <2>1, <2>2, <2>4, <2>6, Apart
        <5> QED
          BY <2>1, <2>2, <2>4, <4>1, <5>1 DEF Sorted
      <4> QED
        BY <4>2
    <3>2. a # near
      <4>1. near = Child(T, w, side)
        BY <2>2, <2>6
      <4>2. w # p
        BY <2>1, <2>2, <2>6, Apart
      <4> QED
        BY <2>1, <2>2, <2>4, <4>1, <4>2, Apart
    <3> QED
      BY <2>1, <2>2, <2>6, <3>1, <3>2, Apart
  <2>10. ~IsRed(T, w) /\ ~IsRed(T, inner)
    <3>1. ~IsRed(T, inner)
      BY <2>2, <2>3, <2>4, <2>6 DEF Lacking
    <3> QED
      BY <2>6, <3>1
  <2>11. a = Leaf => Parent(T, Leaf) = p
    BY DEF Lacking
  <2>12. Level(S, C, h, a)
    <3>1. IsRed(S, w) /\ IsRed(S, near) = IsRed(T, w)
          /\ \A z \in Cells : z \notin {w, near} => IsRed(S, z) = IsRed(T, z)
      <4>1. IsRed(S, w) /\ ~IsRed(S, near)
        BY <2>2, <2>4, <2>7, <2>8 DEF Exchanged
      <4>2. IsRed(S, near) \in BOOLEAN /\ IsRed(T, w) \in BOOLEAN
        BY <2>1, <2>2, <2>4, <2>7 DEF Exchanged, Linked, Trees, Node, IsRed
      <4> QED
        BY <2>7, <2>10, <4>1, <4>2 DEF Exchanged
    <3>2. Turned(T, S, C, w, near, inner, Other(side)) /\ Level(T, C, h, a)
      BY <2>7 DEF Exchanged, Lacking
    <3>3. inner = Leaf /\ a = Leaf => Parent(T, Leaf) \notin {w, near}
      BY <2>9, <2>11
    <3> QED
      BY ONLY <2>1, <2>2, <2>3, <2>4, <2>6, <2>9, <3>1, <3>2, <3>3, TurnKeepsLevel
  <2>13. /\ Child(S, p, side) = a /\ Child(S, p, Other(side)) = near
         /\ Child(S, near, Other(side)) = w
         /\ Parent(S, Leaf) = Parent(T, Leaf)
    <3>1. Child(S, p, side) = a /\ Child(S, p, Other(side)) = near
          /\ Child(S, near, Other(side)) = w
      BY <2>2, <2>4, <2>6, <2>7, <2>8, <2>9 DEF Exchanged, Turned
    <3>2. Parent(S, Leaf) = Parent(T, Leaf)
      BY <2>2, <2>4, <2>7, <2>8 DEF Exchanged, Turned
    <3> QED
      BY <3>1, <3>2
  <2>14. /\ \A z \in C, t \in Sides : Child(T, z, t) \in C \cup {Leaf}
         /\ \A z \in Cells :
              IsRed(S, z) = IF z = w THEN TRUE ELSE IF z = near THEN FALSE ELSE IsRed(T, z)
    BY <2>1, <2>7 DEF Exchanged, Linked
  <2>15. /\ ~IsRed(S, Leaf) /\ ~IsRed(S, S.root) /\ ~IsRed(S, a) /\ ~IsRed(S, near)
         /\ IsRed(S, w)
    <3>1. T.root \in Cells /\ w # T.root /\ S.root = T.root
      BY <2>1, <2>2, <2>6, <2>7 DEF Linked, Trees, Exchanged, Turned
    <3> QED
      BY <2>2, <2>4, <2>8, <2>9, <2>14, <3>1 DEF Lacking
  <2>16. ASSUME NEW z \in C, NEW t \in Sides, IsRed(S, z), IsRed(S, Child(S, z, t))
         PROVE  FALSE
    <3>1. z # near /\ Child(S, z, t) # near
      BY <2>15, <2>16
    <3>2. CASE z = w
      <4>1. CASE t = side
        <5>1. Child(S, z, t) = inner
          BY <2>2, <2>7, <3>1, <3>2, <4>1 DEF Exchanged, Turned
        <5> QED
          BY <2>2, <2>8, <2>10, <2>14, <2>16, <5>1
      <4>2. CASE t = Other(side)
        <5>1. Child(S, z, t) = far
          BY <2>2, <2>1, <2>6, <2>7, <3>1, <3>2, <4>2, Apart DEF Exchanged, Turned
        <5> QED
          BY <1>2, <2>2, <2>4, <2>8, <2>14, <2>16, <5>1
      <4> QED
        BY <2>2, <4>1, <4>2
    <3>3. CASE z # w
      <4>1. Child(S, z, t) = IF Child(T, z, t) = w THEN near ELSE Child(T, z, t)
        BY <2>7, <3>1, <3>3 DEF Exchanged, Turned
      <4>2. Child(S, z, t) = Child(T, z, t) /\ Child(T, z, t) # w
        BY <3>1, <4>1
      <4>3. IsRed(T, z) /\ IsRed(T, Child(T, z, t))
        BY <2>2, <2>14, <2>16, <3>1, <3>3, <4>2
      <4> QED
        BY <4>3 DEF Lacking
    <3> QED
      BY <3>2, <3>3
  <2>17. Lacking(S, C, a, p, side, h)
    <3>1. Linked(S, C) /\ \E E : Sorted(S, C, E)
      BY <2>7 DEF Exchanged
    <3> QED
      BY <2>2, <2>4, <2>11, <2>12, <2>13, <2>15, <2>16, <3>1 DEF Lacking
  <2>18. Elsewhere(T, S, C)
    BY <2>7 DEF Exchanged, Turned, Elsewhere
  <2> QED
    BY <2>13, <2>15, <2>17, <2>18 DEF S
<1> QED
  BY <1>1, <1>2

\* The last rotation after a removal.
LEMMA BorrowGood ==
    ASSUME NEW T, NEW C, NEW a, NEW p, NEW side, NEW h, Lacking(T, C, a, p, side, h),
           NEW w, w = Child(T, p, Other(side)), ~IsRed(T, w), IsRed(T, Child(T, w, Other(side)))
    PROVE  LET R == Borrowed(T, p, side)
           IN  Good(R, C, "pop", R.root) /\ Elsewhere(T, R, C)
<1> DEFINE far == Child(T, w, Other(side))
           inner == Child(T, w, side)
           U == Painted(T, w, IsRed(T, p))
           V == Painted(U, p, FALSE)
           W == Painted(V, far, FALSE)
           R == Rotated(W, p, side)
<1>1. PICK D : Linked(T, C) /\ Sorted(T, C, D)
  BY DEF Lacking
<1>2. /\ Other(side) \in Sides /\ side \in Sides /\ w \in C /\ p \in C /\ Leaf \notin C
      /\ Child(T, p, side) = a /\ a \in C \cup {Leaf} /\ w # Leaf /\ C \cup {Leaf} \subseteq Cells
      /\ Other(side) # side /\ Other(Other(side)) = side
      /\ \A t \in Sides : t = side \/ t = Other(side)
  BY <1>1, TwoSides, Apart DEF Lacking
<1>3. Borrowed(T, p, side) = R
  BY DEF Borrowed
<1>4. far \in C /\ far # Leaf /\ T \in Trees
  BY <1>1, <1>2 DEF Linked, Lacking
<1>5. /\ w # p /\ inner \in C \cup {Leaf} /\ inner # p /\ inner # w /\ far # p
      /\ \A z \in C, t \in Sides : Child(T, z, t) = w <=> (z = p /\ t = Other(side))
  BY <1>1, <1>2, TurnNodes
<1>6. far # w /\ far # inner /\ a # p /\ a # w /\ a # far
      /\ \A z \in C, t \in Sides : Child(T, z, t) = far => z = w
  <2>1. a # w /\ a # p
    BY <1>1, <1>2, Apart
  <2>2. far # w /\ far # inner /\ a # far
    BY <1>1, <1>2, <1>4, <1>5, Apart
  <2>3. \A z \in C, t \in Sides : Child(T, z, t) = far => z = w
    BY <1>1, <1>2, <1>4, Apart
  <2> QED
    BY <2>1, <2>2, <2>3
<1> HIDE DEF inner, far
<1>7. ColorSet(T, U, w, IsRed(T, p))
  <2>1. IsRed(T, p) \in BOOLEAN
    BY <1>2, <1>4 DEF IsRed, Trees, Node
  <2> QED
    BY <1>2, <1>4, <2>1, ColorWritten
<1> HIDE DEF U
<1>8. ColorSet(U, V, p, FALSE)
  <2>1. U \in Trees
    BY <1>7 DEF ColorSet
  <2> QED
    BY <1>2, <2>1, ColorWritten
<1> HIDE DEF V
<1>9. ColorSet(V, W, far, FALSE)
  <2>1. V \in Trees
    BY <1>8 DEF ColorSet
  <2> QED
    BY <1>2, <1>4, <2>1, ColorWritten
<1> HIDE DEF W
<1>10. SameLinks(T, W) /\ \A z \in Cells : z \notin C => W.node[z] = T.node[z]
  BY <1>2, <1>4, <1>7, <1>8, <1>9 DEF ColorSet, SameLinks
<1>11. Linked(W, C) /\ Sorted(W, C, D)
  BY <1>1, <1>10, PaintKeeps
<1>12. w = Child(W, p, Other(side)) /\ inner = Child(W, w, side)
  BY <1>2, <1>10 DEF SameLinks, inner
<1>13. Turned(W, R, C, p, w, inner, side) /\ \A z \in Cells : IsRed(R, z) = IsRed(W, z)
  BY <1>2, <1>11, <1>12, RotatedLinks
<1> HIDE DEF R
<1>14. Linked(R, C) /\ \E E : Sorted(R, C, E)
  BY <1>2, <1>11, <1>12, <1>13, TurnKeepsLinks, TurnKeepsOrder
<1>15. /\ R.root = IF p = T.root THEN w ELSE T.root
       /\ Child(R, w, side) = p /\ Child(R, w, Other(side)) = far
       /\ Child(R, p, side) = a /\ Child(R, p, Other(side)) = inner
       /\ \A z \in C, t \in Sides : z # w /\ z # p =>
             Child(R, z, t) = IF Child(T, z, t) = p THEN w ELSE Child(T, z, t)
  <2>1. R.root = IF p = T.root THEN w ELSE T.root
    BY <1>10, <1>13 DEF Turned, SameLinks
  <2>2. \A z \in C, t \in Sides : Child(W, z, t) = Child(T, z, t)
    BY <1>2, <1>10 DEF SameLinks
  <2>3. Child(T, w, Other(side)) = far
    BY DEF far
  <2>4. Child(R, w, side) = p /\ Child(R, w, Other(side)) = far
    BY <1>2, <1>5, <1>13, <2>2, <2>3 DEF Turned
  <2>5. Child(R, p, side) = a /\ Child(R, p, Other(side)) = inner
    BY <1>2, <1>5, <1>6, <1>13, <2>2 DEF Turned
  <2>6. \A z \in C, t \in Sides : z # w /\ z # p =>
             Child(R, z, t) = IF Child(T, z, t) = p THEN w ELSE Child(T, z, t)
    BY <1>13, <2>2 DEF Turned
  <2> QED
    BY <2>1, <2>4, <2>5, <2>6
<1>16. \A z \in Cells : IsRed(R, z) = IF z = far THEN FALSE ELSE IF z = p THEN FALSE
                                      ELSE IF z = w THEN IsRed(T, p) ELSE IsRed(T, z)
  <2>1. \A z \in Cells : IsRed(R, z) = IsRed(W, z)
    BY <1>13
  <2>2. \A z \in Cells : IsRed(W, z) = IF z = far THEN FALSE ELSE IsRed(V, z)
    BY <1>9 DEF ColorSet
  <2>3. \A z \in Cells : IsRed(V, z) = IF z = p THEN FALSE ELSE IsRed(U, z)
    BY <1>8 DEF ColorSet
  <2>4. \A z \in Cells : IsRed(U, z) = IF z = w THEN IsRed(T, p) ELSE IsRed(T, z)
    BY <1>7 DEF ColorSet
  <2> QED
    BY ONLY <2>1, <2>2, <2>3, <2>4
<1>17. Uneven(T, C, a, p, w, h)
  BY LackingHeights
<1>19. /\ Own(T, w) = 1 /\ Own(R, w) = Own(T, p) /\ Own(T, far) = 0 /\ Own(R, far) = 1
       /\ Own(R, p) = 1 /\ Own(R, a) = 1
       /\ \A c \in C \cup {Leaf} : c \notin {w, far, p} => Own(R, c) = Own(T, c)
       /\ \A c \in C \cup {Leaf} : Own(T, c) \in Nat
  <2>1. IsRed(T, far) /\ ~IsRed(T, w) /\ ~IsRed(T, a)
    BY DEF far, Lacking
  <2> QED
    BY <1>2, <1>4, <1>5, <1>6, <1>16, <2>1 DEF Own
<1> DEFINE k == [h EXCEPT ![p] = @ - 1, ![w] = h[p]]
<1>20. /\ h \in [C \cup {Leaf} -> Nat] /\ h[Leaf] = 0 /\ h[p] = h[a] + 2 /\ h[p] = h[w] + 1
       /\ h[p] \in Nat /\ h[a] \in Nat /\ h[w] \in Nat /\ h[far] \in Nat /\ h[inner] \in Nat
  BY <1>2, <1>4, <1>5, <1>17, <1>19 DEF Uneven
<1>21. /\ k \in [C \cup {Leaf} -> Nat] /\ k[Leaf] = 0 /\ k[p] = h[p] - 1 /\ k[w] = h[p]
       /\ \A c \in C \cup {Leaf} : c # p /\ c # w => k[c] = h[c]
  BY <1>2, <1>5, <1>20
<1> HIDE DEF k
<1>22. /\ h[w] = h[far]
       /\ h[w] = h[inner] + Own(T, inner)
  <2>1. /\ h[w] = h[far] + Own(T, far) + Lack(T, w, far, a)
        /\ h[w] = h[inner] + Own(T, inner) + Lack(T, w, inner, a)
    BY <1>2 DEF Lacking, Level, far, inner
  <2>2. Lack(T, w, far, a) = 0 /\ Lack(T, w, inner, a) = 0
    BY <1>2, <1>5, <1>17 DEF Uneven, far, inner
  <2> QED
    BY <1>5, <1>19, <1>20, <2>1, <2>2
<1>23. R.root \in C /\ R.root # Leaf
  BY <1>1, <1>2, <1>15 DEF Linked
<1>24. ASSUME NEW z \in C, NEW t \in Sides
       PROVE  k[z] = k[Child(R, z, t)] + Own(R, Child(R, z, t))
                       + Lack(R, z, Child(R, z, t), R.root)
  <2>1. Child(R, z, t) \in C \cup {Leaf} /\ Child(R, z, t) # R.root
    BY <1>14, <1>23 DEF Linked
  <2>2. Lack(R, z, Child(R, z, t), R.root) = 0
    BY <2>1 DEF Lack
  <2>3. CASE z = w
    <3>1. Child(R, z, t) = p \/ Child(R, z, t) = far
      BY <1>2, <1>15, <2>3
    <3>2. CASE Child(R, z, t) = p
      BY <1>19, <1>20, <1>21, <2>2, <2>3, <3>2
    <3>3. CASE Child(R, z, t) = far
      <4>1. k[far] = h[far]
        BY <1>4, <1>5, <1>6, <1>21
      <4> QED
        <5>1. k[w] = h[p] /\ h[p] = h[w] + 1 /\ h[w] = h[far] /\ h[far] \in Nat
          BY <1>20, <1>21, <1>22
        <5>2. Own(R, far) = 1 /\ Lack(R, z, far, R.root) = 0
          BY <1>19, <2>2, <3>3
        <5>3. k[w] = k[far] + Own(R, far) + Lack(R, z, far, R.root)
          BY ONLY <4>1, <5>1, <5>2
        <5> QED
          BY <2>3, <3>3, <5>3
    <3> QED
      BY <3>1, <3>2, <3>3
  <2>4. CASE z = p
    <3>1. Child(R, z, t) = a \/ Child(R, z, t) = inner
      BY <1>2, <1>15, <2>4
    <3>2. Own(R, inner) = Own(T, inner)
      BY <1>5, <1>6, <1>19
    <3> QED
      BY <1>2, <1>5, <1>6, <1>19, <1>20, <1>21, <1>22, <2>2, <2>4, <3>1, <3>2
  <2>5. CASE z # w /\ z # p
    <3> DEFINE c == Child(T, z, t)
    <3>1. c \in C \cup {Leaf} /\ c # w /\ c # far
      BY <1>1, <1>5, <1>6, <2>5 DEF Linked
    <3>2. h[z] = h[c] + Own(T, c) + Lack(T, z, c, a) /\ Lack(T, z, c, a) = 0
      BY <1>17, <2>5 DEF Lacking, Level, Uneven
    <3>3. Child(R, z, t) = IF c = p THEN w ELSE c
      BY <1>15, <2>5
    <3>4. h[z] \in Nat /\ h[c] \in Nat /\ Own(T, c) \in Nat
      BY <1>19, <1>20, <3>1
    <3>5. k[z] = h[z]
      BY <1>21, <2>5
    <3> HIDE DEF c
    <3>6. CASE c = p
      BY <1>19, <1>20, <1>21, <2>2, <3>2, <3>3, <3>4, <3>5, <3>6
    <3>7. CASE c # p
      <4>1. Own(R, c) = Own(T, c) /\ k[c] = h[c] /\ Child(R, z, t) = c
        BY <1>19, <1>21, <3>1, <3>3, <3>7
      <4> QED
        BY <2>2, <3>2, <3>4, <3>5, <4>1
    <3> QED
      BY <3>6, <3>7
  <2> QED
    BY <2>3, <2>4, <2>5
<1>25. Level(R, C, k, R.root)
  BY <1>21, <1>24 DEF Level
<1>26. ~IsRed(R, Leaf) /\ ~IsRed(R, R.root)
  <2>1. T.root \in Cells /\ w # T.root
    BY <1>1, <1>2 DEF Linked, Trees
  <2>2. ~IsRed(T, Leaf) /\ ~IsRed(T, T.root)
    BY DEF Lacking
  <2> QED
    BY <1>2, <1>4, <1>15, <1>16, <2>1, <2>2
<1>27. ASSUME NEW z \in C, NEW t \in Sides, IsRed(R, z), IsRed(R, Child(R, z, t))
       PROVE  FALSE
  <2>1. z # p /\ z # far /\ Child(R, z, t) # p /\ Child(R, z, t) # far
    BY <1>2, <1>4, <1>16, <1>27
  <2>2. z # w
    BY <1>2, <1>15, <2>1
  <2>3. Child(R, z, t) = IF Child(T, z, t) = p THEN w ELSE Child(T, z, t)
    BY <1>15, <2>1, <2>2
  <2>4. Child(T, z, t) \in C \cup {Leaf} /\ Child(T, z, t) # w
    BY <1>1, <1>5, <2>1 DEF Linked
  <2>5. IsRed(T, z)
    BY <1>2, <1>16, <1>27, <2>1, <2>2
  <2>6. IsRed(T, Child(T, z, t))
    BY <1>2, <1>16, <1>27, <2>1, <2>3, <2>4
  <2> QED
    BY <2>5, <2>6 DEF Lacking
<1>28. Colored(R, C, "pop", R.root)
  BY <1>26, <1>27 DEF Colored
<1>29. Standing(R, C, "pop", R.root)
  BY <1>23 DEF Standing
<1>30. Elsewhere(T, R, C)
  BY <1>10, <1>13 DEF Turned, Elsewhere
<1>31. Good(R, C, "pop", R.root)
  BY <1>14, <1>25, <1>28, <1>29 DEF Good, HoleOf
<1> QED
  BY <1>3, <1>30, <1>31

\* Freeing a node that is out of the tree
LEMMA FreeKeeps ==
    ASSUME NEW T, NEW C, NEW D, Linked(T, C), Sorted(T, C, D), NEW k \in Keys \ C
    PROVE  LET R == [T EXCEPT !.node[k] = Freed]
           IN  /\ Linked(R, C) /\ Sorted(R, C, D) /\ R.root = T.root
               /\ \A z \in C \cup {Leaf}, t \in Sides : Child(R, z, t) = Child(T, z, t)
               /\ \A z \in C \cup {Leaf} : Parent(R, z) = Parent(T, z) /\ IsRed(R, z) = IsRed(T, z)
               /\ R.node[k] = Freed
               /\ \A z \in Cells : z # k => R.node[z] = T.node[z]
<1> DEFINE R == [T EXCEPT !.node[k] = Freed]
<1>1. T \in Trees /\ k \in Cells /\ C \cup {Leaf} \subseteq Cells /\ k \notin C \cup {Leaf}
  BY Apart, TreeAssumption DEF Linked, Cells
<1>2. Freed \in Node
  BY DEF Freed, Node, Link
<1>3. R \in Trees /\ R.root = T.root /\ R.node[k] = Freed
      /\ \A z \in Cells : z # k => R.node[z] = T.node[z]
  BY <1>1, <1>2 DEF Trees
<1> HIDE DEF R
<1>4. /\ \A z \in C \cup {Leaf}, t \in Sides : Child(R, z, t) = Child(T, z, t)
      /\ \A z \in C \cup {Leaf} : Parent(R, z) = Parent(T, z) /\ IsRed(R, z) = IsRed(T, z)
  BY <1>1, <1>3 DEF Child, Parent, IsRed
<1>5. Linked(R, C)
  BY <1>3, <1>4 DEF Linked
<1>6. Sorted(R, C, D)
  BY <1>3, <1>4, TwoSides DEF Sorted
<1> QED
  BY <1>3, <1>4, <1>5, <1>6 DEF R

\* What PopEnds makes of T when the call m stands at a
Ended(T, m, a, k) ==
    LET S == IF m = "pop" THEN Painted(T, a, FALSE) ELSE T
    IN  [S EXCEPT !.node[k] = Freed]

\* The end of a removal: the node the repair stands at turns black, if there
\* was a repair, and the node that was removed is freed.
LEMMA PopEndsGood ==
    ASSUME NEW T, NEW C, NEW a, NEW m, NEW k \in Keys \ C,
           m = "popped" \/ (m = "pop" /\ ~(a # T.root /\ ~IsRed(T, a))),
           Good(T, C, m, a)
    PROVE  LET R == Ended(T, m, a, k)
           IN  /\ Good(R, C, "idle", Leaf)
               /\ R.node[k] = Freed /\ \A z \in Cells : z \notin C /\ z # k => R.node[z] = T.node[z]
<1> DEFINE S == IF m = "pop" THEN Painted(T, a, FALSE) ELSE T
           R == [S EXCEPT !.node[k] = Freed]
<1>1. PICK D : Linked(T, C) /\ Sorted(T, C, D)
  BY DEF Good
<1>2. C \cup {Leaf} \subseteq Cells /\ Leaf \notin C /\ NULL \notin C \cup {Leaf}
  BY <1>1, Apart, TreeAssumption
<1>3. /\ Linked(S, C) /\ Sorted(S, C, D) /\ Elsewhere(T, S, C)
      /\ \E h : Level(S, C, h, NULL)
      /\ ~IsRed(S, Leaf) /\ ~IsRed(S, S.root)
      /\ \A z \in C, t \in Sides : ~(IsRed(S, z) /\ IsRed(S, Child(S, z, t)))
  <2>1. CASE m = "popped"
    <3>1. S = T /\ Colored(T, C, "popped", a)
      BY <2>1 DEF Good
    <3>2. \E h : Level(T, C, h, NULL)
      BY <2>1 DEF Good, HoleOf
    <3> HIDE DEF S
    <3> QED
      BY <1>1, <3>1, <3>2 DEF Colored, Elsewhere
  <2>2. CASE m = "pop"
    <3>1. Colored(T, C, "pop", a) /\ Standing(T, C, "pop", a) /\ S = Painted(T, a, FALSE)
      BY <2>2 DEF Good
    <3>2. PICK h : Level(T, C, h, a)
      BY <2>2 DEF Good, HoleOf
    <3>3. a \in C /\ (a = T.root \/ IsRed(T, a)) /\ a # Leaf
      BY <1>1, <1>2, <2>2, <3>1 DEF Colored, Standing, Linked
    <3> HIDE DEF S
    <3>4. ColorSet(T, S, a, FALSE)
      BY <1>1, <1>2, <3>1, <3>3, ColorWritten DEF Linked
    <3>5. SameLinks(T, S) /\ Elsewhere(T, S, C)
      BY <3>3, <3>4 DEF ColorSet, SameLinks, Elsewhere
    <3>6. Linked(S, C) /\ Sorted(S, C, D)
      BY <1>1, <3>5, PaintKeeps
    <3>7. /\ S.root = T.root /\ T.root \in Cells
          /\ \A z \in C, t \in Sides :
                Child(S, z, t) = Child(T, z, t) /\ Child(T, z, t) \in C \cup {Leaf}
          /\ \A z \in Cells : IsRed(S, z) = IF z = a THEN FALSE ELSE IsRed(T, z)
      BY <1>1, <1>2, <3>4 DEF ColorSet, Linked, Trees
    <3>8. ~IsRed(S, Leaf) /\ ~IsRed(S, S.root)
      BY <1>2, <3>1, <3>7 DEF Colored
    <3>9. \A z \in C, t \in Sides : ~(IsRed(S, z) /\ IsRed(S, Child(S, z, t)))
      <4>0. SUFFICES ASSUME NEW z \in C, NEW t \in Sides
                     PROVE  IsRed(S, z) /\ IsRed(S, Child(S, z, t)) => FALSE
        OBVIOUS
      <4>1. SUFFICES ASSUME IsRed(S, z), IsRed(S, Child(S, z, t)) PROVE FALSE
        OBVIOUS
      <4>2. z # a /\ Child(T, z, t) # a /\ IsRed(T, z) /\ IsRed(T, Child(T, z, t))
        BY <1>2, <3>7, <4>1
      <4> QED
        BY <3>1, <4>2 DEF Colored
    <3>10. Level(S, C, h, NULL)
      <4>1. \A z \in C, c \in C \cup {Leaf} :
               /\ Lack(S, z, c, NULL) = 0 /\ Lack(T, z, c, a) = IF c = a THEN 1 ELSE 0
               /\ c # a => Own(S, c) = Own(T, c)
        BY <1>2, <3>3, <3>7 DEF Lack, Own
      <4>2. \A z \in C, t \in Sides :
               h[z] = h[Child(T, z, t)] + Own(T, Child(T, z, t)) + Lack(T, z, Child(T, z, t), a)
        BY <3>2 DEF Level
      <4>3. h \in [C \cup {Leaf} -> Nat] /\ h[Leaf] = 0
        BY <3>2 DEF Level
      <4>4. ASSUME NEW z \in C, NEW t \in Sides
            PROVE  h[z] = h[Child(S, z, t)] + Own(S, Child(S, z, t))
                            + Lack(S, z, Child(S, z, t), NULL)
        <5>1. CASE Child(T, z, t) = a
          <6>1. IsRed(T, a)
            BY <1>1, <3>3, <5>1 DEF Linked
          <6>2. Own(T, a) = 0 /\ Own(S, a) = 1
            BY <1>2, <3>3, <3>7, <6>1 DEF Own
          <6> QED
            BY <3>3, <3>7, <4>1, <4>2, <4>3, <5>1, <6>2
        <5>2. CASE Child(T, z, t) # a
          BY <3>7, <4>1, <4>2, <5>2
        <5> QED
          BY <5>1, <5>2
      <4> QED
        BY <4>3, <4>4 DEF Level
    <3> QED
      BY <3>5, <3>6, <3>8, <3>9, <3>10
  <2> QED
    BY <2>1, <2>2
<1> HIDE DEF S
<1>4. /\ Linked(R, C) /\ Sorted(R, C, D) /\ R.root = S.root
      /\ \A z \in C \cup {Leaf}, t \in Sides : Child(R, z, t) = Child(S, z, t)
      /\ \A z \in C \cup {Leaf} : Parent(R, z) = Parent(S, z) /\ IsRed(R, z) = IsRed(S, z)
      /\ R.node[k] = Freed
      /\ \A z \in Cells : z # k => R.node[z] = S.node[z]
  BY <1>3, FreeKeeps
<1> HIDE DEF R
<1>5. PICK h : Level(S, C, h, NULL)
  BY <1>3
<1>6. \A z \in C, t \in Sides : Child(S, z, t) \in C \cup {Leaf}
  BY <1>3 DEF Linked
<1>7. Level(R, C, h, NULL)
  BY <1>4, <1>5, <1>6 DEF Level, Lack, Own
<1>8. Colored(R, C, "idle", Leaf)
  <2>1. R.root \in C \cup {Leaf}
    BY <1>4 DEF Linked
  <2> QED
    BY <1>3, <1>4, <1>6, <2>1 DEF Colored
<1>9. Good(R, C, "idle", Leaf)
  BY <1>4, <1>7, <1>8 DEF Good, HoleOf, Standing
<1> QED
  BY <1>3, <1>4, <1>9 DEF R, S, Elsewhere, Ended

-----------------------------------------------------------------------------
(* Ways down. *)

\* What is below a child is below its parent, which is not among it.
LEMMA Below ==
    ASSUME NEW T, NEW C, NEW D, Linked(T, C), Sorted(T, C, D), NEW x \in C, NEW s \in Sides
    PROVE  D[Child(T, x, s)] \subseteq D[x] /\ x \in D[x] /\ x \notin D[Child(T, x, s)]
<1>1. x \in D[x] /\ x \notin D[Child(T, x, s)] /\ D[Child(T, x, s)] \subseteq C
  BY Apart
<1>2. ASSUME NEW z \in D[Child(T, x, s)]
      PROVE  z \in D[x]
  <2>1. z \in C
    BY <1>1
  <2> QED
    BY <2>1 DEF Sorted
<1> QED
  BY <1>1, <1>2

\* A set of nodes that is not empty has one whose children are outside it.
LEMMA Lowest ==
    ASSUME NEW T, NEW C, NEW D, Linked(T, C), Sorted(T, C, D), IsFiniteSet(C),
           NEW B \in SUBSET C, B # {}
    PROVE  \E x \in B : \A s \in Sides : Child(T, x, s) \notin B
<1> DEFINE S == {D[x] : x \in B}
           R == StrictSubsetOrdering(C)
<1>1. IsWellFoundedOn(R, FiniteSubsetsOf(C))
  BY FS_StrictSubsetOrderingWellFounded
<1>2. \A x \in B : D[x] \in SUBSET C
  BY Apart
<1>3. S \subseteq FiniteSubsetsOf(C) /\ S # {}
  BY <1>2, FS_Subset DEF FiniteSubsetsOf
<1>4. \E m \in S : \A y \in S : <<y, m>> \notin R
  <2> HIDE DEF R, S
  <2> QED
    BY <1>1, <1>3, WFMin
<1>5. PICK x \in B : \A y \in S : <<y, D[x]>> \notin R
  BY <1>4
<1>6. ASSUME NEW s \in Sides, Child(T, x, s) \in B
      PROVE  FALSE
  <2>1. D[Child(T, x, s)] \subseteq D[x] /\ x \in D[x] /\ x \notin D[Child(T, x, s)]
    BY Below
  <2>2. <<D[Child(T, x, s)], D[x]>> \in R
    BY <1>2, <1>6, <2>1 DEF StrictSubsetOrdering
  <2> QED
    BY <1>5, <1>6, <2>2
<1> QED
  BY <1>6

\* Induction over the natural numbers, as a fact about sets.
LEMMA SetInduction ==
    ASSUME NEW T \in SUBSET Nat, 0 \in T, \A n \in T : n + 1 \in T
    PROVE  T = Nat
<1>1. SUFFICES ASSUME T # Nat PROVE FALSE
  OBVIOUS
<1> DEFINE U == Nat \ T
           R == {ss \in Nat \X Nat : ss[1] < ss[2]}
<1>2. U # {} /\ U \subseteq Nat
  BY <1>1
<1>3. IsWellFoundedOn(R, Nat)
  BY NatLessThanWellFounded DEF OpToRel
<1>4. \E x \in U : \A y \in U : <<y, x>> \notin R
  <2> HIDE DEF R
  <2> QED
    BY <1>2, <1>3, WFMin
<1>5. PICK x \in U : \A y \in U : <<y, x>> \notin R
  BY <1>4
<1>6. \A y \in U : ~(y < x)
  BY <1>5
<1>7. x # 0 /\ x - 1 \in Nat /\ x - 1 \in T
  BY <1>6
<1> QED
  BY <1>7

\* f gives the node where following `next` ends.
Ends(C, next, f) == \A x \in C : f[x] = IF next[x] = Leaf THEN x ELSE f[next[x]]

\* Following `next` from a node to a child of it comes to an end, so that the
\* function of the node it ends at exists.
LEMMA WayDown ==
    ASSUME NEW T, NEW C, NEW D, Linked(T, C), Sorted(T, C, D), IsFiniteSet(C),
           NEW next \in [C -> C \cup {Leaf}],
           \A x \in C : next[x] # Leaf => \E s \in Sides : next[x] = Child(T, x, s)
    PROVE  \E f \in [C -> C] : Ends(C, next, f)
<1> DEFINE Low(n) == {x \in C : Cardinality(D[x]) <= n}
           Done == {n \in Nat : \E f \in [Low(n) -> C] : Ends(Low(n), next, f)}
<1>1. \A x \in C : D[x] \subseteq C /\ IsFiniteSet(D[x]) /\ Cardinality(D[x]) \in Nat
                   /\ Cardinality(D[x]) <= Cardinality(C) /\ x \in D[x]
  BY Apart, FS_Subset, FS_CardinalityType
<1>2. Cardinality(C) \in Nat
  BY FS_CardinalityType
<1>3. ASSUME NEW x \in C, next[x] # Leaf
      PROVE  next[x] \in C /\ Cardinality(D[next[x]]) < Cardinality(D[x])
  <2>1. PICK s \in Sides : next[x] = Child(T, x, s)
    BY <1>3
  <2>2. next[x] \in C
    BY <1>3
  <2>3. D[next[x]] \subseteq D[x] \ {x}
    BY <2>1, Below
  <2>4. IsFiniteSet(D[x] \ {x}) /\ Cardinality(D[x] \ {x}) = Cardinality(D[x]) - 1
    BY <1>1, FS_RemoveElement
  <2>5. Cardinality(D[next[x]]) <= Cardinality(D[x] \ {x})
    BY <2>3, <2>4, FS_Subset
  <2> QED
    BY <1>1, <2>2, <2>4, <2>5
<1>4. 0 \in Done
  <2>1. Low(0) = {}
    <3>1. \A x \in C : Cardinality(D[x]) # 0
      BY <1>1, FS_EmptySet
    <3> QED
      BY <1>1, <3>1
  <2>2. [x \in {} |-> x] \in [{} -> C] /\ Ends({}, next, [x \in {} |-> x])
    BY DEF Ends
  <2> HIDE DEF Low
  <2> QED
    BY <2>1, <2>2
<1>5. ASSUME NEW n \in Done
      PROVE  n + 1 \in Done
  <2>1. PICK f \in [Low(n) -> C] : Ends(Low(n), next, f)
    BY <1>5
  <2> DEFINE g == [x \in Low(n + 1) |-> IF next[x] = Leaf THEN x ELSE f[next[x]]]
  <2>2. ASSUME NEW x \in Low(n + 1), next[x] # Leaf
        PROVE  next[x] \in Low(n)
    <3>1. x \in C /\ Cardinality(D[x]) <= n + 1 /\ n \in Nat
      OBVIOUS
    <3>2. next[x] \in C /\ Cardinality(D[next[x]]) < Cardinality(D[x])
      BY <1>3, <2>2, <3>1
    <3>3. Cardinality(D[next[x]]) <= n
      BY <1>1, <3>1, <3>2
    <3> QED
      BY <3>2, <3>3
  <2>3. \A x \in Low(n) : x \in Low(n + 1)
    BY <1>1
  <2>3a. n + 1 \in Nat /\ Low(n + 1) \subseteq C
    OBVIOUS
  <2> HIDE DEF Low
  <2>4. g \in [Low(n + 1) -> C]
    BY <2>1, <2>2, <2>3a
  <2>5. \A x \in Low(n) : g[x] = f[x]
    BY <2>1, <2>3 DEF Ends
  <2>6. Ends(Low(n + 1), next, g)
    BY <2>2, <2>3, <2>5 DEF Ends
  <2> QED
    BY <2>3a, <2>4, <2>6
<1>6. Done = Nat
  <2>1. Done \in SUBSET Nat
    OBVIOUS
  <2> HIDE DEF Done
  <2> QED
    BY <1>4, <1>5, <2>1, SetInduction
<1>7. Low(Cardinality(C)) = C
  BY <1>1
<1>8. Cardinality(C) \in Done
  BY <1>2, <1>6
<1> QED
  BY <1>7, <1>8

-----------------------------------------------------------------------------
(* Look-ups. *)

\* The side of x on which k belongs
Toward(k, x) == IF k < x THEN "left" ELSE "right"

\* p is k's place among the nodes B: k itself, or the node whose free side k
\* belongs on, so that k comes next to p in the order.
Place(T, B, k, p) ==
    /\ p \in B
    /\ k \in B => p = k
    /\ \A u \in B : u # p => (u < k <=> u < p)
    /\ p # k => Child(T, p, Toward(k, p)) = Leaf

\* The side on which a key belongs is that of the order.
LEMMA TowardLess ==
    ASSUME NEW k \in Int, NEW x \in Int, k # x
    PROVE  Toward(k, x) \in Sides /\ Less(Toward(k, x), k, x)
  BY DEF Toward, Less, Sides

\* The place found below a child is the place below the node.
LEMMA PlaceUp ==
    ASSUME NEW T, NEW C, NEW D, Linked(T, C), Sorted(T, C, D), NEW k \in Keys, NEW x \in C,
           k # x, NEW c, c = Child(T, x, Toward(k, x)),
           NEW p, c = Leaf => p = x, c # Leaf => Place(T, D[c], k, p)
    PROVE  Place(T, D[x], k, p)
<1> DEFINE s == Toward(k, x)
           d == Child(T, x, Other(s))
<1>1. k \in Int /\ x \in Int /\ C \subseteq Int
  BY TreeAssumption, Apart
<1>2. s \in Sides /\ Less(s, k, x)
  BY <1>1, TowardLess
<1>3. Other(s) \in Sides /\ Other(Other(s)) = s
  BY <1>2, TwoSides
<1>4. c \in C \cup {Leaf} /\ d \in C \cup {Leaf} /\ D[c] \subseteq C /\ D[d] \subseteq C
  BY <1>2, <1>3, Apart DEF Linked
<1>5. \A z \in C : z \in D[x] <=> z = x \/ z \in D[c] \/ z \in D[d]
  BY <1>2 DEF Sorted
<1>6. D[x] \subseteq C
  BY Apart
<1>7. \A z \in D[c] : Less(s, z, x)
  BY <1>2 DEF Sorted
<1>8. \A z \in D[d] : Less(Other(s), z, x)
  BY <1>3 DEF Sorted
<1>9. ASSUME NEW z \in D[d]
      PROVE  z # k /\ \A y \in Int : (y = x \/ Less(s, y, x)) => (z < k <=> z < y)
  <2>1. z \in Int /\ Less(s, x, z)
    BY <1>1, <1>2, <1>4, <1>8, SidesOrder
  <2> QED
    BY <1>1, <1>2, <2>1 DEF Less
<1>10. \A y \in Int : Less(s, y, x) => (x < k <=> x < y)
  BY <1>1, <1>2 DEF Less
<1>11. CASE c = Leaf
  <2>1. p = x /\ D[c] = {}
    BY <1>11 DEF Sorted
  <2>2. \A u \in D[x] : u = x \/ u \in D[d]
    BY <1>5, <1>6, <2>1
  <2> HIDE DEF s, d
  <2>3. Child(T, p, Toward(k, p)) = Leaf
    BY <1>11, <2>1
  <2>4. p \in D[x]
    BY <2>1, Apart
  <2>5. k \notin D[x]
    BY <1>9, <2>2
  <2>6. \A u \in D[x] : u # p => (u < k <=> u < p)
    BY <1>1, <1>9, <2>1, <2>2
  <2> QED
    BY <2>3, <2>4, <2>5, <2>6 DEF Place
<1>12. CASE c # Leaf
  <2>1. /\ p \in D[c]
        /\ k \in D[c] => p = k
        /\ \A u \in D[c] : u # p => (u < k <=> u < p)
        /\ p # k => Child(T, p, Toward(k, p)) = Leaf
    BY <1>12 DEF Place
  <2>2. p \in Int /\ Less(s, p, x) /\ p \in D[x]
    BY <1>1, <1>4, <1>5, <1>7, <2>1
  <2> HIDE DEF s, d
  <2>3. k \in D[x] => p = k
    BY <1>5, <1>6, <1>9, <2>1
  <2>4. \A u \in D[x] : u # p => (u < k <=> u < p)
    BY <1>5, <1>6, <1>9, <1>10, <2>1, <2>2
  <2> QED
    BY <2>1, <2>2, <2>3, <2>4 DEF Place
<1> QED
  BY <1>11, <1>12

\* rbtree_fast_get comes to the key's place.
LEMMA SearchFinds ==
    ASSUME NEW T, NEW C, NEW D, Linked(T, C), Sorted(T, C, D), IsFiniteSet(C),
           C = InMemory(T), T.root # Leaf, NEW k \in Keys
    PROVE  Place(T, C, k, Search(T, k))
<1> DEFINE stop(x) == k = x \/ Child(T, x, Toward(k, x)) = Leaf
           go == CHOOSE f : f = [x \in InMemory(T) |->
                       IF k = x \/ Child(T, x, IF k < x THEN "left" ELSE "right") = Leaf THEN x
                       ELSE f[Child(T, x, IF k < x THEN "left" ELSE "right")]]
           next == [x \in C |-> IF stop(x) THEN Leaf ELSE Child(T, x, Toward(k, x))]
<1>1. Search(T, k) = go[T.root]
  BY DEF Search
<1>2. \A x \in C : Toward(k, x) \in Sides
  BY DEF Toward, Sides
<1>3. next \in [C -> C \cup {Leaf}]
  BY <1>2 DEF Linked
<1>4. \A x \in C : next[x] # Leaf => \E s \in Sides : next[x] = Child(T, x, s)
  BY <1>2
<1>5. PICK f \in [C -> C] : Ends(C, next, f)
  <2> HIDE DEF next
  <2> QED
    BY <1>3, <1>4, WayDown
<1>6. \A x \in C : f[x] = IF stop(x) THEN x ELSE f[Child(T, x, Toward(k, x))]
  BY <1>5 DEF Ends
<1>7. f = [x \in InMemory(T) |->
              IF k = x \/ Child(T, x, IF k < x THEN "left" ELSE "right") = Leaf THEN x
              ELSE f[Child(T, x, IF k < x THEN "left" ELSE "right")]]
  BY <1>5, <1>6 DEF Toward
<1>8. go = [x \in InMemory(T) |->
              IF k = x \/ Child(T, x, IF k < x THEN "left" ELSE "right") = Leaf THEN x
              ELSE go[Child(T, x, IF k < x THEN "left" ELSE "right")]]
  BY <1>7
<1> HIDE DEF go
<1>9. \A x \in C : go[x] = IF stop(x) THEN x ELSE go[Child(T, x, Toward(k, x))]
  BY <1>8 DEF Toward
<1>10. \A x \in C : Place(T, D[x], k, go[x])
  <2> DEFINE B == {x \in C : ~Place(T, D[x], k, go[x])}
  <2>1. SUFFICES ASSUME B # {} PROVE FALSE
    OBVIOUS
  <2>2. PICK x \in B : \A s \in Sides : Child(T, x, s) \notin B
    <3> HIDE DEF B
    <3>1. B \in SUBSET C
      BY DEF B
    <3> QED
      BY <2>1, <3>1, Lowest
  <2>3. x \in C /\ ~Place(T, D[x], k, go[x])
    OBVIOUS
  <2>4. CASE k = x
    <3>1. go[x] = k /\ k \in D[x]
      BY <1>9, <2>3, <2>4, Apart
    <3> QED
      BY <2>3, <3>1 DEF Place
  <2>5. CASE k # x
    <3> DEFINE c == Child(T, x, Toward(k, x))
    <3>1. c = Leaf => go[x] = x
      BY <1>9, <2>3
    <3>2. c # Leaf => c \in C /\ go[x] = go[c]
      BY <1>2, <1>9, <2>3, <2>5 DEF Linked
    <3>3. c # Leaf => Place(T, D[c], k, go[x])
      BY <1>2, <2>2, <2>3, <3>2
    <3> HIDE DEF c
    <3>4. c = Child(T, x, Toward(k, x))
      BY DEF c
    <3> QED
      BY <2>3, <2>5, <3>1, <3>3, <3>4, PlaceUp
  <2> QED
    BY <2>4, <2>5
<1>11. T.root \in C /\ D[T.root] = C
  BY DEF Linked, Sorted
<1> HIDE DEF stop, next
<1> QED
  BY <1>1, <1>10, <1>11

\* The key is found just when it is in the tree.
LEMMA HasFinds ==
    ASSUME NEW T, NEW C, NEW D, Linked(T, C), Sorted(T, C, D), IsFiniteSet(C),
           C = InMemory(T), NEW k \in Keys
    PROVE  Has(T, k) <=> k \in C
<1>1. CASE T.root = Leaf
  BY <1>1 DEF Has, Linked
<1>2. CASE T.root # Leaf
  <2>1. Place(T, C, k, Search(T, k))
    BY <1>2, SearchFinds
  <2> QED
    BY <1>2, <2>1 DEF Has, Place
<1> QED
  BY <1>1, <1>2

-----------------------------------------------------------------------------
(* The node that comes next. *)

\* What is below a child is all on one side of the rest.
LEMMA Outside ==
    ASSUME NEW T, NEW C, NEW D, Linked(T, C), Sorted(T, C, D), NEW y \in C, NEW t \in Sides,
           NEW z \in D[y], z \notin D[Child(T, y, t)],
           NEW a \in D[Child(T, y, t)], NEW b \in D[Child(T, y, t)]
    PROVE  z < a <=> z < b
<1>1. C \subseteq Int /\ D[Child(T, y, t)] \subseteq C /\ D[y] \subseteq C
  BY Apart
<1>2. Less(t, a, y) /\ Less(t, b, y) /\ a \in Int /\ b \in Int /\ z \in Int /\ y \in Int
  BY <1>1 DEF Sorted
<1>3. z = y \/ Less(Other(t), z, y)
  <2>1. z = y \/ z \in D[Child(T, y, Other(t))]
    BY <1>1 DEF Sorted
  <2> QED
    BY <2>1, TwoSides DEF Sorted
<1>4. z = y \/ Less(t, y, z)
  BY <1>2, <1>3, SidesOrder
<1> QED
  BY <1>2, <1>4 DEF Less

\* s is the first of the nodes B.
First(T, B, s) ==
    /\ s \in B /\ Child(T, s, "left") = Leaf
    /\ \A u \in B : u # s => s < u

\* The last node on the way to the left is the first below x.
LEMMA LeftmostFirst ==
    ASSUME NEW T, NEW C, NEW D, Linked(T, C), Sorted(T, C, D), IsFiniteSet(C),
           C = InMemory(T), NEW x \in C
    PROVE  First(T, D[x], Leftmost(T, x))
<1> DEFINE go == CHOOSE f : f = [y \in InMemory(T) |->
                       IF Child(T, y, "left") = Leaf THEN y ELSE f[Child(T, y, "left")]]
           next == [y \in C |-> Child(T, y, "left")]
<1>1. Leftmost(T, x) = go[x]
  BY DEF Leftmost
<1>2. "left" \in Sides /\ "right" \in Sides /\ Other("left") = "right"
  BY TwoSides
<1>3. next \in [C -> C \cup {Leaf}] /\ \A y \in C : \E s \in Sides : next[y] = Child(T, y, s)
  BY <1>2 DEF Linked
<1>4. PICK f \in [C -> C] : Ends(C, next, f)
  <2> HIDE DEF next
  <2> QED
    BY <1>3, WayDown
<1>5. f = [y \in InMemory(T) |->
              IF Child(T, y, "left") = Leaf THEN y ELSE f[Child(T, y, "left")]]
  BY <1>4 DEF Ends
<1>6. go = [y \in InMemory(T) |->
              IF Child(T, y, "left") = Leaf THEN y ELSE go[Child(T, y, "left")]]
  BY <1>5
<1> HIDE DEF go
<1>7. \A y \in C : go[y] = IF Child(T, y, "left") = Leaf THEN y ELSE go[Child(T, y, "left")]
  BY <1>6
<1>8. \A y \in C : First(T, D[y], go[y])
  <2> DEFINE B == {y \in C : ~First(T, D[y], go[y])}
  <2>1. SUFFICES ASSUME B # {} PROVE FALSE
    OBVIOUS
  <2>2. PICK y \in B : \A s \in Sides : Child(T, y, s) \notin B
    <3> HIDE DEF B
    <3>1. B \in SUBSET C
      BY DEF B
    <3> QED
      BY <2>1, <3>1, Lowest
  <2>3. y \in C /\ ~First(T, D[y], go[y])
    OBVIOUS
  <2> DEFINE c == Child(T, y, "left")
             d == Child(T, y, "right")
  <2>4. c # Leaf => First(T, D[c], go[y])
    <3>1. c # Leaf => c \in C /\ go[y] = go[c]
      BY <1>2, <1>7, <2>3 DEF Linked
    <3> QED
      BY <1>2, <2>2, <3>1
  <2>5. c = Leaf => go[y] = y /\ D[c] = {}
    BY <1>7, <2>3 DEF Sorted
  <2>6. D[c] \subseteq C /\ D[d] \subseteq C /\ D[y] \subseteq C /\ C \subseteq Int /\ y \in D[y]
    BY <1>2, <2>3, Apart
  <2>7. \A z \in C : z \in D[y] <=> z = y \/ z \in D[c] \/ z \in D[d]
    BY <1>2, <2>3 DEF Sorted
  <2>8. (\A z \in D[c] : z < y) /\ (\A z \in D[d] : y < z)
    BY <1>2, <2>3 DEF Sorted, Less
  <2> HIDE DEF c, d, B
  <2>9. CASE c = Leaf
    BY <2>3, <2>5, <2>6, <2>7, <2>8, <2>9 DEF First, c
  <2>10. CASE c # Leaf
    <3>1. go[y] \in D[c] /\ Child(T, go[y], "left") = Leaf /\ \A u \in D[c] : u # go[y] => go[y] < u
      BY <2>4, <2>10 DEF First
    <3>2. go[y] \in D[y] /\ go[y] < y /\ go[y] \in Int /\ y \in Int
      BY <2>3, <2>6, <2>7, <2>8, <3>1
    <3>3. ASSUME NEW u \in D[y], u # go[y]
          PROVE  go[y] < u
      <4>1. u = y \/ u \in D[c] \/ y < u
        BY <2>6, <2>7, <2>8
      <4> QED
        BY <2>6, <3>1, <3>2, <3>3, <4>1
    <3> QED
      BY <2>3, <3>1, <3>2, <3>3 DEF First
  <2> QED
    BY <2>9, <2>10
<1> QED
  BY <1>1, <1>8

\* No node is between a node and the first of those to the right of it.
LEMMA NextInOrder ==
    ASSUME NEW T, NEW C, NEW D, Linked(T, C), Sorted(T, C, D), IsFiniteSet(C),
           NEW x \in C, NEW s, First(T, D[Child(T, x, "right")], s)
    PROVE  /\ s \in C /\ x < s
           /\ \A z \in C : z # x /\ z # s => (z < s <=> z < x)
           /\ \A y \in C : x \in D[y] => s \in D[y] \ {y}
<1> DEFINE Q(y) == x \in D[y] => /\ s \in D[y] \ {y}
                                 /\ \A z \in D[y] : z # x /\ z # s => (z < s <=> z < x)
<1>1. "left" \in Sides /\ "right" \in Sides /\ Other("left") = "right" /\ Other("right") = "left"
      /\ C \subseteq Int
  BY TwoSides, Apart
<1>2. s \in D[Child(T, x, "right")] /\ s \in C /\ x < s
      /\ \A u \in D[Child(T, x, "right")] : u # s => s < u
  <2>1. s \in D[Child(T, x, "right")] /\ \A u \in D[Child(T, x, "right")] : u # s => s < u
    BY DEF First
  <2> QED
    <3>1. D[Child(T, x, "right")] \subseteq C
      BY <1>1, Apart
    <3>2. Less("right", s, x)
      BY <1>1, <2>1 DEF Sorted
    <3> QED
      BY <2>1, <3>1, <3>2 DEF Less
<1>3. Q(x)
  <2>1. s \in D[x] \ {x}
    BY <1>1, <1>2, Below
  <2>2. ASSUME NEW z \in D[x], z # x, z # s
        PROVE  z < s <=> z < x
    <3>1. z \in C
      BY Apart
    <3>2. z \in D[Child(T, x, "right")] \/ z \in D[Child(T, x, "left")]
      BY <1>1, <2>2, <3>1 DEF Sorted
    <3>3. z \in D[Child(T, x, "left")] => z < x
      BY <1>1 DEF Sorted, Less
    <3>4. z \in D[Child(T, x, "right")] => x < z
      BY <1>1 DEF Sorted, Less
    <3>5. z \in Int /\ x \in Int /\ s \in Int
      BY <1>1, <1>2, <3>1
    <3> QED
      BY <1>2, <2>2, <3>2, <3>3, <3>4, <3>5
  <2> QED
    BY <2>1, <2>2
<1>4. \A y \in C : Q(y)
  <2> DEFINE B == {y \in C : ~Q(y)}
  <2>1. SUFFICES ASSUME B # {} PROVE FALSE
    OBVIOUS
  <2>2. PICK y \in B : \A t \in Sides : Child(T, y, t) \notin B
    <3> HIDE DEF B
    <3>1. B \in SUBSET C
      BY DEF B
    <3> QED
      BY <2>1, <3>1, Lowest
  <2>3. y \in C /\ ~Q(y)
    OBVIOUS
  <2>4. y # x /\ x \in D[y]
    BY <1>3, <2>3
  <2>5. PICK t \in Sides : x \in D[Child(T, y, t)]
    BY <1>1, <2>3, <2>4 DEF Sorted
  <2> DEFINE c == Child(T, y, t)
  <2>6. c \in C
    BY <2>3, <2>5 DEF Linked, Sorted
  <2>7. Q(c)
    BY <2>2, <2>6
  <2> HIDE DEF B
  <2>8. s \in D[c] /\ s \in D[y] /\ s # y
    BY <2>3, <2>5, <2>7, Below
  <2>9. ASSUME NEW z \in D[y], z # x, z # s
        PROVE  z < s <=> z < x
    <3>1. CASE z \in D[c]
      BY <2>5, <2>7, <2>9, <3>1
    <3>2. CASE z \notin D[c]
      <4> HIDE DEF Q
      <4>1. x \in D[c] /\ c = Child(T, y, t)
        BY <2>5
      <4> HIDE DEF c
      <4> QED
        BY <2>3, <2>8, <3>2, <4>1, Outside
    <3> QED
      BY <3>1, <3>2
  <2> QED
    BY <2>3, <2>8, <2>9
<1>5. ASSUME NEW z \in C, z # x, z # s
      PROVE  z < s <=> z < x
  <2>1. T.root \in C /\ D[T.root] = C
    BY DEF Linked, Sorted
  <2> QED
    BY <1>4, <1>5, <2>1
<1> QED
  BY <1>2, <1>4, <1>5

-----------------------------------------------------------------------------
(* Insertion. *)

\* Writing a whole node changes no other.
NodeSet(T, R, y, new) ==
    /\ R \in Trees /\ R.root = T.root /\ R.node[y] = new
    /\ \A z \in Cells : z # y => R.node[z] = T.node[z]

\* Writing a whole node changes no other.
LEMMA NodeWritten ==
    ASSUME NEW T \in Trees, NEW y \in Cells, NEW new \in Node
    PROVE  NodeSet(T, [T EXCEPT !.node[y] = new], y, new)
  BY DEF Trees, NodeSet

\* R is T with the new red leaf k on side t of p.
Grown(T, R, C, k, p, t) ==
    /\ R \in Trees /\ R.root = T.root
    /\ \A s \in Sides : Child(R, k, s) = Leaf
    /\ Parent(R, k) = p /\ IsRed(R, k)
    /\ \A z \in C, s \in Sides : Child(R, z, s) = IF z = p /\ s = t THEN k ELSE Child(T, z, s)
    /\ \A z \in C \cup {Leaf} : Parent(R, z) = Parent(T, z) /\ IsRed(R, z) = IsRed(T, z)
    /\ \A z \in Cells : z \notin C \cup {k} => R.node[z] = T.node[z]

\* The first node of a tree
LEMMA FirstInserted ==
    ASSUME NEW T, NEW C, NEW D, Linked(T, C), Sorted(T, C, D), ~IsRed(T, Leaf), T.root = Leaf,
           NEW k \in Keys
    PROVE  /\ Good(Inserted(T, k), C \cup {k}, "set", k)
           /\ \A z \in Cells : z # k => Inserted(T, k).node[z] = T.node[z]
<1> DEFINE new == [parent |-> NULL, left |-> Leaf, right |-> Leaf, red |-> FALSE]
           U == [T EXCEPT !.node[k] = new]
           R == [U EXCEPT !.root = k]
           E == [y \in {k, Leaf} |-> IF y = k THEN {k} ELSE {}]
           h == [y \in {k, Leaf} |-> IF y = k THEN 1 ELSE 0]
<1>1. Inserted(T, k) = R
  BY DEF Inserted
<1>2. C = {} /\ T \in Trees /\ k \in Cells /\ k # Leaf /\ k \in Int /\ C \cup {k} = {k}
  BY TreeAssumption DEF Linked, Cells
<1>3. new \in Node
  BY DEF Node, Link
<1>4. NodeSet(T, U, k, new)
  <2> HIDE DEF new
  <2> QED
    BY <1>2, <1>3, NodeWritten
<1>5. R \in Trees /\ R.root = k /\ R.node = U.node
  <2>1. U \in Trees
    BY <1>4 DEF NodeSet
  <2> HIDE DEF U
  <2> QED
    BY <1>2, <2>1, RootWritten
<1> HIDE DEF R, U
<1>6. \A s \in Sides : Child(R, k, s) = Leaf
  BY <1>4, <1>5 DEF NodeSet, Child, Sides
<1>7. IsRed(R, k) = FALSE /\ IsRed(R, Leaf) = IsRed(T, Leaf)
  <2>1. R.node[k] = new /\ R.node[Leaf] = T.node[Leaf]
    BY <1>2, <1>4, <1>5 DEF NodeSet, Cells
  <2> QED
    BY <2>1 DEF IsRed
<1> HIDE DEF new
<1>8. Linked(R, {k})
  BY <1>2, <1>5, <1>6 DEF Linked
<1>9. Sorted(R, {k}, E)
  <2>1. E \in [{k} \cup {Leaf} -> SUBSET {k}] /\ E[Leaf] = {} /\ E[k] = {k}
    BY <1>2
  <2> HIDE DEF E
  <2> QED
    BY <1>5, <1>6, <2>1, TwoSides DEF Sorted
<1>10. Level(R, {k}, h, NULL)
  <2>1. h \in [{k} \cup {Leaf} -> Nat] /\ h[Leaf] = 0 /\ h[k] = 1
    BY <1>2
  <2>2. Lack(R, k, Leaf, NULL) = 0
    BY TreeAssumption DEF Lack
  <2>3. Own(R, Leaf) = 1
    BY <1>7 DEF Own
  <2> HIDE DEF h
  <2> QED
    BY <1>6, <2>1, <2>2, <2>3 DEF Level
<1>11. Colored(R, {k}, "set", k) /\ Standing(R, {k}, "set", k)
  BY <1>5, <1>6, <1>7 DEF Colored, Standing
<1>12. Good(R, {k}, "set", k)
  BY <1>8, <1>9, <1>10, <1>11 DEF Good, HoleOf
<1> QED
  BY <1>1, <1>2, <1>4, <1>5, <1>12 DEF NodeSet

\* What Inserted does to a tree that is not empty.
LEMMA InsertedGrows ==
    ASSUME NEW T, NEW C, NEW D, Linked(T, C), Sorted(T, C, D), T.root # Leaf,
           NEW k \in Keys \ C, NEW p \in C, p = Search(T, k)
    PROVE  Grown(T, Inserted(T, k), C, k, p, Toward(k, p))
<1> DEFINE new == [parent |-> p, left |-> Leaf, right |-> Leaf, red |-> TRUE]
           U == [T EXCEPT !.node[k] = new]
           t == Toward(k, p)
           R == WithChild(U, p, t, k)
<1>1. /\ T \in Trees /\ k \in Cells /\ p \in Cells /\ k \in Link /\ p \in Link /\ k # Leaf /\ p # k
      /\ p # NULL /\ C \cup {Leaf} \subseteq Cells /\ p # Leaf
  BY Apart, TreeAssumption DEF Linked, Cells, Link
<1>2. Inserted(T, k) = R
  BY <1>1 DEF Inserted, Toward
<1>3. new \in Node
  BY <1>1 DEF Node, Link
<1>4. NodeSet(T, U, k, new)
  <2> HIDE DEF new
  <2> QED
    BY <1>1, <1>3, NodeWritten
<1>5. t \in Sides
  BY DEF Toward, Sides
<1>6. ChildSet(U, R, p, t, k)
  <2>1. U \in Trees
    BY <1>4 DEF NodeSet
  <2> HIDE DEF U, t
  <2> QED
    BY <1>1, <1>5, <2>1, ChildWritten
<1> HIDE DEF R, U, t
<1>7. /\ \A s \in Sides : Child(U, k, s) = Leaf
      /\ Parent(U, k) = p /\ IsRed(U, k)
  BY <1>4 DEF NodeSet, Child, Sides, Parent, IsRed
<1>8. \A z \in Cells : z # k =>
         /\ \A s \in Sides : Child(U, z, s) = Child(T, z, s)
         /\ Parent(U, z) = Parent(T, z) /\ IsRed(U, z) = IsRed(T, z)
  BY <1>4 DEF NodeSet, Child, Parent, IsRed
<1> HIDE DEF new
<1>9. \A z \in C \cup {Leaf} : z # k /\ z \in Cells
  BY <1>1
<1>10. Grown(T, R, C, k, p, t)
  BY <1>1, <1>4, <1>6, <1>7, <1>8, <1>9 DEF Grown, ChildSet, NodeSet
<1> QED
  BY <1>2, <1>10 DEF t

\* The new node is where it belongs.
LEMMA GrownSorted ==
    ASSUME NEW T, NEW C, NEW D, Linked(T, C), Sorted(T, C, D), T.root # Leaf,
           NEW k \in Keys \ C, NEW p, Place(T, C, k, p),
           NEW R, Grown(T, R, C, k, p, Toward(k, p))
    PROVE  Linked(R, C \cup {k}) /\ \E E : Sorted(R, C \cup {k}, E)
<1> DEFINE t == Toward(k, p)
           C1 == C \cup {k}
           E == [y \in C1 \cup {Leaf} |-> IF y = k THEN {k} ELSE
                                            D[y] \cup IF p \in D[y] THEN {k} ELSE {}]
<1>1. /\ C1 \subseteq Int /\ Leaf \notin C1 /\ p \in C /\ p # k /\ C1 \subseteq Keys
      /\ k \in Int /\ p \in Int /\ Child(T, p, t) = Leaf
  <2>1. p \in C /\ p # k /\ Child(T, p, t) = Leaf
    BY DEF Place
  <2>2. C \subseteq Int /\ Leaf \notin C
    BY Apart
  <2>3. C \subseteq Keys
    BY DEF Linked
  <2> QED
    BY <2>1, <2>2, <2>3, TreeAssumption
<1>2. t \in Sides /\ Less(t, k, p)
  BY <1>1, TowardLess
<1> HIDE DEF t
<1>3. /\ R \in Trees /\ R.root = T.root /\ R.root \in C
      /\ \A s \in Sides : Child(R, k, s) = Leaf
      /\ Parent(R, k) = p /\ Child(R, p, t) = k
      /\ \A z \in C, s \in Sides : Child(R, z, s) = IF z = p /\ s = t THEN k ELSE Child(T, z, s)
      /\ \A z \in C \cup {Leaf} : Parent(R, z) = Parent(T, z)
  BY <1>1, <1>2 DEF Grown, Linked, t
<1>4. Linked(R, C1)
  <2>1. ASSUME NEW z \in C1, NEW s \in Sides
        PROVE  /\ Child(R, z, s) \in C1 \cup {Leaf}
               /\ Child(R, z, s) # Leaf =>
                     Child(R, z, s) # R.root /\ Parent(R, Child(R, z, s)) = z
    <3>1. CASE z = k \/ (z = p /\ s = t)
      BY <1>1, <1>3, <3>1
    <3>2. CASE z \in C /\ ~(z = p /\ s = t)
      <4>1. Child(R, z, s) = Child(T, z, s) /\ Child(T, z, s) \in C \cup {Leaf}
        BY <1>3, <3>2 DEF Linked
      <4>2. Child(T, z, s) # Leaf =>
               Child(T, z, s) # T.root /\ Parent(T, Child(T, z, s)) = z
        BY <3>2 DEF Linked
      <4> QED
        BY <1>3, <4>1, <4>2
    <3> QED
      BY <3>1, <3>2
  <2>2. ASSUME NEW z \in C, z # R.root
        PROVE  Parent(R, z) \in C1 /\ \E s \in Sides : Child(R, Parent(R, z), s) = z
    <3>1. PICK s \in Sides : Child(T, Parent(T, z), s) = z
      BY <1>3, <2>2 DEF Linked
    <3>2. Parent(T, z) \in C /\ Parent(R, z) = Parent(T, z) /\ z # Leaf
      BY <1>1, <1>3, <2>2 DEF Linked
    <3>3. Child(R, Parent(T, z), s) = z
      BY <1>1, <1>3, <3>1, <3>2
    <3> QED
      BY <3>2, <3>3
  <2>3. Parent(R, k) \in C1 /\ \E s \in Sides : Child(R, Parent(R, k), s) = k
    BY <1>1, <1>2, <1>3
  <2> QED
    BY <1>1, <1>3, <2>1, <2>2, <2>3 DEF Linked
<1>5. /\ E \in [C1 \cup {Leaf} -> SUBSET C1] /\ E[k] = {k} /\ E[Leaf] = {}
      /\ \A y \in C \cup {Leaf}, w \in C : w \in E[y] <=> w \in D[y]
      /\ \A y \in C \cup {Leaf} : k \in E[y] <=> p \in D[y]
  <2>1. \A y \in C \cup {Leaf} : D[y] \subseteq C
    BY DEF Sorted
  <2>2. D[Leaf] = {}
    BY DEF Sorted
  <2> QED
    BY <1>1, <2>1, <2>2
<1> HIDE DEF E
<1>6. \A z \in C, s \in Sides : Child(T, z, s) \in C \cup {Leaf}
  BY DEF Linked
<1>7. E[R.root] = C1
  <2>1. D[T.root] = C
    BY DEF Sorted
  <2>2. E[R.root] \subseteq C1
    BY <1>3, <1>5
  <2> QED
    BY <1>1, <1>3, <1>5, <2>1, <2>2
<1>8. ASSUME NEW z \in C, NEW s \in Sides, NEW w \in C
      PROVE  w \in E[Child(R, z, s)] <=> w \in D[Child(T, z, s)]
  <2>1. CASE z = p /\ s = t
    <3>1. Child(R, z, s) = k /\ Child(T, z, s) = Leaf
      BY <1>1, <1>3, <2>1
    <3> QED
      BY <1>5, <3>1 DEF Sorted
  <2>2. CASE ~(z = p /\ s = t)
    BY <1>3, <1>5, <1>6, <2>2
  <2> QED
    BY <2>1, <2>2
<1>9. ASSUME NEW z \in C, NEW s \in Sides
      PROVE  k \in E[Child(R, z, s)] <=> (z = p /\ s = t) \/ p \in D[Child(T, z, s)]
  BY <1>3, <1>5, <1>6
<1>10. ASSUME NEW z \in C1, NEW s \in Sides, NEW w \in C1
       PROVE  w \in E[z] <=> w = z \/ w \in E[Child(R, z, s)] \/ w \in E[Child(R, z, Other(s))]
  <2>0. Other(s) \in Sides /\ (t = s \/ t = Other(s))
    BY <1>2, TwoSides
  <2>1. CASE z = k
    BY <1>3, <1>5, <2>0, <2>1
  <2>2. CASE z \in C /\ w \in C
    <3>1. w \in E[z] <=> w \in D[z]
      BY <1>5, <2>2
    <3>2. w \in D[z] <=> w = z \/ w \in D[Child(T, z, s)] \/ w \in D[Child(T, z, Other(s))]
      BY <2>2 DEF Sorted
    <3> QED
      BY <1>8, <2>0, <2>2, <3>1, <3>2
  <2>3. CASE z \in C /\ w = k
    <3>1. k \in E[z] <=> p \in D[z]
      BY <1>5, <2>3
    <3>2. p \in D[z] <=> p = z \/ p \in D[Child(T, z, s)] \/ p \in D[Child(T, z, Other(s))]
      BY <1>1, <2>3 DEF Sorted
    <3>3. k # z
      BY <2>3
    <3> QED
      BY <1>9, <2>0, <2>3, <3>1, <3>2, <3>3
  <2> QED
    BY <2>1, <2>2, <2>3
<1>11. ASSUME NEW z \in C1, NEW s \in Sides, NEW w \in E[Child(R, z, s)]
       PROVE  Less(s, w, z)
  <2>1. z \in C
    BY <1>3, <1>5, <1>11
  <2>2. CASE w \in C
    BY <1>8, <2>1, <2>2 DEF Sorted
  <2>3. CASE w = k /\ z = p /\ s = t
    BY <1>2, <2>3
  <2>4. CASE w = k /\ p \in D[Child(T, z, s)]
    <3>1. Less(s, p, z) /\ z # p /\ z # k
      <4>1. Less(s, p, z)
        BY <2>1, <2>4 DEF Sorted
      <4>2. z # p
        BY <2>1, <2>4, Apart
      <4> QED
        BY <2>1, <4>1, <4>2
    <3>2. z < k <=> z < p
      BY <2>1, <3>1 DEF Place
    <3>3. z \in Int
      BY <1>1
    <3> QED
      BY <1>1, <2>4, <3>1, <3>2, <3>3 DEF Less
  <2>5. w \in C1
    <3>1. Child(R, z, s) \in C1 \cup {Leaf}
      BY <1>4 DEF Linked
    <3> QED
      BY <1>5, <3>1
  <2> QED
    BY <1>9, <2>1, <2>2, <2>3, <2>4, <2>5
<1>12. Sorted(R, C1, E)
  BY <1>5, <1>7, <1>10, <1>11 DEF Sorted
<1> QED
  BY <1>4, <1>12

\* The insertion of a key up to the loop.
LEMMA InsertGood ==
    ASSUME NEW T, NEW C, Good(T, C, "idle", Leaf), IsFiniteSet(C), C = InMemory(T),
           NEW k \in Keys \ C
    PROVE  LET R == Inserted(T, k)
           IN  /\ Good(R, C \cup {k}, "set", k)
               /\ \A z \in Cells : z \notin C \cup {k} => R.node[z] = T.node[z]
<1> DEFINE R == Inserted(T, k)
           p == Search(T, k)
           t == Toward(k, p)
<1>1. PICK D : Linked(T, C) /\ Sorted(T, C, D)
  BY DEF Good
<1>2. PICK h : Level(T, C, h, NULL)
  BY DEF Good, HoleOf
<1>3. ~IsRed(T, Leaf) /\ ~IsRed(T, T.root)
      /\ \A x \in C, s \in Sides : ~(IsRed(T, x) /\ IsRed(T, Child(T, x, s)))
  <2>1. Colored(T, C, "idle", Leaf)
    BY DEF Good
  <2> QED
    BY <2>1 DEF Colored
<1>4. CASE T.root = Leaf
  BY <1>1, <1>3, <1>4, FirstInserted
<1>5. CASE T.root # Leaf
  <2>1. Place(T, C, k, p)
    BY <1>1, <1>5, SearchFinds
  <2>2. Grown(T, R, C, k, p, t)
    <3>1. p \in C
      BY <2>1 DEF Place
    <3> HIDE DEF p
    <3> QED
      BY <1>1, <1>5, <3>1, InsertedGrows DEF p
  <2>3. t \in Sides
    BY DEF Toward, Sides
  <2>4. Child(T, p, t) = Leaf /\ p \in C /\ T.root \in C
    BY <1>1, <1>5, <2>1 DEF Place, Linked
  <2> HIDE DEF R, p
  <2>5. Linked(R, C \cup {k}) /\ \E E : Sorted(R, C \cup {k}, E)
    BY <1>1, <1>5, <2>1, <2>2, GrownSorted
  <2> HIDE DEF t
  <2>6. C \cup {Leaf} \subseteq Cells /\ NULL \notin C \cup {k, Leaf} /\ Leaf \notin C /\ k # Leaf
    BY <1>1, Apart, TreeAssumption
  <2>7. /\ \A s \in Sides : Child(R, k, s) = Leaf
        /\ IsRed(R, k) /\ R.root = T.root
        /\ \A z \in C, s \in Sides : Child(R, z, s) = IF z = p /\ s = t THEN k ELSE Child(T, z, s)
        /\ \A z \in C \cup {Leaf} : IsRed(R, z) = IsRed(T, z)
        /\ \A z \in C, s \in Sides : Child(T, z, s) \in C \cup {Leaf}
    BY <1>1, <2>2 DEF Grown, Linked
  <2>8. Level(R, C \cup {k}, [y \in C \cup {k} \cup {Leaf} |-> IF y = k THEN 1 ELSE h[y]], NULL)
    <3> DEFINE g == [y \in C \cup {k} \cup {Leaf} |-> IF y = k THEN 1 ELSE h[y]]
    <3>1. h \in [C \cup {Leaf} -> Nat] /\ h[Leaf] = 0
      BY <1>2 DEF Level
    <3>2. g \in [C \cup {k} \cup {Leaf} -> Nat] /\ g[Leaf] = 0 /\ g[k] = 1
          /\ \A y \in C \cup {Leaf} : g[y] = h[y]
      BY <2>6, <3>1
    <3> HIDE DEF g
    <3>3. \A z, c \in C \cup {k, Leaf} : Lack(R, z, c, NULL) = 0 /\ Lack(T, z, c, NULL) = 0
      BY <2>6 DEF Lack
    <3>4. Own(R, k) = 0 /\ Own(T, Leaf) = 1 /\ Own(R, Leaf) = 1
          /\ \A z \in C \cup {Leaf} : Own(R, z) = Own(T, z)
      BY <1>3, <2>7 DEF Own
    <3>5. ASSUME NEW z \in C, NEW s \in Sides
          PROVE  g[z] = g[Child(R, z, s)] + Own(R, Child(R, z, s))
                          + Lack(R, z, Child(R, z, s), NULL)
      <4>1. h[z] = h[Child(T, z, s)] + Own(T, Child(T, z, s)) + Lack(T, z, Child(T, z, s), NULL)
        BY <1>2 DEF Level
      <4>2. CASE z = p /\ s = t
        <5>1. h[z] = 1 /\ Child(R, z, s) = k
          BY <2>4, <2>7, <3>1, <3>3, <3>4, <4>1, <4>2
        <5> QED
          BY <3>2, <3>3, <3>4, <5>1
      <4>3. CASE ~(z = p /\ s = t)
        BY <2>7, <3>2, <3>3, <3>4, <4>1, <4>3
      <4> QED
        BY <4>2, <4>3
    <3>6. \A s \in Sides : g[k] = g[Child(R, k, s)] + Own(R, Child(R, k, s))
                                    + Lack(R, k, Child(R, k, s), NULL)
      BY <2>7, <3>2, <3>3, <3>4
    <3> QED
      BY <3>2, <3>5, <3>6 DEF Level, g
  <2>9. Colored(R, C \cup {k}, "set", k)
    <3>1. ~IsRed(R, Leaf) /\ ~IsRed(R, R.root)
      BY <1>3, <2>4, <2>7
    <3>2. ASSUME NEW z \in C \cup {k}, NEW s \in Sides, IsRed(R, z), IsRed(R, Child(R, z, s)),
                 Child(R, z, s) # k
          PROVE  FALSE
      <4>1. z # k
        BY <2>7, <3>1, <3>2
      <4> QED
        BY <1>3, <2>7, <3>2, <4>1
    <3> QED
      BY <3>1, <3>2 DEF Colored
  <2>10. Standing(R, C \cup {k}, "set", k)
    BY <2>7 DEF Standing
  <2>11. Good(R, C \cup {k}, "set", k)
    BY <2>5, <2>8, <2>9, <2>10 DEF Good, HoleOf
  <2> QED
    BY <2>2, <2>11 DEF R, Grown
<1> QED
  BY <1>4, <1>5

-----------------------------------------------------------------------------
(* A node takes the place of another. *)

\* Tree R of the nodes B is tree T of the nodes C but for the nodes' names: sg
\* leads from R to T, b stands for the node a.
Alike(T, C, R, B, sg, b) ==
    /\ R \in Trees /\ B \subseteq Keys /\ Leaf \notin B
    /\ sg \in [B \cup {Leaf} -> C \cup {Leaf}] /\ sg[Leaf] = Leaf
    /\ \A y \in C : \E z \in B : sg[z] = y
    /\ \A y, z \in B \cup {Leaf} : sg[y] = sg[z] => y = z
    /\ \A y, z \in B : y < z <=> sg[y] < sg[z]
    /\ R.root \in B /\ sg[R.root] = T.root
    /\ \A z \in B, s \in Sides :
          Child(R, z, s) \in B \cup {Leaf} /\ sg[Child(R, z, s)] = Child(T, sg[z], s)
    /\ \A z \in B : z # R.root => Parent(R, z) \in B /\ sg[Parent(R, z)] = Parent(T, sg[z])
    /\ \A z \in B \cup {Leaf} : IsRed(R, z) = IsRed(T, sg[z])
    /\ b = Leaf => Parent(R, Leaf) \in B /\ sg[Parent(R, Leaf)] = Parent(T, Leaf)

\* A tree alike to one whose links agree has links that agree.
LEMMA AlikeLinked ==
    ASSUME NEW T, NEW C, NEW D, Linked(T, C), Sorted(T, C, D),
           NEW R, NEW B, NEW sg, NEW b, Alike(T, C, R, B, sg, b)
    PROVE  Linked(R, B)
<1>1. /\ R \in Trees /\ B \subseteq Keys /\ Leaf \notin B /\ R.root \in B /\ sg[R.root] = T.root
      /\ sg[Leaf] = Leaf
      /\ \A z \in B \cup {Leaf} : sg[z] \in C \cup {Leaf}
      /\ \A y, z \in B \cup {Leaf} : sg[y] = sg[z] => y = z
      /\ \A z \in B, s \in Sides :
            Child(R, z, s) \in B \cup {Leaf} /\ sg[Child(R, z, s)] = Child(T, sg[z], s)
      /\ \A z \in B : z # R.root => Parent(R, z) \in B /\ sg[Parent(R, z)] = Parent(T, sg[z])
  BY DEF Alike
<1>2. \A z \in B : sg[z] \in C
  BY <1>1
<1>3. ASSUME NEW z \in B, NEW s \in Sides, Child(R, z, s) # Leaf
      PROVE  Child(R, z, s) # R.root /\ Parent(R, Child(R, z, s)) = z
  <2> DEFINE c == Child(R, z, s)
  <2>1. c \in B /\ sg[c] = Child(T, sg[z], s) /\ sg[c] # Leaf
    BY <1>1, <1>3
  <2>2. sg[c] # T.root /\ Parent(T, sg[c]) = sg[z]
    BY <1>2, <2>1 DEF Linked
  <2>3. c # R.root
    BY <1>1, <2>2
  <2>4. Parent(R, c) \in B /\ sg[Parent(R, c)] = sg[z]
    BY <1>1, <2>1, <2>2, <2>3
  <2>5. Parent(R, c) = z
    BY <1>1, <2>4
  <2> QED
    BY <2>3, <2>5
<1>4. ASSUME NEW z \in B, z # R.root
      PROVE  Parent(R, z) \in B /\ \E s \in Sides : Child(R, Parent(R, z), s) = z
  <2>1. sg[z] \in C /\ sg[z] # T.root
    BY <1>1, <1>2, <1>4
  <2>2. PICK s \in Sides : Child(T, Parent(T, sg[z]), s) = sg[z]
    BY <2>1 DEF Linked
  <2>3. Parent(R, z) \in B /\ sg[Child(R, Parent(R, z), s)] = sg[z]
    BY <1>1, <1>4, <2>2
  <2>4. Child(R, Parent(R, z), s) = z
    BY <1>1, <2>3
  <2> QED
    BY <2>3, <2>4
<1> QED
  BY <1>1, <1>3, <1>4 DEF Linked

\* A tree alike to a sorted one is sorted.
LEMMA AlikeSorted ==
    ASSUME NEW T, NEW C, NEW D, Linked(T, C), Sorted(T, C, D),
           NEW R, NEW B, NEW sg, NEW b, Alike(T, C, R, B, sg, b)
    PROVE  \E E : Sorted(R, B, E)
<1> DEFINE E == [y \in B \cup {Leaf} |-> {w \in B : sg[w] \in D[sg[y]]}]
<1>1. /\ Leaf \notin B /\ R.root \in B /\ sg[R.root] = T.root /\ sg[Leaf] = Leaf
      /\ \A z \in B \cup {Leaf} : sg[z] \in C \cup {Leaf}
      /\ \A y, z \in B \cup {Leaf} : sg[y] = sg[z] => y = z
      /\ \A z \in B, s \in Sides :
            Child(R, z, s) \in B \cup {Leaf} /\ sg[Child(R, z, s)] = Child(T, sg[z], s)
      /\ \A y, z \in B : y < z <=> sg[y] < sg[z]
  BY DEF Alike
<1>2. \A z \in B : sg[z] \in C
  BY <1>1
<1>3. /\ E \in [B \cup {Leaf} -> SUBSET B]
      /\ \A y \in B \cup {Leaf}, w \in B : w \in E[y] <=> sg[w] \in D[sg[y]]
  OBVIOUS
<1> HIDE DEF E
<1>4. E[Leaf] = {}
  BY <1>1, <1>3 DEF Sorted
<1>5. E[R.root] = B
  <2>1. \A w \in B : w \in E[R.root]
    BY <1>1, <1>2, <1>3 DEF Sorted
  <2> QED
    BY <1>1, <1>3, <2>1
<1>6. ASSUME NEW z \in B, NEW s \in Sides, NEW w \in B
      PROVE  w \in E[z] <=> w = z \/ w \in E[Child(R, z, s)] \/ w \in E[Child(R, z, Other(s))]
  <2>1. Other(s) \in Sides
    BY TwoSides
  <2>2. \A d \in Sides : w \in E[Child(R, z, d)] <=> sg[w] \in D[Child(T, sg[z], d)]
    BY <1>1, <1>3
  <2>3. sg[w] \in D[sg[z]] <=> \/ sg[w] = sg[z] \/ sg[w] \in D[Child(T, sg[z], s)]
                               \/ sg[w] \in D[Child(T, sg[z], Other(s))]
    BY <1>2 DEF Sorted
  <2> QED
    BY <1>1, <1>3, <2>1, <2>2, <2>3
<1>7. ASSUME NEW z \in B, NEW s \in Sides, NEW w \in E[Child(R, z, s)]
      PROVE  Less(s, w, z)
  <2>1. w \in B /\ sg[w] \in D[Child(T, sg[z], s)]
    BY <1>1, <1>3
  <2>2. Less(s, sg[w], sg[z])
    BY <1>2, <2>1 DEF Sorted
  <2> QED
    BY <1>1, <2>1, <2>2 DEF Less
<1>8. Sorted(R, B, E)
  BY <1>3, <1>4, <1>5, <1>6, <1>7 DEF Sorted
<1> QED
  BY <1>8

\* A tree alike to a good one is good where the call stands.
LEMMA AlikeGood ==
    ASSUME NEW T, NEW C, NEW m \in {"pop", "popped"}, NEW a, Good(T, C, m, a),
           NEW R, NEW B, NEW sg, NEW b \in B \cup {Leaf}, sg[b] = a, Alike(T, C, R, B, sg, b)
    PROVE  Good(R, B, m, b)
<1>1. PICK D : Linked(T, C) /\ Sorted(T, C, D)
  BY DEF Good
<1>2. PICK h : Level(T, C, h, HoleOf(m, a))
  BY DEF Good
<1>3. /\ Leaf \notin B /\ R.root \in B /\ sg[R.root] = T.root /\ sg[Leaf] = Leaf
      /\ \A z \in B \cup {Leaf} : sg[z] \in C \cup {Leaf}
      /\ \A y, z \in B \cup {Leaf} : sg[y] = sg[z] => y = z
      /\ \A z \in B, s \in Sides :
            Child(R, z, s) \in B \cup {Leaf} /\ sg[Child(R, z, s)] = Child(T, sg[z], s)
      /\ \A z \in B \cup {Leaf} : IsRed(R, z) = IsRed(T, sg[z])
      /\ b = Leaf => Parent(R, Leaf) \in B /\ sg[Parent(R, Leaf)] = Parent(T, Leaf)
  BY DEF Alike
<1>4. \A z \in B : sg[z] \in C
  BY <1>3
<1>5. Leaf \notin C /\ NULL \notin B \cup {Leaf} /\ NULL \notin C
  BY <1>1, Apart, TreeAssumption DEF Alike
<1>6. Linked(R, B)
  BY <1>1, AlikeLinked
<1>7. \E E : Sorted(R, B, E)
  BY <1>1, AlikeSorted
<1>8. Level(R, B, [y \in B \cup {Leaf} |-> h[sg[y]]], HoleOf(m, b))
  <2> DEFINE g == [y \in B \cup {Leaf} |-> h[sg[y]]]
  <2>1. h \in [C \cup {Leaf} -> Nat] /\ h[Leaf] = 0
        /\ \A x \in C, s \in Sides :
              h[x] = h[Child(T, x, s)] + Own(T, Child(T, x, s))
                       + Lack(T, x, Child(T, x, s), HoleOf(m, a))
    BY <1>2 DEF Level
  <2>2. g \in [B \cup {Leaf} -> Nat] /\ g[Leaf] = 0 /\ \A z \in B \cup {Leaf} : g[z] = h[sg[z]]
    BY <1>3, <2>1
  <2> HIDE DEF g
  <2>3. \A z \in B \cup {Leaf} : Own(R, z) = Own(T, sg[z])
    BY <1>3 DEF Own
  <2>4. ASSUME NEW z \in B, NEW c \in B \cup {Leaf}
        PROVE  Lack(R, z, c, HoleOf(m, b)) = Lack(T, sg[z], sg[c], HoleOf(m, a))
    <3>1. CASE m = "popped"
      BY <1>3, <1>5, <3>1 DEF Lack, HoleOf
    <3>2. CASE m = "pop"
      <4>1. c = b <=> sg[c] = a
        BY <1>3
      <4>2. c = Leaf <=> sg[c] = Leaf
        BY <1>3
      <4>3. c = b /\ c = Leaf => (Parent(R, Leaf) = z <=> Parent(T, Leaf) = sg[z])
        BY <1>3
      <4> QED
        BY <3>2, <4>1, <4>2, <4>3 DEF Lack, HoleOf
    <3> QED
      BY <3>1, <3>2
  <2>5. ASSUME NEW z \in B, NEW s \in Sides
        PROVE  g[z] = g[Child(R, z, s)] + Own(R, Child(R, z, s))
                        + Lack(R, z, Child(R, z, s), HoleOf(m, b))
    <3> DEFINE c == Child(R, z, s)
    <3>1. c \in B \cup {Leaf} /\ sg[c] = Child(T, sg[z], s) /\ sg[z] \in C
      BY <1>3, <1>4
    <3>2. h[sg[z]] = h[sg[c]] + Own(T, sg[c]) + Lack(T, sg[z], sg[c], HoleOf(m, a))
      BY <2>1, <3>1
    <3> HIDE DEF c
    <3>3. g[z] = g[c] + Own(R, c) + Lack(R, z, c, HoleOf(m, b))
      BY <2>2, <2>3, <2>4, <3>1, <3>2
    <3> QED
      BY <3>3 DEF c
  <2> QED
    BY <2>2, <2>5 DEF Level, g
<1>9. Colored(R, B, m, b)
  <2>1. Colored(T, C, m, a)
    BY DEF Good
  <2>2. ~IsRed(R, Leaf)
    BY <1>3, <2>1 DEF Colored
  <2>3. IsRed(R, R.root) => m \in {"set", "pop"} /\ b = R.root
    BY <1>3, <2>1 DEF Colored
  <2>4. ASSUME NEW z \in B, NEW s \in Sides, IsRed(R, z), IsRed(R, Child(R, z, s))
        PROVE  m = "pop" /\ b \in {z, Child(R, z, s)}
    <3>1. IsRed(T, sg[z]) /\ IsRed(T, Child(T, sg[z], s)) /\ sg[z] \in C
      BY <1>3, <1>4, <2>4
    <3>2. m = "pop" /\ a \in {sg[z], Child(T, sg[z], s)}
      BY <2>1, <3>1 DEF Colored
    <3>3. a \in {sg[z], sg[Child(R, z, s)]} /\ Child(R, z, s) \in B \cup {Leaf}
      BY <1>3, <3>2
    <3> QED
      BY <1>3, <3>2, <3>3
  <2> QED
    BY <2>2, <2>3, <2>4 DEF Colored
<1>10. Standing(R, B, m, b)
  <2>1. Standing(T, C, m, a)
    BY DEF Good
  <2>2. ASSUME m = "pop", b = Leaf
        PROVE  /\ Parent(R, Leaf) \in B
               /\ \E s \in Sides : /\ Child(R, Parent(R, Leaf), s) = Leaf
                                   /\ Child(R, Parent(R, Leaf), Other(s)) # Leaf
    <3>1. PICK s \in Sides : /\ Child(T, Parent(T, Leaf), s) = Leaf
                             /\ Child(T, Parent(T, Leaf), Other(s)) # Leaf
      BY <1>3, <2>1, <2>2 DEF Standing
    <3>2. Parent(R, Leaf) \in B /\ sg[Parent(R, Leaf)] = Parent(T, Leaf)
      BY <1>3, <2>2
    <3>3. /\ Child(R, Parent(R, Leaf), s) \in B \cup {Leaf}
          /\ sg[Child(R, Parent(R, Leaf), s)] = Leaf
          /\ sg[Child(R, Parent(R, Leaf), Other(s))] # Leaf
      BY <1>3, <3>1, <3>2, TwoSides
    <3> QED
      BY <1>3, <3>2, <3>3
  <2> QED
    BY <1>3, <1>5, <2>2 DEF Standing
<1> QED
  BY <1>6, <1>7, <1>8, <1>9, <1>10 DEF Good

-----------------------------------------------------------------------------
(* Removal. *)

\* R is T without node s: t is where s was, on side q of p.
Spliced(T, R, C, s, p, q, t) ==
    /\ R \in Trees /\ R.root = T.root
    /\ \A z \in C, d \in Sides : Child(R, z, d) = IF z = p /\ d = q THEN t ELSE Child(T, z, d)
    /\ Parent(R, t) = p
    /\ \A z \in C \cup {Leaf} : z # t => Parent(R, z) = Parent(T, z)
    /\ \A z \in Cells : IsRed(R, z) = IsRed(T, z)
    /\ \A z \in Keys : z \notin C => R.node[z] = T.node[z]

\* What SpliceGood and its lemmas assume of the node that leaves its place
Leaving(T, C, s, e, p, q, t) ==
    /\ s \in C /\ s # T.root /\ e \in Sides
    /\ Child(T, s, e) = Leaf /\ t = Child(T, s, Other(e))
    /\ p = Parent(T, s) /\ q = SideOf(T, s)

\* The nodes around one that leaves its place, and the ways into them
LEMMA LeavingNodes ==
    ASSUME NEW T, NEW C, NEW D, Linked(T, C), Sorted(T, C, D),
           NEW s, NEW e, NEW p, NEW q, NEW t, Leaving(T, C, s, e, p, q, t)
    PROVE  /\ s \in C /\ p \in C /\ p # s /\ q \in Sides /\ t \in C \cup {Leaf} /\ t # s /\ t # T.root
           /\ Leaf \notin C /\ T.root \in C /\ Child(T, p, q) = s
           /\ \A z \in C, d \in Sides : Child(T, z, d) = s <=> (z = p /\ d = q)
           /\ \A z \in C, d \in Sides : t # Leaf /\ Child(T, z, d) = t => z = s
           /\ \A d \in Sides : Child(T, s, d) \in {t, Leaf}
           /\ \A w \in C : w # s => (w \in D[s] <=> w \in D[t])
<1>1. s \in C /\ s # T.root /\ e \in Sides /\ Other(e) \in Sides /\ Child(T, s, e) = Leaf
      /\ t = Child(T, s, Other(e)) /\ Leaf \notin C
      /\ \A d \in Sides : d = e \/ d = Other(e)
  BY TwoSides, Apart DEF Leaving
<1>2. p \in C /\ q \in Sides /\ Child(T, p, q) = s
  BY <1>1, OnItsSide DEF Leaving
<1>3. t \in C \cup {Leaf} /\ T.root \in C /\ (t # Leaf => t # T.root)
  BY <1>1 DEF Linked
<1>4. t # s /\ p # s
  BY <1>1, <1>2, Apart
<1>5. \A z \in C, d \in Sides : Child(T, z, d) = s <=> (z = p /\ d = q)
  <2>1. s # Leaf
    BY <1>1
  <2> QED
    BY <1>2, <2>1, Apart
<1>6. \A z \in C, d \in Sides : t # Leaf /\ Child(T, z, d) = t => z = s
  BY <1>1, Apart
<1>7. \A w \in C : w # s => (w \in D[s] <=> w \in D[t])
  BY <1>1 DEF Sorted
<1>8. t # T.root
  BY <1>1, <1>3
<1> QED
  BY <1>1, <1>2, <1>3, <1>4, <1>5, <1>6, <1>7, <1>8

\* The two writes that take a node out and put its child in its place
LEMMA SplicedLinks ==
    ASSUME NEW T, NEW C, NEW D, Linked(T, C), Sorted(T, C, D),
           NEW s, NEW e, NEW p, NEW q, NEW t, Leaving(T, C, s, e, p, q, t)
    PROVE  Spliced(T, WithParent(WithChild(T, p, q, t), t, p), C, s, p, q, t)
<1> DEFINE U == WithChild(T, p, q, t)
           R == WithParent(U, t, p)
<1>1. p \in C /\ q \in Sides /\ t \in C \cup {Leaf} /\ Leaf \notin C /\ p # s
  BY LeavingNodes
<1>2. T \in Trees /\ C \cup {Leaf} \subseteq Cells /\ C \subseteq Keys /\ Cells \subseteq Link
  BY Apart DEF Linked, Cells, Link
<1>3. ChildSet(T, U, p, q, t)
  BY <1>1, <1>2, ChildWritten
<1>4. ParentSet(U, R, t, p)
  <2>1. U \in Trees
    BY <1>3 DEF ChildSet
  <2> HIDE DEF U
  <2> QED
    BY <1>1, <1>2, <2>1, ParentWritten
<1> HIDE DEF U, R
<1>5. Spliced(T, R, C, s, p, q, t)
  <2>1. /\ R \in Trees /\ R.root = T.root /\ Parent(R, t) = p
        /\ \A z \in Cells : IsRed(R, z) = IsRed(T, z)
    BY <1>1, <1>2, <1>3, <1>4 DEF ChildSet, ParentSet
  <2>2. \A z \in C, d \in Sides : Child(R, z, d) = IF z = p /\ d = q THEN t ELSE Child(T, z, d)
    BY <1>2, <1>3, <1>4 DEF ChildSet, ParentSet
  <2>3. \A z \in C \cup {Leaf} : z # t => Parent(R, z) = Parent(T, z)
    BY <1>2, <1>3, <1>4 DEF ChildSet, ParentSet
  <2>4. \A z \in Keys : z \notin C => z # p /\ z # t /\ z \in Cells
    BY <1>1, TreeAssumption DEF Cells
  <2>5. \A z \in Keys : z \notin C => R.node[z] = T.node[z]
    BY <1>3, <1>4, <2>4 DEF ChildSet, ParentSet
  <2> QED
    BY <2>1, <2>2, <2>3, <2>5 DEF Spliced
<1> QED
  BY <1>5 DEF U, R

\* A tree without a node whose child took its place is linked and sorted.
LEMMA SpliceKeeps ==
    ASSUME NEW T, NEW C, NEW D, Linked(T, C), Sorted(T, C, D),
           NEW s, NEW e, NEW p, NEW q, NEW t, Leaving(T, C, s, e, p, q, t),
           NEW R, Spliced(T, R, C, s, p, q, t)
    PROVE  Linked(R, C \ {s}) /\ \E E : Sorted(R, C \ {s}, E)
<1> DEFINE B == C \ {s}
           E == [y \in B \cup {Leaf} |-> D[y] \ {s}]
<1>1. /\ s \in C /\ p \in C /\ p # s /\ q \in Sides /\ t \in C \cup {Leaf} /\ t # s /\ t # T.root
      /\ Leaf \notin C /\ T.root \in C /\ Child(T, p, q) = s
      /\ \A z \in C, d \in Sides : Child(T, z, d) = s <=> (z = p /\ d = q)
      /\ \A z \in C, d \in Sides : t # Leaf /\ Child(T, z, d) = t => z = s
      /\ \A d \in Sides : Child(T, s, d) \in {t, Leaf}
      /\ \A w \in C : w # s => (w \in D[s] <=> w \in D[t])
  BY LeavingNodes
<1>2. /\ R \in Trees /\ R.root = T.root /\ R.root \in B /\ B \subseteq Keys
      /\ \A z \in C, d \in Sides : Child(R, z, d) = IF z = p /\ d = q THEN t ELSE Child(T, z, d)
      /\ Parent(R, t) = p
      /\ \A z \in C : z # t => Parent(R, z) = Parent(T, z)
  <2>1. s # T.root
    BY DEF Leaving
  <2> QED
    BY <1>1, <2>1 DEF Spliced, Linked
<1>3. Linked(R, B)
  <2>1. ASSUME NEW z \in B, NEW d \in Sides
        PROVE  /\ Child(R, z, d) \in B \cup {Leaf}
               /\ Child(R, z, d) # Leaf =>
                     Child(R, z, d) # R.root /\ Parent(R, Child(R, z, d)) = z
    <3>1. CASE z = p /\ d = q
      BY <1>1, <1>2, <3>1
    <3>2. CASE ~(z = p /\ d = q)
      <4>1. Child(R, z, d) = Child(T, z, d) /\ Child(T, z, d) \in B \cup {Leaf}
        BY <1>1, <1>2, <3>2 DEF Linked
      <4>2. Child(T, z, d) # Leaf => Child(T, z, d) # t
        BY <1>1
      <4>3. Child(T, z, d) # Leaf => Child(T, z, d) # T.root /\ Parent(T, Child(T, z, d)) = z
        BY DEF Linked
      <4> QED
        BY <1>2, <4>1, <4>2, <4>3
    <3> QED
      BY <3>1, <3>2
  <2>2. ASSUME NEW z \in B, z # R.root
        PROVE  Parent(R, z) \in B /\ \E d \in Sides : Child(R, Parent(R, z), d) = z
    <3>1. CASE z = t
      BY <1>1, <1>2, <3>1
    <3>2. CASE z # t
      <4>1. Parent(T, z) \in C /\ Parent(R, z) = Parent(T, z)
        BY <1>2, <2>2, <3>2 DEF Linked
      <4>2. PICK d \in Sides : Child(T, Parent(T, z), d) = z
        BY <1>2, <2>2 DEF Linked
      <4>3. Parent(T, z) # s
        BY <1>1, <3>2, <4>2
      <4>4. Child(R, Parent(T, z), d) = z
        BY <1>1, <1>2, <4>1, <4>2
      <4> QED
        BY <4>1, <4>3, <4>4
    <3> QED
      BY <3>1, <3>2
  <2> QED
    BY <1>2, <2>1, <2>2 DEF Linked
<1>4. /\ E \in [B \cup {Leaf} -> SUBSET B] /\ E[Leaf] = {} /\ E[R.root] = B
      /\ \A y \in B \cup {Leaf}, w \in B : w \in E[y] <=> w \in D[y]
  <2>1. D[Leaf] = {} /\ D[T.root] = C /\ \A y \in C \cup {Leaf} : D[y] \subseteq C
    BY DEF Sorted
  <2> QED
    BY <1>2, <2>1
<1> HIDE DEF E
<1>5. ASSUME NEW z \in B, NEW d \in Sides, NEW w \in B
      PROVE  w \in E[Child(R, z, d)] <=> w \in D[Child(T, z, d)]
  <2>1. CASE z = p /\ d = q
    BY <1>1, <1>2, <1>4, <2>1
  <2>2. CASE ~(z = p /\ d = q)
    <3>1. Child(R, z, d) = Child(T, z, d) /\ Child(T, z, d) \in B \cup {Leaf}
      BY <1>1, <1>2, <2>2 DEF Linked
    <3> QED
      BY <1>4, <3>1
  <2> QED
    BY <2>1, <2>2
<1>6. ASSUME NEW z \in B, NEW d \in Sides, NEW w \in B
      PROVE  w \in E[z] <=> w = z \/ w \in E[Child(R, z, d)] \/ w \in E[Child(R, z, Other(d))]
  <2>1. Other(d) \in Sides
    BY TwoSides
  <2>2. w \in D[z] <=> w = z \/ w \in D[Child(T, z, d)] \/ w \in D[Child(T, z, Other(d))]
    BY DEF Sorted
  <2> QED
    BY <1>4, <1>5, <2>1, <2>2
<1>7. ASSUME NEW z \in B, NEW d \in Sides, NEW w \in E[Child(R, z, d)]
      PROVE  Less(d, w, z)
  <2>1. w \in B
    <3>1. Child(R, z, d) \in B \cup {Leaf}
      BY <1>3 DEF Linked
    <3> QED
      BY <1>4, <3>1
  <2>2. w \in D[Child(T, z, d)]
    BY <1>5, <2>1
  <2> QED
    BY <2>2 DEF Sorted
<1>8. Sorted(R, B, E)
  BY <1>4, <1>6, <1>7 DEF Sorted
<1> QED
  BY <1>3, <1>8

\* The removal of a node with one child at most, up to the loop.
LEMMA SpliceGood ==
    ASSUME NEW T, NEW C, Good(T, C, "idle", Leaf),
           NEW s, NEW e, NEW p, NEW q, NEW t, Leaving(T, C, s, e, p, q, t),
           NEW R, Spliced(T, R, C, s, p, q, t)
    PROVE  Good(R, C \ {s}, IF IsRed(T, s) THEN "popped" ELSE "pop", t)
<1> DEFINE B == C \ {s}
           m == IF IsRed(T, s) THEN "popped" ELSE "pop"
<1>1. PICK D : Linked(T, C) /\ Sorted(T, C, D)
  BY DEF Good
<1>2. PICK h : Level(T, C, h, NULL)
  BY DEF Good, HoleOf
<1>3. ~IsRed(T, Leaf) /\ ~IsRed(T, T.root)
      /\ \A x \in C, d \in Sides : ~(IsRed(T, x) /\ IsRed(T, Child(T, x, d)))
  <2>1. Colored(T, C, "idle", Leaf)
    BY DEF Good
  <2> QED
    BY <2>1 DEF Colored
<1>4. Linked(R, B) /\ \E E : Sorted(R, B, E)
  BY <1>1, SpliceKeeps
<1>5. /\ s \in C /\ p \in C /\ p # s /\ q \in Sides /\ t \in C \cup {Leaf} /\ t # s /\ t # T.root
      /\ Leaf \notin C /\ T.root \in C /\ Child(T, p, q) = s
      /\ \A z \in C, d \in Sides : Child(T, z, d) = s <=> (z = p /\ d = q)
      /\ \A z \in C, d \in Sides : t # Leaf /\ Child(T, z, d) = t => z = s
      /\ \A d \in Sides : Child(T, s, d) \in {t, Leaf}
  BY <1>1, LeavingNodes
<1>6. /\ R.root = T.root /\ Parent(R, t) = p
      /\ \A z \in C, d \in Sides : Child(R, z, d) = IF z = p /\ d = q THEN t ELSE Child(T, z, d)
      /\ \A z \in C \cup {Leaf} : IsRed(R, z) = IsRed(T, z)
      /\ \A z \in C, d \in Sides : Child(T, z, d) \in C \cup {Leaf}
      /\ NULL \notin C \cup {Leaf}
  <2>1. NULL \notin C \cup {Leaf} /\ C \cup {Leaf} \subseteq Cells
    BY <1>1, Apart, TreeAssumption
  <2> QED
    BY <1>1, <2>1 DEF Spliced, Linked
<1>7. PICK d0 \in Sides : Child(T, s, d0) = t
  BY TwoSides DEF Leaving
<1>8. Other(q) \in Sides /\ Other(q) # q /\ \A d \in Sides : d = q \/ d = Other(q)
  BY <1>5, TwoSides
<1>9. h \in [C \cup {Leaf} -> Nat] /\ h[Leaf] = 0
      /\ \A z \in C, d \in Sides : h[z] = h[Child(T, z, d)] + Own(T, Child(T, z, d))
  <2>1. \A z \in C, c \in C \cup {Leaf} : Lack(T, z, c, NULL) = 0
    BY <1>6 DEF Lack
  <2>2. h \in [C \cup {Leaf} -> Nat] /\ h[Leaf] = 0
        /\ \A z \in C, d \in Sides : h[z] = h[Child(T, z, d)] + Own(T, Child(T, z, d))
                                              + Lack(T, z, Child(T, z, d), NULL)
    BY <1>2 DEF Level
  <2>3. \A z \in C \cup {Leaf} : Own(T, z) \in Nat
    BY DEF Own
  <2> QED
    BY <1>6, <2>1, <2>2, <2>3
<1>10. h[s] = h[t] + Own(T, t) /\ h[p] = h[s] + Own(T, s)
  BY <1>5, <1>7, <1>9
<1>11. \A z \in C \cup {Leaf} : Own(R, z) = Own(T, z) /\ Own(T, z) \in Nat
  BY <1>6 DEF Own
<1>12. ~IsRed(T, s) /\ t = Leaf => Child(T, p, Other(q)) # Leaf
  <2>1. SUFFICES ASSUME ~IsRed(T, s), t = Leaf, Child(T, p, Other(q)) = Leaf
                 PROVE  FALSE
    OBVIOUS
  <2>2. Own(T, s) = 1 /\ Own(T, Leaf) = 1
    BY <1>3, <2>1 DEF Own
  <2>3. h[p] = h[Leaf] + Own(T, Leaf)
    BY <1>5, <1>8, <1>9, <2>1
  <2> QED
    BY <1>9, <1>10, <2>1, <2>2, <2>3
<1>13. ASSUME NEW z \in B, NEW d \in Sides
       PROVE  Lack(R, z, Child(R, z, d), HoleOf(m, t))
                 = IF z = p /\ d = q /\ ~IsRed(T, s) THEN 1 ELSE 0
  <2>1. CASE IsRed(T, s)
    <3>1. HoleOf(m, t) = NULL
      BY <2>1 DEF HoleOf
    <3>2. Child(R, z, d) # NULL
      BY <1>5, <1>6
    <3> QED
      BY <2>1, <3>1, <3>2 DEF Lack
  <2>2. CASE ~IsRed(T, s)
    <3>1. HoleOf(m, t) = t
      BY <2>2 DEF HoleOf
    <3>2. CASE z = p /\ d = q
      <4>1. Child(R, z, d) = t /\ (t = Leaf => Parent(R, Leaf) = z)
        BY <1>5, <1>6, <3>2
      <4> QED
        BY <2>2, <3>1, <3>2, <4>1 DEF Lack
    <3>3. CASE ~(z = p /\ d = q)
      <4>1. Child(R, z, d) = Child(T, z, d)
        BY <1>6, <3>3
      <4>2. Child(T, z, d) = t => t = Leaf
        BY <1>5
      <4>3. Child(T, z, d) = t => Parent(R, Leaf) # z
        BY <1>6, <1>8, <1>12, <2>2, <3>3, <4>2
      <4> QED
        BY <3>1, <3>3, <4>1, <4>2, <4>3 DEF Lack
    <3> QED
      BY <3>2, <3>3
  <2> QED
    BY <2>1, <2>2
<1>14. Level(R, B, [y \in B \cup {Leaf} |-> h[y]], HoleOf(m, t))
  <2> DEFINE g == [y \in B \cup {Leaf} |-> h[y]]
  <2>1. g \in [B \cup {Leaf} -> Nat] /\ g[Leaf] = 0 /\ \A y \in B \cup {Leaf} : g[y] = h[y]
    BY <1>9
  <2> HIDE DEF g
  <2>2. ASSUME NEW z \in B, NEW d \in Sides
        PROVE  g[z] = g[Child(R, z, d)] + Own(R, Child(R, z, d))
                        + Lack(R, z, Child(R, z, d), HoleOf(m, t))
    <3>1. CASE z = p /\ d = q
      <4>1. Child(R, z, d) = t /\ t \in B \cup {Leaf} /\ p \in B
        BY <1>5, <1>6, <3>1
      <4>2. Own(T, s) = IF IsRed(T, s) THEN 0 ELSE 1
        BY DEF Own
      <4>3. Own(R, t) = Own(T, t) /\ Own(T, t) \in Nat /\ h[t] \in Nat
        BY <1>5, <1>9, <1>11
      <4>4. Lack(R, z, Child(R, z, d), HoleOf(m, t)) = IF IsRed(T, s) THEN 0 ELSE 1
        BY <1>13, <3>1
      <4>5. g[p] = h[t] + Own(T, t) + Own(T, s)
        BY <1>10, <2>1, <4>1
      <4> HIDE DEF m
      <4> QED
        BY <2>1, <3>1, <4>1, <4>2, <4>3, <4>4, <4>5
    <3>2. CASE ~(z = p /\ d = q)
      <4>1. Child(R, z, d) = Child(T, z, d) /\ Child(T, z, d) \in B \cup {Leaf}
        BY <1>5, <1>6, <3>2
      <4>2. h[z] = h[Child(T, z, d)] + Own(T, Child(T, z, d))
        BY <1>9
      <4>3. Lack(R, z, Child(R, z, d), HoleOf(m, t)) = 0
        BY <1>13, <3>2
      <4>4. Own(R, Child(T, z, d)) = Own(T, Child(T, z, d)) /\ Own(T, Child(T, z, d)) \in Nat
            /\ h[Child(T, z, d)] \in Nat
        BY <1>9, <1>11, <4>1
      <4> HIDE DEF m
      <4> QED
        BY <2>1, <4>1, <4>2, <4>3, <4>4
    <3> QED
      BY <3>1, <3>2
  <2> QED
    BY <2>1, <2>2 DEF Level, g
<1>15. Colored(R, B, m, t)
  <2>1. ~IsRed(R, Leaf) /\ ~IsRed(R, R.root)
    BY <1>3, <1>5, <1>6
  <2>2. ASSUME NEW z \in B, NEW d \in Sides, IsRed(R, z), IsRed(R, Child(R, z, d))
        PROVE  m = "pop" /\ t = Child(R, z, d)
    <3>1. z = p /\ d = q
      <4>1. SUFFICES ASSUME ~(z = p /\ d = q) PROVE FALSE
        OBVIOUS
      <4>2. Child(R, z, d) = Child(T, z, d) /\ Child(T, z, d) \in C \cup {Leaf}
        BY <1>6, <4>1
      <4> QED
        BY <1>3, <1>6, <2>2, <4>2
    <3>2. IsRed(T, p) /\ Child(R, z, d) = t
      BY <1>6, <2>2, <3>1
    <3>3. ~IsRed(T, s)
      BY <1>3, <1>5, <3>2
    <3> QED
      BY <3>2, <3>3
  <2> QED
    BY <2>1, <2>2 DEF Colored
<1>16. Standing(R, B, m, t)
  <2>1. SUFFICES ASSUME ~IsRed(T, s)
                 PROVE  /\ R.root # Leaf /\ t \in B \cup {Leaf}
                        /\ t = Leaf =>
                              /\ Parent(R, Leaf) \in B
                              /\ \E d \in Sides : /\ Child(R, Parent(R, Leaf), d) = Leaf
                                                  /\ Child(R, Parent(R, Leaf), Other(d)) # Leaf
    BY DEF Standing
  <2>2. ASSUME t = Leaf
        PROVE  /\ Parent(R, Leaf) = p /\ p \in B /\ Child(R, p, q) = Leaf
               /\ Child(R, p, Other(q)) # Leaf
    BY <1>5, <1>6, <1>8, <1>12, <2>1, <2>2
  <2> QED
    BY <1>5, <1>6, <2>2
<1> QED
  BY <1>4, <1>14, <1>15, <1>16 DEF Good

\* R is S with node s in the place of x.
Renamed(S, R, C, x, s, t) ==
    /\ R \in Trees /\ R.root = IF S.root = x THEN s ELSE S.root
    /\ \A d \in Sides : Child(R, s, d) = Child(S, x, d)
    /\ \A z \in C, d \in Sides :
          z # x => Child(R, z, d) = IF Child(S, z, d) = x THEN s ELSE Child(S, z, d)
    /\ Parent(R, s) = Parent(S, x)
    /\ \A z \in C : z # x /\ z # S.root =>
          Parent(R, z) = IF Parent(S, z) = x THEN s ELSE Parent(S, z)
    /\ t = Leaf => Parent(R, Leaf) = IF Parent(S, Leaf) = x THEN s ELSE Parent(S, Leaf)
    /\ IsRed(R, s) = IsRed(S, x)
    /\ \A z \in C \cup {Leaf} : z # x => IsRed(R, z) = IsRed(S, z)
    /\ \A z \in Keys : z \notin C /\ z # s => R.node[z] = S.node[z]

\* A tree whose node x was replaced by s, outside it so far, is alike to the old
\* one when s comes where x came in the order.
LEMMA RenameAlike ==
    ASSUME NEW S, NEW C, NEW D, Linked(S, C), Sorted(S, C, D), NEW x \in C, NEW s \in Keys \ C,
           \A z \in C : z # x => (z < s <=> z < x),
           NEW t \in C \cup {Leaf}, t # x, t = Leaf => Parent(S, Leaf) \in C,
           NEW R, Renamed(S, R, C, x, s, t)
    PROVE  LET B == (C \ {x}) \cup {s}
               sg == [z \in B \cup {Leaf} |-> IF z = s THEN x ELSE z]
           IN  Alike(S, C, R, B, sg, t) /\ sg[t] = t
<1> DEFINE B == (C \ {x}) \cup {s}
           sg == [z \in B \cup {Leaf} |-> IF z = s THEN x ELSE z]
<1>1. C \subseteq Int /\ s \in Int /\ Leaf \notin C /\ s # Leaf /\ C \subseteq Keys /\ s \in B
      /\ Leaf \notin B /\ B \subseteq Keys
  BY Apart, TreeAssumption DEF Linked
<1>2. /\ sg \in [B \cup {Leaf} -> C \cup {Leaf}] /\ sg[Leaf] = Leaf /\ sg[s] = x
      /\ \A z \in B \cup {Leaf} : z # s => sg[z] = z /\ z # x
  BY <1>1
<1>3. \A y \in C : \E z \in B : sg[z] = y
  BY <1>2
<1> HIDE DEF sg
<1>4. \A y, z \in B \cup {Leaf} : sg[y] = sg[z] => y = z
  BY <1>2
<1>5. ASSUME NEW y \in B, NEW z \in B
      PROVE  y < z <=> sg[y] < sg[z]
  <2>1. y \in Int /\ z \in Int /\ x \in Int /\ s \in Int
    BY <1>1
  <2>2. \A w \in B : w # s => w \in C /\ w # x
    OBVIOUS
  <2> QED
    BY <1>2, <2>1, <2>2
<1>6. S.root \in C
  BY DEF Linked
<1>7. R.root \in B /\ sg[R.root] = S.root
  BY <1>2, <1>6 DEF Renamed
<1>8. ASSUME NEW z \in B, NEW d \in Sides
      PROVE  Child(R, z, d) \in B \cup {Leaf} /\ sg[Child(R, z, d)] = Child(S, sg[z], d)
  <2>1. CASE z = s
    <3>1. Child(R, z, d) = Child(S, x, d) /\ Child(S, x, d) \in C \cup {Leaf}
          /\ Child(S, x, d) # x
      BY <2>1, Apart DEF Renamed, Linked
    <3> QED
      BY <1>2, <2>1, <3>1
  <2>2. CASE z # s
    <3>1. z \in C /\ z # x /\ sg[z] = z
      BY <1>2, <2>2
    <3>2. Child(S, z, d) \in C \cup {Leaf}
      BY <3>1 DEF Linked
    <3>3. Child(R, z, d) = IF Child(S, z, d) = x THEN s ELSE Child(S, z, d)
      BY <3>1 DEF Renamed
    <3> QED
      BY <1>2, <3>1, <3>2, <3>3
  <2> QED
    BY <2>1, <2>2
<1>9. ASSUME NEW z \in B, z # R.root
      PROVE  Parent(R, z) \in B /\ sg[Parent(R, z)] = Parent(S, sg[z])
  <2>1. CASE z = s
    <3>1. Parent(R, z) = Parent(S, x) /\ x # S.root
      BY <1>9, <2>1 DEF Renamed
    <3>2. Parent(S, x) \in C /\ Parent(S, x) # x
      <4>1. Parent(S, x) \in C /\ \E d \in Sides : Child(S, Parent(S, x), d) = x
        BY <3>1 DEF Linked
      <4> QED
        BY <4>1, Apart
    <3> QED
      BY <1>2, <2>1, <3>1, <3>2
  <2>2. CASE z # s
    <3>1. z \in C /\ z # x /\ sg[z] = z
      BY <1>2, <2>2
    <3>2. z # S.root
      BY <1>9, <3>1 DEF Renamed
    <3>3. Parent(S, z) \in C
      BY <3>1, <3>2 DEF Linked
    <3>4. Parent(R, z) = IF Parent(S, z) = x THEN s ELSE Parent(S, z)
      BY <3>1, <3>2 DEF Renamed
    <3> QED
      BY <1>2, <3>1, <3>3, <3>4
  <2> QED
    BY <2>1, <2>2
<1>10. \A z \in B \cup {Leaf} : IsRed(R, z) = IsRed(S, sg[z])
  <2>1. \A z \in B \cup {Leaf} : z # s => z \in C \cup {Leaf} /\ z # x
    BY <1>1
  <2> QED
    BY <1>2, <2>1 DEF Renamed
<1>11. t = Leaf => Parent(R, Leaf) \in B /\ sg[Parent(R, Leaf)] = Parent(S, Leaf)
  <2>1. SUFFICES ASSUME t = Leaf
                 PROVE  Parent(R, Leaf) \in B /\ sg[Parent(R, Leaf)] = Parent(S, Leaf)
    OBVIOUS
  <2>2. Parent(R, Leaf) = IF Parent(S, Leaf) = x THEN s ELSE Parent(S, Leaf)
    BY <2>1 DEF Renamed
  <2> QED
    BY <1>2, <2>1, <2>2
<1>12. R \in Trees
  BY DEF Renamed
<1>13. Alike(S, C, R, B, sg, t)
  BY <1>1, <1>2, <1>3, <1>4, <1>5, <1>7, <1>8, <1>9, <1>10, <1>11, <1>12 DEF Alike
<1>14. sg[t] = t
  BY <1>2
<1> QED
  BY <1>13, <1>14 DEF sg

\* After the copy of x's links to s
Copied(S, W, C, x, s, t) ==
    /\ W \in Trees /\ W.root = IF S.root = x THEN s ELSE S.root
    /\ \A d \in Sides : Child(W, s, d) = Child(S, x, d)
    /\ \A z \in C, d \in Sides :
          z # x => Child(W, z, d) = IF Child(S, z, d) = x THEN s ELSE Child(S, z, d)
    /\ Parent(W, s) = Parent(S, x)
    /\ \A z \in C \cup {Leaf} :
          Parent(W, z) = IF z = t /\ Parent(S, z) = x THEN s ELSE Parent(S, z)
    /\ IsRed(W, s) = IsRed(S, x)
    /\ \A z \in C \cup {Leaf} : z # x => IsRed(W, z) = IsRed(S, z)
    /\ \A z \in Keys : z \notin C /\ z # s => W.node[z] = S.node[z]

\* The parents of x's children are told.
LEMMA ParentsTold ==
    ASSUME NEW S, NEW C, NEW D, Linked(S, C), Sorted(S, C, D), NEW x \in C, NEW s \in Keys \ C,
           NEW t \in C \cup {Leaf}, NEW W, Copied(S, W, C, x, s, t)
    PROVE  LET set(Z, side) == IF Child(W, s, side) = Leaf THEN Z
                               ELSE WithParent(Z, Child(W, s, side), s)
           IN  Renamed(S, set(set(W, "left"), "right"), C, x, s, t)
<1> DEFINE set(Z, side) == IF Child(W, s, side) = Leaf THEN Z
                           ELSE WithParent(Z, Child(W, s, side), s)
           l == Child(S, x, "left")
           r == Child(S, x, "right")
           W1 == set(W, "left")
           R == set(W1, "right")
           Told(Z, Y, c) ==
               /\ Y \in Trees /\ Y.root = Z.root
               /\ \A z \in Cells, d \in Sides : Child(Y, z, d) = Child(Z, z, d)
               /\ \A z \in Cells : Parent(Y, z) = IF z = c /\ c # Leaf THEN s ELSE Parent(Z, z)
               /\ \A z \in Cells : IsRed(Y, z) = IsRed(Z, z)
               /\ \A z \in Cells : z # c => Y.node[z] = Z.node[z]
<1>1. /\ "left" \in Sides /\ "right" \in Sides /\ Leaf \notin C /\ s \in Cells /\ s \in Link
      /\ C \cup {Leaf} \subseteq Cells /\ s # Leaf
  BY TwoSides, Apart, TreeAssumption DEF Cells, Link
<1>2. l \in C \cup {Leaf} /\ r \in C \cup {Leaf}
  BY <1>1 DEF Linked
<1>3. Child(W, s, "left") = l /\ Child(W, s, "right") = r /\ W \in Trees
  BY <1>1 DEF Copied
<1> HIDE DEF l, r
<1>4. Told(W, W1, l)
  <2>1. CASE l = Leaf
    BY <1>3, <2>1
  <2>2. CASE l # Leaf
    <3>1. W1 = WithParent(W, l, s)
      BY <1>3, <2>2
    <3> HIDE DEF W1
    <3>2. ParentSet(W, W1, l, s)
      BY <1>1, <1>2, <1>3, <3>1, ParentWritten
    <3> QED
      BY <2>2, <3>2 DEF ParentSet
  <2> QED
    BY <2>1, <2>2
<1>5. Told(W1, R, r)
  <2>0. W1 \in Trees
    BY <1>4
  <2>1. CASE r = Leaf
    <3>1. R = W1
      BY <1>3, <2>1
    <3> HIDE DEF W1, R
    <3> QED
      BY <2>0, <2>1, <3>1
  <2>2. CASE r # Leaf
    <3>1. R = WithParent(W1, r, s)
      BY <1>3, <2>2
    <3> HIDE DEF W1, R
    <3>2. ParentSet(W1, R, r, s)
      BY <1>1, <1>2, <2>0, <3>1, ParentWritten
    <3> QED
      BY <2>2, <3>2 DEF ParentSet
  <2> QED
    BY <2>1, <2>2
<1> HIDE DEF W1, R
<1>6. /\ R \in Trees /\ R.root = W.root
      /\ \A z \in Cells, d \in Sides : Child(R, z, d) = Child(W, z, d)
      /\ \A z \in Cells :
            Parent(R, z) = IF z # Leaf /\ z \in {l, r} THEN s ELSE Parent(W, z)
      /\ \A z \in Cells : IsRed(R, z) = IsRed(W, z)
  BY <1>4, <1>5
<1>7. \A z \in Keys : z \notin C /\ z # s => R.node[z] = S.node[z]
  <2>1. \A z \in Keys : z \notin C => z # l /\ z # r /\ z \in Cells
    BY <1>2, TreeAssumption DEF Cells
  <2> HIDE DEF set
  <2>2. \A z \in Keys : z \notin C => R.node[z] = W.node[z]
    BY <1>4, <1>5, <2>1
  <2> QED
    BY <2>2 DEF Copied
<1> HIDE DEF Told, set
<1>8. ASSUME NEW z \in C, z # x, z # S.root
      PROVE  Parent(R, z) = IF Parent(S, z) = x THEN s ELSE Parent(S, z)
  <2>1. z # Leaf /\ z \in Cells
    BY <1>1
  <2>2. CASE z \in {l, r}
    <3>1. Parent(S, z) = x
      BY <1>1, <2>1, <2>2 DEF Linked, l, r
    <3> QED
      BY <1>6, <2>1, <2>2, <3>1
  <2>3. CASE z \notin {l, r}
    <3>1. Parent(S, z) # x
      <4>1. PICK d \in Sides : Child(S, Parent(S, z), d) = z
        BY <1>8 DEF Linked
      <4> QED
        BY <2>3, <4>1 DEF Sides, l, r
    <3>2. Parent(W, z) = Parent(S, z)
      BY <3>1 DEF Copied
    <3> QED
      BY <1>6, <2>1, <2>3, <3>1, <3>2
  <2> QED
    BY <2>2, <2>3
<1>9. t = Leaf => Parent(R, Leaf) = IF Parent(S, Leaf) = x THEN s ELSE Parent(S, Leaf)
  <2>1. Parent(R, Leaf) = Parent(W, Leaf)
    BY <1>1, <1>6
  <2> QED
    BY <2>1 DEF Copied
<1>10. Parent(R, s) = Parent(S, x)
  <2>1. s \notin {l, r}
    BY <1>1, <1>2
  <2>2. Parent(R, s) = Parent(W, s)
    BY <1>1, <1>6, <2>1
  <2> QED
    BY <2>2 DEF Copied
<1>11. Renamed(S, R, C, x, s, t)
  <2>1. /\ R.root = IF S.root = x THEN s ELSE S.root
        /\ \A d \in Sides : Child(R, s, d) = Child(S, x, d)
        /\ IsRed(R, s) = IsRed(S, x)
    BY <1>1, <1>6 DEF Copied
  <2>2. \A z \in C, d \in Sides :
           z # x => Child(R, z, d) = IF Child(S, z, d) = x THEN s ELSE Child(S, z, d)
    BY <1>1, <1>6 DEF Copied
  <2>3. \A z \in C \cup {Leaf} : z # x => IsRed(R, z) = IsRed(S, z)
    BY <1>1, <1>6 DEF Copied
  <2> QED
    BY <1>6, <1>7, <1>8, <1>9, <1>10, <2>1, <2>2, <2>3 DEF Renamed
<1> QED
  BY <1>11 DEF R, W1, set

\* The substitute s of x leaves its place and takes x's.
LEMMA UnlinkedRenames ==
    ASSUME NEW T, NEW C, NEW D, Linked(T, C), Sorted(T, C, D), NEW x \in C,
           NEW s, NEW p, NEW q, NEW t, Leaving(T, C, s, "left", p, q, t),
           s = Subst(T, x), t = Temp(T, x), s # x, t # x,
           NEW S, S = WithParent(WithChild(T, p, q, t), t, p)
    PROVE  Renamed(S, Unlinked(T, x), C \ {s}, x, s, t)
<1> DEFINE B == C \ {s}
           U == WithChild(T, p, q, t)
           p1 == IF p = x THEN s ELSE p
           V == WithParent(U, t, p1)
           X == [V EXCEPT !.node[s] = V.node[x]]
           W == Replaced(X, x, s)
           set(Z, side) == IF Child(W, s, side) = Leaf THEN Z
                           ELSE WithParent(Z, Child(W, s, side), s)
<1>1. Unlinked(T, x) = set(set(W, "left"), "right")
  <2>1. p = Parent(T, s) /\ q = SideOf(T, s)
    BY DEF Leaving
  <2> QED
    BY <2>1 DEF Unlinked
<1>2. /\ s \in C /\ p \in C /\ p # s /\ q \in Sides /\ t \in C \cup {Leaf} /\ t # s
      /\ Leaf \notin C
  BY LeavingNodes
<1>3. T \in Trees /\ C \cup {Leaf} \subseteq Cells /\ C \subseteq Keys /\ Cells \subseteq Link
  BY Apart DEF Linked, Cells, Link
<1>4. Spliced(T, S, C, s, p, q, t)
  BY SplicedLinks
<1>5. Linked(S, B) /\ \E E : Sorted(S, B, E)
  BY <1>4, SpliceKeeps
<1>6. ChildSet(T, U, p, q, t)
  BY <1>2, <1>3, ChildWritten
<1>7. ParentSet(U, V, t, p1)
  <2>1. U \in Trees
    BY <1>6 DEF ChildSet
  <2>2. p1 \in Link /\ t \in Cells
    BY <1>2, <1>3
  <2> HIDE DEF U, p1
  <2> QED
    BY <2>1, <2>2, ParentWritten
<1>8. ParentSet(U, S, t, p)
  <2>1. U \in Trees
    BY <1>6 DEF ChildSet
  <2>2. p \in Link /\ t \in Cells /\ S = WithParent(U, t, p)
    BY <1>2, <1>3
  <2> HIDE DEF U
  <2> QED
    BY <2>1, <2>2, ParentWritten
<1>9. NodeSet(V, X, s, V.node[x])
  <2>1. V \in Trees
    BY <1>7 DEF ParentSet
  <2>2. V.node[x] \in Node /\ s \in Cells
    BY <1>2, <1>3, <2>1 DEF Trees
  <2> HIDE DEF V
  <2> QED
    BY <2>1, <2>2, NodeWritten
<1> HIDE DEF U, V, X
<1>10. x \in Cells /\ x # Leaf /\ s \in Cells /\ t \in Cells
  BY <1>2, <1>3
<1>11. /\ X \in Trees /\ X.root = S.root
       /\ \A z \in Cells, d \in Sides :
             Child(X, z, d) = IF z = s THEN Child(S, x, d) ELSE Child(S, z, d)
       /\ \A z \in Cells :
             IsRed(X, z) = IF z = s THEN IsRed(S, x) ELSE IsRed(S, z)
       /\ \A z \in Cells :
             Parent(X, z) = IF z = s THEN Parent(S, x)
                            ELSE IF z = t /\ Parent(S, z) = x THEN s ELSE Parent(S, z)
       /\ \A z \in Keys : z \notin C => X.node[z] = S.node[z]
  <2>1. \A z \in Cells : /\ \A d \in Sides : Child(V, z, d) = Child(S, z, d)
                         /\ IsRed(V, z) = IsRed(S, z)
                         /\ Parent(V, z) = IF z = t /\ Parent(S, z) = x THEN s ELSE Parent(S, z)
    BY <1>7, <1>8 DEF ParentSet
  <2>2. V.root = S.root
    BY <1>7, <1>8 DEF ParentSet
  <2>3. X \in Trees /\ X.root = V.root /\ X.node[s] = V.node[x]
        /\ \A z \in Cells : z # s => X.node[z] = V.node[z]
    BY <1>9 DEF NodeSet
  <2>4. \A z \in Cells : /\ \A d \in Sides : Child(X, z, d) = Child(V, IF z = s THEN x ELSE z, d)
                         /\ IsRed(X, z) = IsRed(V, IF z = s THEN x ELSE z)
                         /\ Parent(X, z) = Parent(V, IF z = s THEN x ELSE z)
    BY <2>3 DEF Child, IsRed, Parent
  <2>5. \A z \in Keys : z \notin C => z # t /\ z # s /\ z \in Cells
    BY <1>2, TreeAssumption DEF Cells
  <2>6. \A z \in Keys : z \notin C => X.node[z] = S.node[z]
    BY <1>7, <1>8, <2>3, <2>5 DEF ParentSet
  <2> QED
    BY <1>10, <2>1, <2>2, <2>3, <2>4, <2>6
<1>12. Copied(S, W, B, x, s, t)
  <2>1. /\ W \in Trees /\ W.root = IF S.root = x THEN s ELSE S.root
        /\ \A d \in Sides : Child(W, s, d) = Child(X, s, d)
        /\ \A z \in B, d \in Sides :
              z # x => Child(W, z, d) = IF Child(S, z, d) = x THEN s ELSE Child(S, z, d)
        /\ \A z \in Cells : Parent(W, z) = Parent(X, z) /\ IsRed(W, z) = IsRed(X, z)
        /\ \A z \in Keys : z \notin B => W.node[z] = X.node[z]
    <3>1. PICK E : Sorted(S, B, E)
      BY <1>5
    <3>2. x \in B
      BY DEF Subst
    <3>3. CASE x = S.root
      <4>1. W \in Trees /\ W.root = s /\ W.node = X.node
        BY <1>10, <1>11, <3>3, RootWritten DEF Replaced
      <4>2. \A z \in B, d \in Sides : Child(S, z, d) # x
        BY <1>2, <1>5, <3>2, <3>3 DEF Linked
      <4> HIDE DEF W
      <4>3. \A z \in B, d \in Sides : Child(X, z, d) = Child(S, z, d)
        BY <1>3, <1>11
      <4>4. \A z \in Cells : /\ Parent(W, z) = Parent(X, z) /\ IsRed(W, z) = IsRed(X, z)
                             /\ \A d \in Sides : Child(W, z, d) = Child(X, z, d)
        BY <4>1 DEF Child, Parent, IsRed
      <4> QED
        BY <1>3, <1>10, <3>3, <4>1, <4>2, <4>3, <4>4
    <3>4. CASE x # S.root
      <4> DEFINE pp == Parent(S, x)
                 e == SideOf(S, x)
      <4>1. pp \in B /\ e \in Sides /\ Child(S, pp, e) = x
        BY <1>5, <3>2, <3>4, OnItsSide
      <4>2. Parent(X, x) = pp
        BY <1>10, <1>11, <3>2
      <4>3. SideOf(X, x) = e
        <5>1. Child(X, pp, "left") = Child(S, pp, "left")
          BY <1>3, <1>11, <4>1, TwoSides
        <5> QED
          BY <4>2, <5>1 DEF SideOf
      <4>4. W = WithChild(X, pp, e, s)
        BY <1>11, <3>4, <4>2, <4>3 DEF Replaced
      <4>5. \A z \in B, d \in Sides : (z = pp /\ d = e) <=> Child(S, z, d) = x
        <5>1. x # Leaf /\ Linked(S, B)
          BY <1>5, <1>10
        <5> HIDE DEF pp, e, B
        <5> QED
          BY <3>1, <4>1, <5>1, Apart
      <4> HIDE DEF pp, e, W
      <4>6. ChildSet(X, W, pp, e, s)
        BY <1>3, <1>10, <1>11, <4>1, <4>4, ChildWritten
      <4>7. \A z \in B, d \in Sides : Child(X, z, d) = Child(S, z, d)
        BY <1>3, <1>11
      <4>8. \A z \in Keys : z \notin B => z \in Cells /\ z # pp
        BY <4>1 DEF Cells
      <4> QED
        BY <1>3, <1>10, <1>11, <3>4, <4>1, <4>5, <4>6, <4>7, <4>8 DEF ChildSet
    <3> QED
      BY <3>3, <3>4
  <2> HIDE DEF W
  <2>2. \A d \in Sides : Child(W, s, d) = Child(S, x, d)
    BY <1>10, <1>11, <2>1
  <2>3. \A z \in B \cup {Leaf} : z # s /\ z \in Cells
    BY <1>2, <1>3
  <2>4. Parent(W, s) = Parent(S, x) /\ IsRed(W, s) = IsRed(S, x)
    BY <1>10, <1>11, <2>1
  <2>5. \A z \in B \cup {Leaf} :
           Parent(W, z) = IF z = t /\ Parent(S, z) = x THEN s ELSE Parent(S, z)
    BY <1>11, <2>1, <2>3
  <2>6. \A z \in B \cup {Leaf} : z # x => IsRed(W, z) = IsRed(S, z)
    BY <1>11, <2>1, <2>3
  <2>7. \A z \in Keys : z \notin B /\ z # s => W.node[z] = S.node[z]
    BY <1>11, <2>1
  <2> QED
    BY <2>1, <2>2, <2>4, <2>5, <2>6, <2>7 DEF Copied
<1> HIDE DEF W
<1>13. Renamed(S, set(set(W, "left"), "right"), B, x, s, t)
  <2>1. PICK E : Sorted(S, B, E)
    BY <1>5
  <2>2. x \in B /\ s \in Keys \ B /\ t \in B \cup {Leaf}
    BY <1>2, <1>3
  <2> HIDE DEF B
  <2> QED
    BY <1>5, <1>12, <2>1, <2>2, ParentsTold
<1> HIDE DEF set
<1> QED
  BY <1>1, <1>13

\* The removal of a key up to the loop.
LEMMA PopGood ==
    ASSUME NEW T, NEW C, Good(T, C, "idle", Leaf), IsFiniteSet(C), C = InMemory(T),
           NEW x \in C, Subst(T, x) # T.root
    PROVE  LET R == Unlinked(T, x)
           IN  /\ Good(R, C \ {x}, IF IsRed(T, Subst(T, x)) THEN "popped" ELSE "pop", Temp(T, x))
               /\ \A z \in Keys : z \notin C => R.node[z] = T.node[z]
<1> DEFINE s == Subst(T, x)
           t == Temp(T, x)
           p == Parent(T, s)
           q == SideOf(T, s)
           S == WithParent(WithChild(T, p, q, t), t, p)
           R == Unlinked(T, x)
           m == IF IsRed(T, s) THEN "popped" ELSE "pop"
<1>1. PICK D : Linked(T, C) /\ Sorted(T, C, D)
  BY DEF Good
<1>2. "left" \in Sides /\ "right" \in Sides /\ Other("left") = "right" /\ Other("right") = "left"
  BY TwoSides
<1>3. CASE Child(T, x, "left") = Leaf \/ Child(T, x, "right") = Leaf
  <2>1. s = x
    BY <1>3 DEF Subst
  <2>2. \E e \in Sides : Leaving(T, C, x, e, p, q, t)
    <3>1. CASE Child(T, x, "left") = Leaf
      <4>1. t = Child(T, x, "right")
        BY <2>1, <3>1 DEF Temp
      <4>2. Leaving(T, C, x, "left", p, q, t)
        BY <1>2, <2>1, <3>1, <4>1 DEF Leaving
      <4> QED
        BY <1>2, <4>2
    <3>2. CASE Child(T, x, "left") # Leaf
      <4>1. t = Child(T, x, "left") /\ Child(T, x, "right") = Leaf
        BY <1>3, <2>1, <3>2 DEF Temp
      <4>2. Leaving(T, C, x, "right", p, q, t)
        BY <1>2, <2>1, <4>1 DEF Leaving
      <4> QED
        BY <1>2, <4>2
    <3> QED
      BY <3>1, <3>2
  <2>3. PICK e \in Sides : Leaving(T, C, x, e, p, q, t)
    BY <2>2
  <2>4. R = S
    BY <2>1 DEF Unlinked
  <2> HIDE DEF p, q, t, R
  <2>5. Spliced(T, S, C, x, p, q, t)
    BY <1>1, <2>3, SplicedLinks
  <2> HIDE DEF S
  <2>6. Good(S, C \ {x}, IF IsRed(T, x) THEN "popped" ELSE "pop", t)
    BY <2>3, <2>5, SpliceGood
  <2>7. \A z \in Keys : z \notin C => S.node[z] = T.node[z]
    BY <2>5 DEF Spliced
  <2> HIDE DEF s
  <2> QED
    BY <2>1, <2>4, <2>6, <2>7 DEF R, s, t
<1>4. CASE Child(T, x, "left") # Leaf /\ Child(T, x, "right") # Leaf
  <2> DEFINE r == Child(T, x, "right")
             B == C \ {s}
  <2>1. s = Leftmost(T, r) /\ r \in C
    BY <1>1, <1>2, <1>4 DEF Subst, Linked
  <2>2. First(T, D[r], s)
    <3> HIDE DEF s, r
    <3> QED
      BY <1>1, <2>1, LeftmostFirst
  <2>3. /\ s \in C /\ x < s
        /\ \A z \in C : z # x /\ z # s => (z < s <=> z < x)
        /\ \A y \in C : x \in D[y] => s \in D[y] \ {y}
    <3> HIDE DEF s
    <3> QED
      BY <1>1, <2>2, NextInOrder
  <2>4. s # x /\ x \in Int /\ C \subseteq Keys
    <3>1. x \in D[x]
      BY <1>1, Apart
    <3> HIDE DEF s
    <3> QED
      BY <1>1, <2>3, <3>1, Apart DEF Linked
  <2>5. t = Child(T, s, "right")
    BY <2>4 DEF Temp
  <2>6. Child(T, s, "left") = Leaf
    BY <2>2 DEF First
  <2>7. Leaving(T, C, s, "left", p, q, t)
    <3> HIDE DEF t
    <3> QED
      BY <1>2, <2>3, <2>5, <2>6 DEF Leaving
  <2>8. t # x
    <3>1. x \notin D[s]
      BY <2>3
    <3>2. x \in D[x] /\ D[Child(T, s, "right")] \subseteq D[s]
      <4> HIDE DEF s
      <4> QED
        BY <1>1, <1>2, <2>3, Apart, Below
    <3> QED
      BY <2>5, <3>1, <3>2
  <2> HIDE DEF s, t, p, q
  <2>9. /\ s \in C /\ p \in C /\ p # s /\ t \in C \cup {Leaf} /\ t # s
    BY <1>1, <2>7, LeavingNodes
  <2>10. Spliced(T, S, C, s, p, q, t)
    BY <1>1, <2>7, SplicedLinks
  <2>11. Renamed(S, R, B, x, s, t)
    <3>1. s = Subst(T, x) /\ t = Temp(T, x)
      BY DEF s, t
    <3>2. S = WithParent(WithChild(T, p, q, t), t, p)
      OBVIOUS
    <3> HIDE DEF S
    <3> QED
      BY <1>1, <2>4, <2>7, <2>8, <3>1, <3>2, UnlinkedRenames
  <2> HIDE DEF S, R
  <2>12. Good(S, B, m, t)
    BY <2>7, <2>10, SpliceGood
  <2>13. PICK E : Linked(S, B) /\ Sorted(S, B, E)
    BY <2>12 DEF Good
  <2>14. t = Leaf => Parent(S, Leaf) \in B
    BY <2>9, <2>10 DEF Spliced
  <2>15. x \in B /\ s \in Keys \ B /\ t \in B \cup {Leaf} /\ \A z \in B : z # x => (z < s <=> z < x)
    BY <2>3, <2>4, <2>9
  <2> DEFINE A == (B \ {x}) \cup {s}
             sg == [z \in A \cup {Leaf} |-> IF z = s THEN x ELSE z]
  <2>16. Alike(S, B, R, A, sg, t) /\ sg[t] = t
    <3> HIDE DEF B
    <3> QED
      BY <2>8, <2>11, <2>13, <2>14, <2>15, RenameAlike
  <2>17. A = C \ {x} /\ t \in A \cup {Leaf}
    BY <2>4, <2>8, <2>9
  <2>18. m \in {"pop", "popped"}
    OBVIOUS
  <2> HIDE DEF m, A, B, sg
  <2>19. Good(R, A, m, t)
    BY <2>12, <2>16, <2>17, <2>18, AlikeGood
  <2>20. \A z \in Keys : z \notin C => R.node[z] = T.node[z]
    <3>1. \A z \in Keys : z \notin C => S.node[z] = T.node[z]
      BY <2>10 DEF Spliced
    <3> QED
      BY <2>9, <2>11, <3>1 DEF Renamed, B
  <2> QED
    BY <2>17, <2>19, <2>20 DEF R, m, s, t
<1> QED
  BY <1>3, <1>4

\* R is T without its root k, whose only child t, if it has one, takes its place.
RootOut(T, R, C, k, t) ==
    /\ R \in Trees /\ R.root = t /\ R.node[k] = Freed
    /\ \A z \in C \cup {Leaf} : z # k =>
          /\ \A d \in Sides : Child(R, z, d) = Child(T, z, d)
          /\ Parent(R, z) = Parent(T, z)
          /\ IsRed(R, z) = IF z = t THEN FALSE ELSE IsRed(T, z)
    /\ \A z \in Keys : z \notin C => R.node[z] = T.node[z]

\* The writes of rbtree_fast_pop that take the root out: its child's parent is
\* left as it was.
LEMMA RootOutLinks ==
    ASSUME NEW T, NEW C, NEW D, Linked(T, C), Sorted(T, C, D), NEW k \in C,
           NEW t \in C \cup {Leaf}, t # k
    PROVE  RootOut(T, [Painted([T EXCEPT !.root = t], t, FALSE) EXCEPT !.node[k] = Freed], C, k, t)
<1> DEFINE U == [T EXCEPT !.root = t]
           V == Painted(U, t, FALSE)
           R == [V EXCEPT !.node[k] = Freed]
<1>1. T \in Trees /\ C \cup {Leaf} \subseteq Cells /\ Leaf \notin C
  BY Apart DEF Linked
<1>2. U \in Trees /\ U.root = t /\ U.node = T.node
  BY <1>1, RootWritten
<1> HIDE DEF U
<1>3. ColorSet(U, V, t, FALSE)
  BY <1>1, <1>2, ColorWritten
<1>4. NodeSet(V, R, k, Freed)
  <2>1. V \in Trees /\ Freed \in Node
    BY <1>3 DEF ColorSet, Freed, Node, Link
  <2> HIDE DEF V
  <2> QED
    BY <1>1, <2>1, NodeWritten
<1> HIDE DEF V, R
<1>5. \A z \in Cells : /\ \A d \in Sides : Child(U, z, d) = Child(T, z, d)
                       /\ Parent(U, z) = Parent(T, z) /\ IsRed(U, z) = IsRed(T, z)
  BY <1>2 DEF Child, Parent, IsRed
<1>6. \A z \in Cells : z # k => /\ \A d \in Sides : Child(R, z, d) = Child(V, z, d)
                                /\ Parent(R, z) = Parent(V, z) /\ IsRed(R, z) = IsRed(V, z)
  BY <1>4 DEF NodeSet, Child, Parent, IsRed
<1>7. R \in Trees /\ R.root = t /\ R.node[k] = Freed
  BY <1>2, <1>3, <1>4 DEF ColorSet, NodeSet
<1>8. \A z \in C \cup {Leaf} : z # k =>
         /\ \A d \in Sides : Child(R, z, d) = Child(T, z, d)
         /\ Parent(R, z) = Parent(T, z)
         /\ IsRed(R, z) = IF z = t THEN FALSE ELSE IsRed(T, z)
  BY <1>1, <1>3, <1>5, <1>6 DEF ColorSet
<1>9. \A z \in Keys : z \notin C => R.node[z] = T.node[z]
  <2>1. \A z \in Keys : z \notin C => z \in Cells /\ z # t /\ z # k
    BY TreeAssumption DEF Cells
  <2> QED
    BY <1>2, <1>3, <1>4, <2>1 DEF ColorSet, NodeSet
<1>10. RootOut(T, R, C, k, t)
  BY <1>7, <1>8, <1>9 DEF RootOut
<1> QED
  BY <1>10 DEF R, V, U

\* What PopRoot makes of T
WithoutRoot(T, k) ==
    LET t == Temp(T, k)
    IN  [Painted([T EXCEPT !.root = t], t, FALSE) EXCEPT !.node[k] = Freed]

\* The removal of a root that has one child at most
LEMMA PopRootGood ==
    ASSUME NEW T, NEW C, Good(T, C, "idle", Leaf), IsFiniteSet(C), C = InMemory(T),
           NEW k \in C, Subst(T, k) = T.root
    PROVE  LET R == WithoutRoot(T, k)
           IN  /\ Good(R, C \ {k}, "idle", Leaf)
               /\ R.node[k] = Freed /\ \A z \in Keys : z \notin C => R.node[z] = T.node[z]
<1> DEFINE t == Temp(T, k)
           B == C \ {k}
           R == [Painted([T EXCEPT !.root = t], t, FALSE) EXCEPT !.node[k] = Freed]
<1>1. PICK D : Linked(T, C) /\ Sorted(T, C, D)
  BY DEF Good
<1>2. PICK h : Level(T, C, h, NULL)
  BY DEF Good, HoleOf
<1>3. ~IsRed(T, Leaf)
      /\ \A x \in C, d \in Sides : ~(IsRed(T, x) /\ IsRed(T, Child(T, x, d)))
  <2>1. Colored(T, C, "idle", Leaf)
    BY DEF Good
  <2> QED
    BY <2>1 DEF Colored
<1>4. "left" \in Sides /\ "right" \in Sides /\ Other("left") = "right" /\ Other("right") = "left"
  BY TwoSides
<1>5. (Child(T, k, "left") = Leaf \/ Child(T, k, "right") = Leaf) /\ k = T.root
  <2>1. SUFFICES ASSUME Child(T, k, "left") # Leaf, Child(T, k, "right") # Leaf PROVE FALSE
    BY DEF Subst
  <2>2. T.root = Leftmost(T, Child(T, k, "right")) /\ Child(T, k, "right") \in C
    BY <1>1, <1>4, <2>1 DEF Subst, Linked
  <2>3. First(T, D[Child(T, k, "right")], T.root)
    BY <1>1, <2>2, LeftmostFirst
  <2>4. \A y \in C : k \in D[y] => T.root \in D[y] \ {y}
    <3> DEFINE s == T.root
    <3>1. First(T, D[Child(T, k, "right")], s)
      BY <2>3
    <3> HIDE DEF s, t, R, B
    <3>2. /\ s \in C /\ k < s
          /\ \A z \in C : z # k /\ z # s => (z < s <=> z < k)
          /\ \A y \in C : k \in D[y] => s \in D[y] \ {y}
      BY <1>1, <3>1, NextInOrder
    <3> QED
      BY <3>2 DEF s
  <2>5. T.root \in C /\ D[T.root] = C
    BY <1>1 DEF Linked, Sorted
  <2> QED
    BY <2>4, <2>5
<1>6. PICK e \in Sides : Child(T, k, e) = Leaf /\ t = Child(T, k, Other(e))
  <2>1. CASE Child(T, k, "left") = Leaf
    <3>1. t = Child(T, k, "right")
      BY <1>5, <2>1 DEF Temp, Subst
    <3> HIDE DEF t
    <3> QED
      BY <1>4, <2>1, <3>1
  <2>2. CASE Child(T, k, "left") # Leaf
    <3>1. t = Child(T, k, "left")
      BY <1>5, <2>2 DEF Temp, Subst
    <3> HIDE DEF t
    <3> QED
      BY <1>4, <1>5, <2>2, <3>1
  <2> QED
    BY <2>1, <2>2
<1> HIDE DEF t
<1>7. /\ Other(e) \in Sides /\ \A d \in Sides : d = e \/ d = Other(e)
      /\ t \in C \cup {Leaf} /\ t # k /\ Leaf \notin C /\ NULL \notin C \cup {Leaf}
      /\ C \cup {Leaf} \subseteq Cells /\ C \subseteq Keys
  <2>1. Other(e) \in Sides /\ \A d \in Sides : d = e \/ d = Other(e)
    BY TwoSides
  <2>2. Leaf \notin C /\ NULL \notin C \cup {Leaf} /\ C \cup {Leaf} \subseteq Cells
    BY <1>1, Apart, TreeAssumption
  <2>3. t \in C \cup {Leaf} /\ t # k
    BY <1>1, <1>6, <2>1, Apart DEF Linked
  <2> QED
    BY <1>1, <2>1, <2>2, <2>3 DEF Linked
<1>8. RootOut(T, R, C, k, t)
  BY <1>1, <1>7, RootOutLinks
<1> HIDE DEF R
<1>9. D[t] = B
  <2>1. D[k] = C /\ D[Leaf] = {}
    BY <1>1, <1>5 DEF Sorted
  <2>2. \A z \in C : z \in D[k] <=> z = k \/ z \in D[Leaf] \/ z \in D[t]
    BY <1>1, <1>6 DEF Sorted
  <2>3. k \notin D[t] /\ D[t] \subseteq C
    BY <1>1, <1>6, <1>7, Apart
  <2> QED
    BY <2>1, <2>2, <2>3
<1>10. ASSUME NEW z \in B, NEW d \in Sides
       PROVE  /\ Child(T, z, d) \in B \cup {Leaf}
              /\ Child(T, z, d) # Leaf => Child(T, z, d) # t /\ Parent(T, Child(T, z, d)) = z
  <2>1. Child(T, z, d) \in C \cup {Leaf} /\ Child(T, z, d) # k
    BY <1>1, <1>5, <1>7 DEF Linked
  <2>2. Child(T, z, d) # Leaf => Child(T, z, d) # t
    BY <1>1, <1>6, <1>7, Apart
  <2> QED
    BY <1>1, <2>1, <2>2 DEF Linked
<1>11. /\ R \in Trees /\ R.root = t /\ t \in B \cup {Leaf} /\ R.node[k] = Freed
       /\ \A z \in B, d \in Sides : Child(R, z, d) = Child(T, z, d)
       /\ \A z \in B : Parent(R, z) = Parent(T, z)
       /\ \A z \in B \cup {Leaf} : IsRed(R, z) = IF z = t THEN FALSE ELSE IsRed(T, z)
  BY <1>7, <1>8 DEF RootOut
<1>12. Linked(R, B)
  <2>1. ASSUME NEW z \in B, z # t
        PROVE  Parent(T, z) \in B /\ \E d \in Sides : Child(T, Parent(T, z), d) = z
    <3>1. PICK d \in Sides : Child(T, Parent(T, z), d) = z
      BY <1>1, <1>5 DEF Linked
    <3>2. Parent(T, z) # k
      BY <1>6, <1>7, <2>1, <3>1
    <3> QED
      BY <1>1, <1>5, <3>1, <3>2 DEF Linked
  <2>2. t = Leaf => B = {}
    BY <1>1, <1>9 DEF Sorted
  <2>3. ASSUME NEW z \in B, NEW d \in Sides
        PROVE  /\ Child(R, z, d) \in B \cup {Leaf}
               /\ Child(R, z, d) # Leaf => Child(R, z, d) # R.root /\ Parent(R, Child(R, z, d)) = z
    BY <1>10, <1>11
  <2>4. ASSUME NEW z \in B, z # R.root
        PROVE  Parent(R, z) \in B /\ \E d \in Sides : Child(R, Parent(R, z), d) = z
    BY <1>11, <2>1, <2>4
  <2> QED
    BY <1>7, <1>11, <2>2, <2>3, <2>4 DEF Linked
<1>13. \E E : Sorted(R, B, E)
  <2> DEFINE E == [y \in B \cup {Leaf} |-> D[y] \ {k}]
  <2>1. /\ E \in [B \cup {Leaf} -> SUBSET B] /\ E[Leaf] = {} /\ E[R.root] = B
        /\ \A y \in B \cup {Leaf}, w \in B : w \in E[y] <=> w \in D[y]
    <3>1. D[Leaf] = {} /\ \A y \in C \cup {Leaf} : D[y] \subseteq C
      BY <1>1 DEF Sorted
    <3> QED
      BY <1>9, <1>11, <3>1
  <2> HIDE DEF E
  <2>2. ASSUME NEW z \in B, NEW d \in Sides, NEW w \in B
        PROVE  w \in E[z] <=> w = z \/ w \in E[Child(R, z, d)] \/ w \in E[Child(R, z, Other(d))]
    <3>1. Other(d) \in Sides
      BY TwoSides
    <3>2. w \in D[z] <=> w = z \/ w \in D[Child(T, z, d)] \/ w \in D[Child(T, z, Other(d))]
      BY <1>1 DEF Sorted
    <3> QED
      BY <1>10, <1>11, <2>1, <3>1, <3>2
  <2>3. ASSUME NEW z \in B, NEW d \in Sides, NEW w \in E[Child(R, z, d)]
        PROVE  Less(d, w, z)
    <3>1. w \in D[Child(T, z, d)]
      BY <1>10, <1>11, <2>1
    <3> QED
      BY <1>1, <3>1 DEF Sorted
  <2>4. Sorted(R, B, E)
    BY <2>1, <2>2, <2>3 DEF Sorted
  <2> QED
    BY <2>4
<1>14. Level(R, B, [y \in B \cup {Leaf} |-> h[y]], NULL)
  <2> DEFINE g == [y \in B \cup {Leaf} |-> h[y]]
  <2>0. h \in [C \cup {Leaf} -> Nat] /\ h[Leaf] = 0
    BY <1>2 DEF Level
  <2>1. g \in [B \cup {Leaf} -> Nat] /\ g[Leaf] = 0 /\ \A y \in B \cup {Leaf} : g[y] = h[y]
    BY <2>0
  <2> HIDE DEF g
  <2>2. \A z, c \in C \cup {Leaf} : Lack(R, z, c, NULL) = 0 /\ Lack(T, z, c, NULL) = 0
    BY <1>7 DEF Lack
  <2>3. ASSUME NEW z \in B, NEW d \in Sides
        PROVE  g[z] = g[Child(R, z, d)] + Own(R, Child(R, z, d)) + Lack(R, z, Child(R, z, d), NULL)
    <3> DEFINE c == Child(T, z, d)
    <3>1. c \in B \cup {Leaf} /\ Child(R, z, d) = c /\ (c = Leaf \/ c # t)
      BY <1>10, <1>11
    <3>2. Own(R, c) = Own(T, c)
      BY <1>3, <1>11, <3>1 DEF Own
    <3>3. h[z] = h[c] + Own(T, c) + Lack(T, z, c, NULL)
      BY <1>2 DEF Level
    <3> HIDE DEF c
    <3> QED
      BY <2>1, <2>2, <3>1, <3>2, <3>3
  <2> QED
    BY <2>1, <2>3 DEF Level, g
<1>15. Colored(R, B, "idle", Leaf)
  <2>1. ~IsRed(R, Leaf) /\ ~IsRed(R, R.root)
    BY <1>3, <1>11
  <2>2. ASSUME NEW z \in B, NEW d \in Sides, IsRed(R, z), IsRed(R, Child(R, z, d))
        PROVE  FALSE
    BY <1>3, <1>10, <1>11, <2>2
  <2> QED
    BY <2>1, <2>2 DEF Colored
<1>16. Good(R, B, "idle", Leaf)
  BY <1>12, <1>13, <1>14, <1>15 DEF Good, HoleOf, Standing
<1> QED
  BY <1>8, <1>16 DEF R, t, RootOut, WithoutRoot

-----------------------------------------------------------------------------
(* Walks in order. *)

\* What a walk visits before the node it goes down from, and what it visits
\* when it comes back to node x
Ahead(T, D, top) == IF top = Leaf THEN {} ELSE D[Child(T, top, "left")]
Held(T, D, x) == {x} \cup D[Child(T, x, "right")]

\* The nodes not yet pushed
Pending(T, D, top, st) ==
    {x \in D[T.root] : \/ x \in Ahead(T, D, top)
                       \/ \E i \in 1 .. Len(st) : x \in D[Child(T, st[i], "right")]}

\* A walk visits next what is ahead of it, then what its stack holds, the last
\* pushed first; that is what it has not seen, and all after what it has.
Walking(T, C, D, top, st, seen) ==
    /\ top \in C \cup {Leaf} /\ st \in Seq(C) /\ seen \in Seq(C)
    /\ top # Leaf => Len(st) > 0 /\ top = st[Len(st)]
    /\ \A x \in C : \/ \E i \in 1 .. Len(seen) : x = seen[i]
                    \/ x \in Ahead(T, D, top)
                    \/ \E i \in 1 .. Len(st) : x \in Held(T, D, st[i])
    /\ \A i, j \in 1 .. Len(st) : i < j =>
          \A x \in Held(T, D, st[i]), y \in Held(T, D, st[j]) : y < x
    /\ \A i \in 1 .. Len(st) : \A x \in Ahead(T, D, top), y \in Held(T, D, st[i]) : x < y
    /\ \A i \in 1 .. Len(seen) :
          /\ \A y \in Ahead(T, D, top) : seen[i] < y
          /\ \A j \in 1 .. Len(st) : \A y \in Held(T, D, st[j]) : seen[i] < y
    /\ \A i, j \in 1 .. Len(seen) : i < j => seen[i] < seen[j]

\* A subtree falls into what is to the left of its root, and what its root holds.
LEMMA SubtreeSplit ==
    ASSUME NEW T, NEW C, NEW D, Linked(T, C), Sorted(T, C, D), NEW x \in C
    PROVE  /\ D[x] = Ahead(T, D, x) \cup Held(T, D, x)
           /\ \A y \in Ahead(T, D, x), z \in Held(T, D, x) : y < z
           /\ \A z \in D[Child(T, x, "right")] : x < z
           /\ x \notin Ahead(T, D, x) /\ x \notin D[Child(T, x, "right")]
           /\ D[x] \subseteq C /\ x \in Held(T, D, x)
<1>1. "left" \in Sides /\ "right" \in Sides /\ Other("left") = "right"
  BY TwoSides
<1>2. /\ x # Leaf /\ D[x] \subseteq C /\ C \subseteq Int
      /\ D[Child(T, x, "left")] \subseteq C /\ D[Child(T, x, "right")] \subseteq C
      /\ x \notin D[Child(T, x, "left")] /\ x \notin D[Child(T, x, "right")]
  BY <1>1, Apart
<1>3. \A z \in C : z \in D[x] <=> z = x \/ z \in D[Child(T, x, "left")] \/ z \in D[Child(T, x, "right")]
  BY <1>1 DEF Sorted
<1>4. /\ \A z \in D[Child(T, x, "left")] : z < x
      /\ \A z \in D[Child(T, x, "right")] : x < z
  BY <1>1 DEF Sorted, Less
<1>5. D[x] = Ahead(T, D, x) \cup Held(T, D, x)
  BY <1>2, <1>3 DEF Ahead, Held
<1>6. \A y \in Ahead(T, D, x), z \in Held(T, D, x) : y < z
  <2>1. SUFFICES ASSUME NEW y \in D[Child(T, x, "left")], NEW z \in {x} \cup D[Child(T, x, "right")]
                 PROVE  y < z
    BY <1>2 DEF Ahead, Held
  <2>2. y \in Int /\ x \in Int /\ z \in Int /\ y < x
    BY <1>2, <1>4
  <2> QED
    BY <1>4, <2>2
<1> QED
  BY <1>2, <1>4, <1>5, <1>6 DEF Ahead, Held

\* One push on the way down to the left
LEMMA PushWalks ==
    ASSUME NEW T, NEW C, NEW D, Linked(T, C), Sorted(T, C, D),
           NEW top, NEW st, NEW seen, Walking(T, C, D, top, st, seen),
           top # Leaf, NEW left, left = Child(T, top, "left"), left # Leaf
    PROVE  /\ Walking(T, C, D, left, Append(st, left), seen)
           /\ left \in Pending(T, D, top, st)
           /\ Pending(T, D, left, Append(st, left)) \subseteq Pending(T, D, top, st) \ {left}
<1> DEFINE pushed == Append(st, left)
           n == Len(st)
<1>1. top \in C /\ st \in Seq(C) /\ seen \in Seq(C) /\ n \in Nat /\ C \subseteq Int
  BY Apart DEF Walking
<1>2. left \in C
  BY <1>1, TwoSides DEF Linked
<1>3. pushed \in Seq(C) /\ Len(pushed) = n + 1 /\ pushed[n + 1] = left
      /\ \A i \in 1 .. n : pushed[i] = st[i]
  BY <1>1, <1>2
<1>4. Ahead(T, D, top) = Ahead(T, D, left) \cup Held(T, D, left)
      /\ (\A y \in Ahead(T, D, left), z \in Held(T, D, left) : y < z)
      /\ left \in Held(T, D, left) /\ left \notin Ahead(T, D, left)
      /\ left \notin D[Child(T, left, "right")] /\ D[left] \subseteq C
  <2>1. Ahead(T, D, top) = D[left]
    BY DEF Ahead
  <2> QED
    BY <1>2, <2>1, SubtreeSplit
<1> HIDE DEF pushed
<1>5. \A i \in 1 .. n : \A x \in Ahead(T, D, top), y \in Held(T, D, st[i]) : x < y
  BY DEF Walking
<1>6. Walking(T, C, D, left, pushed, seen)
  <2>1. \A i \in 1 .. n + 1 : i \in 1 .. n \/ i = n + 1
    BY <1>1
  <2>2. \A i \in 1 .. n + 1 : pushed[i] = IF i = n + 1 THEN left ELSE st[i]
    BY <1>1, <1>3
  <2>3. ASSUME NEW x \in C
        PROVE  \/ \E i \in 1 .. Len(seen) : x = seen[i]
               \/ x \in Ahead(T, D, left)
               \/ \E i \in 1 .. n + 1 : x \in Held(T, D, pushed[i])
    <3>1. \/ \E i \in 1 .. Len(seen) : x = seen[i]
          \/ x \in Ahead(T, D, top)
          \/ \E i \in 1 .. n : x \in Held(T, D, st[i])
      BY DEF Walking
    <3>2. ASSUME NEW i \in 1 .. n, x \in Held(T, D, st[i])
          PROVE  \E j \in 1 .. n + 1 : x \in Held(T, D, pushed[j])
      <4>1. i \in 1 .. n + 1 /\ x \in Held(T, D, pushed[i])
        BY <1>1, <1>3, <3>2
      <4> QED
        BY <4>1
    <3>3. ASSUME x \in Held(T, D, left)
          PROVE  \E j \in 1 .. n + 1 : x \in Held(T, D, pushed[j])
      <4>1. n + 1 \in 1 .. n + 1 /\ x \in Held(T, D, pushed[n + 1])
        BY <1>1, <1>3, <3>3
      <4> QED
        BY <4>1
    <3> QED
      BY <1>4, <3>1, <3>2, <3>3
  <2>4. ASSUME NEW i \in 1 .. n + 1, NEW j \in 1 .. n + 1, i < j,
               NEW x \in Held(T, D, pushed[i]), NEW y \in Held(T, D, pushed[j])
        PROVE  y < x
    <3>1. i \in 1 .. n /\ pushed[i] = st[i]
      BY <1>1, <1>3, <2>4
    <3>2. CASE j = n + 1
      BY <1>3, <1>4, <1>5, <2>4, <3>1, <3>2
    <3>3. CASE j \in 1 .. n
      <4>1. \A a, b \in 1 .. Len(st) : a < b =>
               \A u \in Held(T, D, st[a]), v \in Held(T, D, st[b]) : v < u
        BY DEF Walking
      <4> QED
        BY <1>3, <2>4, <3>1, <3>3, <4>1
    <3> QED
      BY <2>1, <3>2, <3>3
  <2>5. ASSUME NEW i \in 1 .. n + 1, NEW x \in Ahead(T, D, left), NEW y \in Held(T, D, pushed[i])
        PROVE  x < y
    BY <1>3, <1>4, <1>5, <2>1
  <2>6. ASSUME NEW i \in 1 .. Len(seen)
        PROVE  /\ \A y \in Ahead(T, D, left) : seen[i] < y
               /\ \A j \in 1 .. n + 1 : \A y \in Held(T, D, pushed[j]) : seen[i] < y
    <3>1. /\ \A y \in Ahead(T, D, top) : seen[i] < y
          /\ \A j \in 1 .. n : \A y \in Held(T, D, st[j]) : seen[i] < y
      BY DEF Walking
    <3> QED
      BY <1>3, <1>4, <2>1, <3>1
  <2>7. \A i, j \in 1 .. Len(seen) : i < j => seen[i] < seen[j]
    BY DEF Walking
  <2>8. Len(pushed) > 0 /\ left = pushed[Len(pushed)]
    BY <1>1, <1>3
  <2> QED
    BY <1>1, <1>2, <1>3, <2>3, <2>4, <2>5, <2>6, <2>7, <2>8 DEF Walking
<1>7. left \in Pending(T, D, top, st)
  <2>1. left \in D[T.root]
    BY <1>2 DEF Sorted
  <2> QED
    BY <1>4, <2>1 DEF Pending
<1>8. ASSUME NEW x \in Pending(T, D, left, pushed)
      PROVE  x \in Pending(T, D, top, st) /\ x # left
  <2>1. x \in D[T.root]
    BY DEF Pending
  <2>2. CASE x \in Ahead(T, D, left)
    BY <1>4, <2>1, <2>2 DEF Pending
  <2>3. CASE \E i \in 1 .. n + 1 : x \in D[Child(T, pushed[i], "right")]
    <3>1. PICK i \in 1 .. n + 1 : x \in D[Child(T, pushed[i], "right")]
      BY <2>3
    <3>2. CASE i = n + 1
      <4>1. x \in D[Child(T, left, "right")]
        BY <1>3, <3>1, <3>2
      <4>2. x \in Ahead(T, D, top) /\ x # left
        BY <1>4, <4>1 DEF Held
      <4> QED
        BY <2>1, <4>2 DEF Pending
    <3>3. CASE i \in 1 .. n
      <4>1. x \in D[Child(T, st[i], "right")]
        BY <1>3, <3>1, <3>3
      <4>2. x \in Held(T, D, st[i])
        BY <4>1 DEF Held
      <4>3. left < x /\ left \in Int
        BY <1>1, <1>2, <1>4, <1>5, <3>3, <4>2
      <4> QED
        BY <2>1, <3>3, <4>1, <4>3 DEF Pending
    <3> QED
      BY <1>1, <3>2, <3>3
  <2> QED
    BY <1>3, <1>8, <2>2, <2>3 DEF Pending
<1> QED
  BY <1>6, <1>7, <1>8 DEF pushed

\* One pop: the walk goes on at the right child, if there is one.
LEMMA VisitWalks ==
    ASSUME NEW T, NEW C, NEW D, Linked(T, C), Sorted(T, C, D),
           NEW top, NEW st, NEW seen, Walking(T, C, D, top, st, seen),
           top = Leaf \/ Child(T, top, "left") = Leaf, Len(st) > 0,
           NEW v, v = st[Len(st)], NEW right, right = Child(T, v, "right"),
           NEW rest, rest \in Seq(C), \A i \in 1 .. Len(st) - 1 : rest[i] = st[i],
           right = Leaf => Len(rest) = Len(st) - 1,
           right # Leaf => Len(rest) = Len(st) /\ rest[Len(st)] = right
    PROVE  /\ Walking(T, C, D, right, rest, Append(seen, v))
           /\ v \in C /\ \A i \in 1 .. Len(seen) : seen[i] # v
           /\ Pending(T, D, right, rest) \subseteq Pending(T, D, top, st)
<1> DEFINE now == Append(seen, v)
           n == Len(st)
<1>1. st \in Seq(C) /\ seen \in Seq(C) /\ n \in Nat /\ n > 0 /\ n \in 1 .. n /\ C \subseteq Int
      /\ Len(seen) \in Nat
  BY Apart DEF Walking
<1>2. v \in C /\ v = st[n]
  BY <1>1
<1>3. right \in C \cup {Leaf}
  BY <1>2, TwoSides DEF Linked
<1>4. now \in Seq(C) /\ Len(now) = Len(seen) + 1 /\ now[Len(seen) + 1] = v
      /\ \A i \in 1 .. Len(seen) : now[i] = seen[i]
  BY <1>1, <1>2
<1> HIDE DEF now
<1>5. Ahead(T, D, top) = {}
  BY DEF Ahead, Sorted
<1>6. Held(T, D, v) = {v} \cup D[right] /\ D[right] \subseteq C /\ \A z \in D[right] : v < z
  BY <1>2, TwoSides, Apart, SubtreeSplit DEF Held
<1>7. /\ Ahead(T, D, right) \subseteq D[right]
      /\ right = Leaf => D[right] = {} /\ Ahead(T, D, right) = {}
      /\ right # Leaf => /\ Held(T, D, right) \subseteq D[right]
                         /\ D[right] = Ahead(T, D, right) \cup Held(T, D, right)
                         /\ \A y \in Ahead(T, D, right), z \in Held(T, D, right) : y < z
  <2>1. CASE right = Leaf
    BY <2>1 DEF Ahead, Sorted
  <2>2. CASE right # Leaf
    <3>1. right \in C
      BY <1>3, <2>2
    <3> QED
      BY <2>2, <3>1, SubtreeSplit
  <2> QED
    BY <2>1, <2>2
<1>8. \A i \in 1 .. n : \A y \in Held(T, D, st[i]) : i < n => (v < y /\ \A x \in D[right] : x < y)
  <2>1. \A i, j \in 1 .. Len(st) : i < j =>
           \A x \in Held(T, D, st[i]), y \in Held(T, D, st[j]) : y < x
    BY DEF Walking
  <2> QED
    BY <1>1, <1>2, <1>6, <2>1
<1>9. /\ Len(rest) \in {n - 1, n}
      /\ \A i \in 1 .. Len(rest) : \/ i \in 1 .. n /\ i < n /\ rest[i] = st[i]
                                   \/ i = n /\ right # Leaf /\ rest[i] = right
  <2>1. Len(rest) \in {n - 1, n}
    OBVIOUS
  <2>2. ASSUME NEW i \in 1 .. Len(rest)
        PROVE  \/ i \in 1 .. n /\ i < n /\ rest[i] = st[i]
               \/ i = n /\ right # Leaf /\ rest[i] = right
    <3>1. i \in 1 .. n
      BY <1>1, <2>1
    <3>2. CASE i = n
      <4>1. right # Leaf
        BY <1>1, <3>2
      <4> QED
        BY <3>2, <4>1
    <3>3. CASE i # n
      <4>1. i \in 1 .. n - 1 /\ i < n
        BY <1>1, <3>1, <3>3
      <4> QED
        BY <3>1, <4>1
    <3> QED
      BY <3>2, <3>3
  <2> QED
    BY <2>1, <2>2
<1>10. \A i \in 1 .. n - 1 : i \in 1 .. Len(rest) /\ i \in 1 .. n /\ rest[i] = st[i]
  BY <1>1, <1>9
<1>11. \A i \in 1 .. Len(seen) :
          /\ \A y \in {v} \cup D[right] : seen[i] < y
          /\ \A j \in 1 .. n : \A y \in Held(T, D, st[j]) : seen[i] < y
  <2>1. \A i \in 1 .. Len(seen) : \A j \in 1 .. n : \A y \in Held(T, D, st[j]) : seen[i] < y
    BY DEF Walking
  <2> QED
    BY <1>1, <1>2, <1>6, <2>1
<1>12. Walking(T, C, D, right, rest, now)
  <2>1. right # Leaf => Len(rest) > 0 /\ right = rest[Len(rest)]
    BY <1>1
  <2>2. ASSUME NEW x \in C
        PROVE  \/ \E i \in 1 .. Len(now) : x = now[i]
               \/ x \in Ahead(T, D, right)
               \/ \E i \in 1 .. Len(rest) : x \in Held(T, D, rest[i])
    <3>1. \/ \E i \in 1 .. Len(seen) : x = seen[i]
          \/ \E i \in 1 .. n : x \in Held(T, D, st[i])
      BY <1>5 DEF Walking
    <3>2. ASSUME NEW i \in 1 .. Len(seen), x = seen[i]
          PROVE  \E j \in 1 .. Len(now) : x = now[j]
      <4>1. i \in 1 .. Len(now) /\ x = now[i]
        BY <1>1, <1>4, <3>2
      <4> QED
        BY <4>1
    <3>3. ASSUME NEW i \in 1 .. n, x \in Held(T, D, st[i]), i # n
          PROVE  \E j \in 1 .. Len(rest) : x \in Held(T, D, rest[j])
      <4>1. i \in 1 .. n - 1
        BY <1>1, <3>3
      <4> QED
        BY <1>10, <3>3, <4>1
    <3>4. ASSUME x = v
          PROVE  \E j \in 1 .. Len(now) : x = now[j]
      <4>1. Len(seen) + 1 \in 1 .. Len(now)
        BY <1>1, <1>4
      <4> QED
        BY <1>4, <3>4, <4>1
    <3>5. ASSUME x \in D[right]
          PROVE  \/ x \in Ahead(T, D, right)
                 \/ \E j \in 1 .. Len(rest) : x \in Held(T, D, rest[j])
      <4>1. right # Leaf => n \in 1 .. Len(rest) /\ rest[n] = right
        BY <1>1
      <4> QED
        BY <1>7, <3>5, <4>1
    <3> QED
      BY <1>2, <1>6, <3>1, <3>2, <3>3, <3>4, <3>5
  <2>3. ASSUME NEW i \in 1 .. Len(rest), NEW j \in 1 .. Len(rest), i < j,
               NEW x \in Held(T, D, rest[i]), NEW y \in Held(T, D, rest[j])
        PROVE  y < x
    <3>0. i \in Int /\ j \in Int
      OBVIOUS
    <3>1. i \in 1 .. n /\ i < n /\ rest[i] = st[i]
      BY <1>1, <1>9, <2>3, <3>0
    <3>2. CASE j = n /\ rest[j] = right /\ right # Leaf
      BY <1>7, <1>8, <2>3, <3>1, <3>2
    <3>3. CASE j \in 1 .. n /\ rest[j] = st[j]
      <4>1. \A a, b \in 1 .. Len(st) : a < b =>
               \A u \in Held(T, D, st[a]), w \in Held(T, D, st[b]) : w < u
        BY DEF Walking
      <4> QED
        BY <2>3, <3>1, <3>3, <4>1
    <3> QED
      BY <1>9, <3>2, <3>3
  <2>4. ASSUME NEW i \in 1 .. Len(rest), NEW x \in Ahead(T, D, right), NEW y \in Held(T, D, rest[i])
        PROVE  x < y
    <3>1. CASE i \in 1 .. n /\ i < n /\ rest[i] = st[i]
      BY <1>7, <1>8, <2>4, <3>1
    <3>2. CASE i = n /\ right # Leaf /\ rest[i] = right
      BY <1>7, <2>4, <3>2
    <3> QED
      BY <1>9, <3>1, <3>2
  <2>5. ASSUME NEW i \in 1 .. Len(now)
        PROVE  /\ \A y \in Ahead(T, D, right) : now[i] < y
               /\ \A j \in 1 .. Len(rest) : \A y \in Held(T, D, rest[j]) : now[i] < y
    <3>1. CASE i \in 1 .. Len(seen)
      <4>1. now[i] = seen[i]
        BY <1>4, <3>1
      <4>2. \A y \in Ahead(T, D, right) : seen[i] < y
        BY <1>7, <1>11, <3>1
      <4>3. ASSUME NEW j \in 1 .. Len(rest), NEW y \in Held(T, D, rest[j])
            PROVE  seen[i] < y
        BY <1>7, <1>9, <1>11, <3>1, <4>3
      <4> QED
        BY <4>1, <4>2, <4>3
    <3>2. CASE i = Len(seen) + 1
      <4>1. now[i] = v
        BY <1>4, <3>2
      <4>2. \A y \in Ahead(T, D, right) : v < y
        BY <1>6, <1>7
      <4>3. ASSUME NEW j \in 1 .. Len(rest), NEW y \in Held(T, D, rest[j])
            PROVE  v < y
        BY <1>6, <1>7, <1>8, <1>9, <4>3
      <4> QED
        BY <4>1, <4>2, <4>3
    <3> QED
      BY <1>1, <1>4, <3>1, <3>2
  <2>6. ASSUME NEW i \in 1 .. Len(now), NEW j \in 1 .. Len(now), i < j
        PROVE  now[i] < now[j]
    <3>1. i \in 1 .. Len(seen) /\ now[i] = seen[i]
      BY <1>1, <1>4, <2>6
    <3>2. CASE j = Len(seen) + 1
      BY <1>4, <1>11, <3>1, <3>2
    <3>3. CASE j \in 1 .. Len(seen)
      <4>1. \A a, b \in 1 .. Len(seen) : a < b => seen[a] < seen[b]
        BY DEF Walking
      <4> QED
        BY <1>4, <2>6, <3>1, <3>3, <4>1
    <3> QED
      BY <1>1, <1>4, <3>2, <3>3
  <2> QED
    BY <1>3, <1>4, <2>1, <2>2, <2>3, <2>4, <2>5, <2>6 DEF Walking
<1>13. \A i \in 1 .. Len(seen) : seen[i] # v
  <2>1. \A i \in 1 .. Len(seen) : seen[i] < v
    BY <1>11
  <2> QED
    BY <1>1, <1>2, <2>1
<1>14. ASSUME NEW x \in Pending(T, D, right, rest)
       PROVE  x \in Pending(T, D, top, st)
  <2>1. x \in D[T.root] /\ \/ x \in Ahead(T, D, right)
                           \/ \E i \in 1 .. Len(rest) : x \in D[Child(T, rest[i], "right")]
    BY DEF Pending
  <2>2. \E i \in 1 .. n : x \in D[Child(T, st[i], "right")]
    <3>1. CASE x \in D[right]
      BY <1>1, <1>2, <3>1
    <3>2. CASE \E i \in 1 .. Len(rest) : x \in D[Child(T, rest[i], "right")]
      <4>1. PICK i \in 1 .. Len(rest) : x \in D[Child(T, rest[i], "right")]
        BY <3>2
      <4>2. CASE i \in 1 .. n /\ rest[i] = st[i]
        BY <4>1, <4>2
      <4>3. CASE right # Leaf /\ rest[i] = right
        <5>1. x \in D[right]
          BY <1>7, <4>1, <4>3 DEF Held
        <5> QED
          BY <1>1, <1>2, <5>1
      <4> QED
        BY <1>9, <4>2, <4>3
    <3> QED
      BY <1>7, <2>1, <3>1, <3>2
  <2> QED
    BY <2>1, <2>2 DEF Pending
<1> QED
  BY <1>2, <1>12, <1>13, <1>14 DEF now

\* A walk after n steps: those that are left suffice.
Unseen(C, seen) == {x \in C : \A i \in 1 .. Len(seen) : seen[i] # x}
Spent(T, C, D, w, n) ==
    /\ w \in [top : C \cup {Leaf}, st : Seq(C), seen : Seq(C)]
    /\ Walking(T, C, D, w.top, w.st, w.seen)
    /\ \/ Len(w.st) = 0
       \/ n + Cardinality(Pending(T, D, w.top, w.st)) + Cardinality(Unseen(C, w.seen))
             <= 2 * Cardinality(C)

\* A push or a visit uses up one of the steps that are left.
LEMMA WalkStep ==
    ASSUME NEW T, NEW C, NEW D, Linked(T, C), Sorted(T, C, D), IsFiniteSet(C), T.root # Leaf,
           NEW w, NEW n \in Nat, Spent(T, C, D, w, n)
    PROVE  Spent(T, C, D, Stepped(T, w), n + 1)
<1> DEFINE left == IF w.top = Leaf THEN Leaf ELSE Child(T, w.top, "left")
           v == Last(w.st)
           right == Child(T, v, "right")
           u == Stepped(T, w)
           P(x) == Pending(T, D, x.top, x.st)
<1>1. /\ w \in [top : C \cup {Leaf}, st : Seq(C), seen : Seq(C)]
      /\ Walking(T, C, D, w.top, w.st, w.seen)
      /\ w.top \in C \cup {Leaf} /\ w.st \in Seq(C) /\ w.seen \in Seq(C) /\ Len(w.st) \in Nat
      /\ Leaf \notin C
  BY Apart DEF Spent
<1>2. \A x : P(x) \subseteq C /\ IsFiniteSet(P(x)) /\ Cardinality(P(x)) \in Nat
  <2>1. D[T.root] = C
    BY DEF Sorted
  <2>2. \A x : P(x) \subseteq C
    BY <2>1 DEF Pending
  <2> HIDE DEF P
  <2> QED
    BY <2>2, FS_Subset, FS_CardinalityType
<1>3. \A seen : /\ Unseen(C, seen) \subseteq C /\ IsFiniteSet(Unseen(C, seen))
                /\ Cardinality(Unseen(C, seen)) \in Nat
  <2>1. \A seen : Unseen(C, seen) \subseteq C
    BY DEF Unseen
  <2> QED
    BY <2>1, FS_Subset, FS_CardinalityType
<1>4. Cardinality(C) \in Nat
  BY FS_CardinalityType
<1>5. CASE left # Leaf
  <2>1. w.top # Leaf /\ left = Child(T, w.top, "left") /\ w.top \in C
    BY <1>1, <1>5
  <2>2. left \in C
    BY <1>5, <2>1, TwoSides DEF Linked
  <2>3. u = [top |-> left, st |-> Append(w.st, left), seen |-> w.seen]
    BY <1>5 DEF Stepped
  <2> HIDE DEF left, u
  <2>4. /\ u \in [top : C \cup {Leaf}, st : Seq(C), seen : Seq(C)]
        /\ u.top = left /\ u.st = Append(w.st, left) /\ u.seen = w.seen
    BY <1>1, <2>2, <2>3
  <2>5. /\ Walking(T, C, D, left, Append(w.st, left), w.seen)
        /\ left \in Pending(T, D, w.top, w.st)
        /\ Pending(T, D, left, Append(w.st, left)) \subseteq Pending(T, D, w.top, w.st) \ {left}
    BY <1>1, <1>5, <2>1, PushWalks
  <2>6. left \in P(w) /\ P(u) \subseteq P(w) \ {left}
    BY <2>4, <2>5
  <2>7. Len(w.st) > 0
    BY <1>1, <2>1 DEF Walking
  <2>8. n + Cardinality(P(w)) + Cardinality(Unseen(C, w.seen)) <= 2 * Cardinality(C)
    BY <2>7 DEF Spent
  <2>9. Walking(T, C, D, u.top, u.st, u.seen)
    BY <2>4, <2>5
  <2> HIDE DEF P
  <2>10. IsFiniteSet(P(w) \ {left}) /\ Cardinality(P(w) \ {left}) = Cardinality(P(w)) - 1
    BY <1>2, <2>6, FS_RemoveElement
  <2>11. Cardinality(P(u)) <= Cardinality(P(w)) - 1
    BY <2>6, <2>10, FS_Subset
  <2>12. n + 1 + Cardinality(P(u)) + Cardinality(Unseen(C, u.seen)) <= 2 * Cardinality(C)
    BY <1>2, <1>3, <1>4, <2>4, <2>8, <2>11
  <2> QED
    BY <2>4, <2>9, <2>12 DEF Spent, P, u
<1>6. CASE left = Leaf /\ Len(w.st) = 0
  <2>1. w.st = << >>
    BY <1>1, <1>6
  <2>2. u = w
    BY <1>6, <2>1 DEF Stepped
  <2> QED
    BY <1>6, <2>2 DEF Spent
<1>7. CASE left = Leaf /\ Len(w.st) > 0
  <2> DEFINE rest == IF right = Leaf THEN Front(w.st) ELSE Append(Front(w.st), right)
  <2>1. w.st # << >> /\ (w.top = Leaf \/ Child(T, w.top, "left") = Leaf)
    BY <1>1, <1>7
  <2>2. u = [top |-> right, st |-> rest, seen |-> Append(w.seen, v)]
    <3>1. w.st # << >>
      BY <1>7
    <3> QED
      BY <1>7, <3>1 DEF Stepped, Descent
  <2>3. v = w.st[Len(w.st)] /\ v \in C
    BY <1>1, <1>7 DEF Last
  <2>4. right \in C \cup {Leaf}
    BY <2>3, TwoSides DEF Linked
  <2>5. /\ Front(w.st) \in Seq(C) /\ Len(Front(w.st)) = Len(w.st) - 1
        /\ \A i \in 1 .. Len(w.st) - 1 : Front(w.st)[i] = w.st[i]
    <3> DEFINE s == w.st
               k == Len(w.st) - 1
    <3>1. s \in Seq(C) /\ k \in Nat /\ \A i \in 1 .. k : i \in 1 .. Len(s) /\ s[i] \in C
      BY <1>1, <1>7
    <3>2. Front(s) = SubSeq(s, 1, k)
      BY DEF Front
    <3> HIDE DEF s, k
    <3>3. /\ SubSeq(s, 1, k) \in Seq(C) /\ Len(SubSeq(s, 1, k)) = k
          /\ \A i \in 1 .. k : SubSeq(s, 1, k)[i] = s[i]
      BY <3>1
    <3> QED
      BY <3>2, <3>3 DEF s, k
  <2> HIDE DEF left, v, right, u
  <2>6. /\ rest \in Seq(C) /\ \A i \in 1 .. Len(w.st) - 1 : rest[i] = w.st[i]
        /\ right = Leaf => Len(rest) = Len(w.st) - 1
        /\ right # Leaf => Len(rest) = Len(w.st) /\ rest[Len(w.st)] = right
    <3>1. CASE right = Leaf
      BY <2>5, <3>1
    <3>2. CASE right # Leaf
      <4>1. right \in C /\ rest = Append(Front(w.st), right)
        BY <2>4, <3>2
      <4> HIDE DEF rest
      <4> QED
        BY <1>1, <1>7, <2>5, <3>2, <4>1
    <3> QED
      BY <3>1, <3>2
  <2> HIDE DEF rest
  <2>7. /\ u \in [top : C \cup {Leaf}, st : Seq(C), seen : Seq(C)]
        /\ u.top = right /\ u.st = rest /\ u.seen = Append(w.seen, v)
    BY <1>1, <2>2, <2>3, <2>4, <2>6
  <2>8. right = Child(T, v, "right")
    BY DEF right
  <2>9. /\ Walking(T, C, D, right, rest, Append(w.seen, v))
        /\ \A i \in 1 .. Len(w.seen) : w.seen[i] # v
        /\ Pending(T, D, right, rest) \subseteq Pending(T, D, w.top, w.st)
    BY <1>1, <1>7, <2>1, <2>3, <2>6, <2>8, VisitWalks
  <2>10. Walking(T, C, D, u.top, u.st, u.seen)
    BY <2>7, <2>9
  <2>11. P(u) \subseteq P(w)
    BY <2>7, <2>9
  <2>12. n + Cardinality(P(w)) + Cardinality(Unseen(C, w.seen)) <= 2 * Cardinality(C)
    BY <1>7 DEF Spent
  <2> HIDE DEF P
  <2>13. Cardinality(P(u)) <= Cardinality(P(w))
    BY <1>2, <2>11, FS_Subset
  <2>14. v \in Unseen(C, w.seen) /\ Unseen(C, u.seen) \subseteq Unseen(C, w.seen) \ {v}
    <3>1. v \in Unseen(C, w.seen)
      BY <2>3, <2>9 DEF Unseen
    <3>2. /\ Len(u.seen) = Len(w.seen) + 1 /\ u.seen[Len(w.seen) + 1] = v
          /\ \A i \in 1 .. Len(w.seen) : i \in 1 .. Len(u.seen) /\ u.seen[i] = w.seen[i]
          /\ Len(w.seen) + 1 \in 1 .. Len(u.seen)
      BY <1>1, <2>3, <2>7
    <3>3. \A x \in Unseen(C, u.seen) : x \in Unseen(C, w.seen) /\ x # v
      BY <3>2 DEF Unseen
    <3> QED
      BY <3>1, <3>3
  <2>15. /\ IsFiniteSet(Unseen(C, w.seen) \ {v})
         /\ Cardinality(Unseen(C, w.seen) \ {v}) = Cardinality(Unseen(C, w.seen)) - 1
    BY <1>3, <2>14, FS_RemoveElement
  <2>16. Cardinality(Unseen(C, u.seen)) <= Cardinality(Unseen(C, w.seen)) - 1
    BY <2>14, <2>15, FS_Subset
  <2>17. n + 1 + Cardinality(P(u)) + Cardinality(Unseen(C, u.seen)) <= 2 * Cardinality(C)
    BY <1>2, <1>3, <1>4, <2>12, <2>13, <2>16
  <2> QED
    BY <2>7, <2>10, <2>17 DEF Spent, P, u
<1> QED
  BY <1>1, <1>5, <1>6, <1>7

\* A walk visits all the nodes in their order.
LEMMA WalkedAll ==
    ASSUME NEW T, NEW C, NEW D, Linked(T, C), Sorted(T, C, D), IsFiniteSet(C), C = InMemory(T)
    PROVE  /\ Walked(T) \in Seq(C) /\ Range(Walked(T)) = C
           /\ \A i \in 1 .. Len(Walked(T)) - 1 : Walked(T)[i] < Walked(T)[i + 1]
<1>1. CASE T.root = Leaf
  <2>1. Walked(T) = << >> /\ C = {}
    BY <1>1 DEF Walked, Linked
  <2> QED
    BY <2>1 DEF Range
<1>2. CASE T.root # Leaf
  <2> DEFINE w0 == [top |-> T.root, st |-> <<T.root>>, seen |-> << >>]
             steps == 2 * Cardinality(InMemory(T))
             Is(f, m) == f = [n \in 0 .. m |-> IF n = 0 THEN w0 ELSE Stepped(T, f[n - 1])]
             walk == CHOOSE f : Is(f, steps)
             W == Walked(T)
  <2>1. Walked(T) = walk[steps].seen
    BY <1>2 DEF Walked
  <2>2. steps \in Nat /\ steps = 2 * Cardinality(C) /\ Cardinality(C) \in Nat
    BY FS_CardinalityType
  <2> HIDE DEF w0, steps
  <2>3. \E f : Is(f, steps)
    <3> DEFINE Done == {m \in Nat : \E f : Is(f, m)}
    <3>1. 0 \in Done
      <4>1. Is([n \in 0 .. 0 |-> w0], 0)
        OBVIOUS
      <4> QED
        BY <4>1
    <3>2. ASSUME NEW m \in Done
          PROVE  m + 1 \in Done
      <4>1. PICK f : Is(f, m)
        OBVIOUS
      <4> DEFINE g == [n \in 0 .. m + 1 |-> IF n = 0 THEN w0 ELSE Stepped(T, f[n - 1])]
      <4>2. m \in Nat
        OBVIOUS
      <4>3. \A n \in 0 .. m : g[n] = f[n]
        BY <4>1, <4>2
      <4>4. \A n \in 0 .. m + 1 : n # 0 => g[n] = Stepped(T, g[n - 1])
        <5>1. ASSUME NEW n \in 0 .. m + 1, n # 0
              PROVE  g[n] = Stepped(T, g[n - 1])
          <6>1. n - 1 \in 0 .. m /\ g[n] = Stepped(T, f[n - 1])
            BY <4>2, <5>1
          <6> QED
            BY <4>3, <6>1
        <5> QED
          BY <5>1
      <4>5. g[0] = w0 /\ 0 \in 0 .. m + 1
        BY <4>2
      <4>6. Is(g, m + 1)
        <5>1. g = [n \in 0 .. m + 1 |-> g[n]]
          OBVIOUS
        <5> HIDE DEF g
        <5>2. [n \in 0 .. m + 1 |-> g[n]]
                 = [n \in 0 .. m + 1 |-> IF n = 0 THEN w0 ELSE Stepped(T, g[n - 1])]
          BY <4>4, <4>5
        <5> QED
          BY <5>1, <5>2
      <4> HIDE DEF g
      <4>7. m + 1 \in Nat /\ \E fn : Is(fn, m + 1)
        BY <4>2, <4>6
      <4> QED
        BY <4>7
    <3>3. Done \in SUBSET Nat
      OBVIOUS
    <3> HIDE DEF Done
    <3>4. Done = Nat
      BY <3>1, <3>2, <3>3, SetInduction
    <3> QED
      BY <2>2, <3>4 DEF Done
  <2>4. Is(walk, steps)
    BY <2>3
  <2> HIDE DEF walk
  <2>5. walk[0] = w0 /\ \A n \in 0 .. steps : n # 0 => walk[n] = Stepped(T, walk[n - 1])
    BY <2>2, <2>4
  <2> HIDE DEF Is
  <2>6. T.root \in C /\ D[T.root] = C
    BY <1>2 DEF Linked, Sorted
  <2>7. Spent(T, C, D, w0, 0)
    <3>1. /\ w0 \in [top : C \cup {Leaf}, st : Seq(C), seen : Seq(C)]
          /\ w0.top = T.root /\ w0.st = <<T.root>> /\ w0.seen = << >>
          /\ Len(<<T.root>>) = 1 /\ <<T.root>>[1] = T.root /\ Len(<< >>) = 0
          /\ <<T.root>> \in Seq(C) /\ << >> \in Seq(C)
      BY <2>6 DEF w0
    <3>2. D[T.root] = Ahead(T, D, T.root) \cup Held(T, D, T.root)
          /\ \A y \in Ahead(T, D, T.root), z \in Held(T, D, T.root) : y < z
      BY <2>6, SubtreeSplit
    <3> DEFINE st == <<T.root>>
               seen == << >>
    <3>3. st \in Seq(C) /\ Len(st) = 1 /\ st[1] = T.root /\ seen \in Seq(C) /\ Len(seen) = 0
      BY <3>1
    <3> HIDE DEF st, seen
    <3>4. Walking(T, C, D, T.root, st, seen)
      <4>1. \A i \in 1 .. Len(st) : i = 1
        BY <3>3
      <4>2. 1 \in 1 .. Len(st) /\ 1 .. Len(seen) = {}
        BY <3>3
      <4>3. \A x \in C : \/ x \in Ahead(T, D, T.root)
                         \/ \E i \in 1 .. Len(st) : x \in Held(T, D, st[i])
        BY <2>6, <3>2, <3>3, <4>2
      <4>4. \A i, j \in 1 .. Len(st) : ~(i < j)
        BY <4>1
      <4>5. \A i \in 1 .. Len(st) : \A x \in Ahead(T, D, T.root), y \in Held(T, D, st[i]) : x < y
        BY <3>2, <3>3, <4>1
      <4> QED
        BY <2>6, <3>3, <4>2, <4>3, <4>4, <4>5 DEF Walking
    <3>5. Pending(T, D, T.root, st) \subseteq C /\ Unseen(C, seen) \subseteq C
      BY <2>6 DEF Pending, Unseen
    <3>6. /\ Cardinality(Pending(T, D, T.root, st)) \in Nat
          /\ Cardinality(Pending(T, D, T.root, st)) <= Cardinality(C)
          /\ Cardinality(Unseen(C, seen)) \in Nat
          /\ Cardinality(Unseen(C, seen)) <= Cardinality(C)
      BY <3>5, FS_Subset, FS_CardinalityType
    <3>7. 0 + Cardinality(Pending(T, D, T.root, st)) + Cardinality(Unseen(C, seen))
             <= 2 * Cardinality(C)
      BY <2>2, <3>6
    <3> QED
      BY <3>1, <3>4, <3>7 DEF Spent, st, seen
  <2>8. \A n \in 0 .. steps : Spent(T, C, D, walk[n], n)
    <3> DEFINE Done == {n \in Nat : n \in 0 .. steps => Spent(T, C, D, walk[n], n)}
    <3>1. 0 \in Done
      BY <2>5, <2>7
    <3>2. ASSUME NEW n \in Done
          PROVE  n + 1 \in Done
      <4>1. n \in Nat
        OBVIOUS
      <4>2. ASSUME n + 1 \in 0 .. steps
            PROVE  Spent(T, C, D, walk[n + 1], n + 1)
        <5>1. n \in 0 .. steps /\ n + 1 # 0 /\ (n + 1) - 1 = n
          BY <2>2, <4>1, <4>2
        <5>2. walk[n + 1] = Stepped(T, walk[n])
          BY <2>5, <4>2, <5>1
        <5>3. Spent(T, C, D, walk[n], n)
          BY <5>1
        <5>4. Spent(T, C, D, Stepped(T, walk[n]), n + 1)
          BY <1>2, <4>1, <5>3, WalkStep
        <5> QED
          BY <5>2, <5>4
      <4> QED
        BY <4>1, <4>2
    <3>3. Done \in SUBSET Nat
      OBVIOUS
    <3> HIDE DEF Done
    <3>4. Done = Nat
      BY <3>1, <3>2, <3>3, SetInduction
    <3> QED
      BY <2>2, <3>4 DEF Done
  <2> DEFINE w == walk[steps]
  <2>9. Spent(T, C, D, w, steps)
    BY <2>2, <2>8
  <2> HIDE DEF w
  <2>10. /\ w \in [top : C \cup {Leaf}, st : Seq(C), seen : Seq(C)]
         /\ Walking(T, C, D, w.top, w.st, w.seen) /\ w.st \in Seq(C) /\ w.seen \in Seq(C)
    BY <2>9 DEF Spent
  <2>11. Len(w.st) = 0
    <3>1. SUFFICES ASSUME Len(w.st) # 0 PROVE FALSE
      OBVIOUS
    <3>2. steps + Cardinality(Pending(T, D, w.top, w.st)) + Cardinality(Unseen(C, w.seen))
             <= 2 * Cardinality(C)
      BY <2>9, <3>1 DEF Spent
    <3> DEFINE v == w.st[Len(w.st)]
    <3>3. v \in C /\ Len(w.st) \in 1 .. Len(w.st)
      BY <2>10, <3>1
    <3>4. v \in Unseen(C, w.seen)
      <4>1. v \in Held(T, D, v)
        BY DEF Held
      <4>2. \A i \in 1 .. Len(w.seen) : w.seen[i] < v
        BY <2>10, <3>3, <4>1 DEF Walking
      <4>3. v \in Int
        BY <3>3, Apart
      <4> QED
        BY <3>3, <4>2, <4>3 DEF Unseen
    <3> HIDE DEF v
    <3>5. Pending(T, D, w.top, w.st) \subseteq C /\ Unseen(C, w.seen) \subseteq C
      BY <2>6 DEF Pending, Unseen
    <3>6. /\ Cardinality(Pending(T, D, w.top, w.st)) \in Nat
          /\ IsFiniteSet(Unseen(C, w.seen)) /\ Cardinality(Unseen(C, w.seen)) \in Nat
      BY <3>5, FS_Subset, FS_CardinalityType
    <3>7. Cardinality(Unseen(C, w.seen)) = 0
      BY <2>2, <3>2, <3>6
    <3> QED
      BY <3>4, <3>6, <3>7, FS_EmptySet
  <2>12. w.top = Leaf
    BY <2>10, <2>11 DEF Walking
  <2>13. \A x \in C : \E i \in 1 .. Len(w.seen) : x = w.seen[i]
    BY <2>10, <2>11, <2>12 DEF Walking, Ahead
  <2>14. Range(w.seen) = C
    <3>1. \A i \in 1 .. Len(w.seen) : w.seen[i] \in C
      BY <2>10
    <3>2. DOMAIN w.seen = 1 .. Len(w.seen)
      BY <2>10
    <3> QED
      BY <2>13, <3>1, <3>2 DEF Range
  <2>15. \A i \in 1 .. Len(w.seen) - 1 : w.seen[i] < w.seen[i + 1]
    <3>1. \A i, j \in 1 .. Len(w.seen) : i < j => w.seen[i] < w.seen[j]
      BY <2>10 DEF Walking
    <3>2. Len(w.seen) \in Nat
      BY <2>10
    <3> QED
      BY <3>1, <3>2
  <2> QED
    BY <2>1, <2>10, <2>14, <2>15 DEF w
<1> QED
  BY <1>1, <1>2

\* A tree that was cleared
LEMMA ClearGood ==
    ASSUME NEW T, NEW C, Good(T, C, "idle", Leaf), IsFiniteSet(C), C = InMemory(T)
    PROVE  LET R == [root |-> Leaf,
                     node |-> [x \in DOMAIN T.node |->
                                 IF x \in Range(Walked(T)) THEN Freed ELSE T.node[x]]]
           IN  Good(R, {}, "idle", Leaf) /\ \A z \in Keys : R.node[z] = Freed
<1> DEFINE R == [root |-> Leaf,
                 node |-> [x \in DOMAIN T.node |->
                             IF x \in Range(Walked(T)) THEN Freed ELSE T.node[x]]]
<1>1. PICK D : Linked(T, C) /\ Sorted(T, C, D)
  BY DEF Good
<1>2. Range(Walked(T)) = C
  BY <1>1, WalkedAll
<1>3. Freed \in Node /\ Leaf \in Cells /\ Leaf \notin C /\ Keys \subseteq Cells
  BY <1>1, Apart DEF Freed, Node, Link, Cells
<1>4. R \in Trees /\ R.root = Leaf /\ \A z \in Cells : R.node[z] = IF z \in C THEN Freed ELSE T.node[z]
  BY <1>1, <1>2, <1>3 DEF Linked, Trees
<1> HIDE DEF R
<1>5. ~IsRed(R, Leaf)
  <2>1. Colored(T, C, "idle", Leaf)
    BY DEF Good
  <2> QED
    BY <1>3, <1>4, <2>1 DEF Colored, IsRed
<1>6. Linked(R, {}) /\ Sorted(R, {}, [y \in {Leaf} |-> {}])
  BY <1>4 DEF Linked, Sorted
<1>7. Level(R, {}, [y \in {Leaf} |-> 0], NULL) /\ Colored(R, {}, "idle", Leaf)
  BY <1>4, <1>5 DEF Level, Colored
<1>8. Good(R, {}, "idle", Leaf)
  BY <1>6, <1>7 DEF Good, HoleOf, Standing
<1>9. \A z \in Keys : R.node[z] = Freed
  BY <1>3, <1>4 DEF InMemory
<1> QED
  BY <1>8, <1>9 DEF R

-----------------------------------------------------------------------------
(* The inductive invariant. *)

\* The memory that is in use is the tree's, but for a node about to be freed.
LEMMA MemoryIs ==
    ASSUME NEW R, NEW B, Linked(R, B), NEW k, k \notin B,
           \A z \in Keys : z \notin B /\ z # k => R.node[z] = Freed
    PROVE  InMemory(R) \ {k} = B
<1>1. B \subseteq Keys /\ NULL \notin B \cup {Leaf}
  BY TreeAssumption DEF Linked
<1>2. ASSUME NEW z \in B
      PROVE  R.node[z] # Freed
  <2>1. Child(R, z, "left") \in B \cup {Leaf}
    BY TwoSides DEF Linked
  <2> QED
    BY <1>1, <2>1 DEF Child, Freed
<1> QED
  BY <1>1, <1>2 DEF InMemory

\* The call in progress
CallOK ==
    /\ mode \in {"idle", "set", "pop", "popped"}
    /\ at \in Cells /\ popped \in Keys \cup {NULL} /\ found \in BOOLEAN
    /\ mode \in {"idle", "set"} <=> popped = NULL
    /\ mode = "idle" => at = Leaf

\* The inductive invariant: the tree is good where the call stands, and its
\* nodes are what is in memory.
IInv == CallOK /\ length = Cardinality(Contents) /\ Good(tree, Contents, mode, at)

\* What the steps' proofs need of it
LEMMA IInvFacts ==
    ASSUME IInv
    PROVE  /\ IsFiniteSet(Contents) /\ Contents \subseteq Keys /\ popped \notin Contents
           /\ Linked(tree, Contents) /\ Cardinality(Contents) \in Nat
           /\ \A z \in Keys : z \notin Contents /\ z # popped => tree.node[z] = Freed
           /\ mode \in {"idle", "set"} => Contents = InMemory(tree)
<1>1. Contents \subseteq Keys /\ popped \notin Contents
      /\ \A z \in Keys : z \notin Contents /\ z # popped => tree.node[z] = Freed
  BY DEF Contents, InMemory
<1>2. IsFiniteSet(Contents) /\ Cardinality(Contents) \in Nat
  BY <1>1, TreeAssumption, FS_Subset, FS_CardinalityType
<1>3. Linked(tree, Contents)
  BY DEF IInv, Good
<1>4. mode \in {"idle", "set"} => Contents = InMemory(tree)
  BY TreeAssumption DEF IInv, CallOK, Contents, InMemory
<1> QED
  BY <1>1, <1>2, <1>3, <1>4

\* The invariant after a step that leaves a good tree of the nodes B and has
\* freed every other node but the one it will free.
LEMMA StepKeeps ==
    ASSUME NEW B, Good(tree', B, mode', at'), popped' \notin B,
           \A z \in Keys : z \notin B /\ z # popped' => tree'.node[z] = Freed,
           CallOK', length' = Cardinality(B)
    PROVE  IInv' /\ Contents' = B
<1>1. Linked(tree', B)
  BY DEF Good
<1>2. Contents' = B
  BY <1>1, MemoryIs DEF Contents
<1> QED
  BY <1>2 DEF IInv

\* A step of a repair changes no memory that is not the tree's.
LEMMA RepairKeeps ==
    ASSUME IInv, Good(tree', Contents, mode', at'), Elsewhere(tree, tree', Contents),
           popped' = popped, length' = length, CallOK'
    PROVE  IInv' /\ Contents' = Contents
<1>1. popped \notin Contents
      /\ \A z \in Keys : z \notin Contents /\ z # popped => tree.node[z] = Freed
  BY IInvFacts
<1>2. \A z \in Keys : z \notin Contents /\ z # popped => tree'.node[z] = Freed
  BY <1>1 DEF Elsewhere, Cells
<1>3. length' = Cardinality(Contents)
  BY DEF IInv
<1> QED
  BY <1>1, <1>2, <1>3, StepKeeps

\* open_rbtree makes a good tree that is empty.
LEMMA InitIInv == Init => IInv /\ Contents = {}
<1> SUFFICES ASSUME Init PROVE IInv /\ Contents = {}
  OBVIOUS
<1>2. /\ tree.root = Leaf /\ tree \in Trees /\ \A z \in Cells : tree.node[z] = Freed
  <2>1. Freed \in Node /\ Leaf \in Cells
    BY DEF Freed, Node, Link, Cells
  <2>2. tree = [root |-> Leaf, node |-> [x \in Cells |-> Freed]]
    BY DEF Init, Cells
  <2> QED
    BY <2>1, <2>2 DEF Trees
<1>3. Contents = {}
  BY <1>2 DEF Contents, InMemory, Cells
<1>4. ~IsRed(tree, Leaf)
  BY <1>2 DEF IsRed, Cells, Freed
<1>5. Linked(tree, {}) /\ Sorted(tree, {}, [y \in {Leaf} |-> {}])
  BY <1>2 DEF Linked, Sorted
<1>6. Level(tree, {}, [y \in {Leaf} |-> 0], NULL) /\ Colored(tree, {}, "idle", Leaf)
  BY <1>2, <1>4 DEF Level, Colored
<1>7. Good(tree, {}, "idle", Leaf)
  BY <1>5, <1>6 DEF Good, HoleOf, Standing
<1>8. CallOK /\ mode = "idle" /\ at = Leaf /\ length = 0
  <2>1. mode = "idle" /\ at = Leaf /\ popped = NULL /\ found = FALSE /\ length = 0
    BY DEF Init
  <2> QED
    BY <2>1 DEF CallOK, Cells
<1>9. length = Cardinality({})
  BY <1>8, FS_EmptySet
<1> QED
  BY <1>3, <1>7, <1>8, <1>9 DEF IInv

\* A look-up, and the removal of a key that is not there
LEMMA LookUpKeeps ==
    ASSUME IInv, NEW k \in Keys, Get(k) \/ PopMissing(k)
    PROVE  IInv' /\ Contents' = Contents /\ (found' <=> k \in Contents)
<1>1. mode = "idle" /\ UNCHANGED <<tree, length, mode, at, popped>> /\ found' \in BOOLEAN
      /\ (found' <=> Has(tree, k))
  BY DEF Get, PopMissing, Has
<1>2. Has(tree, k) <=> k \in Contents
  <2>1. PICK D : Linked(tree, Contents) /\ Sorted(tree, Contents, D)
    BY DEF IInv, Good
  <2> QED
    BY <1>1, <2>1, IInvFacts, HasFinds
<1>3. Contents' = Contents
  BY <1>1 DEF Contents
<1>4. CallOK'
  BY <1>1 DEF IInv, CallOK
<1>5. IInv'
  BY <1>1, <1>3, <1>4 DEF IInv
<1> QED
  BY <1>1, <1>2, <1>3, <1>5

\* rbtree_set of a new key adds it, and its repair stands at the new node.
LEMMA SetKeeps ==
    ASSUME IInv, NEW k \in Keys, Set(k)
    PROVE  IInv' /\ Contents' = Contents \cup {k}
<1> DEFINE C == Contents
<1>1. /\ mode = "idle" /\ ~Has(tree, k) /\ tree' = Inserted(tree, k) /\ length' = length + 1
      /\ mode' = "set" /\ at' = k /\ popped' = popped /\ found' = found
  BY DEF Set
<1>2. /\ IsFiniteSet(C) /\ C = InMemory(tree) /\ popped \notin C /\ Cardinality(C) \in Nat
      /\ \A z \in Keys : z \notin C /\ z # popped => tree.node[z] = Freed
  BY <1>1, IInvFacts
<1>3. at = Leaf /\ popped = NULL /\ Good(tree, C, "idle", Leaf) /\ length = Cardinality(C)
  BY <1>1 DEF IInv, CallOK
<1> HIDE DEF C
<1>4. k \notin C
  <2>1. PICK D : Linked(tree, C) /\ Sorted(tree, C, D)
    BY <1>3 DEF Good
  <2> QED
    BY <1>1, <1>2, <2>1, HasFinds
<1>5. /\ Good(tree', C \cup {k}, "set", k)
      /\ \A z \in Cells : z \notin C \cup {k} => tree'.node[z] = tree.node[z]
  BY <1>1, <1>2, <1>3, <1>4, InsertGood
<1>6. popped' \notin C \cup {k}
  BY <1>1, <1>2, <1>3, TreeAssumption
<1>7. \A z \in Keys : z \notin C \cup {k} /\ z # popped' => tree'.node[z] = Freed
  BY <1>1, <1>2, <1>5 DEF Cells
<1>8. length' = Cardinality(C \cup {k})
  BY <1>1, <1>2, <1>3, <1>4, FS_AddElement
<1>9. CallOK'
  BY <1>1 DEF IInv, CallOK, Cells
<1> QED
  BY <1>1, <1>5, <1>6, <1>7, <1>8, <1>9, StepKeeps DEF C

\* rbtree_fast_pop takes the key out, and its repair stands at what took the
\* place of the node that left.
LEMMA PopKeeps ==
    ASSUME IInv, NEW k \in Keys, Pop(k)
    PROVE  IInv' /\ Contents' = Contents \ {k} /\ k \in Contents /\ found' = TRUE
<1> DEFINE C == Contents
           m == IF IsRed(tree, Subst(tree, k)) THEN "popped" ELSE "pop"
<1>1. /\ mode = "idle" /\ Has(tree, k) /\ Subst(tree, k) # tree.root
      /\ tree' = Unlinked(tree, k) /\ length' = length - 1
      /\ mode' = m /\ at' = Temp(tree, k) /\ popped' = k /\ found' = TRUE
  BY DEF Pop
<1>2. /\ IsFiniteSet(C) /\ C = InMemory(tree) /\ popped \notin C /\ Cardinality(C) \in Nat
      /\ \A z \in Keys : z \notin C /\ z # popped => tree.node[z] = Freed
  BY <1>1, IInvFacts
<1>3. at = Leaf /\ popped = NULL /\ Good(tree, C, "idle", Leaf) /\ length = Cardinality(C)
  BY <1>1 DEF IInv, CallOK
<1> HIDE DEF C
<1>4. k \in C
  <2>1. PICK D : Linked(tree, C) /\ Sorted(tree, C, D)
    BY <1>3 DEF Good
  <2> QED
    BY <1>1, <1>2, <2>1, HasFinds
<1>5. /\ Good(tree', C \ {k}, m, Temp(tree, k))
      /\ \A z \in Keys : z \notin C => tree'.node[z] = tree.node[z]
  BY <1>1, <1>2, <1>3, <1>4, PopGood
<1>6. \A z \in Keys : z \notin C \ {k} /\ z # popped' => tree'.node[z] = Freed
  BY <1>1, <1>2, <1>3, <1>5, TreeAssumption
<1>7. length' = Cardinality(C \ {k})
  BY <1>1, <1>2, <1>3, <1>4, FS_RemoveElement
<1>8. Temp(tree, k) \in Cells
  <2>1. Linked(tree, C) /\ \E D : Sorted(tree, C, D)
    BY <1>3 DEF Good
  <2>2. ASSUME NEW z \in C, NEW s \in Sides
        PROVE  Child(tree, z, s) \in Cells
    BY <2>1, Apart DEF Linked
  <2>3. Subst(tree, k) \in C
    <3>1. CASE Child(tree, k, "left") = Leaf \/ Child(tree, k, "right") = Leaf
      BY <1>4, <3>1 DEF Subst
    <3>2. CASE ~(Child(tree, k, "left") = Leaf \/ Child(tree, k, "right") = Leaf)
      <4>1. PICK D : Sorted(tree, C, D)
        BY <2>1
      <4>2. Child(tree, k, "right") \in C
        BY <1>4, <2>1, <3>2, TwoSides DEF Linked
      <4>3. First(tree, D[Child(tree, k, "right")], Leftmost(tree, Child(tree, k, "right")))
        BY <1>2, <2>1, <4>1, <4>2, LeftmostFirst
      <4>4. D[Child(tree, k, "right")] \subseteq C
        BY <2>1, <4>1, <4>2, Apart
      <4> QED
        BY <3>2, <4>3, <4>4 DEF Subst, First
    <3> QED
      BY <3>1, <3>2
  <2> QED
    BY <1>4, <2>2, <2>3, TwoSides DEF Temp
<1>9. CallOK'
  BY <1>1, <1>8, TreeAssumption DEF IInv, CallOK
<1>10. popped' \notin C \ {k}
  BY <1>1
<1> HIDE DEF m
<1> QED
  BY <1>1, <1>4, <1>5, <1>6, <1>7, <1>9, <1>10, StepKeeps DEF C

\* rbtree_fast_pop of a root with one child at most needs no repair.
LEMMA PopRootKeeps ==
    ASSUME IInv, NEW k \in Keys, PopRoot(k)
    PROVE  IInv' /\ Contents' = Contents \ {k} /\ k \in Contents /\ found' = TRUE
<1> DEFINE C == Contents
           R == WithoutRoot(tree, k)
<1>1. /\ mode = "idle" /\ Has(tree, k) /\ Subst(tree, k) = tree.root
      /\ tree' = WithoutRoot(tree, k)
      /\ length' = length - 1 /\ mode' = mode /\ at' = at /\ popped' = popped /\ found' = TRUE
  BY DEF PopRoot, WithoutRoot
<1>2. /\ IsFiniteSet(C) /\ C = InMemory(tree) /\ popped \notin C /\ Cardinality(C) \in Nat
      /\ \A z \in Keys : z \notin C /\ z # popped => tree.node[z] = Freed
  BY <1>1, IInvFacts
<1>3. at = Leaf /\ popped = NULL /\ Good(tree, C, "idle", Leaf) /\ length = Cardinality(C)
  BY <1>1 DEF IInv, CallOK
<1> HIDE DEF C
<1>4. k \in C
  <2>1. PICK D : Linked(tree, C) /\ Sorted(tree, C, D)
    BY <1>3 DEF Good
  <2> QED
    BY <1>1, <1>2, <2>1, HasFinds
<1>0. /\ Good(R, C \ {k}, "idle", Leaf)
      /\ R.node[k] = Freed /\ \A z \in Keys : z \notin C => R.node[z] = tree.node[z]
  BY <1>1, <1>2, <1>3, <1>4, PopRootGood
<1>5. /\ Good(tree', C \ {k}, "idle", Leaf) /\ tree'.node[k] = Freed
      /\ \A z \in Keys : z \notin C => tree'.node[z] = tree.node[z]
  <2>1. tree' = R
    BY <1>1
  <2> HIDE DEF R
  <2> QED
    BY <1>0, <2>1
<1>6. \A z \in Keys : z \notin C \ {k} /\ z # popped' => tree'.node[z] = Freed
  BY <1>1, <1>2, <1>5
<1>7. length' = Cardinality(C \ {k})
  BY <1>1, <1>2, <1>3, <1>4, FS_RemoveElement
<1>8. CallOK'
  BY <1>1 DEF IInv, CallOK
<1>9. popped' \notin C \ {k}
  BY <1>1, <1>2
<1> HIDE DEF R
<1> QED
  BY <1>1, <1>3, <1>4, <1>5, <1>6, <1>7, <1>8, <1>9, StepKeeps DEF C

\* rbtree_clear frees every node.
LEMMA ClearKeeps ==
    ASSUME IInv, Clear
    PROVE  IInv' /\ Contents' = {} /\ found' = found
<1> DEFINE C == Contents
<1>1. /\ mode = "idle"
      /\ tree' = [root |-> Leaf,
                  node |-> [x \in DOMAIN tree.node |->
                              IF x \in Range(Walked(tree)) THEN Freed ELSE tree.node[x]]]
      /\ length' = 0 /\ mode' = mode /\ at' = at /\ popped' = popped /\ found' = found
  BY DEF Clear
<1>2. IsFiniteSet(C) /\ C = InMemory(tree)
  BY <1>1, IInvFacts
<1>3. at = Leaf /\ Good(tree, C, "idle", Leaf)
  BY <1>1 DEF IInv, CallOK
<1> HIDE DEF C
<1>4. Good(tree', {}, "idle", Leaf) /\ \A z \in Keys : tree'.node[z] = Freed
  BY <1>1, <1>2, <1>3, ClearGood
<1>5. CallOK'
  BY <1>1 DEF IInv, CallOK
<1>6. length' = Cardinality({})
  BY <1>1, FS_EmptySet
<1>7. Good(tree', {}, mode', at')
  BY <1>1, <1>3, <1>4
<1>8. IInv' /\ Contents' = {}
  BY <1>4, <1>5, <1>6, <1>7, StepKeeps
<1> QED
  BY <1>1, <1>8

\* The node a repair stands at is in the tree, or the sentinel.
LEMMA StandsIn ==
    ASSUME NEW T, NEW m \in {"set", "pop"}, NEW a, Good(T, Contents, m, a)
    PROVE  a \in Cells
<1>1. a \in Contents \cup {Leaf}
  BY DEF Good, Standing
<1> QED
  BY <1>1 DEF Contents, InMemory, Cells

\* An iteration of a repair keeps the invariant when what it makes of the tree
\* is good.
LEMMA IterationKeeps ==
    ASSUME IInv, mode \in {"set", "pop"}, Good(tree', Contents, mode, at'),
           Elsewhere(tree, tree', Contents), UNCHANGED <<length, mode, popped, found>>
    PROVE  IInv' /\ Contents' = Contents /\ found' = found
<1>1. at' \in Cells
  BY StandsIn
<1>2. CallOK'
  BY <1>1 DEF IInv, CallOK
<1> QED
  BY <1>2, RepairKeeps

\* The step that recolours
LEMMA RecolorKeeps ==
    ASSUME IInv, RecolorUp
    PROVE  IInv' /\ Contents' = Contents /\ found' = found
<1> DEFINE p == Parent(tree, at)
           g == Parent(tree, p)
           uncle == Child(tree, g, Other(SideOf(tree, p)))
<1>1. /\ mode = "set" /\ at # tree.root /\ IsRed(tree, p) /\ IsRed(tree, uncle)
      /\ tree' = Painted(Painted(Painted(tree, p, FALSE), uncle, FALSE), g, TRUE)
      /\ at' = g /\ UNCHANGED <<length, mode, popped, found>>
  BY DEF RecolorUp, RedParent
<1>2. Good(tree, Contents, "set", at)
  BY <1>1 DEF IInv
<1>3. Good(tree', Contents, "set", g) /\ Elsewhere(tree, tree', Contents)
  BY <1>1, <1>2, RecolorGood
<1> HIDE DEF p, g, uncle
<1> QED
  BY <1>1, <1>3, IterationKeeps

\* The step that rotates
LEMMA RotateKeeps ==
    ASSUME IInv, RotateUp
    PROVE  IInv' /\ Contents' = Contents /\ found' = found
<1> DEFINE p == Parent(tree, at)
           g == Parent(tree, p)
           side == SideOf(tree, p)
           inner == SideOf(tree, at) # side
           S == IF inner THEN Rotated(tree, p, side) ELSE tree
           q == IF inner THEN at ELSE p
           b == IF inner THEN p ELSE at
<1>1. /\ mode = "set" /\ at # tree.root /\ IsRed(tree, p)
      /\ ~IsRed(tree, Child(tree, g, Other(side)))
      /\ tree' = Rotated(Painted(Painted(S, q, FALSE), g, TRUE), g, Other(side))
      /\ at' = b /\ UNCHANGED <<length, mode, popped, found>>
  BY DEF RotateUp, RedParent
<1>2. Good(tree, Contents, "set", at)
  BY <1>1 DEF IInv
<1>3. Good(tree', Contents, "set", b) /\ Elsewhere(tree, tree', Contents)
  BY <1>1, <1>2, RotateGood
<1> HIDE DEF p, g, side, inner, S, q, b
<1> QED
  BY <1>1, <1>3, IterationKeeps

\* The end of an insertion's repair
LEMMA SetEndsKeeps ==
    ASSUME IInv, SetEnds
    PROVE  IInv' /\ Contents' = Contents /\ found' = found
<1>1. /\ mode = "set" /\ ~(at # tree.root /\ IsRed(tree, Parent(tree, at)))
      /\ tree' = RootPainted(tree) /\ mode' = "idle" /\ at' = Leaf
      /\ length' = length /\ popped' = popped /\ found' = found
  BY DEF SetEnds, RedParent
<1>2. Good(tree, Contents, "set", at)
  BY <1>1 DEF IInv
<1>3. Good(tree', Contents, "idle", Leaf) /\ Elsewhere(tree, tree', Contents)
  BY <1>1, <1>2, SetEndsGood
<1>4. CallOK'
  BY <1>1 DEF IInv, CallOK, Cells
<1> QED
  BY <1>1, <1>3, <1>4, RepairKeeps

\* The first half of an iteration of a removal's repair
LEMMA SiblingStands ==
    ASSUME IInv, mode = "pop", LacksBlack
    PROVE  LET p == Parent(tree, at)
               side == SideOf(tree, at)
               T == SiblingBlack(tree, p, side)
           IN  /\ \E h : Lacking(T, Contents, at, p, side, h)
               /\ ~IsRed(T, Child(T, p, Other(side)))
               /\ Elsewhere(tree, T, Contents)
<1> DEFINE p == Parent(tree, at)
           side == SideOf(tree, at)
           T == SiblingBlack(tree, p, side)
<1>1. Good(tree, Contents, "pop", at) /\ at # tree.root /\ ~IsRed(tree, at)
  BY DEF IInv, LacksBlack
<1>2. PICK h : Lacking(tree, Contents, at, p, side, h)
  BY <1>1, PopStands
<1> HIDE DEF p, side
<1>3. /\ Lacking(T, Contents, at, p, side, h)
      /\ ~IsRed(T, Child(T, p, Other(side)))
      /\ Elsewhere(tree, T, Contents)
  BY <1>2, SiblingTurned
<1> HIDE DEF T
<1>4. /\ \E k : Lacking(T, Contents, at, p, side, k)
      /\ ~IsRed(T, Child(T, p, Other(side)))
      /\ Elsewhere(tree, T, Contents)
  BY <1>3
<1> QED
  BY <1>4 DEF p, side, T

\* The step that reddens the sibling
LEMMA PopUpKeeps ==
    ASSUME IInv, PopUp
    PROVE  IInv' /\ Contents' = Contents /\ found' = found
<1> DEFINE p == Parent(tree, at)
           side == SideOf(tree, at)
           T == SiblingBlack(tree, p, side)
           w == Child(T, p, Other(side))
<1>1. /\ mode = "pop" /\ LacksBlack /\ BothBlack(T, w) /\ tree' = Painted(T, w, TRUE)
      /\ at' = p /\ UNCHANGED <<length, mode, popped, found>>
  BY DEF PopUp, NextUp
<1>2. /\ \E h : Lacking(T, Contents, at, p, side, h)
      /\ ~IsRed(T, w) /\ Elsewhere(tree, T, Contents)
  BY <1>1, SiblingStands
<1> HIDE DEF p, side, T
<1>3. PICK h : Lacking(T, Contents, at, p, side, h)
  BY <1>2
<1>4. Good(Painted(T, w, TRUE), Contents, "pop", p) /\ Elsewhere(T, Painted(T, w, TRUE), Contents)
  BY <1>1, <1>2, <1>3, PopUpGood
<1> HIDE DEF w
<1>5. Good(tree', Contents, "pop", at') /\ Elsewhere(tree, tree', Contents)
  BY <1>1, <1>2, <1>4 DEF Elsewhere
<1> QED
  BY <1>1, <1>5, IterationKeeps

\* The step that borrows a black from the sibling
LEMMA PopBorrowKeeps ==
    ASSUME IInv, PopBorrow
    PROVE  IInv' /\ Contents' = Contents /\ found' = found
<1> DEFINE p == Parent(tree, at)
           side == SideOf(tree, at)
           T == SiblingBlack(tree, p, side)
           S == FarRed(T, p, side)
           w == Child(S, p, Other(side))
<1>1. /\ mode = "pop" /\ LacksBlack /\ ~BothBlack(T, Child(T, p, Other(side)))
      /\ tree' = Borrowed(S, p, side)
      /\ at' = tree'.root /\ UNCHANGED <<length, mode, popped, found>>
  BY DEF PopBorrow
<1>2. /\ \E h : Lacking(T, Contents, at, p, side, h)
      /\ ~IsRed(T, Child(T, p, Other(side))) /\ Elsewhere(tree, T, Contents)
  BY <1>1, SiblingStands
<1> HIDE DEF p, side, T
<1>3. PICK h : Lacking(T, Contents, at, p, side, h)
  BY <1>2
<1>4. /\ Lacking(S, Contents, at, p, side, h)
      /\ ~IsRed(S, w) /\ IsRed(S, Child(S, w, Other(side))) /\ Elsewhere(T, S, Contents)
  BY <1>1, <1>2, <1>3, FarTurned
<1> HIDE DEF S
<1> DEFINE R == Borrowed(S, p, side)
<1>5. Good(R, Contents, "pop", R.root) /\ Elsewhere(S, R, Contents)
  BY <1>4, BorrowGood
<1> HIDE DEF w
<1>6. tree' = R /\ at' = R.root
  BY <1>1
<1> HIDE DEF R
<1>7. Good(tree', Contents, "pop", at') /\ Elsewhere(tree, tree', Contents)
  BY <1>2, <1>4, <1>5, <1>6 DEF Elsewhere
<1> QED
  BY <1>1, <1>7, IterationKeeps

\* The end of a removal: the node that left the tree is freed.
LEMMA PopEndsKeeps ==
    ASSUME IInv, PopEnds
    PROVE  IInv' /\ Contents' = Contents /\ found' = found
<1> DEFINE R == Ended(tree, mode, at, popped)
<1>1. /\ mode = "popped" \/ (mode = "pop" /\ ~(at # tree.root /\ ~IsRed(tree, at)))
      /\ tree' = R /\ mode' = "idle" /\ at' = Leaf /\ popped' = NULL
      /\ length' = length /\ found' = found
  BY DEF PopEnds, LacksBlack, Ended
<1>2. popped \in Keys \ Contents /\ length = Cardinality(Contents)
      /\ Good(tree, Contents, mode, at)
      /\ \A z \in Keys : z \notin Contents /\ z # popped => tree.node[z] = Freed
  BY <1>1, IInvFacts DEF IInv, CallOK
<1>3. /\ Good(R, Contents, "idle", Leaf) /\ R.node[popped] = Freed
      /\ \A z \in Cells : z \notin Contents /\ z # popped => R.node[z] = tree.node[z]
  BY <1>1, <1>2, PopEndsGood
<1> HIDE DEF R
<1>4. \A z \in Keys : z \notin Contents => R.node[z] = Freed
  BY <1>2, <1>3 DEF Cells
<1>5. CallOK'
  BY <1>1 DEF IInv, CallOK, Cells
<1>6. popped' \notin Contents
  BY <1>1, TreeAssumption DEF Contents, InMemory
<1>7. /\ Good(tree', Contents, mode', at') /\ length' = Cardinality(Contents)
      /\ \A z \in Keys : z \notin Contents /\ z # popped' => tree'.node[z] = Freed
  BY <1>1, <1>2, <1>3, <1>4
<1> QED
  BY <1>1, <1>5, <1>6, <1>7, StepKeeps

\* A step that changes nothing
LEMMA StutterKeeps ==
    ASSUME IInv, UNCHANGED vars
    PROVE  IInv' /\ Contents' = Contents /\ found' = found
<1>1. /\ tree' = tree /\ length' = length /\ mode' = mode /\ at' = at
      /\ popped' = popped /\ found' = found
  BY DEF vars
<1>2. Contents' = Contents
  BY <1>1 DEF Contents
<1>3. CallOK'
  BY <1>1 DEF IInv, CallOK
<1> QED
  BY <1>1, <1>2, <1>3 DEF IInv

\* A step of a repair is none of the container's.
LEMMA RepairStep ==
    ASSUME IInv, Repair
    PROVE  IInv' /\ Contents' = Contents /\ found' = found
<1>1. CASE RecolorUp
  BY <1>1, RecolorKeeps
<1>2. CASE RotateUp
  BY <1>2, RotateKeeps
<1>3. CASE SetEnds
  BY <1>3, SetEndsKeeps
<1>4. CASE PopUp
  BY <1>4, PopUpKeeps
<1>5. CASE PopBorrow
  BY <1>5, PopBorrowKeeps
<1>6. CASE PopEnds
  BY <1>6, PopEndsKeeps
<1> QED
  BY <1>1, <1>2, <1>3, <1>4, <1>5, <1>6 DEF Repair

\* Every step keeps the invariant and is one of the container's, or none.
LEMMA NextKeeps ==
    ASSUME IInv, [Next]_vars
    PROVE  IInv' /\ [Container!Next]_(Container!vars)
<1> USE DEF Container!Next, Container!vars
<1>1. ASSUME NEW k \in Keys, Get(k) \/ PopMissing(k)
      PROVE  IInv' /\ Container!Get(k)
  <2>1. IInv' /\ Contents' = Contents /\ (found' <=> k \in Contents)
    BY <1>1, LookUpKeeps
  <2>2. found' \in BOOLEAN
    BY <2>1 DEF IInv, CallOK
  <2> QED
    BY <2>1, <2>2 DEF Container!Get
<1>2. ASSUME NEW k \in Keys, Set(k)
      PROVE  IInv' /\ Container!Set(k)
  <2>1. found' = found
    BY <1>2 DEF Set
  <2> QED
    BY <1>2, <2>1, SetKeeps DEF Container!Set
<1>3. ASSUME NEW k \in Keys, PopRoot(k) \/ Pop(k)
      PROVE  IInv' /\ Container!Pop(k)
  <2>1. IInv' /\ Contents' = Contents \ {k} /\ k \in Contents /\ found' = TRUE
    BY <1>3, PopKeeps, PopRootKeeps
  <2>2. found' = (k \in Contents)
    BY <2>1
  <2> QED
    BY <2>1, <2>2 DEF Container!Pop
<1>4. ASSUME Clear
      PROVE  IInv' /\ Container!Clear
  BY <1>4, ClearKeeps DEF Container!Clear
<1>5. ASSUME Repair \/ UNCHANGED vars
      PROVE  IInv' /\ UNCHANGED Container!vars
  BY <1>5, RepairStep, StutterKeeps
<1> QED
  BY <1>1, <1>2, <1>3, <1>4, <1>5 DEF Next

\* After every step of every series of calls the tree is good where the call
\* stands: the links agree, the nodes are in order, the ways down have the same
\* number of black nodes with the one that lacks where the call stands.
THEOREM Invariance == Spec => []IInv
<1>1. Init => IInv
  BY InitIInv
<1>2. IInv /\ [Next]_vars => IInv'
  BY NextKeeps
<1> QED
  BY <1>1, <1>2, PTL DEF Spec

\* rbtree_fast_set, rbtree_fast_pop and their rotations keep the links of the
\* tree's nodes in agreement, and no link leads to a node that was freed.
THEOREM LinksStayAgreed == Spec => []LinksAgree
<1>1. ASSUME IInv PROVE LinksAgree
  <2>1. Linked(tree, Contents) /\ CallOK /\ length = Cardinality(Contents)
    BY <1>1 DEF IInv, Good
  <2>2. TypeOK
    BY <2>1 DEF TypeOK, Linked, Trees, CallOK, Cells
  <2>3. tree.root # Leaf => tree.root \in Contents
    BY <2>1 DEF Linked
  <2>4. ASSUME NEW x \in Contents, NEW side \in Sides, Child(tree, x, side) # Leaf
        PROVE  /\ Child(tree, x, side) \in Contents /\ Child(tree, x, side) # tree.root
               /\ Parent(tree, Child(tree, x, side)) = x
    BY <2>1, <2>4 DEF Linked
  <2> QED
    BY <2>2, <2>3, <2>4 DEF LinksAgree
<1>2. IInv => LinksAgree
  BY <1>1
<1> QED
  BY <1>2, Invariance, PTL

\* The numbers of black nodes below x, those below its children being f
Added(x, c) ==
    IF mode = "pop" /\ c = at /\ (c = Leaf => Parent(tree, Leaf) = x) THEN 1 ELSE 0
HeightsBelow(f, x) ==
    IF x = Leaf THEN {0}
    ELSE UNION {{n + Own(tree, Child(tree, x, s)) + Added(x, Child(tree, x, s)) :
                    n \in f[Child(tree, x, s)]} : s \in Sides}

\* There is one number of black nodes on the ways from the root down.
LEMMA OneHeight ==
    ASSUME IInv
    PROVE  Cardinality(BlackHeights) = 1
<1> DEFINE C == Contents
           Is(f) == f = [x \in C \cup {Leaf} |-> HeightsBelow(f, x)]
           down == CHOOSE f : Is(f)
<1>1. BlackHeights = down[tree.root]
  BY DEF BlackHeights, HeightsBelow, Own, Added
<1> HIDE DEF down
<1>2. PICK D : Linked(tree, C) /\ Sorted(tree, C, D)
  BY DEF IInv, Good
<1>3. PICK h : Level(tree, C, h, HoleOf(mode, at))
  BY DEF IInv, Good
<1>4. IsFiniteSet(C)
  BY IInvFacts
<1>5. Leaf \notin C /\ NULL \notin C /\ NULL # Leaf
  BY <1>2, Apart, TreeAssumption
<1> HIDE DEF C
<1>6. ASSUME NEW x \in C, NEW s \in Sides
      PROVE  /\ Child(tree, x, s) \in C \cup {Leaf}
             /\ h[x] = h[Child(tree, x, s)] + Own(tree, Child(tree, x, s))
                         + Added(x, Child(tree, x, s))
  <2>1. Child(tree, x, s) \in C \cup {Leaf}
    BY <1>2 DEF Linked
  <2>2. Lack(tree, x, Child(tree, x, s), HoleOf(mode, at)) = Added(x, Child(tree, x, s))
    BY <1>5, <2>1 DEF Lack, HoleOf, Added
  <2> QED
    BY <1>3, <2>1, <2>2 DEF Level
<1>7. h \in [C \cup {Leaf} -> Nat] /\ h[Leaf] = 0
  BY <1>3 DEF Level
<1>8. ASSUME NEW f, NEW x \in C, \A s \in Sides : f[Child(tree, x, s)] = {h[Child(tree, x, s)]}
      PROVE  HeightsBelow(f, x) = {h[x]}
  <2>1. ASSUME NEW s \in Sides
        PROVE  {n + Own(tree, Child(tree, x, s)) + Added(x, Child(tree, x, s)) :
                    n \in f[Child(tree, x, s)]} = {h[x]}
    BY <1>6, <1>8
  <2>2. x # Leaf /\ "left" \in Sides
    BY <1>5 DEF Sides
  <2>3. UNION {{n + Own(tree, Child(tree, x, s)) + Added(x, Child(tree, x, s)) :
                    n \in f[Child(tree, x, s)]} : s \in Sides} = {h[x]}
    BY <2>1, <2>2
  <2> QED
    BY <2>2, <2>3 DEF HeightsBelow
<1>9. \E f : Is(f)
  <2> DEFINE f == [x \in C \cup {Leaf} |-> {h[x]}]
  <2>1. \A x \in C : HeightsBelow(f, x) = {h[x]}
    <3>1. \A x \in C, s \in Sides : f[Child(tree, x, s)] = {h[Child(tree, x, s)]}
      BY <1>6
    <3> HIDE DEF f
    <3> QED
      BY <1>8, <3>1
  <2>2. HeightsBelow(f, Leaf) = {h[Leaf]}
    BY <1>7 DEF HeightsBelow
  <2>3. \A x \in C \cup {Leaf} : f[x] = HeightsBelow(f, x)
    BY <2>1, <2>2
  <2>4. Is(f)
    BY <2>3
  <2> QED
    BY <2>4
<1>10. Is(down)
  BY <1>9 DEF down
<1>11. down[Leaf] = {0} /\ \A x \in C : down[x] = HeightsBelow(down, x)
  BY <1>10 DEF HeightsBelow
<1>12. \A x \in C : down[x] = {h[x]}
  <2> DEFINE B == {x \in C : down[x] # {h[x]}}
  <2>1. SUFFICES ASSUME B # {} PROVE FALSE
    OBVIOUS
  <2>2. PICK x \in B : \A s \in Sides : Child(tree, x, s) \notin B
    <3> HIDE DEF B
    <3>1. B \in SUBSET C
      BY DEF B
    <3> QED
      BY <1>2, <1>4, <2>1, <3>1, Lowest
  <2>3. x \in C /\ down[x] # {h[x]}
    OBVIOUS
  <2>4. \A s \in Sides : down[Child(tree, x, s)] = {h[Child(tree, x, s)]}
    BY <1>6, <1>7, <1>11, <2>2, <2>3
  <2> QED
    BY <1>8, <1>11, <2>3, <2>4
<1>13. tree.root \in C \cup {Leaf}
  BY <1>2 DEF Linked
<1>14. BlackHeights = {h[tree.root]}
  BY <1>1, <1>7, <1>11, <1>12, <1>13
<1> QED
  BY <1>14, FS_Singleton

\* rbtree.c's repairs bring the tree back into balance, and in the middle of one
\* a single black node lacks where the repair stands; a red node has no red child
\* but there.
THEOREM StaysBalanced == Spec => []BlackBalanced
<1>1. ASSUME IInv PROVE BlackBalanced
  <2>1. Colored(tree, Contents, mode, at)
    BY <1>1 DEF IInv, Good
  <2>2. mode = "idle" => ~IsRed(tree, tree.root)
    BY <2>1 DEF Colored
  <2>3. NoRedRed
    BY <2>1, <2>2 DEF NoRedRed, Colored
  <2> QED
    BY <1>1, <2>3, OneHeight DEF BlackBalanced
<1>2. IInv => BlackBalanced
  BY <1>1
<1> QED
  BY <1>2, Invariance, PTL

\* rbtree_ldr visits every node of the tree, in the order of the keys.
THEOREM WalksInOrder == Spec => []WalkInOrder
<1>1. ASSUME IInv PROVE WalkInOrder
  <2>1. PICK D : Linked(tree, Contents) /\ Sorted(tree, Contents, D)
    BY <1>1 DEF IInv, Good
  <2>2. SUFFICES ASSUME mode = "idle"
                 PROVE  LET w == Walked(tree)
                        IN  Range(w) = Contents /\ \A i \in 1 .. Len(w) - 1 : w[i] < w[i + 1]
    BY DEF WalkInOrder
  <2>3. Contents = InMemory(tree) /\ IsFiniteSet(Contents)
    BY <1>1, <2>2, IInvFacts
  <2> QED
    BY <2>1, <2>3, WalkedAll
<1>2. IInv => WalkInOrder
  BY <1>1
<1> QED
  BY <1>2, Invariance, PTL

\* What the tree's callers see is a set of keys: rbtree_set adds one, rbtree_pop
\* takes one out, rbtree_clear all, and rbtree_get finds what is there.
THEOREM TreeIsASet == Spec => ContainerSpec
<1>1. Init => Container!Init
  BY InitIInv DEF Init, Container!Init
<1>2. IInv /\ [Next]_vars => [Container!Next]_(Container!vars)
  BY NextKeeps
<1> QED
  BY <1>1, <1>2, Invariance, PTL DEF Spec, ContainerSpec, Container!Spec

-----------------------------------------------------------------------------
(* Depths. *)

\* What is below a node is below the nodes it is below.
LEMMA Transit ==
    ASSUME NEW T, NEW C, NEW D, Linked(T, C), Sorted(T, C, D), IsFiniteSet(C), NEW y \in C
    PROVE  \A x \in C : y \in D[x] => D[y] \subseteq D[x]
<1> DEFINE B == {x \in C : y \in D[x] /\ ~(D[y] \subseteq D[x])}
<1>1. SUFFICES ASSUME B # {} PROVE FALSE
  OBVIOUS
<1>2. PICK x \in B : \A s \in Sides : Child(T, x, s) \notin B
  <2> HIDE DEF B
  <2>1. B \in SUBSET C
    BY DEF B
  <2> QED
    BY <1>1, <2>1, Lowest
<1>3. x \in C /\ y \in D[x] /\ ~(D[y] \subseteq D[x]) /\ x # y
  OBVIOUS
<1>4. PICK s \in Sides : y \in D[Child(T, x, s)]
  BY <1>3, TwoSides DEF Sorted
<1>5. Child(T, x, s) \in C
  <2>1. Child(T, x, s) \in C \cup {Leaf}
    BY <1>3 DEF Linked
  <2>2. D[Leaf] = {}
    BY DEF Sorted
  <2> QED
    BY <1>4, <2>1, <2>2
<1>6. D[y] \subseteq D[Child(T, x, s)]
  BY <1>2, <1>4, <1>5
<1>7. D[Child(T, x, s)] \subseteq D[x]
  BY <1>3, Below
<1> QED
  BY <1>3, <1>6, <1>7

\* The parent of a node is below the nodes the node is below.
LEMMA ParentIn ==
    ASSUME NEW T, NEW C, NEW D, Linked(T, C), Sorted(T, C, D), IsFiniteSet(C), NEW y \in C
    PROVE  \A x \in C : y \in D[x] /\ y # x =>
              y # T.root /\ Parent(T, y) \in C /\ Parent(T, y) \in D[x]
<1> DEFINE p == Parent(T, y)
           B == {x \in C : y \in D[x] /\ y # x /\ ~(y # T.root /\ p \in C /\ p \in D[x])}
<1>1. SUFFICES ASSUME B # {} PROVE FALSE
  OBVIOUS
<1>2. PICK x \in B : \A s \in Sides : Child(T, x, s) \notin B
  <2> HIDE DEF B
  <2>1. B \in SUBSET C
    BY DEF B
  <2> QED
    BY <1>1, <2>1, Lowest
<1>3. x \in C /\ y \in D[x] /\ y # x /\ ~(y # T.root /\ p \in C /\ p \in D[x])
  OBVIOUS
<1>4. PICK s \in Sides : y \in D[Child(T, x, s)]
  BY <1>3, TwoSides DEF Sorted
<1>5. Child(T, x, s) \in C /\ Child(T, x, s) # Leaf
  <2>1. Child(T, x, s) \in C \cup {Leaf} /\ Leaf \notin C
    BY <1>3, Apart DEF Linked
  <2>2. D[Leaf] = {}
    BY DEF Sorted
  <2> QED
    BY <1>4, <2>1, <2>2
<1>6. CASE Child(T, x, s) = y
  <2>1. y # T.root /\ p = x
    BY <1>3, <1>5, <1>6 DEF Linked
  <2>2. x \in D[x]
    BY <1>3, Apart
  <2> QED
    BY <1>3, <2>1, <2>2
<1>7. CASE Child(T, x, s) # y
  <2>1. y # T.root /\ p \in C /\ p \in D[Child(T, x, s)]
    BY <1>2, <1>4, <1>5, <1>7
  <2>2. D[Child(T, x, s)] \subseteq D[x]
    BY <1>3, Below
  <2> QED
    BY <1>3, <2>1, <2>2
<1> QED
  BY <1>6, <1>7

\* The nodes above y, and their number
Above(C, D, y) == {x \in C : x # y /\ y \in D[x]}
Rank(C, D, y) == Cardinality(Above(C, D, y))

\* A node's rank is one more than its parent's; the root's is 0.
LEMMA Ranks ==
    ASSUME NEW T, NEW C, NEW D, Linked(T, C), Sorted(T, C, D), IsFiniteSet(C), NEW y \in C
    PROVE  /\ IsFiniteSet(Above(C, D, y)) /\ Rank(C, D, y) \in Nat
           /\ y = T.root => Rank(C, D, y) = 0
           /\ y # T.root =>
                 /\ Parent(T, y) \in C /\ Parent(T, y) \in Above(C, D, y)
                 /\ Above(C, D, Parent(T, y)) = Above(C, D, y) \ {Parent(T, y)}
                 /\ Rank(C, D, y) = 1 + Rank(C, D, Parent(T, y))
<1> DEFINE p == Parent(T, y)
<1>1. IsFiniteSet(Above(C, D, y)) /\ Rank(C, D, y) \in Nat
  <2>1. Above(C, D, y) \subseteq C
    BY DEF Above
  <2> QED
    BY <2>1, FS_Subset, FS_CardinalityType DEF Rank
<1>2. ASSUME y = T.root
      PROVE  Rank(C, D, y) = 0
  <2>1. Above(C, D, y) = {}
    BY <1>2, ParentIn DEF Above
  <2> QED
    BY <2>1, FS_EmptySet DEF Rank
<1>3. ASSUME y # T.root
      PROVE  /\ p \in C /\ p \in Above(C, D, y)
             /\ Above(C, D, p) = Above(C, D, y) \ {p}
             /\ Rank(C, D, y) = 1 + Rank(C, D, p)
  <2>1. p \in C /\ \E s \in Sides : Child(T, p, s) = y
    BY <1>3 DEF Linked
  <2>2. D[y] \subseteq D[p] /\ p \in D[p] /\ p \notin D[y] /\ y \in D[y]
    BY <2>1, Below, Apart
  <2>3. p \in Above(C, D, y)
    BY <2>1, <2>2 DEF Above
  <2>4. ASSUME NEW z \in Above(C, D, y), z # p
        PROVE  z \in Above(C, D, p)
    BY <2>4, ParentIn DEF Above
  <2>5. ASSUME NEW z \in Above(C, D, p)
        PROVE  z \in Above(C, D, y) /\ z # p
    <3>1. z \in C /\ z # p /\ p \in D[z]
      BY DEF Above
    <3>2. D[p] \subseteq D[z]
      BY <2>1, <3>1, Transit
    <3> QED
      BY <2>2, <3>1, <3>2 DEF Above
  <2> HIDE DEF p
  <2>6. Above(C, D, p) = Above(C, D, y) \ {p}
    BY <2>4, <2>5
  <2>7. Cardinality(Above(C, D, y) \ {p}) = Cardinality(Above(C, D, y)) - 1
    BY <1>1, <2>3, FS_RemoveElement
  <2>8. Rank(C, D, p) = Rank(C, D, y) - 1
    BY <2>6, <2>7 DEF Rank
  <2> QED
    BY <1>1, <2>1, <2>3, <2>6, <2>8
<1> QED
  BY <1>1, <1>2, <1>3

\* A set of nodes that is not empty has one whose parent is outside it.
LEMMA Highest ==
    ASSUME NEW T, NEW C, NEW D, Linked(T, C), Sorted(T, C, D), IsFiniteSet(C),
           NEW B \in SUBSET C, B # {}
    PROVE  \E x \in B : x = T.root \/ Parent(T, x) \notin B
<1> DEFINE S == {Above(C, D, x) : x \in B}
           R == StrictSubsetOrdering(C)
<1>1. IsWellFoundedOn(R, FiniteSubsetsOf(C))
  BY FS_StrictSubsetOrderingWellFounded
<1>2. \A x \in B : Above(C, D, x) \in SUBSET C
  BY DEF Above
<1>3. S \subseteq FiniteSubsetsOf(C) /\ S # {}
  BY <1>2, FS_Subset DEF FiniteSubsetsOf
<1>4. \E m \in S : \A y \in S : <<y, m>> \notin R
  <2> HIDE DEF R, S
  <2> QED
    BY <1>1, <1>3, WFMin
<1>5. PICK x \in B : \A y \in S : <<y, Above(C, D, x)>> \notin R
  BY <1>4
<1>6. SUFFICES ASSUME x # T.root, Parent(T, x) \in B
               PROVE  FALSE
  BY <1>5
<1>7. /\ Parent(T, x) \in Above(C, D, x)
      /\ Above(C, D, Parent(T, x)) = Above(C, D, x) \ {Parent(T, x)}
  BY <1>6, Ranks
<1>8. <<Above(C, D, Parent(T, x)), Above(C, D, x)>> \in R
  <2>1. Above(C, D, x) \in SUBSET C /\ Above(C, D, Parent(T, x)) \in SUBSET C
    BY <1>2, <1>6
  <2> QED
    BY <1>7, <2>1 DEF StrictSubsetOrdering
<1> QED
  BY <1>5, <1>6, <1>8

\* Depth in the tree T with the nodes C
DepthIn(T, C, x) ==
    LET up[y \in C] == IF y = T.root THEN 0 ELSE 1 + up[Parent(T, y)]
    IN  IF x = Leaf THEN 1 + up[Parent(T, Leaf)] ELSE up[x]

\* The depth of a node is its rank.
LEMMA DepthIs ==
    ASSUME NEW T, NEW C, NEW D, Linked(T, C), Sorted(T, C, D), IsFiniteSet(C)
    PROVE  /\ \A x \in C : DepthIn(T, C, x) = Rank(C, D, x)
           /\ Parent(T, Leaf) \in C => DepthIn(T, C, Leaf) = 1 + Rank(C, D, Parent(T, Leaf))
<1> DEFINE Is(f) == f = [y \in C |-> IF y = T.root THEN 0 ELSE 1 + f[Parent(T, y)]]
           up == CHOOSE f : Is(f)
<1>0. \A x : DepthIn(T, C, x) = IF x = Leaf THEN 1 + up[Parent(T, Leaf)] ELSE up[x]
  BY DEF DepthIn
<1> HIDE DEF up
<1>1. Is([y \in C |-> Rank(C, D, y)])
  BY Ranks
<1>2. Is(up)
  BY <1>1 DEF up
<1>3. \A y \in C : up[y] = IF y = T.root THEN 0 ELSE 1 + up[Parent(T, y)]
  BY <1>2
<1>4. \A y \in C : up[y] = Rank(C, D, y)
  <2> DEFINE B == {y \in C : up[y] # Rank(C, D, y)}
  <2>1. SUFFICES ASSUME B # {} PROVE FALSE
    OBVIOUS
  <2>2. PICK y \in B : y = T.root \/ Parent(T, y) \notin B
    <3> HIDE DEF B
    <3>1. B \in SUBSET C
      BY DEF B
    <3> QED
      BY <2>1, <3>1, Highest
  <2>3. y \in C /\ up[y] # Rank(C, D, y)
    OBVIOUS
  <2>4. y = T.root
    BY <1>3, <2>2, <2>3, Ranks
  <2> QED
    BY <1>3, <2>3, <2>4, Ranks
<1>5. Leaf \notin C
  BY Apart
<1> QED
  BY <1>0, <1>4, <1>5

\* A node is one deeper than its parent; the root's depth is 0.
LEMMA ChildDepth ==
    ASSUME NEW T, NEW C, NEW D, Linked(T, C), Sorted(T, C, D), IsFiniteSet(C), NEW y \in C
    PROVE  /\ DepthIn(T, C, y) \in Nat
           /\ y = T.root => DepthIn(T, C, y) = 0
           /\ y # T.root => Parent(T, y) \in C /\ DepthIn(T, C, y) = 1 + DepthIn(T, C, Parent(T, y))
<1>1. \A x \in C : DepthIn(T, C, x) = Rank(C, D, x)
  BY DepthIs
<1> QED
  BY <1>1, Ranks

\* Colours do not matter to depths.
LEMMA SameDepth ==
    ASSUME NEW T, NEW C, NEW D, Linked(T, C), Sorted(T, C, D), IsFiniteSet(C),
           NEW R, SameLinks(T, R), NEW y \in C
    PROVE  DepthIn(R, C, y) = DepthIn(T, C, y)
<1>1. Linked(R, C) /\ Sorted(R, C, D)
  BY PaintKeeps
<1>2. DepthIn(R, C, y) = Rank(C, D, y)
  BY <1>1, DepthIs
<1>3. DepthIn(T, C, y) = Rank(C, D, y)
  BY DepthIs
<1> QED
  BY <1>2, <1>3

\* A rotation at x lifts its child to the depth of x.
LEMMA TurnDepth ==
    ASSUME NEW T, NEW C, NEW D, Linked(T, C), Sorted(T, C, D), IsFiniteSet(C), NEW x \in C,
           NEW side \in Sides, NEW up, up = Child(T, x, Other(side)), up # Leaf,
           NEW inner, inner = Child(T, up, side),
           NEW R, Turned(T, R, C, x, up, inner, side)
    PROVE  DepthIn(R, C, up) = DepthIn(T, C, x)
<1>1. Linked(R, C)
  BY TurnKeepsLinks
<1>2. PICK E : Sorted(R, C, E) /\ Reordered(D, E, C, x, up)
  BY TurnOrder
<1>3. up \in C /\ up # x
  BY TurnNodes
<1>4. up # T.root /\ Parent(T, up) = x
  BY <1>3, TwoSides DEF Linked
<1>5. Above(C, D, x) = Above(C, D, up) \ {x}
  BY <1>3, <1>4, Ranks
<1>6. Above(C, E, up) = Above(C, D, up) \ {x}
  BY <1>2 DEF Above, Reordered
<1>7. Rank(C, E, up) = Rank(C, D, x)
  BY <1>5, <1>6 DEF Rank
<1>8. DepthIn(R, C, up) = Rank(C, E, up)
  BY <1>1, <1>2, <1>3, DepthIs
<1>9. DepthIn(T, C, x) = Rank(C, D, x)
  BY DepthIs
<1> QED
  BY <1>7, <1>8, <1>9

\* The end of an insertion's repair: p is lifted into the place of its parent g.
LiftedOut(T, p, g, side) ==
    Rotated(Painted(Painted(T, p, FALSE), g, TRUE), g, Other(side))

\* The last rotation of an insertion's repair lifts the outer grandchild a of g.
LEMMA OuterDepth ==
    ASSUME NEW T, NEW C, NEW D, Linked(T, C), Sorted(T, C, D), IsFiniteSet(C),
           NEW side \in Sides, NEW g \in C, NEW p \in C, p = Child(T, g, side),
           NEW a \in C, a = Child(T, p, side)
    PROVE  DepthIn(LiftedOut(T, p, g, side), C, a) = 1 + DepthIn(T, C, g)
<1> DEFINE R == Rotated(Painted(Painted(T, p, FALSE), g, TRUE), g, Other(side))
           o == Other(side)
           inner == Child(T, p, o)
<1>1. o \in Sides /\ Other(o) = side /\ o # side /\ Leaf \notin C
  BY TwoSides, Apart
<1>2. p = Child(T, g, Other(o)) /\ p # Leaf
  BY <1>1
<1>3. Exchanged(T, R, C, g, p, inner, o)
  <2> HIDE DEF inner
  <2>1. inner = Child(T, p, o)
    BY DEF inner
  <2> HIDE DEF o
  <2>2. Exchanged(T, Rotated(Painted(Painted(T, p, FALSE), g, TRUE), g, o), C, g, p, inner, o)
    BY <1>1, <1>2, <2>1, ExchangeLinks
  <2> QED
    BY <2>2 DEF o
<1> HIDE DEF R
<1>4. Linked(R, C) /\ Turned(T, R, C, g, p, inner, o) /\ \E E : Sorted(R, C, E)
  BY <1>3 DEF Exchanged
<1>5. PICK E : Sorted(R, C, E)
  BY <1>4
<1>6. a # p /\ p # g /\ a # g /\ a # inner /\ a # T.root /\ Parent(T, a) = p
  <2>1. a # p /\ p # g /\ a # Child(T, p, Other(side))
    BY <1>1, Apart
  <2>2. a # g
    <3>1. D[Child(T, p, side)] \subseteq D[p] /\ a \in D[a]
      BY Below, Apart
    <3>2. g \notin D[Child(T, g, side)]
      BY Apart
    <3> QED
      BY <3>1, <3>2
  <2>3. a # T.root /\ Parent(T, a) = p
    BY <1>1 DEF Linked
  <2> QED
    BY <2>1, <2>2, <2>3
<1>7. Parent(R, a) = p /\ a # R.root
  BY <1>4, <1>6 DEF Turned
<1>8. DepthIn(R, C, p) = DepthIn(T, C, g)
  <2>1. inner = Child(T, p, o)
    OBVIOUS
  <2> HIDE DEF inner, o
  <2> QED
    BY <1>1, <1>2, <1>4, <2>1, TurnDepth
<1>9. DepthIn(R, C, a) = 1 + DepthIn(R, C, p)
  BY <1>4, <1>5, <1>7, ChildDepth
<1> QED
  BY <1>8, <1>9 DEF R, LiftedOut

\* Recolouring goes on at the grandparent.
LEMMA RecolorClimbs ==
    ASSUME NEW T, NEW C, NEW a, Good(T, C, "set", a), a # T.root, IsFiniteSet(C),
           NEW p, p = Parent(T, a), IsRed(T, p), NEW g, g = Parent(T, p),
           NEW uncle, uncle = Child(T, g, Other(SideOf(T, p)))
    PROVE  DepthIn(Painted(Painted(Painted(T, p, FALSE), uncle, FALSE), g, TRUE), C, g)
              < DepthIn(T, C, a)
<1> DEFINE U == Painted(T, p, FALSE)
           V == Painted(U, uncle, FALSE)
           R == Painted(V, g, TRUE)
           side == SideOf(T, p)
<1>1. PICK D : Linked(T, C) /\ Sorted(T, C, D)
  BY DEF Good
<1>2. Colored(T, C, "set", a) /\ a \in C
  BY DEF Good, Standing
<1>3. p \in C /\ p # T.root
  BY <1>1, <1>2 DEF Linked, Colored
<1>4. g \in C /\ side \in Sides
  BY <1>1, <1>3, OnItsSide
<1>5. uncle \in Cells /\ p \in Cells /\ g \in Cells /\ T \in Trees
  <2>1. Other(side) \in Sides
    BY <1>4, TwoSides
  <2>2. uncle \in C \cup {Leaf}
    BY <1>1, <1>4, <2>1 DEF Linked
  <2> QED
    BY <1>1, <1>3, <1>4, <2>2, Apart DEF Linked
<1> HIDE DEF side
<1>6. ColorSet(T, U, p, FALSE)
  BY <1>5, ColorWritten
<1>7. ColorSet(U, V, uncle, FALSE)
  <2>1. U \in Trees
    BY <1>6 DEF ColorSet
  <2> HIDE DEF U
  <2> QED
    BY <1>5, <2>1, ColorWritten
<1>8. ColorSet(V, R, g, TRUE)
  <2>1. V \in Trees
    BY <1>7 DEF ColorSet
  <2> HIDE DEF V
  <2> QED
    BY <1>5, <2>1, ColorWritten
<1> HIDE DEF U, V, R
<1>9. SameLinks(T, R)
  BY <1>6, <1>7, <1>8 DEF ColorSet, SameLinks
<1>10. DepthIn(R, C, g) = DepthIn(T, C, g)
  BY <1>1, <1>4, <1>9, SameDepth
<1>11. DepthIn(T, C, a) = 1 + DepthIn(T, C, p)
  BY <1>1, <1>2, ChildDepth
<1>12. DepthIn(T, C, p) = 1 + DepthIn(T, C, g)
  BY <1>1, <1>3, ChildDepth
<1>13. DepthIn(T, C, g) \in Nat
  BY <1>1, <1>4, ChildDepth
<1>14. DepthIn(R, C, g) < DepthIn(T, C, a)
  BY <1>10, <1>11, <1>12, <1>13
<1> QED
  BY <1>14 DEF R, V, U

\* The rotations lift the node the repair goes on at.
LEMMA RotateClimbs ==
    ASSUME NEW T, NEW C, NEW a, Good(T, C, "set", a), a # T.root, IsFiniteSet(C),
           NEW p, p = Parent(T, a), IsRed(T, p), NEW g, g = Parent(T, p),
           NEW side, side = SideOf(T, p)
    PROVE  LET inner == SideOf(T, a) # side
               S == IF inner THEN Rotated(T, p, side) ELSE T
               q == IF inner THEN a ELSE p
               R == Rotated(Painted(Painted(S, q, FALSE), g, TRUE), g, Other(side))
           IN  DepthIn(R, C, IF inner THEN p ELSE a) < DepthIn(T, C, a)
<1>1. PICK D : Linked(T, C) /\ Sorted(T, C, D)
  BY DEF Good
<1>2. PICK h : Level(T, C, h, NULL)
  BY DEF Good, HoleOf
<1>3. Colored(T, C, "set", a) /\ a \in C /\ IsRed(T, a)
  BY DEF Good, Standing
<1>4. p \in C /\ SideOf(T, a) \in Sides /\ Child(T, p, SideOf(T, a)) = a
  BY <1>1, <1>3, OnItsSide
<1>5. p # T.root
  BY <1>3 DEF Colored
<1>6. g \in C /\ side \in Sides /\ Child(T, g, side) = p
  BY <1>1, <1>4, <1>5, OnItsSide
<1>7. /\ DepthIn(T, C, a) = 1 + DepthIn(T, C, p) /\ DepthIn(T, C, p) = 1 + DepthIn(T, C, g)
      /\ DepthIn(T, C, g) \in Nat
  BY <1>1, <1>3, <1>4, <1>5, <1>6, ChildDepth
<1>8. CASE SideOf(T, a) = side
  <2> DEFINE R == LiftedOut(T, p, g, side)
  <2>1. DepthIn(R, C, a) = 1 + DepthIn(T, C, g)
    BY <1>1, <1>3, <1>4, <1>6, <1>8, OuterDepth
  <2> HIDE DEF R
  <2>2. DepthIn(R, C, a) < DepthIn(T, C, a)
    BY <1>7, <2>1
  <2> QED
    BY <1>8, <2>2 DEF R, LiftedOut
<1>9. CASE SideOf(T, a) # side
  <2> DEFINE S == Rotated(T, p, side)
             R == LiftedOut(S, a, g, side)
             inner == Child(T, a, side)
  <2>1. a = Child(T, p, Other(side)) /\ a # Leaf
    BY <1>1, <1>3, <1>4, <1>6, <1>9, TwoSides, Apart
  <2>2. /\ Linked(S, C) /\ \E E : Sorted(S, C, E)
        /\ Child(S, g, side) = a /\ Child(S, a, side) = p
    BY <1>1, <1>2, <1>3, <1>6, <2>1, InnerTurn
  <2>3. Turned(T, S, C, p, a, inner, side)
    BY <1>1, <1>4, <1>6, <2>1, RotatedLinks
  <2>4. DepthIn(S, C, a) = DepthIn(T, C, p)
    <3>1. inner = Child(T, a, side)
      OBVIOUS
    <3> HIDE DEF inner, S
    <3>2. p \in C /\ side \in Sides
      BY <1>4, <1>6
    <3> QED
      BY ONLY IsFiniteSet(C), <1>1, <2>1, <2>3, <3>1, <3>2, TurnDepth
  <2> HIDE DEF S
  <2>5. PICK E : Sorted(S, C, E)
    BY <2>2
  <2>6. DepthIn(R, C, p) = 1 + DepthIn(S, C, g)
    BY <1>3, <1>4, <1>6, <2>2, <2>5, OuterDepth
  <2>7. DepthIn(S, C, a) = 1 + DepthIn(S, C, g) /\ DepthIn(S, C, g) \in Nat
    <3>1. a # S.root /\ Parent(S, a) = g
      BY <1>6, <2>1, <2>2 DEF Linked
    <3> QED
      BY <1>3, <1>6, <2>2, <2>5, <3>1, ChildDepth
  <2> HIDE DEF R
  <2>8. DepthIn(R, C, p) < DepthIn(T, C, a)
    BY <1>7, <2>4, <2>6, <2>7
  <2> QED
    BY <1>9, <2>8 DEF R, S, LiftedOut
<1> QED
  BY <1>8, <1>9

\* Where a removal's repair stands is one deeper than the parent of that place.
LEMMA LackingDepth ==
    ASSUME NEW T, NEW C, NEW a, NEW p, NEW side, NEW h, Lacking(T, C, a, p, side, h),
           IsFiniteSet(C)
    PROVE  DepthIn(T, C, a) = 1 + DepthIn(T, C, p) /\ DepthIn(T, C, p) \in Nat
<1>1. PICK D : Linked(T, C) /\ Sorted(T, C, D)
  BY DEF Lacking
<1>2. p \in C /\ a \in C \cup {Leaf} /\ side \in Sides /\ Child(T, p, side) = a
      /\ (a = Leaf => Parent(T, Leaf) = p)
  BY DEF Lacking
<1>3. DepthIn(T, C, p) \in Nat
  BY <1>1, <1>2, ChildDepth
<1>4. CASE a = Leaf
  <2>1. DepthIn(T, C, p) = Rank(C, D, p)
    BY <1>1, <1>2, DepthIs
  <2>2. Parent(T, Leaf) = p
    BY <1>2, <1>4
  <2>3. DepthIn(T, C, Leaf) = 1 + Rank(C, D, Parent(T, Leaf))
    BY <1>1, <1>2, <2>2, DepthIs
  <2> QED
    BY <1>3, <1>4, <2>1, <2>2, <2>3
<1>5. CASE a # Leaf
  <2>1. a \in C /\ a # T.root /\ Parent(T, a) = p
    BY <1>1, <1>2, <1>5 DEF Linked
  <2> QED
    BY <1>1, <1>3, <2>1, ChildDepth
<1> QED
  BY <1>3, <1>4, <1>5

\* When the sibling has no red child, the repair goes on at the parent, which
\* is red if the sibling was.
LEMMA PopUpClimbs ==
    ASSUME NEW T, NEW C, NEW a, NEW p, NEW side, NEW h, Lacking(T, C, a, p, side, h),
           IsFiniteSet(C)
    PROVE  LET S == SiblingBlack(T, p, side)
               R == Painted(S, Child(S, p, Other(side)), TRUE)
           IN  DepthIn(R, C, p) < DepthIn(T, C, a) \/ IsRed(R, p)
<1> DEFINE w == Child(T, p, Other(side))
           S == SiblingBlack(T, p, side)
           v == Child(S, p, Other(side))
           R == Painted(S, v, TRUE)
<1>1. PICK D : Linked(T, C) /\ Sorted(T, C, D)
  BY DEF Lacking
<1>2. p \in C /\ side \in Sides /\ w \in C /\ Leaf \notin C /\ C \cup {Leaf} \subseteq Cells
      /\ Other(side) \in Sides
  BY <1>1, TwoSides, Apart DEF Lacking
<1>3. Lacking(S, C, a, p, side, h)
  BY SiblingTurned
<1> HIDE DEF S
<1>4. v \in C /\ S \in Trees
  BY <1>3 DEF Lacking, Linked
<1> HIDE DEF v
<1>5. ColorSet(S, R, v, TRUE)
  BY <1>2, <1>4, ColorWritten
<1> HIDE DEF R
<1>6. CASE IsRed(T, w)
  <2> DEFINE U == Rotated(Painted(Painted(T, w, FALSE), p, TRUE), p, side)
             inner == Child(T, w, side)
  <2>1. S = U
    BY <1>6 DEF S, SiblingBlack
  <2>2. Exchanged(T, U, C, p, w, inner, side)
    <3>1. inner = Child(T, w, side) /\ w = Child(T, p, Other(side)) /\ w # Leaf
      BY <1>2
    <3> HIDE DEF inner, w
    <3> QED
      BY <1>1, <1>2, <3>1, ExchangeLinks
  <2> HIDE DEF U
  <2>3. IsRed(S, p)
    BY <1>2, <2>1, <2>2 DEF Exchanged
  <2>4. IsRed(R, p)
    BY <1>2, <1>5, <2>3 DEF ColorSet
  <2> QED
    BY <2>4 DEF R, v, S
<1>7. CASE ~IsRed(T, w)
  <2>1. S = T
    BY <1>7 DEF S, SiblingBlack
  <2>2. SameLinks(T, R)
    BY <1>5, <2>1 DEF ColorSet, SameLinks
  <2>3. DepthIn(R, C, p) = DepthIn(T, C, p)
    BY <1>1, <1>2, <2>2, SameDepth
  <2>4. DepthIn(R, C, p) < DepthIn(T, C, a)
    BY <2>3, LackingDepth
  <2> QED
    BY <2>4 DEF R, v, S
<1> QED
  BY <1>6, <1>7

\* An iteration of a repair that is not its last comes closer to the root, or
\* to a red node that ends it.
LEMMA Climbs ==
    ASSUME IInv, [Next]_vars, vars' # vars, mode \in {"set", "pop"}, mode' = mode
    PROVE  Depth(at)' < Depth(at) \/ (mode = "pop" /\ IsRed(tree', at'))
<1> DEFINE C == Contents
<1>1. Depth(at) = DepthIn(tree, C, at)
  BY DEF Depth, DepthIn
<1>2. Depth(at)' = DepthIn(tree', Contents', at')
  BY DEF Depth, DepthIn
<1>3. IsFiniteSet(C) /\ Good(tree, C, mode, at)
  BY IInvFacts DEF IInv
<1>4. mode # "idle" /\ mode # "popped"
  OBVIOUS
<1>5. Repair
  BY <1>4 DEF Next, Get, Set, PopMissing, PopRoot, Pop, Clear
<1>6. Contents' = C
  BY <1>5, RepairStep
<1> HIDE DEF C
<1>7. CASE RecolorUp
  <2> DEFINE p == Parent(tree, at)
             g == Parent(tree, p)
             uncle == Child(tree, g, Other(SideOf(tree, p)))
             R == Painted(Painted(Painted(tree, p, FALSE), uncle, FALSE), g, TRUE)
  <2>1. mode = "set" /\ at # tree.root /\ IsRed(tree, p) /\ tree' = R /\ at' = g
    BY <1>7 DEF RecolorUp, RedParent
  <2>2. DepthIn(R, C, g) < DepthIn(tree, C, at)
    BY <1>3, <2>1, RecolorClimbs
  <2> HIDE DEF R, g, p
  <2> QED
    BY <1>1, <1>2, <1>6, <2>1, <2>2
<1>8. CASE RotateUp
  <2> DEFINE p == Parent(tree, at)
             g == Parent(tree, p)
             side == SideOf(tree, p)
             inner == SideOf(tree, at) # side
             S == IF inner THEN Rotated(tree, p, side) ELSE tree
             q == IF inner THEN at ELSE p
             b == IF inner THEN p ELSE at
             R == Rotated(Painted(Painted(S, q, FALSE), g, TRUE), g, Other(side))
  <2>1. mode = "set" /\ at # tree.root /\ IsRed(tree, p) /\ tree' = R /\ at' = b
    BY <1>8 DEF RotateUp, RedParent
  <2>2. DepthIn(R, C, b) < DepthIn(tree, C, at)
    BY <1>3, <2>1, RotateClimbs
  <2> HIDE DEF R, b
  <2> QED
    BY <1>1, <1>2, <1>6, <2>1, <2>2
<1>9. CASE SetEnds
  BY <1>4, <1>9 DEF SetEnds
<1>10. ASSUME mode = "pop", LacksBlack
       PROVE  \E h : Lacking(tree, C, at, Parent(tree, at), SideOf(tree, at), h)
  BY <1>3, <1>10, PopStands DEF LacksBlack
<1>11. CASE PopUp
  <2> DEFINE p == Parent(tree, at)
             side == SideOf(tree, at)
             S == SiblingBlack(tree, p, side)
             R == Painted(S, Child(S, p, Other(side)), TRUE)
  <2>1. mode = "pop" /\ LacksBlack /\ tree' = R /\ at' = p
    BY <1>11 DEF PopUp, NextUp
  <2>2. PICK h : Lacking(tree, C, at, p, side, h)
    BY <1>10, <2>1
  <2> HIDE DEF p, side
  <2>3. DepthIn(R, C, p) < DepthIn(tree, C, at) \/ IsRed(R, p)
    BY <1>3, <2>2, PopUpClimbs
  <2> HIDE DEF R
  <2> QED
    BY <1>1, <1>2, <1>6, <2>1, <2>3
<1>12. CASE PopBorrow
  <2>1. mode = "pop" /\ LacksBlack /\ at' = tree'.root
    BY <1>12 DEF PopBorrow
  <2>2. PICK h : Lacking(tree, C, at, Parent(tree, at), SideOf(tree, at), h)
    BY <1>10, <2>1
  <2>3. DepthIn(tree, C, at) \in Nat \ {0}
    BY <1>3, <2>2, LackingDepth
  <2>4. Good(tree', C, mode, at')
    BY <1>5, <1>6, RepairStep DEF IInv
  <2>5. PICK E : Linked(tree', C) /\ Sorted(tree', C, E)
    BY <2>4 DEF Good
  <2>6. at' \in C
    BY <2>1, <2>4, <2>5 DEF Good, Standing, Linked
  <2>7. DepthIn(tree', C, at') = 0
    BY <1>3, <2>1, <2>5, <2>6, ChildDepth
  <2> QED
    BY <1>1, <1>2, <1>6, <2>3, <2>7
<1>13. CASE PopEnds
  BY <1>4, <1>13 DEF PopEnds
<1> QED
  BY <1>5, <1>7, <1>8, <1>9, <1>11, <1>12, <1>13 DEF Repair

\* Both repair loops of rbtree.c end: no iteration leaves the repair as far from
\* the root as it was, but for the one that makes the node it goes on to red,
\* which the loop's condition stops at.
THEOREM RepairsEnd == Spec => RepairClimbs
<1> DEFINE A == (mode \in {"set", "pop"} /\ mode' = mode) =>
                   (Depth(at)' < Depth(at) \/ (mode = "pop" /\ IsRed(tree', at')))
<1>1. IInv /\ [Next]_vars => [A]_vars
  <2> SUFFICES ASSUME IInv, [Next]_vars, vars' # vars, mode \in {"set", "pop"}, mode' = mode
               PROVE  Depth(at)' < Depth(at) \/ (mode = "pop" /\ IsRed(tree', at'))
    OBVIOUS
  <2> QED
    BY Climbs
<1> QED
  BY <1>1, Invariance, PTL DEF Spec, RepairClimbs
=============================================================================
