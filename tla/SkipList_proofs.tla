--------------------------- MODULE SkipList_proofs ---------------------------
(***************************************************************************)
(* Theorems about SkipList, for any integer keys and tags, any number of    *)
(* levels and every height the random numbers give a node.                  *)
(* The nodes have names, and the names an order (Less) with the head first. *)
(* SkipInv says that every next pointer leads to the first node behind on   *)
(* its level (Chained), that prev mirrors the lowest level (Mirrored) and   *)
(* that `level` is the greatest height (Capped).  What a descent passes is  *)
(* a segment of the order (Segment), so it ends on every level at the       *)
(* segment's last node there (DescentIs); a call links a node in behind     *)
(* these, or takes out the run from these to the ends of a larger segment.  *)
(***************************************************************************)
EXTENDS SkipList, FiniteSetTheorems, WellFoundedInduction, SequenceTheorems, TLAPS

-----------------------------------------------------------------------------
(* The order of the nodes. *)

\* What a node is named by
NodeNames(c) == IF c THEN Elements ELSE [key : Keys]
NameOf(c, v) == IF c THEN v ELSE [key |-> v.key]
Places(c) == NodeNames(c) \cup {ListHead}

\* Node a stands before node b; the head stands before all others.
Less(c, a, b) ==
    /\ b # ListHead
    /\ \/ a = ListHead
       \/ a.key < b.key
       \/ a.key = b.key /\ c /\ a.tag < b.tag

IsFirst(c, m, S) == IF S = {} THEN m = NoNode ELSE m \in S /\ \A o \in S : o = m \/ Less(c, m, o)
IsLast(c, p, S) == p \in S /\ \A o \in S : o = p \/ Less(c, o, p)

\* Names have integer keys and tags, and are neither the head nor NoNode.
LEMMA NamesAre ==
    ASSUME NEW c \in BOOLEAN
    PROVE  /\ ListHead \notin NodeNames(c) /\ NoNode \notin Places(c)
           /\ \A a \in NodeNames(c) : a.key \in Int /\ (c => a.tag \in Int)
           /\ \A a, b \in NodeNames(c) : a.key = b.key /\ (c => a.tag = b.tag) => a = b
           /\ \A v \in Elements : NameOf(c, v) \in NodeNames(c) /\ NameOf(c, v).key = v.key
<1>1. ListHead \notin NodeNames(c) /\ NoNode \notin Places(c)
  BY SkipAssumption DEF NodeNames, Places, AnyName
<1>2. \A a \in NodeNames(c) : a.key \in Int /\ (c => a.tag \in Int)
  BY SkipAssumption DEF NodeNames, Elements
<1>3. ASSUME NEW a \in NodeNames(c), NEW b \in NodeNames(c), a.key = b.key, c => a.tag = b.tag
      PROVE  a = b
  <2>1. CASE c
    <3>1. a = [key |-> a.key, tag |-> a.tag] /\ b = [key |-> b.key, tag |-> b.tag]
      BY <2>1 DEF NodeNames, Elements
    <3>. QED BY <1>3, <2>1, <3>1
  <2>2. CASE ~c
    <3>1. a = [key |-> a.key] /\ b = [key |-> b.key]
      BY <2>2 DEF NodeNames
    <3>. QED BY <1>3, <3>1
  <2>. QED BY <2>1, <2>2
<1>4. ASSUME NEW v \in Elements
      PROVE  NameOf(c, v) \in NodeNames(c) /\ NameOf(c, v).key = v.key
  BY DEF NameOf, NodeNames, Elements
<1>. QED BY <1>1, <1>2, <1>3, <1>4

\* The order is strict and total.
Ordering(c) ==
    /\ \A a \in Places(c) : ~Less(c, a, a)
    /\ \A a, b \in Places(c) : a = b \/ Less(c, a, b) \/ Less(c, b, a)
    /\ \A a, b, d \in Places(c) : Less(c, a, b) /\ Less(c, b, d) => Less(c, a, d)
    /\ \A a, b \in Places(c) : ~(Less(c, a, b) /\ Less(c, b, a))
    /\ \A a \in NodeNames(c) : Less(c, ListHead, a) /\ a # ListHead
    /\ \A a \in Places(c) : ~Less(c, a, ListHead)

\* The order of the nodes is a strict total one with the head first.
LEMMA OrderIs ==
    ASSUME NEW c \in BOOLEAN PROVE Ordering(c)
<1>0. /\ ListHead \notin NodeNames(c)
      /\ \A a \in NodeNames(c) : a.key \in Int /\ (c => a.tag \in Int)
      /\ \A a, b \in NodeNames(c) : a.key = b.key /\ (c => a.tag = b.tag) => a = b
  BY NamesAre
<1>1. \A a \in Places(c) : ~Less(c, a, a)
  BY <1>0 DEF Places, Less
<1>2. \A a, b \in Places(c) : a = b \/ Less(c, a, b) \/ Less(c, b, a)
  BY <1>0 DEF Places, Less
<1>3. \A a, b, d \in Places(c) : Less(c, a, b) /\ Less(c, b, d) => Less(c, a, d)
  BY <1>0 DEF Places, Less
<1>4. \A a, b \in Places(c) : ~(Less(c, a, b) /\ Less(c, b, a))
  BY <1>0 DEF Places, Less
<1>5. \A a \in NodeNames(c) : Less(c, ListHead, a) /\ a # ListHead
  BY <1>0 DEF Less
<1>6. \A a \in Places(c) : ~Less(c, a, ListHead)
  BY DEF Less
<1>. QED BY <1>1, <1>2, <1>3, <1>4, <1>5, <1>6 DEF Ordering

\* Of finitely many nodes, one is the last.
LEMMA LastExists ==
    ASSUME NEW c \in BOOLEAN, NEW S \in SUBSET Places(c), IsFiniteSet(S), S # {}
    PROVE  \E p : IsLast(c, p, S)
<1> DEFINE A(x) == {y \in S : Less(c, x, y)}
           W == {A(x) : x \in S}
           R == StrictSubsetOrdering(S)
<1>1. IsWellFoundedOn(R, FiniteSubsetsOf(S))
  BY FS_StrictSubsetOrderingWellFounded
<1>2. W \subseteq FiniteSubsetsOf(S) /\ W # {}
  <2>1. \A T \in SUBSET S : IsFiniteSet(T)
    BY FS_Subset
  <2>2. \A x \in S : A(x) \in SUBSET S
    OBVIOUS
  <2>3. \A x \in S : A(x) \in FiniteSubsetsOf(S)
    BY <2>1, <2>2 DEF FiniteSubsetsOf
  <2>. QED BY <2>3
<1>3. \E m \in W : \A y \in W : <<y, m>> \notin R
  <2> HIDE DEF R, W
  <2> QED
    BY <1>1, <1>2, WFMin
<1>4. PICK x \in S : \A y \in W : <<y, A(x)>> \notin R
  BY <1>3
<1>5. ASSUME NEW y \in S, Less(c, x, y)
      PROVE  FALSE
  <2>1. A(y) \subseteq A(x) /\ y \in A(x) /\ y \notin A(y)
    BY <1>5, OrderIs DEF Ordering
  <2>2. A(y) \in W /\ A(x) \in SUBSET S /\ A(y) \in SUBSET S /\ A(y) # A(x)
    BY <2>1
  <2>3. <<A(y), A(x)>> \in R
    BY <2>1, <2>2 DEF StrictSubsetOrdering
  <2> QED
    BY <1>4, <2>2, <2>3
<1>6. \A o \in S : o = x \/ Less(c, o, x)
  BY <1>5, OrderIs DEF Ordering
<1>. QED BY <1>6 DEF IsLast

\* There is one last node only.
LEMMA LastUnique ==
    ASSUME NEW c \in BOOLEAN, NEW S \in SUBSET Places(c), NEW p, NEW q, IsLast(c, p, S), IsLast(c, q, S)
    PROVE  p = q
  BY OrderIs DEF IsLast, Ordering

\* Of finitely many nodes, one is the first.
LEMMA FirstExists ==
    ASSUME NEW c \in BOOLEAN, NEW S \in SUBSET Places(c), IsFiniteSet(S)
    PROVE  \E p : IsFirst(c, p, S)
<1>1. CASE S = {}
  BY <1>1 DEF IsFirst
<1>2. CASE S # {}
  <2> DEFINE A(x) == {y \in S : Less(c, y, x)}
             W == {A(x) : x \in S}
             R == StrictSubsetOrdering(S)
  <2>1. IsWellFoundedOn(R, FiniteSubsetsOf(S))
    BY FS_StrictSubsetOrderingWellFounded
  <2>2. W \subseteq FiniteSubsetsOf(S) /\ W # {}
    <3>1. \A T \in SUBSET S : IsFiniteSet(T)
      BY FS_Subset
    <3>2. \A x \in S : A(x) \in SUBSET S
      OBVIOUS
    <3>3. \A x \in S : A(x) \in FiniteSubsetsOf(S)
      BY <3>1, <3>2 DEF FiniteSubsetsOf
    <3>. QED BY <1>2, <3>3
  <2>3. \E m \in W : \A y \in W : <<y, m>> \notin R
    <3> HIDE DEF R, W
    <3> QED
      BY <2>1, <2>2, WFMin
  <2>4. PICK x \in S : \A y \in W : <<y, A(x)>> \notin R
    BY <2>3
  <2>5. ASSUME NEW y \in S, Less(c, y, x)
        PROVE  FALSE
    <3>1. A(y) \subseteq A(x) /\ y \in A(x) /\ y \notin A(y)
      BY <2>5, OrderIs DEF Ordering
    <3>2. A(y) \in W /\ A(x) \in SUBSET S /\ A(y) \in SUBSET S /\ A(y) # A(x)
      BY <3>1
    <3>3. <<A(y), A(x)>> \in R
      BY <3>1, <3>2 DEF StrictSubsetOrdering
    <3> QED
      BY <2>4, <3>2, <3>3
  <2>6. \A o \in S : o = x \/ Less(c, x, o)
    BY <2>5, OrderIs DEF Ordering
  <2>. QED BY <1>2, <2>6 DEF IsFirst
<1>. QED BY <1>1, <1>2

-----------------------------------------------------------------------------
(* What the nodes are. *)

\* The nodes of a level with the head, those without it, and those behind one
At(N, l) == {n \in DOMAIN N : l \in DOMAIN N[n].next}
Tall(N, l) == {m \in DOMAIN N \ {ListHead} : l \in DOMAIN N[m].next}
After(c, N, n, l) == {m \in Tall(N, l) : Less(c, n, m)}

Rec(D, h) == [value : Elements \cup {NoNode}, prev : AnyName \cup {ListHead, NoNode}, next : [1..h -> D \cup {NoNode}]]

ListTyped(c, N) ==
    /\ IsFiniteSet(DOMAIN N) /\ ListHead \in DOMAIN N /\ DOMAIN N \subseteq Places(c)
    /\ \A n \in DOMAIN N : \E h \in Levels : N[n] \in Rec(DOMAIN N, h)
    /\ DOMAIN N[ListHead].next = Levels
    /\ \A n \in DOMAIN N \ {ListHead} : N[n].value \in Elements /\ NameOf(c, N[n].value) = n

\* Every next pointer leads to the first node behind.
Chained(c, N) ==
    \A n \in DOMAIN N : \A l \in DOMAIN N[n].next : IsFirst(c, N[n].next[l], After(c, N, n, l))

\* Nodes with all that stand before them
Segment(c, N, L) ==
    /\ L \subseteq DOMAIN N \ {ListHead}
    /\ \A a \in L, b \in DOMAIN N \ {ListHead} : Less(c, b, a) => b \in L

\* What the types say of the levels
LEMMA TypedFacts ==
    ASSUME NEW c \in BOOLEAN, NEW N, ListTyped(c, N)
    PROVE  /\ \A S \in SUBSET DOMAIN N : IsFiniteSet(S)
           /\ \A n \in DOMAIN N : 1 \in DOMAIN N[n].next /\ DOMAIN N[n].next \subseteq Levels
           /\ \A n \in DOMAIN N : \A l \in DOMAIN N[n].next, k \in Levels : k <= l => k \in DOMAIN N[n].next
           /\ \A l \in Levels : Tall(N, l) \cup {ListHead} = At(N, l)
           /\ \A n \in DOMAIN N : \A l \in DOMAIN N[n].next : N[n].next[l] \in DOMAIN N \cup {NoNode}
           /\ DOMAIN N \subseteq Places(c) /\ DOMAIN N \ {ListHead} \subseteq NodeNames(c) /\ ListHead \in DOMAIN N
           /\ NoNode \notin DOMAIN N
<1>1. \A S \in SUBSET DOMAIN N : IsFiniteSet(S)
  BY FS_Subset DEF ListTyped
<1>2. ASSUME NEW n \in DOMAIN N
      PROVE  /\ 1 \in DOMAIN N[n].next /\ DOMAIN N[n].next \subseteq Levels
             /\ \A l \in DOMAIN N[n].next, k \in Levels : k <= l => k \in DOMAIN N[n].next
             /\ \A l \in DOMAIN N[n].next : N[n].next[l] \in DOMAIN N \cup {NoNode}
  <2>1. PICK h \in Levels : N[n] \in Rec(DOMAIN N, h)
    BY DEF ListTyped
  <2>2. N[n].next \in [1..h -> DOMAIN N \cup {NoNode}]
    BY <2>1 DEF Rec
  <2>3. h \in 1..MaxLevel /\ MaxLevel \in Nat
    BY SkipAssumption DEF Levels
  <2>. QED BY <2>2, <2>3 DEF Levels
<1>3. \A l \in Levels : Tall(N, l) \cup {ListHead} = At(N, l)
  BY DEF At, Tall, ListTyped
<1>4. DOMAIN N \subseteq Places(c) /\ DOMAIN N \ {ListHead} \subseteq NodeNames(c) /\ ListHead \in DOMAIN N
  BY DEF ListTyped, Places
<1>5. NoNode \notin DOMAIN N
  BY <1>4, NamesAre
<1>. QED BY <1>1, <1>2, <1>3, <1>4, <1>5

SegmentEnds(c, N, l, L, q) ==
    /\ N[q].next[l] \notin L
    /\ \A n \in At(N, l) : N[n].next[l] \in L =>
          n \in L \cup {ListHead} /\ N[n].next[l] \in At(N, l) /\ Less(c, n, N[n].next[l])
    /\ \A n \in At(N, l) \cap (L \cup {ListHead}) : N[n].next[l] \notin L => n = q
    /\ After(c, N, q, l) = Tall(N, l) \ L
    /\ \A n \in At(N, l) \cap (L \cup {ListHead}) : After(c, N, n, l) \ L = Tall(N, l) \ L

\* The last node of a level among those of a segment: every next pointer before
\* it leads to one of the segment, and its own does not.
LEMMA LastOfSegment ==
    ASSUME NEW c \in BOOLEAN, NEW N, ListTyped(c, N), Chained(c, N), NEW l \in Levels,
           NEW L, Segment(c, N, L), NEW q, IsLast(c, q, At(N, l) \cap (L \cup {ListHead}))
    PROVE  SegmentEnds(c, N, l, L, q)
<1> DEFINE S == At(N, l)
<1>0. /\ DOMAIN N \subseteq Places(c) /\ DOMAIN N \ {ListHead} \subseteq NodeNames(c) /\ ListHead \in DOMAIN N
      /\ NoNode \notin DOMAIN N /\ S = Tall(N, l) \cup {ListHead}
      /\ L \subseteq DOMAIN N \ {ListHead}
  BY TypedFacts DEF Segment
<1>1. ASSUME NEW n \in S
      PROVE  IsFirst(c, N[n].next[l], After(c, N, n, l))
  BY DEF Chained, At
<1>2. ASSUME NEW n \in S, N[n].next[l] \in L
      PROVE  n \in L \cup {ListHead} /\ N[n].next[l] \in S /\ Less(c, n, N[n].next[l])
  <2>1. N[n].next[l] \in After(c, N, n, l)
    BY <1>0, <1>1, <1>2 DEF IsFirst
  <2>2. N[n].next[l] \in S /\ Less(c, n, N[n].next[l])
    BY <1>0, <2>1 DEF After
  <2>. QED BY <1>0, <1>2, <2>2 DEF Segment, At
<1>3. q \in S /\ q \in L \cup {ListHead} /\ \A o \in S \cap (L \cup {ListHead}) : o = q \/ Less(c, o, q)
  BY DEF IsLast
<1>4. N[q].next[l] \notin L
  <2>1. SUFFICES ASSUME N[q].next[l] \in L PROVE FALSE
    OBVIOUS
  <2>2. N[q].next[l] \in S \cap (L \cup {ListHead}) /\ Less(c, q, N[q].next[l])
    BY <1>2, <1>3, <2>1
  <2>3. N[q].next[l] \in Places(c) /\ q \in Places(c)
    BY <1>0, <1>3, <2>2
  <2>. QED BY <1>3, <2>2, <2>3, OrderIs DEF Ordering
<1>5. ASSUME NEW n \in S \cap (L \cup {ListHead}), N[n].next[l] \notin L, n # q
      PROVE  FALSE
  <2>1. Less(c, n, q)
    BY <1>3, <1>5
  <2>2. q # ListHead
    BY <1>0, <2>1 DEF Less
  <2>3. q \in After(c, N, n, l) /\ q \in L
    BY <1>0, <1>3, <2>1, <2>2 DEF After
  <2>4. PICK m : m = N[n].next[l]
    OBVIOUS
  <2>5. m \in After(c, N, n, l) /\ (q = m \/ Less(c, m, q))
    BY <1>1, <2>3, <2>4 DEF IsFirst
  <2>6. m \in DOMAIN N \ {ListHead}
    BY <2>5 DEF After, Tall
  <2>. QED BY <1>5, <2>3, <2>4, <2>5, <2>6 DEF Segment
<1>6. ASSUME NEW n \in S \cap (L \cup {ListHead}), NEW o \in Tall(N, l) \ L
      PROVE  Less(c, n, o)
  <2>1. o \in DOMAIN N \ {ListHead} /\ n \in Places(c) /\ o \in Places(c) /\ o \in NodeNames(c)
    BY <1>0 DEF Tall
  <2>2. n # o
    BY <1>6, <2>1
  <2>3. ~Less(c, o, n)
    <3>1. CASE n = ListHead
      BY <3>1 DEF Less
    <3>2. CASE n \in L
      BY <1>6, <2>1, <3>2 DEF Segment
    <3>. QED BY <3>1, <3>2
  <2>. QED BY <2>1, <2>2, <2>3, OrderIs DEF Ordering
<1>7. After(c, N, q, l) = Tall(N, l) \ L
  <2>1. ASSUME NEW o \in After(c, N, q, l)
        PROVE  o \notin L
    <3>1. o \in S /\ Less(c, q, o) /\ o \in Places(c) /\ q \in Places(c)
      BY <1>0, <1>3 DEF After, Tall
    <3>. QED BY <1>3, <3>1, OrderIs DEF Ordering
  <2>. QED BY <1>3, <1>6, <2>1 DEF After
<1>8. \A n \in S \cap (L \cup {ListHead}) : After(c, N, n, l) \ L = Tall(N, l) \ L
  BY <1>6 DEF After
<1>. QED BY <1>2, <1>4, <1>5, <1>7, <1>8 DEF SegmentEnds

-----------------------------------------------------------------------------
(* What the descent finds. *)

\* The nodes on a level, as AtLevel has them
LEMMA AtLevelIs ==
    ASSUME compare2 \in BOOLEAN, ListTyped(compare2, nodes), NEW l \in Levels
    PROVE  /\ AtLevel(l) = Tall(nodes, l) \cup {ListHead}
           /\ AtLevel(l) \subseteq Places(compare2) /\ IsFiniteSet(AtLevel(l))
           /\ ListHead \in AtLevel(l)
  BY TypedFacts DEF AtLevel, At

\* Moving along a level ends at its last node in the segment.
LEMMA AdvanceIs ==
    ASSUME compare2 \in BOOLEAN, ListTyped(compare2, nodes), Chained(compare2, nodes),
           NEW l \in Levels, NEW L, Segment(compare2, nodes, L),
           NEW p \in AtLevel(l), p \in L \cup {ListHead}
    PROVE  IsLast(compare2, Advance(p, l, L), AtLevel(l) \cap (L \cup {ListHead}))
<1> DEFINE S == AtLevel(l)
           Is(f) == f = [n \in S |-> IF nodes[n].next[l] \in L THEN f[nodes[n].next[l]] ELSE n]
           from == CHOOSE f : Is(f)
<1>1. Advance(p, l, L) = from[p]
  BY DEF Advance
<1>2. /\ S \subseteq Places(compare2) /\ IsFiniteSet(S) /\ ListHead \in S
      /\ S = At(nodes, l)
      /\ \A T \in SUBSET S : IsFiniteSet(T)
  BY AtLevelIs, FS_Subset DEF AtLevel, At
<1> HIDE DEF S, from
<1>3. PICK q : IsLast(compare2, q, S \cap (L \cup {ListHead}))
  <2>1. S \cap (L \cup {ListHead}) # {} /\ IsFiniteSet(S \cap (L \cup {ListHead}))
    BY <1>2
  <2>. QED BY <1>2, <2>1, LastExists
<1>4. /\ nodes[q].next[l] \notin L
      /\ \A n \in S : nodes[n].next[l] \in L =>
            n \in L \cup {ListHead} /\ nodes[n].next[l] \in S /\ Less(compare2, n, nodes[n].next[l])
      /\ \A n \in S \cap (L \cup {ListHead}) : nodes[n].next[l] \notin L => n = q
  <2>1. SegmentEnds(compare2, nodes, l, L, q)
    BY <1>2, <1>3, LastOfSegment
  <2>. QED BY <1>2, <2>1 DEF SegmentEnds
<1> DEFINE f == [n \in S |-> IF n \in L \cup {ListHead} THEN q ELSE n]
<1>5. Is(f)
  <2>1. ASSUME NEW n \in S
        PROVE  f[n] = IF nodes[n].next[l] \in L THEN f[nodes[n].next[l]] ELSE n
    BY <1>4
  <2>. QED BY <2>1
<1> HIDE DEF f
<1>6. Is(from)
  BY <1>5 DEF from
<1>7. \A n \in S : from[n] = IF nodes[n].next[l] \in L THEN from[nodes[n].next[l]] ELSE n
  BY <1>6
<1>8. \A n \in S : f[n] = IF nodes[n].next[l] \in L THEN f[nodes[n].next[l]] ELSE n
  BY <1>5
<1> DEFINE B == {n \in S : from[n] # f[n]}
<1>9. B = {}
  <2>1. SUFFICES ASSUME B # {} PROVE FALSE
    OBVIOUS
  <2>2. B \in SUBSET S /\ IsFiniteSet(B)
    BY <1>2
  <2>3. PICK n : IsLast(compare2, n, B)
    <3> HIDE DEF B
    <3>. QED BY <1>2, <2>1, <2>2, LastExists
  <2>4. n \in B /\ n \in S /\ from[n] # f[n]
    BY <2>3 DEF IsLast
  <2>5. nodes[n].next[l] \in L /\ from[nodes[n].next[l]] # f[nodes[n].next[l]]
    BY <1>7, <1>8, <2>4
  <2>6. nodes[n].next[l] \in B /\ Less(compare2, n, nodes[n].next[l])
    BY <1>4, <2>4, <2>5
  <2>7. Less(compare2, nodes[n].next[l], n) \/ nodes[n].next[l] = n
    BY <2>3, <2>6 DEF IsLast
  <2>. QED BY <1>2, <2>2, <2>4, <2>6, <2>7, OrderIs DEF Ordering
<1>10. from[p] = f[p] /\ f[p] = q
  BY <1>9 DEF f, S
<1>. QED BY <1>1, <1>3, <1>10 DEF S

\* A set of positions has a last one.
LEMMA LastPosition ==
    ASSUME NEW n \in Nat, NEW C \in SUBSET (1 .. n), C # {}
    PROVE  \E x \in C : \A y \in C : y <= x
<1> DEFINE U == {k \in Nat : n - k \in C}
           R == {ss \in Nat \X Nat : ss[1] < ss[2]}
<1>1. U # {} /\ U \subseteq Nat
  <2>1. PICK y \in C : TRUE
    OBVIOUS
  <2>2. y \in Int /\ n - y \in Nat /\ n - (n - y) = y
    OBVIOUS
  <2> QED
    BY <2>2
<1>2. IsWellFoundedOn(R, Nat)
  BY NatLessThanWellFounded DEF OpToRel
<1>3. \E x \in U : \A y \in U : <<y, x>> \notin R
  <2> HIDE DEF R, U
  <2> QED
    BY <1>1, <1>2, WFMin
<1>4. PICK x \in U : \A y \in U : <<y, x>> \notin R
  BY <1>3
<1>5. x \in Nat /\ n - x \in C
  OBVIOUS
<1>6. ASSUME NEW y \in C
      PROVE  y <= n - x
  <2>1. y \in Int /\ n - y \in Nat /\ n - (n - y) = y
    OBVIOUS
  <2>2. n - y \in U
    BY <2>1
  <2>3. ~(n - y < x)
    BY <1>4, <1>5, <2>1, <2>2
  <2> QED
    BY <1>5, <2>1, <2>3
<1> QED
  BY <1>5, <1>6

\* The descent stops on every level at its last node in the segment.
LEMMA DescentIs ==
    ASSUME compare2 \in BOOLEAN, ListTyped(compare2, nodes), Chained(compare2, nodes),
           level \in Levels, NEW L, Segment(compare2, nodes, L)
    PROVE  \A l \in 1..level : IsLast(compare2, Descent(L)[l], AtLevel(l) \cap (L \cup {ListHead}))
<1> DEFINE Is(d) == d = [l \in 1..(level + 1) |->
                            IF l > level THEN ListHead ELSE Advance(d[l + 1], l, L)]
           prev == CHOOSE d : Is(d)
           LastAt(l) == CHOOSE p : IsLast(compare2, p, AtLevel(l) \cap (L \cup {ListHead}))
           d == [l \in 1..(level + 1) |-> IF l > level THEN ListHead ELSE LastAt(l)]
<1>1. Descent(L) = prev
  BY DEF Descent
<1>2. level \in Nat \ {0} /\ MaxLevel \in Nat /\ level <= MaxLevel /\ 1..level \subseteq Levels
      /\ L \subseteq DOMAIN nodes
  BY SkipAssumption DEF Levels, Segment
<1>3. ASSUME NEW l \in 1..level
      PROVE  IsLast(compare2, LastAt(l), AtLevel(l) \cap (L \cup {ListHead}))
  <2>1. l \in Levels
    BY <1>2
  <2>2. /\ AtLevel(l) \cap (L \cup {ListHead}) # {}
        /\ AtLevel(l) \cap (L \cup {ListHead}) \in SUBSET Places(compare2)
        /\ AtLevel(l) \cap (L \cup {ListHead}) \in SUBSET AtLevel(l) /\ IsFiniteSet(AtLevel(l))
    BY <2>1, AtLevelIs
  <2>3. IsFiniteSet(AtLevel(l) \cap (L \cup {ListHead}))
    BY <2>2, FS_Subset
  <2>4. \E p : IsLast(compare2, p, AtLevel(l) \cap (L \cup {ListHead}))
    BY <2>2, <2>3, LastExists
  <2>. QED BY <2>4
<1> HIDE DEF LastAt, prev
<1>4. ASSUME NEW l \in 1..level, NEW p, p \in AtLevel(l), p \in L \cup {ListHead}
      PROVE  Advance(p, l, L) = LastAt(l)
  <2>1. l \in Levels
    BY <1>2
  <2>2. IsLast(compare2, Advance(p, l, L), AtLevel(l) \cap (L \cup {ListHead}))
    BY <1>4, <2>1, AdvanceIs
  <2>3. AtLevel(l) \cap (L \cup {ListHead}) \in SUBSET Places(compare2)
    BY <2>1, AtLevelIs
  <2>. QED BY <1>3, <2>2, <2>3, LastUnique
<1>5. ASSUME NEW l \in 1..level
      PROVE  d[l + 1] \in AtLevel(l) /\ d[l + 1] \in L \cup {ListHead}
  <2>1. CASE l = level
    <3>1. d[l + 1] = ListHead
      BY <1>2, <2>1
    <3>2. ListHead \in AtLevel(l)
      BY <1>2, AtLevelIs
    <3>. QED BY <3>1, <3>2
  <2>2. CASE l # level
    <3>1. l + 1 \in 1..level /\ l + 1 \in Levels /\ l \in Levels /\ l <= l + 1
      BY <1>2, <2>2
    <3>2. d[l + 1] = LastAt(l + 1)
      BY <1>2, <3>1
    <3>3. LastAt(l + 1) \in AtLevel(l + 1) /\ LastAt(l + 1) \in L \cup {ListHead}
      BY <1>3, <3>1 DEF IsLast
    <3>4. AtLevel(l + 1) \subseteq AtLevel(l)
      BY <3>1, TypedFacts DEF AtLevel
    <3>. QED BY <3>2, <3>3, <3>4
  <2>. QED BY <2>1, <2>2
<1>6. Is(d)
  <2>1. ASSUME NEW l \in 1..(level + 1)
        PROVE  d[l] = IF l > level THEN ListHead ELSE Advance(d[l + 1], l, L)
    <3>1. CASE l > level
      BY <3>1
    <3>2. CASE ~(l > level)
      <4>1. l \in 1..level
        BY <1>2, <3>2
      <4>2. d[l] = LastAt(l)
        BY <1>2, <3>2, <4>1
      <4>3. Advance(d[l + 1], l, L) = LastAt(l)
        BY <1>4, <1>5, <4>1
      <4>. QED BY <3>2, <4>2, <4>3
    <3>. QED BY <3>1, <3>2
  <2>. QED BY <2>1
<1> HIDE DEF d
<1>7. Is(prev)
  BY <1>6 DEF prev
<1>8. \A l \in 1..(level + 1) : prev[l] = IF l > level THEN ListHead ELSE Advance(prev[l + 1], l, L)
  BY <1>7
<1>9. \A l \in 1..(level + 1) : d[l] = IF l > level THEN ListHead ELSE Advance(d[l + 1], l, L)
  BY <1>6
<1> DEFINE B == {l \in 1..(level + 1) : prev[l] # d[l]}
<1>10. B = {}
  <2>1. SUFFICES ASSUME B # {} PROVE FALSE
    OBVIOUS
  <2>2. level + 1 \in Nat /\ B \in SUBSET (1..(level + 1))
    BY <1>2
  <2>3. PICK l \in B : \A k \in B : k <= l
    <3> HIDE DEF B
    <3>. QED BY <2>1, <2>2, LastPosition
  <2>4. l \in 1..level /\ l + 1 \in 1..(level + 1) /\ ~(l + 1 <= l)
    BY <1>2, <1>8, <1>9
  <2>5. prev[l + 1] = d[l + 1]
    BY <2>3, <2>4
  <2>6. prev[l] = d[l]
    BY <1>8, <1>9, <2>4, <2>5
  <2>. QED BY <2>6
<1>11. \A l \in 1..level : prev[l] = LastAt(l)
  <2>1. \A l \in 1..level : l \in 1..(level + 1) /\ ~(l > level)
    BY <1>2
  <2>. QED BY <1>10, <2>1 DEF d
<1>. QED BY <1>1, <1>3, <1>11

\* The descent meets a node it looks for if there is one.
LEMMA HitIs ==
    ASSUME compare2 \in BOOLEAN, ListTyped(compare2, nodes), Chained(compare2, nodes),
           level \in Levels, NEW L, Segment(compare2, nodes, L),
           NEW E, E \subseteq Members, E \cap L = {}, Segment(compare2, nodes, L \cup E)
    PROVE  IF E = {} THEN Hit(Descent(L), E) = NoNode ELSE Hit(Descent(L), E) \in E
<1> DEFINE prev == Descent(L)
           hits == {l \in 1..level : nodes[prev[l]].next[l] \in E}
           top == CHOOSE l \in hits : \A other \in hits : other <= l
<1>1. Hit(prev, E) = IF hits = {} THEN NoNode ELSE nodes[prev[top]].next[top]
  BY DEF Hit
<1>2. level \in Nat /\ 1 \in 1..level /\ 1 \in Levels
  BY SkipAssumption DEF Levels
<1>3. hits # {} => nodes[prev[top]].next[top] \in E
  <2> HIDE DEF prev
  <2>1. SUFFICES ASSUME hits # {} PROVE nodes[prev[top]].next[top] \in E
    OBVIOUS
  <2>2. hits \in SUBSET (1..level)
    OBVIOUS
  <2>3. \E l \in hits : \A other \in hits : other <= l
    <3> HIDE DEF hits
    <3>. QED BY <1>2, <2>1, <2>2, LastPosition
  <2>4. top \in hits
    <3> HIDE DEF hits
    <3>. QED BY <2>3
  <2>. QED BY <2>4
<1> HIDE DEF prev, top
<1>4. ASSUME E # {}
      PROVE  1 \in hits
  <2>1. PICK q : q = prev[1]
    OBVIOUS
  <2>2. IsLast(compare2, q, AtLevel(1) \cap (L \cup {ListHead}))
    BY <1>2, <2>1, DescentIs DEF prev
  <2>. AtLevel(1) = At(nodes, 1)
    BY DEF AtLevel, At
  <2>3. After(compare2, nodes, q, 1) = Tall(nodes, 1) \ L
    <3>1. SegmentEnds(compare2, nodes, 1, L, q)
      BY <1>2, <2>2, LastOfSegment
    <3>. QED BY <3>1 DEF SegmentEnds
  <2>4. Tall(nodes, 1) = DOMAIN nodes \ {ListHead}
    BY TypedFacts DEF Tall
  <2>5. PICK e : e \in E
    BY <1>4
  <2>6. e \in After(compare2, nodes, q, 1)
    BY <2>3, <2>4, <2>5 DEF Members
  <2>7. q \in DOMAIN nodes /\ 1 \in DOMAIN nodes[q].next
    BY <2>2 DEF IsLast, AtLevel
  <2>8. PICK m : m = nodes[q].next[1]
    OBVIOUS
  <2>9. m \in After(compare2, nodes, q, 1) /\ (e = m \/ Less(compare2, m, e))
    BY <2>6, <2>7, <2>8 DEF Chained, IsFirst
  <2>10. m \in DOMAIN nodes \ {ListHead} /\ m \notin L
    BY <2>3, <2>4, <2>9
  <2>11. m \in L \cup E
    BY <2>5, <2>9, <2>10 DEF Segment
  <2>. QED BY <1>2, <2>1, <2>8, <2>10, <2>11
<1>. QED BY <1>1, <1>3, <1>4 DEF prev

-----------------------------------------------------------------------------
(* The invariant. *)

Mirrored(N) ==
    \A n \in DOMAIN N \ {ListHead} : N[n].prev \in DOMAIN N /\ N[N[n].prev].next[1] = n

\* The level in use is the highest a node has.
Capped(N, lev) ==
    /\ lev \in Levels
    /\ \A n \in DOMAIN N \ {ListHead} : \A l \in DOMAIN N[n].next : l <= lev
    /\ lev > 1 => Tall(N, lev) # {}

GoodList(c, N, lev) == ListTyped(c, N) /\ Chained(c, N) /\ Mirrored(N) /\ Capped(N, lev)

SkipInv ==
    /\ compare2 \in BOOLEAN /\ removed \in Nat
    /\ GoodList(compare2, nodes, level)
    /\ length = Cardinality(Members)

\* What a list with no nodes is
LEMMA EmptyGood ==
    ASSUME NEW c \in BOOLEAN
    PROVE  GoodList(c, EmptyList, 1) /\ DOMAIN EmptyList \ {ListHead} = {}
<1>1. DOMAIN EmptyList = {ListHead} /\ EmptyList[ListHead] = [value |-> NoNode, prev |-> NoNode, next |-> [l \in Levels |-> NoNode]]
  BY DEF EmptyList
<1>2. /\ EmptyList[ListHead].next = [l \in Levels |-> NoNode] /\ 1 \in Levels /\ MaxLevel \in Levels
      /\ Levels = 1..MaxLevel
  BY <1>1, SkipAssumption DEF Levels
<1>3. EmptyList[ListHead] \in Rec({ListHead}, MaxLevel)
  BY <1>1, <1>2 DEF Rec
<1>4. ListTyped(c, EmptyList)
  BY <1>1, <1>2, <1>3, FS_Singleton DEF ListTyped, Places
<1>5. \A l : Tall(EmptyList, l) = {}
  BY <1>1 DEF Tall
<1>6. Chained(c, EmptyList)
  BY <1>1, <1>2, <1>5 DEF Chained, IsFirst, After
<1>7. Mirrored(EmptyList) /\ Capped(EmptyList, 1)
  BY <1>1, <1>2 DEF Mirrored, Capped
<1>. QED BY <1>1, <1>4, <1>6, <1>7 DEF GoodList

\* The nodes and what their values say of them
LEMMA KeysAre ==
    ASSUME compare2 \in BOOLEAN, ListTyped(compare2, nodes)
    PROVE  /\ \A n \in Members : /\ n \in NodeNames(compare2) /\ nodes[n].value \in Elements
                                 /\ KeyOf(n) = n.key /\ n.key \in Int
                                 /\ compare2 => nodes[n].value = n /\ n.tag \in Int
           /\ \A v \in Elements : Node(v) = NameOf(compare2, v)
<1>1. ASSUME NEW n \in Members
      PROVE  /\ n \in NodeNames(compare2) /\ nodes[n].value \in Elements
             /\ KeyOf(n) = n.key /\ n.key \in Int
             /\ compare2 => nodes[n].value = n /\ n.tag \in Int
  <2>1. nodes[n].value \in Elements /\ NameOf(compare2, nodes[n].value) = n
    BY DEF Members, ListTyped
  <2>2. n \in NodeNames(compare2) /\ n.key = nodes[n].value.key
    BY <2>1, NamesAre
  <2>3. compare2 => nodes[n].value = n
    BY <2>1 DEF NameOf
  <2>. QED BY <2>1, <2>2, <2>3, NamesAre DEF KeyOf
<1>. QED BY <1>1 DEF Node, NameOf

\* The sets the descents use are segments.
LEMMA Segments ==
    ASSUME compare2 \in BOOLEAN, ListTyped(compare2, nodes)
    PROVE  /\ \A k \in Int : Segment(compare2, nodes, Lower(k)) /\ Segment(compare2, nodes, UpTo(k))
           /\ \A v \in Elements : /\ LowerThan(v) = {n \in Members : Less(compare2, n, Node(v))}
                                  /\ SameAs(v) = {n \in Members : n = Node(v)}
                                  /\ Segment(compare2, nodes, LowerThan(v))
                                  /\ Segment(compare2, nodes, LowerThan(v) \cup SameAs(v))
<1>1. /\ \A n \in Members : /\ n \in NodeNames(compare2) /\ n # ListHead
                            /\ KeyOf(n) = n.key /\ n.key \in Int
                            /\ compare2 => nodes[n].value = n /\ n.tag \in Int
      /\ Members = DOMAIN nodes \ {ListHead}
  BY KeysAre DEF Members
<1>2. ASSUME NEW k \in Int
      PROVE  Segment(compare2, nodes, Lower(k)) /\ Segment(compare2, nodes, UpTo(k))
  BY <1>1 DEF Segment, Lower, UpTo, Less
<1>3. ASSUME NEW v \in Elements
      PROVE  /\ LowerThan(v) = {n \in Members : Less(compare2, n, Node(v))}
             /\ SameAs(v) = {n \in Members : n = Node(v)}
             /\ Segment(compare2, nodes, LowerThan(v))
             /\ Segment(compare2, nodes, LowerThan(v) \cup SameAs(v))
  <2>1. PICK a : a = Node(v)
    OBVIOUS
  <2>2. /\ a \in NodeNames(compare2) /\ a.key = v.key /\ a.key \in Int /\ a # ListHead
        /\ compare2 => a = v /\ a.tag \in Int
    <3>1. a = NameOf(compare2, v)
      BY <2>1, KeysAre
    <3>2. a \in NodeNames(compare2) /\ a.key = v.key
      BY <3>1, NamesAre
    <3>3. a.key \in Int /\ a # ListHead /\ (compare2 => a = v)
      BY <3>1, <3>2, NamesAre DEF NameOf
    <3>4. compare2 => a.tag \in Int
      BY <3>2, NamesAre
    <3>. QED BY <3>2, <3>3, <3>4
  <2>3. LowerThan(v) = {n \in Members : Less(compare2, n, a)}
    <3>1. ASSUME NEW n \in Members
          PROVE  n \in LowerThan(v) <=> Less(compare2, n, a)
      BY <1>1, <2>2 DEF LowerThan, Lower, Equal, Less
    <3>2. LowerThan(v) \subseteq Members
      BY DEF LowerThan, Lower, Equal
    <3>. QED BY <3>1, <3>2
  <2>4. SameAs(v) = {n \in Members : n = a}
    <3>1. ASSUME NEW n \in Members
          PROVE  n \in SameAs(v) <=> n = a
      <4>1. n \in SameAs(v) <=> n.key = a.key /\ (compare2 => n.tag = a.tag)
        BY <1>1, <2>2 DEF SameAs, Equal
      <4>. QED BY <1>1, <2>2, <4>1, NamesAre
    <3>2. SameAs(v) \subseteq Members
      BY DEF SameAs, Equal
    <3>. QED BY <3>1, <3>2
  <2>5. \A n, m \in Members : Less(compare2, m, n) /\ Less(compare2, n, a) => Less(compare2, m, a)
    BY <1>1, <2>2, OrderIs DEF Ordering, Places
  <2>6. Segment(compare2, nodes, LowerThan(v))
    BY <1>1, <2>3, <2>5 DEF Segment
  <2>7. Segment(compare2, nodes, LowerThan(v) \cup SameAs(v))
    BY <1>1, <2>3, <2>4, <2>5 DEF Segment
  <2>. QED BY <2>1, <2>3, <2>4, <2>6, <2>7
<1>. QED BY <1>2, <1>3

-----------------------------------------------------------------------------
(* skiplist_set of a value that is there. *)

Revalued(c, N, lev, n, v, M) ==
    /\ GoodList(c, M, lev) /\ DOMAIN M = DOMAIN N
    /\ \A m \in DOMAIN N \ {ListHead} : M[m].value = IF m = n THEN v ELSE N[m].value

\* The same links under other values are a list of the same nodes.
LEMMA SameLinks ==
    ASSUME NEW c \in BOOLEAN, NEW N, NEW lev, GoodList(c, N, lev),
           NEW n \in DOMAIN N \ {ListHead}, NEW v \in Elements, NameOf(c, v) = n,
           NEW M, DOMAIN M = DOMAIN N,
           \A m \in DOMAIN N : /\ M[m].next = N[m].next /\ M[m].prev = N[m].prev
                               /\ M[m].value = IF m = n THEN v ELSE N[m].value,
           \A m \in DOMAIN N : \E h \in Levels : M[m] \in Rec(DOMAIN N, h)
    PROVE  Revalued(c, N, lev, n, v, M)
<1>1. ListTyped(c, M)
  BY DEF GoodList, ListTyped
<1>2. \A l : Tall(M, l) = Tall(N, l)
  BY DEF Tall
<1>3. Chained(c, M)
  BY <1>2 DEF GoodList, Chained, After
<1>4. Mirrored(M)
  BY DEF GoodList, Mirrored
<1>5. Capped(M, lev)
  BY <1>2 DEF GoodList, Capped
<1>. QED BY <1>1, <1>3, <1>4, <1>5 DEF GoodList, Revalued

\* Replacing a value by one of the same name leaves the list as it is.
LEMMA RevaluedGood ==
    ASSUME NEW c \in BOOLEAN, NEW N, NEW lev, GoodList(c, N, lev),
           NEW n \in DOMAIN N \ {ListHead}, NEW v \in Elements, NameOf(c, v) = n,
           NEW M, M = [N EXCEPT ![n].value = v]
    PROVE  Revalued(c, N, lev, n, v, M)
<1>1. DOMAIN M = DOMAIN N
  OBVIOUS
<1>2. ASSUME NEW m \in DOMAIN N
      PROVE  \E h \in Levels :
                /\ N[m] \in Rec(DOMAIN N, h) /\ M[m] \in Rec(DOMAIN N, h)
                /\ M[m].next = N[m].next /\ M[m].prev = N[m].prev
                /\ M[m].value = IF m = n THEN v ELSE N[m].value
  <2>1. PICK h \in Levels : N[m] \in Rec(DOMAIN N, h)
    BY DEF GoodList, ListTyped
  <2>2. M[m] = IF m = n THEN [N[m] EXCEPT !.value = v] ELSE N[m]
    OBVIOUS
  <2>3. M[m] \in Rec(DOMAIN N, h)
    BY <2>1, <2>2 DEF Rec
  <2>4. M[m].next = N[m].next /\ M[m].prev = N[m].prev /\ M[m].value = IF m = n THEN v ELSE N[m].value
    BY <2>1, <2>2 DEF Rec
  <2>. QED BY <2>1, <2>3, <2>4
<1>3. \A m \in DOMAIN N : /\ M[m].next = N[m].next /\ M[m].prev = N[m].prev
                          /\ M[m].value = IF m = n THEN v ELSE N[m].value
  BY <1>2
<1>4. \A m \in DOMAIN N : \E h \in Levels : M[m] \in Rec(DOMAIN N, h)
  BY <1>2
<1>. QED BY <1>1, <1>3, <1>4, SameLinks

\* The node the descent of skiplist_set finds is the one of the value.
LEMMA SetHit ==
    ASSUME SkipInv, NEW v \in Elements
    PROVE  IF Node(v) \in Members THEN Hit(Descent(LowerThan(v)), SameAs(v)) = Node(v)
                                  ELSE Hit(Descent(LowerThan(v)), SameAs(v)) = NoNode
<1>1. /\ compare2 \in BOOLEAN /\ ListTyped(compare2, nodes) /\ Chained(compare2, nodes)
      /\ level \in Levels
  BY DEF SkipInv, GoodList, Capped
<1>2. /\ LowerThan(v) = {n \in Members : Less(compare2, n, Node(v))}
      /\ SameAs(v) = {n \in Members : n = Node(v)}
      /\ Segment(compare2, nodes, LowerThan(v))
      /\ Segment(compare2, nodes, LowerThan(v) \cup SameAs(v))
  BY <1>1, Segments
<1>3. SameAs(v) \subseteq Members /\ SameAs(v) \cap LowerThan(v) = {}
  <2>1. Node(v) \in Places(compare2)
    BY <1>1, NamesAre, KeysAre DEF Places
  <2>. QED BY <1>1, <1>2, <2>1, OrderIs DEF Ordering
<1>4. IF SameAs(v) = {} THEN Hit(Descent(LowerThan(v)), SameAs(v)) = NoNode
                        ELSE Hit(Descent(LowerThan(v)), SameAs(v)) \in SameAs(v)
  BY <1>1, <1>2, <1>3, HitIs
<1>. QED BY <1>2, <1>4

\* It keeps the invariant.
LEMMA OverwriteInv ==
    ASSUME SkipInv, NEW v \in Elements, Overwrite(v)
    PROVE  SkipInv' /\ Node(v) \in Members /\ Members' = Members
           /\ \A m \in Members : nodes'[m].value = IF m = Node(v) THEN v ELSE nodes[m].value
<1>1. PICK n : n = Hit(Descent(LowerThan(v)), SameAs(v))
  OBVIOUS
<1>2. /\ n # NoNode /\ nodes' = [nodes EXCEPT ![n].value = v]
      /\ removed' = 0 /\ compare2' = compare2 /\ level' = level /\ length' = length
  BY <1>1 DEF Overwrite
<1>3. n = Node(v) /\ n \in Members
  BY <1>1, <1>2, SetHit
<1>4. NameOf(compare2, v) = n /\ n \in DOMAIN nodes \ {ListHead} /\ compare2 \in BOOLEAN
      /\ GoodList(compare2, nodes, level)
  BY <1>3 DEF Node, NameOf, Members, SkipInv
<1>5. GoodList(compare2, nodes', level) /\ DOMAIN nodes' = DOMAIN nodes
      /\ \A m \in DOMAIN nodes \ {ListHead} : nodes'[m].value = IF m = n THEN v ELSE nodes[m].value
  <2>1. Revalued(compare2, nodes, level, n, v, nodes')
    BY <1>2, <1>4, RevaluedGood
  <2>. QED BY <2>1 DEF Revalued
<1>6. Members' = Members
  BY <1>5 DEF Members
<1>7. SkipInv'
  BY <1>2, <1>5, <1>6 DEF SkipInv
<1>. QED BY <1>3, <1>5, <1>6, <1>7 DEF Members

-----------------------------------------------------------------------------
(* skiplist_set of a new value: node n is linked in on h levels, behind at[l]  *)
(* on level l, which gives the nodes M.                                       *)

\* The nodes that stand before n
Under(c, N, n) == {m \in DOMAIN N \ {ListHead} : Less(c, m, n)}

\* at[l] is the last of these on its level.
Ends(c, N, n, h, at) ==
    \A l \in 1..h : IsLast(c, at[l], At(N, l) \cap (Under(c, N, n) \cup {ListHead}))

LinkedIn(c, N, n, v, h, at, M) ==
    /\ DOMAIN M = DOMAIN N \cup {n}
    /\ M[n] = [value |-> v, prev |-> at[1], next |-> [l \in 1..h |-> N[at[l]].next[l]]]
    /\ \A m \in DOMAIN N :
          /\ DOMAIN M[m].next = DOMAIN N[m].next
          /\ M[m] = [value |-> N[m].value, prev |-> M[m].prev, next |-> M[m].next]
          /\ M[m].prev = IF m = N[at[1]].next[1] THEN n ELSE N[m].prev
          /\ M[m].next = [l \in DOMAIN N[m].next |-> IF l <= h /\ at[l] = m THEN n ELSE N[m].next[l]]

\* The new node is a node of none of the old ones' names.
NewNode(c, N, n, v, h) ==
    n \in NodeNames(c) /\ n \notin DOMAIN N /\ v \in Elements /\ NameOf(c, v) = n /\ h \in Levels

\* What stands before a node is a segment.
LEMMA UnderSegment ==
    ASSUME NEW c \in BOOLEAN, NEW N, ListTyped(c, N), NEW n \in NodeNames(c)
    PROVE  Segment(c, N, Under(c, N, n))
<1>1. DOMAIN N \subseteq Places(c) /\ n \in Places(c)
  BY DEF ListTyped, Places
<1>. QED BY <1>1, OrderIs DEF Ordering, Segment, Under

\* What linking leaves of the nodes before n and behind it, on one level
LEMMA AroundNew ==
    ASSUME NEW c \in BOOLEAN, NEW N, ListTyped(c, N), Chained(c, N), NEW n, NEW v, NEW h,
           NewNode(c, N, n, v, h), NEW at, Ends(c, N, n, h, at), NEW l \in 1..h
    PROVE  /\ SegmentEnds(c, N, l, Under(c, N, n), at[l])
           /\ at[l] \in At(N, l) /\ at[l] \in Under(c, N, n) \cup {ListHead} /\ l \in Levels
           /\ \A o \in Tall(N, l) : o \notin Under(c, N, n) <=> Less(c, n, o)
           /\ \A o \in Under(c, N, n) \cup {ListHead} : Less(c, o, n)
<1>1. n \in NodeNames(c) /\ n \notin DOMAIN N /\ l \in Levels
  BY SkipAssumption DEF NewNode, Levels
<1>2. IsLast(c, at[l], At(N, l) \cap (Under(c, N, n) \cup {ListHead}))
  BY DEF Ends
<1>3. SegmentEnds(c, N, l, Under(c, N, n), at[l])
  <2>1. Segment(c, N, Under(c, N, n))
    BY <1>1, UnderSegment
  <2>. QED BY <1>1, <1>2, <2>1, LastOfSegment
<1>4. at[l] \in At(N, l) /\ at[l] \in Under(c, N, n) \cup {ListHead}
  BY <1>2 DEF IsLast
<1>5. ASSUME NEW o \in Tall(N, l)
      PROVE  o \notin Under(c, N, n) <=> Less(c, n, o)
  <2>1. o \in Places(c) /\ n \in Places(c) /\ o # n /\ o \in DOMAIN N \ {ListHead}
    BY <1>1 DEF Tall, ListTyped, Places
  <2>2. o \in Under(c, N, n) <=> Less(c, o, n)
    BY <2>1 DEF Under
  <2>. QED BY <2>1, <2>2, OrderIs DEF Ordering
<1>6. \A o \in Under(c, N, n) \cup {ListHead} : Less(c, o, n)
  BY <1>1, OrderIs DEF Ordering, Under
<1>. QED BY <1>1, <1>3, <1>4, <1>5, <1>6

\* Linking a node in keeps the types.
LEMMA LinkedTyped ==
    ASSUME NEW c \in BOOLEAN, NEW N, ListTyped(c, N), Chained(c, N), NEW n, NEW v, NEW h,
           NewNode(c, N, n, v, h), NEW at, Ends(c, N, n, h, at), NEW M, LinkedIn(c, N, n, v, h, at, M)
    PROVE  ListTyped(c, M)
<1> DEFINE D == DOMAIN N \cup {n}
<1>1. n \in NodeNames(c) /\ n \notin DOMAIN N /\ v \in Elements /\ NameOf(c, v) = n /\ h \in Levels
  BY DEF NewNode
<1>2. DOMAIN M = D /\ IsFiniteSet(D) /\ ListHead \in D /\ D \subseteq Places(c) /\ n # ListHead
  <2>1. IsFiniteSet(DOMAIN N)
    BY DEF ListTyped
  <2>2. IsFiniteSet(D)
    BY <2>1, FS_AddElement
  <2>. QED BY <1>1, <2>2, NamesAre DEF LinkedIn, ListTyped, Places
<1>3. 1 \in 1..h
  BY <1>1, SkipAssumption DEF Levels
<1>4. \A l \in 1..h : at[l] \in At(N, l)
  BY DEF Ends, IsLast
<1>5. M[n] \in Rec(D, h)
  <2>1. at[1] \in AnyName \cup {ListHead, NoNode}
    BY <1>3, <1>4 DEF At, ListTyped, Places, NodeNames, AnyName
  <2>2. \A l \in 1..h : N[at[l]].next[l] \in DOMAIN N \cup {NoNode}
    BY <1>4, TypedFacts DEF At
  <2>3. [l \in 1..h |-> N[at[l]].next[l]] \in [1..h -> D \cup {NoNode}]
    BY <2>2
  <2>4. M[n] = [value |-> v, prev |-> at[1], next |-> [l \in 1..h |-> N[at[l]].next[l]]]
    BY DEF LinkedIn
  <2>. QED BY <1>1, <2>1, <2>3, <2>4 DEF Rec
<1>6. ASSUME NEW m \in DOMAIN N
      PROVE  \E k \in Levels : M[m] \in Rec(D, k)
  <2>1. PICK k \in Levels : N[m] \in Rec(DOMAIN N, k)
    BY DEF ListTyped
  <2>2. /\ N[m].value \in Elements \cup {NoNode} /\ N[m].prev \in AnyName \cup {ListHead, NoNode}
        /\ N[m].next \in [1..k -> DOMAIN N \cup {NoNode}]
    BY <2>1 DEF Rec
  <2>3. /\ M[m] = [value |-> N[m].value, prev |-> M[m].prev, next |-> M[m].next]
        /\ M[m].prev = IF m = N[at[1]].next[1] THEN n ELSE N[m].prev
        /\ M[m].next = [l \in DOMAIN N[m].next |-> IF l <= h /\ at[l] = m THEN n ELSE N[m].next[l]]
    BY DEF LinkedIn
  <2>4. M[m].prev \in AnyName \cup {ListHead, NoNode}
    <3>1. n \in AnyName
      BY <1>1 DEF NodeNames, AnyName
    <3>. QED BY <2>2, <2>3, <3>1
  <2>5. M[m].next \in [1..k -> D \cup {NoNode}]
    BY <2>2, <2>3
  <2>6. PICK x, y : x = M[m].prev /\ y = M[m].next
    OBVIOUS
  <2>7. M[m] = [value |-> N[m].value, prev |-> x, next |-> y]
    BY <2>3, <2>6
  <2>8. M[m] \in Rec(D, k)
    BY <2>2, <2>4, <2>5, <2>6, <2>7 DEF Rec
  <2>. QED BY <2>8
<1>7. DOMAIN M[ListHead].next = Levels
  BY DEF LinkedIn, ListTyped
<1>8. ASSUME NEW m \in D \ {ListHead}
      PROVE  M[m].value \in Elements /\ NameOf(c, M[m].value) = m
  <2>1. CASE m = n
    <3>1. M[m].value = v
      BY <2>1 DEF LinkedIn
    <3>. QED BY <1>1, <2>1, <3>1
  <2>2. CASE m # n
    <3>1. m \in DOMAIN N \ {ListHead}
      BY <2>2
    <3>2. M[m] = [value |-> N[m].value, prev |-> M[m].prev, next |-> M[m].next]
      BY <3>1 DEF LinkedIn
    <3>3. PICK x, y : x = M[m].prev /\ y = M[m].next
      OBVIOUS
    <3>4. M[m] = [value |-> N[m].value, prev |-> x, next |-> y]
      BY <3>2, <3>3
    <3>5. M[m].value = N[m].value
      BY <3>4
    <3>. QED BY <3>1, <3>5 DEF ListTyped
  <2>. QED BY <2>1, <2>2
<1>9. \A m \in D : \E k \in Levels : M[m] \in Rec(D, k)
  BY <1>1, <1>5, <1>6
<1>. QED BY <1>2, <1>7, <1>8, <1>9 DEF ListTyped

\* What is linked on a level afterwards
LEMMA LinkedTall ==
    ASSUME NEW c \in BOOLEAN, NEW N, ListTyped(c, N), NEW n, NEW v, NEW h,
           NewNode(c, N, n, v, h), NEW at, NEW M, LinkedIn(c, N, n, v, h, at, M)
    PROVE  /\ \A l \in 1..h : Tall(M, l) = Tall(N, l) \cup {n}
           /\ \A l : l \notin 1..h => Tall(M, l) = Tall(N, l)
<1>1. n # ListHead /\ n \notin DOMAIN N /\ DOMAIN M = DOMAIN N \cup {n}
  BY NamesAre DEF NewNode, LinkedIn
<1>2. DOMAIN M[n].next = 1..h
  BY DEF LinkedIn
<1>3. \A m \in DOMAIN N : DOMAIN M[m].next = DOMAIN N[m].next
  BY DEF LinkedIn
<1>. QED BY <1>1, <1>2, <1>3 DEF Tall

\* It keeps every level in order and complete.
LEMMA LinkedChained ==
    ASSUME NEW c \in BOOLEAN, NEW N, ListTyped(c, N), Chained(c, N), NEW n, NEW v, NEW h,
           NewNode(c, N, n, v, h), NEW at, Ends(c, N, n, h, at), NEW M, LinkedIn(c, N, n, v, h, at, M)
    PROVE  Chained(c, M)
<1>1. n \in NodeNames(c) /\ n \notin DOMAIN N /\ n # ListHead /\ n \in Places(c) /\ h \in Levels
      /\ DOMAIN M = DOMAIN N \cup {n}
  BY NamesAre DEF NewNode, LinkedIn, Places
<1>2. ASSUME NEW l \in 1..h
      PROVE  /\ SegmentEnds(c, N, l, Under(c, N, n), at[l])
             /\ at[l] \in At(N, l) /\ at[l] \in Under(c, N, n) \cup {ListHead} /\ l \in Levels
             /\ \A o \in Tall(N, l) : o \notin Under(c, N, n) <=> Less(c, n, o)
             /\ \A o \in Under(c, N, n) \cup {ListHead} : Less(c, o, n)
  BY AroundNew
<1>3. /\ \A l \in 1..h : Tall(M, l) = Tall(N, l) \cup {n}
      /\ \A l : l \notin 1..h => Tall(M, l) = Tall(N, l)
  BY LinkedTall
<1>4. ASSUME NEW l \in DOMAIN M[n].next
      PROVE  IsFirst(c, M[n].next[l], After(c, M, n, l))
  <2>1. l \in 1..h /\ M[n].next[l] = N[at[l]].next[l]
    <3>1. M[n].next = [k \in 1..h |-> N[at[k]].next[k]]
      BY DEF LinkedIn
    <3>. QED BY <3>1
  <2>2. IsFirst(c, N[at[l]].next[l], After(c, N, at[l], l))
    BY <1>2, <2>1 DEF Chained, At
  <2>3. After(c, N, at[l], l) = Tall(N, l) \ Under(c, N, n)
    BY <1>2, <2>1 DEF SegmentEnds
  <2>4. ~Less(c, n, n)
    BY <1>1, OrderIs DEF Ordering
  <2>5. After(c, M, n, l) = Tall(N, l) \ Under(c, N, n)
    BY <1>2, <1>3, <2>1, <2>4 DEF After
  <2>. QED BY <2>1, <2>2, <2>3, <2>5
<1>5. ASSUME NEW m \in DOMAIN N, NEW l \in DOMAIN M[m].next
      PROVE  IsFirst(c, M[m].next[l], After(c, M, m, l))
  <2>1. l \in DOMAIN N[m].next /\ M[m].next[l] = IF l <= h /\ at[l] = m THEN n ELSE N[m].next[l]
    <3>1. M[m].next = [k \in DOMAIN N[m].next |-> IF k <= h /\ at[k] = m THEN n ELSE N[m].next[k]]
      BY DEF LinkedIn
    <3>2. l \in DOMAIN N[m].next
      BY DEF LinkedIn
    <3>. QED BY <3>1, <3>2
  <2>2. IsFirst(c, N[m].next[l], After(c, N, m, l))
    BY <2>1 DEF Chained
  <2>3. l \in 1..MaxLevel /\ MaxLevel \in Nat /\ h \in 1..MaxLevel
    BY <1>1, <2>1, TypedFacts, SkipAssumption DEF Levels
  <2>4. CASE l \notin 1..h
    <3>1. ~(l <= h)
      BY <2>3, <2>4
    <3>2. After(c, M, m, l) = After(c, N, m, l)
      BY <1>3, <2>4 DEF After
    <3>. QED BY <2>1, <2>2, <3>1, <3>2
  <2>5. CASE l \in 1..h /\ at[l] = m
    <3>1. M[m].next[l] = n
      BY <2>1, <2>3, <2>5
    <3>2. After(c, N, m, l) = Tall(N, l) \ Under(c, N, n)
      BY <1>2, <2>5 DEF SegmentEnds
    <3>3. \A o \in After(c, N, m, l) : Less(c, n, o)
      BY <1>2, <2>5, <3>2
    <3>4. After(c, M, m, l) = After(c, N, m, l) \cup {n}
      BY <1>2, <1>3, <2>5 DEF After
    <3>. QED BY <3>1, <3>3, <3>4 DEF IsFirst
  <2>6. CASE l \in 1..h /\ at[l] # m /\ m \in Under(c, N, n) \cup {ListHead}
    <3>1. M[m].next[l] = N[m].next[l]
      BY <2>1, <2>6
    <3>2. m \in At(N, l)
      BY <2>1 DEF At
    <3>3. N[m].next[l] \in Under(c, N, n)
      BY <1>2, <2>6, <3>2 DEF SegmentEnds
    <3>4. Less(c, N[m].next[l], n) /\ N[m].next[l] \in DOMAIN N
      BY <1>2, <2>6, <3>3 DEF Under
    <3>5. After(c, M, m, l) = After(c, N, m, l) \cup {n}
      BY <1>2, <1>3, <2>6 DEF After
    <3>6. N[m].next[l] \in After(c, N, m, l)
      <4>1. NoNode \notin DOMAIN N
        BY TypedFacts
      <4>. QED BY <2>2, <3>4, <4>1 DEF IsFirst
    <3>. QED BY <2>2, <3>1, <3>4, <3>5, <3>6 DEF IsFirst
  <2>7. CASE l \in 1..h /\ m \notin Under(c, N, n) \cup {ListHead}
    <3>1. at[l] # m
      BY <1>2, <2>7
    <3>2. ~Less(c, m, n)
      BY <2>7 DEF Under
    <3>3. After(c, M, m, l) = After(c, N, m, l)
      BY <1>3, <2>7, <3>2 DEF After
    <3>. QED BY <2>1, <2>2, <3>1, <3>3
  <2>. QED BY <2>4, <2>5, <2>6, <2>7
<1>. QED BY <1>1, <1>4, <1>5 DEF Chained

\* It keeps prev the mirror of the lowest level.
LEMMA LinkedMirrored ==
    ASSUME NEW c \in BOOLEAN, NEW N, ListTyped(c, N), Chained(c, N), Mirrored(N), NEW n, NEW v, NEW h,
           NewNode(c, N, n, v, h), NEW at, Ends(c, N, n, h, at), NEW M, LinkedIn(c, N, n, v, h, at, M)
    PROVE  Mirrored(M)
<1>1. n # ListHead /\ n \notin DOMAIN N /\ DOMAIN M = DOMAIN N \cup {n} /\ 1 \in 1..h /\ 1 <= h
  BY NamesAre, SkipAssumption DEF NewNode, LinkedIn, Levels
<1>2. at[1] \in DOMAIN N /\ 1 \in DOMAIN N[at[1]].next
  BY <1>1 DEF Ends, IsLast, At
<1>3. \A m \in DOMAIN N : 1 \in DOMAIN N[m].next
  BY TypedFacts
<1>4. \A m \in DOMAIN N : M[m].next[1] = IF at[1] = m THEN n ELSE N[m].next[1]
  <2>1. SUFFICES ASSUME NEW m \in DOMAIN N
                 PROVE  M[m].next[1] = IF at[1] = m THEN n ELSE N[m].next[1]
    OBVIOUS
  <2>2. M[m].next = [l \in DOMAIN N[m].next |-> IF l <= h /\ at[l] = m THEN n ELSE N[m].next[l]]
    BY DEF LinkedIn
  <2>. QED BY <1>1, <1>3, <2>2
<1>5. M[n].prev = at[1] /\ M[n].next[1] = N[at[1]].next[1]
  BY <1>1 DEF LinkedIn
<1>6. ASSUME NEW m \in DOMAIN N \ {ListHead}
      PROVE  M[m].prev \in DOMAIN M /\ M[M[m].prev].next[1] = m
  <2>1. M[m].prev = IF m = N[at[1]].next[1] THEN n ELSE N[m].prev
    BY DEF LinkedIn
  <2>2. CASE m = N[at[1]].next[1]
    BY <1>1, <1>5, <2>1, <2>2
  <2>3. CASE m # N[at[1]].next[1]
    <3>1. N[m].prev \in DOMAIN N /\ N[N[m].prev].next[1] = m
      BY DEF Mirrored
    <3>2. N[m].prev # at[1]
      BY <2>3, <3>1
    <3>. QED BY <1>1, <1>4, <2>1, <2>3, <3>1, <3>2
  <2>. QED BY <2>2, <2>3
<1>7. M[n].prev \in DOMAIN M /\ M[M[n].prev].next[1] = n
  BY <1>1, <1>2, <1>4, <1>5
<1>. QED BY <1>1, <1>6, <1>7 DEF Mirrored

\* The level in use is then the greater of the two.
LEMMA LinkedCapped ==
    ASSUME NEW c \in BOOLEAN, NEW N, ListTyped(c, N), NEW lev, Capped(N, lev), NEW n, NEW v, NEW h,
           NewNode(c, N, n, v, h), NEW at, NEW M, LinkedIn(c, N, n, v, h, at, M)
    PROVE  Capped(M, IF h > lev THEN h ELSE lev)
<1>1. /\ \A l \in 1..h : Tall(M, l) = Tall(N, l) \cup {n}
      /\ \A l : l \notin 1..h => Tall(M, l) = Tall(N, l)
  BY LinkedTall
<1>2. n # ListHead /\ n \notin DOMAIN N /\ DOMAIN M = DOMAIN N \cup {n} /\ DOMAIN M[n].next = 1..h
  BY NamesAre DEF NewNode, LinkedIn
<1>3. \A m \in DOMAIN N : DOMAIN M[m].next = DOMAIN N[m].next /\ DOMAIN N[m].next \subseteq Levels
  BY TypedFacts DEF LinkedIn
<1>4. h \in Levels /\ lev \in Levels /\ Levels \subseteq Nat /\ h \in 1..h
  BY SkipAssumption DEF NewNode, Capped, Levels
<1>5. \A m \in DOMAIN N \ {ListHead} : \A l \in DOMAIN M[m].next : l <= lev /\ l \in Nat
  BY <1>3, <1>4 DEF Capped
<1>6. \A l \in DOMAIN M[n].next : l <= h /\ l \in Nat
  BY <1>2, <1>4
<1>7. CASE h > lev
  BY <1>1, <1>2, <1>4, <1>5, <1>6, <1>7 DEF Capped
<1>8. CASE ~(h > lev)
  <2>1. \A m \in DOMAIN M \ {ListHead} : \A l \in DOMAIN M[m].next : l <= lev
    BY <1>2, <1>4, <1>5, <1>6, <1>8
  <2>2. lev > 1 => Tall(M, lev) # {}
    BY <1>1, <1>4 DEF Capped
  <2>. QED BY <1>4, <1>8, <2>1, <2>2 DEF Capped
<1>. QED BY <1>7, <1>8

\* A list a node is linked into is a list.
LEMMA LinkedGood ==
    ASSUME NEW c \in BOOLEAN, NEW N, NEW lev, GoodList(c, N, lev), NEW n, NEW v, NEW h,
           NewNode(c, N, n, v, h), NEW at, Ends(c, N, n, h, at), NEW M, LinkedIn(c, N, n, v, h, at, M)
    PROVE  GoodList(c, M, IF h > lev THEN h ELSE lev)
<1>1. ListTyped(c, N) /\ Chained(c, N) /\ Mirrored(N) /\ Capped(N, lev)
  BY DEF GoodList
<1>2. ListTyped(c, M)
  BY <1>1, LinkedTyped
<1>3. Chained(c, M)
  BY <1>1, LinkedChained
<1>4. Mirrored(M)
  BY <1>1, LinkedMirrored
<1>5. Capped(M, IF h > lev THEN h ELSE lev)
  BY <1>1, LinkedCapped
<1>. QED BY <1>2, <1>3, <1>4, <1>5 DEF GoodList

\* Where skiplist_set links a node of h levels in
Behinds(h, prev) == [l \in 1..h |-> IF l <= level THEN prev[l] ELSE ListHead]

\* Linked does what LinkedIn says, from the ends the descent found.
LEMMA LinkedIs ==
    ASSUME compare2 \in BOOLEAN, GoodList(compare2, nodes, level), NEW n, NEW v, NEW h,
           NewNode(compare2, nodes, n, v, h), NEW prev,
           \A l \in 1..level : IsLast(compare2, prev[l],
                                      At(nodes, l) \cap (Under(compare2, nodes, n) \cup {ListHead}))
    PROVE  /\ Ends(compare2, nodes, n, h, Behinds(h, prev))
           /\ LinkedIn(compare2, nodes, n, v, h, Behinds(h, prev), Linked(n, v, h, prev))
<1> DEFINE after(l) == IF l <= level THEN prev[l] ELSE ListHead
           new == [value |-> v, prev |-> prev[1],
                   next |-> [l \in 1..h |-> IF l <= level THEN nodes[prev[l]].next[l] ELSE NoNode]]
           old == SetPrev(nodes, nodes[prev[1]].next[1], n)
           at == Behinds(h, prev)
           M == Linked(n, v, h, prev)
<1>1. M = [m \in DOMAIN nodes \cup {n} |->
              IF m = n THEN new
              ELSE [old[m] EXCEPT !.next = [l \in DOMAIN old[m].next |->
                      IF l <= h /\ after(l) = m THEN n ELSE old[m].next[l]]]]
  BY DEF Linked
<1>2. /\ ListTyped(compare2, nodes) /\ Chained(compare2, nodes) /\ Capped(nodes, level)
      /\ n \notin DOMAIN nodes /\ h \in Levels
  BY DEF GoodList, NewNode
<1>3. /\ level \in 1..MaxLevel /\ MaxLevel \in Nat /\ h \in 1..MaxLevel /\ Levels = 1..MaxLevel
      /\ 1 \in 1..h /\ 1 <= level
  BY <1>2, SkipAssumption DEF Levels, Capped
<1>4. \A l \in 1..h : at[l] = after(l)
  BY DEF Behinds
<1>5. ASSUME NEW l \in Levels, l > level
      PROVE  At(nodes, l) = {ListHead} /\ nodes[ListHead].next[l] = NoNode
  <2>1. Tall(nodes, l) = {}
    <3>1. ASSUME NEW m \in DOMAIN nodes \ {ListHead}, l \in DOMAIN nodes[m].next PROVE FALSE
      <4>1. l <= level
        BY <1>2, <3>1 DEF Capped
      <4>. QED BY <1>3, <1>5, <4>1
    <3>. QED BY <3>1 DEF Tall
  <2>2. At(nodes, l) = {ListHead}
    BY <1>2, <2>1, TypedFacts
  <2>3. After(compare2, nodes, ListHead, l) = {}
    BY <2>1 DEF After
  <2>4. ListHead \in DOMAIN nodes /\ l \in DOMAIN nodes[ListHead].next
    BY <1>2 DEF ListTyped
  <2>5. nodes[ListHead].next[l] = NoNode
    BY <1>2, <2>3, <2>4 DEF Chained, IsFirst
  <2>. QED BY <2>2, <2>5
<1>6. ASSUME NEW l \in 1..h
      PROVE  IsLast(compare2, at[l], At(nodes, l) \cap (Under(compare2, nodes, n) \cup {ListHead}))
  <2>1. CASE l <= level
    <3>1. l \in 1..level
      BY <1>3, <2>1
    <3>. QED BY <1>4, <2>1, <3>1
  <2>2. CASE ~(l <= level)
    <3>1. l \in Levels /\ l > level
      BY <1>3, <2>2
    <3>2. at[l] = ListHead /\ At(nodes, l) = {ListHead}
      BY <1>4, <1>5, <2>2, <3>1
    <3>. QED BY <3>2 DEF IsLast
  <2>. QED BY <2>1, <2>2
<1>7. Ends(compare2, nodes, n, h, at)
  BY <1>6 DEF Ends
<1>8. at[1] = prev[1]
  BY <1>3, <1>4
<1> HIDE DEF old, at, M
<1>9. M[n] = [value |-> v, prev |-> at[1], next |-> [l \in 1..h |-> nodes[at[l]].next[l]]]
  <2>1. ASSUME NEW l \in 1..h
        PROVE  nodes[at[l]].next[l] = IF l <= level THEN nodes[prev[l]].next[l] ELSE NoNode
    <3>1. l \in Levels
      BY <1>3
    <3>. QED BY <1>3, <1>4, <1>5, <3>1
  <2>2. M[n] = new
    BY <1>1
  <2>. QED BY <1>8, <2>1, <2>2
<1>10. ASSUME NEW m \in DOMAIN nodes
       PROVE  /\ DOMAIN M[m].next = DOMAIN nodes[m].next
              /\ M[m] = [value |-> nodes[m].value, prev |-> M[m].prev, next |-> M[m].next]
              /\ M[m].prev = IF m = nodes[at[1]].next[1] THEN n ELSE nodes[m].prev
              /\ M[m].next = [l \in DOMAIN nodes[m].next |->
                                 IF l <= h /\ at[l] = m THEN n ELSE nodes[m].next[l]]
  <2>1. PICK k \in Levels : nodes[m] \in Rec(DOMAIN nodes, k)
    BY <1>2 DEF ListTyped
  <2>2. nodes[m] = [value |-> nodes[m].value, prev |-> nodes[m].prev, next |-> nodes[m].next]
        /\ DOMAIN nodes[m].next = 1..k
    BY <2>1 DEF Rec
  <2>3. old[m] = [value |-> nodes[m].value,
                  prev |-> IF m = nodes[at[1]].next[1] THEN n ELSE nodes[m].prev,
                  next |-> nodes[m].next]
    <3>1. m # NoNode
      BY <1>2, TypedFacts
    <3>2. PICK s : s = nodes[prev[1]].next[1]
      OBVIOUS
    <3>3. old = IF s = NoNode THEN nodes ELSE [nodes EXCEPT ![s].prev = n]
      BY <3>2 DEF old, SetPrev
    <3>4. old[m] = IF s = m THEN [nodes[m] EXCEPT !.prev = n] ELSE nodes[m]
      BY <3>1, <3>3
    <3>5. [nodes[m] EXCEPT !.prev = n] = [value |-> nodes[m].value, prev |-> n, next |-> nodes[m].next]
      BY <2>1 DEF Rec
    <3>. QED BY <1>8, <2>2, <3>2, <3>4, <3>5
  <2>4. PICK x : x = old[m]
    OBVIOUS
  <2>5. /\ x.value = nodes[m].value /\ x.next = nodes[m].next
        /\ x.prev = IF m = nodes[at[1]].next[1] THEN n ELSE nodes[m].prev
        /\ x = [value |-> x.value, prev |-> x.prev, next |-> x.next]
    BY <2>3, <2>4
  <2>6. m # n
    BY <1>2
  <2>7. M[m] = [x EXCEPT !.next = [l \in DOMAIN x.next |-> IF l <= h /\ after(l) = m THEN n ELSE x.next[l]]]
    BY <1>1, <2>4, <2>6
  <2>8. PICK y : y = [l \in DOMAIN x.next |-> IF l <= h /\ after(l) = m THEN n ELSE x.next[l]]
    OBVIOUS
  <2>9. M[m] = [value |-> x.value, prev |-> x.prev, next |-> y]
    BY <2>5, <2>7, <2>8
  <2>10. M[m].value = x.value /\ M[m].prev = x.prev /\ M[m].next = y
    BY <2>9
  <2>11. y = [l \in DOMAIN nodes[m].next |-> IF l <= h /\ at[l] = m THEN n ELSE nodes[m].next[l]]
    <3>1. \A l \in DOMAIN nodes[m].next : l <= h => l \in 1..h
      BY <1>3, <2>2 DEF Levels
    <3>. QED BY <1>4, <2>5, <2>8, <3>1
  <2>12. DOMAIN y = DOMAIN nodes[m].next
    BY <2>11
  <2>. QED BY <2>5, <2>9, <2>10, <2>11, <2>12
<1>11. DOMAIN M = DOMAIN nodes \cup {n}
  BY <1>1
<1>12. LinkedIn(compare2, nodes, n, v, h, at, M)
  BY <1>9, <1>10, <1>11 DEF LinkedIn
<1>. QED BY <1>7, <1>12 DEF at, M

\* skiplist_set of a new value keeps the invariant.
LEMMA InsertInv ==
    ASSUME SkipInv, NEW v \in Elements, NEW h \in Levels, Insert(v, h)
    PROVE  SkipInv' /\ Node(v) \notin Members /\ Members' = Members \cup {Node(v)}
           /\ nodes'[Node(v)].value = v
           /\ \A m \in Members : nodes'[m].value = nodes[m].value
<1>1. PICK n : n = Node(v)
  OBVIOUS
<1>2. PICK prev : prev = Descent(LowerThan(v))
  OBVIOUS
<1>3. /\ Hit(prev, SameAs(v)) = NoNode /\ nodes' = Linked(n, v, h, prev)
      /\ level' = (IF h > level THEN h ELSE level)
      /\ length' = length + 1 /\ removed' = 0 /\ compare2' = compare2
  BY <1>1, <1>2 DEF Insert
<1>4. /\ compare2 \in BOOLEAN /\ GoodList(compare2, nodes, level) /\ length = Cardinality(Members)
      /\ ListTyped(compare2, nodes) /\ Chained(compare2, nodes) /\ level \in Levels
  BY DEF SkipInv, GoodList, Capped
<1>5. n \in NodeNames(compare2) /\ n # ListHead /\ NoNode \notin Members /\ NameOf(compare2, v) = n
  <2>1. NoNode \notin DOMAIN nodes
    BY <1>4, TypedFacts
  <2>. QED BY <1>1, <1>4, <2>1, NamesAre, KeysAre DEF Members
<1>6. n \notin Members
  BY <1>1, <1>2, <1>3, <1>5, SetHit
<1>7. NewNode(compare2, nodes, n, v, h)
  BY <1>5, <1>6 DEF NewNode, Members
<1>8. LowerThan(v) = Under(compare2, nodes, n) /\ Segment(compare2, nodes, LowerThan(v))
  BY <1>1, <1>4, Segments DEF Under, Members
<1>9. \A l \in 1..level : IsLast(compare2, prev[l], At(nodes, l) \cap (Under(compare2, nodes, n) \cup {ListHead}))
  <2>1. \A l : At(nodes, l) = AtLevel(l)
    BY DEF At, AtLevel
  <2>. QED BY <1>2, <1>4, <1>8, <2>1, DescentIs
<1>10. PICK at : at = Behinds(h, prev)
  OBVIOUS
<1>11. /\ Ends(compare2, nodes, n, h, at)
       /\ LinkedIn(compare2, nodes, n, v, h, at, nodes')
  BY <1>3, <1>4, <1>7, <1>9, <1>10, LinkedIs
<1>12. GoodList(compare2, nodes', level')
  BY <1>3, <1>4, <1>7, <1>11, LinkedGood
<1>13. Members' = Members \cup {n} /\ nodes'[n].value = v
  BY <1>5, <1>11 DEF LinkedIn, Members
<1>14. ASSUME NEW m \in Members
       PROVE  nodes'[m].value = nodes[m].value
  <2>1. nodes'[m] = [value |-> nodes[m].value, prev |-> nodes'[m].prev, next |-> nodes'[m].next]
    BY <1>11 DEF LinkedIn, Members
  <2>2. PICK x, y : x = nodes'[m].prev /\ y = nodes'[m].next
    OBVIOUS
  <2>3. nodes'[m] = [value |-> nodes[m].value, prev |-> x, next |-> y]
    BY <2>1, <2>2
  <2>. QED BY <2>3
<1>15. length' = Cardinality(Members')
  <2>1. IsFiniteSet(Members)
    BY <1>4, TypedFacts DEF Members
  <2>. QED BY <1>3, <1>4, <1>6, <1>13, <2>1, FS_AddElement
<1>16. SkipInv'
  BY <1>3, <1>4, <1>12, <1>15 DEF SkipInv
<1>. QED BY <1>1, <1>6, <1>13, <1>14, <1>16

-----------------------------------------------------------------------------
(* skiplist_remove: of the nodes N those of segment B that are not of segment  *)
(* A are taken out, which gives the nodes M.  before[l] is the last node of A  *)
(* on level l and far[l] the last of B.                                        *)

Runs(c, N, lev, A, B, before, far) ==
    /\ Segment(c, N, A) /\ Segment(c, N, B) /\ A \subseteq B
    /\ \A l \in 1..lev : /\ IsLast(c, before[l], At(N, l) \cap (A \cup {ListHead}))
                         /\ IsLast(c, far[l], At(N, l) \cap (B \cup {ListHead}))

TakenOut(N, lev, A, B, before, far, M) ==
    /\ DOMAIN M = DOMAIN N \ (B \ A)
    /\ \A m \in DOMAIN M :
          /\ DOMAIN M[m].next = DOMAIN N[m].next
          /\ M[m] = [value |-> N[m].value, prev |-> M[m].prev, next |-> M[m].next]
          /\ M[m].prev = IF m = N[far[1]].next[1] THEN before[1] ELSE N[m].prev
          /\ M[m].next = [l \in DOMAIN N[m].next |->
                             IF l <= lev /\ before[l] = m THEN N[far[l]].next[l] ELSE N[m].next[l]]

\* Both ends of a run that is taken out are nodes of its level.
LEMMA RunEnds ==
    ASSUME NEW c \in BOOLEAN, NEW N, ListTyped(c, N), Chained(c, N), NEW lev \in Levels,
           NEW A, NEW B, NEW before, NEW far, Runs(c, N, lev, A, B, before, far), NEW l \in 1..lev
    PROVE  /\ SegmentEnds(c, N, l, A, before[l]) /\ SegmentEnds(c, N, l, B, far[l])
           /\ before[l] \in At(N, l) /\ before[l] \in A \cup {ListHead}
           /\ far[l] \in At(N, l) /\ far[l] \in B \cup {ListHead}
           /\ l \in Levels
<1>1. l \in Levels
  BY SkipAssumption DEF Levels
<1>2. /\ IsLast(c, before[l], At(N, l) \cap (A \cup {ListHead}))
      /\ IsLast(c, far[l], At(N, l) \cap (B \cup {ListHead}))
      /\ Segment(c, N, A) /\ Segment(c, N, B)
  BY DEF Runs
<1>3. SegmentEnds(c, N, l, A, before[l])
  BY <1>1, <1>2, LastOfSegment
<1>4. SegmentEnds(c, N, l, B, far[l])
  BY <1>1, <1>2, LastOfSegment
<1>. QED BY <1>1, <1>2, <1>3, <1>4 DEF IsLast

\* What is left on a level
LEMMA OutTall ==
    ASSUME NEW N, NEW lev, NEW A, NEW B, NEW before, NEW far, NEW M, TakenOut(N, lev, A, B, before, far, M)
    PROVE  /\ \A l : Tall(M, l) = Tall(N, l) \ (B \ A)
           /\ \A c, m, l : After(c, M, m, l) = After(c, N, m, l) \ (B \ A)
<1>1. \A l : Tall(M, l) = Tall(N, l) \ (B \ A)
  BY DEF TakenOut, Tall
<1>. QED BY <1>1 DEF After

\* Taking the runs out keeps every level in order and complete.
LEMMA OutChained ==
    ASSUME NEW c \in BOOLEAN, NEW N, ListTyped(c, N), Chained(c, N), NEW lev, Capped(N, lev),
           NEW A, NEW B, NEW before, NEW far, Runs(c, N, lev, A, B, before, far),
           NEW M, TakenOut(N, lev, A, B, before, far, M)
    PROVE  Chained(c, M)
<1>1. lev \in Levels /\ lev \in Int /\ Levels \subseteq Nat \ {0}
  BY SkipAssumption DEF Capped, Levels
<1>2. ASSUME NEW l \in 1..lev
      PROVE  /\ SegmentEnds(c, N, l, A, before[l]) /\ SegmentEnds(c, N, l, B, far[l])
             /\ before[l] \in At(N, l) /\ before[l] \in A \cup {ListHead}
             /\ far[l] \in At(N, l) /\ far[l] \in B \cup {ListHead}
             /\ l \in Levels
  BY <1>1, RunEnds
<1>3. /\ \A l : Tall(M, l) = Tall(N, l) \ (B \ A)
      /\ \A m, l : After(c, M, m, l) = After(c, N, m, l) \ (B \ A)
  BY OutTall
<1>4. A \subseteq B /\ Segment(c, N, A) /\ Segment(c, N, B) /\ DOMAIN M = DOMAIN N \ (B \ A)
      /\ NoNode \notin DOMAIN N
  BY TypedFacts DEF Runs, TakenOut
<1>5. SUFFICES ASSUME NEW m \in DOMAIN M, NEW l \in DOMAIN M[m].next
               PROVE  IsFirst(c, M[m].next[l], After(c, M, m, l))
  BY DEF Chained
<1>6. /\ m \in DOMAIN N /\ l \in DOMAIN N[m].next /\ l \in Nat \ {0}
      /\ M[m].next[l] = IF l <= lev /\ before[l] = m THEN N[far[l]].next[l] ELSE N[m].next[l]
  <2>1. M[m].next = [k \in DOMAIN N[m].next |->
                        IF k <= lev /\ before[k] = m THEN N[far[k]].next[k] ELSE N[m].next[k]]
    BY DEF TakenOut
  <2>2. l \in DOMAIN N[m].next /\ m \in DOMAIN N
    BY DEF TakenOut
  <2>3. l \in Levels
    BY <2>2, TypedFacts
  <2>. QED BY <1>1, <2>1, <2>2, <2>3
<1>7. IsFirst(c, N[m].next[l], After(c, N, m, l))
  BY <1>6 DEF Chained
<1>8. CASE ~(l <= lev)
  <2>1. Tall(N, l) = {}
    BY <1>8 DEF Capped, Tall
  <2>2. After(c, N, m, l) = {} /\ After(c, M, m, l) = {}
    BY <1>3, <2>1 DEF After
  <2>. QED BY <1>6, <1>7, <1>8, <2>2
<1>9. CASE l <= lev /\ before[l] = m
  <2>1. l \in 1..lev
    BY <1>1, <1>6, <1>9
  <2>2. After(c, N, m, l) = Tall(N, l) \ A /\ After(c, N, far[l], l) = Tall(N, l) \ B
    BY <1>2, <1>9, <2>1 DEF SegmentEnds
  <2>3. After(c, M, m, l) = Tall(N, l) \ B
    BY <1>3, <1>4, <2>2
  <2>4. IsFirst(c, N[far[l]].next[l], After(c, N, far[l], l))
    BY <1>2, <2>1 DEF Chained, At
  <2>. QED BY <1>6, <1>9, <2>2, <2>3, <2>4
<1>10. CASE l <= lev /\ before[l] # m /\ m \in A \cup {ListHead}
  <2>1. l \in 1..lev /\ m \in At(N, l)
    BY <1>1, <1>6, <1>10 DEF At
  <2>2. N[m].next[l] \in A
    BY <1>2, <1>10, <2>1 DEF SegmentEnds
  <2>3. N[m].next[l] \in After(c, N, m, l)
    BY <1>4, <1>7, <2>2 DEF IsFirst, Segment
  <2>. QED BY <1>3, <1>6, <1>7, <1>10, <2>2, <2>3 DEF IsFirst
<1>11. CASE l <= lev /\ m \notin A \cup {ListHead}
  <2>1. l \in 1..lev /\ m \notin B /\ m # ListHead
    BY <1>1, <1>4, <1>6, <1>11
  <2>2. before[l] # m
    BY <1>2, <1>11, <2>1
  <2>3. \A o \in After(c, N, m, l) : o \notin B
    BY <1>4, <1>6, <2>1 DEF Segment, After
  <2>4. After(c, M, m, l) = After(c, N, m, l)
    BY <1>3, <2>3
  <2>. QED BY <1>6, <1>7, <2>2, <2>4
<1>. QED BY <1>8, <1>9, <1>10, <1>11

\* It keeps prev the mirror of the lowest level.
LEMMA OutMirrored ==
    ASSUME NEW c \in BOOLEAN, NEW N, ListTyped(c, N), Chained(c, N), Mirrored(N), NEW lev, Capped(N, lev),
           NEW A, NEW B, NEW before, NEW far, Runs(c, N, lev, A, B, before, far),
           NEW M, TakenOut(N, lev, A, B, before, far, M)
    PROVE  Mirrored(M)
<1>1. lev \in Levels /\ 1 \in 1..lev /\ 1 <= lev
  BY SkipAssumption DEF Capped, Levels
<1>2. /\ SegmentEnds(c, N, 1, A, before[1]) /\ SegmentEnds(c, N, 1, B, far[1])
      /\ before[1] \in At(N, 1) /\ before[1] \in A \cup {ListHead}
      /\ far[1] \in At(N, 1) /\ far[1] \in B \cup {ListHead}
  BY <1>1, RunEnds
<1>3. At(N, 1) = DOMAIN N
  BY TypedFacts DEF At
<1>4. A \subseteq B /\ DOMAIN M = DOMAIN N \ (B \ A) /\ ListHead \notin B
  BY DEF Runs, TakenOut, Segment
<1>5. ASSUME NEW m \in DOMAIN M
      PROVE  M[m].next[1] = IF before[1] = m THEN N[far[1]].next[1] ELSE N[m].next[1]
  <2>1. M[m].next = [k \in DOMAIN N[m].next |->
                        IF k <= lev /\ before[k] = m THEN N[far[k]].next[k] ELSE N[m].next[k]]
    BY DEF TakenOut
  <2>2. 1 \in DOMAIN N[m].next
    BY <1>4, TypedFacts
  <2>. QED BY <1>1, <2>1, <2>2
<1>6. SUFFICES ASSUME NEW m \in DOMAIN M \ {ListHead}
               PROVE  M[m].prev \in DOMAIN M /\ M[M[m].prev].next[1] = m
  BY DEF Mirrored
<1>7. M[m].prev = IF m = N[far[1]].next[1] THEN before[1] ELSE N[m].prev
  BY DEF TakenOut
<1>8. CASE m = N[far[1]].next[1]
  BY <1>2, <1>3, <1>4, <1>5, <1>7, <1>8
<1>9. CASE m # N[far[1]].next[1]
  <2>1. PICK p : p = N[m].prev
    OBVIOUS
  <2>2. p \in DOMAIN N /\ N[p].next[1] = m
    BY <1>4, <2>1 DEF Mirrored
  <2>3. CASE m \in A
    <3>1. p \in A \cup {ListHead} /\ p # before[1]
      BY <1>2, <1>3, <2>2, <2>3 DEF SegmentEnds
    <3>. QED BY <1>4, <1>5, <1>7, <1>9, <2>1, <2>2, <3>1
  <2>4. CASE m \notin A
    <3>1. m \notin B
      BY <1>4, <2>4
    <3>2. p \notin B \cup {ListHead}
      BY <1>2, <1>3, <1>9, <2>2, <3>1 DEF SegmentEnds
    <3>3. p # before[1]
      BY <1>2, <1>4, <3>2
    <3>. QED BY <1>4, <1>5, <1>7, <1>9, <2>1, <2>2, <3>2, <3>3
  <2>. QED BY <2>3, <2>4
<1>. QED BY <1>8, <1>9

\* It keeps the types: no link leads to a freed node.
LEMMA OutTyped ==
    ASSUME NEW c \in BOOLEAN, NEW N, ListTyped(c, N), Chained(c, N), NEW lev, Capped(N, lev),
           NEW A, NEW B, NEW before, NEW far, Runs(c, N, lev, A, B, before, far),
           NEW M, TakenOut(N, lev, A, B, before, far, M)
    PROVE  ListTyped(c, M)
<1>1. Chained(c, M)
  BY OutChained
<1>2. lev \in Levels /\ 1 \in 1..lev
  BY SkipAssumption DEF Capped, Levels
<1>3. DOMAIN M = DOMAIN N \ (B \ A) /\ ListHead \notin B /\ DOMAIN M \subseteq DOMAIN N
  BY DEF Runs, TakenOut, Segment
<1>4. IsFiniteSet(DOMAIN M)
  <2>1. DOMAIN M \in SUBSET DOMAIN N
    BY <1>3
  <2>. QED BY <2>1, TypedFacts
<1>5. ListHead \in DOMAIN M /\ DOMAIN M \subseteq Places(c)
  BY <1>3 DEF ListTyped
<1>6. before[1] \in DOMAIN N
  BY <1>2, RunEnds DEF At
<1>7. ASSUME NEW m \in DOMAIN M
      PROVE  (\E h \in Levels : M[m] \in Rec(DOMAIN M, h)) /\ M[m].value = N[m].value
  <2>1. PICK h \in Levels : N[m] \in Rec(DOMAIN N, h)
    BY <1>3 DEF ListTyped
  <2>2. /\ N[m].value \in Elements \cup {NoNode} /\ N[m].prev \in AnyName \cup {ListHead, NoNode}
        /\ DOMAIN N[m].next = 1..h
    BY <2>1 DEF Rec
  <2>3. /\ M[m] = [value |-> N[m].value, prev |-> M[m].prev, next |-> M[m].next]
        /\ M[m].prev = IF m = N[far[1]].next[1] THEN before[1] ELSE N[m].prev
        /\ M[m].next = [l \in DOMAIN N[m].next |->
                           IF l <= lev /\ before[l] = m THEN N[far[l]].next[l] ELSE N[m].next[l]]
    BY DEF TakenOut
  <2>4. M[m].prev \in AnyName \cup {ListHead, NoNode}
    <3>1. before[1] \in AnyName \cup {ListHead}
      BY <1>6 DEF ListTyped, Places, NodeNames, AnyName
    <3>. QED BY <2>2, <2>3, <3>1
  <2>5. PICK x, y : x = M[m].prev /\ y = M[m].next
    OBVIOUS
  <2>6. \A l \in 1..h : y[l] \in DOMAIN M \cup {NoNode}
    <3>1. \A l \in 1..h : IsFirst(c, y[l], After(c, M, m, l))
      BY <1>1, <2>2, <2>5 DEF Chained, TakenOut
    <3>. QED BY <3>1 DEF IsFirst, After, Tall
  <2>7. y \in [1..h -> DOMAIN M \cup {NoNode}]
    <3>1. y = [l \in DOMAIN N[m].next |->
                           IF l <= lev /\ before[l] = m THEN N[far[l]].next[l] ELSE N[m].next[l]]
      BY <2>3, <2>5
    <3>2. DOMAIN y = 1..h /\ y = [l \in 1..h |-> y[l]]
      BY <2>2, <3>1
    <3>. HIDE <3>1
    <3>. QED BY <2>6, <3>2
  <2>8. M[m] = [value |-> N[m].value, prev |-> x, next |-> y]
    BY <2>3, <2>5
  <2>9. M[m] \in Rec(DOMAIN M, h)
    BY <2>2, <2>4, <2>5, <2>7, <2>8 DEF Rec
  <2>10. M[m].value = N[m].value
    BY <2>8
  <2>. QED BY <2>9, <2>10
<1>8. DOMAIN M[ListHead].next = Levels
  BY <1>5 DEF TakenOut, ListTyped
<1>9. \A m \in DOMAIN M \ {ListHead} : M[m].value \in Elements /\ NameOf(c, M[m].value) = m
  BY <1>3, <1>7 DEF ListTyped
<1>. QED BY <1>4, <1>5, <1>7, <1>8, <1>9 DEF ListTyped

\* The level that is left: the first pointers of the head that lead nowhere are
\* above it.
LEMMA OutCapped ==
    ASSUME NEW c \in BOOLEAN, NEW N, ListTyped(c, N), Chained(c, N), NEW lev, Capped(N, lev),
           NEW A, NEW B, NEW before, NEW far, Runs(c, N, lev, A, B, before, far),
           NEW M, TakenOut(N, lev, A, B, before, far, M), NEW k \in 1..lev,
           \A l \in 1..lev : M[ListHead].next[l] # NoNode => l <= k,
           k = 1 \/ M[ListHead].next[k] # NoNode \/ (k = lev /\ N[before[k]].next[k] = NoNode)
    PROVE  Capped(M, k)
<1>1. lev \in Levels /\ lev \in Int /\ Levels \subseteq Nat \ {0} /\ k \in Levels
  BY SkipAssumption DEF Capped, Levels
<1>2. ListTyped(c, M) /\ Chained(c, M)
  BY OutTyped, OutChained
<1>3. NoNode \notin DOMAIN M /\ ListHead \in DOMAIN M /\ DOMAIN M[ListHead].next = Levels
  BY <1>2, TypedFacts DEF ListTyped
<1>4. \A l \in Levels : IsFirst(c, M[ListHead].next[l], Tall(M, l))
  <2>1. \A l \in Levels : After(c, M, ListHead, l) = Tall(M, l)
    BY DEF After, Less, Tall
  <2>. QED BY <1>2, <1>3, <2>1 DEF Chained
<1>5. DOMAIN M \subseteq DOMAIN N /\ \A m \in DOMAIN M : DOMAIN M[m].next = DOMAIN N[m].next
  BY DEF TakenOut
<1>6. ASSUME NEW m \in DOMAIN M \ {ListHead}, NEW l \in DOMAIN M[m].next
      PROVE  l <= k
  <2>1. l \in 1..lev /\ l \in Levels
    <3>1. l \in Levels /\ l <= lev
      BY <1>5, TypedFacts DEF Capped
    <3>. QED BY <1>1, <3>1
  <2>2. m \in Tall(M, l)
    BY DEF Tall
  <2>3. M[ListHead].next[l] # NoNode
    BY <1>3, <1>4, <2>1, <2>2 DEF IsFirst, Tall
  <2>. QED BY <2>1, <2>3
<1>7. CASE k = 1
  BY <1>1, <1>6, <1>7 DEF Capped
<1>8. CASE M[ListHead].next[k] # NoNode
  <2>1. Tall(M, k) # {}
    BY <1>1, <1>4, <1>8 DEF IsFirst
  <2>. QED BY <1>1, <1>6, <2>1 DEF Capped
<1>9. CASE k # 1 /\ k = lev /\ N[before[k]].next[k] = NoNode
  <2>1. /\ SegmentEnds(c, N, k, A, before[k]) /\ before[k] \in At(N, k)
    BY <1>1, RunEnds
  <2>2. IsFirst(c, NoNode, Tall(N, k) \ A)
    <3>1. IsFirst(c, N[before[k]].next[k], After(c, N, before[k], k))
      BY <2>1 DEF Chained, At
    <3>2. After(c, N, before[k], k) = Tall(N, k) \ A
      BY <2>1 DEF SegmentEnds
    <3>. QED BY <1>9, <3>1, <3>2
  <2>3. Tall(N, k) \subseteq A
    <3>1. NoNode \notin DOMAIN N
      BY TypedFacts
    <3>. QED BY <2>2, <3>1 DEF IsFirst, Tall
  <2>4. Tall(M, k) = Tall(N, k)
    BY <2>3, OutTall
  <2>5. Tall(N, k) # {}
    BY <1>1, <1>9 DEF Capped
  <2>. QED BY <1>1, <1>6, <2>4, <2>5 DEF Capped
<1>. QED BY <1>7, <1>8, <1>9

\* Where the runs skiplist_remove takes out end
Fars(prev, k) == [l \in 1..level |-> Advance(prev[l], l, UpTo(k))]

\* What it makes of the nodes and of the level
Cleared(a, b, M, k) ==
    LET prev == Descent(Lower(a))
        reaching == {l \in 1..level : nodes[prev[l]].next[l] # NoNode}
        gone == UpTo(b) \ Lower(a)
        cut == Cut(prev, b)
        freed == [n \in DOMAIN nodes \ gone |-> cut[n]]
    IN  /\ M = SetPrev(freed, cut[prev[1]].next[1], prev[1])
        /\ k = IF reaching = {} THEN level
               ELSE LevelAfter(cut, CHOOSE l \in reaching : \A m \in reaching : m <= l)

\* The next pointers of a node once the runs are taken out
Rejoined(N, lev, before, far, m) ==
    [l \in DOMAIN N[m].next |-> IF l <= lev /\ before[l] = m THEN N[far[l]].next[l] ELSE N[m].next[l]]

\* What Cut makes of a node
LEMMA CutIs ==
    ASSUME compare2 \in BOOLEAN, GoodList(compare2, nodes, level), NEW b, NEW prev,
           NEW m \in DOMAIN nodes, \A l \in DOMAIN nodes[m].next : l <= level => l \in 1..level
    PROVE  Cut(prev, b)[m] = [value |-> nodes[m].value, prev |-> nodes[m].prev,
                              next |-> Rejoined(nodes, level, prev, Fars(prev, b), m)]
<1>1. PICK h \in Levels : nodes[m] \in Rec(DOMAIN nodes, h)
  BY DEF GoodList, ListTyped
<1> DEFINE rest(l) == nodes[Advance(prev[l], l, UpTo(b))].next[l]
<1>2. PICK y : y = [l \in DOMAIN nodes[m].next |-> IF l <= level /\ prev[l] = m THEN rest(l) ELSE nodes[m].next[l]]
  OBVIOUS
<1>3. Cut(prev, b)[m] = [nodes[m] EXCEPT !.next = y]
  BY <1>2 DEF Cut
<1>4. [nodes[m] EXCEPT !.next = y] = [value |-> nodes[m].value, prev |-> nodes[m].prev, next |-> y]
  BY <1>1 DEF Rec
<1>5. \A l \in 1..level : rest(l) = nodes[Fars(prev, b)[l]].next[l]
  BY DEF Fars
<1>6. y = [l \in DOMAIN nodes[m].next |->
              IF l <= level /\ prev[l] = m THEN nodes[Fars(prev, b)[l]].next[l] ELSE nodes[m].next[l]]
  <2> HIDE DEF rest
  <2> QED
    BY <1>2, <1>5
<1>. QED BY <1>3, <1>4, <1>6 DEF Rejoined

ClearedGood(a, b, M, k) ==
    /\ GoodList(compare2, M, k)
    /\ DOMAIN M = DOMAIN nodes \ (UpTo(b) \ Lower(a))
    /\ \A m \in DOMAIN M : M[m].value = nodes[m].value

\* skiplist_remove takes out what lies between its keys.
LEMMA ClearedIs ==
    ASSUME compare2 \in BOOLEAN, GoodList(compare2, nodes, level), NEW a \in Int, NEW b \in Int, a <= b,
           NEW M, NEW k, Cleared(a, b, M, k)
    PROVE  ClearedGood(a, b, M, k)
<1> DEFINE A == Lower(a)
           B == UpTo(b)
<1>1. PICK prev : prev = Descent(A)
  OBVIOUS
<1>2. PICK cut : cut = Cut(prev, b)
  OBVIOUS
<1>3. PICK far : far = Fars(prev, b)
  OBVIOUS
<1>4. /\ ListTyped(compare2, nodes) /\ Chained(compare2, nodes) /\ Mirrored(nodes) /\ Capped(nodes, level)
      /\ level \in Levels
  BY DEF GoodList, Capped
<1>5. level \in 1..MaxLevel /\ MaxLevel \in Nat /\ Levels = 1..MaxLevel /\ 1 \in 1..level /\ level \in 1..level
  BY <1>4, SkipAssumption DEF Levels
<1>6. Segment(compare2, nodes, A) /\ Segment(compare2, nodes, B)
  BY <1>4, Segments
<1>7. A \subseteq B
  <2>1. \A n \in Members : KeyOf(n) \in Int
    BY <1>4, KeysAre
  <2>. QED BY <2>1 DEF Lower, UpTo
<1> HIDE DEF A, B
<1>8. \A l : AtLevel(l) = At(nodes, l)
  BY DEF At, AtLevel
<1>9. \A l \in 1..level : IsLast(compare2, prev[l], At(nodes, l) \cap (A \cup {ListHead}))
  BY <1>1, <1>4, <1>6, <1>8, DescentIs
<1>10. \A l \in 1..level : IsLast(compare2, far[l], At(nodes, l) \cap (B \cup {ListHead}))
  <2>1. SUFFICES ASSUME NEW l \in 1..level
                 PROVE  IsLast(compare2, Advance(prev[l], l, B), AtLevel(l) \cap (B \cup {ListHead}))
    BY <1>3, <1>8 DEF Fars, B
  <2>2. l \in Levels /\ prev[l] \in AtLevel(l) /\ prev[l] \in B \cup {ListHead}
    BY <1>5, <1>7, <1>8, <1>9 DEF IsLast
  <2>. QED BY <1>4, <1>6, <2>2, AdvanceIs
<1>11. Runs(compare2, nodes, level, A, B, prev, far)
  BY <1>6, <1>7, <1>9, <1>10 DEF Runs
<1>12. ASSUME NEW m \in DOMAIN nodes
       PROVE  cut[m] = [value |-> nodes[m].value, prev |-> nodes[m].prev,
                        next |-> Rejoined(nodes, level, prev, far, m)]
  <2>1. \A l \in DOMAIN nodes[m].next : l <= level => l \in 1..level
    BY <1>4, <1>5, TypedFacts
  <2>. QED BY <1>2, <1>3, <2>1, CutIs
<1>13. prev[1] \in DOMAIN nodes /\ 1 \in DOMAIN nodes[prev[1]].next
  BY <1>5, <1>9 DEF IsLast, At
<1>14. PICK s : s = nodes[far[1]].next[1]
  OBVIOUS
<1>15. cut[prev[1]].next[1] = s
  <2>1. PICK p : p = prev[1]
    OBVIOUS
  <2>2. cut[p].next = Rejoined(nodes, level, prev, far, p)
    <3>1. p \in DOMAIN nodes
      BY <1>13, <2>1
    <3>2. PICK y : y = Rejoined(nodes, level, prev, far, p)
      OBVIOUS
    <3>3. cut[p] = [value |-> nodes[p].value, prev |-> nodes[p].prev, next |-> y]
      BY <1>12, <3>1, <3>2
    <3>. QED BY <3>2, <3>3
  <2>3. Rejoined(nodes, level, prev, far, p)[1] = nodes[far[1]].next[1]
    BY <1>5, <1>13, <2>1 DEF Rejoined
  <2>. QED BY <1>14, <2>1, <2>2, <2>3
<1>16. PICK freed : freed = [n \in DOMAIN nodes \ (B \ A) |-> cut[n]]
  OBVIOUS
<1>17. M = IF s = NoNode THEN freed ELSE [freed EXCEPT ![s].prev = prev[1]]
  BY <1>1, <1>2, <1>15, <1>16 DEF Cleared, SetPrev, A, B
<1>18. DOMAIN M = DOMAIN nodes \ (B \ A)
  BY <1>16, <1>17
<1>19. NoNode \notin DOMAIN nodes
  BY <1>4, TypedFacts
<1>20. ASSUME NEW m \in DOMAIN M
       PROVE  /\ DOMAIN M[m].next = DOMAIN nodes[m].next
              /\ M[m] = [value |-> nodes[m].value, prev |-> M[m].prev, next |-> M[m].next]
              /\ M[m].prev = IF m = nodes[far[1]].next[1] THEN prev[1] ELSE nodes[m].prev
              /\ M[m].next = [l \in DOMAIN nodes[m].next |->
                       IF l <= level /\ prev[l] = m THEN nodes[far[l]].next[l] ELSE nodes[m].next[l]]
              /\ M[m].next = cut[m].next /\ M[m].value = nodes[m].value
  <2>1. m \in DOMAIN nodes /\ m # NoNode
    BY <1>18, <1>19
  <2>2. PICK y : y = [l \in DOMAIN nodes[m].next |->
                       IF l <= level /\ prev[l] = m THEN nodes[far[l]].next[l] ELSE nodes[m].next[l]]
    OBVIOUS
  <2>3. PICK x : x = cut[m]
    OBVIOUS
  <2>4. x = [value |-> nodes[m].value, prev |-> nodes[m].prev, next |-> y]
    BY <1>12, <2>1, <2>2, <2>3 DEF Rejoined
  <2>5. freed[m] = x
    BY <1>16, <1>18, <2>3
  <2>6. M[m] = IF m = s THEN [x EXCEPT !.prev = prev[1]] ELSE x
    BY <1>16, <1>17, <1>18, <2>1, <2>5
  <2>7. PICK z : z = IF m = s THEN prev[1] ELSE nodes[m].prev
    OBVIOUS
  <2>8. M[m] = [value |-> nodes[m].value, prev |-> z, next |-> y]
    <3>1. CASE m = s
      <4>1. [x EXCEPT !.prev = prev[1]] = [value |-> nodes[m].value, prev |-> prev[1], next |-> y]
        BY <2>4
      <4>. QED BY <2>6, <2>7, <3>1, <4>1
    <3>2. CASE m # s
      BY <2>4, <2>6, <2>7, <3>2
    <3>. QED BY <3>1, <3>2
  <2>9. M[m].value = nodes[m].value /\ M[m].prev = z /\ M[m].next = y /\ x.next = y
    BY <2>4, <2>8
  <2>10. DOMAIN y = DOMAIN nodes[m].next
    BY <2>2
  <2>. QED BY <1>14, <2>2, <2>3, <2>7, <2>8, <2>9, <2>10
<1>21. TakenOut(nodes, level, A, B, prev, far, M)
  BY <1>18, <1>20 DEF TakenOut
<1>22. ListTyped(compare2, M) /\ Chained(compare2, M) /\ Mirrored(M)
  BY <1>4, <1>11, <1>21, OutTyped, OutChained, OutMirrored
<1>23. Capped(M, k)
  <2> DEFINE reaching == {l \in 1..level : nodes[prev[l]].next[l] # NoNode}
             top == CHOOSE l \in reaching : \A m \in reaching : m <= l
  <2>1. k = IF reaching = {} THEN level ELSE LevelAfter(cut, top)
    BY <1>1, <1>2 DEF Cleared, A
  <2>2. reaching # {} => top \in reaching /\ \A m \in reaching : m <= top
    <3>1. reaching \in SUBSET (1..level) /\ level \in Nat
      BY <1>5
    <3>. HIDE DEF reaching
    <3>2. reaching # {} => \E l \in reaching : \A m \in reaching : m <= l
      BY <3>1, LastPosition
    <3>. QED BY <3>2
  <2> HIDE DEF top
  <2>3. ListHead \in DOMAIN M /\ M[ListHead].next = cut[ListHead].next
    BY <1>20, <1>22 DEF ListTyped
  <2>4. CASE reaching = {}
    <3>1. k = level /\ nodes[prev[level]].next[level] = NoNode
      BY <1>5, <2>1, <2>4
    <3>2. \A l \in 1..level : M[ListHead].next[l] # NoNode => l <= k
      BY <1>5, <3>1
    <3>3. k = level /\ nodes[prev[k]].next[k] = NoNode /\ k \in 1..level
      BY <1>5, <3>1
    <3>. QED BY <1>4, <1>11, <1>21, <3>2, <3>3, OutCapped
  <2>5. CASE reaching # {}
    <3> DEFINE left == {l \in 1..level : l = 1 \/ l > top \/ cut[ListHead].next[l] # NoNode}
    <3>1. k = CHOOSE l \in left : \A m \in left : m <= l
      BY <2>1, <2>5 DEF LevelAfter
    <3>2. k \in left /\ \A m \in left : m <= k
      <4>1. left \in SUBSET (1..level) /\ level \in Nat /\ 1 \in left
        BY <1>5
      <4>. HIDE DEF left
      <4>2. \E l \in left : \A m \in left : m <= l
        BY <4>1, LastPosition
      <4>. QED BY <3>1, <4>2
    <3>3. k \in 1..level
      BY <3>2
    <3>4. \A l \in 1..level : M[ListHead].next[l] # NoNode => l <= k
      BY <2>3, <3>2
    <3>5. k = 1 \/ M[ListHead].next[k] # NoNode \/ (k = level /\ nodes[prev[k]].next[k] = NoNode)
      <4>1. SUFFICES ASSUME k # 1, M[ListHead].next[k] = NoNode
                     PROVE  k = level /\ nodes[prev[k]].next[k] = NoNode
        OBVIOUS
      <4>2. k > top /\ top \in 1..level
        BY <2>2, <2>3, <2>5, <3>2, <4>1
      <4>3. level \in left
        BY <1>5, <3>3, <4>2
      <4>4. k = level
        BY <1>5, <3>2, <3>3, <4>3
      <4>5. level \notin reaching
        BY <1>5, <2>2, <2>5, <4>2, <4>4
      <4>. QED BY <1>5, <4>4, <4>5
    <3>. QED BY <1>4, <1>11, <1>21, <3>3, <3>4, <3>5, OutCapped
  <2>. QED BY <2>4, <2>5
<1>. QED BY <1>18, <1>20, <1>22, <1>23 DEF ClearedGood, GoodList, A, B

\* The nodes between two keys, given in either order
Swept(key1, key2) == {n \in Members : \/ key1 <= n.key /\ n.key <= key2
                                      \/ key2 <= n.key /\ n.key <= key1}

\* skiplist_remove keeps the invariant.
LEMMA RemoveInv ==
    ASSUME SkipInv, NEW key1 \in Keys, NEW key2 \in Keys, SkipRemove(key1, key2)
    PROVE  /\ SkipInv' /\ compare2' = compare2
           /\ Members' = Members \ Swept(key1, key2)
           /\ removed' = Cardinality(Swept(key1, key2))
           /\ \A m \in Members' : nodes'[m].value = nodes[m].value
<1>1. PICK a : a = IF key1 > key2 THEN key2 ELSE key1
  OBVIOUS
<1>2. PICK b : b = IF key1 > key2 THEN key1 ELSE key2
  OBVIOUS
<1>3. key1 \in Int /\ key2 \in Int /\ a \in Int /\ b \in Int /\ a <= b
  BY <1>1, <1>2, SkipAssumption
<1>4. /\ compare2 \in BOOLEAN /\ GoodList(compare2, nodes, level) /\ ListTyped(compare2, nodes)
      /\ length = Cardinality(Members)
  BY DEF SkipInv, GoodList
<1>5. /\ Cleared(a, b, nodes', level') /\ compare2' = compare2
      /\ length' = length - Cardinality(UpTo(b) \ Lower(a)) /\ removed' = Cardinality(UpTo(b) \ Lower(a))
  BY <1>1, <1>2 DEF SkipRemove, Cleared
<1>6. UpTo(b) \ Lower(a) = Swept(key1, key2)
  <2>1. \A n \in Members : KeyOf(n) = n.key /\ n.key \in Int
    BY <1>4, KeysAre
  <2>2. \A n \in Members : n \in UpTo(b) \ Lower(a) <=> n \in Swept(key1, key2)
    BY <1>1, <1>2, <1>3, <2>1 DEF UpTo, Lower, Swept
  <2>3. UpTo(b) \ Lower(a) \subseteq Members /\ Swept(key1, key2) \subseteq Members
    BY DEF UpTo, Swept
  <2>. QED BY <2>2, <2>3
<1>7. /\ GoodList(compare2, nodes', level')
      /\ DOMAIN nodes' = DOMAIN nodes \ (UpTo(b) \ Lower(a))
      /\ \A m \in DOMAIN nodes' : nodes'[m].value = nodes[m].value
  <2>1. ClearedGood(a, b, nodes', level')
    BY <1>3, <1>4, <1>5, ClearedIs
  <2>. QED BY <2>1 DEF ClearedGood
<1>8. Members' = Members \ Swept(key1, key2)
  BY <1>6, <1>7 DEF Members
<1>9. Swept(key1, key2) \in SUBSET Members /\ IsFiniteSet(Members) /\ IsFiniteSet(Swept(key1, key2))
  BY <1>4, TypedFacts DEF Members, Swept
<1>10. Cardinality(Swept(key1, key2)) \in Nat
  BY <1>9, FS_CardinalityType
<1>11. length' = Cardinality(Members')
  <2>1. Cardinality(Members \ Swept(key1, key2)) = Cardinality(Members) - Cardinality(Members \cap Swept(key1, key2))
    BY <1>9, FS_Difference
  <2>2. Members \cap Swept(key1, key2) = Swept(key1, key2)
    BY <1>9
  <2>. QED BY <1>4, <1>5, <1>6, <1>8, <2>1, <2>2
<1>12. SkipInv'
  BY <1>4, <1>5, <1>6, <1>7, <1>10, <1>11 DEF SkipInv
<1>. QED BY <1>5, <1>6, <1>7, <1>8, <1>12 DEF Members

-----------------------------------------------------------------------------
(* The invariant holds. *)

\* A list of no nodes has it.
LEMMA EmptyInv ==
    ASSUME compare2' \in BOOLEAN, nodes' = EmptyList, level' = 1, length' = 0, removed' = 0
    PROVE  SkipInv' /\ Members' = {}
<1>1. GoodList(compare2', nodes', level') /\ Members' = {}
  BY EmptyGood DEF Members
<1>. QED BY <1>1, FS_EmptySet DEF SkipInv

\* A new list has the invariant.
LEMMA SkipInitInv == SkipInit => SkipInv /\ Members = {}
<1>1. SUFFICES ASSUME SkipInit PROVE SkipInv /\ Members = {}
  OBVIOUS
<1>2. /\ compare2 \in BOOLEAN /\ nodes = EmptyList /\ level = 1 /\ length = 0 /\ removed = 0
  BY <1>1 DEF SkipInit
<1>3. GoodList(compare2, nodes, level) /\ Members = {}
  BY <1>2, EmptyGood DEF Members
<1>. QED BY <1>2, <1>3, FS_EmptySet DEF SkipInv

\* Every call keeps it.
LEMMA SkipStepInv == SkipInv /\ [SkipNext]_skipVars => SkipInv'
<1>1. SUFFICES ASSUME SkipInv, [SkipNext]_skipVars PROVE SkipInv'
  OBVIOUS
<1>2. CASE SkipClear
  BY <1>1, <1>2, EmptyInv DEF SkipClear, SkipInv
<1>3. ASSUME NEW v \in Elements, Overwrite(v) PROVE SkipInv'
  BY <1>1, <1>3, OverwriteInv
<1>4. ASSUME NEW v \in Elements, NEW h \in Levels, Insert(v, h) PROVE SkipInv'
  BY <1>1, <1>4, InsertInv
<1>5. ASSUME NEW k1 \in Keys, NEW k2 \in Keys, SkipRemove(k1, k2) PROVE SkipInv'
  BY <1>1, <1>5, RemoveInv
<1>6. CASE UNCHANGED skipVars
  BY <1>1, <1>6 DEF skipVars, SkipInv, GoodList, ListTyped, Chained, Mirrored, Capped, Members
<1>. QED BY <1>1, <1>2, <1>3, <1>4, <1>5, <1>6 DEF SkipNext

\* Every reachable list has it.
LEMMA SkipInvHolds == SkipSpec => []SkipInv
<1>1. SkipInit => SkipInv
  BY SkipInitInv
<1>. QED BY <1>1, SkipStepInv, PTL DEF SkipSpec

-----------------------------------------------------------------------------
(* What it says of the levels. *)

\* How tall a node is
LEMMA HeightIs ==
    ASSUME compare2 \in BOOLEAN, ListTyped(compare2, nodes), NEW n \in DOMAIN nodes
    PROVE  Height(n) \in Levels /\ DOMAIN nodes[n].next = 1..Height(n)
<1>1. PICK h \in Levels : nodes[n] \in Rec(DOMAIN nodes, h)
  BY DEF ListTyped
<1>2. nodes[n].next \in [1..h -> DOMAIN nodes \cup {NoNode}]
  BY <1>1 DEF Rec
<1>3. h \in Nat
  BY SkipAssumption DEF Levels
<1>4. nodes[n].next \in Seq(DOMAIN nodes \cup {NoNode}) /\ Len(nodes[n].next) = h
  BY <1>2, <1>3
<1>. QED BY <1>1, <1>2, <1>4 DEF Height

\* LevelsNested orders the nodes as Less does.
LEMMA BehindIs ==
    ASSUME compare2 \in BOOLEAN, ListTyped(compare2, nodes)
    PROVE  /\ \A m, n \in Members : Before(m, n) <=> Less(compare2, m, n)
           /\ \A n \in DOMAIN nodes, l \in Levels : Behind(n, l) = After(compare2, nodes, n, l)
<1>1. ASSUME NEW m \in Members, NEW n \in Members
      PROVE  Before(m, n) <=> Less(compare2, m, n)
  <2>1. /\ KeyOf(m) = m.key /\ KeyOf(n) = n.key /\ m.key \in Int /\ n.key \in Int
        /\ m \in NodeNames(compare2) /\ n \in NodeNames(compare2) /\ n # ListHead /\ m # ListHead
        /\ compare2 => nodes[m].value = m /\ nodes[n].value = n /\ m.tag \in Int /\ n.tag \in Int
        /\ nodes[m].value \in Elements /\ nodes[n].value \in Elements
    BY KeysAre DEF Members
  <2>2. CASE compare2
    BY <2>1, <2>2 DEF Before, Less
  <2>3. CASE ~compare2
    <3>1. nodes[m].value.tag \in Int
      BY <2>1, SkipAssumption DEF Elements
    <3>2. m.key = n.key => m = n
      BY <2>1, <2>3, NamesAre
    <3>3. ~(nodes[m].value.tag < nodes[m].value.tag)
      BY <3>1
    <3>4. ~(m.key = n.key /\ nodes[m].value.tag < nodes[n].value.tag)
      BY <3>2, <3>3
    <3>. QED BY <2>1, <2>3, <3>4 DEF Before, Less
  <2>. QED BY <2>2, <2>3
<1>2. ASSUME NEW n \in DOMAIN nodes, NEW l \in Levels
      PROVE  Behind(n, l) = After(compare2, nodes, n, l)
  <2>1. \A m \in Members : Height(m) >= l <=> l \in DOMAIN nodes[m].next
    <3>1. SUFFICES ASSUME NEW m \in Members PROVE Height(m) >= l <=> l \in DOMAIN nodes[m].next
      OBVIOUS
    <3>2. Height(m) \in Levels /\ DOMAIN nodes[m].next = 1..Height(m)
      BY HeightIs DEF Members
    <3>. QED BY <3>2, SkipAssumption DEF Levels
  <2>2. \A m \in Members : (n = ListHead \/ Before(n, m)) <=> Less(compare2, n, m)
    <3>1. CASE n = ListHead
      BY <3>1 DEF Less, Members
    <3>2. CASE n # ListHead
      BY <1>1, <3>2 DEF Members
    <3>. QED BY <3>1, <3>2
  <2>. QED BY <2>1, <2>2 DEF Behind, After, Tall, Members
<1>. QED BY <1>1, <1>2

\* Levels that are chained are nested.
LEMMA InvNested == SkipInv => LevelsNested
<1>1. SUFFICES ASSUME SkipInv PROVE LevelsNested
  OBVIOUS
<1>2. /\ compare2 \in BOOLEAN /\ removed \in Nat /\ length = Cardinality(Members)
      /\ ListTyped(compare2, nodes) /\ Chained(compare2, nodes) /\ Mirrored(nodes) /\ Capped(nodes, level)
  BY <1>1 DEF SkipInv, GoodList
<1>3. /\ \A m, n \in Members : Before(m, n) <=> Less(compare2, m, n)
      /\ \A n \in DOMAIN nodes, l \in Levels : Behind(n, l) = After(compare2, nodes, n, l)
  BY <1>2, BehindIs
<1>4. \A n \in DOMAIN nodes : \A l \in DOMAIN nodes[n].next :
          l \in Levels /\ IsFirst(compare2, nodes[n].next[l], Behind(n, l))
  <2>1. \A n \in DOMAIN nodes : DOMAIN nodes[n].next \subseteq Levels
    BY <1>2, TypedFacts
  <2>. QED BY <1>2, <1>3, <2>1 DEF Chained
<1>5. \A n, l : Behind(n, l) \subseteq Members
  BY DEF Behind
<1>6. SkipTypeOK
  <2>1. \A n \in Members : nodes[n].value \in Elements /\ nodes[n].prev \in DOMAIN nodes
    BY <1>2 DEF Members, ListTyped, Mirrored
  <2>2. \A n \in Members : \A l \in DOMAIN nodes[n].next : nodes[n].next[l] \in Members \cup {NoNode}
    BY <1>4, <1>5 DEF IsFirst, Members
  <2>3. length \in Nat
    <3>1. IsFiniteSet(Members)
      BY <1>2, TypedFacts DEF Members
    <3>. QED BY <1>2, <3>1, FS_CardinalityType
  <2>. QED BY <1>2, <2>1, <2>2, <2>3 DEF SkipTypeOK, Capped
<1>7. ASSUME NEW n \in DOMAIN nodes, NEW l \in DOMAIN nodes[n].next, NEW m, m = nodes[n].next[l]
      PROVE  IF Behind(n, l) = {} THEN m = NoNode
             ELSE m \in Behind(n, l) /\ \A other \in Behind(n, l) \ {m} : Before(m, other)
  BY <1>3, <1>4, <1>5, <1>7 DEF IsFirst
<1>8. \A n \in Members : nodes[nodes[n].prev].next[1] = n
  BY <1>2 DEF Mirrored, Members
<1>9. \A n \in Members : Height(n) <= level
  <2>1. SUFFICES ASSUME NEW n \in Members PROVE Height(n) <= level
    OBVIOUS
  <2>2. Height(n) \in Levels /\ DOMAIN nodes[n].next = 1..Height(n)
    BY <1>2, HeightIs DEF Members
  <2>3. Height(n) \in DOMAIN nodes[n].next
    BY <2>2, SkipAssumption DEF Levels
  <2>. QED BY <1>2, <2>3 DEF Capped, Members
<1>10. level > 1 => Behind(ListHead, level) # {}
  <2>1. SUFFICES ASSUME level > 1 PROVE Behind(ListHead, level) # {}
    OBVIOUS
  <2>2. level \in Levels /\ ListHead \in DOMAIN nodes
    BY <1>2 DEF Capped, ListTyped
  <2>3. Behind(ListHead, level) = After(compare2, nodes, ListHead, level)
    BY <1>3, <2>2
  <2>4. After(compare2, nodes, ListHead, level) = Tall(nodes, level)
    BY DEF After, Tall, Less
  <2>. QED BY <1>2, <2>1, <2>3, <2>4 DEF Capped
<1>. QED BY <1>2, <1>6, <1>7, <1>8, <1>9, <1>10 DEF LevelsNested

\* Each level links exactly the nodes tall enough for it, in order, whichever
\* levels the random numbers gave the nodes and whatever was removed.
THEOREM LevelsStayNested == SkipSpec => []LevelsNested
  BY SkipInvHolds, InvNested, PTL

-----------------------------------------------------------------------------
(* The refinement. *)

Entries == {nodes[n].value : n \in Members}

\* A value in the list is that of the node it names.
LEMMA EntriesAre ==
    ASSUME SkipInv
    PROVE  /\ \A n \in Members : /\ nodes[n].value \in Elements /\ Node(nodes[n].value) = n
                                 /\ nodes[n].value.key = n.key
           /\ \A e \in Entries : e \in Elements /\ Node(e) \in Members /\ nodes[Node(e)].value = e
           /\ \A e, v \in Elements : Ordered!Same(e, v) <=> Node(e) = Node(v)
<1>1. compare2 \in BOOLEAN /\ ListTyped(compare2, nodes)
  BY DEF SkipInv, GoodList
<1>2. ASSUME NEW n \in Members
      PROVE  nodes[n].value \in Elements /\ Node(nodes[n].value) = n /\ nodes[n].value.key = n.key
  <2>1. nodes[n].value \in Elements /\ NameOf(compare2, nodes[n].value) = n
    BY <1>1 DEF ListTyped, Members
  <2>2. Node(nodes[n].value) = n
    BY <1>1, <2>1, KeysAre
  <2>. QED BY <1>1, <2>1, <2>2, NamesAre
<1>3. ASSUME NEW e \in Elements, NEW v \in Elements
      PROVE  Ordered!Same(e, v) <=> Node(e) = Node(v)
  <2>1. CASE compare2
    <3>1. e = [key |-> e.key, tag |-> e.tag] /\ v = [key |-> v.key, tag |-> v.tag]
      BY DEF Elements
    <3>2. e = v <=> e.key = v.key /\ e.tag = v.tag
      BY <3>1
    <3>. QED BY <2>1, <3>2 DEF Ordered!Same, Node
  <2>2. CASE ~compare2
    <3>1. [key |-> e.key] = [key |-> v.key] <=> e.key = v.key
      <4>1. [key |-> e.key].key = e.key /\ [key |-> v.key].key = v.key
        OBVIOUS
      <4>. QED BY <4>1
    <3>. QED BY <2>2, <3>1 DEF Ordered!Same, Node
  <2>. QED BY <1>1, <2>1, <2>2
<1>. QED BY <1>2, <1>3 DEF Entries

\* skiplist_set exchanges the entries of one name for the new value.
LEMMA SetStep ==
    ASSUME SkipInv, NEW v \in Elements, UNCHANGED compare2, removed' = 0,
           Members' = Members \cup {Node(v)},
           \A m \in Members' : nodes'[m].value = IF m = Node(v) THEN v ELSE nodes[m].value
    PROVE  Entries' = {e \in Entries : ~Ordered!Same(e, v)} \cup {v}
<1>1. /\ \A n \in Members : nodes[n].value \in Elements /\ Node(nodes[n].value) = n
      /\ \A e, u \in Elements : Ordered!Same(e, u) <=> Node(e) = Node(u)
  BY EntriesAre
<1>2. Entries' = {nodes'[m].value : m \in Members'}
  BY DEF Entries
<1>3. ASSUME NEW e \in Entries'
      PROVE  e \in {x \in Entries : ~Ordered!Same(x, v)} \cup {v}
  <2>1. PICK m \in Members' : e = nodes'[m].value
    BY <1>2
  <2>2. CASE m = Node(v)
    BY <2>1, <2>2
  <2>3. CASE m # Node(v)
    <3>1. m \in Members /\ e = nodes[m].value
      BY <2>1, <2>3
    <3>. QED BY <1>1, <2>3, <3>1 DEF Entries
  <2>. QED BY <2>2, <2>3
<1>4. v \in Entries'
  BY <1>2
<1>5. ASSUME NEW e \in Entries, ~Ordered!Same(e, v)
      PROVE  e \in Entries'
  <2>1. PICK m \in Members : e = nodes[m].value
    BY DEF Entries
  <2>2. m # Node(v)
    BY <1>1, <1>5, <2>1
  <2>3. m \in Members' /\ nodes'[m].value = e
    BY <2>1, <2>2
  <2>. QED BY <1>2, <2>3
<1>. QED BY <1>3, <1>4, <1>5

\* skiplist_remove takes out the entries between its keys.
LEMMA RemoveStep ==
    ASSUME SkipInv, NEW key1 \in Keys, NEW key2 \in Keys, SkipRemove(key1, key2)
    PROVE  Entries' = Entries \ Ordered!Between(key1, key2)
           /\ removed' = Cardinality(Ordered!Between(key1, key2))
<1> DEFINE In(x) == \/ key1 <= x.key /\ x.key <= key2
                    \/ key2 <= x.key /\ x.key <= key1
           S == Swept(key1, key2)
           T == {e \in Entries : In(e)}
<1>1. /\ \A n \in Members : /\ nodes[n].value \in Elements /\ Node(nodes[n].value) = n
                            /\ nodes[n].value.key = n.key
  BY EntriesAre
<1>2. /\ Members' = Members \ S /\ removed' = Cardinality(S)
      /\ \A m \in Members' : nodes'[m].value = nodes[m].value
  BY RemoveInv
<1>3. \A n \in Members : n \in S <=> In(nodes[n].value)
  BY <1>1 DEF Swept
<1>4. S \subseteq Members
  BY DEF Swept
<1>0. Ordered!Between(key1, key2) = T
  BY DEF Ordered!Between, Entries
<1> HIDE DEF In, S
<1>5. Entries' = {nodes'[m].value : m \in Members'}
  BY DEF Entries
<1>6. Entries' = Entries \ T
  <2>1. Entries' = {nodes[m].value : m \in Members \ S}
    BY <1>2, <1>5
  <2>2. ASSUME NEW e \in Entries', e \in T PROVE FALSE
    BY <1>3, <2>1, <2>2
  <2>3. ASSUME NEW e \in Entries, e \notin T PROVE e \in Entries'
    BY <1>3, <2>1, <2>3 DEF Entries
  <2>4. Entries' \subseteq Entries
    BY <2>1 DEF Entries
  <2>. QED BY <2>2, <2>3, <2>4
<1>7. Cardinality(T) = Cardinality(S)
  <2> DEFINE f == [n \in S |-> nodes[n].value]
  <2>1. IsFiniteSet(S)
    BY <1>4, TypedFacts DEF SkipInv, GoodList, Members
  <2>2. f \in [S -> T]
    BY <1>3, <1>4 DEF Entries
  <2>3. \A m, n \in S : f[m] = f[n] => m = n
    BY <1>1, <1>4
  <2>4. \A e \in T : \E n \in S : f[n] = e
    BY <1>3 DEF Entries
  <2> HIDE DEF f, T
  <2>5. f \in Bijection(S, T)
    BY <2>2, <2>3, <2>4 DEF Bijection, Injection, Surjection, IsInjective
  <2>6. ExistsBijection(S, T)
    BY <2>5 DEF ExistsBijection
  <2>. QED BY <2>1, <2>6, FS_Bijection
<1>. QED BY <1>0, <1>2, <1>6, <1>7

\* skiplist_set, skiplist_remove and skiplist_clear do to the list what their
\* names say to the set of its values, and removal counts what it removed.
THEOREM SkipListIsOrderedSet == SkipSpec => SkipListSpec
<1>1. SkipInit => Ordered!Init
  <2>1. SUFFICES ASSUME SkipInit PROVE Ordered!Init
    OBVIOUS
  <2>2. Members = {}
    BY <2>1, SkipInitInv
  <2>. QED BY <2>1, <2>2 DEF SkipInit, Ordered!Init
<1>2. SkipInv /\ [SkipNext]_skipVars => [Ordered!Next]_(Ordered!vars)
  <2>1. SUFFICES ASSUME SkipInv, [SkipNext]_skipVars PROVE [Ordered!Next]_(Ordered!vars)
    OBVIOUS
  <2>2. CASE SkipClear
    <3>1. Members' = {}
      BY <2>1, <2>2, EmptyInv DEF SkipClear, SkipInv
    <3>2. Ordered!Clear
      BY <2>2, <3>1 DEF SkipClear, Ordered!Clear
    <3>. QED BY <3>2 DEF Ordered!Next
  <2>3. ASSUME NEW v \in Elements, Overwrite(v)
        PROVE  [Ordered!Next]_(Ordered!vars)
    <3>1. /\ Node(v) \in Members /\ Members' = Members
          /\ \A m \in Members : nodes'[m].value = IF m = Node(v) THEN v ELSE nodes[m].value
      BY <2>1, <2>3, OverwriteInv
    <3>2. UNCHANGED compare2 /\ removed' = 0 /\ Members' = Members \cup {Node(v)}
      BY <2>3, <3>1 DEF Overwrite
    <3>3. Entries' = {e \in Entries : ~Ordered!Same(e, v)} \cup {v}
      BY <2>1, <3>1, <3>2, SetStep
    <3>4. Ordered!Set(v)
      BY <3>2, <3>3 DEF Ordered!Set, Entries
    <3>. QED BY <3>4 DEF Ordered!Next
  <2>4. ASSUME NEW v \in Elements, NEW h \in Levels, Insert(v, h)
        PROVE  [Ordered!Next]_(Ordered!vars)
    <3>1. /\ Node(v) \notin Members /\ Members' = Members \cup {Node(v)}
          /\ nodes'[Node(v)].value = v
          /\ \A m \in Members : nodes'[m].value = nodes[m].value
      BY <2>1, <2>4, InsertInv
    <3>2. UNCHANGED compare2 /\ removed' = 0
      BY <2>4 DEF Insert
    <3>3. \A m \in Members' : nodes'[m].value = IF m = Node(v) THEN v ELSE nodes[m].value
      BY <3>1
    <3>4. Entries' = {e \in Entries : ~Ordered!Same(e, v)} \cup {v}
      BY <2>1, <3>1, <3>2, <3>3, SetStep
    <3>5. Ordered!Set(v)
      BY <3>2, <3>4 DEF Ordered!Set, Entries
    <3>. QED BY <3>5 DEF Ordered!Next
  <2>5. ASSUME NEW k1 \in Keys, NEW k2 \in Keys, SkipRemove(k1, k2)
        PROVE  [Ordered!Next]_(Ordered!vars)
    <3>1. Entries' = Entries \ Ordered!Between(k1, k2) /\ removed' = Cardinality(Ordered!Between(k1, k2))
      BY <2>1, <2>5, RemoveStep
    <3>2. UNCHANGED compare2
      BY <2>5 DEF SkipRemove
    <3>3. Ordered!Cardinality(Ordered!Between(k1, k2)) = Cardinality(Ordered!Between(k1, k2))
      BY DEF Ordered!Cardinality, Cardinality
    <3>4. Ordered!Remove(k1, k2)
      BY <3>1, <3>2, <3>3 DEF Ordered!Remove, Entries
    <3>. QED BY <3>4 DEF Ordered!Next
  <2>6. CASE UNCHANGED skipVars
    BY <2>6 DEF skipVars, Ordered!vars, Members
  <2>. QED BY <2>1, <2>2, <2>3, <2>4, <2>5, <2>6 DEF SkipNext
<1>. QED BY <1>1, <1>2, SkipInvHolds, PTL DEF SkipSpec, SkipListSpec, Ordered!Spec

-----------------------------------------------------------------------------
(* Ranges. *)

Step(reverse, m) == IF reverse THEN nodes[m].prev ELSE nodes[m].next[1]
Ahead(reverse, m, n) == IF reverse THEN Less(compare2, n, m) ELSE Less(compare2, m, n)

\* One step leads to the neighbour in its direction.
LEMMA StepIs ==
    ASSUME SkipInv, NEW reverse \in BOOLEAN, NEW m \in Members
    PROVE  /\ Step(reverse, m) \in DOMAIN nodes \cup {NoNode}
           /\ Step(reverse, m) \in Members =>
                /\ Ahead(reverse, m, Step(reverse, m))
                /\ \A o \in Members : Ahead(reverse, m, o) =>
                      o = Step(reverse, m) \/ Ahead(reverse, Step(reverse, m), o)
           /\ Step(reverse, m) \notin Members => \A o \in Members : ~Ahead(reverse, m, o)
<1>1. /\ compare2 \in BOOLEAN /\ ListTyped(compare2, nodes) /\ Chained(compare2, nodes) /\ Mirrored(nodes)
  BY DEF SkipInv, GoodList
<1>2. /\ Members = DOMAIN nodes \ {ListHead} /\ ListHead \in DOMAIN nodes /\ DOMAIN nodes \subseteq Places(compare2)
      /\ NoNode \notin DOMAIN nodes
  BY <1>1, TypedFacts DEF Members, ListTyped
<1>3. ASSUME NEW n \in DOMAIN nodes
      PROVE  IsFirst(compare2, nodes[n].next[1], {o \in Members : Less(compare2, n, o)})
  <2>1. 1 \in DOMAIN nodes[n].next
    BY <1>1, TypedFacts
  <2>2. Tall(nodes, 1) = Members
    BY <1>1, <1>2, TypedFacts DEF Tall
  <2>. QED BY <1>1, <2>1, <2>2 DEF Chained, After
<1>4. CASE ~reverse
  <2>1. PICK s : s = nodes[m].next[1]
    OBVIOUS
  <2>2. IsFirst(compare2, s, {o \in Members : Less(compare2, m, o)})
    BY <1>2, <1>3, <2>1
  <2>3. Step(reverse, m) = s /\ \A a, b : Ahead(reverse, a, b) <=> Less(compare2, a, b)
    BY <1>4, <2>1 DEF Step, Ahead
  <2>4. s \in DOMAIN nodes \cup {NoNode}
    BY <1>2, <2>2 DEF IsFirst
  <2>5. s \in Members => /\ Less(compare2, m, s)
                         /\ \A o \in Members : Less(compare2, m, o) => o = s \/ Less(compare2, s, o)
    BY <1>2, <2>2 DEF IsFirst
  <2>6. s \notin Members => \A o \in Members : ~Less(compare2, m, o)
    BY <1>2, <2>2 DEF IsFirst
  <2>. QED BY <2>3, <2>4, <2>5, <2>6
<1>5. CASE reverse
  <2>1. PICK p : p = nodes[m].prev
    OBVIOUS
  <2>2. p \in DOMAIN nodes /\ nodes[p].next[1] = m
    BY <1>1, <1>2, <2>1 DEF Mirrored
  <2>3. IsFirst(compare2, m, {o \in Members : Less(compare2, p, o)})
    BY <1>3, <2>2
  <2>4. Less(compare2, p, m) /\ \A o \in Members : Less(compare2, p, o) => o = m \/ Less(compare2, m, o)
    BY <1>2, <2>3 DEF IsFirst
  <2>5. \A o \in Members : Less(compare2, o, m) => o = p \/ Less(compare2, o, p)
    BY <1>1, <1>2, <2>2, <2>4, OrderIs DEF Ordering
  <2>6. Step(reverse, m) = p /\ \A a, b : Ahead(reverse, a, b) <=> Less(compare2, b, a)
    BY <1>5, <2>1 DEF Step, Ahead
  <2>7. p \notin Members => \A o \in Members : ~Less(compare2, o, m)
    <3>1. SUFFICES ASSUME p \notin Members, NEW o \in Members, Less(compare2, o, m) PROVE FALSE
      OBVIOUS
    <3>2. p = ListHead
      BY <1>2, <2>2, <3>1
    <3>3. Less(compare2, o, ListHead)
      BY <1>2, <2>5, <3>1, <3>2
    <3>. QED BY <3>3 DEF Less
  <2>. QED BY <2>2, <2>4, <2>5, <2>6, <2>7
<1>. QED BY <1>4, <1>5

\* Induction over the natural numbers, as a fact about sets.
LEMMA NatSets ==
    ASSUME NEW T \in SUBSET Nat, 0 \in T, \A n \in T : n + 1 \in T
    PROVE  T = Nat
<1>1. SUFFICES ASSUME T # Nat PROVE FALSE
  OBVIOUS
<1> DEFINE U == Nat \ T
           R == {ss \in Nat \X Nat : ss[1] < ss[2]}
<1>2. U # {} /\ U \subseteq Nat
  BY <1>1
<1>3. IsWellFoundedOn(R, Nat)
  BY NatLessThanWellFounded DEF OpToRel
<1>4. \E x \in U : \A y \in U : <<y, x>> \notin R
  <2> HIDE DEF R
  <2> QED
    BY <1>2, <1>3, WFMin
<1>5. PICK x \in U : \A y \in U : <<y, x>> \notin R
  BY <1>4
<1>6. \A y \in U : ~(y < x)
  BY <1>5
<1>7. x # 0 /\ x - 1 \in Nat /\ x - 1 \in T
  BY <1>6
<1> QED
  BY <1>7

\* A walk of g from n
Walk(X, g, n, limit, f) ==
    f \in [0..limit -> X] /\ f[0] = n /\ \A i \in 1..limit : f[i] = g[f[i - 1]]

\* A walk of any length exists.
LEMMA WalkExists ==
    ASSUME NEW X, NEW g \in [X -> X], NEW n \in X, NEW limit \in Nat
    PROVE  \E f : Walk(X, g, n, limit, f)
<1> DEFINE T == {k \in Nat : \E f : Walk(X, g, n, k, f)}
<1>1. 0 \in T
  <2> DEFINE f == [i \in 0..0 |-> n]
  <2>1. Walk(X, g, n, 0, f)
    BY DEF Walk
  <2>. QED BY <2>1
<1>2. ASSUME NEW k \in T
      PROVE  k + 1 \in T
  <2>1. PICK f : Walk(X, g, n, k, f)
    OBVIOUS
  <2> DEFINE h == [i \in 0..(k + 1) |-> IF i = k + 1 THEN g[f[k]] ELSE f[i]]
  <2>2. k \in Nat /\ f \in [0..k -> X] /\ f[0] = n /\ \A i \in 1..k : f[i] = g[f[i - 1]]
    BY <2>1 DEF Walk
  <2>3. f[k] \in X /\ g[f[k]] \in X
    BY <2>2
  <2>4. h \in [0..(k + 1) -> X] /\ h[0] = n
    <3>1. \A i \in 0..(k + 1) : i # k + 1 => i \in 0..k
      BY <2>2
    <3>2. \A i \in 0..(k + 1) : h[i] \in X
      BY <2>2, <2>3, <3>1
    <3>. QED BY <2>2, <3>2
  <2>5. ASSUME NEW i \in 1..(k + 1)
        PROVE  h[i] = g[h[i - 1]]
    <3>1. CASE i = k + 1
      BY <2>2, <3>1
    <3>2. CASE i # k + 1
      <4>1. i \in 1..k /\ i - 1 \in 0..(k + 1) /\ i - 1 # k + 1 /\ i \in 0..(k + 1)
        BY <2>2, <3>2
      <4>2. h[i] = f[i] /\ h[i - 1] = f[i - 1]
        BY <3>2, <4>1
      <4>. QED BY <2>2, <4>1, <4>2
    <3>. QED BY <3>1, <3>2
  <2> HIDE DEF h
  <2>6. Walk(X, g, n, k + 1, h)
    BY <2>4, <2>5 DEF Walk
  <2>. QED BY <2>2, <2>6
<1>3. T = Nat
  <2> HIDE DEF T
  <2>1. T \in SUBSET Nat
    BY DEF T
  <2>. QED BY <1>1, <1>2, <2>1, NatSets
<1>. QED BY <1>3

\* A walk that ends at a limit ends somewhere.
LEMMA FirstOut ==
    ASSUME NEW limit \in Nat, NEW In
    PROVE  \E k \in 0..limit : (k = limit \/ k \notin In) /\ \A i \in 0..(k - 1) : i \in In
<1> DEFINE T == {k \in Nat : \A i \in 0..(k - 1) : i \in In}
<1>1. CASE T = Nat
  BY <1>1
<1>2. CASE T # Nat
  <2>1. 0 \in T
    OBVIOUS
  <2>2. \E k \in T : k + 1 \notin T
    <3>1. T \in SUBSET Nat
      OBVIOUS
    <3>. HIDE DEF T
    <3>. QED BY <1>2, <2>1, <3>1, NatSets
  <2>3. PICK k \in T : k + 1 \notin T
    BY <2>2
  <2>4. k \in Nat /\ k \notin In
    <3>1. k \in Nat /\ k + 1 \in Nat /\ (k + 1) - 1 = k
      OBVIOUS
    <3>2. PICK i \in 0..k : i \notin In
      BY <2>3, <3>1
    <3>3. i = k
      BY <3>1, <3>2
    <3>. QED BY <3>1, <3>2, <3>3
  <2>5. CASE k <= limit
    BY <2>3, <2>4, <2>5
  <2>6. CASE limit < k
    <3>1. \A i \in 0..(limit - 1) : i \in 0..(k - 1)
      BY <2>4, <2>6
    <3>. QED BY <2>3, <3>1
  <2>. QED BY <2>4, <2>5, <2>6
<1>. QED BY <1>1, <1>2

\* What Collect returns: the nodes at which the loop stood
Collected(n, reverse, wanted, limit, at, len) ==
    /\ at \in [0..limit -> DOMAIN nodes \cup {NoNode}] /\ at[0] = n
    /\ len \in 0..limit /\ (len = limit \/ at[len] \notin wanted)
    /\ \A i \in 0..(len - 1) : at[i] \in wanted /\ at[i + 1] = Step(reverse, at[i])
    /\ Collect(n, reverse, wanted, limit) = [i \in 1..len |-> at[i - 1]]

\* The loop of skiplist_range is such a walk.
LEMMA CollectIs ==
    ASSUME SkipInv, NEW reverse \in BOOLEAN, NEW wanted \in SUBSET Members,
           NEW n \in DOMAIN nodes \cup {NoNode}, NEW limit \in Nat
    PROVE  \E at, len : Collected(n, reverse, wanted, limit, at, len)
<1> DEFINE X == DOMAIN nodes \cup {NoNode}
           Go(m) == IF m \notin wanted THEN m ELSE Step(reverse, m)
           g == [m \in X |-> Go(m)]
           Is(f) == f = [i \in 0..limit |-> IF i = 0 THEN n ELSE Go(f[i - 1])]
           at == CHOOSE f : Is(f)
           Halts(k) == (k = limit \/ at[k] \notin wanted) /\ \A i \in 0..(k - 1) : at[i] \in wanted
           len == CHOOSE k \in 0..limit : Halts(k)
<1>1. Collect(n, reverse, wanted, limit) = [i \in 1..len |-> at[i - 1]]
  BY DEF Collect, Step
<1> HIDE DEF at, len
<1>2. \A m \in X : Go(m) \in X
  BY StepIs
<1> HIDE DEF X
<1>3. g \in [X -> X] /\ n \in X
  BY <1>2 DEF X
<1>4. PICK f : Walk(X, g, n, limit, f)
  BY <1>3, WalkExists
<1>5. f \in [0..limit -> X] /\ f[0] = n /\ \A i \in 1..limit : f[i] = Go(f[i - 1])
  <2>1. f \in [0..limit -> X] /\ f[0] = n /\ \A i \in 1..limit : f[i] = g[f[i - 1]]
    BY <1>4 DEF Walk
  <2>2. \A i \in 1..limit : i - 1 \in 0..limit
    OBVIOUS
  <2>3. \A i \in 1..limit : f[i - 1] \in X
    BY <2>1, <2>2
  <2>. QED BY <2>1, <2>3
<1> HIDE DEF Go
<1>6. Is(f)
  <2>1. \A i \in 0..limit : i # 0 => i \in 1..limit
    OBVIOUS
  <2>2. \A i \in 0..limit : f[i] = IF i = 0 THEN n ELSE Go(f[i - 1])
    BY <1>5, <2>1
  <2>. QED BY <1>5, <2>2
<1>7. Is(at)
  BY <1>6 DEF at
<1>8. /\ at[0] = n /\ \A i \in 1..limit : at[i] = Go(at[i - 1])
      /\ DOMAIN at = 0..limit /\ at = [i \in 0..limit |-> at[i]]
  <2>1. /\ \A i \in 0..limit : at[i] = IF i = 0 THEN n ELSE Go(at[i - 1])
        /\ DOMAIN at = 0..limit /\ at = [i \in 0..limit |-> at[i]]
    BY <1>7
  <2>2. 0 \in 0..limit /\ \A i \in 1..limit : i \in 0..limit /\ i # 0
    OBVIOUS
  <2>. QED BY <2>1, <2>2
<1>9. \A i \in 0..limit : at[i] \in X
  <2> DEFINE T == {k \in Nat : k <= limit => at[k] \in X}
  <2>1. 0 \in T
    BY <1>3, <1>8
  <2>2. ASSUME NEW k \in T
        PROVE  k + 1 \in T
    <3>1. SUFFICES ASSUME k + 1 <= limit PROVE at[k + 1] \in X
      OBVIOUS
    <3>2. k \in Nat /\ k <= limit /\ k + 1 \in 1..limit /\ (k + 1) - 1 = k
      BY <3>1
    <3>3. at[k] \in X /\ at[k + 1] = Go(at[k])
      BY <1>8, <3>2
    <3>. QED BY <1>2, <3>3
  <2>3. T = Nat
    <3> HIDE DEF T
    <3>1. T \in SUBSET Nat
      BY DEF T
    <3>. QED BY <2>1, <2>2, <3>1, NatSets
  <2>. QED BY <2>3
<1>10. len \in 0..limit /\ Halts(len)
  <2> DEFINE In == {i \in 0..limit : at[i] \in wanted}
  <2>1. \E k \in 0..limit : (k = limit \/ k \notin In) /\ \A i \in 0..(k - 1) : i \in In
    <3> HIDE DEF In
    <3>. QED BY FirstOut
  <2>2. PICK k \in 0..limit : (k = limit \/ k \notin In) /\ \A i \in 0..(k - 1) : i \in In
    BY <2>1
  <2>3. Halts(k)
    BY <2>2
  <2>4. \E j \in 0..limit : Halts(j)
    BY <2>3
  <2> HIDE DEF Halts
  <2>. QED BY <2>4 DEF len
<1>11. ASSUME NEW i \in 0..(len - 1)
       PROVE  at[i] \in wanted /\ at[i + 1] = Step(reverse, at[i])
  <2>1. at[i] \in wanted
    BY <1>10
  <2>2. i + 1 \in 1..limit /\ (i + 1) - 1 = i
    BY <1>10
  <2>. QED BY <1>8, <2>1, <2>2 DEF Go
<1>12. at \in [0..limit -> X]
  <2>1. \A i \in 0..limit : at[i] \in X
    BY <1>9
  <2>2. PICK a : a = at
    OBVIOUS
  <2>3. a = [i \in 0..limit |-> a[i]] /\ \A i \in 0..limit : a[i] \in X
    BY <1>8, <2>1, <2>2
  <2>4. a \in [0..limit -> X]
    BY <2>3
  <2>. QED BY <2>2, <2>4
<1>13. Collected(n, reverse, wanted, limit, at, len)
  BY <1>1, <1>8, <1>10, <1>11, <1>12 DEF Collected, X
<1>. QED BY <1>13

\* What lies between the keys of skiplist_range, and the nodes its loop takes
InRange(k1, k2) == {n \in Members : IF k1 > k2 THEN k2 <= KeyOf(n) /\ KeyOf(n) <= k1
                                              ELSE k1 <= KeyOf(n) /\ KeyOf(n) <= k2}
Taken(k1, k2) == IF k1 > k2 THEN Members \ Lower(k2) ELSE UpTo(k2)

\* Where the loop may start
Starts(k1, k2, start) ==
    /\ start \in DOMAIN nodes \cup {NoNode}
    /\ start \in Members => IF k1 > k2 THEN start.key <= k1 ELSE k1 <= start.key
    /\ Equal(k1) # {} => start \in Equal(k1)
    /\ start \in Members => \A o \in InRange(k1, k2) : Ahead(k1 > k2, o, start) => o \in Equal(k1)
    /\ start \notin Taken(k1, k2) => InRange(k1, k2) = {}

\* The descent to a key finds a node of it, if there is one.
LEMMA KeyHit ==
    ASSUME SkipInv, NEW k \in Int
    PROVE  IF Equal(k) = {} THEN Hit(Descent(Lower(k)), Equal(k)) = NoNode
                            ELSE Hit(Descent(Lower(k)), Equal(k)) \in Equal(k)
<1>1. /\ compare2 \in BOOLEAN /\ ListTyped(compare2, nodes) /\ Chained(compare2, nodes)
      /\ level \in Levels
  BY DEF SkipInv, GoodList, Capped
<1>2. \A n \in Members : KeyOf(n) \in Int
  BY <1>1, KeysAre
<1>3. /\ Segment(compare2, nodes, Lower(k)) /\ Segment(compare2, nodes, UpTo(k))
      /\ Lower(k) \cup Equal(k) = UpTo(k) /\ Equal(k) \subseteq Members /\ Equal(k) \cap Lower(k) = {}
  BY <1>1, <1>2, Segments DEF Lower, Equal, UpTo
<1>. QED BY <1>1, <1>3, HitIs

\* The node before the keys from k on and the one behind it
LEMMA BeforeKey ==
    ASSUME SkipInv, NEW k \in Int, NEW p, p = Descent(Lower(k))[1]
    PROVE  /\ IsLast(compare2, p, Lower(k) \cup {ListHead})
           /\ IsFirst(compare2, nodes[p].next[1], Members \ Lower(k))
<1>1. /\ compare2 \in BOOLEAN /\ ListTyped(compare2, nodes) /\ Chained(compare2, nodes)
      /\ level \in Levels /\ 1 \in 1..level /\ 1 \in Levels
  BY SkipAssumption DEF SkipInv, GoodList, Capped, Levels
<1>2. Segment(compare2, nodes, Lower(k))
  BY <1>1, Segments
<1>3. AtLevel(1) = DOMAIN nodes /\ At(nodes, 1) = DOMAIN nodes /\ Tall(nodes, 1) = Members
  BY <1>1, TypedFacts DEF AtLevel, At, Tall, Members
<1>4. Lower(k) \cup {ListHead} \subseteq DOMAIN nodes
  BY <1>1 DEF Lower, Members, ListTyped
<1>5. IsLast(compare2, p, AtLevel(1) \cap (Lower(k) \cup {ListHead}))
  BY <1>1, <1>2, DescentIs
<1>6. IsLast(compare2, p, Lower(k) \cup {ListHead})
  <2>1. AtLevel(1) \cap (Lower(k) \cup {ListHead}) = Lower(k) \cup {ListHead}
    BY <1>3, <1>4
  <2>. QED BY <1>5, <2>1
<1>7. SegmentEnds(compare2, nodes, 1, Lower(k), p)
  BY <1>1, <1>2, <1>3, <1>5, LastOfSegment
<1>8. After(compare2, nodes, p, 1) = Members \ Lower(k)
  BY <1>3, <1>7 DEF SegmentEnds
<1>9. IsFirst(compare2, nodes[p].next[1], After(compare2, nodes, p, 1))
  <2>1. p \in DOMAIN nodes
    BY <1>4, <1>6 DEF IsLast
  <2>2. 1 \in DOMAIN nodes[p].next
    BY <1>1, <2>1, TypedFacts
  <2>. QED BY <1>1, <2>1, <2>2 DEF Chained
<1>. QED BY <1>6, <1>8, <1>9

\* It starts where skiplist_fast_get says.
LEMMA StartsIs ==
    ASSUME SkipInv, NEW k1 \in Int, NEW k2 \in Int
    PROVE  Starts(k1, k2, FastGet(k1, k1 > k2))
<1>1. PICK p : p = Descent(Lower(k1))[1]
  OBVIOUS
<1>2. PICK hit : hit = Hit(Descent(Lower(k1)), Equal(k1))
  OBVIOUS
<1>3. PICK start : start = FastGet(k1, k1 > k2)
  OBVIOUS
<1>4. start = IF hit # NoNode THEN hit ELSE IF k1 > k2 THEN p ELSE nodes[p].next[1]
  BY <1>1, <1>2, <1>3 DEF FastGet
<1>5. IF Equal(k1) = {} THEN hit = NoNode ELSE hit \in Equal(k1)
  BY <1>2, KeyHit
<1>6. /\ IsLast(compare2, p, Lower(k1) \cup {ListHead})
      /\ IsFirst(compare2, nodes[p].next[1], Members \ Lower(k1))
  BY <1>1, BeforeKey
<1>7. compare2 \in BOOLEAN /\ ListTyped(compare2, nodes)
  BY DEF SkipInv, GoodList
<1>8. /\ Members = DOMAIN nodes \ {ListHead} /\ ListHead \in DOMAIN nodes /\ NoNode \notin DOMAIN nodes
      /\ Members \subseteq Places(compare2)
      /\ \A n \in Members : KeyOf(n) = n.key /\ n.key \in Int
  BY <1>7, TypedFacts, KeysAre DEF Members
<1>9. /\ \A n \in Members : /\ n \in Lower(k1) <=> n.key < k1
                            /\ n \in Equal(k1) <=> n.key = k1
                            /\ n \in UpTo(k2) <=> n.key <= k2
                            /\ n \in Lower(k2) <=> n.key < k2
                            /\ n \in InRange(k1, k2) <=> IF k1 > k2 THEN k2 <= n.key /\ n.key <= k1
                                                                    ELSE k1 <= n.key /\ n.key <= k2
      /\ Lower(k1) \subseteq Members /\ Equal(k1) \subseteq Members /\ InRange(k1, k2) \subseteq Members
  BY <1>8 DEF Lower, Equal, UpTo, InRange
<1>10. \A m, n \in Members : Less(compare2, m, n) => m.key <= n.key
  BY <1>8 DEF Less
<1>11. CASE Equal(k1) # {}
  <2>1. start = hit /\ start \in Members /\ start.key = k1 /\ start \in Equal(k1)
    BY <1>4, <1>5, <1>8, <1>9, <1>11
  <2>2. \A o \in InRange(k1, k2) : Ahead(k1 > k2, o, start) => o \in Equal(k1)
    <3>1. SUFFICES ASSUME NEW o \in InRange(k1, k2), Ahead(k1 > k2, o, start) PROVE o.key = k1
      BY <1>9
    <3>2. o \in Members /\ o.key \in Int
      BY <1>8, <1>9
    <3>3. CASE k1 > k2
      <4>1. start.key <= o.key
        BY <1>10, <2>1, <3>1, <3>2, <3>3 DEF Ahead
      <4>. QED BY <1>9, <2>1, <3>2, <3>3, <4>1
    <3>4. CASE ~(k1 > k2)
      <4>1. o.key <= start.key
        BY <1>10, <2>1, <3>1, <3>2, <3>4 DEF Ahead
      <4>. QED BY <1>9, <2>1, <3>2, <3>4, <4>1
    <3>. QED BY <3>3, <3>4
  <2>3. start \in Taken(k1, k2)
    BY <1>9, <2>1 DEF Taken
  <2>4. IF k1 > k2 THEN start.key <= k1 ELSE k1 <= start.key
    BY <2>1
  <2>. QED BY <1>3, <1>8, <2>1, <2>2, <2>3, <2>4 DEF Starts
<1>12. CASE Equal(k1) = {} /\ ~(k1 > k2)
  <2>1. IsFirst(compare2, start, Members \ Lower(k1))
    BY <1>4, <1>5, <1>6, <1>12
  <2>2. \A o \in InRange(k1, k2) : o \in Members \ Lower(k1) /\ (o = start \/ Less(compare2, start, o)) /\ start \in Members
    <3>1. SUFFICES ASSUME NEW o \in InRange(k1, k2)
                   PROVE  o \in Members \ Lower(k1) /\ (o = start \/ Less(compare2, start, o)) /\ start \in Members
      OBVIOUS
    <3>2. o \in Members \ Lower(k1)
      BY <1>8, <1>9, <1>12
    <3>. QED BY <2>1, <3>2 DEF IsFirst
  <2>3. start \in DOMAIN nodes \cup {NoNode} /\ (start \in Members => k1 <= start.key)
    BY <1>8, <1>9, <2>1 DEF IsFirst
  <2>4. \A o \in InRange(k1, k2) : ~Ahead(k1 > k2, o, start)
    <3>1. SUFFICES ASSUME NEW o \in InRange(k1, k2), Less(compare2, o, start) PROVE FALSE
      BY <1>12 DEF Ahead
    <3>2. o \in Places(compare2) /\ start \in Places(compare2)
      BY <1>8, <2>2
    <3>. QED BY <1>7, <2>2, <3>1, <3>2, OrderIs DEF Ordering
  <2>5. start \notin Taken(k1, k2) => InRange(k1, k2) = {}
    <3>1. SUFFICES ASSUME NEW o \in InRange(k1, k2) PROVE start \in Taken(k1, k2)
      OBVIOUS
    <3>2. o \in Members /\ start \in Members /\ start.key <= o.key /\ o.key <= k2 /\ o.key \in Int /\ start.key \in Int
      BY <1>8, <1>9, <1>10, <1>12, <2>2
    <3>3. start.key <= k2
      BY <3>2
    <3>. QED BY <1>9, <1>12, <3>2, <3>3 DEF Taken
  <2>. QED BY <1>3, <1>12, <2>3, <2>4, <2>5 DEF Starts
<1>13. CASE Equal(k1) = {} /\ k1 > k2
  <2>1. IsLast(compare2, start, Lower(k1) \cup {ListHead})
    BY <1>4, <1>5, <1>6, <1>13
  <2>2. \A o \in InRange(k1, k2) : o \in Lower(k1)
    <3>1. SUFFICES ASSUME NEW o \in InRange(k1, k2) PROVE o \in Lower(k1)
      OBVIOUS
    <3>2. o \in Members /\ o.key <= k1 /\ o.key # k1 /\ o.key \in Int
      BY <1>8, <1>9, <1>13
    <3>. QED BY <1>9, <3>2
  <2>3. \A o \in InRange(k1, k2) : (o = start \/ Less(compare2, o, start)) /\ start \in Members
    <3>1. SUFFICES ASSUME NEW o \in InRange(k1, k2)
                   PROVE  (o = start \/ Less(compare2, o, start)) /\ start \in Members
      OBVIOUS
    <3>2. o = start \/ Less(compare2, o, start)
      BY <2>1, <2>2 DEF IsLast
    <3>3. start # ListHead
      BY <1>8, <1>9, <3>2 DEF Less
    <3>. QED BY <1>9, <2>1, <3>2, <3>3 DEF IsLast
  <2>4. start \in DOMAIN nodes \cup {NoNode} /\ (start \in Members => start.key <= k1)
    <3>1. start \in Lower(k1) \cup {ListHead}
      BY <2>1 DEF IsLast
    <3>. QED BY <1>8, <1>9, <3>1
  <2>5. \A o \in InRange(k1, k2) : ~Ahead(k1 > k2, o, start)
    <3>1. SUFFICES ASSUME NEW o \in InRange(k1, k2), Less(compare2, start, o) PROVE FALSE
      BY <1>13 DEF Ahead
    <3>2. o \in Places(compare2) /\ start \in Places(compare2)
      BY <1>8, <1>9, <2>3
    <3>. QED BY <1>7, <2>3, <3>1, <3>2, OrderIs DEF Ordering
  <2>6. start \notin Taken(k1, k2) => InRange(k1, k2) = {}
    <3>1. SUFFICES ASSUME NEW o \in InRange(k1, k2) PROVE start \in Taken(k1, k2)
      OBVIOUS
    <3>2. o \in Members /\ start \in Members /\ o.key <= start.key /\ k2 <= o.key /\ o.key \in Int /\ start.key \in Int
      BY <1>8, <1>9, <1>10, <1>13, <2>3
    <3>3. ~(start.key < k2)
      BY <3>2
    <3>. QED BY <1>9, <1>13, <3>2, <3>3 DEF Taken
  <2>. QED BY <1>3, <1>13, <2>4, <2>5, <2>6 DEF Starts
<1>. QED BY <1>11, <1>12, <1>13

\* What skiplist_range returns
RangeRight(k1, k2, limit) ==
    LET reverse == k1 > k2
        between == InRange(k1, k2)
        result == SkipRange(k1, k2, limit)
        got == {result[i] : i \in 1..Len(result)}
        passed == {n \in between \ got :
                    \E m \in got : IF reverse THEN Before(m, n) ELSE Before(n, m)}
    IN  /\ got \subseteq between /\ InOrder(result, reverse)
        /\ passed \subseteq Equal(k1)
        /\ limit > 0 /\ Equal(k1) # {} => got \cap Equal(k1) # {}
        /\ Len(result) < limit => between = got \cup passed

\* What skiplist_range returns is right.
LEMMA RangeIs ==
    ASSUME SkipInv, NEW k1 \in Int, NEW k2 \in Int, NEW limit \in Nat
    PROVE  RangeRight(k1, k2, limit)
<1>1. PICK start : start = FastGet(k1, k1 > k2)
  OBVIOUS
<1>2. PICK reverse : reverse = IF k1 > k2 THEN TRUE ELSE FALSE
  OBVIOUS
<1>3. reverse \in BOOLEAN /\ (reverse <=> k1 > k2)
  <2>1. CASE k1 > k2
    <3>1. reverse = TRUE
      BY <1>2, <2>1
    <3>. QED BY <2>1, <3>1
  <2>2. CASE ~(k1 > k2)
    <3>1. reverse = FALSE
      BY <1>2, <2>2
    <3>. QED BY <2>2, <3>1
  <2>. QED BY <2>1, <2>2
<1>4. PICK wanted : wanted = Taken(k1, k2)
  OBVIOUS
<1>5. PICK result : result = SkipRange(k1, k2, limit)
  OBVIOUS
<1>6. result = Collect(start, reverse, wanted, limit)
  <2>1. CASE k1 > k2
    <3>1. reverse = TRUE
      BY <1>2, <2>1
    <3>2. SkipRange(k1, k2, limit) = Collect(FastGet(k1, TRUE), TRUE, Members \ Lower(k2), limit)
      BY <2>1 DEF SkipRange
    <3>3. start = FastGet(k1, TRUE) /\ wanted = Members \ Lower(k2)
      BY <1>1, <1>4, <2>1 DEF Taken, FastGet
    <3>. QED BY <1>5, <3>1, <3>2, <3>3
  <2>2. CASE ~(k1 > k2)
    <3>1. reverse = FALSE
      BY <1>2, <2>2
    <3>2. SkipRange(k1, k2, limit) = Collect(FastGet(k1, FALSE), FALSE, UpTo(k2), limit)
      BY <2>2 DEF SkipRange
    <3>3. start = FastGet(k1, FALSE) /\ wanted = UpTo(k2)
      BY <1>1, <1>4, <2>2 DEF Taken, FastGet
    <3>. QED BY <1>5, <3>1, <3>2, <3>3
  <2>. QED BY <2>1, <2>2
<1>7. compare2 \in BOOLEAN /\ ListTyped(compare2, nodes)
  BY DEF SkipInv, GoodList
<1>8. /\ Members \subseteq Places(compare2)
      /\ \A n \in Members : KeyOf(n) = n.key /\ n.key \in Int
      /\ \A m, n \in Members : Before(m, n) <=> Less(compare2, m, n)
      /\ ListHead \notin Members
  BY <1>7, TypedFacts, KeysAre, BehindIs DEF Members
<1>9. /\ \A n \in Members : /\ n \in wanted <=> IF reverse THEN k2 <= n.key ELSE n.key <= k2
                            /\ n \in InRange(k1, k2) <=>
                                  n \in wanted /\ IF reverse THEN n.key <= k1 ELSE k1 <= n.key
      /\ wanted \subseteq Members /\ InRange(k1, k2) \subseteq Members /\ InRange(k1, k2) \subseteq wanted
  BY <1>3, <1>4, <1>8 DEF Lower, UpTo, InRange, Taken
<1>10. /\ start \in DOMAIN nodes \cup {NoNode}
       /\ start \in Members => IF reverse THEN start.key <= k1 ELSE k1 <= start.key
       /\ Equal(k1) # {} => start \in Equal(k1)
       /\ start \in Members => \A o \in InRange(k1, k2) : Ahead(reverse, o, start) => o \in Equal(k1)
       /\ start \notin wanted => InRange(k1, k2) = {}
  <2>1. Starts(k1, k2, start)
    BY <1>1, StartsIs
  <2>. QED BY <1>3, <1>4, <2>1 DEF Starts, Ahead
<1>11. PICK at, len : Collected(start, reverse, wanted, limit, at, len)
  BY <1>3, <1>9, <1>10, CollectIs
<1>12. /\ at \in [0..limit -> DOMAIN nodes \cup {NoNode}] /\ at[0] = start
       /\ len \in 0..limit /\ (len = limit \/ at[len] \notin wanted)
       /\ \A i \in 0..(len - 1) : at[i] \in wanted /\ at[i + 1] = Step(reverse, at[i])
       /\ result = [i \in 1..len |-> at[i - 1]]
  BY <1>6, <1>11 DEF Collected
<1>13. Len(result) = len /\ \A i \in 1..len : result[i] = at[i - 1]
  BY <1>12
<1>14. PICK got : got = {result[i] : i \in 1..Len(result)}
  OBVIOUS
<1>15. /\ \A i \in 0..(len - 1) : at[i] \in got
       /\ \A n \in got : \E i \in 0..(len - 1) : n = at[i]
  <2>1. \A i \in 0..(len - 1) : i + 1 \in 1..len /\ (i + 1) - 1 = i
    BY <1>12
  <2>2. \A i \in 1..len : i - 1 \in 0..(len - 1)
    BY <1>12
  <2>. QED BY <1>13, <1>14, <2>1, <2>2
\* The order of directions
<1>16. /\ \A m, n \in Members : m = n \/ Ahead(reverse, m, n) \/ Ahead(reverse, n, m)
       /\ \A m, n \in Members : ~(Ahead(reverse, m, n) /\ Ahead(reverse, n, m))
       /\ \A m, n, o \in Members : Ahead(reverse, m, n) /\ Ahead(reverse, n, o) => Ahead(reverse, m, o)
       /\ \A m, n \in Members : Ahead(reverse, m, n) => IF reverse THEN n.key <= m.key ELSE m.key <= n.key
  <2>1. \A m, n \in Members : Less(compare2, m, n) => m.key <= n.key
    BY <1>8 DEF Less
  <2>2. \A m, n \in Members : m = n \/ Less(compare2, m, n) \/ Less(compare2, n, m)
    BY <1>7, <1>8, OrderIs DEF Ordering
  <2>3. \A m, n \in Members : ~(Less(compare2, m, n) /\ Less(compare2, n, m))
    BY <1>7, <1>8, OrderIs DEF Ordering
  <2>4. \A m, n, o \in Members : Less(compare2, m, n) /\ Less(compare2, n, o) => Less(compare2, m, o)
    BY <1>7, <1>8, OrderIs DEF Ordering
  <2>. QED BY <1>3, <2>1, <2>2, <2>3, <2>4 DEF Ahead
<1>17. ASSUME NEW i \in 0..(len - 1)
       PROVE  /\ at[i] \in Members
              /\ at[i + 1] \in Members =>
                    /\ Ahead(reverse, at[i], at[i + 1])
                    /\ \A o \in Members : Ahead(reverse, at[i], o) =>
                          o = at[i + 1] \/ Ahead(reverse, at[i + 1], o)
              /\ at[i + 1] \notin Members => \A o \in Members : ~Ahead(reverse, at[i], o)
  <2>1. at[i] \in Members /\ at[i + 1] = Step(reverse, at[i])
    BY <1>9, <1>12
  <2>. QED BY <1>3, <2>1, StepIs
\* No node on the way is before the start.
<1>18. \A i \in 0..(len - 1) : at[i] = start \/ Ahead(reverse, start, at[i])
  <2> DEFINE T == {k \in Nat : k < len => at[k] = start \/ Ahead(reverse, start, at[k])}
  <2>1. 0 \in T
    BY <1>12
  <2>2. ASSUME NEW k \in T
        PROVE  k + 1 \in T
    <3>1. SUFFICES ASSUME k + 1 < len PROVE at[k + 1] = start \/ Ahead(reverse, start, at[k + 1])
      OBVIOUS
    <3>2. k \in 0..(len - 1) /\ k + 1 \in 0..(len - 1) /\ 0 \in 0..(len - 1) /\ k < len
      BY <1>12, <3>1
    <3>3. at[k] \in Members /\ at[k + 1] \in Members /\ Ahead(reverse, at[k], at[k + 1]) /\ start \in Members
      BY <1>12, <1>17, <3>2
    <3>. QED BY <1>16, <3>2, <3>3
  <2>3. T = Nat
    <3> HIDE DEF T
    <3>1. T \in SUBSET Nat
      BY DEF T
    <3>. QED BY <2>1, <2>2, <3>1, NatSets
  <2>4. \A i \in 0..(len - 1) : i \in Nat /\ i < len
    BY <1>12
  <2>. QED BY <2>3, <2>4
\* What is behind the start and was not met is behind every node met.
<1>19. ASSUME NEW o \in Members, o \notin got, start \in Members, Ahead(reverse, start, o)
       PROVE  \A i \in 0..(len - 1) : Ahead(reverse, at[i], o)
  <2> DEFINE T == {k \in Nat : k < len => Ahead(reverse, at[k], o)}
  <2>1. 0 \in T
    BY <1>12, <1>19
  <2>2. ASSUME NEW k \in T
        PROVE  k + 1 \in T
    <3>1. SUFFICES ASSUME k + 1 < len PROVE Ahead(reverse, at[k + 1], o)
      OBVIOUS
    <3>2. k \in 0..(len - 1) /\ k + 1 \in 0..(len - 1) /\ k < len
      BY <1>12, <3>1
    <3>3. Ahead(reverse, at[k], o) /\ at[k + 1] \in Members /\ at[k + 1] # o
      BY <1>15, <1>17, <1>19, <3>2
    <3>. QED BY <1>17, <3>2, <3>3
  <2>3. T = Nat
    <3> HIDE DEF T
    <3>1. T \in SUBSET Nat
      BY DEF T
    <3>. QED BY <2>1, <2>2, <3>1, NatSets
  <2>4. \A i \in 0..(len - 1) : i \in Nat /\ i < len
    BY <1>12
  <2>. QED BY <2>3, <2>4
<1>20. len > 0 => start \in got /\ start \in Members
  <2>1. len > 0 => 0 \in 0..(len - 1)
    BY <1>12
  <2>. QED BY <1>12, <1>15, <1>17, <2>1
<1>21. got \subseteq InRange(k1, k2)
  <2>1. SUFFICES ASSUME NEW i \in 0..(len - 1) PROVE at[i] \in InRange(k1, k2)
    BY <1>15
  <2>2. at[i] \in wanted /\ at[i] \in Members /\ start \in Members
    <3>1. len > 0
      BY <1>12
    <3>. QED BY <1>12, <1>17, <1>20, <3>1
  <2>3. at[i].key \in Int /\ start.key \in Int
    BY <1>8, <2>2
  <2>4. IF reverse THEN at[i].key <= start.key ELSE start.key <= at[i].key
    BY <1>16, <1>18, <2>2, <2>3
  <2>5. IF reverse THEN at[i].key <= k1 ELSE k1 <= at[i].key
    BY <1>10, <2>2, <2>3, <2>4
  <2>. QED BY <1>9, <2>2, <2>5
<1>22. InOrder(result, reverse)
  <2>1. SUFFICES ASSUME NEW i \in 1..(len - 1)
                 PROVE  IF reverse THEN Before(result[i + 1], result[i]) ELSE Before(result[i], result[i + 1])
    BY <1>13 DEF InOrder
  <2>2. i \in 1..len /\ i + 1 \in 1..len /\ (i + 1) - 1 = i /\ i - 1 \in 0..(len - 1) /\ i \in 0..(len - 1)
        /\ (i - 1) + 1 = i
    BY <1>12
  <2>3. result[i] = at[i - 1] /\ result[i + 1] = at[i]
    BY <1>13, <2>2
  <2>4. at[i - 1] \in Members /\ at[i] \in Members /\ Ahead(reverse, at[i - 1], at[i])
    BY <1>17, <2>2
  <2>. QED BY <1>8, <2>3, <2>4 DEF Ahead
<1>23. PICK passed : passed = {n \in InRange(k1, k2) \ got :
                                \E m \in got : IF reverse THEN Before(m, n) ELSE Before(n, m)}
  OBVIOUS
<1>24. \A m, n \in Members : (IF reverse THEN Before(m, n) ELSE Before(n, m)) <=> Ahead(reverse, n, m)
  BY <1>8 DEF Ahead
<1>25. passed \subseteq Equal(k1)
  <2>1. SUFFICES ASSUME NEW n \in passed PROVE n \in Equal(k1)
    OBVIOUS
  <2>2. PICK m \in got : IF reverse THEN Before(m, n) ELSE Before(n, m)
    BY <1>23
  <2>3. n \in InRange(k1, k2) /\ n \notin got /\ n \in Members /\ m \in Members
    BY <1>9, <1>21, <1>23
  <2>4. Ahead(reverse, n, m)
    BY <1>24, <2>2, <2>3
  <2>5. PICK i \in 0..(len - 1) : m = at[i]
    BY <1>15
  <2>6. start \in got /\ start \in Members
    BY <1>12, <1>20, <2>5
  <2>7. ~Ahead(reverse, start, n)
    BY <1>16, <1>19, <2>3, <2>4, <2>5, <2>6
  <2>8. Ahead(reverse, n, start)
    BY <1>16, <2>3, <2>6, <2>7
  <2>. QED BY <1>10, <2>3, <2>6, <2>8
<1>26. ASSUME limit > 0, Equal(k1) # {}
       PROVE  got \cap Equal(k1) # {}
  <2>1. start \in Equal(k1)
    BY <1>10, <1>26
  <2>2. start \in Members /\ start.key = k1
    BY <1>8, <2>1 DEF Equal
  <2>3. start \in wanted
    BY <1>3, <1>9, <2>2
  <2>4. len # 0
    BY <1>12, <1>26, <2>3
  <2>5. start \in got
    BY <1>12, <1>20, <2>4
  <2>. QED BY <2>1, <2>5
<1>27. ASSUME len < limit
       PROVE  InRange(k1, k2) = got \cup passed
  <2>1. at[len] \notin wanted
    BY <1>12, <1>27
  <2>2. ASSUME NEW n \in InRange(k1, k2), n \notin got
        PROVE  n \in passed
    <3>1. n \in Members /\ n \in wanted
      BY <1>9
    <3>2. len # 0
      BY <1>10, <1>12, <2>1, <2>2
    <3>3. start \in got /\ start \in Members /\ len - 1 \in 0..(len - 1) /\ (len - 1) + 1 = len
      BY <1>12, <1>20, <3>2
    <3>4. ~Ahead(reverse, start, n)
      <4>1. SUFFICES ASSUME Ahead(reverse, start, n) PROVE FALSE
        OBVIOUS
      <4>2. Ahead(reverse, at[len - 1], n)
        BY <1>19, <2>2, <3>1, <3>3, <4>1
      <4>3. at[len] \in Members /\ (n = at[len] \/ Ahead(reverse, at[len], n))
        BY <1>17, <3>1, <3>3, <4>2
      <4>4. Ahead(reverse, at[len], n)
        BY <2>1, <3>1, <4>3
      <4>5. at[len].key \in Int /\ n.key \in Int /\ IF reverse THEN n.key <= at[len].key ELSE at[len].key <= n.key
        BY <1>8, <1>16, <3>1, <4>3, <4>4
      <4>6. IF reverse THEN k2 <= n.key ELSE n.key <= k2
        BY <1>9, <3>1
      <4>7. IF reverse THEN k2 <= at[len].key ELSE at[len].key <= k2
        BY <4>5, <4>6
      <4>. QED BY <1>9, <2>1, <4>3, <4>7
    <3>5. Ahead(reverse, n, start)
      BY <1>16, <2>2, <3>1, <3>3, <3>4
    <3>6. IF reverse THEN Before(start, n) ELSE Before(n, start)
      BY <1>24, <3>1, <3>3, <3>5
    <3>. QED BY <1>23, <2>2, <3>3, <3>6
  <2>3. passed \subseteq InRange(k1, k2)
    BY <1>23
  <2>. QED BY <1>21, <2>2, <2>3
<1>28. InOrder(result, k1 > k2)
  BY <1>3, <1>22 DEF InOrder
<1>29. passed = {n \in InRange(k1, k2) \ got : \E m \in got : IF k1 > k2 THEN Before(m, n) ELSE Before(n, m)}
  BY <1>3, <1>23
<1>. QED BY <1>5, <1>13, <1>14, <1>21, <1>25, <1>26, <1>27, <1>28, <1>29 DEF RangeRight

\* So are skiplist_get and skiplist_range in every list with the invariant.
LEMMA InvRange == SkipInv => RangeOmitsOnlyEqual
<1>1. SUFFICES ASSUME SkipInv PROVE RangeOmitsOnlyEqual
  OBVIOUS
<1>2. Keys \subseteq Int
  BY SkipAssumption
<1>3. \A k \in Keys : IF Equal(k) = {} THEN SkipGet(k) = NoNode ELSE SkipGet(k) \in Equal(k)
  BY <1>1, <1>2, KeyHit DEF SkipGet
<1>4. \A limit \in 0..Cardinality(Members) : limit \in Nat
  OBVIOUS
<1>5. \A k1, k2 \in Keys, limit \in 0..Cardinality(Members) : RangeRight(k1, k2, limit)
  BY <1>1, <1>2, <1>4, RangeIs
<1>. QED BY <1>3, <1>5 DEF RangeOmitsOnlyEqual, RangeRight, InRange

\* skiplist_get finds a key that is there, and skiplist_range returns what lies
\* between its keys in their order, having passed over values of the first key
\* only, after every series of calls.
THEOREM RangesAreRight == SkipSpec => []RangeOmitsOnlyEqual
  BY SkipInvHolds, InvRange, PTL

=============================================================================
