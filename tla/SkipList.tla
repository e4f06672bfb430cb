------------------------------ MODULE SkipList ------------------------------
(* The skip list of src/src/skiplist.c.  Every node has one next pointer per *)
(* level it was given at random, and one prev pointer.  A node is named by   *)
(* its value, or by the key alone where the list has no second comparison,   *)
(* as nothing else of two nodes is ever compared.                            *)
EXTENDS Integers, Sequences, FiniteSets

CONSTANTS
    Keys,       \* what compare tells apart
    Tags,       \* what compare2 tells apart among values of one key
    MaxLevel,   \* SKIP_LIST_MAX_LEVEL
    ListHead, NoNode    \* the head, and NULL

\* Every node is named by a value or by a key.
Elements == [key : Keys, tag : Tags]
AnyName == Elements \cup [key : Keys]

ASSUME SkipAssumption ==
    /\ Keys \subseteq Int /\ Tags \subseteq Int /\ MaxLevel \in Nat \ {0}
    /\ ListHead \notin AnyName \cup {NoNode} /\ NoNode \notin AnyName

VARIABLES
    compare2,   \* whether a second comparison was given to open_skiplist
    nodes,      \* node -> value, prev and the next pointers of its levels
    level, length,
    removed     \* what skiplist_remove returned, after it

skipVars == <<compare2, nodes, level, length, removed>>

Node(v) == IF compare2 THEN v ELSE [key |-> v.key]
Levels == 1..MaxLevel
Members == DOMAIN nodes \ {ListHead}
KeyOf(n) == nodes[n].value.key

SetPrev(ns, n, v) == IF n = NoNode THEN ns ELSE [ns EXCEPT ![n].prev = v]

AtLevel(l) == {n \in DOMAIN nodes : l \in DOMAIN nodes[n].next}

(* The last node of level l that compares lower, from p on *)
Advance(p, l, lower) ==
    LET from[n \in AtLevel(l)] ==
          IF nodes[n].next[l] \in lower THEN from[nodes[n].next[l]] ELSE n
    IN  from[p]

(* prev[l] of the descent from the top level, for every level *)
Descent(lower) ==
    LET prev[l \in 1..(level + 1)] ==
          IF l > level THEN ListHead ELSE Advance(prev[l + 1], l, lower)
    IN  prev

(* The node of this set the descent meets first, or NoNode *)
Hit(prev, equal) ==
    LET hits == {l \in 1..level : nodes[prev[l]].next[l] \in equal} IN
    IF hits = {} THEN NoNode
    ELSE LET top == CHOOSE l \in hits : \A other \in hits : other <= l
         IN  nodes[prev[top]].next[top]

Lower(k) == {n \in Members : KeyOf(n) < k}
Equal(k) == {n \in Members : KeyOf(n) = k}
UpTo(k) == {n \in Members : KeyOf(n) <= k}

-----------------------------------------------------------------------------

EmptyList == [n \in {ListHead} |-> [value |-> NoNode, prev |-> NoNode, next |-> [l \in Levels |-> NoNode]]]

SkipInit ==
    /\ compare2 \in BOOLEAN
    /\ nodes = EmptyList /\ level = 1 /\ length = 0 /\ removed = 0

SkipClear ==
    /\ nodes' = EmptyList /\ level' = 1 /\ length' = 0 /\ removed' = 0
    /\ UNCHANGED compare2

LowerThan(v) == Lower(v.key) \cup
    {n \in Equal(v.key) : compare2 /\ nodes[n].value.tag < v.tag}
\* The second comparison is forgotten.
SameAsByKey(v) == Equal(v.key)

SameAs(v) == {n \in Equal(v.key) : compare2 => nodes[n].value.tag = v.tag}

(* skiplist_set of a value that is there *)
Overwrite(v) ==
    LET node == Hit(Descent(LowerThan(v)), SameAs(v)) IN
    /\ node # NoNode
    /\ nodes' = [nodes EXCEPT ![node].value = v]
    /\ removed' = 0
    /\ UNCHANGED <<compare2, level, length>>

(* A new node of h levels is linked after prev[l] on each of them, and after  *)
(* the head on the levels that are new                                        *)
Linked(n, v, h, prev) ==
    LET after(l) == IF l <= level THEN prev[l] ELSE ListHead
        new == [value |-> v, prev |-> prev[1],
                next |-> [l \in 1..h |-> IF l <= level THEN nodes[prev[l]].next[l] ELSE NoNode]]
        old == SetPrev(nodes, nodes[prev[1]].next[1], n)
    IN  [m \in DOMAIN nodes \cup {n} |->
            IF m = n THEN new
            ELSE [old[m] EXCEPT !.next = [l \in DOMAIN @ |->
                    IF l <= h /\ after(l) = m THEN n ELSE @[l]]]]

Insert(v, h) ==
    LET prev == Descent(LowerThan(v)) IN
    /\ Hit(prev, SameAs(v)) = NoNode
    /\ nodes' = Linked(Node(v), v, h, prev)
    /\ level' = IF h > level THEN h ELSE level
    /\ length' = length + 1 /\ removed' = 0
    /\ UNCHANGED compare2

(* Per level from the highest that leads to a key not below key1: the run up  *)
(* to key2 is taken out, and a level that has become empty is given up        *)
Cut(prev, k2) ==
    LET rest(l) == nodes[Advance(prev[l], l, UpTo(k2))].next[l]
    IN  [n \in DOMAIN nodes |->
            [nodes[n] EXCEPT !.next = [l \in DOMAIN @ |->
                IF l <= level /\ prev[l] = n THEN rest(l) ELSE @[l]]]]

\* Levels that have become empty stay.
LevelAfterKept(cut, top) == level

LevelAfter(cut, top) ==
    LET left == {l \in 1..level : l = 1 \/ l > top \/ cut[ListHead].next[l] # NoNode}
    IN  CHOOSE l \in left : \A m \in left : m <= l

SkipRemove(key1, key2) ==
    LET k1 == IF key1 > key2 THEN key2 ELSE key1
        k2 == IF key1 > key2 THEN key1 ELSE key2
        prev == Descent(Lower(k1))
        reaching == {l \in 1..level : nodes[prev[l]].next[l] # NoNode}
        gone == UpTo(k2) \ Lower(k1)
        cut == Cut(prev, k2)
        freed == [n \in DOMAIN nodes \ gone |-> cut[n]]
    IN  /\ nodes' = SetPrev(freed, cut[prev[1]].next[1], prev[1])
        /\ level' = IF reaching = {} THEN level
                    ELSE LevelAfter(cut, CHOOSE l \in reaching : \A m \in reaching : m <= l)
        /\ length' = length - Cardinality(gone)
        /\ removed' = Cardinality(gone)
        /\ UNCHANGED compare2

SkipNext ==
    \/ SkipClear
    \/ \E v \in Elements : Overwrite(v)
    \/ \E v \in Elements, h \in Levels : Insert(v, h)
    \/ \E k1 \in Keys, k2 \in Keys : SkipRemove(k1, k2)

SkipSpec == SkipInit /\ [][SkipNext]_skipVars

-----------------------------------------------------------------------------
(* The operations that only read.                                            *)

SkipGet(k) == Hit(Descent(Lower(k)), Equal(k))

\* A range downwards starts after the key, too.
FastGetAlwaysNext(k, reverse) ==
    LET prev == Descent(Lower(k)) IN
    IF Hit(prev, Equal(k)) # NoNode THEN Hit(prev, Equal(k)) ELSE nodes[prev[1]].next[1]

(* The node with the key, or its neighbour: the one before in descending and  *)
(* the one after in ascending order                                           *)
FastGet(k, reverse) ==
    LET prev == Descent(Lower(k)) IN
    IF Hit(prev, Equal(k)) # NoNode THEN Hit(prev, Equal(k))
    ELSE IF reverse THEN prev[1] ELSE nodes[prev[1]].next[1]

(* The nodes from n on while they are wanted, up to the limit: at[i] is where  *)
(* the loop stands once it has taken i                                         *)
Collect(n, reverse, wanted, limit) ==
    LET at[i \in 0..limit] ==
          IF i = 0 THEN n
          ELSE LET m == at[i - 1] IN
               IF m \notin wanted THEN m
               ELSE IF reverse THEN nodes[m].prev ELSE nodes[m].next[1]
        len == CHOOSE k \in 0..limit : /\ k = limit \/ at[k] \notin wanted
                                       /\ \A i \in 0..(k - 1) : at[i] \in wanted
    IN  [i \in 1..len |-> at[i - 1]]

SkipRange(k1, k2, limit) ==
    IF k1 > k2 THEN Collect(FastGet(k1, TRUE), TRUE, Members \ Lower(k2), limit)
               ELSE Collect(FastGet(k1, FALSE), FALSE, UpTo(k2), limit)

-----------------------------------------------------------------------------

(* The types of the variables, a part of LevelsNested. *)
SkipTypeOK ==
    /\ compare2 \in BOOLEAN
    /\ \A n \in Members :
          /\ nodes[n].value \in Elements
          /\ nodes[n].prev \in DOMAIN nodes
          /\ \A l \in DOMAIN nodes[n].next : nodes[n].next[l] \in Members \cup {NoNode}
    /\ level \in Levels /\ length \in Nat /\ removed \in Nat

Height(n) == Len(nodes[n].next)
Before(m, n) == \/ KeyOf(m) < KeyOf(n)
                \/ KeyOf(m) = KeyOf(n) /\ nodes[m].value.tag < nodes[n].value.tag
(* The nodes of level l behind n, which the next pointer must reach first *)
Behind(n, l) == {m \in Members : Height(m) >= l /\ (n = ListHead \/ Before(n, m))}

(* Each level links exactly the nodes tall enough for it, in order; prev       *)
(* mirrors the lowest level; `level` is the highest level in use and length is *)
(* the number of nodes: skiplist_set and skiplist_remove, whichever levels     *)
(* the random numbers gave the nodes.                                          *)
LevelsNested ==
    /\ SkipTypeOK
    /\ \A n \in DOMAIN nodes : \A l \in DOMAIN nodes[n].next :
          LET m == nodes[n].next[l] IN
          IF Behind(n, l) = {} THEN m = NoNode
          ELSE m \in Behind(n, l) /\ \A other \in Behind(n, l) \ {m} : Before(m, other)
    /\ \A n \in Members : nodes[nodes[n].prev].next[1] = n
    /\ \A n \in Members : Height(n) <= level
    /\ level > 1 => Behind(ListHead, level) # {}
    /\ length = Cardinality(Members)

Ordered == INSTANCE OrderedSpec WITH entries <- {nodes[n].value : n \in Members}

(* skiplist_set, skiplist_remove and skiplist_clear do to the list what their  *)
(* names say to the set of its values, and removal counts what it removed.     *)
SkipListSpec == Ordered!Spec

InOrder(s, reverse) ==
    \A i \in 1..(Len(s) - 1) : IF reverse THEN Before(s[i + 1], s[i]) ELSE Before(s[i], s[i + 1])

(* skiplist_get finds a key that is there.  skiplist_range returns a           *)
(* contiguous run of what lies between its keys, in the order they are given,  *)
(* up to the limit; where it starts late it has passed over values of the      *)
(* first key only, and never all of them.                                      *)
RangeOmitsOnlyEqual ==
    /\ \A k \in Keys : IF Equal(k) = {} THEN SkipGet(k) = NoNode ELSE SkipGet(k) \in Equal(k)
    /\ \A k1, k2 \in Keys, limit \in 0..Cardinality(Members) :
          LET reverse == k1 > k2
              between == {n \in Members : IF reverse THEN k2 <= KeyOf(n) /\ KeyOf(n) <= k1
                                                     ELSE k1 <= KeyOf(n) /\ KeyOf(n) <= k2}
              result == SkipRange(k1, k2, limit)
              got == {result[i] : i \in 1..Len(result)}
              passed == {n \in between \ got :
                          \E m \in got : IF reverse THEN Before(m, n) ELSE Before(n, m)}
          IN  /\ got \subseteq between /\ InOrder(result, reverse)
              /\ passed \subseteq Equal(k1)
              /\ limit > 0 /\ Equal(k1) # {} => got \cap Equal(k1) # {}
              /\ Len(result) < limit => between = got \cup passed

=============================================================================
