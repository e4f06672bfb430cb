----------------------------- MODULE LinkedList -----------------------------
(* The linked lists of src/src/link.c and the typed copy of the first in     *)
(* src/include/link_tpl.h.  llist has an optional allocator, with or without *)
(* a way to free (the interpreter's lists live in a storage that is freed as *)
(* a whole); dllist links both ways.                                         *)
EXTENDS Integers, Sequences, FiniteSets

CONSTANTS
    ListValues, \* what is pushed
    MaxListLen,     \* bound on the length of a list, for model checking
    head, NoLink    \* the node embedded in the list, and no node

ASSUME ListAssumption ==
    head \notin Nat /\ NoLink \notin Nat \cup {head, "NEW", "alloc", "llist", "dllist"}

VARIABLES
    kind,       \* "llist" or "dllist"
    allocator,  \* "none", or "alloc" without and "both" with a way to free
    listNodes,      \* node -> value, next and prev
    tail, listLength,
    held,       \* memory not given back: block -> "NEW" or "alloc"
    pushed      \* ghost: the values pushed since the list was last empty

listVars == <<kind, allocator, listNodes, tail, listLength, held, pushed>>

ListNode(value, prev) == [value |-> value, next |-> NoLink, prev |-> prev]
HeadOnly == [n \in {head} |-> ListNode(NoLink, head)]

New == IF allocator = "none" THEN "NEW" ELSE "alloc"

\* free() takes what the allocator gave when it has no free of its own.
DeleterAlways == IF allocator = "both" THEN "alloc" ELSE "NEW"

(* delete: the allocator's free, or free() where there is no allocator; a     *)
(* block given to the wrong one of them is corrupt                            *)
Deleter == CASE allocator = "both" -> "alloc"
             [] allocator = "none" -> "NEW"
             [] OTHER -> NoLink

AfterDelete(blocks) ==
    LET kept == {b \in DOMAIN held : b \notin blocks \/ Deleter # held[b]} IN
    [b \in kept |-> IF b \in blocks /\ Deleter # NoLink THEN "corrupt" ELSE held[b]]

-----------------------------------------------------------------------------

(* open_llist, open_llist_with_allocator and open_dllist; the list's own      *)
(* block is number 0.  A storage that gave the last list its memory is     *)
(* disposed of before.                                                        *)
Open(k, alloc) ==
    /\ kind = NoLink /\ (k = "dllist" => alloc = "none")
    /\ kind' = k /\ allocator' = alloc
    /\ listNodes' = HeadOnly /\ tail' = head /\ listLength' = 0 /\ pushed' = << >>
    /\ held' = [b \in {0} |-> IF alloc = "none" THEN "NEW" ELSE "alloc"]

(* A block that is not in use; which one does not matter *)
FreshBlock == CHOOSE n \in 1..(Cardinality(DOMAIN held) + 1) : n \notin DOMAIN held

PushBack(v) ==
    /\ kind # NoLink /\ listLength < MaxListLen /\ Cardinality(DOMAIN held) <= MaxListLen + 1
    /\ LET linked == [listNodes EXCEPT ![tail].next = FreshBlock] IN
       listNodes' = [n \in DOMAIN listNodes \cup {FreshBlock} |->
                   IF n = FreshBlock THEN ListNode(v, tail) ELSE linked[n]]
    /\ held' = [b \in DOMAIN held \cup {FreshBlock} |-> IF b = FreshBlock THEN New ELSE held[b]]
    /\ tail' = FreshBlock /\ listLength' = listLength + 1
    /\ pushed' = Append(pushed, v)
    /\ UNCHANGED <<kind, allocator>>

(* The nodes a walk along next visits, and those a walk along prev visits     *)
Walk ==
    LET from[n \in DOMAIN listNodes \cup {NoLink}] ==
          IF n = NoLink THEN << >> ELSE <<n>> \o from[listNodes[n].next]
    IN  from[listNodes[head].next]

WalkBack ==
    LET from[n \in DOMAIN listNodes] ==
          IF n = head THEN << >> ELSE <<n>> \o from[listNodes[n].prev]
    IN  from[tail]

Visited == {Walk[i] : i \in 1..Len(Walk)}

ListClear ==
    /\ kind # NoLink
    /\ listNodes' = [HeadOnly EXCEPT ![head].prev = listNodes[head].prev]
    /\ held' = AfterDelete(Visited)
    /\ tail' = head /\ listLength' = 0 /\ pushed' = << >>
    /\ UNCHANGED <<kind, allocator>>

ListClose ==
    /\ kind # NoLink
    /\ listNodes' = HeadOnly /\ tail' = head /\ listLength' = 0 /\ pushed' = << >>
    /\ held' = AfterDelete(Visited \cup {0})
    /\ kind' = NoLink
    /\ UNCHANGED allocator

(* llist_traversal and dlist_traversal: the callback stops the walk by its    *)
(* answer, having seen the value it stops at                                  *)
Stopped(walk, stop) ==
    LET at == {i \in 1..Len(walk) : listNodes[walk[i]].value = stop} IN
    IF at = {} THEN walk
    ELSE SubSeq(walk, 1, CHOOSE i \in at : \A j \in at : i <= j)

Traversed(reverse, stop) == Stopped(IF reverse THEN WalkBack ELSE Walk, stop)

ListInit ==
    /\ kind = NoLink /\ allocator = "none" /\ listNodes = HeadOnly
    /\ tail = head /\ listLength = 0 /\ held = [b \in {} |-> NoLink] /\ pushed = << >>

ListNext ==
    \/ \E k \in {"llist", "dllist"}, alloc \in {"none", "alloc", "both"} : Open(k, alloc)
    \/ \E v \in ListValues : PushBack(v)
    \/ ListClear \/ ListClose

ListsSpec == ListInit /\ [][ListNext]_listVars

-----------------------------------------------------------------------------

Mirrored(s) == [i \in 1..Len(s) |-> s[Len(s) + 1 - i]]
ValuesAt(walk) == [i \in 1..Len(walk) |-> listNodes[walk[i]].value]

\* A walk over s sees everything up to and with the first `stop`.
SeenUntil(s, stop) ==
    IF \E i \in 1..Len(s) : s[i] = stop
    THEN {n \in 1..Len(s) : s[n] = stop /\ \A i \in 1..(n - 1) : s[i] # stop}
    ELSE {Len(s)}

(* Whatever was pushed, cleared and pushed again, the forward walk and, for a  *)
(* dllist, the reverse one see the pushed values in their order, up to and     *)
(* with the one the callback stops at; and what delete gave back is just the   *)
(* nodes no longer in the list, each to the allocator it came from: closing a  *)
(* list leaves nothing.                                                        *)
WalksSeeThePushed ==
    /\ kind # NoLink =>
        /\ \A stop \in ListValues \cup {NoLink} :
              /\ \A n \in SeenUntil(pushed, stop) : ValuesAt(Traversed(FALSE, stop)) = SubSeq(pushed, 1, n)
              /\ kind = "dllist" => \A n \in SeenUntil(Mirrored(pushed), stop) :
                    ValuesAt(Traversed(TRUE, stop)) = SubSeq(Mirrored(pushed), 1, n)
        /\ listLength = Len(pushed)
        /\ \A b \in DOMAIN held : held[b] = New
        /\ Deleter # NoLink => DOMAIN held = Visited \cup {0}
    /\ kind = NoLink /\ Deleter # NoLink => DOMAIN held = {}

=============================================================================
