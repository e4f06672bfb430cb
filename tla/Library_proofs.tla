---------------------------- MODULE Library_proofs ----------------------------
(***************************************************************************)
(* Theorems about the parts of src/src: the memory debugger and its storages *)
(* (MemStorage), the binary heap (Heap), the linked lists (LinkedList) and   *)
(* the sorts (Sorting).                                                     *)
(* For every set of addresses and of storages, the list of all blocks is     *)
(* exact, and what the storages hand out stays apart.  Both invariants say   *)
(* that a list exists; what makes them inductive is how that list changes    *)
(* with a step (Listed for the blocks, PageLists for the storages' pages)    *)
(* and that a page is a block of its size that no client may free (Owned).   *)
(* HeapInv and ListInv are the invariants of the heap and of the lists.  A    *)
(* sort is a loop of loops: each has an invariant, kept by its step, and a    *)
(* bound on its rounds.                                                     *)
(***************************************************************************)
EXTENDS MemStorage, Heap, LinkedList, Sorting, FiniteSetTheorems, SequenceTheorems,
        WellFoundedInduction, TLAPS

-----------------------------------------------------------------------------
(* Induction and tables. *)


\* Induction over the natural numbers, as a fact about sets.
LEMMA NatSets ==
    ASSUME NEW T \in SUBSET Nat, 0 \in T, \A n \in T : n + 1 \in T
    PROVE  T = Nat
<1>1. SUFFICES ASSUME T # Nat PROVE FALSE
  OBVIOUS
<1> DEFINE U == Nat \ T
           R == {ss \in Nat \X Nat : ss[1] < ss[2]}
<1>2. U # {} /\ U \subseteq Nat
  BY <1>1
<1>3. IsWellFoundedOn(R, Nat)
  BY NatLessThanWellFounded DEF OpToRel
<1>4. \E x \in U : \A y \in U : <<y, x>> \notin R
  <2> HIDE DEF R
  <2> QED
    BY <1>2, <1>3, WFMin
<1>5. PICK x \in U : \A y \in U : <<y, x>> \notin R
  BY <1>4
<1>6. \A y \in U : ~(y < x)
  BY <1>5
<1>7. x # 0 /\ x - 1 \in Nat /\ x - 1 \in T
  BY <1>6
<1> QED
  BY <1>7

\* A table whose entries depend on entries before them exists.
Filled(n, X, x0, H, pr, f) ==
    f \in [0..n -> X] /\ f[0] = x0 /\ \A i \in 1..n : f[i] = H[<<i, f[pr[i]]>>]

\* There is such a table, whatever the entries are.
LEMMA FromBelow ==
    ASSUME NEW n \in Nat, NEW X, NEW x0 \in X, NEW H \in [(1..n) \X X -> X],
           NEW pr \in [1..n -> Nat], \A i \in 1..n : pr[i] < i
    PROVE  \E f : Filled(n, X, x0, H, pr, f)
<1> DEFINE Upto(k, f) == /\ f \in [0..n -> X] /\ f[0] = x0
                         /\ \A i \in 1..n : i <= k => f[i] = H[<<i, f[pr[i]]>>]
           T == {k \in Nat : k <= n => \E f : Upto(k, f)}
<1>1. 0 \in T
  <2> DEFINE f == [i \in 0..n |-> x0]
  <2>1. Upto(0, f)
    OBVIOUS
  <2>. QED BY <2>1
<1>2. ASSUME NEW k \in T PROVE k + 1 \in T
  <2>1. SUFFICES ASSUME k + 1 <= n PROVE \E f : Upto(k + 1, f)
    OBVIOUS
  <2>2. k \in Nat /\ k + 1 \in 1..n /\ k <= n
    BY <2>1
  <2>3. PICK f : Upto(k, f)
    BY <2>2
  <2>4. pr[k + 1] \in 0..n /\ f[pr[k + 1]] \in X /\ H[<<k + 1, f[pr[k + 1]]>>] \in X
    <3>1. pr[k + 1] \in Nat /\ pr[k + 1] < k + 1
      BY <2>2
    <3>2. pr[k + 1] \in 0..n
      BY <2>2, <3>1
    <3>3. f[pr[k + 1]] \in X
      BY <2>3, <3>2
    <3>4. <<k + 1, f[pr[k + 1]]>> \in (1..n) \X X
      BY <2>2, <3>3
    <3>. QED BY <3>2, <3>3, <3>4
  <2> DEFINE y == H[<<k + 1, f[pr[k + 1]]>>]
             g == [f EXCEPT ![k + 1] = y]
  <2>5. /\ g \in [0..n -> X] /\ g[0] = x0 /\ g[k + 1] = y
        /\ \A i \in 0..n : i # k + 1 => g[i] = f[i]
    <3>1. y \in X /\ k + 1 \in 0..n /\ k + 1 # 0
      BY <2>2, <2>4
    <3> HIDE DEF y
    <3>. QED BY <2>3, <3>1
  <2>6. ASSUME NEW i \in 1..n, i <= k + 1 PROVE g[i] = H[<<i, g[pr[i]]>>]
    <3>1. pr[i] \in 0..n /\ pr[i] # k + 1
      BY <2>2, <2>6
    <3>2. g[pr[i]] = f[pr[i]]
      BY <2>5, <3>1
    <3>3. CASE i = k + 1
      BY <2>5, <3>2, <3>3
    <3>4. CASE i # k + 1
      <4>1. i <= k /\ i \in 0..n
        BY <2>2, <2>6, <3>4
      <4>. QED BY <2>3, <2>5, <3>2, <3>4, <4>1
    <3>. QED BY <3>3, <3>4
  <2>7. Upto(k + 1, g)
    <3> HIDE DEF g
    <3>. QED BY <2>5, <2>6
  <2>. QED BY <2>7
<1>3. T = Nat
  <2> HIDE DEF T
  <2>1. T \in SUBSET Nat
    BY DEF T
  <2>. QED BY <1>1, <1>2, <2>1, NatSets
<1>4. \E f : Upto(n, f)
  <2>1. n \in T
    BY <1>3
  <2> HIDE DEF Upto
  <2>. QED BY <2>1
<1>5. PICK f : Upto(n, f)
  BY <1>4
<1>. QED BY <1>5 DEF Filled

-----------------------------------------------------------------------------
(* Blocks and storages: MemStorage. *)

Listed == \E n \in Nat : \E s \in [1..n -> Live] : Lists(s, n)

BlocksOK ==
    /\ Live \subseteq Addrs
    /\ blocks \in [Live -> Header]
    /\ block_header \in Pointer
    /\ IsFiniteSet(Live)
    /\ Listed

\* A storage is closed or has a block of its own, and a page is a block that
\* is no storage's.
Owned ==
    /\ DOMAIN pages \subseteq Live
    /\ StoreBlocks \subseteq Live \ DOMAIN pages
    /\ \A st \in Storages : stores[st].block = NULL => stores[st] = Closed
    /\ \A st, other \in Storages :
          stores[st].block = stores[other].block => st = other \/ stores[st] = Closed
    /\ disposing # NULL => stores[disposing] # Closed

\* The cells handed out of a page follow each other up to those in use.
RunsFit ==
    \A p \in DOMAIN pages :
       /\ pages[p].use_cell_num <= pages[p].cell_num
       /\ pages[p].cell_num = blocks[p].size
       /\ \A i \in 1..Len(cells[p]) :
             /\ cells[p][i].first + cells[p][i].num <= pages[p].use_cell_num
             /\ \A j \in 1..Len(cells[p]) :
                   i < j => cells[p][i].first + cells[p][i].num <= cells[p][j].first

\* l is the list of pages at head.
PageList(l, first, ps) ==
    /\ first = IF l = << >> THEN NULL ELSE l[1]
    /\ \A i \in 1..Len(l) : ps[l[i]].next = IF i = Len(l) THEN NULL ELSE l[i + 1]

\* Every page is on one storage's list, once.
PageLists(q) ==
    /\ \A st \in Storages : PageList(q[st], stores[st].page_list, pages)
    /\ \A p \in DOMAIN pages : \E st \in Storages : \E i \in 1..Len(q[st]) : q[st][i] = p
    /\ \A st, other \in Storages : \A i \in 1..Len(q[st]), j \in 1..Len(q[other]) :
          q[st][i] = q[other][j] => st = other /\ i = j

Paged == \E q \in [Storages -> Seq(DOMAIN pages)] : PageLists(q)

IInv == MemTypeOK /\ BlocksOK /\ Owned /\ RunsFit /\ Paged

-----------------------------------------------------------------------------
(* The list of all blocks. *)

\* Changing one link of a block changes no other field, here or elsewhere.
LEMMA NextChange ==
    ASSUME NEW D, NULL \notin D, NEW bs \in [D -> Header], NEW a, NEW v \in Pointer
    PROVE  /\ WithNext(bs, a, v) \in [D -> Header]
           /\ \A x \in D :
                 /\ WithNext(bs, a, v)[x].next = IF x = a THEN v ELSE bs[x].next
                 /\ WithNext(bs, a, v)[x].prev = bs[x].prev
                 /\ WithNext(bs, a, v)[x].size = bs[x].size
                 /\ WithNext(bs, a, v)[x].mark = bs[x].mark
  BY DEF WithNext, Header

\* The same for the other link.
LEMMA PrevChange ==
    ASSUME NEW D, NULL \notin D, NEW bs \in [D -> Header], NEW a, NEW v \in Pointer
    PROVE  /\ WithPrev(bs, a, v) \in [D -> Header]
           /\ \A x \in D :
                 /\ WithPrev(bs, a, v)[x].prev = IF x = a THEN v ELSE bs[x].prev
                 /\ WithPrev(bs, a, v)[x].next = bs[x].next
                 /\ WithPrev(bs, a, v)[x].size = bs[x].size
                 /\ WithPrev(bs, a, v)[x].mark = bs[x].mark
  BY DEF WithPrev, Header

\* What a list says of its ends and its members.
LEMMA ListFacts ==
    ASSUME BlocksOK
    PROVE  \E n \in Nat : \E s \in [1..n -> Live] :
              /\ Lists(s, n)
              /\ n = 0 => Live = {} /\ block_header = NULL
              /\ n # 0 => block_header = s[1] /\ block_header \in Live
<1>0. PICK n \in Nat : \E s \in [1..n -> Live] : Lists(s, n)
  BY DEF BlocksOK, Listed
<1>1. PICK s \in [1..n -> Live] : Lists(s, n)
  BY <1>0
<1>2. n = 0 => Live = {} /\ block_header = NULL
  BY <1>1 DEF Lists
<1>3. n # 0 => block_header = s[1] /\ block_header \in Live
  BY <1>1 DEF Lists
<1> QED
  BY <1>1, <1>2, <1>3

\* chain_block: a new block is first.
LEMMA Chained ==
    ASSUME BlocksOK, NEW a \in Addrs, a \notin Live, NEW size \in Nat, ChainBlock(a, size)
    PROVE  /\ BlocksOK'
           /\ Live' = Live \cup {a} /\ blocks'[a].size = size
           /\ \A x \in Live : blocks'[x].size = blocks[x].size
<1> DEFINE bs == WithPrev(blocks, block_header, a)
           h == Marked(size, NULL, block_header)
<1>1. Live \subseteq Addrs /\ blocks \in [Live -> Header] /\ block_header \in Pointer
      /\ IsFiniteSet(Live) /\ a \in Pointer /\ a # NULL /\ NULL \notin Live
  BY NullAssumption DEF BlocksOK, Pointer
<1>0. PICK n \in Nat : \E s \in [1..n -> Live] :
              /\ Lists(s, n)
              /\ n = 0 => Live = {} /\ block_header = NULL
              /\ n # 0 => block_header = s[1] /\ block_header \in Live
  BY ListFacts
<1>2. PICK s \in [1..n -> Live] :
              /\ Lists(s, n)
              /\ n = 0 => Live = {} /\ block_header = NULL
              /\ n # 0 => block_header = s[1] /\ block_header \in Live
  BY <1>0
<1>3. bs \in [Live -> Header] /\ DOMAIN bs = Live
      /\ \A x \in Live : /\ bs[x].prev = IF x = block_header THEN a ELSE blocks[x].prev
                         /\ bs[x].next = blocks[x].next
                         /\ bs[x].size = blocks[x].size /\ bs[x].mark = blocks[x].mark
  BY <1>1, PrevChange
<1>4. h \in Header /\ h.next = block_header /\ h.prev = NULL /\ h.mark = h.size /\ h.size = size
  BY <1>1 DEF Header, Marked, Pointer
<1>5. blocks' = [b \in Live \cup {a} |-> IF b = a THEN h ELSE bs[b]] /\ block_header' = a
  BY <1>3 DEF ChainBlock, With
<1> HIDE DEF bs, h
<1>6. Live' = Live \cup {a} /\ blocks' \in [Live' -> Header] /\ blocks'[a] = h
      /\ \A x \in Live : blocks'[x] = bs[x]
  BY <1>1, <1>3, <1>4, <1>5 DEF Live
<1>7. \A x \in Live : /\ blocks'[x].size = blocks[x].size /\ blocks'[x].mark = blocks[x].mark
                      /\ blocks'[x].next = blocks[x].next
                      /\ blocks'[x].prev = IF x = block_header THEN a ELSE blocks[x].prev
  BY <1>3, <1>6
<1> DEFINE t == [i \in 1..n + 1 |-> IF i = 1 THEN a ELSE s[i - 1]]
<1>8. t \in [1..n + 1 -> Live'] /\ t[1] = a /\ \A i \in 1..n : t[i + 1] = s[i]
  BY <1>6
<1>9. \A i \in 1..n + 1 : i = 1 \/ (i - 1 \in 1..n /\ t[i] = s[i - 1])
  BY <1>8
<1> HIDE DEF t
<1>10. Lists(t, n + 1)'
  <2>1. \A x \in Live' : \E i \in 1..n + 1 : t[i] = x
    <3> TAKE x \in Live'
    <3>1. CASE x = a
      BY <1>8, <3>1
    <3>2. CASE x \in Live
      <4>1. PICK i \in 1..n : s[i] = x
        BY <1>2, <3>2 DEF Lists
      <4> QED
        BY <1>8, <4>1
    <3> QED
      BY <1>6, <3>1, <3>2
  <2>2. \A i, j \in 1..n + 1 : t[i] = t[j] => i = j
    <3> TAKE i, j \in 1..n + 1
    <3> HAVE t[i] = t[j]
    <3>1. \A k \in 1..n : s[k] # a
      OBVIOUS
    <3> QED
      BY <1>2, <1>8, <1>9, <3>1 DEF Lists
  <2>3. ASSUME NEW i \in 1..n + 1
        PROVE  /\ blocks'[t[i]].next = IF i = n + 1 THEN NULL ELSE t[i + 1]
               /\ blocks'[t[i]].prev = IF i = 1 THEN NULL ELSE t[i - 1]
               /\ blocks'[t[i]].mark = blocks'[t[i]].size
    <3>1. CASE i = 1
      <4>1. block_header = IF n = 0 THEN NULL ELSE s[1]
        BY <1>2
      <4>2. n # 0 => t[2] = s[1]
        BY <1>8
      <4> QED
        BY <1>4, <1>6, <1>8, <3>1, <4>1, <4>2
    <3>2. CASE i # 1
      <4> DEFINE k == i - 1
      <4>1. k \in 1..n /\ t[i] = s[k] /\ s[k] \in Live /\ n # 0
        BY <1>9, <3>2
      <4>2. /\ blocks[s[k]].next = IF k = n THEN NULL ELSE s[k + 1]
            /\ blocks[s[k]].prev = IF k = 1 THEN NULL ELSE s[k - 1]
            /\ blocks[s[k]].mark = blocks[s[k]].size
        BY <1>2, <4>1 DEF Lists
      <4>3. s[k] = block_header <=> k = 1
        BY <1>2, <4>1 DEF Lists
      <4>4. k # n => t[i + 1] = s[k + 1]
        BY <1>8, <4>1
      <4>5. k # 1 => t[i - 1] = s[k - 1]
        BY <1>9, <4>1
      <4>6. k = 1 => t[i - 1] = a
        BY <1>8
      <4> QED
        BY <1>7, <4>1, <4>2, <4>3, <4>4, <4>5, <4>6
    <3> QED
      BY <3>1, <3>2
  <2>4. block_header' = IF n + 1 = 0 THEN NULL ELSE t[1]
    BY <1>5, <1>8
  <2> QED
    BY <2>1, <2>2, <2>3, <2>4 DEF Lists
<1>11. Listed'
  BY <1>8, <1>10 DEF Listed
<1>12. IsFiniteSet(Live')
  BY <1>1, <1>6, FS_AddElement
<1> QED
  BY <1>1, <1>4, <1>5, <1>6, <1>7, <1>11, <1>12 DEF BlocksOK

\* unchain_block: the neighbours of a lead past it.
LEMMA UnchainedFields ==
    ASSUME BlocksOK, NEW a \in Live
    PROVE  /\ Unchained(a) \in [Live -> Header]
           /\ blocks \in [Live -> Header] /\ Live \subseteq Addrs /\ NULL \notin Live
           /\ blocks[a].prev \in Pointer /\ blocks[a].next \in Pointer
           /\ \A x \in Live :
                 /\ Unchained(a)[x].next = IF x = blocks[a].prev THEN blocks[a].next
                                                                 ELSE blocks[x].next
                 /\ Unchained(a)[x].prev = IF x = blocks[a].next THEN blocks[a].prev
                                                                 ELSE blocks[x].prev
                 /\ Unchained(a)[x].size = blocks[x].size
                 /\ Unchained(a)[x].mark = blocks[x].mark
<1>1. blocks \in [Live -> Header] /\ Live \subseteq Addrs /\ NULL \notin Live
  BY NullAssumption DEF BlocksOK
<1>2. blocks[a].prev \in Pointer /\ blocks[a].next \in Pointer
  BY <1>1 DEF Header
<1> DEFINE w == WithNext(blocks, blocks[a].prev, blocks[a].next)
<1>3. /\ w \in [Live -> Header]
      /\ \A x \in Live :
            /\ w[x].next = IF x = blocks[a].prev THEN blocks[a].next ELSE blocks[x].next
            /\ w[x].prev = blocks[x].prev
            /\ w[x].size = blocks[x].size
            /\ w[x].mark = blocks[x].mark
  BY <1>1, <1>2, NextChange
<1>4. Unchained(a) = WithPrev(w, blocks[a].next, blocks[a].prev)
  BY DEF Unchained
<1> HIDE DEF w
<1>5. /\ Unchained(a) \in [Live -> Header]
      /\ \A x \in Live :
            /\ Unchained(a)[x].prev = IF x = blocks[a].next THEN blocks[a].prev ELSE w[x].prev
            /\ Unchained(a)[x].next = w[x].next
            /\ Unchained(a)[x].size = w[x].size
            /\ Unchained(a)[x].mark = w[x].mark
  BY <1>1, <1>2, <1>3, <1>4, PrevChange
<1> QED
  BY <1>1, <1>2, <1>3, <1>5

\* Where a block stands in the list.
LEMMA PlaceInList ==
    ASSUME BlocksOK, NEW a \in Live
    PROVE  \E n \in Nat \ {0} : \E s \in [1..n -> Live] : \E k \in 1..n :
              /\ Lists(s, n) /\ s[k] = a
              /\ block_header = s[1]
              /\ \A i \in 1..n : s[i] \in Live /\ (s[i] = a <=> i = k)
              /\ \A i \in 1..n : s[i] = blocks[a].prev <=> i = k - 1
              /\ \A i \in 1..n : s[i] = blocks[a].next <=> i = k + 1
              /\ blocks[a].prev = IF k = 1 THEN NULL ELSE s[k - 1]
              /\ blocks[a].next = IF k = n THEN NULL ELSE s[k + 1]
              /\ blocks[a].prev = NULL <=> k = 1
<1>0. PICK n \in Nat : \E s \in [1..n -> Live] :
              /\ Lists(s, n)
              /\ n = 0 => Live = {} /\ block_header = NULL
              /\ n # 0 => block_header = s[1] /\ block_header \in Live
  BY ListFacts
<1>1. PICK s \in [1..n -> Live] :
              /\ Lists(s, n)
              /\ n = 0 => Live = {} /\ block_header = NULL
              /\ n # 0 => block_header = s[1] /\ block_header \in Live
  BY <1>0
<1>2. PICK k \in 1..n : s[k] = a
  BY <1>1 DEF Lists
<1>3. n \in Nat \ {0} /\ NULL \notin Live
  BY <1>2, UnchainedFields
<1>4. \A i, j \in 1..n : s[i] = s[j] => i = j
  BY <1>1 DEF Lists
<1>5. blocks[a].prev = (IF k = 1 THEN NULL ELSE s[k - 1])
      /\ blocks[a].next = (IF k = n THEN NULL ELSE s[k + 1])
  BY <1>1, <1>2 DEF Lists
<1>6. (k # 1 => k - 1 \in 1..n) /\ (k # n => k + 1 \in 1..n)
  BY <1>2, <1>3
<1>7. \A i \in 1..n : s[i] \in Live /\ (s[i] = a <=> i = k)
  BY <1>2, <1>4
<1>8. \A i \in 1..n : s[i] = blocks[a].prev <=> i = k - 1
  BY <1>3, <1>4, <1>5, <1>6, <1>7
<1>9. \A i \in 1..n : s[i] = blocks[a].next <=> i = k + 1
  BY <1>3, <1>4, <1>5, <1>6, <1>7
<1>10. blocks[a].prev = NULL <=> k = 1
  BY <1>3, <1>5, <1>6, <1>7
<1> QED
  BY <1>1, <1>2, <1>3, <1>5, <1>7, <1>8, <1>9, <1>10

\* MEM_free: the list closes over the block.
LEMMA Freed ==
    ASSUME BlocksOK, NEW a \in Live, FreeBlock(a)
    PROVE  /\ BlocksOK'
           /\ Live' = Live \ {a}
           /\ \A x \in Live' : blocks'[x].size = blocks[x].size
<1> DEFINE pa == blocks[a].prev
           na == blocks[a].next
<1>0. PICK n \in Nat \ {0} : \E s \in [1..n -> Live] : \E k \in 1..n :
              /\ Lists(s, n) /\ s[k] = a
              /\ block_header = s[1]
              /\ \A i \in 1..n : s[i] \in Live /\ (s[i] = a <=> i = k)
              /\ \A i \in 1..n : s[i] = pa <=> i = k - 1
              /\ \A i \in 1..n : s[i] = na <=> i = k + 1
              /\ pa = IF k = 1 THEN NULL ELSE s[k - 1]
              /\ na = IF k = n THEN NULL ELSE s[k + 1]
              /\ pa = NULL <=> k = 1
  BY PlaceInList
<1>1. PICK s \in [1..n -> Live], k \in 1..n :
              /\ Lists(s, n) /\ s[k] = a
              /\ block_header = s[1]
              /\ \A i \in 1..n : s[i] \in Live /\ (s[i] = a <=> i = k)
              /\ \A i \in 1..n : s[i] = pa <=> i = k - 1
              /\ \A i \in 1..n : s[i] = na <=> i = k + 1
              /\ pa = IF k = 1 THEN NULL ELSE s[k - 1]
              /\ na = IF k = n THEN NULL ELSE s[k + 1]
              /\ pa = NULL <=> k = 1
  BY <1>0
<1>2. /\ Unchained(a) \in [Live -> Header]
      /\ blocks \in [Live -> Header] /\ Live \subseteq Addrs /\ NULL \notin Live
      /\ pa \in Pointer /\ na \in Pointer
      /\ \A x \in Live :
            /\ Unchained(a)[x].next = IF x = pa THEN na ELSE blocks[x].next
            /\ Unchained(a)[x].prev = IF x = na THEN pa ELSE blocks[x].prev
            /\ Unchained(a)[x].size = blocks[x].size
            /\ Unchained(a)[x].mark = blocks[x].mark
  BY UnchainedFields
<1>3. blocks' = [b \in Live \ {a} |-> Unchained(a)[b]]
  BY <1>2 DEF FreeBlock, Without
<1>4. Live' = Live \ {a} /\ blocks' \in [Live' -> Header]
      /\ \A x \in Live' : blocks'[x] = Unchained(a)[x]
  BY <1>2, <1>3 DEF Live
<1>5. block_header' = IF pa = NULL THEN na ELSE block_header
  BY DEF FreeBlock, HeaderWithout
<1> HIDE DEF pa, na
<1>6. \A i \in 1..n : /\ blocks[s[i]].next = IF i = n THEN NULL ELSE s[i + 1]
                      /\ blocks[s[i]].prev = IF i = 1 THEN NULL ELSE s[i - 1]
                      /\ blocks[s[i]].mark = blocks[s[i]].size
  BY <1>1 DEF Lists
<1>7. \A i \in 1..n : i # k =>
         /\ s[i] \in Live'
         /\ blocks'[s[i]].next = IF i = k - 1 THEN na ELSE blocks[s[i]].next
         /\ blocks'[s[i]].prev = IF i = k + 1 THEN pa ELSE blocks[s[i]].prev
         /\ blocks'[s[i]].mark = blocks'[s[i]].size
  BY <1>1, <1>2, <1>4, <1>6
<1> DEFINE t == [i \in 1..n - 1 |-> IF i < k THEN s[i] ELSE s[i + 1]]
<1>8. \A i \in 1..n - 1 : t[i] = IF i < k THEN s[i] ELSE s[i + 1]
  OBVIOUS
<1>9. t \in [1..n - 1 -> Live']
  BY <1>7
<1> HIDE DEF t
<1>10. \A i \in 1..n - 1 : i \in 1..n /\ i + 1 \in 1..n
  OBVIOUS
<1>11. Lists(t, n - 1)'
  <2>1. \A x \in Live' : \E i \in 1..n - 1 : t[i] = x
    <3> TAKE x \in Live'
    <3>1. PICK i \in 1..n : s[i] = x
      BY <1>1, <1>4 DEF Lists
    <3>2. i # k
      BY <1>1, <1>4, <3>1
    <3>3. CASE i < k
      BY <1>8, <3>1, <3>3
    <3>4. CASE i > k
      <4>1. i - 1 \in 1..n - 1 /\ ~(i - 1 < k) /\ (i - 1) + 1 = i
        BY <3>4
      <4> QED
        BY <1>8, <3>1, <4>1
    <3> QED
      BY <3>2, <3>3, <3>4
  <2>2. \A i, j \in 1..n - 1 : t[i] = t[j] => i = j
    <3>1. \A i, j \in 1..n : s[i] = s[j] => i = j
      BY <1>1 DEF Lists
    <3> QED
      BY <1>8, <1>10, <3>1
  <2>3. ASSUME NEW i \in 1..n - 1
        PROVE  /\ blocks'[t[i]].next = IF i = n - 1 THEN NULL ELSE t[i + 1]
               /\ blocks'[t[i]].prev = IF i = 1 THEN NULL ELSE t[i - 1]
               /\ blocks'[t[i]].mark = blocks'[t[i]].size
    <3>1. i # n - 1 => i + 1 \in 1..n - 1 /\ t[i + 1] = IF i + 1 < k THEN s[i + 1] ELSE s[i + 2]
      BY <1>8
    <3>2. i # 1 => i - 1 \in 1..n - 1 /\ t[i - 1] = IF i - 1 < k THEN s[i - 1] ELSE s[i]
      BY <1>8
    <3>3. CASE i < k
      <4>1. t[i] = s[i] /\ i \in 1..n /\ i # k
        BY <1>8, <3>3
      <4>2. /\ blocks'[s[i]].next = IF i = k - 1 THEN na ELSE blocks[s[i]].next
            /\ blocks'[s[i]].prev = blocks[s[i]].prev
            /\ blocks'[s[i]].mark = blocks'[s[i]].size
        BY <1>7, <3>3, <4>1
      <4>3. blocks[s[i]].prev = IF i = 1 THEN NULL ELSE t[i - 1]
        BY <1>6, <3>2, <3>3, <4>1
      <4>4. CASE i = k - 1
        BY <1>1, <3>1, <4>1, <4>2, <4>3, <4>4
      <4>5. CASE i < k - 1
        BY <1>6, <3>1, <4>1, <4>2, <4>3, <4>5
      <4> QED
        BY <3>3, <4>4, <4>5
    <3>4. CASE i >= k
      <4> DEFINE m == i + 1
      <4>1. t[i] = s[m] /\ m \in 1..n /\ m # k /\ m # k - 1
        BY <1>8, <3>4
      <4>2. /\ blocks'[s[m]].next = blocks[s[m]].next
            /\ blocks'[s[m]].prev = IF m = k + 1 THEN pa ELSE blocks[s[m]].prev
            /\ blocks'[s[m]].mark = blocks'[s[m]].size
        BY <1>7, <4>1
      <4>3. blocks[s[m]].next = IF i = n - 1 THEN NULL ELSE t[i + 1]
        BY <1>6, <3>1, <3>4, <4>1
      <4>4. CASE i = k
        BY <1>1, <3>2, <4>1, <4>2, <4>3, <4>4
      <4>5. CASE i > k
        BY SMTT(30), <1>6, <3>2, <4>1, <4>2, <4>3, <4>5
      <4> QED
        BY <3>4, <4>4, <4>5
    <3> QED
      BY <3>3, <3>4
  <2>4. block_header' = IF n - 1 = 0 THEN NULL ELSE t[1]
    BY <1>1, <1>5, <1>8
  <2> QED
    BY <2>1, <2>2, <2>3, <2>4 DEF Lists
<1>12. Listed'
  <2>1. n - 1 \in Nat
    OBVIOUS
  <2> QED
    BY <1>9, <1>11, <2>1 DEF Listed
<1>13. IsFiniteSet(Live')
  BY <1>4, FS_RemoveElement DEF BlocksOK
<1>14. block_header' \in Pointer
  BY <1>2, <1>5 DEF BlocksOK
<1> QED
  BY <1>2, <1>4, <1>12, <1>13, <1>14 DEF BlocksOK

\* rechain_block: where the block is now, what its header says, and that its
\* neighbours lead to it.
LEMMA ReallocatedFields ==
    ASSUME BlocksOK, NEW a \in Live, NEW b \in Addrs, b \notin Live \ {a},
           NEW size \in Nat, ReallocBlock(a, b, size),
           blocks[a].prev # a, blocks[a].next # a,
           blocks[a].prev \in Live \cup {NULL}, blocks[a].next \in Live \cup {NULL}
    PROVE  /\ Live' = (Live \ {a}) \cup {b} /\ blocks' \in [Live' -> Header]
           /\ blocks'[b].next = blocks[a].next /\ blocks'[b].prev = blocks[a].prev
           /\ blocks'[b].size = size /\ blocks'[b].mark = size
           /\ \A x \in Live \ {a} :
                 /\ blocks'[x].next = IF x = blocks[a].prev THEN b ELSE blocks[x].next
                 /\ blocks'[x].prev = IF x = blocks[a].next THEN b ELSE blocks[x].prev
                 /\ blocks'[x].size = blocks[x].size
                 /\ blocks'[x].mark = blocks[x].mark
<1> DEFINE pa == blocks[a].prev
           na == blocks[a].next
           u == Unchained(a)
           D == (Live \ {a}) \cup {b}
           h == Resized(blocks[a], size)
           moved == With(Without(u, a), b, h)
<1>1. /\ u \in [Live -> Header]
      /\ blocks \in [Live -> Header] /\ Live \subseteq Addrs /\ NULL \notin Live
      /\ pa \in Pointer /\ na \in Pointer
      /\ \A x \in Live :
            /\ u[x].next = IF x = pa THEN na ELSE blocks[x].next
            /\ u[x].prev = IF x = na THEN pa ELSE blocks[x].prev
            /\ u[x].size = blocks[x].size
            /\ u[x].mark = blocks[x].mark
  BY UnchainedFields
<1>2. h \in Header /\ h.next = na /\ h.prev = pa /\ h.size = size /\ h.mark = size
  BY <1>1 DEF Header, Resized, Marked
<1>3. b # NULL /\ b \in Pointer /\ NULL \notin D
  BY <1>1, NullAssumption DEF Pointer
<1>4. blocks' = Rechained(moved, b)
  BY DEF ReallocBlock
<1>5. pa # a /\ na # a /\ pa # b /\ na # b
  BY <1>3
<1> HIDE DEF u, h, pa, na
<1>6. DOMAIN Without(u, a) = Live \ {a} /\ \A x \in Live \ {a} : Without(u, a)[x] = u[x]
  BY <1>1 DEF Without
<1>7. moved = [x \in D |-> IF x = b THEN h ELSE Without(u, a)[x]]
  BY <1>6 DEF With
<1>8. moved[b] = h /\ \A x \in Live \ {a} : moved[x] = u[x]
  BY <1>6, <1>7
<1>9. moved \in [D -> Header]
  BY <1>1, <1>2, <1>6, <1>7
<1> HIDE DEF moved, D
<1> DEFINE w == WithNext(moved, pa, b)
<1>10. /\ w \in [D -> Header]
       /\ \A x \in D :
             /\ w[x].next = IF x = pa THEN b ELSE moved[x].next
             /\ w[x].prev = moved[x].prev
             /\ w[x].size = moved[x].size
             /\ w[x].mark = moved[x].mark
  BY <1>3, <1>9, NextChange
<1>11. blocks' = WithPrev(w, na, b)
  BY <1>2, <1>4, <1>8 DEF Rechained
<1> HIDE DEF w
<1>12. /\ blocks' \in [D -> Header]
       /\ \A x \in D :
             /\ blocks'[x].prev = IF x = na THEN b ELSE w[x].prev
             /\ blocks'[x].next = w[x].next
             /\ blocks'[x].size = w[x].size
             /\ blocks'[x].mark = w[x].mark
  BY <1>3, <1>10, <1>11, PrevChange
<1>13. Live' = D /\ b \in D /\ Live \ {a} \subseteq D
  BY <1>12 DEF Live, D
<1>14. \A x \in Live \ {a} :
             /\ moved[x].next = IF x = pa THEN na ELSE blocks[x].next
             /\ moved[x].prev = IF x = na THEN pa ELSE blocks[x].prev
             /\ moved[x].size = blocks[x].size
             /\ moved[x].mark = blocks[x].mark
  BY <1>1, <1>8
<1>15. \A x \in Live \ {a} :
             /\ blocks'[x].next = IF x = pa THEN b ELSE blocks[x].next
             /\ blocks'[x].prev = IF x = na THEN b ELSE blocks[x].prev
             /\ blocks'[x].size = blocks[x].size
             /\ blocks'[x].mark = blocks[x].mark
  BY <1>10, <1>12, <1>13, <1>14
<1>16. blocks'[b].next = na /\ blocks'[b].prev = pa /\ blocks'[b].size = size
       /\ blocks'[b].mark = size
  BY <1>2, <1>5, <1>8, <1>10, <1>12, <1>13
<1> QED
  BY <1>12, <1>13, <1>15, <1>16 DEF D, pa, na

\* MEM_realloc: the block, wherever it is now, keeps its place in the list.
LEMMA Reallocated ==
    ASSUME BlocksOK, NEW a \in Live, NEW b \in Addrs, b \notin Live \ {a},
           NEW size \in Nat, ReallocBlock(a, b, size)
    PROVE  /\ BlocksOK'
           /\ Live' = (Live \ {a}) \cup {b}
           /\ \A x \in Live \ {a} : blocks'[x].size = blocks[x].size
<1> DEFINE pa == blocks[a].prev
           na == blocks[a].next
<1>0. PICK n \in Nat \ {0} : \E s \in [1..n -> Live] : \E k \in 1..n :
              /\ Lists(s, n) /\ s[k] = a
              /\ block_header = s[1]
              /\ \A i \in 1..n : s[i] \in Live /\ (s[i] = a <=> i = k)
              /\ \A i \in 1..n : s[i] = pa <=> i = k - 1
              /\ \A i \in 1..n : s[i] = na <=> i = k + 1
              /\ pa = IF k = 1 THEN NULL ELSE s[k - 1]
              /\ na = IF k = n THEN NULL ELSE s[k + 1]
              /\ pa = NULL <=> k = 1
  BY PlaceInList
<1>1. PICK s \in [1..n -> Live], k \in 1..n :
              /\ Lists(s, n) /\ s[k] = a
              /\ block_header = s[1]
              /\ \A i \in 1..n : s[i] \in Live /\ (s[i] = a <=> i = k)
              /\ \A i \in 1..n : s[i] = pa <=> i = k - 1
              /\ \A i \in 1..n : s[i] = na <=> i = k + 1
              /\ pa = IF k = 1 THEN NULL ELSE s[k - 1]
              /\ na = IF k = n THEN NULL ELSE s[k + 1]
              /\ pa = NULL <=> k = 1
  BY <1>0
<1>2. Live \subseteq Addrs /\ b # NULL /\ NULL \notin Live
  BY NullAssumption DEF BlocksOK
<1>3. pa # a /\ na # a /\ pa \in Live \cup {NULL} /\ na \in Live \cup {NULL}
  BY <1>1, <1>2
<1>4. /\ Live' = (Live \ {a}) \cup {b} /\ blocks' \in [Live' -> Header]
      /\ blocks'[b].next = na /\ blocks'[b].prev = pa
      /\ blocks'[b].size = size /\ blocks'[b].mark = size
      /\ \A x \in Live \ {a} :
            /\ blocks'[x].next = IF x = pa THEN b ELSE blocks[x].next
            /\ blocks'[x].prev = IF x = na THEN b ELSE blocks[x].prev
            /\ blocks'[x].size = blocks[x].size
            /\ blocks'[x].mark = blocks[x].mark
  BY <1>3, ReallocatedFields
<1>5. block_header' = IF pa = NULL THEN b ELSE block_header
  BY DEF ReallocBlock, HeaderWithout
<1> HIDE DEF pa, na
<1>6. \A i \in 1..n : /\ blocks[s[i]].next = IF i = n THEN NULL ELSE s[i + 1]
                      /\ blocks[s[i]].prev = IF i = 1 THEN NULL ELSE s[i - 1]
                      /\ blocks[s[i]].mark = blocks[s[i]].size
  BY <1>1 DEF Lists
<1> DEFINE t == [i \in 1..n |-> IF i = k THEN b ELSE s[i]]
<1>7. t \in [1..n -> Live'] /\ \A i \in 1..n : t[i] = IF i = k THEN b ELSE s[i]
  BY <1>1, <1>4
<1> HIDE DEF t
<1>8. \A i \in 1..n : i # k =>
         /\ s[i] \in Live \ {a} /\ s[i] # b /\ t[i] = s[i]
         /\ blocks'[t[i]].next = IF i = k - 1 THEN b ELSE blocks[s[i]].next
         /\ blocks'[t[i]].prev = IF i = k + 1 THEN b ELSE blocks[s[i]].prev
         /\ blocks'[t[i]].mark = blocks'[t[i]].size
  BY <1>1, <1>4, <1>6, <1>7
<1>9. Lists(t, n)'
  <2>1. \A x \in Live' : \E i \in 1..n : t[i] = x
    <3> TAKE x \in Live'
    <3>1. CASE x = b
      BY <1>7, <3>1
    <3>2. CASE x \in Live \ {a}
      <4>1. PICK i \in 1..n : s[i] = x
        BY <1>1, <3>2 DEF Lists
      <4> QED
        BY <1>1, <1>7, <3>2, <4>1
    <3> QED
      BY <1>4, <3>1, <3>2
  <2>2. \A i, j \in 1..n : t[i] = t[j] => i = j
    <3>1. \A i, j \in 1..n : s[i] = s[j] => i = j
      BY <1>1 DEF Lists
    <3> QED
      BY <1>7, <1>8, <3>1
  <2>3. ASSUME NEW i \in 1..n
        PROVE  /\ blocks'[t[i]].next = IF i = n THEN NULL ELSE t[i + 1]
               /\ blocks'[t[i]].prev = IF i = 1 THEN NULL ELSE t[i - 1]
               /\ blocks'[t[i]].mark = blocks'[t[i]].size
    <3>1. i # n => i + 1 \in 1..n /\ t[i + 1] = IF i + 1 = k THEN b ELSE s[i + 1]
      BY <1>7
    <3>2. i # 1 => i - 1 \in 1..n /\ t[i - 1] = IF i - 1 = k THEN b ELSE s[i - 1]
      BY <1>7
    <3>3. CASE i = k
      BY <1>1, <1>4, <1>7, <3>1, <3>2, <3>3
    <3>4. CASE i # k
      <4>1. blocks'[t[i]].next = IF i = n THEN NULL ELSE t[i + 1]
        BY <1>6, <1>8, <3>1, <3>4
      <4>2. blocks'[t[i]].prev = IF i = 1 THEN NULL ELSE t[i - 1]
        BY <1>6, <1>8, <3>2, <3>4
      <4> QED
        BY <1>8, <3>4, <4>1, <4>2
    <3> QED
      BY <3>3, <3>4
  <2>4. block_header' = IF n = 0 THEN NULL ELSE t[1]
    BY <1>1, <1>5, <1>7
  <2> QED
    BY <2>1, <2>2, <2>3, <2>4 DEF Lists
<1>10. Listed'
  BY <1>7, <1>9 DEF Listed
<1>11. IsFiniteSet(Live')
  BY <1>4, FS_RemoveElement, FS_AddElement DEF BlocksOK
<1>12. block_header' \in Pointer
  BY <1>5 DEF BlocksOK, Pointer
<1> QED
  BY <1>2, <1>4, <1>10, <1>11, <1>12 DEF BlocksOK

-----------------------------------------------------------------------------
(* The pages of the storages. *)

\* The list of a storage's pages starts at a page, if it is not empty.
LEMMA FirstPage ==
    ASSUME Paged, NEW st \in Storages
    PROVE  stores[st].page_list \in DOMAIN pages \cup {NULL}
<1>1. PICK q \in [Storages -> Seq(DOMAIN pages)] : PageLists(q)
  BY DEF Paged
<1>2. PageList(q[st], stores[st].page_list, pages)
  BY <1>1 DEF PageLists
<1>3. q[st] \in Seq(DOMAIN pages)
  BY <1>1
<1> QED
  BY <1>2, <1>3 DEF PageList

\* A step that changes no link between pages keeps the lists of pages.
LEMMA PagedKept ==
    ASSUME Paged, DOMAIN pages' = DOMAIN pages,
           \A p \in DOMAIN pages : pages'[p].next = pages[p].next,
           \A st \in Storages : stores'[st].page_list = stores[st].page_list
    PROVE  Paged'
<1>1. PICK q \in [Storages -> Seq(DOMAIN pages)] : PageLists(q)
  BY DEF Paged
<1>2. ASSUME NEW st \in Storages
      PROVE  PageList(q[st], stores'[st].page_list, pages')
  <2>1. PageList(q[st], stores[st].page_list, pages)
    BY <1>1 DEF PageLists
  <2>2. q[st] \in Seq(DOMAIN pages)
    BY <1>1
  <2>3. \A i \in 1..Len(q[st]) : q[st][i] \in DOMAIN pages
    BY <2>2
  <2> QED
    BY <2>1, <2>3 DEF PageList
<1>3. PageLists(q)'
  BY <1>1, <1>2 DEF PageLists
<1> QED
  BY <1>1, <1>3 DEF Paged

\* A step that leaves the storages alone, and the blocks they stand on.
LEMMA StoresKept ==
    ASSUME IInv, BlocksOK', UNCHANGED <<stores, pages, cells>>,
           StoreBlocks \cup DOMAIN pages \subseteq Live',
           \A x \in DOMAIN pages : blocks'[x].size = blocks[x].size,
           \/ disposing' = disposing
           \/ disposing' \in Storages /\ stores[disposing'] # Closed
    PROVE  IInv'
<1>1. MemTypeOK'
  BY DEF IInv, MemTypeOK, BlocksOK
<1>2. Owned'
  BY DEF IInv, Owned, StoreBlocks
<1>3. RunsFit'
  BY DEF IInv, RunsFit
<1>4. Paged'
  BY PagedKept DEF IInv
<1> QED
  BY <1>1, <1>2, <1>3, <1>4 DEF IInv

\* MEM_malloc.
LEMMA MallocKeeps ==
    ASSUME IInv, NEW a \in Addrs, NEW size \in Sizes, Malloc(a, size)
    PROVE  IInv'
<1>1. a \notin Live /\ ChainBlock(a, size) /\ UNCHANGED storeVars /\ size \in Nat /\ BlocksOK
  BY SizesAssumption DEF Malloc, IInv
<1>2. /\ BlocksOK'
      /\ Live' = Live \cup {a} /\ blocks'[a].size = size
      /\ \A x \in Live : blocks'[x].size = blocks[x].size
  BY <1>1, Chained
<1>3. StoreBlocks \cup DOMAIN pages \subseteq Live
  BY DEF IInv, Owned
<1> QED
  BY <1>1, <1>2, <1>3, StoresKept DEF storeVars

\* MEM_realloc, of a block that is a client's.
LEMMA ReallocKeeps ==
    ASSUME IInv, NEW a \in Addrs, NEW b \in Addrs, NEW size \in Sizes, Realloc(a, b, size)
    PROVE  IInv'
<1>1. /\ a \in Live /\ a \notin StoreBlocks /\ a \notin DOMAIN pages /\ b \notin Live \ {a}
      /\ ReallocBlock(a, b, size) /\ UNCHANGED storeVars /\ size \in Nat /\ BlocksOK
  BY SizesAssumption DEF Realloc, IInv, Clients
<1>2. /\ BlocksOK'
      /\ Live' = (Live \ {a}) \cup {b}
      /\ \A x \in Live \ {a} : blocks'[x].size = blocks[x].size
  BY <1>1, Reallocated
<1>3. StoreBlocks \cup DOMAIN pages \subseteq Live
  BY DEF IInv, Owned
<1> QED
  BY <1>1, <1>2, <1>3, StoresKept DEF storeVars

\* MEM_free, of a block that is a client's.
LEMMA FreeKeeps ==
    ASSUME IInv, NEW a \in Addrs, Free(a)
    PROVE  IInv'
<1>1. /\ a \in Live /\ a \notin StoreBlocks /\ a \notin DOMAIN pages
      /\ FreeBlock(a) /\ UNCHANGED storeVars /\ BlocksOK
  BY DEF Free, IInv, Clients
<1>2. /\ BlocksOK'
      /\ Live' = Live \ {a}
      /\ \A x \in Live' : blocks'[x].size = blocks[x].size
  BY <1>1, Freed
<1>3. StoreBlocks \cup DOMAIN pages \subseteq Live
  BY DEF IInv, Owned
<1> QED
  BY <1>1, <1>2, <1>3, StoresKept DEF storeVars

\* MEM_dispose_storage begins.
LEMMA DisposeKeeps ==
    ASSUME IInv, NEW st \in Storages, Dispose(st)
    PROVE  IInv'
<1>1. BlocksOK' /\ Live' = Live /\ UNCHANGED blocks
  BY DEF Dispose, IInv, BlocksOK, Listed, Lists, Live
<1>2. StoreBlocks \cup DOMAIN pages \subseteq Live
  BY DEF IInv, Owned
<1> QED
  BY <1>1, <1>2, StoresKept DEF Dispose

\* MEM_open_storage_func: a block for the storage itself, and no page yet.
LEMMA OpenStorageKeeps ==
    ASSUME IInv, NEW st \in Storages, NEW a \in Addrs, OpenStorage(st, a)
    PROVE  IInv'
<1>1. /\ a \notin Live /\ ChainBlock(a, 1) /\ BlocksOK /\ a # NULL
      /\ stores' = [stores EXCEPT ![st].block = a] /\ stores[st] = Closed
      /\ UNCHANGED <<pages, cells, disposing>> /\ disposing = NULL
  BY NullAssumption DEF OpenStorage, IInv, Idle
<1>2. /\ BlocksOK'
      /\ Live' = Live \cup {a}
      /\ \A x \in Live : blocks'[x].size = blocks[x].size
  BY <1>1, Chained
<1>3. stores \in [Storages -> [block : Pointer, page_list : Pointer]]
  BY DEF IInv, MemTypeOK
<1>4. /\ stores'[st].block = a /\ stores'[st].page_list = NULL
      /\ \A other \in Storages : other # st => stores'[other] = stores[other]
      /\ stores' \in [Storages -> [block : Pointer, page_list : Pointer]]
  BY <1>1, <1>3 DEF Closed, Pointer
<1>5. \A other \in Storages : stores'[other].page_list = stores[other].page_list
  BY <1>1, <1>4 DEF Closed
<1>6. MemTypeOK'
  BY <1>1, <1>2, <1>4 DEF IInv, MemTypeOK, BlocksOK
<1>7. RunsFit'
  BY <1>1, <1>2 DEF IInv, RunsFit, Owned
<1>8. Paged'
  BY <1>1, <1>5, PagedKept DEF IInv
<1>9. Owned'
  <2>1. DOMAIN pages' \subseteq Live'
    BY <1>1, <1>2 DEF IInv, Owned
  <2>2. \A other \in Storages : stores[other].block # a
    BY <1>1 DEF IInv, Owned, StoreBlocks
  <2>3. StoreBlocks' \subseteq StoreBlocks \cup {a}
    BY <1>4 DEF StoreBlocks
  <2>4. StoreBlocks' \subseteq Live' \ DOMAIN pages'
    BY <1>1, <1>2, <2>3 DEF IInv, Owned
  <2>5. \A other \in Storages : stores'[other].block = NULL => stores'[other] = Closed
    BY <1>1, <1>4 DEF IInv, Owned
  <2>6. \A x, y \in Storages :
           stores'[x].block = stores'[y].block => x = y \/ stores'[x] = Closed
    BY <1>4, <2>2 DEF IInv, Owned
  <2> QED
    BY <1>1, <2>1, <2>4, <2>5, <2>6 DEF Owned
<1> QED
  BY <1>2, <1>6, <1>7, <1>8, <1>9 DEF IInv

\* MEM_storage_malloc_func within the current page.
LEMMA UsePageKeeps ==
    ASSUME IInv, NEW st \in Storages, NEW num \in Sizes, UsePage(st, num)
    PROVE  IInv'
<1> DEFINE page == stores[st].page_list
           used == pages[page].use_cell_num
<1>1. /\ page # NULL /\ used + num < pages[page].cell_num
      /\ cells' = [cells EXCEPT ![page] = Append(@, Run(used, num))]
      /\ pages' = [pages EXCEPT ![page].use_cell_num = @ + num]
      /\ UNCHANGED <<blocks, block_header, stores, disposing>>
      /\ num \in Nat \ {0}
  BY SizesAssumption DEF UsePage, Fits
<1>2. page \in DOMAIN pages
  BY <1>1, FirstPage DEF IInv
<1> HIDE DEF page
<1>3. /\ pages \in [DOMAIN pages -> [cell_num : Nat, use_cell_num : Nat, next : Pointer]]
      /\ cells \in [DOMAIN pages -> Seq([first : Nat, num : Nat])]
  BY DEF IInv, MemTypeOK
<1>4. used \in Nat /\ cells[page] \in Seq([first : Nat, num : Nat])
  BY <1>2, <1>3
<1> HIDE DEF used
<1>5. Run(used, num) \in [first : Nat, num : Nat]
      /\ Run(used, num).first = used /\ Run(used, num).num = num
  BY <1>1, <1>4 DEF Run
<1>6. /\ pages' \in [DOMAIN pages -> [cell_num : Nat, use_cell_num : Nat, next : Pointer]]
      /\ DOMAIN pages' = DOMAIN pages
      /\ pages'[page].use_cell_num = used + num
      /\ \A p \in DOMAIN pages : /\ pages'[p].next = pages[p].next
                                 /\ pages'[p].cell_num = pages[p].cell_num
                                 /\ p # page => pages'[p] = pages[p]
  <2> DEFINE rec == [pages[page] EXCEPT !.use_cell_num = used + num]
  <2>1. /\ rec \in [cell_num : Nat, use_cell_num : Nat, next : Pointer]
        /\ rec.use_cell_num = used + num /\ rec.next = pages[page].next
        /\ rec.cell_num = pages[page].cell_num
    <3>1. pages[page] \in [cell_num : Nat, use_cell_num : Nat, next : Pointer]
          /\ used + num \in Nat
      BY <1>1, <1>2, <1>3, <1>4
    <3> QED
      BY <3>1
  <2>2. pages' = [pages EXCEPT ![page] = rec]
    BY <1>1, <1>2, <1>3 DEF used
  <2> HIDE DEF rec
  <2> QED
    BY <1>2, <1>3, <2>1, <2>2
<1> DEFINE more == Append(cells[page], Run(used, num))
<1>7. /\ cells'[page] = more
      /\ cells' \in [DOMAIN pages -> Seq([first : Nat, num : Nat])]
      /\ \A p \in DOMAIN pages : p # page => cells'[p] = cells[p]
  <2>1. more \in Seq([first : Nat, num : Nat])
    BY <1>4, <1>5
  <2>2. cells' = [cells EXCEPT ![page] = more]
    BY <1>1
  <2> HIDE DEF more
  <2> QED
    BY <1>2, <1>3, <2>1, <2>2
<1> HIDE DEF more
<1>8. BlocksOK' /\ Live' = Live
  <2>1. UNCHANGED <<blocks, block_header>> /\ BlocksOK
    BY <1>1 DEF IInv
  <2> QED
    BY <2>1 DEF BlocksOK, Listed, Lists, Live
<1>9. MemTypeOK'
  BY <1>1, <1>6, <1>7, <1>8 DEF IInv, MemTypeOK, BlocksOK
<1>10. Owned'
  BY <1>1, <1>6, <1>8 DEF IInv, Owned, StoreBlocks
<1>11. Paged'
  BY <1>1, <1>6, PagedKept DEF IInv
<1>12. RunsFit'
  <2>1. SUFFICES ASSUME NEW p \in DOMAIN pages
                 PROVE  /\ pages'[p].use_cell_num <= pages'[p].cell_num
                        /\ pages'[p].cell_num = blocks[p].size
                        /\ \A i \in 1..Len(cells'[p]) :
                           /\ cells'[p][i].first + cells'[p][i].num <= pages'[p].use_cell_num
                           /\ \A j \in 1..Len(cells'[p]) :
                              i < j => cells'[p][i].first + cells'[p][i].num <= cells'[p][j].first
    BY <1>1, <1>6 DEF RunsFit
  <2>2. /\ pages[p].use_cell_num <= pages[p].cell_num
        /\ pages[p].cell_num = blocks[p].size
        /\ \A i \in 1..Len(cells[p]) :
           /\ cells[p][i].first + cells[p][i].num <= pages[p].use_cell_num
           /\ \A j \in 1..Len(cells[p]) :
              i < j => cells[p][i].first + cells[p][i].num <= cells[p][j].first
    BY DEF IInv, RunsFit
  <2>3. CASE p # page
    BY <1>6, <1>7, <2>2, <2>3
  <2>4. CASE p = page
    <3> DEFINE c == cells[page]
               d == cells'[page]
               n == Len(c)
    <3>1. n \in Nat /\ Len(d) = n + 1 /\ d[n + 1] = Run(used, num)
          /\ \A i \in 1..n : d[i] = c[i]
      <4>1. /\ n \in Nat /\ Len(more) = n + 1 /\ more[n + 1] = Run(used, num)
            /\ \A i \in 1..n : more[i] = c[i]
        BY <1>4, <1>5 DEF more
      <4>2. d = more
        BY <1>7
      <4> QED
        BY <4>1, <4>2
    <3>2. \A i \in 1..n : c[i].first \in Nat /\ c[i].num \in Nat
      <4> DEFINE R == [first : Nat, num : Nat]
      <4>1. c \in Seq(R)
        BY <1>4
      <4>2. \A i \in 1..n : c[i] \in R
        <5> HIDE DEF R, c
        <5> QED
          BY <4>1 DEF n
      <4> QED
        BY <4>2
    <3>3. pages'[page].use_cell_num <= pages'[page].cell_num
          /\ pages'[page].cell_num = blocks[page].size
      BY <1>1, <1>2, <1>3, <1>4, <1>6, <2>2, <2>4
    <3>4. \A i \in 1..n : c[i].first + c[i].num <= used
      BY <2>2, <2>4 DEF used
    <3>5. \A i, j \in 1..n : i < j => c[i].first + c[i].num <= c[j].first
      BY <2>2, <2>4
    <3> HIDE DEF c, d, n
    <3>6. \A i \in 1..n + 1 : i \in 1..n \/ i = n + 1
      BY <3>1
    <3>7. \A i \in 1..n + 1 : d[i].first + d[i].num <= used + num
      <4> TAKE i \in 1..n + 1
      <4>1. CASE i = n + 1
        BY <1>1, <1>4, <1>5, <3>1, <4>1
      <4>2. CASE i \in 1..n
        BY SMTT(30), <1>1, <1>4, <3>1, <3>2, <3>4, <4>2
      <4> QED
        BY <3>6, <4>1, <4>2
    <3>8. \A i, j \in 1..n + 1 : i < j => d[i].first + d[i].num <= d[j].first
      <4> TAKE i, j \in 1..n + 1
      <4> HAVE i < j
      <4>1. i \in 1..n
        BY <3>1, <3>6
      <4>2. CASE j = n + 1
        BY <1>5, <3>1, <3>4, <4>1, <4>2
      <4>3. CASE j \in 1..n
        BY <3>1, <3>5, <4>1, <4>3
      <4> QED
        BY <3>6, <4>2, <4>3
    <3> QED
      BY <1>6, <2>4, <3>1, <3>3, <3>7, <3>8 DEF d
  <2> QED
    BY <2>3, <2>4
<1> QED
  BY <1>8, <1>9, <1>10, <1>11, <1>12 DEF IInv

\* MEM_storage_malloc_func with a new page, which becomes the current one.
LEMMA AddPageKeeps ==
    ASSUME IInv, NEW st \in Storages, NEW num \in Sizes, NEW a \in Addrs, AddPage(st, num, a)
    PROVE  IInv'
<1> DEFINE new == NewPage(st, num)
           P == [cell_num : Nat, use_cell_num : Nat, next : Pointer]
           C == Seq([first : Nat, num : Nat])
<1>1. /\ a \notin Live /\ a # NULL /\ ChainBlock(a, PageCells(num)) /\ BlocksOK
      /\ pages' = With(pages, a, new)
      /\ stores' = [stores EXCEPT ![st].page_list = a]
      /\ cells' = With(cells, a, <<Run(0, num)>>)
      /\ UNCHANGED disposing /\ disposing = NULL /\ stores[st] # Closed
  BY NullAssumption DEF AddPage, IInv, Idle
<1>2. num \in Nat \ {0} /\ PageCells(num) \in Nat /\ num <= PageCells(num)
  BY SizesAssumption DEF PageCells
<1>3. /\ BlocksOK'
      /\ Live' = Live \cup {a} /\ blocks'[a].size = PageCells(num)
      /\ \A x \in Live : blocks'[x].size = blocks[x].size
  BY <1>1, <1>2, Chained
<1>4. /\ stores \in [Storages -> [block : Pointer, page_list : Pointer]]
      /\ pages \in [DOMAIN pages -> P] /\ cells \in [DOMAIN pages -> C]
      /\ DOMAIN pages \subseteq Live
  BY DEF IInv, MemTypeOK, Owned
<1>5. new \in P /\ new.next = stores[st].page_list
      /\ new.use_cell_num = num /\ new.cell_num = PageCells(num)
  BY <1>2, <1>4 DEF NewPage
<1>6. /\ stores' \in [Storages -> [block : Pointer, page_list : Pointer]]
      /\ stores'[st].page_list = a
      /\ \A x \in Storages : stores'[x].block = stores[x].block
      /\ \A x \in Storages : x # st => stores'[x] = stores[x]
  BY <1>1, <1>4 DEF Pointer
<1>7. stores'[st] # Closed /\ stores[st].block # NULL
  BY <1>1, <1>6 DEF Closed, IInv, Owned
<1> HIDE DEF new
<1>8. /\ pages' \in [DOMAIN pages' -> P] /\ DOMAIN pages' = DOMAIN pages \cup {a}
      /\ pages'[a] = new /\ \A p \in DOMAIN pages : pages'[p] = pages[p]
  BY <1>1, <1>4, <1>5 DEF With
<1>9. <<Run(0, num)>> \in C /\ Len(<<Run(0, num)>>) = 1
      /\ <<Run(0, num)>>[1].first = 0 /\ <<Run(0, num)>>[1].num = num
  BY <1>2 DEF Run
<1> DEFINE runs == <<Run(0, num)>>
<1> HIDE DEF runs
<1>10. /\ cells' \in [DOMAIN pages' -> C]
       /\ cells'[a] = runs /\ \A p \in DOMAIN pages : cells'[p] = cells[p]
  BY <1>1, <1>4, <1>8, <1>9 DEF With, runs
<1>11. MemTypeOK'
  BY <1>1, <1>3, <1>4, <1>6, <1>8, <1>10 DEF IInv, MemTypeOK, BlocksOK
<1>12. Owned'
  <2>1. StoreBlocks' = StoreBlocks
    BY <1>6 DEF StoreBlocks
  <2>2. StoreBlocks' \subseteq Live' \ DOMAIN pages'
    BY <1>1, <1>3, <1>8, <2>1 DEF IInv, Owned
  <2>3. \A x \in Storages : stores'[x].block = NULL => stores'[x] = Closed
    BY <1>6, <1>7 DEF IInv, Owned
  <2>4. \A x, y \in Storages :
           stores'[x].block = stores'[y].block => x = y \/ stores'[x] = Closed
    <3> TAKE x, y \in Storages
    <3> HAVE stores'[x].block = stores'[y].block
    <3>1. x = y \/ stores[x] = Closed
      BY <1>6 DEF IInv, Owned
    <3> QED
      BY <1>1, <1>6, <3>1
  <2> QED
    BY <1>1, <1>3, <1>4, <1>8, <2>2, <2>3, <2>4 DEF Owned
<1>13. RunsFit'
  <2>1. \A p \in DOMAIN pages : p # a
    BY <1>1, <1>4
  <2>2. ASSUME NEW p \in DOMAIN pages
        PROVE  /\ pages'[p].use_cell_num <= pages'[p].cell_num
               /\ pages'[p].cell_num = blocks'[p].size
               /\ \A i \in 1..Len(cells'[p]) :
                  /\ cells'[p][i].first + cells'[p][i].num <= pages'[p].use_cell_num
                  /\ \A j \in 1..Len(cells'[p]) :
                     i < j => cells'[p][i].first + cells'[p][i].num <= cells'[p][j].first
    BY <1>3, <1>4, <1>8, <1>10 DEF IInv, RunsFit
  <2>3. /\ pages'[a].use_cell_num <= pages'[a].cell_num
        /\ pages'[a].cell_num = blocks'[a].size
        /\ \A i \in 1..Len(cells'[a]) :
           /\ cells'[a][i].first + cells'[a][i].num <= pages'[a].use_cell_num
           /\ \A j \in 1..Len(cells'[a]) :
              i < j => cells'[a][i].first + cells'[a][i].num <= cells'[a][j].first
    <3>1. Len(runs) = 1 /\ runs[1].first = 0 /\ runs[1].num = num
      BY <1>9 DEF runs
    <3> QED
      BY <1>2, <1>3, <1>5, <1>8, <1>10, <3>1
  <2> QED
    BY <1>8, <2>2, <2>3 DEF RunsFit
<1>14. Paged'
  <2>1. PICK q \in [Storages -> Seq(DOMAIN pages)] : PageLists(q)
    BY DEF IInv, Paged
  <2> DEFINE r == [q EXCEPT ![st] = <<a>> \o @]
             n == Len(q[st])
  <2>2. q[st] \in Seq(DOMAIN pages) /\ n \in Nat
    BY <2>1
  <2>3. /\ r[st] \in Seq(DOMAIN pages') /\ Len(r[st]) = n + 1 /\ r[st][1] = a
        /\ \A i \in 1..n : r[st][i + 1] = q[st][i] /\ q[st][i] \in DOMAIN pages
    BY SMTT(30), <1>8, <2>1, <2>2
  <2>4. \A x \in Storages : x # st => r[x] = q[x]
    BY <2>1
  <2>5. r \in [Storages -> Seq(DOMAIN pages')]
    <3>1. \A x \in Storages : q[x] \in Seq(DOMAIN pages')
      BY <1>8, <2>1
    <3> QED
      BY <2>1, <2>3, <3>1
  <2> HIDE DEF r, n
  <2>6. \A i \in 1..n + 1 : i = 1 \/ (i - 1 \in 1..n /\ r[st][i] = q[st][i - 1])
    BY <2>2, <2>3
  <2>7. a \notin DOMAIN pages
    BY <1>1, <1>4
  <2>8. ASSUME NEW x \in Storages
        PROVE  PageList(r[x], stores'[x].page_list, pages')
    <3>1. PageList(q[x], stores[x].page_list, pages)
      BY <2>1 DEF PageLists
    <3>2. CASE x # st
      <4>1. \A i \in 1..Len(q[x]) : q[x][i] \in DOMAIN pages
        BY <2>1
      <4>2. \A i \in 1..Len(q[x]) : pages'[q[x][i]].next = pages[q[x][i]].next
        BY <1>8, <4>1
      <4>3. r[x] = q[x] /\ stores'[x].page_list = stores[x].page_list
        BY <1>6, <2>4, <3>2
      <4> QED
        BY <3>1, <4>2, <4>3 DEF PageList
    <3>3. CASE x = st
      <4>1. stores[st].page_list = (IF n = 0 THEN NULL ELSE q[st][1])
        BY <2>2, <3>1, <3>3 DEF PageList, n
      <4>2. n # 0 => r[st][2] = q[st][1]
        BY <2>2, <2>3
      <4>3. pages'[r[st][1]].next = IF n = 0 THEN NULL ELSE r[st][2]
        BY <1>5, <1>8, <2>3, <4>1, <4>2
      <4>4. ASSUME NEW i \in 1..n
            PROVE  pages'[r[st][i + 1]].next = IF i = n THEN NULL ELSE r[st][i + 2]
        <5>1. pages[q[st][i]].next = IF i = n THEN NULL ELSE q[st][i + 1]
          BY <3>1, <3>3 DEF PageList, n
        <5>2. i # n => r[st][i + 2] = q[st][i + 1]
          BY <2>2, <2>3
        <5> QED
          BY <1>8, <2>3, <5>1, <5>2
      <4>5. \A i \in 1..n + 1 :
               pages'[r[st][i]].next = IF i = n + 1 THEN NULL ELSE r[st][i + 1]
        <5> TAKE i \in 1..n + 1
        <5>1. CASE i = 1
          BY <2>2, <4>3, <5>1
        <5>2. CASE i - 1 \in 1..n
          <6>1. pages'[r[st][(i - 1) + 1]].next = IF i - 1 = n THEN NULL ELSE r[st][(i - 1) + 2]
            BY <4>4, <5>2
          <6> QED
            BY <2>2, <6>1
        <5> QED
          BY <2>6, <5>1, <5>2
      <4>6. r[st] # << >>
        BY <2>2, <2>3
      <4> QED
        BY <1>6, <2>3, <3>3, <4>5, <4>6 DEF PageList
    <3> QED
      BY <3>2, <3>3
  <2>9. ASSUME NEW p \in DOMAIN pages'
        PROVE  \E x \in Storages : \E i \in 1..Len(r[x]) : r[x][i] = p
    <3>1. CASE p = a
      <4>1. 1 \in 1..Len(r[st]) /\ r[st][1] = p
        BY <2>2, <2>3, <3>1
      <4> QED
        BY <4>1
    <3>2. CASE p \in DOMAIN pages
      <4>1. PICK x \in Storages : \E i \in 1..Len(q[x]) : q[x][i] = p
        BY <2>1, <3>2 DEF PageLists
      <4>2. PICK i \in 1..Len(q[x]) : q[x][i] = p
        BY <4>1
      <4>3. CASE x = st
        BY <2>2, <2>3, <4>2, <4>3 DEF n
      <4>4. CASE x # st
        BY <2>4, <4>2, <4>4
      <4> QED
        BY <4>3, <4>4
    <3> QED
      BY <1>8, <3>1, <3>2
  <2>10. ASSUME NEW x \in Storages, NEW y \in Storages,
                NEW i \in 1..Len(r[x]), NEW j \in 1..Len(r[y]), r[x][i] = r[y][j]
         PROVE  x = y /\ i = j
    <3>1. \A u, v \in Storages : \A k \in 1..Len(q[u]), l \in 1..Len(q[v]) :
             q[u][k] = q[v][l] => u = v /\ k = l
      BY <2>1 DEF PageLists
    <3>2. \A u \in Storages : \A k \in 1..Len(q[u]) : q[u][k] # a
      BY <2>1, <2>7
    <3>3. CASE x # st /\ y # st
      <4>1. i \in 1..Len(q[x]) /\ j \in 1..Len(q[y]) /\ q[x][i] = q[y][j]
        BY <2>4, <2>10, <3>3
      <4> QED
        BY <3>1, <4>1
    <3>4. CASE x = st /\ y = st
      <4>1. i \in 1..n + 1 /\ j \in 1..n + 1
        BY <2>3, <3>4
      <4>2. CASE i = 1 \/ j = 1
        BY <2>3, <2>6, <2>10, <3>2, <3>4, <4>1, <4>2 DEF n
      <4>3. CASE i # 1 /\ j # 1
        <5>1. /\ i - 1 \in 1..Len(q[st]) /\ r[st][i] = q[st][i - 1]
              /\ j - 1 \in 1..Len(q[st]) /\ r[st][j] = q[st][j - 1]
          BY <2>6, <4>1, <4>3 DEF n
        <5>2. i - 1 = j - 1
          BY <2>10, <3>1, <3>4, <5>1
        <5> QED
          BY <3>4, <4>1, <5>2
      <4> QED
        BY <4>2, <4>3
    <3>5. CASE x = st /\ y # st
      <4>1. i \in 1..n + 1 /\ r[y] = q[y] /\ j \in 1..Len(q[y])
        BY <2>3, <2>4, <3>5
      <4> QED
        BY <2>3, <2>6, <2>10, <3>1, <3>2, <3>5, <4>1 DEF n
    <3>6. CASE x # st /\ y = st
      <4>1. j \in 1..n + 1 /\ r[x] = q[x] /\ i \in 1..Len(q[x])
        BY <2>3, <2>4, <3>6
      <4> QED
        BY <2>3, <2>6, <2>10, <3>1, <3>2, <3>6, <4>1 DEF n
    <3> QED
      BY <3>3, <3>4, <3>5, <3>6
  <2>11. PageLists(r)'
    BY <2>8, <2>9, <2>10 DEF PageLists
  <2> QED
    BY <2>5, <2>11 DEF Paged
<1> QED
  BY <1>3, <1>11, <1>12, <1>13, <1>14 DEF IInv

\* MEM_dispose_storage frees the current page; the next one is current.
LEMMA DisposePageKeeps ==
    ASSUME IInv, NEW st \in Storages, DisposePage(st)
    PROVE  IInv'
<1> DEFINE page == stores[st].page_list
           P == [cell_num : Nat, use_cell_num : Nat, next : Pointer]
           C == Seq([first : Nat, num : Nat])
<1>1. /\ page # NULL /\ FreeBlock(page) /\ BlocksOK
      /\ stores' = [stores EXCEPT ![st].page_list = pages[page].next]
      /\ pages' = Without(pages, page) /\ cells' = Without(cells, page)
      /\ UNCHANGED disposing /\ disposing = st /\ st # NULL
  BY NullAssumption DEF DisposePage, IInv
<1>2. page \in DOMAIN pages
  BY <1>1, FirstPage DEF IInv
<1>3. /\ stores \in [Storages -> [block : Pointer, page_list : Pointer]]
      /\ pages \in [DOMAIN pages -> P] /\ cells \in [DOMAIN pages -> C]
      /\ DOMAIN pages \subseteq Live /\ StoreBlocks \subseteq Live \ DOMAIN pages
      /\ stores[st] # Closed /\ stores[st].block # NULL
  BY <1>1 DEF IInv, MemTypeOK, Owned
<1> HIDE DEF page
<1>4. /\ BlocksOK'
      /\ Live' = Live \ {page}
      /\ \A x \in Live' : blocks'[x].size = blocks[x].size
  BY <1>1, <1>2, <1>3, Freed
<1>5. pages[page].next \in Pointer
  BY <1>2, <1>3
<1>6. /\ stores' \in [Storages -> [block : Pointer, page_list : Pointer]]
      /\ stores'[st].page_list = pages[page].next
      /\ \A x \in Storages : stores'[x].block = stores[x].block
      /\ \A x \in Storages : x # st => stores'[x] = stores[x]
  BY <1>1, <1>3, <1>5
<1> HIDE DEF P, C
<1>7. /\ pages' \in [DOMAIN pages' -> P] /\ DOMAIN pages' = DOMAIN pages \ {page}
      /\ \A p \in DOMAIN pages' : pages'[p] = pages[p]
  BY <1>1, <1>2, <1>3 DEF Without
<1>8. /\ cells' \in [DOMAIN pages' -> C]
      /\ \A p \in DOMAIN pages' : cells'[p] = cells[p]
  BY <1>1, <1>2, <1>3, <1>7 DEF Without
<1>9. MemTypeOK'
  BY <1>1, <1>3, <1>4, <1>6, <1>7, <1>8 DEF IInv, MemTypeOK, BlocksOK, P, C
<1>10. stores'[st].block # NULL /\ stores'[st] # Closed
  BY <1>3, <1>6 DEF Closed
<1>11. Owned'
  <2>1. StoreBlocks' = StoreBlocks
    BY <1>6 DEF StoreBlocks
  <2>2. StoreBlocks' \subseteq Live' \ DOMAIN pages' /\ DOMAIN pages' \subseteq Live'
    BY <1>2, <1>3, <1>4, <1>7, <2>1
  <2>3. \A x \in Storages : stores'[x].block = NULL => stores'[x] = Closed
    BY <1>6, <1>10 DEF IInv, Owned
  <2>4. \A x, y \in Storages :
           stores'[x].block = stores'[y].block => x = y \/ stores'[x] = Closed
    <3> TAKE x, y \in Storages
    <3> HAVE stores'[x].block = stores'[y].block
    <3>1. x = y \/ stores[x] = Closed
      BY <1>6 DEF IInv, Owned
    <3> QED
      BY <1>3, <1>6, <3>1
  <2> QED
    BY <1>1, <1>10, <2>2, <2>3, <2>4 DEF Owned
<1>12. RunsFit'
  <2>1. DOMAIN pages' \subseteq DOMAIN pages /\ DOMAIN pages' \subseteq Live'
    BY <1>3, <1>4, <1>7
  <2>2. ASSUME NEW p \in DOMAIN pages'
        PROVE  pages'[p] = pages[p] /\ cells'[p] = cells[p] /\ blocks'[p].size = blocks[p].size
    BY <1>4, <1>7, <1>8, <2>1
  <2>3. RunsFit
    BY DEF IInv
  <2> QED
    BY <2>1, <2>2, <2>3 DEF RunsFit
<1>13. Paged'
  <2>1. PICK q \in [Storages -> Seq(DOMAIN pages)] : PageLists(q)
    BY DEF IInv, Paged
  <2> DEFINE n == Len(q[st])
             r == [q EXCEPT ![st] = Tail(@)]
  <2>2. q[st] \in Seq(DOMAIN pages) /\ n \in Nat
    BY <2>1
  <2>3. PageList(q[st], page, pages)
    BY <2>1 DEF PageLists, page
  <2>4. n # 0 /\ q[st][1] = page
    BY <1>1, <2>2, <2>3 DEF PageList
  <2>5. r[st] = Tail(q[st]) /\ \A x \in Storages : x # st => r[x] = q[x]
    BY <2>1
  <2>6. Len(r[st]) = n - 1 /\ \A i \in 1..n - 1 : r[st][i] = q[st][i + 1]
    BY <2>2, <2>4, <2>5
  <2>7. \A x, y \in Storages : \A k \in 1..Len(q[x]), l \in 1..Len(q[y]) :
           q[x][k] = q[y][l] => x = y /\ k = l
    BY <2>1 DEF PageLists
  <2>8. \A i \in 1..n - 1 : r[st][i] \in DOMAIN pages'
    <3> TAKE i \in 1..n - 1
    <3>1. i + 1 \in 1..Len(q[st]) /\ 1 \in 1..Len(q[st]) /\ i + 1 # 1
      BY <2>2, <2>4
    <3>2. q[st][i + 1] # page /\ q[st][i + 1] \in DOMAIN pages
      BY <2>2, <2>4, <2>7, <3>1
    <3> QED
      BY <1>7, <2>6, <3>2
  <2>9. \A x \in Storages : x # st => \A i \in 1..Len(q[x]) : q[x][i] \in DOMAIN pages'
    <3> TAKE x \in Storages
    <3> HAVE x # st
    <3> TAKE i \in 1..Len(q[x])
    <3>1. 1 \in 1..Len(q[st])
      BY <2>2, <2>4
    <3>2. q[x][i] # page
      BY <2>4, <2>7, <3>1
    <3>3. q[x] \in Seq(DOMAIN pages)
      BY <2>1
    <3>4. q[x][i] \in DOMAIN pages
      BY <3>3
    <3> QED
      BY <1>7, <3>2, <3>4
  <2>10. r \in [Storages -> Seq(DOMAIN pages')]
    <3>1. r[st] \in Seq(DOMAIN pages')
      <4>1. r[st] \in Seq(DOMAIN pages) /\ Len(r[st]) = n - 1
        BY <2>2, <2>4, <2>5, <2>6
      <4> HIDE DEF r, n
      <4>2. r[st] = [i \in 1..n - 1 |-> r[st][i]] /\ n - 1 \in Nat
        BY <2>2, <2>4, <4>1
      <4> QED
        BY <2>8, <4>2
    <3>2. \A x \in Storages : x # st => q[x] \in Seq(DOMAIN pages')
      <4> TAKE x \in Storages
      <4> HAVE x # st
      <4>1. q[x] \in Seq(DOMAIN pages)
        BY <2>1
      <4>2. q[x] = [i \in 1..Len(q[x]) |-> q[x][i]] /\ Len(q[x]) \in Nat
        BY <4>1
      <4>3. \A i \in 1..Len(q[x]) : q[x][i] \in DOMAIN pages'
        BY <2>9
      <4> QED
        BY <4>2, <4>3
    <3>3. DOMAIN r = Storages /\ r = [x \in Storages |-> r[x]]
      BY <2>1
    <3> HIDE DEF r
    <3> QED
      BY <2>5, <3>1, <3>2, <3>3
  <2> HIDE DEF r
  <2>11. ASSUME NEW x \in Storages
         PROVE  PageList(r[x], stores'[x].page_list, pages')
    <3>1. CASE x # st
      <4>1. PageList(q[x], stores[x].page_list, pages)
        BY <2>1 DEF PageLists
      <4>2. \A i \in 1..Len(q[x]) : pages'[q[x][i]].next = pages[q[x][i]].next
        BY <1>7, <2>9, <3>1
      <4>3. r[x] = q[x] /\ stores'[x].page_list = stores[x].page_list
        BY <1>6, <2>5, <3>1
      <4> QED
        BY <4>1, <4>2, <4>3 DEF PageList
    <3>2. CASE x = st
      <4>1. \A i \in 1..n : pages[q[st][i]].next = IF i = n THEN NULL ELSE q[st][i + 1]
        BY <2>3 DEF PageList
      <4>2. stores'[st].page_list = IF n = 1 THEN NULL ELSE q[st][2]
        <5> HIDE DEF n
        <5>1. 1 \in 1..n
          BY <2>2, <2>4
        <5>2. pages[q[st][1]].next = IF 1 = n THEN NULL ELSE q[st][2]
          BY <4>1, <5>1
        <5> QED
          BY <1>6, <2>4, <5>2
      <4>3. n # 1 => r[st][1] = q[st][2] /\ r[st] # << >>
        <5> HIDE DEF n
        <5> HAVE n # 1
        <5>1. 1 \in 1..n - 1 /\ Len(r[st]) # 0
          BY <2>2, <2>4, <2>6
        <5> QED
          BY <2>6, <5>1
      <4>4. n = 1 => r[st] = << >>
        BY <2>2, <2>5, <2>6
      <4>5. ASSUME NEW i \in 1..n - 1
            PROVE  pages'[r[st][i]].next = IF i = n - 1 THEN NULL ELSE r[st][i + 1]
        <5>1. pages[q[st][i + 1]].next = IF i + 1 = n THEN NULL ELSE q[st][i + 2]
          BY SMTT(30), <2>2, <4>1
        <5>2. i # n - 1 => r[st][i + 1] = q[st][i + 2]
          BY <2>2, <2>6
        <5> QED
          BY <1>7, <2>2, <2>6, <2>8, <5>1, <5>2
      <4> QED
        BY <2>6, <3>2, <4>2, <4>3, <4>4, <4>5 DEF PageList
    <3> QED
      BY <3>1, <3>2
  <2>12. ASSUME NEW p \in DOMAIN pages'
         PROVE  \E x \in Storages : \E i \in 1..Len(r[x]) : r[x][i] = p
    <3>1. PICK x \in Storages : \E i \in 1..Len(q[x]) : q[x][i] = p
      BY <1>7, <2>1 DEF PageLists
    <3>2. PICK i \in 1..Len(q[x]) : q[x][i] = p
      BY <3>1
    <3>3. CASE x = st
      <4>1. i # 1
        BY <1>7, <2>4, <3>2, <3>3
      <4>2. i - 1 \in 1..n - 1 /\ (i - 1) + 1 = i
        BY <2>2, <3>3, <4>1
      <4>3. r[st][i - 1] = p
        BY <2>6, <3>2, <3>3, <4>2
      <4> QED
        BY <2>6, <4>2, <4>3
    <3>4. CASE x # st
      BY <2>5, <3>2, <3>4
    <3> QED
      BY <3>3, <3>4
  <2> HIDE DEF n
  <2>13. ASSUME NEW x \in Storages, NEW y \in Storages,
                NEW i \in 1..Len(r[x]), NEW j \in 1..Len(r[y]), r[x][i] = r[y][j]
         PROVE  x = y /\ i = j
    <3>1. \A k \in 1..n - 1 : k + 1 \in 1..Len(q[st]) /\ r[st][k] = q[st][k + 1]
      BY <2>2, <2>6 DEF n
    <3>2. CASE x # st /\ y # st
      BY <2>5, <2>7, <2>13, <3>2
    <3>3. CASE x = st /\ y = st
      <4>1. i \in 1..n - 1 /\ j \in 1..n - 1
        BY <2>6, <3>3
      <4>2. i + 1 = j + 1
        BY <2>7, <2>13, <3>1, <3>3, <4>1
      <4> QED
        BY <2>2, <3>3, <4>1, <4>2
    <3>4. CASE x = st /\ y # st
      <4>1. i \in 1..n - 1 /\ r[y] = q[y] /\ j \in 1..Len(q[y])
        BY <2>5, <2>6, <3>4
      <4> QED
        BY <2>7, <2>13, <3>1, <3>4, <4>1
    <3>5. CASE x # st /\ y = st
      <4>1. j \in 1..n - 1 /\ r[x] = q[x] /\ i \in 1..Len(q[x])
        BY <2>5, <2>6, <3>5
      <4> QED
        BY <2>7, <2>13, <3>1, <3>5, <4>1
    <3> QED
      BY <3>2, <3>3, <3>4, <3>5
  <2>14. PageLists(r)'
    BY <2>11, <2>12, <2>13 DEF PageLists
  <2> QED
    BY <2>10, <2>14 DEF Paged
<1> QED
  BY <1>4, <1>9, <1>11, <1>12, <1>13 DEF IInv

\* MEM_dispose_storage frees the storage itself.
LEMMA DisposeEndsKeeps ==
    ASSUME IInv, NEW st \in Storages, DisposeEnds(st)
    PROVE  IInv'
<1> DEFINE a == stores[st].block
<1>1. /\ disposing = st /\ stores[st].page_list = NULL /\ st # NULL
      /\ FreeBlock(a) /\ BlocksOK
      /\ stores' = [stores EXCEPT ![st] = Closed]
      /\ disposing' = NULL /\ UNCHANGED <<pages, cells>>
  BY NullAssumption DEF DisposeEnds, IInv
<1>2. /\ stores \in [Storages -> [block : Pointer, page_list : Pointer]]
      /\ DOMAIN pages \subseteq Live /\ StoreBlocks \subseteq Live \ DOMAIN pages
      /\ stores[st] # Closed /\ a # NULL
  BY <1>1 DEF IInv, MemTypeOK, Owned
<1>3. a \in Live /\ a \notin DOMAIN pages
  BY <1>2 DEF StoreBlocks
<1>4. /\ BlocksOK'
      /\ Live' = Live \ {a}
      /\ \A x \in Live' : blocks'[x].size = blocks[x].size
  BY <1>1, <1>3, Freed
<1>5. Closed \in [block : Pointer, page_list : Pointer] /\ Closed.page_list = NULL
      /\ Closed.block = NULL
  BY DEF Closed, Pointer
<1>6. /\ stores' \in [Storages -> [block : Pointer, page_list : Pointer]]
      /\ stores'[st] = Closed
      /\ \A x \in Storages : x # st => stores'[x] = stores[x]
  BY <1>1, <1>2, <1>5
<1>7. \A x \in Storages : stores'[x].page_list = stores[x].page_list
  BY <1>1, <1>5, <1>6
<1>8. \A x \in Storages : x # st => stores[x].block # a
  BY <1>1, <1>2 DEF IInv, Owned
<1>9. MemTypeOK'
  BY <1>1, <1>4, <1>6 DEF IInv, MemTypeOK, BlocksOK
<1>10. Owned'
  <2>1. StoreBlocks' \subseteq StoreBlocks \ {a}
    BY <1>5, <1>6, <1>8 DEF StoreBlocks
  <2>2. StoreBlocks' \subseteq Live' \ DOMAIN pages' /\ DOMAIN pages' \subseteq Live'
    BY <1>1, <1>2, <1>3, <1>4, <2>1
  <2>3. \A x \in Storages : stores'[x].block = NULL => stores'[x] = Closed
    BY <1>6 DEF IInv, Owned
  <2>4. \A x, y \in Storages :
           stores'[x].block = stores'[y].block => x = y \/ stores'[x] = Closed
    BY <1>5, <1>6, <2>3 DEF IInv, Owned
  <2> QED
    BY <1>1, <2>2, <2>3, <2>4 DEF Owned
<1>11. RunsFit'
  <2>1. \A p \in DOMAIN pages : blocks'[p].size = blocks[p].size
    BY <1>2, <1>3, <1>4
  <2> QED
    BY <1>1, <2>1 DEF IInv, RunsFit
<1>12. Paged'
  BY <1>1, <1>7, PagedKept DEF IInv
<1> QED
  BY <1>4, <1>9, <1>10, <1>11, <1>12 DEF IInv

-----------------------------------------------------------------------------

\* Nothing is allocated when the program starts.
LEMMA InitHolds ==
    ASSUME MemInit
    PROVE  IInv
<1>1. Live = {} /\ DOMAIN pages = {} /\ StoreBlocks = {}
  BY DEF MemInit, Live, StoreBlocks, Closed
<1>2. \A st \in Storages : stores[st] = Closed
  BY DEF MemInit
<1>3. MemTypeOK
  BY <1>1 DEF MemInit, MemTypeOK, Pointer, Closed, Live
<1>4. BlocksOK
  <2>1. Lists([i \in 1..0 |-> NULL], 0) /\ [i \in 1..0 |-> NULL] \in [1..0 -> Live]
    BY <1>1 DEF Lists, MemInit
  <2>2. Listed
    BY <2>1 DEF Listed
  <2> QED
    BY <1>1, <1>3, <2>2, FS_EmptySet DEF BlocksOK, MemTypeOK
<1>5. Owned
  BY <1>1, <1>2 DEF MemInit, Owned
<1>6. RunsFit
  BY <1>1 DEF RunsFit
<1>7. Paged
  <2> DEFINE q == [st \in Storages |-> << >>]
  <2>1. q \in [Storages -> Seq(DOMAIN pages)]
    OBVIOUS
  <2>2. \A st \in Storages : Len(q[st]) = 0 /\ q[st] = << >>
    OBVIOUS
  <2> HIDE DEF q
  <2>3. PageLists(q)
    BY <1>1, <1>2, <2>2 DEF PageLists, PageList, Closed
  <2> QED
    BY <2>1, <2>3 DEF Paged
<1> QED
  BY <1>3, <1>4, <1>5, <1>6, <1>7 DEF IInv

\* Every operation of the memory debugger and of the storages.
LEMMA StepKeeps ==
    ASSUME IInv, [MemNext]_memVars
    PROVE  IInv'
<1>1. CASE UNCHANGED memVars
  <2>1. Live' = Live /\ StoreBlocks' = StoreBlocks
    BY <1>1 DEF memVars, Live, StoreBlocks
  <2>2. BlocksOK'
    <3>1. UNCHANGED <<blocks, block_header>> /\ BlocksOK
      BY <1>1 DEF memVars, IInv
    <3>2. Listed'
      <4>1. PICK n \in Nat : \E s \in [1..n -> Live] : Lists(s, n)
        BY <3>1 DEF BlocksOK, Listed
      <4>2. PICK s \in [1..n -> Live] : Lists(s, n)
        BY <4>1
      <4>3. Lists(s, n)'
        BY <2>1, <3>1, <4>2 DEF Lists
      <4> QED
        BY <2>1, <4>2, <4>3 DEF Listed
    <3> QED
      BY <2>1, <3>1, <3>2 DEF BlocksOK
  <2>3. StoreBlocks \cup DOMAIN pages \subseteq Live
    BY DEF IInv, Owned
  <2> QED
    BY <1>1, <2>1, <2>2, <2>3, StoresKept DEF memVars
<1>2. CASE MemNext
  BY <1>2, MallocKeeps, ReallocKeeps, FreeKeeps, OpenStorageKeeps, UsePageKeeps,
     AddPageKeeps, DisposeKeeps, DisposePageKeeps, DisposeEndsKeeps DEF MemNext
<1> QED
  BY <1>1, <1>2

\* The inductive invariant holds in every state, whatever the addresses, the
\* sizes and the storages of the program.
THEOREM Invariance == MemSpec => []IInv
<1>1. MemInit => IInv
  BY InitHolds
<1>2. IInv /\ [MemNext]_memVars => IInv'
  BY StepKeeps
<1> QED
  BY <1>1, <1>2, PTL DEF MemSpec

\* The list of n blocks is as long as there are live blocks.
LEMMA ListLength ==
    ASSUME IsFiniteSet(Live), NEW n \in Nat, NEW s \in [1..n -> Live], Lists(s, n)
    PROVE  n = Cardinality(Live)
<1>1. s \in Bijection(1..n, Live)
  BY DEF Lists, Bijection, Injection, Surjection, IsInjective
<1>2. IsFiniteSet(1..n) /\ Cardinality(1..n) = n
  BY FS_Interval
<1> QED
  BY <1>1, <1>2, FS_Bijection DEF ExistsBijection

\* A storage's list of pages is no longer than there are pages.
LEMMA PagesFewEnough ==
    ASSUME IsFiniteSet(Live), DOMAIN pages \subseteq Live, NEW l \in Seq(DOMAIN pages),
           \A i, j \in 1..Len(l) : l[i] = l[j] => i = j
    PROVE  /\ IsFiniteSet(DOMAIN pages) /\ Cardinality(DOMAIN pages) \in Nat
           /\ Len(l) <= Cardinality(DOMAIN pages)
<1>1. IsFiniteSet(DOMAIN pages) /\ Cardinality(DOMAIN pages) \in Nat
  BY FS_Subset, FS_CardinalityType
<1>2. l \in Injection(1..Len(l), DOMAIN pages)
  BY DEF Injection, IsInjective
<1>3. IsFiniteSet(1..Len(l)) /\ Cardinality(1..Len(l)) = Len(l)
  <2> DEFINE k == Len(l)
  <2>1. k \in Nat
    OBVIOUS
  <2> HIDE DEF k
  <2>2. IsFiniteSet(1..k) /\ Cardinality(1..k) = k
    BY <2>1, FS_Interval
  <2> QED
    BY <2>2 DEF k
<1> QED
  BY <1>1, <1>2, <1>3, FS_Injection

\* Induction over the natural numbers, as a fact about sets.
LEMMA SetInduction ==
    ASSUME NEW T \in SUBSET Nat, 0 \in T, \A n \in T : n + 1 \in T
    PROVE  T = Nat
<1>1. SUFFICES ASSUME T # Nat PROVE FALSE
  OBVIOUS
<1> DEFINE U == Nat \ T
           R == {ss \in Nat \X Nat : ss[1] < ss[2]}
<1>2. U # {} /\ U \subseteq Nat
  BY <1>1
<1>3. IsWellFoundedOn(R, Nat)
  BY NatLessThanWellFounded DEF OpToRel
<1>4. \E x \in U : \A y \in U : <<y, x>> \notin R
  <2> HIDE DEF R
  <2> QED
    BY <1>2, <1>3, WFMin
<1>5. PICK x \in U : \A y \in U : <<y, x>> \notin R
  BY <1>4
<1>6. \A y \in U : ~(y < x)
  BY <1>5
<1>7. x # 0 /\ x - 1 \in Nat /\ x - 1 \in T
  BY <1>6
<1> QED
  BY <1>7

\* The pages on the list that starts at a storage's page_list are those of
\* the list that the invariant speaks of.
LEMMA PagesListed ==
    ASSUME NEW st \in Storages, NEW l \in Seq(DOMAIN pages), NULL \notin DOMAIN pages,
           PageList(l, stores[st].page_list, pages),
           Cardinality(DOMAIN pages) \in Nat, Len(l) <= Cardinality(DOMAIN pages)
    PROVE  PagesOf(st) = {l[i] : i \in 1..Len(l)}
<1> DEFINE m == Cardinality(DOMAIN pages)
           start == {stores[st].page_list} \ {NULL}
           Upto(n) == {l[i] : i \in {k \in 1..Len(l) : k <= n + 1}}
           nexts(A) == {pages[p].next : p \in A} \ {NULL}
<1>1. Len(l) \in Nat /\ \A i \in 1..Len(l) : l[i] \in DOMAIN pages /\ l[i] # NULL
  OBVIOUS
<1>2. stores[st].page_list = IF Len(l) = 0 THEN NULL ELSE l[1]
  BY DEF PageList
<1>3. \A i \in 1..Len(l) : pages[l[i]].next = IF i = Len(l) THEN NULL ELSE l[i + 1]
  BY DEF PageList
<1>4. Upto(0) = start
  BY <1>1, <1>2
<1>5. ASSUME NEW n \in Nat
      PROVE  Upto(n + 1) = Upto(n) \cup nexts(Upto(n))
  <2>1. ASSUME NEW x \in Upto(n + 1)
        PROVE  x \in Upto(n) \cup nexts(Upto(n))
    <3>1. PICK i \in 1..Len(l) : i <= n + 2 /\ x = l[i]
      BY <2>1
    <3>2. CASE i <= n + 1
      BY <3>1, <3>2
    <3>3. CASE i = n + 2
      <4>1. i - 1 \in 1..Len(l) /\ i - 1 <= n + 1 /\ i - 1 # Len(l) /\ (i - 1) + 1 = i
        BY <1>1, <3>3
      <4>2. l[i - 1] \in Upto(n) /\ pages[l[i - 1]].next = l[i]
        BY <1>3, <4>1
      <4> QED
        BY <1>1, <3>1, <4>2
    <3> QED
      BY <1>1, <3>1, <3>2, <3>3
  <2>2. Upto(n) \subseteq Upto(n + 1)
    BY <1>1
  <2>3. ASSUME NEW x \in nexts(Upto(n))
        PROVE  x \in Upto(n + 1)
    <3>1. PICK i \in 1..Len(l) : i <= n + 1 /\ x = pages[l[i]].next /\ x # NULL
      BY <2>3
    <3>2. i + 1 \in 1..Len(l) /\ i + 1 <= n + 2 /\ x = l[i + 1]
      BY <1>1, <1>3, <3>1
    <3> QED
      BY <3>2
  <2> HIDE DEF Upto, nexts
  <2> QED
    BY <2>1, <2>2, <2>3
<1>6. Upto(m) = {l[i] : i \in 1..Len(l)}
  BY <1>1
<1> HIDE DEF Upto
<1>7. \E g : g = [n \in 0..m |-> IF n = 0 THEN start ELSE g[n - 1] \cup nexts(g[n - 1])]
  <2> DEFINE g == [n \in 0..m |-> Upto(n)]
  <2>1. \A n \in 0..m : Upto(n) = IF n = 0 THEN start ELSE g[n - 1] \cup nexts(g[n - 1])
    <3> TAKE n \in 0..m
    <3>1. CASE n = 0
      BY <1>4, <3>1
    <3>2. CASE n # 0
      <4>1. n - 1 \in Nat /\ n - 1 \in 0..m /\ (n - 1) + 1 = n
        BY <3>2
      <4>2. Upto((n - 1) + 1) = Upto(n - 1) \cup nexts(Upto(n - 1))
        BY <1>5, <4>1
      <4>3. g[n - 1] = Upto(n - 1)
        BY <4>1
      <4> HIDE DEF g, nexts
      <4> QED
        BY <3>2, <4>1, <4>2, <4>3
    <3> QED
      BY <3>1, <3>2
  <2>2. g = [n \in 0..m |-> IF n = 0 THEN start ELSE g[n - 1] \cup nexts(g[n - 1])]
    <3> DEFINE G(n) == IF n = 0 THEN start ELSE g[n - 1] \cup nexts(g[n - 1])
    <3>1. \A n \in 0..m : Upto(n) = G(n)
      BY <2>1
    <3> HIDE DEF G
    <3>2. [n \in 0..m |-> Upto(n)] = [n \in 0..m |-> G(n)]
      BY <3>1
    <3> QED
      BY <3>2 DEF G
  <2> QED
    BY <2>2
<1>8. \E g : /\ g = [n \in 0..m |-> IF n = 0 THEN start ELSE g[n - 1] \cup nexts(g[n - 1])]
             /\ PagesOf(st) = g[m]
  BY <1>7 DEF PagesOf
<1>9. PICK g : /\ g = [n \in 0..m |-> IF n = 0 THEN start ELSE g[n - 1] \cup nexts(g[n - 1])]
               /\ PagesOf(st) = g[m]
  BY <1>8
<1>10. g[0] = start /\ \A n \in 1..m : g[n] = g[n - 1] \cup nexts(g[n - 1])
  <2> HIDE DEF nexts, start
  <2>1. \A n \in 0..m : g[n] = IF n = 0 THEN start ELSE g[n - 1] \cup nexts(g[n - 1])
    BY <1>9
  <2>2. 0 \in 0..m /\ \A n \in 1..m : n \in 0..m /\ n # 0
    OBVIOUS
  <2> HIDE DEF m
  <2> QED
    BY <2>1, <2>2
<1> HIDE DEF nexts, start
<1> DEFINE T == {n \in Nat : n <= m => g[n] = Upto(n)}
<1>11. T = Nat
  <2>1. 0 \in T
    BY <1>4, <1>10
  <2>2. ASSUME NEW n \in T
        PROVE  n + 1 \in T
    <3>1. SUFFICES ASSUME n + 1 <= m PROVE g[n + 1] = Upto(n + 1)
      OBVIOUS
    <3>2. g[n] = Upto(n) /\ n \in Nat
      BY <3>1
    <3>3. g[n + 1] = g[(n + 1) - 1] \cup nexts(g[(n + 1) - 1])
      BY <1>10, <3>1, <3>2
    <3>4. (n + 1) - 1 = n
      BY <3>2
    <3> QED
      BY <1>5, <3>2, <3>3, <3>4
  <2> HIDE DEF T
  <2>3. T \in SUBSET Nat
    BY DEF T
  <2> QED
    BY <2>1, <2>2, <2>3, SetInduction
<1>12. g[m] = Upto(m)
  <2>1. m \in T
    BY <1>11
  <2> QED
    BY <2>1
<1> QED
  BY <1>6, <1>9, <1>12

\* The list from block_header goes over each live block once, both ways, and
\* every mark is where it was written (chain_block, rechain_block and
\* unchain_block), in a program with any number of blocks and storages.
THEOREM BlocksListed == MemSpec => []BlockListExact
<1>1. IInv => BlockListExact
  <2> SUFFICES ASSUME IInv PROVE BlockListExact
    OBVIOUS
  <2>1. PICK n \in Nat : \E s \in [1..n -> Live] : Lists(s, n)
    BY DEF IInv, BlocksOK, Listed
  <2>2. PICK s \in [1..n -> Live] : Lists(s, n)
    BY <2>1
  <2>3. n = Cardinality(Live)
    BY <2>2, ListLength DEF IInv, BlocksOK
  <2> QED
    BY <2>2, <2>3 DEF BlockListExact, IInv
<1> QED
  BY <1>1, Invariance, PTL

\* Two allocations from storages share no cell, each lies within a live block,
\* and a page hangs on one storage's list (MEM_storage_malloc_func and
\* MEM_dispose_storage), for any sizes of requests and of pages.
THEOREM CellsApart == MemSpec => []CellsDisjoint
<1>1. IInv => CellsDisjoint
  <2> SUFFICES ASSUME IInv PROVE CellsDisjoint
    OBVIOUS
  <2>1. DOMAIN cells = DOMAIN pages /\ DOMAIN pages \subseteq Live /\ NULL \notin DOMAIN pages
        /\ IsFiniteSet(Live)
    BY NullAssumption DEF IInv, MemTypeOK, Owned, BlocksOK
  <2>2. ASSUME NEW p \in DOMAIN cells, NEW i \in 1..Len(cells[p])
        PROVE  /\ p \in Live
               /\ cells[p][i].first + cells[p][i].num <= blocks[p].size
               /\ \A j \in 1..Len(cells[p]) :
                     i < j => cells[p][i].first + cells[p][i].num <= cells[p][j].first
    <3>1. /\ pages[p].use_cell_num <= pages[p].cell_num
          /\ pages[p].cell_num = blocks[p].size
          /\ cells[p][i].first + cells[p][i].num <= pages[p].use_cell_num
          /\ \A j \in 1..Len(cells[p]) :
                i < j => cells[p][i].first + cells[p][i].num <= cells[p][j].first
      BY <2>1 DEF IInv, RunsFit
    <3>2. pages[p] \in [cell_num : Nat, use_cell_num : Nat, next : Pointer]
      BY <2>1 DEF IInv, MemTypeOK
    <3>3. cells[p][i] \in [first : Nat, num : Nat]
      <4> DEFINE R == [first : Nat, num : Nat]
      <4>1. cells[p] \in Seq(R)
        BY <2>1 DEF IInv, MemTypeOK
      <4> HIDE DEF R
      <4>2. cells[p][i] \in R
        BY <4>1
      <4> QED
        BY <4>2 DEF R
    <3>4. /\ pages[p].use_cell_num \in Nat /\ pages[p].cell_num \in Nat
          /\ cells[p][i].first + cells[p][i].num \in Nat
      BY <3>2, <3>3
    <3> QED
      BY <2>1, <3>1, <3>4
  <2>3. PICK q \in [Storages -> Seq(DOMAIN pages)] : PageLists(q)
    BY DEF IInv, Paged
  <2>4. \A st, other \in Storages : \A i \in 1..Len(q[st]), j \in 1..Len(q[other]) :
           q[st][i] = q[other][j] => st = other /\ i = j
    BY <2>3 DEF PageLists
  <2>5. ASSUME NEW st \in Storages
        PROVE  PagesOf(st) = {q[st][i] : i \in 1..Len(q[st])}
    <3>1. q[st] \in Seq(DOMAIN pages) /\ PageList(q[st], stores[st].page_list, pages)
      BY <2>3 DEF PageLists
    <3>2. \A i, j \in 1..Len(q[st]) : q[st][i] = q[st][j] => i = j
      BY <2>4
    <3>3. /\ Cardinality(DOMAIN pages) \in Nat
          /\ Len(q[st]) <= Cardinality(DOMAIN pages)
      BY <2>1, <3>1, <3>2, PagesFewEnough
    <3> QED
      BY <2>1, <3>1, <3>3, PagesListed
  <2>6. ASSUME NEW p \in DOMAIN pages
        PROVE  \E st \in Storages : \A other \in Storages : p \in PagesOf(other) <=> other = st
    <3>1. PICK st \in Storages : \E i \in 1..Len(q[st]) : q[st][i] = p
      BY <2>3 DEF PageLists
    <3>2. PICK i \in 1..Len(q[st]) : q[st][i] = p
      BY <3>1
    <3>3. ASSUME NEW other \in Storages
          PROVE  p \in PagesOf(other) <=> other = st
      <4>1. p \in PagesOf(other) <=> \E j \in 1..Len(q[other]) : q[other][j] = p
        BY <2>5
      <4> QED
        BY <2>4, <3>2, <4>1
    <3> QED
      BY <3>3
  <2> QED
    BY <2>2, <2>6 DEF CellsDisjoint
<1> QED
  BY <1>1, Invariance, PTL

-----------------------------------------------------------------------------
(* The binary heap: Heap. *)

\* The parent of a cell, and the cells it is the parent of
LEMMA HalfIs ==
    ASSUME NEW i \in Nat \ {0}
    PROVE  /\ i \div 2 \in Nat /\ i \div 2 < i /\ (i # 1 => i \div 2 # 0)
           /\ \A j \in Nat : j = i \div 2 <=> (i = 2 * j \/ i = 2 * j + 1)
  OBVIOUS

\* So does one whose entries depend on entries behind them.
FilledDown(n, X, x0, H, nx, f) ==
    f \in [1..(n + 1) -> X] /\ f[n + 1] = x0 /\ \A i \in 1..n : f[i] = H[<<i, f[nx[i]]>>]

\* There is such a table too.
LEMMA FromAbove ==
    ASSUME NEW n \in Nat, NEW X, NEW x0 \in X, NEW H \in [(1..n) \X X -> X],
           NEW nx \in [1..n -> 1..(n + 1)], \A i \in 1..n : i < nx[i]
    PROVE  \E f : FilledDown(n, X, x0, H, nx, f)
<1> DEFINE flip(i) == n + 1 - i
           G == [z \in (1..n) \X X |-> H[<<flip(z[1]), z[2]>>]]
           pr == [i \in 1..n |-> flip(nx[flip(i)])]
<1>1. \A i \in 1..n : flip(i) \in 1..n /\ nx[flip(i)] \in 1..(n + 1) /\ flip(i) < nx[flip(i)]
  <2>1. \A i \in 1..n : flip(i) \in 1..n
    OBVIOUS
  <2>. QED BY <2>1
<1>2. pr \in [1..n -> Nat] /\ \A i \in 1..n : pr[i] < i
  <2>1. \A i \in 1..n : flip(nx[flip(i)]) \in Nat /\ flip(nx[flip(i)]) < i
    BY <1>1
  <2>. QED BY <2>1
<1>3. G \in [(1..n) \X X -> X]
  <2>1. \A z \in (1..n) \X X : H[<<flip(z[1]), z[2]>>] \in X
    <3>1. \A z \in (1..n) \X X : <<flip(z[1]), z[2]>> \in (1..n) \X X
      BY <1>1
    <3>. QED BY <3>1
  <2>. QED BY <2>1
<1>4. PICK g : Filled(n, X, x0, G, pr, g)
  <2> HIDE DEF G, pr
  <2>. QED BY <1>2, <1>3, FromBelow
<1>5. g \in [0..n -> X] /\ g[0] = x0 /\ \A i \in 1..n : g[i] = H[<<flip(i), g[pr[i]]>>]
  <2>1. g \in [0..n -> X] /\ g[0] = x0 /\ \A i \in 1..n : g[i] = G[<<i, g[pr[i]]>>]
    <3> HIDE DEF G, pr
    <3>. QED BY <1>4 DEF Filled
  <2>2. ASSUME NEW i \in 1..n PROVE g[i] = H[<<flip(i), g[pr[i]]>>]
    <3>1. pr[i] \in 0..n
      BY <1>2
    <3>2. <<i, g[pr[i]]>> \in (1..n) \X X
      <4> HIDE DEF pr
      <4>. QED BY <2>1, <3>1
    <3>3. G[<<i, g[pr[i]]>>] = H[<<flip(i), g[pr[i]]>>]
      <4> HIDE DEF pr
      <4>. QED BY <3>2
    <3> HIDE DEF pr, G
    <3>. QED BY <2>1, <3>3
  <2> HIDE DEF pr
  <2>. QED BY <2>1, <2>2
<1> DEFINE f == [i \in 1..(n + 1) |-> g[flip(i)]]
<1>6. f \in [1..(n + 1) -> X] /\ f[n + 1] = x0
  <2>1. \A i \in 1..(n + 1) : flip(i) \in 0..n
    OBVIOUS
  <2>2. flip(n + 1) = 0 /\ n + 1 \in 1..(n + 1)
    OBVIOUS
  <2> HIDE DEF flip, pr
  <2>. QED BY <1>5, <2>1, <2>2
<1>7. ASSUME NEW i \in 1..n PROVE f[i] = H[<<i, f[nx[i]]>>]
  <2>1. flip(i) \in 1..n /\ flip(flip(i)) = i /\ i \in 1..(n + 1) /\ nx[i] \in 1..(n + 1)
    OBVIOUS
  <2>2. f[i] = g[flip(i)] /\ f[nx[i]] = g[flip(nx[i])]
    BY <2>1
  <2>3. pr[flip(i)] = flip(nx[i])
    BY <2>1
  <2> HIDE DEF f, flip, pr
  <2>. QED BY <1>5, <2>1, <2>2, <2>3
<1>8. FilledDown(n, X, x0, H, nx, f)
  <2> HIDE DEF f
  <2>. QED BY <1>6, <1>7 DEF FilledDown
<1>. QED BY <1>8

-----------------------------------------------------------------------------
(* How often a value is in an array. *)

Cells(n) == [1..n -> Int]
PlacesOf(A, n, v) == {i \in 1..n : A[i] = v}
Num(A, n, v) == Cardinality(PlacesOf(A, n, v))
One(x, v) == IF x = v THEN 1 ELSE 0
Put(A, i, x) == [A EXCEPT ![i] = x]
SameValues(A, B, n) == \A v : Num(A, n, v) = Num(B, n, v)

\* How often a value is in the first n cells is a number, 0 if it is in none.
LEMMA NumIs ==
    ASSUME NEW n \in Nat, NEW A, NEW v
    PROVE  IsFiniteSet(PlacesOf(A, n, v)) /\ Num(A, n, v) \in Nat
           /\ (Num(A, n, v) = 0 <=> PlacesOf(A, n, v) = {})
<1>1. IsFiniteSet(1..n) /\ PlacesOf(A, n, v) \subseteq 1..n
  BY FS_Interval DEF PlacesOf
<1>2. IsFiniteSet(PlacesOf(A, n, v))
  BY <1>1, FS_Subset
<1>. QED BY <1>2, FS_CardinalityType, FS_EmptySet DEF Num

\* Storing one value over another
LEMMA NumStored ==
    ASSUME NEW n \in Nat, NEW A \in Cells(n), NEW i \in 1..n, NEW x \in Int, NEW v
    PROVE  /\ Put(A, i, x) \in Cells(n)
           /\ Num(Put(A, i, x), n, v) = Num(A, n, v) - One(A[i], v) + One(x, v)
<1> DEFINE B == [A EXCEPT ![i] = x]
           S == PlacesOf(A, n, v) \ {i}
<1>1. B \in Cells(n) /\ B[i] = x /\ \A j \in 1..n : j # i => B[j] = A[j]
  BY DEF Cells
<1> HIDE DEF B
<1>2. IsFiniteSet(S) /\ i \notin S /\ Cardinality(S) \in Nat
  <2>1. IsFiniteSet(S)
    BY NumIs, FS_Subset
  <2>. QED BY <2>1, FS_CardinalityType
<1>3. Num(A, n, v) = Cardinality(S) + One(A[i], v)
  <2>1. CASE A[i] = v
    <3>1. PlacesOf(A, n, v) = S \cup {i}
      BY <2>1 DEF PlacesOf
    <3>2. Cardinality(S \cup {i}) = Cardinality(S) + 1
      BY <1>2, FS_AddElement
    <3>. QED BY <2>1, <3>1, <3>2 DEF Num, One
  <2>2. CASE A[i] # v
    <3>1. PlacesOf(A, n, v) = S
      BY <2>2 DEF PlacesOf
    <3>. QED BY <1>2, <2>2, <3>1 DEF Num, One
  <2>. QED BY <2>1, <2>2
<1>4. Num(B, n, v) = Cardinality(S) + One(x, v)
  <2>0. \A j \in 1..n : j # i => (j \in PlacesOf(B, n, v) <=> j \in S)
    BY <1>1 DEF PlacesOf
  <2>1. CASE x = v
    <3>1. PlacesOf(B, n, v) = S \cup {i}
      BY <1>1, <2>1, <2>0 DEF PlacesOf
    <3>2. Cardinality(S \cup {i}) = Cardinality(S) + 1
      BY <1>2, FS_AddElement
    <3>. QED BY <2>1, <3>1, <3>2 DEF Num, One
  <2>2. CASE x # v
    <3>1. PlacesOf(B, n, v) = S
      BY <1>1, <2>2, <2>0 DEF PlacesOf
    <3>. QED BY <1>2, <2>2, <3>1 DEF Num, One
  <2>. QED BY <2>1, <2>2
<1>5. Num(B, n, v) = Num(A, n, v) - One(A[i], v) + One(x, v)
  <2>1. One(A[i], v) \in Int /\ One(x, v) \in Int
    BY DEF One
  <2>. QED BY <1>2, <1>3, <1>4, <2>1
<1>. QED BY <1>1, <1>5 DEF B, Put

\* The step of both sifts: what was at p goes to i, where k would have gone, and
\* k goes to p or where that call puts it.
LEMMA Exchanged ==
    ASSUME NEW n \in Nat, NEW arr \in Cells(n), NEW B \in Cells(n), NEW p \in 1..n, NEW i \in 1..n,
           NEW k \in Int, B[i] = arr[i], p # i, SameValues(B, Put(arr, p, k), n)
    PROVE  SameValues(Put(B, i, arr[p]), Put(arr, i, k), n)
<1>1. arr[p] \in Int /\ arr[i] \in Int
  BY DEF Cells
<1>2. ASSUME NEW v PROVE Num(Put(B, i, arr[p]), n, v) = Num(Put(arr, i, k), n, v)
  <2>1. Num(Put(B, i, arr[p]), n, v) = Num(B, n, v) - One(arr[i], v) + One(arr[p], v)
    <3>1. Num(Put(B, i, arr[p]), n, v) = Num(B, n, v) - One(B[i], v) + One(arr[p], v)
      BY <1>1, NumStored
    <3>. QED BY <3>1
  <2>2. Num(B, n, v) = Num(Put(arr, p, k), n, v)
    BY DEF SameValues
  <2>3. Num(Put(arr, p, k), n, v) = Num(arr, n, v) - One(arr[p], v) + One(k, v)
    BY NumStored
  <2>4. Num(Put(arr, i, k), n, v) = Num(arr, n, v) - One(arr[i], v) + One(k, v)
    BY NumStored
  <2>5. Num(arr, n, v) \in Nat
    BY NumIs
  <2>6. One(arr[i], v) \in Int /\ One(arr[p], v) \in Int /\ One(k, v) \in Int
    BY DEF One
  <2>. QED BY <2>1, <2>2, <2>3, <2>4, <2>5, <2>6
<1>. QED BY <1>2 DEF SameValues

-----------------------------------------------------------------------------
(* _heap_sift_up of the last cell. *)

ClimbStep(arr, k, i, A) ==
    IF i = 1 \/ Compare(arr[i \div 2], k) <= 0 THEN Put(arr, i, k) ELSE Put(A, i, arr[i \div 2])

Climbs(arr, n, index, f) ==
    /\ f \in [1..index -> Cells(n)]
    /\ \A i \in 1..index : f[i] = ClimbStep(arr, arr[index], i, f[i \div 2])

\* SiftUp follows such a table from the last entry on.
LEMMA ClimbIs ==
    ASSUME NEW n \in Nat, NEW arr \in Cells(n), NEW index \in 1..n
    PROVE  \E f : Climbs(arr, n, index, f) /\ SiftUp(arr, index) = f[index]
<1> DEFINE Go(i, A) == ClimbStep(arr, arr[index], i, A)
           Is(f) == f = [i \in 1..index |-> Go(i, f[i \div 2])]
           climb == CHOOSE f : Is(f)
           H == [z \in (1..index) \X Cells(n) |-> Go(z[1], z[2])]
           pr == [i \in 1..index |-> i \div 2]
<1>1. SiftUp(arr, index) = climb[index]
  BY DEF SiftUp, Put, ClimbStep
<1>2. pr \in [1..index -> Nat] /\ \A i \in 1..index : pr[i] < i
  <2>1. \A i \in 1..index : i \div 2 \in Nat /\ i \div 2 < i
    BY HalfIs
  <2>. QED BY <2>1
<1>3. /\ index \in Nat /\ 1..index \subseteq 1..n
      /\ \A i \in 1..index : i # 1 => i \div 2 \in 1..index
  <2>1. \A i \in 1..index : i # 1 => i \div 2 \in Nat /\ i \div 2 < i /\ i \div 2 # 0
    BY HalfIs
  <2>. QED BY <2>1
<1>4. \A i \in 1..index, A \in Cells(n) : Go(i, A) \in Cells(n)
  <2>1. ASSUME NEW i \in 1..index, NEW A \in Cells(n)
        PROVE  Go(i, A) \in Cells(n)
    <3>1. arr[index] \in Int /\ i \in 1..n
      BY <1>3 DEF Cells
    <3>2. i # 1 => arr[i \div 2] \in Int
      BY <1>3 DEF Cells
    <3>3. \A x \in Int : Put(A, i, x) \in Cells(n) /\ Put(arr, i, x) \in Cells(n)
      BY <3>1, NumStored
    <3>. QED BY <3>1, <3>2, <3>3 DEF ClimbStep
  <2>. QED BY <2>1
<1> HIDE DEF Go
<1>5. H \in [(1..index) \X Cells(n) -> Cells(n)]
  <2>1. \A z \in (1..index) \X Cells(n) : Go(z[1], z[2]) \in Cells(n)
    BY <1>4
  <2>. QED BY <2>1
<1>6. PICK g : Filled(index, Cells(n), arr, H, pr, g)
  <2> HIDE DEF H, pr
  <2>. QED BY <1>2, <1>3, <1>5, FromBelow
<1>7. g \in [0..index -> Cells(n)] /\ \A i \in 1..index : g[i] = Go(i, g[i \div 2])
  <2>1. g \in [0..index -> Cells(n)] /\ \A i \in 1..index : g[i] = H[<<i, g[i \div 2]>>]
    <3> HIDE DEF H
    <3>. QED BY <1>6 DEF Filled
  <2>2. ASSUME NEW i \in 1..index PROVE <<i, g[i \div 2]>> \in (1..index) \X Cells(n)
    <3>1. i \div 2 \in 0..index
      BY HalfIs
    <3>. QED BY <2>1, <3>1
  <2>. QED BY <2>1, <2>2
<1> HIDE DEF H, pr
<1>8. \A A, B : Go(1, A) = Go(1, B)
  BY DEF Go, ClimbStep
<1> DEFINE f == [i \in 1..index |-> g[i]]
<1>9. Is(f)
  <2>1. \A i \in 1..index : g[i] = Go(i, f[i \div 2])
    <3>1. ASSUME NEW i \in 1..index PROVE g[i] = Go(i, f[i \div 2])
      <4>1. CASE i = 1
        BY <1>7, <1>8, <4>1
      <4>2. CASE i # 1
        <5>1. f[i \div 2] = g[i \div 2]
          BY <1>3, <4>2
        <5> HIDE DEF f
        <5>. QED BY <1>7, <5>1
      <4>. QED BY <4>1, <4>2
    <3>. QED BY <3>1
  <2>2. f = [i \in 1..index |-> g[i]]
    OBVIOUS
  <2> HIDE DEF f
  <2>. QED BY <2>1, <2>2
<1>10. Is(climb)
  <2> HIDE DEF f, Is
  <2>. QED BY <1>9
<1>11. /\ climb = [i \in 1..index |-> climb[i]]
       /\ \A i \in 1..index : climb[i] = Go(i, climb[i \div 2])
  <2> HIDE DEF climb
  <2>. QED BY <1>10
<1> HIDE DEF climb
<1>12. \A i \in 1..index : climb[i] \in Cells(n)
  <2> DEFINE T == {m \in Nat : \A i \in 1..index : i <= m => climb[i] \in Cells(n)}
  <2>1. 0 \in T
    OBVIOUS
  <2>2. ASSUME NEW m \in T PROVE m + 1 \in T
    <3>1. ASSUME NEW i \in 1..index, i = m + 1 PROVE climb[i] \in Cells(n)
      <4>1. CASE i = 1
        <5>1. PICK A : A = climb[i \div 2]
          OBVIOUS
        <5>2. climb[i] = Go(i, A)
          BY <1>11, <5>1
        <5>3. Go(i, A) = Go(i, arr) /\ Go(i, arr) \in Cells(n)
          BY <1>4, <1>8, <4>1
        <5>. QED BY <5>2, <5>3
      <4>2. CASE i # 1
        <5>1. i \div 2 \in 1..index /\ i \div 2 <= m
          BY <1>3, <3>1, <4>2, HalfIs
        <5>2. climb[i \div 2] \in Cells(n)
          BY <5>1
        <5>. QED BY <1>4, <1>11, <5>2
      <4>. QED BY <4>1, <4>2
    <3>. QED BY <3>1
  <2>3. T = Nat
    <3> HIDE DEF T
    <3>1. T \in SUBSET Nat
      BY DEF T
    <3>. QED BY <2>1, <2>2, <3>1, NatSets
  <2>4. index \in T
    BY <1>3, <2>3
  <2>. QED BY <2>4
<1>13. Climbs(arr, n, index, climb)
  BY <1>11, <1>12 DEF Climbs, Go
<1>. QED BY <1>1, <1>13

\* What arr is once k, its last cell, has climbed from cell i
Raised(arr, n, i, A) ==
    /\ A \in Cells(n)
    /\ \A j \in 1..n : /\ j > i => A[j] = arr[j]
                       /\ j < i => A[j] <= arr[j]
    /\ i < n => A[i] <= arr[i]
    /\ \A j \in 2..n : (j = n /\ i < n) \/ A[j \div 2] <= A[j]
    /\ SameValues(A, Put(arr, i, arr[n]), n)

\* Every cell behind lo's children is at least its parent; lo = 1 makes a heap.
OrderedFrom(A, n, lo) == \A j \in 2..n : j \div 2 >= lo => A[j \div 2] <= A[j]

\* What is stored in a cell
LEMMA PutIs ==
    ASSUME NEW n \in Nat, NEW A \in Cells(n), NEW i \in 1..n, NEW x \in Int
    PROVE  /\ Put(A, i, x) \in Cells(n) /\ Put(A, i, x)[i] = x
           /\ \A j \in 1..n : j # i => Put(A, i, x)[j] = A[j]
  BY DEF Cells, Put

\* k stays at i.
LEMMA RaisedStop ==
    ASSUME NEW n \in Nat, NEW arr \in Cells(n), \A j \in 2..(n - 1) : arr[j \div 2] <= arr[j],
           NEW i \in 1..n, i = n \/ arr[n] < arr[i], i = 1 \/ arr[i \div 2] <= arr[n]
    PROVE  Raised(arr, n, i, Put(arr, i, arr[n]))
<1> DEFINE A == Put(arr, i, arr[n])
<1>1. arr[n] \in Int /\ \A j \in 1..n : arr[j] \in Int
  BY DEF Cells
<1>2. A \in Cells(n) /\ A[i] = arr[n] /\ \A j \in 1..n : j # i => A[j] = arr[j]
  BY <1>1, PutIs
<1> HIDE DEF A
<1>3. ASSUME NEW j \in 2..n, ~(j = n /\ i < n) PROVE A[j \div 2] <= A[j]
  <2>1. j \div 2 \in 1..n /\ j \div 2 < j
    BY HalfIs
  <2>2. CASE j = i
    <3>1. A[j] = arr[n] /\ A[j \div 2] = arr[j \div 2]
      BY <1>2, <2>1, <2>2
    <3>. QED BY <2>2, <3>1
  <2>3. CASE j # i
    <3>1. j \in 2..(n - 1) /\ A[j] = arr[j] /\ arr[j \div 2] <= arr[j]
      BY <1>2, <1>3, <2>3
    <3>2. CASE j \div 2 = i
      <4>1. A[j \div 2] = arr[n] /\ arr[n] < arr[i] /\ arr[i] <= arr[j]
        BY <1>2, <3>1, <3>2, <2>1
      <4>. QED BY <1>1, <3>1, <4>1
    <3>3. CASE j \div 2 # i
      BY <1>2, <2>1, <3>1, <3>3
    <3>. QED BY <3>2, <3>3
  <2>. QED BY <2>2, <2>3
<1>4. SameValues(A, A, n)
  BY DEF SameValues
<1>5. \A j \in 1..n : /\ j > i => A[j] = arr[j]
                      /\ j < i => A[j] <= arr[j]
  BY <1>1, <1>2
<1>6. i < n => A[i] <= arr[i]
  BY <1>1, <1>2
<1>. QED BY <1>2, <1>3, <1>4, <1>5, <1>6 DEF Raised, A

\* The parent's value comes down to i, and k climbs on from there.
LEMMA RaisedStep ==
    ASSUME NEW n \in Nat, NEW arr \in Cells(n), \A j \in 2..(n - 1) : arr[j \div 2] <= arr[j],
           NEW i \in 2..n, i = n \/ arr[n] < arr[i], arr[n] < arr[i \div 2],
           NEW B, Raised(arr, n, i \div 2, B)
    PROVE  Raised(arr, n, i, Put(B, i, arr[i \div 2]))
<1>1. i \div 2 \in 1..n /\ i \div 2 < i /\ i \in 1..n
  BY HalfIs
<1>2. PICK p : p = i \div 2
  OBVIOUS
<1>3. p \in 1..n /\ p < i /\ p < n
  BY <1>1, <1>2
<1>4. /\ B \in Cells(n) /\ \A j \in 1..n : B[j] \in Int
      /\ \A j \in 1..n : j > p => B[j] = arr[j]
      /\ \A j \in 1..n : j <= p => B[j] <= arr[j]
      /\ \A j \in 2..n : j = n \/ B[j \div 2] <= B[j]
      /\ SameValues(B, Put(arr, p, arr[n]), n)
  <2>1. Raised(arr, n, p, B)
    BY <1>2
  <2>2. \A j \in 1..n : j <= p => j < p \/ j = p
    BY <1>3
  <2>3. B \in Cells(n) /\ \A j \in 1..n : B[j] \in Int
    BY <2>1 DEF Raised, Cells
  <2>. QED BY <1>3, <2>1, <2>2, <2>3 DEF Raised
<1>5. arr[n] \in Int /\ \A j \in 1..n : arr[j] \in Int
  BY DEF Cells
<1> DEFINE A == Put(B, i, arr[p])
<1>6. A \in Cells(n) /\ A[i] = arr[p] /\ \A j \in 1..n : j # i => A[j] = B[j]
  <2>1. B \in Cells(n) /\ arr[p] \in Int
    BY <1>3, <1>4, <1>5
  <2>. QED BY <1>1, <2>1, PutIs
<1>7. SameValues(A, Put(arr, i, arr[n]), n)
  BY <1>1, <1>3, <1>4, <1>5, Exchanged
<1> HIDE DEF A
<1>8. i < n => arr[p] <= arr[i]
  BY <1>1, <1>2
<1>9. ASSUME NEW j \in 2..n, ~(j = n /\ i < n) PROVE A[j \div 2] <= A[j]
  <2>1. PICK q : q = j \div 2
    OBVIOUS
  <2>2. q \in 1..n /\ q < j
    BY <2>1, HalfIs
  <2>3. CASE j = i
    <3>1. q = p /\ A[j] = arr[p] /\ A[q] = B[p] /\ B[p] <= arr[p]
      BY <1>2, <1>3, <1>4, <1>6, <2>1, <2>3
    <3>. QED BY <2>1, <3>1
  <2>4. CASE j # i /\ q = i
    <3>1. j < n /\ j > p /\ i < n
      BY <1>3, <1>9, <2>2, <2>4
    <3>2. A[j] = arr[j] /\ A[q] = arr[p] /\ arr[p] <= arr[i] /\ arr[i] <= arr[j]
      <4>1. A[j] = arr[j] /\ A[q] = arr[p] /\ arr[p] <= arr[i]
        BY <1>4, <1>6, <1>8, <2>4, <3>1
      <4>2. j \in 2..(n - 1) /\ j \div 2 = i
        BY <2>1, <2>4, <3>1
      <4>3. arr[j \div 2] <= arr[j]
        BY <4>2
      <4>. QED BY <4>1, <4>2, <4>3
    <3>. QED BY <1>1, <1>3, <1>5, <2>1, <3>2
  <2>5. CASE j # i /\ q # i
    <3>1. A[j] = B[j] /\ A[q] = B[q] /\ j # n
      BY <1>1, <1>6, <1>9, <2>2, <2>5
    <3>2. B[j \div 2] <= B[j]
      BY <1>4, <3>1
    <3>. QED BY <2>1, <3>1, <3>2
  <2>. QED BY <2>3, <2>4, <2>5
<1>10. ASSUME NEW j \in 1..n PROVE (j > i => A[j] = arr[j]) /\ (j < i => A[j] <= arr[j])
  <2>1. j > p \/ j <= p
    BY <1>3
  <2>2. B[j] <= arr[j]
    BY <1>4, <1>5, <2>1
  <2>. QED BY <1>1, <1>3, <1>4, <1>6, <2>2
<1>11. i < n => A[i] <= arr[i]
  BY <1>6, <1>8
<1>12. Raised(arr, n, i, A)
  BY <1>6, <1>7, <1>9, <1>10, <1>11 DEF Raised
<1>. QED BY <1>2, <1>12 DEF A

\* _heap_sift_up of the last cell makes a heap of one that lacks only that.
LEMMA SiftUpIs ==
    ASSUME NEW n \in Nat \ {0}, NEW arr \in Cells(n), \A j \in 2..(n - 1) : arr[j \div 2] <= arr[j]
    PROVE  /\ SiftUp(arr, n) \in Cells(n) /\ OrderedFrom(SiftUp(arr, n), n, 1)
           /\ SameValues(SiftUp(arr, n), arr, n)
<1>1. PICK f : Climbs(arr, n, n, f) /\ SiftUp(arr, n) = f[n]
  BY ClimbIs
<1> DEFINE k == arr[n]
           T == {m \in Nat : \A i \in 1..n : i <= m /\ (i = n \/ k < arr[i]) => Raised(arr, n, i, f[i])}
<1>2. 0 \in T
  OBVIOUS
<1>3. ASSUME NEW m \in T PROVE m + 1 \in T
  <2>1. ASSUME NEW i \in 1..n, i = m + 1, i = n \/ k < arr[i] PROVE Raised(arr, n, i, f[i])
    <3>1. f[i] = ClimbStep(arr, k, i, f[i \div 2])
      BY <1>1 DEF Climbs
    <3>2. k \in Int /\ \A j \in 1..n : arr[j] \in Int
      BY DEF Cells
    <3>3. i # 1 => i \div 2 \in 1..n /\ i \div 2 <= m
      BY <2>1, HalfIs
    <3>4. CASE i = 1 \/ arr[i \div 2] <= k
      <4>1. f[i] = Put(arr, i, k)
        BY <3>1, <3>2, <3>3, <3>4 DEF ClimbStep, Compare
      <4>. QED BY <2>1, <3>4, <4>1, RaisedStop
    <3>5. CASE i # 1 /\ ~(arr[i \div 2] <= k)
      <4>1. k < arr[i \div 2] /\ i \in 2..n
        BY <3>2, <3>3, <3>5
      <4>2. f[i] = Put(f[i \div 2], i, arr[i \div 2])
        BY <3>1, <3>2, <3>3, <3>5 DEF ClimbStep, Compare
      <4>3. Raised(arr, n, i \div 2, f[i \div 2])
        BY <3>3, <3>5, <4>1
      <4>. QED BY <2>1, <4>1, <4>2, <4>3, RaisedStep
    <3>. QED BY <3>4, <3>5
  <2>. QED BY <2>1
<1>4. T = Nat
  <2> HIDE DEF T
  <2>1. T \in SUBSET Nat
    BY DEF T
  <2>. QED BY <1>2, <1>3, <2>1, NatSets
<1>5. Raised(arr, n, n, f[n])
  <2>1. n \in T /\ n \in 1..n
    <3> HIDE DEF T
    <3>. QED BY <1>4
  <2>. QED BY <2>1
<1>6. SameValues(Put(arr, n, arr[n]), arr, n) /\ Put(arr, n, arr[n]) = arr
  BY DEF Put, Cells, SameValues
<1>. QED BY <1>1, <1>5, <1>6 DEF Raised, OrderedFrom

-----------------------------------------------------------------------------
(* _heap_sift_down. *)

\* The smaller of the children of a cell that has any
LEMMA ChildIs ==
    ASSUME NEW n \in Nat, NEW arr \in Cells(n), NEW i \in 1..n, NEW c, c = SmallerChild(arr, n, i),
           2 * i <= n
    PROVE  /\ c \in 1..n /\ i < c /\ c \div 2 = i
           /\ \A j \in 1..n : j \div 2 = i => arr[c] <= arr[j]
<1>1. \A j \in 1..n : j \div 2 = i <=> (j = 2 * i \/ j = 2 * i + 1)
  <2>1. \A j \in 1..n : i = j \div 2 <=> (j = 2 * i \/ j = 2 * i + 1)
    BY HalfIs
  <2>. QED BY <2>1
<1>2. \A j \in 1..n : arr[j] \in Int
  BY DEF Cells
<1>3. 2 * i \in 1..n /\ i < 2 * i
  OBVIOUS
<1>4. CASE 2 * i < n /\ arr[2 * i] - arr[2 * i + 1] > 0
  <2>1. c = 2 * i + 1 /\ c \in 1..n /\ arr[c] <= arr[2 * i]
    BY <1>2, <1>3, <1>4 DEF SmallerChild, Compare
  <2>. QED BY <1>1, <1>2, <1>3, <2>1
<1>5. CASE ~(2 * i < n /\ arr[2 * i] - arr[2 * i + 1] > 0)
  <2>1. c = 2 * i
    BY <1>5 DEF SmallerChild, Compare
  <2>2. 2 * i + 1 \in 1..n => arr[c] <= arr[2 * i + 1]
    <3>1. ASSUME 2 * i + 1 \in 1..n PROVE arr[c] <= arr[2 * i + 1]
      <4>1. 2 * i < n /\ arr[2 * i] \in Int /\ arr[2 * i + 1] \in Int
        BY <1>2, <1>3, <3>1
      <4>. QED BY <1>5, <2>1, <4>1
    <3>. QED BY <3>1
  <2>. QED BY <1>1, <1>2, <1>3, <2>1, <2>2
<1>. QED BY <1>4, <1>5

SinkStep(arr, n, k, i, A) ==
    LET c == SmallerChild(arr, n, i) IN
    IF 2 * i > n \/ Compare(k, arr[c]) <= 0 THEN Put(arr, i, k) ELSE Put(A, i, arr[c])

Sinks(arr, n, index, f) ==
    /\ f \in [1..n -> Cells(n)]
    /\ \A i \in 1..n : f[i] = SinkStep(arr, n, arr[index], i, f[SmallerChild(arr, n, i)])

\* SiftDown follows such a table from the first entry on.
LEMMA SinkIs ==
    ASSUME NEW n \in Nat, NEW arr \in Cells(n), NEW index \in 1..n
    PROVE  \E f : Sinks(arr, n, index, f) /\ SiftDown(arr, n, index) = f[index]
<1> DEFINE Go(i, A) == SinkStep(arr, n, arr[index], i, A)
           Child(i) == SmallerChild(arr, n, i)
           Is(f) == f = [i \in 1..n |-> Go(i, f[Child(i)])]
           sink == CHOOSE f : Is(f)
           H == [z \in (1..n) \X Cells(n) |-> Go(z[1], z[2])]
           Behind(i) == IF 2 * i <= n THEN Child(i) ELSE n + 1
           nx == [i \in 1..n |-> Behind(i)]
<1>1. SiftDown(arr, n, index) = sink[index]
  BY DEF SiftDown, Put, SinkStep
<1>2. \A i \in 1..n : 2 * i <= n => Child(i) \in 1..n /\ i < Child(i)
  BY ChildIs
<1>3. \A i \in 1..n : \A A, B : 2 * i > n => Go(i, A) = Go(i, B)
  BY DEF SinkStep
<1>4. \A i \in 1..n, A \in Cells(n) : Go(i, A) \in Cells(n)
  <2>1. ASSUME NEW i \in 1..n, NEW A \in Cells(n) PROVE Go(i, A) \in Cells(n)
    <3>1. arr[index] \in Int /\ (2 * i <= n => arr[Child(i)] \in Int)
      BY <1>2 DEF Cells
    <3>2. \A x \in Int : Put(A, i, x) \in Cells(n) /\ Put(arr, i, x) \in Cells(n)
      BY PutIs
    <3>3. CASE 2 * i > n
      BY <3>1, <3>2, <3>3 DEF SinkStep
    <3>4. CASE ~(2 * i > n)
      <4>1. 2 * i <= n
        BY <3>4
      <4> HIDE DEF Child
      <4>. QED BY <3>1, <3>2, <4>1 DEF SinkStep, Child
    <3>. QED BY <3>3, <3>4
  <2>. QED BY <2>1
<1> HIDE DEF Go, Child
<1>5. H \in [(1..n) \X Cells(n) -> Cells(n)]
  <2>1. \A z \in (1..n) \X Cells(n) : Go(z[1], z[2]) \in Cells(n)
    BY <1>4
  <2>. QED BY <2>1
<1>6. nx \in [1..n -> 1..(n + 1)] /\ \A i \in 1..n : i < nx[i]
  <2>1. \A i \in 1..n : Behind(i) \in 1..(n + 1) /\ i < Behind(i)
    BY <1>2
  <2> HIDE DEF Behind
  <2>. QED BY <2>1
<1>7. PICK g : FilledDown(n, Cells(n), arr, H, nx, g)
  <2> HIDE DEF H, nx
  <2>. QED BY <1>5, <1>6, FromAbove
<1>8. g \in [1..(n + 1) -> Cells(n)] /\ \A i \in 1..n : g[i] = Go(i, g[Behind(i)])
  <2>1. g \in [1..(n + 1) -> Cells(n)] /\ \A i \in 1..n : g[i] = H[<<i, g[nx[i]]>>]
    <3> HIDE DEF H, nx
    <3>. QED BY <1>7 DEF FilledDown
  <2>2. ASSUME NEW i \in 1..n PROVE nx[i] = Behind(i) /\ <<i, g[nx[i]]>> \in (1..n) \X Cells(n)
    <3>1. nx[i] \in 1..(n + 1)
      BY <1>6
    <3>2. nx[i] = Behind(i)
      OBVIOUS
    <3> HIDE DEF nx, Behind
    <3>. QED BY <2>1, <3>1, <3>2
  <2>3. ASSUME NEW i \in 1..n PROVE g[i] = Go(i, g[nx[i]])
    <3>1. H[<<i, g[nx[i]]>>] = Go(i, g[nx[i]])
      <4> HIDE DEF nx
      <4>. QED BY <2>2
    <3> HIDE DEF H, nx
    <3>. QED BY <2>1, <3>1
  <2> HIDE DEF nx, H, Behind
  <2>. QED BY <2>1, <2>2, <2>3
<1> HIDE DEF H, nx
<1> DEFINE f == [i \in 1..n |-> g[i]]
<1>9. Is(f)
  <2>1. \A i \in 1..n : g[i] = Go(i, f[Child(i)])
    <3>1. ASSUME NEW i \in 1..n PROVE g[i] = Go(i, f[Child(i)])
      <4>1. CASE 2 * i > n
        <5> HIDE DEF f, Behind
        <5>. QED BY <1>3, <1>8, <4>1
      <4>2. CASE ~(2 * i > n)
        <5>1. 2 * i <= n
          BY <4>2
        <5>2. f[Child(i)] = g[Child(i)] /\ Behind(i) = Child(i)
          BY <1>2, <5>1
        <5> HIDE DEF f, Behind
        <5>. QED BY <1>8, <5>2
      <4>. QED BY <4>1, <4>2
    <3>. QED BY <3>1
  <2>2. f = [i \in 1..n |-> g[i]]
    OBVIOUS
  <2> HIDE DEF f
  <2>. QED BY <2>1, <2>2
<1>10. Is(sink)
  <2> HIDE DEF f, Is
  <2>. QED BY <1>9
<1>11. /\ sink = [i \in 1..n |-> sink[i]]
       /\ \A i \in 1..n : sink[i] = Go(i, sink[Child(i)])
  <2> HIDE DEF sink
  <2>. QED BY <1>10
<1> HIDE DEF sink
<1>12. \A i \in 1..n : sink[i] \in Cells(n)
  <2> DEFINE T == {m \in Nat : \A i \in 1..n : i > n - m => sink[i] \in Cells(n)}
  <2>1. 0 \in T
    OBVIOUS
  <2>2. ASSUME NEW m \in T PROVE m + 1 \in T
    <3>1. ASSUME NEW i \in 1..n, i = n - m PROVE sink[i] \in Cells(n)
      <4>1. CASE 2 * i > n
        <5>1. sink[i] = Go(i, arr) /\ Go(i, arr) \in Cells(n)
          BY <1>3, <1>4, <1>11, <4>1
        <5>. QED BY <5>1
      <4>2. CASE 2 * i <= n
        <5>1. Child(i) \in 1..n /\ Child(i) > n - m
          BY <1>2, <3>1, <4>2
        <5>2. sink[Child(i)] \in Cells(n)
          BY <5>1
        <5>. QED BY <1>4, <1>11, <5>2
      <4>. QED BY <4>1, <4>2
    <3>2. \A i \in 1..n : i > n - (m + 1) => i = n - m \/ i > n - m
      OBVIOUS
    <3>. QED BY <3>1, <3>2
  <2>3. T = Nat
    <3> HIDE DEF T
    <3>1. T \in SUBSET Nat
      BY DEF T
    <3>. QED BY <2>1, <2>2, <3>1, NatSets
  <2>4. n \in T
    <3> HIDE DEF T
    <3>. QED BY <2>3
  <2>. QED BY <2>4
<1>13. Sinks(arr, n, index, sink)
  BY <1>11, <1>12 DEF Sinks, Go, Child
<1>. QED BY <1>1, <1>13

\* What arr is once k, from cell index, has sunk from cell i
Lowered(arr, n, index, i, A) ==
    /\ A \in Cells(n)
    /\ \A j \in 1..n : /\ j < i => A[j] = arr[j]
                       /\ j > i => A[j] >= arr[j]
    /\ i > index => A[i] >= arr[i]
    /\ \A j \in 2..n : (j \div 2 > index \/ j \div 2 = i) /\ j # i => A[j \div 2] <= A[j]
    /\ SameValues(A, Put(arr, i, arr[index]), n)

\* k stays at i.
LEMMA LoweredStop ==
    ASSUME NEW n \in Nat, NEW arr \in Cells(n), NEW index \in 1..n, OrderedFrom(arr, n, index + 1),
           NEW i \in 1..n, i = index \/ (index < i /\ arr[index] > arr[i]),
           \A j \in 1..n : j \div 2 = i => arr[index] <= arr[j]
    PROVE  Lowered(arr, n, index, i, Put(arr, i, arr[index]))
<1> DEFINE A == Put(arr, i, arr[index])
<1>1. arr[index] \in Int /\ \A j \in 1..n : arr[j] \in Int
  BY DEF Cells
<1>2. A \in Cells(n) /\ A[i] = arr[index] /\ \A j \in 1..n : j # i => A[j] = arr[j]
  BY <1>1, PutIs
<1> HIDE DEF A
<1>3. ASSUME NEW j \in 2..n, j \div 2 > index \/ j \div 2 = i, j # i PROVE A[j \div 2] <= A[j]
  <2>1. PICK q : q = j \div 2
    OBVIOUS
  <2>2. q \in 1..n /\ j \in 1..n
    BY <2>1, HalfIs
  <2>3. CASE q = i
    <3>1. A[q] = arr[index] /\ A[j] = arr[j] /\ arr[index] <= arr[j]
      BY <1>2, <1>3, <2>1, <2>2, <2>3
    <3>. QED BY <2>1, <3>1
  <2>4. CASE q # i
    <3>1. A[q] = arr[q] /\ A[j] = arr[j]
      BY <1>2, <1>3, <2>2, <2>4
    <3>2. arr[j \div 2] <= arr[j]
      BY <1>3, <2>1, <2>2, <2>4 DEF OrderedFrom
    <3>. QED BY <2>1, <3>1, <3>2
  <2>. QED BY <2>3, <2>4
<1>4. SameValues(A, A, n)
  BY DEF SameValues
<1>5. \A j \in 1..n : /\ j < i => A[j] = arr[j]
                      /\ j > i => A[j] >= arr[j]
  BY <1>1, <1>2
<1>6. i > index => A[i] >= arr[i]
  BY <1>1, <1>2
<1>. QED BY <1>2, <1>3, <1>4, <1>5, <1>6 DEF Lowered, A

\* The smaller child moves up to i, and k sinks on from its place.
LEMMA LoweredStep ==
    ASSUME NEW n \in Nat, NEW arr \in Cells(n), NEW index \in 1..n, OrderedFrom(arr, n, index + 1),
           NEW i \in 1..n, i = index \/ (index < i /\ arr[index] > arr[i]),
           NEW c \in 1..n, i < c, c \div 2 = i, \A j \in 1..n : j \div 2 = i => arr[c] <= arr[j],
           NEW B, Lowered(arr, n, index, c, B)
    PROVE  Lowered(arr, n, index, i, Put(B, i, arr[c]))
<1>1. arr[index] \in Int /\ (\A j \in 1..n : arr[j] \in Int) /\ index < c
  BY DEF Cells
<1>2. /\ B \in Cells(n) /\ \A j \in 1..n : B[j] \in Int
      /\ \A j \in 1..n : /\ j < c => B[j] = arr[j]
                         /\ B[j] >= arr[j]
      /\ \A j \in 2..n : (j \div 2 > index \/ j \div 2 = c) /\ j # c => B[j \div 2] <= B[j]
      /\ SameValues(B, Put(arr, c, arr[index]), n)
  <2>1. B \in Cells(n) /\ \A j \in 1..n : B[j] \in Int
    BY DEF Lowered, Cells
  <2>2. ASSUME NEW j \in 1..n PROVE (j < c => B[j] = arr[j]) /\ B[j] >= arr[j]
    <3>1. j < c \/ j = c \/ j > c
      OBVIOUS
    <3>. QED BY <1>1, <2>1, <3>1 DEF Lowered
  <2>. QED BY <2>1, <2>2 DEF Lowered
<1> DEFINE A == Put(B, i, arr[c])
<1>3. A \in Cells(n) /\ A[i] = arr[c] /\ \A j \in 1..n : j # i => A[j] = B[j]
  <2>1. B \in Cells(n) /\ arr[c] \in Int
    BY <1>1, <1>2
  <2>. QED BY <2>1, PutIs
<1>4. SameValues(A, Put(arr, i, arr[index]), n)
  BY <1>1, <1>2, Exchanged
<1> HIDE DEF A
<1>5. ASSUME NEW j \in 2..n, j \div 2 > index \/ j \div 2 = i, j # i PROVE A[j \div 2] <= A[j]
  <2>1. PICK q : q = j \div 2
    OBVIOUS
  <2>2. q \in 1..n /\ j \in 1..n
    BY <2>1, HalfIs
  <2>3. CASE q = i
    <3>1. A[q] = arr[c] /\ A[j] = B[j] /\ arr[c] <= arr[j] /\ B[j] >= arr[j]
      BY <1>2, <1>3, <1>5, <2>1, <2>2, <2>3
    <3>2. B[j] \in Int /\ arr[j] \in Int /\ arr[c] \in Int
      BY <1>1, <1>2, <2>2
    <3>. QED BY <2>1, <3>1, <3>2
  <2>4. CASE q # i
    <3>1. A[q] = B[q] /\ A[j] = B[j] /\ j # c
      BY <1>3, <1>5, <2>1, <2>2, <2>4
    <3>2. B[j \div 2] <= B[j]
      BY <1>2, <1>5, <2>1, <2>4, <3>1
    <3>. QED BY <2>1, <3>1, <3>2
  <2>. QED BY <2>3, <2>4
<1>6. i > index => A[i] >= arr[i]
  <2>1. ASSUME i > index PROVE arr[i] <= arr[c]
    <3>1. c \in 2..n /\ c \div 2 >= index + 1
      BY <2>1
    <3>. QED BY <3>1 DEF OrderedFrom
  <2>. QED BY <1>1, <1>3, <2>1
<1>7. \A j \in 1..n : /\ j < i => A[j] = arr[j]
                      /\ j > i => A[j] >= arr[j]
  BY <1>2, <1>3
<1>8. Lowered(arr, n, index, i, A)
  BY <1>3, <1>4, <1>5, <1>6, <1>7 DEF Lowered
<1>. QED BY <1>8 DEF A

\* _heap_sift_down orders one more cell than was ordered.
LEMMA SiftDownIs ==
    ASSUME NEW n \in Nat, NEW arr \in Cells(n), NEW index \in 1..n, OrderedFrom(arr, n, index + 1)
    PROVE  /\ SiftDown(arr, n, index) \in Cells(n)
           /\ OrderedFrom(SiftDown(arr, n, index), n, index)
           /\ SameValues(SiftDown(arr, n, index), arr, n)
<1>1. PICK f : Sinks(arr, n, index, f) /\ SiftDown(arr, n, index) = f[index]
  BY SinkIs
<1> DEFINE k == arr[index]
           Met(i) == i = index \/ (index < i /\ k > arr[i])
           T == {m \in Nat : \A i \in 1..n : i > n - m /\ Met(i) => Lowered(arr, n, index, i, f[i])}
<1>2. 0 \in T
  OBVIOUS
<1>3. ASSUME NEW m \in T PROVE m + 1 \in T
  <2>1. ASSUME NEW i \in 1..n, i = n - m, Met(i) PROVE Lowered(arr, n, index, i, f[i])
    <3>1. PICK c : c = SmallerChild(arr, n, i)
      OBVIOUS
    <3>2. f[i] = SinkStep(arr, n, k, i, f[c])
      BY <1>1, <3>1 DEF Sinks
    <3>3. k \in Int /\ \A j \in 1..n : arr[j] \in Int
      BY DEF Cells
    <3>4. CASE 2 * i > n
      <4>1. f[i] = Put(arr, i, k)
        BY <3>2, <3>4 DEF SinkStep
      <4>2. \A j \in 1..n : j \div 2 # i
        BY <3>4, HalfIs
      <4>. QED BY <2>1, <4>1, <4>2, LoweredStop
    <3>5. CASE 2 * i <= n
      <4>1. /\ c \in 1..n /\ i < c /\ c \div 2 = i
            /\ \A j \in 1..n : j \div 2 = i => arr[c] <= arr[j]
        BY <3>1, <3>5, ChildIs
      <4>2. CASE k <= arr[c]
        <5>1. f[i] = Put(arr, i, k)
          BY <3>1, <3>2, <3>3, <4>1, <4>2 DEF SinkStep, Compare
        <5>2. \A j \in 1..n : j \div 2 = i => k <= arr[j]
          BY <3>3, <4>1, <4>2
        <5>. QED BY <2>1, <5>1, <5>2, LoweredStop
      <4>3. CASE ~(k <= arr[c])
        <5>1. f[i] = Put(f[c], i, arr[c])
          BY <3>1, <3>2, <3>3, <3>5, <4>1, <4>3 DEF SinkStep, Compare
        <5>2. Met(c) /\ c > n - m
          BY <2>1, <3>3, <4>1, <4>3
        <5>3. Lowered(arr, n, index, c, f[c])
          BY <4>1, <5>2
        <5>. QED BY <2>1, <4>1, <5>1, <5>3, LoweredStep
      <4>. QED BY <4>2, <4>3
    <3>. QED BY <3>4, <3>5
  <2>2. \A i \in 1..n : i > n - (m + 1) => i = n - m \/ i > n - m
    OBVIOUS
  <2> HIDE DEF Met
  <2>. QED BY <2>1, <2>2
<1>4. T = Nat
  <2> HIDE DEF T
  <2>1. T \in SUBSET Nat
    BY DEF T
  <2>. QED BY <1>2, <1>3, <2>1, NatSets
<1>5. Lowered(arr, n, index, index, f[index])
  <2>1. n \in T
    <3> HIDE DEF T
    <3>. QED BY <1>4
  <2>. QED BY <2>1
<1>6. SameValues(Put(arr, index, arr[index]), arr, n)
  BY DEF Put, Cells, SameValues
<1>7. OrderedFrom(f[index], n, index)
  <2>1. ASSUME NEW j \in 2..n, j \div 2 >= index PROVE f[index][j \div 2] <= f[index][j]
    <3>1. j # index /\ (j \div 2 > index \/ j \div 2 = index)
      BY <2>1, HalfIs
    <3>. QED BY <1>5, <3>1 DEF Lowered
  <2>. QED BY <2>1 DEF OrderedFrom
<1>. QED BY <1>1, <1>5, <1>6, <1>7 DEF Lowered, SameValues

\* _heap_build: from the last cell that has children on, each sinks.
LEMMA BuildIs ==
    ASSUME NEW n \in Nat, NEW arr \in Cells(n), Len(arr) = n
    PROVE  Build(arr) \in Cells(n) /\ OrderedFrom(Build(arr), n, 1) /\ SameValues(Build(arr), arr, n)
<1> DEFINE half == n \div 2
           Go(i, A) == SiftDown(A, n, i)
           Is(f) == f = [i \in 1..(half + 1) |-> IF i > half THEN arr ELSE Go(i, f[i + 1])]
           from == CHOOSE f : Is(f)
           H == [z \in (1..half) \X Cells(n) |-> Go(z[1], z[2])]
           nx == [i \in 1..half |-> i + 1]
<1>1. Build(arr) = from[1]
  BY DEF Build
<1>2. half \in Nat /\ 2 * half <= n /\ n < 2 * half + 2
  OBVIOUS
<1> HIDE DEF half
<1>3. \A i \in 1..half, A \in Cells(n) : Go(i, A) \in Cells(n)
  <2>1. ASSUME NEW i \in 1..half, NEW A \in Cells(n) PROVE Go(i, A) \in Cells(n)
    <3>1. i \in 1..n
      BY <1>2
    <3>2. PICK f : Sinks(A, n, i, f) /\ SiftDown(A, n, i) = f[i]
      BY <3>1, SinkIs
    <3>. QED BY <3>1, <3>2 DEF Sinks
  <2>. QED BY <2>1
<1> HIDE DEF Go
<1>4. H \in [(1..half) \X Cells(n) -> Cells(n)]
  <2>1. \A z \in (1..half) \X Cells(n) : Go(z[1], z[2]) \in Cells(n)
    BY <1>3
  <2>. QED BY <2>1
<1>5. nx \in [1..half -> 1..(half + 1)] /\ \A i \in 1..half : i < nx[i]
  BY <1>2
<1>6. PICK g : FilledDown(half, Cells(n), arr, H, nx, g)
  <2> HIDE DEF H, nx
  <2>. QED BY <1>2, <1>4, <1>5, FromAbove
<1>7. /\ g \in [1..(half + 1) -> Cells(n)] /\ g[half + 1] = arr
      /\ \A i \in 1..half : g[i] = Go(i, g[i + 1])
  <2>1. /\ g \in [1..(half + 1) -> Cells(n)] /\ g[half + 1] = arr
        /\ \A i \in 1..half : g[i] = H[<<i, g[nx[i]]>>]
    <3> HIDE DEF H, nx
    <3>. QED BY <1>6 DEF FilledDown
  <2>2. ASSUME NEW i \in 1..half PROVE nx[i] = i + 1 /\ <<i, g[i + 1]>> \in (1..half) \X Cells(n)
    <3>1. nx[i] = i + 1 /\ i + 1 \in 1..(half + 1)
      BY <1>2
    <3> HIDE DEF nx
    <3>. QED BY <2>1, <3>1
  <2>3. ASSUME NEW i \in 1..half PROVE g[i] = Go(i, g[i + 1])
    <3>1. H[<<i, g[i + 1]>>] = Go(i, g[i + 1])
      BY <2>2
    <3> HIDE DEF H, nx
    <3>. QED BY <2>1, <2>2, <3>1
  <2>. QED BY <2>1, <2>3
<1> HIDE DEF H, nx
<1>8. Is(g)
  <2>1. \A i \in 1..(half + 1) : g[i] = IF i > half THEN arr ELSE Go(i, g[i + 1])
    <3>1. \A i \in 1..(half + 1) : IF i > half THEN i = half + 1 ELSE i \in 1..half
      BY <1>2
    <3>. QED BY <1>7, <3>1
  <2>. QED BY <1>7, <2>1
<1>9. Is(from)
  <2> HIDE DEF Is
  <2>. QED BY <1>8
<1>10. \A i \in 1..(half + 1) : from[i] = IF i > half THEN arr ELSE Go(i, from[i + 1])
  <2> HIDE DEF from
  <2>. QED BY <1>9
<1> HIDE DEF from
<1> DEFINE Good(i, A) == A \in Cells(n) /\ OrderedFrom(A, n, i) /\ SameValues(A, arr, n)
<1>11. Good(half + 1, arr)
  <2>1. \A j \in 2..n : ~(j \div 2 >= half + 1)
    BY <1>2
  <2>. QED BY <2>1 DEF OrderedFrom, SameValues
<1>12. ASSUME NEW i \in 1..half, NEW A, Good(i + 1, A) PROVE Good(i, Go(i, A))
  <2>1. i \in 1..n
    BY <1>2
  <2>2. /\ Go(i, A) \in Cells(n) /\ OrderedFrom(Go(i, A), n, i) /\ SameValues(Go(i, A), A, n)
    BY <1>12, <2>1, SiftDownIs DEF Go
  <2>. QED BY <1>12, <2>2 DEF SameValues
<1> HIDE DEF Good
<1> DEFINE T == {m \in Nat : \A i \in 1..(half + 1) : i >= half + 1 - m => Good(i, from[i])}
<1>13. 0 \in T
  <2>1. \A i \in 1..(half + 1) : i >= half + 1 - 0 => i = half + 1
    BY <1>2
  <2>. QED BY <1>2, <1>10, <1>11, <2>1
<1>14. ASSUME NEW m \in T PROVE m + 1 \in T
  <2>1. ASSUME NEW i \in 1..(half + 1), i = half - m PROVE Good(i, from[i])
    <3>1. i \in 1..half /\ i + 1 \in 1..(half + 1) /\ i + 1 >= half + 1 - m /\ ~(i > half)
      BY <1>2, <2>1
    <3>2. Good(i + 1, from[i + 1])
      BY <3>1
    <3>. QED BY <1>10, <1>12, <3>1, <3>2
  <2>2. \A i \in 1..(half + 1) : i >= half + 1 - (m + 1) => i = half - m \/ i >= half + 1 - m
    BY <1>2
  <2>. QED BY <2>1, <2>2
<1>15. T = Nat
  <2> HIDE DEF T
  <2>1. T \in SUBSET Nat
    BY DEF T
  <2>. QED BY <1>13, <1>14, <2>1, NatSets
<1>16. Good(1, from[1])
  <2>1. half \in T
    <3> HIDE DEF T
    <3>. QED BY <1>2, <1>15
  <2>2. 1 \in 1..(half + 1) /\ 1 >= half + 1 - half
    BY <1>2
  <2>. QED BY <2>1, <2>2
<1>. QED BY <1>1, <1>16 DEF Good

-----------------------------------------------------------------------------
(* The bag of the values in a heap. *)

\* An array of integers as a sequence
LEMMA SeqsAre ==
    ASSUME NEW n \in Nat, NEW A \in Cells(n)
    PROVE  A \in Seq(Int) /\ Len(A) = n /\ DOMAIN A = 1..n
  BY DEF Cells

\* A sequence as an array of integers
LEMMA SeqCells ==
    ASSUME NEW s \in Seq(Int)
    PROVE  Len(s) \in Nat /\ s \in Cells(Len(s))
  BY DEF Cells

\* The bag has the values that are in some cell, each as often as it is.
LEMMA BagIs ==
    ASSUME NEW n \in Nat, NEW A \in Cells(n)
    PROVE  /\ BagOf(A) = [v \in {A[i] : i \in 1..n} |-> Num(A, n, v)]
           /\ \A v : v \in {A[i] : i \in 1..n} <=> Num(A, n, v) # 0
<1>1. Len(A) = n
  BY SeqsAre
<1>2. BagOf(A) = [v \in {A[i] : i \in 1..n} |-> Num(A, n, v)]
  BY <1>1 DEF BagOf, Num, PlacesOf
<1>3. ASSUME NEW v PROVE v \in {A[i] : i \in 1..n} <=> Num(A, n, v) # 0
  <2>1. v \in {A[i] : i \in 1..n} <=> PlacesOf(A, n, v) # {}
    BY DEF PlacesOf
  <2>. QED BY <2>1, NumIs
<1>. QED BY <1>2, <1>3

\* Bags are equal when every value is in both as often.
LEMMA BagsSame ==
    ASSUME NEW n \in Nat, NEW A \in Cells(n), NEW B \in Cells(n), SameValues(A, B, n)
    PROVE  BagOf(A) = BagOf(B)
<1>1. {A[i] : i \in 1..n} = {B[i] : i \in 1..n}
  <2>1. \A v : v \in {A[i] : i \in 1..n} <=> Num(A, n, v) # 0
    BY BagIs
  <2>2. \A v : v \in {B[i] : i \in 1..n} <=> Num(B, n, v) # 0
    BY BagIs
  <2>3. \A v : Num(A, n, v) = Num(B, n, v)
    BY DEF SameValues
  <2>4. \A v : v \in {A[i] : i \in 1..n} <=> v \in {B[i] : i \in 1..n}
    BY <2>1, <2>2, <2>3
  <2>. QED BY <2>4
<1>2. PICK V : V = {A[i] : i \in 1..n}
  OBVIOUS
<1>3. BagOf(A) = [v \in V |-> Num(A, n, v)] /\ BagOf(B) = [v \in V |-> Num(B, n, v)]
  BY <1>1, <1>2, BagIs
<1>4. \A v \in V : Num(A, n, v) = Num(B, n, v)
  BY DEF SameValues
<1>. QED BY <1>3, <1>4

\* The last cell holds one more value.
LEMMA NumLast ==
    ASSUME NEW n \in Nat, NEW A \in Cells(n + 1), NEW v
    PROVE  Num(A, n + 1, v) = Num(A, n, v) + One(A[n + 1], v)
<1>1. IsFiniteSet(PlacesOf(A, n, v)) /\ n + 1 \notin PlacesOf(A, n, v) /\ Num(A, n, v) \in Nat
  <2>1. n + 1 \notin PlacesOf(A, n, v)
    BY DEF PlacesOf
  <2>. QED BY <2>1, NumIs
<1>2. CASE A[n + 1] = v
  <2>1. PlacesOf(A, n + 1, v) = PlacesOf(A, n, v) \cup {n + 1}
    BY <1>2 DEF PlacesOf
  <2>. QED BY <1>1, <1>2, <2>1, FS_AddElement DEF Num, One
<1>3. CASE A[n + 1] # v
  <2>1. PlacesOf(A, n + 1, v) = PlacesOf(A, n, v)
    BY <1>3 DEF PlacesOf
  <2>. QED BY <1>1, <1>3, <2>1 DEF Num, One
<1>. QED BY <1>2, <1>3

\* Only the cells looked at count.
LEMMA NumOf ==
    ASSUME NEW n \in Nat, NEW A, NEW B, \A i \in 1..n : A[i] = B[i], NEW v
    PROVE  Num(A, n, v) = Num(B, n, v)
<1>1. PlacesOf(A, n, v) = PlacesOf(B, n, v)
  BY DEF PlacesOf
<1>. QED BY <1>1 DEF Num

\* B has the values of A and one more x.
OneMoreOf(B, m, A, n, x) == \A v : Num(B, m, v) = Num(A, n, v) + One(x, v)

\* One more value in the bag
LEMMA BagAdded ==
    ASSUME NEW n \in Nat, NEW A \in Cells(n), NEW m \in Nat, NEW B \in Cells(m), NEW x,
           OneMoreOf(B, m, A, n, x)
    PROVE  BagOf(B) = BagOf(A) (+) SetToBag({x})
<1>0. \A v : Num(B, m, v) = Num(A, n, v) + One(x, v)
  BY DEF OneMoreOf
<1>1. PICK V : V = {A[i] : i \in 1..n}
  OBVIOUS
<1>2. PICK W : W = {B[i] : i \in 1..m}
  OBVIOUS
<1>3. /\ BagOf(A) = [v \in V |-> Num(A, n, v)] /\ BagOf(B) = [v \in W |-> Num(B, m, v)]
      /\ \A v : (v \in V <=> Num(A, n, v) # 0) /\ (v \in W <=> Num(B, m, v) # 0)
  BY <1>1, <1>2, BagIs
<1>4. \A v : Num(A, n, v) \in Nat
  BY NumIs
<1>5. \A v : One(x, v) = IF v \in {x} THEN 1 ELSE 0
  BY DEF One
<1>6. W = V \cup {x}
  <2>1. \A v : v \in W <=> v \in V \/ v = x
    BY <1>0, <1>3, <1>4, <1>5
  <2>. QED BY <2>1
<1>7. BagOf(A) (+) SetToBag({x}) =
        [v \in V \cup {x} |-> (IF v \in V THEN BagOf(A)[v] ELSE 0)
                              + (IF v \in {x} THEN SetToBag({x})[v] ELSE 0)]
  <2>1. DOMAIN BagOf(A) = V /\ DOMAIN SetToBag({x}) = {x}
    BY <1>3 DEF SetToBag
  <2>. QED BY <2>1 DEF (+)
<1>8. \A v \in V \cup {x} : Num(B, m, v) = (IF v \in V THEN BagOf(A)[v] ELSE 0)
                                           + (IF v \in {x} THEN SetToBag({x})[v] ELSE 0)
  <2>1. ASSUME NEW v \in V \cup {x}
        PROVE  Num(B, m, v) = (IF v \in V THEN BagOf(A)[v] ELSE 0)
                              + (IF v \in {x} THEN SetToBag({x})[v] ELSE 0)
    <3>1. (IF v \in V THEN BagOf(A)[v] ELSE 0) = Num(A, n, v)
      BY <1>3
    <3>2. (IF v \in {x} THEN SetToBag({x})[v] ELSE 0) = One(x, v)
      BY <1>5 DEF SetToBag
    <3>. QED BY <1>0, <3>1, <3>2
  <2>. QED BY <2>1
<1>9. BagOf(B) = [v \in V \cup {x} |-> Num(B, m, v)]
  BY <1>3, <1>6
<1>. QED BY <1>7, <1>8, <1>9

\* One value less in the bag
LEMMA BagTaken ==
    ASSUME NEW n \in Nat, NEW A \in Cells(n), NEW m \in Nat, NEW B \in Cells(m), NEW x,
           \A v : Num(B, m, v) = Num(A, n, v) - One(x, v)
    PROVE  BagOf(B) = BagOf(A) (-) SetToBag({x})
<1>1. PICK V : V = {A[i] : i \in 1..n}
  OBVIOUS
<1>2. PICK W : W = {B[i] : i \in 1..m}
  OBVIOUS
<1>3. /\ BagOf(A) = [v \in V |-> Num(A, n, v)] /\ BagOf(B) = [v \in W |-> Num(B, m, v)]
      /\ \A v : (v \in V <=> Num(A, n, v) # 0) /\ (v \in W <=> Num(B, m, v) # 0)
  BY <1>1, <1>2, BagIs
<1>4. \A v : Num(A, n, v) \in Nat /\ Num(B, m, v) \in Nat
  BY NumIs
<1>5. \A v : One(x, v) = IF v \in {x} THEN 1 ELSE 0
  BY DEF One
<1> DEFINE C == [v \in V |-> IF v \in {x} THEN BagOf(A)[v] - SetToBag({x})[v] ELSE BagOf(A)[v]]
<1>6. BagOf(A) (-) SetToBag({x}) = [v \in {d \in DOMAIN C : C[d] > 0} |-> C[v]]
  <2>1. DOMAIN BagOf(A) = V /\ DOMAIN SetToBag({x}) = {x}
    BY <1>3 DEF SetToBag
  <2>. QED BY <2>1 DEF (-)
<1>7. \A v \in V : C[v] = Num(B, m, v)
  <2>1. ASSUME NEW v \in V PROVE C[v] = Num(B, m, v)
    <3>1. BagOf(A)[v] = Num(A, n, v)
      BY <1>3
    <3>2. v \in {x} => SetToBag({x})[v] = 1
      BY DEF SetToBag
    <3>3. C[v] = IF v \in {x} THEN BagOf(A)[v] - SetToBag({x})[v] ELSE BagOf(A)[v]
      OBVIOUS
    <3> HIDE DEF C
    <3>4. CASE v \in {x}
      BY <1>5, <3>1, <3>2, <3>3, <3>4
    <3>5. CASE v \notin {x}
      BY <1>4, <1>5, <3>1, <3>3, <3>5
    <3>. QED BY <3>4, <3>5
  <2>. QED BY <2>1
<1>8. DOMAIN C = V
  OBVIOUS
<1> HIDE DEF C
<1>9. {d \in DOMAIN C : C[d] > 0} = W
  <2>1. \A v : v \in W => v \in V
    BY <1>3, <1>4, <1>5
  <2>2. \A v \in V : C[v] > 0 <=> v \in W
    BY <1>3, <1>4, <1>7
  <2>. QED BY <1>8, <2>1, <2>2
<1>10. \A v \in W : v \in V
  BY <1>3, <1>4, <1>5
<1>11. [v \in W |-> C[v]] = [v \in W |-> Num(B, m, v)]
  BY <1>7, <1>10
<1>. QED BY <1>3, <1>6, <1>9, <1>11

-----------------------------------------------------------------------------
(* What comes out of a heap. *)

\* No value is smaller than the one at the root.
LEMMA LeastFirst ==
    ASSUME NEW n \in Nat, NEW A \in Cells(n), OrderedFrom(A, n, 1), NEW j \in 1..n
    PROVE  A[1] <= A[j]
<1> DEFINE T == {m \in Nat : \A i \in 1..n : i <= m => A[1] <= A[i]}
<1>1. 0 \in T
  OBVIOUS
<1>2. \A i \in 1..n : A[i] \in Int
  BY DEF Cells
<1>3. ASSUME NEW m \in T PROVE m + 1 \in T
  <2>1. ASSUME NEW i \in 1..n, i = m + 1 PROVE A[1] <= A[i]
    <3>1. CASE i = 1
      BY <1>2, <3>1
    <3>2. CASE i # 1
      <4>1. i \in 2..n /\ i \in Nat \ {0}
        BY <3>2
      <4>2. i \div 2 \in Nat /\ i \div 2 < i /\ i \div 2 # 0
        BY <3>2, <4>1, HalfIs
      <4>3. i \div 2 \in 1..n /\ i \div 2 <= m /\ i \div 2 >= 1
        BY <2>1, <4>2
      <4>4. A[i \div 2] <= A[i]
        BY <4>1, <4>3 DEF OrderedFrom
      <4>5. A[1] <= A[i \div 2]
        BY <4>3
      <4>6. A[1] \in Int /\ A[i] \in Int /\ A[i \div 2] \in Int
        BY <1>2, <4>3
      <4>. QED BY <4>4, <4>5, <4>6
    <3>. QED BY <3>1, <3>2
  <2>2. \A i \in 1..n : i <= m + 1 => i = m + 1 \/ i <= m
    OBVIOUS
  <2>. QED BY <2>1, <2>2
<1>4. T = Nat
  <2> HIDE DEF T
  <2>1. T \in SUBSET Nat
    BY DEF T
  <2>. QED BY <1>1, <1>3, <2>1, NatSets
<1>5. n \in T
  <2> HIDE DEF T
  <2>. QED BY <1>4
<1>. QED BY <1>5

\* A value is in some cell if it is counted.
LEMMA NumFound ==
    ASSUME NEW n \in Nat, NEW A, NEW v
    PROVE  Num(A, n, v) # 0 <=> \E i \in 1..n : A[i] = v
<1>1. Num(A, n, v) # 0 <=> PlacesOf(A, n, v) # {}
  BY NumIs
<1>. QED BY <1>1 DEF PlacesOf

\* The inductive invariant: the slice holds what it should, as a heap.
HeapInv ==
    /\ data \in Seq(Int)
    /\ OrderedFrom(data, Len(data), 1)
    /\ BagOf(data) = inside
    /\ popped # EMPTY_VALUE => popped \in Int /\ \A i \in 1..Len(data) : popped <= data[i]

\* open_heap
LEMMA HeapInitInv ==
    HeapInit => HeapInv
<1> SUFFICES ASSUME HeapInit PROVE HeapInv
  OBVIOUS
<1>1. data = << >> /\ Len(data) = 0 /\ data \in Seq(Int)
  BY DEF HeapInit
<1>2. OrderedFrom(data, Len(data), 1)
  BY <1>1 DEF OrderedFrom
<1>3. BagOf(data) = EmptyBag
  <2>1. {data[i] : i \in 1..Len(data)} = {}
    BY <1>1
  <2>2. BagOf(data) = [v \in {} |-> Cardinality({i \in 1..Len(data) : data[i] = v})]
    BY <2>1 DEF BagOf
  <2>3. EmptyBag = [v \in {} |-> 1]
    BY DEF EmptyBag, SetToBag
  <2>. QED BY <2>2, <2>3
<1>. QED BY <1>1, <1>2, <1>3 DEF HeapInit, HeapInv

\* open_heap_by_data
LEMMA OpenHeapByDataKeeps ==
    ASSUME HeapInv, NEW n \in Nat, NEW arr \in [1..n -> HeapValues], OpenHeapByData(arr)
    PROVE  HeapInv'
<1>1. arr \in Cells(n)
  BY HeapAssumption DEF Cells
<1>2. Len(arr) = n
  BY <1>1, SeqsAre
<1>3. data' = Build(arr) /\ inside' = BagOf(arr) /\ popped' = EMPTY_VALUE
  BY DEF OpenHeapByData
<1>4. data' \in Cells(n) /\ OrderedFrom(data', n, 1) /\ SameValues(data', arr, n)
  BY <1>1, <1>2, <1>3, BuildIs
<1>5. data' \in Seq(Int) /\ Len(data') = n
  BY <1>4, SeqsAre
<1>6. BagOf(data') = BagOf(arr)
  BY <1>1, <1>4, BagsSame
<1>. QED BY <1>3, <1>4, <1>5, <1>6 DEF HeapInv

\* heap_push: the new value goes behind the last and climbs.
LEMMA HeapPushKeeps ==
    ASSUME HeapInv, NEW v \in HeapValues, HeapPush(v)
    PROVE  HeapInv'
<1> DEFINE n == Len(data)
           t == Append(data, v)
<1>1. data \in Seq(Int) /\ n \in Nat /\ data \in Cells(n) /\ v \in Int
  BY SeqCells, HeapAssumption DEF HeapInv
<1>2. t \in Seq(Int) /\ Len(t) = n + 1 /\ t[n + 1] = v /\ \A i \in 1..n : t[i] = data[i]
  BY <1>1
<1>3. data' = SiftUp(t, n + 1) /\ inside' = inside (+) SetToBag({v}) /\ popped' = EMPTY_VALUE
  BY DEF HeapPush
<1> HIDE DEF n, t
<1>4. t \in Cells(n + 1)
  BY <1>2, SeqCells
<1>5. \A j \in 2..((n + 1) - 1) : t[j \div 2] <= t[j]
  <2>1. ASSUME NEW j \in 2..n PROVE t[j \div 2] <= t[j]
    <3>1. j \in Nat \ {0} /\ j # 1
      OBVIOUS
    <3>2. j \div 2 \in Nat /\ j \div 2 < j /\ j \div 2 # 0
      BY <3>1, HalfIs
    <3>3. j \div 2 \in 1..n /\ j \div 2 >= 1 /\ j \in 1..n
      BY <1>1, <3>2
    <3>4. data[j \div 2] <= data[j]
      BY <3>3 DEF HeapInv, OrderedFrom, n
    <3>. QED BY <1>2, <3>3, <3>4
  <2>. QED BY <1>1, <2>1
<1>6. data' \in Cells(n + 1) /\ OrderedFrom(data', n + 1, 1) /\ SameValues(data', t, n + 1)
  <2>1. n + 1 \in Nat \ {0}
    BY <1>1
  <2>. QED BY <1>3, <1>4, <1>5, <2>1, SiftUpIs
<1>7. \A x : Num(t, n + 1, x) = Num(data, n, x) + One(v, x)
  <2>1. ASSUME NEW x PROVE Num(t, n + 1, x) = Num(data, n, x) + One(v, x)
    <3>1. Num(t, n + 1, x) = Num(t, n, x) + One(v, x)
      BY <1>1, <1>2, <1>4, NumLast
    <3>2. Num(t, n, x) = Num(data, n, x)
      BY <1>1, <1>2, NumOf
    <3>. QED BY <3>1, <3>2
  <2>. QED BY <2>1
<1>8. BagOf(t) = BagOf(data) (+) SetToBag({v})
  <2>1. PICK m : m = n + 1
    OBVIOUS
  <2>2. m \in Nat /\ t \in Cells(m)
    BY <1>1, <1>4, <2>1
  <2>3. OneMoreOf(t, m, data, n, v)
    BY <1>7, <2>1 DEF OneMoreOf
  <2>. QED BY <1>1, <2>2, <2>3, BagAdded
<1>9. BagOf(data') = BagOf(t)
  BY <1>1, <1>4, <1>6, BagsSame
<1>10. data' \in Seq(Int) /\ Len(data') = n + 1
  BY <1>1, <1>6, SeqsAre
<1>. QED BY <1>3, <1>6, <1>8, <1>9, <1>10 DEF HeapInv

\* The last value goes to the root and sinks.
LEMMA AfterPopIs ==
    ASSUME data \in Seq(Int), OrderedFrom(data, Len(data), 1), Len(data) # 0
    PROVE  /\ AfterPop \in Cells(Len(data) - 1)
           /\ OrderedFrom(AfterPop, Len(data) - 1, 1)
           /\ \A v : Num(AfterPop, Len(data) - 1, v) = Num(data, Len(data), v) - One(data[1], v)
<1>1. PICK n : n = Len(data) - 1
  OBVIOUS
<1>2. n \in Nat /\ Len(data) = n + 1 /\ data \in Cells(n + 1)
  BY <1>1, SeqCells
<1>3. \A v : Num(data, n + 1, v) = Num(data, n, v) + One(data[n + 1], v)
  BY <1>2, NumLast
<1>4. \A v : Num(data, n, v) \in Nat /\ One(data[1], v) \in Nat /\ One(data[n + 1], v) \in Nat
  BY <1>2, NumIs DEF One
<1>5. CASE n = 0
  <2>1. AfterPop = << >>
    BY <1>2, <1>5 DEF AfterPop
  <2>2. AfterPop \in Cells(0)
    BY <2>1 DEF Cells
  <2>3. OrderedFrom(AfterPop, 0, 1)
    BY DEF OrderedFrom
  <2>4. \A v : Num(AfterPop, 0, v) = Num(data, 0, v)
    <3>1. \A v : PlacesOf(AfterPop, 0, v) = {} /\ PlacesOf(data, 0, v) = {}
      BY DEF PlacesOf
    <3>. QED BY <3>1 DEF Num
  <2>5. \A v : Num(AfterPop, 0, v) = Num(data, n + 1, v) - One(data[1], v)
    BY <1>3, <1>4, <1>5, <2>4
  <2>. QED BY <1>1, <1>2, <1>5, <2>2, <2>3, <2>5
<1>6. CASE n # 0
  <2> DEFINE s == WithoutLast(data)
             t == Put(s, 1, data[n + 1])
  <2>1. s \in Cells(n) /\ \A i \in 1..n : s[i] = data[i]
    <3>1. s = SubSeq(data, 1, n)
      BY <1>2 DEF WithoutLast
    <3>2. s \in Seq(Int) /\ Len(s) = n /\ \A i \in 1..n : s[i] = data[i]
      <4> HIDE DEF s
      <4>. QED BY <1>2, <3>1
    <3> HIDE DEF s
    <3>. QED BY <3>2, SeqCells
  <2>2. AfterPop = SiftDown(t, n, 1)
    BY <1>2, <1>6 DEF AfterPop, Put
  <2> HIDE DEF s
  <2>3. 1 \in 1..n /\ data[n + 1] \in Int
    BY <1>2, <1>6 DEF Cells
  <2>4. t \in Cells(n)
    BY <1>2, <2>1, <2>3, NumStored
  <2>5. \A j \in 1..n : t[j] = IF j = 1 THEN data[n + 1] ELSE data[j]
    BY <2>1 DEF Put, Cells
  <2>6. \A v : Num(t, n, v) + One(data[1], v) = Num(data, n, v) + One(data[n + 1], v)
    <3>1. ASSUME NEW v PROVE Num(t, n, v) + One(data[1], v) = Num(data, n, v) + One(data[n + 1], v)
      <4>1. Num(s, n, v) = Num(data, n, v)
        BY <1>2, <2>1, NumOf
      <4>2. s[1] = data[1]
        BY <2>1, <2>3
      <4>3. Num(t, n, v) = Num(s, n, v) - One(s[1], v) + One(data[n + 1], v)
        BY <1>2, <2>1, <2>3, NumStored
      <4>4. Num(s, n, v) \in Nat /\ One(data[1], v) \in Nat /\ One(data[n + 1], v) \in Nat
        BY <1>2, NumIs DEF One
      <4> HIDE DEF t
      <4>. QED BY <4>1, <4>2, <4>3, <4>4
    <3>. QED BY <3>1
  <2> HIDE DEF t
  <2>7. OrderedFrom(t, n, 2)
    <3>1. ASSUME NEW j \in 2..n, j \div 2 >= 2 PROVE t[j \div 2] <= t[j]
      <4>1. j \in Nat \ {0}
        OBVIOUS
      <4>2. j \div 2 \in Nat /\ j \div 2 < j
        BY <4>1, HalfIs
      <4>3. j \div 2 \in 1..n /\ j \div 2 # 1 /\ j \in 1..n /\ j # 1 /\ j \in 2..(n + 1) /\ j \div 2 >= 1
        BY <1>2, <3>1, <4>2
      <4>4. data[j \div 2] <= data[j]
        BY <1>2, <4>3 DEF OrderedFrom
      <4>. QED BY <2>5, <4>3, <4>4
    <3>. QED BY <3>1 DEF OrderedFrom
  <2>8. /\ SiftDown(t, n, 1) \in Cells(n) /\ OrderedFrom(SiftDown(t, n, 1), n, 1)
        /\ SameValues(SiftDown(t, n, 1), t, n)
    <3>1. OrderedFrom(t, n, 1 + 1)
      BY <2>7
    <3>. QED BY <1>2, <2>3, <2>4, <3>1, SiftDownIs
  <2>9. \A v : Num(AfterPop, n, v) = Num(data, n + 1, v) - One(data[1], v)
    <3>1. \A v : Num(AfterPop, n, v) = Num(t, n, v)
      BY <2>2, <2>8 DEF SameValues
    <3>2. \A v : Num(t, n, v) \in Nat
      BY <1>2, NumIs
    <3>. QED BY <1>3, <1>4, <2>6, <3>1, <3>2
  <2>. QED BY <1>1, <1>2, <2>2, <2>8, <2>9
<1>. QED BY <1>5, <1>6

\* heap_pop
LEMMA HeapPopKeeps ==
    ASSUME HeapInv, HeapPop
    PROVE  HeapInv'
<1>1. data \in Seq(Int) /\ data' = AfterPop /\ popped' = HeapTop
  BY DEF HeapInv, HeapPop
<1>2. CASE data = << >>
  <2>1. data' = data /\ popped' = EMPTY_VALUE /\ inside' = inside
    BY <1>1, <1>2 DEF AfterPop, HeapTop, HeapPop
  <2>. QED BY <2>1 DEF HeapInv
<1>3. CASE data # << >>
  <2>1. PICK n : n = Len(data) - 1
    OBVIOUS
  <2>2. n \in Nat /\ Len(data) = n + 1 /\ data \in Cells(n + 1) /\ Len(data) # 0
    BY <1>1, <1>3, <2>1, SeqCells
  <2>3. /\ data' \in Cells(n) /\ OrderedFrom(data', n, 1)
        /\ \A v : Num(data', n, v) = Num(data, n + 1, v) - One(data[1], v)
    BY <1>1, <2>1, <2>2, AfterPopIs DEF HeapInv
  <2>4. data' \in Seq(Int) /\ Len(data') = n
    BY <2>2, <2>3, SeqsAre
  <2>5. popped' = data[1] /\ data[1] \in Int /\ inside' = inside (-) SetToBag({data[1]})
    BY <1>1, <1>3, <2>2 DEF HeapTop, HeapPop, Cells
  <2>6. BagOf(data') = BagOf(data) (-) SetToBag({data[1]})
    BY <2>2, <2>3, BagTaken
  <2>7. ASSUME NEW i \in 1..n PROVE data[1] <= data'[i]
    <3>1. Num(data', n, data'[i]) # 0
      BY <2>2, NumFound
    <3>2. /\ Num(data', n, data'[i]) \in Nat /\ Num(data, n + 1, data'[i]) \in Nat
          /\ One(data[1], data'[i]) \in Nat
      BY <2>2, NumIs DEF One
    <3>3. Num(data, n + 1, data'[i]) # 0
      BY <2>3, <3>1, <3>2
    <3>4. PICK j \in 1..(n + 1) : data[j] = data'[i]
      BY <2>2, <3>3, NumFound
    <3>5. data[1] <= data[j]
      BY <2>2, LeastFirst DEF HeapInv
    <3>. QED BY <3>4, <3>5
  <2>. QED BY <2>3, <2>4, <2>5, <2>6, <2>7 DEF HeapInv
<1>. QED BY <1>2, <1>3

\* HeapInv says what PopsTheLeast does.
LEMMA HeapInvSays ==
    HeapInv => PopsTheLeast
<1> SUFFICES ASSUME HeapInv PROVE PopsTheLeast
  OBVIOUS
<1>1. data \in Seq(Int) /\ Len(data) \in Nat /\ \A i \in 1..Len(data) : data[i] \in Int
  BY DEF HeapInv
<1>2. ASSUME NEW i \in 2..Len(data) PROVE Compare(data[i \div 2], data[i]) <= 0
  <2>1. i \in Nat \ {0} /\ i # 1
    OBVIOUS
  <2>2. i \div 2 \in Nat /\ i \div 2 < i /\ i \div 2 # 0
    BY <2>1, HalfIs
  <2>3. i \div 2 \in 1..Len(data) /\ i \in 1..Len(data) /\ i \div 2 >= 1
    BY <1>1, <2>2
  <2>4. data[i \div 2] <= data[i]
    BY <2>3 DEF HeapInv, OrderedFrom
  <2>. QED BY <1>1, <2>3, <2>4 DEF Compare
<1>3. ASSUME popped # EMPTY_VALUE, NEW i \in 1..Len(data) PROVE Compare(popped, data[i]) <= 0
  <2>1. popped \in Int /\ popped <= data[i]
    BY <1>3 DEF HeapInv
  <2>. QED BY <1>1, <2>1 DEF Compare
<1>. QED BY <1>2, <1>3 DEF PopsTheLeast, HeapInv

\* However values are pushed and popped, in a heap that open_heap or
\* open_heap_by_data made, the slice is a heap of just the values that went in
\* and have not come out, and heap_pop returns the least of them.
THEOREM HeapPopsTheLeast == HeapSpec => []PopsTheLeast
<1>1. HeapInit => HeapInv
  BY HeapInitInv
<1>2. HeapInv /\ [HeapNext]_heapVars => HeapInv'
  <2> SUFFICES ASSUME HeapInv, [HeapNext]_heapVars PROVE HeapInv'
    OBVIOUS
  <2>1. ASSUME NEW n \in 1..HeapMax, NEW arr \in [1..n -> HeapValues], OpenHeapByData(arr)
        PROVE  HeapInv'
    <3>1. n \in Nat
      OBVIOUS
    <3>. QED BY <2>1, <3>1, OpenHeapByDataKeeps
  <2>2. ASSUME NEW v \in HeapValues, HeapPush(v) PROVE HeapInv'
    BY <2>2, HeapPushKeeps
  <2>3. CASE HeapPop
    BY <2>3, HeapPopKeeps
  <2>4. CASE UNCHANGED heapVars
    BY <2>4 DEF HeapInv, heapVars
  <2>. QED BY <2>1, <2>2, <2>3, <2>4 DEF HeapNext
<1>. QED BY <1>1, <1>2, HeapInvSays, PTL DEF HeapSpec

-----------------------------------------------------------------------------
(* The linked lists: LinkedList. *)

\* The links of c from i back to 1
Backs(c, i) == [j \in 1..i |-> c[i + 1 - j]]

\* Different places, different nodes
AllApart(c, n) == \A i, j \in 0..n : i # j => c[i] # c[j]

\* What a walk down c does
WalkSteps(c, n, g) == /\ g[c[0]] = << >>
                  /\ \A i \in 1..n : g[c[i]] = <<c[i]>> \o g[c[i - 1]]

\* One link more
LEMMA BacksStep ==
    ASSUME NEW n \in Nat, NEW c, NEW i \in 1..n
    PROVE  /\ Backs(c, 0) = << >>
           /\ Backs(c, i) = <<c[i]>> \o Backs(c, i - 1)
<1>1. Backs(c, 0) = << >>
  BY DEF Backs
<1>2. PICK X : X = {c[j] : j \in 0..n}
  OBVIOUS
<1>3. \A j \in 0..n : c[j] \in X
  BY <1>2
<1>4. Backs(c, i - 1) \in Seq(X) /\ Len(Backs(c, i - 1)) = i - 1
  <2>1. \A j \in 1..(i - 1) : (i - 1) + 1 - j \in 0..n
    OBVIOUS
  <2>2. Backs(c, i - 1) \in [1..(i - 1) -> X] /\ i - 1 \in Nat
    BY <1>3, <2>1 DEF Backs
  <2>. QED BY <2>2
<1>5. PICK t : t = <<c[i]>> \o Backs(c, i - 1)
  OBVIOUS
<1>6. <<c[i]>> \in Seq(X) /\ Len(<<c[i]>>) = 1 /\ <<c[i]>>[1] = c[i]
  BY <1>3
<1>7. t \in Seq(X) /\ Len(t) = i /\ t[1] = c[i] /\ \A j \in 2..i : t[j] = Backs(c, i - 1)[j - 1]
  BY <1>4, <1>5, <1>6
<1>8. \A j \in 1..i : t[j] = c[i + 1 - j]
  <2>1. ASSUME NEW j \in 1..i PROVE t[j] = c[i + 1 - j]
    <3>1. CASE j = 1
      BY <1>7, <3>1
    <3>2. CASE j # 1
      <4>1. j \in 2..i /\ j - 1 \in 1..(i - 1) /\ (i - 1) + 1 - (j - 1) = i + 1 - j
        BY <3>2
      <4>2. Backs(c, i - 1)[j - 1] = c[(i - 1) + 1 - (j - 1)]
        BY <4>1 DEF Backs
      <4>. QED BY <1>7, <4>1, <4>2
    <3>. QED BY <3>1, <3>2
  <2>. QED BY <2>1
<1>9. t = [j \in 1..i |-> t[j]]
  BY <1>7
<1>10. t = Backs(c, i)
  BY <1>8, <1>9 DEF Backs
<1>. QED BY <1>1, <1>5, <1>10

\* A walk collects the links it passes.
LEMMA WalkCollects ==
    ASSUME NEW n \in Nat, NEW c, NEW g, WalkSteps(c, n, g), NEW i \in 0..n
    PROVE  g[c[i]] = Backs(c, i)
<1> DEFINE T == {m \in Nat : \A k \in 0..n : k <= m => g[c[k]] = Backs(c, k)}
<1>1. 0 \in T
  <2>1. Backs(c, 0) = << >>
    BY DEF Backs
  <2>. QED BY <2>1 DEF WalkSteps
<1>2. ASSUME NEW m \in T PROVE m + 1 \in T
  <2>1. ASSUME NEW k \in 0..n, k = m + 1 PROVE g[c[k]] = Backs(c, k)
    <3>1. k \in 1..n /\ k - 1 \in 0..n /\ k - 1 <= m
      BY <2>1
    <3>2. g[c[k - 1]] = Backs(c, k - 1)
      BY <3>1
    <3>. QED BY <3>1, <3>2, BacksStep DEF WalkSteps
  <2>2. \A k \in 0..n : k <= m + 1 => k = m + 1 \/ k <= m
    OBVIOUS
  <2>. QED BY <2>1, <2>2
<1>3. T = Nat
  <2> HIDE DEF T
  <2>1. T \in SUBSET Nat
    BY DEF T
  <2>. QED BY <1>1, <1>2, <2>1, NatSets
<1>4. n \in T
  <2> HIDE DEF T
  <2>. QED BY <1>3
<1>. QED BY <1>4

\* A function of the nodes that does it exists.
LEMMA WalkExists ==
    ASSUME NEW n \in Nat, NEW c, AllApart(c, n)
    PROVE  \E g : g = [m \in {c[i] : i \in 0..n} |-> g[m]] /\ WalkSteps(c, n, g)
<1> DEFINE PlaceOf(m) == CHOOSE i \in 0..n : c[i] = m
           g == [m \in {c[i] : i \in 0..n} |-> Backs(c, PlaceOf(m))]
<1>1. \A i \in 0..n : PlaceOf(c[i]) = i
  BY DEF AllApart
<1>2. \A i \in 0..n : g[c[i]] = Backs(c, i)
  <2>1. \A i \in 0..n : g[c[i]] = Backs(c, PlaceOf(c[i]))
    <3> HIDE DEF PlaceOf
    <3>. QED OBVIOUS
  <2> HIDE DEF g, PlaceOf
  <2>. QED BY <1>1, <2>1
<1>3. g = [m \in {c[i] : i \in 0..n} |-> g[m]]
  OBVIOUS
<1> HIDE DEF g
<1>4. WalkSteps(c, n, g)
  <2>1. g[c[0]] = << >>
    <3>1. Backs(c, 0) = << >>
      BY DEF Backs
    <3>. QED BY <1>2, <3>1
  <2>2. ASSUME NEW i \in 1..n PROVE g[c[i]] = <<c[i]>> \o g[c[i - 1]]
    <3>1. i \in 0..n /\ i - 1 \in 0..n
      OBVIOUS
    <3>. QED BY <1>2, <3>1, BacksStep
  <2>. QED BY <2>1, <2>2 DEF WalkSteps
<1>. QED BY <1>3, <1>4

-----------------------------------------------------------------------------
(* The nodes of a list. *)

\* The head, at 0, and the nodes behind it
NodeRow(s, n) ==
    /\ s[0] = head /\ \A i \in 1..n : s[i] \in Nat \ {0}
    /\ AllApart(s, n)

NodeBehind(s, n, i) == IF i = n THEN NoLink ELSE s[i + 1]

LinkedNode(v, p, x) == [value |-> v, next |-> x, prev |-> p]

\* The nodes are linked both ways and have the values pushed.
IsList(s, n) ==
    /\ NodeRow(s, n)
    /\ DOMAIN listNodes = {s[i] : i \in 0..n}
    /\ listNodes[head] = LinkedNode(NoLink, head, NodeBehind(s, n, 0))
    /\ \A i \in 1..n : listNodes[s[i]] = LinkedNode(pushed[i], s[i - 1], NodeBehind(s, n, i))
    /\ tail = s[n]

\* Of the blocks, the nodes and the list's own are in use, and others only if
\* they are never given back.
ListOwned(s, n) ==
    /\ \A b \in DOMAIN held : held[b] = New
    /\ \A i \in 1..n : s[i] \in DOMAIN held
    /\ Deleter # NoLink => DOMAIN held = {s[i] : i \in 1..n} \cup {0}

ListInv ==
    /\ listLength \in Nat
    /\ allocator \in {"none", "alloc", "both"}
    /\ Len(pushed) = listLength /\ pushed \in Seq(ListValues)
    /\ IsFiniteSet(DOMAIN held)
    /\ kind # NoLink => \E s : IsList(s, listLength) /\ ListOwned(s, listLength)
    /\ kind = NoLink /\ Deleter # NoLink => DOMAIN held = {}

\* The walk along next sees the nodes in order.
LEMMA WalkIs ==
    ASSUME NEW n \in Nat, NEW s, IsList(s, n)
    PROVE  Walk = [i \in 1..n |-> s[i]]
<1> DEFINE D == DOMAIN listNodes \cup {NoLink}
           Is(f) == f = [m \in D |-> IF m = NoLink THEN << >> ELSE <<m>> \o f[listNodes[m].next]]
           from == CHOOSE f : Is(f)
           c == [i \in 0..(n + 1) |-> IF i = 0 THEN NoLink ELSE s[n + 1 - i]]
<1>1. Walk = from[listNodes[head].next]
  BY DEF Walk
<1>2. /\ s[0] = head /\ \A i \in 1..n : s[i] \in Nat \ {0}
      /\ \A i, j \in 0..n : i # j => s[i] # s[j]
  BY DEF IsList, NodeRow, AllApart
<1>3. \A i \in 0..n : s[i] # NoLink
  BY <1>2, ListAssumption
<1>4. c[0] = NoLink /\ \A i \in 1..(n + 1) : c[i] = s[n + 1 - i] /\ n + 1 - i \in 0..n
  OBVIOUS
<1> HIDE DEF c
<1>5. AllApart(c, n + 1)
  <2>1. ASSUME NEW i \in 0..(n + 1), NEW j \in 0..(n + 1), i # j PROVE c[i] # c[j]
    <3>1. CASE i = 0
      <4>1. j \in 1..(n + 1)
        BY <2>1, <3>1
      <4>. QED BY <1>3, <1>4, <3>1, <4>1
    <3>2. CASE j = 0
      <4>1. i \in 1..(n + 1)
        BY <2>1, <3>2
      <4>. QED BY <1>3, <1>4, <3>2, <4>1
    <3>3. CASE i # 0 /\ j # 0
      <4>1. i \in 1..(n + 1) /\ j \in 1..(n + 1) /\ n + 1 - i # n + 1 - j
        BY <2>1, <3>3
      <4>. QED BY <1>2, <1>4, <4>1
    <3>. QED BY <3>1, <3>2, <3>3
  <2>. QED BY <2>1 DEF AllApart
<1>6. D = {c[i] : i \in 0..(n + 1)}
  <2>1. ASSUME NEW i \in 0..n PROVE s[i] = c[n + 1 - i] /\ n + 1 - i \in 0..(n + 1)
    <3>1. n + 1 - i \in 1..(n + 1) /\ n + 1 - (n + 1 - i) = i
      OBVIOUS
    <3>. QED BY <1>4, <3>1
  <2>2. \A i \in 0..(n + 1) : i = 0 \/ i \in 1..(n + 1)
    OBVIOUS
  <2>3. DOMAIN listNodes = {s[i] : i \in 0..n}
    BY DEF IsList
  <2>4. \A m : m \in D => m \in {c[i] : i \in 0..(n + 1)}
    <3>1. 0 \in 0..(n + 1)
      OBVIOUS
    <3>. QED BY <1>4, <2>1, <2>3, <3>1
  <2>5. \A m : m \in {c[i] : i \in 0..(n + 1)} => m \in D
    BY <1>4, <2>2, <2>3
  <2>. QED BY <2>4, <2>5
<1>7. \A i \in 1..(n + 1) : c[i] # NoLink /\ listNodes[c[i]].next = c[i - 1]
  <2>1. ASSUME NEW i \in 1..(n + 1) PROVE c[i] # NoLink /\ listNodes[c[i]].next = c[i - 1]
    <3>1. PICK k \in 0..n : k = n + 1 - i
      OBVIOUS
    <3>2. c[i] = s[k]
      BY <1>4, <3>1
    <3>3. listNodes[s[k]].next = NodeBehind(s, n, k)
      <4>1. CASE k = 0
        BY <1>2, <4>1 DEF IsList, LinkedNode
      <4>2. CASE k # 0
        <5>1. k \in 1..n
          BY <4>2
        <5>2. listNodes[s[k]] = LinkedNode(pushed[k], s[k - 1], NodeBehind(s, n, k))
          BY <5>1 DEF IsList
        <5>. QED BY <5>2 DEF LinkedNode
      <4>. QED BY <4>1, <4>2
    <3>4. NodeBehind(s, n, k) = c[i - 1]
      <4>1. CASE i = 1
        BY <1>4, <3>1, <4>1 DEF NodeBehind
      <4>2. CASE i # 1
        <5>1. i - 1 \in 1..(n + 1) /\ n + 1 - (i - 1) = k + 1 /\ k # n
          BY <3>1, <4>2
        <5>. QED BY <1>4, <5>1 DEF NodeBehind
      <4>. QED BY <4>1, <4>2
    <3>. QED BY <1>3, <3>2, <3>3, <3>4
  <2>. QED BY <2>1
<1>8. PICK g : g = [m \in {c[i] : i \in 0..(n + 1)} |-> g[m]] /\ WalkSteps(c, n + 1, g)
  <2>1. n + 1 \in Nat
    OBVIOUS
  <2>. QED BY <1>5, <2>1, WalkExists
<1> HIDE DEF D
<1>9. Is(g)
  <2>1. ASSUME NEW m \in D
        PROVE  g[m] = IF m = NoLink THEN << >> ELSE <<m>> \o g[listNodes[m].next]
    <3>1. PICK i \in 0..(n + 1) : m = c[i]
      BY <1>6
    <3>2. CASE i = 0
      BY <1>4, <1>8, <3>1, <3>2 DEF WalkSteps
    <3>3. CASE i # 0
      <4>1. i \in 1..(n + 1)
        BY <3>3
      <4>. QED BY <1>7, <1>8, <3>1, <4>1 DEF WalkSteps
    <3>. QED BY <3>2, <3>3
  <2>2. g = [m \in D |-> g[m]]
    BY <1>6, <1>8
  <2>. QED BY <2>1, <2>2
<1>10. Is(from)
  <2> HIDE DEF Is
  <2>. QED BY <1>9
<1>11. \A m \in D : from[m] = IF m = NoLink THEN << >> ELSE <<m>> \o from[listNodes[m].next]
  <2> HIDE DEF from
  <2>. QED BY <1>10
<1> HIDE DEF from, Is
<1>12. WalkSteps(c, n + 1, from)
  <2>1. from[c[0]] = << >>
    <3>1. c[0] \in D
      BY <1>6
    <3>. QED BY <1>4, <1>11, <3>1
  <2>2. ASSUME NEW i \in 1..(n + 1) PROVE from[c[i]] = <<c[i]>> \o from[c[i - 1]]
    <3>1. c[i] \in D
      BY <1>6
    <3>. QED BY <1>7, <1>11, <3>1
  <2>. QED BY <2>1, <2>2 DEF WalkSteps
<1>13. listNodes[head].next = c[n]
  <2>1. n + 1 \in 1..(n + 1) /\ (n + 1) - 1 = n /\ n + 1 - (n + 1) = 0
    OBVIOUS
  <2>2. listNodes[c[n + 1]].next = c[(n + 1) - 1] /\ c[n + 1] = s[n + 1 - (n + 1)]
    BY <1>4, <1>7, <2>1
  <2>. QED BY <1>2, <2>1, <2>2
<1>14. from[c[n]] = Backs(c, n)
  <2>1. n \in 0..(n + 1) /\ n + 1 \in Nat
    OBVIOUS
  <2>. QED BY <1>12, <2>1, WalkCollects
<1>15. \A i \in 1..n : c[n + 1 - i] = s[i]
  <2>1. \A i \in 1..n : n + 1 - i \in 1..(n + 1) /\ n + 1 - (n + 1 - i) = i
    OBVIOUS
  <2>. QED BY <1>4, <2>1
<1>16. Backs(c, n) = [i \in 1..n |-> s[i]]
  BY <1>15 DEF Backs
<1>. QED BY <1>1, <1>13, <1>14, <1>16

\* The walk along prev sees them in reverse.
LEMMA WalkBackIs ==
    ASSUME NEW n \in Nat, NEW s, IsList(s, n)
    PROVE  WalkBack = Backs(s, n)
<1> DEFINE D == DOMAIN listNodes
           Is(f) == f = [m \in D |-> IF m = head THEN << >> ELSE <<m>> \o f[listNodes[m].prev]]
           from == CHOOSE f : Is(f)
<1>1. WalkBack = from[tail]
  BY DEF WalkBack
<1>2. /\ s[0] = head /\ \A i \in 1..n : s[i] \in Nat \ {0}
      /\ AllApart(s, n)
  BY DEF IsList, NodeRow
<1>3. \A i \in 1..n : s[i] # head /\ listNodes[s[i]].prev = s[i - 1]
  <2>1. ASSUME NEW i \in 1..n PROVE s[i] # head /\ listNodes[s[i]].prev = s[i - 1]
    <3>1. listNodes[s[i]] = LinkedNode(pushed[i], s[i - 1], NodeBehind(s, n, i))
      BY DEF IsList
    <3>2. listNodes[s[i]].prev = s[i - 1]
      BY <3>1 DEF LinkedNode
    <3>3. s[i] # head
      BY <1>2, ListAssumption
    <3>. QED BY <3>2, <3>3
  <2>. QED BY <2>1
<1>4. D = {s[i] : i \in 0..n} /\ tail = s[n]
  BY DEF IsList
<1>5. PICK g : g = [m \in {s[i] : i \in 0..n} |-> g[m]] /\ WalkSteps(s, n, g)
  BY <1>2, WalkExists
<1> HIDE DEF D
<1>6. Is(g)
  <2>1. ASSUME NEW m \in D
        PROVE  g[m] = IF m = head THEN << >> ELSE <<m>> \o g[listNodes[m].prev]
    <3>1. PICK i \in 0..n : m = s[i]
      BY <1>4
    <3>2. CASE i = 0
      BY <1>2, <1>5, <3>1, <3>2 DEF WalkSteps
    <3>3. CASE i # 0
      <4>1. i \in 1..n
        BY <3>3
      <4>. QED BY <1>3, <1>5, <3>1, <4>1 DEF WalkSteps
    <3>. QED BY <3>2, <3>3
  <2>2. g = [m \in D |-> g[m]]
    BY <1>4, <1>5
  <2>. QED BY <2>1, <2>2
<1>7. Is(from)
  <2> HIDE DEF Is
  <2>. QED BY <1>6
<1>8. \A m \in D : from[m] = IF m = head THEN << >> ELSE <<m>> \o from[listNodes[m].prev]
  <2> HIDE DEF from
  <2>. QED BY <1>7
<1> HIDE DEF from, Is
<1>9. WalkSteps(s, n, from)
  <2>1. from[s[0]] = << >>
    <3>1. s[0] \in D
      BY <1>4
    <3>. QED BY <1>2, <1>8, <3>1
  <2>2. ASSUME NEW i \in 1..n PROVE from[s[i]] = <<s[i]>> \o from[s[i - 1]]
    <3>1. s[i] \in D
      BY <1>4
    <3>. QED BY <1>3, <1>8, <3>1
  <2>. QED BY <2>1, <2>2 DEF WalkSteps
<1>10. from[s[n]] = Backs(s, n)
  <2>1. n \in 0..n
    OBVIOUS
  <2>. QED BY <1>9, <2>1, WalkCollects
<1>. QED BY <1>1, <1>4, <1>10

\* What the callback stops
LEMMA StoppedShows ==
    ASSUME NEW n \in Nat, NEW w \in [1..n -> DOMAIN listNodes], NEW X, NEW p \in Seq(X), Len(p) = n,
           \A i \in 1..n : listNodes[w[i]].value = p[i],
           NEW stop, NEW k \in SeenUntil(p, stop)
    PROVE  ValuesAt(Stopped(w, stop)) = SubSeq(p, 1, k)
<1>1. w \in Seq(DOMAIN listNodes) /\ Len(w) = n
  OBVIOUS
<1> DEFINE hits == {i \in 1..Len(w) : listNodes[w[i]].value = stop}
<1>2. hits = {i \in 1..n : p[i] = stop}
  BY <1>1
<1>3. Stopped(w, stop) = IF hits = {} THEN w ELSE SubSeq(w, 1, CHOOSE i \in hits : \A j \in hits : i <= j)
  BY DEF Stopped
<1> HIDE DEF hits
<1>4. k \in 0..n /\ Stopped(w, stop) = SubSeq(w, 1, k)
  <2>1. CASE hits = {}
    <3>1. ~ \E i \in 1..Len(p) : p[i] = stop
      BY <1>2, <2>1
    <3>2. k = n
      BY <3>1 DEF SeenUntil
    <3>3. SubSeq(w, 1, n) = w
      BY <1>1
    <3>. QED BY <1>3, <2>1, <3>2, <3>3
  <2>2. CASE hits # {}
    <3>1. \E i \in 1..Len(p) : p[i] = stop
      BY <1>2, <2>2
    <3>2. k \in 1..n /\ p[k] = stop /\ \A i \in 1..(k - 1) : p[i] # stop
      BY <3>1 DEF SeenUntil
    <3>3. k \in hits /\ \A j \in hits : k <= j
      BY <1>2, <3>2
    <3>4. PICK q : q = (CHOOSE i \in hits : \A j \in hits : i <= j)
      OBVIOUS
    <3>5. q = k
      <4>1. \A i \in hits : i \in 1..n
        BY <1>2
      <4>2. \A i \in hits : (\A j \in hits : i <= j) => i = k
        BY <3>2, <3>3, <4>1
      <4>. QED BY <3>3, <3>4, <4>2
    <3>6. Stopped(w, stop) = SubSeq(w, 1, q)
      BY <1>3, <2>2, <3>4
    <3>. QED BY <3>2, <3>5, <3>6
  <2>. QED BY <2>1, <2>2
<1>5. PICK u : u = SubSeq(w, 1, k)
  OBVIOUS
<1>6. Len(u) = k /\ \A i \in 1..k : u[i] = w[i]
  BY <1>1, <1>4, <1>5
<1>7. SubSeq(p, 1, k) = [i \in 1..k |-> p[i]]
  <2>1. SubSeq(p, 1, k) \in Seq(X) /\ Len(SubSeq(p, 1, k)) = k /\ \A i \in 1..k : SubSeq(p, 1, k)[i] = p[i]
    BY <1>4
  <2>. QED BY <2>1
<1>8. ValuesAt(u) = [i \in 1..k |-> p[i]]
  <2>1. \A i \in 1..k : i \in 1..n
    BY <1>4
  <2>. QED BY <1>6, <2>1 DEF ValuesAt
<1>. QED BY <1>4, <1>5, <1>7, <1>8

\* ListInv says what WalksSeeThePushed does.
LEMMA ListInvSays ==
    ListInv => WalksSeeThePushed
<1> SUFFICES ASSUME ListInv PROVE WalksSeeThePushed
  OBVIOUS
<1>1. CASE kind = NoLink
  BY <1>1 DEF ListInv, WalksSeeThePushed
<1>2. CASE kind # NoLink
  <2>1. PICK n : n = listLength
    OBVIOUS
  <2>2. PICK s : IsList(s, n) /\ ListOwned(s, n)
    BY <1>2, <2>1 DEF ListInv
  <2>3. n \in Nat /\ pushed \in Seq(ListValues) /\ Len(pushed) = n
    BY <2>1 DEF ListInv
  <2>4. \A i \in 1..n : s[i] \in DOMAIN listNodes /\ listNodes[s[i]].value = pushed[i]
    <3>1. ASSUME NEW i \in 1..n PROVE s[i] \in DOMAIN listNodes /\ listNodes[s[i]].value = pushed[i]
      <4>1. listNodes[s[i]] = LinkedNode(pushed[i], s[i - 1], NodeBehind(s, n, i))
        BY <2>2 DEF IsList
      <4>2. listNodes[s[i]].value = pushed[i]
        BY <4>1 DEF LinkedNode
      <4>3. DOMAIN listNodes = {s[j] : j \in 0..n} /\ i \in 0..n
        BY <2>2 DEF IsList
      <4>. QED BY <4>2, <4>3
    <3>. QED BY <3>1
  <2>5. Walk = [i \in 1..n |-> s[i]] /\ WalkBack = Backs(s, n)
    BY <2>2, <2>3, WalkIs, WalkBackIs
  <2>6. ASSUME NEW stop, NEW k \in SeenUntil(pushed, stop)
        PROVE  ValuesAt(Traversed(FALSE, stop)) = SubSeq(pushed, 1, k)
    <3>1. Walk \in [1..n -> DOMAIN listNodes] /\ \A i \in 1..n : listNodes[Walk[i]].value = pushed[i]
      BY <2>4, <2>5
    <3>2. ValuesAt(Stopped(Walk, stop)) = SubSeq(pushed, 1, k)
      BY <2>3, <3>1, StoppedShows
    <3>. QED BY <3>2 DEF Traversed
  <2>7. ASSUME NEW stop, NEW k \in SeenUntil(Mirrored(pushed), stop)
        PROVE  ValuesAt(Traversed(TRUE, stop)) = SubSeq(Mirrored(pushed), 1, k)
    <3>1. \A i \in 1..n : n + 1 - i \in 1..n
      BY <2>3
    <3>2. /\ WalkBack \in [1..n -> DOMAIN listNodes]
          /\ \A i \in 1..n : listNodes[WalkBack[i]].value = pushed[n + 1 - i]
      BY <2>4, <2>5, <3>1 DEF Backs
    <3>3. Mirrored(pushed) = [i \in 1..n |-> pushed[n + 1 - i]]
      BY <2>3 DEF Mirrored
    <3>4. \A i \in 1..n : pushed[i] \in ListValues
      BY <2>3
    <3>5. Mirrored(pushed) \in [1..n -> ListValues]
      BY <3>1, <3>3, <3>4
    <3>6. Mirrored(pushed) \in Seq(ListValues) /\ Len(Mirrored(pushed)) = n
      BY <2>3, <3>5
    <3>7. \A i \in 1..n : listNodes[WalkBack[i]].value = Mirrored(pushed)[i]
      BY <3>2, <3>3
    <3>8. ValuesAt(Stopped(WalkBack, stop)) = SubSeq(Mirrored(pushed), 1, k)
      <4>1. PICK p : p = Mirrored(pushed)
        OBVIOUS
      <4>2. PICK w : w = WalkBack
        OBVIOUS
      <4>3. /\ w \in [1..n -> DOMAIN listNodes] /\ p \in Seq(ListValues) /\ Len(p) = n
            /\ k \in SeenUntil(p, stop) /\ \A i \in 1..n : listNodes[w[i]].value = p[i]
        BY <2>7, <3>2, <3>6, <3>7, <4>1, <4>2
      <4>4. ValuesAt(Stopped(w, stop)) = SubSeq(p, 1, k)
        BY <2>3, <4>3, StoppedShows
      <4>. QED BY <4>1, <4>2, <4>4
    <3>. QED BY <3>8 DEF Traversed
  <2>8. listLength = Len(pushed) /\ \A b \in DOMAIN held : held[b] = New
    BY <2>1, <2>2, <2>3 DEF ListOwned
  <2>9. Deleter # NoLink => DOMAIN held = Visited \cup {0}
    <3>1. Visited = {s[i] : i \in 1..n}
      <4>1. Len(Walk) = n /\ \A i \in 1..n : Walk[i] = s[i]
        BY <2>3, <2>5
      <4>. QED BY <4>1 DEF Visited
    <3>. QED BY <2>2, <3>1 DEF ListOwned
  <2>. QED BY <1>2, <2>6, <2>7, <2>8, <2>9 DEF WalksSeeThePushed
<1>. QED BY <1>1, <1>2

\* What a list visits are its nodes.
LEMMA VisitedIs ==
    ASSUME NEW n \in Nat, NEW s, IsList(s, n)
    PROVE  Visited = {s[i] : i \in 1..n}
<1>1. Walk = [i \in 1..n |-> s[i]]
  BY WalkIs
<1>2. Len(Walk) = n /\ \A i \in 1..n : Walk[i] = s[i]
  BY <1>1
<1>. QED BY <1>2 DEF Visited

\* delete gives back what the allocator of the list gave, or nothing.
LEMMA Deletes ==
    ASSUME allocator \in {"none", "alloc", "both"}, NEW bs,
           \A b \in DOMAIN held : held[b] = New
    PROVE  /\ DOMAIN AfterDelete(bs) = IF Deleter = NoLink THEN DOMAIN held ELSE DOMAIN held \ bs
           /\ \A b \in DOMAIN AfterDelete(bs) : AfterDelete(bs)[b] = New
<1>1. (Deleter = NoLink /\ NoLink # New) \/ (Deleter # NoLink /\ Deleter = New)
  BY ListAssumption DEF Deleter, New
<1> DEFINE kept == {b \in DOMAIN held : b \notin bs \/ Deleter # held[b]}
<1>2. AfterDelete(bs) = [b \in kept |-> IF b \in bs /\ Deleter # NoLink THEN "corrupt" ELSE held[b]]
  BY DEF AfterDelete
<1>3. kept = IF Deleter = NoLink THEN DOMAIN held ELSE DOMAIN held \ bs
  BY <1>1
<1>4. \A b \in kept : b \in DOMAIN held /\ ~(b \in bs /\ Deleter # NoLink)
  BY <1>3
<1> HIDE DEF kept
<1>. QED BY <1>2, <1>3, <1>4

\* A list without nodes
LEMMA HeadIsList ==
    ASSUME listNodes' = HeadOnly, tail' = head
    PROVE  IsList([i \in 0..0 |-> head], 0)'
<1> DEFINE s == [i \in 0..0 |-> head]
<1>1. s[0] = head /\ {s[i] : i \in 0..0} = {head}
  OBVIOUS
<1>2. NodeRow(s, 0)
  BY DEF NodeRow, AllApart
<1>3. DOMAIN listNodes' = {head} /\ listNodes'[head] = LinkedNode(NoLink, head, NoLink)
  BY DEF HeadOnly, ListNode, LinkedNode
<1> HIDE DEF s
<1>4. IsList(s, 0)'
  BY <1>1, <1>2, <1>3 DEF IsList, NodeBehind
<1>. QED BY <1>4 DEF s

\* A block that is not in use exists.
LEMMA FreshIsFree ==
    ASSUME IsFiniteSet(DOMAIN held)
    PROVE  FreshBlock \in Nat \ {0} /\ FreshBlock \notin DOMAIN held
<1>1. PICK k : k = Cardinality(DOMAIN held)
  OBVIOUS
<1>2. k \in Nat
  BY <1>1, FS_CardinalityType
<1>3. \E b \in 1..(k + 1) : b \notin DOMAIN held
  <2>1. SUFFICES ASSUME 1..(k + 1) \subseteq DOMAIN held PROVE FALSE
    OBVIOUS
  <2>2. Cardinality(1..(k + 1)) <= k
    BY <1>1, <2>1, FS_Subset
  <2>3. Cardinality(1..(k + 1)) = k + 1
    BY <1>2, FS_Interval
  <2>. QED BY <1>2, <2>2, <2>3
<1>4. FreshBlock \in 1..(k + 1) /\ FreshBlock \notin DOMAIN held
  BY <1>1, <1>3 DEF FreshBlock
<1>. QED BY <1>2, <1>4

\* open_llist, open_llist_with_allocator and open_dllist
LEMMA OpenKeeps ==
    ASSUME ListInv, NEW k \in {"llist", "dllist"}, NEW alloc \in {"none", "alloc", "both"}, Open(k, alloc)
    PROVE  ListInv'
<1> DEFINE s == [i \in 0..0 |-> head]
<1>1. /\ kind' = k /\ allocator' = alloc /\ listLength' = 0 /\ pushed' = << >>
      /\ held' = [b \in {0} |-> IF alloc = "none" THEN "NEW" ELSE "alloc"]
      /\ listNodes' = HeadOnly /\ tail' = head
  BY DEF Open
<1>2. IsList(s, 0)'
  BY <1>1, HeadIsList
<1>3. DOMAIN held' = {0} /\ held'[0] = New'
  BY <1>1 DEF New
<1>4. ListOwned(s, 0)'
  BY <1>3 DEF ListOwned
<1>5. IsFiniteSet(DOMAIN held')
  BY <1>3, FS_Singleton
<1>6. Len(pushed') = 0 /\ pushed' \in Seq(ListValues)
  BY <1>1
<1> HIDE DEF s
<1>7. \E t : IsList(t, 0)' /\ ListOwned(t, 0)'
  BY <1>2, <1>4
<1>8. kind' # NoLink
  BY <1>1, ListAssumption
<1>. QED BY <1>1, <1>5, <1>6, <1>7, <1>8 DEF ListInv

\* The clear functions
LEMMA ListClearKeeps ==
    ASSUME ListInv, ListClear
    PROVE  ListInv'
<1> DEFINE e == [i \in 0..0 |-> head]
<1>1. /\ kind # NoLink /\ kind' = kind /\ allocator' = allocator /\ tail' = head
      /\ listLength' = 0 /\ pushed' = << >> /\ held' = AfterDelete(Visited)
      /\ listNodes' = [HeadOnly EXCEPT ![head].prev = listNodes[head].prev]
  BY DEF ListClear
<1>2. PICK n : n = listLength
  OBVIOUS
<1>3. PICK s : IsList(s, n) /\ ListOwned(s, n)
  BY <1>1, <1>2 DEF ListInv
<1>4. n \in Nat /\ allocator \in {"none", "alloc", "both"} /\ IsFiniteSet(DOMAIN held)
  BY <1>2 DEF ListInv
<1>5. listNodes' = HeadOnly
  <2>1. listNodes[head].prev = head
    BY <1>3 DEF IsList, LinkedNode
  <2>2. DOMAIN HeadOnly = {head} /\ HeadOnly[head] = ListNode(NoLink, head)
    BY DEF HeadOnly
  <2>3. [ListNode(NoLink, head) EXCEPT !.prev = head] = ListNode(NoLink, head)
    BY DEF ListNode
  <2>4. DOMAIN listNodes' = {head} /\ listNodes'[head] = ListNode(NoLink, head)
    BY <1>1, <2>1, <2>2, <2>3
  <2>5. listNodes' = [m \in {head} |-> listNodes'[m]]
    BY <1>1, <2>2
  <2>6. listNodes' = [m \in {head} |-> ListNode(NoLink, head)]
    BY <2>4, <2>5
  <2>. QED BY <2>6 DEF HeadOnly
<1>6. IsList(e, 0)'
  BY <1>1, <1>5, HeadIsList
<1>7. \A b \in DOMAIN held : held[b] = New
  BY <1>3 DEF ListOwned
<1>8. /\ DOMAIN held' = IF Deleter = NoLink THEN DOMAIN held ELSE DOMAIN held \ Visited
      /\ \A b \in DOMAIN held' : held'[b] = New
  BY <1>1, <1>4, <1>7, Deletes
<1>9. Deleter' = Deleter /\ New' = New
  BY <1>1 DEF Deleter, New
<1>10. Deleter # NoLink => DOMAIN held' = {0}
  <2>1. Visited = {s[i] : i \in 1..n}
    BY <1>3, <1>4, VisitedIs
  <2>2. 0 \notin Visited
    BY <1>3, <2>1 DEF IsList, NodeRow
  <2>3. Deleter # NoLink => DOMAIN held = Visited \cup {0}
    BY <1>3, <2>1 DEF ListOwned
  <2>. QED BY <1>8, <2>2, <2>3
<1>11. ListOwned(e, 0)'
  BY <1>8, <1>9, <1>10 DEF ListOwned
<1>12. IsFiniteSet(DOMAIN held')
  BY <1>4, <1>8, FS_Subset
<1>13. Len(pushed') = 0 /\ pushed' \in Seq(ListValues)
  BY <1>1
<1> HIDE DEF e
<1>14. \E t : IsList(t, 0)' /\ ListOwned(t, 0)'
  BY <1>6, <1>11
<1>. QED BY <1>1, <1>4, <1>12, <1>13, <1>14 DEF ListInv

\* The close functions
LEMMA ListCloseKeeps ==
    ASSUME ListInv, ListClose
    PROVE  ListInv'
<1>1. /\ kind # NoLink /\ kind' = NoLink /\ allocator' = allocator
      /\ listLength' = 0 /\ pushed' = << >> /\ held' = AfterDelete(Visited \cup {0})
  BY DEF ListClose
<1>2. PICK n : n = listLength
  OBVIOUS
<1>3. PICK s : IsList(s, n) /\ ListOwned(s, n)
  BY <1>1, <1>2 DEF ListInv
<1>4. n \in Nat /\ allocator \in {"none", "alloc", "both"} /\ IsFiniteSet(DOMAIN held)
  BY <1>2 DEF ListInv
<1>5. \A b \in DOMAIN held : held[b] = New
  BY <1>3 DEF ListOwned
<1>6. DOMAIN held' = IF Deleter = NoLink THEN DOMAIN held ELSE DOMAIN held \ (Visited \cup {0})
  BY <1>1, <1>4, <1>5, Deletes
<1>7. Deleter' = Deleter
  BY <1>1 DEF Deleter
<1>8. Deleter # NoLink => DOMAIN held' = {}
  <2>1. Visited = {s[i] : i \in 1..n}
    BY <1>3, <1>4, VisitedIs
  <2>. QED BY <1>3, <1>6, <2>1 DEF ListOwned
<1>9. IsFiniteSet(DOMAIN held')
  BY <1>4, <1>6, FS_Subset
<1>10. Len(pushed') = 0 /\ pushed' \in Seq(ListValues)
  BY <1>1
<1>. QED BY <1>1, <1>4, <1>7, <1>8, <1>9, <1>10 DEF ListInv

\* The push functions: a node behind the last
LEMMA PushBackKeeps ==
    ASSUME ListInv, NEW v \in ListValues, PushBack(v)
    PROVE  ListInv'
<1>1. PICK n : n = listLength
  OBVIOUS
<1>2. PICK x : x = FreshBlock
  OBVIOUS
<1>3. /\ kind # NoLink /\ kind' = kind /\ allocator' = allocator /\ tail' = x
      /\ listLength' = n + 1 /\ pushed' = Append(pushed, v)
      /\ held' = [b \in DOMAIN held \cup {x} |-> IF b = x THEN New ELSE held[b]]
  BY <1>1, <1>2 DEF PushBack
<1>4. listNodes' = [m \in DOMAIN listNodes \cup {x} |->
                      IF m = x THEN ListNode(v, tail) ELSE [listNodes EXCEPT ![tail].next = x][m]]
  BY <1>2 DEF PushBack
<1>5. PICK s : IsList(s, n) /\ ListOwned(s, n)
  BY <1>1, <1>3 DEF ListInv
<1>6. /\ n \in Nat /\ allocator \in {"none", "alloc", "both"} /\ IsFiniteSet(DOMAIN held)
      /\ pushed \in Seq(ListValues) /\ Len(pushed) = n
  BY <1>1 DEF ListInv
<1>7. x \in Nat \ {0} /\ x \notin DOMAIN held
  BY <1>2, <1>6, FreshIsFree
<1>8. /\ s[0] = head /\ \A i \in 1..n : s[i] \in Nat \ {0}
      /\ \A i, j \in 0..n : i # j => s[i] # s[j]
      /\ tail = s[n] /\ DOMAIN listNodes = {s[i] : i \in 0..n}
  BY <1>5 DEF IsList, NodeRow, AllApart
<1>9. \A i \in 0..n : s[i] # x
  <2>1. \A i \in 1..n : s[i] # x
    BY <1>5, <1>7 DEF ListOwned
  <2>2. head # x
    BY <1>7, ListAssumption
  <2>. QED BY <1>8, <2>1, <2>2
<1> DEFINE t == [i \in 0..(n + 1) |-> IF i = n + 1 THEN x ELSE s[i]]
<1>10. t[n + 1] = x /\ \A i \in 0..n : t[i] = s[i]
  BY <1>6
<1> HIDE DEF t
<1>11. NodeRow(t, n + 1)
  <2>1. t[0] = head
    BY <1>6, <1>8, <1>10
  <2>2. \A i \in 0..(n + 1) : i = n + 1 \/ i \in 0..n
    BY <1>6
  <2>3. \A i \in 1..(n + 1) : i = n + 1 \/ (i \in 1..n /\ i \in 0..n)
    BY <1>6
  <2>4. \A i \in 1..(n + 1) : t[i] \in Nat \ {0}
    BY <1>7, <1>8, <1>10, <2>3
  <2>5. \A i, j \in 0..(n + 1) : i # j => t[i] # t[j]
    BY <1>8, <1>9, <1>10, <2>2
  <2>. QED BY <2>1, <2>4, <2>5 DEF NodeRow, AllApart
<1>12. DOMAIN listNodes' = {t[i] : i \in 0..(n + 1)}
  <2>1. \A i \in 0..(n + 1) : i = n + 1 \/ i \in 0..n
    BY <1>6
  <2>2. n + 1 \in 0..(n + 1) /\ \A i \in 0..n : i \in 0..(n + 1)
    BY <1>6
  <2>3. DOMAIN listNodes' = DOMAIN listNodes \cup {x}
    BY <1>4
  <2>4. \A m : m \in DOMAIN listNodes' => m \in {t[i] : i \in 0..(n + 1)}
    BY <1>8, <1>10, <2>2, <2>3
  <2>5. \A m : m \in {t[i] : i \in 0..(n + 1)} => m \in DOMAIN listNodes'
    BY <1>8, <1>10, <2>1, <2>3
  <2>. QED BY <2>4, <2>5
<1>13. listNodes'[x] = LinkedNode(v, s[n], NoLink)
  BY <1>4, <1>8 DEF ListNode, LinkedNode
<1>14. \A i \in 0..n : i # n => listNodes'[s[i]] = listNodes[s[i]]
  <2>1. ASSUME NEW i \in 0..n, i # n PROVE listNodes'[s[i]] = listNodes[s[i]]
    <3>1. s[i] \in DOMAIN listNodes /\ s[i] # x /\ s[i] # tail
      BY <1>6, <1>8, <1>9, <2>1
    <3>. QED BY <1>4, <3>1
  <2>. QED BY <2>1
<1>15. ASSUME NEW y, NEW p, listNodes[s[n]] = LinkedNode(y, p, NoLink)
       PROVE  listNodes'[s[n]] = LinkedNode(y, p, x)
  <2>1. s[n] \in DOMAIN listNodes /\ s[n] # x /\ s[n] = tail
    BY <1>6, <1>8, <1>9
  <2>2. listNodes'[s[n]] = [listNodes[s[n]] EXCEPT !.next = x]
    BY <1>4, <2>1
  <2>. QED BY <1>15, <2>2 DEF LinkedNode
<1>16. listNodes'[head] = LinkedNode(NoLink, head, NodeBehind(t, n + 1, 0))
  <2>1. listNodes[head] = LinkedNode(NoLink, head, NodeBehind(s, n, 0))
    BY <1>5 DEF IsList
  <2>2. CASE n = 0
    <3>1. listNodes'[head] = LinkedNode(NoLink, head, x)
      BY <1>8, <1>15, <2>1, <2>2 DEF NodeBehind
    <3>. QED BY <1>10, <2>2, <3>1 DEF NodeBehind
  <2>3. CASE n # 0
    <3>1. listNodes'[head] = listNodes[head]
      BY <1>6, <1>8, <1>14, <2>3
    <3>2. NodeBehind(t, n + 1, 0) = NodeBehind(s, n, 0)
      BY <1>6, <1>10, <2>3 DEF NodeBehind
    <3>. QED BY <2>1, <3>1, <3>2
  <2>. QED BY <2>2, <2>3
<1>17. pushed' \in Seq(ListValues) /\ Len(pushed') = n + 1 /\ pushed'[n + 1] = v
       /\ \A i \in 1..n : pushed'[i] = pushed[i]
  BY <1>3, <1>6
<1>18. ASSUME NEW i \in 1..(n + 1)
       PROVE  listNodes'[t[i]] = LinkedNode(pushed'[i], t[i - 1], NodeBehind(t, n + 1, i))
  <2>1. CASE i = n + 1
    <3>1. t[i - 1] = s[n] /\ NodeBehind(t, n + 1, i) = NoLink
      BY <1>6, <1>10, <2>1 DEF NodeBehind
    <3>. QED BY <1>10, <1>13, <1>17, <2>1, <3>1
  <2>2. CASE i # n + 1
    <3>1. i \in 1..n /\ i \in 0..n /\ i - 1 \in 0..n
      BY <1>6, <2>2
    <3>2. listNodes[s[i]] = LinkedNode(pushed[i], s[i - 1], NodeBehind(s, n, i))
      BY <1>5, <3>1 DEF IsList
    <3>3. t[i] = s[i] /\ t[i - 1] = s[i - 1] /\ pushed'[i] = pushed[i]
      BY <1>10, <1>17, <3>1
    <3>4. CASE i = n
      <4>1. NodeBehind(s, n, i) = NoLink /\ NodeBehind(t, n + 1, i) = x
        BY <1>6, <1>10, <3>4 DEF NodeBehind
      <4>2. listNodes'[s[n]] = LinkedNode(pushed[i], s[i - 1], x)
        BY <1>15, <3>2, <3>4, <4>1
      <4>. QED BY <3>3, <3>4, <4>1, <4>2
    <3>5. CASE i # n
      <4>1. i + 1 \in 0..n
        BY <1>6, <3>1, <3>5
      <4>2. NodeBehind(t, n + 1, i) = NodeBehind(s, n, i)
        BY <1>10, <2>2, <3>5, <4>1 DEF NodeBehind
      <4>. QED BY <1>14, <3>1, <3>2, <3>3, <3>5, <4>2
    <3>. QED BY <3>4, <3>5
  <2>. QED BY <2>1, <2>2
<1>19. IsList(t, n + 1)'
  <2>1. tail' = t[n + 1]
    BY <1>3, <1>10
  <2>. QED BY <1>11, <1>12, <1>16, <1>18, <2>1 DEF IsList
<1>20. Deleter' = Deleter /\ New' = New
  BY <1>3 DEF Deleter, New
<1>21. DOMAIN held' = DOMAIN held \cup {x} /\ \A b \in DOMAIN held' : held'[b] = New
  BY <1>3, <1>5 DEF ListOwned
<1>22. ListOwned(t, n + 1)'
  <2>1. \A i \in 1..(n + 1) : i = n + 1 \/ (i \in 1..n /\ t[i] = s[i])
    BY <1>6, <1>10
  <2>2. \A i \in 1..(n + 1) : t[i] \in DOMAIN held'
    BY <1>5, <1>10, <1>21, <2>1 DEF ListOwned
  <2>3. {t[i] : i \in 1..(n + 1)} = {s[i] : i \in 1..n} \cup {x}
    <3>1. n + 1 \in 1..(n + 1) /\ \A i \in 1..n : i \in 1..(n + 1) /\ t[i] = s[i]
      BY <1>6, <1>10
    <3>2. \A b : b \in {t[i] : i \in 1..(n + 1)} => b \in {s[i] : i \in 1..n} \cup {x}
      BY <1>10, <2>1
    <3>3. \A b : b \in {s[i] : i \in 1..n} \cup {x} => b \in {t[i] : i \in 1..(n + 1)}
      BY <1>10, <3>1
    <3>. QED BY <3>2, <3>3
  <2>4. Deleter # NoLink => DOMAIN held' = {t[i] : i \in 1..(n + 1)} \cup {0}
    BY <1>5, <1>21, <2>3 DEF ListOwned
  <2>. QED BY <1>20, <1>21, <2>2, <2>4 DEF ListOwned
<1>23. IsFiniteSet(DOMAIN held')
  BY <1>6, <1>21, FS_AddElement
<1>24. \E r : IsList(r, n + 1)' /\ ListOwned(r, n + 1)'
  BY <1>19, <1>22
<1>. QED BY <1>3, <1>6, <1>17, <1>23, <1>24 DEF ListInv

\* No list is open at first.
LEMMA ListInitInv ==
    ListInit => ListInv
<1> SUFFICES ASSUME ListInit PROVE ListInv
  OBVIOUS
<1>1. DOMAIN held = {} /\ pushed = << >> /\ listLength = 0 /\ kind = NoLink /\ allocator = "none"
  BY DEF ListInit
<1>. QED BY <1>1, FS_EmptySet DEF ListInv

\* Whatever is pushed, cleared and closed, the walks of link.c see just the
\* values pushed, in their order or the reverse, and what the lists give back
\* is just what they no longer use.
THEOREM ListsWalkAlike == ListsSpec => []WalksSeeThePushed
<1>1. ListInit => ListInv
  BY ListInitInv
<1>2. ListInv /\ [ListNext]_listVars => ListInv'
  <2> SUFFICES ASSUME ListInv, [ListNext]_listVars PROVE ListInv'
    OBVIOUS
  <2>1. ASSUME NEW k \in {"llist", "dllist"}, NEW alloc \in {"none", "alloc", "both"}, Open(k, alloc)
        PROVE  ListInv'
    BY <2>1, OpenKeeps
  <2>2. ASSUME NEW v \in ListValues, PushBack(v) PROVE ListInv'
    BY <2>2, PushBackKeeps
  <2>3. CASE ListClear
    BY <2>3, ListClearKeeps
  <2>4. CASE ListClose
    BY <2>4, ListCloseKeeps
  <2>5. CASE UNCHANGED listVars
    <3>1. /\ kind' = kind /\ allocator' = allocator /\ listNodes' = listNodes /\ tail' = tail
          /\ listLength' = listLength /\ held' = held /\ pushed' = pushed
      BY <2>5 DEF listVars
    <3>2. Deleter' = Deleter /\ New' = New
      BY <3>1 DEF Deleter, New
    <3>3. ASSUME NEW n, NEW s, IsList(s, n), ListOwned(s, n) PROVE IsList(s, n)' /\ ListOwned(s, n)'
      <4>1. IsList(s, n)'
        BY <3>1, <3>3 DEF IsList
      <4>2. ListOwned(s, n)'
        BY <3>1, <3>2, <3>3 DEF ListOwned
      <4>. QED BY <4>1, <4>2
    <3>4. PICK n : n = listLength
      OBVIOUS
    <3>5. kind # NoLink => \E s : IsList(s, n)' /\ ListOwned(s, n)'
      <4>1. SUFFICES ASSUME kind # NoLink PROVE \E s : IsList(s, n)' /\ ListOwned(s, n)'
        OBVIOUS
      <4>2. PICK s : IsList(s, n) /\ ListOwned(s, n)
        BY <3>4, <4>1 DEF ListInv
      <4>. QED BY <3>3, <4>2
    <3>. QED BY <3>1, <3>2, <3>4, <3>5 DEF ListInv
  <2>. QED BY <2>1, <2>2, <2>3, <2>4, <2>5 DEF ListNext
<1>. QED BY <1>1, <1>2, ListInvSays, PTL DEF ListsSpec

-----------------------------------------------------------------------------
(* The sorts: Sorting. *)

\* A table of the states of a loop
IsTable(n, X, x0, H, f) ==
    f \in [0..n -> X] /\ f[0] = x0 /\ \A i \in 1..n : f[i] = H[<<i, f[i - 1]>>]

\* A table of n + 1 states, each computed from the one before, exists.
LEMMA Tabled ==
    ASSUME NEW n \in Nat, NEW X, NEW x0 \in X, NEW H \in [(1..n) \X X -> X]
    PROVE  \E f : IsTable(n, X, x0, H, f)
<1> DEFINE pr == [i \in 1..n |-> i - 1]
<1>1. pr \in [1..n -> Nat] /\ \A i \in 1..n : pr[i] < i
  OBVIOUS
<1>2. \A i \in 1..n : pr[i] = i - 1
  OBVIOUS
<1> HIDE DEF pr
<1>3. PICK f : Filled(n, X, x0, H, pr, f)
  BY <1>1, FromBelow
<1>4. f \in [0..n -> X] /\ f[0] = x0 /\ \A i \in 1..n : f[i] = H[<<i, f[i - 1]>>]
  BY <1>2, <1>3 DEF Filled
<1>. QED BY <1>4 DEF IsTable

\* Induction up to a number
LEMMA UpTo ==
    ASSUME NEW n \in Nat, NEW T, 0 \in T, \A i \in 0..n : i \in T /\ i < n => i + 1 \in T
    PROVE  \A i \in 0..n : i \in T
<1> DEFINE S == {i \in Nat : i <= n => i \in T}
<1>1. 0 \in S
  OBVIOUS
<1>2. ASSUME NEW i \in S PROVE i + 1 \in S
  OBVIOUS
<1>3. S = Nat
  <2>1. S \in SUBSET Nat
    OBVIOUS
  <2> HIDE DEF S
  <2>. QED BY <1>1, <1>2, <2>1, NatSets
<1>. QED BY <1>3

-----------------------------------------------------------------------------
(* Arrays that are rearranged. *)

Rows(n) == [1..n -> [key : Int, place : Int]]

\* b has the values of a in the cells l..r, and is a elsewhere.
Shuffled(a, b, n, l, r) ==
    /\ b \in Rows(n)
    /\ \A p \in 1..n : p \notin l..r => b[p] = a[p]
    /\ \A p \in l..r : \E q \in l..r : b[p] = a[q]
    /\ \A p \in l..r : \E q \in l..r : a[p] = b[q]

\* Equal values are in the order of their places.
Stably(a, n) == \A p, q \in 1..n : p < q /\ a[p].key = a[q].key => a[p].place < a[q].place

\* Cells l to r are in order.
Ordered(a, l, r) == \A p, q \in l..r : p < q => a[p].key <= a[q].key

\* A function on 1..n is a sequence of length n.
LEMMA SeqIs ==
    ASSUME NEW S, NEW n \in Nat, NEW a \in [1..n -> S]
    PROVE  a \in Seq(S) /\ Len(a) = n
OBVIOUS

\* The length of an array and the number of rounds over it
LEMMA RowIs ==
    ASSUME NEW n \in Nat, NEW a \in Rows(n)
    PROVE  /\ Len(a) = n /\ (a = << >> <=> n = 0)
           /\ Rounds(a) \in Nat /\ Rounds(a) = IF n = 0 THEN 0 ELSE n - 1
           /\ \A p \in 1..n : a[p].key \in Int /\ a[p].place \in Int
<1>1. a \in Seq([key : Int, place : Int]) /\ Len(a) = n
  <2>1. PICK S : S = [key : Int, place : Int]
    OBVIOUS
  <2>2. a \in [1..n -> S]
    BY <2>1 DEF Rows
  <2>3. a \in Seq(S) /\ Len(a) = n
    BY <2>2, SeqIs
  <2>. QED BY <2>1, <2>3
<1>2. a = << >> <=> n = 0
  BY <1>1
<1>3. \A p \in 1..n : a[p] \in [key : Int, place : Int]
  BY DEF Rows
<1>4. \A p \in 1..n : a[p].key \in Int /\ a[p].place \in Int
  BY <1>3
<1>. QED BY <1>1, <1>2, <1>4 DEF Rounds

\* An array left alone is a shuffle of itself.
LEMMA ShuffledSelf ==
    ASSUME NEW n, NEW a \in Rows(n), NEW l, NEW r
    PROVE  Shuffled(a, a, n, l, r)
BY DEF Shuffled

\* Shuffles follow each other.
LEMMA ShuffledTwice ==
    ASSUME NEW n, NEW a, NEW b, NEW c, NEW l, NEW r,
           Shuffled(a, b, n, l, r), Shuffled(b, c, n, l, r)
    PROVE  Shuffled(a, c, n, l, r)
<1>1. c \in Rows(n) /\ \A p \in 1..n : p \notin l..r => c[p] = a[p]
  <2>1. c \in Rows(n)
    BY DEF Shuffled
  <2>2. \A p \in 1..n : p \notin l..r => c[p] = b[p]
    BY DEF Shuffled
  <2>3. \A p \in 1..n : p \notin l..r => b[p] = a[p]
    BY DEF Shuffled
  <2>. QED BY <2>1, <2>2, <2>3
<1>2. ASSUME NEW p \in l..r PROVE \E q \in l..r : c[p] = a[q]
  <2>1. PICK s \in l..r : c[p] = b[s]
    BY <1>2 DEF Shuffled
  <2>2. PICK q \in l..r : b[s] = a[q]
    BY DEF Shuffled
  <2>. QED BY <2>1, <2>2
<1>3. ASSUME NEW p \in l..r PROVE \E q \in l..r : a[p] = c[q]
  <2>1. PICK s \in l..r : a[p] = b[s]
    BY <1>3 DEF Shuffled
  <2>2. PICK q \in l..r : b[s] = c[q]
    BY DEF Shuffled
  <2>. QED BY <2>1, <2>2
<1>. QED BY <1>1, <1>2, <1>3 DEF Shuffled

\* What is shuffled within a part is shuffled within a larger part.
LEMMA ShuffledWider ==
    ASSUME NEW n \in Nat, NEW a, NEW b, NEW l \in Int, NEW r \in Int, Shuffled(a, b, n, l, r),
           NEW l2 \in Int, NEW r2 \in Int, 1 <= l2, l2 <= l, r <= r2, r2 <= n
    PROVE  Shuffled(a, b, n, l2, r2)
<1>1. b \in Rows(n) /\ \A p \in 1..n : p \notin l2..r2 => b[p] = a[p]
  BY DEF Shuffled
<1>2. \A p \in l2..r2 : p \in 1..n /\ (p \in l..r \/ b[p] = a[p])
  BY DEF Shuffled
<1>3. \A p \in l..r : p \in l2..r2
  OBVIOUS
<1>4. \A p \in l2..r2 : \E q \in l2..r2 : b[p] = a[q]
  BY <1>2, <1>3 DEF Shuffled
<1>5. \A p \in l2..r2 : \E q \in l2..r2 : a[p] = b[q]
  BY <1>2, <1>3 DEF Shuffled
<1>. QED BY <1>1, <1>4, <1>5 DEF Shuffled

IsSwap(a, b, n, i, j) ==
    /\ b \in Rows(n) /\ b[i] = a[j] /\ b[j] = a[i]
    /\ \A p \in 1..n : p # i /\ p # j => b[p] = a[p]

\* What a swap does to each cell (swap, sort.c:9)
LEMMA SwappedIs ==
    ASSUME NEW n \in Nat, NEW a \in Rows(n), NEW i \in 1..n, NEW j \in 1..n
    PROVE  IsSwap(a, Swapped(a, i, j), n, i, j)
<1>1. a \in [1..n -> [key : Int, place : Int]]
  BY DEF Rows
<1>. QED BY <1>1 DEF IsSwap, Swapped, Rows

\* A swap is a shuffle.
LEMMA SwapShuffles ==
    ASSUME NEW n \in Nat, NEW a, NEW b, NEW i \in 1..n, NEW j \in 1..n, IsSwap(a, b, n, i, j)
    PROVE  Shuffled(a, b, n, 1, n)
<1>1. /\ b \in Rows(n) /\ b[i] = a[j] /\ b[j] = a[i]
      /\ \A p \in 1..n : p # i /\ p # j => b[p] = a[p]
  BY DEF IsSwap
<1>2. \A p \in 1..n : \E q \in 1..n : b[p] = a[q]
  BY <1>1
<1>3. \A p \in 1..n : \E q \in 1..n : a[p] = b[q]
  BY <1>1
<1>. QED BY <1>1, <1>2, <1>3 DEF Shuffled

-----------------------------------------------------------------------------
(* bubble_sort *)

\* What is behind the first t cells is in its place.
Topped(a, n, t) == \A p, q \in 1..n : p < q /\ q > t => a[p].key <= a[q].key

BubbleStep(a, j) == IF Above(a[j], a[j + 1]) THEN Swapped(a, j, j + 1) ELSE a

\* How far a pass over the first i + 1 cells has come
Bubbled(a, b, n, i, j) ==
    /\ Shuffled(a, b, n, 1, n) /\ (Topped(a, n, i + 1) => Topped(b, n, i + 1))
    /\ \A p \in 1..j : b[p].key <= b[j + 1].key
    /\ Stably(a, n) => Stably(b, n)

\* A step of a pass keeps what the pass promises (sort.c:14-16).
LEMMA BubbleStepIs ==
    ASSUME NEW n \in Nat, NEW a \in Rows(n), NEW b, NEW i \in Nat, i < n, NEW j \in 1..i,
           Bubbled(a, b, n, i, j - 1)
    PROVE  Bubbled(a, BubbleStep(b, j), n, i, j)
<1>1. /\ b \in Rows(n) /\ Shuffled(a, b, n, 1, n)
      /\ \A p \in 1..j - 1 : b[p].key <= b[j].key
  BY DEF Bubbled, Shuffled
<1>2. \A p \in 1..n : b[p].key \in Int /\ b[p].place \in Int
  BY <1>1, RowIs
<1>3. j \in 1..n /\ j + 1 \in 1..n /\ j + 1 <= i + 1
  OBVIOUS
<1>4. CASE b[j].key > b[j + 1].key
  <2>1. PICK c : c = Swapped(b, j, j + 1)
    OBVIOUS
  <2>2. BubbleStep(b, j) = c
    BY <1>4, <2>1 DEF BubbleStep, Above
  <2>3. /\ c \in Rows(n) /\ c[j] = b[j + 1] /\ c[j + 1] = b[j]
        /\ \A p \in 1..n : p # j /\ p # j + 1 => c[p] = b[p]
    <3>1. IsSwap(b, c, n, j, j + 1)
      BY <1>1, <1>3, <2>1, SwappedIs
    <3>. QED BY <3>1 DEF IsSwap
  <2>4. Shuffled(a, c, n, 1, n)
    <3>1. IsSwap(b, c, n, j, j + 1)
      BY <2>3 DEF IsSwap
    <3>. QED BY <1>1, <1>3, <3>1, SwapShuffles, ShuffledTwice
  <2>5. Topped(b, n, i + 1) => Topped(c, n, i + 1)
    <3> SUFFICES ASSUME Topped(b, n, i + 1), NEW p \in 1..n, NEW q \in 1..n, p < q, q > i + 1
                 PROVE  c[p].key <= c[q].key
      BY DEF Topped
    <3>1. c[q] = b[q] /\ q > j + 1
      BY <1>3, <2>3
    <3>2. PICK s \in 1..n : c[p] = b[s] /\ s < q
      BY <1>3, <2>3, <3>1
    <3>. QED BY <3>1, <3>2 DEF Topped
  <2>6. \A p \in 1..j : c[p].key <= c[j + 1].key
    <3> SUFFICES ASSUME NEW p \in 1..j
                 PROVE  c[p].key <= b[j].key
      BY <2>3
    <3>1. p \in 1..n
      BY <1>3
    <3>. QED BY <1>1, <1>2, <1>3, <1>4, <2>3, <3>1
  <2>7. Stably(b, n) => Stably(c, n)
    <3> SUFFICES ASSUME Stably(b, n), NEW p \in 1..n, NEW q \in 1..n, p < q, c[p].key = c[q].key
                 PROVE  c[p].place < c[q].place
      BY DEF Stably
    <3>1. ~ (p = j /\ q = j + 1)
      BY <1>2, <1>3, <1>4, <2>3
    <3>2. PICK s \in 1..n, t \in 1..n : c[p] = b[s] /\ c[q] = b[t] /\ s < t
      <4>1. CASE p = j
        <5>1. c[p] = b[j + 1] /\ c[q] = b[q] /\ j + 1 < q
          BY <1>3, <2>3, <3>1, <4>1
        <5>. QED BY <1>3, <5>1
      <4>2. CASE p = j + 1
        <5>1. c[p] = b[j] /\ c[q] = b[q] /\ j < q
          BY <1>3, <2>3, <4>2
        <5>. QED BY <1>3, <5>1
      <4>3. CASE p # j /\ p # j + 1
        <5>1. c[p] = b[p]
          BY <2>3, <4>3
        <5>2. CASE q = j
          BY <1>3, <2>3, <5>1, <5>2
        <5>3. CASE q = j + 1
          <6>1. c[q] = b[j] /\ p < j
            BY <2>3, <4>3, <5>3
          <6>. QED BY <1>3, <5>1, <6>1
        <5>4. CASE q # j /\ q # j + 1
          BY <2>3, <5>1, <5>4
        <5>. QED BY <5>2, <5>3, <5>4
      <4>. QED BY <4>1, <4>2, <4>3
    <3>. QED BY <3>2 DEF Stably
  <2>8. Stably(a, n) => Stably(c, n)
    BY <2>7 DEF Bubbled
  <2>. QED BY <2>2, <2>4, <2>5, <2>6, <2>8 DEF Bubbled
<1>5. CASE ~ (b[j].key > b[j + 1].key)
  <2>1. BubbleStep(b, j) = b
    BY <1>5 DEF BubbleStep, Above
  <2>2. \A p \in 1..j : b[p].key <= b[j + 1].key
    <3> SUFFICES ASSUME NEW p \in 1..j
                 PROVE  b[p].key <= b[j + 1].key
      OBVIOUS
    <3>1. p \in 1..n
      BY <1>3
    <3>2. b[p].key <= b[j].key
      BY <1>1, <1>2, <1>3
    <3>. QED BY <1>2, <1>3, <1>5, <3>1, <3>2
  <2>. QED BY <2>1, <2>2 DEF Bubbled
<1>. QED BY <1>4, <1>5

\* A step of a pass leaves an array of the same length.
LEMMA BubbleStepKeeps ==
    ASSUME NEW n \in Nat, NEW i \in Nat, i < n
    PROVE  \A j \in 1..i, b \in Rows(n) : BubbleStep(b, j) \in Rows(n)
<1> SUFFICES ASSUME NEW j \in 1..i, NEW b \in Rows(n)
             PROVE  BubbleStep(b, j) \in Rows(n)
  OBVIOUS
<1>1. j \in 1..n /\ j + 1 \in 1..n
  OBVIOUS
<1>2. Swapped(b, j, j + 1) \in Rows(n)
  BY <1>1, SwappedIs DEF IsSwap
<1>. QED BY <1>2 DEF BubbleStep

\* A pass is the table of its steps (sort.c:13-17).
LEMMA BubbleTable ==
    ASSUME NEW n \in Nat, NEW a \in Rows(n), NEW i \in Nat, i < n
    PROVE  \E f : /\ f[0] = a /\ BubblePass(a, i) = f[i]
                  /\ \A j \in 1..i : f[j] = BubbleStep(f[j - 1], j)
<1> DEFINE Is(f) == f = [j \in 0..i |->
                          IF j = 0 THEN a
                          ELSE IF Above(f[j - 1][j], f[j - 1][j + 1]) THEN Swapped(f[j - 1], j, j + 1)
                          ELSE f[j - 1]]
           h == CHOOSE f : Is(f)
           X == Rows(n)
           H == [z \in (1..i) \X X |-> BubbleStep(z[2], z[1])]
<1>1. BubblePass(a, i) = h[i]
  BY DEF BubblePass
<1>2. H \in [(1..i) \X X -> X] /\ \A j \in 1..i, b \in X : H[<<j, b>>] = BubbleStep(b, j)
  <2>1. \A j \in 1..i, b \in X : BubbleStep(b, j) \in X
    BY BubbleStepKeeps
  <2> HIDE DEF X
  <2>. QED BY <2>1
<1> HIDE DEF H
<1>3. PICK g : g \in [0..i -> X] /\ g[0] = a /\ \A j \in 1..i : g[j] = H[<<j, g[j - 1]>>]
  <2> HIDE DEF X
  <2>1. a \in X
    BY DEF X
  <2>2. \E g : IsTable(i, X, a, H, g)
    BY <1>2, <2>1, Tabled
  <2>. QED BY <2>2 DEF IsTable
<1>4. \A j \in 1..i : g[j] = BubbleStep(g[j - 1], j)
  <2>1. \A j \in 1..i : j - 1 \in 0..i
    OBVIOUS
  <2> HIDE DEF X
  <2>. QED BY <1>2, <1>3, <2>1
<1>5. Is(g)
  <2>1. \A j \in 0..i : g[j] = IF j = 0 THEN a
                          ELSE IF Above(g[j - 1][j], g[j - 1][j + 1]) THEN Swapped(g[j - 1], j, j + 1)
                          ELSE g[j - 1]
    <3>1. \A j \in 0..i : j = 0 \/ j \in 1..i
      OBVIOUS
    <3>. QED BY <1>3, <1>4, <3>1 DEF BubbleStep
  <2>2. g = [j \in 0..i |-> g[j]]
    BY <1>3
  <2>. QED BY <2>1, <2>2
<1>6. Is(h)
  <2> HIDE DEF Is
  <2>. QED BY <1>5
<1> HIDE DEF h
<1>7. h[0] = a /\ \A j \in 1..i : h[j] = BubbleStep(h[j - 1], j)
  <2>1. \A j \in 0..i : h[j] = IF j = 0 THEN a
                          ELSE IF Above(h[j - 1][j], h[j - 1][j + 1]) THEN Swapped(h[j - 1], j, j + 1)
                          ELSE h[j - 1]
    BY <1>6
  <2>2. 0 \in 0..i /\ \A j \in 1..i : j \in 0..i /\ j # 0
    OBVIOUS
  <2>. QED BY <2>1, <2>2 DEF BubbleStep
<1>. QED BY <1>1, <1>7

\* A pass moves the largest of the first i + 1 values behind the others.
LEMMA BubblePassIs ==
    ASSUME NEW n \in Nat, NEW a \in Rows(n), NEW i \in Nat, i < n
    PROVE  Bubbled(a, BubblePass(a, i), n, i, i)
<1>1. PICK f : /\ f[0] = a /\ BubblePass(a, i) = f[i]
               /\ \A j \in 1..i : f[j] = BubbleStep(f[j - 1], j)
  BY BubbleTable
<1> DEFINE T == {j \in 0..i : Bubbled(a, f[j], n, i, j)}
<1>2. 0 \in T
  <2>1. Shuffled(a, a, n, 1, n)
    BY ShuffledSelf
  <2>2. Bubbled(a, a, n, i, 0)
    BY <2>1 DEF Bubbled
  <2>. QED BY <1>1, <2>2
<1>3. ASSUME NEW j \in 0..i, j \in T, j < i PROVE j + 1 \in T
  <2>1. PICK k : k = j + 1
    OBVIOUS
  <2>2. k \in 1..i /\ k - 1 = j /\ k \in 0..i
    BY <1>3, <2>1
  <2>3. Bubbled(a, f[k - 1], n, i, k - 1) /\ f[k] = BubbleStep(f[k - 1], k)
    BY <1>1, <1>3, <2>2
  <2>4. Bubbled(a, f[k], n, i, k)
    BY <2>2, <2>3, BubbleStepIs
  <2>. QED BY <2>1, <2>2, <2>4
<1>4. i \in T
  <2> HIDE DEF T
  <2>1. \A j \in 0..i : j \in T
    BY <1>2, <1>3, UpTo
  <2>. QED BY <2>1
<1>. QED BY <1>1, <1>4

\* What a sort of a makes of it after some rounds
Rearranged(a, b, n) == Shuffled(a, b, n, 1, n) /\ (Stably(a, n) => Stably(b, n))

\* After a pass, one more cell at the end is done.
LEMMA BubblePassTops ==
    ASSUME NEW n \in Nat, NEW a \in Rows(n), NEW i \in Nat, i < n
    PROVE  /\ Rearranged(a, BubblePass(a, i), n)
           /\ Topped(a, n, i + 1) => Topped(BubblePass(a, i), n, i)
<1>1. PICK b : b = BubblePass(a, i)
  OBVIOUS
<1>2. Bubbled(a, b, n, i, i)
  BY <1>1, BubblePassIs
<1>3. Rearranged(a, b, n)
  BY <1>2 DEF Bubbled, Rearranged
<1>4. Topped(a, n, i + 1) => Topped(b, n, i)
  <2> SUFFICES ASSUME Topped(a, n, i + 1), NEW p \in 1..n, NEW q \in 1..n, p < q, q > i
               PROVE  b[p].key <= b[q].key
    BY DEF Topped
  <2>1. CASE q > i + 1
    BY <1>2, <2>1 DEF Bubbled, Topped
  <2>2. CASE q = i + 1
    <3>1. p \in 1..i
      BY <2>2
    <3>. QED BY <1>2, <2>2, <3>1 DEF Bubbled
  <2>. QED BY <2>1, <2>2
<1>. QED BY <1>1, <1>3, <1>4

\* Nothing moved is a rearrangement.
LEMMA RearrangedSelf ==
    ASSUME NEW n, NEW a \in Rows(n)
    PROVE  Rearranged(a, a, n)
BY ShuffledSelf DEF Rearranged

\* Rearrangements follow each other.
LEMMA RearrangedTwice ==
    ASSUME NEW n, NEW a, NEW b, NEW c, Rearranged(a, b, n), Rearranged(b, c, n)
    PROVE  Rearranged(a, c, n)
BY ShuffledTwice DEF Rearranged

\* bubble_sort is the table of its passes (sort.c:12-18).
LEMMA BubbleSortTable ==
    ASSUME NEW n \in Nat, NEW a \in Rows(n)
    PROVE  \E f : /\ f[0] = a /\ BubbleSort(a) = f[Rounds(a)]
                  /\ \A m \in 1..Rounds(a) : f[m] = BubblePass(f[m - 1], n - m)
<1> DEFINE k == Rounds(a)
           Is(f) == f = [m \in 0..k |-> IF m = 0 THEN a ELSE BubblePass(f[m - 1], Len(a) - m)]
           h == CHOOSE f : Is(f)
           X == Rows(n)
           H == [z \in (1..k) \X X |-> BubblePass(z[2], n - z[1])]
<1>1. BubbleSort(a) = h[k]
  BY DEF BubbleSort
<1>2. k \in Nat /\ (\A m \in 1..k : n - m \in Nat /\ n - m < n) /\ Len(a) = n
  BY RowIs
<1> HIDE DEF k
<1>3. H \in [(1..k) \X X -> X] /\ \A m \in 1..k, b \in X : H[<<m, b>>] = BubblePass(b, n - m)
  <2>1. \A m \in 1..k, b \in X : BubblePass(b, n - m) \in X
    BY <1>2, BubblePassTops DEF Rearranged, Shuffled
  <2> HIDE DEF X
  <2>. QED BY <2>1
<1> HIDE DEF H
<1>4. PICK g : g \in [0..k -> X] /\ g[0] = a /\ \A m \in 1..k : g[m] = H[<<m, g[m - 1]>>]
  <2> HIDE DEF X
  <2>1. a \in X
    BY DEF X
  <2>2. \E g : IsTable(k, X, a, H, g)
    BY <1>2, <1>3, <2>1, Tabled
  <2>. QED BY <2>2 DEF IsTable
<1>5. \A m \in 1..k : g[m] = BubblePass(g[m - 1], n - m)
  <2>1. \A m \in 1..k : m - 1 \in 0..k
    BY <1>2
  <2> HIDE DEF X
  <2>. QED BY <1>3, <1>4, <2>1
<1>6. Is(g)
  <2>1. \A m \in 0..k : g[m] = IF m = 0 THEN a ELSE BubblePass(g[m - 1], Len(a) - m)
    <3>1. \A m \in 0..k : m = 0 \/ m \in 1..k
      BY <1>2
    <3>. QED BY <1>2, <1>4, <1>5, <3>1
  <2>2. g = [m \in 0..k |-> g[m]]
    BY <1>4
  <2>. QED BY <2>1, <2>2
<1>7. Is(h)
  <2> HIDE DEF Is
  <2>. QED BY <1>6
<1> HIDE DEF h
<1>8. h[0] = a /\ \A m \in 1..k : h[m] = BubblePass(h[m - 1], n - m)
  <2>1. \A m \in 0..k : h[m] = IF m = 0 THEN a ELSE BubblePass(h[m - 1], Len(a) - m)
    BY <1>7
  <2>2. 0 \in 0..k /\ \A m \in 1..k : m \in 0..k /\ m # 0
    BY <1>2
  <2>. QED BY <1>2, <2>1, <2>2
<1>. QED BY <1>1, <1>8 DEF k

\* bubble_sort sorts and keeps the order of equals.
LEMMA BubbleSorts ==
    ASSUME NEW n \in Nat, NEW a \in Rows(n)
    PROVE  Rearranged(a, BubbleSort(a), n) /\ Ordered(BubbleSort(a), 1, n)
<1>1. PICK f : /\ f[0] = a /\ BubbleSort(a) = f[Rounds(a)]
               /\ \A m \in 1..Rounds(a) : f[m] = BubblePass(f[m - 1], n - m)
  BY BubbleSortTable
<1>2. Rounds(a) \in Nat /\ Rounds(a) = IF n = 0 THEN 0 ELSE n - 1
  BY RowIs
<1>3. PICK k : k = Rounds(a)
  OBVIOUS
<1> DEFINE T == {m \in 0..k : Rearranged(a, f[m], n) /\ Topped(f[m], n, n - m)}
<1>4. 0 \in T
  <2>1. Topped(a, n, n - 0)
    BY DEF Topped
  <2>. QED BY <1>1, <1>2, <1>3, <2>1, RearrangedSelf
<1>5. ASSUME NEW j \in 0..k, j \in T, j < k PROVE j + 1 \in T
  <2>1. PICK m : m = j + 1
    OBVIOUS
  <2>2. PICK i : i = n - m
    OBVIOUS
  <2>3. m \in 1..k /\ m - 1 = j /\ m \in 0..k /\ i \in Nat /\ i < n /\ n - j = i + 1
    BY <1>2, <1>3, <1>5, <2>1, <2>2
  <2>4. f[m] = BubblePass(f[j], i) /\ Rearranged(a, f[j], n) /\ Topped(f[j], n, i + 1)
    BY <1>1, <1>3, <1>5, <2>2, <2>3
  <2>5. f[j] \in Rows(n)
    BY <2>4 DEF Rearranged, Shuffled
  <2>6. Rearranged(f[j], f[m], n) /\ Topped(f[m], n, i)
    BY <2>3, <2>4, <2>5, BubblePassTops
  <2>7. Rearranged(a, f[m], n)
    BY <2>4, <2>6, RearrangedTwice
  <2>. QED BY <2>1, <2>2, <2>3, <2>6, <2>7
<1>6. k \in T
  <2> HIDE DEF T
  <2>1. \A j \in 0..k : j \in T
    BY <1>2, <1>3, <1>4, <1>5, UpTo
  <2>. QED BY <1>2, <1>3, <2>1
<1>7. Rearranged(a, f[k], n) /\ Topped(f[k], n, n - k)
  BY <1>6
<1>8. Ordered(f[k], 1, n)
  <2>1. n - k <= 1 /\ \A p, q \in 1..n : p < q => q > n - k
    BY <1>2, <1>3
  <2>. QED BY <1>7, <2>1 DEF Topped, Ordered
<1>. QED BY <1>1, <1>3, <1>7, <1>8

-----------------------------------------------------------------------------
(* select_sort *)

\* The search for the least is the table of its best places so far.
LEMMA LeastTable ==
    ASSUME NEW n \in Nat, NEW a \in Rows(n), NEW i \in 1..n
    PROVE  \E f : /\ f[0] = i /\ LeastFrom(a, i) = f[n - i]
                  /\ \A j \in 1..(n - i) : f[j] = IF Above(a[f[j - 1]], a[i + j]) THEN i + j ELSE f[j - 1]
<1> DEFINE k == n - i
           Is(f) == f = [j \in 0..(Len(a) - i) |->
                          IF j = 0 THEN i
                          ELSE IF Above(a[f[j - 1]], a[i + j]) THEN i + j ELSE f[j - 1]]
           h == CHOOSE f : Is(f)
           H == [z \in (1..k) \X (1..n) |-> IF Above(a[z[2]], a[i + z[1]]) THEN i + z[1] ELSE z[2]]
<1>1. LeastFrom(a, i) = h[Len(a) - i]
  BY DEF LeastFrom
<1>2. k \in Nat /\ (\A j \in 1..k : i + j \in 1..n) /\ Len(a) = n /\ Len(a) - i = k
  BY RowIs
<1> HIDE DEF k
<1>3. /\ H \in [(1..k) \X (1..n) -> 1..n]
      /\ \A j \in 1..k, b \in 1..n : H[<<j, b>>] = IF Above(a[b], a[i + j]) THEN i + j ELSE b
  BY <1>2
<1> HIDE DEF H
<1>4. PICK g : g \in [0..k -> 1..n] /\ g[0] = i /\ \A j \in 1..k : g[j] = H[<<j, g[j - 1]>>]
  <2>1. PICK X : X = 1..n
    OBVIOUS
  <2>2. i \in X /\ H \in [(1..k) \X X -> X]
    BY <1>3, <2>1
  <2>3. \E g : IsTable(k, X, i, H, g)
    BY <1>2, <2>2, Tabled
  <2>. QED BY <2>1, <2>3 DEF IsTable
<1>5. \A j \in 1..k : g[j] = IF Above(a[g[j - 1]], a[i + j]) THEN i + j ELSE g[j - 1]
  <2>1. \A j \in 1..k : j - 1 \in 0..k
    BY <1>2
  <2>. QED BY <1>3, <1>4, <2>1
<1>6. Is(g)
  <2>1. \A j \in 0..k : g[j] = IF j = 0 THEN i
                          ELSE IF Above(a[g[j - 1]], a[i + j]) THEN i + j ELSE g[j - 1]
    <3>1. \A j \in 0..k : j = 0 \/ j \in 1..k
      BY <1>2
    <3>. QED BY <1>4, <1>5, <3>1
  <2>2. g = [j \in 0..k |-> g[j]]
    BY <1>4
  <2>. QED BY <1>2, <2>1, <2>2
<1>7. Is(h)
  <2> HIDE DEF Is
  <2>. QED BY <1>6
<1> HIDE DEF h
<1>8. h[0] = i /\ \A j \in 1..k : h[j] = IF Above(a[h[j - 1]], a[i + j]) THEN i + j ELSE h[j - 1]
  <2>1. \A j \in 0..k : h[j] = IF j = 0 THEN i
                          ELSE IF Above(a[h[j - 1]], a[i + j]) THEN i + j ELSE h[j - 1]
    BY <1>2, <1>7
  <2>2. 0 \in 0..k /\ \A j \in 1..k : j \in 0..k /\ j # 0
    BY <1>2
  <2>. QED BY <2>1, <2>2
<1>. QED BY <1>1, <1>2, <1>8 DEF k

\* k is the place of a least value from i on (sort.c:23-28).
LEMMA LeastFromIs ==
    ASSUME NEW n \in Nat, NEW a \in Rows(n), NEW i \in 1..n
    PROVE  /\ LeastFrom(a, i) \in i..n
           /\ \A q \in i..n : a[LeastFrom(a, i)].key <= a[q].key
<1>1. PICK f : /\ f[0] = i /\ LeastFrom(a, i) = f[n - i]
               /\ \A j \in 1..(n - i) : f[j] = IF Above(a[f[j - 1]], a[i + j]) THEN i + j ELSE f[j - 1]
  BY LeastTable
<1>2. PICK k : k = n - i
  OBVIOUS
<1>3. k \in Nat /\ \A p \in 1..n : a[p].key \in Int
  BY <1>2, RowIs
<1> DEFINE T == {j \in 0..k : f[j] \in i..(i + j) /\ \A q \in i..(i + j) : a[f[j]].key <= a[q].key}
<1>4. 0 \in T
  BY <1>1, <1>3
<1>5. ASSUME NEW j \in 0..k, j \in T, j < k PROVE j + 1 \in T
  <2>1. PICK m : m = j + 1
    OBVIOUS
  <2>2. PICK s : s = f[j]
    OBVIOUS
  <2>3. m \in 1..k /\ m - 1 = j /\ m \in 0..k /\ i + m \in 1..n /\ i + m = (i + j) + 1
    BY <1>2, <1>3, <1>5, <2>1
  <2>4. f[m] = IF a[s].key > a[i + m].key THEN i + m ELSE s
    BY <1>1, <1>2, <2>2, <2>3 DEF Above
  <2>5. s \in i..(i + j) /\ (\A q \in i..(i + j) : a[s].key <= a[q].key) /\ s \in 1..n
    BY <1>2, <1>5, <2>2, <2>3
  <2>6. f[m] \in i..(i + m)
    <3>1. s \in i..(i + m) /\ i + m \in i..(i + m)
      BY <2>3, <2>5
    <3>. QED BY <2>4, <3>1
  <2>7. ASSUME NEW q \in i..(i + m) PROVE a[f[m]].key <= a[q].key
    <3>1. q \in 1..n /\ (q = i + m \/ q \in i..(i + j))
      BY <2>3
    <3>2. a[q].key \in Int /\ a[s].key \in Int /\ a[i + m].key \in Int
      BY <1>3, <2>3, <2>5, <3>1
    <3>3. CASE q = i + m
      BY <2>4, <3>2, <3>3
    <3>4. CASE q \in i..(i + j)
      <4>1. a[s].key <= a[q].key
        BY <2>5, <3>4
      <4>. QED BY <2>4, <3>2, <4>1
    <3>. QED BY <3>1, <3>3, <3>4
  <2>. QED BY <2>1, <2>3, <2>6, <2>7
<1>6. k \in T
  <2> HIDE DEF T
  <2>1. \A j \in 0..k : j \in T
    BY <1>3, <1>4, <1>5, UpTo
  <2>. QED BY <1>3, <2>1
<1>7. f[k] \in i..n /\ \A q \in i..n : a[f[k]].key <= a[q].key
  BY <1>2, <1>6
<1>. QED BY <1>1, <1>2, <1>7

\* The first i cells are in their places.
Bottomed(a, n, i) == \A p, q \in 1..n : p < q /\ p <= i => a[p].key <= a[q].key

SelectStep(a, i) == Swapped(a, LeastFrom(a, i), i)

\* A round of select_sort puts a least value at i (sort.c:22-32).
LEMMA SelectStepIs ==
    ASSUME NEW n \in Nat, NEW a \in Rows(n), NEW i \in 1..n
    PROVE  /\ Shuffled(a, SelectStep(a, i), n, 1, n)
           /\ Bottomed(a, n, i - 1) => Bottomed(SelectStep(a, i), n, i)
<1>1. PICK m : m = LeastFrom(a, i)
  OBVIOUS
<1>2. m \in i..n /\ m \in 1..n /\ \A q \in i..n : a[m].key <= a[q].key
  BY <1>1, LeastFromIs
<1>3. PICK b : b = SelectStep(a, i)
  OBVIOUS
<1>4. IsSwap(a, b, n, m, i)
  BY <1>1, <1>2, <1>3, SwappedIs DEF SelectStep
<1>5. /\ b[m] = a[i] /\ b[i] = a[m]
      /\ \A p \in 1..n : p # i /\ p # m => b[p] = a[p]
  BY <1>4 DEF IsSwap
<1>6. Shuffled(a, b, n, 1, n)
  BY <1>2, <1>4, SwapShuffles
<1>7. ASSUME Bottomed(a, n, i - 1) PROVE Bottomed(b, n, i)
  <2> SUFFICES ASSUME NEW p \in 1..n, NEW q \in 1..n, p < q, p <= i
               PROVE  b[p].key <= b[q].key
    BY DEF Bottomed
  <2>1. CASE p = i
    <3>1. PICK s \in i..n : b[q] = a[s]
      <4>1. q # i /\ q \in i..n /\ i \in i..n
        BY <2>1
      <4>. QED BY <1>5, <4>1
    <3>. QED BY <1>2, <1>5, <2>1, <3>1
  <2>2. CASE p < i
    <3>1. b[p] = a[p] /\ p <= i - 1
      BY <1>2, <1>5, <2>2
    <3>2. PICK s \in 1..n : b[q] = a[s] /\ p < s
      BY <1>2, <1>5, <2>2
    <3>. QED BY <1>7, <3>1, <3>2 DEF Bottomed
  <2>. QED BY <2>1, <2>2
<1>. QED BY <1>3, <1>6, <1>7

\* select_sort is the table of its rounds.
LEMMA SelectSortTable ==
    ASSUME NEW n \in Nat, NEW a \in Rows(n)
    PROVE  \E f : /\ f[0] = a /\ SelectSort(a) = f[Rounds(a)]
                  /\ \A i \in 1..Rounds(a) : f[i] = SelectStep(f[i - 1], i)
<1> DEFINE k == Rounds(a)
           Is(f) == f = [i \in 0..k |-> IF i = 0 THEN a ELSE Swapped(f[i - 1], LeastFrom(f[i - 1], i), i)]
           h == CHOOSE f : Is(f)
           X == Rows(n)
           H == [z \in (1..k) \X X |-> SelectStep(z[2], z[1])]
<1>1. SelectSort(a) = h[k]
  BY DEF SelectSort
<1>2. k \in Nat /\ \A i \in 1..k : i \in 1..n
  BY RowIs
<1> HIDE DEF k
<1>3. H \in [(1..k) \X X -> X] /\ \A i \in 1..k, b \in X : H[<<i, b>>] = SelectStep(b, i)
  <2>1. \A i \in 1..k, b \in X : SelectStep(b, i) \in X
    BY <1>2, SelectStepIs DEF Shuffled
  <2> HIDE DEF X
  <2>. QED BY <2>1
<1> HIDE DEF H
<1>4. PICK g : g \in [0..k -> X] /\ g[0] = a /\ \A i \in 1..k : g[i] = H[<<i, g[i - 1]>>]
  <2> HIDE DEF X
  <2>1. a \in X
    BY DEF X
  <2>2. \E g : IsTable(k, X, a, H, g)
    BY <1>2, <1>3, <2>1, Tabled
  <2>. QED BY <2>2 DEF IsTable
<1>5. \A i \in 1..k : g[i] = SelectStep(g[i - 1], i)
  <2>1. \A i \in 1..k : i - 1 \in 0..k
    BY <1>2
  <2> HIDE DEF X
  <2>. QED BY <1>3, <1>4, <2>1
<1>6. Is(g)
  <2>1. \A i \in 0..k : g[i] = IF i = 0 THEN a ELSE Swapped(g[i - 1], LeastFrom(g[i - 1], i), i)
    <3>1. \A i \in 0..k : i = 0 \/ i \in 1..k
      BY <1>2
    <3>. QED BY <1>4, <1>5, <3>1 DEF SelectStep
  <2>2. g = [i \in 0..k |-> g[i]]
    BY <1>4
  <2>. QED BY <2>1, <2>2
<1>7. Is(h)
  <2> HIDE DEF Is
  <2>. QED BY <1>6
<1> HIDE DEF h
<1>8. h[0] = a /\ \A i \in 1..k : h[i] = SelectStep(h[i - 1], i)
  <2>1. \A i \in 0..k : h[i] = IF i = 0 THEN a ELSE Swapped(h[i - 1], LeastFrom(h[i - 1], i), i)
    BY <1>7
  <2>2. 0 \in 0..k /\ \A i \in 1..k : i \in 0..k /\ i # 0
    BY <1>2
  <2>. QED BY <2>1, <2>2 DEF SelectStep
<1>. QED BY <1>1, <1>8 DEF k

\* select_sort sorts.
LEMMA SelectSorts ==
    ASSUME NEW n \in Nat, NEW a \in Rows(n)
    PROVE  Shuffled(a, SelectSort(a), n, 1, n) /\ Ordered(SelectSort(a), 1, n)
<1>1. PICK f : /\ f[0] = a /\ SelectSort(a) = f[Rounds(a)]
               /\ \A i \in 1..Rounds(a) : f[i] = SelectStep(f[i - 1], i)
  BY SelectSortTable
<1>2. PICK k : k = Rounds(a)
  OBVIOUS
<1>3. k \in Nat /\ (k = IF n = 0 THEN 0 ELSE n - 1) /\ \A i \in 1..k : i \in 1..n
  BY <1>2, RowIs
<1> DEFINE T == {i \in 0..k : Shuffled(a, f[i], n, 1, n) /\ Bottomed(f[i], n, i)}
<1>4. 0 \in T
  <2>1. Bottomed(a, n, 0)
    BY DEF Bottomed
  <2>. QED BY <1>1, <1>3, <2>1, ShuffledSelf
<1>5. ASSUME NEW j \in 0..k, j \in T, j < k PROVE j + 1 \in T
  <2>1. PICK i : i = j + 1
    OBVIOUS
  <2>2. i \in 1..k /\ i - 1 = j /\ i \in 0..k /\ i \in 1..n
    BY <1>3, <1>5, <2>1
  <2>3. f[i] = SelectStep(f[j], i) /\ Shuffled(a, f[j], n, 1, n) /\ Bottomed(f[j], n, i - 1)
    BY <1>1, <1>2, <1>5, <2>2
  <2>4. f[j] \in Rows(n)
    BY <2>3 DEF Shuffled
  <2>5. Shuffled(f[j], f[i], n, 1, n) /\ Bottomed(f[i], n, i)
    BY <2>2, <2>3, <2>4, SelectStepIs
  <2>6. Shuffled(a, f[i], n, 1, n)
    BY <2>3, <2>5, ShuffledTwice
  <2>. QED BY <2>1, <2>2, <2>5, <2>6
<1>6. k \in T
  <2> HIDE DEF T
  <2>1. \A j \in 0..k : j \in T
    BY <1>3, <1>4, <1>5, UpTo
  <2>. QED BY <1>3, <2>1
<1>7. Shuffled(a, f[k], n, 1, n) /\ Bottomed(f[k], n, k)
  BY <1>6
<1>8. Ordered(f[k], 1, n)
  <2>1. \A p, q \in 1..n : p < q => p <= k
    BY <1>3
  <2>. QED BY <1>7, <2>1 DEF Bottomed, Ordered
<1>. QED BY <1>1, <1>2, <1>7, <1>8

-----------------------------------------------------------------------------
(* insert_sort *)

\* The hole that arr[i] goes into
IsHole(a, i, h) ==
    /\ h \in 1..i
    /\ \A p \in h..(i - 1) : Above(a[p], a[i])
    /\ h = 1 \/ ~ Above(a[h - 1], a[i])

\* The loop that moves the hole down ends somewhere (sort.c:39).
LEMMA HoleIs ==
    ASSUME NEW a, NEW i \in Nat, i # 0
    PROVE  \E h \in 1..i : IsHole(a, i, h)
<1> DEFINE U == {h \in 1..i : \A p \in h..(i - 1) : Above(a[p], a[i])}
           T == {m \in Nat : \E h \in U : h <= i - m}
<1>1. 0 \in T
  <2>1. i \in U
    OBVIOUS
  <2>. QED BY <2>1
<1>2. SUFFICES ASSUME \A h \in 1..i : ~ IsHole(a, i, h)
               PROVE  FALSE
  OBVIOUS
<1>3. ASSUME NEW m \in T PROVE m + 1 \in T
  <2>1. PICK h \in U : h <= i - m
    OBVIOUS
  <2>2. h # 1 /\ Above(a[h - 1], a[i])
    BY <1>2, <2>1 DEF IsHole
  <2>3. PICK g : g = h - 1
    OBVIOUS
  <2>4. g \in 1..i /\ h = g + 1 /\ g <= i - (m + 1)
    BY <2>1, <2>2, <2>3
  <2>5. ASSUME NEW p \in g..(i - 1) PROVE Above(a[p], a[i])
    <3>1. p = g \/ p \in h..(i - 1)
      BY <2>4
    <3>. QED BY <2>1, <2>2, <2>3, <3>1
  <2>6. g \in U
    BY <2>4, <2>5
  <2>. QED BY <2>4, <2>6
<1>4. T = Nat
  <2>1. T \in SUBSET Nat
    OBVIOUS
  <2> HIDE DEF T
  <2>. QED BY <1>1, <1>3, <2>1, NatSets
<1>5. i \in T
  BY <1>4
<1>6. PICK h \in U : h <= i - i
  BY <1>5
<1>. QED BY <1>6

\* Where the values of InsertOne come from
Inserted(a, b, n, i, j) ==
    /\ b \in Rows(n) /\ b[j] = a[i]
    /\ \A p \in 1..n : p < j => b[p] = a[p]
    /\ \A p \in 1..n : j < p /\ p <= i => b[p] = a[p - 1]
    /\ \A p \in 1..n : i < p => b[p] = a[p]

\* What an insertion does to each cell (sort.c:37-44)
LEMMA InsertOneIs ==
    ASSUME NEW n \in Nat, NEW a \in Rows(n), NEW i \in 1..n
    PROVE  \E j \in 1..i : IsHole(a, i, j) /\ Inserted(a, InsertOne(a, i), n, i, j)
<1> DEFINE j == CHOOSE h \in 1..i : /\ \A p \in h..(i - 1) : Above(a[p], a[i])
                                    /\ h = 1 \/ ~ Above(a[h - 1], a[i])
           b == [p \in 1..n |-> IF p = j THEN a[i] ELSE IF p \in (j + 1)..i THEN a[p - 1] ELSE a[p]]
<1>1. InsertOne(a, i) = b
  BY RowIs DEF InsertOne
<1>2. j \in 1..i /\ IsHole(a, i, j)
  <2>1. \E h \in 1..i : /\ \A p \in h..(i - 1) : Above(a[p], a[i])
                        /\ h = 1 \/ ~ Above(a[h - 1], a[i])
    <3>1. i \in Nat /\ i # 0
      OBVIOUS
    <3>2. PICK h \in 1..i : IsHole(a, i, h)
      BY <3>1, HoleIs
    <3>. QED BY <3>2 DEF IsHole
  <2>. QED BY <2>1 DEF IsHole
<1> HIDE DEF j
<1>3. a \in [1..n -> [key : Int, place : Int]]
  BY DEF Rows
<1>4. \A p \in 1..n : p \in (j + 1)..i => p - 1 \in 1..n
  BY <1>2
<1>5. b \in Rows(n)
  BY <1>2, <1>3, <1>4 DEF Rows
<1>6. /\ b[j] = a[i]
      /\ \A p \in 1..n : p < j => b[p] = a[p]
      /\ \A p \in 1..n : j < p /\ p <= i => b[p] = a[p - 1]
      /\ \A p \in 1..n : i < p => b[p] = a[p]
  BY <1>2
<1> HIDE DEF b
<1>7. Inserted(a, b, n, i, j)
  BY <1>5, <1>6 DEF Inserted
<1>. QED BY <1>1, <1>2, <1>7

\* An insertion makes the ordered part longer, and keeps the order of equals.
LEMMA InsertOneSorts ==
    ASSUME NEW n \in Nat, NEW a \in Rows(n), NEW i \in 1..n
    PROVE  /\ Rearranged(a, InsertOne(a, i), n)
           /\ Ordered(a, 1, i - 1) => Ordered(InsertOne(a, i), 1, i)
<1>1. PICK b : b = InsertOne(a, i)
  OBVIOUS
<1>2. PICK j \in 1..i : IsHole(a, i, j) /\ Inserted(a, b, n, i, j)
  BY <1>1, InsertOneIs
<1>3. /\ b \in Rows(n) /\ b[j] = a[i]
      /\ \A p \in 1..n : p < j => b[p] = a[p]
      /\ \A p \in 1..n : j < p /\ p <= i => b[p] = a[p - 1]
      /\ \A p \in 1..n : i < p => b[p] = a[p]
  BY <1>2 DEF Inserted
<1>4. /\ \A p \in j..(i - 1) : a[p].key > a[i].key
      /\ j = 1 \/ ~ (a[j - 1].key > a[i].key)
  BY <1>2 DEF IsHole, Above
<1>5. j \in 1..n /\ \A p \in 1..n : a[p].key \in Int /\ a[p].place \in Int
  BY RowIs
<1>6. ASSUME NEW p \in 1..n
      PROVE  \/ p < j /\ b[p] = a[p]
             \/ p = j /\ b[p] = a[i]
             \/ j < p /\ p <= i /\ p - 1 \in 1..n /\ b[p] = a[p - 1]
             \/ i < p /\ b[p] = a[p]
  BY <1>3, <1>5
<1>7. Shuffled(a, b, n, 1, n)
  <2>1. ASSUME NEW p \in 1..n PROVE \E q \in 1..n : b[p] = a[q]
    BY <1>6
  <2>2. ASSUME NEW p \in 1..n PROVE \E q \in 1..n : a[p] = b[q]
    <3>1. CASE p < j
      BY <1>3, <3>1
    <3>2. CASE p = i
      BY <1>3, <1>5, <3>2
    <3>3. CASE j <= p /\ p < i
      <4>1. PICK q : q = p + 1
        OBVIOUS
      <4>2. q \in 1..n /\ j < q /\ q <= i /\ q - 1 = p
        BY <3>3, <4>1
      <4>. QED BY <1>3, <4>2
    <3>4. CASE i < p
      BY <1>3, <3>4
    <3>. QED BY <1>5, <3>1, <3>2, <3>3, <3>4
  <2>. QED BY <1>3, <2>1, <2>2 DEF Shuffled
<1>8. ASSUME Stably(a, n) PROVE Stably(b, n)
  <2> SUFFICES ASSUME NEW p \in 1..n, NEW q \in 1..n, p < q, b[p].key = b[q].key
               PROVE  b[p].place < b[q].place
    BY DEF Stably
  <2>1. PICK s \in 1..n, t \in 1..n : b[p] = a[s] /\ b[q] = a[t] /\ s < t
    <3>1. CASE p = j
      <4>1. b[p] = a[i] /\ j < q
        BY <1>3, <3>1
      <4>2. ~ (q <= i)
        <5>1. SUFFICES ASSUME q <= i PROVE FALSE
          OBVIOUS
        <5>2. PICK m : m = q - 1
          OBVIOUS
        <5>3. m \in j..(i - 1) /\ b[q] = a[m] /\ m \in 1..n
          BY <1>3, <4>1, <5>1, <5>2
        <5>4. a[m].key > a[i].key /\ a[m].key = a[i].key
          BY <1>4, <4>1, <5>3
        <5>. QED BY <1>5, <5>3, <5>4
      <4>. QED BY <1>3, <4>1, <4>2
    <3>2. CASE p # j
      <4>1. CASE q = j
        BY <1>3, <4>1
      <4>2. CASE q # j
        <5>1. CASE p < j
          <6>1. b[p] = a[p]
            BY <1>3, <5>1
          <6>2. CASE j < q /\ q <= i
            <7>1. q - 1 \in 1..n /\ b[q] = a[q - 1] /\ p < q - 1
              BY <1>3, <5>1, <6>2
            <7>. QED BY <6>1, <7>1
          <6>3. CASE q < j \/ i < q
            BY <1>3, <6>1, <6>3
          <6>. QED BY <4>2, <6>2, <6>3
        <5>2. CASE j < p /\ p <= i
          <6>1. b[p] = a[p - 1] /\ p - 1 \in 1..n
            BY <1>3, <5>2
          <6>2. CASE q <= i
            <7>1. q - 1 \in 1..n /\ b[q] = a[q - 1] /\ p - 1 < q - 1
              BY <1>3, <5>2, <6>2
            <7>. QED BY <6>1, <7>1
          <6>3. CASE i < q
            <7>1. b[q] = a[q] /\ p - 1 < q
              BY <1>3, <6>3
            <7>. QED BY <6>1, <7>1
          <6>. QED BY <6>2, <6>3
        <5>3. CASE i < p
          BY <1>3, <5>3
        <5>. QED BY <3>2, <5>1, <5>2, <5>3
      <4>. QED BY <4>1, <4>2
    <3>. QED BY <3>1, <3>2
  <2>. QED BY <1>8, <2>1 DEF Stably
<1>9. ASSUME Ordered(a, 1, i - 1) PROVE Ordered(b, 1, i)
  <2>1. \A p, q \in 1..(i - 1) : p < q => a[p].key <= a[q].key
    BY <1>9 DEF Ordered
  <2> SUFFICES ASSUME NEW p \in 1..i, NEW q \in 1..i, p < q
               PROVE  b[p].key <= b[q].key
    BY DEF Ordered
  <2>2. p \in 1..n /\ q \in 1..n /\ p \in 1..(i - 1)
    OBVIOUS
  <2>3. \A s \in 1..(i - 1) : s < j => a[s].key <= a[i].key
    <3> SUFFICES ASSUME NEW s \in 1..(i - 1), s < j PROVE a[s].key <= a[i].key
      OBVIOUS
    <3>1. PICK m : m = j - 1
      OBVIOUS
    <3>2. m \in 1..(i - 1) /\ m \in 1..n /\ s <= m /\ s \in 1..n /\ j # 1
      BY <3>1
    <3>3. a[m].key <= a[i].key
      BY <1>4, <1>5, <3>1, <3>2
    <3>4. a[s].key <= a[m].key
      BY <1>5, <2>1, <3>2
    <3>. QED BY <1>5, <3>2, <3>3, <3>4
  <2>4. CASE q < j
    <3>1. b[p] = a[p] /\ b[q] = a[q] /\ q \in 1..(i - 1)
      BY <1>3, <2>2, <2>4
    <3>. QED BY <2>1, <2>2, <3>1
  <2>5. CASE q = j
    <3>1. b[p] = a[p] /\ b[q] = a[i]
      BY <1>3, <2>2, <2>5
    <3>. QED BY <2>2, <2>3, <2>5, <3>1
  <2>6. CASE j < q
    <3>1. PICK t : t = q - 1
      OBVIOUS
    <3>2. t \in 1..(i - 1) /\ b[q] = a[t] /\ t \in j..(i - 1) /\ t \in 1..n
      BY <1>3, <2>2, <2>6, <3>1
    <3>3. CASE p < j
      <4>1. b[p] = a[p] /\ p < t
        BY <1>3, <2>2, <3>2, <3>3
      <4>. QED BY <2>1, <2>2, <3>2, <4>1
    <3>4. CASE p = j
      <4>1. b[p] = a[i] /\ a[t].key > a[i].key
        BY <1>3, <1>4, <3>2, <3>4
      <4>. QED BY <1>5, <3>2, <4>1
    <3>5. CASE j < p
      <4>1. PICK s : s = p - 1
        OBVIOUS
      <4>2. s \in 1..(i - 1) /\ s < t /\ b[p] = a[s]
        BY <1>3, <2>2, <3>1, <3>5, <4>1
      <4>. QED BY <2>1, <3>2, <4>2
    <3>. QED BY <3>3, <3>4, <3>5
  <2>. QED BY <2>4, <2>5, <2>6
<1>. QED BY <1>1, <1>7, <1>8, <1>9 DEF Rearranged

\* insert_sort is the table of its insertions.
LEMMA InsertSortTable ==
    ASSUME NEW n \in Nat, NEW a \in Rows(n)
    PROVE  \E f : /\ f[0] = a /\ InsertSort(a) = f[Rounds(a)]
                  /\ \A i \in 1..Rounds(a) : f[i] = InsertOne(f[i - 1], i + 1)
<1> DEFINE k == Rounds(a)
           Is(f) == f = [i \in 0..k |-> IF i = 0 THEN a ELSE InsertOne(f[i - 1], i + 1)]
           h == CHOOSE f : Is(f)
           X == Rows(n)
           H == [z \in (1..k) \X X |-> InsertOne(z[2], z[1] + 1)]
<1>1. InsertSort(a) = h[k]
  BY DEF InsertSort
<1>2. k \in Nat /\ \A i \in 1..k : i + 1 \in 1..n
  BY RowIs
<1> HIDE DEF k
<1>3. H \in [(1..k) \X X -> X] /\ \A i \in 1..k, b \in X : H[<<i, b>>] = InsertOne(b, i + 1)
  <2>1. \A i \in 1..k, b \in X : InsertOne(b, i + 1) \in X
    BY <1>2, InsertOneSorts DEF Rearranged, Shuffled
  <2> HIDE DEF X
  <2>. QED BY <2>1
<1> HIDE DEF H
<1>4. PICK g : g \in [0..k -> X] /\ g[0] = a /\ \A i \in 1..k : g[i] = H[<<i, g[i - 1]>>]
  <2> HIDE DEF X
  <2>1. a \in X
    BY DEF X
  <2>2. \E g : IsTable(k, X, a, H, g)
    BY <1>2, <1>3, <2>1, Tabled
  <2>. QED BY <2>2 DEF IsTable
<1>5. \A i \in 1..k : g[i] = InsertOne(g[i - 1], i + 1)
  <2>1. \A i \in 1..k : i - 1 \in 0..k
    BY <1>2
  <2> HIDE DEF X
  <2>. QED BY <1>3, <1>4, <2>1
<1>6. Is(g)
  <2>1. \A i \in 0..k : g[i] = IF i = 0 THEN a ELSE InsertOne(g[i - 1], i + 1)
    <3>1. \A i \in 0..k : i = 0 \/ i \in 1..k
      BY <1>2
    <3>. QED BY <1>4, <1>5, <3>1
  <2>2. g = [i \in 0..k |-> g[i]]
    BY <1>4
  <2>. QED BY <2>1, <2>2
<1>7. Is(h)
  <2> HIDE DEF Is
  <2>. QED BY <1>6
<1> HIDE DEF h
<1>8. h[0] = a /\ \A i \in 1..k : h[i] = InsertOne(h[i - 1], i + 1)
  <2>1. \A i \in 0..k : h[i] = IF i = 0 THEN a ELSE InsertOne(h[i - 1], i + 1)
    BY <1>7
  <2>2. 0 \in 0..k /\ \A i \in 1..k : i \in 0..k /\ i # 0
    BY <1>2
  <2>. QED BY <2>1, <2>2
<1>. QED BY <1>1, <1>8 DEF k

\* insert_sort sorts and keeps the order of equals.
LEMMA InsertSorts ==
    ASSUME NEW n \in Nat, NEW a \in Rows(n)
    PROVE  Rearranged(a, InsertSort(a), n) /\ Ordered(InsertSort(a), 1, n)
<1>1. PICK f : /\ f[0] = a /\ InsertSort(a) = f[Rounds(a)]
               /\ \A i \in 1..Rounds(a) : f[i] = InsertOne(f[i - 1], i + 1)
  BY InsertSortTable
<1>2. PICK k : k = Rounds(a)
  OBVIOUS
<1>3. k \in Nat /\ (k = IF n = 0 THEN 0 ELSE n - 1) /\ \A i \in 1..k : i + 1 \in 1..n
  BY <1>2, RowIs
<1> DEFINE T == {i \in 0..k : Rearranged(a, f[i], n) /\ Ordered(f[i], 1, i + 1)}
<1>4. 0 \in T
  <2>1. Ordered(a, 1, 0 + 1)
    BY DEF Ordered
  <2>. QED BY <1>1, <1>3, <2>1, RearrangedSelf
<1>5. ASSUME NEW j \in 0..k, j \in T, j < k PROVE j + 1 \in T
  <2>1. PICK i : i = j + 1
    OBVIOUS
  <2>2. PICK m : m = i + 1
    OBVIOUS
  <2>3. i \in 1..k /\ i - 1 = j /\ i \in 0..k /\ m \in 1..n /\ m - 1 = j + 1
    BY <1>3, <1>5, <2>1, <2>2
  <2>4. f[i] = InsertOne(f[j], m) /\ Rearranged(a, f[j], n) /\ Ordered(f[j], 1, m - 1)
    BY <1>1, <1>2, <1>5, <2>2, <2>3
  <2>5. f[j] \in Rows(n)
    BY <2>4 DEF Rearranged, Shuffled
  <2>6. Rearranged(f[j], f[i], n) /\ Ordered(f[i], 1, m)
    BY <2>3, <2>4, <2>5, InsertOneSorts
  <2>7. Rearranged(a, f[i], n)
    BY <2>4, <2>6, RearrangedTwice
  <2>. QED BY <2>1, <2>2, <2>3, <2>6, <2>7
<1>6. k \in T
  <2> HIDE DEF T
  <2>1. \A j \in 0..k : j \in T
    BY <1>3, <1>4, <1>5, UpTo
  <2>. QED BY <1>3, <2>1
<1>7. Rearranged(a, f[k], n) /\ Ordered(f[k], 1, k + 1)
  BY <1>6
<1>8. Ordered(f[k], 1, n)
  <2>1. \A p \in 1..n : p \in 1..(k + 1)
    BY <1>3
  <2>. QED BY <1>7, <2>1 DEF Ordered
<1>. QED BY <1>1, <1>2, <1>7, <1>8

-----------------------------------------------------------------------------
(* quick_sort *)

\* A set of integers between two bounds has a greatest one.
LEMMA Highest ==
    ASSUME NEW i \in Int, NEW j \in Int, NEW U \in SUBSET (i..j), U # {}
    PROVE  \E p \in U : \A q \in U : q <= p
<1> DEFINE T == {m \in Nat : \E u \in U : u >= i + m}
<1>1. SUFFICES ASSUME \A p \in U : \E q \in U : ~ (q <= p)
               PROVE  FALSE
  OBVIOUS
<1>2. 0 \in T
  <2>1. PICK u \in U : u \in i..j
    OBVIOUS
  <2>. QED BY <2>1
<1>3. ASSUME NEW m \in T PROVE m + 1 \in T
  <2>1. PICK u \in U : u >= i + m
    OBVIOUS
  <2>2. PICK v \in U : ~ (v <= u)
    BY <1>1
  <2>3. v >= i + (m + 1)
    BY <2>1, <2>2
  <2>. QED BY <2>3
<1>4. T = Nat
  <2>1. T \in SUBSET Nat
    OBVIOUS
  <2> HIDE DEF T
  <2>. QED BY <1>2, <1>3, <2>1, NatSets
<1>5. j - i + 1 \in Nat
  <2>1. PICK u \in U : u \in i..j
    OBVIOUS
  <2>. QED BY <2>1
<1>6. PICK u \in U : u >= i + (j - i + 1)
  BY <1>4, <1>5
<1>. QED BY <1>6

\* A set of integers between two bounds has a least one.
LEMMA Lowest ==
    ASSUME NEW i \in Int, NEW j \in Int, NEW U \in SUBSET (i..j), U # {}
    PROVE  \E p \in U : \A q \in U : p <= q
<1> DEFINE T == {m \in Nat : \E u \in U : u <= j - m}
<1>1. SUFFICES ASSUME \A p \in U : \E q \in U : ~ (p <= q)
               PROVE  FALSE
  OBVIOUS
<1>2. 0 \in T
  <2>1. PICK u \in U : u \in i..j
    OBVIOUS
  <2>. QED BY <2>1
<1>3. ASSUME NEW m \in T PROVE m + 1 \in T
  <2>1. PICK u \in U : u <= j - m
    OBVIOUS
  <2>2. PICK v \in U : ~ (u <= v)
    BY <1>1
  <2>3. v <= j - (m + 1)
    BY <2>1, <2>2
  <2>. QED BY <2>3
<1>4. T = Nat
  <2>1. T \in SUBSET Nat
    OBVIOUS
  <2> HIDE DEF T
  <2>. QED BY <1>2, <1>3, <2>1, NatSets
<1>5. j - i + 1 \in Nat
  <2>1. PICK u \in U : u \in i..j
    OBVIOUS
  <2>. QED BY <2>1
<1>6. PICK u \in U : u <= j - (j - i + 1)
  BY <1>4, <1>5
<1>. QED BY <1>6

\* A swap within a part shuffles that part.
LEMMA SwapShufflesIn ==
    ASSUME NEW n \in Nat, NEW a, NEW b, NEW l \in 1..n, NEW r \in 1..n, NEW i \in l..r, NEW j \in l..r,
           IsSwap(a, b, n, i, j)
    PROVE  Shuffled(a, b, n, l, r)
<1>1. /\ b \in Rows(n) /\ b[i] = a[j] /\ b[j] = a[i]
      /\ \A p \in 1..n : p # i /\ p # j => b[p] = a[p]
  BY DEF IsSwap
<1>2. \A p \in l..r : p \in 1..n
  OBVIOUS
<1>3. \A p \in l..r : \E q \in l..r : b[p] = a[q]
  BY <1>1, <1>2
<1>4. \A p \in l..r : \E q \in l..r : a[p] = b[q]
  BY <1>1, <1>2
<1>5. \A p \in 1..n : p \notin l..r => p # i /\ p # j
  OBVIOUS
<1>. QED BY <1>1, <1>3, <1>4, <1>5 DEF Shuffled

\* b with the pivot in the hole
Plugged(b, h, k) == [b EXCEPT ![h] = k]

IsPlugged(b, c, n, h, k) == c \in Rows(n) /\ c[h] = k /\ \A p \in 1..n : p # h => c[p] = b[p]

\* The array with the pivot put into the hole, cell by cell
LEMMA PluggedIs ==
    ASSUME NEW n \in Nat, NEW b \in Rows(n), NEW h \in 1..n, NEW k \in [key : Int, place : Int]
    PROVE  IsPlugged(b, Plugged(b, h, k), n, h, k)
BY DEF IsPlugged, Plugged, Rows

\* The value at p moves into the hole at h, and leaves a hole at p.
LEMMA HoleMoves ==
    ASSUME NEW n \in Nat, NEW b \in Rows(n), NEW h \in 1..n, NEW p \in 1..n, h # p,
           NEW k \in [key : Int, place : Int]
    PROVE  /\ IsPlugged(b, Plugged(b, h, b[p]), n, h, b[p])
           /\ IsSwap(Plugged(b, h, k), Plugged(Plugged(b, h, b[p]), p, k), n, h, p)
<1>1. b[p] \in [key : Int, place : Int]
  BY DEF Rows
<1>2. IsPlugged(b, Plugged(b, h, b[p]), n, h, b[p])
  BY <1>1, PluggedIs
<1>3. PICK c : c = Plugged(b, h, b[p])
  OBVIOUS
<1>4. c \in Rows(n) /\ c[h] = b[p] /\ \A q \in 1..n : q # h => c[q] = b[q]
  BY <1>2, <1>3 DEF IsPlugged
<1>5. PICK d : d = Plugged(c, p, k)
  OBVIOUS
<1>6. d \in Rows(n) /\ d[p] = k /\ \A q \in 1..n : q # p => d[q] = c[q]
  <2>1. IsPlugged(c, d, n, p, k)
    BY <1>4, <1>5, PluggedIs
  <2>. QED BY <2>1 DEF IsPlugged
<1>7. PICK e : e = Plugged(b, h, k)
  OBVIOUS
<1>8. e \in Rows(n) /\ e[h] = k /\ \A q \in 1..n : q # h => e[q] = b[q]
  <2>1. IsPlugged(b, e, n, h, k)
    BY <1>7, PluggedIs
  <2>. QED BY <2>1 DEF IsPlugged
<1>9. IsSwap(e, d, n, h, p)
  BY <1>4, <1>6, <1>8 DEF IsSwap
<1>. QED BY <1>2, <1>3, <1>5, <1>7, <1>9

\* A partition of the cells l..r of a around k, with the hole at h
Holed(a, b, i, j, h, k, n, l, r) ==
    /\ b \in Rows(n) /\ i \in Int /\ j \in Int /\ l <= i /\ i <= j /\ j <= r
    /\ Shuffled(a, Plugged(b, h, k), n, l, r)
    /\ \A p \in l..(i - 1) : b[p].key <= k.key
    /\ \A p \in (j + 1)..r : k.key <= b[p].key

PartStates(n) == [arr : Rows(n), i : Int, j : Int]

\* The value from the right that fills the hole is below the pivot (sort.c:53-56).
LEMMA LeftFilled ==
    ASSUME NEW n \in Nat, NEW a, NEW l \in 1..n, NEW r \in 1..n, NEW k \in [key : Int, place : Int],
           NEW s \in PartStates(n), Holed(a, s.arr, s.i, s.j, s.i, k, n, l, r), s.i < s.j,
           NEW t, t = FilledLeft(s, FromRight(s, k))
    PROVE  /\ t \in PartStates(n) /\ Holed(a, t.arr, t.i, t.j, t.j, k, n, l, r)
           /\ t.i = t.j \/ t.j - t.i < s.j - s.i
<1>1. PICK b, i, j : b = s.arr /\ i = s.i /\ j = s.j
  OBVIOUS
<1>2. /\ b \in Rows(n) /\ i \in Int /\ j \in Int /\ l <= i /\ i < j /\ j <= r
      /\ \A p \in l..(i - 1) : b[p].key <= k.key
      /\ \A p \in (j + 1)..r : k.key <= b[p].key
  BY <1>1 DEF Holed
<1>3. PICK p : p = FromRight(s, k)
  OBVIOUS
<1>4. p \in i..j /\ (\A q \in (p + 1)..j : ~ (k.key > b[q].key)) /\ (p = i \/ k.key > b[p].key)
  <2> DEFINE U == {q \in i..j : q = i \/ k.key > b[q].key}
  <2>1. U \in SUBSET (i..j) /\ U # {}
    <3>1. i \in U
      BY <1>2
    <3>. QED BY <3>1
  <2>2. PICK u \in U : \A q \in U : q <= u
    <3> HIDE DEF U
    <3>. QED BY <1>2, <2>1, Highest
  <2>3. u \in i..j /\ (\A q \in (u + 1)..j : ~ (k.key > b[q].key)) /\ (u = i \/ k.key > b[u].key)
    <3>1. \A q \in (u + 1)..j : q \in i..j /\ ~ (q <= u)
      BY <1>2, <2>2
    <3>. QED BY <2>2, <3>1
  <2>4. FromRight(s, k) = CHOOSE q \in i..j : /\ \A w \in (q + 1)..j : ~ (k.key > b[w].key)
                                              /\ q = i \/ k.key > b[q].key
    BY <1>1 DEF FromRight, Above
  <2> HIDE DEF U
  <2>. QED BY <1>3, <2>3, <2>4
<1>5. l \in Int /\ r \in Int /\ i \in 1..n /\ p \in 1..n /\ i \in l..r /\ p \in l..r
  BY <1>2, <1>4
<1>6. \A q \in 1..n : b[q].key \in Int
  BY <1>2, RowIs
<1>7. \A q \in (p + 1)..r : k.key <= b[q].key
  <2> SUFFICES ASSUME NEW q \in (p + 1)..r PROVE k.key <= b[q].key
    OBVIOUS
  <2>1. q \in 1..n
    BY <1>5
  <2>2. CASE q <= j
    <3>1. q \in (p + 1)..j
      BY <1>2, <1>5, <2>2
    <3>2. ~ (k.key > b[q].key) /\ b[q].key \in Int /\ k.key \in Int
      BY <1>4, <1>6, <2>1, <3>1
    <3>. QED BY <3>2
  <2>3. CASE ~ (q <= j)
    BY <1>2, <1>5, <2>3
  <2>. QED BY <2>2, <2>3
<1>8. CASE p > i
  <2>1. PICK c : c = Plugged(b, i, b[p])
    OBVIOUS
  <2>2. t = [arr |-> c, i |-> i + 1, j |-> p]
    BY <1>1, <1>3, <1>8, <2>1 DEF FilledLeft, Plugged
  <2>3. /\ c \in Rows(n) /\ c[i] = b[p] /\ \A q \in 1..n : q # i => c[q] = b[q]
        /\ IsSwap(Plugged(b, i, k), Plugged(c, p, k), n, i, p)
    <3>1. IsPlugged(b, c, n, i, b[p]) /\ IsSwap(Plugged(b, i, k), Plugged(c, p, k), n, i, p)
      BY <1>2, <1>5, <1>8, <2>1, HoleMoves
    <3>. QED BY <3>1 DEF IsPlugged
  <2>4. Shuffled(a, Plugged(c, p, k), n, l, r)
    <3>1. Shuffled(Plugged(b, i, k), Plugged(c, p, k), n, l, r)
      BY <1>5, <2>3, SwapShufflesIn
    <3>2. Shuffled(a, Plugged(b, i, k), n, l, r)
      BY <1>1 DEF Holed
    <3>. QED BY <3>1, <3>2, ShuffledTwice
  <2>5. ASSUME NEW q \in l..((i + 1) - 1) PROVE c[q].key <= k.key
    <3>1. q \in 1..n /\ (q = i \/ q \in l..(i - 1))
      BY <1>2, <1>5
    <3>2. CASE q = i
      <4>1. b[p].key \in Int /\ k.key \in Int /\ k.key > b[p].key
        BY <1>4, <1>5, <1>6, <1>8
      <4>. QED BY <2>3, <3>2, <4>1
    <3>3. CASE q \in l..(i - 1)
      BY <1>2, <2>3, <3>1, <3>3
    <3>. QED BY <3>1, <3>2, <3>3
  <2>6. ASSUME NEW q \in (p + 1)..r PROVE k.key <= c[q].key
    BY <1>5, <1>7, <1>8, <2>3
  <2>7. t \in PartStates(n) /\ t.arr = c /\ t.i = i + 1 /\ t.j = p
    BY <1>2, <1>5, <2>2, <2>3 DEF PartStates
  <2>8. i + 1 \in Int /\ p \in Int /\ l <= i + 1 /\ i + 1 <= p /\ p <= r /\ p - (i + 1) < j - i
    BY <1>2, <1>4, <1>5, <1>8
  <2>9. Holed(a, c, i + 1, p, p, k, n, l, r)
    BY <2>3, <2>4, <2>5, <2>6, <2>8 DEF Holed
  <2>. QED BY <1>1, <2>7, <2>8, <2>9
<1>9. CASE ~ (p > i)
  <2>1. p = i
    BY <1>2, <1>4, <1>9
  <2>2. t = [s EXCEPT !.j = p]
    BY <1>1, <1>3, <1>9 DEF FilledLeft
  <2>3. t \in PartStates(n) /\ t.arr = b /\ t.i = i /\ t.j = i
    BY <1>1, <1>2, <2>1, <2>2 DEF PartStates
  <2>4. Holed(a, b, i, i, i, k, n, l, r)
    <3>1. Shuffled(a, Plugged(b, i, k), n, l, r)
      BY <1>1 DEF Holed
    <3>2. i <= i /\ i <= r
      BY <1>2
    <3>. QED BY <1>2, <1>7, <2>1, <3>1, <3>2 DEF Holed
  <2>. QED BY <2>3, <2>4
<1>. QED BY <1>8, <1>9

\* The value from the left that fills the hole is above the pivot (sort.c:57-60).
LEMMA RightFilled ==
    ASSUME NEW n \in Nat, NEW a, NEW l \in 1..n, NEW r \in 1..n, NEW k \in [key : Int, place : Int],
           NEW s \in PartStates(n), Holed(a, s.arr, s.i, s.j, s.j, k, n, l, r),
           NEW t, t = FilledRight(s, FromLeft(s, k))
    PROVE  /\ t \in PartStates(n) /\ Holed(a, t.arr, t.i, t.j, t.i, k, n, l, r)
           /\ t.i = t.j \/ t.j - t.i < s.j - s.i
<1>1. PICK b, i, j : b = s.arr /\ i = s.i /\ j = s.j
  OBVIOUS
<1>2. /\ b \in Rows(n) /\ i \in Int /\ j \in Int /\ l <= i /\ i <= j /\ j <= r
      /\ \A p \in l..(i - 1) : b[p].key <= k.key
      /\ \A p \in (j + 1)..r : k.key <= b[p].key
  BY <1>1 DEF Holed
<1>3. PICK p : p = FromLeft(s, k)
  OBVIOUS
<1>4. p \in i..j /\ (\A q \in i..(p - 1) : ~ (b[q].key > k.key)) /\ (p = j \/ b[p].key > k.key)
  <2> DEFINE U == {q \in i..j : q = j \/ b[q].key > k.key}
  <2>1. U \in SUBSET (i..j) /\ U # {}
    <3>1. j \in U
      BY <1>2
    <3>. QED BY <3>1
  <2>2. PICK u \in U : \A q \in U : u <= q
    <3> HIDE DEF U
    <3>. QED BY <1>2, <2>1, Lowest
  <2>3. u \in i..j /\ (\A q \in i..(u - 1) : ~ (b[q].key > k.key)) /\ (u = j \/ b[u].key > k.key)
    <3>1. \A q \in i..(u - 1) : q \in i..j /\ ~ (u <= q)
      BY <1>2, <2>2
    <3>. QED BY <2>2, <3>1
  <2>4. FromLeft(s, k) = CHOOSE q \in i..j : /\ \A w \in i..(q - 1) : ~ (b[w].key > k.key)
                                             /\ q = j \/ b[q].key > k.key
    BY <1>1 DEF FromLeft, Above
  <2> HIDE DEF U
  <2>. QED BY <1>3, <2>3, <2>4
<1>5. l \in Int /\ r \in Int /\ j \in 1..n /\ p \in 1..n /\ j \in l..r /\ p \in l..r
  BY <1>2, <1>4
<1>6. \A q \in 1..n : b[q].key \in Int
  BY <1>2, RowIs
<1>7. \A q \in l..(p - 1) : b[q].key <= k.key
  <2> SUFFICES ASSUME NEW q \in l..(p - 1) PROVE b[q].key <= k.key
    OBVIOUS
  <2>1. q \in 1..n
    BY <1>5
  <2>2. CASE i <= q
    <3>1. q \in i..(p - 1)
      BY <1>2, <1>5, <2>2
    <3>2. ~ (b[q].key > k.key) /\ b[q].key \in Int /\ k.key \in Int
      BY <1>4, <1>6, <2>1, <3>1
    <3>. QED BY <3>2
  <2>3. CASE ~ (i <= q)
    BY <1>2, <1>5, <2>3
  <2>. QED BY <2>2, <2>3
<1>8. CASE p < j
  <2>1. PICK c : c = Plugged(b, j, b[p])
    OBVIOUS
  <2>2. t = [arr |-> c, i |-> p, j |-> j - 1]
    BY <1>1, <1>3, <1>8, <2>1 DEF FilledRight, Plugged
  <2>3. /\ c \in Rows(n) /\ c[j] = b[p] /\ \A q \in 1..n : q # j => c[q] = b[q]
        /\ IsSwap(Plugged(b, j, k), Plugged(c, p, k), n, j, p)
    <3>1. IsPlugged(b, c, n, j, b[p]) /\ IsSwap(Plugged(b, j, k), Plugged(c, p, k), n, j, p)
      BY <1>2, <1>5, <1>8, <2>1, HoleMoves
    <3>. QED BY <3>1 DEF IsPlugged
  <2>4. Shuffled(a, Plugged(c, p, k), n, l, r)
    <3>1. Shuffled(Plugged(b, j, k), Plugged(c, p, k), n, l, r)
      BY <1>5, <2>3, SwapShufflesIn
    <3>2. Shuffled(a, Plugged(b, j, k), n, l, r)
      BY <1>1 DEF Holed
    <3>. QED BY <3>1, <3>2, ShuffledTwice
  <2>5. ASSUME NEW q \in ((j - 1) + 1)..r PROVE k.key <= c[q].key
    <3>1. q \in 1..n /\ (q = j \/ q \in (j + 1)..r)
      BY <1>2, <1>5
    <3>2. CASE q = j
      <4>1. b[p].key \in Int /\ k.key \in Int /\ b[p].key > k.key
        BY <1>4, <1>5, <1>6, <1>8
      <4>. QED BY <2>3, <3>2, <4>1
    <3>3. CASE q \in (j + 1)..r
      BY <1>2, <2>3, <3>1, <3>3
    <3>. QED BY <3>1, <3>2, <3>3
  <2>6. ASSUME NEW q \in l..(p - 1) PROVE c[q].key <= k.key
    BY <1>5, <1>7, <1>8, <2>3
  <2>7. t \in PartStates(n) /\ t.arr = c /\ t.i = p /\ t.j = j - 1
    BY <1>2, <1>5, <2>2, <2>3 DEF PartStates
  <2>8. j - 1 \in Int /\ p \in Int /\ l <= p /\ p <= j - 1 /\ j - 1 <= r /\ (j - 1) - p < j - i
    BY <1>2, <1>4, <1>5, <1>8
  <2>9. Holed(a, c, p, j - 1, p, k, n, l, r)
    BY <2>3, <2>4, <2>5, <2>6, <2>8 DEF Holed
  <2>. QED BY <1>1, <2>7, <2>8, <2>9
<1>9. CASE ~ (p < j)
  <2>1. p = j
    BY <1>2, <1>4, <1>9
  <2>2. t = [s EXCEPT !.i = p]
    BY <1>1, <1>3, <1>9 DEF FilledRight
  <2>3. t \in PartStates(n) /\ t.arr = b /\ t.i = j /\ t.j = j
    BY <1>1, <1>2, <2>1, <2>2 DEF PartStates
  <2>4. Holed(a, b, j, j, j, k, n, l, r)
    <3>1. Shuffled(a, Plugged(b, j, k), n, l, r)
      BY <1>1 DEF Holed
    <3>2. j <= j /\ l <= j
      BY <1>2
    <3>. QED BY <1>2, <1>7, <2>1, <3>1, <3>2 DEF Holed
  <2>. QED BY <2>3, <2>4
<1>. QED BY <1>8, <1>9

\* A round keeps the invariant of the partition, and i and j come closer.
LEMMA PartitionRoundIs ==
    ASSUME NEW n \in Nat, NEW a, NEW l \in 1..n, NEW r \in 1..n, NEW k \in [key : Int, place : Int],
           NEW s \in PartStates(n), Holed(a, s.arr, s.i, s.j, s.i, k, n, l, r),
           NEW u, u = PartitionRound(s, k)
    PROVE  /\ u \in PartStates(n) /\ Holed(a, u.arr, u.i, u.j, u.i, k, n, l, r)
           /\ u.i = u.j \/ u.j - u.i < s.j - s.i
<1>1. CASE s.i < s.j
  <2>1. PICK t : t = FilledLeft(s, FromRight(s, k))
    OBVIOUS
  <2>2. /\ t \in PartStates(n) /\ Holed(a, t.arr, t.i, t.j, t.j, k, n, l, r)
        /\ t.i = t.j \/ t.j - t.i < s.j - s.i
    BY <1>1, <2>1, LeftFilled
  <2>3. u = FilledRight(t, FromLeft(t, k))
    BY <1>1, <2>1 DEF PartitionRound
  <2>4. /\ u \in PartStates(n) /\ Holed(a, u.arr, u.i, u.j, u.i, k, n, l, r)
        /\ u.i = u.j \/ u.j - u.i < t.j - t.i
    BY <2>2, <2>3, RightFilled
  <2>5. u.i \in Int /\ u.j \in Int /\ t.i \in Int /\ t.j \in Int /\ s.i \in Int /\ s.j \in Int
    BY <2>2, <2>4 DEF PartStates
  <2>6. u.i <= u.j
    BY <2>4 DEF Holed
  <2>. QED BY <2>2, <2>4, <2>5, <2>6
<1>2. CASE ~ (s.i < s.j)
  <2>1. u = s
    BY <1>2 DEF PartitionRound
  <2>2. s.i = s.j
    BY <1>2 DEF Holed
  <2>. QED BY <2>1, <2>2
<1>. QED BY <1>1, <1>2

\* The parts of the cells l..r: up to mid, and above it
Parted(a, b, mid, n, l, r) ==
    /\ Shuffled(a, b, n, l, r) /\ mid \in l..r
    /\ \A p \in l..(mid - 1) : b[p].key <= b[mid].key
    /\ \A p \in (mid + 1)..r : b[mid].key <= b[p].key

\* A partition is the table of its rounds, each with the invariant.
LEMMA PartitionTable ==
    ASSUME NEW n \in Nat, NEW a \in Rows(n), NEW l \in 1..n, NEW r \in 1..n, l <= r
    PROVE  \E f : /\ f[0] = [arr |-> a, i |-> l, j |-> r]
                  /\ Partition(a, l, r) = [arr |-> [f[r - l].arr EXCEPT ![f[r - l].i] = a[l]], mid |-> f[r - l].i]
                  /\ \A m \in 1..(r - l) : f[m] = PartitionRound(f[m - 1], a[l])
                  /\ \A m \in 0..(r - l) :
                        /\ f[m] \in PartStates(n)
                        /\ Holed(a, f[m].arr, f[m].i, f[m].j, f[m].i, a[l], n, l, r)
<1> DEFINE d == r - l
           k == a[l]
           s0 == [arr |-> a, i |-> l, j |-> r]
           Is(f) == f = [m \in 0..(r - l) |-> IF m = 0 THEN [arr |-> a, i |-> l, j |-> r] ELSE PartitionRound(f[m - 1], a[l])]
           h == CHOOSE f : Is(f)
           X == {s \in PartStates(n) : Holed(a, s.arr, s.i, s.j, s.i, k, n, l, r)}
           H == [z \in (1..d) \X X |-> PartitionRound(z[2], k)]
<1>1. Partition(a, l, r) = [arr |-> [h[d].arr EXCEPT ![h[d].i] = k], mid |-> h[d].i]
  BY DEF Partition
<1>2. d \in Nat /\ k \in [key : Int, place : Int]
  BY DEF Rows
<1>3. s0 \in X
  <2>1. Plugged(a, l, k) = a
    BY DEF Plugged, Rows
  <2>2. Holed(a, a, l, r, l, k, n, l, r)
    BY <2>1, ShuffledSelf DEF Holed
  <2>3. s0 \in PartStates(n) /\ s0.arr = a /\ s0.i = l /\ s0.j = r
    BY DEF PartStates
  <2>. QED BY <2>2, <2>3
<1>4. \A s \in X : PartitionRound(s, k) \in X
  BY <1>2, PartitionRoundIs
<1>5. Is(h) => \A m \in 0..d : h[m] = IF m = 0 THEN s0 ELSE PartitionRound(h[m - 1], k)
  <2> HIDE DEF h
  <2>. QED OBVIOUS
<1>6. \A g \in [0..d -> X] : (\A m \in 0..d : g[m] = IF m = 0 THEN s0 ELSE PartitionRound(g[m - 1], k)) => Is(g)
  <2> SUFFICES ASSUME NEW g \in [0..d -> X], \A m \in 0..d : g[m] = IF m = 0 THEN s0 ELSE PartitionRound(g[m - 1], k)
               PROVE  Is(g)
    OBVIOUS
  <2>1. g = [m \in 0..d |-> g[m]]
    <3> HIDE DEF X
    <3>. QED OBVIOUS
  <2>. QED BY <2>1
<1>7. \A s \in X : s \in PartStates(n) /\ Holed(a, s.arr, s.i, s.j, s.i, k, n, l, r)
  OBVIOUS
<1>8. H \in [(1..d) \X X -> X] /\ \A m \in 1..d, s \in X : H[<<m, s>>] = PartitionRound(s, k)
  <2> HIDE DEF X, d
  <2>. QED BY <1>4
<1>9. Is(h) <=> Is(CHOOSE f : Is(f))
  OBVIOUS
<1> HIDE DEF H, X, s0, d, Is
<1>10. PICK g : g \in [0..d -> X] /\ g[0] = s0 /\ \A m \in 1..d : g[m] = H[<<m, g[m - 1]>>]
  <2>1. \E g : IsTable(d, X, s0, H, g)
    BY <1>2, <1>3, <1>8, Tabled
  <2>. QED BY <2>1 DEF IsTable
<1>11. \A m \in 1..d : g[m] = PartitionRound(g[m - 1], k)
  <2>1. \A m \in 1..d : m - 1 \in 0..d
    BY <1>2
  <2>. QED BY <1>8, <1>10, <2>1
<1>12. Is(g)
  <2>1. \A m \in 0..d : m = 0 \/ m \in 1..d
    BY <1>2
  <2>. QED BY <1>6, <1>10, <1>11, <2>1
<1>13. Is(h)
  BY <1>12
<1> HIDE DEF h
<1>14. \A m \in 0..d : h[m] = IF m = 0 THEN s0 ELSE PartitionRound(h[m - 1], k)
  BY <1>5, <1>13
<1>15. h[0] = s0 /\ \A m \in 1..d : m \in 0..d /\ m # 0 /\ h[m] = PartitionRound(h[m - 1], k)
  BY <1>2, <1>14
<1> DEFINE T == {m \in 0..d : h[m] \in X}
<1>16. 0 \in T
  BY <1>2, <1>3, <1>15
<1>17. ASSUME NEW j \in 0..d, j \in T, j < d PROVE j + 1 \in T
  <2>1. PICK m : m = j + 1
    OBVIOUS
  <2>2. m \in 1..d /\ m - 1 = j /\ m \in 0..d
    BY <1>2, <1>17, <2>1
  <2>3. h[m] = PartitionRound(h[j], k) /\ h[j] \in X
    BY <1>15, <1>17, <2>2
  <2>. QED BY <1>4, <2>1, <2>2, <2>3
<1>18. \A m \in 0..d : h[m] \in X
  <2> HIDE DEF T
  <2>1. \A m \in 0..d : m \in T
    BY <1>2, <1>16, <1>17, UpTo
  <2>. QED BY <2>1 DEF T
<1>. QED BY <1>1, <1>7, <1>15, <1>18 DEF d, s0

\* The pivot ends between what is not above it and what is not below it (sort.c:49-62).
LEMMA PartitionIs ==
    ASSUME NEW n \in Nat, NEW a \in Rows(n), NEW l \in 1..n, NEW r \in 1..n, l <= r
    PROVE  Parted(a, Partition(a, l, r).arr, Partition(a, l, r).mid, n, l, r)
<1>1. PICK f : /\ f[0] = [arr |-> a, i |-> l, j |-> r]
               /\ Partition(a, l, r) = [arr |-> [f[r - l].arr EXCEPT ![f[r - l].i] = a[l]], mid |-> f[r - l].i]
               /\ \A m \in 1..(r - l) : f[m] = PartitionRound(f[m - 1], a[l])
               /\ \A m \in 0..(r - l) :
                     /\ f[m] \in PartStates(n)
                     /\ Holed(a, f[m].arr, f[m].i, f[m].j, f[m].i, a[l], n, l, r)
  BY PartitionTable
<1>2. PICK d, k : d = r - l /\ k = a[l]
  OBVIOUS
<1>3. d \in Nat /\ k \in [key : Int, place : Int]
  BY <1>2 DEF Rows
<1>4. \A m \in 0..d : f[m] \in PartStates(n) /\ Holed(a, f[m].arr, f[m].i, f[m].j, f[m].i, k, n, l, r)
  BY <1>1, <1>2
<1> DEFINE T == {m \in 0..d : f[m].i = f[m].j \/ f[m].j - f[m].i <= d - m}
<1>5. 0 \in T
  BY <1>1, <1>2, <1>3
<1>6. ASSUME NEW j \in 0..d, j \in T, j < d PROVE j + 1 \in T
  <2>1. PICK m : m = j + 1
    OBVIOUS
  <2>2. PICK s, u : s = f[j] /\ u = f[m]
    OBVIOUS
  <2>3. m \in 1..d /\ m - 1 = j /\ m \in 0..d
    BY <1>3, <1>6, <2>1
  <2>4. u = PartitionRound(s, k)
    BY <1>1, <1>2, <2>2, <2>3
  <2>5. /\ s \in PartStates(n) /\ Holed(a, s.arr, s.i, s.j, s.i, k, n, l, r)
        /\ u \in PartStates(n) /\ (s.i = s.j \/ s.j - s.i <= d - j)
    BY <1>4, <1>6, <2>2, <2>3
  <2>6. u.i = u.j \/ u.j - u.i < s.j - s.i
    BY <1>3, <2>4, <2>5, PartitionRoundIs
  <2>7. s.i \in Int /\ s.j \in Int /\ u.i \in Int /\ u.j \in Int
    BY <2>5 DEF PartStates
  <2>8. u.i <= u.j
    <3>1. Holed(a, u.arr, u.i, u.j, u.i, k, n, l, r)
      BY <1>4, <2>2, <2>3
    <3>. QED BY <3>1 DEF Holed
  <2>9. u.i = u.j \/ u.j - u.i <= d - m
    BY <1>3, <2>1, <2>5, <2>6, <2>7, <2>8
  <2>. QED BY <2>1, <2>2, <2>3, <2>9
<1>7. d \in T
  <2> HIDE DEF T
  <2>1. \A j \in 0..d : j \in T
    BY <1>3, <1>5, <1>6, UpTo
  <2>. QED BY <1>3, <2>1
<1>8. PICK e, b, i : e = f[d] /\ b = e.arr /\ i = e.i
  OBVIOUS
<1>9. e \in PartStates(n) /\ Holed(a, b, i, e.j, i, k, n, l, r) /\ (i = e.j \/ e.j - i <= 0)
  <2>1. d \in 0..d /\ d - d = 0
    BY <1>3
  <2>. QED BY <1>4, <1>7, <1>8, <2>1
<1>10. /\ b \in Rows(n) /\ i \in Int /\ l <= i /\ i <= r /\ e.j = i
       /\ Shuffled(a, Plugged(b, i, k), n, l, r)
       /\ \A p \in l..(i - 1) : b[p].key <= k.key
       /\ \A p \in (i + 1)..r : k.key <= b[p].key
  <2>1. e.j \in Int /\ i \in Int /\ i <= e.j
    BY <1>9 DEF Holed
  <2>2. e.j = i
    BY <1>9, <2>1
  <2>. QED BY <1>9, <2>2 DEF Holed
<1>11. PICK c : c = Plugged(b, i, k)
  OBVIOUS
<1>12. Partition(a, l, r) = [arr |-> c, mid |-> i]
  <2>1. Partition(a, l, r) = [arr |-> [f[d].arr EXCEPT ![f[d].i] = k], mid |-> f[d].i]
    BY <1>1, <1>2
  <2>. QED BY <1>8, <1>11, <2>1 DEF Plugged
<1>13. i \in 1..n /\ i \in l..r
  BY <1>10
<1>14. c[i] = k /\ \A p \in 1..n : p # i => c[p] = b[p]
  <2>1. IsPlugged(b, c, n, i, k)
    BY <1>3, <1>10, <1>11, <1>13, PluggedIs
  <2>. QED BY <2>1 DEF IsPlugged
<1>15. \A p \in l..(i - 1) : p \in 1..n /\ p # i
  BY <1>13
<1>16. \A p \in (i + 1)..r : p \in 1..n /\ p # i
  BY <1>13
<1>17. Parted(a, c, i, n, l, r)
  BY <1>10, <1>11, <1>13, <1>14, <1>15, <1>16 DEF Parted
<1>. QED BY <1>12, <1>17

\* A recursive function exists whose calls go down in rank.
LowersRank(Z, X, N, rank, G) ==
    \A f, g \in [Z -> X], z \in Z :
        (\A y \in Z : rank[y] < rank[z] => f[y] = g[y]) => G[<<f, z>>] = G[<<g, z>>]

IsRecursive(Z, X, G, f) == f \in [Z -> X] /\ \A z \in Z : f[z] = G[<<f, z>>]

\* A recursion whose calls have a lower rank than their caller has a solution.
LEMMA Ranked ==
    ASSUME NEW Z, NEW X, X # {}, NEW N \in Nat, NEW rank \in [Z -> 0..N], NEW G \in [[Z -> X] \X Z -> X],
           LowersRank(Z, X, N, rank, G)
    PROVE  \E f : IsRecursive(Z, X, G, f)
<1>1. PICK F : F = [Z -> X]
  OBVIOUS
<1>2. PICK x \in X : TRUE
  OBVIOUS
<1>3. PICK f0 : f0 = [z \in Z |-> x]
  OBVIOUS
<1> DEFINE n == N + 1
           H == [w \in (1..n) \X F |-> [z \in Z |-> G[<<w[2], z>>]]]
<1>4. f0 \in F /\ n \in Nat
  BY <1>1, <1>2, <1>3
<1> HIDE DEF n
<1>5. H \in [(1..n) \X F -> F] /\ \A m \in 1..n, f \in F : H[<<m, f>>] = [z \in Z |-> G[<<f, z>>]]
  <2>1. \A f \in F : [z \in Z |-> G[<<f, z>>]] \in F
    BY <1>1
  <2>. QED BY <2>1
<1> HIDE DEF H
<1>6. PICK t : t \in [0..n -> F] /\ t[0] = f0 /\ \A m \in 1..n : t[m] = H[<<m, t[m - 1]>>]
  <2>1. \E t : IsTable(n, F, f0, H, t)
    BY <1>4, <1>5, Tabled
  <2>. QED BY <2>1 DEF IsTable
<1>7. \A m \in 1..n : t[m] \in F /\ t[m - 1] \in F /\ \A z \in Z : t[m][z] = G[<<t[m - 1], z>>]
  <2> SUFFICES ASSUME NEW m \in 1..n
               PROVE  t[m] \in F /\ t[m - 1] \in F /\ \A z \in Z : t[m][z] = G[<<t[m - 1], z>>]
    OBVIOUS
  <2>1. m \in 0..n /\ m - 1 \in 0..n
    BY <1>4
  <2>2. t[m - 1] \in F /\ t[m] \in F
    BY <1>6, <2>1
  <2>3. t[m] = [z \in Z |-> G[<<t[m - 1], z>>]]
    BY <1>5, <1>6, <2>2
  <2>. QED BY <2>2, <2>3
<1> DEFINE T == {m \in 0..n : \A z \in Z : rank[z] < m => t[m][z] = G[<<t[m], z>>]}
<1>8. 0 \in T
  BY <1>4
<1>9. ASSUME NEW j \in 0..n, j \in T, j < n PROVE j + 1 \in T
  <2>1. PICK m : m = j + 1
    OBVIOUS
  <2>2. m \in 1..n /\ m - 1 = j /\ m \in 0..n
    BY <1>4, <1>9, <2>1
  <2>3. PICK f, g : f = t[j] /\ g = t[m]
    OBVIOUS
  <2>4. f \in F /\ g \in F /\ \A z \in Z : g[z] = G[<<f, z>>]
    BY <1>7, <2>2, <2>3
  <2>5. \A z \in Z : rank[z] < j => f[z] = G[<<f, z>>]
    BY <1>9, <2>3
  <2>6. ASSUME NEW z \in Z, rank[z] < m PROVE g[z] = G[<<g, z>>]
    <3>1. \A y \in Z : rank[y] < rank[z] => f[y] = g[y]
      <4> SUFFICES ASSUME NEW y \in Z, rank[y] < rank[z] PROVE f[y] = g[y]
        OBVIOUS
      <4>1. rank[y] \in 0..N /\ rank[z] \in 0..N
        OBVIOUS
      <4>2. rank[y] < j
        BY <1>4, <2>1, <2>2, <2>6, <4>1
      <4>. QED BY <2>4, <2>5, <4>2
    <3>2. G[<<f, z>>] = G[<<g, z>>]
      BY <1>1, <2>4, <3>1 DEF LowersRank
    <3>. QED BY <2>4, <3>2
  <2>. QED BY <2>1, <2>2, <2>3, <2>6
<1>10. n \in T
  <2> HIDE DEF T
  <2>1. \A j \in 0..n : j \in T
    BY <1>4, <1>8, <1>9, UpTo
  <2>. QED BY <1>4, <2>1
<1>11. \A z \in Z : rank[z] < n
  BY DEF n
<1>12. t[n] \in F /\ \A z \in Z : t[n][z] = G[<<t[n], z>>]
  BY <1>4, <1>6, <1>10, <1>11
<1>. QED BY <1>1, <1>12 DEF IsRecursive

QuickCalls(n, V) == [arr : [1..n -> V], l : 1..(n + 1), r : 0..n]

QuickBody(f, c) ==
    IF c.l >= c.r THEN c.arr
    ELSE LET part == Partition(c.arr, c.l, c.r)
             left == f[QuickCall(part.arr, c.l, part.mid - 1)]
         IN  f[QuickCall(left, part.mid + 1, c.r)]

\* How far a call reaches
Reach(c) == IF c.l >= c.r THEN 0 ELSE c.r - c.l

\* Both calls of _quick_sort are for fewer cells (sort.c:63-68).
LEMMA QuickCallsLower ==
    ASSUME NEW n \in Nat, NEW V \in SUBSET [key : Int, place : Int],
           NEW c \in QuickCalls(n, V), ~ (c.l >= c.r),
           NEW b, NEW mid, b = Partition(c.arr, c.l, c.r).arr, mid = Partition(c.arr, c.l, c.r).mid
    PROVE  /\ Parted(c.arr, b, mid, n, c.l, c.r) /\ c.arr \in Rows(n) /\ c.l \in 1..n /\ c.r \in 1..n
           /\ mid \in c.l..c.r
           /\ QuickCall(b, c.l, mid - 1) \in QuickCalls(n, V)
           /\ Reach(QuickCall(b, c.l, mid - 1)) < Reach(c)
           /\ \A e \in [1..n -> V] : /\ QuickCall(e, mid + 1, c.r) \in QuickCalls(n, V)
                                     /\ Reach(QuickCall(e, mid + 1, c.r)) < Reach(c)
<1>1. PICK a, l, r : a = c.arr /\ l = c.l /\ r = c.r
  OBVIOUS
<1>2. a \in [1..n -> V] /\ l \in 1..n /\ r \in 1..n /\ l < r
  BY <1>1 DEF QuickCalls
<1>3. a \in Rows(n)
  BY <1>2 DEF Rows
<1>4. Parted(a, b, mid, n, l, r)
  BY <1>1, <1>2, <1>3, PartitionIs
<1>5. mid \in l..r /\ Shuffled(a, b, n, l, r)
  BY <1>4 DEF Parted
<1>6. b \in [1..n -> V]
  <2>1. b \in Rows(n) /\ \A p \in 1..n : p \notin l..r => b[p] = a[p]
    BY <1>5 DEF Shuffled
  <2>2. \A p \in l..r : \E q \in l..r : b[p] = a[q]
    BY <1>5 DEF Shuffled
  <2>3. \A p \in l..r : p \in 1..n
    BY <1>2
  <2>4. \A p \in 1..n : b[p] \in V
    BY <1>2, <2>1, <2>2, <2>3
  <2>5. b = [p \in 1..n |-> b[p]]
    BY <2>1 DEF Rows
  <2>. QED BY <2>4, <2>5
<1>7. \A e \in [1..n -> V] : \A i \in 1..(n + 1), j \in 0..n : QuickCall(e, i, j) \in QuickCalls(n, V)
  BY DEF QuickCall, QuickCalls
<1>8. /\ l \in 1..(n + 1) /\ mid - 1 \in 0..n /\ mid + 1 \in 1..(n + 1) /\ r \in 0..n
      /\ l \in Int /\ r \in Int /\ mid \in Int /\ l <= mid /\ mid <= r
  <2>1. l \in Int /\ r \in Int /\ mid \in Int /\ l <= mid /\ mid <= r
    BY <1>2, <1>5
  <2>2. 1 <= l /\ r <= n
    BY <1>2
  <2>. QED BY <2>1, <2>2
<1>9. Reach(c) = r - l
  BY <1>1 DEF Reach
<1>10. Reach(QuickCall(b, l, mid - 1)) < r - l
  <2>1. Reach(QuickCall(b, l, mid - 1)) = IF l >= mid - 1 THEN 0 ELSE (mid - 1) - l
    BY DEF Reach, QuickCall
  <2>2. CASE l >= mid - 1
    BY <1>2, <1>8, <2>1, <2>2
  <2>3. CASE ~ (l >= mid - 1)
    <3>1. Reach(QuickCall(b, l, mid - 1)) = (mid - 1) - l
      BY <2>1, <2>3
    <3>2. (mid - 1) - l < r - l
      BY <1>8
    <3>. QED BY <3>1, <3>2
  <2>. QED BY <2>2, <2>3
<1>11. ASSUME NEW e PROVE Reach(QuickCall(e, mid + 1, r)) < r - l
  <2>1. Reach(QuickCall(e, mid + 1, r)) = IF mid + 1 >= r THEN 0 ELSE r - (mid + 1)
    BY DEF Reach, QuickCall
  <2>2. CASE mid + 1 >= r
    BY <1>2, <1>8, <2>1, <2>2
  <2>3. CASE ~ (mid + 1 >= r)
    <3>1. Reach(QuickCall(e, mid + 1, r)) = r - (mid + 1)
      BY <2>1, <2>3
    <3>2. r - (mid + 1) < r - l
      BY <1>8
    <3>. QED BY <3>1, <3>2
  <2>. QED BY <2>2, <2>3
<1>12. QuickCall(b, l, mid - 1) \in QuickCalls(n, V)
  BY <1>6, <1>7, <1>8
<1>13. \A e \in [1..n -> V] : QuickCall(e, mid + 1, r) \in QuickCalls(n, V)
  BY <1>7, <1>8
<1>. QED BY <1>1, <1>2, <1>3, <1>4, <1>5, <1>9, <1>10, <1>11, <1>12, <1>13

IsQuick(f, n, V) == f \in [QuickCalls(n, V) -> [1..n -> V]]
                    /\ \A c \in QuickCalls(n, V) : f[c] = QuickBody(f, c)

\* The recursion of _quick_sort has a solution.
LEMMA QuickExists ==
    ASSUME NEW n \in Nat, NEW V \in SUBSET [key : Int, place : Int], NEW a \in [1..n -> V]
    PROVE  \E f : IsQuick(f, n, V)
<1> DEFINE Z == QuickCalls(n, V)
           X == [1..n -> V]
           rank == [c \in Z |-> Reach(c)]
           G == [w \in [Z -> X] \X Z |-> QuickBody(w[1], w[2])]
<1>1. ASSUME NEW f \in [Z -> X], NEW c \in Z
      PROVE  QuickBody(f, c) \in X
  <2>1. CASE c.l >= c.r
    BY <2>1 DEF QuickBody, QuickCalls
  <2>2. CASE ~ (c.l >= c.r)
    <3>1. PICK b, mid : b = Partition(c.arr, c.l, c.r).arr /\ mid = Partition(c.arr, c.l, c.r).mid
      OBVIOUS
    <3>2. /\ QuickCall(b, c.l, mid - 1) \in Z
          /\ \A e \in X : QuickCall(e, mid + 1, c.r) \in Z
      BY <2>2, <3>1, QuickCallsLower
    <3>3. QuickBody(f, c) = f[QuickCall(f[QuickCall(b, c.l, mid - 1)], mid + 1, c.r)]
      BY <2>2, <3>1 DEF QuickBody
    <3> HIDE DEF Z, X
    <3>4. f[QuickCall(b, c.l, mid - 1)] \in X
      BY <3>2
    <3>. QED BY <3>2, <3>3, <3>4
  <2>. QED BY <2>1, <2>2
<1>2. rank \in [Z -> 0..n]
  <2>1. ASSUME NEW c \in Z PROVE Reach(c) \in 0..n
    <3>1. c.l \in 1..(n + 1) /\ c.r \in 0..n
      BY DEF QuickCalls
    <3>. QED BY <3>1 DEF Reach
  <2>. QED BY <2>1
<1>3. G \in [[Z -> X] \X Z -> X] /\ \A f \in [Z -> X], c \in Z : G[<<f, c>>] = QuickBody(f, c)
  <2> HIDE DEF Z, X
  <2>. QED BY <1>1
<1>4. \A c \in Z : rank[c] = Reach(c)
  OBVIOUS
<1> HIDE DEF G, rank
<1>5. LowersRank(Z, X, n, rank, G)
  <2> SUFFICES ASSUME NEW f \in [Z -> X], NEW g \in [Z -> X], NEW c \in Z,
                      \A y \in Z : rank[y] < rank[c] => f[y] = g[y]
               PROVE  G[<<f, c>>] = G[<<g, c>>]
    BY DEF LowersRank
  <2>1. QuickBody(f, c) = QuickBody(g, c)
    <3>1. CASE c.l >= c.r
      BY <3>1 DEF QuickBody
    <3>2. CASE ~ (c.l >= c.r)
      <4>1. PICK b, mid : b = Partition(c.arr, c.l, c.r).arr /\ mid = Partition(c.arr, c.l, c.r).mid
        OBVIOUS
      <4>2. /\ QuickCall(b, c.l, mid - 1) \in Z /\ Reach(QuickCall(b, c.l, mid - 1)) < Reach(c)
            /\ \A e \in X : /\ QuickCall(e, mid + 1, c.r) \in Z
                            /\ Reach(QuickCall(e, mid + 1, c.r)) < Reach(c)
        BY <3>2, <4>1, QuickCallsLower
      <4>3. PICK d : d = QuickCall(b, c.l, mid - 1)
        OBVIOUS
      <4>4. QuickBody(f, c) = f[QuickCall(f[d], mid + 1, c.r)] /\ QuickBody(g, c) = g[QuickCall(g[d], mid + 1, c.r)]
        BY <3>2, <4>1, <4>3 DEF QuickBody
      <4> HIDE DEF Z, X
      <4>5. f[d] = g[d] /\ f[d] \in X
        BY <1>4, <4>2, <4>3
      <4>6. PICK e : e = QuickCall(f[d], mid + 1, c.r)
        OBVIOUS
      <4>7. e \in Z /\ Reach(e) < Reach(c)
        BY <4>2, <4>5, <4>6
      <4>8. f[e] = g[e]
        BY <1>4, <4>7
      <4>. QED BY <4>4, <4>5, <4>6, <4>8
    <3>. QED BY <3>1, <3>2
  <2>. QED BY <1>3, <2>1
<1>6. X # {}
  OBVIOUS
<1>7. PICK f : IsRecursive(Z, X, G, f)
  <2> HIDE DEF Z, X
  <2>. QED BY <1>2, <1>3, <1>5, <1>6, Ranked
<1>8. f \in [Z -> X] /\ \A c \in Z : f[c] = QuickBody(f, c)
  <2> HIDE DEF Z, X
  <2>. QED BY <1>3, <1>7 DEF IsRecursive
<1>. QED BY <1>8 DEF IsQuick

\* quick_sort is a value of that solution.
LEMMA QuickTable ==
    ASSUME NEW n \in Nat, NEW a \in Rows(n)
    PROVE  \E f, V : /\ V \in SUBSET [key : Int, place : Int] /\ a \in [1..n -> V]
                     /\ QuickSort(a) = f[QuickCall(a, 1, n)]
                     /\ \A c \in QuickCalls(n, V) : f[c] = QuickBody(f, c)
<1> DEFINE V == {a[p] : p \in 1..Len(a)}
           Is(f) == f = [c \in [arr : [1..Len(a) -> V], l : 1..(Len(a) + 1), r : 0..Len(a)] |->
                          IF c.l >= c.r THEN c.arr
                          ELSE LET part == Partition(c.arr, c.l, c.r)
                                   left == f[QuickCall(part.arr, c.l, part.mid - 1)]
                               IN  f[QuickCall(left, part.mid + 1, c.r)]]
           h == CHOOSE f : Is(f)
<1>1. QuickSort(a) = h[QuickCall(a, 1, Len(a))]
  BY DEF QuickSort
<1>2. Len(a) = n
  BY RowIs
<1>3. V \in SUBSET [key : Int, place : Int] /\ a \in [1..n -> V]
  BY <1>2 DEF Rows
<1> HIDE DEF V
<1>4. PICK g : IsQuick(g, n, V)
  BY <1>3, QuickExists
<1>5. Is(g)
  <2>1. g = [c \in QuickCalls(n, V) |-> g[c]]
    BY <1>4 DEF IsQuick
  <2>2. g = [c \in QuickCalls(n, V) |-> QuickBody(g, c)]
    BY <1>4, <2>1 DEF IsQuick
  <2>. QED BY <1>2, <2>2 DEF QuickCalls, QuickBody
<1>6. Is(h)
  <2> HIDE DEF Is
  <2>. QED BY <1>5
<1> HIDE DEF h
<1>7. h = [c \in QuickCalls(n, V) |-> QuickBody(h, c)]
  BY <1>2, <1>6 DEF QuickCalls, QuickBody
<1>8. \A c \in QuickCalls(n, V) : h[c] = QuickBody(h, c)
  BY <1>7
<1>. QED BY <1>1, <1>2, <1>3, <1>8

\* One call sorts its cells, and leaves the others alone.
Quicks(f, c, n) == Shuffled(c.arr, f[c], n, c.l, c.r) /\ Ordered(f[c], c.l, c.r)

\* A call sorts its cells if the calls for fewer cells sort theirs.
LEMMA QuickCallIs ==
    ASSUME NEW n \in Nat, NEW V \in SUBSET [key : Int, place : Int], NEW f,
           NEW c \in QuickCalls(n, V), f[c] = QuickBody(f, c),
           \A d \in QuickCalls(n, V) : Reach(d) < Reach(c) => Quicks(f, d, n)
    PROVE  Quicks(f, c, n)
<1>1. CASE c.l >= c.r
  <2>1. f[c] = c.arr /\ c.arr \in Rows(n)
    BY <1>1 DEF QuickBody, QuickCalls, Rows
  <2>2. Ordered(c.arr, c.l, c.r)
    BY <1>1 DEF Ordered, QuickCalls
  <2>. QED BY <2>1, <2>2, ShuffledSelf DEF Quicks
<1>2. CASE ~ (c.l >= c.r)
  <2>1. PICK b, mid : b = Partition(c.arr, c.l, c.r).arr /\ mid = Partition(c.arr, c.l, c.r).mid
    OBVIOUS
  <2>2. PICK a, l, r : a = c.arr /\ l = c.l /\ r = c.r
    OBVIOUS
  <2>3. /\ Parted(a, b, mid, n, l, r) /\ a \in Rows(n) /\ l \in 1..n /\ r \in 1..n
        /\ mid \in l..r
        /\ QuickCall(b, l, mid - 1) \in QuickCalls(n, V)
        /\ Reach(QuickCall(b, l, mid - 1)) < Reach(c)
        /\ \A e \in [1..n -> V] : /\ QuickCall(e, mid + 1, r) \in QuickCalls(n, V)
                                  /\ Reach(QuickCall(e, mid + 1, r)) < Reach(c)
    BY <1>2, <2>1, <2>2, QuickCallsLower
  <2>4. PICK d : d = QuickCall(b, l, mid - 1)
    OBVIOUS
  <2>5. PICK x : x = f[d]
    OBVIOUS
  <2>6. Shuffled(b, x, n, l, mid - 1) /\ Ordered(x, l, mid - 1)
    <3>1. d.arr = b /\ d.l = l /\ d.r = mid - 1
      BY <2>4 DEF QuickCall
    <3>2. Quicks(f, d, n)
      BY <2>3, <2>4
    <3>. QED BY <2>5, <3>1, <3>2 DEF Quicks
  <2>7. x \in [1..n -> V]
    <3>1. b \in [1..n -> V]
      BY <2>3 DEF QuickCall, QuickCalls
    <3>2. x \in Rows(n) /\ \A p \in 1..n : p \notin l..(mid - 1) => x[p] = b[p]
      BY <2>6 DEF Shuffled
    <3>3. \A p \in l..(mid - 1) : \E q \in l..(mid - 1) : x[p] = b[q]
      BY <2>6 DEF Shuffled
    <3>4. \A p \in l..(mid - 1) : p \in 1..n
      BY <2>3
    <3>5. \A p \in 1..n : x[p] \in V
      BY <3>1, <3>2, <3>3, <3>4
    <3>6. x = [p \in 1..n |-> x[p]]
      BY <3>2 DEF Rows
    <3>. QED BY <3>5, <3>6
  <2>8. PICK e : e = QuickCall(x, mid + 1, r)
    OBVIOUS
  <2>9. PICK y : y = f[e]
    OBVIOUS
  <2>10. Shuffled(x, y, n, mid + 1, r) /\ Ordered(y, mid + 1, r)
    <3>1. e.arr = x /\ e.l = mid + 1 /\ e.r = r
      BY <2>8 DEF QuickCall
    <3>2. Quicks(f, e, n)
      BY <2>3, <2>7, <2>8
    <3>. QED BY <2>9, <3>1, <3>2 DEF Quicks
  <2>11. f[c] = y
    BY <1>2, <2>1, <2>2, <2>4, <2>5, <2>8, <2>9 DEF QuickBody
  <2>12. /\ l \in Int /\ r \in Int /\ mid \in Int /\ mid - 1 \in Int /\ mid + 1 \in Int /\ 1 <= l
         /\ l <= l /\ r <= r /\ r <= n /\ mid - 1 <= r /\ l <= mid + 1
    BY <2>3
  <2>13. Shuffled(a, y, n, l, r)
    <3>1. Shuffled(b, x, n, l, r)
      BY <2>6, <2>12, ShuffledWider
    <3>2. Shuffled(x, y, n, l, r)
      BY <2>10, <2>12, ShuffledWider
    <3>3. Shuffled(a, b, n, l, r)
      BY <2>3 DEF Parted
    <3>. QED BY <3>1, <3>2, <3>3, ShuffledTwice
  <2>14. y \in Rows(n) /\ b \in Rows(n) /\ \A p \in 1..n : y[p].key \in Int /\ b[p].key \in Int
    <3>1. y \in Rows(n) /\ b \in Rows(n)
      BY <2>3, <2>13 DEF Shuffled, Parted
    <3>. QED BY <3>1, RowIs
  <2>15. y[mid] = b[mid] /\ mid \in 1..n
    <3>1. mid \in 1..n /\ mid \notin l..(mid - 1) /\ mid \notin (mid + 1)..r
      BY <2>3
    <3>2. y[mid] = x[mid]
      BY <2>10, <3>1 DEF Shuffled
    <3>3. x[mid] = b[mid]
      BY <2>6, <3>1 DEF Shuffled
    <3>. QED BY <3>1, <3>2, <3>3
  <2>16. ASSUME NEW p \in l..(mid - 1) PROVE y[p] = x[p] /\ y[p].key <= b[mid].key
    <3>1. p \in 1..n /\ p \notin (mid + 1)..r
      BY <2>3
    <3>2. y[p] = x[p]
      BY <2>10, <3>1 DEF Shuffled
    <3>3. PICK q \in l..(mid - 1) : x[p] = b[q]
      BY <2>6 DEF Shuffled
    <3>4. b[q].key <= b[mid].key
      BY <2>3 DEF Parted
    <3>. QED BY <3>2, <3>3, <3>4
  <2>17. ASSUME NEW p \in (mid + 1)..r PROVE b[mid].key <= y[p].key
    <3>1. PICK q \in (mid + 1)..r : y[p] = x[q]
      BY <2>10 DEF Shuffled
    <3>2. q \in 1..n /\ q \notin l..(mid - 1)
      BY <2>3
    <3>3. x[q] = b[q]
      BY <2>6, <3>2 DEF Shuffled
    <3>4. b[mid].key <= b[q].key
      BY <2>3 DEF Parted
    <3>. QED BY <3>1, <3>3, <3>4
  <2>18. Ordered(y, l, r)
    <3> SUFFICES ASSUME NEW p \in l..r, NEW q \in l..r, p < q
                 PROVE  y[p].key <= y[q].key
      BY DEF Ordered
    <3>1. p \in 1..n /\ q \in 1..n
      BY <2>3
    <3>2. CASE p < mid
      <4>1. p \in l..(mid - 1) /\ y[p] = x[p] /\ y[p].key <= b[mid].key
        BY <2>3, <2>16, <3>2
      <4>2. CASE q < mid
        <5>1. q \in l..(mid - 1)
          BY <2>3, <4>2
        <5>2. y[q] = x[q]
          BY <2>16, <5>1
        <5>. QED BY <2>6, <4>1, <5>1, <5>2 DEF Ordered
      <4>3. CASE q = mid
        BY <2>15, <4>1, <4>3
      <4>4. CASE q > mid
        <5>1. q \in (mid + 1)..r
          BY <2>3, <4>4
        <5>2. b[mid].key <= y[q].key
          BY <2>17, <5>1
        <5>. QED BY <2>14, <2>15, <3>1, <4>1, <5>2
      <4>. QED BY <2>3, <4>2, <4>3, <4>4
    <3>3. CASE p = mid
      <4>1. q \in (mid + 1)..r
        BY <2>3, <3>3
      <4>. QED BY <2>15, <2>17, <3>3, <4>1
    <3>4. CASE p > mid
      <4>1. p \in (mid + 1)..r /\ q \in (mid + 1)..r
        BY <2>3, <3>4
      <4>. QED BY <2>10, <4>1 DEF Ordered
    <3>. QED BY <2>3, <3>2, <3>3, <3>4
  <2>. QED BY <2>2, <2>11, <2>13, <2>18 DEF Quicks
<1>. QED BY <1>1, <1>2

\* quick_sort sorts.
LEMMA QuickSorts ==
    ASSUME NEW n \in Nat, NEW a \in Rows(n)
    PROVE  Shuffled(a, QuickSort(a), n, 1, n) /\ Ordered(QuickSort(a), 1, n)
<1>1. PICK f, V : /\ V \in SUBSET [key : Int, place : Int] /\ a \in [1..n -> V]
                  /\ QuickSort(a) = f[QuickCall(a, 1, n)]
                  /\ \A c \in QuickCalls(n, V) : f[c] = QuickBody(f, c)
  BY QuickTable
<1> DEFINE Z == QuickCalls(n, V)
           T == {m \in 0..n : \A d \in Z : Reach(d) < m => Quicks(f, d, n)}
<1>2. \A c \in Z : Reach(c) \in 0..n
  BY DEF Reach, QuickCalls
<1>3. 0 \in T
  BY <1>2
<1>4. \A c \in Z : (\A d \in Z : Reach(d) < Reach(c) => Quicks(f, d, n)) => Quicks(f, c, n)
  BY <1>1, QuickCallIs
<1> HIDE DEF Z
<1>5. ASSUME NEW j \in 0..n, j \in T, j < n PROVE j + 1 \in T
  <2>1. ASSUME NEW c \in Z, Reach(c) < j + 1 PROVE Quicks(f, c, n)
    <3>1. \A d \in Z : Reach(d) < Reach(c) => Quicks(f, d, n)
      <4> SUFFICES ASSUME NEW d \in Z, Reach(d) < Reach(c) PROVE Quicks(f, d, n)
        OBVIOUS
      <4>1. Reach(d) < j
        BY <1>2, <1>5, <2>1
      <4>. QED BY <1>5, <4>1
    <3>. QED BY <1>4, <3>1
  <2>. QED BY <1>5, <2>1
<1>6. n \in T
  <2> HIDE DEF T
  <2>1. \A j \in 0..n : j \in T
    BY <1>3, <1>5, UpTo
  <2>. QED BY <2>1
<1>7. PICK c : c = QuickCall(a, 1, n)
  OBVIOUS
<1>8. c \in Z /\ c.arr = a /\ c.l = 1 /\ c.r = n
  BY <1>1, <1>7 DEF QuickCall, Z, QuickCalls
<1>9. Reach(c) < n \/ n = 0
  BY <1>8 DEF Reach
<1>10. Quicks(f, c, n)
  <2>1. CASE Reach(c) < n
    BY <1>6, <1>8, <2>1
  <2>2. CASE n = 0
    <3>1. \A d \in Z : ~ (Reach(d) < Reach(c))
      BY <1>2, <1>8, <2>2
    <3>. QED BY <1>4, <1>8, <3>1
  <2>. QED BY <1>9, <2>1, <2>2
<1>. QED BY <1>1, <1>7, <1>8, <1>10 DEF Quicks

-----------------------------------------------------------------------------
(* merge_sort *)

\* In the order of the keys, and of the places where the keys are equal
Before(x, y) == x.key < y.key \/ (x.key = y.key /\ x.place < y.place)

Row == [key : Int, place : Int]

\* Of equal values in an array that keeps their order, the earlier cell is the earlier.
LEMMA StablyBefore ==
    ASSUME NEW n \in Nat, NEW a \in Rows(n), Stably(a, n), NEW p \in 1..n, NEW q \in 1..n, p < q,
           a[p].key <= a[q].key
    PROVE  Before(a[p], a[q])
<1>1. a[p].key \in Int /\ a[q].key \in Int
  BY RowIs
<1>2. a[p].key = a[q].key => a[p].place < a[q].place
  BY DEF Stably
<1>. QED BY <1>1, <1>2 DEF Before

\* u is t with x behind it.
IsAppended(t, u, x) ==
    /\ u \in Seq(Row) /\ Len(u) = Len(t) + 1 /\ u[Len(t) + 1] = x
    /\ \A p \in 1..Len(t) : u[p] = t[p]

\* What Append adds, cell by cell
LEMMA AppendedIs ==
    ASSUME NEW t \in Seq(Row), NEW x \in Row
    PROVE  IsAppended(t, Append(t, x), x)
<1>1. Append(t, x) \in Seq(Row) /\ Len(Append(t, x)) = Len(t) + 1
  <2>1. \A S : \A h \in Seq(S), y \in S : Append(h, y) \in Seq(S) /\ Len(Append(h, y)) = Len(h) + 1
    OBVIOUS
  <2>. QED BY <2>1
<1>2. Append(t, x)[Len(t) + 1] = x /\ \A p \in 1..Len(t) : Append(t, x)[p] = t[p]
  OBVIOUS
<1>. QED BY <1>1, <1>2 DEF IsAppended

\* What has been taken when the runs are left from L and from R
Gone(q, L, R, ml) == q < L \/ (ml <= q /\ q < R)

Took(a, L, R, t, l, ml, mr) ==
    /\ L \in l..ml /\ R \in ml..mr
    /\ t \in Seq(Row) /\ Len(t) = (L - l) + (R - ml)
    /\ \A p \in 1..Len(t) : \E q \in l..(mr - 1) : Gone(q, L, R, ml) /\ t[p] = a[q]
    /\ \A q \in l..(mr - 1) : Gone(q, L, R, ml) => \E p \in 1..Len(t) : t[p] = a[q]
    /\ \A p \in 1..Len(t), q \in l..(mr - 1) : ~ Gone(q, L, R, ml) => Before(t[p], a[q])
    /\ \A p, q \in 1..Len(t) : p < q => Before(t[p], t[q])

\* One more value is taken, when it is before all that are left.
LEMMA TookMore ==
    ASSUME NEW n \in Nat, NEW a \in Rows(n), NEW l \in 1..n, NEW ml \in 1..n, NEW mr \in 1..(n + 1),
           l < ml, ml < mr, NEW L, NEW R, NEW t, Took(a, L, R, t, l, ml, mr),
           NEW x, NEW L2, NEW R2,
           \/ x = L /\ L < ml /\ L2 = L + 1 /\ R2 = R
           \/ x = R /\ R < mr /\ L2 = L /\ R2 = R + 1,
           \A q \in l..(mr - 1) : ~ Gone(q, L, R, ml) /\ q # x => Before(a[x], a[q])
    PROVE  Took(a, L2, R2, Append(t, a[x]), l, ml, mr)
<1>1. /\ L \in l..ml /\ R \in ml..mr
      /\ t \in Seq(Row) /\ Len(t) = (L - l) + (R - ml) /\ Len(t) \in Nat
  BY DEF Took
<1>2. L2 \in l..ml /\ R2 \in ml..mr /\ x \in l..(mr - 1) /\ x \in 1..n /\ (L2 - l) + (R2 - ml) = Len(t) + 1
  BY <1>1
<1>3. \A q \in l..(mr - 1) : Gone(q, L2, R2, ml) <=> Gone(q, L, R, ml) \/ q = x
  BY <1>1 DEF Gone
<1>4. ~ Gone(x, L, R, ml)
  BY <1>1 DEF Gone
<1>5. PICK k : k = Len(t)
  OBVIOUS
<1>6. PICK u : u = Append(t, a[x])
  OBVIOUS
<1>7. u \in Seq(Row) /\ Len(u) = k + 1 /\ u[k + 1] = a[x] /\ \A p \in 1..k : u[p] = t[p]
  <2>1. a[x] \in Row
    BY <1>2 DEF Rows, Row
  <2>2. IsAppended(t, u, a[x])
    BY <1>1, <1>6, <2>1, AppendedIs
  <2>. QED BY <1>5, <2>2 DEF IsAppended
<1>8. k \in Nat /\ \A p \in 1..(k + 1) : p \in 1..k \/ p = k + 1
  BY <1>1, <1>5
<1>9. ASSUME NEW p \in 1..(k + 1)
      PROVE  \E q \in l..(mr - 1) : Gone(q, L2, R2, ml) /\ u[p] = a[q]
  <2>1. CASE p \in 1..k
    <3>1. PICK q \in l..(mr - 1) : Gone(q, L, R, ml) /\ t[p] = a[q]
      BY <1>5, <2>1 DEF Took
    <3>. QED BY <1>3, <1>7, <2>1, <3>1
  <2>2. CASE p = k + 1
    BY <1>2, <1>3, <1>7, <2>2
  <2>. QED BY <1>8, <2>1, <2>2
<1>10. ASSUME NEW q \in l..(mr - 1), Gone(q, L2, R2, ml)
       PROVE  \E p \in 1..(k + 1) : u[p] = a[q]
  <2>1. CASE q = x
    <3>1. k + 1 \in 1..(k + 1)
      BY <1>8
    <3>. QED BY <1>7, <2>1, <3>1
  <2>2. CASE Gone(q, L, R, ml)
    <3>1. PICK p \in 1..k : t[p] = a[q]
      BY <1>5, <2>2 DEF Took
    <3>2. p \in 1..(k + 1)
      BY <1>8
    <3>. QED BY <1>7, <3>1, <3>2
  <2>. QED BY <1>3, <1>10, <2>1, <2>2
<1>11. ASSUME NEW p \in 1..(k + 1), NEW q \in l..(mr - 1), ~ Gone(q, L2, R2, ml)
       PROVE  Before(u[p], a[q])
  <2>1. ~ Gone(q, L, R, ml) /\ q # x
    BY <1>3, <1>11
  <2>2. CASE p \in 1..k
    <3>1. Before(t[p], a[q])
      BY <1>5, <2>1, <2>2 DEF Took
    <3>. QED BY <1>7, <2>2, <3>1
  <2>3. CASE p = k + 1
    BY <1>7, <2>1, <2>3
  <2>. QED BY <1>8, <2>2, <2>3
<1>12. ASSUME NEW p \in 1..(k + 1), NEW q \in 1..(k + 1), p < q
       PROVE  Before(u[p], u[q])
  <2>1. p \in 1..k
    BY <1>8, <1>12
  <2>2. CASE q \in 1..k
    <3>1. Before(t[p], t[q])
      BY <1>5, <1>12, <2>1, <2>2 DEF Took
    <3>. QED BY <1>7, <2>1, <2>2, <3>1
  <2>3. CASE q = k + 1
    <3>1. Before(t[p], a[x])
      BY <1>2, <1>4, <1>5, <2>1 DEF Took
    <3>. QED BY <1>7, <2>1, <2>3, <3>1
  <2>. QED BY <1>8, <2>2, <2>3
<1>13. Took(a, L2, R2, u, l, ml, mr)
  BY <1>2, <1>5, <1>7, <1>9, <1>10, <1>11, <1>12 DEF Took
<1>. QED BY <1>6, <1>13

TakeStep(a, s, ml, mr) ==
    IF s.l = ml \/ s.r = mr THEN s
    ELSE IF TakesLeft(a[s.l], a[s.r])
         THEN [s EXCEPT !.l = @ + 1, !.t = Append(@, a[s.l])]
         ELSE [s EXCEPT !.r = @ + 1, !.t = Append(@, a[s.r])]

\* What a merge asks of its runs
Mergeable(a, n, l, ml, mr) ==
    /\ a \in Rows(n) /\ Stably(a, n) /\ l \in 1..n /\ ml \in 1..n /\ mr \in 1..(n + 1) /\ l < ml /\ ml < mr
    /\ Ordered(a, l, ml - 1) /\ Ordered(a, ml, mr - 1)

TakeStates == [l : Int, r : Int, t : Seq(Row)]

\* A turn takes the lesser of the heads of the two runs, the left one of equals (sort.c:89).
LEMMA TakeStepIs ==
    ASSUME NEW n \in Nat, NEW a, NEW l, NEW ml, NEW mr, Mergeable(a, n, l, ml, mr),
           NEW s \in TakeStates, Took(a, s.l, s.r, s.t, l, ml, mr),
           NEW u, u = TakeStep(a, s, ml, mr)
    PROVE  /\ u \in TakeStates /\ Took(a, u.l, u.r, u.t, l, ml, mr)
           /\ (s.l = ml \/ s.r = mr) => u = s
           /\ s.l # ml /\ s.r # mr => u.l + u.r = s.l + s.r + 1
<1>1. CASE s.l = ml \/ s.r = mr
  BY <1>1 DEF TakeStep
<1>2. CASE ~ (s.l = ml \/ s.r = mr)
  <2>1. PICK L, R, t : L = s.l /\ R = s.r /\ t = s.t
    OBVIOUS
  <2>2. /\ a \in Rows(n) /\ Stably(a, n) /\ l \in 1..n /\ ml \in 1..n /\ mr \in 1..(n + 1) /\ l < ml /\ ml < mr
        /\ \A p, q \in l..(ml - 1) : p < q => a[p].key <= a[q].key
        /\ \A p, q \in ml..(mr - 1) : p < q => a[p].key <= a[q].key
    BY DEF Mergeable, Ordered
  <2>3. Took(a, L, R, t, l, ml, mr) /\ L \in l..(ml - 1) /\ R \in ml..(mr - 1) /\ t \in Seq(Row)
    <3>1. Took(a, L, R, t, l, ml, mr)
      BY <2>1
    <3>2. L \in l..ml /\ R \in ml..mr /\ t \in Seq(Row) /\ L # ml /\ R # mr
      BY <1>2, <2>1, <3>1 DEF Took
    <3>. QED BY <2>2, <3>1, <3>2
  <2>4. L \in 1..n /\ R \in 1..n /\ L < R /\ \A q \in l..(mr - 1) : q \in 1..n
    BY <2>2, <2>3
  <2>5. \A q \in 1..n : a[q].key \in Int
    BY <2>2, RowIs
  <2>6. \A q \in l..(mr - 1) : ~ Gone(q, L, R, ml) => q \in L..(ml - 1) \/ q \in R..(mr - 1)
    BY <2>2, <2>3 DEF Gone
  <2>7. a[L] \in Row /\ a[R] \in Row
    BY <2>2, <2>4 DEF Rows, Row
  <2>8. CASE a[L].key <= a[R].key
    <3>1. u = [s EXCEPT !.l = L + 1, !.t = Append(t, a[L])]
      BY <1>2, <2>1, <2>4, <2>5, <2>8 DEF TakeStep, TakesLeft, Above
    <3>2. ASSUME NEW q \in l..(mr - 1), ~ Gone(q, L, R, ml), q # L PROVE Before(a[L], a[q])
      <4>1. CASE q \in L..(ml - 1)
        <5>1. L < q /\ a[L].key <= a[q].key
          BY <2>2, <2>3, <3>2, <4>1
        <5>. QED BY <2>2, <2>4, <5>1, StablyBefore
      <4>2. CASE q \in R..(mr - 1)
        <5>1. L < q /\ (R < q \/ R = q)
          BY <2>4, <4>2
        <5>2. a[R].key <= a[q].key
          BY <2>2, <2>3, <2>4, <2>5, <4>2, <5>1
        <5>3. a[L].key <= a[q].key
          BY <2>4, <2>5, <2>8, <5>2
        <5>. QED BY <2>2, <2>4, <5>1, <5>3, StablyBefore
      <4>. QED BY <2>6, <3>2, <4>1, <4>2
    <3>3. L < ml
      BY <2>2, <2>3
    <3>4. Took(a, L + 1, R, Append(t, a[L]), l, ml, mr)
      <4>1. PICK L2 : L2 = L + 1
        OBVIOUS
      <4>2. Took(a, L2, R, Append(t, a[L]), l, ml, mr)
        BY <2>2, <2>3, <3>2, <3>3, <4>1, TookMore
      <4>. QED BY <4>1, <4>2
    <3>5. Append(t, a[L]) \in Seq(Row)
      BY <2>3, <2>7, AppendedIs DEF IsAppended
    <3>6. u \in TakeStates /\ u.l = L + 1 /\ u.r = R /\ u.t = Append(t, a[L])
      <4>1. PICK z : z = Append(t, a[L])
        OBVIOUS
      <4>2. u = [l |-> L + 1, r |-> R, t |-> z]
        BY <2>1, <3>1, <4>1 DEF TakeStates
      <4>3. L \in Int /\ R \in Int /\ z \in Seq(Row)
        BY <2>4, <3>5, <4>1
      <4>. QED BY <4>1, <4>2, <4>3 DEF TakeStates
    <3>. QED BY <1>2, <2>1, <2>3, <2>4, <3>4, <3>6
  <2>9. CASE ~ (a[L].key <= a[R].key)
    <3>1. u = [s EXCEPT !.r = R + 1, !.t = Append(t, a[R])]
      BY <1>2, <2>1, <2>4, <2>5, <2>9 DEF TakeStep, TakesLeft, Above
    <3>2. ASSUME NEW q \in l..(mr - 1), ~ Gone(q, L, R, ml), q # R PROVE Before(a[R], a[q])
      <4>1. CASE q \in L..(ml - 1)
        <5>1. L < q \/ L = q
          BY <2>4, <4>1
        <5>2. a[L].key <= a[q].key
          BY <2>2, <2>3, <2>4, <2>5, <4>1, <5>1
        <5>3. a[R].key < a[q].key
          BY <2>4, <2>5, <2>9, <5>2
        <5>. QED BY <5>3 DEF Before
      <4>2. CASE q \in R..(mr - 1)
        <5>1. R < q /\ a[R].key <= a[q].key
          BY <2>2, <2>3, <3>2, <4>2
        <5>. QED BY <2>2, <2>4, <5>1, StablyBefore
      <4>. QED BY <2>6, <3>2, <4>1, <4>2
    <3>3. R < mr
      BY <2>2, <2>3
    <3>4. Took(a, L, R + 1, Append(t, a[R]), l, ml, mr)
      <4>1. PICK R2 : R2 = R + 1
        OBVIOUS
      <4>2. Took(a, L, R2, Append(t, a[R]), l, ml, mr)
        BY <2>2, <2>3, <3>2, <3>3, <4>1, TookMore
      <4>. QED BY <4>1, <4>2
    <3>5. Append(t, a[R]) \in Seq(Row)
      BY <2>3, <2>7, AppendedIs DEF IsAppended
    <3>6. u \in TakeStates /\ u.l = L /\ u.r = R + 1 /\ u.t = Append(t, a[R])
      <4>1. PICK z : z = Append(t, a[R])
        OBVIOUS
      <4>2. u = [l |-> L, r |-> R + 1, t |-> z]
        BY <2>1, <3>1, <4>1 DEF TakeStates
      <4>3. L \in Int /\ R \in Int /\ z \in Seq(Row)
        BY <2>4, <3>5, <4>1
      <4>. QED BY <4>1, <4>2, <4>3 DEF TakeStates
    <3>. QED BY <1>2, <2>1, <2>3, <2>4, <3>4, <3>6
  <2>. QED BY <2>8, <2>9
<1>. QED BY <1>1, <1>2

\* x is the cells i..j of a.
IsCut(a, x, i, j) == x \in Seq(Row) /\ Len(x) = j - i + 1 /\ \A p \in 1..(j - i + 1) : x[p] = a[i + p - 1]

\* What SubSeq cuts out, cell by cell
LEMMA CutIs ==
    ASSUME NEW n \in Nat, NEW a \in Rows(n), NEW i \in 1..(n + 1), NEW j \in 0..n, i <= j + 1
    PROVE  IsCut(a, SubSeq(a, i, j), i, j)
<1>1. PICK S : S = Row
  OBVIOUS
<1>2. \A p \in i..j : a[p] \in S
  BY <1>1 DEF Rows, Row
<1>3. /\ SubSeq(a, i, j) \in Seq(S)
      /\ Len(SubSeq(a, i, j)) = IF i <= j THEN j - i + 1 ELSE 0
      /\ \A p \in 1..(j - i + 1) : SubSeq(a, i, j)[p] = a[i + p - 1]
  BY <1>2, SubSeqProperties
<1>. QED BY <1>1, <1>3 DEF IsCut

\* z is x and y behind it.
IsJoin(x, y, z) ==
    /\ z \in Seq(Row) /\ Len(z) = Len(x) + Len(y)
    /\ \A p \in 1..Len(x) : z[p] = x[p]
    /\ \A p \in 1..Len(y) : z[Len(x) + p] = y[p]

\* What a concatenation is, cell by cell
LEMMA JoinIs ==
    ASSUME NEW x \in Seq(Row), NEW y \in Seq(Row)
    PROVE  IsJoin(x, y, x \o y)
<1>1. PICK S : S = Row
  OBVIOUS
<1>2. x \in Seq(S) /\ y \in Seq(S)
  BY <1>1
<1>3. x \o y \in Seq(S) /\ Len(x \o y) = Len(x) + Len(y)
  BY <1>2
<1>4. \A p \in 1..Len(x) : (x \o y)[p] = x[p]
  BY <1>2
<1>5. \A p \in 1..Len(y) : (x \o y)[Len(x) + p] = y[p]
  BY <1>2
<1>. QED BY <1>1, <1>3, <1>4, <1>5 DEF IsJoin

MergedOut(a, e, ml, mr) == e.t \o SubSeq(a, e.l, ml - 1) \o SubSeq(a, e.r, mr - 1)

\* What has been taken, then what one of the runs has left over
IsOut(a, t, out, L, R, l, ml, mr) ==
    /\ \A p \in 1..Len(t) : out[p] = t[p]
    /\ \A p \in 1..(ml - L) : out[Len(t) + p] = a[L + p - 1]
    /\ \A p \in 1..(mr - R) : out[Len(t) + (ml - L) + p] = a[R + p - 1]

\* What was taken, followed by what the two runs have left
LEMMA OutIs ==
    ASSUME NEW n \in Nat, NEW a \in Rows(n), NEW l \in 1..n, NEW ml \in 1..n, NEW mr \in 1..(n + 1),
           l < ml, ml < mr, NEW e \in TakeStates, Took(a, e.l, e.r, e.t, l, ml, mr)
    PROVE  IsOut(a, e.t, MergedOut(a, e, ml, mr), e.l, e.r, l, ml, mr)
<1>1. PICK L, R, t : L = e.l /\ R = e.r /\ t = e.t
  OBVIOUS
<1>2. L \in l..ml /\ R \in ml..mr /\ t \in Seq(Row)
  BY <1>1 DEF Took
<1>3. PICK x, y : x = SubSeq(a, L, ml - 1) /\ y = SubSeq(a, R, mr - 1)
  OBVIOUS
<1>4. x \in Seq(Row) /\ Len(x) = ml - L /\ \A p \in 1..(ml - L) : x[p] = a[L + p - 1]
  <2>1. L \in 1..(n + 1) /\ ml - 1 \in 0..n /\ L <= (ml - 1) + 1 /\ (ml - 1) - L + 1 = ml - L
    BY <1>2
  <2>2. IsCut(a, x, L, ml - 1)
    BY <1>3, <2>1, CutIs
  <2>. QED BY <2>1, <2>2 DEF IsCut
<1>5. y \in Seq(Row) /\ Len(y) = mr - R /\ \A p \in 1..(mr - R) : y[p] = a[R + p - 1]
  <2>1. R \in 1..(n + 1) /\ mr - 1 \in 0..n /\ R <= (mr - 1) + 1 /\ (mr - 1) - R + 1 = mr - R
    BY <1>2
  <2>2. IsCut(a, y, R, mr - 1)
    BY <1>3, <2>1, CutIs
  <2>. QED BY <2>1, <2>2 DEF IsCut
<1>6. PICK z, w : z = t \o x /\ w = z \o y
  OBVIOUS
<1>7. IsJoin(t, x, z)
  BY <1>2, <1>4, <1>6, JoinIs
<1>8. IsJoin(z, y, w)
  <2>1. z \in Seq(Row)
    BY <1>7 DEF IsJoin
  <2>. QED BY <1>5, <1>6, <2>1, JoinIs
<1>9. PICK k : k = Len(t)
  OBVIOUS
<1>10. k \in Nat /\ ml - L \in Nat
  BY <1>2, <1>9
<1>11. Len(z) = k + (ml - L)
  BY <1>4, <1>7, <1>9 DEF IsJoin
<1>12. \A p \in 1..(k + (ml - L)) : w[p] = z[p]
  BY <1>8, <1>11 DEF IsJoin
<1>13. \A p \in 1..k : w[p] = t[p]
  <2>1. \A p \in 1..k : p \in 1..(k + (ml - L)) /\ z[p] = t[p]
    BY <1>7, <1>9, <1>10 DEF IsJoin
  <2>. QED BY <1>12, <2>1
<1>14. \A p \in 1..(ml - L) : w[k + p] = a[L + p - 1]
  <2>1. \A p \in 1..(ml - L) : k + p \in 1..(k + (ml - L)) /\ z[k + p] = x[p]
    BY <1>4, <1>7, <1>9, <1>10 DEF IsJoin
  <2>. QED BY <1>4, <1>12, <2>1
<1>15. \A p \in 1..(mr - R) : w[k + (ml - L) + p] = a[R + p - 1]
  <2>1. \A p \in 1..(mr - R) : w[Len(z) + p] = y[p]
    BY <1>5, <1>8 DEF IsJoin
  <2>. QED BY <1>5, <1>11, <2>1
<1>16. w = MergedOut(a, e, ml, mr)
  BY <1>1, <1>3, <1>6 DEF MergedOut
<1>. QED BY <1>1, <1>9, <1>13, <1>14, <1>15, <1>16 DEF IsOut

MergedFrom(a, out, l, mr) == [p \in 1..Len(a) |-> IF p \in l..(mr - 1) THEN out[p - l + 1] ELSE a[p]]

\* A merge is the table of its turns, each with the invariant (sort.c:87-96).
LEMMA MergedTable ==
    ASSUME NEW n \in Nat, NEW a, NEW l, NEW ml, NEW mr, Mergeable(a, n, l, ml, mr)
    PROVE  \E f : /\ f[0] = [l |-> l, r |-> ml, t |-> << >>]
                  /\ Merged(a, l, ml, mr) = MergedFrom(a, MergedOut(a, f[mr - l], ml, mr), l, mr)
                  /\ \A m \in 1..(mr - l) : f[m] = TakeStep(a, f[m - 1], ml, mr)
                  /\ \A m \in 0..(mr - l) :
                        /\ f[m] \in TakeStates
                        /\ Took(a, f[m].l, f[m].r, f[m].t, l, ml, mr)
<1> DEFINE d == mr - l
           s0 == [l |-> l, r |-> ml, t |-> << >>]
           Is(f) == f = [m \in 0..(mr - l) |->
                          IF m = 0 THEN [l |-> l, r |-> ml, t |-> << >>]
                          ELSE LET s == f[m - 1] IN
                               IF s.l = ml \/ s.r = mr THEN s
                               ELSE IF TakesLeft(a[s.l], a[s.r])
                                    THEN [s EXCEPT !.l = @ + 1, !.t = Append(@, a[s.l])]
                                    ELSE [s EXCEPT !.r = @ + 1, !.t = Append(@, a[s.r])]]
           h == CHOOSE f : Is(f)
           X == {s \in TakeStates : Took(a, s.l, s.r, s.t, l, ml, mr)}
           H == [z \in (1..d) \X X |-> TakeStep(a, z[2], ml, mr)]
<1>1. Merged(a, l, ml, mr) = MergedFrom(a, MergedOut(a, h[d], ml, mr), l, mr)
  BY DEF Merged, MergedFrom, MergedOut
<1>2. d \in Nat /\ l \in Int /\ ml \in Int /\ mr \in Int /\ l <= ml /\ ml <= mr
  BY DEF Mergeable
<1>3. s0 \in X
  <2>1. << >> \in Seq(Row) /\ Len(<< >>) = 0
    OBVIOUS
  <2>2. \A q \in l..(mr - 1) : ~ Gone(q, l, ml, ml)
    BY <1>2 DEF Gone
  <2>3. Took(a, l, ml, << >>, l, ml, mr)
    BY <1>2, <2>1, <2>2 DEF Took
  <2>4. s0 \in TakeStates /\ s0.l = l /\ s0.r = ml /\ s0.t = << >>
    BY <1>2, <2>1 DEF TakeStates
  <2>. QED BY <2>3, <2>4
<1>4. \A s \in X : TakeStep(a, s, ml, mr) \in X
  BY TakeStepIs
<1>5. Is(h) => \A m \in 0..d : h[m] = IF m = 0 THEN s0 ELSE TakeStep(a, h[m - 1], ml, mr)
  <2> HIDE DEF h
  <2>. QED BY DEF TakeStep
<1>6. \A g \in [0..d -> X] : (\A m \in 0..d : g[m] = IF m = 0 THEN s0 ELSE TakeStep(a, g[m - 1], ml, mr)) => Is(g)
  <2> SUFFICES ASSUME NEW g \in [0..d -> X], \A m \in 0..d : g[m] = IF m = 0 THEN s0 ELSE TakeStep(a, g[m - 1], ml, mr)
               PROVE  Is(g)
    OBVIOUS
  <2>1. g = [m \in 0..d |-> g[m]]
    <3> HIDE DEF X
    <3>. QED OBVIOUS
  <2>2. g = [m \in 0..d |-> IF m = 0 THEN s0 ELSE TakeStep(a, g[m - 1], ml, mr)]
    BY <2>1
  <2>. QED BY <2>2 DEF TakeStep
<1>7. \A s \in X : s \in TakeStates /\ Took(a, s.l, s.r, s.t, l, ml, mr)
  OBVIOUS
<1>8. H \in [(1..d) \X X -> X] /\ \A m \in 1..d, s \in X : H[<<m, s>>] = TakeStep(a, s, ml, mr)
  <2> HIDE DEF X, d
  <2>. QED BY <1>4
<1> HIDE DEF H, X, s0, d, Is
<1>10. PICK g : g \in [0..d -> X] /\ g[0] = s0 /\ \A m \in 1..d : g[m] = H[<<m, g[m - 1]>>]
  <2>1. \E g : IsTable(d, X, s0, H, g)
    BY <1>2, <1>3, <1>8, Tabled
  <2>. QED BY <2>1 DEF IsTable
<1>11. \A m \in 1..d : g[m] = TakeStep(a, g[m - 1], ml, mr)
  <2>1. \A m \in 1..d : m - 1 \in 0..d
    BY <1>2
  <2>. QED BY <1>8, <1>10, <2>1
<1>12. Is(g)
  <2>1. \A m \in 0..d : m = 0 \/ m \in 1..d
    BY <1>2
  <2>. QED BY <1>6, <1>10, <1>11, <2>1
<1>13. Is(h)
  BY <1>12
<1> HIDE DEF h
<1>14. \A m \in 0..d : h[m] = IF m = 0 THEN s0 ELSE TakeStep(a, h[m - 1], ml, mr)
  BY <1>5, <1>13
<1>15. h[0] = s0 /\ \A m \in 1..d : m \in 0..d /\ m # 0 /\ h[m] = TakeStep(a, h[m - 1], ml, mr)
  BY <1>2, <1>14
<1> DEFINE T == {m \in 0..d : h[m] \in X}
<1>16. 0 \in T
  BY <1>2, <1>3, <1>15
<1>17. ASSUME NEW j \in 0..d, j \in T, j < d PROVE j + 1 \in T
  <2>1. PICK m : m = j + 1
    OBVIOUS
  <2>2. m \in 1..d /\ m - 1 = j /\ m \in 0..d
    BY <1>2, <1>17, <2>1
  <2>3. h[m] = TakeStep(a, h[j], ml, mr) /\ h[j] \in X
    BY <1>15, <1>17, <2>2
  <2>. QED BY <1>4, <2>1, <2>2, <2>3
<1>18. \A m \in 0..d : h[m] \in X
  <2> HIDE DEF T
  <2>1. \A m \in 0..d : m \in T
    BY <1>2, <1>16, <1>17, UpTo
  <2>. QED BY <2>1 DEF T
<1>. QED BY <1>1, <1>7, <1>15, <1>18 DEF d, s0

\* Cells that are rearranged among themselves, into the order of Before
LEMMA StablyWithin ==
    ASSUME NEW n \in Nat, NEW a \in Rows(n), Stably(a, n), NEW c, NEW l \in 1..n, NEW r \in 1..n,
           Shuffled(a, c, n, l, r), \A p, q \in l..r : p < q => Before(c[p], c[q])
    PROVE  Stably(c, n) /\ Ordered(c, l, r)
<1>1. c \in Rows(n) /\ \A p \in 1..n : c[p].key \in Int /\ c[p].place \in Int
  <2>1. c \in Rows(n)
    BY DEF Shuffled
  <2>. QED BY <2>1, RowIs
<1>2. Ordered(c, l, r)
  <2> SUFFICES ASSUME NEW p \in l..r, NEW q \in l..r, p < q
               PROVE  c[p].key <= c[q].key
    BY DEF Ordered
  <2>1. p \in 1..n /\ q \in 1..n /\ Before(c[p], c[q])
    OBVIOUS
  <2>. QED BY <1>1, <2>1 DEF Before
<1>3. Stably(c, n)
  <2> SUFFICES ASSUME NEW p \in 1..n, NEW q \in 1..n, p < q, c[p].key = c[q].key
               PROVE  c[p].place < c[q].place
    BY DEF Stably
  <2>1. CASE p \in l..r /\ q \in l..r
    <3>1. Before(c[p], c[q])
      BY <2>1
    <3>. QED BY <1>1, <3>1 DEF Before
  <2>2. CASE p \notin l..r \/ q \notin l..r
    <3>1. PICK s \in 1..n : c[p] = a[s] /\ (s = p \/ (p \in l..r /\ s \in l..r))
      <4>1. CASE p \in l..r
        <5>1. PICK s \in l..r : c[p] = a[s]
          BY <4>1 DEF Shuffled
        <5>. QED BY <4>1, <5>1
      <4>2. CASE p \notin l..r
        BY <4>2 DEF Shuffled
      <4>. QED BY <4>1, <4>2
    <3>2. PICK t \in 1..n : c[q] = a[t] /\ (t = q \/ (q \in l..r /\ t \in l..r))
      <4>1. CASE q \in l..r
        <5>1. PICK w \in l..r : c[q] = a[w]
          BY <4>1 DEF Shuffled
        <5>. QED BY <4>1, <5>1
      <4>2. CASE q \notin l..r
        BY <4>2 DEF Shuffled
      <4>. QED BY <4>1, <4>2
    <3>3. s < t
      BY <2>2, <3>1, <3>2
    <3>. QED BY <3>1, <3>2, <3>3 DEF Stably
  <2>. QED BY <2>1, <2>2
<1>. QED BY <1>2, <1>3

\* A merge orders the two runs and keeps the order of equals.
LEMMA MergedIs ==
    ASSUME NEW n \in Nat, NEW a, NEW l, NEW ml, NEW mr, Mergeable(a, n, l, ml, mr),
           NEW c, c = Merged(a, l, ml, mr)
    PROVE  Shuffled(a, c, n, l, mr - 1) /\ Stably(c, n) /\ Ordered(c, l, mr - 1)
<1>1. PICK f : /\ f[0] = [l |-> l, r |-> ml, t |-> << >>]
               /\ Merged(a, l, ml, mr) = MergedFrom(a, MergedOut(a, f[mr - l], ml, mr), l, mr)
               /\ \A m \in 1..(mr - l) : f[m] = TakeStep(a, f[m - 1], ml, mr)
               /\ \A m \in 0..(mr - l) :
                     /\ f[m] \in TakeStates
                     /\ Took(a, f[m].l, f[m].r, f[m].t, l, ml, mr)
  BY MergedTable
<1>2. /\ a \in Rows(n) /\ Stably(a, n) /\ l \in 1..n /\ ml \in 1..n /\ mr \in 1..(n + 1) /\ l < ml /\ ml < mr
      /\ \A p, q \in l..(ml - 1) : p < q => a[p].key <= a[q].key
      /\ \A p, q \in ml..(mr - 1) : p < q => a[p].key <= a[q].key
  BY DEF Mergeable, Ordered
<1>3. PICK d : d = mr - l
  OBVIOUS
<1>4. d \in Nat
  BY <1>2, <1>3
<1> DEFINE T == {m \in 0..d : f[m].l = ml \/ f[m].r = mr \/ f[m].l + f[m].r = l + ml + m}
<1>5. 0 \in T
  <2>1. f[0].l = l /\ f[0].r = ml
    BY <1>1
  <2>2. l + ml = l + ml + 0
    BY <1>2
  <2>. QED BY <1>4, <2>1, <2>2
<1>6. ASSUME NEW j \in 0..d, j \in T, j < d PROVE j + 1 \in T
  <2>1. PICK m : m = j + 1
    OBVIOUS
  <2>2. PICK s, u : s = f[j] /\ u = f[m]
    OBVIOUS
  <2>3. m \in 1..d /\ m - 1 = j /\ m \in 0..d
    BY <1>4, <1>6, <2>1
  <2>4. u = TakeStep(a, s, ml, mr) /\ s \in TakeStates /\ Took(a, s.l, s.r, s.t, l, ml, mr)
    BY <1>1, <1>3, <2>2, <2>3
  <2>5. /\ (s.l = ml \/ s.r = mr) => u = s
        /\ s.l # ml /\ s.r # mr => u.l + u.r = s.l + s.r + 1
    BY <2>4, TakeStepIs
  <2>6. s.l = ml \/ s.r = mr \/ s.l + s.r = l + ml + j
    BY <1>6, <2>2
  <2>7. u.l = ml \/ u.r = mr \/ u.l + u.r = l + ml + m
    <3>1. CASE s.l = ml \/ s.r = mr
      BY <2>5, <3>1
    <3>2. CASE ~ (s.l = ml \/ s.r = mr)
      <4>1. u.l + u.r = (l + ml + j) + 1
        BY <2>5, <2>6, <3>2
      <4>2. (l + ml + j) + 1 = l + ml + m
        BY <1>2, <2>1
      <4>. QED BY <4>1, <4>2
    <3>. QED BY <3>1, <3>2
  <2>. QED BY <2>1, <2>2, <2>3, <2>7
<1>7. d \in T
  <2> HIDE DEF T
  <2>1. \A j \in 0..d : j \in T
    BY <1>4, <1>5, <1>6, UpTo
  <2>. QED BY <1>4, <2>1
<1>8. PICK e : e = f[d]
  OBVIOUS
<1>9. PICK L, R, t : L = e.l /\ R = e.r /\ t = e.t
  OBVIOUS
<1>10. e \in TakeStates /\ Took(a, L, R, t, l, ml, mr)
  <2>1. d \in 0..d
    BY <1>4
  <2>. QED BY <1>1, <1>3, <1>8, <1>9, <2>1
<1>11. L \in l..ml /\ R \in ml..mr /\ Len(t) = (L - l) + (R - ml)
  BY <1>10 DEF Took
<1>12. L = ml \/ R = mr
  <2>1. L = ml \/ R = mr \/ L + R = l + ml + d
    BY <1>7, <1>8, <1>9
  <2>. QED BY <1>2, <1>3, <1>11, <2>1
<1>13. PICK out : out = MergedOut(a, e, ml, mr)
  OBVIOUS
<1>14. PICK k : k = Len(t)
  OBVIOUS
<1>15. /\ \A p \in 1..k : out[p] = t[p]
       /\ \A p \in 1..(ml - L) : out[k + p] = a[L + p - 1]
       /\ \A p \in 1..(mr - R) : out[k + (ml - L) + p] = a[R + p - 1]
  <2>1. IsOut(a, t, out, L, R, l, ml, mr)
    BY <1>2, <1>9, <1>10, <1>13, OutIs
  <2>. QED BY <1>14, <2>1 DEF IsOut
<1>16. k \in Nat /\ k = (L - l) + (R - ml) /\ l + k <= mr /\ \A p \in l..(mr - 1) : p \in 1..n
  BY <1>2, <1>11, <1>14
<1>17. c = [p \in 1..n |-> IF p \in l..(mr - 1) THEN out[p - l + 1] ELSE a[p]]
  BY <1>1, <1>2, <1>3, <1>8, <1>13, RowIs DEF MergedFrom
<1>18. PICK B : (B = L /\ R = mr) \/ (B = R /\ L = ml)
  BY <1>12
<1>31. /\ l \in Int /\ ml \in Int /\ mr \in Int /\ L \in Int /\ R \in Int /\ k \in Int /\ B \in Int
       /\ l <= L /\ L <= ml /\ ml <= R /\ R <= mr /\ mr - l - k = (ml - L) + (mr - R)
  <2>1. /\ l \in Int /\ ml \in Int /\ mr \in Int /\ L \in Int /\ R \in Int /\ k \in Int
        /\ l <= L /\ L <= ml /\ ml <= R /\ R <= mr
    BY <1>2, <1>11, <1>16
  <2>2. B \in Int
    BY <1>18, <2>1
  <2>3. mr - l - k = (ml - L) + (mr - R)
    BY <1>16, <2>1
  <2>. QED BY <2>1, <2>2, <2>3
<1>19. ASSUME NEW p \in l..(l + k - 1)
       PROVE  p - l + 1 \in 1..k /\ c[p] = t[p - l + 1]
  <2>1. p - l + 1 \in 1..k /\ p \in l..(mr - 1) /\ p \in 1..n
    BY <1>2, <1>16
  <2>. QED BY <1>15, <1>17, <2>1
<1>20. ASSUME NEW p \in (l + k)..(mr - 1)
       PROVE  /\ B + (p - l - k) \in l..(mr - 1) /\ ~ Gone(B + (p - l - k), L, R, ml)
              /\ c[p] = a[B + (p - l - k)]
  <2>1. p \in l..(mr - 1) /\ p \in 1..n
    BY <1>2, <1>16
  <2>2. c[p] = out[p - l + 1]
    BY <1>17, <2>1
  <2>3. PICK i : i = p - l - k + 1
    OBVIOUS
  <2>4. i \in Int /\ i >= 1 /\ p - l + 1 = k + i /\ B + (p - l - k) = B + i - 1 /\ i <= mr - l - k
    BY <1>2, <1>11, <1>16, <1>18, <2>3
  <2>5. CASE B = L /\ R = mr
    <3>1. i \in 1..(ml - L) /\ B + i - 1 \in l..(mr - 1)
      BY <1>2, <1>11, <1>16, <2>4, <2>5
    <3>2. out[k + i] = a[B + i - 1]
      BY <1>15, <2>5, <3>1
    <3>3. ~ Gone(B + i - 1, L, R, ml)
      BY <1>2, <1>11, <2>5, <3>1 DEF Gone
    <3>. QED BY <2>2, <2>4, <3>1, <3>2, <3>3
  <2>6. CASE B = R /\ L = ml
    <3>1. i \in 1..(mr - R) /\ B + i - 1 \in l..(mr - 1) /\ k + (ml - L) + i = k + i
      BY <1>2, <1>11, <1>16, <2>4, <2>6
    <3>2. out[k + i] = a[B + i - 1]
      BY <1>15, <2>6, <3>1
    <3>3. ~ Gone(B + i - 1, L, R, ml)
      BY <1>2, <1>11, <2>6, <3>1 DEF Gone
    <3>. QED BY <2>2, <2>4, <3>1, <3>2, <3>3
  <2>. QED BY <1>18, <2>5, <2>6
<1>21. ASSUME NEW q \in l..(mr - 1), ~ Gone(q, L, R, ml)
       PROVE  \E p \in l..(mr - 1) : c[p] = a[q]
  <2>1. PICK p : p = (q - B) + (l + k)
    OBVIOUS
  <2>2. q \in B..(B + (mr - 1 - l - k))
    <3>1. CASE B = L /\ R = mr
      BY <1>21, <1>31, <3>1 DEF Gone
    <3>2. CASE B = R /\ L = ml
      BY <1>21, <1>31, <3>2 DEF Gone
    <3>. QED BY <1>18, <3>1, <3>2
  <2>3. p \in (l + k)..(mr - 1) /\ B + (p - l - k) = q /\ p \in l..(mr - 1)
    <3>1. q \in Int /\ B <= q /\ q <= B + (mr - 1 - l - k)
      BY <1>31, <2>2
    <3>2. l + k <= p /\ p <= mr - 1 /\ B + (p - l - k) = q /\ l <= p
      BY <1>16, <1>31, <2>1, <3>1
    <3>. QED BY <1>31, <2>1, <3>1, <3>2
  <2>. QED BY <1>20, <2>3
<1>22. \A p \in l..(mr - 1) : p \in l..(l + k - 1) \/ p \in (l + k)..(mr - 1)
  BY <1>2, <1>16
<1>23. ASSUME NEW p \in l..(mr - 1) PROVE \E q \in l..(mr - 1) : c[p] = a[q]
  <2>1. CASE p \in l..(l + k - 1)
    <3>1. PICK q \in l..(mr - 1) : t[p - l + 1] = a[q]
      BY <1>10, <1>14, <1>19, <2>1 DEF Took
    <3>. QED BY <1>19, <2>1, <3>1
  <2>2. CASE p \in (l + k)..(mr - 1)
    BY <1>20, <2>2
  <2>. QED BY <1>22, <2>1, <2>2
<1>24. ASSUME NEW q \in l..(mr - 1) PROVE \E p \in l..(mr - 1) : a[q] = c[p]
  <2>1. CASE Gone(q, L, R, ml)
    <3>1. PICK i \in 1..k : t[i] = a[q]
      BY <1>10, <1>14, <2>1 DEF Took
    <3>2. PICK p : p = i + l - 1
      OBVIOUS
    <3>3. p \in l..(l + k - 1) /\ p - l + 1 = i /\ p \in l..(mr - 1)
      BY <1>2, <1>16, <3>2
    <3>. QED BY <1>19, <3>1, <3>3
  <2>2. CASE ~ Gone(q, L, R, ml)
    BY <1>21, <2>2
  <2>. QED BY <2>1, <2>2
<1>25. c \in Rows(n) /\ \A p \in 1..n : p \notin l..(mr - 1) => c[p] = a[p]
  <2>1. \A p \in 1..n : p \notin l..(mr - 1) => c[p] = a[p]
    BY <1>17
  <2>2. \A p \in 1..n : c[p] \in [key : Int, place : Int]
    <3> SUFFICES ASSUME NEW p \in 1..n PROVE c[p] \in [key : Int, place : Int]
      OBVIOUS
    <3>1. PICK q \in 1..n : c[p] = a[q]
      BY <1>16, <1>23, <2>1
    <3>. QED BY <1>2, <3>1 DEF Rows
  <2>3. c = [p \in 1..n |-> c[p]]
    BY <1>17
  <2>4. c \in [1..n -> [key : Int, place : Int]]
    BY <2>2, <2>3
  <2>. QED BY <2>1, <2>4 DEF Rows
<1>26. Shuffled(a, c, n, l, mr - 1)
  BY <1>23, <1>24, <1>25 DEF Shuffled
<1>27. ASSUME NEW p \in l..(mr - 1), NEW q \in l..(mr - 1), p < q
       PROVE  Before(c[p], c[q])
  <2>1. CASE p \in l..(l + k - 1) /\ q \in l..(l + k - 1)
    <3>1. p - l + 1 < q - l + 1
      BY <1>2, <1>27
    <3>2. Before(t[p - l + 1], t[q - l + 1])
      BY <1>10, <1>14, <1>19, <2>1, <3>1 DEF Took
    <3>. QED BY <1>19, <2>1, <3>2
  <2>2. CASE p \in l..(l + k - 1) /\ q \in (l + k)..(mr - 1)
    <3>1. PICK s \in l..(mr - 1) : ~ Gone(s, L, R, ml) /\ c[q] = a[s]
      BY <1>20, <2>2
    <3>2. Before(t[p - l + 1], a[s])
      BY <1>10, <1>14, <1>19, <2>2, <3>1 DEF Took
    <3>. QED BY <1>19, <2>2, <3>1, <3>2
  <2>3. CASE p \in (l + k)..(mr - 1) /\ q \in (l + k)..(mr - 1)
    <3>1. PICK s, u : s = B + (p - l - k) /\ u = B + (q - l - k)
      OBVIOUS
    <3>2. /\ s \in l..(mr - 1) /\ u \in l..(mr - 1) /\ ~ Gone(s, L, R, ml) /\ ~ Gone(u, L, R, ml)
          /\ c[p] = a[s] /\ c[q] = a[u]
      BY <1>20, <2>3, <3>1
    <3>3. s < u /\ s \in 1..n /\ u \in 1..n
      BY <1>16, <1>27, <1>31, <3>1, <3>2
    <3>4. (s \in l..(ml - 1) /\ u \in l..(ml - 1)) \/ (s \in ml..(mr - 1) /\ u \in ml..(mr - 1))
      <4>1. CASE B = L /\ R = mr
        BY <1>31, <3>2, <4>1 DEF Gone
      <4>2. CASE B = R /\ L = ml
        BY <1>31, <3>2, <4>2 DEF Gone
      <4>. QED BY <1>18, <4>1, <4>2
    <3>5. a[s].key <= a[u].key
      BY <1>2, <3>3, <3>4
    <3>. QED BY <1>2, <3>2, <3>3, <3>5, StablyBefore
  <2>4. ~ (p \in (l + k)..(mr - 1) /\ q \in l..(l + k - 1))
    BY <1>2, <1>16, <1>27
  <2>. QED BY <1>22, <2>1, <2>2, <2>3, <2>4
<1>28. PICK r : r = mr - 1
  OBVIOUS
<1>29. r \in 1..n
  BY <1>2, <1>28
<1>30. Stably(c, n) /\ Ordered(c, l, r)
  BY <1>2, <1>26, <1>27, <1>28, <1>29, StablyWithin
<1>. QED BY <1>26, <1>28, <1>30

\* The cells where the runs of length i start
Starts(i) == {k * i + 1 : k \in Nat}

\* The places where runs of length i start are i apart, and each second starts one of 2i.
LEMMA StartsAre ==
    ASSUME NEW i \in Nat, i # 0
    PROVE  /\ 1 \in Starts(i) /\ \A x \in Starts(i) : x \in Nat /\ x >= 1 /\ x + i \in Starts(i)
           /\ \A x, y \in Starts(i) : x < y => x + i <= y
           /\ \A x \in Starts(i + i) : x \in Starts(i)
<1>1. 1 \in Starts(i)
  <2>1. 1 = 0 * i + 1
    OBVIOUS
  <2>. QED BY <2>1 DEF Starts
<1>2. ASSUME NEW x \in Starts(i) PROVE x \in Nat /\ x >= 1 /\ x + i \in Starts(i)
  <2>1. PICK k \in Nat : x = k * i + 1
    BY DEF Starts
  <2>2. PICK m : m = k * i
    OBVIOUS
  <2>3. m \in Nat
    BY <2>2
  <2>4. k + 1 \in Nat /\ (k + 1) * i + 1 = (m + 1) + i
    BY <2>2, <2>3
  <2>5. x + i = (k + 1) * i + 1
    BY <2>1, <2>2, <2>4
  <2>. QED BY <2>1, <2>2, <2>3, <2>4, <2>5 DEF Starts
<1>3. ASSUME NEW x \in Starts(i), NEW y \in Starts(i), x < y PROVE x + i <= y
  <2>1. PICK k \in Nat : x = k * i + 1
    BY DEF Starts
  <2>2. PICK m \in Nat : y = m * i + 1
    BY DEF Starts
  <2>3. k * i < m * i
    <3>1. PICK u, v : u = k * i /\ v = m * i
      OBVIOUS
    <3>2. u \in Int /\ v \in Int
      BY <3>1
    <3>. QED BY <1>3, <2>1, <2>2, <3>1, <3>2
  <2>4. k < m
    <3>1. SUFFICES ASSUME m <= k PROVE FALSE
      OBVIOUS
    <3>2. PICK w : w = k - m
      OBVIOUS
    <3>3. w \in Nat /\ k = m + w
      BY <3>1, <3>2
    <3>4. k * i = m * i + w * i /\ w * i >= 0
      BY <3>3
    <3>. QED BY <2>3, <3>3, <3>4
  <2>5. PICK w : w = m - k - 1
    OBVIOUS
  <2>6. w \in Nat /\ m = k + 1 + w
    BY <2>4, <2>5
  <2>7. m * i = k * i + i + w * i /\ w * i >= 0
    BY <2>6
  <2>8. PICK u, v, z : u = k * i /\ v = m * i /\ z = w * i
    OBVIOUS
  <2>9. u \in Int /\ v \in Int /\ z \in Int /\ v = u + i + z /\ z >= 0
    BY <2>6, <2>7, <2>8
  <2>. QED BY <2>1, <2>2, <2>8, <2>9
<1>4. ASSUME NEW x \in Starts(i + i) PROVE x \in Starts(i)
  <2>1. PICK k \in Nat : x = k * (i + i) + 1
    BY DEF Starts
  <2>2. k + k \in Nat /\ k * (i + i) = (k + k) * i
    OBVIOUS
  <2>. QED BY <2>1, <2>2 DEF Starts
<1>. QED BY <1>1, <1>2, <1>3, <1>4

\* The run of length i at x is in order.
RunAt(a, n, x, i) == \A p, q \in 1..n : x <= p /\ p < q /\ q < x + i => a[p].key <= a[q].key

RunsOf(a, n, i) == \A x \in Starts(i) : RunAt(a, n, x, i)

Capped(n, p) == IF p > n + 1 THEN n + 1 ELSE p

RoundStep(n, s, i) ==
    IF s.l + i > n THEN s
    ELSE [arr |-> Merged(s.arr, s.l, s.l + i, Capped(n, s.l + i + i)), l |-> Capped(n, s.l + i + i)]

\* The runs before l have been merged.
MergedBelow(a, c, l, n, i) ==
    /\ l \in 1..(n + 1) /\ (l \in Starts(i + i) \/ l = n + 1)
    /\ Shuffled(a, c, n, 1, n) /\ Stably(c, n)
    /\ \A p \in 1..n : p >= l => c[p] = a[p]
    /\ \A x \in Starts(i + i) : x < l => RunAt(c, n, x, i + i)

RoundStates(n) == [arr : Rows(n), l : Int]

\* A merge within a round makes the part of merged runs longer (sort.c:81-97).
LEMMA RoundStepIs ==
    ASSUME NEW n \in Nat, NEW a \in Rows(n), NEW i \in Nat, i # 0, RunsOf(a, n, i),
           NEW s \in RoundStates(n), MergedBelow(a, s.arr, s.l, n, i),
           NEW u, u = RoundStep(n, s, i)
    PROVE  /\ u \in RoundStates(n) /\ MergedBelow(a, u.arr, u.l, n, i)
           /\ s.l + i > n => u = s
           /\ ~ (s.l + i > n) => u.l > s.l
<1>1. CASE s.l + i > n
  BY <1>1 DEF RoundStep
<1>2. CASE ~ (s.l + i > n)
  <2>1. PICK c, l, ml, mr : c = s.arr /\ l = s.l /\ ml = l + i /\ mr = Capped(n, l + i + i)
    OBVIOUS
  <2>2. PICK d : d = Merged(c, l, ml, mr)
    OBVIOUS
  <2>3. u = [arr |-> d, l |-> mr]
    BY <1>2, <2>1, <2>2 DEF RoundStep
  <2>4. /\ l \in 1..(n + 1) /\ (l \in Starts(i + i) \/ l = n + 1)
        /\ Shuffled(a, c, n, 1, n) /\ Stably(c, n)
        /\ \A p \in 1..n : p >= l => c[p] = a[p]
        /\ \A x \in Starts(i + i) : x < l => RunAt(c, n, x, i + i)
    BY <2>1 DEF MergedBelow
  <2>5. l + i <= n /\ l \in 1..n /\ ml \in 1..n /\ l < ml
    BY <1>2, <2>1, <2>4
  <2>6. /\ mr \in 1..(n + 1) /\ ml < mr /\ mr <= l + (i + i) /\ (mr = l + (i + i) \/ mr = n + 1)
    BY <2>1, <2>5 DEF Capped
  <2>7. l \in Starts(i + i) /\ l \in Starts(i) /\ ml \in Starts(i)
    <3>1. l \in Starts(i + i)
      BY <2>4, <2>5
    <3>2. l \in Starts(i)
      BY <3>1, StartsAre
    <3>. QED BY <2>1, <3>1, <3>2, StartsAre
  <2>8. c \in Rows(n)
    BY <2>4 DEF Shuffled
  <2>9. Ordered(c, l, ml - 1)
    <3> SUFFICES ASSUME NEW p \in l..(ml - 1), NEW q \in l..(ml - 1), p < q
                 PROVE  c[p].key <= c[q].key
      BY DEF Ordered
    <3>1. p \in 1..n /\ q \in 1..n /\ l <= p /\ l <= q /\ q < l + i
      BY <2>1, <2>5
    <3>2. RunAt(a, n, l, i)
      BY <2>7 DEF RunsOf
    <3>3. a[p].key <= a[q].key
      BY <3>1, <3>2 DEF RunAt
    <3>. QED BY <2>4, <3>1, <3>3
  <2>10. Ordered(c, ml, mr - 1)
    <3> SUFFICES ASSUME NEW p \in ml..(mr - 1), NEW q \in ml..(mr - 1), p < q
                 PROVE  c[p].key <= c[q].key
      BY DEF Ordered
    <3>1. p \in 1..n /\ q \in 1..n /\ ml <= p /\ q < ml + i /\ p >= l /\ q >= l
      BY <2>1, <2>5, <2>6
    <3>2. RunAt(a, n, ml, i)
      BY <2>7 DEF RunsOf
    <3>3. a[p].key <= a[q].key
      BY <3>1, <3>2 DEF RunAt
    <3>. QED BY <2>4, <3>1, <3>3
  <2>11. Mergeable(c, n, l, ml, mr)
    BY <2>4, <2>5, <2>6, <2>8, <2>9, <2>10 DEF Mergeable
  <2>12. Shuffled(c, d, n, l, mr - 1) /\ Stably(d, n) /\ Ordered(d, l, mr - 1)
    BY <2>2, <2>11, MergedIs
  <2>13. d \in Rows(n) /\ \A p \in 1..n : p \notin l..(mr - 1) => d[p] = c[p]
    BY <2>12 DEF Shuffled
  <2>14. Shuffled(a, d, n, 1, n)
    <3>1. PICK r : r = mr - 1
      OBVIOUS
    <3>2. l \in Int /\ r \in Int /\ 1 \in Int /\ n \in Int /\ 1 <= 1 /\ 1 <= l /\ r <= n /\ n <= n
      BY <2>5, <2>6, <3>1
    <3>3. Shuffled(c, d, n, 1, n)
      BY <2>12, <3>1, <3>2, ShuffledWider
    <3>. QED BY <2>4, <3>3, ShuffledTwice
  <2>15. \A p \in 1..n : p >= mr => d[p] = a[p]
    <3> SUFFICES ASSUME NEW p \in 1..n, p >= mr PROVE d[p] = a[p]
      OBVIOUS
    <3>1. p \notin l..(mr - 1) /\ p >= l
      BY <2>5, <2>6
    <3>. QED BY <2>4, <2>13, <3>1
  <2>16. mr \in Starts(i + i) \/ mr = n + 1
    <3>1. i + i \in Nat /\ i + i # 0
      OBVIOUS
    <3>2. l + (i + i) \in Starts(i + i)
      BY <2>7, <3>1, StartsAre
    <3>. QED BY <2>6, <3>2
  <2>17. ASSUME NEW x \in Starts(i + i), x < mr PROVE RunAt(d, n, x, i + i)
    <3> SUFFICES ASSUME NEW p \in 1..n, NEW q \in 1..n, x <= p, p < q, q < x + (i + i)
                 PROVE  d[p].key <= d[q].key
      BY DEF RunAt
    <3>1. i + i \in Nat /\ i + i # 0
      OBVIOUS
    <3>2. x \in Nat /\ (x < l => x + (i + i) <= l) /\ (l < x => l + (i + i) <= x)
      BY <2>7, <3>1, StartsAre
    <3>3. CASE x < l
      <4>1. p \notin l..(mr - 1) /\ q \notin l..(mr - 1)
        BY <2>5, <2>6, <3>2, <3>3
      <4>2. RunAt(c, n, x, i + i)
        BY <2>4, <3>3
      <4>3. c[p].key <= c[q].key
        BY <4>2 DEF RunAt
      <4>. QED BY <2>13, <4>1, <4>3
    <3>4. CASE x = l
      <4>1. p \in l..(mr - 1) /\ q \in l..(mr - 1)
        BY <2>5, <2>6, <3>4
      <4>. QED BY <2>12, <4>1 DEF Ordered
    <3>5. ~ (l < x)
      BY <2>5, <2>6, <2>17, <3>2
    <3>. QED BY <2>5, <3>2, <3>3, <3>4, <3>5
  <2>18. MergedBelow(a, d, mr, n, i)
    BY <2>6, <2>12, <2>14, <2>15, <2>16, <2>17 DEF MergedBelow
  <2>19. u \in RoundStates(n) /\ u.arr = d /\ u.l = mr /\ mr > l
    BY <2>3, <2>5, <2>6, <2>13 DEF RoundStates
  <2>. QED BY <1>2, <2>1, <2>18, <2>19
<1>. QED BY <1>1, <1>2

\* A round is the table of its merges, each with the invariant.
LEMMA MergeRoundTable ==
    ASSUME NEW n \in Nat, NEW a \in Rows(n), Stably(a, n), NEW i \in Nat, i # 0, RunsOf(a, n, i)
    PROVE  \E f : /\ f[0] = [arr |-> a, l |-> 1] /\ MergeRound(a, i) = f[n].arr
                  /\ \A m \in 1..n : f[m] = RoundStep(n, f[m - 1], i)
                  /\ \A m \in 0..n : f[m] \in RoundStates(n) /\ MergedBelow(a, f[m].arr, f[m].l, n, i)
<1> DEFINE s0 == [arr |-> a, l |-> 1]
           Is(f) == f = [m \in 0..Len(a) |->
                          IF m = 0 THEN [arr |-> a, l |-> 1]
                          ELSE LET s == f[m - 1] IN
                               IF s.l + i > Len(a) THEN s
                               ELSE [arr |-> Merged(s.arr, s.l, s.l + i,
                                                    IF s.l + i + i > Len(a) + 1 THEN Len(a) + 1 ELSE s.l + i + i),
                                     l |-> IF s.l + i + i > Len(a) + 1 THEN Len(a) + 1 ELSE s.l + i + i]]
           h == CHOOSE f : Is(f)
           X == {s \in RoundStates(n) : MergedBelow(a, s.arr, s.l, n, i)}
           H == [z \in (1..n) \X X |-> RoundStep(n, z[2], i)]
<1>1. MergeRound(a, i) = h[Len(a)].arr
  BY DEF MergeRound
<1>2. Len(a) = n
  BY RowIs
<1>3. s0 \in X
  <2>1. i + i \in Nat /\ i + i # 0
    OBVIOUS
  <2>2. 1 \in Starts(i + i) /\ \A x \in Starts(i + i) : x \in Nat /\ x >= 1
    BY <2>1, StartsAre
  <2>3. \A x \in Starts(i + i) : ~ (x < 1)
    BY <2>2
  <2>4. MergedBelow(a, a, 1, n, i)
    BY <2>2, <2>3, ShuffledSelf DEF MergedBelow
  <2>5. s0 \in RoundStates(n) /\ s0.arr = a /\ s0.l = 1
    BY DEF RoundStates
  <2>. QED BY <2>4, <2>5
<1>4. \A s \in X : RoundStep(n, s, i) \in X
  BY RoundStepIs
<1>5. Is(h) => \A m \in 0..n : h[m] = IF m = 0 THEN s0 ELSE RoundStep(n, h[m - 1], i)
  <2> HIDE DEF h
  <2>. QED BY <1>2 DEF RoundStep, Capped
<1>6. \A g \in [0..n -> X] : (\A m \in 0..n : g[m] = IF m = 0 THEN s0 ELSE RoundStep(n, g[m - 1], i)) => Is(g)
  <2> SUFFICES ASSUME NEW g \in [0..n -> X], \A m \in 0..n : g[m] = IF m = 0 THEN s0 ELSE RoundStep(n, g[m - 1], i)
               PROVE  Is(g)
    OBVIOUS
  <2>1. g = [m \in 0..n |-> g[m]]
    <3> HIDE DEF X
    <3>. QED OBVIOUS
  <2>2. g = [m \in 0..n |-> IF m = 0 THEN s0 ELSE RoundStep(n, g[m - 1], i)]
    BY <2>1
  <2>. QED BY <1>2, <2>2 DEF RoundStep, Capped
<1>7. \A s \in X : s \in RoundStates(n) /\ MergedBelow(a, s.arr, s.l, n, i)
  OBVIOUS
<1>8. H \in [(1..n) \X X -> X] /\ \A m \in 1..n, s \in X : H[<<m, s>>] = RoundStep(n, s, i)
  <2> HIDE DEF X
  <2>. QED BY <1>4
<1> HIDE DEF H, X, s0, Is
<1>10. PICK g : g \in [0..n -> X] /\ g[0] = s0 /\ \A m \in 1..n : g[m] = H[<<m, g[m - 1]>>]
  <2>1. \E g : IsTable(n, X, s0, H, g)
    BY <1>3, <1>8, Tabled
  <2>. QED BY <2>1 DEF IsTable
<1>11. \A m \in 1..n : g[m] = RoundStep(n, g[m - 1], i)
  <2>1. \A m \in 1..n : m - 1 \in 0..n
    OBVIOUS
  <2>. QED BY <1>8, <1>10, <2>1
<1>12. Is(g)
  <2>1. \A m \in 0..n : m = 0 \/ m \in 1..n
    OBVIOUS
  <2>. QED BY <1>6, <1>10, <1>11, <2>1
<1>13. Is(h)
  BY <1>12
<1> HIDE DEF h
<1>14. \A m \in 0..n : h[m] = IF m = 0 THEN s0 ELSE RoundStep(n, h[m - 1], i)
  BY <1>5, <1>13
<1>15. h[0] = s0 /\ \A m \in 1..n : m \in 0..n /\ m # 0 /\ h[m] = RoundStep(n, h[m - 1], i)
  BY <1>14
<1> DEFINE T == {m \in 0..n : h[m] \in X}
<1>16. 0 \in T
  BY <1>3, <1>15
<1>17. ASSUME NEW j \in 0..n, j \in T, j < n PROVE j + 1 \in T
  <2>1. PICK m : m = j + 1
    OBVIOUS
  <2>2. m \in 1..n /\ m - 1 = j /\ m \in 0..n
    BY <1>17, <2>1
  <2>3. h[m] = RoundStep(n, h[j], i) /\ h[j] \in X
    BY <1>15, <1>17, <2>2
  <2>. QED BY <1>4, <2>1, <2>2, <2>3
<1>18. \A m \in 0..n : h[m] \in X
  <2> HIDE DEF T
  <2>1. \A m \in 0..n : m \in T
    BY <1>16, <1>17, UpTo
  <2>. QED BY <2>1 DEF T
<1>. QED BY <1>1, <1>2, <1>7, <1>15, <1>18 DEF s0

\* A round makes runs of twice the length.
LEMMA MergeRoundIs ==
    ASSUME NEW n \in Nat, NEW a \in Rows(n), Stably(a, n), NEW i \in Nat, i # 0, RunsOf(a, n, i)
    PROVE  /\ Shuffled(a, MergeRound(a, i), n, 1, n) /\ Stably(MergeRound(a, i), n)
           /\ RunsOf(MergeRound(a, i), n, i + i)
<1>1. PICK f : /\ f[0] = [arr |-> a, l |-> 1] /\ MergeRound(a, i) = f[n].arr
               /\ \A m \in 1..n : f[m] = RoundStep(n, f[m - 1], i)
               /\ \A m \in 0..n : f[m] \in RoundStates(n) /\ MergedBelow(a, f[m].arr, f[m].l, n, i)
  BY MergeRoundTable
<1> DEFINE T == {m \in 0..n : f[m].l + i > n \/ f[m].l > m}
<1>2. 0 \in T
  BY <1>1
<1>3. ASSUME NEW j \in 0..n, j \in T, j < n PROVE j + 1 \in T
  <2>1. PICK m : m = j + 1
    OBVIOUS
  <2>2. PICK s, u : s = f[j] /\ u = f[m]
    OBVIOUS
  <2>3. m \in 1..n /\ m - 1 = j /\ m \in 0..n
    BY <1>3, <2>1
  <2>4. /\ u = RoundStep(n, s, i) /\ s \in RoundStates(n) /\ MergedBelow(a, s.arr, s.l, n, i)
        /\ u \in RoundStates(n)
    BY <1>1, <2>2, <2>3
  <2>5. /\ s.l + i > n => u = s
        /\ ~ (s.l + i > n) => u.l > s.l
    BY <2>4, RoundStepIs
  <2>6. s.l \in Int /\ u.l \in Int /\ (s.l + i > n \/ s.l > j)
    BY <1>3, <2>2, <2>4 DEF RoundStates
  <2>7. u.l + i > n \/ u.l > m
    <3>1. CASE s.l + i > n
      BY <2>5, <3>1
    <3>2. CASE ~ (s.l + i > n)
      BY <2>1, <2>5, <2>6, <3>2
    <3>. QED BY <3>1, <3>2
  <2>. QED BY <2>1, <2>2, <2>3, <2>7
<1>4. n \in T
  <2> HIDE DEF T
  <2>1. \A j \in 0..n : j \in T
    BY <1>2, <1>3, UpTo
  <2>. QED BY <2>1
<1>5. PICK c, l : c = f[n].arr /\ l = f[n].l
  OBVIOUS
<1>6. MergedBelow(a, c, l, n, i)
  <2>1. n \in 0..n
    OBVIOUS
  <2>. QED BY <1>1, <1>5, <2>1
<1>7. /\ l \in 1..(n + 1) /\ (l \in Starts(i + i) \/ l = n + 1)
      /\ Shuffled(a, c, n, 1, n) /\ Stably(c, n)
      /\ \A p \in 1..n : p >= l => c[p] = a[p]
      /\ \A x \in Starts(i + i) : x < l => RunAt(c, n, x, i + i)
  BY <1>6 DEF MergedBelow
<1>8. l + i > n
  <2>1. l + i > n \/ l > n
    BY <1>4, <1>5
  <2>. QED BY <1>7, <2>1
<1>9. ASSUME NEW x \in Starts(i + i) PROVE RunAt(c, n, x, i + i)
  <2>1. CASE x < l
    BY <1>7, <2>1
  <2>2. CASE ~ (x < l)
    <3> SUFFICES ASSUME NEW p \in 1..n, NEW q \in 1..n, x <= p, p < q, q < x + (i + i)
                 PROVE  c[p].key <= c[q].key
      BY DEF RunAt
    <3>1. i + i \in Nat /\ i + i # 0
      OBVIOUS
    <3>2. x \in Nat
      BY <3>1, StartsAre
    <3>3. l <= n /\ p >= l /\ q >= l
      BY <1>7, <2>2, <3>2
    <3>4. l \in Starts(i + i)
      BY <1>7, <3>3
    <3>5. x = l
      <4>1. l < x => l + (i + i) <= x
        BY <3>1, <3>4, StartsAre
      <4>. QED BY <1>7, <1>8, <2>2, <3>2, <4>1
    <3>6. l \in Starts(i)
      BY <3>4, StartsAre
    <3>7. a[p].key <= a[q].key
      <4>1. RunAt(a, n, l, i)
        BY <3>6 DEF RunsOf
      <4>2. l <= p /\ q < l + i
        BY <1>7, <1>8, <3>3
      <4>. QED BY <4>1, <4>2 DEF RunAt
    <3>. QED BY <1>7, <3>3, <3>7
  <2>. QED BY <2>1, <2>2
<1>10. RunsOf(c, n, i + i)
  BY <1>9 DEF RunsOf
<1>. QED BY <1>1, <1>5, <1>7, <1>10

MergeStep(n, s) == IF s.i >= n THEN s ELSE [arr |-> MergeRound(s.arr, s.i), i |-> s.i + s.i]

MergesStates(n) == [arr : Rows(n), i : Nat]

InRuns(a, c, n, i) == i # 0 /\ Shuffled(a, c, n, 1, n) /\ Stably(c, n) /\ RunsOf(c, n, i)

\* A round of merge_sort makes the runs twice as long (sort.c:79).
LEMMA MergeStepIs ==
    ASSUME NEW n \in Nat, NEW a, NEW s \in MergesStates(n), InRuns(a, s.arr, n, s.i),
           NEW u, u = MergeStep(n, s)
    PROVE  /\ u \in MergesStates(n) /\ InRuns(a, u.arr, n, u.i)
           /\ s.i >= n => u = s
           /\ ~ (s.i >= n) => u.i > s.i
<1>1. CASE s.i >= n
  BY <1>1 DEF MergeStep
<1>2. CASE ~ (s.i >= n)
  <2>1. PICK c, i, d : c = s.arr /\ i = s.i /\ d = MergeRound(c, i)
    OBVIOUS
  <2>2. /\ c \in Rows(n) /\ i \in Nat /\ i # 0
        /\ Shuffled(a, c, n, 1, n) /\ Stably(c, n) /\ RunsOf(c, n, i)
    BY <2>1 DEF InRuns, MergesStates
  <2>3. Shuffled(c, d, n, 1, n) /\ Stably(d, n) /\ RunsOf(d, n, i + i)
    BY <2>1, <2>2, MergeRoundIs
  <2>4. Shuffled(a, d, n, 1, n)
    BY <2>2, <2>3, ShuffledTwice
  <2>5. i + i \in Nat /\ i + i # 0 /\ i + i > i
    BY <2>2
  <2>6. InRuns(a, d, n, i + i)
    BY <2>3, <2>4, <2>5 DEF InRuns
  <2>7. u = [arr |-> d, i |-> i + i]
    BY <1>2, <2>1 DEF MergeStep
  <2>8. d \in Rows(n)
    BY <2>3 DEF Shuffled
  <2>9. u \in MergesStates(n) /\ u.arr = d /\ u.i = i + i
    BY <2>5, <2>7, <2>8 DEF MergesStates
  <2>. QED BY <1>2, <2>1, <2>5, <2>6, <2>9
<1>. QED BY <1>1, <1>2

\* merge_sort is the table of its rounds, each with the invariant.
LEMMA MergeSortTable ==
    ASSUME NEW n \in Nat, NEW a \in Rows(n), Stably(a, n)
    PROVE  \E f : /\ f[0] = [arr |-> a, i |-> 1] /\ MergeSort(a) = f[n].arr
                  /\ \A m \in 1..n : f[m] = MergeStep(n, f[m - 1])
                  /\ \A m \in 0..n : f[m] \in MergesStates(n) /\ InRuns(a, f[m].arr, n, f[m].i)
<1> DEFINE s0 == [arr |-> a, i |-> 1]
           Is(f) == f = [m \in 0..Len(a) |->
                          IF m = 0 THEN [arr |-> a, i |-> 1]
                          ELSE LET s == f[m - 1] IN
                               IF s.i >= Len(a) THEN s ELSE [arr |-> MergeRound(s.arr, s.i), i |-> s.i + s.i]]
           h == CHOOSE f : Is(f)
           X == {s \in MergesStates(n) : InRuns(a, s.arr, n, s.i)}
           H == [z \in (1..n) \X X |-> MergeStep(n, z[2])]
<1>1. MergeSort(a) = h[Len(a)].arr
  BY DEF MergeSort
<1>2. Len(a) = n
  BY RowIs
<1>3. s0 \in X
  <2>1. RunsOf(a, n, 1)
    <3> SUFFICES ASSUME NEW x \in Starts(1), NEW p \in 1..n, NEW q \in 1..n, x <= p, p < q, q < x + 1
                 PROVE  FALSE
      BY DEF RunsOf, RunAt
    <3>1. x \in Nat
      BY StartsAre
    <3>. QED BY <3>1
  <2>2. InRuns(a, a, n, 1)
    BY <2>1, ShuffledSelf DEF InRuns
  <2>3. s0 \in MergesStates(n) /\ s0.arr = a /\ s0.i = 1
    BY DEF MergesStates
  <2>. QED BY <2>2, <2>3
<1>4. \A s \in X : MergeStep(n, s) \in X
  BY MergeStepIs
<1>5. Is(h) => \A m \in 0..n : h[m] = IF m = 0 THEN s0 ELSE MergeStep(n, h[m - 1])
  <2> HIDE DEF h
  <2>. QED BY <1>2 DEF MergeStep
<1>6. \A g \in [0..n -> X] : (\A m \in 0..n : g[m] = IF m = 0 THEN s0 ELSE MergeStep(n, g[m - 1])) => Is(g)
  <2> SUFFICES ASSUME NEW g \in [0..n -> X], \A m \in 0..n : g[m] = IF m = 0 THEN s0 ELSE MergeStep(n, g[m - 1])
               PROVE  Is(g)
    OBVIOUS
  <2>1. g = [m \in 0..n |-> g[m]]
    <3> HIDE DEF X
    <3>. QED OBVIOUS
  <2>2. g = [m \in 0..n |-> IF m = 0 THEN s0 ELSE MergeStep(n, g[m - 1])]
    BY <2>1
  <2>. QED BY <1>2, <2>2 DEF MergeStep
<1>7. \A s \in X : s \in MergesStates(n) /\ InRuns(a, s.arr, n, s.i)
  OBVIOUS
<1>8. H \in [(1..n) \X X -> X] /\ \A m \in 1..n, s \in X : H[<<m, s>>] = MergeStep(n, s)
  <2> HIDE DEF X
  <2>. QED BY <1>4
<1> HIDE DEF H, X, s0, Is
<1>10. PICK g : g \in [0..n -> X] /\ g[0] = s0 /\ \A m \in 1..n : g[m] = H[<<m, g[m - 1]>>]
  <2>1. \E g : IsTable(n, X, s0, H, g)
    BY <1>3, <1>8, Tabled
  <2>. QED BY <2>1 DEF IsTable
<1>11. \A m \in 1..n : g[m] = MergeStep(n, g[m - 1])
  <2>1. \A m \in 1..n : m - 1 \in 0..n
    OBVIOUS
  <2>. QED BY <1>8, <1>10, <2>1
<1>12. Is(g)
  <2>1. \A m \in 0..n : m = 0 \/ m \in 1..n
    OBVIOUS
  <2>. QED BY <1>6, <1>10, <1>11, <2>1
<1>13. Is(h)
  BY <1>12
<1> HIDE DEF h
<1>14. \A m \in 0..n : h[m] = IF m = 0 THEN s0 ELSE MergeStep(n, h[m - 1])
  BY <1>5, <1>13
<1>15. h[0] = s0 /\ \A m \in 1..n : m \in 0..n /\ m # 0 /\ h[m] = MergeStep(n, h[m - 1])
  BY <1>14
<1> DEFINE T == {m \in 0..n : h[m] \in X}
<1>16. 0 \in T
  BY <1>3, <1>15
<1>17. ASSUME NEW j \in 0..n, j \in T, j < n PROVE j + 1 \in T
  <2>1. PICK m : m = j + 1
    OBVIOUS
  <2>2. m \in 1..n /\ m - 1 = j /\ m \in 0..n
    BY <1>17, <2>1
  <2>3. h[m] = MergeStep(n, h[j]) /\ h[j] \in X
    BY <1>15, <1>17, <2>2
  <2>. QED BY <1>4, <2>1, <2>2, <2>3
<1>18. \A m \in 0..n : h[m] \in X
  <2> HIDE DEF T
  <2>1. \A m \in 0..n : m \in T
    BY <1>16, <1>17, UpTo
  <2>. QED BY <2>1 DEF T
<1>. QED BY <1>1, <1>2, <1>7, <1>15, <1>18 DEF s0

\* merge_sort sorts and keeps the order of equals.
LEMMA MergeSorts ==
    ASSUME NEW n \in Nat, NEW a \in Rows(n), Stably(a, n)
    PROVE  Shuffled(a, MergeSort(a), n, 1, n) /\ Stably(MergeSort(a), n) /\ Ordered(MergeSort(a), 1, n)
<1>1. PICK f : /\ f[0] = [arr |-> a, i |-> 1] /\ MergeSort(a) = f[n].arr
               /\ \A m \in 1..n : f[m] = MergeStep(n, f[m - 1])
               /\ \A m \in 0..n : f[m] \in MergesStates(n) /\ InRuns(a, f[m].arr, n, f[m].i)
  BY MergeSortTable
<1> DEFINE T == {m \in 0..n : f[m].i >= n \/ f[m].i > m}
<1>2. 0 \in T
  BY <1>1
<1>3. ASSUME NEW j \in 0..n, j \in T, j < n PROVE j + 1 \in T
  <2>1. PICK m : m = j + 1
    OBVIOUS
  <2>2. PICK s, u : s = f[j] /\ u = f[m]
    OBVIOUS
  <2>3. m \in 1..n /\ m - 1 = j /\ m \in 0..n
    BY <1>3, <2>1
  <2>4. /\ u = MergeStep(n, s) /\ s \in MergesStates(n) /\ InRuns(a, s.arr, n, s.i)
        /\ u \in MergesStates(n)
    BY <1>1, <2>2, <2>3
  <2>5. /\ s.i >= n => u = s
        /\ ~ (s.i >= n) => u.i > s.i
    BY <2>4, MergeStepIs
  <2>6. s.i \in Nat /\ u.i \in Nat /\ (s.i >= n \/ s.i > j)
    BY <1>3, <2>2, <2>4 DEF MergesStates
  <2>7. u.i >= n \/ u.i > m
    <3>1. CASE s.i >= n
      BY <2>5, <3>1
    <3>2. CASE ~ (s.i >= n)
      BY <2>1, <2>5, <2>6, <3>2
    <3>. QED BY <3>1, <3>2
  <2>. QED BY <2>1, <2>2, <2>3, <2>7
<1>4. n \in T
  <2> HIDE DEF T
  <2>1. \A j \in 0..n : j \in T
    BY <1>2, <1>3, UpTo
  <2>. QED BY <2>1
<1>5. PICK c, i : c = f[n].arr /\ i = f[n].i
  OBVIOUS
<1>6. f[n] \in MergesStates(n) /\ InRuns(a, c, n, i)
  <2>1. n \in 0..n
    OBVIOUS
  <2>. QED BY <1>1, <1>5, <2>1
<1>7. i \in Nat /\ i # 0 /\ Shuffled(a, c, n, 1, n) /\ Stably(c, n) /\ RunsOf(c, n, i)
  BY <1>5, <1>6 DEF InRuns, MergesStates
<1>8. i >= n
  <2>1. i >= n \/ i > n
    BY <1>4, <1>5
  <2>. QED BY <1>7, <2>1
<1>9. Ordered(c, 1, n)
  <2>1. RunAt(c, n, 1, i)
    <3>1. 1 \in Starts(i)
      BY <1>7, StartsAre
    <3>. QED BY <1>7, <3>1 DEF RunsOf
  <2>2. \A q \in 1..n : q < 1 + i
    BY <1>7, <1>8
  <2>. QED BY <2>1, <2>2 DEF RunAt, Ordered
<1>. QED BY <1>1, <1>5, <1>7, <1>9

-----------------------------------------------------------------------------
(* The specification *)

Labelled(in) == [i \in 1..Len(in) |-> [key |-> in[i], place |-> i]]

\* What a sort makes of in
SortedWell(in, b, name) ==
    /\ Len(b) = Len(in)
    /\ {b[i].place : i \in 1..Len(b)} = 1..Len(in)
    /\ \A i \in 1..Len(b) : b[i].key = in[b[i].place]
    /\ \A i \in 1..(Len(b) - 1) :
          /\ ~ Above(b[i], b[i + 1])
          /\ name \in Stable /\ b[i].key = b[i + 1].key => b[i].place < b[i + 1].place

IsInput(in) == in \in Seq(Int)

\* The array before the call: every value with its place
LEMMA LabelledIs ==
    ASSUME NEW in, IsInput(in)
    PROVE  Labelled(in) \in Rows(Len(in)) /\ Stably(Labelled(in), Len(in)) /\ Len(in) \in Nat
<1>1. Len(in) \in Nat /\ \A i \in 1..Len(in) : in[i] \in Int
  BY DEF IsInput
<1>2. PICK n, a : n = Len(in) /\ a = Labelled(in)
  OBVIOUS
<1>3. a = [i \in 1..n |-> [key |-> in[i], place |-> i]]
  BY <1>2 DEF Labelled
<1>4. a \in Rows(n)
  BY <1>1, <1>2, <1>3 DEF Rows
<1>5. \A i \in 1..n : a[i].place = i
  BY <1>3
<1>6. Stably(a, n)
  BY <1>5 DEF Stably
<1>. QED BY <1>1, <1>2, <1>4, <1>6

\* A shuffle of the input that is ordered is what SortsStably asks for.
LEMMA SortedIs ==
    ASSUME NEW in, IsInput(in), NEW b, NEW name,
           Shuffled(Labelled(in), b, Len(in), 1, Len(in)), Ordered(b, 1, Len(in)),
           name \in Stable => Stably(b, Len(in))
    PROVE  SortedWell(in, b, name)
<1>1. PICK n, a : n = Len(in) /\ a = Labelled(in)
  OBVIOUS
<1>2. n \in Nat /\ a \in Rows(n)
  BY <1>1, LabelledIs
<1>3. /\ b \in Rows(n)
      /\ \A p \in 1..n : \E q \in 1..n : b[p] = a[q]
      /\ \A p \in 1..n : \E q \in 1..n : a[p] = b[q]
  BY <1>1 DEF Shuffled
<1>4. Len(b) = n /\ \A p \in 1..n : b[p].key \in Int /\ b[p].place \in Int
  BY <1>2, <1>3, RowIs
<1>5. \A i \in 1..n : a[i].key = in[i] /\ a[i].place = i
  BY <1>1 DEF Labelled
<1>6. ASSUME NEW i \in 1..n PROVE b[i].place \in 1..n /\ b[i].key = in[b[i].place]
  <2>1. PICK q \in 1..n : b[i] = a[q]
    BY <1>3
  <2>2. a[q].key = in[q] /\ a[q].place = q
    BY <1>5
  <2>. QED BY <2>1, <2>2
<1>7. ASSUME NEW i \in 1..n PROVE \E p \in 1..n : b[p].place = i
  <2>1. PICK p \in 1..n : a[i] = b[p]
    BY <1>3
  <2>2. a[i].place = i
    BY <1>5
  <2>. QED BY <2>1, <2>2
<1>8. {b[i].place : i \in 1..n} = 1..n
  BY <1>6, <1>7
<1>9. ASSUME NEW i \in 1..(n - 1)
      PROVE  /\ ~ Above(b[i], b[i + 1])
             /\ name \in Stable /\ b[i].key = b[i + 1].key => b[i].place < b[i + 1].place
  <2>1. i \in 1..n /\ i + 1 \in 1..n /\ i < i + 1
    BY <1>2
  <2>2. b[i].key <= b[i + 1].key
    BY <1>1, <2>1 DEF Ordered
  <2>3. ~ Above(b[i], b[i + 1])
    BY <1>4, <2>1, <2>2 DEF Above
  <2>4. ASSUME name \in Stable, b[i].key = b[i + 1].key PROVE b[i].place < b[i + 1].place
    <3>1. Stably(b, n)
      BY <1>1, <2>4
    <3>. QED BY <2>1, <2>4, <3>1 DEF Stably
  <2>. QED BY <2>3, <2>4
<1>. QED BY <1>1, <1>4, <1>6, <1>8, <1>9 DEF SortedWell

SortInv ==
    /\ IsInput(input)
    /\ algorithm = "none" => sorted = Labelled(input)
    /\ SortsStably

\* The invariant holds before a call.
LEMMA SortInvInit ==
    SortInit => SortInv
<1> SUFFICES ASSUME SortInit
             PROVE  SortInv
  OBVIOUS
<1>1. PICK n \in 0..MaxSize : input \in [1..n -> SortKeys]
  BY DEF SortInit
<1>2. IsInput(input)
  <2>1. n \in Nat
    BY SortAssumption
  <2>2. input \in [1..n -> Int]
    BY <1>1, SortAssumption
  <2>3. input \in Seq(Int)
    BY <2>1, <2>2, SeqIs
  <2>. QED BY <2>3 DEF IsInput
<1>3. sorted = Labelled(input) /\ algorithm = "none"
  BY DEF SortInit, Labelled
<1>4. SortsStably
  BY <1>3 DEF SortsStably
<1>. QED BY <1>2, <1>3, <1>4 DEF SortInv

\* What the call of a sort that gives b does to the invariant
LEMMA CallSorts ==
    ASSUME NEW name, name # "none", NEW b, SortInv, SortWith(name, b),
           Shuffled(Labelled(input), b, Len(input), 1, Len(input)), Ordered(b, 1, Len(input)),
           name \in Stable => Stably(b, Len(input))
    PROVE  SortInv'
<1>1. input' = input /\ sorted' = b /\ algorithm' = name /\ IsInput(input)
  BY DEF SortWith, SortInv
<1>2. PICK in : in = input
  OBVIOUS
<1>3. SortedWell(in, b, name)
  <2>1. IsInput(in) /\ Shuffled(Labelled(in), b, Len(in), 1, Len(in)) /\ Ordered(b, 1, Len(in))
    BY <1>1, <1>2
  <2>2. name \in Stable => Stably(b, Len(in))
    BY <1>2
  <2>. QED BY <2>1, <2>2, SortedIs
<1>4. SortsStably'
  BY <1>1, <1>2, <1>3 DEF SortsStably, SortedWell
<1>. QED BY <1>1, <1>4 DEF SortInv

\* Every sort keeps the invariant.
LEMMA SortInvNext ==
    SortInv /\ [SortNext]_sortVars => SortInv'
<1> SUFFICES ASSUME SortInv, [SortNext]_sortVars
             PROVE  SortInv'
  OBVIOUS
<1>1. CASE UNCHANGED sortVars
  BY <1>1 DEF SortInv, SortsStably, sortVars
<1>2. ASSUME NEW name, NEW b, SortWith(name, b) PROVE algorithm = "none" /\ sorted = Labelled(input)
  BY <1>2 DEF SortWith, SortInv
<1>3. PICK n, a : n = Len(input) /\ a = Labelled(input)
  OBVIOUS
<1>4. n \in Nat /\ a \in Rows(n) /\ Stably(a, n)
  <2>1. IsInput(input)
    BY DEF SortInv
  <2>. QED BY <1>3, <2>1, LabelledIs
<1>5. CASE SortWith("bubble_sort", BubbleSort(sorted))
  <2>1. PICK b : b = BubbleSort(sorted)
    OBVIOUS
  <2>2. sorted = a
    BY <1>2, <1>3, <1>5
  <2>3. Shuffled(a, b, n, 1, n) /\ Ordered(b, 1, n) /\ Stably(b, n)
    BY <1>4, <2>1, <2>2, BubbleSorts DEF Rearranged
  <2>. QED BY <1>3, <1>5, <2>1, <2>3, CallSorts
<1>6. CASE SortWith("select_sort", SelectSort(sorted))
  <2>1. PICK b : b = SelectSort(sorted)
    OBVIOUS
  <2>2. sorted = a
    BY <1>2, <1>3, <1>6
  <2>3. Shuffled(a, b, n, 1, n) /\ Ordered(b, 1, n)
    BY <1>4, <2>1, <2>2, SelectSorts
  <2>4. "select_sort" \notin Stable
    BY DEF Stable
  <2>. QED BY <1>3, <1>6, <2>1, <2>3, <2>4, CallSorts
<1>7. CASE SortWith("insert_sort", InsertSort(sorted))
  <2>1. PICK b : b = InsertSort(sorted)
    OBVIOUS
  <2>2. sorted = a
    BY <1>2, <1>3, <1>7
  <2>3. Shuffled(a, b, n, 1, n) /\ Ordered(b, 1, n) /\ Stably(b, n)
    BY <1>4, <2>1, <2>2, InsertSorts DEF Rearranged
  <2>. QED BY <1>3, <1>7, <2>1, <2>3, CallSorts
<1>8. CASE SortWith("quick_sort", QuickSort(sorted))
  <2>1. PICK b : b = QuickSort(sorted)
    OBVIOUS
  <2>2. sorted = a
    BY <1>2, <1>3, <1>8
  <2>3. Shuffled(a, b, n, 1, n) /\ Ordered(b, 1, n)
    BY <1>4, <2>1, <2>2, QuickSorts
  <2>4. "quick_sort" \notin Stable
    BY DEF Stable
  <2>. QED BY <1>3, <1>8, <2>1, <2>3, <2>4, CallSorts
<1>9. CASE SortWith("merge_sort", MergeSort(sorted))
  <2>1. PICK b : b = MergeSort(sorted)
    OBVIOUS
  <2>2. sorted = a
    BY <1>2, <1>3, <1>9
  <2>3. Shuffled(a, b, n, 1, n) /\ Ordered(b, 1, n) /\ Stably(b, n)
    BY <1>4, <2>1, <2>2, MergeSorts
  <2>. QED BY <1>3, <1>9, <2>1, <2>3, CallSorts
<1>10. CASE SortWith("sort", Sort(sorted))
  <2>1. PICK b : b = Sort(sorted)
    OBVIOUS
  <2>2. sorted = a
    BY <1>2, <1>3, <1>10
  <2>3. b = MergeSort(a) \/ b = InsertSort(a)
    BY <2>1, <2>2 DEF Sort
  <2>4. Shuffled(a, b, n, 1, n) /\ Ordered(b, 1, n) /\ Stably(b, n)
    <3>1. Shuffled(a, MergeSort(a), n, 1, n) /\ Stably(MergeSort(a), n) /\ Ordered(MergeSort(a), 1, n)
      BY <1>4, MergeSorts
    <3>2. Shuffled(a, InsertSort(a), n, 1, n) /\ Stably(InsertSort(a), n) /\ Ordered(InsertSort(a), 1, n)
      BY <1>4, InsertSorts DEF Rearranged
    <3>. QED BY <2>3, <3>1, <3>2
  <2>. QED BY <1>3, <1>10, <2>1, <2>4, CallSorts
<1>. QED BY <1>1, <1>5, <1>6, <1>7, <1>8, <1>9, <1>10 DEF SortNext

\* Each of the six sorts of src/src/sort.c puts the values of its array, each
\* once, in ascending order of their keys, and bubble_sort, insert_sort,
\* merge_sort and sort keep the order of equal ones: for arrays of any length,
\* whatever the keys and the threshold of sort.
THEOREM EverySortSorts ==
    SortSpec => []SortsStably
<1>1. SortInv => SortsStably
  BY DEF SortInv
<1>. QED BY SortInvInit, SortInvNext, <1>1, PTL DEF SortSpec

=============================================================================
