----------------------------- MODULE MemStorage -----------------------------
(* The memory debugger of src/tlang/tmemory.c in its DEBUG build and the     *)
(* storages of src/tlang/tstorage.c on top of it.  Every block carries a     *)
(* header in front, linked into the list of all blocks, and a mark behind;   *)
(* a storage hands out cells of pages that are such blocks and gives back    *)
(* only whole pages.  An allocation that fails ends the program              *)
(* (MEM_FAIL_AND_EXIT), so every allocation here succeeds.                   *)
EXTENDS Integers, Sequences, FiniteSets

CONSTANTS
    Addrs,      \* what malloc can return
    Sizes,      \* the sizes, in cells, a client asks for
    Storages,   \* the storages of the program
    PageSize,   \* current_page_size of every storage
    NULL

ASSUME NullAssumption == NULL \notin Addrs \cup Storages
ASSUME SizesAssumption == Sizes \subseteq Nat \ {0} /\ PageSize \in Nat \ {0}

VARIABLES
    blocks,         \* live address -> HeaderStruct, with the offset of the mark behind
    block_header,   \* the first block of the list
    stores,         \* storage -> its block and its page_list
    pages,          \* live page -> MemoryPage
    cells,          \* page -> the runs of cells handed out of it, in their order
    disposing       \* the storage whose pages are being freed

blockVars == <<blocks, block_header>>
storeVars == <<stores, pages, cells, disposing>>
memVars == <<blocks, block_header, stores, pages, cells, disposing>>

Live == DOMAIN blocks
Pointer == Addrs \cup {NULL}
Header == [size : Nat, mark : Nat, prev : Pointer, next : Pointer]
Closed == [block |-> NULL, page_list |-> NULL]

WithNext(bs, a, v) == IF a = NULL THEN bs ELSE [bs EXCEPT ![a].next = v]
WithPrev(bs, a, v) == IF a = NULL THEN bs ELSE [bs EXCEPT ![a].prev = v]

With(bs, a, h) == [b \in DOMAIN bs \cup {a} |-> IF b = a THEN h ELSE bs[b]]
Without(bs, a) == [b \in DOMAIN bs \ {a} |-> bs[b]]

(* set_header and set_tail of a block of this size *)
Marked(size, prev, next) == [size |-> size, mark |-> size, prev |-> prev, next |-> next]

ChainBlock(a, size) ==
    /\ blocks' = With(WithPrev(blocks, block_header, a), a, Marked(size, NULL, block_header))
    /\ block_header' = a

(* The neighbours of a let go of it: the blocks, and the list's header *)
Unchained(a) == WithPrev(WithNext(blocks, blocks[a].prev, blocks[a].next),
                         blocks[a].next, blocks[a].prev)
HeaderWithout(a) == IF blocks[a].prev = NULL THEN blocks[a].next ELSE block_header

FreeBlock(a) ==
    /\ blocks' = Without(Unchained(a), a)
    /\ block_header' = HeaderWithout(a)

\* A moved block's right neighbour keeps its old address.
RechainedNextOnly(bs, b) == WithNext(bs, bs[b].prev, b)

(* rechain_block: old_header, copied to where the block is now, still names   *)
(* the neighbours, and they are led back to it                                *)
Rechained(bs, b) == WithPrev(WithNext(bs, bs[b].prev, b), bs[b].next, b)

Resized(old, size) == Marked(size, old.prev, old.next)

ReallocBlock(a, b, size) ==
    LET moved == With(Without(Unchained(a), a), b, Resized(blocks[a], size)) IN
    /\ blocks' = Rechained(moved, b)
    /\ block_header' = IF blocks[a].prev = NULL THEN b ELSE HeaderWithout(a)

StoreBlocks == {stores[st].block : st \in Storages} \ {NULL}
Clients == Live \ (StoreBlocks \cup DOMAIN pages)

-----------------------------------------------------------------------------

MemInit ==
    /\ blocks = [a \in {} |-> NULL]
    /\ block_header = NULL
    /\ stores = [st \in Storages |-> Closed]
    /\ pages = [a \in {} |-> NULL]
    /\ cells = [a \in {} |-> NULL]
    /\ disposing = NULL

Idle == disposing = NULL

Malloc(a, size) ==
    /\ Idle /\ a \notin Live
    /\ ChainBlock(a, size)
    /\ UNCHANGED storeVars

(* The block stays where it is, or moves to an address that is free *)
Realloc(a, b, size) ==
    /\ Idle /\ a \in Clients /\ b \notin Live \ {a}
    /\ ReallocBlock(a, b, size)
    /\ UNCHANGED storeVars

Free(a) ==
    /\ Idle /\ a \in Clients
    /\ FreeBlock(a)
    /\ UNCHANGED storeVars

OpenStorage(st, a) ==
    /\ Idle /\ stores[st] = Closed /\ a \notin Live
    /\ ChainBlock(a, 1)
    /\ stores' = [stores EXCEPT ![st].block = a]
    /\ UNCHANGED <<pages, cells, disposing>>

Run(first, num) == [first |-> first, num |-> num]

\* A page with a cell left takes any request.
FitsOneCell(page, num) == page # NULL /\ pages[page].use_cell_num < pages[page].cell_num

(* The comparison is strict: the last cell of a page is used only by a        *)
(* request that gets a page of its own                                        *)
Fits(page, num) == page # NULL /\ pages[page].use_cell_num + num < pages[page].cell_num

UsePage(st, num) ==
    LET page == stores[st].page_list IN
    /\ Idle /\ stores[st] # Closed
    /\ Fits(page, num)
    /\ cells' = [cells EXCEPT ![page] = Append(@, Run(pages[page].use_cell_num, num))]
    /\ pages' = [pages EXCEPT ![page].use_cell_num = @ + num]
    /\ UNCHANGED <<blocks, block_header, stores, disposing>>

PageCells(num) == IF num > PageSize THEN num ELSE PageSize

NewPage(st, num) ==
    [cell_num |-> PageCells(num), use_cell_num |-> num, next |-> stores[st].page_list]

AddPage(st, num, a) ==
    /\ Idle /\ stores[st] # Closed /\ a \notin Live
    /\ ~ Fits(stores[st].page_list, num)
    /\ ChainBlock(a, PageCells(num))
    /\ pages' = With(pages, a, NewPage(st, num))
    /\ stores' = [stores EXCEPT ![st].page_list = a]
    /\ cells' = With(cells, a, <<Run(0, num)>>)
    /\ UNCHANGED disposing

Dispose(st) ==
    /\ Idle /\ stores[st] # Closed
    /\ disposing' = st
    /\ UNCHANGED <<blocks, block_header, stores, pages, cells>>

DisposePage(st) ==
    LET page == stores[st].page_list IN
    /\ disposing = st /\ page # NULL
    /\ FreeBlock(page)
    /\ stores' = [stores EXCEPT ![st].page_list = pages[page].next]
    /\ pages' = Without(pages, page)
    /\ cells' = Without(cells, page)
    /\ UNCHANGED disposing

DisposeEnds(st) ==
    /\ disposing = st /\ stores[st].page_list = NULL
    /\ FreeBlock(stores[st].block)
    /\ stores' = [stores EXCEPT ![st] = Closed]
    /\ disposing' = NULL
    /\ UNCHANGED <<pages, cells>>

MemNext ==
    \/ \E a \in Addrs, size \in Sizes : Malloc(a, size)
    \/ \E a \in Addrs, b \in Addrs, size \in Sizes : Realloc(a, b, size)
    \/ \E a \in Addrs : Free(a)
    \/ \E st \in Storages, a \in Addrs : OpenStorage(st, a)
    \/ \E st \in Storages, num \in Sizes : UsePage(st, num)
    \/ \E st \in Storages, num \in Sizes, a \in Addrs : AddPage(st, num, a)
    \/ \E st \in Storages : Dispose(st) \/ DisposePage(st) \/ DisposeEnds(st)

MemSpec == MemInit /\ [][MemNext]_memVars

-----------------------------------------------------------------------------

(* The types of the variables, a part of BlockListExact. *)
MemTypeOK ==
    /\ Live \subseteq Addrs
    /\ blocks \in [Live -> Header]
    /\ block_header \in Pointer
    /\ stores \in [Storages -> [block : Pointer, page_list : Pointer]]
    /\ DOMAIN pages \subseteq Addrs
    /\ pages \in [DOMAIN pages -> [cell_num : Nat, use_cell_num : Nat, next : Pointer]]
    /\ cells \in [DOMAIN pages -> Seq([first : Nat, num : Nat])]
    /\ disposing \in Storages \cup {NULL}

(* s is the list that MEM_dump_blocks and MEM_check_all_blocks walk *)
Lists(s, n) ==
    /\ block_header = IF n = 0 THEN NULL ELSE s[1]
    /\ \A a \in Live : \E i \in 1..n : s[i] = a
    /\ \A i, j \in 1..n : s[i] = s[j] => i = j
    /\ \A i \in 1..n :
          /\ blocks[s[i]].next = IF i = n THEN NULL ELSE s[i + 1]
          /\ blocks[s[i]].prev = IF i = 1 THEN NULL ELSE s[i - 1]
          /\ blocks[s[i]].mark = blocks[s[i]].size

(* Through every malloc, free and realloc, moved or not, the list from        *)
(* block_header goes over each live block once, both ways, and check_mark     *)
(* finds the mark where it was written: a leak dump misses nothing and walks  *)
(* no freed header (chain_block, rechain_block and unchain_block).            *)
BlockListExact ==
    /\ MemTypeOK
    /\ \E s \in [1..Cardinality(Live) -> Live] : Lists(s, Cardinality(Live))

(* The pages from a storage's page_list on *)
PagesOf(st) ==
    LET chain[n \in 0..Cardinality(DOMAIN pages)] ==
          IF n = 0 THEN {stores[st].page_list} \ {NULL}
                   ELSE chain[n - 1] \cup ({pages[p].next : p \in chain[n - 1]} \ {NULL})
    IN  chain[Cardinality(DOMAIN pages)]

(* Two allocations from storages share no cell, and each lies within a block  *)
(* that is live, as MEM_storage_malloc_func promises its callers, which keep  *)
(* syntax trees in them until the storage is disposed of; and every page hangs *)
(* on the page_list of just one storage, so disposing of the storages one     *)
(* after another frees every page, once (MEM_dispose_storage).                *)
CellsDisjoint ==
    /\ \A p \in DOMAIN cells : \A i \in 1..Len(cells[p]) :
          LET run == cells[p][i] IN
          /\ p \in Live
          /\ run.first + run.num <= blocks[p].size
          /\ \A j \in 1..Len(cells[p]) : i < j => run.first + run.num <= cells[p][j].first
    /\ \A p \in DOMAIN pages : \E st \in Storages :
          \A other \in Storages : p \in PagesOf(other) <=> other = st

=============================================================================
