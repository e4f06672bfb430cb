# Formal models of c-algorithm

The repository holds a small C library of containers and algorithms (`src/src/`,
`src/include/`) and a crowbar interpreter built on it (`src/tlang/`). This directory
has TLA+ modules that model the parts where the state is shared, counted,
collected or unwound; TLC configurations that check them on small instances; and
TLAPS proofs, for every size of the system, of what matters most about the reference-counted arrays and the
accounting of their memory, the deque, the red-black tree, the skip list, control transfer and jumps through loops, the collector and its roots, the memory
debugger, strings, the folding of constants, the variables of a program and its source on the way to the interpreter. Everything is translated
from the source at the lines `PROJECT.json` "map" gives.

Paths below are those of `PROJECT.json`: `src/` is the repository's root, so the library
is `src/src/array.c` and so on.

## 1. Inventory

| Component | Code | State | Operations | What makes it correct |
|---|---|---|---|---|
| arrays, slices | `src/src/array.c`, `include/array_tpl.h` | capacity, reference count, cells; window `pos`, `len` | open, reopen, assign, close, get, set; slice open/by array/by slice, append, insert, pop, grow | counts = holders; windows inside allocated blocks; growth isolates |
| deque | `src/src/deque.c` | ring array, `front`, `back` | push/pop/peek at both ends, get, set, grow | it is a double-ended queue; never full between calls |
| stack, heap, lists | `stack.c`, `heap.c`, `link.c` | slice / array / nodes | push, pop; sift; traversal | sequential data structures |
| red-black tree | `rbtree.c`, `rbtree_tpl.h` | nodes, colours, one shared sentinel leaf | get, set, pop, walk | order, colours, black height |
| skip list | `skiplist.c` | levelled links | get, set, remove, range | every level a sublist of the one below |
| sorting, searching | `sort.c`, `algorithm.c` | none | pure functions | sorted permutation |
| crowbar objects and collector | `tlang/theap.c` | object list, mark bits, `current_heap_size`, threshold | allocate, mark, sweep | nothing reachable is freed; the size tells the truth |
| expression evaluator | `tlang/teval.c` | evaluation stack, local environments, C variables | one function per expression | values on the stack are those of the functions in progress |
| statements | `tlang/texecute.c` | `StatementResult`, recovery environment | one function per statement | try/catch/finally, foreach and return unwind exactly |
| run-time errors | `tlang/terror.c` | `current_exception` | create an exception, `longjmp` | the innermost handler gets it |
| interpreter, import | `tlang/tinterpreter.c` | modules, current interpreter state | interpret, import, report an uncaught exception | state restored however a module ends |
| loops and labels | `tlang/texecute.c` | result of the last statement | while, for, foreach, if, elif, break, continue | a jump reaches the loop it names, through everything between |
| operators, constant folding | `tlang/teval.c`, `tcode.c` | expressions half parsed | operators on values; folding of literals | a folded expression means what it meant |
| native functions | `tlang/tnative.c` | per-environment list of objects in use | arrays, strings, files, exceptions | new objects stay rooted while the native runs |
| names | `tlang/tmisc.c` | variables, functions, modules by name | add, search, assign | the ways to look a name up agree; finals keep their value |
| text of values | `tlang/tmisc.c` | record of the objects being written | `CRB_value_to_string` | ends on cycles; each object is written once |
| memory debugger, storage | `tlang/tmemory.c`, `tstorage.c` | doubly linked block list; page list | malloc, realloc, free; bump allocation | list intact through realloc; cells disjoint |
| lexer input, parser, tree | `tlexer.c`, `tlang.y`, `tlang.l`, `tcode.c`, `tobject.c` | input mode, the tree | file / string / interactive input | each character once |
| strings | `wstring.c` | a length and the address of a text | open, format, copy, clear, compare, close | a text has one owner; none is released twice |
| messages, debug, tests | `twchar.c`, `terror_message.c`, `tdebug.c`, `buildin.c`, `test/` | text | formatting, tables | |

How they interact. A crowbar array object owns one `CRB_Value` slice, and several objects share an
array (`arr[i:j]`). `theap.c` adds the arrays to `current_heap_size`, which
triggers `crb_garbage_collect` from `alloc_object` and `CRB_add_assoc_member`. The
evaluator calls these at almost every node of the tree, so a collection can happen in the
middle of any expression, while C functions hold objects that are no roots. Errors leave the C recursion
by `longjmp` through `inter->current_recovery_environment`; each function that saved it has to
restore it, and its stack pointer and environment, on each way out. `import` runs a
whole new interpretation inside a statement.

There are no threads, no persistence and no network. What is hard is: sharing with counts,
ring arithmetic, collections at unforeseen moments, and non-local control flow. The
hazards are listed at their lines in `PROJECT.json`.

## 2. Modules

**`Slice`** (core). `arr` is the heap of `struct array`, `sli` the slices, `handle` the
caller's `ARRAY*` variables. An address with `ref = 0` is not allocated, so a freed block can be
handed out again: stale use would be seen. Each C function is an action of the same name.
`slice_grow` is `Grown`, used by `SliceAppend` and `SliceInsert` as the code calls it. A failed
`assert` or allocation has no successor. Both `slice_insert`'s move, which starts at the window's first
cell rather than at the index, and the new cells' junk contents are as in the code.
`array_tpl.h` is the same code as a macro; definitions are mapped to either file.

**`CrbArrays`** extends `Slice` with `size`, the share of `heap.current_heap_size` arrays
account for. An action composes the slice operation with the
accounting around it (`record_slice_state`/`check_slice_state`, `gc_dispose_object`).
The slice bounds test of `eval_array_slice_expression` (which adds the offset twice)
and the index that `array.pop` overwrites are modelled as they are.

**`Arrays_proofs`**: theorems about `Slice`, and about `CrbArrays` on top of them (section 5).

**`DequeSpec`**, **`Deque`**: the promise of a double-ended queue as an abstract
specification, and `deque.c`'s ring, with `Contents` as the refinement mapping of its cells.

**`Deque_proofs`**: theorems about `Deque` (section 5).

**`SetSpec`**, **`RBTree`**: an ordered container's promise, and `rbtree.c`. A node is named by its key, as
values never move between nodes; `tree.node` is the memory, freed nodes included, so a stale pointer
would be followed where it leads. The two repair loops are actions of one iteration each (`RecolorUp`, `RotateUp`;
`PopUp`, `PopBorrow`), written once for both sides; the code has each twice, mirrored.

**`RBTree_proofs`**: theorems about `RBTree` (section 5).

**`CrbExec`**: control transfer. `frames` has one record per active C function that saves
something (`main`, `show`, `module`, `call`, `try`, `foreach`) with what it saved. `rec` is the frame whose `jmp_buf` is current, `jump` a
`longjmp` on its way, `sp`, `env` and `exc` the stack pointer, the number of local
environments, and the pending exception. The statements a program executes are the
environment's choice, with their conditions abstracted. Lists of statements that end early by return, break or continue have
`res = "left"`. `setjmp`'s second return is the `Land…` actions. `out` in a try frame is the
`StatementResult` kept while finally runs; without a catch block, the code lets whatever was there stand.
A run-time error is one step (`Raise`): since its class is never found (section 6), no constructor runs. An import that does not
compile has the error reported by `do_compile` itself, which empties the evaluation stack, and goes on with the statements there are, if any
(`Compiled`, `Import`). `ImportAnywhere` says whether modules are imported inside functions too, where that stack is not empty.

**`CrbExec_proofs`**: theorems about `CrbExec` (section 5).

**`CrbRoots`**: the collector against the evaluator. `heap` holds objects with a kind and
a set of references; `ctl` is the C stack of evaluator functions, each with the place it is at and
`held`, the object it has in a C variable. Each allocation (`Alloc`) and each new member
(`MemberStored`) may collect first, from `Roots`. Actions split exactly where the code calls
`eval_expression`, an allocation or a statement list, since only there can other code run. An
operation that reads a held object requires it to be alive: what happens otherwise is undefined.

**`CrbRoots_proofs`**: theorems about `CrbRoots` (section 5).

**`CrbLoops`**: loops, branches and labels. `ctl` is the C stack of the functions of `texecute.c` and the
calls between them, `result` the `StatementResult` of the innermost call, `aim` the loop or call the last jump was
meant for, noted when the jump is executed. The three loops differ in the step after the body only. Two things the code does are kept: an
elif that ran to its end does not stop the search of further elifs, and a `continue` that names an outer loop does not leave the inner
one, whose next round overwrites the pending result.

**`CrbNames`**: names. Every variable has an address in `variables`; `global_vars` has the table of each module, `frames` the frames of
scope chains, `contexts` the calls and modules in progress, each with the references a `global` statement made. The searches of `tmisc.c`
are operators of the same order, and assignment, definition, `global`, closures, calls, imports and unwinding are actions.

**`CrbInput`**: the three input functions of the scanner, `do_compile`, and `CRB_interpret` over the growing list of statements, in file and in
interactive mode, after the built-in script. A text is a sequence of characters of which four kinds matter: newline, one no token starts with, one
that makes a folded constant fail, and any other.

**`CrbValues`**: what each operator computes for each pair of types, or raises; assignment operators; and the parser's folding of literals. `written` has
an expression as in the source, `built` as the parser made it, and `Meanings` is the table of what each can result in. Integers are of the width `LongMax` gives, wrap at it, and the least divided by -1 ends the
program.

**`CrbText`**: `CRB_value_to_string` on a graph of objects, with the record by which it cuts cycles.

**`MemStorage`**: the memory debugger's blocks, doubly linked through their headers, with the mark behind each, and the
storages on top. `MEM_realloc` may return the block moved or not; then its neighbours are relinked. A page is such a block, and `cells` has what
was handed out of it.

**`OrderedSpec`**, **`SkipList`**: what an ordered list promises, with or without a second comparison, and `skiplist.c` with a
next pointer per level; a node gets any height. The loops along a level and down the levels are recursive functions (`Advance`, `Descent`),
and so is the one of `skiplist_range` (`Collect`); the operations that only read are operators, which a property evaluates in every state.

**`SkipList_proofs`**: theorems about `SkipList` (section 5).

**`Heap`**: `heap.c`; both ways of sifting are recursive functions over the cells of a path. **`LinkedList`**: `llist` with each kind of allocator, and
`dllist`. **`Sorting`**: the six sorts of `sort.c` as functions on sequences; a loop is the table of its states, `_quick_sort` a recursive
function over its calls. **`CStrings`**: `WSTRING` and `STRING`, a program's blocks of text and who owns them.

**`Library_proofs`**: theorems about `MemStorage`, `Heap`, `LinkedList` and `Sorting`. **`Parts_proofs`**: theorems about `CStrings`,
`CrbLoops`, `CrbInput`, `CrbNames` and `CrbValues` (section 5).

**`MCSlice`, `MCCrbArrays`**: symmetry sets for TLC. **`MCCrbRoots`**: the same, and two sorts of programs with bounds of their
own. **`MCParts`**: the modules from `CrbLoops` to `CStrings` that share no state. `part` is chosen at the start, and only that part takes steps; so one
run explores each completely, and none is combined with another.

How the modules compose. `CrbArrays` is `Slice` with the accounting around it. `RBTree`, `Deque` and `SkipList` implement `SetSpec`, `DequeSpec` and
`OrderedSpec`. `CrbExec`, `CrbLoops` and `CrbRoots` are three views of one C stack: who restores what after a `longjmp`, where a
statement's result goes, which objects a collection finds. The first leaves out loops, the second exceptions, the third what a
condition is.

## 3. What the runs check

| Run | Bounds | Properties and what they show |
|---|---|---|
| `slice` | 2 slices, 2 variables, 2 addresses, capacity 3, 1 value and junk | `TypeOK`; `RefCountsHolders`: counts are exact; `WindowInArray`: no window over freed memory; `OwnViewIsASequence`: append, pop and insert at the front act as on a sequence, growth or not; `GrowthIsolates`: growth disturbs no other holder; `WritesStayInWindow`: nothing is stored past a window |
| `crb_arrays` | 3 objects, 3 addresses, capacity 3 | `NeverUndercounts`: the collector's size is at least what is allocated; `SizeFollowsArrays`: every step but one kind accounts exactly |
| `crb_arrays_leak` | same | violation, section 6 |
| `deque` | capacity 6, 2 values | `NeverFull`; `QueueSpec`: refinement of `DequeSpec` |
| `deque_index` | same | violation, section 6 |
| `rbtree` | 7 keys | `LinksAgree`: no link, in the middle of a repair either, leads to a freed node, the stale parent of a root apart; `BlackBalanced`: black heights and red nodes are as both repair loops' invariants say; `RepairClimbs`: both loops end; `WalkInOrder`; `ContainerSpec`: refinement of `SetSpec` |
| `exec` | 5 frames, 2 operands per expression, stack of 8, 1 module | `RecoveryIsInnermost`, `JumpsIntoLiveFrame`: exceptions go to the innermost live handler; `StackAccounted`, `EnvPerCall`: unwinding restores both; `TryNotSkipped`: no exception passes a try with finally; `EveryJumpLands` (liveness): each exception is handled somewhere |
| `exec_import` | 3 frames, 1 operand, stack of 1, imports anywhere | violation, section 6 |
| `roots` | boxes of 2 references; expressions: 3 objects, 3 stack cells, 4 functions; calls: 4 objects, 2 environments, 2 stack cells, 6 functions | `NothingDangles`: a root or a live object never refers to a disposed one; `HeldObjectsLive`: nor does a C variable, in all operations but six. Programs are of two kinds: expressions, literals, assignments and catch blocks at the top level; and calls, closures, natives, returns and exceptions with finally blocks |
| `roots_concat` | 3 objects | violation, section 6 |
| `parts` | see below | one or two properties of each part, in the next table |
| `values_concat` | as `parts` | violation, section 6 |

The parts of run `parts`:

| Part | Bounds | Properties |
|---|---|---|
| memory | 4 addresses, sizes 1 and 2, 2 storages, pages of 3 cells | `BlockListExact`: the list has just the live blocks, linked both ways, each with its mark behind; `CellsDisjoint`: pages belong to one storage, and the cells handed out lie inside a page and apart |
| skip list | 3 keys, 2 tags, 3 levels | `LevelsNested`: every level is a part of the one below, in order, and no level but the lowest is empty; `SkipListSpec`: refinement of `OrderedSpec`; `RangeOmitsOnlyEqual`: a range leaves out nothing but values equal to its first key |
| heap | 3 values, 7 of them | `PopsTheLeast`: what comes out is the least of what is in |
| lists | 2 values, length 4 | `WalksSeeThePushed`: walks both ways see what was pushed, and deletion frees just what the list owns |
| sorting | 6 values of 3 keys; 3 stands for the 60 above which `sort` merges | `SortsStably`: every sort sorts, the ones that should keep the order of equals |
| names | 3 names, 2 modules, 3 variables, 2 frames, 2 calls | `LookupsAgree`: `m.n` and `n` in m's code mean the same; `FinalsKept`: no assignment changes a final, but through a `global` reference |
| input | texts of 4 characters, buffers of 1 to 3, 3 typed lines | `EachCharacterOnce`: wherever a buffer cuts it, the scanner gets each character once; `RunsOnce`: statements are executed at most once and in order |
| values | longs -4 to 3, expressions of 5 nodes | `FoldingKeepsMeaning`: a folded expression has the outcomes it had as written, whatever the variable's type |
| text | 3 objects of 2 members | `WrittenOutOnce`: each object below the root is written out once, and as `[...]` at every other place, whatever contains what |
| loops | 7 functions, loops with a label or none | `JumpsLand`: nothing runs between a break or return and its loop or call; a continue does not leave its loop |
| strings | 2 strings, 3 blocks, formats of 0 to 3 characters against a buffer for 2 | `TextsKept`: a block belongs to one string, and a string not cleared reads as what was put in it |

Why the bounds are enough. *Slice*: two slices and two variables share one array in every combination, up to a count of
four; a growing slice needs one new address beside the shared one. Capacity 3 has a first, a middle and a last cell, and offsets 0 to 3.
Values of cells are told apart by one value and junk; a further value multiplies states
only. *Deque*: capacities go 1, 2, 3, 4, 6 — growth from every shape of a ring of up to four cells,
wrapped at each place, and rings of six afterwards. *RBTree*: seven
nodes are the fewest where a removal's repair climbs twice (all black, three deep). *CrbExec*: five frames have, e.g., main, try, call, try
and foreach; the nesting that matters relates neighbouring frames. *CrbRoots*:
the collection is nondeterministic at every allocation, so small heaps show each order; the two
kinds of programs split the operations, since an expression's operations and a call's meet
only through the stack. Catch blocks are in the first (at the top level), finally blocks in the
second, where exceptions cross calls: with both the second has three million states.
*MemStorage*: four blocks give a list with a first, two inner and a last one, a moved one between; a page of three cells is filled by sizes 1 and 2 in each order.
*SkipList*: six values, three levels and two values per key show every neighbour a removal can have on each level.
*Heap*: seven values are three full levels. *Sorting*: six cells are above the threshold on both sides of the first split, and three keys give equal
ones. *CrbInput*: buffers of one to three characters cut four-character texts everywhere, also before the newline. *CrbNames*: two modules and the
interpreter's own tables, a name bound in any of them, a closure that sees one frame and makes another. *CrbValues*: five nodes are an operator over an operator over literals and a
variable, to the left or the right; -4 to 3 has each overflow. *CrbLoops*: seven functions are three nested loops with their lists, or a
loop around a call of a loop.

Each module has one statement of its variables' types. It is a property of its own in `slice`, `deque` and `crb_arrays`' parent
`Slice`; elsewhere it is a part of the first invariant that relies on it (`CrbArrays` in `NeverUndercounts`, `RBTree` in `LinksAgree`, `CrbExec` in
`StackAccounted`, `CrbRoots` in `NothingDangles`, `MemStorage` in `BlockListExact`, `SkipList` in `LevelsNested`, `CrbInput` in `RunsOnce`;
`CrbNames` has it proved, in `NInv`).

`MaxCap` names the allocator's limit (the code's `ARRAY_MAX_SIZE`); a request above it has no successor, as `assert` has.
`SizeBound` stops allocation in `CrbArrays`. `MaxFrames`, `MaxTemps`, `MaxSp`, `MaxRefs`, `MaxLive`,
`MaxStack`, `MaxEnvs`, `MaxCtl` and `MaxDepth` bound nesting; `MaxLen`, `MaxSize`, `MaxLines`, `MaxNodes`, `MaxMembers`, `MaxVariables`, `MaxFrames`
and `MaxCalls` of the parts bound the size of what a caller makes.

Deadlock is checked in `slice`, `deque`, `rbtree` and `exec`. It is not in `crb_arrays`, `roots` and `parts`: there a
program may really stop, out of memory (no free address), at its end, or at the bound on nesting.

Fairness. Only `CrbExec` has a liveness property. `FairSpec` assumes weak fairness of
`Land` alone: after `longjmp`, the handler is straight-line code of a single thread, so a
landing that can happen does. Nothing is assumed about programs, which may loop.

## 4. Abstractions

- Values: cells, strings and numbers are model values; array contents matter in `Slice`, only references in `CrbRoots`.
- One object stands for the exception a run-time error creates in `CrbRoots`; in `CrbExec` it is the value of `exc`. `throw_runtime_exception` never finds the exception's class (section 6), so the exception is always the one `CRB_create_exception` makes; the paths for a class that is found are left out.
- Imports in run `exec` come while the evaluation stack is empty (`ImportAnywhere` is false): elsewhere a module fails the assertion run `exec_import` refutes, and an import that does not compile takes its callers' values off the stack. The theorems that say nothing of the stack hold for both.
- What an uncaught exception leaves on the evaluation stack is abandoned by the code until the report is over; `StackAccounted` excludes the report.
- `deque_push_front`, `deque_get` and `deque_set` on an empty deque store or read before the block, which has no defined outcome: they are excluded.
- `slice_pop` uses `memcpy` on overlapping memory; it is taken to copy upwards.
- Elements past a slice's length that come back through a longer slice are not values in `CrbRoots`.
- A double's value is not tracked: operations on doubles have each outcome of their type.
- The grammar of `CrbInput` makes a statement of each line; `CRB_interpret` inside `yyparse` with a failing constant, in interactive mode, jumps into a function that has returned: such lines are excluded.
- Programs of `CrbNames` come from files, where a module's functions are defined before its first statement runs.
- `sort` merges from 60 cells on; `Threshold` stands for it. Heaps and arrays count from 1.
- A failed allocation ends the program (`MEM_FAIL_AND_EXIT`), so `MemStorage` has no step for it. The bytes of a mark are one value.
- `vsnprintf` with a consumed `va_list` writes a text nobody promised (`UNKNOWN`), and `realloc` to 0 bytes releases the block, as the C library does.
- The evaluation stack's block is reallocated as it grows; addresses into it are not modelled.

## 5. Proofs

Each proof module states an invariant that is inductive, proves that the initial states have it and that every
step keeps it, one lemma for each action or kind of action, and takes the theorems from it. Nothing is bounded: the
theorems hold for every value of the constants with the assumption named below.

| Module | From | Theorems | Properties of a run they state |
|---|---|---|---|
| `Arrays_proofs` | `SliceAssumption` | `Inductive`, `TypeCorrect`, `CountsAreHolders`, `WindowsAreSafe`, `ActsOnASequence`, `GrowthIsPrivate`, `WritesAreShown` | all six of run `slice` |
| | `SliceAssumption`, `CrbAssumption` | `BooksKept`, `NeverBelow`, `SizeFollows` | `NeverUndercounts`, `SizeFollowsArrays` |
| `Deque_proofs` | `DequeAssumption` | `Inductive`, `TypeCorrect`, `RingNeverFull`, `RingIsAQueue` | `NeverFull`, `QueueSpec` |
| `RBTree_proofs` | `TreeAssumption` | `Invariance`, `LinksStayAgreed`, `StaysBalanced`, `WalksInOrder`, `TreeIsASet`, `RepairsEnd` | all five of run `rbtree` |
| `CrbExec_proofs` | `ExecAssumption` | `Invariance`, `RecoveryAlwaysInnermost`, `JumpsAlwaysLive`, `EnvironmentPerCall`, `TryNeverSkipped` | four safety properties of run `exec` |
| | and not `ImportAnywhere` | `TypeCorrect`, `StackAlwaysAccounted` | `StackAccounted` |
| `CrbRoots_proofs` | `RootsAssumption` | `Invariance`, `NothingEverDangles`, `HeldObjectsStay` | `NothingDangles`, `HeldObjectsLive` |
| `Library_proofs` | `NullAssumption`, `SizesAssumption` | `Invariance`, `BlocksListed`, `CellsApart` | `BlockListExact`, `CellsDisjoint` |
| | `HeapAssumption` | `HeapPopsTheLeast` | `PopsTheLeast` |
| | `ListAssumption` | `ListsWalkAlike` | `WalksSeeThePushed` |
| | `SortAssumption` | `EverySortSorts` | `SortsStably` |
| `SkipList_proofs` | `SkipAssumption` | `LevelsStayNested`, `SkipListIsOrderedSet`, `RangesAreRight` | `LevelsNested`, `SkipListSpec`, `RangeOmitsOnlyEqual` |
| `Parts_proofs` | `StringsAssumption` | `TextsStayKept` | `TextsKept` |
| | nothing | `JumpsAlwaysLand` | `JumpsLand` |
| | `InputAssumption` | `StatementsRunOnce`, `SourceReachesTheScanner` | `RunsOnce`, `EachCharacterOnce` |
| | `NamesAssumption` | `NamesInductive`, `NamesTypeCorrect`, `LookupsAlwaysAgree`, `FinalsAreKept` | `LookupsAgree`, `FinalsKept` |
| | nothing | `FoldingIsFaithful` | `FoldingKeepsMeaning` |

**Slice.** Assumed: slices and variables are finite and disjoint sets, `NoArray` is no address, junk is no value, the
limit is positive. `IInv == TypeOK /\ RefCountsHolders /\ WindowInArray`, and none of the three is inductive alone. Types
need the counts: `close_array` subtracts one, which stays in `Nat` because the
closer is itself a holder counted. Windows need the counts too: a slice stays over
allocated memory because `Freed` is reached only from `ref = 1`, when the closer is the only holder. The
counts need the windows for nothing but an address that is free having no holder. The proof has
lemmas on cardinality (a holder joins, leaves, or moves between arrays), one lemma per array
operator, and one step per action. The three action properties follow from `IInv` before and after a step. Every operation that can move a slice goes through
`Lengthened`, so there is one lemma of each kind about it: which cells it keeps, whom it leaves alone, what it writes; what a slice shows is a
sequence compared element by element (`SameElements`, `Window`).

**CrbArrays.** Assumed besides: null is a value, `SizeBound` a natural number. `CInv` is `Slice`'s `IInv` with `Books`: an array
that is not allocated has no capacity, and `size` is at least the number of allocated cells, `Cardinality(CellsOf(arr))`. The accounting
reads reference counts before an operation and capacities after it; that an array taken off at `ref = 1` had no other holder is
`RefCountsHolders`, hence its place on top of the theorems about `Slice`. Each action's change of the number of cells is computed from the one or two arrays whose
capacity it changes (`Resizes`).

**Deque.** Assumed: the limit is positive, junk and "no value" are no values. `IInv == TypeOK /\ NeverFull /\ RingStored`.
`TypeOK` says that no call returns a cell as `malloc` left it, which needs `RingStored`: every cell between the ends was
stored. Keeping that through a push needs the free cell of `NeverFull`: without it the new end would be the old
other end, and `deque_len` could not tell a full ring from one of a single element. The refinement maps the ring `Ring(cell, front, back, cap)`, its
elements by their distance from the front, to the queue's items. `StoredRing` shows that the growth at the end of a push leaves them as they
are, `RingPushedBack`, `RingPushedFront` and the lemmas on pops that a move of an end adds or takes one at that end, `StepRefines` that each
call is the queue's operation or changes nothing.

**RBTree.** Assumed: the keys are finitely many integers, the sentinel and "no node" are none of them. What makes a tree of links a search tree is in no
variable, so the invariant `Good` says that it exists: a set of nodes below each node, which its two sides divide in order (`Linked`, `Sorted`), and a
number of black nodes below each node, on which both sides agree but for the one black that lacks where a removal stands (`Level`). `Colored` and
`Standing` say where two red nodes may meet and where each loop stands. None of these can do without the others: `SiblingBlack` and
`Borrowed` follow links to a sibling and its far child that are there only because the black heights say so. Rotations (`Turned`), exchanges of
colours, the insertion of a leaf (`Grown`), the removal of a node with one child (`Spliced`) and the move of the
replacement into the removed node's place (`Renamed`: the tree is the same but for one name) are lemmas about any tree, each with the new sets and
heights in terms of the old; the lemmas on the steps cite them once for both sides.
Induction over the tree is replaced by two facts about finite sets: among any nodes there is one none of whose children is among them
(`Lowest`), and one whose parent is not (`Highest`). With `Lowest`, the recursive functions of the model, a search, the leftmost node, and the set
of black heights, are shown to exist and to be what they should. The walk's loop is followed step by
step: what is on the stack and below its right links is still to come, in order (`Walking`), and what is left decreases (`Spent`), so the
number of steps the model gives it is enough. A node's depth is the number of nodes above it (`DepthIs`), which a rotation lowers by one for what it lifts; so
`RepairClimbs` needs no induction either.

**CrbExec.** Assumed: nesting bounds are natural numbers, and there is room for a program and the report of its failure (`MaxFrames` at least
2). What a handler restores was saved when its frame was entered, so the invariant speaks of every frame: `WellNested` says that frame i saved the recovery
environment that is innermost below it and the stack pointer the frames below it account for; `Control` what the registers are with those frames, at
rest, running, or unwinding to the innermost handler. A landing then finds what it needs in the frame it lands in, with everything above gone. The
number of environments is that of the calls among the frames. What the invariant says of the evaluation stack (`Same`, `Depths`) holds if imports come
only while it is empty, when an import that does not compile, which empties it, changes nothing; the rest does not need that, and so
neither do the theorems on recovery, jumps, environments and try blocks. `sp` is any number: `MaxSp` bounds the programs TLC runs, not the invariant. That
there is an innermost handler is by the last of a finite set of indices (`LastOne`).

**CrbRoots.** Assumed: objects are finitely many, bounds are natural numbers, a program's own function fits (`MaxCtl` not 0). `IInv` is `Sound` and
`Frames`. `Sound`: what a root or a live object refers to is alive. `Frames` says where each function in progress keeps what it has: `Control`,
that its values lie on the evaluation stack above those of all functions that wait for it, and its environment above theirs, at each place of
each function (`Own`, `Waits`, `EnvOwn`); and `HeldFor`, where a root finds the object its C variable holds. Only with the second is the
first inductive, since functions store into objects they hold, and only with the position on the stack of every function is the
second: what lies on top when a function goes on depends on how all above it ended, by an exception too. A collection keeps what the roots reach: the
reachable set is the least that is closed, so anything live refers into it.

**MemStorage.** Assumed: `NULL` is no address or storage, sizes are positive. `BlockListExact` says that an order of the live blocks exists
that the links follow; the invariant carries the existence (`Listed`), and each lemma gives the new order from the old one (a block
is put first, taken out, or exchanged). The same for the pages (`Paged`), with `Owned`: a page is a block no client may free and
no storage's own. `CellsDisjoint` is about `PagesOf`, the pages one can walk to; that these are the listed ones is an induction over the list, done for sets
of numbers with a least element (`WFMin` of the library).

**SkipList.** Assumed: keys and tags are integers, there is a level, and the head and NULL are no values. A node's name is what the comparisons tell of its
value, so names have an order (`Less`), with the head first, and what a descent passes is a segment of it (`Segment`): all nodes before a
value, before a key, or up to a key. `SkipInv` says that every next pointer leads to the first node behind on its level (`Chained`), which makes the
lists of a level and of the one below agree without relating them to each other; that prev mirrors the lowest level (`Mirrored`); that `level` is the greatest
height (`Capped`), so no level is searched or given up wrongly; and that `length` counts the nodes. The loop along a level is shown to end at the
segment's last node there by the function that says so: it satisfies the recursive equation, and two functions that do cannot differ at a last node of the
level; in the same way the descent on all levels (`DescentIs`). A call that links a node in (`LinkedIn`), or takes out the run between the ends of two
segments (`TakenOut`), is then an update of pointers at known places. Only the level above an emptied one needs care: the levels are
nested, so the empty ones are on top (`LevelAfterIs`). The range's loop is a walk of a function whose length is the
first position where it stops, and what it has met and what is to come divide the nodes from its start (`RangeIs`).

**CrbNames.** Assumed: the program's main module is a module, the interpreter's tables are none, its variables are finitely many names. `NInv` has the
types, `TablesApart` (a module's variable is no function of it, and the
interpreter's table has just its own names) and `RefsHeld` (a `global` reference is a variable some table still has).
`LookupsAgree` needs `TablesApart`, since a member search looks for functions where an identifier search looks for variables first.
`FinalsKept` needs the types of references only; it excepts the assignments through a `global` reference, which the
code does not check.

**CStrings.** Assumed: a program's texts are not empty and have no character 0, and the marks for no address, a literal and an unpromised text are no
addresses or texts. `TextsKept` says of each string what it reads as, which a call on another string could change by releasing its block. So
`StrInv` says who owns a block: a block is in use exactly if a string of length other than 0 has its address (`Owns`), and then only one.
Cleared strings make the length part of ownership: they keep the address of a block that is free, or another's by now.

**CrbLoops.** Nothing is assumed. A break, continue or return is on its way over several steps, so the invariant `LInv` relates the stack
to the result: `Stacked`, which function waits for which at which of its places; and `Settled`, which of the functions in progress is the innermost that
the pending jump is meant for (`IsAim`), and where it can be. Between the rounds of a loop only a continue can be pending, one the loop has already compared
and is not meant by; a list, or a function that runs one, may have any; an if statement at its conditions has none. A call saves its caller's
result, so `CallsSettled` says the same of each saved result and the stack below it. The label comparison of the code then
decides whether the loop is the aim, since everything inside it was passed (`Passed`, `Reached`).

**CrbInput.** Assumed: the characters of texts are characters, `readline` leaves out the newline, there are buffer sizes, which are natural numbers. That at
most one statement waits when a line is asked for rests on the line in hand having one newline at most, and it its last character, in the text or in the buffer
(`LineByLine`); as long as it is to come, everything parsed was executed (`UpToDate`). The newline that `readline_input` adds, at once or in
a buffer of its own, keeps this. The order of what was executed is that of positions below `last_statement_pos` (`InOrder`).
For `EachCharacterOnce`, `CharInv` keeps two accounts. What was delivered and what is outstanding make the source, where the newline that a typed line still
lacks is outstanding with its last character; cutting a text in two (`Takes`), going to the next line (`NextLine`) and typing one (`LinesOne`) leave
the sum as it should be. And the history with the line in hand is what was typed, except that the line in hand counts only until it is used up: the single newline that
`readline_input` puts in the line's place when the buffer is full is no line of its own (`HistoryOf`). The texts are joined by `FlattenSeq`; the lemmas about
it (`FlatAppend`, `FlatHead`) go by induction over its table of prefixes.

**Heap.** Assumed: the values are integers. `HeapInv` is `PopsTheLeast` with the slice's type. A sift is a recursive function, so a lemma of its own
says that a function with the code's equation exists (`FromBelow` towards the root, `FromAbove` towards the leaves, each by induction over the
length of the path), and another what it computes. The induction goes back along
the path from where the sift ends: the array made from a cell of the path on is ordered, except that going up the last cell may still be less than its
parent, has grown (or shrunk) there only, and has the values of the given array with the sifted one stored in that cell (`Raised`, `Lowered`). That no
value is lost on the way is counted on sets of cells (`Num`, `Exchanged`), and those
counts are what `BagOf` says. That the popped value is the least follows by induction from the root (`LeastFirst`).

**LinkedList.** Assumed: the head and "no node" are no block numbers, and no node is neither the head nor one of the marks of kinds and allocators. `ListInv` says
that some row of different nodes, the head first, is linked both ways and has the pushed values (`IsList`), and that the blocks in use are these and the list's own, if
they are ever given back (`ListOwned`). A walk is a recursive function over the nodes: along the row it is seen to exist (`WalkExists`), and by induction
to collect the nodes it passes (`WalkCollects`), along `next` as along `prev`.

**Sorting.** Assumed: keys are integers, the bound on the input and the threshold natural numbers; the theorem is for any such bound. That nothing is
lost or doubled is `Shuffled`: the same values, each with its place in the input, and no cell outside the part has changed. `Stably` says that equals stand
in the order of their places; it is kept relative to the input, so `bubble_sort` and `insert_sort` need not start from places in
order. A loop is a table, and a lemma for each says that the table exists (`Tabled`), with the loop's invariant in every entry: `Bubbled` and `Topped` for the
passes of `bubble_sort`, `Bottomed` for the rounds of `select_sort`, `Inserted` for the hole of `insert_sort`, `Holed` for the two sides of a
partition, `Took` for a merge in progress, `MergedBelow` for a round of merges and `InRuns` for `merge_sort`. The tables are longer than the loops, so it is
also proved that a loop has ended by then: `i` and `j` of a partition meet, and runs grow until one is the array. `_quick_sort` calls itself twice, on fewer
cells each time: `Ranked` shows that such a recursion has a solution, and `QuickCallIs` that a call sorts if the shorter ones do.

**CrbValues.** Nothing is assumed. `ValuesInv` says that `written` and `built` have the same places, that an expression's operands are earlier places
(`Grown`), that at each place what was built has only outcomes of what was written, for every value of x (`Within`), and what a folding error has to do with the
expression that raised it (`RaisedSays`). Meanings are a table filled from the first place on: the table exists, is the only one with its equation, and
another expression at the end leaves it as it is. `Within` goes on to a new operator because an operator with fewer outcomes of its operands has fewer itself
(`EvalGrows`), and to a folded one because a literal has just one outcome, so the value the parser computed is one the evaluator
could compute (`FoldedMeans`). That `x op= e` is `x = x op e` is a fact about the operators alone (`AssignsAlike`).

Only model-checked: `EveryJumpLands`, a liveness property, out of the prover's reach; and what `CrbText` computes with recursive operators
over graphs of values, by which the provers cannot reason (`WrittenOutOnce`).

## 6. Where code and text disagree

- `deque_index`: `array.c:75` asserts `index < cap`; `deque_get` and `deque_set` (`deque.c:88`) pass an index equal to the capacity for an accepted index of a wrapped deque.
- `crb_arrays_leak`: `tinterpreter.c:257` asserts that the heap size is 0 at the end; `theap.c:454` takes off the capacity from the window's start, not the whole array's.
- `exec_import`: `tinterpreter.c:305` asserts an empty stack at the end of each module; an import in a function ends its module on a stack that holds the function. The run calls a function that imports a module.
- `roots_concat`: `src/README.md` says that the result of one `crb_create_xxx()` must not wait in a variable over the next; `teval.c:478` does that with a converted left operand, and the run collects it.
- `values_concat`: `teval.c:285` asserts a comparison for an operator of two numbers that is not arithmetic; the parser folds `1 .. 2` by the same function (`tcode.c:137`), and fails it.

Behaviour that surprises and that no text of the repository speaks of; the models do as the code does:

- a final variable can be assigned through a `global` statement (`teval.c:110`);
- `m.x = v` may define a variable with the name of a built-in function, `x = v` may not; a module's function with the name of a built-in variable is found by `m.n`, the variable by `n`; a function definition does not look for a variable of its name (`tcode.c:293`);
- the exception classes are searched among the interpreter's own globals, where the built-in script's globals are not, so they are never found and every run-time error is an exception without a class (`terror.c:172`, `180`);
- a program whose constant expression fails is executed up to there (`tinterpreter.c:123`); so is an imported module, and the importer's evaluation stack is emptied (`tinterpreter.c:126`);
- `x op= y` on operands of no number type assigns a result nobody wrote, and the right operand of `&&` and `||` is not looked at for its type;
- an if statement may run several elif branches, if a later condition holds after the first (`texecute.c:91`);
- `continue outer` in an inner loop goes on with the inner loop (`texecute.c:158`);
- a cleared string keeps the address of its text (`wstring.c:84`).

## 7. Not modelled, and the plan

Done, in this order: `Slice`, its proofs, `DequeSpec`/`Deque`, `CrbArrays`, `CrbExec`, `CrbRoots`, `SetSpec`/`RBTree`, `MemStorage`, `OrderedSpec`/`SkipList`,
`Heap`, `LinkedList`, `Sorting`, `CrbInput`, `CrbNames` and its proofs, `CrbValues`, `CrbText`, `CrbLoops`, `CStrings`; then
the proofs of `CrbExec`, `MemStorage`, `CrbRoots` and `CrbArrays`, the action properties of `Slice`, the refinement of `Deque` and the proofs of `RBTree`,
`CStrings`, `CrbLoops`, `CrbInput`, `SkipList`, `Heap`, `LinkedList`, `Sorting` and `CrbValues`.

Next:
1. The collector with imports: a failing module sets the stack pointer to 0 and collects (`tinterpreter.c:300`); this needs `CrbExec` and `CrbRoots` composed.
2. Increments and substrings (`teval.c`); file handling among the native functions.

Left out for good: grammar, tree constructors, message tables, debug output, character conversion,
the characters of a value's text, the test programs and the skeleton language: sequential data without state to check. `stack.c` is one call of
the slice for each operation.
