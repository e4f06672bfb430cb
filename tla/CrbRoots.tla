----------------------------- MODULE CrbRoots ------------------------------
(***************************************************************************)
(* The crowbar collector (theap.c) under the expression evaluator (teval.c) *)
(* and the statements (texecute.c) that hold objects in C variables.        *)
(*                                                                         *)
(* Any allocation, and any new member of an associative array, may collect: *)
(* the threshold counts bytes, and strings have any length.  The collector  *)
(* marks from the global variables, the evaluation stack, the local         *)
(* environments and current_exception; a CRB_Object* in a C variable is no   *)
(* root.  `ctl` is the C call stack of the evaluator, one record for each    *)
(* function in progress, with the one object such a variable may hold.       *)
(*                                                                         *)
(* What the program does is left open: an expression is any expression.      *)
(* Strings have no references, arrays and associative arrays are boxes with  *)
(* a set of them, a scope chain refers to its frame and to the next chain.   *)
(* Arrays that share elements are CrbArrays' subject.                        *)
(***************************************************************************)
EXTENDS Integers, Sequences, FiniteSets, SequencesExt

CONSTANTS
    Objs,       \* addresses of a CRB_Object
    Plain,      \* a CRB_Value that refers to no object, null when thrown
    Ops,        \* the expressions and statements programs are made of
    MaxRefs,    \* bound on the references of a box
    MaxLive,    \* bound on the objects not yet collected
    MaxStack, MaxEnvs, MaxCtl   \* bounds on nesting

ASSUME RootsAssumption ==
    /\ IsFiniteSet(Objs) /\ Plain \notin Objs
    /\ {MaxRefs, MaxLive, MaxStack, MaxEnvs, MaxCtl} \subseteq Nat
    /\ MaxCtl # 0

VARIABLES
    heap,       \* [Objs -> object]
    globals,    \* the objects global variables refer to
    stack,      \* inter->stack
    envs,       \* the local environments, inter->top_environment last
    exc,        \* inter->current_exception
    ctl         \* the evaluator's functions in progress, the innermost last

vars == <<heap, globals, stack, envs, exc, ctl>>

Object == [kind : {"free", "string", "box", "scope"}, refs : SUBSET Objs]
Value == Objs \cup {Plain}
Environment == [scope : Value, native : SUBSET Objs]
\* The functions of the evaluator, and the points one can be at.
Operation == {"main", "eval", "array", "assoc", "add", "concat", "index", "slice", "variable",
              "member", "element", "call", "statement", "return", "throw", "try", "tryfinally"}
Point == {"start", "elements", "store", "left", "convert", "chain", "joined", "array", "index",
          "read", "share", "operand", "environment", "frame", "named", "arguments", "bind",
          "native", "body", "drop", "pop", "catch", "finally"}
\* run says whether its statement list is in progress. env is the environment
\* names are looked up in, 0 at the top level; base and envs are the lengths of
\* the stack and of the environments at the start.
Function == [op : Operation, at : Point, held : Value, run : BOOLEAN,
             env : 0 .. MaxEnvs, base : 0 .. MaxStack, envs : 0 .. MaxEnvs]

Free == [kind |-> "free", refs |-> {}]
IsLive(h, o) == h[o].kind # "free"
IsA(v, k) == v \in Objs /\ heap[v].kind = k

-----------------------------------------------------------------------------
(* The collector. *)

\* gc_mark from the objects of R: the least set that has them and whatever its
\* members refer to.
Marked(h, R) ==
    LET closed == {S \in SUBSET Objs : R \subseteq S /\ \A x \in S : h[x].refs \subseteq S}
    IN  {o \in Objs : \A S \in closed : o \in S}

ObjectsOf(s) == {s[i] : i \in DOMAIN s} \cap Objs

\* gc_mark_objects' last two sources
EnvRoots == UNION {({envs[i].scope} \cap Objs) \cup envs[i].native : i \in DOMAIN envs}

\* A collector that overlooks unfinished expressions.
RootsWithoutStack == globals \cup EnvRoots \cup ({exc} \cap Objs)

\* gc_mark_objects
Roots == globals \cup EnvRoots \cup ObjectsOf(stack) \cup ({exc} \cap Objs)

\* crb_garbage_collect
Collected(h) == LET m == Marked(h, Roots) IN [o \in Objs |-> IF o \in m THEN h[o] ELSE Free]

\* check_gc
CheckGC(h) == {h, Collected(h)}

\* alloc_object: the heap and the address of a new object k with references r.
Alloc(k, r) ==
    UNION {{[heap |-> [h EXCEPT ![o] = [kind |-> k, refs |-> r]], obj |-> o]
                : o \in {x \in Objs : ~IsLive(h, x)}}
                : h \in {g \in CheckGC(heap) : Cardinality({x \in Objs : IsLive(g, x)}) < MaxLive}}

\* The heaps after v was stored in box o, as a new element or over an old one.
Stored(h, o, v) ==
    LET r == h[o].refs
        kept == {r} \cup {r \ {x} : x \in r}
    IN  {[h EXCEPT ![o].refs = k \cup ({v} \cap Objs)] :
            k \in {s \in kept : Cardinality(s \cup ({v} \cap Objs)) <= MaxRefs}}

\* CRB_add_assoc_member collects first. The value is where the caller put it.
MemberStored(o, v) == UNION {Stored(h, o, v) : h \in CheckGC(heap)}

-----------------------------------------------------------------------------
(* Names. *)

\* The boxes with the variables of scope chain s.
FramesOf(s) ==
    LET outer(x) == {y \in heap[x].refs : heap[x].kind = "scope" /\ heap[y].kind = "scope"}
        chain == Marked([x \in Objs |-> [refs |-> outer(x)]], {s} \cap Objs)
    IN  {f \in UNION {heap[c].refs : c \in chain} : heap[f].kind = "box"}

ScopeOf(e) == IF e = 0 THEN Plain ELSE envs[e].scope

\* What an identifier, or a member of what one names, can be.
Named(e) ==
    LET local == UNION {heap[f].refs : f \in FramesOf(ScopeOf(e))}
        direct == local \cup globals
    IN  direct \cup UNION {heap[o].refs : o \in {x \in direct : heap[x].kind = "box"}}

-----------------------------------------------------------------------------
(* The C stack. *)

Top == Last(ctl)
In(op, at) == Top.op = op /\ Top.at = at
Func(op, at, e) ==
    [op |-> op, at |-> at, held |-> Plain, run |-> FALSE, env |-> e,
     base |-> Len(stack), envs |-> Len(envs)]

\* The innermost function goes on as f, or returns.
Goto(f) == ctl' = Append(Front(ctl), f)
Return == ctl' = Front(ctl)

\* The statement list of the innermost function, op at `at`, is over.
ListOver(op, at) == In(op, at) /\ ~Top.run

\* It calls eval_expression in its own environment, and goes on as f.
Evaluates(f) ==
    /\ Len(stack) < MaxStack /\ Len(ctl) < MaxCtl
    /\ ctl' = Append(Append(Front(ctl), f), Func("eval", "start", f.env))

\* eval_expression of an expression op.
Evaluating(op) == In("eval", "start") /\ op \in Ops

Push(v) == Len(stack) < MaxStack /\ stack' = Append(stack, v)
TopValue == Last(stack)
SecondValue == stack[Len(stack) - 1]

-----------------------------------------------------------------------------
(* Expressions without operands. *)

EvalPlain ==
    /\ In("eval", "start")
    /\ Push(Plain) /\ Return
    /\ UNCHANGED <<heap, globals, envs, exc>>

\* eval_string_expression
EvalString ==
    /\ Evaluating("string")
    /\ \E a \in Alloc("string", {}) : heap' = a.heap /\ Push(a.obj)
    /\ Return
    /\ UNCHANGED <<globals, envs, exc>>

\* eval_identifier_expression, eval_member_expression
EvalNamed ==
    /\ In("eval", "start")
    /\ \E v \in Named(Top.env) : Push(v)
    /\ Return
    /\ UNCHANGED <<heap, globals, envs, exc>>

\* eval_closure_expression
EvalClosure ==
    /\ Evaluating("closure")
    /\ Push(ScopeOf(Top.env))
    /\ Return
    /\ UNCHANGED <<heap, globals, envs, exc>>

-----------------------------------------------------------------------------
(* Array and associative array literals: eval_array_expression and          *)
(* eval_assoc_expression keep the new object on the stack.                  *)

LiteralNew ==
    /\ \E op \in {"array", "assoc"} :
        /\ Evaluating(op)
        /\ \E a \in Alloc("box", {}) :
            /\ heap' = a.heap /\ Push(a.obj)
            /\ Goto([Top EXCEPT !.op = op, !.at = "elements", !.held = a.obj])
    /\ UNCHANGED <<globals, envs, exc>>

LiteralElement ==
    /\ In("array", "elements") \/ In("assoc", "elements")
    /\ Evaluates([Top EXCEPT !.at = "store"])
    /\ UNCHANGED <<heap, globals, stack, envs, exc>>

\* pop_value into the array's next element
ArrayStore ==
    /\ In("array", "store")
    /\ heap' \in Stored(heap, Top.held, TopValue)
    /\ stack' = Front(stack)
    /\ Goto([Top EXCEPT !.at = "elements"])
    /\ UNCHANGED <<globals, envs, exc>>

\* The member's value stays on the stack until it is stored.
AssocStore ==
    /\ In("assoc", "store")
    /\ heap' \in MemberStored(Top.held, TopValue)
    /\ stack' = Front(stack)
    /\ Goto([Top EXCEPT !.at = "elements"])
    /\ UNCHANGED <<globals, envs, exc>>

LiteralEnd ==
    /\ In("array", "elements") \/ In("assoc", "elements")
    /\ Return
    /\ UNCHANGED <<heap, globals, stack, envs, exc>>

-----------------------------------------------------------------------------
(* String operators. Both operands stay on the stack until the end.         *)

\* eval_binary_expression (+) and eval_binary_concat_string: the left operand
BinaryLeft ==
    /\ \E op \in {"add", "concat"} :
        /\ Evaluating(op)
        /\ Evaluates([Top EXCEPT !.op = op, !.at = "left"])
    /\ UNCHANGED <<heap, globals, stack, envs, exc>>

BinaryRight ==
    /\ In("add", "left") \/ In("concat", "left")
    /\ Evaluates([Top EXCEPT !.at = IF Top.op = "add" THEN "chain" ELSE "convert"])
    /\ UNCHANGED <<heap, globals, stack, envs, exc>>

\* The left operand's string, in the C variable `result` only.
ConcatConvert ==
    /\ In("concat", "convert")
    /\ \E a \in Alloc("string", {}) :
        heap' = a.heap /\ Goto([Top EXCEPT !.at = "chain", !.held = a.obj])
    /\ UNCHANGED <<globals, stack, envs, exc>>

\* chain_string: the right operand's string, then the left one is read.
ChainRight ==
    /\ In("add", "chain") \/ In("concat", "chain")
    /\ \E a \in Alloc("string", {}) : heap' = a.heap
    /\ Goto([Top EXCEPT !.at = "joined"])
    /\ UNCHANGED <<globals, stack, envs, exc>>

\* chain_string's result takes the operands' place.
ChainResult ==
    /\ In("add", "joined") \/ In("concat", "joined")
    /\ Top.held \in Objs => IsLive(heap, Top.held)
    /\ \E a \in Alloc("string", {}) :
        /\ heap' = a.heap
        /\ stack' = Append(SubSeq(stack, 1, Len(stack) - 2), a.obj)
    /\ Return
    /\ UNCHANGED <<globals, envs, exc>>

-----------------------------------------------------------------------------
(* Elements and slices. The array is popped before the index is evaluated.  *)

IndexArray ==
    /\ \E op \in {"index", "slice"} :
        /\ Evaluating(op)
        /\ Evaluates([Top EXCEPT !.op = op, !.at = "array"])
    /\ UNCHANGED <<heap, globals, stack, envs, exc>>

IndexOperand ==
    /\ In("index", "array") \/ In("slice", "array") \/ In("element", "array")
    /\ IsA(TopValue, "box") \/ (Top.op # "element" /\ IsA(TopValue, "string"))
    /\ stack' = Front(stack)
    /\ Len(ctl) < MaxCtl
    /\ ctl' = Append(Append(Front(ctl), [Top EXCEPT !.at = "index", !.held = TopValue]),
                     [Func("eval", "start", Top.env) EXCEPT !.base = Len(stack) - 1])
    /\ UNCHANGED <<heap, globals, envs, exc>>

\* The index is popped; only then is the array read.
IndexPopped ==
    /\ In("index", "index") \/ In("slice", "index") \/ In("element", "index")
    /\ stack' = Front(stack)
    /\ Goto([Top EXCEPT !.at = IF Top.op = "slice" THEN "share" ELSE "read"])
    /\ UNCHANGED <<heap, globals, envs, exc>>

\* eval_index_expression pushes the element.
IndexRead ==
    /\ In("index", "read") /\ IsA(Top.held, "box")
    /\ \E v \in heap[Top.held].refs \cup {Plain} : Push(v)
    /\ Return
    /\ UNCHANGED <<heap, globals, envs, exc>>

\* eval_array_slice_expression: the slice's object is allocated first and the
\* array it shares read afterwards.
SliceShare ==
    /\ In("slice", "share") /\ IsA(Top.held, "box")
    /\ \E a \in Alloc("box", heap[Top.held].refs) :
        /\ Top.held # a.obj /\ IsLive(a.heap, Top.held)
        /\ heap' = a.heap
        /\ Push(a.obj)
    /\ Return
    /\ UNCHANGED <<globals, envs, exc>>

\* eval_sub_string_value copies the characters, then allocates.
SubString ==
    /\ In("index", "read") \/ In("slice", "share")
    /\ IsA(Top.held, "string")
    /\ \E a \in Alloc("string", {}) : heap' = a.heap /\ Push(a.obj)
    /\ Return
    /\ UNCHANGED <<globals, envs, exc>>

-----------------------------------------------------------------------------
(* Assignment. The value assigned stays on the stack: it is the result.     *)

AssignOperand ==
    /\ \E op \in {"variable", "member", "element"} :
        /\ Evaluating(op)
        /\ Evaluates([Top EXCEPT !.op = op, !.at = "operand"])
    /\ UNCHANGED <<heap, globals, stack, envs, exc>>

\* A variable that exists, or a new one of the innermost frame.
AssignLocal ==
    /\ In("variable", "operand") /\ Top.env # 0
    /\ \E f \in FramesOf(ScopeOf(Top.env)) : heap' \in MemberStored(f, TopValue)
    /\ Return
    /\ UNCHANGED <<globals, stack, envs, exc>>

AssignGlobal ==
    /\ In("variable", "operand")
    /\ \E old \in {{}} \cup {{g} : g \in globals} :
        globals' = (globals \ old) \cup ({TopValue} \cap Objs)
    /\ Return
    /\ UNCHANGED <<heap, stack, envs, exc>>

\* assign_to_member, get_element_lvalue: the object is evaluated next.
AssignTarget ==
    /\ In("member", "operand") \/ In("element", "operand")
    /\ Evaluates([Top EXCEPT !.at = "array"])
    /\ UNCHANGED <<heap, globals, stack, envs, exc>>

AssignMember ==
    /\ In("member", "array")
    /\ IsA(TopValue, "box")
    /\ heap' \in MemberStored(TopValue, SecondValue)
    /\ stack' = Front(stack)
    /\ Return
    /\ UNCHANGED <<globals, envs, exc>>

AssignElement ==
    /\ In("element", "read") /\ IsA(Top.held, "box")
    /\ heap' \in Stored(heap, Top.held, TopValue)
    /\ Return
    /\ UNCHANGED <<globals, stack, envs, exc>>

-----------------------------------------------------------------------------
(* Calls. *)

CallFunction ==
    /\ Evaluating("call") /\ Len(envs) < MaxEnvs
    /\ Evaluates([Top EXCEPT !.op = "call", !.at = "environment"])
    /\ UNCHANGED <<heap, globals, stack, envs, exc>>

\* An environment that joins the chain when it is complete.
EnvLinkedLate(s) == envs

\* alloc_local_environment links the environment, then fills it.
EnvLinked(s) == Append(envs, [scope |-> s, native |-> {}])

\* alloc_local_environment, up to the scope chain
CallEnvironment ==
    /\ In("call", "environment")
    /\ \E a \in Alloc("scope", {}) :
        /\ heap' = a.heap
        /\ envs' = EnvLinked(a.obj)
        /\ Goto([Top EXCEPT !.at = "frame", !.held = a.obj])
    /\ UNCHANGED <<globals, stack, exc>>

\* Its frame. The function on the stack keeps the closure's own scope chain.
CallFrame ==
    /\ In("call", "frame")
    /\ \E a \in Alloc("box", {}) :
        heap' = [a.heap EXCEPT ![Top.held].refs =
            {a.obj} \cup (IF TopValue \in Objs /\ heap[TopValue].kind = "scope"
                          THEN {TopValue} ELSE {})]
    /\ Goto([Top EXCEPT !.at = "named"])
    /\ UNCHANGED <<globals, stack, envs, exc>>

\* The box of the scope chain o, its frame.
FrameOf(o) == CHOOSE f \in heap[o].refs : heap[f].kind = "box"

\* A closure that has a name is a local variable of its own.
CallNamed ==
    /\ In("call", "named")
    /\ \/ UNCHANGED heap
       \/ IsA(TopValue, "scope") /\ heap' \in MemberStored(FrameOf(Top.held), TopValue)
    /\ Goto([Top EXCEPT !.at = "arguments"])
    /\ UNCHANGED <<globals, stack, envs, exc>>

\* Arguments are evaluated in the caller's environment.
CallArgument ==
    /\ In("call", "arguments")
    /\ Evaluates([Top EXCEPT !.at = "bind"])
    /\ UNCHANGED <<heap, globals, stack, envs, exc>>

\* CRB_add_local_variable of the callee, with the argument on the stack
CallBind ==
    /\ In("call", "bind")
    /\ heap' \in MemberStored(FrameOf(Top.held), TopValue)
    /\ stack' = Front(stack)
    /\ Goto([Top EXCEPT !.at = "arguments"])
    /\ UNCHANGED <<globals, envs, exc>>

CallBody ==
    /\ In("call", "arguments")
    /\ Goto([Top EXCEPT !.at = "body", !.run = TRUE, !.env = Len(envs)])
    /\ UNCHANGED <<heap, globals, stack, envs, exc>>

\* dispose_local_environment
EnvDisposed(s) == Front(s)

\* What the call holds takes the function's place and the environment is
\* disposed of.
CallLeaves ==
    /\ stack' = Append(SubSeq(stack, 1, Top.base), Top.held)
    /\ envs' = EnvDisposed(envs)
    /\ Return
    /\ UNCHANGED <<heap, globals, exc>>

CallReturns == ListOver("call", "body") /\ CallLeaves

\* new_array_sub: CRB_create_array, which adds a reference to the environment.
NativeOuter ==
    /\ In("call", "arguments") /\ "native" \in Ops
    /\ \E a \in Alloc("box", {}) :
        /\ heap' = a.heap
        /\ envs' = [envs EXCEPT ![Len(envs)].native = @ \cup {a.obj}]
        /\ Goto([Top EXCEPT !.at = "native", !.held = a.obj])
    /\ UNCHANGED <<globals, stack, exc>>

\* The arrays of the next dimension are created and stored one by one.
NativeInner ==
    /\ In("call", "native")
    /\ \E a \in Alloc("box", {}) :
        /\ heap' \in Stored(a.heap, Top.held, a.obj)
        /\ envs' = [envs EXCEPT ![Len(envs)].native = @ \cup {a.obj}]
    /\ UNCHANGED <<globals, stack, exc, ctl>>

NativeReturns ==
    /\ In("call", "native")
    /\ CallLeaves

-----------------------------------------------------------------------------
(* Statements. *)

\* A statement that evaluates an expression and goes on as op at `at`.
Begins(op, at) ==
    /\ Top.run /\ Len(ctl) + 1 < MaxCtl /\ Len(stack) < MaxStack
    /\ ctl' = ctl \o <<Func(op, at, Top.env), Func("eval", "start", Top.env)>>
    /\ UNCHANGED <<heap, globals, stack, envs, exc>>

\* execute_expression_statement
Statement == Begins("statement", "drop")

Drop ==
    /\ In("statement", "drop")
    /\ stack' = Front(stack)
    /\ Return
    /\ UNCHANGED <<heap, globals, envs, exc>>

\* The innermost function's list ends with value v in its StatementResult. What
\* waits while finally runs is another one.
ListEndsWith(c, v) ==
    LET f == [Last(c) EXCEPT !.run = FALSE]
    IN  Append(Front(c), IF f.at = "finally" THEN f ELSE [f EXCEPT !.held = v])

\* execute_return_statement, in a function
ReturnStatement == Top.env # 0 /\ "return" \in Ops /\ Begins("return", "pop")

ReturnPop ==
    /\ In("return", "pop")
    /\ stack' = Front(stack)
    /\ ctl' = ListEndsWith(Front(ctl), TopValue)
    /\ UNCHANGED <<heap, globals, envs, exc>>

ListEnd ==
    /\ Top.run /\ Len(ctl) > 1
    /\ ctl' = ListEndsWith(ctl, Plain)
    /\ UNCHANGED <<heap, globals, stack, envs, exc>>

\* execute_try_statement: op says whether there is a catch block. A finally
\* block without statements stands for none.
Try(op) ==
    /\ Top.run /\ op \in Ops /\ Len(ctl) < MaxCtl /\ Len(stack) < MaxStack
    /\ ctl' = Append(ctl, [Func(op, "body", Top.env) EXCEPT !.run = TRUE])
    /\ UNCHANGED <<heap, globals, stack, envs, exc>>

\* The try block or the catch block is over: finally runs, the result waiting
\* in *result. The catch block's exception leaves the stack.
TryBlockEnds ==
    /\ \E op \in {"try", "tryfinally"}, at \in {"body", "catch"} :
        /\ ListOver(op, at)
        /\ stack' = IF at = "catch" THEN Front(stack) ELSE stack
    /\ Goto([Top EXCEPT !.at = "finally", !.run = TRUE])
    /\ UNCHANGED <<heap, globals, envs, exc>>

\* The try blocks whose jmp_buf is in force in c.
Catchers(c) == {i \in DOMAIN c : c[i].op \in {"try", "tryfinally"} /\ c[i].at = "body"}

\* longjmp with exception v and heap h out of the functions c: calls in between dispose of
\* their environments, and the try statement restores its stack. Nobody to
\* catch it: CRB_interpret empties the stack and collects.
Unwind(h, c, v) ==
    IF Catchers(c) = {} THEN
        /\ stack' = << >> /\ envs' = << >> /\ exc' = Plain
        /\ ctl' = SubSeq(c, 1, 1)
        /\ heap' = [o \in Objs |-> IF o \in Marked(h, globals) THEN h[o] ELSE Free]
    ELSE
        LET i == CHOOSE n \in Catchers(c) : \A m \in Catchers(c) : m <= n
            s == SubSeq(stack, 1, c[i].base)
        IN  /\ envs' = SubSeq(envs, 1, c[i].envs)
            /\ heap' = h
            /\ IF c[i].op = "try"
               THEN /\ stack' = Append(s, v)
                    /\ exc' = Plain
                    /\ ctl' = Append(SubSeq(c, 1, i - 1), [c[i] EXCEPT !.at = "bind", !.run = FALSE])
               ELSE /\ stack' = s
                    /\ exc' = v
                    /\ ctl' = Append(SubSeq(c, 1, i - 1),
                                     [c[i] EXCEPT !.at = "finally", !.run = TRUE])

\* assign_to_variable of the exception, which the stack holds
CatchBind ==
    /\ In("try", "bind")
    /\ \/ /\ Top.env # 0
          /\ \E f \in FramesOf(ScopeOf(Top.env)) : heap' \in MemberStored(f, TopValue)
          /\ UNCHANGED globals
       \/ /\ Top.env = 0
          /\ globals' = globals \cup ({TopValue} \cap Objs)
          /\ UNCHANGED heap
    /\ Goto([Top EXCEPT !.at = "catch", !.run = TRUE])
    /\ UNCHANGED <<stack, envs, exc>>

\* execute_throw_statement
ThrowStatement == "throw" \in Ops /\ Begins("throw", "pop")

ThrowPop ==
    /\ In("throw", "pop")
    /\ Unwind(heap, ctl, TopValue)
    /\ UNCHANGED globals

\* A value of the wrong kind, an index out of bounds, a member that is missing:
\* crb_runtime_error. One object stands for the exception it creates.
TypeError ==
    /\ Top.at \in {"array", "read", "share"}
    /\ Top.op \in {"index", "slice", "element", "member"}
    /\ \E a \in Alloc("box", {}) : Unwind(a.heap, ctl, a.obj)
    /\ UNCHANGED globals

\* After finally a pending exception goes on, if there is no catch block;
\* otherwise the statement ends with the result that waited. A result without an
\* object is as good as none: any statement may be the last of its list.
FinallyEnds ==
    /\ \E op \in {"try", "tryfinally"} :
        /\ ListOver(op, "finally")
        /\ \/ /\ op = "tryfinally" /\ exc # Plain
              /\ Unwind(heap, Front(ctl), exc)
           \/ /\ op = "try" \/ exc = Plain
              /\ Top.held \in Objs => IsLive(heap, Top.held)
              /\ ctl' = IF Top.held = Plain THEN Front(ctl)
                        ELSE ListEndsWith(Front(ctl), Top.held)
              /\ UNCHANGED <<heap, stack, envs, exc>>
    /\ UNCHANGED globals

-----------------------------------------------------------------------------
Init ==
    /\ heap = [o \in Objs |-> Free]
    /\ globals = {}
    /\ stack = << >>
    /\ envs = << >>
    /\ exc = Plain
    /\ ctl = <<[Func("main", "body", 0) EXCEPT !.run = TRUE]>>

Expressions ==
    \/ EvalPlain \/ EvalString \/ EvalNamed \/ EvalClosure
    \/ LiteralNew \/ LiteralElement \/ ArrayStore \/ AssocStore \/ LiteralEnd
    \/ BinaryLeft \/ BinaryRight \/ ConcatConvert \/ ChainRight \/ ChainResult
    \/ IndexArray \/ IndexOperand \/ IndexPopped \/ IndexRead \/ SliceShare \/ SubString
    \/ AssignOperand \/ AssignLocal \/ AssignGlobal \/ AssignTarget
    \/ AssignMember \/ AssignElement

CallSteps ==
    \/ CallFunction \/ CallEnvironment \/ CallFrame \/ CallNamed \/ CallArgument \/ CallBind
    \/ CallBody \/ CallReturns \/ NativeOuter \/ NativeInner \/ NativeReturns

Statements ==
    \/ Statement \/ Drop \/ ReturnStatement \/ ReturnPop \/ ListEnd
    \/ \E op \in {"try", "tryfinally"} : Try(op)
    \/ TryBlockEnds \/ CatchBind \/ ThrowStatement \/ ThrowPop \/ TypeError \/ FinallyEnds

Next == Expressions \/ CallSteps \/ Statements

Spec == Init /\ [][Next]_vars

-----------------------------------------------------------------------------
(* Properties. *)

\* The types of the variables, a part of NothingDangles: the environment each function in progress
\* looks names up in is still on the chain.
TypeOK ==
    /\ heap \in [Objs -> Object]
    /\ globals \subseteq Objs
    /\ stack \in Seq(Value) /\ Len(stack) <= MaxStack
    /\ envs \in Seq(Environment) /\ Len(envs) <= MaxEnvs
    /\ exc \in Value
    /\ ctl \in Seq(Function) /\ Len(ctl) \in 1 .. MaxCtl
    /\ \A i \in DOMAIN ctl : ctl[i].env <= Len(envs)

\* No reference dangles: whatever a root or a live object refers to has not
\* been disposed of. A collection in the middle of an expression, a call, a
\* literal or a catch never frees what the program can still reach.
NothingDangles ==
    /\ TypeOK
    /\ \A o \in Roots : IsLive(heap, o)
    /\ \A o \in Objs : \A x \in heap[o].refs : IsLive(heap, x)

\* Operations that keep an object in a C variable only while they evaluate or
\* allocate more.
Unrooted == {"concat", "index", "slice", "element", "try", "tryfinally"}

\* Every other operation finds the objects its C variables hold alive, whatever
\* ran since: the literal under construction, the scope chain of a call in
\* progress, the array a native function is filling, a value returned.
HeldObjectsLive ==
    \A i \in DOMAIN ctl :
        ctl[i].op \notin Unrooted /\ ctl[i].held \in Objs => IsLive(heap, ctl[i].held)

\* src/README.md: since alloc_object() may collect, the result of one
\* crb_create_xxx() may not be kept in an intermediate variable over the next.
\* So no operation ever finds what its variable holds disposed of.
NoDeadVariable ==
    \A i \in DOMAIN ctl : ctl[i].held \in Objs => IsLive(heap, ctl[i].held)
=============================================================================
