------------------------------ MODULE CrbExec ------------------------------
(***************************************************************************)
(* Control transfer in the crowbar interpreter: texecute.c (statements),    *)
(* teval.c (calls), terror.c (runtime errors) and tinterpreter.c            *)
(* (CRB_interpret, import, the report of an uncaught exception).            *)
(*                                                                         *)
(* The interpreter walks the syntax tree with C recursion, evaluates on one *)
(* stack of values, keeps a chain of local environments, and raises         *)
(* exceptions with longjmp to the jmp_buf saved in                          *)
(* inter->current_recovery_environment.  `frames` is the stack of active C  *)
(* functions that matter here: each handler saves what it will restore.     *)
(* Which statement comes next, and what an expression yields, is the        *)
(* program's choice; the number of operands it has on the stack is `tmp`.   *)
(***************************************************************************)
EXTENDS Integers, Sequences, FiniteSets

CONSTANTS
    Modules,        \* names a program imports
    ImportAnywhere, \* FALSE: only while the evaluation stack is empty
    MaxFrames,      \* bound on the nesting of calls, blocks and imports
    MaxTemps,       \* bound on the operands of one unfinished expression
    MaxSp           \* bound on what an operand or an iterator makes of the
                    \* evaluation stack

ASSUME ExecAssumption ==
    /\ ImportAnywhere \in BOOLEAN
    /\ MaxFrames \in Nat \ {0, 1}  \* a program and the report of its failure
    /\ MaxTemps \in Nat /\ MaxSp \in Nat

VARIABLES
    frames,     \* C functions in progress, the innermost last
    rec,        \* index of the frame whose jmp_buf current_recovery_environment
                \* holds; 0 when that function has returned
    sp,         \* inter->stack.stack_pointer
    env,        \* length of the chain at inter->top_environment
    exc,        \* inter->current_exception: "none" (CRB_NULL_VALUE) or "ex"
    jump,       \* the frame a longjmp is on its way to, or 0
    modules     \* names in inter->modules

vars == <<frames, rec, sp, env, exc, jump, modules>>

Kinds == {"main", "show", "module", "call", "try", "foreach"}
Frame == [kind : Kinds,
          sp : Int,             \* stack_pointer_backup
          rec : 0 .. MaxFrames, \* env_backup
          mode : {"body", "catch", "finally", "printed"},
          has : SUBSET {"catch", "finally"},
          res : {"normal", "left"},  \* how its statement list stands
          out : {"normal", "left"},  \* the result kept while finally runs
          tmp : 0 .. MaxTemps]

NewFrame(k, s) == [kind |-> k, sp |-> s, rec |-> rec, mode |-> "body", has |-> {},
                   res |-> "normal", out |-> "normal", tmp |-> 0]

Depth == Len(frames)
Top == frames[Depth]
Upto(n) == SubSeq(frames, 1, n)
WithTop(f) == [frames EXCEPT ![Depth] = f]

Running == frames # << >> /\ jump = 0
\* The innermost function is executing a statement list.
InList == Running /\ Top.kind # "show" /\ Top.res = "normal"
AtStatement == InList /\ Top.tmp = 0
\* The list of the innermost function, of kind k, is over.
ListOver(k) == Running /\ Top.kind = k /\ Top.tmp = 0

\* A function whose jmp_buf is in force is entered.
Enter(fs, f) == frames' = Append(fs, f) /\ rec' = Len(fs) + 1

\* A value of current_recovery_environment once frames n and up are gone.
Dangling(n) == IF rec >= n THEN 0 ELSE rec

-----------------------------------------------------------------------------
(* Expressions and calls. *)

\* push_value of an operand
Push ==
    /\ InList /\ Top.tmp < MaxTemps /\ sp < MaxSp
    /\ frames' = WithTop([Top EXCEPT !.tmp = @ + 1])
    /\ sp' = sp + 1
    /\ UNCHANGED <<rec, env, exc, jump, modules>>

\* The end of an expression: its operands and its value are popped.
EndExpression ==
    /\ InList /\ Top.tmp > 0
    /\ frames' = WithTop([Top EXCEPT !.tmp = 0])
    /\ sp' = sp - Top.tmp
    /\ UNCHANGED <<rec, env, exc, jump, modules>>

\* eval_function_call_expression, CRB_call_method: the function is on the stack,
\* an environment is allocated and setjmp guards the callee.
Call ==
    /\ InList /\ Top.tmp > 0 /\ Depth < MaxFrames
    /\ Enter(frames, NewFrame("call", sp))
    /\ env' = env + 1
    /\ UNCHANGED <<sp, exc, jump, modules>>

\* A call that returns without giving back the recovery environment.
RecoveryAfterForgotten(f) == rec

\* inter->current_recovery_environment = env_backup
RecoveryAfter(f) == f.rec

\* The function returns; its value takes the function's place on the stack.
CallReturns ==
    /\ ListOver("call")
    /\ frames' = Upto(Depth - 1)
    /\ rec' = RecoveryAfter(Top)
    /\ env' = env - 1
    /\ UNCHANGED <<sp, exc, jump, modules>>

-----------------------------------------------------------------------------
(* Raising. *)

\* execute_throw_statement. The value thrown is the program's, and null is one.
Throw ==
    /\ AtStatement
    /\ exc' \in {"ex", "none"}
    /\ jump' = rec
    /\ UNCHANGED <<frames, rec, sp, env, modules>>

\* throw_runtime_exception. It looks for the exception class among the
\* interpreter's own globals, where neither the built-in script nor a program can
\* put one, so it is CRB_create_exception that makes the exception; the message
\* it pushed is off the stack again before longjmp.
Raise ==
    /\ exc' = "ex"
    /\ jump' = rec
    /\ UNCHANGED <<frames, rec, sp, env, modules>>

\* crb_runtime_error and CRB_error, in the middle of an expression or not
RuntimeError == InList /\ Raise

-----------------------------------------------------------------------------
(* Statements. *)

\* return, break and continue: the statement list ends early.
Leave ==
    /\ AtStatement
    /\ frames' = WithTop([Top EXCEPT !.res = "left"])
    /\ UNCHANGED <<rec, sp, env, exc, jump, modules>>

\* The stack of functions after the innermost one returned r to its caller.
Returned(r) == [Upto(Depth - 1) EXCEPT ![Depth - 1].res = r]

\* execute_try_statement
Try ==
    /\ AtStatement /\ Depth < MaxFrames
    /\ \E has \in {{"catch"}, {"finally"}, {"catch", "finally"}} :
        Enter(frames, [NewFrame("try", sp) EXCEPT !.has = has])
    /\ UNCHANGED <<sp, env, exc, jump, modules>>

\* What follows the try block and the catch block: finally, or the end.
AfterBlock ==
    /\ rec' = RecoveryAfter(Top)
    /\ frames' = IF "finally" \in Top.has
                 THEN WithTop([Top EXCEPT !.mode = "finally", !.out = Top.res,
                                          !.res = "normal"])
                 ELSE Returned(Top.res)

TryBodyEnds ==
    /\ ListOver("try") /\ Top.mode = "body"
    /\ AfterBlock
    /\ UNCHANGED <<sp, env, exc, jump, modules>>

\* The exception's value, pushed when the catch block was entered, is dropped.
CatchEnds ==
    /\ ListOver("try") /\ Top.mode = "catch"
    /\ AfterBlock
    /\ sp' = sp - 1
    /\ UNCHANGED <<env, exc, jump, modules>>

\* The finally block's own result is dropped. Without a catch block any
\* exception that is pending now, whoever left it, is raised again.
FinallyEnds ==
    /\ ListOver("try") /\ Top.mode = "finally"
    /\ \/ /\ "catch" \notin Top.has /\ exc # "none"
          /\ frames' = Upto(Depth - 1)
          /\ jump' = Top.rec
       \/ /\ "catch" \in Top.has \/ exc = "none"
          /\ frames' = Returned(Top.out)
          /\ UNCHANGED jump
    /\ UNCHANGED <<rec, sp, env, exc, modules>>

\* execute_foreach_statement: the collection is on the stack, the iterator
\* joins it, and the loop begins.
Foreach ==
    /\ InList /\ Top.tmp = 1 /\ Depth < MaxFrames /\ sp < MaxSp
    /\ frames' = Append(WithTop([Top EXCEPT !.tmp = 0]), NewFrame("foreach", sp - 1))
    /\ sp' = sp + 1
    /\ UNCHANGED <<rec, env, exc, jump, modules>>

\* A break of this loop, or its end, is over; a return or an outer loop's
\* break goes on.
ForeachEnds ==
    /\ ListOver("foreach")
    /\ \E r \in {"normal", Top.res} : frames' = Returned(r)
    /\ sp' = sp - 2
    /\ UNCHANGED <<rec, env, exc, jump, modules>>

-----------------------------------------------------------------------------
(* Programs and modules. *)

\* CRB_interpret
Interpret ==
    /\ frames = << >>
    /\ Enter(<< >>, NewFrame("main", sp))
    /\ UNCHANGED <<sp, env, exc, jump, modules>>

\* The assertion stack_pointer == 0 stops the program otherwise.
MainEnds ==
    /\ ListOver("main") /\ Top.res = "normal"
    /\ sp = 0
    /\ frames' = << >>
    /\ rec' = 0
    /\ UNCHANGED <<sp, env, exc, jump, modules>>

\* A return, break or continue that leaves the statements of a program or of a
\* module: BREAK_OR_CONTINUE_REACHED_TOPLEVEL_ERR
LeftToplevel ==
    /\ ListOver("main") \/ ListOver("module")
    /\ Top.res = "left"
    /\ Raise

\* CRB_import_model. A name imported before, even of a file that was not there,
\* is left alone.
AtImport(m) ==
    /\ AtStatement /\ m \notin modules
    /\ ImportAnywhere \/ sp = 0
    /\ modules' = modules \cup {m}

ImportMissing(m) ==
    /\ AtImport(m)
    /\ exc' = "ex" /\ jump' = rec
    /\ UNCHANGED <<frames, rec, sp, env>>

\* do_compile parses the file; no statement is executed meanwhile. A constant
\* expression that fails raises an exception, which do_compile's own handler
\* reports, by a native method: then the statements parsed so far are left, on
\* an empty stack.
Compiled == UNCHANGED <<sp, exc>> \/ (sp' = 0 /\ exc' = "none")

\* The statements of the file begin, if it has any.
Import(m) ==
    /\ AtImport(m)
    /\ Compiled
    /\ \/ Depth < MaxFrames /\ Enter(frames, NewFrame("module", sp'))
       \/ UNCHANGED <<frames, rec>>
    /\ UNCHANGED <<env, jump>>

\* interpret_module's last lines, then recovery_interpreter_state. The
\* assertion stack_pointer == 0 stops the program otherwise.
ModuleEnds ==
    /\ ListOver("module") /\ Top.res = "normal"
    /\ sp = 0
    /\ frames' = Upto(Depth - 1)
    /\ rec' = RecoveryAfter(Top)
    /\ UNCHANGED <<sp, env, exc, jump, modules>>

\* show_error_stack_trace calls the exception's print_stack_trace. What was
\* thrown need not be an exception: then it raises one of its own.
ShowCalls ==
    /\ Running /\ Top.kind = "show" /\ Top.mode = "body"
    /\ exc # "none" /\ Depth < MaxFrames
    /\ Enter(WithTop([Top EXCEPT !.mode = "printed"]), NewFrame("call", sp))
    /\ env' = env + 1
    /\ UNCHANGED <<sp, exc, jump, modules>>

ShowRaises ==
    /\ Running /\ Top.kind = "show" /\ Top.mode = "body"
    /\ Raise

\* The end of CRB_interpret's handler
ShowEnds ==
    /\ Running /\ Top.kind = "show" /\ Top.mode = "printed"
    /\ frames' = << >>
    /\ rec' = 0
    /\ sp' = 0 /\ exc' = "none"
    /\ UNCHANGED <<env, jump, modules>>

-----------------------------------------------------------------------------
(* Landing: the code after a setjmp that returned a second time. *)

Landing(K) == jump # 0 /\ jump <= Depth /\ frames[jump].kind \in K

\* A handler that goes on to the innermost recovery environment, its own.
NextTargetCurrent(f) == rec

\* A handler that goes straight to CRB_interpret.
NextTargetToplevel(f) == IF f.kind = "call" THEN 1 ELSE f.rec

\* longjmp(env_backup.environment)
NextTarget(f) == f.rec

\* A handler that leaves the callee's environment on the chain.
EnvDisposedNever(n) == n

\* dispose_local_environment
EnvDisposed(n) == n - 1

\* The handlers of eval_function_call_expression and CRB_call_function
LandCall ==
    /\ Landing({"call"})
    /\ frames' = Upto(jump - 1)
    /\ env' = EnvDisposed(env)
    /\ sp' = frames[jump].sp
    /\ jump' = NextTarget(frames[jump])
    /\ rec' = Dangling(jump)
    /\ UNCHANGED <<exc, modules>>

\* A handler that keeps what the unwound calls left on the stack.
StackRestoredNever(f) == sp

\* crb_set_stack_pointer(inter, stack_pointer_backup)
StackRestored(f) == f.sp

\* The handler of execute_try_statement. The catch block gets the exception,
\* on the stack too; without one *result is what the unwound statement left.
LandTry ==
    /\ Landing({"try"})
    /\ rec' = frames[jump].rec
    /\ jump' = 0
    /\ LET f == [frames[jump] EXCEPT !.tmp = 0, !.res = "normal"]
       IN  \/ /\ "catch" \in f.has
              /\ frames' = Append(Upto(jump - 1), [f EXCEPT !.mode = "catch"])
              /\ sp' = StackRestored(f) + 1
              /\ exc' = "none"
           \/ /\ "catch" \notin f.has
              /\ \E r \in {"normal", "left"} :
                    frames' = Append(Upto(jump - 1), [f EXCEPT !.mode = "finally", !.out = r])
              /\ sp' = StackRestored(f)
              /\ UNCHANGED exc
    /\ UNCHANGED <<env, modules>>

\* The handler of interpret_module
LandModule ==
    /\ Landing({"module"})
    /\ frames' = Upto(jump - 1)
    /\ sp' = 0
    /\ rec' = frames[jump].rec
    /\ jump' = NextTarget(frames[jump])
    /\ UNCHANGED <<env, exc, modules>>

\* The handlers of CRB_interpret and of show_error_stack_trace itself
LandMain ==
    /\ Landing({"main", "show"})
    /\ Enter(Upto(1), [NewFrame("show", sp) EXCEPT !.rec = 0])
    /\ jump' = 0
    /\ UNCHANGED <<sp, env, exc, modules>>

Land == LandCall \/ LandTry \/ LandModule \/ LandMain

-----------------------------------------------------------------------------
Init ==
    /\ frames = << >>
    /\ rec = 0
    /\ sp = 0
    /\ env = 0
    /\ exc = "none"
    /\ jump = 0
    /\ modules = {}

Evaluate == Push \/ EndExpression \/ Call \/ CallReturns
RaiseStep == Throw \/ RuntimeError
Execute == \/ Leave \/ Try \/ TryBodyEnds \/ CatchEnds \/ FinallyEnds
           \/ Foreach \/ ForeachEnds
Toplevel == \/ Interpret \/ MainEnds \/ LeftToplevel \/ ModuleEnds
            \/ ShowCalls \/ ShowRaises \/ ShowEnds
            \/ \E m \in Modules : ImportMissing(m) \/ Import(m)

Next == Evaluate \/ RaiseStep \/ Execute \/ Toplevel \/ Land

Spec == Init /\ [][Next]_vars

\* The code that follows a setjmp is straight-line code of one thread: a
\* longjmp that can land does.
FairSpec == Spec /\ WF_vars(Land)

-----------------------------------------------------------------------------
(* Properties. *)

\* The types of the variables, a part of StackAccounted.
TypeOK ==
    /\ frames \in Seq(Frame) /\ Depth <= MaxFrames
    /\ rec \in 0 .. Depth
    /\ sp \in Nat /\ \A i \in 1 .. Depth : frames[i].sp \in Nat
    /\ env \in 0 .. MaxFrames
    /\ exc \in {"none", "ex"}
    /\ jump \in 0 .. Depth
    /\ modules \subseteq Modules

\* A frame whose setjmp is in force: any but a loop and a try whose block is
\* over.
Guards(f) == f.kind # "foreach" /\ ~(f.kind = "try" /\ f.mode # "body")

\* The recovery environment is always the innermost function whose setjmp is in
\* force, whatever mix of returns, breaks, errors, catch and finally blocks and
\* imports led there: an exception raised now is offered to that one first, and
\* never sent into a function that has returned.
RecoveryIsInnermost ==
    Running => /\ rec \in 1 .. Depth
               /\ Guards(frames[rec])
               /\ \A i \in rec + 1 .. Depth : ~Guards(frames[i])

\* A longjmp on its way goes to a function that is still active and whose
\* setjmp is in force.
JumpsIntoLiveFrame == jump # 0 => jump <= Depth /\ Guards(frames[jump])

\* What a frame has on the evaluation stack when the next frame starts.
OwnValues(f) ==
    f.tmp + (IF f.kind = "foreach" THEN 2
             ELSE IF f.kind = "try" /\ f.mode = "catch" THEN 1 ELSE 0)
Above(f) == f.sp + OwnValues(f)

\* The evaluation stack holds what the active functions put there and nothing
\* else, so a value is never popped by a function that did not push it, after
\* whatever unwinding. The report of an uncaught exception is the exception: it
\* runs on top of what the failed program left. Every variable keeps its type.
StackAccounted ==
    TypeOK /\ ((Running /\ \A i \in 1 .. Depth : frames[i].kind # "show") =>
        /\ frames[1].sp = 0
        /\ \A i \in 1 .. Depth - 1 : frames[i + 1].sp = Above(frames[i])
        /\ sp = Above(Top))

IsCall(f) == f.kind = "call"

\* The environment chain has one environment for each call in progress, also
\* after calls were unwound: no callee's variables stay in force.
EnvPerCall ==
    (Running \/ frames = << >>) =>
        env = Cardinality({i \in 1 .. Depth : IsCall(frames[i])})

\* A try statement that has a finally block is never left from its try block:
\* its catch or its finally block comes first, however deep in calls the
\* exception was raised, and whatever return or break ended the block.
TryNotSkipped ==
    [][\A i \in 1 .. Depth :
        (frames[i].kind = "try" /\ frames[i].mode = "body" /\ frames[i].has # {"catch"})
        => i <= Len(frames') /\ frames'[i].kind = "try"]_vars

\* Every longjmp ends in a handler that resumes the program: unwinding does not
\* go on for ever.
EveryJumpLands == (jump # 0) ~> (jump = 0)

\* DBG_assert(interpreter->stack.stack_pointer == 0, ...) at the end of
\* interpret_module (tinterpreter.c:305). A module may end after any of its
\* statements.
ModuleEndsOnEmptyStack == ListOver("module") /\ Top.res = "normal" => sp = 0
=============================================================================
