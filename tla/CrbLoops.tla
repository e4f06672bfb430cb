----------------------------- MODULE CrbLoops ------------------------------
(***************************************************************************)
(* Loops, branches and labels of the crowbar interpreter (texecute.c).      *)
(* A statement leaves a StatementResult to the statement list it stands in: *)
(* normal, or a break, continue or return on its way out.  A list stops at  *)
(* the first result that is not normal, and a loop compares labels.         *)
(*                                                                         *)
(* `ctl` is the C stack of the functions of texecute.c in progress, and of   *)
(* the calls between them.  Which statement comes next and what a condition *)
(* yields is the program's choice.  Exceptions are CrbExec's subject.       *)
(***************************************************************************)
EXTENDS Naturals, Sequences, FiniteSetsExt

CONSTANTS
    Labels,     \* labels of a program's loops
    UNLABELED,  \* a loop or a jump without one
    MaxDepth    \* bound on the nesting

VARIABLES
    ctl,        \* functions in progress, the innermost last
    result,     \* the StatementResult of the innermost call
    aim         \* history: the index in ctl of the loop, or the call, that the
                \* last jump is meant for; 0 for the end of the program

loopVars == <<ctl, result, aim>>

Loops == {"while", "for", "foreach"}
Normal == [type |-> "normal", label |-> UNLABELED]

\* ran: an elif of this if statement was executed.  saved: the caller's result
\* and aim, which are C variables of their own.
Function(op, label, at) ==
    [op |-> op, label |-> label, at |-> at, ran |-> FALSE, saved |-> <<Normal, 0>>]
List == Function("list", UNLABELED, "next")

Depth == Len(ctl)
Innermost == ctl[Depth]
At(ops, at) == ctl # << >> /\ Innermost.op \in ops /\ Innermost.at = at

Goto(at) == ctl' = [ctl EXCEPT ![Depth].at = at]
Return == ctl' = SubSeq(ctl, 1, Depth - 1)

\* crb_execute_statement_list, called by f, the innermost function from now on
RunList(f) ==
    /\ Depth < MaxDepth
    /\ ctl' = Append([ctl EXCEPT ![Depth] = f], List)
    /\ result' = Normal
    /\ UNCHANGED aim

-----------------------------------------------------------------------------
(* Statement lists and jumps. *)

AtStatement == At({"list"}, "next") /\ result.type = "normal"

Statement(op, label, at) ==
    /\ AtStatement /\ Depth < MaxDepth
    /\ ctl' = Append(ctl, Function(op, label, at))
    /\ result' = Normal
    /\ UNCHANGED aim

\* A for statement's init, and the iterator of a foreach, come first.
Loop == \E op \in Loops, label \in Labels \cup {UNLABELED} : Statement(op, label, "condition")
If == Statement("if", UNLABELED, "if")

\* What a jump from here is meant for: the innermost loop of this call that has
\* the label, or any loop if the jump has none.
Aim(type, label) ==
    LET call == Max({0} \cup {i \in DOMAIN ctl : ctl[i].op = "call"})
        loops == {i \in call + 1 .. Depth :
                    ctl[i].op \in Loops /\ label \in {UNLABELED, ctl[i].label}}
    IN  IF type = "return" THEN call ELSE Max({call} \cup loops)

\* execute_break_statement, execute_continue_statement, execute_return_statement
Jump(type, label) ==
    /\ AtStatement
    /\ type = "return" => label = UNLABELED
    /\ result' = [type |-> type, label |-> label]
    /\ aim' = Aim(type, label)
    /\ Return

\* The list is over, or the statement before left a result that is not normal.
ListReturns == At({"list"}, "next") /\ Return /\ UNCHANGED <<result, aim>>

-----------------------------------------------------------------------------
(* Loops. *)

\* A comparison that takes any loop for the one named.
CompareAnyLabel(result_label, loop_label, current_result) == "normal"

CompareLabels(result_label, loop_label, current_result) ==
    IF result_label \in {UNLABELED, loop_label} THEN "normal" ELSE current_result

Compared == [result EXCEPT !.type = CompareLabels(result.label, Innermost.label, result.type)]

\* The condition holds, or is_done of the iterator does not.
LoopRound == At(Loops, "condition") /\ RunList([Innermost EXCEPT !.at = "body"])

\* The loop ends by its condition. The result of the last round stays.
LoopEnds == At(Loops, "condition") /\ Return /\ UNCHANGED <<result, aim>>

\* The post expression, or the iterator's next, and the condition come next.
BodyEnds ==
    /\ At(Loops, "body") /\ result.type \in {"normal", "continue"}
    /\ result' = IF result.type = "continue" THEN Compared ELSE result
    /\ Goto(IF Innermost.op = "while" THEN "condition" ELSE "post")
    /\ UNCHANGED aim

BodyLeft ==
    /\ At(Loops, "body") /\ result.type \in {"break", "return"}
    /\ result' = IF result.type = "break" THEN Compared ELSE result
    /\ Return
    /\ UNCHANGED aim

Post == At(Loops, "post") /\ Goto("condition") /\ UNCHANGED <<result, aim>>

-----------------------------------------------------------------------------
(* Branches. *)

IfHolds == At({"if"}, "if") /\ RunList([Innermost EXCEPT !.at = "branch"])
IfFails == At({"if"}, "if") /\ Goto("elif") /\ UNCHANGED <<result, aim>>

\* execute_elif: a branch that ends normally does not end the list of elifs.
ElifHolds == At({"if"}, "elif") /\ RunList([Innermost EXCEPT !.at = "elif ran", !.ran = TRUE])
ElifNormal ==
    /\ At({"if"}, "elif ran") /\ result.type = "normal"
    /\ Goto("elif") /\ UNCHANGED <<result, aim>>

Else == At({"if"}, "elif") /\ ~ Innermost.ran /\ RunList([Innermost EXCEPT !.at = "branch"])

\* No elif is left and there is no else block or none to run, or a branch is over.
IfReturns ==
    /\ \/ At({"if"}, "elif") \/ At({"if"}, "branch")
       \/ At({"if"}, "elif ran") /\ result.type # "normal"
    /\ Return /\ UNCHANGED <<result, aim>>

-----------------------------------------------------------------------------
(* Calls, in any expression. *)

Call ==
    /\ AtStatement \/ At(Loops, "condition") \/ At(Loops, "post") \/ At({"if"}, "if")
    /\ Depth + 1 < MaxDepth
    /\ ctl' = ctl \o <<[Function("call", UNLABELED, "body") EXCEPT !.saved = <<result, aim>>], List>>
    /\ result' = Normal
    /\ UNCHANGED aim

\* call_crowbar_function: whatever is not a return ends here.
CallReturns ==
    /\ At({"call"}, "body")
    /\ result' = Innermost.saved[1] /\ aim' = Innermost.saved[2]
    /\ Return

LoopInit == ctl = <<List>> /\ result = Normal /\ aim = 0

LoopNext ==
    \/ Loop \/ If \/ ListReturns
    \/ \E type \in {"break", "continue", "return"}, label \in Labels \cup {UNLABELED} : Jump(type, label)
    \/ LoopRound \/ LoopEnds \/ BodyEnds \/ BodyLeft \/ Post
    \/ IfHolds \/ IfFails \/ ElifHolds \/ ElifNormal \/ Else \/ IfReturns
    \/ Call \/ CallReturns

LoopSpec == LoopInit /\ [][LoopNext]_loopVars

-----------------------------------------------------------------------------
(* Properties. *)

Settles(type) == result.type = type /\ result'.type # type

\* A jump goes where it is meant to. A break or a return only leaves: nothing
\* runs, and no loop or call is entered, before it is there. A break leaves the
\* loop it names, the loops inside it and no other. A continue leaves neither
\* the loop it names nor one outside; if it names an outer loop, the inner ones
\* go on, and their next round forgets it. None of them leaves a call
\* (compare_labels, the loops of texecute.c, call_crowbar_function).
Lands ==
    /\ result.type \in {"break", "return"} => Len(ctl') = Depth - 1
    /\ Settles("break") => Depth = aim
    /\ Settles("return") => Depth = aim
    /\ result.type = "break" => Depth >= aim
    /\ Settles("continue") => Depth = aim \/ Len(ctl') > Depth
    /\ result.type = "continue" /\ Len(ctl') < Depth =>
            Depth > aim \/ (Depth = aim /\ Innermost.op = "call")

JumpsLand == [][Lands]_loopVars

=============================================================================
