------------------------------ MODULE CrbNames ------------------------------
(* What a name means in a crowbar program: the searches of                   *)
(* src/tlang/tmisc.c and the expressions and statements of teval.c,          *)
(* texecute.c and tinterpreter.c that read, create and assign variables.     *)
(* Programs come from files, so the functions of a module are defined        *)
(* before its first statement runs.  Which statement comes next is the       *)
(* program's choice, and so is which expression yields a function or module. *)
EXTENDS Naturals, Sequences, FiniteSets

CONSTANTS
    Names,          \* identifiers
    Modules,        \* the modules a program is made of
    main,           \* the one that is run
    builtin,        \* the tables of the interpreter itself: module NULL
    BuiltinNames,   \* STDIN and its like, final
    Functions,      \* <<module, name>> of every function defined
    Bound,          \* the names its parameters and closures have
    NOTHING,           \* a search that found nothing
    MaxVariables, MaxFrames, MaxCalls   \* bounds, for model checking

ASSUME NamesAssumption ==
    /\ main \in Modules /\ builtin \notin Modules
    /\ BuiltinNames \subseteq Names /\ IsFiniteSet(BuiltinNames) /\ Bound \subseteq Names
    /\ Functions \subseteq (Modules \cup {builtin}) \X Names
    /\ NOTHING \notin Nat \cup Functions

VARIABLES
    variables,      \* every Variable and AssocMember made, by address
    frames,         \* the frame of each scope chain object: name -> address
    global_vars,    \* the table of each module: name -> address
    modules,        \* inter->modules
    contexts,       \* top-level code and calls in progress, the innermost last
    closures        \* the closure values at hand

namesVars == <<variables, frames, global_vars, modules, contexts, closures>>

\* Of a value only this matters: the one the variable was made with, or one
\* assigned since.
Variable == [value : {"first", "later"}, is_final : BOOLEAN]
Tables == UNION {[S -> Nat] : S \in SUBSET Names}
ContextType == [module : Modules \cup {builtin},
                scope_chain : Seq(Nat),     \* innermost frame first; top level: none
                global_var_refs : Tables]
Closure == [module : Modules \cup {builtin}, name : Names \cup {NOTHING}, scope_chain : Seq(Nat)]

Made(final) == [value |-> "first", is_final |-> final]
Context(m, chain) == [module |-> m, scope_chain |-> chain, global_var_refs |-> << >>]
Top == contexts[Len(contexts)]
Toplevel(c) == c.scope_chain = << >>
Bind(table, n, a) == [k \in DOMAIN table \cup {n} |-> IF k = n THEN a ELSE table[k]]

-----------------------------------------------------------------------------
(* Searches *)

FramesWith(c, n) == {i \in DOMAIN c.scope_chain : n \in DOMAIN frames[c.scope_chain[i]]}

Nearest(depths) == CHOOSE i \in depths : \A j \in depths : i <= j

SearchLocal(c, n) ==
    IF FramesWith(c, n) = {} THEN NOTHING
    ELSE frames[c.scope_chain[Nearest(FramesWith(c, n))]][n]

SearchGlobal(m, n) == IF n \in DOMAIN global_vars[m] THEN global_vars[m][n] ELSE NOTHING

\* A module's own variable hides the interpreter's.
SearchBoth(m, n) ==
    IF SearchGlobal(m, n) # NOTHING THEN SearchGlobal(m, n) ELSE SearchGlobal(builtin, n)

GlobalFromEnv(c, n) ==
    IF Toplevel(c) THEN SearchBoth(c.module, n)
    ELSE IF n \in DOMAIN c.global_var_refs THEN c.global_var_refs[n] ELSE NOTHING

LValue(c, n) ==
    IF SearchLocal(c, n) # NOTHING THEN SearchLocal(c, n) ELSE GlobalFromEnv(c, n)

\* Only the top level looks at is_final.
IsFinalToplevel(c, n) == Toplevel(c) /\ LValue(c, n) # NOTHING /\ variables[LValue(c, n)].is_final

\* A search through a global statement's reference does not report is_final.
IsFinal(c, n) ==
    /\ SearchLocal(c, n) # NOTHING \/ Toplevel(c)
    /\ LValue(c, n) # NOTHING /\ variables[LValue(c, n)].is_final

FunctionSeen(m, n) ==
    IF <<m, n>> \in Functions THEN <<m, n>>
    ELSE IF <<builtin, n>> \in Functions THEN <<builtin, n>> ELSE NOTHING

VariableAt(a) == IF a = NOTHING THEN NOTHING ELSE <<"variable", a>>

\* What an identifier stands for: a variable, then a function.
Identifier(c, n) ==
    IF LValue(c, n) # NOTHING THEN VariableAt(LValue(c, n)) ELSE FunctionSeen(c.module, n)

\* What module.n stands for: a function, then a variable.
Member(m, n) == IF <<m, n>> \in Functions THEN <<m, n>> ELSE VariableAt(SearchGlobal(m, n))

-----------------------------------------------------------------------------

NamesInit ==
    /\ variables \in [1 .. Cardinality(BuiltinNames) -> {Made(TRUE)}]
    /\ frames = << >>
    /\ \E address \in [BuiltinNames -> DOMAIN variables] :
           /\ \A n, o \in BuiltinNames : address[n] = address[o] => n = o
           /\ global_vars = [m \in Modules \cup {builtin} |->
                                IF m = builtin THEN address ELSE << >>]
    /\ modules = {main}
    /\ contexts = <<Context(main, << >>)>>
    /\ closures = {}

NewVariable(final) == Append(variables, Made(final))
Fresh == Len(variables) + 1

AddGlobal(m, n, final) ==
    /\ global_vars' = [global_vars EXCEPT ![m] = Bind(@, n, Fresh)]
    /\ variables' = NewVariable(final)
    /\ UNCHANGED frames

\* A new variable of a call goes into its own frame.
AddLocal(n, final) ==
    LET own == Top.scope_chain[1] IN
    /\ frames' = [frames EXCEPT ![own] = Bind(@, n, Fresh)]
    /\ variables' = NewVariable(final)
    /\ UNCHANGED global_vars

DoAssign(a) ==
    /\ variables' = [variables EXCEPT ![a].value = "later"]
    /\ UNCHANGED <<frames, global_vars>>

\* No function stands in the way of a new global variable.
MayDefine(m, n) == FunctionSeen(m, n) = NOTHING

\* m.n = v does not look for a function of m.
MayDefineMemberAlways(m, n) == <<builtin, n>> \notin Functions

MayDefineMember(m, n) == <<m, n>> \notin Functions

(* n = v, final n = v, and the variable of a foreach *)
AssignName(n, final) ==
    /\ ~IsFinal(Top, n)
    /\ IF LValue(Top, n) # NOTHING THEN DoAssign(LValue(Top, n))
       ELSE /\ Fresh <= MaxVariables
            /\ IF Toplevel(Top)
               THEN MayDefine(Top.module, n) /\ AddGlobal(Top.module, n, final)
               ELSE AddLocal(n, final)
    /\ UNCHANGED <<modules, contexts, closures>>

MemberFinal(m, n) == variables[SearchGlobal(m, n)].is_final

(* m.n = v *)
AssignMember(m, n, final) ==
    /\ IF SearchGlobal(m, n) # NOTHING
       THEN ~MemberFinal(m, n) /\ DoAssign(SearchGlobal(m, n))
       ELSE Fresh <= MaxVariables /\ MayDefineMember(m, n) /\ AddGlobal(m, n, final)
    /\ UNCHANGED <<modules, contexts, closures>>

(* global n *)
GlobalStatement(n) ==
    /\ ~Toplevel(Top) /\ n \notin DOMAIN Top.global_var_refs
    /\ SearchBoth(Top.module, n) # NOTHING
    /\ contexts' = [contexts EXCEPT ![Len(contexts)].global_var_refs =
                        Bind(@, n, SearchBoth(Top.module, n))]
    /\ UNCHANGED <<variables, frames, global_vars, modules, closures>>

\* The new environment's frame: the closure's own name, final, and then the
\* parameter, which replaces it if they are the same.
Bindings(own, parameter) ==
    (IF own \in {NOTHING, parameter} THEN << >> ELSE <<[name |-> own, is_final |-> TRUE]>>) \o
    (IF parameter = NOTHING THEN << >> ELSE <<[name |-> parameter, is_final |-> FALSE]>>)

Enter(m, own, chain, parameter) ==
    LET bound == Bindings(own, parameter)
        place(n) == CHOOSE i \in DOMAIN bound : bound[i].name = n
    IN  /\ Len(contexts) < MaxCalls /\ Len(frames) < MaxFrames
        /\ Len(variables) + Len(bound) <= MaxVariables
        /\ variables' = variables \o [i \in DOMAIN bound |-> Made(bound[i].is_final)]
        /\ frames' = Append(frames, [n \in {bound[i].name : i \in DOMAIN bound} |->
                                         Len(variables) + place(n)])
        /\ contexts' = Append(contexts, Context(m, <<Len(frames) + 1>> \o chain))
        /\ UNCHANGED <<global_vars, modules, closures>>

(* A call of a function, by its name or as a member of its module *)
CallFunction(m, n, parameter) ==
    /\ m \in modules \cup {builtin} /\ <<m, n>> \in Functions
    /\ Enter(m, NOTHING, << >>, parameter)

(* A closure keeps the scope chain it is evaluated in *)
ClosureExpression(own) ==
    /\ closures = {}
    /\ closures' = {[module |-> Top.module, name |-> own, scope_chain |-> Top.scope_chain]}
    /\ UNCHANGED <<variables, frames, global_vars, modules, contexts>>

CallClosure(k, parameter) ==
    Enter(k.module, k.name, k.scope_chain, parameter)

(* import: a second import of the same name does nothing *)
Import(m) ==
    /\ m \notin modules /\ Len(contexts) < MaxCalls
    /\ modules' = modules \cup {m}
    /\ contexts' = Append(contexts, Context(m, << >>))
    /\ UNCHANGED <<variables, frames, global_vars, closures>>

(* A call returns or a module ends (k is one less than the depth), or an     *)
(* exception is caught k contexts deep.  With the main program all ends.     *)
Unwind(k) ==
    /\ contexts' = SubSeq(contexts, 1, k)
    /\ UNCHANGED <<variables, frames, global_vars, modules, closures>>

NamesNext ==
    \/ \E n \in Names, final \in BOOLEAN : AssignName(n, final)
    \/ \E m \in modules, n \in Names, final \in BOOLEAN : AssignMember(m, n, final)
    \/ \E n \in Names : GlobalStatement(n)
    \/ \E m \in Modules \cup {builtin}, n \in Names, p \in Bound \cup {NOTHING} :
           CallFunction(m, n, p)
    \/ \E own \in Bound \cup {NOTHING} : ClosureExpression(own)
    \/ \E k \in closures, p \in Bound \cup {NOTHING} : CallClosure(k, p)
    \/ \E m \in Modules : Import(m)
    \/ \E k \in 1 .. Len(contexts) - 1 : Unwind(k)

NamesSpec == NamesInit /\ [][NamesNext]_namesVars

-----------------------------------------------------------------------------
(* Properties *)

\* The types of the variables: NamesTypeCorrect in Parts_proofs.
NamesTypeOK ==
    /\ variables \in Seq(Variable)
    /\ frames \in Seq(Tables)
    /\ global_vars \in [Modules \cup {builtin} -> Tables]
    /\ modules \subseteq Modules
    /\ contexts \in Seq(ContextType) /\ contexts # << >>
    /\ closures \subseteq Closure

\* A final variable, final closure name or built-in keeps its value whatever
\* function, closure or module writes under whatever name, as long as no call
\* writes it through a global statement: that path does not look at is_final.
FinalsKept ==
    [][\A a \in DOMAIN variables :
           variables[a].is_final =>
               \/ variables'[a] = variables[a]
               \/ \E n \in DOMAIN Top.global_var_refs : Top.global_var_refs[n] = a]_namesVars

\* m.n and n in m's own top-level code mean the same, although the two search
\* variables and functions in opposite orders; a function with the name of a
\* built-in variable is the exception.  And a global statement's reference is
\* a variable some table still holds: none has been replaced.
LookupsAgree ==
    /\ \A m \in modules, n \in Names \ BuiltinNames :
           Member(m, n) # NOTHING => Identifier(Context(m, << >>), n) = Member(m, n)
    /\ \A i \in DOMAIN contexts : \A n \in DOMAIN contexts[i].global_var_refs :
           contexts[i].global_var_refs[n] \in
               {SearchGlobal(contexts[i].module, n), SearchGlobal(builtin, n)}

=============================================================================
