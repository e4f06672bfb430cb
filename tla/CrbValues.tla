----------------------------- MODULE CrbValues -----------------------------
(* What crowbar's operators compute (src/tlang/teval.c), and the parser that *)
(* computes an operator of two numeric literals at once and keeps the result *)
(* in their place (src/tlang/tcode.c).  A value is <<type, value>>.  What a   *)
(* double's value is, is not tracked, so an evaluation has a set of outcomes; *)
(* an error raised is one of them.                                           *)
EXTENDS Integers, Sequences, FiniteSets

CONSTANTS
    LongMax,        \* LONG_MAX
    Literals,       \* the values of the program's literals
    Candidates,     \* the values its variable x may have
    MaxNodes        \* bound on the number of expressions, for model checking

VARIABLES
    written,    \* the expressions of the program in the order they are parsed
    built,      \* what the parser made of each
    operands,   \* the places in both of those that are not yet part of another
    raised      \* the error folding raised: << >> until then

valueVars == <<written, built, operands, raised>>

(* The operands of an expression are places of earlier ones, or 0 *)
Literal(v) == [kind |-> "literal", value |-> v, left |-> 0, right |-> 0]
Operator(kind, i, j) == [kind |-> kind, value |-> << >>, left |-> i, right |-> j]

LongMin == - LongMax - 1
MathOps == {"+", "-", "*", "/", "%"}
CompareOps == {"==", "!=", ">", ">=", "<", "<="}
LogicalOps == {"&&", "||"}
BinaryOps == MathOps \cup CompareOps \cup LogicalOps \cup {".."}

Type(v) == v[1]
Long(n) == <<"int", n>>
Bool(b) == <<"boolean", b>>
Booleans == {Bool(TRUE), Bool(FALSE)}
Error(id) == <<"error", id>>
Abort(why) == <<"abort", why>>  \* a failed assertion, or a signal

Failed(outcomes) == {o \in outcomes : Type(o) \in {"error", "abort"}}
Values(outcomes) == outcomes \ Failed(outcomes)
Numeric(v) == Type(v) \in {"int", "float"}

-----------------------------------------------------------------------------
(* Operators *)

(* long arithmetic wraps; division truncates towards zero *)
Wrap(n) == ((n - LongMin) % (LongMax - LongMin + 1)) + LongMin
Abs(n) == IF n < 0 THEN -n ELSE n
Quotient(l, r) == IF (l < 0) = (r < 0) THEN Abs(l) \div Abs(r) ELSE -(Abs(l) \div Abs(r))

Holds(op, sign) ==
    CASE op = "==" -> sign = 0 [] op = "!=" -> sign # 0
      [] op = ">" -> sign > 0  [] op = ">=" -> sign >= 0
      [] op = "<" -> sign < 0  [] op = "<=" -> sign <= 0

Arithmetic(op, l, r) ==
    CASE op = "+" -> l + r [] op = "-" -> l - r [] op = "*" -> l * r
      [] op = "/" -> Quotient(l, r) [] op = "%" -> l - r * Quotient(l, r)

(* LONG_MIN divided by -1 is not caught, and raises a signal *)
EvalBinaryInt(op, l, r) ==
    CASE op \in LogicalOps -> {Error("LOGICAL_OP_INTEGER_OPERAND_ERR")}
      [] op = ".." -> {Abort("DBG_assert")}
      [] op \in CompareOps -> {Bool(Holds(op, l - r))}
      [] op \in {"/", "%"} /\ r = 0 -> {Error("DIVISION_BY_ZERO_ERR")}
      [] op \in {"/", "%"} /\ l = LongMin /\ r = -1 -> {Abort("SIGFPE")}
      [] OTHER -> {Long(Wrap(Arithmetic(op, l, r)))}

EvalBinaryDouble(op) ==
    CASE op \in LogicalOps -> {Error("LOGICAL_OP_DOUBLE_OPERAND_ERR")}
      [] op = ".." -> {Abort("DBG_assert")}
      [] op \in CompareOps -> Booleans
      [] OTHER -> {<<"float">>}

EvalBinaryNumeric(op, l, r) ==
    IF Type(l) = "int" /\ Type(r) = "int" THEN EvalBinaryInt(op, l[2], r[2])
    ELSE EvalBinaryDouble(op)

EvalBinaryBoolean(op, l, r) ==
    IF op \in {"==", "!="} THEN {Bool((l = r) = (op = "=="))}
    ELSE {Error("NOT_BOOLEAN_OPERATOR_ERR")}

(* A string is the sequence of what it was put together from *)
Text(v) == IF Type(v) = "string" THEN v[2] ELSE <<v>>
ChainString(l, r) == <<"string", Text(l) \o Text(r)>>

(* Texts put together differently may be the same, and so may those of doubles *)
EvalCompareString(op, l, r) ==
    LET same == l = r /\ \A i \in 1..Len(l[2]) : Type(l[2][i]) # "float" IN
    IF op \notin CompareOps THEN {Error("BAD_OPERATOR_FOR_STRING_ERR")}
    ELSE {Bool(Holds(op, cmp)) : cmp \in IF same THEN {0} ELSE -1..1}

EvalBinaryNull(op, l, r) ==
    IF op \in {"==", "!="} THEN {Bool((l = r) = (op = "=="))}
    ELSE {Error("NOT_NULL_OPERATOR_ERR")}

IsObject(v) == Type(v) \in {"string", "array"}

(* Two objects are compared whatever the operator is *)
EvalBinary(op, l, r) ==
    CASE Numeric(l) /\ Numeric(r) -> EvalBinaryNumeric(op, l, r)
      [] Type(l) = "boolean" /\ Type(r) = "boolean" -> EvalBinaryBoolean(op, l, r)
      [] Type(l) = "string" /\ op = "+" -> {ChainString(l, r)}
      [] Type(l) = "string" /\ Type(r) = "string" /\ op # "+" -> EvalCompareString(op, l, r)
      [] "null" \in {Type(l), Type(r)} /\ ~ (Type(l) = "string" /\ op = "+") ->
            EvalBinaryNull(op, l, r)
      [] IsObject(l) /\ IsObject(r) /\ {Type(l), Type(r)} # {"string"}
                     /\ ~ (Type(l) = "string" /\ op = "+") -> {Bool(l = r)}
      [] OTHER -> {Error("BAD_OPERAND_TYPE_ERR")}

(* The right operand's type is not looked at: of another value, some bits are *)
(* taken for a boolean                                                        *)
EvalLogical(op, l, rights) ==
    IF Type(l) # "boolean" THEN {Error("NOT_BOOLEAN_TYPE_ERR")}
    ELSE IF l[2] = (op = "||") THEN {l}
    ELSE Failed(rights) \cup
         UNION {IF Type(r) = "boolean" THEN {r} ELSE Booleans : r \in Values(rights)}

EvalMinus(v) ==
    CASE Type(v) = "int" -> Long(Wrap(- v[2])) [] Type(v) = "float" -> v
      [] OTHER -> Error("MINUS_OPERAND_TYPE_ERR")

EvalNot(v) ==
    IF Type(v) = "boolean" THEN Bool(~ v[2]) ELSE Error("NOT_BOOLEAN_TYPE_ERR")

(* What an expression can result in when its operands can in these, and x has *)
(* this value                                                                 *)
Eval(e, left, right, x) ==
    LET both == Failed(left) \cup (IF Values(left) = {} THEN {} ELSE Failed(right))
    IN  CASE e.kind = "literal" -> {e.value}
          [] e.kind = "x" -> {x}
          [] e.kind = "minus" -> Failed(left) \cup {EvalMinus(v) : v \in Values(left)}
          [] e.kind = "not" -> Failed(left) \cup {EvalNot(v) : v \in Values(left)}
          [] e.kind \in LogicalOps ->
                Failed(left) \cup UNION {EvalLogical(e.kind, l, right) : l \in Values(left)}
          [] e.kind = ".." ->
                both \cup {ChainString(l, r) : l \in Values(left), r \in Values(right)}
          [] OTHER ->
                both \cup UNION {EvalBinary(e.kind, l, r) : l \in Values(left), r \in Values(right)}

(* What each of the allocated expressions can result in *)
Meanings(expressions, x) ==
    LET eval[i \in 0..Len(expressions)] ==
          IF i = 0 THEN {}
          ELSE Eval(expressions[i], eval[expressions[i].left], eval[expressions[i].right], x)
    IN  eval

(* x op= v.  Nothing is computed for other operands: x becomes what memory    *)
(* the result had                                                             *)
AssignOperator(op, dest, src) ==
    IF Type(dest) = "string" /\ op = "+" THEN {ChainString(dest, src)}
    ELSE IF Numeric(dest) /\ Numeric(src) THEN EvalBinaryNumeric(op, dest, src)
    ELSE {<<"uninitialized">>}

-----------------------------------------------------------------------------
(* The parser *)

NumericLiteral(e) == e.kind = "literal" /\ Numeric(e.value)

\* The type of a comparison's result is not taken over.
SetExpressionNumbers(e, v) == IF Numeric(v) THEN Literal(v) ELSE e

SetExpression(e, v) == IF Numeric(v) \/ Type(v) = "boolean" THEN Literal(v) ELSE e

CreateMinus(i) ==
    IF NumericLiteral(built[i]) THEN SetExpression(built[i], EvalMinus(built[i].value))
    ELSE Operator("minus", i, 0)

CreateNot(i) == Operator("not", i, 0)

ValuesInit == written = << >> /\ built = << >> /\ operands = << >> /\ raised = << >>

MayParse == raised = << >> /\ Len(written) < MaxNodes

Primary(e) ==
    /\ MayParse /\ Len(operands) < 2
    /\ written' = Append(written, e) /\ built' = Append(built, e)
    /\ operands' = Append(operands, Len(written) + 1)
    /\ UNCHANGED raised

Unary(kind) ==
    LET n == Len(operands) IN
    /\ MayParse /\ n > 0
    /\ written' = Append(written, Operator(kind, operands[n], 0))
    /\ built' = Append(built, IF kind = "minus" THEN CreateMinus(operands[n])
                                               ELSE CreateNot(operands[n]))
    /\ operands' = [operands EXCEPT ![n] = Len(written) + 1]
    /\ UNCHANGED raised

(* An error leaves the parser for do_compile, and the statement is lost *)
CreateBinary(op, i, j) ==
    IF NumericLiteral(built[i]) /\ NumericLiteral(built[j])
    THEN \E v \in EvalBinary(op, built[i].value, built[j].value) :
            IF v \in Failed({v}) THEN raised' = v /\ UNCHANGED built
            ELSE built' = Append(built, SetExpression(built[i], v)) /\ UNCHANGED raised
    ELSE built' = Append(built, Operator(op, i, j)) /\ UNCHANGED raised

Binary(op) ==
    /\ MayParse /\ Len(operands) = 2
    /\ written' = Append(written, Operator(op, operands[1], operands[2]))
    /\ CreateBinary(op, operands[1], operands[2])
    /\ operands' = <<Len(written) + 1>>

ValuesNext ==
    \/ \E v \in Literals : Primary(Literal(v))
    \/ Primary(Operator("x", 0, 0))
    \/ \E kind \in {"minus", "not"} : Unary(kind)
    \/ \E op \in BinaryOps : Binary(op)

ValuesSpec == ValuesInit /\ [][ValuesNext]_valueVars

-----------------------------------------------------------------------------

(* Whatever x is, the tree the parser built computes what the expression says, *)
(* folded or not, at any depth; and what the parser refuses while folding      *)
(* would have failed in evaluation too, though an operator of two numbers that *)
(* makes no sense for them may fail otherwise, or be a concatenation.          *)
(* x op= e is x = x op e wherever it is defined (crb_create_binary_expression, *)
(* crb_create_minus_expression, do_assign).                                    *)
FoldingKeepsMeaning ==
    \A x \in Candidates :
      LET asBuilt == Meanings(built, x)
          asWritten == Meanings(written, x)
      IN  /\ \A i \in 1..Len(built) : asBuilt[i] \subseteq asWritten[i]
          /\ raised # << >> =>
                \/ raised \in asWritten[Len(written)]
                \/ /\ written[Len(written)].kind \in LogicalOps
                   /\ Failed(asWritten[Len(written)]) # {}
                \/ written[Len(written)].kind = ".."
          /\ \A i \in 1..Len(built) : \A v \in Values(asBuilt[i]), op \in MathOps :
                \/ AssignOperator(op, x, v) = EvalBinary(op, x, v)
                \/ /\ AssignOperator(op, x, v) = {<<"uninitialized">>}
                   /\ \A o \in EvalBinary(op, x, v) : Type(o) \in {"error", "boolean"}

(* eval_binary_int and eval_binary_double are only called with an operator     *)
(* they have a case for: DBG_assert(crb_is_logical_operator(operator)).        *)
OperatorAsserted == raised # Abort("DBG_assert")

=============================================================================
