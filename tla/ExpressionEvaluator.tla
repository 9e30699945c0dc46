------------------------ MODULE ExpressionEvaluator ------------------------
(***************************************************************************)
(* Expressions (ast.h) and their evaluation on a row                       *)
(* (src/src/executor/expression_evaluator.cpp).                            *)
(*                                                                         *)
(* A value (QVariant) is a type and a number: an int, a bool (0 or 1), a   *)
(* real counted in halves, a text that spells a one-digit number           *)
(* ("numeral"), or another text ("word", in alphabetical order, before     *)
(* "false").  Evaluation yields a value or Error; which message is left    *)
(* out.  The range of qint64 is not reached.                               *)
(***************************************************************************)
EXTENDS Integers, Sequences

Null == [t |-> "null", n |-> 0]
Error == [t |-> "error", n |-> 0]

Integer(n) == [t |-> "int", n |-> n]
Boolean(b) == [t |-> "bool", n |-> IF b THEN 1 ELSE 0]

IsText(v) == v.t \in {"numeral", "word"}

\* QVariant::toBool, toLongLong (which rounds a real half away from zero and
\* takes a word for 0) and toDouble, the latter in halves.
toBool(v) == v.t = "word" \/ v.n # 0

toLongLong(v) ==
  CASE v.t = "real" -> IF v.n >= 0 THEN (v.n + 1) \div 2 ELSE -((1 - v.n) \div 2)
    [] v.t = "word" -> 0
    [] OTHER -> v.n

Halves(v) == IF v.t = "real" THEN v.n ELSE 2 * v.n

\* QVariant::toString, as the position of the text in alphabetical order; a null
\* value is the empty text, and numbers are of one digit and not negative.
toString(v) ==
  CASE v.t = "null" -> -1
    [] v.t = "word" -> 1000 + v.n
    [] v.t = "bool" -> 2000 + v.n
    [] OTHER -> Halves(v)

-----------------------------------------------------------------------------
\* Expressions.  NoExpression is a null pointer.
NoExpression == [kind |-> "none"]

Literal(v) == [kind |-> "literal", value |-> v]

Column(table, column) == [kind |-> "column", table |-> table, column |-> column]

Binary(left, op, right) ==
  [kind |-> "binary", op |-> op, left |-> left, right |-> right]

Unary(op, expr) == [kind |-> "unary", op |-> op, expr |-> expr]

Aggregate(expr) == [kind |-> "aggregate", expr |-> expr]

FunctionCall(args) == [kind |-> "function", args |-> args]

Case(whens, else) == [kind |-> "case", whens |-> whens, else |-> else]

Subquery(from) == [kind |-> "subquery", from |-> from]

Match(column) == [kind |-> "match", column |-> column]

-----------------------------------------------------------------------------
\* The quotient and the remainder of C++ round towards zero.
Abs(n) == IF n < 0 THEN -n ELSE n

Quotient(l, r) == IF (l < 0) = (r < 0) THEN Abs(l) \div Abs(r) ELSE -(Abs(l) \div Abs(r))

\* Every value converts to qint64, reals included, so the arithmetic on doubles
\* below it in the code is never reached.
evaluateArithmetic(left, right, op) ==
  LET l == toLongLong(left)
      r == toLongLong(right)
  IN  CASE Null \in {left, right} -> Null
        [] Null \notin {left, right} /\ op \in {"DIV", "MOD"} /\ r = 0 -> Error
        [] OTHER -> Integer(CASE op = "ADD" -> l + r
                          [] op = "SUB" -> l - r
                          [] op = "MUL" -> l * r
                          [] op = "DIV" -> Quotient(l, r)
                          [] op = "MOD" -> l - r * Quotient(l, r))

Holds(op, l, r) ==
  CASE op = "EQ" -> l = r
    [] op = "NE" -> l # r
    [] op = "LT" -> l < r
    [] op = "LE" -> l <= r
    [] op = "GT" -> l > r
    [] op = "GE" -> l >= r

\* NULL equals NULL and differs from everything else.
evaluateComparison(left, right, op) ==
  CASE Null \in {left, right} ->
         IF op = "EQ" THEN Boolean(left = right)
         ELSE IF op = "NE" THEN Boolean(left # right) ELSE Null
    [] Null \notin {left, right} /\ (IsText(left) \/ IsText(right)) ->
         Boolean(Holds(op, toString(left), toString(right)))
    [] {left.t, right.t} \subseteq {"int", "real"} ->
         Boolean(Holds(op, Halves(left), Halves(right)))
    [] OTHER -> Error

\* Three-valued logic: one operand decides, or both must be known.
evaluateLogical(left, right, op) ==
  LET deciding == op = "OR"
      decides(v) == v # Null /\ toBool(v) = deciding
  IN  IF decides(left) \/ decides(right) THEN Boolean(deciding)
      ELSE IF Null \in {left, right} THEN Null ELSE Boolean(~deciding)

\* Both operands are evaluated, and an error of either is the error of the whole.
ApplyBinary(left, op, right) ==
  CASE Error \in {left, right} -> Error
    [] Error \notin {left, right} /\ op \in {"ADD", "SUB", "MUL", "DIV", "MOD"} ->
         evaluateArithmetic(left, right, op)
    [] Error \notin {left, right} /\ op \in {"EQ", "NE", "LT", "LE", "GT", "GE"} ->
         evaluateComparison(left, right, op)
    [] Error \notin {left, right} /\ op \in {"AND", "OR"} -> evaluateLogical(left, right, op)
    [] OTHER -> Error

ApplyUnary(op, v) ==
  CASE op = "MINUS" /\ v.t \notin {"null", "error"} -> Integer(-toLongLong(v))
    [] op = "NOT" /\ v.t \notin {"null", "error"} -> Boolean(~toBool(v))
    [] op = "IS_NULL" /\ v # Error -> Boolean(v = Null)
    [] op = "IS_NOT_NULL" /\ v # Error -> Boolean(v # Null)
    [] op \in {"MINUS", "NOT"} /\ v = Null -> Null
    [] OTHER -> Error

\* The table is the sequence of its columns (empty where there is no table); the
\* table that qualifies a column is not looked at.
evaluateColumn(expr, table, row) ==
  LET found == {i \in DOMAIN table : table[i] = expr.column}
  IN  IF found = {} THEN Error
      ELSE LET i == CHOOSE i \in found : \A j \in found : i <= j
           IN  IF i <= Len(row) THEN row[i] ELSE Error

RECURSIVE evaluateWithRow(_, _, _)
evaluateWithRow(expr, table, row) ==
  CASE expr.kind = "literal" -> expr.value
    [] expr.kind = "binary" -> ApplyBinary(evaluateWithRow(expr.left, table, row), expr.op,
                                           evaluateWithRow(expr.right, table, row))
    [] expr.kind = "unary" -> ApplyUnary(expr.op, evaluateWithRow(expr.expr, table, row))
    [] expr.kind = "column" -> evaluateColumn(expr, table, row)
    [] OTHER -> Error

evaluate(expr) == evaluateWithRow(expr, << >>, << >>)

=============================================================================
