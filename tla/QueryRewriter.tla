--------------------------- MODULE QueryRewriter ---------------------------
(***************************************************************************)
(* What the executor does to a SELECT before it runs it                    *)
(* (src/src/optimizer/query_rewriter.cpp): a clone, constant folding and   *)
(* the pushdown of predicates.  Column pruning only counts columns, and    *)
(* subqueries are not unnested.                                            *)
(*                                                                         *)
(* A statement is a record: list (empty if all), from, alias, joins,        *)
(* where, groupBy (empty without GROUP BY), having, orderBy, limit (-1     *)
(* without LIMIT) and outfile (whether it has INTO OUTFILE).               *)
(***************************************************************************)
EXTENDS ExpressionEvaluator, SequencesExt

\* A full-text condition is of no kind that the clone knows, and becomes a null
\* pointer wherever it stands.
RECURSIVE cloneExpression(_)
cloneExpression(expr) ==
  CASE expr.kind = "binary" ->
         Binary(cloneExpression(expr.left), expr.op, cloneExpression(expr.right))
    [] expr.kind = "unary" -> Unary(expr.op, cloneExpression(expr.expr))
    [] expr.kind = "aggregate" -> Aggregate(cloneExpression(expr.expr))
    [] expr.kind = "function" ->
         FunctionCall([i \in DOMAIN expr.args |-> cloneExpression(expr.args[i])])
    [] expr.kind = "case" ->
         Case([i \in DOMAIN expr.whens |->
                 [condition |-> cloneExpression(expr.whens[i].condition),
                  result |-> cloneExpression(expr.whens[i].result)]],
              cloneExpression(expr.else))
    [] expr.kind = "match" -> NoExpression
    [] OTHER -> expr

\* The destination of INTO OUTFILE is not copied.
cloneSelectStatement(stmt) ==
  [stmt EXCEPT
     !.list = [i \in DOMAIN @ |-> cloneExpression(@[i])],
     !.joins = [i \in DOMAIN @ |-> [@[i] EXCEPT !.condition = cloneExpression(@)]],
     !.where = cloneExpression(@),
     !.groupBy = [i \in DOMAIN @ |-> cloneExpression(@[i])],
     !.having = cloneExpression(@),
     !.orderBy = [i \in DOMAIN @ |-> [@[i] EXCEPT !.expression = cloneExpression(@)]],
     !.outfile = FALSE]

-----------------------------------------------------------------------------
\* Mutant: one constant operand is enough.
RECURSIVE isConstant_Either(_)
isConstant_Either(expr) ==
  CASE expr.kind = "literal" -> TRUE
    [] expr.kind = "binary" -> isConstant_Either(expr.left) \/ isConstant_Either(expr.right)
    [] expr.kind = "unary" -> isConstant_Either(expr.expr)
    [] expr.kind = "function" -> \A i \in DOMAIN expr.args : isConstant_Either(expr.args[i])
    [] OTHER -> FALSE

RECURSIVE isConstant(_)
isConstant(expr) ==
  CASE expr.kind = "literal" -> TRUE
    [] expr.kind = "binary" -> isConstant(expr.left) /\ isConstant(expr.right)
    [] expr.kind = "unary" -> isConstant(expr.expr)
    [] expr.kind = "function" -> \A i \in DOMAIN expr.args : isConstant(expr.args[i])
    [] OTHER -> FALSE

\* The evaluator reports an error in a field that is not read here, and returns a
\* null value: nothing is thrown, and the null value takes the expression's place.
evaluateConstant(expr) ==
  LET v == evaluate(expr) IN Literal(IF v = Error THEN Null ELSE v)

Folded(expr) == IF isConstant(expr) THEN evaluateConstant(expr) ELSE expr

RECURSIVE foldConstants(_)
foldConstants(expr) ==
  CASE expr.kind = "binary" ->
         Folded(Binary(foldConstants(expr.left), expr.op, foldConstants(expr.right)))
    [] expr.kind = "unary" -> Folded(Unary(expr.op, foldConstants(expr.expr)))
    [] expr.kind = "function" ->
         Folded(FunctionCall([i \in DOMAIN expr.args |-> foldConstants(expr.args[i])]))
    [] expr.kind = "case" ->
         Case([i \in DOMAIN expr.whens |->
                 [condition |-> foldConstants(expr.whens[i].condition),
                  result |-> foldConstants(expr.whens[i].result)]],
              foldConstants(expr.else))
    [] OTHER -> expr

applyConstantFolding(stmt) ==
  [stmt EXCEPT
     !.where = foldConstants(@),
     !.list = [i \in DOMAIN @ |-> foldConstants(@[i])],
     !.joins = [i \in DOMAIN @ |-> [@[i] EXCEPT !.condition = foldConstants(@)]],
     !.having = foldConstants(@),
     !.orderBy = [i \in DOMAIN @ |-> [@[i] EXCEPT !.expression = foldConstants(@)]]]

-----------------------------------------------------------------------------

RECURSIVE splitConjuncts(_)
splitConjuncts(expr) ==
  IF expr.kind = "binary" /\ expr.op = "AND"
  THEN splitConjuncts(expr.left) \o splitConjuncts(expr.right)
  ELSE <<expr>>

\* A column without a table is taken for one of the given table.
RECURSIVE onlyReferencesTable(_, _)
onlyReferencesTable(expr, table) ==
  CASE expr.kind \in {"none", "literal"} -> TRUE
    [] expr.kind = "column" -> expr.table \in {"", table}
    [] expr.kind = "binary" -> /\ onlyReferencesTable(expr.left, table)
                               /\ onlyReferencesTable(expr.right, table)
    [] expr.kind \in {"unary", "aggregate"} -> onlyReferencesTable(expr.expr, table)
    [] expr.kind = "function" ->
         \A i \in DOMAIN expr.args : onlyReferencesTable(expr.args[i], table)
    [] expr.kind = "case" ->
         /\ \A i \in DOMAIN expr.whens :
              /\ onlyReferencesTable(expr.whens[i].condition, table)
              /\ onlyReferencesTable(expr.whens[i].result, table)
         /\ onlyReferencesTable(expr.else, table)
    [] OTHER -> FALSE

getEffectiveTableName(stmt) == IF stmt.alias # "" THEN stmt.alias ELSE stmt.from

\* The conjuncts joined by AND again, from the left.
Conjunction(predicates) ==
  IF predicates = << >> THEN NoExpression
  ELSE FoldLeft(LAMBDA l, r : Binary(l, "AND", r), Head(predicates), Tail(predicates))

\* The predicates on the main table leave the WHERE clause of a join.  Nothing
\* else in the statement takes them up.
applyPredicatePushdown(stmt) ==
  LET predicates == splitConjuncts(stmt.where)
      main == getEffectiveTableName(stmt)
      remaining == SelectSeq(predicates, LAMBDA p : ~onlyReferencesTable(p, main))
  IN  IF \/ stmt.where = NoExpression \/ stmt.joins = << >>
         \/ Len(remaining) = Len(predicates)
      THEN stmt
      ELSE [stmt EXCEPT !.where = Conjunction(remaining)]

rewrite(stmt) == applyPredicatePushdown(applyConstantFolding(cloneSelectStatement(stmt)))

=============================================================================
