--------------------------- MODULE QueryExecution ---------------------------
(***************************************************************************)
(* What SELECT makes of the records it reads (the loops of                 *)
(* Executor::executeSelect): filter, project, join, group, order, limit.   *)
(* A table has one column.  DISTINCT and OFFSET are not looked at.         *)
(***************************************************************************)
EXTENDS ExpressionEvaluator, SequencesExt

Columns == <<"a">>

\* The members of a sequence at some of its positions.
Picked(seq, positions) ==
  LET at == SetToSortSeq(positions, <)
  IN  [k \in DOMAIN at |-> seq[at[k]]]

\* The result of a statement: whether it succeeded, and its rows.
Failed == [ok |-> FALSE, rows |-> << >>]
Succeeded(rows) == [ok |-> TRUE, rows |-> rows]

\* Only a condition that is known to be true lets a row pass.
Condition(expr, row) ==
  IF expr = NoExpression THEN Boolean(TRUE) ELSE evaluateWithRow(expr, Columns, row)

Passes(v) == v # Null /\ toBool(v)

Projected(stmt, row) ==
  IF stmt.list = << >> THEN row
  ELSE [i \in DOMAIN stmt.list |-> evaluateWithRow(stmt.list[i], Columns, row)]

\* Rows with the values that a condition and the select list have on them.
Kept(rows, values) == Picked(rows, {i \in DOMAIN rows : Passes(values[i])})

Filtered(rows, values) == IF Error \in ToSet(values) THEN Failed ELSE Succeeded(Kept(rows, values))

Filter(expr, result) ==
  IF ~result.ok THEN result
  ELSE Filtered(result.rows, [i \in DOMAIN result.rows |-> Condition(expr, result.rows[i])])

ListOf(rows) ==
  IF \E i \in DOMAIN rows : Error \in ToSet(rows[i]) THEN Failed ELSE Succeeded(rows)

\* GROUP BY of one expression: a row of key and count for each group.  A group key
\* is a text with "|" behind it, which sorts after letters, digits and the point: a
\* whole number comes after the one with a half, and the group of the null values
\* is the last.  HAVING is not looked at.
GroupRank(text) ==
  CASE text = toString(Null) -> 3000
    [] text \in 0..999 -> 2 * text + (IF text % 2 = 0 THEN 3 ELSE 0)
    [] OTHER -> text

GroupBefore(text1, text2) == GroupRank(text1) < GroupRank(text2)

GroupsOf(keys) ==
  LET texts == [i \in DOMAIN keys |-> toString(keys[i])]
      groups == SetToSortSeq(ToSet(texts), GroupBefore)
  IN  IF Error \in ToSet(keys) THEN Failed
      ELSE Succeeded([i \in DOMAIN groups |->
             <<[t |-> "word", n |-> groups[i]],
               Integer(Cardinality({j \in DOMAIN texts : texts[j] = groups[i]}))>>])

Grouped(stmt, result) ==
  IF stmt.groupBy = << >> \/ ~result.ok THEN result
  ELSE GroupsOf([i \in DOMAIN result.rows |->
                   evaluateWithRow(stmt.groupBy[1], Columns, result.rows[i])])

\* ORDER BY compares numbers: every text converts to one, a word to 0.  Only the
\* error of the second row skips an item.  Rows that compare equal stay in order.
SortKey(v) == IF v.t = "word" THEN 0 ELSE Halves(v)

ValueBefore(val1, val2) ==
  \/ val1 = Null /\ val2 # Null
  \/ Null \notin {val1, val2} /\ SortKey(val1) < SortKey(val2)

ValueOrder(val1, val2, ascending) ==
  CASE val2 = Error -> 0
    [] val2 # Error /\ ValueBefore(val1, val2) -> IF ascending THEN -1 ELSE 1
    [] val2 # Error /\ ValueBefore(val2, val1) -> IF ascending THEN 1 ELSE -1
    [] OTHER -> 0

NullForError(v) == IF v = Error THEN Null ELSE v

ItemOrder(item, row1, row2) ==
  ValueOrder(NullForError(evaluateWithRow(item.expression, Columns, row1)),
             evaluateWithRow(item.expression, Columns, row2), item.ascending)

RowBefore(stmt, row1, row2) ==
  \E i \in DOMAIN stmt.orderBy :
    /\ ItemOrder(stmt.orderBy[i], row1, row2) = -1
    /\ \A j \in 1..(i - 1) : ItemOrder(stmt.orderBy[j], row1, row2) = 0

Ordered(stmt, result) ==
  IF stmt.orderBy = << >> THEN result
  ELSE [result EXCEPT !.rows = SortSeq(@, LAMBDA r1, r2 : RowBefore(stmt, r1, r2))]

Limited(stmt, result) ==
  IF stmt.limit > 0 /\ Len(result.rows) > stmt.limit
  THEN [result EXCEPT !.rows = SubSeq(@, 1, stmt.limit)] ELSE result

Finished(stmt, result) == Limited(stmt, Ordered(stmt, Grouped(stmt, result)))

-----------------------------------------------------------------------------
\* One table: the records at the positions seen that satisfy WHERE, projected.
ScanRows(stmt, records, seen) ==
  LET visible == Picked(records, seen)
      kept == Filter(stmt.where, Succeeded([i \in DOMAIN visible |-> visible[i].row]))
  IN  Finished(stmt, IF ~kept.ok THEN kept
                     ELSE ListOf([i \in DOMAIN kept.rows |-> Projected(stmt, kept.rows[i])]))

\* getAllRecords without headers: the records no transaction has marked deleted.
Undeleted(records) == Picked(records, {i \in DOMAIN records : records[i].deleteTxnId = 0})

\* A join, of the first two tables: their undeleted records, uncommitted ones as
\* well, with columns looked up in the left table only, and all columns.
JoinRows(stmt, left, right) ==
  LET pairs == [i \in DOMAIN Undeleted(left) |->
                  [j \in DOMAIN Undeleted(right) |-> Undeleted(left)[i].row \o Undeleted(right)[j].row]]
  IN  Finished(stmt, Filter(stmt.where, Filter(stmt.joins[1].condition, Succeeded(FlattenSeq(pairs)))))

-----------------------------------------------------------------------------
\* The text of an expression, by structure; a literal has its text without
\* quotes, and a null literal none.
RECURSIVE TextOf(_)
TextOf(expr) ==
  CASE expr.kind = "literal" -> [kind |-> "text", text |-> toString(expr.value)]
    [] expr.kind = "binary" -> Binary(TextOf(expr.left), expr.op, TextOf(expr.right))
    [] expr.kind = "unary" -> Unary(expr.op, TextOf(expr.expr))
    [] OTHER -> expr

=============================================================================
