------------------------------ MODULE MCSelect ------------------------------
(***************************************************************************)
(* Small instances of Select: a table that statements spell in two ways, a *)
(* second one to join, two databases, and SELECTs that share keys, fail,   *)
(* fold, group, order and join.                                            *)
(***************************************************************************)
EXTENDS Select, QueryRewriter, QueryExecution

One == Literal(Integer(1))
Zero == Literal(Integer(0))
A == Column("", "a")
AOf(table) == Column(table, "a")
IsOne == Binary(A, "EQ", One)

Plain == [list |-> << >>, from |-> "t", alias |-> "", joins |-> << >>, where |-> NoExpression,
          groupBy |-> << >>, having |-> NoExpression, orderBy |-> << >>, limit |-> -1,
          outfile |-> FALSE]

JoinU == <<[right |-> "u", condition |-> Binary(AOf("t"), "EQ", AOf("u"))]>>

MCSelects == {
  Plain,
  [Plain EXCEPT !.from = "T"],
  [Plain EXCEPT !.list = <<Binary(A, "ADD", Binary(One, "ADD", One))>>, !.where = IsOne],
  [Plain EXCEPT !.where = Binary(A, "EQ", Binary(One, "DIV", Zero))],
  [Plain EXCEPT !.where = Binary(IsOne, "OR", Unary("IS_NULL", A)),
                !.orderBy = <<[expression |-> A, ascending |-> FALSE]>>, !.limit = 1],
  [Plain EXCEPT !.list = <<FunctionCall(<<One>>)>>, !.where = Match("a")],
  [Plain EXCEPT !.groupBy = <<A>>, !.having = Unary("IS_NOT_NULL", A)],
  [Plain EXCEPT !.joins = JoinU],
  [Plain EXCEPT !.joins = JoinU,
                !.where = Binary(Binary(AOf("t"), "EQ", One), "AND",
                                 Binary(Binary(AOf("t"), "EQ", One), "OR",
                                        Binary(AOf("u"), "EQ", Zero)))]}

MCLower == [t |-> "t", T |-> "t", u |-> "u"]

MCWrites == {<<"INSERT", "t", Integer(1)>>, <<"INSERT", "T", Null>>, <<"INSERT", "u", Integer(1)>>,
             <<"UPDATE", "t", Integer(1)>>, <<"DELETE", "t", Integer(1)>>,
             <<"DELETE", "u", Integer(1)>>,
             <<"DROP", "t">>, <<"CREATE", "t">>, <<"CREATE", "T">>}

MCRowValues == {Integer(1), Null}

=============================================================================
