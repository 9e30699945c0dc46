---------------------------- MODULE MCStatements ----------------------------
(***************************************************************************)
(* Instances of Statements.                                                *)
(***************************************************************************)
EXTENDS Statements

Row(size, tag) == [size |-> size, tag |-> tag]

\* Two rows of half a page: a page holds two, and updates keep the size.
EqualSizes == {Row(4000, "a"), Row(4000, "b")}

\* A longer row that does not fit where a shorter one was; a page holds at most
\* three rows.
TwoSizes == {Row(2600, "a"), Row(4000, "b")}

\* Rows that a statement cannot tell apart, two to a page.
OneValue == {Row(4000, "a")}

=============================================================================
