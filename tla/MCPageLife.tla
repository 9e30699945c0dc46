----------------------------- MODULE MCPageLife -----------------------------
EXTENDS PageLife

Rows(sizes) == {[size |-> n, tag |-> "a"] : n \in sizes}

\* Records of which three, two or one fill a page, and the smallest for which
\* an empty page has not enough space.
FittingValues == Rows({2700, 4076, 8152, 8157})

\* More than 64 KB, of which 16 bits keep 30.
LongValues == Rows({2700, 65566})

\* Also a record whose size fits in 16 bits and whose size plus a slot does not.
AllValues == FittingValues \cup LongValues \cup Rows({65533})

=============================================================================
