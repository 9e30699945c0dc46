----------------------------- MODULE MCIndexes -----------------------------
EXTENDS Indexes

V(n) == [num |-> n, form |-> 0, len |-> 0]
W(n, f) == [num |-> n, form |-> f, len |-> 0]
Short(n) == [num |-> n, form |-> 0, len |-> 8]
Long(n, l) == [num |-> n, form |-> 0, len |-> l]
L(n, f, l) == [num |-> n, form |-> f, len |-> l]

\* Twelve integers fill a tree of three levels; the other types bring the keys
\* at the edges of their stored form: values that wrap, prefixes, texts up to
\* and beyond what a page or the length field holds, blanks, parts of a second,
\* the classes of a double, and letters of both cases.
MCTreeKeys ==
  "INT" :> [i \in 1..12 |-> V(i)] @@
  "TINYINT" :> <<V(-128), V(-1), V(0), V(127), V(128), V(255)>> @@
  "VARCHAR" :> <<Short(1), Long(3, 4090), Short(4), Short(5), Long(6, 4090), Short(2), Long(7, 5000), Long(8, 70000)>> @@
  "BINARY" :> <<Short(1), Short(2), Long(3, 4000), Short(4), Long(5, 4000), Short(6), Long(7, 4000), Short(8)>> @@
  "TINYTEXT" :> <<L(1, 0, 1), L(1, 0, 2), L(1, 0, 255), L(1, 0, 300), L(2, 0, 1)>> @@
  "CHAR" :> <<L(1, 0, 1), L(1, 2, 1), L(1, 0, 4), L(2, 0, 2), L(2, 1, 2)>> @@
  "TIME" :> <<V(0), V(999), V(1000), V(1500), V(2000)>> @@
  "BOOLEAN" :> <<V(0), V(1), V(2)>> @@
  "DOUBLE" :> <<W(0, 3), V(-20), V(0), V(20), W(0, 2), W(0, 1)>> @@
  "UUID" :> <<W(1, 0), W(1, 1), W(2, 0), W(3, 1), W(4, 0)>>

MCRangeBounds ==
  [type \in DOMAIN MCTreeKeys |->
     {MCTreeKeys[type][i] : i \in {j \in DOMAIN MCTreeKeys[type] : type # "INT" \/ j % 3 = 1}}]

MCHashKeys ==
  "INT" :> {V(1), V(2), V(3)} @@
  "VARCHAR" :> {L(1, 0, 4000), L(2, 0, 4000), L(3, 0, 4000), L(4, 0, 9000)} @@
  "CHAR" :> {L(1, 0, 1), L(1, 2, 1), L(2, 0, 1)}

MCBucketOf(type, k) == IF k.num = 3 THEN 9 ELSE IF type = "INT" /\ k.num = 2 THEN 7 ELSE 0

MCMaxOps == [btree |-> 3, hash |-> 4, fulltext |-> 4]

Word(script, term) == [script |-> script, term |-> term]
MCTexts ==
  { <<>>,
    <<Word("english", "the"), Word("other", "1")>>,
    <<Word("english", "lock"), Word("english", "page"), Word("english", "lock")>>,
    <<Word("chinese", "ku"), Word("english", "the"), Word("english", "page")>> }
=============================================================================
