------------------------------ MODULE Indexes ------------------------------
(***************************************************************************)
(* The calls of module IndexCalls on a tree of module GenericBPlusTree:    *)
(* what the tree returns is what it was told.                              *)
(***************************************************************************)
EXTENDS IndexCalls, GenericBPlusTree

CONSTANT RangeBounds \* for each type, the keys used as bounds of range searches

\* A search finds exactly the row id last inserted for a key equal to it, in
\* whatever form either was written, through all splits, borrowings and merges.
TreeFindsLastInsert ==
  kind = "btree" /\ tree.fault = "none" =>
    \A k \in ToSet(TreeKeys[tree.type]) :
      LET d == Denotes(tree.type, k)
      IN TreeSearch(tree, Written(tree.type, k)) =
           IF d \in DOMAIN expected THEN {expected[d]} ELSE {}

\* A range search returns the entries between its bounds, every one, and in
\* ascending order of what the keys mean.
TreeRangesAreExact ==
  kind = "btree" /\ tree.fault = "none" =>
    LET type == tree.type
        AtMost(d, e) == d = e \/ Precedes(d, e)
    IN \A lo, hi \in RangeBounds[type] :
         LET found == TreeRangeSearch(tree, Written(type, lo), Written(type, hi))
             keys == [i \in DOMAIN found |-> Denotes(type, found[i][1])]
         IN /\ \A i \in 1..(Len(found) - 1) : Precedes(keys[i], keys[i + 1])
            /\ {<<keys[i], found[i][2]>> : i \in DOMAIN found} =
                 {<<d, expected[d]>> : d \in {e \in DOMAIN expected :
                     AtMost(Denotes(type, lo), e) /\ AtMost(e, Denotes(type, hi))}}

\* Even where an operation fails half way, because a separator is not found or
\* does not fit in its page, no entry leaves the list of leaves unless it was
\* removed.
TreeKeepsEntries ==
  kind = "btree" /\ tree.fault \in {"none", "separator", "parentFull"} =>
    {<<d, expected[d]>> : d \in DOMAIN expected} \subseteq
      {<<Denotes(tree.type, e[1]), e[2]>> : e \in ToSet(LeafList(tree))}
=============================================================================
