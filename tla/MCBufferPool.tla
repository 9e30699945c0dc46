---------------------------- MODULE MCBufferPool ----------------------------
(***************************************************************************)
(* Instances of BufferPool for TLC.                                        *)
(***************************************************************************)
EXTENDS BufferPool, TLC

Symmetry == Permutations(Clients) \cup Permutations(Data)
=============================================================================
