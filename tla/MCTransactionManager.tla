------------------------ MODULE MCTransactionManager ------------------------
(***************************************************************************)
(* Instances of TransactionManager for TLC.                                *)
(***************************************************************************)
EXTENDS TransactionManager
=============================================================================
