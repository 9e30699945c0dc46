----------------------------- MODULE Visibility -----------------------------
(***************************************************************************)
(* Which records a transaction sees (VisibilityChecker) and which ones     *)
(* VACUUM may remove (VacuumWorker::canDelete).  txns is the table of the  *)
(* transaction manager: a sequence, because ids are given out in order and *)
(* no transaction ever leaves the table.                                   *)
(***************************************************************************)
EXTENDS TablePage

TransactionStates == {"ACTIVE", "COMMITTED", "ABORTED"}

getTransactionState(txns, txnId) ==
  IF txnId \in DOMAIN txns THEN txns[txnId] ELSE "INVALID"

\* A transaction that is not in the table is taken for a finished one.
isCommitted(txns, txnId) ==
  /\ txnId # INVALID_TXN_ID
  /\ getTransactionState(txns, txnId) \in {"INVALID", "COMMITTED"}

isAborted(txns, txnId) ==
  /\ txnId # INVALID_TXN_ID
  /\ getTransactionState(txns, txnId) = "ABORTED"

\* currentTxnId is 0 for a statement outside of a transaction.
isVisible(txns, record, currentTxnId) ==
  /\ isCommitted(txns, record.createTxnId) \/ record.createTxnId = currentTxnId
  /\ ~isAborted(txns, record.createTxnId)
  /\ \/ record.deleteTxnId = INVALID_TXN_ID
     \/ /\ record.deleteTxnId # currentTxnId
        /\ ~isCommitted(txns, record.deleteTxnId)

\* Mutant: a deletion counts before its transaction has committed.
canDelete_AnyDeletion(txns, record) == record.deleteTxnId # INVALID_TXN_ID

canDelete(txns, record) ==
  /\ record.deleteTxnId # INVALID_TXN_ID
  /\ getTransactionState(txns, record.deleteTxnId) = "COMMITTED"
  /\ getTransactionState(txns, record.createTxnId) = "COMMITTED"

=============================================================================
