-------------------------- MODULE TransactionProofs --------------------------
(***************************************************************************)
(* Proofs about transactions: first the locks and the outcomes of          *)
(* TransactionManager, for every set of threads, pages and timeouts and    *)
(* every number of transactions; then the log of WriteAheadLog, for every  *)
(* number of transactions, records and restarts: the LSNs of the readable  *)
(* log increase, a readable COMMIT comes after all records of its          *)
(* transaction, and a commit that was once readable in the file is never   *)
(* lost.                                                                   *)
(***************************************************************************)
EXTENDS TransactionManager, WriteAheadLog, TLAPS

\* The state a transaction has while a thread is about to write the record.
StateAt(at) ==
  IF at = "BEGIN" THEN "ACTIVE" ELSE IF at = "COMMIT" THEN "COMMITTED" ELSE "ABORTED"

\* What makes WalMatchesOutcome inductive: a thread that has left the critical
\* section of begin, commit or abort and has not written its record yet is the
\* only one to write for its transaction, the log holds nothing that would
\* contradict the record, and the destructor finds no such thread.
WalPending ==
  /\ \A i \in 1..Len(wal) : wal[i].txn \in DOMAIN transactions
  /\ \A th \in Threads :
       call[th].at \in WalTypes =>
         /\ call[th].txn \in DOMAIN transactions
         /\ transactions[call[th].txn].state = StateAt(call[th].at)
         /\ \A i \in 1..Len(wal) : wal[i].txn = call[th].txn =>
              wal[i].type = "BEGIN" /\ call[th].at # "BEGIN"
         /\ \A other \in Threads :
              (call[other].at \in WalTypes /\ call[other].txn = call[th].txn) => other = th
  /\ destroyed => \A th \in Threads : call[th].at = "idle"

IInv == TypeOK /\ LockExclusion /\ LockTablesAgree /\ WalMatchesOutcome /\ WalPending

-----------------------------------------------------------------------------
\* The initial tables are empty.
LEMMA InitInv == Init => IInv
<1> SUFFICES ASSUME Init PROVE IInv
  OBVIOUS
<1>1. TypeOK
  <2>1. nextTxnId \in 1..(MaxTxnId + 1)
    BY ConstantsAssumption DEF Init
  <2>2. transactions \in [1..(nextTxnId - 1) -> Transaction]
    <3>1. 1..(nextTxnId - 1) = {}
      BY DEF Init
    <3> QED
      BY <3>1 DEF Init
  <2>3. DOMAIN pageLocks \subseteq Pages /\ pageLocks \in [DOMAIN pageLocks -> PageLock]
    BY DEF Init
  <2>4. wal \in Seq(WalRecord)
    BY DEF Init
  <2>5. call \in [Threads -> {Idle} \cup WalCall \cup LockCall]
    BY DEF Init
  <2> QED
    BY <2>1, <2>2, <2>3, <2>4, <2>5 DEF Init, TypeOK
<1>2. LockExclusion /\ LockTablesAgree
  BY DEF Init, LockExclusion, LockTablesAgree
<1>3. WalMatchesOutcome /\ WalPending
  BY DEF Init, WalMatchesOutcome, WalPending, WalTypes, Idle
<1> QED
  BY <1>1, <1>2, <1>3 DEF IInv

-----------------------------------------------------------------------------
\* Every step keeps the types.
LEMMA TypeStep == TypeOK /\ [Next]_vars => TypeOK'
<1> SUFFICES ASSUME TypeOK, [Next]_vars PROVE TypeOK'
  OBVIOUS
<1> USE ConstantsAssumption
<1>1. ASSUME NEW th \in Threads, BeginTransaction(th) PROVE TypeOK'
  BY <1>1 DEF BeginTransaction, TypeOK, Transaction, Put, WalCall, WalTypes, TxnIds
<1>2. ASSUME NEW t \in TxnIds, NEW s \in {"COMMITTED", "ABORTED"}, Finish(t, s)
      PROVE  /\ transactions' \in [1..(nextTxnId - 1) -> Transaction]
             /\ DOMAIN pageLocks' \subseteq Pages
             /\ pageLocks' \in [DOMAIN pageLocks' -> PageLock]
  BY <1>2 DEF Finish, ReleaseAllLocks, IsActive, TypeOK, Transaction, PageLock, LockTypes
<1>3. ASSUME NEW th \in Threads, NEW t \in TxnIds, CommitTransaction(th, t) PROVE TypeOK'
  BY <1>2, <1>3 DEF CommitTransaction, TypeOK, WalCall, WalTypes
<1>4. ASSUME NEW th \in Threads, NEW t \in TxnIds, AbortTransaction(th, t) PROVE TypeOK'
  BY <1>2, <1>4 DEF AbortTransaction, TypeOK, WalCall, WalTypes
<1>5. ASSUME NEW th \in Threads, NEW t \in TxnIds, NEW p \in Pages, UnlockPage(th, t, p)
      PROVE  TypeOK'
  BY <1>5 DEF UnlockPage, Holds, Known, Erase, TypeOK, Transaction, PageLock
<1>6. ASSUME NEW th \in Threads, NEW t \in TxnIds, NEW p \in Pages,
             NEW l \in LockTypes, NEW m \in Timeouts, LockPage(th, t, p, l, m)
      PROVE  TypeOK'
  BY <1>6 DEF LockPage, TypeOK, LockCall
<1>7. ASSUME NEW th \in Threads, WriteWal(th) PROVE TypeOK'
  <2>1. [type |-> call[th].at, txn |-> call[th].txn] \in WalRecord
    BY <1>7 DEF WriteWal, TypeOK, WalRecord, WalCall, LockCall, WalTypes, Idle
  <2>2. wal' \in Seq(WalRecord)
    <3>1. wal \in Seq(WalRecord)
      BY DEF TypeOK
    <3> QED
      BY <1>7, <2>1, <3>1 DEF WriteWal
  <2> QED
    BY <1>7, <2>2 DEF WriteWal, TypeOK
<1>8. ASSUME NEW th \in Threads, LockGranted(th) PROVE TypeOK'
  <2>1. call[th] \in LockCall
    BY <1>8 DEF LockGranted, TypeOK, WalCall, WalTypes, Idle
  <2> DEFINE t == call[th].txn
             p == call[th].page
             l == call[th].lockType
  <2>2. t \in TxnIds /\ p \in Pages /\ l \in LockTypes
    BY <2>1 DEF LockCall
  <2>3. t \in 1..(nextTxnId - 1) /\ Grant(t, p, l)
    BY <1>8 DEF LockGranted, IsActive, TypeOK
  <2> HIDE DEF t, p, l
  <2>4. transactions' \in [1..(nextTxnId - 1) -> Transaction]
    <3>1. CASE transactions' = [transactions EXCEPT ![t].lockedPages = @ \cup {p}]
      BY <2>2, <2>3, <3>1 DEF TypeOK, Transaction
    <3> QED
      BY <2>3, <3>1 DEF Grant, TypeOK
  <2>5. DOMAIN pageLocks' \subseteq Pages /\ pageLocks' \in [DOMAIN pageLocks' -> PageLock]
    <3>1. CASE pageLocks' = Put(pageLocks, p, [lockType |-> l, holders |-> {t}])
      BY <2>2, <3>1 DEF TypeOK, PageLock, Put
    <3>2. CASE /\ p \in DOMAIN pageLocks
               /\ pageLocks' = [pageLocks EXCEPT ![p].lockType = "EXCLUSIVE"]
      BY <3>2 DEF TypeOK, PageLock, LockTypes
    <3>3. CASE /\ p \in DOMAIN pageLocks
               /\ pageLocks' = [pageLocks EXCEPT ![p].holders = @ \cup {t}]
      BY <2>2, <3>3 DEF TypeOK, PageLock
    <3> QED
      BY <2>3, <3>1, <3>2, <3>3 DEF Grant, CanUpgrade, CanJoin, Holds, IsFree, TypeOK
  <2> QED
    BY <1>8, <2>4, <2>5 DEF LockGranted, TypeOK
<1>9. ASSUME NEW th \in Threads,
             LockRefused(th) \/ LockBlocked(th) \/ LockTimeout(th) \/ LockRetry(th)
      PROVE  TypeOK'
  <2>1. call[th] \in LockCall
    BY <1>9 DEF LockRefused, LockBlocked, LockTimeout, LockRetry, TypeOK, WalCall, WalTypes, Idle
  <2> QED
    BY <1>9, <2>1 DEF LockRefused, LockBlocked, LockTimeout, LockRetry, TypeOK, LockCall
<1>10. CASE Destroy
  BY <1>10 DEF Destroy, TypeOK
<1>11. ASSUME NEW t \in TxnIds, AbortOnShutdown(t) PROVE TypeOK'
  <2>1. [type |-> "ABORT", txn |-> t] \in WalRecord
    BY DEF WalRecord, WalTypes
  <2>2. wal' \in Seq(WalRecord)
    <3>1. wal \in Seq(WalRecord)
      BY DEF TypeOK
    <3> QED
      BY <1>11, <2>1, <3>1 DEF AbortOnShutdown
  <2> QED
    BY <1>2, <1>11, <2>2 DEF AbortOnShutdown, TypeOK
<1>12. CASE UNCHANGED vars
  BY <1>12 DEF vars, TypeOK
<1> QED
  BY <1>1, <1>3, <1>4, <1>5, <1>6, <1>7, <1>8, <1>9, <1>10, <1>11, <1>12
     DEF Next, CallWith, Proceed

-----------------------------------------------------------------------------
LockInv == TypeOK /\ LockExclusion /\ LockTablesAgree

\* Ending a transaction removes it from every lock, erases the locks it held
\* alone and leaves the others as they are.
LEMMA FinishLocks ==
  ASSUME LockInv, NEW t, NEW s \in {"COMMITTED", "ABORTED"}, Finish(t, s)
  PROVE  (LockExclusion /\ LockTablesAgree)'
<1>1. t \in DOMAIN transactions
  BY DEF Finish, IsActive
<1>2. \A p \in DOMAIN pageLocks : p \in transactions[t].lockedPages <=> t \in pageLocks[p].holders
  BY <1>1 DEF LockInv, LockTablesAgree, TypeOK, Holds
<1>3. DOMAIN pageLocks' = {p \in DOMAIN pageLocks : ~(pageLocks[p].holders \subseteq {t})}
  BY <1>2 DEF Finish, ReleaseAllLocks, LockInv, LockExclusion
<1>4. \A p \in DOMAIN pageLocks' :
        /\ pageLocks'[p].holders = pageLocks[p].holders \ {t}
        /\ pageLocks'[p].lockType = pageLocks[p].lockType
  BY <1>2 DEF Finish, ReleaseAllLocks, LockInv, TypeOK, PageLock
<1>5. /\ DOMAIN transactions' = DOMAIN transactions
      /\ transactions'[t].lockedPages = {}
      /\ \A u \in DOMAIN transactions : u # t => transactions'[u] = transactions[u]
  BY <1>1 DEF Finish, LockInv, TypeOK
<1>6. LockExclusion'
  BY <1>3, <1>4, <1>5 DEF LockInv, LockExclusion, IsActive
<1>7. LockTablesAgree'
  BY <1>2, <1>3, <1>4, <1>5 DEF LockInv, LockTablesAgree, Holds
<1> QED
  BY <1>6, <1>7

\* Granting, upgrading or joining a lock keeps it exclusive to one holder.
LEMMA GrantLocks ==
  ASSUME LockInv, NEW t \in TxnIds, NEW p \in Pages, NEW l \in LockTypes,
         IsActive(t), Grant(t, p, l)
  PROVE  (LockExclusion /\ LockTablesAgree)'
<1>1. t \in DOMAIN transactions
  BY DEF IsActive
<1>2. CASE IsFree(p) /\ pageLocks' = Put(pageLocks, p, [lockType |-> l, holders |-> {t}])
           /\ transactions' = [transactions EXCEPT ![t].lockedPages = @ \cup {p}]
  <2>1. /\ p \notin DOMAIN pageLocks
        /\ DOMAIN pageLocks' = DOMAIN pageLocks \cup {p}
        /\ pageLocks'[p].holders = {t}
        /\ \A q \in DOMAIN pageLocks : pageLocks'[q] = pageLocks[q]
    BY <1>2 DEF IsFree, Put
  <2>2. /\ DOMAIN transactions' = DOMAIN transactions
        /\ \A u \in DOMAIN transactions : transactions'[u].state = transactions[u].state
        /\ \A u \in DOMAIN transactions : u # t => transactions'[u] = transactions[u]
        /\ transactions'[t].lockedPages = transactions[t].lockedPages \cup {p}
    BY <1>1, <1>2 DEF LockInv, TypeOK, Transaction
  <2>3. LockExclusion'
    BY <2>1, <2>2 DEF LockInv, LockExclusion, IsActive
  <2>4. LockTablesAgree'
    BY <1>1, <2>1, <2>2 DEF LockInv, LockTablesAgree, Holds
  <2> QED
    BY <2>3, <2>4
<1>3. CASE UNCHANGED <<pageLocks, transactions>>
  BY <1>3 DEF LockInv, LockExclusion, LockTablesAgree, Holds, IsActive
<1>4. CASE CanUpgrade(t, p, l) /\ pageLocks' = [pageLocks EXCEPT ![p].lockType = "EXCLUSIVE"]
           /\ UNCHANGED transactions
  <2>1. /\ DOMAIN pageLocks' = DOMAIN pageLocks
        /\ \A q \in DOMAIN pageLocks : pageLocks'[q].holders = pageLocks[q].holders
        /\ \A q \in DOMAIN pageLocks : q # p => pageLocks'[q] = pageLocks[q]
        /\ pageLocks[p].holders = {t}
    BY <1>4 DEF CanUpgrade, Holds, LockInv, TypeOK, PageLock
  <2> QED
    BY <1>4, <2>1 DEF LockInv, LockExclusion, LockTablesAgree, Holds, IsActive
<1>5. CASE CanJoin(t, p, l) /\ pageLocks' = [pageLocks EXCEPT ![p].holders = @ \cup {t}]
           /\ transactions' = [transactions EXCEPT ![t].lockedPages = @ \cup {p}]
  BY <1>1, <1>5
     DEF CanJoin, IsFree, IsLockCompatible, LockInv, LockExclusion, LockTablesAgree, Holds,
         IsActive, TypeOK, Transaction, PageLock
<1> QED
  BY <1>2, <1>3, <1>4, <1>5 DEF Grant

\* Giving a lock back leaves the other holders in place.
LEMMA UnlockLocks ==
  ASSUME LockInv, NEW th \in Threads, NEW t \in TxnIds, NEW p \in Pages, UnlockPage(th, t, p)
  PROVE  (LockExclusion /\ LockTablesAgree)'
<1>1. t \in DOMAIN transactions /\ p \in DOMAIN pageLocks /\ t \in pageLocks[p].holders
  BY DEF UnlockPage, Known, Holds
<1>2. CASE pageLocks[p].holders = {t} /\ pageLocks' = Erase(pageLocks, p)
  BY <1>1, <1>2
     DEF UnlockPage, Erase, LockInv, LockExclusion, LockTablesAgree, Holds, IsActive, TypeOK,
         Transaction
<1>3. CASE pageLocks[p].holders # {t} /\ pageLocks' = [pageLocks EXCEPT ![p].holders = @ \ {t}]
  BY <1>1, <1>3
     DEF UnlockPage, LockInv, LockExclusion, LockTablesAgree, Holds, IsActive, TypeOK,
         Transaction, PageLock
<1> QED
  BY <1>2, <1>3 DEF UnlockPage

\* The lock tables stay consistent in every step.
LEMMA LockStep == LockInv /\ [Next]_vars => (LockExclusion /\ LockTablesAgree)'
<1> SUFFICES ASSUME LockInv, [Next]_vars PROVE (LockExclusion /\ LockTablesAgree)'
  OBVIOUS
<1>1. ASSUME NEW th \in Threads, BeginTransaction(th)
      PROVE  (LockExclusion /\ LockTablesAgree)'
  <2>1. /\ nextTxnId \notin DOMAIN transactions
        /\ DOMAIN transactions' = DOMAIN transactions \cup {nextTxnId}
        /\ transactions'[nextTxnId] = [state |-> "ACTIVE", lockedPages |-> {}]
        /\ \A u \in DOMAIN transactions : transactions'[u] = transactions[u]
        /\ UNCHANGED pageLocks
    BY <1>1 DEF BeginTransaction, Put, LockInv, TypeOK
  <2>2. \A p \in DOMAIN pageLocks : nextTxnId \notin pageLocks[p].holders
    BY <2>1 DEF LockInv, LockExclusion, IsActive
  <2> QED
    BY <2>1, <2>2 DEF LockInv, LockExclusion, LockTablesAgree, Holds, IsActive
<1>2. ASSUME NEW th \in Threads, NEW t \in TxnIds, CallWith(th, t)
      PROVE  (LockExclusion /\ LockTablesAgree)'
  <2>1. CASE CommitTransaction(th, t) \/ AbortTransaction(th, t)
    BY <2>1, FinishLocks DEF CommitTransaction, AbortTransaction
  <2>2. CASE \E p \in Pages : UnlockPage(th, t, p)
    BY <2>2, UnlockLocks
  <2>3. CASE \E p \in Pages, l \in LockTypes, m \in Timeouts : LockPage(th, t, p, l, m)
    BY <2>3 DEF LockPage, LockInv, LockExclusion, LockTablesAgree, Holds, IsActive
  <2> QED
    BY <1>2, <2>1, <2>2, <2>3 DEF CallWith
<1>3. ASSUME NEW th \in Threads, Proceed(th)
      PROVE  (LockExclusion /\ LockTablesAgree)'
  <2>1. CASE LockGranted(th)
    <3>1. call[th] \in LockCall
      BY <2>1 DEF LockGranted, LockInv, TypeOK, WalCall, WalTypes, Idle
    <3> QED
      BY <2>1, <3>1, GrantLocks DEF LockGranted, LockCall
  <2>2. CASE UNCHANGED <<transactions, pageLocks>>
    BY <2>2 DEF LockInv, LockExclusion, LockTablesAgree, Holds, IsActive
  <2> QED
    BY <1>3, <2>1, <2>2
       DEF Proceed, WriteWal, LockRefused, LockBlocked, LockTimeout, LockRetry
<1>4. CASE Destroy \/ UNCHANGED vars
  BY <1>4 DEF Destroy, vars, LockInv, LockExclusion, LockTablesAgree, Holds, IsActive
<1>5. ASSUME NEW t \in TxnIds, AbortOnShutdown(t)
      PROVE  (LockExclusion /\ LockTablesAgree)'
  BY <1>5, FinishLocks DEF AbortOnShutdown
<1> QED
  BY <1>1, <1>2, <1>3, <1>4, <1>5 DEF Next

-----------------------------------------------------------------------------
WalInv == WalMatchesOutcome /\ WalPending

\* Appending a record keeps the old ones and adds one at the end.
LEMMA AppendRecord ==
  ASSUME TypeOK, NEW r, wal' = Append(wal, r)
  PROVE  /\ Len(wal) \in Nat
         /\ Len(wal') = Len(wal) + 1
         /\ wal'[Len(wal) + 1] = r
         /\ \A i \in 1..Len(wal) : wal'[i] = wal[i]
BY DEF TypeOK

\* A thread that leaves the critical section of commit or abort is the only
\* one with a pending record of that transaction, and the log has no outcome.
LEMMA FinishWal ==
  ASSUME IInv, NEW th \in Threads, NEW t \in TxnIds, NEW a \in {"COMMIT", "ABORT"},
         call[th].at = "idle", ~destroyed, Known(t), Finish(t, StateAt(a)),
         call' = [call EXCEPT ![th] = [at |-> a, txn |-> t]],
         UNCHANGED <<wal, destroyed>>
  PROVE  WalInv'
<1>1. t \in DOMAIN transactions /\ transactions[t].state = "ACTIVE"
  BY DEF Finish, IsActive
<1>2. /\ DOMAIN transactions' = DOMAIN transactions
      /\ transactions'[t].state = StateAt(a)
      /\ \A u \in DOMAIN transactions : u # t => transactions'[u] = transactions[u]
  BY <1>1 DEF Finish, IInv, TypeOK
<1>3. \A i \in 1..Len(wal) : wal[i].txn = t => wal[i].type = "BEGIN"
  BY <1>1 DEF IInv, WalMatchesOutcome
<1>4. \A other \in Threads : call[other].at \in WalTypes => call[other].txn # t
  BY <1>1 DEF IInv, WalPending, Known, StateAt, WalTypes
<1>5. /\ \A other \in Threads : other # th => call'[other] = call[other]
      /\ call'[th].at = a /\ call'[th].txn = t
  BY DEF IInv, TypeOK
<1>6. WalMatchesOutcome'
  BY <1>2, <1>3 DEF IInv, WalMatchesOutcome
<1>7. WalPending'
  <2>1. \A i \in 1..Len(wal') : wal'[i].txn \in DOMAIN transactions'
    BY <1>2 DEF IInv, WalPending
  <2>2. ASSUME NEW o \in Threads, call'[o].at \in WalTypes
        PROVE  /\ call'[o].txn \in DOMAIN transactions'
               /\ transactions'[call'[o].txn].state = StateAt(call'[o].at)
               /\ \A i \in 1..Len(wal') : wal'[i].txn = call'[o].txn =>
                    wal'[i].type = "BEGIN" /\ call'[o].at # "BEGIN"
               /\ \A other \in Threads :
                    (call'[other].at \in WalTypes /\ call'[other].txn = call'[o].txn)
                      => other = o
    <3>1. CASE o = th
      BY <1>1, <1>2, <1>3, <1>4, <1>5, <3>1
    <3>2. CASE o # th
      BY <1>2, <1>4, <1>5, <2>2, <3>2 DEF IInv, WalPending
    <3> QED
      BY <3>1, <3>2
  <2> QED
    BY <2>1, <2>2 DEF WalPending
<1> QED
  BY <1>6, <1>7 DEF WalInv

\* The pending record is consistent with the log when it is written.
LEMMA WriteWalStep ==
  ASSUME IInv, NEW th \in Threads, WriteWal(th)
  PROVE  WalInv'
<1>1. /\ \A other \in Threads : other # th => call'[other] = call[other]
      /\ call'[th].at = "idle"
      /\ UNCHANGED <<transactions, destroyed>>
  BY DEF WriteWal, IInv, TypeOK, Idle
<1>2. CASE wal' = wal
  BY <1>1, <1>2 DEF IInv, WalInv, WalMatchesOutcome, WalPending, WalTypes
<1>3. CASE wal' = Append(wal, [type |-> call[th].at, txn |-> call[th].txn])
  <2> DEFINE r == [type |-> call[th].at, txn |-> call[th].txn]
  <2>1. /\ Len(wal) \in Nat
        /\ Len(wal') = Len(wal) + 1
        /\ wal'[Len(wal) + 1] = r
        /\ \A i \in 1..Len(wal) : wal'[i] = wal[i]
    BY <1>3, AppendRecord DEF IInv
  <2>2. /\ r.txn \in DOMAIN transactions
        /\ transactions[r.txn].state = StateAt(r.type)
        /\ r.type \in WalTypes
        /\ \A i \in 1..Len(wal) : wal[i].txn = r.txn => wal[i].type = "BEGIN" /\ r.type # "BEGIN"
        /\ \A other \in Threads :
             (call[other].at \in WalTypes /\ call[other].txn = r.txn) => other = th
    BY DEF WriteWal, IInv, WalPending
  <2> HIDE DEF r
  <2>3. WalMatchesOutcome'
    BY <1>1, <2>1, <2>2 DEF IInv, WalMatchesOutcome, StateAt, WalTypes
  <2>4. WalPending'
    <3>1. \A i \in 1..Len(wal') : wal'[i].txn \in DOMAIN transactions'
      BY <1>1, <2>1, <2>2 DEF IInv, WalPending
    <3>2. \A o \in Threads : call'[o].at \in WalTypes => o # th /\ call'[o] = call[o]
      BY <1>1 DEF WalTypes
    <3> QED
      BY <1>1, <2>1, <2>2, <3>1, <3>2 DEF IInv, WalPending, WalTypes
  <2> QED
    BY <2>3, <2>4 DEF WalInv
<1> QED
  BY <1>2, <1>3 DEF WriteWal

\* The log and the transaction table stay consistent in every step.
LEMMA WalStep == IInv /\ [Next]_vars => WalInv'
<1> SUFFICES ASSUME IInv, [Next]_vars PROVE WalInv'
  OBVIOUS
<1>1. ASSUME NEW th \in Threads, BeginTransaction(th) PROVE WalInv'
  <2>1. /\ nextTxnId \notin DOMAIN transactions
        /\ DOMAIN transactions' = DOMAIN transactions \cup {nextTxnId}
        /\ transactions'[nextTxnId].state = "ACTIVE"
        /\ \A u \in DOMAIN transactions : transactions'[u] = transactions[u]
    BY <1>1 DEF BeginTransaction, Put, IInv, TypeOK
  <2>2. /\ \A other \in Threads : other # th => call'[other] = call[other]
        /\ call'[th].at = "BEGIN" /\ call'[th].txn = nextTxnId
        /\ UNCHANGED <<wal, destroyed>> /\ ~destroyed
    BY <1>1 DEF BeginTransaction, IInv, TypeOK
  <2>3. WalMatchesOutcome'
    BY <2>1, <2>2 DEF IInv, WalMatchesOutcome
  <2>4. WalPending'
    BY <2>1, <2>2 DEF IInv, WalPending, StateAt
  <2> QED
    BY <2>3, <2>4 DEF WalInv
<1>2. ASSUME NEW th \in Threads, NEW t \in TxnIds, CommitTransaction(th, t) PROVE WalInv'
  BY <1>2, FinishWal DEF CommitTransaction, StateAt
<1>3. ASSUME NEW th \in Threads, NEW t \in TxnIds, AbortTransaction(th, t) PROVE WalInv'
  BY <1>3, FinishWal DEF AbortTransaction, StateAt
<1>4. ASSUME NEW th \in Threads, WriteWal(th) PROVE WalInv'
  BY <1>4, WriteWalStep
<1>5. ASSUME DOMAIN transactions' = DOMAIN transactions,
             \A t \in DOMAIN transactions : transactions'[t].state = transactions[t].state,
             UNCHANGED <<wal, destroyed>>,
             \A th \in Threads : \/ call'[th] = call[th]
                                 \/ call'[th].at \notin WalTypes /\ (destroyed => call'[th].at = "idle")
      PROVE  WalInv'
  BY <1>5 DEF IInv, WalInv, WalMatchesOutcome, WalPending
<1>6. ASSUME NEW th \in Threads, NEW t \in TxnIds, NEW p \in Pages, UnlockPage(th, t, p)
      PROVE  WalInv'
  BY <1>5, <1>6 DEF UnlockPage, Known, IInv, TypeOK, Transaction
<1>7. ASSUME NEW th \in Threads, NEW t \in TxnIds, NEW p \in Pages,
             NEW l \in LockTypes, NEW m \in Timeouts, LockPage(th, t, p, l, m)
      PROVE  WalInv'
  BY <1>5, <1>7 DEF LockPage, IInv, TypeOK, WalTypes
<1>8. ASSUME NEW th \in Threads, LockGranted(th) PROVE WalInv'
  <2>1. /\ DOMAIN transactions' = DOMAIN transactions
        /\ \A t \in DOMAIN transactions : transactions'[t].state = transactions[t].state
    BY <1>8 DEF LockGranted, IsActive, Grant, IInv, TypeOK, Transaction
  <2> QED
    BY <1>5, <1>8, <2>1 DEF LockGranted, IInv, TypeOK, WalTypes, Idle
<1>9. ASSUME NEW th \in Threads,
             LockRefused(th) \/ LockBlocked(th) \/ LockTimeout(th) \/ LockRetry(th)
      PROVE  WalInv'
  <2>1. call[th] \in LockCall /\ ~destroyed
    BY <1>9 DEF LockRefused, LockBlocked, LockTimeout, LockRetry, IInv, TypeOK, WalPending,
                WalCall, WalTypes, Idle
  <2>2. call'[th].at \notin WalTypes
    BY <1>9, <2>1 DEF LockRefused, LockBlocked, LockTimeout, LockRetry, IInv, TypeOK, LockCall,
                      WalTypes, Idle
  <2>3. \A o \in Threads : o # th => call'[o] = call[o]
    BY <1>9 DEF LockRefused, LockBlocked, LockTimeout, LockRetry, IInv, TypeOK
  <2>4. UNCHANGED <<transactions, wal, destroyed>>
    BY <1>9 DEF LockRefused, LockBlocked, LockTimeout, LockRetry
  <2> QED
    BY <1>5, <2>1, <2>2, <2>3, <2>4
<1>10. CASE Destroy
  BY <1>10 DEF Destroy, IInv, WalInv, WalMatchesOutcome, WalPending
<1>11. ASSUME NEW t \in TxnIds, AbortOnShutdown(t) PROVE WalInv'
  <2>1. /\ t \in DOMAIN transactions /\ transactions[t].state = "ACTIVE"
        /\ DOMAIN transactions' = DOMAIN transactions
        /\ transactions'[t].state = "ABORTED"
        /\ \A u \in DOMAIN transactions : u # t => transactions'[u] = transactions[u]
    BY <1>11 DEF AbortOnShutdown, Finish, IsActive, IInv, TypeOK
  <2>2. \A i \in 1..Len(wal) : wal[i].txn = t => wal[i].type = "BEGIN"
    BY <2>1 DEF IInv, WalMatchesOutcome
  <2>3. \A th \in Threads : call'[th].at = "idle"
    BY <1>11 DEF AbortOnShutdown, IInv, WalPending
  <2>4. CASE wal' = wal
    BY <2>1, <2>2, <2>3, <2>4 DEF IInv, WalInv, WalMatchesOutcome, WalPending, WalTypes
  <2>5. CASE wal' = Append(wal, [type |-> "ABORT", txn |-> t])
    <3>1. /\ Len(wal) \in Nat
          /\ Len(wal') = Len(wal) + 1
          /\ wal'[Len(wal) + 1] = [type |-> "ABORT", txn |-> t]
          /\ \A i \in 1..Len(wal) : wal'[i] = wal[i]
      BY <2>5, AppendRecord DEF IInv
    <3>2. WalMatchesOutcome'
      BY <2>1, <2>2, <3>1 DEF IInv, WalMatchesOutcome
    <3>3. WalPending'
      BY <2>1, <2>3, <3>1 DEF IInv, WalPending, WalTypes
    <3> QED
      BY <3>2, <3>3 DEF WalInv
  <2> QED
    BY <1>11, <2>4, <2>5 DEF AbortOnShutdown
<1>12. CASE UNCHANGED vars
  BY <1>12 DEF vars, IInv, WalInv, WalMatchesOutcome, WalPending
<1> QED
  BY <1>1, <1>2, <1>3, <1>4, <1>6, <1>7, <1>8, <1>9, <1>10, <1>11, <1>12
     DEF Next, CallWith, Proceed

-----------------------------------------------------------------------------
\* The inductive invariant holds in every reachable state.
THEOREM Invariance == Spec => []IInv
<1>1. IInv /\ [Next]_vars => IInv'
  BY TypeStep, LockStep, WalStep DEF IInv, LockInv, WalInv
<1> QED
  BY InitInv, <1>1, PTL DEF Spec

\* The tables, the log and the calls have their types.
THEOREM TypeCorrect == Spec => []TypeOK
BY Invariance, PTL DEF IInv

\* lockPage, unlockPage, commit, abort and the destructor never leave an
\* exclusive lock with two holders, a lock without a holder or a lock held by
\* a finished transaction.
THEOREM LockSafety == Spec => []LockExclusion
BY Invariance, PTL DEF IInv

\* lockedPages and pageLocks_ agree, so releaseAllLocks frees everything.
THEOREM LockAgreement == Spec => []LockTablesAgree
BY Invariance, PTL DEF IInv

\* The log has at most one outcome per transaction: the one in the table.
THEOREM WalConsistency == Spec => []WalMatchesOutcome
BY Invariance, PTL DEF IInv

-----------------------------------------------------------------------------
\* What one step may do to a lock that u holds on q.
Kept(u, q) ==
  \/ ~IsActive(u)'
  \/ \E th \in Threads : UnlockPage(th, u, q)
  \/ /\ Holds(u, q)'
     /\ pageLocks[q].lockType = "EXCLUSIVE" => pageLocks'[q].lockType = "EXCLUSIVE"

\* No call takes a lock away from another active transaction.
THEOREM LocksAreKept == Spec => NoLockStolen
<1>1. ASSUME LockInv, [Next]_vars, NEW q \in DOMAIN pageLocks, NEW u \in pageLocks[q].holders
      PROVE  Kept(u, q)
  <2>1. u \in DOMAIN transactions /\ Holds(u, q)
    BY <1>1 DEF LockInv, LockExclusion, IsActive, Holds
  <2>2. CASE UNCHANGED pageLocks
    BY <2>1, <2>2 DEF Kept, Holds
  <2>3. ASSUME NEW t \in TxnIds, NEW s, Finish(t, s), s # "ACTIVE" PROVE Kept(u, q)
    <3>1. CASE u = t
      BY <2>3, <3>1 DEF Finish, IsActive, Kept, LockInv, TypeOK
    <3>2. CASE u # t
      BY <1>1, <2>1, <2>3, <3>2 DEF Finish, ReleaseAllLocks, Kept, Holds, LockInv, TypeOK, PageLock
    <3> QED
      BY <3>1, <3>2
  <2>4. ASSUME NEW th \in Threads, NEW t \in TxnIds, NEW p \in Pages, UnlockPage(th, t, p)
        PROVE  Kept(u, q)
    <3>1. CASE u = t /\ q = p
      BY <2>4, <3>1 DEF Kept
    <3>2. CASE ~(u = t /\ q = p)
      BY <1>1, <2>1, <2>4, <3>2
         DEF UnlockPage, Erase, Kept, Holds, LockInv, TypeOK, PageLock
    <3> QED
      BY <3>1, <3>2
  <2>5. ASSUME NEW t, NEW p, NEW l, Grant(t, p, l) PROVE Kept(u, q)
    <3>1. CASE IsFree(p) /\ pageLocks' = Put(pageLocks, p, [lockType |-> l, holders |-> {t}])
      BY <1>1, <2>1, <3>1 DEF IsFree, Put, Kept, Holds
    <3>2. CASE CanUpgrade(t, p, l) /\ pageLocks' = [pageLocks EXCEPT ![p].lockType = "EXCLUSIVE"]
      BY <1>1, <2>1, <3>2 DEF CanUpgrade, Kept, Holds, LockInv, TypeOK, PageLock
    <3>3. CASE CanJoin(t, p, l) /\ pageLocks' = [pageLocks EXCEPT ![p].holders = @ \cup {t}]
      BY <1>1, <2>1, <3>3 DEF CanJoin, Kept, Holds, LockInv, TypeOK, PageLock
    <3> QED
      BY <2>2, <2>5, <3>1, <3>2, <3>3 DEF Grant
  <2> QED
    BY <1>1, <2>2, <2>3, <2>4, <2>5
       DEF Next, CallWith, Proceed, BeginTransaction, CommitTransaction, AbortTransaction,
           LockPage, WriteWal, LockGranted, LockRefused, LockBlocked, LockTimeout, LockRetry,
           Destroy, AbortOnShutdown, vars
<1>2. LockInv /\ [Next]_vars =>
        [\A p \in DOMAIN pageLocks : \A t \in pageLocks[p].holders :
           \/ ~IsActive(t)'
           \/ \E th \in Threads : UnlockPage(th, t, p)
           \/ /\ Holds(t, p)'
              /\ pageLocks[p].lockType = "EXCLUSIVE" => pageLocks'[p].lockType = "EXCLUSIVE"]_vars
  BY <1>1 DEF Kept
<1>3. IInv => LockInv
  BY DEF IInv, LockInv
<1> QED
  BY Invariance, <1>2, <1>3, PTL DEF Spec, NoLockStolen

-----------------------------------------------------------------------------
\* The write-ahead log.

\* A transaction whose COMMIT record has been accepted.
Settled(t) == t \in 1..Len(txns) /\ txns[t].state \in {"committing", "committed"}

\* What the log says about the session that is running: the data records it
\* wrote are still there, and its COMMIT records belong to transactions that
\* are committing or have committed.
SessionRecords ==
  /\ \A r \in written : r.session <= session
  /\ \A i \in 1..Len(log) : log[i].session <= session
  /\ running => \A r \in written :
       r.session = session => \E j \in 1..Len(log) : log[j] = r
  /\ running => \A i \in 1..Len(log) :
       log[i].type = "COMMIT_TXN" /\ log[i].session = session => Settled(log[i].txn)

LogInv ==
  /\ LogTypeOK
  /\ LSNsIncrease
  /\ CommitCoversRecords
  /\ SecuredCommitsStay
  /\ SessionRecords

\* The log of the next state starts with the log of this one; at most one
\* entry is new, of the given type or a fragment, for transaction t.
Extends(type, t) ==
  /\ log' \in Seq(Record)
  /\ Len(log') \in {Len(log), Len(log) + 1}
  /\ \A i \in 1..Len(log) : log'[i] = log[i]
  /\ Len(log') = Len(log) + 1 =>
       /\ log'[Len(log) + 1].type \in {type, "FRAGMENT"}
       /\ log'[Len(log) + 1].txn = t
       /\ log'[Len(log) + 1].session = session

-----------------------------------------------------------------------------
\* The fields of an entry of the log.
LEMMA EntryTypes ==
  ASSUME LogTypeOK
  PROVE  \A i \in 1..Len(log) :
           log[i] \in Record /\ log[i].txn \in TxnNumbers /\ log[i].lsn \in Nat /\ log[i].session \in Nat
<1>1. \A i \in 1..Len(log) : log[i] \in Record
  BY DEF LogTypeOK
<1>2. \A x \in Record : x.txn \in TxnNumbers /\ x.lsn \in Nat /\ x.session \in Nat
  BY LogAssumption DEF Record, Sessions
<1> QED BY <1>1, <1>2

\* An entry that stays where it is stays readable: a scan looks only at what
\* comes before it.
LEMMA ReadableKept ==
  ASSUME NEW n \in Nat, log \in Seq(Record), log' \in Seq(Record),
         n <= Len(log), n <= Len(log'), \A i \in 1..n : log'[i] = log[i]
  PROVE  \A i \in 1..n : Readable(i)' <=> Readable(i)
<1> SUFFICES ASSUME NEW i \in 1..n
             PROVE  Readable(i)' <=> Readable(i)
  OBVIOUS
<1>1. i \in 1..Len(log) /\ i \in 1..Len(log')
  OBVIOUS
<1>2. \A j \in 1..i : j \in 1..n
  OBVIOUS
<1> QED BY <1>1, <1>2 DEF Readable

\* writeRecordToFile only appends, whether it succeeds or fails.
LEMMA WriteExtends ==
  ASSUME LogTypeOK, NEW t \in TxnNumbers, NEW type \in RecordTypes,
         Accepted(type, t) \/ Rejected(type, t)
  PROVE  Extends(type, t) /\ currentLSN' \in 0..MaxLSN
<1> USE LogAssumption
<1>1. CASE log' = log /\ currentLSN' = currentLSN
  BY <1>1 DEF LogTypeOK, Extends
<1>2. CASE log' = log /\ HasRoom /\ currentLSN' = currentLSN + 1
  BY <1>2 DEF LogTypeOK, Extends, HasRoom
<1>3. ASSUME NEW k \in {type, "FRAGMENT"}, HasRoom, currentLSN' = currentLSN + 1,
             log' = Append(log, NewRecord(k, t))
      PROVE  Extends(type, t) /\ currentLSN' \in 0..MaxLSN
  <2>1. currentLSN + 1 \in 1..MaxLSN /\ session \in Sessions /\ log \in Seq(Record)
    BY <1>3 DEF LogTypeOK, HasRoom
  <2>2. NewRecord(k, t) \in Record
    BY <2>1 DEF NewRecord, Record
  <2>3. NewRecord(k, t).type = k /\ NewRecord(k, t).txn = t /\ NewRecord(k, t).session = session
    BY DEF NewRecord
  <2>4. /\ log' \in Seq(Record)
        /\ Len(log') = Len(log) + 1
        /\ \A i \in 1..Len(log) : log'[i] = log[i]
        /\ log'[Len(log) + 1] = NewRecord(k, t)
    BY <1>3, <2>1, <2>2
  <2> QED BY <1>3, <2>1, <2>3, <2>4 DEF Extends
<1> QED BY <1>1, <1>2, <1>3 DEF Accepted, Rejected

\* The LSN of a new record is larger than every readable one, and a failed
\* write uses one up.
LEMMA WriteKeepsLSNs ==
  ASSUME LogTypeOK, LSNsIncrease, running, NEW t \in TxnNumbers, NEW type \in RecordTypes,
         Accepted(type, t) \/ Rejected(type, t), UNCHANGED <<isOpen, running>>
  PROVE  LSNsIncrease'
<1>1. Extends(type, t) /\ currentLSN' \in 0..MaxLSN
  BY WriteExtends
<1>2. \A i \in 1..Len(log) : Readable(i)' <=> Readable(i)
  <2>1. log \in Seq(Record) /\ log' \in Seq(Record) /\ Len(log) \in Nat
    BY <1>1 DEF LogTypeOK, Extends
  <2>2. Len(log) <= Len(log') /\ \A i \in 1..Len(log) : log'[i] = log[i]
    BY <1>1, <2>1 DEF Extends
  <2> QED BY <2>1, <2>2, ReadableKept
<1>3. currentLSN' >= currentLSN
  BY DEF Accepted, Rejected, LogTypeOK
<1>4. \A i \in 1..Len(log) : log[i].lsn \in Int
  BY EntryTypes
<1>5. CASE Len(log') = Len(log)
  BY <1>1, <1>2, <1>3, <1>4, <1>5 DEF LSNsIncrease, Extends, LogTypeOK
<1>6. CASE Len(log') = Len(log) + 1
  <2>0. PICK n \in Nat : n = Len(log) + 1
    BY DEF LogTypeOK
  <2>1. isOpen /\ currentLSN' = currentLSN + 1 /\ log'[n].lsn = currentLSN + 1
    <3>1. ASSUME NEW k \in {type, "FRAGMENT"}, log' = Append(log, NewRecord(k, t))
          PROVE  log'[n].lsn = currentLSN + 1
      BY <2>0, <3>1 DEF LogTypeOK, NewRecord
    <3>2. log' # log
      BY <1>6 DEF LogTypeOK
    <3> QED BY <3>1, <3>2 DEF Accepted, Rejected
  <2>2. Readable(n)' => \A i \in 1..Len(log) : Readable(i)
    <3>1. Readable(n)' => \A i \in 1..Len(log) : log[i].type # "FRAGMENT"
      BY <1>1, <1>6, <2>0 DEF Readable, Extends, LogTypeOK
    <3> QED BY <3>1 DEF Readable, LogTypeOK
  <2>3. ASSUME NEW i \in 1..Len(log'), NEW j \in 1..Len(log'), Readable(j)', i < j
        PROVE  log'[i].lsn < log'[j].lsn
    <3>1. CASE j \in 1..Len(log)
      BY <2>3, <3>1, <1>1, <1>2 DEF LSNsIncrease, Extends, LogTypeOK
    <3>2. CASE j = n
      <4>1. i \in 1..Len(log) /\ Readable(i)
        BY <2>0, <2>2, <2>3, <3>2, <1>6 DEF LogTypeOK
      <4>2. log[i].lsn <= currentLSN
        BY <2>1, <4>1 DEF LSNsIncrease
      <4> QED BY <1>1, <1>4, <2>0, <2>1, <3>2, <4>1, <4>2 DEF Extends, LogTypeOK
    <3> QED BY <1>6, <2>0, <3>1, <3>2 DEF LogTypeOK
  <2>4. ASSUME NEW i \in 1..Len(log'), Readable(i)'
        PROVE  log'[i].lsn <= currentLSN'
    <3>1. CASE i \in 1..Len(log)
      BY <2>1, <2>4, <3>1, <1>1, <1>2, <1>4 DEF LSNsIncrease, Extends, LogTypeOK
    <3>2. CASE i = n
      BY <2>1, <3>2 DEF LogTypeOK
    <3> QED BY <1>6, <2>0, <3>1, <3>2 DEF LogTypeOK
  <2> QED BY <2>3, <2>4 DEF LSNsIncrease
<1> QED BY <1>1, <1>5, <1>6 DEF Extends

\* The entries of the log, and readability, through a write.
LEMMA ExtendsFacts ==
  ASSUME LogTypeOK, NEW t, NEW type, Extends(type, t)
  PROVE  /\ Len(log) \in Nat /\ Len(log') \in Nat /\ Len(log) <= Len(log')
         /\ \A i \in 1..Len(log) : log'[i] = log[i] /\ (Readable(i)' <=> Readable(i))
         /\ \A i \in 1..Len(log') : i \in 1..Len(log) \/ i = Len(log) + 1
<1>1. log \in Seq(Record) /\ log' \in Seq(Record) /\ Len(log) \in Nat
  BY DEF LogTypeOK, Extends
<1>2. Len(log) <= Len(log') /\ \A i \in 1..Len(log) : log'[i] = log[i]
  BY <1>1 DEF Extends
<1>3. \A i \in 1..Len(log) : Readable(i)' <=> Readable(i)
  BY <1>1, <1>2, ReadableKept
<1> QED BY <1>1, <1>2, <1>3 DEF Extends

\* A write does not touch what is in the file.
LEMMA WriteKeepsSecured ==
  ASSUME LogTypeOK, SecuredCommitsStay, NEW t, NEW type, Extends(type, t),
         UNCHANGED <<flushed, acked>>
  PROVE  SecuredCommitsStay'
<1> SUFFICES ASSUME NEW a \in acked, a.secured
             PROVE  \E i \in 1..flushed : Readable(i)' /\ IsCommitOf(i, a.owner)'
  BY DEF SecuredCommitsStay
<1>1. PICK i \in 1..flushed : Readable(i) /\ IsCommitOf(i, a.owner)
  BY DEF SecuredCommitsStay
<1>2. i \in 1..Len(log)
  BY <1>1 DEF Readable
<1>3. Readable(i)' /\ log'[i] = log[i]
  BY <1>1, <1>2, ExtendsFacts
<1>4. IsCommitOf(i, a.owner)'
  BY <1>1, <1>3 DEF IsCommitOf, Owner
<1> QED BY <1>1, <1>3, <1>4

\* A write of anything but a COMMIT record, with no new data record accepted,
\* leaves the records of every commit complete.
LEMMA WriteKeepsCommits ==
  ASSUME LogTypeOK, CommitCoversRecords, SessionRecords,
         NEW t, NEW type, Extends(type, t), type # "COMMIT_TXN",
         UNCHANGED <<running, session, written>>,
         \A k \in TxnNumbers : Settled(k) => Settled(k)'
  PROVE  CommitCoversRecords' /\ SessionRecords'
<1>0. \A i \in 1..Len(log) : log[i].txn \in TxnNumbers
  BY EntryTypes
<1>1. ASSUME NEW i \in 1..Len(log'), log'[i].type = "COMMIT_TXN"
      PROVE  i \in 1..Len(log) /\ log'[i] = log[i]
  BY <1>1, ExtendsFacts DEF Extends
<1>2. ASSUME NEW i \in 1..Len(log'), NEW r \in written, Readable(i)', IsCommitOf(i, Owner(r))'
      PROVE  \E j \in 1..(i - 1) : log'[j] = r
  <2>1. i \in 1..Len(log) /\ log'[i] = log[i] /\ Readable(i)
    BY <1>1, <1>2, ExtendsFacts DEF IsCommitOf
  <2>2. IsCommitOf(i, Owner(r))
    BY <1>2, <2>1 DEF IsCommitOf, Owner
  <2>3. PICK j \in 1..(i - 1) : log[j] = r
    BY <2>1, <2>2 DEF CommitCoversRecords
  <2>4. j \in 1..Len(log)
    BY <2>1, <2>3 DEF LogTypeOK
  <2> QED BY <2>3, <2>4, ExtendsFacts
<1>3. CommitCoversRecords'
  BY <1>2 DEF CommitCoversRecords
<1>4. \A i \in 1..Len(log') : log'[i].session <= session
  <2>1. session <= session
    BY DEF LogTypeOK, Sessions
  <2> QED BY <2>1, ExtendsFacts DEF SessionRecords, Extends
<1>5. ASSUME running, NEW r \in written, r.session = session
      PROVE  \E j \in 1..Len(log') : log'[j] = r
  <2>1. PICK j \in 1..Len(log) : log[j] = r
    BY <1>5 DEF SessionRecords
  <2> QED BY <2>1, ExtendsFacts
<1>6. ASSUME running, NEW i \in 1..Len(log'), log'[i].type = "COMMIT_TXN", log'[i].session = session
      PROVE  Settled(log[i].txn)'
  <2>1. PICK k \in TxnNumbers : k = log[i].txn
    BY <1>0, <1>1, <1>6
  <2>2. Settled(k)
    BY <1>1, <1>6, <2>1 DEF SessionRecords
  <2>3. log'[i].txn = k
    BY <1>1, <1>6, <2>1
  <2>4. Settled(k)'
    BY <2>2
  <2> QED BY <2>3, <2>4 DEF Settled
<1>7. SessionRecords'
  BY <1>4, <1>5, <1>6 DEF SessionRecords
<1> QED BY <1>3, <1>7

-----------------------------------------------------------------------------
\* A transaction changes its state.
LEMMA StateSet ==
  ASSUME LogTypeOK, NEW t \in 1..Len(txns),
         NEW s \in {"active", "committing", "committed", "ended", "stranded"},
         txns' = [txns EXCEPT ![t].state = s]
  PROVE  /\ txns' \in Seq(Txn) /\ Len(txns') = Len(txns)
         /\ txns'[t].state = s
         /\ \A k \in 1..Len(txns) : k # t => txns'[k] = txns[k]
<1>1. txns \in Seq(Txn) /\ txns[t] \in Txn
  BY DEF LogTypeOK
<1>2. [txns[t] EXCEPT !.state = s] \in Txn /\ [txns[t] EXCEPT !.state = s].state = s
  BY <1>1 DEF Txn
<1>3. txns' = [txns EXCEPT ![t] = [txns[t] EXCEPT !.state = s]]
  OBVIOUS
<1> QED BY <1>1, <1>2, <1>3

\* An operation of a transaction has no record.
LEMMA LoggedSet ==
  ASSUME LogTypeOK, NEW t \in 1..Len(txns), txns' = [txns EXCEPT ![t].logged = FALSE]
  PROVE  /\ txns' \in Seq(Txn) /\ Len(txns') = Len(txns)
         /\ \A k \in TxnNumbers : Settled(k) => Settled(k)'
<1>1. txns \in Seq(Txn) /\ txns[t] \in Txn
  BY DEF LogTypeOK
<1>2. /\ [txns[t] EXCEPT !.logged = FALSE] \in Txn
      /\ [txns[t] EXCEPT !.logged = FALSE].state = txns[t].state
  BY <1>1 DEF Txn
<1>3. txns' = [txns EXCEPT ![t] = [txns[t] EXCEPT !.logged = FALSE]]
  OBVIOUS
<1>4. txns' \in Seq(Txn) /\ Len(txns') = Len(txns)
  BY <1>1, <1>2, <1>3
<1>5. \A k \in 1..Len(txns) : txns'[k].state = txns[k].state
  BY <1>1, <1>2, <1>3
<1> QED BY <1>4, <1>5 DEF Settled

\* What every write of a record, other than an accepted COMMIT and an accepted
\* operation, preserves.
LEMMA QuietWrite ==
  ASSUME LogInv, running, NEW t \in TxnNumbers, NEW type \in RecordTypes,
         Accepted(type, t) \/ Rejected(type, t),
         UNCHANGED <<flushed, isOpen, running, session, acked, written>>,
         type = "COMMIT_TXN" => ~Accepted(type, t),
         \A k \in TxnNumbers : Settled(k) => Settled(k)',
         txns' \in Seq(Txn), Len(txns') <= MaxTxns
  PROVE  LogInv'
<1>1. LogTypeOK /\ LSNsIncrease /\ CommitCoversRecords /\ SecuredCommitsStay /\ SessionRecords
  BY DEF LogInv
<1>2. Extends(type, t) /\ currentLSN' \in 0..MaxLSN
  BY <1>1, WriteExtends
<1>3. LSNsIncrease'
  BY <1>1, WriteKeepsLSNs
<1>4. SecuredCommitsStay'
  BY <1>1, <1>2, WriteKeepsSecured
<1>5. PICK k : k # "COMMIT_TXN" /\ Extends(k, t)
  <2>1. CASE type # "COMMIT_TXN"
    BY <1>2, <2>1
  <2>2. CASE type = "COMMIT_TXN"
    <3>1. "COMMIT_TXN" \notin Operations
      BY LogAssumption
    <3>2. log' = log
      BY <2>2, <3>1 DEF Rejected
    <3>3. Extends("BEGIN_TXN", t)
      BY <1>1, <3>2 DEF Extends, LogTypeOK
    <3> QED BY <3>3
  <2> QED BY <2>1, <2>2
<1>6. CommitCoversRecords' /\ SessionRecords'
  BY <1>1, <1>5, WriteKeepsCommits
<1>7. LogTypeOK'
  <2>1. flushed' \in 0..Len(log')
    BY <1>1, <1>2 DEF LogTypeOK, Extends
  <2> QED BY <1>1, <1>2, <2>1 DEF LogTypeOK, Extends
<1> QED BY <1>3, <1>4, <1>6, <1>7 DEF LogInv

\* Initially the log is empty.
LEMMA LogInitInv == LogInit => LogInv
<1> SUFFICES ASSUME LogInit PROVE LogInv
  OBVIOUS
<1>1. LogTypeOK
  BY LogAssumption DEF LogInit, LogTypeOK, Sessions
<1>2. LSNsIncrease /\ CommitCoversRecords /\ SecuredCommitsStay /\ SessionRecords
  BY DEF LogInit, LSNsIncrease, CommitCoversRecords, SecuredCommitsStay, SessionRecords, Readable
<1> QED BY <1>1, <1>2 DEF LogInv

\* beginTransaction.
LEMMA BeginStep ==
  ASSUME LogInv, NEW t \in TxnNumbers, NEW autoCommit \in BOOLEAN, WriteBegin(t, autoCommit)
  PROVE  LogInv'
<1>1. LogTypeOK
  BY DEF LogInv
<1>2. [state |-> "active", autoCommit |-> autoCommit, logged |-> TRUE] \in Txn
  BY DEF Txn
<1>3. /\ txns' \in Seq(Txn) /\ Len(txns') = Len(txns) + 1
      /\ \A k \in 1..Len(txns) : txns'[k] = txns[k]
  BY <1>1, <1>2 DEF WriteBegin, LogTypeOK
<1>4. \A k \in TxnNumbers : Settled(k) => Settled(k)'
  BY <1>1, <1>3 DEF Settled, LogTypeOK
<1>5. Len(txns') <= MaxTxns
  BY <1>1, <1>3, LogAssumption DEF WriteBegin, TxnNumbers, LogTypeOK
<1>6. "BEGIN_TXN" \in RecordTypes
  BY DEF RecordTypes
<1> QED BY <1>3, <1>4, <1>5, <1>6, QuietWrite DEF WriteBegin

\* abortTransaction.
LEMMA AbortStep ==
  ASSUME LogInv, NEW t \in TxnNumbers, WriteAbort(t)
  PROVE  LogInv'
<1>1. LogTypeOK /\ t \in 1..Len(txns) /\ txns[t].state = "active"
  BY DEF LogInv, WriteAbort, Active
<1>2. PICK s \in {"ended", "stranded"} : txns' = [txns EXCEPT ![t].state = s]
  BY DEF WriteAbort, Left
<1>3. /\ txns' \in Seq(Txn) /\ Len(txns') = Len(txns)
      /\ \A k \in 1..Len(txns) : k # t => txns'[k] = txns[k]
  BY <1>1, <1>2, StateSet
<1>4. \A k \in TxnNumbers : Settled(k) => Settled(k)'
  BY <1>1, <1>3 DEF Settled
<1>5. Len(txns') <= MaxTxns
  BY <1>1, <1>3 DEF LogTypeOK
<1>6. "ABORT_TXN" \in RecordTypes
  BY DEF RecordTypes
<1> QED BY <1>3, <1>4, <1>5, <1>6, QuietWrite DEF WriteAbort

\* An operation whose record is accepted: no COMMIT record of the transaction
\* is in the log yet, since the transaction is not committing.
LEMMA AcceptedOperation ==
  ASSUME LogInv, running, NEW t \in TxnNumbers, NEW type \in Operations, CanOperate(t),
         Accepted(type, t), written' = written \cup {NewRecord(type, t)},
         UNCHANGED <<flushed, isOpen, running, session, txns, acked>>
  PROVE  LogInv'
<1>1. LogTypeOK /\ LSNsIncrease /\ CommitCoversRecords /\ SecuredCommitsStay /\ SessionRecords
  BY DEF LogInv
<1>2. type \in RecordTypes /\ type # "COMMIT_TXN"
  BY LogAssumption DEF RecordTypes
<1>3. Extends(type, t) /\ currentLSN' \in 0..MaxLSN
  BY <1>1, <1>2, WriteExtends
<1>4. LSNsIncrease'
  BY <1>1, <1>2, WriteKeepsLSNs
<1>5. SecuredCommitsStay'
  BY <1>1, <1>3, WriteKeepsSecured
<1>6. PICK x : x = NewRecord(type, t)
  OBVIOUS
<1>7. x \in Record /\ x.session = session /\ x.txn = t /\ x.type \in Operations
  <2>1. currentLSN + 1 \in 1..MaxLSN /\ session \in Sessions
    BY <1>1, LogAssumption DEF LogTypeOK, Accepted, HasRoom
  <2> QED BY <1>2, <1>6, <2>1 DEF NewRecord, Record
<1>8. Len(log') = Len(log) + 1 /\ log'[Len(log) + 1] = x /\ written' = written \cup {x}
  BY <1>1, <1>6 DEF Accepted, LogTypeOK
<1>9. ASSUME NEW i \in 1..Len(log'), log'[i].type = "COMMIT_TXN"
      PROVE  i \in 1..Len(log) /\ log'[i] = log[i]
  BY <1>1, <1>2, <1>3, <1>9, ExtendsFacts, LogAssumption DEF Extends
<1>10. ASSUME NEW i \in 1..Len(log'), NEW r \in written', Readable(i)', IsCommitOf(i, Owner(r))'
       PROVE  \E j \in 1..(i - 1) : log'[j] = r
  <2>1. i \in 1..Len(log) /\ log'[i] = log[i] /\ Readable(i)
    BY <1>1, <1>3, <1>9, <1>10, ExtendsFacts DEF IsCommitOf
  <2>2. IsCommitOf(i, Owner(r))
    BY <1>10, <2>1 DEF IsCommitOf, Owner
  <2>3. r # x
    <3>1. SUFFICES ASSUME r = x PROVE FALSE
      OBVIOUS
    <3>2. log[i].type = "COMMIT_TXN" /\ log[i].txn = t /\ log[i].session = session
      BY <1>7, <2>2, <3>1 DEF IsCommitOf, Owner
    <3>3. Settled(t)
      BY <1>1, <2>1, <3>2 DEF SessionRecords
    <3> QED BY <3>3 DEF Settled, CanOperate
  <2>4. PICK j \in 1..(i - 1) : log[j] = r
    BY <1>1, <1>8, <2>1, <2>2, <2>3 DEF CommitCoversRecords
  <2>5. j \in 1..Len(log)
    BY <1>1, <2>1, <2>4 DEF LogTypeOK
  <2> QED BY <1>1, <1>3, <2>4, <2>5, ExtendsFacts
<1>11. CommitCoversRecords'
  BY <1>10 DEF CommitCoversRecords
<1>12. SessionRecords'
  <2>1. session <= session
    BY <1>1 DEF LogTypeOK, Sessions
  <2>2. \A r \in written' : r.session <= session
    BY <1>1, <1>7, <1>8, <2>1 DEF SessionRecords
  <2>3. \A i \in 1..Len(log') : log'[i].session <= session
    BY <1>1, <1>3, <1>7, <1>8, <2>1, ExtendsFacts DEF SessionRecords
  <2>4. ASSUME NEW r \in written', r.session = session
        PROVE  \E j \in 1..Len(log') : log'[j] = r
    <3>1. CASE r \in written
      BY <1>1, <1>3, <2>4, <3>1, ExtendsFacts DEF SessionRecords
    <3>2. CASE r = x
      BY <1>1, <1>3, <1>8, <3>2, ExtendsFacts
    <3> QED BY <1>8, <2>4, <3>1, <3>2
  <2>5. ASSUME NEW i \in 1..Len(log'), log'[i].type = "COMMIT_TXN", log'[i].session = session
        PROVE  Settled(log[i].txn)'
    <3>1. i \in 1..Len(log) /\ log'[i] = log[i]
      BY <1>9, <2>5
    <3>2. Settled(log[i].txn)
      BY <1>1, <2>5, <3>1 DEF SessionRecords
    <3> QED BY <3>1, <3>2 DEF Settled
  <2> QED BY <2>2, <2>3, <2>4, <2>5 DEF SessionRecords
<1>13. LogTypeOK'
  <2>1. flushed' \in 0..Len(log')
    BY <1>1, <1>3 DEF LogTypeOK, Extends
  <2>2. written' \subseteq Record
    BY <1>1, <1>7, <1>8 DEF LogTypeOK
  <2>3. \A r \in written' : r.type \in Operations
    BY <1>1, <1>7, <1>8 DEF LogTypeOK
  <2> QED BY <1>1, <1>3, <2>1, <2>2, <2>3 DEF LogTypeOK, Extends
<1> QED BY <1>4, <1>5, <1>11, <1>12, <1>13 DEF LogInv

\* An operation of a statement: with its record, or without it.
LEMMA OperateStep ==
  ASSUME LogInv, NEW t \in TxnNumbers, NEW type \in Operations, Operate(t, type)
  PROVE  LogInv'
<1>1. LogTypeOK /\ running /\ CanOperate(t) /\ t \in 1..Len(txns)
  BY DEF LogInv, Operate, CanOperate
<1>2. CASE Accepted(type, t) /\ written' = written \cup {NewRecord(type, t)} /\ UNCHANGED txns
  BY <1>1, <1>2, AcceptedOperation DEF Operate
<1>3. CASE Rejected(type, t) /\ txns' = [txns EXCEPT ![t].logged = FALSE] /\ UNCHANGED written
  <2>1. /\ txns' \in Seq(Txn) /\ Len(txns') = Len(txns)
        /\ \A k \in TxnNumbers : Settled(k) => Settled(k)'
    BY <1>1, <1>3, LoggedSet
  <2>2. Len(txns') <= MaxTxns
    BY <1>1, <2>1 DEF LogTypeOK
  <2>3. type \in RecordTypes /\ type # "COMMIT_TXN"
    BY LogAssumption DEF RecordTypes
  <2> QED BY <1>1, <1>3, <2>1, <2>2, <2>3, QuietWrite DEF Operate
<1> QED BY <1>2, <1>3 DEF Operate

\* A COMMIT record: all data records of the transaction are before it.
LEMMA WriteCommitStep ==
  ASSUME LogInv, NEW t \in TxnNumbers, WriteCommit(t)
  PROVE  LogInv'
<1>1. LogTypeOK /\ LSNsIncrease /\ CommitCoversRecords /\ SecuredCommitsStay /\ SessionRecords
  BY DEF LogInv
<1>2. running /\ t \in 1..Len(txns) /\ txns[t].state = "active"
  BY DEF WriteCommit, Active
<1>3. "COMMIT_TXN" \in RecordTypes /\ "COMMIT_TXN" \notin Operations
  BY LogAssumption DEF RecordTypes
<1>4. CASE Rejected("COMMIT_TXN", t) /\ txns' = [txns EXCEPT ![t].state = Left(t)]
  <2>1. PICK s \in {"ended", "stranded"} : s = Left(t)
    BY DEF Left
  <2>2. /\ txns' \in Seq(Txn) /\ Len(txns') = Len(txns)
        /\ \A k \in 1..Len(txns) : k # t => txns'[k] = txns[k]
    BY <1>1, <1>2, <1>4, <2>1, StateSet
  <2>3. \A k \in TxnNumbers : Settled(k) => Settled(k)'
    BY <1>2, <2>2 DEF Settled
  <2>4. Len(txns') <= MaxTxns
    BY <1>1, <2>2 DEF LogTypeOK
  <2>5. ~Accepted("COMMIT_TXN", t)
    <3>1. log' = log
      BY <1>3, <1>4 DEF Rejected
    <3>2. Accepted("COMMIT_TXN", t) => Len(log') = Len(log) + 1
      BY <1>1 DEF Accepted, LogTypeOK
    <3> QED BY <1>1, <3>1, <3>2 DEF LogTypeOK
  <2> QED BY <1>2, <1>3, <1>4, <2>2, <2>3, <2>4, <2>5, QuietWrite DEF WriteCommit
<1>5. CASE Accepted("COMMIT_TXN", t) /\ txns' = [txns EXCEPT ![t].state = "committing"]
  <2>0. UNCHANGED <<flushed, isOpen, running, session, acked, written>>
    BY DEF WriteCommit
  <2>1. Extends("COMMIT_TXN", t) /\ currentLSN' \in 0..MaxLSN
    BY <1>1, <1>3, <1>5, WriteExtends
  <2>2. LSNsIncrease'
    BY <1>1, <1>2, <1>3, <1>5, <2>0, WriteKeepsLSNs
  <2>3. SecuredCommitsStay'
    BY <1>1, <2>0, <2>1, WriteKeepsSecured
  <2>4. /\ txns' \in Seq(Txn) /\ Len(txns') = Len(txns) /\ txns'[t].state = "committing"
        /\ \A k \in 1..Len(txns) : k # t => txns'[k] = txns[k]
    BY <1>1, <1>2, <1>5, StateSet
  <2>5. \A k : Settled(k) \/ k = t => Settled(k)'
    BY <1>2, <2>4 DEF Settled
  <2>6. PICK n \in Nat : n = Len(log) + 1
    BY <1>1 DEF LogTypeOK
  <2>7. log'[n].txn = t /\ log'[n].session = session /\ Len(log') = n
    BY <1>1, <1>5, <2>6 DEF Accepted, NewRecord, LogTypeOK
  <2>8. ASSUME NEW i \in 1..Len(log'), NEW r \in written, Readable(i)', IsCommitOf(i, Owner(r))'
        PROVE  \E j \in 1..(i - 1) : log'[j] = r
    <3>1. CASE i \in 1..Len(log)
      <4>1. log'[i] = log[i] /\ Readable(i)
        BY <1>1, <2>1, <2>8, <3>1, ExtendsFacts
      <4>2. IsCommitOf(i, Owner(r))
        BY <2>8, <4>1 DEF IsCommitOf, Owner
      <4>3. PICK j \in 1..(i - 1) : log[j] = r
        BY <1>1, <3>1, <4>1, <4>2 DEF CommitCoversRecords
      <4>4. j \in 1..Len(log)
        BY <1>1, <3>1, <4>3 DEF LogTypeOK
      <4> QED BY <1>1, <2>1, <4>3, <4>4, ExtendsFacts
    <3>2. CASE i = n
      <4>1. r.session = session
        BY <2>7, <2>8, <3>2 DEF IsCommitOf, Owner
      <4>2. PICK j \in 1..Len(log) : log[j] = r
        BY <1>1, <1>2, <4>1 DEF SessionRecords
      <4>3. j \in 1..(i - 1)
        BY <1>1, <2>6, <3>2, <4>2 DEF LogTypeOK
      <4> QED BY <1>1, <2>1, <4>2, <4>3, ExtendsFacts
    <3> QED BY <1>1, <2>1, <2>6, <3>1, <3>2, ExtendsFacts
  <2>9. CommitCoversRecords'
    BY <2>0, <2>8 DEF CommitCoversRecords
  <2>10. SessionRecords'
    <3>1. session <= session
      BY <1>1 DEF LogTypeOK, Sessions
    <3>2. \A i \in 1..Len(log') : log'[i].session <= session
      BY <1>1, <2>1, <2>6, <2>7, <3>1, ExtendsFacts DEF SessionRecords
    <3>3. ASSUME NEW r \in written, r.session = session
          PROVE  \E j \in 1..Len(log') : log'[j] = r
      BY <1>1, <1>2, <2>1, <3>3, ExtendsFacts DEF SessionRecords
    <3>4. ASSUME NEW i \in 1..Len(log'), log'[i].type = "COMMIT_TXN", log'[i].session = session
          PROVE  Settled(log[i].txn)'
      <4>1. PICK k : k = log'[i].txn
        OBVIOUS
      <4>2. Settled(k) \/ k = t
        <5>1. CASE i \in 1..Len(log)
          BY <1>1, <1>2, <2>1, <3>4, <4>1, <5>1, ExtendsFacts DEF SessionRecords
        <5>2. CASE i = n
          BY <2>7, <4>1, <5>2
        <5> QED BY <1>1, <2>1, <2>6, <5>1, <5>2, ExtendsFacts
      <4>3. Settled(k)'
        BY <2>5, <4>2
      <4> QED BY <4>1, <4>3 DEF Settled
    <3> QED BY <2>0, <1>1, <3>2, <3>3, <3>4 DEF SessionRecords
  <2>11. LogTypeOK'
    <3>1. flushed' \in 0..Len(log')
      BY <1>1, <2>0, <2>1 DEF LogTypeOK, Extends
    <3> QED BY <1>1, <2>0, <2>1, <2>4, <3>1 DEF LogTypeOK, Extends
  <2> QED BY <2>2, <2>3, <2>9, <2>10, <2>11 DEF LogInv
<1> QED BY <1>4, <1>5 DEF WriteCommit

\* An operation in auto-commit mode that writes no record.
LEMMA OperateUnloggedStep ==
  ASSUME LogInv, NEW t \in TxnNumbers, NEW type \in Operations, OperateUnlogged(t, type)
  PROVE  LogInv'
<1>1. LogTypeOK /\ LSNsIncrease /\ CommitCoversRecords /\ SecuredCommitsStay /\ SessionRecords
  BY DEF LogInv
<1>2. UNCHANGED <<log, flushed, currentLSN, isOpen, running, session, acked, written>>
  BY DEF OperateUnlogged
<1>3. /\ txns' \in Seq(Txn) /\ Len(txns') = Len(txns)
      /\ \A k \in TxnNumbers : Settled(k) => Settled(k)'
  BY <1>1, LoggedSet DEF OperateUnlogged, CanOperate
<1>4. LogTypeOK'
  BY <1>1, <1>2, <1>3 DEF LogTypeOK
<1>5. LSNsIncrease' /\ CommitCoversRecords' /\ SecuredCommitsStay'
  BY <1>1, <1>2 DEF LSNsIncrease, CommitCoversRecords, SecuredCommitsStay, Readable, IsCommitOf
<1>6. SessionRecords'
  <2>1. Extends("BEGIN_TXN", t)
    BY <1>1, <1>2 DEF Extends, LogTypeOK
  <2> QED BY <1>1, <1>2, <1>3, <2>1, WriteKeepsCommits
<1> QED BY <1>4, <1>5, <1>6 DEF LogInv

\* commitTransaction returns, after a flush that succeeded or failed.
LEMMA ReturnCommitStep ==
  ASSUME LogInv, NEW t \in TxnNumbers, ReturnCommit(t)
  PROVE  LogInv'
<1>1. LogTypeOK /\ LSNsIncrease /\ CommitCoversRecords /\ SecuredCommitsStay /\ SessionRecords
  BY DEF LogInv
<1>2. UNCHANGED <<log, currentLSN, isOpen, running, session, written>>
  BY DEF ReturnCommit
<1>3. t \in 1..Len(txns) /\ txns' = [txns EXCEPT ![t].state = "committed"]
  BY DEF ReturnCommit
<1>4. /\ txns' \in Seq(Txn) /\ Len(txns') = Len(txns) /\ txns'[t].state = "committed"
      /\ \A k \in 1..Len(txns) : k # t => txns'[k] = txns[k]
  BY <1>1, <1>3, StateSet
<1>5. \A k \in TxnNumbers : Settled(k) => Settled(k)'
  BY <1>3, <1>4 DEF Settled
<1>6. PICK o \in [txn : TxnNumbers, session : Sessions], b \in BOOLEAN :
        /\ acked' = acked \cup {[owner |-> o, secured |-> b]}
        /\ flushed' \in {flushed, Len(log)}
        /\ b => flushed' = Len(log) /\ \E i \in 1..Len(log) : Readable(i) /\ IsCommitOf(i, o)
  <2>1. [txn |-> t, session |-> session] \in [txn : TxnNumbers, session : Sessions]
    BY <1>1 DEF LogTypeOK
  <2>2. (\E i \in 1..Len(log) : Readable(i) /\ IsCommitOf(i, [txn |-> t, session |-> session])) \in BOOLEAN
    OBVIOUS
  <2> QED BY <2>1, <2>2, Zenon DEF ReturnCommit, Flush
<1>7. LogTypeOK'
  <2>1. flushed' \in 0..Len(log)
    BY <1>1, <1>6 DEF LogTypeOK
  <2>2. acked' \subseteq [owner : [txn : TxnNumbers, session : Sessions], secured : BOOLEAN]
    BY <1>1, <1>6 DEF LogTypeOK
  <2> QED BY <1>1, <1>2, <1>4, <2>1, <2>2 DEF LogTypeOK
<1>8. LSNsIncrease' /\ CommitCoversRecords'
  BY <1>1, <1>2 DEF LSNsIncrease, CommitCoversRecords, Readable, IsCommitOf
<1>9. SecuredCommitsStay'
  <2>1. flushed \in Nat /\ flushed' \in Nat /\ flushed <= flushed'
    BY <1>1, <1>6 DEF LogTypeOK
  <2>2. ASSUME NEW a \in acked', a.secured
        PROVE  \E i \in 1..flushed' : Readable(i) /\ IsCommitOf(i, a.owner)
    <3>1. CASE a \in acked
      BY <1>1, <2>1, <2>2, <3>1 DEF SecuredCommitsStay
    <3>2. CASE a = [owner |-> o, secured |-> b]
      BY <1>6, <2>2, <3>2
    <3> QED BY <1>6, <2>2, <3>1, <3>2
  <2>3. ASSUME NEW a \in acked', a.secured
        PROVE  \E i \in 1..flushed' : Readable(i)' /\ IsCommitOf(i, a.owner)'
    BY <1>2, <2>2, <2>3 DEF Readable, IsCommitOf
  <2> QED BY <2>3 DEF SecuredCommitsStay
<1>10. SessionRecords'
  <2>1. Extends("BEGIN_TXN", t)
    BY <1>1, <1>2 DEF Extends, LogTypeOK
  <2> QED BY <1>1, <1>2, <1>5, <2>1, WriteKeepsCommits
<1> QED BY <1>7, <1>8, <1>9, <1>10 DEF LogInv

\* The log after a crash: n entries, and perhaps a fragment of the next one.
LEMMA CrashFacts ==
  ASSUME LogTypeOK, SessionRecords, NEW n \in 0..Len(log), Crash(n)
  PROVE  /\ log' \in Seq(Record) /\ Len(log') \in {n, n + 1}
         /\ flushed <= n /\ flushed' = Len(log')
         /\ \A i \in 1..n : log'[i] = log[i] /\ (Readable(i)' <=> Readable(i))
         /\ \A i \in 1..Len(log') : Readable(i)' => i \in 1..n
         /\ \A i \in 1..Len(log') : log'[i].session <= session
<1>1. log \in Seq(Record) /\ Len(log) \in Nat /\ n \in Nat /\ n <= Len(log)
  BY DEF LogTypeOK
<1>2. PICK pre : pre = SubSeq(log, 1, n)
  OBVIOUS
<1>3. pre \in Seq(Record) /\ Len(pre) = n /\ \A i \in 1..n : pre[i] = log[i]
  BY <1>1, <1>2
<1>4. flushed <= n /\ flushed' = Len(log')
  BY DEF Crash, LogTypeOK
<1>5. CASE log' = pre
  <2>1. \A i \in 1..n : Readable(i)' <=> Readable(i)
    BY <1>1, <1>3, <1>5, ReadableKept
  <2> QED BY <1>1, <1>3, <1>4, <1>5, <2>1 DEF SessionRecords
<1>6. CASE n < Len(log) /\ log' = Append(pre, [log[n + 1] EXCEPT !.type = "FRAGMENT"])
  <2>1. n + 1 \in 1..Len(log) /\ log[n + 1] \in Record
    BY <1>1, <1>6
  <2>2. PICK x : x = [log[n + 1] EXCEPT !.type = "FRAGMENT"]
    OBVIOUS
  <2>3. x \in Record /\ x.type = "FRAGMENT" /\ x.session = log[n + 1].session
    BY <2>1, <2>2 DEF Record
  <2>4. log' \in Seq(Record) /\ Len(log') = n + 1 /\ log'[n + 1] = x
    BY <1>1, <1>3, <1>6, <2>2, <2>3
  <2>5. \A i \in 1..n : log'[i] = log[i]
    BY <1>1, <1>3, <1>6, <2>2, <2>3
  <2>6. \A i \in 1..n : Readable(i)' <=> Readable(i)
    BY <1>1, <2>4, <2>5, ReadableKept
  <2>7. \A i \in 1..Len(log') : Readable(i)' => i \in 1..n
    BY <1>1, <2>3, <2>4 DEF Readable
  <2>8. \A i \in 1..Len(log') : log'[i].session <= session
    BY <1>1, <2>1, <2>3, <2>4, <2>5 DEF SessionRecords
  <2> QED BY <1>4, <2>4, <2>5, <2>6, <2>7, <2>8
<1> QED BY <1>2, <1>5, <1>6 DEF Crash

\* A crash takes entries from the end of the log, never from the file.
LEMMA CrashStep ==
  ASSUME LogInv, NEW n \in 0..Len(log), Crash(n)
  PROVE  LogInv'
<1>1. LogTypeOK /\ LSNsIncrease /\ CommitCoversRecords /\ SecuredCommitsStay /\ SessionRecords
  BY DEF LogInv
<1>2. /\ log' \in Seq(Record) /\ Len(log') \in {n, n + 1}
      /\ flushed <= n /\ flushed' = Len(log')
      /\ \A i \in 1..n : log'[i] = log[i] /\ (Readable(i)' <=> Readable(i))
      /\ \A i \in 1..Len(log') : Readable(i)' => i \in 1..n
      /\ \A i \in 1..Len(log') : log'[i].session <= session
  BY <1>1, CrashFacts
<1>3. n \in Nat /\ n <= Len(log) /\ Len(log) \in Nat /\ flushed \in Nat
  BY <1>1 DEF LogTypeOK
<1>4. /\ running' = FALSE /\ isOpen' = FALSE /\ currentLSN' = 0 /\ txns' = <<>>
      /\ UNCHANGED <<session, acked, written>>
  BY DEF Crash
<1>5. LogTypeOK'
  <2>1. flushed' \in 0..Len(log')
    BY <1>2, <1>3
  <2>2. currentLSN' \in 0..MaxLSN /\ Len(txns') <= MaxTxns /\ txns' \in Seq(Txn)
    BY <1>4, LogAssumption
  <2> QED BY <1>1, <1>2, <1>4, <2>1, <2>2 DEF LogTypeOK
<1>6. LSNsIncrease'
  BY <1>1, <1>2, <1>3, <1>4 DEF LSNsIncrease
<1>7. CommitCoversRecords'
  <2>1. ASSUME NEW i \in 1..Len(log'), NEW r \in written, Readable(i)', IsCommitOf(i, Owner(r))'
        PROVE  \E j \in 1..(i - 1) : log'[j] = r
    <3>1. i \in 1..n /\ i \in 1..Len(log) /\ log'[i] = log[i] /\ Readable(i)
      BY <1>2, <1>3, <2>1
    <3>2. IsCommitOf(i, Owner(r))
      BY <2>1, <3>1 DEF IsCommitOf, Owner
    <3>3. PICK j \in 1..(i - 1) : log[j] = r
      BY <1>1, <3>1, <3>2 DEF CommitCoversRecords
    <3> QED BY <1>2, <1>3, <3>1, <3>3
  <2> QED BY <1>4, <2>1 DEF CommitCoversRecords
<1>8. SecuredCommitsStay'
  <2>1. ASSUME NEW a \in acked, a.secured
        PROVE  \E i \in 1..flushed' : Readable(i)' /\ IsCommitOf(i, a.owner)'
    <3>1. PICK i \in 1..flushed : Readable(i) /\ IsCommitOf(i, a.owner)
      BY <1>1, <2>1 DEF SecuredCommitsStay
    <3>2. i \in 1..n /\ i \in 1..flushed'
      BY <1>2, <1>3, <3>1
    <3>3. Readable(i)' /\ log'[i] = log[i]
      BY <1>2, <3>1, <3>2
    <3>4. IsCommitOf(i, a.owner)'
      BY <3>1, <3>3 DEF IsCommitOf, Owner
    <3> QED BY <3>2, <3>3, <3>4
  <2> QED BY <1>4, <2>1 DEF SecuredCommitsStay
<1>9. SessionRecords'
  BY <1>1, <1>2, <1>4 DEF SessionRecords
<1> QED BY <1>5, <1>6, <1>7, <1>8, <1>9 DEF LogInv

\* The database is opened again: no record of the new session exists yet, and
\* when the log can be written the counter is the largest readable LSN.
LEMMA RestartStep ==
  ASSUME LogInv, Restart, UNCHANGED <<log, flushed, acked, written>>, isOpen' \in BOOLEAN,
         currentLSN' \in 0..MaxLSN,
         isOpen' => \A i \in 1..Len(log) : Readable(i) => log[i].lsn <= currentLSN'
  PROVE  LogInv'
<1>1. LogTypeOK /\ LSNsIncrease /\ CommitCoversRecords /\ SecuredCommitsStay /\ SessionRecords
  BY DEF LogInv
<1>2. /\ session \in Nat /\ session' = session + 1 /\ session' \in Sessions
      /\ running' = TRUE /\ UNCHANGED txns
  BY <1>1, LogAssumption DEF Restart, LogTypeOK, Sessions
<1>3. LogTypeOK'
  BY <1>1, <1>2 DEF LogTypeOK
<1>4. LSNsIncrease'
  BY <1>1, <1>2 DEF LSNsIncrease, Readable
<1>5. CommitCoversRecords' /\ SecuredCommitsStay'
  BY <1>1 DEF CommitCoversRecords, SecuredCommitsStay, Readable, IsCommitOf
<1>6. SessionRecords'
  <2>1. \A r \in written : r.session \in Nat
    <3>1. \A x \in Record : x.session \in Nat
      BY LogAssumption DEF Record, Sessions
    <3> QED BY <1>1, <3>1 DEF LogTypeOK
  <2>2. \A i \in 1..Len(log) : log[i].session \in Nat
    BY <1>1, EntryTypes
  <2>3. \A r \in written : r.session <= session' /\ r.session # session'
    BY <1>1, <1>2, <2>1 DEF SessionRecords
  <2>4. \A i \in 1..Len(log) : log[i].session <= session' /\ log[i].session # session'
    BY <1>1, <1>2, <2>2 DEF SessionRecords
  <2> QED BY <2>3, <2>4 DEF SessionRecords
<1> QED BY <1>3, <1>4, <1>5, <1>6 DEF LogInv

\* initialize and recoverFromFile.
LEMMA RecoverStep ==
  ASSUME LogInv, Recover
  PROVE  LogInv'
<1>1. PICK m \in ScannedLSNs : (\A k \in ScannedLSNs : k <= m) /\ currentLSN' = m
  BY DEF Recover
<1>2. \A i \in 1..Len(log) : Readable(i) => log[i].lsn \in ScannedLSNs
  BY DEF ScannedLSNs
<1>3. \A i \in 1..Len(log) : log[i].lsn \in 0..MaxLSN
  <2>1. \A i \in 1..Len(log) : log[i] \in Record
    BY DEF LogInv, LogTypeOK
  <2>2. \A x \in Record : x.lsn \in 0..MaxLSN
    BY LogAssumption DEF Record
  <2> QED BY <2>1, <2>2
<1>4. m \in 0..MaxLSN
  BY <1>1, <1>3, LogAssumption DEF ScannedLSNs
<1> QED BY <1>1, <1>2, <1>4, RestartStep DEF Recover

\* The log cannot be opened.
LEMMA RecoverFailsStep ==
  ASSUME LogInv, RecoverFails
  PROVE  LogInv'
<1>1. currentLSN \in 0..MaxLSN
  BY DEF LogInv, LogTypeOK
<1> QED BY <1>1, RestartStep DEF RecoverFails

-----------------------------------------------------------------------------
\* Every step preserves the invariant.
LEMMA NextInv == LogInv /\ [LogNext]_logVars => LogInv'
<1> SUFFICES ASSUME LogInv, [LogNext]_logVars PROVE LogInv'
  OBVIOUS
<1>1. CASE UNCHANGED logVars
  <2>1. LogTypeOK'
    BY <1>1 DEF logVars, LogInv, LogTypeOK
  <2>2. LSNsIncrease' /\ CommitCoversRecords' /\ SecuredCommitsStay'
    BY <1>1 DEF logVars, LogInv, LSNsIncrease, CommitCoversRecords, SecuredCommitsStay,
                Readable, IsCommitOf
  <2>3. SessionRecords'
    BY <1>1 DEF logVars, LogInv, SessionRecords, Settled
  <2> QED BY <2>1, <2>2, <2>3 DEF LogInv
<1>2. ASSUME NEW t \in TxnNumbers, NEW autoCommit \in BOOLEAN, WriteBegin(t, autoCommit)
      PROVE  LogInv'
  BY <1>2, BeginStep
<1>3. ASSUME NEW t \in TxnNumbers, NEW type \in Operations, Operate(t, type)
      PROVE  LogInv'
  BY <1>3, OperateStep
<1>4. ASSUME NEW t \in TxnNumbers, NEW type \in Operations, OperateUnlogged(t, type)
      PROVE  LogInv'
  BY <1>4, OperateUnloggedStep
<1>5. ASSUME NEW t \in TxnNumbers, WriteCommit(t)
      PROVE  LogInv'
  BY <1>5, WriteCommitStep
<1>6. ASSUME NEW t \in TxnNumbers, ReturnCommit(t)
      PROVE  LogInv'
  BY <1>6, ReturnCommitStep
<1>7. ASSUME NEW t \in TxnNumbers, WriteAbort(t)
      PROVE  LogInv'
  BY <1>7, AbortStep
<1>8. ASSUME NEW n \in 0..Len(log), Crash(n)
      PROVE  LogInv'
  BY <1>8, CrashStep
<1>9. CASE Recover
  BY <1>9, RecoverStep
<1>10. CASE RecoverFails
  BY <1>10, RecoverFailsStep
<1> QED BY <1>1, <1>2, <1>3, <1>4, <1>5, <1>6, <1>7, <1>8, <1>9, <1>10 DEF LogNext

\* The inductive invariant holds in every reachable state, for any number of
\* transactions, records, crashes and restarts.
THEOREM LogInvariance == LogSpec => []LogInv
  BY LogInitInv, NextInv, PTL DEF LogSpec

\* The variables of WALManager keep their types.
THEOREM LogTypeCorrect == LogSpec => []LogTypeOK
<1>1. LogInv => LogTypeOK
  BY DEF LogInv
<1> QED BY <1>1, LogInvariance, PTL

\* An LSN names one readable record, although recovery sets the counter back.
THEOREM LSNOrder == LogSpec => []LSNsIncrease
<1>1. LogInv => LSNsIncrease
  BY DEF LogInv
<1> QED BY <1>1, LogInvariance, PTL

\* Recovery finds a committed transaction's records complete.
THEOREM CommitsAreComplete == LogSpec => []CommitCoversRecords
<1>1. LogInv => CommitCoversRecords
  BY DEF LogInv
<1> QED BY <1>1, LogInvariance, PTL

\* A commit that was flushed where a scan can read it survives everything.
THEOREM SecuredCommitsSurvive == LogSpec => []SecuredCommitsStay
<1>1. LogInv => SecuredCommitsStay
  BY DEF LogInv
<1> QED BY <1>1, LogInvariance, PTL

\* Recovery replays every record of a commit that was reported after a successful
\* flush into a readable log (the two passes of recoverFromFile).
THEOREM SecuredReplayed == LogSpec => []SecuredIsReplayed
<1>1. LogInv => SecuredIsReplayed
  <2> SUFFICES ASSUME LogInv, NEW a \in acked, NEW r \in written, a.secured, Owner(r) = a.owner
               PROVE  r \in Replayed
    BY DEF SecuredIsReplayed
  <2>1. PICK i \in 1..flushed : Readable(i) /\ IsCommitOf(i, Owner(r))
    BY DEF LogInv, SecuredCommitsStay
  <2>2. i \in 1..Len(log) /\ log[i].type = "COMMIT_TXN" /\ log[i].txn = r.txn
    BY <2>1 DEF Readable, IsCommitOf, Owner
  <2>3. PICK j \in 1..(i - 1) : log[j] = r
    BY <2>1, <2>2 DEF LogInv, CommitCoversRecords
  <2>4. j \in 1..Len(log) /\ Readable(j)
    BY <2>1, <2>2, <2>3 DEF LogInv, LogTypeOK, Readable
  <2>5. r.txn \in CommittedTxns
    BY <2>1, <2>2 DEF CommittedTxns
  <2>6. r.type \in Operations
    BY DEF LogInv, LogTypeOK
  <2> QED BY <2>3, <2>4, <2>5, <2>6 DEF Replayed
<1> QED BY <1>1, LogInvariance, PTL
=============================================================================
