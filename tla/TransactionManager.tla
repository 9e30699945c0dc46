-------------------------- MODULE TransactionManager --------------------------
(***************************************************************************)
(* The transaction table and the page lock table of QinDB                  *)
(* (src/src/storage/transaction.cpp), used by several threads at once.     *)
(*                                                                         *)
(* Every method of TransactionManager holds mutex_ while it touches the    *)
(* two tables, so one critical section is one action.  What happens        *)
(* outside the mutex is a step of its own: the WAL record that begin,      *)
(* commit and abort write after locker.unlock(), and the timeout test and  *)
(* the sleep between two attempts of lockPage.                             *)
(*                                                                         *)
(* A call that is refused (unknown or finished transaction, lock not held) *)
(* returns false and changes nothing: it is a stuttering step, and its     *)
(* condition is the negation of the action's guard.                        *)
(***************************************************************************)
EXTENDS Integers, FiniteSets, Sequences

CONSTANTS
  Threads,    \* callers of the manager
  Pages,      \* page ids that are locked
  Timeouts,   \* values of timeoutMs, in sleeps of 10 ms; 0 waits for ever
  MaxTxnId    \* bound: beginTransaction is called at most this often

ASSUME ConstantsAssumption ==
  /\ Timeouts \subseteq Nat
  /\ MaxTxnId \in Nat

VARIABLES
  transactions, \* transactions_: id -> state and lockedPages
  pageLocks,    \* pageLocks_: page -> lock type and holders, absent when free
  nextTxnId,    \* nextTxnId_
  wal,          \* the transaction records written to the log, in order
  call,         \* where each thread is inside a call, and the call's arguments
  destroyed     \* the destructor has started

vars == <<transactions, pageLocks, nextTxnId, wal, call, destroyed>>

-----------------------------------------------------------------------------
TxnIds == 1..MaxTxnId

LockTypes == {"SHARED", "EXCLUSIVE"}

Transaction == [state : {"ACTIVE", "COMMITTED", "ABORTED"},
                lockedPages : SUBSET Pages]

PageLock == [lockType : LockTypes, holders : SUBSET TxnIds]

WalTypes == {"BEGIN", "COMMIT", "ABORT"}

WalRecord == [type : WalTypes, txn : TxnIds]

\* A thread is outside the manager, about to write a WAL record, or in the
\* loop of lockPage, where waited counts the sleeps: the call is at least that
\* old.
Idle == [at |-> "idle"]

WalCall == [at : WalTypes, txn : TxnIds]

LockCall == [at : {"try", "wait"}, txn : TxnIds, page : Pages,
             lockType : LockTypes, timeout : Timeouts, waited : Nat]

\* The map operations operator[] and erase of QHash.
Put(f, k, v) == [x \in DOMAIN f \cup {k} |-> IF x = k THEN v ELSE f[x]]
Erase(f, k) == [x \in DOMAIN f \ {k} |-> f[x]]

IsActive(t) == t \in DOMAIN transactions /\ transactions[t].state = "ACTIVE"

Holds(t, p) == p \in DOMAIN pageLocks /\ t \in pageLocks[p].holders

Waiting(th) == call[th].at \in {"try", "wait"}

\* A caller learns an id from the return of beginTransaction.
Known(t) ==
  /\ t \in DOMAIN transactions
  /\ \A th \in Threads : ~(call[th].at = "BEGIN" /\ call[th].txn = t)

Init ==
  /\ transactions = [t \in {} |-> {}]
  /\ pageLocks = [p \in {} |-> {}]
  /\ nextTxnId = 1
  /\ wal = <<>>
  /\ call = [th \in Threads |-> Idle]
  /\ destroyed = FALSE

-----------------------------------------------------------------------------
\* Begin, commit and abort: the critical section, then the WAL record.

BeginTransaction(th) ==
  /\ call[th].at = "idle"
  /\ ~destroyed
  /\ nextTxnId <= MaxTxnId
  /\ nextTxnId' = nextTxnId + 1
  /\ transactions' = Put(transactions, nextTxnId,
                         [state |-> "ACTIVE", lockedPages |-> {}])
  /\ call' = [call EXCEPT ![th] = [at |-> "BEGIN", txn |-> nextTxnId]]
  /\ UNCHANGED <<pageLocks, wal, destroyed>>

\* Mutant: only the locks that t holds alone are released.
ReleaseAllLocks_SoleHolder(t) ==
  [p \in {q \in DOMAIN pageLocks : pageLocks[q].holders # {t}} |-> pageLocks[p]]

\* releaseAllLocks: the lock table without t on the pages t has locked; a
\* lock that loses its last holder is erased.
ReleaseAllLocks(t) ==
  LET mine == transactions[t].lockedPages
      gone == {p \in DOMAIN pageLocks : p \in mine /\ pageLocks[p].holders \subseteq {t}}
  IN  [p \in DOMAIN pageLocks \ gone |->
         IF p \in mine
         THEN [pageLocks[p] EXCEPT !.holders = @ \ {t}]
         ELSE pageLocks[p]]

\* Mutant: the state of the transaction is not tested.
Finish_AnyState(t, state) ==
  /\ t \in DOMAIN transactions
  /\ pageLocks' = ReleaseAllLocks(t)
  /\ transactions' = [transactions EXCEPT ![t] = [state |-> state, lockedPages |-> {}]]

\* commitTransaction and abortTransaction under the mutex; the outcome is
\* visible and the locks are free before the WAL record is written.
Finish(t, state) ==
  /\ IsActive(t)
  /\ pageLocks' = ReleaseAllLocks(t)
  /\ transactions' = [transactions EXCEPT ![t] = [state |-> state, lockedPages |-> {}]]

CommitTransaction(th, t) ==
  /\ call[th].at = "idle"
  /\ ~destroyed
  /\ Known(t)
  /\ Finish(t, "COMMITTED")
  /\ call' = [call EXCEPT ![th] = [at |-> "COMMIT", txn |-> t]]
  /\ UNCHANGED <<nextTxnId, wal, destroyed>>

AbortTransaction(th, t) ==
  /\ call[th].at = "idle"
  /\ ~destroyed
  /\ Known(t)
  /\ Finish(t, "ABORTED")
  /\ call' = [call EXCEPT ![th] = [at |-> "ABORT", txn |-> t]]
  /\ UNCHANGED <<nextTxnId, wal, destroyed>>

\* WALManager::beginTransaction, commitTransaction and abortTransaction, called
\* after locker.unlock().  The write may fail; only a failed COMMIT is reported
\* to the caller, and nothing is undone.
WriteWal(th) ==
  /\ call[th].at \in WalTypes
  /\ \/ wal' = Append(wal, [type |-> call[th].at, txn |-> call[th].txn])
     \/ wal' = wal
  /\ call' = [call EXCEPT ![th] = Idle]
  /\ UNCHANGED <<transactions, pageLocks, nextTxnId, destroyed>>

\* ~TransactionManager, when no call is in progress: the remaining ACTIVE
\* transactions are aborted one by one.
Destroy ==
  /\ ~destroyed
  /\ \A th \in Threads : call[th].at = "idle"
  /\ destroyed' = TRUE
  /\ UNCHANGED <<transactions, pageLocks, nextTxnId, wal, call>>

AbortOnShutdown(t) ==
  /\ destroyed
  /\ Finish(t, "ABORTED")
  /\ \/ wal' = Append(wal, [type |-> "ABORT", txn |-> t])
     \/ wal' = wal
  /\ UNCHANGED <<nextTxnId, call, destroyed>>

-----------------------------------------------------------------------------
\* lockPage: a loop of attempts under the mutex, each followed, when the lock
\* is not granted, by the timeout test and a sleep outside it.

IsLockCompatible(existing, requested) ==
  existing.lockType = "SHARED" /\ requested = "SHARED"

LockPage(th, t, p, lockType, timeout) ==
  /\ call[th].at = "idle"
  /\ ~destroyed
  /\ Known(t)
  /\ call' = [call EXCEPT ![th] =
                [at |-> "try", txn |-> t, page |-> p, lockType |-> lockType,
                 timeout |-> timeout, waited |-> 0]]
  /\ UNCHANGED <<transactions, pageLocks, nextTxnId, wal, destroyed>>

\* The four ways a request is granted: no lock exists, t holds the lock in a
\* mode that covers the request, t alone holds it and upgrades it, t joins the
\* holders of a compatible lock.
IsFree(p) == p \notin DOMAIN pageLocks

IsCovered(t, p, requested) ==
  /\ Holds(t, p)
  /\ ~(pageLocks[p].lockType = "SHARED" /\ requested = "EXCLUSIVE")

\* Mutant: the other holders of the shared lock are not looked at.
CanUpgrade_Shared(t, p, requested) ==
  /\ Holds(t, p)
  /\ pageLocks[p].lockType = "SHARED"
  /\ requested = "EXCLUSIVE"

CanUpgrade(t, p, requested) ==
  /\ Holds(t, p)
  /\ pageLocks[p].lockType = "SHARED"
  /\ requested = "EXCLUSIVE"
  /\ pageLocks[p].holders = {t}

CanJoin(t, p, requested) ==
  /\ ~IsFree(p)
  /\ ~Holds(t, p)
  /\ IsLockCompatible(pageLocks[p], requested)

Grant(t, p, requested) ==
  \/ /\ IsFree(p)
     /\ pageLocks' = Put(pageLocks, p, [lockType |-> requested, holders |-> {t}])
     /\ transactions' = [transactions EXCEPT ![t].lockedPages = @ \cup {p}]
  \/ /\ IsCovered(t, p, requested)
     /\ UNCHANGED <<pageLocks, transactions>>
  \/ /\ CanUpgrade(t, p, requested)
     /\ pageLocks' = [pageLocks EXCEPT ![p].lockType = "EXCLUSIVE"]
     /\ UNCHANGED transactions
  \/ /\ CanJoin(t, p, requested)
     /\ pageLocks' = [pageLocks EXCEPT ![p].holders = @ \cup {t}]
     /\ transactions' = [transactions EXCEPT ![t].lockedPages = @ \cup {p}]

MustWait(t, p, requested) ==
  /\ ~IsFree(p)
  /\ ~IsCovered(t, p, requested)
  /\ ~CanUpgrade(t, p, requested)
  /\ ~CanJoin(t, p, requested)

\* One attempt that ends the call with true ...
LockGranted(th) ==
  /\ call[th].at = "try"
  /\ IsActive(call[th].txn)
  /\ Grant(call[th].txn, call[th].page, call[th].lockType)
  /\ call' = [call EXCEPT ![th] = Idle]
  /\ UNCHANGED <<nextTxnId, wal, destroyed>>

\* ... with false, because the transaction has ended meanwhile ...
LockRefused(th) ==
  /\ call[th].at = "try"
  /\ ~IsActive(call[th].txn)
  /\ call' = [call EXCEPT ![th] = Idle]
  /\ UNCHANGED <<transactions, pageLocks, nextTxnId, wal, destroyed>>

\* ... and one that finds an incompatible lock.
LockBlocked(th) ==
  /\ call[th].at = "try"
  /\ IsActive(call[th].txn)
  /\ MustWait(call[th].txn, call[th].page, call[th].lockType)
  /\ call' = [call EXCEPT ![th].at = "wait"]
  /\ UNCHANGED <<transactions, pageLocks, nextTxnId, wal, destroyed>>

\* The timeout test after a blocked attempt.  The elapsed time is at least
\* waited sleeps and may be any amount more, so a call with a timeout may give
\* up at any test and must give up once it has slept for the whole timeout.
LockTimeout(th) ==
  /\ call[th].at = "wait"
  /\ call[th].timeout > 0
  /\ call' = [call EXCEPT ![th] = Idle]
  /\ UNCHANGED <<transactions, pageLocks, nextTxnId, wal, destroyed>>

\* Mutant: the start time is taken again on every turn of the loop.
LockRetry_ClockRestarts(th) ==
  /\ call[th].at = "wait"
  /\ call' = [call EXCEPT ![th].at = "try"]
  /\ UNCHANGED <<transactions, pageLocks, nextTxnId, wal, destroyed>>

LockRetry(th) ==
  /\ call[th].at = "wait"
  /\ call[th].timeout = 0 \/ call[th].waited < call[th].timeout
  /\ call' = [call EXCEPT ![th].at = "try",
                          ![th].waited = IF call[th].timeout = 0 THEN 0 ELSE @ + 1]
  /\ UNCHANGED <<transactions, pageLocks, nextTxnId, wal, destroyed>>

\* Mutant: the lock is erased although others hold it.
UnlockPage_ErasesShared(th, t, p) ==
  /\ call[th].at = "idle"
  /\ ~destroyed
  /\ Known(t)
  /\ Holds(t, p)
  /\ pageLocks' = Erase(pageLocks, p)
  /\ transactions' = [transactions EXCEPT ![t].lockedPages = @ \ {p}]
  /\ UNCHANGED <<nextTxnId, wal, call, destroyed>>

\* unlockPage: the state of the transaction is not consulted.
UnlockPage(th, t, p) ==
  /\ call[th].at = "idle"
  /\ ~destroyed
  /\ Known(t)
  /\ Holds(t, p)
  /\ pageLocks' = IF pageLocks[p].holders = {t}
                  THEN Erase(pageLocks, p)
                  ELSE [pageLocks EXCEPT ![p].holders = @ \ {t}]
  /\ transactions' = [transactions EXCEPT ![t].lockedPages = @ \ {p}]
  /\ UNCHANGED <<nextTxnId, wal, call, destroyed>>

-----------------------------------------------------------------------------
\* The steps by which a thread inside a call goes on and returns.
Proceed(th) ==
  \/ WriteWal(th)
  \/ LockGranted(th)
  \/ LockRefused(th)
  \/ LockBlocked(th)
  \/ LockTimeout(th)
  \/ LockRetry(th)

CallWith(th, t) ==
  \/ CommitTransaction(th, t)
  \/ AbortTransaction(th, t)
  \/ \E p \in Pages : UnlockPage(th, t, p)
  \/ \E p \in Pages, l \in LockTypes, m \in Timeouts : LockPage(th, t, p, l, m)

Next ==
  \/ \E th \in Threads :
       \/ BeginTransaction(th)
       \/ \E t \in TxnIds : CallWith(th, t)
       \/ Proceed(th)
  \/ Destroy
  \/ \E t \in TxnIds : AbortOnShutdown(t)

\* A thread is not stopped inside a call: the mutex is held only for the
\* length of one action, and QThread::msleep(10) returns.
Fairness == \A th \in Threads : WF_vars(Proceed(th))

Spec == Init /\ [][Next]_vars /\ Fairness

-----------------------------------------------------------------------------
TypeOK ==
  /\ nextTxnId \in 1..(MaxTxnId + 1)
  /\ transactions \in [1..(nextTxnId - 1) -> Transaction]
  /\ DOMAIN pageLocks \subseteq Pages
  /\ pageLocks \in [DOMAIN pageLocks -> PageLock]
  /\ wal \in Seq(WalRecord)
  /\ call \in [Threads -> {Idle} \cup WalCall \cup LockCall]
  /\ destroyed \in BOOLEAN

\* An exclusive page lock has exactly one holder, every lock in pageLocks_ has
\* a holder, and only ACTIVE transactions hold locks: whatever the order of
\* grants, upgrades, releases and outcomes, no finished transaction blocks a
\* page and no two transactions share an exclusive lock.
LockExclusion ==
  \A p \in DOMAIN pageLocks :
    /\ pageLocks[p].holders # {}
    /\ \A t \in pageLocks[p].holders : IsActive(t)
    /\ pageLocks[p].lockType = "EXCLUSIVE" =>
         \A t, u \in pageLocks[p].holders : t = u

\* Transaction::lockedPages and pageLocks_ are two records of the same fact
\* and always agree: releaseAllLocks walks lockedPages, so a lock missing there
\* would outlive its transaction.
LockTablesAgree ==
  \A t \in DOMAIN transactions, p \in Pages :
    p \in transactions[t].lockedPages <=> Holds(t, p)

\* The log holds at most one outcome of a transaction, it is the outcome in
\* the transaction table, and it comes after the transaction's BEGIN: threads
\* that commit and abort one transaction at once write one record.
WalMatchesOutcome ==
  \A i \in 1..Len(wal) :
    wal[i].type # "BEGIN" =>
      /\ wal[i].txn \in DOMAIN transactions
      /\ transactions[wal[i].txn].state =
           IF wal[i].type = "COMMIT" THEN "COMMITTED" ELSE "ABORTED"
      /\ \A j \in 1..Len(wal) :
           wal[j].txn = wal[i].txn => (j = i \/ (wal[j].type = "BEGIN" /\ j < i))

\* A transaction loses a page lock only when it ends or gives the lock back
\* with unlockPage, and an exclusive lock never becomes shared: a grant or an
\* upgrade for one transaction takes nothing from another.
NoLockStolen ==
  [][\A p \in DOMAIN pageLocks : \A t \in pageLocks[p].holders :
       \/ ~IsActive(t)'
       \/ \E th \in Threads : UnlockPage(th, t, p)
       \/ /\ Holds(t, p)'
          /\ pageLocks[p].lockType = "EXCLUSIVE" => pageLocks'[p].lockType = "EXCLUSIVE"]_vars

\* Every lockPage call with a timeout returns, also when transactions wait for
\* each other in a circle: the timeout is the deadlock handling of the code.
LockPageReturns ==
  \A th \in Threads :
    (Waiting(th) /\ call[th].timeout > 0) ~> (call[th].at = "idle")

=============================================================================
