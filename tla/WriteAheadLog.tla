---------------------------- MODULE WriteAheadLog ----------------------------
(***************************************************************************)
(* The write-ahead log in file mode (src/src/storage/wal.cpp) through      *)
(* crashes and restarts: the transactions of a session write records, the  *)
(* process stops, loadDatabase opens the log again and recovers.           *)
(*                                                                         *)
(* log is the file followed by the write buffer of QFile, and the first    *)
(* flushed entries of it are in the file.  The buffer reaches the file     *)
(* when it is flushed and also, at any time and up to any byte, when it    *)
(* overflows: a crash keeps some part of it, and may cut a record in two.  *)
(* What is left of such a record is a FRAGMENT.                            *)
(*                                                                         *)
(* writeRecord and flush each hold mutex_ from start to end and are one    *)
(* action each; commitTransaction calls one after the other.  Recovery     *)
(* runs before anyone else uses the database.  The loss of data that is in *)
(* the file (no fsync is issued) is not modelled.                          *)
(***************************************************************************)
EXTENDS Integers, Sequences

CONSTANTS
  MaxTxns,      \* bound: transactions begun in one session
  MaxLSN,       \* bound: the largest LSN, and the largest number of entries
  MaxSessions,  \* bound: how often the database is opened
  Operations,   \* the data records that transactions write
  IoFailures    \* writes, flushes and the opening of the file may fail

ASSUME LogAssumption ==
  /\ MaxTxns \in Nat
  /\ MaxLSN \in Nat
  /\ MaxSessions \in Nat \ {0}
  /\ Operations \subseteq {"INSERT", "UPDATE", "DELETE"}
  /\ IoFailures \in BOOLEAN

VARIABLES
  log,         \* the records, oldest first, in the file and then in the buffer
  flushed,     \* how many of them are in the file
  currentLSN,  \* currentLSN_
  isOpen,      \* walFile_ is open for appending
  running,     \* the process is up
  session,     \* which opening of the database this is
  txns,        \* the transactions of this session: 1, 2, ... and their state
  acked,       \* history: commits that were reported to the caller
  written      \* history: the data records that writeRecord accepted

logVars == <<log, flushed, currentLSN, isOpen, running, session, txns, acked, written>>

-----------------------------------------------------------------------------
TxnNumbers == 1..MaxTxns

Sessions == 1..MaxSessions

RecordTypes == {"BEGIN_TXN", "COMMIT_TXN", "ABORT_TXN"} \cup Operations

\* The header of a record.  The session is not stored: transaction ids start
\* at 1 again in every session, and session says whose record it really is.
Record == [type : RecordTypes \cup {"FRAGMENT"}, txn : TxnNumbers, lsn : 1..MaxLSN,
           session : Sessions]

\* A transaction is in auto-commit mode or was begun by a client.  It is
\* stranded when it has ended but is still the client's current transaction.
\* logged is history: every operation of it has a record.
Txn == [state : {"active", "committing", "committed", "ended", "stranded"},
        autoCommit : BOOLEAN, logged : BOOLEAN]

\* The records that a scan of the log reads: all up to the first fragment,
\* where the length or the checksum no longer fits.
Readable(i) == i \in 1..Len(log) /\ \A j \in 1..i : log[j].type # "FRAGMENT"

Owner(r) == [txn |-> r.txn, session |-> r.session]

IsCommitOf(i, o) == log[i].type = "COMMIT_TXN" /\ Owner(log[i]) = o

Active(t) == t \in 1..Len(txns) /\ txns[t].state = "active"

\* Mutant: an operation may run while the transaction commits.
CanOperate_AnyState(t) == t \in 1..Len(txns)

\* The statements of a client use its current transaction without a look at
\* the state.
CanOperate(t) == t \in 1..Len(txns) /\ txns[t].state \in {"active", "stranded"}

\* A commit that fails, and the abort after a failed INSERT, leave the id of a
\* client's transaction in place.
Left(t) == IF txns[t].autoCommit THEN "ended" ELSE "stranded"

\* An empty log, opened for the first time.
LogInit ==
  /\ log = <<>>
  /\ flushed = 0
  /\ currentLSN = 0
  /\ isOpen = TRUE
  /\ running = TRUE
  /\ session = 1
  /\ txns = <<>>
  /\ acked = {}
  /\ written = {}

-----------------------------------------------------------------------------
HasRoom == currentLSN < MaxLSN /\ Len(log) < MaxLSN

NewRecord(type, t) ==
  [type |-> type, txn |-> t, lsn |-> currentLSN + 1, session |-> session]

\* writeRecordToFile returns the LSN: the record is in the buffer ...
Accepted(type, t) ==
  /\ isOpen
  /\ HasRoom
  /\ currentLSN' = currentLSN + 1
  /\ log' = Append(log, NewRecord(type, t))

\* ... or 0: the file is not open; or the header or the data cannot be written
\* because the full buffer cannot be emptied, the LSN is used up and, in the
\* latter case, the header stays in the log.
Rejected(type, t) ==
  \/ /\ ~isOpen
     /\ UNCHANGED <<log, currentLSN>>
  \/ /\ isOpen
     /\ IoFailures
     /\ HasRoom
     /\ currentLSN' = currentLSN + 1
     /\ \/ log' = log
        \/ type \in Operations /\ log' = Append(log, NewRecord("FRAGMENT", t))

\* beginTransaction: the result of the write is not looked at.
WriteBegin(t, autoCommit) ==
  /\ running
  /\ t = Len(txns) + 1
  /\ txns' = Append(txns, [state |-> "active", autoCommit |-> autoCommit,
                           logged |-> TRUE])
  /\ Accepted("BEGIN_TXN", t) \/ Rejected("BEGIN_TXN", t)
  /\ UNCHANGED <<flushed, isOpen, running, session, acked, written>>

\* UPDATE and DELETE write no record in auto-commit mode.
WritesNoRecord(t, type) == txns[t].autoCommit /\ type # "INSERT"

\* The executor changes a row and then writes the record; it goes on when
\* writeRecord returns 0.
Operate(t, type) ==
  /\ running
  /\ CanOperate(t)
  /\ ~WritesNoRecord(t, type)
  /\ \/ /\ Accepted(type, t)
        /\ written' = written \cup {NewRecord(type, t)}
        /\ UNCHANGED txns
     \/ /\ Rejected(type, t)
        /\ txns' = [txns EXCEPT ![t].logged = FALSE]
        /\ UNCHANGED written
  /\ UNCHANGED <<flushed, isOpen, running, session, acked>>

OperateUnlogged(t, type) ==
  /\ running
  /\ CanOperate(t)
  /\ WritesNoRecord(t, type)
  /\ txns' = [txns EXCEPT ![t].logged = FALSE]
  /\ UNCHANGED <<log, flushed, currentLSN, isOpen, running, session, acked, written>>

\* The COMMIT record of commitTransaction; the caller gets an error when it
\* cannot be written.
WriteCommit(t) ==
  /\ running
  /\ Active(t)
  /\ \/ /\ Accepted("COMMIT_TXN", t)
        /\ txns' = [txns EXCEPT ![t].state = "committing"]
     \/ /\ Rejected("COMMIT_TXN", t)
        /\ txns' = [txns EXCEPT ![t].state = Left(t)]
  /\ UNCHANGED <<flushed, isOpen, running, session, acked, written>>

\* QFile::flush: the whole buffer is in the file.
Flush == flushed' = Len(log)

\* The flush of commitTransaction, and its return.  The result of the flush is
\* not looked at: the commit is reported also when it failed.  secured says
\* whether it succeeded, with the COMMIT record where a scan can read it.
ReturnCommit(t) ==
  /\ running
  /\ t \in 1..Len(txns)
  /\ txns[t].state = "committing"
  /\ txns' = [txns EXCEPT ![t].state = "committed"]
  /\ LET o == [txn |-> t, session |-> session]
     IN  \/ /\ Flush
            /\ acked' = acked \cup
                 {[owner |-> o, secured |-> \E i \in 1..Len(log) : Readable(i) /\ IsCommitOf(i, o)]}
         \/ /\ IoFailures
            /\ UNCHANGED flushed
            /\ acked' = acked \cup {[owner |-> o, secured |-> FALSE]}
  /\ UNCHANGED <<log, currentLSN, isOpen, running, session, written>>

\* abortTransaction, called by ROLLBACK, by a failed INSERT and by
\* ~TransactionManager: the record is not flushed.
WriteAbort(t) ==
  /\ running
  /\ Active(t)
  /\ \E state \in {"ended", Left(t)} : txns' = [txns EXCEPT ![t].state = state]
  /\ Accepted("ABORT_TXN", t) \/ Rejected("ABORT_TXN", t)
  /\ UNCHANGED <<flushed, isOpen, running, session, acked, written>>

-----------------------------------------------------------------------------
\* The process stops: n entries have reached the file, and perhaps a part of
\* the next one.  ~WALManager, which flushes and closes, is the case n = Len(log).
Crash(n) ==
  /\ running
  /\ n \in flushed..Len(log)
  /\ \/ log' = SubSeq(log, 1, n)
     \/ n < Len(log) /\ log' = Append(SubSeq(log, 1, n), [log[n + 1] EXCEPT !.type = "FRAGMENT"])
  /\ flushed' = Len(log')
  /\ running' = FALSE
  /\ isOpen' = FALSE
  /\ currentLSN' = 0
  /\ txns' = <<>>
  /\ UNCHANGED <<session, acked, written>>

\* The first pass of recoverFromFile: the largest LSN, and the transactions
\* that have a COMMIT record, known by their id alone.
ScannedLSNs == {0} \cup {log[i].lsn : i \in {j \in 1..Len(log) : Readable(j)}}

\* Mutant: the first pass stops before the last record.
CommittedTxns_MissesLast ==
  {log[i].txn : i \in {j \in 1..(Len(log) - 1) : Readable(j) /\ log[j].type = "COMMIT_TXN"}}

CommittedTxns ==
  {log[i].txn : i \in {j \in 1..Len(log) : Readable(j) /\ log[j].type = "COMMIT_TXN"}}

\* The second pass replays their data records: replayInsert, replayUpdate and
\* replayDelete fetch the page of the record and unpin it, and change nothing.
Replayed ==
  {log[i] : i \in {j \in 1..Len(log) :
                     Readable(j) /\ log[j].type \in Operations /\ log[j].txn \in CommittedTxns}}

\* loadDatabase: a new process, a new TransactionManager whose ids start at 1.
Restart ==
  /\ ~running
  /\ session < MaxSessions
  /\ running' = TRUE
  /\ session' = session + 1
  /\ UNCHANGED txns

\* Mutant: the LSN counter starts at 0 again.
Recover_ForgetsLSN ==
  /\ Restart
  /\ currentLSN' = 0
  /\ isOpen' = TRUE
  /\ UNCHANGED <<log, flushed, acked, written>>

\* Mutant: the file is opened for writing without Append, which empties it.
Recover_Empties ==
  /\ Restart
  /\ \E m \in ScannedLSNs : (\A k \in ScannedLSNs : k <= m) /\ currentLSN' = m
  /\ isOpen' = TRUE
  /\ log' = <<>>
  /\ flushed' = 0
  /\ UNCHANGED <<acked, written>>

\* initialize and recoverFromFile.  The scan ends at a fragment, which stays in
\* the file; new records go behind it.
Recover ==
  /\ Restart
  /\ \E m \in ScannedLSNs : (\A k \in ScannedLSNs : k <= m) /\ currentLSN' = m
  /\ isOpen' = TRUE
  /\ UNCHANGED <<log, flushed, acked, written>>

\* The file cannot be opened for the scan, or again after it: loadDatabase goes
\* on, with a log that refuses every record, so that the counter does not
\* matter.
RecoverFails ==
  /\ Restart
  /\ IoFailures
  /\ isOpen' = FALSE
  /\ UNCHANGED <<log, flushed, currentLSN, acked, written>>

-----------------------------------------------------------------------------
LogNext ==
  \/ \E t \in TxnNumbers :
       \/ \E autoCommit \in BOOLEAN : WriteBegin(t, autoCommit)
       \/ \E type \in Operations : Operate(t, type) \/ OperateUnlogged(t, type)
       \/ WriteCommit(t)
       \/ ReturnCommit(t)
       \/ WriteAbort(t)
  \/ \E n \in 0..Len(log) : Crash(n)
  \/ Recover
  \/ RecoverFails

LogSpec == LogInit /\ [][LogNext]_logVars

-----------------------------------------------------------------------------
LogTypeOK ==
  /\ log \in Seq(Record)
  /\ flushed \in 0..Len(log)
  /\ currentLSN \in 0..MaxLSN
  /\ isOpen \in BOOLEAN
  /\ running \in BOOLEAN
  /\ session \in Sessions
  /\ txns \in Seq(Txn)
  /\ Len(txns) <= MaxTxns
  /\ acked \subseteq [owner : [txn : TxnNumbers, session : Sessions], secured : BOOLEAN]
  /\ written \subseteq Record /\ \A r \in written : r.type \in Operations

\* The LSNs of the records that a scan reads increase strictly, through failed
\* writes, crashes and restarts, and the next record gets a larger one: an LSN
\* names one record, though recovery takes the counter back to an old value.
LSNsIncrease ==
  /\ \A i, j \in 1..Len(log) : Readable(j) /\ i < j => log[i].lsn < log[j].lsn
  /\ running /\ isOpen => \A i \in 1..Len(log) : Readable(i) => log[i].lsn <= currentLSN

\* A COMMIT record that a scan reads comes after every data record that the
\* transaction wrote: recovery finds all of a committed transaction's records
\* or, when a fragment is in the way, none of its commit.
CommitCoversRecords ==
  \A i \in 1..Len(log) : \A r \in written :
    Readable(i) /\ IsCommitOf(i, Owner(r)) => \E j \in 1..(i - 1) : log[j] = r

\* A commit that was reported after a successful flush, into a log that could
\* be read to its end, is in the file and readable from then on, whatever
\* crashes, failures and restarts follow.
SecuredCommitsStay ==
  \A a \in acked : a.secured =>
    \E i \in 1..flushed : Readable(i) /\ IsCommitOf(i, a.owner)

\* Recovery replays every record of a commit that was reported after a successful
\* flush into a readable log: both passes of recoverFromFile meet it, whatever
\* sessions, failures and fragments lie between.
SecuredIsReplayed ==
  \A a \in acked, r \in written : a.secured /\ Owner(r) = a.owner => r \in Replayed
=============================================================================
