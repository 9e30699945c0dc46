------------------------------ MODULE Sessions ------------------------------
(***************************************************************************)
(* Client programs (runClientMode of main.cpp over                         *)
(* src/network/client_manager.cpp) and the server they are connected to    *)
(* (src/network/server.cpp, client_connection.cpp), with the databases and *)
(* the one current transaction that all connections share                  *)
(* (DatabaseManager).                                                      *)
(*                                                                         *)
(* The server has one thread: a handler runs to its end.  A client reads   *)
(* what the server has sent only while it waits for an answer.  A          *)
(* connection delivers whole messages in order (both ends put them         *)
(* together from what has arrived) until it faults, which loses those on   *)
(* the way.  Each client runs once.                                        *)
(***************************************************************************)
EXTENDS Conversation, FiniteSets

CONSTANTS
  Missing,         \* the name of a database there is not
  Limits,          \* values of maxConnections
  MaxRequests,     \* bound: statements and switches
  MaxFaults        \* bound: connections that break, and answers not waited for

ASSUME SessionsAssumption ==
  /\ "qindb" \in Databases
  /\ Missing \notin Databases
  /\ Limits \subseteq Nat

VARIABLES
  link,           \* of each client: "none", "pending", "open", "left", "closed", "broken"
  up, down,       \* the messages on the way to the server, and to the client
  phase,          \* of the client program
  client,         \* its ClientManager, and its currentDatabase
  connections,    \* connections_ of the server
  conn,           \* the ClientConnection of each client
  nextSessionId,
  maxConnections, \* set before the server starts
  current,        \* m_currentDatabase
  currentTxn,     \* m_currentTransactionId
  txns,           \* of each database: the states and undo logs of its transactions
  rows,           \* of each database
  asked,          \* history: requests of each client
  late,           \* history: clients that stopped waiting for an answer that may still come
  mismatch,       \* history: clients that showed an answer to another request
  owner,          \* history: who has begun the current transaction, and where
  mixed,          \* history: it was used by another client, or in another database
  promised,       \* history: the committed rows of each database, and those of the transaction
  requests,
  faults

clientVars == <<phase, client, asked, requests, late, mismatch>>

networkVars == <<link, up, down, faults>>

serverVars == <<connections, conn, nextSessionId, maxConnections>>

engineVars == <<current, currentTxn, txns, rows, owner, mixed, promised>>

vars == <<clientVars, networkVars, serverVars, engineVars>>

\* The rule for what a transaction sees is the same for every table.
V == INSTANCE Visibility WITH Values <- {}, NoRecord <- 0

INVALID_TXN_ID == 0

NoOwner == [client |-> "", db |-> ""]

\* What a user may type: statements, a switch (USE or \c), and a USE in a script
\* (\i), which goes out as a statement.
Statements == {"SELECT", "INSERT", "BEGIN", "COMMIT", "ROLLBACK", "typo"}

Names == Databases \cup {Missing}

Requests ==
  [type : {"QUERY"}, sql : Statements, db : {""}]
    \cup [type : {"QUERY"}, sql : {"USE"}, db : {""}]
    \cup [type : {"SWITCH"}, sql : {"USE"}, db : Names]

Init ==
  /\ link = [c \in Clients |-> "none"]
  /\ up = [c \in Clients |-> << >>] /\ down = [c \in Clients |-> << >>]
  /\ phase = [c \in Clients |-> "off"]
  /\ client = [c \in Clients |-> NewClient]
  /\ connections = {}
  /\ conn = [c \in Clients |-> NewConnection]
  /\ nextSessionId = 1
  /\ maxConnections \in Limits
  /\ current = "qindb"
  /\ currentTxn = INVALID_TXN_ID
  /\ txns = [d \in Databases |-> << >>]
  /\ rows = [d \in Databases |-> {}]
  /\ asked = [c \in Clients |-> 0]
  /\ requests = 0
  /\ late = {} /\ mismatch = {}
  /\ owner = NoOwner
  /\ mixed = FALSE
  /\ promised = [committed |-> [d \in Databases |-> {}], pending |-> {}]
  /\ faults = 0

-----------------------------------------------------------------------------
\* The network.

Delivers(c) == link[c] \in {"pending", "open"}

\* write: what is written to a connection that has ended is lost.
Send(pipe, c, message) == IF Delivers(c) THEN [pipe EXCEPT ![c] = Append(@, message)] ELSE pipe

\* An answer after the client has left goes nowhere.
Answer(c, message) ==
  /\ up' = [up EXCEPT ![c] = Tail(@)]
  /\ down' = Send(down, c, message)

\* A connection faults; also one that the client has left, if it had not read all.
Break(c) ==
  /\ link[c] \in {"pending", "open", "left"} /\ faults < MaxFaults
  /\ link' = [link EXCEPT ![c] = "broken"]
  /\ up' = [up EXCEPT ![c] = << >>]
  /\ down' = [down EXCEPT ![c] = << >>]
  /\ faults' = faults + 1
  /\ UNCHANGED <<clientVars, serverVars, engineVars>>

-----------------------------------------------------------------------------
\* The client program.

\* connectToServer, and a moment later the request.
Connect(c, known) ==
  /\ phase[c] = "off"
  /\ phase' = [phase EXCEPT ![c] = "auth"]
  /\ link' = [link EXCEPT ![c] = "pending"]
  /\ up' = [up EXCEPT ![c] = <<AuthRequest(known)>>]
  /\ client' = [client EXCEPT ![c].connected = TRUE]
  /\ UNCHANGED <<asked, requests, late, mismatch, down, faults, serverVars, engineVars>>

\* The server cannot be reached: a second attempt is put on a timer, but the
\* program ends.
ConnectFails(c) ==
  /\ phase[c] = "off"
  /\ phase' = [phase EXCEPT ![c] = "ended"]
  /\ UNCHANGED <<client, asked, requests, late, mismatch, networkVars, serverVars, engineVars>>

\* disconnectFromServer; what was written before still goes out.
Leaves(c) ==
  /\ phase' = [phase EXCEPT ![c] = "ended"]
  /\ client' = [client EXCEPT ![c] = NewClient]
  /\ link' = IF Delivers(c) THEN [link EXCEPT ![c] = "left"] ELSE link
  /\ down' = [down EXCEPT ![c] = << >>]
  /\ UNCHANGED <<asked, requests, late, mismatch, up, faults, serverVars, engineVars>>

AuthTimeout(c) == phase[c] = "auth" /\ ~client[c].authenticated /\ Leaves(c)

Exit(c) == phase[c] = "prompt" /\ Leaves(c)

\* sendQuery and sendDatabaseSwitch, and the start of the wait; without a connection
\* the user gets an error and another prompt.
Request(c, request) ==
  /\ phase[c] = "prompt" /\ requests < MaxRequests
  /\ client[c].connected /\ client[c].authenticated
  /\ up' = Send(up, c, [type |-> request.type, sql |-> request.sql, db |-> request.db,
                        session |-> client[c].session, id |-> asked[c] + 1,
                        prompt |-> client[c].database])
  /\ asked' = [asked EXCEPT ![c] = @ + 1]
  /\ requests' = requests + 1
  /\ phase' = [phase EXCEPT ![c] = "waiting"]
  /\ client' = [client EXCEPT ![c].waiting = TRUE]
  /\ UNCHANGED <<late, mismatch, link, down, faults, serverVars, engineVars>>

Processing(c) == phase[c] \in {"auth", "waiting"}

\* The k messages that have come are handled together; then the program leaves its
\* loop if it is authenticated, or has an answer.
Receive(c, k) ==
  LET after == Handled(client[c], down[c], k)
  IN  /\ Processing(c) /\ client[c].connected
      /\ k <= Len(down[c])
      /\ down' = [down EXCEPT ![c] = SubSeq(@, k + 1, Len(@))]
      /\ client' = [client EXCEPT ![c] = after]
      /\ phase' = IF after.authenticated /\ ~after.waiting THEN [phase EXCEPT ![c] = "prompt"] ELSE phase
      /\ mismatch' = IF \E i \in 1 .. k : down[c][i].type = "RESULT" /\ down[c][i].id # asked[c]
                     THEN mismatch \cup {c} ELSE mismatch
      /\ UNCHANGED <<asked, requests, late, link, up, faults, serverVars, engineVars>>

\* onDisconnected: nobody connects again.
OnDisconnectedClient(c) ==
  /\ Processing(c) /\ client[c].connected
  /\ link[c] \in {"closed", "broken"} /\ down[c] = << >>
  /\ client' = [client EXCEPT ![c].connected = FALSE, ![c].authenticated = FALSE, ![c].session = NoSession]
  /\ UNCHANGED <<phase, asked, requests, late, mismatch, networkVars, serverVars, engineVars>>

\* The answer to the last request can still come.
Outstanding(c) ==
  \/ \E i \in DOMAIN up[c] : up[c][i].id = asked[c]
  \/ \E i \in DOMAIN down[c] : down[c][i].type = "RESULT" /\ down[c][i].id = asked[c]

\* After five seconds the program stops waiting.
Timeout(c) ==
  /\ phase[c] = "waiting" /\ client[c].waiting
  /\ phase' = [phase EXCEPT ![c] = "prompt"]
  /\ client' = [client EXCEPT ![c].waiting = FALSE]
  /\ IF Outstanding(c)
     THEN faults < MaxFaults /\ faults' = faults + 1 /\ late' = late \cup {c}
     ELSE UNCHANGED <<faults, late>>
  /\ UNCHANGED <<asked, requests, mismatch, link, up, down, serverVars, engineVars>>

-----------------------------------------------------------------------------
\* The server: connections.

\* Mutant: one connection too many.
canAcceptConnection_OneMore == Cardinality(connections) <= maxConnections

canAcceptConnection == Cardinality(connections) < maxConnections

\* onNewConnection
Accept(c) ==
  /\ link[c] = "pending" /\ canAcceptConnection
  /\ connections' = connections \cup {c}
  /\ link' = [link EXCEPT ![c] = "open"]
  /\ UNCHANGED <<clientVars, up, down, faults, conn, nextSessionId, maxConnections, engineVars>>

TurnAway(c) ==
  /\ link[c] = "pending" /\ ~canAcceptConnection
  /\ link' = [link EXCEPT ![c] = "closed"]
  /\ up' = [up EXCEPT ![c] = << >>]
  /\ UNCHANGED <<clientVars, down, faults, serverVars, engineVars>>

\* Mutant: the connection object goes, its place in connections_ does not.
OnClientDisconnected_Kept(c) ==
  /\ c \in connections
  /\ link[c] \in {"left", "broken"} /\ up[c] = << >>
  /\ conn' = [conn EXCEPT ![c] = NewConnection]
  /\ UNCHANGED <<clientVars, networkVars, connections, nextSessionId, maxConnections, engineVars>>

\* onDisconnected, onClientDisconnected: after the messages that had arrived.
\* The current transaction stays open.
OnClientDisconnected(c) ==
  /\ c \in connections
  /\ link[c] \in {"left", "broken"} /\ up[c] = << >>
  /\ connections' = connections \ {c}
  /\ conn' = [conn EXCEPT ![c] = NewConnection]
  /\ UNCHANGED <<clientVars, networkVars, nextSessionId, maxConnections, engineVars>>

Arrived(c, type) == c \in connections /\ up[c] # << >> /\ Head(up[c]).type = type

Error(c) == Answer(c, [type |-> "ERROR", id |-> Head(up[c]).id])

Result(c, db) == Answer(c, [type |-> "RESULT", db |-> db, id |-> Head(up[c]).id])

\* handleAuthRequest, for the database the client always asks for.
HandleAuthRequest(c) ==
  /\ Arrived(c, "AUTH")
  /\ Answer(c, [type |-> "AUTH", ok |-> Head(up[c]).known, session |-> nextSessionId])
  /\ IF Head(up[c]).known
     THEN /\ conn' = [conn EXCEPT ![c] = [session |-> nextSessionId, authenticated |-> TRUE,
                                          database |-> "qindb"]]
          /\ nextSessionId' = nextSessionId + 1
     ELSE UNCHANGED <<conn, nextSessionId>>
  /\ UNCHANGED <<clientVars, link, faults, connections, maxConnections, engineVars>>

\* handleDatabaseSwitch
HandleSwitch(c) ==
  /\ Arrived(c, "SWITCH") /\ conn[c].authenticated /\ Head(up[c]).db \in Databases
  /\ current' = Head(up[c]).db
  /\ conn' = [conn EXCEPT ![c].database = Head(up[c]).db]
  /\ Result(c, Head(up[c]).db)
  /\ UNCHANGED <<clientVars, link, faults, connections, nextSessionId, maxConnections,
                 currentTxn, txns, rows, owner, mixed, promised>>

HandleSwitchFails(c) ==
  /\ Arrived(c, "SWITCH") /\ ~(conn[c].authenticated /\ Head(up[c]).db \in Databases)
  /\ Error(c)
  /\ UNCHANGED <<clientVars, link, faults, serverVars, engineVars>>

-----------------------------------------------------------------------------
\* The server: statements (handleQueryRequest, and the executor).

Refused(c) ==
  \/ ~conn[c].authenticated
  \/ Head(up[c]).session # conn[c].session
  \/ Head(up[c]).sql = "typo"

HandleRefused(c) ==
  /\ Arrived(c, "QUERY") /\ Refused(c)
  /\ Error(c)
  /\ UNCHANGED <<clientVars, link, faults, serverVars, engineVars>>

\* Mutant: the answer to a USE is sent, and then that of the statement too.
HandleUse_NoReturn(c) ==
  /\ Arrived(c, "QUERY") /\ ~Refused(c) /\ Head(up[c]).sql = "USE"
  /\ up' = [up EXCEPT ![c] = Tail(@)]
  /\ LET answer == [type |-> "RESULT", db |-> conn[c].database, id |-> Head(up[c]).id]
     IN  down' = Send(Send(down, c, answer), c, answer)
  /\ UNCHANGED <<clientVars, link, faults, serverVars, engineVars>>

\* A USE that comes as a statement succeeds and does nothing.
HandleUse(c) ==
  /\ Arrived(c, "QUERY") /\ ~Refused(c) /\ Head(up[c]).sql = "USE"
  /\ Result(c, conn[c].database)
  /\ UNCHANGED <<clientVars, link, faults, serverVars, engineVars>>

\* Mutant: a statement runs in the database that was switched to last.
useDatabase_Last(c) == current

\* The database a statement runs in is the connection's.
useDatabase(c) == conn[c].database

States(d) == [i \in DOMAIN txns[d] |-> txns[d][i].state]

InTransaction == currentTxn # INVALID_TXN_ID

Active(d) == InTransaction /\ V!getTransactionState(States(d), currentTxn) = "ACTIVE"

\* Mutant: BEGIN does not look for an active transaction.
Fails_BeginAgain(sql, d) == sql \in {"COMMIT", "ROLLBACK"} /\ ~Active(d)

Fails(sql, d) ==
  \/ sql = "BEGIN" /\ Active(d)
  \/ sql \in {"COMMIT", "ROLLBACK"} /\ ~Active(d)

Mixes(c, d) == InTransaction /\ owner # [client |-> c, db |-> d]

\* A statement that runs, and what it leaves alone.
Runs(c, sql) ==
  /\ Arrived(c, "QUERY") /\ ~Refused(c) /\ Head(up[c]).sql = sql
  /\ ~Fails(sql, useDatabase(c))
  /\ current' = useDatabase(c)
  /\ mixed' = (mixed \/ Mixes(c, useDatabase(c)))
  /\ Result(c, conn[c].database)
  /\ UNCHANGED <<clientVars, link, faults, serverVars>>

HandleFails(c) ==
  /\ Arrived(c, "QUERY") /\ ~Refused(c) /\ Fails(Head(up[c]).sql, useDatabase(c))
  /\ current' = useDatabase(c)
  /\ Error(c)
  /\ UNCHANGED <<clientVars, link, faults, serverVars, currentTxn, txns, rows, owner, mixed, promised>>

HandleSelect(c) ==
  /\ Runs(c, "SELECT")
  /\ UNCHANGED <<currentTxn, txns, rows, owner, promised>>

\* Outside a transaction the statement commits one of its own; inside, the undo log
\* takes the row if the transaction is active in this database.
HandleInsert(c) ==
  LET d == useDatabase(c)
      id == [client |-> c, n |-> Head(up[c]).id, prompt |-> Head(up[c]).prompt]
      txnId == IF InTransaction THEN currentTxn ELSE Len(txns[d]) + 1
  IN  /\ Runs(c, "INSERT")
      /\ rows' = [rows EXCEPT ![d] = @ \cup
                    {[createTxnId |-> txnId, deleteTxnId |-> INVALID_TXN_ID, id |-> id]}]
      /\ txns' = [txns EXCEPT ![d] =
                    IF ~InTransaction THEN Append(@, [state |-> "COMMITTED", undo |-> {}])
                    ELSE IF Active(d) THEN [txns[d] EXCEPT ![currentTxn].undo = @ \cup {id}] ELSE @]
      /\ promised' = IF InTransaction THEN [promised EXCEPT !.pending = @ \cup {id}]
                                      ELSE [promised EXCEPT !.committed[d] = @ \cup {id}]
      /\ UNCHANGED <<currentTxn, owner>>

HandleBegin(c) ==
  LET d == useDatabase(c)
  IN  /\ Runs(c, "BEGIN")
      /\ txns' = [txns EXCEPT ![d] = Append(@, [state |-> "ACTIVE", undo |-> {}])]
      /\ currentTxn' = Len(txns[d]) + 1
      /\ owner' = [client |-> c, db |-> d]
      /\ UNCHANGED <<rows, promised>>

Ended(d, state) == txns' = [txns EXCEPT ![d][currentTxn].state = state]

HandleCommit(c) ==
  LET d == useDatabase(c)
  IN  /\ Runs(c, "COMMIT")
      /\ Ended(d, "COMMITTED")
      /\ currentTxn' = INVALID_TXN_ID
      /\ owner' = NoOwner
      /\ promised' = [promised EXCEPT !.committed[d] = @ \cup promised.pending, !.pending = {}]
      /\ UNCHANGED rows

\* The undo log takes the rows back, then the transaction is aborted.
HandleRollback(c) ==
  LET d == useDatabase(c)
  IN  /\ Runs(c, "ROLLBACK")
      /\ rows' = [rows EXCEPT ![d] =
                    {IF r.id \in txns[d][currentTxn].undo THEN [r EXCEPT !.deleteTxnId = currentTxn]
                                                          ELSE r : r \in @}]
      /\ Ended(d, "ABORTED")
      /\ currentTxn' = INVALID_TXN_ID
      /\ owner' = NoOwner
      /\ promised' = [promised EXCEPT !.pending = {}]

-----------------------------------------------------------------------------

ClientStep(c) ==
  \/ AuthTimeout(c) \/ Timeout(c) \/ OnDisconnectedClient(c)
  \/ \E k \in 1 .. MaxRequests : Receive(c, k)

ServerStep(c) ==
  \/ Accept(c) \/ TurnAway(c) \/ OnClientDisconnected(c) \/ HandleAuthRequest(c)
  \/ HandleSwitch(c) \/ HandleSwitchFails(c) \/ HandleRefused(c) \/ HandleUse(c)
  \/ HandleFails(c) \/ HandleSelect(c) \/ HandleInsert(c)
  \/ HandleBegin(c) \/ HandleCommit(c) \/ HandleRollback(c)

Next ==
  \E c \in Clients :
    \/ \E known \in BOOLEAN : Connect(c, known)
    \/ ConnectFails(c)
    \/ \E request \in Requests : Request(c, request)
    \/ Exit(c)
    \/ Break(c)
    \/ ClientStep(c)
    \/ ServerStep(c)

\* The event loop of the server takes what there is, and so does a client that waits;
\* nobody has to type anything.
Spec ==
  /\ Init /\ [][Next]_vars
  /\ \A c \in Clients : WF_vars(ClientStep(c)) /\ WF_vars(ServerStep(c))

-----------------------------------------------------------------------------
\* What the server and the clients have to keep.

\* A client shows an answer as the answer to its last request only if it is one,
\* unless it had stopped waiting for an earlier answer (main.cpp: any answer ends
\* the wait, and nothing in it says which request it is for).
AnswersAreForTheRequest == mismatch \subseteq late

\* A row is where the prompt said when the user typed the INSERT, whatever other
\* clients switched to meanwhile, unless its client had stopped waiting before.
RowsAreWhereThePromptSaid ==
  \A d \in Databases : \A r \in rows[d] : r.id.prompt = d \/ r.id.client \in late

\* As long as only the client that has begun a transaction runs statements, and
\* in the database it was begun in, everyone sees the committed rows and that client
\* its own: no row of a transaction is lost, and none that was taken back is seen.
TransactionsAreKept ==
  ~mixed =>
    \A d \in Databases :
      LET Seen(reader) == {r.id : r \in {q \in rows[d] : V!isVisible(States(d), q, reader)}}
      IN  /\ Seen(INVALID_TXN_ID) = promised.committed[d]
          /\ InTransaction /\ owner.db = d =>
               Seen(currentTxn) = promised.committed[d] \cup promised.pending

\* No two connections have the same session, a client that is authenticated has that of its
\* connection, and the server never has more connections than it may.
SessionsAreApart ==
  /\ Cardinality(connections) <= maxConnections
  /\ \A c, e \in connections :
       c # e /\ conn[c].authenticated /\ conn[e].authenticated => conn[c].session # conn[e].session
  /\ \A c \in connections : client[c].authenticated => client[c].session = conn[c].session

\* The slot of a connection that has ended becomes free again, so that others are
\* not turned away for ever.
ConnectionsAreGivenBack ==
  \A c \in Clients : c \in connections /\ link[c] \in {"left", "broken"} ~> c \notin connections

=============================================================================
