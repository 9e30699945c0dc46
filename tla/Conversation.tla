---------------------------- MODULE Conversation ----------------------------
(***************************************************************************)
(* What the two ends of a connection know of their conversation, and what  *)
(* the client does with the messages that come: the ClientManager          *)
(* (src/network/client_manager.cpp) and the ClientConnection               *)
(* (src/network/client_connection.cpp) as values.                          *)
(***************************************************************************)
EXTENDS Integers, Sequences

CONSTANTS
  Clients,
  Databases        \* that can be used, "qindb" among them

NoSession == 0

NewConnection == [session |-> NoSession, authenticated |-> FALSE, database |-> ""]

NewClient == [connected |-> FALSE, authenticated |-> FALSE, session |-> NoSession,
              waiting |-> FALSE, database |-> "qindb"]

\* sendAuthRequest; known says whether the server has the user with the password.
AuthRequest(known) == [type |-> "AUTH", known |-> known]

\* handleMessage of the client.  Any answer to a statement or a switch ends the
\* wait; an error is shown and does not.
Received(state, message) ==
  CASE message.type = "AUTH" ->
         [state EXCEPT !.authenticated = message.ok,
                       !.session = IF message.ok THEN message.session ELSE @]
    [] message.type = "RESULT" ->
         [state EXCEPT !.waiting = FALSE, !.database = message.db]
    [] message.type = "ERROR" -> state

\* The first k messages that have come, one after the other.
Handled(state, messages, k) ==
  LET after[i \in 0 .. k] == IF i = 0 THEN state ELSE Received(after[i - 1], messages[i])
  IN  after[k]

=============================================================================
