---------------------------- MODULE ClientsProofs ----------------------------
(***************************************************************************)
(* What a client shows, where its rows are and which session it has, for   *)
(* any number of clients, databases and requests.  Talk says what one      *)
(* client and the server can have to say to each other: it is about one    *)
(* link, its two queues, the client program, its ClientManager and the     *)
(* server's connection.  There is a lemma for each kind of step that such  *)
(* a conversation can take, and then every client's conversation is shown  *)
(* to take only such steps.                                                *)
(*                                                                         *)
(* The transactions of the clients are kept apart from the committed rows. *)
(* QInv says that the requests of a client are taken in the order they     *)
(* were typed, so that every row has an identity of its own; KInv relates  *)
(* the rows, the transaction tables and what the clients were promised.    *)
(***************************************************************************)
EXTENDS Sessions, FiniteSetTheorems, WellFoundedInduction, TLAPS

\* A sequence, whatever its elements are.
IsSeq(s) == s \in Seq({s[i] : i \in DOMAIN s})

\* A message that asks for something, as opposed to the one that authenticates.
Asks(message) == message.type \in {"QUERY", "SWITCH"}

\* A sequence of anything is one.
LEMMA SomeSeq == ASSUME NEW S, NEW s \in Seq(S) PROVE IsSeq(s)
BY DEF IsSeq

\* What a sequence is defined on.
LEMMA SeqDomain ==
  ASSUME NEW s, IsSeq(s)
  PROVE  Len(s) \in Nat /\ DOMAIN s = 1..Len(s)
BY DEF IsSeq

\* What Tail leaves.
LEMMA TailOf ==
  ASSUME NEW s, IsSeq(s), s # << >>
  PROVE  /\ 1 \in DOMAIN s /\ Head(s) = s[1]
         /\ IsSeq(Tail(s))
         /\ \A i \in DOMAIN Tail(s) : i \in Nat /\ i + 1 \in DOMAIN s /\ Tail(s)[i] = s[i + 1]
<1> DEFINE S == {s[i] : i \in DOMAIN s}
<1>1. s \in Seq(S)
  BY Zenon DEF IsSeq
<1> HIDE DEF S
<1>2. Tail(s) \in Seq(S) /\ Len(Tail(s)) = Len(s) - 1 /\ Len(s) \in Nat \ {0}
  BY <1>1
<1>3. IsSeq(Tail(s))
  BY <1>2, SomeSeq, Zenon
<1>4. DOMAIN s = 1..Len(s) /\ DOMAIN Tail(s) = 1..(Len(s) - 1)
  BY <1>1, <1>2
<1>5. \A i \in 1..(Len(s) - 1) : Tail(s)[i] = s[i + 1]
  BY <1>1, <1>2
<1>6. Head(s) = s[1]
  BY <1>1
<1> QED
  BY <1>2, <1>3, <1>4, <1>5, <1>6

\* What Append adds.
LEMMA AppendTo ==
  ASSUME NEW s, IsSeq(s), NEW x
  PROVE  /\ IsSeq(Append(s, x))
         /\ Len(s) \in Nat
         /\ DOMAIN s = 1..Len(s)
         /\ DOMAIN Append(s, x) = 1..(Len(s) + 1)
         /\ Append(s, x)[Len(s) + 1] = x
         /\ \A i \in DOMAIN s : Append(s, x)[i] = s[i]
<1> DEFINE S == {s[i] : i \in DOMAIN s} \cup {x}
<1>1. s \in Seq(S) /\ x \in S
  <2>1. s \in Seq({s[i] : i \in DOMAIN s})
    BY Zenon DEF IsSeq
  <2>2. Len(s) \in Nat /\ DOMAIN s = 1..Len(s) /\ \A i \in 1..Len(s) : s[i] \in S
    BY <2>1
  <2>3. s = [i \in 1..Len(s) |-> s[i]]
    BY <2>1
  <2> QED
    BY <2>2, <2>3
<1> HIDE DEF S
<1>2. Append(s, x) \in Seq(S) /\ Len(Append(s, x)) = Len(s) + 1
  BY <1>1
<1>3. IsSeq(Append(s, x))
  BY <1>2, SomeSeq, Zenon
<1>4. Len(s) \in Nat /\ DOMAIN s = 1..Len(s)
  BY <1>1
<1>5. DOMAIN Append(s, x) = 1..(Len(s) + 1)
  BY <1>2
<1>6. Append(s, x)[Len(s) + 1] = x
  BY <1>1
<1>7. \A i \in 1..Len(s) : Append(s, x)[i] = s[i]
  BY <1>1
<1> QED
  BY <1>3, <1>4, <1>5, <1>6, <1>7, Zenon

-----------------------------------------------------------------------------
\* Induction over the natural numbers, for a set of them.

\* A set of natural numbers has a least one.
LEMMA LeastNumber ==
  ASSUME NEW T \in SUBSET Nat, T # {}
  PROVE  \E x \in T : \A y \in T : x <= y
<1>1. \A y, z \in Nat : y < z => <<y, z>> \in OpToRel(<, Nat)
  BY Zenon DEF OpToRel
<1>2. PICK x \in T : \A y \in T : ~ (<<y, x>> \in OpToRel(<, Nat))
  BY NatLessThanWellFounded, WFMin, Zenon
<1>3. \A y \in T : ~(y < x)
  BY <1>1, <1>2, Zenon
<1> QED
  BY <1>3

\* A set with 0 that has the next number with each of its numbers has them all.
LEMMA SetInduction ==
  ASSUME NEW S, 0 \in S, \A n \in Nat : n \in S => n + 1 \in S
  PROVE  Nat \subseteq S
<1> SUFFICES ASSUME Nat \ S # {} PROVE FALSE
  BY Zenon
<1>1. PICK x \in Nat \ S : \A y \in Nat \ S : x <= y
  BY LeastNumber, Zenon
<1>2. x # 0 /\ x - 1 \in Nat
  BY <1>1
<1>3. x - 1 \in S
  BY <1>1, <1>2
<1> QED
  BY <1>1, <1>2, <1>3

-----------------------------------------------------------------------------
\* The messages that a client handles.

\* The positions of the requests, of the messages that authenticate, and of the
\* answers in a queue.
Asked(q) == {i \in DOMAIN q : Asks(q[i])}

Auths(q) == {i \in DOMAIN q : q[i].type = "AUTH"}

Results(q) == {i \in DOMAIN q : q[i].type = "RESULT"}

\* A ClientManager, as far as the proofs need it.
IsClient(s) ==
  /\ s = [connected |-> s.connected, authenticated |-> s.authenticated, session |-> s.session,
          waiting |-> s.waiting, database |-> s.database]
  /\ s.waiting \in BOOLEAN

\* Handled goes from one state to the next: the function it is defined by exists.
LEMMA HandledIs ==
  ASSUME NEW a, NEW s, NEW k \in Nat
  PROVE  \E f : /\ f[0] = a
                /\ \A i \in 1 .. k : f[i] = Received(f[i - 1], s[i])
                /\ f[k] = Handled(a, s, k)
<1> DEFINE IsRun(f, n) == f = [i \in 0 .. n |-> IF i = 0 THEN a ELSE Received(f[i - 1], s[i])]
           S == {n \in Nat : \E f : IsRun(f, n)}
<1>1. 0 \in S
  <2>1. IsRun([i \in 0 .. 0 |-> a], 0)
    OBVIOUS
  <2> QED
    BY <2>1, Zenon
<1>2. ASSUME NEW n \in Nat, n \in S PROVE n + 1 \in S
  <2>1. PICK f : IsRun(f, n)
    BY <1>2, Zenon
  <2> DEFINE g == [i \in 0 .. n + 1 |-> IF i \in 0 .. n THEN f[i] ELSE Received(f[n], s[n + 1])]
  <2>2. \A i \in 0 .. n + 1 : g[i] = IF i = 0 THEN a ELSE Received(g[i - 1], s[i])
    <3> TAKE i \in 0 .. n + 1
    <3>1. CASE i = 0
      BY <2>1, <3>1
    <3>2. CASE i \in 1 .. n
      <4>1. i - 1 \in 0 .. n /\ i \in 0 .. n /\ i # 0
        BY <3>2
      <4>2. g[i - 1] = f[i - 1] /\ g[i] = f[i]
        BY <4>1
      <4> HIDE DEF g
      <4> QED
        BY <2>1, <4>1, <4>2, Zenon
    <3>3. CASE i = n + 1
      <4>1. i - 1 \in 0 .. n /\ i - 1 = n /\ i # 0
        BY <3>3
      <4>2. g[i - 1] = f[n] /\ g[i] = Received(f[n], s[n + 1])
        BY <3>3, <4>1
      <4> HIDE DEF g
      <4> QED
        BY <3>3, <4>1, <4>2, Zenon
    <3> QED
      BY <3>1, <3>2, <3>3
  <2>3. g = [i \in 0 .. n + 1 |-> g[i]]
    BY Zenon
  <2> HIDE DEF g
  <2>4. IsRun(g, n + 1)
    BY <2>2, <2>3, Zenon
  <2> QED
    BY <2>4
<1>3. k \in S
  <2> HIDE DEF S
  <2> QED
    BY <1>1, <1>2, SetInduction, Zenon
<1>4. PICK f : f = CHOOSE g : IsRun(g, k)
  BY Zenon
<1>5. IsRun(f, k)
  BY <1>3, <1>4, Zenon
<1>6. f[k] = Handled(a, s, k)
  BY <1>4, Zenon DEF Handled
<1>7. f[0] = a /\ \A i \in 1 .. k : f[i] = Received(f[i - 1], s[i])
  BY <1>5
<1> QED
  BY <1>6, <1>7, Zenon

\* What one message changes.
LEMMA ReceivedIs ==
  ASSUME NEW a, IsClient(a), NEW m, m.type \in {"AUTH", "RESULT", "ERROR"}, NEW b, b = Received(a, m)
  PROVE  /\ IsClient(b) /\ b.connected = a.connected
         /\ m.type = "RESULT" => ~b.waiting /\ b.database = m.db
         /\ m.type # "RESULT" => b.waiting = a.waiting /\ b.database = a.database
         /\ m.type = "AUTH" => b.authenticated = m.ok /\ (m.ok => b.session = m.session)
         /\ m.type # "AUTH" => b.authenticated = a.authenticated /\ b.session = a.session
<1>1. CASE m.type = "AUTH"
  BY <1>1, Zenon DEF Received, IsClient
<1>2. CASE m.type = "RESULT"
  BY <1>2, Zenon DEF Received, IsClient
<1>3. CASE m.type = "ERROR"
  BY <1>3, Zenon DEF Received, IsClient
<1> QED
  BY <1>1, <1>2, <1>3, Zenon

\* There is such a message among the first k.
Has(s, k, type) == \E i \in 1 .. k : s[i].type = type

\* The client b is what the first k messages of s make of a: the session is that of
\* one of the messages that authenticate, the database that of one of the answers.
Follows(a, s, k, b) ==
  /\ IsClient(b) /\ b.connected = a.connected
  /\ Has(s, k, "RESULT") => ~b.waiting
  /\ ~Has(s, k, "RESULT") => b.waiting = a.waiting
  /\ \/ ~Has(s, k, "RESULT") /\ b.database = a.database
     \/ \E i \in 1 .. k : s[i].type = "RESULT" /\ b.database = s[i].db
  /\ \/ ~Has(s, k, "AUTH") /\ b.authenticated = a.authenticated /\ b.session = a.session
     \/ \E i \in 1 .. k : /\ s[i].type = "AUTH" /\ b.authenticated = s[i].ok
                          /\ s[i].ok => b.session = s[i].session

\* Messages that are handled together, however many they are.
LEMMA HandledFollows ==
  ASSUME NEW a, IsClient(a), NEW s, NEW k \in Nat,
         \A i \in 1 .. k : s[i].type \in {"AUTH", "RESULT", "ERROR"}
  PROVE  Follows(a, s, k, Handled(a, s, k))
<1>1. PICK f : /\ f[0] = a
               /\ \A i \in 1 .. k : f[i] = Received(f[i - 1], s[i])
               /\ f[k] = Handled(a, s, k)
  BY HandledIs, Zenon
<1> DEFINE S == {n \in Nat : n <= k => Follows(a, s, n, f[n])}
<1>2. 0 \in S
  <2>1. Follows(a, s, 0, a)
    BY DEF Follows, Has
  <2> QED
    BY <1>1, <2>1, Zenon
<1>3. ASSUME NEW n \in Nat, n \in S PROVE n + 1 \in S
  <2> SUFFICES ASSUME n + 1 <= k PROVE Follows(a, s, n + 1, f[n + 1])
    OBVIOUS
  <2>1. n + 1 \in 1 .. k /\ n <= k /\ (n + 1) - 1 = n
    OBVIOUS
  <2> DEFINE m == s[n + 1]
             b == f[n]
             e == f[n + 1]
  <2>2. Follows(a, s, n, b)
    BY <1>3, <2>1, Zenon
  <2>3. e = Received(b, m) /\ m.type \in {"AUTH", "RESULT", "ERROR"}
    BY <1>1, <2>1, Zenon
  <2>4. IsClient(b) /\ b.connected = a.connected
    BY <2>2, Zenon DEF Follows
  <2> HIDE DEF b, e
  <2>5. /\ IsClient(e) /\ e.connected = b.connected
        /\ m.type = "RESULT" => ~e.waiting /\ e.database = m.db
        /\ m.type # "RESULT" => e.waiting = b.waiting /\ e.database = b.database
        /\ m.type = "AUTH" => e.authenticated = m.ok /\ (m.ok => e.session = m.session)
        /\ m.type # "AUTH" => e.authenticated = b.authenticated /\ e.session = b.session
    BY <2>3, <2>4, ReceivedIs
  <2>6. \A i \in 1 .. n + 1 : i \in 1 .. n \/ i = n + 1
    OBVIOUS
  <2>7. \A i \in 1 .. n : i \in 1 .. n + 1
    OBVIOUS
  <2>8. n + 1 \in 1 .. n + 1
    OBVIOUS
  <2>9. \A type : Has(s, n + 1, type) <=> Has(s, n, type) \/ m.type = type
    BY <2>6, <2>7, <2>8, Zenon DEF Has
  <2>10. /\ Has(s, n + 1, "RESULT") => ~e.waiting
         /\ ~Has(s, n + 1, "RESULT") => e.waiting = a.waiting
    BY <2>2, <2>5, <2>9, Zenon DEF Follows
  <2>11. \/ ~Has(s, n + 1, "RESULT") /\ e.database = a.database
         \/ \E i \in 1 .. n + 1 : s[i].type = "RESULT" /\ e.database = s[i].db
    <3>1. CASE m.type = "RESULT"
      BY <2>5, <2>8, <3>1, Zenon
    <3>2. CASE m.type # "RESULT"
      BY <2>2, <2>5, <2>7, <2>9, <3>2, Zenon DEF Follows
    <3> QED
      BY <3>1, <3>2, Zenon
  <2>12. \/ ~Has(s, n + 1, "AUTH") /\ e.authenticated = a.authenticated /\ e.session = a.session
         \/ \E i \in 1 .. n + 1 : /\ s[i].type = "AUTH" /\ e.authenticated = s[i].ok
                                  /\ s[i].ok => e.session = s[i].session
    <3>1. CASE m.type = "AUTH"
      BY <2>5, <2>8, <3>1, Zenon
    <3>2. CASE m.type # "AUTH"
      BY <2>2, <2>5, <2>7, <2>9, <3>2, Zenon DEF Follows
    <3> QED
      BY <3>1, <3>2, Zenon
  <2>13. Follows(a, s, n + 1, e)
    BY <2>4, <2>5, <2>10, <2>11, <2>12, Zenon DEF Follows
  <2> QED
    BY <2>13, Zenon DEF e
<1>4. k \in S
  <2> HIDE DEF S
  <2> QED
    BY <1>2, <1>3, SetInduction, Zenon
<1> QED
  BY <1>1, <1>4

\* What is left of a queue when the first k messages have been taken.
IsRest(s, k, t) ==
  /\ IsSeq(t)
  /\ DOMAIN t = 1 .. Len(s) - k
  /\ \A i \in DOMAIN t : i \in Nat \ {0} /\ i + k \in DOMAIN s /\ t[i] = s[i + k]

\* SubSeq leaves that.
LEMMA RestOf ==
  ASSUME NEW s, IsSeq(s), NEW k \in Nat, k <= Len(s), NEW t, t = SubSeq(s, k + 1, Len(s))
  PROVE  IsRest(s, k, t)
<1> DEFINE S == {s[i] : i \in DOMAIN s}
           n == Len(s)
<1>1. s \in Seq(S) /\ n \in Nat /\ DOMAIN s = 1 .. n /\ k <= n /\ t = SubSeq(s, k + 1, n)
  BY SeqDomain, Zenon DEF IsSeq
<1> HIDE DEF S, n
<1>2. t \in Seq(S) /\ Len(t) = n - k
  BY <1>1
<1>3. DOMAIN t = 1 .. n - k
  BY <1>1, <1>2
<1>4. ASSUME NEW i \in DOMAIN t PROVE i \in Nat \ {0} /\ i + k \in DOMAIN s /\ t[i] = s[i + k]
  BY <1>1, <1>3, <1>4
<1>5. IsSeq(t)
  BY <1>2, SomeSeq, Zenon
<1> QED
  BY <1>3, <1>4, <1>5, Zenon DEF IsRest, n

-----------------------------------------------------------------------------
\* The conversation of client c: its link l, the messages u to the server and d to
\* the client, the phase p of the program, its ClientManager s, the ClientConnection k,
\* the server's connections cs, the number n of its requests, and the clients ls that
\* have stopped waiting for an answer.

\* What the phases of the client program and of the link have to do with each other.
Stages(l, u, d, p, s, k, in) ==
  /\ p = "off" => l = "none" /\ s = NewClient /\ ~in /\ ~k.authenticated /\ u = << >>
  /\ p = "auth" => ~s.waiting /\ ~s.authenticated
  /\ p = "prompt" => ~s.waiting
  /\ p = "waiting" => s.waiting /\ (s.connected => s.authenticated)
  /\ p = "ended" => s = NewClient /\ l \notin {"pending", "open"}
  /\ l = "pending" => p = "auth" /\ ~in /\ ~k.authenticated
  /\ l = "open" => in
  /\ l # "open" => d = << >>

\* A client authenticates once: either its request is on the way, or the answer, or
\* both sides have the session.
OneSession(l, u, d, s, k, in) ==
  /\ Auths(u) # {} => DOMAIN u = {1} /\ ~s.authenticated /\ ~k.authenticated /\ Auths(d) = {}
  /\ \A i \in Auths(d) : /\ ~s.authenticated
                         /\ d[i].ok => k.authenticated /\ d[i].session = k.session
                         /\ \A j \in Auths(d) : i = j
  /\ s.authenticated /\ in => k.authenticated /\ s.session = k.session
  /\ l \in {"pending", "open"} /\ ~k.authenticated => s.database = "qindb" /\ Results(d) = {}

\* A client that waits for every answer has one request: on the way, or its answer is.
\* Otherwise it knows the database that the connection has.
OneRequest(l, u, d, p, s, k, n) ==
  /\ p # "waiting" => Asked(u) = {} /\ Results(d) = {}
  /\ \A i \in Asked(u) : /\ u[i].id = n /\ u[i].prompt = k.database /\ Results(d) = {}
                         /\ \A j \in Asked(u) : i = j
  /\ \A i \in Results(d) : d[i].id = n /\ d[i].db = k.database /\ \A j \in Results(d) : i = j
  /\ l = "open" /\ k.authenticated /\ Results(d) = {} => s.database = k.database

Talk(c, l, u, d, p, s, k, cs, n, ls) ==
  /\ IsClient(s)
  /\ IsSeq(u)
  /\ IsSeq(d) /\ \A i \in DOMAIN d : d[i].type \in {"AUTH", "RESULT", "ERROR"}
  /\ Stages(l, u, d, p, s, k, c \in cs)
  /\ OneSession(l, u, d, s, k, c \in cs)
  /\ c \in ls \/ OneRequest(l, u, d, p, s, k, n)

\* What a queue holds that was just made or has been lost.
LEMMA EmptyQueue ==
  IsSeq(<< >>) /\ DOMAIN << >> = {} /\ Auths(<< >>) = {} /\ Results(<< >>) = {} /\ Asked(<< >>) = {}
<1>1. DOMAIN << >> = {} /\ << >> \in Seq({})
  OBVIOUS
<1>2. IsSeq(<< >>)
  BY <1>1, SomeSeq, Zenon
<1> QED
  BY <1>1, <1>2, Zenon DEF Auths, Results, Asked

\* What a ClientManager starts with, and has after disconnectFromServer.
LEMMA NewClientIs ==
  /\ IsClient(NewClient) /\ ~NewClient.waiting /\ ~NewClient.authenticated
  /\ ~NewClient.connected /\ NewClient.database = "qindb"
BY Zenon DEF IsClient, NewClient, NoSession

\* connectToServer.
LEMMA TalkStarts ==
  ASSUME NEW c, NEW d, NEW k, NEW u, NEW cs, NEW n, NEW ls, NEW known, NEW s,
         Talk(c, "none", u, d, "off", s, k, cs, n, ls),
         NEW t, t = [s EXCEPT !.connected = TRUE]
  PROVE  Talk(c, "pending", <<AuthRequest(known)>>, d, "auth", t, k, cs, n, ls)
<1>1. d = << >> /\ s = NewClient /\ c \notin cs /\ ~k.authenticated
  BY Zenon DEF Talk, Stages
<1>2. IsClient(t) /\ ~t.waiting /\ ~t.authenticated /\ t.database = "qindb"
  BY <1>1, Zenon DEF NewClient, IsClient, NoSession
<1> DEFINE q == <<AuthRequest(known)>>
<1>3. IsSeq(q) /\ DOMAIN q = {1} /\ Asked(q) = {}
  <2>1. DOMAIN q = {1} /\ q[1] = AuthRequest(known) /\ q \in Seq({AuthRequest(known)})
    OBVIOUS
  <2>2. ~Asks(AuthRequest(known))
    BY Zenon DEF Asks, AuthRequest
  <2>3. IsSeq(q)
    BY <2>1, SomeSeq, Zenon
  <2> QED
    BY <2>1, <2>2, <2>3, Zenon DEF Asked
<1> HIDE DEF q
<1>4. Stages("pending", q, d, "auth", t, k, c \in cs)
  BY <1>1, <1>2, Zenon DEF Stages
<1>5. OneSession("pending", q, d, t, k, c \in cs)
  BY <1>1, <1>2, <1>3, EmptyQueue, Zenon DEF OneSession
<1>6. OneRequest("pending", q, d, "auth", t, k, n)
  BY <1>1, <1>3, EmptyQueue, Zenon DEF OneRequest
<1> QED
  BY <1>1, <1>2, <1>3, <1>4, <1>5, <1>6, EmptyQueue, Zenon DEF Talk, q

\* The server cannot be reached.
LEMMA TalkNeverStarts ==
  ASSUME NEW c, NEW l, NEW d, NEW k, NEW u, NEW cs, NEW n, NEW ls, NEW s,
         Talk(c, l, u, d, "off", s, k, cs, n, ls)
  PROVE  Talk(c, l, u, d, "ended", s, k, cs, n, ls)
<1>1. l = "none" /\ s = NewClient /\ d = << >>
  BY Zenon DEF Talk, Stages
<1>2. Stages(l, u, d, "ended", s, k, c \in cs)
  BY <1>1, Zenon DEF Stages
<1>3. c \in ls \/ OneRequest(l, u, d, "ended", s, k, n)
  BY Zenon DEF Talk, OneRequest
<1> QED
  BY <1>2, <1>3, Zenon DEF Talk

\* disconnectFromServer.
LEMMA TalkLeft ==
  ASSUME NEW c, NEW l, NEW d, NEW p, NEW k, NEW u, NEW cs, NEW n, NEW ls, NEW s,
         Talk(c, l, u, d, p, s, k, cs, n, ls), p \in {"auth", "prompt"},
         NEW r, r = IF l \in {"pending", "open"} THEN "left" ELSE l
  PROVE  Talk(c, r, u, << >>, "ended", NewClient, k, cs, n, ls)
<1>1. r \notin {"pending", "open"}
  BY Zenon
<1>2. Stages(r, u, << >>, "ended", NewClient, k, c \in cs)
  BY <1>1, NewClientIs, Zenon DEF Stages
<1>3. OneSession(r, u, << >>, NewClient, k, c \in cs)
  BY <1>1, NewClientIs, EmptyQueue, Zenon DEF Talk, OneSession
<1>4. c \in ls \/ OneRequest(r, u, << >>, "ended", NewClient, k, n)
  BY <1>1, EmptyQueue, Zenon DEF Talk, OneRequest
<1> QED
  BY <1>2, <1>3, <1>4, NewClientIs, EmptyQueue, Zenon DEF Talk

\* The connection faults, or the server turns it away.
LEMMA TalkBroken ==
  ASSUME NEW c, NEW l, NEW d, NEW p, NEW k, NEW u, NEW cs, NEW n, NEW ls, NEW s,
         Talk(c, l, u, d, p, s, k, cs, n, ls), l \in {"pending", "open", "left"},
         NEW r \in {"closed", "broken"}
  PROVE  Talk(c, r, << >>, << >>, p, s, k, cs, n, ls)
<1>1. Stages(r, << >>, << >>, p, s, k, c \in cs)
  BY Zenon DEF Talk, Stages
<1>2. OneSession(r, << >>, << >>, s, k, c \in cs)
  BY EmptyQueue, Zenon DEF Talk, OneSession
<1>3. OneRequest(r, << >>, << >>, p, s, k, n)
  BY EmptyQueue, Zenon DEF OneRequest
<1> QED
  BY <1>1, <1>2, <1>3, EmptyQueue, Zenon DEF Talk

\* Other clients come and go, and stop waiting.
LEMMA TalkSame ==
  ASSUME NEW c, NEW l, NEW d, NEW p, NEW k, NEW u, NEW cs, NEW n, NEW ls, NEW s, NEW bs, NEW ms,
         Talk(c, l, u, d, p, s, k, cs, n, ls),
         c \in bs <=> c \in cs, c \in ls => c \in ms
  PROVE  Talk(c, l, u, d, p, s, k, bs, n, ms)
<1>1. Stages(l, u, d, p, s, k, c \in bs) /\ OneSession(l, u, d, s, k, c \in bs)
  BY Zenon DEF Talk, Stages, OneSession
<1> QED
  BY <1>1, Zenon DEF Talk

\* onNewConnection.
LEMMA TalkAccepted ==
  ASSUME NEW c, NEW d, NEW p, NEW k, NEW u, NEW cs, NEW n, NEW ls, NEW s,
         Talk(c, "pending", u, d, p, s, k, cs, n, ls)
  PROVE  Talk(c, "open", u, d, p, s, k, cs \cup {c}, n, ls)
<1>1. d = << >> /\ p = "auth" /\ ~k.authenticated /\ ~s.authenticated
  BY Zenon DEF Talk, Stages
<1>2. Stages("open", u, d, p, s, k, c \in cs \cup {c})
  BY <1>1, Zenon DEF Talk, Stages
<1>3. OneSession("open", u, d, s, k, c \in cs \cup {c})
  BY <1>1, Zenon DEF Talk, OneSession
<1>4. c \in ls \/ OneRequest("open", u, d, p, s, k, n)
  BY <1>1, Zenon DEF Talk, OneRequest
<1> QED
  BY <1>2, <1>3, <1>4, Zenon DEF Talk

\* onClientDisconnected of the server.
LEMMA TalkForgotten ==
  ASSUME NEW c, NEW l, NEW d, NEW p, NEW k, NEW cs, NEW n, NEW ls, NEW s,
         Talk(c, l, << >>, d, p, s, k, cs, n, ls), l \in {"left", "broken"}
  PROVE  Talk(c, l, << >>, d, p, s, NewConnection, cs \ {c}, n, ls)
<1>1. d = << >> /\ ~NewConnection.authenticated
  BY Zenon DEF Talk, Stages, NewConnection
<1>2. Stages(l, << >>, d, p, s, NewConnection, c \in cs \ {c})
  BY <1>1, Zenon DEF Talk, Stages
<1>3. OneSession(l, << >>, d, s, NewConnection, c \in cs \ {c})
  BY <1>1, EmptyQueue, Zenon DEF OneSession
<1>4. OneRequest(l, << >>, d, p, s, NewConnection, n)
  BY <1>1, EmptyQueue, Zenon DEF OneRequest
<1> QED
  BY <1>2, <1>3, <1>4, Zenon DEF Talk

\* onDisconnected of the client.
LEMMA TalkDisconnected ==
  ASSUME NEW c, NEW l, NEW d, NEW p, NEW k, NEW u, NEW cs, NEW n, NEW ls, NEW s,
         Talk(c, l, u, d, p, s, k, cs, n, ls), p \in {"auth", "waiting"},
         NEW t, t = [s EXCEPT !.connected = FALSE, !.authenticated = FALSE, !.session = NoSession]
  PROVE  Talk(c, l, u, d, p, t, k, cs, n, ls)
<1>1. /\ IsClient(t) /\ t.waiting = s.waiting /\ ~t.authenticated /\ ~t.connected
      /\ t.database = s.database
  BY Zenon DEF Talk, IsClient
<1>2. Stages(l, u, d, p, t, k, c \in cs)
  BY <1>1, Zenon DEF Talk, Stages
<1>3. OneSession(l, u, d, t, k, c \in cs)
  BY <1>1, Zenon DEF Talk, OneSession
<1>4. c \in ls \/ OneRequest(l, u, d, p, t, k, n)
  BY <1>1, Zenon DEF Talk, OneRequest
<1> QED
  BY <1>1, <1>2, <1>3, <1>4, Zenon DEF Talk

\* The client stops waiting; it is late if the answer can still come.
LEMMA TalkTimesOut ==
  ASSUME NEW c, NEW l, NEW d, NEW p, NEW k, NEW u, NEW cs, NEW n, NEW ls, NEW ms, NEW s,
         Talk(c, l, u, d, p, s, k, cs, n, ls), p = "waiting",
         c \in ls => c \in ms,
         c \in ms \/ (/\ ~\E i \in DOMAIN u : u[i].id = n
                      /\ ~\E i \in DOMAIN d : d[i].type = "RESULT" /\ d[i].id = n),
         NEW t, t = [s EXCEPT !.waiting = FALSE]
  PROVE  Talk(c, l, u, d, "prompt", t, k, cs, n, ms)
<1>1. /\ IsClient(t) /\ ~t.waiting /\ t.authenticated = s.authenticated
      /\ t.database = s.database /\ t.session = s.session /\ t.connected = s.connected
  BY Zenon DEF Talk, IsClient
<1>2. Stages(l, u, d, "prompt", t, k, c \in cs)
  BY <1>1, Zenon DEF Talk, Stages
<1>3. OneSession(l, u, d, t, k, c \in cs)
  BY <1>1, Zenon DEF Talk, OneSession
<1>4. ASSUME c \notin ms PROVE OneRequest(l, u, d, "prompt", t, k, n)
  <2>1. OneRequest(l, u, d, p, s, k, n)
    BY <1>4, Zenon DEF Talk
  <2>2. Asked(u) = {}
    BY <1>4, <2>1, Zenon DEF OneRequest, Asked
  <2>3. Results(d) = {}
    BY <1>4, <2>1, Zenon DEF OneRequest, Results
  <2> QED
    BY <1>1, <2>1, <2>2, <2>3, Zenon DEF OneRequest
<1> QED
  BY <1>1, <1>2, <1>3, <1>4, Zenon DEF Talk

\* sendQuery and sendDatabaseSwitch.
LEMMA TalkAsks ==
  ASSUME NEW c, NEW l, NEW d, NEW p, NEW k, NEW u, NEW cs, NEW n, NEW ls, NEW s,
         Talk(c, l, u, d, p, s, k, cs, n, ls), p = "prompt", s.authenticated,
         NEW m, Asks(m), m.id = n + 1, m.prompt = s.database,
         NEW v, v = IF l \in {"pending", "open"} THEN Append(u, m) ELSE u,
         NEW t, t = [s EXCEPT !.waiting = TRUE]
  PROVE  Talk(c, l, v, d, "waiting", t, k, cs, n + 1, ls)
<1>1. /\ IsClient(t) /\ t.waiting /\ t.authenticated = s.authenticated
      /\ t.database = s.database /\ t.session = s.session /\ t.connected = s.connected
  BY Zenon DEF Talk, IsClient
<1>2. Stages(l, v, d, "waiting", t, k, c \in cs)
  BY <1>1, Zenon DEF Talk, Stages
<1>3. Auths(u) = {} /\ m.type # "AUTH"
  BY Zenon DEF Talk, OneSession, Asks
<1>4. /\ IsSeq(u) /\ IsSeq(Append(u, m))
      /\ Len(u) \in Nat /\ DOMAIN u = 1 .. Len(u)
      /\ DOMAIN Append(u, m) = 1 .. Len(u) + 1
      /\ Append(u, m)[Len(u) + 1] = m
      /\ \A i \in DOMAIN u : Append(u, m)[i] = u[i]
  <2>1. IsSeq(u)
    BY Zenon DEF Talk
  <2> QED
    BY <2>1, AppendTo
<1>5. Auths(v) = {}
  BY <1>3, <1>4 DEF Auths
<1>6. OneSession(l, v, d, t, k, c \in cs)
  BY <1>1, <1>5, Zenon DEF Talk, OneSession
<1>7. ASSUME c \notin ls PROVE OneRequest(l, v, d, "waiting", t, k, n + 1)
  <2>1. Asked(u) = {} /\ Results(d) = {}
    BY <1>7, Zenon DEF Talk, OneRequest
  <2>2. l = "open" /\ k.authenticated => s.database = k.database
    BY <1>7, <2>1, Zenon DEF Talk, OneRequest
  <2>3. CASE l = "open"
    <3>1. k.authenticated
      BY <2>3, Zenon DEF Talk, Stages, OneSession
    <3>2. ASSUME NEW i \in Asked(v) PROVE i = Len(u) + 1
      BY <1>4, <2>1, <2>3 DEF Asked
    <3>3. \A i \in Asked(v) : v[i].id = n + 1 /\ v[i].prompt = k.database
      BY <1>4, <2>2, <2>3, <3>1, <3>2, Zenon
    <3>4. \A i, j \in Asked(v) : i = j
      BY <3>2, Zenon
    <3> QED
      BY <1>1, <2>1, <2>2, <3>3, <3>4, Zenon DEF OneRequest
  <2>4. CASE l # "open"
    <3>1. v = u
      BY <2>4, Zenon DEF Talk, Stages
    <3> QED
      BY <2>1, <2>4, <3>1, Zenon DEF OneRequest
  <2> QED
    BY <2>3, <2>4, Zenon
<1>8. IsSeq(v)
  BY <1>4, Zenon
<1> QED
  BY <1>1, <1>2, <1>6, <1>7, <1>8, Zenon DEF Talk

\* The client handles the first h messages that have come.
LEMMA TalkReceives ==
  ASSUME NEW c, NEW l, NEW d, NEW p, NEW k, NEW u, NEW cs, NEW n, NEW ls, NEW s, NEW h \in Nat,
         Talk(c, l, u, d, p, s, k, cs, n, ls), p \in {"auth", "waiting"}, s.connected,
         1 <= h, h <= Len(d),
         NEW e, e = SubSeq(d, h + 1, Len(d)),
         NEW b, b = Handled(s, d, h),
         NEW r, r = IF b.authenticated /\ ~b.waiting THEN "prompt" ELSE p
  PROVE  Talk(c, l, u, e, r, b, k, cs, n, ls)
<1>1. IsSeq(d) /\ IsClient(s) /\ Len(d) \in Nat /\ DOMAIN d = 1 .. Len(d)
  BY SeqDomain, Zenon DEF Talk
<1>2. /\ IsSeq(e)
      /\ DOMAIN e = 1 .. Len(d) - h
      /\ \A i \in DOMAIN e : i \in Nat \ {0} /\ i + h \in DOMAIN d /\ e[i] = d[i + h]
  <2>1. IsRest(d, h, e)
    BY <1>1, RestOf, Zenon
  <2> QED
    BY <2>1, Zenon DEF IsRest
<1>3. 1 .. h \subseteq DOMAIN d
  BY <1>1
<1>4. l = "open" /\ c \in cs
  <2>1. d # << >>
    BY <1>1, EmptyQueue
  <2> QED
    BY <2>1, Zenon DEF Talk, Stages
<1>5. Follows(s, d, h, b)
  <2>1. \A i \in 1 .. h : d[i].type \in {"AUTH", "RESULT", "ERROR"}
    BY <1>3, Zenon DEF Talk
  <2> QED
    BY <1>1, <2>1, HandledFollows, Zenon
<1>6. /\ \A i \in Auths(e) : i + h \in Auths(d) /\ e[i] = d[i + h]
      /\ \A i \in Results(e) : i + h \in Results(d) /\ e[i] = d[i + h]
  BY <1>2, Zenon DEF Auths, Results
<1>7. \A i \in 1 .. h : /\ d[i].type = "AUTH" => i \in Auths(d)
                        /\ d[i].type = "RESULT" => i \in Results(d)
  BY <1>3, Zenon DEF Auths, Results
<1>8. \A i \in 1 .. h : \A j \in Nat \ {0} : i # j + h
  OBVIOUS
<1>9. ASSUME NEW i \in 1 .. h, d[i].type = "AUTH"
      PROVE  Auths(e) = {} /\ Auths(u) = {} /\ ~s.authenticated
  <2>1. i \in Auths(d)
    BY <1>7, <1>9, Zenon
  <2>2. \A j \in Auths(d) : i = j
    BY <2>1, Zenon DEF Talk, OneSession
  <2>3. Auths(e) = {}
    <3> SUFFICES ASSUME NEW j \in Auths(e) PROVE FALSE
      BY Zenon
    <3>1. j \in DOMAIN e
      BY Zenon DEF Auths
    <3> QED
      BY <1>2, <1>6, <1>8, <2>2, <3>1, Zenon
  <2> QED
    BY <2>1, <2>3, Zenon DEF Talk, OneSession
<1>10. ASSUME b.authenticated
       PROVE  k.authenticated /\ b.session = k.session /\ Auths(u) = {} /\ Auths(e) = {}
  <2>1. CASE ~Has(d, h, "AUTH") /\ b.authenticated = s.authenticated /\ b.session = s.session
    <3>1. s.authenticated
      BY <1>10, <2>1, Zenon
    <3>2. Auths(e) = {}
      BY <1>6, <3>1, Zenon DEF Talk, OneSession
    <3> QED
      BY <1>4, <2>1, <3>1, <3>2, Zenon DEF Talk, OneSession
  <2>2. CASE \E i \in 1 .. h : /\ d[i].type = "AUTH" /\ b.authenticated = d[i].ok
                               /\ d[i].ok => b.session = d[i].session
    <3>1. PICK i \in 1 .. h : /\ d[i].type = "AUTH" /\ b.authenticated = d[i].ok
                              /\ d[i].ok => b.session = d[i].session
      BY <2>2, Zenon
    <3>2. i \in Auths(d) /\ d[i].ok /\ b.session = d[i].session
      BY <1>7, <1>10, <3>1, Zenon
    <3>3. k.authenticated /\ d[i].session = k.session
      BY <3>2, Zenon DEF Talk, OneSession
    <3> QED
      BY <1>9, <3>1, <3>2, <3>3, Zenon
  <2> QED
    BY <1>5, <2>1, <2>2, Zenon DEF Follows
<1>11. ASSUME ~b.authenticated PROVE p = "auth"
  <2> SUFFICES ASSUME p = "waiting" PROVE FALSE
    BY Zenon
  <2>1. s.authenticated
    BY Zenon DEF Talk, Stages
  <2>2. ~Has(d, h, "AUTH")
    BY <1>9, <2>1, Zenon DEF Has
  <2> QED
    BY <1>5, <1>11, <2>1, <2>2, ZenonT(30) DEF Follows, Has
<1>12. p = "auth" => ~b.waiting
  BY <1>5, Zenon DEF Talk, Stages, Follows
<1>13. Stages(l, u, e, r, b, k, c \in cs)
  BY <1>4, <1>11, <1>12, Zenon DEF Stages
<1>14. ~k.authenticated => Results(e) = {} /\ b.database = "qindb"
  <2> SUFFICES ASSUME ~k.authenticated PROVE Results(e) = {} /\ b.database = "qindb"
    BY Zenon
  <2>1. Results(d) = {} /\ s.database = "qindb"
    BY <1>4, Zenon DEF Talk, OneSession
  <2>2. Results(e) = {}
    BY <1>6, <2>1, Zenon
  <2>3. ~Has(d, h, "RESULT")
    BY <1>7, <2>1, Zenon DEF Has
  <2> QED
    BY <1>5, <2>1, <2>2, <2>3, Zenon DEF Follows, Has
<1>15. \A i \in Auths(e) : /\ ~b.authenticated
                           /\ e[i].ok => k.authenticated /\ e[i].session = k.session
                           /\ \A j \in Auths(e) : i = j
  <2> TAKE i \in Auths(e)
  <2>1. i + h \in Auths(d) /\ e[i] = d[i + h] /\ i \in Nat
    BY <1>2, <1>6, Zenon DEF Auths
  <2>2. \A j \in Auths(e) : i = j
    <3> TAKE j \in Auths(e)
    <3>1. j + h \in Auths(d) /\ j \in Nat
      BY <1>2, <1>6, Zenon DEF Auths
    <3>2. i + h = j + h
      BY <2>1, <3>1, Zenon DEF Talk, OneSession
    <3> QED
      BY <2>1, <3>1, <3>2
  <2>3. e[i].ok => k.authenticated /\ e[i].session = k.session
    BY <2>1, Zenon DEF Talk, OneSession
  <2> QED
    BY <1>10, <2>2, <2>3, Zenon
<1>16. Auths(u) # {} => DOMAIN u = {1} /\ ~b.authenticated /\ ~k.authenticated /\ Auths(e) = {}
  BY <1>6, <1>10, Zenon DEF Talk, OneSession
<1>17. OneSession(l, u, e, b, k, c \in cs)
  BY <1>10, <1>14, <1>15, <1>16, ZenonT(30) DEF OneSession
<1>18. ASSUME c \notin ls PROVE OneRequest(l, u, e, r, b, k, n)
  <2>1. OneRequest(l, u, d, p, s, k, n)
    BY <1>18, Zenon DEF Talk
  <2>2. CASE Has(d, h, "RESULT")
    <3>1. PICK i \in 1 .. h : d[i].type = "RESULT" /\ b.database = d[i].db
      BY <1>5, <2>2, Zenon DEF Follows
    <3>2. i \in Results(d)
      BY <1>7, <3>1, Zenon
    <3>3. d[i].db = k.database /\ Asked(u) = {} /\ \A j \in Results(d) : i = j
      BY <2>1, <3>2, Zenon DEF OneRequest
    <3>4. Results(e) = {}
      <4> SUFFICES ASSUME NEW j \in Results(e) PROVE FALSE
        BY Zenon
      <4>1. j \in Nat \ {0}
        BY <1>2, Zenon DEF Results
      <4> QED
        BY <1>6, <1>8, <3>3, <4>1, Zenon
    <3> QED
      BY <3>1, <3>3, <3>4, Zenon DEF OneRequest
  <2>3. CASE ~Has(d, h, "RESULT")
    <3>1. b.database = s.database /\ b.waiting = s.waiting
      BY <1>5, <2>3, Zenon DEF Follows, Has
    <3>2. Results(d) = {} => Results(e) = {}
      BY <1>6, Zenon
    <3>3. Results(e) = {} => Results(d) = {}
      <4> SUFFICES ASSUME NEW j \in Results(d), Results(e) = {} PROVE FALSE
        BY Zenon
      <4>1. j \in 1 .. Len(d) /\ d[j].type = "RESULT"
        BY <1>1, Zenon DEF Results
      <4>2. j \notin 1 .. h
        BY <2>3, <4>1, Zenon DEF Has
      <4>3. j - h \in 1 .. Len(d) - h /\ (j - h) + h = j
        BY <1>1, <4>1, <4>2
      <4>4. j - h \in DOMAIN e /\ e[j - h] = d[j]
        BY <1>2, <4>3, Zenon
      <4>5. j - h \in Results(e)
        BY <4>1, <4>4, Zenon DEF Results
      <4> QED
        BY <4>5, Zenon
    <3>4. \A i \in Results(e) : e[i].id = n /\ e[i].db = k.database /\ \A j \in Results(e) : i = j
      <4> TAKE i \in Results(e)
      <4>1. i + h \in Results(d) /\ e[i] = d[i + h] /\ i \in Nat
        BY <1>2, <1>6, Zenon DEF Results
      <4>2. \A j \in Results(e) : i = j
        <5> TAKE j \in Results(e)
        <5>1. j + h \in Results(d) /\ j \in Nat
          BY <1>2, <1>6, Zenon DEF Results
        <5>2. i + h = j + h
          BY <2>1, <4>1, <5>1, Zenon DEF OneRequest
        <5> QED
          BY <4>1, <5>1, <5>2
      <4> QED
        BY <2>1, <4>1, <4>2, Zenon DEF OneRequest
    <3>5. p = "waiting" => r = "waiting"
      BY <3>1, Zenon DEF Talk, Stages
    <3> QED
      BY <2>1, <3>1, <3>2, <3>3, <3>4, <3>5, ZenonT(30) DEF OneRequest
  <2> QED
    BY <2>2, <2>3, Zenon
<1>19. \A i \in DOMAIN e : e[i].type \in {"AUTH", "RESULT", "ERROR"}
  BY <1>2, Zenon DEF Talk
<1>20. IsClient(b)
  BY <1>5, Zenon DEF Follows
<1> QED
  BY <1>2, <1>13, <1>17, <1>18, <1>19, <1>20, Zenon DEF Talk

\* A queue with one more message.
IsAppended(d, m, e) ==
  /\ IsSeq(e) /\ Len(d) \in Nat /\ DOMAIN d = 1 .. Len(d) /\ DOMAIN e = 1 .. Len(d) + 1
  /\ e[Len(d) + 1] = m /\ \A i \in DOMAIN d : e[i] = d[i]
  /\ \A i \in DOMAIN e : e[i].type \in {"AUTH", "RESULT", "ERROR"}
  /\ Auths(e) = Auths(d) \cup (IF m.type = "AUTH" THEN {Len(d) + 1} ELSE {})
  /\ Results(e) = Results(d) \cup (IF m.type = "RESULT" THEN {Len(d) + 1} ELSE {})

\* Append adds the one.
LEMMA Appended ==
  ASSUME NEW d, IsSeq(d), NEW m, NEW e, e = Append(d, m),
         \A i \in DOMAIN d : d[i].type \in {"AUTH", "RESULT", "ERROR"},
         m.type \in {"AUTH", "RESULT", "ERROR"}
  PROVE  IsAppended(d, m, e)
<1>1. /\ IsSeq(e) /\ Len(d) \in Nat /\ DOMAIN d = 1 .. Len(d) /\ DOMAIN e = 1 .. Len(d) + 1
      /\ e[Len(d) + 1] = m /\ \A i \in DOMAIN d : e[i] = d[i]
  BY AppendTo
<1>2. DOMAIN e = DOMAIN d \cup {Len(d) + 1}
  BY <1>1
<1> QED
  BY <1>1, <1>2, Zenon DEF Auths, Results, IsAppended

\* handleAuthRequest: the connection j has the session that the answer m carries.
LEMMA TalkAuthenticated ==
  ASSUME NEW c, NEW l, NEW d, NEW p, NEW k, NEW u, NEW cs, NEW n, NEW ls, NEW s,
         Talk(c, l, u, d, p, s, k, cs, n, ls), u # << >>, Head(u).type = "AUTH", c \in cs,
         NEW j, IF Head(u).known THEN j.authenticated /\ j.database = "qindb" ELSE j = k,
         NEW m, m.type = "AUTH", m.ok = Head(u).known, m.ok => m.session = j.session,
         NEW e, e = IF l \in {"pending", "open"} THEN Append(d, m) ELSE d
  PROVE  Talk(c, l, Tail(u), e, p, s, j, cs, n, ls)
<1>0. IsSeq(u)
  BY Zenon DEF Talk
<1>1. 1 \in DOMAIN u /\ Head(u) = u[1] /\ IsSeq(Tail(u))
  BY <1>0, TailOf, Zenon
<1>2. 1 \in Auths(u)
  BY <1>1, Zenon DEF Auths
<1>3. DOMAIN u = {1} /\ ~s.authenticated /\ ~k.authenticated /\ Auths(d) = {}
  BY <1>2, Zenon DEF Talk, OneSession
<1>4. DOMAIN Tail(u) = {}
  <2> SUFFICES ASSUME NEW i \in DOMAIN Tail(u) PROVE FALSE
    BY Zenon
  <2>1. i \in Nat /\ i + 1 \in DOMAIN u
    BY <1>0, TailOf, Zenon
  <2>2. i \in 1 .. Len(Tail(u)) /\ Len(Tail(u)) \in Nat
    BY <1>1, SeqDomain, Zenon
  <2> QED
    BY <1>3, <2>1, <2>2
<1>5. Auths(Tail(u)) = {} /\ Asked(Tail(u)) = {}
  BY <1>4, Zenon DEF Auths, Asked
<1>6. p # "off" /\ l # "pending"
  BY Zenon DEF Talk, Stages
<1>7. l = "open" => Results(d) = {} /\ s.database = "qindb"
  BY <1>3, Zenon DEF Talk, OneSession
<1>8. CASE l = "open"
  <2>1. e = Append(d, m)
    BY <1>8, Zenon
  <2>2. /\ IsSeq(e) /\ Len(d) \in Nat /\ DOMAIN e = 1 .. Len(d) + 1 /\ e[Len(d) + 1] = m
        /\ \A i \in DOMAIN e : e[i].type \in {"AUTH", "RESULT", "ERROR"}
        /\ Auths(e) = Auths(d) \cup (IF m.type = "AUTH" THEN {Len(d) + 1} ELSE {})
        /\ Results(e) = Results(d) \cup (IF m.type = "RESULT" THEN {Len(d) + 1} ELSE {})
    <3>1. IsSeq(d) /\ \A i \in DOMAIN d : d[i].type \in {"AUTH", "RESULT", "ERROR"}
      BY Zenon DEF Talk
    <3>2. IsAppended(d, m, e)
      BY <2>1, <3>1, Appended, Zenon
    <3> QED
      BY <3>2, Zenon DEF IsAppended
  <2>3. Auths(e) = {Len(d) + 1} /\ Results(e) = {}
    BY <1>3, <1>7, <1>8, <2>2, Zenon
  <2>4. Stages(l, Tail(u), e, p, s, j, c \in cs)
    BY <1>6, <1>8, Zenon DEF Talk, Stages
  <2>5. ~j.authenticated => ~m.ok
    BY <1>3, Zenon
  <2>6. OneSession(l, Tail(u), e, s, j, c \in cs)
    BY <1>3, <1>5, <1>7, <1>8, <2>2, <2>3, <2>5, Zenon DEF OneSession
  <2>7. OneRequest(l, Tail(u), e, p, s, j, n)
    BY <1>3, <1>5, <1>7, <1>8, <2>3, Zenon DEF OneRequest
  <2> QED
    BY <1>1, <2>2, <2>4, <2>6, <2>7, Zenon DEF Talk
<1>9. CASE l # "open"
  <2>1. e = d /\ d = << >>
    BY <1>6, <1>9, Zenon DEF Talk, Stages
  <2>2. Stages(l, Tail(u), e, p, s, j, c \in cs)
    BY <1>6, <1>9, <2>1, Zenon DEF Talk, Stages
  <2>3. OneSession(l, Tail(u), e, s, j, c \in cs)
    BY <1>3, <1>5, <1>6, <1>9, <2>1, EmptyQueue, Zenon DEF OneSession
  <2>4. OneRequest(l, Tail(u), e, p, s, j, n)
    BY <1>5, <1>9, <2>1, EmptyQueue, ZenonT(30) DEF OneRequest
  <2> QED
    BY <1>1, <2>1, <2>2, <2>3, <2>4, EmptyQueue, Zenon DEF Talk
<1> QED
  BY <1>8, <1>9, Zenon

\* handleQueryRequest and handleDatabaseSwitch: an error leaves the connection alone,
\* an answer m tells the database that the connection j has now.
LEMMA TalkAnswered ==
  ASSUME NEW c, NEW l, NEW d, NEW p, NEW k, NEW u, NEW cs, NEW n, NEW ls, NEW s,
         Talk(c, l, u, d, p, s, k, cs, n, ls), u # << >>, Asks(Head(u)), c \in cs,
         NEW j, j.authenticated = k.authenticated, j.session = k.session,
         NEW m, \/ m.type = "ERROR" /\ j = k
                \/ m.type = "RESULT" /\ m.id = Head(u).id /\ m.db = j.database /\ k.authenticated,
         NEW e, e = IF l \in {"pending", "open"} THEN Append(d, m) ELSE d
  PROVE  Talk(c, l, Tail(u), e, p, s, j, cs, n, ls)
<1>0. IsSeq(u)
  BY Zenon DEF Talk
<1>1. /\ 1 \in DOMAIN u /\ Head(u) = u[1] /\ IsSeq(Tail(u))
      /\ \A i \in DOMAIN Tail(u) : i \in Nat /\ i + 1 \in DOMAIN u /\ Tail(u)[i] = u[i + 1]
  BY <1>0, TailOf, Zenon
<1>2. Auths(u) = {}
  <2>1. u[1].type # "AUTH"
    BY <1>1, Zenon DEF Asks
  <2> QED
    BY <2>1, Zenon DEF Talk, OneSession, Auths
<1>3. Auths(Tail(u)) = {}
  BY <1>1, <1>2, Zenon DEF Auths
<1>4. p # "off" /\ l # "pending"
  BY Zenon DEF Talk, Stages
<1>5. \A i \in DOMAIN Tail(u) : 1 < i + 1
  <2> TAKE i \in DOMAIN Tail(u)
  <2>1. i \in 1 .. Len(Tail(u)) /\ Len(Tail(u)) \in Nat
    BY <1>1, SeqDomain, Zenon
  <2> QED
    BY <2>1
<1>6. ASSUME c \notin ls
      PROVE  /\ Asked(Tail(u)) = {} /\ Results(d) = {} /\ Head(u).id = n
             /\ p = "waiting"
  <2>1. OneRequest(l, u, d, p, s, k, n)
    BY <1>6, ZenonT(30) DEF Talk
  <2>2. 1 \in Asked(u)
    BY <1>1, ZenonT(30) DEF Asked
  <2>3. Asked(Tail(u)) = {}
    <3> SUFFICES ASSUME NEW i \in Asked(Tail(u)) PROVE FALSE
      BY Zenon
    <3>1. i \in DOMAIN Tail(u) /\ i + 1 \in Asked(u)
      BY <1>1, Zenon DEF Asked
    <3>2. 1 = i + 1
      BY <2>1, <2>2, <3>1, Zenon DEF OneRequest
    <3> QED
      BY <1>5, <3>1, <3>2
  <2> QED
    BY <1>1, <2>1, <2>2, <2>3, Zenon DEF OneRequest
<1>7. CASE l = "open"
  <2>1. e = Append(d, m) /\ m.type \in {"AUTH", "RESULT", "ERROR"}
    BY <1>7, ZenonT(30)
  <2>2. /\ IsSeq(e) /\ Len(d) \in Nat /\ DOMAIN d = 1 .. Len(d) /\ e[Len(d) + 1] = m
        /\ \A i \in DOMAIN d : e[i] = d[i]
        /\ \A i \in DOMAIN e : e[i].type \in {"AUTH", "RESULT", "ERROR"}
        /\ Auths(e) = Auths(d) \cup (IF m.type = "AUTH" THEN {Len(d) + 1} ELSE {})
        /\ Results(e) = Results(d) \cup (IF m.type = "RESULT" THEN {Len(d) + 1} ELSE {})
    <3>1. IsSeq(d) /\ \A i \in DOMAIN d : d[i].type \in {"AUTH", "RESULT", "ERROR"}
      BY Zenon DEF Talk
    <3>2. IsAppended(d, m, e)
      BY <2>1, <3>1, Appended, Zenon
    <3> QED
      BY <3>2, Zenon DEF IsAppended
  <2>3. Auths(e) = Auths(d) /\ \A i \in Auths(d) : e[i] = d[i]
    BY <2>2, Zenon DEF Auths
  <2>4. Stages(l, Tail(u), e, p, s, j, c \in cs)
    BY <1>4, <1>7, Zenon DEF Talk, Stages
  <2>5. ~j.authenticated => Results(e) = {} /\ s.database = "qindb"
    BY <1>7, <2>2, Zenon DEF Talk, OneSession
  <2>6. OneSession(l, Tail(u), e, s, j, c \in cs)
    BY <1>3, <2>3, <2>5, ZenonT(30) DEF Talk, OneSession
  <2>7. ASSUME c \notin ls PROVE OneRequest(l, Tail(u), e, p, s, j, n)
    <3>1. CASE m.type = "ERROR" /\ j = k
      <4>1. Results(e) = {}
        BY <1>6, <2>2, <2>7, <3>1, Zenon
      <4> QED
        BY <1>6, <2>7, <3>1, <4>1, Zenon DEF Talk, OneRequest
    <3>2. CASE m.type = "RESULT" /\ m.id = Head(u).id /\ m.db = j.database
      <4>1. Results(e) = {Len(d) + 1}
        BY <1>6, <2>2, <2>7, <3>2, Zenon
      <4> QED
        BY <1>6, <2>2, <2>7, <3>2, <4>1, ZenonT(30) DEF OneRequest
    <3> QED
      BY <3>1, <3>2, Zenon
  <2> QED
    BY <1>1, <2>2, <2>4, <2>6, <2>7, Zenon DEF Talk
<1>8. CASE l # "open"
  <2>1. e = d /\ d = << >>
    BY <1>4, <1>8, ZenonT(30) DEF Talk, Stages
  <2>2. Stages(l, Tail(u), e, p, s, j, c \in cs)
    BY <1>4, <1>8, <2>1, Zenon DEF Talk, Stages
  <2>3. OneSession(l, Tail(u), e, s, j, c \in cs)
    BY <1>3, <1>4, <1>8, <2>1, EmptyQueue, Zenon DEF Talk, OneSession
  <2>4. ASSUME c \notin ls PROVE OneRequest(l, Tail(u), e, p, s, j, n)
    BY <1>6, <1>8, <2>1, <2>4, EmptyQueue, ZenonT(30) DEF OneRequest
  <2> QED
    BY <1>1, <2>1, <2>2, <2>3, <2>4, EmptyQueue, Zenon DEF Talk
<1> QED
  BY <1>7, <1>8, Zenon

-----------------------------------------------------------------------------
\* The conversations of all clients.

\* Every client has a link, two queues, a program and a ClientManager.
Paired ==
  /\ DOMAIN link = Clients /\ DOMAIN up = Clients /\ DOMAIN down = Clients
  /\ DOMAIN phase = Clients /\ DOMAIN client = Clients /\ DOMAIN asked = Clients

\* The server's connections.
Typed ==
  /\ conn \in [Clients -> [session : Nat, authenticated : BOOLEAN, database : Databases \cup {""}]]
  /\ \A c \in Clients : conn[c].authenticated => conn[c].database \in Databases
  /\ nextSessionId \in Nat
  /\ connections \subseteq Clients

\* The conversation of c, from both ends.
Talks(c) ==
  Talk(c, link[c], up[c], down[c], phase[c], client[c], conn[c], connections, asked[c], late)

\* There are no more connections than there may be.
Counted ==
  /\ IsFiniteSet(connections) /\ maxConnections \in Nat
  /\ Cardinality(connections) <= maxConnections

\* A session is given once.
Apart ==
  /\ \A c \in Clients : conn[c].authenticated => conn[c].session < nextSessionId
  /\ \A c, e \in Clients :
       conn[c].authenticated /\ conn[e].authenticated /\ conn[c].session = conn[e].session => c = e

\* The rows are where the prompts said.
Placed ==
  /\ DOMAIN rows = Databases
  /\ \A d \in Databases : \A r \in rows[d] :
       /\ r = [createTxnId |-> r.createTxnId, deleteTxnId |-> r.deleteTxnId, id |-> r.id]
       /\ r.id.prompt = d \/ r.id.client \in late

\* The inductive invariant: every conversation is one that TCP, the client and the
\* server allow, and what the server keeps agrees with them.
TInv ==
  /\ Paired /\ Typed
  /\ \A c \in Clients : Talks(c)
  /\ Counted
  /\ Apart
  /\ AnswersAreForTheRequest
  /\ Placed

\* A step that has to do with c leaves the other conversations as they are.
Others(c) ==
  /\ Paired'
  /\ late \subseteq late'
  /\ \A e \in Clients \ {c} :
       /\ link'[e] = link[e] /\ up'[e] = up[e] /\ down'[e] = down[e]
       /\ phase'[e] = phase[e] /\ client'[e] = client[e]
       /\ conn'[e] = conn[e] /\ asked'[e] = asked[e]
       /\ e \in connections' <=> e \in connections

\* The others follow from the one.
LEMMA OneMoves ==
  ASSUME \A e \in Clients : Talks(e), NEW c \in Clients, Others(c), Talks(c)'
  PROVE  \A e \in Clients : Talks(e)'
<1> TAKE e \in Clients
<1>1. CASE e = c
  BY <1>1, Zenon
<1>2. CASE e # c
  <2>1. Talk(e, link[e], up[e], down[e], phase[e], client[e], conn[e], connections', asked[e], late')
    <3>1. (e \in connections' <=> e \in connections) /\ (e \in late => e \in late')
      BY <1>2, Zenon DEF Others
    <3> QED
      BY <3>1, TalkSame, ZenonT(30) DEF Talks
  <2> QED
    BY <1>2, <2>1, ZenonT(30) DEF Others, Talks
<1> QED
  BY <1>1, <1>2, Zenon

\* A client connects.
LEMMA ConnectTalks ==
  ASSUME Typed, Paired, NEW c \in Clients, Talks(c), NEW known, Connect(c, known)
  PROVE  Others(c) /\ Talks(c)'
<1>1. Others(c)
  BY Zenon DEF Others, Paired, Typed, Connect, serverVars
<1>2. Talk(c, "none", up[c], down[c], "off", client[c], conn[c], connections, asked[c], late)
  BY Zenon DEF Talks, Talk, Stages, Connect
<1>3. Talk(c, "pending", <<AuthRequest(known)>>, down[c], "auth", [client[c] EXCEPT !.connected = TRUE],
           conn[c], connections, asked[c], late)
  BY <1>2, TalkStarts, Zenon
<1>4. /\ link'[c] = "pending" /\ up'[c] = <<AuthRequest(known)>> /\ phase'[c] = "auth"
      /\ client'[c] = [client[c] EXCEPT !.connected = TRUE]
      /\ UNCHANGED <<down, conn, connections, asked, late>>
  BY Zenon DEF Paired, Typed, Connect, serverVars
<1> QED
  BY <1>1, <1>3, <1>4, Zenon DEF Talks

\* A client cannot connect.
LEMMA ConnectFailsTalks ==
  ASSUME Typed, Paired, NEW c \in Clients, Talks(c), ConnectFails(c)
  PROVE  Others(c) /\ Talks(c)'
<1>1. Others(c)
  BY ZenonT(30) DEF Others, Paired, Typed, ConnectFails, serverVars, networkVars
<1>2. Talk(c, link[c], up[c], down[c], "off", client[c], conn[c], connections, asked[c], late)
  BY Zenon DEF Talks, ConnectFails
<1>3. Talk(c, link[c], up[c], down[c], "ended", client[c], conn[c], connections, asked[c], late)
  BY <1>2, TalkNeverStarts, Zenon
<1>4. phase'[c] = "ended" /\ UNCHANGED <<link, up, client, down, conn, connections, asked, late>>
  BY Zenon DEF Paired, ConnectFails, serverVars, networkVars
<1> QED
  BY <1>1, <1>3, <1>4, Zenon DEF Talks

\* A client gives up or exits.
LEMMA LeavesTalks ==
  ASSUME Typed, Paired, NEW c \in Clients, Talks(c), AuthTimeout(c) \/ Exit(c)
  PROVE  Others(c) /\ Talks(c)'
<1>1. phase[c] \in {"auth", "prompt"} /\ Leaves(c)
  BY Zenon DEF AuthTimeout, Exit
<1>2. Others(c)
  BY <1>1, Zenon DEF Others, Paired, Typed, Leaves, serverVars
<1>3. PICK r : r = IF link[c] \in {"pending", "open"} THEN "left" ELSE link[c]
  BY Zenon
<1>4. Talk(c, r, up[c], << >>, "ended", NewClient, conn[c], connections, asked[c], late)
  BY <1>1, <1>3, TalkLeft, ZenonT(30) DEF Talks
<1>5. /\ link'[c] = r /\ down'[c] = << >> /\ phase'[c] = "ended" /\ client'[c] = NewClient
      /\ UNCHANGED <<up, conn, connections, asked, late>>
  BY <1>1, <1>3, Zenon DEF Paired, Leaves, serverVars, Delivers
<1> QED
  BY <1>2, <1>4, <1>5, Zenon DEF Talks

\* A connection faults, or is turned away.
LEMMA BrokenTalks ==
  ASSUME Typed, Paired, NEW c \in Clients, Talks(c), Break(c) \/ TurnAway(c)
  PROVE  Others(c) /\ Talks(c)'
<1>1. CASE Break(c)
  <2>1. Others(c)
    BY <1>1, Zenon DEF Others, Paired, Typed, Break, serverVars, clientVars
  <2>2. Talk(c, "broken", << >>, << >>, phase[c], client[c], conn[c], connections, asked[c], late)
    BY <1>1, TalkBroken, ZenonT(30) DEF Talks, Break
  <2>3. /\ link'[c] = "broken" /\ up'[c] = << >> /\ down'[c] = << >>
        /\ UNCHANGED <<phase, client, conn, connections, asked, late>>
    BY <1>1, ZenonT(30) DEF Paired, Typed, Break, serverVars, clientVars
  <2> QED
    BY <2>1, <2>2, <2>3, Zenon DEF Talks
<1>2. CASE TurnAway(c)
  <2>1. Others(c)
    BY <1>2, Zenon DEF Others, Paired, Typed, TurnAway, serverVars, clientVars
  <2>2. Talk(c, "closed", << >>, << >>, phase[c], client[c], conn[c], connections, asked[c], late)
    BY <1>2, TalkBroken, ZenonT(30) DEF Talks, TurnAway
  <2>3. down[c] = << >>
    BY <1>2, ZenonT(30) DEF Talks, Talk, Stages, TurnAway
  <2>4. /\ link'[c] = "closed" /\ up'[c] = << >>
        /\ UNCHANGED <<down, phase, client, conn, connections, asked, late>>
    BY <1>2, ZenonT(30) DEF Paired, Typed, TurnAway, serverVars, clientVars
  <2> QED
    BY <2>1, <2>2, <2>3, <2>4, ZenonT(30) DEF Talks
<1> QED
  BY <1>1, <1>2, Zenon

\* A connection is accepted.
LEMMA AcceptTalks ==
  ASSUME Typed, Paired, NEW c \in Clients, Talks(c), Accept(c)
  PROVE  Others(c) /\ Talks(c)'
<1>1. Others(c)
  BY ZenonT(30) DEF Others, Paired, Typed, Accept, clientVars
<1>2. Talk(c, "open", up[c], down[c], phase[c], client[c], conn[c], connections \cup {c}, asked[c], late)
  BY TalkAccepted, Zenon DEF Talks, Accept
<1>3. /\ link'[c] = "open" /\ connections' = connections \cup {c}
      /\ UNCHANGED <<up, down, phase, client, conn, asked, late>>
  BY Zenon DEF Paired, Accept, clientVars
<1> QED
  BY <1>1, <1>2, <1>3, ZenonT(30) DEF Talks

\* The server forgets a connection.
LEMMA ForgottenTalks ==
  ASSUME Typed, Paired, NEW c \in Clients, Talks(c), OnClientDisconnected(c)
  PROVE  Others(c) /\ Talks(c)'
<1>1. Others(c)
  BY ZenonT(30) DEF Others, Paired, Typed, OnClientDisconnected, clientVars, networkVars
<1>2. Talk(c, link[c], << >>, down[c], phase[c], client[c], NewConnection, connections \ {c}, asked[c], late)
  BY TalkForgotten, Zenon DEF Talks, OnClientDisconnected
<1>3. /\ up[c] = << >> /\ conn'[c] = NewConnection /\ connections' = connections \ {c}
      /\ UNCHANGED <<link, up, down, phase, client, asked, late>>
  BY Zenon DEF Typed, OnClientDisconnected, clientVars, networkVars
<1> QED
  BY <1>1, <1>2, <1>3, ZenonT(30) DEF Talks

\* A client learns that its connection has ended.
LEMMA DisconnectedTalks ==
  ASSUME Typed, Paired, NEW c \in Clients, Talks(c), OnDisconnectedClient(c)
  PROVE  Others(c) /\ Talks(c)'
<1>1. Others(c)
  BY Zenon DEF Others, Paired, Typed, OnDisconnectedClient, serverVars, networkVars
<1> DEFINE t == [client[c] EXCEPT !.connected = FALSE, !.authenticated = FALSE, !.session = NoSession]
<1>2. Talk(c, link[c], up[c], down[c], phase[c], t, conn[c], connections, asked[c], late)
  BY TalkDisconnected, ZenonT(30) DEF Talks, OnDisconnectedClient, Processing
<1>3. client'[c] = t /\ UNCHANGED <<link, up, down, phase, conn, connections, asked, late>>
  BY Zenon DEF Paired, OnDisconnectedClient, serverVars, networkVars
<1> QED
  BY <1>1, <1>2, <1>3, Zenon DEF Talks

\* A client stops waiting.
LEMMA TimeoutTalks ==
  ASSUME Typed, Paired, NEW c \in Clients, Talks(c), Timeout(c)
  PROVE  Others(c) /\ Talks(c)'
<1>1. Others(c)
  BY Zenon DEF Others, Paired, Typed, Timeout, serverVars
<1>2. PICK t : t = [client[c] EXCEPT !.waiting = FALSE]
  BY Zenon
<1>3. late \subseteq late' /\ (c \in late' \/ ~Outstanding(c))
  BY Zenon DEF Timeout
<1>4. Talk(c, link[c], up[c], down[c], "prompt", t, conn[c], connections, asked[c], late')
  <2>1. \/ c \in late'
        \/ /\ ~\E i \in DOMAIN up[c] : up[c][i].id = asked[c]
           /\ ~\E i \in DOMAIN down[c] : down[c][i].type = "RESULT" /\ down[c][i].id = asked[c]
    BY <1>3, Zenon DEF Outstanding
  <2>2. Talk(c, link[c], up[c], down[c], "waiting", client[c], conn[c], connections, asked[c], late)
    BY Zenon DEF Talks, Timeout
  <2> QED
    BY <1>2, <1>3, <2>1, <2>2, TalkTimesOut, Zenon
<1>5. client'[c] = t /\ phase'[c] = "prompt" /\ UNCHANGED <<link, up, down, conn, connections, asked>>
  BY <1>2, Zenon DEF Paired, Timeout, serverVars
<1> QED
  BY <1>1, <1>4, <1>5, Zenon DEF Talks

\* A user types something.
LEMMA RequestTalks ==
  ASSUME Typed, Paired, NEW c \in Clients, Talks(c), NEW request \in Requests, Request(c, request)
  PROVE  Others(c) /\ Talks(c)'
<1>1. Others(c)
  BY Zenon DEF Others, Paired, Typed, Request, Send, serverVars
<1>2. PICK m : m = [type |-> request.type, sql |-> request.sql, db |-> request.db,
                    session |-> client[c].session, id |-> asked[c] + 1,
                    prompt |-> client[c].database]
  BY Zenon
<1>3. PICK v : v = IF link[c] \in {"pending", "open"} THEN Append(up[c], m) ELSE up[c]
  BY Zenon
<1>4. PICK t : t = [client[c] EXCEPT !.waiting = TRUE]
  BY Zenon
<1>5. Talk(c, link[c], v, down[c], "waiting", t, conn[c], connections, asked[c] + 1, late)
  <2>1. Asks(m) /\ m.id = asked[c] + 1 /\ m.prompt = client[c].database
    BY <1>2, Zenon DEF Asks, Requests
  <2>3. Talk(c, link[c], up[c], down[c], phase[c], client[c], conn[c], connections, asked[c], late)
    BY ZenonT(30) DEF Talks
  <2>4. phase[c] = "prompt" /\ client[c].authenticated
    BY Zenon DEF Request
  <2> QED
    BY <1>3, <1>4, <2>1, <2>3, <2>4, TalkAsks, ZenonT(30)
<1>6. /\ up'[c] = v /\ client'[c] = t /\ phase'[c] = "waiting" /\ asked'[c] = asked[c] + 1
      /\ UNCHANGED <<link, down, conn, connections, late>>
  BY <1>2, <1>3, <1>4, Zenon DEF Paired, Typed, Request, Send, Delivers, serverVars
<1> QED
  BY <1>1, <1>5, <1>6, ZenonT(30) DEF Talks

\* A client handles the messages that have come (onReadyRead of the client).
LEMMA ReceiveTalks ==
  ASSUME Typed, Paired, NEW c \in Clients, Talks(c), NEW h \in Nat \ {0}, Receive(c, h)
  PROVE  Others(c) /\ Talks(c)'
<1>1. PICK b : b = Handled(client[c], down[c], h)
  BY Zenon
<1>2. PICK e : e = SubSeq(down[c], h + 1, Len(down[c]))
  BY Zenon
<1>3. PICK r : r = IF b.authenticated /\ ~b.waiting THEN "prompt" ELSE phase[c]
  BY Zenon
<1>4. /\ phase[c] \in {"auth", "waiting"} /\ client[c].connected /\ h <= Len(down[c])
      /\ down' = [down EXCEPT ![c] = e]
      /\ client' = [client EXCEPT ![c] = b]
      /\ phase' = IF b.authenticated /\ ~b.waiting THEN [phase EXCEPT ![c] = "prompt"] ELSE phase
      /\ UNCHANGED <<link, up, conn, connections, asked, late>>
  BY <1>1, <1>2, Zenon DEF Receive, Processing, serverVars
<1>5. Others(c)
  BY <1>4, Zenon DEF Others, Paired, Typed
<1>6. Talk(c, link[c], up[c], e, r, b, conn[c], connections, asked[c], late)
  <2>1. 1 <= h
    OBVIOUS
  <2> QED
    BY <1>1, <1>2, <1>3, <1>4, <2>1, TalkReceives, ZenonT(30) DEF Talks
<1>7. down'[c] = e /\ client'[c] = b /\ phase'[c] = r
  BY <1>3, <1>4, Zenon DEF Paired
<1> QED
  BY <1>4, <1>5, <1>6, <1>7, ZenonT(30) DEF Talks

\* The server answers an AUTH request, and the connection has a session or has none.
LEMMA AuthTalks ==
  ASSUME Typed, Paired, NEW c \in Clients, Talks(c), HandleAuthRequest(c)
  PROVE  Others(c) /\ Talks(c)'
<1>1. PICK m : m = [type |-> "AUTH", ok |-> Head(up[c]).known, session |-> nextSessionId]
  BY Zenon
<1>2. PICK e : e = IF link[c] \in {"pending", "open"} THEN Append(down[c], m) ELSE down[c]
  BY Zenon
<1>3. /\ c \in connections /\ up[c] # << >> /\ Head(up[c]).type = "AUTH"
      /\ up' = [up EXCEPT ![c] = Tail(up[c])]
      /\ down' = IF link[c] \in {"pending", "open"} THEN [down EXCEPT ![c] = e] ELSE down
      /\ IF Head(up[c]).known
         THEN conn' = [conn EXCEPT ![c] = [session |-> nextSessionId, authenticated |-> TRUE,
                                           database |-> "qindb"]]
         ELSE conn' = conn
      /\ UNCHANGED <<link, connections, phase, client, asked, late>>
  BY <1>1, <1>2, ZenonT(30) DEF HandleAuthRequest, Arrived, Answer, Send, Delivers, clientVars
<1>4. Others(c)
  BY <1>3, ZenonT(30) DEF Others, Paired, Typed
<1>5. up'[c] = Tail(up[c]) /\ down'[c] = e
  BY <1>2, <1>3, Zenon DEF Typed, Paired
<1>6. IF Head(up[c]).known
      THEN conn'[c].authenticated /\ conn'[c].database = "qindb" /\ conn'[c].session = nextSessionId
      ELSE conn'[c] = conn[c]
  <2>1. DOMAIN conn = Clients
    BY Zenon DEF Typed
  <2>2. CASE Head(up[c]).known
    <3>1. conn'[c] = [session |-> nextSessionId, authenticated |-> TRUE, database |-> "qindb"]
      BY <1>3, <2>1, <2>2, Zenon
    <3> QED
      BY <2>2, <3>1
  <2>3. CASE ~Head(up[c]).known
    BY <1>3, <2>3, Zenon
  <2> QED
    BY <2>2, <2>3, Zenon
<1>7. Talk(c, link[c], Tail(up[c]), e, phase[c], client[c], conn'[c], connections, asked[c], late)
  <2>1. m.type = "AUTH" /\ m.ok = Head(up[c]).known /\ (m.ok => m.session = conn'[c].session)
    BY <1>1, <1>6, Zenon
  <2>3. Talk(c, link[c], up[c], down[c], phase[c], client[c], conn[c], connections, asked[c], late)
    BY Zenon DEF Talks
  <2>4. IF Head(up[c]).known THEN conn'[c].authenticated /\ conn'[c].database = "qindb" ELSE conn'[c] = conn[c]
    BY <1>6, Zenon
  <2>5. PICK j : j = conn'[c]
    BY Zenon
  <2>6. Talk(c, link[c], Tail(up[c]), e, phase[c], client[c], j, connections, asked[c], late)
    BY <1>2, <1>3, <2>1, <2>3, <2>4, <2>5, TalkAuthenticated, ZenonT(30)
  <2> QED
    BY <2>5, <2>6, Zenon
<1> QED
  BY <1>3, <1>4, <1>5, <1>7, ZenonT(30) DEF Talks

\* The server takes the first request of c, answers it with m, and touches no other
\* connection: m is an error and the connection is as it was, or m carries the request's
\* number and the database that the connection has now.
Answers(c, m) ==
  /\ c \in connections /\ up[c] # << >> /\ Asks(Head(up[c]))
  /\ Answer(c, m)
  /\ \A e \in Clients \ {c} : conn'[e] = conn[e]
  /\ conn'[c].authenticated = conn[c].authenticated /\ conn'[c].session = conn[c].session
  /\ \/ m.type = "ERROR" /\ conn'[c] = conn[c]
     \/ /\ m.type = "RESULT" /\ m.id = Head(up[c]).id
        /\ m.db = conn'[c].database /\ conn[c].authenticated
  /\ UNCHANGED <<link, connections, phase, client, asked, late>>

\* A request leaves the queue, and its answer joins the other one.
LEMMA AnswersTalks ==
  ASSUME Typed, Paired, NEW c \in Clients, Talks(c), NEW m, Answers(c, m)
  PROVE  Others(c) /\ Talks(c)'
<1>1. PICK e : e = IF link[c] \in {"pending", "open"} THEN Append(down[c], m) ELSE down[c]
  BY Zenon
<1>2. /\ up' = [up EXCEPT ![c] = Tail(up[c])]
      /\ down' = IF link[c] \in {"pending", "open"} THEN [down EXCEPT ![c] = e] ELSE down
  BY <1>1, ZenonT(30) DEF Answers, Answer, Send, Delivers
<1>3. Others(c)
  BY <1>2, Zenon DEF Others, Paired, Typed, Answers
<1>4. up'[c] = Tail(up[c]) /\ down'[c] = e
  BY <1>1, <1>2, Zenon DEF Typed, Paired
<1>5. PICK j : j = conn'[c]
  BY Zenon
<1>6. Talk(c, link[c], Tail(up[c]), e, phase[c], client[c], j, connections, asked[c], late)
  <2>2. Talk(c, link[c], up[c], down[c], phase[c], client[c], conn[c], connections, asked[c], late)
    BY ZenonT(30) DEF Talks
  <2>3. /\ j.authenticated = conn[c].authenticated /\ j.session = conn[c].session
        /\ \/ m.type = "ERROR" /\ j = conn[c]
           \/ m.type = "RESULT" /\ m.id = Head(up[c]).id /\ m.db = j.database /\ conn[c].authenticated
        /\ c \in connections /\ up[c] # << >> /\ Asks(Head(up[c]))
    BY <1>5, ZenonT(30) DEF Answers
  <2> QED
    BY <1>1, <2>2, <2>3, TalkAnswered, ZenonT(30)
<1> QED
  BY <1>3, <1>4, <1>5, <1>6, ZenonT(30) DEF Talks, Answers

\* Every handler of a QUERY or a SWITCH request answers it, once and with its own
\* database, or with an error.
LEMMA HandlersAnswer ==
  ASSUME Typed, Paired, NEW c \in Clients,
         \/ HandleSwitch(c) \/ HandleSwitchFails(c) \/ HandleRefused(c) \/ HandleUse(c)
         \/ HandleFails(c) \/ \E sql : Runs(c, sql)
  PROVE  \E m : Answers(c, m)
<1>1. ASSUME HandleSwitch(c) PROVE \E m : Answers(c, m)
  <2>1. PICK m : m = [type |-> "RESULT", db |-> Head(up[c]).db, id |-> Head(up[c]).id]
    BY Zenon
  <2>2. Answer(c, m) /\ UNCHANGED <<link, connections, phase, client, asked, late>>
    BY <1>1, <2>1, Zenon DEF HandleSwitch, Result, clientVars
  <2>3. c \in connections /\ up[c] # << >> /\ Asks(Head(up[c])) /\ conn[c].authenticated
    BY <1>1, Zenon DEF HandleSwitch, Arrived, Asks
  <2>4. /\ \A e \in Clients \ {c} : conn'[e] = conn[e]
        /\ conn'[c].authenticated = conn[c].authenticated /\ conn'[c].session = conn[c].session
        /\ conn'[c].database = Head(up[c]).db
    BY <1>1, Zenon DEF HandleSwitch, Typed
  <2>5. Answers(c, m)
    BY <2>1, <2>2, <2>3, <2>4, ZenonT(30) DEF Answers
  <2> QED
    BY <2>5, Zenon
<1>2. ASSUME HandleSwitchFails(c) \/ HandleRefused(c) \/ HandleFails(c) PROVE \E m : Answers(c, m)
  <2>1. PICK m : m = [type |-> "ERROR", id |-> Head(up[c]).id]
    BY Zenon
  <2>2. Answer(c, m) /\ UNCHANGED <<link, connections, conn, phase, client, asked, late>>
    BY <1>2, <2>1, ZenonT(30) DEF HandleSwitchFails, HandleRefused, HandleFails, Error, clientVars, serverVars
  <2>3. c \in connections /\ up[c] # << >> /\ Asks(Head(up[c]))
    BY <1>2, ZenonT(30) DEF HandleSwitchFails, HandleRefused, HandleFails, Arrived, Asks
  <2>4. Answers(c, m)
    BY <2>1, <2>2, <2>3, Zenon DEF Answers
  <2> QED
    BY <2>4, Zenon
<1>3. ASSUME HandleUse(c) \/ \E sql : Runs(c, sql) PROVE \E m : Answers(c, m)
  <2>1. PICK m : m = [type |-> "RESULT", db |-> conn[c].database, id |-> Head(up[c]).id]
    BY Zenon
  <2>2. Answer(c, m) /\ UNCHANGED <<link, connections, conn, phase, client, asked, late>>
    BY <1>3, <2>1, ZenonT(30) DEF HandleUse, Runs, Result, clientVars, serverVars
  <2>3. c \in connections /\ up[c] # << >> /\ Asks(Head(up[c])) /\ conn[c].authenticated
    BY <1>3, ZenonT(30) DEF HandleUse, Runs, Arrived, Refused, Asks
  <2>4. Answers(c, m)
    BY <2>1, <2>2, <2>3, ZenonT(30) DEF Answers
  <2> QED
    BY <2>4, Zenon
<1> QED
  BY <1>1, <1>2, <1>3, Zenon

\* One step of one client, or of the server with it.
StepOf(c) ==
  \/ \E known \in BOOLEAN : Connect(c, known)
  \/ ConnectFails(c)
  \/ \E request \in Requests : Request(c, request)
  \/ Exit(c)
  \/ Break(c)
  \/ ClientStep(c)
  \/ ServerStep(c)

\* The handlers that run a statement do what Runs says.
LEMMA StatementsRun ==
  ASSUME NEW c, \/ HandleSelect(c) \/ HandleInsert(c) \/ HandleBegin(c)
                \/ HandleCommit(c) \/ HandleRollback(c)
  PROVE  \E sql : Runs(c, sql)
BY Zenon DEF HandleSelect, HandleInsert, HandleBegin, HandleCommit, HandleRollback

\* Whatever happens, the conversation goes on as it may, and the others do not notice.
LEMMA StepTalks ==
  ASSUME Typed, Paired, NEW c \in Clients, Talks(c), StepOf(c)
  PROVE  Others(c) /\ Talks(c)'
<1>1. ASSUME NEW known \in BOOLEAN, Connect(c, known) PROVE Others(c) /\ Talks(c)'
  BY <1>1, ConnectTalks, Zenon
<1>2. ASSUME NEW request \in Requests, Request(c, request) PROVE Others(c) /\ Talks(c)'
  BY <1>2, RequestTalks, Zenon
<1>3. ASSUME NEW k \in 1 .. MaxRequests, Receive(c, k) PROVE Others(c) /\ Talks(c)'
  <2>1. k \in Nat \ {0}
    OBVIOUS
  <2> QED
    BY <1>3, <2>1, ReceiveTalks, Zenon
<1>4. ASSUME \/ ConnectFails(c) \/ Exit(c) \/ Break(c) \/ AuthTimeout(c) \/ Timeout(c)
             \/ OnDisconnectedClient(c) \/ Accept(c) \/ TurnAway(c)
             \/ OnClientDisconnected(c) \/ HandleAuthRequest(c)
      PROVE  Others(c) /\ Talks(c)'
  BY <1>4, ConnectFailsTalks, LeavesTalks, BrokenTalks, TimeoutTalks, DisconnectedTalks, AcceptTalks,
     ForgottenTalks, AuthTalks, Zenon
<1>5. ASSUME \/ HandleSwitch(c) \/ HandleSwitchFails(c) \/ HandleRefused(c) \/ HandleUse(c)
             \/ HandleFails(c) \/ HandleSelect(c) \/ HandleInsert(c)
             \/ HandleBegin(c) \/ HandleCommit(c) \/ HandleRollback(c)
      PROVE  Others(c) /\ Talks(c)'
  <2>1. \E m : Answers(c, m)
    BY <1>5, HandlersAnswer, StatementsRun, Zenon
  <2> QED
    BY <2>1, AnswersTalks, Zenon
<1> QED
  BY <1>1, <1>2, <1>3, <1>4, <1>5, Zenon DEF StepOf, ClientStep, ServerStep

\* The server's connections keep their types.
LEMMA StepTyped ==
  ASSUME Typed, NEW c \in Clients, StepOf(c)
  PROVE  Typed'
<1> DEFINE Conn == [session : Nat, authenticated : BOOLEAN, database : Databases \cup {""}]
<1>1. CASE HandleAuthRequest(c)
  <2>1. "qindb" \in Databases
    BY SessionsAssumption, Zenon
  <2>2. connections' = connections
    BY <1>1, Zenon DEF HandleAuthRequest
  <2>3. CASE Head(up[c]).known
    <3>1. PICK k : k = [session |-> nextSessionId, authenticated |-> TRUE, database |-> "qindb"]
      BY Zenon
    <3>2. k \in Conn /\ k.database = "qindb"
      BY <2>1, <3>1, Zenon DEF Typed
    <3>3. conn' = [conn EXCEPT ![c] = k] /\ nextSessionId' = nextSessionId + 1
      BY <1>1, <2>3, <3>1, Zenon DEF HandleAuthRequest
    <3>8. conn \in [Clients -> Conn] /\ nextSessionId \in Nat
      BY Zenon DEF Typed
    <3>7. nextSessionId' \in Nat
      <4> HIDE DEF Conn
      <4> QED
        BY <3>3, <3>8
    <3>4. conn' \in [Clients -> Conn]
      <4> HIDE DEF Conn
      <4> QED
        BY <3>2, <3>3, <3>8, Zenon
    <3>5. conn'[c] = k /\ \A e \in Clients \ {c} : conn'[e] = conn[e]
      BY <3>3, Zenon DEF Typed
    <3>6. \A e \in Clients : conn'[e].authenticated => conn'[e].database \in Databases
      BY <2>1, <3>2, <3>5, Zenon DEF Typed
    <3> QED
      BY <2>2, <3>4, <3>6, <3>7, Zenon DEF Typed
  <2>4. CASE ~Head(up[c]).known
    BY <1>1, <2>2, <2>4, Zenon DEF HandleAuthRequest, Typed
  <2> QED
    BY <2>3, <2>4, Zenon
<1>2. CASE OnClientDisconnected(c)
  <2>1. NewConnection \in Conn /\ ~NewConnection.authenticated
    BY Zenon DEF NewConnection, NoSession
  <2>2. /\ conn' = [conn EXCEPT ![c] = NewConnection] /\ nextSessionId' = nextSessionId
        /\ connections' = connections \ {c}
    BY <1>2, Zenon DEF OnClientDisconnected
  <2> QED
    BY <2>1, <2>2, Zenon DEF Typed
<1>3. CASE HandleSwitch(c)
  <2>1. PICK k : k = [conn[c] EXCEPT !.database = Head(up[c]).db]
    BY Zenon
  <2>2. /\ conn' = [conn EXCEPT ![c] = k] /\ nextSessionId' = nextSessionId
        /\ connections' = connections /\ Head(up[c]).db \in Databases
    BY <1>3, <2>1, Zenon DEF HandleSwitch, Typed
  <2>3. k \in Conn /\ k.database \in Databases
    BY <2>1, <2>2, Zenon DEF Typed
  <2> QED
    BY <2>2, <2>3, Zenon DEF Typed
<1>4. CASE Accept(c)
  BY <1>4, Zenon DEF Accept, Typed
<1>5. CASE ~HandleAuthRequest(c) /\ ~OnClientDisconnected(c) /\ ~HandleSwitch(c) /\ ~Accept(c)
  <2>1. UNCHANGED <<conn, nextSessionId, connections>>
    BY <1>5, ZenonT(30) DEF StepOf, ClientStep, ServerStep, Connect, ConnectFails, Request, Exit, Break, AuthTimeout,
       Timeout, OnDisconnectedClient, Receive, Leaves, TurnAway, HandleSwitchFails,
       HandleRefused, HandleUse, HandleFails, HandleSelect, HandleInsert, HandleBegin, HandleCommit,
       HandleRollback, Runs, serverVars
  <2> QED
    BY <2>1, Zenon DEF Typed
<1> QED
  BY <1>1, <1>2, <1>3, <1>4, <1>5, Zenon

\* A session is given once: nextSessionId only grows.
LEMMA StepApart ==
  ASSUME Typed, Typed', Apart, NEW c \in Clients, StepOf(c)
  PROVE  Apart'
<1>1. nextSessionId \in Nat /\ \A e \in Clients : conn[e].session \in Nat
  BY Zenon DEF Typed
<1>2. nextSessionId' \in Nat /\ \A e \in Clients : conn'[e].session \in Nat
  BY Zenon DEF Typed
<1>3. CASE HandleAuthRequest(c)
  <2>1. CASE Head(up[c]).known
    <3>1. /\ conn' = [conn EXCEPT ![c] = [session |-> nextSessionId, authenticated |-> TRUE,
                                          database |-> "qindb"]]
          /\ nextSessionId' = nextSessionId + 1
      BY <1>3, <2>1, Zenon DEF HandleAuthRequest
    <3>2. conn'[c].session = nextSessionId /\ \A e \in Clients \ {c} : conn'[e] = conn[e]
      BY <3>1, Zenon DEF Typed
    <3>3. \A e \in Clients \ {c} : conn'[e].authenticated => conn'[e].session < nextSessionId
      BY <3>2, Zenon DEF Apart
    <3>4. \A e \in Clients : conn'[e].authenticated => conn'[e].session < nextSessionId'
      BY <1>1, <1>2, <3>1, <3>2, <3>3
    <3>5. ASSUME NEW d \in Clients, NEW e \in Clients, conn'[d].authenticated, conn'[e].authenticated,
                 conn'[d].session = conn'[e].session
          PROVE  d = e
      BY <1>1, <1>2, <3>2, <3>3, <3>5 DEF Apart
    <3> QED
      BY <3>4, <3>5, Zenon DEF Apart
  <2>2. CASE ~Head(up[c]).known
    BY <1>3, <2>2, Zenon DEF HandleAuthRequest, Apart
  <2> QED
    BY <2>1, <2>2, Zenon
<1>4. CASE OnClientDisconnected(c) \/ HandleSwitch(c)
  <2>1. \A e \in Clients : conn'[e].authenticated =>
           conn[e].authenticated /\ conn'[e].session = conn[e].session
    <3>1. CASE OnClientDisconnected(c)
      <4>1. conn' = [conn EXCEPT ![c] = NewConnection] /\ DOMAIN conn = Clients
        BY <3>1, Zenon DEF OnClientDisconnected, Typed
      <4>2. conn'[c] = NewConnection /\ \A e \in Clients \ {c} : conn'[e] = conn[e]
        BY <4>1, Zenon
      <4>3. ~NewConnection.authenticated
        BY Zenon DEF NewConnection
      <4> QED
        BY <4>2, <4>3, Zenon
    <3>2. CASE HandleSwitch(c)
      <4>1. conn' = [conn EXCEPT ![c].database = Head(up[c]).db]
        BY <3>2, Zenon DEF HandleSwitch
      <4>2. /\ \A e \in Clients \ {c} : conn'[e] = conn[e]
            /\ conn'[c].authenticated = conn[c].authenticated /\ conn'[c].session = conn[c].session
        BY <4>1, Zenon DEF Typed
      <4> QED
        BY <4>2, Zenon
    <3> QED
      BY <1>4, <3>1, <3>2, Zenon
  <2>2. nextSessionId' = nextSessionId
    BY <1>4, Zenon DEF OnClientDisconnected, HandleSwitch
  <2> QED
    BY <1>1, <2>1, <2>2, Zenon DEF Apart
<1>5. CASE ~HandleAuthRequest(c) /\ ~OnClientDisconnected(c) /\ ~HandleSwitch(c)
  <2>1. UNCHANGED <<conn, nextSessionId>>
    BY <1>5, ZenonT(30) DEF StepOf, ClientStep, ServerStep, Connect, ConnectFails, Request, Exit, Break, AuthTimeout,
       Timeout, OnDisconnectedClient, Receive, Leaves, Accept, TurnAway, HandleSwitchFails,
       HandleRefused, HandleUse, HandleFails, HandleSelect, HandleInsert, HandleBegin, HandleCommit,
       HandleRollback, Runs, serverVars
  <2> QED
    BY <2>1, Zenon DEF Apart
<1> QED
  BY <1>3, <1>4, <1>5, Zenon

\* onNewConnection turns a connection away when maxConnections are there.
LEMMA StepCounted ==
  ASSUME Counted, NEW c \in Clients, StepOf(c)
  PROVE  Counted'
<1>1. CASE Accept(c)
  <2>1. /\ connections' = connections \cup {c} /\ maxConnections' = maxConnections
        /\ Cardinality(connections) < maxConnections
    BY <1>1, Zenon DEF Accept, canAcceptConnection
  <2>2. IsFiniteSet(connections) /\ maxConnections \in Nat /\ Cardinality(connections) \in Nat
    BY FS_CardinalityType, Zenon DEF Counted
  <2>3. /\ IsFiniteSet(connections \cup {c})
        /\ \/ Cardinality(connections \cup {c}) = Cardinality(connections)
           \/ Cardinality(connections \cup {c}) = Cardinality(connections) + 1
    BY <2>2, FS_AddElement, Zenon
  <2> QED
    BY <2>1, <2>2, <2>3 DEF Counted
<1>2. CASE OnClientDisconnected(c)
  <2>1. connections' = connections \ {c} /\ maxConnections' = maxConnections
    BY <1>2, Zenon DEF OnClientDisconnected
  <2>2. IsFiniteSet(connections) /\ maxConnections \in Nat /\ Cardinality(connections) \in Nat
    BY FS_CardinalityType, Zenon DEF Counted
  <2>3. /\ IsFiniteSet(connections \ {c})
        /\ \/ Cardinality(connections \ {c}) = Cardinality(connections)
           \/ Cardinality(connections \ {c}) = Cardinality(connections) - 1
    BY <2>2, FS_RemoveElement, Zenon
  <2> QED
    BY <2>1, <2>2, <2>3 DEF Counted
<1>3. CASE ~Accept(c) /\ ~OnClientDisconnected(c)
  <2>1. UNCHANGED <<connections, maxConnections>>
    BY <1>3, ZenonT(30) DEF StepOf, ClientStep, ServerStep, Connect, ConnectFails, Request, Exit, Break, AuthTimeout,
       Timeout, OnDisconnectedClient, Receive, Leaves, TurnAway, HandleAuthRequest, HandleSwitch,
       HandleSwitchFails, HandleRefused, HandleUse, HandleFails, HandleSelect, HandleInsert, HandleBegin,
       HandleCommit, HandleRollback, Runs, serverVars
  <2> QED
    BY <2>1, Zenon DEF Counted
<1> QED
  BY <1>1, <1>2, <1>3, Zenon

\* A client that waited shows only answers to what it asked.
LEMMA StepAnswers ==
  ASSUME AnswersAreForTheRequest, NEW c \in Clients, Talks(c), StepOf(c)
  PROVE  AnswersAreForTheRequest'
<1>1. ASSUME NEW k \in 1 .. MaxRequests, Receive(c, k) PROVE AnswersAreForTheRequest'
  <2>1. late' = late /\ k <= Len(down[c])
    BY <1>1, Zenon DEF Receive
  <2>2. CASE c \in late
    BY <1>1, <2>1, <2>2, Zenon DEF Receive, AnswersAreForTheRequest
  <2>3. CASE c \notin late
    <3>1. \A i \in Results(down[c]) : down[c][i].id = asked[c]
      BY <2>3, ZenonT(30) DEF Talks, Talk, OneRequest
    <3>2. Len(down[c]) \in Nat /\ DOMAIN down[c] = 1 .. Len(down[c])
      BY SeqDomain, ZenonT(30) DEF Talks, Talk
    <3>3. \A i \in 1 .. k : i \in DOMAIN down[c]
      BY <2>1, <3>2
    <3>4. ~\E i \in 1 .. k : down[c][i].type = "RESULT" /\ down[c][i].id # asked[c]
      BY <3>1, <3>3, ZenonT(30) DEF Results
    <3>5. mismatch' = mismatch
      BY <1>1, <3>4, ZenonT(30) DEF Receive
    <3> QED
      BY <2>1, <3>5, Zenon DEF AnswersAreForTheRequest
  <2> QED
    BY <2>2, <2>3, Zenon
<1>2. CASE ~\E k \in 1 .. MaxRequests : Receive(c, k)
  <2>1. mismatch' = mismatch
    BY <1>2, ZenonT(30) DEF StepOf, ClientStep, ServerStep, Connect, ConnectFails, Request, Exit, Break, AuthTimeout,
       Timeout, OnDisconnectedClient, Leaves, Accept, TurnAway, OnClientDisconnected, HandleAuthRequest,
       HandleSwitch, HandleSwitchFails, HandleRefused, HandleUse, HandleFails, HandleSelect,
       HandleInsert, HandleBegin, HandleCommit, HandleRollback, Runs, clientVars
  <2>2. CASE Timeout(c)
    BY <2>1, <2>2, Zenon DEF Timeout, AnswersAreForTheRequest
  <2>3. CASE ~Timeout(c)
    <3>1. late' = late
      BY <1>2, <2>3, ZenonT(30) DEF StepOf, ClientStep, ServerStep, Connect, ConnectFails, Request, Exit, Break,
         AuthTimeout, OnDisconnectedClient, Leaves, Accept, TurnAway, OnClientDisconnected,
         HandleAuthRequest, HandleSwitch, HandleSwitchFails, HandleRefused, HandleUse, HandleFails,
         HandleSelect, HandleInsert, HandleBegin, HandleCommit, HandleRollback, Runs, clientVars
    <3> QED
      BY <2>1, <3>1, Zenon DEF AnswersAreForTheRequest
  <2> QED
    BY <2>2, <2>3, Zenon
<1> QED
  BY <1>1, <1>2, Zenon

\* A row is inserted into the database that the prompt of its client names.
LEMMA StepRows ==
  ASSUME Typed, Placed, NEW c \in Clients, Talks(c), late \subseteq late', StepOf(c)
  PROVE  Placed'
<1>1. CASE HandleInsert(c)
  <2> DEFINE d == conn[c].database
             id == [client |-> c, n |-> Head(up[c]).id, prompt |-> Head(up[c]).prompt]
             txnId == IF InTransaction THEN currentTxn ELSE Len(txns[d]) + 1
  <2>1. PICK r : r = [createTxnId |-> txnId, deleteTxnId |-> INVALID_TXN_ID, id |-> id]
    BY Zenon
  <2>2. rows' = [rows EXCEPT ![d] = rows[d] \cup {r}] /\ Runs(c, "INSERT")
    BY <1>1, <2>1, Zenon DEF HandleInsert, useDatabase
  <2>3. /\ r.id.client = c /\ r.id.prompt = Head(up[c]).prompt
        /\ r = [createTxnId |-> r.createTxnId, deleteTxnId |-> r.deleteTxnId, id |-> r.id]
    BY <2>1, Zenon
  <2> HIDE DEF id, txnId
  <2>4. up[c] # << >> /\ Asks(Head(up[c])) /\ conn[c].authenticated
    BY <2>2, ZenonT(30) DEF Runs, Arrived, Refused, Asks
  <2>5. d \in Databases /\ DOMAIN rows = Databases
    BY <2>4, Zenon DEF Typed, Placed
  <2>6. r.id.prompt = d \/ c \in late
    <3>1. IsSeq(up[c])
      BY ZenonT(30) DEF Talks, Talk
    <3>2. 1 \in DOMAIN up[c] /\ Head(up[c]) = up[c][1]
      BY <2>4, <3>1, TailOf, Zenon
    <3>3. 1 \in Asked(up[c])
      BY <2>4, <3>2, Zenon DEF Asked
    <3>4. c \in late \/ up[c][1].prompt = d
      BY <3>3, ZenonT(30) DEF Talks, Talk, OneRequest
    <3> QED
      BY <2>3, <3>2, <3>4, Zenon
  <2> HIDE DEF d
  <2>7. ASSUME NEW b \in Databases, NEW q \in rows'[b]
        PROVE  /\ q = [createTxnId |-> q.createTxnId, deleteTxnId |-> q.deleteTxnId, id |-> q.id]
               /\ q.id.prompt = b \/ q.id.client \in late
    <3>1. CASE b = d
      <4>1. q \in rows[d] \/ q = r
        BY <2>2, <2>5, <2>7, <3>1, Zenon
      <4> QED
        BY <2>3, <2>5, <2>6, <3>1, <4>1, Zenon DEF Placed
    <3>2. CASE b # d
      <4>1. q \in rows[b]
        BY <2>2, <2>5, <2>7, <3>2, Zenon
      <4> QED
        BY <4>1, Zenon DEF Placed
    <3> QED
      BY <3>1, <3>2, Zenon
  <2>8. DOMAIN rows' = Databases
    BY <2>2, <2>5, Zenon
  <2> QED
    BY <2>7, <2>8, Zenon DEF Placed
<1>2. CASE HandleRollback(c)
  <2> DEFINE d == conn[c].database
             undo == txns[d][currentTxn].undo
             Marked(r) == IF r.id \in undo THEN [r EXCEPT !.deleteTxnId = currentTxn] ELSE r
  <2>1. rows' = [rows EXCEPT ![d] = {Marked(r) : r \in rows[d]}]
    BY <1>2, Zenon DEF HandleRollback, useDatabase
  <2>2. ASSUME NEW b \in Databases, NEW r \in rows[b]
        PROVE  /\ Marked(r).id = r.id
               /\ Marked(r) = [createTxnId |-> Marked(r).createTxnId,
                               deleteTxnId |-> Marked(r).deleteTxnId, id |-> Marked(r).id]
    <3>1. r = [createTxnId |-> r.createTxnId, deleteTxnId |-> r.deleteTxnId, id |-> r.id]
      BY <2>2, Zenon DEF Placed
    <3>2. CASE r.id \in undo
      <4>1. Marked(r) = [createTxnId |-> r.createTxnId, deleteTxnId |-> currentTxn, id |-> r.id]
        BY <3>1, <3>2, Zenon
      <4> HIDE DEF Marked
      <4> QED
        BY <4>1
    <3>3. CASE r.id \notin undo
      <4>1. Marked(r) = r
        BY <3>3, Zenon
      <4> HIDE DEF Marked
      <4> QED
        BY <3>1, <4>1, Zenon
    <3> QED
      BY <3>2, <3>3, Zenon
  <2> HIDE DEF Marked
  <2>3. /\ DOMAIN rows' = Databases
        /\ \A b \in Databases : rows'[b] = IF b = d THEN {Marked(r) : r \in rows[b]} ELSE rows[b]
    BY <2>1, ZenonT(30) DEF Placed
  <2>4. ASSUME NEW b \in Databases, NEW q \in rows'[b]
        PROVE  /\ q = [createTxnId |-> q.createTxnId, deleteTxnId |-> q.deleteTxnId, id |-> q.id]
               /\ \E r \in rows[b] : q.id = r.id
    <3>1. CASE b = d
      <4>1. PICK r \in rows[b] : q = Marked(r)
        BY <2>3, <2>4, <3>1
      <4> QED
        BY <2>2, <4>1, Zenon
    <3>2. CASE b # d
      BY <2>3, <2>4, <3>2, Zenon DEF Placed
    <3> QED
      BY <3>1, <3>2, Zenon
  <2> QED
    BY <2>3, <2>4 DEF Placed
<1>3. CASE ~HandleInsert(c) /\ ~HandleRollback(c)
  <2>1. rows' = rows
    BY <1>3, ZenonT(30) DEF StepOf, ClientStep, ServerStep, Connect, ConnectFails, Request, Exit, Break, AuthTimeout,
       Timeout, OnDisconnectedClient, Receive, Leaves, Accept, TurnAway, OnClientDisconnected,
       HandleAuthRequest, HandleSwitch, HandleSwitchFails, HandleRefused, HandleUse, HandleFails,
       HandleSelect, HandleBegin, HandleCommit, engineVars
  <2> QED
    BY <2>1, Zenon DEF Placed
<1> QED
  BY <1>1, <1>2, <1>3, Zenon

-----------------------------------------------------------------------------

\* It holds when the server starts.
LEMMA InitTInv == Init => TInv
<1> SUFFICES ASSUME Init PROVE TInv
  BY Zenon
<1>1. Paired /\ AnswersAreForTheRequest /\ Placed
  BY Zenon DEF Init, Paired, AnswersAreForTheRequest, Placed
<1>2. Typed /\ Apart
  <2>1. ~NewConnection.authenticated /\ NewConnection.session = 0 /\ NewConnection.database = ""
    BY Zenon DEF NewConnection, NoSession
  <2>2. NewConnection \in [session : Nat, authenticated : BOOLEAN, database : Databases \cup {""}]
    BY Zenon DEF NewConnection, NoSession
  <2>3. \A c \in Clients : conn[c] = NewConnection
    BY Zenon DEF Init
  <2>4. conn \in [Clients -> [session : Nat, authenticated : BOOLEAN, database : Databases \cup {""}]]
    BY <2>2, Zenon DEF Init
  <2>5. nextSessionId \in Nat /\ connections = {}
    BY Zenon DEF Init
  <2> QED
    BY <2>1, <2>3, <2>4, <2>5, Zenon DEF Typed, Apart
<1>3. Counted
  <2>1. connections = {} /\ maxConnections \in Nat
    BY SessionsAssumption, Zenon DEF Init
  <2> QED
    BY <2>1, FS_EmptySet DEF Counted
<1>4. ASSUME NEW c \in Clients PROVE Talks(c)
  <2>1. Talk(c, "none", << >>, << >>, "off", NewClient, NewConnection, {}, 0, {})
    <3>1. ~NewConnection.authenticated
      BY Zenon DEF NewConnection
    <3>2. Stages("none", << >>, << >>, "off", NewClient, NewConnection, c \in {})
      BY <3>1, Zenon DEF Stages
    <3>3. OneSession("none", << >>, << >>, NewClient, NewConnection, c \in {})
      BY NewClientIs, EmptyQueue, Zenon DEF OneSession
    <3>4. OneRequest("none", << >>, << >>, "off", NewClient, NewConnection, 0)
      BY EmptyQueue, Zenon DEF OneRequest
    <3> QED
      BY <3>2, <3>3, <3>4, NewClientIs, EmptyQueue, Zenon DEF Talk
  <2>2. /\ link[c] = "none" /\ up[c] = << >> /\ down[c] = << >> /\ phase[c] = "off"
        /\ client[c] = NewClient /\ conn[c] = NewConnection /\ connections = {} /\ asked[c] = 0
        /\ late = {}
    BY Zenon DEF Init
  <2> QED
    BY <2>1, <2>2, Zenon DEF Talks
<1> QED
  BY <1>1, <1>2, <1>3, <1>4, Zenon DEF TInv

\* Every step of a client, of the server or of the network keeps it.
LEMMA StepTInv == TInv /\ [Next]_vars => TInv'
<1> SUFFICES ASSUME TInv, [Next]_vars PROVE TInv'
  BY Zenon
<1>1. CASE UNCHANGED vars
  <2>1. UNCHANGED <<link, up, down, phase, client, conn, connections, asked, late, maxConnections,
                    nextSessionId, mismatch, rows>>
    BY <1>1, Zenon DEF vars, clientVars, networkVars, serverVars, engineVars
  <2> QED
    BY <2>1, Zenon DEF TInv, Paired, Typed, Talks, Counted, Apart, AnswersAreForTheRequest, Placed
<1>2. ASSUME NEW c \in Clients, StepOf(c) PROVE TInv'
  <2>1. Others(c) /\ Talks(c)'
    BY <1>2, StepTalks, Zenon DEF TInv
  <2>2. \A e \in Clients : Talks(e)'
    BY <2>1, OneMoves, Zenon DEF TInv
  <2>3. Paired' /\ late \subseteq late'
    BY <2>1, Zenon DEF Others
  <2>4. Typed'
    BY <1>2, StepTyped, Zenon DEF TInv
  <2>8. Apart'
    BY <1>2, <2>4, StepApart, Zenon DEF TInv
  <2>5. Counted'
    BY <1>2, StepCounted, Zenon DEF TInv
  <2>6. AnswersAreForTheRequest'
    BY <1>2, StepAnswers, Zenon DEF TInv
  <2>7. Placed'
    BY <1>2, <2>3, StepRows, Zenon DEF TInv
  <2> QED
    BY <2>2, <2>3, <2>4, <2>5, <2>6, <2>7, <2>8, Zenon DEF TInv
<1> QED
  BY <1>1, <1>2, Zenon DEF Next, StepOf

\* The sessions and the connections, as the property states them.
LEMMA TInvApart == TInv => SessionsAreApart
<1> SUFFICES ASSUME TInv PROVE SessionsAreApart
  BY Zenon
<1>1. connections \subseteq Clients
  BY Zenon DEF TInv, Typed
<1>2. Cardinality(connections) <= maxConnections
  BY Zenon DEF TInv, Counted
<1>3. \A c, e \in connections :
        c # e /\ conn[c].authenticated /\ conn[e].authenticated => conn[c].session # conn[e].session
  BY <1>1, Zenon DEF TInv, Apart
<1>4. ASSUME NEW c \in connections, client[c].authenticated PROVE client[c].session = conn[c].session
  BY <1>1, <1>4, ZenonT(30) DEF TInv, Talks, Talk, OneSession
<1> QED
  BY <1>2, <1>3, <1>4, Zenon DEF SessionsAreApart

\* No two connections have the same session, a client that is authenticated has that of
\* its connection, and the server has no more connections than it may: for any number of
\* clients, whatever messages and connections are lost (HandleAuthRequest, Accept).
THEOREM SessionsApart == Spec => []SessionsAreApart
<1>1. TInv => SessionsAreApart
  BY TInvApart, Zenon
<1> QED
  BY <1>1, InitTInv, StepTInv, PTL DEF Spec

\* A client that has waited for all its answers shows every answer under the request it
\* is for, although nothing in it says so (handleMessage of the client).
THEOREM AnswersMatch == Spec => []AnswersAreForTheRequest
<1>1. TInv => AnswersAreForTheRequest
  BY Zenon DEF TInv
<1> QED
  BY <1>1, InitTInv, StepTInv, PTL DEF Spec

\* A row is in the database that the prompt named, whatever other clients switch to and
\* however their statements interleave (handleQueryRequest), unless its client had stopped
\* waiting for an answer.
THEOREM RowsPlaced == Spec => []RowsAreWhereThePromptSaid
<1>1. TInv => RowsAreWhereThePromptSaid
  BY Zenon DEF TInv, Placed, RowsAreWhereThePromptSaid
<1> QED
  BY <1>1, InitTInv, StepTInv, PTL DEF Spec

-----------------------------------------------------------------------------
\* The transactions of the clients.

\* The connections, and the databases the statements run in.
RowsTyped ==
  /\ conn \in [Clients -> [session : Nat, authenticated : BOOLEAN, database : Databases \cup {""}]]
  /\ \A c \in Clients : conn[c].authenticated => conn[c].database \in Databases
  /\ nextSessionId \in Nat
  /\ connections \subseteq Clients
  /\ asked \in [Clients -> Nat]
  /\ DOMAIN up = Clients
  /\ DOMAIN rows = Databases
  /\ mixed \in BOOLEAN

\* The requests of a client are on their way in the order they were typed.
InOrder(queue, last) ==
  /\ IsSeq(queue)
  /\ \A i \in DOMAIN queue : Asks(queue[i]) \/ queue[i].type = "AUTH"
  /\ \A i \in DOMAIN queue : Asks(queue[i]) => queue[i].id \in Nat /\ queue[i].id <= last
  /\ \A i, j \in DOMAIN queue :
       i < j /\ Asks(queue[i]) /\ Asks(queue[j]) => queue[i].id < queue[j].id

\* A row, as far as the proofs need it.
IsRow(r) == r = [createTxnId |-> r.createTxnId, deleteTxnId |-> r.deleteTxnId, id |-> r.id]

\* A row carries a request that is not on its way any more.
RowIsOld(r) ==
  /\ IsRow(r)
  /\ r.id.client \in Clients
  /\ r.id.n \in Nat
  /\ r.id.n <= asked[r.id.client]
  /\ \A i \in DOMAIN up[r.id.client] :
       Asks(up[r.id.client][i]) => r.id.n < up[r.id.client][i].id

QInv ==
  /\ RowsTyped
  /\ \A c \in Clients : InOrder(up[c], asked[c])
  /\ \A d \in Databases : \A r \in rows[d] : RowIsOld(r)
  /\ \A d \in Databases : \A r, q \in rows[d] : r.id = q.id => r = q

-----------------------------------------------------------------------------
\* The transactions of a database, in the states they can be in.
TxnTable(table) ==
  /\ IsSeq(table)
  /\ \A i \in DOMAIN table :
       /\ table[i] = [state |-> table[i].state, undo |-> table[i].undo]
       /\ table[i].state \in {"ACTIVE", "COMMITTED", "ABORTED"}

\* A row belongs to a transaction of its database, and is marked only if that one
\* was rolled back.
RowIsPlaced(r, table) ==
  /\ r = [createTxnId |-> r.createTxnId, deleteTxnId |-> r.deleteTxnId, id |-> r.id]
  /\ r.createTxnId \in DOMAIN table
  /\ r.deleteTxnId # INVALID_TXN_ID =>
       r.deleteTxnId = r.createTxnId /\ table[r.createTxnId].state = "ABORTED"

\* One transaction is active, the one of the owner, and none outside.
OneActive ==
  /\ currentTxn \in Nat
  /\ InTransaction => owner.db \in Databases /\ currentTxn \in DOMAIN txns[owner.db]
  /\ \A d \in Databases : \A i \in DOMAIN txns[d] :
       txns[d][i].state = "ACTIVE" <=> InTransaction /\ d = owner.db /\ i = currentTxn

CommittedIds(d) == {r.id : r \in {q \in rows[d] : txns[d][q.createTxnId].state = "COMMITTED"}}

PendingIds(d) == {r.id : r \in {q \in rows[d] : q.createTxnId = currentTxn}}

\* What was promised, as far as the rows tell.
RowsMatch ==
  /\ promised = [committed |-> promised.committed, pending |-> promised.pending]
  /\ DOMAIN promised.committed = Databases
  /\ \A d \in Databases : CommittedIds(d) = promised.committed[d]
  /\ ~InTransaction => promised.pending = {}
  /\ InTransaction => /\ PendingIds(owner.db) = promised.pending
                      /\ txns[owner.db][currentTxn].undo = promised.pending

KInv ==
  /\ DOMAIN txns = Databases
  /\ \A d \in Databases : TxnTable(txns[d])
  /\ \A d \in Databases : \A r \in rows[d] : RowIsPlaced(r, txns[d])
  /\ OneActive
  /\ RowsMatch

IInv == QInv /\ (~mixed => KInv)

-----------------------------------------------------------------------------
\* How the requests on their way may change: a client's come from before or are
\* newer than all before.
QueueMoves ==
  \A e \in Clients :
    /\ InOrder(up'[e], asked'[e])
    /\ asked'[e] \in Nat /\ asked'[e] >= asked[e]
    /\ \A i \in DOMAIN up'[e] : Asks(up'[e][i]) =>
         up'[e][i].id > asked[e] \/ \E j \in DOMAIN up[e] : up'[e][i] = up[e][j]

\* A step that neither sends nor takes a request.
LEMMA QueueStays == ASSUME QInv, UNCHANGED <<up, asked>> PROVE QueueMoves
<1>1. \A e \in Clients : asked[e] \in Nat /\ InOrder(up[e], asked[e])
  BY Zenon DEF QInv, RowsTyped
<1>2. \A e \in Clients : asked[e] >= asked[e]
  BY <1>1
<1> QED
  BY <1>1, <1>2, Zenon DEF QueueMoves

\* The queue of one client changes and nothing new comes into it.
LEMMA QueueShrinks ==
  ASSUME QInv, NEW c \in Clients, NEW q, InOrder(q, asked[c]),
         \A i \in DOMAIN q : Asks(q[i]) => \E j \in DOMAIN up[c] : q[i] = up[c][j],
         up' = [up EXCEPT ![c] = q], UNCHANGED asked
  PROVE  QueueMoves
<1>1. \A e \in Clients : asked[e] \in Nat /\ InOrder(up[e], asked[e])
  BY Zenon DEF QInv, RowsTyped
<1>2. \A e \in Clients : asked'[e] = asked[e] /\ asked[e] >= asked[e] /\ asked'[e] \in Nat
  BY <1>1
<1>3. up'[c] = q /\ \A e \in Clients \ {c} : up'[e] = up[e]
  BY Zenon DEF QInv, RowsTyped
<1> SUFFICES ASSUME NEW e \in Clients
             PROVE  /\ InOrder(up'[e], asked'[e])
                    /\ asked'[e] \in Nat /\ asked'[e] >= asked[e]
                    /\ \A i \in DOMAIN up'[e] : Asks(up'[e][i]) =>
                         \E j \in DOMAIN up[e] : up'[e][i] = up[e][j]
  BY Zenon DEF QueueMoves
<1>4. CASE e = c
  BY <1>2, <1>3, <1>4
<1>5. CASE e # c
  BY <1>1, <1>2, <1>3, <1>5, Zenon
<1> QED
  BY <1>4, <1>5, Zenon

\* The queue of a connection that was closed.
LEMMA EmptyInOrder == ASSUME NEW n PROVE InOrder(<< >>, n)
<1>1. << >> \in Seq({}) /\ DOMAIN << >> = {}
  OBVIOUS
<1>2. IsSeq(<< >>)
  BY <1>1, SomeSeq, Zenon
<1> QED
  BY <1>1, <1>2, Zenon DEF InOrder

\* Closing the socket loses what was on its way.
LEMMA QueueCleared ==
  ASSUME QInv, NEW c \in Clients, up' = [up EXCEPT ![c] = << >>], UNCHANGED asked
  PROVE  QueueMoves
<1>1. DOMAIN << >> = {}
  OBVIOUS
<1> QED
  BY <1>1, EmptyInOrder, QueueShrinks, Zenon

\* The queue of a connection that has just been opened.
LEMMA AuthInOrder == ASSUME NEW n, NEW known PROVE InOrder(<<AuthRequest(known)>>, n)
<1>1. /\ AuthRequest(known).type = "AUTH"
      /\ ~Asks(AuthRequest(known))
  BY Zenon DEF AuthRequest, Asks
<1>2. <<AuthRequest(known)>> \in Seq({AuthRequest(known)})
  OBVIOUS
<1>3. /\ DOMAIN <<AuthRequest(known)>> = {1}
      /\ <<AuthRequest(known)>>[1] = AuthRequest(known)
  OBVIOUS
<1> QED
  BY <1>1, <1>2, <1>3, SomeSeq, Zenon DEF InOrder

\* A new connection starts with the authentication request alone.
LEMMA QueueConnects ==
  ASSUME QInv, NEW c \in Clients, NEW known, up' = [up EXCEPT ![c] = <<AuthRequest(known)>>],
         UNCHANGED asked
  PROVE  QueueMoves
<1>1. ~Asks(AuthRequest(known))
  BY Zenon DEF AuthRequest, Asks
<1>2. /\ DOMAIN <<AuthRequest(known)>> = {1}
      /\ <<AuthRequest(known)>>[1] = AuthRequest(known)
  OBVIOUS
<1> DEFINE q == <<AuthRequest(known)>>
<1>3. InOrder(q, asked[c]) /\ up' = [up EXCEPT ![c] = q]
  BY AuthInOrder, Zenon
<1>4. \A i \in DOMAIN q : ~Asks(q[i])
  BY <1>1, <1>2, Zenon
<1> HIDE DEF q
<1> QED
  BY <1>3, <1>4, QueueShrinks, Zenon

\* The server takes the first message of a queue.
LEMMA QueueTaken ==
  ASSUME QInv, NEW c \in Clients, up[c] # << >>, up' = [up EXCEPT ![c] = Tail(@)], UNCHANGED asked
  PROVE  QueueMoves
<1> DEFINE q == up[c]
<1>1. InOrder(q, asked[c]) /\ IsSeq(q)
  BY Zenon DEF QInv, InOrder
<1>2. /\ IsSeq(Tail(q))
      /\ \A i \in DOMAIN Tail(q) : i \in Nat /\ i + 1 \in DOMAIN q /\ Tail(q)[i] = q[i + 1]
  BY <1>1, TailOf, Zenon
<1>3. up' = [up EXCEPT ![c] = Tail(q)]
  BY Zenon DEF QInv, RowsTyped
<1>4. \A i, j \in Nat : i < j => i + 1 < j + 1
  OBVIOUS
<1>5. InOrder(Tail(q), asked[c])
  <2> HIDE DEF q
  <2>1. \A i \in DOMAIN Tail(q) : Asks(Tail(q)[i]) \/ Tail(q)[i].type = "AUTH"
    BY <1>1, <1>2, Zenon DEF InOrder
  <2>2. \A i \in DOMAIN Tail(q) : Asks(Tail(q)[i]) =>
           Tail(q)[i].id \in Nat /\ Tail(q)[i].id <= asked[c]
    BY <1>1, <1>2, Zenon DEF InOrder
  <2>3. ASSUME NEW i \in DOMAIN Tail(q), NEW j \in DOMAIN Tail(q), i < j,
               Asks(Tail(q)[i]), Asks(Tail(q)[j])
        PROVE  Tail(q)[i].id < Tail(q)[j].id
    <3>1. i + 1 < j + 1 /\ i + 1 \in DOMAIN q /\ j + 1 \in DOMAIN q
      BY <1>2, <1>4, <2>3, Zenon
    <3>2. Asks(q[i + 1]) /\ Asks(q[j + 1])
      BY <1>2, <2>3, Zenon
    <3>3. q[i + 1].id < q[j + 1].id
      BY <1>1, <3>1, <3>2, Zenon DEF InOrder
    <3> QED
      BY <1>2, <3>3, Zenon
  <2> QED
    BY <1>2, <2>1, <2>2, <2>3, Zenon DEF InOrder
<1>6. \A i \in DOMAIN Tail(q) : \E j \in DOMAIN up[c] : Tail(q)[i] = up[c][j]
  BY <1>2, Zenon
<1> QED
  <2>1. PICK r : r = Tail(q)
    BY Zenon
  <2>2. InOrder(r, asked[c])
    BY <1>5, <2>1, Zenon
  <2>3. up' = [up EXCEPT ![c] = r]
    BY <1>3, <2>1, Zenon
  <2>4. \A i \in DOMAIN r : Asks(r[i]) => \E j \in DOMAIN up[c] : r[i] = up[c][j]
    BY <1>6, <2>1, Zenon
  <2> HIDE DEF q
  <2> QED
    BY <2>2, <2>3, <2>4, QueueShrinks, ZenonT(30)

\* A queue stays in order when the client has asked once more.
LEMMA LaterInOrder ==
  ASSUME NEW q, NEW n \in Nat, InOrder(q, n)
  PROVE  InOrder(q, n + 1)
<1>1. \A k \in Nat : k <= n => k <= n + 1
  OBVIOUS
<1> QED
  BY <1>1, Zenon DEF InOrder

\* The next request goes behind those on their way.
LEMMA AskedInOrder ==
  ASSUME NEW q, NEW n \in Nat, InOrder(q, n), NEW m, Asks(m), m.id = n + 1
  PROVE  InOrder(Append(q, m), n + 1)
<1> DEFINE a == Append(q, m)
<1>1. IsSeq(q)
  BY Zenon DEF InOrder
<1>2. /\ IsSeq(a)
      /\ Len(q) \in Nat
      /\ DOMAIN q = 1..Len(q)
      /\ DOMAIN a = 1..(Len(q) + 1)
      /\ a[Len(q) + 1] = m
      /\ \A i \in DOMAIN q : a[i] = q[i]
  BY <1>1, AppendTo
<1> HIDE DEF a
<1>3. \A i \in DOMAIN a : i \in DOMAIN q \/ i = Len(q) + 1
  BY <1>2
<1>4. \A i \in DOMAIN a : Asks(a[i]) \/ a[i].type = "AUTH"
  BY <1>2, <1>3, Zenon DEF InOrder
<1>5. \A i \in DOMAIN q : Asks(q[i]) => q[i].id \in Nat /\ q[i].id <= n /\ q[i].id < n + 1
  BY DEF InOrder
<1>6. \A i \in DOMAIN a : Asks(a[i]) => a[i].id \in Nat /\ a[i].id <= n + 1
  BY <1>2, <1>3, <1>5
<1>7. ASSUME NEW i \in DOMAIN a, NEW j \in DOMAIN a, i < j, Asks(a[i]), Asks(a[j])
      PROVE  a[i].id < a[j].id
  <2>1. i \in DOMAIN q
    BY <1>2, <1>7
  <2>2. CASE j \in DOMAIN q
    BY <1>2, <1>7, <2>1, <2>2, Zenon DEF InOrder
  <2>3. CASE j = Len(q) + 1
    BY <1>2, <1>5, <1>7, <2>1, <2>3, Zenon
  <2> QED
    BY <1>3, <2>2, <2>3, Zenon
<1> QED
  BY <1>2, <1>4, <1>6, <1>7, Zenon DEF InOrder, a

\* A client types a request; one to a connection that has ended is lost.
LEMMA QueueAsked ==
  ASSUME QInv, NEW c \in Clients, NEW m, Asks(m), m.id = asked[c] + 1,
         up' = Send(up, c, m), asked' = [asked EXCEPT ![c] = @ + 1]
  PROVE  QueueMoves
<1>1. \A e \in Clients : asked[e] \in Nat /\ InOrder(up[e], asked[e])
  BY Zenon DEF QInv, RowsTyped
<1>2. asked'[c] = asked[c] + 1 /\ \A e \in Clients \ {c} : asked'[e] = asked[e]
  BY Zenon DEF QInv, RowsTyped
<1>3. \A n \in Nat : n >= n /\ n + 1 >= n /\ n + 1 > n
  OBVIOUS
<1>4. \A e \in Clients : asked'[e] \in Nat /\ asked'[e] >= asked[e]
  BY <1>1, <1>2, <1>3
<1>5. \A e \in Clients \ {c} : up'[e] = up[e]
  BY Zenon DEF Send, QInv, RowsTyped
<1>6. InOrder(up'[c], asked[c] + 1) /\ \A i \in DOMAIN up'[c] :
        (\E j \in DOMAIN up[c] : up'[c][i] = up[c][j]) \/ up'[c][i].id > asked[c]
  <2>1. CASE Delivers(c)
    <3>1. up'[c] = Append(up[c], m)
      BY <2>1, Zenon DEF Send, QInv, RowsTyped
    <3>2. IsSeq(up[c])
      BY <1>1, Zenon DEF InOrder
    <3>3. /\ DOMAIN up[c] = 1..Len(up[c]) /\ Len(up[c]) \in Nat
          /\ DOMAIN up'[c] = 1..(Len(up[c]) + 1)
          /\ up'[c][Len(up[c]) + 1] = m
          /\ \A i \in DOMAIN up[c] : up'[c][i] = up[c][i]
      BY <3>1, <3>2, AppendTo
    <3>4. \A i \in DOMAIN up'[c] : i \in DOMAIN up[c] \/ i = Len(up[c]) + 1
      BY <3>3
    <3>5. m.id > asked[c]
      BY <1>1, <1>3, Zenon
    <3>6. InOrder(up'[c], asked[c] + 1)
      BY <1>1, <3>1, AskedInOrder, Zenon
    <3> QED
      BY <3>3, <3>4, <3>5, <3>6, Zenon
  <2>2. CASE ~Delivers(c)
    <3>1. up'[c] = up[c]
      BY <2>2, Zenon DEF Send
    <3> QED
      BY <1>1, <3>1, LaterInOrder, Zenon
  <2> QED
    BY <2>1, <2>2, Zenon
<1> SUFFICES ASSUME NEW e \in Clients
             PROVE  /\ InOrder(up'[e], asked'[e])
                    /\ asked'[e] \in Nat /\ asked'[e] >= asked[e]
                    /\ \A i \in DOMAIN up'[e] : Asks(up'[e][i]) =>
                         up'[e][i].id > asked[e] \/ \E j \in DOMAIN up[e] : up'[e][i] = up[e][j]
  BY Zenon DEF QueueMoves
<1>7. CASE e = c
  BY <1>2, <1>4, <1>6, <1>7, Zenon
<1>8. CASE e # c
  BY <1>1, <1>2, <1>4, <1>5, <1>8, Zenon
<1> QED
  BY <1>7, <1>8, Zenon

-----------------------------------------------------------------------------
\* What a step has to keep of the requests and the rows that are there, so that
\* the ids of the rows stay old and apart.
LEMMA RowStaysOld ==
  ASSUME QInv, QueueMoves, NEW r, RowIsOld(r)
  PROVE  RowIsOld(r)'
<1> DEFINE e == r.id.client
           n == r.id.n
<1>1. e \in Clients /\ n \in Nat /\ n <= asked[e] /\ asked[e] \in Nat
  BY Zenon DEF RowIsOld, QInv, RowsTyped
<1>2. /\ InOrder(up'[e], asked'[e])
      /\ asked'[e] \in Nat /\ asked'[e] >= asked[e]
      /\ \A i \in DOMAIN up'[e] : Asks(up'[e][i]) =>
           up'[e][i].id > asked[e] \/ \E j \in DOMAIN up[e] : up'[e][i] = up[e][j]
  BY <1>1, Zenon DEF QueueMoves
<1>3. \A j \in DOMAIN up[e] : Asks(up[e][j]) => n < up[e][j].id
  BY Zenon DEF RowIsOld
<1>4. \A i \in DOMAIN up'[e] : Asks(up'[e][i]) => up'[e][i].id \in Nat
  BY <1>2, Zenon DEF InOrder
<1> HIDE DEF e, n
<1>5. ASSUME NEW i \in DOMAIN up'[e], Asks(up'[e][i])
      PROVE  n < up'[e][i].id
  <2>1. CASE up'[e][i].id > asked[e]
    BY <1>1, <1>4, <1>5, <2>1
  <2>2. CASE \E j \in DOMAIN up[e] : up'[e][i] = up[e][j]
    BY <1>3, <1>5, <2>2, Zenon
  <2> QED
    BY <1>2, <1>5, <2>1, <2>2, Zenon
<1>6. n <= asked'[e]
  BY <1>1, <1>2
<1> QED
  BY <1>1, <1>5, <1>6, Zenon DEF RowIsOld, e, n

\* The requests of the rows are still not on their way after a move of the queues.
LEMMA RowsStayOld ==
  ASSUME QInv, QueueMoves, RowsTyped', rows' = rows
  PROVE  QInv'
<1>1. \A c \in Clients : InOrder(up'[c], asked'[c])
  BY Zenon DEF QueueMoves
<1>2. \A d \in Databases : \A r \in rows[d] : RowIsOld(r)'
  BY RowStaysOld, Zenon DEF QInv
<1> QED
  BY <1>1, <1>2, Zenon DEF QInv

\* The steps of clients and network, and the ones of the server that run no
\* statement.
LEMMA OthersKeepQInv ==
  ASSUME QInv, NEW c \in Clients,
         \/ \E known \in BOOLEAN : Connect(c, known)
         \/ ConnectFails(c)
         \/ \E request \in Requests : Request(c, request)
         \/ Exit(c) \/ Break(c) \/ ClientStep(c)
         \/ Accept(c) \/ TurnAway(c) \/ OnClientDisconnected(c) \/ HandleAuthRequest(c)
         \/ HandleSwitch(c) \/ HandleSwitchFails(c) \/ HandleRefused(c) \/ HandleUse(c)
         \/ HandleFails(c)
  PROVE  QInv' /\ UNCHANGED <<txns, rows, currentTxn, owner, promised, mixed>>
<1> DEFINE Same == UNCHANGED <<txns, rows, currentTxn, owner, promised, mixed>>
           Kept == UNCHANGED <<conn, connections, nextSessionId>>
           Taken == up[c] # << >> /\ up' = [up EXCEPT ![c] = Tail(@)] /\ UNCHANGED asked
<1>1. ASSUME Same, RowsTyped', QueueMoves PROVE QInv' /\ Same
  BY <1>1, RowsStayOld, SMTT(20), Zenon
<1>2. ASSUME Same, Kept, UNCHANGED asked, DOMAIN up' = Clients PROVE RowsTyped'
  BY <1>2, ZenonT(30) DEF QInv, RowsTyped
<1>3. ASSUME UNCHANGED up PROVE DOMAIN up' = Clients
  BY <1>3, Zenon DEF QInv, RowsTyped
<1>4. ASSUME NEW x, up' = [up EXCEPT ![c] = x] PROVE DOMAIN up' = Clients
  BY <1>4, Zenon DEF QInv, RowsTyped
<1>5. ASSUME Same, Kept, UNCHANGED <<up, asked>> PROVE QInv' /\ Same
  BY <1>1, <1>2, <1>3, <1>5, QueueStays, Zenon
<1>6. ASSUME Same, Kept, Taken PROVE QInv' /\ Same
  <2>1. QueueMoves
    BY <1>6, QueueTaken, Zenon
  <2>2. DOMAIN up' = Clients
    BY <1>4, <1>6, Zenon
  <2> QED
    BY <1>1, <1>2, <1>6, <2>1, <2>2, Zenon
<1>7. ASSUME NEW known \in BOOLEAN, Connect(c, known) PROVE QInv' /\ Same
  <2>1. Same /\ Kept /\ UNCHANGED asked /\ up' = [up EXCEPT ![c] = <<AuthRequest(known)>>]
    BY <1>7, Zenon DEF Connect, serverVars, engineVars
  <2>2. QueueMoves
    BY <2>1, QueueConnects, Zenon
  <2> QED
    BY <1>1, <1>2, <1>4, <2>1, <2>2, Zenon
<1>8. CASE ConnectFails(c)
  BY <1>5, <1>8, Zenon DEF ConnectFails, networkVars, serverVars, engineVars
<1>9. ASSUME NEW request \in Requests, Request(c, request) PROVE QInv' /\ Same
  <2> DEFINE m == [type |-> request.type, sql |-> request.sql, db |-> request.db,
                   session |-> client[c].session, id |-> asked[c] + 1,
                   prompt |-> client[c].database]
  <2>1. /\ Same /\ Kept /\ up' = Send(up, c, m)
        /\ asked' = [asked EXCEPT ![c] = @ + 1]
    BY <1>9, SMTT(20), Zenon DEF Request, serverVars, engineVars
  <2>2. Asks(m) /\ m.id = asked[c] + 1
    BY <1>9, Zenon DEF Requests, Asks
  <2> HIDE DEF m
  <2>3. QueueMoves
    BY <2>1, <2>2, QueueAsked, ZenonT(30)
  <2>4. DOMAIN up' = Clients
    BY <2>1, Zenon DEF Send, QInv, RowsTyped
  <2>5. asked' \in [Clients -> Nat]
    <3>1. asked \in [Clients -> Nat]
      BY Zenon DEF QInv, RowsTyped
    <3>2. asked' = [asked EXCEPT ![c] = @ + 1]
      BY <2>1, Zenon
    <3>3. asked[c] + 1 \in Nat
      BY <3>1
    <3> QED
      BY <3>1, <3>2, <3>3, Zenon
  <2>6. RowsTyped'
    BY <2>1, <2>4, <2>5, Zenon DEF QInv, RowsTyped
  <2> QED
    BY <1>1, <2>1, <2>3, <2>6, Zenon
<1>10. CASE Exit(c)
  BY <1>5, <1>10, Zenon DEF Exit, Leaves, serverVars, engineVars
<1>11. CASE Break(c)
  <2>1. Same /\ Kept /\ UNCHANGED asked /\ up' = [up EXCEPT ![c] = << >>]
    BY <1>11, Zenon DEF Break, clientVars, serverVars, engineVars
  <2> QED
    BY <1>1, <1>2, <1>4, <2>1, QueueCleared, Zenon
<1>12. CASE ClientStep(c)
  <2>1. CASE AuthTimeout(c)
    BY <1>5, <2>1, Zenon DEF AuthTimeout, Leaves, serverVars, engineVars
  <2>2. CASE Timeout(c)
    BY <1>5, <2>2, Zenon DEF Timeout, serverVars, engineVars
  <2>3. CASE OnDisconnectedClient(c)
    BY <1>5, <2>3, Zenon DEF OnDisconnectedClient, networkVars, serverVars, engineVars
  <2>4. ASSUME NEW k \in 1 .. MaxRequests, Receive(c, k) PROVE QInv' /\ Same
    BY <1>5, <2>4, Zenon DEF Receive, serverVars, engineVars
  <2> QED
    BY <1>12, <2>1, <2>2, <2>3, <2>4, Zenon DEF ClientStep
<1>13. CASE Accept(c)
  <2>1. /\ Same /\ UNCHANGED <<conn, nextSessionId, up, asked>>
        /\ connections' = connections \cup {c}
    BY <1>13, SMTT(20), Zenon DEF Accept, clientVars, engineVars
  <2>2. RowsTyped'
    BY <2>1, Zenon DEF QInv, RowsTyped
  <2> QED
    BY <1>1, <2>1, <2>2, QueueStays, Zenon
<1>14. CASE TurnAway(c)
  <2>1. Same /\ Kept /\ UNCHANGED asked /\ up' = [up EXCEPT ![c] = << >>]
    BY <1>14, ZenonT(30) DEF TurnAway, clientVars, serverVars, engineVars
  <2> QED
    BY <1>1, <1>2, <1>4, <2>1, QueueCleared, Zenon
<1>15. CASE OnClientDisconnected(c)
  <2>1. /\ Same /\ UNCHANGED <<nextSessionId, up, asked>>
        /\ connections' = connections \ {c}
        /\ conn' = [conn EXCEPT ![c] = NewConnection]
    BY <1>15, Zenon DEF OnClientDisconnected, networkVars, clientVars, engineVars
  <2>2. NewConnection \in [session : Nat, authenticated : BOOLEAN, database : Databases \cup {""}]
        /\ ~NewConnection.authenticated
    BY SMTT(20), Zenon DEF NewConnection, NoSession
  <2>3. RowsTyped'
    BY <2>1, <2>2, Zenon DEF QInv, RowsTyped
  <2> QED
    BY <1>1, <2>1, <2>3, QueueStays, SMTT(20), Zenon
<1>16. ASSUME NEW type, NEW message, Arrived(c, type), Answer(c, message), UNCHANGED asked PROVE Taken
  BY <1>16, Zenon DEF Arrived, Answer
<1>17. CASE HandleAuthRequest(c)
  <2>1. Taken /\ Same /\ UNCHANGED connections
    BY <1>16, <1>17, Zenon DEF HandleAuthRequest, clientVars, engineVars
  <2>2. CASE Head(up[c]).known
    <3>1. /\ conn' = [conn EXCEPT ![c] = [session |-> nextSessionId, authenticated |-> TRUE,
                                          database |-> "qindb"]]
          /\ nextSessionId' = nextSessionId + 1
      BY <1>17, <2>2, Zenon DEF HandleAuthRequest
    <3>2. nextSessionId \in Nat /\ nextSessionId + 1 \in Nat
      <4>1. nextSessionId \in Nat
        BY Zenon DEF QInv, RowsTyped
      <4> QED
        BY <4>1, SMTT(20), Zenon
    <3>3. DOMAIN up' = Clients
      BY <1>4, <2>1, ZenonT(30)
    <3>4. /\ conn' \in [Clients -> [session : Nat, authenticated : BOOLEAN, database : Databases \cup {""}]]
          /\ \A e \in Clients : conn'[e].authenticated => conn'[e].database \in Databases
      BY <3>1, <3>2, SessionsAssumption, Zenon DEF QInv, RowsTyped
    <3>5. RowsTyped'
      BY <2>1, <3>1, <3>2, <3>3, <3>4, ZenonT(30) DEF QInv, RowsTyped
    <3> QED
      BY <1>1, <2>1, <3>5, QueueTaken, Zenon
  <2>3. CASE ~Head(up[c]).known
    BY <1>6, <1>17, <2>1, <2>3, ZenonT(30) DEF HandleAuthRequest
  <2> QED
    BY <2>2, <2>3, SMTT(20), Zenon
<1>18. CASE HandleSwitch(c)
  <2> DEFINE d == Head(up[c]).db
  <2>1. Taken /\ Same /\ UNCHANGED <<connections, nextSessionId>>
    BY <1>16, <1>18, Zenon DEF HandleSwitch, Result, clientVars
  <2>2. conn' = [conn EXCEPT ![c].database = d] /\ d \in Databases
    BY <1>18, Zenon DEF HandleSwitch
  <2>3. DOMAIN up' = Clients
    BY <1>4, <2>1, Zenon
  <2> HIDE DEF d
  <2>4. /\ conn' \in [Clients -> [session : Nat, authenticated : BOOLEAN, database : Databases \cup {""}]]
        /\ \A e \in Clients : conn'[e].authenticated => conn'[e].database \in Databases
    BY <2>2, ZenonT(30) DEF QInv, RowsTyped
  <2>5. RowsTyped'
    BY <2>1, <2>3, <2>4, ZenonT(30) DEF QInv, RowsTyped
  <2> QED
    BY <1>1, <2>1, <2>5, QueueTaken, Zenon
<1>19. CASE HandleSwitchFails(c)
  <2>1. Taken
    BY <1>19, Zenon DEF HandleSwitchFails, Error, Answer, Arrived, clientVars
  <2>2. Same /\ Kept
    BY <1>19, Zenon DEF HandleSwitchFails, serverVars, engineVars
  <2> QED
    BY <1>6, <2>1, <2>2, Zenon
<1>20. CASE HandleRefused(c)
  <2>1. Taken
    BY <1>20, Zenon DEF HandleRefused, Error, Answer, Arrived, clientVars
  <2>2. Same /\ Kept
    BY <1>20, Zenon DEF HandleRefused, serverVars, engineVars
  <2> QED
    BY <1>6, <2>1, <2>2, Zenon
<1>21. CASE HandleUse(c)
  <2>1. Taken
    BY <1>21, Zenon DEF HandleUse, Result, Answer, Arrived, clientVars
  <2>2. Same /\ Kept
    BY <1>21, Zenon DEF HandleUse, serverVars, engineVars
  <2> QED
    BY <1>6, <2>1, <2>2, Zenon
<1>22. CASE HandleFails(c)
  <2>1. Taken
    BY <1>22, Zenon DEF HandleFails, Error, Answer, Arrived, clientVars
  <2>2. Same /\ Kept
    BY <1>22, ZenonT(30) DEF HandleFails, serverVars
  <2> QED
    BY <1>6, <2>1, <2>2, Zenon
<1> QED
  BY <1>7, <1>8, <1>9, <1>10, <1>11, <1>12, <1>13, <1>14, <1>15, <1>17, <1>18, <1>19, <1>20, <1>21, <1>22, Zenon

-----------------------------------------------------------------------------
\* The statements.  Each takes the request of its client and runs in a database.
LEMMA StatementRuns ==
  ASSUME QInv, NEW c \in Clients, NEW sql, Runs(c, sql)
  PROVE  /\ useDatabase(c) \in Databases
         /\ up[c] # << >> /\ Head(up[c]) = up[c][1] /\ 1 \in DOMAIN up[c]
         /\ Asks(up[c][1]) /\ up[c][1].id \in Nat /\ up[c][1].id <= asked[c]
         /\ up' = [up EXCEPT ![c] = Tail(@)] /\ asked' = asked
         /\ QueueMoves
         /\ DOMAIN rows' = Databases => RowsTyped'
<1>1. /\ up[c] # << >> /\ Head(up[c]).type = "QUERY" /\ conn[c].authenticated
      /\ up' = [up EXCEPT ![c] = Tail(@)]
      /\ UNCHANGED <<asked, conn, connections, nextSessionId>>
      /\ mixed' = (mixed \/ Mixes(c, useDatabase(c)))
  BY Zenon DEF Runs, Arrived, Refused, Result, Answer, clientVars, serverVars
<1>2. useDatabase(c) \in Databases
  BY <1>1, ZenonT(30) DEF useDatabase, QInv, RowsTyped
<1>3. InOrder(up[c], asked[c]) /\ IsSeq(up[c])
  BY Zenon DEF QInv, InOrder
<1>4. Head(up[c]) = up[c][1] /\ 1 \in DOMAIN up[c]
  BY <1>1, <1>3, TailOf, Zenon
<1>5. Asks(up[c][1]) /\ up[c][1].id \in Nat /\ up[c][1].id <= asked[c]
  BY <1>1, <1>3, <1>4, Zenon DEF InOrder, Asks
<1>6. QueueMoves
  BY <1>1, QueueTaken, Zenon
<1>7. DOMAIN up' = Clients
  BY <1>1, Zenon DEF QInv, RowsTyped
<1>8. mixed' \in BOOLEAN
  BY <1>1, Zenon
<1>9. DOMAIN rows' = Databases => RowsTyped'
  BY <1>1, <1>7, <1>8, Zenon DEF QInv, RowsTyped
<1> QED
  BY <1>1, <1>2, <1>4, <1>5, <1>6, <1>9, SMTT(20), Zenon

\* The row an INSERT makes has an id that no row has.
NewRow(c) ==
  LET id == [client |-> c, n |-> Head(up[c]).id, prompt |-> Head(up[c]).prompt]
      txnId == IF InTransaction THEN currentTxn ELSE Len(txns[useDatabase(c)]) + 1
  IN  [createTxnId |-> txnId, deleteTxnId |-> INVALID_TXN_ID, id |-> id]

\* The row an INSERT adds carries the request that was taken, which no row has yet.
LEMMA NewRowIsNew ==
  ASSUME QInv, NEW c \in Clients, HandleInsert(c), NEW row, row = NewRow(c)
  PROVE  /\ RowIsOld(row)'
         /\ \A d \in Databases : \A r \in rows[d] : r.id # row.id
<1> DEFINE id == row.id
           q == up[c]
<1>1. Runs(c, "INSERT")
  BY Zenon DEF HandleInsert
<1>2. /\ q # << >> /\ Head(q) = q[1] /\ 1 \in DOMAIN q
      /\ Asks(q[1]) /\ q[1].id \in Nat /\ q[1].id <= asked[c]
      /\ up' = [up EXCEPT ![c] = Tail(q)] /\ asked' = asked
  BY <1>1, StatementRuns, Zenon
<1>3. id.client = c /\ id.n = q[1].id
  BY <1>2, Zenon DEF NewRow
<1>4. ASSUME NEW d \in Databases, NEW r \in rows[d] PROVE r.id # id
  <2>1. RowIsOld(r)
    BY <1>4, Zenon DEF QInv
  <2>2. ASSUME r.id = id PROVE FALSE
    <3>1. r.id.n < q[1].id
      BY <1>2, <1>3, <2>1, <2>2, SMTT(20), Zenon DEF RowIsOld
    <3> QED
      BY <1>2, <1>3, <2>2, <3>1
  <2> QED
    BY <2>2, Zenon
<1>5. InOrder(q, asked[c]) /\ IsSeq(q)
  BY Zenon DEF QInv, InOrder
<1>6. /\ up'[c] = Tail(q)
      /\ \A i \in DOMAIN Tail(q) : i \in Nat /\ i + 1 \in DOMAIN q /\ Tail(q)[i] = q[i + 1]
  BY <1>2, <1>5, TailOf, Zenon DEF QInv, RowsTyped
<1>7. DOMAIN Tail(q) \subseteq 1..Len(q) /\ Len(q) \in Nat
  BY <1>2, <1>5, <1>6, TailOf, SeqDomain
<1>8. ASSUME NEW i \in DOMAIN Tail(q), Asks(Tail(q)[i]) PROVE q[1].id < Tail(q)[i].id
  <2>1. 1 < i + 1
    BY <1>7, <1>8, SMTT(20), Zenon
  <2> QED
    BY <1>2, <1>5, <1>6, <1>8, <2>1, Zenon DEF InOrder
<1> HIDE DEF id, q
<1>9. /\ id.client \in Clients /\ id.n \in Nat /\ id.n <= asked'[id.client]
      /\ \A i \in DOMAIN up'[id.client] : Asks(up'[id.client][i]) => id.n < up'[id.client][i].id
  BY <1>2, <1>3, <1>6, <1>8, SMTT(20), Zenon
<1>10. IsRow(row)
  BY Zenon DEF NewRow, IsRow
<1> QED
  BY <1>4, <1>9, <1>10, Zenon DEF RowIsOld, id

\* INSERT keeps the order of the requests and tells the rows apart.
LEMMA InsertKeepsQInv ==
  ASSUME QInv, NEW c \in Clients, HandleInsert(c)
  PROVE  QInv'
<1> DEFINE d == useDatabase(c)
<1>1. PICK row : row = NewRow(c)
  BY Zenon
<1>2. Runs(c, "INSERT") /\ rows' = [rows EXCEPT ![d] = @ \cup {row}]
  BY <1>1, Zenon DEF HandleInsert, NewRow
<1>3. d \in Databases /\ QueueMoves /\ (DOMAIN rows' = Databases => RowsTyped')
  BY <1>2, StatementRuns, Zenon
<1> HIDE DEF d
<1>4. DOMAIN rows' = Databases
  BY <1>2, <1>3, Zenon DEF QInv, RowsTyped
<1>5. /\ RowIsOld(row)'
      /\ \A e \in Databases : \A r \in rows[e] : r.id # row.id
  BY <1>1, NewRowIsNew, Zenon
<1>6. \A e \in Databases : \A r \in rows[e] : RowIsOld(r)'
  BY <1>3, RowStaysOld, Zenon DEF QInv
<1>7. rows'[d] = rows[d] \cup {row} /\ \A e \in Databases \ {d} : rows'[e] = rows[e]
  BY <1>2, <1>3, Zenon DEF QInv, RowsTyped
<1>8. \A e \in Databases : \A r \in rows'[e] : RowIsOld(r)'
  BY <1>5, <1>6, <1>7, Zenon
<1>9. \A e \in Databases : \A r, q \in rows'[e] : r.id = q.id => r = q
  BY <1>5, <1>7 DEF QInv
<1>10. \A e \in Clients : InOrder(up'[e], asked'[e])
  BY <1>3, Zenon DEF QueueMoves
<1> QED
  BY <1>3, <1>4, <1>8, <1>9, <1>10, Zenon DEF QInv

\* ROLLBACK marks rows, which keep their ids.
LEMMA RollbackKeepsQInv ==
  ASSUME QInv, NEW c \in Clients, HandleRollback(c)
  PROVE  QInv'
<1> DEFINE d == useDatabase(c)
           Marked(r) == IF r.id \in txns[d][currentTxn].undo
                        THEN [r EXCEPT !.deleteTxnId = currentTxn] ELSE r
<1>1. Runs(c, "ROLLBACK") /\ rows' = [rows EXCEPT ![d] = {Marked(r) : r \in @}]
  BY Zenon DEF HandleRollback
<1>2. d \in Databases /\ QueueMoves /\ (DOMAIN rows' = Databases => RowsTyped')
  BY <1>1, StatementRuns, Zenon
<1>3. DOMAIN rows' = Databases
  BY <1>1, <1>2, Zenon DEF QInv, RowsTyped
<1>4. rows'[d] = {Marked(r) : r \in rows[d]} /\ \A e \in Databases \ {d} : rows'[e] = rows[e]
  BY <1>1, <1>2, Zenon DEF QInv, RowsTyped
<1>5. ASSUME NEW r \in rows[d] PROVE Marked(r).id = r.id /\ IsRow(Marked(r))
  <2>1. IsRow(r)
    BY <1>2, <1>5, Zenon DEF QInv, RowIsOld
  <2>2. CASE r.id \in txns[d][currentTxn].undo
    <3>1. Marked(r) = [createTxnId |-> r.createTxnId, deleteTxnId |-> currentTxn, id |-> r.id]
      BY <2>1, <2>2, Zenon DEF IsRow
    <3> HIDE DEF Marked
    <3> QED
      BY <3>1 DEF IsRow
  <2>3. CASE r.id \notin txns[d][currentTxn].undo
    BY <2>1, <2>3, Zenon
  <2> QED
    BY <2>2, <2>3, Zenon
<1> HIDE DEF d, Marked
<1>6. \A e \in Databases : \A r \in rows[e] : RowIsOld(r)'
  BY <1>2, RowStaysOld, Zenon DEF QInv
<1>7. ASSUME NEW e \in Databases, NEW x \in rows'[e] PROVE RowIsOld(x)'
  <2>1. PICK r \in rows[e] : x.id = r.id /\ (IsRow(r) => IsRow(x))
    BY <1>4, <1>5, <1>7
  <2>2. RowIsOld(r)'
    BY <1>6, Zenon
  <2> QED
    BY <2>1, <2>2, Zenon DEF RowIsOld
<1>8. ASSUME NEW e \in Databases, NEW x \in rows'[e], NEW y \in rows'[e], x.id = y.id PROVE x = y
  <2>1. CASE e # d
    BY <1>4, <1>8, <2>1, Zenon DEF QInv
  <2>2. CASE e = d
    <3>1. PICK r \in rows[d], q \in rows[d] : x = Marked(r) /\ y = Marked(q)
      BY <1>4, <1>8, <2>2, Zenon
    <3>2. r.id = q.id
      BY <1>5, <1>8, <3>1, Zenon
    <3>3. r = q
      BY <1>2, <3>2, Zenon DEF QInv
    <3> QED
      BY <3>1, <3>3, Zenon
  <2> QED
    BY <2>1, <2>2, Zenon
<1>9. \A e \in Clients : InOrder(up'[e], asked'[e])
  BY <1>2, Zenon DEF QueueMoves
<1> QED
  BY <1>2, <1>3, <1>7, <1>8, <1>9, Zenon DEF QInv

\* So does every statement.
LEMMA StatementsKeepQInv ==
  ASSUME QInv, NEW c \in Clients,
         \/ HandleSelect(c) \/ HandleInsert(c)
         \/ HandleBegin(c) \/ HandleCommit(c) \/ HandleRollback(c)
  PROVE  QInv'
<1>1. ASSUME NEW sql, Runs(c, sql), rows' = rows PROVE QInv'
  <2>1. QueueMoves /\ (DOMAIN rows' = Databases => RowsTyped')
    BY <1>1, StatementRuns, Zenon
  <2>2. RowsTyped'
    BY <1>1, <2>1, Zenon DEF QInv, RowsTyped
  <2> QED
    BY <1>1, <2>1, <2>2, RowsStayOld, Zenon
<1>2. CASE HandleSelect(c)
  BY <1>1, <1>2, Zenon DEF HandleSelect
<1>3. CASE HandleBegin(c)
  BY <1>1, <1>3, Zenon DEF HandleBegin
<1>4. CASE HandleCommit(c)
  BY <1>1, <1>4, Zenon DEF HandleCommit
<1> QED
  BY <1>2, <1>3, <1>4, InsertKeepsQInv, RollbackKeepsQInv, Zenon

-----------------------------------------------------------------------------
\* Tables of transactions.
Txn(state, undo) == [state |-> state, undo |-> undo]

\* The transaction table after beginTransaction.
LEMMA TableGrows ==
  ASSUME NEW t, TxnTable(t), NEW state \in {"ACTIVE", "COMMITTED", "ABORTED"}, NEW undo
  PROVE  LET u == Append(t, Txn(state, undo))
         IN  /\ TxnTable(u)
             /\ Len(t) + 1 \in Nat \ {0} /\ Len(t) + 1 \notin DOMAIN t
             /\ DOMAIN u = DOMAIN t \cup {Len(t) + 1}
             /\ u[Len(t) + 1] = Txn(state, undo)
             /\ \A i \in DOMAIN t : u[i] = t[i]
<1> DEFINE x == Txn(state, undo)
           u == Append(t, x)
<1>1. IsSeq(t)
  BY Zenon DEF TxnTable
<1>2. /\ IsSeq(u)
      /\ Len(t) \in Nat
      /\ DOMAIN t = 1..Len(t)
      /\ DOMAIN u = 1..(Len(t) + 1)
      /\ u[Len(t) + 1] = x
      /\ \A i \in DOMAIN t : u[i] = t[i]
  BY <1>1, AppendTo
<1>3. x.state = state /\ x.undo = undo /\ x = [state |-> x.state, undo |-> x.undo]
  BY Zenon DEF Txn
<1> HIDE DEF u, x
<1>4. Len(t) + 1 \in Nat \ {0} /\ Len(t) + 1 \notin DOMAIN t /\ DOMAIN u = DOMAIN t \cup {Len(t) + 1}
  BY <1>2
<1>5. TxnTable(u)
  BY <1>2, <1>3, <1>4, Zenon DEF TxnTable
<1> QED
  BY <1>2, <1>4, <1>5, Zenon DEF u, x

\* The transaction table after one of its entries was changed.
LEMMA TableChanges ==
  ASSUME NEW t, TxnTable(t), NEW i \in DOMAIN t, NEW x, NEW state \in {"ACTIVE", "COMMITTED", "ABORTED"},
         NEW undo, x = Txn(state, undo), NEW u, u = [t EXCEPT ![i] = x]
  PROVE  /\ TxnTable(u)
         /\ DOMAIN u = DOMAIN t
         /\ u[i] = x
         /\ \A j \in DOMAIN t \ {i} : u[j] = t[j]
<1>1. IsSeq(t)
  BY Zenon DEF TxnTable
<1>2. Len(t) \in Nat /\ DOMAIN t = 1..Len(t)
  BY <1>1, SeqDomain, Zenon
<1>3. DOMAIN u = DOMAIN t /\ u[i] = x /\ \A j \in DOMAIN t \ {i} : u[j] = t[j]
  BY Zenon
<1>4. IsSeq(u)
  <2> DEFINE S == {u[j] : j \in DOMAIN u}
  <2>1. \A j \in 1..Len(t) : u[j] \in S
    BY <1>2, <1>3, Zenon
  <2>2. u = [j \in 1..Len(t) |-> u[j]]
    BY <1>2, Zenon
  <2> HIDE DEF S
  <2>3. u \in Seq(S)
    <3>1. \A n \in Nat : \A f \in [1..n -> S] : f \in Seq(S)
      OBVIOUS
    <3>2. u \in [1..Len(t) -> S]
      BY <2>1, <2>2, ZenonT(30)
    <3> QED
      BY <1>2, <3>1, <3>2, Zenon
  <2> QED
    BY <2>3, SomeSeq, Zenon
<1>5. x.state = state /\ x.undo = undo /\ x = [state |-> x.state, undo |-> x.undo]
  BY Zenon DEF Txn
<1>6. \A j \in DOMAIN u : /\ u[j] = [state |-> u[j].state, undo |-> u[j].undo]
                          /\ u[j].state \in {"ACTIVE", "COMMITTED", "ABORTED"}
  BY <1>3, <1>5, Zenon DEF TxnTable
<1> QED
  BY <1>3, <1>4, <1>6, Zenon DEF TxnTable

-----------------------------------------------------------------------------
\* The transaction manager and the owner agree on what is active.
LEMMA ActiveIsOwners ==
  ASSUME KInv, NEW d \in Databases
  PROVE  Active(d) <=> InTransaction /\ d = owner.db
<1>1. Active(d) <=> InTransaction /\ currentTxn \in DOMAIN txns[d] /\ txns[d][currentTxn].state = "ACTIVE"
  BY Zenon DEF Active, States, V!getTransactionState
<1> QED
  BY <1>1, Zenon DEF KInv, OneActive

\* A statement that does not mix transactions runs in the database of the one that
\* is open.
LEMMA Unmixed ==
  ASSUME QInv, KInv, NEW c \in Clients, NEW sql, Runs(c, sql), ~mixed'
  PROVE  /\ useDatabase(c) \in Databases
         /\ InTransaction => owner.db = useDatabase(c)
         /\ ~Fails(sql, useDatabase(c))
<1>1. ~Mixes(c, useDatabase(c)) /\ ~Fails(sql, useDatabase(c))
  BY Zenon DEF Runs
<1> QED
  BY <1>1, StatementRuns DEF Mixes

\* BEGIN: the new transaction is the only active one, without rows.
LEMMA BeginKeepsKInv ==
  ASSUME QInv, KInv, NEW c \in Clients, HandleBegin(c), ~mixed'
  PROVE  KInv'
<1> DEFINE d == useDatabase(c)
           x == Txn("ACTIVE", {})
           n == Len(txns[d]) + 1
<1>1. /\ Runs(c, "BEGIN")
      /\ txns' = [txns EXCEPT ![d] = Append(@, x)]
      /\ currentTxn' = n
      /\ owner' = [client |-> c, db |-> d]
      /\ UNCHANGED <<rows, promised>>
  BY Zenon DEF HandleBegin, Txn
<1>2. d \in Databases /\ ~InTransaction
  <2>1. d \in Databases /\ (InTransaction => owner.db = d) /\ ~Fails("BEGIN", d)
    BY <1>1, Unmixed, Zenon
  <2>2. ~Active(d)
    BY <2>1, Zenon DEF Fails
  <2> QED
    BY <2>1, <2>2, ActiveIsOwners, Zenon
<1>3. /\ TxnTable(Append(txns[d], x))
      /\ n \in Nat \ {0} /\ n \notin DOMAIN txns[d]
      /\ DOMAIN Append(txns[d], x) = DOMAIN txns[d] \cup {n}
      /\ Append(txns[d], x)[n] = x
      /\ \A i \in DOMAIN txns[d] : Append(txns[d], x)[i] = txns[d][i]
  BY <1>2, TableGrows, Zenon DEF KInv
<1>4. DOMAIN txns' = Databases
  BY <1>1, Zenon DEF KInv
<1>5. txns'[d] = Append(txns[d], x) /\ \A e \in Databases \ {d} : txns'[e] = txns[e]
  BY <1>1, <1>2, Zenon DEF KInv
<1>6. x.state = "ACTIVE" /\ x.undo = {}
  BY Zenon DEF Txn
<1>7. owner'.db = d /\ InTransaction'
  BY <1>1, <1>3, Zenon DEF InTransaction, INVALID_TXN_ID
<1> HIDE DEF d, x, n
<1>8. \A e \in Databases : TxnTable(txns'[e])
  BY <1>3, <1>5, Zenon DEF KInv
<1>9. \A e \in Databases : \A i \in DOMAIN txns[e] : i \in DOMAIN txns'[e] /\ txns'[e][i] = txns[e][i]
  BY <1>3, <1>5, Zenon
<1>10. \A e \in Databases : \A r \in rows[e] : RowIsPlaced(r, txns[e])
  BY Zenon DEF KInv
<1>11. \A e \in Databases : \A r \in rows'[e] : RowIsPlaced(r, txns'[e])
  BY <1>1, <1>9, <1>10 DEF RowIsPlaced
<1>12. OneActive'
  <2>1. currentTxn' \in Nat /\ owner'.db \in Databases /\ currentTxn' \in DOMAIN txns'[owner'.db]
    BY <1>1, <1>2, <1>3, <1>5, <1>7, Zenon
  <2>2. \A e \in Databases : \A i \in DOMAIN txns[e] : txns[e][i].state # "ACTIVE"
    BY <1>2, Zenon DEF KInv, OneActive
  <2>3. ASSUME NEW e \in Databases, NEW i \in DOMAIN txns'[e]
        PROVE  txns'[e][i].state = "ACTIVE" <=> e = d /\ i = n
    BY <1>3, <1>5, <1>6, <2>2, <2>3
  <2> QED
    BY <1>1, <1>7, <2>1, <2>3, Zenon DEF OneActive
<1>13. RowsMatch'
  <2>1. \A e \in Databases : CommittedIds(e)' = CommittedIds(e)
    <3>1. ASSUME NEW e \in Databases, NEW r \in rows[e]
          PROVE  txns'[e][r.createTxnId] = txns[e][r.createTxnId]
      BY <1>9, <1>10, <3>1, Zenon DEF RowIsPlaced
    <3> QED
      BY <1>1, <3>1, Zenon DEF CommittedIds
  <2>2. {q \in rows'[d] : q.createTxnId = currentTxn'} = {}
    BY <1>1, <1>2, <1>3, <1>10, Zenon DEF RowIsPlaced
  <2>3. promised.pending = {}
    BY <1>2, Zenon DEF KInv, RowsMatch
  <2>4. txns'[d][currentTxn'].undo = {}
    BY <1>1, <1>3, <1>5, <1>6, Zenon
  <2>5. PendingIds(owner.db)' = {}
    BY <1>7, <2>2, Zenon DEF PendingIds
  <2> QED
    BY <1>1, <1>7, <2>1, <2>3, <2>4, <2>5, Zenon DEF KInv, RowsMatch
<1> QED
  BY <1>4, <1>8, <1>11, <1>12, <1>13, Zenon DEF KInv

\* The end of a transaction, common to COMMIT and ROLLBACK.
LEMMA EndOfTransaction ==
  ASSUME QInv, KInv, NEW c \in Clients, NEW sql \in {"COMMIT", "ROLLBACK"}, Runs(c, sql), ~mixed',
         NEW state \in {"COMMITTED", "ABORTED"}, NEW d, d = useDatabase(c), Ended(d, state),
         currentTxn' = INVALID_TXN_ID
  PROVE  /\ d \in Databases /\ InTransaction /\ owner.db = d /\ currentTxn \in DOMAIN txns[d]
         /\ txns[d][currentTxn].state = "ACTIVE"
         /\ DOMAIN txns' = Databases
         /\ \A e \in Databases : TxnTable(txns'[e]) /\ DOMAIN txns'[e] = DOMAIN txns[e]
         /\ txns'[d][currentTxn].state = state
         /\ \A e \in Databases : \A i \in DOMAIN txns[e] :
              e # d \/ i # currentTxn => txns'[e][i] = txns[e][i]
         /\ OneActive'
<1>1. d \in Databases /\ (InTransaction => owner.db = d) /\ ~Fails(sql, d)
  BY Unmixed, Zenon
<1>2. Active(d)
  BY <1>1, Zenon DEF Fails
<1>3. InTransaction /\ owner.db = d
  BY <1>1, <1>2, ActiveIsOwners, Zenon
<1>4. currentTxn \in DOMAIN txns[d] /\ txns[d][currentTxn].state = "ACTIVE" /\ TxnTable(txns[d])
  BY <1>1, <1>3, Zenon DEF KInv, OneActive
<1> DEFINE t == txns[d]
           x == Txn(state, t[currentTxn].undo)
           u == [t EXCEPT ![currentTxn] = x]
<1>5. txns' = [txns EXCEPT ![d] = u]
  <2>1. t[currentTxn] = [state |-> t[currentTxn].state, undo |-> t[currentTxn].undo]
    BY <1>4, Zenon DEF TxnTable
  <2>2. [t[currentTxn] EXCEPT !.state = state] = x
    BY <2>1 DEF Txn
  <2>3. txns' = [txns EXCEPT ![d] = [t EXCEPT ![currentTxn] = [t[currentTxn] EXCEPT !.state = state]]]
    BY <1>1, <1>4, Zenon DEF Ended, KInv
  <2> QED
    BY <2>2, <2>3, Zenon
<1>6. /\ TxnTable(u) /\ DOMAIN u = DOMAIN t /\ u[currentTxn] = x
      /\ \A j \in DOMAIN t \ {currentTxn} : u[j] = t[j]
  <2> HIDE DEF u, x, t
  <2>1. u = [t EXCEPT ![currentTxn] = x] /\ x = Txn(state, t[currentTxn].undo) /\ TxnTable(t)
        /\ currentTxn \in DOMAIN t
    BY <1>4, Zenon DEF u, x, t
  <2> QED
    BY <2>1, TableChanges, ZenonT(30)
<1>7. x.state = state
  BY Zenon DEF Txn
<1> HIDE DEF u, x
<1>8. DOMAIN txns' = Databases /\ txns'[d] = u /\ \A e \in Databases \ {d} : txns'[e] = txns[e]
  BY <1>1, <1>5, Zenon DEF KInv
<1>9. \A e \in Databases : TxnTable(txns'[e]) /\ DOMAIN txns'[e] = DOMAIN txns[e]
  BY <1>6, <1>8, Zenon DEF KInv
<1>10. /\ txns'[d][currentTxn].state = state
       /\ \A e \in Databases : \A i \in DOMAIN txns[e] :
            e # d \/ i # currentTxn => txns'[e][i] = txns[e][i]
  BY <1>6, <1>7, <1>8, Zenon
<1>11. OneActive'
  <2>1. ASSUME NEW e \in Databases, NEW i \in DOMAIN txns'[e] PROVE txns'[e][i].state # "ACTIVE"
    <3>1. i \in DOMAIN txns[e]
      BY <1>9, Zenon
    <3>2. CASE e = d /\ i = currentTxn
      BY <1>10, <3>2, Zenon
    <3>3. CASE ~(e = d /\ i = currentTxn)
      BY <1>3, <1>10, <3>1, <3>3 DEF KInv, OneActive
    <3> QED
      BY <3>2, <3>3, Zenon
  <2>2. ~InTransaction' /\ currentTxn' \in Nat
    BY Zenon DEF InTransaction, INVALID_TXN_ID
  <2> QED
    BY <2>1, <2>2, Zenon DEF OneActive
<1> QED
  BY <1>1, <1>3, <1>4, <1>8, <1>9, <1>10, <1>11, Zenon

\* COMMIT: the pending rows become committed ones.
LEMMA CommitKeepsKInv ==
  ASSUME QInv, KInv, NEW c \in Clients, HandleCommit(c), ~mixed'
  PROVE  KInv'
<1>1. PICK d : d = useDatabase(c)
  BY Zenon
<1>2. /\ Runs(c, "COMMIT") /\ Ended(d, "COMMITTED") /\ currentTxn' = INVALID_TXN_ID
      /\ promised' = [promised EXCEPT !.committed[d] = @ \cup promised.pending, !.pending = {}]
      /\ rows' = rows
  BY <1>1, Zenon DEF HandleCommit
<1>3. /\ d \in Databases /\ InTransaction /\ owner.db = d /\ currentTxn \in DOMAIN txns[d]
      /\ txns[d][currentTxn].state = "ACTIVE"
      /\ DOMAIN txns' = Databases
      /\ \A e \in Databases : TxnTable(txns'[e]) /\ DOMAIN txns'[e] = DOMAIN txns[e]
      /\ txns'[d][currentTxn].state = "COMMITTED"
      /\ \A e \in Databases : \A i \in DOMAIN txns[e] :
           e # d \/ i # currentTxn => txns'[e][i] = txns[e][i]
      /\ OneActive'
  BY <1>1, <1>2, EndOfTransaction
<1>4. \A e \in Databases : \A r \in rows[e] : RowIsPlaced(r, txns[e])
  BY Zenon DEF KInv
<1>5. ASSUME NEW e \in Databases, NEW r \in rows[e] PROVE RowIsPlaced(r, txns'[e])
  BY <1>3, <1>4, <1>5 DEF RowIsPlaced
<1>6. /\ promised'.pending = {} /\ DOMAIN promised'.committed = Databases
      /\ promised' = [committed |-> promised'.committed, pending |-> promised'.pending]
      /\ promised'.committed[d] = promised.committed[d] \cup promised.pending
      /\ \A e \in Databases \ {d} : promised'.committed[e] = promised.committed[e]
  BY <1>2, <1>3, Zenon DEF KInv, RowsMatch
<1>7. ASSUME NEW e \in Databases PROVE CommittedIds(e)' = promised'.committed[e]
  <2>1. CommittedIds(e) = promised.committed[e] /\ PendingIds(d) = promised.pending
    BY <1>3, Zenon DEF KInv, RowsMatch
  <2>2. CASE e # d
    <3>1. \A r \in rows[e] : txns'[e][r.createTxnId] = txns[e][r.createTxnId]
      BY <1>3, <1>4, <2>2, Zenon DEF RowIsPlaced
    <3>2. CommittedIds(e)' = CommittedIds(e)
      BY <1>2, <3>1, Zenon DEF CommittedIds
    <3> QED
      BY <1>6, <2>1, <2>2, <3>2, Zenon
  <2>3. CASE e = d
    <3>1. \A r \in rows[d] : txns'[d][r.createTxnId].state = "COMMITTED" <=>
            txns[d][r.createTxnId].state = "COMMITTED" \/ r.createTxnId = currentTxn
      BY <1>3, <1>4, Zenon DEF RowIsPlaced
    <3>2. {r.id : r \in {q \in rows'[d] : txns'[d][q.createTxnId].state = "COMMITTED"}}
            = CommittedIds(d) \cup PendingIds(d)
      BY <1>2, <3>1, Zenon DEF CommittedIds, PendingIds
    <3> QED
      BY <1>6, <2>1, <2>3, <3>2 DEF CommittedIds
  <2> QED
    BY <2>2, <2>3, Zenon
<1>8. ~InTransaction'
  BY <1>2, Zenon DEF InTransaction
<1>9. RowsMatch'
  BY <1>6, <1>7, <1>8, SMTT(20), Zenon DEF RowsMatch
<1> QED
  BY <1>2, <1>3, <1>5, <1>9, Zenon DEF KInv

\* ROLLBACK: the pending rows are marked, and no committed one is.
LEMMA RollbackKeepsKInv ==
  ASSUME QInv, KInv, NEW c \in Clients, HandleRollback(c), ~mixed'
  PROVE  KInv'
<1>1. PICK d : d = useDatabase(c)
  BY Zenon
<1> DEFINE Marked(r) == IF r.id \in txns[d][currentTxn].undo
                        THEN [r EXCEPT !.deleteTxnId = currentTxn] ELSE r
<1>2. /\ Runs(c, "ROLLBACK") /\ Ended(d, "ABORTED") /\ currentTxn' = INVALID_TXN_ID
      /\ promised' = [promised EXCEPT !.pending = {}]
      /\ rows' = [rows EXCEPT ![d] = {Marked(r) : r \in @}]
  BY <1>1, Zenon DEF HandleRollback
<1>3. /\ d \in Databases /\ InTransaction /\ owner.db = d /\ currentTxn \in DOMAIN txns[d]
      /\ txns[d][currentTxn].state = "ACTIVE"
      /\ DOMAIN txns' = Databases
      /\ \A e \in Databases : TxnTable(txns'[e]) /\ DOMAIN txns'[e] = DOMAIN txns[e]
      /\ txns'[d][currentTxn].state = "ABORTED"
      /\ \A e \in Databases : \A i \in DOMAIN txns[e] :
           e # d \/ i # currentTxn => txns'[e][i] = txns[e][i]
      /\ OneActive'
  BY <1>1, <1>2, EndOfTransaction
<1>4. rows'[d] = {Marked(r) : r \in rows[d]} /\ \A e \in Databases \ {d} : rows'[e] = rows[e]
  BY <1>2, <1>3, Zenon DEF QInv, RowsTyped
<1>5. \A e \in Databases : \A r \in rows[e] : RowIsPlaced(r, txns[e])
  BY Zenon DEF KInv
\* Only rows of the transaction are in its undo log.
<1>6. ASSUME NEW r \in rows[d], r.id \in txns[d][currentTxn].undo PROVE r.createTxnId = currentTxn
  <2>1. r.id \in PendingIds(d)
    BY <1>3, <1>6, Zenon DEF KInv, RowsMatch
  <2>2. PICK q \in rows[d] : q.createTxnId = currentTxn /\ q.id = r.id
    BY <2>1, Zenon DEF PendingIds
  <2>3. q = r
    BY <1>3, <2>2, Zenon DEF QInv
  <2> QED
    BY <2>2, <2>3, Zenon
<1>7. ASSUME NEW r \in rows[d]
      PROVE  /\ Marked(r).id = r.id
             /\ Marked(r).createTxnId = r.createTxnId
             /\ RowIsPlaced(Marked(r), txns'[d])
  <2>1. /\ r = [createTxnId |-> r.createTxnId, deleteTxnId |-> r.deleteTxnId, id |-> r.id]
        /\ r.createTxnId \in DOMAIN txns[d]
        /\ r.deleteTxnId # INVALID_TXN_ID =>
             r.deleteTxnId = r.createTxnId /\ txns[d][r.createTxnId].state = "ABORTED"
    BY <1>3, <1>5, Zenon DEF RowIsPlaced
  <2>2. r.createTxnId \in DOMAIN txns'[d]
    BY <1>3, <2>1, Zenon
  <2>3. CASE r.id \in txns[d][currentTxn].undo
    <3>1. Marked(r) = [createTxnId |-> r.createTxnId, deleteTxnId |-> currentTxn, id |-> r.id]
      BY <2>1, <2>3, Zenon
    <3>2. r.createTxnId = currentTxn
      BY <1>6, <2>3, Zenon
    <3> HIDE DEF Marked
    <3> QED
      BY <1>3, <2>2, <3>1, <3>2 DEF RowIsPlaced
  <2>4. CASE r.id \notin txns[d][currentTxn].undo
    <3>1. Marked(r) = r
      BY <2>4, Zenon
    <3>2. txns[d][r.createTxnId].state = "ABORTED" => txns'[d][r.createTxnId].state = "ABORTED"
      BY <1>3, <2>1, Zenon
    <3> HIDE DEF Marked
    <3> QED
      BY <2>1, <2>2, <3>1, <3>2, Zenon DEF RowIsPlaced
  <2> QED
    BY <2>3, <2>4, Zenon
<1> HIDE DEF Marked
<1>8. ASSUME NEW e \in Databases, NEW x \in rows'[e] PROVE RowIsPlaced(x, txns'[e])
  <2>1. CASE e = d
    BY <1>4, <1>7, <1>8, <2>1, Zenon
  <2>2. CASE e # d
    BY <1>3, <1>4, <1>5, <1>8, <2>2 DEF RowIsPlaced
  <2> QED
    BY <2>1, <2>2, Zenon
<1>9. /\ promised'.pending = {} /\ promised'.committed = promised.committed
      /\ promised' = [committed |-> promised'.committed, pending |-> promised'.pending]
      /\ DOMAIN promised'.committed = Databases
  BY <1>2, SMTT(20), Zenon DEF KInv, RowsMatch
<1>10. ASSUME NEW e \in Databases PROVE CommittedIds(e)' = CommittedIds(e)
  <2>1. \A r \in rows[e] : txns'[e][r.createTxnId].state = "COMMITTED" <=>
                             txns[e][r.createTxnId].state = "COMMITTED"
    BY <1>3, <1>5, Zenon DEF RowIsPlaced
  <2>2. CASE e # d
    BY <1>4, <2>1, <2>2, Zenon DEF CommittedIds
  <2>3. CASE e = d
    <3>1. {x.id : x \in {q \in rows'[d] : txns'[d][q.createTxnId].state = "COMMITTED"}} = CommittedIds(d)
      BY <1>4, <1>7, <2>1, <2>3 DEF CommittedIds
    <3> QED
      BY <2>3, <3>1, Zenon DEF CommittedIds
  <2> QED
    BY <2>2, <2>3, Zenon
<1>11. ~InTransaction'
  BY <1>2, Zenon DEF InTransaction
<1>12. RowsMatch'
  BY <1>9, <1>10, <1>11, Zenon DEF KInv, RowsMatch
<1> QED
  BY <1>3, <1>8, <1>12, Zenon DEF KInv

\* An INSERT outside of a transaction, which commits one of its own.
LEMMA AutoInsertKeepsKInv ==
  ASSUME QInv, KInv, NEW c \in Clients, HandleInsert(c), ~mixed', ~InTransaction
  PROVE  KInv'
<1>1. PICK d : d = useDatabase(c)
  BY Zenon
<1>2. PICK row : row = NewRow(c)
  BY Zenon
<1> DEFINE x == Txn("COMMITTED", {})
           n == Len(txns[d]) + 1
<1>3. /\ Runs(c, "INSERT")
      /\ rows' = [rows EXCEPT ![d] = @ \cup {row}]
      /\ txns' = [txns EXCEPT ![d] = Append(@, x)]
      /\ promised' = [promised EXCEPT !.committed[d] = @ \cup {row.id}]
      /\ currentTxn' = currentTxn /\ owner' = owner
  BY <1>1, <1>2, Zenon DEF HandleInsert, NewRow, Txn
<1>4. d \in Databases
  BY <1>1, <1>3, StatementRuns, Zenon
<1>5. /\ TxnTable(Append(txns[d], x))
      /\ n \in Nat \ {0} /\ n \notin DOMAIN txns[d]
      /\ DOMAIN Append(txns[d], x) = DOMAIN txns[d] \cup {n}
      /\ Append(txns[d], x)[n] = x
      /\ \A i \in DOMAIN txns[d] : Append(txns[d], x)[i] = txns[d][i]
  BY <1>4, TableGrows, Zenon DEF KInv
<1>6. /\ DOMAIN txns' = Databases /\ txns'[d] = Append(txns[d], x)
      /\ \A e \in Databases \ {d} : txns'[e] = txns[e]
  BY <1>3, <1>4, Zenon DEF KInv
<1>7. x.state = "COMMITTED"
  BY Zenon DEF Txn
<1>8. row = [createTxnId |-> n, deleteTxnId |-> INVALID_TXN_ID, id |-> row.id]
  BY <1>1, <1>2, Zenon DEF NewRow
<1>9. ~InTransaction'
  BY <1>3, Zenon DEF InTransaction
<1> HIDE DEF x, n
<1>10. \A e \in Databases : TxnTable(txns'[e])
  BY <1>5, <1>6, Zenon DEF KInv
<1>11. \A e \in Databases : \A i \in DOMAIN txns[e] : i \in DOMAIN txns'[e] /\ txns'[e][i] = txns[e][i]
  BY <1>5, <1>6, Zenon
<1>12. rows'[d] = rows[d] \cup {row} /\ \A e \in Databases \ {d} : rows'[e] = rows[e]
  BY <1>3, <1>4, Zenon DEF QInv, RowsTyped
<1>13. \A e \in Databases : \A r \in rows[e] : RowIsPlaced(r, txns[e])
  BY Zenon DEF KInv
<1>14. \A e \in Databases : \A r \in rows[e] : RowIsPlaced(r, txns'[e])
  BY <1>11, <1>13 DEF RowIsPlaced
<1>15. RowIsPlaced(row, txns'[d])
  BY <1>5, <1>6, <1>8 DEF RowIsPlaced
<1>16. \A e \in Databases : \A r \in rows'[e] : RowIsPlaced(r, txns'[e])
  BY <1>12, <1>14, <1>15, Zenon
<1>17. OneActive'
  <2>1. \A e \in Databases : \A i \in DOMAIN txns[e] : txns[e][i].state # "ACTIVE"
    BY Zenon DEF KInv, OneActive
  <2>2. ASSUME NEW e \in Databases, NEW i \in DOMAIN txns'[e] PROVE txns'[e][i].state # "ACTIVE"
    BY <1>5, <1>6, <1>7, <2>1, <2>2
  <2>3. currentTxn' \in Nat
    BY <1>3, Zenon DEF KInv, OneActive
  <2> QED
    BY <1>9, <2>2, <2>3, Zenon DEF OneActive
<1>18. /\ promised'.pending = promised.pending /\ DOMAIN promised'.committed = Databases
       /\ promised' = [committed |-> promised'.committed, pending |-> promised'.pending]
       /\ promised'.committed[d] = promised.committed[d] \cup {row.id}
       /\ \A e \in Databases \ {d} : promised'.committed[e] = promised.committed[e]
  BY <1>3, <1>4, ZenonT(30) DEF KInv, RowsMatch
<1>19. ASSUME NEW e \in Databases PROVE CommittedIds(e)' = promised'.committed[e]
  <2>1. CommittedIds(e) = promised.committed[e]
    BY Zenon DEF KInv, RowsMatch
  <2>2. \A r \in rows[e] : txns'[e][r.createTxnId] = txns[e][r.createTxnId]
    BY <1>11, <1>13, Zenon DEF RowIsPlaced
  <2>3. CASE e # d
    <3>1. CommittedIds(e)' = CommittedIds(e)
      BY <1>12, <2>2, <2>3, Zenon DEF CommittedIds
    <3> QED
      BY <1>18, <2>1, <2>3, <3>1, SMTT(20), Zenon
  <2>4. CASE e = d
    <3>1. txns'[d][row.createTxnId].state = "COMMITTED"
      BY <1>5, <1>6, <1>7, <1>8
    <3>2. {q \in rows'[d] : txns'[d][q.createTxnId].state = "COMMITTED"}
            = {q \in rows[d] : txns[d][q.createTxnId].state = "COMMITTED"} \cup {row}
      BY <1>12, <2>2, <2>4, <3>1, Zenon
    <3>3. {r.id : r \in {q \in rows'[d] : txns'[d][q.createTxnId].state = "COMMITTED"}}
            = CommittedIds(d) \cup {row.id}
      BY <3>2, Zenon DEF CommittedIds
    <3>4. CommittedIds(e)' = {r.id : r \in {q \in rows'[d] : txns'[d][q.createTxnId].state = "COMMITTED"}}
      BY <2>4, Zenon DEF CommittedIds
    <3> QED
      BY <1>18, <2>1, <2>4, <3>3, <3>4, Zenon
  <2> QED
    BY <2>3, <2>4, Zenon
<1>20. RowsMatch'
  BY <1>9, <1>18, <1>19, Zenon DEF KInv, RowsMatch
<1> QED
  BY <1>6, <1>10, <1>16, <1>17, <1>20, Zenon DEF KInv

\* An INSERT in the open transaction.
LEMMA OwnInsertKeepsKInv ==
  ASSUME QInv, KInv, NEW c \in Clients, HandleInsert(c), ~mixed', InTransaction
  PROVE  KInv'
<1>1. PICK d : d = useDatabase(c)
  BY Zenon
<1>2. PICK row : row = NewRow(c)
  BY Zenon
<1>3. Runs(c, "INSERT")
  BY Zenon DEF HandleInsert
<1>4. d \in Databases /\ owner.db = d /\ Active(d)
  BY <1>1, <1>3, Unmixed, ActiveIsOwners, Zenon
<1> DEFINE t == txns[d]
           x == Txn("ACTIVE", t[currentTxn].undo \cup {row.id})
           u == [t EXCEPT ![currentTxn] = x]
<1>5. /\ rows' = [rows EXCEPT ![d] = @ \cup {row}]
      /\ txns' = [txns EXCEPT ![d] = [txns[d] EXCEPT ![currentTxn].undo = @ \cup {row.id}]]
      /\ promised' = [promised EXCEPT !.pending = @ \cup {row.id}]
      /\ currentTxn' = currentTxn /\ owner' = owner
  <2>1. row.id = [client |-> c, n |-> Head(up[c]).id, prompt |-> Head(up[c]).prompt]
    BY <1>2, Zenon DEF NewRow
  <2>2. rows' = [rows EXCEPT ![d] = @ \cup {row}]
    BY <1>1, <1>2, Zenon DEF HandleInsert, NewRow
  <2>3. currentTxn' = currentTxn /\ owner' = owner
    BY Zenon DEF HandleInsert
  <2>4. promised' = [promised EXCEPT !.pending = @ \cup {row.id}]
    BY <2>1, Zenon DEF HandleInsert
  <2>5. txns' = [txns EXCEPT ![d] = [txns[d] EXCEPT ![currentTxn].undo = @ \cup {row.id}]]
    BY <1>1, <1>4, <2>1, Zenon DEF HandleInsert
  <2> QED
    BY <2>2, <2>3, <2>4, <2>5, SMTT(20), Zenon
<1>6. /\ currentTxn \in DOMAIN t /\ t[currentTxn].state = "ACTIVE" /\ TxnTable(t)
      /\ t[currentTxn].undo = promised.pending
  BY <1>4, Zenon DEF KInv, OneActive, RowsMatch
<1>7. txns' = [txns EXCEPT ![d] = u]
  <2>1. t[currentTxn] = [state |-> t[currentTxn].state, undo |-> t[currentTxn].undo]
    BY <1>6, Zenon DEF TxnTable
  <2>2. [t[currentTxn] EXCEPT !.undo = @ \cup {row.id}] = x
    BY <1>6, <2>1 DEF Txn
  <2>3. txns' = [txns EXCEPT ![d] = [t EXCEPT ![currentTxn] = [t[currentTxn] EXCEPT !.undo = @ \cup {row.id}]]]
    BY <1>5, Zenon
  <2> QED
    BY <2>2, <2>3, Zenon
<1>8. /\ TxnTable(u) /\ DOMAIN u = DOMAIN t /\ u[currentTxn] = x
      /\ \A j \in DOMAIN t \ {currentTxn} : u[j] = t[j]
  <2> HIDE DEF u, x, t
  <2>1. u = [t EXCEPT ![currentTxn] = x] /\ x = Txn("ACTIVE", t[currentTxn].undo \cup {row.id})
        /\ TxnTable(t) /\ currentTxn \in DOMAIN t
    BY <1>6, Zenon DEF u, x, t
  <2> QED
    BY <2>1, TableChanges, ZenonT(30)
<1>9. x.state = "ACTIVE" /\ x.undo = promised.pending \cup {row.id}
  BY <1>6, Zenon DEF Txn
<1> HIDE DEF u, x
<1>10. DOMAIN txns' = Databases /\ txns'[d] = u /\ \A e \in Databases \ {d} : txns'[e] = txns[e]
  BY <1>4, <1>7, Zenon DEF KInv
<1>11. \A e \in Databases : TxnTable(txns'[e]) /\ DOMAIN txns'[e] = DOMAIN txns[e]
  BY <1>8, <1>10, Zenon DEF KInv
<1>12. \A e \in Databases : \A i \in DOMAIN txns[e] : txns'[e][i].state = txns[e][i].state
  BY <1>6, <1>8, <1>9, <1>10, Zenon
<1>13. rows'[d] = rows[d] \cup {row} /\ \A e \in Databases \ {d} : rows'[e] = rows[e]
  BY <1>4, <1>5, Zenon DEF QInv, RowsTyped
<1>14. row = [createTxnId |-> currentTxn, deleteTxnId |-> INVALID_TXN_ID, id |-> row.id]
  BY <1>1, <1>2, Zenon DEF NewRow
<1>15. \A e \in Databases : \A r \in rows[e] : RowIsPlaced(r, txns[e])
  BY Zenon DEF KInv
<1>16. \A e \in Databases : \A r \in rows[e] : RowIsPlaced(r, txns'[e])
  BY <1>11, <1>12, <1>15 DEF RowIsPlaced
<1>17. RowIsPlaced(row, txns'[d])
  BY <1>4, <1>6, <1>11, <1>14 DEF RowIsPlaced
<1>18. \A e \in Databases : \A r \in rows'[e] : RowIsPlaced(r, txns'[e])
  BY <1>13, <1>16, <1>17, Zenon
<1>19. InTransaction'
  BY <1>5, Zenon DEF InTransaction
<1>20. OneActive'
  <2>1. \A e \in Databases : \A i \in DOMAIN txns[e] :
          txns[e][i].state = "ACTIVE" <=> e = owner.db /\ i = currentTxn
    BY Zenon DEF KInv, OneActive
  <2>2. currentTxn \in Nat
    BY Zenon DEF KInv, OneActive
  <2> QED
    BY <1>4, <1>5, <1>6, <1>11, <1>12, <1>19, <2>1, <2>2 DEF OneActive
<1>21. /\ promised'.pending = promised.pending \cup {row.id}
       /\ promised'.committed = promised.committed
       /\ promised' = [committed |-> promised'.committed, pending |-> promised'.pending]
       /\ DOMAIN promised'.committed = Databases
  BY <1>5, SMTT(20), Zenon DEF KInv, RowsMatch
<1>22. ASSUME NEW e \in Databases PROVE CommittedIds(e)' = CommittedIds(e)
  <2>1. \A r \in rows[e] : txns'[e][r.createTxnId].state = txns[e][r.createTxnId].state
    BY <1>12, <1>15, Zenon DEF RowIsPlaced
  <2>2. txns'[d][row.createTxnId].state # "COMMITTED"
    BY <1>8, <1>9, <1>10, <1>14
  <2>3. {q \in rows'[e] : txns'[e][q.createTxnId].state = "COMMITTED"}
          = {q \in rows[e] : txns[e][q.createTxnId].state = "COMMITTED"}
    BY <1>13, <2>1, <2>2, Zenon
  <2> QED
    BY <2>3, Zenon DEF CommittedIds
<1>23. PendingIds(owner.db)' = promised'.pending
  <2>1. PendingIds(d) = promised.pending
    BY <1>4, Zenon DEF KInv, RowsMatch
  <2>2. row.createTxnId = currentTxn
    BY <1>14
  <2>3. {r.id : r \in {q \in rows'[d] : q.createTxnId = currentTxn'}} = PendingIds(d) \cup {row.id}
    BY <1>5, <1>13, <2>2, Zenon DEF PendingIds
  <2> QED
    BY <1>4, <1>5, <1>21, <2>1, <2>3, Zenon DEF PendingIds
<1>24. txns'[owner'.db][currentTxn'].undo = promised'.pending
  BY <1>4, <1>5, <1>8, <1>9, <1>10, <1>21, Zenon
<1>25. RowsMatch'
  BY <1>19, <1>21, <1>22, <1>23, <1>24, Zenon DEF KInv, RowsMatch
<1> QED
  BY <1>10, <1>11, <1>18, <1>20, <1>25, Zenon DEF KInv

-----------------------------------------------------------------------------
\* No client, no request, no row.
LEMMA InitInv == Init => IInv
<1> SUFFICES ASSUME Init PROVE QInv /\ KInv
  BY Zenon DEF IInv
<1>1. RowsTyped
  BY Zenon DEF Init, RowsTyped, NewConnection, NoSession
<1>2. \A c \in Clients : InOrder(up[c], asked[c])
  BY EmptyInOrder, Zenon DEF Init
<1>3. \A d \in Databases : rows[d] = {} /\ txns[d] = << >> /\ promised.committed[d] = {}
  BY Zenon DEF Init
<1>4. QInv
  BY <1>1, <1>2, <1>3, Zenon DEF QInv
<1>5. ~InTransaction /\ currentTxn \in Nat
  BY Zenon DEF Init, InTransaction, INVALID_TXN_ID
<1>6. \A d \in Databases : DOMAIN txns[d] = {} /\ TxnTable(txns[d])
  <2>1. << >> \in Seq({}) /\ DOMAIN << >> = {}
    OBVIOUS
  <2> QED
    BY <1>3, <2>1, SomeSeq, Zenon DEF TxnTable
<1>7. OneActive
  BY <1>5, <1>6, Zenon DEF OneActive
<1>8. \A d \in Databases : CommittedIds(d) = {}
  BY <1>3, Zenon DEF CommittedIds
<1>9. RowsMatch
  BY <1>3, <1>5, <1>8, Zenon DEF RowsMatch, Init
<1>10. KInv
  BY <1>3, <1>6, <1>7, <1>9, Zenon DEF KInv, Init
<1> QED
  BY <1>4, <1>10, Zenon

\* A step that leaves the tables, the rows and the promises alone.
LEMMA SameKInv ==
  ASSUME KInv, UNCHANGED <<txns, rows, currentTxn, owner, promised>>
  PROVE  KInv'
BY DEF KInv, OneActive, RowsMatch, CommittedIds, PendingIds, InTransaction

\* Every statement keeps what is known of the transactions, as long as the clients
\* keep out of each other's.
LEMMA StatementsKeepKInv ==
  ASSUME QInv, KInv, NEW c \in Clients, ~mixed',
         \/ HandleSelect(c) \/ HandleInsert(c)
         \/ HandleBegin(c) \/ HandleCommit(c) \/ HandleRollback(c)
  PROVE  KInv'
<1>1. CASE HandleSelect(c)
  BY <1>1, SameKInv, Zenon DEF HandleSelect
<1>2. CASE HandleInsert(c)
  BY <1>2, AutoInsertKeepsKInv, OwnInsertKeepsKInv, Zenon
<1>3. CASE HandleBegin(c)
  BY <1>3, BeginKeepsKInv, Zenon
<1>4. CASE HandleCommit(c)
  BY <1>4, CommitKeepsKInv, Zenon
<1>5. CASE HandleRollback(c)
  BY <1>5, RollbackKeepsKInv
<1> QED
  BY <1>1, <1>2, <1>3, <1>4, <1>5, Zenon

\* Once a statement was mixed into the transaction of another, that is never forgotten.
LEMMA MixedStays ==
  ASSUME NEW c \in Clients, mixed,
         \/ HandleSelect(c) \/ HandleInsert(c)
         \/ HandleBegin(c) \/ HandleCommit(c) \/ HandleRollback(c)
  PROVE  mixed'
<1>1. \E sql : Runs(c, sql)
  BY Zenon DEF HandleSelect, HandleInsert, HandleBegin, HandleCommit, HandleRollback
<1> QED
  BY <1>1, ZenonT(30) DEF Runs

\* Every step keeps the invariant.
LEMMA StepInv == IInv /\ [Next]_vars => IInv'
<1> SUFFICES ASSUME IInv, [Next]_vars PROVE IInv'
  BY Zenon
<1>1. QInv /\ (~mixed => KInv)
  BY Zenon DEF IInv
<1>2. CASE UNCHANGED vars
  <2>1. UNCHANGED <<conn, nextSessionId, connections, asked, up, rows, mixed>>
    BY <1>2, Zenon DEF vars, clientVars, networkVars, serverVars, engineVars
  <2>2. UNCHANGED <<txns, rows, currentTxn, owner, promised>>
    BY <1>2, SMTT(20), Zenon DEF vars, clientVars, networkVars, serverVars, engineVars
  <2>3. QInv'
    BY <1>1, <2>1, Zenon DEF QInv, RowsTyped, RowIsOld
  <2> QED
    BY <1>1, <2>1, <2>2, <2>3, SameKInv, Zenon DEF IInv
<1>3. ASSUME NEW c \in Clients,
             \/ \E known \in BOOLEAN : Connect(c, known)
             \/ ConnectFails(c)
             \/ \E request \in Requests : Request(c, request)
             \/ Exit(c) \/ Break(c) \/ ClientStep(c)
             \/ Accept(c) \/ TurnAway(c) \/ OnClientDisconnected(c) \/ HandleAuthRequest(c)
             \/ HandleSwitch(c) \/ HandleSwitchFails(c) \/ HandleRefused(c) \/ HandleUse(c)
             \/ HandleFails(c)
      PROVE  IInv'
  <2>1. QInv' /\ UNCHANGED <<txns, rows, currentTxn, owner, promised, mixed>>
    BY <1>1, <1>3, OthersKeepQInv, Zenon
  <2> QED
    BY <1>1, <2>1, SameKInv, Zenon DEF IInv
<1>4. ASSUME NEW c \in Clients,
             \/ HandleSelect(c) \/ HandleInsert(c)
             \/ HandleBegin(c) \/ HandleCommit(c) \/ HandleRollback(c)
      PROVE  IInv'
  <2>1. QInv'
    BY <1>1, <1>4, StatementsKeepQInv, Zenon
  <2>2. ASSUME ~mixed' PROVE KInv'
    <3>1. ~mixed
      BY <1>4, <2>2, MixedStays, SMTT(20), Zenon
    <3> QED
      BY <1>1, <1>4, <2>2, <3>1, StatementsKeepKInv, Zenon
  <2> QED
    BY <2>1, <2>2, Zenon DEF IInv
<1> QED
  BY <1>2, <1>3, <1>4, Zenon DEF Next, ServerStep

\* What a reader outside of every transaction sees of a row, and what the owner sees.
LEMMA WhatIsSeen ==
  ASSUME KInv, NEW d \in Databases, NEW r \in rows[d]
  PROVE  /\ V!isVisible(States(d), r, INVALID_TXN_ID)
              <=> txns[d][r.createTxnId].state = "COMMITTED"
         /\ InTransaction /\ owner.db = d =>
              (V!isVisible(States(d), r, currentTxn)
                 <=> \/ txns[d][r.createTxnId].state = "COMMITTED"
                     \/ r.createTxnId = currentTxn)
<1>1. RowIsPlaced(r, txns[d]) /\ TxnTable(txns[d]) /\ OneActive
  BY Zenon DEF KInv
<1> DEFINE i == r.createTxnId
           state == txns[d][i].state
<1>2. i \in DOMAIN txns[d] /\ state \in {"ACTIVE", "COMMITTED", "ABORTED"}
  BY <1>1, ZenonT(30) DEF RowIsPlaced, TxnTable
<1>3. r.deleteTxnId # 0 => r.deleteTxnId = i /\ state = "ABORTED"
  BY <1>1, Zenon DEF RowIsPlaced, INVALID_TXN_ID
<1>4. i # 0
  <2>1. Len(txns[d]) \in Nat /\ DOMAIN txns[d] = 1..Len(txns[d])
    BY <1>1, SeqDomain, Zenon DEF TxnTable
  <2> QED
    BY <1>2, <2>1
<1>5. V!getTransactionState(States(d), i) = state
  BY <1>2, Zenon DEF V!getTransactionState, States
<1>6. InTransaction /\ owner.db = d => (state = "ACTIVE" <=> i = currentTxn)
  BY <1>1, <1>2, Zenon DEF OneActive
<1> HIDE DEF i, state
<1>7. V!isCommitted(States(d), i) <=> state = "COMMITTED"
  BY <1>2, <1>4, <1>5, Zenon DEF V!isCommitted, V!INVALID_TXN_ID
<1>8. V!isAborted(States(d), i) <=> state = "ABORTED"
  BY <1>4, <1>5, SMTT(20), Zenon DEF V!isAborted, V!INVALID_TXN_ID
<1>9. ASSUME NEW reader
      PROVE  V!isVisible(States(d), r, reader)
               <=> state # "ABORTED" /\ (state = "COMMITTED" \/ i = reader)
  <2>1. V!isVisible(States(d), r, reader)
          <=> /\ V!isCommitted(States(d), i) \/ i = reader
              /\ ~V!isAborted(States(d), i)
              /\ \/ r.deleteTxnId = 0
                 \/ r.deleteTxnId # reader /\ ~V!isCommitted(States(d), r.deleteTxnId)
    BY Zenon DEF V!isVisible, V!INVALID_TXN_ID, i
  <2> QED
    BY <1>3, <1>7, <1>8, <2>1, Zenon
<1>10. V!isVisible(States(d), r, 0) <=> state = "COMMITTED"
  BY <1>2, <1>4, <1>9, Zenon
<1>11. InTransaction /\ owner.db = d =>
         (V!isVisible(States(d), r, currentTxn) <=> state = "COMMITTED" \/ i = currentTxn)
  BY <1>2, <1>6, <1>9, Zenon
<1> QED
  BY <1>10, <1>11, Zenon DEF i, state, INVALID_TXN_ID

\* The invariant says what the readers see.
LEMMA InvImplies == IInv => TransactionsAreKept
<1> SUFFICES ASSUME KInv, NEW d \in Databases
             PROVE  /\ {r.id : r \in {q \in rows[d] : V!isVisible(States(d), q, INVALID_TXN_ID)}}
                         = promised.committed[d]
                    /\ InTransaction /\ owner.db = d =>
                         {r.id : r \in {q \in rows[d] : V!isVisible(States(d), q, currentTxn)}}
                           = promised.committed[d] \cup promised.pending
  BY Zenon DEF IInv, TransactionsAreKept
<1>1. CommittedIds(d) = promised.committed[d]
  BY Zenon DEF KInv, RowsMatch
<1>2. {q \in rows[d] : V!isVisible(States(d), q, INVALID_TXN_ID)}
        = {q \in rows[d] : txns[d][q.createTxnId].state = "COMMITTED"}
  BY WhatIsSeen, Zenon
<1>3. ASSUME InTransaction, owner.db = d
      PROVE  {r.id : r \in {q \in rows[d] : V!isVisible(States(d), q, currentTxn)}}
               = promised.committed[d] \cup promised.pending
  <2>1. PendingIds(d) = promised.pending
    BY <1>3, SMTT(20), Zenon DEF KInv, RowsMatch
  <2>2. {q \in rows[d] : V!isVisible(States(d), q, currentTxn)}
          = {q \in rows[d] : txns[d][q.createTxnId].state = "COMMITTED"}
              \cup {q \in rows[d] : q.createTxnId = currentTxn}
    BY <1>3, WhatIsSeen, Zenon
  <2>3. {r.id : r \in {q \in rows[d] : V!isVisible(States(d), q, currentTxn)}}
          = CommittedIds(d) \cup PendingIds(d)
    BY <2>2, Zenon DEF CommittedIds, PendingIds
  <2> QED
    BY <1>1, <2>1, <2>3, Zenon
<1> QED
  BY <1>1, <1>2, <1>3, Zenon DEF CommittedIds

\* Whatever the number of clients, databases and requests, and whatever messages are
\* late or lost: as long as only the owner of the open transaction runs statements, and
\* in its database, SELECT shows everyone the committed rows, and its owner its own too.
THEOREM TransactionsKept == Spec => []TransactionsAreKept
BY InitInv, StepInv, InvImplies, PTL DEF Spec
==============================================================================
