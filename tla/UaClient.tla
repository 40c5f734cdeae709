------------------------------ MODULE UaClient ------------------------------
(***************************************************************************)
(* The blocking OPC UA client of open62541 as opc_connect.c uses it:       *)
(* UA_Client_new and UA_Client_connect, UA_Client_readValueAttribute,      *)
(* UA_Client_delete.  Each call is a sequence of steps over one TCP        *)
(* connection; a step that fails makes the functions around it disconnect  *)
(* one after the other, and disconnecting itself makes a service call that *)
(* may fail.  What is left to do by the functions that have been entered   *)
(* is the sequence todo.                                                   *)
(*                                                                         *)
(* The server answers, refuses, is late, or closes the connection when it  *)
(* likes.  A wait interrupted by SIGALRM goes on in the service calls, but *)
(* counts as an answer missed in the HEL/ACK handshake.  Messages are      *)
(* never encrypted, so that the endpoint chosen is one for the policy the  *)
(* channel has and there is no second connection to switch to it.          *)
(***************************************************************************)
EXTENDS Naturals, FiniteSets, Sequences, SequencesExt

CONSTANTS
  FD_MAX,   \* sockets the process may have before socket() fails
  ID_MAX    \* bound: no more reads once this many requests were sent

ASSUME UaClientAssumption == FD_MAX \in Nat /\ ID_MAX \in Nat \ {0}

VARIABLES
  object,     \* the UA_Client is allocated
  todo,       \* the steps that are left of the call under way
  state,      \* client->state
  tcp,        \* client->connection.state; open unless it is "CLOSED"
  channel,    \* client->channel.connection is set
  requestId,  \* client->requestId
  awaiting,   \* the request whose answer is waited for, or 0
  asked,      \* the requests the server may still answer on this connection
  lost,       \* sockets left open by objects that are gone
  ok,         \* the call under way, or the last one, has succeeded
  seen        \* the session at the last moment no call was under way

link == <<state, tcp, channel, requestId>>
vars == <<object, todo, link, awaiting, asked, lost, ok, seen>>

ClientState == {"DISCONNECTED", "CONNECTED", "SECURECHANNEL", "SESSION"}

Connecting == <<"new", "tcp", "hello", "open", "endpoints", "create", "activate">>
Deletion   == <<"disconnect", "free">>
Services   == {"open", "endpoints", "create", "activate", "read", "close"}
Ops        == Range(Connecting) \cup Services \cup Range(Deletion) \cup {"finish"}

Sockets == lost + (IF tcp = "CLOSED" THEN 0 ELSE 1)

\* The session as the client manager sees it.
SessionNow ==
  [handle  |-> IF ~object THEN "null" ELSE IF state = "SESSION" THEN "session" ELSE "disconnected",
   sockets |-> Sockets,
   ok      |-> ok]

Init ==
  /\ object = FALSE
  /\ todo = <<>>
  /\ state = "DISCONNECTED" /\ tcp = "CLOSED" /\ channel = FALSE /\ requestId = 0
  /\ awaiting = 0
  /\ asked = {}
  /\ lost = 0
  /\ ok = FALSE
  /\ seen = SessionNow

-----------------------------------------------------------------------------
(* The calls.                                                              *)

Enter(steps) ==
  /\ todo = <<>>
  /\ todo' = steps
  /\ ok' = FALSE
  /\ seen' = SessionNow
  /\ UNCHANGED <<object, link, awaiting, asked, lost>>

\* opcConnect, after opcCloseConnection when there is a handle.
Connect == Enter((IF object THEN Deletion ELSE <<>>) \o Connecting)

\* UA_Client_readValueAttribute; the manager never calls it without a handle.
Read == object /\ requestId < ID_MAX /\ Enter(<<"read">>)

-----------------------------------------------------------------------------
(* How the functions around a step go on.                                  *)

Doing(op) == todo # <<>> /\ Head(todo) = op

\* The disconnections on the way out of UA_Client_connect when a step fails,
\* by openSecureChannel, connectTCPSecureChannel, connectSession and
\* connectInternal; one more than needed does nothing.
Unwinding(op) == CASE op = "endpoints"                            -> 1
                   [] op \in {"tcp", "hello", "create", "activate"} -> 2
                   [] op = "open"                                 -> 3

\* What is left to do after a step has failed.  A failed connection is
\* deleted by opcConnect; the answer to a close request is not looked at.
OnFailure(op) ==
  IF op \in Range(Connecting)
    THEN [i \in 1 .. Unwinding(op) |-> "disconnect"] \o Deletion
    ELSE Tail(todo)

\* What is left after a service call without an answer: the service itself
\* disconnects first.
OnNoAnswer(op) == <<"disconnect">> \o OnFailure(op)

-----------------------------------------------------------------------------
(* Connecting.                                                             *)

New ==
  /\ Doing("new")
  /\ object' = TRUE
  /\ state' = "DISCONNECTED" /\ tcp' = "CLOSED" /\ channel' = FALSE /\ requestId' = 0
  /\ todo' = Tail(todo)
  /\ UNCHANGED <<awaiting, asked, lost, ok, seen>>

\* A connection that goes on without a socket.
OpenTcpUnchecked ==
  /\ Doing("tcp")
  /\ requestId' = 0
  /\ \/ tcp' = "OPENING" /\ todo' = Tail(todo)
     \/ tcp' = "CLOSED" /\ todo' = OnFailure("tcp")
  /\ UNCHANGED <<object, state, channel, awaiting, asked, lost, ok, seen>>

\* UA_ClientConnectionTCP closes the socket of every attempt but the last.
OpenTcp ==
  /\ Doing("tcp")
  /\ requestId' = 0
  /\ \/ Sockets < FD_MAX /\ tcp' = "OPENING" /\ todo' = Tail(todo)
     \/ tcp' = "CLOSED" /\ todo' = OnFailure("tcp")
  /\ UNCHANGED <<object, state, channel, awaiting, asked, lost, ok, seen>>

\* HelAckHandshake.  Only an acknowledgement that is accepted makes the
\* connection established; the socket is closed at once if it breaks.
Hello ==
  /\ Doing("hello")
  /\ \/ tcp' = "ESTABLISHED" /\ state' = "CONNECTED" /\ channel' = TRUE /\ todo' = Tail(todo)
     \/ tcp' = "CLOSED" /\ state' = "DISCONNECTED" /\ todo' = OnNoAnswer("hello") /\ UNCHANGED channel
     \/ todo' = OnNoAnswer("hello") /\ UNCHANGED <<state, tcp, channel>>
  /\ UNCHANGED <<object, requestId, awaiting, asked, lost, ok, seen>>

-----------------------------------------------------------------------------
(* The service calls: send a request, wait for its answer.                 *)

Serving(op) == op \in Services /\ Doing(op)

\* The message is encoded and written under the next id.
Send(op) ==
  /\ Serving(op) /\ awaiting = 0
  /\ channel /\ tcp # "CLOSED"
  /\ requestId' = requestId + 1
  /\ awaiting' = requestId + 1
  /\ asked' = asked \cup {requestId + 1}
  /\ UNCHANGED <<object, todo, state, tcp, channel, lost, ok, seen>>

\* There is no connection any more, or writing to it fails and closes it.
SendFailsKeeps(op) ==
  /\ Serving(op) /\ awaiting = 0
  /\ requestId' = requestId + 1
  /\ tcp' = IF channel THEN "CLOSED" ELSE tcp
  /\ asked' = IF tcp' = "CLOSED" THEN {} ELSE asked
  /\ todo' = OnFailure(op)
  /\ UNCHANGED <<object, state, channel, awaiting, lost, ok, seen>>
SendFails(op) ==
  /\ Serving(op) /\ awaiting = 0
  /\ requestId' = requestId + 1
  /\ tcp' = IF channel THEN "CLOSED" ELSE tcp
  /\ asked' = IF tcp' = "CLOSED" THEN {} ELSE asked
  /\ todo' = OnNoAnswer(op)
  /\ UNCHANGED <<object, state, channel, awaiting, lost, ok, seen>>

\* The state a client is in after a service has succeeded.
After(op) == CASE op = "open"     -> "SECURECHANNEL"
               [] op = "activate" -> "SESSION"
               [] OTHER           -> state

\* The answer to the request arrives.  A fault counts as success when a
\* channel is opened: its result is not looked at.
Answer(op) ==
  /\ Serving(op) /\ awaiting \in asked
  /\ asked' = asked \ {awaiting}
  /\ awaiting' = 0
  /\ \/ /\ todo' = Tail(todo)
        /\ state' = After(op)
        /\ ok' = (ok \/ op \in {"activate", "read"})
     \/ /\ op # "open"
        /\ todo' = OnFailure(op)
        /\ UNCHANGED <<state, ok>>
  /\ UNCHANGED <<object, tcp, channel, requestId, lost, seen>>

\* The answer to a request given up before: nothing is registered for it,
\* and the wait goes on.
LateAnswer(op) ==
  /\ Serving(op) /\ awaiting # 0
  /\ \E id \in asked \ {awaiting} : asked' = asked \ {id}
  /\ UNCHANGED <<object, todo, link, awaiting, lost, ok, seen>>

\* A wait that starts again when its time is over.
NoAnswerWaits(op) == Serving(op) /\ awaiting # 0 /\ UNCHANGED vars

\* A client that keeps the connection of a request it gives up.
NoAnswerKeeps(op) ==
  /\ Serving(op) /\ awaiting # 0
  /\ awaiting' = 0
  /\ todo' = OnFailure(op)
  /\ UNCHANGED <<object, link, asked, lost, ok, seen>>

\* The time is over, or what arrives cannot be accepted.
NoAnswer(op) ==
  /\ Serving(op) /\ awaiting # 0
  /\ awaiting' = 0
  /\ todo' = OnNoAnswer(op)
  /\ UNCHANGED <<object, link, asked, lost, ok, seen>>

\* The connection breaks, and receiving closes it.
PeerCloses(op) ==
  /\ Serving(op) /\ awaiting # 0
  /\ awaiting' = 0
  /\ asked' = {}
  /\ tcp' = "CLOSED"
  /\ state' = "DISCONNECTED"
  /\ todo' = OnNoAnswer(op)
  /\ UNCHANGED <<object, channel, requestId, lost, ok, seen>>

-----------------------------------------------------------------------------
(* Disconnecting: UA_Client_disconnect before and after the close request, *)
(* and UA_Client_delete, which does nothing about a socket still open.     *)

\* A disconnection that has the state changed by what it calls.
DisconnectKeepsState ==
  /\ Doing("disconnect")
  /\ todo' = (IF state = "SESSION" THEN <<"close">> ELSE <<>>) \o <<"finish">> \o Tail(todo)
  /\ UNCHANGED <<object, link, awaiting, asked, lost, ok, seen>>

Disconnect ==
  /\ Doing("disconnect")
  /\ todo' = (IF state = "SESSION" THEN <<"close">> ELSE <<>>) \o <<"finish">> \o Tail(todo)
  /\ state' = IF state = "SESSION" THEN "SECURECHANNEL" ELSE state
  /\ UNCHANGED <<object, tcp, channel, requestId, awaiting, asked, lost, ok, seen>>

\* A disconnection that closes the socket along with the channel only.
FinishByChannel ==
  /\ Doing("finish")
  /\ tcp' = IF channel /\ state = "SECURECHANNEL" THEN "CLOSED" ELSE tcp
  /\ asked' = IF tcp' = "CLOSED" THEN {} ELSE asked
  /\ requestId' = IF state = "SECURECHANNEL" THEN requestId + 1 ELSE requestId
  /\ state' = "DISCONNECTED"
  /\ channel' = FALSE
  /\ todo' = Tail(todo)
  /\ UNCHANGED <<object, awaiting, lost, ok, seen>>

\* A channel is closed with a request of its own and with the connection; a
\* connection that is still opening is passed over.
Finish ==
  /\ Doing("finish")
  /\ tcp' = IF (channel /\ state = "SECURECHANNEL") \/ tcp = "ESTABLISHED" THEN "CLOSED" ELSE tcp
  /\ asked' = IF tcp' = "CLOSED" THEN {} ELSE asked
  /\ requestId' = IF state = "SECURECHANNEL" THEN requestId + 1 ELSE requestId
  /\ state' = "DISCONNECTED"
  /\ channel' = FALSE
  /\ todo' = Tail(todo)
  /\ UNCHANGED <<object, awaiting, lost, ok, seen>>

Free ==
  /\ Doing("free")
  /\ object' = FALSE
  /\ lost' = Sockets
  /\ tcp' = "CLOSED"
  /\ todo' = Tail(todo)
  /\ UNCHANGED <<state, channel, requestId, awaiting, asked, ok, seen>>

-----------------------------------------------------------------------------

Client ==
  \/ New \/ OpenTcp \/ Hello
  \/ \E op \in Services : Send(op) \/ SendFails(op) \/ NoAnswer(op)
  \/ Disconnect \/ Finish \/ Free

Peer == \E op \in Services : Answer(op) \/ LateAnswer(op) \/ PeerCloses(op)

Next == Connect \/ Read \/ Client \/ Peer

\* The client goes on by itself, every wait having its limit; the server and
\* the manager need not do anything.
Spec == Init /\ [][Next]_vars /\ WF_vars(Client)

-----------------------------------------------------------------------------

TypeOK ==
  /\ object \in BOOLEAN /\ channel \in BOOLEAN /\ ok \in BOOLEAN
  /\ Range(todo) \subseteq Ops
  /\ state \in ClientState
  /\ tcp \in {"CLOSED", "OPENING", "ESTABLISHED"}
  /\ requestId \in Nat /\ awaiting \in 0 .. requestId /\ asked \subseteq 1 .. requestId
  /\ Sockets \in 0 .. FD_MAX

\* However its steps fail, a call as a whole does to the session what the
\* manager relies on: a connection is a session or is deleted, and a read
\* leaves the session as it was or disconnected with its socket closed.
Session == INSTANCE OpcSession WITH
  handle  <- IF todo = <<>> THEN SessionNow.handle ELSE seen.handle,
  sockets <- IF todo = <<>> THEN SessionNow.sockets ELSE seen.sockets,
  ok      <- IF todo = <<>> THEN ok ELSE seen.ok

ImplementsSession == Session!Spec

\* UA_Client_disconnect calls a service that calls UA_Client_disconnect when
\* it fails, which is likely when the connection is being closed because it
\* failed: there are never more than two of them at a time.
NestedDisconnect == Cardinality({i \in DOMAIN todo : todo[i] = "finish"}) <= 2

\* A request that was given up cannot be answered on the connection of a
\* later one: no session that is kept has an answer outstanding.
NoOldAnswers == todo = <<>> /\ state = "SESSION" => asked = {}

\* The socket of a client that is deleted is closed, whatever has failed,
\* unless it was the handshake that failed.
LosesOnlyOpening == [][lost' > lost => tcp = "OPENING"]_vars

\* Every call comes to its end, whatever the server does or does not do.
CallsReturn == todo # <<>> ~> todo = <<>>
=============================================================================
