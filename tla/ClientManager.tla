--------------------------- MODULE ClientManager ---------------------------
(***************************************************************************)
(* The connections of the client manager (client_manager.c) over Modbus    *)
(* (modbus_connect.c) and OPC UA (opc_connect.c).  Every client carries a  *)
(* "connected" flag; a Modbus client has a context of its own, all OPC     *)
(* clients share the one global session handle.  The manager connects to   *)
(* the clients in turn, then main surveys them one at a time with          *)
(* manager_receive_data, in any order.  Servers come and go on their own.  *)
(*                                                                         *)
(* The socket descriptors of the process are counted, because a call may   *)
(* open one and not close it.                                              *)
(***************************************************************************)
EXTENDS Integers

CONSTANTS
  ClientCnt,    \* _clientsCnt
  Protocol,     \* of each client: "TCP", "RTU" (Modbus) or "OPC"
  Server,       \* of each client: the address, device or OPC server set for it
  Servers,
  Unreadable,   \* OPC clients of data type "time", which opcReceiveData refuses
  LongNode,     \* OPC clients with a node name too long, refused before the stack is called
  FD_MAX        \* descriptors the connections may use before socket() fails

Clients == 0 .. ClientCnt - 1
OpcClients == {i \in Clients : Protocol[i] = "OPC"}

ASSUME ManagerAssumption ==
  /\ ClientCnt \in Nat \ {0}
  /\ Protocol \in [Clients -> {"TCP", "RTU", "OPC"}]
  /\ Server \in [Clients -> Servers]
  /\ Unreadable \subseteq OpcClients /\ LongNode \subseteq OpcClients
  /\ FD_MAX \in Nat

VARIABLES
  connected,   \* _clientSettings[i].connected
  context,     \* of a Modbus client: "null", "closed", "open", or "stale" when
               \* its peer has gone
  handler,     \* _handler: Null, or the server and the state of its session
  uaClients,   \* UA_Client objects allocated
  fds,         \* socket descriptors in use
  up,          \* the servers that answer
  mpc,          \* where the manager is
  cur,         \* the client it is busy with
  opcOk,       \* opcConnectedOk, of manager_init_connections
  attempt,     \* first or second read of manager_receive_data
  result,      \* what manager_receive_data returned last
  reading      \* the server the last data came from, or NoServer

flags == <<opcOk, attempt, result, reading>>
conn  == <<connected, context, handler, uaClients, fds>>
managerVars  == <<conn, flags, up, mpc, cur>>

Null     == [server |-> "none", state |-> "null"]
NoServer == "none"

ContextState == {"null", "closed", "open", "stale"}

\* A session is alive, has lost its peer, or was closed by the stack after a
\* failed request.
SessionState == {"session", "broken", "disconnected"}

HoldsSocket(h) == h.state \in {"session", "broken"}

ManagerTypeOK ==
  /\ connected \in [Clients -> BOOLEAN]
  /\ context \in [Clients -> ContextState]
  /\ handler \in {Null} \cup [server : Servers, state : SessionState]
  /\ uaClients \in Nat
  /\ fds \in 0 .. FD_MAX
  /\ up \in [Servers -> BOOLEAN]
  /\ mpc \in {"init", "idle", "reconnect", "receive", "crashed"}
  /\ cur \in Clients
  /\ opcOk \in BOOLEAN /\ result \in BOOLEAN
  /\ attempt \in {1, 2}
  /\ reading \in Servers \cup {NoServer}

ManagerInit ==
  /\ connected = [i \in Clients |-> FALSE]
  /\ context = [i \in Clients |-> "null"]
  /\ handler = Null
  /\ uaClients = 0
  /\ fds = 0
  /\ up \in [Servers -> BOOLEAN]
  /\ mpc = "init"
  /\ cur = 0
  /\ opcOk = FALSE /\ result = FALSE
  /\ attempt = 1
  /\ reading = NoServer

-----------------------------------------------------------------------------
(* Modbus.  A call with several outcomes is the set of them.               *)

\* A probe that goes on without a socket.
checkServerUnchecked(i, n) == {[ok |-> b, fds |-> n + 1] : b \in {FALSE, up[Server[i]]}}

\* checkServer with n descriptors in use: no socket left, or one more that is
\* shut down but never closed.  A server that is up may still be missed: the
\* connection is refused, times out, or is interrupted by SIGALRM.
checkServer(i, n) ==
  IF n = FD_MAX THEN {[ok |-> FALSE, fds |-> n]}
  ELSE {[ok |-> b, fds |-> n + 1] : b \in {FALSE, up[Server[i]]}}

\* modbus_connect: a new socket; whatever socket the context had is forgotten.
modbus_connect(i, n) ==
  {[link |-> "closed", fds |-> n]} \cup
  {[link |-> l, fds |-> n + 1] : l \in {x \in {"open"} : n < FD_MAX /\ up[Server[i]]}}

\* The manager's flag, the context and the descriptors after a call.
Settle(i, ok, ctx, n) ==
  /\ connected' = [connected EXCEPT ![i] = ok]
  /\ context' = [context EXCEPT ![i] = ctx]
  /\ fds' = n
  /\ UNCHANGED <<handler, uaClients>>

\* The process has dereferenced an invalid pointer.
Crash == mpc' = "crashed" /\ UNCHANGED <<conn, flags, up, cur>>

\* modbusConnect: the context may not be allocated; a server that is reached
\* but refuses the Modbus connection still counts as connected.
modbusConnect(i) ==
  \/ Settle(i, FALSE, "null", fds)
  \/ /\ Protocol[i] = "TCP"
     /\ \E c \in checkServer(i, fds) :
          \/ ~c.ok /\ Settle(i, FALSE, "closed", c.fds)
          \/ c.ok /\ \E m \in modbus_connect(i, c.fds) : Settle(i, TRUE, m.link, m.fds)
  \/ /\ Protocol[i] = "RTU"
     /\ \E m \in modbus_connect(i, fds) : Settle(i, TRUE, m.link, m.fds)

\* A reconnection that takes every outcome for a success.
modbusReconnectUnchecked(i) ==
  \E m \in modbus_connect(i, fds) :
    Settle(i, TRUE, IF context[i] = "null" THEN "null" ELSE m.link, m.fds)

\* A reconnection that would allocate a new context when there is none.
modbusReconnectFresh(i) ==
  \E c \in checkServer(i, fds) :
    \/ ~c.ok /\ Settle(i, FALSE, "closed", c.fds)
    \/ c.ok /\ \E m \in modbus_connect(i, c.fds) : Settle(i, m.link = "open", m.link, m.fds)

\* modbusReconnect: without a context there is nothing to reconnect.
modbusReconnect(i) ==
  \/ /\ context[i] = "null" \/ (Protocol[i] = "RTU" /\ fds = FD_MAX)
     /\ Settle(i, FALSE, context[i], fds)
  \/ /\ context[i] # "null" /\ Protocol[i] = "TCP"
     /\ \E c \in checkServer(i, fds) :
          \/ ~c.ok /\ Settle(i, FALSE, context[i], c.fds)
          \/ c.ok /\ \E m \in modbus_connect(i, c.fds) : Settle(i, m.link = "open", m.link, m.fds)

-----------------------------------------------------------------------------
(* OPC UA: one session for all OPC clients.                                *)

\* What opcCloseConnection leaves: the object is deleted, its socket closed.
opcCloseConnection ==
  [clients |-> IF handler = Null THEN uaClients ELSE uaClients - 1,
   fds     |-> IF HoldsSocket(handler) THEN fds - 1 ELSE fds]

\* opcConnect, called with n objects and m descriptors in use: a new object
\* takes the place of the global handle; if it cannot connect it is deleted,
\* with its socket left open if the server has accepted the connection but
\* its acknowledgement was missed (UaClient).
opcConnect(i, n, m) ==
  \/ /\ up[Server[i]] /\ m < FD_MAX
     /\ handler' = [server |-> Server[i], state |-> "session"]
     /\ uaClients' = n + 1
     /\ fds' = m + 1
     /\ connected' = [connected EXCEPT ![i] = TRUE]
     /\ UNCHANGED context
  \/ /\ handler' = Null
     /\ uaClients' = n
     /\ fds' \in {m} \cup {k \in {m + 1} : up[Server[i]] /\ m < FD_MAX}
     /\ connected' = [connected EXCEPT ![i] = FALSE]
     /\ UNCHANGED context

-----------------------------------------------------------------------------
(* manager_init_connections, one client per step.  Its result, of which main *)
(* prints a message, is left out.                                          *)

AfterInit ==
  /\ cur' = IF cur + 1 < ClientCnt THEN cur + 1 ELSE cur
  /\ mpc' = IF cur + 1 < ClientCnt THEN "init" ELSE "idle"
  /\ UNCHANGED <<attempt, result, reading, up>>

InitModbus ==
  /\ mpc = "init"
  /\ Protocol[cur] # "OPC"
  /\ modbusConnect(cur)
  /\ UNCHANGED opcOk
  /\ AfterInit

\* modbusConnect reports a failed RTU connection with a %s for the number of
\* the client (modbus_connect.c:118-120).
InitRtuCrash == mpc = "init" /\ Protocol[cur] = "RTU" /\ Crash

\* A loop that connects for every OPC client.
InitOpcEach ==
  /\ mpc = "init"
  /\ Protocol[cur] = "OPC"
  /\ opcConnect(cur, uaClients, fds)
  /\ opcOk' = connected'[cur]
  /\ AfterInit

\* The first OPC client that connects does it for all of them.
InitOpc ==
  /\ mpc = "init"
  /\ Protocol[cur] = "OPC"
  /\ ~opcOk
  /\ opcConnect(cur, uaClients, fds)
  /\ opcOk' = connected'[cur]
  /\ AfterInit

\* A loop that signs them connected as well.
InitOpcSharedSigned ==
  /\ mpc = "init"
  /\ Protocol[cur] = "OPC"
  /\ opcOk
  /\ connected' = [connected EXCEPT ![cur] = TRUE]
  /\ UNCHANGED <<context, handler, uaClients, fds, opcOk>>
  /\ AfterInit

\* The later ones are passed over: their flag stays as it was.
InitOpcShared ==
  /\ mpc = "init"
  /\ Protocol[cur] = "OPC"
  /\ opcOk
  /\ UNCHANGED <<conn, opcOk>>
  /\ AfterInit

-----------------------------------------------------------------------------
(* manager_receive_data: reconnect if the client is not connected, read,   *)
(* and if that fails reconnect and read once more.                         *)

Poll(i) ==
  /\ mpc = "idle"
  /\ cur' = i
  /\ mpc' = IF connected[i] THEN "receive" ELSE "reconnect"
  /\ attempt' = 1
  /\ result' = FALSE
  /\ reading' = NoServer
  /\ UNCHANGED <<conn, opcOk, up>>

\* A reconnection that takes the session there is, if it is alive.
manager_reconnectKeeps(i) ==
  \/ Protocol[i] # "OPC" /\ modbusReconnect(i)
  \/ /\ Protocol[i] = "OPC" /\ handler.state = "session"
     /\ connected' = [connected EXCEPT ![i] = TRUE]
     /\ UNCHANGED <<context, handler, uaClients, fds>>
  \/ /\ Protocol[i] = "OPC" /\ handler.state # "session"
     /\ opcConnect(i, opcCloseConnection.clients, opcCloseConnection.fds)

manager_reconnect(i) ==
  \/ Protocol[i] # "OPC" /\ modbusReconnect(i)
  \/ Protocol[i] = "OPC" /\ opcConnect(i, opcCloseConnection.clients, opcCloseConnection.fds)

\* A call that reads whether or not it could reconnect.
ReconnectUnchecked ==
  /\ mpc = "reconnect"
  /\ manager_reconnect(cur)
  /\ mpc' = "receive"
  /\ UNCHANGED <<flags, up, cur>>

\* A call that goes on until it has a connection.
ReconnectUntilConnected ==
  /\ mpc = "reconnect"
  /\ manager_reconnect(cur)
  /\ mpc' = IF connected'[cur] THEN "receive" ELSE "reconnect"
  /\ UNCHANGED <<flags, up, cur>>

Reconnect ==
  /\ mpc = "reconnect"
  /\ manager_reconnect(cur)
  /\ mpc' = IF connected'[cur] THEN "receive" ELSE "idle"
  /\ UNCHANGED <<flags, up, cur>>

\* checkServer hands the address an RTU client has not got to inet_pton.
ReconnectRtuCrash ==
  /\ mpc = "reconnect"
  /\ Protocol[cur] = "RTU" /\ context[cur] # "null" /\ fds < FD_MAX
  /\ Crash

\* A call that leaves a client whose read fails signed connected.
ReadFailsSigned ==
  /\ mpc' = "idle"
  /\ UNCHANGED <<connected, flags>>

\* What the call does with a read that failed, and with one that did not.
ReadFails ==
  /\ connected' = [connected EXCEPT ![cur] = FALSE]
  /\ mpc' = IF attempt = 1 THEN "reconnect" ELSE "idle"
  /\ attempt' = 2
  /\ UNCHANGED <<opcOk, result, reading>>

ReadSucceeds(s) ==
  /\ connected' = [connected EXCEPT ![cur] = @ \/ attempt = 2]
  /\ mpc' = "idle"
  /\ result' = TRUE
  /\ reading' = s
  /\ UNCHANGED <<opcOk, attempt>>

\* modbusReceiveData fails whenever there is no answer.
ReceiveModbus ==
  /\ mpc = "receive"
  /\ Protocol[cur] # "OPC"
  /\ \/ context[cur] = "open" /\ up[Server[cur]] /\ ReadSucceeds(Server[cur])
     \/ ReadFails
  /\ UNCHANGED <<context, handler, uaClients, fds, up, cur>>

\* It reports a failure on RTU with a %s for the number of the client too.
ReceiveRtuCrash == mpc = "receive" /\ Protocol[cur] = "RTU" /\ Crash

\* opcReceiveData on whatever session there is.  A request that fails may
\* make the stack close the session.
ReceiveOpc ==
  /\ mpc = "receive"
  /\ Protocol[cur] = "OPC"
  /\ cur \notin LongNode /\ handler # Null
  /\ \/ /\ handler.state = "session" /\ cur \notin Unreadable
        /\ ReadSucceeds(handler.server)
        /\ UNCHANGED <<handler, fds>>
     \/ /\ handler.state # "broken"
        /\ ReadFails
        /\ UNCHANGED <<handler, fds>>
     \/ /\ HoldsSocket(handler)
        /\ ReadFails
        /\ handler' = [handler EXCEPT !.state = "disconnected"]
        /\ fds' = fds - 1
  /\ UNCHANGED <<context, uaClients, up, cur>>

\* The node name is too long: the handle is not looked at.
ReceiveOpcRefused ==
  /\ mpc = "receive"
  /\ Protocol[cur] = "OPC"
  /\ cur \in LongNode
  /\ ReadFails
  /\ UNCHANGED <<context, handler, uaClients, fds, up, cur>>

\* The stack is handed the NULL handle.
ReceiveOpcCrash ==
  mpc = "receive" /\ Protocol[cur] = "OPC" /\ cur \notin LongNode /\ handler = Null /\ Crash

-----------------------------------------------------------------------------
(* The servers.                                                            *)

\* The peers of a server that goes are left with a dead connection.
ServerDown(s) ==
  /\ mpc # "crashed"
  /\ up[s]
  /\ up' = [up EXCEPT ![s] = FALSE]
  /\ context' = [i \in Clients |->
       IF Server[i] = s /\ Protocol[i] = "TCP" /\ context[i] = "open"
         THEN "stale" ELSE context[i]]
  /\ handler' = IF handler = [server |-> s, state |-> "session"]
                  THEN [handler EXCEPT !.state = "broken"] ELSE handler
  /\ UNCHANGED <<connected, uaClients, fds, flags, mpc, cur>>

ServerUp(s) ==
  /\ mpc # "crashed"
  /\ ~up[s]
  /\ up' = [up EXCEPT ![s] = TRUE]
  /\ UNCHANGED <<conn, flags, mpc, cur>>

InitStep == InitModbus \/ InitRtuCrash \/ InitOpc \/ InitOpcShared

Receive ==
  \/ ReceiveModbus \/ ReceiveRtuCrash
  \/ ReceiveOpc \/ ReceiveOpcRefused \/ ReceiveOpcCrash

ManagerNext ==
  \/ InitStep
  \/ \E i \in Clients : Poll(i)
  \/ Reconnect \/ ReconnectRtuCrash
  \/ Receive
  \/ \E s \in Servers : ServerDown(s) \/ ServerUp(s)

ManagerSafeSpec == ManagerInit /\ [][ManagerNext]_managerVars

(* A call of the manager comes to its end.  Main surveys every client again *)
(* and again (MainLoop, KeepsSurveying).  A server that answers does not    *)
(* for ever refuse a connection or a request that is tried again.          *)
ManagerFairness ==
  /\ WF_managerVars(InitStep \/ Reconnect \/ ReconnectRtuCrash \/ Receive)
  /\ \A i \in Clients :
       /\ SF_managerVars(Poll(i))
       /\ SF_managerVars(cur = i /\ Reconnect /\ connected'[i])
       /\ SF_managerVars(cur = i /\ Receive /\ result')

ManagerSpec == ManagerSafeSpec /\ ManagerFairness

-----------------------------------------------------------------------------
(* Properties of every configuration.                                      *)

\* The process never holds a session object it cannot reach any more, and
\* never reaches one it has deleted: all OPC clients share one handle, which
\* several places create, delete and overwrite.
HandleAccounting == uaClients = IF handler = Null THEN 0 ELSE 1

\* A Modbus client whose context could not be allocated when the manager
\* connected is lost for good: modbusReconnect asks for a new initialisation
\* and nothing in the program gives it one.
NullContextIsFinal ==
  [][\A i \in Clients :
       mpc # "init" /\ Protocol[i] # "OPC" /\ context[i] = "null"
         => context'[i] = "null" /\ ~connected'[i]]_managerVars

\* With no descriptor left, and none held by the OPC session, none will ever
\* be free again, and no client that has lost its connection gets it back.
Starved == fds = FD_MAX /\ ~HoldsSocket(handler)

StarvedForGood ==
  [][mpc # "init" /\ Starved
       => Starved' /\ \A i \in Clients : connected'[i] => connected[i]]_managerVars

\* The one session belongs to the client that has made it: when the manager
\* has connected to the clients, an OPC client that is signed connected finds
\* its own server there.  Those that were passed over are not signed, and
\* reconnect in their first survey.
InitSignsOwner ==
  [][mpc = "init" /\ mpc' = "idle" =>
       \A i \in OpcClients :
         connected'[i] => handler' # Null /\ handler'.server = Server[i]]_managerVars

\* A Modbus client is not signed connected unless it has a connection, which
\* may have lost its peer.
SignAgrees(i) == connected[i] => context[i] \in {"open", "stale"}

\* The initialisation signs a client connected whose server was reached and
\* then refused the connection.  That lasts until the client's next call and
\* does not come back: every call ends with a sign that agrees, and none that
\* agrees is made wrong, by whatever step of whichever client or server.
SignsSettle ==
  [][\A i \in Clients \ OpcClients : mpc # "init" =>
       /\ SignAgrees(i) => SignAgrees(i)'
       /\ cur = i /\ mpc # "idle" /\ mpc' = "idle" => SignAgrees(i)']_managerVars

\* What the second read of a call brings back is from the client's own server,
\* over a connection it is signed for, though the first may have failed over
\* the session of another client: a retry never uses the session it found.
RetryReadsOwn == mpc = "idle" /\ result /\ attempt = 2 => reading = Server[cur] /\ connected[cur]

-----------------------------------------------------------------------------
(* Properties of the configurations without RTU and with one OPC client    *)
(* at most.                                                                *)

\* The manager never dereferences an invalid pointer: manager_receive_data
\* always comes back with an answer.
NoCrash == mpc # "crashed"

\* The "connected" sign of a client is not left standing when the connection
\* has been given up: there is a context, or a handle, to read from.
ConnectedSign ==
  \A i \in Clients :
    connected[i] => IF Protocol[i] = "OPC" THEN handler # Null ELSE context[i] # "null"

\* Client i comes to be connected anew, and there are too few descriptors for
\* it: TCP takes two, OPC one after its session was closed.
LacksDescriptors(i) ==
  /\ mpc = "reconnect" /\ cur = i
  /\ IF Protocol[i] = "OPC" THEN opcCloseConnection.fds = FD_MAX ELSE fds > FD_MAX - 2

\* A client whose server stays up is read from again and again, unless its own
\* reconnections come to lack descriptors or its context was never allocated.
RecoversUnlessStarved ==
  \A i \in Clients \ (Unreadable \cup LongNode) :
    <>[]up[Server[i]]
      => []<>(mpc = "idle" /\ cur = i /\ result)
           \/ []<>LacksDescriptors(i)
           \/ <>(Protocol[i] # "OPC" /\ mpc # "init" /\ context[i] = "null")

-----------------------------------------------------------------------------
(* What the sources say of the manager and the program does not keep.      *)

\* manager_receive_data, "Receive data from client" (client_manager.c:546):
\* what a successful call returns was read from the server set for that very
\* client.
OwnServer == mpc = "idle" /\ result => reading = Server[cur]

=============================================================================
