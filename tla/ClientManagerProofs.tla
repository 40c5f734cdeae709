------------------------ MODULE ClientManagerProofs ------------------------
(***************************************************************************)
(* Proofs about ClientManager, for every list of clients, every set of     *)
(* servers and every limit of descriptors.  The first part holds of every  *)
(* configuration; the second of those whose OPC clients have one server    *)
(* (OneOpcServer), the third of those without RTU and with one OPC client  *)
(* at most (SafeConfig).                                                   *)
(***************************************************************************)
EXTENDS ClientManager, TLAPS

Modbus(i) == Protocol[i] # "OPC"

\* The handle owns one object and, while its session lasts, one descriptor;
\* until an OPC client has connected, the initialisation has no handle.
HandleInv ==
  /\ HandleAccounting
  /\ HoldsSocket(handler) => fds >= 1
  /\ mpc = "init" /\ ~opcOk => handler = Null

\* The flag of a Modbus client stands for a context, and nothing is read from
\* a client whose flag is down.
FlagInv ==
  /\ \A i \in Clients : Modbus(i) /\ connected[i] => context[i] # "null"
  /\ mpc = "receive" => connected[cur]

ManagerIInv == ManagerTypeOK /\ HandleInv /\ FlagInv

-----------------------------------------------------------------------------
(* What the calls of the connections return.                               *)

\* A probe never gives a descriptor back, and fails without one.
LEMMA CheckServerFacts ==
  ASSUME NEW i \in Clients, NEW n \in 0 .. FD_MAX, up \in [Servers -> BOOLEAN],
         NEW c \in checkServer(i, n)
  PROVE  /\ c.fds \in n .. FD_MAX
         /\ n = FD_MAX => ~c.ok
<1>1. FD_MAX \in Nat
  BY ManagerAssumption
<1>2. CASE n = FD_MAX
  BY <1>1, <1>2 DEF checkServer
<1>3. CASE n # FD_MAX
  BY <1>1, <1>3 DEF checkServer
<1> QED
  BY <1>2, <1>3

\* Nor does modbus_connect, which has no socket without one.
LEMMA ModbusConnectFacts ==
  ASSUME NEW i \in Clients, NEW n \in 0 .. FD_MAX, NEW m \in modbus_connect(i, n)
  PROVE  /\ m.fds \in n .. FD_MAX
         /\ m.link \in {"closed", "open"}
         /\ n = FD_MAX => m.link = "closed"
  BY ManagerAssumption DEF modbus_connect

\* The outcome of connecting: never "connected" without a context.
LEMMA ConnectOutcome ==
  ASSUME ManagerTypeOK, NEW i \in Clients, modbusConnect(i)
  PROVE  \E ok \in BOOLEAN, ctx \in ContextState, n \in fds .. FD_MAX :
           Settle(i, ok, ctx, n) /\ (ok => ctx # "null")
<1>1. FD_MAX \in Nat /\ fds \in 0 .. FD_MAX /\ fds \in fds .. FD_MAX /\ up \in [Servers -> BOOLEAN]
  BY ManagerAssumption DEF ManagerTypeOK
<1>2. CASE Settle(i, FALSE, "null", fds)
  BY <1>1, <1>2 DEF ContextState
<1>3. ASSUME NEW c \in checkServer(i, fds), ~c.ok, Settle(i, FALSE, "closed", c.fds)
      PROVE \E ok \in BOOLEAN, ctx \in ContextState, n \in fds .. FD_MAX :
              Settle(i, ok, ctx, n) /\ (ok => ctx # "null")
  BY <1>1, <1>3, CheckServerFacts DEF ContextState
<1>4. ASSUME NEW k \in fds .. FD_MAX, NEW m \in modbus_connect(i, k), Settle(i, TRUE, m.link, m.fds)
      PROVE \E ok \in BOOLEAN, ctx \in ContextState, n \in fds .. FD_MAX :
              Settle(i, ok, ctx, n) /\ (ok => ctx # "null")
  <2>1. k \in 0 .. FD_MAX
    BY <1>1, <1>4
  <2>2. m.fds \in k .. FD_MAX /\ m.link \in {"closed", "open"}
    BY <2>1, <1>4, ModbusConnectFacts
  <2>3. m.fds \in fds .. FD_MAX /\ m.link \in ContextState /\ m.link # "null"
    BY <1>1, <1>4, <2>2 DEF ContextState
  <2> QED
    BY <1>4, <2>3
<1>5. ASSUME NEW c \in checkServer(i, fds), NEW m \in modbus_connect(i, c.fds), Settle(i, TRUE, m.link, m.fds)
      PROVE \E ok \in BOOLEAN, ctx \in ContextState, n \in fds .. FD_MAX :
              Settle(i, ok, ctx, n) /\ (ok => ctx # "null")
  <2>1. c.fds \in fds .. FD_MAX
    BY <1>1, <1>5, CheckServerFacts
  <2> QED
    BY <1>4, <1>5, <2>1
<1> QED
  BY <1>1, <1>2, <1>3, <1>4, <1>5 DEF modbusConnect

\* The outcome of reconnecting: a client is signed only over an open connection,
\* for which it had a context and a descriptor; and never a descriptor less.
LEMMA ReconnectOutcome ==
  ASSUME ManagerTypeOK, NEW i \in Clients, modbusReconnect(i)
  PROVE  \E ok \in BOOLEAN, ctx \in ContextState, n \in fds .. FD_MAX :
           /\ Settle(i, ok, ctx, n)
           /\ ok => ctx = "open" /\ context[i] # "null" /\ fds # FD_MAX
           /\ context[i] = "null" => ctx = "null"
<1> DEFINE Outcome == \E ok \in BOOLEAN, ctx \in ContextState, n \in fds .. FD_MAX :
                        /\ Settle(i, ok, ctx, n)
                        /\ ok => ctx = "open" /\ context[i] # "null" /\ fds # FD_MAX
                        /\ context[i] = "null" => ctx = "null"
<1>1. FD_MAX \in Nat /\ fds \in 0 .. FD_MAX /\ fds \in fds .. FD_MAX /\ context[i] \in ContextState
      /\ up \in [Servers -> BOOLEAN]
  BY ManagerAssumption DEF ManagerTypeOK
<1>2. CASE Settle(i, FALSE, context[i], fds)
  BY <1>1, <1>2
<1>3. ASSUME context[i] # "null", NEW c \in checkServer(i, fds)
      PROVE /\ ~c.ok /\ Settle(i, FALSE, context[i], c.fds) => Outcome
            /\ c.ok /\ (\E m \in modbus_connect(i, c.fds) : Settle(i, m.link = "open", m.link, m.fds)) => Outcome
  <2>1. c.fds \in fds .. FD_MAX /\ c.fds \in 0 .. FD_MAX /\ (fds = FD_MAX => ~c.ok)
    BY <1>1, CheckServerFacts
  <2>2. ~c.ok /\ Settle(i, FALSE, context[i], c.fds) => Outcome
    BY <1>1, <1>3, <2>1
  <2>3. ASSUME c.ok, NEW m \in modbus_connect(i, c.fds), Settle(i, m.link = "open", m.link, m.fds)
        PROVE Outcome
    <3>1. m.fds \in fds .. FD_MAX /\ m.link \in {"closed", "open"}
      BY <1>1, <2>1, ModbusConnectFacts
    <3>2. m.link \in ContextState /\ m.link # "null" /\ fds # FD_MAX /\ (m.link = "open") \in BOOLEAN
      BY <2>1, <2>3, <3>1 DEF ContextState
    <3> QED
      BY <1>3, <2>3, <3>1, <3>2
  <2> QED
    BY <2>2, <2>3
<1> QED
  BY <1>2, <1>3 DEF modbusReconnect

\* Closing leaves no object, and gives back the descriptor of the session.
LEMMA CloseFacts ==
  ASSUME ManagerTypeOK, HandleInv
  PROVE  /\ opcCloseConnection.clients = 0
         /\ opcCloseConnection.fds \in 0 .. FD_MAX
         /\ ~HoldsSocket(handler) => opcCloseConnection.fds = fds
<1>1. FD_MAX \in Nat /\ fds \in 0 .. FD_MAX
  BY ManagerAssumption DEF ManagerTypeOK
<1>2. opcCloseConnection.clients = 0
  BY DEF opcCloseConnection, HandleInv, HandleAccounting
<1> QED
  BY <1>1, <1>2 DEF opcCloseConnection, HandleInv

\* Connecting without an object leaves one exactly when it succeeds.
LEMMA OpcOutcome ==
  ASSUME ManagerTypeOK, NEW i \in Clients, NEW m \in 0 .. FD_MAX, opcConnect(i, 0, m)
  PROVE  /\ context' = context
         /\ \A j \in Clients : j # i => connected'[j] = connected[j]
         /\ connected' \in [Clients -> BOOLEAN]
         /\ \/ /\ handler' = [server |-> Server[i], state |-> "session"]
               /\ uaClients' = 1 /\ fds' = m + 1 /\ fds' \in 1 .. FD_MAX /\ m # FD_MAX
               /\ connected'[i] = TRUE
            \/ /\ handler' = Null /\ uaClients' = 0
               /\ fds' \in 0 .. FD_MAX /\ (m = FD_MAX => fds' = m)
               /\ connected'[i] = FALSE
<1>1. FD_MAX \in Nat /\ connected \in [Clients -> BOOLEAN]
  BY ManagerAssumption DEF ManagerTypeOK
<1>2. CASE /\ m < FD_MAX /\ fds' = m + 1 /\ uaClients' = 0 + 1
           /\ handler' = [server |-> Server[i], state |-> "session"]
           /\ connected' = [connected EXCEPT ![i] = TRUE] /\ UNCHANGED context
  BY <1>1, <1>2
<1>3. CASE /\ handler' = Null /\ uaClients' = 0
           /\ fds' \in {m} \cup {k \in {m + 1} : up[Server[i]] /\ m < FD_MAX}
           /\ connected' = [connected EXCEPT ![i] = FALSE] /\ UNCHANGED context
  <2>1. fds' = m \/ (m < FD_MAX /\ fds' = m + 1)
    BY <1>3
  <2> QED
    BY <1>1, <1>3, <2>1
<1> QED
  BY <1>2, <1>3 DEF opcConnect

\* A settled call, and a session made, are of the right types.
LEMMA SettleType ==
  ASSUME ManagerTypeOK, NEW i \in Clients, NEW ok \in BOOLEAN, NEW ctx \in ContextState,
         NEW n \in fds .. FD_MAX, Settle(i, ok, ctx, n)
  PROVE  /\ connected' \in [Clients -> BOOLEAN] /\ context' \in [Clients -> ContextState]
         /\ fds' \in 0 .. FD_MAX /\ fds <= fds'
         /\ connected'[i] = ok /\ context'[i] = ctx
         /\ \A j \in Clients : j # i => connected'[j] = connected[j] /\ context'[j] = context[j]
         /\ UNCHANGED <<handler, uaClients>>
<1>1. FD_MAX \in Nat /\ fds \in 0 .. FD_MAX
  BY ManagerAssumption DEF ManagerTypeOK
<1> QED
  BY <1>1 DEF Settle, ManagerTypeOK

-----------------------------------------------------------------------------
(* The invariant of every configuration.                                   *)

LEMMA ManagerInvInit == ManagerInit => ManagerIInv
<1> SUFFICES ASSUME ManagerInit PROVE ManagerIInv
  OBVIOUS
<1>1. ClientCnt \in Nat \ {0} /\ FD_MAX \in Nat
  BY ManagerAssumption
<1>2. 0 \in Clients /\ 0 \in 0 .. FD_MAX
  BY <1>1 DEF Clients
<1>3. ManagerTypeOK
  BY <1>2 DEF ManagerInit, ManagerTypeOK, ContextState
<1>4. HandleInv /\ FlagInv
  BY DEF ManagerInit, HandleInv, HandleAccounting, HoldsSocket, Null, FlagInv
<1> QED
  BY <1>3, <1>4 DEF ManagerIInv

\* What any settled Modbus call preserves.
LEMMA SettleKeeps ==
  ASSUME ManagerIInv, NEW i \in Clients, Modbus(i), NEW ok \in BOOLEAN, NEW ctx \in ContextState,
         NEW n \in fds .. FD_MAX, Settle(i, ok, ctx, n), ok => ctx # "null"
  PROVE  /\ HandleAccounting' /\ (HoldsSocket(handler') => fds' >= 1)
         /\ \A j \in Clients : Modbus(j) /\ connected'[j] => context'[j] # "null"
<1>1. FD_MAX \in Nat /\ fds \in 0 .. FD_MAX /\ n \in Nat /\ fds <= n
  BY ManagerAssumption DEF ManagerIInv, ManagerTypeOK
<1>2. HandleAccounting' /\ (HoldsSocket(handler') => fds' >= 1)
  BY <1>1 DEF ManagerIInv, HandleInv, HandleAccounting, Settle
<1>3. ASSUME NEW j \in Clients, Modbus(j), connected'[j] PROVE context'[j] # "null"
  BY <1>3, SettleType DEF ManagerIInv, FlagInv
<1> QED
  BY <1>2, <1>3

LEMMA ManagerInvStep == ManagerIInv /\ [ManagerNext]_managerVars => ManagerIInv'
<1> SUFFICES ASSUME ManagerIInv, [ManagerNext]_managerVars PROVE ManagerIInv'
  OBVIOUS
<1>1. /\ ManagerTypeOK /\ HandleInv /\ FlagInv
      /\ ClientCnt \in Nat \ {0} /\ FD_MAX \in Nat /\ Server \in [Clients -> Servers]
      /\ fds \in 0 .. FD_MAX /\ cur \in Clients
      /\ connected \in [Clients -> BOOLEAN]
  BY ManagerAssumption DEF ManagerIInv, ManagerTypeOK
<1>2. CASE mpc = "init" /\ AfterInit /\ (InitModbus \/ InitOpc \/ InitOpcShared)
  <2>1. cur' \in Clients /\ mpc' \in {"init", "idle"} /\ UNCHANGED <<attempt, result, reading, up>>
    BY <1>1, <1>2 DEF AfterInit, Clients
  <2>2. CASE InitModbus
    <3>1. PICK ok \in BOOLEAN, ctx \in ContextState, n \in fds .. FD_MAX :
            Settle(cur, ok, ctx, n) /\ (ok => ctx # "null")
      BY <1>1, <2>2, ConnectOutcome DEF InitModbus
    <3>2. Modbus(cur) /\ opcOk' = opcOk
      BY <1>1, <2>2, <3>1, SettleType DEF InitModbus, Modbus, ManagerTypeOK
    <3>3. ManagerTypeOK'
      BY <1>1, <2>1, <3>1, <3>2, SettleType DEF ManagerTypeOK
    <3>4. /\ HandleAccounting' /\ (HoldsSocket(handler') => fds' >= 1)
          /\ \A j \in Clients : Modbus(j) /\ connected'[j] => context'[j] # "null"
      BY <1>1, <3>1, <3>2, SettleKeeps
    <3>5. mpc' = "init" /\ ~opcOk' => handler' = Null
      BY <1>1, <1>2, <3>1, <3>2 DEF HandleInv, Settle
    <3> QED
      BY <2>1, <3>3, <3>4, <3>5 DEF ManagerIInv, HandleInv, FlagInv
  <2>3. CASE InitOpc
    <3>1. handler = Null /\ uaClients = 0 /\ ~Modbus(cur)
      BY <1>1, <2>3 DEF InitOpc, HandleInv, HandleAccounting, Modbus
    <3>2. opcConnect(cur, 0, fds) /\ opcOk' = connected'[cur]
      BY <2>3, <3>1 DEF InitOpc
    <3>3. /\ context' = context
          /\ \A j \in Clients : j # cur => connected'[j] = connected[j]
          /\ connected' \in [Clients -> BOOLEAN]
          /\ \/ /\ handler' = [server |-> Server[cur], state |-> "session"]
                /\ uaClients' = 1 /\ fds' \in 1 .. FD_MAX /\ connected'[cur] = TRUE
             \/ /\ handler' = Null /\ uaClients' = 0 /\ fds' \in 0 .. FD_MAX
                /\ connected'[cur] = FALSE
      BY <1>1, <3>2, OpcOutcome
    <3>4. ManagerTypeOK'
      BY <1>1, <2>1, <3>2, <3>3 DEF ManagerTypeOK, SessionState
    <3>5. HandleInv'
      BY <1>1, <3>2, <3>3 DEF HandleInv, HandleAccounting, HoldsSocket, Null
    <3>6. FlagInv'
      BY <1>1, <2>1, <3>1, <3>3 DEF FlagInv
    <3> QED
      BY <3>4, <3>5, <3>6 DEF ManagerIInv
  <2>4. CASE InitOpcShared
    BY <1>1, <2>1, <2>4 DEF InitOpcShared, conn, ManagerIInv, ManagerTypeOK, HandleInv, HandleAccounting, FlagInv
  <2> QED
    BY <1>2, <2>2, <2>3, <2>4
<1>3. CASE Crash
  BY <1>1, <1>3 DEF Crash, conn, flags, ManagerIInv, ManagerTypeOK, HandleInv, HandleAccounting, FlagInv
<1>4. ASSUME NEW i \in Clients, Poll(i) PROVE ManagerIInv'
  <2>1. ManagerTypeOK'
    BY <1>1, <1>4 DEF Poll, conn, ManagerTypeOK
  <2>2. HandleInv' /\ FlagInv'
    BY <1>1, <1>4 DEF Poll, conn, HandleInv, HandleAccounting, FlagInv
  <2> QED
    BY <2>1, <2>2 DEF ManagerIInv
<1>5. CASE Reconnect
  <2>1. /\ mpc' = IF connected'[cur] THEN "receive" ELSE "idle"
        /\ UNCHANGED <<flags, up, cur>>
    BY <1>5 DEF Reconnect
  <2>2. CASE Modbus(cur)
    <3>1. modbusReconnect(cur)
      BY <1>5, <2>2 DEF Reconnect, manager_reconnect, Modbus
    <3>2. PICK ok \in BOOLEAN, ctx \in ContextState, n \in fds .. FD_MAX :
            Settle(cur, ok, ctx, n) /\ (ok => ctx # "null")
      BY <1>1, <3>1, ReconnectOutcome
    <3>3. ManagerTypeOK'
      BY <1>1, <2>1, <3>2, SettleType DEF ManagerTypeOK, flags
    <3>4. /\ HandleAccounting' /\ (HoldsSocket(handler') => fds' >= 1)
          /\ \A j \in Clients : Modbus(j) /\ connected'[j] => context'[j] # "null"
      BY <1>1, <2>2, <3>2, SettleKeeps
    <3> QED
      BY <2>1, <3>3, <3>4 DEF ManagerIInv, HandleInv, FlagInv
  <2>3. CASE ~Modbus(cur)
    <3>1. opcConnect(cur, 0, opcCloseConnection.fds) /\ opcCloseConnection.fds \in 0 .. FD_MAX
      BY <1>1, <1>5, <2>3, CloseFacts DEF Reconnect, manager_reconnect, Modbus
    <3>2. /\ context' = context
          /\ \A j \in Clients : j # cur => connected'[j] = connected[j]
          /\ connected' \in [Clients -> BOOLEAN]
          /\ \/ /\ handler' = [server |-> Server[cur], state |-> "session"]
                /\ uaClients' = 1 /\ fds' \in 1 .. FD_MAX
             \/ handler' = Null /\ uaClients' = 0 /\ fds' \in 0 .. FD_MAX
      BY <1>1, <3>1, OpcOutcome
    <3>3. ManagerTypeOK'
      BY <1>1, <2>1, <3>2 DEF ManagerTypeOK, SessionState, flags
    <3>4. HandleInv'
      BY <1>1, <2>1, <3>2 DEF HandleInv, HandleAccounting, HoldsSocket, Null
    <3>5. FlagInv'
      BY <1>1, <2>1, <2>3, <3>2 DEF FlagInv
    <3> QED
      BY <3>3, <3>4, <3>5 DEF ManagerIInv
  <2> QED
    BY <2>2, <2>3
<1>6. CASE ReceiveModbus \/ ReceiveOpc \/ ReceiveOpcRefused
  <2>1. /\ mpc = "receive" /\ UNCHANGED <<context, uaClients, up, cur>>
        /\ ReadFails \/ \E s \in Servers : ReadSucceeds(s)
    BY <1>1, <1>6 DEF ReceiveModbus, ReceiveOpc, ReceiveOpcRefused, ManagerTypeOK, Null, HoldsSocket
  <2>2. /\ \/ UNCHANGED <<handler, fds>>
           \/ /\ handler # Null /\ HoldsSocket(handler)
              /\ handler' = [handler EXCEPT !.state = "disconnected"] /\ fds' = fds - 1
    BY <1>6 DEF ReceiveModbus, ReceiveOpc, ReceiveOpcRefused
  <2>3. /\ handler' \in {Null} \cup [server : Servers, state : SessionState]
        /\ fds' \in 0 .. FD_MAX
        /\ handler' = Null <=> handler = Null
        /\ HoldsSocket(handler') => HoldsSocket(handler) /\ fds' = fds
    BY <1>1, <2>2 DEF ManagerTypeOK, HandleInv, HoldsSocket, SessionState, Null
  <2>4. /\ connected' \in [Clients -> BOOLEAN]
        /\ \A j \in Clients : connected'[j] => connected[j]
        /\ mpc' \in {"idle", "reconnect"}
        /\ attempt' \in {1, 2} /\ result' \in BOOLEAN /\ reading' \in Servers \cup {NoServer}
        /\ UNCHANGED opcOk
    BY <1>1, <2>1 DEF ReadFails, ReadSucceeds, FlagInv, ManagerTypeOK
  <2>5. ManagerTypeOK'
    BY <1>1, <2>1, <2>3, <2>4 DEF ManagerTypeOK
  <2>6. HandleInv' /\ FlagInv'
    BY <1>1, <2>1, <2>3, <2>4 DEF HandleInv, HandleAccounting, FlagInv
  <2> QED
    BY <2>5, <2>6 DEF ManagerIInv
<1>7. ASSUME NEW s \in Servers, ServerDown(s) PROVE ManagerIInv'
  <2>1. /\ up' \in [Servers -> BOOLEAN] /\ UNCHANGED <<connected, uaClients, fds, flags, mpc, cur>>
        /\ context' \in [Clients -> ContextState]
        /\ \A j \in Clients : context'[j] = "null" => context[j] = "null"
    BY <1>1, <1>7 DEF ServerDown, ManagerTypeOK, ContextState
  <2>2. /\ handler' \in {Null} \cup [server : Servers, state : SessionState]
        /\ handler' = Null <=> handler = Null
        /\ HoldsSocket(handler') <=> HoldsSocket(handler)
    BY <1>1, <1>7 DEF ServerDown, ManagerTypeOK, HoldsSocket, SessionState, Null
  <2>3. ManagerTypeOK'
    BY <1>1, <2>1, <2>2 DEF ManagerTypeOK, flags
  <2>4. HandleInv' /\ FlagInv'
    BY <1>1, <2>1, <2>2 DEF HandleInv, HandleAccounting, FlagInv, flags
  <2> QED
    BY <2>3, <2>4 DEF ManagerIInv
<1>8. ASSUME NEW s \in Servers, ServerUp(s) PROVE ManagerIInv'
  BY <1>1, <1>8 DEF ServerUp, conn, flags, ManagerIInv, ManagerTypeOK, HandleInv, HandleAccounting, FlagInv
<1>9. CASE UNCHANGED managerVars
  BY <1>1, <1>9 DEF managerVars, conn, flags, ManagerIInv, ManagerTypeOK, HandleInv, HandleAccounting, FlagInv
<1> QED
  BY <1>2, <1>3, <1>4, <1>5, <1>6, <1>7, <1>8, <1>9
  DEF ManagerNext, InitStep, InitModbus, InitOpc, InitOpcShared, InitRtuCrash, ReconnectRtuCrash,
      Receive, ReceiveRtuCrash, ReceiveOpcCrash

\* ManagerIInv is an invariant of the manager.
THEOREM ManagerInvariance == ManagerSafeSpec => []ManagerIInv
  BY ManagerInvInit, ManagerInvStep, PTL DEF ManagerSafeSpec

\* The state of the manager keeps its types; in particular no call uses more
\* descriptors than there are.
THEOREM ManagerTypeCorrect == ManagerSafeSpec => []ManagerTypeOK
<1>1. ManagerIInv => ManagerTypeOK
  BY DEF ManagerIInv
<1> QED
  BY ManagerInvariance, <1>1, PTL

\* No session object is lost or deleted twice, however many OPC clients
\* create and delete the one handle.
THEOREM HandleCorrect == ManagerSafeSpec => []HandleAccounting
<1>1. ManagerIInv => HandleAccounting
  BY DEF ManagerIInv, HandleInv
<1> QED
  BY ManagerInvariance, <1>1, PTL

-----------------------------------------------------------------------------
(* What is lost for good.                                                  *)

\* A client without a context gets none, and is never signed connected.
LEMMA NullStep ==
  ASSUME ManagerIInv, ManagerNext, NEW i \in Clients, mpc # "init", Modbus(i), context[i] = "null"
  PROVE  context'[i] = "null" /\ ~connected'[i]
<1>1. ManagerTypeOK /\ FlagInv /\ ~connected[i] /\ cur \in Clients
  BY DEF ManagerIInv, FlagInv, ManagerTypeOK
<1>2. CASE Crash
  BY <1>1, <1>2 DEF Crash, conn
<1>3. ASSUME NEW j \in Clients, Poll(j) PROVE context'[i] = "null" /\ ~connected'[i]
  BY <1>1, <1>3 DEF Poll, conn
<1>4. CASE Reconnect
  <2>1. CASE Modbus(cur)
    <3>1. PICK ok \in BOOLEAN, ctx \in ContextState, n \in fds .. FD_MAX :
            /\ Settle(cur, ok, ctx, n)
            /\ ok => context[cur] # "null"
            /\ context[cur] = "null" => ctx = "null"
      BY <1>1, <1>4, <2>1, ReconnectOutcome DEF Reconnect, manager_reconnect, Modbus
    <3> QED
      BY <1>1, <3>1, SettleType
  <2>2. CASE ~Modbus(cur)
    <3>1. opcConnect(cur, opcCloseConnection.clients, opcCloseConnection.fds) /\ cur # i
      BY <1>4, <2>2 DEF Reconnect, manager_reconnect, Modbus
    <3> QED
      BY <1>1, <3>1 DEF opcConnect, ManagerTypeOK
  <2> QED
    BY <2>1, <2>2
<1>5. CASE ReceiveModbus \/ ReceiveOpc \/ ReceiveOpcRefused
  <2>1. mpc = "receive" /\ cur # i /\ UNCHANGED context
    BY <1>1, <1>5 DEF ReceiveModbus, ReceiveOpc, ReceiveOpcRefused, FlagInv
  <2>2. connected'[i] = connected[i]
    BY <1>1, <1>5, <2>1 DEF ReceiveModbus, ReceiveOpc, ReceiveOpcRefused, ReadFails, ReadSucceeds, ManagerTypeOK
  <2> QED
    BY <1>1, <2>1, <2>2
<1>6. ASSUME NEW s \in Servers, ServerDown(s) PROVE context'[i] = "null" /\ ~connected'[i]
  BY <1>1, <1>6 DEF ServerDown
<1>7. ASSUME NEW s \in Servers, ServerUp(s) PROVE context'[i] = "null" /\ ~connected'[i]
  BY <1>1, <1>7 DEF ServerUp, conn
<1> QED
  BY <1>2, <1>3, <1>4, <1>5, <1>6, <1>7
  DEF ManagerNext, InitStep, InitModbus, InitOpc, InitOpcShared, InitRtuCrash, ReconnectRtuCrash,
      Receive, ReceiveRtuCrash, ReceiveOpcCrash

\* "No context, need reinit" is for ever.
THEOREM NullContext == ManagerSafeSpec => NullContextIsFinal
<1>1. ManagerIInv /\ [ManagerNext]_managerVars =>
        [\A i \in Clients : mpc # "init" /\ Protocol[i] # "OPC" /\ context[i] = "null"
             => context'[i] = "null" /\ ~connected'[i]]_managerVars
  BY NullStep DEF Modbus
<1> QED
  BY ManagerInvariance, <1>1, PTL DEF ManagerSafeSpec, NullContextIsFinal

\* Without a descriptor nothing is gained.
LEMMA StarvedStep ==
  ASSUME ManagerIInv, ManagerNext, mpc # "init", Starved
  PROVE  Starved' /\ \A i \in Clients : connected'[i] => connected[i]
<1>1. ManagerTypeOK /\ FlagInv /\ HandleInv /\ cur \in Clients /\ FD_MAX \in Nat /\ fds = FD_MAX /\ ~HoldsSocket(handler)
  BY ManagerAssumption DEF ManagerIInv, ManagerTypeOK, Starved
<1>2. CASE Crash
  BY <1>1, <1>2 DEF Crash, conn, Starved
<1>3. ASSUME NEW j \in Clients, Poll(j)
      PROVE Starved' /\ \A i \in Clients : connected'[i] => connected[i]
  BY <1>1, <1>3 DEF Poll, conn, Starved
<1>4. CASE Reconnect
  <2>1. CASE Modbus(cur)
    <3>1. PICK ok \in BOOLEAN, ctx \in ContextState, n \in fds .. FD_MAX :
            Settle(cur, ok, ctx, n) /\ (ok => fds # FD_MAX)
      BY <1>1, <1>4, <2>1, ReconnectOutcome DEF Reconnect, manager_reconnect, Modbus
    <3>2. n = FD_MAX /\ ok = FALSE
      BY <1>1, <3>1
    <3>3. fds' = FD_MAX /\ handler' = handler
      BY <3>1, <3>2 DEF Settle
    <3> QED
      BY <1>1, <3>1, <3>2, <3>3, SettleType DEF Starved
  <2>2. CASE ~Modbus(cur)
    <3>1. opcConnect(cur, 0, FD_MAX) /\ FD_MAX \in 0 .. FD_MAX
      BY <1>1, <1>4, <2>2, CloseFacts DEF Reconnect, manager_reconnect, Modbus
    <3>2. handler' = Null /\ fds' = FD_MAX /\ connected'[cur] = FALSE
          /\ \A j \in Clients : j # cur => connected'[j] = connected[j]
      BY <1>1, <3>1, OpcOutcome
    <3> QED
      BY <3>2 DEF Starved, HoldsSocket, Null
  <2> QED
    BY <2>1, <2>2
<1>5. CASE ReceiveModbus \/ ReceiveOpc \/ ReceiveOpcRefused
  <2>1. mpc = "receive" /\ UNCHANGED <<handler, fds>>
    BY <1>1, <1>5 DEF ReceiveModbus, ReceiveOpc, ReceiveOpcRefused
  <2>2. \A i \in Clients : connected'[i] => connected[i]
    BY <1>1, <1>5, <2>1 DEF ReceiveModbus, ReceiveOpc, ReceiveOpcRefused, ReadFails, ReadSucceeds, FlagInv, ManagerTypeOK
  <2> QED
    BY <1>1, <2>1, <2>2 DEF Starved
<1>6. ASSUME NEW s \in Servers, ServerDown(s)
      PROVE Starved' /\ \A i \in Clients : connected'[i] => connected[i]
  BY <1>1, <1>6 DEF ServerDown, Starved, HoldsSocket
<1>7. ASSUME NEW s \in Servers, ServerUp(s)
      PROVE Starved' /\ \A i \in Clients : connected'[i] => connected[i]
  BY <1>1, <1>7 DEF ServerUp, conn, Starved
<1> QED
  BY <1>2, <1>3, <1>4, <1>5, <1>6, <1>7
  DEF ManagerNext, InitStep, InitModbus, InitOpc, InitOpcShared, InitRtuCrash, ReconnectRtuCrash,
      Receive, ReceiveRtuCrash, ReceiveOpcCrash

\* Once the descriptors have run out they stay out, and a connection that is
\* lost from then on is not restored.
THEOREM Starvation == ManagerSafeSpec => StarvedForGood
<1>1. ManagerIInv /\ [ManagerNext]_managerVars =>
        [mpc # "init" /\ Starved
           => Starved' /\ \A i \in Clients : connected'[i] => connected[i]]_managerVars
  BY StarvedStep
<1> QED
  BY ManagerInvariance, <1>1, PTL DEF ManagerSafeSpec, StarvedForGood

-----------------------------------------------------------------------------
(* How long a call lasts.                                                  *)

\* The steps left of manager_receive_data: two reconnections and two reads.
CallSteps == CASE mpc = "reconnect" -> IF attempt = 1 THEN 4 ELSE 2
               [] mpc = "receive"   -> IF attempt = 1 THEN 3 ELSE 1
               [] OTHER             -> 0

Environment == \E s \in Servers : ServerDown(s) \/ ServerUp(s)

\* A call makes its way to its end in every step of its own, and servers that
\* come and go meanwhile do not send it back.
CallsEnd ==
  [][CallSteps # 0 => \/ CallSteps' < CallSteps
                      \/ Environment /\ CallSteps' = CallSteps]_managerVars

\* One step of a call that is under way.
LEMMA CallShortens ==
  ASSUME ManagerTypeOK, CallSteps # 0, Reconnect \/ ReconnectRtuCrash \/ Receive
  PROVE  CallSteps' < CallSteps
<1>1. attempt \in {1, 2}
  BY DEF ManagerTypeOK
<1>2. CASE Reconnect
  <2>1. mpc = "reconnect" /\ mpc' \in {"receive", "idle"} /\ attempt' = attempt
    BY <1>2 DEF Reconnect, flags
  <2> QED
    BY <1>1, <2>1 DEF CallSteps
<1>3. CASE ReconnectRtuCrash \/ ReceiveRtuCrash \/ ReceiveOpcCrash
  <2>1. mpc \in {"reconnect", "receive"} /\ mpc' = "crashed"
    BY <1>3 DEF ReconnectRtuCrash, ReceiveRtuCrash, ReceiveOpcCrash, Crash
  <2> QED
    BY <1>1, <2>1 DEF CallSteps
<1>4. CASE ReceiveModbus \/ ReceiveOpc \/ ReceiveOpcRefused
  <2>1. mpc = "receive"
    BY <1>4 DEF ReceiveModbus, ReceiveOpc, ReceiveOpcRefused
  <2>2. \/ mpc' = "idle"
        \/ mpc' = (IF attempt = 1 THEN "reconnect" ELSE "idle") /\ attempt' = 2
    BY <1>4 DEF ReceiveModbus, ReceiveOpc, ReceiveOpcRefused, ReadFails, ReadSucceeds
  <2> QED
    BY <1>1, <2>1, <2>2 DEF CallSteps
<1> QED
  BY <1>2, <1>3, <1>4 DEF Receive

\* manager_receive_data ends within four steps whatever its connections and
\* the servers do: it retries once.
THEOREM CallsEndCorrect == ManagerSafeSpec => CallsEnd
<1>1. ASSUME ManagerIInv, ManagerNext, CallSteps # 0
      PROVE \/ CallSteps' < CallSteps
            \/ Environment /\ CallSteps' = CallSteps
  <2>1. ManagerTypeOK /\ mpc \in {"reconnect", "receive"}
    BY <1>1 DEF ManagerIInv, ManagerTypeOK, CallSteps
  <2>2. CASE Environment
    BY <2>2 DEF Environment, ServerDown, ServerUp, flags, CallSteps
  <2>3. CASE Reconnect \/ ReconnectRtuCrash \/ Receive
    BY <1>1, <2>1, <2>3, CallShortens
  <2> QED
    BY <1>1, <2>1, <2>2, <2>3
    DEF ManagerNext, Environment, InitStep, InitModbus, InitRtuCrash, InitOpc, InitOpcShared, Poll
<1>2. ManagerIInv /\ [ManagerNext]_managerVars =>
        [CallSteps # 0 => \/ CallSteps' < CallSteps
                          \/ Environment /\ CallSteps' = CallSteps]_managerVars
  BY <1>1
<1> QED
  BY ManagerInvariance, <1>2, PTL DEF ManagerSafeSpec, CallsEnd

-----------------------------------------------------------------------------
(* What the manager takes for granted of the OPC UA session is what        *)
(* OpcSession promises, which UaClient implements.                         *)

\* The handle as the session sees it: that the peer has gone it has yet to
\* find out.
Handle == IF handler = Null THEN "null"
          ELSE IF HoldsSocket(handler) THEN "session" ELSE "disconnected"

\* A call is asked for its success in the initialisation, in a reconnection
\* and in a read; the process has no other sockets than the session's and
\* those that count among fds.
Initial   == INSTANCE OpcSession WITH handle <- Handle, sockets <- fds, ok <- opcOk
Again     == INSTANCE OpcSession WITH handle <- Handle, sockets <- fds, ok <- connected[cur]
Reading   == INSTANCE OpcSession WITH handle <- Handle, sockets <- fds, ok <- result

\* Until a call ends there is no success to report.
NoResultYet == mpc # "idle" => ~result

LEMMA ResultStep == NoResultYet /\ [ManagerNext]_managerVars => NoResultYet'
<1> SUFFICES ASSUME NoResultYet, [ManagerNext]_managerVars PROVE NoResultYet'
  OBVIOUS
<1> USE DEF NoResultYet
<1>1. CASE InitStep
  BY <1>1 DEF InitStep, InitModbus, InitRtuCrash, InitOpc, InitOpcShared, AfterInit, Crash, flags
<1>2. ASSUME NEW i \in Clients, Poll(i) PROVE NoResultYet'
  BY <1>2 DEF Poll
<1>3. CASE Reconnect \/ ReconnectRtuCrash
  BY <1>3 DEF Reconnect, ReconnectRtuCrash, Crash, flags
<1>4. CASE Receive
  BY <1>4 DEF Receive, ReceiveModbus, ReceiveRtuCrash, ReceiveOpc, ReceiveOpcRefused, ReceiveOpcCrash, ReadFails,
              ReadSucceeds, Crash, flags
<1>5. ASSUME NEW s \in Servers, ServerDown(s) \/ ServerUp(s) PROVE NoResultYet'
  BY <1>5 DEF ServerDown, ServerUp, flags
<1>6. CASE UNCHANGED managerVars
  BY <1>6 DEF managerVars, flags
<1> QED
  BY <1>1, <1>2, <1>3, <1>4, <1>5, <1>6 DEF ManagerNext

\* The outcomes of opcConnect, after the handle was closed, are outcomes of
\* Connect: those the manager distinguishes by the server are among them.
LEMMA ConnectPromised ==
  ASSUME ManagerTypeOK, HandleInv, NEW i \in Clients,
         opcConnect(i, opcCloseConnection.clients, opcCloseConnection.fds)
  PROVE  \/ /\ Again!Others < FD_MAX /\ Handle' = "session" /\ fds' = Again!Others + 1
            /\ connected'[i] = TRUE
         \/ /\ Handle' = "null" /\ connected'[i] = FALSE
            /\ fds' \in {Again!Others} \cup {n \in {Again!Others + 1} : n <= FD_MAX}
<1>1. /\ FD_MAX \in Nat /\ fds \in 0 .. FD_MAX
      /\ opcCloseConnection.clients = 0 /\ opcCloseConnection.fds \in 0 .. FD_MAX
  BY ManagerAssumption, CloseFacts DEF ManagerTypeOK
<1>2. opcCloseConnection.fds = Again!Others
  BY DEF opcCloseConnection, Again!Others, Handle, HoldsSocket, Null
<1> DEFINE m == opcCloseConnection.fds
<1>3. m \in 0 .. FD_MAX /\ m = Again!Others /\ opcConnect(i, 0, m)
  BY <1>1, <1>2
<1> HIDE DEF m
<1>4. CASE /\ m < FD_MAX /\ handler' = [server |-> Server[i], state |-> "session"]
           /\ fds' = m + 1 /\ connected' = [connected EXCEPT ![i] = TRUE]
  BY <1>3, <1>4 DEF Handle, HoldsSocket, Null, ManagerTypeOK
<1>5. CASE /\ handler' = Null /\ connected' = [connected EXCEPT ![i] = FALSE]
           /\ fds' \in {m} \cup {k \in {m + 1} : up[Server[i]] /\ m < FD_MAX}
  <2>1. fds' \in {m} \cup {n \in {m + 1} : n <= FD_MAX}
    BY <1>1, <1>3, <1>5
  <2> QED
    BY <1>3, <1>5, <2>1 DEF Handle, ManagerTypeOK
<1> QED
  BY <1>3, <1>4, <1>5 DEF opcConnect

\* Every call the manager makes into opc_connect.c is a call of OpcSession, and
\* nothing but these calls changes what the handle is to the session.
CallsOfSession ==
  [][/\ InitOpc => Initial!Connect
     /\ Reconnect /\ ~Modbus(cur) => Again!Connect
     /\ ReceiveOpc => Reading!Read
     /\ ~(InitOpc \/ (Reconnect /\ ~Modbus(cur)) \/ ReceiveOpc) => UNCHANGED Handle]_managerVars

LEMMA CallsOfSessionStep ==
  ASSUME ManagerIInv, NoResultYet, ManagerNext
  PROVE  /\ InitOpc => Initial!Connect
         /\ Reconnect /\ ~Modbus(cur) => Again!Connect
         /\ ReceiveOpc => Reading!Read
         /\ ~(InitOpc \/ (Reconnect /\ ~Modbus(cur)) \/ ReceiveOpc) => UNCHANGED Handle
<1>1. /\ ManagerTypeOK /\ HandleInv /\ cur \in Clients
      /\ connected \in [Clients -> BOOLEAN]
  BY DEF ManagerIInv, ManagerTypeOK
<1>2. ASSUME InitOpc PROVE Initial!Connect
  <2>1. handler = Null /\ uaClients = 0
    BY <1>1, <1>2 DEF InitOpc, HandleInv, HandleAccounting
  <2>2. opcCloseConnection.clients = uaClients /\ opcCloseConnection.fds = fds
    BY <2>1 DEF opcCloseConnection, HoldsSocket, Null
  <2>3. opcConnect(cur, opcCloseConnection.clients, opcCloseConnection.fds) /\ opcOk' = connected'[cur]
    BY <1>2, <2>2 DEF InitOpc
  <2>4. Again!Others = Initial!Others
    BY DEF Again!Others, Initial!Others
  <2> QED
    BY <1>1, <2>3, <2>4, ConnectPromised DEF Initial!Connect
<1>3. ASSUME Reconnect, ~Modbus(cur) PROVE Again!Connect
  <2>1. opcConnect(cur, opcCloseConnection.clients, opcCloseConnection.fds) /\ cur' = cur
    BY <1>3 DEF Reconnect, manager_reconnect, Modbus
  <2> QED
    BY <1>1, <2>1, ConnectPromised DEF Again!Connect
<1>4. ASSUME ReceiveOpc PROVE Reading!Read
  <2>1. ~result /\ handler # Null /\ handler.state \in SessionState
    BY <1>1, <1>4 DEF ReceiveOpc, NoResultYet, ManagerTypeOK
  <2>2. \/ /\ handler.state = "session" /\ result' = TRUE /\ UNCHANGED <<handler, fds>>
        \/ /\ result' = result /\ UNCHANGED <<handler, fds>>
        \/ /\ HoldsSocket(handler) /\ result' = result
           /\ handler' = [handler EXCEPT !.state = "disconnected"] /\ fds' = fds - 1
    BY <1>4 DEF ReceiveOpc, ReadSucceeds, ReadFails
  <2>3. CASE handler.state = "session" /\ result' = TRUE /\ UNCHANGED <<handler, fds>>
    BY <2>1, <2>3 DEF Reading!Read, Handle, HoldsSocket
  <2>4. CASE result' = result /\ UNCHANGED <<handler, fds>>
    BY <2>1, <2>4 DEF Reading!Read, Handle, HoldsSocket
  <2>5. CASE /\ HoldsSocket(handler) /\ result' = result
             /\ handler' = [handler EXCEPT !.state = "disconnected"] /\ fds' = fds - 1
    <3>1. Handle = "session"
      BY <2>1, <2>5 DEF Handle
    <3>2. handler'.state = "disconnected" /\ handler' # Null
      BY <1>1, <2>1, <2>5 DEF ManagerTypeOK, Null, SessionState
    <3>3. Handle' = "disconnected"
      BY <3>2 DEF Handle, HoldsSocket
    <3> QED
      BY <2>1, <2>5, <3>1, <3>3 DEF Reading!Read
  <2> QED
    BY <2>2, <2>3, <2>4, <2>5
<1>5. ASSUME ~(InitOpc \/ (Reconnect /\ ~Modbus(cur)) \/ ReceiveOpc) PROVE Handle' = Handle
  <2>1. CASE handler' = handler
    BY <2>1 DEF Handle, HoldsSocket
  <2>2. ASSUME NEW s \in Servers, ServerDown(s) PROVE Handle' = Handle
    <3>1. CASE handler = [server |-> s, state |-> "session"]
      BY <2>2, <3>1 DEF ServerDown, Handle, HoldsSocket, Null
    <3>2. CASE handler # [server |-> s, state |-> "session"]
      BY <2>1, <2>2, <3>2 DEF ServerDown
    <3> QED
      BY <3>1, <3>2
  <2>3. CASE InitModbus
    BY <1>1, <2>1, <2>3, ConnectOutcome DEF InitModbus, Settle
  <2>4. CASE Reconnect /\ Modbus(cur)
    BY <1>1, <2>1, <2>4, ReconnectOutcome DEF Reconnect, manager_reconnect, Modbus, Settle
  <2> QED
    BY <1>5, <2>1, <2>2, <2>3, <2>4
    DEF ManagerNext, InitStep, InitRtuCrash, InitOpcShared, Crash, Poll, ReconnectRtuCrash, Receive,
        ReceiveModbus, ReceiveRtuCrash, ReceiveOpcRefused, ReceiveOpcCrash, ServerUp, conn
<1> QED
  BY <1>2, <1>3, <1>4, <1>5

\* In every configuration the manager's calls have no outcome that the session
\* does not promise.
THEOREM SessionUsed == ManagerSafeSpec => CallsOfSession
<1>1. ManagerInit => NoResultYet
  BY DEF ManagerInit, NoResultYet
<1>2. ManagerSafeSpec => []NoResultYet
  BY <1>1, ResultStep, PTL DEF ManagerSafeSpec
<1>3. ManagerIInv /\ NoResultYet /\ [ManagerNext]_managerVars =>
        [/\ InitOpc => Initial!Connect
         /\ Reconnect /\ ~Modbus(cur) => Again!Connect
         /\ ReceiveOpc => Reading!Read
         /\ ~(InitOpc \/ (Reconnect /\ ~Modbus(cur)) \/ ReceiveOpc) => UNCHANGED Handle]_managerVars
  BY CallsOfSessionStep
<1> QED
  BY ManagerInvariance, <1>2, <1>3, PTL DEF ManagerSafeSpec, CallsOfSession

\* And it is checked with every outcome the session promises.  A connection to
\* a server that is up may have any of them: what the call leaves of the
\* handle, the manager does with it what it does in Reconnect.
THEOREM ConnectCovered ==
  ASSUME ManagerIInv, mpc = "reconnect", ~Modbus(cur), up[Server[cur]],
         connected' \in [Clients -> BOOLEAN],
         \A j \in Clients : j # cur => connected'[j] = connected[j],
         handler' = IF connected'[cur] THEN [server |-> Server[cur], state |-> "session"] ELSE Null,
         uaClients' = IF connected'[cur] THEN 1 ELSE 0,
         mpc' = IF connected'[cur] THEN "receive" ELSE "idle",
         UNCHANGED <<context, flags, up, cur>>,
         Again!Connect
  PROVE  Reconnect
<1>1. /\ ManagerTypeOK /\ HandleInv /\ cur \in Clients /\ connected \in [Clients -> BOOLEAN]
      /\ FD_MAX \in Nat /\ fds \in 0 .. FD_MAX
      /\ opcCloseConnection.clients = 0 /\ opcCloseConnection.fds \in 0 .. FD_MAX
  BY ManagerAssumption, CloseFacts DEF ManagerIInv, ManagerTypeOK
<1>2. opcCloseConnection.fds = Again!Others
  BY DEF opcCloseConnection, Again!Others, Handle, HoldsSocket, Null
<1>3. opcConnect(cur, 0, opcCloseConnection.fds)
  <2> DEFINE m == opcCloseConnection.fds
  <2>1. m \in 0 .. FD_MAX /\ m = Again!Others
    BY <1>1, <1>2
  <2> HIDE DEF m
  <2>2. ASSUME connected'[cur] PROVE opcConnect(cur, 0, m)
    <3>1. m < FD_MAX /\ fds' = m + 1
      BY <2>1, <2>2 DEF Again!Connect
    <3>2. connected' = [connected EXCEPT ![cur] = TRUE]
      BY <1>1, <2>2
    <3> QED
      BY <2>2, <3>1, <3>2 DEF opcConnect
  <2>3. ASSUME ~connected'[cur] PROVE opcConnect(cur, 0, m)
    <3>1. fds' \in {m} \cup {n \in {m + 1} : n <= FD_MAX}
      BY <2>1, <2>3 DEF Again!Connect
    <3>2. fds' \in {m} \cup {k \in {m + 1} : up[Server[cur]] /\ m < FD_MAX}
      BY <1>1, <2>1, <3>1
    <3>3. connected' = [connected EXCEPT ![cur] = FALSE]
      BY <1>1, <2>3
    <3> QED
      BY <2>3, <3>2, <3>3 DEF opcConnect
  <2>4. opcConnect(cur, 0, m)
    BY <2>2, <2>3
  <2> QED
    BY <2>4 DEF m
<1> QED
  BY <1>1, <1>3 DEF Reconnect, manager_reconnect, Modbus

\* A read over a session that has not lost its peer may have any of them too,
\* unless the client's type is one that is never read.  Of a session that has,
\* the manager expects the outcome that gives it up.
THEOREM ReadCovered ==
  ASSUME ManagerIInv, mpc = "receive", ~Modbus(cur), cur \notin Unreadable \cup LongNode,
         handler # Null, handler.state # "broken",
         result' \in BOOLEAN,
         IF result' THEN ReadSucceeds(handler.server) ELSE ReadFails,
         handler' \in {handler, [handler EXCEPT !.state = "disconnected"]},
         UNCHANGED <<context, uaClients, up, cur>>,
         Reading!Read
  PROVE  ReceiveOpc
<1>1. ManagerTypeOK /\ handler \in [server : Servers, state : SessionState]
  BY DEF ManagerIInv, ManagerTypeOK
<1>2. Handle = "session" => HoldsSocket(handler) /\ handler.state = "session"
  BY <1>1 DEF Handle, HoldsSocket, SessionState
<1>3. Handle' = "disconnected" \/ handler' = handler
  BY <1>1 DEF Handle, HoldsSocket, SessionState, Null
<1>4. CASE Handle = "session" /\ result' /\ UNCHANGED <<Handle, fds>>
  <2>1. handler' = handler
    BY <1>3, <1>4
  <2> QED
    BY <1>2, <1>4, <2>1 DEF ReceiveOpc, Modbus
<1>5. CASE ~result' /\ UNCHANGED <<Handle, fds>>
  <2>1. handler' = handler
    BY <1>1, <1>5 DEF Handle, HoldsSocket, SessionState, Null
  <2> QED
    BY <1>5, <2>1 DEF ReceiveOpc, Modbus
<1>6. CASE Handle = "session" /\ Handle' = "disconnected" /\ fds' = fds - 1 /\ ~result'
  <2>1. handler' = [handler EXCEPT !.state = "disconnected"]
    BY <1>6 DEF Handle, HoldsSocket
  <2> QED
    BY <1>2, <1>6, <2>1 DEF ReceiveOpc, Modbus
<1> QED
  BY <1>4, <1>5, <1>6 DEF Reading!Read
-----------------------------------------------------------------------------
(* What a call brings back.                                                *)

\* A call that reads again has just connected, and the session it has made
\* stays its own for as long as the call lasts.
RetryInv ==
  /\ NoResultYet
  /\ mpc = "receive" /\ attempt = 2 /\ ~Modbus(cur) => handler # Null /\ handler.server = Server[cur]
  /\ mpc = "idle" /\ result => connected[cur]
  /\ RetryReadsOwn

LEMMA RetryInit == ManagerInit => RetryInv
  BY DEF ManagerInit, RetryInv, NoResultYet, RetryReadsOwn

LEMMA RetryStep == ManagerIInv /\ RetryInv /\ [ManagerNext]_managerVars => RetryInv'
<1> SUFFICES ASSUME ManagerIInv, RetryInv, [ManagerNext]_managerVars PROVE RetryInv'
  OBVIOUS
<1>1. /\ ManagerTypeOK /\ HandleInv /\ FlagInv /\ cur \in Clients
      /\ connected \in [Clients -> BOOLEAN]
      /\ NoResultYet /\ NoResultYet'
  BY ResultStep DEF ManagerIInv, ManagerTypeOK, RetryInv
<1>2. CASE InitModbus \/ InitOpc \/ InitOpcShared
  <2>1. mpc = "init" /\ mpc' \in {"init", "idle"} /\ ~result'
    BY <1>1, <1>2 DEF InitModbus, InitOpc, InitOpcShared, AfterInit, NoResultYet
  <2> QED
    BY <1>1, <2>1 DEF RetryInv, RetryReadsOwn
<1>3. CASE Crash
  BY <1>1, <1>3 DEF Crash, RetryInv, RetryReadsOwn
<1>4. ASSUME NEW i \in Clients, Poll(i) PROVE RetryInv'
  BY <1>1, <1>4 DEF Poll, RetryInv, RetryReadsOwn
<1>5. CASE Reconnect
  <2>1. /\ mpc = "reconnect" /\ ~result' /\ UNCHANGED <<attempt, cur>>
        /\ mpc' = IF connected'[cur] THEN "receive" ELSE "idle"
    BY <1>1, <1>5 DEF Reconnect, flags, NoResultYet
  <2>2. ASSUME mpc' = "receive", ~Modbus(cur) PROVE handler' # Null /\ handler'.server = Server[cur]
    <3>1. opcConnect(cur, 0, opcCloseConnection.fds) /\ opcCloseConnection.fds \in 0 .. FD_MAX
      BY <1>1, <1>5, <2>2, CloseFacts DEF Reconnect, manager_reconnect, Modbus
    <3>2. \/ handler' = [server |-> Server[cur], state |-> "session"]
          \/ handler' = Null /\ connected'[cur] = FALSE
      BY <1>1, <3>1, OpcOutcome
    <3> QED
      BY <2>1, <2>2, <3>2 DEF Null
  <2> QED
    BY <1>1, <2>1, <2>2 DEF RetryInv, RetryReadsOwn
<1>6. CASE ReceiveModbus \/ ReceiveOpc \/ ReceiveOpcRefused
  <2>1. mpc = "receive" /\ connected[cur] /\ ~result /\ cur' = cur
    BY <1>1, <1>6 DEF ReceiveModbus, ReceiveOpc, ReceiveOpcRefused, FlagInv, NoResultYet
  <2>2. CASE ReadFails
    BY <1>1, <2>1, <2>2 DEF ReadFails, RetryInv, RetryReadsOwn
  <2>3. ASSUME NEW s, ReadSucceeds(s), attempt = 2 => s = Server[cur] PROVE RetryInv'
    BY <1>1, <2>1, <2>3 DEF ReadSucceeds, RetryInv, RetryReadsOwn
  <2>4. CASE ReceiveOpc /\ ReadSucceeds(handler.server)
    <3>1. attempt = 2 => handler.server = Server[cur]
      BY <2>1, <2>4 DEF ReceiveOpc, RetryInv, Modbus
    <3> QED
      BY <2>3, <2>4, <3>1
  <2> QED
    BY <1>6, <2>2, <2>3, <2>4 DEF ReceiveModbus, ReceiveOpc, ReceiveOpcRefused
<1>7. ASSUME NEW s \in Servers, ServerDown(s) PROVE RetryInv'
  <2>1. /\ handler' = Null <=> handler = Null
        /\ handler' # Null => handler'.server = handler.server
        /\ UNCHANGED <<connected, flags, mpc, cur>>
    BY <1>1, <1>7 DEF ServerDown, ManagerTypeOK, Null
  <2> QED
    BY <1>1, <2>1 DEF RetryInv, RetryReadsOwn, flags
<1>8. ASSUME NEW s \in Servers, ServerUp(s) PROVE RetryInv'
  BY <1>1, <1>8 DEF ServerUp, conn, flags, RetryInv, RetryReadsOwn
<1>9. CASE UNCHANGED managerVars
  BY <1>1, <1>9 DEF managerVars, conn, flags, RetryInv, RetryReadsOwn
<1> QED
  BY <1>2, <1>3, <1>4, <1>5, <1>6, <1>7, <1>8, <1>9
  DEF ManagerNext, InitStep, InitRtuCrash, ReconnectRtuCrash, Receive, ReceiveRtuCrash, ReceiveOpcCrash

LEMMA RetryInvariance == ManagerSafeSpec => []RetryInv
  BY ManagerInvariance, RetryInit, RetryStep, PTL DEF ManagerSafeSpec

\* In every configuration, with any number of OPC clients and servers, the
\* second read of a call reads from the client's own server.
THEOREM RetryCorrect == ManagerSafeSpec => []RetryReadsOwn
<1>1. RetryInv => RetryReadsOwn
  BY DEF RetryInv
<1> QED
  BY RetryInvariance, <1>1, PTL

-----------------------------------------------------------------------------
(* What the sign of a client says.                                         *)

\* The OPC clients that are signed are those of the session's own server.
OwnSigns == \A i \in OpcClients : connected[i] => handler # Null /\ handler.server = Server[i]

\* The initialisation connects for one OPC client at most.
LEMMA InitSignStep ==
  ASSUME ManagerIInv, mpc = "init", OwnSigns, [ManagerNext]_managerVars
  PROVE  OwnSigns'
<1>1. ManagerTypeOK /\ HandleInv /\ cur \in Clients /\ fds \in 0 .. FD_MAX
  BY DEF ManagerIInv, ManagerTypeOK
<1>2. \A i \in OpcClients : i \in Clients /\ ~Modbus(i)
  BY DEF OpcClients, Modbus
<1>3. CASE InitModbus
  <2>1. PICK ok \in BOOLEAN, ctx \in ContextState, n \in fds .. FD_MAX : Settle(cur, ok, ctx, n)
    BY <1>1, <1>3, ConnectOutcome DEF InitModbus
  <2>2. UNCHANGED handler /\ \A j \in Clients : j # cur => connected'[j] = connected[j]
    BY <1>1, <2>1, SettleType
  <2> QED
    BY <1>2, <1>3, <2>2 DEF InitModbus, Modbus, OwnSigns
<1>4. CASE InitOpc
  <2>1. handler = Null /\ opcConnect(cur, 0, fds)
    BY <1>1, <1>4 DEF InitOpc, HandleInv, HandleAccounting
  <2>2. \A i \in OpcClients : ~connected[i]
    BY <2>1 DEF OwnSigns
  <2>3. /\ \A j \in Clients : j # cur => connected'[j] = connected[j]
        /\ \/ handler' = [server |-> Server[cur], state |-> "session"]
           \/ handler' = Null /\ connected'[cur] = FALSE
    BY <1>1, <2>1, OpcOutcome
  <2> QED
    BY <1>2, <2>2, <2>3 DEF OwnSigns, Null
<1>5. CASE InitOpcShared
  BY <1>5 DEF InitOpcShared, conn, OwnSigns
<1>6. CASE Crash
  BY <1>6 DEF Crash, conn, OwnSigns
<1>7. ASSUME NEW s \in Servers, ServerDown(s) PROVE OwnSigns'
  <2>1. /\ handler' = Null <=> handler = Null
        /\ handler' # Null => handler'.server = handler.server
        /\ UNCHANGED connected
    BY <1>1, <1>7 DEF ServerDown, ManagerTypeOK, Null
  <2> QED
    BY <2>1 DEF OwnSigns
<1>8. ASSUME NEW s \in Servers, ServerUp(s) PROVE OwnSigns'
  BY <1>8 DEF ServerUp, conn, OwnSigns
<1>9. CASE UNCHANGED managerVars
  BY <1>9 DEF managerVars, conn, OwnSigns
<1> QED
  BY <1>3, <1>4, <1>5, <1>6, <1>7, <1>8, <1>9
  DEF ManagerNext, InitStep, InitRtuCrash, Poll, Reconnect, ReconnectRtuCrash, Receive, ReceiveModbus,
      ReceiveRtuCrash, ReceiveOpc, ReceiveOpcRefused, ReceiveOpcCrash

\* Nothing goes back to the initialisation.
LEMMA InitOnce == mpc # "init" /\ [ManagerNext]_managerVars => mpc' # "init"
<1> SUFFICES ASSUME mpc # "init", [ManagerNext]_managerVars PROVE mpc' # "init"
  OBVIOUS
<1>1. ASSUME NEW i \in Clients, Poll(i) PROVE mpc' # "init"
  BY <1>1 DEF Poll
<1>2. CASE Reconnect \/ ReconnectRtuCrash
  BY <1>2 DEF Reconnect, ReconnectRtuCrash, Crash
<1>3. CASE Receive
  BY <1>3 DEF Receive, ReceiveModbus, ReceiveRtuCrash, ReceiveOpc, ReceiveOpcRefused, ReceiveOpcCrash,
              ReadFails, ReadSucceeds, Crash
<1>4. ASSUME NEW s \in Servers, ServerDown(s) \/ ServerUp(s) PROVE mpc' # "init"
  BY <1>4 DEF ServerDown, ServerUp
<1> QED
  BY <1>1, <1>2, <1>3, <1>4
  DEF ManagerNext, InitStep, InitModbus, InitRtuCrash, InitOpc, InitOpcShared, managerVars

\* In every configuration the initialisation signs an OPC client connected
\* only if the session is with its server.
THEOREM InitSignCorrect == ManagerSafeSpec => InitSignsOwner
<1> DEFINE SignInv == mpc = "init" => OwnSigns
<1>1. ManagerInit => SignInv
  BY DEF ManagerInit, OwnSigns, OpcClients
<1>2. ManagerIInv /\ SignInv /\ [ManagerNext]_managerVars => SignInv'
  BY InitSignStep, InitOnce
<1>3. ManagerIInv /\ SignInv /\ [ManagerNext]_managerVars =>
        [mpc = "init" /\ mpc' = "idle" =>
           \A i \in OpcClients :
             connected'[i] => handler' # Null /\ handler'.server = Server[i]]_managerVars
  BY InitSignStep DEF OwnSigns
<1> QED
  BY ManagerInvariance, <1>1, <1>2, <1>3, PTL DEF ManagerSafeSpec, InitSignsOwner

\* What a step does to the sign of Modbus client i.
LEMMA SettlesStep ==
  ASSUME ManagerIInv, ManagerNext, mpc # "init", NEW i \in Clients, Modbus(i)
  PROVE  /\ SignAgrees(i) => SignAgrees(i)'
         /\ cur = i /\ mpc # "idle" /\ mpc' = "idle" => SignAgrees(i)'
<1>1. ManagerTypeOK /\ FlagInv /\ cur \in Clients /\ connected \in [Clients -> BOOLEAN]
  BY DEF ManagerIInv, ManagerTypeOK
<1> USE DEF SignAgrees
<1>2. CASE Crash
  BY <1>2 DEF Crash, conn
<1>3. ASSUME NEW j \in Clients, Poll(j)
      PROVE (SignAgrees(i) => SignAgrees(i)') /\ mpc = "idle"
  BY <1>3 DEF Poll, conn
<1>4. CASE Reconnect
  <2>1. CASE Modbus(cur)
    <3>1. PICK ok \in BOOLEAN, ctx \in ContextState, n \in fds .. FD_MAX :
            Settle(cur, ok, ctx, n) /\ (ok => ctx = "open")
      BY <1>1, <1>4, <2>1, ReconnectOutcome DEF Reconnect, manager_reconnect, Modbus
    <3>2. /\ connected'[cur] = ok /\ context'[cur] = ctx
          /\ \A j \in Clients : j # cur => connected'[j] = connected[j] /\ context'[j] = context[j]
      BY <1>1, <3>1, SettleType
    <3> QED
      BY <3>1, <3>2
  <2>2. CASE ~Modbus(cur)
    <3>1. opcConnect(cur, opcCloseConnection.clients, opcCloseConnection.fds) /\ cur # i
      BY <1>4, <2>2 DEF Reconnect, manager_reconnect, Modbus
    <3>2. connected'[i] = connected[i] /\ context' = context
      BY <1>1, <3>1 DEF opcConnect
    <3> QED
      BY <3>1, <3>2
  <2> QED
    BY <2>1, <2>2
<1>5. CASE ReceiveModbus \/ ReceiveOpc \/ ReceiveOpcRefused
  <2>1. mpc = "receive" /\ connected[cur] /\ UNCHANGED context
    BY <1>1, <1>5 DEF ReceiveModbus, ReceiveOpc, ReceiveOpcRefused, FlagInv
  <2>2. connected'[i] => connected[i]
    BY <1>1, <1>5, <2>1 DEF ReceiveModbus, ReceiveOpc, ReceiveOpcRefused, ReadFails, ReadSucceeds
  <2>3. ASSUME cur = i PROVE SignAgrees(i)'
    <3>1. ReceiveModbus
      BY <1>5, <2>3 DEF ReceiveOpc, ReceiveOpcRefused, Modbus
    <3>2. CASE ReadFails
      BY <1>1, <2>3, <3>2 DEF ReadFails
    <3>3. CASE context[cur] = "open"
      BY <2>1, <2>3, <3>3
    <3> QED
      BY <3>1, <3>2, <3>3 DEF ReceiveModbus
  <2> QED
    BY <2>1, <2>2, <2>3
<1>6. ASSUME NEW s \in Servers, ServerDown(s)
      PROVE (SignAgrees(i) => SignAgrees(i)') /\ mpc' = mpc
  BY <1>6 DEF ServerDown
<1>7. ASSUME NEW s \in Servers, ServerUp(s)
      PROVE (SignAgrees(i) => SignAgrees(i)') /\ mpc' = mpc
  BY <1>7 DEF ServerUp, conn
<1> QED
  BY <1>2, <1>3, <1>4, <1>5, <1>6, <1>7
  DEF ManagerNext, InitStep, InitModbus, InitOpc, InitOpcShared, InitRtuCrash, ReconnectRtuCrash,
      Receive, ReceiveRtuCrash, ReceiveOpcCrash, Crash

\* In every configuration a sign that the initialisation has got wrong does
\* not outlast the client's next call, and no other becomes wrong.
THEOREM SettleCorrect == ManagerSafeSpec => SignsSettle
<1>1. ManagerIInv /\ [ManagerNext]_managerVars =>
        [\A i \in Clients \ OpcClients : mpc # "init" =>
           /\ SignAgrees(i) => SignAgrees(i)'
           /\ cur = i /\ mpc # "idle" /\ mpc' = "idle" => SignAgrees(i)']_managerVars
  BY SettlesStep DEF Modbus, OpcClients
<1> QED
  BY ManagerInvariance, <1>1, PTL DEF ManagerSafeSpec, SignsSettle

-----------------------------------------------------------------------------
(* Configurations whose OPC clients all have one server.                   *)

OneOpcServer == \A i, j \in OpcClients : Server[i] = Server[j]

\* The session is then every OPC client's own.
SharedInv ==
  /\ handler # Null => \A i \in OpcClients : handler.server = Server[i]
  /\ OwnServer

LEMMA SharedStep ==
  ASSUME OneOpcServer
  PROVE  ManagerIInv /\ NoResultYet /\ SharedInv /\ [ManagerNext]_managerVars => SharedInv'
<1> SUFFICES ASSUME ManagerIInv, NoResultYet, SharedInv, [ManagerNext]_managerVars PROVE SharedInv'
  OBVIOUS
<1>1. /\ ManagerTypeOK /\ HandleInv /\ NoResultYet' /\ cur \in Clients /\ fds \in 0 .. FD_MAX
  BY ResultStep DEF ManagerIInv, ManagerTypeOK
<1>2. ASSUME NEW m \in 0 .. FD_MAX, opcConnect(cur, 0, m), ~Modbus(cur)
      PROVE handler' # Null => \A i \in OpcClients : handler'.server = Server[i]
  <2>1. cur \in OpcClients
    BY <1>1, <1>2 DEF OpcClients, Modbus
  <2>2. handler' = Null \/ handler' = [server |-> Server[cur], state |-> "session"]
    BY <1>1, <1>2, OpcOutcome
  <2> QED
    BY <2>1, <2>2 DEF OneOpcServer
<1>3. CASE InitModbus \/ InitOpc \/ InitOpcShared
  <2>1. ~result'
    BY <1>3 DEF InitModbus, InitOpc, InitOpcShared, AfterInit, NoResultYet
  <2>2. CASE InitModbus
    BY <1>1, <2>1, <2>2, ConnectOutcome DEF InitModbus, Settle, SharedInv, OwnServer
  <2>3. CASE InitOpc
    <3>1. opcConnect(cur, 0, fds) /\ ~Modbus(cur)
      BY <1>1, <2>3 DEF InitOpc, HandleInv, HandleAccounting, Modbus
    <3> QED
      BY <1>1, <1>2, <2>1, <3>1 DEF SharedInv, OwnServer
  <2>4. CASE InitOpcShared
    BY <2>1, <2>4 DEF InitOpcShared, conn, SharedInv, OwnServer
  <2> QED
    BY <1>3, <2>2, <2>3, <2>4
<1>4. CASE Crash
  BY <1>4 DEF Crash, conn, SharedInv, OwnServer
<1>5. ASSUME NEW i \in Clients, Poll(i) PROVE SharedInv'
  BY <1>5 DEF Poll, conn, SharedInv, OwnServer
<1>6. CASE Reconnect
  <2>1. ~result'
    BY <1>6 DEF Reconnect, flags, NoResultYet
  <2>2. CASE Modbus(cur)
    BY <1>1, <1>6, <2>1, <2>2, ReconnectOutcome
    DEF Reconnect, manager_reconnect, Modbus, Settle, SharedInv, OwnServer
  <2>3. CASE ~Modbus(cur)
    <3>1. opcConnect(cur, 0, opcCloseConnection.fds) /\ opcCloseConnection.fds \in 0 .. FD_MAX
      BY <1>1, <1>6, <2>3, CloseFacts DEF Reconnect, manager_reconnect, Modbus
    <3> QED
      BY <1>2, <2>1, <2>3, <3>1 DEF SharedInv, OwnServer
  <2> QED
    BY <2>2, <2>3
<1>7. CASE ReceiveModbus \/ ReceiveOpc \/ ReceiveOpcRefused
  <2>1. /\ mpc = "receive" /\ ~result /\ cur' = cur
        /\ handler' = Null <=> handler = Null
        /\ handler' # Null => handler'.server = handler.server
    BY <1>1, <1>7 DEF ReceiveModbus, ReceiveOpc, ReceiveOpcRefused, NoResultYet, ManagerTypeOK, HoldsSocket, Null
  <2>2. ReadFails \/ ReadSucceeds(Server[cur])
    <3>1. CASE ReceiveOpc
      <4>1. handler # Null /\ cur \in OpcClients
        BY <1>1, <3>1 DEF ReceiveOpc, OpcClients
      <4> QED
        BY <3>1, <4>1 DEF ReceiveOpc, SharedInv
    <3> QED
      BY <1>7, <3>1 DEF ReceiveModbus, ReceiveOpcRefused
  <2>3. result' => reading' = Server[cur]
    BY <2>1, <2>2 DEF ReadFails, ReadSucceeds
  <2> QED
    BY <2>1, <2>3 DEF SharedInv, OwnServer
<1>8. ASSUME NEW s \in Servers, ServerDown(s) PROVE SharedInv'
  <2>1. /\ handler' = Null <=> handler = Null
        /\ handler' # Null => handler'.server = handler.server
    BY <1>1, <1>8 DEF ServerDown, ManagerTypeOK, Null
  <2> QED
    BY <1>8, <2>1 DEF ServerDown, SharedInv, OwnServer, flags
<1>9. ASSUME NEW s \in Servers, ServerUp(s) PROVE SharedInv'
  BY <1>9 DEF ServerUp, conn, flags, SharedInv, OwnServer
<1>10. CASE UNCHANGED managerVars
  BY <1>10 DEF managerVars, conn, flags, SharedInv, OwnServer
<1> QED
  BY <1>3, <1>4, <1>5, <1>6, <1>7, <1>8, <1>9, <1>10
  DEF ManagerNext, InitStep, InitRtuCrash, ReconnectRtuCrash, Receive, ReceiveRtuCrash, ReceiveOpcCrash

\* There the first read of a call, too, is from the client's own server, and
\* the client is signed connected when the call has read anything.
LEMMA OwnServerInvariance ==
  ASSUME OneOpcServer
  PROVE  ManagerSafeSpec => [](OwnServer /\ (mpc = "idle" /\ result => connected[cur]))
<1>1. ManagerInit => SharedInv
  BY DEF ManagerInit, SharedInv, OwnServer
<1>2. RetryInv => NoResultYet /\ (mpc = "idle" /\ result => connected[cur])
  BY DEF RetryInv
<1>3. SharedInv => OwnServer
  BY DEF SharedInv
<1> QED
  BY ManagerInvariance, RetryInvariance, SharedStep, <1>1, <1>2, <1>3, PTL DEF ManagerSafeSpec

-----------------------------------------------------------------------------
(* Configurations without RTU and with one OPC client at most.             *)

SafeConfig ==
  /\ \A i \in Clients : Protocol[i] # "RTU"
  /\ \A i, j \in OpcClients : i = j

\* The handle is there while the OPC client is signed connected.
SafeInv ==
  /\ NoCrash
  /\ \A i \in OpcClients : connected[i] => handler # Null

LEMMA SafeInit == ManagerInit => SafeInv
  BY DEF ManagerInit, SafeInv, NoCrash, OpcClients

LEMMA SafeStep ==
  ASSUME SafeConfig
  PROVE  ManagerIInv /\ SafeInv /\ [ManagerNext]_managerVars => SafeInv'
<1> SUFFICES ASSUME ManagerIInv, SafeInv, [ManagerNext]_managerVars PROVE SafeInv'
  OBVIOUS
<1>1. /\ ManagerTypeOK /\ HandleInv /\ FlagInv /\ cur \in Clients
      /\ connected \in [Clients -> BOOLEAN] /\ fds \in 0 .. FD_MAX
  BY DEF ManagerIInv, ManagerTypeOK
<1>2. \A i \in OpcClients : i \in Clients /\ ~Modbus(i)
  BY DEF OpcClients, Modbus
<1>3. ASSUME Modbus(cur), mpc' # "crashed",
             NEW ok \in BOOLEAN, NEW ctx \in ContextState, NEW n \in fds .. FD_MAX, Settle(cur, ok, ctx, n)
      PROVE SafeInv'
  <2>1. UNCHANGED handler /\ \A j \in Clients : j # cur => connected'[j] = connected[j]
    BY <1>1, <1>3, SettleType
  <2> QED
    BY <1>2, <1>3, <2>1 DEF SafeInv, NoCrash
<1>4. ASSUME ~Modbus(cur), mpc' # "crashed", NEW m \in 0 .. FD_MAX, opcConnect(cur, 0, m)
      PROVE SafeInv'
  <2>1. \/ handler' = [server |-> Server[cur], state |-> "session"]
        \/ handler' = Null /\ connected'[cur] = FALSE
    BY <1>1, <1>4, OpcOutcome
  <2>2. \A i \in OpcClients : i = cur
    BY <1>1, <1>4 DEF SafeConfig, OpcClients, Modbus
  <2> QED
    BY <1>4, <2>1, <2>2 DEF SafeInv, NoCrash, Null
<1>5. CASE InitModbus
  <2>1. mpc' # "crashed" /\ Modbus(cur)
    BY <1>5 DEF InitModbus, AfterInit, Modbus
  <2> QED
    BY <1>1, <1>3, <1>5, <2>1, ConnectOutcome DEF InitModbus
<1>6. CASE InitOpc
  <2>1. mpc' # "crashed" /\ ~Modbus(cur) /\ opcConnect(cur, 0, fds)
    BY <1>1, <1>6 DEF InitOpc, AfterInit, Modbus, HandleInv, HandleAccounting
  <2> QED
    BY <1>1, <1>4, <2>1
<1>7. CASE InitOpcShared
  BY <1>7 DEF InitOpcShared, AfterInit, conn, SafeInv, NoCrash
<1>8. CASE InitRtuCrash \/ ReconnectRtuCrash \/ ReceiveRtuCrash \/ ReceiveOpcCrash
  <2>1. Protocol[cur] # "RTU"
    BY <1>1 DEF SafeConfig
  <2>2. mpc = "receive" /\ Protocol[cur] = "OPC" => handler # Null
    BY <1>1 DEF SafeInv, FlagInv, OpcClients
  <2> QED
    BY <1>8, <2>1, <2>2 DEF InitRtuCrash, ReconnectRtuCrash, ReceiveRtuCrash, ReceiveOpcCrash
<1>9. ASSUME NEW i \in Clients, Poll(i) PROVE SafeInv'
  BY <1>9 DEF Poll, conn, SafeInv, NoCrash
<1>10. CASE Reconnect
  <2>1. mpc' # "crashed"
    BY <1>10 DEF Reconnect
  <2>2. CASE Modbus(cur)
    BY <1>1, <1>3, <1>10, <2>1, <2>2, ReconnectOutcome DEF Reconnect, manager_reconnect, Modbus
  <2>3. CASE ~Modbus(cur)
    <3>1. opcConnect(cur, 0, opcCloseConnection.fds) /\ opcCloseConnection.fds \in 0 .. FD_MAX
      BY <1>1, <1>10, <2>3, CloseFacts DEF Reconnect, manager_reconnect, Modbus
    <3> QED
      BY <1>4, <2>1, <2>3, <3>1
  <2> QED
    BY <2>2, <2>3
<1>11. CASE ReceiveModbus \/ ReceiveOpc \/ ReceiveOpcRefused
  <2>1. mpc = "receive" /\ connected[cur] /\ (handler' = Null <=> handler = Null)
    BY <1>1, <1>11
    DEF ReceiveModbus, ReceiveOpc, ReceiveOpcRefused, FlagInv, ManagerTypeOK, HoldsSocket, Null
  <2>2. mpc' # "crashed" /\ \A i \in Clients : connected'[i] => connected[i]
    BY <1>1, <1>11, <2>1 DEF ReceiveModbus, ReceiveOpc, ReceiveOpcRefused, ReadFails, ReadSucceeds
  <2> QED
    BY <1>2, <2>1, <2>2 DEF SafeInv, NoCrash
<1>12. ASSUME NEW s \in Servers, ServerDown(s) PROVE SafeInv'
  BY <1>1, <1>12 DEF ServerDown, ManagerTypeOK, Null, SafeInv, NoCrash
<1>13. ASSUME NEW s \in Servers, ServerUp(s) PROVE SafeInv'
  BY <1>13 DEF ServerUp, conn, SafeInv, NoCrash
<1>14. CASE UNCHANGED managerVars
  BY <1>14 DEF managerVars, conn, SafeInv, NoCrash
<1> QED
  BY <1>5, <1>6, <1>7, <1>8, <1>9, <1>10, <1>11, <1>12, <1>13, <1>14 DEF ManagerNext, InitStep, Receive

LEMMA SafeInvariance ==
  ASSUME SafeConfig
  PROVE  ManagerSafeSpec => [](ManagerIInv /\ SafeInv)
<1>1. ManagerIInv /\ SafeInv /\ [ManagerNext]_managerVars => (ManagerIInv /\ SafeInv)'
  BY ManagerInvStep, SafeStep
<1>2. ManagerInit => ManagerIInv /\ SafeInv
  BY ManagerInvInit, SafeInit
<1> QED
  BY <1>1, <1>2, PTL DEF ManagerSafeSpec

\* manager_receive_data always comes back: no client and no order of failures
\* makes it follow an invalid pointer.
THEOREM CrashFree ==
  ASSUME SafeConfig
  PROVE  ManagerSafeSpec => []NoCrash
<1>1. ManagerIInv /\ SafeInv => NoCrash
  BY DEF SafeInv
<1> QED
  BY SafeInvariance, <1>1, PTL

\* A client that is signed connected has something to read from.
THEOREM SignCorrect ==
  ASSUME SafeConfig
  PROVE  ManagerSafeSpec => []ConnectedSign
<1>1. ManagerIInv /\ SafeInv => ConnectedSign
  BY DEF SafeInv, ManagerIInv, FlagInv, ConnectedSign, OpcClients, Modbus
<1> QED
  BY SafeInvariance, <1>1, PTL

=============================================================================
