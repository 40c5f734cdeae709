------------------------------- MODULE System -------------------------------
(***************************************************************************)
(* The main thread (MainLoop) with the client manager it calls             *)
(* (ClientManager): init_sys has the manager connect to the clients, and   *)
(* what is a survey's outcome in MainLoop is here a call of                *)
(* manager_receive_data, which runs until it returns or crashes the        *)
(* process.  Ticks arrive, and servers come and go, between any two steps  *)
(* of either.  The configuration is one that was accepted.                 *)
(***************************************************************************)
EXTENDS MainLoop, ClientManager

CONSTANT Rate       \* refresh rate of each client

VARIABLE calling    \* main is in manager_receive_data

ASSUME SystemAssumption ==
  /\ ClientCnt \in 1 .. MAX_CLIENT_NUM
  /\ Rate \in [0 .. ClientCnt - 1 -> RefreshRate]

systemVars == <<vars, managerVars, calling>>

SystemTypeOK == TypeOK /\ ManagerTypeOK /\ calling \in BOOLEAN

SystemInit ==
  /\ Init
  /\ cfgOk /\ cfgCnt = ClientCnt /\ cfgRate = Rate
  /\ ManagerInit
  /\ calling = FALSE

\* manager_init_connections, within init_sys and before the queue is cleared.
InitConnections ==
  /\ pc = "init_manager" /\ ~dev_status.manager
  /\ InitStep
  /\ UNCHANGED <<vars, calling>>

\* The steps main takes outside of the manager.
MainAlone ==
  /\ mpc # "crashed"
  /\ \/ InitMqtt \/ FillQueue \/ InitTimer
     \/ InitManager /\ mpc # "init"
     \/ SkipScan \/ BeginScan \/ SendData \/ EndScan
  /\ UNCHANGED <<managerVars, calling>>

\* Main calls manager_receive_data for the client the queue has given.
Call ==
  /\ pc = "survey" /\ tempClientIdx # None
  /\ ~calling
  /\ Poll(tempClientIdx)
  /\ calling' = TRUE
  /\ UNCHANGED vars

Work ==
  /\ calling
  /\ Reconnect \/ ReconnectRtuCrash \/ Receive
  /\ UNCHANGED <<vars, calling>>

\* A main that publishes whatever the call has returned.
ReturnUnchecked ==
  /\ calling
  /\ mpc = "idle"
  /\ ReceiveOk
  /\ calling' = FALSE
  /\ UNCHANGED managerVars

Return ==
  /\ calling
  /\ mpc = "idle"
  /\ \/ result /\ ReceiveOk
     \/ ~result /\ ReceiveError
  /\ calling' = FALSE
  /\ UNCHANGED managerVars

MainThread == InitConnections \/ MainAlone \/ Call \/ Work \/ Return

Signal == mpc # "crashed" /\ Tick /\ UNCHANGED <<managerVars, calling>>

World == (\E s \in Servers : ServerDown(s) \/ ServerUp(s)) /\ UNCHANGED <<vars, calling>>

SystemNext == MainThread \/ Signal \/ World

SystemSafeSpec == SystemInit /\ [][SystemNext]_systemVars

(* One thread, never blocked for ever, and the interval timer.  The broker, *)
(* setitimer and a server that answers do not refuse for ever what is tried*)
(* again and again.  Nothing is assumed of the order or the frequency in    *)
(* which clients are surveyed, nor that a survey comes to its end.         *)
SystemFairness ==
  /\ WF_systemVars(MainThread)
  /\ WF_systemVars(Signal)
  /\ SF_systemVars(MainAlone /\ pc = "init_sys" /\ dev_status'.mqtt)
  /\ SF_systemVars(MainAlone /\ pc = "init_timer" /\ armed')
  /\ \A i \in Clients :
       /\ SF_systemVars(Work /\ cur = i /\ mpc = "reconnect" /\ connected'[i])
       /\ SF_systemVars(Work /\ cur = i /\ result')

SystemSpec == SystemSafeSpec /\ SystemFairness

-----------------------------------------------------------------------------
(* Properties.  The configuration has no RTU client and one OPC client at  *)
(* most.                                                                   *)

\* What is about to be published was received, by this very survey, from the
\* server set for the client the queue has named: the index goes through
\* queue, main and manager, and neither a failed survey nor a reconnection
\* on the way leaves the reading of another client behind.
PublishesOwnServer ==
  pc = "send" => /\ reading = Server[tempClientIdx]
                 /\ result /\ cur = tempClientIdx /\ connected[cur]

\* With the manager's calls taken step by step the main thread still is
\* MainLoop, and what that module assumes of it holds: a survey always comes
\* to its end, so that MainLoop may take it for its outcome.
ImplementsMainLoop == SafeSpec /\ WF_vars(Main)

\* The manager is called as ClientManager has it: one call at a time, after
\* its initialisation, each for a client it has.
ImplementsManager == ManagerSafeSpec

\* From the device to the broker: a client whose server stays up is published
\* again and again, whatever the servers of the others do, unless the
\* client's own reconnections come to lack descriptors or its context was never
\* allocated.
PublishesAgain ==
  \A i \in Clients \ (Unreadable \cup LongNode) :
    <>[]up[Server[i]]
      => []<>(pc = "send" /\ clientData = i)
           \/ []<>LacksDescriptors(i)
           \/ <>(Protocol[i] # "OPC" /\ mpc # "init" /\ context[i] = "null")
=============================================================================
