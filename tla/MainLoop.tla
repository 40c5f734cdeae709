------------------------------ MODULE MainLoop ------------------------------
(***************************************************************************)
(* The program's main thread (main.c): init_sys, retried until everything  *)
(* is ready, then an endless polling of the period flags; a raised flag    *)
(* starts a scan of the clients of its rate.  The module composes the      *)
(* client queue and the timer with the main thread; what a survey of one   *)
(* client does (client_manager.c) is here its outcome only, and is         *)
(* ClientManager's subject.                                                *)
(***************************************************************************)
EXTENDS ClientQueue, Timer

VARIABLES
  cfgCnt, cfgRate, cfgOk,   \* the configuration file: how many clients, their
                            \* refresh rates, and whether its settings parse
  clientsCnt,               \* _clientsCnt
  pc,                       \* where the main thread is
  fill,                     \* the loop counter i of init_sys
  dev_status,               \* state, timer, mqtt, manager
  stage,                    \* the rate whose flag the main loop looks at
  clientData                \* whose reading the buffer clientData holds

cfgVars  == <<cfgCnt, cfgRate, cfgOk>>
mainVars == <<clientsCnt, pc, fill, dev_status, stage, clientData>>
vars     == <<cfgVars, mainVars, queueVars, timerVars>>

InitPoints    == {"init_sys", "init_manager", "fill", "init_timer"}
ProcessPoints == {"check", "survey", "send"}

\* manager_init_config accepts the file.
ConfigAccepted == cfgOk /\ cfgCnt \in 1 .. MAX_CLIENT_NUM

\* The clients the configuration file gives rate r.
ClientsOf(r) == {i \in 0 .. cfgCnt - 1 : cfgRate[i] = r}

Init ==
  /\ \E n \in 0 .. MAX_CLIENT_NUM + 1 :
       cfgCnt = n /\ cfgRate \in [0 .. n - 1 -> RefreshRate]
  /\ cfgOk \in BOOLEAN
  /\ clientsCnt = 0
  /\ pc = "init_sys"
  /\ fill = 0
  /\ dev_status = [state |-> "INIT_SYS", timer |-> FALSE, mqtt |-> FALSE, manager |-> FALSE]
  /\ stage = "100ms"
  /\ clientData = None
  /\ rate = [r \in RefreshRate |-> [p \in Cells |-> 0]]
  /\ pos  = [r \in RefreshRate |-> 0]
  /\ tempClientIdx = None
  /\ TimerInit

-----------------------------------------------------------------------------
(* init_sys.  The timer is stopped first, so no handler runs until the     *)
(* last step has started it again.                                         *)

InitMqtt ==
  /\ pc = "init_sys"
  /\ timer_stop
  /\ \E ok \in BOOLEAN :
       dev_status' = [dev_status EXCEPT !.timer = FALSE, !.mqtt = @ \/ ok]
  /\ pc' = "init_manager"
  /\ UNCHANGED <<cfgVars, clientsCnt, fill, stage, clientData, queueVars>>

\* The settings are read once; a file that is not accepted makes init_sys
\* return, and the main loop calls it again.
InitManager ==
  /\ pc = "init_manager"
  /\ \/ /\ dev_status.manager
        /\ pc' = "init_timer"
        /\ UNCHANGED <<clientsCnt, fill, rate, pos>>
     \/ /\ ~dev_status.manager
        /\ ConfigAccepted
        /\ clientsCnt' = cfgCnt
        /\ queueCleen
        /\ fill' = 0
        /\ pc' = "fill"
     \/ /\ ~dev_status.manager
        /\ ~ConfigAccepted
        /\ clientsCnt' \in {clientsCnt, cfgCnt}   \* unchanged without a list of clients
        /\ pc' = "init_sys"
        /\ UNCHANGED <<fill, rate, pos>>
  /\ UNCHANGED <<cfgVars, dev_status, stage, clientData, tempClientIdx, timerVars>>

\* A filling loop that leaves out the last client.
MoreClientsButLast == fill < MAX_CLIENT_NUM /\ fill < clientsCnt - 1

\* manager_get_client(i) is not NULL and i is within the loop.
MoreClients == fill < MAX_CLIENT_NUM /\ fill < clientsCnt

FillQueue ==
  /\ pc = "fill"
  /\ \/ /\ MoreClients
        /\ queueAdd(cfgRate[fill], fill)
        /\ fill' = fill + 1
        /\ UNCHANGED <<pc, dev_status>>
     \/ /\ MoreClients
        /\ queueFull(cfgRate[fill])
        /\ pc' = "init_sys"
        /\ UNCHANGED <<rate, fill, dev_status>>
     \/ /\ ~MoreClients
        /\ dev_status' = [dev_status EXCEPT !.manager = TRUE]
        /\ pc' = "init_timer"
        /\ UNCHANGED <<rate, fill>>
  /\ UNCHANGED <<cfgVars, clientsCnt, stage, clientData, pos, tempClientIdx, timerVars>>

\* A start that does not wait for the broker.
ReadyWithoutMqtt == dev_status.manager

Ready == dev_status.manager /\ dev_status.mqtt

InitTimer ==
  /\ pc = "init_timer"
  /\ \/ /\ Ready
        /\ timer_start
        /\ dev_status' = [dev_status EXCEPT !.timer = TRUE, !.state = "PROCESS"]
        /\ pc' = "check"
     \/ /\ pc' = "init_sys"            \* not ready, or setitimer failed: wait and repeat
        /\ UNCHANGED <<dev_status, timerVars>>
  /\ UNCHANGED <<cfgVars, clientsCnt, fill, stage, clientData, queueVars>>

-----------------------------------------------------------------------------
(* The endless loop.  The flags are looked at in a fixed order; main then   *)
(* comes back to the first one.                                            *)

\* A loop that comes back to the fastest rate after the second one.
NextStageFastest(r) == IF r = "100ms" THEN "1m" ELSE "100ms"

NextStage(r) == CASE r = "100ms" -> "1m" [] r = "1m" -> "1s" [] r = "1s" -> "100ms"

SkipScan ==
  /\ pc = "check"
  /\ ~period[stage]
  /\ stage' = NextStage(stage)
  /\ UNCHANGED <<cfgVars, clientsCnt, pc, fill, dev_status, clientData, queueVars, timerVars>>

BeginScan ==
  /\ pc = "check"
  /\ period[stage]
  /\ queueGetFirst(stage)
  /\ pc' = "survey"
  /\ UNCHANGED <<cfgVars, clientsCnt, fill, dev_status, stage, clientData, rate, timerVars>>

\* manager_receive_data returns true and modbus_to_mqtt copies clientData.
ReceiveOk ==
  /\ pc = "survey"
  /\ tempClientIdx # None
  /\ clientData' = tempClientIdx
  /\ pc' = "send"
  /\ UNCHANGED <<cfgVars, clientsCnt, fill, dev_status, stage, queueVars, timerVars>>

\* The error branch without its "continue".
ReceiveErrorFallsThrough ==
  /\ pc = "survey"
  /\ tempClientIdx # None
  /\ pc' = "send"
  /\ UNCHANGED <<cfgVars, clientsCnt, fill, dev_status, stage, clientData, queueVars, timerVars>>

\* manager_receive_data returns false: on to the next client.
ReceiveError ==
  /\ pc = "survey"
  /\ tempClientIdx # None
  /\ queueGetNext(stage)
  /\ pc' = "survey"
  /\ UNCHANGED <<cfgVars, clientsCnt, fill, dev_status, stage, clientData, rate, timerVars>>

\* send_data; a failed publish is reported and not repeated.
SendData ==
  /\ pc = "send"
  /\ queueGetNext(stage)
  /\ pc' = "survey"
  /\ UNCHANGED <<cfgVars, clientsCnt, fill, dev_status, stage, clientData, rate, timerVars>>

\* The queue answered -1: all clients were surveyed.
EndScan ==
  /\ pc = "survey"
  /\ tempClientIdx = None
  /\ period' = [period EXCEPT ![stage] = FALSE]
  /\ stage' = NextStage(stage)
  /\ pc' = "check"
  /\ UNCHANGED <<cfgVars, clientsCnt, fill, dev_status, clientData, queueVars,
                 armed, timer_counter>>

\* SIGALRM, between any two steps of the main thread.
Tick == timer_handler_100ms /\ UNCHANGED <<cfgVars, mainVars, queueVars>>

Main ==
  \/ InitMqtt \/ InitManager \/ FillQueue \/ InitTimer
  \/ SkipScan \/ BeginScan \/ ReceiveOk \/ ReceiveError \/ SendData \/ EndScan

Next == Main \/ Tick

SafeSpec == Init /\ [][Next]_vars

(* The main thread never blocks for ever: every call it makes returns, in   *)
(* error if need be (socket, response and session time-outs), and the wait *)
(* of init_sys is five seconds.  The interval timer goes on expiring.  The *)
(* broker answers and setitimer succeeds if they are tried again and again.*)
Fairness ==
  /\ WF_vars(Main)
  /\ WF_vars(Tick)
  /\ SF_vars(InitMqtt /\ dev_status'.mqtt)
  /\ SF_vars(InitTimer /\ armed')

Spec == SafeSpec /\ Fairness

-----------------------------------------------------------------------------
(* Properties.                                                             *)

TypeOK ==
  /\ QueueTypeOK
  /\ TimerTypeOK
  /\ cfgCnt \in 0 .. MAX_CLIENT_NUM + 1
  /\ cfgRate \in [0 .. cfgCnt - 1 -> RefreshRate]
  /\ cfgOk \in BOOLEAN
  /\ clientsCnt \in {0, cfgCnt}
  /\ pc \in InitPoints \cup ProcessPoints
  /\ fill \in 0 .. MAX_CLIENT_NUM
  /\ dev_status \in [state : {"INIT_SYS", "PROCESS"},
                     timer : BOOLEAN, mqtt : BOOLEAN, manager : BOOLEAN]
  /\ stage \in RefreshRate
  /\ clientData \in InnerIdx \cup {None}

\* Once init_sys has finished with the manager, the array of a rate holds
\* exactly the clients configured for it, in the order of the file, with no
\* empty cell between them: what the scans rely on to stop at the first -1.
QueueMatchesConfig ==
  dev_status.manager => \A r \in RefreshRate :
    /\ {rate[r][p] : p \in Used(r)} = ClientsOf(r)
    /\ \A p, q \in Cells : p < q /\ q \in Used(r) => p \in Used(r) /\ rate[r][p] < rate[r][q]

\* queueAdd cannot fail while init_sys fills the queue (main.c:84-88): its
\* arrays are empty when the filling begins and a file that is accepted has
\* no more clients than an array has cells.
FillNeverFails == pc = "fill" /\ MoreClients => ~queueFull(cfgRate[fill])

\* No tick is delivered before everything the scans use is in place, and
\* never with a configuration that was refused.
ReadyBeforeTicks ==
  armed => /\ ConfigAccepted
           /\ dev_status = [state |-> "PROCESS", timer |-> TRUE, mqtt |-> TRUE, manager |-> TRUE]
           /\ pc \in ProcessPoints

\* The index main hands to manager_receive_data belongs to a client of the
\* rate being scanned, so the range check there (client_manager.c:555) is
\* never what makes a survey fail; and what is published was received from
\* that very client.
SurveysOwnClients ==
  /\ pc \in {"survey", "send"} /\ tempClientIdx # None
       => tempClientIdx \in ClientsOf(stage) /\ tempClientIdx < clientsCnt
  /\ pc = "send" => tempClientIdx # None /\ clientData = tempClientIdx

\* The main loop, its queue and its timer implement the polling service: a
\* cell position stands for the set of clients still to be surveyed.
ToSurvey == CASE pc = "survey" /\ tempClientIdx # None -> {i \in ClientsOf(stage) : i >= tempClientIdx}
              [] pc = "send" -> {i \in ClientsOf(stage) : i > tempClientIdx}
              [] OTHER -> {}

PS == INSTANCE PollingService WITH
        members  <- [r \in RefreshRate |-> ClientsOf(r)],
        serving  <- armed,
        due      <- period,
        scanning <- IF pc \in {"survey", "send"} THEN stage ELSE "idle",
        todo     <- ToSurvey,
        reading  <- IF pc = "send" THEN clientData ELSE None

\* Every step of the main thread and of the signal handler is a step of the
\* polling service, or invisible to it.
ImplementsPollingService == PS!SafeSpec

\* No rate is starved: a due rate gets its scan however fast the others
\* become due, and a scan once begun goes on to its end.
ImplementsPollingFairness == PS!Fairness

\* With a configuration that is accepted, every client is surveyed again and
\* again, whatever its rate.
KeepsSurveying ==
  \A i \in InnerIdx :
    ConfigAccepted /\ i < cfgCnt ~> pc = "survey" /\ tempClientIdx = i

=============================================================================
