---------------------------- MODULE SystemProofs ----------------------------
(***************************************************************************)
(* Proofs about System.  The composition implements both of its parts, the *)
(* main thread and the client manager, so that whatever was proved of each *)
(* of them alone holds of the two together; and what the whole publishes   *)
(* was read from the server of the client the queue has named.             *)
(***************************************************************************)
EXTENDS System, MainLoopProofs, ClientManagerProofs

(* The composition implements its parts.                                   *)

LEMMA LoopSimulation == [SystemNext]_systemVars => [Next]_vars
<1> SUFFICES ASSUME SystemNext PROVE [Next]_vars
  BY DEF systemVars
<1>1. CASE InitConnections
  BY <1>1 DEF InitConnections
<1>2. CASE MainAlone
  BY <1>2 DEF MainAlone, Next, Main
<1>3. CASE Call
  BY <1>3 DEF Call
<1>4. CASE Work
  BY <1>4 DEF Work
<1>5. CASE Return
  BY <1>5 DEF Return, Next, Main
<1>6. CASE Signal
  BY <1>6 DEF Signal, Next
<1>7. CASE World
  BY <1>7 DEF World
<1> QED
  BY <1>1, <1>2, <1>3, <1>4, <1>5, <1>6, <1>7 DEF SystemNext, MainThread

\* A client the main thread names is one the manager has: Poll's range.
LEMMA ManagerSimulation ==
  IInv /\ cfgCnt = ClientCnt /\ [SystemNext]_systemVars => [ManagerNext]_managerVars
<1> SUFFICES ASSUME IInv, cfgCnt = ClientCnt, SystemNext PROVE [ManagerNext]_managerVars
  BY DEF systemVars
<1>1. CASE InitConnections
  BY <1>1 DEF InitConnections, ManagerNext
<1>2. CASE MainAlone
  BY <1>2 DEF MainAlone
<1>3. CASE Call
  <2>1. tempClientIdx \in ClientsOf(stage)
    BY <1>3, SurveyFacts DEF Call, SurveysOwnClients
  <2>2. tempClientIdx \in Clients
    BY <2>1 DEF ClientsOf, Clients
  <2> QED
    BY <1>3, <2>2 DEF Call, ManagerNext
<1>4. CASE Work
  BY <1>4 DEF Work, ManagerNext
<1>5. CASE Return
  BY <1>5 DEF Return
<1>6. CASE Signal
  BY <1>6 DEF Signal
<1>7. CASE World
  BY <1>7 DEF World, ManagerNext
<1> QED
  BY <1>1, <1>2, <1>3, <1>4, <1>5, <1>6, <1>7 DEF SystemNext, MainThread

\* The configuration is the one that was given to the manager.
LEMMA ConfigStep == cfgCnt = ClientCnt /\ [SystemNext]_systemVars => (cfgCnt = ClientCnt)'
<1> SUFFICES ASSUME cfgCnt = ClientCnt, [Next]_vars PROVE cfgCnt' = ClientCnt
  BY LoopSimulation
<1> QED
  BY DEF Next, Main, vars, cfgVars, InitMqtt, InitManager, FillQueue, InitTimer, SkipScan,
         BeginScan, ReceiveOk, ReceiveError, SendData, EndScan, Tick

\* With the calls of the manager taken step by step, and servers that come
\* and go between them, the main thread is the one of MainLoop: all that was
\* proved of it still holds.
THEOREM LoopImplemented == SystemSafeSpec => SafeSpec
<1>1. SystemInit => Init
  BY DEF SystemInit
<1> QED
  BY <1>1, LoopSimulation, PTL DEF SystemSafeSpec, SafeSpec

\* The main thread calls the manager in the way ClientManager takes for
\* granted: initialised first, then one call at a time, each for a client it
\* has.  All that was proved of the manager still holds.
THEOREM ManagerImplemented == SystemSafeSpec => ImplementsManager
<1>1. SystemInit => ManagerInit /\ cfgCnt = ClientCnt
  BY DEF SystemInit
<1>2. SystemSafeSpec => []IInv
  BY LoopImplemented, Invariance, PTL
<1>3. SystemSafeSpec => [](cfgCnt = ClientCnt)
  BY <1>1, ConfigStep, PTL DEF SystemSafeSpec
<1> QED
  BY <1>1, <1>2, <1>3, ManagerSimulation, PTL
     DEF SystemSafeSpec, ImplementsManager, ManagerSafeSpec

-----------------------------------------------------------------------------
(* What is published.                                                      *)

\* How the two program counters go together.  The client that is surveyed
\* is the one the queue has named for as long as the call lasts, and until
\* its reading has been sent.
CallInv ==
  /\ calling => pc = "survey" /\ tempClientIdx # None /\ cur = tempClientIdx
  /\ ~calling => mpc \in {"init", "idle", "crashed"}
  /\ pc = "send" => ~calling /\ mpc = "idle" /\ result /\ cur = tempClientIdx

LEMMA CallInit == SystemInit => CallInv
  BY DEF SystemInit, Init, ManagerInit, CallInv

LEMMA CallStep == CallInv /\ calling \in BOOLEAN /\ [SystemNext]_systemVars => CallInv'
<1> SUFFICES ASSUME CallInv, calling \in BOOLEAN, [SystemNext]_systemVars PROVE CallInv'
  OBVIOUS
<1> USE DEF CallInv, managerVars, conn, flags
<1>1. CASE InitConnections
  <2>1. pc = "init_manager" /\ pc' = pc /\ calling' = calling
    BY <1>1 DEF InitConnections, vars, mainVars
  <2>2. mpc' \in {"init", "idle", "crashed"}
    BY <1>1 DEF InitConnections, InitStep, InitModbus, InitRtuCrash, InitOpc, InitOpcShared,
                AfterInit, Crash
  <2> QED
    BY <2>1, <2>2
<1>2. CASE MainAlone
  <2>1. ~calling /\ pc' # "send"
    BY <1>2 DEF MainAlone, InitMqtt, FillQueue, InitTimer, InitManager, SkipScan, BeginScan,
                SendData, EndScan
  <2> QED
    BY <1>2, <2>1 DEF MainAlone
<1>3. CASE Call
  BY <1>3 DEF Call, Poll, vars, mainVars, queueVars
<1>4. CASE Work
  <2>1. cur' = cur
    BY <1>4 DEF Work, Reconnect, ReconnectRtuCrash, Receive, ReceiveModbus, ReceiveRtuCrash,
                ReceiveOpc, ReceiveOpcRefused, ReceiveOpcCrash, Crash
  <2> QED
    BY <1>4, <2>1 DEF Work, vars, mainVars, queueVars
<1>5. CASE Return
  BY <1>5 DEF Return, ReceiveOk, ReceiveError, queueVars
<1>6. CASE Signal
  BY <1>6 DEF Signal, Tick, mainVars, queueVars
<1>7. CASE World
  BY <1>7 DEF World, ServerDown, ServerUp, vars, mainVars, queueVars
<1>8. CASE UNCHANGED systemVars
  BY <1>8 DEF systemVars, vars, mainVars, queueVars
<1> QED
  BY <1>1, <1>2, <1>3, <1>4, <1>5, <1>6, <1>7, <1>8 DEF SystemNext, MainThread

\* The types of both parts, and of the one variable of the composition.
THEOREM SystemTypeCorrect == SystemSafeSpec => []SystemTypeOK
<1>1. SystemInit => calling \in BOOLEAN
  BY DEF SystemInit
<1>2. calling \in BOOLEAN /\ [SystemNext]_systemVars => (calling \in BOOLEAN)'
  BY DEF SystemNext, MainThread, InitConnections, MainAlone, Call, Work, Return, Signal, World,
         systemVars
<1> QED
  BY <1>1, <1>2, LoopImplemented, ManagerImplemented, TypeCorrect, ManagerTypeCorrect, PTL
     DEF SystemSafeSpec, SystemTypeOK, ImplementsManager

\* Whatever fails, and whichever servers go in between, what main is about to
\* send was read in this very survey from the server of the client it is
\* surveying: with any number of clients of any protocols, as long as those of
\* OPC UA have one server.
THEOREM PublishedCorrect ==
  ASSUME OneOpcServer
  PROVE  SystemSafeSpec => []PublishesOwnServer
<1>1. SystemSafeSpec => []CallInv
  <2>1. SystemTypeOK => calling \in BOOLEAN
    BY DEF SystemTypeOK
  <2> QED
    BY <2>1, SystemTypeCorrect, CallInit, CallStep, PTL DEF SystemSafeSpec
<1>2. SystemSafeSpec => [](OwnServer /\ (mpc = "idle" /\ result => connected[cur]))
  BY ManagerImplemented, OwnServerInvariance, PTL DEF ImplementsManager
<1>3. CallInv /\ OwnServer /\ (mpc = "idle" /\ result => connected[cur]) => PublishesOwnServer
  BY DEF CallInv, OwnServer, PublishesOwnServer
<1> QED
  BY <1>1, <1>2, <1>3, PTL

-----------------------------------------------------------------------------
(* No rate waits for ever, the calls of the manager included.              *)

\* The steps of the whole main thread before it looks at the flag of rate r.
\* Each step MainLoop counts stands for six: a survey is a call, four steps of
\* the manager at most, and its return.
SystemWait(r) == 6 * Wait(r) + IF calling THEN CallSteps ELSE 5

SystemWaitsBounded ==
  pc \in ProcessPoints => \A r \in RefreshRate : SystemWait(r) \in 0 .. 18 * ScanLimit

\* Main makes its way to every flag in every step, the steps inside the manager
\* included; ticks and servers, at whatever moment, do not hold it up.
SystemTakesTurns ==
  [][(pc \in ProcessPoints) => \A r \in RefreshRate :
       \/ MainThread /\ SystemWait(r)' < SystemWait(r)
       \/ (Signal \/ World) /\ SystemWait(r)' = SystemWait(r)
       \/ MainAlone /\ Wait(r) = 0 /\ (period[r] => pc' = "survey" /\ stage' = r)]_systemVars

LEMMA SystemWaitSteps ==
  ASSUME IInv, IInv', ManagerTypeOK, CallInv, calling \in BOOLEAN, SystemNext,
         pc \in ProcessPoints, NEW r \in RefreshRate
  PROVE  \/ MainThread /\ SystemWait(r)' < SystemWait(r)
         \/ (Signal \/ World) /\ SystemWait(r)' = SystemWait(r)
         \/ MainAlone /\ Wait(r) = 0 /\ (period[r] => pc' = "survey" /\ stage' = r)
<1>1. Wait(r) \in Nat /\ CallSteps \in 0 .. 4 /\ (Wait(r) = 0 <=> pc = "check" /\ stage = r)
  <2>1. ScanLimit \in Nat
    BY ScanStepsBounds
  <2>2. Wait(r) \in 0 .. 3 * ScanLimit - 1
    BY WaitBounds
  <2>3. CallSteps \in 0 .. 4
    BY DEF CallSteps
  <2>4. Wait(r) = 0 <=> pc = "check" /\ stage = r
    BY WaitBounds
  <2> QED
    BY <2>1, <2>2, <2>3, <2>4
<1>2. CASE MainAlone
  <2>1. ~calling /\ ~calling' /\ Main
    BY <1>2 DEF MainAlone, CallInv, Main, InitMqtt, FillQueue, InitTimer, InitManager, SkipScan,
                BeginScan, SendData, EndScan
  <2>2. ASSUME Wait(r) # 0 PROVE SystemWait(r)' < SystemWait(r)
    <3>1. Wait(r)' \in Nat /\ Wait(r)' < Wait(r)
      BY <2>1, <2>2, WaitShortens
    <3>2. SystemWait(r)' = 6 * Wait(r)' + 5 /\ SystemWait(r) = 6 * Wait(r) + 5
      BY <2>1 DEF SystemWait
    <3> QED
      BY <1>1, <3>1, <3>2
  <2>3. ASSUME Wait(r) = 0 PROVE period[r] => pc' = "survey" /\ stage' = r
    BY <1>1, <1>2, <2>3 DEF MainAlone, InitMqtt, FillQueue, InitTimer, InitManager, SkipScan,
                            BeginScan, SendData, EndScan
  <2> QED
    BY <1>2, <2>2, <2>3 DEF MainThread
<1>3. CASE Call
  <2>1. ~calling /\ calling' /\ UNCHANGED vars
    BY <1>3 DEF Call
  <2>2. Wait(r)' = Wait(r)
    BY <2>1, WaitKept DEF vars, cfgVars, mainVars, queueVars
  <2>3. CallSteps' \in 0 .. 4
    BY DEF CallSteps
  <2>4. SystemWait(r)' = 6 * Wait(r) + CallSteps' /\ SystemWait(r) = 6 * Wait(r) + 5
    BY <2>1, <2>2 DEF SystemWait
  <2> QED
    BY <1>1, <1>3, <2>3, <2>4 DEF MainThread
<1>4. CASE Work
  <2>1. calling /\ calling' = calling /\ UNCHANGED vars /\ (Reconnect \/ ReconnectRtuCrash \/ Receive)
    BY <1>4 DEF Work
  <2>2. Wait(r)' = Wait(r)
    BY <2>1, WaitKept DEF vars, cfgVars, mainVars, queueVars
  <2>3. CallSteps # 0
    BY <2>1 DEF CallSteps, Reconnect, ReconnectRtuCrash, Receive, ReceiveModbus, ReceiveRtuCrash,
                ReceiveOpc, ReceiveOpcRefused, ReceiveOpcCrash, ManagerTypeOK
  <2>4. CallSteps' < CallSteps /\ CallSteps' \in 0 .. 4
    <3>1. CallSteps' < CallSteps
      BY <2>1, <2>3, CallShortens
    <3>2. CallSteps' \in 0 .. 4
      BY DEF CallSteps
    <3> QED
      BY <3>1, <3>2
  <2>5. SystemWait(r)' = 6 * Wait(r) + CallSteps' /\ SystemWait(r) = 6 * Wait(r) + CallSteps
    BY <2>1, <2>2 DEF SystemWait
  <2> QED
    BY <1>1, <1>4, <2>4, <2>5 DEF MainThread
<1>5. CASE Return
  <2>1. /\ calling /\ ~calling' /\ mpc = "idle" /\ pc = "survey" /\ Main
    BY <1>5 DEF Return, ReceiveOk, ReceiveError, Main
  <2>2. Wait(r)' \in Nat /\ Wait(r)' < Wait(r)
    BY <1>1, <2>1, WaitShortens
  <2>3. SystemWait(r)' = 6 * Wait(r)' + 5 /\ SystemWait(r) = 6 * Wait(r) + 0
    BY <2>1 DEF SystemWait, CallSteps
  <2> QED
    BY <1>1, <1>5, <2>2, <2>3 DEF MainThread
<1>6. CASE Signal
  <2>1. Wait(r)' = Wait(r)
    BY <1>6, WaitKept DEF Signal, Tick, cfgVars, mainVars, queueVars
  <2>2. CallSteps' = CallSteps /\ calling' = calling
    BY <1>6 DEF Signal, managerVars, flags, CallSteps
  <2> QED
    BY <1>6, <2>1, <2>2 DEF SystemWait
<1>7. CASE World
  <2>1. Wait(r)' = Wait(r) /\ calling' = calling
    BY <1>7, WaitKept DEF World, vars, cfgVars, mainVars, queueVars
  <2>2. CallSteps' = CallSteps
    BY <1>7 DEF World, ServerDown, ServerUp, flags, CallSteps
  <2> QED
    BY <1>7, <2>1, <2>2 DEF SystemWait
<1> QED
  BY <1>2, <1>3, <1>4, <1>5, <1>6, <1>7
  DEF SystemNext, MainThread, InitConnections, ProcessPoints

\* Between two looks at the flag of a rate main takes a number of steps that
\* the size of the queue bounds, whatever the devices, the servers and the
\* timer do meanwhile: with the calls taken step by step no rate starves.
THEOREM SystemWaitCorrect == SystemSafeSpec => []SystemWaitsBounded /\ SystemTakesTurns
<1>1. SystemSafeSpec => []IInv
  BY LoopImplemented, Invariance, PTL
<1>2. SystemSafeSpec => []CallInv
  <2>1. SystemTypeOK => calling \in BOOLEAN
    BY DEF SystemTypeOK
  <2> QED
    BY <2>1, SystemTypeCorrect, CallInit, CallStep, PTL DEF SystemSafeSpec
<1>3. IInv => SystemWaitsBounded
  <2> SUFFICES ASSUME IInv, pc \in ProcessPoints, NEW r \in RefreshRate
               PROVE SystemWait(r) \in 0 .. 18 * ScanLimit
    BY DEF SystemWaitsBounded
  <2>1. ScanLimit \in Nat
    BY ScanStepsBounds
  <2>2. Wait(r) \in 0 .. 3 * ScanLimit - 1
    BY WaitBounds
  <2>3. (IF calling THEN CallSteps ELSE 5) \in 0 .. 5
    BY DEF CallSteps
  <2> DEFINE c == IF calling THEN CallSteps ELSE 5
  <2>4. c \in 0 .. 5 /\ SystemWait(r) = 6 * Wait(r) + c
    BY <2>3 DEF SystemWait
  <2> HIDE DEF c
  <2> QED
    BY <2>1, <2>2, <2>4
<1>4. SystemTypeOK => ManagerTypeOK /\ calling \in BOOLEAN
  BY DEF SystemTypeOK
<1>5. IInv /\ IInv' /\ ManagerTypeOK /\ calling \in BOOLEAN /\ CallInv /\ [SystemNext]_systemVars =>
        [(pc \in ProcessPoints) => \A r \in RefreshRate :
           \/ MainThread /\ SystemWait(r)' < SystemWait(r)
           \/ (Signal \/ World) /\ SystemWait(r)' = SystemWait(r)
           \/ MainAlone /\ Wait(r) = 0 /\ (period[r] => pc' = "survey" /\ stage' = r)]_systemVars
  BY SystemWaitSteps
<1> QED
  BY <1>1, <1>2, <1>3, <1>4, <1>5, SystemTypeCorrect, PTL DEF SystemSafeSpec, SystemTakesTurns
=============================================================================
