--------------------------- MODULE MainLoopProofs ---------------------------
(***************************************************************************)
(* Proofs about MainLoop, for every number of cells and every timer        *)
(* constant.  The inductive invariant IInv says, beside the types, what    *)
(* the filling loop of init_sys has put into the queue so far, and that    *)
(* the index main works with is the cell at the read position.             *)
(***************************************************************************)
EXTENDS MainLoop, FiniteSets, FiniteSetTheorems, TLAPS

\* An array holds exactly the clients of S below n, in the order of the file
\* and without gaps.  That a client is never in a cell beyond its own number
\* is what bounds the cells in use without counting them.
Holds(a, S, n) ==
  /\ \A p \in Cells : a[p] # None => a[p] \in S /\ a[p] < n /\ p <= a[p]
  /\ \A i \in S : i < n => \E p \in Cells : a[p] = i
  /\ \A p, q \in Cells : p < q /\ a[q] # None => a[p] # None /\ a[p] < a[q]

\* The arrays while init_sys fills them, and ever after.
QueueInv ==
  /\ pc = "fill" => /\ ~dev_status.manager
                    /\ ConfigAccepted /\ clientsCnt = cfgCnt
                    /\ fill <= cfgCnt
                    /\ \A r \in RefreshRate : Holds(rate[r], ClientsOf(r), fill)
  /\ dev_status.manager => /\ ConfigAccepted /\ clientsCnt = cfgCnt
                           /\ \A r \in RefreshRate : Holds(rate[r], ClientsOf(r), cfgCnt)

\* The main loop runs exactly while the timer does.
PhaseInv ==
  /\ armed <=> pc \in ProcessPoints
  /\ armed => dev_status = [state |-> "PROCESS", timer |-> TRUE, mqtt |-> TRUE, manager |-> TRUE]

\* Main works with the cell at the read position.
CursorInv ==
  /\ pc \in {"survey", "send"} /\ tempClientIdx # None => tempClientIdx = rate[stage][pos[stage]]
  /\ pc = "send" => tempClientIdx # None /\ clientData = tempClientIdx

IInv == TypeOK /\ QueueInv /\ PhaseInv /\ CursorInv

-----------------------------------------------------------------------------
(* Types.                                                                  *)

\* Adding a client of the type of a client keeps the type of the arrays.
LEMMA QueueAddType ==
  ASSUME QueueTypeOK, NEW r \in RefreshRate, NEW id \in InnerIdx, queueAdd(r, id)
  PROVE  rate' \in [RefreshRate -> [Cells -> InnerIdx \cup {None}]]
<1>1. PICK p \in Cells : rate' = [rate EXCEPT ![r][p] = id]
  BY DEF queueAdd
<1> QED
  BY <1>1 DEF QueueTypeOK

\* The position stays within the array, and the answer is a cell or None.
LEMMA QueueGetFirstType ==
  ASSUME QueueTypeOK, NEW r \in RefreshRate, queueGetFirst(r)
  PROVE  /\ pos' \in [RefreshRate -> Cells]
         /\ tempClientIdx' \in InnerIdx \cup {None}
<1>1. 0 \in Cells
  BY QueueAssumption DEF Cells
<1> QED
  BY <1>1 DEF QueueTypeOK, queueGetFirst

LEMMA QueueGetNextType ==
  ASSUME QueueTypeOK, NEW r \in RefreshRate, queueGetNext(r)
  PROVE  /\ pos' \in [RefreshRate -> Cells]
         /\ tempClientIdx' \in InnerIdx \cup {None}
<1>1. 0 \in Cells /\ pos[r] \in Cells
  BY QueueAssumption DEF Cells, QueueTypeOK
<1>2. CASE pos[r] + 1 = MAX_CLIENT_NUM
  BY <1>1, <1>2 DEF QueueTypeOK, queueGetNext
<1>3. CASE pos[r] + 1 # MAX_CLIENT_NUM
  <2>1. pos[r] + 1 \in Cells
    BY <1>1, <1>3, QueueAssumption DEF Cells
  <2>2. pos' = [pos EXCEPT ![r] = pos[r] + 1] /\ tempClientIdx' = rate[r][pos[r] + 1]
    BY <1>3 DEF queueGetNext
  <2> QED
    BY <2>1, <2>2 DEF QueueTypeOK
<1> QED
  BY <1>2, <1>3

LEMMA TypeInit == Init => TypeOK
<1> SUFFICES ASSUME Init PROVE TypeOK
  OBVIOUS
<1>1. QueueTypeOK
  <2>1. 0 \in Cells /\ 0 \in InnerIdx
    BY QueueAssumption DEF Cells, InnerIdx
  <2> QED
    BY <2>1 DEF Init, QueueTypeOK
<1>2. TimerTypeOK
  <2>1. 0 \in 0 .. TIMER_5S - 1
    BY TimerAssumption
  <2> QED
    BY <2>1 DEF Init, TimerInit, TimerTypeOK
<1>3. /\ cfgCnt \in 0 .. MAX_CLIENT_NUM + 1
      /\ cfgRate \in [0 .. cfgCnt - 1 -> RefreshRate]
  BY DEF Init
<1>4. /\ cfgOk \in BOOLEAN /\ clientsCnt \in {0, cfgCnt}
      /\ pc \in InitPoints \cup ProcessPoints
      /\ fill \in 0 .. MAX_CLIENT_NUM
      /\ stage \in RefreshRate
      /\ clientData \in InnerIdx \cup {None}
  BY QueueAssumption DEF Init, InitPoints, RefreshRate
<1>5. dev_status \in [state : {"INIT_SYS", "PROCESS"}, timer : BOOLEAN, mqtt : BOOLEAN, manager : BOOLEAN]
  BY DEF Init
<1> QED
  BY <1>1, <1>2, <1>3, <1>4, <1>5 DEF TypeOK

LEMMA TypeStep == TypeOK /\ [Next]_vars => TypeOK'
<1> SUFFICES ASSUME TypeOK, [Next]_vars PROVE TypeOK'
  OBVIOUS
<1> USE DEF TypeOK, InitPoints, ProcessPoints
<1>1. CASE InitMqtt
  BY <1>1 DEF InitMqtt, timer_stop, TimerTypeOK, QueueTypeOK, cfgVars, queueVars
<1>2. CASE InitManager
  <2>1. 0 \in Cells /\ 0 \in 0 .. MAX_CLIENT_NUM
    BY QueueAssumption DEF Cells
  <2> QED
    BY <1>2, <2>1 DEF InitManager, queueCleen, cfgVars, timerVars, TimerTypeOK, QueueTypeOK
<1>3. CASE FillQueue
  <2> USE DEF cfgVars, timerVars, TimerTypeOK
  <2>1. CASE MoreClients /\ queueAdd(cfgRate[fill], fill) /\ fill' = fill + 1 /\ UNCHANGED <<pc, dev_status>>
    <3>1. fill \in InnerIdx /\ cfgRate[fill] \in RefreshRate /\ fill + 1 \in 0 .. MAX_CLIENT_NUM
      BY <2>1, QueueAssumption DEF MoreClients, InnerIdx
    <3>2. rate' \in [RefreshRate -> [Cells -> InnerIdx \cup {None}]]
      BY <2>1, <3>1, QueueAddType
    <3> QED
      BY <1>3, <2>1, <3>1, <3>2 DEF FillQueue, QueueTypeOK
  <2>2. CASE UNCHANGED <<rate, fill>>
    BY <1>3, <2>2 DEF FillQueue, QueueTypeOK, queueAdd
  <2> QED
    BY <1>3, <2>1, <2>2 DEF FillQueue
<1>4. CASE InitTimer
  BY <1>4 DEF InitTimer, timer_start, cfgVars, timerVars, queueVars, TimerTypeOK, QueueTypeOK
<1>5. CASE SkipScan
  BY <1>5 DEF SkipScan, NextStage, RefreshRate, cfgVars, timerVars, queueVars, TimerTypeOK, QueueTypeOK
<1>6. CASE BeginScan
  <2>1. pos' \in [RefreshRate -> Cells] /\ tempClientIdx' \in InnerIdx \cup {None}
    BY <1>6, QueueGetFirstType DEF BeginScan
  <2> QED
    BY <1>6, <2>1 DEF BeginScan, cfgVars, timerVars, TimerTypeOK, QueueTypeOK
<1>7. CASE ReceiveOk
  BY <1>7 DEF ReceiveOk, cfgVars, timerVars, queueVars, TimerTypeOK, QueueTypeOK
<1>8. CASE ReceiveError \/ SendData
  <2>1. pos' \in [RefreshRate -> Cells] /\ tempClientIdx' \in InnerIdx \cup {None}
    BY <1>8, QueueGetNextType DEF ReceiveError, SendData
  <2> QED
    BY <1>8, <2>1 DEF ReceiveError, SendData, cfgVars, timerVars, TimerTypeOK, QueueTypeOK
<1>9. CASE EndScan
  BY <1>9 DEF EndScan, NextStage, RefreshRate, cfgVars, queueVars, TimerTypeOK, QueueTypeOK
<1>10. CASE Tick
  <2>1. timer_counter' \in 0 .. TIMER_5S - 1
    BY <1>10, TimerAssumption DEF Tick, timer_handler_100ms, Wrap, TimerTypeOK
  <2>2. period' \in [RefreshRate -> BOOLEAN] /\ armed' \in BOOLEAN
    BY <1>10 DEF Tick, timer_handler_100ms, TimerTypeOK
  <2> QED
    BY <1>10, <2>1, <2>2 DEF Tick, cfgVars, mainVars, queueVars, TimerTypeOK, QueueTypeOK
<1>11. CASE UNCHANGED vars
  BY <1>11 DEF vars, cfgVars, mainVars, queueVars, timerVars, TimerTypeOK, QueueTypeOK
<1> QED
  BY <1>1, <1>2, <1>3, <1>4, <1>5, <1>6, <1>7, <1>8, <1>9, <1>10, <1>11 DEF Next, Main

-----------------------------------------------------------------------------
(* Filling the queue.                                                      *)

Arrays == [Cells -> InnerIdx \cup {None}]

\* While the clients below n are held, a cell is left for client n.
LEMMA NeverFull ==
  ASSUME NEW a \in Arrays, NEW S, NEW n \in InnerIdx, Holds(a, S, n)
  PROVE  \E p \in Cells : a[p] = None
<1>1. MAX_CLIENT_NUM - 1 \in Cells
  BY QueueAssumption DEF Cells
<1>2. CASE a[MAX_CLIENT_NUM - 1] # None
  <2>1. /\ a[MAX_CLIENT_NUM - 1] \in InnerIdx
        /\ a[MAX_CLIENT_NUM - 1] < n
        /\ MAX_CLIENT_NUM - 1 <= a[MAX_CLIENT_NUM - 1]
    BY <1>1, <1>2 DEF Holds, Arrays
  <2> QED
    BY <2>1, QueueAssumption DEF InnerIdx
<1> QED
  BY <1>1, <1>2

\* An array without clients holds those below zero.
LEMMA HoldsNothing ==
  ASSUME NEW S \in SUBSET Nat
  PROVE  Holds([p \in Cells |-> None], S, 0)
  BY DEF Holds

\* Putting client n of S into the first free cell makes the array hold the
\* clients of S below n + 1.
LEMMA AddHolds ==
  ASSUME NEW a \in Arrays, NEW S \in SUBSET Nat, NEW n \in InnerIdx, n \in S, Holds(a, S, n),
         NEW p \in Cells, a[p] = None, \A q \in 0 .. p - 1 : a[q] # None
  PROVE  Holds([a EXCEPT ![p] = n], S, n + 1)
<1> DEFINE b == [a EXCEPT ![p] = n]
<1>1. n \in Nat /\ n # None /\ p \in Nat
  BY QueueAssumption DEF InnerIdx, None, Cells
<1>2. b[p] = n /\ \A q \in Cells : q # p => b[q] = a[q]
  BY DEF Arrays
<1> HIDE DEF b
<1>3. \A q \in Cells : a[q] # None => q < p /\ a[q] \in Nat /\ a[q] < n /\ b[q] = a[q]
  <2>1. SUFFICES ASSUME NEW q \in Cells, a[q] # None
        PROVE q < p /\ a[q] \in Nat /\ a[q] < n /\ b[q] = a[q]
    OBVIOUS
  <2>2. q # p /\ ~(p < q)
    BY <2>1 DEF Holds
  <2>3. a[q] \in S /\ a[q] < n
    BY <2>1 DEF Holds
  <2>4. a[q] \in Nat
    BY <2>3
  <2>5. q < p
    BY <2>2, QueueAssumption DEF Cells
  <2> QED
    BY <1>2, <2>2, <2>3, <2>4, <2>5
<1>4. p <= n
  <2>1. CASE p = 0
    BY <1>1, <2>1
  <2>2. CASE p # 0
    <3>1. p - 1 \in Cells /\ p - 1 \in 0 .. p - 1
      BY <1>1, <2>2, QueueAssumption DEF Cells
    <3>2. p - 1 <= a[p - 1] /\ a[p - 1] < n /\ a[p - 1] \in Nat
      BY <1>3, <3>1 DEF Holds
    <3> QED
      BY <1>1, <3>2
  <2> QED
    BY <2>1, <2>2
<1>5. \A q \in Cells : b[q] # None => b[q] \in S /\ b[q] < n + 1 /\ q <= b[q]
  <2>1. \A q \in Cells : a[q] # None => a[q] \in S /\ a[q] < n + 1 /\ q <= a[q]
    BY <1>1, <1>3 DEF Holds
  <2> QED
    BY <1>1, <1>2, <1>4, <2>1
<1>6. \A i \in S : i < n + 1 => \E q \in Cells : b[q] = i
  <2>1. SUFFICES ASSUME NEW i \in S, i < n + 1 PROVE \E q \in Cells : b[q] = i
    OBVIOUS
  <2>2. CASE i = n
    BY <1>2, <2>2
  <2>3. CASE i < n
    <3>1. PICK q \in Cells : a[q] = i
      BY <2>3 DEF Holds
    <3>2. a[q] # None
      BY <3>1 DEF None
    <3> QED
      BY <1>3, <3>1, <3>2
  <2> QED
    BY <1>1, <2>1, <2>2, <2>3
<1>7. \A q1, q2 \in Cells : q1 < q2 /\ b[q2] # None => b[q1] # None /\ b[q1] < b[q2]
  <2>1. SUFFICES ASSUME NEW q1 \in Cells, NEW q2 \in Cells, q1 < q2, b[q2] # None
        PROVE b[q1] # None /\ b[q1] < b[q2]
    OBVIOUS
  <2>2. CASE q2 = p
    <3>1. q1 \in 0 .. p - 1
      BY <2>1, <2>2, QueueAssumption DEF Cells
    <3> QED
      BY <1>2, <1>3, <2>2, <3>1
  <2>3. CASE q2 # p
    <3>1. a[q2] # None /\ a[q1] # None /\ a[q1] < a[q2]
      BY <1>2, <2>1, <2>3 DEF Holds
    <3> QED
      BY <1>3, <3>1
  <2> QED
    BY <2>2, <2>3
<1> QED
  BY <1>5, <1>6, <1>7 DEF Holds, b

\* An array whose rate client n does not have needs no change for it.
LEMMA OthersHold ==
  ASSUME NEW a \in Arrays, NEW S \in SUBSET Nat, NEW n \in InnerIdx, n \notin S, Holds(a, S, n)
  PROVE  Holds(a, S, n + 1)
<1>1. \A i \in S : i < n + 1 => i < n
  BY QueueAssumption DEF InnerIdx
<1>2. \A i \in S : i < n => i < n + 1
  BY QueueAssumption DEF InnerIdx
<1> QED
  BY <1>1, <1>2 DEF Holds

-----------------------------------------------------------------------------
(* The invariant.                                                          *)

LEMMA InvInit == Init => IInv
<1> SUFFICES ASSUME Init PROVE IInv
  OBVIOUS
<1>1. TypeOK
  BY TypeInit
<1>2. QueueInv /\ PhaseInv /\ CursorInv
  BY DEF Init, TimerInit, QueueInv, PhaseInv, CursorInv, ProcessPoints
<1> QED
  BY <1>1, <1>2 DEF IInv

LEMMA QueueInvStep == IInv /\ [Next]_vars => QueueInv'
<1> SUFFICES ASSUME IInv, [Next]_vars PROVE QueueInv'
  OBVIOUS
<1> USE DEF IInv
<1>1. TypeOK /\ TypeOK' /\ QueueInv
  BY TypeStep
<1>2. CASE UNCHANGED <<cfgVars, clientsCnt, fill, rate, dev_status.manager>> /\ (pc' = "fill" => pc = "fill")
  BY <1>2 DEF QueueInv, ConfigAccepted, cfgVars, ClientsOf
<1>3. CASE InitManager
  <2>1. CASE dev_status.manager
    BY <1>2, <1>3, <2>1 DEF InitManager, cfgVars
  <2>2. CASE ~dev_status.manager /\ ~ConfigAccepted
    BY <1>3, <2>2 DEF InitManager, QueueInv
  <2>3. CASE ~dev_status.manager /\ ConfigAccepted
    <3>1. /\ ConfigAccepted' /\ clientsCnt' = cfgCnt' /\ fill' = 0 /\ fill' <= cfgCnt'
          /\ ~dev_status'.manager
      BY <1>3, <2>3 DEF InitManager, ConfigAccepted, cfgVars, TypeOK
    <3>2. \A r \in RefreshRate : rate'[r] = [p \in Cells |-> None] /\ ClientsOf(r)' \in SUBSET Nat
      BY <1>1, <1>3, <2>3 DEF InitManager, queueCleen, ClientsOf, TypeOK
    <3>3. \A r \in RefreshRate : Holds(rate'[r], ClientsOf(r)', 0)
      BY <3>2, HoldsNothing
    <3> QED
      BY <3>1, <3>3 DEF QueueInv
  <2> QED
    BY <2>1, <2>2, <2>3
<1>4. CASE FillQueue
  <2>1. /\ pc = "fill" /\ ~dev_status.manager /\ ConfigAccepted /\ clientsCnt = cfgCnt
        /\ fill <= cfgCnt /\ fill \in Nat /\ cfgCnt \in Nat
        /\ \A r \in RefreshRate : Holds(rate[r], ClientsOf(r), fill)
    BY <1>1, <1>4 DEF FillQueue, TypeOK, QueueInv
  <2>2. UNCHANGED <<cfgCnt, cfgRate, cfgOk, clientsCnt>> /\ ConfigAccepted'
    BY <1>4, <2>1 DEF FillQueue, cfgVars, ConfigAccepted
  <2>3. \A r \in RefreshRate : ClientsOf(r)' = ClientsOf(r)
    BY <2>2 DEF ClientsOf
  <2>4. CASE MoreClients /\ queueAdd(cfgRate[fill], fill) /\ fill' = fill + 1 /\ UNCHANGED <<pc, dev_status>>
    <3>1. fill \in InnerIdx /\ fill < cfgCnt /\ cfgRate[fill] \in RefreshRate
      BY <1>1, <2>1, <2>4, QueueAssumption DEF MoreClients, InnerIdx, TypeOK
    <3>2. ASSUME NEW r \in RefreshRate PROVE Holds(rate'[r], ClientsOf(r), fill + 1)
      <4>1. rate[r] \in Arrays /\ ClientsOf(r) \in SUBSET Nat
        BY <1>1 DEF TypeOK, QueueTypeOK, Arrays, ClientsOf
      <4>2. CASE r = cfgRate[fill]
        <5>1. fill \in ClientsOf(r)
          BY <2>1, <3>1, <4>2 DEF ClientsOf
        <5>2. PICK p \in Cells : /\ rate[r][p] = None
                                 /\ \A q \in 0 .. p - 1 : rate[r][q] # None
                                 /\ rate' = [rate EXCEPT ![r][p] = fill]
          BY <2>4, <4>2 DEF queueAdd
        <5>3. rate'[r] = [rate[r] EXCEPT ![p] = fill]
          BY <1>1, <5>2 DEF TypeOK, QueueTypeOK
        <5>4. Holds([rate[r] EXCEPT ![p] = fill], ClientsOf(r), fill + 1)
          BY <2>1, <3>1, <4>1, <5>1, <5>2, AddHolds
        <5> QED
          BY <5>3, <5>4
      <4>3. CASE r # cfgRate[fill]
        <5>1. fill \notin ClientsOf(r) /\ rate'[r] = rate[r]
          BY <1>1, <2>4, <4>3 DEF ClientsOf, queueAdd, TypeOK, QueueTypeOK
        <5> QED
          BY <2>1, <3>1, <4>1, <5>1, OthersHold
      <4> QED
        BY <4>2, <4>3
    <3> QED
      BY <2>1, <2>2, <2>3, <2>4, <3>1, <3>2 DEF QueueInv
  <2>5. CASE queueFull(cfgRate[fill]) /\ pc' = "init_sys" /\ UNCHANGED dev_status
    BY <2>1, <2>5 DEF QueueInv
  <2>6. CASE ~MoreClients /\ pc' = "init_timer" /\ UNCHANGED <<rate, fill>>
    <3>1. fill = cfgCnt
      BY <2>1, <2>6, QueueAssumption DEF MoreClients, ConfigAccepted
    <3> QED
      BY <2>1, <2>2, <2>3, <2>6, <3>1 DEF QueueInv
  <2> QED
    BY <1>4, <2>4, <2>5, <2>6 DEF FillQueue
<1>5. CASE InitMqtt \/ InitTimer
  BY <1>2, <1>5 DEF InitMqtt, InitTimer, queueVars, TypeOK
<1>6. CASE SkipScan \/ BeginScan \/ ReceiveOk \/ ReceiveError \/ SendData \/ EndScan
  BY <1>2, <1>6 DEF SkipScan, BeginScan, ReceiveOk, ReceiveError, SendData, EndScan, queueVars
<1>7. CASE Tick \/ UNCHANGED vars
  BY <1>2, <1>7 DEF Tick, vars, mainVars, queueVars
<1> QED
  BY <1>3, <1>4, <1>5, <1>6, <1>7 DEF Next, Main

LEMMA PhaseInvStep == IInv /\ [Next]_vars => PhaseInv'
<1> SUFFICES ASSUME IInv, [Next]_vars PROVE PhaseInv'
  OBVIOUS
<1> USE DEF IInv, PhaseInv, ProcessPoints, TypeOK
<1>1. CASE InitMqtt
  BY <1>1 DEF InitMqtt, timer_stop
<1>2. CASE InitManager \/ FillQueue
  BY <1>2 DEF InitManager, FillQueue, timerVars
<1>3. CASE InitTimer
  <2>1. CASE Ready /\ timer_start /\ pc' = "check"
             /\ dev_status' = [dev_status EXCEPT !.timer = TRUE, !.state = "PROCESS"]
    BY <2>1 DEF Ready, timer_start
  <2>2. CASE pc' = "init_sys" /\ UNCHANGED <<dev_status, timerVars>>
    BY <1>3, <2>2 DEF InitTimer, timerVars
  <2> QED
    BY <1>3, <2>1, <2>2 DEF InitTimer
<1>4. CASE SkipScan \/ BeginScan \/ ReceiveOk \/ ReceiveError \/ SendData \/ EndScan
  BY <1>4 DEF SkipScan, BeginScan, ReceiveOk, ReceiveError, SendData, EndScan, timerVars
<1>5. CASE Tick \/ UNCHANGED vars
  BY <1>5 DEF Tick, timer_handler_100ms, vars, mainVars, timerVars
<1> QED
  BY <1>1, <1>2, <1>3, <1>4, <1>5 DEF Next, Main

LEMMA CursorInvStep == IInv /\ [Next]_vars => CursorInv'
<1> SUFFICES ASSUME IInv, [Next]_vars PROVE CursorInv'
  OBVIOUS
<1> USE DEF IInv, CursorInv
<1>1. CASE InitMqtt \/ InitManager \/ FillQueue \/ InitTimer
  BY <1>1 DEF InitMqtt, InitManager, FillQueue, InitTimer
<1>2. CASE SkipScan \/ EndScan
  BY <1>2 DEF SkipScan, EndScan
<1>3. CASE BeginScan
  <2>1. pos'[stage] = 0 /\ tempClientIdx' = rate[stage][0]
    BY <1>3 DEF BeginScan, queueGetFirst, TypeOK, QueueTypeOK
  <2> QED
    BY <1>3, <2>1 DEF BeginScan
<1>4. CASE ReceiveOk
  BY <1>4 DEF ReceiveOk, queueVars
<1>5. CASE ReceiveError \/ SendData
  <2>1. tempClientIdx' = None \/ tempClientIdx' = rate[stage][pos'[stage]]
    BY <1>5 DEF ReceiveError, SendData, queueGetNext, TypeOK, QueueTypeOK
  <2> QED
    BY <1>5, <2>1 DEF ReceiveError, SendData
<1>6. CASE Tick \/ UNCHANGED vars
  BY <1>6 DEF Tick, vars, mainVars, queueVars
<1> QED
  BY <1>1, <1>2, <1>3, <1>4, <1>5, <1>6 DEF Next, Main

\* IInv is an invariant of the main loop.
THEOREM Invariance == SafeSpec => []IInv
<1>1. IInv /\ [Next]_vars => IInv'
  BY TypeStep, QueueInvStep, PhaseInvStep, CursorInvStep DEF IInv
<1> QED
  BY InvInit, <1>1, PTL DEF SafeSpec

-----------------------------------------------------------------------------
(* The properties of the runs.                                             *)

\* The state of the program keeps its types.
THEOREM TypeCorrect == SafeSpec => []TypeOK
<1>1. IInv => TypeOK
  BY DEF IInv
<1> QED
  BY Invariance, <1>1, PTL

\* The queue holds exactly what the configuration asks for, in its order,
\* however many clients there are.
THEOREM QueueCorrect == SafeSpec => []QueueMatchesConfig
<1>1. IInv => QueueMatchesConfig
  <2> SUFFICES ASSUME IInv, dev_status.manager, NEW r \in RefreshRate
               PROVE /\ {rate[r][p] : p \in Used(r)} = ClientsOf(r)
                     /\ \A p, q \in Cells : p < q /\ q \in Used(r) => p \in Used(r) /\ rate[r][p] < rate[r][q]
    BY DEF QueueMatchesConfig
  <2>1. Holds(rate[r], ClientsOf(r), cfgCnt)
    BY DEF IInv, QueueInv
  <2>2. \A i \in ClientsOf(r) : i < cfgCnt
    BY DEF ClientsOf, IInv, TypeOK
  <2> QED
    BY <2>1, <2>2 DEF Holds, Used, ClientsOf, IInv, TypeOK, None
<1> QED
  BY Invariance, <1>1, PTL

\* queueAdd never answers false to init_sys.
THEOREM FillCorrect == SafeSpec => []FillNeverFails
<1>1. IInv => FillNeverFails
  <2> SUFFICES ASSUME IInv, pc = "fill", MoreClients PROVE ~queueFull(cfgRate[fill])
    BY DEF FillNeverFails
  <2>1. /\ fill \in InnerIdx /\ cfgRate[fill] \in RefreshRate
        /\ Holds(rate[cfgRate[fill]], ClientsOf(cfgRate[fill]), fill)
    BY QueueAssumption DEF IInv, QueueInv, TypeOK, MoreClients, InnerIdx
  <2>2. rate[cfgRate[fill]] \in Arrays
    BY <2>1 DEF IInv, TypeOK, QueueTypeOK, Arrays
  <2> QED
    BY <2>1, <2>2, NeverFull DEF queueFull, Used
<1> QED
  BY Invariance, <1>1, PTL

\* No tick reaches a program that is not ready for it.
THEOREM ReadyCorrect == SafeSpec => []ReadyBeforeTicks
<1>1. IInv => ReadyBeforeTicks
  BY DEF IInv, PhaseInv, QueueInv, ReadyBeforeTicks
<1> QED
  BY Invariance, <1>1, PTL

\* The cell at the read position holds a client of the rate of its array.
LEMMA SurveyFacts == IInv => SurveysOwnClients
<1> SUFFICES ASSUME IInv, pc \in {"survey", "send"}, tempClientIdx # None
             PROVE tempClientIdx \in ClientsOf(stage) /\ tempClientIdx < clientsCnt
  BY DEF SurveysOwnClients, IInv, CursorInv
<1>1. Holds(rate[stage], ClientsOf(stage), cfgCnt) /\ clientsCnt = cfgCnt
  BY DEF IInv, PhaseInv, QueueInv, ProcessPoints, TypeOK
<1>2. pos[stage] \in Cells /\ tempClientIdx = rate[stage][pos[stage]]
  BY DEF IInv, CursorInv, TypeOK, QueueTypeOK
<1> QED
  BY <1>1, <1>2 DEF Holds

\* Main surveys clients of the rate it scans, and publishes what it received.
THEOREM SurveyCorrect == SafeSpec => []SurveysOwnClients
  BY Invariance, SurveyFacts, PTL

-----------------------------------------------------------------------------
(* Every step is a step of the polling service, or invisible to it.        *)

\* What the invariant gives to a scan: its array, its cursor, its clients.
LEMMA ScanFacts ==
  ASSUME IInv, pc \in ProcessPoints
  PROVE  /\ rate[stage] \in Arrays /\ pos[stage] \in Cells /\ stage \in RefreshRate
         /\ Holds(rate[stage], ClientsOf(stage), cfgCnt)
         /\ \A i \in ClientsOf(stage) : i \in Nat /\ i < cfgCnt
<1>1. /\ rate[stage] \in Arrays /\ pos[stage] \in Cells /\ stage \in RefreshRate
      /\ Holds(rate[stage], ClientsOf(stage), cfgCnt)
  BY DEF IInv, QueueInv, PhaseInv, TypeOK, QueueTypeOK, Arrays
<1>2. \A i \in ClientsOf(stage) : i \in Nat /\ i < cfgCnt
  BY DEF ClientsOf, IInv, TypeOK
<1> QED
  BY <1>1, <1>2

\* The first cell leaves all clients to survey.
LEMMA FromFirst ==
  ASSUME NEW a \in Arrays, NEW S \in SUBSET Nat, NEW n, Holds(a, S, n), \A i \in S : i < n
  PROVE  IF a[0] = None THEN S = {} ELSE a[0] \in S /\ \A i \in S : i >= a[0]
<1>1. 0 \in Cells
  BY QueueAssumption DEF Cells
<1>2. ASSUME NEW i \in S PROVE a[0] # None /\ i >= a[0]
  <2>1. PICK p \in Cells : a[p] = i
    BY <1>2 DEF Holds
  <2>2. a[p] # None
    BY <2>1, <1>2 DEF None
  <2>3. CASE p = 0
    BY <1>2, <2>1, <2>2, <2>3
  <2>4. CASE 0 < p
    <3>1. a[0] # None /\ a[0] < a[p]
      BY <1>1, <2>2, <2>4 DEF Holds
    <3> QED
      BY <1>1, <2>1, <3>1, <1>2 DEF Arrays, InnerIdx
  <2> QED
    BY <2>3, <2>4, QueueAssumption DEF Cells
<1> QED
  BY <1>1, <1>2 DEF Holds

\* The next cell leaves those after the client in this one.
LEMMA FromNext ==
  ASSUME NEW a \in Arrays, NEW S \in SUBSET Nat, NEW n, Holds(a, S, n), \A i \in S : i < n,
         NEW p \in Cells, a[p] # None
  PROVE  IF p + 1 = MAX_CLIENT_NUM \/ a[p + 1] = None
           THEN \A i \in S : i <= a[p]
           ELSE \A i \in S : i > a[p] <=> i >= a[p + 1]
<1>1. a[p] \in Nat /\ \A q \in Cells : a[q] # None => a[q] \in Nat
  BY QueueAssumption DEF Arrays, InnerIdx
<1>2. ASSUME NEW i \in S PROVE \E q \in Cells : a[q] = i /\ a[q] # None
  BY <1>2 DEF Holds, None
<1>3. ASSUME NEW q \in Cells, a[q] # None, q <= p PROVE a[q] <= a[p]
  BY <1>1, <1>3, QueueAssumption DEF Holds, Cells
<1>4. CASE p + 1 = MAX_CLIENT_NUM
  BY <1>2, <1>3, <1>4, QueueAssumption DEF Cells
<1>5. CASE p + 1 # MAX_CLIENT_NUM
  <2>1. p + 1 \in Cells
    BY <1>5, QueueAssumption DEF Cells
  <2>2. CASE a[p + 1] = None
    <3>1. \A q \in Cells : a[q] # None => q <= p
      BY <2>1, <2>2, QueueAssumption DEF Holds, Cells
    <3> QED
      BY <1>2, <1>3, <1>5, <2>2, <3>1
  <2>3. CASE a[p + 1] # None
    <3>1. a[p] < a[p + 1] /\ a[p + 1] \in Nat
      BY <1>1, <2>1, <2>3, QueueAssumption DEF Holds, Cells
    <3>2. ASSUME NEW q \in Cells, a[q] # None, q > p PROVE a[q] >= a[p + 1]
      <4>1. q = p + 1 \/ p + 1 < q
        BY <3>2, QueueAssumption DEF Cells
      <4> QED
        BY <1>1, <2>1, <3>1, <3>2, <4>1 DEF Holds
    <3>3. ASSUME NEW i \in S PROVE i > a[p] <=> i >= a[p + 1]
      <4>1. PICK q \in Cells : a[q] = i /\ a[q] # None
        BY <1>2, <3>3
      <4>2. q <= p \/ q > p
        BY QueueAssumption DEF Cells
      <4> QED
        BY <1>1, <1>3, <3>1, <3>2, <4>1, <4>2
    <3> QED
      BY <1>5, <2>3, <3>3
  <2> QED
    BY <2>2, <2>3
<1> QED
  BY <1>4, <1>5

\* What is left to survey after the queue has moved on.
LEMMA Advance ==
  ASSUME IInv, pc \in {"survey", "send"}, tempClientIdx # None,
         queueGetNext(stage), pc' = "survey", UNCHANGED <<stage, rate, cfgCnt, cfgRate>>
  PROVE  ToSurvey' = {i \in ClientsOf(stage) : i > tempClientIdx}
<1> DEFINE a == rate[stage]
           p == pos[stage]
<1>1. /\ a \in Arrays /\ p \in Cells /\ a[p] = tempClientIdx
      /\ Holds(a, ClientsOf(stage), cfgCnt)
      /\ \A i \in ClientsOf(stage) : i \in Nat /\ i < cfgCnt
  BY ScanFacts DEF ProcessPoints, IInv, CursorInv
<1>2. ClientsOf(stage)' = ClientsOf(stage) /\ ClientsOf(stage) \in SUBSET Nat
  BY <1>1 DEF ClientsOf
<1>3. IF p + 1 = MAX_CLIENT_NUM \/ a[p + 1] = None
        THEN \A i \in ClientsOf(stage) : i <= tempClientIdx
        ELSE \A i \in ClientsOf(stage) : i > tempClientIdx <=> i >= a[p + 1]
  <2> HIDE DEF a, p
  <2> QED
    BY <1>1, <1>2, FromNext
<1>4. tempClientIdx' = IF p + 1 = MAX_CLIENT_NUM THEN None ELSE a[p + 1]
  BY DEF queueGetNext
<1>5. tempClientIdx \in Nat
  BY <1>1, QueueAssumption DEF Arrays, InnerIdx
<1>6. CASE p + 1 = MAX_CLIENT_NUM \/ a[p + 1] = None
  <2>1. tempClientIdx' = None
    BY <1>4, <1>6
  <2>2. ToSurvey' = {}
    BY <2>1 DEF ToSurvey
  <2>3. \A i \in ClientsOf(stage) : ~(i > tempClientIdx)
    BY <1>1, <1>3, <1>5, <1>6
  <2> QED
    BY <2>2, <2>3
<1>7. CASE ~(p + 1 = MAX_CLIENT_NUM \/ a[p + 1] = None)
  <2>1. tempClientIdx' = a[p + 1] /\ tempClientIdx' # None
    BY <1>4, <1>7
  <2>2. ToSurvey' = {i \in ClientsOf(stage) : i >= tempClientIdx'}
    BY <1>2, <2>1 DEF ToSurvey
  <2> QED
    BY <1>3, <1>7, <2>1, <2>2
<1> QED
  BY <1>6, <1>7

\* A survey takes the first of the clients that are left, whatever its outcome.
LEMMA SurveyTakesFirst ==
  ASSUME IInv, ReceiveOk \/ ReceiveError
  PROVE  /\ tempClientIdx \in ToSurvey
         /\ \A d \in ToSurvey : tempClientIdx <= d
         /\ ToSurvey' = ToSurvey \ {tempClientIdx}
<1>1. /\ pc = "survey" /\ tempClientIdx # None /\ pc' \in {"survey", "send"}
      /\ UNCHANGED <<cfgCnt, cfgRate, stage, rate>>
  BY DEF ReceiveOk, ReceiveError, cfgVars, queueVars
<1>2. /\ tempClientIdx \in ClientsOf(stage) /\ ClientsOf(stage)' = ClientsOf(stage)
      /\ \A i \in ClientsOf(stage) : i \in Nat
  BY <1>1, ScanFacts DEF ProcessPoints, IInv, CursorInv, Holds, ClientsOf
<1>3. ToSurvey = {i \in ClientsOf(stage) : i >= tempClientIdx}
  BY <1>1 DEF ToSurvey
<1>4. ToSurvey' = {i \in ClientsOf(stage) : i > tempClientIdx}
  <2>1. CASE ReceiveOk
    BY <1>2, <2>1 DEF ReceiveOk, ToSurvey, queueVars
  <2>2. CASE ReceiveError
    BY <1>1, <2>2, Advance DEF ReceiveError
  <2> QED
    BY <2>1, <2>2
<1> QED
  BY <1>2, <1>3, <1>4

\* Sending a reading takes none.
LEMMA SendingLeaves ==
  ASSUME IInv, SendData
  PROVE  ToSurvey' = ToSurvey
<1>1. /\ pc = "send" /\ tempClientIdx # None /\ pc' = "survey"
      /\ UNCHANGED <<cfgCnt, cfgRate, stage, rate>>
  BY DEF SendData, IInv, CursorInv, cfgVars
<1> QED
  BY <1>1, Advance DEF SendData, ToSurvey

\* The service speaks of the same rates and the same "no client".
LEMMA SameConstants == PS!RefreshRate = RefreshRate /\ PS!None = None
  BY DEF RefreshRate, PS!RefreshRate, None, PS!None

\* The initial states of the main loop are initial states of the service.
LEMMA SimulationInit == Init => PS!Init
<1> SUFFICES ASSUME Init PROVE PS!Init
  OBVIOUS
<1>1. [r \in RefreshRate |-> ClientsOf(r)] \in [RefreshRate -> SUBSET Nat]
  BY DEF Init, ClientsOf
<1> QED
  BY <1>1, SameConstants DEF Init, TimerInit, ToSurvey, PS!Init, PS!Idle

\* A step that leaves the scan alone leaves the service alone.
LEMMA SimulationIdle ==
  ASSUME pc \notin {"survey", "send"}, pc' \notin {"survey", "send"},
         UNCHANGED <<cfgCnt, cfgRate, armed, period>>
  PROVE  UNCHANGED PS!psVars
<1>1. \A r : ClientsOf(r)' = ClientsOf(r)
  BY DEF ClientsOf
<1>2. ToSurvey = {} /\ ToSurvey' = {}
  BY DEF ToSurvey
<1> QED
  BY <1>1, <1>2 DEF PS!psVars

LEMMA SimulationStep == IInv /\ IInv' /\ [Next]_vars => [PS!Next]_(PS!psVars)
<1> SUFFICES ASSUME IInv, IInv', [Next]_vars PROVE PS!Next \/ UNCHANGED PS!psVars
  OBVIOUS
<1>1. TypeOK /\ TypeOK' /\ PhaseInv /\ CursorInv
  BY DEF IInv
<1>2. ASSUME UNCHANGED <<cfgCnt, cfgRate>>
      PROVE [r \in RefreshRate |-> ClientsOf(r)]' = [r \in RefreshRate |-> ClientsOf(r)]
  BY <1>2 DEF ClientsOf
<1>3. CASE InitMqtt
  <2>1. armed = FALSE
    BY <1>1, <1>3 DEF InitMqtt, PhaseInv, ProcessPoints, TypeOK, TimerTypeOK
  <2> QED
    BY <1>3, <2>1, SimulationIdle DEF InitMqtt, timer_stop, cfgVars
<1>4. CASE InitManager \/ FillQueue
  BY <1>4, SimulationIdle DEF InitManager, FillQueue, timerVars, cfgVars
<1>5. CASE InitTimer
  <2>1. CASE timer_start /\ pc' = "check"
    <3>1. ~armed /\ armed' = TRUE /\ UNCHANGED period
      BY <1>1, <1>5, <2>1 DEF InitTimer, PhaseInv, ProcessPoints, timer_start
    <3>2. ToSurvey = {} /\ ToSurvey' = {}
      BY <1>5, <2>1 DEF InitTimer, ToSurvey
    <3> QED
      BY <1>2, <1>5, <2>1, <3>1, <3>2 DEF InitTimer, cfgVars, PS!Next, PS!Start
  <2>2. CASE pc' = "init_sys" /\ UNCHANGED timerVars
    BY <1>5, <2>2, SimulationIdle DEF InitTimer, timerVars, cfgVars
  <2> QED
    BY <1>5, <2>1, <2>2 DEF InitTimer
<1>6. CASE SkipScan
  BY <1>6, SimulationIdle DEF SkipScan, timerVars, cfgVars
<1>7. CASE BeginScan
  <2>1. /\ armed /\ pc \in ProcessPoints /\ stage \in RefreshRate
        /\ UNCHANGED <<cfgCnt, cfgRate, stage, armed, period>>
    BY <1>1, <1>7 DEF BeginScan, PhaseInv, ProcessPoints, cfgVars, timerVars, TypeOK
  <2>2. tempClientIdx' = rate[stage][0]
    BY <1>7 DEF BeginScan, queueGetFirst
  <2>3. ClientsOf(stage)' = ClientsOf(stage) /\ ClientsOf(stage) \in SUBSET Nat
    BY <2>1, ScanFacts DEF ClientsOf
  <2>4. IF rate[stage][0] = None THEN ClientsOf(stage) = {}
        ELSE \A i \in ClientsOf(stage) : i >= rate[stage][0]
    BY <2>1, <2>3, ScanFacts, FromFirst
  <2>5. ToSurvey' = ClientsOf(stage)
    BY <1>7, <2>1, <2>2, <2>3, <2>4 DEF BeginScan, ToSurvey
  <2>6. stage # PS!Idle
    BY <2>1 DEF RefreshRate, PS!Idle
  <2>7. PS!BeginScan(stage)
    BY <1>2, <1>7, <2>1, <2>5 DEF BeginScan, PS!BeginScan, PS!Idle
  <2> QED
    BY <2>1, <2>7, SameConstants DEF PS!Next
<1>8. CASE ReceiveOk \/ ReceiveError
  <2>1. /\ pc = "survey" /\ tempClientIdx # None /\ pc' \in {"survey", "send"}
        /\ UNCHANGED <<cfgCnt, cfgRate, stage, rate, armed, period>>
    BY <1>8 DEF ReceiveOk, ReceiveError, cfgVars, timerVars, queueVars
  <2>2. /\ tempClientIdx \in ToSurvey
        /\ \A d \in ToSurvey : tempClientIdx <= d
        /\ ToSurvey' = ToSurvey \ {tempClientIdx}
    BY <1>8, SurveyTakesFirst
  <2>3. (IF pc = "send" THEN clientData ELSE None)' \in {tempClientIdx, None}
    BY <1>8 DEF ReceiveOk, ReceiveError
  <2>4. stage # PS!Idle
    BY <1>1 DEF TypeOK, RefreshRate, PS!Idle
  <2> QED
    BY <1>2, <2>1, <2>2, <2>3, <2>4, SameConstants DEF PS!Next, PS!Survey
<1>9. CASE SendData
  <2>1. /\ pc = "send" /\ tempClientIdx # None /\ clientData = tempClientIdx /\ pc' = "survey"
        /\ UNCHANGED <<cfgCnt, cfgRate, stage, rate, armed, period>>
    BY <1>1, <1>9 DEF SendData, CursorInv, cfgVars, timerVars
  <2> QED
    BY <1>2, <1>9, <2>1, SendingLeaves, SameConstants DEF PS!Next, PS!Publish
<1>10. CASE EndScan
  <2>1. /\ pc = "survey" /\ pc' = "check" /\ stage \in RefreshRate
        /\ UNCHANGED <<cfgCnt, cfgRate, armed>>
    BY <1>1, <1>10 DEF EndScan, cfgVars, TypeOK
  <2>2. ToSurvey = {} /\ ToSurvey' = {}
    BY <1>10 DEF EndScan, ToSurvey
  <2>3. stage # PS!Idle
    BY <2>1 DEF RefreshRate, PS!Idle
  <2> QED
    BY <1>2, <1>10, <2>1, <2>2, <2>3, SameConstants DEF EndScan, PS!Next, PS!EndScan, PS!Idle
<1>11. CASE Tick
  <2>1. armed /\ UNCHANGED <<armed, pc, stage, cfgCnt, cfgRate, tempClientIdx, clientData>>
    BY <1>11 DEF Tick, timer_handler_100ms, cfgVars, mainVars, queueVars
  <2>2. ToSurvey' = ToSurvey
    BY <2>1 DEF ToSurvey, ClientsOf
  <2>3. period' \in [RefreshRate -> BOOLEAN] /\ \A r \in RefreshRate : period[r] => period'[r]
    BY <1>1, <1>11 DEF Tick, timer_handler_100ms, TypeOK, TimerTypeOK
  <2> QED
    BY <1>2, <2>1, <2>2, <2>3, SameConstants DEF PS!Next, PS!BecomeDue
<1>12. CASE UNCHANGED vars
  <2>1. UNCHANGED <<armed, period, pc, stage, cfgCnt, cfgRate, tempClientIdx, clientData>>
    BY <1>12 DEF vars, cfgVars, mainVars, queueVars, timerVars
  <2>2. ToSurvey' = ToSurvey
    BY <2>1 DEF ToSurvey, ClientsOf
  <2> QED
    BY <1>2, <2>1, <2>2 DEF PS!psVars
<1> QED
  BY <1>3, <1>4, <1>5, <1>6, <1>7, <1>8, <1>9, <1>10, <1>11, <1>12 DEF Next, Main

\* The main loop, with its queue and its timer, is a polling service: scans
\* survey every client of their rate once and in order, whatever the number
\* of clients, the periods and the moments the ticks come at.
THEOREM Implementation == SafeSpec => ImplementsPollingService
<1>1. SafeSpec => []IInv
  BY Invariance
<1> QED
  BY <1>1, SimulationInit, SimulationStep, PTL DEF SafeSpec, ImplementsPollingService, PS!SafeSpec

-----------------------------------------------------------------------------
(* No rate waits for ever: how many steps of the main thread there can be  *)
(* before it looks at the flag of a rate.                                  *)

\* The longest scan, of as many clients as the queue has cells: it begins,
\* receives from each client and sends its reading, and ends.
ScanLimit == 2 * MAX_CLIENT_NUM + 2

\* The steps left of the scan under way, or of one that begins now.
ScanSteps == CASE pc = "survey" -> 2 * Cardinality(ToSurvey) + 1
               [] pc = "send"   -> 2 * Cardinality(ToSurvey) + 2
               [] OTHER         -> ScanLimit

\* The flags main turns to until it comes to the one of rate r; during a scan
\* of r itself these are all three.
Turns(r) == IF stage = r THEN IF pc = "check" THEN 0 ELSE 3
            ELSE IF NextStage(stage) = r THEN 1 ELSE 2

\* Zero means that main is looking at the flag.
Wait(r) == (Turns(r) - 1) * ScanLimit + ScanSteps

LEMMA ScanStepsBounds ==
  ASSUME IInv, pc \in ProcessPoints
  PROVE  /\ IsFiniteSet(ToSurvey) /\ Cardinality(ToSurvey) \in 0 .. MAX_CLIENT_NUM
         /\ ScanLimit \in Nat /\ ScanSteps \in 1 .. ScanLimit
         /\ pc # "check" => ScanSteps < ScanLimit
<1>1. /\ cfgCnt \in 1 .. MAX_CLIENT_NUM /\ MAX_CLIENT_NUM \in Nat
  BY QueueAssumption DEF IInv, PhaseInv, QueueInv, ConfigAccepted
<1>2. IsFiniteSet(0 .. cfgCnt - 1) /\ Cardinality(0 .. cfgCnt - 1) = cfgCnt
  BY <1>1, FS_Interval
<1>3. ToSurvey \in SUBSET (0 .. cfgCnt - 1)
  BY DEF ToSurvey, ClientsOf
<1>4. IsFiniteSet(ToSurvey) /\ Cardinality(ToSurvey) \in Nat /\ Cardinality(ToSurvey) <= cfgCnt
  BY <1>2, <1>3, FS_Subset, FS_CardinalityType
<1>5. ASSUME pc = "send" PROVE Cardinality(ToSurvey) < cfgCnt
  <2>1. tempClientIdx \in ClientsOf(stage)
    BY <1>5, SurveyFacts DEF IInv, CursorInv, SurveysOwnClients
  <2>2. tempClientIdx \in 0 .. cfgCnt - 1 /\ tempClientIdx \notin ToSurvey
    BY <1>1, <1>5, <2>1 DEF ToSurvey, ClientsOf
  <2>3. Cardinality(0 .. cfgCnt - 1) = Cardinality(ToSurvey) => 0 .. cfgCnt - 1 = ToSurvey
    BY <1>2, <1>3, FS_Subset
  <2>4. Cardinality(ToSurvey) # cfgCnt
    BY <1>2, <2>2, <2>3
  <2> QED
    BY <1>1, <1>4, <2>4
<1>6. pc = "check" => ScanSteps = ScanLimit
  BY DEF ScanSteps
<1>7. pc = "survey" => ScanSteps = 2 * Cardinality(ToSurvey) + 1
  BY DEF ScanSteps
<1>8. pc = "send" => ScanSteps = 2 * Cardinality(ToSurvey) + 2
  BY DEF ScanSteps
<1> QED
  BY <1>1, <1>4, <1>5, <1>6, <1>7, <1>8 DEF ScanLimit, ProcessPoints

LEMMA WaitBounds ==
  ASSUME IInv, pc \in ProcessPoints, NEW r \in RefreshRate
  PROVE  /\ Turns(r) \in 0 .. 3
         /\ Wait(r) \in 0 .. 3 * ScanLimit - 1
         /\ Wait(r) = 0 <=> pc = "check" /\ stage = r
<1>1. /\ ScanLimit \in Nat /\ ScanSteps \in 1 .. ScanLimit
      /\ pc # "check" => ScanSteps < ScanLimit
      /\ pc = "check" => ScanSteps = ScanLimit
  BY ScanStepsBounds DEF ScanSteps
<1>2. CASE pc = "check" /\ stage = r
  <2>1. Turns(r) = 0
    BY <1>2 DEF Turns
  <2>2. Wait(r) = 0
    BY <1>1, <1>2, <2>1 DEF Wait
  <2> QED
    BY <1>1, <1>2, <2>1, <2>2
<1>3. CASE ~(pc = "check" /\ stage = r)
  <2>1. Turns(r) \in 1 .. 3 /\ (pc = "check" => Turns(r) \in 1 .. 2)
    BY <1>3 DEF Turns
  <2>2. Turns(r) = 1 => Wait(r) = ScanSteps
    BY <1>1 DEF Wait
  <2>3. Turns(r) = 2 => Wait(r) = ScanLimit + ScanSteps
    BY <1>1 DEF Wait
  <2>4. Turns(r) = 3 => Wait(r) = 2 * ScanLimit + ScanSteps
    BY <1>1 DEF Wait
  <2> QED
    BY <1>1, <1>3, <2>1, <2>2, <2>3, <2>4
<1> QED
  BY <1>2, <1>3

\* A turn of main takes all the steps that were left of its scan.
LEMMA TurnShortens ==
  ASSUME NEW r \in RefreshRate, stage \in RefreshRate, pc # "check" \/ stage # r,
         stage' = NextStage(stage), pc' = "check"
  PROVE  Turns(r) \in 1 .. 3 /\ Turns(r)' = Turns(r) - 1
<1>1. CASE stage = r
  BY <1>1 DEF Turns, NextStage, RefreshRate
<1>2. CASE stage # r
  BY <1>2 DEF Turns, NextStage, RefreshRate
<1> QED
  BY <1>1, <1>2

\* Every step of main brings it nearer to the flag.
LEMMA WaitShortens ==
  ASSUME IInv, IInv', pc \in ProcessPoints, Main, NEW r \in RefreshRate, Wait(r) # 0
  PROVE  Wait(r)' \in Nat /\ Wait(r)' < Wait(r)
<1>1. ~(pc = "check" /\ stage = r) /\ stage \in RefreshRate /\ Turns(r) \in 1 .. 3
  <2>1. ~(pc = "check" /\ stage = r) /\ stage \in RefreshRate
    BY WaitBounds DEF IInv, TypeOK
  <2> QED
    BY <2>1 DEF Turns
<1>2. /\ ScanLimit \in Nat /\ ScanLimit' = ScanLimit
      /\ ScanSteps \in 1 .. ScanLimit /\ (pc = "check" => ScanSteps = ScanLimit)
  BY ScanStepsBounds DEF ScanSteps, ScanLimit
<1>3. CASE SkipScan \/ EndScan
  <2>1. stage' = NextStage(stage) /\ pc' = "check"
    BY <1>3 DEF SkipScan, EndScan
  <2>2. Turns(r) \in 1 .. 3 /\ Turns(r)' = Turns(r) - 1
    BY <1>1, <2>1, TurnShortens
  <2>3. ScanSteps' = ScanLimit
    BY <2>1 DEF ScanSteps, ScanLimit
  <2>4. Wait(r)' = (Turns(r) - 2) * ScanLimit + ScanLimit /\ Wait(r) = (Turns(r) - 1) * ScanLimit + ScanSteps
    BY <1>2, <2>2, <2>3 DEF Wait
  <2>5. Turns(r) = 1 \/ Turns(r) = 2 \/ Turns(r) = 3
    BY <2>2
  <2> QED
    BY <1>2, <2>4, <2>5
<1>4. ASSUME stage' = stage, pc' \in {"survey", "send"}, ScanSteps' < ScanSteps, ScanSteps' \in Nat
      PROVE Wait(r)' \in Nat /\ Wait(r)' < Wait(r)
  <2>1. Turns(r)' = Turns(r)
    BY <1>1, <1>4 DEF Turns
  <2>2. Wait(r)' = (Turns(r) - 1) * ScanLimit + ScanSteps' /\ Wait(r) = (Turns(r) - 1) * ScanLimit + ScanSteps
    BY <1>2, <2>1 DEF Wait
  <2>3. (Turns(r) - 1) * ScanLimit \in Nat
    <3>1. Turns(r) = 1 \/ Turns(r) = 2 \/ Turns(r) = 3
      BY <1>1
    <3> QED
      BY <1>2, <3>1
  <2> QED
    BY <1>2, <1>4, <2>2, <2>3
<1>5. CASE BeginScan
  <2>1. /\ pc = "check" /\ pc' = "survey" /\ stage' = stage
        /\ cfgCnt \in 1 .. MAX_CLIENT_NUM /\ MAX_CLIENT_NUM \in Nat /\ cfgCnt' = cfgCnt
    BY <1>5, QueueAssumption DEF BeginScan, IInv, PhaseInv, QueueInv, ConfigAccepted, cfgVars
  <2>2. IsFiniteSet(0 .. cfgCnt - 1) /\ Cardinality(0 .. cfgCnt - 1) = cfgCnt
    BY <2>1, FS_Interval
  <2>3. ToSurvey' \in SUBSET (0 .. cfgCnt - 1)
    BY <2>1 DEF ToSurvey, ClientsOf
  <2>4. Cardinality(ToSurvey') \in Nat /\ Cardinality(ToSurvey') <= cfgCnt
    BY <2>2, <2>3, FS_Subset, FS_CardinalityType
  <2>5. ScanSteps' = 2 * Cardinality(ToSurvey') + 1 /\ ScanSteps = ScanLimit
    BY <2>1 DEF ScanSteps
  <2>6. ScanSteps' < ScanSteps /\ ScanSteps' \in Nat
    BY <2>1, <2>4, <2>5 DEF ScanLimit
  <2> QED
    BY <1>4, <2>1, <2>6
<1>6. CASE ReceiveOk \/ ReceiveError
  <2>1. pc = "survey" /\ pc' \in {"survey", "send"} /\ stage' = stage
    BY <1>6 DEF ReceiveOk, ReceiveError
  <2>2. tempClientIdx \in ToSurvey /\ ToSurvey' = ToSurvey \ {tempClientIdx}
    BY <1>6, SurveyTakesFirst
  <2>3. IsFiniteSet(ToSurvey) /\ Cardinality(ToSurvey) \in Nat
    BY ScanStepsBounds
  <2>4. Cardinality(ToSurvey') = Cardinality(ToSurvey) - 1 /\ Cardinality(ToSurvey) # 0
    <3>1. Cardinality(ToSurvey \ {tempClientIdx}) = Cardinality(ToSurvey) - 1
      BY <2>2, <2>3, FS_RemoveElement
    <3>2. Cardinality(ToSurvey) # 0
      BY <2>2, <2>3, FS_EmptySet
    <3> QED
      BY <2>2, <3>1, <3>2
  <2>5. ScanSteps = 2 * Cardinality(ToSurvey) + 1
    BY <2>1 DEF ScanSteps
  <2>6. ScanSteps' \in {2 * Cardinality(ToSurvey') + 1, 2 * Cardinality(ToSurvey') + 2}
    BY <2>1 DEF ScanSteps
  <2>7. ScanSteps' < ScanSteps /\ ScanSteps' \in Nat
    BY <2>3, <2>4, <2>5, <2>6
  <2> QED
    BY <1>4, <2>1, <2>7
<1>7. CASE SendData
  <2>1. pc = "send" /\ pc' = "survey" /\ stage' = stage
    BY <1>7 DEF SendData
  <2>2. ToSurvey' = ToSurvey /\ Cardinality(ToSurvey) \in Nat
    BY <1>7, SendingLeaves, ScanStepsBounds
  <2>3. ScanSteps = 2 * Cardinality(ToSurvey) + 2 /\ ScanSteps' = 2 * Cardinality(ToSurvey) + 1
    BY <2>1, <2>2 DEF ScanSteps
  <2> QED
    BY <1>4, <2>1, <2>2, <2>3
<1> QED
  BY <1>3, <1>5, <1>6, <1>7
  DEF Main, InitMqtt, InitManager, FillQueue, InitTimer, ProcessPoints

\* A tick costs none of them.
LEMMA WaitKept ==
  ASSUME UNCHANGED <<cfgCnt, cfgRate, pc, stage, tempClientIdx>>, NEW r \in RefreshRate
  PROVE  Wait(r)' = Wait(r)
<1>1. ToSurvey' = ToSurvey
  BY DEF ToSurvey, ClientsOf
<1>2. ScanSteps' = ScanSteps /\ Turns(r)' = Turns(r) /\ ScanLimit' = ScanLimit
  BY <1>1 DEF ScanSteps, Turns, ScanLimit
<1> QED
  BY <1>2 DEF Wait

\* Main looks at the flag of every rate within a fixed number of its own steps.
WaitsBounded == pc \in ProcessPoints => \A r \in RefreshRate : Wait(r) \in 0 .. 3 * ScanLimit - 1

\* Each of its steps brings main nearer to every flag but the one it looks at,
\* which starts a scan if it is up, and no tick takes it further away.
RatesTakeTurns ==
  [][(pc \in ProcessPoints) => \A r \in RefreshRate :
       \/ Main /\ Wait(r)' < Wait(r)
       \/ Tick /\ Wait(r)' = Wait(r)
       \/ Main /\ Wait(r) = 0 /\ (period[r] => pc' = "survey" /\ stage' = r)]_vars

\* No rate starves, without any assumption on fairness between the rates:
\* however long the scans are that the others are given, and whatever ticks
\* arrive, main is back at the flag of a rate after three scans at most.
THEOREM WaitCorrect == SafeSpec => []WaitsBounded /\ RatesTakeTurns
<1>1. IInv => WaitsBounded
  BY WaitBounds DEF WaitsBounded
<1>2. ASSUME IInv, IInv', Next, pc \in ProcessPoints, NEW r \in RefreshRate
      PROVE \/ Main /\ Wait(r)' < Wait(r)
            \/ Tick /\ Wait(r)' = Wait(r)
            \/ Main /\ Wait(r) = 0 /\ (period[r] => pc' = "survey" /\ stage' = r)
  <2>1. CASE Tick
    BY <2>1, WaitKept DEF Tick, cfgVars, mainVars, queueVars
  <2>2. CASE Main /\ Wait(r) # 0
    BY <1>2, <2>2, WaitShortens
  <2>3. CASE Main /\ Wait(r) = 0
    <3>1. pc = "check" /\ stage = r
      BY <1>2, <2>3, WaitBounds
    <3>2. SkipScan \/ BeginScan
      BY <2>3, <3>1 DEF Main, InitMqtt, InitManager, FillQueue, InitTimer, ReceiveOk, ReceiveError,
                        SendData, EndScan
    <3> QED
      BY <2>3, <3>1, <3>2 DEF SkipScan, BeginScan
  <2> QED
    BY <1>2, <2>1, <2>2, <2>3 DEF Next
<1>3. IInv /\ IInv' /\ [Next]_vars =>
        [(pc \in ProcessPoints) => \A r \in RefreshRate :
           \/ Main /\ Wait(r)' < Wait(r)
           \/ Tick /\ Wait(r)' = Wait(r)
           \/ Main /\ Wait(r) = 0 /\ (period[r] => pc' = "survey" /\ stage' = r)]_vars
  BY <1>2
<1> QED
  BY Invariance, <1>1, <1>3, PTL DEF SafeSpec, RatesTakeTurns
=============================================================================
