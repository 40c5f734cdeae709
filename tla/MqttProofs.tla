----------------------------- MODULE MqttProofs -----------------------------
(***************************************************************************)
(* Proofs about Mqtt, for every number of objects there is memory for.     *)
(***************************************************************************)
EXTENDS Mqtt, TLAPS

\* While mqtt_init runs main has no connection, and works on the object it has
\* just created.
Attempt ==
  /\ pc \in {"new", "set", "tls", "connect", "loop"} => ~ready
  /\ pc \in {"set", "tls", "connect", "loop"} => mosq \in Objects

IInv == TypeOK /\ OneNetworkThread /\ Attempt

LEMMA InvInit == Init => IInv
<1> SUFFICES ASSUME Init PROVE IInv OBVIOUS
<1>1. /\ object \in [Objects -> {"free", "new", "tls", "connected", "looping"}]
      /\ link \in [Objects -> LinkState]
  BY DEF Init, LinkState
<1>2. out \in 0 .. OUT_MAX BY MqttAssumption DEF Init
<1>3. TypeOK BY <1>1, <1>2 DEF Init, TypeOK
<1>4. Looping = {} BY DEF Init, Looping
<1> QED BY <1>3, <1>4 DEF Init, IInv, OneNetworkThread, Attempt

\* A step of mqtt_init that changes at most the state of the current object,
\* and to one that has no network thread.
LEMMA ObjectStep ==
  ASSUME IInv, ~ready, ~ready',
         \/ UNCHANGED object
         \/ \E o \in Objects, s \in {"new", "tls", "connected"} :
              object' = [object EXCEPT ![o] = s]
  PROVE  /\ object' \in [Objects -> {"free", "new", "tls", "connected", "looping"}]
         /\ Looping' = {}
<1>1. Looping = {} BY DEF IInv, OneNetworkThread
<1>2. CASE UNCHANGED object BY <1>1, <1>2 DEF IInv, TypeOK, Looping
<1>3. ASSUME NEW o \in Objects, NEW s \in {"new", "tls", "connected"},
             object' = [object EXCEPT ![o] = s]
      PROVE  /\ object' \in [Objects -> {"free", "new", "tls", "connected", "looping"}]
             /\ Looping' = {}
  BY <1>1, <1>3 DEF IInv, TypeOK, Looping
<1> QED BY <1>2, <1>3

LEMMA InvStep == IInv /\ [Next]_vars => IInv'
<1> SUFFICES ASSUME IInv, [Next]_vars PROVE IInv'
  OBVIOUS
<1> USE DEF objects
<1>1. CASE BeginInit
  BY <1>1 DEF BeginInit, IInv, TypeOK, OneNetworkThread, Attempt, Looping
<1>2. CASE NewObject
  <2>1. ~ready /\ ~ready' BY <1>2 DEF NewObject, Done, IInv, Attempt
  <2>2. /\ object' \in [Objects -> {"free", "new", "tls", "connected", "looping"}]
        /\ Looping' = {}
    BY <1>2, <2>1, ObjectStep DEF NewObject
  <2>3. out' \in 0 .. OUT_MAX BY <1>2, MqttAssumption DEF NewObject
  <2>4. mosq' \in Objects \cup {NULL} /\ (pc' = "set" => mosq' \in Objects)
    BY <1>2 DEF NewObject, Done
  <2>5. pc' \in {"set", "finish"} BY <1>2 DEF NewObject, Done
  <2>6. UNCHANGED <<given, others, link, broker>> /\ ready' = FALSE
    <3>1. ready' \in BOOLEAN BY <1>2 DEF NewObject, Done, IInv, TypeOK
    <3> QED BY <1>2, <2>1, <3>1 DEF NewObject
  <2>7. TypeOK' BY <2>2, <2>3, <2>4, <2>5, <2>6 DEF IInv, TypeOK
  <2> QED BY <2>1, <2>2, <2>4, <2>5, <2>7 DEF IInv, OneNetworkThread, Attempt
<1>3. CASE UserName
  BY <1>3 DEF UserName, IInv, TypeOK, OneNetworkThread, Attempt, Looping
<1>4. CASE Tls
  <2>1. ~ready /\ ~ready' /\ mosq \in Objects BY <1>4 DEF Tls, Done, IInv, Attempt
  <2>2. /\ object' \in [Objects -> {"free", "new", "tls", "connected", "looping"}]
        /\ Looping' = {}
    BY <1>4, <2>1, ObjectStep DEF Tls
  <2> QED
    BY <1>4, <2>1, <2>2 DEF Tls, Done, IInv, TypeOK, OneNetworkThread, Attempt
<1>5. CASE Connect
  <2>1. ~ready /\ ~ready' /\ mosq \in Objects BY <1>5 DEF Connect, Done, IInv, Attempt
  <2>2. /\ object' \in [Objects -> {"free", "new", "tls", "connected", "looping"}]
        /\ Looping' = {}
    BY <1>5, <2>1, ObjectStep DEF Connect
  <2>3. link' \in [Objects -> LinkState]
    BY <1>5, <2>1 DEF Connect, IInv, TypeOK, LinkState
  <2> QED
    BY <1>5, <2>1, <2>2, <2>3 DEF Connect, Done, IInv, TypeOK, OneNetworkThread, Attempt
<1>6. CASE LoopStart
  <2>1. ~ready /\ mosq \in Objects /\ Looping = {}
    BY <1>6 DEF LoopStart, IInv, Attempt, OneNetworkThread
  <2>2. PICK ok \in BOOLEAN : /\ object' = [object EXCEPT ![mosq] = IF ok THEN "looping" ELSE @]
                              /\ Done(ok)
    BY <1>6 DEF LoopStart
  <2>3. Looping' = IF ok THEN {mosq} ELSE {}
    BY <2>1, <2>2 DEF Looping, IInv, TypeOK
  <2>4. object' \in [Objects -> {"free", "new", "tls", "connected", "looping"}]
    BY <2>1, <2>2 DEF IInv, TypeOK
  <2> QED
    BY <1>6, <2>1, <2>2, <2>3, <2>4
    DEF LoopStart, Done, IInv, TypeOK, OneNetworkThread, Attempt
<1>7. CASE FinishInit
  <2>1. ready => mosq \in Objects BY DEF IInv, OneNetworkThread, Looping
  <2>2. NULL \notin Objects BY MqttAssumption DEF NULL, Objects
  <2>3. pc' \in {"serve", "init_sys"} /\ (pc' = "serve" => ready) BY <1>7 DEF FinishInit
  <2>4. TypeOK' BY <1>7, <2>3 DEF FinishInit, IInv, TypeOK
  <2>5. Looping' = Looping BY <1>7 DEF FinishInit, Looping
  <2> QED
    BY <1>7, <2>1, <2>2, <2>3, <2>4, <2>5 DEF FinishInit, IInv, OneNetworkThread, Attempt
<1>8. CASE Publish \/ Deliver
  <2>1. out' \in 0 .. OUT_MAX
    BY <1>8, MqttAssumption DEF Publish, Deliver, IInv, TypeOK
  <2> QED
    BY <1>8, <2>1
    DEF Publish, Deliver, IInv, TypeOK, OneNetworkThread, Attempt, Looping
<1>9. ASSUME NEW o \in Objects, Thread(o) PROVE IInv'
  <2>1. link' \in [Objects -> LinkState]
    BY <1>9 DEF Thread, NoticeLoss, Reconnect, IInv, TypeOK, LinkState
  <2>2. out' \in 0 .. OUT_MAX
    BY <1>9, MqttAssumption DEF Thread, NoticeLoss, Reconnect, IInv, TypeOK
  <2> QED
    BY <1>9, <2>1, <2>2
    DEF Thread, NoticeLoss, Reconnect, IInv, TypeOK, OneNetworkThread, Attempt, Looping
<1>10. CASE BrokerDown \/ BrokerUp
  <2>1. link' \in [Objects -> LinkState]
    BY <1>10 DEF BrokerDown, BrokerUp, IInv, TypeOK, LinkState
  <2>2. UNCHANGED <<given, pc, ready, others, mosq, object, out>> /\ broker' \in BOOLEAN
    BY <1>10 DEF BrokerDown, BrokerUp
  <2>3. TypeOK' BY <2>1, <2>2 DEF IInv, TypeOK
  <2> QED BY <2>2, <2>3 DEF IInv, OneNetworkThread, Attempt, Looping
<1>11. CASE UNCHANGED vars
  BY <1>11 DEF vars, IInv, TypeOK, OneNetworkThread, Attempt, Looping
<1> QED
  BY <1>1, <1>2, <1>3, <1>4, <1>5, <1>6, <1>7, <1>8, <1>9, <1>10, <1>11
  DEF Next, Main, mqtt_init

THEOREM Invariance == SafeSpec => []IInv
BY InvInit, InvStep, PTL DEF SafeSpec

\* The objects, their connections and the packets queued keep their types.
THEOREM TypeCorrect == SafeSpec => []TypeOK
<1>1. IInv => TypeOK BY DEF IInv
<1> QED BY <1>1, Invariance, PTL

\* However mqtt_init fails and is repeated there is one network thread at
\* most, that of the object main publishes to.
THEOREM ThreadCorrect == SafeSpec => []OneNetworkThread
<1>1. IInv => OneNetworkThread BY DEF IInv
<1> QED BY <1>1, Invariance, PTL

-----------------------------------------------------------------------------
(* What is for good.                                                       *)

\* A connection that has been made is never made again, and its object never
\* replaced, however often the rest of init_sys fails and is repeated: the
\* network thread restores it by itself.
ConnectionKept == [][ready => ready' /\ UNCHANGED <<mosq, object>>]_vars

\* A program whose attempts have used up the memory for objects does not get
\* one any more: all it can do is repeat init_sys, or crash on settings it was
\* never given.
ExhaustedForGood == [][Exhausted => Exhausted' \/ pc' = "crashed"]_vars

LEMMA KeptStep ==
  ASSUME IInv, Next, ready
  PROVE  ready' /\ UNCHANGED <<mosq, object>>
<1>1. pc \notin {"new", "set", "tls", "connect", "loop"}
  BY DEF IInv, Attempt
<1> QED
  BY <1>1
  DEF Next, Main, mqtt_init, BeginInit, NewObject, UserName, Tls, Connect, LoopStart, FinishInit,
      Publish, Deliver, Thread, NoticeLoss, Reconnect, BrokerDown, BrokerUp, objects

\* Nothing that main has made is unmade by a later attempt.
THEOREM KeptCorrect == SafeSpec => ConnectionKept
<1>1. IInv /\ [Next]_vars => [ready => ready' /\ UNCHANGED <<mosq, object>>]_vars
  BY KeptStep
<1> QED
  BY Invariance, <1>1, PTL DEF SafeSpec, ConnectionKept

LEMMA ExhaustedStep ==
  ASSUME IInv, Next, Exhausted
  PROVE  Exhausted' \/ pc' = "crashed"
<1>1. /\ pc \in {"init_sys", "new", "finish"} /\ ~ready
      /\ \A o \in Objects : object[o] # "free"
      /\ ready \in BOOLEAN
  BY DEF Exhausted, IInv, TypeOK
<1>2. CASE BeginInit
  BY <1>1, <1>2 DEF BeginInit, Exhausted, objects
<1>3. CASE NewObject
  <2>1. mosq' = NULL /\ Done(FALSE) /\ UNCHANGED object
    BY <1>1, <1>3 DEF NewObject
  <2> QED
    BY <1>1, <2>1 DEF Done, Exhausted
<1>4. CASE FinishInit
  BY <1>1, <1>4 DEF FinishInit, Exhausted, objects
<1>5. CASE Deliver \/ BrokerDown \/ BrokerUp \/ \E o \in Objects : Thread(o)
  BY <1>1, <1>5 DEF Deliver, BrokerDown, BrokerUp, Thread, NoticeLoss, Reconnect, Exhausted, objects
<1> QED
  BY <1>1, <1>2, <1>3, <1>4, <1>5
  DEF Next, Main, mqtt_init, UserName, Tls, Connect, LoopStart, Publish

\* An object given up is not given back.
THEOREM ExhaustionCorrect == SafeSpec => ExhaustedForGood
<1>1. IInv /\ [Next]_vars => [Exhausted => Exhausted' \/ pc' = "crashed"]_vars
  BY ExhaustedStep
<1> QED
  BY Invariance, <1>1, PTL DEF SafeSpec, ExhaustedForGood
=============================================================================
