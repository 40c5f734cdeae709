-------------------------------- MODULE Mqtt --------------------------------
(***************************************************************************)
(* The connection to the broker (mqtt_connect.c) as init_sys makes it and  *)
(* send_data uses it (main.c): mqtt_init, repeated until it succeeds, and  *)
(* publishing with quality of service 0.  libmosquitto is external: its    *)
(* network thread notices a connection that is gone, connects again, and   *)
(* sends what mosquitto_publish has queued.                                *)
(***************************************************************************)
EXTENDS Integers

CONSTANTS
  OBJ_MAX,   \* mosquitto objects there is memory for
  OUT_MAX    \* bound: packets queued in the current object

ASSUME MqttAssumption == OBJ_MAX \in Nat \ {0} /\ OUT_MAX \in Nat \ {0}

VARIABLES
  given,      \* the configuration file has a list "mqtt" whose first element
              \* has all the settings
  pc,         \* where the main thread is
  ready,      \* dev_status.mqtt
  others,     \* dev_status.manager, and the timer starts
  mosq,       \* the global object, or NULL
  object,     \* what has been done with each object
  link,       \* its connection
  out,        \* packets queued in the current object
  broker      \* the broker answers

objects == <<mosq, object, link, out>>
vars    == <<given, pc, ready, others, objects, broker>>

Objects == 1 .. OBJ_MAX
NULL == 0

\* A connection that is up may lose its peer (dead) before the network thread
\* notices (lost).
LinkState == {"none", "up", "dead", "lost"}

TypeOK ==
  /\ given \in BOOLEAN /\ ready \in BOOLEAN /\ others \in BOOLEAN /\ broker \in BOOLEAN
  /\ pc \in {"init_sys", "new", "set", "tls", "connect", "loop", "finish", "serve", "crashed"}
  /\ mosq \in Objects \cup {NULL}
  /\ object \in [Objects -> {"free", "new", "tls", "connected", "looping"}]
  /\ link \in [Objects -> LinkState]
  /\ out \in 0 .. OUT_MAX

Init ==
  /\ given \in BOOLEAN
  /\ pc = "init_sys"
  /\ ready = FALSE /\ others = FALSE
  /\ mosq = NULL
  /\ object = [o \in Objects |-> "free"]
  /\ link = [o \in Objects |-> "none"]
  /\ out = 0
  /\ broker \in BOOLEAN

-----------------------------------------------------------------------------
(* mqtt_init, one call of the library per step.  Whatever fails, it        *)
(* returns and leaves the object behind.                                   *)

\* mqtt_init has returned; init_sys goes on.
Done(ok) == pc' = "finish" /\ ready' = ok

\* An init_sys that connects at each of its repetitions.
BeginInitAlways ==
  /\ pc = "init_sys"
  /\ pc' \in {"new"} \cup (IF given THEN {} ELSE {"crashed"})
  /\ UNCHANGED <<given, ready, others, objects, broker>>

\* An init_sys that takes an object for a connection.
BeginInitOnce ==
  /\ pc = "init_sys"
  /\ pc' \in IF mosq # NULL THEN {"finish"} ELSE {"new"} \cup (IF given THEN {} ELSE {"crashed"})
  /\ UNCHANGED <<given, ready, others, objects, broker>>

\* init_sys connects unless that was done.  The settings are looked up in the
\* first element of the list: an empty list has none, and is dereferenced.
BeginInit ==
  /\ pc = "init_sys"
  /\ pc' \in IF ready THEN {"finish"} ELSE {"new"} \cup (IF given THEN {} ELSE {"crashed"})
  /\ UNCHANGED <<given, ready, others, objects, broker>>

\* mosquitto_new: the global is overwritten, in failure too.
NewObject ==
  /\ pc = "new"
  /\ \/ mosq' = NULL /\ Done(FALSE) /\ UNCHANGED object
     \/ \E o \in Objects :
          /\ object[o] = "free"
          /\ object' = [object EXCEPT ![o] = "new"]
          /\ mosq' = o
          /\ pc' = "set"
          /\ UNCHANGED ready
  /\ out' = 0
  /\ UNCHANGED <<given, others, link, broker>>

\* mosquitto_username_pw_set, the first use of the settings: without a list
\* in the file they were never written, and the pointers are wild or not.
UserName ==
  /\ pc = "set"
  /\ pc' \in {"tls"} \cup (IF given THEN {} ELSE {"crashed"})
  /\ UNCHANGED <<given, ready, others, objects, broker>>

\* mosquitto_tls_set and mosquitto_tls_insecure_set.
Tls ==
  /\ pc = "tls"
  /\ \/ Done(FALSE) /\ UNCHANGED object
     \/ /\ object' = [object EXCEPT ![mosq] = "tls"]
        /\ pc' = "connect"
        /\ UNCHANGED ready
  /\ UNCHANGED <<given, others, mosq, link, out, broker>>

\* mosquitto_connect; the wild settings of a file without a list may crash it.
Connect ==
  /\ pc = "connect"
  /\ \/ Done(FALSE) /\ UNCHANGED <<object, link>>
     \/ ~given /\ pc' = "crashed" /\ UNCHANGED <<ready, object, link>>
     \/ /\ broker /\ given
        /\ object' = [object EXCEPT ![mosq] = "connected"]
        /\ link' = [link EXCEPT ![mosq] = "up"]
        /\ pc' = "loop"
        /\ UNCHANGED ready
  /\ UNCHANGED <<given, others, mosq, out, broker>>

\* An mqtt_init that takes its connection for enough.
LoopStartUnchecked ==
  /\ pc = "loop"
  /\ \E ok \in BOOLEAN :
       object' = [object EXCEPT ![mosq] = IF ok THEN "looping" ELSE @]
  /\ Done(TRUE)
  /\ UNCHANGED <<given, others, mosq, link, out, broker>>

\* mosquitto_loop_start.
LoopStart ==
  /\ pc = "loop"
  /\ \E ok \in BOOLEAN :
       /\ object' = [object EXCEPT ![mosq] = IF ok THEN "looping" ELSE @]
       /\ Done(ok)
  /\ UNCHANGED <<given, others, mosq, link, out, broker>>

\* The rest of init_sys: the program serves, or waits and repeats.
FinishInit ==
  /\ pc = "finish"
  /\ others' \in {others, TRUE}
  /\ pc' = IF ready /\ others' THEN "serve" ELSE "init_sys"
  /\ UNCHANGED <<given, ready, objects, broker>>

-----------------------------------------------------------------------------
(* mqtt_send.                                                              *)

\* A packet is queued, or there is no connection and it is lost; main does
\* not send it again.
Publish ==
  /\ pc = "serve"
  /\ out' = IF link[mosq] \in {"up", "dead"} /\ out < OUT_MAX THEN out + 1 ELSE out
  /\ UNCHANGED <<given, pc, ready, others, mosq, object, link, broker>>

-----------------------------------------------------------------------------
(* The network thread of an object, and the broker.                        *)

Deliver ==
  /\ pc # "crashed"
  /\ mosq # NULL
  /\ object[mosq] = "looping" /\ link[mosq] = "up" /\ out > 0
  /\ out' = out - 1
  /\ UNCHANGED <<given, pc, ready, others, mosq, object, link, broker>>

\* What was queued in a connection goes with it.
NoticeLoss(o) ==
  /\ pc # "crashed"
  /\ object[o] = "looping" /\ link[o] = "dead"
  /\ link' = [link EXCEPT ![o] = "lost"]
  /\ out' = IF o = mosq THEN 0 ELSE out
  /\ UNCHANGED <<given, pc, ready, others, mosq, object, broker>>

Reconnect(o) ==
  /\ pc # "crashed"
  /\ object[o] = "looping" /\ link[o] = "lost" /\ broker
  /\ link' = [link EXCEPT ![o] = "up"]
  /\ UNCHANGED <<given, pc, ready, others, mosq, object, out, broker>>

BrokerDown ==
  /\ pc # "crashed"
  /\ broker
  /\ broker' = FALSE
  /\ link' = [o \in Objects |-> IF link[o] = "up" THEN "dead" ELSE link[o]]
  /\ UNCHANGED <<given, pc, ready, others, mosq, object, out>>

BrokerUp ==
  /\ pc # "crashed"
  /\ ~broker
  /\ broker' = TRUE
  /\ UNCHANGED <<given, pc, ready, others, objects>>

mqtt_init == NewObject \/ UserName \/ Tls \/ Connect \/ LoopStart

Main == BeginInit \/ mqtt_init \/ FinishInit \/ Publish

Thread(o) == NoticeLoss(o) \/ Reconnect(o)

Next ==
  \/ Main
  \/ Deliver
  \/ \E o \in Objects : Thread(o)
  \/ BrokerDown \/ BrokerUp

SafeSpec == Init /\ [][Next]_vars

(* Main never blocks for ever: every call returns, and the scans publish    *)
(* again and again (MainLoop).  A step that can succeed does so some time   *)
(* if it is tried for ever, and the network thread runs.                    *)
Fairness ==
  /\ WF_vars(Main)
  /\ SF_vars(NewObject /\ mosq' # NULL)
  /\ SF_vars(Tls /\ pc' = "connect")
  /\ SF_vars(Connect /\ pc' = "loop")
  /\ SF_vars(LoopStart /\ ready')
  /\ SF_vars(FinishInit /\ others')
  /\ SF_vars(Publish)
  /\ SF_vars(Deliver)
  /\ \A o \in Objects : WF_vars(Thread(o))

Spec == SafeSpec /\ Fairness

-----------------------------------------------------------------------------
(* Properties.                                                             *)

Looping == {o \in Objects : object[o] = "looping"}

\* However often mqtt_init fails, at whatever call, and however often init_sys
\* is repeated after it has succeeded, there is one network thread at most,
\* it is the one of the object main publishes to, and main knows of it; no
\* object that was given up goes on by itself.
OneNetworkThread ==
  /\ Looping = IF ready THEN {mosq} ELSE {}
  /\ pc = "serve" => ready /\ mosq # NULL

\* Objects given up are never freed, and they have used up the memory.
Exhausted == pc \in {"init_sys", "new", "finish"} /\ ~ready /\ \A o \in Objects : object[o] # "free"

\* If the broker answers for good, the program comes to serve, unless the
\* attempts before have used up the memory.
ServesUnlessExhausted == given /\ <>[]broker => <>(pc = "serve") \/ <>Exhausted

\* A broker that comes back is sent readings again without the main thread
\* doing anything about it.
DeliversAgain == []<>(pc = "serve") /\ <>[]broker => []<><<Deliver>>_vars
=============================================================================
