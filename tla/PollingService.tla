--------------------------- MODULE PollingService ---------------------------
(***************************************************************************)
(* What the module promises to whoever configures it, with no queue, no    *)
(* cursor and no order of polling: once it serves, a rate that has become  *)
(* due gets a scan; a scan surveys every client of its rate once, in the   *)
(* order of the configuration; a reading is published at most once, and    *)
(* only while the client it came from is the one being surveyed.  A rate   *)
(* stays due until a scan of it has ended, so that a tick that arrives     *)
(* during the scan of its own rate is answered by that scan.               *)
(***************************************************************************)
EXTENDS TsConst

VARIABLES
  members,    \* the clients configured for each rate
  serving,    \* initialisation has finished
  due,        \* rates whose time has come
  scanning,   \* the rate being scanned, or Idle
  todo,       \* clients of that rate not yet surveyed
  reading     \* the client whose reading waits to be published, or None

psVars == <<members, serving, due, scanning, todo, reading>>

Idle == "idle"

Init ==
  /\ members \in [RefreshRate -> SUBSET Nat]
  /\ serving = FALSE
  /\ due = [r \in RefreshRate |-> FALSE]
  /\ scanning = Idle
  /\ todo = {}
  /\ reading = None

Start ==
  /\ ~serving
  /\ serving' = TRUE
  /\ UNCHANGED <<members, due, scanning, todo, reading>>

\* Time passes: rates become due, none stops being due.
BecomeDue ==
  /\ serving
  /\ due' \in [RefreshRate -> BOOLEAN]
  /\ \A r \in RefreshRate : due[r] => due'[r]
  /\ UNCHANGED <<members, serving, scanning, todo, reading>>

BeginScan(r) ==
  /\ serving
  /\ scanning = Idle
  /\ due[r]
  /\ scanning' = r
  /\ todo' = members[r]
  /\ UNCHANGED <<members, serving, due, reading>>

\* The first client left is surveyed; its reading arrives or it does not.
Survey ==
  /\ scanning # Idle
  /\ reading = None
  /\ \E c \in todo :
       /\ \A d \in todo : c <= d
       /\ todo' = todo \ {c}
       /\ reading' \in {c, None}
  /\ UNCHANGED <<members, serving, due, scanning>>

Publish ==
  /\ reading # None
  /\ reading' = None
  /\ UNCHANGED <<members, serving, due, scanning, todo>>

EndScan ==
  /\ scanning # Idle
  /\ todo = {}
  /\ reading = None
  /\ scanning' = Idle
  /\ due' = [due EXCEPT ![scanning] = FALSE]
  /\ UNCHANGED <<members, serving, todo, reading>>

Next ==
  \/ Start
  \/ BecomeDue
  \/ \E r \in RefreshRate : BeginScan(r)
  \/ Survey
  \/ Publish
  \/ EndScan

SafeSpec == Init /\ [][Next]_psVars

\* No rate is starved by the others, and a scan that has begun goes on.
Fairness ==
  /\ \A r \in RefreshRate : SF_psVars(BeginScan(r))
  /\ WF_psVars(Survey \/ Publish \/ EndScan)

Spec == SafeSpec /\ Fairness
=============================================================================
