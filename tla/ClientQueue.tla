---------------------------- MODULE ClientQueue ----------------------------
(***************************************************************************)
(* The client queue (client_queue.c): three fixed arrays of client         *)
(* indices, one per refresh rate, each with a read position.  -1 marks an  *)
(* empty cell.  The queue is filled once, by init_sys, and then read again *)
(* and again by the scans of the main loop: queueGetFirst, then            *)
(* queueGetNext until it answers -1.                                       *)
(***************************************************************************)
EXTENDS TsConst

CONSTANT MAX_CLIENT_NUM   \* cells of each array (50 in the program)

ASSUME QueueAssumption == MAX_CLIENT_NUM \in Nat \ {0}

VARIABLES
  rate,           \* _queue.rate_100ms, rate_1s and rate_1m
  pos,            \* _queue.pos_100ms, pos_1s and pos_1m
  tempClientIdx   \* the answer of the last queueGetFirst or queueGetNext

queueVars == <<rate, pos, tempClientIdx>>

Cells    == 0 .. MAX_CLIENT_NUM - 1
InnerIdx == 0 .. MAX_CLIENT_NUM - 1

\* The cells of rate r that hold a client.
Used(r) == {p \in Cells : rate[r][p] # None}

QueueTypeOK ==
  /\ rate \in [RefreshRate -> [Cells -> InnerIdx \cup {None}]]
  /\ pos  \in [RefreshRate -> Cells]
  /\ tempClientIdx \in InnerIdx \cup {None}

-----------------------------------------------------------------------------
(* The operations.                                                         *)

\* A queueCleen that only moves the positions back.
queueCleenKeeps ==
  /\ pos' = [r \in RefreshRate |-> 0]
  /\ UNCHANGED rate

queueCleen ==
  /\ rate' = [r \in RefreshRate |-> [p \in Cells |-> None]]
  /\ pos'  = [r \in RefreshRate |-> 0]

\* queueAdd returns true: the client goes into the first free cell.
queueAdd(r, id) ==
  \E p \in Cells :
    /\ rate[r][p] = None
    /\ \A q \in 0 .. p - 1 : rate[r][q] # None
    /\ rate' = [rate EXCEPT ![r][p] = id]

\* queueAdd returns false: the last cell is not empty.
queueFull(r) == Used(r) = Cells

queueGetFirst(r) ==
  /\ pos' = [pos EXCEPT ![r] = 0]
  /\ tempClientIdx' = rate[r][0]

\* What queueGetNext would answer if it tested the position before moving it.
queueGetNextLate(r) ==
  /\ pos' = [pos EXCEPT ![r] = IF pos[r] = MAX_CLIENT_NUM - 1 THEN 0 ELSE pos[r] + 1]
  /\ tempClientIdx' = rate[r][pos[r]]

\* The position moves first; off the end of the array it wraps to 0.
queueGetNext(r) ==
  \/ /\ pos[r] + 1 = MAX_CLIENT_NUM
     /\ pos' = [pos EXCEPT ![r] = 0]
     /\ tempClientIdx' = None
  \/ /\ pos[r] + 1 # MAX_CLIENT_NUM
     /\ pos' = [pos EXCEPT ![r] = @ + 1]
     /\ tempClientIdx' = rate[r][pos[r] + 1]

=============================================================================
