---------------------------- MODULE TimerProofs ----------------------------
(***************************************************************************)
(* Proofs about TimerCadence, for every number of ticks in a second and    *)
(* every longest period that is a whole number of seconds.                 *)
(***************************************************************************)
EXTENDS TimerCadence, TLAPS

-----------------------------------------------------------------------------
(* Remainders.                                                             *)

\* A number is a multiple of m and its remainder.
LEMMA Division ==
  ASSUME NEW n \in Nat, NEW m \in Nat \ {0}
  PROVE  /\ n % m \in 0 .. m - 1
         /\ \E q \in Int : n % m = n - q * m
<1>1. m \in Int /\ m > 0
  OBVIOUS
<1>2. n % m = n - (n \div m) * m
  BY <1>1, SMTT(20)
<1>3. n \div m \in Int /\ n % m \in 0 .. m - 1
  BY <1>1, SMTT(20)
<1> QED
  BY <1>2, <1>3

\* The quotient and the remainder are unique.
LEMMA Unique ==
  ASSUME NEW m \in Nat \ {0}, NEW p \in Int, NEW q \in Int,
         NEW r \in 0 .. m - 1, NEW s \in 0 .. m - 1,
         p * m + r = q * m + s
  PROVE  r = s
<1> DEFINE d == p - q
<1>1. d \in Int /\ d * m = s - r
  <2>1. d * m = p * m - q * m
    BY SMTT(20)
  <2> QED
    BY <2>1
<1>2. CASE d >= 1
  <2>1. (d - 1) * m >= 0 /\ (d - 1) * m = d * m - m
    BY <1>1, <1>2, SMTT(20)
  <2> QED
    BY <2>1, <1>1
<1>3. CASE d <= -1
  <2>1. (-1 - d) * m >= 0 /\ (-1 - d) * m = - m - d * m
    BY <1>1, <1>3, SMTT(20)
  <2> QED
    BY <2>1, <1>1
<1>4. CASE d = 0
  BY <1>1, <1>4
<1> QED
  BY <1>1, <1>2, <1>3, <1>4

\* The remainder of the next number.
LEMMA ModNext ==
  ASSUME NEW n \in Nat, NEW k \in Nat, k = n + 1, NEW m \in Nat \ {0}
  PROVE  k % m = IF (n % m) + 1 = m THEN 0 ELSE (n % m) + 1
<1> DEFINE r == n % m
           s == k % m
<1>1. PICK q \in Int : r = n - q * m
  BY Division
<1>2. PICK p \in Int : s = k - p * m
  BY Division
<1>3. r \in 0 .. m - 1 /\ s \in 0 .. m - 1
  BY Division
<1> HIDE DEF r, s
<1>4. q * m \in Int /\ p * m \in Int
  BY SMTT(20)
<1>5. CASE r + 1 = m
  <2>1. q + 1 \in Int /\ (q + 1) * m = q * m + m
    BY SMTT(20)
  <2>2. (q + 1) * m + 0 = p * m + s
    BY <1>1, <1>2, <1>3, <1>4, <1>5, <2>1
  <2>3. 0 \in 0 .. m - 1
    OBVIOUS
  <2>4. s = 0
    BY <1>3, <2>1, <2>2, <2>3, Unique
  <2> QED
    BY <2>4, <1>5 DEF r, s
<1>6. CASE r + 1 # m
  <2>1. r + 1 \in 0 .. m - 1
    BY <1>3, <1>6
  <2>2. q * m + (r + 1) = p * m + s
    BY <1>1, <1>2, <1>3, <1>4
  <2>3. s = r + 1
    BY <1>3, <2>1, <2>2, Unique
  <2> QED
    BY <2>3, <1>6 DEF r, s
<1> QED
  BY <1>5, <1>6

\* The same, as the handler writes it.
LEMMA ModStep ==
  ASSUME NEW n \in Nat, NEW m \in Nat \ {0}
  PROVE  (n + 1) % m = IF (n % m) + 1 = m THEN 0 ELSE (n % m) + 1
<1> DEFINE k == n + 1
<1>1. k \in Nat /\ k = n + 1
  OBVIOUS
<1> HIDE DEF k
<1>2. k % m = IF (n % m) + 1 = m THEN 0 ELSE (n % m) + 1
  BY <1>1, ModNext
<1> QED
  BY <1>2 DEF k

\* A number below m is its own remainder, and m has none.
LEMMA SmallMod ==
  ASSUME NEW m \in Nat \ {0}, NEW n \in 0 .. m - 1
  PROVE  n % m = n
<1> DEFINE r == n % m
<1>1. n \in Nat
  OBVIOUS
<1>2. r \in 0 .. m - 1
  BY <1>1, Division
<1>3. PICK q \in Int : r = n - q * m
  BY <1>1, Division
<1> HIDE DEF r
<1>4. q * m \in Int /\ 0 * m = 0
  BY SMTT(20)
<1>5. q * m + r = 0 * m + n
  BY <1>2, <1>3, <1>4
<1>6. r = n
  BY <1>2, <1>5, Unique
<1> QED
  BY <1>6 DEF r

LEMMA SelfMod ==
  ASSUME NEW m \in Nat \ {0}
  PROVE  m % m = 0
<1>1. m - 1 \in Nat /\ m - 1 \in 0 .. m - 1 /\ (m - 1) + 1 = m
  OBVIOUS
<1>2. (m - 1) % m = m - 1
  BY <1>1, SmallMod
<1> DEFINE n == m - 1
<1>3. n \in Nat /\ m = n + 1 /\ n % m = n
  BY <1>1, <1>2
<1> HIDE DEF n
<1> QED
  BY <1>3, ModNext

-----------------------------------------------------------------------------
(* The timer.                                                              *)

LEMMA Periods ==
  /\ Period["100ms"] = 1 /\ Period["1s"] = TIMER_1S /\ Period["1m"] = TIMER_5S
  /\ \A r \in RefreshRate : Period[r] \in Nat \ {0} /\ TIMER_5S % Period[r] = 0
<1>1. /\ Period["100ms"] = 1 /\ Period["1s"] = TIMER_1S /\ Period["1m"] = TIMER_5S
      /\ TIMER_1S \in Nat \ {0} /\ TIMER_5S \in Nat \ {0}
  BY TimerAssumption DEF Period, RefreshRate
<1>2. TIMER_5S % 1 = 0
  <2>1. 1 \in Nat \ {0} /\ TIMER_5S \in Nat
    BY <1>1
  <2>2. TIMER_5S % 1 \in 0 .. 1 - 1
    BY <2>1, Division
  <2> QED
    BY <2>2
<1>3. TIMER_5S % TIMER_1S = 0
  BY CadenceAssumption
<1>4. TIMER_5S % TIMER_5S = 0
  BY <1>1, SelfMod
<1> QED
  BY <1>1, <1>2, <1>3, <1>4 DEF RefreshRate

\* The invariant is inductive as it stands: the remainders say enough.
IInv == TypeOK /\ SinceIsRemainder

\* The handler raises a flag exactly when its period is over.
LEMMA RaisedWhenOver ==
  ASSUME IInv, NEW r \in RefreshRate
  PROVE  r \in Raises(timer_counter + 1) <=> since[r] + 1 = Period[r]
<1>1. /\ timer_counter \in Nat /\ timer_counter \in 0 .. TIMER_5S - 1
      /\ TIMER_5S \in Nat \ {0} /\ TIMER_1S \in Nat \ {0}
  BY TimerAssumption DEF IInv, TypeOK, TimerTypeOK
<1>2. since[r] = timer_counter % Period[r]
  BY DEF IInv, SinceIsRemainder
<1>3. CASE r = "100ms"
  <2>1. 1 \in Nat \ {0}
    OBVIOUS
  <2>2. timer_counter % 1 \in 0 .. 1 - 1
    BY <1>1, <2>1, Division
  <2>3. since[r] + 1 = Period[r]
    BY <1>2, <1>3, <2>2, Periods
  <2> QED
    BY <1>3, <2>3 DEF Raises
<1>4. CASE r = "1s"
  <2>1. r \in Raises(timer_counter + 1) <=> (timer_counter + 1) % TIMER_1S = 0
    BY <1>4 DEF Raises
  <2>2. timer_counter % TIMER_1S \in 0 .. TIMER_1S - 1
    BY <1>1, Division
  <2>3. (timer_counter + 1) % TIMER_1S = 0 <=> (timer_counter % TIMER_1S) + 1 = TIMER_1S
    <3> DEFINE a == timer_counter % TIMER_1S
               b == (timer_counter + 1) % TIMER_1S
    <3>1. b = IF a + 1 = TIMER_1S THEN 0 ELSE a + 1
      BY <1>1, ModStep
    <3>2. a \in Nat
      BY <2>2
    <3> HIDE DEF a, b
    <3>3. b = 0 <=> a + 1 = TIMER_1S
      BY <3>1, <3>2
    <3> QED
      BY <3>3 DEF a, b
  <2> QED
    BY <1>2, <1>4, <2>1, <2>3, Periods
<1>5. CASE r = "1m"
  <2>1. timer_counter % TIMER_5S = timer_counter
    BY <1>1, SmallMod
  <2> QED
    BY <1>2, <1>5, <2>1, Periods DEF Raises
<1> QED
  BY <1>3, <1>4, <1>5 DEF RefreshRate

\* The remainders survive the restart of the counter: its longest period is
\* a whole number of every period.
LEMMA TickRemainder ==
  ASSUME IInv, Tick, NEW r \in RefreshRate
  PROVE  since'[r] = timer_counter' % Period[r] /\ since'[r] \in 0 .. Period[r] - 1
<1>1. /\ timer_counter \in Nat /\ timer_counter \in 0 .. TIMER_5S - 1
      /\ Period[r] \in Nat \ {0} /\ TIMER_5S % Period[r] = 0
      /\ TIMER_5S \in Nat
  BY TimerAssumption, Periods DEF IInv, TypeOK, TimerTypeOK
<1>2. since'[r] = IF since[r] + 1 = Period[r] THEN 0 ELSE since[r] + 1
  BY RaisedWhenOver DEF Tick
<1>3. since[r] = timer_counter % Period[r]
  BY DEF IInv, SinceIsRemainder
<1>4. since'[r] = (timer_counter + 1) % Period[r]
  <2>1. (timer_counter + 1) % Period[r] =
          IF (timer_counter % Period[r]) + 1 = Period[r] THEN 0 ELSE (timer_counter % Period[r]) + 1
    BY <1>1, ModStep
  <2> QED
    BY <1>2, <1>3, <2>1
<1>5. timer_counter + 1 \in Nat
  BY <1>1
<1>6. since'[r] \in 0 .. Period[r] - 1
  BY <1>1, <1>4, <1>5, Division
<1>7. timer_counter' = IF timer_counter + 1 = TIMER_5S THEN 0 ELSE timer_counter + 1
  BY DEF Tick, timer_handler_100ms, Wrap
<1>8. CASE timer_counter + 1 = TIMER_5S
  <2>1. 0 \in 0 .. Period[r] - 1
    BY <1>1
  <2>2. 0 % Period[r] = 0
    BY <1>1, <2>1, SmallMod
  <2> QED
    BY <1>1, <1>4, <1>6, <1>7, <1>8, <2>2
<1>9. CASE timer_counter + 1 # TIMER_5S
  BY <1>4, <1>6, <1>7, <1>9
<1> QED
  BY <1>8, <1>9

LEMMA InitInv ==
  ASSUME Init
  PROVE  IInv
<1>1. /\ TIMER_1S \in Nat \ {0} /\ TIMER_5S \in Nat \ {0} /\ 0 \in 0 .. TIMER_5S - 1
  BY TimerAssumption
<1>2. TypeOK
  BY <1>1 DEF Init, TimerInit, TypeOK, TimerTypeOK
<1>3. ASSUME NEW r \in RefreshRate
      PROVE  since[r] = timer_counter % Period[r]
  <2>1. Period[r] \in Nat \ {0} /\ 0 \in 0 .. Period[r] - 1
    BY Periods
  <2>2. 0 % Period[r] = 0
    BY <2>1, SmallMod
  <2> QED
    BY <2>2 DEF Init, TimerInit
<1> QED
  BY <1>2, <1>3 DEF IInv, SinceIsRemainder

LEMMA StepInv ==
  ASSUME IInv, [Next]_vars
  PROVE  IInv'
<1>1. CASE Tick
  <2>1. ASSUME NEW r \in RefreshRate
        PROVE  since'[r] = timer_counter' % Period[r] /\ since'[r] \in 0 .. TIMER_5S - 1
    <3>1. /\ Period[r] \in Nat /\ Period[r] <= TIMER_5S
      BY Periods, TimerAssumption DEF RefreshRate
    <3> QED
      BY <1>1, <3>1, TickRemainder, TimerAssumption
  <2>2. since' \in [RefreshRate -> 0 .. TIMER_5S - 1]
    BY <1>1, <2>1 DEF Tick
  <2>3. timer_counter' \in 0 .. TIMER_5S - 1
    BY <1>1, TimerAssumption
       DEF IInv, TypeOK, TimerTypeOK, Tick, timer_handler_100ms, Wrap
  <2>4. period' \in [RefreshRate -> BOOLEAN] /\ armed' \in BOOLEAN
    BY <1>1 DEF IInv, TypeOK, TimerTypeOK, Tick, timer_handler_100ms
  <2> QED
    BY <2>1, <2>2, <2>3, <2>4 DEF IInv, TypeOK, TimerTypeOK, SinceIsRemainder
<1>2. CASE Start \/ Stop
  BY <1>2 DEF IInv, TypeOK, TimerTypeOK, SinceIsRemainder, Start, Stop, timer_start, timer_stop
<1>3. ASSUME NEW r \in RefreshRate, Clear(r)
      PROVE  IInv'
  BY <1>3 DEF IInv, TypeOK, TimerTypeOK, SinceIsRemainder, Clear
<1>4. CASE UNCHANGED vars
  BY <1>4 DEF IInv, TypeOK, TimerTypeOK, SinceIsRemainder, vars, timerVars
<1> QED
  BY <1>1, <1>2, <1>3, <1>4 DEF Next

\* IInv holds in every state the timer can reach.
THEOREM Invariance == Spec => []IInv
<1>1. Init => IInv
  BY InitInv
<1>2. IInv /\ [Next]_vars => IInv'
  BY StepInv
<1> QED
  BY <1>1, <1>2, PTL DEF Spec

\* The counter stays below the longest period and the variables keep their
\* types, however the timer is started, stopped and its flags are cleared.
THEOREM TypeCorrect == Spec => []TypeOK
<1>1. IInv => TypeOK
  BY DEF IInv
<1> QED
  BY <1>1, Invariance, PTL

\* The ticks since each flag was last raised are the remainder of the counter
\* by the period of the flag, also when the counter has started again.
THEOREM RemainderCorrect == Spec => []SinceIsRemainder
<1>1. IInv => SinceIsRemainder
  BY DEF IInv
<1> QED
  BY <1>1, Invariance, PTL

\* The handler raises each flag at every Period[r]-th tick and at no other.
THEOREM CadenceCorrect == Spec => Cadence
<1>1. ASSUME IInv, Tick, NEW r \in RefreshRate
      PROVE  period'[r] = (period[r] \/ since[r] + 1 = Period[r])
  <2>1. period'[r] = (period[r] \/ r \in Raises(timer_counter + 1))
    BY <1>1 DEF Tick, timer_handler_100ms, IInv, TypeOK, TimerTypeOK
  <2>2. r \in Raises(timer_counter + 1) <=> since[r] + 1 = Period[r]
    BY <1>1, RaisedWhenOver
  <2> QED
    BY <2>1, <2>2, Zenon
<1>2. IInv /\ [Next]_vars
        => [Tick => \A r \in RefreshRate :
              period'[r] = (period[r] \/ since[r] + 1 = Period[r])]_vars
  BY <1>1
<1> QED
  BY <1>2, Invariance, PTL DEF Spec, Cadence
=============================================================================
