------------------------------- MODULE Timer -------------------------------
(***************************************************************************)
(* The refresh timer (timer.c, timer.h): an interval timer delivers        *)
(* SIGALRM every 100 ms; the signal handler raises the period flags, which *)
(* the main loop polls and clears.  The handler only writes flags and its  *)
(* counter and is one step between two steps of the main thread.           *)
(***************************************************************************)
EXTENDS TsConst

CONSTANTS
  TIMER_1S,   \* ticks of 100 ms in a second (10 in the program)
  TIMER_5S    \* ticks after which the counter starts again (50)

ASSUME TimerAssumption ==
  /\ TIMER_1S \in Nat \ {0}
  /\ TIMER_5S \in Nat \ {0}
  /\ TIMER_1S <= TIMER_5S

VARIABLES
  armed,           \* the interval timer runs (setitimer)
  timer_counter,   \* ticks since the counter last started again
  period           \* t_period.period_100ms, period_1s and period_1m

timerVars == <<armed, timer_counter, period>>

TimerTypeOK ==
  /\ armed \in BOOLEAN
  /\ timer_counter \in 0 .. TIMER_5S - 1
  /\ period \in [RefreshRate -> BOOLEAN]

TimerInit ==
  /\ armed = FALSE
  /\ timer_counter = 0
  /\ period = [r \in RefreshRate |-> FALSE]

-----------------------------------------------------------------------------

\* A handler that starts the counter again at one, one that does it a tick too
\* late, and one that raises only the longest period that is due.
WrapAtOne(n)     == IF n = TIMER_5S THEN 1 ELSE n
WrapLate(n)      == IF n > TIMER_5S THEN 0 ELSE n
RaisesLongest(n) == IF n = TIMER_5S THEN {"1m"}
                    ELSE IF n % TIMER_1S = 0 THEN {"1s"} ELSE {"100ms"}

\* The counter after its increment to n.
Wrap(n) == IF n = TIMER_5S THEN 0 ELSE n

\* The flags raised by the tick that moves the counter to n.
Raises(n) == {"100ms"} \cup {r \in {"1s"} : n % TIMER_1S = 0}
                       \cup {r \in {"1m"} : n = TIMER_5S}

timer_handler_100ms ==
  /\ armed
  /\ timer_counter' = Wrap(timer_counter + 1)
  /\ period' = [r \in DOMAIN period |-> period[r] \/ r \in Raises(timer_counter + 1)]
  /\ UNCHANGED armed

\* timer_init and timer_start, when setitimer succeeds.
timer_start == armed' = TRUE /\ UNCHANGED <<timer_counter, period>>

timer_stop  == armed' = FALSE /\ UNCHANGED <<timer_counter, period>>

=============================================================================
