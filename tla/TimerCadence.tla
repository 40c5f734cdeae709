---------------------------- MODULE TimerCadence ----------------------------
(***************************************************************************)
(* How often the timer raises each flag: timer.c alone, under a main       *)
(* thread that starts and stops it and clears the flags whenever it likes. *)
(* The history variable "since" counts the ticks since each flag was last  *)
(* raised; it is read by the properties only.                              *)
(***************************************************************************)
EXTENDS Timer

\* The 1 s flag is raised by a remainder of the counter that the longest
\* period resets.
ASSUME CadenceAssumption == TIMER_5S % TIMER_1S = 0

VARIABLE since

vars == <<timerVars, since>>

Init == TimerInit /\ since = [r \in RefreshRate |-> 0]

Tick ==
  /\ timer_handler_100ms
  /\ since' = [r \in RefreshRate |->
                IF r \in Raises(timer_counter + 1) THEN 0 ELSE since[r] + 1]

Start == timer_start /\ UNCHANGED since

Stop  == timer_stop /\ UNCHANGED since

\* The main loop has ended a scan of rate r.
Clear(r) ==
  /\ period[r]
  /\ period' = [period EXCEPT ![r] = FALSE]
  /\ UNCHANGED <<armed, timer_counter, since>>

Next == Tick \/ Start \/ Stop \/ \E r \in RefreshRate : Clear(r)

Spec == Init /\ [][Next]_vars

-----------------------------------------------------------------------------

\* The period of each flag in ticks, as the handler has it.
Period == [r \in RefreshRate |->
            CASE r = "100ms" -> 1 [] r = "1s" -> TIMER_1S [] r = "1m" -> TIMER_5S]

TypeOK ==
  /\ TimerTypeOK
  /\ since \in [RefreshRate -> 0 .. TIMER_5S - 1]

\* The ticks since the last raise are the remainder of the counter, across
\* every restart of the counter: what the cadence rests on.
SinceIsRemainder == \A r \in RefreshRate : since[r] = timer_counter % Period[r]

\* A flag is raised at every Period[r]-th tick and at no other, however the
\* counter wraps and whatever the main loop clears in between: no second is
\* lost or counted twice when the longest period restarts the counter.
Cadence ==
  [][Tick => \A r \in RefreshRate : period'[r] = (period[r] \/ since[r] + 1 = Period[r])]_vars

\* The rate "1m" of the configuration file (files/etc/ts_module/ts_module.cfg:14,
\* "100ms, 1s, 1m") is one minute: sixty times the period of "1s".
MinuteIsSixtySeconds ==
  [][~period["1m"] /\ period'["1m"] => since["1m"] + 1 = 60 * TIMER_1S]_vars
=============================================================================
