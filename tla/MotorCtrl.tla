----------------------------- MODULE MotorCtrl ------------------------------
(***************************************************************************)
(* firmware/motor_ctrl/src/main.cpp: the bench firmware that takes the     *)
(* speeds of the two wheels as lines over the serial port, stops them when *)
(* no line has come for CMD_TIMEOUT_MS, and on V sweeps the left wheel's   *)
(* PWM through its range to measure it.  One thread, loop; what a handler  *)
(* does at once is one step (MotorNode takes the same applyMotor apart).   *)
(***************************************************************************)
EXTENDS Integers

CONSTANTS
  Speed,       \* speeds a line may ask for, in range or not
  MaxDuty,     \* 255
  Timeout,     \* CMD_TIMEOUT_MS, in the unit of time
  LoopGap,     \* the longest time between two looks of loop at the serial port
  Duties       \* the number of duties verifyPwm tries, a unit of time each

ASSUME CtrlAssumption == /\ Speed \subseteq Int
                         /\ MaxDuty \in Nat \ {0}
                         /\ Timeout \in Nat
                         /\ LoopGap \in Nat \ {0}
                         /\ Duties \in Nat \ {0, 1}

VARIABLES
  speed_l, speed_r,
  pwm,                 \* the duty of every channel of the bridges
  stopped_by_timeout,
  since,               \* millis() - last_cmd_ms, up to Limit + 1
  pc,                  \* "read", "watch" in loop; "sweep", "measure" in verifyPwm
  step,                \* the duty verifyPwm is at
  lap                  \* time since loop last looked at the serial port

vars == <<speed_l, speed_r, pwm, stopped_by_timeout, since, pc, step, lap>>

Channel == {"L_R", "L_L", "R_R", "R_L"}
Limit == Timeout + LoopGap
CountTo(n) == IF n > Limit THEN n ELSE n + 1

Constrain(v) == IF v > MaxDuty THEN MaxDuty ELSE IF v < -MaxDuty THEN -MaxDuty ELSE v

\* applyAll, through applyMotor.
Fwd(v) == IF v >= 0 THEN v ELSE 0
Rev(v) == IF v >= 0 THEN 0 ELSE -v
PwmOf(l, r) == [c \in Channel |-> CASE c = "L_R" -> Fwd(l) [] c = "L_L" -> Rev(l)
                                    [] c = "R_R" -> Fwd(r) [] c = "R_L" -> Rev(r)]

\* The lines that drive a wheel take the speeds, and re-apply both.
Apply(l, r) ==
  /\ speed_l' = l /\ speed_r' = r
  /\ pwm' = PwmOf(l, r)

Init ==
  /\ speed_l = 0 /\ speed_r = 0
  /\ pwm = [c \in Channel |-> 0]
  /\ stopped_by_timeout = FALSE
  /\ since = 0
  /\ pc = "read" /\ step = 0 /\ lap = 0

-----------------------------------------------------------------------------
(* handleLine.                                                             *)

\* Bug: the watchdog fires once and never again.
DriveUnwatched(l, r) ==
  /\ pc = "read"
  /\ Apply(l, r)
  /\ since' = 0
  /\ UNCHANGED <<stopped_by_timeout, pc, step, lap>>

\* L or R: one wheel is told, both are driven.
Drive(l, r) ==
  /\ pc = "read"
  /\ Apply(l, r)
  /\ since' = 0
  /\ stopped_by_timeout' = FALSE
  /\ UNCHANGED <<pc, step, lap>>

Left(v) == Drive(Constrain(v), speed_r)
Right(v) == Drive(speed_l, Constrain(v))

Stop ==
  /\ pc = "read"
  /\ Apply(0, 0)
  /\ since' = 0
  /\ UNCHANGED <<stopped_by_timeout, pc, step, lap>>

\* ? or a line that is no command: answered, and the watchdog is not fed.
Other ==
  /\ pc = "read"
  /\ UNCHANGED <<speed_l, speed_r, pwm, stopped_by_timeout, since, pc, step, lap>>

Verify ==
  /\ pc = "read"
  /\ pc' = "sweep"
  /\ step' = 0
  /\ UNCHANGED <<speed_l, speed_r, pwm, stopped_by_timeout, since, lap>>

\* verifyPwm sets the next duty of the left wheel, from 0 to MaxDuty ...
Sweep ==
  /\ pc = "sweep" /\ step < Duties
  /\ pwm' = [pwm EXCEPT !["L_L"] = 0, !["L_R"] = (step * MaxDuty) \div (Duties - 1)]
  /\ pc' = "measure"
  /\ UNCHANGED <<speed_l, speed_r, stopped_by_timeout, since, step, lap>>

\* ... and waits and samples, while nothing else is looked at.
Measure ==
  /\ pc = "measure"
  /\ since' = CountTo(since)
  /\ step' = step + 1
  /\ pc' = "sweep"
  /\ UNCHANGED <<speed_l, speed_r, pwm, stopped_by_timeout, lap>>

\* Bug: the last duty is left on.
VerifyDoneOn ==
  /\ pc = "sweep" /\ step = Duties
  /\ since' = 0
  /\ pc' = "read"
  /\ UNCHANGED <<speed_l, speed_r, pwm, stopped_by_timeout, step, lap>>

VerifyDone ==
  /\ pc = "sweep" /\ step = Duties
  /\ pwm' = [pwm EXCEPT !["L_R"] = 0]
  /\ since' = 0
  /\ pc' = "read"
  /\ UNCHANGED <<speed_l, speed_r, stopped_by_timeout, step, lap>>

-----------------------------------------------------------------------------
(* loop.                                                                   *)

\* No more lines are there.
ReadAll ==
  /\ pc = "read"
  /\ pc' = "watch"
  /\ UNCHANGED <<speed_l, speed_r, pwm, stopped_by_timeout, since, step, lap>>

Overdue == ~stopped_by_timeout /\ (speed_l # 0 \/ speed_r # 0) /\ since > Timeout

WatchFires ==
  /\ pc = "watch" /\ Overdue
  /\ stopped_by_timeout' = TRUE
  /\ Apply(0, 0)
  /\ pc' = "read" /\ lap' = 0
  /\ UNCHANGED <<since, step>>

WatchPasses ==
  /\ pc = "watch" /\ ~Overdue
  /\ pc' = "read" /\ lap' = 0
  /\ UNCHANGED <<speed_l, speed_r, pwm, stopped_by_timeout, since, step>>

Advance ==
  /\ pc \in {"read", "watch"} /\ lap < LoopGap
  /\ lap' = lap + 1
  /\ since' = CountTo(since)
  /\ UNCHANGED <<speed_l, speed_r, pwm, stopped_by_timeout, pc, step>>

\* The reset button, or a port opened with DTR up.
Reset ==
  /\ speed_l' = 0 /\ speed_r' = 0
  /\ pwm' = [c \in Channel |-> 0]
  /\ stopped_by_timeout' = FALSE
  /\ since' = 0
  /\ pc' = "read" /\ step' = 0 /\ lap' = 0

HandleLine ==
  \/ \E v \in Speed : Left(v) \/ Right(v)
  \/ Stop
  \/ Other
  \/ Verify

Next ==
  \/ HandleLine
  \/ Sweep \/ Measure \/ VerifyDone
  \/ ReadAll \/ WatchFires \/ WatchPasses
  \/ Advance
  \/ Reset

Spec == Init /\ [][Next]_vars

-----------------------------------------------------------------------------
(* Properties.                                                             *)

\* The watchdog goes by the speeds, so a wheel must not turn that has none: in
\* loop, no channel is driven but as the speed of its wheel says, whatever a
\* sweep left behind (main.cpp:88, 144).
DrivenAsTold ==
  pc \in {"read", "watch"} =>
    \A c \in Channel : pwm[c] \in {0, PwmOf(speed_l, speed_r)[c]}

Turns == \E c \in Channel : pwm[c] # 0

\* Outside a sweep, a wheel turns for no longer than the timeout and a round of
\* loop after the last line that feeds the watchdog (main.cpp:142-148).
WatchdogStops == pc \in {"read", "watch"} /\ Turns => since <= Limit

=============================================================================
