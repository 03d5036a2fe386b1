----------------------------- MODULE MotorNode ------------------------------
(***************************************************************************)
(* firmware/motor_uros/src/main.cpp: the ESP32 that hears /cmd_vel through *)
(* the micro-ROS agent, turns a Twist into the duties of two H-bridges and *)
(* stops them when no Twist has come for CMD_TIMEOUT_MS.  There is one     *)
(* thread, loop; a step here is one ledcWrite, so that every state of the  *)
(* two bridges is seen, or one of the two tests of the loop.               *)
(*                                                                         *)
(* The encoders, which loop reads and publishes after the watchdog, share  *)
(* no variable with this part.                                             *)
(***************************************************************************)
EXTENDS Wheels

CONSTANTS
  Timeout,      \* CMD_TIMEOUT_MS, in the unit of time
  Wrap,         \* millis() counts modulo this, 2^32 ms
  LoopGap       \* the longest time one round of loop takes

ASSUME TimeAssumption == /\ Timeout \in Nat
                         /\ LoopGap \in Nat \ {0}
                         /\ Wrap \in Nat
                         /\ Timeout + 2 * LoopGap < Wrap

VARIABLES
  ms,           \* millis()
  last_cmd_ms,
  stopped,
  pwm,          \* the duty of every LEDC channel
  en,           \* the four enable pins of the drivers
  pc,           \* "boot", "link": setup; "spin", "apply", "watch", "halt": loop
  step,         \* in "apply" and "halt", the next ledcWrite
  duty,         \* the last Twist as duties: one per wheel, and the LED's
  linked,       \* did setup reach the agent, and is the session alive?
  lap,          \* time since this round of loop began
  silence       \* history: time since the last Twist was heard, up to Limit + 1

vars == <<ms, last_cmd_ms, stopped, pwm, en, pc, step, duty, linked, lap, silence>>

\* A wheel may turn for this long after the last Twist: the callback and the
\* watchdog run once in a round of loop each.
Limit == Timeout + 2 * LoopGap

-----------------------------------------------------------------------------
Init ==
  /\ ms = 0 /\ last_cmd_ms = 0
  /\ stopped = TRUE
  /\ pwm = [c \in Channel |-> 0]
  /\ en = FALSE
  /\ pc = "boot" /\ step = 1 /\ duty = NoDuty
  /\ linked = FALSE
  /\ lap = 0
  /\ silence = 0

\* Power-on, the reset button, a brown-out: the LEDC and millis start from 0.
Reset ==
  /\ ms' = 0 /\ last_cmd_ms' = 0
  /\ stopped' = TRUE
  /\ pwm' = [c \in Channel |-> 0]
  /\ en' = FALSE
  /\ pc' = "boot" /\ step' = 1 /\ duty' = NoDuty
  /\ linked' = FALSE
  /\ lap' = 0
  /\ silence' = 0

\* setup, up to the serial transport: the drivers held off, every duty zero.
SetupPins ==
  /\ pc = "boot"
  /\ en' = FALSE
  /\ pwm' = [c \in Channel |-> 0]
  /\ stopped' = TRUE
  /\ pc' = "link"
  /\ UNCHANGED <<ms, last_cmd_ms, step, duty, linked, lap, silence>>

\* The rest of setup.  The agent is looked for once and no return code is
\* read: without it the board goes on, and hears nothing until it is reset.
SetupLink ==
  /\ pc = "link"
  /\ linked' \in BOOLEAN
  /\ last_cmd_ms' = ms
  /\ en' = TRUE
  /\ pc' = "spin"
  /\ lap' = 0
  /\ UNCHANGED <<ms, stopped, pwm, step, duty, silence>>

\* External: the agent goes away, or the serial cable does.
LinkLost ==
  /\ linked
  /\ linked' = FALSE
  /\ UNCHANGED <<ms, last_cmd_ms, stopped, pwm, en, pc, step, duty, lap, silence>>

\* rclc_executor_spin_some with a Twist to deliver: cmdVelCallback begins.
Hear(m) ==
  /\ pc = "spin" /\ linked
  /\ duty' = DutyOf(m)
  /\ step' = 1
  /\ pc' = "apply"
  /\ silence' = 0
  /\ UNCHANGED <<ms, last_cmd_ms, stopped, pwm, en, linked, lap>>

\* rclc_executor_spin_some with nothing to deliver.
HearNothing ==
  /\ pc = "spin"
  /\ pc' = "watch"
  /\ UNCHANGED <<ms, last_cmd_ms, stopped, pwm, en, step, duty, linked, lap, silence>>

\* What is being written: the last Twist's duties, or zeros.
Target == IF pc = "halt" THEN NoDuty ELSE duty

\* One ledcWrite of cmdVelCallback or of driveStop.
Write ==
  /\ pc \in {"apply", "halt"}
  /\ step <= 5
  /\ LET w == Writes(Target)[step] IN pwm' = [pwm EXCEPT ![w.ch] = w.val]
  /\ step' = step + 1
  /\ UNCHANGED <<ms, last_cmd_ms, stopped, en, pc, duty, linked, lap, silence>>

\* Bug: the callback leaves the watchdog disarmed.
AppliedUnwatched ==
  /\ pc = "apply" /\ step = 6
  /\ last_cmd_ms' = ms
  /\ pc' = "watch"
  /\ UNCHANGED <<ms, stopped, pwm, en, step, duty, linked, lap, silence>>

\* The end of cmdVelCallback.
Applied ==
  /\ pc = "apply" /\ step = 6
  /\ last_cmd_ms' = ms
  /\ stopped' = FALSE
  /\ pc' = "watch"
  /\ UNCHANGED <<ms, pwm, en, step, duty, linked, lap, silence>>

\* Bug: the deadline compared with the clock, which wraps.
OverduePastWrap == ms > last_cmd_ms + Timeout

\* Unsigned subtraction: millis() - last_cmd_ms > CMD_TIMEOUT_MS.
Overdue == (ms - last_cmd_ms) % Wrap > Timeout

\* The watchdog fires: driveStop begins.
WatchFires ==
  /\ pc = "watch"
  /\ ~stopped /\ Overdue
  /\ pc' = "halt"
  /\ step' = 1
  /\ UNCHANGED <<ms, last_cmd_ms, stopped, pwm, en, duty, linked, lap, silence>>

WatchPasses ==
  /\ pc = "watch"
  /\ stopped \/ ~Overdue
  /\ pc' = "spin"
  /\ lap' = 0
  /\ UNCHANGED <<ms, last_cmd_ms, stopped, pwm, en, step, duty, linked, silence>>

\* The end of driveStop, and of this round of loop.
Halted ==
  /\ pc = "halt" /\ step = 6
  /\ stopped' = TRUE
  /\ pc' = "spin"
  /\ lap' = 0
  /\ UNCHANGED <<ms, last_cmd_ms, pwm, en, step, duty, linked, silence>>

\* Time passes, setup taking as long as it likes and loop at most LoopGap.
MayWait == pc \in {"boot", "link"} \/ lap < LoopGap

Advance ==
  /\ MayWait
  /\ ms' = (ms + 1) % Wrap
  /\ lap' = IF pc \in {"boot", "link"} THEN lap ELSE lap + 1
  /\ silence' = IF silence > Limit THEN silence ELSE silence + 1
  /\ UNCHANGED <<last_cmd_ms, stopped, pwm, en, pc, step, duty, linked>>

Loop ==
  \/ HearNothing
  \/ Write
  \/ Applied
  \/ WatchFires
  \/ WatchPasses
  \/ Halted

Next ==
  \/ Advance
  \/ SetupPins
  \/ SetupLink
  \/ \E m \in Twist : Hear(m)
  \/ Loop
  \/ LinkLost
  \/ Reset

Spec == Init /\ [][Next]_vars

-----------------------------------------------------------------------------
(* Properties.                                                             *)

\* Types; the step counter moves only while there are writes to make.
TypeOK ==
  /\ ms \in 0..(Wrap - 1) /\ last_cmd_ms \in 0..(Wrap - 1)
  /\ stopped \in BOOLEAN /\ en \in BOOLEAN /\ linked \in BOOLEAN
  /\ pwm \in [Channel -> 0..MaxDuty]
  /\ pc \in {"boot", "link", "spin", "apply", "watch", "halt"}
  /\ step \in 1..6
  /\ duty \in DutyType
  /\ lap \in 0..LoopGap
  /\ silence \in 0..(Limit + 1)

\* At no time, not even between two ledcWrites of a reversal, is a bridge
\* driven in both directions (main.cpp:80-84).
OneDirection ==
  /\ pwm["L_R"] = 0 \/ pwm["L_L"] = 0
  /\ pwm["R_R"] = 0 \/ pwm["R_L"] = 0

\* The flag the watchdog goes by is right whenever it is read: a board that
\* holds itself stopped drives no wheel and shows no light (main.cpp:90, 111,
\* 192).
StoppedIsStill ==
  pc \in {"boot", "link", "spin", "watch"} /\ stopped => \A c \in Channel : pwm[c] = 0

\* How a wheel is driven: not at all while the drivers are off.
Wheel(fwd, rev) == IF en THEN pwm[fwd] - pwm[rev] ELSE 0
Left == Wheel("L_R", "L_L")
Right == Wheel("R_R", "R_L")

\* The board keeps the promise of DeadMan: within a round of loop the wheels
\* turn as the last Twist says, they go on until the timeout, and the timeout
\* and two rounds of loop after the Twist they are stopped
\* (firmware/README.md:64-66).
Board == INSTANCE DeadMan WITH
           Duty <- -MaxDuty..MaxDuty, Lag <- LoopGap, Hold <- Timeout,
           order <- [left |-> Constrain(duty.left), right |-> Constrain(duty.right)],
           left <- Left, right <- Right
BoardSpec == Board!Spec
=============================================================================
