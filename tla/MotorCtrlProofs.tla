-------------------------- MODULE MotorCtrlProofs ---------------------------
(***************************************************************************)
(* What the bench firmware keeps whatever lines it is sent, for every      *)
(* timeout, round of loop and number of duties it sweeps through.          *)
(*                                                                         *)
(* The watchdog goes by the speeds, and a sweep drives the left wheel      *)
(* without them.  So the first part of the invariant says what a sweep     *)
(* leaves behind at each of its steps, and the second how old the speeds   *)
(* may be that loop has still to look at.                                  *)
(***************************************************************************)
EXTENDS MotorCtrl, TLAPS

Duty == 0..MaxDuty
Told == (-MaxDuty)..MaxDuty

Types ==
  /\ speed_l \in Told /\ speed_r \in Told
  /\ pwm \in [Channel -> Duty]
  /\ stopped_by_timeout \in BOOLEAN
  /\ since \in Nat
  /\ pc \in {"read", "watch", "sweep", "measure"}
  /\ step \in 0..Duties
  /\ pc = "measure" => step < Duties
  /\ lap \in 0..LoopGap

\* Does channel c do what the speed of its wheel says, or nothing?
AsTold(c) == pwm[c] \in {0, PwmOf(speed_l, speed_r)[c]}

\* The forward channel of the left wheel is the sweep's own.
LoopObeys ==
  /\ \A c \in Channel \ {"L_R"} : AsTold(c)
  /\ pc \in {"read", "watch"} => AsTold("L_R")

Driven == speed_l # 0 \/ speed_r # 0

\* The speeds of a wheel that is driven are no older than the timeout and what
\* loop has spent since its last look at them.
Fresh ==
  /\ stopped_by_timeout => ~Driven
  /\ pc \in {"read", "watch"} /\ Driven => since <= Timeout + lap

CtrlInv == Types /\ LoopObeys /\ Fresh

-----------------------------------------------------------------------------
(* What the operators return.                                              *)

\* A line's speed is cut to what a duty can say.
LEMMA ConstrainFits == ASSUME NEW v \in Int PROVE Constrain(v) \in Told
  BY CtrlAssumption DEF Constrain, Told

\* The duty of a channel is a duty, of the size of the speed.
LEMMA PwmFits ==
  ASSUME NEW l \in Told, NEW r \in Told
  PROVE  PwmOf(l, r) \in [Channel -> Duty]
  BY CtrlAssumption DEF Told, Duty, PwmOf, Fwd, Rev, Channel

\* A wheel with no speed has no duty on either channel.
LEMMA StillPwm == ASSUME NEW c \in Channel PROVE PwmOf(0, 0)[c] = 0
  BY DEF PwmOf, Fwd, Rev, Channel

LEMMA Euclid ==
  ASSUME NEW n \in Nat \ {0}, NEW x \in Int
  PROVE  x \div n \in Int /\ n * (x \div n) <= x /\ x < n * (x \div n) + n
OBVIOUS

\* The sweep goes up to the whole duty and no further.
LEMMA SweepFits ==
  ASSUME NEW k \in Nat, k < Duties
  PROVE  (k * MaxDuty) \div (Duties - 1) \in Duty
<1> DEFINE d == Duties - 1
           q == (k * MaxDuty) \div d
<1>1. d \in Nat \ {0} /\ MaxDuty \in Nat /\ k <= d
  BY CtrlAssumption
<1>2. k * MaxDuty \in Nat /\ k * MaxDuty <= d * MaxDuty
  BY <1>1
<1>3. q \in Int /\ d * q <= k * MaxDuty /\ k * MaxDuty < d * q + d
  <2> DEFINE x == k * MaxDuty
  <2>1. x \in Int
    BY <1>2
  <2> HIDE DEF d, x
  <2> QED
    BY <1>1, <2>1, Euclid
<1>4. d * q <= d * MaxDuty /\ d * q > -d
  BY <1>1, <1>2, <1>3
<1>5. q <= MaxDuty
  <2>1. SUFFICES ASSUME q >= MaxDuty + 1 PROVE FALSE
    BY <1>1, <1>3
  <2>2. d * q >= d * MaxDuty + d
    BY <1>1, <1>3, <2>1
  <2> QED
    BY <1>1, <1>3, <1>4, <2>2
<1>6. q >= 0
  <2>1. SUFFICES ASSUME q <= -1 PROVE FALSE
    BY <1>3
  <2>2. d * q <= -d
    BY <1>1, <1>3, <2>1
  <2> QED
    BY <1>1, <1>3, <1>4, <2>2
<1> QED
  BY <1>1, <1>3, <1>5, <1>6 DEF Duty

-----------------------------------------------------------------------------
(* Types.                                                                  *)

LEMMA InitTypes == Init => Types
<1>1. 0 \in Told /\ 0 \in Duty /\ 0 \in 0..LoopGap /\ 0 \in 0..Duties /\ 0 \in Nat
  BY CtrlAssumption DEF Told, Duty
<1> QED
  BY <1>1 DEF Init, Types

\* A line that drives.
LEMMA DriveTypes ==
  ASSUME Types, NEW l \in Told, NEW r \in Told, Drive(l, r)
  PROVE  Types'
<1>1. pwm' \in [Channel -> Duty]
  BY PwmFits DEF Drive, Apply
<1> QED
  BY <1>1 DEF Drive, Apply, Types

LEMMA NextTypes == Types /\ [Next]_vars => Types'
<1> SUFFICES ASSUME Types, [Next]_vars PROVE Types'
  OBVIOUS
<1>0. 0 \in Told /\ 0 \in Duty /\ 0 \in 0..LoopGap /\ 0 \in 0..Duties /\ 0 \in Nat
  BY CtrlAssumption DEF Told, Duty
<1>1. ASSUME NEW v \in Speed, Left(v) \/ Right(v) PROVE Types'
  <2>1. Constrain(v) \in Told
    BY ConstrainFits, CtrlAssumption
  <2> QED
    BY <1>1, <2>1, DriveTypes DEF Left, Right, Types
<1>2. CASE Stop
  <2>1. pwm' \in [Channel -> Duty]
    BY <1>0, <1>2, PwmFits DEF Stop, Apply
  <2> QED
    BY <1>0, <1>2, <2>1 DEF Stop, Apply, Types
<1>3. CASE Other
  BY <1>3 DEF Other, Types
<1>4. CASE Verify
  BY <1>0, <1>4 DEF Verify, Types
<1>5. CASE Sweep
  <2> DEFINE d == (step * MaxDuty) \div (Duties - 1)
  <2>1. step \in Nat /\ step < Duties
    BY <1>5, CtrlAssumption DEF Sweep, Types
  <2>2. d \in Duty
    BY <2>1, SweepFits
  <2>3. pwm' = [pwm EXCEPT !["L_L"] = 0, !["L_R"] = d]
    BY <1>5 DEF Sweep
  <2>4. pwm' \in [Channel -> Duty]
    <3> HIDE DEF d
    <3> QED
      BY <1>0, <2>2, <2>3 DEF Types, Channel
  <2> QED
    BY <1>5, <2>1, <2>4 DEF Sweep, Types
<1>6. CASE Measure
  BY <1>6, CtrlAssumption DEF Measure, Types, CountTo
<1>7. CASE VerifyDone
  <2>1. pwm' \in [Channel -> Duty]
    BY <1>0, <1>7 DEF VerifyDone, Types, Channel
  <2> QED
    BY <1>0, <1>7, <2>1 DEF VerifyDone, Types
<1>8. CASE ReadAll
  BY <1>8 DEF ReadAll, Types
<1>9. CASE WatchFires
  <2>1. pwm' \in [Channel -> Duty]
    BY <1>0, <1>9, PwmFits DEF WatchFires, Apply
  <2> QED
    BY <1>0, <1>9, <2>1 DEF WatchFires, Apply, Types
<1>10. CASE WatchPasses
  BY <1>0, <1>10 DEF WatchPasses, Types
<1>11. CASE Advance
  BY <1>11, CtrlAssumption DEF Advance, Types, CountTo
<1>12. CASE Reset
  BY <1>0, <1>12 DEF Reset, Types
<1>13. CASE UNCHANGED vars
  BY <1>13 DEF vars, Types
<1> QED
  BY <1>1, <1>2, <1>3, <1>4, <1>5, <1>6, <1>7, <1>8, <1>9, <1>10, <1>11, <1>12, <1>13
     DEF Next, HandleLine

-----------------------------------------------------------------------------
(* What a sweep leaves behind.                                             *)

\* Whoever applies the speeds drives every channel by them.
LEMMA ApplyObeys ==
  ASSUME NEW l, NEW r, Apply(l, r)
  PROVE  LoopObeys'
<1>1. pwm' = PwmOf(speed_l, speed_r)'
  BY DEF Apply, PwmOf
<1> QED
  BY <1>1 DEF LoopObeys, AsTold

LEMMA NextObeys == Types /\ LoopObeys /\ [Next]_vars => LoopObeys'
<1> SUFFICES ASSUME Types, LoopObeys, [Next]_vars PROVE LoopObeys'
  OBVIOUS
<1>1. ASSUME NEW v \in Speed, Left(v) \/ Right(v) PROVE LoopObeys'
  BY <1>1, ApplyObeys DEF Left, Right, Drive
<1>2. CASE Stop \/ WatchFires
  BY <1>2, ApplyObeys DEF Stop, WatchFires
<1>3. CASE Other \/ Verify \/ Measure \/ ReadAll \/ WatchPasses \/ Advance
  <2>1. UNCHANGED <<speed_l, speed_r, pwm>>
    BY <1>3 DEF Other, Verify, Measure, ReadAll, WatchPasses, Advance
  <2>2. pc' \in {"read", "watch"} => pc \in {"read", "watch"}
    BY <1>3 DEF Other, Verify, Measure, ReadAll, WatchPasses, Advance
  <2>3. \A c \in Channel : AsTold(c) => AsTold(c)'
    BY <2>1 DEF AsTold, PwmOf
  <2> QED
    BY <2>2, <2>3 DEF LoopObeys, Channel
<1>4. CASE Sweep
  <2>1. PwmOf(speed_l, speed_r)' = PwmOf(speed_l, speed_r)
    BY <1>4 DEF Sweep, PwmOf
  <2>2. pc' = "measure"
    BY <1>4 DEF Sweep
  <2>3. ASSUME NEW c \in Channel \ {"L_R"} PROVE pwm'[c] \in {0, pwm[c]}
    BY <1>4, <2>3 DEF Sweep, Types, Channel
  <2>4. \A c \in Channel \ {"L_R"} : AsTold(c)'
    BY <2>1, <2>3 DEF LoopObeys, AsTold
  <2> QED
    BY <2>2, <2>4 DEF LoopObeys
<1>5. CASE VerifyDone
  <2>1. PwmOf(speed_l, speed_r)' = PwmOf(speed_l, speed_r)
    BY <1>5 DEF VerifyDone, PwmOf
  <2>2. ASSUME NEW c \in Channel PROVE pwm'[c] = IF c = "L_R" THEN 0 ELSE pwm[c]
    BY <1>5, <2>2 DEF VerifyDone, Types
  <2>3. \A c \in Channel : AsTold(c)'
    BY <2>1, <2>2 DEF LoopObeys, AsTold
  <2> QED
    BY <2>3 DEF LoopObeys, Channel
<1>6. CASE Reset
  BY <1>6 DEF Reset, LoopObeys, AsTold, Channel
<1>7. CASE UNCHANGED vars
  <2>1. UNCHANGED <<speed_l, speed_r, pwm, pc>>
    BY <1>7 DEF vars
  <2>2. \A c \in Channel : AsTold(c) => AsTold(c)'
    BY <2>1 DEF AsTold, PwmOf
  <2> QED
    BY <2>1, <2>2 DEF LoopObeys, Channel
<1> QED
  BY <1>1, <1>2, <1>3, <1>4, <1>5, <1>6, <1>7 DEF Next, HandleLine

-----------------------------------------------------------------------------
(* How old a speed gets.                                                   *)

LEMMA NextFresh == Types /\ Fresh /\ [Next]_vars => Fresh'
<1> SUFFICES ASSUME Types, Fresh, [Next]_vars PROVE Fresh'
  OBVIOUS
<1> USE CtrlAssumption
<1>1. ASSUME NEW v \in Speed, Left(v) \/ Right(v) PROVE Fresh'
  BY <1>1 DEF Left, Right, Drive, Fresh, Types
<1>2. CASE Stop \/ WatchFires \/ Reset
  BY <1>2 DEF Stop, WatchFires, Reset, Apply, Fresh, Driven, Types
<1>3. CASE Other \/ Verify \/ Sweep \/ Measure \/ VerifyDone \/ ReadAll
  BY <1>3 DEF Other, Verify, Sweep, Measure, VerifyDone, ReadAll, Fresh, Driven, Types
<1>4. CASE WatchPasses
  \* It was looked at, so the lap starts anew.
  BY <1>4 DEF WatchPasses, Overdue, Fresh, Driven, Types
<1>5. CASE Advance
  BY <1>5 DEF Advance, CountTo, Fresh, Driven, Types
<1>6. CASE UNCHANGED vars
  BY <1>6 DEF vars, Fresh, Driven
<1> QED
  BY <1>1, <1>2, <1>3, <1>4, <1>5, <1>6 DEF Next, HandleLine

-----------------------------------------------------------------------------
(* The theorems.                                                           *)

LEMMA CtrlInvariant == Spec => []CtrlInv
<1>1. Init => CtrlInv
  <2>1. Init => LoopObeys /\ Fresh
    BY DEF Init, LoopObeys, AsTold, Fresh, Driven, Channel
  <2> QED
    BY <2>1, InitTypes DEF CtrlInv
<1>2. CtrlInv /\ [Next]_vars => CtrlInv'
  BY NextTypes, NextObeys, NextFresh DEF CtrlInv
<1> QED
  BY <1>1, <1>2, PTL DEF Spec

\* Outside a sweep no channel is driven but as the speed of its wheel says,
\* whatever line came before and after a sweep.
THEOREM SweepLeavesNothing == Spec => []DrivenAsTold
<1>1. CtrlInv => DrivenAsTold
  BY DEF CtrlInv, LoopObeys, AsTold, DrivenAsTold
<1> QED
  BY <1>1, CtrlInvariant, PTL

\* Outside a sweep no wheel turns for longer than the timeout and a round of
\* loop after the last line that drives.
THEOREM StopsUnattended == Spec => []WatchdogStops
<1>1. CtrlInv => WatchdogStops
  <2> SUFFICES ASSUME CtrlInv, pc \in {"read", "watch"}, NEW c \in Channel, pwm[c] # 0
               PROVE  since <= Limit
    BY DEF WatchdogStops, Turns
  <2>1. Driven
    <3>1. SUFFICES ASSUME speed_l = 0, speed_r = 0 PROVE FALSE
      BY DEF Driven
    <3> QED
      BY <3>1, StillPwm DEF CtrlInv, LoopObeys, AsTold
  <2>2. since <= Timeout + lap /\ lap <= LoopGap
    BY <2>1, CtrlAssumption DEF CtrlInv, Fresh, Types
  <2> QED
    BY <2>2, CtrlAssumption DEF Limit, CtrlInv, Types
<1> QED
  BY <1>1, CtrlInvariant, PTL

\* No duty is ever outside the width of the PWM, whatever speed a line asks for
\* and however far a sweep is.
THEOREM DutiesFit == Spec => [](pwm \in [Channel -> Duty])
<1>1. CtrlInv => pwm \in [Channel -> Duty]
  BY DEF CtrlInv, Types
<1> QED
  BY <1>1, CtrlInvariant, PTL

=============================================================================
