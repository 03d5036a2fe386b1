-------------------------- MODULE MotorNodeProofs ---------------------------
(***************************************************************************)
(* Theorems about MotorNode, for every range of speeds and duties, every   *)
(* track, timeout and width of the millisecond counter.                    *)
(***************************************************************************)
EXTENDS MotorNode, TLAPS

(* The duties.                                                             *)

\* Truncation and saturation keep to the integers and to the PWM's range.
LEMMA ConstrainRange ==
  ASSUME NEW d \in Int
  PROVE  /\ Constrain(d) \in -MaxDuty..MaxDuty
         /\ Constrain(d) >= 0 => Constrain(d) \in 0..MaxDuty
         /\ Constrain(d) < 0 => -Constrain(d) \in 0..MaxDuty
  BY WheelAssumption DEF Constrain

LEMMA TruncInt == ASSUME NEW a \in Int, NEW b \in Nat \ {0} PROVE Trunc(a, b) \in Int
  BY DEF Trunc

LEMMA DutyOfType == ASSUME NEW m \in Twist PROVE DutyOf(m) \in DutyType
<1> USE WheelAssumption
<1> DEFINE l == Trunc((2 * m.lin - m.ang * Track) * MaxDuty, 2 * MaxSpeed)
           r == Trunc((2 * m.lin + m.ang * Track) * MaxDuty, 2 * MaxSpeed)
           most == IF Abs(l) > Abs(r) THEN Abs(l) ELSE Abs(r)
<1>1. m.lin \in Int /\ m.ang \in Int
  BY DEF Twist
<1>2. 2 * MaxSpeed \in Nat \ {0}
  OBVIOUS
<1>3. /\ (2 * m.lin - m.ang * Track) * MaxDuty \in Int
      /\ (2 * m.lin + m.ang * Track) * MaxDuty \in Int
  BY <1>1
<1>4. l \in Int /\ r \in Int
  BY <1>2, <1>3, TruncInt
<1> HIDE DEF l, r
<1>5. most \in Int /\ most >= 0
  BY <1>4 DEF Abs
<1> HIDE DEF most
<1>6. Constrain(most) \in 0..MaxDuty
  BY <1>5 DEF Constrain
<1>7. DutyOf(m) = [left |-> l, right |-> -r, led |-> Constrain(most)]
  BY DEF DutyOf, l, r, most
<1> QED
  BY <1>4, <1>6, <1>7 DEF DutyType

\* Every write goes to a channel, within its range; a bridge's first write
\* releases the channel that its second does not drive.
LEMMA WritesType ==
  ASSUME NEW d \in DutyType, NEW k \in 1..5
  PROVE  Writes(d)[k].ch \in Channel /\ Writes(d)[k].val \in 0..MaxDuty
<1> DEFINE l == ApplyMotor("L_R", "L_L", d.left)
           r == ApplyMotor("R_R", "R_L", d.right)
<1>1. d.left \in Int /\ d.right \in Int /\ d.led \in 0..MaxDuty
  BY DEF DutyType
<1>2. l.off \in Channel /\ l.on \in Channel /\ l.val \in 0..MaxDuty
  BY <1>1, ConstrainRange DEF ApplyMotor, Channel
<1>3. r.off \in Channel /\ r.on \in Channel /\ r.val \in 0..MaxDuty
  BY <1>1, ConstrainRange DEF ApplyMotor, Channel
<1> HIDE DEF l, r
<1>4. Writes(d) = << Put(l.off, 0), Put(l.on, l.val), Put(r.off, 0),
                     Put(r.on, r.val), Put("LED", d.led) >>
  BY DEF Writes, l, r
<1>5. k = 1 \/ k = 2 \/ k = 3 \/ k = 4 \/ k = 5
  OBVIOUS
<1> QED
  BY <1>1, <1>2, <1>3, <1>4, <1>5, WheelAssumption DEF Put, Channel

LEMMA TargetType == TypeOK => Target \in DutyType
  BY WheelAssumption DEF TypeOK, Target, NoDuty, DutyType

-----------------------------------------------------------------------------
LEMMA LimitNat == Limit \in Nat /\ Wrap \in Nat /\ 0 \in 0..(Wrap - 1)
  BY TimeAssumption DEF Limit

LEMMA RestType == NoDuty \in DutyType /\ [c \in Channel |-> 0] \in [Channel -> 0..MaxDuty]
  BY WheelAssumption DEF NoDuty, DutyType

LEMMA InitTypeOK == Init => TypeOK
<1> SUFFICES ASSUME Init PROVE TypeOK
  OBVIOUS
<1>1. ms \in 0..(Wrap - 1) /\ last_cmd_ms \in 0..(Wrap - 1)
  BY LimitNat DEF Init
<1>2. lap \in 0..LoopGap /\ silence \in 0..(Limit + 1) /\ step \in 1..6
  BY LimitNat, TimeAssumption DEF Init
<1> QED
  BY <1>1, <1>2, RestType DEF Init, TypeOK

LEMMA NextTypeOK == TypeOK /\ [Next]_vars => TypeOK'
<1> SUFFICES ASSUME TypeOK, [Next]_vars PROVE TypeOK'
  OBVIOUS
<1> USE WheelAssumption, TimeAssumption
<1>1. CASE UNCHANGED vars
  BY <1>1 DEF TypeOK, vars
<1>2. CASE Advance
  <2>1. ms' \in 0..(Wrap - 1)
    BY <1>2, LimitNat DEF Advance, TypeOK
  <2>2. lap' \in 0..LoopGap
    BY <1>2 DEF Advance, MayWait, TypeOK
  <2>3. silence' \in 0..(Limit + 1)
    BY <1>2, LimitNat DEF Advance, TypeOK
  <2> QED
    BY <1>2, <2>1, <2>2, <2>3 DEF Advance, TypeOK
<1>3. CASE SetupPins
  BY <1>3, RestType DEF SetupPins, TypeOK
<1>4. CASE SetupLink
  BY <1>4 DEF SetupLink, TypeOK
<1>5. ASSUME NEW m \in Twist, Hear(m) PROVE TypeOK'
  BY <1>5, DutyOfType DEF Hear, TypeOK, Limit
<1>6. CASE Loop
  <2>1. CASE HearNothing
    BY <2>1 DEF HearNothing, TypeOK
  <2>2. CASE Write
    <3>1. step \in 1..5
      BY <2>2 DEF Write, TypeOK
    <3>2. pwm' \in [Channel -> 0..MaxDuty]
      BY <2>2, <3>1, WritesType, TargetType DEF Write, TypeOK
    <3> QED
      BY <2>2, <3>1, <3>2 DEF Write, TypeOK
  <2>3. CASE Applied
    BY <2>3 DEF Applied, TypeOK
  <2>4. CASE WatchFires
    BY <2>4 DEF WatchFires, TypeOK
  <2>5. CASE WatchPasses
    BY <2>5 DEF WatchPasses, TypeOK
  <2>6. CASE Halted
    BY <2>6 DEF Halted, TypeOK
  <2> QED
    BY <1>6, <2>1, <2>2, <2>3, <2>4, <2>5, <2>6 DEF Loop
<1>7. CASE LinkLost
  BY <1>7 DEF LinkLost, TypeOK
<1>8. CASE Reset
  <2>1. ms' \in 0..(Wrap - 1) /\ last_cmd_ms' \in 0..(Wrap - 1)
    BY <1>8, LimitNat DEF Reset
  <2>2. lap' \in 0..LoopGap /\ silence' \in 0..(Limit + 1) /\ step' \in 1..6
    BY <1>8, LimitNat DEF Reset
  <2> QED
    BY <1>8, <2>1, <2>2, RestType DEF Reset, TypeOK
<1> QED
  BY <1>1, <1>2, <1>3, <1>4, <1>5, <1>6, <1>7, <1>8 DEF Next

\* The types of MotorNode hold in every reachable state.
THEOREM TypeCorrect == Spec => []TypeOK
  BY InitTypeOK, NextTypeOK, PTL DEF Spec

-----------------------------------------------------------------------------
(* The bridges, write by write.  Halfway through a bridge's two writes the  *)
(* channel that is not to be driven is at rest; while driveStop is at work  *)
(* everything it has passed is at rest.                                     *)

Rest(c) == pwm[c] = 0

PwmInv ==
  /\ OneDirection
  /\ pc \in {"apply", "halt"} =>
       /\ step = 2 => Rest(Writes(Target)[1].ch)
       /\ step = 4 => Rest(Writes(Target)[3].ch)
  /\ pc = "halt" =>
       /\ step >= 2 => Rest("L_L")
       /\ step >= 3 => Rest("L_R")
       /\ step >= 4 => Rest("R_L")
       /\ step >= 5 => Rest("R_R")
       /\ step = 6 => Rest("LED")
  /\ StoppedIsStill

\* The two channels of each bridge are written in turn, the resting one first.
LEMMA WritesPairs ==
  ASSUME NEW d \in DutyType
  PROVE  /\ \/ Writes(d)[1].ch = "L_L" /\ Writes(d)[2].ch = "L_R"
            \/ Writes(d)[1].ch = "L_R" /\ Writes(d)[2].ch = "L_L"
         /\ \/ Writes(d)[3].ch = "R_L" /\ Writes(d)[4].ch = "R_R"
            \/ Writes(d)[3].ch = "R_R" /\ Writes(d)[4].ch = "R_L"
         /\ Writes(d)[5].ch = "LED"
         /\ Writes(d)[1].val = 0 /\ Writes(d)[3].val = 0
  BY DEF Writes, ApplyMotor, Put

LEMMA WritesRest ==
  /\ Writes(NoDuty)[1] = Put("L_L", 0) /\ Writes(NoDuty)[2] = Put("L_R", 0)
  /\ Writes(NoDuty)[3] = Put("R_L", 0) /\ Writes(NoDuty)[4] = Put("R_R", 0)
  /\ Writes(NoDuty)[5] = Put("LED", 0)
<1>1. ApplyMotor("L_R", "L_L", 0) = [off |-> "L_L", on |-> "L_R", val |-> 0]
  BY WheelAssumption DEF ApplyMotor, Constrain
<1>2. ApplyMotor("R_R", "R_L", 0) = [off |-> "R_L", on |-> "R_R", val |-> 0]
  BY WheelAssumption DEF ApplyMotor, Constrain
<1> QED
  BY <1>1, <1>2 DEF Writes, NoDuty, Put

LEMMA InitPwmInv == Init => PwmInv
  BY DEF Init, PwmInv, OneDirection, StoppedIsStill, Channel

LEMMA NextPwmInv == TypeOK /\ PwmInv /\ [Next]_vars => PwmInv'
<1> SUFFICES ASSUME TypeOK, PwmInv, [Next]_vars PROVE PwmInv'
  OBVIOUS
<1> USE DEF PwmInv, OneDirection, StoppedIsStill, Rest
<1>1. CASE UNCHANGED vars
  BY <1>1 DEF vars, Target
<1>2. CASE Advance
  BY <1>2 DEF Advance, Target
<1>3. CASE SetupPins
  BY <1>3 DEF SetupPins, Channel
<1>4. CASE SetupLink
  BY <1>4 DEF SetupLink
<1>5. ASSUME NEW m \in Twist, Hear(m) PROVE PwmInv'
  BY <1>5 DEF Hear
<1>6. CASE Loop
  <2>1. CASE HearNothing
    BY <2>1 DEF HearNothing
  <2>2. CASE Write
    <3> DEFINE w == Writes(Target)[step]
    <3>1. /\ pwm' = [pwm EXCEPT ![w.ch] = w.val]
          /\ step' = step + 1 /\ pc' = pc /\ Target' = Target
      BY <2>2 DEF Write, Target
    <3>2. step \in 1..5 /\ pwm \in [Channel -> 0..MaxDuty]
      BY <2>2 DEF Write, TypeOK
    <3>3. Target \in DutyType
      BY TargetType
    <3>4. w.ch \in Channel
      BY <3>2, <3>3, WritesType
    <3>5. \A c \in Channel : pwm'[c] = IF c = w.ch THEN w.val ELSE pwm[c]
      BY <3>1, <3>2, <3>4
    <3>6. OneDirection'
      <4> DEFINE W == Writes(Target)
      <4>1. /\ \/ W[1].ch = "L_L" /\ W[2].ch = "L_R"
               \/ W[1].ch = "L_R" /\ W[2].ch = "L_L"
            /\ \/ W[3].ch = "R_L" /\ W[4].ch = "R_R"
               \/ W[3].ch = "R_R" /\ W[4].ch = "R_L"
            /\ W[5].ch = "LED" /\ W[1].val = 0 /\ W[3].val = 0
        BY <3>3, WritesPairs
      <4>2. /\ step = 2 => pwm[W[1].ch] = 0
            /\ step = 4 => pwm[W[3].ch] = 0
        BY <2>2 DEF Write
      <4> HIDE DEF W
      <4>3. w = W[step]
        BY DEF W
      <4>4. pwm'["L_R"] = 0 \/ pwm'["L_L"] = 0
        <5>1. /\ pwm'["L_R"] = IF "L_R" = w.ch THEN w.val ELSE pwm["L_R"]
              /\ pwm'["L_L"] = IF "L_L" = w.ch THEN w.val ELSE pwm["L_L"]
          BY <3>5 DEF Channel
        <5> HIDE DEF w
        <5> QED
          BY <3>2, <4>1, <4>2, <4>3, <5>1
      <4>5. pwm'["R_R"] = 0 \/ pwm'["R_L"] = 0
        <5>1. /\ pwm'["R_R"] = IF "R_R" = w.ch THEN w.val ELSE pwm["R_R"]
              /\ pwm'["R_L"] = IF "R_L" = w.ch THEN w.val ELSE pwm["R_L"]
          BY <3>5 DEF Channel
        <5> HIDE DEF w
        <5> QED
          BY <3>2, <4>1, <4>2, <4>3, <5>1
      <4> QED
        BY <4>4, <4>5
    <3>7. /\ step' = 2 => Rest(Writes(Target)[1].ch)'
          /\ step' = 4 => Rest(Writes(Target)[3].ch)'
      BY <3>1, <3>2, <3>3, <3>5, WritesPairs DEF Channel
    <3>8. pc' = "halt" =>
            /\ step' >= 2 => Rest("L_L")'
            /\ step' >= 3 => Rest("L_R")'
            /\ step' >= 4 => Rest("R_L")'
            /\ step' >= 5 => Rest("R_R")'
            /\ step' = 6 => Rest("LED")'
      <4> SUFFICES ASSUME pc = "halt"
                   PROVE  /\ step + 1 >= 2 => Rest("L_L")'
                          /\ step + 1 >= 3 => Rest("L_R")'
                          /\ step + 1 >= 4 => Rest("R_L")'
                          /\ step + 1 >= 5 => Rest("R_R")'
                          /\ step + 1 = 6 => Rest("LED")'
        BY <3>1
      <4>1. w = Writes(NoDuty)[step]
        BY DEF Target
      <4>2. /\ step = 1 => w = Put("L_L", 0)
            /\ step = 2 => w = Put("L_R", 0)
            /\ step = 3 => w = Put("R_L", 0)
            /\ step = 4 => w = Put("R_R", 0)
            /\ step = 5 => w = Put("LED", 0)
        BY <4>1, WritesRest
      <4> HIDE DEF w
      <4> QED
        BY <3>2, <3>5, <4>2 DEF Channel, Put
    <3>9. pc \in {"apply", "halt"}
      BY <2>2 DEF Write
    <3> QED
      BY <3>1, <3>6, <3>7, <3>8, <3>9
  <2>3. CASE Applied
    BY <2>3 DEF Applied
  <2>4. CASE WatchFires
    BY <2>4 DEF WatchFires
  <2>5. CASE WatchPasses
    BY <2>5 DEF WatchPasses
  <2>6. CASE Halted
    BY <2>6 DEF Halted, Channel
  <2> QED
    BY <1>6, <2>1, <2>2, <2>3, <2>4, <2>5, <2>6 DEF Loop
<1>7. CASE LinkLost
  BY <1>7 DEF LinkLost, Target
<1>8. CASE Reset
  BY <1>8 DEF Reset, Channel
<1> QED
  BY <1>1, <1>2, <1>3, <1>4, <1>5, <1>6, <1>7, <1>8 DEF Next

LEMMA PwmInvariance == Spec => [](TypeOK /\ PwmInv)
<1>1. Init => TypeOK /\ PwmInv
  BY InitTypeOK, InitPwmInv
<1>2. TypeOK /\ PwmInv /\ [Next]_vars => (TypeOK /\ PwmInv)'
  BY NextTypeOK, NextPwmInv
<1> QED
  BY <1>1, <1>2, PTL DEF Spec

\* No bridge is ever driven both ways, between two writes included.
THEOREM OneDirectionAlways == Spec => []OneDirection
<1>1. TypeOK /\ PwmInv => OneDirection
  BY DEF PwmInv
<1> QED
  BY <1>1, PwmInvariance, PTL

\* The flag the watchdog goes by never calls a driven wheel stopped.
THEOREM StoppedFlagIsTrue == Spec => []StoppedIsStill
<1>1. TypeOK /\ PwmInv => StoppedIsStill
  BY DEF PwmInv
<1> QED
  BY <1>1, PwmInvariance, PTL

-----------------------------------------------------------------------------
(* The board implements DeadMan.  The invariant relates the clocks: how old *)
(* a Twist is while it is applied, how far millis is ahead of last_cmd_ms   *)
(* while a wheel may turn, and what the watchdog must have seen to fire.    *)

Elapsed == (ms - last_cmd_ms) % Wrap
Running == pc \in {"spin", "watch"}

SetUp ==
  /\ pc \in {"boot", "link"} => ~en /\ stopped /\ duty = NoDuty
  /\ pc \notin {"boot", "link"} => en

Ages ==
  /\ pc = "apply" => silence <= lap
  /\ Running /\ ~stopped => /\ Elapsed <= Timeout + lap
                            /\ Elapsed <= silence
                            /\ silence <= Elapsed + LoopGap
  /\ pc = "halt" => Timeout < silence /\ silence <= Timeout + LoopGap + lap

Obeying ==
  /\ Running => Board!Obeys \/ silence > Timeout
  /\ pc = "apply" => /\ step >= 3 => Left = Constrain(duty.left)
                     /\ step >= 5 => Right = Constrain(duty.right)

\* The clock counts modulo Wrap, and a difference of two readings with it.
LEMMA Difference ==
  ASSUME NEW w \in Nat \ {0}, NEW x \in 0..(w - 1), NEW y \in 0..(w - 1)
  PROVE  (x - y) % w = IF x >= y THEN x - y ELSE x - y + w
OBVIOUS

LEMMA NextReading ==
  ASSUME NEW w \in Nat \ {0}, NEW x \in 0..(w - 1)
  PROVE  (x + 1) % w = IF x + 1 = w THEN 0 ELSE x + 1
OBVIOUS

LEMMA ElapsedGrows ==
  ASSUME TypeOK, ms' = (ms + 1) % Wrap, last_cmd_ms' = last_cmd_ms, Elapsed + 1 < Wrap
  PROVE  Elapsed \in Nat /\ Elapsed' = Elapsed + 1
<1>1. Wrap \in Nat \ {0} /\ ms \in 0..(Wrap - 1) /\ last_cmd_ms \in 0..(Wrap - 1)
  BY TimeAssumption DEF TypeOK
<1>2. Elapsed = IF ms >= last_cmd_ms THEN ms - last_cmd_ms ELSE ms - last_cmd_ms + Wrap
  BY <1>1, Difference DEF Elapsed
<1>3. ms' = IF ms + 1 = Wrap THEN 0 ELSE ms + 1
  BY <1>1, NextReading
<1>4. ms' \in 0..(Wrap - 1)
  BY <1>1, <1>3
<1>5. Elapsed' = IF ms' >= last_cmd_ms THEN ms' - last_cmd_ms ELSE ms' - last_cmd_ms + Wrap
  BY <1>1, <1>4, Difference DEF Elapsed
<1> QED
  BY <1>1, <1>2, <1>3, <1>5

LEMMA SetUpNext == TypeOK /\ SetUp /\ [Next]_vars => SetUp'
  BY DEF SetUp, TypeOK, Next, vars, Advance, SetupPins, SetupLink, Hear, Loop, HearNothing,
         Write, Applied, WatchFires, WatchPasses, Halted, LinkLost, Reset

LEMMA AgesNext == TypeOK /\ SetUp /\ Ages /\ [Next]_vars => Ages'
<1> SUFFICES ASSUME TypeOK, SetUp, Ages, [Next]_vars PROVE Ages'
  OBVIOUS
<1> USE DEF Running
<1>0. /\ Timeout \in Nat /\ LoopGap \in Nat \ {0} /\ Wrap \in Nat
      /\ Limit = Timeout + 2 * LoopGap /\ Limit < Wrap
      /\ lap \in 0..LoopGap /\ silence \in 0..(Limit + 1)
  BY TimeAssumption DEF Limit, TypeOK
<1>1. CASE UNCHANGED vars
  BY <1>1 DEF vars, Ages, Elapsed
<1>2. CASE Advance
  <2>1. CASE Running /\ ~stopped
    <3>1. /\ pc' = pc /\ stopped' = stopped /\ lap < LoopGap /\ lap' = lap + 1
          /\ silence' = IF silence > Limit THEN silence ELSE silence + 1
      BY <1>2, <2>1 DEF Advance, MayWait
    <3>2. Elapsed <= Timeout + lap /\ Elapsed <= silence /\ silence <= Elapsed + LoopGap
      BY <2>1 DEF Ages
    <3>3. Elapsed \in Int
      BY <1>0 DEF Elapsed, TypeOK
    <3>4. Elapsed' = Elapsed + 1
      BY <1>0, <1>2, <3>1, <3>2, <3>3, ElapsedGrows DEF Advance
    <3> QED
      BY <1>0, <2>1, <3>1, <3>2, <3>3, <3>4 DEF Ages
  <2>2. CASE ~(Running /\ ~stopped)
    BY <1>0, <1>2, <2>2 DEF Advance, MayWait, Ages
  <2> QED
    BY <2>1, <2>2
<1>3. CASE SetupPins \/ SetupLink \/ Reset
  BY <1>3 DEF SetupPins, SetupLink, Reset, Ages, SetUp
<1>4. ASSUME NEW m \in Twist, Hear(m) PROVE Ages'
  BY <1>0, <1>4 DEF Hear, Ages
<1>5. CASE HearNothing \/ LinkLost
  BY <1>5 DEF HearNothing, LinkLost, Ages, Elapsed
<1>6. CASE Write
  BY <1>6 DEF Write, Ages
<1>7. CASE Applied
  <2>1. Elapsed' = 0
    BY <1>0, <1>7, Difference DEF Applied, Elapsed, TypeOK
  <2> QED
    BY <1>0, <1>7, <2>1 DEF Applied, Ages
<1>8. CASE WatchFires
  <2>1. Elapsed > Timeout /\ Elapsed \in Int
    BY <1>0, <1>8 DEF WatchFires, Overdue, Elapsed, TypeOK
  <2> QED
    BY <1>0, <1>8, <2>1 DEF WatchFires, Ages
<1>9. CASE WatchPasses
  <2>1. /\ Elapsed' = Elapsed /\ Elapsed \in Int
        /\ pc' = "spin" /\ lap' = 0 /\ stopped' = stopped /\ silence' = silence
    BY <1>0, <1>9 DEF WatchPasses, Elapsed, TypeOK
  <2>2. ~stopped => Elapsed <= Timeout
    BY <1>0, <1>9, <2>1 DEF WatchPasses, Overdue, Elapsed
  <2> QED
    BY <1>0, <1>9, <2>1, <2>2 DEF WatchPasses, Ages
<1>10. CASE Halted
  BY <1>10 DEF Halted, Ages
<1> QED
  BY <1>1, <1>2, <1>3, <1>4, <1>5, <1>6, <1>7, <1>8, <1>9, <1>10 DEF Next, Loop

\* One write turns one wheel at most: its first write of two releases it or leaves
\* it alone, and leaves it if it obeys; its second makes it obey.
LEMMA WriteTurns ==
  ASSUME TypeOK, PwmInv, SetUp, Write
  PROVE  /\ step = 1 => /\ Left' \in {Left, 0} /\ Right' = Right
                        /\ Left = Constrain(Target.left) => Left' = Left
         /\ step = 2 => Left' = Constrain(Target.left) /\ Right' = Right
         /\ step = 3 => /\ Left' = Left /\ Right' \in {Right, 0}
                        /\ Right = Constrain(Target.right) => Right' = Right
         /\ step = 4 => Left' = Left /\ Right' = Constrain(Target.right)
         /\ step = 5 => Left' = Left /\ Right' = Right
<1> DEFINE W == Writes(Target)
           l == Constrain(Target.left)
           r == Constrain(Target.right)
<1>1. /\ pc \in {"apply", "halt"} /\ step \in 1..5 /\ en = TRUE /\ en' = TRUE
      /\ pwm' = [pwm EXCEPT ![W[step].ch] = W[step].val]
  BY DEF Write, TypeOK, SetUp
<1>2. /\ Left = pwm["L_R"] - pwm["L_L"] /\ Left' = pwm'["L_R"] - pwm'["L_L"]
      /\ Right = pwm["R_R"] - pwm["R_L"] /\ Right' = pwm'["R_R"] - pwm'["R_L"]
  BY <1>1 DEF Left, Right, Wheel
<1>3. Target.left \in Int /\ Target.right \in Int
  BY TargetType DEF DutyType
<1>4. l \in Int /\ r \in Int /\ l \in -MaxDuty..MaxDuty /\ r \in -MaxDuty..MaxDuty
  BY <1>3, ConstrainRange, WheelAssumption
<1>5. /\ W[1] = Put(IF l >= 0 THEN "L_L" ELSE "L_R", 0)
      /\ W[2] = IF l >= 0 THEN Put("L_R", l) ELSE Put("L_L", -l)
      /\ W[3] = Put(IF r >= 0 THEN "R_L" ELSE "R_R", 0)
      /\ W[4] = IF r >= 0 THEN Put("R_R", r) ELSE Put("R_L", -r)
      /\ W[5] = Put("LED", Target.led)
  BY DEF Writes, ApplyMotor
<1>6. /\ step = 2 => pwm[W[1].ch] = 0
      /\ step = 4 => pwm[W[3].ch] = 0
      /\ pwm["L_R"] = 0 \/ pwm["L_L"] = 0
      /\ pwm["R_R"] = 0 \/ pwm["R_L"] = 0
  BY <1>1 DEF PwmInv, OneDirection, Rest
<1> HIDE DEF W, l, r
<1>7. pwm \in [Channel -> 0..MaxDuty] /\ MaxDuty \in Nat
  BY WheelAssumption DEF TypeOK
<1>8. /\ pwm["L_R"] \in Nat /\ pwm["L_L"] \in Nat /\ pwm["R_R"] \in Nat /\ pwm["R_L"] \in Nat
  BY <1>7 DEF Channel
<1>9. \A c \in Channel : pwm'[c] = IF c = W[step].ch THEN W[step].val ELSE pwm[c]
  BY <1>1, <1>7
<1>10. step = 1 => /\ Left' \in {Left, 0} /\ Right' = Right
                   /\ Left = l => Left' = Left
  BY <1>2, <1>4, <1>5, <1>6, <1>8, <1>9 DEF Put, Channel
<1>11. step = 2 => Left' = l /\ Right' = Right
  BY <1>2, <1>4, <1>5, <1>6, <1>8, <1>9 DEF Put, Channel
<1>12. step = 3 => /\ Left' = Left /\ Right' \in {Right, 0}
                   /\ Right = r => Right' = Right
  BY <1>2, <1>4, <1>5, <1>6, <1>8, <1>9 DEF Put, Channel
<1>13. step = 4 => Left' = Left /\ Right' = r
  BY <1>2, <1>4, <1>5, <1>6, <1>8, <1>9 DEF Put, Channel
<1>14. step = 5 => Left' = Left /\ Right' = Right
  BY <1>2, <1>4, <1>5, <1>6, <1>8, <1>9 DEF Put, Channel
<1> QED
  BY <1>10, <1>11, <1>12, <1>13, <1>14 DEF l, r

\* While nothing is driven the wheels are still.
LEMMA AtRest == (\A c \in Channel : pwm[c] = 0) \/ ~en => Left = 0 /\ Right = 0
  BY DEF Left, Right, Wheel, Channel

LEMMA SameWheels == UNCHANGED <<pwm, en>> => Left' = Left /\ Right' = Right
  BY DEF Left, Right, Wheel

LEMMA ConstrainZero == Constrain(0) = 0
  BY WheelAssumption DEF Constrain

\* During setup there is no order, and none is carried out.
LEMMA IdleAtSetup ==
  ASSUME SetUp, pc \in {"boot", "link"}
  PROVE  Board!Obeys /\ Left = 0 /\ Right = 0
  BY AtRest, ConstrainZero DEF SetUp, NoDuty, Board!Obeys

BoardInv == TypeOK /\ PwmInv /\ SetUp /\ Ages /\ Obeying

LEMMA ObeyingNext == BoardInv /\ [Next]_vars => Obeying'
<1> SUFFICES ASSUME BoardInv, [Next]_vars PROVE Obeying'
  OBVIOUS
<1> USE DEF Obeying, Running, Board!Obeys
<1>1. CASE UNCHANGED vars
  BY <1>1, SameWheels DEF vars, BoardInv
<1>2. CASE Advance
  <2>1. silence' > Timeout \/ ~(silence > Timeout)
    BY <1>2, TimeAssumption DEF Advance, BoardInv, TypeOK, Limit
  <2> QED
    BY <1>2, <2>1, SameWheels DEF Advance, BoardInv
<1>3. CASE SetupPins \/ Reset
  BY <1>3 DEF SetupPins, Reset
<1>4. CASE SetupLink
  <2>1. Left = 0 /\ Right = 0 /\ Board!Obeys /\ stopped
    BY <1>4, IdleAtSetup DEF SetupLink, BoardInv, SetUp
  <2>2. \A c \in Channel : pwm[c] = 0
    BY <1>4, <2>1 DEF SetupLink, BoardInv, PwmInv, StoppedIsStill
  <2>3. Left' = 0 /\ Right' = 0
    BY <1>4, <2>2 DEF SetupLink, Left, Right, Wheel, Channel
  <2> QED
    BY <1>4, <2>1, <2>3 DEF SetupLink
<1>5. ASSUME NEW m \in Twist, Hear(m) PROVE Obeying'
  BY <1>5 DEF Hear
<1>6. CASE HearNothing \/ LinkLost
  BY <1>6, SameWheels DEF HearNothing, LinkLost, BoardInv
<1>7. CASE Write
  BY <1>7, WriteTurns DEF Write, BoardInv, TypeOK, Target
<1>8. CASE Applied
  BY <1>8, SameWheels DEF Applied, BoardInv
<1>9. CASE WatchFires
  BY <1>9 DEF WatchFires
<1>10. CASE WatchPasses
  BY <1>10, SameWheels DEF WatchPasses, BoardInv
<1>11. CASE Halted
  BY <1>11 DEF Halted, BoardInv, Ages
<1> QED
  BY <1>1, <1>2, <1>3, <1>4, <1>5, <1>6, <1>7, <1>8, <1>9, <1>10, <1>11 DEF Next, Loop

-----------------------------------------------------------------------------
LEMMA InitBoardInv == Init => BoardInv
  BY InitTypeOK, InitPwmInv DEF Init, BoardInv, SetUp, Ages, Obeying, Running

LEMMA NextBoardInv == BoardInv /\ [Next]_vars => BoardInv'
  BY NextTypeOK, NextPwmInv, SetUpNext, AgesNext, ObeyingNext DEF BoardInv

\* A step that hears nothing and lets no time pass, and turns no wheel.
LEMMA Stutter ==
  ASSUME UNCHANGED <<duty, silence>>, Left' = Left, Right' = Right
  PROVE  UNCHANGED Board!vars
  BY DEF Board!vars

\* No wheel turns any more when the limit is reached.
LEMMA StillInTime == BoardInv /\ MayWait => (Left = 0 /\ Right = 0) \/ silence < Limit
<1> SUFFICES ASSUME BoardInv, MayWait, ~(Left = 0 /\ Right = 0) PROVE silence < Limit
  OBVIOUS
<1>0. /\ Timeout \in Nat /\ LoopGap \in Nat \ {0} /\ Limit = Timeout + 2 * LoopGap
      /\ lap \in Nat /\ silence \in Nat
  BY TimeAssumption DEF Limit, BoardInv, TypeOK
<1>1. pc \notin {"boot", "link"} /\ lap < LoopGap
  BY IdleAtSetup DEF MayWait, BoardInv
<1>2. CASE pc = "apply" \/ pc = "halt"
  BY <1>0, <1>1, <1>2 DEF BoardInv, Ages
<1>3. CASE Running
  <2>1. ~stopped
    BY <1>3, AtRest DEF BoardInv, PwmInv, StoppedIsStill, Running
  <2>2. Elapsed \in Int /\ Elapsed <= Timeout + lap /\ silence <= Elapsed + LoopGap
    BY <1>3, <2>1, TimeAssumption DEF BoardInv, Ages, Elapsed, TypeOK
  <2> QED
    BY <1>0, <1>1, <2>2
<1> QED
  BY <1>1, <1>2, <1>3 DEF BoardInv, TypeOK, Running

\* While time may pass an order is carried out that is neither new nor old.
LEMMA ObeysInTime ==
  ASSUME BoardInv, MayWait, silence \in LoopGap..Timeout PROVE Board!Obeys
<1>1. CASE pc \in {"boot", "link"}
  BY <1>1, IdleAtSetup DEF BoardInv
<1>2. CASE pc \in {"apply", "halt"}
  BY <1>2, TimeAssumption DEF BoardInv, Ages, MayWait, TypeOK
<1>3. CASE Running
  BY <1>3, TimeAssumption DEF BoardInv, Obeying
<1> QED
  BY <1>1, <1>2, <1>3 DEF BoardInv, TypeOK, Running

LEMMA NextBoard == BoardInv /\ [Next]_vars => [Board!Next]_(Board!vars)
<1> SUFFICES ASSUME BoardInv, [Next]_vars PROVE Board!Next \/ UNCHANGED Board!vars
  OBVIOUS
<1> DEFINE told == [left |-> Constrain(duty.left), right |-> Constrain(duty.right)]
<1>1. CASE UNCHANGED vars
  BY <1>1, SameWheels, Stutter DEF vars
<1>2. CASE Advance
  <2>1. Left' = Left /\ Right' = Right /\ duty' = duty /\ MayWait
    BY <1>2, SameWheels DEF Advance
  <2>2. silence' = IF silence > Limit THEN silence ELSE silence + 1
    BY <1>2 DEF Advance
  <2>3. Board!Still \/ silence < Limit
    BY <2>1, StillInTime DEF Board!Still
  <2>4. silence \in LoopGap..Timeout => Board!Obeys
    BY <2>1, ObeysInTime
  <2>5. Board!Pass
    BY <2>1, <2>2, <2>3, <2>4 DEF Board!Pass
  <2> QED
    BY <2>5 DEF Board!Next
<1>3. CASE SetupPins
  <2>1. ~en /\ ~en'
    BY <1>3 DEF SetupPins, BoardInv, SetUp
  <2> QED
    BY <1>3, <2>1, Stutter DEF SetupPins, Left, Right, Wheel
<1>4. CASE SetupLink
  <2>1. stopped /\ ~en
    BY <1>4 DEF SetupLink, BoardInv, SetUp
  <2>2. \A c \in Channel : pwm[c] = 0
    BY <1>4, <2>1 DEF SetupLink, BoardInv, PwmInv, StoppedIsStill
  <2>3. Left' = 0 /\ Right' = 0 /\ Left = 0 /\ Right = 0
    BY <1>4, <2>1, <2>2 DEF SetupLink, Left, Right, Wheel, Channel
  <2> QED
    BY <1>4, <2>3, Stutter DEF SetupLink
<1>5. ASSUME NEW m \in Twist, Hear(m) PROVE Board!Next
  <2>1. /\ duty' = DutyOf(m) /\ silence' = 0 /\ Left' = Left /\ Right' = Right
        /\ Running
    BY <1>5, SameWheels DEF Hear, Running
  <2>2. told' \in Board!Orders
    <3>1. duty'.left \in Int /\ duty'.right \in Int
      BY <2>1, DutyOfType DEF DutyType
    <3> QED
      BY <3>1, ConstrainRange DEF Board!Orders
  <2>3. Board!Settled
    BY <2>1 DEF BoardInv, Obeying, Board!Settled
  <2>4. Board!Hear(told')
    BY <2>1, <2>3 DEF Board!Hear
  <2> QED
    BY <2>2, <2>4 DEF Board!Next
<1>6. CASE Write
  <2>1. duty' = duty /\ silence' = silence /\ Target' = Target
    BY <1>6 DEF Write, Target
  <2>2. step \in 1..5 /\ silence \in Int
    BY <1>6 DEF Write, BoardInv, TypeOK
  <2>3. CASE pc = "apply"
    <3>1. silence <= LoopGap
      BY <2>3, TimeAssumption DEF BoardInv, Ages, TypeOK
    <3>2. Target = duty
      BY <2>3 DEF Target
    <3>3. /\ Left' = Left \/ (Left' \in {0, told.left} /\ Left # told.left)
          /\ Right' = Right \/ (Right' \in {0, told.right} /\ Right # told.right)
      BY <1>6, <2>2, <3>2, WriteTurns DEF BoardInv
    <3>4. Board!Turn
      BY <2>1, <3>1, <3>3 DEF Board!Turn, Board!May
    <3> QED
      BY <3>4 DEF Board!Next
  <2>4. CASE pc = "halt"
    <3>1. silence > Timeout
      BY <2>4 DEF BoardInv, Ages
    <3>2. Target.left = 0 /\ Target.right = 0
      BY <2>4 DEF Target, NoDuty
    <3>3. Left' \in {Left, 0} /\ Right' \in {Right, 0}
      BY <1>6, <2>2, <3>2, WriteTurns, ConstrainZero DEF BoardInv
    <3>4. Board!Turn
      BY <2>1, <3>1, <3>3 DEF Board!Turn, Board!May
    <3> QED
      BY <3>4 DEF Board!Next
  <2> QED
    BY <1>6, <2>3, <2>4 DEF Write
<1>7. CASE HearNothing \/ Applied \/ WatchFires \/ WatchPasses \/ Halted \/ LinkLost
  <2>1. UNCHANGED <<pwm, en, duty, silence>>
    BY <1>7 DEF HearNothing, Applied, WatchFires, WatchPasses, Halted, LinkLost
  <2> QED
    BY <2>1, SameWheels, Stutter
<1>8. CASE Reset
  <2>1. Left' = 0 /\ Right' = 0 /\ silence' = 0 /\ told' = [left |-> 0, right |-> 0]
    BY <1>8, ConstrainZero DEF Reset, Left, Right, Wheel, NoDuty
  <2> QED
    BY <2>1 DEF Board!Next, Board!Fail, Board!Idle
<1> QED
  BY <1>1, <1>2, <1>3, <1>4, <1>5, <1>6, <1>7, <1>8 DEF Next, Loop

\* Every behaviour of the board is one of DeadMan: a Twist takes effect within a
\* round of loop, holds for the timeout, and two rounds later the wheels stand
\* still, for every timeout, length of a round and width of millis.
THEOREM DeadManRefinement == Spec => BoardSpec
<1>1. Init => Board!Init
  <2>1. Init => Left = 0 /\ Right = 0
    BY DEF Init, Left, Right, Wheel
  <2> QED
    BY <2>1, ConstrainZero DEF Init, NoDuty, Board!Init, Board!Idle
<1> QED
  BY <1>1, InitBoardInv, NextBoardInv, NextBoard, PTL DEF Spec, BoardSpec, Board!Spec
=============================================================================
