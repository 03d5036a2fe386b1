------------------------------- MODULE Wheels -------------------------------
(***************************************************************************)
(* The arithmetic of firmware/motor_uros/src/main.cpp: from a Twist to the *)
(* duties of the two wheels and to the ledcWrites that set them.           *)
(***************************************************************************)
EXTENDS Integers

CONSTANTS
  Lin, Ang,     \* the speeds a Twist may carry
  MaxSpeed,     \* MAX_SPEED
  Track,        \* TRACK_EFF
  MaxDuty       \* 255

ASSUME WheelAssumption == /\ Lin \subseteq Int
                          /\ Ang \subseteq Int
                          /\ Track \in Int
                          /\ MaxSpeed \in Nat \ {0}
                          /\ MaxDuty \in Nat \ {0}

Channel == {"L_R", "L_L", "R_R", "R_L", "LED"}
Twist == [lin : Lin, ang : Ang]
DutyType == [left : Int, right : Int, led : 0..MaxDuty]

\* (int): towards zero.
Trunc(a, b) == IF a >= 0 THEN a \div b ELSE -((-a) \div b)
Constrain(d) == IF d > MaxDuty THEN MaxDuty ELSE IF d < -MaxDuty THEN -MaxDuty ELSE d
Abs(d) == IF d < 0 THEN -d ELSE d

\* v - w * TRACK_EFF / 2 for the left wheel, + for the right one, which is
\* mounted the other way round (INVERT_R).
DutyOf(m) ==
  LET left  == Trunc((2 * m.lin - m.ang * Track) * MaxDuty, 2 * MaxSpeed)
      right == Trunc((2 * m.lin + m.ang * Track) * MaxDuty, 2 * MaxSpeed)
      most  == IF Abs(left) > Abs(right) THEN Abs(left) ELSE Abs(right)
  IN  [left |-> left, right |-> -right, led |-> Constrain(most)]
NoDuty == [left |-> 0, right |-> 0, led |-> 0]

\* Bug: a duty past the range of the PWM.
ApplyMotorUnbounded(fwd, rev, d) ==
  IF d >= 0 THEN [off |-> rev, on |-> fwd, val |-> d]
            ELSE [off |-> fwd, on |-> rev, val |-> -d]

\* Which channel of a bridge is to rest, which one to drive and how hard.
ApplyMotor(fwd, rev, d) ==
  LET c == Constrain(d) IN
  IF c >= 0 THEN [off |-> rev, on |-> fwd, val |-> c]
            ELSE [off |-> fwd, on |-> rev, val |-> -c]

Put(channel, value) == [ch |-> channel, val |-> value]

\* Bug: the new direction is driven before the old one is released.
WritesLate(d) ==
  LET l == ApplyMotor("L_R", "L_L", d.left)
      r == ApplyMotor("R_R", "R_L", d.right)
  IN  << Put(l.on, l.val), Put(l.off, 0), Put(r.on, r.val), Put(r.off, 0),
         Put("LED", d.led) >>

\* The five writes of cmdVelCallback and of driveStop.
Writes(d) ==
  LET l == ApplyMotor("L_R", "L_L", d.left)
      r == ApplyMotor("R_R", "R_L", d.right)
  IN  << Put(l.off, 0), Put(l.on, l.val), Put(r.off, 0), Put(r.on, r.val),
         Put("LED", d.led) >>
=============================================================================
