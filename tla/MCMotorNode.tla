---------------------------- MODULE MCMotorNode -----------------------------
(***************************************************************************)
(* MotorNode on small instances: with MaxSpeed 2 and MaxDuty 2 the speed 1 *)
(* is half the range and 3 saturates; turning makes the wheels oppose.     *)
(***************************************************************************)
EXTENDS MotorNode

Speeds == {-1, 0, 3}
Turns == {0, 1}
=============================================================================
