---------------------------- MODULE MCMotorCtrl -----------------------------
(***************************************************************************)
(* MotorCtrl on small instances: reverse, rest, forward, out of range.     *)
(***************************************************************************)
EXTENDS MotorCtrl

Asked == {-1, 0, 2, 5}
=============================================================================
