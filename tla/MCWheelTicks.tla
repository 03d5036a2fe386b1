---------------------------- MODULE MCWheelTicks ----------------------------
(***************************************************************************)
(* WheelTicks on small instances.  Where the wheels are and what has been  *)
(* counted matters only by the difference, beside the total, and what was  *)
(* read only until it is added: View shows TLC no more than that.          *)
(***************************************************************************)
EXTENDS WheelTicks

View == << t, last_ticks_ms, pc, wheel, a, b, counter, total, [w \in Wheel |-> Off(w)],
           IF pc = "clear" THEN <<v, between>> ELSE <<>>,
           lap, moved, reads >>
=============================================================================
