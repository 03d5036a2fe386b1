---------------------------- MODULE MCCmdVelBridge ----------------------------
(***************************************************************************)
(* CmdVelBridge on small instances.  A publication every 4 ticks instead   *)
(* of every 5 keeps times short.  Nothing in the bridge depends on what    *)
(* time it is, only on how long ago things happened: View shows TLC times  *)
(* relative to the clock, and stops counting where neither the code nor a  *)
(* property tells the difference, so that MaxTime bounds nothing.          *)
(***************************************************************************)
EXTENDS CmdVelBridge

EveryWay == {-1, 0, 1}
Turn == {0, 1}

\* A stop, a period, two periods, and longer than allowed.
Durations == {0, 4, 8, 9}

Since(t, oldest) == IF t - now < -oldest THEN -oldest ELSE t - now

\* What is left of a motion once neither thread can still believe in it.
OldMotion == TickGap + ServeGap
Motion == IF Since(until, OldMotion) = -OldMotion THEN [lin |-> 0, ang |-> 0]
                                                  ELSE [lin |-> lin, ang |-> ang]

\* A publication overdue by more than a period is scheduled anew.
OldPub == PubPeriod + TickGap + 1

\* By then the stops have been sent, or they are too late.
OldEnd == StopRepeat * PubPeriod + 2 * InTime + ServeGap + 1

\* A stop too many is no better than all of them.
Log == [log EXCEPT !.end = Since(@, OldEnd)]

View ==
  << up, Motion, Since(until, OldMotion), Since(next_pub, OldPub), stops_left, blocked,
     tpc, IF up THEN now - tnow ELSE 0, out, IF spc = "error" THEN "reply" ELSE spc, req,
     IF spc \in {"set", "block"} THEN now - snow ELSE 0, Log >>
=============================================================================
