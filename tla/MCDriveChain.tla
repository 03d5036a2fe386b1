---------------------------- MODULE MCDriveChain ----------------------------
(***************************************************************************)
(* DriveChain on small instances.  Nothing in the chain depends on what    *)
(* time it is, only on how long ago things happened: View shows TLC times  *)
(* relative to the clock, and stops counting where the code no longer      *)
(* tells the difference, so that MaxTime bounds nothing.                   *)
(***************************************************************************)
EXTENDS DriveChain

\* At rest, and beyond MaxSpeed.
Forward == {0, 2}
NoTurn == {0}

Since(t, oldest) == IF t - now < -oldest THEN -oldest ELSE t - now

\* What is left of a motion once neither thread can still believe in it.
OldMotion == TickGap + ServeGap
Motion == IF Since(until, OldMotion) = -OldMotion THEN Zero
                                                  ELSE [lin |-> lin, ang |-> ang]

\* A publication overdue by more than a period is scheduled anew.
OldPub == PubPeriod + TickGap + 1

View ==
  << up, Motion, Since(until, OldMotion), Since(next_pub, OldPub), stops_left, blocked,
     tpc, IF up THEN now - tnow ELSE 0, out, IF spc = "error" THEN "reply" ELSE spc, req,
     IF spc \in {"set", "block"} THEN now - snow ELSE 0,
     [i \in DOMAIN topic |-> [topic[i] EXCEPT !.at = now - @]],
     lost, board, quiet, steady, Ordered >>
=============================================================================
