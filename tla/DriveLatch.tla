----------------------------- MODULE DriveLatch -----------------------------
(***************************************************************************)
(* What cmd_vel_bridge.py promises its clients, with no threads, no timer  *)
(* and no clock: the bridge remembers one motion, the last one accepted; a *)
(* motion ends by itself or is replaced; while the way ahead is blocked no *)
(* forward motion is remembered and none is accepted; lifting the block    *)
(* starts nothing.  CmdVelBridge is shown to implement this.               *)
(***************************************************************************)
EXTENDS Integers

CONSTANTS
  Lin,  \* linear speeds a command may carry (positive is forward)
  Ang   \* angular speeds a command may carry

ASSUME LatchAssumption == /\ Lin \subseteq Int
                          /\ Ang \subseteq Int
                          /\ 0 \in Lin \cap Ang

VARIABLES
  motion,   \* the motion being commanded
  blocked   \* is the way ahead reported blocked?

vars == <<motion, blocked>>

Motion == [lin : Lin, ang : Ang]

\* The motion that is no motion: both speeds zero.
Stopped == [lin |-> 0, ang |-> 0]

Forward(m) == m.lin > 0

Init ==
  /\ motion = Stopped
  /\ blocked = FALSE

\* A motion is accepted and replaces whatever was being done.
Drive(m) ==
  /\ m # Stopped
  /\ ~(blocked /\ Forward(m))
  /\ motion' = m
  /\ UNCHANGED blocked

\* The motion ends: its time is up, or the client asked to stop.
Halt ==
  /\ motion' = Stopped
  /\ UNCHANGED blocked

\* Bug: a block only concerns the motions that follow.
BlockLater ==
  /\ blocked' = TRUE
  /\ UNCHANGED motion

\* An obstacle is reported: a forward motion is cut, any other goes on.
Block ==
  /\ blocked' = TRUE
  /\ motion' = IF Forward(motion) THEN Stopped ELSE motion

\* The obstacle is gone.  A motion that was cut is not resumed.
Unblock ==
  /\ blocked' = FALSE
  /\ UNCHANGED motion

\* The process dies; nothing is stored, so nothing survives.
Fail ==
  /\ motion' = Stopped
  /\ blocked' = FALSE

Next ==
  \/ \E m \in Motion : Drive(m)
  \/ Halt
  \/ Block
  \/ Unblock
  \/ Fail

Spec == Init /\ [][Next]_vars
=============================================================================
