-------------------------- MODULE MCObstacleGuard ---------------------------
(***************************************************************************)
(* ObstacleGuard on small instances: the robot drives forward or turns.    *)
(***************************************************************************)
EXTENDS ObstacleGuard

Speeds == {0, 1}
NoTurn == {0}
=============================================================================
