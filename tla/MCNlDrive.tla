----------------------------- MODULE MCNlDrive ------------------------------
(***************************************************************************)
(* NlDrive on small instances: stopped, forward and back.                  *)
(***************************************************************************)
EXTENDS NlDrive

CONSTANTS c1, c2

Speeds == {-1, 0, 1}
NoTurn == {0}
TwoClients == {c1, c2}
Falters == {"falters"}
ServesOrFalters == {"serves", "falters"}
=============================================================================
