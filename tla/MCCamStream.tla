---------------------------- MODULE MCCamStream -----------------------------
(***************************************************************************)
(* CamStream on small instances.                                           *)
(***************************************************************************)
EXTENDS CamStream

CONSTANTS v1, a1

OneViewer == {v1}
OneAsker == {a1}
=============================================================================
