---------------------------- MODULE MCStampWaits ----------------------------
(* The stamp waits as model-checked: the constants come from the configurations. *)
EXTENDS StampWaits
=============================================================================
