------------------------------ MODULE MCTimer ------------------------------
(* Timer for TLC: a timer and a source of three bits, which the source's own merges wrap. *)
EXTENDS Timer
=============================================================================
