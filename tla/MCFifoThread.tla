---------------------------- MODULE MCFifoThread ----------------------------
(* The FIFO thread as model-checked: the constants come from the configurations. *)
EXTENDS FifoThread
=============================================================================
