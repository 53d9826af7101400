--------------------------- MODULE MCDeviceFifos ---------------------------
(* DeviceFifos for TLC: the root FIFO and one child. *)
EXTENDS DeviceFifos
=============================================================================
