--------------------------- MODULE MCSerialQueue ---------------------------
(* SerialQueue for TLC: the .cfg files give its constants their values.     *)
EXTENDS SerialQueue
=============================================================================
