--------------------------- MODULE MCRemoteTask ---------------------------
(* RemoteTask for TLC: the .cfg files give its constants their values.       *)
EXTENDS RemoteTask
=============================================================================
