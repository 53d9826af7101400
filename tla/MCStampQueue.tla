---- MODULE MCStampQueue ----
(* The stamp queue on small instances: a ring of two slots, counters that wrap
   at four, so that a behaviour crosses the wrap. *)
EXTENDS StampQueue
====
