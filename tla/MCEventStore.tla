---------------------------- MODULE MCEventStore ----------------------------
(* Bounded instances of EventStore for TLC. *)
EXTENDS EventStore

CONSTANTS reg, end, b1, b2, h1, x1
=============================================================================
