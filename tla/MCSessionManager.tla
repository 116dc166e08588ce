------------------------- MODULE MCSessionManager -------------------------
(* Bounded instances of SessionManager for TLC. *)
EXTENDS SessionManager

CONSTANTS s1, s2, c1, c2, c3, c4
=============================================================================
