-------------------------- MODULE MCSharedHistory --------------------------
(* Bounded instances of SharedHistory for TLC. *)
EXTENDS SharedHistory, TLC

CONSTANTS codex, cursor, u1, u2, u3, m1

\* what starts a turn is compared for identity only
InputSymmetry == Permutations({u1, u2, u3})
=============================================================================
