---------------------------- MODULE MCSupervisor ----------------------------
(* Bounded instances of Supervisor for TLC. *)
EXTENDS Supervisor, TLC

CONSTANTS r1, r2, late

MCRoots == [r \in Residents |-> NoParent]
Symmetry == Permutations(Ephemerals)
=============================================================================
