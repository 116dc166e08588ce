---------------------------- MODULE MCDelegation ----------------------------
(* Bounded instances of Delegation for TLC.  No property is temporal, so the  *)
(* residents and the delegations may be exchanged.                            *)
EXTENDS Delegation

Symmetry == Permutations(Residents) \cup Permutations(Delegations)
=============================================================================
