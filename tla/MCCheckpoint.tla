---------------------------- MODULE MCCheckpoint ----------------------------
\* Two interchangeable files
EXTENDS Checkpoint, TLC
Symmetry == Permutations(Files)
=============================================================================
