-------------------------- MODULE MCCheckpointOffload --------------------------
\* Instances of CheckpointOffload for TLC.
EXTENDS CheckpointOffload, TLC

Symmetry == Permutations(Graphs) \cup Permutations(Devices)
=============================================================================
