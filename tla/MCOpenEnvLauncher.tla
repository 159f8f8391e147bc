--------------------------- MODULE MCOpenEnvLauncher ---------------------------
\* Instances of OpenEnvLauncher for TLC.
EXTENDS OpenEnvLauncher, TLC

Symmetry == Permutations(Threads) \cup Permutations(Ports) \cup Permutations(Children)
=============================================================================
