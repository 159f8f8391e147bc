----------------------------- MODULE MCXetHealth -----------------------------
\* Instances of XetHealth for TLC.
EXTENDS XetHealth, TLC

\* Processes, the threads of a process and the keys are interchangeable.
Symmetry == Permutations(Processes) \cup Permutations(Workers) \cup Permutations(Keys)
=============================================================================
