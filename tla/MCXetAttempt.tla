---------------------------- MODULE MCXetAttempt ----------------------------
\* Instances of XetAttempt for TLC.
EXTENDS XetAttempt
=============================================================================
