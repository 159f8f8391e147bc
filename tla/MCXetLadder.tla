----------------------------- MODULE MCXetLadder -----------------------------
\* Instances of XetLadder for TLC.
EXTENDS XetLadder
=============================================================================
