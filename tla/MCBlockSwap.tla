----------------------------- MODULE MCBlockSwap -----------------------------
\* Instances of BlockSwap for TLC.
EXTENDS BlockSwap
=============================================================================
