-------------------------- MODULE MCTextPrefetcher --------------------------
\* Instances of TextPrefetcher for TLC.
EXTENDS TextPrefetcher
=============================================================================
