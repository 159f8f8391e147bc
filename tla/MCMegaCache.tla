------------------------------ MODULE MCMegaCache ------------------------------
\* Instances of MegaCache for TLC.
EXTENDS MegaCache

\* A compiled graph, and two versions of one profile.
SomeArtifacts == {[kind |-> "variant", id |-> 1, content |-> 1],
                  [kind |-> "profile", id |-> 2, content |-> 1],
                  [kind |-> "profile", id |-> 2, content |-> 2]}
=============================================================================
