---------------------------- MODULE MCExpertSlots ----------------------------
\* Instances of ExpertSlots for TLC.
EXTENDS ExpertSlots, TLC

CONSTANT Routed     \* three experts, told apart by nothing

\* Three layers, the second of three experts in two slots; the last
\* casts its fields, the others are read in place.
ThreeLayers   == 1..3
MixedExperts  == [l \in ThreeLayers |-> IF l = 2 THEN Routed ELSE 1..1]
MixedCapacity == [l \in ThreeLayers |-> IF l = 2 THEN 2 ELSE 1]
FirstTwo      == {1, 2}

\* Two layers: three experts in two slots, and one that casts its fields.
TwoLayers   == 1..2
TwoExperts  == [l \in TwoLayers |-> IF l = 1 THEN Routed ELSE 1..1]
TwoCapacity == [l \in TwoLayers |-> IF l = 1 THEN 2 ELSE 1]
FirstOnly   == {1}

\* A layer whose slots are in doubt is not followed further: what is claimed of
\* it ends there, and nothing else depends on it.
StopWhenBroken == \A l \in Layers : broken[l] = {}

\* Bound: one output dropped unevaluated, or one late write, at a time.
Loose(l) == slots[l].dropped \cup slots[l].late
FewLoose == Cardinality(UNION {{<<l, p>> : p \in Loose(l)} : l \in Layers}) <= 1

Symmetry == {p @@ q : p \in Permutations(Threads), q \in Permutations(Routed)}
=============================================================================
