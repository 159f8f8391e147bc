------------------------ MODULE CheckpointOffload_proof ------------------------
(***************************************************************************)
(* The pool of host slots of CheckpointOffload, proved for any number of   *)
(* graphs, layers, devices and slots.  An invariant says where the slot of *)
(* every node is that a backward may still run: leased, or free or kept    *)
(* aside with that node for its holder.                                    *)
(*                                                                         *)
(* Then the types, and what a recompute reads when there is one device: a  *)
(* second invariant says of every queued recompute which load it reads     *)
(* from, that nothing overwrites the load's source before it, and that no  *)
(* later load into its buffer runs before the recompute.                   *)
(*                                                                         *)
(* Last, any number of devices when no graph is retained: a third          *)
(* invariant orders what reads and writes a host slot over all streams.    *)
(* The offload of a node to come is after all else that uses its slot, the *)
(* fences of a free slot are after all it is still used for, and a reload  *)
(* is before any offload to its slot but the input's own.                  *)
(***************************************************************************)
EXTENDS CheckpointOffload, TLAPS

Exists(n) == n[2] \in DOMAIN ctx[n[1]]
At(n)     == ctx[n[1]][n[2]]

\* Nodes of the present pool whose input is on the host.
Ours(n) == Exists(n) /\ At(n).epoch = epoch /\ At(n).slot # OnDevice

Unleased == free \cup retained

Typed ==
  /\ free \subseteq Slots /\ retained \subseteq Slots
  /\ top \in 0..MaxSlots /\ epoch \in Nat /\ generation \in Nat
  /\ holder \in [Slots -> Nodes \cup {Nobody}]
  /\ nextBuffer \in [Devices -> Buffers]
  /\ stage \in [Graphs -> {"forward", "ready", "gone"}]
  /\ ctx \in [Graphs -> Seq(Node)]
  /\ \A g \in Graphs : Len(ctx[g]) <= Layers

\* Free slots and slots kept aside have been handed out before, and differ.
Below ==
  /\ \A s \in Unleased : s < top
  /\ free \cap retained = {}

\* A lease is held by one node, whose backward has not been run.
LeasesApart ==
  /\ \A n \in Nodes : Ours(n) /\ At(n).leased
       => At(n).kept /\ At(n).slot < top /\ At(n).slot \notin Unleased
  /\ \A m, n \in Nodes : Ours(m) /\ Ours(n) /\ At(m).leased /\ At(n).leased
       /\ At(m).slot = At(n).slot => m = n

\* A node that gave its slot back and may be run again is the slot's holder.
HeldForIt ==
  \A n \in Nodes : Ours(n) /\ At(n).kept /\ ~At(n).leased
    => At(n).slot \in Unleased /\ holder[At(n).slot] = n

\* A holder that may be run again reads that slot.
HoldersRead ==
  \A s \in Unleased : GraphRetained(holder[s]) => Ours(holder[s]) /\ At(holder[s]).slot = s

\* No slot waits for a node that is still to come; a backward has a layer.
HoldersCame ==
  /\ \A s \in Slots : holder[s] # Nobody => Exists(holder[s]) \/ stage[holder[s][1]] = "gone"
  /\ \A g \in Graphs : stage[g] = "gone" => ctx[g] = <<>>
  /\ \A g \in Graphs : stage[g] = "ready" => ctx[g] # <<>>

Covered ==
  \A s \in 0..(top - 1) :
    s \in Unleased \/ \E n \in Nodes : Ours(n) /\ At(n).leased /\ At(n).slot = s

\* A backward runs over nodes of the present pool that have their tensors.
RunsKept ==
  running # Nobody =>
    /\ running \in [graph : Graphs, layer : 1..Layers, retain : BOOLEAN]
    /\ running.layer \in DOMAIN ctx[running.graph]
    /\ stage[running.graph] = "ready"
    /\ \A l \in DOMAIN ctx[running.graph] : ctx[running.graph][l].epoch = epoch
    /\ \A l \in 1..running.layer : ctx[running.graph][l].kept

\* No node is of a later pool; what is leased is a slot.
NodesSound ==
  \A n \in Nodes : Exists(n) => At(n).epoch <= epoch /\ (At(n).leased => At(n).slot # OnDevice)

PoolInv ==
  Typed /\ Below /\ LeasesApart /\ HeldForIt /\ HoldersRead /\ HoldersCame /\ Covered
  /\ RunsKept /\ NodesSound

-----------------------------------------------------------------------------
(* Nodes. *)

LEMMA NodeParts ==
  ASSUME NEW n \in Nodes
  PROVE  n[1] \in Graphs /\ n[2] \in 1..Layers /\ n = <<n[1], n[2]>> /\ n # Nobody
BY DEF Nodes, Nobody

LEMMA AtTyped ==
  ASSUME Typed, NEW n \in Nodes, Exists(n)
  PROVE  At(n) \in Node
<1>1. n[1] \in Graphs
  BY NodeParts
<1>2. ctx[n[1]] \in Seq(Node)
  BY <1>1 DEF Typed
<1> QED
  BY <1>2 DEF Exists, At

\* What a new node at the end of a graph changes.
LEMMA Added ==
  ASSUME Typed, NEW g \in Graphs, NEW node \in Node, AddNode(g, node),
         NEW new, new = <<g, Len(ctx[g]) + 1>>
  PROVE  /\ ctx' \in [Graphs -> Seq(Node)]
         /\ \A h \in Graphs : Len(ctx[h])' <= Layers
         /\ \A n \in Nodes : Exists(n) => Exists(n)' /\ At(n)' = At(n)
         /\ \A n \in Nodes : Exists(n)' /\ ~Exists(n) => n = new
         /\ new \in Nodes /\ Exists(new)' /\ ~Exists(new) /\ At(new)' = node
<1> PICK last : last = Len(ctx[g]) + 1
  OBVIOUS
<1>1. ctx[g] \in Seq(Node) /\ Len(ctx[g]) \in Nat /\ DOMAIN ctx[g] = 1..Len(ctx[g])
  BY DEF Typed
<1>2. ctx' = [ctx EXCEPT ![g] = Append(ctx[g], node)] /\ Len(ctx[g]) < Layers
  BY DEF AddNode
<1>3. /\ Append(ctx[g], node) \in Seq(Node)
      /\ Len(Append(ctx[g], node)) = last
      /\ DOMAIN Append(ctx[g], node) = 1..last
      /\ \A k \in 1..Len(ctx[g]) : Append(ctx[g], node)[k] = ctx[g][k]
      /\ Append(ctx[g], node)[last] = node
  BY <1>1
<1>4. /\ ctx'[g] = Append(ctx[g], node)
      /\ \A h \in Graphs : h # g => ctx'[h] = ctx[h]
  BY <1>2 DEF Typed
<1>5. ctx' \in [Graphs -> Seq(Node)]
  BY <1>2, <1>3 DEF Typed
<1>6. \A h \in Graphs : Len(ctx'[h]) <= Layers
  <2> TAKE h \in Graphs
  <2>1. CASE h = g
    BY <2>1, <1>1, <1>2, <1>3, <1>4, OffloadAssumption
  <2>2. CASE h # g
    BY <2>2, <1>4 DEF Typed
  <2> QED BY <2>1, <2>2
<1>7. ASSUME NEW n \in Nodes, Exists(n)
      PROVE  Exists(n)' /\ At(n)' = At(n)
  <2>1. n[1] \in Graphs
    BY NodeParts
  <2>2. CASE n[1] = g
    BY <2>2, <1>1, <1>3, <1>4, <1>7 DEF Exists, At
  <2>3. CASE n[1] # g
    BY <2>1, <2>3, <1>4, <1>7 DEF Exists, At
  <2> QED BY <2>2, <2>3
<1>8. ASSUME NEW n \in Nodes, Exists(n)', ~Exists(n)
      PROVE  n = new
  <2>1. n[1] \in Graphs /\ n[2] \in 1..Layers /\ n = <<n[1], n[2]>>
    BY NodeParts
  <2>2. n[1] = g
    BY <2>1, <1>4, <1>8 DEF Exists
  <2>3. n[2] \in 1..last /\ n[2] \notin 1..Len(ctx[g])
    BY <2>2, <1>1, <1>3, <1>4, <1>8 DEF Exists
  <2>4. n[2] = last
    BY <2>3, <1>1
  <2> QED BY <2>1, <2>2, <2>4
<1>9. new \in Nodes /\ Exists(new)' /\ ~Exists(new) /\ At(new)' = node
  <2>1. new[1] = g /\ new[2] = last /\ new = <<g, last>>
    OBVIOUS
  <2>2. last \in 1..Layers
    BY <1>1, <1>2, OffloadAssumption
  <2>3. new \in Nodes
    BY <2>1, <2>2 DEF Nodes
  <2>4. Exists(new)'
    BY <2>1, <1>1, <1>3, <1>4 DEF Exists
  <2>5. ~Exists(new)
    BY <2>1, <1>1 DEF Exists
  <2>6. At(new)' = node
    BY <2>1, <1>3, <1>4 DEF At
  <2> QED BY <2>3, <2>4, <2>5, <2>6
<1> QED
  BY <1>5, <1>6, <1>7, <1>8, <1>9

\* What the backward of a layer changes.
LEMMA Stepped ==
  ASSUME Typed, RunsKept, ~Idle, NextLayer,
         NEW now, now = <<running.graph, running.layer>>
  PROVE  /\ now \in Nodes /\ Exists(now) /\ At(now).kept
         /\ ctx' \in [Graphs -> Seq(Node)]
         /\ \A h \in Graphs : Len(ctx[h])' <= Layers
         /\ \A n \in Nodes : /\ Exists(n)' <=> Exists(n)
                             /\ Exists(n) => /\ (At(n)').epoch = At(n).epoch
                                             /\ (At(n)').slot = At(n).slot
                                             /\ (At(n)').device = At(n).device
                             /\ Exists(n) /\ n # now => At(n)' = At(n)
         /\ (At(now)').kept = running.retain /\ ~(At(now)').leased
<1> PICK g, l : g = running.graph /\ l = running.layer
  OBVIOUS
<1>1. /\ running # Nobody /\ g \in Graphs /\ l \in 1..Layers /\ running.retain \in BOOLEAN
      /\ l \in DOMAIN ctx[g] /\ \A k \in 1..l : ctx[g][k].kept
  BY DEF RunsKept, Idle
<1>2. ctx[g] \in Seq(Node) /\ Len(ctx[g]) \in Nat /\ DOMAIN ctx[g] = 1..Len(ctx[g])
  BY <1>1 DEF Typed
<1> PICK new : new = [ctx[g][l] EXCEPT !.kept = running.retain, !.leased = FALSE]
  OBVIOUS
<1>3. ctx[g][l] \in Node /\ new \in Node
  <2>1. ctx[g][l] \in Node
    BY <1>1, <1>2
  <2>2. ASSUME NEW r \in Node PROVE [r EXCEPT !.kept = running.retain, !.leased = FALSE] \in Node
    BY <1>1 DEF Node
  <2> QED BY <2>1, <2>2
<1>4. /\ new.epoch = ctx[g][l].epoch /\ new.slot = ctx[g][l].slot /\ new.device = ctx[g][l].device
      /\ new.kept = running.retain /\ ~new.leased
  BY <1>3 DEF Node
<1>5. ctx' = [ctx EXCEPT ![g] = [ctx[g] EXCEPT ![l] = new]]
  BY <1>1, <1>2 DEF NextLayer, Typed
<1>6. [ctx[g] EXCEPT ![l] = new] \in Seq(Node) /\ Len([ctx[g] EXCEPT ![l] = new]) = Len(ctx[g])
  BY <1>1, <1>2, <1>3
<1>7. /\ ctx'[g] = [ctx[g] EXCEPT ![l] = new]
      /\ \A h \in Graphs : h # g => ctx'[h] = ctx[h]
  BY <1>1, <1>5 DEF Typed
<1>8. ctx' \in [Graphs -> Seq(Node)]
  BY <1>1, <1>5, <1>6 DEF Typed
<1>9. \A h \in Graphs : Len(ctx'[h]) <= Layers
  <2> TAKE h \in Graphs
  <2>1. CASE h = g
    BY <2>1, <1>6, <1>7 DEF Typed
  <2>2. CASE h # g
    BY <2>2, <1>7 DEF Typed
  <2> QED BY <2>1, <2>2
<1>10. now \in Nodes /\ now[1] = g /\ now[2] = l
  BY <1>1 DEF Nodes
<1>11. Exists(now) /\ At(now) = ctx[g][l] /\ At(now)' = new
  BY <1>1, <1>2, <1>7, <1>10 DEF Exists, At
<1>12. ASSUME NEW n \in Nodes
       PROVE  /\ Exists(n)' <=> Exists(n)
              /\ Exists(n) /\ n # now => At(n)' = At(n)
  <2>1. n[1] \in Graphs /\ n = <<n[1], n[2]>>
    BY NodeParts
  <2>2. CASE n[1] # g
    BY <2>1, <2>2, <1>7 DEF Exists, At
  <2>3. CASE n[1] = g
    <3>1. Exists(n)' <=> Exists(n)
      BY <2>3, <1>2, <1>7 DEF Exists
    <3>2. ASSUME Exists(n), n # now PROVE At(n)' = At(n)
      <4>1. n[2] # l
        BY <2>1, <2>3, <3>2
      <4> QED BY <2>3, <3>2, <4>1, <1>2, <1>7 DEF Exists, At
    <3> QED BY <3>1, <3>2
  <2> QED BY <2>2, <2>3
<1>13. \A n \in Nodes : Exists(n) => /\ (At(n)').epoch = At(n).epoch /\ (At(n)').slot = At(n).slot
                                     /\ (At(n)').device = At(n).device
  BY <1>4, <1>11, <1>12
<1>14. At(now).kept
  BY <1>1, <1>11
<1> QED
  BY <1>4, <1>8, <1>9, <1>10, <1>11, <1>12, <1>13, <1>14

-----------------------------------------------------------------------------
(* What preserves the invariant. *)

\* Steps that leave the pool and the nodes alone.
LEMMA Elsewhere ==
  ASSUME PoolInv, UNCHANGED <<free, retained, top, epoch, holder, generation, nextBuffer, ctx>>,
         \/ UNCHANGED <<stage, running>>
         \/ \E g \in Graphs : stage[g] = "forward" /\ ctx[g] # <<>> /\ stage' = [stage EXCEPT ![g] = "ready"]
                              /\ UNCHANGED running /\ Idle
  PROVE  PoolInv'
<1>1. Typed'
  BY DEF PoolInv, Typed
<1>2. \A n : /\ Exists(n)' <=> Exists(n)
             /\ At(n)' = At(n)
             /\ Ours(n)' <=> Ours(n)
             /\ GraphRetained(n)' <=> GraphRetained(n)
  BY DEF Exists, At, Ours, GraphRetained
<1>3. Below' /\ LeasesApart' /\ HeldForIt'
  BY <1>2 DEF PoolInv, Below, LeasesApart, HeldForIt, Unleased
<1>4. HoldersRead' /\ Covered' /\ NodesSound'
  BY <1>2 DEF PoolInv, HoldersRead, Covered, NodesSound, Unleased
<1>5. \A g \in Graphs : /\ stage'[g] = "gone" <=> stage[g] = "gone"
                        /\ stage'[g] = "ready" => stage[g] = "ready" \/ ctx[g] # <<>>
  BY DEF PoolInv, Typed
<1>6. HoldersCame'
  <2>1. \A s \in Slots : holder[s] # Nobody => holder[s][1] \in Graphs
    BY NodeParts DEF PoolInv, Typed
  <2> QED BY <2>1, <1>2, <1>5 DEF PoolInv, HoldersCame
<1>7. RunsKept'
  BY DEF PoolInv, RunsKept, Idle
<1> QED
  BY <1>1, <1>3, <1>4, <1>6, <1>7 DEF PoolInv

LEMMA Retained ==
  ASSUME NEW n \in Nodes \cup {Nobody}
  PROVE  GraphRetained(n) <=> n \in Nodes /\ Exists(n) /\ At(n).kept
BY NodeParts DEF GraphRetained, Exists, At

LEMMA RetainedNext ==
  ASSUME NEW n \in Nodes \cup {Nobody}
  PROVE  GraphRetained(n)' <=> n \in Nodes /\ Exists(n)' /\ (At(n)').kept
BY NodeParts DEF GraphRetained, Exists, At

\* A node that is added is nobody's holder.
LEMMA NotYetHolder ==
  ASSUME PoolInv, NEW g \in Graphs, NEW node \in Node, AddNode(g, node), stage[g] = "forward",
         NEW s \in Slots
  PROVE  /\ holder[s] # <<g, Len(ctx[g]) + 1>>
         /\ \A n \in Nodes \cup {Nobody} : n = holder[s] => (GraphRetained(n)' <=> GraphRetained(n))
<1> PICK new : new = <<g, Len(ctx[g]) + 1>>
  OBVIOUS
<1>1. /\ \A n \in Nodes : Exists(n) => Exists(n)' /\ At(n)' = At(n)
      /\ \A n \in Nodes : Exists(n)' /\ ~Exists(n) => n = new
      /\ new \in Nodes /\ ~Exists(new)
  BY Added DEF PoolInv
<1>2. holder[s] \in Nodes \cup {Nobody}
  BY DEF PoolInv, Typed
<1>3. holder[s] # new
  <2>1. new[1] = g /\ new # Nobody
    BY <1>1, NodeParts
  <2> QED BY <2>1, <1>1 DEF PoolInv, HoldersCame
<1>4. ASSUME NEW n \in Nodes \cup {Nobody}, n = holder[s]
      PROVE  GraphRetained(n)' <=> GraphRetained(n)
  <2>1. n \in Nodes => (Exists(n)' <=> Exists(n)) /\ (Exists(n) => At(n)' = At(n))
    BY <1>1, <1>3, <1>4
  <2> QED BY <2>1, Retained, RetainedNext
<1> QED
  BY <1>3, <1>4

LEMMA ForwardKeptSafe ==
  ASSUME PoolInv, NEW g \in Graphs, NEW d \in Devices, ForwardKept(g, d)
  PROVE  PoolInv'
<1> PICK node : node = [device |-> d, slot |-> OnDevice, buffer |-> 0, generation |-> generation,
                        epoch |-> epoch, leased |-> FALSE, kept |-> TRUE]
  OBVIOUS
<1> PICK new : new = <<g, Len(ctx[g]) + 1>>
  OBVIOUS
<1>1. node \in Node /\ node.slot = OnDevice /\ node.epoch = epoch /\ ~node.leased
  BY DEF Node, PoolInv, Typed, Buffers
<1>2. /\ AddNode(g, node) /\ stage[g] = "forward" /\ Idle
      /\ UNCHANGED <<free, top, epoch, holder, retained, nextBuffer, generation, stage, running>>
  BY DEF ForwardKept, AddNode, poolVars, bufVars, preVars
<1>3. /\ ctx' \in [Graphs -> Seq(Node)] /\ \A h \in Graphs : Len(ctx[h])' <= Layers
      /\ \A n \in Nodes : Exists(n) => Exists(n)' /\ At(n)' = At(n)
      /\ \A n \in Nodes : Exists(n)' /\ ~Exists(n) => n = new
      /\ At(new)' = node
  BY <1>1, <1>2, Added DEF PoolInv
<1>4. Typed'
  BY <1>2, <1>3 DEF PoolInv, Typed
<1>5. \A n \in Nodes : /\ Ours(n)' <=> Ours(n)
                       /\ Ours(n) => At(n)' = At(n)
  BY <1>1, <1>2, <1>3 DEF Ours
<1>6. Below' /\ LeasesApart' /\ HeldForIt'
  BY <1>2, <1>5 DEF PoolInv, Below, LeasesApart, HeldForIt, Unleased
<1>7. HoldersRead'
  <2> SUFFICES ASSUME NEW s \in Unleased', GraphRetained(holder[s])'
               PROVE  Ours(holder[s])' /\ At(holder[s])'.slot = s
    BY DEF HoldersRead
  <2>1. s \in Unleased /\ s \in Slots
    BY <1>2 DEF PoolInv, Typed, Unleased
  <2> PICK n : n = holder[s]
    OBVIOUS
  <2>2. n \in Nodes \cup {Nobody} /\ n = holder'[s]
    BY <2>1, <1>2 DEF PoolInv, Typed
  <2>3. GraphRetained(n)'
    BY <2>2
  <2>4. GraphRetained(n)
    BY <2>1, <2>2, <2>3, <1>1, <1>2, NotYetHolder
  <2>5. n \in Nodes /\ Ours(n) /\ At(n).slot = s
    BY <2>1, <2>2, <2>4, Retained DEF PoolInv, HoldersRead
  <2>6. Ours(n)' /\ (At(n)').slot = s
    BY <2>5, <1>5
  <2> QED BY <2>2, <2>6
<1>8. HoldersCame'
  <2>1. ASSUME NEW s \in Slots, holder[s] # Nobody
        PROVE  Exists(holder[s])' \/ stage[holder[s][1]] = "gone"
    <3> PICK n : n = holder[s]
      OBVIOUS
    <3>1. n \in Nodes /\ n = holder'[s]
      BY <2>1, <1>2 DEF PoolInv, Typed
    <3>2. Exists(n) \/ stage[n[1]] = "gone"
      BY <2>1 DEF PoolInv, HoldersCame
    <3>3. Exists(n)' \/ stage[n[1]] = "gone"
      BY <3>1, <3>2, <1>3
    <3> QED BY <3>1, <3>3
  <2>2. \A h \in Graphs : h # g => ctx'[h] = ctx[h]
    BY <1>2 DEF AddNode, PoolInv, Typed
  <2>3. ASSUME NEW h \in Graphs
        PROVE  /\ stage[h] = "gone" => ctx'[h] = <<>>
               /\ stage[h] = "ready" => ctx'[h] # <<>>
    <3>1. CASE h = g
      BY <3>1, <1>2
    <3>2. CASE h # g
      <4>1. ctx'[h] = ctx[h]
        BY <3>2, <2>2
      <4> QED BY <4>1 DEF PoolInv, HoldersCame
    <3> QED BY <3>1, <3>2
  <2> QED BY <2>1, <2>3, <1>2 DEF HoldersCame
<1>9. Covered' /\ NodesSound'
  <2>1. Covered'
    BY <1>2, <1>5 DEF PoolInv, Covered, Unleased
  <2>2. ASSUME NEW n \in Nodes, Exists(n)'
        PROVE  (At(n)').epoch <= epoch /\ ((At(n)').leased => (At(n)').slot # OnDevice)
    <3>1. CASE Exists(n)
      BY <3>1, <1>3 DEF PoolInv, NodesSound
    <3>2. CASE ~Exists(n)
      <4>1. n = new /\ (At(new)').epoch = epoch /\ ~(At(new)').leased
        BY <2>2, <3>2, <1>1, <1>3
      <4>2. (At(n)').epoch = epoch /\ ~(At(n)').leased
        BY <4>1
      <4> QED BY <4>2 DEF PoolInv, Typed
    <3> QED BY <3>1, <3>2
  <2> QED BY <2>1, <2>2, <1>2 DEF NodesSound
<1>10. RunsKept'
  BY <1>2 DEF RunsKept, Idle
<1> QED
  BY <1>4, <1>6, <1>7, <1>8, <1>9, <1>10 DEF PoolInv

\* What a lease does to the pool: the slot leaves it, and no node reads it.
LEMMA Leasing ==
  ASSUME PoolInv, NEW s \in Slots, Lease(s)
  PROVE  /\ free' \subseteq Slots /\ retained' \subseteq Slots
         /\ holder' \in [Slots -> Nodes \cup {Nobody}]
         /\ top' \in 0..MaxSlots /\ top <= top' /\ s < top'
         /\ \A t \in 0..(top' - 1) : t < top \/ t = s
         /\ Unleased' = Unleased \ {s} /\ free' \cap retained' = {}
         /\ \A n \in Nodes : Ours(n) /\ At(n).slot = s => ~At(n).kept
         /\ \A t \in Slots : t # s /\ GraphRetained(holder[t]) => holder'[t] = holder[t]
         /\ \A t \in Slots : holder'[t] = holder[t] \/ holder'[t] = Nobody
<1>1. /\ free \subseteq Slots /\ retained \subseteq Slots /\ top \in 0..MaxSlots
      /\ holder \in [Slots -> Nodes \cup {Nobody}]
      /\ free \cap retained = {} /\ \A t \in Unleased : t < top
      /\ Slots = 0..(MaxSlots - 1) /\ MaxSlots \in Nat
  BY OffloadAssumption DEF PoolInv, Typed, Below, Slots
<1>2. /\ Reclaimed \subseteq retained
      /\ \A t \in Reclaimed : ~GraphRetained(holder[t])
  BY DEF Reclaimed
<1>3. Skipped(s) \subseteq free /\ s \notin Skipped(s)
  BY <1>1 DEF Skipped, Slots
<1>4. /\ free' = (free \cup Reclaimed) \ (Skipped(s) \cup {s})
      /\ retained' = (retained \ Reclaimed) \cup Skipped(s)
      /\ holder' = [t \in Slots |-> IF t \in Reclaimed \cup {s} THEN Nobody ELSE holder[t]]
      /\ top' = IF Usable = {} THEN top + 1 ELSE top
  BY DEF Lease
<1>5. \/ s \in Usable /\ top' = top
      \/ s = top /\ Usable = {} /\ top' = top + 1
  BY <1>4 DEF Lease, Leasable
<1>6. s \in Usable => s \in Unleased /\ s \notin retained \ Reclaimed /\ ~GraphRetained(holder[s])
  BY <1>1, <1>2 DEF Usable, StillHeld, Unleased
<1>7. s = top => s \notin Unleased
  BY <1>1
<1>8. top' \in 0..MaxSlots /\ top <= top' /\ s < top' /\ \A t \in 0..(top' - 1) : t < top \/ t = s
  <2>1. CASE s \in Usable /\ top' = top
    BY <2>1, <1>1, <1>6
  <2>2. CASE s = top /\ Usable = {} /\ top' = top + 1
    BY <2>2, <1>1
  <2> QED BY <2>1, <2>2, <1>5
<1>9. Unleased' = Unleased \ {s} /\ free' \cap retained' = {}
  <2>1. s \notin retained \ Reclaimed
    BY <1>5, <1>6, <1>7 DEF Unleased
  <2>2. Unleased' = free' \cup retained'
    BY DEF Unleased
  <2> QED BY <2>1, <2>2, <1>1, <1>2, <1>3, <1>4 DEF Unleased
<1>10. free' \subseteq Slots /\ retained' \subseteq Slots /\ holder' \in [Slots -> Nodes \cup {Nobody}]
  BY <1>1, <1>2, <1>3, <1>4
<1>11. ASSUME NEW n \in Nodes, Ours(n), At(n).slot = s
       PROVE  ~At(n).kept
  <2> SUFFICES ASSUME At(n).kept PROVE FALSE
    OBVIOUS
  <2>1. CASE At(n).leased
    <3>1. s < top /\ s \notin Unleased
      BY <2>1, <1>11 DEF PoolInv, LeasesApart
    <3> QED BY <3>1, <1>1, <1>5, <1>6
  <2>2. CASE ~At(n).leased
    <3>1. s \in Unleased /\ holder[s] = n
      BY <2>2, <1>11 DEF PoolInv, HeldForIt
    <3>2. GraphRetained(n)
      BY <1>11, Retained DEF Ours
    <3> QED BY <3>1, <3>2, <1>5, <1>6, <1>7
  <2> QED BY <2>1, <2>2
<1>12. \A t \in Slots : t # s /\ GraphRetained(holder[t]) => holder'[t] = holder[t]
  BY <1>2, <1>4
<1>13. \A t \in Slots : holder'[t] = holder[t] \/ holder'[t] = Nobody
  BY <1>4
<1> QED
  BY <1>8, <1>9, <1>10, <1>11, <1>12, <1>13

LEMMA ForwardOffloadedSafe ==
  ASSUME PoolInv, NEW g \in Graphs, NEW d \in Devices, NEW s \in Slots, ForwardOffloaded(g, d, s)
  PROVE  PoolInv'
<1> PICK node : node = [device |-> d, slot |-> s, buffer |-> nextBuffer[d], generation |-> generation',
                        epoch |-> epoch, leased |-> TRUE, kept |-> TRUE]
  OBVIOUS
<1> PICK new : new = <<g, Len(ctx[g]) + 1>>
  OBVIOUS
<1>1. /\ AddNode(g, node) /\ stage[g] = "forward" /\ Idle /\ Lease(s)
      /\ UNCHANGED <<epoch, stage, running>>
      /\ generation' = IF backwardPass THEN generation + 1 ELSE generation
      /\ nextBuffer' = [nextBuffer EXCEPT ![d] = 1 - @]
  BY DEF ForwardOffloaded, AddNode, Lease
<1>2. generation' \in Nat /\ nextBuffer' \in [Devices -> Buffers]
  BY <1>1 DEF PoolInv, Typed, Buffers
<1>3. node \in Node /\ node.slot = s /\ node.epoch = epoch /\ node.leased /\ node.kept
  BY <1>2 DEF Node, PoolInv, Typed, Buffers
<1>4. /\ ctx' \in [Graphs -> Seq(Node)] /\ \A h \in Graphs : Len(ctx[h])' <= Layers
      /\ \A n \in Nodes : Exists(n) => Exists(n)' /\ At(n)' = At(n)
      /\ \A n \in Nodes : Exists(n)' /\ ~Exists(n) => n = new
      /\ new \in Nodes /\ ~Exists(new) /\ Exists(new)' /\ At(new)' = node
  BY <1>1, <1>3, Added DEF PoolInv
<1>5. /\ free' \subseteq Slots /\ retained' \subseteq Slots
      /\ holder' \in [Slots -> Nodes \cup {Nobody}]
      /\ top' \in 0..MaxSlots /\ top <= top' /\ s < top'
      /\ \A t \in 0..(top' - 1) : t < top \/ t = s
      /\ Unleased' = Unleased \ {s} /\ free' \cap retained' = {}
      /\ \A n \in Nodes : Ours(n) /\ At(n).slot = s => ~At(n).kept
      /\ \A t \in Slots : t # s /\ GraphRetained(holder[t]) => holder'[t] = holder[t]
      /\ \A t \in Slots : holder'[t] = holder[t] \/ holder'[t] = Nobody
  BY <1>1, Leasing
<1>6. Typed'
  BY <1>1, <1>2, <1>4, <1>5 DEF PoolInv, Typed
<1>7. \A n \in Nodes : /\ n # new => (Ours(n)' <=> Ours(n)) /\ (Ours(n) => At(n)' = At(n))
                       /\ Ours(n) => Ours(n)'
  BY <1>1, <1>4 DEF Ours
<1>8. Ours(new)' /\ (At(new)').slot = s /\ (At(new)').leased /\ (At(new)').kept
  BY <1>1, <1>3, <1>4 DEF Ours, Slots, OnDevice
<1>9. top \in Nat /\ top' \in Nat /\ Slots \subseteq Nat
  BY <1>5 DEF PoolInv, Typed, Slots
<1>10. Below'
  <2>1. \A t \in Unleased' : t < top'
    BY <1>5, <1>9 DEF PoolInv, Below, Typed, Unleased
  <2> QED BY <2>1, <1>5 DEF Below
<1>11. LeasesApart'
  <2>1. ASSUME NEW n \in Nodes, Ours(n)', (At(n)').leased
        PROVE  (At(n)').kept /\ (At(n)').slot < top' /\ (At(n)').slot \notin Unleased'
    <3>1. CASE n = new
      BY <3>1, <1>5, <1>8
    <3>2. CASE n # new
      <4>1. Ours(n) /\ At(n)' = At(n)
        BY <2>1, <3>2, <1>7
      <4>2. At(n) \in Node
        BY <4>1, AtTyped DEF PoolInv, Ours
      <4>3. At(n).slot \in Nat
        BY <4>1, <4>2, <1>9 DEF Node, Ours
      <4> QED BY <2>1, <4>1, <4>3, <1>5, <1>9 DEF PoolInv, LeasesApart
    <3> QED BY <3>1, <3>2
  <2>2. ASSUME NEW m \in Nodes, NEW n \in Nodes, Ours(m)', Ours(n)', (At(m)').leased,
               (At(n)').leased, (At(m)').slot = (At(n)').slot
        PROVE  m = n
    <3>1. ASSUME NEW k \in Nodes, k # new, Ours(k)', (At(k)').leased
          PROVE  (At(k)').slot # s
      <4>1. Ours(k) /\ At(k)' = At(k)
        BY <3>1, <1>7
      <4> QED BY <3>1, <4>1, <1>5 DEF PoolInv, LeasesApart
    <3>2. CASE m # new /\ n # new
      BY <2>2, <3>2, <1>7 DEF PoolInv, LeasesApart
    <3> QED BY <2>2, <3>1, <3>2, <1>8
  <2> QED BY <2>1, <2>2 DEF LeasesApart
<1>12. HeldForIt'
  <2> SUFFICES ASSUME NEW n \in Nodes, Ours(n)', (At(n)').kept, ~(At(n)').leased
               PROVE  (At(n)').slot \in Unleased' /\ holder'[(At(n)').slot] = n
    BY DEF HeldForIt
  <2>1. n # new
    BY <1>8
  <2>2. Ours(n) /\ At(n)' = At(n)
    BY <2>1, <1>7
  <2> PICK t : t = At(n).slot
    OBVIOUS
  <2>3. t \in Unleased /\ holder[t] = n /\ t \in Slots
    BY <2>2 DEF PoolInv, HeldForIt, Typed, Unleased
  <2>4. t # s
    BY <2>2, <1>5
  <2>5. GraphRetained(n)
    BY <2>2, Retained DEF Ours
  <2> QED BY <2>2, <2>3, <2>4, <2>5, <1>5
<1>13. HoldersRead'
  <2> SUFFICES ASSUME NEW t \in Unleased', GraphRetained(holder[t])'
               PROVE  Ours(holder[t])' /\ At(holder[t])'.slot = t
    BY DEF HoldersRead
  <2>1. t \in Unleased /\ t \in Slots /\ t # s
    BY <1>5 DEF PoolInv, Typed, Unleased
  <2> PICK n : n = holder'[t]
    OBVIOUS
  <2>2. n \in Nodes \cup {Nobody}
    BY <2>1, <1>5
  <2>3. GraphRetained(n)'
    OBVIOUS
  <2>4. n \in Nodes /\ n = holder[t]
    BY <2>1, <2>2, <2>3, <1>5, RetainedNext, NodeParts
  <2>5. GraphRetained(n)
    BY <2>1, <2>3, <2>4, <1>1, <1>3, NotYetHolder
  <2>6. Ours(n) /\ At(n).slot = t
    BY <2>1, <2>4, <2>5 DEF PoolInv, HoldersRead
  <2>7. Ours(n)' /\ (At(n)').slot = t
    BY <2>4, <2>6, <1>4, <1>7 DEF Ours
  <2> QED BY <2>7
<1>14. HoldersCame'
  <2>1. ASSUME NEW t \in Slots, holder'[t] # Nobody
        PROVE  Exists(holder[t])' \/ stage[holder'[t][1]] = "gone"
    <3> PICK n : n = holder'[t]
      OBVIOUS
    <3>1. n \in Nodes /\ n = holder[t]
      BY <2>1, <1>5
    <3>2. Exists(n) \/ stage[n[1]] = "gone"
      BY <2>1, <3>1 DEF PoolInv, HoldersCame
    <3>3. Exists(n)' \/ stage[n[1]] = "gone"
      BY <3>1, <3>2, <1>4
    <3> QED BY <3>3
  <2>2. \A h \in Graphs : h # g => ctx'[h] = ctx[h]
    BY <1>1 DEF AddNode, PoolInv, Typed
  <2>3. ASSUME NEW h \in Graphs
        PROVE  /\ stage[h] = "gone" => ctx'[h] = <<>>
               /\ stage[h] = "ready" => ctx'[h] # <<>>
    <3>1. CASE h = g
      BY <3>1, <1>1
    <3>2. CASE h # g
      <4>1. ctx'[h] = ctx[h]
        BY <3>2, <2>2
      <4> QED BY <4>1 DEF PoolInv, HoldersCame
    <3> QED BY <3>1, <3>2
  <2> QED BY <2>1, <2>3, <1>1 DEF HoldersCame
<1>15. Covered'
  <2> SUFFICES ASSUME NEW t \in 0..(top' - 1), t \notin Unleased'
               PROVE  \E n \in Nodes : Ours(n)' /\ (At(n)').leased /\ (At(n)').slot = t
    BY DEF Covered
  <2>1. CASE t = s
    BY <2>1, <1>4, <1>8
  <2>2. CASE t # s
    <3>1. t \notin Unleased
      BY <2>2, <1>5
    <3>2. t < top
      BY <2>2, <1>5
    <3>3. t \in 0..(top - 1)
      BY <3>2, <1>9
    <3>4. PICK n \in Nodes : Ours(n) /\ At(n).leased /\ At(n).slot = t
      BY <3>1, <3>3 DEF PoolInv, Covered
    <3> QED BY <3>4, <1>4, <1>7 DEF Ours
  <2> QED BY <2>1, <2>2
<1>16. NodesSound'
  <2>1. ASSUME NEW n \in Nodes, Exists(n)'
        PROVE  (At(n)').epoch <= epoch /\ ((At(n)').leased => (At(n)').slot # OnDevice)
    <3>1. CASE Exists(n)
      BY <3>1, <1>4 DEF PoolInv, NodesSound
    <3>2. CASE ~Exists(n)
      <4>1. n = new /\ (At(new)').epoch = epoch /\ (At(new)').slot = s
        BY <2>1, <3>2, <1>3, <1>4
      <4>2. (At(n)').epoch = epoch /\ (At(n)').slot = s /\ s # OnDevice
        BY <4>1 DEF Slots, OnDevice
      <4> QED BY <4>2 DEF PoolInv, Typed
    <3> QED BY <3>1, <3>2
  <2> QED BY <2>1, <1>1 DEF NodesSound
<1>17. RunsKept'
  BY <1>1 DEF RunsKept, Idle
<1> QED
  BY <1>6, <1>10, <1>11, <1>12, <1>13, <1>14, <1>15, <1>16, <1>17 DEF PoolInv

\* What a layer's backward leaves to prove of the other nodes' control: the
\* holders, the rest of the backward, the nodes.
LEMMA SteppedRest ==
  ASSUME PoolInv, ~Idle, NextLayer, UNCHANGED epoch,
         NEW now, now = <<running.graph, running.layer>>,
         \A s \in Slots : holder'[s] \in {holder[s], now}
  PROVE  HoldersCame' /\ RunsKept' /\ NodesSound'
<1>1. /\ now \in Nodes /\ Exists(now)
      /\ \A n \in Nodes : /\ Exists(n)' <=> Exists(n)
                          /\ Exists(n) => /\ (At(n)').epoch = At(n).epoch
                                          /\ (At(n)').slot = At(n).slot
                          /\ Exists(n) /\ n # now => At(n)' = At(n)
      /\ ~(At(now)').leased
  BY Stepped DEF PoolInv
<1> PICK g, l : g = running.graph /\ l = running.layer
  OBVIOUS
<1>2. /\ g \in Graphs /\ l \in 1..Layers /\ running.retain \in BOOLEAN /\ l \in DOMAIN ctx[g]
      /\ stage[g] = "ready" /\ \A k \in DOMAIN ctx[g] : ctx[g][k].epoch = epoch
      /\ \A k \in 1..l : ctx[g][k].kept
      /\ running \in [graph : Graphs, layer : 1..Layers, retain : BOOLEAN]
  BY DEF PoolInv, RunsKept, Idle
<1>3. stage' = stage /\ \A h \in Graphs : h # g => ctx'[h] = ctx[h]
  BY DEF NextLayer, PoolInv, Typed
<1>4. HoldersCame'
  <2>1. ASSUME NEW s \in Slots, holder'[s] # Nobody
        PROVE  Exists(holder[s])' \/ stage[holder'[s][1]] = "gone"
    <3> PICK n : n = holder'[s]
      OBVIOUS
    <3>1. CASE n = now
      <4>1. Exists(n)'
        BY <3>1, <1>1
      <4> QED BY <4>1
    <3>2. CASE n # now
      <4>1. n = holder[s]
        BY <3>2
      <4>2. n \in Nodes
        BY <2>1, <4>1 DEF PoolInv, Typed
      <4>3. Exists(n) \/ stage[n[1]] = "gone"
        BY <2>1, <4>1 DEF PoolInv, HoldersCame
      <4>4. Exists(n)' \/ stage[n[1]] = "gone"
        BY <4>2, <4>3, <1>1
      <4> QED BY <4>4
    <3> QED BY <3>1, <3>2
  <2>2. ctx'[g] # <<>>
    BY <1>1 DEF Exists
  <2>3. ASSUME NEW h \in Graphs
        PROVE  /\ stage[h] = "gone" => ctx'[h] = <<>>
               /\ stage[h] = "ready" => ctx'[h] # <<>>
    <3>1. CASE h = g
      BY <3>1, <2>2, <1>2
    <3>2. CASE h # g
      <4>1. ctx'[h] = ctx[h]
        BY <3>2, <1>3
      <4> QED BY <4>1 DEF PoolInv, HoldersCame
    <3> QED BY <3>1, <3>2
  <2> QED BY <2>1, <2>3, <1>3 DEF HoldersCame
<1>5. RunsKept'
  <2> SUFFICES ASSUME running' # Nobody
               PROVE  /\ running' \in [graph : Graphs, layer : 1..Layers, retain : BOOLEAN]
                      /\ running'.layer \in DOMAIN ctx'[running'.graph]
                      /\ stage'[running'.graph] = "ready"
                      /\ \A k \in DOMAIN ctx'[running'.graph] : ctx'[running'.graph][k].epoch = epoch'
                      /\ \A k \in 1..running'.layer : ctx'[running'.graph][k].kept
    BY DEF RunsKept
  <2>1. l # 1 /\ running' = [running EXCEPT !.layer = l - 1]
    BY DEF NextLayer
  <2>2. l - 1 \in 1..Layers
    BY <2>1, <1>2, OffloadAssumption
  <2>3. /\ running' \in [graph : Graphs, layer : 1..Layers, retain : BOOLEAN]
        /\ running'.graph = g /\ running'.layer = l - 1
    BY <2>1, <2>2, <1>2
  <2>4. DOMAIN ctx[g] = 1..Len(ctx[g]) /\ Len(ctx[g]) \in Nat /\ Len(ctx[g]) <= Layers
    BY <1>2 DEF PoolInv, Typed
  <2>5. ASSUME NEW k \in 1..Layers
        PROVE  /\ k \in DOMAIN ctx'[g] <=> k \in DOMAIN ctx[g]
               /\ k \in DOMAIN ctx[g] => ctx'[g][k].epoch = ctx[g][k].epoch
               /\ k \in DOMAIN ctx[g] /\ k # l => ctx'[g][k] = ctx[g][k]
    <3> PICK n : n = <<g, k>>
      OBVIOUS
    <3>1. n \in Nodes /\ n[1] = g /\ n[2] = k
      BY <1>2 DEF Nodes
    <3>2. (Exists(n)' <=> Exists(n)) /\ (Exists(n) => (At(n)').epoch = At(n).epoch)
      BY <3>1, <1>1
    <3>3. Exists(n) /\ k # l => At(n)' = At(n)
      BY <3>1, <1>1
    <3> QED BY <3>1, <3>2, <3>3 DEF Exists, At
  <2>6. ctx' \in [Graphs -> Seq(Node)] /\ Len(ctx'[g]) <= Layers
    BY <1>2, Stepped DEF PoolInv
  <2>7. DOMAIN ctx'[g] = 1..Len(ctx'[g]) /\ Len(ctx'[g]) \in Nat
    BY <2>6, <1>2
  <2>8. DOMAIN ctx'[g] \subseteq 1..Layers
    BY <2>6, <2>7, OffloadAssumption
  <2>9. \A k \in DOMAIN ctx'[g] : ctx'[g][k].epoch = epoch
    BY <2>5, <2>8, <1>2
  <2>10. l - 1 \in DOMAIN ctx[g]
    BY <2>2, <2>4, <1>2, OffloadAssumption
  <2>11. \A k \in 1..(l - 1) : k \in 1..Layers /\ k \in DOMAIN ctx[g] /\ k # l /\ k \in 1..l
    BY <2>2, <2>4, <2>10, <1>2, OffloadAssumption
  <2>12. \A k \in 1..(l - 1) : ctx'[g][k].kept
    BY <2>5, <2>11, <1>2
  <2>13. l - 1 \in DOMAIN ctx'[g]
    BY <2>2, <2>5, <2>10
  <2> QED BY <2>3, <2>9, <2>12, <2>13, <1>2, <1>3
<1>6. NodesSound'
  <2> SUFFICES ASSUME NEW n \in Nodes, Exists(n)'
               PROVE  (At(n)').epoch <= epoch /\ ((At(n)').leased => (At(n)').slot # OnDevice)
    BY DEF NodesSound
  <2>1. CASE n = now
    <3>1. (At(n)').epoch = At(n).epoch /\ ~(At(n)').leased
      BY <2>1, <1>1
    <3> QED BY <2>1, <3>1, <1>1 DEF PoolInv, NodesSound
  <2>2. CASE n # now
    <3>1. Exists(n) /\ At(n)' = At(n)
      BY <2>2, <1>1
    <3> QED BY <3>1 DEF PoolInv, NodesSound
  <2> QED BY <2>1, <2>2
<1> QED
  BY <1>4, <1>5, <1>6

LEMMA BackwardKeptSafe ==
  ASSUME PoolInv, BackwardKept
  PROVE  PoolInv'
<1> PICK now : now = <<running.graph, running.layer>>
  OBVIOUS
<1>1. /\ ~Idle /\ NextLayer /\ UNCHANGED <<free, top, epoch, holder, retained, nextBuffer, generation>>
      /\ At(now).slot = OnDevice
  BY DEF BackwardKept, poolVars, bufVars, preVars, Offloaded, At
<1>2. /\ now \in Nodes /\ Exists(now) /\ At(now).kept
      /\ ctx' \in [Graphs -> Seq(Node)] /\ \A h \in Graphs : Len(ctx[h])' <= Layers
      /\ \A n \in Nodes : /\ Exists(n)' <=> Exists(n)
                          /\ Exists(n) => /\ (At(n)').epoch = At(n).epoch
                                          /\ (At(n)').slot = At(n).slot
                          /\ Exists(n) /\ n # now => At(n)' = At(n)
  BY <1>1, Stepped DEF PoolInv
<1>3. Typed'
  BY <1>1, <1>2 DEF PoolInv, Typed, NextLayer
<1>4. \A n \in Nodes : /\ Ours(n)' <=> Ours(n)
                       /\ Ours(n) => At(n)' = At(n)
                       /\ GraphRetained(n)' => GraphRetained(n)
  <2> TAKE n \in Nodes
  <2>1. CASE n = now
    <3>1. ~Ours(n)
      BY <2>1, <1>1 DEF Ours
    <3>2. ~Ours(n)'
      <4>1. (At(n)').slot = OnDevice
        BY <2>1, <1>1, <1>2
      <4> QED BY <4>1 DEF Ours
    <3>3. GraphRetained(n)
      BY <2>1, <1>2, Retained
    <3> QED BY <3>1, <3>2, <3>3
  <2>2. CASE n # now
    <3>1. (Exists(n)' <=> Exists(n)) /\ (Exists(n) => At(n)' = At(n))
      BY <2>2, <1>2
    <3> QED BY <3>1, <1>1, Retained, RetainedNext DEF Ours
  <2> QED BY <2>1, <2>2
<1>5. Below' /\ LeasesApart' /\ HeldForIt' /\ Covered'
  BY <1>1, <1>4 DEF PoolInv, Below, LeasesApart, HeldForIt, Covered, Unleased
<1>6. HoldersRead'
  <2> SUFFICES ASSUME NEW t \in Unleased', GraphRetained(holder[t])'
               PROVE  Ours(holder[t])' /\ At(holder[t])'.slot = t
    BY DEF HoldersRead
  <2>1. t \in Unleased /\ t \in Slots
    BY <1>1 DEF PoolInv, Typed, Unleased
  <2> PICK n : n = holder[t]
    OBVIOUS
  <2>2. n \in Nodes \cup {Nobody} /\ n = holder'[t]
    BY <2>1, <1>1 DEF PoolInv, Typed
  <2>3. GraphRetained(n)'
    BY <2>2
  <2>4. n \in Nodes /\ GraphRetained(n)
    BY <2>2, <2>3, <1>4, RetainedNext
  <2>5. Ours(n) /\ At(n).slot = t
    BY <2>1, <2>4 DEF PoolInv, HoldersRead
  <2>6. Ours(n)' /\ (At(n)').slot = t
    BY <2>4, <2>5, <1>4
  <2> QED BY <2>2, <2>6
<1>7. HoldersCame' /\ RunsKept' /\ NodesSound'
  BY <1>1, SteppedRest
<1> QED
  BY <1>3, <1>5, <1>6, <1>7 DEF PoolInv

LEMMA BackwardOffloadedSafe ==
  ASSUME PoolInv, BackwardOffloaded
  PROVE  PoolInv'
<1> PICK now : now = <<running.graph, running.layer>>
  OBVIOUS
<1> PICK g, l, s : g = running.graph /\ l = running.layer /\ s = At(now).slot
  OBVIOUS
<1>1. /\ ~Idle /\ NextLayer /\ UNCHANGED <<nextBuffer, generation>>
      /\ s # OnDevice /\ Release(g, {l}, extra', <<g, l>>)
  BY DEF BackwardOffloaded, QueueReload, bufVars, Offloaded, At
<1>2. /\ now \in Nodes /\ Exists(now) /\ At(now).kept
      /\ ctx' \in [Graphs -> Seq(Node)] /\ \A h \in Graphs : Len(ctx[h])' <= Layers
      /\ \A n \in Nodes : /\ Exists(n)' <=> Exists(n)
                          /\ Exists(n) => /\ (At(n)').epoch = At(n).epoch
                                          /\ (At(n)').slot = At(n).slot
                          /\ Exists(n) /\ n # now => At(n)' = At(n)
      /\ ~(At(now)').leased
  BY <1>1, Stepped DEF PoolInv
<1>3. UNCHANGED <<top, epoch, retained>>
  BY <1>1 DEF Release
<1>4. Ours(now) /\ ctx[g][l] = At(now) /\ At(now).epoch = epoch
  <2>1. ctx[g][l] = At(now)
    BY DEF At
  <2>2. ctx[g][l].epoch = epoch
    BY <1>1, <1>2 DEF PoolInv, RunsKept, Idle, Exists
  <2> QED BY <2>1, <2>2, <1>1, <1>2 DEF Ours
<1>5. s \in Slots
  BY <1>1, <1>2, AtTyped DEF PoolInv, Node
<1>6. GivenBack(g, {l}) = IF At(now).leased THEN {l} ELSE {}
  BY <1>4 DEF GivenBack
<1>7. /\ free' = free \cup (IF At(now).leased THEN {s} ELSE {})
      /\ holder' = [t \in Slots |-> IF At(now).leased /\ t = s THEN now ELSE holder[t]]
  <2>1. {ctx[g][k].slot : k \in GivenBack(g, {l})} = IF At(now).leased THEN {s} ELSE {}
    BY <1>4, <1>6
  <2>2. /\ free' = free \cup {ctx[g][k].slot : k \in GivenBack(g, {l})}
        /\ holder' = [t \in Slots |-> IF t \in {ctx[g][k].slot : k \in GivenBack(g, {l})}
                                      THEN <<g, l>> ELSE holder[t]]
    BY <1>1 DEF Release
  <2>3. now = <<g, l>>
    OBVIOUS
  <2> QED BY <2>1, <2>2, <2>3
\* Given back now, or by an earlier backward.
<1>8. /\ s < top /\ Unleased' = Unleased \cup {s} /\ free' \cap retained' = {}
      /\ free' \subseteq Slots /\ holder' \in [Slots -> Nodes \cup {Nobody}]
      /\ holder'[s] = now /\ \A t \in Slots : t # s => holder'[t] = holder[t]
      /\ \A n \in Nodes : Ours(n) /\ n # now /\ At(n).kept => At(n).slot # s
  <2>1. free \subseteq Slots /\ holder \in [Slots -> Nodes \cup {Nobody}] /\ free \cap retained = {}
    BY DEF PoolInv, Typed, Below
  <2>2. CASE At(now).leased
    <3>1. s < top /\ s \notin Unleased
      BY <2>2, <1>2, <1>4 DEF PoolInv, LeasesApart
    <3>2. free' = free \cup {s} /\ holder' = [t \in Slots |-> IF t = s THEN now ELSE holder[t]]
      BY <2>2, <1>7
    <3>3. ASSUME NEW n \in Nodes, Ours(n), n # now, At(n).kept PROVE At(n).slot # s
      BY <3>1, <3>3, <2>2, <1>2, <1>4 DEF PoolInv, LeasesApart, HeldForIt
    <3> QED BY <3>1, <3>2, <3>3, <2>1, <1>2, <1>3, <1>5 DEF Unleased
  <2>3. CASE ~At(now).leased
    <3>1. s \in Unleased /\ holder[s] = now
      BY <2>3, <1>2, <1>4 DEF PoolInv, HeldForIt
    <3>2. s < top
      BY <3>1 DEF PoolInv, Below
    <3>3. free' = free /\ holder' = [t \in Slots |-> holder[t]]
      BY <2>3, <1>7
    <3>4. ASSUME NEW n \in Nodes, Ours(n), n # now, At(n).kept PROVE At(n).slot # s
      BY <3>1, <3>4 DEF PoolInv, LeasesApart, HeldForIt
    <3> QED BY <3>1, <3>2, <3>3, <3>4, <2>1, <1>3, <1>5 DEF Unleased
  <2> QED BY <2>2, <2>3
<1>9. Typed'
  BY <1>1, <1>2, <1>3, <1>8 DEF PoolInv, Typed, NextLayer
<1>10. Below'
  BY <1>3, <1>8 DEF PoolInv, Below
<1>11. /\ \A n \in Nodes : /\ Ours(n)' <=> Ours(n)
                           /\ Ours(n) => (At(n)').slot = At(n).slot
                           /\ Ours(n) /\ n # now => At(n)' = At(n)
       /\ \A n \in Nodes : GraphRetained(n)' => GraphRetained(n)
  <2>1. ASSUME NEW n \in Nodes
        PROVE  /\ Ours(n)' <=> Ours(n)
               /\ Ours(n) => (At(n)').slot = At(n).slot
               /\ Ours(n) /\ n # now => At(n)' = At(n)
    BY <1>2, <1>3 DEF Ours
  <2>2. ASSUME NEW n \in Nodes, GraphRetained(n)'
        PROVE  GraphRetained(n)
    <3>1. Exists(n)' /\ (At(n)').kept
      BY <2>2, RetainedNext
    <3>2. Exists(n) /\ At(n).kept
      BY <3>1, <1>2
    <3> QED BY <3>2, Retained
  <2> QED BY <2>1, <2>2
<1>12. LeasesApart'
  <2>1. ASSUME NEW n \in Nodes, Ours(n)', (At(n)').leased
        PROVE  n # now /\ Ours(n) /\ At(n)' = At(n)
    BY <2>1, <1>2, <1>11
  <2>2. ASSUME NEW n \in Nodes, Ours(n)', (At(n)').leased
        PROVE  (At(n)').kept /\ (At(n)').slot < top' /\ (At(n)').slot \notin Unleased'
    <3>1. n # now /\ Ours(n) /\ At(n)' = At(n) /\ At(n).leased
      BY <2>1, <2>2
    <3>2. At(n).kept /\ At(n).slot < top /\ At(n).slot \notin Unleased
      BY <3>1 DEF PoolInv, LeasesApart
    <3> QED BY <3>1, <3>2, <1>3, <1>8
  <2>3. ASSUME NEW m \in Nodes, NEW n \in Nodes, Ours(m)', Ours(n)', (At(m)').leased,
               (At(n)').leased, (At(m)').slot = (At(n)').slot
        PROVE  m = n
    BY <2>1, <2>3 DEF PoolInv, LeasesApart
  <2> QED BY <2>2, <2>3 DEF LeasesApart
<1>13. HeldForIt'
  <2> SUFFICES ASSUME NEW n \in Nodes, Ours(n)', (At(n)').kept, ~(At(n)').leased
               PROVE  (At(n)').slot \in Unleased' /\ holder'[(At(n)').slot] = n
    BY DEF HeldForIt
  <2>1. CASE n = now
    <3>1. (At(n)').slot = s
      BY <2>1, <1>2
    <3> QED BY <2>1, <3>1, <1>8
  <2>2. CASE n # now
    <3>1. Ours(n) /\ At(n)' = At(n)
      BY <2>2, <1>11
    <3>2. At(n).slot \in Unleased /\ holder[At(n).slot] = n /\ At(n).slot # s
      BY <2>2, <3>1, <1>8 DEF PoolInv, HeldForIt
    <3>3. At(n).slot \in Slots
      BY <3>2 DEF PoolInv, Typed, Unleased
    <3> QED BY <3>1, <3>2, <3>3, <1>8
  <2> QED BY <2>1, <2>2
<1>14. HoldersRead'
  <2> SUFFICES ASSUME NEW t \in Unleased', GraphRetained(holder[t])'
               PROVE  Ours(holder[t])' /\ At(holder[t])'.slot = t
    BY DEF HoldersRead
  <2> PICK n : n = holder'[t]
    OBVIOUS
  <2>1. t \in Slots
    BY <1>5, <1>8 DEF PoolInv, Typed, Unleased
  <2>2. n \in Nodes
    BY <2>1, <1>8, RetainedNext
  <2>3. CASE t = s
    <3>1. n = now
      BY <2>3, <1>8
    <3>2. Ours(n)' /\ (At(n)').slot = t
      BY <2>3, <3>1, <1>2, <1>4, <1>11
    <3> QED BY <3>2
  <2>4. CASE t # s
    <3>1. t \in Unleased /\ n = holder[t]
      BY <2>1, <2>4, <1>8
    <3>2. GraphRetained(n)'
      OBVIOUS
    <3>3. GraphRetained(n)
      BY <2>2, <3>2, <1>11
    <3>4. Ours(n) /\ At(n).slot = t
      BY <3>1, <3>3 DEF PoolInv, HoldersRead
    <3>5. Ours(n)' /\ (At(n)').slot = t
      BY <2>2, <3>4, <1>11
    <3> QED BY <3>5
  <2> QED BY <2>3, <2>4
<1>15. Covered'
  <2> SUFFICES ASSUME NEW t \in 0..(top' - 1), t \notin Unleased'
               PROVE  \E n \in Nodes : Ours(n)' /\ (At(n)').leased /\ (At(n)').slot = t
    BY DEF Covered
  <2>1. t \in 0..(top - 1) /\ t \notin Unleased /\ t # s
    BY <1>3, <1>8
  <2>2. PICK n \in Nodes : Ours(n) /\ At(n).leased /\ At(n).slot = t
    BY <2>1 DEF PoolInv, Covered
  <2>3. n # now
    BY <2>1, <2>2
  <2> QED BY <2>2, <2>3, <1>11
<1>16. HoldersCame' /\ RunsKept' /\ NodesSound'
  <2>1. \A t \in Slots : holder'[t] \in {holder[t], now}
    BY <1>8
  <2> QED BY <2>1, <1>1, <1>3, SteppedRest
<1> QED
  BY <1>9, <1>10, <1>12, <1>13, <1>14, <1>15, <1>16 DEF PoolInv

LEMMA DropSafe ==
  ASSUME PoolInv, NEW g \in Graphs, Drop(g)
  PROVE  PoolInv'
<1> PICK slots : slots = {ctx[g][l].slot : l \in GivenBack(g, DOMAIN ctx[g])}
  OBVIOUS
<1>1. /\ stage' = [stage EXCEPT ![g] = "gone"] /\ ctx' = [ctx EXCEPT ![g] = <<>>]
      /\ free' = free \cup slots
      /\ holder' = [t \in Slots |-> IF t \in slots THEN Nobody ELSE holder[t]]
      /\ UNCHANGED <<top, epoch, retained, nextBuffer, generation>>
      /\ running' = IF ~Idle /\ running.graph = g THEN Nobody ELSE running
  BY DEF Drop, Release, bufVars, preVars
<1>2. /\ free \subseteq Slots /\ retained \subseteq Slots
      /\ holder \in [Slots -> Nodes \cup {Nobody}] /\ free \cap retained = {}
      /\ ctx \in [Graphs -> Seq(Node)] /\ stage \in [Graphs -> {"forward", "ready", "gone"}]
      /\ ctx[g] \in Seq(Node) /\ DOMAIN ctx[g] = 1..Len(ctx[g]) /\ Len(ctx[g]) \in Nat
      /\ Len(ctx[g]) <= Layers
  BY DEF PoolInv, Typed, Below
<1>3. /\ ctx'[g] = <<>> /\ stage'[g] = "gone"
      /\ \A h \in Graphs : h # g => ctx'[h] = ctx[h] /\ stage'[h] = stage[h]
  BY <1>1, <1>2
\* The slots given back are those the graph's nodes lease.
<1>4. \A t : t \in slots <=> \E n \in Nodes : n[1] = g /\ Ours(n) /\ At(n).leased /\ At(n).slot = t
  <2>1. ASSUME NEW t, t \in slots
        PROVE  \E n \in Nodes : n[1] = g /\ Ours(n) /\ At(n).leased /\ At(n).slot = t
    <3>1. PICK l \in DOMAIN ctx[g] : ctx[g][l].leased /\ ctx[g][l].epoch = epoch /\ ctx[g][l].slot = t
      BY <2>1 DEF GivenBack
    <3> PICK n : n = <<g, l>>
      OBVIOUS
    <3>2. n \in Nodes /\ n[1] = g /\ n[2] = l
      BY <1>2, OffloadAssumption DEF Nodes
    <3>3. Exists(n) /\ At(n).leased /\ At(n).epoch = epoch /\ At(n).slot = t
      BY <3>1, <3>2 DEF Exists, At
    <3>4. At(n).slot # OnDevice
      BY <3>2, <3>3 DEF PoolInv, NodesSound
    <3> QED BY <3>2, <3>3, <3>4 DEF Ours
  <2>2. ASSUME NEW t, NEW n \in Nodes, n[1] = g, Ours(n), At(n).leased, At(n).slot = t
        PROVE  t \in slots
    BY <2>2 DEF Ours, Exists, At, GivenBack
  <2> QED BY <2>1, <2>2
<1>5. \A n \in Nodes : /\ n[1] = g => ~Exists(n)'
                       /\ n[1] # g => (Exists(n)' <=> Exists(n)) /\ At(n)' = At(n)
  <2> TAKE n \in Nodes
  <2>1. n[1] \in Graphs
    BY NodeParts
  <2>2. n[1] = g => DOMAIN ctx'[n[1]] = {}
    BY <1>3
  <2> QED BY <2>1, <2>2, <1>3 DEF Exists, At
<1>6. \A n \in Nodes : Ours(n)' => n[1] # g /\ Ours(n) /\ At(n)' = At(n)
  BY <1>1, <1>5 DEF Ours
<1>7. \A n \in Nodes : Ours(n) /\ n[1] # g => Ours(n)' /\ At(n)' = At(n)
  BY <1>1, <1>5 DEF Ours
<1>8. /\ \A t \in slots : t \in Slots /\ t < top /\ t \notin Unleased
      /\ Unleased' = Unleased \cup slots /\ free' \cap retained' = {}
  <2>1. ASSUME NEW t \in slots PROVE t \in Slots /\ t < top /\ t \notin Unleased
    <3>1. PICK n \in Nodes : Ours(n) /\ At(n).leased /\ At(n).slot = t
      BY <1>4
    <3>2. At(n) \in Node
      BY <3>1, AtTyped DEF PoolInv, Ours
    <3>3. t \in Slots
      BY <3>1, <3>2 DEF Node, Ours
    <3> QED BY <3>1, <3>3 DEF PoolInv, LeasesApart
  <2> QED BY <2>1, <1>1, <1>2 DEF Unleased
<1>9. Typed'
  <2>1. free' \subseteq Slots /\ holder' \in [Slots -> Nodes \cup {Nobody}]
    BY <1>1, <1>2, <1>8
  <2>2. ctx' \in [Graphs -> Seq(Node)] /\ stage' \in [Graphs -> {"forward", "ready", "gone"}]
    BY <1>1, <1>2
  <2>3. Len(<<>>) = 0 /\ 0 <= Layers
    BY OffloadAssumption
  <2>4. \A h \in Graphs : Len(ctx'[h]) <= Layers
    BY <2>3, <1>3 DEF PoolInv, Typed
  <2> QED BY <2>1, <2>2, <2>4, <1>1 DEF PoolInv, Typed
<1>10. Below'
  BY <1>1, <1>8 DEF PoolInv, Below
<1>11. LeasesApart'
  <2>1. ASSUME NEW n \in Nodes, Ours(n)', (At(n)').leased
        PROVE  (At(n)').kept /\ (At(n)').slot < top' /\ (At(n)').slot \notin Unleased'
    <3>1. n[1] # g /\ Ours(n) /\ At(n)' = At(n)
      BY <2>1, <1>6
    <3>2. At(n).kept /\ At(n).slot < top /\ At(n).slot \notin Unleased
      BY <2>1, <3>1 DEF PoolInv, LeasesApart
    <3>3. At(n).slot \notin slots
      BY <2>1, <3>1, <1>4 DEF PoolInv, LeasesApart
    <3> QED BY <3>1, <3>2, <3>3, <1>1, <1>8
  <2>2. ASSUME NEW m \in Nodes, NEW n \in Nodes, Ours(m)', Ours(n)', (At(m)').leased,
               (At(n)').leased, (At(m)').slot = (At(n)').slot
        PROVE  m = n
    BY <2>2, <1>6 DEF PoolInv, LeasesApart
  <2> QED BY <2>1, <2>2 DEF LeasesApart
<1>12. HeldForIt'
  <2> SUFFICES ASSUME NEW n \in Nodes, Ours(n)', (At(n)').kept, ~(At(n)').leased
               PROVE  (At(n)').slot \in Unleased' /\ holder'[(At(n)').slot] = n
    BY DEF HeldForIt
  <2>1. Ours(n) /\ At(n)' = At(n)
    BY <1>6
  <2>2. At(n).slot \in Unleased /\ holder[At(n).slot] = n
    BY <2>1 DEF PoolInv, HeldForIt
  <2>3. At(n).slot \in Slots /\ At(n).slot \notin slots
    BY <2>2, <1>2, <1>8 DEF Unleased
  <2> QED BY <2>1, <2>2, <2>3, <1>1, <1>8
<1>13. HoldersRead'
  <2> SUFFICES ASSUME NEW t \in Unleased', GraphRetained(holder[t])'
               PROVE  Ours(holder[t])' /\ At(holder[t])'.slot = t
    BY DEF HoldersRead
  <2> PICK n : n = holder'[t]
    OBVIOUS
  <2>1. t \in Slots
    BY <1>2, <1>8 DEF Unleased
  <2>2. n \in Nodes \cup {Nobody}
    BY <2>1, <1>1, <1>2
  <2>3. GraphRetained(n)'
    OBVIOUS
  <2>4. n \in Nodes /\ Exists(n)' /\ (At(n)').kept
    BY <2>2, <2>3, RetainedNext
  <2>5. n # Nobody
    BY <2>4, NodeParts
  <2>6. t \notin slots /\ n = holder[t] /\ t \in Unleased
    BY <2>1, <2>5, <1>1, <1>8
  <2>7. n[1] # g /\ Exists(n) /\ At(n).kept
    BY <2>4, <1>5
  <2>8. GraphRetained(n)
    BY <2>4, <2>7, Retained
  <2>9. Ours(n) /\ At(n).slot = t
    BY <2>6, <2>8 DEF PoolInv, HoldersRead
  <2>10. Ours(n)' /\ (At(n)').slot = t
    BY <2>4, <2>7, <2>9, <1>7
  <2> QED BY <2>10
<1>14. HoldersCame'
  <2>1. ASSUME NEW t \in Slots, holder'[t] # Nobody
        PROVE  Exists(holder[t])' \/ stage'[holder'[t][1]] = "gone"
    <3> PICK n : n = holder'[t]
      OBVIOUS
    <3>1. n \in Nodes /\ n = holder[t] /\ n[1] \in Graphs
      BY <2>1, <1>1, <1>2, NodeParts
    <3>2. Exists(n) \/ stage[n[1]] = "gone"
      BY <2>1, <3>1 DEF PoolInv, HoldersCame
    <3>3. Exists(n)' \/ stage'[n[1]] = "gone"
      BY <3>1, <3>2, <1>3, <1>5
    <3> QED BY <3>3
  <2>2. ASSUME NEW h \in Graphs
        PROVE  /\ stage'[h] = "gone" => ctx'[h] = <<>>
               /\ stage'[h] = "ready" => ctx'[h] # <<>>
    <3>1. CASE h = g
      BY <3>1, <1>3
    <3>2. CASE h # g
      <4>1. ctx'[h] = ctx[h] /\ stage'[h] = stage[h]
        BY <3>2, <1>3
      <4> QED BY <4>1 DEF PoolInv, HoldersCame
    <3> QED BY <3>1, <3>2
  <2> QED BY <2>1, <2>2 DEF HoldersCame
<1>15. Covered'
  <2> SUFFICES ASSUME NEW t \in 0..(top' - 1), t \notin Unleased'
               PROVE  \E n \in Nodes : Ours(n)' /\ (At(n)').leased /\ (At(n)').slot = t
    BY DEF Covered
  <2>1. t \in 0..(top - 1) /\ t \notin Unleased /\ t \notin slots
    BY <1>1, <1>8
  <2>2. PICK n \in Nodes : Ours(n) /\ At(n).leased /\ At(n).slot = t
    BY <2>1 DEF PoolInv, Covered
  <2>3. n[1] # g
    BY <2>1, <2>2, <1>4
  <2> QED BY <2>2, <2>3, <1>7
<1>16. RunsKept'
  <2>1. running' # Nobody => running # Nobody /\ running' = running /\ running.graph # g
    BY <1>1 DEF Idle
  <2> QED BY <2>1, <1>1, <1>3 DEF PoolInv, RunsKept
<1>17. NodesSound'
  BY <1>1, <1>5 DEF PoolInv, NodesSound
<1> QED
  BY <1>9, <1>10, <1>11, <1>12, <1>13, <1>14, <1>15, <1>16, <1>17 DEF PoolInv

LEMMA ResetSafe ==
  ASSUME PoolInv, Reset
  PROVE  PoolInv'
<1>1. /\ free' = {} /\ retained' = {} /\ top' = 0 /\ epoch' = epoch + 1 /\ Idle
      /\ holder' = NoHolders /\ nextBuffer' = FirstIsA
      /\ UNCHANGED <<generation, stage, ctx, running>>
  BY DEF Reset, graphVars
<1>2. epoch \in Nat /\ MaxSlots \in Nat
  BY OffloadAssumption DEF PoolInv, Typed
<1>3. Typed'
  BY <1>1, <1>2 DEF PoolInv, Typed, NoHolders, FirstIsA, Buffers
<1>4. \A n \in Nodes : (Exists(n)' <=> Exists(n)) /\ At(n)' = At(n)
  BY <1>1 DEF Exists, At
\* No node is of the new pool.
<1>5. \A n \in Nodes : ~Ours(n)'
  <2> SUFFICES ASSUME NEW n \in Nodes, Exists(n) PROVE At(n).epoch # epoch'
    BY <1>4 DEF Ours
  <2>1. At(n).epoch \in Nat /\ At(n).epoch <= epoch
    BY AtTyped DEF PoolInv, NodesSound, Node
  <2> QED BY <2>1, <1>1, <1>2
<1>6. Unleased' = {}
  BY <1>1 DEF Unleased
<1>7. Below' /\ LeasesApart' /\ HeldForIt' /\ HoldersRead' /\ Covered'
  BY <1>1, <1>5, <1>6 DEF Below, LeasesApart, HeldForIt, HoldersRead, Covered
<1>8. HoldersCame' /\ RunsKept'
  BY <1>1 DEF PoolInv, HoldersCame, RunsKept, Idle, NoHolders
<1>9. NodesSound'
  <2> SUFFICES ASSUME NEW n \in Nodes, Exists(n)
               PROVE  At(n).epoch <= epoch' /\ (At(n).leased => At(n).slot # OnDevice)
    BY <1>4 DEF NodesSound
  <2>1. At(n).epoch \in Nat /\ At(n).epoch <= epoch
    BY AtTyped DEF PoolInv, NodesSound, Node
  <2> QED BY <2>1, <1>1, <1>2 DEF PoolInv, NodesSound
<1> QED
  BY <1>3, <1>7, <1>8, <1>9 DEF PoolInv

LEMMA BeginBackwardSafe ==
  ASSUME PoolInv, NEW g \in Graphs, NEW retain \in BOOLEAN, BeginBackward(g, retain)
  PROVE  PoolInv'
<1>1. /\ UNCHANGED <<free, top, epoch, holder, retained, nextBuffer, generation, stage, ctx>>
      /\ stage[g] = "ready" /\ running' = [graph |-> g, layer |-> Len(ctx[g]), retain |-> retain]
      /\ \A l \in DOMAIN ctx[g] : ctx[g][l].epoch = epoch /\ ctx[g][l].kept
  BY DEF BeginBackward, poolVars, bufVars, preVars
<1>2. \A n : /\ Exists(n)' <=> Exists(n)
             /\ At(n)' = At(n)
             /\ Ours(n)' <=> Ours(n)
             /\ GraphRetained(n)' <=> GraphRetained(n)
  BY <1>1 DEF Exists, At, Ours, GraphRetained
<1>3. Typed' /\ Below' /\ LeasesApart' /\ HeldForIt'
  BY <1>1, <1>2 DEF PoolInv, Typed, Below, LeasesApart, HeldForIt, Unleased
<1>4. HoldersRead' /\ Covered' /\ NodesSound'
  BY <1>1, <1>2 DEF PoolInv, HoldersRead, Covered, NodesSound, Unleased
<1>5. HoldersCame'
  BY <1>1, <1>2 DEF PoolInv, HoldersCame
<1>6. RunsKept'
  <2>1. ctx[g] # <<>> /\ Layers \in Nat
    BY <1>1, OffloadAssumption DEF PoolInv, HoldersCame
  <2>2. ctx[g] \in Seq(Node) /\ DOMAIN ctx[g] = 1..Len(ctx[g]) /\ Len(ctx[g]) \in 1..Layers
    BY <2>1 DEF PoolInv, Typed
  <2> QED BY <2>2, <1>1 DEF RunsKept
<1> QED
  BY <1>3, <1>4, <1>5, <1>6 DEF PoolInv

-----------------------------------------------------------------------------
(* The theorems. *)

LEMMA InitPool ==
  ASSUME Init
  PROVE  PoolInv
<1>1. \A n \in Nodes : ~Exists(n) /\ ~Ours(n)
  <2> SUFFICES ASSUME NEW n \in Nodes PROVE ~Exists(n)
    BY DEF Ours
  <2>1. n[1] \in Graphs
    BY NodeParts
  <2>2. ctx[n[1]] = <<>>
    BY <2>1 DEF Init
  <2> QED BY <2>2 DEF Exists
<1>2. Typed
  BY OffloadAssumption DEF Init, Typed, NoHolders, FirstIsA, Buffers
<1>3. Below /\ LeasesApart /\ HeldForIt /\ HoldersRead /\ NodesSound
  BY <1>1 DEF Init, Below, LeasesApart, HeldForIt, HoldersRead, NodesSound, Unleased
<1>4. Covered
  BY DEF Init, Covered
<1>5. HoldersCame /\ RunsKept
  BY DEF Init, HoldersCame, RunsKept, NoHolders
<1> QED
  BY <1>2, <1>3, <1>4, <1>5 DEF PoolInv

LEMMA NextPool ==
  ASSUME PoolInv, [Next]_vars
  PROVE  PoolInv'
<1>1. ASSUME NEW g \in Graphs, NEW d \in Devices, ForwardKept(g, d) PROVE PoolInv'
  BY <1>1, ForwardKeptSafe
<1>2. ASSUME NEW g \in Graphs, NEW d \in Devices, NEW s \in Slots, ForwardOffloaded(g, d, s)
      PROVE  PoolInv'
  BY <1>2, ForwardOffloadedSafe
<1>3. ASSUME NEW g \in Graphs, EndForward(g) PROVE PoolInv'
  <2>1. /\ UNCHANGED <<free, retained, top, epoch, holder, generation, nextBuffer, ctx, running>>
        /\ Idle /\ stage[g] = "forward" /\ ctx[g] # <<>> /\ stage' = [stage EXCEPT ![g] = "ready"]
    BY <1>3 DEF EndForward, poolVars, bufVars, preVars
  <2> QED BY <2>1, Elsewhere
<1>4. ASSUME NEW g \in Graphs, Drop(g) PROVE PoolInv'
  BY <1>4, DropSafe
<1>5. ASSUME NEW g \in Graphs, NEW retain \in BOOLEAN, BeginBackward(g, retain) PROVE PoolInv'
  BY <1>5, BeginBackwardSafe
<1>6. ASSUME BackwardKept PROVE PoolInv'
  BY <1>6, BackwardKeptSafe
<1>7. ASSUME BackwardOffloaded PROVE PoolInv'
  BY <1>7, BackwardOffloadedSafe
<1>8. ASSUME Reset PROVE PoolInv'
  BY <1>8, ResetSafe
<1>9. ASSUME NEW d \in Devices, Copy(d) \/ Compute(d) PROVE PoolInv'
  <2>1. UNCHANGED <<free, retained, top, epoch, holder, generation, nextBuffer, ctx, stage, running>>
    BY <1>9 DEF Copy, Compute, bufVars, preVars, graphVars
  <2> QED BY <2>1, Elsewhere
<1>10. ASSUME UNCHANGED vars PROVE PoolInv'
  <2>1. UNCHANGED <<free, retained, top, epoch, holder, generation, nextBuffer, ctx, stage, running>>
    BY <1>10 DEF vars, poolVars, bufVars, preVars, graphVars
  <2> QED BY <2>1, Elsewhere
<1> QED
  BY <1>1, <1>2, <1>3, <1>4, <1>5, <1>6, <1>7, <1>8, <1>9, <1>10 DEF Next, CPU

\* Where the slots are, of every pool the code can reach.
LEMMA PoolHolds == Spec => []PoolInv
<1>1. Init => PoolInv
  BY InitPool
<1>2. PoolInv /\ [Next]_vars => PoolInv'
  BY NextPool
<1> QED
  BY <1>1, <1>2, PTL DEF Spec

\* Readable nodes, in the words of this module.
LEMMA ReadableIs ==
  \A n \in Nodes : n \in Readable <=> Ours(n) /\ At(n).kept
BY DEF Readable, Ours, Exists, At

LEMMA Apart ==
  ASSUME PoolInv
  PROVE  ReadersApart
<1> SUFFICES ASSUME NEW m \in Readable, NEW n \in Readable, SlotOf(m) = SlotOf(n)
             PROVE  m = n
  BY DEF ReadersApart
<1>1. /\ m \in Nodes /\ Ours(m) /\ At(m).kept
      /\ n \in Nodes /\ Ours(n) /\ At(n).kept
  BY ReadableIs DEF Readable
<1>2. At(m).slot = At(n).slot
  BY DEF SlotOf, At
<1>3. CASE At(m).leased /\ At(n).leased
  BY <1>1, <1>2, <1>3 DEF PoolInv, LeasesApart
<1>4. CASE At(m).leased /\ ~At(n).leased
  BY <1>1, <1>2, <1>4 DEF PoolInv, LeasesApart, HeldForIt
<1>5. CASE ~At(m).leased /\ At(n).leased
  BY <1>1, <1>2, <1>5 DEF PoolInv, LeasesApart, HeldForIt
<1>6. CASE ~At(m).leased /\ ~At(n).leased
  BY <1>1, <1>2, <1>6 DEF PoolInv, HeldForIt
<1> QED
  BY <1>3, <1>4, <1>5, <1>6

LEMMA NoneLost ==
  ASSUME PoolInv
  PROVE  NoSlotLost
<1>1. \A t : t \in LeasedSlots <=> \E n \in Nodes : Ours(n) /\ At(n).leased /\ At(n).slot = t
  <2>1. ASSUME NEW t \in LeasedSlots
        PROVE  \E n \in Nodes : Ours(n) /\ At(n).leased /\ At(n).slot = t
    <3>1. PICK n \in Readable : ctx[n[1]][n[2]].leased /\ SlotOf(n) = t
      BY DEF LeasedSlots
    <3> QED BY <3>1, ReadableIs DEF Readable, SlotOf, At
  <2>2. ASSUME NEW t, NEW n \in Nodes, Ours(n), At(n).leased, At(n).slot = t
        PROVE  t \in LeasedSlots
    <3>1. n \in Readable
      BY <2>2, ReadableIs DEF PoolInv, LeasesApart
    <3> QED BY <2>2, <3>1 DEF LeasedSlots, SlotOf, At
  <2> QED BY <2>1, <2>2
<1>2. ASSUME NEW t \in LeasedSlots PROVE t \in 0..(top - 1) /\ t \notin Unleased
  <2>1. PICK n \in Nodes : Ours(n) /\ At(n).leased /\ At(n).slot = t
    BY <1>1
  <2>2. At(n) \in Node
    BY <2>1, AtTyped DEF PoolInv, Ours
  <2>3. t \in Nat /\ top \in Nat
    BY <2>1, <2>2 DEF Node, Ours, Slots, PoolInv, Typed
  <2>4. t < top /\ t \notin Unleased
    BY <2>1 DEF PoolInv, LeasesApart
  <2> QED BY <2>3, <2>4
<1>3. ASSUME NEW t \in Unleased PROVE t \in 0..(top - 1)
  <2>1. t \in Nat /\ top \in Nat /\ t < top
    BY DEF PoolInv, Typed, Below, Unleased, Slots
  <2> QED BY <2>1
<1>4. ASSUME NEW t \in 0..(top - 1), t \notin Unleased PROVE t \in LeasedSlots
  BY <1>1, <1>4 DEF PoolInv, Covered
<1> QED
  BY <1>2, <1>3, <1>4 DEF NoSlotLost, Unleased, PoolInv, Below

LEMMA Grows ==
  ASSUME PoolInv, [Next]_vars, top' > top, NEW s \in 0..(top - 1)
  PROVE  \E n \in Readable : SlotOf(n) = s
<1>1. top \in Nat
  BY DEF PoolInv, Typed
<1>2. top' # top
  BY <1>1
<1>3. PICK g \in Graphs, d \in Devices, t \in Slots : ForwardOffloaded(g, d, t)
  <2>1. ASSUME NEW g \in Graphs PROVE ~Drop(g) /\ ~EndForward(g)
    BY <1>2 DEF Drop, Release, EndForward, poolVars
  <2>2. ASSUME NEW g \in Graphs, NEW d \in Devices PROVE ~ForwardKept(g, d)
    BY <1>2 DEF ForwardKept, poolVars
  <2>3. ASSUME NEW g \in Graphs, NEW retain \in BOOLEAN PROVE ~BeginBackward(g, retain)
    BY <1>2 DEF BeginBackward, poolVars
  <2>4. ~BackwardKept /\ ~BackwardOffloaded
    BY <1>2 DEF BackwardKept, BackwardOffloaded, QueueReload, Release, poolVars
  <2>5. ~Reset
    BY <1>1 DEF Reset
  <2>6. ASSUME NEW d \in Devices PROVE ~Copy(d) /\ ~Compute(d)
    BY <1>2 DEF Copy, Compute
  <2>7. ~UNCHANGED vars
    BY <1>2 DEF vars, poolVars
  <2> QED BY <2>1, <2>2, <2>3, <2>4, <2>5, <2>6, <2>7 DEF Next, CPU
<1>4. Usable = {}
  BY <1>2, <1>3 DEF ForwardOffloaded, Lease
<1>5. CASE s \in Unleased
  <2> PICK n : n = holder[s]
    OBVIOUS
  <2>1. n \in Nodes \cup {Nobody}
    BY <1>5 DEF PoolInv, Typed, Unleased
  <2>2. GraphRetained(n)
    BY <1>4, <1>5 DEF Usable, StillHeld, Reclaimed, Unleased
  <2>3. n \in Nodes /\ At(n).kept
    BY <2>1, <2>2, Retained
  <2>4. Ours(n) /\ At(n).slot = s
    BY <1>5, <2>2 DEF PoolInv, HoldersRead
  <2> QED BY <2>3, <2>4, ReadableIs DEF SlotOf, At
<1>6. CASE s \notin Unleased
  <2>1. PICK n \in Nodes : Ours(n) /\ At(n).leased /\ At(n).slot = s
    BY <1>6 DEF PoolInv, Covered
  <2>2. n \in Readable
    BY <2>1, ReadableIs DEF PoolInv, LeasesApart
  <2> QED BY <2>1, <2>2 DEF SlotOf, At
<1> QED
  BY <1>5, <1>6

\* A slot waits for at most one of the nodes that a backward may still run,
\* whatever was dropped, kept or reset: _CpuSlotLease and _graph_retained.
THEOREM ReadersStayApart == Spec => []ReadersApart
<1>1. PoolInv => ReadersApart
  BY Apart
<1> QED
  BY <1>1, PoolHolds, PTL

\* Releases, finalizers and the passing over of held slots lose no slot and
\* give none back twice.
THEOREM SlotsAccountedFor == Spec => []NoSlotLost
<1>1. PoolInv => NoSlotLost
  BY NoneLost
<1> QED
  BY <1>1, PoolHolds, PTL

\* A lease makes a new slot only when a backward still needs every old one.
THEOREM PoolGrowsWhenNeeded == Spec => GrowsWhenNeeded
<1>1. PoolInv /\ [Next]_vars
        => [top' > top => \A s \in 0..(top - 1) : \E n \in Readable : SlotOf(n) = s]_vars
  BY Grows
<1> QED
  BY <1>1, PoolHolds, PTL DEF Spec, GrowsWhenNeeded

-----------------------------------------------------------------------------
(* What is read. *)

\* Side stream and compute stream are then the only two queues.
OneDevice == \A d, e \in Devices : d = e

IsOffload(c)   == c.key[3] = "offload"
IsLoad(c)      == c.key[3] \in {"reload", "prefetch"}
IsRecompute(c) == c.key[3] = "recompute"

\* The records kept of the slots.
Records == (Nat \X Devices \X Buffers) \cup {Nobody}

StreamsTyped ==
  /\ TypeOK
  /\ Len(meta) <= MaxSlots /\ meta \in Seq(Records)
  /\ prefetched \in [Devices -> (Nat \X Slots \X Buffers) \cup {Nobody}]
  /\ \A d \in Devices : \A k \in DOMAIN main[d] : main[d][k].key[3] \in {"forward", "recompute"}
  /\ \A d \in Devices : \A k \in DOMAIN extra[d] :
       extra[d][k].key[3] \in {"offload", "reload", "prefetch"}

\* A key is of a step that the CPU has taken.
Past(key) ==
  \/ /\ key[3] \in {"offload", "forward"}
     /\ stage[key[1]] = "gone" \/ key[2] \in DOMAIN ctx[key[1]]
  \/ /\ key[3] \in {"reload", "prefetch", "recompute"}
     /\ key[4] <= passes[key[1]]
     /\ running # Nobody /\ running.graph = key[1] /\ key[4] = passes[key[1]] => key[2] > running.layer

Distinct(q) == \A i, j \in DOMAIN q : q[i].key = q[j].key => i = j

\* The key of a command that has not run.
Queued(d, key) ==
  \/ \E k \in DOMAIN main[d] : main[d][k].key = key
  \/ \E k \in DOMAIN extra[d] : extra[d][k].key = key

KeysOnce ==
  \A d \in Devices :
    /\ \A key \in Keys : Queued(d, key) => Past(key)
    /\ Distinct(main[d]) /\ Distinct(extra[d])

\* Slot s holds the input of node n when the first k - 1 commands of the side
\* stream q have run, h being the host now.
Found(q, h, k, s, n) ==
  \/ \E i \in 1..(k - 1) : /\ IsOffload(q[i]) /\ q[i].slot = s /\ NodeOf(q[i]) = n
                           /\ \A j \in (i + 1)..(k - 1) : ~(IsOffload(q[j]) /\ q[j].slot = s)
  \/ h[s] = n /\ \A j \in 1..(k - 1) : ~(IsOffload(q[j]) /\ q[j].slot = s)

HostKept ==
  \A d \in Devices : \A n \in Nodes :
    Ours(n) /\ At(n).kept => Found(extra[d], host, Len(extra[d]) + 1, At(n).slot, n)

\* Command i of the side stream e runs only after command j of the stream m.
Behind(e, i, m, j) ==
  \E x \in DOMAIN e, y \in DOMAIN m : x <= i /\ y >= j /\ m[y].key \in e[x].waits

Spared(e, k, m, j) ==
  \A i \in DOMAIN e : i > k /\ IsLoad(e[i]) /\ e[i].buffer = m[j].buffer => Behind(e, i, m, j)

Served(e, m, h, st, j) ==
  \/ \E k \in DOMAIN e :
       /\ IsLoad(e[k]) /\ e[k].buffer = m[j].buffer /\ e[k].key \in m[j].waits
       /\ Found(e, h, k, e[k].slot, NodeOf(m[j]))
       /\ Spared(e, k, m, j)
  \/ st = NodeOf(m[j]) /\ Spared(e, 0, m, j)

RecomputesServed ==
  \A d \in Devices : \A j \in DOMAIN main[d] : IsRecompute(main[d][j])
    => Served(extra[d], main[d], host, staging[<<d, main[d][j].buffer>>], j)

\* What a load into a buffer waits for in double buffering is behind every
\* recompute from that buffer, unless an offload is.
Awaited ==
  useDouble =>
    \A d \in Devices : \A j \in DOMAIN main[d] : IsRecompute(main[d][j]) =>
      \/ \E y \in DOMAIN main[d] : y >= j /\ main[d][y].key \in computed[<<d, main[d][j].buffer>>]
      \/ Behind(extra[d], Len(extra[d]), main[d], j)

\* What was prefetched is the last thing the side stream was given, and is
\* still in the buffer when it has run.
AheadOfUse ==
  \A d \in Devices : prefetched[d] # Nobody =>
    LET s == prefetched[d][2]
        b == prefetched[d][3]
        q == extra[d]
    IN  /\ backwardPass /\ useDouble /\ Prefetching
        /\ \/ /\ q # <<>> /\ IsLoad(q[Len(q)])
              /\ q[Len(q)].slot = s /\ q[Len(q)].buffer = b
              /\ copied[<<d, b>>] = {q[Len(q)].key}
           \/ q = <<>> /\ staging[<<d, b>>] = host[s] /\ copied[<<d, b>>] = {}

ReadsInv == StreamsTyped /\ KeysOnce /\ HostKept /\ RecomputesServed /\ Awaited /\ AheadOfUse

-----------------------------------------------------------------------------
(* Queues. *)

LEMMA Pushed ==
  ASSUME NEW S, NEW q \in Seq(S), NEW c \in S, NEW r, r = Append(q, c)
  PROVE  /\ r \in Seq(S) /\ Len(r) = Len(q) + 1 /\ Len(q) \in Nat
         /\ DOMAIN q = 1..Len(q) /\ DOMAIN r = 1..(Len(q) + 1)
         /\ \A k \in 1..Len(q) : r[k] = q[k]
         /\ r[Len(q) + 1] = c
OBVIOUS

LEMMA Popped ==
  ASSUME NEW S, NEW q \in Seq(S), q # <<>>, NEW r, r = Tail(q)
  PROVE  /\ r \in Seq(S) /\ Len(r) = Len(q) - 1 /\ Len(q) \in Nat \ {0} /\ Len(r) \in Nat
         /\ DOMAIN q = 1..Len(q) /\ DOMAIN r = 1..Len(r)
         /\ \A k \in 1..Len(r) : r[k] = q[k + 1]
         /\ Head(q) = q[1] /\ q[1] \in S
OBVIOUS

\* A queue that r continues.
Continues(r, q) ==
  /\ Len(q) \in Nat /\ Len(r) \in Nat /\ Len(q) <= Len(r)
  /\ DOMAIN q = 1..Len(q) /\ DOMAIN r = 1..Len(r)
  /\ \A k \in 1..Len(q) : r[k] = q[k]

LEMMA FoundContinues ==
  ASSUME NEW q, NEW r, Continues(r, q), NEW h, NEW s, NEW n, NEW k \in 1..(Len(q) + 1),
         Found(q, h, k, s, n)
  PROVE  Found(r, h, k, s, n)
<1>1. \A i \in 1..(k - 1) : i \in 1..Len(q) /\ r[i] = q[i]
  BY DEF Continues
<1>2. CASE h[s] = n /\ \A j \in 1..(k - 1) : ~(IsOffload(q[j]) /\ q[j].slot = s)
  BY <1>1, <1>2 DEF Found
<1>3. CASE \E i \in 1..(k - 1) : /\ IsOffload(q[i]) /\ q[i].slot = s /\ NodeOf(q[i]) = n
                                 /\ \A j \in (i + 1)..(k - 1) : ~(IsOffload(q[j]) /\ q[j].slot = s)
  <2>1. PICK i \in 1..(k - 1) : /\ IsOffload(q[i]) /\ q[i].slot = s /\ NodeOf(q[i]) = n
                                /\ \A j \in (i + 1)..(k - 1) : ~(IsOffload(q[j]) /\ q[j].slot = s)
    BY <1>3
  <2>2. \A j \in (i + 1)..(k - 1) : r[j] = q[j]
    BY <1>1 DEF Continues
  <2>3. r[i] = q[i]
    BY <1>1
  <2> QED BY <2>1, <2>2, <2>3 DEF Found
<1> QED
  BY <1>2, <1>3 DEF Found

\* Commands that do not write the slot leave in it what was found.
LEMMA FoundLater ==
  ASSUME NEW q, NEW h, NEW s, NEW n, NEW k \in Nat \ {0}, NEW m \in Nat, k <= m,
         Found(q, h, k, s, n),
         \A j \in k..(m - 1) : ~(IsOffload(q[j]) /\ q[j].slot = s)
  PROVE  Found(q, h, m, s, n)
<1>1. CASE h[s] = n /\ \A j \in 1..(k - 1) : ~(IsOffload(q[j]) /\ q[j].slot = s)
  <2>1. \A j \in 1..(m - 1) : j \in 1..(k - 1) \/ j \in k..(m - 1)
    OBVIOUS
  <2> QED BY <1>1, <2>1 DEF Found
<1>2. CASE \E i \in 1..(k - 1) : /\ IsOffload(q[i]) /\ q[i].slot = s /\ NodeOf(q[i]) = n
                                 /\ \A j \in (i + 1)..(k - 1) : ~(IsOffload(q[j]) /\ q[j].slot = s)
  <2>1. PICK i \in 1..(k - 1) : /\ IsOffload(q[i]) /\ q[i].slot = s /\ NodeOf(q[i]) = n
                                /\ \A j \in (i + 1)..(k - 1) : ~(IsOffload(q[j]) /\ q[j].slot = s)
    BY <1>2
  <2>2. \A j \in (i + 1)..(m - 1) : j \in (i + 1)..(k - 1) \/ j \in k..(m - 1)
    OBVIOUS
  <2>3. i \in 1..(m - 1)
    OBVIOUS
  <2> QED BY <2>1, <2>2, <2>3 DEF Found
<1> QED
  BY <1>1, <1>2 DEF Found

\* Nor is what was found earlier different, if it is not written between.
LEMMA FoundEarlier ==
  ASSUME NEW q, NEW h, NEW s, NEW n, NEW k \in Nat \ {0}, NEW m \in Nat, k <= m,
         Found(q, h, m, s, n),
         \A j \in k..(m - 1) : ~(IsOffload(q[j]) /\ q[j].slot = s)
  PROVE  Found(q, h, k, s, n)
<1>1. CASE h[s] = n /\ \A j \in 1..(m - 1) : ~(IsOffload(q[j]) /\ q[j].slot = s)
  <2>1. \A j \in 1..(k - 1) : j \in 1..(m - 1)
    OBVIOUS
  <2> QED BY <1>1, <2>1 DEF Found
<1>2. CASE \E i \in 1..(m - 1) : /\ IsOffload(q[i]) /\ q[i].slot = s /\ NodeOf(q[i]) = n
                                 /\ \A j \in (i + 1)..(m - 1) : ~(IsOffload(q[j]) /\ q[j].slot = s)
  <2>1. PICK i \in 1..(m - 1) : /\ IsOffload(q[i]) /\ q[i].slot = s /\ NodeOf(q[i]) = n
                                /\ \A j \in (i + 1)..(m - 1) : ~(IsOffload(q[j]) /\ q[j].slot = s)
    BY <1>2
  <2>2. \A j \in (i + 1)..(k - 1) : j \in (i + 1)..(m - 1)
    OBVIOUS
  <2>3. i \in 1..(k - 1)
    <3>1. i \notin k..(m - 1)
      BY <2>1
    <3> QED BY <3>1
  <2> QED BY <2>1, <2>2, <2>3 DEF Found
<1> QED
  BY <1>1, <1>2 DEF Found

\* The host after the first command of a side stream.
Copied(q, h) == IF IsOffload(q[1]) THEN [h EXCEPT ![q[1].slot] = NodeOf(q[1])] ELSE h

LEMMA FoundPopped ==
  ASSUME NEW q \in Seq(Commands), q # <<>>, NEW h \in [Slots -> Nodes \cup {Nobody}],
         NEW s, NEW n, NEW k \in 2..(Len(q) + 1), Found(q, h, k, s, n)
  PROVE  Found(Tail(q), Copied(q, h), k - 1, s, n)
<1> PICK r : r = Tail(q)
  OBVIOUS
<1>1. /\ Len(q) \in Nat \ {0} /\ Len(r) = Len(q) - 1
      /\ \A i \in 1..Len(r) : r[i] = q[i + 1]
      /\ q[1] \in Commands
  BY Popped
<1>2. k - 1 \in Nat /\ \A j \in 1..(k - 2) : j + 1 \in 2..(k - 1) /\ r[j] = q[j + 1]
  BY <1>1
<1>3. q[1].slot \in Slots
  BY <1>1 DEF Commands
<1>4. CASE h[s] = n /\ \A j \in 1..(k - 1) : ~(IsOffload(q[j]) /\ q[j].slot = s)
  <2>1. \A j \in 1..(k - 2) : ~(IsOffload(r[j]) /\ r[j].slot = s)
    BY <1>2, <1>4
  <2>2. ~(IsOffload(q[1]) /\ q[1].slot = s)
    BY <1>4
  <2>3. Copied(q, h)[s] = n
    BY <1>3, <1>4, <2>2 DEF Copied
  <2> QED BY <2>1, <2>3 DEF Found
<1>5. CASE \E i \in 1..(k - 1) : /\ IsOffload(q[i]) /\ q[i].slot = s /\ NodeOf(q[i]) = n
                                 /\ \A j \in (i + 1)..(k - 1) : ~(IsOffload(q[j]) /\ q[j].slot = s)
  <2>1. PICK i \in 1..(k - 1) : /\ IsOffload(q[i]) /\ q[i].slot = s /\ NodeOf(q[i]) = n
                                /\ \A j \in (i + 1)..(k - 1) : ~(IsOffload(q[j]) /\ q[j].slot = s)
    BY <1>5
  <2>2. \A j \in i..(k - 2) : ~(IsOffload(r[j]) /\ r[j].slot = s)
    <3> TAKE j \in i..(k - 2)
    <3>1. j \in 1..(k - 2) /\ j + 1 \in (i + 1)..(k - 1)
      OBVIOUS
    <3> QED BY <3>1, <1>2, <2>1
  <2>3. CASE i = 1
    <3>1. Copied(q, h)[s] = n
      BY <2>1, <2>3, <1>3 DEF Copied
    <3> QED BY <2>2, <2>3, <3>1 DEF Found
  <2>4. CASE i # 1
    <3>1. i - 1 \in 1..(k - 2) /\ r[i - 1] = q[i]
      <4>1. i - 1 \in 1..(k - 2) /\ (i - 1) + 1 = i
        BY <2>4
      <4>2. r[i - 1] = q[(i - 1) + 1]
        BY <1>2, <4>1
      <4> QED BY <4>1, <4>2
    <3>2. PICK m : m = i - 1
      OBVIOUS
    <3>3. m \in 1..((k - 1) - 1) /\ IsOffload(r[m]) /\ r[m].slot = s /\ NodeOf(r[m]) = n
      BY <2>1, <3>1, <3>2
    <3>4. \A j \in (m + 1)..((k - 1) - 1) : ~(IsOffload(r[j]) /\ r[j].slot = s)
      <4>1. (m + 1)..((k - 1) - 1) = i..(k - 2)
        BY <3>2
      <4> QED BY <2>2, <4>1
    <3> QED BY <3>3, <3>4 DEF Found
  <2> QED BY <2>3, <2>4
<1> QED
  BY <1>4, <1>5 DEF Found

-----------------------------------------------------------------------------
(* What comes after what. *)

LEMMA BehindContinues ==
  ASSUME NEW e, NEW f, Continues(f, e), NEW m, NEW p, Continues(p, m),
         NEW i, NEW j, Behind(e, i, m, j)
  PROVE  Behind(f, i, p, j)
BY DEF Behind, Continues

\* A wait that is over is for no command of the stream.
Over(e, m) == \A y \in DOMAIN m : m[y].key \notin e[1].waits

LEMMA BehindCopied ==
  ASSUME NEW e \in Seq(Commands), e # <<>>, NEW m, Over(e, m), NEW i \in Nat, NEW j, Behind(e, i, m, j)
  PROVE  i >= 2 /\ Behind(Tail(e), i - 1, m, j)
<1> PICK r : r = Tail(e)
  OBVIOUS
<1>1. /\ Len(e) \in Nat \ {0} /\ Len(r) = Len(e) - 1 /\ DOMAIN e = 1..Len(e) /\ DOMAIN r = 1..Len(r)
      /\ \A k \in 1..Len(r) : r[k] = e[k + 1]
  BY Popped
<1>2. PICK x \in DOMAIN e, y \in DOMAIN m : x <= i /\ y >= j /\ m[y].key \in e[x].waits
  BY DEF Behind
<1>3. x # 1
  BY <1>2 DEF Over
<1>4. x - 1 \in 1..Len(r) /\ (x - 1) + 1 = x
  BY <1>1, <1>3
<1>5. r[x - 1] = e[x]
  BY <1>1, <1>4
<1>6. i >= 2 /\ x - 1 <= i - 1
  BY <1>1, <1>2, <1>3
<1> QED
  BY <1>1, <1>2, <1>4, <1>5, <1>6 DEF Behind

LEMMA BehindComputed ==
  ASSUME NEW m \in Seq(Commands), m # <<>>, NEW e, NEW i, NEW j \in Nat, j >= 2, Behind(e, i, m, j)
  PROVE  Behind(e, i, Tail(m), j - 1)
<1> PICK r : r = Tail(m)
  OBVIOUS
<1>1. /\ Len(m) \in Nat \ {0} /\ Len(r) = Len(m) - 1 /\ DOMAIN m = 1..Len(m) /\ DOMAIN r = 1..Len(r)
      /\ \A k \in 1..Len(r) : r[k] = m[k + 1]
  BY Popped
<1>2. PICK x \in DOMAIN e, y \in DOMAIN m : x <= i /\ y >= j /\ m[y].key \in e[x].waits
  BY DEF Behind
<1>3. y - 1 \in 1..Len(r) /\ (y - 1) + 1 = y /\ y - 1 >= j - 1
  BY <1>1, <1>2
<1>4. r[y - 1] = m[y]
  BY <1>1, <1>3
<1> QED
  BY <1>1, <1>2, <1>3, <1>4 DEF Behind

-----------------------------------------------------------------------------
(* Recomputes that are served. *)

\* The streams grow, by loads that come after the recompute or go elsewhere.
LEMMA ServedContinues ==
  ASSUME NEW e, NEW f, Continues(f, e), NEW m, NEW p, Continues(p, m), NEW h, NEW st,
         NEW j \in DOMAIN m, Served(e, m, h, st, j),
         \A i \in DOMAIN f : i > Len(e) /\ IsLoad(f[i]) /\ f[i].buffer = m[j].buffer => Behind(f, i, p, j)
  PROVE  Served(f, p, h, st, j)
<1>1. /\ p[j] = m[j] /\ Len(e) \in Nat
      /\ \A k \in DOMAIN e : k \in DOMAIN f /\ f[k] = e[k]
      /\ \A k \in DOMAIN f : k \in DOMAIN e \/ k > Len(e)
      /\ DOMAIN e = 1..Len(e)
  BY DEF Continues
<1>2. ASSUME NEW k, Spared(e, k, m, j)
      PROVE  Spared(f, k, p, j)
  <2> SUFFICES ASSUME NEW i \in DOMAIN f, i > k, IsLoad(f[i]), f[i].buffer = m[j].buffer
               PROVE  Behind(f, i, p, j)
    BY <1>1 DEF Spared
  <2>1. CASE i \in DOMAIN e
    <3>1. Behind(e, i, m, j)
      BY <2>1, <1>1, <1>2 DEF Spared
    <3> QED BY <3>1, BehindContinues
  <2>2. CASE i > Len(e)
    BY <2>2
  <2> QED BY <2>1, <2>2, <1>1
<1>3. CASE st = NodeOf(m[j]) /\ Spared(e, 0, m, j)
  BY <1>1, <1>2, <1>3 DEF Served
<1>4. CASE \E k \in DOMAIN e :
             /\ IsLoad(e[k]) /\ e[k].buffer = m[j].buffer /\ e[k].key \in m[j].waits
             /\ Found(e, h, k, e[k].slot, NodeOf(m[j]))
             /\ Spared(e, k, m, j)
  <2>1. PICK k \in DOMAIN e :
             /\ IsLoad(e[k]) /\ e[k].buffer = m[j].buffer /\ e[k].key \in m[j].waits
             /\ Found(e, h, k, e[k].slot, NodeOf(m[j]))
             /\ Spared(e, k, m, j)
    BY <1>4
  <2>2. k \in 1..(Len(e) + 1)
    BY <1>1
  <2>3. Found(f, h, k, e[k].slot, NodeOf(m[j]))
    BY <2>1, <2>2, FoundContinues
  <2> QED BY <2>1, <2>3, <1>1, <1>2 DEF Served
<1> QED
  BY <1>3, <1>4 DEF Served

LEMMA SparedCopied ==
  ASSUME NEW e \in Seq(Commands), e # <<>>, NEW m, Over(e, m), NEW j, NEW k \in Nat, k >= 1,
         Spared(e, k, m, j)
  PROVE  Spared(Tail(e), k - 1, m, j)
<1> PICK r : r = Tail(e)
  OBVIOUS
<1>1. /\ Len(e) \in Nat \ {0} /\ Len(r) = Len(e) - 1 /\ DOMAIN e = 1..Len(e) /\ DOMAIN r = 1..Len(r)
      /\ \A i \in 1..Len(r) : r[i] = e[i + 1]
  BY Popped
<1> SUFFICES ASSUME NEW i \in DOMAIN r, i > k - 1, IsLoad(r[i]), r[i].buffer = m[j].buffer
             PROVE  Behind(r, i, m, j)
  BY DEF Spared
<1>2. i + 1 \in DOMAIN e /\ i + 1 > k /\ r[i] = e[i + 1] /\ i + 1 \in Nat /\ (i + 1) - 1 = i
  BY <1>1
<1>3. Behind(e, i + 1, m, j)
  BY <1>2 DEF Spared
<1>4. Behind(r, (i + 1) - 1, m, j)
  BY <1>2, <1>3, BehindCopied
<1> QED
  BY <1>2, <1>4

\* The side stream of device d takes its next step: staging buffer m[j].buffer was st.
LEMMA ServedCopied ==
  ASSUME NEW e \in Seq(Commands), e # <<>>, NEW m, Over(e, m),
         NEW h \in [Slots -> Nodes \cup {Nobody}], NEW st, NEW j, Served(e, m, h, st, j),
         NEW st2, st2 = IF IsLoad(e[1]) /\ e[1].buffer = m[j].buffer THEN h[e[1].slot] ELSE st
  PROVE  Served(Tail(e), m, Copied(e, h), st2, j)
<1> PICK r : r = Tail(e)
  OBVIOUS
<1>1. /\ Len(e) \in Nat \ {0} /\ Len(r) = Len(e) - 1 /\ DOMAIN e = 1..Len(e) /\ DOMAIN r = 1..Len(r)
      /\ \A i \in 1..Len(r) : r[i] = e[i + 1]
  BY Popped
<1>2. CASE st = NodeOf(m[j]) /\ Spared(e, 0, m, j)
  <2>1. ~(IsLoad(e[1]) /\ e[1].buffer = m[j].buffer)
    <3>1. ~Behind(e, 1, m, j)
      BY BehindCopied
    <3> QED BY <3>1, <1>1, <1>2 DEF Spared
  <2>2. Spared(r, 0, m, j)
    <3>1. Spared(e, 1, m, j)
      BY <1>2 DEF Spared
    <3>2. Spared(r, 1 - 1, m, j)
      BY <3>1, SparedCopied
    <3> QED BY <3>2
  <2> QED BY <2>1, <2>2, <1>2 DEF Served
<1>3. CASE \E k \in DOMAIN e :
             /\ IsLoad(e[k]) /\ e[k].buffer = m[j].buffer /\ e[k].key \in m[j].waits
             /\ Found(e, h, k, e[k].slot, NodeOf(m[j]))
             /\ Spared(e, k, m, j)
  <2>1. PICK k \in DOMAIN e :
             /\ IsLoad(e[k]) /\ e[k].buffer = m[j].buffer /\ e[k].key \in m[j].waits
             /\ Found(e, h, k, e[k].slot, NodeOf(m[j]))
             /\ Spared(e, k, m, j)
    BY <1>3
  <2>2. k \in Nat /\ k >= 1 /\ Spared(r, k - 1, m, j)
    BY <2>1, <1>1, SparedCopied
  <2>3. CASE k = 1
    <3>1. h[e[1].slot] = NodeOf(m[j])
      BY <2>1, <2>3 DEF Found
    <3> QED BY <2>1, <2>2, <2>3, <3>1 DEF Served
  <2>4. CASE k # 1
    <3>1. k - 1 \in DOMAIN r /\ k \in 2..(Len(e) + 1) /\ (k - 1) + 1 = k
      BY <2>4, <1>1
    <3>2. r[k - 1] = e[k]
      BY <3>1, <1>1
    <3>3. Found(r, Copied(e, h), k - 1, e[k].slot, NodeOf(m[j]))
      BY <2>1, <3>1, FoundPopped
    <3> QED BY <2>1, <2>2, <3>1, <3>2, <3>3 DEF Served
  <2> QED BY <2>3, <2>4
<1> QED
  BY <1>2, <1>3 DEF Served

\* The compute stream takes its next step.
LEMMA ServedComputed ==
  ASSUME NEW m \in Seq(Commands), m # <<>>, NEW e, NEW h, NEW st, NEW j \in DOMAIN m, j # 1,
         Served(e, m, h, st, j)
  PROVE  Served(e, Tail(m), h, st, j - 1)
<1> PICK r : r = Tail(m)
  OBVIOUS
<1>1. /\ Len(m) \in Nat \ {0} /\ Len(r) = Len(m) - 1 /\ DOMAIN m = 1..Len(m) /\ DOMAIN r = 1..Len(r)
      /\ \A k \in 1..Len(r) : r[k] = m[k + 1]
  BY Popped
<1>2. j \in Nat /\ j >= 2 /\ j - 1 \in 1..Len(r) /\ (j - 1) + 1 = j
  BY <1>1
<1>3. r[j - 1] = m[j]
  BY <1>1, <1>2
<1>4. ASSUME NEW k, Spared(e, k, m, j) PROVE Spared(e, k, r, j - 1)
  <2>1. \A i : Behind(e, i, m, j) => Behind(e, i, r, j - 1)
    BY <1>2, BehindComputed
  <2> QED BY <2>1, <1>3, <1>4 DEF Spared
<1> QED
  BY <1>3, <1>4 DEF Served

-----------------------------------------------------------------------------
(* Types. *)

LEMMA LastIsKey ==
  ASSUME NEW q \in Seq(Commands)
  PROVE  LastKey(q) \subseteq Keys
<1>1. CASE q = <<>>
  BY <1>1 DEF LastKey
<1>2. CASE q # <<>>
  <2>1. q[Len(q)] \in Commands
    BY <1>2
  <2> QED BY <1>2, <2>1 DEF LastKey, Commands
<1> QED
  BY <1>1, <1>2

LEMMA CommandTyped ==
  ASSUME TypeOK, NEW g \in Graphs, NEW l \in 1..Layers,
         NEW op \in {"offload", "forward", "reload", "prefetch", "recompute"},
         NEW s \in Slots, NEW b \in Buffers, NEW w \in SUBSET Keys
  PROVE  LET c == Command(g, l, op, s, b, w)
         IN  /\ c \in Commands /\ c.key = <<g, l, op, passes[g]>> /\ c.key \in Keys
             /\ c.slot = s /\ c.buffer = b /\ c.waits = w /\ NodeOf(c) = <<g, l>>
<1>1. passes[g] \in 0..MaxPasses
  BY DEF TypeOK
<1>2. <<g, l, op, passes[g]>> \in Keys
  BY <1>1 DEF Keys
<1> QED
  BY <1>2 DEF Command, Commands, NodeOf

LEMMA FenceIsKey ==
  ASSUME TypeOK, NEW s \in Slots, NEW d \in Devices
  PROVE  Fence(s, d) \subseteq Keys
<1>1. fences[s] \subseteq Devices \X Keys
  BY DEF TypeOK
<1> QED
  BY <1>1 DEF Fence

\* The part of the types that the pool's invariant has.
PoolTypes ==
  /\ free \subseteq Slots /\ retained \subseteq Slots /\ top \in Nat /\ epoch \in Nat
  /\ holder \in [Slots -> Nodes \cup {Nobody}]
  /\ nextBuffer \in [Devices -> Buffers] /\ generation \in Nat
  /\ stage \in [Graphs -> {"forward", "ready", "gone"}]
  /\ ctx \in [Graphs -> Seq(Node)]
  /\ running \in [graph : Graphs, layer : 1..Layers, retain : BOOLEAN] \cup {Nobody}

LEMMA PoolTyped ==
  ASSUME PoolInv'
  PROVE  PoolTypes'
<1>1. top' \in Nat
  BY OffloadAssumption DEF PoolInv, Typed
<1>2. (running \in [graph : Graphs, layer : 1..Layers, retain : BOOLEAN] \cup {Nobody})'
  BY DEF PoolInv, RunsKept
<1> QED
  BY <1>1, <1>2 DEF PoolInv, Typed, PoolTypes

LEMMA CompleteTyped ==
  ASSUME TypeOK, NEW key, Complete(key)
  PROVE  /\ fences' \in [Slots -> SUBSET (Devices \X Keys)]
         /\ computed' \in [Devices \X Buffers -> SUBSET Keys]
         /\ copied' \in [Devices \X Buffers -> SUBSET Keys]
         /\ \A x \in Devices \X Buffers : computed'[x] = computed[x] \ {key} /\ copied'[x] = copied[x] \ {key}
BY DEF TypeOK, Complete

LEMMA ReleaseTyped ==
  ASSUME TypeOK, NEW g \in Graphs, NEW ns, ns \subseteq DOMAIN ctx[g], NEW queues \in [Devices -> Seq(Commands)],
         NEW by, Release(g, ns, queues, by)
  PROVE  fences' \in [Slots -> SUBSET (Devices \X Keys)]
<1>1. \A l \in ns : ctx[g][l] \in Node /\ ctx[g][l].device \in Devices
  <2>1. ctx[g] \in Seq(Node)
    BY DEF TypeOK
  <2>2. \A l \in DOMAIN ctx[g] : ctx[g][l] \in Node
    BY <2>1
  <2> QED BY <2>2 DEF Node
<1>2. \A l \in ns : LastKey(queues[ctx[g][l].device]) \subseteq Keys
  BY <1>1, LastIsKey
<1> DEFINE given == GivenBack(g, ns)
           Ends(s) == UNION {{ctx[g][l].device} \X LastKey(queues[ctx[g][l].device])
                               : l \in {k \in given : ctx[g][k].slot = s}}
<1>3. given \subseteq ns
  BY DEF GivenBack
<1>4. \A s : Ends(s) \subseteq Devices \X Keys
  BY <1>1, <1>2, <1>3
<1>5. fences' = [s \in Slots |-> IF s \in {ctx[g][l].slot : l \in given} THEN Ends(s) ELSE fences[s]]
  BY DEF Release
<1>6. \A s \in Slots : fences[s] \subseteq Devices \X Keys
  BY DEF TypeOK
<1> HIDE DEF given, Ends
<1> QED
  BY <1>4, <1>5, <1>6

\* Steps of the CPU that leave the devices alone.
LEMMA QuietTyped ==
  ASSUME PoolInv', StreamsTyped,
         UNCHANGED <<useDouble, bufferB, meta, prefetched, gpuVars>>,
         fences' \in [Slots -> SUBSET (Devices \X Keys)],
         backwardPass' \in BOOLEAN, firstPass' \in BOOLEAN, lastIndex' \in Nat, currentIndex' \in Nat,
         passes' \in [Graphs -> 0..MaxPasses]
  PROVE  StreamsTyped'
<1>1. TypeOK'
  BY PoolTyped DEF PoolTypes, StreamsTyped, TypeOK, gpuVars
<1> QED
  BY <1>1 DEF StreamsTyped, gpuVars

\* Steps that give the streams nothing.
LEMMA ForwardKeptTyped ==
  ASSUME PoolInv', StreamsTyped, NEW g \in Graphs, NEW d \in Devices, ForwardKept(g, d)
  PROVE  StreamsTyped'
<1>1. /\ Advance /\ UNCHANGED <<useDouble, bufferB, meta, prefetched, fences, backwardPass, passes, gpuVars>>
  BY DEF ForwardKept, AddNode, poolVars, bufVars, preVars
<1>2. TypeOK
  BY DEF StreamsTyped
<1>3. firstPass \in BOOLEAN /\ lastIndex \in Nat /\ currentIndex \in Nat
  BY <1>2 DEF TypeOK
<1>4. firstPass' = firstPass /\ lastIndex' \in {lastIndex, lastIndex + 1} /\ currentIndex' = currentIndex + 1
  BY <1>1 DEF Advance
<1>5. lastIndex' \in Nat
  BY <1>3, <1>4
<1>6. firstPass' \in BOOLEAN /\ currentIndex' \in Nat
  BY <1>3, <1>4
<1>7. /\ fences' \in [Slots -> SUBSET (Devices \X Keys)] /\ backwardPass' \in BOOLEAN
      /\ passes' \in [Graphs -> 0..MaxPasses]
  BY <1>1, <1>2 DEF TypeOK
<1> QED
  BY <1>1, <1>5, <1>6, <1>7, QuietTyped

LEMMA EndForwardTyped ==
  ASSUME PoolInv', StreamsTyped, NEW g \in Graphs, EndForward(g)
  PROVE  StreamsTyped'
<1>1. /\ UNCHANGED <<useDouble, bufferB, meta, prefetched, fences, passes, gpuVars>>
      /\ UNCHANGED <<backwardPass, firstPass, lastIndex, currentIndex>>
  BY DEF EndForward, poolVars, passVars, bufVars, preVars
<1>2. /\ fences' \in [Slots -> SUBSET (Devices \X Keys)] /\ passes' \in [Graphs -> 0..MaxPasses]
      /\ backwardPass' \in BOOLEAN /\ firstPass' \in BOOLEAN /\ lastIndex' \in Nat /\ currentIndex' \in Nat
  BY <1>1 DEF StreamsTyped, TypeOK
<1> QED
  BY <1>1, <1>2, QuietTyped

LEMMA BeginBackwardTyped ==
  ASSUME PoolInv', StreamsTyped, NEW g \in Graphs, NEW retain \in BOOLEAN, BeginBackward(g, retain)
  PROVE  StreamsTyped'
<1>1. /\ UNCHANGED <<useDouble, bufferB, meta, prefetched, fences, gpuVars>>
      /\ UNCHANGED <<backwardPass, firstPass, lastIndex, currentIndex>>
      /\ passes' = [passes EXCEPT ![g] = @ + 1] /\ passes[g] < MaxPasses
  BY DEF BeginBackward, poolVars, passVars, bufVars, preVars
<1>2. passes' \in [Graphs -> 0..MaxPasses]
  BY <1>1, OffloadAssumption DEF StreamsTyped, TypeOK
<1>3. /\ fences' \in [Slots -> SUBSET (Devices \X Keys)]
      /\ backwardPass' \in BOOLEAN /\ firstPass' \in BOOLEAN /\ lastIndex' \in Nat /\ currentIndex' \in Nat
  BY <1>1 DEF StreamsTyped, TypeOK
<1> QED
  BY <1>1, <1>2, <1>3, QuietTyped

LEMMA BackwardKeptTyped ==
  ASSUME PoolInv', StreamsTyped, BackwardKept
  PROVE  StreamsTyped'
<1>1. /\ UNCHANGED <<useDouble, bufferB, meta, prefetched, fences, passes, gpuVars, lastIndex>>
      /\ backwardPass' = TRUE /\ firstPass' = FALSE /\ currentIndex' = 0
  BY DEF BackwardKept, NextLayer, SawBackward, poolVars, bufVars, preVars
<1>2. /\ fences' \in [Slots -> SUBSET (Devices \X Keys)] /\ passes' \in [Graphs -> 0..MaxPasses]
      /\ lastIndex' \in Nat
  BY <1>1 DEF StreamsTyped, TypeOK
<1> QED
  BY <1>1, <1>2, QuietTyped

LEMMA DropTyped ==
  ASSUME PoolInv', StreamsTyped, NEW g \in Graphs, Drop(g)
  PROVE  StreamsTyped'
<1>1. /\ Release(g, DOMAIN ctx[g], extra, Nobody)
      /\ UNCHANGED <<useDouble, bufferB, meta, prefetched, passes, gpuVars>>
      /\ UNCHANGED <<backwardPass, firstPass, lastIndex, currentIndex>>
  BY DEF Drop, passVars, bufVars, preVars
<1>2. TypeOK /\ extra \in [Devices -> Seq(Commands)]
  BY DEF StreamsTyped, TypeOK
<1>3. fences' \in [Slots -> SUBSET (Devices \X Keys)]
  BY <1>1, <1>2, ReleaseTyped
<1>4. /\ passes' \in [Graphs -> 0..MaxPasses]
      /\ backwardPass' \in BOOLEAN /\ firstPass' \in BOOLEAN /\ lastIndex' \in Nat /\ currentIndex' \in Nat
  BY <1>1, <1>2 DEF TypeOK
<1> QED
  BY <1>1, <1>3, <1>4, QuietTyped

LEMMA StutterTyped ==
  ASSUME PoolInv', StreamsTyped, UNCHANGED vars
  PROVE  StreamsTyped'
<1>1. UNCHANGED <<poolVars, passVars, bufVars, preVars, graphVars, gpuVars>>
  BY DEF vars
<1>2. /\ UNCHANGED <<useDouble, bufferB, meta, prefetched, fences, passes, gpuVars>>
      /\ UNCHANGED <<backwardPass, firstPass, lastIndex, currentIndex>>
  BY <1>1 DEF poolVars, passVars, bufVars, preVars, graphVars
<1>3. /\ fences' \in [Slots -> SUBSET (Devices \X Keys)] /\ passes' \in [Graphs -> 0..MaxPasses]
      /\ backwardPass' \in BOOLEAN /\ firstPass' \in BOOLEAN /\ lastIndex' \in Nat /\ currentIndex' \in Nat
  BY <1>2 DEF StreamsTyped, TypeOK
<1> QED
  BY <1>2, <1>3, QuietTyped

\* What a forward with an offload gives the streams.
Enqueues(g, d, s, l, copy, kernel, node) ==
  /\ l = Len(ctx[g]) + 1 /\ AddNode(g, node)
  /\ node.device = d /\ node.slot = s /\ node.epoch = epoch /\ node.leased
  /\ copy.key = <<g, l, "offload", passes[g]>> /\ kernel.key = <<g, l, "forward", passes[g]>>
  /\ copy.slot = s /\ NodeOf(copy) = <<g, l>>
  /\ LastKey(main[d]) \subseteq copy.waits /\ Fence(s, d) \subseteq copy.waits
  /\ extra'[d] = Append(extra[d], copy) /\ main'[d] = Append(main[d], kernel)
  /\ \A e \in Devices : e # d => extra'[e] = extra[e] /\ main'[e] = main[e]
  /\ main' \in [Devices -> Seq(Commands)] /\ extra' \in [Devices -> Seq(Commands)]

LEMMA Offloading ==
  ASSUME TypeOK, NEW g \in Graphs, NEW d \in Devices, NEW s \in Slots, ForwardOffloaded(g, d, s)
  PROVE  \E l \in 1..Layers, copy \in Commands, kernel \in Commands, node \in Node :
           Enqueues(g, d, s, l, copy, kernel, node)
<1> PICK l : l = Len(ctx[g]) + 1
  OBVIOUS
<1> PICK b : b = nextBuffer[d]
  OBVIOUS
<1> PICK w : w = LastKey(main[d]) \cup Fence(s, d)
  OBVIOUS
<1>1. l \in 1..Layers
  <2>1. ctx[g] \in Seq(Node) /\ Len(ctx[g]) \in Nat
    BY DEF TypeOK
  <2>2. Len(ctx[g]) < Layers
    BY DEF ForwardOffloaded, AddNode
  <2> QED BY <2>1, <2>2, OffloadAssumption
<1>2. b \in Buffers
  BY DEF TypeOK
<1>3. main[d] \in Seq(Commands) /\ extra[d] \in Seq(Commands)
  BY DEF TypeOK
<1>4. w \in SUBSET Keys
  BY <1>3, LastIsKey, FenceIsKey
<1> PICK copy : copy = Command(g, l, "offload", s, b, w)
  OBVIOUS
<1>5. /\ copy \in Commands /\ copy.key = <<g, l, "offload", passes[g]>> /\ copy.key \in Keys
      /\ copy.slot = s /\ NodeOf(copy) = <<g, l>>
      /\ LastKey(main[d]) \subseteq copy.waits /\ Fence(s, d) \subseteq copy.waits
  <2>1. /\ copy \in Commands /\ copy.key = <<g, l, "offload", passes[g]>> /\ copy.key \in Keys
        /\ copy.slot = s /\ NodeOf(copy) = <<g, l>> /\ copy.waits = w
    BY <1>1, <1>2, <1>4, CommandTyped
  <2> QED BY <2>1
<1> PICK kernel : kernel = Command(g, l, "forward", s, b, {copy.key})
  OBVIOUS
<1>6. kernel \in Commands /\ kernel.key = <<g, l, "forward", passes[g]>>
  <2>1. \A v \in SUBSET Keys : /\ Command(g, l, "forward", s, b, v) \in Commands
                              /\ Command(g, l, "forward", s, b, v).key = <<g, l, "forward", passes[g]>>
    BY <1>1, <1>2, CommandTyped
  <2>2. {copy.key} \in SUBSET Keys
    BY <1>5
  <2> QED BY <2>1, <2>2
<1>7. /\ extra' = [extra EXCEPT ![d] = Append(extra[d], copy)]
      /\ main' = [main EXCEPT ![d] = Append(main[d], kernel)]
  BY DEF ForwardOffloaded
<1>8. Append(extra[d], copy) \in Seq(Commands) /\ Append(main[d], kernel) \in Seq(Commands)
  BY <1>3, <1>5, <1>6
<1>9. main' \in [Devices -> Seq(Commands)] /\ extra' \in [Devices -> Seq(Commands)]
  BY <1>7, <1>8 DEF TypeOK
<1>10. /\ extra'[d] = Append(extra[d], copy) /\ main'[d] = Append(main[d], kernel)
       /\ \A e \in Devices : e # d => extra'[e] = extra[e] /\ main'[e] = main[e]
  BY <1>7 DEF TypeOK
<1>11. \E node \in Node : /\ node.device = d /\ node.slot = s /\ node.epoch = epoch /\ node.leased
                         /\ AddNode(g, node)
  <2> PICK node : node = [device |-> d, slot |-> s, buffer |-> b, generation |-> generation',
                          epoch |-> epoch, leased |-> TRUE, kept |-> TRUE]
    OBVIOUS
  <2>1. generation' \in Nat
    BY DEF ForwardOffloaded, TypeOK
  <2>2. node \in Node /\ node.device = d /\ node.slot = s /\ node.epoch = epoch /\ node.leased
    BY <2>1, <1>2 DEF Node, TypeOK
  <2>3. AddNode(g, node)
    BY DEF ForwardOffloaded
  <2> QED BY <2>2, <2>3
<1> QED
  <2>1. PICK node \in Node : /\ node.device = d /\ node.slot = s /\ node.epoch = epoch /\ node.leased
                             /\ AddNode(g, node)
    BY <1>11
  <2>2. l = Len(ctx[g]) + 1
    OBVIOUS
  <2>3. Enqueues(g, d, s, l, copy, kernel, node)
    BY <2>1, <2>2, <1>5, <1>6, <1>9, <1>10 DEF Enqueues
  <2> QED BY <2>3, <1>1, <1>5, <1>6

LEMMA RecordedTyped ==
  ASSUME NEW m \in Seq(Records), Len(m) <= MaxSlots, NEW s \in Slots, NEW r \in Records
  PROVE  Recorded(m, s, r) \in Seq(Records) /\ Len(Recorded(m, s, r)) <= MaxSlots
<1> PICK len : len = Len(m)
  OBVIOUS
<1> PICK n : n = IF len < s + 1 THEN s + 1 ELSE len
  OBVIOUS
<1>1. len \in Nat /\ n \in Nat /\ n <= MaxSlots /\ s + 1 \in 1..n /\ len <= n
  BY OffloadAssumption DEF Slots
<1>2. \A k \in 1..n : (IF k <= len THEN m[k] ELSE Nobody) \in Records
  <2>1. \A k \in 1..len : m[k] \in Records
    OBVIOUS
  <2>2. Nobody \in Records
    BY DEF Records
  <2>3. \A k \in 1..n : k <= len => k \in 1..len
    BY <1>1
  <2> QED BY <2>1, <2>2, <2>3
<1>3. Padded(m, s + 1) \in [1..n -> Records]
  BY <1>2 DEF Padded
<1>4. Recorded(m, s, r) \in [1..n -> Records]
  BY <1>3 DEF Recorded
<1>5. \A f \in [1..n -> Records] : f \in Seq(Records) /\ Len(f) = n
  BY <1>1
<1> QED
  BY <1>1, <1>4, <1>5

\* A command at the end of a stream, of the kinds the stream has.
LEMMA KindsKept ==
  ASSUME NEW q \in Seq(Commands), NEW c \in Commands, NEW P, \A k \in DOMAIN q : q[k].key[3] \in P,
         c.key[3] \in P
  PROVE  \A k \in DOMAIN Append(q, c) : Append(q, c)[k].key[3] \in P
<1> PICK r : r = Append(q, c)
  OBVIOUS
<1>1. /\ DOMAIN q = 1..Len(q) /\ DOMAIN r = 1..(Len(q) + 1) /\ Len(q) \in Nat
      /\ \A k \in 1..Len(q) : r[k] = q[k]
      /\ r[Len(q) + 1] = c
  BY Pushed
<1>2. ASSUME NEW k \in DOMAIN r PROVE r[k].key[3] \in P
  <2>1. CASE k = Len(q) + 1
    BY <2>1, <1>1
  <2>2. CASE k \in DOMAIN q
    BY <2>2, <1>1
  <2> QED BY <2>1, <2>2, <1>1
<1> QED
  BY <1>2

LEMMA ForwardOffloadedTyped ==
  ASSUME PoolInv', StreamsTyped, NEW g \in Graphs, NEW d \in Devices, NEW s \in Slots,
         ForwardOffloaded(g, d, s)
  PROVE  StreamsTyped'
<1>0. TypeOK
  BY DEF StreamsTyped
<1>1. PICK l \in 1..Layers, copy \in Commands, kernel \in Commands, node \in Node :
        Enqueues(g, d, s, l, copy, kernel, node)
  BY <1>0, Offloading
<1>2. meta' \in Seq(Records) /\ Len(meta') <= MaxSlots
  <2>1. generation' \in Nat /\ nextBuffer[d] \in Buffers
    BY <1>0 DEF ForwardOffloaded, TypeOK
  <2>2. <<generation', d, nextBuffer[d]>> \in Records
    BY <2>1 DEF Records
  <2>3. KnownMeta \in Seq(Records) /\ Len(KnownMeta) <= MaxSlots
    BY OffloadAssumption DEF KnownMeta, StreamsTyped
  <2> QED BY <2>2, <2>3, RecordedTyped DEF ForwardOffloaded
<1>3. prefetched' \in [Devices -> (Nat \X Slots \X Buffers) \cup {Nobody}]
  BY DEF ForwardOffloaded, StreamsTyped, NoneAhead
<1>4. useDouble' \in BOOLEAN /\ bufferB' \in BOOLEAN
  BY <1>0 DEF ForwardOffloaded, Buffering, TypeOK
<1>5. fences' \in [Slots -> SUBSET (Devices \X Keys)]
  BY <1>0 DEF ForwardOffloaded, Lease, TypeOK
<1>6. /\ backwardPass' \in BOOLEAN /\ firstPass' \in BOOLEAN
      /\ lastIndex' \in Nat /\ currentIndex' \in Nat /\ passes' = passes
      /\ UNCHANGED <<computed, copied, host, staging>>
  <2>1. /\ backwardPass' = FALSE /\ Advance /\ passes' = passes
        /\ UNCHANGED <<computed, copied, host, staging>>
    BY DEF ForwardOffloaded, AddNode
  <2>2. firstPass \in BOOLEAN /\ lastIndex \in Nat /\ currentIndex \in Nat
    BY <1>0 DEF TypeOK
  <2>3. firstPass' = firstPass /\ lastIndex' \in {lastIndex, lastIndex + 1} /\ currentIndex' = currentIndex + 1
    BY <2>1 DEF Advance
  <2>4. lastIndex' \in Nat
    BY <2>2, <2>3
  <2>5. currentIndex' \in Nat
    BY <2>2, <2>3
  <2> QED BY <2>1, <2>2, <2>3, <2>4, <2>5
<1>7. TypeOK'
  <2>1. main' \in [Devices -> Seq(Commands)] /\ extra' \in [Devices -> Seq(Commands)]
    BY <1>1 DEF Enqueues
  <2> QED BY <2>1, <1>0, <1>4, <1>5, <1>6, PoolTyped DEF PoolTypes, TypeOK
<1>8. ASSUME NEW e \in Devices
      PROVE  /\ \A k \in DOMAIN main'[e] : main'[e][k].key[3] \in {"forward", "recompute"}
             /\ \A k \in DOMAIN extra'[e] : extra'[e][k].key[3] \in {"offload", "reload", "prefetch"}
  <2>1. main[e] \in Seq(Commands) /\ extra[e] \in Seq(Commands)
    BY <1>0 DEF TypeOK
  <2>2. /\ \A k \in DOMAIN main[e] : main[e][k].key[3] \in {"forward", "recompute"}
        /\ \A k \in DOMAIN extra[e] : extra[e][k].key[3] \in {"offload", "reload", "prefetch"}
    BY DEF StreamsTyped
  <2>3. CASE e = d
    <3>1. copy.key[3] = "offload" /\ kernel.key[3] = "forward"
      BY <1>1 DEF Enqueues
    <3>2. main'[e] = Append(main[e], kernel) /\ extra'[e] = Append(extra[e], copy)
      BY <2>3, <1>1 DEF Enqueues
    <3> QED BY <2>1, <2>2, <3>1, <3>2, KindsKept
  <2>4. CASE e # d
    BY <2>2, <2>4, <1>1 DEF Enqueues
  <2> QED BY <2>3, <2>4
<1> QED
  BY <1>2, <1>3, <1>7, <1>8 DEF StreamsTyped

\* The streams advance.
LEMMA CopyTyped ==
  ASSUME PoolInv', StreamsTyped, NEW d \in Devices, Copy(d)
  PROVE  /\ StreamsTyped' /\ extra[d] # <<>> /\ extra[d] \in Seq(Commands) /\ extra[d][1] \in Commands
         /\ extra'[d] = Tail(extra[d]) /\ \A e \in Devices : e # d => extra'[e] = extra[e]
         /\ host' = Copied(extra[d], host)
         /\ \A b \in Buffers : staging'[<<d, b>>] = IF IsLoad(extra[d][1]) /\ extra[d][1].buffer = b
                                                    THEN host[extra[d][1].slot] ELSE staging[<<d, b>>]
         /\ \A x \in Devices \X Buffers : /\ computed'[x] = computed[x] \ {extra[d][1].key}
                                          /\ copied'[x] = copied[x] \ {extra[d][1].key}
<1> PICK c : c = Head(extra[d])
  OBVIOUS
<1> PICK q, r : q = extra[d] /\ r = Tail(q)
  OBVIOUS
<1>0. TypeOK
  BY DEF StreamsTyped
<1>1. q # <<>> /\ q \in Seq(Commands)
  BY <1>0 DEF Copy, Runnable, TypeOK
<1>2. /\ r \in Seq(Commands) /\ Len(r) = Len(q) - 1 /\ Len(q) \in Nat \ {0} /\ Len(r) \in Nat
      /\ DOMAIN q = 1..Len(q) /\ DOMAIN r = 1..Len(r)
      /\ \A k \in 1..Len(r) : r[k] = q[k + 1]
      /\ c = q[1] /\ q[1] \in Commands
  BY <1>1, Popped
<1>3. extra' = [extra EXCEPT ![d] = r]
  BY DEF Copy
<1>4. extra'[d] = r /\ \A e \in Devices : e # d => extra'[e] = extra[e]
  BY <1>0, <1>3 DEF TypeOK
<1>5. extra' \in [Devices -> Seq(Commands)]
  BY <1>0, <1>2, <1>3 DEF TypeOK
<1>6. \/ /\ IsOffload(c) /\ host' = [host EXCEPT ![c.slot] = NodeOf(c)] /\ staging' = staging
      \/ /\ IsLoad(c) /\ host' = host /\ staging' = [staging EXCEPT ![<<d, c.buffer>>] = host[c.slot]]
  BY DEF Copy, IsOffload, IsLoad, NodeOf
<1>7. ~(IsOffload(c) /\ IsLoad(c))
  BY DEF IsOffload, IsLoad
<1>8. c.slot \in Slots /\ c.buffer \in Buffers /\ NodeOf(c) \in Nodes
  BY <1>2 DEF Commands, Keys, NodeOf, Nodes
<1>9. host' = Copied(q, host) /\ host' \in [Slots -> Nodes \cup {Nobody}]
  BY <1>0, <1>2, <1>6, <1>7, <1>8 DEF Copied, TypeOK
<1>10. host[c.slot] \in Nodes \cup {Nobody}
  BY <1>0, <1>8 DEF TypeOK
<1>11. staging' \in [Devices \X Buffers -> Nodes \cup {Nobody}]
  BY <1>0, <1>6, <1>8, <1>10 DEF TypeOK
<1>12. ASSUME NEW b \in Buffers
       PROVE  staging'[<<d, b>>] = IF IsLoad(c) /\ c.buffer = b THEN host[c.slot] ELSE staging[<<d, b>>]
  <2>1. CASE IsLoad(c) /\ c.buffer = b
    BY <2>1, <1>0, <1>6, <1>7, <1>8 DEF TypeOK
  <2>2. CASE IsLoad(c) /\ c.buffer # b
    <3>1. <<d, b>> # <<d, c.buffer>>
      BY <2>2
    <3> QED BY <2>2, <3>1, <1>0, <1>6, <1>7, <1>8 DEF TypeOK
  <2>3. CASE ~IsLoad(c)
    BY <2>3, <1>6
  <2> QED BY <2>1, <2>2, <2>3
<1>13. /\ fences' \in [Slots -> SUBSET (Devices \X Keys)]
       /\ computed' \in [Devices \X Buffers -> SUBSET Keys]
       /\ copied' \in [Devices \X Buffers -> SUBSET Keys]
       /\ \A x \in Devices \X Buffers : computed'[x] = computed[x] \ {c.key} /\ copied'[x] = copied[x] \ {c.key}
  <2>1. Complete(c.key)
    BY DEF Copy
  <2> QED BY <2>1, <1>0, CompleteTyped
<1>14. UNCHANGED <<passVars, bufVars, preVars, graphVars, main>>
  BY DEF Copy
<1>15. TypeOK'
  BY <1>0, <1>5, <1>9, <1>11, <1>13, <1>14, PoolTyped
     DEF PoolTypes, TypeOK, passVars, bufVars, preVars, graphVars
<1>16. \A e \in Devices : \A k \in DOMAIN extra'[e] : extra'[e][k].key[3] \in {"offload", "reload", "prefetch"}
  <2> TAKE e \in Devices
  <2> TAKE k \in DOMAIN extra'[e]
  <2>1. \A i \in DOMAIN extra[e] : extra[e][i].key[3] \in {"offload", "reload", "prefetch"}
    BY DEF StreamsTyped
  <2>2. CASE e = d
    <3>1. k + 1 \in DOMAIN q /\ r[k] = q[k + 1]
      BY <2>2, <1>2, <1>4
    <3> QED BY <2>1, <2>2, <3>1, <1>4
  <2>3. CASE e # d
    BY <2>1, <2>3, <1>4
  <2> QED BY <2>2, <2>3
<1>17. StreamsTyped'
  BY <1>14, <1>15, <1>16 DEF StreamsTyped, preVars
<1> QED
  BY <1>1, <1>2, <1>4, <1>9, <1>12, <1>13, <1>17

LEMMA ComputeTyped ==
  ASSUME PoolInv', StreamsTyped, NEW d \in Devices, Compute(d)
  PROVE  /\ StreamsTyped' /\ main[d] # <<>> /\ main[d] \in Seq(Commands) /\ main[d][1] \in Commands
         /\ main'[d] = Tail(main[d]) /\ \A e \in Devices : e # d => main'[e] = main[e]
         /\ \A x \in Devices \X Buffers : /\ computed'[x] = computed[x] \ {main[d][1].key}
                                          /\ copied'[x] = copied[x] \ {main[d][1].key}
<1> PICK c : c = Head(main[d])
  OBVIOUS
<1> PICK q, r : q = main[d] /\ r = Tail(q)
  OBVIOUS
<1>0. TypeOK
  BY DEF StreamsTyped
<1>1. q # <<>> /\ q \in Seq(Commands)
  BY <1>0 DEF Compute, Runnable, TypeOK
<1>2. /\ r \in Seq(Commands) /\ Len(r) = Len(q) - 1 /\ Len(q) \in Nat \ {0} /\ Len(r) \in Nat
      /\ DOMAIN q = 1..Len(q) /\ DOMAIN r = 1..Len(r)
      /\ \A k \in 1..Len(r) : r[k] = q[k + 1]
      /\ c = q[1] /\ q[1] \in Commands
  BY <1>1, Popped
<1>3. main' = [main EXCEPT ![d] = r]
  BY DEF Compute
<1>4. main'[d] = r /\ \A e \in Devices : e # d => main'[e] = main[e]
  BY <1>0, <1>3 DEF TypeOK
<1>5. main' \in [Devices -> Seq(Commands)]
  BY <1>0, <1>2, <1>3 DEF TypeOK
<1>13. /\ fences' \in [Slots -> SUBSET (Devices \X Keys)]
       /\ computed' \in [Devices \X Buffers -> SUBSET Keys]
       /\ copied' \in [Devices \X Buffers -> SUBSET Keys]
       /\ \A x \in Devices \X Buffers : computed'[x] = computed[x] \ {c.key} /\ copied'[x] = copied[x] \ {c.key}
  <2>1. Complete(c.key)
    BY DEF Compute
  <2> QED BY <2>1, <1>0, CompleteTyped
<1>14. UNCHANGED <<passVars, bufVars, preVars, graphVars, extra, host, staging>>
  BY DEF Compute
<1>15. TypeOK'
  BY <1>0, <1>5, <1>13, <1>14, PoolTyped DEF PoolTypes, TypeOK, passVars, bufVars, preVars, graphVars
<1>16. \A e \in Devices : \A k \in DOMAIN main'[e] : main'[e][k].key[3] \in {"forward", "recompute"}
  <2> TAKE e \in Devices
  <2> TAKE k \in DOMAIN main'[e]
  <2>1. \A i \in DOMAIN main[e] : main[e][i].key[3] \in {"forward", "recompute"}
    BY DEF StreamsTyped
  <2>2. CASE e = d
    <3>1. k + 1 \in DOMAIN q /\ r[k] = q[k + 1]
      BY <2>2, <1>2, <1>4
    <3> QED BY <2>1, <2>2, <3>1, <1>4
  <2>3. CASE e # d
    BY <2>1, <2>3, <1>4
  <2> QED BY <2>2, <2>3
<1>17. StreamsTyped'
  BY <1>14, <1>15, <1>16 DEF StreamsTyped, preVars
<1> QED
  BY <1>1, <1>2, <1>4, <1>13, <1>17

\* What the backward of a layer gives the streams: mid is the side stream with
\* the layer's own load, if that was not prefetched.
Reloads(g, l, c, reload, next, kernel, hit, ahead, mid) ==
  LET d == c.device
      b == IF useDouble THEN c.buffer ELSE 0
  IN  /\ ~Idle /\ g = running.graph /\ l = running.layer /\ c = ctx[g][l] /\ c.slot \in Slots
      /\ NextLayer /\ Release(g, {l}, extra', <<g, l>>)
      /\ mid = IF hit THEN extra[d] ELSE Append(extra[d], reload)
      /\ extra'[d] = IF ahead THEN Append(mid, next) ELSE mid
      /\ main'[d] = Append(main[d], kernel)
      /\ \A e \in Devices : e # d => extra'[e] = extra[e] /\ main'[e] = main[e]
      /\ reload.key = <<g, l, "reload", passes[g]>> /\ reload.slot = c.slot /\ reload.buffer = b
      /\ reload.waits = IF useDouble THEN computed[<<d, b>>] ELSE LastKey(main[d])
      /\ kernel.key = <<g, l, "recompute", passes[g]>> /\ kernel.buffer = b /\ NodeOf(kernel) = <<g, l>>
      /\ hit => /\ useDouble /\ prefetched[d] = <<c.generation, c.slot, b>>
                /\ kernel.waits = copied[<<d, b>>]
      /\ ~hit => reload.key \in kernel.waits
      /\ ~useDouble => ~hit /\ ~ahead /\ kernel.waits = {reload.key}
      /\ ahead => /\ next.key = <<g, l, "prefetch", passes[g]>>
                  /\ next.slot = c.slot - 1 /\ next.buffer = 1 - b
                  /\ next.waits = computed[<<d, 1 - b>>]
                  /\ copied'[<<d, 1 - b>>] = {next.key}
                  /\ Prefetching /\ useDouble
      /\ computed' = IF useDouble THEN [computed EXCEPT ![<<d, b>>] = {kernel.key}] ELSE computed
      /\ prefetched' = IF Prefetching /\ useDouble
                       THEN [prefetched EXCEPT ![d] = IF ahead THEN <<c.generation, c.slot - 1, 1 - b>>
                                                      ELSE Nobody]
                       ELSE prefetched
      /\ main' \in [Devices -> Seq(Commands)] /\ extra' \in [Devices -> Seq(Commands)]
      /\ copied' \in [Devices \X Buffers -> SUBSET Keys]
      /\ computed' \in [Devices \X Buffers -> SUBSET Keys]
      /\ prefetched' \in [Devices -> (Nat \X Slots \X Buffers) \cup {Nobody}]

LEMMA Reloading ==
  ASSUME PoolInv, StreamsTyped, BackwardOffloaded
  PROVE  \E g \in Graphs, l \in 1..Layers, c \in Node, reload \in Commands, kernel \in Commands,
            hit \in BOOLEAN, ahead \in BOOLEAN, mid \in Seq(Commands), next \in Commands :
           Reloads(g, l, c, reload, next, kernel, hit, ahead, mid)
<1>queued. PICK issues \in BOOLEAN : QueueReload(issues)
  BY DEF BackwardOffloaded
<1> DEFINE g == running.graph
           l == running.layer
           c == ctx[g][l]
           d == c.device
           b == IF useDouble THEN c.buffer ELSE 0
           before == IF useDouble THEN LastCompute(d, c.buffer) ELSE LastKey(main[d])
           reload == Command(g, l, "reload", c.slot, b, before)
           uses   == Prefetching /\ useDouble
           hit    == uses /\ Prefetched(d, <<c.generation, c.slot, c.buffer>>)
           s      == c.slot - 1
           ahead  == issues /\ uses /\ InChain(c) /\ MayPrefetch(c, d, s)
           next   == Command(g, l, "prefetch", s, 1 - c.buffer, LastCompute(d, 1 - c.buffer))
           queue  == extra[d] \o (IF hit THEN <<>> ELSE <<reload>>) \o (IF ahead THEN <<next>> ELSE <<>>)
           copies == [x \in Devices \X Buffers |->
                        IF uses /\ ~hit /\ x = <<d, c.buffer>> THEN {reload.key}
                        ELSE IF ahead /\ x = <<d, 1 - c.buffer>> THEN {next.key}
                        ELSE copied[x]]
           waits  == IF uses THEN copies[<<d, c.buffer>>] ELSE LastKey(queue)
           kernel == Command(g, l, "recompute", c.slot, b, waits)
           mid    == IF hit THEN extra[d] ELSE Append(extra[d], reload)
<1>given. /\ extra' = [extra EXCEPT ![d] = queue]
          /\ copied' = copies
          /\ main' = [main EXCEPT ![d] = Append(@, kernel)]
          /\ computed' = IF useDouble THEN [computed EXCEPT ![<<d, c.buffer>>] = {kernel.key}] ELSE computed
          /\ prefetched' = IF uses THEN [prefetched EXCEPT ![d] =
                                           IF ahead THEN <<c.generation, s, 1 - c.buffer>> ELSE Nobody]
                                   ELSE prefetched
          /\ Release(g, {l}, extra', <<g, l>>) /\ NextLayer
  BY <1>queued DEF QueueReload, BackwardOffloaded
<1>kinds. uses \in BOOLEAN /\ hit \in BOOLEAN /\ ahead \in BOOLEAN /\ (hit => uses) /\ (ahead => uses)
  OBVIOUS
<1>0. TypeOK
  BY DEF StreamsTyped
<1>1. ~Idle /\ g \in Graphs /\ l \in 1..Layers /\ l \in DOMAIN ctx[g]
  BY DEF BackwardOffloaded, PoolInv, RunsKept, Idle
<1>2. c \in Node /\ d \in Devices /\ c.buffer \in Buffers /\ c.slot \in Slots /\ c.generation \in Nat
  <2>1. c \in Node
    <3>1. ctx[g] \in Seq(Node)
      BY <1>0, <1>1 DEF TypeOK
    <3> QED BY <3>1, <1>1
  <2>2. c.slot # OnDevice
    BY DEF BackwardOffloaded, Offloaded
  <2> QED BY <2>1, <2>2 DEF Node
<1> HIDE DEF g, l, c
<1>d. d \in Devices /\ d = c.device
  BY <1>2
<1> HIDE DEF d
<1>3. b \in Buffers /\ 1 - c.buffer \in Buffers /\ 1 - c.buffer # c.buffer /\ (useDouble => b = c.buffer)
  BY <1>0, <1>2 DEF Buffers, TypeOK
<1> HIDE DEF b
<1>4. main[d] \in Seq(Commands) /\ extra[d] \in Seq(Commands)
  BY <1>0, <1>d DEF TypeOK
<1>5. before \in SUBSET Keys /\ LastCompute(d, 1 - c.buffer) \in SUBSET Keys
  <2>1. LastCompute(d, c.buffer) \in SUBSET Keys /\ LastCompute(d, 1 - c.buffer) \in SUBSET Keys
    BY <1>0, <1>2, <1>3, <1>d DEF TypeOK, LastCompute
  <2> QED BY <2>1, <1>4, LastIsKey
<1>before. before = IF useDouble THEN LastCompute(d, c.buffer) ELSE LastKey(main[d])
  OBVIOUS
<1> HIDE DEF before
<1>6. /\ reload \in Commands /\ reload.key = <<g, l, "reload", passes[g]>> /\ reload.key \in Keys
      /\ reload.slot = c.slot /\ reload.buffer = b /\ reload.waits = before
  BY <1>0, <1>1, <1>2, <1>3, <1>5, CommandTyped
<1> HIDE DEF reload
<1>7. ASSUME ahead
      PROVE  /\ next \in Commands /\ next.key = <<g, l, "prefetch", passes[g]>> /\ next.key \in Keys
             /\ next.slot = s /\ next.buffer = 1 - c.buffer /\ next.waits = LastCompute(d, 1 - c.buffer)
             /\ s \in Slots
  <2>1. s \in 0..(Len(meta) - 1)
    BY <1>7 DEF MayPrefetch
  <2>2. s \in Slots
    <3>1. meta \in Seq(Records) /\ Len(meta) <= MaxSlots
      BY DEF StreamsTyped
    <3>2. Len(meta) \in Nat /\ MaxSlots \in Nat
      BY <3>1, OffloadAssumption
    <3> QED BY <2>1, <3>1, <3>2 DEF Slots
  <2> HIDE DEF s
  <2> QED BY <2>2, <1>0, <1>1, <1>3, <1>5, CommandTyped
<1>hit. hit => useDouble /\ prefetched[d] = <<c.generation, c.slot, b>>
  BY <1>3 DEF Prefetched
<1>s. s = c.slot - 1
  OBVIOUS
<1> HIDE DEF hit, ahead, next, s
<1>8. mid \in Seq(Commands) /\ (ahead => Append(mid, next) \in Seq(Commands))
  <2>1. mid \in Seq(Commands)
    BY <1>4, <1>6
  <2> HIDE DEF mid
  <2> QED BY <2>1, <1>7
<1>9. queue = IF ahead THEN Append(mid, next) ELSE mid
  <2>0. \A q \in Seq(Commands), x \in Commands : q \o <<>> = q /\ q \o <<x>> = Append(q, x)
    OBVIOUS
  <2>1. extra[d] \o (IF hit THEN <<>> ELSE <<reload>>) = mid
    BY <2>0, <1>4, <1>6
  <2> HIDE DEF mid
  <2>2. mid \o (IF ahead THEN <<next>> ELSE <<>>) = IF ahead THEN Append(mid, next) ELSE mid
    BY <2>0, <1>7, <1>8
  <2> QED BY <2>1, <2>2
<1>mid. mid = IF hit THEN extra[d] ELSE Append(extra[d], reload)
  OBVIOUS
<1> HIDE DEF mid, queue
<1>10. copies \in [Devices \X Buffers -> SUBSET Keys]
  <2>1. ahead => next.key \in Keys
    BY <1>7
  <2>2. copied \in [Devices \X Buffers -> SUBSET Keys] /\ reload.key \in Keys
    BY <1>0, <1>6 DEF TypeOK
  <2> QED BY <2>1, <2>2
<1>copies. /\ uses /\ ~hit => copies[<<d, c.buffer>>] = {reload.key}
           /\ hit => copies[<<d, c.buffer>>] = copied[<<d, c.buffer>>]
           /\ ahead => copies[<<d, 1 - c.buffer>>] = {next.key}
  <2>1. <<d, c.buffer>> # <<d, 1 - c.buffer>>
    BY <1>3
  <2> QED BY <2>1, <1>2, <1>3, <1>d
<1> HIDE DEF copies
<1>11. waits \in SUBSET Keys
  <2>1. copies[<<d, c.buffer>>] \in SUBSET Keys
    BY <1>2, <1>10, <1>d
  <2>2. queue \in Seq(Commands)
    BY <1>8, <1>9
  <2> QED BY <2>1, <2>2, LastIsKey
<1>waits. /\ hit => waits = copied[<<d, b>>]
          /\ ~hit => reload.key \in waits
          /\ ~uses => waits = {reload.key}
  <2>1. CASE uses
    BY <2>1, <1>3, <1>copies
  <2>2. CASE ~uses
    <3>1. ~hit /\ ~ahead
      BY <2>2, <1>kinds
    <3>2. queue = Append(extra[d], reload)
      BY <3>1, <1>9, <1>mid
    <3>3. Append(extra[d], reload) # <<>> /\ Append(extra[d], reload)[Len(Append(extra[d], reload))] = reload
      BY <1>4, <1>6
    <3>4. LastKey(queue) = {reload.key}
      BY <3>2, <3>3 DEF LastKey
    <3> QED BY <2>2, <3>1, <3>4
  <2> QED BY <2>1, <2>2
<1> HIDE DEF waits
<1>12. /\ kernel \in Commands /\ kernel.key = <<g, l, "recompute", passes[g]>> /\ kernel.key \in Keys
       /\ kernel.buffer = b /\ kernel.waits = waits /\ NodeOf(kernel) = <<g, l>>
  BY <1>0, <1>1, <1>2, <1>3, <1>11, CommandTyped
<1> HIDE DEF kernel
<1>13. /\ extra'[d] = queue /\ main'[d] = Append(main[d], kernel)
       /\ \A e \in Devices : e # d => extra'[e] = extra[e] /\ main'[e] = main[e]
       /\ main' \in [Devices -> Seq(Commands)] /\ extra' \in [Devices -> Seq(Commands)]
  <2>1. queue \in Seq(Commands) /\ Append(main[d], kernel) \in Seq(Commands)
    BY <1>4, <1>8, <1>9, <1>12
  <2>2. main \in [Devices -> Seq(Commands)] /\ extra \in [Devices -> Seq(Commands)]
    BY <1>0 DEF TypeOK
  <2>3. extra' = [extra EXCEPT ![d] = queue] /\ main' = [main EXCEPT ![d] = Append(main[d], kernel)]
    BY <1>given
  <2> QED BY <2>1, <2>2, <2>3, <1>d
<1>14. computed' \in [Devices \X Buffers -> SUBSET Keys]
  BY <1>0, <1>12, <1>given DEF TypeOK
<1>15. prefetched' \in [Devices -> (Nat \X Slots \X Buffers) \cup {Nobody}]
  <2>1. prefetched \in [Devices -> (Nat \X Slots \X Buffers) \cup {Nobody}]
    BY DEF StreamsTyped
  <2>2. ahead => <<c.generation, s, 1 - c.buffer>> \in Nat \X Slots \X Buffers
    BY <1>2, <1>3, <1>7
  <2> QED BY <2>1, <2>2, <1>given
<1>17. /\ g = running.graph /\ l = running.layer /\ c = ctx[g][l]
       /\ NextLayer /\ Release(g, {l}, extra', <<g, l>>)
  BY <1>given DEF g, l, c
<1>18. copied' \in [Devices \X Buffers -> SUBSET Keys]
  BY <1>10, <1>given
<1>19. PICK other \in Commands : Reloads(g, l, c, reload, other, kernel, hit, ahead, mid)
  <2>1. useDouble => b = c.buffer
    BY <1>3
  <2>2. reload.waits = IF useDouble THEN computed[<<d, b>>] ELSE LastKey(main[d])
    BY <2>1, <1>6, <1>before DEF LastCompute
  <2>3. computed' = IF useDouble THEN [computed EXCEPT ![<<d, b>>] = {kernel.key}] ELSE computed
    BY <2>1, <1>given
  <2>4. prefetched' = IF Prefetching /\ useDouble
                       THEN [prefetched EXCEPT ![d] = IF ahead THEN <<c.generation, c.slot - 1, 1 - b>>
                                                      ELSE Nobody]
                       ELSE prefetched
    BY <2>1, <1>given, <1>s
  <2>0. PICK other \in Commands : ahead => other = next
    BY <1>6, <1>7
  <2>5. ahead => /\ other.key = <<g, l, "prefetch", passes[g]>>
                 /\ other.slot = c.slot - 1 /\ other.buffer = 1 - b
                 /\ other.waits = computed[<<d, 1 - b>>]
                 /\ copied'[<<d, 1 - b>>] = {other.key}
                 /\ Prefetching /\ useDouble
    BY <2>0, <2>1, <1>7, <1>s, <1>kinds, <1>copies, <1>given DEF LastCompute
  <2>6. /\ hit => useDouble /\ prefetched[d] = <<c.generation, c.slot, b>> /\ kernel.waits = copied[<<d, b>>]
        /\ ~hit => reload.key \in kernel.waits
        /\ ~useDouble => ~hit /\ ~ahead /\ kernel.waits = {reload.key}
    BY <1>hit, <1>kinds, <1>waits, <1>12
  <2>7. b = IF useDouble THEN c.buffer ELSE 0
    BY DEF b
  <2>8. queue = IF ahead THEN Append(mid, other) ELSE mid
    BY <2>0, <1>9
  <2>9. Reloads(g, l, c, reload, other, kernel, hit, ahead, mid)
    BY <2>2, <2>3, <2>4, <2>5, <2>6, <2>7, <2>8, <1>d, <1>6, <1>mid, <1>12, <1>13,
       <1>1, <1>2, <1>14, <1>15, <1>17, <1>18 DEF Reloads
  <2> QED BY <2>9
<1> QED
  BY <1>1, <1>2, <1>6, <1>8, <1>12, <1>19, <1>kinds

LEMMA BackwardOffloadedTyped ==
  ASSUME PoolInv, PoolInv', StreamsTyped, BackwardOffloaded
  PROVE  StreamsTyped'
<1>0. TypeOK
  BY DEF StreamsTyped
<1>1. PICK g \in Graphs, l \in 1..Layers, c \in Node, reload \in Commands, kernel \in Commands,
           hit \in BOOLEAN, ahead \in BOOLEAN, mid \in Seq(Commands), next \in Commands :
        Reloads(g, l, c, reload, next, kernel, hit, ahead, mid)
  BY Reloading
<1>2. /\ main' \in [Devices -> Seq(Commands)] /\ extra' \in [Devices -> Seq(Commands)]
      /\ copied' \in [Devices \X Buffers -> SUBSET Keys]
      /\ computed' \in [Devices \X Buffers -> SUBSET Keys]
      /\ prefetched' \in [Devices -> (Nat \X Slots \X Buffers) \cup {Nobody}]
  BY <1>1 DEF Reloads
<1>3. fences' \in [Slots -> SUBSET (Devices \X Keys)]
  <2>1. Release(g, {l}, extra', <<g, l>>) /\ ~Idle /\ g = running.graph /\ l = running.layer
    BY <1>1 DEF Reloads
  <2>2. {l} \subseteq DOMAIN ctx[g]
    BY <2>1 DEF PoolInv, RunsKept, Idle
  <2> QED BY <2>1, <2>2, <1>0, <1>2, ReleaseTyped
<1>4. /\ UNCHANGED <<bufVars, meta, host, staging, passes>> /\ SawBackward
  BY DEF BackwardOffloaded, NextLayer
<1>5. backwardPass' \in BOOLEAN /\ firstPass' \in BOOLEAN /\ lastIndex' \in Nat /\ currentIndex' \in Nat
  BY <1>0, <1>4 DEF SawBackward, TypeOK
<1>6. TypeOK'
  BY <1>0, <1>2, <1>3, <1>4, <1>5, PoolTyped DEF PoolTypes, TypeOK, bufVars
<1>7. ASSUME NEW e \in Devices
      PROVE  /\ \A k \in DOMAIN main'[e] : main'[e][k].key[3] \in {"forward", "recompute"}
             /\ \A k \in DOMAIN extra'[e] : extra'[e][k].key[3] \in {"offload", "reload", "prefetch"}
  <2>1. main[e] \in Seq(Commands) /\ extra[e] \in Seq(Commands)
    BY <1>0 DEF TypeOK
  <2>2. /\ \A k \in DOMAIN main[e] : main[e][k].key[3] \in {"forward", "recompute"}
        /\ \A k \in DOMAIN extra[e] : extra[e][k].key[3] \in {"offload", "reload", "prefetch"}
    BY DEF StreamsTyped
  <2>3. CASE e = c.device
    <3>0. /\ reload.key = <<g, l, "reload", passes[g]>> /\ kernel.key = <<g, l, "recompute", passes[g]>>
          /\ ahead => next.key = <<g, l, "prefetch", passes[g]>>
      BY <1>1 DEF Reloads
    <3>1. /\ reload.key[3] = "reload" /\ kernel.key[3] = "recompute"
          /\ ahead => next.key[3] = "prefetch"
      BY <3>0
    <3>2. /\ main'[e] = Append(main[e], kernel)
          /\ mid = IF hit THEN extra[e] ELSE Append(extra[e], reload)
          /\ extra'[e] = IF ahead THEN Append(mid, next) ELSE mid
      BY <2>3, <1>1 DEF Reloads
    <3>3. \A k \in DOMAIN main'[e] : main'[e][k].key[3] \in {"forward", "recompute"}
      BY <2>1, <2>2, <3>1, <3>2, KindsKept
    <3>4. \A k \in DOMAIN mid : mid[k].key[3] \in {"offload", "reload", "prefetch"}
      <4>1. \A k \in DOMAIN Append(extra[e], reload) :
              Append(extra[e], reload)[k].key[3] \in {"offload", "reload", "prefetch"}
        BY <2>1, <2>2, <3>1, KindsKept
      <4> QED BY <2>2, <3>2, <4>1
    <3>5. CASE ahead
      <4>1. \A k \in DOMAIN Append(mid, next) : Append(mid, next)[k].key[3] \in {"offload", "reload", "prefetch"}
        BY <3>1, <3>4, <3>5, KindsKept
      <4> QED BY <3>2, <3>3, <3>5, <4>1
    <3>6. CASE ~ahead
      BY <3>2, <3>3, <3>4, <3>6
    <3> QED BY <3>5, <3>6
  <2>4. CASE e # c.device
    BY <2>2, <2>4, <1>1 DEF Reloads
  <2> QED BY <2>3, <2>4
<1> QED
  BY <1>2, <1>4, <1>6, <1>7 DEF StreamsTyped

LEMMA ResetTyped ==
  ASSUME PoolInv', StreamsTyped, Reset
  PROVE  StreamsTyped'
<1>0. TypeOK
  BY DEF StreamsTyped
<1>1. fences' \in [Slots -> SUBSET (Devices \X Keys)]
  BY DEF Reset, NoFences
<1>2. /\ useDouble' = FALSE /\ bufferB' \in BOOLEAN /\ backwardPass' = TRUE /\ firstPass' = TRUE
      /\ lastIndex' = 0 /\ currentIndex' = 0
      /\ meta' = <<>> /\ prefetched' = NoneAhead /\ UNCHANGED <<passes, gpuVars>>
  BY <1>0, OffloadAssumption DEF Reset, graphVars, TypeOK
<1>3. TypeOK'
  BY <1>0, <1>1, <1>2, PoolTyped DEF PoolTypes, TypeOK, gpuVars
<1>4. meta' \in Seq(Records) /\ Len(meta') <= MaxSlots
  BY <1>2, OffloadAssumption
<1>5. prefetched' \in [Devices -> (Nat \X Slots \X Buffers) \cup {Nobody}]
  BY <1>2 DEF NoneAhead
<1>6. UNCHANGED <<main, extra>>
  BY <1>2 DEF gpuVars
<1> QED
  BY <1>3, <1>4, <1>5, <1>6 DEF StreamsTyped

LEMMA NextTyped ==
  ASSUME PoolInv, PoolInv', StreamsTyped, [Next]_vars
  PROVE  StreamsTyped'
<1>1. ASSUME NEW g \in Graphs, NEW d \in Devices, ForwardKept(g, d) PROVE StreamsTyped'
  BY <1>1, ForwardKeptTyped
<1>2. ASSUME NEW g \in Graphs, NEW d \in Devices, NEW s \in Slots, ForwardOffloaded(g, d, s)
      PROVE  StreamsTyped'
  BY <1>2, ForwardOffloadedTyped
<1>3. ASSUME NEW g \in Graphs, EndForward(g) PROVE StreamsTyped'
  BY <1>3, EndForwardTyped
<1>4. ASSUME NEW g \in Graphs, Drop(g) PROVE StreamsTyped'
  BY <1>4, DropTyped
<1>5. ASSUME NEW g \in Graphs, NEW retain \in BOOLEAN, BeginBackward(g, retain) PROVE StreamsTyped'
  BY <1>5, BeginBackwardTyped
<1>6. CASE BackwardKept
  BY <1>6, BackwardKeptTyped
<1>7. CASE BackwardOffloaded
  BY <1>7, BackwardOffloadedTyped
<1>8. CASE Reset
  BY <1>8, ResetTyped
<1>9. ASSUME NEW d \in Devices, Copy(d) PROVE StreamsTyped'
  BY <1>9, CopyTyped
<1>10. ASSUME NEW d \in Devices, Compute(d) PROVE StreamsTyped'
  BY <1>10, ComputeTyped
<1>11. CASE UNCHANGED vars
  BY <1>11, StutterTyped
<1> QED
  BY <1>1, <1>2, <1>3, <1>4, <1>5, <1>6, <1>7, <1>8, <1>9, <1>10, <1>11 DEF Next, CPU

-----------------------------------------------------------------------------
(* Keys are of the past, and stay so. *)

KeepsPast == \A key \in Keys : Past(key) => Past(key)'

LEMMA KeyParts ==
  ASSUME NEW key \in Keys
  PROVE  key[1] \in Graphs /\ key[2] \in 1..Layers /\ key[4] \in 0..MaxPasses
BY DEF Keys

LEMMA PastAdded ==
  ASSUME PoolInv, NEW g \in Graphs, NEW node \in Node, AddNode(g, node), UNCHANGED stage
  PROVE  KeepsPast
<1> SUFFICES ASSUME NEW key \in Keys, Past(key) PROVE Past(key)'
  BY DEF KeepsPast
<1>1. key[1] \in Graphs /\ key[2] \in 1..Layers
  BY KeyParts
<1> PICK n : n = <<key[1], key[2]>>
  OBVIOUS
<1>2. n \in Nodes /\ n[1] = key[1] /\ n[2] = key[2]
  BY <1>1 DEF Nodes
<1>3. Exists(n) => Exists(n)'
  BY <1>2, Added DEF PoolInv
<1>4. key[2] \in DOMAIN ctx[key[1]] => key[2] \in DOMAIN ctx'[key[1]]
  BY <1>2, <1>3 DEF Exists
<1>5. UNCHANGED <<passes, running>>
  BY DEF AddNode
<1> QED
  BY <1>4, <1>5 DEF Past

LEMMA PastStepped ==
  ASSUME PoolInv, ~Idle, NextLayer
  PROVE  KeepsPast
<1> SUFFICES ASSUME NEW key \in Keys, Past(key) PROVE Past(key)'
  BY DEF KeepsPast
<1>1. key[1] \in Graphs /\ key[2] \in 1..Layers
  BY KeyParts
<1> PICK n : n = <<key[1], key[2]>>
  OBVIOUS
<1>2. n \in Nodes /\ n[1] = key[1] /\ n[2] = key[2]
  BY <1>1 DEF Nodes
<1>3. Exists(n) => Exists(n)'
  BY <1>2, Stepped DEF PoolInv
<1>4. key[2] \in DOMAIN ctx[key[1]] => key[2] \in DOMAIN ctx'[key[1]]
  BY <1>2, <1>3 DEF Exists
<1>5. UNCHANGED <<passes, stage>>
  BY DEF NextLayer
<1>6. running' # Nobody => /\ running # Nobody /\ running'.graph = running.graph
                           /\ running'.layer = running.layer - 1 /\ running.layer \in 1..Layers
  <2>1. running \in [graph : Graphs, layer : 1..Layers, retain : BOOLEAN] /\ running # Nobody
    BY DEF PoolInv, RunsKept, Idle
  <2> QED BY <2>1 DEF NextLayer
<1>7. key[2] > running.layer /\ running' # Nobody => key[2] > running'.layer
  BY <1>1, <1>6
<1> QED
  BY <1>4, <1>5, <1>6, <1>7 DEF Past

LEMMA PastBegun ==
  ASSUME StreamsTyped, NEW g \in Graphs, NEW retain \in BOOLEAN, BeginBackward(g, retain)
  PROVE  KeepsPast
<1> SUFFICES ASSUME NEW key \in Keys, Past(key) PROVE Past(key)'
  BY DEF KeepsPast
<1>1. key[1] \in Graphs /\ key[4] \in 0..MaxPasses
  BY KeyParts
<1>2. /\ passes' = [passes EXCEPT ![g] = @ + 1] /\ running'.graph = g
      /\ UNCHANGED <<stage, ctx>>
  BY DEF BeginBackward
<1>3. passes \in [Graphs -> 0..MaxPasses] /\ MaxPasses \in Nat
  BY OffloadAssumption DEF StreamsTyped, TypeOK
<1>4. CASE key[1] = g
  <2>1. key[4] <= passes[g] => key[4] < passes'[g]
    BY <1>1, <1>2, <1>3
  <2> QED BY <2>1, <1>1, <1>2, <1>3, <1>4 DEF Past
<1>5. CASE key[1] # g
  <2>1. passes'[key[1]] = passes[key[1]]
    BY <1>1, <1>2, <1>3, <1>5
  <2> QED BY <2>1, <1>2, <1>5 DEF Past
<1> QED
  BY <1>4, <1>5

LEMMA PastDropped ==
  ASSUME PoolInv, NEW g \in Graphs, Drop(g)
  PROVE  KeepsPast
<1> SUFFICES ASSUME NEW key \in Keys, Past(key) PROVE Past(key)'
  BY DEF KeepsPast
<1>1. key[1] \in Graphs
  BY KeyParts
<1>2. /\ stage' = [stage EXCEPT ![g] = "gone"] /\ ctx' = [ctx EXCEPT ![g] = <<>>]
      /\ running' = running \/ running' = Nobody
      /\ passes' = passes
  BY DEF Drop
<1>3. /\ stage'[key[1]] = "gone" \/ (stage'[key[1]] = stage[key[1]] /\ ctx'[key[1]] = ctx[key[1]])
      /\ stage[key[1]] = "gone" => stage'[key[1]] = "gone"
  BY <1>1, <1>2 DEF PoolInv, Typed
<1> QED
  BY <1>2, <1>3 DEF Past

LEMMA PastEnded ==
  ASSUME PoolInv, NEW g \in Graphs, EndForward(g)
  PROVE  KeepsPast
<1> SUFFICES ASSUME NEW key \in Keys, Past(key) PROVE Past(key)'
  BY DEF KeepsPast
<1>1. key[1] \in Graphs
  BY KeyParts
<1>2. /\ stage' = [stage EXCEPT ![g] = "ready"] /\ stage[g] = "forward"
      /\ UNCHANGED <<ctx, running, passes>>
  BY DEF EndForward
<1>3. stage[key[1]] = "gone" => stage'[key[1]] = "gone"
  BY <1>1, <1>2 DEF PoolInv, Typed
<1> QED
  BY <1>2, <1>3 DEF Past

LEMMA PastSame ==
  ASSUME UNCHANGED graphVars
  PROVE  KeepsPast
BY DEF KeepsPast, Past, graphVars

-----------------------------------------------------------------------------
(* Steps of the CPU that give the streams nothing. *)

KeepsReadable ==
  \A n \in Nodes : Ours(n)' /\ (At(n)').kept => Ours(n) /\ At(n).kept /\ (At(n)').slot = At(n).slot

LEMMA KeysKept ==
  ASSUME KeysOnce, KeepsPast, UNCHANGED <<main, extra>>
  PROVE  KeysOnce'
BY DEF KeysOnce, KeepsPast, Queued, Distinct

LEMMA HostKeptQuiet ==
  ASSUME HostKept, KeepsReadable, UNCHANGED <<extra, host>>
  PROVE  HostKept'
<1> SUFFICES ASSUME NEW d \in Devices, NEW n \in Nodes, Ours(n)', (At(n)').kept
             PROVE  Found(extra'[d], host', Len(extra'[d]) + 1, (At(n)').slot, n)
  BY DEF HostKept
<1>1. Ours(n) /\ At(n).kept /\ (At(n)').slot = At(n).slot
  BY DEF KeepsReadable
<1>2. Found(extra[d], host, Len(extra[d]) + 1, At(n).slot, n)
  BY <1>1 DEF HostKept
<1> QED
  BY <1>1, <1>2

\* The rest of the invariant, when neither the streams nor what is read of
\* their events changes.
LEMMA QuietReads ==
  ASSUME ReadsInv, StreamsTyped', KeepsPast, KeepsReadable,
         UNCHANGED <<useDouble, prefetched, gpuVars>>, backwardPass => backwardPass'
  PROVE  ReadsInv'
<1>1. UNCHANGED <<main, extra, computed, copied, host, staging>>
  BY DEF gpuVars
<1>2. KeysOnce' /\ HostKept'
  BY <1>1, KeysKept, HostKeptQuiet DEF ReadsInv
<1>3. RecomputesServed'
  BY <1>1 DEF ReadsInv, RecomputesServed
<1>4. Awaited'
  BY <1>1 DEF ReadsInv, Awaited
<1>5. AheadOfUse'
  BY <1>1 DEF ReadsInv, AheadOfUse
<1> QED
  BY <1>2, <1>3, <1>4, <1>5 DEF ReadsInv

LEMMA ForwardKeptReads ==
  ASSUME PoolInv, PoolInv', ReadsInv, NEW g \in Graphs, NEW d \in Devices, ForwardKept(g, d)
  PROVE  ReadsInv'
<1> PICK node : node = [device |-> d, slot |-> OnDevice, buffer |-> 0, generation |-> generation,
                        epoch |-> epoch, leased |-> FALSE, kept |-> TRUE]
  OBVIOUS
<1> PICK new : new = <<g, Len(ctx[g]) + 1>>
  OBVIOUS
<1>0. TypeOK /\ StreamsTyped
  BY DEF ReadsInv, StreamsTyped
<1>1. node \in Node /\ node.slot = OnDevice
  BY DEF Node, PoolInv, Typed, Buffers
<1>2. /\ AddNode(g, node) /\ UNCHANGED <<epoch, stage, backwardPass>> /\ Advance
      /\ UNCHANGED <<poolVars, bufVars, preVars, gpuVars>>
  BY DEF ForwardKept, poolVars
<1>3. KeepsPast
  BY <1>1, <1>2, PastAdded
<1>4. KeepsReadable
  <2>1. /\ \A n \in Nodes : Exists(n) => Exists(n)' /\ At(n)' = At(n)
        /\ \A n \in Nodes : Exists(n)' /\ ~Exists(n) => n = new
        /\ At(new)' = node
    BY <1>1, <1>2, Added DEF PoolInv
  <2>2. ASSUME NEW n \in Nodes, Ours(n)' PROVE Exists(n) /\ At(n)' = At(n)
    <3>1. n # new
      BY <2>1, <2>2, <1>1 DEF Ours
    <3> QED BY <2>1, <2>2, <3>1 DEF Ours
  <2> QED BY <2>2, <1>2 DEF KeepsReadable, Ours
<1>5. UNCHANGED <<useDouble, prefetched>>
  BY <1>2 DEF bufVars, preVars
<1>6. StreamsTyped'
  BY <1>0, ForwardKeptTyped
<1> QED
  BY <1>2, <1>3, <1>4, <1>5, <1>6, QuietReads

\* Steps that leave the nodes alone leave alone which may be run.
LEMMA ReadableSame ==
  ASSUME UNCHANGED <<ctx, epoch>>
  PROVE  KeepsReadable
BY DEF KeepsReadable, Ours, Exists, At

LEMMA EndForwardReads ==
  ASSUME PoolInv, PoolInv', ReadsInv, NEW g \in Graphs, EndForward(g)
  PROVE  ReadsInv'
<1>0. TypeOK /\ StreamsTyped
  BY DEF ReadsInv, StreamsTyped
<1>1. UNCHANGED <<poolVars, passVars, bufVars, preVars, ctx, passes, running, gpuVars>>
  BY DEF EndForward
<1>2. /\ UNCHANGED <<useDouble, bufferB, meta, prefetched, fences, ctx, epoch, passes>>
      /\ UNCHANGED <<backwardPass, firstPass, lastIndex, currentIndex, gpuVars>>
  BY <1>1 DEF poolVars, passVars, bufVars, preVars
<1>3. KeepsPast /\ KeepsReadable
  BY <1>2, PastEnded, ReadableSame
<1>4. StreamsTyped'
  BY <1>0, EndForwardTyped
<1> QED
  BY <1>2, <1>3, <1>4, QuietReads

LEMMA BeginBackwardReads ==
  ASSUME PoolInv, PoolInv', ReadsInv, NEW g \in Graphs, NEW retain \in BOOLEAN, BeginBackward(g, retain)
  PROVE  ReadsInv'
<1>0. TypeOK /\ StreamsTyped
  BY DEF ReadsInv, StreamsTyped
<1>1. /\ UNCHANGED <<poolVars, passVars, bufVars, preVars, stage, ctx, gpuVars>>
      /\ passes' = [passes EXCEPT ![g] = @ + 1] /\ passes[g] < MaxPasses
  BY DEF BeginBackward
<1>2. /\ UNCHANGED <<useDouble, bufferB, meta, prefetched, fences, ctx, epoch>>
      /\ UNCHANGED <<backwardPass, firstPass, lastIndex, currentIndex, gpuVars>>
  BY <1>1 DEF poolVars, passVars, bufVars, preVars
<1>3. KeepsPast /\ KeepsReadable
  BY <1>0, <1>2, PastBegun, ReadableSame
<1>4. StreamsTyped'
  BY <1>0, BeginBackwardTyped
<1> QED
  BY <1>2, <1>3, <1>4, QuietReads

\* The backward of a layer adds nothing to what may be run.
LEMMA ReadableStepped ==
  ASSUME PoolInv, ~Idle, NextLayer, UNCHANGED epoch
  PROVE  KeepsReadable
<1> PICK now : now = <<running.graph, running.layer>>
  OBVIOUS
<1>1. /\ At(now).kept
      /\ \A n \in Nodes : /\ Exists(n)' <=> Exists(n)
                          /\ Exists(n) => /\ (At(n)').epoch = At(n).epoch
                                          /\ (At(n)').slot = At(n).slot
                          /\ Exists(n) /\ n # now => At(n)' = At(n)
  BY Stepped DEF PoolInv
<1> SUFFICES ASSUME NEW n \in Nodes, Ours(n)', (At(n)').kept
             PROVE  Ours(n) /\ At(n).kept /\ (At(n)').slot = At(n).slot
  BY DEF KeepsReadable
<1>2. Exists(n) /\ (At(n)').epoch = At(n).epoch /\ (At(n)').slot = At(n).slot
  BY <1>1 DEF Ours
<1>3. At(n).kept
  <2>1. CASE n = now
    BY <2>1, <1>1
  <2>2. CASE n # now
    BY <2>2, <1>1, <1>2
  <2> QED BY <2>1, <2>2
<1> QED
  BY <1>2, <1>3 DEF Ours

LEMMA BackwardKeptReads ==
  ASSUME PoolInv, PoolInv', ReadsInv, BackwardKept
  PROVE  ReadsInv'
<1>0. TypeOK /\ StreamsTyped
  BY DEF ReadsInv, StreamsTyped
<1>1. ~Idle /\ NextLayer /\ SawBackward /\ UNCHANGED <<poolVars, bufVars, preVars, gpuVars>>
  BY DEF BackwardKept
<1>2. /\ UNCHANGED <<useDouble, bufferB, meta, prefetched, fences, epoch, passes, gpuVars, lastIndex>>
      /\ backwardPass' = TRUE /\ firstPass' = FALSE /\ currentIndex' = 0
  BY <1>1 DEF poolVars, bufVars, preVars, NextLayer, SawBackward
<1>3. KeepsPast /\ KeepsReadable
  BY <1>1, <1>2, PastStepped, ReadableStepped
<1>4. StreamsTyped'
  BY <1>0, BackwardKeptTyped
<1> QED
  BY <1>2, <1>3, <1>4, QuietReads

LEMMA DropReads ==
  ASSUME PoolInv, PoolInv', ReadsInv, NEW g \in Graphs, Drop(g)
  PROVE  ReadsInv'
<1>0. TypeOK /\ StreamsTyped
  BY DEF ReadsInv, StreamsTyped
<1>1. /\ ctx' = [ctx EXCEPT ![g] = <<>>] /\ Release(g, DOMAIN ctx[g], extra, Nobody)
      /\ UNCHANGED <<passVars, bufVars, preVars, passes, gpuVars>>
  BY DEF Drop
<1>2. /\ UNCHANGED <<useDouble, bufferB, meta, prefetched, passes, gpuVars, epoch>>
      /\ UNCHANGED <<backwardPass, firstPass, lastIndex, currentIndex>>
  BY <1>1 DEF passVars, bufVars, preVars, Release
<1>3. KeepsPast
  BY PastDropped
<1>4. KeepsReadable
  <2> SUFFICES ASSUME NEW n \in Nodes, Exists(n)' PROVE Exists(n) /\ At(n)' = At(n)
    BY <1>2 DEF KeepsReadable, Ours
  <2>1. n[1] \in Graphs /\ ctx \in [Graphs -> Seq(Node)]
    BY NodeParts DEF PoolInv, Typed
  <2>2. n[1] # g
    <3>1. n[1] = g => ctx'[n[1]] = <<>>
      BY <2>1, <1>1
    <3>2. DOMAIN <<>> = {}
      OBVIOUS
    <3> QED BY <3>1, <3>2 DEF Exists
  <2>3. ctx'[n[1]] = ctx[n[1]]
    BY <2>1, <2>2, <1>1
  <2> QED BY <2>3 DEF Exists, At
<1>5. StreamsTyped'
  BY <1>0, DropTyped
<1> QED
  BY <1>2, <1>3, <1>4, <1>5, QuietReads

-----------------------------------------------------------------------------
(* Steps of the devices. *)

\* r is q without its first command, whose key no other has.
Pops(r, q) ==
  /\ \A k \in DOMAIN r : k + 1 \in DOMAIN q /\ r[k] = q[k + 1] /\ r[k].key # q[1].key
  /\ \A k \in DOMAIN q : k # 1 => k - 1 \in DOMAIN r /\ r[k - 1] = q[k]

LEMMA PopKeys ==
  ASSUME NEW q \in Seq(Commands), q # <<>>, Distinct(q), NEW r, r = Tail(q)
  PROVE  Distinct(r) /\ Pops(r, q)
<1>1. /\ Len(q) \in Nat \ {0} /\ Len(r) = Len(q) - 1 /\ DOMAIN q = 1..Len(q) /\ DOMAIN r = 1..Len(r)
      /\ \A k \in 1..Len(r) : r[k] = q[k + 1]
  BY Popped
<1>2. ASSUME NEW k \in DOMAIN r
      PROVE  k + 1 \in DOMAIN q /\ 1 \in DOMAIN q /\ r[k] = q[k + 1] /\ k + 1 # 1
  BY <1>1
<1>3. \A k \in DOMAIN r : r[k].key # q[1].key
  BY <1>2 DEF Distinct
<1>4. ASSUME NEW i \in DOMAIN r, NEW j \in DOMAIN r, r[i].key = r[j].key
      PROVE  i = j
  <2>1. i + 1 = j + 1
    BY <1>2, <1>4 DEF Distinct
  <2> QED BY <2>1, <1>1
<1>5. ASSUME NEW k \in DOMAIN q, k # 1
      PROVE  k - 1 \in DOMAIN r /\ r[k - 1] = q[k]
  <2>1. k - 1 \in DOMAIN r /\ (k - 1) + 1 = k
    BY <1>1, <1>5
  <2>2. r[k - 1] = q[(k - 1) + 1]
    BY <2>1, <1>1
  <2> QED BY <2>1, <2>2
<1> QED
  BY <1>2, <1>3, <1>4, <1>5 DEF Distinct, Pops

\* The kinds of the commands of the two streams differ.
LEMMA KeysDiffer ==
  ASSUME StreamsTyped, NEW d \in Devices, NEW j \in DOMAIN main[d], NEW k \in DOMAIN extra[d]
  PROVE  main[d][j].key # extra[d][k].key
<1>1. main[d][j].key[3] \in {"forward", "recompute"} /\ extra[d][k].key[3] \in {"offload", "reload", "prefetch"}
  BY DEF StreamsTyped
<1> QED
  BY <1>1

LEMMA CopyReads ==
  ASSUME OneDevice, PoolInv', ReadsInv, NEW d \in Devices, Copy(d)
  PROVE  ReadsInv'
<1>q. PICK q, r, m : q = extra[d] /\ r = Tail(q) /\ m = main[d]
  OBVIOUS
<1>only. \A e \in Devices : e = d
  BY DEF OneDevice
<1>0. TypeOK /\ StreamsTyped /\ KeysOnce
  BY DEF ReadsInv, StreamsTyped
<1>1. /\ StreamsTyped' /\ q # <<>> /\ q \in Seq(Commands) /\ q[1] \in Commands
      /\ extra'[d] = r /\ host' = Copied(q, host)
      /\ \A b \in Buffers : staging'[<<d, b>>] = IF IsLoad(q[1]) /\ q[1].buffer = b
                                                 THEN host[q[1].slot] ELSE staging[<<d, b>>]
      /\ \A x \in Devices \X Buffers : computed'[x] = computed[x] \ {q[1].key} /\ copied'[x] = copied[x] \ {q[1].key}
  BY <1>0, <1>q, CopyTyped
<1>2. UNCHANGED <<passVars, bufVars, preVars, graphVars, main, epoch>>
  BY DEF Copy
<1>3. UNCHANGED <<useDouble, backwardPass, prefetched, ctx, main, epoch>>
  BY <1>2 DEF passVars, bufVars, preVars, graphVars
<1>same. extra'[d] = r /\ main'[d] = m
  BY <1>1, <1>3, <1>q
<1>4. /\ Len(q) \in Nat \ {0} /\ Len(r) = Len(q) - 1 /\ Len(r) \in Nat
      /\ DOMAIN q = 1..Len(q) /\ DOMAIN r = 1..Len(r)
  BY <1>1, <1>q, Popped
<1>len. r \in Seq(Commands) /\ \A x \in Seq(Commands) : x = <<>> <=> Len(x) = 0
  <2>1. r \in Seq(Commands)
    BY <1>1, <1>q
  <2>2. \A x \in Seq(Commands) : x = <<>> <=> Len(x) = 0
    OBVIOUS
  <2> QED BY <2>1, <2>2
<1>5. Distinct(m) /\ Distinct(q)
  BY <1>0, <1>q DEF KeysOnce
<1>6. /\ Distinct(r)
      /\ \A k \in DOMAIN r : k + 1 \in DOMAIN q /\ r[k] = q[k + 1] /\ r[k].key # q[1].key
      /\ \A k \in DOMAIN q : k # 1 => k - 1 \in DOMAIN r /\ r[k - 1] = q[k]
  <2>1. q \in Seq(Commands) /\ q # <<>> /\ r = Tail(q)
    BY <1>1, <1>q
  <2>2. Distinct(r) /\ Pops(r, q)
    BY <2>1, <1>5, PopKeys
  <2> QED BY <2>2 DEF Pops
<1>7. Over(q, m)
  <2>1. q[1].waits \cap Pending = {}
    BY <1>1, <1>q DEF Copy, Runnable
  <2>2. \A y \in DOMAIN m : m[y].key \in Pending
    BY <1>q DEF Pending
  <2> QED BY <2>1, <2>2 DEF Over
<1>8. m \in Seq(Commands) /\ host \in [Slots -> Nodes \cup {Nobody}]
  BY <1>0, <1>q DEF TypeOK
<1>9. \A j \in DOMAIN m : m[j].buffer \in Buffers
  <2>1. \A j \in DOMAIN m : m[j] \in Commands
    BY <1>8
  <2> QED BY <2>1 DEF Commands
<1>10. KeysOnce'
  <2>1. KeepsPast
    BY <1>2, PastSame
  <2>2. ASSUME NEW key \in Keys, Queued(d, key)' PROVE Queued(d, key)
    BY <2>2, <1>q, <1>1, <1>3, <1>6 DEF Queued
  <2>3. Distinct(main[d])' /\ Distinct(extra[d])'
    BY <1>q, <1>1, <1>3, <1>5, <1>6
  <2> QED BY <2>1, <2>2, <2>3, <1>0, <1>only DEF KeysOnce, KeepsPast
<1>11. HostKept'
  <2> SUFFICES ASSUME NEW n \in Nodes, Ours(n)', (At(n)').kept
               PROVE  Found(r, host', Len(r) + 1, (At(n)').slot, n)
    BY <1>only, <1>same DEF HostKept
  <2>1. Ours(n) /\ At(n)' = At(n)
    BY <1>3 DEF Ours, Exists, At
  <2>2. Found(q, host, Len(q) + 1, At(n).slot, n)
    BY <2>1, <1>q DEF ReadsInv, HostKept
  <2>3. Len(q) + 1 \in 2..(Len(q) + 1) /\ (Len(q) + 1) - 1 = Len(r) + 1
    BY <1>4
  <2>4. Found(Tail(q), Copied(q, host), (Len(q) + 1) - 1, At(n).slot, n)
    BY <2>2, <2>3, <1>1, <1>8, FoundPopped
  <2> QED BY <2>1, <2>3, <2>4, <1>1, <1>q
<1>12. RecomputesServed'
  <2> SUFFICES ASSUME NEW j \in DOMAIN m, IsRecompute(m[j])
               PROVE  Served(r, m, host', staging'[<<d, m[j].buffer>>], j)
    BY <1>only, <1>same DEF RecomputesServed
  <2>1. Served(q, m, host, staging[<<d, m[j].buffer>>], j)
    BY <1>q DEF ReadsInv, RecomputesServed
  <2>2. staging'[<<d, m[j].buffer>>] = IF IsLoad(q[1]) /\ q[1].buffer = m[j].buffer
                                       THEN host[q[1].slot] ELSE staging[<<d, m[j].buffer>>]
    BY <1>1, <1>9
  <2>3. q \in Seq(Commands) /\ q # <<>> /\ Tail(q) = r /\ host' = Copied(q, host)
    BY <1>1, <1>q
  <2> QED BY <2>1, <2>2, <2>3, <1>7, <1>8, ServedCopied
<1>13. Awaited'
  <2> SUFFICES ASSUME useDouble, NEW j \in DOMAIN m, IsRecompute(m[j])
               PROVE  \/ \E y \in DOMAIN m : y >= j /\ m[y].key \in computed'[<<d, m[j].buffer>>]
                      \/ Behind(r, Len(r), m, j)
    BY <1>only, <1>same, <1>3 DEF Awaited
  <2>1. CASE \E y \in DOMAIN m : y >= j /\ m[y].key \in computed[<<d, m[j].buffer>>]
    <3>1. PICK y \in DOMAIN m : y >= j /\ m[y].key \in computed[<<d, m[j].buffer>>]
      BY <2>1
    <3>2. m[y].key # q[1].key
      BY <1>0, <1>4, <1>q, KeysDiffer
    <3>3. <<d, m[j].buffer>> \in Devices \X Buffers
      BY <1>9
    <3> QED BY <3>1, <3>2, <3>3, <1>1
  <2>2. CASE Behind(q, Len(q), m, j)
    <3>1. Behind(Tail(q), Len(q) - 1, m, j)
      BY <2>2, <1>1, <1>4, <1>7, BehindCopied
    <3> QED BY <3>1, <1>4, <1>q
  <2> QED BY <2>1, <2>2, <1>q DEF ReadsInv, Awaited
<1>14. AheadOfUse'
  <2> SUFFICES ASSUME prefetched[d] # Nobody,
                      NEW s, NEW b, s = prefetched[d][2], b = prefetched[d][3]
               PROVE  /\ backwardPass /\ useDouble /\ Prefetching
                      /\ \/ /\ r # <<>> /\ IsLoad(r[Len(r)])
                            /\ r[Len(r)].slot = s /\ r[Len(r)].buffer = b
                            /\ copied'[<<d, b>>] = {r[Len(r)].key}
                         \/ r = <<>> /\ staging'[<<d, b>>] = host'[s] /\ copied'[<<d, b>>] = {}
    BY <1>only, <1>same, <1>3 DEF AheadOfUse
  <2>1. /\ backwardPass /\ useDouble /\ Prefetching /\ IsLoad(q[Len(q)])
        /\ q[Len(q)].slot = s /\ q[Len(q)].buffer = b
        /\ copied[<<d, b>>] = {q[Len(q)].key}
    BY <1>1, <1>q DEF ReadsInv, AheadOfUse
  <2>2. b \in Buffers
    <3>1. Len(q) \in DOMAIN q
      BY <1>4
    <3>2. q[Len(q)] \in Commands
      BY <3>1, <1>1
    <3> QED BY <3>2, <2>1 DEF Commands
  <2>3. <<d, b>> \in Devices \X Buffers
    BY <2>2
  <2>4. CASE Len(q) = 1
    <3>1. r = <<>>
      BY <2>4, <1>4, <1>len
    <3>2. copied'[<<d, b>>] = {}
      BY <2>1, <2>3, <2>4, <1>1
    <3>3. host' = host
      BY <2>1, <2>4, <1>1 DEF Copied, IsOffload, IsLoad
    <3>4. staging'[<<d, b>>] = host[s]
      BY <2>1, <2>2, <2>4, <1>1
    <3> QED BY <2>1, <3>1, <3>2, <3>3, <3>4
  <2>5. CASE Len(q) # 1
    <3>1. Len(q) \in DOMAIN q /\ Len(q) - 1 = Len(r)
      BY <1>4
    <3>2. Len(q) - 1 \in DOMAIN r /\ r[Len(q) - 1] = q[Len(q)]
      BY <3>1, <2>5, <1>6
    <3>6. Len(r) \in DOMAIN r /\ r[Len(r)] = q[Len(q)]
      BY <3>1, <3>2
    <3>3. r[Len(r)].key # q[1].key
      BY <3>6, <1>6
    <3>4. copied'[<<d, b>>] = {r[Len(r)].key}
      BY <2>1, <2>3, <3>6, <3>3, <1>1
    <3>5. r # <<>>
      BY <3>6, <1>4
    <3> QED BY <2>1, <3>6, <3>4, <3>5
  <2> QED BY <2>4, <2>5
<1> QED
  BY <1>1, <1>10, <1>11, <1>12, <1>13, <1>14 DEF ReadsInv

LEMMA ComputeReads ==
  ASSUME OneDevice, PoolInv', ReadsInv, NEW d \in Devices, Compute(d)
  PROVE  ReadsInv'
<1>q. PICK m, p, q : m = main[d] /\ p = Tail(m) /\ q = extra[d]
  OBVIOUS
<1>only. \A e \in Devices : e = d
  BY DEF OneDevice
<1>0. TypeOK /\ StreamsTyped /\ KeysOnce
  BY DEF ReadsInv, StreamsTyped
<1>1. /\ StreamsTyped' /\ m # <<>> /\ m \in Seq(Commands) /\ m[1] \in Commands
      /\ main'[d] = p
      /\ \A x \in Devices \X Buffers : computed'[x] = computed[x] \ {m[1].key} /\ copied'[x] = copied[x] \ {m[1].key}
  BY <1>0, <1>q, ComputeTyped
<1>2. UNCHANGED <<passVars, bufVars, preVars, graphVars, epoch, extra, host, staging>>
  BY DEF Compute
<1>3. UNCHANGED <<useDouble, backwardPass, prefetched, ctx, epoch>>
  BY <1>2 DEF passVars, bufVars, preVars, graphVars
<1>same. extra'[d] = q /\ main'[d] = p /\ UNCHANGED <<host, staging>>
  BY <1>1, <1>2, <1>q
<1>4. /\ Len(m) \in Nat \ {0} /\ Len(p) = Len(m) - 1 /\ Len(p) \in Nat
      /\ DOMAIN m = 1..Len(m) /\ DOMAIN p = 1..Len(p)
  BY <1>1, <1>q, Popped
<1>5. Distinct(m) /\ Distinct(q)
  BY <1>0, <1>q DEF KeysOnce
<1>6. /\ Distinct(p)
      /\ \A k \in DOMAIN p : k + 1 \in DOMAIN m /\ p[k] = m[k + 1] /\ p[k].key # m[1].key
      /\ \A k \in DOMAIN m : k # 1 => k - 1 \in DOMAIN p /\ p[k - 1] = m[k]
  <2>1. m \in Seq(Commands) /\ m # <<>> /\ p = Tail(m)
    BY <1>1, <1>q
  <2>2. Distinct(p) /\ Pops(p, m)
    BY <2>1, <1>5, PopKeys
  <2> QED BY <2>2 DEF Pops
<1>7. ASSUME NEW j \in DOMAIN p
      PROVE  j + 1 \in DOMAIN m /\ p[j] = m[j + 1] /\ j + 1 # 1 /\ (j + 1) - 1 = j /\ j + 1 \in Nat /\ j + 1 >= 2
  BY <1>4, <1>6
<1>10. KeysOnce'
  <2>1. KeepsPast
    BY <1>2, PastSame
  <2>2. ASSUME NEW key \in Keys, Queued(d, key)' PROVE Queued(d, key)
    BY <2>2, <1>q, <1>same, <1>6 DEF Queued
  <2>3. Distinct(main[d])' /\ Distinct(extra[d])'
    BY <1>same, <1>5, <1>6
  <2> QED BY <2>1, <2>2, <2>3, <1>0, <1>only DEF KeysOnce, KeepsPast
<1>11. HostKept'
  <2>1. KeepsReadable
    BY <1>3, ReadableSame
  <2> QED BY <2>1, <1>2, HostKeptQuiet DEF ReadsInv
<1>12. RecomputesServed'
  <2> SUFFICES ASSUME NEW j \in DOMAIN p, IsRecompute(p[j])
               PROVE  Served(q, p, host, staging[<<d, p[j].buffer>>], j)
    BY <1>only, <1>same DEF RecomputesServed
  <2>1. Served(q, m, host, staging[<<d, m[j + 1].buffer>>], j + 1)
    BY <1>7, <1>q DEF ReadsInv, RecomputesServed
  <2>2. Served(q, Tail(m), host, staging[<<d, m[j + 1].buffer>>], (j + 1) - 1)
    BY <2>1, <1>1, <1>7, ServedComputed
  <2> QED BY <2>2, <1>7, <1>q
<1>13. Awaited'
  <2> SUFFICES ASSUME useDouble, NEW j \in DOMAIN p, IsRecompute(p[j])
               PROVE  \/ \E y \in DOMAIN p : y >= j /\ p[y].key \in computed'[<<d, p[j].buffer>>]
                      \/ Behind(q, Len(q), p, j)
    BY <1>only, <1>same, <1>3 DEF Awaited
  <2>1. CASE \E y \in DOMAIN m : y >= j + 1 /\ m[y].key \in computed[<<d, p[j].buffer>>]
    <3>1. PICK y \in DOMAIN m : y >= j + 1 /\ m[y].key \in computed[<<d, p[j].buffer>>]
      BY <2>1
    <3>2. y # 1 /\ y - 1 >= j
      BY <3>1, <1>4
    <3>3. y - 1 \in DOMAIN p /\ p[y - 1] = m[y]
      BY <3>2, <1>6
    <3>4. p[y - 1].key # m[1].key
      BY <3>3, <1>6
    <3>5. <<d, p[j].buffer>> \in Devices \X Buffers
      <4>1. p[j] \in Commands
        BY <1>1, <1>7
      <4> QED BY <4>1 DEF Commands
    <3> QED BY <3>1, <3>2, <3>3, <3>4, <3>5, <1>1
  <2>2. CASE Behind(q, Len(q), m, j + 1)
    <3>1. Behind(q, Len(q), Tail(m), (j + 1) - 1)
      BY <2>2, <1>1, <1>7, BehindComputed
    <3> QED BY <3>1, <1>7, <1>q
  <2> QED BY <2>1, <2>2, <1>7, <1>q DEF ReadsInv, Awaited
<1>14. AheadOfUse'
  <2> SUFFICES ASSUME prefetched[d] # Nobody,
                      NEW s, NEW b, s = prefetched[d][2], b = prefetched[d][3]
               PROVE  /\ backwardPass /\ useDouble /\ Prefetching
                      /\ \/ /\ q # <<>> /\ IsLoad(q[Len(q)])
                            /\ q[Len(q)].slot = s /\ q[Len(q)].buffer = b
                            /\ copied'[<<d, b>>] = {q[Len(q)].key}
                         \/ q = <<>> /\ staging[<<d, b>>] = host[s] /\ copied'[<<d, b>>] = {}
    BY <1>only, <1>same, <1>3 DEF AheadOfUse
  <2>1. /\ backwardPass /\ useDouble /\ Prefetching
        /\ \/ /\ q # <<>> /\ IsLoad(q[Len(q)])
              /\ q[Len(q)].slot = s /\ q[Len(q)].buffer = b
              /\ copied[<<d, b>>] = {q[Len(q)].key}
           \/ q = <<>> /\ staging[<<d, b>>] = host[s] /\ copied[<<d, b>>] = {}
    BY <1>q DEF ReadsInv, AheadOfUse
  <2>2. b \in Buffers
    <3>1. prefetched[d] \in Nat \X Slots \X Buffers
      BY <1>0 DEF StreamsTyped
    <3> QED BY <3>1
  <2>3. copied'[<<d, b>>] = copied[<<d, b>>] \ {m[1].key}
    BY <2>2, <1>1
  <2>4. CASE q # <<>>
    <3>1. q \in Seq(Commands)
      BY <1>0, <1>q DEF TypeOK
    <3>2. Len(q) \in DOMAIN q /\ 1 \in DOMAIN m
      BY <2>4, <3>1, <1>4
    <3>3. q[Len(q)].key # m[1].key
      BY <3>2, <1>0, <1>q, KeysDiffer
    <3> QED BY <2>1, <2>3, <2>4, <3>3
  <2>5. CASE q = <<>>
    BY <2>1, <2>3, <2>5
  <2> QED BY <2>4, <2>5
<1> QED
  BY <1>1, <1>10, <1>11, <1>12, <1>13, <1>14 DEF ReadsInv

-----------------------------------------------------------------------------
(* Steps of the CPU that give the streams commands. *)

LEMMA ResetReads ==
  ASSUME PoolInv, PoolInv', ReadsInv, Reset
  PROVE  ReadsInv'
<1>1. /\ UNCHANGED <<graphVars, gpuVars>> /\ useDouble' = FALSE /\ prefetched' = NoneAhead
      /\ epoch' = epoch + 1
  BY DEF Reset
<1>2. UNCHANGED <<main, extra, computed, copied, host, staging, ctx>>
  BY <1>1 DEF graphVars, gpuVars
<1>3. StreamsTyped'
  BY ResetTyped DEF ReadsInv
<1>4. KeysOnce'
  BY <1>1, <1>2, PastSame, KeysKept DEF ReadsInv
\* No node is of the new pool.
<1>5. KeepsReadable
  <2> SUFFICES ASSUME NEW n \in Nodes, Exists(n)' PROVE (At(n)').epoch # epoch'
    BY DEF KeepsReadable, Ours
  <2>1. Exists(n) /\ At(n)' = At(n)
    BY <1>2 DEF Exists, At
  <2>2. At(n).epoch \in Nat /\ At(n).epoch <= epoch /\ epoch \in Nat
    BY <2>1, AtTyped DEF PoolInv, Typed, NodesSound, Node
  <2> QED BY <2>1, <2>2, <1>1
<1>6. HostKept'
  BY <1>2, <1>5, HostKeptQuiet DEF ReadsInv
<1>7. RecomputesServed'
  BY <1>2 DEF ReadsInv, RecomputesServed
<1>8. Awaited' /\ AheadOfUse'
  BY <1>1 DEF Awaited, AheadOfUse, NoneAhead
<1> QED
  BY <1>3, <1>4, <1>6, <1>7, <1>8 DEF ReadsInv

\* A command of a key that no other has, at the end of a stream.
Pushes(r, q, c) ==
  /\ Continues(r, q) /\ Len(r) = Len(q) + 1 /\ r[Len(q) + 1] = c
  /\ \A k \in DOMAIN r : k \in DOMAIN q \/ k = Len(q) + 1

LEMMA PushedIs ==
  ASSUME NEW q \in Seq(Commands), NEW c \in Commands
  PROVE  Pushes(Append(q, c), q, c)
<1> PICK r : r = Append(q, c)
  OBVIOUS
<1>1. /\ r \in Seq(Commands) /\ Len(r) = Len(q) + 1 /\ Len(q) \in Nat
      /\ DOMAIN q = 1..Len(q) /\ DOMAIN r = 1..(Len(q) + 1)
      /\ \A k \in 1..Len(q) : r[k] = q[k]
      /\ r[Len(q) + 1] = c
  BY Pushed
<1>2. \A k \in DOMAIN r : k \in DOMAIN q \/ k = Len(q) + 1
  BY <1>1
<1>3. Continues(r, q)
  BY <1>1 DEF Continues
<1> QED
  BY <1>1, <1>2, <1>3 DEF Pushes

LEMMA PushDistinct ==
  ASSUME NEW q, NEW r, NEW c, Pushes(r, q, c), Distinct(q), \A k \in DOMAIN q : q[k].key # c.key
  PROVE  /\ Distinct(r)
         /\ \A k \in DOMAIN r : r[k].key = c.key \/ \E i \in DOMAIN q : q[i].key = r[k].key
<1>1. /\ Len(q) \in Nat /\ DOMAIN q = 1..Len(q) /\ \A k \in DOMAIN q : r[k] = q[k]
      /\ r[Len(q) + 1] = c
      /\ \A k \in DOMAIN r : k \in DOMAIN q \/ k = Len(q) + 1
  BY DEF Pushes, Continues
<1>2. ASSUME NEW i \in DOMAIN r, NEW j \in DOMAIN r, r[i].key = r[j].key
      PROVE  i = j
  <2>1. CASE i \in DOMAIN q /\ j \in DOMAIN q
    BY <2>1, <1>1, <1>2 DEF Distinct
  <2>2. CASE i \in DOMAIN q /\ j = Len(q) + 1
    BY <2>2, <1>1, <1>2
  <2>3. CASE i = Len(q) + 1 /\ j \in DOMAIN q
    BY <2>3, <1>1, <1>2
  <2> QED BY <2>1, <2>2, <2>3, <1>1
<1>3. \A k \in DOMAIN r : r[k].key = c.key \/ \E i \in DOMAIN q : q[i].key = r[k].key
  BY <1>1
<1> QED
  BY <1>2, <1>3 DEF Distinct

LEMMA PushParts ==
  ASSUME NEW q, NEW r, NEW c, Pushes(r, q, c)
  PROVE  /\ Continues(r, q) /\ Len(q) \in Nat /\ Len(r) = Len(q) + 1 /\ r[Len(q) + 1] = c
         /\ DOMAIN q = 1..Len(q) /\ DOMAIN r = 1..Len(r)
         /\ \A k \in DOMAIN q : r[k] = q[k]
BY DEF Pushes, Continues

LEMMA ForwardOffloadedReads ==
  ASSUME OneDevice, PoolInv, PoolInv', ReadsInv,
         NEW g \in Graphs, NEW d \in Devices, NEW s \in Slots, ForwardOffloaded(g, d, s)
  PROVE  ReadsInv'
<1>q. PICK q, f, m, p : q = extra[d] /\ f = extra'[d] /\ m = main[d] /\ p = main'[d]
  OBVIOUS
<1>only. \A e \in Devices : e = d
  BY DEF OneDevice
<1>0. TypeOK /\ StreamsTyped /\ KeysOnce
  BY DEF ReadsInv, StreamsTyped
<1>1. StreamsTyped'
  BY <1>0, ForwardOffloadedTyped
<1>2. PICK l \in 1..Layers, copy \in Commands, kernel \in Commands, node \in Node :
        Enqueues(g, d, s, l, copy, kernel, node)
  BY <1>0, Offloading
<1>3. /\ l = Len(ctx[g]) + 1 /\ node.slot = s /\ AddNode(g, node)
      /\ copy.key = <<g, l, "offload", passes[g]>> /\ kernel.key = <<g, l, "forward", passes[g]>>
      /\ copy.slot = s /\ NodeOf(copy) = <<g, l>> /\ LastKey(m) \subseteq copy.waits
      /\ f = Append(q, copy) /\ p = Append(m, kernel)
  BY <1>2, <1>q DEF Enqueues
<1>4. q \in Seq(Commands) /\ m \in Seq(Commands)
  BY <1>0, <1>q DEF TypeOK
<1>5. Pushes(f, q, copy) /\ Pushes(p, m, kernel)
  BY <1>3, <1>4, PushedIs
<1>6. /\ Continues(f, q) /\ Len(q) \in Nat /\ Len(f) = Len(q) + 1 /\ f[Len(q) + 1] = copy
      /\ DOMAIN q = 1..Len(q) /\ DOMAIN f = 1..Len(f)
      /\ \A k \in DOMAIN q : f[k] = q[k]
  BY <1>5, PushParts
<1>7. /\ Continues(p, m) /\ Len(m) \in Nat /\ Len(p) = Len(m) + 1 /\ p[Len(m) + 1] = kernel
      /\ DOMAIN m = 1..Len(m) /\ DOMAIN p = 1..Len(p)
      /\ \A k \in DOMAIN m : p[k] = m[k]
  BY <1>5, PushParts
<1>8. /\ UNCHANGED <<stage, computed, copied, host, staging, epoch>> /\ stage[g] = "forward"
      /\ Lease(s)
      /\ prefetched' = IF backwardPass THEN NoneAhead ELSE prefetched
  BY DEF ForwardOffloaded, Lease
<1>new. PICK new : new = <<g, l>>
  OBVIOUS
<1>9. /\ \A n \in Nodes : Exists(n) => Exists(n)' /\ At(n)' = At(n)
      /\ \A n \in Nodes : Exists(n)' /\ ~Exists(n) => n = new
      /\ new \in Nodes /\ Exists(new)' /\ ~Exists(new) /\ At(new)' = node
  <2>1. new = <<g, Len(ctx[g]) + 1>>
    BY <1>3, <1>new
  <2> QED BY <2>1, <1>3, Added DEF PoolInv
<1>10. KeysOnce'
  <2>1. KeepsPast
    BY <1>3, <1>8, PastAdded
  <2>2. copy.key \in Keys /\ kernel.key \in Keys
    BY DEF Commands
  <2>3. l \in DOMAIN ctx'[g] /\ l \notin DOMAIN ctx[g]
    BY <1>9, <1>new DEF Exists
  <2>4. Past(copy.key)' /\ Past(kernel.key)'
    BY <2>3, <1>3, <1>8 DEF Past, AddNode
  <2>5. ~Past(copy.key) /\ ~Past(kernel.key)
    BY <2>3, <1>3, <1>8 DEF Past
  <2>6. (\A k \in DOMAIN q : q[k].key # copy.key) /\ (\A k \in DOMAIN m : m[k].key # kernel.key)
    BY <2>2, <2>5, <1>0, <1>q DEF KeysOnce, Queued
  <2>7. Distinct(q) /\ Distinct(m)
    BY <1>0, <1>q DEF KeysOnce
  <2>8. /\ Distinct(f)
        /\ \A k \in DOMAIN f : f[k].key = copy.key \/ \E i \in DOMAIN q : q[i].key = f[k].key
    BY <2>6, <2>7, <1>5, PushDistinct
  <2>9. /\ Distinct(p)
        /\ \A k \in DOMAIN p : p[k].key = kernel.key \/ \E i \in DOMAIN m : m[i].key = p[k].key
    BY <2>6, <2>7, <1>5, PushDistinct
  <2>10. ASSUME NEW key \in Keys, Queued(d, key)' PROVE Past(key)'
    <3>1. key = copy.key \/ key = kernel.key \/ Queued(d, key)
      BY <2>8, <2>9, <2>10, <1>q DEF Queued
    <3>2. Queued(d, key) => Past(key)
      BY <1>0 DEF KeysOnce
    <3> QED BY <3>1, <3>2, <2>1, <2>4 DEF KeepsPast
  <2> QED BY <2>8, <2>9, <2>10, <1>only, <1>q DEF KeysOnce
<1>11. HostKept'
  <2> SUFFICES ASSUME NEW n \in Nodes, Ours(n)', (At(n)').kept
               PROVE  Found(f, host, Len(f) + 1, (At(n)').slot, n)
    BY <1>only, <1>8, <1>q DEF HostKept
  <2>1. CASE n = new
    <3>1. (At(n)').slot = s /\ IsOffload(copy) /\ NodeOf(copy) = n
      BY <2>1, <1>3, <1>9, <1>new DEF IsOffload
    <3>2. Len(f) \in 1..((Len(f) + 1) - 1) /\ f[Len(f)] = copy
      BY <1>6
    <3>3. \A j \in (Len(f) + 1)..((Len(f) + 1) - 1) : FALSE
      BY <1>6
    <3> QED BY <3>1, <3>2, <3>3, <1>3 DEF Found
  <2>2. CASE n # new
    <3>1. Exists(n) /\ At(n)' = At(n) /\ Ours(n) /\ At(n).kept
      BY <2>2, <1>8, <1>9 DEF Ours
    <3>2. At(n).slot # s
      BY <3>1, <1>8, Leasing
    <3>3. Found(q, host, Len(q) + 1, At(n).slot, n)
      BY <3>1, <1>q DEF ReadsInv, HostKept
    <3>4. Found(f, host, Len(q) + 1, At(n).slot, n)
      <4>1. Len(q) + 1 \in 1..(Len(q) + 1)
        BY <1>6
      <4> QED BY <3>3, <4>1, <1>6, FoundContinues
    <3>5. \A j \in (Len(q) + 1)..((Len(f) + 1) - 1) : ~(IsOffload(f[j]) /\ f[j].slot = At(n).slot)
      <4>1. \A j \in (Len(q) + 1)..((Len(f) + 1) - 1) : j = Len(q) + 1
        BY <1>6
      <4> QED BY <4>1, <3>2, <1>3, <1>6
    <3>6. Len(q) + 1 \in Nat \ {0} /\ Len(f) + 1 \in Nat /\ Len(q) + 1 <= Len(f) + 1
      BY <1>6
    <3>7. Found(f, host, Len(f) + 1, At(n).slot, n)
      BY <3>4, <3>5, <3>6, FoundLater
    <3> QED BY <3>1, <3>7
  <2> QED BY <2>1, <2>2
<1>12. ASSUME NEW j \in DOMAIN p, IsRecompute(p[j]) PROVE j \in DOMAIN m /\ IsRecompute(m[j]) /\ p[j] = m[j]
  <2>1. p[j] # kernel
    BY <1>3, <1>12 DEF IsRecompute
  <2>2. j \in DOMAIN m
    BY <2>1, <1>7
  <2> QED BY <2>2, <1>7, <1>12
<1>13. RecomputesServed'
  <2> SUFFICES ASSUME NEW j \in DOMAIN p, IsRecompute(p[j])
               PROVE  Served(f, p, host, staging[<<d, p[j].buffer>>], j)
    BY <1>only, <1>8, <1>q DEF RecomputesServed
  <2>1. j \in DOMAIN m /\ p[j] = m[j] /\ IsRecompute(m[j])
    BY <1>12
  <2>2. Served(q, m, host, staging[<<d, m[j].buffer>>], j)
    BY <2>1, <1>q DEF ReadsInv, RecomputesServed
  <2>3. \A i \in DOMAIN f : i > Len(q) => ~IsLoad(f[i])
    <3>1. \A i \in DOMAIN f : i > Len(q) => i = Len(q) + 1
      BY <1>6
    <3> QED BY <3>1, <1>3, <1>6 DEF IsLoad
  <2>4. Served(f, p, host, staging[<<d, m[j].buffer>>], j)
    BY <2>1, <2>2, <2>3, <1>6, <1>7, ServedContinues
  <2> QED BY <2>1, <2>4
\* The new offload waits for all that the compute stream was given.
<1>14. Awaited'
  <2> SUFFICES ASSUME NEW j \in DOMAIN p, IsRecompute(p[j])
               PROVE  Behind(f, Len(f), p, j)
    BY <1>only, <1>q DEF Awaited
  <2>1. j \in DOMAIN m
    BY <1>12
  <2>2. m # <<>> /\ Len(m) \in DOMAIN m /\ Len(m) >= j
    BY <2>1, <1>7
  <2>3. m[Len(m)].key \in copy.waits
    BY <2>2, <1>3 DEF LastKey
  <2>4. Len(f) \in DOMAIN f /\ Len(m) \in DOMAIN p /\ p[Len(m)] = m[Len(m)] /\ f[Len(f)] = copy
    BY <2>2, <1>6, <1>7
  <2> QED BY <2>2, <2>3, <2>4, <1>6 DEF Behind
<1>15. AheadOfUse'
  <2>1. prefetched'[d] = Nobody
    BY <1>8 DEF NoneAhead, ReadsInv, AheadOfUse
  <2> QED BY <2>1, <1>only DEF AheadOfUse
<1> QED
  BY <1>1, <1>10, <1>11, <1>13, <1>14, <1>15 DEF ReadsInv

\* The side stream f is q, then a load of the layer if it was not prefetched,
\* then a load ahead if there is one.
Loaded(f, q, reload, next, hit, ahead) ==
  /\ Continues(f, q)
  /\ \A i \in DOMAIN f : i > Len(q) =>
       (~hit /\ i = Len(q) + 1 /\ f[i] = reload) \/ (ahead /\ f[i] = next)
  /\ ~hit => Len(q) + 1 \in DOMAIN f /\ f[Len(q) + 1] = reload
  /\ ahead => f # <<>> /\ f[Len(f)] = next

Extension(f, mid, q, reload, next, hit, ahead) ==
  /\ mid = IF hit THEN q ELSE Append(q, reload)
  /\ f = IF ahead THEN Append(mid, next) ELSE mid

KeysOf(f, q, reload, next, ahead) ==
  \A k \in DOMAIN f : \/ f[k].key = reload.key \/ (ahead /\ f[k].key = next.key)
                      \/ \E i \in DOMAIN q : q[i].key = f[k].key

LEMMA LoadedIs ==
  ASSUME NEW q \in Seq(Commands), NEW reload \in Commands, NEW next \in Commands, NEW hit \in BOOLEAN,
         NEW ahead \in BOOLEAN, NEW mid, NEW f, Extension(f, mid, q, reload, next, hit, ahead),
         Distinct(q), \A k \in DOMAIN q : q[k].key # reload.key,
         ahead => (\A k \in DOMAIN q : q[k].key # next.key) /\ reload.key # next.key
  PROVE  Loaded(f, q, reload, next, hit, ahead) /\ Distinct(f) /\ KeysOf(f, q, reload, next, ahead)
<1>1. Len(q) \in Nat /\ DOMAIN q = 1..Len(q)
  OBVIOUS
<1>2. /\ mid \in Seq(Commands) /\ Distinct(mid)
      /\ \A k \in DOMAIN mid : mid[k].key = reload.key \/ \E i \in DOMAIN q : q[i].key = mid[k].key
      /\ DOMAIN mid = 1..Len(mid) /\ Len(mid) \in Nat /\ Len(q) <= Len(mid)
      /\ \A k \in DOMAIN q : mid[k] = q[k]
      /\ \A k \in DOMAIN mid : k > Len(q) => ~hit /\ k = Len(q) + 1 /\ mid[k] = reload
      /\ ~hit => Len(q) + 1 \in DOMAIN mid /\ mid[Len(q) + 1] = reload
  <2>1. CASE hit
    <3>1. mid = q
      BY <2>1 DEF Extension
    <3>2. \A k \in DOMAIN q : ~(k > Len(q))
      BY <1>1
    <3> QED BY <2>1, <3>1, <3>2, <1>1
  <2>2. CASE ~hit
    <3>a. PICK a : a = Append(q, reload)
      OBVIOUS
    <3>1. Pushes(a, q, reload) /\ a \in Seq(Commands) /\ mid = a
      <4>1. Pushes(a, q, reload)
        BY <3>a, PushedIs
      <4>2. a \in Seq(Commands)
        BY <3>a
      <4>3. mid = a
        BY <3>a, <2>2 DEF Extension
      <4> QED BY <4>1, <4>2, <4>3
    <3>2. /\ Distinct(a)
          /\ \A k \in DOMAIN a : a[k].key = reload.key \/ \E i \in DOMAIN q : q[i].key = a[k].key
      BY <3>1, PushDistinct
    <3>3. /\ Len(a) = Len(q) + 1 /\ a[Len(q) + 1] = reload
          /\ DOMAIN a = 1..Len(a) /\ \A k \in DOMAIN q : a[k] = q[k]
      BY <3>1, PushParts
    <3>4. \A k \in DOMAIN a : k > Len(q) => k = Len(q) + 1
      BY <3>3, <1>1
    <3> QED BY <2>2, <3>1, <3>2, <3>3, <3>4, <1>1
  <2> QED BY <2>1, <2>2
<1>3. CASE ~ahead
  <2>1. f = mid
    BY <1>3 DEF Extension
  <2>2. Continues(f, q)
    BY <2>1, <1>1, <1>2 DEF Continues
  <2>3. Distinct(f) /\ KeysOf(f, q, reload, next, ahead)
    BY <2>1, <1>2, <1>3 DEF KeysOf
  <2>4. /\ \A i \in DOMAIN f : i > Len(q) => ~hit /\ i = Len(q) + 1 /\ f[i] = reload
        /\ ~hit => Len(q) + 1 \in DOMAIN f /\ f[Len(q) + 1] = reload
    BY <2>1, <1>2
  <2> QED BY <2>2, <2>3, <2>4, <1>3 DEF Loaded
<1>4. CASE ahead
  <2>a. PICK a : a = Append(mid, next)
    OBVIOUS
  <2>b. mid \in Seq(Commands) /\ Distinct(mid)
    BY <1>2
  <2>1. Pushes(a, mid, next) /\ f = a /\ a \in Seq(Commands)
    <3>1. Pushes(a, mid, next)
      BY <2>a, <2>b, PushedIs
    <3>2. f = a
      BY <2>a, <1>4 DEF Extension
    <3>3. a \in Seq(Commands)
      BY <2>a, <2>b
    <3> QED BY <3>1, <3>2, <3>3
  <2>2. \A k \in DOMAIN mid : mid[k].key # next.key
    BY <1>2, <1>4
  <2>3. /\ Distinct(a)
        /\ \A k \in DOMAIN a : a[k].key = next.key \/ \E i \in DOMAIN mid : mid[i].key = a[k].key
    BY <2>1, <2>2, <2>b, PushDistinct
  <2>4. /\ Len(a) = Len(mid) + 1 /\ a[Len(mid) + 1] = next
        /\ DOMAIN a = 1..Len(a) /\ \A k \in DOMAIN mid : a[k] = mid[k]
    BY <2>1, PushParts
  <2>5. \A k \in DOMAIN a : k \in DOMAIN mid \/ k = Len(mid) + 1
    BY <2>4, <1>2
  <2>6. Continues(a, q)
    <3>1. \A k \in DOMAIN q : k \in DOMAIN mid /\ a[k] = q[k]
      BY <1>1, <1>2, <2>4
    <3> QED BY <3>1, <2>4, <1>1, <1>2 DEF Continues
  <2>7. a # <<>> /\ a[Len(a)] = next
    BY <2>1, <2>4, <1>2
  <2>8. \A i \in DOMAIN a : i > Len(q) => (~hit /\ i = Len(q) + 1 /\ a[i] = reload) \/ a[i] = next
    BY <2>4, <2>5, <1>2
  <2>9. ~hit => Len(q) + 1 \in DOMAIN a /\ a[Len(q) + 1] = reload
    BY <2>4, <1>2
  <2>10. Loaded(f, q, reload, next, hit, ahead)
    BY <2>1, <2>6, <2>7, <2>8, <2>9, <1>4 DEF Loaded
  <2>11. ASSUME NEW k \in DOMAIN a
         PROVE  \/ a[k].key = reload.key \/ a[k].key = next.key
                \/ \E i \in DOMAIN q : q[i].key = a[k].key
    <3>1. CASE a[k].key = next.key
      BY <3>1
    <3>2. CASE \E i \in DOMAIN mid : mid[i].key = a[k].key
      BY <3>2, <1>2
    <3> QED BY <3>1, <3>2, <2>3
  <2>12. KeysOf(f, q, reload, next, ahead)
    BY <2>1, <2>11, <1>4 DEF KeysOf
  <2>13. Distinct(f)
    BY <2>1, <2>3
  <2> QED BY <2>10, <2>12, <2>13
<1> QED
  BY <1>3, <1>4

\* What the two streams of the device are before and after the backward.
Reloaded(d, g, l, c, reload, next, kernel, hit, ahead, b) ==
  /\ d \in Devices /\ b \in Buffers /\ <<g, l>> \in Nodes
  /\ kernel \in Commands /\ reload \in Commands /\ hit \in BOOLEAN /\ ahead \in BOOLEAN
  /\ Loaded(extra'[d], extra[d], reload, next, hit, ahead) /\ Pushes(main'[d], main[d], kernel)
  /\ reload.slot = c.slot /\ reload.buffer = b /\ IsLoad(reload)
  /\ reload.waits = IF useDouble THEN computed[<<d, b>>] ELSE LastKey(main[d])
  /\ IsRecompute(kernel) /\ kernel.buffer = b /\ NodeOf(kernel) = <<g, l>>
  /\ hit => /\ useDouble /\ prefetched[d] = <<c.generation, c.slot, b>>
            /\ kernel.waits = copied[<<d, b>>]
  /\ ~hit => reload.key \in kernel.waits
  /\ ahead => /\ IsLoad(next) /\ next.slot = c.slot - 1 /\ next.buffer = 1 - b
              /\ next.waits = computed[<<d, 1 - b>>]
              /\ copied'[<<d, 1 - b>>] = {next.key}
              /\ Prefetching /\ useDouble
  /\ useDouble => /\ computed'[<<d, b>>] = {kernel.key}
                  /\ \A x \in Buffers : x # b => computed'[<<d, x>>] = computed[<<d, x>>]
  /\ prefetched'[d] = IF Prefetching /\ useDouble
                      THEN IF ahead THEN <<c.generation, c.slot - 1, 1 - b>> ELSE Nobody
                      ELSE prefetched[d]
  /\ UNCHANGED <<useDouble, host, staging>> /\ backwardPass' = TRUE
  \* the input is on its way to its slot
  /\ Found(extra[d], host, Len(extra[d]) + 1, c.slot, <<g, l>>)

LEMMA ReloadedKeys ==
  ASSUME OneDevice, PoolInv, ReadsInv, BackwardOffloaded
  PROVE  /\ KeysOnce' /\ KeepsReadable
         /\ \E d, g, l, c, reload, next, kernel, hit, ahead, b :
              Reloaded(d, g, l, c, reload, next, kernel, hit, ahead, b)
<1>0. TypeOK /\ StreamsTyped /\ KeysOnce
  BY DEF ReadsInv, StreamsTyped
<1>1. PICK g \in Graphs, l \in 1..Layers, c \in Node, reload \in Commands, kernel \in Commands,
           hit \in BOOLEAN, ahead \in BOOLEAN, mid \in Seq(Commands), next \in Commands :
        Reloads(g, l, c, reload, next, kernel, hit, ahead, mid)
  BY <1>0, Reloading
<1>b. PICK b : b = IF useDouble THEN c.buffer ELSE 0
  OBVIOUS
<1>d. PICK d \in Devices : d = c.device
  BY DEF Node
<1>q. PICK q, f, m, p : q = extra[d] /\ f = extra'[d] /\ m = main[d] /\ p = main'[d]
  OBVIOUS
<1>only. \A e \in Devices : e = d
  BY DEF OneDevice
<1>2. /\ ~Idle /\ g = running.graph /\ l = running.layer /\ c = ctx[g][l] /\ c.slot \in Slots
      /\ NextLayer /\ Release(g, {l}, extra', <<g, l>>)
  BY <1>1 DEF Reloads
<1>3. Extension(f, mid, q, reload, next, hit, ahead) /\ p = Append(m, kernel)
  BY <1>1, <1>d, <1>q DEF Reloads, Extension
<1>4. /\ reload.key = <<g, l, "reload", passes[g]>> /\ kernel.key = <<g, l, "recompute", passes[g]>>
      /\ ahead => next.key = <<g, l, "prefetch", passes[g]>>
  BY <1>1 DEF Reloads
<1>5. q \in Seq(Commands) /\ m \in Seq(Commands) /\ b \in Buffers
  <2>1. c.buffer \in Buffers /\ 0 \in Buffers
    BY DEF Node, Buffers
  <2>2. b \in Buffers
    BY <2>1, <1>b
  <2> QED BY <2>2, <1>0, <1>q DEF TypeOK
<1>6. KeepsPast /\ KeepsReadable
  <2>1. UNCHANGED epoch
    BY <1>2 DEF Release
  <2> QED BY <2>1, <1>2, PastStepped, ReadableStepped
\* The keys of this step are new.
<1>7. ASSUME NEW key \in Keys, NEW op \in {"reload", "prefetch", "recompute"}, key = <<g, l, op, passes[g]>>
      PROVE  Past(key)' /\ ~Past(key)
  <2>1. key[1] = g /\ key[2] = l /\ key[3] \in {"reload", "prefetch", "recompute"} /\ key[4] = passes[g]
    BY <1>7
  <2>2. running # Nobody /\ ~Past(key)
    BY <2>1, <1>2 DEF Past, Idle
  <2>3. passes' = passes /\ (running' # Nobody => running'.layer = l - 1)
    <3>1. running \in [graph : Graphs, layer : 1..Layers, retain : BOOLEAN]
      BY <2>2 DEF PoolInv, RunsKept
    <3> QED BY <3>1, <1>2 DEF NextLayer
  <2>4. passes[g] <= passes[g] /\ l > l - 1
    <3>1. passes[g] \in 0..MaxPasses
      BY <1>0 DEF TypeOK
    <3> QED BY <3>1
  <2>5. Past(key)'
    BY <2>1, <2>3, <2>4 DEF Past
  <2> QED BY <2>2, <2>5
<1>8. /\ reload.key \in Keys /\ Past(reload.key)' /\ ~Past(reload.key)
      /\ kernel.key \in Keys /\ Past(kernel.key)' /\ ~Past(kernel.key)
      /\ ahead => next.key \in Keys /\ Past(next.key)' /\ ~Past(next.key)
  <2>1. reload.key \in Keys /\ kernel.key \in Keys /\ next.key \in Keys
    BY DEF Commands
  <2>2. Past(reload.key)' /\ ~Past(reload.key)
    BY <2>1, <1>4, <1>7
  <2>3. Past(kernel.key)' /\ ~Past(kernel.key)
    BY <2>1, <1>4, <1>7
  <2>4. ahead => Past(next.key)' /\ ~Past(next.key)
    BY <2>1, <1>4, <1>7
  <2> QED BY <2>1, <2>2, <2>3, <2>4
<1>9. /\ \A k \in DOMAIN q : q[k].key # reload.key
      /\ \A k \in DOMAIN m : m[k].key # kernel.key
      /\ ahead => (\A k \in DOMAIN q : q[k].key # next.key) /\ reload.key # next.key
      /\ Distinct(q) /\ Distinct(m)
  <2>1. \A key \in Keys : ~Past(key) => ~Queued(d, key)
    BY <1>0 DEF KeysOnce
  <2>2. Distinct(q) /\ Distinct(m)
    BY <1>0, <1>q DEF KeysOnce
  <2>3. ahead => reload.key # next.key
    BY <1>4
  <2>4. ~Queued(d, reload.key) /\ ~Queued(d, kernel.key) /\ (ahead => ~Queued(d, next.key))
    BY <2>1, <1>8
  <2> QED BY <2>2, <2>3, <2>4, <1>q DEF Queued
<1>10. Loaded(f, q, reload, next, hit, ahead) /\ Distinct(f) /\ KeysOf(f, q, reload, next, ahead)
  BY <1>3, <1>5, <1>9, LoadedIs
<1>11. Pushes(p, m, kernel)
  BY <1>3, <1>5, PushedIs
<1>12. /\ Distinct(p)
       /\ \A k \in DOMAIN p : p[k].key = kernel.key \/ \E i \in DOMAIN m : m[i].key = p[k].key
  BY <1>9, <1>11, PushDistinct
<1>13. KeysOnce'
  <2>1. ASSUME NEW key \in Keys, Queued(d, key)' PROVE Past(key)'
    <3>1. key = reload.key \/ (ahead /\ key = next.key) \/ key = kernel.key \/ Queued(d, key)
      BY <2>1, <1>10, <1>12, <1>q DEF Queued, KeysOf
    <3>2. Queued(d, key) => Past(key)
      BY <1>0 DEF KeysOnce
    <3> QED BY <3>1, <3>2, <1>6, <1>8 DEF KeepsPast
  <2> QED BY <2>1, <1>10, <1>12, <1>only, <1>q DEF KeysOnce
<1>14. <<g, l>> \in Nodes /\ Found(q, host, Len(q) + 1, c.slot, <<g, l>>)
  <2>n. PICK n : n = <<g, l>>
    OBVIOUS
  <2>1. n \in Nodes /\ Exists(n) /\ At(n).kept /\ At(n) = c
    <3>1. n = <<running.graph, running.layer>>
      BY <2>n, <1>2
    <3>2. At(n) = c
      BY <2>n, <1>2 DEF At
    <3> QED BY <3>1, <3>2, <1>2, Stepped DEF PoolInv
  <2>2. Ours(n)
    <3>1. c.epoch = epoch
      BY <2>1, <2>n, <1>2 DEF PoolInv, RunsKept, Exists, Idle
    <3>2. c.slot # OnDevice
      BY <1>2 DEF Slots, OnDevice
    <3> QED BY <2>1, <3>1, <3>2 DEF Ours
  <2>3. Found(q, host, Len(q) + 1, At(n).slot, n)
    BY <2>1, <2>2, <1>q DEF ReadsInv, HostKept
  <2> QED BY <2>1, <2>3, <2>n
<1>15. /\ UNCHANGED <<useDouble, host, staging>> /\ backwardPass' = TRUE
  BY DEF BackwardOffloaded, SawBackward, bufVars
<1>16. /\ reload.slot = c.slot /\ reload.buffer = b /\ IsLoad(reload)
       /\ reload.waits = IF useDouble THEN computed[<<d, b>>] ELSE LastKey(m)
       /\ IsRecompute(kernel) /\ kernel.buffer = b /\ NodeOf(kernel) = <<g, l>>
  <2>1. /\ reload.slot = c.slot /\ reload.buffer = b /\ kernel.buffer = b /\ NodeOf(kernel) = <<g, l>>
        /\ reload.waits = IF useDouble THEN computed[<<d, b>>] ELSE LastKey(m)
    BY <1>1, <1>b, <1>d, <1>q DEF Reloads
  <2>2. reload.key[3] = "reload" /\ kernel.key[3] = "recompute"
    BY <1>4
  <2> QED BY <2>1, <2>2 DEF IsLoad, IsRecompute
<1>17. /\ hit => /\ useDouble /\ prefetched[d] = <<c.generation, c.slot, b>>
                 /\ kernel.waits = copied[<<d, b>>]
       /\ ~hit => reload.key \in kernel.waits
       /\ ahead => /\ IsLoad(next) /\ next.slot = c.slot - 1 /\ next.buffer = 1 - b
                   /\ next.waits = computed[<<d, 1 - b>>]
                   /\ copied'[<<d, 1 - b>>] = {next.key}
                   /\ Prefetching /\ useDouble
  <2>1. hit => /\ useDouble /\ prefetched[d] = <<c.generation, c.slot, b>>
               /\ kernel.waits = copied[<<d, b>>]
    BY <1>1, <1>b, <1>d DEF Reloads
  <2>2. ~hit => reload.key \in kernel.waits
    BY <1>1 DEF Reloads
  <2>3. ahead => /\ next.slot = c.slot - 1 /\ next.buffer = 1 - b
                 /\ next.waits = computed[<<d, 1 - b>>]
                 /\ copied'[<<d, 1 - b>>] = {next.key}
                 /\ Prefetching /\ useDouble
    BY <1>1, <1>b, <1>d DEF Reloads
  <2>4. ahead => next.key[3] = "prefetch"
    BY <1>4
  <2> QED BY <2>1, <2>2, <2>3, <2>4 DEF IsLoad
<1>18. /\ useDouble => /\ computed'[<<d, b>>] = {kernel.key}
                       /\ \A x \in Buffers : x # b => computed'[<<d, x>>] = computed[<<d, x>>]
  <2> SUFFICES ASSUME useDouble
               PROVE  /\ computed'[<<d, b>>] = {kernel.key}
                      /\ \A x \in Buffers : x # b => computed'[<<d, x>>] = computed[<<d, x>>]
    OBVIOUS
  <2>1. computed' = [computed EXCEPT ![<<d, b>>] = {kernel.key}]
    BY <1>1, <1>b, <1>d DEF Reloads
  <2>2. DOMAIN computed = Devices \X Buffers
    BY <1>0 DEF TypeOK
  <2>3. ASSUME NEW x \in Buffers PROVE <<d, x>> \in DOMAIN computed /\ (x # b => <<d, x>> # <<d, b>>)
    BY <2>2
  <2> QED BY <2>1, <2>3, <1>5
<1>19. prefetched'[d] = IF Prefetching /\ useDouble
                        THEN IF ahead THEN <<c.generation, c.slot - 1, 1 - b>> ELSE Nobody
                        ELSE prefetched[d]
  <2>1. prefetched' = IF Prefetching /\ useDouble
                      THEN [prefetched EXCEPT ![d] = IF ahead THEN <<c.generation, c.slot - 1, 1 - b>>
                                                     ELSE Nobody]
                      ELSE prefetched
    BY <1>1, <1>b, <1>d DEF Reloads
  <2>2. DOMAIN prefetched = Devices
    BY <1>0 DEF StreamsTyped
  <2> QED BY <2>1, <2>2
<1>20. Reloaded(d, g, l, c, reload, next, kernel, hit, ahead, b)
  BY <1>5, <1>10, <1>11, <1>14, <1>15, <1>16, <1>17, <1>18, <1>19, <1>q DEF Reloaded
<1> QED
  BY <1>6, <1>13, <1>20

\* A new load into a buffer comes after every recompute from it.
\* A command that waits for the end of the compute stream.
LEMMA LastBehind ==
  ASSUME NEW m, NEW p, Continues(p, m), NEW j \in DOMAIN m,
         NEW f, NEW i \in DOMAIN f, i <= i, f[i].waits = LastKey(m)
  PROVE  Behind(f, i, p, j)
<1>1. m # <<>> /\ Len(m) \in DOMAIN m /\ Len(m) >= j
  BY DEF Continues
<1>2. m[Len(m)].key \in f[i].waits
  BY <1>1 DEF LastKey
<1>3. Len(m) \in DOMAIN p /\ p[Len(m)] = m[Len(m)]
  BY <1>1 DEF Continues
<1> QED
  BY <1>1, <1>2, <1>3 DEF Behind

LEMMA NewLoadBehind ==
  ASSUME ReadsInv, NEW d \in Devices, NEW f, NEW p, Continues(f, extra[d]), Continues(p, main[d]),
         NEW i \in DOMAIN f, i > Len(extra[d]),
         NEW j \in DOMAIN main[d], IsRecompute(main[d][j]),
         (useDouble /\ f[i].waits = computed[<<d, main[d][j].buffer>>])
           \/ (~useDouble /\ f[i].waits = LastKey(main[d]))
  PROVE  Behind(f, i, p, j)
<1>q. PICK q, m : q = extra[d] /\ m = main[d]
  OBVIOUS
<1>1. /\ Len(q) \in Nat /\ Len(f) \in Nat /\ DOMAIN f = 1..Len(f) /\ DOMAIN m = 1..Len(m) /\ Len(m) \in Nat
      /\ \A k \in DOMAIN m : k \in DOMAIN p /\ p[k] = m[k]
      /\ i \in Nat /\ i > Len(q)
  BY <1>q DEF Continues
<1>2. ASSUME NEW y \in DOMAIN m, y >= j, m[y].key \in f[i].waits
      PROVE  Behind(f, i, p, j)
  <2>1. y \in DOMAIN p /\ p[y].key \in f[i].waits /\ i <= i
    BY <1>1, <1>2
  <2> QED BY <2>1, <1>2 DEF Behind
<1>3. CASE useDouble
  <2>1. CASE \E y \in DOMAIN m : y >= j /\ m[y].key \in computed[<<d, m[j].buffer>>]
    BY <2>1, <1>2, <1>3, <1>q
  <2>2. CASE Behind(q, Len(q), m, j)
    <3>1. Behind(f, Len(q), p, j)
      BY <2>2, <1>q, BehindContinues
    <3>2. \A x \in DOMAIN f : x <= Len(q) => x <= i
      BY <1>1
    <3> QED BY <3>1, <3>2 DEF Behind
  <2> QED BY <2>1, <2>2, <1>3, <1>q DEF ReadsInv, Awaited
<1>4. CASE ~useDouble
  BY <1>1, <1>4, LastBehind
<1> QED
  BY <1>3, <1>4

LEMMA BackwardOffloadedReads ==
  ASSUME OneDevice, PoolInv, PoolInv', ReadsInv, BackwardOffloaded
  PROVE  ReadsInv'
<1>0. TypeOK /\ StreamsTyped
  BY DEF ReadsInv, StreamsTyped
<1>1. StreamsTyped'
  BY <1>0, BackwardOffloadedTyped
<1>2. KeysOnce' /\ KeepsReadable
  BY ReloadedKeys
<1>3. PICK d, g, l, c, reload, next, kernel, hit, ahead, b :
        Reloaded(d, g, l, c, reload, next, kernel, hit, ahead, b)
  BY ReloadedKeys
<1>q. PICK q, f, m, p : q = extra[d] /\ f = extra'[d] /\ m = main[d] /\ p = main'[d]
  OBVIOUS
<1>4. d \in Devices /\ b \in Buffers /\ 1 - b \in Buffers /\ 1 - b # b /\ 1 - (1 - b) = b
  <2>1. d \in Devices /\ b \in Buffers
    BY <1>3 DEF Reloaded
  <2> QED BY <2>1 DEF Buffers
<1>only. \A e \in Devices : e = d
  BY <1>4 DEF OneDevice
<1>5. q \in Seq(Commands) /\ m \in Seq(Commands)
  BY <1>0, <1>4, <1>q DEF TypeOK
<1>6. /\ Continues(f, q)
      /\ \A i \in DOMAIN f : i > Len(q) =>
           (~hit /\ i = Len(q) + 1 /\ f[i] = reload) \/ (ahead /\ f[i] = next)
      /\ ~hit => Len(q) + 1 \in DOMAIN f /\ f[Len(q) + 1] = reload
      /\ ahead => f # <<>> /\ f[Len(f)] = next
  <2>1. Loaded(f, q, reload, next, hit, ahead)
    BY <1>3, <1>q DEF Reloaded
  <2> QED BY <2>1 DEF Loaded
<1>7. /\ Continues(p, m) /\ Len(m) \in Nat /\ Len(p) = Len(m) + 1 /\ p[Len(m) + 1] = kernel
      /\ DOMAIN m = 1..Len(m) /\ DOMAIN p = 1..Len(p)
      /\ \A k \in DOMAIN m : p[k] = m[k]
  <2>1. Pushes(p, m, kernel)
    BY <1>3, <1>q DEF Reloaded
  <2> QED BY <2>1, PushParts
<1>8. /\ Len(q) \in Nat /\ Len(f) \in Nat /\ Len(q) <= Len(f) /\ DOMAIN q = 1..Len(q) /\ DOMAIN f = 1..Len(f)
  BY <1>6 DEF Continues
<1>9. UNCHANGED <<useDouble, host, staging>> /\ backwardPass' = TRUE
  BY <1>3 DEF Reloaded
<1>10. /\ reload.slot = c.slot /\ reload.buffer = b /\ IsLoad(reload)
       /\ reload.waits = IF useDouble THEN computed[<<d, b>>] ELSE LastKey(m)
       /\ IsRecompute(kernel) /\ kernel.buffer = b /\ NodeOf(kernel) = <<g, l>>
  BY <1>3, <1>q DEF Reloaded
<1>11. ahead => /\ IsLoad(next) /\ next.slot = c.slot - 1 /\ next.buffer = 1 - b
                /\ next.waits = computed[<<d, 1 - b>>]
                /\ copied'[<<d, 1 - b>>] = {next.key}
                /\ Prefetching /\ useDouble
  BY <1>3 DEF Reloaded
<1>12. /\ hit => /\ useDouble /\ prefetched[d] = <<c.generation, c.slot, b>>
                 /\ kernel.waits = copied[<<d, b>>]
       /\ ~hit => reload.key \in kernel.waits
  BY <1>3 DEF Reloaded
<1>13. useDouble => /\ computed'[<<d, b>>] = {kernel.key}
                    /\ \A x \in Buffers : x # b => computed'[<<d, x>>] = computed[<<d, x>>]
  BY <1>3 DEF Reloaded
<1>14. prefetched'[d] = IF Prefetching /\ useDouble
                        THEN IF ahead THEN <<c.generation, c.slot - 1, 1 - b>> ELSE Nobody
                        ELSE prefetched[d]
  BY <1>3 DEF Reloaded
<1>15. Found(q, host, Len(q) + 1, c.slot, <<g, l>>)
  BY <1>3, <1>q DEF Reloaded
<1>16. \A i \in DOMAIN f : i > Len(q) => IsLoad(f[i]) /\ ~IsOffload(f[i])
  <2>1. ASSUME NEW k, IsLoad(k) PROVE ~IsOffload(k)
    BY <2>1 DEF IsLoad, IsOffload
  <2> QED BY <2>1, <1>6, <1>10, <1>11
<1>17. HostKept'
  <2> SUFFICES ASSUME NEW n \in Nodes, Ours(n)', (At(n)').kept
               PROVE  Found(f, host, Len(f) + 1, (At(n)').slot, n)
    BY <1>only, <1>9, <1>q DEF HostKept
  <2>1. Ours(n) /\ At(n).kept /\ (At(n)').slot = At(n).slot
    BY <1>2 DEF KeepsReadable
  <2>2. Found(q, host, Len(q) + 1, At(n).slot, n)
    BY <2>1, <1>4, <1>q DEF ReadsInv, HostKept
  <2>3. Found(f, host, Len(q) + 1, At(n).slot, n)
    <3>1. Len(q) + 1 \in 1..(Len(q) + 1)
      BY <1>8
    <3> QED BY <2>2, <3>1, <1>6, FoundContinues
  <2>4. \A j \in (Len(q) + 1)..((Len(f) + 1) - 1) : ~(IsOffload(f[j]) /\ f[j].slot = At(n).slot)
    <3>1. \A j \in (Len(q) + 1)..((Len(f) + 1) - 1) : j \in DOMAIN f /\ j > Len(q)
      BY <1>8
    <3> QED BY <3>1, <1>16
  <2>5. Len(q) + 1 \in Nat \ {0} /\ Len(f) + 1 \in Nat /\ Len(q) + 1 <= Len(f) + 1
    BY <1>8
  <2>6. Found(f, host, Len(f) + 1, At(n).slot, n)
    BY <2>3, <2>4, <2>5, FoundLater
  <2> QED BY <2>1, <2>6
\* The loads after the layer's own go to the other buffer.
<1>18. ASSUME NEW k \in Nat, k >= Len(q), ~hit => k = Len(q) + 1
       PROVE  Spared(f, k, p, Len(p))
  <2> SUFFICES ASSUME NEW i \in DOMAIN f, i > k, f[i].buffer = p[Len(p)].buffer
               PROVE  FALSE
    BY DEF Spared
  <2>1. i > Len(q) /\ (i # Len(q) + 1 \/ hit)
    BY <1>8, <1>18
  <2>2. ahead /\ f[i] = next
    BY <2>1, <1>6
  <2>3. f[i].buffer = 1 - b /\ p[Len(p)].buffer = b
    BY <2>2, <1>7, <1>10, <1>11
  <2> QED BY <2>3, <1>4
<1>19. Served(f, p, host, staging[<<d, b>>], Len(p))
  <2>1. p[Len(p)] = kernel
    BY <1>7
  <2>2. CASE ~hit
    <3>1. Len(q) + 1 \in DOMAIN f /\ f[Len(q) + 1] = reload /\ Len(q) + 1 \in 1..(Len(q) + 1)
          /\ Len(q) + 1 \in Nat /\ Len(q) + 1 >= Len(q)
      BY <2>2, <1>6, <1>8
    <3>2. Found(f, host, Len(q) + 1, c.slot, <<g, l>>)
      BY <3>1, <1>6, <1>15, FoundContinues
    <3>3. Spared(f, Len(q) + 1, p, Len(p))
      BY <3>1, <1>18
    <3>4. reload.key \in kernel.waits
      BY <2>2, <1>12
    <3> QED BY <2>1, <3>1, <3>2, <3>3, <3>4, <1>10 DEF Served
  <2>3. CASE hit
    <3>1. prefetched[d] = <<c.generation, c.slot, b>> /\ kernel.waits = copied[<<d, b>>]
      BY <2>3, <1>12
    <3>2. prefetched[d] # Nobody /\ prefetched[d][2] = c.slot /\ prefetched[d][3] = b
      BY <3>1 DEF Nobody
    <3>3. \/ /\ q # <<>> /\ IsLoad(q[Len(q)])
             /\ q[Len(q)].slot = c.slot /\ q[Len(q)].buffer = b
             /\ copied[<<d, b>>] = {q[Len(q)].key}
          \/ q = <<>> /\ staging[<<d, b>>] = host[c.slot]
      BY <3>2, <1>4, <1>q DEF ReadsInv, AheadOfUse
    <3>4. Len(q) \in Nat /\ Len(q) >= Len(q) /\ Spared(f, Len(q), p, Len(p))
      BY <2>3, <1>8, <1>18
    <3>5. CASE q # <<>>
      <4>1. Len(q) \in DOMAIN q /\ Len(q) \in DOMAIN f /\ f[Len(q)] = q[Len(q)] /\ Len(q) \in Nat \ {0}
            /\ Len(q) \in 1..(Len(q) + 1) /\ Len(q) + 1 \in Nat /\ Len(q) <= Len(q) + 1
        <5>1. Len(q) # 0
          BY <3>5, <1>5
        <5>2. Len(q) \in DOMAIN q /\ Len(q) \in DOMAIN f /\ Len(q) \in Nat \ {0}
              /\ Len(q) \in 1..(Len(q) + 1) /\ Len(q) + 1 \in Nat /\ Len(q) <= Len(q) + 1
          BY <5>1, <1>8
        <5>3. f[Len(q)] = q[Len(q)]
          BY <5>2, <1>6 DEF Continues
        <5> QED BY <5>2, <5>3
      <4>2. \A j \in Len(q)..((Len(q) + 1) - 1) : ~(IsOffload(q[j]) /\ q[j].slot = c.slot)
        <5>1. \A j \in Len(q)..((Len(q) + 1) - 1) : j = Len(q)
          <6>1. \A k \in Nat : \A j \in k..((k + 1) - 1) : j = k
            OBVIOUS
          <6> QED BY <6>1, <1>8
        <5>2. ~IsOffload(q[Len(q)])
          BY <3>3, <3>5 DEF IsLoad, IsOffload
        <5> QED BY <5>1, <5>2
      <4>3. Found(q, host, Len(q), c.slot, <<g, l>>)
        BY <4>1, <4>2, <1>15, FoundEarlier
      <4>4. Found(f, host, Len(q), c.slot, <<g, l>>)
        BY <4>1, <4>3, <1>6, FoundContinues
      <4>5. /\ IsLoad(f[Len(q)]) /\ f[Len(q)].buffer = p[Len(p)].buffer /\ f[Len(q)].key \in p[Len(p)].waits
            /\ Found(f, host, Len(q), f[Len(q)].slot, NodeOf(p[Len(p)]))
        BY <2>1, <3>1, <3>3, <3>5, <4>1, <4>4, <1>10
      <4> QED BY <3>4, <4>1, <4>5 DEF Served
    <3>6. CASE q = <<>>
      <4>1. Len(q) = 0
        BY <3>6
      <4>2. host[c.slot] = <<g, l>>
        <5>1. Found(q, host, 1, c.slot, <<g, l>>)
          BY <4>1, <1>15
        <5> QED BY <5>1 DEF Found
      <4>3. staging[<<d, b>>] = NodeOf(p[Len(p)])
        BY <2>1, <3>3, <3>6, <4>2, <1>10
      <4>4. Spared(f, 0, p, Len(p))
        BY <3>4, <4>1
      <4> QED BY <4>3, <4>4 DEF Served
    <3> QED BY <3>5, <3>6
  <2> QED BY <2>2, <2>3
<1>20. ASSUME NEW j \in DOMAIN p
       PROVE  j = Len(p) \/ (j \in DOMAIN m /\ p[j] = m[j])
  BY <1>7
<1>21. RecomputesServed'
  <2> SUFFICES ASSUME NEW j \in DOMAIN p, IsRecompute(p[j])
               PROVE  Served(f, p, host, staging[<<d, p[j].buffer>>], j)
    BY <1>only, <1>9, <1>q DEF RecomputesServed
  <2>1. CASE j = Len(p)
    <3>1. p[j].buffer = b
      BY <2>1, <1>7, <1>10
    <3> QED BY <2>1, <3>1, <1>19
  <2>2. CASE j \in DOMAIN m /\ p[j] = m[j]
    <3>1. Served(q, m, host, staging[<<d, m[j].buffer>>], j)
      BY <2>2, <1>4, <1>q DEF ReadsInv, RecomputesServed
    <3>2. ASSUME NEW i \in DOMAIN f, i > Len(q), f[i].buffer = m[j].buffer
          PROVE  Behind(f, i, p, j)
      <4>1. \/ useDouble /\ f[i].waits = computed[<<d, m[j].buffer>>]
            \/ ~useDouble /\ f[i].waits = LastKey(m)
        <5>1. CASE f[i] = reload
          BY <5>1, <3>2, <1>10
        <5>2. CASE ahead /\ f[i] = next
          BY <5>2, <3>2, <1>11
        <5> QED BY <5>1, <5>2, <3>2, <1>6
      <4> QED BY <4>1, <2>2, <3>2, <1>4, <1>6, <1>7, <1>q, NewLoadBehind
    <3>3. Served(f, p, host, staging[<<d, m[j].buffer>>], j)
      BY <2>2, <3>1, <3>2, <1>6, <1>7, ServedContinues
    <3> QED BY <3>3, <2>2
  <2> QED BY <2>1, <2>2, <1>20
<1>22. Awaited'
  <2> SUFFICES ASSUME useDouble, NEW j \in DOMAIN p, IsRecompute(p[j])
               PROVE  \/ \E y \in DOMAIN p : y >= j /\ p[y].key \in computed'[<<d, p[j].buffer>>]
                      \/ Behind(f, Len(f), p, j)
    BY <1>only, <1>9, <1>q DEF Awaited
  <2>1. CASE p[j].buffer = b
    <3>1. Len(p) \in DOMAIN p /\ Len(p) >= j /\ p[Len(p)] = kernel
      BY <1>7
    <3> QED BY <2>1, <3>1, <1>13
  <2>2. CASE p[j].buffer # b
    <3>1. j \in DOMAIN m /\ p[j] = m[j]
      <4>1. p[Len(p)].buffer = b
        BY <1>7, <1>10
      <4> QED BY <2>2, <4>1, <1>20
    <3>2. computed'[<<d, m[j].buffer>>] = computed[<<d, m[j].buffer>>]
      <4>1. m[j] \in Commands
        BY <3>1, <1>5
      <4>2. m[j].buffer \in Buffers
        BY <4>1 DEF Commands
      <4> QED BY <4>2, <2>2, <3>1, <1>13
    <3>3. CASE \E y \in DOMAIN m : y >= j /\ m[y].key \in computed[<<d, m[j].buffer>>]
      <4>1. PICK y \in DOMAIN m : y >= j /\ m[y].key \in computed[<<d, m[j].buffer>>]
        BY <3>3
      <4>2. y \in DOMAIN p /\ p[y] = m[y]
        BY <1>7
      <4> QED BY <4>1, <4>2, <3>1, <3>2
    <3>4. CASE Behind(q, Len(q), m, j)
      <4>1. Behind(f, Len(q), p, j)
        BY <3>4, <1>6, <1>7, BehindContinues
      <4>2. \A x \in DOMAIN f : x <= Len(q) => x <= Len(f)
        BY <1>8
      <4> QED BY <4>1, <4>2 DEF Behind
    <3> QED BY <3>1, <3>3, <3>4, <1>4, <1>q DEF ReadsInv, Awaited
  <2> QED BY <2>1, <2>2
<1>23. AheadOfUse'
  <2>1. CASE ahead
    <3>1. prefetched'[d] = <<c.generation, c.slot - 1, 1 - b>> /\ useDouble /\ Prefetching
      BY <2>1, <1>11, <1>14
    <3>2. prefetched'[d][2] = c.slot - 1 /\ prefetched'[d][3] = 1 - b
      BY <3>1
    <3>3. /\ f # <<>> /\ IsLoad(f[Len(f)])
          /\ f[Len(f)].slot = c.slot - 1 /\ f[Len(f)].buffer = 1 - b
          /\ copied'[<<d, 1 - b>>] = {f[Len(f)].key}
      BY <2>1, <1>6, <1>11
    <3> QED BY <3>1, <3>2, <3>3, <1>only, <1>9, <1>q DEF AheadOfUse
  <2>2. CASE ~ahead
    <3>1. prefetched'[d] = Nobody
      BY <2>2, <1>4, <1>14 DEF ReadsInv, AheadOfUse
    <3> QED BY <3>1, <1>only DEF AheadOfUse
  <2> QED BY <2>1, <2>2
<1> QED
  BY <1>1, <1>2, <1>17, <1>21, <1>22, <1>23 DEF ReadsInv

-----------------------------------------------------------------------------

LEMMA InitReads ==
  ASSUME Init
  PROVE  ReadsInv
<1>1. TypeOK
  <2>2. /\ computed \in [Devices \X Buffers -> SUBSET Keys] /\ copied \in [Devices \X Buffers -> SUBSET Keys]
        /\ staging \in [Devices \X Buffers -> Nodes \cup {Nobody}]
    BY DEF Init
  <2>3. /\ main \in [Devices -> Seq(Commands)] /\ extra \in [Devices -> Seq(Commands)]
        /\ ctx \in [Graphs -> Seq(Node)] /\ host \in [Slots -> Nodes \cup {Nobody}]
    BY DEF Init
  <2>4. fences \in [Slots -> SUBSET (Devices \X Keys)] /\ holder \in [Slots -> Nodes \cup {Nobody}]
        /\ nextBuffer \in [Devices -> Buffers]
    BY DEF Init, NoFences, NoHolders, FirstIsA, Buffers
  <2>5. passes \in [Graphs -> 0..MaxPasses] /\ stage \in [Graphs -> {"forward", "ready", "gone"}]
    BY OffloadAssumption DEF Init
  <2> QED BY <2>2, <2>3, <2>4, <2>5, OffloadAssumption DEF Init, TypeOK
<1>2. /\ \A d \in Devices : main[d] = <<>> /\ extra[d] = <<>>
      /\ useDouble = FALSE /\ prefetched = NoneAhead /\ meta = <<>>
  BY DEF Init
<1>3. meta \in Seq(Records) /\ Len(meta) <= MaxSlots
  BY <1>2, OffloadAssumption
<1>4. prefetched \in [Devices -> (Nat \X Slots \X Buffers) \cup {Nobody}]
  BY <1>2 DEF NoneAhead
<1>5. \A d \in Devices : DOMAIN main[d] = {} /\ DOMAIN extra[d] = {}
  BY <1>2
<1>6. StreamsTyped
  BY <1>1, <1>3, <1>4, <1>5 DEF StreamsTyped
<1>7. KeysOnce
  BY <1>5 DEF KeysOnce, Queued, Distinct
<1>8. HostKept
  <2> SUFFICES ASSUME NEW n \in Nodes PROVE ~Exists(n)
    BY DEF HostKept, Ours
  <2>1. n[1] \in Graphs
    BY NodeParts
  <2>2. ctx[n[1]] = <<>>
    BY <2>1 DEF Init
  <2> QED BY <2>2 DEF Exists
<1>9. RecomputesServed /\ Awaited /\ AheadOfUse
  BY <1>2, <1>5 DEF RecomputesServed, Awaited, AheadOfUse, NoneAhead
<1> QED
  BY <1>6, <1>7, <1>8, <1>9 DEF ReadsInv

LEMMA NextReads ==
  ASSUME OneDevice, PoolInv, PoolInv', ReadsInv, [Next]_vars
  PROVE  ReadsInv'
<1>1. ASSUME NEW g \in Graphs, NEW d \in Devices, ForwardKept(g, d) PROVE ReadsInv'
  BY <1>1, ForwardKeptReads
<1>2. ASSUME NEW g \in Graphs, NEW d \in Devices, NEW s \in Slots, ForwardOffloaded(g, d, s)
      PROVE  ReadsInv'
  BY <1>2, ForwardOffloadedReads
<1>3. ASSUME NEW g \in Graphs, EndForward(g) PROVE ReadsInv'
  BY <1>3, EndForwardReads
<1>4. ASSUME NEW g \in Graphs, Drop(g) PROVE ReadsInv'
  BY <1>4, DropReads
<1>5. ASSUME NEW g \in Graphs, NEW retain \in BOOLEAN, BeginBackward(g, retain) PROVE ReadsInv'
  BY <1>5, BeginBackwardReads
<1>6. CASE BackwardKept
  BY <1>6, BackwardKeptReads
<1>7. CASE BackwardOffloaded
  BY <1>7, BackwardOffloadedReads
<1>8. CASE Reset
  BY <1>8, ResetReads
<1>9. ASSUME NEW d \in Devices, Copy(d) PROVE ReadsInv'
  BY <1>9, CopyReads
<1>10. ASSUME NEW d \in Devices, Compute(d) PROVE ReadsInv'
  BY <1>10, ComputeReads
<1>11. CASE UNCHANGED vars
  <2>1. UNCHANGED <<poolVars, passVars, bufVars, preVars, graphVars, gpuVars>>
    BY <1>11 DEF vars
  <2>2. UNCHANGED <<useDouble, bufferB, meta, prefetched, fences, ctx, epoch, passes, gpuVars>>
    BY <2>1 DEF poolVars, bufVars, preVars, graphVars
  <2>3. UNCHANGED <<backwardPass, firstPass, lastIndex, currentIndex>>
    BY <2>1 DEF passVars
  <2>4. KeepsPast /\ KeepsReadable
    BY <2>1, <2>2, PastSame, ReadableSame
  <2>5. StreamsTyped'
    BY <1>11, StutterTyped DEF ReadsInv
  <2> QED BY <2>2, <2>3, <2>4, <2>5, QuietReads
<1> QED
  BY <1>1, <1>2, <1>3, <1>4, <1>5, <1>6, <1>7, <1>8, <1>9, <1>10, <1>11 DEF Next, CPU

\* A recompute at the head of its stream has nothing left to wait for.
LEMMA ReadsItsInput ==
  ASSUME StreamsTyped, RecomputesServed
  PROVE  RecomputeReadsItsInput
<1> SUFFICES ASSUME NEW d \in Devices, Runnable(main[d]), Head(main[d]).key[3] = "recompute"
             PROVE  staging[<<d, Head(main[d]).buffer>>] = NodeOf(Head(main[d]))
  BY DEF RecomputeReadsItsInput
<1>q. PICK m, e : m = main[d] /\ e = extra[d]
  OBVIOUS
<1>1. m \in Seq(Commands) /\ m # <<>> /\ e \in Seq(Commands)
  BY <1>q DEF StreamsTyped, TypeOK, Runnable
<1>2. Head(m) = m[1] /\ 1 \in DOMAIN m
  BY <1>1
<1>3. IsRecompute(m[1]) /\ m[1].waits \cap Pending = {}
  BY <1>2, <1>q DEF IsRecompute, Runnable
<1>4. Served(e, m, host, staging[<<d, m[1].buffer>>], 1)
  BY <1>2, <1>3, <1>q DEF RecomputesServed
<1>5. \A k \in DOMAIN e : e[k].key \in Pending
  BY <1>q DEF Pending
<1>6. staging[<<d, m[1].buffer>>] = NodeOf(m[1])
  BY <1>3, <1>4, <1>5 DEF Served
<1> QED
  BY <1>2, <1>6, <1>q

\* The types of the whole state, for any number of devices.
THEOREM OffloadTypeCorrect == Spec => []TypeOK
<1>1. Init => StreamsTyped
  BY InitReads DEF ReadsInv
<1>2. PoolInv /\ PoolInv' /\ StreamsTyped /\ [Next]_vars => StreamsTyped'
  BY NextTyped
<1>3. StreamsTyped => TypeOK
  BY DEF StreamsTyped
<1> QED
  BY <1>1, <1>2, <1>3, PoolHolds, PTL DEF Spec

\* With one device a recompute reads what its own layer was given, however
\* offloads, reloads and prefetches of all graphs were queued and whenever
\* each stream ran: the waits that forward and backward of
\* UnslothCheckpointFunction place are enough.
THEOREM RecomputesReadTheirInput ==
  ASSUME OneDevice
  PROVE  Spec => []RecomputeReadsItsInput
<1>1. ReadsInv => RecomputeReadsItsInput
  BY ReadsItsInput DEF ReadsInv
<1>2. Init => ReadsInv
  BY InitReads
<1>3. PoolInv /\ PoolInv' /\ ReadsInv /\ [Next]_vars => ReadsInv'
  BY NextReads
<1> QED
  BY <1>1, <1>2, <1>3, PoolHolds, PTL DEF Spec

-----------------------------------------------------------------------------
(* Side streams of several devices, x and y being all of them.  A key is    *)
(* after another if it is in every set of keys that holds the other and all *)
(* that commands of the set come after, in their stream or by a wait.       *)

Closed(x, S) ==
  \A d \in Devices : \A k \in DOMAIN x[d] : x[d][k].key \in S =>
    /\ \A i \in DOMAIN x[d] : i <= k => x[d][i].key \in S
    /\ \A e \in Devices : \A i \in DOMAIN x[e] :
         x[e][i].key \in x[d][k].waits => x[e][i].key \in S

After(x, a, b) == \A S \in SUBSET Keys : Closed(x, S) /\ a \in S => b \in S

Once(x) ==
  \A d, e \in Devices : \A i \in DOMAIN x[d], j \in DOMAIN x[e] :
    x[d][i].key = x[e][j].key => d = e /\ i = j

Queues == [Devices -> Seq(Commands)]

LEMMA QueueParts ==
  ASSUME NEW x \in Queues, NEW d \in Devices
  PROVE  /\ x[d] \in Seq(Commands) /\ Len(x[d]) \in Nat /\ DOMAIN x[d] = 1..Len(x[d])
         /\ \A k \in DOMAIN x[d] : x[d][k] \in Commands /\ x[d][k].key \in Keys
<1>1. x[d] \in Seq(Commands)
  BY DEF Queues
<1>2. Len(x[d]) \in Nat /\ DOMAIN x[d] = 1..Len(x[d])
  BY <1>1
<1>3. \A k \in DOMAIN x[d] : x[d][k] \in Commands
  BY <1>1
<1>4. \A c \in Commands : c.key \in Keys
  BY DEF Commands
<1> QED
  BY <1>1, <1>2, <1>3, <1>4

LEMMA AfterSelf ==
  ASSUME NEW x, NEW a
  PROVE  After(x, a, a)
BY DEF After

LEMMA AfterTrans ==
  ASSUME NEW x, NEW a, NEW b, NEW c, After(x, a, b), After(x, b, c)
  PROVE  After(x, a, c)
BY DEF After

LEMMA AfterInStream ==
  ASSUME NEW x, NEW d \in Devices, NEW i \in DOMAIN x[d], NEW k \in DOMAIN x[d], i <= k
  PROVE  After(x, x[d][k].key, x[d][i].key)
BY DEF After, Closed

LEMMA AfterWait ==
  ASSUME NEW x, NEW d \in Devices, NEW k \in DOMAIN x[d], NEW e \in Devices, NEW i \in DOMAIN x[e],
         x[e][i].key \in x[d][k].waits
  PROVE  After(x, x[d][k].key, x[e][i].key)
BY DEF After, Closed

-----------------------------------------------------------------------------
(* A command is given to the stream of a device. *)

Given(y, x, d, c) ==
  /\ Pushes(y[d], x[d], c)
  /\ \A e \in Devices : e # d => y[e] = x[e]

GivenKeeps(y, x) ==
  \A e \in Devices : \A i \in DOMAIN x[e] : i \in DOMAIN y[e] /\ y[e][i] = x[e][i]

GivenAt(y, x, d, c, k) ==
  /\ k \in DOMAIN y[d] /\ y[d][k] = c
  /\ \A i \in DOMAIN x[d] : i <= k
  /\ \A e \in Devices : \A j \in DOMAIN y[e] :
       (j \in DOMAIN x[e] /\ y[e][j] = x[e][j]) \/ (e = d /\ j = k /\ y[e][j] = c)

LEMMA GivenParts ==
  ASSUME NEW x \in Queues, NEW y, NEW d \in Devices, NEW c, Given(y, x, d, c)
  PROVE  GivenKeeps(y, x) /\ \E k : GivenAt(y, x, d, c, k)
<1>q. PICK q, r : q = x[d] /\ r = y[d]
  OBVIOUS
<1>1. Pushes(r, q, c)
  BY <1>q DEF Given
<1>2. /\ Len(q) \in Nat /\ Len(r) = Len(q) + 1 /\ r[Len(q) + 1] = c
      /\ DOMAIN q = 1..Len(q) /\ DOMAIN r = 1..Len(r)
      /\ \A k \in DOMAIN q : r[k] = q[k]
  BY <1>1, PushParts
<1>3. Len(q) + 1 \in DOMAIN r /\ \A i \in DOMAIN q : i \in DOMAIN r /\ r[i] = q[i]
  BY <1>2
<1>4. \A j \in DOMAIN r : j \in DOMAIN q \/ j = Len(q) + 1
  BY <1>2
<1>5. ASSUME NEW e \in Devices, NEW i \in DOMAIN x[e]
      PROVE  i \in DOMAIN y[e] /\ y[e][i] = x[e][i]
  <2>1. CASE e = d
    BY <2>1, <1>3, <1>5, <1>q
  <2>2. CASE e # d
    BY <2>2, <1>5 DEF Given
  <2> QED BY <2>1, <2>2
<1>6. ASSUME NEW e \in Devices, NEW j \in DOMAIN y[e]
      PROVE  (j \in DOMAIN x[e] /\ y[e][j] = x[e][j]) \/ (e = d /\ j = Len(x[d]) + 1 /\ y[e][j] = c)
  <2>1. CASE e = d
    <3>1. CASE j \in DOMAIN q
      BY <2>1, <3>1, <1>3, <1>q
    <3>2. CASE j = Len(q) + 1
      BY <2>1, <3>2, <1>2, <1>q
    <3> QED BY <3>1, <3>2, <2>1, <1>4, <1>6, <1>q
  <2>2. CASE e # d
    BY <2>2, <1>6 DEF Given
  <2> QED BY <2>1, <2>2
<1>7. \A i \in DOMAIN q : i <= Len(q) + 1
  BY <1>2
<1>8. GivenAt(y, x, d, c, Len(x[d]) + 1)
  BY <1>2, <1>3, <1>6, <1>7, <1>q DEF GivenAt
<1>9. GivenKeeps(y, x)
  BY <1>5 DEF GivenKeeps
<1> QED
  BY <1>8, <1>9

LEMMA AfterGiven ==
  ASSUME NEW x \in Queues, NEW y, NEW d \in Devices, NEW c, Given(y, x, d, c),
         NEW a, NEW b, After(x, a, b)
  PROVE  After(y, a, b)
<1> SUFFICES ASSUME NEW S \in SUBSET Keys, Closed(y, S) PROVE Closed(x, S)
  BY DEF After
<1>1. GivenKeeps(y, x)
  BY GivenParts
<1> QED
  BY <1>1 DEF Closed, GivenKeeps

LEMMA OnceGiven ==
  ASSUME NEW x \in Queues, NEW y, NEW d \in Devices, NEW c, Given(y, x, d, c), Once(x),
         \A e \in Devices : \A i \in DOMAIN x[e] : x[e][i].key # c.key
  PROVE  Once(y)
<1>1. PICK k : GivenAt(y, x, d, c, k)
  BY GivenParts
<1> SUFFICES ASSUME NEW e \in Devices, NEW h \in Devices, NEW i \in DOMAIN y[e], NEW j \in DOMAIN y[h],
                    y[e][i].key = y[h][j].key
             PROVE  e = h /\ i = j
  BY DEF Once
<1>2. CASE i \in DOMAIN x[e] /\ y[e][i] = x[e][i]
  <2>1. CASE j \in DOMAIN x[h] /\ y[h][j] = x[h][j]
    BY <1>2, <2>1 DEF Once
  <2>2. CASE y[h][j] = c
    BY <1>2, <2>2
  <2> QED BY <2>1, <2>2, <1>1 DEF GivenAt
<1>3. CASE e = d /\ i = k /\ y[e][i] = c
  <2>1. CASE j \in DOMAIN x[h] /\ y[h][j] = x[h][j]
    BY <1>3, <2>1
  <2>2. CASE h = d /\ j = k
    BY <1>3, <2>2
  <2> QED BY <2>1, <2>2, <1>1 DEF GivenAt
<1> QED
  BY <1>1, <1>2, <1>3 DEF GivenAt

-----------------------------------------------------------------------------
(* The first command of a stream is run. *)

Taken(y, x, d) ==
  /\ x[d] # <<>> /\ y[d] = Tail(x[d])
  /\ \A e \in Devices : e # d => y[e] = x[e]

\* What the first command waited for has run.
Free(x, d) == \A e \in Devices : \A i \in DOMAIN x[e] : x[e][i].key \notin x[d][1].waits

LEMMA TakenParts ==
  ASSUME NEW x \in Queues, NEW y, NEW d \in Devices, Taken(y, x, d)
  PROVE  /\ 1 \in DOMAIN x[d] /\ x[d][1] \in Commands
         /\ \A j \in DOMAIN y[d] : j + 1 \in DOMAIN x[d] /\ y[d][j] = x[d][j + 1] /\ j + 1 # 1 /\ j \in Nat
         /\ \A i \in DOMAIN x[d] : i # 1 => i - 1 \in DOMAIN y[d] /\ y[d][i - 1] = x[d][i]
         /\ \A i \in DOMAIN x[d] : i \in Nat \ {0}
         /\ \A e \in Devices : e # d => y[e] = x[e]
<1>q. PICK q, r : q = x[d] /\ r = y[d]
  OBVIOUS
<1>1. q \in Seq(Commands) /\ q # <<>> /\ r = Tail(q)
  BY <1>q DEF Taken, Queues
<1>2. /\ Len(q) \in Nat \ {0} /\ Len(r) = Len(q) - 1 /\ DOMAIN q = 1..Len(q) /\ DOMAIN r = 1..Len(r)
      /\ \A i \in 1..Len(r) : r[i] = q[i + 1]
      /\ q[1] \in Commands
  BY <1>1, Popped
<1>3. ASSUME NEW j \in DOMAIN r PROVE j + 1 \in DOMAIN q /\ r[j] = q[j + 1] /\ j + 1 # 1 /\ j \in Nat
  BY <1>2
<1>4. ASSUME NEW i \in DOMAIN q, i # 1 PROVE i - 1 \in DOMAIN r /\ r[i - 1] = q[i]
  <2>1. i - 1 \in DOMAIN r /\ (i - 1) + 1 = i
    BY <1>2, <1>4
  <2>2. r[i - 1] = q[(i - 1) + 1]
    BY <2>1, <1>2
  <2> QED BY <2>1, <2>2
<1>5. 1 \in DOMAIN q /\ \A i \in DOMAIN q : i \in Nat \ {0}
  BY <1>2
<1> QED
  BY <1>2, <1>3, <1>4, <1>5, <1>q DEF Taken

\* A command left is one that was there, and conversely but for the one run.
LEMMA TakenSame ==
  ASSUME NEW x \in Queues, NEW y, NEW d \in Devices, Taken(y, x, d), Once(x)
  PROVE  /\ \A e \in Devices : \A j \in DOMAIN y[e] :
              y[e][j].key # x[d][1].key /\ \E i \in DOMAIN x[e] : y[e][j] = x[e][i]
         /\ \A e \in Devices : \A i \in DOMAIN x[e] :
              x[e][i].key # x[d][1].key => \E j \in DOMAIN y[e] : y[e][j] = x[e][i]
<1>1. /\ 1 \in DOMAIN x[d]
      /\ \A j \in DOMAIN y[d] : j + 1 \in DOMAIN x[d] /\ y[d][j] = x[d][j + 1] /\ j + 1 # 1
      /\ \A i \in DOMAIN x[d] : i # 1 => i - 1 \in DOMAIN y[d] /\ y[d][i - 1] = x[d][i]
      /\ \A e \in Devices : e # d => y[e] = x[e]
  BY TakenParts
<1>2. ASSUME NEW e \in Devices, NEW j \in DOMAIN y[e]
      PROVE  y[e][j].key # x[d][1].key /\ \E i \in DOMAIN x[e] : y[e][j] = x[e][i]
  <2>1. CASE e = d
    <3>1. j + 1 \in DOMAIN x[d] /\ y[d][j] = x[d][j + 1] /\ j + 1 # 1
      BY <2>1, <1>1, <1>2
    <3>2. x[d][j + 1].key # x[d][1].key
      BY <3>1, <1>1 DEF Once
    <3> QED BY <2>1, <3>1, <3>2
  <2>2. CASE e # d
    <3>1. j \in DOMAIN x[e] /\ y[e][j] = x[e][j]
      BY <2>2, <1>1, <1>2
    <3>2. x[e][j].key # x[d][1].key
      BY <2>2, <3>1, <1>1 DEF Once
    <3> QED BY <3>1, <3>2
  <2> QED BY <2>1, <2>2
<1>3. ASSUME NEW e \in Devices, NEW i \in DOMAIN x[e], x[e][i].key # x[d][1].key
      PROVE  \E j \in DOMAIN y[e] : y[e][j] = x[e][i]
  <2>1. CASE e = d
    <3>1. i # 1
      BY <2>1, <1>3
    <3>2. i - 1 \in DOMAIN y[d] /\ y[d][i - 1] = x[d][i]
      BY <2>1, <3>1, <1>1, <1>3
    <3> QED BY <2>1, <3>2
  <2>2. CASE e # d
    BY <2>2, <1>1, <1>3
  <2> QED BY <2>1, <2>2
<1> QED
  BY <1>2, <1>3

LEMMA OnceTaken ==
  ASSUME NEW x \in Queues, NEW y, NEW d \in Devices, Taken(y, x, d), Once(x)
  PROVE  Once(y)
<1>1. /\ \A j \in DOMAIN y[d] : j + 1 \in DOMAIN x[d] /\ y[d][j] = x[d][j + 1] /\ j \in Nat
      /\ \A e \in Devices : e # d => y[e] = x[e]
  BY TakenParts
<1> SUFFICES ASSUME NEW e \in Devices, NEW h \in Devices, NEW i \in DOMAIN y[e], NEW j \in DOMAIN y[h],
                    y[e][i].key = y[h][j].key
             PROVE  e = h /\ i = j
  BY DEF Once
<1>2. CASE e = d /\ h = d
  <2>1. i + 1 = j + 1 /\ i \in Nat /\ j \in Nat
    BY <1>1, <1>2 DEF Once
  <2> QED BY <2>1, <1>2
<1>3. CASE e = d /\ h # d
  BY <1>1, <1>3 DEF Once
<1>4. CASE e # d /\ h = d
  BY <1>1, <1>4 DEF Once
<1>5. CASE e # d /\ h # d
  BY <1>1, <1>5 DEF Once
<1> QED
  BY <1>2, <1>3, <1>4, <1>5

\* The command that is run is after no other.
LEMMA FirstAlone ==
  ASSUME NEW x \in Queues, NEW d \in Devices, x[d] # <<>>, Once(x), Free(x, d),
         NEW b, After(x, x[d][1].key, b)
  PROVE  b = x[d][1].key
<1>q. PICK key : key = x[d][1].key
  OBVIOUS
<1>1. 1 \in DOMAIN x[d] /\ key \in Keys /\ DOMAIN x[d] = 1..Len(x[d]) /\ Len(x[d]) \in Nat
  <2>1. x[d] \in Seq(Commands) /\ Len(x[d]) \in Nat /\ DOMAIN x[d] = 1..Len(x[d])
    BY QueueParts
  <2>2. 1 \in DOMAIN x[d]
    BY <2>1
  <2> QED BY <2>1, <2>2, <1>q, QueueParts
<1>2. Closed(x, {key})
  <2> SUFFICES ASSUME NEW e \in Devices, NEW k \in DOMAIN x[e], x[e][k].key = key
               PROVE  /\ \A i \in DOMAIN x[e] : i <= k => x[e][i].key = key
                      /\ \A h \in Devices : \A i \in DOMAIN x[h] :
                           x[h][i].key \in x[e][k].waits => x[h][i].key = key
    BY DEF Closed
  <2>1. e = d /\ k = 1
    BY <1>1, <1>q DEF Once
  <2>2. \A i \in DOMAIN x[d] : i <= 1 => i = 1
    BY <1>1
  <2> QED BY <2>1, <2>2, <1>q DEF Free
<1> QED
  BY <1>1, <1>2, <1>q DEF After

LEMMA AfterTaken ==
  ASSUME NEW x \in Queues, NEW y, NEW d \in Devices, Taken(y, x, d), Once(x), Free(x, d),
         NEW a, NEW b, After(x, a, b), b # x[d][1].key
  PROVE  After(y, a, b)
<1>q. PICK key : key = x[d][1].key
  OBVIOUS
<1>1. /\ 1 \in DOMAIN x[d] /\ x[d][1] \in Commands
      /\ \A i \in DOMAIN x[d] : i # 1 => i - 1 \in DOMAIN y[d] /\ y[d][i - 1] = x[d][i]
      /\ \A i \in DOMAIN x[d] : i \in Nat \ {0}
      /\ \A e \in Devices : e # d => y[e] = x[e]
  BY TakenParts
<1>2. key \in Keys
  BY <1>1, <1>q DEF Commands
<1> SUFFICES ASSUME NEW S \in SUBSET Keys, Closed(y, S) PROVE Closed(x, S \cup {key})
  BY <1>2, <1>q DEF After
\* In y, what it was: a command of x but the first is one of y.
<1>3. ASSUME NEW e \in Devices, NEW k \in DOMAIN x[e], x[e][k].key # key
      PROVE  \E j \in DOMAIN y[e] : /\ y[e][j] = x[e][k]
                                    /\ \A i \in DOMAIN x[e] : i <= k /\ x[e][i].key # key =>
                                         \E m \in DOMAIN y[e] : m <= j /\ y[e][m] = x[e][i]
  <2>1. CASE e = d
    <3>1. k # 1
      BY <2>1, <1>3, <1>q
    <3>2. k - 1 \in DOMAIN y[e] /\ y[e][k - 1] = x[e][k]
      BY <2>1, <3>1, <1>1, <1>3
    <3>3. ASSUME NEW i \in DOMAIN x[e], i <= k, x[e][i].key # key
          PROVE  \E m \in DOMAIN y[e] : m <= k - 1 /\ y[e][m] = x[e][i]
      <4>1. i # 1
        BY <2>1, <3>3, <1>q
      <4>2. i - 1 \in DOMAIN y[e] /\ y[e][i - 1] = x[e][i]
        BY <2>1, <4>1, <1>1, <3>3
      <4>3. i - 1 <= k - 1
        <5>1. i \in Nat /\ k \in Nat
          BY <2>1, <1>1, <1>3, <3>3
        <5> QED BY <5>1, <3>3
      <4> QED BY <4>2, <4>3
    <3> QED BY <3>2, <3>3
  <2>2. CASE e # d
    BY <2>2, <1>1, <1>3
  <2> QED BY <2>1, <2>2
<1>4. ASSUME NEW e \in Devices, NEW k \in DOMAIN x[e], x[e][k].key \in S, x[e][k].key # key
      PROVE  /\ \A i \in DOMAIN x[e] : i <= k => x[e][i].key \in S \cup {key}
             /\ \A h \in Devices : \A i \in DOMAIN x[h] :
                  x[h][i].key \in x[e][k].waits => x[h][i].key \in S \cup {key}
  <2>1. PICK j \in DOMAIN y[e] : /\ y[e][j] = x[e][k]
                                 /\ \A i \in DOMAIN x[e] : i <= k /\ x[e][i].key # key =>
                                      \E m \in DOMAIN y[e] : m <= j /\ y[e][m] = x[e][i]
    BY <1>3, <1>4
  <2>2. /\ \A m \in DOMAIN y[e] : m <= j => y[e][m].key \in S
        /\ \A h \in Devices : \A m \in DOMAIN y[h] : y[h][m].key \in y[e][j].waits => y[h][m].key \in S
    BY <2>1, <1>4 DEF Closed
  <2>3. ASSUME NEW i \in DOMAIN x[e], i <= k
        PROVE  x[e][i].key \in S \cup {key}
    BY <2>1, <2>2, <2>3
  <2>4. ASSUME NEW h \in Devices, NEW i \in DOMAIN x[h], x[h][i].key \in x[e][k].waits
        PROVE  x[h][i].key \in S \cup {key}
    <3>1. CASE x[h][i].key # key
      <4>1. PICK m \in DOMAIN y[h] : y[h][m] = x[h][i]
        BY <3>1, <1>3
      <4> QED BY <4>1, <2>1, <2>2, <2>4
    <3> QED BY <3>1
  <2> QED BY <2>3, <2>4
<1>5. ASSUME NEW e \in Devices, NEW k \in DOMAIN x[e], x[e][k].key = key
      PROVE  /\ \A i \in DOMAIN x[e] : i <= k => x[e][i].key \in S \cup {key}
             /\ \A h \in Devices : \A i \in DOMAIN x[h] :
                  x[h][i].key \in x[e][k].waits => x[h][i].key \in S \cup {key}
  <2>1. e = d /\ k = 1
    BY <1>1, <1>5, <1>q DEF Once
  <2>2. \A i \in DOMAIN x[d] : i <= 1 => i = 1
    BY <1>1
  <2> QED BY <2>1, <2>2, <1>q DEF Free
<1> QED
  BY <1>4, <1>5 DEF Closed

-----------------------------------------------------------------------------
(* What is in the streams. *)

In(x, d, c) == \E k \in DOMAIN x[d] : x[d][k] = c

\* c is in y as well, after all of its stream and all it waits for.
Joins(y, x, d, c) ==
  /\ \A e \in Devices : \A a : In(y, e, a) <=> In(x, e, a) \/ (e = d /\ a = c)
  /\ \A a : In(x, d, a) => After(y, c.key, a.key)
  /\ \A e \in Devices : \A a : In(x, e, a) /\ a.key \in c.waits => After(y, c.key, a.key)

LEMMA GivenIn ==
  ASSUME NEW x \in Queues, NEW y, NEW d \in Devices, NEW c, Given(y, x, d, c)
  PROVE  Joins(y, x, d, c)
<1>1. PICK k : GivenAt(y, x, d, c, k)
  BY GivenParts
<1>2. GivenKeeps(y, x)
  BY GivenParts
<1>3. ASSUME NEW e \in Devices, NEW a
      PROVE  In(y, e, a) <=> In(x, e, a) \/ (e = d /\ a = c)
  BY <1>1, <1>2 DEF GivenAt, GivenKeeps, In
<1>4. ASSUME NEW a, In(x, d, a) PROVE After(y, c.key, a.key)
  <2>1. PICK i \in DOMAIN x[d] : x[d][i] = a
    BY <1>4 DEF In
  <2>2. i \in DOMAIN y[d] /\ y[d][i] = a /\ i <= k /\ k \in DOMAIN y[d] /\ y[d][k] = c
    BY <2>1, <1>1, <1>2 DEF GivenAt, GivenKeeps
  <2> QED BY <2>2, AfterInStream
<1>5. ASSUME NEW e \in Devices, NEW a, In(x, e, a), a.key \in c.waits PROVE After(y, c.key, a.key)
  <2>1. PICK i \in DOMAIN x[e] : x[e][i] = a
    BY <1>5 DEF In
  <2>2. i \in DOMAIN y[e] /\ y[e][i] = a /\ k \in DOMAIN y[d] /\ y[d][k] = c
    BY <2>1, <1>1, <1>2 DEF GivenAt, GivenKeeps
  <2> QED BY <2>2, <1>5, AfterWait
<1> QED
  BY <1>3, <1>4, <1>5 DEF Joins

LEMMA TakenIn ==
  ASSUME NEW x \in Queues, NEW y, NEW d \in Devices, Taken(y, x, d), Once(x)
  PROVE  /\ \A e \in Devices : \A a : In(y, e, a) <=> In(x, e, a) /\ a.key # x[d][1].key
         /\ In(x, d, x[d][1])
<1>1. /\ \A e \in Devices : \A j \in DOMAIN y[e] :
           y[e][j].key # x[d][1].key /\ \E i \in DOMAIN x[e] : y[e][j] = x[e][i]
      /\ \A e \in Devices : \A i \in DOMAIN x[e] :
           x[e][i].key # x[d][1].key => \E j \in DOMAIN y[e] : y[e][j] = x[e][i]
  BY TakenSame
<1>2. 1 \in DOMAIN x[d]
  BY TakenParts
<1>3. ASSUME NEW e \in Devices, NEW a
      PROVE  In(y, e, a) <=> In(x, e, a) /\ a.key # x[d][1].key
  BY <1>1 DEF In
<1> QED
  BY <1>2, <1>3 DEF In

LEMMA InQueue ==
  ASSUME NEW x \in Queues, NEW d \in Devices, NEW a, In(x, d, a)
  PROVE  a \in Commands /\ a.key \in Keys
BY QueueParts DEF In

\* The end of a stream is after all that is in it.
LEMMA EndAfter ==
  ASSUME NEW x \in Queues, NEW d \in Devices, NEW a, In(x, d, a)
  PROVE  \E b : In(x, d, b) /\ LastKey(x[d]) = {b.key} /\ After(x, b.key, a.key)
<1>1. PICK i \in DOMAIN x[d] : x[d][i] = a
  BY DEF In
<1>2. x[d] \in Seq(Commands) /\ DOMAIN x[d] = 1..Len(x[d]) /\ Len(x[d]) \in Nat
  BY QueueParts
<1>3. Len(x[d]) \in DOMAIN x[d] /\ i <= Len(x[d]) /\ x[d] # <<>>
  BY <1>1, <1>2
<1>4. After(x, x[d][Len(x[d])].key, a.key)
  BY <1>1, <1>3, AfterInStream
<1>5. LastKey(x[d]) = {x[d][Len(x[d])].key}
  BY <1>3 DEF LastKey
<1>6. In(x, d, x[d][Len(x[d])])
  BY <1>3 DEF In
<1> QED
  BY <1>4, <1>5, <1>6

\* The offload of node n, queued on device d, is after the command of this key.
Follows(x, d, n, key) ==
  \E w \in Commands : In(x, d, w) /\ IsOffload(w) /\ NodeOf(w) = n /\ After(x, w.key, key)

\* One of these releases has not been reached, and is after that command.
Fenced(x, F, key) ==
  \E f \in F : After(x, f[2], key) /\ \E a : In(x, f[1], a) /\ a.key = f[2]

\* y has what x has, in the same order.
Stays(y, x) ==
  /\ \A d \in Devices : \A a : In(x, d, a) => In(y, d, a)
  /\ \A a, b : After(x, a, b) => After(y, a, b)

LEMMA GivenStays ==
  ASSUME NEW x \in Queues, NEW y, NEW d \in Devices, NEW c, Given(y, x, d, c)
  PROVE  Stays(y, x)
<1>1. Joins(y, x, d, c)
  BY GivenIn
<1>2. \A a, b : After(x, a, b) => After(y, a, b)
  BY AfterGiven
<1> QED
  BY <1>1, <1>2 DEF Joins, Stays

LEMMA FollowsStays ==
  ASSUME NEW x, NEW y, Stays(y, x), NEW d \in Devices, NEW n, NEW key, Follows(x, d, n, key)
  PROVE  Follows(y, d, n, key)
BY DEF Follows, Stays

LEMMA FencedStays ==
  ASSUME NEW x, NEW y, Stays(y, x), NEW F \in SUBSET (Devices \X Keys), NEW key, Fenced(x, F, key)
  PROVE  Fenced(y, F, key)
<1>1. PICK f \in F : After(x, f[2], key) /\ \E a : In(x, f[1], a) /\ a.key = f[2]
  BY DEF Fenced
<1>2. f[1] \in Devices
  BY <1>1
<1>3. After(y, f[2], key) /\ \E a : In(y, f[1], a) /\ a.key = f[2]
  BY <1>1, <1>2 DEF Stays
<1> QED
  BY <1>1, <1>3 DEF Fenced

LEMMA FollowsTaken ==
  ASSUME NEW x \in Queues, NEW y, NEW d \in Devices, Taken(y, x, d), Once(x), Free(x, d),
         NEW e \in Devices, NEW n, NEW key, key # x[d][1].key, Follows(x, e, n, key)
  PROVE  Follows(y, e, n, key)
<1>1. PICK w \in Commands : In(x, e, w) /\ IsOffload(w) /\ NodeOf(w) = n /\ After(x, w.key, key)
  BY DEF Follows
<1>2. w.key # x[d][1].key
  <2>1. x[d] # <<>>
    BY DEF Taken
  <2> QED BY <2>1, <1>1, FirstAlone
<1>3. In(y, e, w) /\ After(y, w.key, key)
  BY <1>1, <1>2, TakenIn, AfterTaken
<1> QED
  BY <1>1, <1>3 DEF Follows

LEMMA FencedTaken ==
  ASSUME NEW x \in Queues, NEW y, NEW d \in Devices, Taken(y, x, d), Once(x), Free(x, d),
         NEW F \in SUBSET (Devices \X Keys), NEW key, key # x[d][1].key, Fenced(x, F, key)
  PROVE  Fenced(y, {f \in F : f[2] # x[d][1].key}, key)
<1>1. PICK f \in F : After(x, f[2], key) /\ \E a : In(x, f[1], a) /\ a.key = f[2]
  BY DEF Fenced
<1>2. f[1] \in Devices /\ f[2] # x[d][1].key
  <2>1. x[d] # <<>>
    BY DEF Taken
  <2>2. f[2] # x[d][1].key
    BY <2>1, <1>1, FirstAlone
  <2> QED BY <2>2, <1>1
<1>3. After(y, f[2], key) /\ \E a : In(y, f[1], a) /\ a.key = f[2]
  BY <1>1, <1>2, TakenIn, AfterTaken
<1> QED
  BY <1>1, <1>2, <1>3 DEF Fenced

-----------------------------------------------------------------------------
(* The order of what reads and writes a host slot, on all devices, when no  *)
(* graph is retained.                                                       *)

OffloadKey(n) == <<n[1], n[2], "offload", 0>>

KeysApart ==
  /\ Once(extra)
  /\ \A d \in Devices : \A c \in Commands : In(extra, d, c) =>
       Past(c.key) /\ (IsOffload(c) => c.key = OffloadKey(NodeOf(c)))

FirstPass == \A g \in Graphs : stage[g] = "forward" => passes[g] = 0

HostCame == \A s \in Slots : host[s] # Nobody => Past(OffloadKey(host[s]))

\* Nothing is kept for a second backward.
RunOnce ==
  /\ running # Nobody => ~running.retain
  /\ \A n \in Nodes : Ours(n) /\ At(n).kept => At(n).leased

Touches(c, s) == c.key[3] # "prefetch" /\ c.slot = s

\* The offload of a node to come is the last that its slot was given to.
LeasedLast ==
  \A n \in Nodes : Ours(n) /\ At(n).kept =>
    \A d \in Devices : \A c \in Commands : In(extra, d, c) /\ Touches(c, At(n).slot)
      => Follows(extra, At(n).device, n, c.key)

\* A release of a free slot is after all that the slot is still used for.
FencesCover ==
  \A s \in Unleased : \A d \in Devices : \A c \in Commands :
    In(extra, d, c) /\ Touches(c, s) => Fenced(extra, fences[s], c.key)

SlotsUsed ==
  \A d \in Devices : \A c \in Commands : In(extra, d, c) /\ c.key[3] # "prefetch" => c.slot < top

\* A reload from a slot is before any offload to it but its own, and those
\* before it.
ReloadsFirst ==
  \A d, e \in Devices : \A r, w \in Commands :
    In(extra, d, r) /\ In(extra, e, w) /\ r.key[3] = "reload" /\ IsOffload(w) /\ w.slot = r.slot
      => Follows(extra, d, NodeOf(r), w.key) \/ After(extra, w.key, r.key)

\* What is not yet offloaded is in no slot.
Fresh ==
  \A d \in Devices : \A w \in Commands : In(extra, d, w) /\ IsOffload(w)
    => \A s \in Slots : host[s] # NodeOf(w)

OrderInv ==
  /\ StreamsTyped /\ KeysApart /\ FirstPass /\ HostCame /\ RunOnce
  /\ LeasedLast /\ FencesCover /\ SlotsUsed /\ ReloadsFirst /\ Fresh

KeepsPlaces ==
  \A n \in Nodes : Ours(n)' /\ (At(n)').kept =>
    Ours(n) /\ At(n).kept /\ (At(n)').slot = At(n).slot /\ (At(n)').device = At(n).device

LEMMA ExtraQueues ==
  ASSUME StreamsTyped
  PROVE  extra \in Queues /\ fences \in [Slots -> SUBSET (Devices \X Keys)]
BY DEF StreamsTyped, TypeOK, Queues

LEMMA OffloadKeyIs ==
  ASSUME NEW n \in Nodes
  PROVE  OffloadKey(n) \in Keys /\ n # Nobody
<1>1. n[1] \in Graphs /\ n[2] \in 1..Layers /\ n # Nobody
  BY NodeParts
<1>2. 0 \in 0..MaxPasses
  BY OffloadAssumption
<1> QED
  BY <1>1, <1>2 DEF OffloadKey, Keys

LEMMA HostCameKept ==
  ASSUME StreamsTyped, HostCame, KeepsPast, UNCHANGED host
  PROVE  HostCame'
<1> SUFFICES ASSUME NEW s \in Slots, host[s] # Nobody PROVE Past(OffloadKey(host[s]))'
  BY DEF HostCame, OffloadKey
<1>1. host[s] \in Nodes
  BY DEF StreamsTyped, TypeOK
<1>2. OffloadKey(host[s]) \in Keys /\ Past(OffloadKey(host[s]))
  BY <1>1, OffloadKeyIs DEF HostCame
<1>3. PICK key \in Keys : key = OffloadKey(host[s])
  BY <1>2
<1>4. Past(key)'
  BY <1>2, <1>3 DEF KeepsPast
<1>5. key = OffloadKey(host[s])'
  BY <1>3 DEF OffloadKey
<1> QED
  BY <1>4, <1>5 DEF Past, OffloadKey

\* Steps that give the side streams nothing and leave them what they have.
LEMMA OrderQuiet ==
  ASSUME OrderInv, StreamsTyped', KeepsPast, KeepsPlaces, UNCHANGED <<extra, host>>,
         top \in Nat, top' \in Nat, top <= top', FirstPass', RunOnce', FencesCover'
  PROVE  OrderInv'
<1>1. KeysApart'
  <2> SUFFICES ASSUME NEW d \in Devices, NEW c \in Commands, In(extra, d, c)
               PROVE  Past(c.key)' /\ (IsOffload(c) => c.key = OffloadKey(NodeOf(c)))
    BY DEF OrderInv, KeysApart, In, Once, IsOffload, NodeOf, OffloadKey
  <2>1. Past(c.key) /\ (IsOffload(c) => c.key = OffloadKey(NodeOf(c)))
    BY DEF OrderInv, KeysApart
  <2>2. c.key \in Keys
    BY DEF Commands
  <2>3. PICK key \in Keys : key = c.key
    BY <2>2
  <2>4. Past(key)'
    BY <2>1, <2>3 DEF KeepsPast
  <2> QED BY <2>1, <2>3, <2>4
<1>2. HostCame'
  BY HostCameKept DEF OrderInv
<1>3. LeasedLast'
  <2> SUFFICES ASSUME NEW n \in Nodes, Ours(n)', (At(n)').kept,
                      NEW d \in Devices, NEW c \in Commands, In(extra, d, c), Touches(c, (At(n)').slot)
               PROVE  Follows(extra, (At(n)').device, n, c.key)
    BY DEF LeasedLast, In, Touches, Follows, After, Closed, IsOffload, NodeOf
  <2>1. Ours(n) /\ At(n).kept /\ (At(n)').slot = At(n).slot /\ (At(n)').device = At(n).device
    BY DEF KeepsPlaces
  <2> QED BY <2>1 DEF OrderInv, LeasedLast
<1>4. SlotsUsed'
  <2> SUFFICES ASSUME NEW d \in Devices, NEW c \in Commands, In(extra, d, c), c.key[3] # "prefetch"
               PROVE  c.slot < top'
    BY DEF SlotsUsed, In
  <2>1. c.slot < top /\ c.slot \in Int
    BY DEF OrderInv, SlotsUsed, Commands, Slots
  <2> QED BY <2>1
<1>5. ReloadsFirst'
  BY DEF OrderInv, ReloadsFirst, In, Follows, After, Closed, IsOffload, NodeOf
<1>6. Fresh'
  BY DEF OrderInv, Fresh, In, IsOffload, NodeOf
<1> QED
  BY <1>1, <1>2, <1>3, <1>4, <1>5, <1>6 DEF OrderInv

LEMMA FencesKept ==
  ASSUME FencesCover, UNCHANGED <<extra, free, retained, fences>>
  PROVE  FencesCover'
<1> SUFFICES ASSUME NEW s \in Unleased', NEW d \in Devices, NEW c \in Commands, In(extra', d, c), Touches(c, s)
             PROVE  Fenced(extra', fences'[s], c.key)
  BY DEF FencesCover
<1>1. s \in Unleased /\ extra' = extra /\ fences' = fences
  BY DEF Unleased
<1>2. Fenced(extra, fences[s], c.key)
  BY <1>1 DEF FencesCover
<1> QED
  BY <1>1, <1>2

\* The bounds of the pool, before and after.
LEMMA TopTyped ==
  ASSUME PoolInv
  PROVE  top \in Nat /\ top <= top
BY OffloadAssumption DEF PoolInv, Typed

LEMMA ForwardKeptPlaces ==
  ASSUME PoolInv, NEW g \in Graphs, NEW d \in Devices, ForwardKept(g, d)
  PROVE  KeepsPast /\ KeepsPlaces /\ (RunOnce => RunOnce')
<1> PICK node : node = [device |-> d, slot |-> OnDevice, buffer |-> 0, generation |-> generation,
                        epoch |-> epoch, leased |-> FALSE, kept |-> TRUE]
  OBVIOUS
<1> PICK new : new = <<g, Len(ctx[g]) + 1>>
  OBVIOUS
<1>1. node \in Node /\ node.slot = OnDevice
  BY DEF Node, PoolInv, Typed, Buffers
<1>2. /\ AddNode(g, node) /\ UNCHANGED <<stage, poolVars>>
  BY DEF ForwardKept
<1>3. UNCHANGED <<epoch, passes, running>>
  BY <1>2 DEF poolVars, AddNode
<1>4. KeepsPast
  BY <1>1, <1>2, PastAdded
<1>5. ASSUME NEW n \in Nodes, Ours(n)' PROVE Ours(n) /\ At(n)' = At(n)
  <2>1. /\ \A m \in Nodes : Exists(m) => Exists(m)' /\ At(m)' = At(m)
        /\ \A m \in Nodes : Exists(m)' /\ ~Exists(m) => m = new
        /\ At(new)' = node
    BY <1>1, <1>2, Added DEF PoolInv
  <2>2. n # new
    BY <2>1, <1>5, <1>1 DEF Ours
  <2> QED BY <2>1, <2>2, <1>3, <1>5 DEF Ours
<1>6. KeepsPlaces
  BY <1>5 DEF KeepsPlaces
<1>7. RunOnce => RunOnce'
  BY <1>3, <1>5 DEF RunOnce
<1> QED
  BY <1>4, <1>6, <1>7

LEMMA ForwardKeptOrder ==
  ASSUME PoolInv, PoolInv', OrderInv, NEW g \in Graphs, NEW d \in Devices, ForwardKept(g, d)
  PROVE  OrderInv'
<1>1. UNCHANGED <<stage, passes, epoch, top, free, retained, fences, extra, host>>
  BY DEF ForwardKept, AddNode, poolVars, gpuVars
<1>2. KeepsPast /\ KeepsPlaces /\ RunOnce'
  BY ForwardKeptPlaces DEF OrderInv
<1>3. FirstPass'
  BY <1>1 DEF OrderInv, FirstPass
<1>4. FencesCover'
  BY <1>1, FencesKept DEF OrderInv
<1>5. StreamsTyped'
  BY ForwardKeptTyped DEF OrderInv
<1> QED
  BY <1>1, <1>2, <1>3, <1>4, <1>5, TopTyped, OrderQuiet

LEMMA PlacesSame ==
  ASSUME UNCHANGED <<ctx, epoch>>
  PROVE  /\ KeepsPlaces
         /\ RunOnce /\ (running' # Nobody => ~running'.retain) => RunOnce'
<1>1. \A n : (Ours(n)' <=> Ours(n)) /\ At(n)' = At(n)
  BY DEF Ours, Exists, At
<1> QED
  BY <1>1 DEF KeepsPlaces, RunOnce

LEMMA EndForwardOrder ==
  ASSUME PoolInv, PoolInv', OrderInv, NEW g \in Graphs, EndForward(g)
  PROVE  OrderInv'
<1>1. /\ UNCHANGED <<poolVars, ctx, passes, running, gpuVars>>
      /\ stage' = [stage EXCEPT ![g] = "ready"]
  BY DEF EndForward
<1>2. UNCHANGED <<epoch, top, free, retained, fences, extra, host, ctx, passes, running>>
  BY <1>1 DEF poolVars, gpuVars
<1>3. KeepsPast /\ KeepsPlaces /\ RunOnce'
  BY <1>2, PastEnded, PlacesSame DEF OrderInv, RunOnce
<1>4. FirstPass'
  BY <1>1, <1>2 DEF OrderInv, FirstPass, PoolInv, Typed
<1>5. FencesCover'
  BY <1>2, FencesKept DEF OrderInv
<1>6. StreamsTyped'
  BY EndForwardTyped DEF OrderInv
<1> QED
  BY <1>2, <1>3, <1>4, <1>5, <1>6, TopTyped, OrderQuiet

LEMMA BeginBackwardOrder ==
  ASSUME MaxPasses = 1, PoolInv, PoolInv', OrderInv,
         NEW g \in Graphs, NEW retain \in BOOLEAN, BeginBackward(g, retain)
  PROVE  OrderInv'
<1>1. /\ UNCHANGED <<poolVars, stage, ctx, gpuVars>> /\ stage[g] = "ready"
      /\ passes' = [passes EXCEPT ![g] = @ + 1] /\ passes[g] < MaxPasses
      /\ retain => passes[g] + 1 < MaxPasses
      /\ running' = [graph |-> g, layer |-> Len(ctx[g]), retain |-> retain]
  BY DEF BeginBackward
<1>2. UNCHANGED <<epoch, top, free, retained, fences, extra, host, ctx, stage>>
  BY <1>1 DEF poolVars, gpuVars
<1>3. passes \in [Graphs -> 0..MaxPasses]
  BY DEF OrderInv, StreamsTyped, TypeOK
<1>4. ~running'.retain
  <2>1. passes[g] \in 0..1
    BY <1>3
  <2>2. ~retain
    BY <2>1, <1>1
  <2> QED BY <2>2, <1>1
<1>5. KeepsPast /\ KeepsPlaces /\ RunOnce'
  BY <1>2, <1>4, PastBegun, PlacesSame DEF OrderInv
<1>6. FirstPass'
  BY <1>1, <1>2, <1>3 DEF OrderInv, FirstPass
<1>7. FencesCover'
  BY <1>2, FencesKept DEF OrderInv
<1>8. StreamsTyped'
  BY BeginBackwardTyped DEF OrderInv
<1> QED
  BY <1>2, <1>5, <1>6, <1>7, <1>8, TopTyped, OrderQuiet

\* After the backward of a layer, its node is no longer kept.
LEMMA OrderStepped ==
  ASSUME PoolInv, RunOnce, ~Idle, NextLayer, UNCHANGED epoch,
         NEW now, now = <<running.graph, running.layer>>
  PROVE  /\ KeepsPlaces /\ RunOnce' /\ ~(At(now)').kept
         /\ \A n \in Nodes : n # now /\ Ours(n)' => Ours(n) /\ At(n)' = At(n)
<1>1. /\ At(now).kept
      /\ \A n \in Nodes : /\ Exists(n)' <=> Exists(n)
                          /\ Exists(n) => /\ (At(n)').epoch = At(n).epoch
                                          /\ (At(n)').slot = At(n).slot
                                          /\ (At(n)').device = At(n).device
                          /\ Exists(n) /\ n # now => At(n)' = At(n)
      /\ (At(now)').kept = running.retain
  BY Stepped DEF PoolInv
<1>2. /\ running # Nobody /\ ~running.retain
      /\ running \in [graph : Graphs, layer : 1..Layers, retain : BOOLEAN]
  BY DEF RunOnce, Idle, PoolInv, RunsKept
<1>3. ASSUME NEW n \in Nodes, n # now, Ours(n)' PROVE Ours(n) /\ At(n)' = At(n)
  BY <1>1, <1>3 DEF Ours
<1>4. ASSUME NEW n \in Nodes, Ours(n)', (At(n)').kept PROVE n # now
  BY <1>1, <1>2, <1>4
<1>5. KeepsPlaces
  BY <1>3, <1>4 DEF KeepsPlaces
<1>6. running' # Nobody => ~running'.retain
  BY <1>2 DEF NextLayer
<1>7. RunOnce'
  BY <1>3, <1>4, <1>6 DEF RunOnce
<1> QED
  BY <1>1, <1>2, <1>3, <1>5, <1>7

LEMMA BackwardKeptOrder ==
  ASSUME PoolInv, PoolInv', OrderInv, BackwardKept
  PROVE  OrderInv'
<1>1. ~Idle /\ NextLayer /\ UNCHANGED <<poolVars, gpuVars>>
  BY DEF BackwardKept
<1>2. UNCHANGED <<epoch, top, free, retained, fences, extra, host, stage, passes>>
  BY <1>1 DEF poolVars, gpuVars, NextLayer
<1>3. KeepsPast /\ KeepsPlaces /\ RunOnce'
  BY <1>1, <1>2, PastStepped, OrderStepped DEF OrderInv
<1>4. FirstPass'
  BY <1>2 DEF OrderInv, FirstPass
<1>5. FencesCover'
  BY <1>2, FencesKept DEF OrderInv
<1>6. StreamsTyped'
  BY BackwardKeptTyped DEF OrderInv
<1> QED
  BY <1>2, <1>3, <1>4, <1>5, <1>6, TopTyped, OrderQuiet

LEMMA StutterOrder ==
  ASSUME PoolInv, PoolInv', OrderInv, UNCHANGED vars
  PROVE  OrderInv'
<1>1. UNCHANGED <<poolVars, graphVars, gpuVars>>
  BY DEF vars
<1>2. UNCHANGED <<epoch, top, free, retained, fences, extra, host, stage, passes, ctx, running>>
  BY <1>1 DEF poolVars, graphVars, gpuVars
<1>3. KeepsPast /\ KeepsPlaces /\ RunOnce'
  BY <1>1, <1>2, PastSame, PlacesSame DEF OrderInv, RunOnce
<1>4. FirstPass'
  BY <1>2 DEF OrderInv, FirstPass
<1>5. FencesCover'
  BY <1>2, FencesKept DEF OrderInv
<1>6. StreamsTyped'
  BY StutterTyped DEF OrderInv
<1> QED
  BY <1>2, <1>3, <1>4, <1>5, <1>6, TopTyped, OrderQuiet

LEMMA ForwardOffloadedOrder ==
  ASSUME PoolInv, PoolInv', OrderInv,
         NEW g \in Graphs, NEW d \in Devices, NEW s \in Slots, ForwardOffloaded(g, d, s)
  PROVE  OrderInv'
<1>0. TypeOK /\ StreamsTyped /\ Once(extra)
  BY DEF OrderInv, StreamsTyped, KeysApart
<1>1. PICK l \in 1..Layers, copy \in Commands, kernel \in Commands, node \in Node :
        Enqueues(g, d, s, l, copy, kernel, node)
  BY <1>0, Offloading
<1>q. PICK x, y, new : x = extra /\ y = extra' /\ new = <<g, l>>
  OBVIOUS
<1>x. x \in Queues /\ fences \in [Slots -> SUBSET (Devices \X Keys)]
  BY <1>0, <1>q, ExtraQueues
<1>2. /\ AddNode(g, node) /\ l = Len(ctx[g]) + 1
      /\ node.device = d /\ node.slot = s /\ node.epoch = epoch /\ node.leased
      /\ copy.key = <<g, l, "offload", passes[g]>> /\ copy.slot = s /\ NodeOf(copy) = new
      /\ Fence(s, d) \subseteq copy.waits
  BY <1>1, <1>q DEF Enqueues
<1>3. Given(y, x, d, copy)
  <2>1. x[d] \in Seq(Commands)
    BY <1>x, QueueParts
  <2>2. y[d] = Append(x[d], copy) /\ \A e \in Devices : e # d => y[e] = x[e]
    BY <1>1, <1>q DEF Enqueues
  <2> QED BY <2>1, <2>2, PushedIs DEF Given
<1>s. Stays(y, x)
  BY <1>3, <1>x, GivenStays
<1>4. /\ stage[g] = "forward" /\ Lease(s) /\ UNCHANGED <<stage, host>> /\ Idle
  BY DEF ForwardOffloaded
<1>5. UNCHANGED <<epoch, passes, running>>
  BY <1>2, <1>4 DEF Lease, AddNode
<1>6. /\ top' \in 0..MaxSlots /\ top <= top' /\ s < top' /\ Unleased' = Unleased \ {s}
  BY <1>4, Leasing
<1>7. s \in Unleased \/ s = top
  BY <1>4 DEF Lease, Leasable, Usable, Unleased, Reclaimed
<1>8. \A t \in Slots : t # s => fences'[t] = fences[t]
  BY <1>4, <1>x DEF Lease
<1>9. /\ \A n \in Nodes : Exists(n) => Exists(n)' /\ At(n)' = At(n)
      /\ \A n \in Nodes : Exists(n)' /\ ~Exists(n) => n = new
      /\ new \in Nodes /\ Exists(new)' /\ ~Exists(new) /\ At(new)' = node
  BY <1>2, <1>q, Added DEF PoolInv
<1>10. KeepsPast
  BY <1>2, <1>4, PastAdded
<1>11. /\ copy.key = OffloadKey(new) /\ copy.key \in Keys /\ IsOffload(copy)
       /\ ~Past(copy.key) /\ Past(copy.key)'
  <2>1. passes[g] = 0
    BY <1>4 DEF OrderInv, FirstPass
  <2>2. copy.key = <<g, l, "offload", 0>> /\ new[1] = g /\ new[2] = l
    BY <2>1, <1>2, <1>q
  <2>3. ~Past(copy.key)
    BY <2>2, <1>4, <1>9 DEF Past, Exists
  <2>4. Past(copy.key)'
    BY <2>2, <1>9 DEF Past, Exists
  <2>5. copy.key \in Keys
    BY DEF Commands
  <2> QED BY <2>2, <2>3, <2>4, <2>5 DEF OffloadKey, IsOffload
<1>12. Joins(y, x, d, copy)
  BY <1>3, <1>x, GivenIn
<1>13. \A e \in Devices : \A c \in Commands : In(x, e, c) =>
         Past(c.key) /\ (IsOffload(c) => c.key = OffloadKey(NodeOf(c)))
  BY <1>q DEF OrderInv, KeysApart
<1>14. Once(y)
  <2>1. ASSUME NEW e \in Devices, NEW i \in DOMAIN x[e] PROVE x[e][i].key # copy.key
    <3>1. x[e][i] \in Commands /\ In(x, e, x[e][i])
      BY <1>x, QueueParts DEF In
    <3> QED BY <3>1, <1>11, <1>13
  <2> QED BY <2>1, <1>0, <1>q, <1>x, <1>3, OnceGiven
<1>15. KeysApart'
  <2> SUFFICES ASSUME NEW e \in Devices, NEW c \in Commands, In(y, e, c)
               PROVE  Past(c.key)' /\ (IsOffload(c) => c.key = OffloadKey(NodeOf(c)))
    BY <1>14, <1>q DEF KeysApart
  <2>1. CASE In(x, e, c)
    <3>1. c.key \in Keys
      BY DEF Commands
    <3>2. PICK key \in Keys : key = c.key
      BY <3>1
    <3>3. Past(key)'
      BY <2>1, <3>2, <1>10, <1>13 DEF KeepsPast
    <3> QED BY <2>1, <3>2, <3>3, <1>13
  <2>2. CASE c = copy
    BY <2>2, <1>2, <1>11
  <2> QED BY <2>1, <2>2, <1>12 DEF Joins
\* Whatever uses the slot still, the new offload is after it.
<1>16. ASSUME NEW e \in Devices, NEW c \in Commands, In(x, e, c), Touches(c, s)
       PROVE  After(y, copy.key, c.key)
  <2>1. s # top
    <3>1. c.slot < top /\ c.slot = s /\ top \in Nat /\ s \in Int
      BY <1>16, <1>q, TopTyped DEF OrderInv, SlotsUsed, Touches, Slots
    <3> QED BY <3>1
  <2>2. Fenced(x, fences[s], c.key)
    BY <2>1, <1>7, <1>16, <1>q DEF OrderInv, FencesCover
  <2>3. PICK f \in fences[s] : After(x, f[2], c.key) /\ \E a : In(x, f[1], a) /\ a.key = f[2]
    BY <2>2 DEF Fenced
  <2>4. PICK a : In(x, f[1], a) /\ a.key = f[2]
    BY <2>3
  <2>5. f[1] \in Devices
    BY <2>3, <1>x
  <2>6. After(y, copy.key, a.key)
    <3>1. CASE f[1] = d
      BY <3>1, <2>4, <1>12 DEF Joins
    <3>2. CASE f[1] # d
      <4>1. a.key \in copy.waits
        BY <3>2, <2>3, <2>4, <1>2 DEF Fence
      <4> QED BY <4>1, <2>4, <2>5, <1>12 DEF Joins
    <3> QED BY <3>1, <3>2
  <2>7. After(y, a.key, c.key)
    BY <2>3, <2>4, <1>s DEF Stays
  <2> QED BY <2>6, <2>7, AfterTrans
\* Nobody else reads the slot.
<1>17. ASSUME NEW n \in Nodes, n # new, Ours(n)', (At(n)').kept
       PROVE  Ours(n) /\ At(n)' = At(n) /\ At(n).leased /\ At(n).slot # s
  <2>1. Ours(n) /\ At(n)' = At(n) /\ At(n).kept
    BY <1>5, <1>9, <1>17 DEF Ours
  <2>2. At(n).leased
    BY <2>1 DEF OrderInv, RunOnce
  <2>3. At(n).slot < top /\ At(n).slot \notin Unleased
    BY <2>1, <2>2 DEF PoolInv, LeasesApart
  <2>4. ~(top < top)
    BY TopTyped
  <2> QED BY <2>1, <2>2, <2>3, <2>4, <1>7
<1>18. LeasedLast'
  <2> SUFFICES ASSUME NEW n \in Nodes, Ours(n)', (At(n)').kept,
                      NEW e \in Devices, NEW c \in Commands, In(y, e, c), Touches(c, (At(n)').slot)
               PROVE  Follows(y, (At(n)').device, n, c.key)
    BY <1>q DEF LeasedLast
  <2>1. CASE n = new
    <3>1. (At(n)').slot = s /\ (At(n)').device = d
      BY <2>1, <1>2, <1>9
    <3>2. After(y, copy.key, c.key)
      <4>1. CASE In(x, e, c)
        BY <4>1, <3>1, <1>16
      <4>2. CASE c = copy
        BY <4>2, AfterSelf
      <4> QED BY <4>1, <4>2, <1>12 DEF Joins
    <3>3. In(y, d, copy)
      BY <1>12 DEF Joins
    <3> QED BY <2>1, <3>1, <3>2, <3>3, <1>2, <1>11 DEF Follows
  <2>2. CASE n # new
    <3>1. Ours(n) /\ At(n)' = At(n) /\ At(n).kept /\ At(n).slot # s
      BY <2>2, <1>17
    <3>2. c # copy
      BY <3>1, <1>2 DEF Touches
    <3>3. In(x, e, c)
      BY <3>2, <1>12 DEF Joins
    <3>4. Follows(x, At(n).device, n, c.key)
      BY <3>1, <3>3, <1>q DEF OrderInv, LeasedLast
    <3>5. At(n).device \in Devices
      BY <3>1, AtTyped DEF PoolInv, Ours, Node
    <3> QED BY <3>1, <3>4, <3>5, <1>s, FollowsStays
  <2> QED BY <2>1, <2>2
<1>19. FencesCover'
  <2> SUFFICES ASSUME NEW t \in Unleased', NEW e \in Devices, NEW c \in Commands, In(y, e, c), Touches(c, t)
               PROVE  Fenced(y, fences'[t], c.key)
    BY <1>q DEF FencesCover
  <2>1. t \in Unleased /\ t # s /\ t \in Slots
    BY <1>6 DEF PoolInv, Typed, Unleased
  <2>2. In(x, e, c)
    BY <2>1, <1>2, <1>12 DEF Touches, Joins
  <2>3. Fenced(x, fences[t], c.key)
    BY <2>1, <2>2, <1>q DEF OrderInv, FencesCover
  <2>4. fences[t] \in SUBSET (Devices \X Keys) /\ fences'[t] = fences[t]
    BY <2>1, <1>8, <1>x
  <2>5. Fenced(y, fences[t], c.key)
    BY <2>3, <2>4, <1>s, FencedStays
  <2> QED BY <2>4, <2>5
<1>20. SlotsUsed'
  <2> SUFFICES ASSUME NEW e \in Devices, NEW c \in Commands, In(y, e, c), c.key[3] # "prefetch"
               PROVE  c.slot < top'
    BY <1>q DEF SlotsUsed
  <2>1. CASE In(x, e, c)
    <3>1. c.slot < top /\ c.slot \in Int
      BY <2>1, <1>q DEF OrderInv, SlotsUsed, Commands, Slots
    <3> QED BY <3>1, <1>6, TopTyped
  <2>2. CASE c = copy
    BY <2>2, <1>2, <1>6
  <2> QED BY <2>1, <2>2, <1>12 DEF Joins
<1>21. ReloadsFirst'
  <2> SUFFICES ASSUME NEW a \in Devices, NEW e \in Devices, NEW r \in Commands, NEW w \in Commands,
                      In(y, a, r), In(y, e, w), r.key[3] = "reload", IsOffload(w), w.slot = r.slot
               PROVE  Follows(y, a, NodeOf(r), w.key) \/ After(y, w.key, r.key)
    BY <1>q DEF ReloadsFirst
  <2>1. In(x, a, r)
    <3>1. r # copy
      BY <1>11 DEF IsOffload
    <3> QED BY <3>1, <1>12 DEF Joins
  <2>2. CASE In(x, e, w)
    <3>1. Follows(x, a, NodeOf(r), w.key) \/ After(x, w.key, r.key)
      BY <2>1, <2>2, <1>q DEF OrderInv, ReloadsFirst
    <3> QED BY <3>1, <1>s, FollowsStays DEF Stays
  <2>3. CASE w = copy
    BY <2>1, <2>3, <1>2, <1>16 DEF Touches
  <2> QED BY <2>2, <2>3, <1>12 DEF Joins
<1>22. Fresh'
  <2> SUFFICES ASSUME NEW e \in Devices, NEW w \in Commands, In(y, e, w), IsOffload(w), NEW t \in Slots
               PROVE  host[t] # NodeOf(w)
    BY <1>q, <1>4 DEF Fresh
  <2>1. CASE In(x, e, w)
    BY <2>1, <1>q DEF OrderInv, Fresh
  <2>2. CASE w = copy
    <3>1. host[t] = new => Past(OffloadKey(new))
      BY <1>9, NodeParts DEF OrderInv, HostCame
    <3> QED BY <2>2, <3>1, <1>2, <1>11
  <2> QED BY <2>1, <2>2, <1>12 DEF Joins
<1>23. HostCame'
  BY <1>4, <1>10, HostCameKept DEF OrderInv
<1>24. RunOnce'
  <2>1. running' # Nobody => ~running'.retain
    BY <1>5 DEF OrderInv, RunOnce
  <2>2. ASSUME NEW n \in Nodes, Ours(n)', (At(n)').kept PROVE (At(n)').leased
    BY <2>2, <1>2, <1>9, <1>17
  <2> QED BY <2>1, <2>2 DEF RunOnce
<1>25. FirstPass' /\ StreamsTyped'
  BY <1>0, <1>4, <1>5, ForwardOffloadedTyped DEF OrderInv, FirstPass
<1> QED
  BY <1>15, <1>18, <1>19, <1>20, <1>21, <1>22, <1>23, <1>24, <1>25 DEF OrderInv

\* x without the commands of this key.
Leaves(y, x, key) ==
  \A e \in Devices : \A a : In(y, e, a) <=> In(x, e, a) /\ a.key # key

\* A command at the head of its side stream waits for nothing.
LEMMA RunnableFree ==
  ASSUME StreamsTyped, NEW d \in Devices, Runnable(extra[d])
  PROVE  extra[d] # <<>> /\ Head(extra[d]) = extra[d][1] /\ Free(extra, d)
<1>1. extra[d] # <<>> /\ Head(extra[d]).waits \cap Pending = {}
  BY DEF Runnable
<1>2. Head(extra[d]) = extra[d][1]
  BY <1>1
<1>3. \A e \in Devices : \A i \in DOMAIN extra[e] : extra[e][i].key \in Pending
  BY DEF Pending
<1> QED
  BY <1>1, <1>2, <1>3 DEF Free

LEMMA CopyOrder ==
  ASSUME PoolInv, PoolInv', OrderInv, NEW d \in Devices, Copy(d)
  PROVE  OrderInv'
<1>q. PICK x, y, c : x = extra /\ y = extra' /\ c = extra[d][1]
  OBVIOUS
<1>0. StreamsTyped /\ Once(x)
  BY <1>q DEF OrderInv, KeysApart
<1>x. x \in Queues /\ fences \in [Slots -> SUBSET (Devices \X Keys)]
  BY <1>0, <1>q, ExtraQueues
<1>1. /\ StreamsTyped' /\ c \in Commands
      /\ Taken(y, x, d) /\ host' = Copied(extra[d], host)
  BY <1>0, <1>q, CopyTyped DEF Taken
<1>2. Runnable(extra[d]) /\ UNCHANGED <<free, top, epoch, retained, graphVars>>
  BY DEF Copy
<1>3. UNCHANGED <<free, top, epoch, retained, ctx, stage, passes, running>>
  BY <1>2 DEF graphVars
<1>4. x[d] # <<>> /\ x[d][1] = c /\ Free(x, d)
  BY <1>0, <1>2, <1>q, RunnableFree
<1>5. \A s \in Slots : fences'[s] = {f \in fences[s] : f[2] # c.key}
  <2>1. Complete(c.key)
    BY <1>4, <1>q, <1>0, <1>2, RunnableFree DEF Copy
  <2> QED BY <2>1 DEF Complete
<1>6. Leaves(y, x, c.key) /\ In(x, d, c) /\ Once(y)
  BY <1>0, <1>1, <1>4, <1>x, TakenIn, OnceTaken DEF Leaves
<1>7. KeepsPast /\ KeepsPlaces /\ RunOnce' /\ FirstPass'
  <2>1. KeepsPast
    BY <1>2, PastSame
  <2>2. KeepsPlaces /\ RunOnce'
    BY <1>3, PlacesSame DEF OrderInv, RunOnce
  <2>3. FirstPass'
    BY <1>3 DEF OrderInv, FirstPass
  <2> QED BY <2>1, <2>2, <2>3
<1>8. ASSUME NEW e \in Devices, NEW a \in Commands, In(x, e, a)
      PROVE  Past(a.key)' /\ Past(a.key) /\ (IsOffload(a) => a.key = OffloadKey(NodeOf(a)))
  <2>1. Past(a.key) /\ (IsOffload(a) => a.key = OffloadKey(NodeOf(a)))
    BY <1>8, <1>q DEF OrderInv, KeysApart
  <2>2. a.key \in Keys
    BY DEF Commands
  <2>3. PICK key \in Keys : key = a.key
    BY <2>2
  <2>4. Past(key)'
    BY <2>1, <2>3, <1>7 DEF KeepsPast
  <2> QED BY <2>1, <2>3, <2>4
<1>9. KeysApart'
  <2> SUFFICES ASSUME NEW e \in Devices, NEW a \in Commands, In(y, e, a)
               PROVE  Past(a.key)' /\ (IsOffload(a) => a.key = OffloadKey(NodeOf(a)))
    BY <1>6, <1>q DEF KeysApart
  <2>1. In(x, e, a)
    BY <1>6 DEF Leaves
  <2> QED BY <2>1, <1>8
<1>10. ASSUME NEW s \in Slots
       PROVE  host'[s] = host[s] \/ (IsOffload(c) /\ s = c.slot /\ host'[s] = NodeOf(c))
  <2>1. host' = IF IsOffload(c) THEN [host EXCEPT ![c.slot] = NodeOf(c)] ELSE host
    BY <1>1, <1>q DEF Copied
  <2>2. host \in [Slots -> Nodes \cup {Nobody}]
    BY <1>0 DEF StreamsTyped, TypeOK
  <2> QED BY <2>1, <2>2
<1>11. HostCame'
  <2>1. ASSUME NEW s \in Slots, NEW n, n = host'[s], n # Nobody
        PROVE  \E key \in Keys : key = OffloadKey(n) /\ Past(key)'
    <3>1. CASE n = host[s]
      <4>1. n \in Nodes
        BY <2>1, <3>1, <1>0 DEF StreamsTyped, TypeOK
      <4>2. PICK key \in Keys : key = OffloadKey(n)
        BY <4>1, OffloadKeyIs
      <4>3. Past(key)
        BY <2>1, <3>1, <4>2 DEF OrderInv, HostCame
      <4>4. Past(key)'
        BY <4>3, <1>7 DEF KeepsPast
      <4> QED BY <4>2, <4>4
    <3>2. CASE IsOffload(c) /\ n = NodeOf(c)
      <4>1. PICK key \in Keys : key = c.key
        BY <1>1 DEF Commands
      <4>2. key = OffloadKey(n) /\ Past(key)
        BY <3>2, <4>1, <1>1, <1>6, <1>8
      <4>3. Past(key)'
        BY <4>2, <1>7 DEF KeepsPast
      <4> QED BY <4>2, <4>3
    <3> QED BY <2>1, <3>1, <3>2, <1>10
  <2> SUFFICES ASSUME NEW s \in Slots, NEW n, n = host'[s], n # Nobody
               PROVE  Past(OffloadKey(n))'
    BY DEF HostCame
  <2>2. PICK key \in Keys : key = OffloadKey(n) /\ Past(key)'
    BY <2>1
  <2> QED BY <2>2
<1>12. LeasedLast'
  <2> SUFFICES ASSUME NEW n \in Nodes, Ours(n)', (At(n)').kept,
                      NEW e \in Devices, NEW a \in Commands, In(y, e, a), Touches(a, (At(n)').slot)
               PROVE  Follows(y, (At(n)').device, n, a.key)
    BY <1>q DEF LeasedLast
  <2>1. /\ Ours(n) /\ At(n).kept /\ (At(n)').slot = At(n).slot /\ (At(n)').device = At(n).device
    BY <1>7 DEF KeepsPlaces
  <2>2. In(x, e, a) /\ a.key # c.key
    BY <1>6 DEF Leaves
  <2>3. Follows(x, At(n).device, n, a.key)
    BY <2>1, <2>2, <1>q DEF OrderInv, LeasedLast
  <2>4. At(n).device \in Devices
    BY <2>1, AtTyped DEF PoolInv, Ours, Node
  <2>5. Follows(y, At(n).device, n, a.key)
    BY <2>2, <2>3, <2>4, <1>0, <1>1, <1>4, <1>x, FollowsTaken
  <2> QED BY <2>1, <2>5
<1>13. FencesCover'
  <2> SUFFICES ASSUME NEW s \in Unleased', NEW e \in Devices, NEW a \in Commands, In(y, e, a), Touches(a, s)
               PROVE  Fenced(y, fences'[s], a.key)
    BY <1>q DEF FencesCover
  <2>1. s \in Unleased /\ s \in Slots
    BY <1>3 DEF PoolInv, Typed, Unleased
  <2>2. In(x, e, a) /\ a.key # c.key
    BY <1>6 DEF Leaves
  <2>3. Fenced(x, fences[s], a.key)
    BY <2>1, <2>2, <1>q DEF OrderInv, FencesCover
  <2>4. fences[s] \in SUBSET (Devices \X Keys)
    BY <2>1, <1>x
  <2>5. Fenced(y, {f \in fences[s] : f[2] # c.key}, a.key)
    BY <2>2, <2>3, <2>4, <1>0, <1>1, <1>4, <1>x, FencedTaken
  <2> QED BY <2>1, <2>5, <1>5
<1>14. SlotsUsed'
  <2> SUFFICES ASSUME NEW e \in Devices, NEW a \in Commands, In(y, e, a), a.key[3] # "prefetch"
               PROVE  a.slot < top
    BY <1>q, <1>3 DEF SlotsUsed
  <2>1. In(x, e, a)
    BY <1>6 DEF Leaves
  <2> QED BY <2>1, <1>q DEF OrderInv, SlotsUsed
<1>15. ReloadsFirst'
  <2> SUFFICES ASSUME NEW h \in Devices, NEW e \in Devices, NEW r \in Commands, NEW w \in Commands,
                      In(y, h, r), In(y, e, w), r.key[3] = "reload", IsOffload(w), w.slot = r.slot
               PROVE  Follows(y, h, NodeOf(r), w.key) \/ After(y, w.key, r.key)
    BY <1>q DEF ReloadsFirst
  <2>1. In(x, h, r) /\ In(x, e, w) /\ r.key # c.key /\ w.key # c.key
    BY <1>6 DEF Leaves
  <2>2. Follows(x, h, NodeOf(r), w.key) \/ After(x, w.key, r.key)
    BY <2>1, <1>q DEF OrderInv, ReloadsFirst
  <2>3. CASE Follows(x, h, NodeOf(r), w.key)
    BY <2>1, <2>3, <1>0, <1>1, <1>4, <1>x, FollowsTaken
  <2>4. CASE After(x, w.key, r.key)
    BY <2>1, <2>4, <1>0, <1>1, <1>4, <1>x, AfterTaken
  <2> QED BY <2>2, <2>3, <2>4
<1>16. Fresh'
  <2> SUFFICES ASSUME NEW e \in Devices, NEW w \in Commands, In(y, e, w), IsOffload(w), NEW s \in Slots,
                      host'[s] = NodeOf(w)
               PROVE  FALSE
    BY <1>q DEF Fresh
  <2>1. In(x, e, w) /\ w.key # c.key
    BY <1>6 DEF Leaves
  <2>2. host[s] # NodeOf(w)
    BY <2>1, <1>q DEF OrderInv, Fresh
  <2>3. IsOffload(c) /\ NodeOf(c) = NodeOf(w)
    BY <2>2, <1>10
  <2>4. c.key = w.key
    BY <2>1, <2>3, <1>1, <1>6, <1>8
  <2> QED BY <2>1, <2>4
<1> QED
  BY <1>1, <1>7, <1>9, <1>11, <1>12, <1>13, <1>14, <1>15, <1>16 DEF OrderInv

LEMMA ComputeOrder ==
  ASSUME PoolInv, PoolInv', OrderInv, NEW d \in Devices, Compute(d)
  PROVE  OrderInv'
<1>q. PICK key : key = main[d][1].key
  OBVIOUS
<1>1. StreamsTyped' /\ main[d] # <<>> /\ main[d] \in Seq(Commands)
  BY ComputeTyped DEF OrderInv
<1>2. /\ Complete(Head(main[d]).key) /\ UNCHANGED <<free, top, epoch, retained, graphVars, extra, host>>
  BY DEF Compute
<1>3. UNCHANGED <<free, top, epoch, retained, ctx, stage, passes, running, extra, host>>
  BY <1>2 DEF graphVars
<1>4. \A s \in Slots : fences'[s] = {f \in fences[s] : f[2] # key}
  <2>1. Head(main[d]) = main[d][1]
    BY <1>1
  <2> QED BY <2>1, <1>2, <1>q DEF Complete
<1>5. key[3] \in {"forward", "recompute"}
  <2>1. 1 \in DOMAIN main[d]
    BY <1>1
  <2> QED BY <2>1, <1>q DEF OrderInv, StreamsTyped
<1>6. KeepsPast /\ KeepsPlaces /\ RunOnce' /\ FirstPass'
  <2>1. KeepsPast
    BY <1>2, PastSame
  <2>2. KeepsPlaces /\ RunOnce'
    BY <1>3, PlacesSame DEF OrderInv, RunOnce
  <2>3. FirstPass'
    BY <1>3 DEF OrderInv, FirstPass
  <2> QED BY <2>1, <2>2, <2>3
<1>7. FencesCover'
  <2> SUFFICES ASSUME NEW s \in Unleased', NEW e \in Devices, NEW a \in Commands,
                      In(extra', e, a), Touches(a, s)
               PROVE  Fenced(extra', fences'[s], a.key)
    BY DEF FencesCover
  <2>1. s \in Unleased /\ s \in Slots /\ In(extra, e, a)
    BY <1>3 DEF PoolInv, Typed, Unleased
  <2>2. Fenced(extra, fences[s], a.key)
    BY <2>1 DEF OrderInv, FencesCover
  <2>3. PICK f \in fences[s] : After(extra, f[2], a.key) /\ \E b : In(extra, f[1], b) /\ b.key = f[2]
    BY <2>2 DEF Fenced
  <2>4. f[2] # key
    <3>1. f[1] \in Devices
      BY <2>1, <2>3, ExtraQueues DEF OrderInv
    <3>2. \A b : In(extra, f[1], b) => b.key[3] \in {"offload", "reload", "prefetch"}
      BY <3>1 DEF In, OrderInv, StreamsTyped
    <3> QED BY <3>2, <2>3, <1>5
  <2>5. f \in fences'[s]
    BY <2>1, <2>3, <2>4, <1>4
  <2>6. Fenced(extra, fences'[s], a.key)
    BY <2>3, <2>5 DEF Fenced
  <2> QED BY <2>6, <1>3
<1> QED
  BY <1>1, <1>3, <1>6, <1>7, TopTyped, OrderQuiet

\* Slot s is given back by one of these nodes, which was still to come, and
\* remembers the end of the side stream y of the node's device.
GivenUp(g, ns, y, s) ==
  \E l \in ns : \E n \in Nodes :
    /\ n = <<g, l>> /\ Ours(n) /\ At(n).kept /\ At(n).slot = s
    /\ \A key \in LastKey(y[At(n).device]) : <<At(n).device, key>> \in fences'[s]

LEMMA Releases ==
  ASSUME PoolInv, StreamsTyped, NEW g \in Graphs, NEW ns, ns \subseteq DOMAIN ctx[g], NEW y \in Queues, NEW by,
         Release(g, ns, y, by), NEW s \in Unleased'
  PROVE  (s \in Unleased /\ fences'[s] = fences[s]) \/ GivenUp(g, ns, y, s)
<1>q. PICK given, slots : given = GivenBack(g, ns) /\ slots = {ctx[g][l].slot : l \in given}
  OBVIOUS
<1>e. PICK ends : ends = [t \in Slots |-> UNION {{ctx[g][l].device} \X LastKey(y[ctx[g][l].device])
                                                   : l \in {k \in given : ctx[g][k].slot = t}}]
  OBVIOUS
<1>1. /\ free' = free \cup slots /\ retained' = retained
      /\ fences' = [t \in Slots |-> IF t \in slots THEN ends[t] ELSE fences[t]]
  BY <1>q, <1>e DEF Release
<1>2. s \in Unleased \/ s \in slots
  BY <1>1 DEF Unleased
<1>3. ASSUME NEW l \in given
      PROVE  \E n \in Nodes : n = <<g, l>> /\ l \in ns /\ Ours(n) /\ At(n).kept /\ At(n) = ctx[g][l]
  <2>1. l \in ns /\ l \in DOMAIN ctx[g] /\ ctx[g][l].leased /\ ctx[g][l].epoch = epoch
    BY <1>3, <1>q DEF GivenBack
  <2>2. ctx[g] \in Seq(Node) /\ Len(ctx[g]) \in Nat /\ Len(ctx[g]) <= Layers /\ DOMAIN ctx[g] = 1..Len(ctx[g])
    BY DEF PoolInv, Typed
  <2>3. PICK n : n = <<g, l>>
    OBVIOUS
  <2>4. n \in Nodes /\ n[1] = g /\ n[2] = l
    BY <2>1, <2>2, <2>3, OffloadAssumption DEF Nodes
  <2>5. Exists(n) /\ At(n) = ctx[g][l]
    BY <2>1, <2>4 DEF Exists, At
  <2>6. Ours(n)
    BY <2>1, <2>4, <2>5 DEF PoolInv, NodesSound, Ours
  <2>7. At(n).kept
    BY <2>1, <2>4, <2>5, <2>6 DEF PoolInv, LeasesApart
  <2> QED BY <2>1, <2>3, <2>4, <2>5, <2>6, <2>7
<1>4. s \in Slots
  <2>1. \A l \in given : ctx[g][l].slot \in Slots
    BY <1>3, AtTyped DEF PoolInv, Ours, Node
  <2> QED BY <2>1, <1>1, <1>2, <1>q DEF PoolInv, Typed, Unleased
<1>5. CASE s \notin slots
  BY <1>1, <1>2, <1>4, <1>5
<1>6. CASE s \in slots
  <2>1. PICK l \in given : ctx[g][l].slot = s
    BY <1>6, <1>q
  <2>2. PICK n \in Nodes : n = <<g, l>> /\ l \in ns /\ Ours(n) /\ At(n).kept /\ At(n) = ctx[g][l]
    BY <2>1, <1>3
  <2>3. fences'[s] = ends[s]
    BY <1>1, <1>4, <1>6
  <2>4. ASSUME NEW key \in LastKey(y[At(n).device])
        PROVE  <<At(n).device, key>> \in ends[s]
    <3>1. l \in {k \in given : ctx[g][k].slot = s}
      BY <2>1
    <3>2. <<At(n).device, key>> \in {ctx[g][l].device} \X LastKey(y[ctx[g][l].device])
      BY <2>2, <2>4
    <3> QED BY <3>1, <3>2, <1>4, <1>e
  <2> QED BY <2>1, <2>2, <2>3, <2>4 DEF GivenUp
<1> QED
  BY <1>5, <1>6

LEMMA PlacesDropped ==
  ASSUME PoolInv, RunOnce, NEW g \in Graphs, Drop(g)
  PROVE  KeepsPlaces /\ RunOnce'
<1>1. /\ ctx' = [ctx EXCEPT ![g] = <<>>] /\ UNCHANGED epoch
      /\ running' = running \/ running' = Nobody
  BY DEF Drop, Release
<1>2. ASSUME NEW n \in Nodes, Exists(n)' PROVE Exists(n) /\ At(n)' = At(n)
  <2>1. n[1] \in Graphs /\ ctx \in [Graphs -> Seq(Node)]
    BY NodeParts DEF PoolInv, Typed
  <2>2. n[1] # g
    <3>1. n[1] = g => ctx'[n[1]] = <<>>
      BY <2>1, <1>1
    <3>2. DOMAIN <<>> = {}
      OBVIOUS
    <3> QED BY <3>1, <3>2, <1>2 DEF Exists
  <2>3. ctx'[n[1]] = ctx[n[1]]
    BY <2>1, <2>2, <1>1
  <2> QED BY <2>3, <1>2 DEF Exists, At
<1>3. \A n \in Nodes : Ours(n)' => Ours(n) /\ At(n)' = At(n)
  BY <1>1, <1>2 DEF Ours
<1> QED
  BY <1>1, <1>3 DEF KeepsPlaces, RunOnce

LEMMA DropOrder ==
  ASSUME PoolInv, PoolInv', OrderInv, NEW g \in Graphs, Drop(g)
  PROVE  OrderInv'
<1>1. /\ Release(g, DOMAIN ctx[g], extra, Nobody) /\ UNCHANGED <<passes, gpuVars>>
      /\ stage' = [stage EXCEPT ![g] = "gone"]
  BY DEF Drop
<1>2. UNCHANGED <<top, retained, passes, extra, host>>
  BY <1>1 DEF Release, gpuVars
<1>3. KeepsPast /\ KeepsPlaces /\ RunOnce'
  BY PastDropped, PlacesDropped DEF OrderInv
<1>4. FirstPass'
  BY <1>1, <1>2 DEF OrderInv, FirstPass, PoolInv, Typed
<1>x. extra \in Queues
  BY ExtraQueues DEF OrderInv
<1>5. FencesCover'
  <2> SUFFICES ASSUME NEW s \in Unleased', NEW e \in Devices, NEW c \in Commands, In(extra', e, c), Touches(c, s)
               PROVE  Fenced(extra', fences'[s], c.key)
    BY DEF FencesCover
  <2>1. In(extra, e, c) /\ extra' = extra
    BY <1>2
  <2>2. CASE s \in Unleased /\ fences'[s] = fences[s]
    BY <2>1, <2>2 DEF OrderInv, FencesCover
  <2>3. CASE GivenUp(g, DOMAIN ctx[g], extra, s)
    <3>1. PICK n \in Nodes : /\ Ours(n) /\ At(n).kept /\ At(n).slot = s
                             /\ \A key \in LastKey(extra[At(n).device]) : <<At(n).device, key>> \in fences'[s]
      BY <2>3 DEF GivenUp
    <3>d. PICK d \in Devices : d = At(n).device
      BY <3>1, AtTyped DEF PoolInv, Ours, Node
    <3>2. Follows(extra, d, n, c.key)
      BY <2>1, <3>1, <3>d DEF OrderInv, LeasedLast
    <3>3. PICK w \in Commands : In(extra, d, w) /\ After(extra, w.key, c.key)
      BY <3>2 DEF Follows
    <3>4. PICK b : In(extra, d, b) /\ LastKey(extra[d]) = {b.key} /\ After(extra, b.key, w.key)
      BY <3>3, <1>x, EndAfter
    <3>5. After(extra, b.key, c.key)
      BY <3>3, <3>4, AfterTrans
    <3>6. <<d, b.key>> \in fences'[s]
      BY <3>1, <3>4, <3>d
    <3>7. Fenced(extra, fences'[s], c.key)
      BY <3>4, <3>5, <3>6 DEF Fenced
    <3> QED BY <3>7, <2>1
  <2> QED BY <2>2, <2>3, <1>1, <1>x, Releases DEF OrderInv
<1>6. StreamsTyped'
  BY DropTyped DEF OrderInv
<1> QED
  BY <1>2, <1>3, <1>4, <1>5, <1>6, TopTyped, OrderQuiet

LEMMA ResetOrder ==
  ASSUME PoolInv, PoolInv', OrderInv, Reset
  PROVE  OrderInv'
<1>1. /\ Idle /\ \A d \in Devices : extra[d] = <<>>
      /\ epoch' = epoch + 1 /\ UNCHANGED <<graphVars, extra, host>>
      /\ free' = {} /\ retained' = {}
  BY DEF Reset, gpuVars
<1>2. UNCHANGED <<stage, passes, ctx, running>>
  BY <1>1 DEF graphVars
<1>3. \A d \in Devices : \A c : ~In(extra', d, c)
  <2>1. \A d \in Devices : DOMAIN extra'[d] = {}
    BY <1>1
  <2> QED BY <2>1 DEF In
<1>4. \A n \in Nodes : ~Ours(n)'
  <2> SUFFICES ASSUME NEW n \in Nodes, Ours(n)' PROVE FALSE
    OBVIOUS
  <2>1. Exists(n) /\ At(n).epoch = epoch + 1
    BY <1>1, <1>2 DEF Ours, Exists, At
  <2>2. At(n).epoch <= epoch /\ epoch \in Nat
    BY <2>1 DEF PoolInv, NodesSound, Typed
  <2> QED BY <2>1, <2>2
<1>5. KeysApart'
  <2>1. \A d \in Devices : DOMAIN extra'[d] = {}
    BY <1>1
  <2> QED BY <2>1, <1>3 DEF KeysApart, Once
<1>6. LeasedLast' /\ FencesCover' /\ SlotsUsed' /\ ReloadsFirst' /\ Fresh'
  BY <1>3 DEF LeasedLast, FencesCover, SlotsUsed, ReloadsFirst, Fresh
<1>7. RunOnce' /\ FirstPass'
  BY <1>1, <1>2, <1>4 DEF OrderInv, RunOnce, FirstPass, Idle
<1>8. HostCame'
  BY <1>1, PastSame, HostCameKept DEF OrderInv
<1>9. StreamsTyped'
  BY ResetTyped DEF OrderInv
<1> QED
  BY <1>5, <1>6, <1>7, <1>8, <1>9 DEF OrderInv

\* The keys of the backward of a layer are new.
LEMMA NewKeys ==
  ASSUME PoolInv, StreamsTyped, ~Idle, NextLayer, NEW g, g = running.graph,
         NEW op \in {"reload", "prefetch", "recompute"},
         NEW key \in Keys, key = <<g, running.layer, op, passes[g]>>
  PROVE  Past(key)' /\ ~Past(key)
<1>q. PICK l : l = running.layer
  OBVIOUS
<1>1. key[1] = g /\ key[2] = l /\ key[3] \in {"reload", "prefetch", "recompute"} /\ key[4] = passes[g]
  BY <1>q
<1>2. running # Nobody /\ ~Past(key)
  <2>1. ~(l > l)
    BY <1>q DEF PoolInv, RunsKept, Idle
  <2> QED BY <2>1, <1>1, <1>q DEF Past, Idle
<1>3. running \in [graph : Graphs, layer : 1..Layers, retain : BOOLEAN]
  BY <1>2 DEF PoolInv, RunsKept
<1>4. passes' = passes /\ (running' # Nobody => running'.layer = l - 1)
  BY <1>3, <1>q DEF NextLayer
<1>5. passes[g] <= passes[g] /\ l > l - 1
  <2>1. passes[g] \in 0..MaxPasses /\ l \in 1..Layers
    BY <1>3, <1>q DEF StreamsTyped, TypeOK
  <2> QED BY <2>1
<1>6. Past(key)'
  BY <1>1, <1>4, <1>5 DEF Past
<1> QED
  BY <1>2, <1>6

\* What the backward of a layer gives the side stream of its device: z has the
\* reload, y the prefetch as well, where there is one.
GivenLoads(y, z, x, d, reload, next, hit, ahead) ==
  /\ z \in Queues /\ y \in Queues
  /\ IF hit THEN z = x ELSE Given(z, x, d, reload)
  /\ IF ahead THEN Given(y, z, d, next) ELSE y = z

LEMMA LoadsGiven ==
  ASSUME NEW x \in Queues, NEW y \in Queues, NEW z \in Queues, NEW d \in Devices,
         NEW reload \in Commands, NEW next \in Commands, NEW hit \in BOOLEAN, NEW ahead \in BOOLEAN,
         GivenLoads(y, z, x, d, reload, next, hit, ahead), Once(x),
         \A e \in Devices : \A a : In(x, e, a) => a.key # reload.key /\ (ahead => a.key # next.key),
         ahead => reload.key # next.key
  PROVE  /\ Once(y) /\ Stays(y, x)
         /\ \A e \in Devices : \A a : In(y, e, a) =>
              In(x, e, a) \/ (e = d /\ a = reload) \/ (e = d /\ a = next /\ ahead)
<1>s. \A u : Stays(u, u)
  BY DEF Stays
<1>1. /\ Once(z) /\ Stays(z, x)
      /\ \A e \in Devices : \A a : In(z, e, a) => In(x, e, a) \/ (e = d /\ a = reload)
  <2>1. CASE hit
    BY <2>1, <1>s DEF GivenLoads
  <2>2. CASE ~hit
    <3>1. Given(z, x, d, reload)
      BY <2>2 DEF GivenLoads
    <3>2. \A e \in Devices : \A i \in DOMAIN x[e] : x[e][i].key # reload.key
      BY DEF In
    <3>3. Once(z)
      BY <3>1, <3>2, OnceGiven
    <3>4. Joins(z, x, d, reload) /\ Stays(z, x)
      BY <3>1, GivenIn, GivenStays
    <3> QED BY <3>3, <3>4 DEF Joins
  <2> QED BY <2>1, <2>2
<1>2. /\ Once(y) /\ Stays(y, z)
      /\ \A e \in Devices : \A a : In(y, e, a) => In(z, e, a) \/ (e = d /\ a = next /\ ahead)
  <2>1. CASE ~ahead
    BY <2>1, <1>1, <1>s DEF GivenLoads
  <2>2. CASE ahead
    <3>1. Given(y, z, d, next)
      BY <2>2 DEF GivenLoads
    <3>2. \A e \in Devices : \A i \in DOMAIN z[e] : z[e][i].key # next.key
      <4>1. ASSUME NEW e \in Devices, NEW a, In(z, e, a) PROVE a.key # next.key
        BY <4>1, <1>1, <2>2
      <4> QED BY <4>1 DEF In
    <3>3. Once(y)
      BY <3>1, <3>2, <1>1, OnceGiven
    <3>4. Joins(y, z, d, next) /\ Stays(y, z)
      BY <3>1, GivenIn, GivenStays
    <3> QED BY <3>3, <3>4, <2>2 DEF Joins
  <2> QED BY <2>1, <2>2
<1>3. Stays(y, x)
  BY <1>1, <1>2 DEF Stays
<1>4. ASSUME NEW e \in Devices, NEW a, In(y, e, a)
      PROVE  In(x, e, a) \/ (e = d /\ a = reload) \/ (e = d /\ a = next /\ ahead)
  BY <1>1, <1>2, <1>4
<1> QED
  BY <1>2, <1>3, <1>4

LEMMA BackwardOffloadedOrder ==
  ASSUME PoolInv, PoolInv', OrderInv, BackwardOffloaded
  PROVE  OrderInv'
<1>0. TypeOK /\ StreamsTyped
  BY DEF OrderInv, StreamsTyped
<1>1. PICK g \in Graphs, l \in 1..Layers, c \in Node, reload \in Commands, kernel \in Commands,
           hit \in BOOLEAN, ahead \in BOOLEAN, mid \in Seq(Commands), next \in Commands :
        Reloads(g, l, c, reload, next, kernel, hit, ahead, mid)
  BY <1>0, Reloading
<1>q. PICK x, y, z, d, now : /\ x = extra /\ y = extra' /\ z = [extra EXCEPT ![c.device] = mid]
                             /\ d = c.device /\ now = <<g, l>>
  OBVIOUS
<1>x. x \in Queues /\ y \in Queues /\ fences \in [Slots -> SUBSET (Devices \X Keys)]
  <2>1. y \in Queues
    BY <1>1, <1>q DEF Reloads, Queues
  <2> QED BY <2>1, <1>0, <1>q, ExtraQueues
<1>d. d \in Devices
  BY <1>q DEF Node
<1>2. /\ ~Idle /\ g = running.graph /\ l = running.layer /\ c = ctx[g][l] /\ c.slot \in Slots
      /\ NextLayer /\ Release(g, {l}, y, <<g, l>>)
  BY <1>1, <1>q DEF Reloads
<1>3. /\ reload.key = <<g, l, "reload", passes[g]>> /\ reload.slot = c.slot
      /\ ahead => next.key = <<g, l, "prefetch", passes[g]>>
  BY <1>1 DEF Reloads
<1>4. /\ NodeOf(reload) = now /\ reload.key[3] = "reload" /\ ~IsOffload(reload)
      /\ ahead => next.key[3] = "prefetch" /\ ~IsOffload(next)
  BY <1>3, <1>q DEF NodeOf, IsOffload
<1>5. UNCHANGED <<epoch, passes, stage, host, top, retained>>
  BY <1>2 DEF NextLayer, Release, BackwardOffloaded
\* The node whose backward is run.
<1>6. /\ now \in Nodes /\ Ours(now) /\ At(now).kept /\ At(now).leased /\ At(now) = c
      /\ c.slot < top /\ c.slot \notin Unleased
  <2>1. now = <<running.graph, running.layer>>
    BY <1>2, <1>q
  <2>2. now \in Nodes /\ Exists(now) /\ At(now).kept
    BY <2>1, <1>2, Stepped DEF PoolInv
  <2>3. At(now) = c /\ now[1] = g /\ now[2] = l
    BY <1>2, <1>q DEF At
  <2>4. c.epoch = epoch /\ c.slot # OnDevice
    <3>1. c.epoch = epoch
      BY <2>2, <2>3, <1>2 DEF PoolInv, RunsKept, Exists, Idle
    <3> QED BY <3>1, <1>2 DEF Slots, OnDevice
  <2>5. Ours(now)
    BY <2>2, <2>3, <2>4 DEF Ours
  <2>6. At(now).leased
    BY <2>2, <2>5 DEF OrderInv, RunOnce
  <2> QED BY <2>2, <2>3, <2>5, <2>6 DEF PoolInv, LeasesApart
<1>7. KeepsPast /\ KeepsPlaces /\ RunOnce' /\ \A n \in Nodes : Ours(n)' /\ (At(n)').kept => n # now
  <2>1. now = <<running.graph, running.layer>>
    BY <1>2, <1>q
  <2> QED BY <2>1, <1>2, <1>5, PastStepped, OrderStepped DEF OrderInv
<1>8. /\ Past(reload.key)' /\ ~Past(reload.key)
      /\ ahead => Past(next.key)' /\ ~Past(next.key)
      /\ ahead => reload.key # next.key
  <2>1. reload.key \in Keys /\ next.key \in Keys
    BY DEF Commands
  <2>2. Past(reload.key)' /\ ~Past(reload.key)
    BY <2>1, <1>0, <1>2, <1>3, NewKeys
  <2>3. ahead => Past(next.key)' /\ ~Past(next.key)
    BY <2>1, <1>0, <1>2, <1>3, NewKeys
  <2> QED BY <2>2, <2>3, <1>4
<1>9. GivenLoads(y, z, x, d, reload, next, hit, ahead)
  <2>1. mid = (IF hit THEN x[d] ELSE Append(x[d], reload)) /\ y[d] = (IF ahead THEN Append(mid, next) ELSE mid)
    BY <1>1, <1>q DEF Reloads
  <2>2. \A e \in Devices : e # d => y[e] = x[e] /\ z[e] = x[e]
    BY <1>1, <1>q, <1>x DEF Reloads, Queues
  <2>3. z[d] = mid /\ z \in Queues
    BY <1>q, <1>x, <1>d DEF Queues
  <2>4. IF hit THEN z = x ELSE Given(z, x, d, reload)
    <3>1. CASE hit
      BY <3>1, <2>1, <2>2, <2>3, <1>x, <1>q DEF Queues
    <3>2. CASE ~hit
      <4>1. Pushes(z[d], x[d], reload)
        BY <3>2, <2>1, <2>3, <1>d, <1>x, QueueParts, PushedIs
      <4> QED BY <3>2, <4>1, <2>2 DEF Given
    <3> QED BY <3>1, <3>2
  <2>5. IF ahead THEN Given(y, z, d, next) ELSE y = z
    <3>1. CASE ahead
      <4>1. Pushes(y[d], z[d], next)
        BY <3>1, <2>1, <2>3, PushedIs
      <4> QED BY <3>1, <4>1, <2>2 DEF Given
    <3>2. CASE ~ahead
      <4>1. \A e \in Devices : y[e] = z[e]
        BY <3>2, <2>1, <2>2, <2>3
      <4> QED BY <3>2, <4>1, <2>3, <1>x DEF Queues
    <3> QED BY <3>1, <3>2
  <2> QED BY <2>3, <2>4, <2>5, <1>x DEF GivenLoads
<1>10. \A e \in Devices : \A a \in Commands : In(x, e, a) =>
         Past(a.key) /\ (IsOffload(a) => a.key = OffloadKey(NodeOf(a)))
  BY <1>q DEF OrderInv, KeysApart
<1>11. /\ Once(y) /\ Stays(y, x)
       /\ \A e \in Devices : \A a : In(y, e, a) =>
            In(x, e, a) \/ (e = d /\ a = reload) \/ (e = d /\ a = next /\ ahead)
  <2>1. \A e \in Devices : \A a : In(x, e, a) => a.key # reload.key /\ (ahead => a.key # next.key)
    BY <1>8, <1>10, <1>x, InQueue
  <2>2. Once(x) /\ z \in Queues
    BY <1>9, <1>q DEF OrderInv, KeysApart, GivenLoads
  <2> QED BY <2>1, <2>2, <1>8, <1>9, <1>x, <1>d, LoadsGiven
<1>12. KeysApart'
  <2> SUFFICES ASSUME NEW e \in Devices, NEW a \in Commands, In(y, e, a)
               PROVE  Past(a.key)' /\ (IsOffload(a) => a.key = OffloadKey(NodeOf(a)))
    BY <1>11, <1>q DEF KeysApart
  <2>1. CASE In(x, e, a)
    <3>1. a.key \in Keys
      BY DEF Commands
    <3>2. PICK key \in Keys : key = a.key
      BY <3>1
    <3>3. Past(key)'
      BY <2>1, <3>2, <1>7, <1>10 DEF KeepsPast
    <3> QED BY <2>1, <3>2, <3>3, <1>10
  <2>2. CASE a = reload
    BY <2>2, <1>4, <1>8
  <2>3. CASE a = next /\ ahead
    BY <2>3, <1>4, <1>8
  <2> QED BY <2>1, <2>2, <2>3, <1>11
\* What still uses the slot runs before the node's own offload.
<1>13. ASSUME NEW e \in Devices, NEW a \in Commands, In(x, e, a), Touches(a, c.slot)
       PROVE  Follows(x, d, now, a.key) /\ Follows(y, d, now, a.key)
  <2>1. Follows(x, d, now, a.key)
    BY <1>6, <1>13, <1>q DEF OrderInv, LeasedLast
  <2> QED BY <2>1, <1>d, <1>11, FollowsStays
<1>14. LeasedLast'
  <2> SUFFICES ASSUME NEW n \in Nodes, Ours(n)', (At(n)').kept,
                      NEW e \in Devices, NEW a \in Commands, In(y, e, a), Touches(a, (At(n)').slot)
               PROVE  Follows(y, (At(n)').device, n, a.key)
    BY <1>q DEF LeasedLast
  <2>1. /\ Ours(n) /\ At(n).kept /\ (At(n)').slot = At(n).slot /\ (At(n)').device = At(n).device /\ n # now
    BY <1>7 DEF KeepsPlaces
  <2>2. At(n).slot # c.slot
    <3>1. At(n).leased
      BY <2>1 DEF OrderInv, RunOnce
    <3> QED BY <2>1, <3>1, <1>6 DEF PoolInv, LeasesApart
  <2>3. In(x, e, a)
    BY <2>1, <2>2, <1>3, <1>4, <1>11 DEF Touches
  <2>4. Follows(x, At(n).device, n, a.key)
    BY <2>1, <2>3, <1>q DEF OrderInv, LeasedLast
  <2>5. At(n).device \in Devices
    BY <2>1, AtTyped DEF PoolInv, Ours, Node
  <2> QED BY <2>1, <2>4, <2>5, <1>11, FollowsStays
<1>15. FencesCover'
  <2> SUFFICES ASSUME NEW s \in Unleased', NEW e \in Devices, NEW a \in Commands, In(y, e, a), Touches(a, s)
               PROVE  Fenced(y, fences'[s], a.key)
    BY <1>q DEF FencesCover
  <2>1. CASE s \in Unleased /\ fences'[s] = fences[s]
    <3>1. In(x, e, a)
      BY <2>1, <1>3, <1>4, <1>6, <1>11 DEF Touches
    <3>2. Fenced(x, fences[s], a.key) /\ s \in Slots
      BY <2>1, <3>1, <1>q DEF OrderInv, FencesCover, PoolInv, Typed, Unleased
    <3>3. fences[s] \in SUBSET (Devices \X Keys)
      BY <3>2, <1>x
    <3> QED BY <2>1, <3>2, <3>3, <1>11, FencedStays
  <2>2. CASE s = c.slot /\ \A key \in LastKey(y[d]) : <<d, key>> \in fences'[s]
    <3>1. \E w : In(y, d, w) /\ After(y, w.key, a.key)
      <4>1. CASE In(x, e, a)
        BY <4>1, <2>2, <1>13 DEF Follows
      <4>2. CASE e = d /\ a = reload
        BY <4>2, AfterSelf
      <4> QED BY <4>1, <4>2, <1>4, <1>11 DEF Touches
    <3>2. PICK w : In(y, d, w) /\ After(y, w.key, a.key)
      BY <3>1
    <3>3. PICK b : In(y, d, b) /\ LastKey(y[d]) = {b.key} /\ After(y, b.key, w.key)
      BY <3>2, <1>x, <1>d, EndAfter
    <3>4. After(y, b.key, a.key)
      BY <3>2, <3>3, AfterTrans
    <3>5. <<d, b.key>> \in fences'[s]
      BY <3>3, <2>2
    <3> QED BY <3>3, <3>4, <3>5 DEF Fenced
  <2>p. PICK ns, by : ns = {l} /\ by = <<g, l>>
    OBVIOUS
  <2>3. ns \subseteq DOMAIN ctx[g] /\ Release(g, ns, y, by)
    BY <2>p, <1>2 DEF PoolInv, RunsKept, Idle
  <2>4. (s \in Unleased /\ fences'[s] = fences[s]) \/ GivenUp(g, ns, y, s)
    BY <2>3, <1>0, <1>x, Releases
  <2>5. CASE GivenUp(g, ns, y, s)
    BY <2>2, <2>5, <2>p, <1>6, <1>q DEF GivenUp
  <2> QED BY <2>1, <2>4, <2>5
<1>16. SlotsUsed'
  <2> SUFFICES ASSUME NEW e \in Devices, NEW a \in Commands, In(y, e, a), a.key[3] # "prefetch"
               PROVE  a.slot < top
    BY <1>q, <1>5 DEF SlotsUsed
  <2>1. CASE In(x, e, a)
    BY <2>1, <1>q DEF OrderInv, SlotsUsed
  <2>2. CASE a = reload
    BY <2>2, <1>3, <1>6
  <2> QED BY <2>1, <2>2, <1>4, <1>11
<1>17. ReloadsFirst'
  <2> SUFFICES ASSUME NEW h \in Devices, NEW e \in Devices, NEW r \in Commands, NEW w \in Commands,
                      In(y, h, r), In(y, e, w), r.key[3] = "reload", IsOffload(w), w.slot = r.slot
               PROVE  Follows(y, h, NodeOf(r), w.key) \/ After(y, w.key, r.key)
    BY <1>q DEF ReloadsFirst
  <2>1. In(x, e, w)
    BY <1>4, <1>11
  <2>2. CASE In(x, h, r)
    <3>1. Follows(x, h, NodeOf(r), w.key) \/ After(x, w.key, r.key)
      BY <2>1, <2>2, <1>q DEF OrderInv, ReloadsFirst
    <3> QED BY <3>1, <1>11, FollowsStays DEF Stays
  <2>3. CASE h = d /\ r = reload
    <3>1. Touches(w, c.slot)
      BY <2>3, <1>3 DEF Touches, IsOffload
    <3> QED BY <2>1, <2>3, <3>1, <1>4, <1>13
  <2> QED BY <2>2, <2>3, <1>4, <1>11
<1>18. Fresh'
  <2> SUFFICES ASSUME NEW e \in Devices, NEW w \in Commands, In(y, e, w), IsOffload(w), NEW s \in Slots
               PROVE  host[s] # NodeOf(w)
    BY <1>q, <1>5 DEF Fresh
  <2>1. In(x, e, w)
    BY <1>4, <1>11
  <2> QED BY <2>1, <1>q DEF OrderInv, Fresh
<1>19. HostCame' /\ FirstPass' /\ StreamsTyped'
  BY <1>0, <1>5, <1>7, HostCameKept, BackwardOffloadedTyped DEF OrderInv, FirstPass
<1> QED
  BY <1>7, <1>12, <1>14, <1>15, <1>16, <1>17, <1>18, <1>19 DEF OrderInv

LEMMA InitOrder ==
  ASSUME Init
  PROVE  OrderInv
<1>1. StreamsTyped
  BY InitReads DEF ReadsInv
<1>2. /\ \A d \in Devices : extra[d] = <<>>
      /\ \A g \in Graphs : passes[g] = 0 /\ ctx[g] = <<>>
      /\ \A s \in Slots : host[s] = Nobody
      /\ running = Nobody
  BY DEF Init
<1>3. \A d \in Devices : DOMAIN extra[d] = {} /\ \A c : ~In(extra, d, c)
  BY <1>2 DEF In
<1>4. \A n \in Nodes : ~Ours(n)
  <2> SUFFICES ASSUME NEW n \in Nodes PROVE ~Exists(n)
    BY DEF Ours
  <2>1. ctx[n[1]] = <<>>
    BY <1>2, NodeParts
  <2> QED BY <2>1 DEF Exists
<1>5. KeysApart /\ LeasedLast /\ FencesCover /\ SlotsUsed /\ ReloadsFirst /\ Fresh
  BY <1>3 DEF KeysApart, Once, LeasedLast, FencesCover, SlotsUsed, ReloadsFirst, Fresh
<1>6. FirstPass /\ HostCame /\ RunOnce
  BY <1>2, <1>4 DEF FirstPass, HostCame, RunOnce
<1> QED
  BY <1>1, <1>5, <1>6 DEF OrderInv

LEMMA NextOrder ==
  ASSUME MaxPasses = 1, PoolInv, PoolInv', OrderInv, [Next]_vars
  PROVE  OrderInv'
<1>1. ASSUME NEW g \in Graphs, NEW d \in Devices, ForwardKept(g, d) PROVE OrderInv'
  BY <1>1, ForwardKeptOrder
<1>2. ASSUME NEW g \in Graphs, NEW d \in Devices, NEW s \in Slots, ForwardOffloaded(g, d, s)
      PROVE  OrderInv'
  BY <1>2, ForwardOffloadedOrder
<1>3. ASSUME NEW g \in Graphs, EndForward(g) PROVE OrderInv'
  BY <1>3, EndForwardOrder
<1>4. ASSUME NEW g \in Graphs, Drop(g) PROVE OrderInv'
  BY <1>4, DropOrder
<1>5. ASSUME NEW g \in Graphs, NEW retain \in BOOLEAN, BeginBackward(g, retain) PROVE OrderInv'
  BY <1>5, BeginBackwardOrder
<1>6. CASE BackwardKept
  BY <1>6, BackwardKeptOrder
<1>7. CASE BackwardOffloaded
  BY <1>7, BackwardOffloadedOrder
<1>8. CASE Reset
  BY <1>8, ResetOrder
<1>9. ASSUME NEW d \in Devices, Copy(d) PROVE OrderInv'
  BY <1>9, CopyOrder
<1>10. ASSUME NEW d \in Devices, Compute(d) PROVE OrderInv'
  BY <1>10, ComputeOrder
<1>11. CASE UNCHANGED vars
  BY <1>11, StutterOrder
<1> QED
  BY <1>1, <1>2, <1>3, <1>4, <1>5, <1>6, <1>7, <1>8, <1>9, <1>10, <1>11 DEF Next, CPU

\* An offload that can run is after no reload that is still queued.
LEMMA ReuseIsSafe ==
  ASSUME OrderInv
  PROVE  SafeToReuse
<1> SUFFICES ASSUME NEW d \in Devices, NEW e \in Devices, NEW k \in DOMAIN extra[e],
                    Runnable(extra[d]), Head(extra[d]).key[3] = "offload", extra[e][k].key[3] = "reload",
                    Head(extra[d]).slot = extra[e][k].slot,
                    host[extra[e][k].slot] = NodeOf(extra[e][k])
             PROVE  FALSE
  BY DEF SafeToReuse
<1>q. PICK w, r : w = extra[d][1] /\ r = extra[e][k]
  OBVIOUS
<1>0. extra \in Queues /\ StreamsTyped /\ Once(extra)
  BY ExtraQueues DEF OrderInv, KeysApart
<1>1. extra[d] # <<>> /\ Head(extra[d]) = w /\ Free(extra, d)
  BY <1>0, <1>q, RunnableFree
<1>2. /\ w \in Commands /\ r \in Commands /\ In(extra, d, w) /\ In(extra, e, r)
      /\ IsOffload(w) /\ w.slot = r.slot /\ r.key[3] = "reload" /\ r.slot \in Slots
  <2>1. 1 \in DOMAIN extra[d]
    BY <1>0, <1>1, QueueParts
  <2>2. w \in Commands /\ r \in Commands
    BY <2>1, <1>0, <1>q, QueueParts
  <2> QED BY <2>1, <2>2, <1>1, <1>q DEF In, IsOffload, Commands
<1>3. ~Follows(extra, e, NodeOf(r), w.key)
  <2>1. host[r.slot] = NodeOf(r)
    BY <1>q
  <2> QED BY <2>1, <1>2 DEF Follows, OrderInv, Fresh
<1>4. After(extra, w.key, r.key)
  BY <1>2, <1>3 DEF OrderInv, ReloadsFirst
<1>5. r.key = w.key
  BY <1>0, <1>1, <1>4, <1>q, FirstAlone
<1> QED
  BY <1>2, <1>5 DEF IsOffload

\* "safe to reuse now unless the graph is retained": with one backward through
\* a graph, no offload that can run overwrites an input that a queued reload
\* has still to read, on any number of devices, double buffered and prefetching
\* or not.  The slot's fences and the order of the side streams are enough.
THEOREM SlotsSafeToReuse ==
  ASSUME MaxPasses = 1
  PROVE  Spec => []SafeToReuse
<1>1. Init => OrderInv
  BY InitOrder
<1>2. PoolInv /\ PoolInv' /\ OrderInv /\ [Next]_vars => OrderInv'
  BY NextOrder
<1>3. OrderInv => SafeToReuse
  BY ReuseIsSafe
<1> QED
  BY <1>1, <1>2, <1>3, PoolHolds, PTL DEF Spec

-----------------------------------------------------------------------------
(* What a recompute reads on several devices, each with one buffer, when no *)
(* graph is retained.                                                       *)

\* The input of a node to come is in its slot when its own side stream has
\* run, whatever the other devices do.
HostKeptOn ==
  \A n \in Nodes : Ours(n) /\ At(n).kept =>
    \A d \in Devices : d = At(n).device => Found(extra[d], host, Len(extra[d]) + 1, At(n).slot, n)

\* A recompute waits for the reload of its own input only.
WaitsOwn ==
  \A d \in Devices : \A j \in DOMAIN main[d] : IsRecompute(main[d][j]) =>
    \A c \in Commands : c.key \in main[d][j].waits => c.key[3] = "reload" /\ NodeOf(c) = NodeOf(main[d][j])

SingleInv == ~useDouble /\ ~bufferB /\ HostKeptOn /\ RecomputesServed /\ WaitsOwn

\* Another host with the same input in the slot, if it was there.
LEMMA FoundHost ==
  ASSUME NEW q, NEW h, NEW k, NEW s, NEW n, Found(q, h, k, s, n),
         NEW x, h[s] = n => x[s] = n
  PROVE  Found(q, x, k, s, n)
BY DEF Found

LEMMA ServedHost ==
  ASSUME NEW e, NEW m, NEW h, NEW st, NEW j, Served(e, m, h, st, j), NEW x,
         \A k \in DOMAIN e : IsLoad(e[k]) /\ e[k].key \in m[j].waits /\ h[e[k].slot] = NodeOf(m[j])
           => x[e[k].slot] = NodeOf(m[j])
  PROVE  Served(e, m, x, st, j)
<1>1. CASE st = NodeOf(m[j]) /\ Spared(e, 0, m, j)
  BY <1>1 DEF Served
<1>2. CASE \E k \in DOMAIN e :
             /\ IsLoad(e[k]) /\ e[k].buffer = m[j].buffer /\ e[k].key \in m[j].waits
             /\ Found(e, h, k, e[k].slot, NodeOf(m[j]))
             /\ Spared(e, k, m, j)
  <2>1. PICK k \in DOMAIN e :
             /\ IsLoad(e[k]) /\ e[k].buffer = m[j].buffer /\ e[k].key \in m[j].waits
             /\ Found(e, h, k, e[k].slot, NodeOf(m[j]))
             /\ Spared(e, k, m, j)
    BY <1>2
  <2>2. Found(e, x, k, e[k].slot, NodeOf(m[j]))
    BY <2>1, FoundHost
  <2> QED BY <2>1, <2>2 DEF Served
<1> QED
  BY <1>1, <1>2 DEF Served

\* Commands that are no offloads to the slot are given to the stream.
LEMMA FoundGiven ==
  ASSUME NEW q, NEW f, NEW c, Pushes(f, q, c), NEW h, NEW s, NEW n,
         Found(q, h, Len(q) + 1, s, n), ~(IsOffload(c) /\ c.slot = s)
  PROVE  Found(f, h, Len(f) + 1, s, n)
<1>1. /\ Continues(f, q) /\ Len(q) \in Nat /\ Len(f) = Len(q) + 1 /\ f[Len(q) + 1] = c
  BY PushParts
<1>2. Found(f, h, Len(q) + 1, s, n)
  <2>1. Len(q) + 1 \in 1..(Len(q) + 1)
    BY <1>1
  <2> QED BY <2>1, <1>1, FoundContinues
<1>3. \A j \in (Len(q) + 1)..((Len(f) + 1) - 1) : j = Len(q) + 1
  BY <1>1
<1>4. Len(q) + 1 \in Nat \ {0} /\ Len(f) + 1 \in Nat /\ Len(q) + 1 <= Len(f) + 1
  BY <1>1
<1>5. \A j \in (Len(q) + 1)..((Len(f) + 1) - 1) : ~(IsOffload(f[j]) /\ f[j].slot = s)
  BY <1>1, <1>3
<1> QED
  BY <1>2, <1>4, <1>5, FoundLater

LEMMA SingleQuiet ==
  ASSUME SingleInv, KeepsPlaces, ~useDouble', ~bufferB', UNCHANGED <<main, extra, host, staging>>
  PROVE  SingleInv'
<1>1. HostKeptOn'
  <2>1. extra' = extra /\ host' = host
    OBVIOUS
  <2>2. ASSUME NEW n \in Nodes, Ours(n)', (At(n)').kept, NEW d \in Devices, d = (At(n)').device
        PROVE  Found(extra'[d], host', Len(extra'[d]) + 1, (At(n)').slot, n)
    <3>1. Ours(n) /\ At(n).kept /\ (At(n)').slot = At(n).slot /\ d = At(n).device
      BY <2>2 DEF KeepsPlaces
    <3>2. Found(extra[d], host, Len(extra[d]) + 1, At(n).slot, n)
      BY <3>1 DEF SingleInv, HostKeptOn
    <3> QED BY <2>1, <3>1, <3>2
  <2> QED BY <2>2, Zenon DEF HostKeptOn, Found, IsOffload, NodeOf
<1>2. RecomputesServed' /\ WaitsOwn'
  BY DEF SingleInv, RecomputesServed, WaitsOwn
<1> QED
  BY <1>1, <1>2 DEF SingleInv

LEMMA ForwardOffloadedSingle ==
  ASSUME PoolInv, OrderInv, SingleInv,
         NEW g \in Graphs, NEW d \in Devices, NEW s \in Slots, ForwardOffloaded(g, d, s)
  PROVE  SingleInv'
<1>0. TypeOK
  BY DEF OrderInv, StreamsTyped
<1>1. PICK l \in 1..Layers, copy \in Commands, kernel \in Commands, node \in Node :
        Enqueues(g, d, s, l, copy, kernel, node)
  BY <1>0, Offloading
<1>q. PICK q, f, m, p, new : q = extra[d] /\ f = extra'[d] /\ m = main[d] /\ p = main'[d] /\ new = <<g, l>>
  OBVIOUS
<1>2. /\ l = Len(ctx[g]) + 1 /\ node.slot = s /\ node.device = d /\ AddNode(g, node)
      /\ copy.key = <<g, l, "offload", passes[g]>> /\ kernel.key = <<g, l, "forward", passes[g]>>
      /\ copy.slot = s /\ NodeOf(copy) = new
      /\ f = Append(q, copy) /\ p = Append(m, kernel)
      /\ \A e \in Devices : e # d => extra'[e] = extra[e] /\ main'[e] = main[e]
  BY <1>1, <1>q DEF Enqueues
<1>3. q \in Seq(Commands) /\ m \in Seq(Commands)
  BY <1>0, <1>q DEF TypeOK
<1>4. Pushes(f, q, copy) /\ Pushes(p, m, kernel)
  BY <1>2, <1>3, PushedIs
<1>5. /\ Continues(f, q) /\ Len(q) \in Nat /\ Len(f) = Len(q) + 1 /\ f[Len(q) + 1] = copy
      /\ DOMAIN f = 1..Len(f)
  BY <1>4, PushParts
<1>6. /\ Continues(p, m) /\ Len(p) = Len(m) + 1 /\ p[Len(m) + 1] = kernel
      /\ DOMAIN m = 1..Len(m) /\ DOMAIN p = 1..Len(p) /\ Len(m) \in Nat
      /\ \A k \in DOMAIN m : p[k] = m[k]
  BY <1>4, PushParts
<1>7. UNCHANGED <<host, staging, epoch>> /\ Lease(s) /\ Buffering(backwardPass)
  BY DEF ForwardOffloaded, Lease
<1>8. ~useDouble' /\ ~bufferB'
  BY <1>7 DEF Buffering, SingleInv
<1>9. /\ \A n \in Nodes : Exists(n) => Exists(n)' /\ At(n)' = At(n)
      /\ \A n \in Nodes : Exists(n)' /\ ~Exists(n) => n = new
      /\ At(new)' = node
  <2>1. new = <<g, Len(ctx[g]) + 1>>
    BY <1>2, <1>q
  <2> QED BY <2>1, <1>2, Added DEF PoolInv
<1>10. HostKeptOn'
  <2> SUFFICES ASSUME NEW n \in Nodes, Ours(n)', (At(n)').kept, NEW e \in Devices, e = (At(n)').device
               PROVE  Found(extra'[e], host, Len(extra'[e]) + 1, (At(n)').slot, n)
    BY <1>7 DEF HostKeptOn, Found, IsOffload, NodeOf
  <2>1. CASE n = new
    <3>1. e = d /\ (At(n)').slot = s /\ IsOffload(copy) /\ NodeOf(copy) = n
      BY <2>1, <1>2, <1>9 DEF IsOffload
    <3>2. Len(f) \in 1..((Len(f) + 1) - 1) /\ f[Len(f)] = copy
      BY <1>5
    <3>3. \A j \in (Len(f) + 1)..((Len(f) + 1) - 1) : FALSE
      BY <1>5
    <3>4. Found(f, host, Len(f) + 1, s, n)
      BY <3>1, <3>2, <3>3, <1>2 DEF Found
    <3> QED BY <3>1, <3>4, <1>q
  <2>2. CASE n # new
    <3>1. Exists(n) /\ At(n)' = At(n) /\ Ours(n) /\ At(n).kept
      BY <2>2, <1>7, <1>9 DEF Ours
    <3>2. At(n).slot # s
      BY <3>1, <1>7, Leasing
    <3>3. Found(extra[e], host, Len(extra[e]) + 1, At(n).slot, n)
      BY <3>1 DEF SingleInv, HostKeptOn
    <3>4. CASE e = d
      <4>0. Found(q, host, Len(q) + 1, At(n).slot, n)
        BY <3>3, <3>4, <1>q
      <4>1. Found(f, host, Len(f) + 1, At(n).slot, n)
        BY <4>0, <3>2, <1>2, <1>4, FoundGiven
      <4> QED BY <4>1, <3>1, <3>4, <1>q
    <3>5. CASE e # d
      BY <3>1, <3>3, <3>5, <1>2
    <3> QED BY <3>4, <3>5
  <2> QED BY <2>1, <2>2
<1>11. ASSUME NEW j \in DOMAIN p, IsRecompute(p[j]) PROVE j \in DOMAIN m /\ p[j] = m[j]
  <2>1. p[j] # kernel
    BY <1>2, <1>11 DEF IsRecompute
  <2>2. j \in DOMAIN m
    BY <2>1, <1>6
  <2> QED BY <2>2, <1>6
<1>12. RecomputesServed'
  <2> SUFFICES ASSUME NEW e \in Devices, NEW j \in DOMAIN main'[e], IsRecompute(main'[e][j])
               PROVE  Served(extra'[e], main'[e], host, staging[<<e, main'[e][j].buffer>>], j)
    BY <1>7 DEF RecomputesServed
  <2>1. CASE e = d
    <3>1. j \in DOMAIN m /\ p[j] = m[j] /\ IsRecompute(m[j])
      BY <2>1, <1>11, <1>q
    <3>2. Served(q, m, host, staging[<<d, m[j].buffer>>], j)
      BY <3>1, <1>q DEF SingleInv, RecomputesServed
    <3>3. \A i \in DOMAIN f : i > Len(q) => ~IsLoad(f[i])
      <4>1. \A i \in DOMAIN f : i > Len(q) => i = Len(q) + 1
        BY <1>5
      <4> QED BY <4>1, <1>2, <1>5 DEF IsLoad
    <3>4. Served(f, p, host, staging[<<d, m[j].buffer>>], j)
      BY <3>1, <3>2, <3>3, <1>5, <1>6, ServedContinues
    <3> QED BY <2>1, <3>1, <3>4, <1>q
  <2>2. CASE e # d
    BY <2>2, <1>2 DEF SingleInv, RecomputesServed
  <2> QED BY <2>1, <2>2
<1>13. WaitsOwn'
  <2> SUFFICES ASSUME NEW e \in Devices, NEW j \in DOMAIN main'[e], IsRecompute(main'[e][j]),
                      NEW c \in Commands, c.key \in main'[e][j].waits
               PROVE  c.key[3] = "reload" /\ NodeOf(c) = NodeOf(main'[e][j])
    BY DEF WaitsOwn
  <2>1. j \in DOMAIN main[e] /\ main'[e][j] = main[e][j]
    <3>1. CASE e = d
      BY <3>1, <1>11, <1>q
    <3>2. CASE e # d
      BY <3>2, <1>2
    <3> QED BY <3>1, <3>2
  <2> QED BY <2>1 DEF SingleInv, WaitsOwn
<1> QED
  BY <1>8, <1>10, <1>12, <1>13 DEF SingleInv

LEMMA BackwardOffloadedSingle ==
  ASSUME PoolInv, OrderInv, SingleInv, BackwardOffloaded
  PROVE  SingleInv'
<1>0. TypeOK /\ StreamsTyped
  BY DEF OrderInv, StreamsTyped
<1>1. PICK g \in Graphs, l \in 1..Layers, c \in Node, reload \in Commands, kernel \in Commands,
           hit \in BOOLEAN, ahead \in BOOLEAN, mid \in Seq(Commands), next \in Commands :
        Reloads(g, l, c, reload, next, kernel, hit, ahead, mid)
  BY <1>0, Reloading
<1>d. PICK d \in Devices : d = c.device
  BY DEF Node
<1>q. PICK q, f, m, p, now : q = extra[d] /\ f = extra'[d] /\ m = main[d] /\ p = main'[d] /\ now = <<g, l>>
  OBVIOUS
<1>2. /\ ~Idle /\ g = running.graph /\ l = running.layer /\ c = ctx[g][l] /\ NextLayer
      /\ c.slot \in Slots /\ Release(g, {l}, extra', <<g, l>>)
  BY <1>1 DEF Reloads
<1>3. /\ UNCHANGED <<host, staging, bufVars>> /\ epoch' = epoch
  BY <1>2 DEF BackwardOffloaded, Release
<1>4. ~useDouble /\ ~bufferB /\ ~useDouble' /\ ~bufferB'
  BY <1>3 DEF SingleInv, bufVars
<1>5. /\ f = Append(q, reload) /\ p = Append(m, kernel)
      /\ \A e \in Devices : e # d => extra'[e] = extra[e] /\ main'[e] = main[e]
      /\ reload.key = <<g, l, "reload", passes[g]>> /\ reload.slot = c.slot /\ reload.buffer = 0
      /\ reload.waits = LastKey(m)
      /\ kernel.key = <<g, l, "recompute", passes[g]>> /\ kernel.buffer = 0 /\ NodeOf(kernel) = now
      /\ kernel.waits = {reload.key}
  BY <1>1, <1>4, <1>d, <1>q DEF Reloads
<1>6. q \in Seq(Commands) /\ m \in Seq(Commands)
  BY <1>0, <1>q DEF TypeOK
<1>7. Pushes(f, q, reload) /\ Pushes(p, m, kernel)
  BY <1>5, <1>6, PushedIs
<1>8. /\ Continues(f, q) /\ Len(q) \in Nat /\ Len(f) = Len(q) + 1 /\ f[Len(q) + 1] = reload
      /\ DOMAIN f = 1..Len(f)
  BY <1>7, PushParts
<1>9. /\ Continues(p, m) /\ Len(m) \in Nat /\ Len(p) = Len(m) + 1 /\ p[Len(m) + 1] = kernel
      /\ DOMAIN m = 1..Len(m) /\ DOMAIN p = 1..Len(p)
      /\ \A k \in DOMAIN m : p[k] = m[k]
  BY <1>7, PushParts
<1>10. IsLoad(reload) /\ ~IsOffload(reload) /\ IsRecompute(kernel) /\ reload.key[3] = "reload" /\ NodeOf(reload) = now
  BY <1>5, <1>q DEF IsLoad, IsOffload, IsRecompute, NodeOf
<1>now. now = <<running.graph, running.layer>>
  BY <1>2, <1>q
\* The input is on its way to its slot.
<1>11. Found(q, host, Len(q) + 1, c.slot, now)
  <2>1. now \in Nodes /\ Exists(now) /\ At(now).kept
    BY <1>now, <1>2, Stepped DEF PoolInv
  <2>2. At(now) = c
    BY <1>2, <1>q DEF At
  <2>3. Ours(now)
    <3>1. c.epoch = epoch
      BY <2>1, <2>2, <1>2, <1>q DEF PoolInv, RunsKept, Exists, Idle
    <3> QED BY <2>1, <2>2, <3>1, <1>2 DEF Ours, Slots, OnDevice
  <2> QED BY <2>1, <2>2, <2>3, <1>d, <1>q DEF SingleInv, HostKeptOn
<1>12. HostKeptOn'
  <2> SUFFICES ASSUME NEW n \in Nodes, Ours(n)', (At(n)').kept, NEW e \in Devices, e = (At(n)').device
               PROVE  Found(extra'[e], host, Len(extra'[e]) + 1, (At(n)').slot, n)
    BY <1>3 DEF HostKeptOn, Found, IsOffload, NodeOf
  <2>1. Ours(n) /\ At(n).kept /\ (At(n)').slot = At(n).slot /\ e = At(n).device
    BY <1>now, <1>2, <1>3, OrderStepped DEF KeepsPlaces, OrderInv
  <2>2. Found(extra[e], host, Len(extra[e]) + 1, At(n).slot, n)
    BY <2>1 DEF SingleInv, HostKeptOn
  <2>3. CASE e = d
    <3>1. Found(f, host, Len(f) + 1, At(n).slot, n)
      BY <2>2, <2>3, <1>7, <1>10, <1>q, FoundGiven
    <3> QED BY <3>1, <2>1, <2>3, <1>q
  <2>4. CASE e # d
    BY <2>1, <2>2, <2>4, <1>5
  <2> QED BY <2>3, <2>4
\* The layer's own recompute is served by its reload.
<1>13. Served(f, p, host, staging[<<d, 0>>], Len(p))
  <2>1. p[Len(p)] = kernel /\ reload.key \in kernel.waits /\ Len(q) + 1 \in DOMAIN f
    BY <1>5, <1>8, <1>9
  <2>2. Found(f, host, Len(q) + 1, c.slot, now)
    <3>1. Len(q) + 1 \in 1..(Len(q) + 1)
      BY <1>8
    <3> QED BY <3>1, <1>8, <1>11, FoundContinues
  <2>3. Spared(f, Len(q) + 1, p, Len(p))
    <3>1. \A i \in DOMAIN f : ~(i > Len(q) + 1)
      BY <1>8
    <3> QED BY <3>1 DEF Spared
  <2> QED BY <2>1, <2>2, <2>3, <1>5, <1>8, <1>10 DEF Served
<1>14. RecomputesServed'
  <2> SUFFICES ASSUME NEW e \in Devices, NEW j \in DOMAIN main'[e], IsRecompute(main'[e][j])
               PROVE  Served(extra'[e], main'[e], host, staging[<<e, main'[e][j].buffer>>], j)
    BY <1>3 DEF RecomputesServed
  <2>1. CASE e # d
    BY <2>1, <1>5 DEF SingleInv, RecomputesServed
  <2>2. CASE e = d /\ j = Len(p)
    <3>1. p[j].buffer = 0
      BY <2>2, <1>5, <1>9
    <3> QED BY <2>2, <3>1, <1>13, <1>q
  <2>3. CASE e = d /\ j \in DOMAIN m
    <3>1. p[j] = m[j] /\ IsRecompute(m[j])
      BY <2>3, <1>9, <1>q
    <3>2. Served(q, m, host, staging[<<d, m[j].buffer>>], j)
      BY <2>3, <3>1, <1>q DEF SingleInv, RecomputesServed
    <3>3. ASSUME NEW i \in DOMAIN f, i > Len(q)
          PROVE  Behind(f, i, p, j)
      <4>1. i = Len(q) + 1 /\ i <= i
        BY <3>3, <1>8
      <4>2. f[i].waits = LastKey(m)
        BY <4>1, <1>5, <1>8
      <4> QED BY <2>3, <4>1, <4>2, <1>9, LastBehind
    <3>4. Served(f, p, host, staging[<<d, m[j].buffer>>], j)
      BY <2>3, <3>2, <3>3, <1>8, <1>9, ServedContinues
    <3> QED BY <2>3, <3>1, <3>4, <1>q
  <2>4. e = d => j = Len(p) \/ j \in DOMAIN m
    BY <1>9, <1>q
  <2> QED BY <2>1, <2>2, <2>3, <2>4
<1>15. WaitsOwn'
  <2> SUFFICES ASSUME NEW e \in Devices, NEW j \in DOMAIN main'[e], IsRecompute(main'[e][j]),
                      NEW a \in Commands, a.key \in main'[e][j].waits
               PROVE  a.key[3] = "reload" /\ NodeOf(a) = NodeOf(main'[e][j])
    BY DEF WaitsOwn
  <2>1. CASE e = d /\ j = Len(p)
    <3>1. main'[e][j] = kernel
      BY <2>1, <1>9, <1>q
    <3>2. a.key = reload.key
      BY <3>1, <1>5
    <3> QED BY <3>1, <3>2, <1>5, <1>10 DEF NodeOf
  <2>2. CASE e # d \/ j \in DOMAIN m
    <3>1. j \in DOMAIN main[e] /\ main'[e][j] = main[e][j]
      BY <2>2, <1>5, <1>9, <1>q
    <3> QED BY <3>1 DEF SingleInv, WaitsOwn
  <2>3. e = d => j = Len(p) \/ j \in DOMAIN m
    BY <1>9, <1>q
  <2> QED BY <2>1, <2>2, <2>3
<1> QED
  BY <1>4, <1>12, <1>14, <1>15 DEF SingleInv

\* An offload that runs writes over no input whose own offload it waits for.
LEMMA WritesOver ==
  ASSUME OrderInv, NEW d \in Devices, NEW e \in Devices, NEW n, NEW key, Follows(extra, e, n, key),
         NEW s \in Slots
  PROVE  host[s] # n
<1>1. PICK w \in Commands : In(extra, e, w) /\ IsOffload(w) /\ NodeOf(w) = n
  BY DEF Follows
<1> QED
  BY <1>1 DEF OrderInv, Fresh

LEMMA CopySingle ==
  ASSUME PoolInv, PoolInv', OrderInv, SingleInv, NEW d \in Devices, Copy(d)
  PROVE  SingleInv'
<1>q. PICK q, r, m, w : q = extra[d] /\ r = Tail(q) /\ m = main[d] /\ w = q[1]
  OBVIOUS
<1>0. TypeOK /\ StreamsTyped /\ Once(extra) /\ extra \in Queues
  BY ExtraQueues DEF OrderInv, StreamsTyped, KeysApart
<1>1. /\ q # <<>> /\ q \in Seq(Commands) /\ w \in Commands
      /\ extra'[d] = r /\ \A e \in Devices : e # d => extra'[e] = extra[e]
      /\ host' = Copied(q, host)
      /\ \A b \in Buffers : staging'[<<d, b>>] = IF IsLoad(w) /\ w.buffer = b
                                                 THEN host[w.slot] ELSE staging[<<d, b>>]
  BY <1>0, <1>q, CopyTyped
<1>2. Runnable(extra[d]) /\ UNCHANGED <<main, bufVars, graphVars, epoch>>
  BY DEF Copy
<1>3. UNCHANGED <<useDouble, bufferB, main, ctx, epoch>>
  BY <1>2 DEF bufVars, graphVars
<1>4. \A e \in Devices : e # d => \A b \in Buffers : staging'[<<e, b>>] = staging[<<e, b>>]
  <2>1. \/ \E x : staging' = [staging EXCEPT ![<<d, Head(extra[d]).buffer>>] = x]
        \/ staging' = staging
    BY DEF Copy
  <2> QED BY <2>1, <1>0 DEF TypeOK
<1>5. Free(extra, d) /\ Head(extra[d]) = w /\ In(extra, d, w)
  <2>1. Free(extra, d) /\ Head(extra[d]) = w
    BY <1>0, <1>2, <1>q, RunnableFree
  <2>2. 1 \in DOMAIN extra[d]
    BY <1>1, <1>q
  <2> QED BY <2>1, <2>2, <1>q DEF In
<1>6. /\ Len(q) \in Nat \ {0} /\ Len(r) = Len(q) - 1 /\ Len(r) \in Nat
      /\ DOMAIN q = 1..Len(q) /\ DOMAIN r = 1..Len(r)
  BY <1>1, <1>q, Popped
<1>7. Over(q, m)
  <2>1. w.waits \cap Pending = {}
    BY <1>2, <1>5 DEF Runnable
  <2>2. \A y \in DOMAIN m : m[y].key \in Pending
    BY <1>q DEF Pending
  <2> QED BY <2>1, <2>2, <1>q DEF Over
<1>8. host \in [Slots -> Nodes \cup {Nobody}] /\ m \in Seq(Commands) /\ w.slot \in Slots
  BY <1>0, <1>1, <1>q DEF TypeOK, Commands
\* What the offload writes over, if it does.
<1>9. ASSUME NEW s, NEW n, host[s] = n, host'[s] # n
      PROVE  IsOffload(w) /\ w.slot = s /\ s \in Slots
  BY <1>1, <1>8, <1>9, <1>q DEF Copied
<1>10. HostKeptOn'
  <2> SUFFICES ASSUME NEW n \in Nodes, Ours(n)', (At(n)').kept, NEW e \in Devices, e = (At(n)').device
               PROVE  Found(extra'[e], host', Len(extra'[e]) + 1, (At(n)').slot, n)
    BY DEF HostKeptOn
  <2>1. Ours(n) /\ At(n)' = At(n) /\ e = At(n).device /\ At(n).kept
    BY <1>3 DEF Ours, Exists, At
  <2>2. Found(extra[e], host, Len(extra[e]) + 1, At(n).slot, n)
    BY <2>1 DEF SingleInv, HostKeptOn
  <2>3. CASE e = d
    <3>1. Len(q) + 1 \in 2..(Len(q) + 1) /\ (Len(q) + 1) - 1 = Len(r) + 1
      BY <1>6
    <3>2. Found(Tail(q), Copied(q, host), (Len(q) + 1) - 1, At(n).slot, n)
      BY <2>2, <2>3, <3>1, <1>1, <1>8, <1>q, FoundPopped
    <3>3. Found(r, host', Len(r) + 1, At(n).slot, n)
      BY <3>1, <3>2, <1>1, <1>q
    <3> QED BY <3>3, <2>1, <2>3, <1>1
  <2>4. CASE e # d
    <3>1. host[At(n).slot] = n => host'[At(n).slot] = n
      <4> SUFFICES ASSUME host[At(n).slot] = n, host'[At(n).slot] # n PROVE FALSE
        OBVIOUS
      <4>1. IsOffload(w) /\ w.slot = At(n).slot /\ w.slot \in Slots
        BY <1>9
      <4>2. Follows(extra, e, n, w.key)
        BY <4>1, <2>1, <1>1, <1>5 DEF OrderInv, LeasedLast, Touches, IsOffload
      <4> QED BY <4>1, <4>2, WritesOver
    <3>2. Found(extra[e], host', Len(extra[e]) + 1, At(n).slot, n)
      BY <2>2, <3>1, FoundHost
    <3> QED BY <2>1, <2>4, <3>2, <1>1
  <2> QED BY <2>3, <2>4
<1>11. RecomputesServed'
  <2> SUFFICES ASSUME NEW e \in Devices, NEW j \in DOMAIN main[e], IsRecompute(main[e][j])
               PROVE  Served(extra'[e], main[e], host', staging'[<<e, main[e][j].buffer>>], j)
    BY <1>3 DEF RecomputesServed
  <2>1. Served(extra[e], main[e], host, staging[<<e, main[e][j].buffer>>], j)
    BY DEF SingleInv, RecomputesServed
  <2>2. main[e][j].buffer \in Buffers
    <3>1. main[e][j] \in Commands
      BY <1>0 DEF TypeOK
    <3> QED BY <3>1 DEF Commands
  <2>3. CASE e = d
    <3>1. staging'[<<d, m[j].buffer>>] = IF IsLoad(q[1]) /\ q[1].buffer = m[j].buffer
                                         THEN host[q[1].slot] ELSE staging[<<d, m[j].buffer>>]
      BY <2>2, <2>3, <1>1, <1>q
    <3>2. Served(q, m, host, staging[<<d, m[j].buffer>>], j)
      BY <2>1, <2>3, <1>q
    <3>3. Served(Tail(q), m, Copied(q, host), staging'[<<d, m[j].buffer>>], j)
      BY <3>1, <3>2, <1>1, <1>7, <1>8, ServedCopied
    <3> QED BY <3>3, <2>3, <1>1, <1>q
  <2>4. CASE e # d
    <3>1. ASSUME NEW k \in DOMAIN extra[e], extra[e][k].key \in main[e][j].waits,
                 host[extra[e][k].slot] = NodeOf(main[e][j]), host'[extra[e][k].slot] # NodeOf(main[e][j])
          PROVE  FALSE
      <4>q. PICK c : c = extra[e][k]
        OBVIOUS
      <4>1. c \in Commands /\ In(extra, e, c)
        BY <1>0, <4>q, QueueParts DEF In
      <4>2. c.key[3] = "reload" /\ NodeOf(c) = NodeOf(main[e][j])
        BY <3>1, <4>1, <4>q DEF SingleInv, WaitsOwn
      <4>3. IsOffload(w) /\ w.slot = c.slot /\ c.slot \in Slots
        BY <3>1, <4>q, <1>9
      <4>4. Follows(extra, e, NodeOf(c), w.key) \/ After(extra, w.key, c.key)
        BY <4>1, <4>2, <4>3, <1>1, <1>5 DEF OrderInv, ReloadsFirst
      <4>5. ~Follows(extra, e, NodeOf(c), w.key)
        BY <3>1, <4>2, <4>3, <4>q, WritesOver
      <4>6. c.key = w.key
        <5>1. extra[d] # <<>> /\ w = extra[d][1]
          BY <1>1, <1>q
        <5>2. After(extra, extra[d][1].key, c.key)
          BY <5>1, <4>4, <4>5
        <5>3. c.key = extra[d][1].key
          BY <5>1, <5>2, <1>0, <1>5, FirstAlone
        <5> QED BY <5>1, <5>3
      <4> QED BY <4>2, <4>3, <4>6 DEF IsOffload
    <3>2. Served(extra[e], main[e], host', staging[<<e, main[e][j].buffer>>], j)
      BY <2>1, <3>1, ServedHost
    <3> QED BY <3>2, <2>2, <2>4, <1>1, <1>4
  <2> QED BY <2>3, <2>4
<1>12. WaitsOwn'
  BY <1>3 DEF SingleInv, WaitsOwn
<1> QED
  BY <1>3, <1>10, <1>11, <1>12 DEF SingleInv

LEMMA ComputeSingle ==
  ASSUME PoolInv', OrderInv, SingleInv, NEW d \in Devices, Compute(d)
  PROVE  SingleInv'
<1>q. PICK m, p : m = main[d] /\ p = Tail(m)
  OBVIOUS
<1>1. /\ m # <<>> /\ m \in Seq(Commands)
      /\ main'[d] = p /\ \A e \in Devices : e # d => main'[e] = main[e]
  BY <1>q, ComputeTyped DEF OrderInv
<1>2. UNCHANGED <<bufVars, graphVars, epoch, extra, host, staging>>
  BY DEF Compute
<1>3. UNCHANGED <<useDouble, bufferB, ctx, epoch, extra, host, staging>>
  BY <1>2 DEF bufVars, graphVars
<1>4. /\ DOMAIN m = 1..Len(m) /\ DOMAIN p = 1..Len(p) /\ Len(m) \in Nat \ {0} /\ Len(p) = Len(m) - 1
      /\ \A k \in 1..Len(p) : p[k] = m[k + 1]
  BY <1>1, <1>q, Popped
<1>5. ASSUME NEW j \in DOMAIN p
      PROVE  j + 1 \in DOMAIN m /\ p[j] = m[j + 1] /\ j + 1 # 1 /\ (j + 1) - 1 = j
  BY <1>4
<1>6. HostKeptOn'
  <2> SUFFICES ASSUME NEW n \in Nodes, Ours(n)', (At(n)').kept, NEW e \in Devices, e = (At(n)').device
               PROVE  Found(extra[e], host, Len(extra[e]) + 1, (At(n)').slot, n)
    BY <1>3 DEF HostKeptOn, Found, IsOffload, NodeOf
  <2>1. Ours(n) /\ At(n)' = At(n)
    BY <1>3 DEF Ours, Exists, At
  <2> QED BY <2>1 DEF SingleInv, HostKeptOn
<1>7. RecomputesServed'
  <2> SUFFICES ASSUME NEW e \in Devices, NEW j \in DOMAIN main'[e], IsRecompute(main'[e][j])
               PROVE  Served(extra[e], main'[e], host, staging[<<e, main'[e][j].buffer>>], j)
    BY <1>3 DEF RecomputesServed
  <2>1. CASE e = d
    <3>1. j \in DOMAIN p /\ p[j] = m[j + 1] /\ j + 1 \in DOMAIN m /\ j + 1 # 1 /\ (j + 1) - 1 = j
      BY <2>1, <1>1, <1>5
    <3>2. Served(extra[d], m, host, staging[<<d, m[j + 1].buffer>>], j + 1)
      BY <2>1, <3>1, <1>1, <1>q DEF SingleInv, RecomputesServed
    <3>3. Served(extra[d], Tail(m), host, staging[<<d, m[j + 1].buffer>>], (j + 1) - 1)
      BY <3>1, <3>2, <1>1, ServedComputed
    <3> QED BY <2>1, <3>1, <3>3, <1>1, <1>q
  <2>2. CASE e # d
    BY <2>2, <1>1 DEF SingleInv, RecomputesServed
  <2> QED BY <2>1, <2>2
<1>8. WaitsOwn'
  <2> SUFFICES ASSUME NEW e \in Devices, NEW j \in DOMAIN main'[e], IsRecompute(main'[e][j]),
                      NEW c \in Commands, c.key \in main'[e][j].waits
               PROVE  c.key[3] = "reload" /\ NodeOf(c) = NodeOf(main'[e][j])
    BY DEF WaitsOwn
  <2>1. CASE e = d
    <3>1. j + 1 \in DOMAIN main[d] /\ main'[d][j] = main[d][j + 1]
      BY <2>1, <1>1, <1>5, <1>q
    <3> QED BY <2>1, <3>1 DEF SingleInv, WaitsOwn
  <2>2. CASE e # d
    BY <2>2, <1>1 DEF SingleInv, WaitsOwn
  <2> QED BY <2>1, <2>2
<1> QED
  BY <1>3, <1>6, <1>7, <1>8 DEF SingleInv

LEMMA InitSingle ==
  ASSUME ~DoubleAllowed, Init
  PROVE  SingleInv
<1>1. ~useDouble /\ ~bufferB /\ \A d \in Devices : main[d] = <<>>
  BY DEF Init
<1>2. \A n \in Nodes : ~Ours(n)
  <2> SUFFICES ASSUME NEW n \in Nodes PROVE ~Exists(n)
    BY DEF Ours
  <2>1. ctx[n[1]] = <<>>
    BY NodeParts DEF Init
  <2> QED BY <2>1 DEF Exists
<1>3. \A d \in Devices : DOMAIN main[d] = {}
  BY <1>1
<1> QED
  BY <1>1, <1>2, <1>3 DEF SingleInv, HostKeptOn, RecomputesServed, WaitsOwn

LEMMA NextSingle ==
  ASSUME ~DoubleAllowed, PoolInv, PoolInv', OrderInv, SingleInv, [Next]_vars
  PROVE  SingleInv'
<1>1. ASSUME NEW g \in Graphs, NEW d \in Devices, ForwardKept(g, d) PROVE SingleInv'
  <2>1. UNCHANGED <<useDouble, bufferB, main, extra, host, staging>>
    BY <1>1 DEF ForwardKept, bufVars, gpuVars
  <2>2. KeepsPlaces
    BY <1>1, ForwardKeptPlaces
  <2> QED BY <2>1, <2>2, SingleQuiet DEF SingleInv
<1>2. ASSUME NEW g \in Graphs, NEW d \in Devices, NEW s \in Slots, ForwardOffloaded(g, d, s)
      PROVE  SingleInv'
  BY <1>2, ForwardOffloadedSingle
<1>3. ASSUME NEW g \in Graphs, EndForward(g) \/ \E retain \in BOOLEAN : BeginBackward(g, retain)
      PROVE  SingleInv'
  <2>1. UNCHANGED <<bufVars, gpuVars, ctx, poolVars>>
    BY <1>3 DEF EndForward, BeginBackward
  <2>2. UNCHANGED <<useDouble, bufferB, main, extra, host, staging, ctx, epoch>>
    BY <2>1 DEF bufVars, gpuVars, poolVars
  <2>3. KeepsPlaces
    BY <2>2, PlacesSame
  <2> QED BY <2>2, <2>3, SingleQuiet DEF SingleInv
<1>4. ASSUME NEW g \in Graphs, Drop(g) PROVE SingleInv'
  <2>1. UNCHANGED <<useDouble, bufferB, main, extra, host, staging>>
    BY <1>4 DEF Drop, bufVars, gpuVars
  <2>2. KeepsPlaces
    BY <1>4, PlacesDropped DEF OrderInv
  <2> QED BY <2>1, <2>2, SingleQuiet DEF SingleInv
<1>6. CASE BackwardKept
  <2>1. /\ UNCHANGED <<useDouble, bufferB, main, extra, host, staging, epoch>>
        /\ ~Idle /\ NextLayer
    BY <1>6 DEF BackwardKept, bufVars, gpuVars, poolVars
  <2>2. KeepsPlaces
    BY <2>1, OrderStepped DEF OrderInv
  <2> QED BY <2>1, <2>2, SingleQuiet DEF SingleInv
<1>7. CASE BackwardOffloaded
  BY <1>7, BackwardOffloadedSingle
<1>8. CASE Reset
  <2>1. /\ UNCHANGED <<main, extra, host, staging, ctx>> /\ epoch' = epoch + 1
        /\ ~useDouble' /\ ~bufferB'
    BY <1>8 DEF Reset, gpuVars, graphVars, SingleInv
  <2>2. \A n \in Nodes : ~Ours(n)'
    <3> SUFFICES ASSUME NEW n \in Nodes, Ours(n)' PROVE FALSE
      OBVIOUS
    <3>1. Exists(n) /\ At(n).epoch = epoch + 1
      BY <2>1 DEF Ours, Exists, At
    <3>2. At(n).epoch <= epoch /\ epoch \in Nat
      BY <3>1 DEF PoolInv, NodesSound, Typed
    <3> QED BY <3>1, <3>2
  <2>3. KeepsPlaces
    BY <2>2 DEF KeepsPlaces
  <2> QED BY <2>1, <2>3, SingleQuiet
<1>9. ASSUME NEW d \in Devices, Copy(d) PROVE SingleInv'
  BY <1>9, CopySingle
<1>10. ASSUME NEW d \in Devices, Compute(d) PROVE SingleInv'
  BY <1>10, ComputeSingle
<1>11. CASE UNCHANGED vars
  <2>1. UNCHANGED <<bufVars, gpuVars, graphVars, poolVars>>
    BY <1>11 DEF vars
  <2>2. UNCHANGED <<useDouble, bufferB, main, extra, host, staging, ctx, epoch>>
    BY <2>1 DEF bufVars, gpuVars, poolVars, graphVars
  <2>3. KeepsPlaces
    BY <2>2, PlacesSame
  <2> QED BY <2>2, <2>3, SingleQuiet DEF SingleInv
<1> QED
  BY <1>1, <1>2, <1>3, <1>4, <1>6, <1>7, <1>8, <1>9, <1>10, <1>11 DEF Next, CPU

\* Layers on several devices share the host slots: with one buffer per device
\* and one backward through a graph, a recompute reads its own layer's input
\* whatever the other devices' streams do to the slots meanwhile.
THEOREM DevicesReadTheirInput ==
  ASSUME ~DoubleAllowed, MaxPasses = 1
  PROVE  Spec => []RecomputeReadsItsInput
<1>1. Init => OrderInv /\ SingleInv
  BY InitOrder, InitSingle
<1>2. PoolInv /\ PoolInv' /\ (OrderInv /\ SingleInv) /\ [Next]_vars => (OrderInv /\ SingleInv)'
  BY NextOrder, NextSingle
<1>3. OrderInv /\ SingleInv => RecomputeReadsItsInput
  BY ReadsItsInput DEF OrderInv, SingleInv
<1> QED
  BY <1>1, <1>2, <1>3, PoolHolds, PTL DEF Spec
================================================================================
