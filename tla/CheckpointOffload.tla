--------------------------- MODULE CheckpointOffload ---------------------------
(***************************************************************************)
(* UnslothCheckpointFunction of unsloth_zoo/gradient_checkpointing.py.     *)
(* The forward of a checkpointed layer copies its input to a host slot,    *)
(* leased until the layer's backward, which copies it back into a staging  *)
(* buffer of the device and recomputes from there.  The CPU only enqueues: *)
(* each device has a compute stream (main) and a side stream (extra), and  *)
(* waits between the two.  A graph may be kept for a second backward       *)
(* (retain_graph), dropped without one, and several may be pending.        *)
(*                                                                         *)
(* A command has a key, and a wait is the key of the command waited for:   *)
(* it is over when that command is in no stream.                           *)
(***************************************************************************)
EXTENDS Integers, Sequences

CONSTANTS
  Graphs,         \* forwards that may be made, one autograd graph each
  Layers,         \* bound: checkpointed layers of a graph
  MaxSlots,       \* bound: host slots
  Devices,        \* each layer is on one of them
  DoubleAllowed,  \* double buffering is not disabled
  Prefetching,    \* UNSLOTH_GC_PREFETCH
  MaxPasses,      \* bound: backward passes through one graph
  MaxAhead,       \* bound: commands in a stream the CPU is ahead of
  MaxResets       \* bound: resets of the buffers

ASSUME OffloadAssumption ==
  /\ Layers \in Nat \ {0} /\ MaxSlots \in Nat /\ MaxPasses \in Nat \ {0}
  /\ MaxAhead \in Nat \ {0} /\ MaxResets \in Nat
  /\ DoubleAllowed \in BOOLEAN /\ Prefetching \in BOOLEAN

Slots   == 0..(MaxSlots - 1)
Buffers == {0, 1}          \* GPU_BUFFERS and GPU_BUFFERS_B
Nobody  == <<>>
OnDevice == -1             \* the slot of an input that was not offloaded

VARIABLES
  \* the pool of host slots
  free, top, epoch, fences, holder, retained,
  \* globals of the module
  useDouble, bufferB, nextBuffer, backwardPass, firstPass, lastIndex, currentIndex,
  generation, meta, prefetched, lastBackward,
  \* the graphs: where each is, its nodes, backwards begun
  stage, ctx, passes,
  running,    \* the backward being run: graph, next layer, retain_graph
  \* the devices
  main, extra, computed, copied, host, staging

poolVars  == <<free, top, epoch, fences, holder, retained>>
passVars  == <<backwardPass, firstPass, lastIndex, currentIndex>>
bufVars   == <<useDouble, bufferB, nextBuffer>>
preVars   == <<generation, meta, prefetched, lastBackward>>
graphVars == <<stage, ctx, passes, running>>
gpuVars   == <<main, extra, computed, copied, host, staging>>
vars == <<poolVars, passVars, bufVars, preVars, graphVars, gpuVars>>

Nodes == Graphs \X (1..Layers)
Keys  == Graphs \X (1..Layers) \X {"offload", "forward", "reload", "prefetch", "recompute"}
         \X (0..MaxPasses)
Commands == [key : Keys, slot : Slots, buffer : Buffers, waits : SUBSET Keys]
Node == [device : Devices, slot : Slots \cup {OnDevice}, buffer : Buffers, generation : Nat,
         epoch : Nat, leased : BOOLEAN, kept : BOOLEAN]

TypeOK ==
  /\ free \subseteq Slots /\ retained \subseteq Slots
  /\ top \in Nat /\ epoch \in Nat
  /\ fences \in [Slots -> SUBSET (Devices \X Keys)]
  /\ holder \in [Slots -> Nodes \cup {Nobody}]
  /\ useDouble \in BOOLEAN /\ bufferB \in BOOLEAN
  /\ nextBuffer \in [Devices -> Buffers]
  /\ backwardPass \in BOOLEAN /\ firstPass \in BOOLEAN
  /\ lastIndex \in Nat /\ currentIndex \in Nat /\ generation \in Nat
  /\ stage \in [Graphs -> {"forward", "ready", "gone"}]
  /\ ctx \in [Graphs -> Seq(Node)]
  /\ passes \in [Graphs -> 0..MaxPasses]
  /\ running \in [graph : Graphs, layer : 1..Layers, retain : BOOLEAN] \cup {Nobody}
  /\ main \in [Devices -> Seq(Commands)] /\ extra \in [Devices -> Seq(Commands)]
  /\ computed \in [Devices \X Buffers -> SUBSET Keys]
  /\ copied \in [Devices \X Buffers -> SUBSET Keys]
  /\ host \in [Slots -> Nodes \cup {Nobody}]
  /\ staging \in [Devices \X Buffers -> Nodes \cup {Nobody}]

NoFences  == [s \in Slots |-> {}]
NoHolders == [s \in Slots |-> Nobody]
NoneAhead == [d \in Devices |-> Nobody]
FirstIsA  == [d \in Devices |-> 0]

\* initialize_unsloth_gradient_checkpointing
Init ==
  /\ free = {} /\ retained = {} /\ top = 0 /\ epoch = 0
  /\ fences = NoFences /\ holder = NoHolders
  /\ useDouble = FALSE /\ bufferB = DoubleAllowed
  /\ nextBuffer = FirstIsA
  /\ backwardPass = TRUE /\ firstPass = TRUE /\ lastIndex = 0 /\ currentIndex = 0
  /\ generation = 0 /\ meta = <<>> /\ lastBackward = Nobody
  /\ prefetched = NoneAhead
  /\ stage = [g \in Graphs |-> "forward"]
  /\ ctx = [g \in Graphs |-> <<>>] /\ passes = [g \in Graphs |-> 0]
  /\ running = Nobody
  /\ main = [d \in Devices |-> <<>>] /\ extra = [d \in Devices |-> <<>>]
  /\ computed = [x \in Devices \X Buffers |-> {}]
  /\ copied = [x \in Devices \X Buffers |-> {}]
  /\ host = [s \in Slots |-> Nobody]
  /\ staging = [x \in Devices \X Buffers |-> Nobody]

-----------------------------------------------------------------------------
(* The pool of host slots. *)

\* _graph_retained: the node is alive and its saved tensors were not freed.
GraphRetained(n) == n # Nobody /\ n[2] \in DOMAIN ctx[n[1]] /\ ctx[n[1]][n[2]].kept

NeverReclaimed == {}                                              \* mutant

\* _reclaim_retained_slots
Reclaimed == {s \in retained : ~GraphRetained(holder[s])}

NeverHeld(s) == FALSE                                             \* mutant
StillHeld(s) == GraphRetained(holder[s])

Usable  == {s \in free \cup Reclaimed : ~StillHeld(s)}

\* The slot a lease takes: the lowest usable one, a new one if there is none.
Leasable(s) ==
  \/ s \in Usable /\ \A t \in Usable : s <= t
  \/ s = top /\ Usable = {}

\* Free slots passed over because their graph may be run again.
Skipped(s) == {t \in free : StillHeld(t) /\ t < s}

\* _CpuSlotLease
Lease(s) ==
  /\ Leasable(s)
  /\ free' = (free \cup Reclaimed) \ (Skipped(s) \cup {s})
  /\ retained' = (retained \ Reclaimed) \cup Skipped(s)
  /\ holder' = [t \in Slots |-> IF t \in Reclaimed \cup {s} THEN Nobody ELSE holder[t]]
  /\ fences' = [fences EXCEPT ![s] = {}]
  /\ top' = IF Usable = {} THEN top + 1 ELSE top
  /\ UNCHANGED epoch

\* A slot last released on another device is not written before that
\* device's side stream has reached the release.
Fence(s, d) == {f[2] : f \in {x \in fences[s] : x[1] # d}}

LastKey(q) == IF q = <<>> THEN {} ELSE {q[Len(q)].key}

EvenStale(g, ns) == {l \in ns : ctx[g][l].leased}                 \* mutant

\* A lease of before a reset gives nothing back.
GivenBack(g, ns) == {l \in ns : ctx[g][l].leased /\ ctx[g][l].epoch = epoch}

\* release() of the leases of the nodes ns of a graph, the side streams being
\* queues: the slots are free, and remember who gave them back.
Release(g, ns, queues, by) ==
  LET given == GivenBack(g, ns)
      slots == {ctx[g][l].slot : l \in given}
      Ends(s) == UNION {{ctx[g][l].device} \X LastKey(queues[ctx[g][l].device])
                          : l \in {k \in given : ctx[g][k].slot = s}}
  IN  /\ free' = free \cup slots
      /\ fences' = [s \in Slots |-> IF s \in slots THEN Ends(s) ELSE fences[s]]
      /\ holder' = [s \in Slots |-> IF s \in slots THEN by ELSE holder[s]]
      /\ UNCHANGED <<top, epoch, retained>>

-----------------------------------------------------------------------------
(* Forward. *)

Command(g, l, op, slot, buffer, waits) ==
  [key |-> <<g, l, op, passes[g]>>, slot |-> slot, buffer |-> buffer, waits |-> waits]

Idle == running = Nobody

\* Double buffering is turned on at the first offload after a backward when
\* the device has memory to spare; buffer B goes when it has not.
Buffering(newGraph) ==
  LET decide == newGraph /\ ~firstPass /\ ~useDouble /\ bufferB
  IN  \/ ~decide /\ UNCHANGED <<useDouble, bufferB>>
      \/ decide /\ useDouble' = TRUE /\ UNCHANGED bufferB
      \/ bufferB /\ useDouble' = FALSE /\ bufferB' = FALSE

\* _reset_gc_prefetch_state, at the first offload of a new graph.
KnownMeta == IF backwardPass THEN <<>> ELSE meta

Padded(m, n) == [k \in 1..(IF Len(m) < n THEN n ELSE Len(m)) |-> IF k <= Len(m) THEN m[k] ELSE Nobody]

\* The record of slot s, at its index.
Recorded(m, s, record) == [Padded(m, s + 1) EXCEPT ![s + 1] = record]

\* Is the input of the next layer offloaded?  Not that of the last layer,
\* known by its number after the first pass.
Offloads == firstPass \/ currentIndex + 1 # lastIndex

Advance ==
  /\ lastIndex' = IF firstPass THEN lastIndex + 1 ELSE lastIndex
  /\ currentIndex' = currentIndex + 1
  /\ UNCHANGED firstPass

AddNode(g, node) ==
  /\ Len(ctx[g]) < Layers
  /\ ctx' = [ctx EXCEPT ![g] = Append(@, node)]
  /\ UNCHANGED <<passes, running>>

\* A layer whose input stays on the device.
ForwardKept(g, d) ==
  /\ Idle /\ stage[g] = "forward" /\ ~Offloads
  /\ Advance /\ UNCHANGED backwardPass
  /\ AddNode(g, [device |-> d, slot |-> OnDevice, buffer |-> 0, generation |-> generation,
                 epoch |-> epoch, leased |-> FALSE, kept |-> TRUE])
  /\ UNCHANGED <<poolVars, bufVars, preVars, stage, gpuVars>>

\* The input is copied by the side stream after what the compute stream has
\* been given so far, which then waits for the copy behind the layer's kernels.
ForwardOffloaded(g, d, s) ==
  LET l == Len(ctx[g]) + 1
      b == nextBuffer[d]
      copy == Command(g, l, "offload", s, b, LastKey(main[d]) \cup Fence(s, d))
  IN  /\ Idle /\ stage[g] = "forward" /\ Offloads
      /\ Len(main[d]) < MaxAhead /\ Len(extra[d]) < MaxAhead
      /\ Advance /\ backwardPass' = FALSE
      /\ Buffering(backwardPass)
      /\ Lease(s)
      /\ generation' = IF backwardPass THEN generation + 1 ELSE generation
      /\ meta' = Recorded(KnownMeta, s, <<generation', d, b>>)
      /\ lastBackward' = IF backwardPass THEN Nobody ELSE lastBackward
      /\ prefetched' = IF backwardPass THEN NoneAhead ELSE prefetched
      /\ nextBuffer' = [nextBuffer EXCEPT ![d] = 1 - @]
      /\ AddNode(g, [device |-> d, slot |-> s, buffer |-> b, generation |-> generation',
                     epoch |-> epoch, leased |-> TRUE, kept |-> TRUE])
      /\ extra' = [extra EXCEPT ![d] = Append(@, copy)]
      /\ main' = [main EXCEPT ![d] = Append(@, Command(g, l, "forward", s, b, {copy.key}))]
      /\ UNCHANGED <<stage, computed, copied, host, staging>>

EndForward(g) ==
  /\ Idle /\ stage[g] = "forward" /\ ctx[g] # <<>>
  /\ stage' = [stage EXCEPT ![g] = "ready"]
  /\ UNCHANGED <<poolVars, passVars, bufVars, preVars, ctx, passes, running, gpuVars>>

-----------------------------------------------------------------------------
(* Backward. *)

OnlyOwnBuffer(d, b) == {}                                         \* mutant

\* event_buffer: the last recompute from this buffer, in double buffering.
LastCompute(d, b) == computed[<<d, b>>]

Offloaded(n) == ctx[n[1]][n[2]].slot # OnDevice

BeginBackward(g, retain) ==
  /\ Idle /\ stage[g] = "ready" /\ passes[g] < MaxPasses
  /\ retain => passes[g] + 1 < MaxPasses
  /\ \A l \in DOMAIN ctx[g] : ctx[g][l].epoch = epoch /\ ctx[g][l].kept
  /\ passes' = [passes EXCEPT ![g] = @ + 1]
  /\ running' = [graph |-> g, layer |-> Len(ctx[g]), retain |-> retain]
  /\ UNCHANGED <<poolVars, passVars, bufVars, preVars, stage, ctx, gpuVars>>

\* The nodes of a graph that is not kept lose their tensors one by one.
NextLayer ==
  LET g == running.graph
      l == running.layer
  IN  /\ running' = IF l = 1 THEN Nobody ELSE [running EXCEPT !.layer = l - 1]
      /\ ctx' = [ctx EXCEPT ![g][l].kept = running.retain, ![g][l].leased = FALSE]
      /\ UNCHANGED <<stage, passes>>

SawBackward ==
  /\ backwardPass' = TRUE /\ firstPass' = FALSE /\ currentIndex' = 0
  /\ UNCHANGED lastIndex

\* A layer whose input stayed on the device.
BackwardKept ==
  /\ ~Idle /\ ~Offloaded(<<running.graph, running.layer>>)
  /\ NextLayer /\ SawBackward
  /\ UNCHANGED <<poolVars, bufVars, preVars, gpuVars>>

AnyPrefetched(d, record) == prefetched[d] # Nobody                \* mutant

\* _take_prefetched
Prefetched(d, record) == prefetched[d] = record

\* The next input is reloaded ahead along a chain of neighbouring slots only.
InChain(c) ==
  \/ lastBackward = <<c.generation, c.slot + 1>>
  \/ (lastBackward = Nobody \/ lastBackward[1] # c.generation) /\ c.slot = Len(meta) - 1

\* _prefetch_offloaded_input: of this graph and device, into the other buffer.
MayPrefetch(c, d, s) ==
  /\ s \in 0..(Len(meta) - 1)
  /\ meta[s + 1] # Nobody /\ meta[s + 1][1] = c.generation /\ meta[s + 1][2] = d
  /\ meta[s + 1][3] # c.buffer

\* The side stream copies the input back once the buffer is free, the compute
\* stream waits for that copy and recomputes; the slot is released.  A prefetch
\* that meets an error before its copy is queued is not issued.
QueueReload(issues) ==
  LET g == running.graph
      l == running.layer
      c == ctx[g][l]
      d == c.device
      b == IF useDouble THEN c.buffer ELSE 0
      before == IF useDouble THEN LastCompute(d, c.buffer) ELSE LastKey(main[d])
      reload == Command(g, l, "reload", c.slot, b, before)
      uses   == Prefetching /\ useDouble
      hit    == uses /\ Prefetched(d, <<c.generation, c.slot, c.buffer>>)
      s      == c.slot - 1
      ahead  == issues /\ uses /\ InChain(c) /\ MayPrefetch(c, d, s)
      next   == Command(g, l, "prefetch", s, 1 - c.buffer, LastCompute(d, 1 - c.buffer))
      queue  == extra[d] \o (IF hit THEN <<>> ELSE <<reload>>) \o (IF ahead THEN <<next>> ELSE <<>>)
      copies == [x \in Devices \X Buffers |->
                   IF uses /\ ~hit /\ x = <<d, c.buffer>> THEN {reload.key}
                   ELSE IF ahead /\ x = <<d, 1 - c.buffer>> THEN {next.key}
                   ELSE copied[x]]
      kernel == Command(g, l, "recompute", c.slot, b,
                        IF uses THEN copies[<<d, c.buffer>>] ELSE LastKey(queue))
  IN  /\ Len(main[d]) < MaxAhead /\ Len(extra[d]) < MaxAhead
      /\ extra' = [extra EXCEPT ![d] = queue]
      /\ copied' = copies
      /\ main' = [main EXCEPT ![d] = Append(@, kernel)]
      /\ computed' = IF useDouble THEN [computed EXCEPT ![<<d, c.buffer>>] = {kernel.key}] ELSE computed
      /\ prefetched' = IF uses THEN [prefetched EXCEPT ![d] =
                                       IF ahead THEN <<c.generation, s, 1 - c.buffer>> ELSE Nobody]
                               ELSE prefetched
      /\ lastBackward' = IF uses THEN <<c.generation, c.slot>> ELSE lastBackward
      /\ Release(g, {l}, extra', <<g, l>>)

BackwardOffloaded ==
  /\ ~Idle /\ Offloaded(<<running.graph, running.layer>>)
  /\ \E issues \in BOOLEAN : QueueReload(issues)
  /\ NextLayer /\ SawBackward
  /\ UNCHANGED <<bufVars, generation, meta, host, staging>>

\* A graph is freed, after its backward, instead of one, or by an exception
\* in one: leases never given back are given back by their finalizers.
Drop(g) ==
  /\ ctx[g] # <<>>
  /\ stage' = [stage EXCEPT ![g] = "gone"]
  /\ ctx' = [ctx EXCEPT ![g] = <<>>]
  /\ Release(g, DOMAIN ctx[g], extra, Nobody)
  /\ running' = IF ~Idle /\ running.graph = g THEN Nobody ELSE running
  /\ UNCHANGED <<passVars, bufVars, preVars, passes, gpuVars>>

\* reset_unsloth_gradient_checkpointing_buffers, when training has ended.
Reset ==
  /\ Idle /\ epoch < MaxResets
  /\ \A g \in Graphs : stage[g] = "forward" => ctx[g] = <<>>
  /\ \A d \in Devices : main[d] = <<>> /\ extra[d] = <<>>
  /\ free' = {} /\ retained' = {} /\ top' = 0 /\ epoch' = epoch + 1
  /\ fences' = NoFences /\ holder' = NoHolders
  /\ backwardPass' = TRUE /\ firstPass' = TRUE /\ lastIndex' = 0 /\ currentIndex' = 0
  /\ useDouble' = FALSE /\ bufferB' \in {bufferB, DoubleAllowed}
  /\ nextBuffer' = FirstIsA
  /\ meta' = <<>> /\ lastBackward' = Nobody
  /\ prefetched' = NoneAhead
  /\ UNCHANGED <<generation, graphVars, gpuVars>>

-----------------------------------------------------------------------------
(* The devices. *)

Pending == UNION {{q[k].key : k \in DOMAIN q} : q \in {main[d] : d \in Devices} \cup {extra[d] : d \in Devices}}

Runnable(q) == q # <<>> /\ Head(q).waits \cap Pending = {}

\* The events that follow the command of this key are complete.
Complete(key) ==
  /\ computed' = [x \in Devices \X Buffers |-> computed[x] \ {key}]
  /\ copied' = [x \in Devices \X Buffers |-> copied[x] \ {key}]
  /\ fences' = [s \in Slots |-> {f \in fences[s] : f[2] # key}]

Copy(d) ==
  /\ Runnable(extra[d])
  /\ extra' = [extra EXCEPT ![d] = Tail(@)]
  /\ LET c == Head(extra[d])
     IN  /\ \/ /\ c.key[3] = "offload"
               /\ host' = [host EXCEPT ![c.slot] = <<c.key[1], c.key[2]>>]
               /\ UNCHANGED staging
            \/ /\ c.key[3] \in {"reload", "prefetch"}
               /\ staging' = [staging EXCEPT ![<<d, c.buffer>>] = host[c.slot]]
               /\ UNCHANGED host
         /\ Complete(c.key)
  /\ UNCHANGED <<free, top, epoch, holder, retained, passVars, bufVars, preVars, graphVars, main>>

Compute(d) ==
  /\ Runnable(main[d])
  /\ main' = [main EXCEPT ![d] = Tail(@)]
  /\ Complete(Head(main[d]).key)
  /\ UNCHANGED <<free, top, epoch, holder, retained, passVars, bufVars, preVars, graphVars,
                 extra, host, staging>>

-----------------------------------------------------------------------------
CPU ==
  \/ \E g \in Graphs : \/ \E d \in Devices : \/ ForwardKept(g, d)
                                             \/ \E s \in Slots : ForwardOffloaded(g, d, s)
                       \/ EndForward(g) \/ Drop(g)
                       \/ \E retain \in BOOLEAN : BeginBackward(g, retain)
  \/ BackwardKept \/ BackwardOffloaded \/ Reset

Next == CPU \/ \E d \in Devices : Copy(d) \/ Compute(d)

Spec == Init /\ [][Next]_vars

-----------------------------------------------------------------------------
(* What training relies on. *)

NodeOf(c) == <<c.key[1], c.key[2]>>

\* A recompute reads the input its own layer was given in the forward,
\* whatever was offloaded, reloaded or prefetched since.
RecomputeReadsItsInput ==
  \A d \in Devices :
    Runnable(main[d]) /\ Head(main[d]).key[3] = "recompute"
      => staging[<<d, Head(main[d]).buffer>>] = NodeOf(Head(main[d]))

Readable == {n \in Nodes : /\ n[2] \in DOMAIN ctx[n[1]]
                           /\ ctx[n[1]][n[2]].kept /\ ctx[n[1]][n[2]].epoch = epoch
                           /\ ctx[n[1]][n[2]].slot # OnDevice}

SlotOf(n) == ctx[n[1]][n[2]].slot

\* Two nodes a backward may still run never share a host slot.
ReadersApart == \A m, n \in Readable : SlotOf(m) = SlotOf(n) => m = n

LeasedSlots == {SlotOf(n) : n \in {m \in Readable : ctx[m[1]][m[2]].leased}}

\* Every slot ever handed out is leased, held for a graph, or free again, and
\* only one of these.
NoSlotLost ==
  /\ 0..(top - 1) = free \cup retained \cup LeasedSlots
  /\ free \cap retained = {} /\ (free \cup retained) \cap LeasedSlots = {}

\* The pool grows only when all its slots are needed by a backward to come.
GrowsWhenNeeded ==
  [][top' > top => \A s \in 0..(top - 1) : \E n \in Readable : SlotOf(n) = s]_vars

-----------------------------------------------------------------------------
(* What comments say of this code. *)

\* "safe to reuse now unless the graph is retained": no offload that can run
\* overwrites an input in a slot that a queued reload has still to read.
SafeToReuse ==
  \A d, e \in Devices : \A k \in DOMAIN extra[e] :
    LET w == Head(extra[d])
        r == extra[e][k]
    IN  Runnable(extra[d]) /\ w.key[3] = "offload" /\ r.key[3] = "reload"
          => w.slot # r.slot \/ host[r.slot] # NodeOf(r)

\* "Per-buffer events prevent double-buffering races": no reload that can run
\* overwrites an input in a buffer that a queued recompute has still to read.
BufferEventsSuffice ==
  \A d \in Devices : \A k \in DOMAIN main[d] :
    LET w == Head(extra[d])
        r == main[d][k]
    IN  Runnable(extra[d]) /\ w.key[3] = "reload" /\ r.key[3] = "recompute"
          => w.buffer # r.buffer \/ staging[<<d, r.buffer>>] # NodeOf(r) \/ NodeOf(r) = NodeOf(w)
=============================================================================
