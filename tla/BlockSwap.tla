------------------------------ MODULE BlockSwap ------------------------------
(***************************************************************************)
(* BlockSwap of unsloth_zoo/block_swap.py: the weights of some layers live *)
(* on the host and are copied into a small pool of device slots just ahead *)
(* of the kernels that read them.  The hooks run on the CPU, which only    *)
(* enqueues: kernels on the compute stream, copies on the copy stream,     *)
(* with one event per block and one wait per prefetch between the two.     *)
(*                                                                         *)
(* Blocks are numbered from 1 in layer order.  The weights in a slot are   *)
(* named by the block they belong to.  A hook is expanded into the list    *)
(* todo of the pool operations it performs, which the CPU carries out one  *)
(* by one while the device proceeds; nothing else runs on the CPU then.    *)
(***************************************************************************)
EXTENDS Integers, Sequences, FiniteSets

CONSTANTS
  N,          \* number of swapped blocks
  Depth,      \* prefetch_depth, at least 1
  Sigs,       \* signatures: shapes, types and devices of a block's weights
  MaxAhead,   \* bound: commands in a stream the CPU is ahead of
  Nested      \* whether a no-grad pass may come before a plain backward

ASSUME SizeAssumption == N \in Nat \ {0} /\ Depth \in Nat \ {0} /\ MaxAhead \in Nat \ {0}
ASSUME NestedAssumption == Nested \in BOOLEAN

Blocks == 1..N
Slots  == Sigs \X Blocks
NoSlot == <<>>

VARIABLES
  sig,        \* signature of each block
  firstGrad,  \* first block whose output requires grad (frozen ones below)
  slot,       \* the slot a block's weights are in, NoSlot when evicted
  pending,    \* ran with grad on, its backward has not been run
  free,       \* per signature: the free slots, a stack
  made,       \* per signature: slots allocated so far
  todo,       \* what is left of the hook being run
  pass, sweep, at, step,    \* the pass being run, where it is
  graph,      \* the autograd graph alive after a forward
  saved,      \* the slot each block's graph node will read in backward
  compute, copies, copying, \* the two streams; the head copy has started
  event,      \* copies before and up to the one a block's event follows
  data,       \* the block whose weights a slot holds, 0 for none or torn
  disturbed   \* history: some pass was plain, interrupted or reset

poolVars   == <<slot, pending, free, made>>
driverVars == <<pass, sweep, at, step, graph, saved, disturbed>>
gpuVars    == <<compute, copies, copying, event, data>>
fixedVars  == <<sig, firstGrad>>
vars == <<fixedVars, poolVars, todo, driverVars, gpuVars>>

\* infer: eval mode, grad off, by the hooks or by enter/leave of the decode
\* loop; ref: training mode, grad off; ckpt: each layer checkpointed; plain:
\* grad on in the forward.
Passes == {"infer", "ref", "ckpt", "plain"}

Count(s) == Cardinality({b \in Blocks : sig[b] = s})
Smaller(x, y) == IF x < y THEN x ELSE y
PoolSize(s) == Smaller(Depth + 1, Count(s))

Op(what, b) == [op |-> what, block |-> b]
Ops == [op : {"fetch", "steal", "wait", "release"}, block : Blocks]

TypeOK ==
  /\ sig \in [Blocks -> Sigs]
  /\ firstGrad \in Blocks
  /\ slot \in [Blocks -> Slots \cup {NoSlot}]
  /\ pending \in [Blocks -> BOOLEAN]
  /\ free \in [Sigs -> Seq(Slots)]
  /\ made \in [Sigs -> 0..N]
  /\ todo \in Seq(Ops)
  /\ pass \in Passes \cup {"none"}
  /\ sweep \in {"forward", "backward"}
  /\ at \in Blocks
  /\ step \in {"pre", "run", "post", "back", "bwd"}
  /\ graph \in {"none", "ckpt", "plain"}
  /\ saved \in [Blocks -> Slots \cup {NoSlot}]
  /\ compute \in Seq([block : Blocks, slot : Slots \cup {NoSlot}, needs : Nat])
  /\ copies \in Seq([block : Blocks, slot : Slots, after : Nat])
  /\ copying \in BOOLEAN
  /\ event \in [Blocks -> Nat]
  /\ data \in [Slots -> 0..N]
  /\ disturbed \in BOOLEAN

\* _arm: fetch the first blocks of the next forward.
Arm == [b \in 1..Smaller(Depth, N) |-> Op("fetch", b)]

\* The constructor packs and evicts every block, fills the pool and arms.
Init ==
  /\ sig \in [Blocks -> Sigs]
  /\ firstGrad \in Blocks
  /\ slot = [b \in Blocks |-> NoSlot] /\ pending = [b \in Blocks |-> FALSE]
  /\ free = [s \in Sigs |-> [k \in 1..PoolSize(s) |-> <<s, k>>]]
  /\ made = [s \in Sigs |-> PoolSize(s)]
  /\ todo = Arm
  /\ pass = "none" /\ sweep = "forward" /\ at = 1 /\ step = "pre"
  /\ graph = "none" /\ saved = [b \in Blocks |-> NoSlot]
  /\ compute = <<>> /\ copies = <<>> /\ copying = FALSE
  /\ event = [b \in Blocks |-> 0]
  /\ data = [s \in Slots |-> 0]
  /\ disturbed = FALSE

-----------------------------------------------------------------------------
(* The pool: what one operation of a hook does. *)

Resident(b) == slot[b] # NoSlot

Next1(what) ==
  /\ todo # <<>> /\ Head(todo).op \in what
  /\ todo' = Tail(todo)

\* stream.wait_stream(current_stream) and event.record(stream): the copy
\* waits for all kernels enqueued so far, the event follows the copy.
CopyWaitsForNothing == 0                              \* mutant
CopyWaitsFor == Len(compute)

EventBeforeNextCopy == Len(copies) + 2                \* mutant
EventFollows == Len(copies) + 1

\* prefetch
EnqueueCopy(b, s) ==
  /\ Len(copies) < MaxAhead
  /\ copies' = Append(copies, [block |-> b, slot |-> s, after |-> CopyWaitsFor])
  /\ event' = [event EXCEPT ![b] = EventFollows]
  /\ UNCHANGED <<compute, copying, data>>

\* _fetch of a resident block, or without a slot to prefetch into.
SkipFetch ==
  /\ Next1({"fetch", "steal"})
  /\ LET b == Head(todo).block
     IN  Resident(b) \/ (Head(todo).op = "fetch" /\ free[sig[b]] = <<>>)
  /\ UNCHANGED <<fixedVars, poolVars, driverVars, gpuVars>>

FetchFree ==
  /\ Next1({"fetch", "steal"})
  /\ LET b     == Head(todo).block
         stack == free[sig[b]]
     IN  /\ ~Resident(b) /\ stack # <<>>
         /\ slot' = [slot EXCEPT ![b] = stack[Len(stack)]]
         /\ free' = [free EXCEPT ![sig[b]] = SubSeq(stack, 1, Len(stack) - 1)]
         /\ EnqueueCopy(b, stack[Len(stack)])
  /\ UNCHANGED <<fixedVars, pending, made, driverVars>>

VictimsPendingToo(b) ==                               \* mutant
  {v \in Blocks : v # b /\ sig[v] = sig[b] /\ Resident(v)}

\* Blocks whose slot may be taken for b: never one that backward still reads.
Victims(b) == {v \in Blocks : v # b /\ sig[v] = sig[b] /\ Resident(v) /\ ~pending[v]}

TakenNotEvicted(b, v) == [slot EXCEPT ![b] = slot[v]]            \* mutant

Taken(b, v) == [slot EXCEPT ![b] = slot[v], ![v] = NoSlot]

\* Only for the block about to run.
Steal ==
  /\ Next1({"steal"})
  /\ LET b == Head(todo).block
     IN  /\ ~Resident(b) /\ free[sig[b]] = <<>>
         /\ \E v \in Victims(b) :
              /\ \A w \in Victims(b) : v <= w
              /\ slot' = Taken(b, v)
              /\ EnqueueCopy(b, slot[v])
  /\ UNCHANGED <<fixedVars, pending, free, made, driverVars>>

\* The pool grows when backward still reads all the other slots.
Grow ==
  /\ Next1({"steal"})
  /\ LET b == Head(todo).block
         s == <<sig[b], made[sig[b]] + 1>>
     IN  /\ ~Resident(b) /\ free[sig[b]] = <<>> /\ Victims(b) = {}
         /\ slot' = [slot EXCEPT ![b] = s]
         /\ made' = [made EXCEPT ![sig[b]] = @ + 1]
         /\ EnqueueCopy(b, s)
  /\ UNCHANGED <<fixedVars, pending, free, driverVars>>

\* The compute stream waits for the block's event.
Wait ==
  /\ Next1({"wait"}) /\ Len(compute) < MaxAhead
  /\ LET b == Head(todo).block
     IN  compute' = Append(compute, [block |-> b, slot |-> NoSlot, needs |-> event[b]])
  /\ UNCHANGED <<fixedVars, poolVars, driverVars, copies, copying, event, data>>

ReturnedNowhere(b) == free                                       \* mutant

Returned(b) == [free EXCEPT ![sig[b]] = Append(@, slot[b])]

\* _release: an evicted block's slot goes back to the pool of its signature.
Release ==
  /\ Next1({"release"})
  /\ LET b == Head(todo).block
     IN  /\ slot' = [slot EXCEPT ![b] = NoSlot]
         /\ pending' = IF Resident(b) THEN [pending EXCEPT ![b] = FALSE] ELSE pending
         /\ free' = IF Resident(b) THEN Returned(b) ELSE free
  /\ UNCHANGED <<fixedVars, made, driverVars, gpuVars>>

Pool == SkipFetch \/ FetchFree \/ Steal \/ Grow \/ Wait \/ Release

-----------------------------------------------------------------------------
(* The device: each stream executes its commands in order. *)

Less(n) == IF n = 0 THEN 0 ELSE n - 1

\* A wait that is satisfied, or a kernel, which reads its slot.
RunKernel ==
  /\ compute # <<>> /\ Head(compute).needs = 0
  /\ compute' = Tail(compute)
  /\ copies' = [k \in DOMAIN copies |-> [copies[k] EXCEPT !.after = Less(@)]]
  /\ UNCHANGED <<fixedVars, poolVars, todo, driverVars, copying, event, data>>

\* While a copy is under way its slot holds the weights of no block.
StartCopy ==
  /\ copies # <<>> /\ ~copying /\ Head(copies).after = 0
  /\ copying' = TRUE
  /\ data' = [data EXCEPT ![Head(copies).slot] = 0]
  /\ UNCHANGED <<fixedVars, poolVars, todo, driverVars, compute, copies, event>>

FinishCopy ==
  /\ copying
  /\ copying' = FALSE
  /\ data' = [data EXCEPT ![Head(copies).slot] = Head(copies).block]
  /\ copies' = Tail(copies)
  /\ event' = [b \in Blocks |-> Less(event[b])]
  /\ compute' = [k \in DOMAIN compute |-> [compute[k] EXCEPT !.needs = Less(@)]]
  /\ UNCHANGED <<fixedVars, poolVars, todo, driverVars>>

Device == RunKernel \/ StartCopy \/ FinishCopy

-----------------------------------------------------------------------------
(* The hooks, in the order a pass over the layers calls them. *)

KeepsWeightsInCheckpoint == pass \in {"plain", "ckpt"}            \* mutant

\* _autograd_keeps_weights: also off in the forward of a checkpoint.
KeepsWeights == pass = "plain" \/ (pass = "ckpt" /\ sweep = "backward")

Training == pass # "infer"

NeedsGrad(b) == b >= firstGrad

Begin(p) ==
  /\ pass = "none" /\ todo = <<>>
  /\ \/ graph = "none"
     \/ p \in {"infer", "ref"} /\ (graph = "ckpt" \/ Nested)
  /\ pass' = p /\ sweep' = "forward" /\ at' = 1 /\ step' = "pre"
  /\ disturbed' = (disturbed \/ p = "plain")
  /\ UNCHANGED <<fixedVars, poolVars, todo, graph, saved, gpuVars>>

\* Loss and backward of the graph a forward left behind.
BeginBackward ==
  /\ pass = "none" /\ todo = <<>> /\ graph # "none"
  /\ pass' = graph /\ sweep' = "backward" /\ at' = N
  /\ step' = IF graph = "ckpt" THEN "pre" ELSE "back"
  /\ UNCHANGED <<fixedVars, poolVars, todo, graph, saved, disturbed, gpuVars>>

MustFetch(b) == <<Op("steal", b), Op("wait", b)>>

\* The forward pre-hook, and enter(): make the block resident, wait for its
\* weights, prefetch the block Depth further in the direction of travel.
Pre ==
  /\ pass # "none" /\ step = "pre" /\ todo = <<>>
  /\ LET next == IF KeepsWeights THEN at - Depth ELSE at + Depth
     IN  todo' = MustFetch(at)
                 \o (IF next \in Blocks THEN <<Op("fetch", next)>> ELSE <<>>)
  /\ step' = "run"
  /\ UNCHANGED <<fixedVars, poolVars, pass, sweep, at, graph, saved, disturbed, gpuVars>>

\* The layer's kernels are launched; with grad on, autograd keeps the slot.
Run ==
  /\ pass # "none" /\ step = "run" /\ todo = <<>> /\ Len(compute) < MaxAhead
  /\ compute' = Append(compute, [block |-> at, slot |-> slot[at], needs |-> 0])
  /\ saved' = IF KeepsWeights /\ NeedsGrad(at) THEN [saved EXCEPT ![at] = slot[at]] ELSE saved
  /\ step' = "post"
  /\ UNCHANGED <<fixedVars, poolVars, todo, pass, sweep, at, graph, disturbed,
                 copies, copying, event, data>>

\* The forward hook, and leave(): release the block, or mark it pending when
\* autograd keeps its weights.  The last blocks of a training forward stay
\* for the recompute; an inference pass arms the next one.
Post ==
  /\ pass # "none" /\ step = "post" /\ todo = <<>>
  /\ LET keep    == ~KeepsWeights /\ Training /\ at > N - Depth
         release == ~keep /\ ~(KeepsWeights /\ NeedsGrad(at))
     IN  todo' = (IF release THEN <<Op("release", at)>> ELSE <<>>)
                 \o (IF pass = "infer" /\ at = N THEN Arm ELSE <<>>)
  /\ pending' = IF KeepsWeights /\ NeedsGrad(at) THEN [pending EXCEPT ![at] = TRUE] ELSE pending
  /\ \/ /\ sweep = "backward"
        /\ step' = "back" /\ UNCHANGED <<pass, at, graph>>
     \/ /\ sweep = "forward" /\ at < N
        /\ at' = at + 1 /\ step' = "pre" /\ UNCHANGED <<pass, graph>>
     \/ /\ sweep = "forward" /\ at = N
        /\ pass' = "none" /\ at' = 1 /\ step' = "pre"
        /\ graph' = IF pass \in {"ckpt", "plain"} THEN pass ELSE graph
  /\ UNCHANGED <<fixedVars, slot, free, made, sweep, saved, disturbed, gpuVars>>

\* The block's backward kernels read what autograd kept.
Back ==
  /\ pass # "none" /\ step = "back" /\ todo = <<>> /\ Len(compute) < MaxAhead
  /\ compute' = Append(compute, [block |-> at, slot |-> saved[at], needs |-> 0])
  /\ step' = "bwd"
  /\ UNCHANGED <<fixedVars, poolVars, todo, pass, sweep, at, graph, saved, disturbed,
                 copies, copying, event, data>>

\* The gradient hook on the block's input, or the callback at the end of the
\* backward for the first block with a gradient.
Bwd ==
  /\ pass # "none" /\ step = "bwd" /\ todo = <<>>
  /\ todo' = <<Op("release", at)>> \o (IF at = 1 THEN Arm ELSE <<>>)
  /\ saved' = [saved EXCEPT ![at] = NoSlot]
  /\ IF at > firstGrad
       THEN /\ at' = at - 1 /\ step' = IF pass = "ckpt" THEN "pre" ELSE "back"
            /\ UNCHANGED <<pass, graph>>
       ELSE pass' = "none" /\ graph' = "none" /\ at' = 1 /\ step' = "pre"
  /\ UNCHANGED <<fixedVars, poolVars, sweep, disturbed, gpuVars>>

\* An exception, in a layer or a hook, or a graph that is simply dropped:
\* the pool is left as it is and no backward hook will run.
Interrupt ==
  /\ pass # "none" \/ graph # "none"
  /\ pass' = "none" /\ at' = 1 /\ step' = "pre" /\ todo' = <<>>
  /\ graph' = "none" /\ saved' = [b \in Blocks |-> NoSlot]
  /\ disturbed' = TRUE
  /\ UNCHANGED <<fixedVars, poolVars, sweep, gpuVars>>

Reset ==
  /\ pass = "none" /\ graph = "none" /\ todo = <<>>
  /\ todo' = [b \in Blocks |-> Op("release", b)] \o Arm
  /\ disturbed' = TRUE
  /\ UNCHANGED <<fixedVars, poolVars, pass, sweep, at, step, graph, saved, gpuVars>>

Hooks ==
  \/ \E p \in Passes : Begin(p)
  \/ BeginBackward \/ Pre \/ Run \/ Post \/ Back \/ Bwd \/ Interrupt \/ Reset

-----------------------------------------------------------------------------
Next == Pool \/ Device \/ Hooks

Spec == Init /\ [][Next]_vars

-----------------------------------------------------------------------------
(* What the training step relies on. *)

FreeSlots(s) == {free[s][k] : k \in DOMAIN free[s]}

\* A slot is in one place: two blocks never share one, a free one is nobody's,
\* none is listed twice, and a block's slot has the block's signature.
OneHolder ==
  /\ \A b, c \in Blocks : b # c /\ Resident(b) => slot[b] # slot[c]
  /\ \A b \in Blocks : Resident(b) => slot[b][1] = sig[b] /\ slot[b] \notin FreeSlots(sig[b])
  /\ \A s \in Sigs : \A k, l \in DOMAIN free[s] : k # l => free[s][k] # free[s][l]

\* No slot is lost: what was allocated is held by a block or free again.
NoSlotLost ==
  \A s \in Sigs : made[s] = Len(free[s]) + Cardinality({b \in Blocks : sig[b] = s /\ Resident(b)})

\* Every slot of the pool has exactly one holder: a block or the free list.
EverySlotHasOneHolder == OneHolder /\ NoSlotLost

\* A kernel that may run finds its own block's weights in the slot it reads,
\* complete, whatever copies the CPU has enqueued since it launched it.
RightWeights ==
  compute # <<>> /\ Head(compute).needs = 0 /\ Head(compute).slot # NoSlot
    => data[Head(compute).slot] = Head(compute).block

\* Until its backward has run, a block keeps the slot that backward reads.
SavedKept == \A b \in Blocks : saved[b] # NoSlot => slot[b] = saved[b]

\* The pool stays at its size in inference and checkpointed training, and
\* never exceeds one slot per block whatever is interrupted.
PoolBounded ==
  \A s \in Sigs : /\ made[s] <= Count(s)
                  /\ ~disturbed => made[s] = PoolSize(s)

\* The two streams never wait for each other.
StreamsNeverStuck ==
  compute # <<>> \/ copies # <<>>
    => \/ compute # <<>> /\ Head(compute).needs = 0
       \/ copies # <<>> /\ Head(copies).after = 0

-----------------------------------------------------------------------------
(* What a comment in _acquire says of this code. *)

\* "a pending block's slot is still read by backward": no slot autograd still
\* reads is given to another block.
PendingNeverReused ==
  \A b, c \in Blocks : b # c /\ saved[b] # NoSlot => slot[c] # saved[b]
=============================================================================
