# Verification of unsloth-zoo

TLA+ models of the concurrent parts of unsloth-zoo, checked with TLC on small
instances and, for the core ones, proved with TLAPS for every instance. The
reference is the code under `src/`; comments in the modules name the functions
they stand for, and `PROJECT.json` gives the lines of every definition.

    tlc -workers 2 -config TextPrefetcher.cfg MCTextPrefetcher   # one run
    tlapm TextPrefetcher_proof.tla                               # one proof

## The system

unsloth-zoo is the library below Unsloth: it patches model code, compiles and
caches it, feeds and offloads training, downloads checkpoints, and exports
them. Most of it transforms tensors or source text in one thread. What keeps
state that several actors share is this:

| Part | State it keeps | Operations | Who interacts |
|---|---|---|---|
| Streaming prefetcher, `mlx/utils.py` `_LazyTextPrefetcher` | queue, semaphore, five events, `orphaned`, `_closed` | `__next__`, `quiesce`, `resume`, `close`, the producer's loop | training thread, producer thread, closing threads |
| Download ladder, `hf_xet_fallback.py` `_download_with_xet_fallback` | transport, budgets, held failure, force flags; partial files on disk | one rung per child process | child processes, sibling processes in the same cache, the user's cancel, the health record |
| Health record, `hf_xet_health.py` | state file, lock file, memo, generation | `xet_health`, `record_xet_outcome`, `clear_xet_health` | threads of one process by locks, processes by the file; called by the ladder |
| Block swap, `block_swap.py` | slot pool, residency and `pending` of each block | forward and backward hooks, `enter`/`leave`, `reset`, `remove` | hooks on the CPU, kernels and copies on two CUDA streams, autograd |
| Download supervision, `hf_xet_fallback.py` `start_watchdog`, `_run_download_attempt` | result queue, stall verdict, clocks | start, watch, kill, reap | child process, watchdog thread, cancel |
| Partial purge, `hf_xet_fallback.py` `_clear_partials` | partial files, their ages and writers | purge by ownership or age | live sibling downloads |
| Compile mega-cache, `compile_cache.py` | bundle and manifest on disk, the key | load, merge and save, collect | processes of one key, lock file or none |
| Expert offload, `mlx/offload.py` | expert slots, pending readers, a table read ahead | calls, wide passes | lazy evaluation, a reader thread |
| OpenEnv launcher, `rl_environments.py` | registry of children, reservations | launch, reap, reuse | threads, forked workers, other processes on the ports |
| Generation lock, `mlx/generate.py` | owner thread, owner task, depth | acquire, release | threads and async tasks |
| Smart checkpointing, `gradient_checkpointing.py` | host slots with leases, fences and holders; staging buffers | checkpointed forward and backward, prefetch, finalizers, reset | two streams per device, autograd graphs, the garbage collector |
| Compiled-cache distribution, `compiler.py` | files and a barrier | rank 0 writes, others read | ranks of one job |

What makes each correct, in short. Prefetcher: pauses really exclude the
producer, read-ahead is bounded, order is kept, a clean close is final and
every wait ends. Ladder: a sparse Xet partial is never resumed over HTTP, and
Xet's health is charged once and only on evidence. Health record: the streak
is exact and the memo never older than an outcome. Block swap: a kernel reads
its own layer's weights. Supervision: no child outlives its attempt, and a
result beats a stall. Purge: a live writer keeps its partial. Mega-cache: a
reader finds a matching pair and a save narrows no bundle it can read. Expert
offload: a slot is not overwritten under a pending reader. Launcher: only our own live
server is reused, and no child is forgotten. Smart
checkpointing: a recompute reads its own layer's input and no host slot is lost. The remaining parts of the
repository are in `PROJECT.json`, with the reason each is left out.

The behaviours that are hard to test are interleavings of threads with flags
read at different moments (prefetcher, generation lock), read-modify-write of
files by processes that may skip the lock or die (health record, mega-cache),
verdicts of earlier children carried through a long retry ladder (downloads),
and a device that runs behind the CPU (block swap, offload).
`PROJECT.json` "hazards" has each at its line.

## Modules

    TextPrefetcher        <- MCTextPrefetcher, TextPrefetcher_proof
    DownloadPromise  (abstract)
       ^ implemented by
    XetLadder             <- MCXetLadder, XetLadder_proof
    XetAttempt            <- MCXetAttempt, XetDownload_proof
    XetHealth             <- MCXetHealth, XetDownload_proof
    BlockSwap             <- MCBlockSwap, BlockSwap_proof
    CheckpointOffload     <- MCCheckpointOffload, CheckpointOffload_proof
    MegaCache             <- MCMegaCache, MegaCache_proof
    ExpertSlots           <- MCExpertSlots, ExpertSlots_proof
    OpenEnvLauncher       <- MCOpenEnvLauncher, OpenEnvLauncher_proof

The operators marked `mutant` are deliberately wrong variants of the definition
that follows them; nothing in a specification uses them. `PROJECT.json`
"mutants" says which property notices which.

### TextPrefetcher

One action per step that another thread can observe: `ppc` is the producer's
place in `_run`, `cpc` the training thread's in `__next__` or `quiesce`,
`lpc[k]` the place of closing thread `k`. Each `threading.Event` is a Boolean
and each of its reads and writes an action of its own; `_lifecycle_lock` is held
exactly at the places `InLifecycle`, and `_close_lock` is `closeLock`. The queue
is split into its ITEM envelopes and the single END or ERROR envelope behind
them. Batches are numbers, because only their order matters. The fast-forward,
a failing or exhausted source, a failing `make_iterator`, time-outs of every
wait, interrupts of the training thread (`Unwind`) and of a close
(`InterruptClose`) are all there. Time-outs are always possible where the code
waits with one, except that a join and a quiesce time out only while what they
wait for has not happened.

Two limits are part of the statement. A parked producer that a `close` wakes
leaves the `quiescent` flag up for a moment, so exclusion is claimed only as
long as nobody closes (`~stop`): after a close the run is over. The training
thread does not nest `quiesce` calls (the flag is not counted) and does not
call `__next__` after a StopIteration (it would poll an empty queue for ever).

### XetLadder and DownloadPromise

`pc` walks once round the `while True` per child. The child is its verdict, the
tag `_run_download_attempt` returns (`CanEnd` says which are possible), plus
what it leaves among the partial files. `partials` holds what makes the cache
incomplete: our Xet child's sparse file, our HTTP child's sequential one, a
peer's, or a dangling link. Peers write at any moment, any look may fail and any
unlink may fail. Cancels come at any moment. `Flush`, `HoldFault`, `DropUnproven`
and `Proven` are the code's rules for the failure that is held back.

`DownloadPromise` is the promise seen from outside: an outcome, the reports made
to the health record, and whether a stall was proved. Its steps say what may be
reported with what. The ladder is shown to implement it with the refinement
mapping `stalled <- stalledOnXet`.

### XetHealth

Threads are pairs of a process and a worker; `pc[t]` is the place in
`xet_health`, `record_xet_outcome` or `clear_xet_health`, with a step between any
two accesses to shared state. A process may lose the wait for the lock file, or
run where there is no locking, and go on without it (`GoUnlocked`); a read, a
write or the removal may fail; a process may die anywhere and a new one continue; the file and the memo
expire. A TTL is the Boolean `fresh`, since only "expired or not" is ever asked.
`epoch`, `streak`, `lost`, `raced` and `known` are history.
An unreadable file counts as an empty one in the code (`_read_state`), so the report
that reads it starts the streak again at one (`ReadFails`): `StreakExact` claims
equality until a failure was lost in that way or to a failing write, and that the
file never exceeds the reports after it, too. It claims nothing once two processes
overlapped of which one had no lock, or a clear fell into a report. The answers that depend on the
environment only (an override, no `hf_xet`, too little memory) touch neither file
nor memo and are left out. The specification is `HealthSpec`, from `HealthInit` and
`HealthNext`, so that one module can extend this one and `XetAttempt`.

### BlockSwap

A hook is expanded into `todo`, the pool operations it performs; they are carried
out one at a time with the device free to move in between. `compute` and `copies`
are the two streams. `after` is the number of kernels a copy still waits for
(`wait_stream`) and `needs` the number of copies a wait still waits for
(`wait_event`). `data` says whose weights are in each slot, with 0 while a copy
is under way, so a kernel that runs too early or too late reads something else.
The passes are inference (hooks, or `enter`/`leave` in a decode loop), the
reference pass of a training-mode model with grad off, a forward with every layer
checkpointed, and a plain grad-on forward; `firstGrad` freezes the first layers.
A pass may be interrupted anywhere, a graph may be dropped, and `reset()` may
follow. The end-of-backward callback of a block without a hooked input is run
where its backward ends, which for a chain of layers is the same moment.
`remove()`, `shaped()`, the state_dict hook and blocks over several devices are
not modelled yet, so the component is "partly".

### XetAttempt

One attempt of the ladder: the child (`cpc`), the watchdog (`wpc`), the parent
(`ppc`) and the pipe between child and parent. Time is in ticks, one watchdog
interval each, and a child and a peer act any number of times between two of
them. Sizes are not numbers: `moved` says that what the watchdog measures has
changed since its last sample, and `visible` whether it can measure the child's
own partials or only the whole repository. The three clocks (`flat`, `waiting`,
`held`) are the variables `last_change`, `peer_wait_start` and
`peer_hold_start`; `rise` is the child's memory above its trough, in the two
thresholds the code compares with. `Look`, `ReadQueue` and `Capture` keep the
order in which the parent reads the dead child, the stall event, the cancel and
the queue. `quiet` and `early` are history.

`stall_timeout` is a variable, `stallTicks`, with values from a set: the Xet rung has
30 s and the HTTP rung 180 s against 90 s to connect, and the environment and the
caller choose freely, so nothing orders it against the other deadlines. `StallIsEarned`
therefore names the deadline of each phase.

What the killed child leaves is found in the code's steps, and peers move between any
two of them and until the purge: `Capture` reads the open files of the child, which runs on;
`KillLast` kills it then. With none known `KillFirst` comes before `Scan`, the
partials that are new since the baseline, and `Walk`, which drops those somebody
writes to. A peer may resume a partial that was left behind, the dead child's own too
(`PeerAdopts`). What holds is that a partial in `owned` to which a peer writes was opened
by it after it had been listed (`resumed`, history): after the scan and after the walk
found nobody at it, or after the child's files had been read. That race is real: the
purge before a Xet retry does not look again; the one before HTTP does
(`hf_xet_fallback.py:1250`). It needs the name spelled `<etag>.incomplete` as on
older hubs, since a name with a nonce is nobody else's.

### CheckpointOffload

The CPU only enqueues: `main[d]` and `extra[d]` are the compute and the side stream
of a device, and a wait is the set of keys of the commands waited for, over when
they are in no stream. An event is therefore the key of the command it was recorded
behind. Streams of different devices are not ordered by the model except where the
code waits; that allows more than a machine does where a tensor copied between devices
would order them. `ForwardOffloaded` is `forward` with its lease, its switch to
double buffering, its record for the prefetch and its copy; `BackwardOffloaded` is
`backward` with the prefetched or queued reload, the next prefetch and the release.
`ctx[g]` is the chain of autograd nodes of graph `g`: `kept` while the saved tensors
live, `leased` until the slot is given back. `Drop` is the garbage collector with the
finalizers. Each graph is made once, a layer may be on any device, buffer B may be
taken back for want of memory at any offload, and buffers are reset when nothing runs;
graphs of before a reset may still be dropped but are not run. (The code does not
synchronise in the reset; the model has it between steps, with the queues empty.) A prefetch
may be given up before its copy (`gradient_checkpointing.py:1255`; `issues` in
`QueueReload`). All inputs are big
enough to offload and of one size, and host memory is pinned. Checkpoints inside a
recompute and the non-reentrant offloader are left out.

### MegaCache

One action per access to the directory. A bundle is its set of artifacts, which is
what its name, a hash, stands for. `_artifact_identity` is modelled by what it does:
merging compares some kinds by key alone, the test for news compares others by
content. Locked and unlocked savers mix, processes crash and hang anywhere, writes
fail, and the removals of superseded files are one action each. A file may be
unreadable or not trusted (`ReadFails`), torch may load nothing from it (`LoadFails`), and a
save may fail to merge it, whole or in part (`FoldFails`), after which it goes on with
what it has. `spoiled` marks a key
whose savers were once not excluded: what a save promises is claimed for the
others only. (A comment at `compile_cache.py:613` claims the pair stays consistent
"even for an unlocked (fallback) writer"; two savers, one unlocked, break it.)

### ExpertSlots

`slotOf`, `expertOf`, `map` and the slots' contents are kept apart, as in the code,
because a failed read leaves them disagreeing. A call is cut into the chunks of
`_by_expert`; each read, its failure and a reservation that comes up short are
actions. `readers` is the list the code keeps of outputs that may still be pending;
`pending` are those that really are, and `Evaluate` is the caller evaluating them.
`_settle_readers` evaluates the thread's own and drops another thread's from the list
(`dropped`). A read that fails raises at its first failed part while the pool still runs
others: `late` are the parts that go on writing to the slots (`LateWrite`), which a retry may
have reserved again. `broken[l]` records when that happens (`"overtaken"`) or when a slot goes
to two experts (`"shared"`); nothing is claimed of the layer's slots after that. An
interrupt between two calls is `Abort`, one inside a read is `ReadFails`; one between
the assignments that follow a read is left out. For wide passes a table says
whose row each expert has, so that a table filled for another layer, or half
filled, shows. The fill thread copies first and reads later, and both may
come after the pass that wanted the table was aborted. Scores are left out: any
expert the call does not use may be the victim.

### OpenEnvLauncher

`holder` is the machine's view of a port and `kid` a child's life and what it has
announced; `registry` and `reserved` are per process, since a fork copies them.
Sections under `_OPENENV_CHILDREN_LOCK` are single actions, and the lock itself is left
out: the fork comes between two of them, never while another thread is inside one, so
that the copy's lock is replaced (`rl_environments.py:1488`) shows nowhere. A process
that asks for a child it did not spawn gets the answer of the operating system, which may be
"alive" for a child that is gone (a pid used again, a question that fails). A port
stands for (host, port); a random choice of a port is any choice.

## Runs

| Run | Question | Bounds and why they suffice |
|---|---|---|
| `prefetch` | safety of the prefetcher, and that every call returns | depth 2, one batch to skip, two batches, two closers: the semaphore runs dry, the source ends with batches queued, and two closes overlap a pause and each other |
| `ladder` | safety of the ladder, the refinement, and that every download ends | two Xet and two HTTP children: every branch on "more budget" and "no more" is taken, a stall can be followed by a fault and a rescue. Nothing else is bounded |
| `health` | exact streak (until a report is lost), memo and lock of two threads in each of two processes, one of which may stop for good at any step | two calls: the second overlaps the first at every pair of steps |
| `swap` | safety of block swap | three blocks of one signature, depth 1, two commands ahead in each stream: a prefetch, an evicted and a running block at once, and copies and kernels in flight together |
| `megacache` | consistency of bundle and manifest, no lost save, no needless miss, no endless wait | three savers, one without locks, one model, three artifacts (two of them versions of one profile), four calls, one crash, failing reads, loads and merges at any step: two saves under one load, and a save after a crashed one |
| `experts` | slots hold what they say, pending outputs keep their weights, tables complete and never more than two | three layers, since a table passes from one to the next while a third is read ahead; one of them has three experts in two slots, which a call can overflow, and the last casts; two threads. One dropped output or one part of a failed read at a time (`FewLoose`): a violation needs one of them and no more. Once the slots are in doubt the run is not followed further (`StopWhenBroken`), as nothing is claimed of that layer any more; `experts_map` shows what follows |
| `launcher` | ownership of servers and records | one port two launches fight over, two children, two threads and a forked one, two trials, two launches |
| `attempt` | stalls earned, waiters spared, results kept, hung children given up, what may be purged | stall time-outs of 1 and 3 ticks, one on each side of the 2 to connect, as on the two rungs; HTTP patience 2, ceiling 3 and no clock beyond it; equal deadlines let a clock carried over from a wrong phase show. One peer, one unreadable read of the repository |
| `offload` | safety of smart checkpointing on one device | two graphs of three layers, six slots, two backwards each, two commands ahead, one reset, double buffering and prefetch: two pending graphs, a retained one, a free slot passed over for its holder, and a chain of prefetches (900,000 states) |
| `experts_map`, `swap_nested`, `offload_retained` | disagreements, below | the smallest instance that shows each |

`MaxItems`, `MaxOps`, `MaxAhead`, `MaxCrashes`, `MaxLaunches`, `MaxBlinks`, `MaxPasses`,
`MaxResets`, `MaxSlots`, `Horizon` and the set `Children` are bounds of the model, not of the
code: the length of the source, the number of calls, how far the CPU may run ahead
of the device, and so on. Symmetry is used in runs without liveness only: over
threads, ports and children in `launcher`, over threads and the experts of the routed layer in `experts`, over graphs and
devices in `offload` and `offload_retained`; no action or property names one of them.
Blocks of different signatures share nothing
until one of them has more blocks than slots, which takes four blocks and ten million
states: too many for a run, and a reason for the proof about the pool. Deadlock
is not checked: a closed prefetcher, a finished download, a record whose calls are
used up and a block swap at rest really stop.
`swap_nested` is the only run with a no-grad pass between a plain forward and its
backward (`Nested`); `swap` says what holds without it.

### What the runs show

All properties of the passing runs hold. What would break them was tried: each
fails when one operation is changed the way a plausible bug would.

Three statements of the repository do not hold of its code, each shown by a run:

- *The map is valid while an expert is resident.* A read that fails after
  `_reserve` took a victim's slot lets a later reservation come up short and give one
  slot to two experts; later calls hit with the wrong weights (`experts_map`).
- *A pending block's slot is still read by backward.* A no-grad pass before that
  backward releases it all the same, and the slot is refilled (`swap_nested`).
- *A released slot is safe to reuse unless its graph is retained.* The release after
  the second backward of a retained graph does nothing, because `release()` took the
  index away the first time: the slot keeps the fence of the first backward, and a lease
  on another device overwrites the input before the second reload has read it
  (`offload_retained`: three graphs of one layer, two devices). When no graph is
  retained the comment is right, on any number of devices (`SlotsSafeToReuse`).

Other comments are wrong in a way a property has to say, without a run of their own:

- `hf_xet_health.py:375` lays a dropped count to "a peer write landing in between" and
  takes the mutex and the file guard against it; a file that cannot be read, or a write
  that fails, loses the count with no peer at all (`StreakExact` says `~lost`).
- `compile_cache.py:593` says the save folds the bundle on disk "so a partial run cannot
  narrow it"; the docstring at `:369` says "best-effort: a failure may narrow the bundle",
  and the code is as the docstring has it. `NeverNarrows` exempts exactly those saves.
- `offload.py:635` says of pending outputs "evaluated before a read overwrites them";
  `:693` drops those of another thread, and a read may then overwrite what they will be
  computed from. Without the exemption `PendingStillRight` fails in ten steps.
- `offload.py:629` again: a retry that takes a slot a part of the failed read still
  writes to leaves an expert resident over another's weights. Without that exemption
  `WeightsRight` fails in ten steps.

More formulas at the end of the modules state what the repository says and the
code does not do, and are false of the models; TLC finds a counterexample when one
is put into a configuration, and no run does:

- XetLadder `StallChargedOnAnyExit` (comment at `hf_xet_fallback.py:2882`): when the
  process of an HTTP child cannot be started, the held stall is lost. The promise
  has a step of its own for that exit.
- XetLadder `HttpRetryResumes` (`tests/test_hf_xet_fallback.py:1099`): the re-check before
  the second HTTP child takes the first one's partial for unsafe and restarts from zero.
- XetHealth `OneFailureIsNoise`, `DemotionStands`, `ForgottenStaysForgotten`
  (`hf_xet_health.py:50`, `:374`, `:427`): one failure renews a probe's expired
  verdict; a probe that measured meanwhile overwrites a demotion; an evaluation that
  starts after the generation was bumped and before the unlink republishes the verdict.
- OpenEnvLauncher `AdoptedIsOurs` (`rl_environments.py:1603`): a child slow to announce
  itself is believed once its port is open past the grace, although another program
  may have taken it. `Tracked` (needs three children): a release withdraws the
  reservation of a later launch on the same port.
- XetAttempt `HeldForAPeer` (`hf_xet_fallback.py:1483`): the child's own empty partial
  counts as a peer's, so a child that hung before its first byte is kept for up to the
  ceiling instead of the connect deadline.
- CheckpointOffload `BufferEventsSuffice` (needs three graphs and two devices):
  `USE_DOUBLE_BUFFER` is one flag for all devices. A forward on one device turns it on
  while another has a recompute pending from the single mode, behind which no buffer
  event was recorded; the reload of a further graph overwrites buffer A under it. This
  and `SafeToReuse` are why `RecomputeReadsItsInput` is claimed of several devices only
  with one buffer each and no retained graph.
- XetAttempt `SuccessSurvivesCancel`: a cancel seen before the queue is read discards
  a result that had arrived.

## Fairness

`TextPrefetcher`: weak fairness of the producer, of the training thread inside a
call and of each closing thread, which is that threads are scheduled and that the
source answers; strong fairness where a thread needs a lock, as `threading.Lock`
is released over and over and a waiter is not passed over for ever. No fairness
for calls, time-outs of quiesce and join, or interrupts: the waits must end without
them. A parked producer stays parked until someone acts. `XetLadder`: weak
fairness of the ladder and its child; that a child ends is what the watchdog and
the kill in `_run_download_attempt` provide. Nothing is assumed of peers and the
user. `XetHealth`: weak fairness of the threads of the processes in `Running` only;
others may stop for good inside the guarded section. `MegaCache`: the same, and
a waiter for the lock may always time out. `XetAttempt`: weak fairness of time, of
the watchdog and of the parent; nothing of the child, of peers and of the user.
`BlockSwap`, `CheckpointOffload`, `ExpertSlots` and `OpenEnvLauncher` claim no liveness and state none:
that the streams of a block swap are never stuck is a safety property
(`StreamsNeverStuck`).

## Proofs

Proved for every value of the constants, from the assumptions next to the CONSTANTS
(positive depth and budgets, natural numbers of batches, marks for "none" that name nothing):

**TextPrefetcher_proof.** All of the run but liveness: `TypeOK`, `SlotsConserved`,
`ExclusiveWhileQuiesced`, `NeverRestarted`, `CloseTellsTheTruth` and `InOrder`. The
invariant is `IInv` = `ReadAhead`, `Pausing`, `Closing` and `Delivery`. That slots never
leave `0..Depth` is not inductive alone: it needs the equation between slots, queue
and batches in flight, which needs that a drain happens only once `closed` and that a
terminal envelope ends the producer (`ClosedWhileDraining`, `CountersFit`). Exclusion
needs two facts about flags. While the training thread is inside the pause and
nobody closed, `pause` is up (`PausedWhileExclusive`). And a raised `quiescent` or `done`
means the producer is where it cannot reach the iterator without reading `pause` again
(`FlagsTellTheTruth`); a stale `quiescent` is then harmless. `Closing` gives what a
closing thread knows at each place of `close`, up to its return value. `Delivery`
accounts for every batch the producer has taken, wherever it is: returned, in the
training thread's hand, queued, or in the producer's.

**XetLadder_proof.** `TypeOK`, `ChargedRightly`, `SafeToResume`, `ForceHandedBack` and
`CancelStopsTheLadder`, which is all of the `ladder` run but liveness, and `KeepsPromise`: that
`Spec` implies `DownloadPromise`'s. `IInv` has four parts: `Counting` (budgets per place),
`Charging` (what is held back and what has been reported, at every place),
`Guarding` (after the switch to HTTP: our partial on disk means a force, no force means
a clean look, and a force of the ladder remembers the caller's) and
`LastAfterCancel`. `HoldsBack` is the heart of it: a proved stall is held or reported at
every step, and a fault is held only until the first HTTP retry. Each part is shown
preserved by each action in a lemma of its own; the refinement uses them all.

**XetDownload_proof.** The safety of the `attempt` and the `health` run. For an attempt:
`TypeOK`, `ResultNotLost`, `OwnershipRight`, `StallIsEarned`, `WaiterSpared`, and that
no child outlives its attempt (`ChildReaped`), for deadlines in any order. `AttemptInv` follows what the child has put
in its queue and what the parent has taken out, past a death of the child at any point;
`Measured` ties the watchdog's clocks to the bytes, since every byte that came after the
last sample is still in `moved`, so a clock that runs has seen nothing. `Untouched` says that nothing is owned before it was
listed and that nobody resumes the partial of a child that lives, from which
`OwnershipRight` is inductive: every opening after the listing is in `resumed`. For the record:
`StreakExact` and `MemoNotOlder`, for any processes, workers and crashes. `StreakInv`: while
nobody went unlocked the lock keeps the rewriters apart (`MutexHeld`, `OneRewriter`), so what
one of them read is still on file when it writes (`ReadIsCurrent`), and the file counts what
was recorded (`Counted`), or less when a report could not read it. `MemoInv`: an answer on its way into a memo, like the memo, is no
older than the newest epoch its process knew.

**BlockSwap_proof.** `EverySlotHasOneHolder`, from `PoolInv`: types, slots numbered
in the order they were allocated (`NumberedByAge`), a slot on one list once and held by
no second block (`Unshared`), and none missing (`Accounted`). `StreamsNeverStuck`,
from `StreamsInv`: every queued copy and kernel has a number, and a wait is only for
commands queued before it (`Ordered`), so the oldest command can always run. Its second
part, on what is read, proves `SavedKept`, `PendingNeverReused`, `RightWeights` and
`PoolBounded`. The first three of these assume `~Nested`, no pass with grad off between a plain forward and
its backward; `swap_nested` refutes them without it. `Course` relates the list of hooks
still to run to the kind of pass, which is what decides who is `pending` (`SavedInv`).
For the reads, `ReadInv` follows a slot through the queue: a queued kernel finds in its slot
the weights of its block or the copy that brings them before it (`KernelsServed`), the
same holds of a resident block (`ResidentServed`), and later copies into the slot wait for
the kernel; a block that is run, or saved by autograd, has been waited for (`Ready`,
`SavedWaited`). `SizeInv` shows that a
pool in steady state does not grow: only the recomputed layer is pending then (`Calm`), so some
slot can be taken.

**CheckpointOffload_proof.** `TypeOK`, `ReadersApart`, `NoSlotLost` and `GrowsWhenNeeded`, for any
number of graphs, layers, devices, slots and passes. `PoolInv` says where every slot is.
Leases kept apart (`LeasesApart`) are not enough, because a slot given back may be read
again by the second backward of a retained graph; `HeldForIt` and `HoldersRead` add that such a slot
still names its holder, so that a lease passes it over until the graph is freed.
`Covered` (every slot is leased, kept aside or free) gives that none is lost and that
the pool grows only when all are needed.
`RecomputeReadsItsInput` is proved twice. The first theorem is for one device (`OneDevice`)
and leaves all else open: retained graphs, double buffering, prefetch. `ReadsInv` follows an
input through the two streams. A queued key is of a step already taken and in one command
(`KeysOnce`). Once all that is queued has run, the slot of every node that may still be run
holds its input (`HostKept`, from `PoolInv`: a slot is not leased while such a node names
it). A queued recompute either waits for a load into its buffer that will find its input in
the slot, or finds it in the buffer already, and in both cases any later load into that
buffer waits for a command no earlier than the recompute (`RecomputesServed`). That later
loads do wait is `Awaited`: in double buffering the event of a buffer is that of a recompute
at or after every queued one from it, or, when double buffering was turned on meanwhile, an
offload that waits for all of them is still ahead in the side stream. What was prefetched is
the last thing the side stream was given, so its buffer is still intact when it is taken
(`AheadOfUse`).

On several devices the host slots are shared, and only fences order one side stream against
another. `SlotsSafeToReuse` proves `SafeToReuse` there, double buffered and prefetching or
not, when no graph is retained (`MaxPasses = 1`). `OrderInv` speaks of one order of all
queued commands: `After` holds of two when one cannot run before the other, by its place in
a stream or by what it waits for, through any number of streams. `ReloadsFirst` is the
heart: an offload to a slot is after every reload still queued from that slot, unless the
reload is for the input it brings or for a later one. A new offload gets there because a
lease takes a slot nobody may still read and waits for the slot's fences, and every reload
still queued from the slot is behind one of them (`FencesCover`). A retained graph breaks
exactly this part, since its slot keeps the fence of the first backward. The head of a
stream that waits for nothing is after no other command (`FirstAlone`), so an offload that
can run overwrites no input that a queued reload has still to read.

`DevicesReadTheirInput` builds on it: with one buffer per device (`~DoubleAllowed`) and no
graph retained, the recomputes of any number of devices read their own inputs. `SingleInv`
adds to `OrderInv` that the input of a node still to be run backward is in its slot once its
own side stream has run, whatever the others do (`HostKeptOn`), that the load a recompute
waits for will find it there (`RecomputesServed`), and that a recompute waits for that load
only (`WaitsOwn`). Both hypotheses are settings of the code
(`UNSLOTH_DISABLE_DOUBLE_BUFFER=1`, or an integrated GPU, and a backward without
`retain_graph`), and the instances that refute `SafeToReuse` and `BufferEventsSuffice` each
violate one of them.

**ExpertSlots_proof.** The four properties of the `experts` run, for any layers, experts,
slots and threads; the only assumption beside finite sets is that 0 marks "no expert".
`SlotsInv` says that `slot_of`, `expert_of`, the map and the weights agree on every
resident expert of a layer whose slots are not in doubt (`Sound`: the map alone
is not inductive, since a failed read changes one of the four and not the others), that
the parts of failed reads still under way write to free slots, and that outputs neither
evaluated nor dropped read slots that have not changed (`Waiting`). `TablesInv`
adds the tables: the ones not in use belong to one layer the pass has still to reach, or
is at without a call (`PlaceInv`; hence no call moves the slots under a fill, and no more
than two tables exist), and what a fill has put in its table, or will copy from the
slots, is right (`FillsInv`).

**MegaCache_proof.** Every safety property of the `megacache` run, for any processes,
models, artifacts, saves and crashes; assumed: no process is called "free". `LockInv` says
that a saver in its section holds the lock of its key unless it goes unlocked, and that two in
one section have spoiled the key. From it `SaveInv` follows the one saver of an unspoiled
key: the bundle it read is the one on disk, the union it writes covers that unless the
read or the merge failed (`fault`), and its
collection leaves what the manifest names. `LoadInv` counts for each load the saves that
ended under it, and says that fewer than two leave it the pair it is about to read. A crash
at any step keeps all three, since each speaks of what is on disk at that step.

**OpenEnvLauncher_proof.** `AnnouncedIsOurs` and `ClaimedIsTracked`, for any threads, ports,
children and trials and a fork at any moment. `KidsInv` ties what a child says to what it
holds, `ChildInv` gives each launch a child of its own on the port it tries, `ClaimInv` the
port to itself from its claim to its record; `AdoptInv` says that a launch finds its own
child on record after the watch only if it was accepted for its announcement or for the grace.

Only model-checked: liveness (`NeverBlocked`, `CallsReturn`, `EveryCallReturns`,
`HangsAreCaught` and the ladder's `Terminates`), which is out of the prover's reach.
No module uses recursion.

## Plan

1. Done: TextPrefetcher, XetLadder with DownloadPromise, XetHealth, XetAttempt, BlockSwap,
   MegaCache, ExpertSlots, OpenEnvLauncher, CheckpointOffload; the proofs above: every safety
   property of every passing run.
2. The registry's lock of OpenEnvLauncher, with a fork inside a section; GenerationMode (threads and tasks); the purge with live writers and ages; the
   composition of the ladder with XetHealth for several downloads, and XetAttempt as
   the refinement of what XetLadder assumes of `ChildEnds`.
3. The rest of BlockSwap (`remove`, `shaped`, several devices) and of
   `gradient_checkpointing.py` (checkpoints in a recompute, the non-reentrant offloader).
4. Proofs: the reads of CheckpointOffload on several devices with double buffering,
   once the mode is kept per device.

## Not modelled

Numeric code, source rewriting, file conversion and patches of other libraries: no
shared state, and values TLC cannot enumerate. Of modelled parts: wording of errors and
status messages, the machine's clock beyond "expired or not", contents of batches and
weights. `TextPrefetcher`'s `finalize` may raise after the slot was released; it is
then the training thread that unwinds.
