--------------------------- MODULE TextPrefetcher ---------------------------
(***************************************************************************)
(* _LazyTextPrefetcher of unsloth_zoo/mlx/utils.py: one producer thread    *)
(* stages training batches ahead of the training thread, which consumes    *)
(* them, pauses the producer around evaluation and checkpoint saves        *)
(* (quiesce / resume), and closes it; other threads may close it too.      *)
(*                                                                         *)
(* The batches are the numbers 1, 2, ...: only their order matters.  The   *)
(* unbounded Queue of (kind, payload) envelopes is split in two: the ITEM  *)
(* envelopes in order, and the END or ERROR envelope behind them, after    *)
(* which the producer puts nothing.                                        *)
(***************************************************************************)
EXTENDS Naturals, Sequences

CONSTANTS
  Depth,        \* configured read-ahead (streaming_prefetch_batches)
  Skip,         \* batches a resumed run fast-forwards over
  MaxItems,     \* bound: the source is exhausted after this many batches
  Closers       \* the threads that call close()

ASSUME DepthAssumption    == Depth \in Nat \ {0}
ASSUME SkipAssumption     == Skip \in Nat
ASSUME MaxItemsAssumption == MaxItems \in Nat

VARIABLES
  ppc,        \* control point of the producer thread (_run)
  skipped,    \* batches fast-forwarded so far
  produced,   \* batches the source handed to the staging loop
  slots,      \* value of the BoundedSemaphore
  envelopes,  \* the ITEM envelopes in the queue
  terminal,   \* the END or ERROR envelope: not put, queued, or taken
  stop, pause, quiescent, ready, done,   \* the threading.Event flags
  closed, orphaned,
  cpc,        \* control point of the training thread
  consumed,   \* batches the training thread received, in order
  lpc,        \* control point of each thread inside close()
  closeLock   \* holder of _close_lock

producerVars == <<ppc, skipped, produced>>
queueVars    == <<slots, envelopes, terminal>>
eventVars    == <<stop, pause, quiescent, ready, done>>
vars == <<producerVars, queueVars, eventVars, closed, orphaned, cpc, consumed,
          lpc, closeLock>>

NoCloser == "free"

\* Where the producer is inside the dataset iterator, hence inside the
\* tokenizer or processor it shares with the training thread.
Iterating == {"make", "skipping", "staging"}

\* Control points of close() that hold _lifecycle_lock.
InLifecycle == {"unpause", "close"}

alive == ppc \notin {"none", "dead"}

TypeOK ==
  /\ ppc \in {"none", "make", "skip", "skipping", "ready", "loop", "checkpause", "park", "parked",
              "unpark", "acquire", "staging", "put", "release", "terminal", "cleanup",
              "finish", "exit", "dead"}
  /\ skipped \in 0..Skip
  /\ produced \in 0..MaxItems
  /\ slots \in 0..Depth
  /\ envelopes \in Seq(1..MaxItems)
  /\ terminal \in {"none", "queued", "taken"}
  /\ {stop, pause, quiescent, ready, done, closed, orphaned} \subseteq BOOLEAN
  /\ cpc \in {"idle", "start", "await", "get", "empty", "got", "pausing", "waiting",
              "exclusive", "ended"}
  /\ consumed \in Seq(1..MaxItems)
  /\ lpc \in [Closers -> {"idle", "stop", "unpause", "close", "lock", "join",
                          "drain", "clean", "unclean"}]
  /\ closeLock \in Closers \cup {NoCloser}

Init ==
  /\ ppc = "none" /\ skipped = 0 /\ produced = 0
  /\ slots = Depth /\ envelopes = <<>> /\ terminal = "none"
  /\ stop = FALSE /\ pause = FALSE /\ quiescent = FALSE /\ ready = FALSE /\ done = FALSE
  /\ closed = FALSE /\ orphaned = FALSE
  /\ cpc = "idle" /\ consumed = <<>>
  /\ lpc = [k \in Closers |-> "idle"] /\ closeLock = NoCloser

-----------------------------------------------------------------------------
(* The producer thread: _run. *)

consumerVars == <<closed, orphaned, cpc, consumed, lpc, closeLock>>

\* make_iterator() returns, or raises and the ERROR envelope is put.
MakeIterator ==
  /\ ppc = "make"
  /\ ppc' \in {"skip", "terminal"}
  /\ UNCHANGED <<skipped, produced, queueVars, eventVars, consumerVars>>

\* The fast-forward loop stops cooperatively before each batch.
CheckSkip ==
  /\ ppc = "skip"
  /\ ppc' = IF skipped = Skip THEN "ready" ELSE IF stop THEN "cleanup" ELSE "skipping"
  /\ UNCHANGED <<skipped, produced, queueVars, eventVars, consumerVars>>

\* next(iterator) of the fast-forward: a batch, the end of the source (no
\* envelope when it is the cooperative stop), or an exception.
SkipOne ==
  /\ ppc = "skipping"
  /\ \/ skipped' = skipped + 1 /\ ppc' = "skip"
     \/ ppc' = "terminal" /\ UNCHANGED skipped
     \/ stop /\ ppc' = "cleanup" /\ UNCHANGED skipped
  /\ UNCHANGED <<produced, queueVars, eventVars, consumerVars>>

SignalReady ==
  /\ ppc = "ready"
  /\ ready' = TRUE
  /\ ppc' = "loop"
  /\ UNCHANGED <<skipped, produced, queueVars, stop, pause, quiescent, done, consumerVars>>

CheckStop ==
  /\ ppc = "loop"
  /\ ppc' = IF stop THEN "cleanup" ELSE "checkpause"
  /\ UNCHANGED <<skipped, produced, queueVars, eventVars, consumerVars>>

CheckPause ==
  /\ ppc = "checkpause"
  /\ ppc' = IF pause THEN "park" ELSE "acquire"
  /\ UNCHANGED <<skipped, produced, queueVars, eventVars, consumerVars>>

Park ==
  /\ ppc = "park"
  /\ quiescent' = TRUE
  /\ ppc' = "parked"
  /\ UNCHANGED <<skipped, produced, queueVars, stop, pause, ready, done, consumerVars>>

\* The polling loop of a parked producer ends; the flag is cleared later.
LeavePark ==
  /\ ppc = "parked"
  /\ ~pause \/ stop
  /\ ppc' = "unpark"
  /\ UNCHANGED <<skipped, produced, queueVars, eventVars, consumerVars>>

LeaveFlagSet ==                                        \* mutant
  /\ ppc = "unpark"
  /\ ppc' = "loop"
  /\ UNCHANGED <<skipped, produced, queueVars, eventVars, consumerVars>>

ClearQuiescent ==
  /\ ppc = "unpark"
  /\ quiescent' = FALSE
  /\ ppc' = "loop"
  /\ UNCHANGED <<skipped, produced, queueVars, stop, pause, ready, done, consumerVars>>

\* A slot is reserved before the batch is staged, or the wait times out.
AcquireSlot ==
  /\ ppc = "acquire"
  /\ \/ slots > 0 /\ slots' = slots - 1 /\ ppc' = "staging"
     \/ slots = 0 /\ ppc' = "loop" /\ UNCHANGED slots
  /\ UNCHANGED <<skipped, produced, envelopes, terminal, eventVars, consumerVars>>

\* next(iterator) returns a batch, or ends or raises.
Stage ==
  /\ ppc = "staging"
  /\ \/ produced < MaxItems /\ produced' = produced + 1 /\ ppc' = "put"
     \/ ppc' = "release" /\ UNCHANGED produced
  /\ UNCHANGED <<skipped, queueVars, eventVars, consumerVars>>

PutItemFirst ==                                        \* mutant
  /\ ppc = "put"
  /\ envelopes' = <<produced>> \o envelopes
  /\ ppc' = "loop"
  /\ UNCHANGED <<skipped, produced, slots, terminal, eventVars, consumerVars>>

PutItem ==
  /\ ppc = "put"
  /\ envelopes' = Append(envelopes, produced)
  /\ ppc' = "loop"
  /\ UNCHANGED <<skipped, produced, slots, terminal, eventVars, consumerVars>>

ReleaseUnused ==
  /\ ppc = "release"
  /\ slots' = slots + 1
  /\ ppc' = "terminal"
  /\ UNCHANGED <<skipped, produced, envelopes, terminal, eventVars, consumerVars>>

PutTerminal ==
  /\ ppc = "terminal"
  /\ terminal' = "queued"
  /\ ppc' = "cleanup"
  /\ UNCHANGED <<skipped, produced, slots, envelopes, eventVars, consumerVars>>

CleanupNotReady ==                                     \* mutant
  /\ ppc = "cleanup"
  /\ ppc' = "finish"
  /\ UNCHANGED <<skipped, produced, queueVars, eventVars, consumerVars>>

\* The finally block: unblock waiters, close the iterator, then say done.
Cleanup ==
  /\ ppc = "cleanup"
  /\ ready' = TRUE
  /\ ppc' = "finish"
  /\ UNCHANGED <<skipped, produced, queueVars, stop, pause, quiescent, done, consumerVars>>

CloseIterator ==
  /\ ppc = "finish"
  /\ done' = TRUE
  /\ ppc' = "exit"
  /\ UNCHANGED <<skipped, produced, queueVars, stop, pause, quiescent, ready, consumerVars>>

ThreadExits ==
  /\ ppc = "exit"
  /\ ppc' = "dead"
  /\ UNCHANGED <<skipped, produced, queueVars, eventVars, consumerVars>>

Producer ==
  \/ MakeIterator \/ CheckSkip \/ SkipOne \/ SignalReady \/ CheckStop \/ CheckPause
  \/ Park \/ LeavePark \/ ClearQuiescent \/ AcquireSlot \/ Stage \/ PutItem
  \/ ReleaseUnused \/ PutTerminal \/ Cleanup \/ CloseIterator \/ ThreadExits

-----------------------------------------------------------------------------
(* The training thread: __next__, quiesce, resume. *)

closeVars == <<closed, orphaned, lpc, closeLock>>

CallNext ==
  /\ cpc = "idle"
  /\ cpc' = "start"
  /\ UNCHANGED <<producerVars, queueVars, eventVars, consumed, closeVars>>

Refuses == closed \/ stop

\* _ensure_started, atomic under _lifecycle_lock.
EnsureStarted ==
  /\ cpc = "start"
  /\ \A k \in Closers : lpc[k] \notin InLifecycle
  /\ IF Refuses
       THEN cpc' = "ended" /\ UNCHANGED ppc
       ELSE cpc' = "await" /\ ppc' = IF ppc = "none" THEN "make" ELSE ppc
  /\ UNCHANGED <<skipped, produced, queueVars, eventVars, consumed, closeVars>>

AwaitReady ==
  /\ cpc = "await"
  /\ \/ ready /\ cpc' = "get"
     \/ ~ready /\ (closed \/ stop) /\ cpc' = "ended"
  /\ UNCHANGED <<producerVars, queueVars, eventVars, consumed, closeVars>>

TakeItem ==
  /\ cpc = "get"
  /\ envelopes # <<>>
  /\ consumed' = Append(consumed, Head(envelopes))
  /\ envelopes' = Tail(envelopes)
  /\ cpc' = "got"
  /\ UNCHANGED <<producerVars, slots, terminal, eventVars, closeVars>>

ReleaseSlot ==
  /\ cpc = "got"
  /\ slots' = slots + 1
  /\ cpc' = "idle"
  /\ UNCHANGED <<producerVars, envelopes, terminal, eventVars, consumed, closeVars>>

TakeTerminalAndSlot ==                                 \* mutant
  /\ cpc = "get"
  /\ envelopes = <<>> /\ terminal = "queued"
  /\ terminal' = "taken"
  /\ slots' = slots + 1
  /\ cpc' = "ended"
  /\ UNCHANGED <<producerVars, envelopes, eventVars, consumed, closeVars>>

\* END or ERROR: StopIteration or the producer's exception is raised.
TakeTerminal ==
  /\ cpc = "get"
  /\ envelopes = <<>> /\ terminal = "queued"
  /\ terminal' = "taken"
  /\ cpc' = "ended"
  /\ UNCHANGED <<producerVars, slots, envelopes, eventVars, consumed, closeVars>>

\* The timed get finds the queue empty; whether to stop is read afterwards.
GetTimesOut ==
  /\ cpc = "get"
  /\ envelopes = <<>> /\ terminal # "queued"
  /\ cpc' = "empty"
  /\ UNCHANGED <<producerVars, queueVars, eventVars, consumed, closeVars>>

CheckStopped ==
  /\ cpc = "empty"
  /\ cpc' = IF stop THEN "ended" ELSE "get"
  /\ UNCHANGED <<producerVars, queueVars, eventVars, consumed, closeVars>>

\* quiesce() finds no live producer, or asks it to pause.
CallQuiesce ==
  /\ cpc = "idle"
  /\ cpc' = IF alive THEN "pausing" ELSE "exclusive"
  /\ UNCHANGED <<producerVars, queueVars, eventVars, consumed, closeVars>>

SetPause ==
  /\ cpc = "pausing"
  /\ pause' = TRUE
  /\ cpc' = "waiting"
  /\ UNCHANGED <<producerVars, queueVars, stop, quiescent, ready, done, consumed, closeVars>>

QuiesceReturns ==
  /\ cpc = "waiting"
  /\ quiescent \/ done
  /\ cpc' = "exclusive"
  /\ UNCHANGED <<producerVars, queueVars, eventVars, consumed, closeVars>>

\* The deadline passed: the request is withdrawn and RuntimeError raised.
QuiesceTimesOut ==
  /\ cpc = "waiting"
  /\ ~quiescent /\ ~done
  /\ pause' = FALSE
  /\ cpc' = "idle"
  /\ UNCHANGED <<producerVars, queueVars, stop, quiescent, ready, done, consumed, closeVars>>

Resume ==
  /\ cpc = "exclusive"
  /\ pause' = FALSE
  /\ cpc' = "idle"
  /\ UNCHANGED <<producerVars, queueVars, stop, quiescent, ready, done, consumed, closeVars>>

\* KeyboardInterrupt in a blocking call, or the run simply stops consuming:
\* the training loop unwinds and only close() is called afterwards.
Unwind ==
  /\ cpc \in {"idle", "await", "get", "waiting"}
  /\ cpc' = "ended"
  /\ UNCHANGED <<producerVars, queueVars, eventVars, consumed, closeVars>>

Consumer ==
  \/ CallNext \/ EnsureStarted \/ AwaitReady \/ TakeItem \/ ReleaseSlot
  \/ TakeTerminal \/ GetTimesOut \/ CheckStopped \/ CallQuiesce \/ SetPause \/ QuiesceReturns
  \/ QuiesceTimesOut \/ Resume \/ Unwind

-----------------------------------------------------------------------------
(* close(), by any of the Closers. *)

\* The conservative mark precedes everything that can be interrupted.
CallClose(k) ==
  /\ lpc[k] \in {"idle", "clean", "unclean"}
  /\ orphaned' = TRUE
  /\ lpc' = [lpc EXCEPT ![k] = "stop"]
  /\ UNCHANGED <<producerVars, queueVars, eventVars, closed, cpc, consumed, closeLock>>

SetStop(k) ==
  /\ lpc[k] = "stop"
  /\ \A j \in Closers : lpc[j] \notin InLifecycle
  /\ stop' = TRUE
  /\ lpc' = [lpc EXCEPT ![k] = "unpause"]
  /\ UNCHANGED <<producerVars, queueVars, pause, quiescent, ready, done, closed, orphaned,
                 cpc, consumed, closeLock>>

ClearPause(k) ==
  /\ lpc[k] = "unpause"
  /\ pause' = FALSE
  /\ lpc' = [lpc EXCEPT ![k] = "close"]
  /\ UNCHANGED <<producerVars, queueVars, stop, quiescent, ready, done, closed, orphaned,
                 cpc, consumed, closeLock>>

SetClosed(k) ==
  /\ lpc[k] = "close"
  /\ closed' = TRUE
  /\ lpc' = [lpc EXCEPT ![k] = "lock"]
  /\ UNCHANGED <<producerVars, queueVars, eventVars, orphaned, cpc, consumed, closeLock>>

LockClose(k) ==
  /\ lpc[k] = "lock"
  /\ closeLock = NoCloser
  /\ closeLock' = k
  /\ lpc' = [lpc EXCEPT ![k] = "join"]
  /\ UNCHANGED <<producerVars, queueVars, eventVars, closed, orphaned, cpc, consumed>>

JoinUnchecked(k) ==                                    \* mutant
  /\ lpc[k] = "join"
  /\ lpc' = [lpc EXCEPT ![k] = "drain"]
  /\ UNCHANGED <<producerVars, queueVars, eventVars, closed, orphaned, cpc, consumed, closeLock>>

Join(k) ==
  /\ lpc[k] = "join"
  /\ ~alive
  /\ lpc' = [lpc EXCEPT ![k] = "drain"]
  /\ UNCHANGED <<producerVars, queueVars, eventVars, closed, orphaned, cpc, consumed, closeLock>>

JoinTimesOut(k) ==
  /\ lpc[k] = "join"
  /\ alive
  /\ lpc' = [lpc EXCEPT ![k] = "unclean"]
  /\ closeLock' = NoCloser
  /\ UNCHANGED <<producerVars, queueVars, eventVars, closed, orphaned, cpc, consumed>>

DrainOne(k) ==
  /\ lpc[k] = "drain"
  /\ \/ envelopes # <<>> /\ envelopes' = Tail(envelopes) /\ UNCHANGED terminal
     \/ envelopes = <<>> /\ terminal = "queued" /\ terminal' = "taken" /\ UNCHANGED envelopes
  /\ UNCHANGED <<producerVars, slots, eventVars, closed, orphaned, cpc, consumed, lpc, closeLock>>

DrainDone(k) ==
  /\ lpc[k] = "drain"
  /\ envelopes = <<>> /\ terminal # "queued"
  /\ orphaned' = FALSE
  /\ lpc' = [lpc EXCEPT ![k] = "clean"]
  /\ closeLock' = NoCloser
  /\ UNCHANGED <<producerVars, queueVars, eventVars, closed, cpc, consumed>>

\* An interrupt during the lock, the join or the drain.
InterruptClose(k) ==
  /\ lpc[k] \in {"lock", "join", "drain"}
  /\ lpc' = [lpc EXCEPT ![k] = "unclean"]
  /\ closeLock' = IF closeLock = k THEN NoCloser ELSE closeLock
  /\ UNCHANGED <<producerVars, queueVars, eventVars, closed, orphaned, cpc, consumed>>

Closer(k) ==
  \/ CallClose(k) \/ SetStop(k) \/ ClearPause(k) \/ SetClosed(k) \/ LockClose(k)
  \/ Join(k) \/ JoinTimesOut(k) \/ DrainOne(k) \/ DrainDone(k) \/ InterruptClose(k)

-----------------------------------------------------------------------------
Next == Producer \/ Consumer \/ \E k \in Closers : Closer(k)

Spec == Init /\ [][Next]_vars

\* The threads keep being scheduled and the source neither hangs nor loops;
\* that the trainer calls anything, that a wait runs into its deadline, and
\* that an interrupt comes is not assumed.
Fairness ==
  /\ WF_vars(Producer)
  /\ SF_vars(EnsureStarted)
  /\ WF_vars(AwaitReady \/ TakeItem \/ ReleaseSlot \/ TakeTerminal
              \/ GetTimesOut \/ CheckStopped \/ SetPause \/ QuiesceReturns)
  /\ \A k \in Closers : /\ SF_vars(SetStop(k))
                        /\ WF_vars(ClearPause(k) \/ SetClosed(k))
                        /\ SF_vars(LockClose(k))
                        /\ WF_vars(Join(k) \/ DrainOne(k) \/ DrainDone(k))

FairSpec == Spec /\ Fairness

-----------------------------------------------------------------------------
(* What the trainer relies on. *)

\* The item whose slot the training thread has taken but not yet released,
\* and the one the producer holds a slot for, are part of the read-ahead.
InFlight == (IF cpc = "got" THEN 1 ELSE 0)
            + (IF ppc \in {"staging", "put", "release"} THEN 1 ELSE 0)

Held == slots + Len(envelopes) + InFlight

\* After quiesce() has returned, and until resume() or a close, the producer
\* is neither inside the iterator that shares the tokenizer with evaluation
\* and saves nor closing it, however stale the quiescent flag it saw was.
ExclusiveWhileQuiesced ==
  cpc = "exclusive" /\ ~stop => ppc \notin Iterating \cup {"cleanup", "finish"}

\* A slot is reserved before a batch is staged and given back once it is
\* taken: read-ahead never exceeds the configured depth, and no slot leaks
\* on the END, ERROR and timeout paths.  A drain discards batches with
\* their slots, which nobody waits for any more.
SlotsConserved == Held <= Depth /\ (~closed => Held = Depth)

\* Batches arrive in order, none lost or duplicated; a close by another
\* thread may drop batches from the middle, never reorder or repeat them.
InOrder ==
  /\ \A i, j \in DOMAIN consumed : i < j => consumed[i] < consumed[j]
  /\ ~closed => /\ \A i \in DOMAIN consumed : consumed[i] = i
                /\ Len(consumed) + Len(envelopes) + (IF ppc = "put" THEN 1 ELSE 0) = produced

\* A close that reported clean is final: no live producer, nothing queued,
\* and no later call can start one (_ensure_started refuses).
CleanMeansReleased ==
  closed /\ ~orphaned => ~alive /\ envelopes = <<>> /\ terminal # "queued"

\* A producer that outlives a finished close() stays classified as orphan,
\* which is what makes the next save and the next run refuse to share it.
LiveAfterCloseIsOrphan ==
  \A k \in Closers : lpc[k] \in {"clean", "unclean"} /\ alive => orphaned

\* What close() reports is final: a clean close leaves nothing behind it, and
\* a producer that survives one is never reported clean.
CloseTellsTheTruth == CleanMeansReleased /\ LiveAfterCloseIsOrphan

\* The producer is started at most once, and never after a close.
NeverRestarted == [][ppc = "none" /\ ppc' # "none" => ~closed /\ ~stop]_vars

\* quiesce() does not depend on its deadline as long as the source answers.
QuiesceReturnsEventually == cpc = "waiting" ~> cpc # "waiting"

\* A __next__ in progress always ends: with a batch, the end of the stream,
\* the producer's error, or because the prefetcher was closed.
NextReturnsEventually == cpc \in {"start", "await", "get"} ~> cpc \in {"idle", "ended"}

\* close() comes back, without help from its join timeout.
CloseReturnsEventually == \A k \in Closers : lpc[k] = "stop" ~> lpc[k] \in {"clean", "unclean"}

\* No call on the prefetcher hangs: quiesce(), __next__ and close() return.
EveryCallReturns == QuiesceReturnsEventually /\ NextReturnsEventually /\ CloseReturnsEventually
=============================================================================
