------------------------------ MODULE XetAttempt ------------------------------
(***************************************************************************)
(* One rung of the download ladder: _run_download_attempt of               *)
(* unsloth_zoo_downloads/hf_xet_fallback.py, the child process it starts,  *)
(* the result queue between them and the watchdog thread of                *)
(* start_watchdog, which kills a child that makes no progress.             *)
(*                                                                         *)
(* Time passes in ticks, one sampling interval long.  Sizes are left out:  *)
(* the watchdog only asks whether what it measures has changed, and        *)
(* whether a partial holds any byte.  Peers are the other writers of the   *)
(* same repository; one partial of theirs stands for all.                  *)
(***************************************************************************)
EXTENDS Integers

CONSTANTS
  StallTimeouts,  \* the values of stall_timeout: by rung, environment or caller
  HttpTicks,      \* DEFAULT_HTTP_STALL_TIMEOUT
  ConnectTicks,   \* connect_timeout: no byte in an open partial
  CeilingTicks,   \* PEER_SUPPRESSION_CEILING
  Horizon,        \* bound of the model: no clock runs past it
  MaxBlinks       \* bound of the model: reads that find the repository unreadable

\* Nothing orders the deadlines: the Xet rung stalls before it gives up to
\* connect, the HTTP rung after.
ASSUME TicksAssumption ==
  /\ {Horizon, MaxBlinks} \subseteq Nat
  /\ StallTimeouts \subseteq (1..Horizon)
  /\ {HttpTicks, ConnectTicks, CeilingTicks} \subseteq (0..Horizon)

VARIABLES
  kind, visible,  \* "file" or "snapshot"; the child's open files can be listed
  stallTicks,     \* stall_timeout: bytes have flowed, the disk is flat
  cpc, stuck,     \* the child, and whether it has stopped moving for good
  rise,           \* its memory against the watchdog's trough, in thresholds passed
  pipe,           \* the result that has reached the parent's end of the queue
  peer,           \* the peer's partial: is it there, live, fresh, with bytes?
  wpc, due,       \* the watchdog, and whether its interval is over
  moved,          \* the size it measures has changed since its last sample
  repoMoved,      \* and the repository's since it last looked for peers
  flat, waiting, held,   \* ticks since last_change, peer_wait_start, peer_hold_start
  seenEver,       \* seen_bytes_ever
  blinks,         \* unreadable samples so far
  stalled,        \* the event the parent polls; stall_verdict is set before it
  ppc,            \* the parent
  outcome,
  left, adopted,  \* the partial the killed child leaves; has a peer resumed it?
  found, owned,   \* "inferred", and "_owned_incomplete_blobs"
  \* history, read by the properties only
  resumed,        \* names a peer opened after the parent had listed them
  quiet,          \* ticks since the child last wrote a byte
  early           \* its result had arrived when the stall was signalled

childVars  == <<cpc, stuck, rise>>
diskVars   == <<peer, moved, repoMoved>>
blobVars   == <<adopted, resumed>>
clocks     == <<flat, waiting, held, due, quiet>>
watchVars  == <<wpc, seenEver, blinks, stalled, early>>
parentVars == <<ppc, left, found, owned, outcome>>
setting    == <<kind, visible, stallTicks>>
vars == <<setting, childVars, diskVars, blobVars, clocks, watchVars, parentVars, pipe>>

Off == -1                      \* a clock that has not been started
NoPeer == [there |-> FALSE, live |-> FALSE, fresh |-> FALSE, bytes |-> FALSE]

\* A partial of a peer; a live one may be found at work, or left by a crash.
PeerPartial == {p \in [there : {TRUE}, live : BOOLEAN, fresh : BOOLEAN, bytes : BOOLEAN] :
                  p.live => p.fresh}

TypeOK ==
  /\ kind \in {"file", "snapshot"} /\ stallTicks \in StallTimeouts
  /\ {visible, stuck, due, moved, repoMoved, seenEver, stalled, early, adopted}
       \subseteq BOOLEAN
  /\ cpc \in {"off", "wait", "empty", "flow", "gap", "exit", "gone"}
  /\ rise \in 0..2
  /\ pipe \in {"none", "ok", "error"}
  /\ peer \in PeerPartial \cup {NoPeer}
  /\ wpc \in {"off", "loop", "note", "done"}
  /\ flat \in 0..Horizon /\ quiet \in 0..Horizon
  /\ waiting \in Off..Horizon /\ held \in Off..Horizon
  /\ blinks \in 0..MaxBlinks
  /\ ppc \in {"start", "watch", "loop", "lastcall", "capture", "killfirst", "scan",
              "walk", "kill", "drain", "returned"}
  /\ left \in {"none", "old", "new"}
  /\ {found, owned, resumed} \subseteq SUBSET {"mine", "peer"}
  /\ outcome \in {"none", "ok", "error", "stall", "cancelled", "crashed", "raised"}

Init ==
  /\ kind \in {"file", "snapshot"} /\ visible \in BOOLEAN /\ stallTicks \in StallTimeouts
  /\ cpc = "off" /\ stuck = FALSE /\ rise = 0 /\ pipe = "none"
  /\ peer \in {NoPeer} \cup PeerPartial
  /\ wpc = "off" /\ due = FALSE /\ moved = FALSE /\ repoMoved = TRUE
  /\ flat = 0 /\ waiting = Off /\ held = Off /\ seenEver = FALSE /\ blinks = 0
  /\ stalled = FALSE
  /\ ppc = "start"
  /\ left = "none" /\ found = {} /\ owned = {} /\ outcome = "none"
  /\ adopted = FALSE /\ resumed = {}
  /\ quiet = 0 /\ early = FALSE

-----------------------------------------------------------------------------
(* The child. *)

Alive == cpc \notin {"off", "gone"}
Open  == cpc \in {"empty", "flow"}       \* it holds a partial open
Moves == Alive /\ ~stuck

\* The watchdog follows the child's own partials, or the whole repository.
OwnOnly == kind = "file" /\ visible

unchangedByChild == <<setting, peer, blobVars, flat, waiting, held, due, watchVars, parentVars>>

\* A byte of the child reaches the disk.
ByteLands == moved' = TRUE /\ repoMoved' = TRUE /\ quiet' = 0
NoByteLands == UNCHANGED <<moved, repoMoved, quiet>>

\* A resumed partial has bytes already; they count for its own measure.
OpenPartial ==
  /\ Moves /\ (cpc = "wait" \/ (cpc = "gap" /\ kind = "snapshot"))
  /\ cpc' \in {"empty", "flow"}
  /\ moved' = (moved \/ (cpc' = "flow" /\ OwnOnly))
  /\ UNCHANGED <<stuck, rise, pipe, repoMoved, quiet, unchangedByChild>>

Write ==
  /\ Moves /\ Open
  /\ cpc' = "flow" /\ ByteLands
  /\ UNCHANGED <<stuck, rise, pipe, unchangedByChild>>

\* A finished partial becomes a blob; it leaves the child's own measure.
ClosePartial ==
  /\ Moves /\ cpc = "flow"
  /\ cpc' = "gap"
  /\ moved' = (moved \/ OwnOnly)
  /\ UNCHANGED <<stuck, rise, pipe, repoMoved, quiet, unchangedByChild>>

\* Received and not yet written bytes fill its memory, or leave it.  What
\* falls below the trough is the trough of the next sample; after the last
\* sample nobody looks.
Buffer ==
  /\ Moves /\ Open /\ visible /\ wpc = "loop"
  /\ rise' \in 0..2
  /\ UNCHANGED <<cpc, stuck, pipe, unchangedByChild>> /\ NoByteLands

\* _download_child_entry: done or failed; its feeder thread has written the
\* result to the pipe.
Report ==
  /\ Moves /\ cpc \in {"wait", "empty", "flow", "gap"}
  /\ pipe' \in {"ok", "error"}
  /\ cpc' = "exit"
  /\ moved' = (moved \/ (cpc = "flow" /\ OwnOnly))
  /\ UNCHANGED <<stuck, rise, repoMoved, quiet, unchangedByChild>>

Exits ==
  /\ Moves /\ cpc = "exit"
  /\ cpc' = "gone"
  /\ UNCHANGED <<stuck, rise, pipe, unchangedByChild>> /\ NoByteLands

\* A native crash, at any moment.
Crashes ==
  /\ Alive
  /\ cpc' = "gone"
  /\ UNCHANGED <<stuck, rise, pipe, unchangedByChild>> /\ NoByteLands

\* Hung for good: on the network, on a lock, at exit.
Hangs ==
  /\ Moves
  /\ stuck' = TRUE
  /\ UNCHANGED <<cpc, rise, pipe, unchangedByChild>> /\ NoByteLands

Child == OpenPartial \/ Write \/ ClosePartial \/ Buffer \/ Report \/ Exits \/ Crashes \/ Hangs

-----------------------------------------------------------------------------
(* The environment: time and the other writers. *)

Older(clock) == IF clock = Off \/ clock = Horizon THEN clock ELSE clock + 1

Tick ==
  /\ wpc = "loop" /\ Alive
  /\ flat' = Older(flat) /\ waiting' = Older(waiting) /\ held' = Older(held)
  /\ quiet' = Older(quiet) /\ due' = TRUE
  /\ UNCHANGED <<setting, childVars, diskVars, blobVars, watchVars, parentVars, pipe>>

\* What the parent has listed as its own so far.
Listed == found \cup owned

\* A peer opens a partial, writes to it, finishes it or dies, resumes one that
\* was left, and a partial nobody writes to gets old.  Its bytes are part of
\* the repository's.  Peers go on while the parent infers and after a stall.
PeerMoves ==
  /\ Alive \/ ppc \in {"scan", "walk"} \/ outcome = "stall"
  /\ \/ ~peer.there /\ peer' = [there |-> TRUE, live |-> TRUE, fresh |-> TRUE, bytes |-> FALSE]
     \/ peer.live /\ peer' \in {[peer EXCEPT !.bytes = TRUE], [peer EXCEPT !.live = FALSE], NoPeer}
     \/ peer.there /\ ~peer.live /\ peer' \in {[peer EXCEPT !.fresh = FALSE],
                                             [peer EXCEPT !.live = TRUE, !.fresh = TRUE]}
  /\ moved' = (moved \/ (peer'.bytes /\ peer.live /\ peer'.live /\ ~OwnOnly))
  /\ repoMoved' = (repoMoved \/ (peer'.bytes /\ peer.live /\ peer'.live))
  /\ resumed' = resumed \cup (IF ~peer.live /\ peer'.live THEN Listed \cap {"peer"} ELSE {})
  /\ UNCHANGED <<setting, childVars, adopted, clocks, watchVars, parentVars, pipe>>

\* The dead child's lock is free: a peer that queued on it resumes its partial.
PeerAdopts ==
  /\ left # "none" /\ ~adopted
  /\ adopted' = TRUE /\ resumed' = resumed \cup (Listed \cap {"mine"})
  /\ UNCHANGED <<setting, childVars, diskVars, clocks, watchVars, parentVars, pipe>>

-----------------------------------------------------------------------------
(* The watchdog: _beat of start_watchdog. *)

\* _measure: is a partial there, and does one hold a byte?
HasIncomplete == Open \/ (peer.there /\ ~OwnOnly)
EverSeen == seenEver \/ cpc = "flow"                           \* mutant
SeenBytes == cpc = "flow" \/ (peer.bytes /\ ~OwnOnly)

unchangedByWatch == <<setting, cpc, stuck, peer, blobVars, quiet, parentVars, pipe>>

\* A tick of the watchdog.  Nobody reads its verdict on a child that is gone.
Samples == wpc = "loop" /\ due /\ Alive

\* The clocks as this sample reads them.
Flat    == IF moved THEN 0 ELSE flat
Held    == IF moved THEN Off ELSE held
Waiting == IF SeenBytes THEN Off ELSE waiting
Trough  == IF moved THEN 0 ELSE rise

Progressed == flat' = 0
StillFlat == flat' = Flat

Trip == wpc' = "note"
Carries == UNCHANGED wpc

\* _peer_hold_ok and _waiting_on_a_peers_partial: a snapshot's child without
\* a partial of its own beside a fresh one is queued on a lock.
Queued == kind = "snapshot" /\ visible /\ ~Open /\ peer.fresh
NeverHold == FALSE                                             \* mutant
MayAlwaysHold == Queued                                        \* mutant
MayHold == Queued /\ (Held = Off \/ Held < CeilingTicks)
HoldOn == held' = IF Queued /\ Held = Off THEN 0 ELSE Held

\* Bytes flowed and a partial is open: flat for too long is a stall, unless
\* the child's memory grows or it waits for a peer.
PatientTicks == IF stallTicks > HttpTicks THEN stallTicks ELSE HttpTicks
Deadline == IF visible /\ Trough = 1 THEN PatientTicks ELSE stallTicks

SampleData ==
  /\ HasIncomplete /\ SeenBytes
  /\ rise' = IF Trough = 2 THEN 0 ELSE Trough
  /\ CASE Trough = 2       -> Progressed /\ held' = Held /\ Carries
       [] Trough # 2 /\ Flat < Deadline -> StillFlat /\ held' = Held /\ Carries
       [] OTHER -> /\ HoldOn
                   /\ IF MayHold THEN Progressed /\ Carries
                                 ELSE StillFlat /\ Trip
  /\ waiting' = Waiting
  /\ UNCHANGED <<repoMoved, blinks>>

\* Bytes flowed and no partial is open: the child is between two files.
SampleGap ==
  /\ ~HasIncomplete /\ seenEver
  /\ IF Flat >= ConnectTicks
       THEN HoldOn /\ (IF MayHold THEN Carries ELSE Trip)
       ELSE held' = Held /\ Carries
  /\ StillFlat /\ waiting' = Waiting
  /\ rise' = IF moved THEN 0 ELSE rise
  /\ UNCHANGED <<repoMoved, blinks>>

\* _peer_progressing: the repository is unreadable, it grew, or a partial in
\* it is fresh.  The child's own empty one is one of those.
PeerProgressing(unread) == kind = "file" /\ (unread \/ repoMoved \/ peer.fresh \/ Open)

\* No byte in an open partial: connecting, or queued behind a peer.
SampleConnect == \E unread \in BOOLEAN :
  /\ unread => kind = "file" /\ blinks < MaxBlinks
  /\ blinks' = IF unread THEN blinks + 1 ELSE blinks
  /\ ~SeenBytes /\ ~(~HasIncomplete /\ seenEver)
  /\ repoMoved' = (unread \/ (repoMoved /\ kind # "file"))
  /\ IF PeerProgressing(unread) /\ (Waiting = Off \/ Waiting < CeilingTicks)
       THEN /\ waiting' = IF Waiting = Off THEN 0 ELSE Waiting
            /\ Progressed /\ Carries
       ELSE /\ waiting' = Waiting /\ StillFlat
            /\ IF Flat >= ConnectTicks THEN Trip ELSE Carries
  /\ held' = Held
  /\ rise' = IF moved THEN 0 ELSE rise

Sample ==
  /\ Samples
  /\ SampleData \/ SampleGap \/ SampleConnect
  /\ due' = FALSE /\ moved' = FALSE
  /\ seenEver' = (seenEver \/ SeenBytes)
  /\ UNCHANGED <<stalled, early, unchangedByWatch>>

\* The repository cannot be read this time: taken for progress.
SampleBlind ==
  /\ Samples /\ ~OwnOnly /\ blinks < MaxBlinks
  /\ blinks' = blinks + 1
  /\ Progressed /\ due' = FALSE
  /\ UNCHANGED <<wpc, seenEver, stalled, early, rise, moved, repoMoved, waiting, held,
                 unchangedByWatch>>

\* _note_stall: the message is in place before the event is set.  The thread
\* ends here, and its locals with it.
NoteStall ==
  /\ wpc = "note"
  /\ stalled' = TRUE /\ early' = (pipe # "none")
  /\ wpc' = "done"
  /\ flat' = 0 /\ waiting' = Off /\ held' = Off /\ rise' = 0
  /\ seenEver' = FALSE /\ due' = FALSE /\ quiet' = 0
  /\ UNCHANGED <<setting, cpc, stuck, diskVars, blobVars, blinks, parentVars, pipe>>

Watchdog == Sample \/ SampleBlind \/ NoteStall

-----------------------------------------------------------------------------
(* The parent: _run_download_attempt. *)

unchangedByParent == <<setting, stuck, rise, diskVars, blobVars, clocks>>
blobs == <<left, found, owned>>
watching == <<wpc, seenEver, blinks, stalled, early>>

\* _terminate_process_group: SIGTERM, then SIGKILL.
Kill == cpc' = "gone"

\* Every way out passes the finally clause: the watchdog is stopped, the child
\* joined and, still there, killed.  So does a KeyboardInterrupt.
Leave(with) ==
  /\ ppc' = "returned" /\ outcome' = with
  /\ Kill

GoTo(place) == ppc' = place /\ UNCHANGED outcome

StartChild ==
  /\ ppc = "start"
  /\ \/ GoTo("watch") /\ cpc' = "wait"
     \/ ppc' = "returned" /\ outcome' = "raised" /\ UNCHANGED cpc
  /\ UNCHANGED <<blobs, pipe, watching, unchangedByParent>>

\* start_watchdog, with its first measure; if it raises the child is reaped.
StartWatchdog ==
  /\ ppc = "watch"
  /\ \/ /\ GoTo("loop") /\ wpc' = "loop" /\ UNCHANGED cpc
        /\ flat' = 0 /\ moved' = FALSE /\ seenEver' = SeenBytes
     \/ /\ Leave("raised")
        /\ UNCHANGED <<wpc, flat, moved, seenEver>>
  /\ UNCHANGED <<setting, stuck, rise, peer, repoMoved, blobVars, waiting, held, due, quiet,
                 blinks, stalled, early, blobs, pipe>>

\* The top of the loop: is the child gone, or has it stalled?
Look ==
  /\ ppc = "loop"
  /\ \/ ~Alive /\ GoTo("drain")
     \/ Alive /\ stalled /\ GoTo("lastcall")
  /\ UNCHANGED <<cpc, blobs, pipe, watching, unchangedByParent>>

\* The user has cancelled, and the parent sees it first.
Cancel ==
  /\ ppc = "loop" /\ Alive
  /\ Leave("cancelled")
  /\ UNCHANGED <<blobs, pipe, watching, unchangedByParent>>

QueueUnread == TRUE                                            \* mutant
QueueEmpty == pipe = "none"

\* Three reads of the queue with a time-out: the poll of the loop, the last look
\* before a stalled child is given up, and the drain behind a dead one.
ReadQueue ==
  /\ ppc \in {"loop", "lastcall", "drain"}
  /\ \/ ~QueueEmpty /\ Leave(pipe)
     \/ /\ QueueEmpty
        /\ \/ ppc = "lastcall" /\ GoTo("capture") /\ UNCHANGED cpc
           \/ ppc = "drain" /\ Leave("crashed")
  /\ UNCHANGED <<blobs, pipe, watching, unchangedByParent>>

Leaves == left' \in IF Open THEN {"old", "new"} ELSE {"none"}

\* The partials the child has open are its own, and it runs on.  With none
\* known they are inferred; without a baseline nothing is known.
Capture ==
  /\ ppc = "capture"
  /\ \/ visible /\ Open /\ owned' = {"mine"} /\ GoTo("kill")
     \/ ~(visible /\ Open) /\ ppc' \in {"kill", "killfirst"} /\ UNCHANGED <<owned, outcome>>
  /\ UNCHANGED <<cpc, left, found, pipe, watching, unchangedByParent>>

\* The child goes before the question who writes, or it would be an answer.
KillFirst ==
  /\ ppc = "killfirst"
  /\ Leaves /\ Kill /\ GoTo("scan")
  /\ UNCHANGED <<found, owned, pipe, watching, unchangedByParent>>

\* "current - baseline_partials": a peer's partial may be new as well.
Scan ==
  /\ ppc = "scan"
  /\ \E peers \in SUBSET {p \in {"peer"} : peer.there} :
       found' = {p \in {"mine"} : left = "new"} \cup peers
  /\ GoTo("walk")
  /\ UNCHANGED <<cpc, left, owned, pipe, watching, unchangedByParent>>

GrownWriters == {p \in {"peer"} : peer.live /\ peer.bytes} \cup {p \in {"mine"} : adopted}   \* mutant
Writers == {p \in {"peer"} : peer.live} \cup {p \in {"mine"} : adopted}

\* The walk over all processes: what somebody writes to is not ours, and if it
\* may have missed a writer nothing is.
Walk ==
  /\ ppc = "walk"
  /\ owned' \in {found \ Writers, {}}
  /\ Leave("stall")
  /\ UNCHANGED <<left, found, pipe, watching, unchangedByParent>>

KillLast ==
  /\ ppc = "kill"
  /\ Leaves /\ Leave("stall")
  /\ UNCHANGED <<found, owned, pipe, watching, unchangedByParent>>

Parent ==
  StartChild \/ StartWatchdog \/ Look \/ ReadQueue \/ Capture \/ KillFirst \/ Scan \/ Walk \/ KillLast

-----------------------------------------------------------------------------
Next == Child \/ Tick \/ PeerMoves \/ PeerAdopts \/ Watchdog \/ Parent \/ Cancel

Spec == Init /\ [][Next]_vars

\* Time passes and both threads of the parent run; nothing is assumed of the
\* child, of peers and of the user.
FairSpec == Spec /\ WF_vars(Tick) /\ WF_vars(Watchdog) /\ WF_vars(Parent)

-----------------------------------------------------------------------------
(* What the ladder relies on when it acts on the outcome of an attempt. *)

Trips == wpc = "loop" /\ wpc' = "note"

\* A stall is charged to the machine, so it must be one: the child has written
\* nothing for the whole deadline of the phase it is in, however the deadlines
\* of the rung are ordered.  With a byte in its partial that is the stall
\* time-out, the patient one while its memory grows slowly; with none it is the
\* connect deadline, unless the bytes of a peer hide the phase.
StallIsEarned == [][Trips =>
  quiet >= CASE cpc = "flow" /\ rise = 1 /\ ~moved -> PatientTicks
             [] cpc = "flow" /\ (rise # 1 \/ moved) -> stallTicks
             [] cpc # "flow" /\ (OwnOnly \/ ~peer.bytes) -> ConnectTicks
             [] OTHER -> stallTicks]_vars

\* A child that queues for a peer's transfer is not taken for a hung one until
\* the ceiling, as long as the peer's partial is fresh.  (A snapshot's child
\* is, before the peer has written its first byte.)
WaiterSpared == [][Trips /\ visible /\ peer.fresh /\ peer.bytes /\ ~Open
                     /\ (kind = "snapshot" \/ cpc = "wait")
                   => quiet >= CeilingTicks]_vars

\* A result the child managed to send is never lost: neither to "crashed",
\* when the child is gone before the parent looks, nor to a stall that is
\* signalled after the result has arrived.
ResultNotLost ==
  /\ outcome = "crashed" => pipe = "none"
  /\ outcome = "stall" => ~early

\* The purge before the next rung unlinks what the attempt owns.  While peers
\* open, finish, leave and resume partials between the scan, the walk and the
\* return, the only ones of those a peer writes to are the ones it opened
\* after the parent had listed them.
OwnershipRight ==
  outcome = "stall" =>
    /\ peer.live /\ "peer" \in owned => "peer" \in resumed
    /\ adopted /\ "mine" \in owned => "mine" \in resumed

\* A child that hangs for good is given up, whatever it hangs on and however
\* peers come and go; only bytes of peers, where the watchdog cannot tell them
\* from the child's, put it off, and only for as long as they keep coming.
HangsAreCaught == stuck ~> ppc = "returned" \/ (moved /\ ~OwnOnly)

\* No child outlives its attempt.
ChildReaped == ppc = "returned" => ~Alive

-----------------------------------------------------------------------------
(* What the repository says and the code does not do. *)

\* "a fresh peer-owned partial is the liveness signal": the connect clock is
\* put back for a peer, by growth or by a partial that is a peer's.
HeldForAPeer == [][Samples /\ due' = FALSE /\ OwnOnly /\ ~SeenBytes /\ ~moved /\ ~repoMoved
                     /\ flat > 0 /\ flat' = 0 /\ blinks' = blinks => peer.fresh]_vars

\* "A genuine success is exempt: the bytes are on disk".
SuccessSurvivesCancel == outcome = "cancelled" => pipe # "ok"
=============================================================================
