--------------------------- MODULE XetDownload_proof ---------------------------
(***************************************************************************)
(* The two parts of a Xet download below the ladder: one attempt with its  *)
(* watchdog (XetAttempt), for every choice of the deadlines, and the       *)
(* health record its outcome is reported to (XetHealth), for every set of  *)
(* processes, threads and keys and any number of calls.                    *)
(***************************************************************************)
EXTENDS XetAttempt, XetHealth, TLAPS

-----------------------------------------------------------------------------
(* One attempt. *)

\* There is no child before it is started, and none once the parent drains,
\* infers or leaves.
ChildGone ==
  /\ ppc = "start" => cpc = "off"
  /\ ppc \in {"drain", "scan", "walk", "returned"} => ~Alive

\* A stall is signalled once; a parent that acts on it has looked into the
\* queue after that.
Signalled ==
  /\ stalled => wpc = "done"
  /\ ppc \in {"start", "watch"} => wpc = "off"
  /\ ppc \in {"lastcall", "capture", "killfirst", "scan", "walk", "kill"} => stalled
  /\ early => pipe # "none"
  /\ ppc \in {"capture", "killfirst", "scan", "walk", "kill"} => ~early
  /\ outcome = "stall" => stalled
  /\ outcome # "none" => ppc = "returned"

\* What the child held when it was asked is its own; nobody resumes a partial
\* of a child that lives.
Untouched ==
  /\ ppc \notin {"kill", "returned"} => owned = {}
  /\ ppc = "kill" => owned \subseteq {"mine"}
  /\ ppc \in {"start", "watch", "loop", "lastcall", "capture", "killfirst", "kill"} => left = "none"
  /\ left = "none" => ~adopted

\* Every byte of the child since the last sample is in "moved": otherwise no
\* clock of the watchdog runs ahead of the time since the child's last byte.
ClocksBehind ==
  /\ moved \/ flat <= quiet
  /\ moved \/ held <= quiet
  /\ ppc \in {"start", "watch"} => held = Off
  /\ cpc \in {"off", "wait"} => waiting <= quiet

\* What the watchdog knows of a child comes from that child.
Measured ==
  /\ rise # 0 => visible
  /\ OwnOnly /\ cpc \in {"off", "wait"} => ~seenEver

AttemptInv == TypeOK /\ ChildGone /\ Signalled /\ Untouched /\ ResultNotLost
              /\ OwnershipRight /\ ClocksBehind /\ Measured
-----------------------------------------------------------------------------
LEMMA AttemptTyped == TypeOK /\ [Next]_vars => TypeOK'
<1> SUFFICES ASSUME TypeOK, [Next]_vars PROVE TypeOK'
  OBVIOUS
<1> USE TicksAssumption DEF TypeOK
<1> USE DEF setting, childVars, diskVars, blobVars, blobs, clocks, watchVars, parentVars, watching,
           unchangedByChild, unchangedByWatch, unchangedByParent
<1>1. CASE OpenPartial
  BY <1>1 DEF OpenPartial, ByteLands, NoByteLands
<1>2. CASE Write
  BY <1>2 DEF Write, ByteLands
<1>3. CASE ClosePartial
  BY <1>3 DEF ClosePartial
<1>4. CASE Buffer
  BY <1>4 DEF Buffer, NoByteLands
<1>5. CASE Report
  BY <1>5 DEF Report
<1>6. CASE Exits
  BY <1>6 DEF Exits, NoByteLands
<1>7. CASE Crashes
  BY <1>7 DEF Crashes, NoByteLands
<1>8. CASE Hangs
  BY <1>8 DEF Hangs, NoByteLands
<1>9. CASE Tick
  <2>1. /\ Older(flat) \in 0..Horizon /\ Older(quiet) \in 0..Horizon
        /\ Older(waiting) \in Off..Horizon /\ Older(held) \in Off..Horizon
    BY DEF Older, Off
  <2>2. UNCHANGED <<setting, childVars, diskVars, blobVars, watchVars, parentVars, pipe>> /\ due' = TRUE
    BY <1>9 DEF Tick
  <2>3. flat' = Older(flat) /\ quiet' = Older(quiet) /\ waiting' = Older(waiting) /\ held' = Older(held)
    BY <1>9 DEF Tick
  <2> QED
    BY <2>1, <2>2, <2>3
<1>10. CASE PeerMoves
  <2>1. peer' \in PeerPartial \cup {NoPeer}
    <3>1. CASE ~peer.there /\ peer' = [there |-> TRUE, live |-> TRUE, fresh |-> TRUE, bytes |-> FALSE]
      BY <3>1 DEF PeerPartial
    <3>2. CASE peer.live /\ peer' \in {[peer EXCEPT !.bytes = TRUE], [peer EXCEPT !.live = FALSE], NoPeer}
      <4>1. peer \in PeerPartial
        BY <3>2 DEF NoPeer
      <4>2. [peer EXCEPT !.bytes = TRUE] \in PeerPartial /\ [peer EXCEPT !.live = FALSE] \in PeerPartial
        BY <4>1 DEF PeerPartial
      <4> QED
        BY <3>2, <4>2
    <3>3. CASE peer.there /\ ~peer.live /\ peer' \in {[peer EXCEPT !.fresh = FALSE],
                                                   [peer EXCEPT !.live = TRUE, !.fresh = TRUE]}
      <4>1. peer \in PeerPartial
        BY <3>3 DEF NoPeer
      <4> QED
        BY <3>3, <4>1 DEF PeerPartial
    <3> QED
      BY <1>10, <3>1, <3>2, <3>3 DEF PeerMoves
  <2>2. UNCHANGED <<setting, childVars, adopted, clocks, watchVars, parentVars, pipe>>
    BY <1>10 DEF PeerMoves
  <2>4. resumed' \subseteq {"mine", "peer"}
    BY <1>10 DEF PeerMoves, Listed
  <2>3. moved' \in BOOLEAN /\ repoMoved' \in BOOLEAN
    BY <1>10 DEF PeerMoves
  <2>5. {visible, stuck, due, moved, repoMoved, seenEver, stalled, early, adopted}' \subseteq BOOLEAN
    BY <2>2, <2>3
  <2>6. {found, owned, resumed}' \subseteq SUBSET {"mine", "peer"}
    BY <2>2, <2>4
  <2> QED
    BY <2>1, <2>2, <2>5, <2>6
<1>11. CASE Sample
  <2>1. /\ Flat \in 0..Horizon /\ Held \in Off..Horizon
        /\ Waiting \in Off..Horizon /\ Trough \in 0..2
    BY DEF Flat, Held, Waiting, Trough, Off
  <2>2. flat' \in {0, Flat} /\ held' \in {0, Held} /\ waiting' \in {0, Waiting} /\ rise' \in {0, rise, Trough}
    BY <1>11 DEF Sample, SampleData, SampleGap, SampleConnect, Progressed, StillFlat, HoldOn
  <2>3. wpc' \in {wpc, "note"} /\ repoMoved' \in BOOLEAN
    BY <1>11 DEF Sample, SampleData, SampleGap, SampleConnect, Trip, Carries
  <2>4. /\ due' = FALSE /\ moved' = FALSE /\ seenEver' \in BOOLEAN
        /\ UNCHANGED <<stalled, early, unchangedByWatch>>
    BY <1>11 DEF Sample
  <2>8. blinks' \in 0..MaxBlinks
    BY <1>11 DEF Sample, SampleData, SampleGap, SampleConnect
  <2>5. flat' \in 0..Horizon /\ held' \in Off..Horizon /\ waiting' \in Off..Horizon
        /\ rise' \in 0..2
    BY <2>1, <2>2 DEF Off, Trough
  <2>6. wpc' \in {"off", "loop", "note", "done"} /\ repoMoved' \in BOOLEAN
    BY <2>3
  <2>7. {visible, stuck, due, moved, repoMoved, seenEver, stalled, early, adopted}' \subseteq BOOLEAN
    BY <2>4, <2>6
  <2> QED
    BY <2>4, <2>5, <2>6, <2>7, <2>8
<1>12. CASE SampleBlind
  <2>1. /\ blinks' \in 0..MaxBlinks /\ flat' = 0 /\ due' = FALSE
        /\ UNCHANGED <<wpc, seenEver, stalled, early, rise, moved, repoMoved, waiting, held,
                       unchangedByWatch>>
    BY <1>12 DEF SampleBlind, Progressed
  <2>2. {visible, stuck, due, moved, repoMoved, seenEver, stalled, early, adopted}' \subseteq BOOLEAN
    BY <2>1
  <2> QED
    BY <2>1, <2>2
<1>13. CASE NoteStall
  <2>1. /\ flat' \in 0..Horizon /\ waiting' \in Off..Horizon /\ held' \in Off..Horizon
        /\ quiet' \in 0..Horizon /\ rise' \in 0..2
    BY <1>13 DEF NoteStall, Off
  <2>2. /\ {stalled, early, seenEver, due}' \subseteq BOOLEAN /\ wpc' = "done"
        /\ UNCHANGED <<setting, cpc, stuck, diskVars, blobVars, blinks, parentVars, pipe>>
    BY <1>13 DEF NoteStall
  <2> QED
    BY <2>1, <2>2
<1>14. CASE StartChild
  BY <1>14 DEF StartChild, GoTo
<1>15. CASE StartWatchdog
  <2>1. flat' \in {0, flat} /\ moved' \in {FALSE, moved} /\ wpc' \in {"loop", wpc}
    BY <1>15 DEF StartWatchdog
  <2>2. seenEver' \in BOOLEAN
    BY <1>15 DEF StartWatchdog, SeenBytes, PeerPartial, NoPeer
  <2>3. /\ ppc' \in {"loop", "returned"} /\ outcome' \in {outcome, "raised"} /\ cpc' \in {cpc, "gone"}
        /\ UNCHANGED <<setting, stuck, rise, peer, repoMoved, blobVars, waiting, held, due, quiet,
                       blinks, stalled, early, blobs, pipe>>
    BY <1>15 DEF StartWatchdog, GoTo, Leave, Kill
  <2>4. {visible, stuck, due, moved, repoMoved, seenEver, stalled, early, adopted}' \subseteq BOOLEAN
    BY <2>1, <2>2, <2>3
  <2> QED
    BY <2>1, <2>2, <2>3, <2>4
<1>16. CASE Look
  BY <1>16 DEF Look, GoTo
<1>17. CASE ReadQueue
  BY <1>17 DEF ReadQueue, GoTo, Leave, Kill, QueueEmpty
<1>18. CASE Capture
  BY <1>18 DEF Capture, GoTo, Leave, Kill
<1>19. CASE KillFirst
  BY <1>19 DEF KillFirst, GoTo, Kill, Leaves
<1>22. CASE Scan
  <2>1. found' \subseteq {"mine", "peer"}
    BY <1>22 DEF Scan
  <2>2. /\ ppc' = "walk"
        /\ UNCHANGED <<outcome, cpc, left, owned, pipe, watching, unchangedByParent>>
    BY <1>22 DEF Scan, GoTo
  <2> QED
    BY <2>1, <2>2
<1>23. CASE Walk
  BY <1>23 DEF Walk, Leave, Kill, Writers
<1>24. CASE KillLast
  BY <1>24 DEF KillLast, Leave, Kill, Leaves
<1>25. CASE PeerAdopts
  BY <1>25 DEF PeerAdopts, Listed
<1>20. CASE Cancel
  BY <1>20 DEF Cancel, Leave, Kill
<1>21. CASE UNCHANGED vars
  BY <1>21 DEF vars
<1> QED
  BY <1>1, <1>2, <1>3, <1>4, <1>5, <1>6, <1>7, <1>8, <1>9, <1>10, <1>11, <1>12, <1>13, <1>14,
     <1>15, <1>16, <1>17, <1>18, <1>19, <1>20, <1>21, <1>22, <1>23, <1>24, <1>25
  DEF Next, Child, Watchdog, Parent

LEMMA GoneStep == ChildGone /\ [Next]_vars => ChildGone'
<1> SUFFICES ASSUME ChildGone, [Next]_vars PROVE ChildGone'
  OBVIOUS
<1> USE DEF ChildGone, Alive, Moves, Open
<1> USE DEF setting, childVars, diskVars, blobVars, blobs, clocks, watchVars, parentVars, watching,
           unchangedByChild, unchangedByWatch, unchangedByParent
<1>1. CASE OpenPartial
  BY <1>1 DEF OpenPartial, ByteLands, NoByteLands
<1>2. CASE Write
  BY <1>2 DEF Write, ByteLands
<1>3. CASE ClosePartial
  BY <1>3 DEF ClosePartial
<1>4. CASE Buffer
  BY <1>4 DEF Buffer, NoByteLands
<1>5. CASE Report
  BY <1>5 DEF Report
<1>6. CASE Exits
  BY <1>6 DEF Exits, NoByteLands
<1>7. CASE Crashes
  BY <1>7 DEF Crashes, NoByteLands
<1>8. CASE Hangs
  BY <1>8 DEF Hangs, NoByteLands
<1>9. CASE Tick
  BY <1>9 DEF Tick, Older
<1>10. CASE PeerMoves
  BY <1>10 DEF PeerMoves
<1>11. CASE Sample
  BY <1>11 DEF Sample, Samples, SampleData, SampleGap, SampleConnect, Flat, Held,
     Waiting, Trough, Progressed, StillFlat, Trip, Carries, HoldOn
<1>12. CASE SampleBlind
  BY <1>12 DEF SampleBlind, Samples, Progressed
<1>13. CASE NoteStall
  BY <1>13 DEF NoteStall
<1>14. CASE StartChild
  BY <1>14 DEF StartChild, GoTo
<1>15. CASE StartWatchdog
  BY <1>15 DEF StartWatchdog, GoTo, Leave, Kill
<1>16. CASE Look
  BY <1>16 DEF Look, GoTo
<1>17. CASE ReadQueue
  BY <1>17 DEF ReadQueue, GoTo, Leave, Kill, QueueEmpty
<1>18. CASE Capture
  BY <1>18 DEF Capture, GoTo, Leave, Kill
<1>19. CASE KillFirst
  BY <1>19 DEF KillFirst, GoTo, Kill, Leaves
<1>22. CASE Scan
  BY <1>22 DEF Scan, GoTo
<1>23. CASE Walk
  BY <1>23 DEF Walk, Leave, Kill, Writers
<1>24. CASE KillLast
  BY <1>24 DEF KillLast, Leave, Kill, Leaves
<1>25. CASE PeerAdopts
  BY <1>25 DEF PeerAdopts, Listed
<1>20. CASE Cancel
  BY <1>20 DEF Cancel, Leave, Kill
<1>21. CASE UNCHANGED vars
  BY <1>21 DEF vars
<1> QED
  BY <1>1, <1>2, <1>3, <1>4, <1>5, <1>6, <1>7, <1>8, <1>9, <1>10, <1>11, <1>12, <1>13, <1>14,
     <1>15, <1>16, <1>17, <1>18, <1>19, <1>20, <1>21, <1>22, <1>23, <1>24, <1>25
  DEF Next, Child, Watchdog, Parent

LEMMA UntouchedStep == Untouched /\ [Next]_vars => Untouched'
<1> SUFFICES ASSUME Untouched, [Next]_vars PROVE Untouched'
  OBVIOUS
<1> USE DEF Untouched
<1> USE DEF setting, childVars, diskVars, blobVars, blobs, clocks, watchVars, parentVars, watching,
           unchangedByChild, unchangedByWatch, unchangedByParent
<1>1. CASE OpenPartial
  BY <1>1 DEF OpenPartial, ByteLands, NoByteLands
<1>2. CASE Write
  BY <1>2 DEF Write, ByteLands
<1>3. CASE ClosePartial
  BY <1>3 DEF ClosePartial
<1>4. CASE Buffer
  BY <1>4 DEF Buffer, NoByteLands
<1>5. CASE Report
  BY <1>5 DEF Report
<1>6. CASE Exits
  BY <1>6 DEF Exits, NoByteLands
<1>7. CASE Crashes
  BY <1>7 DEF Crashes, NoByteLands
<1>8. CASE Hangs
  BY <1>8 DEF Hangs, NoByteLands
<1>9. CASE Tick
  BY <1>9 DEF Tick, Older
<1>10. CASE PeerMoves
  BY <1>10 DEF PeerMoves
<1>11. CASE Sample
  BY <1>11 DEF Sample, Samples, SampleData, SampleGap, SampleConnect, Flat, Held,
     Waiting, Trough, Progressed, StillFlat, Trip, Carries, HoldOn
<1>12. CASE SampleBlind
  BY <1>12 DEF SampleBlind, Samples, Progressed
<1>13. CASE NoteStall
  BY <1>13 DEF NoteStall
<1>14. CASE StartChild
  BY <1>14 DEF StartChild, GoTo
<1>15. CASE StartWatchdog
  BY <1>15 DEF StartWatchdog, GoTo, Leave, Kill
<1>16. CASE Look
  BY <1>16 DEF Look, GoTo
<1>17. CASE ReadQueue
  BY <1>17 DEF ReadQueue, GoTo, Leave, Kill, QueueEmpty
<1>18. CASE Capture
  BY <1>18 DEF Capture, GoTo, Leave, Kill
<1>19. CASE KillFirst
  BY <1>19 DEF KillFirst, GoTo, Kill, Leaves
<1>22. CASE Scan
  BY <1>22 DEF Scan, GoTo
<1>23. CASE Walk
  BY <1>23 DEF Walk, Leave, Kill, Writers
<1>24. CASE KillLast
  BY <1>24 DEF KillLast, Leave, Kill, Leaves
<1>25. CASE PeerAdopts
  BY <1>25 DEF PeerAdopts, Listed
<1>20. CASE Cancel
  BY <1>20 DEF Cancel, Leave, Kill
<1>21. CASE UNCHANGED vars
  BY <1>21 DEF vars
<1> QED
  BY <1>1, <1>2, <1>3, <1>4, <1>5, <1>6, <1>7, <1>8, <1>9, <1>10, <1>11, <1>12, <1>13, <1>14,
     <1>15, <1>16, <1>17, <1>18, <1>19, <1>20, <1>21, <1>22, <1>23, <1>24, <1>25
  DEF Next, Child, Watchdog, Parent

LEMMA SignalStep == TypeOK /\ Signalled /\ [Next]_vars => Signalled'
<1> SUFFICES ASSUME TypeOK /\ Signalled, [Next]_vars PROVE Signalled'
  OBVIOUS
<1> USE DEF Signalled, Moves
<1> USE DEF setting, childVars, diskVars, blobVars, blobs, clocks, watchVars, parentVars, watching,
           unchangedByChild, unchangedByWatch, unchangedByParent
<1>1. CASE OpenPartial
  BY <1>1 DEF OpenPartial, ByteLands, NoByteLands
<1>2. CASE Write
  BY <1>2 DEF Write, ByteLands
<1>3. CASE ClosePartial
  BY <1>3 DEF ClosePartial
<1>4. CASE Buffer
  BY <1>4 DEF Buffer, NoByteLands
<1>5. CASE Report
  BY <1>5 DEF Report
<1>6. CASE Exits
  BY <1>6 DEF Exits, NoByteLands
<1>7. CASE Crashes
  BY <1>7 DEF Crashes, NoByteLands
<1>8. CASE Hangs
  BY <1>8 DEF Hangs, NoByteLands
<1>9. CASE Tick
  BY <1>9 DEF Tick, Older
<1>10. CASE PeerMoves
  BY <1>10 DEF PeerMoves
<1>11. CASE Sample
  BY <1>11 DEF Sample, Samples, SampleData, SampleGap, SampleConnect, Flat, Held,
     Waiting, Trough, Progressed, StillFlat, Trip, Carries, HoldOn
<1>12. CASE SampleBlind
  BY <1>12 DEF SampleBlind, Samples, Progressed
<1>13. CASE NoteStall
  BY <1>13 DEF NoteStall
<1>14. CASE StartChild
  BY <1>14 DEF StartChild, GoTo
<1>15. CASE StartWatchdog
  BY <1>15 DEF StartWatchdog, GoTo, Leave, Kill
<1>16. CASE Look
  BY <1>16 DEF Look, GoTo
<1>17. CASE ReadQueue
  <2>1. pipe \in {"none", "ok", "error"}
    BY DEF TypeOK
  <2> QED
    BY <1>17, <2>1 DEF ReadQueue, GoTo, Leave, Kill, QueueEmpty
<1>18. CASE Capture
  BY <1>18 DEF Capture, GoTo, Leave, Kill
<1>19. CASE KillFirst
  BY <1>19 DEF KillFirst, GoTo, Kill, Leaves
<1>22. CASE Scan
  BY <1>22 DEF Scan, GoTo
<1>23. CASE Walk
  BY <1>23 DEF Walk, Leave, Kill, Writers
<1>24. CASE KillLast
  BY <1>24 DEF KillLast, Leave, Kill, Leaves
<1>25. CASE PeerAdopts
  BY <1>25 DEF PeerAdopts, Listed
<1>20. CASE Cancel
  BY <1>20 DEF Cancel, Leave, Kill
<1>21. CASE UNCHANGED vars
  BY <1>21 DEF vars
<1> QED
  BY <1>1, <1>2, <1>3, <1>4, <1>5, <1>6, <1>7, <1>8, <1>9, <1>10, <1>11, <1>12, <1>13, <1>14,
     <1>15, <1>16, <1>17, <1>18, <1>19, <1>20, <1>21, <1>22, <1>23, <1>24, <1>25
  DEF Next, Child, Watchdog, Parent

LEMMA OutcomeStep ==
  TypeOK /\ ChildGone /\ Signalled /\ Untouched /\ ResultNotLost /\ OwnershipRight /\ [Next]_vars
    => (ResultNotLost /\ OwnershipRight)'
<1> SUFFICES ASSUME TypeOK, ChildGone, Signalled, Untouched, ResultNotLost, OwnershipRight, [Next]_vars
             PROVE  (ResultNotLost /\ OwnershipRight)'
  OBVIOUS
<1> USE DEF ChildGone, Alive, Moves, Open, Signalled, Untouched, ResultNotLost, OwnershipRight
<1> USE DEF setting, childVars, diskVars, blobVars, blobs, clocks, watchVars, parentVars, watching,
           unchangedByChild, unchangedByWatch, unchangedByParent
<1>1. CASE OpenPartial
  BY <1>1 DEF OpenPartial, ByteLands, NoByteLands
<1>2. CASE Write
  BY <1>2 DEF Write, ByteLands
<1>3. CASE ClosePartial
  BY <1>3 DEF ClosePartial
<1>4. CASE Buffer
  BY <1>4 DEF Buffer, NoByteLands
<1>5. CASE Report
  BY <1>5 DEF Report
<1>6. CASE Exits
  BY <1>6 DEF Exits, NoByteLands
<1>7. CASE Crashes
  BY <1>7 DEF Crashes, NoByteLands
<1>8. CASE Hangs
  BY <1>8 DEF Hangs, NoByteLands
<1>9. CASE Tick
  BY <1>9 DEF Tick, Older
<1>10. CASE PeerMoves
  <2>1. UNCHANGED <<outcome, pipe, early, owned, found, adopted>>
    BY <1>10 DEF PeerMoves
  <2>2. ResultNotLost'
    BY <2>1
  <2>3. resumed \subseteq resumed'
    BY <1>10 DEF PeerMoves
  <2>4. peer'.live /\ "peer" \in owned => peer.live \/ "peer" \in resumed'
    BY <1>10 DEF PeerMoves, Listed
  <2> QED
    BY <2>1, <2>2, <2>3, <2>4
<1>11. CASE Sample
  BY <1>11 DEF Sample, Samples, SampleData, SampleGap, SampleConnect, Flat, Held,
     Waiting, Trough, Progressed, StillFlat, Trip, Carries, HoldOn
<1>12. CASE SampleBlind
  BY <1>12 DEF SampleBlind, Samples, Progressed
<1>13. CASE NoteStall
  BY <1>13 DEF NoteStall
<1>14. CASE StartChild
  BY <1>14 DEF StartChild, GoTo
<1>15. CASE StartWatchdog
  BY <1>15 DEF StartWatchdog, GoTo, Leave, Kill
<1>16. CASE Look
  BY <1>16 DEF Look, GoTo
<1>17. CASE ReadQueue
  <2>1. pipe \in {"none", "ok", "error"}
    BY DEF TypeOK
  <2> QED
    BY <1>17, <2>1 DEF ReadQueue, GoTo, Leave, Kill, QueueEmpty
<1>18. CASE Capture
  BY <1>18 DEF Capture, GoTo, Leave, Kill
<1>19. CASE KillFirst
  BY <1>19 DEF KillFirst, GoTo, Kill, Leaves
<1>22. CASE Scan
  BY <1>22 DEF Scan, GoTo
<1>23. CASE Walk
  BY <1>23 DEF Walk, Leave, Kill, Writers
<1>24. CASE KillLast
  BY <1>24 DEF KillLast, Leave, Kill, Leaves
<1>25. CASE PeerAdopts
  BY <1>25 DEF PeerAdopts, Listed
<1>20. CASE Cancel
  BY <1>20 DEF Cancel, Leave, Kill
<1>21. CASE UNCHANGED vars
  BY <1>21 DEF vars
<1> QED
  BY <1>1, <1>2, <1>3, <1>4, <1>5, <1>6, <1>7, <1>8, <1>9, <1>10, <1>11, <1>12, <1>13, <1>14,
     <1>15, <1>16, <1>17, <1>18, <1>19, <1>20, <1>21, <1>22, <1>23, <1>24, <1>25
  DEF Next, Child, Watchdog, Parent

LEMMA ClocksStep == TypeOK /\ ChildGone /\ Signalled /\ ClocksBehind /\ [Next]_vars => ClocksBehind'
<1> SUFFICES ASSUME TypeOK /\ ChildGone /\ Signalled /\ ClocksBehind, [Next]_vars PROVE ClocksBehind'
  OBVIOUS
<1> USE TicksAssumption DEF TypeOK, ChildGone, Signalled, ClocksBehind, Off
<1> USE DEF setting, childVars, diskVars, blobVars, blobs, clocks, watchVars, parentVars, watching,
           unchangedByChild, unchangedByWatch, unchangedByParent
<1>1. CASE OpenPartial
  BY <1>1 DEF OpenPartial, ByteLands, NoByteLands
<1>2. CASE Write
  BY <1>2 DEF Write, ByteLands
<1>3. CASE ClosePartial
  BY <1>3 DEF ClosePartial
<1>4. CASE Buffer
  BY <1>4 DEF Buffer, NoByteLands
<1>5. CASE Report
  BY <1>5 DEF Report
<1>6. CASE Exits
  BY <1>6 DEF Exits, NoByteLands
<1>7. CASE Crashes
  BY <1>7 DEF Crashes, NoByteLands
<1>8. CASE Hangs
  BY <1>8 DEF Hangs, NoByteLands
<1>9. CASE Tick
  BY <1>9 DEF Tick, Older
<1>10. CASE PeerMoves
  BY <1>10 DEF PeerMoves
<1>11. CASE Sample
  BY <1>11 DEF Sample, Samples, SampleData, SampleGap, SampleConnect, Flat, Held,
     Waiting, Trough, Progressed, StillFlat, Trip, Carries, HoldOn
<1>12. CASE SampleBlind
  BY <1>12 DEF SampleBlind, Samples, Progressed
<1>13. CASE NoteStall
  BY <1>13 DEF NoteStall
<1>14. CASE StartChild
  BY <1>14 DEF StartChild, GoTo
<1>15. CASE StartWatchdog
  BY <1>15 DEF StartWatchdog, GoTo, Leave, Kill
<1>16. CASE Look
  BY <1>16 DEF Look, GoTo
<1>17. CASE ReadQueue
  BY <1>17 DEF ReadQueue, GoTo, Leave, Kill, QueueEmpty
<1>18. CASE Capture
  BY <1>18 DEF Capture, GoTo, Leave, Kill
<1>19. CASE KillFirst
  BY <1>19 DEF KillFirst, GoTo, Kill, Leaves
<1>22. CASE Scan
  BY <1>22 DEF Scan, GoTo
<1>23. CASE Walk
  BY <1>23 DEF Walk, Leave, Kill, Writers
<1>24. CASE KillLast
  BY <1>24 DEF KillLast, Leave, Kill, Leaves
<1>25. CASE PeerAdopts
  BY <1>25 DEF PeerAdopts, Listed
<1>20. CASE Cancel
  BY <1>20 DEF Cancel, Leave, Kill
<1>21. CASE UNCHANGED vars
  BY <1>21 DEF vars
<1> QED
  BY <1>1, <1>2, <1>3, <1>4, <1>5, <1>6, <1>7, <1>8, <1>9, <1>10, <1>11, <1>12, <1>13, <1>14,
     <1>15, <1>16, <1>17, <1>18, <1>19, <1>20, <1>21, <1>22, <1>23, <1>24, <1>25
  DEF Next, Child, Watchdog, Parent

LEMMA MeasuredStep == TypeOK /\ ChildGone /\ Measured /\ [Next]_vars => Measured'
<1> SUFFICES ASSUME TypeOK /\ ChildGone /\ Measured, [Next]_vars PROVE Measured'
  OBVIOUS
<1> USE DEF TypeOK, ChildGone, Measured, OwnOnly, SeenBytes
<1> USE DEF setting, childVars, diskVars, blobVars, blobs, clocks, watchVars, parentVars, watching,
           unchangedByChild, unchangedByWatch, unchangedByParent
<1>1. CASE OpenPartial
  BY <1>1 DEF OpenPartial, ByteLands, NoByteLands
<1>2. CASE Write
  BY <1>2 DEF Write, ByteLands
<1>3. CASE ClosePartial
  BY <1>3 DEF ClosePartial
<1>4. CASE Buffer
  BY <1>4 DEF Buffer, NoByteLands
<1>5. CASE Report
  BY <1>5 DEF Report
<1>6. CASE Exits
  BY <1>6 DEF Exits, NoByteLands
<1>7. CASE Crashes
  BY <1>7 DEF Crashes, NoByteLands
<1>8. CASE Hangs
  BY <1>8 DEF Hangs, NoByteLands
<1>9. CASE Tick
  BY <1>9 DEF Tick, Older
<1>10. CASE PeerMoves
  BY <1>10 DEF PeerMoves
<1>11. CASE Sample
  BY <1>11 DEF Sample, Samples, SampleData, SampleGap, SampleConnect, Flat, Held,
     Waiting, Trough, Progressed, StillFlat, Trip, Carries, HoldOn
<1>12. CASE SampleBlind
  BY <1>12 DEF SampleBlind, Samples, Progressed
<1>13. CASE NoteStall
  BY <1>13 DEF NoteStall
<1>14. CASE StartChild
  BY <1>14 DEF StartChild, GoTo
<1>15. CASE StartWatchdog
  BY <1>15 DEF StartWatchdog, GoTo, Leave, Kill
<1>16. CASE Look
  BY <1>16 DEF Look, GoTo
<1>17. CASE ReadQueue
  BY <1>17 DEF ReadQueue, GoTo, Leave, Kill, QueueEmpty
<1>18. CASE Capture
  BY <1>18 DEF Capture, GoTo, Leave, Kill
<1>19. CASE KillFirst
  BY <1>19 DEF KillFirst, GoTo, Kill, Leaves
<1>22. CASE Scan
  BY <1>22 DEF Scan, GoTo
<1>23. CASE Walk
  BY <1>23 DEF Walk, Leave, Kill, Writers
<1>24. CASE KillLast
  BY <1>24 DEF KillLast, Leave, Kill, Leaves
<1>25. CASE PeerAdopts
  BY <1>25 DEF PeerAdopts, Listed
<1>20. CASE Cancel
  BY <1>20 DEF Cancel, Leave, Kill
<1>21. CASE UNCHANGED vars
  BY <1>21 DEF vars
<1> QED
  BY <1>1, <1>2, <1>3, <1>4, <1>5, <1>6, <1>7, <1>8, <1>9, <1>10, <1>11, <1>12, <1>13, <1>14,
     <1>15, <1>16, <1>17, <1>18, <1>19, <1>20, <1>21, <1>22, <1>23, <1>24, <1>25
  DEF Next, Child, Watchdog, Parent

LEMMA InitAttempt == Init => AttemptInv
<1> SUFFICES ASSUME Init PROVE AttemptInv
  OBVIOUS
<1>1. TypeOK
  <2>1. /\ {visible, stuck, due, moved, repoMoved, seenEver, stalled, early, adopted} \subseteq BOOLEAN
    BY DEF Init
  <2>2. /\ 0 \in 0..Horizon /\ Off \in Off..Horizon /\ 0 \in 0..MaxBlinks
    BY TicksAssumption DEF Off
  <2> QED
    BY <2>1, <2>2 DEF Init, TypeOK
<1>2. ChildGone /\ Signalled /\ Untouched
  BY DEF Init, ChildGone, Signalled, Untouched
<1>3. ResultNotLost /\ OwnershipRight
  BY DEF Init, ResultNotLost, OwnershipRight
<1>4. ClocksBehind /\ Measured
  BY DEF Init, ClocksBehind, Measured, Off
<1> QED
  BY <1>1, <1>2, <1>3, <1>4 DEF AttemptInv

LEMMA AttemptHolds == Spec => []AttemptInv
<1>1. AttemptInv /\ [Next]_vars => AttemptInv'
  BY AttemptTyped, GoneStep, UntouchedStep, SignalStep, OutcomeStep, ClocksStep, MeasuredStep DEF AttemptInv
<1> QED
  BY InitAttempt, <1>1, PTL DEF Spec

\* For every choice of the deadlines, in any order, the variables of an attempt
\* keep their types.
THEOREM AttemptTypeCorrect == Spec => []TypeOK
<1>1. AttemptInv => TypeOK
  BY DEF AttemptInv
<1> QED
  BY <1>1, AttemptHolds, PTL

\* A result that has reached the pipe is not turned into a crash, nor into a
\* stall that was signalled after it.
THEOREM ResultsAreDelivered == Spec => []ResultNotLost
<1>1. AttemptInv => ResultNotLost
  BY DEF AttemptInv
<1> QED
  BY <1>1, AttemptHolds, PTL

\* However peers come, go and resume between the scan, the walk and the purge,
\* what is handed to the purge and a peer writes to was opened by it after it
\* had been listed.
THEOREM OnlyOursIsPurged == Spec => []OwnershipRight
<1>1. AttemptInv => OwnershipRight
  BY DEF AttemptInv
<1> QED
  BY <1>1, AttemptHolds, PTL

\* No child outlives the attempt that started it.
THEOREM NoChildOutlives == Spec => []ChildReaped
<1>1. AttemptInv => ChildReaped
  BY DEF AttemptInv, ChildGone, ChildReaped
<1> QED
  BY <1>1, AttemptHolds, PTL

-----------------------------------------------------------------------------
(* The watchdog trips in its sample only. *)

LEMMA TripIsSample == [Next]_vars /\ Trips => Sample
<1> SUFFICES ASSUME [Next]_vars, Trips, ~Sample PROVE FALSE
  OBVIOUS
<1> USE DEF Trips, setting, childVars, diskVars, blobVars, blobs, clocks, watchVars, parentVars, watching,
            unchangedByChild, unchangedByWatch, unchangedByParent
<1>1. ~Child
  BY DEF Child, OpenPartial, Write, ClosePartial, Buffer, Report, Exits, Crashes, Hangs
<1>2. ~Tick /\ ~PeerMoves /\ ~PeerAdopts
  BY DEF Tick, PeerMoves, PeerAdopts
<1>3. ~SampleBlind /\ ~NoteStall
  BY DEF SampleBlind, NoteStall
<1>4. ~Parent /\ ~Cancel
  BY DEF Parent, StartChild, StartWatchdog, Look, ReadQueue, Capture, KillFirst, Scan, Walk,
         KillLast, Cancel
<1>5. ~UNCHANGED vars
  BY DEF vars
<1> QED
  BY <1>1, <1>2, <1>3, <1>4, <1>5 DEF Next, Watchdog

\* A flat clock that has reached a deadline was not put back by this sample,
\* and the child has written nothing for as long.
LEMMA FlatIsQuiet ==
  ASSUME AttemptInv, NEW n \in Nat, n > 0, Flat >= n
  PROVE  quiet >= n /\ ~moved
<1>1. flat \in Nat /\ quiet \in Nat /\ (moved \/ flat <= quiet)
  BY TicksAssumption DEF AttemptInv, TypeOK, ClocksBehind
<1>2. ~moved
  BY DEF Flat
<1>3. flat >= n
  BY <1>2 DEF Flat
<1> QED
  BY <1>1, <1>2, <1>3

LEMMA SizedPeer == AttemptInv => (peer.bytes => peer.there) /\ (peer.fresh => peer.there)
<1> SUFFICES ASSUME peer \in PeerPartial \cup {NoPeer}
             PROVE  (peer.bytes => peer.there) /\ (peer.fresh => peer.there)
  BY DEF AttemptInv, TypeOK
<1>1. CASE peer \in PeerPartial
  BY <1>1 DEF PeerPartial
<1>2. CASE peer = NoPeer
  BY <1>2 DEF NoPeer
<1> QED
  BY <1>1, <1>2

LEMMA Ticks ==
  ASSUME AttemptInv
  PROVE  /\ stallTicks \in Nat /\ PatientTicks \in Nat /\ ConnectTicks \in Nat /\ CeilingTicks \in Nat
         /\ Horizon \in Nat
         /\ stallTicks > 0 /\ stallTicks <= PatientTicks
  BY TicksAssumption DEF PatientTicks, AttemptInv, TypeOK

LEMMA ConnectQuiet ==
  ASSUME AttemptInv, Flat >= ConnectTicks
  PROVE  quiet >= ConnectTicks
<1>1. CASE ConnectTicks = 0
  BY <1>1, TicksAssumption DEF AttemptInv, TypeOK
<1>2. CASE ConnectTicks # 0
  BY <1>2, Ticks, FlatIsQuiet
<1> QED
  BY <1>1, <1>2

\* A stall is charged to the machine only when the child has written nothing
\* for the deadline of its phase, whatever the order of the deadlines, whatever
\* peers do and whatever the sample before found.
THEOREM StallsAreEarned == Spec => StallIsEarned
<1>1. AttemptInv /\ [Next]_vars => [Trips =>
        quiet >= CASE cpc = "flow" /\ rise = 1 /\ ~moved -> PatientTicks
                   [] cpc = "flow" /\ (rise # 1 \/ moved) -> stallTicks
                   [] cpc # "flow" /\ (OwnOnly \/ ~peer.bytes) -> ConnectTicks
                   [] OTHER -> stallTicks]_vars
  <2> SUFFICES ASSUME AttemptInv, [Next]_vars, Trips
               PROVE  quiet >= CASE cpc = "flow" /\ rise = 1 /\ ~moved -> PatientTicks
                                 [] cpc = "flow" /\ (rise # 1 \/ moved) -> stallTicks
                                 [] cpc # "flow" /\ (OwnOnly \/ ~peer.bytes) -> ConnectTicks
                                 [] OTHER -> stallTicks
    OBVIOUS
  <2> DEFINE slow == cpc = "flow" /\ rise = 1 /\ ~moved
             byteless == cpc # "flow" /\ (OwnOnly \/ ~peer.bytes)
  <2>1. Sample
    BY TripIsSample
  <2>2. wpc = "loop" /\ wpc' = "note"
    BY DEF Trips
  <2>3. byteless = ~SeenBytes /\ (cpc = "flow" => SeenBytes)
    BY DEF SeenBytes
  <2>4. SUFFICES /\ slow => quiet >= PatientTicks
                 /\ byteless => quiet >= ConnectTicks
                 /\ ~slow /\ ~byteless => quiet >= stallTicks
    BY <2>3
  <2>5. CASE SampleData
    <3>1. SeenBytes /\ Flat >= Deadline
      BY <2>2, <2>5, Ticks, TicksAssumption DEF SampleData, Carries, Deadline, Flat, AttemptInv, TypeOK
    <3>2. Deadline \in {PatientTicks, stallTicks}
      BY DEF Deadline
    <3>3. quiet >= Deadline
      BY <3>1, <3>2, Ticks, FlatIsQuiet
    <3>4. slow => Deadline = PatientTicks
      BY DEF Deadline, Trough, AttemptInv, Measured
    <3>5. quiet \in Nat
      BY TicksAssumption DEF AttemptInv, TypeOK
    <3>6. quiet >= stallTicks
      BY <3>2, <3>3, <3>5, Ticks
    <3> QED
      BY <2>3, <3>1, <3>3, <3>4, <3>6
  <2>6. CASE SampleGap
    <3>1. ~HasIncomplete /\ Flat >= ConnectTicks
      BY <2>2, <2>6 DEF SampleGap, Carries
    <3>2. ~SeenBytes
      BY <3>1, SizedPeer DEF HasIncomplete, SeenBytes, Open
    <3>3. quiet >= ConnectTicks
      BY <3>1, ConnectQuiet
    <3> QED
      BY <2>3, <3>2, <3>3
  <2>7. CASE SampleConnect
    <3>1. ~SeenBytes /\ Flat >= ConnectTicks
      BY <2>2, <2>7 DEF SampleConnect, Carries
    <3>2. quiet >= ConnectTicks
      BY <3>1, ConnectQuiet
    <3> QED
      BY <2>3, <3>1, <3>2
  <2> QED
    BY <2>1, <2>5, <2>6, <2>7 DEF Sample
<1> QED
  BY <1>1, AttemptHolds, PTL DEF Spec, StallIsEarned

\* A child that waits for a peer's fresh transfer is given up at the ceiling
\* only, never before.
THEOREM WaitersAreSpared == Spec => WaiterSpared
<1>1. AttemptInv /\ [Next]_vars => [Trips /\ visible /\ peer.fresh /\ peer.bytes /\ ~Open
                     /\ (kind = "snapshot" \/ cpc = "wait")
                   => quiet >= CeilingTicks]_vars
  <2> SUFFICES ASSUME AttemptInv, [Next]_vars, Trips, visible, peer.fresh, peer.bytes, ~Open,
                      kind = "snapshot" \/ cpc = "wait"
               PROVE  quiet >= CeilingTicks
    OBVIOUS
  <2>1. Sample
    BY TripIsSample
  <2>2. wpc = "loop" /\ wpc' = "note"
    BY DEF Trips
  <2>3. quiet \in 0..Horizon /\ held \in Off..Horizon /\ waiting \in Off..Horizon
    BY DEF AttemptInv, TypeOK
  <2>5. CASE kind = "snapshot"
    <3>1. ~OwnOnly /\ Queued /\ peer.there
      BY <2>5, SizedPeer DEF OwnOnly, Queued
    <3>2. HasIncomplete /\ SeenBytes
      BY <3>1 DEF HasIncomplete, SeenBytes
    <3>3. SampleData
      BY <2>1, <3>2 DEF Sample, SampleGap, SampleConnect
    <3>4. ~MayHold
      BY <2>2, <3>3 DEF SampleData, Carries
    <3>5. Held # Off /\ ~(Held < CeilingTicks)
      BY <3>1, <3>4 DEF MayHold
    <3>6. ~moved /\ held >= CeilingTicks
      BY <2>3, <3>5, Ticks DEF Held, Off
    <3> QED
      BY <2>3, <3>6, Ticks DEF AttemptInv, ClocksBehind, Off
  <2>6. CASE kind = "file" /\ cpc = "wait"
    <3>1. OwnOnly /\ ~SeenBytes /\ ~seenEver
      BY <2>6 DEF OwnOnly, SeenBytes, AttemptInv, Measured
    <3>2. SampleConnect
      BY <2>1, <3>1 DEF Sample, SampleData, SampleGap
    <3>3. \A unread \in BOOLEAN : PeerProgressing(unread)
      BY <2>6 DEF PeerProgressing
    <3>4. Waiting # Off /\ ~(Waiting < CeilingTicks)
      BY <2>2, <3>2, <3>3 DEF SampleConnect, Carries
    <3>5. waiting >= CeilingTicks
      BY <2>3, <3>1, <3>4, Ticks DEF Waiting, Off
    <3> QED
      BY <2>3, <2>6, <3>5, Ticks DEF AttemptInv, ClocksBehind, Off
  <2> QED
    BY <2>5, <2>6 DEF AttemptInv, TypeOK
<1> QED
  BY <1>1, AttemptHolds, PTL DEF Spec, WaiterSpared


-----------------------------------------------------------------------------
(* The health record: the streak in the state file counts the failures in  *)
(* a row, and no process memoises an answer older than its last outcome.   *)

Answers == [verdict : {"xet", "http", "none"}, probe : BOOLEAN, epoch : Nat,
           source : {"cached", "default", "probe", "none"}]

FileStates == [verdict : {"xet", "http", "none"}, failures : Nat, fresh : BOOLEAN,
               key : Keys \cup {"none"}]

\* HealthTypeOK, without the bound on the failures.
HealthTyped ==
  /\ file \in FileStates
  /\ epoch \in Nat
  /\ key \in [Processes -> Keys]
  /\ generation \in [Processes -> Nat]
  /\ memo \in [Processes -> Answers]
  /\ stateMutex \in [Processes -> Threads \cup {Free}]
  /\ pc \in [Threads -> {"idle", "evaluate", "probing", "mutex", "guard", "read", "write",
                         "unlock", "publish", "invalidate", "unlink"}]
  /\ call \in [Threads -> Calls]
  /\ gen \in [Threads -> Nat]
  /\ state \in [Threads -> FileStates]
  /\ answer \in [Threads -> Answers]
  /\ known \in [Processes -> Nat]
  /\ streak \in Nat
  /\ lost \in BOOLEAN

-----------------------------------------------------------------------------
(* The streak. *)

\* A thread between LockMutex and Unlock holds its process's mutex.
InMutex == {"guard", "read", "write", "unlock"}
MutexHeld == \A t \in Threads : pc[t] \in InMutex => stateMutex[Proc(t)] = t

\* Until a race, the threads that read and replace the file are of one process.
InRewrite == {"read", "write"}
OneRewriter ==
  ~raced => \A t, u \in Threads :
              pc[t] \in InRewrite /\ pc[u] \in InRewrite => Proc(t) = Proc(u)

\* Until a race, what a report has read is what it will replace, unless it
\* could not read it.
ReadIsCurrent ==
  ~raced => \A t \in Threads :
              pc[t] = "write" /\ call[t] \in Outcomes
                => \/ state[t].failures = file.failures /\ state[t].key = file.key
                   \/ state[t].failures = 0 /\ (call[t] = "failure" => lost)

\* An absent file stands for no failure.
Counted == ~raced => file.failures <= streak /\ (~lost => file.failures = streak)

StreakInv == MutexHeld /\ OneRewriter /\ ReadIsCurrent /\ Counted

-----------------------------------------------------------------------------
(* The memo. *)

\* A thread that has an answer and will publish it.
Answered(t) ==
  \/ pc[t] \in {"probing", "publish"}
  \/ pc[t] \in {"mutex", "guard", "read", "write", "unlock"} /\ call[t] \notin Outcomes

\* An answer that may still be published was read after the last outcome its
\* process knows of: an older one has a generation that is over.
AnswersNotOlder ==
  \A t \in Threads :
    /\ gen[t] <= generation[Proc(t)]
    /\ Answered(t) /\ gen[t] = generation[Proc(t)] => answer[t].epoch >= known[Proc(t)]

MemoInv == MemoNotOlder /\ AnswersNotOlder /\ \A p \in Processes : known[p] <= epoch

HealthInv == HealthTyped /\ StreakInv /\ MemoInv
-----------------------------------------------------------------------------
LEMMA ProcOfThread == ASSUME NEW t \in Threads PROVE Proc(t) \in Processes
  BY DEF Threads, Proc

\* The call of one thread.
Act(t) ==
  \/ \E c \in Asking : Ask(t, c)
  \/ \E c \in Outcomes : Record(t, c)
  \/ Clear(t) \/ LockMutex(t) \/ Step(t)

\* A step of one thread leaves the others' locals alone.
OthersStay(t) ==
  \A u \in Threads : u # t =>
    /\ pc'[u] = pc[u] /\ call'[u] = call[u] /\ gen'[u] = gen[u]
    /\ state'[u] = state[u] /\ answer'[u] = answer[u]

LEMMA StaysOthers ==
  ASSUME HealthTyped, NEW t \in Threads, Act(t)
  PROVE  OthersStay(t)
<1> USE DEF HealthTyped, OthersStay, Goto, Return, shared, process, locals, history
<1>1. ASSUME NEW c \in Asking, Ask(t, c) PROVE OthersStay(t)
  BY <1>1 DEF Ask
<1>2. ASSUME NEW c \in Outcomes, Record(t, c) PROVE OthersStay(t)
  BY <1>2 DEF Record
<1>3. CASE Clear(t)
  BY <1>3 DEF Clear
<1>4. CASE LockMutex(t)
  BY <1>4 DEF LockMutex
<1>5. CASE Evaluate(t)
  BY <1>5 DEF Evaluate
<1>6. CASE Probe(t)
  BY <1>6 DEF Probe
<1>7. CASE Publish(t)
  BY <1>7 DEF Publish
<1>8. CASE LockFile(t) \/ GoUnlocked(t)
  BY <1>8 DEF LockFile, GoUnlocked, AfterGuard
<1>9. CASE ReadState(t) \/ ReadFails(t)
  BY <1>9 DEF ReadState, ReadFails
<1>10. CASE WriteProbe(t) \/ WriteOutcome(t) \/ WriteFails(t)
  BY <1>10 DEF WriteProbe, WriteOutcome, WriteFails
<1>11. CASE Unlock(t)
  BY <1>11 DEF Unlock
<1>12. CASE Invalidate(t)
  BY <1>12 DEF Invalidate
<1>13. CASE Unlink(t)
  BY <1>13 DEF Unlink
<1> QED
  BY <1>1, <1>2, <1>3, <1>4, <1>5, <1>6, <1>7, <1>8, <1>9, <1>10, <1>11, <1>12, <1>13
  DEF Act, Step

LEMMA NextIsAct ==
  ASSUME [HealthNext]_healthVars
  PROVE  \/ \E t \in Threads : Act(t)
         \/ FileExpires
         \/ \E p \in Processes : MemoExpires(p) \/ Crash(p)
         \/ UNCHANGED healthVars
  BY DEF HealthNext, Act

-----------------------------------------------------------------------------
(* Types. *)

LEMMA RecordedTyped ==
  ASSUME HealthTyped, NEW t \in Threads, NEW ok \in BOOLEAN
  PROVE  /\ Recorded(state[t], ok, Proc(t)) \in FileStates
         /\ Recorded(state[t], ok, Proc(t)).key = key[Proc(t)]
         /\ Recorded(state[t], ok, Proc(t)).failures =
              IF ok THEN 0 ELSE IF state[t].key = key[Proc(t)] THEN state[t].failures + 1 ELSE 1
<1> DEFINE base == IF state[t].key = key[Proc(t)] THEN state[t] ELSE NoState
           failures == IF ok THEN 0 ELSE base.failures + 1
           verdict == CASE ok -> "xet"
                        [] ~ok /\ failures >= DemotionThreshold -> "http"
                        [] ~ok /\ failures < DemotionThreshold -> Standing(base)
<1>1. key[Proc(t)] \in Keys /\ state[t] \in FileStates
  BY ProcOfThread DEF HealthTyped
<1>2. /\ base.failures \in Nat
      /\ base.failures = IF state[t].key = key[Proc(t)] THEN state[t].failures ELSE 0
  BY <1>1 DEF FileStates, NoState
<1>3. base.verdict \in {"xet", "http", "none"}
  BY <1>1 DEF FileStates, NoState
<1>4. Standing(base) \in {"xet", "http"}
  BY <1>3 DEF Standing
<1>5. failures \in Nat
  BY <1>2
<1>6. failures = IF ok THEN 0 ELSE IF state[t].key = key[Proc(t)] THEN state[t].failures + 1 ELSE 1
  BY <1>2
<1>7. Recorded(state[t], ok, Proc(t))
        = [verdict |-> verdict, failures |-> failures, fresh |-> TRUE, key |-> key[Proc(t)]]
  BY DEF Recorded
<1> HIDE DEF base, failures
<1>8. verdict \in {"xet", "http", "none"}
  <2>1. failures >= DemotionThreshold \/ failures < DemotionThreshold
    BY <1>5 DEF DemotionThreshold
  <2> QED
    BY <2>1, <1>4
<1> HIDE DEF verdict
<1> QED
  BY <1>1, <1>5, <1>6, <1>7, <1>8 DEF FileStates

LEMMA TypedStep == HealthTyped /\ [HealthNext]_healthVars => HealthTyped'
<1> SUFFICES ASSUME HealthTyped, [HealthNext]_healthVars PROVE HealthTyped'
  OBVIOUS
<1> USE DEF Goto, Return, shared, process, locals, history
<1>none. NoState \in FileStates /\ NoMemo \in Answers /\ "none" \in Calls
  BY DEF NoState, FileStates, NoMemo, Answers, Calls
<1>a. ASSUME NEW t \in Threads, Act(t) PROVE HealthTyped'
  <2> USE ProcOfThread, <1>none
  <2>1. ASSUME NEW c \in Asking, Ask(t, c) PROVE HealthTyped'
    BY <2>1 DEF Ask, Asking, Calls, HealthTyped
  <2>2. ASSUME NEW c \in Outcomes, Record(t, c) PROVE HealthTyped'
    BY <2>2 DEF Record, Outcomes, Calls, HealthTyped
  <2>3. CASE Clear(t)
    BY <2>3 DEF Clear, Calls, HealthTyped
  <2>4. CASE LockMutex(t)
    BY <2>4 DEF LockMutex, HealthTyped
  <2>5. CASE Evaluate(t)
    <3>1. answer' \in [Threads -> Answers]
      <4>1. PICK new : new \in Answers /\ answer' = [answer EXCEPT ![t] = new]
        <5>s. PICK seen \in {file, NoState} :
                LET known_  == call[t] # "force" /\ Current(seen, Proc(t))
                    verdict == IF known_ THEN seen.verdict ELSE "xet"
                IN  IF known_ \/ call[t] \notin Probing
                      THEN answer' = [answer EXCEPT ![t] =
                             [verdict |-> verdict, probe |-> call[t] \in Probing, epoch |-> epoch,
                              source |-> IF known_ THEN "cached" ELSE "default"]]
                      ELSE answer' = [answer EXCEPT ![t].epoch = epoch]
          BY <2>5 DEF Evaluate
        <5>1. CASE (call[t] # "force" /\ Current(seen, Proc(t))) \/ call[t] \notin Probing
          <6> DEFINE known_ == call[t] # "force" /\ Current(seen, Proc(t))
                     new == [verdict |-> IF known_ THEN seen.verdict ELSE "xet",
                             probe |-> call[t] \in Probing, epoch |-> epoch,
                             source |-> IF known_ THEN "cached" ELSE "default"]
          <6>1. answer' = [answer EXCEPT ![t] = new]
            BY <5>s, <5>1
          <6>2. known_ => seen.verdict \in {"xet", "http", "none"}
            BY DEF HealthTyped, FileStates, NoState
          <6>3. new \in Answers
            BY <6>2 DEF HealthTyped, Answers
          <6> QED
            BY <6>1, <6>3
        <5>2. CASE ~((call[t] # "force" /\ Current(seen, Proc(t))) \/ call[t] \notin Probing)
          <6>1. answer' = [answer EXCEPT ![t].epoch = epoch]
            BY <5>s, <5>2
          <6>2. [answer[t] EXCEPT !.epoch = epoch] \in Answers
            BY DEF HealthTyped, Answers
          <6> QED
            BY <6>1, <6>2
        <5> QED
          BY <5>1, <5>2
      <4> QED
        BY <4>1 DEF HealthTyped
    <3> QED
      BY <2>5, <3>1 DEF Evaluate, HealthTyped
  <2>6. CASE Probe(t)
    <3>1. answer' \in [Threads -> Answers]
      <4>1. PICK v \in {"xet", "http"}, s \in {"default", "probe"} :
              answer' = [answer EXCEPT ![t] = [answer[t] EXCEPT !.verdict = v, !.source = s, !.probe = TRUE]]
        BY <2>6 DEF Probe
      <4>2. [answer[t] EXCEPT !.verdict = v, !.source = s, !.probe = TRUE] \in Answers
        BY DEF HealthTyped, Answers
      <4> QED
        BY <4>1, <4>2 DEF HealthTyped
    <3> QED
      BY <2>6, <3>1 DEF Probe, HealthTyped
  <2>7. CASE Publish(t)
    BY <2>7 DEF Publish, HealthTyped
  <2>8. CASE LockFile(t) \/ GoUnlocked(t)
    BY <2>8 DEF LockFile, GoUnlocked, AfterGuard, HealthTyped
  <2>9. CASE ReadState(t) \/ ReadFails(t)
    BY <2>9 DEF ReadState, ReadFails, HealthTyped
  <2>10. CASE WriteProbe(t)
    <3>1. file' \in FileStates
      <4>1. answer[t].verdict \in {"xet", "http", "none"} /\ key[Proc(t)] \in Keys
        BY DEF HealthTyped, Answers
      <4> QED
        BY <2>10, <4>1 DEF WriteProbe, Replace, FileStates
    <3>2. answer' \in [Threads -> Answers]
      <4>n. epoch + 1 \in Nat
        BY DEF HealthTyped
      <4>1. [answer[t] EXCEPT !.epoch = epoch + 1] \in Answers
        BY <4>n DEF HealthTyped, Answers
      <4>2. answer' = [answer EXCEPT ![t] = [answer[t] EXCEPT !.epoch = epoch + 1]]
        BY <2>10 DEF WriteProbe
      <4> QED
        BY <4>1, <4>2 DEF HealthTyped
    <3>3. epoch' \in Nat /\ streak' \in Nat /\ lost' \in BOOLEAN /\ pc' = [pc EXCEPT ![t] = "unlock"]
      <4>1. lost' \in BOOLEAN
        BY <2>10, Zenon DEF WriteProbe
      <4> QED
        BY <2>10, <4>1 DEF WriteProbe, Replace, HealthTyped
    <3>4. UNCHANGED <<key, process, fileLock, call, gen, state, known>>
      BY <2>10 DEF WriteProbe
    <3> QED
      BY <3>1, <3>2, <3>3, <3>4 DEF HealthTyped
  <2>11. CASE WriteOutcome(t)
    <3>1. file' \in FileStates
      BY <2>11, RecordedTyped DEF WriteOutcome, Replace
    <3> QED
      BY <2>11, <3>1 DEF WriteOutcome, Replace, HealthTyped
  <2>12. CASE WriteFails(t)
    BY <2>12 DEF WriteFails, HealthTyped
  <2>13. CASE Unlock(t)
    BY <2>13 DEF Unlock, HealthTyped
  <2>14. CASE Invalidate(t)
    BY <2>14 DEF Invalidate, HealthTyped
  <2>15. CASE Unlink(t)
    <3>1. CASE Replace(NoState) /\ streak' = 0 /\ lost' = FALSE
      <4>1. lost' \in BOOLEAN
        BY <3>1, Zenon
      <4>2. UNCHANGED <<key, process, fileLock, known>> /\ file' = NoState /\ epoch' \in Nat /\ streak' = 0
        BY <2>15, <3>1 DEF Unlink, Replace, HealthTyped
      <4>3. Return(t)
        BY <2>15 DEF Unlink
      <4> QED
        BY <4>1, <4>2, <4>3 DEF HealthTyped
    <3>2. CASE UNCHANGED <<shared, streak, lost>>
      BY <2>15, <3>2 DEF Unlink, HealthTyped
    <3> QED
      BY <2>15, <3>1, <3>2 DEF Unlink
  <2> QED
    BY <1>a, <2>1, <2>2, <2>3, <2>4, <2>5, <2>6, <2>7, <2>8, <2>9, <2>10, <2>11, <2>12, <2>13,
       <2>14, <2>15 DEF Act, Step
<1>b. CASE FileExpires
  <2>1. file' \in FileStates
    <3>1. [file EXCEPT !.fresh = FALSE] \in FileStates
      BY DEF HealthTyped, FileStates
    <3> QED
      BY <1>b, <3>1 DEF FileExpires
  <2> QED
    BY <1>b, <2>1 DEF FileExpires, HealthTyped
<1>c. ASSUME NEW p \in Processes, MemoExpires(p) PROVE HealthTyped'
  BY <1>c, <1>none DEF MemoExpires, HealthTyped
<1>d. ASSUME NEW p \in Processes, Crash(p) PROVE HealthTyped'
  BY <1>d, <1>none DEF Crash, HealthTyped
<1>e. CASE UNCHANGED healthVars
  BY <1>e DEF healthVars, HealthTyped
<1> QED
  BY <1>a, <1>b, <1>c, <1>d, <1>e, NextIsAct

-----------------------------------------------------------------------------
(* The streak is exact. *)

\* Who is in the mutex, and who rewrites the file, changes as the code says.
LEMMA MutexStep == HealthTyped /\ MutexHeld /\ [HealthNext]_healthVars => MutexHeld'
<1> SUFFICES ASSUME HealthTyped, MutexHeld, [HealthNext]_healthVars PROVE MutexHeld'
  OBVIOUS
<1>free. ASSUME NEW u \in Threads PROVE u # Free
  BY <1>free DEF Threads, Free
<1> USE DEF Goto, Return, shared, process, locals, history, InMutex
<1>a. ASSUME NEW t \in Threads, Act(t) PROVE MutexHeld'
  <2> SUFFICES ASSUME NEW u \in Threads, pc'[u] \in InMutex PROVE stateMutex'[Proc(u)] = u
    BY DEF MutexHeld
  <2>1. OthersStay(t) /\ Proc(t) \in Processes /\ Proc(u) \in Processes
    BY <1>a, StaysOthers, ProcOfThread
  <2>2. u # t => stateMutex[Proc(u)] = u
    BY <2>1 DEF MutexHeld, OthersStay
  <2>3. CASE LockMutex(t)
    <3>1. stateMutex[Proc(t)] = Free
      BY <2>3 DEF LockMutex, MutexFree
    <3>2. u # t => Proc(u) # Proc(t)
      BY <2>2, <3>1, <1>free
    <3> QED
      BY <2>1, <2>2, <2>3, <3>2 DEF LockMutex, HealthTyped
  <2>4. CASE Unlock(t)
    <3>1. pc'[t] \notin InMutex
      BY <2>4 DEF Unlock, HealthTyped
    <3>2. u # t => Proc(u) # Proc(t)
      BY <2>2, <2>4 DEF Unlock, MutexHeld
    <3> QED
      BY <2>1, <2>2, <2>4, <3>1, <3>2 DEF Unlock, HealthTyped
  <2>5. CASE ~LockMutex(t) /\ ~Unlock(t)
    <3>1. stateMutex' = stateMutex
      BY <1>a, <2>5 DEF Act, Step, Ask, Record, Clear, Evaluate, Probe, Publish, LockFile,
         GoUnlocked, ReadState, ReadFails, WriteProbe, WriteOutcome, WriteFails, Invalidate, Unlink, Replace
    <3>2. pc'[t] \in InMutex => pc[t] \in InMutex
      BY <1>a, <2>5 DEF HealthTyped, Act, Step, Ask, Record, Clear, Evaluate, Probe, Publish, LockFile,
         GoUnlocked, ReadState, ReadFails, WriteProbe, WriteOutcome, WriteFails, Invalidate, Unlink, AfterGuard,
         GivesUpLock
    <3> QED
      BY <2>1, <2>2, <3>1, <3>2 DEF MutexHeld
  <2> QED
    BY <2>3, <2>4, <2>5
<1>b. CASE FileExpires
  BY <1>b DEF FileExpires, MutexHeld
<1>c. ASSUME NEW p \in Processes, MemoExpires(p) PROVE MutexHeld'
  BY <1>c DEF MemoExpires, MutexHeld
<1>d. ASSUME NEW p \in Processes, Crash(p) PROVE MutexHeld'
  BY <1>d, ProcOfThread DEF Crash, MutexHeld, HealthTyped
<1>e. CASE UNCHANGED healthVars
  BY <1>e DEF healthVars, MutexHeld
<1> QED
  BY <1>a, <1>b, <1>c, <1>d, <1>e, NextIsAct

\* Two threads of one process are never both in the mutex.
LEMMA OneInMutex ==
  ASSUME MutexHeld, NEW t \in Threads, NEW u \in Threads, Proc(t) = Proc(u),
         pc[t] \in InMutex, pc[u] \in InMutex
  PROVE  t = u
  BY DEF MutexHeld

\* While a thread rewrites the file and nobody raced, it is the only one.
LEMMA OnlyRewriter ==
  ASSUME MutexHeld, OneRewriter, ~raced, NEW t \in Threads, NEW u \in Threads,
         pc[t] \in InRewrite, pc[u] \in InRewrite
  PROVE  t = u
<1>1. Proc(t) = Proc(u)
  BY DEF OneRewriter
<1> QED
  BY <1>1, OneInMutex DEF InMutex, InRewrite

LEMMA StreakStep == HealthTyped /\ StreakInv /\ [HealthNext]_healthVars => StreakInv'
<1> SUFFICES ASSUME HealthTyped, StreakInv, [HealthNext]_healthVars PROVE StreakInv'
  OBVIOUS
<1> USE DEF Goto, Return, shared, process, locals, history
<1>m. MutexHeld' /\ MutexHeld
  BY MutexStep DEF StreakInv
<1> SUFFICES OneRewriter' /\ ReadIsCurrent' /\ Counted'
  BY <1>m DEF StreakInv
<1>a. ASSUME NEW t \in Threads, Act(t) PROVE OneRewriter' /\ ReadIsCurrent' /\ Counted'
  <2>o. OthersStay(t)
    BY <1>a, StaysOthers
  <2>p. Proc(t) \in Processes
    BY ProcOfThread
  \* The steps that neither start nor end a rewrite, nor replace the file.
  <2>1. CASE /\ UNCHANGED <<file, streak, lost, raced>>
             /\ pc'[t] \notin InRewrite
    BY <2>o, <2>1 DEF StreakInv, OneRewriter, ReadIsCurrent, Counted, OthersStay, InRewrite
  <2>2. CASE LockFile(t) \/ GoUnlocked(t)
    <3>1. UNCHANGED <<file, streak, lost, call>> /\ pc[t] = "guard" /\ (raced => raced')
      BY <2>2 DEF LockFile, GoUnlocked, GivesUpLock
    <3>2. pc'[t] = IF call[t] \in Outcomes THEN "read" ELSE "write"
      BY <2>2 DEF LockFile, GoUnlocked, AfterGuard, HealthTyped
    <3>3. ~raced' => Rewriting(t) = {}
      <4>1. Free \notin Rewriting(t)
        BY DEF Rewriting, Threads, Free
      <4>2. CASE LockFile(t)
        BY <4>1, <4>2 DEF LockFile, LockFree
      <4>3. CASE GoUnlocked(t)
        BY <4>3 DEF GoUnlocked
      <4> QED
        BY <2>2, <4>2, <4>3
    <3>4. OneRewriter'
      BY <2>o, <3>1, <3>3 DEF StreakInv, OneRewriter, OthersStay, InRewrite, Rewriting
    <3>5. ReadIsCurrent'
      BY <2>o, <3>1, <3>2 DEF StreakInv, ReadIsCurrent, OthersStay
    <3> QED
      BY <3>1, <3>4, <3>5 DEF StreakInv, Counted
  <2>3. CASE ReadState(t)
    <3>1. UNCHANGED <<file, streak, lost, raced, call>> /\ pc[t] = "read" /\ pc'[t] = "write" /\ state'[t] = file
      BY <2>3 DEF ReadState, HealthTyped
    <3>2. OneRewriter'
      BY <2>o, <3>1 DEF StreakInv, OneRewriter, OthersStay, InRewrite
    <3>3. ReadIsCurrent'
      BY <2>o, <3>1 DEF StreakInv, ReadIsCurrent, OthersStay
    <3> QED
      BY <3>1, <3>2, <3>3 DEF StreakInv, Counted
  <2>f. CASE ReadFails(t)
    <3>1. /\ UNCHANGED <<file, streak, raced, call>> /\ pc[t] = "read" /\ pc'[t] = "write"
          /\ state'[t] = NoState /\ (lost => lost') /\ (call[t] = "failure" => lost')
      BY <2>f DEF ReadFails, HealthTyped
    <3>2. OneRewriter'
      BY <2>o, <3>1 DEF StreakInv, OneRewriter, OthersStay, InRewrite
    <3>3. ReadIsCurrent'
      BY <2>o, <3>1 DEF StreakInv, ReadIsCurrent, OthersStay, NoState
    <3> QED
      BY <3>1, <3>2, <3>3 DEF StreakInv, Counted
  <2>w. CASE WriteFails(t)
    <3>1. /\ UNCHANGED <<file, raced, call, state>> /\ pc[t] = "write" /\ pc'[t] = "unlock"
          /\ streak' \in {streak, streak + 1} /\ (lost => lost') /\ (~lost' => streak' = streak)
      BY <2>w DEF WriteFails, HealthTyped
    <3>2. OneRewriter'
      BY <2>o, <3>1 DEF StreakInv, OneRewriter, OthersStay, InRewrite
    <3>3. ReadIsCurrent'
      BY <2>o, <3>1 DEF StreakInv, ReadIsCurrent, OthersStay
    <3> QED
      BY <3>1, <3>2, <3>3 DEF StreakInv, Counted, HealthTyped, FileStates
  <2>4. CASE WriteProbe(t) \/ WriteOutcome(t)
    <3>1. raced' = raced /\ pc[t] = "write" /\ pc'[t] = "unlock"
      BY <2>4 DEF WriteProbe, WriteOutcome, HealthTyped
    <3>2. OneRewriter'
      BY <2>o, <3>1 DEF StreakInv, OneRewriter, OthersStay, InRewrite
    <3>3. ReadIsCurrent'
      <4> SUFFICES ASSUME ~raced, NEW u \in Threads, pc'[u] = "write" PROVE FALSE
        BY <3>1 DEF ReadIsCurrent
      <4>1. u # t /\ pc[u] = "write"
        BY <2>o, <3>1 DEF OthersStay
      <4> QED
        BY <3>1, <4>1, OnlyRewriter DEF StreakInv, InRewrite
    <3>4. Counted'
      <4> SUFFICES ASSUME ~raced
                   PROVE  file'.failures <= streak' /\ (~lost' => file'.failures = streak')
        BY <3>1 DEF Counted
      <4>1. CASE WriteProbe(t)
        BY <4>1 DEF WriteProbe, Replace
      <4>2. CASE WriteOutcome(t)
        <5>1. /\ \/ state[t].failures = file.failures /\ state[t].key = file.key
                 \/ state[t].failures = 0 /\ (call[t] = "failure" => lost)
              /\ file.failures <= streak /\ (~lost => file.failures = streak)
          BY <4>2 DEF WriteOutcome, StreakInv, ReadIsCurrent, Counted
        <5>a. /\ call[t] \in {"success", "failure"} /\ streak \in Nat
              /\ file.failures \in Nat /\ state[t].failures \in Nat
          BY <4>2 DEF WriteOutcome, Outcomes, HealthTyped, FileStates
        <5>b. /\ streak' = IF call[t] = "success" THEN 0
                           ELSE IF file.key = key[Proc(t)] THEN streak + 1 ELSE 1
              /\ lost' = (lost /\ call[t] = "failure" /\ file.key = key[Proc(t)])
          BY <4>2 DEF WriteOutcome
        <5>2. file' = Recorded(state[t], call[t] = "success", Proc(t))
          BY <4>2 DEF WriteOutcome, Replace
        <5>3. file'.failures = IF call[t] = "success" THEN 0
                               ELSE IF state[t].key = key[Proc(t)] THEN state[t].failures + 1 ELSE 1
          BY <5>2, RecordedTyped
        <5>4. CASE call[t] = "success"
          BY <5>3, <5>4, <5>a, <5>b
        <5>5. CASE call[t] = "failure" /\ file.key = key[Proc(t)]
          <6>1. file'.failures <= streak'
            BY <5>1, <5>3, <5>5, <5>a, <5>b
          <6>2. ASSUME ~lost' PROVE file'.failures = streak'
            <7>1. ~lost
              BY <5>5, <5>b, <6>2, Zenon
            <7> QED
              BY <5>1, <5>3, <5>5, <5>a, <5>b, <7>1
          <6> QED
            BY <6>1, <6>2
        <5>6. CASE call[t] = "failure" /\ file.key # key[Proc(t)]
          BY <5>1, <5>3, <5>6, <5>a, <5>b
        <5> QED
          BY <5>4, <5>5, <5>6, <5>a
      <4> QED
        BY <2>4, <4>1, <4>2
    <3> QED
      BY <3>2, <3>3, <3>4
  <2>5. CASE Unlink(t)
    <3>0. CASE UNCHANGED <<file, streak, lost, raced>>
      BY <2>1, <2>5, <3>0 DEF Unlink, HealthTyped, InRewrite
    <3> SUFFICES ASSUME ~UNCHANGED <<file, streak, lost, raced>>
                 PROVE  OneRewriter' /\ ReadIsCurrent' /\ Counted'
      BY <3>0
    <3>1. /\ file' = NoState /\ streak' = 0 /\ pc'[t] = "idle" /\ (raced => raced')
          /\ ~raced' => \A u \in Threads : ~(pc[u] = "write" /\ call[u] \in Outcomes)
      BY <2>5 DEF Unlink, Replace, HealthTyped, shared
    <3>2. OneRewriter'
      BY <2>o, <3>1 DEF StreakInv, OneRewriter, OthersStay, InRewrite
    <3>3. ReadIsCurrent'
      BY <2>o, <3>1 DEF StreakInv, ReadIsCurrent, OthersStay
    <3>4. Counted'
      BY <3>1 DEF Counted, NoState
    <3> QED
      BY <3>2, <3>3, <3>4
  <2>6. CASE ~(LockFile(t) \/ GoUnlocked(t) \/ ReadState(t) \/ ReadFails(t) \/ WriteFails(t) \/ WriteProbe(t) \/ WriteOutcome(t) \/ Unlink(t))
    <3>1. UNCHANGED <<file, streak, lost, raced>> /\ pc'[t] \notin InRewrite
      BY <1>a, <2>6 DEF HealthTyped, InRewrite, Act, Step, Ask, Record, Clear, LockMutex, Evaluate,
         Probe, Publish, Unlock, Invalidate
    <3> QED
      BY <2>1, <3>1
  <2> QED
    BY <2>2, <2>3, <2>4, <2>5, <2>6, <2>f, <2>w
<1>b. CASE FileExpires
  <2>1. file'.failures = file.failures /\ file'.key = file.key
    BY <1>b DEF FileExpires, HealthTyped, FileStates
  <2> QED
    BY <1>b, <2>1 DEF FileExpires, StreakInv, OneRewriter, ReadIsCurrent, Counted
<1>c. ASSUME NEW p \in Processes, MemoExpires(p) PROVE OneRewriter' /\ ReadIsCurrent' /\ Counted'
  BY <1>c DEF MemoExpires, StreakInv, OneRewriter, ReadIsCurrent, Counted
<1>d. ASSUME NEW p \in Processes, Crash(p) PROVE OneRewriter' /\ ReadIsCurrent' /\ Counted'
  BY <1>d DEF Crash, StreakInv, OneRewriter, ReadIsCurrent, Counted, InRewrite
<1>e. CASE UNCHANGED healthVars
  BY <1>e DEF healthVars, StreakInv, OneRewriter, ReadIsCurrent, Counted
<1> QED
  BY <1>a, <1>b, <1>c, <1>d, <1>e, NextIsAct

-----------------------------------------------------------------------------
(* The memo is never older than what its process has recorded. *)

LEMMA MemoStep == HealthTyped /\ MemoInv /\ [HealthNext]_healthVars => MemoInv'
<1> SUFFICES ASSUME HealthTyped, MemoInv, [HealthNext]_healthVars PROVE MemoInv'
  OBVIOUS
<1> USE DEF Goto, Return, shared, process, locals, history
<1>n. /\ epoch \in Nat /\ \A p \in Processes : known[p] \in Nat /\ generation[p] \in Nat
      /\ \A t \in Threads : gen[t] \in Nat /\ answer[t].epoch \in Nat
  BY DEF HealthTyped, Answers
<1>a. ASSUME NEW t \in Threads, Act(t) PROVE MemoInv'
  <2>o. OthersStay(t)
    BY <1>a, StaysOthers
  <2>p. Proc(t) \in Processes /\ \A u \in Threads : Proc(u) \in Processes
    BY ProcOfThread
  \* The steps that touch neither a memo, nor a generation, nor an answer.
  <2>1. CASE /\ UNCHANGED <<memo, generation, known, epoch>>
             /\ gen'[t] \in {gen[t], 0} /\ (Answered(t)' => Answered(t) /\ gen'[t] = gen[t])
             /\ answer'[t].epoch = answer[t].epoch \/ ~Answered(t)'
    <3>1. MemoNotOlder' /\ \A p \in Processes : known'[p] <= epoch'
      BY <2>1 DEF MemoInv, MemoNotOlder
    <3>2. ASSUME NEW u \in Threads, u # t
          PROVE  /\ gen'[u] <= generation'[Proc(u)]
                 /\ Answered(u)' /\ gen'[u] = generation'[Proc(u)] => answer'[u].epoch >= known'[Proc(u)]
      BY <2>o, <2>1, <3>2 DEF MemoInv, AnswersNotOlder, OthersStay, Answered
    <3>3. /\ gen'[t] <= generation'[Proc(t)]
          /\ Answered(t)' /\ gen'[t] = generation'[Proc(t)] => answer'[t].epoch >= known'[Proc(t)]
      BY <1>n, <2>p, <2>1 DEF MemoInv, AnswersNotOlder
    <3> QED
      BY <3>1, <3>2, <3>3 DEF MemoInv, AnswersNotOlder
  <2>2. ASSUME NEW c \in Asking, Ask(t, c) PROVE MemoInv'
    <3>1. /\ UNCHANGED <<memo, generation, known, epoch>>
          /\ gen'[t] = generation[Proc(t)] /\ ~Answered(t)'
      BY <2>2 DEF Ask, HealthTyped, Answered
    <3>2. ASSUME NEW u \in Threads, u # t
          PROVE  /\ gen'[u] <= generation'[Proc(u)]
                 /\ Answered(u)' /\ gen'[u] = generation'[Proc(u)] => answer'[u].epoch >= known'[Proc(u)]
      BY <2>o, <3>1, <3>2 DEF MemoInv, AnswersNotOlder, OthersStay, Answered
    <3> QED
      BY <1>n, <2>p, <3>1, <3>2 DEF MemoInv, AnswersNotOlder, MemoNotOlder
  <2>3. CASE Evaluate(t) \/ WriteProbe(t)
    <3>1. /\ UNCHANGED <<memo, generation, known, gen>>
          /\ epoch' \in Nat /\ epoch' >= epoch /\ answer'[t].epoch = epoch'
      <4>1. CASE Evaluate(t)
        BY <1>n, <4>1 DEF Evaluate, HealthTyped, Answers
      <4>2. CASE WriteProbe(t)
        BY <1>n, <4>2 DEF WriteProbe, Replace, HealthTyped, Answers
      <4> QED
        BY <2>3, <4>1, <4>2
    <3>2. ASSUME NEW u \in Threads, u # t
          PROVE  /\ gen'[u] <= generation'[Proc(u)]
                 /\ Answered(u)' /\ gen'[u] = generation'[Proc(u)] => answer'[u].epoch >= known'[Proc(u)]
      BY <2>o, <3>1, <3>2 DEF MemoInv, AnswersNotOlder, OthersStay, Answered
    <3>3. \A p \in Processes : known[p] <= epoch'
      BY <1>n, <3>1 DEF MemoInv
    <3>4. answer'[t].epoch >= known[Proc(t)]
      BY <1>n, <2>p, <3>1, <3>3
    <3> QED
      BY <3>1, <3>2, <3>3, <3>4 DEF MemoInv, AnswersNotOlder, MemoNotOlder
  <2>4. CASE WriteOutcome(t) \/ Unlink(t)
    <3>1. /\ UNCHANGED <<memo, generation, known>> /\ epoch' \in {epoch, epoch + 1}
          /\ gen'[t] \in {gen[t], 0} /\ ~Answered(t)'
      BY <2>4 DEF WriteOutcome, Unlink, Replace, HealthTyped, Answered, Outcomes, shared
    <3>2. ASSUME NEW u \in Threads, u # t
          PROVE  /\ gen'[u] <= generation'[Proc(u)]
                 /\ Answered(u)' /\ gen'[u] = generation'[Proc(u)] => answer'[u].epoch >= known'[Proc(u)]
      BY <2>o, <3>1, <3>2 DEF MemoInv, AnswersNotOlder, OthersStay, Answered
    <3>3. \A p \in Processes : known[p] <= epoch'
      BY <1>n, <3>1 DEF MemoInv
    <3>4. gen'[t] <= generation[Proc(t)]
      BY <1>n, <2>p, <3>1 DEF MemoInv, AnswersNotOlder
    <3> QED
      BY <3>1, <3>2, <3>3, <3>4 DEF MemoInv, AnswersNotOlder, MemoNotOlder
  <2>5. CASE Publish(t)
    <3>1. /\ UNCHANGED <<generation, known, epoch>> /\ pc[t] = "publish"
          /\ gen'[t] = 0 /\ pc'[t] = "idle"
      BY <2>5 DEF Publish, HealthTyped
    <3>2. ~Answered(t)'
      BY <3>1 DEF Answered
    <3>3. ASSUME NEW u \in Threads, u # t
          PROVE  /\ gen'[u] <= generation'[Proc(u)]
                 /\ Answered(u)' /\ gen'[u] = generation'[Proc(u)] => answer'[u].epoch >= known'[Proc(u)]
      BY <2>o, <3>1, <3>3 DEF MemoInv, AnswersNotOlder, OthersStay, Answered
    <3>4. MemoNotOlder'
      <4> SUFFICES ASSUME NEW p \in Processes, memo'[p] # NoMemo PROVE memo'[p].epoch >= known[p]
        BY <3>1 DEF MemoNotOlder
      <4>1. CASE memo'[p] = memo[p]
        BY <4>1 DEF MemoInv, MemoNotOlder
      <4>2. CASE memo'[p] # memo[p]
        <5>1. p = Proc(t) /\ memo'[p] = answer[t] /\ gen[t] = generation[p]
          BY <2>5, <4>2 DEF Publish, NothingRecordedSince, HealthTyped
        <5> QED
          BY <3>1, <5>1 DEF MemoInv, AnswersNotOlder, Answered
      <4> QED
        BY <4>1, <4>2
    <3> QED
      BY <1>n, <2>p, <3>1, <3>2, <3>3, <3>4 DEF MemoInv, AnswersNotOlder
  <2>6. CASE Invalidate(t) \/ Clear(t)
    <3>1. /\ memo' = [memo EXCEPT ![Proc(t)] = NoMemo]
          /\ generation' = [generation EXCEPT ![Proc(t)] = @ + 1]
          /\ known' \in {known, [known EXCEPT ![Proc(t)] = epoch]} /\ epoch' = epoch
          /\ gen'[t] \in {gen[t], 0} /\ ~Answered(t)'
      BY <2>6 DEF Invalidate, Clear, HealthTyped, Answered
    <3>2. /\ memo'[Proc(t)] = NoMemo /\ generation'[Proc(t)] = generation[Proc(t)] + 1
          /\ known'[Proc(t)] \in {known[Proc(t)], epoch}
          /\ \A p \in Processes : p # Proc(t) =>
               memo'[p] = memo[p] /\ generation'[p] = generation[p] /\ known'[p] = known[p]
      BY <2>p, <3>1 DEF HealthTyped
    <3>3. MemoNotOlder' /\ \A p \in Processes : known'[p] <= epoch'
      BY <1>n, <2>p, <3>1, <3>2 DEF MemoInv, MemoNotOlder
    <3>4. ASSUME NEW u \in Threads, u # t
          PROVE  /\ gen'[u] <= generation'[Proc(u)]
                 /\ Answered(u)' /\ gen'[u] = generation'[Proc(u)] => answer'[u].epoch >= known'[Proc(u)]
      <4>0. /\ gen'[u] = gen[u] /\ answer'[u] = answer[u] /\ (Answered(u)' <=> Answered(u))
            /\ gen[u] <= generation[Proc(u)]
        BY <2>o, <3>4 DEF OthersStay, Answered, MemoInv, AnswersNotOlder
      <4>1. CASE Proc(u) = Proc(t)
        BY <1>n, <2>p, <3>2, <4>0, <4>1
      <4>2. CASE Proc(u) # Proc(t)
        BY <2>p, <3>2, <4>0, <4>2 DEF MemoInv, AnswersNotOlder
      <4> QED
        BY <4>1, <4>2
    <3>5. gen'[t] <= generation'[Proc(t)]
      BY <1>n, <2>p, <3>1, <3>2 DEF MemoInv, AnswersNotOlder
    <3> QED
      BY <3>1, <3>3, <3>4, <3>5 DEF MemoInv, AnswersNotOlder
  <2>7. CASE (\E c \in Outcomes : Record(t, c)) \/ LockMutex(t)
    <3>1. /\ UNCHANGED <<memo, generation, known, epoch, gen, answer>>
          /\ Answered(t)' => Answered(t)
      BY <2>7 DEF Record, LockMutex, HealthTyped, Answered, Outcomes
    <3> QED
      BY <2>1, <3>1
  <2>8. CASE Probe(t)
    <3>1. /\ UNCHANGED <<memo, generation, known, epoch, gen>>
          /\ Answered(t) /\ answer'[t].epoch = answer[t].epoch
      BY <2>8 DEF Probe, HealthTyped, Answered, Answers
    <3> QED
      BY <2>1, <3>1
  <2>9. CASE LockFile(t) \/ GoUnlocked(t) \/ ReadState(t) \/ ReadFails(t) \/ WriteFails(t) \/ Unlock(t)
    <3>1. /\ UNCHANGED <<memo, generation, known, epoch, gen, answer>>
          /\ Answered(t)' => Answered(t)
      BY <2>9 DEF LockFile, GoUnlocked, GivesUpLock, AfterGuard, ReadState, ReadFails, WriteFails, Unlock,
         HealthTyped, Answered, Outcomes
    <3> QED
      BY <2>1, <3>1
  <2> QED
    BY <1>a, <2>2, <2>3, <2>4, <2>5, <2>6, <2>7, <2>8, <2>9 DEF Act, Step
<1>b. CASE FileExpires
  BY <1>b DEF FileExpires, MemoInv, MemoNotOlder, AnswersNotOlder, Answered
<1>c. ASSUME NEW p \in Processes, MemoExpires(p) PROVE MemoInv'
  <2>1. MemoNotOlder'
    BY <1>c DEF MemoExpires, MemoInv, MemoNotOlder, HealthTyped
  <2> QED
    BY <1>c, <2>1 DEF MemoExpires, MemoInv, AnswersNotOlder, Answered
<1>d. ASSUME NEW p \in Processes, Crash(p) PROVE MemoInv'
  <2>1. /\ memo'[p] = NoMemo /\ generation'[p] = 0 /\ known'[p] = 0 /\ epoch' = epoch
        /\ \A q \in Processes : q # p =>
             memo'[q] = memo[q] /\ generation'[q] = generation[q] /\ known'[q] = known[q]
        /\ \A t \in Threads : Proc(t) = p => gen'[t] = 0 /\ pc'[t] = "idle"
        /\ \A t \in Threads : Proc(t) # p =>
             /\ gen'[t] = gen[t] /\ pc'[t] = pc[t] /\ call'[t] = call[t] /\ answer'[t] = answer[t]
    BY <1>d DEF Crash, HealthTyped
  <2>2. MemoNotOlder' /\ \A q \in Processes : known'[q] <= epoch'
    BY <1>n, <2>1 DEF MemoInv, MemoNotOlder
  <2>3. AnswersNotOlder'
    <3> SUFFICES ASSUME NEW t \in Threads
                 PROVE  /\ gen'[t] <= generation'[Proc(t)]
                        /\ Answered(t)' /\ gen'[t] = generation'[Proc(t)]
                             => answer'[t].epoch >= known'[Proc(t)]
      BY DEF AnswersNotOlder
    <3>1. CASE Proc(t) = p
      BY <2>1, <3>1 DEF Answered
    <3>2. CASE Proc(t) # p
      BY <2>1, <3>2, ProcOfThread DEF MemoInv, AnswersNotOlder, Answered
    <3> QED
      BY <3>1, <3>2
  <2> QED
    BY <2>2, <2>3 DEF MemoInv
<1>e. CASE UNCHANGED healthVars
  BY <1>e DEF healthVars, MemoInv, MemoNotOlder, AnswersNotOlder, Answered
<1> QED
  BY <1>a, <1>b, <1>c, <1>d, <1>e, NextIsAct

-----------------------------------------------------------------------------
LEMMA InitHealth == HealthInit => HealthInv
<1> SUFFICES ASSUME HealthInit PROVE HealthInv
  OBVIOUS
<1>1. HealthTyped
  BY DEF HealthInit, HealthTyped, NoState, FileStates, NoMemo, Answers, Calls
<1>2. StreakInv
  BY DEF HealthInit, StreakInv, MutexHeld, InMutex, OneRewriter, InRewrite, ReadIsCurrent, Counted, NoState
<1>3. MemoInv
  BY ProcOfThread DEF HealthInit, MemoInv, MemoNotOlder, AnswersNotOlder, Answered
<1> QED
  BY <1>1, <1>2, <1>3 DEF HealthInv

\* The inductive invariant, of which the two theorems below are parts.
THEOREM HealthHolds == HealthSpec => []HealthInv
<1>1. HealthInv /\ [HealthNext]_healthVars => HealthInv'
  BY TypedStep, StreakStep, MemoStep DEF HealthInv
<1> QED
  BY InitHealth, <1>1, PTL DEF HealthSpec

\* The streak in the state file is the number of failures in a row, whoever
\* reports them, until two processes rewrite the file at once.
THEOREM StreakCounts == HealthSpec => []StreakExact
<1>1. HealthInv => StreakExact
  BY DEF HealthInv, StreakInv, Counted, StreakExact
<1> QED
  BY <1>1, HealthHolds, PTL

\* No process memoises an answer that was read from an older file than the
\* last one it recorded an outcome in, however long the evaluation took.
THEOREM MemoStaysCurrent == HealthSpec => []MemoNotOlder
<1>1. HealthInv => MemoNotOlder
  BY DEF HealthInv, MemoInv
<1> QED
  BY <1>1, HealthHolds, PTL

================================================================================
