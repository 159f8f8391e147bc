------------------------ MODULE TextPrefetcher_proof ------------------------
(***************************************************************************)
(* For every read-ahead depth, every length of the source and of the skip, *)
(* and every set of closing threads: TypeOK, SlotsConserved, InOrder,      *)
(* ExclusiveWhileQuiesced and CloseTellsTheTruth are invariants of         *)
(* TextPrefetcher, and NeverRestarted holds of every step.                 *)
(***************************************************************************)
EXTENDS TextPrefetcher, SequenceTheorems, TLAPS

\* What is about to be counted fits.
CountersFit ==
  /\ ppc = "skipping" => skipped < Skip
  /\ ppc = "put" => produced >= 1

\* Envelopes are drained, with the slots they hold, only once closed.
ClosedWhileDraining == \A k \in Closers : lpc[k] \in {"lock", "join", "drain"} => closed

ReadAhead == TypeOK /\ SlotsConserved /\ ClosedWhileDraining /\ CountersFit

\* close() takes the pause request back only from a stopped prefetcher.
ClosingMeansStopped == \A k \in Closers : lpc[k] = "unpause" => stop

\* The two flags quiesce() polls say where the producer is: quiescent, that
\* it is in the polling loop or about to leave it; done, that it is through.
FlagsTellTheTruth ==
  /\ quiescent => ppc \in {"parked", "unpark"}
  /\ done => ppc \in {"exit", "dead"}

\* The pause request outlives the return of quiesce(): a producer that was
\* still leaving an earlier park parks again before it reserves a slot.
PausedWhileExclusive ==
  ~stop => /\ cpc = "waiting" => pause
           /\ cpc = "exclusive" =>
                \/ ppc \in {"none", "exit", "dead"}
                \/ pause /\ ppc \in {"loop", "checkpause", "park", "parked", "unpark"}

Pausing == ClosingMeansStopped /\ FlagsTellTheTruth /\ PausedWhileExclusive

\* close() sets stop before it says closed, says closed before it locks, and
\* until then it goes for an orphan; what it then finds dead stays dead.
Closing ==
  /\ closed => stop
  /\ \A k \in Closers :
       /\ lpc[k] \in {"unpause", "close"} => stop
       /\ lpc[k] \in {"lock", "join", "drain", "clean", "unclean"} => closed
       /\ lpc[k] # "idle" /\ ~closed => orphaned
       /\ lpc[k] = "drain" => ~alive
  /\ CleanMeansReleased

Rising(s) == \A i, j \in DOMAIN s : i < j => s[i] < s[j]

\* The last batch that has an envelope.
Sent == IF ppc = "put" THEN produced - 1 ELSE produced

\* The batches received, the envelopes behind them and the batch in the
\* producer's hand are increasing; without a drain, they are also complete.
Delivery ==
  /\ Rising(consumed) /\ Rising(envelopes)
  /\ \A i \in DOMAIN consumed : consumed[i] <= Sent
  /\ \A j \in DOMAIN envelopes : envelopes[j] <= Sent
  /\ \A i \in DOMAIN consumed, j \in DOMAIN envelopes : consumed[i] < envelopes[j]
  /\ ~closed => /\ \A i \in DOMAIN consumed : consumed[i] = i
                /\ \A j \in DOMAIN envelopes : envelopes[j] = Len(consumed) + j
                /\ Len(consumed) + Len(envelopes) = Sent

IInv == ReadAhead /\ Pausing /\ Closing /\ Delivery
-----------------------------------------------------------------------------
LEMMA InitInv == Init => IInv
<1> SUFFICES ASSUME Init PROVE IInv
  OBVIOUS
<1> USE DepthAssumption, SkipAssumption, MaxItemsAssumption DEF Init
<1>1. TypeOK
  <2>1. envelopes \in Seq(1..MaxItems) /\ consumed \in Seq(1..MaxItems)
    BY EmptySeq
  <2>2. lpc \in [Closers -> {"idle", "stop", "unpause", "close", "lock", "join",
                             "drain", "clean", "unclean"}]
    OBVIOUS
  <2>3. {stop, pause, quiescent, ready, done, closed, orphaned} \subseteq BOOLEAN
    OBVIOUS
  <2>4. skipped \in 0..Skip /\ produced \in 0..MaxItems /\ slots \in 0..Depth
    OBVIOUS
  <2> QED
    BY <2>1, <2>2, <2>3, <2>4 DEF TypeOK
<1>2. SlotsConserved
  <2>1. Len(envelopes) = 0 /\ InFlight = 0
    BY EmptySeq DEF InFlight
  <2> QED
    BY <2>1 DEF SlotsConserved, Held
<1>3. ClosedWhileDraining /\ CountersFit
  BY DEF ClosedWhileDraining, CountersFit
<1>4. Pausing
  BY DEF Pausing, ClosingMeansStopped, FlagsTellTheTruth, PausedWhileExclusive
<1>5. Closing
  BY DEF Closing, CleanMeansReleased
<1>6. Delivery
  <2>1. Len(envelopes) = 0 /\ Len(consumed) = 0 /\ DOMAIN envelopes = {} /\ DOMAIN consumed = {}
    BY EmptySeq
  <2> QED
    BY <2>1 DEF Delivery, Rising, Sent
<1> QED
  BY <1>1, <1>2, <1>3, <1>4, <1>5, <1>6 DEF IInv, ReadAhead

LEMMA StepReadAhead == ReadAhead /\ [Next]_vars => ReadAhead'
<1> SUFFICES ASSUME ReadAhead, [Next]_vars PROVE ReadAhead'
  OBVIOUS
<1> USE DepthAssumption, SkipAssumption, MaxItemsAssumption
<1> USE DEF ReadAhead, TypeOK, SlotsConserved, Held, InFlight, ClosedWhileDraining, CountersFit
<1> USE DEF producerVars, queueVars, eventVars, consumerVars, closeVars
<1>1. CASE MakeIterator
  BY <1>1 DEF MakeIterator
<1>2. CASE CheckSkip
  BY <1>2 DEF CheckSkip
<1>3. CASE SkipOne
  <2> USE <1>3 DEF SkipOne
  <2>1. TypeOK'
    OBVIOUS
  <2>2. SlotsConserved'
    OBVIOUS
  <2>3. ClosedWhileDraining'
    OBVIOUS
  <2>4. CountersFit'
    OBVIOUS
  <2> QED
    BY <2>1, <2>2, <2>3, <2>4
<1>4. CASE SignalReady
  BY <1>4 DEF SignalReady
<1>5. CASE CheckStop
  BY <1>5 DEF CheckStop
<1>6. CASE CheckPause
  BY <1>6 DEF CheckPause
<1>7. CASE Park
  BY <1>7 DEF Park
<1>8. CASE LeavePark
  BY <1>8 DEF LeavePark
<1>9. CASE ClearQuiescent
  BY <1>9 DEF ClearQuiescent
<1>10. CASE AcquireSlot
  BY <1>10 DEF AcquireSlot
<1>11. CASE Stage
  <2> USE <1>11 DEF Stage
  <2>1. TypeOK'
    OBVIOUS
  <2>2. SlotsConserved'
    OBVIOUS
  <2>3. ClosedWhileDraining'
    OBVIOUS
  <2>4. CountersFit'
    OBVIOUS
  <2> QED
    BY <2>1, <2>2, <2>3, <2>4
<1>12. CASE PutItem
  <2> USE <1>12 DEF PutItem
  <2>1. TypeOK'
    OBVIOUS
  <2>2. SlotsConserved'
    <3>1. produced \in 1..MaxItems
      OBVIOUS
    <3>2. Len(envelopes') = Len(envelopes) + 1 /\ Len(envelopes) \in Nat
      BY <3>1, AppendProperties, LenProperties
    <3>3. slots' = slots /\ InFlight' = InFlight - 1
      OBVIOUS
    <3> HIDE DEF InFlight
    <3>4. InFlight \in Nat
      BY DEF InFlight
    <3>5. Held' = Held
      BY <3>2, <3>3, <3>4
    <3> QED
      BY <3>5
  <2>3. ClosedWhileDraining'
    OBVIOUS
  <2>4. CountersFit'
    OBVIOUS
  <2> QED
    BY <2>1, <2>2, <2>3, <2>4
<1>13. CASE ReleaseUnused
  <2> USE <1>13 DEF ReleaseUnused
  <2>1. TypeOK'
    OBVIOUS
  <2>2. SlotsConserved'
    <3>1. Len(envelopes) \in Nat
      BY LenProperties
    <3>2. slots' = slots + 1 /\ Len(envelopes') = Len(envelopes) /\ InFlight' = InFlight - 1
      OBVIOUS
    <3> HIDE DEF InFlight
    <3>3. InFlight \in Nat
      BY DEF InFlight
    <3>4. Held' = Held
      BY <3>1, <3>2, <3>3
    <3> QED
      BY <3>4
  <2>3. ClosedWhileDraining'
    OBVIOUS
  <2>4. CountersFit'
    OBVIOUS
  <2> QED
    BY <2>1, <2>2, <2>3, <2>4
<1>14. CASE PutTerminal
  BY <1>14 DEF PutTerminal
<1>15. CASE Cleanup
  BY <1>15 DEF Cleanup
<1>16. CASE CloseIterator
  BY <1>16 DEF CloseIterator
<1>17. CASE ThreadExits
  BY <1>17 DEF ThreadExits
<1>18. CASE CallNext
  BY <1>18 DEF CallNext
<1>19. CASE EnsureStarted
  <2> USE <1>19 DEF EnsureStarted, InLifecycle, Refuses
  <2>1. TypeOK'
    OBVIOUS
  <2>2. SlotsConserved'
    OBVIOUS
  <2>3. ClosedWhileDraining'
    OBVIOUS
  <2>4. CountersFit'
    OBVIOUS
  <2> QED
    BY <2>1, <2>2, <2>3, <2>4
<1>20. CASE AwaitReady
  BY <1>20 DEF AwaitReady
<1>21. CASE TakeItem
  <2> USE <1>21 DEF TakeItem
  <2>1. TypeOK'
    OBVIOUS
  <2>2. SlotsConserved'
    <3>1. Len(envelopes') = Len(envelopes) - 1 /\ Len(envelopes) \in Nat \ {0}
      BY HeadTailProperties, EmptySeq
    <3>2. slots' = slots /\ InFlight' = InFlight + 1
      OBVIOUS
    <3> HIDE DEF InFlight
    <3>3. InFlight \in Nat
      BY DEF InFlight
    <3>4. Held' = Held
      BY <3>1, <3>2, <3>3
    <3> QED
      BY <3>4
  <2>3. ClosedWhileDraining'
    OBVIOUS
  <2>4. CountersFit'
    OBVIOUS
  <2> QED
    BY <2>1, <2>2, <2>3, <2>4
<1>22. CASE ReleaseSlot
  <2> USE <1>22 DEF ReleaseSlot
  <2>1. TypeOK'
    OBVIOUS
  <2>2. SlotsConserved'
    OBVIOUS
  <2>3. ClosedWhileDraining'
    OBVIOUS
  <2>4. CountersFit'
    OBVIOUS
  <2> QED
    BY <2>1, <2>2, <2>3, <2>4
<1>23. CASE TakeTerminal
  BY <1>23 DEF TakeTerminal
<1>24. CASE GetTimesOut
  BY <1>24 DEF GetTimesOut
<1>25. CASE CheckStopped
  BY <1>25 DEF CheckStopped
<1>26. CASE CallQuiesce
  BY <1>26 DEF CallQuiesce, alive
<1>27. CASE SetPause
  BY <1>27 DEF SetPause
<1>28. CASE QuiesceReturns
  BY <1>28 DEF QuiesceReturns
<1>29. CASE QuiesceTimesOut
  <2> USE <1>29 DEF QuiesceTimesOut
  <2>1. TypeOK'
    OBVIOUS
  <2>2. SlotsConserved'
    OBVIOUS
  <2>3. ClosedWhileDraining'
    OBVIOUS
  <2>4. CountersFit'
    OBVIOUS
  <2> QED
    BY <2>1, <2>2, <2>3, <2>4
<1>30. CASE Resume
  <2> USE <1>30 DEF Resume
  <2>1. TypeOK'
    OBVIOUS
  <2>2. SlotsConserved'
    OBVIOUS
  <2>3. ClosedWhileDraining'
    OBVIOUS
  <2>4. CountersFit'
    OBVIOUS
  <2> QED
    BY <2>1, <2>2, <2>3, <2>4
<1>31. CASE Unwind
  BY <1>31 DEF Unwind
<1>32. CASE \E k \in Closers : CallClose(k)
  BY <1>32 DEF CallClose
<1>33. CASE \E k \in Closers : SetStop(k)
  BY <1>33 DEF SetStop, InLifecycle
<1>34. ASSUME NEW k \in Closers, ClearPause(k) PROVE ReadAhead'
  <2> USE <1>34 DEF ClearPause
  <2>1. TypeOK'
    <3>1. lpc' \in [Closers -> {"idle", "stop", "unpause", "close", "lock", "join",
                                "drain", "clean", "unclean"}]
      OBVIOUS
    <3>2. pause' = FALSE /\ closeLock' = closeLock
      OBVIOUS
    <3> HIDE DEF ClearPause
    <3>3. UNCHANGED <<producerVars, queueVars, stop, quiescent, ready, done, closed, orphaned,
                      cpc, consumed>>
      BY DEF ClearPause
    <3> HIDE <1>34
    <3>4. {stop, pause, quiescent, ready, done, closed, orphaned}' \subseteq BOOLEAN
      BY <3>2, <3>3
    <3> QED
      BY <3>1, <3>2, <3>3, <3>4
  <2>2. SlotsConserved'
    OBVIOUS
  <2>3. ClosedWhileDraining'
    OBVIOUS
  <2>4. CountersFit'
    OBVIOUS
  <2> QED
    BY <2>1, <2>2, <2>3, <2>4
<1>35. CASE \E k \in Closers : SetClosed(k)
  BY <1>35 DEF SetClosed
<1>36. CASE \E k \in Closers : LockClose(k)
  BY <1>36 DEF LockClose
<1>37. CASE \E k \in Closers : Join(k)
  BY <1>37 DEF Join, alive
<1>38. CASE \E k \in Closers : JoinTimesOut(k)
  BY <1>38 DEF JoinTimesOut, alive
<1>39. ASSUME NEW k \in Closers, DrainOne(k) PROVE ReadAhead'
  <2> USE <1>39 DEF DrainOne
  <2>1. TypeOK'
    <3>1. envelopes # <<>> => Tail(envelopes) \in Seq(1..MaxItems)
      <4> HIDE <1>39
      <4> QED
        BY HeadTailProperties
    <3>2. envelopes' \in {envelopes, Tail(envelopes)} /\ (envelopes' # envelopes => envelopes # <<>>)
      OBVIOUS
    <3>3. envelopes' \in Seq(1..MaxItems)
      BY <3>1, <3>2
    <3> QED
      BY <3>3
  <2>2. SlotsConserved'
    OBVIOUS
  <2>3. ClosedWhileDraining'
    OBVIOUS
  <2>4. CountersFit'
    OBVIOUS
  <2> QED
    BY <2>1, <2>2, <2>3, <2>4
<1>40. ASSUME NEW k \in Closers, DrainDone(k) PROVE ReadAhead'
  <2> USE <1>40 DEF DrainDone
  <2>1. TypeOK'
    OBVIOUS
  <2>2. SlotsConserved'
    OBVIOUS
  <2>3. ClosedWhileDraining'
    OBVIOUS
  <2>4. CountersFit'
    OBVIOUS
  <2> QED
    BY <2>1, <2>2, <2>3, <2>4
<1>41. CASE \E k \in Closers : InterruptClose(k)
  BY <1>41 DEF InterruptClose
<1>42. CASE UNCHANGED vars
  BY <1>42 DEF vars
<1> QED
  BY <1>1, <1>2, <1>3, <1>4, <1>5, <1>6, <1>7, <1>8, <1>9, <1>10, <1>11, <1>12, <1>13, <1>14,
     <1>15, <1>16, <1>17, <1>18, <1>19, <1>20, <1>21, <1>22, <1>23, <1>24, <1>25, <1>26, <1>27, <1>28,
     <1>29, <1>30, <1>31, <1>32, <1>33, <1>34, <1>35, <1>36, <1>37, <1>38, <1>39, <1>40, <1>41, <1>42 DEF Next, Producer, Consumer, Closer

LEMMA StepPausing == TypeOK /\ Pausing /\ [Next]_vars => Pausing'
<1> SUFFICES ASSUME TypeOK /\ Pausing, [Next]_vars PROVE Pausing'
  OBVIOUS
<1>typed. lpc \in [Closers -> {"idle", "stop", "unpause", "close", "lock", "join",
                             "drain", "clean", "unclean"}]
  BY DEF TypeOK
<1> USE <1>typed
<1> USE DEF Pausing, ClosingMeansStopped, FlagsTellTheTruth, PausedWhileExclusive
<1> USE DEF producerVars, queueVars, eventVars, consumerVars, closeVars
<1>1. CASE MakeIterator
  BY <1>1 DEF MakeIterator
<1>2. CASE CheckSkip
  BY <1>2 DEF CheckSkip
<1>3. CASE SkipOne
  BY <1>3 DEF SkipOne
<1>4. CASE SignalReady
  BY <1>4 DEF SignalReady
<1>5. CASE CheckStop
  BY <1>5 DEF CheckStop
<1>6. CASE CheckPause
  BY <1>6 DEF CheckPause
<1>7. CASE Park
  BY <1>7 DEF Park
<1>8. CASE LeavePark
  BY <1>8 DEF LeavePark
<1>9. CASE ClearQuiescent
  BY <1>9 DEF ClearQuiescent
<1>10. CASE AcquireSlot
  BY <1>10 DEF AcquireSlot
<1>11. CASE Stage
  BY <1>11 DEF Stage
<1>12. CASE PutItem
  BY <1>12 DEF PutItem
<1>13. CASE ReleaseUnused
  BY <1>13 DEF ReleaseUnused
<1>14. CASE PutTerminal
  BY <1>14 DEF PutTerminal
<1>15. CASE Cleanup
  BY <1>15 DEF Cleanup
<1>16. CASE CloseIterator
  BY <1>16 DEF CloseIterator
<1>17. CASE ThreadExits
  BY <1>17 DEF ThreadExits
<1>18. CASE CallNext
  BY <1>18 DEF CallNext
<1>19. CASE EnsureStarted
  BY <1>19 DEF EnsureStarted, InLifecycle, Refuses
<1>20. CASE AwaitReady
  BY <1>20 DEF AwaitReady
<1>21. CASE TakeItem
  BY <1>21 DEF TakeItem
<1>22. CASE ReleaseSlot
  BY <1>22 DEF ReleaseSlot
<1>23. CASE TakeTerminal
  BY <1>23 DEF TakeTerminal
<1>24. CASE GetTimesOut
  BY <1>24 DEF GetTimesOut
<1>25. CASE CheckStopped
  BY <1>25 DEF CheckStopped
<1>26. CASE CallQuiesce
  BY <1>26 DEF CallQuiesce, alive
<1>27. CASE SetPause
  BY <1>27 DEF SetPause
<1>28. CASE QuiesceReturns
  BY <1>28 DEF QuiesceReturns
<1>29. CASE QuiesceTimesOut
  BY <1>29 DEF QuiesceTimesOut
<1>30. CASE Resume
  BY <1>30 DEF Resume
<1>31. CASE Unwind
  BY <1>31 DEF Unwind
<1>32. CASE \E k \in Closers : CallClose(k)
  BY <1>32 DEF CallClose
<1>33. CASE \E k \in Closers : SetStop(k)
  BY <1>33 DEF SetStop, InLifecycle
<1>34. CASE \E k \in Closers : ClearPause(k)
  BY <1>34 DEF ClearPause
<1>35. CASE \E k \in Closers : SetClosed(k)
  BY <1>35 DEF SetClosed
<1>36. CASE \E k \in Closers : LockClose(k)
  BY <1>36 DEF LockClose
<1>37. CASE \E k \in Closers : Join(k)
  BY <1>37 DEF Join, alive
<1>38. CASE \E k \in Closers : JoinTimesOut(k)
  BY <1>38 DEF JoinTimesOut, alive
<1>39. CASE \E k \in Closers : DrainOne(k)
  BY <1>39 DEF DrainOne
<1>40. CASE \E k \in Closers : DrainDone(k)
  BY <1>40 DEF DrainDone
<1>41. CASE \E k \in Closers : InterruptClose(k)
  BY <1>41 DEF InterruptClose
<1>42. CASE UNCHANGED vars
  BY <1>42 DEF vars
<1> QED
  BY <1>1, <1>2, <1>3, <1>4, <1>5, <1>6, <1>7, <1>8, <1>9, <1>10, <1>11, <1>12, <1>13, <1>14,
     <1>15, <1>16, <1>17, <1>18, <1>19, <1>20, <1>21, <1>22, <1>23, <1>24, <1>25, <1>26, <1>27, <1>28,
     <1>29, <1>30, <1>31, <1>32, <1>33, <1>34, <1>35, <1>36, <1>37, <1>38, <1>39, <1>40, <1>41, <1>42 DEF Next, Producer, Consumer, Closer

LEMMA StepClosing == TypeOK /\ Closing /\ [Next]_vars => Closing'
<1> SUFFICES ASSUME TypeOK /\ Closing, [Next]_vars PROVE Closing'
  OBVIOUS
<1>typed. lpc \in [Closers -> {"idle", "stop", "unpause", "close", "lock", "join",
                             "drain", "clean", "unclean"}]
  BY DEF TypeOK
<1> USE <1>typed
<1> USE DEF Closing, CleanMeansReleased, alive
<1> USE DEF producerVars, queueVars, eventVars, consumerVars, closeVars
<1>1. CASE MakeIterator
  BY <1>1 DEF MakeIterator
<1>2. CASE CheckSkip
  BY <1>2 DEF CheckSkip
<1>3. CASE SkipOne
  BY <1>3 DEF SkipOne
<1>4. CASE SignalReady
  BY <1>4 DEF SignalReady
<1>5. CASE CheckStop
  BY <1>5 DEF CheckStop
<1>6. CASE CheckPause
  BY <1>6 DEF CheckPause
<1>7. CASE Park
  BY <1>7 DEF Park
<1>8. CASE LeavePark
  BY <1>8 DEF LeavePark
<1>9. CASE ClearQuiescent
  BY <1>9 DEF ClearQuiescent
<1>10. CASE AcquireSlot
  BY <1>10 DEF AcquireSlot
<1>11. CASE Stage
  BY <1>11 DEF Stage
<1>12. CASE PutItem
  BY <1>12 DEF PutItem
<1>13. CASE ReleaseUnused
  BY <1>13 DEF ReleaseUnused
<1>14. CASE PutTerminal
  BY <1>14 DEF PutTerminal
<1>15. CASE Cleanup
  BY <1>15 DEF Cleanup
<1>16. CASE CloseIterator
  BY <1>16 DEF CloseIterator
<1>17. CASE ThreadExits
  BY <1>17 DEF ThreadExits
<1>18. CASE CallNext
  BY <1>18 DEF CallNext
<1>19. CASE EnsureStarted
  BY <1>19 DEF EnsureStarted, InLifecycle, Refuses
<1>20. CASE AwaitReady
  BY <1>20 DEF AwaitReady
<1>21. CASE TakeItem
  BY <1>21 DEF TakeItem
<1>22. CASE ReleaseSlot
  BY <1>22 DEF ReleaseSlot
<1>23. CASE TakeTerminal
  BY <1>23 DEF TakeTerminal
<1>24. CASE GetTimesOut
  BY <1>24 DEF GetTimesOut
<1>25. CASE CheckStopped
  BY <1>25 DEF CheckStopped
<1>26. CASE CallQuiesce
  BY <1>26 DEF CallQuiesce, alive
<1>27. CASE SetPause
  BY <1>27 DEF SetPause
<1>28. CASE QuiesceReturns
  BY <1>28 DEF QuiesceReturns
<1>29. CASE QuiesceTimesOut
  BY <1>29 DEF QuiesceTimesOut
<1>30. CASE Resume
  BY <1>30 DEF Resume
<1>31. CASE Unwind
  BY <1>31 DEF Unwind
<1>32. CASE \E k \in Closers : CallClose(k)
  BY <1>32 DEF CallClose
<1>33. CASE \E k \in Closers : SetStop(k)
  BY <1>33 DEF SetStop, InLifecycle
<1>34. CASE \E k \in Closers : ClearPause(k)
  BY <1>34 DEF ClearPause
<1>35. CASE \E k \in Closers : SetClosed(k)
  BY <1>35 DEF SetClosed
<1>36. CASE \E k \in Closers : LockClose(k)
  BY <1>36 DEF LockClose
<1>37. CASE \E k \in Closers : Join(k)
  BY <1>37 DEF Join, alive
<1>38. CASE \E k \in Closers : JoinTimesOut(k)
  BY <1>38 DEF JoinTimesOut, alive
<1>39. CASE \E k \in Closers : DrainOne(k)
  BY <1>39 DEF DrainOne
<1>40. CASE \E k \in Closers : DrainDone(k)
  BY <1>40 DEF DrainDone
<1>41. CASE \E k \in Closers : InterruptClose(k)
  BY <1>41 DEF InterruptClose
<1>42. CASE UNCHANGED vars
  BY <1>42 DEF vars
<1> QED
  BY <1>1, <1>2, <1>3, <1>4, <1>5, <1>6, <1>7, <1>8, <1>9, <1>10, <1>11, <1>12, <1>13, <1>14,
     <1>15, <1>16, <1>17, <1>18, <1>19, <1>20, <1>21, <1>22, <1>23, <1>24, <1>25, <1>26, <1>27, <1>28,
     <1>29, <1>30, <1>31, <1>32, <1>33, <1>34, <1>35, <1>36, <1>37, <1>38, <1>39, <1>40, <1>41, <1>42 DEF Next, Producer, Consumer, Closer

\* The steps that neither stage, move nor drop a batch.
Undisturbed ==
  /\ UNCHANGED <<produced, envelopes, consumed>>
  /\ ppc' = "put" <=> ppc = "put"
  /\ closed => closed'

LEMMA OnlyThese ==
  ASSUME [Next]_vars
  PROVE  Undisturbed \/ Stage \/ PutItem \/ TakeItem \/ \E k \in Closers : DrainOne(k)
<1> USE DEF producerVars, queueVars, eventVars, consumerVars, closeVars, Undisturbed
<1>1. CASE Producer
  BY <1>1 DEF Producer, MakeIterator, CheckSkip, SkipOne, SignalReady, CheckStop, CheckPause,
     Park, LeavePark, ClearQuiescent, AcquireSlot, ReleaseUnused, PutTerminal,
     Cleanup, CloseIterator, ThreadExits
<1>2. CASE Consumer
  BY <1>2 DEF Consumer, CallNext, EnsureStarted, AwaitReady, ReleaseSlot, TakeTerminal,
     GetTimesOut, CheckStopped, CallQuiesce, SetPause, QuiesceReturns, QuiesceTimesOut, Resume,
     Unwind
<1>3. ASSUME NEW k \in Closers, Closer(k), ~DrainOne(k) PROVE Undisturbed
  BY <1>3 DEF Closer, CallClose, SetStop, ClearPause, SetClosed, LockClose, Join, JoinTimesOut,
     DrainDone, InterruptClose
<1>4. CASE UNCHANGED vars
  BY <1>4 DEF vars
<1> QED
  BY <1>1, <1>2, <1>3, <1>4 DEF Next

LEMMA StepDelivery == ReadAhead /\ Delivery /\ [Next]_vars => Delivery'
<1> SUFFICES ASSUME ReadAhead, Delivery, [Next]_vars PROVE Delivery'
  OBVIOUS
<1>1. /\ envelopes \in Seq(1..MaxItems) /\ consumed \in Seq(1..MaxItems)
      /\ produced \in Nat /\ (ppc = "put" => produced >= 1)
      /\ DOMAIN envelopes = 1..Len(envelopes) /\ DOMAIN consumed = 1..Len(consumed)
      /\ Len(envelopes) \in Nat /\ Len(consumed) \in Nat
  <2>1. envelopes \in Seq(1..MaxItems) /\ consumed \in Seq(1..MaxItems)
        /\ produced \in Nat /\ (ppc = "put" => produced >= 1)
    BY MaxItemsAssumption DEF ReadAhead, TypeOK, CountersFit
  <2> QED
    BY <2>1, LenProperties
<1>2. /\ \A j \in 1..Len(envelopes) : envelopes[j] \in Nat
      /\ \A i \in 1..Len(consumed) : consumed[i] \in Nat
  <2>1. \A j \in 1..Len(envelopes) : envelopes[j] \in 1..MaxItems
    BY <1>1, ElementOfSeq
  <2>2. \A i \in 1..Len(consumed) : consumed[i] \in 1..MaxItems
    BY <1>1, ElementOfSeq
  <2> QED
    BY <2>1, <2>2
<1>3. CASE Undisturbed
  <2>1. Sent' = Sent
    BY <1>3 DEF Undisturbed, Sent
  <2> QED
    BY <1>3, <2>1 DEF Undisturbed, Delivery, Rising
<1>4. CASE Stage
  <2>1. Sent' = Sent /\ UNCHANGED <<envelopes, consumed, closed>>
    BY <1>1, <1>4 DEF Stage, Sent, queueVars, consumerVars
  <2> QED
    BY <2>1 DEF Delivery, Rising
<1>5. CASE PutItem
  <2>1. /\ Sent = produced - 1 /\ Sent' = produced /\ UNCHANGED <<consumed, closed>>
        /\ envelopes' = Append(envelopes, produced) /\ produced >= 1
    BY <1>1, <1>5 DEF PutItem, Sent, consumerVars
  <2>2. /\ DOMAIN envelopes' = 1..(Len(envelopes) + 1) /\ Len(envelopes') = Len(envelopes) + 1
        /\ \A j \in 1..Len(envelopes) : envelopes'[j] = envelopes[j]
        /\ envelopes'[Len(envelopes) + 1] = produced
    <3>1. produced \in 1..MaxItems
      BY <1>5, <2>1, MaxItemsAssumption DEF ReadAhead, TypeOK
    <3> QED
      BY <1>1, <2>1, <3>1, AppendProperties
  <2>3. /\ \A j \in 1..Len(envelopes) : envelopes[j] <= produced - 1
        /\ \A i \in 1..Len(consumed) : consumed[i] <= produced - 1
    BY <1>1, <2>1 DEF Delivery
  <2>4. Rising(envelopes)'
    <3> SUFFICES ASSUME NEW i \in 1..(Len(envelopes) + 1), NEW j \in 1..(Len(envelopes) + 1), i < j
                 PROVE  envelopes'[i] < envelopes'[j]
      BY <2>2 DEF Rising
    <3>1. i \in 1..Len(envelopes) /\ envelopes'[i] = envelopes[i]
      BY <1>1, <2>2
    <3>2. CASE j \in 1..Len(envelopes)
      BY <1>1, <2>2, <3>1, <3>2 DEF Delivery, Rising
    <3>3. CASE j = Len(envelopes) + 1
      BY <1>1, <1>2, <2>2, <2>3, <3>1, <3>3
    <3> QED
      BY <1>1, <3>2, <3>3
  <2>5. /\ \A i \in DOMAIN consumed' : consumed'[i] <= Sent'
        /\ \A j \in DOMAIN envelopes' : envelopes'[j] <= Sent'
    BY <1>1, <1>2, <2>1, <2>2, <2>3
  <2>6. \A i \in DOMAIN consumed', j \in DOMAIN envelopes' : consumed'[i] < envelopes'[j]
    <3> SUFFICES ASSUME NEW i \in 1..Len(consumed), NEW j \in 1..(Len(envelopes) + 1)
                 PROVE  consumed[i] < envelopes'[j]
      BY <1>1, <2>1, <2>2
    <3>1. CASE j \in 1..Len(envelopes)
      BY <1>1, <2>2, <3>1 DEF Delivery
    <3>2. CASE j = Len(envelopes) + 1
      BY <1>1, <1>2, <2>2, <2>3, <3>2
    <3> QED
      BY <1>1, <3>1, <3>2
  <2>7. ~closed' => /\ \A i \in DOMAIN consumed' : consumed'[i] = i
                    /\ \A j \in DOMAIN envelopes' : envelopes'[j] = Len(consumed') + j
                    /\ Len(consumed') + Len(envelopes') = Sent'
    <3> SUFFICES ASSUME ~closed
                 PROVE  /\ \A i \in DOMAIN consumed : consumed[i] = i
                        /\ \A j \in 1..(Len(envelopes) + 1) : envelopes'[j] = Len(consumed) + j
                        /\ Len(consumed) + (Len(envelopes) + 1) = produced
      BY <2>1, <2>2
    <3>1. /\ \A i \in DOMAIN consumed : consumed[i] = i
          /\ \A j \in 1..Len(envelopes) : envelopes[j] = Len(consumed) + j
          /\ Len(consumed) + Len(envelopes) = produced - 1
      BY <1>1, <2>1 DEF Delivery
    <3>2. produced = Len(consumed) + (Len(envelopes) + 1)
      BY <1>1, <3>1
    <3>3. \A j \in 1..(Len(envelopes) + 1) : j \in 1..Len(envelopes) \/ j = Len(envelopes) + 1
      BY <1>1
    <3> QED
      BY <2>2, <3>1, <3>2, <3>3
  <2>8. Rising(consumed)'
    BY <2>1 DEF Delivery, Rising
  <2> QED
    BY <2>4, <2>5, <2>6, <2>7, <2>8 DEF Delivery, Rising
<1>6. CASE TakeItem
  <2> DEFINE L == Len(envelopes)
             M == Len(consumed)
  <2>1. /\ consumed' = Append(consumed, Head(envelopes)) /\ envelopes' = Tail(envelopes)
        /\ envelopes # <<>> /\ Sent' = Sent /\ UNCHANGED closed
    BY <1>6 DEF TakeItem, Sent, producerVars, closeVars
  <2>2. /\ L \in Nat \ {0} /\ Head(envelopes) = envelopes[1]
        /\ DOMAIN envelopes' = 1..(L - 1) /\ Len(envelopes') = L - 1
        /\ \A j \in 1..(L - 1) : envelopes'[j] = envelopes[j + 1]
    BY <1>1, <2>1, HeadTailProperties, EmptySeq
  <2>3. /\ DOMAIN consumed' = 1..(M + 1) /\ Len(consumed') = M + 1
        /\ \A i \in 1..M : consumed'[i] = consumed[i]
        /\ consumed'[M + 1] = envelopes[1]
    <3>1. Head(envelopes) \in 1..MaxItems
      BY <1>1, <2>1, HeadTailProperties
    <3> QED
      BY <1>1, <2>1, <2>2, <3>1, AppendProperties
  <2> HIDE DEF L, M
  <2>4. L \in Nat /\ M \in Nat /\ L >= 1 /\ DOMAIN envelopes = 1..L /\ DOMAIN consumed = 1..M
        /\ L = Len(envelopes) /\ M = Len(consumed)
    BY <1>1, <2>2 DEF L, M
  <2>5. Rising(consumed)'
    BY <1>2, <2>1, <2>3, <2>4 DEF Delivery, Rising
  <2>6. Rising(envelopes)'
    BY <1>2, <2>1, <2>2, <2>4 DEF Delivery, Rising
  <2>7. \A i \in DOMAIN consumed', j \in DOMAIN envelopes' : consumed'[i] < envelopes'[j]
    <3> SUFFICES ASSUME NEW i \in 1..(M + 1), NEW j \in 1..(L - 1)
                 PROVE  consumed'[i] < envelopes[j + 1]
      BY <2>2, <2>3
    <3>1. j + 1 \in DOMAIN envelopes /\ 1 \in DOMAIN envelopes /\ 1 < j + 1
      BY <2>4
    <3>2. CASE i \in 1..M
      BY <2>3, <2>4, <3>1, <3>2 DEF Delivery
    <3>3. CASE i = M + 1
      BY <2>3, <3>1, <3>3 DEF Delivery, Rising
    <3> QED
      BY <2>4, <3>2, <3>3
  <2>8. /\ \A i \in DOMAIN consumed' : consumed'[i] <= Sent'
        /\ \A j \in DOMAIN envelopes' : envelopes'[j] <= Sent'
    BY <1>2, <2>1, <2>2, <2>3, <2>4 DEF Delivery
  <2>9. ~closed' => /\ \A i \in DOMAIN consumed' : consumed'[i] = i
                    /\ \A j \in DOMAIN envelopes' : envelopes'[j] = Len(consumed') + j
                    /\ Len(consumed') + Len(envelopes') = Sent'
    <3> SUFFICES ASSUME ~closed
                 PROVE  /\ \A i \in 1..(M + 1) : consumed'[i] = i
                        /\ \A j \in 1..(L - 1) : envelopes[j + 1] = M + 1 + j
                        /\ M + 1 + (L - 1) = Sent
      BY <2>1, <2>2, <2>3
    <3>1. /\ \A i \in 1..M : consumed[i] = i
          /\ \A j \in 1..L : envelopes[j] = M + j
          /\ M + L = Sent
      BY <2>4 DEF Delivery
    <3>2. \A j \in 1..(L - 1) : j + 1 \in 1..L
      BY <2>4
    <3>3. envelopes[1] = M + 1
      BY <2>4, <3>1
    <3>4. \A i \in 1..(M + 1) : consumed'[i] = i
      BY <2>3, <2>4, <3>1, <3>3
    <3>5. \A j \in 1..(L - 1) : envelopes[j + 1] = M + 1 + j
      BY <2>4, <3>1, <3>2
    <3> QED
      BY <2>4, <3>1, <3>4, <3>5
  <2> QED
    BY <2>5, <2>6, <2>7, <2>8, <2>9 DEF Delivery, Rising
<1>7. ASSUME NEW k \in Closers, DrainOne(k) PROVE Delivery'
  <2>1. closed /\ closed' /\ Sent' = Sent /\ consumed' = consumed
    BY <1>7 DEF DrainOne, ReadAhead, ClosedWhileDraining, Sent, producerVars
  <2>2. CASE envelopes' = envelopes
    BY <2>1, <2>2 DEF Delivery, Rising
  <2>3. CASE envelopes # <<>> /\ envelopes' = Tail(envelopes)
    <3>1. /\ Len(envelopes) \in Nat \ {0} /\ DOMAIN envelopes' = 1..(Len(envelopes) - 1)
          /\ \A j \in 1..(Len(envelopes) - 1) : envelopes'[j] = envelopes[j + 1]
      BY <1>1, <2>3, HeadTailProperties, EmptySeq
    <3>2. \A j \in DOMAIN envelopes' : j + 1 \in DOMAIN envelopes /\ envelopes'[j] = envelopes[j + 1]
      BY <1>1, <3>1
    <3>3. Rising(envelopes)'
      <4> SUFFICES ASSUME NEW i \in DOMAIN envelopes', NEW j \in DOMAIN envelopes', i < j
                   PROVE  envelopes'[i] < envelopes'[j]
        BY DEF Rising
      <4>1. i + 1 < j + 1
        BY <3>1
      <4> QED
        BY <3>2, <4>1 DEF Delivery, Rising
    <3>4. /\ \A j \in DOMAIN envelopes' : envelopes'[j] <= Sent'
          /\ \A i \in DOMAIN consumed', j \in DOMAIN envelopes' : consumed'[i] < envelopes'[j]
      BY <2>1, <3>2 DEF Delivery
    <3> QED
      BY <2>1, <3>3, <3>4 DEF Delivery, Rising
  <2> QED
    BY <1>7, <2>2, <2>3 DEF DrainOne
<1> QED
  BY <1>3, <1>4, <1>5, <1>6, <1>7, OnlyThese

LEMMA StepInv == IInv /\ [Next]_vars => IInv'
  BY StepReadAhead, StepPausing, StepClosing, StepDelivery DEF IInv, ReadAhead

-----------------------------------------------------------------------------
THEOREM Invariance == Spec => []IInv
  BY InitInv, StepInv, PTL DEF Spec

\* TypeOK, for every read-ahead, skip, source length and set of closers.
THEOREM TypeCorrect == Spec => []TypeOK
<1>1. IInv => TypeOK
  BY DEF IInv, ReadAhead
<1> QED
  BY <1>1, Invariance, PTL

\* Slots are conserved: the read-ahead never exceeds the configured depth.
THEOREM ReadAheadBounded == Spec => []SlotsConserved
<1>1. IInv => SlotsConserved
  BY DEF IInv, ReadAhead
<1> QED
  BY <1>1, Invariance, PTL

\* Evaluation and saves have the tokenizer to themselves after quiesce().
THEOREM QuiesceExcludes == Spec => []ExclusiveWhileQuiesced
<1>1. IInv => ExclusiveWhileQuiesced
  BY DEF IInv, Pausing, PausedWhileExclusive, ExclusiveWhileQuiesced, Iterating
<1> QED
  BY <1>1, Invariance, PTL

\* A close that came back clean left no live producer and nothing queued, and
\* stays true; a producer that outlives a close is classified as an orphan.
THEOREM CloseIsFinal == Spec => []CloseTellsTheTruth
<1>1. IInv => CloseTellsTheTruth
  BY DEF IInv, Closing, CloseTellsTheTruth, CleanMeansReleased, LiveAfterCloseIsOrphan
<1> QED
  BY <1>1, Invariance, PTL

\* Batches arrive in the order of the source; until a close, all of them.
THEOREM DeliveredInOrder == Spec => []InOrder
<1>1. IInv => InOrder
  <2> SUFFICES ASSUME IInv PROVE InOrder
    OBVIOUS
  <2>1. produced \in Nat /\ Len(consumed) \in Nat /\ Len(envelopes) \in Nat
    BY MaxItemsAssumption, LenProperties DEF IInv, ReadAhead, TypeOK
  <2> QED
    BY <2>1 DEF IInv, Delivery, Rising, Sent, InOrder
<1> QED
  BY <1>1, Invariance, PTL

\* The producer is started only while the prefetcher is open.
THEOREM StartedOnlyWhileOpen == Spec => NeverRestarted
<1>1. [Next]_vars => [ppc = "none" /\ ppc' # "none" => ~closed /\ ~stop]_vars
  <2> SUFFICES ASSUME Next, ppc = "none", ppc' # "none" PROVE ~closed /\ ~stop
    BY DEF vars, producerVars
  <2>1. ASSUME Producer PROVE FALSE
    BY <2>1 DEF Producer, MakeIterator, CheckSkip, SkipOne, SignalReady, CheckStop, CheckPause,
        Park, LeavePark, ClearQuiescent, AcquireSlot, Stage, PutItem, ReleaseUnused, PutTerminal,
        Cleanup, CloseIterator, ThreadExits
  <2>2. ASSUME Consumer PROVE EnsureStarted
    BY <2>2 DEF Consumer, CallNext, AwaitReady, TakeItem, ReleaseSlot, TakeTerminal, GetTimesOut,
        CheckStopped, CallQuiesce, SetPause, QuiesceReturns, QuiesceTimesOut, Resume, Unwind,
        producerVars
  <2>3. ASSUME NEW k \in Closers, Closer(k) PROVE FALSE
    BY <2>3 DEF Closer, CallClose, SetStop, ClearPause, SetClosed, LockClose, Join, JoinTimesOut,
        DrainOne, DrainDone, InterruptClose, producerVars
  <2> QED
    BY <2>1, <2>2, <2>3 DEF Next, EnsureStarted, Refuses
<1> QED
  BY <1>1, PTL DEF Spec, NeverRestarted
=============================================================================
