--------------------------- MODULE XetLadder_proof ---------------------------
(***************************************************************************)
(* For all budgets of Xet and HTTP children: the safety properties of      *)
(* XetLadder are invariants, and the ladder implements DownloadPromise.    *)
(* The invariant has four parts, each preserved with the help of the ones  *)
(* before it: the children spent, the report held back, the partials and   *)
(* the force that answers them, and the cancel.                            *)
(***************************************************************************)
EXTENDS XetLadder, SequenceTheorems, TLAPS

\* A rung is begun only with a child left to spend on its transport, and no
\* HTTP child is spent before the Xet phase is over.
WithinBudget ==
  /\ ~disable_xet => http_used = 0 /\ started_on_xet
  /\ ~started_on_xet => xet_used = 0
  /\ pc \in {"rung", "requeue"} /\ ~disable_xet => xet_used < XetBudget
  /\ pc \in {"rung", "backoff"} /\ disable_xet => http_used < HttpBudget
  /\ pc = "requeue" => ~disable_xet
  /\ pc = "backoff" => disable_xet
  /\ pc = "entry" => xet_used = 0 /\ http_used = 0

Counting == TypeOK /\ WithinBudget

\* What has been reported so far, and what is held back.  A stall is held
\* from the verdict that proves it until it is reported; a fault is held
\* only before the second HTTP child, on a download without a stall.
HoldsBack ==
  /\ \/ recorded = <<>>
     \/ recorded = <<"stall">> /\ disable_xet /\ pending = "none" /\ stalledOnXet
  /\ ~started_on_xet => pending = "none" /\ ~stalledOnXet
  /\ ~disable_xet /\ pc \in {"verdict", "branch"} /\ verdict \in {"stall", "nodata"} => stalledOnXet
  /\ stalledOnXet =>
       \/ recorded = <<"stall">>
       \/ pending = "stall"
       \/ ~disable_xet /\ pc \in {"verdict", "branch"} /\ verdict \in {"stall", "nodata"}
  /\ pending = "stall" => ~pending_needs_http_success /\ stalledOnXet /\ recorded = <<>>
  /\ pending = "fault" =>
       /\ pending_needs_http_success /\ recorded = <<>> /\ disable_xet /\ ~stalledOnXet
       /\ http_used = IF pc = "rung" THEN 0 ELSE 1
       /\ pc # "backoff"

Charging ==
  /\ pc = "done" <=> outcome # "none"
  /\ outcome = "none" => HoldsBack
  /\ recorded \in {<<>>, <<"ok">>, <<"stall">>, <<"fault">>}
  /\ recorded = <<"fault">> =>
       outcome = "ok" /\ disable_xet /\ started_on_xet /\ http_used = 1 /\ ~stalledOnXet
  /\ ProvenStallCharged

\* Once HTTP has been prepared for, a partial of our Xet child and a cache
\* nobody could read are both answered by a force.
Guarding ==
  /\ http_prepared => disable_xet
  /\ pc \in {"purge", "look", "clear", "recheck"} => disable_xet
  /\ pc \in {"look", "clear", "recheck"} => http_prepared
  /\ pc \in {"spawn", "child", "verdict", "branch", "backoff"} /\ disable_xet => http_prepared
  /\ http_prepared /\ pc \notin {"look", "clear"} => ("own" \in partials => force) /\ (force \/ sawClean)
  /\ ForceHandedBack

\* A child started after the cancel is the last one.
LastAfterCancel ==
  /\ CancelStopsTheLadder
  /\ afterCancel > 0 => cancel
  /\ afterCancel > 0 => \/ pc \in {"child", "verdict", "done"}
                        \/ pc = "branch" /\ verdict = "ok"

IInv == Counting /\ Charging /\ Guarding /\ LastAfterCancel

-----------------------------------------------------------------------------
(* Reports are sequences of length at most one. *)

LEMMA FirstReport == \A what : Append(<<>>, what) = <<what>>
  OBVIOUS

LEMMA ReportsDiffer ==
  /\ \A x : <<x>> # <<>>
  /\ \A x, y : <<x>> = <<y>> => x = y
  OBVIOUS

LEMMA ReportLengths == Len(<<>>) = 0 /\ \A x : Len(<<x>>) = 1
  OBVIOUS

LEMMA ReportsAreSequences ==
  ASSUME NEW S
  PROVE  <<>> \in Seq(S) /\ \A x \in S : <<x>> \in Seq(S)
  OBVIOUS

-----------------------------------------------------------------------------
(* The steps preserve the four parts. *)

LEMMA StepCounting == Counting /\ [Next]_vars => Counting'
<1> SUFFICES ASSUME Counting, [Next]_vars PROVE Counting'
  OBVIOUS
<1> USE BudgetAssumption
<1> USE DEF Counting, TypeOK, WithinBudget, Verdicts, Outcomes
<1> USE DEF envVars, forceVars, healthVars, history, unchangedOnVerdict
<1>1. CASE Enter
  BY <1>1 DEF Enter, RaiseCancelled, Leave, Record
<1>2. CASE BeginRung
  BY <1>2 DEF BeginRung, Spend
<1>3. CASE PrepareForHttp
  BY <1>3 DEF PrepareForHttp, Purgeable
<1>4. CASE LookForPartials
  <2> USE <1>4 DEF LookForPartials, Names
  <2>1. TypeOK'
    <3>1. sawClean' \in BOOLEAN /\ owned' \in BOOLEAN /\ pc' \in {"spawn", "clear"}
      OBVIOUS
    <3> QED
      BY <3>1
  <2>2. WithinBudget'
    OBVIOUS
  <2> QED
    BY <2>1, <2>2
<1>5. CASE ClearUnsafe
  <2> USE <1>5 DEF ClearUnsafe, Names, ForceClean
  <2>1. TypeOK'
    <3>1. partials' \subseteq Partials
      OBVIOUS
    <3>2. force' \in BOOLEAN /\ forced_clean_redownload' \in BOOLEAN /\ sawClean' \in BOOLEAN
      OBVIOUS
    <3>3. pc' = "spawn" /\ owned' = FALSE /\ UNCHANGED <<cancel, disable_xet, http_prepared, stalledOnXet>>
      OBVIOUS
    <3>4. UNCHANGED <<xet_used, http_used, verdict, outcome, afterCancel>>
      OBVIOUS
    <3>5. UNCHANGED envVars /\ UNCHANGED healthVars
      OBVIOUS
    <3>6. {cancel, disable_xet, started_on_xet, xet_disabled_by_user, force, callerForce,
           forced_clean_redownload, http_prepared, owned, pending_needs_http_success,
           stalledOnXet, sawClean}' \subseteq BOOLEAN
      BY <3>2, <3>3, <3>5
    <3> QED
      BY <3>1, <3>3, <3>4, <3>5, <3>6
  <2>2. WithinBudget'
    OBVIOUS
  <2> QED
    BY <2>1, <2>2
<1>6. CASE RecheckPartials
  <2> USE <1>6 DEF RecheckPartials, Names, ForceClean, CallersForce
  <2>1. TypeOK'
    <3>1. force' \in BOOLEAN /\ forced_clean_redownload' \in BOOLEAN
      OBVIOUS
    <3>2. sawClean' \in BOOLEAN
      OBVIOUS
    <3> QED
      BY <3>1, <3>2
  <2>2. WithinBudget'
    OBVIOUS
  <2> QED
    BY <2>1, <2>2
<1>7. CASE SpawnChild
  BY <1>7 DEF SpawnChild
<1>8. CASE SpawnFails
  BY <1>8 DEF SpawnFails, Leave
<1>9. CASE ChildEnds
  <2> USE <1>9 DEF ChildEnds, CanEnd, Verdicts
  <2>1. TypeOK'
    <3>1. partials' \subseteq Partials
      <4>1. PICK v \in Verdicts : partials' \in Leftover(v)
        OBVIOUS
      <4>2. \A p \in partials' : p \in partials \cup {"own", "http"}
        BY <4>1 DEF Leftover
      <4> QED
        BY <4>2 DEF Partials
    <3>2. stalledOnXet' \in BOOLEAN
      <4>1. \E v \in Verdicts : stalledOnXet' = (stalledOnXet \/ (~disable_xet /\ v \in {"stall", "nodata"}))
        OBVIOUS
      <4> QED
        BY ONLY <4>1, Zenon
    <3>3. owned' \in BOOLEAN /\ verdict' \in Verdicts
      OBVIOUS
    <3> QED
      BY <3>1, <3>2, <3>3
  <2>2. WithinBudget'
    OBVIOUS
  <2> QED
    BY <2>1, <2>2
<1>10. CASE CheckCancel
  BY <1>10 DEF CheckCancel, CancelledNow, RaiseCancelled, Leave, Record
<1>11. CASE Succeed
  BY <1>11 DEF Succeed, Leave, Flush, Record
<1>12. CASE XetFaulted
  BY <1>12 DEF XetFaulted, HoldFault
<1>13. CASE XetStalledAgain
  BY <1>13 DEF XetStalledAgain, RetryXet
<1>14. CASE PurgeForXetRetry
  <2> USE <1>14 DEF PurgeForXetRetry, Purgeable
  <2>1. partials' \subseteq Partials
    OBVIOUS
  <2>2. TypeOK'
    BY <2>1
  <2>3. WithinBudget'
    OBVIOUS
  <2> QED
    BY <2>2, <2>3
<1>15. CASE XetStalledOut
  BY <1>15 DEF XetStalledOut, RetryXet, Flush, Record
<1>16. CASE HttpFaulted
  BY <1>16 DEF HttpFaulted, DropUnproven
<1>17. CASE WaitBeforeHttpRetry
  BY <1>17 DEF WaitBeforeHttpRetry, Leave
<1>18. CASE HttpExhausted
  BY <1>18 DEF HttpExhausted, Raise, Leave, Flush, Record, Proven
<1>19. CASE Errored
  BY <1>19 DEF Errored, Raise, Leave, Flush, Record, Proven
<1>20. CASE UserCancels
  BY <1>20 DEF UserCancels
<1>21. CASE PeerWrites
  BY <1>21 DEF PeerWrites, Partials
<1>22. CASE UNCHANGED vars
  BY <1>22 DEF vars
<1> QED
  BY <1>1, <1>2, <1>3, <1>4, <1>5, <1>6, <1>7, <1>8, <1>9, <1>10, <1>11, <1>12, <1>13, <1>14, <1>15, <1>16, <1>17, <1>18, <1>19, <1>20, <1>21, <1>22 DEF Next, Ladder

\* A download that fails reports the stall proven on Xet, and nothing else.
LEMMA RaiseReports ==
  ASSUME Counting, Charging, pc = "branch",
         disable_xet \/ verdict \notin {"stall", "nodata"},
         NEW result, Raise(result)
  PROVE  recorded' = IF stalledOnXet THEN <<"stall">> ELSE <<>>
<1>1. HoldsBack
  BY DEF Charging
<1> USE DEF Raise, Flush, Record
<1>2. CASE pending = "none"
  BY <1>1, <1>2, ReportsDiffer DEF HoldsBack, Proven
<1>3. CASE pending = "stall"
  <2>1. Proven = "stall" /\ recorded = <<>> /\ stalledOnXet
    BY <1>1, <1>3 DEF HoldsBack, Proven
  <2> QED
    BY <2>1, FirstReport
<1>4. CASE pending = "fault"
  <2>1. Proven = "none" /\ recorded = <<>> /\ ~stalledOnXet
    BY <1>1, <1>4 DEF HoldsBack, Proven
  <2> QED
    BY <2>1
<1> QED
  BY <1>2, <1>3, <1>4 DEF Counting, TypeOK

LEMMA StepCharging == Counting /\ Charging /\ [Next]_vars => Charging'
<1> SUFFICES ASSUME Counting /\ Charging, [Next]_vars PROVE Charging'
  OBVIOUS
<1> USE FirstReport, ReportsDiffer
<1> USE DEF Charging, HoldsBack, ProvenStallCharged, Counting, TypeOK, WithinBudget
<1> USE DEF envVars, forceVars, healthVars, history, unchangedOnVerdict
<1>1. CASE Enter
  BY <1>1 DEF Enter, RaiseCancelled, Leave, Record
<1>2. CASE BeginRung
  BY <1>2 DEF BeginRung, Spend
<1>3. CASE PrepareForHttp
  BY <1>3 DEF PrepareForHttp, Purgeable
<1>4. CASE LookForPartials
  BY <1>4 DEF LookForPartials, Names
<1>5. CASE ClearUnsafe
  BY <1>5 DEF ClearUnsafe, Names, ForceClean
<1>6. CASE RecheckPartials
  BY <1>6 DEF RecheckPartials, Names, ForceClean, CallersForce
<1>7. CASE SpawnChild
  BY <1>7 DEF SpawnChild
<1>8. CASE SpawnFails
  BY <1>8 DEF SpawnFails, Leave
<1>9. CASE ChildEnds
  BY <1>9 DEF ChildEnds, CanEnd, Leftover, Verdicts
<1>10. CASE CheckCancel
  BY <1>10 DEF CheckCancel, CancelledNow, RaiseCancelled, Leave, Record
<1>11. CASE Succeed
  <2> USE <1>11 DEF Succeed, Leave, Flush, Record
  <2>1. CASE ~disable_xet
    <3>1. recorded' = <<"ok">>
      BY <2>1
    <3> QED
      BY <2>1, <3>1
  <2>2. CASE disable_xet /\ started_on_xet
    <3>1. pending = "none" => recorded' = recorded
      BY <2>2
    <3>2. pending \in {"stall", "fault"} => recorded' = <<pending>>
      BY <2>2
    <3> QED
      BY <2>2, <3>1, <3>2
  <2>3. CASE ~started_on_xet
    BY <2>3
  <2> QED
    BY <2>1, <2>2, <2>3
<1>12. CASE XetFaulted
  BY <1>12 DEF XetFaulted, HoldFault
<1>13. CASE XetStalledAgain
  BY <1>13 DEF XetStalledAgain, RetryXet
<1>14. CASE PurgeForXetRetry
  BY <1>14 DEF PurgeForXetRetry, Purgeable
<1>15. CASE XetStalledOut
  <2>1. recorded = <<>> /\ stalledOnXet /\ pending \in {"none", "stall"}
    BY <1>15 DEF XetStalledOut
  <2>2. recorded' = <<"stall">> /\ pending' = "none"
    BY <1>15, <2>1 DEF XetStalledOut, Flush, Record
  <2> QED
    BY <1>15, <2>1, <2>2 DEF XetStalledOut
<1>16. CASE HttpFaulted
  BY <1>16 DEF HttpFaulted, DropUnproven
<1>17. CASE WaitBeforeHttpRetry
  BY <1>17 DEF WaitBeforeHttpRetry, Leave
<1>18. CASE HttpExhausted
  <2>1. PICK result \in {"transport_error", "stall_error"} : Raise(result)
    BY <1>18 DEF HttpExhausted
  <2>2. recorded' = IF stalledOnXet THEN <<"stall">> ELSE <<>>
    BY <1>18, <2>1, RaiseReports DEF HttpExhausted
  <2> QED
    BY <1>18, <2>1, <2>2 DEF HttpExhausted, Raise, Leave
<1>19. CASE Errored
  <2>1. PICK result \in {"transport_error", "child_error"} : Raise(result)
    BY <1>19 DEF Errored
  <2>2. recorded' = IF stalledOnXet THEN <<"stall">> ELSE <<>>
    BY <1>19, <2>1, RaiseReports DEF Errored
  <2> QED
    BY <1>19, <2>1, <2>2 DEF Errored, Raise, Leave
<1>20. CASE UserCancels
  BY <1>20 DEF UserCancels
<1>21. CASE PeerWrites
  BY <1>21 DEF PeerWrites, Partials
<1>22. CASE UNCHANGED vars
  BY <1>22 DEF vars
<1> QED
  BY <1>1, <1>2, <1>3, <1>4, <1>5, <1>6, <1>7, <1>8, <1>9, <1>10, <1>11, <1>12, <1>13, <1>14, <1>15, <1>16, <1>17, <1>18, <1>19, <1>20, <1>21, <1>22 DEF Next, Ladder

LEMMA StepGuarding == Counting /\ Guarding /\ [Next]_vars => Guarding'
<1> SUFFICES ASSUME Counting /\ Guarding, [Next]_vars PROVE Guarding'
  OBVIOUS
<1> USE DEF Guarding, ForceHandedBack, Counting, TypeOK
<1> USE DEF envVars, forceVars, healthVars, history, unchangedOnVerdict
<1>1. CASE Enter
  BY <1>1 DEF Enter, RaiseCancelled, Leave, Record
<1>2. CASE BeginRung
  BY <1>2 DEF BeginRung, Spend
<1>3. CASE PrepareForHttp
  BY <1>3 DEF PrepareForHttp, Purgeable
<1>4. CASE LookForPartials
  BY <1>4 DEF LookForPartials, Names
<1>5. CASE ClearUnsafe
  BY <1>5 DEF ClearUnsafe, Names, ForceClean
<1>6. CASE RecheckPartials
  BY <1>6 DEF RecheckPartials, Names, ForceClean, CallersForce
<1>7. CASE SpawnChild
  BY <1>7 DEF SpawnChild
<1>8. CASE SpawnFails
  BY <1>8 DEF SpawnFails, Leave
<1>9. CASE ChildEnds
  BY <1>9 DEF ChildEnds, CanEnd, Leftover, Verdicts
<1>10. CASE CheckCancel
  BY <1>10 DEF CheckCancel, CancelledNow, RaiseCancelled, Leave, Record
<1>11. CASE Succeed
  BY <1>11 DEF Succeed, Leave, Flush, Record
<1>12. CASE XetFaulted
  BY <1>12 DEF XetFaulted, HoldFault
<1>13. CASE XetStalledAgain
  BY <1>13 DEF XetStalledAgain, RetryXet
<1>14. CASE PurgeForXetRetry
  BY <1>14 DEF PurgeForXetRetry, Purgeable
<1>15. CASE XetStalledOut
  BY <1>15 DEF XetStalledOut, RetryXet, Flush, Record
<1>16. CASE HttpFaulted
  BY <1>16 DEF HttpFaulted, DropUnproven
<1>17. CASE WaitBeforeHttpRetry
  BY <1>17 DEF WaitBeforeHttpRetry, Leave
<1>18. CASE HttpExhausted
  BY <1>18 DEF HttpExhausted, Raise, Leave, Flush, Record, Proven
<1>19. CASE Errored
  BY <1>19 DEF Errored, Raise, Leave, Flush, Record, Proven
<1>20. CASE UserCancels
  BY <1>20 DEF UserCancels
<1>21. CASE PeerWrites
  BY <1>21 DEF PeerWrites, Partials
<1>22. CASE UNCHANGED vars
  BY <1>22 DEF vars
<1> QED
  BY <1>1, <1>2, <1>3, <1>4, <1>5, <1>6, <1>7, <1>8, <1>9, <1>10, <1>11, <1>12, <1>13, <1>14, <1>15, <1>16, <1>17, <1>18, <1>19, <1>20, <1>21, <1>22 DEF Next, Ladder

LEMMA StepLastAfterCancel == Counting /\ LastAfterCancel /\ [Next]_vars => LastAfterCancel'
<1> SUFFICES ASSUME Counting /\ LastAfterCancel, [Next]_vars PROVE LastAfterCancel'
  OBVIOUS
<1> USE DEF LastAfterCancel, CancelStopsTheLadder, Counting, TypeOK
<1> USE DEF envVars, forceVars, healthVars, history, unchangedOnVerdict
<1>1. CASE Enter
  BY <1>1 DEF Enter, RaiseCancelled, Leave, Record
<1>2. CASE BeginRung
  BY <1>2 DEF BeginRung, Spend
<1>3. CASE PrepareForHttp
  BY <1>3 DEF PrepareForHttp, Purgeable
<1>4. CASE LookForPartials
  BY <1>4 DEF LookForPartials, Names
<1>5. CASE ClearUnsafe
  BY <1>5 DEF ClearUnsafe, Names, ForceClean
<1>6. CASE RecheckPartials
  BY <1>6 DEF RecheckPartials, Names, ForceClean, CallersForce
<1>7. CASE SpawnChild
  BY <1>7 DEF SpawnChild
<1>8. CASE SpawnFails
  BY <1>8 DEF SpawnFails, Leave
<1>9. CASE ChildEnds
  BY <1>9 DEF ChildEnds, CanEnd, Leftover, Verdicts
<1>10. CASE CheckCancel
  BY <1>10 DEF CheckCancel, CancelledNow, RaiseCancelled, Leave, Record
<1>11. CASE Succeed
  BY <1>11 DEF Succeed, Leave, Flush, Record
<1>12. CASE XetFaulted
  BY <1>12 DEF XetFaulted, HoldFault
<1>13. CASE XetStalledAgain
  BY <1>13 DEF XetStalledAgain, RetryXet
<1>14. CASE PurgeForXetRetry
  BY <1>14 DEF PurgeForXetRetry, Purgeable
<1>15. CASE XetStalledOut
  BY <1>15 DEF XetStalledOut, RetryXet, Flush, Record
<1>16. CASE HttpFaulted
  BY <1>16 DEF HttpFaulted, DropUnproven
<1>17. CASE WaitBeforeHttpRetry
  BY <1>17 DEF WaitBeforeHttpRetry, Leave
<1>18. CASE HttpExhausted
  BY <1>18 DEF HttpExhausted, Raise, Leave, Flush, Record, Proven
<1>19. CASE Errored
  BY <1>19 DEF Errored, Raise, Leave, Flush, Record, Proven
<1>20. CASE UserCancels
  BY <1>20 DEF UserCancels
<1>21. CASE PeerWrites
  BY <1>21 DEF PeerWrites, Partials
<1>22. CASE UNCHANGED vars
  BY <1>22 DEF vars
<1> QED
  BY <1>1, <1>2, <1>3, <1>4, <1>5, <1>6, <1>7, <1>8, <1>9, <1>10, <1>11, <1>12, <1>13, <1>14, <1>15, <1>16, <1>17, <1>18, <1>19, <1>20, <1>21, <1>22 DEF Next, Ladder

-----------------------------------------------------------------------------
(* The theorems. *)

LEMMA InitInv == Init => IInv
<1> SUFFICES ASSUME Init PROVE IInv
  OBVIOUS
<1> USE BudgetAssumption DEF Init
<1>1. TypeOK
  <2>1. started_on_xet \in BOOLEAN /\ disable_xet \in BOOLEAN
    OBVIOUS
  <2>2. recorded \in Seq({"ok", "stall", "fault"})
    BY ReportsAreSequences
  <2>3. partials \subseteq Partials
    BY DEF Partials
  <2>4. {cancel, disable_xet, started_on_xet, xet_disabled_by_user, force, callerForce,
         forced_clean_redownload, http_prepared, owned, pending_needs_http_success,
         stalledOnXet, sawClean} \subseteq BOOLEAN
    BY <2>1
  <2>5. xet_used \in 0..XetBudget /\ http_used \in 0..HttpBudget /\ afterCancel \in 0..2
    OBVIOUS
  <2> QED
    BY <2>2, <2>3, <2>4, <2>5 DEF TypeOK, Outcomes
<1>2. WithinBudget
  BY DEF WithinBudget
<1>3. Charging
  BY ReportsDiffer DEF Charging, HoldsBack, ProvenStallCharged
<1>4. Guarding
  BY DEF Guarding, ForceHandedBack
<1>5. LastAfterCancel
  BY DEF LastAfterCancel, CancelStopsTheLadder
<1> QED
  BY <1>1, <1>2, <1>3, <1>4, <1>5 DEF IInv, Counting

THEOREM Invariance == Spec => []IInv
<1>1. IInv /\ [Next]_vars => IInv'
  BY StepCounting, StepCharging, StepGuarding, StepLastAfterCancel DEF IInv
<1> QED
  BY InitInv, <1>1, PTL DEF Spec

\* Every child is within the budget of its transport; the other types.
THEOREM TypeCorrect == Spec => []TypeOK
<1>1. IInv => TypeOK
  BY DEF IInv, Counting
<1> QED
  BY <1>1, Invariance, PTL

\* One download tells the health record at most one thing about Xet.
THEOREM OneReport == Spec => []ChargedAtMostOnce
<1>1. IInv => ChargedAtMostOnce
  <2>1. Len(<<>>) = 0 /\ Len(<<"ok">>) = 1 /\ Len(<<"stall">>) = 1 /\ Len(<<"fault">>) = 1
    BY ReportLengths
  <2> SUFFICES ASSUME IInv PROVE Len(recorded) <= 1
    BY DEF ChargedAtMostOnce
  <2>2. recorded \in {<<>>, <<"ok">>, <<"stall">>, <<"fault">>}
    BY DEF IInv, Charging
  <2>3. Len(recorded) = 0 \/ Len(recorded) = 1
    BY <2>1, <2>2
  <2>4. \A n : n = 0 \/ n = 1 => n <= 1
    OBVIOUS
  <2> QED
    BY <2>3, <2>4
<1> QED
  BY <1>1, Invariance, PTL

\* A fault on Xet is reported only once HTTP finished at the first try.
THEOREM FaultsNeedRescue == Spec => []FaultNeedsRescue
<1>1. Charging => FaultNeedsRescue
  BY ReportsDiffer DEF Charging, FaultNeedsRescue
<1> QED
  BY <1>1, Invariance, PTL DEF IInv

\* A proven stall is reported whichever way the ladder is left, a cancel
\* and a child that cannot be started excepted.
THEOREM StallsCharged == Spec => []ProvenStallCharged
<1>1. IInv => ProvenStallCharged
  BY DEF IInv, Charging
<1> QED
  BY <1>1, Invariance, PTL

\* No HTTP child resumes the sparse partial of a Xet child.
THEOREM SparsePartialsAreSafe == Spec => []XetPartialNeverResumed
<1>1. IInv => XetPartialNeverResumed
  BY DEF IInv, Guarding, XetPartialNeverResumed
<1> QED
  BY <1>1, Invariance, PTL

\* An unforced HTTP child follows a conclusive look at a clean cache.
THEOREM UnreadableIsNotClean == Spec => []UnforcedNeedsCleanLook
<1>1. IInv => UnforcedNeedsCleanLook
  BY DEF IInv, Guarding, UnforcedNeedsCleanLook
<1> QED
  BY <1>1, Invariance, PTL

\* What an HTTP child resumes is safe to resume.
THEOREM ResumesSafely == Spec => []SafeToResume
  BY SparsePartialsAreSafe, UnreadableIsNotClean, PTL DEF SafeToResume

\* The health record is told at most one thing, and the right one.
THEOREM ReportsRightly == Spec => []ChargedRightly
  BY OneReport, FaultsNeedRescue, StallsCharged, PTL DEF ChargedRightly

\* The caller's force_download survives the ladder's own.
THEOREM CallersForceSurvives == Spec => []ForceHandedBack
<1>1. IInv => ForceHandedBack
  BY DEF IInv, Guarding
<1> QED
  BY <1>1, Invariance, PTL

\* A cancelled download starts at most one more child.
THEOREM CancelIsHonoured == Spec => []CancelStopsTheLadder
<1>1. IInv => CancelStopsTheLadder
  BY DEF IInv, LastAfterCancel
<1> QED
  BY <1>1, Invariance, PTL

-----------------------------------------------------------------------------
(* The refinement of DownloadPromise. *)

LEMMA StepKeepsPromise ==
  IInv /\ [Next]_vars => [Promise!Next]_(Promise!vars)
<1> SUFFICES ASSUME IInv, [Next]_vars PROVE [Promise!Next]_(Promise!vars)
  OBVIOUS
<1> USE DEF IInv, Counting, TypeOK, WithinBudget, Charging, HoldsBack, Promise!vars, Promise!Running
<1> USE DEF envVars, forceVars, healthVars, history, unchangedOnVerdict
<1> USE FirstReport, ReportsDiffer
<1>1. CASE Enter
  BY <1>1 DEF Enter, RaiseCancelled, Leave, Record, Promise!Next, Promise!GiveUp
<1>2. CASE BeginRung
  BY <1>2 DEF BeginRung, Spend
<1>3. CASE PrepareForHttp
  BY <1>3 DEF PrepareForHttp, Purgeable
<1>4. CASE LookForPartials
  BY <1>4 DEF LookForPartials, Names
<1>5. CASE ClearUnsafe
  BY <1>5 DEF ClearUnsafe, Names, ForceClean
<1>6. CASE RecheckPartials
  BY <1>6 DEF RecheckPartials, Names, ForceClean, CallersForce
<1>7. CASE SpawnChild
  BY <1>7 DEF SpawnChild
<1>8. CASE SpawnFails
  BY <1>8 DEF SpawnFails, Leave, Promise!Next, Promise!GiveUp
<1>9. CASE ChildEnds
  BY <1>9 DEF ChildEnds, CanEnd, Leftover, Verdicts, Promise!Next, Promise!Stall
<1>10. CASE CheckCancel
  BY <1>10 DEF CheckCancel, CancelledNow, RaiseCancelled, Leave, Record, Promise!Next, Promise!GiveUp
<1>11. CASE Succeed
  <2> USE <1>11 DEF Succeed, Leave, Flush, Record
  <2>1. stalledOnXet => recorded = <<"stall">> \/ pending = "stall"
    OBVIOUS
  <2>2. CASE ~disable_xet
    <3>1. recorded = <<>> /\ recorded' = <<"ok">>
      BY <2>2
    <3> QED
      BY <3>1 DEF Promise!Next, Promise!Return
  <2>3. CASE disable_xet /\ started_on_xet
    <3>1. CASE pending = "none"
      <4>1. recorded' = recorded
        BY <2>3, <3>1
      <4>2. recorded = <<"stall">> => stalledOnXet
        <5>1. HoldsBack
          OBVIOUS
        <5> QED
          BY ONLY <5>1, ReportsDiffer DEF HoldsBack
      <4>3. stalledOnXet \in BOOLEAN /\ (stalledOnXet => recorded = <<"stall">>)
        BY <2>1, <3>1
      <4>4. outcome = "none" /\ outcome' = "ok" /\ UNCHANGED stalledOnXet
        OBVIOUS
      <4> QED
        BY <4>1, <4>2, <4>3, <4>4 DEF Promise!Next, Promise!Return, Promise!Running
    <3>2. CASE pending # "none"
      <4>1. recorded = <<>> /\ recorded' = <<pending>>
        BY <2>3, <3>2
      <4> QED
        BY <2>3, <3>2, <4>1 DEF Promise!Next, Promise!Return
    <3> QED
      BY <3>1, <3>2
  <2>4. CASE ~started_on_xet
    BY <2>4 DEF Promise!Next, Promise!Return
  <2> QED
    BY <2>2, <2>3, <2>4
<1>12. CASE XetFaulted
  BY <1>12 DEF XetFaulted, HoldFault
<1>13. CASE XetStalledAgain
  BY <1>13 DEF XetStalledAgain, RetryXet
<1>14. CASE PurgeForXetRetry
  BY <1>14 DEF PurgeForXetRetry, Purgeable
<1>15. CASE XetStalledOut
  BY <1>15 DEF XetStalledOut, RetryXet, Flush, Record, Promise!Next, Promise!ReportStall
<1>16. CASE HttpFaulted
  BY <1>16 DEF HttpFaulted, DropUnproven
<1>17. CASE WaitBeforeHttpRetry
  BY <1>17 DEF WaitBeforeHttpRetry, Leave, Promise!Next, Promise!GiveUp
<1>18. CASE HttpExhausted
  <2>1. PICK result \in {"transport_error", "stall_error"} : Raise(result)
    BY <1>18 DEF HttpExhausted
  <2>2. recorded' = IF stalledOnXet THEN <<"stall">> ELSE <<>>
    BY <1>18, <2>1, RaiseReports DEF HttpExhausted
  <2> QED
    BY <1>18, <2>1, <2>2 DEF HttpExhausted, Raise, Leave, Promise!Next, Promise!Fail
<1>19. CASE Errored
  <2>1. PICK result \in {"transport_error", "child_error"} : Raise(result)
    BY <1>19 DEF Errored
  <2>2. recorded' = IF stalledOnXet THEN <<"stall">> ELSE <<>>
    BY <1>19, <2>1, RaiseReports DEF Errored
  <2> QED
    BY <1>19, <2>1, <2>2 DEF Errored, Raise, Leave, Promise!Next, Promise!Fail
<1>20. CASE UserCancels
  BY <1>20 DEF UserCancels
<1>21. CASE PeerWrites
  BY <1>21 DEF PeerWrites, Partials
<1>22. CASE UNCHANGED vars
  BY <1>22 DEF vars
<1> QED
  BY <1>1, <1>2, <1>3, <1>4, <1>5, <1>6, <1>7, <1>8, <1>9, <1>10, <1>11, <1>12, <1>13, <1>14, <1>15, <1>16, <1>17, <1>18, <1>19, <1>20, <1>21, <1>22 DEF Next, Ladder

\* The ladder implements what its callers and the health record see of it.
THEOREM LadderKeepsPromise == Spec => KeepsPromise
<1>1. Init => Promise!Init
  BY DEF Init, Promise!Init
<1> QED
  BY <1>1, StepKeepsPromise, Invariance, PTL DEF Spec, KeepsPromise, Promise!Spec
=============================================================================
