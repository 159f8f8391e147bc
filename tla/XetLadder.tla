------------------------------ MODULE XetLadder ------------------------------
(***************************************************************************)
(* _download_with_xet_fallback of unsloth_zoo_downloads/hf_xet_fallback.py *)
(* : one supervised download, climbing down from Xet children to HTTP      *)
(* children, among sibling processes that write the same cache directory   *)
(* and a user who may cancel at any moment.                                *)
(*                                                                         *)
(* What a child process does is given by its verdict, the tagged result of *)
(* _run_download_attempt, and by the partial files it leaves behind.  The  *)
(* cache is the set of what keeps the repository "incomplete":             *)
(*   "own"   the sparse partial of this download's Xet child,              *)
(*   "http"  the sequential partial of this download's HTTP child,         *)
(*   "peer"  a partial of another process, running or crashed,             *)
(*   "link"  a dangling snapshot link without a partial beside it.         *)
(* A look at the cache may fail at any time (an unreadable directory).     *)
(***************************************************************************)
EXTENDS Naturals, Sequences

CONSTANTS
  XetBudget,    \* xet_attempts()
  HttpBudget    \* http_attempts()

ASSUME BudgetAssumption == XetBudget \in Nat \ {0} /\ HttpBudget \in Nat \ {0}

VARIABLES
  pc,                     \* control point of the ladder
  kind,                   \* "file" or "snapshot"
  cancel,                 \* cancel_event.is_set()
  partials,               \* what makes the repository incomplete on disk
  disable_xet, started_on_xet, xet_disabled_by_user,
  xet_used, http_used,    \* children spent per transport
  force, callerForce,     \* params["force_download"], and the caller's own
  forced_clean_redownload, http_prepared,
  owned,                  \* "_owned_incomplete_blobs" names our Xet partial
  pending,                \* pending_xet_failure: none, a stall or a fault
  pending_needs_http_success,
  verdict,                \* what the last child ended with
  recorded,               \* what record_xet_outcome was told, in order
  outcome,                \* how the download ended
  \* history, read by the properties only
  stalledOnXet,           \* the watchdog tripped on a Xet child
  sawClean,               \* the last conclusive look found no partial
  afterCancel             \* children started since the cancel (up to 2)

envVars    == <<kind, callerForce, xet_disabled_by_user, started_on_xet>>
forceVars  == <<force, forced_clean_redownload, http_prepared>>
healthVars == <<pending, pending_needs_http_success, recorded>>
history    == <<stalledOnXet, sawClean, afterCancel>>
vars == <<pc, cancel, partials, disable_xet, xet_used, http_used, owned, verdict,
          outcome, envVars, forceVars, healthVars, history>>

Partials == {"own", "http", "peer", "link"}

\* The names _incomplete_partial_names lists: links are not partial files.
Names(ps) == ps \ {"link"}

Verdicts == {"ok", "short", "stall", "nodata", "cancelled", "crashed",
             "retryable", "error", "unknown"}
Outcomes == {"none", "ok", "cancelled", "stall_error", "transport_error",
             "child_error", "spawn_error"}

TypeOK ==
  /\ pc \in {"entry", "rung", "purge", "look", "clear", "recheck", "spawn", "child",
             "verdict", "branch", "requeue", "backoff", "done"}
  /\ kind \in {"file", "snapshot"}
  /\ partials \subseteq Partials
  /\ {cancel, disable_xet, started_on_xet, xet_disabled_by_user, force, callerForce,
      forced_clean_redownload, http_prepared, owned, pending_needs_http_success,
      stalledOnXet, sawClean} \subseteq BOOLEAN
  /\ xet_used \in 0..XetBudget
  /\ http_used \in 0..HttpBudget
  /\ pending \in {"none", "stall", "fault"}
  /\ verdict \in Verdicts \cup {"none"}
  /\ recorded \in Seq({"ok", "stall", "fault"})
  /\ outcome \in Outcomes
  /\ afterCancel \in 0..2

Init ==
  /\ pc = "entry" /\ cancel = FALSE /\ outcome = "none"
  /\ kind \in {"file", "snapshot"} /\ callerForce \in BOOLEAN
  /\ partials \in SUBSET {"peer", "link"}
  /\ xet_disabled_by_user \in BOOLEAN
  \* a health demotion also starts the download on HTTP
  /\ started_on_xet \in IF xet_disabled_by_user THEN {FALSE} ELSE BOOLEAN
  /\ disable_xet = ~started_on_xet
  /\ xet_used = 0 /\ http_used = 0
  /\ force = callerForce /\ forced_clean_redownload = FALSE /\ http_prepared = FALSE
  /\ owned = FALSE /\ verdict = "none"
  /\ pending = "none" /\ pending_needs_http_success = FALSE /\ recorded = <<>>
  /\ stalledOnXet = FALSE /\ sawClean = FALSE /\ afterCancel = 0

-----------------------------------------------------------------------------
(* Helpers of the ladder. *)

\* _record_xet_outcome, of an attempt that went well or of a failure.
Record(what) == recorded' = IF what = "none" THEN recorded ELSE Append(recorded, what)

FlushKeepingIt(what) == Record(what) /\ UNCHANGED pending         \* mutant

\* _flush_pending_failure: what was held back is reported, exactly once.
Flush(what) == Record(what) /\ pending' = "none"

Leave(result) == outcome' = result /\ pc' = "done"

ProvenOrNot == pending                                \* mutant

\* A held fault proves nothing about Xet unless HTTP then succeeds.
Proven == IF pending_needs_http_success THEN "none" ELSE pending

Raise(result) ==
  /\ Leave(result)
  /\ Flush(Proven)
  /\ UNCHANGED pending_needs_http_success

\* The user's decision says nothing about this machine's Xet health.
RaiseCancelled ==
  /\ Leave("cancelled")
  /\ Record("none") /\ pending' = "none"
  /\ UNCHANGED pending_needs_http_success

\* _hold_unproven_xet_failure: a held stall outranks a later fault.
HoldFault ==
  /\ pending' = IF pending = "none" THEN "fault" ELSE pending
  /\ pending_needs_http_success' = (pending_needs_http_success \/ pending = "none")
  /\ UNCHANGED recorded

\* A fault seen on HTTP too is a shared incident, not evidence against Xet.
DropUnproven ==
  /\ pending' = IF pending_needs_http_success THEN "none" ELSE pending
  /\ pending_needs_http_success' = FALSE
  /\ UNCHANGED recorded

-----------------------------------------------------------------------------
(* The environment. *)

UserCancels ==
  /\ ~cancel /\ pc # "done"
  /\ cancel' = TRUE
  /\ UNCHANGED <<pc, partials, disable_xet, xet_used, http_used, owned, verdict, outcome,
                 envVars, forceVars, healthVars, history>>

\* A sibling process starts, abandons or finishes a partial of its own.
PeerWrites ==
  /\ pc # "done"
  /\ \E ps \in SUBSET Partials :
       /\ ps # partials
       /\ ps \cap {"own", "http"} = partials \cap {"own", "http"}
       /\ partials' = ps
  /\ UNCHANGED <<pc, cancel, disable_xet, xet_used, http_used, owned, verdict, outcome,
                 envVars, forceVars, healthVars, history>>

-----------------------------------------------------------------------------
(* One rung of the ladder, up to the child it starts. *)

Enter ==
  /\ pc = "entry"
  /\ IF cancel THEN RaiseCancelled
               ELSE pc' = "rung" /\ UNCHANGED <<outcome, healthVars>>
  /\ UNCHANGED <<cancel, partials, disable_xet, xet_used, http_used, owned, verdict,
                 envVars, forceVars, history>>

SpendXetOnly ==                                       \* mutant
  /\ xet_used' = IF disable_xet THEN xet_used ELSE xet_used + 1
  /\ UNCHANGED http_used

\* One more child of the transport in use.
Spend ==
  IF disable_xet THEN http_used' = http_used + 1 /\ UNCHANGED xet_used
                 ELSE xet_used' = xet_used + 1 /\ UNCHANGED http_used

BeginRung ==
  /\ pc = "rung"
  /\ Spend
  /\ pc' = CASE ~disable_xet -> "spawn"
             [] disable_xet /\ ~http_prepared -> "purge"
             [] disable_xet /\ http_prepared -> "recheck"
  /\ UNCHANGED <<cancel, partials, disable_xet, owned, verdict, outcome, envVars,
                 forceVars, healthVars, history>>

\* What _clear_partials may remove: with an ownership set our own partial
\* and an abandoned one inferred with it, without one anything old enough.
Purgeable == SUBSET (IF owned THEN {"own", "peer"} ELSE Partials)

\* prepare_for_http_fn, by default _default_prepare_for_http: a purge scoped
\* to the partials inferred to be ours, else guided by file age; any unlink
\* may fail.
PrepareForHttp ==
  /\ pc = "purge"
  /\ http_prepared' = TRUE
  /\ \E gone \in Purgeable : partials' = partials \ gone
  /\ pc' = "look"
  /\ UNCHANGED <<cancel, disable_xet, xet_used, http_used, owned, verdict, outcome,
                 envVars, force, forced_clean_redownload, healthVars, history>>

ForceForgotten == forced_clean_redownload' = TRUE /\ UNCHANGED force   \* mutant

ForceClean ==
  /\ force' = TRUE
  /\ forced_clean_redownload' = TRUE

\* _no_incomplete_blobs_confirmed: only a conclusive look may say clean, and
\* its second half, which reads the links, swallows read errors.
LookForPartials ==
  /\ pc = "look"
  /\ \/ Names(partials) = {} /\ pc' = "spawn" /\ sawClean' = TRUE /\ owned' = FALSE
     \/ partials # {} /\ pc' = "clear" /\ sawClean' = FALSE /\ UNCHANGED owned
     \/ pc' = "clear" /\ UNCHANGED <<sawClean, owned>>          \* unreadable
  /\ UNCHANGED <<cancel, partials, disable_xet, xet_used, http_used, verdict, outcome,
                 envVars, forceVars, healthVars, stalledOnXet, afterCancel>>

\* _clear_unsafe_partials_for_http and the confirmation behind it; what
\* cannot be cleared, or cannot be seen to be, forces a clean download.
ClearUnsafe ==
  /\ pc = "clear"
  /\ \E gone \in SUBSET Partials :
       LET left == partials \ gone IN
       /\ partials' = left
       /\ \/ Names(left) = {} /\ sawClean' = TRUE /\ UNCHANGED <<force, forced_clean_redownload>>
          \/ left # {} /\ sawClean' = FALSE /\ ForceClean
          \/ ForceClean /\ UNCHANGED sawClean        \* unreadable
  /\ owned' = FALSE
  /\ pc' = "spawn"
  /\ UNCHANGED <<cancel, disable_xet, xet_used, http_used, verdict, outcome, envVars,
                 http_prepared, healthVars, stalledOnXet, afterCancel>>

ForceDropped == FALSE                                 \* mutant

\* The force that remains once the ladder does not need its own any more.
CallersForce == IF forced_clean_redownload THEN callerForce ELSE force

\* Before every further HTTP child: the force is released only when no
\* partial file remains, and taken again when one has appeared.
RecheckPartials ==
  /\ pc = "recheck"
  /\ \/ /\ Names(partials) = {}
        /\ sawClean' = TRUE
        /\ forced_clean_redownload' = FALSE
        /\ force' = CallersForce
     \/ /\ Names(partials) # {}
        /\ sawClean' = FALSE
        /\ ForceClean
     \/ UNCHANGED <<sawClean, force, forced_clean_redownload>>   \* unreadable
  /\ pc' = "spawn"
  /\ UNCHANGED <<cancel, partials, disable_xet, xet_used, http_used, owned, verdict, outcome,
                 envVars, http_prepared, healthVars, stalledOnXet, afterCancel>>

-----------------------------------------------------------------------------
(* The child: _run_download_attempt as the ladder sees it. *)

SpawnChild ==
  /\ pc = "spawn"
  /\ pc' = "child"
  /\ afterCancel' = IF cancel /\ afterCancel < 2 THEN afterCancel + 1 ELSE afterCancel
  /\ UNCHANGED <<cancel, partials, disable_xet, xet_used, http_used, owned, verdict, outcome,
                 envVars, forceVars, healthVars, stalledOnXet, sawClean>>

\* proc.start() raises (no file descriptors or threads left): the exception
\* leaves the ladder as it is.
SpawnFails ==
  /\ pc = "spawn"
  /\ Leave("spawn_error")
  /\ UNCHANGED <<cancel, partials, disable_xet, xet_used, http_used, owned, verdict,
                 envVars, forceVars, healthVars, history>>

\* Which verdicts this child can end with.  On Xet an error the package does
\* not recognise counts as retryable.
CanEnd(v) ==
  /\ v = "short" => kind = "snapshot"
  /\ v = "cancelled" => cancel
  /\ v = "unknown" => disable_xet

\* A finished child leaves no partial of its own; a forced one discards what
\* it replaces; any other may leave one behind.
Leftover(v) ==
  LET mine == IF disable_xet THEN "http" ELSE "own"
      kept == IF force /\ disable_xet THEN SUBSET (partials \ {"link"}) ELSE {{}}
  IN  {(partials \ gone) \cup more :
         gone \in kept \cup {{"own", "http"}},
         more \in IF v = "ok" THEN {{}} ELSE {{}, {mine}}}

ChildEnds ==
  /\ pc = "child"
  /\ \E v \in Verdicts :
       /\ CanEnd(v)
       /\ verdict' = v
       /\ partials' \in Leftover(v)
       /\ stalledOnXet' = (stalledOnXet \/ (~disable_xet /\ v \in {"stall", "nodata"}))
  \* the names captured before the kill; None when nothing could be told
  /\ owned' \in IF verdict' \in {"stall", "nodata"} /\ "own" \in partials' /\ ~disable_xet
                  THEN BOOLEAN ELSE {owned}
  /\ pc' = "verdict"
  /\ UNCHANGED <<cancel, disable_xet, xet_used, http_used, outcome, envVars, forceVars,
                 healthVars, sawClean, afterCancel>>

-----------------------------------------------------------------------------
(* What the ladder makes of the verdict. *)

unchangedOnVerdict == <<cancel, partials, xet_used, http_used, envVars, forceVars, history, verdict>>

SeenByTheChild == verdict = "cancelled"               \* mutant
CancelledNow == verdict # "ok" /\ cancel

\* Cancellation wins over every failure, never over a finished download.  It
\* leaves nothing for the later branch on a "cancelled" attempt, which only
\* saw the same event.
CheckCancel ==
  /\ pc = "verdict"
  /\ IF CancelledNow
       THEN RaiseCancelled
       ELSE pc' = "branch" /\ UNCHANGED <<outcome, healthVars>>
  /\ UNCHANGED <<unchangedOnVerdict, disable_xet, owned>>

\* Success.  On the transport it started on, an earlier recovered stall is
\* dropped; rescued by HTTP, the held failure becomes evidence.
Succeed ==
  /\ pc = "branch" /\ verdict = "ok"
  /\ Leave("ok")
  /\ Flush(CASE ~disable_xet -> "ok"
             [] disable_xet /\ started_on_xet -> pending
             [] ~started_on_xet -> "none")
  /\ UNCHANGED <<unchangedOnVerdict, pending_needs_http_success, disable_xet, owned>>

\* A failure of a Xet child other than a stall: over to HTTP, with the
\* failure held as unproven.
XetFaulted ==
  /\ pc = "branch" /\ verdict \in {"short", "retryable", "crashed"} /\ ~disable_xet
  /\ HoldFault
  /\ disable_xet' = TRUE
  /\ pc' = "rung"
  /\ UNCHANGED <<unchangedOnVerdict, outcome, owned>>

\* Another Xet child is spent only on a stall after the first byte, within
\* the budget and not once cancelled.
RetryXet == verdict = "stall" /\ xet_used < XetBudget /\ ~cancel

\* The dead child's partial is purged first.
XetStalledAgain ==
  /\ pc = "branch" /\ ~disable_xet /\ RetryXet
  /\ pending' = "stall" /\ pending_needs_http_success' = FALSE
  /\ UNCHANGED recorded
  /\ pc' = "requeue"
  /\ UNCHANGED <<unchangedOnVerdict, disable_xet, outcome, owned>>

PurgeForXetRetry ==
  /\ pc = "requeue"
  /\ \E gone \in Purgeable : partials' = partials \ gone
  /\ owned' = FALSE
  /\ pc' = "rung"
  /\ UNCHANGED <<cancel, disable_xet, xet_used, http_used, verdict, outcome, envVars,
                 forceVars, healthVars, history>>

\* The Xet phase is over: its stall is charged and HTTP takes over.
XetStalledOut ==
  /\ pc = "branch" /\ verdict \in {"stall", "nodata"} /\ ~disable_xet
  /\ ~RetryXet
  /\ Flush(IF pending = "none" THEN "stall" ELSE pending)
  /\ disable_xet' = TRUE
  /\ pc' = "rung"
  /\ UNCHANGED <<unchangedOnVerdict, pending_needs_http_success, outcome, owned>>

\* A transient fault or a crash on HTTP, with children left.
HttpFaulted ==
  /\ pc = "branch" /\ verdict \in {"retryable", "crashed"} /\ disable_xet
  /\ http_used < HttpBudget
  /\ DropUnproven
  /\ pc' = "backoff"
  /\ UNCHANGED <<unchangedOnVerdict, disable_xet, outcome, owned>>

\* _wait_before_http_retry: a cancel during the wait raises at once.
WaitBeforeHttpRetry ==
  /\ pc = "backoff"
  /\ \/ cancel /\ Leave("cancelled")
     \/ ~cancel /\ pc' = "rung" /\ UNCHANGED outcome
  /\ UNCHANGED <<unchangedOnVerdict, healthVars, disable_xet, owned>>

\* The last HTTP child failed as well.
HttpExhausted ==
  /\ pc = "branch" /\ disable_xet
  /\ \/ verdict \in {"retryable", "crashed"} /\ http_used >= HttpBudget /\ Raise("transport_error")
     \/ verdict \in {"short", "stall", "nodata"} /\ Raise("stall_error")
  /\ UNCHANGED <<unchangedOnVerdict, disable_xet, owned>>

\* A deterministic error fails on both transports.  One the package does not
\* recognise stays inside the guard unless the user chose HTTP.
Errored ==
  /\ pc = "branch" /\ verdict \in {"error", "unknown"}
  /\ Raise(IF verdict = "unknown" /\ ~xet_disabled_by_user
             THEN "transport_error" ELSE "child_error")
  /\ UNCHANGED <<unchangedOnVerdict, disable_xet, owned>>

-----------------------------------------------------------------------------
Ladder ==
  \/ Enter \/ BeginRung \/ PrepareForHttp \/ LookForPartials \/ ClearUnsafe
  \/ RecheckPartials \/ SpawnChild \/ SpawnFails \/ ChildEnds \/ CheckCancel \/ Succeed
  \/ XetFaulted \/ XetStalledAgain \/ PurgeForXetRetry \/ XetStalledOut
  \/ HttpFaulted \/ WaitBeforeHttpRetry \/ HttpExhausted \/ Errored

Next == Ladder \/ UserCancels \/ PeerWrites

Spec == Init /\ [][Next]_vars

\* The ladder runs, and each child ends: by itself, or killed by the
\* watchdog or the cancel poll of _run_download_attempt.
FairSpec == Spec /\ WF_vars(Ladder)

-----------------------------------------------------------------------------
(* What the callers, and the health record, rely on. *)

\* The health of Xet is told of one download at most once, whichever way the
\* ladder is left: two reports would demote a machine for one bad download.
ChargedAtMostOnce == Len(recorded) <= 1

\* A fault or a crash on Xet counts against this machine only when the very
\* next transport finished the download at the first try.
FaultNeedsRescue ==
  "fault" \in {recorded[i] : i \in DOMAIN recorded}
    => outcome = "ok" /\ disable_xet /\ started_on_xet /\ http_used = 1 /\ ~stalledOnXet

\* A stall the watchdog proved on Xet is charged at every exit where the
\* download did not complete on Xet, later faults notwithstanding; only a
\* cancel, and a child that could not even be started, leave it out.
ProvenStallCharged ==
  outcome \notin {"none", "cancelled", "spawn_error"}
    /\ stalledOnXet /\ ~(outcome = "ok" /\ ~disable_xet)
    => recorded = <<"stall">>

\* What a download tells the health record of Xet: at most one thing, a fault
\* only when HTTP rescued it, and a stall whenever the watchdog proved one.
ChargedRightly == ChargedAtMostOnce /\ FaultNeedsRescue /\ ProvenStallCharged

\* An HTTP child never resumes the sparse partial a Xet child left: it would
\* complete it with holes and finalise it under the hash of the whole file.
XetPartialNeverResumed ==
  pc = "child" /\ disable_xet /\ "own" \in partials => force

\* An HTTP child resumes only what a look that could read the cache found
\* clean; an unreadable cache is never taken for a clean one.
UnforcedNeedsCleanLook == pc = "child" /\ disable_xet /\ ~force => sawClean

\* What an HTTP child resumes is safe to resume: no Xet partial, and nothing
\* in a cache that could not be read.
SafeToResume == XetPartialNeverResumed /\ UnforcedNeedsCleanLook

\* Once the ladder's own forced download is over, the caller's choice of
\* force_download is back in place, whatever happened in between.
ForceHandedBack ==
  /\ ~forced_clean_redownload => force = callerForce
  /\ forced_clean_redownload => force

\* A cancel is honoured before the second further child, in every window.
CancelStopsTheLadder == afterCancel <= 1

\* The ladder keeps the promise its callers and the health record see.
Promise == INSTANCE DownloadPromise WITH stalled <- stalledOnXet
KeepsPromise == Promise!Spec

\* Every download ends: the budgets are spent on every path round the loop.
Terminates == <>(pc = "done")

-----------------------------------------------------------------------------
(* What two texts of the repository say of this code. *)

\* The comment at the flag pending_needs_http_success: "A stall is charged
\* on any exit".  A cancelled download is exempt by its own comment.
StallChargedOnAnyExit ==
  outcome \notin {"none", "cancelled"} /\ stalledOnXet /\ ~(outcome = "ok" /\ ~disable_xet)
    => recorded = <<"stall">>

\* The purge runs once so that an HTTP retry resumes the partial of the HTTP
\* child before it instead of restarting from zero.
HttpRetryResumes ==
  pc = "child" /\ disable_xet /\ http_used > 1 /\ partials = {"http"} /\ ~callerForce => ~force
=============================================================================
