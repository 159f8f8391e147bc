--------------------------- MODULE DownloadPromise ---------------------------
(***************************************************************************)
(* What the supervised download of unsloth_zoo_downloads promises, to the  *)
(* caller by how it ends and to the health record of the Xet transport by  *)
(* what it reports, however many children of whatever transport it spends. *)
(***************************************************************************)
EXTENDS Sequences

VARIABLES
  outcome,    \* "none" while the download runs, then how it ended
  recorded,   \* the reports made to the health record
  stalled     \* the watchdog has proven a stall on Xet

vars == <<outcome, recorded, stalled>>

Init == outcome = "none" /\ recorded = <<>> /\ stalled = FALSE

Running == outcome = "none"

\* A Xet child is caught hanging, possibly not for the first time.
Stall ==
  /\ Running
  /\ stalled' = TRUE
  /\ UNCHANGED <<outcome, recorded>>

\* The Xet phase is over without a result and the stall is reported.
ReportStall ==
  /\ Running /\ stalled /\ recorded = <<>>
  /\ recorded' = <<"stall">>
  /\ UNCHANGED <<outcome, stalled>>

\* A finished download: Xet worked, or HTTP saved what Xet could not do, or
\* Xet was not used.  An unproven fault is reported only here.
Return ==
  /\ Running
  /\ outcome' = "ok"
  /\ \/ recorded = <<>> /\ recorded' = <<"ok">>
     \/ recorded = <<>> /\ stalled /\ recorded' = <<"stall">>
     \/ recorded = <<>> /\ ~stalled /\ recorded' = <<"fault">>
     \/ stalled = (recorded = <<"stall">>) /\ UNCHANGED recorded
  /\ UNCHANGED stalled

\* A failed download reports a proven stall, once, and nothing else.
Fail ==
  /\ Running
  /\ outcome' \in {"stall_error", "transport_error", "child_error"}
  /\ recorded' = IF stalled THEN <<"stall">> ELSE <<>>
  /\ UNCHANGED stalled

\* The user's cancel, and a machine that cannot start a process, are no
\* evidence about Xet: nothing more is reported.
GiveUp ==
  /\ Running
  /\ outcome' \in {"cancelled", "spawn_error"}
  /\ UNCHANGED <<recorded, stalled>>

Next == Stall \/ ReportStall \/ Return \/ Fail \/ GiveUp

Spec == Init /\ [][Next]_vars
=============================================================================
