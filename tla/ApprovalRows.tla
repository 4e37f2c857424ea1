---------------------------- MODULE ApprovalRows ----------------------------
(***************************************************************************)
(* The pure part of the approval domain: how one ApprovalRequest row, its   *)
(* one-shot execution claim and its reconciliation receipts are read.       *)
(*                                                                          *)
(* A row is seen through three fields: `status`; `attempt`, which is        *)
(* executionAttemptedAt as compared with the clock ("none" when null,       *)
(* "leased" while younger than APPROVAL_EXECUTION_LEASE_MS, "expired"       *)
(* after); and `outcomes`, the set of outcomes of its receipts.             *)
(***************************************************************************)
EXTENDS Naturals, FiniteSets

Statuses == {"absent", "proposed", "pending", "approved", "rejected",
             "expired", "executed", "failed"}

Attempts == {"none", "leased", "expired"}

Conclusive == {"external_effect_observed", "no_external_effect_observed"}

Outcomes == Conclusive \union {"still_unknown"}

\* Provider loops that stop at the first error, and the ones that record an
\* unknown result for the item and go on.
StoppingActions == {"outbound_email_batch", "calendar_hold_batch", "drive_ensure_folder"}
RecordingActions == {"outbound_email_send_batch", "social_post_batch"}
LocalActions == {"booking_reply_confirm"}
ExecutableActions == StoppingActions \union RecordingActions \union LocalActions

LogisticsActions == {"calendar_hold_batch", "drive_ensure_folder"}

\* Executed work whose mock mode the recommendation projection recognises: a calendar
\* hold or a folder that carries an event-logistics source key, and social batches.
SimulationAware(action, keyed) ==
  \/ action \in LogisticsActions /\ keyed
  \/ action = "social_post_batch"

-----------------------------------------------------------------------------
\* needsReconciliation, as approvalLifecycleStage and its callers compute it.
NeedsReconciliation(s, t) ==
  \/ s = "failed"
  \/ s = "approved" /\ t # "none"

\* Mistakes: the lease is not looked at, or is taken to last for ever.
LeaseActive_Never(s, t) == FALSE
LeaseActive_Always(s, t) == s = "approved" /\ t # "none"

\* approvalExecutionLeaseIsActive
LeaseActive(s, t) == s = "approved" /\ t = "leased"

IsTerminal(outcomes) == outcomes \intersect Conclusive # {}

\* approvalLifecycleStage: a terminal receipt closes attention first, then the
\* claim is looked at, then the status.
Stage(s, t, action, outcomes) ==
  CASE NeedsReconciliation(s, t) /\ "external_effect_observed" \in outcomes
         -> "reconciled_external_effect"
    [] NeedsReconciliation(s, t) /\ outcomes \intersect Conclusive
                                      = {"no_external_effect_observed"}
         -> "reconciled_no_external_effect"
    [] LeaseActive(s, t) /\ ~IsTerminal(outcomes) -> "execution_in_progress"
    [] s = "approved" /\ t = "expired" /\ ~IsTerminal(outcomes) -> "execution_unknown"
    [] s = "failed" /\ ~IsTerminal(outcomes) -> "failed_needs_reconciliation"
    [] s \in {"proposed", "pending"} -> "pending_decision"
    [] s = "approved" /\ t = "none" /\ action \in ExecutableActions -> "approved_ready"
    [] s = "approved" /\ t = "none" /\ action \notin ExecutableActions
         -> "approved_not_executable"
    [] OTHER -> "none"

\* partitionApprovalLifecycle: the list a stage puts the row in.
StageBuckets(stage) ==
  CASE stage = "pending_decision" -> {"pendingDecision"}
    [] stage = "approved_ready" -> {"readyToExecute"}
    [] stage = "execution_in_progress" -> {"executionInProgress"}
    [] stage \in {"execution_unknown", "failed_needs_reconciliation"}
         -> {"needsReconciliation"}
    [] stage = "approved_not_executable" -> {"approvedNotExecutable"}
    [] stage \in {"reconciled_external_effect", "reconciled_no_external_effect"}
         -> {"reconciled"}
    [] OTHER -> {}

\* workQueueCounts: the six independent SQL counts, as the set of counts the
\* row contributes to.
QueryBuckets(s, t, action, outcomes) ==
  {b \in {"pendingDecision", "readyToExecute", "executionInProgress",
          "needsReconciliation", "reconciled", "approvedNotExecutable"} :
     \/ b = "pendingDecision" /\ s \in {"proposed", "pending"}
     \/ b = "readyToExecute" /\ s = "approved" /\ t = "none" /\ action \in ExecutableActions
     \/ b = "executionInProgress" /\ s = "approved" /\ t = "leased"
     \/ b = "needsReconciliation" /\ ~IsTerminal(outcomes)
          /\ (s = "failed" \/ (s = "approved" /\ t = "expired"))
     \/ b = "reconciled" /\ s \in {"approved", "failed"} /\ IsTerminal(outcomes)
     \/ b = "approvedNotExecutable" /\ s = "approved" /\ t = "none"
          /\ action \notin ExecutableActions}

-----------------------------------------------------------------------------
(***************************************************************************)
(* reconcileManagerRecommendation: what the approvals of one manager        *)
(* recommendation make of it. `rows` maps each linked approval to           *)
(* [status, attempt, outcomes, simulated]. The approvals are read in no     *)
(* stated order, so the reason given for an unresolved one is a choice.     *)
(***************************************************************************)
Unresolved(row) ==
  NeedsReconciliation(row.status, row.attempt) /\ ~IsTerminal(row.outcomes)

Verdict(o, reason) == [outcome |-> o, reason |-> reason]

Verdicts(rows) ==
  LET linked == DOMAIN rows
      External == {a \in linked : "external_effect_observed" \in rows[a].outcomes}
      Open == {a \in linked : Unresolved(rows[a])}
      NoEffect == {a \in linked : "no_external_effect_observed" \in rows[a].outcomes}
      Refused == {a \in linked : rows[a].status \in {"rejected", "expired"}}
      Executed == {a \in linked : rows[a].status = "executed"}
      Simulated == {a \in Executed : rows[a].simulated}
  IN  IF External # {}
        THEN {Verdict("blocked", "approval_reconciled_external_effect_needs_repair")}
      ELSE IF Open # {}
        THEN {Verdict("blocked", IF rows[a].status = "failed" THEN "approval_failed"
                                 ELSE "approval_execution_unknown") : a \in Open}
      ELSE IF NoEffect # {}
        THEN {Verdict("blocked", "approval_reconciled_no_external_effect")}
      ELSE IF Refused # {} THEN {Verdict("dismissed", "approval_rejected")}
      ELSE IF Executed # linked THEN {Verdict("accepted", "approval_prepared")}
      ELSE IF Simulated # {} THEN {Verdict("blocked", "approval_simulated")}
      ELSE {Verdict("completed", "action_executed")}

RecommendationOutcomes == {"suggested", "accepted", "blocked", "dismissed", "completed"}

Reasons == {"none", "approval_prepared", "approval_failed", "approval_execution_unknown",
            "approval_reconciled_external_effect_needs_repair",
            "approval_reconciled_no_external_effect", "approval_rejected",
            "approval_simulated", "action_executed"}

VerdictSet == [outcome : RecommendationOutcomes, reason : Reasons]

(* The transaction runs READ COMMITTED: it reads the recommendation, then the
   rows linked to it, and only then writes. `reading` is what it has so far. *)
NoReading == [step |-> "none", rec |-> Verdict("suggested", "none"), rows |-> << >>]

\* Mistake: the row that changed is taken for all of the prepared work.
Projected_OwnRow(now, reading, a, row) ==
  {IF v = reading.rec THEN now ELSE v : v \in Verdicts([b \in {a} |-> row])}

\* What it leaves of a recommendation that is `now` when it commits, given its own
\* change to one of the rows: the verdict is written by id, without a guard, unless
\* it equals the outcome that was read.
Projected(now, reading, a, row) ==
  {IF v = reading.rec THEN now ELSE v : v \in Verdicts([reading.rows EXCEPT ![a] = row])}
=============================================================================
