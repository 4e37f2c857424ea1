--------------------------- MODULE ManagerReceipts ---------------------------
(***************************************************************************)
(* One Manager recommendation after it was suggested: members who decide    *)
(* on it, the approvals or the record it is carried by, and the receipt     *)
(* projectManagerFollowThrough makes of all that for each viewer.           *)
(***************************************************************************)
EXTENDS ApprovalRows, Sequences

CONSTANTS
  Approvals,   \* approvals the recommendation prepares
  ActionOf,    \* actionType of each
  Requests     \* decisions of members under way

ReceiptConstants == ActionOf \in [Approvals -> ExecutableActions \union {"other"}]

VARIABLES
  rec,       \* outcome, reason; carrier: what an acceptance creates; ownerOnly
  linked,    \* approvals linked to it
  rows,      \* row of each approval, as in ApprovalRows
  reading,   \* reading[a]: what the open transaction on approval a has read
  record,    \* kind and status of the linked task, decision, project, ...
  deciding   \* deciding[q]: the wish of a member and the outcomes it allows

receiptVars == <<rec, linked, rows, reading, record, deciding>>

Carriers == {"approvals", "task", "decision", "project", "event", "memory", "advice"}
RecordStates ==
  [task |-> {"open", "in_progress", "waiting", "blocked", "done"},
   decision |-> {"open", "decided", "due", "reviewed", "superseded"},
   project |-> {"active", "paused", "cancelled", "completed"},
   event |-> {"active", "cancelled", "completed"},
   memory |-> {"saved"},
   none |-> {"none"}]
Settled == {"done", "reviewed", "superseded", "completed", "saved"}

NoRecord == [kind |-> "none", status |-> "none"]
NoWish == [wish |-> "none", allowed |-> {}]
FreshRow == [status |-> "absent", attempt |-> "none", outcomes |-> {}, simulated |-> FALSE]

\* A fresh suggestion, or a legacy row that was accepted without a link.
ReceiptInit ==
  /\ rec \in [outcome : {"suggested", "accepted"}, reason : {"none"},
              carrier : Carriers, ownerOnly : BOOLEAN]
  /\ linked = {} /\ record = NoRecord
  /\ rows = [a \in Approvals |-> FreshRow]
  /\ reading = [a \in Approvals |-> NoReading]
  /\ deciding = [q \in Requests |-> NoWish]

----------------------------------------------------------------------------
(* The receipt: approvals speak first, then the record, then the outcome.   *)

Receipt(state, stage) == [state |-> state, stage |-> stage]

\* The receipt of the first case that applies.
FirstOf(cases) ==
  cases[CHOOSE i \in DOMAIN cases : cases[i][1] /\ \A j \in 1..(i - 1) : ~cases[j][1]][2]

Some(P(_)) == \E a \in linked : P(rows[a])
Has(o) == \E a \in linked : o \in rows[a].outcomes
Untried(a) == rows[a].status = "approved" /\ rows[a].attempt = "none"
Ready(a) == Untried(a) /\ ActionOf[a] \in ExecutableActions

\* Mistake: an attempt that never came back is forgotten.
AttemptCases_FailedOnly == <<
  <<Has("external_effect_observed"), Receipt("blocked", "reconciled")>>,
  <<Some(LAMBDA r : LeaseActive(r.status, r.attempt)), Receipt("in_motion", "execution_in_progress")>>,
  <<Some(LAMBDA r : r.status = "failed" /\ Unresolved(r)), Receipt("blocked", "approval_failed")>>,
  <<Has("no_external_effect_observed"), Receipt("blocked", "reconciled")>> >>

\* A request that was tried quarantines the whole recommendation.
AttemptCases == <<
  <<Has("external_effect_observed"), Receipt("blocked", "reconciled")>>,
  <<Some(LAMBDA r : LeaseActive(r.status, r.attempt)), Receipt("in_motion", "execution_in_progress")>>,
  <<Some(LAMBDA r : r.status = "approved" /\ Unresolved(r)), Receipt("blocked", "execution_unknown")>>,
  <<Some(Unresolved), Receipt("blocked", "approval_failed")>>,
  <<Has("no_external_effect_observed"), Receipt("blocked", "reconciled")>> >>

\* Otherwise it is where its last approval is.
ProgressCases == <<
  <<Some(LAMBDA r : r.status \in {"rejected", "expired"}), Receipt("blocked", "approval_rejected")>>,
  <<rec.outcome = "blocked" /\ rec.reason = "approval_simulated", Receipt("blocked", "approval_simulated")>>,
  <<\A a \in linked : rows[a].status = "executed", Receipt("completed", "all_executed")>>,
  <<Some(LAMBDA r : r.status \in {"proposed", "pending"}), Receipt("needs_action", "awaiting_approval")>>,
  <<\E a \in linked : Ready(a), Receipt("needs_action", "awaiting_execution")>>,
  <<TRUE, Receipt("completed", "internal_change_complete")>> >>

RecordReceipt == FirstOf(<<
  <<record.status \in Settled, Receipt("completed", "internal_change_complete")>>,
  <<record.status \in {"waiting", "blocked", "paused", "cancelled"}, Receipt("blocked", record.kind)>>,
  <<record.kind = "decision" /\ record.status # "decided", Receipt("needs_action", "decision_needed")>>,
  <<TRUE, Receipt("in_motion", record.kind)>> >>)

HasRecord == record.kind # "none"

FollowThrough == FirstOf(<<
  <<rec.outcome = "completed" /\ rec.reason = "reconciled", Receipt("completed", "reconciled")>>,
  <<linked # {}, FirstOf(AttemptCases \o ProgressCases)>>,
  <<rec.outcome = "blocked", Receipt("blocked", "needs_tracking")>>,
  <<HasRecord, RecordReceipt>>,
  <<rec.outcome \in {"completed", "dismissed"}, Receipt("completed", "internal_change_complete")>>,
  <<rec.outcome = "suggested" /\ rec.carrier # "advice", Receipt("needs_action", "ready_for_review")>>,
  <<TRUE, Receipt("needs_action", "needs_tracking")>> >>)

\* canReconcile of the receipt: whether a reconciliation is offered.
CanReconcile ==
  \/ rec.outcome = "blocked" /\ FollowThrough.stage = "approval_simulated"
  \/ rec.outcome = "accepted" /\ FollowThrough.stage = "needs_tracking" /\ rec.carrier # "advice"

----------------------------------------------------------------------------
(* recommendation(): read, check, and later one guarded transaction.        *)

Allowed(wish) ==
  CASE wish \in {"accepted", "dismissed"} -> {"suggested"}
    [] wish = "completed"  -> {"suggested", "accepted"}
    [] wish = "reconciled" -> {"suggested", "accepted", "blocked"}

\* mayReconcile of the service, which decides it a second time.
MayReconcile ==
  /\ FollowThrough.stage \in {"approval_simulated", "needs_tracking"}
  /\ \/ rec.outcome = "blocked"
     \/ rec.outcome = "accepted" /\ FollowThrough.stage = "needs_tracking" /\ rec.carrier # "advice"

MayDecide(wish) ==
  /\ rec.outcome \in Allowed(wish)
  /\ wish = "reconciled" => MayReconcile
  /\ wish = "accepted" => rec.carrier # "advice"
  /\ wish \in {"completed", "reconciled"} /\ record.kind \in {"task", "decision"} =>
       record.status \in Settled
  /\ wish = "completed" => \A a \in linked : rows[a].status = "executed"

ReadWish(q) ==
  /\ deciding[q] = NoWish
  /\ \E wish \in {"accepted", "dismissed", "completed", "reconciled"}, viewer \in {"owner", "member"} :
       /\ rec.ownerOnly => viewer = "owner"
       /\ MayDecide(wish)
       /\ deciding' = [deciding EXCEPT ![q] = [wish |-> wish, allowed |-> Allowed(wish)]]
  /\ UNCHANGED <<rec, linked, rows, reading, record>>

Decided(outcome, reason) == [rec EXCEPT !.outcome = outcome, !.reason = reason]

\* An acceptance links a task or decision and goes on, links approvals that
\* were prepared, or is complete at once.
AcceptWrites ==
  CASE rec.carrier = "approvals" ->
         /\ linked' \in (SUBSET Approvals) \ {{}}
         /\ rows' = [a \in Approvals |-> [FreshRow EXCEPT !.status = IF a \in linked' THEN "pending" ELSE @]]
         /\ rec' = Decided("accepted", "approval_prepared")
         /\ UNCHANGED record
    [] OTHER ->
         /\ record' = [kind |-> rec.carrier,
                       status |-> CASE rec.carrier \in {"task", "decision"} -> "open"
                                    [] rec.carrier = "memory" -> "saved"
                                    [] OTHER -> "active"]
         /\ rec' = IF rec.carrier \in {"task", "decision"} THEN Decided("accepted", "accepted")
                   ELSE Decided("completed", "action_executed")
         /\ UNCHANGED <<linked, rows>>

WriteWish(q) ==
  /\ deciding[q] # NoWish
  /\ deciding' = [deciding EXCEPT ![q] = NoWish]
  /\ UNCHANGED reading
  /\ IF rec.outcome \notin deciding[q].allowed THEN UNCHANGED <<rec, linked, rows, record>>
     ELSE IF deciding[q].wish = "accepted" THEN AcceptWrites
     ELSE /\ rec' = Decided(IF deciding[q].wish = "dismissed" THEN "dismissed" ELSE "completed",
                            deciding[q].wish)
          /\ UNCHANGED <<linked, rows, record>>

----------------------------------------------------------------------------
(* The approvals and the record go their own way. Everything that decides,  *)
(* finishes or reconciles an approval also rewrites the outcome of the       *)
(* recommendation; claims and the clock do not.                             *)

Standing == Verdict(rec.outcome, rec.reason)

\* READ COMMITTED, once the row is locked: the recommendation, later the linked rows.
ReadRecommendation(a) ==
  /\ reading[a].step = "none"
  /\ reading' = [reading EXCEPT ![a] = [NoReading EXCEPT !.step = "rec", !.rec = Standing]]
  /\ UNCHANGED <<rec, linked, rows, record, deciding>>

ReadLinked(a) ==
  /\ reading[a].step = "rec"
  /\ reading' = [reading EXCEPT ![a].step = "all", ![a].rows = [b \in linked |-> rows[b]]]
  /\ UNCHANGED <<rec, linked, rows, record, deciding>>

\* The commit.
Reproject(a, row) ==
  /\ reading[a].step = "all"
  /\ rows' = [rows EXCEPT ![a] = row]
  /\ \E v \in Projected(Standing, reading[a], a, row) : rec' = Decided(v.outcome, v.reason)
  /\ reading' = [reading EXCEPT ![a] = NoReading]
  /\ UNCHANGED <<linked, record, deciding>>

DecideApproval(a) ==
  /\ rows[a].status = "pending"
  /\ \/ ReadRecommendation(a) \/ ReadLinked(a)
     \/ \E s \in {"approved", "rejected"} : Reproject(a, [rows[a] EXCEPT !.status = s])

ClaimApproval(a) ==
  /\ Untried(a) /\ ActionOf[a] \in ExecutableActions
  /\ rows' = [rows EXCEPT ![a].attempt = "leased"]
  /\ UNCHANGED <<rec, linked, reading, record, deciding>>

\* The executor commits a success or a failure; and, when its read after a late error
\* fails, a failure over the success. The holds and folders a recommendation prepares
\* carry a source key.
FinishApproval(a) ==
  /\ rows[a].status \in {"approved", "executed"} /\ rows[a].attempt = "leased"
  /\ \/ ReadRecommendation(a) \/ ReadLinked(a)
     \/ \E mock \in BOOLEAN :
          /\ rows[a].status = "approved"
          /\ mock => SimulationAware(ActionOf[a], TRUE)
          /\ Reproject(a, [rows[a] EXCEPT !.status = "executed", !.simulated = mock])
     \/ Reproject(a, [rows[a] EXCEPT !.status = "failed"])

\* The executor is gone, and its transaction with it.
LeaseLapses(a) ==
  /\ LeaseActive(rows[a].status, rows[a].attempt)
  /\ rows' = [rows EXCEPT ![a].attempt = "expired"]
  /\ reading' = [reading EXCEPT ![a] = NoReading]
  /\ UNCHANGED <<rec, linked, record, deciding>>

\* Serializable: one snapshot, taken again after a conflict with another receipt or
\* with a write of the recommendation.
ReconcileApproval(a) ==
  /\ Unresolved(rows[a]) /\ ~LeaseActive(rows[a].status, rows[a].attempt)
  /\ \/ /\ reading' = [reading EXCEPT ![a] =
                          [step |-> "all", rec |-> Standing, rows |-> [b \in linked |-> rows[b]]]]
        /\ UNCHANGED <<rec, linked, rows, record, deciding>>
     \/ /\ \E o \in Outcomes : Reproject(a, [rows[a] EXCEPT !.outcomes = @ \union {o}])
        /\ \A b \in DOMAIN reading[a].rows : reading[a].rows[b].outcomes = rows[b].outcomes
        /\ rec' # rec => Standing = reading[a].rec

RecordMoves ==
  /\ HasRecord
  /\ \E s \in RecordStates[record.kind] \ {record.status} : record' = [record EXCEPT !.status = s]
  /\ UNCHANGED <<rec, linked, rows, reading, deciding>>

ReceiptNext ==
  \/ \E q \in Requests : ReadWish(q) \/ WriteWish(q)
  \/ \E a \in linked : \/ DecideApproval(a) \/ ClaimApproval(a) \/ FinishApproval(a)
                       \/ LeaseLapses(a) \/ ReconcileApproval(a)
  \/ RecordMoves

ReceiptSpec == ReceiptInit /\ [][ReceiptNext]_receiptVars

----------------------------------------------------------------------------
(* Properties.                                                              *)

\* Nothing more can happen to it that the band has to look after.
ApprovalSettled(a) ==
  \/ rows[a].status = "executed"
  \/ Untried(a) /\ ActionOf[a] \notin ExecutableActions

\* A receipt never calls work completed while an approval it rests on may still be
\* decided or run, or has an unknown or failed attempt (one that was executed may be
\* marked failed while a member reconciles the work), nor while the linked record is
\* open; work that ran on a mock adapter is offered for reconciliation only when all of
\* it ran; and the receipt offers a reconciliation just when the service would accept
\* it, however late the projection of the approvals is
\* (projectManagerFollowThrough, reconcileManagerRecommendation, recommendation).
ReceiptHonest ==
  /\ FollowThrough.state = "completed" =>
       /\ \A a \in linked :
            ApprovalSettled(a) \/ (FollowThrough.stage = "reconciled" /\ rows[a].status = "failed")
       /\ linked = {} /\ HasRecord => record.status \in Settled
  /\ CanReconcile /\ linked # {} =>
       /\ \A a \in linked : rows[a].status = "executed"
       /\ \E a \in linked : rows[a].simulated
  /\ CanReconcile <=> MayReconcile
=============================================================================
