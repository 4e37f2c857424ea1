------------------------- MODULE ApprovalLifecycle --------------------------
(***************************************************************************)
(* ApprovalsService: an ApprovalRequest from creation through decision,     *)
(* one-shot execution against a provider, failure or crash of the request   *)
(* that executes it, and the append-only human reconciliation of what is    *)
(* left uncertain.                                                          *)
(*                                                                          *)
(* A database transaction is the action of its commit. The reads that the   *)
(* projection of a Manager recommendation makes before it are steps of      *)
(* their own, because under READ COMMITTED another transaction may commit   *)
(* between any two of them. A request of the API is an Executor while it    *)
(* runs executeApproved: between its awaits any other request may run, its  *)
(* own writes may fail, and the process may die. An Observer is a member    *)
(* who looked at the provider and later submits what was seen.              *)
(***************************************************************************)
EXTENDS ApprovalRows

CONSTANTS
  Approvals,        \* ApprovalRequest ids
  ActionOf,         \* [Approvals -> action type]
  Recommendations,  \* ManagerRecommendation ids
  NoRecommendation, \* managerRecommendationId = null
  RecOf,            \* [Approvals -> Recommendations \cup {NoRecommendation}]
  Keyed,            \* approvals with an event-logistics source key
  CallsOf,          \* [Approvals -> Nat]: provider calls in the approved batch
  Executors,        \* concurrent executeApproved requests
  Observers,        \* members who check the provider
  Keys,             \* reconciliation idempotency keys (bounds the receipts)
  NoApproval,       \* no row
  SlowProviders,    \* TRUE: an attempt may outlive its one-hour lease
  ReadMayFail,      \* TRUE: the read after an error may fail on its own
  MistakenHumans    \* observers who may report what they did not see

ASSUME ConstantTypes ==
  /\ RecOf \in [Approvals -> Recommendations \union {NoRecommendation}]
  /\ NoRecommendation \notin Recommendations
  /\ CallsOf \in [Approvals -> Nat]
  /\ Keyed \subseteq Approvals
  /\ NoApproval \notin Approvals
  /\ SlowProviders \in BOOLEAN
  /\ ReadMayFail \in BOOLEAN
  /\ MistakenHumans \subseteq Observers

\* Approvals are linked to a recommendation by its acceptance alone, which plans the
\* calendar hold and the folder of a show.
ASSUME LinkedWork == \A a \in Approvals :
  RecOf[a] # NoRecommendation => a \in Keyed /\ ActionOf[a] \in LogisticsActions

VARIABLES
  status,          \* ApprovalRequest.status ("absent": no row yet)
  attempt,         \* executionAttemptedAt against the clock
  result,          \* what payload.executionResult proves
  targetId,        \* a SocialPostTarget of the drop has an externalPostId
  receipts,        \* ApprovalReconciliation rows
  recommendation,  \* ManagerRecommendation.outcome and outcomeReason
  txn,             \* what the open projections have read, by kind and approval
  exec,            \* local state of the executors
  seen,            \* what each observer saw, and when
  made,            \* history: provider calls issued for the approval
  effect,          \* history: one of them took effect outside
  acked,           \* history: the provider's reply naming it was received
  done             \* history: its execution was committed as a success

row == <<status, attempt, result>>
outside == <<made, effect, acked>>
history == <<outside, done>>
projection == <<recommendation, txn>>
vars == <<status, attempt, result, targetId, receipts, recommendation, txn, exec,
          seen, made, effect, acked, done>>

-----------------------------------------------------------------------------
Results == {"none", "simulated", "known"}
AdapterModes == {"real", "mock"}
PCs == {"idle", "preview", "claim", "calling", "audit", "catch", "fail"}
Live == {"calling", "audit", "catch", "fail"}   \* between the claim and the answer

Idle == [pc |-> "idle", on |-> NoApproval, mode |-> "real", calls |-> 0,
         result |-> "none", bad |-> FALSE]
ExecutorStates == [pc : PCs, on : Approvals \union {NoApproval}, mode : AdapterModes, calls : Nat,
                   result : Results, bad : BOOLEAN]

NothingSeen == [on |-> NoApproval, when |-> "none", effect |-> FALSE]

\* A transaction that changes the row holds its lock; one that adds a receipt is
\* Serializable.
Transactions == {"row", "receipt"} \X Approvals

RowViews == [status : Statuses, attempt : Attempts, outcomes : SUBSET Outcomes,
             simulated : BOOLEAN]
Readings == [step : {"none", "rec", "all"}, rec : VerdictSet,
             rows : UNION {[linked -> RowViews] : linked \in SUBSET Approvals}]

TypeOK ==
  /\ status \in [Approvals -> Statuses]
  /\ attempt \in [Approvals -> Attempts]
  /\ result \in [Approvals -> Results]
  /\ targetId \in [Approvals -> BOOLEAN]
  /\ receipts \in [Approvals -> SUBSET [key : Keys, outcome : Outcomes, by : Observers]]
  /\ recommendation \in [Recommendations -> VerdictSet]
  /\ txn \in [Transactions -> Readings]
  /\ exec \in [Executors -> ExecutorStates]
  /\ seen \in [Observers -> [on : Approvals \union {NoApproval}, when : Attempts,
                             effect : BOOLEAN]]
  /\ made \in [Approvals -> Nat]
  /\ effect \in [Approvals -> BOOLEAN]
  /\ acked \in [Approvals -> BOOLEAN]
  /\ done \in [Approvals -> BOOLEAN]

OutcomesOf(rs) == {r.outcome : r \in rs}

(* The guards that arbitrate between racing requests. A name with an
   underscore is the same guard as a plausible mistake would leave it; the
   mutants use it, the specification does not. *)

Undecided(a) == status[a] \in {"pending", "proposed"}

\* Mistake: the compare-and-set looks at the status alone.
Unclaimed_StatusOnly(a) == status[a] = "approved"

Unclaimed(a) == status[a] = "approved" /\ attempt[a] = "none"

\* Mistake: the catch block does not look whether the work had been committed.
FoundExecuted_Never(a) == FALSE

FoundExecuted(a) == status[a] = "executed"

\* Mistake: the error path saves the error and drops the partial result.
SavedOnFailure_Dropped(e) == "none"

SavedOnFailure(e) == exec[e].result

KnownExternalEffect_Never(a) == FALSE

\* approvalReconciliationHasKnownExternalEffect: only the saved payload (and the
\* campaign deliveries, written with it) is looked at, never a social target.
KnownExternalEffect(a) == result[a] = "known"

\* Mistake: a terminal receipt is not looked for, nor made unique by the schema.
NotConcluded_Always(a) == TRUE

\* The check in the transaction and the unique (approvalId, resolutionKey).
NotConcluded(a) == ~IsTerminal(OutcomesOf(receipts[a]))

\* Mistake: evidence is only compared with the claim.
EvidenceTimely_SinceClaim(o, a) == seen[o].when # "none"

\* observedAt is compared with the claim, and for a claim that never came back
\* with the end of the lease.
EvidenceTimely(o, a) ==
  /\ seen[o].when # "none"
  /\ status[a] = "approved" => seen[o].when = "expired"

LiveOn(a) == {e \in Executors : exec[e].pc \in Live /\ exec[e].on = a}

-----------------------------------------------------------------------------
(* reconcileApprovalRecommendation(a), inside the transaction that changes a *)

Linked(a) == {b \in Approvals : RecOf[b] = RecOf[a]}

Simulated(a, res) == res = "simulated" /\ SimulationAware(ActionOf[a], a \in Keyed)

ViewOf(a) == [status |-> status[a], attempt |-> attempt[a],
              outcomes |-> OutcomesOf(receipts[a]), simulated |-> Simulated(a, result[a])]

LinkedViews(a) == [b \in {c \in Linked(a) : status[c] # "absent"} |-> ViewOf(b)]

\* The first read: the recommendation.
ReadRecommendation(a) ==
  /\ RecOf[a] # NoRecommendation
  /\ txn["row", a].step = "none"
  /\ txn' = [txn EXCEPT ![<<"row", a>>] = [NoReading EXCEPT !.step = "rec",
                                                      !.rec = recommendation[RecOf[a]]]]
  /\ UNCHANGED <<row, targetId, receipts, recommendation, exec, seen, history>>

\* The second: every approval linked to it, as committed at that moment.
ReadLinked(a) ==
  /\ txn["row", a].step = "rec"
  /\ txn' = [txn EXCEPT ![<<"row", a>>].step = "all", ![<<"row", a>>].rows = LinkedViews(a)]
  /\ UNCHANGED <<row, targetId, receipts, recommendation, exec, seen, history>>

ReadForProjection(a) == ReadRecommendation(a) \/ ReadLinked(a)

\* The commit, when the transaction of kind k leaves the row of a as `changed`.
ReconcileRecommendation(k, a, changed) ==
  IF RecOf[a] = NoRecommendation THEN UNCHANGED projection
  ELSE /\ txn[k, a].step = "all"
       /\ \E v \in Projected(recommendation[RecOf[a]], txn[k, a], a, changed) :
            recommendation' = [recommendation EXCEPT ![RecOf[a]] = v]
       /\ txn' = [txn EXCEPT ![<<k, a>>] = NoReading]

\* The row it read, with its own change to it.
Changed(a, s, res) ==
  [txn["row", a].rows[a] EXCEPT !.status = s, !.simulated = Simulated(a, res)]

\* The transaction of e, if it has one open, is rolled back.
RollBack(e) ==
  txn' = [k \in Transactions |->
            IF k = <<"row", exec[e].on>> /\ exec[e].pc \in {"calling", "fail"}
            THEN NoReading ELSE txn[k]]

-----------------------------------------------------------------------------
(* Preparing and deciding *)

\* createMany: a row of its own; or, within the transaction of an acceptance that has
\* just claimed the recommendation, all the rows that are linked to it.
Create(a) ==
  LET prepared == IF RecOf[a] = NoRecommendation THEN {a} ELSE Linked(a)
  IN
  /\ \A b \in prepared : status[b] = "absent"
  /\ \E s \in {"pending", "proposed"} :
       status' = [b \in Approvals |-> IF b \in prepared THEN s ELSE status[b]]
  /\ IF RecOf[a] = NoRecommendation THEN UNCHANGED recommendation
     ELSE recommendation' = [recommendation EXCEPT
                               ![RecOf[a]] = Verdict("accepted", "approval_prepared")]
  /\ UNCHANGED <<attempt, result, receipts, txn, targetId, exec, seen, history>>

\* approve and reject: one guarded updateMany decides between racing members.
Decide(a, decision) ==
  /\ Undecided(a)
  /\ status' = [status EXCEPT ![a] = decision]
  /\ UNCHANGED <<attempt, result, receipts>>
  /\ ReconcileRecommendation("row", a, Changed(a, decision, result[a]))
  /\ UNCHANGED <<targetId, exec, seen, history>>

Approve(a) == Decide(a, "approved")

\* Mistake: a status the rest of the code does not know.
Reject_Declined(a) == Decide(a, "declined")

Reject(a) == Decide(a, "rejected")

-----------------------------------------------------------------------------
(* executeApproved *)

Goto(e, pc) == exec' = [exec EXCEPT ![e].pc = pc]
Return(e) == exec' = [exec EXCEPT ![e] = Idle]

\* The row is read and checked outside any transaction.
ReadApproved(e, a, dryRun) ==
  /\ exec[e].pc = "idle"
  /\ status[a] = "approved"
  /\ ActionOf[a] \in ExecutableActions
  /\ exec' = [exec EXCEPT ![e] = [Idle EXCEPT !.pc = IF dryRun THEN "preview" ELSE "claim",
                                              !.on = a]]
  /\ UNCHANGED <<row, targetId, receipts, projection, seen, history>>

\* dryRun: the payload read before the registry was resolved is written back
\* with a preview, only if no execution was claimed meanwhile.
WritePreview(e) ==
  LET a == exec[e].on IN
  /\ exec[e].pc = "preview"
  /\ IF Unclaimed(a)
     THEN result' = [result EXCEPT ![a] = "none"]
     ELSE UNCHANGED result
  /\ Return(e)
  /\ UNCHANGED <<status, attempt, targetId, receipts, projection, seen, history>>

\* The compare-and-set on executionAttemptedAt, then resolveForArtist.
Claim(e) ==
  LET a == exec[e].on IN
  /\ exec[e].pc = "claim"
  /\ Unclaimed(a)
  /\ attempt' = [attempt EXCEPT ![a] = "leased"]
  /\ \E m \in AdapterModes : exec' = [exec EXCEPT ![e].pc = "calling", ![e].mode = m]
  /\ UNCHANGED <<status, result, targetId, receipts, projection, seen, history>>

ClaimLost(e) ==
  LET a == exec[e].on IN
  /\ exec[e].pc = "claim"
  /\ ~Unclaimed(a)
  /\ Return(e)
  /\ UNCHANGED <<row, targetId, receipts, projection, seen, history>>

\* A provider call answers, fails without effect, or takes effect while its
\* answer is lost. A stopping loop leaves for the catch block on an error; a
\* recording loop notes an unknown result and goes on.
CallProvider(e, reply) ==
  LET a == exec[e].on
      x == exec[e]
      landed == x.mode = "real" /\ reply # "error"
  IN
  /\ x.pc = "calling" /\ x.calls < CallsOf[a]
  /\ made' = [made EXCEPT ![a] = @ + 1]
  /\ effect' = [effect EXCEPT ![a] = @ \/ landed]
  /\ acked' = [acked EXCEPT ![a] = @ \/ (landed /\ reply = "ok")]
  /\ targetId' = [targetId EXCEPT ![a] = @ \/ (landed /\ reply = "ok"
                                               /\ ActionOf[a] = "social_post_batch")]
  /\ exec' = [exec EXCEPT ![e] =
       IF reply = "ok"
       THEN [x EXCEPT !.calls = @ + 1,
                      !.result = IF x.mode = "real" THEN "known" ELSE "simulated"]
       ELSE IF ActionOf[a] \in StoppingActions THEN [x EXCEPT !.pc = "catch"]
       ELSE [x EXCEPT !.calls = @ + 1, !.bad = TRUE]]
  /\ UNCHANGED <<row, receipts, projection, seen, done>>

\* Anything else in the try block throws: a payload that does not parse, a
\* stale show or campaign, a failed local write. The social service keeps its
\* results to itself when it throws.
Abort(e) ==
  LET a == exec[e].on IN
  /\ exec[e].pc = "calling"
  /\ exec' = [exec EXCEPT ![e].pc = "catch",
                          ![e].result = IF ActionOf[a] = "social_post_batch" THEN "none" ELSE @]
  /\ RollBack(e)
  /\ UNCHANGED <<row, targetId, receipts, recommendation, seen, history>>

Called(e) == exec[e].pc = "calling" /\ exec[e].calls = CallsOf[exec[e].on]

Ending(e) == IF exec[e].bad THEN "failed" ELSE "executed"

\* finalize*: result and status are written by id, in one transaction.
Finalize(e) ==
  LET a == exec[e].on IN
  /\ Called(e)
  /\ status' = [status EXCEPT ![a] = Ending(e)]
  /\ result' = [result EXCEPT ![a] = exec[e].result]
  /\ done' = [done EXCEPT ![a] = ~exec[e].bad]
  /\ UNCHANGED <<attempt, receipts>>
  /\ ReconcileRecommendation("row", a, Changed(a, Ending(e), exec[e].result))
  /\ Goto(e, "audit")
  /\ UNCHANGED <<targetId, seen, outside>>

\* The audit row after the commit is a write of its own.
Audit(e) ==
  /\ exec[e].pc = "audit"
  /\ Return(e) \/ Goto(e, "catch")
  /\ UNCHANGED <<row, targetId, receipts, projection, seen, history>>

\* catch: an approval found executed is left alone; a failed read is taken for
\* "not executed".
ReadBack(e) ==
  LET a == exec[e].on IN
  /\ exec[e].pc = "catch"
  /\ \/ FoundExecuted(a) /\ Return(e)
     \/ (~FoundExecuted(a) \/ ReadMayFail) /\ Goto(e, "fail")
  /\ UNCHANGED <<row, targetId, receipts, projection, seen, history>>

FinalizeFailed(e) ==
  LET a == exec[e].on IN
  /\ exec[e].pc = "fail"
  /\ status' = [status EXCEPT ![a] = "failed"]
  /\ result' = [result EXCEPT ![a] = SavedOnFailure(e)]
  /\ UNCHANGED <<attempt, receipts>>
  /\ ReconcileRecommendation("row", a, Changed(a, "failed", SavedOnFailure(e)))
  /\ Return(e)
  /\ UNCHANGED <<targetId, seen, history>>

\* The process dies, or the error path itself fails: the claim stays behind.
Crash(e) ==
  /\ exec[e].pc # "idle"
  /\ Return(e)
  /\ RollBack(e)
  /\ UNCHANGED <<row, targetId, receipts, recommendation, seen, history>>

-----------------------------------------------------------------------------
(* The clock and the reconciliation of what is uncertain *)

\* An hour passes since the claim. The lease is meant to outlive every attempt.
LeaseEnds(a) ==
  /\ attempt[a] = "leased"
  /\ SlowProviders \/ LiveOn(a) = {}
  /\ attempt' = [attempt EXCEPT ![a] = "expired"]
  /\ UNCHANGED <<status, result, targetId, receipts, projection, exec, seen, history>>

\* A member looks at the provider.
Observe(o, a) ==
  /\ status[a] # "absent"
  /\ seen' = [seen EXCEPT ![o] = [on |-> a, when |-> attempt[a], effect |-> effect[a]]]
  /\ UNCHANGED <<row, targetId, receipts, projection, exec, history>>

Conclusion(o) == IF seen[o].effect THEN "external_effect_observed"
                                   ELSE "no_external_effect_observed"

\* What recordReconciliation asks of the row before it adds a receipt.
MayReconcile(o) ==
  LET a == seen[o].on IN
  /\ a # NoApproval
  /\ NeedsReconciliation(status[a], attempt[a])
  /\ ~LeaseActive(status[a], attempt[a])
  /\ NotConcluded(a)
  /\ EvidenceTimely(o, a)

\* Serializable: its projection reads one snapshot, again after each retry.
ReadSnapshot(o) ==
  LET a == seen[o].on IN
  /\ MayReconcile(o)
  /\ RecOf[a] # NoRecommendation
  /\ txn' = [txn EXCEPT ![<<"receipt", a>>] = [step |-> "all", rec |-> recommendation[RecOf[a]],
                                          rows |-> LinkedViews(a)]]
  /\ UNCHANGED <<row, targetId, receipts, recommendation, exec, seen, history>>

\* It fails when a receipt it read has a newer neighbour, or when a recommendation it
\* writes was written since.
Serialized(a) == RecOf[a] # NoRecommendation =>
  LET read == txn["receipt", a] IN
  /\ \A b \in DOMAIN read.rows : OutcomesOf(receipts[b]) = read.rows[b].outcomes
  /\ recommendation' # recommendation => recommendation[RecOf[a]] = read.rec

\* recordReconciliation: exact replays and key conflicts change nothing and are not shown.
RecordReconciliation(o, key, outcome) ==
  LET a == seen[o].on IN
  /\ MayReconcile(o)
  /\ o \in MistakenHumans \/ outcome \in {Conclusion(o), "still_unknown"}
  /\ \A b \in Approvals : \A r \in receipts[b] : r.key # key
  /\ outcome = "no_external_effect_observed" => ~KnownExternalEffect(a)
  /\ receipts' = [receipts EXCEPT ![a] = @ \union {[key |-> key, outcome |-> outcome, by |-> o]}]
  /\ UNCHANGED row
  /\ ReconcileRecommendation("receipt", a,
       [txn["receipt", a].rows[a] EXCEPT !.outcomes = @ \union {outcome}])
  /\ Serialized(a)
  /\ UNCHANGED <<targetId, exec, seen, history>>

-----------------------------------------------------------------------------
Init ==
  /\ status = [a \in Approvals |-> "absent"]
  /\ attempt = [a \in Approvals |-> "none"]
  /\ result = [a \in Approvals |-> "none"]
  /\ targetId = [a \in Approvals |-> FALSE]
  /\ receipts = [a \in Approvals |-> {}]
  /\ recommendation = [r \in Recommendations |-> Verdict("suggested", "none")]
  /\ txn = [k \in Transactions |-> NoReading]
  /\ exec = [e \in Executors |-> Idle]
  /\ seen = [o \in Observers |-> NothingSeen]
  /\ made = [a \in Approvals |-> 0]
  /\ effect = [a \in Approvals |-> FALSE]
  /\ acked = [a \in Approvals |-> FALSE]
  /\ done = [a \in Approvals |-> FALSE]

Decision == \E a \in Approvals :
  \/ Create(a) \/ Approve(a) \/ Reject(a)
  \/ Undecided(a) /\ ReadForProjection(a)

Execution(e) ==
  \/ \E a \in Approvals, dryRun \in BOOLEAN : ReadApproved(e, a, dryRun)
  \/ WritePreview(e) \/ Claim(e) \/ ClaimLost(e)
  \/ \E reply \in {"ok", "lost", "error"} : CallProvider(e, reply)
  \/ Abort(e) \/ Finalize(e) \/ Audit(e) \/ ReadBack(e) \/ FinalizeFailed(e)
  \/ Crash(e)
  \/ (Called(e) \/ exec[e].pc = "fail") /\ ReadForProjection(exec[e].on)

Review(o) ==
  \/ ReadSnapshot(o)
  \/ \E a \in Approvals : Observe(o, a)
  \/ \E key \in Keys, outcome \in Outcomes : RecordReconciliation(o, key, outcome)

Next ==
  \/ Decision
  \/ \E e \in Executors : Execution(e)
  \/ \E a \in Approvals : LeaseEnds(a)
  \/ \E o \in Observers : Review(o)

Spec == Init /\ [][Next]_vars

\* A request is always run to its end by the event loop (provider calls carry
\* timeouts), and the clock advances; nobody is obliged to decide or reconcile.
Fairness ==
  /\ \A e \in Executors : WF_vars(exec[e].pc \in Live /\ Execution(e))
  /\ \A a \in Approvals : WF_vars(LeaseEnds(a))

FairSpec == Spec /\ Fairness

-----------------------------------------------------------------------------
(* Safety *)

Concluded(a) == IsTerminal(OutcomesOf(receipts[a]))

\* At most one request ever carries the attempt of an approval, and it makes no
\* more provider calls than the batch that was approved holds.
OneAttempt == \A a \in Approvals : /\ Cardinality(LiveOn(a)) <= 1
                                   /\ made[a] <= CallsOf[a]

\* An approval has one conclusion: two members, or one member retrying with
\* another key, never leave two conclusive receipts on it.
OneConclusion == \A a \in Approvals :
  Cardinality({r \in receipts[a] : r.outcome \in Conclusive}) <= 1

\* Whatever ended the attempt (a late error, a stale campaign, a lost audit row, a
\* dry run in between), a reference the provider gave is in the saved payload.
\* A social batch is excepted: its service drops the results when it throws.
KnownEffectKept == \A a \in Approvals :
  /\ status[a] \in {"executed", "failed"} /\ acked[a]
  /\ ActionOf[a] # "social_post_batch"
  => result[a] = "known"

\* No member, however mistaken, can close as "nothing happened" an attempt whose
\* saved result names a provider reference.
NoContradictoryReceipt == \A a \in Approvals :
  "no_external_effect_observed" \in OutcomesOf(receipts[a]) => result[a] # "known"

\* The pure projection and the six SQL counts put every approval in the same
\* list, and in one list at most.
CountsMatchStages == \A a \in Approvals :
  LET os == OutcomesOf(receipts[a])
  IN  StageBuckets(Stage(status[a], attempt[a], ActionOf[a], os))
        = QueryBuckets(status[a], attempt[a], ActionOf[a], os)

\* A member who reports what was seen never wrongly closes a claim that did not
\* come back: evidence older than the lease is refused.
UnknownReceiptIsTrue == \A a \in Approvals : \A r \in receipts[a] :
  /\ status[a] = "approved"
  /\ r.outcome = "no_external_effect_observed" /\ r.by \notin MistakenHumans
  => ~effect[a]

\* The same for every approval, the failed ones included.
NoEffectReceiptIsTrue == \A a \in Approvals :
  "no_external_effect_observed" \in OutcomesOf(receipts[a]) => ~effect[a]

\* StoryBoard's own rows, the social targets included, are never contradicted.
StoredEffectNotDenied == \A a \in Approvals :
  "no_external_effect_observed" \in OutcomesOf(receipts[a]) => ~targetId[a]

\* A recommendation is completed only when every approval prepared for it was
\* executed, and for real, however the projections of its approvals interleave.
CompletedMeansExecuted == \A a \in Approvals :
  /\ RecOf[a] # NoRecommendation
  /\ recommendation[RecOf[a]].outcome = "completed"
  => done[a] /\ ~Simulated(a, result[a])


-----------------------------------------------------------------------------
(* Action properties *)

\* A decision and an outcome are final: nothing leaves rejected, executed or
\* failed, and an approved request only becomes executed or failed.
OutcomeIsFinal == [][\A a \in Approvals :
  /\ status[a] \in {"rejected", "executed", "failed"} => status'[a] = status[a]
  /\ status[a] = "approved" => status'[a] \in {"approved", "executed", "failed"}]_vars

\* What is left of that when a read fails after the commit: an executed approval may
\* be marked failed, but it keeps its claim and what the provider said, so that it is
\* never run again; and nothing else is reversed.
OutcomeIsKept == [][\A a \in Approvals :
  /\ status[a] \in {"rejected", "failed"} => status'[a] = status[a]
  /\ status[a] = "approved" => status'[a] \in {"approved", "executed", "failed"}
  /\ status[a] = "executed" => /\ status'[a] \in {"executed", "failed"}
                               /\ attempt'[a] # "none"
                               /\ result'[a] = result[a]]_vars

\* After a conclusion nothing changes for that approval any more: neither its
\* row nor, through a late provider call, the outside world.
ConclusionFreezes == [][\A a \in Approvals :
  Concluded(a) => /\ status'[a] = status[a]
                  /\ attempt'[a] \in {attempt[a], "expired"}
                  /\ result'[a] = result[a]
                  /\ made'[a] = made[a]]_vars

-----------------------------------------------------------------------------
(* Liveness *)

\* A claimed attempt does not stay "in progress": it ends, or becomes visible as
\* unknown so that a member can reconcile it.
AttemptResolves == \A a \in Approvals :
  LeaseActive(status[a], attempt[a]) ~>
    Stage(status[a], attempt[a], ActionOf[a], OutcomesOf(receipts[a]))
      \notin {"execution_in_progress", "approved_ready"}

-----------------------------------------------------------------------------
(* The abstract specification: one authorised attempt per approval *)

Phase(a) ==
  CASE Concluded(a) -> "sealed"
    [] ~Concluded(a) /\ status[a] \in {"executed", "failed"} -> "finished"
    [] ~Concluded(a) /\ status[a] = "approved" /\ attempt[a] # "none" -> "attempted"
    [] ~Concluded(a) /\ status[a] = "approved" /\ attempt[a] = "none" -> "authorised"
    [] ~Concluded(a) /\ status[a] \in {"rejected", "expired"} -> "refused"
    [] OTHER -> "undecided"

OneShot == INSTANCE OneShotEffect
             WITH Items <- Approvals, Limit <- CallsOf,
                  phase <- [a \in Approvals |-> Phase(a)], made <- made

RefinesOneShot == OneShot!Spec
=============================================================================
