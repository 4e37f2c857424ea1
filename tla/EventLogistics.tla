--------------------------- MODULE EventLogistics ----------------------------
(***************************************************************************)
(* event_logistics_v1: approvals that put one confirmed show in the        *)
(* Calendar (the Drive folder works alike), prepared per version of its     *)
(* facts and per attempt, executed once each, and linked to the show.       *)
(*                                                                          *)
(* The title, start, end and timezone are one number, the fingerprint; an   *)
(* approval is its source key <<fingerprint, attempt>>. Members edit the    *)
(* show, prepare, decide, execute and report what the provider shows while  *)
(* other requests are between two awaits.                                   *)
(***************************************************************************)
EXTENDS ApprovalRows

CONSTANTS
  Versions,      \* fingerprints the show may have
  MaxAttempts,   \* bound on the attempts per fingerprint
  MaxPrepared,   \* bound on the approvals
  Preparers,     \* prepareLogistics requests under way
  NoHold          \* no source key, no link

SourceKeys == Versions \X (1..MaxAttempts)

ASSUME LogisticsConstants ==
  MaxAttempts \in Nat \ {0} /\ MaxPrepared \in Nat /\ NoHold \notin SourceKeys

VARIABLES
  show,     \* version, confirmed; link: the approval whose resource is linked
  row,      \* row[k]: status, attempt, mode of the saved result, outcomes of receipts
  running,  \* running[k]: where the request that executes k is
  newer,    \* <<j, k>>: j was written (or reviewed) after k was
  reading,  \* reading[q]: the source key a preparer is about to create
  made      \* history: approvals whose provider write took effect for real

logisticsVars == <<show, row, running, newer, reading, made>>

NoRow == [status |-> "absent", attempt |-> "none", mode |-> "none", outcomes |-> {}]

LogisticsInit ==
  /\ show \in [version : Versions, confirmed : {FALSE}, link : {NoHold}]
  /\ row = [k \in SourceKeys |-> NoRow]
  /\ running = [k \in SourceKeys |-> "idle"]
  /\ newer = {}
  /\ reading = [q \in Preparers |-> NoHold]
  /\ made = {}

Prepared == {k \in SourceKeys : row[k].status # "absent"}

\* k becomes the most recent of all.
Touch(k) == newer' = {p \in newer : k \notin {p[1], p[2]}} \union {<<k, j>> : j \in Prepared \ {k}}

----------------------------------------------------------------------------
(* channelAssessment *)

Executed == {k \in Prepared : row[k].status = "executed"}
OfVersion(ks, v) == {k \in ks : k[1] = v}
Newest(ks) == CHOOSE k \in ks : \A j \in ks : j[2] <= k[2]
Latest(ks) == CHOOSE k \in ks : \A j \in ks \ {k} : <<k, j>> \in newer
LatestOr(ks) == IF ks = {} THEN NoHold ELSE Latest(ks)

RowState(k) ==
  LET r == row[k]
      open == NeedsReconciliation(r.status, r.attempt)
  IN  CASE open /\ "external_effect_observed" \in r.outcomes -> "reconciled_external_effect"
        [] open /\ "no_external_effect_observed" \in r.outcomes -> "reconciled_no_external_effect"
        [] LeaseActive(r.status, r.attempt) -> "execution_in_progress"
        [] r.status = "approved" /\ r.attempt = "expired" -> "execution_unknown"
        [] OTHER -> r.status

\* States of an attempt that stay in the way when the show changes.
Ambiguous == {"execution_in_progress", "execution_unknown", "failed",
              "reconciled_external_effect"}

Simulated(k) == row[k].status = "executed" /\ row[k].mode = "mock"

Current == IF OfVersion(Prepared, show.version) = {} THEN NoHold
           ELSE Newest(OfVersion(Prepared, show.version))

CompletedBy ==
  IF show.link = NoHold THEN NoHold
  ELSE IF Current \in Executed THEN Current ELSE show.link

Quarantined ==
  LET candidate == LatestOr({k \in Prepared : RowState(k) \in Ambiguous})
  IN  IF candidate # NoHold /\ (CompletedBy = NoHold \/ <<candidate, CompletedBy>> \in newer)
      THEN candidate ELSE NoHold

LinkIsStale ==
  Executed # {} /\ OfVersion(Executed, show.version) = {}

\* The row shown for a channel with no approval of this version. Which of two with
\* as many attempts it is decides what is shown, never what may be prepared.
Fallback == LET highest == {k \in Prepared : \A j \in Prepared : j[2] <= k[2]}
            IN  Latest(highest)

ChannelState ==
  CASE Quarantined # NoHold -> RowState(Quarantined)
    [] Quarantined = NoHold /\ show.link # NoHold ->
         IF LinkIsStale THEN "stale"
         ELSE IF Current # NoHold /\ Simulated(Current) THEN "simulated" ELSE "complete"
    [] OTHER ->
         IF Current # NoHold THEN RowState(Current)
         ELSE IF Prepared = {} THEN "not_prepared"
         ELSE IF RowState(Fallback) = "reconciled_no_external_effect" THEN RowState(Fallback)
         ELSE "stale"

Preparable == ChannelState = "not_prepared" \/ (ChannelState = "stale" /\ show.link = NoHold)

\* Mistake: a failed call is read as a call that did nothing.
Retryable_Failed ==
  ChannelState \in {"rejected", "failed", "simulated", "reconciled_no_external_effect"}

Retryable == ChannelState \in {"rejected", "simulated", "reconciled_no_external_effect"}

NextAttempt == IF Current = NoHold THEN 1 ELSE Current[2] + 1

----------------------------------------------------------------------------
(* Editing, preparing and deciding *)

EditShow ==
  /\ show' \in [version : Versions, confirmed : BOOLEAN, link : {show.link}]
  /\ UNCHANGED <<row, running, newer, reading, made>>

\* prepareLogistics: the plan is made from what was read ...
ReadPlan(q) ==
  /\ reading[q] = NoHold
  /\ show.confirmed /\ (Preparable \/ Retryable) /\ NextAttempt <= MaxAttempts
  /\ reading' = [reading EXCEPT ![q] = <<show.version, NextAttempt>>]
  /\ UNCHANGED <<show, row, running, newer, made>>

\* ... and createMany upserts by source key: a row already there is returned.
CreatePlanned(q) ==
  LET k == reading[q]
  IN  /\ k # NoHold
      /\ Cardinality(Prepared \union {k}) <= MaxPrepared
      /\ IF row[k].status = "absent"
         THEN row' = [row EXCEPT ![k].status = "pending"] /\ Touch(k)
         ELSE UNCHANGED <<row, newer>>
      /\ reading' = [reading EXCEPT ![q] = NoHold]
      /\ UNCHANGED <<show, running, made>>

Write(k, r) == row' = [row EXCEPT ![k] = r] /\ Touch(k)

Decide(k) ==
  /\ row[k].status = "pending"
  /\ \E decision \in {"approved", "rejected"} : Write(k, [row[k] EXCEPT !.status = decision])
  /\ UNCHANGED <<show, running, reading, made>>

----------------------------------------------------------------------------
(* Executing: the claim, the check, the provider, the link. *)

Claim(k) ==
  /\ row[k].status = "approved" /\ row[k].attempt = "none"
  /\ Write(k, [row[k] EXCEPT !.attempt = "leased"])
  /\ running' = [running EXCEPT ![k] = "claimed"]
  /\ UNCHANGED <<show, reading, made>>

\* Mistake: a link is overwritten whatever put it there.
MayLink_Always(k) == show.confirmed /\ show.version = k[1]

\* assertCurrentEventLogistics, and again inside the transaction that links.
MayLink(k) ==
  /\ show.confirmed /\ show.version = k[1]
  /\ show.link # NoHold => Simulated(show.link)

Fail(k, mode) == Write(k, [row[k] EXCEPT !.status = "failed", !.mode = mode])

Check(k) ==
  /\ running[k] = "claimed"
  /\ IF MayLink(k)
     THEN running' = [running EXCEPT ![k] = "checked"] /\ UNCHANGED <<row, newer>>
     ELSE running' = [running EXCEPT ![k] = "idle"] /\ Fail(k, "none")
  /\ UNCHANGED <<show, reading, made>>

\* The provider answers, fails before it acts, or acts and its answer is lost.
CallProvider(k, reply) ==
  /\ running[k] = "checked"
  /\ made' = IF reply \in {"real", "lost"} THEN made \union {k} ELSE made
  /\ IF reply \in {"real", "mock"}
     THEN running' = [running EXCEPT ![k] = reply] /\ UNCHANGED <<row, newer>>
     ELSE running' = [running EXCEPT ![k] = "idle"] /\ Fail(k, "none")
  /\ UNCHANGED <<show, reading>>

Finalize(k) ==
  /\ running[k] \in {"real", "mock"}
  /\ IF MayLink(k)
     THEN Write(k, [row[k] EXCEPT !.status = "executed", !.mode = running[k]])
            /\ show' = [show EXCEPT !.link = k]
     ELSE Fail(k, running[k]) /\ UNCHANGED show
  /\ running' = [running EXCEPT ![k] = "idle"]
  /\ UNCHANGED <<reading, made>>

\* The process that executes k dies: the claim stays.
Die(k) ==
  /\ running[k] # "idle"
  /\ running' = [running EXCEPT ![k] = "idle"]
  /\ UNCHANGED <<show, row, newer, reading, made>>

\* An execution is over, one way or the other, within its hour.
LeaseEnds(k) ==
  /\ row[k].attempt = "leased" /\ running[k] = "idle"
  /\ row' = [row EXCEPT ![k].attempt = "expired"]
  /\ UNCHANGED <<show, running, newer, reading, made>>

\* recordReconciliation: one conclusive receipt, true to the provider.
Reconcile(k) ==
  /\ NeedsReconciliation(row[k].status, row[k].attempt) /\ ~IsTerminal(row[k].outcomes)
  /\ ~LeaseActive(row[k].status, row[k].attempt)
  /\ LET seen == IF k \in made THEN "external_effect_observed" ELSE "no_external_effect_observed"
     IN  Write(k, [row[k] EXCEPT !.outcomes = {seen}])
  /\ UNCHANGED <<show, running, reading, made>>

Executing(k) ==
  \/ Claim(k) \/ Check(k) \/ Finalize(k) \/ Die(k) \/ LeaseEnds(k)
  \/ \E reply \in {"real", "mock", "lost", "error"} : CallProvider(k, reply)

LogisticsNext ==
  \/ EditShow
  \/ \E q \in Preparers : ReadPlan(q) \/ CreatePlanned(q)
  \/ \E k \in SourceKeys : Decide(k) \/ Executing(k) \/ Reconcile(k)

LogisticsSpec == LogisticsInit /\ [][LogisticsNext]_logisticsVars

----------------------------------------------------------------------------
LogisticsTypeOK ==
  /\ show \in [version : Versions, confirmed : BOOLEAN, link : SourceKeys \union {NoHold}]
  /\ row \in [SourceKeys ->
       [status : Statuses, attempt : Attempts, mode : {"none", "real", "mock"},
        outcomes : SUBSET Conclusive]]
  /\ running \in [SourceKeys -> {"idle", "claimed", "checked", "real", "mock"}]
  /\ newer \subseteq SourceKeys \X SourceKeys
  /\ reading \in [Preparers -> SourceKeys \union {NoHold}]
  /\ made \subseteq SourceKeys

\* However edits, stale plans, retries and lost answers interleave, one version of
\* the show is put in the provider at most once, because what may have taken effect
\* is never prepared again (planEventLogisticsApprovals); and nothing real is lost from
\* sight: what took effect is the link of the show, or still being executed, or an
\* attempt that asks to be reconciled (finalizeEventLogisticsExecution).
HoldsAccountedFor ==
  /\ \A j, k \in made : j[1] = k[1] => j = k
  /\ \A k \in made :
       \/ show.link = k
       \/ running[k] # "idle"
       \/ NeedsReconciliation(row[k].status, row[k].attempt)

\* docs/domain-model.md: "Rejection and mock simulation can be explicitly prepared
\* again". A confirmed show that stands on a simulation, with nothing under way or
\* waiting for a member, can be prepared.
SimulationCanBeReplaced ==
  /\ show.confirmed /\ show.link # NoHold /\ show.link[1] = show.version
  /\ Simulated(show.link)
  /\ \A k \in Prepared : row[k].status \in {"executed", "rejected"}
  => Preparable \/ Retryable
=============================================================================
