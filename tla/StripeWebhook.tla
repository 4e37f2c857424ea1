---------------------------- MODULE StripeWebhook ----------------------------
(***************************************************************************)
(* One Stripe event and the deliveries of it, as                             *)
(* StripeWebhookIdempotencyService.runOnce handles them: a Serializable      *)
(* transaction claims the event id, marks it applied, runs the handler,      *)
(* marks it completed and commits.  Stripe delivers again whatever was not   *)
(* answered with success, and sometimes what was.                            *)
(*                                                                          *)
(* PostgreSQL is modelled by what it does here.  A transaction reads the row *)
(* as it was at its first statement; a commit by another one since then      *)
(* makes its write or lock fail (40001), which stale records.  A transaction *)
(* that has written the row, or locked it, is the holder; an INSERT waits    *)
(* for one that has written, FOR UPDATE NOWAIT fails for both.               *)
(***************************************************************************)
EXTENDS Naturals, FiniteSets

CONSTANTS
  Deliveries,  \* requests Stripe may have open at once; each serves again when it is done
  MaxFailures, \* bound: rollbacks and lost answers in a behaviour
  Nobody       \* no delivery: the owner of a claim left by an earlier process

StripeConstants == Nobody \notin Deliveries /\ MaxFailures \in Nat

VARIABLES
  row,      \* the committed StripeWebhookEvent
  lapsed,   \* the lease of the committed row is over
  holder,   \* the delivery whose transaction has inserted or locked the row
  tx,       \* [Deliveries -> transaction]: pc, what it will commit (draft), what it has seen
  effects,  \* how many times the handler's writes were committed
  acked,    \* Stripe has been told that the event is taken care of
  failures  \* rollbacks and lost answers so far

vars == <<row, lapsed, holder, tx, effects, acked, failures>>

-----------------------------------------------------------------------------
Rows == [status : {"absent", "processing", "completed"}, applied : BOOLEAN,
         owner : Deliveries \union {Nobody}]

Absent == [status |-> "absent", applied |-> FALSE, owner |-> Nobody]

ClaimBy_Claimed(d) == [status |-> "claimed", applied |-> FALSE, owner |-> d]

\* The row insertClaimIfAbsent writes, and what a reclaim makes of an old one.
ClaimBy(d) == [status |-> "processing", applied |-> FALSE, owner |-> d]

\* Rows left by processes that did not commit claim and completion together.
Leftovers == {r \in Rows : r.status = "processing" /\ r.owner = Nobody}

PCs == {"idle", "insert", "lock", "promote", "reclaim", "apply", "work", "complete", "commit"}

Idle == [pc |-> "idle", draft |-> Absent, worked |-> FALSE, stale |-> FALSE, sawLapsed |-> FALSE]

TypeOK ==
  /\ row \in Rows
  /\ lapsed \in BOOLEAN
  /\ holder \in Deliveries \union {Nobody}
  /\ tx \in [Deliveries -> [pc : PCs, draft : Rows, worked : BOOLEAN,
                            stale : BOOLEAN, sawLapsed : BOOLEAN]]
  /\ effects \in Nat
  /\ acked \in BOOLEAN
  /\ failures \in 0..MaxFailures

\* A handler whose writes are already in the database left an applied row.
Init ==
  /\ row \in {Absent} \union Leftovers
  /\ lapsed = FALSE
  /\ holder = Nobody
  /\ tx = [d \in Deliveries |-> Idle]
  /\ effects = IF row.applied THEN 1 ELSE 0
  /\ acked = FALSE
  /\ failures = 0

Goto(d, pc) == tx' = [tx EXCEPT ![d].pc = pc]
Write(d, draft, pc) == tx' = [tx EXCEPT ![d].draft = draft, ![d].pc = pc]

\* The transaction ends without effect; its lock goes with it.
Leave(d) ==
  /\ tx' = [tx EXCEPT ![d] = Idle]
  /\ holder' = IF holder = d THEN Nobody ELSE holder

-----------------------------------------------------------------------------
(* claim *)

\* A request arrives; now is read before the first statement, the snapshot
\* taken with it.
Begin(d) ==
  /\ tx[d].pc = "idle"
  /\ tx' = [tx EXCEPT ![d] = [Idle EXCEPT !.pc = "insert", !.sawLapsed = lapsed]]
  /\ UNCHANGED <<row, lapsed, holder, effects, acked, failures>>

\* An uncommitted version of the row makes an INSERT wait.
MustWait == holder # Nobody /\ tx[holder].pc \in {"apply", "work", "complete", "commit"}

InsertClaim(d) ==
  /\ tx[d].pc = "insert"
  /\ ~MustWait
  /\ row.status = "absent"
  /\ holder' = d
  /\ Write(d, ClaimBy(d), "apply")
  /\ UNCHANGED <<row, lapsed, effects, acked, failures>>

InsertConflicts(d) ==
  /\ tx[d].pc = "insert"
  /\ ~MustWait
  /\ row.status # "absent"
  /\ ~tx[d].stale
  /\ Goto(d, "lock")
  /\ UNCHANGED <<row, lapsed, holder, effects, acked, failures>>

Free_Ignored == TRUE
Free == holder = Nobody

Handled_StatusOnly == row.status = "completed"
Handled_Claimed == row.status # "absent"
Handled == row.status = "completed" \/ row.applied
Reclaimable(d) == row.status = "processing" /\ ~row.applied /\ tx[d].sawLapsed

OnRow_LeaseFirst(d) == IF tx[d].sawLapsed THEN "reclaim"
                        ELSE IF Handled THEN "promote" ELSE "in flight"

\* What the locked row says.
OnRow(d) == IF Handled THEN "promote"
            ELSE IF Reclaimable(d) THEN "reclaim" ELSE "in flight"

\* FOR UPDATE NOWAIT
LockRow(d) ==
  /\ tx[d].pc = "lock"
  /\ Free
  /\ ~tx[d].stale
  /\ holder' = d
  /\ OnRow(d) # "in flight"
  /\ Write(d, row, OnRow(d))
  /\ UNCHANGED <<row, lapsed, effects, acked, failures>>

Reclaim(d) ==
  /\ tx[d].pc = "reclaim"
  /\ Write(d, ClaimBy(d), "apply")
  /\ UNCHANGED <<row, lapsed, holder, effects, acked, failures>>

\* A version the snapshot does not show, a row locked by another delivery, or a
\* lease that was not over when this one began: 503, and Stripe tries again.
InFlight(d) ==
  /\ \/ tx[d].pc = "insert" /\ ~MustWait /\ tx[d].stale
     \/ tx[d].pc = "lock" /\ (~Free \/ tx[d].stale \/ OnRow(d) = "in flight")
  /\ Leave(d)
  /\ UNCHANGED <<row, lapsed, effects, acked, failures>>

-----------------------------------------------------------------------------
(* the claimed event *)

Owned(d) == tx[d].draft.owner = d /\ tx[d].draft.status = "processing"

MarkApplied(d) ==
  /\ tx[d].pc = "apply"
  /\ Owned(d)
  /\ ~tx[d].draft.applied
  /\ Write(d, [tx[d].draft EXCEPT !.applied = TRUE], "work")
  /\ UNCHANGED <<row, lapsed, holder, effects, acked, failures>>

\* The processor, with what it writes through the transaction it is given.
Work(d) ==
  /\ tx[d].pc = "work"
  /\ tx' = [tx EXCEPT ![d].worked = TRUE, ![d].pc = "complete"]
  /\ UNCHANGED <<row, lapsed, holder, effects, acked, failures>>

MarkCompleted(d) ==
  /\ tx[d].pc = "complete"
  /\ Owned(d)
  /\ tx[d].draft.applied
  /\ Write(d, [tx[d].draft EXCEPT !.status = "completed"], "commit")
  /\ UNCHANGED <<row, lapsed, holder, effects, acked, failures>>

\* A failed promotion is logged and swallowed: the row stays as it was.
PromoteApplied(d) ==
  /\ tx[d].pc = "promote"
  /\ \/ Write(d, [row EXCEPT !.status = "completed"], "commit")
     \/ Goto(d, "commit")
  /\ UNCHANGED <<row, lapsed, holder, effects, acked, failures>>

Fail == failures < MaxFailures /\ failures' = failures + 1

\* What other open transactions have read is now an older version.
Outdated(d) ==
  [c \in Deliveries |->
     IF c = d THEN Idle
     ELSE [tx[c] EXCEPT !.stale = tx[c].pc # "idle" /\ (tx[c].stale \/ tx[d].draft # row)]]

\* Claim, handler, appliedAt and completed commit together; the answer may be lost.
Commit(d) ==
  /\ tx[d].pc = "commit"
  /\ row' = tx[d].draft
  /\ holder' = Nobody
  /\ effects' = effects + (IF tx[d].worked THEN 1 ELSE 0)
  /\ tx' = Outdated(d)
  /\ \/ acked' = TRUE /\ UNCHANGED failures
     \/ Fail /\ UNCHANGED acked
  /\ UNCHANGED lapsed

\* The handler or a statement throws, the transaction times out or loses a
\* serialization conflict, or the process dies: everything is rolled back.
Rollback(d) ==
  /\ tx[d].pc # "idle"
  /\ Fail
  /\ Leave(d)
  /\ UNCHANGED <<row, lapsed, effects, acked>>

LeaseEnds ==
  /\ row.status = "processing"
  /\ ~lapsed
  /\ lapsed' = TRUE
  /\ UNCHANGED <<row, holder, tx, effects, acked, failures>>

-----------------------------------------------------------------------------
\* What a request does by itself once it has been received.
Step(d) ==
  \/ InsertClaim(d) \/ InsertConflicts(d) \/ LockRow(d) \/ Reclaim(d) \/ InFlight(d)
  \/ MarkApplied(d) \/ Work(d) \/ MarkCompleted(d) \/ PromoteApplied(d) \/ Commit(d)

Next ==
  \/ \E d \in Deliveries : Begin(d) \/ Step(d) \/ Rollback(d)
  \/ LeaseEnds

Spec == Init /\ [][Next]_vars

\* Stripe delivers again until it is told; a request goes on by itself, for
\* every statement of it has a timeout; a lease ends.  That failures are
\* finitely many is MaxFailures.
Fairness ==
  /\ WF_vars(\E d \in Deliveries : ~acked /\ Begin(d))
  /\ \A d \in Deliveries : WF_vars(Step(d))
  /\ WF_vars(LeaseEnds)

FairSpec == Spec /\ Fairness

-----------------------------------------------------------------------------
(* Properties *)

\* The handler's writes are committed at most once, whatever is delivered twice,
\* retried or racing, and never for an event an earlier process had applied
\* (docs/auth-operators.md:72: the claim, the handler and appliedAt are one
\* transaction).
AppliedOnce == effects <= 1

\* Stripe is told that an event is taken care of, and a row called completed or
\* applied, only when its effect is in the database: nothing is acknowledged on
\* the strength of a claim alone.
AckedIsApplied == (acked \/ row.applied \/ row.status = "completed") => effects = 1

\* An expired lease does not start a second handler while the first still holds
\* the row (docs/package-map.md:130).
OneHandler ==
  Cardinality({d \in Deliveries : tx[d].pc \in {"apply", "work", "complete"}}) <= 1

\* An event is never wedged: a claim that nobody finishes lapses and is taken
\* over, an applied one is promoted, and in the end Stripe is told.
Delivered == <>(acked /\ effects = 1)
=============================================================================
