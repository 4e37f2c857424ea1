---------------------------- MODULE ManagerProofs ----------------------------
(***************************************************************************)
(* Theorems about ManagerReceipts, for any approvals, action types and     *)
(* requests, about ManagerDecisions, for any decisions, options and        *)
(* requests, about ManagerAcceptance, for any recommendations, answers and  *)
(* edits of the band, and about ManagerChat, for any questions asked at once *)
(* and any sizes of what is read and shown.                                *)
(***************************************************************************)
EXTENDS ManagerReceipts, ManagerDecisions, ManagerAcceptance, ManagerChat, WellFoundedInduction, TLAPS

-----------------------------------------------------------------------------
(* What the first case that applies is *)

Applies(cases, i) == cases[i][1] /\ \A j \in 1..(i - 1) : ~cases[j][1]

LEMMA FirstCase ==
  ASSUME NEW n \in Nat, NEW cases, DOMAIN cases = 1..n, NEW i \in 1..n, Applies(cases, i)
  PROVE  FirstOf(cases) = cases[i][2]
<1>1. ASSUME NEW k \in 1..n, Applies(cases, k) PROVE k = i
  <2>1. ~(k < i)
    BY <1>1 DEF Applies
  <2>2. ~(i < k)
    BY <1>1 DEF Applies
  <2> QED BY <2>1, <2>2
<1>2. (CHOOSE k \in 1..n : Applies(cases, k)) = i
  BY <1>1
<1> QED BY <1>2 DEF FirstOf, Applies

\* One of at most eleven cases applies first if the last one always does.
LEMMA SomeCase ==
  ASSUME NEW n \in 1..11, NEW cases, DOMAIN cases = 1..n, cases[n][1]
  PROVE  \E i \in 1..n : Applies(cases, i) /\ FirstOf(cases) = cases[i][2]
<1> SUFFICES ASSUME \A i \in 1..n : ~Applies(cases, i) PROVE FALSE
  BY FirstCase
<1> DEFINE Not(k) == \A j \in 1..k : j \in 1..n => ~cases[j][1]
<1>1. ASSUME NEW k \in 0..10, Not(k) PROVE Not(k + 1)
  <2>1. CASE k + 1 \notin 1..n
    BY <1>1, <2>1
  <2>2. CASE k + 1 \in 1..n
    <3>1. ~Applies(cases, k + 1)
      BY <2>2
    <3>2. \A j \in 1..k : ~cases[j][1]
      BY <1>1, <2>2
    <3>3. ~cases[k + 1][1]
      BY <3>1, <3>2 DEF Applies
    <3> QED BY <1>1, <3>3
  <2> QED BY <2>1, <2>2
<1> HIDE DEF Not
<1>2. Not(0)
  BY DEF Not
<1>3. Not(1) /\ Not(2) /\ Not(3) /\ Not(4) /\ Not(5) /\ Not(6)
  BY <1>1, <1>2
<1>4. Not(7) /\ Not(8) /\ Not(9) /\ Not(10) /\ Not(11)
  BY <1>1, <1>3
<1> QED BY <1>4 DEF Not

LEMMA Eleven ==
  ASSUME NEW a1, NEW a2, NEW a3, NEW a4, NEW a5,
         NEW b1, NEW b2, NEW b3, NEW b4, NEW b5, NEW b6, NEW s,
         s = <<a1, a2, a3, a4, a5>> \o <<b1, b2, b3, b4, b5, b6>>
  PROVE  /\ DOMAIN s = 1..11
         /\ s[1] = a1 /\ s[2] = a2 /\ s[3] = a3 /\ s[4] = a4 /\ s[5] = a5
         /\ s[6] = b1 /\ s[7] = b2 /\ s[8] = b3 /\ s[9] = b4 /\ s[10] = b5 /\ s[11] = b6
OBVIOUS

-----------------------------------------------------------------------------
(* The receipt of a recommendation that is carried by approvals *)

Tried == FirstOf(AttemptCases \o ProgressCases)

Leased(a) == LeaseActive(rows[a].status, rows[a].attempt)
AllExecuted == \A a \in linked : rows[a].status = "executed"
Simulated == rec.outcome = "blocked" /\ rec.reason = "approval_simulated"

\* What makes an approval speak before its progress does.
Quarantined ==
  \/ Has("external_effect_observed") \/ Has("no_external_effect_observed")
  \/ \E a \in linked : Leased(a) \/ Unresolved(rows[a])

\* The cases, in words.
TriedIs ==
  \/ Quarantined /\ Tried.state \in {"blocked", "in_motion"}
       /\ Tried.stage \in {"reconciled", "execution_in_progress", "execution_unknown", "approval_failed"}
  \/ ~Quarantined /\ (\E a \in linked : rows[a].status \in {"rejected", "expired"})
       /\ Tried = Receipt("blocked", "approval_rejected")
  \/ ~Quarantined /\ Simulated /\ Tried = Receipt("blocked", "approval_simulated")
  \/ ~Quarantined /\ ~Simulated /\ AllExecuted /\ Tried = Receipt("completed", "all_executed")
  \/ Tried.state = "needs_action" /\ Tried.stage \in {"awaiting_approval", "awaiting_execution"}
       /\ ~Quarantined /\ ~Simulated
  \/ /\ ~Quarantined /\ ~Simulated /\ Tried = Receipt("completed", "internal_change_complete")
     /\ \A a \in linked : /\ rows[a].status \notin {"rejected", "expired", "proposed", "pending"}
                          /\ ~Ready(a)

LEMMA TriedCases == TriedIs
<1> DEFINE
      a1 == <<Has("external_effect_observed"), Receipt("blocked", "reconciled")>>
      a2 == <<\E a \in linked : Leased(a), Receipt("in_motion", "execution_in_progress")>>
      a3 == <<\E a \in linked : rows[a].status = "approved" /\ Unresolved(rows[a]), Receipt("blocked", "execution_unknown")>>
      a4 == <<\E a \in linked : Unresolved(rows[a]), Receipt("blocked", "approval_failed")>>
      a5 == <<Has("no_external_effect_observed"), Receipt("blocked", "reconciled")>>
      b1 == <<\E a \in linked : rows[a].status \in {"rejected", "expired"}, Receipt("blocked", "approval_rejected")>>
      b2 == <<rec.outcome = "blocked" /\ rec.reason = "approval_simulated", Receipt("blocked", "approval_simulated")>>
      b3 == <<\A a \in linked : rows[a].status = "executed", Receipt("completed", "all_executed")>>
      b4 == <<\E a \in linked : rows[a].status \in {"proposed", "pending"}, Receipt("needs_action", "awaiting_approval")>>
      b5 == <<\E a \in linked : Ready(a), Receipt("needs_action", "awaiting_execution")>>
      b6 == <<TRUE, Receipt("completed", "internal_change_complete")>>
      s == AttemptCases \o ProgressCases
<1>1. s = <<a1, a2, a3, a4, a5>> \o <<b1, b2, b3, b4, b5, b6>>
  BY DEF AttemptCases, ProgressCases, Some, Leased
<1>2. /\ a1[1] <=> Has("external_effect_observed")
      /\ a2[1] <=> \E a \in linked : Leased(a)
      /\ a4[1] <=> \E a \in linked : Unresolved(rows[a])
      /\ a5[1] <=> Has("no_external_effect_observed")
      /\ a3[1] => a4[1]
  OBVIOUS
<1>3. /\ b1[1] <=> \E a \in linked : rows[a].status \in {"rejected", "expired"}
      /\ b2[1] <=> Simulated
      /\ b3[1] <=> AllExecuted
      /\ b4[1] <=> \E a \in linked : rows[a].status \in {"proposed", "pending"}
      /\ b5[1] <=> \E a \in linked : Ready(a)
      /\ b6[1]
  BY DEF Simulated, AllExecuted
<1>4. /\ a1[2] = Receipt("blocked", "reconciled")
      /\ a2[2] = Receipt("in_motion", "execution_in_progress")
      /\ a3[2] = Receipt("blocked", "execution_unknown")
      /\ a4[2] = Receipt("blocked", "approval_failed")
      /\ a5[2] = Receipt("blocked", "reconciled")
      /\ b1[2] = Receipt("blocked", "approval_rejected")
      /\ b2[2] = Receipt("blocked", "approval_simulated")
      /\ b3[2] = Receipt("completed", "all_executed")
      /\ b4[2] = Receipt("needs_action", "awaiting_approval")
      /\ b5[2] = Receipt("needs_action", "awaiting_execution")
      /\ b6[2] = Receipt("completed", "internal_change_complete")
  OBVIOUS
<1>5. Tried = FirstOf(s)
  BY DEF Tried
<1> HIDE DEF a1, a2, a3, a4, a5, b1, b2, b3, b4, b5, b6, s
<1>6. /\ DOMAIN s = 1..11
      /\ s[1] = a1 /\ s[2] = a2 /\ s[3] = a3 /\ s[4] = a4 /\ s[5] = a5
      /\ s[6] = b1 /\ s[7] = b2 /\ s[8] = b3 /\ s[9] = b4 /\ s[10] = b5 /\ s[11] = b6
  BY <1>1, Eleven
<1> PICK i \in 1..11 : Applies(s, i) /\ Tried = s[i][2]
  BY <1>3, <1>5, <1>6, SomeCase
<1>7. s[i][1] /\ \A j \in 1..(i - 1) : ~s[j][1]
  BY DEF Applies
<1>8. CASE i \in 1..5
  <2>1. Quarantined
    BY <1>2, <1>6, <1>7, <1>8 DEF Quarantined
  <2>2. Tried \in {a1[2], a2[2], a3[2], a4[2], a5[2]}
    BY <1>6, <1>8
  <2> QED BY <1>4, <2>1, <2>2 DEF TriedIs, Receipt
<1>9. CASE i \in 6..11
  <2>1. ~a1[1] /\ ~a2[1] /\ ~a4[1] /\ ~a5[1]
    BY <1>6, <1>7, <1>9
  <2>2. ~Quarantined
    BY <1>2, <2>1 DEF Quarantined
  <2>3. i # 6 => ~b1[1]
    BY <1>6, <1>7, <1>9
  <2>4. i \notin {6, 7} => ~b2[1]
    BY <1>6, <1>7, <1>9
  <2>5. i = 11 => ~b4[1] /\ ~b5[1]
    BY <1>6, <1>7
  <2>6. CASE i = 6
    BY <1>3, <1>4, <1>6, <1>7, <2>2, <2>6 DEF TriedIs
  <2>7. CASE i = 7
    BY <1>3, <1>4, <1>6, <1>7, <2>2, <2>7 DEF TriedIs
  <2>8. CASE i = 8
    BY <1>3, <1>4, <1>6, <1>7, <2>2, <2>4, <2>8 DEF TriedIs
  <2>9. CASE i \in {9, 10}
    BY <1>3, <1>4, <1>6, <1>7, <2>2, <2>4, <2>9 DEF TriedIs, Receipt
  <2>10. CASE i = 11
    BY <1>3, <1>4, <1>6, <1>7, <2>2, <2>3, <2>4, <2>5, <2>10 DEF TriedIs
  <2> QED BY <1>9, <2>6, <2>7, <2>8, <2>9, <2>10
<1> QED BY <1>8, <1>9

-----------------------------------------------------------------------------
(* The receipt of any recommendation *)

Reconciled == rec.outcome = "completed" /\ rec.reason = "reconciled"

Untold == {"needs_tracking", "approval_simulated", "all_executed"}

LEMMA RecordCases ==
  ASSUME record.kind \in DOMAIN RecordStates
  PROVE  /\ RecordReceipt.state = "completed" => record.status \in Settled
         /\ RecordReceipt.stage \notin Untold
<1> DEFINE
      c1 == <<record.status \in Settled, Receipt("completed", "internal_change_complete")>>
      c2 == <<record.status \in {"waiting", "blocked", "paused", "cancelled"}, Receipt("blocked", record.kind)>>
      c3 == <<record.kind = "decision" /\ record.status # "decided", Receipt("needs_action", "decision_needed")>>
      c4 == <<TRUE, Receipt("in_motion", record.kind)>>
      s == <<c1, c2, c3, c4>>
<1>1. RecordReceipt = FirstOf(s)
  BY DEF RecordReceipt
<1>2. /\ c1[1] <=> record.status \in Settled
      /\ c4[1]
      /\ c1[2] = Receipt("completed", "internal_change_complete")
      /\ c2[2] = Receipt("blocked", record.kind)
      /\ c3[2] = Receipt("needs_action", "decision_needed")
      /\ c4[2] = Receipt("in_motion", record.kind)
  OBVIOUS
<1> HIDE DEF c1, c2, c3, c4
<1>3. DOMAIN s = 1..4 /\ s[1] = c1 /\ s[2] = c2 /\ s[3] = c3 /\ s[4] = c4
  OBVIOUS
<1> HIDE DEF s
<1> PICK i \in 1..4 : Applies(s, i) /\ RecordReceipt = s[i][2]
  BY <1>1, <1>2, <1>3, SomeCase
<1>4. record.kind \in {"task", "decision", "project", "event", "memory", "none"}
  BY DEF RecordStates
<1>5. i = 1 => record.status \in Settled
  BY <1>2, <1>3 DEF Applies
<1>6. RecordReceipt \in {c1[2], c2[2], c3[2], c4[2]} /\ (i # 1 => RecordReceipt \in {c2[2], c3[2], c4[2]})
  BY <1>3
<1> QED BY <1>2, <1>4, <1>5, <1>6 DEF Receipt, Untold

FollowIs ==
  \/ Reconciled /\ FollowThrough = Receipt("completed", "reconciled")
  \/ ~Reconciled /\ linked # {} /\ FollowThrough = Tried
  \/ /\ linked = {} /\ rec.outcome = "blocked"
     /\ FollowThrough = Receipt("blocked", "needs_tracking")
  \/ linked = {} /\ HasRecord /\ FollowThrough = RecordReceipt
  \/ linked = {} /\ ~HasRecord /\ FollowThrough.stage \notin {"approval_simulated", "all_executed"}
       /\ FollowThrough.state \in {"completed", "needs_action"}
       /\ rec.outcome # "blocked"

LEMMA FollowCases == FollowIs
<1> DEFINE
      c1 == <<rec.outcome = "completed" /\ rec.reason = "reconciled", Receipt("completed", "reconciled")>>
      c2 == <<linked # {}, Tried>>
      c3 == <<rec.outcome = "blocked", Receipt("blocked", "needs_tracking")>>
      c4 == <<HasRecord, RecordReceipt>>
      c5 == <<rec.outcome \in {"completed", "dismissed"}, Receipt("completed", "internal_change_complete")>>
      c6 == <<rec.outcome = "suggested" /\ rec.carrier # "advice", Receipt("needs_action", "ready_for_review")>>
      c7 == <<TRUE, Receipt("needs_action", "needs_tracking")>>
      s == <<c1, c2, c3, c4, c5, c6, c7>>
<1>1. FollowThrough = FirstOf(s)
  BY DEF FollowThrough, Tried
<1>2. /\ c1[1] <=> Reconciled
      /\ c2[1] <=> linked # {}
      /\ c3[1] <=> rec.outcome = "blocked"
      /\ c4[1] <=> HasRecord
      /\ c7[1]
  BY DEF Reconciled
<1>3. /\ c1[2] = Receipt("completed", "reconciled")
      /\ c2[2] = Tried
      /\ c3[2] = Receipt("blocked", "needs_tracking")
      /\ c4[2] = RecordReceipt
      /\ c5[2] = Receipt("completed", "internal_change_complete")
      /\ c6[2] = Receipt("needs_action", "ready_for_review")
      /\ c7[2] = Receipt("needs_action", "needs_tracking")
  OBVIOUS
<1> HIDE DEF c1, c2, c3, c4, c5, c6, c7
<1>4. /\ DOMAIN s = 1..7
      /\ s[1] = c1 /\ s[2] = c2 /\ s[3] = c3 /\ s[4] = c4 /\ s[5] = c5 /\ s[6] = c6 /\ s[7] = c7
  OBVIOUS
<1> HIDE DEF s
<1> PICK i \in 1..7 : Applies(s, i) /\ FollowThrough = s[i][2]
  BY <1>1, <1>2, <1>4, SomeCase
<1>5. s[i][1] /\ \A j \in 1..(i - 1) : ~s[j][1]
  BY DEF Applies
<1>6. CASE i = 1
  BY <1>2, <1>3, <1>4, <1>5, <1>6 DEF FollowIs
<1>7. CASE i = 2
  <2>1. ~c1[1]
    BY <1>4, <1>5, <1>7
  <2> QED BY <1>2, <1>3, <1>4, <1>5, <1>7, <2>1 DEF FollowIs
<1>8. CASE i \in 3..7
  <2>1. ~c1[1] /\ ~c2[1]
    BY <1>4, <1>5, <1>8
  <2>2. i # 3 => ~c3[1]
    BY <1>4, <1>5, <1>8
  <2>3. i \notin {3, 4} => ~c4[1]
    BY <1>4, <1>5, <1>8
  <2>4. CASE i = 3
    BY <1>2, <1>3, <1>4, <1>5, <2>1, <2>4 DEF FollowIs
  <2>5. CASE i = 4
    BY <1>2, <1>3, <1>4, <1>5, <2>1, <2>5 DEF FollowIs
  <2>6. CASE i \in 5..7
    <3>1. FollowThrough \in {c5[2], c6[2], c7[2]}
      BY <1>4, <2>6
    <3>2. /\ FollowThrough.stage \notin {"approval_simulated", "all_executed"}
          /\ FollowThrough.state \in {"completed", "needs_action"}
      BY <1>3, <3>1 DEF Receipt
    <3> QED BY <1>2, <2>1, <2>2, <2>3, <2>6, <3>2 DEF FollowIs
  <2> QED BY <1>8, <2>4, <2>5, <2>6
<1> QED BY <1>6, <1>7, <1>8

-----------------------------------------------------------------------------
(* What is always so *)

Wishes == {"accepted", "dismissed", "completed", "reconciled"}
RowTypes == [status : Statuses, attempt : Attempts, outcomes : SUBSET Outcomes, simulated : BOOLEAN]
OtherReasons == {"accepted", "dismissed", "completed", "reconciled"}

AnyReason == Reasons \union OtherReasons

ReadingTypes ==
  [step : {"none", "rec", "all"}, rec : [outcome : RecommendationOutcomes, reason : AnyReason],
   rows : UNION {[S -> RowTypes] : S \in SUBSET Approvals}]

ReceiptTypeOK ==
  /\ rec \in [outcome : RecommendationOutcomes, reason : Reasons \union OtherReasons,
              carrier : Carriers, ownerOnly : BOOLEAN]
  /\ linked \in SUBSET Approvals
  /\ rows \in [Approvals -> RowTypes]
  /\ reading \in [Approvals -> ReadingTypes]
  /\ record \in UNION {[kind : {k}, status : RecordStates[k]] : k \in DOMAIN RecordStates}
  /\ deciding \in [Requests -> {NoWish} \union {[wish |-> w, allowed |-> Allowed(w)] : w \in Wishes}]

\* A linked approval was prepared; receipts are about attempts that are over.
RowLives(a) ==
  /\ a \in linked => rows[a].status \in {"pending", "approved", "rejected", "executed", "failed"}
  /\ rows[a].outcomes # {} =>
       \/ rows[a].status = "failed"
       \/ rows[a].status = "approved" /\ rows[a].attempt = "expired"

\* An approval that ran stays so, executed or failed, and so does what it ran on.
Ran(r) == r.status \in {"executed", "failed"}
AllRan == \A a \in linked : Ran(rows[a])
OnMock == \E a \in linked : rows[a].simulated

\* What a transaction has read may be stale, but what ran when it read has run.
Reads(x, S, f) ==
  x.step = "all" =>
    /\ DOMAIN x.rows = S
    /\ \A b \in S : x.rows[b].status = "executed" =>
                     Ran(f[b]) /\ f[b].simulated = x.rows[b].simulated

Fits(a) ==
  /\ RowLives(a)
  /\ a \notin linked => reading[a].step = "none"
  /\ Reads(reading[a], linked, rows)

\* Nothing about it changes any more, but for what ran being marked failed.
Frozen ==
  \/ linked = {} /\ ~HasRecord
  \/ linked # {} /\ AllRan

\* What was only suggested has no consequences; what was reconciled, or is about to
\* be, has no open ones; what is called simulated ran, and on a mock adapter.
ReceiptInv ==
  /\ ReceiptTypeOK
  /\ \A a \in Approvals : Fits(a)
  /\ rec.outcome = "suggested" => linked = {} /\ ~HasRecord
  /\ Reconciled => Frozen
  /\ \A q \in Requests :
       /\ deciding[q].wish = "reconciled" => rec.outcome # "suggested" /\ Frozen
       /\ deciding[q].wish = "accepted" => rec.carrier # "advice"
  /\ rec.outcome = "blocked" => linked # {}
  /\ rec.reason = "approval_simulated" => AllRan /\ OnMock

LEMMA RecordTyped ==
  ASSUME ReceiptTypeOK
  PROVE  /\ record.kind \in DOMAIN RecordStates /\ record.status \in RecordStates[record.kind]
         /\ record = [kind |-> record.kind, status |-> record.status]
<1> PICK k \in DOMAIN RecordStates : record \in [kind : {k}, status : RecordStates[k]]
  BY DEF ReceiptTypeOK
<1> HIDE DEF RecordStates
<1> QED OBVIOUS

LEMMA RowTyped ==
  ASSUME ReceiptTypeOK, NEW a \in linked
  PROVE  a \in Approvals /\ rows[a] \in RowTypes
BY DEF ReceiptTypeOK

\* Whatever has failed, or is not known to have ended, is quarantined.
LEMMA QuarantineCovers ==
  ASSUME ~Quarantined, NEW a \in linked
  PROVE  ~NeedsReconciliation(rows[a].status, rows[a].attempt)
<1>1. ~Unresolved(rows[a])
  BY DEF Quarantined
<1>2. rows[a].outcomes \intersect Conclusive = {}
  BY DEF Quarantined, Has, Conclusive
<1> QED BY <1>1, <1>2 DEF Unresolved, IsTerminal

LEMMA ReceiptFollows == ReceiptInv => ReceiptHonest
<1> SUFFICES ASSUME ReceiptInv PROVE ReceiptHonest
  OBVIOUS
<1>1. FollowIs /\ TriedIs
  BY FollowCases, TriedCases
<1>2. /\ RecordReceipt.state = "completed" => record.status \in Settled
      /\ RecordReceipt.stage \notin Untold
  BY RecordTyped, RecordCases DEF ReceiptInv
<1>3. linked # {} /\ ~Reconciled => FollowThrough = Tried
  BY <1>1 DEF FollowIs, ReceiptInv
<1>4. rec.outcome = "blocked" => linked # {} /\ ~Reconciled
  BY DEF ReceiptInv, Reconciled
<1>5. Tried.stage # "needs_tracking"
  BY <1>1 DEF TriedIs, Receipt
<1>6. ASSUME FollowThrough.state = "completed", NEW a \in linked
      PROVE  ApprovalSettled(a) \/ (FollowThrough.stage = "reconciled" /\ rows[a].status = "failed")
  <2>1. CASE Reconciled
    <3>1. FollowThrough.stage = "reconciled"
      BY <1>1, <2>1 DEF FollowIs, Receipt
    <3>2. Ran(rows[a])
      BY <2>1 DEF ReceiptInv, Frozen, AllRan
    <3> QED BY <3>1, <3>2 DEF Ran, ApprovalSettled
  <2>2. CASE ~Reconciled
    <3>1. Tried.state = "completed"
      BY <1>3, <1>6, <2>2
    <3>2. CASE AllExecuted
      BY <3>2 DEF AllExecuted, ApprovalSettled
    <3>3. CASE ~AllExecuted
      <4>1. /\ ~Quarantined
            /\ rows[a].status \notin {"rejected", "expired", "proposed", "pending"}
            /\ ~Ready(a)
        BY <1>1, <3>1, <3>3 DEF TriedIs, Receipt
      <4>2. a \in Approvals /\ rows[a].status \in {"approved", "executed", "failed"}
        BY <4>1, RowTyped DEF ReceiptInv, Fits, RowLives
      <4>3. ~NeedsReconciliation(rows[a].status, rows[a].attempt)
        BY <4>1, QuarantineCovers
      <4>4. rows[a].status = "executed" \/ Untried(a)
        BY <4>2, <4>3 DEF NeedsReconciliation, Untried
      <4> QED BY <4>1, <4>4 DEF ApprovalSettled, Ready
    <3> QED BY <3>2, <3>3
  <2> QED BY <2>1, <2>2
<1>7. ASSUME FollowThrough.state = "completed", linked = {}, HasRecord PROVE record.status \in Settled
  <2>1. ~Reconciled
    BY <1>7 DEF ReceiptInv, Frozen
  <2>2. FollowThrough = RecordReceipt
    BY <1>1, <1>4, <1>7, <2>1 DEF FollowIs
  <2> QED BY <1>2, <1>7, <2>2
<1>8. ASSUME CanReconcile, linked # {} PROVE AllExecuted /\ OnMock
  <2>1. ~Reconciled
    BY <1>8 DEF CanReconcile, Reconciled
  <2>2. FollowThrough = Tried /\ Tried.stage = "approval_simulated"
    BY <1>3, <1>5, <1>8, <2>1 DEF CanReconcile
  <2>3. ~Quarantined /\ Simulated
    BY <1>1, <2>2 DEF TriedIs, Receipt
  <2>4. AllRan /\ OnMock
    BY <2>3 DEF ReceiptInv, Simulated
  <2>5. ASSUME NEW a \in linked PROVE rows[a].status = "executed"
    <3>1. rows[a].status # "failed"
      BY <2>3, QuarantineCovers DEF NeedsReconciliation
    <3> QED BY <2>4, <3>1 DEF AllRan, Ran
  <2> QED BY <2>4, <2>5 DEF AllExecuted
<1>9. rec.outcome = "blocked" => FollowThrough.stage # "needs_tracking"
  BY <1>3, <1>4, <1>5
<1>10. CanReconcile <=> MayReconcile
  BY <1>9 DEF CanReconcile, MayReconcile
<1> QED BY <1>6, <1>7, <1>8, <1>10 DEF ReceiptHonest, AllExecuted, OnMock

LEMMA EmptyReading == NoReading \in ReadingTypes /\ NoReading.step = "none"
<1>1. << >> \in [{} -> RowTypes]
  OBVIOUS
<1>2. << >> \in UNION {[S -> RowTypes] : S \in SUBSET Approvals}
  <2> HIDE DEF RowTypes
  <2> QED BY <1>1
<1> QED BY <1>2 DEF NoReading, ReadingTypes, Verdict, RecommendationOutcomes, AnyReason, Reasons

\* The facts about approvals and readings do not change with the rest.
LEMMA SameRows ==
  ASSUME UNCHANGED <<linked, rows, reading>>
  PROVE  /\ AllRan' <=> AllRan
         /\ OnMock' <=> OnMock
         /\ \A a \in Approvals : Fits(a)' <=> Fits(a)
BY DEF AllRan, OnMock, Fits, RowLives, Reads, Ran

LEMMA ReceiptInitial == ReceiptInit => ReceiptInv
<1> SUFFICES ASSUME ReceiptInit PROVE ReceiptInv
  OBVIOUS
<1>1. FreshRow \in RowTypes /\ FreshRow.outcomes = {}
  BY DEF FreshRow, RowTypes, Statuses, Attempts
<1>2. NoRecord.kind = "none" /\ NoRecord \in [kind : {"none"}, status : RecordStates["none"]]
      /\ "none" \in DOMAIN RecordStates
  BY DEF NoRecord, RecordStates
<1>3. ReceiptTypeOK
  <2>1. rec \in [outcome : RecommendationOutcomes, reason : Reasons \union OtherReasons,
                 carrier : Carriers, ownerOnly : BOOLEAN]
    BY DEF ReceiptInit, RecommendationOutcomes, Reasons
  <2>2. record \in UNION {[kind : {k}, status : RecordStates[k]] : k \in DOMAIN RecordStates}
    <3> HIDE DEF RecordStates
    <3> QED BY <1>2 DEF ReceiptInit
  <2>3. NoReading \in ReadingTypes
    BY EmptyReading
  <2> QED BY <1>1, <2>1, <2>2, <2>3 DEF ReceiptInit, ReceiptTypeOK
<1>4. \A a \in Approvals : RowLives(a) /\ reading[a].step = "none"
  BY <1>1 DEF ReceiptInit, RowLives, NoReading
<1>5. linked = {} /\ ~HasRecord /\ rec.outcome \in {"suggested", "accepted"} /\ rec.reason = "none"
  BY <1>2 DEF ReceiptInit, HasRecord
<1>6. \A q \in Requests : deciding[q].wish = "none"
  BY DEF ReceiptInit, NoWish
<1> QED BY <1>3, <1>4, <1>5, <1>6 DEF ReceiptInv, Fits, Frozen, Reads

-----------------------------------------------------------------------------
(* Steps of the members *)

LEMMA WishTyped ==
  ASSUME ReceiptTypeOK, NEW q \in Requests, deciding[q] # NoWish
  PROVE  /\ deciding[q].wish \in Wishes
         /\ deciding[q].allowed = Allowed(deciding[q].wish)
         /\ deciding[q].wish = "reconciled" \/ "blocked" \notin deciding[q].allowed
         /\ deciding[q].wish \in {"accepted", "dismissed"} => deciding[q].allowed = {"suggested"}
<1> PICK w \in Wishes : deciding[q] = [wish |-> w, allowed |-> Allowed(w)]
  BY DEF ReceiptTypeOK
<1> QED BY DEF Wishes, Allowed

\* A reconciliation is offered only for what will not change.
LEMMA ReconcilesFrozen == ReceiptInv /\ MayReconcile => rec.outcome # "suggested" /\ Frozen
<1> SUFFICES ASSUME ReceiptInv, MayReconcile PROVE rec.outcome # "suggested" /\ Frozen
  OBVIOUS
<1>1. FollowIs /\ TriedIs
  BY FollowCases, TriedCases
<1>2. RecordReceipt.stage \notin Untold
  BY RecordTyped, RecordCases DEF ReceiptInv
<1>3. rec.outcome \in {"blocked", "accepted"} /\ FollowThrough.stage \in {"approval_simulated", "needs_tracking"}
  BY DEF MayReconcile
<1>4. CASE linked = {}
  <2>1. ~HasRecord
    BY <1>1, <1>2, <1>3, <1>4 DEF FollowIs, ReceiptInv, Untold, Reconciled
  <2> QED BY <1>3, <1>4, <2>1 DEF Frozen
<1>5. CASE linked # {}
  <2>1. FollowThrough = Tried
    BY <1>1, <1>3, <1>5 DEF FollowIs, Reconciled
  <2>2. Simulated
    BY <1>1, <1>3, <2>1 DEF TriedIs, Receipt
  <2> QED BY <1>3, <1>5, <2>2 DEF ReceiptInv, Simulated, Frozen
<1> QED BY <1>4, <1>5

LEMMA ReadWishKept == ASSUME ReceiptInv, NEW q \in Requests, ReadWish(q) PROVE ReceiptInv'
<1> PICK wish \in Wishes :
      /\ MayDecide(wish)
      /\ deciding' = [deciding EXCEPT ![q] = [wish |-> wish, allowed |-> Allowed(wish)]]
  BY DEF ReadWish, Wishes
<1> HIDE DEF Wishes
<1>1. UNCHANGED <<rec, linked, rows, reading, record>>
  BY DEF ReadWish
<1>2. ReceiptTypeOK'
  BY <1>1 DEF ReceiptInv, ReceiptTypeOK
<1>3. wish = "reconciled" => rec.outcome # "suggested" /\ Frozen
  BY ReconcilesFrozen DEF MayDecide
<1>4. wish = "accepted" => rec.carrier # "advice"
  BY DEF MayDecide
<1>5. \A p \in Requests : /\ p # q => deciding'[p] = deciding[p]
                          /\ p = q => deciding'[p].wish = wish
  BY DEF ReceiptInv, ReceiptTypeOK
<1>6. /\ Frozen' <=> Frozen
      /\ Reconciled' <=> Reconciled
      /\ HasRecord' <=> HasRecord
  BY <1>1, SameRows DEF Frozen, Reconciled, HasRecord
<1>7. /\ AllRan' <=> AllRan
      /\ OnMock' <=> OnMock
      /\ \A a \in Approvals : Fits(a)'
  BY <1>1, SameRows DEF ReceiptInv
<1>8. ASSUME NEW p \in Requests
      PROVE  /\ deciding'[p].wish = "reconciled" => rec.outcome # "suggested" /\ Frozen
             /\ deciding'[p].wish = "accepted" => rec.carrier # "advice"
  BY <1>3, <1>4, <1>5 DEF ReceiptInv
<1> QED BY <1>1, <1>2, <1>6, <1>7, <1>8 DEF ReceiptInv

\* A request that ends leaves the others as they are.
LEMMA WishOver ==
  ASSUME ReceiptInv, NEW q \in Requests, deciding' = [deciding EXCEPT ![q] = NoWish]
  PROVE  /\ deciding' \in [Requests -> {NoWish} \union {[wish |-> w, allowed |-> Allowed(w)] : w \in Wishes}]
         /\ \A p \in Requests : deciding'[p] = deciding[p] \/ deciding'[p].wish = "none"
BY DEF ReceiptInv, ReceiptTypeOK, NoWish

LEMMA AcceptKept ==
  ASSUME ReceiptInv, NEW q \in Requests, rec.outcome = "suggested", rec.carrier # "advice",
         AcceptWrites, deciding' = [deciding EXCEPT ![q] = NoWish], UNCHANGED reading
  PROVE  ReceiptInv'
<1>1. linked = {} /\ ~HasRecord /\ \A a \in Approvals : reading[a].step = "none"
  BY DEF ReceiptInv, Fits
<1>r. \A a \in Approvals : RowLives(a)' => Fits(a)'
  BY <1>1 DEF Reads, Fits
<1>t. reading' \in [Approvals -> ReadingTypes]
  BY DEF ReceiptInv, ReceiptTypeOK
<1>2. \A p \in Requests : deciding'[p].wish # "reconciled"
  BY WishOver DEF ReceiptInv
<1>3. /\ rec \in [outcome : RecommendationOutcomes, reason : Reasons \union OtherReasons,
                  carrier : Carriers, ownerOnly : BOOLEAN]
      /\ record \in UNION {[kind : {k}, status : RecordStates[k]] : k \in DOMAIN RecordStates}
  BY DEF ReceiptInv, ReceiptTypeOK
<1>4. \A a \in Approvals : rows[a] \in RowTypes /\ RowLives(a)
  BY DEF ReceiptInv, Fits, ReceiptTypeOK
<1>5. CASE rec.carrier = "approvals"
  <2>1. /\ linked' \in (SUBSET Approvals) \ {{}}
        /\ rows' = [a \in Approvals |-> [FreshRow EXCEPT !.status = IF a \in linked' THEN "pending" ELSE @]]
        /\ rec' = Decided("accepted", "approval_prepared")
        /\ record' = record
    BY <1>5 DEF AcceptWrites
  <2>2. \A a \in Approvals :
          /\ rows'[a] \in RowTypes /\ rows'[a].outcomes = {} /\ rows'[a].status # "executed"
          /\ a \in linked' => rows'[a].status = "pending"
    BY <2>1 DEF FreshRow, RowTypes, Statuses, Attempts
  <2>3. /\ rec' \in [outcome : RecommendationOutcomes, reason : Reasons \union OtherReasons,
                     carrier : Carriers, ownerOnly : BOOLEAN]
        /\ rec'.outcome = "accepted" /\ rec'.carrier = rec.carrier
    BY <1>3, <2>1 DEF Decided, RecommendationOutcomes, Reasons
  <2>4. rows' \in [Approvals -> RowTypes]
    BY <2>1, <2>2
  <2>5. ReceiptTypeOK'
    BY <1>3, <1>t, <2>1, <2>3, <2>4, WishOver DEF ReceiptTypeOK
  <2>6. \A a \in Approvals : RowLives(a)'
    BY <2>2 DEF RowLives
  <2>7. rec'.reason = "approval_prepared"
    BY <1>3, <2>1 DEF Decided
  <2> QED BY <1>2, <1>r, <2>3, <2>5, <2>6, <2>7, WishOver DEF ReceiptInv, Reconciled
<1>6. CASE rec.carrier # "approvals"
  <2> DEFINE status == CASE rec.carrier \in {"task", "decision"} -> "open"
                         [] rec.carrier = "memory" -> "saved"
                         [] OTHER -> "active"
  <2>1. /\ record' = [kind |-> rec.carrier, status |-> status]
        /\ rec' = IF rec.carrier \in {"task", "decision"} THEN Decided("accepted", "accepted")
                  ELSE Decided("completed", "action_executed")
        /\ linked' = linked /\ rows' = rows
    BY <1>6 DEF AcceptWrites
  <2>2. rec.carrier \in {"task", "decision", "project", "event", "memory"}
    BY <1>3, <1>6 DEF Carriers
  <2>3. rec.carrier \in DOMAIN RecordStates /\ status \in RecordStates[rec.carrier]
    BY <2>2 DEF RecordStates
  <2>4. record' \in UNION {[kind : {k}, status : RecordStates[k]] : k \in DOMAIN RecordStates}
    <3> HIDE DEF RecordStates, status
    <3> QED BY <2>1, <2>3
  <2>5. /\ rec' \in [outcome : RecommendationOutcomes, reason : Reasons \union OtherReasons,
                     carrier : Carriers, ownerOnly : BOOLEAN]
        /\ rec'.outcome \in {"accepted", "completed"} /\ rec'.reason \in {"accepted", "action_executed"}
        /\ rec'.carrier = rec.carrier
    BY <1>3, <2>1 DEF Decided, RecommendationOutcomes, Reasons, OtherReasons
  <2>6. ReceiptTypeOK'
    BY <1>t, <2>1, <2>4, <2>5, WishOver DEF ReceiptInv, ReceiptTypeOK
  <2>7. \A a \in Approvals : RowLives(a)'
    BY <1>4, <2>1 DEF RowLives
  <2> QED BY <1>1, <1>2, <1>r, <2>1, <2>5, <2>6, <2>7, WishOver DEF ReceiptInv, Reconciled
<1> QED BY <1>5, <1>6

LEMMA WriteWishKept == ASSUME ReceiptInv, NEW q \in Requests, WriteWish(q) PROVE ReceiptInv'
<1>1. deciding[q] # NoWish /\ deciding' = [deciding EXCEPT ![q] = NoWish] /\ UNCHANGED reading
  BY DEF WriteWish
<1>2. ReceiptTypeOK /\ rec \in [outcome : RecommendationOutcomes, reason : Reasons \union OtherReasons,
                                carrier : Carriers, ownerOnly : BOOLEAN]
  BY DEF ReceiptInv, ReceiptTypeOK
<1>3. CASE rec.outcome \notin deciding[q].allowed
  <2>1. UNCHANGED <<rec, linked, rows, record>>
    BY <1>3 DEF WriteWish
  <2>2. ReceiptTypeOK'
    BY <1>1, <1>2, <2>1, WishOver DEF ReceiptTypeOK
  <2>3. /\ Frozen' <=> Frozen
        /\ Reconciled' <=> Reconciled
        /\ HasRecord' <=> HasRecord
    BY <1>1, <2>1, SameRows DEF Frozen, Reconciled, HasRecord
  <2>4. /\ AllRan' <=> AllRan
        /\ OnMock' <=> OnMock
        /\ \A a \in Approvals : Fits(a)'
    BY <1>1, <2>1, SameRows DEF ReceiptInv
  <2> QED BY <1>1, <2>1, <2>2, <2>3, <2>4, WishOver DEF ReceiptInv
<1>4. CASE rec.outcome \in deciding[q].allowed /\ deciding[q].wish = "accepted"
  <2>1. AcceptWrites
    BY <1>4 DEF WriteWish
  <2>2. rec.outcome = "suggested" /\ rec.carrier # "advice"
    BY <1>1, <1>2, <1>4, WishTyped DEF ReceiptInv
  <2> QED BY <1>1, <2>1, <2>2, AcceptKept
<1>5. CASE rec.outcome \in deciding[q].allowed /\ deciding[q].wish # "accepted"
  <2> DEFINE outcome == IF deciding[q].wish = "dismissed" THEN "dismissed" ELSE "completed"
  <2>1. rec' = Decided(outcome, deciding[q].wish) /\ UNCHANGED <<linked, rows, record>>
    BY <1>5 DEF WriteWish
  <2>2. deciding[q].wish \in Wishes
    BY <1>1, <1>2, WishTyped
  <2>3. /\ rec' \in [outcome : RecommendationOutcomes, reason : Reasons \union OtherReasons,
                     carrier : Carriers, ownerOnly : BOOLEAN]
        /\ rec'.outcome \in {"dismissed", "completed"} /\ rec'.carrier = rec.carrier
        /\ Reconciled' <=> deciding[q].wish = "reconciled"
    BY <1>2, <2>1, <2>2 DEF Decided, RecommendationOutcomes, OtherReasons, Wishes, Reconciled
  <2>4. ReceiptTypeOK'
    BY <1>1, <1>2, <2>1, <2>3, WishOver DEF ReceiptTypeOK
  <2>5. /\ Frozen' <=> Frozen
        /\ \A a \in Approvals : Fits(a)'
    BY <1>1, <2>1, SameRows DEF Frozen, HasRecord, ReceiptInv
  <2>6. Reconciled' => Frozen'
    BY <2>3, <2>5 DEF ReceiptInv
  <2>7. rec'.reason # "approval_simulated"
    BY <1>2, <2>1, <2>2 DEF Decided, Wishes
  <2>8. ASSUME NEW p \in Requests
        PROVE  /\ deciding'[p].wish = "reconciled" => Frozen
               /\ deciding'[p].wish = "accepted" => rec.carrier # "advice"
    BY <1>1, WishOver DEF ReceiptInv
  <2> QED BY <1>1, <2>1, <2>3, <2>4, <2>5, <2>6, <2>7, <2>8 DEF ReceiptInv
<1> QED BY <1>3, <1>4, <1>5

-----------------------------------------------------------------------------
(* Steps of the approvals and of the record *)

LEMMA VerdictOf ==
  ASSUME NEW S, NEW f, DOMAIN f = S,
         NEW v \in Verdicts(f)
  PROVE  /\ v \in [outcome : RecommendationOutcomes \ {"suggested"}, reason : Reasons]
         /\ v.reason # "reconciled"
         /\ v.reason = "approval_simulated" =>
              (\A a \in S : f[a].status = "executed") /\ (\E a \in S : f[a].simulated)
<1> DEFINE External == {a \in S : "external_effect_observed" \in f[a].outcomes}
           Open == {a \in S : Unresolved(f[a])}
           NoEffect == {a \in S : "no_external_effect_observed" \in f[a].outcomes}
           Denied == {a \in S : f[a].status \in {"rejected", "expired"}}
           Done == {a \in S : f[a].status = "executed"}
           Mocked == {a \in Done : f[a].simulated}
<1>1. v \in IF External # {}
              THEN {Verdict("blocked", "approval_reconciled_external_effect_needs_repair")}
            ELSE IF Open # {}
              THEN {Verdict("blocked", IF f[a].status = "failed" THEN "approval_failed"
                                       ELSE "approval_execution_unknown") : a \in Open}
            ELSE IF NoEffect # {}
              THEN {Verdict("blocked", "approval_reconciled_no_external_effect")}
            ELSE IF Denied # {} THEN {Verdict("dismissed", "approval_rejected")}
            ELSE IF Done # S THEN {Verdict("accepted", "approval_prepared")}
            ELSE IF Mocked # {} THEN {Verdict("blocked", "approval_simulated")}
            ELSE {Verdict("completed", "action_executed")}
  BY DEF Verdicts
<1>2. \/ /\ v.outcome = "blocked" /\ v.reason \in Reasons \ {"approval_simulated"}
         /\ External \union Open \union NoEffect # {}
      \/ Denied # {} /\ v.outcome = "dismissed" /\ v.reason = "approval_rejected"
      \/ Done # S /\ v.outcome = "accepted" /\ v.reason = "approval_prepared"
      \/ Done = S /\ Mocked # {} /\ v.outcome = "blocked" /\ v.reason = "approval_simulated"
      \/ Mocked = {} /\ v.outcome = "completed" /\ v.reason = "action_executed"
  BY <1>1 DEF Verdict, Reasons
<1>3. v = [outcome |-> v.outcome, reason |-> v.reason]
  BY <1>1 DEF Verdict
<1>4. v \in [outcome : RecommendationOutcomes \ {"suggested"}, reason : Reasons] /\ v.reason # "reconciled"
  BY <1>2, <1>3 DEF RecommendationOutcomes, Reasons
<1>5. ASSUME v.reason = "approval_simulated"
      PROVE  (\A a \in S : f[a].status = "executed") /\ (\E a \in S : f[a].simulated)
  BY <1>2, <1>5
<1> QED BY <1>4, <1>5

\* A row that moves on leaves what ran as it is; the readings of the others stay true
\* of it, and its own may be given up.
LEMMA RowGoes ==
  ASSUME ReceiptInv, NEW a \in linked, NEW r \in RowTypes, rows' = [rows EXCEPT ![a] = r],
         r.status \in {"pending", "approved", "rejected", "executed", "failed"},
         r.outcomes # {} => r.status = "failed" \/ (r.status = "approved" /\ r.attempt = "expired"),
         Ran(rows[a]) => Ran(r) /\ r.simulated = rows[a].simulated,
         reading' \in {reading, [reading EXCEPT ![a] = NoReading]},
         UNCHANGED <<linked, record, deciding>>
  PROVE  /\ rows' \in [Approvals -> RowTypes] /\ rows'[a] = r
         /\ reading' \in [Approvals -> ReadingTypes]
         /\ \A b \in Approvals : Fits(b)'
         /\ \A b \in linked : Ran(rows[b]) => Ran(rows'[b]) /\ rows'[b].simulated = rows[b].simulated
<1>1. a \in Approvals /\ rows \in [Approvals -> RowTypes] /\ reading \in [Approvals -> ReadingTypes]
      /\ linked \subseteq Approvals
  BY RowTyped DEF ReceiptInv, ReceiptTypeOK
<1>2. /\ rows' \in [Approvals -> RowTypes] /\ rows'[a] = r
      /\ \A b \in Approvals : b # a => rows'[b] = rows[b]
  BY <1>1
<1>3. \A b \in linked : Ran(rows[b]) => Ran(rows'[b]) /\ rows'[b].simulated = rows[b].simulated
  BY <1>1, <1>2
<1>4. /\ reading' \in [Approvals -> ReadingTypes]
      /\ \A b \in Approvals : reading'[b] = reading[b] \/ reading'[b] = NoReading
  BY <1>1, EmptyReading
<1>5. ASSUME NEW b \in Approvals
      PROVE  Fits(b)'
  <2>1. RowLives(b)'
    <3>1. CASE b = a
      BY <1>2, <3>1 DEF RowLives
    <3>2. CASE b # a
      BY <1>2, <3>2 DEF RowLives, ReceiptInv, Fits
    <3> QED BY <3>1, <3>2
  <2>2. CASE reading'[b] = NoReading
    BY <2>1, <2>2, EmptyReading DEF Reads, Fits
  <2>3. CASE reading'[b] = reading[b]
    <3>1. Reads(reading[b], linked, rows) /\ (b \notin linked => reading[b].step = "none")
      BY DEF ReceiptInv, Fits
    <3>2. Reads(reading[b], linked, rows)'
      BY <1>3, <2>3, <3>1 DEF Reads
    <3> QED BY <2>1, <2>3, <3>1, <3>2 DEF Fits
  <2> QED BY <1>4, <2>2, <2>3
<1> QED BY <1>2, <1>3, <1>4, <1>5

\* What had run, and on what, is so after the row moved.
LEMMA RanStays ==
  ASSUME UNCHANGED linked,
         \A b \in linked : Ran(rows[b]) => Ran(rows'[b]) /\ rows'[b].simulated = rows[b].simulated
  PROVE  /\ AllRan => AllRan'
         /\ AllRan /\ OnMock => OnMock'
BY DEF AllRan, OnMock

\* A transaction reads.
LEMMA ReadKept ==
  ASSUME ReceiptInv, NEW a \in linked, NEW x \in ReadingTypes, Reads(x, linked, rows),
         reading' = [reading EXCEPT ![a] = x], UNCHANGED <<rec, linked, rows, record, deciding>>
  PROVE  ReceiptInv'
<1>1. a \in Approvals /\ reading \in [Approvals -> ReadingTypes]
  BY RowTyped DEF ReceiptInv, ReceiptTypeOK
<1>2. reading' \in [Approvals -> ReadingTypes] /\ \A b \in Approvals : reading'[b] = IF b = a THEN x ELSE reading[b]
  BY <1>1
<1>3. ReceiptTypeOK'
  BY <1>2 DEF ReceiptInv, ReceiptTypeOK
<1>4. \A b \in Approvals : Fits(b)'
  BY <1>2 DEF ReceiptInv, Fits, RowLives, Reads
<1>5. /\ Frozen' <=> Frozen
      /\ Reconciled' <=> Reconciled
      /\ HasRecord' <=> HasRecord
      /\ AllRan' <=> AllRan
      /\ OnMock' <=> OnMock
  BY DEF Frozen, Reconciled, HasRecord, AllRan, OnMock
<1> QED BY <1>3, <1>4, <1>5 DEF ReceiptInv

LEMMA StandingTyped ==
  ASSUME ReceiptInv
  PROVE  Standing \in [outcome : RecommendationOutcomes, reason : AnyReason]
BY DEF ReceiptInv, ReceiptTypeOK, Standing, Verdict, AnyReason

LEMMA LinkedRows ==
  ASSUME ReceiptInv
  PROVE  /\ [b \in linked |-> rows[b]] \in UNION {[S -> RowTypes] : S \in SUBSET Approvals}
         /\ \A x : x.rows = [b \in linked |-> rows[b]] => Reads(x, linked, rows)
<1>1. linked \in SUBSET Approvals /\ rows \in [Approvals -> RowTypes]
  BY DEF ReceiptInv, ReceiptTypeOK
<1>2. [b \in linked |-> rows[b]] \in [linked -> RowTypes]
  <2> HIDE DEF RowTypes
  <2> QED BY <1>1
<1> QED BY <1>1, <1>2 DEF Reads, Ran

LEMMA ReadRecommendationKept ==
  ASSUME ReceiptInv, NEW a \in linked, ReadRecommendation(a) PROVE ReceiptInv'
<1> DEFINE x == [NoReading EXCEPT !.step = "rec", !.rec = Standing]
<1>1. x \in ReadingTypes /\ x.step = "rec"
  <2> HIDE DEF RowTypes
  <2> QED BY EmptyReading, StandingTyped DEF ReadingTypes
<1>2. Reads(x, linked, rows)
  BY <1>1 DEF Reads
<1> QED BY <1>1, <1>2, ReadKept DEF ReadRecommendation

LEMMA ReadLinkedKept == ASSUME ReceiptInv, NEW a \in linked, ReadLinked(a) PROVE ReceiptInv'
<1> DEFINE f == [b \in linked |-> rows[b]]
           x == [reading[a] EXCEPT !.step = "all", !.rows = f]
<1>1. a \in Approvals /\ reading[a] \in ReadingTypes
  BY RowTyped DEF ReceiptInv, ReceiptTypeOK
<1>2. f \in UNION {[S -> RowTypes] : S \in SUBSET Approvals}
  BY LinkedRows
<1>3. x \in ReadingTypes /\ x.rows = f
  <2> HIDE DEF f, RowTypes
  <2> QED BY <1>1, <1>2 DEF ReadingTypes
<1>4. Reads(x, linked, rows)
  BY <1>3, LinkedRows
<1>5. reading' = [reading EXCEPT ![a] = x] /\ UNCHANGED <<rec, linked, rows, record, deciding>>
  BY <1>1 DEF ReadLinked, ReceiptInv, ReceiptTypeOK
<1> QED BY <1>3, <1>4, <1>5, ReadKept

\* While an approval has not run nothing was reconciled, nor is about to be.
LEMMA StillOpen ==
  ASSUME ReceiptInv, NEW a \in linked, ~Ran(rows[a])
  PROVE  ~Reconciled /\ \A q \in Requests : deciding[q].wish # "reconciled"
BY DEF ReceiptInv, Frozen, AllRan

LEMMA ReprojectKept ==
  ASSUME ReceiptInv, NEW a \in linked, NEW r \in RowTypes, Reproject(a, r),
         r.status \in {"pending", "approved", "rejected", "executed", "failed"},
         r.outcomes # {} => r.status = "failed" \/ (r.status = "approved" /\ r.attempt = "expired"),
         Ran(rows[a]) => Ran(r) /\ r.simulated = rows[a].simulated
  PROVE  ReceiptInv'
<1> DEFINE f == [reading[a].rows EXCEPT ![a] = r]
<1>1. /\ rows' = [rows EXCEPT ![a] = r]
      /\ reading' = [reading EXCEPT ![a] = NoReading]
      /\ reading[a].step = "all" /\ UNCHANGED <<linked, record, deciding>>
  BY DEF Reproject
<1>2. PICK w \in Projected(Standing, reading[a], a, r) : rec' = Decided(w.outcome, w.reason)
  BY DEF Reproject
<1>3. PICK v \in Verdicts(f) : w = Standing \/ w = v
  BY <1>2 DEF Projected
<1>4. /\ rows' \in [Approvals -> RowTypes] /\ rows'[a] = r
      /\ reading' \in [Approvals -> ReadingTypes]
      /\ \A b \in Approvals : Fits(b)'
      /\ \A b \in linked : Ran(rows[b]) => Ran(rows'[b]) /\ rows'[b].simulated = rows[b].simulated
  BY <1>1, RowGoes
<1>5. /\ DOMAIN reading[a].rows = linked
      /\ \A b \in linked : reading[a].rows[b].status = "executed" =>
           Ran(rows[b]) /\ rows[b].simulated = reading[a].rows[b].simulated
  BY <1>1, RowTyped DEF ReceiptInv, Fits, Reads
<1>6. /\ DOMAIN f = linked
      /\ \A b \in linked : f[b].status = "executed" =>
           Ran(rows'[b]) /\ rows'[b].simulated = f[b].simulated
  BY <1>4, <1>5 DEF Ran
<1>7. /\ v \in [outcome : RecommendationOutcomes \ {"suggested"}, reason : Reasons]
      /\ v.reason # "reconciled"
      /\ v.reason = "approval_simulated" => AllRan' /\ OnMock'
  <2> HIDE DEF f
  <2>1. /\ v \in [outcome : RecommendationOutcomes \ {"suggested"}, reason : Reasons]
        /\ v.reason # "reconciled"
        /\ v.reason = "approval_simulated" =>
              (\A b \in linked : f[b].status = "executed") /\ (\E b \in linked : f[b].simulated)
    BY <1>6, VerdictOf
  <2> QED BY <1>1, <1>6, <2>1 DEF AllRan, OnMock
<1>8. rec \in [outcome : RecommendationOutcomes, reason : Reasons \union OtherReasons,
               carrier : Carriers, ownerOnly : BOOLEAN]
  BY DEF ReceiptInv, ReceiptTypeOK
<1>9. \/ rec' = rec
      \/ /\ rec'.outcome = v.outcome /\ rec'.reason = v.reason /\ rec'.carrier = rec.carrier
         /\ rec' \in [outcome : RecommendationOutcomes, reason : Reasons \union OtherReasons,
                      carrier : Carriers, ownerOnly : BOOLEAN]
  <2>1. CASE w = Standing
    BY <1>2, <1>8, <2>1 DEF Decided, Standing, Verdict
  <2>2. CASE w = v
    BY <1>2, <1>7, <1>8, <2>2 DEF Decided
  <2> QED BY <1>3, <2>1, <2>2
<1>10. ReceiptTypeOK'
  BY <1>1, <1>4, <1>8, <1>9 DEF ReceiptInv, ReceiptTypeOK
<1>11. (AllRan => AllRan') /\ (AllRan /\ OnMock => OnMock')
  BY <1>1, <1>4, RanStays
<1>12. Frozen => Frozen'
  BY <1>1, <1>11 DEF Frozen, HasRecord
<1>13. rec'.outcome # "suggested" /\ rec'.carrier = rec.carrier
  BY <1>7, <1>9 DEF ReceiptInv
<1>14. Reconciled' => Frozen'
  BY <1>7, <1>9, <1>12 DEF ReceiptInv, Reconciled
<1>15. rec'.reason = "approval_simulated" => AllRan' /\ OnMock'
  BY <1>7, <1>9, <1>11 DEF ReceiptInv
<1>16. \A q \in Requests :
         /\ deciding'[q].wish = "reconciled" => Frozen'
         /\ deciding'[q].wish = "accepted" => rec'.carrier # "advice"
  BY <1>1, <1>12, <1>13 DEF ReceiptInv
<1> QED BY <1>1, <1>4, <1>10, <1>13, <1>14, <1>15, <1>16 DEF ReceiptInv

\* A claim, and the end of its lease, leave the outcome to speak for itself.
LEMMA AttemptKept ==
  ASSUME ReceiptInv, NEW a \in linked, NEW t \in {"leased", "expired"},
         rows[a].status = "approved", rows[a].outcomes = {},
         rows' = [rows EXCEPT ![a].attempt = t],
         reading' \in {reading, [reading EXCEPT ![a] = NoReading]},
         UNCHANGED <<rec, linked, record, deciding>>
  PROVE  ReceiptInv'
<1> DEFINE r == [rows[a] EXCEPT !.attempt = t]
<1>1. a \in Approvals /\ rows[a] \in RowTypes
  BY RowTyped DEF ReceiptInv
<1>2. r \in RowTypes /\ r.status = "approved" /\ r.outcomes = {} /\ r.attempt = t
  BY <1>1 DEF RowTypes, Attempts
<1>3. rows' = [rows EXCEPT ![a] = r] /\ ~Ran(rows[a])
  BY DEF Ran
<1> HIDE DEF r
<1>4. /\ rows' \in [Approvals -> RowTypes] /\ rows'[a] = r
      /\ reading' \in [Approvals -> ReadingTypes]
      /\ \A b \in Approvals : Fits(b)'
  BY <1>2, <1>3, RowGoes
<1>5. ReceiptTypeOK'
  BY <1>4 DEF ReceiptInv, ReceiptTypeOK
<1>6. ~AllRan
  BY <1>3 DEF AllRan
<1>7. ~Reconciled' /\ \A q \in Requests : deciding'[q].wish # "reconciled"
  BY <1>3, StillOpen DEF Reconciled
<1>8. rec.outcome # "suggested" /\ rec.reason # "approval_simulated"
  BY <1>6 DEF ReceiptInv
<1> QED BY <1>4, <1>5, <1>7, <1>8 DEF ReceiptInv

LEMMA DecideApprovalKept == ASSUME ReceiptInv, NEW a \in linked, DecideApproval(a) PROVE ReceiptInv'
<1>1. ASSUME NEW s \in {"approved", "rejected"}, Reproject(a, [rows[a] EXCEPT !.status = s])
      PROVE  ReceiptInv'
  <2> DEFINE r == [rows[a] EXCEPT !.status = s]
  <2>1. rows[a] \in RowTypes /\ rows[a].outcomes = {} /\ ~Ran(rows[a])
    BY RowTyped DEF DecideApproval, ReceiptInv, Fits, RowLives, Ran
  <2>2. r \in RowTypes /\ r.status = s /\ r.outcomes = {}
    BY <2>1 DEF RowTypes, Statuses
  <2>3. Reproject(a, r)
    BY <1>1
  <2> HIDE DEF r
  <2> QED BY <2>1, <2>2, <2>3, ReprojectKept
<1> QED BY <1>1, ReadRecommendationKept, ReadLinkedKept DEF DecideApproval

LEMMA ClaimApprovalKept == ASSUME ReceiptInv, NEW a \in linked, ClaimApproval(a) PROVE ReceiptInv'
<1>1. rows[a].status = "approved" /\ rows[a].attempt = "none"
  BY DEF ClaimApproval, Untried
<1>2. rows[a].outcomes = {}
  BY <1>1, RowTyped DEF ReceiptInv, Fits, RowLives
<1> QED BY <1>1, <1>2, AttemptKept DEF ClaimApproval

LEMMA LeaseEndsKept == ASSUME ReceiptInv, NEW a \in linked, LeaseLapses(a) PROVE ReceiptInv'
<1>1. rows[a].status = "approved" /\ rows[a].attempt = "leased"
  BY DEF LeaseLapses, LeaseActive
<1>2. rows[a].outcomes = {}
  BY <1>1, RowTyped DEF ReceiptInv, Fits, RowLives
<1> QED BY <1>1, <1>2, AttemptKept DEF LeaseLapses

LEMMA FinishApprovalKept == ASSUME ReceiptInv, NEW a \in linked, FinishApproval(a) PROVE ReceiptInv'
<1>1. /\ rows[a] \in RowTypes /\ rows[a].outcomes = {}
      /\ rows[a].status \in {"approved", "executed"}
  BY RowTyped DEF FinishApproval, ReceiptInv, Fits, RowLives
<1>2. ASSUME NEW mock \in BOOLEAN, rows[a].status = "approved",
             Reproject(a, [rows[a] EXCEPT !.status = "executed", !.simulated = mock])
      PROVE  ReceiptInv'
  <2> DEFINE r == [rows[a] EXCEPT !.status = "executed", !.simulated = mock]
  <2>1. r \in RowTypes /\ r.status = "executed" /\ r.outcomes = {}
    BY <1>1 DEF RowTypes, Statuses
  <2>2. ~Ran(rows[a]) /\ Reproject(a, r)
    BY <1>2 DEF Ran
  <2> HIDE DEF r
  <2> QED BY <2>1, <2>2, ReprojectKept
<1>3. ASSUME Reproject(a, [rows[a] EXCEPT !.status = "failed"]) PROVE ReceiptInv'
  <2> DEFINE r == [rows[a] EXCEPT !.status = "failed"]
  <2>1. r \in RowTypes /\ r.status = "failed" /\ r.simulated = rows[a].simulated
    BY <1>1 DEF RowTypes, Statuses
  <2>2. Ran(r) /\ Reproject(a, r)
    BY <1>3, <2>1 DEF Ran
  <2> HIDE DEF r
  <2> QED BY <2>1, <2>2, ReprojectKept
<1> QED BY <1>2, <1>3, ReadRecommendationKept, ReadLinkedKept DEF FinishApproval

LEMMA ReconcileApprovalKept ==
  ASSUME ReceiptInv, NEW a \in linked, ReconcileApproval(a) PROVE ReceiptInv'
<1>1. /\ rows[a] \in RowTypes /\ NeedsReconciliation(rows[a].status, rows[a].attempt)
      /\ ~LeaseActive(rows[a].status, rows[a].attempt)
  BY RowTyped DEF ReconcileApproval, Unresolved, ReceiptInv
<1>2. \/ rows[a].status = "failed"
      \/ rows[a].status = "approved" /\ rows[a].attempt = "expired"
  BY <1>1 DEF NeedsReconciliation, LeaseActive, RowTypes, Attempts
<1>3. ASSUME NEW o \in Outcomes, Reproject(a, [rows[a] EXCEPT !.outcomes = @ \union {o}])
      PROVE  ReceiptInv'
  <2> DEFINE r == [rows[a] EXCEPT !.outcomes = @ \union {o}]
  <2>1. r \in RowTypes /\ r.status = rows[a].status /\ r.attempt = rows[a].attempt
        /\ r.simulated = rows[a].simulated
    BY <1>1 DEF RowTypes
  <2>2. (Ran(rows[a]) => Ran(r)) /\ Reproject(a, r)
    BY <1>3, <2>1 DEF Ran
  <2> HIDE DEF r
  <2> QED BY <1>2, <2>1, <2>2, ReprojectKept
<1>4. ASSUME reading' = [reading EXCEPT ![a] =
               [step |-> "all", rec |-> Standing, rows |-> [b \in linked |-> rows[b]]]],
             UNCHANGED <<rec, linked, rows, record, deciding>>
      PROVE  ReceiptInv'
  <2> DEFINE f == [b \in linked |-> rows[b]]
             x == [step |-> "all", rec |-> Standing, rows |-> f]
  <2>1. f \in UNION {[S -> RowTypes] : S \in SUBSET Approvals}
    BY LinkedRows
  <2>2. x \in ReadingTypes /\ x.rows = f
    <3> HIDE DEF f, RowTypes
    <3> QED BY <2>1, StandingTyped DEF ReadingTypes
  <2>3. Reads(x, linked, rows)
    BY <2>2, LinkedRows
  <2> QED BY <1>4, <2>2, <2>3, ReadKept
<1> QED BY <1>3, <1>4 DEF ReconcileApproval

LEMMA RecordMovesKept == ASSUME ReceiptInv, RecordMoves PROVE ReceiptInv'
<1>1. PICK s \in RecordStates[record.kind] : record' = [record EXCEPT !.status = s]
  BY DEF RecordMoves
<1>2. HasRecord /\ UNCHANGED <<rec, linked, rows, reading, deciding>>
  BY DEF RecordMoves
<1>3. /\ record.kind \in DOMAIN RecordStates
      /\ record = [kind |-> record.kind, status |-> record.status]
  BY RecordTyped DEF ReceiptInv
<1>4. record' = [kind |-> record.kind, status |-> s]
  BY <1>1, <1>3
<1>5. record' \in UNION {[kind : {k}, status : RecordStates[k]] : k \in DOMAIN RecordStates}
  <2> HIDE DEF RecordStates
  <2> QED BY <1>3, <1>4
<1>6. ReceiptTypeOK'
  BY <1>2, <1>5 DEF ReceiptInv, ReceiptTypeOK
<1>7. HasRecord'
  BY <1>2, <1>4 DEF HasRecord
<1>8. /\ Reconciled' <=> Reconciled
      /\ AllRan' <=> AllRan
      /\ OnMock' <=> OnMock
      /\ \A a \in Approvals : Fits(a)'
  BY <1>2, SameRows DEF Reconciled, ReceiptInv
<1> QED BY <1>2, <1>6, <1>7, <1>8 DEF ReceiptInv, Frozen

-----------------------------------------------------------------------------
LEMMA ReceiptStep == ReceiptInv /\ [ReceiptNext]_receiptVars => ReceiptInv'
<1> SUFFICES ASSUME ReceiptInv, [ReceiptNext]_receiptVars PROVE ReceiptInv'
  OBVIOUS
<1>1. ASSUME NEW q \in Requests, ReadWish(q) \/ WriteWish(q) PROVE ReceiptInv'
  BY <1>1, ReadWishKept, WriteWishKept
<1>2. ASSUME NEW a \in linked,
             \/ DecideApproval(a) \/ ClaimApproval(a) \/ FinishApproval(a)
             \/ LeaseLapses(a) \/ ReconcileApproval(a)
      PROVE  ReceiptInv'
  BY <1>2, DecideApprovalKept, ClaimApprovalKept, FinishApprovalKept, LeaseEndsKept, ReconcileApprovalKept
<1>3. CASE RecordMoves
  BY <1>3, RecordMovesKept
<1>4. CASE UNCHANGED receiptVars
  <2>1. /\ Frozen' <=> Frozen
        /\ Reconciled' <=> Reconciled
        /\ HasRecord' <=> HasRecord
        /\ AllRan' <=> AllRan
        /\ OnMock' <=> OnMock
        /\ \A a \in Approvals : Fits(a)'
        /\ ReceiptTypeOK'
    BY <1>4, SameRows DEF receiptVars, Frozen, Reconciled, HasRecord, ReceiptInv, ReceiptTypeOK
  <2> QED BY <1>4, <2>1 DEF receiptVars, ReceiptInv
<1> QED BY <1>1, <1>2, <1>3, <1>4 DEF ReceiptNext

LEMMA ReceiptInvAlways == ReceiptSpec => []ReceiptInv
BY ReceiptInitial, ReceiptStep, PTL DEF ReceiptSpec

\* Every recommendation, its approvals and its record stay well typed.
THEOREM ReceiptTypeCorrect == ReceiptSpec => []ReceiptTypeOK
<1>1. ReceiptInv => ReceiptTypeOK
  BY DEF ReceiptInv
<1> QED BY <1>1, ReceiptInvAlways, PTL

\* Whatever members decide while approvals are run, fail and are reconciled, and however
\* the projections of those approvals interleave, a receipt is honest: what it calls
\* completed leaves nothing to decide or run, simulated work is offered for
\* reconciliation only when all of it ran, and a reconciliation is offered just when it
\* would be accepted (projectManagerFollowThrough, recommendation).
THEOREM ReceiptHonestAlways == ReceiptSpec => []ReceiptHonest
BY ReceiptInvAlways, ReceiptFollows, PTL

-----------------------------------------------------------------------------
(* Decisions of the band                                                    *)

Choices == (UNION OptionLists) \union {Nothing}
DecisionRows ==
  [status : {"absent", "open", "decided", "reviewed"}, options : OptionLists \union {{}},
   framed : BOOLEAN, choice : Choices, grounds : BOOLEAN, due : BOOLEAN, version : 0..MaxVersion]

\* What a row says of its choice.
RowSays(row) ==
  /\ row.status \in {"decided", "reviewed"} =>
       row.choice # Nothing /\ row.choice \in row.options /\ Grounded(row)
  /\ row.status \in {"absent", "open"} => row.choice = Nothing

\* A request was checked against the row it read, and a row of the version it read is
\* that row.
Sent(q) ==
  LET r == req[q]
      now == decision[r.row]
  IN
  /\ r.doing \in {"patch", "review"} /\ r.row \in Decisions /\ r.read \in DecisionRows
  /\ r.read.version <= now.version
  /\ r.read.version = now.version => now = r.read
  /\ r.doing = "patch" => r.patch \in Patches /\ MayPatch(r.read, r.patch)
  /\ r.doing = "review" => r.read.status = "decided"

DecisionInv ==
  /\ decision \in [Decisions -> DecisionRows]
  /\ advised \in [Decisions -> {"none", "accepted", "completed"}]
  /\ \A q \in Senders : req[q] = NotSent \/ Sent(q)
  /\ DOMAIN req = Senders
  /\ \A d \in Decisions : RowSays(decision[d]) /\ (decision[d].status = "reviewed" => advised[d] # "accepted")

LEMMA NothingSent == ASSUME NEW q \in Senders, req[q] = NotSent PROVE req[q].doing = "nothing"
BY DEF NotSent

LEMMA NoDecisionTyped == ASSUME DecisionConstants PROVE NoDecision \in DecisionRows /\ RowSays(NoDecision)
<1>1. 0 \in 0..MaxVersion /\ Nothing \in Choices /\ {} \in OptionLists \union {{}}
  BY DEF DecisionConstants, Choices
<1>2. NoDecision \in DecisionRows
  BY <1>1 DEF NoDecision, DecisionRows
<1>3. NoDecision.status = "absent" /\ NoDecision.choice = Nothing
  BY DEF NoDecision
<1> QED BY <1>2, <1>3 DEF RowSays

LEMMA DecisionStart == ASSUME DecisionConstants, DecisionInit PROVE DecisionInv
<1>1. \A d \in Decisions : decision[d] = NoDecision /\ advised[d] = "none"
  BY DEF DecisionInit
<1>2. NoDecision.status = "absent"
  BY DEF NoDecision
<1> QED BY <1>1, <1>2, NoDecisionTyped DEF DecisionInit, DecisionInv

LEMMA DecisionFollows == DecisionInv => ChosenFromOptions
<1> SUFFICES ASSUME DecisionInv PROVE ChosenFromOptions
  OBVIOUS
<1>1. DecisionTypeOK
  BY DEF DecisionInv, DecisionTypeOK, DecisionRows
<1> QED BY <1>1 DEF DecisionInv, ChosenFromOptions, RowSays

LEMMA PatchedTyped ==
  ASSUME NEW row \in DecisionRows, NEW patch \in Patches
  PROVE  /\ Patched(row, patch) \in DecisionRows
         /\ Patched(row, patch).status = row.status /\ Patched(row, patch).version = row.version
         /\ DOMAIN patch = {"due"} => /\ Patched(row, patch).choice = row.choice
                                      /\ Patched(row, patch).options = row.options
<1>1. CASE \E o \in OptionLists : patch = [options |-> o]
  <2>1. PICK o \in OptionLists : patch = [options |-> o]
    BY <1>1
  <2>2. Patched(row, patch) = [row EXCEPT !.options = o, !.framed = TRUE]
    BY <2>1 DEF Patched, DecisionRows
  <2> QED BY <2>1, <2>2 DEF DecisionRows
<1>2. CASE \E due \in BOOLEAN : patch = [due |-> due]
  <2>1. PICK due \in BOOLEAN : patch = [due |-> due]
    BY <1>2
  <2>2. Patched(row, patch) = [row EXCEPT !.due = due]
    BY <2>1 DEF Patched, DecisionRows
  <2> QED BY <2>1, <2>2 DEF DecisionRows
<1>3. CASE patch = [grounds |-> TRUE]
  <2>1. Patched(row, patch) = [row EXCEPT !.grounds = TRUE]
    BY <1>3 DEF Patched, DecisionRows
  <2> QED BY <1>3, <2>1 DEF DecisionRows
<1>4. CASE \E c \in UNION OptionLists : patch = [choice |-> c, grounds |-> TRUE, due |-> TRUE]
  <2>1. PICK c \in UNION OptionLists : patch = [choice |-> c, grounds |-> TRUE, due |-> TRUE]
    BY <1>4
  <2>2. Patched(row, patch) = [row EXCEPT !.choice = c, !.grounds = TRUE, !.due = TRUE]
    BY <2>1 DEF Patched, DecisionRows
  <2>3. DOMAIN patch # {"due"}
    <3>1. "choice" \in DOMAIN patch
      BY <2>1
    <3> QED BY <3>1
  <2>4. c \in Choices
    BY <2>1 DEF Choices
  <2> QED BY <2>2, <2>3, <2>4 DEF DecisionRows
<1> QED BY <1>1, <1>2, <1>3, <1>4 DEF Patches

\* A row is written over, with a version of its own.
LEMMA RowWritten ==
  ASSUME DecisionInv, NEW d \in Decisions, NEW row \in DecisionRows, RowSays(row),
         decision' = [decision EXCEPT ![d] = row], row.version > decision[d].version,
         advised' \in [Decisions -> {"none", "accepted", "completed"}],
         \A c \in Decisions \ {d} : advised'[c] = advised[c],
         row.status = "reviewed" => advised'[d] # "accepted",
         DOMAIN req' = Senders, \A q \in Senders : req'[q] = req[q] \/ req'[q] = NotSent
  PROVE  DecisionInv'
<1>1. decision' \in [Decisions -> DecisionRows]
  BY DEF DecisionInv
<1>2. \A c \in Decisions : decision'[c] = IF c = d THEN row ELSE decision[c]
  BY DEF DecisionInv
<1>3. \A c \in Decisions : RowSays(decision'[c]) /\ (decision'[c].status = "reviewed" => advised'[c] # "accepted")
  BY <1>2 DEF DecisionInv
<1>4. ASSUME NEW q \in Senders, req[q] # NotSent, req'[q] = req[q] PROVE Sent(q)'
  <2>1. Sent(q)
    BY <1>4 DEF DecisionInv
  <2>2. CASE req[q].row = d
    <3>1. /\ req[q].read.version \in Nat /\ decision[d].version \in Nat /\ row.version \in Nat
          /\ decision'[d] = row
      BY <1>2, <2>1 DEF Sent, DecisionInv, DecisionRows
    <3> QED BY <1>4, <2>1, <2>2, <3>1 DEF Sent
  <2>3. CASE req[q].row # d
    BY <1>2, <1>4, <2>1, <2>3 DEF Sent
  <2> QED BY <2>2, <2>3
<1> QED BY <1>1, <1>3, <1>4 DEF DecisionInv, RowSays, Grounded

\* The rows stay and one request begins or ends.
LEMMA RequestChanged ==
  ASSUME DecisionInv, UNCHANGED <<decision, advised>>, NEW q \in Senders, NEW r,
         req' = [req EXCEPT ![q] = r], r = NotSent \/ Sent(q)'
  PROVE  DecisionInv'
<1>1. req'[q] = r /\ \A s \in Senders \ {q} : req'[s] = req[s]
  BY DEF DecisionInv
<1>2. \A s \in Senders \ {q} : Sent(s) => Sent(s)'
  BY <1>1 DEF Sent
<1> QED BY <1>1, <1>2 DEF DecisionInv, RowSays, Grounded

LEMMA CreateKept == ASSUME DecisionConstants, DecisionInv, NEW d \in Decisions, Create(d) PROVE DecisionInv' /\ ChoiceStands
<1>0. PICK options \in OptionLists, grounds \in BOOLEAN, due \in BOOLEAN :
        \E choice \in options \union {Nothing} :
          LET row == [status |-> IF choice = Nothing THEN "open" ELSE "decided", options |-> options,
                      framed |-> TRUE, choice |-> choice, grounds |-> grounds, due |-> due, version |-> 1]
          IN  Choosable(row) /\ decision' = [decision EXCEPT ![d] = row]
  BY DEF Create
<1>1. PICK choice \in options \union {Nothing} :
        LET row == [status |-> IF choice = Nothing THEN "open" ELSE "decided", options |-> options,
                    framed |-> TRUE, choice |-> choice, grounds |-> grounds, due |-> due, version |-> 1]
        IN  Choosable(row) /\ decision' = [decision EXCEPT ![d] = row]
  BY <1>0
<1> DEFINE row == [status |-> IF choice = Nothing THEN "open" ELSE "decided", options |-> options,
                   framed |-> TRUE, choice |-> choice, grounds |-> grounds, due |-> due, version |-> 1]
<1>2. row \in DecisionRows /\ row.version = 1
  <2>1. 1 \in 0..MaxVersion /\ choice \in Choices
    BY DEF DecisionConstants, Choices
  <2> QED BY <2>1 DEF DecisionRows
<1>3. RowSays(row) /\ row.status # "reviewed"
  <2>1. choice # Nothing => choice \in options /\ Grounded(row)
    BY <1>1 DEF Choosable
  <2> QED BY <2>1 DEF RowSays
<1>4. /\ decision' = [decision EXCEPT ![d] = row] /\ UNCHANGED <<advised, req>>
      /\ decision[d] = NoDecision
  BY <1>1 DEF Create
<1> HIDE DEF row
<1>5. decision[d].status = "absent" /\ decision[d].version = 0
  BY <1>4 DEF NoDecision
<1>6. DecisionInv'
  <2>1. /\ advised' \in [Decisions -> {"none", "accepted", "completed"}]
        /\ \A c \in Decisions \ {d} : advised'[c] = advised[c]
        /\ DOMAIN req' = Senders /\ \A q \in Senders : req'[q] = req[q] \/ req'[q] = NotSent
        /\ row.version > decision[d].version
    BY <1>2, <1>4, <1>5 DEF DecisionInv
  <2> QED BY <1>2, <1>3, <1>4, <2>1, RowWritten
<1> QED BY <1>4, <1>5, <1>6 DEF DecisionInv, ChoiceStands

LEMMA ProposeKept == ASSUME DecisionConstants, DecisionInv, NEW d \in Decisions, Propose(d) PROVE DecisionInv' /\ ChoiceStands
<1>1. PICK options \in OptionLists :
        decision' = [decision EXCEPT ![d] =
          [NoDecision EXCEPT !.status = "open", !.options = options, !.version = 1]]
  BY DEF Propose
<1> DEFINE row == [NoDecision EXCEPT !.status = "open", !.options = options, !.version = 1]
<1>2. /\ row \in DecisionRows /\ row.version = 1 /\ row.status = "open"
      /\ row.choice = Nothing
  <2>1. 1 \in 0..MaxVersion /\ Nothing \in Choices
    BY DEF DecisionConstants, Choices
  <2> QED BY <2>1 DEF DecisionRows, NoDecision
<1>3. RowSays(row)
  BY <1>2 DEF RowSays
<1>4. /\ decision' = [decision EXCEPT ![d] = row] /\ UNCHANGED req
      /\ advised' = [advised EXCEPT ![d] = "accepted"] /\ decision[d] = NoDecision
  BY <1>1 DEF Propose
<1> HIDE DEF row
<1>5. decision[d].status = "absent" /\ decision[d].version = 0
  BY <1>4 DEF NoDecision
<1>6. DecisionInv'
  <2>1. /\ advised' \in [Decisions -> {"none", "accepted", "completed"}]
        /\ \A c \in Decisions \ {d} : advised'[c] = advised[c]
        /\ DOMAIN req' = Senders /\ \A q \in Senders : req'[q] = req[q] \/ req'[q] = NotSent
        /\ row.version > decision[d].version
    BY <1>2, <1>4, <1>5 DEF DecisionInv
  <2> QED BY <1>2, <1>3, <1>4, <2>1, RowWritten
<1> QED BY <1>4, <1>5, <1>6 DEF DecisionInv, ChoiceStands

LEMMA RowsRest == UNCHANGED decision => ChoiceStands
BY DEF ChoiceStands

LEMMA PatchReadsKept ==
  ASSUME DecisionInv, NEW q \in Senders, NEW d \in Decisions, PatchReads(q, d)
  PROVE  DecisionInv' /\ ChoiceStands
<1>1. PICK patch \in Patches :
        /\ MayPatch(decision[d], patch)
        /\ req' = [req EXCEPT ![q] = [doing |-> "patch", row |-> d, read |-> decision[d], patch |-> patch]]
  BY DEF PatchReads
<1>2. UNCHANGED <<decision, advised>> /\ decision[d] \in DecisionRows
  BY DEF PatchReads, DecisionInv
<1>3. req'[q] = [doing |-> "patch", row |-> d, read |-> decision[d], patch |-> patch]
  BY <1>1 DEF DecisionInv
<1>4. decision[d].version <= decision[d].version
  BY <1>2 DEF DecisionRows
<1>5. Sent(q)'
  BY <1>1, <1>2, <1>3, <1>4 DEF Sent, MayPatch, Choosable, Grounded, Patched
<1> QED BY <1>1, <1>2, <1>5, RequestChanged, RowsRest

LEMMA ReviewReadsKept ==
  ASSUME DecisionInv, NEW q \in Senders, NEW d \in Decisions, ReviewReads(q, d)
  PROVE  DecisionInv' /\ ChoiceStands
<1>1. /\ decision[d].status = "decided" /\ UNCHANGED <<decision, advised>> /\ decision[d] \in DecisionRows
      /\ req' = [req EXCEPT ![q] = [doing |-> "review", row |-> d, read |-> decision[d]]]
  BY DEF ReviewReads, DecisionInv
<1>2. req'[q] = [doing |-> "review", row |-> d, read |-> decision[d]]
  BY <1>1 DEF DecisionInv
<1>3. decision[d].version <= decision[d].version
  BY <1>1 DEF DecisionRows
<1>4. Sent(q)'
  BY <1>1, <1>2, <1>3 DEF Sent
<1> QED BY <1>1, <1>4, RequestChanged, RowsRest

\* Nobody wrote the row since it was read.
LEMMA StillAsRead ==
  ASSUME DecisionInv, NEW q \in Senders, req[q].doing \in {"patch", "review"}, AsRead(q)
  PROVE  /\ Sent(q) /\ req[q].row \in Decisions /\ decision[req[q].row] \in DecisionRows
         /\ decision[req[q].row] = req[q].read
<1>1. Sent(q)
  BY NothingSent DEF DecisionInv
<1> QED BY <1>1 DEF Sent, AsRead, DecisionInv

LEMMA Versioned ==
  ASSUME NEW row \in DecisionRows, row.version < MaxVersion, DecisionConstants
  PROVE  LET new == [row EXCEPT !.version = row.version + 1]
         IN  /\ new \in DecisionRows /\ new.version > row.version
             /\ new.status = row.status /\ new.choice = row.choice /\ new.options = row.options
             /\ (Grounded(new) <=> Grounded(row))
<1>1. row.version + 1 \in 0..MaxVersion /\ row.version \in Nat /\ row.version + 1 > row.version
  BY DEF DecisionRows, DecisionConstants
<1> QED BY <1>1 DEF DecisionRows, Grounded

\* Writing a row over the one read, which it is not later than, keeps the invariant.
LEMMA WritesKept ==
  ASSUME DecisionConstants, DecisionInv, NEW q \in Senders, NEW row \in DecisionRows, RowSays(row),
         req[q].row \in Decisions, row.version = decision[req[q].row].version, Writes(q, row),
         advised' \in [Decisions -> {"none", "accepted", "completed"}],
         \A c \in Decisions \ {req[q].row} : advised'[c] = advised[c],
         row.status = "reviewed" => advised'[req[q].row] # "accepted",
         decision[req[q].row].status = "decided" =>
           /\ row.status \in {"decided", "reviewed"}
           /\ row.choice = decision[req[q].row].choice /\ row.options = decision[req[q].row].options,
         decision[req[q].row].status # "reviewed"
  PROVE  DecisionInv' /\ ChoiceStands
<1> DEFINE d == req[q].row
           new == [row EXCEPT !.version = row.version + 1]
<1>1. row.version < MaxVersion /\ decision' = [decision EXCEPT ![d] = new] /\ req' = [req EXCEPT ![q] = NotSent]
  BY DEF Writes
<1>2. /\ new \in DecisionRows /\ new.version > row.version
      /\ new.status = row.status /\ new.choice = row.choice /\ new.options = row.options
      /\ (Grounded(new) <=> Grounded(row))
  BY <1>1, Versioned
<1>3. RowSays(new)
  BY <1>2 DEF RowSays
<1> HIDE DEF new
<1>4. DOMAIN req' = Senders /\ \A s \in Senders : req'[s] = req[s] \/ req'[s] = NotSent
  BY <1>1 DEF DecisionInv
<1>5. DecisionInv'
  BY <1>1, <1>2, <1>3, <1>4, RowWritten
<1>6. ChoiceStands
  BY <1>1, <1>2 DEF ChoiceStands, DecisionInv
<1> QED BY <1>5, <1>6

LEMMA PatchWritesKept ==
  ASSUME DecisionConstants, DecisionInv, NEW q \in Senders, PatchWrites(q)
  PROVE  DecisionInv' /\ ChoiceStands
<1> DEFINE d == req[q].row
           patched == Patched(decision[d], req[q].patch)
           new == [patched EXCEPT !.status = IF patched.choice = Nothing THEN patched.status ELSE "decided"]
<1>1. /\ Sent(q) /\ d \in Decisions /\ decision[d] \in DecisionRows /\ decision[d] = req[q].read
      /\ req[q].patch \in Patches /\ MayPatch(decision[d], req[q].patch)
  BY StillAsRead DEF PatchWrites, Sent
<1>2. /\ patched \in DecisionRows
      /\ patched.status = decision[d].status /\ patched.version = decision[d].version
      /\ DOMAIN req[q].patch = {"due"} => patched.choice = decision[d].choice /\ patched.options = decision[d].options
  BY <1>1, PatchedTyped
<1>3. /\ decision[d].status \in {"open", "decided"}
      /\ decision[d].status = "decided" => DOMAIN req[q].patch = {"due"}
      /\ Choosable(patched)
  BY <1>1 DEF MayPatch
<1>4. Writes(q, new) /\ UNCHANGED advised
  BY DEF PatchWrites
<1> HIDE DEF patched
<1>5. /\ new \in DecisionRows /\ new.version = decision[d].version
      /\ new.choice = patched.choice /\ new.options = patched.options
      /\ new.status = (IF patched.choice = Nothing THEN patched.status ELSE "decided")
      /\ (Grounded(new) <=> Grounded(patched))
  BY <1>2 DEF DecisionRows, Grounded
<1>6. decision[d].status = "decided" => decision[d].choice # Nothing
  BY <1>1 DEF DecisionInv, RowSays
<1>7. RowSays(new) /\ new.status # "reviewed"
  BY <1>2, <1>3, <1>5, <1>6 DEF RowSays, Choosable
<1>8. decision[d].status = "decided" =>
        /\ new.status = "decided" /\ new.choice = decision[d].choice /\ new.options = decision[d].options
  BY <1>2, <1>3, <1>5, <1>6
<1> HIDE DEF new
<1> QED BY <1>1, <1>3, <1>4, <1>5, <1>7, <1>8, WritesKept DEF DecisionInv

LEMMA ReviewWritesKept ==
  ASSUME DecisionConstants, DecisionInv, NEW q \in Senders, ReviewWrites(q)
  PROVE  DecisionInv' /\ ChoiceStands
<1> DEFINE d == req[q].row
           new == [decision[d] EXCEPT !.status = "reviewed"]
<1>1. /\ d \in Decisions /\ decision[d] \in DecisionRows /\ decision[d].status = "decided"
  BY StillAsRead DEF ReviewWrites, Sent
<1>2. RowSays(decision[d])
  BY <1>1 DEF DecisionInv
<1>3. /\ new \in DecisionRows /\ new.version = decision[d].version /\ new.status = "reviewed"
      /\ new.choice = decision[d].choice /\ new.options = decision[d].options
      /\ (Grounded(new) <=> Grounded(decision[d]))
  BY <1>1 DEF DecisionRows, Grounded
<1>4. RowSays(new)
  BY <1>1, <1>2, <1>3 DEF RowSays
<1>5. /\ Writes(q, new)
      /\ advised' = [advised EXCEPT ![d] = IF advised[d] = "accepted" THEN "completed" ELSE advised[d]]
  BY DEF ReviewWrites
<1> HIDE DEF new
<1>6. /\ advised' \in [Decisions -> {"none", "accepted", "completed"}] /\ advised'[d] # "accepted"
      /\ \A c \in Decisions \ {d} : advised'[c] = advised[c]
  BY <1>1, <1>5 DEF DecisionInv
<1> QED BY <1>1, <1>3, <1>4, <1>5, <1>6, WritesKept

LEMMA RefusedKept == ASSUME DecisionInv, NEW q \in Senders, Refused(q) PROVE DecisionInv' /\ ChoiceStands
<1>1. req' = [req EXCEPT ![q] = NotSent] /\ UNCHANGED <<decision, advised>>
  BY DEF Refused
<1> QED BY <1>1, RequestChanged, RowsRest

LEMMA DecisionStep ==
  ASSUME DecisionConstants, DecisionInv, [DecisionNext]_decisionVars
  PROVE  DecisionInv' /\ ChoiceStands
<1>1. CASE UNCHANGED decisionVars
  <2>1. UNCHANGED <<decision, advised, req>>
    BY <1>1 DEF decisionVars
  <2>2. \A q \in Senders : Sent(q) => Sent(q)'
    BY <2>1 DEF Sent
  <2>3. DecisionInv'
    BY <2>1, <2>2 DEF DecisionInv, RowSays, Grounded
  <2> QED BY <2>1, <2>3, RowsRest
<1>2. CASE DecisionNext
  BY <1>2, CreateKept, ProposeKept, PatchReadsKept, ReviewReadsKept, PatchWritesKept, ReviewWritesKept, RefusedKept
     DEF DecisionNext
<1> QED BY <1>1, <1>2

\* Whoever creates, patches and reviews decisions at the same time, a choice made is
\* one of the options, made with its grounds and a date, and a reviewed decision leaves
\* no recommendation waiting for it (createDecision, patchDecision, reviewDecision).
THEOREM ChosenFromOptionsAlways == ASSUME DecisionConstants PROVE DecisionSpec => []ChosenFromOptions
<1>1. DecisionInit => DecisionInv
  BY DecisionStart
<1>2. DecisionInv /\ [DecisionNext]_decisionVars => DecisionInv'
  BY DecisionStep
<1> QED BY <1>1, <1>2, DecisionFollows, PTL DEF DecisionSpec

\* A choice is never taken back or exchanged, nor the options it was made from, and a
\* reviewed decision does not change (patchDecision, reviewDecision).
THEOREM ChoiceStandsAlways == ASSUME DecisionConstants PROVE DecisionSpec => [][ChoiceStands]_decisionVars
<1>1. DecisionInit => DecisionInv
  BY DecisionStart
<1>2. DecisionInv /\ [DecisionNext]_decisionVars => DecisionInv' /\ [ChoiceStands]_decisionVars
  BY DecisionStep
<1> QED BY <1>1, <1>2, PTL DEF DecisionSpec

-----------------------------------------------------------------------------
(* Accepting what the Manager proposes                                      *)

\* The Boolean fields; the provers are spared what the set is.
Flags == BOOLEAN

LEMMA FlagsAre == TRUE \in Flags /\ FALSE \in Flags /\ \A b \in BOOLEAN : b \in Flags
BY DEF Flags

TaskStates == [status : {"open", "done", "blocked"}, late : Flags,
               owner : {"nobody", "member", "other"}, updatedAt : Nat]
MemberStates == [active : Flags, checkIn : {"available", "limited", "unavailable"}]
Equals == [{"task", "path", "project", "event"} -> Nat]
EventStates == [on : Flags, timed : Flags, response : {"unknown", "available", "declined"}, logistics : Nat, advance : Nat]
ProjectStates == [dated : Flags, plan : Nat]
ProfileStates == [gap : Flags, updatedAt : Nat]
Memories == {"absent", "normal", "owner", "archived"}
Worlds == [task : TaskStates, member : MemberStates, lineup : Nat, equal : Equals,
           event : EventStates, project : ProjectStates, profile : ProfileStates, memory : Memories]

Outcomes0 == {"none", "suggested", "accepted", "dismissed", "completed"}
AdviceRows == [kind : Proposals, outcome : Outcomes0, seen : Worlds]

LEMMA World0Typed == World0 \in Worlds
<1>1. [task |-> 0, path |-> 0, project |-> 0, event |-> 0] \in Equals
  BY DEF Equals
<1> QED BY <1>1, FlagsAre DEF World0, Worlds, TaskStates, MemberStates, EventStates, ProjectStates, ProfileStates, Memories

LEMMA EqualToIs ==
  /\ DOMAIN EqualTo = {"create_path_task", "create_conversation_task",
                       "create_conversation_project", "create_conversation_event"}
  /\ EqualTo["create_path_task"] = "path" /\ EqualTo["create_conversation_task"] = "task"
  /\ EqualTo["create_conversation_project"] = "project" /\ EqualTo["create_conversation_event"] = "event"
BY DEF EqualTo

EqualPut(w, e) == [w EXCEPT !.equal[e] = @ + 1]

LEMMA OneMore ==
  ASSUME NEW w \in Worlds, NEW e \in {"task", "path", "project", "event"}
  PROVE  LET v == EqualPut(w, e)
         IN  /\ v \in Worlds
             /\ v.task = w.task /\ v.member = w.member /\ v.lineup = w.lineup /\ v.event = w.event
             /\ v.profile = w.profile /\ v.memory = w.memory
             /\ v.equal = [w.equal EXCEPT ![e] = w.equal[e] + 1]
<1>1. [w.equal EXCEPT ![e] = w.equal[e] + 1] \in Equals
  BY DEF Worlds, Equals
<1> QED BY <1>1 DEF EqualPut, Worlds

\* The task is written, and nothing beside it.
TaskMoved(w, v) ==
  /\ v \in Worlds
  /\ v.task.updatedAt = w.task.updatedAt + 1
  /\ v.member = w.member /\ v.lineup = w.lineup /\ v.equal = w.equal /\ v.event = w.event
  /\ v.profile = w.profile /\ v.memory = w.memory

LEMMA TaskWritten ==
  ASSUME NEW w \in Worlds, NEW t \in TaskStates, t.updatedAt = w.task.updatedAt + 1,
         NEW v, v = [w EXCEPT !.task = t]
  PROVE  TaskMoved(w, v) /\ v.task = t
BY DEF TaskMoved, Worlds

StatusPut(w, s) == [w EXCEPT !.task.status = s, !.task.updatedAt = @ + 1]
OwnerPut(w, o) == [w EXCEPT !.task.owner = o, !.task.updatedAt = @ + 1]
LatePut(w) == [w EXCEPT !.task.late = TRUE, !.task.updatedAt = @ + 1]

LEMMA StatusSet ==
  ASSUME NEW w \in Worlds, NEW s \in {"open", "done", "blocked"}
  PROVE  TaskMoved(w, StatusPut(w, s)) /\ StatusPut(w, s).task.owner = w.task.owner
<1> DEFINE t == w.task
           u == w.task.updatedAt + 1
           x == [t EXCEPT !.status = s, !.updatedAt = u]
<1>1. t \in TaskStates /\ u \in Nat
  BY DEF Worlds, TaskStates
<1>2. StatusPut(w, s) = [w EXCEPT !.task = x]
  BY DEF StatusPut, Worlds, TaskStates
<1> HIDE DEF t, u
<1>3. x \in TaskStates /\ x.updatedAt = u /\ x.owner = t.owner
  BY <1>1 DEF TaskStates
<1> HIDE DEF x
<1>4. u = w.task.updatedAt + 1 /\ t = w.task
  BY DEF t, u
<1> QED BY <1>2, <1>3, <1>4, TaskWritten

LEMMA OwnerSet ==
  ASSUME NEW w \in Worlds, NEW o \in {"nobody", "member", "other"}
  PROVE  TaskMoved(w, OwnerPut(w, o)) /\ OwnerPut(w, o).task.status = w.task.status /\ OwnerPut(w, o).task.late = w.task.late
<1> DEFINE t == w.task
           u == w.task.updatedAt + 1
           x == [t EXCEPT !.owner = o, !.updatedAt = u]
<1>1. t \in TaskStates /\ u \in Nat
  BY DEF Worlds, TaskStates
<1>2. OwnerPut(w, o) = [w EXCEPT !.task = x]
  BY DEF OwnerPut, Worlds, TaskStates
<1> HIDE DEF t, u
<1>3. x \in TaskStates /\ x.updatedAt = u /\ x.status = t.status /\ x.late = t.late
  BY <1>1 DEF TaskStates
<1> HIDE DEF x
<1>4. u = w.task.updatedAt + 1 /\ t = w.task
  BY DEF t, u
<1> QED BY <1>2, <1>3, <1>4, TaskWritten

LEMMA LateSet ==
  ASSUME NEW w \in Worlds
  PROVE  TaskMoved(w, LatePut(w)) /\ LatePut(w).task.owner = w.task.owner
<1> DEFINE t == w.task
           u == w.task.updatedAt + 1
           x == [t EXCEPT !.late = TRUE, !.updatedAt = u]
<1>1. t \in TaskStates /\ u \in Nat
  BY DEF Worlds, TaskStates
<1>2. LatePut(w) = [w EXCEPT !.task = x]
  BY DEF LatePut, Worlds, TaskStates
<1> HIDE DEF t, u
<1>3. x \in TaskStates /\ x.updatedAt = u /\ x.owner = t.owner
  BY <1>1, FlagsAre DEF TaskStates
<1> HIDE DEF x
<1>4. u = w.task.updatedAt + 1 /\ t = w.task
  BY DEF t, u
<1> QED BY <1>2, <1>3, <1>4, TaskWritten

LEMMA OthersWritten ==
  ASSUME NEW w \in Worlds
  PROVE  /\ \A m \in MemberStates, n \in Nat : [w EXCEPT !.member = m, !.lineup = n] \in Worlds
         /\ \A x \in EventStates : [w EXCEPT !.event = x] \in Worlds
         /\ \A p \in ProfileStates : [w EXCEPT !.profile = p] \in Worlds
         /\ \A c \in Memories : [w EXCEPT !.memory = c] \in Worlds
         /\ w.event.logistics \in Nat /\ w.profile.updatedAt \in Nat /\ w.lineup \in Nat
         /\ w.member \in MemberStates /\ w.event \in EventStates /\ w.profile \in ProfileStates
BY DEF Worlds, MemberStates, EventStates, ProfileStates

LEMMA ProjectWritten ==
  ASSUME NEW w \in Worlds, NEW v, NEW x \in ProjectStates, v = [w EXCEPT !.project = x]
  PROVE  /\ v \in Worlds /\ v.task = w.task /\ v.equal = w.equal
         /\ v.event = w.event /\ v.profile = w.profile /\ v.memory = w.memory
BY DEF Worlds

LEMMA ResponsePut ==
  ASSUME NEW w \in Worlds, NEW r \in {"available", "declined"}
  PROVE  [w.event EXCEPT !.response = r] \in EventStates
<1> DEFINE x == w.event
<1>1. x \in EventStates
  BY DEF Worlds
<1> HIDE DEF x
<1>2. [x EXCEPT !.response = r] \in EventStates
  BY <1>1 DEF EventStates
<1> QED BY <1>2 DEF x

LogisticsPut(w) == [w EXCEPT !.event.logistics = @ + 1]

LEMMA LogisticsSet ==
  ASSUME NEW w \in Worlds
  PROVE  \E x \in EventStates : LogisticsPut(w) = [w EXCEPT !.event = x] /\ x.response = w.event.response
<1> DEFINE u == w.event.logistics + 1
           x == [w.event EXCEPT !.logistics = u]
<1>1. LogisticsPut(w) = [w EXCEPT !.event = x]
  BY DEF LogisticsPut, Worlds, EventStates
<1>2. u \in Nat /\ w.event \in EventStates
  BY DEF Worlds, EventStates
<1> HIDE DEF u
<1>3. x \in EventStates /\ x.response = w.event.response
  BY <1>2 DEF EventStates
<1> QED BY <1>1, <1>3

ProfilePut(w, g) == [w EXCEPT !.profile.gap = g, !.profile.updatedAt = @ + 1]

LEMMA ProfileSet ==
  ASSUME NEW w \in Worlds, NEW g \in Flags
  PROVE  /\ \E p \in ProfileStates : ProfilePut(w, g) = [w EXCEPT !.profile = p]
         /\ ProfilePut(w, g) = [w EXCEPT !.profile.updatedAt = @ + 1, !.profile.gap = g]
<1> DEFINE u == w.profile.updatedAt + 1
           p == [w.profile EXCEPT !.gap = g, !.updatedAt = u]
<1>1. ProfilePut(w, g) = [w EXCEPT !.profile = p]
  BY DEF ProfilePut, Worlds, ProfileStates
<1>2. ProfilePut(w, g) = [w EXCEPT !.profile.updatedAt = @ + 1, !.profile.gap = g]
  BY DEF ProfilePut, Worlds, ProfileStates
<1>3. u \in Nat /\ w.profile \in ProfileStates
  BY DEF Worlds, ProfileStates
<1> HIDE DEF u
<1>4. p \in ProfileStates
  BY <1>3 DEF ProfileStates
<1> QED BY <1>1, <1>2, <1>4

\* A record that is written carries a later updatedAt, and equal records come
\* one at a time.
Onward(w, v) ==
  /\ v \in Worlds
  /\ v.task = w.task \/ v.task.updatedAt = w.task.updatedAt + 1
  /\ \A e \in {"task", "path", "project", "event"} :
       v.equal[e] = w.equal[e] \/ v.equal[e] = w.equal[e] + 1

\* Which kind of proposal may write what.
WrittenBy(k, w, v) ==
  /\ (v.task.status # w.task.status \/ v.task.late # w.task.late) => k = "update_conversation_task"
  /\ v.task.owner # w.task.owner => k \in {"assign_task", "assign_conversation_task"}
  /\ v.event.response # w.event.response => k = "update_conversation_event_availability"
  /\ v.event.logistics # w.event.logistics => k = "prepare_event_logistics_approvals"
  /\ v.profile.gap # w.profile.gap => k = "profile_context"
  /\ v.memory # w.memory => k = "remember_fact" /\ v.memory = "normal"
  /\ \A e \in {"task", "path", "project", "event"} : v.equal[e] # w.equal[e] =>
       k \in DOMAIN EqualTo /\ e = EqualTo[k]

LEMMA SameTask ==
  ASSUME NEW w \in Worlds, NEW v \in Worlds,
         v.task = w.task, v.equal = w.equal
  PROVE  Onward(w, v)
BY DEF Onward

LEMMA EffectsOf ==
  ASSUME NEW k \in Kinds, NEW w \in Worlds, NEW v \in Effects(k, w)
  PROVE  Onward(w, v) /\ WrittenBy(k, w, v)
<1> USE EqualToIs
<1>1. CASE k \in DOMAIN EqualTo
  <2>1. v = EqualPut(w, EqualTo[k])
    BY <1>1 DEF Effects, EqualPut
  <2>2. EqualTo[k] \in {"task", "path", "project", "event"}
    BY <1>1
  <2>3. w.equal \in Equals
    BY DEF Worlds
  <2> DEFINE e == EqualTo[k]
  <2>4. e = EqualTo[k]
    OBVIOUS
  <2> HIDE DEF e
  <2>5. v.equal = [w.equal EXCEPT ![e] = w.equal[e] + 1] /\ v \in Worlds /\ v.task = w.task
        /\ v.event = w.event /\ v.profile = w.profile /\ v.memory = w.memory
    BY <2>1, <2>2, <2>4, OneMore
  <2>6. Onward(w, v)
    BY <2>2, <2>3, <2>4, <2>5 DEF Onward, Equals
  <2> QED BY <1>1, <2>3, <2>4, <2>5, <2>6 DEF WrittenBy, Equals
<1>2. CASE k = "update_conversation_task"
  <2>1. \/ \E s \in {"done", "blocked"} : v = StatusPut(w, s)
        \/ v = LatePut(w)
    BY <1>2 DEF Effects, StatusPut, LatePut
  <2>2. TaskMoved(w, v) /\ v.task.owner = w.task.owner
    BY <2>1, StatusSet, OwnerSet, LateSet
  <2> QED BY <1>2, <2>2 DEF TaskMoved, Onward, WrittenBy
<1>3. CASE k \in {"assign_task", "assign_conversation_task"}
  <2>1. v = OwnerPut(w, "member")
    BY <1>3 DEF Effects, OwnerPut
  <2>2. TaskMoved(w, v) /\ v.task.status = w.task.status /\ v.task.late = w.task.late
    BY <2>1, StatusSet, OwnerSet, LateSet
  <2> QED BY <1>3, <2>2 DEF TaskMoved, Onward, WrittenBy
<1>4. CASE k = "update_conversation_event_availability"
  <2>1. PICK r \in {"available", "declined"} : v = [w EXCEPT !.event.response = r]
    BY <1>4 DEF Effects
  <2>2. [w.event EXCEPT !.response = r] \in EventStates
    BY ResponsePut
  <2>3. v = [w EXCEPT !.event = [w.event EXCEPT !.response = r]] /\ v \in Worlds
    BY <2>1, <2>2, OthersWritten
  <2>4. v.task = w.task /\ v.equal = w.equal /\ v.profile = w.profile /\ v.memory = w.memory
        /\ v.event.logistics = w.event.logistics
    BY <2>3, OthersWritten DEF Worlds, EventStates
  <2> QED BY <1>4, <2>3, <2>4, SameTask DEF WrittenBy
<1>5. CASE k = "profile_context"
  <2>1. v = ProfilePut(w, FALSE)
    BY <1>5 DEF Effects, ProfilePut
  <2>2. PICK p \in ProfileStates : v = [w EXCEPT !.profile = p]
    BY <2>1, ProfileSet, FlagsAre
  <2>3. v = [w EXCEPT !.profile = p] /\ v \in Worlds
    BY <2>2, OthersWritten
  <2>4. v.task = w.task /\ v.equal = w.equal /\ v.event = w.event /\ v.memory = w.memory
    BY <2>3 DEF Worlds
  <2> QED BY <1>5, <2>3, <2>4, SameTask DEF WrittenBy
<1>6. CASE k = "remember_fact"
  <2>1. v = [w EXCEPT !.memory = "normal"]
    BY <1>6 DEF Effects
  <2>2. v \in Worlds /\ v.memory = "normal"
    BY <2>1, OthersWritten DEF Worlds, Memories
  <2>3. v.task = w.task /\ v.equal = w.equal /\ v.event = w.event /\ v.profile = w.profile
    BY <2>1 DEF Worlds
  <2> QED BY <1>6, <2>2, <2>3, SameTask DEF WrittenBy
<1>7. CASE k \in {"prepare_event_logistics_approvals", "generate_event_advance"}
  <2>1. \E x \in EventStates : /\ x.response = w.event.response
                               /\ x.logistics # w.event.logistics => k = "prepare_event_logistics_approvals"
                               /\ v = [w EXCEPT !.event = x]
    <3>1. CASE k = "prepare_event_logistics_approvals"
      <4>1. v = LogisticsPut(w)
        BY <3>1 DEF Effects, LogisticsPut
      <4>2. PICK x \in EventStates : v = [w EXCEPT !.event = x] /\ x.response = w.event.response
        BY <4>1, LogisticsSet
      <4> QED BY <3>1, <4>2
    <3>2. CASE k = "generate_event_advance"
      <4>1. v = [w EXCEPT !.event.advance = 1]
        BY <3>2 DEF Effects
      <4>2. [w.event EXCEPT !.advance = 1] \in EventStates
        BY OthersWritten DEF EventStates
      <4> QED BY <3>2, <4>1, <4>2, OthersWritten DEF EventStates
    <3> QED BY <1>7, <3>1, <3>2
  <2>2. v \in Worlds /\ v.task = w.task /\ v.equal = w.equal /\ v.profile = w.profile /\ v.memory = w.memory
        /\ v.event.response = w.event.response
        /\ (v.event.logistics # w.event.logistics => k = "prepare_event_logistics_approvals")
    BY <2>1, OthersWritten DEF Worlds
  <2> QED BY <1>7, <2>2, SameTask DEF WrittenBy
<1>8. CASE k \in {"create_task", "create_decision"}
  <2>1. v = w
    BY <1>8 DEF Effects
  <2> QED BY <2>1, SameTask DEF WrittenBy
<1>9. CASE k = "generate_project_plan"
  <2>1. v = [w EXCEPT !.project.plan = 1]
    BY <1>9 DEF Effects
  <2>2. [w.project EXCEPT !.plan = 1] \in ProjectStates
    BY DEF Worlds, ProjectStates
  <2>3. v = [w EXCEPT !.project = [w.project EXCEPT !.plan = 1]]
    BY <2>1 DEF Worlds
  <2> QED BY <2>2, <2>3, ProjectWritten, SameTask DEF WrittenBy
<1> QED BY <1>1, <1>2, <1>3, <1>4, <1>5, <1>6, <1>7, <1>8, <1>9 DEF Kinds
LEMMA EditsOf ==
  ASSUME world \in Worlds, NEW k \in Kinds, NEW v \in EditsAbout(k)
  PROVE  Onward(world, v)
<1> USE EqualToIs
<1>1. ASSUME v \in MemberEdits PROVE Onward(world, v)
  <2>1. \E m \in MemberStates, n \in Nat : v = [world EXCEPT !.member = m, !.lineup = n]
    <3>1. CASE v \in {[world EXCEPT !.member.checkIn = c] : c \in {"available", "limited", "unavailable"}}
      <4>1. PICK c \in {"available", "limited", "unavailable"} : v = [world EXCEPT !.member.checkIn = c]
        BY <3>1
      <4>2. [world.member EXCEPT !.checkIn = c] \in MemberStates
        BY OthersWritten DEF MemberStates
      <4>3. v = [world EXCEPT !.member = [world.member EXCEPT !.checkIn = c], !.lineup = world.lineup]
        BY <4>1 DEF Worlds
      <4> QED BY <4>2, <4>3, OthersWritten
    <3>2. CASE v = [world EXCEPT !.member.active = ~@, !.lineup = @ + 1]
      <4> DEFINE f == ~world.member.active
                 m == [world.member EXCEPT !.active = f]
                 n == world.lineup + 1
      <4>0. f \in Flags
        BY DEF Flags
      <4>1. n \in Nat
        BY DEF Worlds
      <4>2. v = [world EXCEPT !.member = m, !.lineup = n]
        BY <3>2 DEF Worlds
      <4> HIDE DEF f, n
      <4>3. m \in MemberStates
        BY <4>0, OthersWritten DEF MemberStates
      <4> HIDE DEF m
      <4> QED BY <4>1, <4>2, <4>3
    <3> QED BY <1>1, <3>1, <3>2 DEF MemberEdits
  <2>2. PICK m \in MemberStates, n \in Nat : v = [world EXCEPT !.member = m, !.lineup = n]
    BY <2>1
  <2>3. v \in Worlds
    BY <2>2, OthersWritten
  <2>4. v.task = world.task /\ v.equal = world.equal
    BY <2>2 DEF Worlds
  <2> QED BY <2>3, <2>4, SameTask
<1>2. ASSUME v \in EventEdits PROVE Onward(world, v)
  <2>1. \E x \in EventStates : v = [world EXCEPT !.event = x]
    <3>1. CASE v \in {[world EXCEPT !.event.response = r] : r \in {"available", "declined"}}
      <4>1. PICK r \in {"available", "declined"} : v = [world EXCEPT !.event.response = r]
        BY <3>1
      <4>2. [world.event EXCEPT !.response = r] \in EventStates
        BY ResponsePut
      <4> QED BY <4>1, <4>2
    <3>2. CASE v = [world EXCEPT !.event.on = FALSE]
      <4>1. [world.event EXCEPT !.on = FALSE] \in EventStates
        BY OthersWritten, FlagsAre DEF EventStates
      <4> QED BY <3>2, <4>1
    <3>3. CASE v = LogisticsPut(world)
      BY <3>3, LogisticsSet
    <3> QED BY <1>2, <3>1, <3>2, <3>3 DEF EventEdits, LogisticsPut
  <2>2. v \in Worlds /\ v.task = world.task /\ v.equal = world.equal
    BY <2>1, OthersWritten DEF Worlds
  <2> QED BY <2>2, SameTask
<1>3. ASSUME v \in ProfileEdits PROVE Onward(world, v)
  <2>1. PICK g \in Flags : v = [world EXCEPT !.profile.updatedAt = @ + 1, !.profile.gap = g]
    BY <1>3 DEF ProfileEdits, Flags
  <2>2. PICK p \in ProfileStates : v = [world EXCEPT !.profile = p]
    <3>1. v = ProfilePut(world, g)
      BY <2>1, ProfileSet
    <3> QED BY <3>1, ProfileSet
  <2>4. v \in Worlds /\ v.task = world.task /\ v.equal = world.equal
    BY <2>2, OthersWritten DEF Worlds
  <2> QED BY <2>4, SameTask
<1>4. ASSUME v \in MemoryEdits PROVE Onward(world, v)
  <2>1. PICK c \in Memories : v = [world EXCEPT !.memory = c]
    BY <1>4 DEF MemoryEdits, Memories
  <2>2. v \in Worlds
    BY <2>1, OthersWritten
  <2>3. v.task = world.task /\ v.equal = world.equal
    BY <2>1 DEF Worlds
  <2> QED BY <2>2, <2>3, SameTask
<1>5. ASSUME v \in TaskEdits PROVE Onward(world, v)
  <2>1. \/ \E s \in {"open", "done"} : v = StatusPut(world, s)
        \/ \E o \in {"nobody", "other"} : v = OwnerPut(world, o)
    BY <1>5 DEF TaskEdits, StatusPut, OwnerPut
  <2>2. TaskMoved(world, v)
    BY <2>1, StatusSet, OwnerSet, LateSet
  <2> QED BY <2>2 DEF TaskMoved, Onward
<1>6. ASSUME k \in DOMAIN EqualTo, v = EqualPut(world, EqualTo[k]) PROVE Onward(world, v)
  <2>1. EqualTo[k] \in {"task", "path", "project", "event"} /\ world.equal \in Equals
    BY <1>6 DEF Worlds
  <2> DEFINE e == EqualTo[k]
  <2>2. e = EqualTo[k]
    OBVIOUS
  <2> HIDE DEF e
  <2>3. v.equal = [world.equal EXCEPT ![e] = world.equal[e] + 1] /\ v \in Worlds /\ v.task = world.task
    BY <1>6, <2>1, <2>2, OneMore
  <2> QED BY <2>1, <2>2, <2>3 DEF Onward, Equals
<1>9. ASSUME v \in TimeEdits PROVE Onward(world, v)
  <2>1. PICK b \in Flags : v = [world EXCEPT !.event.timed = b]
    BY <1>9 DEF TimeEdits, Flags
  <2>2. [world.event EXCEPT !.timed = b] \in EventStates
    BY OthersWritten DEF EventStates
  <2>3. v = [world EXCEPT !.event = [world.event EXCEPT !.timed = b]]
    BY <2>1 DEF Worlds
  <2>5. v \in Worlds
    BY <2>2, <2>3, OthersWritten
  <2>4. v.task = world.task /\ v.equal = world.equal
    BY <2>3 DEF Worlds
  <2> QED BY <2>4, <2>5, SameTask
<1>10. ASSUME v \in DateEdits PROVE Onward(world, v)
  <2>1. PICK b \in Flags : v = [world EXCEPT !.project.dated = b]
    BY <1>10 DEF DateEdits, Flags
  <2>2. [world.project EXCEPT !.dated = b] \in ProjectStates
    BY DEF Worlds, ProjectStates
  <2>3. v = [world EXCEPT !.project = [world.project EXCEPT !.dated = b]]
    BY <2>1 DEF Worlds
  <2> QED BY <2>2, <2>3, ProjectWritten, SameTask
<1> HIDE DEF MemberEdits, TaskEdits, EventEdits, ProfileEdits, MemoryEdits, TimeEdits, DateEdits
<1>7. CASE k \in DOMAIN EqualTo
  <2>1. v = EqualPut(world, EqualTo[k]) \/ v \in MemberEdits
    BY <1>7 DEF EditsAbout, EqualPut
  <2> QED BY <1>7, <2>1, <1>1, <1>6
<1>8. CASE k \notin DOMAIN EqualTo
  <2>1. \/ v \in TaskEdits \union MemberEdits \union EventEdits \union ProfileEdits \union MemoryEdits
        \/ v \in TimeEdits \union DateEdits
    BY <1>8 DEF EditsAbout
  <2> QED BY <2>1, <1>1, <1>2, <1>3, <1>4, <1>5, <1>9, <1>10
<1> QED BY <1>7, <1>8

AnswerRows == [of : Recommendations \union {"none"}, wish : {"none", "accepted", "dismissed", "completed"},
            read : [owner : {"nobody", "member", "other"},
                    checkIn : {"available", "limited", "unavailable"}, profileAt : Nat]]

\* A version of the task stands for its content, and what was suggested was true
\* of the records as they were; what a transaction trusts was read after that.
AcceptInv ==
  /\ world \in Worlds
  /\ advice \in [Recommendations -> AdviceRows]
  /\ edits \in Nat
  /\ acted \in [Recommendations -> Nat]
  /\ answer \in [Answerers -> AnswerRows]
  /\ \A r \in Recommendations :
       /\ acted[r] <= (IF advice[r].outcome \in {"none", "suggested", "dismissed"} THEN 0 ELSE 1)
       /\ advice[r].outcome # "none" =>
            /\ advice[r].seen.task.updatedAt <= world.task.updatedAt
            /\ advice[r].seen.task.updatedAt = world.task.updatedAt => advice[r].seen.task = world.task
            /\ advice[r].kind = "profile_context" => advice[r].seen.profile.gap
            /\ advice[r].kind = "assign_task" =>
                 advice[r].seen.task.owner = "nobody" /\ advice[r].seen.member.checkIn # "unavailable"
  /\ \A e \in {"task", "path", "project", "event"} : world.equal[e] <= 1 + edits
  /\ \A q \in Answerers : answer[q] # NoRequest =>
       /\ answer[q].of \in Recommendations
       /\ answer[q].wish \in {"accepted", "dismissed", "completed"}
       /\ advice[answer[q].of].outcome # "none"
       /\ answer[q].wish = "accepted" /\ advice[answer[q].of].kind = "assign_task" =>
            /\ answer[q].read.owner = "nobody"
            /\ answer[q].read.checkIn = advice[answer[q].of].seen.member.checkIn

LEMMA KeptOnward ==
  ASSUME AcceptInv, NEW v, Onward(world, v), NEW r \in Recommendations, advice[r].outcome # "none"
  PROVE  /\ advice[r].seen.task.updatedAt <= v.task.updatedAt
         /\ advice[r].seen.task.updatedAt = v.task.updatedAt => advice[r].seen.task = v.task
<1>1. /\ advice[r].seen.task.updatedAt <= world.task.updatedAt
      /\ advice[r].seen.task.updatedAt = world.task.updatedAt => advice[r].seen.task = world.task
  BY DEF AcceptInv
<1>2. advice[r].seen.task.updatedAt \in Nat /\ world.task.updatedAt \in Nat
  BY DEF AcceptInv, AdviceRows, Worlds, TaskStates
<1> QED BY <1>1, <1>2 DEF Onward
LEMMA AcceptInvInit ==
  ASSUME AcceptanceConstants, AcceptanceInit
  PROVE  AcceptInv
<1> USE DEF AcceptanceInit
<1>1. advice \in [Recommendations -> AdviceRows]
  BY World0Typed DEF AdviceRows, Outcomes0
<1>2. NoRequest \in AnswerRows
  BY DEF NoRequest, AnswerRows, Kept, World0
<1>3. \A e \in {"task", "path", "project", "event"} : world.equal[e] <= 1 + edits
  BY DEF World0
<1> QED BY <1>1, <1>2, <1>3, World0Typed DEF AcceptInv

LEMMA SuggestKeeps ==
  ASSUME AcceptInv, NEW r \in Recommendations, Suggest(r)
  PROVE  AcceptInv'
<1> USE DEF AcceptInv, Suggest
<1>0. [advice[r] EXCEPT !.outcome = "suggested", !.seen = world] \in AdviceRows
  BY DEF AdviceRows, Outcomes0
<1>1. advice' \in [Recommendations -> AdviceRows]
  BY <1>0
<1>2. \A x \in Recommendations : x # r => advice'[x] = advice[x]
  OBVIOUS
<1>3. /\ advice'[r].outcome = "suggested" /\ advice'[r].seen = world /\ advice'[r].kind = advice[r].kind
      /\ advice[r].outcome = "none"
  BY DEF AdviceRows
<1>4. /\ advice[r].kind = "profile_context" => world.profile.gap
      /\ advice[r].kind = "assign_task" =>
           world.task.owner = "nobody" /\ world.member.checkIn # "unavailable"
  BY DEF Current, MayBeAssigned
<1>5. \A x \in Recommendations :
        /\ acted'[x] <= (IF advice'[x].outcome \in {"none", "suggested", "dismissed"} THEN 0 ELSE 1)
        /\ advice'[x].outcome # "none" =>
             /\ advice'[x].seen.task.updatedAt <= world'.task.updatedAt
             /\ advice'[x].seen.task.updatedAt = world'.task.updatedAt => advice'[x].seen.task = world'.task
             /\ advice'[x].kind = "profile_context" => advice'[x].seen.profile.gap
             /\ advice'[x].kind = "assign_task" =>
                  advice'[x].seen.task.owner = "nobody" /\ advice'[x].seen.member.checkIn # "unavailable"
  <2> TAKE x \in Recommendations
  <2>1. CASE x # r
    BY <1>2, <2>1
  <2>2. CASE x = r
    BY <1>3, <1>4, <2>2 DEF Worlds, TaskStates
  <2> QED BY <2>1, <2>2
<1>6. ASSUME NEW q \in Answerers, answer'[q] # NoRequest
      PROVE  /\ answer'[q].of \in Recommendations
             /\ answer'[q].wish \in {"accepted", "dismissed", "completed"}
             /\ advice'[answer'[q].of].outcome # "none"
             /\ answer'[q].wish = "accepted" /\ advice'[answer'[q].of].kind = "assign_task" =>
                  /\ answer'[q].read.owner = "nobody"
                  /\ answer'[q].read.checkIn = advice'[answer'[q].of].seen.member.checkIn
  <2>1. answer'[q] = answer[q] /\ answer[q].of # r
    BY <1>3, <1>6
  <2> QED BY <1>2, <1>6, <2>1
<1> QED BY <1>1, <1>5, <1>6

LEMMA ReadKeeps ==
  ASSUME AcceptInv, NEW q \in Answerers, ReadAnswer(q)
  PROVE  AcceptInv'
<1> USE DEF AcceptInv
<1>1. PICK r \in Recommendations, wish \in {"accepted", "dismissed", "completed"} :
        /\ advice[r].outcome \in AllowedFor(wish)
        /\ wish = "accepted" => Current(advice[r].kind, world, advice[r].seen)
        /\ answer' = [answer EXCEPT ![q] = [of |-> r, wish |-> wish, read |-> Kept(world)]]
  BY DEF ReadAnswer
<1>2. UNCHANGED <<world, advice, edits, acted>>
  BY DEF ReadAnswer
<1>3. [of |-> r, wish |-> wish, read |-> Kept(world)] \in AnswerRows
  BY DEF AnswerRows, Kept, Worlds, TaskStates, MemberStates, ProfileStates
<1>4. advice[r].outcome # "none"
  BY <1>1 DEF AllowedFor
<1>5. wish = "accepted" /\ advice[r].kind = "assign_task" =>
        Kept(world).owner = "nobody" /\ Kept(world).checkIn = advice[r].seen.member.checkIn
  BY <1>1 DEF Current, MayBeAssigned, Kept
<1>6. ASSUME NEW p \in Answerers, answer'[p] # NoRequest
      PROVE  /\ answer'[p].of \in Recommendations
             /\ answer'[p].wish \in {"accepted", "dismissed", "completed"}
             /\ advice'[answer'[p].of].outcome # "none"
             /\ answer'[p].wish = "accepted" /\ advice'[answer'[p].of].kind = "assign_task" =>
                  /\ answer'[p].read.owner = "nobody"
                  /\ answer'[p].read.checkIn = advice'[answer'[p].of].seen.member.checkIn
  <2>1. CASE p = q
    BY <1>1, <1>2, <1>4, <1>5, <2>1
  <2>2. CASE p # q
    BY <1>1, <1>2, <1>6, <2>2
  <2> QED BY <2>1, <2>2
<1>7. answer' \in [Answerers -> AnswerRows]
  BY <1>1, <1>3
<1> QED BY <1>2, <1>6, <1>7

LEMMA AcceptEditKeeps ==
  ASSUME AcceptanceConstants, AcceptInv, Edit
  PROVE  AcceptInv'
<1> USE DEF AcceptInv
<1>1. PICK r \in Recommendations : world' \in EditsAbout(advice[r].kind)
  BY DEF Edit
<1>2. advice[r].kind \in Kinds
  BY DEF AcceptanceConstants, AdviceRows
<1>3. Onward(world, world')
  BY <1>1, <1>2, EditsOf
<1>4. UNCHANGED <<advice, answer, acted>> /\ edits' = edits + 1
  BY DEF Edit
<1>5. \A e \in {"task", "path", "project", "event"} : world'.equal[e] <= 1 + edits'
  BY <1>3, <1>4 DEF Onward, Worlds, Equals
<1>6. \A x \in Recommendations : advice'[x].outcome # "none" =>
             /\ advice'[x].seen.task.updatedAt <= world'.task.updatedAt
             /\ advice'[x].seen.task.updatedAt = world'.task.updatedAt => advice'[x].seen.task = world'.task
  BY <1>3, <1>4, KeptOnward
<1>7. world' \in Worlds
  BY <1>3 DEF Onward
<1> QED BY <1>4, <1>5, <1>6, <1>7
\* An answer that changes the records found its recommendation only suggested,
\* and the checks of the transaction passed.
LEMMA ActedOn ==
  ASSUME AcceptanceConstants, AcceptInv, NEW q \in Answerers, WriteAnswer(q)
  PROVE  \/ UNCHANGED <<world, acted>>
         \/ LET r == answer[q].of IN
            /\ answer[q].wish = "accepted" /\ advice[r].outcome = "suggested"
            /\ Recheck(advice[r].kind, world, advice[r].seen, answer[q].read)
            /\ world' \in Effects(advice[r].kind, world)
            /\ Onward(world, world') /\ WrittenBy(advice[r].kind, world, world')
            /\ acted' = [acted EXCEPT ![r] = acted[r] + 1]
            /\ advice' = [advice EXCEPT ![r].outcome = Outcome(r, "accepted")]
<1> DEFINE r == answer[q].of
<1>1. r \in Recommendations /\ answer[q] # NoRequest
  BY DEF WriteAnswer, AcceptInv
<1>2. CASE Claims(r, answer[q].wish) /\ answer[q].wish = "accepted"
           /\ Recheck(advice[r].kind, world, advice[r].seen, answer[q].read)
  <2>1. /\ world' \in Effects(advice[r].kind, world)
        /\ acted' = [acted EXCEPT ![r] = acted[r] + 1]
        /\ advice' = [advice EXCEPT ![r].outcome = Outcome(r, "accepted")]
    BY <1>2 DEF WriteAnswer
  <2>2. advice[r].kind \in Kinds /\ world \in Worlds
    BY <1>1 DEF AcceptInv, AcceptanceConstants, AdviceRows
  <2>3. advice[r].outcome = "suggested"
    BY <1>2 DEF Claims, AllowedFor
  <2> QED BY <1>2, <2>1, <2>2, <2>3, EffectsOf
<1>3. CASE ~(Claims(r, answer[q].wish) /\ answer[q].wish = "accepted"
             /\ Recheck(advice[r].kind, world, advice[r].seen, answer[q].read))
  BY <1>3 DEF WriteAnswer
<1> QED BY <1>2, <1>3

\* One acceptance makes one record only where there was none like it.
LEMMA MadeAlone ==
  ASSUME AcceptInv, NEW k \in Kinds, NEW s, NEW m, Recheck(k, world, s, m),
         NEW v, Onward(world, v), WrittenBy(k, world, v),
         NEW e \in {"task", "path", "project", "event"}, v.equal[e] # world.equal[e]
  PROVE  world.equal[e] = 0 /\ (e = "event" => world.lineup = s.lineup)
<1>1. k \in DOMAIN EqualTo /\ e = EqualTo[k]
  BY DEF WrittenBy
<1>2. Current(k, world, s)
  BY <1>1, EqualToIs DEF Recheck
<1> QED BY <1>1, <1>2, EqualToIs DEF Current

LEMMA WriteKeeps ==
  ASSUME AcceptanceConstants, AcceptInv, NEW q \in Answerers, WriteAnswer(q)
  PROVE  AcceptInv'
<1> DEFINE r == answer[q].of
           wish == answer[q].wish
<1>1. /\ r \in Recommendations /\ wish \in {"accepted", "dismissed", "completed"}
      /\ advice[r].outcome # "none"
  BY DEF WriteAnswer, AcceptInv
<1>2. answer' = [answer EXCEPT ![q] = NoRequest] /\ edits' = edits
  BY DEF WriteAnswer
<1>3. Onward(world, world') /\ world' \in Worlds
  BY ActedOn DEF Onward, AcceptInv
<1>4. \/ UNCHANGED <<advice, acted>>
      \/ /\ advice' = [advice EXCEPT ![r].outcome = Outcome(r, wish)]
         /\ advice[r].outcome \in AllowedFor(wish)
         /\ acted' = (IF wish = "accepted" THEN [acted EXCEPT ![r] = acted[r] + 1] ELSE acted)
  BY DEF WriteAnswer, Claims
<1>5. Outcome(r, wish) \in {"accepted", "dismissed", "completed"}
      /\ (wish = "dismissed" \/ wish = "completed" => Outcome(r, wish) = wish)
      /\ (wish = "accepted" => Outcome(r, wish) \in {"accepted", "completed"})
  BY <1>1 DEF Outcome
<1>6. advice' \in [Recommendations -> AdviceRows] /\ acted' \in [Recommendations -> Nat]
  BY <1>1, <1>4, <1>5 DEF AcceptInv, AdviceRows, Outcomes0
<1>7. \A x \in Recommendations :
        /\ advice'[x].seen = advice[x].seen /\ advice'[x].kind = advice[x].kind
        /\ advice'[x].outcome = "none" <=> advice[x].outcome = "none"
  <2> TAKE x \in Recommendations
  <2>1. advice'[x] = advice[x] \/ (x = r /\ advice'[x] = [advice[x] EXCEPT !.outcome = Outcome(r, wish)])
    BY <1>1, <1>4 DEF AcceptInv
  <2> QED BY <1>1, <1>5, <2>1 DEF AcceptInv, AdviceRows
<1>8. \A x \in Recommendations :
        acted'[x] <= (IF advice'[x].outcome \in {"none", "suggested", "dismissed"} THEN 0 ELSE 1)
  <2> TAKE x \in Recommendations
  <2>1. acted[x] <= (IF advice[x].outcome \in {"none", "suggested", "dismissed"} THEN 0 ELSE 1)
        /\ acted[x] \in Nat /\ advice[x] \in AdviceRows
    BY DEF AcceptInv
  <2>2. CASE acted'[x] = acted[x] /\ advice'[x] = advice[x]
    BY <2>1, <2>2
  <2>3. CASE x = r /\ advice'[x].outcome = Outcome(r, wish) /\ advice[x].outcome \in AllowedFor(wish)
             /\ acted'[x] = (IF wish = "accepted" THEN acted[x] + 1 ELSE acted[x])
    BY <1>1, <1>5, <2>1, <2>3 DEF AllowedFor
  <2> QED BY <1>1, <1>4, <2>2, <2>3 DEF AcceptInv, AdviceRows
<1>9. \A x \in Recommendations : advice'[x].outcome # "none" =>
        /\ advice'[x].seen.task.updatedAt <= world'.task.updatedAt
        /\ advice'[x].seen.task.updatedAt = world'.task.updatedAt => advice'[x].seen.task = world'.task
  BY <1>3, <1>7, KeptOnward
<1>10. \A x \in Recommendations : advice'[x].outcome # "none" =>
         /\ advice'[x].kind = "profile_context" => advice'[x].seen.profile.gap
         /\ advice'[x].kind = "assign_task" =>
              advice'[x].seen.task.owner = "nobody" /\ advice'[x].seen.member.checkIn # "unavailable"
  BY <1>7 DEF AcceptInv
<1>11. \A e \in {"task", "path", "project", "event"} : world'.equal[e] <= 1 + edits'
  <2> TAKE e \in {"task", "path", "project", "event"}
  <2>1. world.equal[e] <= 1 + edits /\ world.equal[e] \in Nat /\ edits \in Nat
    BY DEF AcceptInv, Worlds, Equals
  <2>2. CASE world'.equal[e] = world.equal[e]
    BY <1>2, <2>1, <2>2
  <2>3. CASE world'.equal[e] # world.equal[e]
    <3>1. /\ Recheck(advice[r].kind, world, advice[r].seen, answer[q].read)
          /\ WrittenBy(advice[r].kind, world, world')
      BY <2>3, ActedOn
    <3>2. advice[r].kind \in Kinds
      BY <1>1 DEF AcceptInv, AcceptanceConstants, AdviceRows
    <3>3. world.equal[e] = 0
      BY <1>3, <2>3, <3>1, <3>2, MadeAlone
    <3> QED BY <1>2, <1>3, <2>1, <2>3, <3>3 DEF Onward
  <2> QED BY <2>2, <2>3
<1>12. ASSUME NEW p \in Answerers, answer'[p] # NoRequest
       PROVE  /\ answer'[p].of \in Recommendations
              /\ answer'[p].wish \in {"accepted", "dismissed", "completed"}
              /\ advice'[answer'[p].of].outcome # "none"
              /\ answer'[p].wish = "accepted" /\ advice'[answer'[p].of].kind = "assign_task" =>
                   /\ answer'[p].read.owner = "nobody"
                   /\ answer'[p].read.checkIn = advice'[answer'[p].of].seen.member.checkIn
  <2>1. answer'[p] = answer[p]
    BY <1>2, <1>12 DEF AcceptInv
  <2> QED BY <1>7, <1>12, <2>1 DEF AcceptInv
<1>13. answer' \in [Answerers -> AnswerRows]
  <2>1. NoRequest \in AnswerRows
    BY DEF NoRequest, AnswerRows, Kept, World0
  <2> QED BY <1>2, <2>1 DEF AcceptInv
<1>14. edits' \in Nat
  BY <1>2 DEF AcceptInv
<1> QED BY <1>3, <1>6, <1>8, <1>9, <1>10, <1>11, <1>12, <1>13, <1>14 DEF AcceptInv

LEMMA AcceptInvAlways ==
  ASSUME AcceptanceConstants
  PROVE  AcceptanceSpec => []AcceptInv
<1>1. AcceptanceInit => AcceptInv
  BY AcceptInvInit
<1>2. AcceptInv /\ [AcceptanceNext]_acceptanceVars => AcceptInv'
  <2> SUFFICES ASSUME AcceptInv, [AcceptanceNext]_acceptanceVars PROVE AcceptInv'
    OBVIOUS
  <2>1. CASE \E r \in Recommendations : Suggest(r)
    BY <2>1, SuggestKeeps
  <2>2. CASE \E q \in Answerers : ReadAnswer(q) \/ WriteAnswer(q)
    BY <2>2, ReadKeeps, WriteKeeps
  <2>3. CASE Edit
    BY <2>3, AcceptEditKeeps
  <2>4. CASE UNCHANGED acceptanceVars
    BY <2>4 DEF acceptanceVars, AcceptInv
  <2> QED BY <2>1, <2>2, <2>3, <2>4 DEF AcceptanceNext
<1> QED BY <1>1, <1>2, PTL DEF AcceptanceSpec

\* However many members answer at once, a recommendation changes the records at
\* most once, a dismissed one never, and two of the same record make it once
\* (recommendation).
THEOREM AcceptedOnceAlways ==
  ASSUME AcceptanceConstants
  PROVE  AcceptanceSpec => []AcceptedOnce
<1>1. AcceptInv => AcceptedOnce
  <2> SUFFICES ASSUME AcceptInv PROVE AcceptedOnce
    OBVIOUS
  <2>1. DOMAIN world.equal = {"task", "path", "project", "event"}
    BY DEF AcceptInv, Worlds, Equals
  <2> QED BY <2>1 DEF AcceptedOnce, AcceptInv
<1> QED BY <1>1, AcceptInvAlways, PTL
\* What the band changed after a proposal was reviewed stays as the band left it:
\* an acceptance writes only where its kind writes, and only what is still as it
\* was reviewed (recommendation, and the checks inside its transaction).
THEOREM ActsOnReviewedAlways ==
  ASSUME AcceptanceConstants
  PROVE  AcceptanceSpec => ActsOnReviewed
<1>1. AcceptInv /\ [AcceptanceNext]_acceptanceVars => Reviewed \/ UNCHANGED acceptanceVars
  <2> SUFFICES ASSUME AcceptInv, AcceptanceNext,
                      NEW x \in Recommendations, acted'[x] # acted[x]
               PROVE  LET s == advice[x].seen IN
       /\ world'.task.status # world.task.status => world.task = s.task
       /\ world'.task.late # world.task.late => world.task = s.task
       /\ world'.task.owner # world.task.owner =>
            world.task.owner = s.task.owner /\ MayBeAssigned(world, s)
       /\ world'.event.response # world.event.response => world.event.response = s.event.response
       /\ world'.event.logistics # world.event.logistics => world.event.logistics = s.event.logistics
       /\ world'.profile.gap # world.profile.gap => s.profile.gap
       /\ world'.memory # world.memory => world.memory = "absent"
       /\ \A e \in DOMAIN world.equal : world'.equal[e] # world.equal[e] => world.equal[e] = 0
       /\ world'.equal.event # world.equal.event => world.lineup = s.lineup
    BY DEF Reviewed
  <2>1. PICK q \in Answerers : WriteAnswer(q)
    BY DEF AcceptanceNext, Suggest, ReadAnswer, Edit
  <2> DEFINE r == answer[q].of
             k == advice[r].kind
             s == advice[r].seen
             m == answer[q].read
  <2>2. /\ answer[q].wish = "accepted" /\ advice[r].outcome = "suggested"
        /\ Recheck(k, world, s, m)
        /\ Onward(world, world') /\ WrittenBy(k, world, world')
        /\ acted' = [acted EXCEPT ![r] = acted[r] + 1]
        /\ answer[q] # NoRequest /\ r \in Recommendations
    BY <2>1, ActedOn DEF AcceptInv, WriteAnswer
  <2>3. x = r
    BY <2>2 DEF AcceptInv
  <2>4. /\ s.task.updatedAt = world.task.updatedAt => s.task = world.task
        /\ k = "profile_context" => s.profile.gap
        /\ k = "assign_task" => s.task.owner = "nobody" /\ s.member.checkIn # "unavailable"
        /\ k = "assign_task" => m.owner = "nobody" /\ m.checkIn = s.member.checkIn
    BY <2>2 DEF AcceptInv
  <2>5. k \in Kinds /\ DOMAIN world.equal = {"task", "path", "project", "event"}
        /\ world.memory \in Memories
    BY <2>2 DEF AcceptInv, AcceptanceConstants, AdviceRows, Worlds, Equals
  <2> HIDE DEF r, k, s, m
  <2>6. (world'.task.status # world.task.status \/ world'.task.late # world.task.late) =>
          world.task = s.task
    BY <2>2, <2>4 DEF WrittenBy, Recheck, Current
  <2>7. world'.task.owner # world.task.owner =>
          world.task.owner = s.task.owner /\ MayBeAssigned(world, s)
    <3>1. CASE k = "assign_task"
      BY <2>2, <2>4, <3>1 DEF Recheck, MayBeAssigned
    <3>2. CASE k = "assign_conversation_task"
      BY <2>2, <2>4, <3>2 DEF Recheck, Current
    <3> QED BY <2>2, <3>1, <3>2 DEF WrittenBy
  <2>8. world'.event.response # world.event.response => world.event.response = s.event.response
    BY <2>2 DEF WrittenBy, Recheck, Current
  <2>9. world'.event.logistics # world.event.logistics => world.event.logistics = s.event.logistics
    BY <2>2 DEF WrittenBy, Recheck, Current
  <2>10. world'.profile.gap # world.profile.gap => s.profile.gap
    BY <2>2, <2>4 DEF WrittenBy
  <2>11. world'.memory # world.memory => world.memory = "absent"
    BY <2>2, <2>5 DEF WrittenBy, Recheck
  <2>12. \A e \in {"task", "path", "project", "event"} : world'.equal[e] # world.equal[e] =>
           world.equal[e] = 0 /\ (e = "event" => world.lineup = s.lineup)
    BY <2>2, <2>5, MadeAlone
  <2> QED BY <2>3, <2>5, <2>6, <2>7, <2>8, <2>9, <2>10, <2>11, <2>12 DEF r, s
<1> QED BY <1>1, AcceptInvAlways, PTL DEF AcceptanceSpec, ActsOnReviewed

-----------------------------------------------------------------------------
(* The conversation with the Manager                                        *)

LEMMA HasLast ==
  ASSUME NEW N \in Nat, NEW S \in SUBSET (1..N), S # {}
  PROVE  \E k \in S : \A m \in S : m <= k
<1> DEFINE T == {N - s : s \in S}
           below == {ss \in Nat \X Nat : ss[1] < ss[2]}
<1>1. T \subseteq Nat /\ T # {}
  <2>1. \A s \in S : s \in 1..N /\ N - s \in Nat
    OBVIOUS
  <2>2. PICK s \in S : TRUE
    OBVIOUS
  <2>3. N - s \in T
    BY <2>2
  <2> QED BY <2>1, <2>3
<1>2. IsWellFoundedOn(below, Nat)
  BY NatLessThanWellFounded DEF OpToRel
<1> HIDE DEF below
<1>3. \E t \in T : \A u \in T : <<u, t>> \notin below
  BY <1>1, <1>2, WFMin
<1>4. PICK t \in T : \A u \in T : ~ u < t
  BY <1>1, <1>3 DEF below
<1>5. PICK k \in S : t = N - k
  OBVIOUS
<1>6. \A m \in S : m <= k
  <2> TAKE m \in S
  <2>1. N - m \in T /\ m \in 1..N /\ k \in 1..N
    OBVIOUS
  <2>2. ~ (N - m < N - k)
    BY <1>4, <1>5, <2>1
  <2> QED BY <2>1, <2>2
<1> QED BY <1>6

RouteKinds == {"open", "remember"} \union {RouteOf(asks) : asks \in SUBSET STRING}
RunRows == [stored : Flags, context : {"shared", "bound", "unbound"}, turn : Nat,
            rec : {"none", "remember", "capture", "advice"}, source : Nat,
            outcome : {"suggested", "accepted", "dismissed"}, route : RouteKinds, tells : SUBSET Nat]
AskRows == [step : {"idle", "begun", "stored", "rating", "read", "failed", "run", "answered"},
            actor : {"owner", "member"}, ai : Flags, full : Flags, asks : SUBSET STRING, turn : Nat,
            reply : RunRows, target : SUBSET Nat]
Messages == [role : {"user", "assistant"}, by : Askers, ownerOnly : Flags, tells : SUBSET Nat]
Places == 1..Len(log)
Before == {"idle", "begun"}

ChatTyped ==
  /\ settings \in [ai : Flags, full : Flags]
  /\ handling \in [Calls -> AskRows]
  /\ runs \in [Askers -> RunRows]
  /\ log \in Seq(Messages)

Clean(S) == S \subseteq Places /\ S \intersect PrivateTurns = {}

\* What an older version stored: nothing, or a turn and the response to it.
OldTurn ==
  /\ Len(log) >= 2
  /\ log[1].by = Legacy /\ log[1].role = "user" /\ log[1].tells = {1}
  /\ log[2].by = Legacy /\ log[2].role = "assistant" /\ log[2].tells = {1}
  /\ \A i \in Places : i > 2 => log[i].by # Legacy
  /\ runs[Legacy].turn = 1 /\ runs[Legacy].tells = {1}
LegacyRows ==
  /\ runs[Legacy].source = 0
  /\ \/ /\ \A i \in Places : log[i].by # Legacy
        /\ runs[Legacy].context = "shared" /\ runs[Legacy].tells = {}
     \/ OldTurn

\* A request stores one turn, and its messages are as private as its reading was.
TurnStored(q) ==
  /\ handling[q].step \in Before => \A i \in Places : log[i].by # q
  /\ handling[q].step \notin Before =>
       /\ handling[q].turn \in Places
       /\ log[handling[q].turn].by = q /\ log[handling[q].turn].role = "user"
       /\ \A i \in Places : log[i].by = q =>
            /\ log[i].role = "user" => i = handling[q].turn
            /\ log[i].ownerOnly = handling[q].full

\* A run read privately is bound to its turn; any other tells nothing private.
Made(q, r) ==
  /\ r.context = (IF handling[q].full THEN "bound" ELSE "shared")
  /\ r.rec = "remember" => r.source = handling[q].turn
  /\ r.tells \subseteq Places
  /\ ~handling[q].full => Clean(r.tells)
RunMade(q) ==
  /\ handling[q].step \notin {"run", "answered"} => runs[q] = NoRun
  /\ handling[q].step \in {"rating", "read"} => Made(q, handling[q].reply)
  /\ handling[q].step \in {"run", "answered"} => Made(q, runs[q])

ToldClean ==
  /\ \A i \in Places :
       /\ log[i].tells \subseteq Places
       /\ log[i].by # Legacy /\ ~log[i].ownerOnly => Clean(log[i].tells)
  /\ title \subseteq {1} \intersect Places
  /\ feedback \subseteq {"owner", "member"} \X Places
  /\ \A p \in feedback : p[1] = "member" => Clean(log[p[2]].tells)

ChatInv ==
  /\ ChatTyped /\ LegacyRows /\ ToldClean
  /\ \A q \in Calls : TurnStored(q) /\ RunMade(q)

LEMMA LogIs ==
  ASSUME ChatTyped
  PROVE  /\ DOMAIN log = Places /\ Len(log) \in Nat
         /\ \A i \in Places : log[i] \in Messages
BY DEF ChatTyped, Places

\* Who told what a viewer outside sees of the last n messages.
LEMMA ShownClean ==
  ASSUME ChatConstants, ChatInv, NEW n \in Nat \ {0}, NEW v \in {"normal", "provider_redacted"},
         NEW i \in Shown(n, v)
  PROVE  i \in Places /\ Clean(log[i].tells)
<1>1. i \in Window(n) /\ MessageVisible(log[i], v)
      /\ ~(i \in Answers /\ Traced(log[i].by, v))
      /\ \A j \in Window(n) \intersect Answers : Traced(log[j].by, v) => i # runs[log[j].by].turn
  BY DEF Shown
<1>2. i \in Places /\ i + n > Len(log) /\ v \notin Insiders
  BY <1>1, LogIs DEF Window, ChatInv, Insiders
<1>3. ~log[i].ownerOnly
  BY <1>1, <1>2 DEF MessageVisible
<1>4. CASE log[i].by # Legacy
  BY <1>2, <1>3, <1>4 DEF ChatInv, ToldClean
<1>5. CASE log[i].by = Legacy
  <2>1. OldTurn /\ i \in {1, 2} /\ log[i].tells = {1}
    BY <1>2, <1>5, LogIs DEF ChatInv, LegacyRows, OldTurn, Places
  <2>2. runs[Legacy].context = "shared"
    <3>1. SUFFICES ASSUME runs[Legacy].context # "shared" PROVE FALSE
      OBVIOUS
    <3>2. 2 \in Window(n) \intersect Answers
      BY <1>2, <2>1, LogIs DEF OldTurn, Window, Answers, ChatInv, Places
    <3>3. Traced(Legacy, v)
      BY <1>2, <3>1 DEF Traced
    <3> QED BY <1>1, <1>5, <2>1, <3>2, <3>3, LogIs DEF OldTurn, Answers, ChatInv, Places
  <2>3. 1 \notin PrivateTurns /\ 1 \in Places
    BY <2>1, <2>2, LogIs DEF PrivateTurns, OldTurn, ChatInv, Places
  <2> QED BY <1>2, <2>1, <2>3 DEF Clean
<1> QED BY <1>4, <1>5

\* A response under review stands beside a turn, a note beside its source.
LEMMA ReviewedTurn ==
  ASSUME ChatConstants, ChatInv, NEW v, NEW p \in Reviews(v)
  PROVE  \E i \in Answers, j \in Turns :
           /\ p = <<j, i>>
           /\ runs[log[i].by].rec = "remember" => j = runs[log[i].by].source
<1> DEFINE open == {i \in Turns : v \in Insiders \/ ~log[i].ownerOnly}
           before(i) == {j \in open : j < i}
           question(i) == IF runs[log[i].by].rec = "remember" THEN before(i) \intersect {runs[log[i].by].source}
                          ELSE IF before(i) = {} THEN {} ELSE {LastOf(before(i))}
<1>1. PICK i \in Answers : \E j \in question(i) : p = <<j, i>>
  BY DEF Reviews
<1>2. PICK j \in question(i) : p = <<j, i>>
  BY <1>1
<1>3. CASE runs[log[i].by].rec = "remember"
  BY <1>2, <1>3
<1>4. CASE runs[log[i].by].rec # "remember"
  <2>1. before(i) # {} /\ j = LastOf(before(i))
    BY <1>2, <1>4
  <2>2. LastOf(before(i)) \in before(i)
    <3>1. i \in Places /\ before(i) \subseteq Places
      BY LogIs DEF Answers, Turns, ChatInv
    <3>2. \E k \in before(i) : \A m \in before(i) : m <= k
      BY <2>1, <3>1, HasLast, LogIs DEF ChatInv, Places
    <3> QED BY <3>2 DEF LastOf
  <2> QED BY <1>2, <1>4, <2>1, <2>2
<1> QED BY <1>3, <1>4

\* With the conversation not hidden from members, everything it tells is theirs.
LEMMA NotHiddenClean ==
  ASSUME ChatConstants, ChatInv, ~ConversationHidden("normal")
  PROVE  \A i \in Places : Clean(log[i].tells)
<1>1. /\ \A i \in Answers : ~Traced(log[i].by, "normal")
      /\ \A i \in Places : ~log[i].ownerOnly
  BY LogIs DEF ConversationHidden, Insiders, ChatInv
<1> SUFFICES ASSUME NEW i \in Places PROVE Clean(log[i].tells)
  OBVIOUS
<1>2. CASE log[i].by # Legacy
  BY <1>1, <1>2 DEF ChatInv, ToldClean
<1>3. CASE log[i].by = Legacy
  <2>1. OldTurn /\ log[i].tells = {1}
    BY <1>3, LogIs DEF ChatInv, LegacyRows, OldTurn, Places
  <2>2. runs[Legacy].context = "shared"
    BY <1>1, <2>1, LogIs DEF OldTurn, Answers, ChatInv, Places, Traced, Insiders
  <2>3. 1 \notin PrivateTurns /\ 1 \in Places
    BY <2>1, <2>2, LogIs DEF PrivateTurns, OldTurn, ChatInv, Places
  <2> QED BY <2>1, <2>3 DEF Clean
<1> QED BY <1>2, <1>3

\* A turn a request stored with full context is a message for owners alone.
LEMMA PrivateIs ==
  ASSUME ChatConstants, ChatInv, NEW i \in PrivateTurns
  PROVE  /\ i \in Places /\ log[i].role = "user"
         /\ \/ log[i].ownerOnly /\ log[i].by \in Calls
            \/ log[i].by = Legacy /\ OldTurn /\ runs[Legacy].context # "shared"
<1>1. i \in Places /\ log[i].role = "user" /\ log[i].by \in Calls \union {Legacy}
  BY LogIs DEF PrivateTurns, Turns, ChatInv, Messages, Askers
<1>2. CASE log[i].by = Legacy
  BY <1>1, <1>2 DEF PrivateTurns, ChatInv, LegacyRows
<1>3. CASE log[i].by # Legacy
  <2>1. log[i].by \in Calls /\ handling[log[i].by].full
    BY <1>1, <1>3 DEF PrivateTurns
  <2>2. log[i].ownerOnly = handling[log[i].by].full
    BY <1>1, <2>1 DEF ChatInv, TurnStored
  <2> QED BY <1>1, <2>1, <2>2
<1> QED BY <1>2, <1>3

LEMMA PrivacyHolds ==
  ASSUME ChatConstants, ChatInv
  PROVE  OwnerTurnsPrivate
<1>1. \A n \in {1, PageTake, HistoryTake}, v \in {"normal", "provider_redacted"} :
        \A i \in Shown(n, v) : log[i].tells \intersect PrivateTurns = {}
  BY ShownClean DEF ChatConstants, Clean
<1>2. ASSUME ~ConversationHidden("normal") PROVE title \intersect PrivateTurns = {}
  <2> SUFFICES ASSUME 1 \in PrivateTurns, 1 \in title PROVE FALSE
    BY DEF ChatInv, ToldClean
  <2>1. \/ 1 \in Places /\ log[1].ownerOnly
        \/ OldTurn /\ runs[Legacy].context # "shared"
    BY PrivateIs
  <2>2. 1 \in Places => ~log[1].ownerOnly
    BY <1>2, LogIs DEF ConversationHidden, Insiders, ChatInv
  <2>3. \A i \in Answers : ~Traced(log[i].by, "normal")
    BY <1>2 DEF ConversationHidden, Insiders
  <2> QED BY <2>1, <2>2, <2>3, LogIs DEF OldTurn, Answers, ChatInv, Places, Traced, Insiders
<1>3. ASSUME NEW p \in Reviews("normal")
      PROVE  (log[p[1]].tells \union log[p[2]].tells) \intersect PrivateTurns = {}
  <2>1. ~ConversationHidden("normal") /\ p[1] \in Turns /\ p[2] \in Answers
    <3>1. ~ConversationHidden("normal")
      BY DEF Reviews
    <3>2. PICK i \in Answers, j \in Turns : p = <<j, i>>
      BY <3>1, ReviewedTurn
    <3> QED BY <3>1, <3>2
  <2>2. p[1] \in Places /\ p[2] \in Places
    BY <2>1, LogIs DEF Turns, Answers, ChatInv
  <2> QED BY <2>1, <2>2, NotHiddenClean DEF Clean
<1>4. \A q \in Summarized("normal") : runs[q].tells \intersect PrivateTurns = {}
  <2> SUFFICES ASSUME NEW q \in Askers, runs[q].context = "shared"
               PROVE  runs[q].tells \intersect PrivateTurns = {}
    BY DEF Summarized, RunVisible, Insiders
  <2>1. CASE q = Legacy
    <3>1. runs[Legacy].tells = {} \/ (runs[Legacy].tells = {1} /\ OldTurn)
      BY DEF ChatInv, LegacyRows, OldTurn
    <3>2. OldTurn => 1 \notin PrivateTurns
      BY <2>1 DEF PrivateTurns, OldTurn
    <3> QED BY <2>1, <3>1, <3>2
  <2>2. CASE q \in Calls /\ handling[q].step \in {"run", "answered"}
    BY <2>2 DEF ChatInv, RunMade, Made, Clean
  <2>3. CASE q \in Calls /\ handling[q].step \notin {"run", "answered"}
    BY <2>3 DEF ChatInv, RunMade, NoRun
  <2> QED BY <2>1, <2>2, <2>3 DEF Askers
<1> QED BY <1>1, <1>2, <1>3, <1>4 DEF OwnerTurnsPrivate

LEMMA NoteSource ==
  ASSUME ChatConstants, ChatInv, NEW i \in Answers, runs[log[i].by].rec = "remember"
  PROVE  /\ log[i].by = Legacy => runs[Legacy].source = 0
         /\ log[i].by # Legacy => TurnOf(log[i].by) = {runs[log[i].by].source}
<1> DEFINE q == log[i].by
<1>1. i \in Places /\ q \in Calls \union {Legacy}
  BY LogIs DEF Answers, ChatInv, Messages, Askers
<1>2. CASE q = Legacy
  BY <1>2 DEF ChatInv, LegacyRows
<1>3. CASE q # Legacy
  <2>1. q \in Calls /\ handling[q].step \notin Before
    BY <1>1, <1>3 DEF ChatInv, TurnStored
  <2>2. handling[q].step \in {"run", "answered"}
    BY <2>1 DEF ChatInv, RunMade, NoRun
  <2>3. runs[q].source = handling[q].turn
    BY <2>1, <2>2 DEF ChatInv, RunMade, Made
  <2>4. TurnOf(q) = {handling[q].turn}
    BY <2>1, LogIs DEF TurnOf, Turns, ChatInv, TurnStored
  <2> QED BY <1>3, <2>3, <2>4
<1> QED BY <1>2, <1>3

LEMMA NotesHold ==
  ASSUME ChatConstants, ChatInv
  PROVE  NoteIsOneUnit
<1> SUFFICES ASSUME NEW i \in Answers, runs[log[i].by].rec = "remember"
             PROVE  /\ \A n \in {PageTake, HistoryTake}, v \in Views :
                         i \in Window(n) /\ ~RecVisible(log[i].by, v) =>
                           (TurnOf(log[i].by) \union {i}) \intersect Shown(n, v) = {}
                    /\ \A v \in Views : \A p \in Reviews(v) : p[2] = i => p[1] \in TurnOf(log[i].by)
  BY DEF NoteIsOneUnit
<1> DEFINE q == log[i].by
<1>1. ASSUME NEW n \in {PageTake, HistoryTake}, NEW v \in Views,
             i \in Window(n), ~RecVisible(log[i].by, v),
             NEW j \in TurnOf(q) \union {i}, j \in Shown(n, v)
      PROVE  FALSE
  <2>1. runs[q].source # 0 /\ j # i /\ j # runs[q].source
    BY <1>1 DEF Shown, Sources
  <2> QED BY <1>1, <2>1, NoteSource
<1>2. ASSUME NEW v \in Views, NEW p \in Reviews(v), p[2] = i
      PROVE  p[1] \in TurnOf(q)
  <2>1. PICK k \in Answers, j \in Turns :
           p = <<j, k>> /\ (runs[log[k].by].rec = "remember" => j = runs[log[k].by].source)
    BY ReviewedTurn
  <2>2. p[1] = j /\ k = i /\ j = runs[q].source
    BY <1>2, <2>1
  <2>3. j \in Places
    BY LogIs DEF Turns, ChatInv
  <2>4. q # Legacy
    BY <2>2, <2>3, NoteSource DEF Places
  <2> QED BY <2>2, <2>4, NoteSource
<1> QED BY <1>1, <1>2

LEMMA RatingsHold ==
  ASSUME ChatInv
  PROVE  RatedWasShown
BY DEF ChatInv, ToldClean, RatedWasShown, Clean

LEMMA NoRunTyped == NoRun \in RunRows
<1>1. FALSE \in Flags /\ "open" \in RouteKinds /\ {} \in SUBSET Nat
  BY FlagsAre DEF RouteKinds
<1> QED BY <1>1 DEF NoRun, RunRows

LEMMA ChatInvInit ==
  ASSUME ChatConstants, ChatInit
  PROVE  ChatInv
<1> USE DEF ChatInit
<1>1. NoRun \in RunRows /\ NoRun.source = 0 /\ NoRun.context = "shared" /\ NoRun.tells = {}
  BY NoRunTyped DEF NoRun
<1>2. \A start \in {"bound", "unbound", "note"} :
        /\ OldRun(start) \in RunRows /\ OldRun(start).source = 0 /\ OldRun(start).turn = 1
        /\ OldRun(start).tells = {1}
  <2> DEFINE old == [NoRun EXCEPT !.stored = TRUE, !.tells = {1}, !.turn = 1]
  <2>1. old \in RunRows /\ old.source = 0 /\ old.turn = 1 /\ old.tells = {1}
    <3>1. {1} \in SUBSET Nat
      OBVIOUS
    <3> QED BY <1>1, <3>1, FlagsAre DEF RunRows
  <2>2. "remember" \in RouteKinds
    BY DEF RouteKinds
  <2>3. OldRun("note") = [old EXCEPT !.rec = "remember", !.route = "remember", !.outcome = "accepted"]
        /\ \A c \in {"bound", "unbound"} : OldRun(c) = [old EXCEPT !.context = c]
    BY DEF OldRun
  <2> HIDE DEF old
  <2>4. LET note == [old EXCEPT !.rec = "remember", !.route = "remember", !.outcome = "accepted"]
        IN  note \in RunRows /\ note.source = 0 /\ note.turn = 1 /\ note.tells = {1}
    BY <2>1, <2>2 DEF RunRows
  <2>5. \A c \in {"bound", "unbound"} :
          LET turn == [old EXCEPT !.context = c]
          IN  turn \in RunRows /\ turn.source = 0 /\ turn.turn = 1 /\ turn.tells = {1}
    BY <2>1 DEF RunRows
  <2> QED BY <2>3, <2>4, <2>5
<1>3. PICK start \in Starts :
       /\ title = IF start = "new" THEN {} ELSE {1}
       /\ log = IF start = "new" THEN <<>>
                ELSE <<Said("user", Legacy, FALSE, {1}), Said("assistant", Legacy, FALSE, {1})>>
       /\ runs = [q \in Askers |-> IF q = Legacy /\ start # "new" THEN OldRun(start) ELSE NoRun]
  BY DEF ChatConstants
<1>4. Legacy \in Askers /\ Calls \subseteq Askers /\ Legacy \notin Calls
  BY DEF Askers, ChatConstants
<1>5. runs \in [Askers -> RunRows]
  BY <1>1, <1>2, <1>3 DEF Starts
<1>6. Idle \in AskRows /\ Idle.step = "idle"
  BY <1>1, FlagsAre DEF Idle, AskRows
<1>7. settings \in [ai : Flags, full : Flags]
  BY FlagsAre DEF Flags
<1>8. \A q \in Calls : handling[q] = Idle /\ runs[q] = NoRun
  BY <1>3, <1>4
<1>9. handling \in [Calls -> AskRows]
  BY <1>6
<1>10. CASE start = "new"
  <2>1. log = <<>> /\ title = {} /\ Places = {} /\ runs[Legacy] = NoRun
    BY <1>3, <1>4, <1>10 DEF Places
  <2>2. <<>> \in Seq(Messages)
    OBVIOUS
  <2>3. LegacyRows
    BY <1>1, <2>1 DEF LegacyRows
  <2>4. ToldClean
    BY <2>1 DEF ToldClean
  <2>5. \A q \in Calls : TurnStored(q) /\ RunMade(q)
    BY <1>6, <1>8, <2>1 DEF TurnStored, RunMade, Before
  <2> QED BY <1>5, <1>7, <1>9, <2>1, <2>2, <2>3, <2>4, <2>5 DEF ChatInv, ChatTyped
<1>11. CASE start # "new"
  <2> DEFINE first == Said("user", Legacy, FALSE, {1})
             second == Said("assistant", Legacy, FALSE, {1})
  <2>1. log = <<first, second>> /\ title = {1} /\ runs[Legacy] = OldRun(start)
    BY <1>3, <1>4, <1>11
  <2>2. first \in Messages /\ second \in Messages
    <3>1. FALSE \in Flags
      BY FlagsAre
    <3>2. {1} \in SUBSET Nat
      OBVIOUS
    <3> QED BY <1>4, <3>1, <3>2 DEF Said, Messages
  <2>3. /\ first.by = Legacy /\ second.by = Legacy /\ first.tells = {1} /\ second.tells = {1}
        /\ first.role = "user" /\ second.role = "assistant"
    BY DEF Said
  <2> HIDE DEF first, second
  <2>4. log \in Seq(Messages) /\ Len(log) = 2 /\ log[1] = first /\ log[2] = second
    <3>1. <<first, second>> \in Seq(Messages) /\ Len(<<first, second>>) = 2
          /\ <<first, second>>[1] = first /\ <<first, second>>[2] = second
      BY <2>2
    <3> QED BY <2>1, <3>1
  <2>8. Places = {1, 2} /\ 1 \in Places /\ 2 \in Places
    <3>1. Places = 1..2
      BY <2>4 DEF Places
    <3> QED BY <3>1
  <2>9. \A i \in Places : log[i].by = Legacy /\ log[i].tells = {1} /\ log[i].tells \subseteq Places
    BY <2>3, <2>4, <2>8
  <2>5. LegacyRows
    <3>1. runs[Legacy].source = 0 /\ runs[Legacy].turn = 1 /\ runs[Legacy].tells = {1}
      BY <1>2, <1>11, <2>1 DEF Starts
    <3>2. \A i \in Places : ~ i > 2
      BY <2>8
    <3>4. /\ log[1].by = Legacy /\ log[1].role = "user" /\ log[1].tells = {1}
          /\ log[2].by = Legacy /\ log[2].role = "assistant" /\ log[2].tells = {1}
      BY <2>3, <2>4
    <3>5. Len(log) >= 2
      BY <2>4
    <3>6. \A i \in Places : i > 2 => log[i].by # Legacy
      BY <3>2
    <3>3. OldTurn
      BY <3>1, <3>4, <3>5, <3>6 DEF OldTurn
    <3> QED BY <3>1, <3>3 DEF LegacyRows
  <2>6. ToldClean
    BY <2>1, <2>4, <2>8, <2>9 DEF ToldClean
  <2>7. \A q \in Calls : TurnStored(q) /\ RunMade(q)
    <3> TAKE q \in Calls
    <3>1. handling[q].step = "idle" /\ runs[q] = NoRun
      BY <1>6, <1>8
    <3>2. \A i \in Places : log[i].by # q
      BY <1>4, <2>9
    <3> QED BY <3>1, <3>2 DEF TurnStored, RunMade, Before
  <2> QED BY <1>5, <1>7, <1>9, <2>4, <2>5, <2>6, <2>7 DEF ChatInv, ChatTyped
<1> QED BY <1>10, <1>11

LEMMA IdleTyped == Idle \in AskRows
<1>1. FALSE \in Flags
  BY FlagsAre
<1>2. {} \in SUBSET Nat /\ {} \in SUBSET STRING
  OBVIOUS
<1> QED BY <1>1, <1>2, NoRunTyped DEF Idle, AskRows

\* Messages stay, and nothing that was said becomes private afterwards.
Grown ==
  /\ Len(log') >= Len(log) /\ \A i \in Places : log'[i] = log[i]
  /\ runs'[Legacy].context = runs[Legacy].context
  /\ \A i \in Places : log[i].by \in Calls => handling'[log[i].by].full = handling[log[i].by].full

\* Clean in the next state, for what was said in this one.
CleanNext(S) == S \subseteq Places' /\ S \intersect PrivateTurns' = {}

LEMMA GrownClean ==
  ASSUME ChatConstants, ChatInv, ChatTyped', Grown, NEW S, Clean(S)
  PROVE  CleanNext(S)
<1>1. Len(log) \in Nat /\ Len(log') \in Nat /\ Places \subseteq Places'
  BY DEF ChatInv, ChatTyped, Grown, Places
<1>2. ASSUME NEW j \in S, j \in PrivateTurns' PROVE FALSE
  <2>1. j \in Places /\ log'[j] = log[j] /\ log'[j].role = "user"
    BY <1>2 DEF Clean, Grown, PrivateTurns, Turns
  <2>2. j \in Turns /\ log[j].by \in Calls \union {Legacy}
    BY <2>1, LogIs DEF Turns, ChatInv, Messages, Askers
  <2>3. IF log[j].by = Legacy THEN runs[Legacy].context # "shared" ELSE handling[log[j].by].full
    BY <1>2, <2>1, <2>2 DEF PrivateTurns, Grown
  <2> QED BY <2>2, <2>3 DEF Clean, PrivateTurns
<1> QED BY <1>1, <1>2 DEF Clean, CleanNext

\* A rating is added for a response its author was shown.
RatedFairly ==
  \A p \in feedback' \ feedback :
    p \in {"owner", "member"} \X Places /\ (p[1] = "member" => Clean(log[p[2]].tells))

LEMMA SteadyRows ==
  ASSUME ChatConstants, ChatInv, ChatTyped', Grown, log' = log, title' = title,
         RatedFairly, runs'[Legacy].source = runs[Legacy].source,
         runs'[Legacy].turn = runs[Legacy].turn, runs'[Legacy].tells = runs[Legacy].tells
  PROVE  LegacyRows' /\ ToldClean'
<1>1. Places' = Places
  BY DEF Places
<1>2. LegacyRows'
  BY <1>1 DEF ChatInv, LegacyRows, OldTurn, Grown
<1>3. \A p \in feedback' :
        p \in {"owner", "member"} \X Places /\ (p[1] = "member" => Clean(log[p[2]].tells))
  BY DEF RatedFairly, ChatInv, ToldClean
<1>4. \A S : Clean(S) => CleanNext(S)
  BY GrownClean
<1>5. ToldClean'
  BY <1>1, <1>3, <1>4 DEF ChatInv, ToldClean, Clean, CleanNext
<1> QED BY <1>2, <1>5

LEMMA SteadyTurn ==
  ASSUME NEW p \in Calls, TurnStored(p), log' = log, handling'[p].turn = handling[p].turn,
         handling'[p].full = handling[p].full, handling'[p].step \in Before <=> handling[p].step \in Before
  PROVE  TurnStored(p)'
BY DEF TurnStored, Places

LEMMA SteadyMade ==
  ASSUME ChatConstants, ChatInv, ChatTyped', Grown, NEW p \in Calls, NEW r, Made(p, r),
         handling'[p].turn = handling[p].turn, handling'[p].full = handling[p].full
  PROVE  Made(p, r)'
<1>1. Places \subseteq Places'
  BY DEF ChatInv, ChatTyped, Grown, Places
<1>2. Clean(r.tells) => CleanNext(r.tells)
  BY GrownClean
<1> QED BY <1>1, <1>2 DEF Made, Clean, CleanNext

LEMMA SteadyRun ==
  ASSUME ChatConstants, ChatInv, ChatTyped', Grown, NEW p \in Calls,
         handling'[p] = handling[p], runs'[p] = runs[p]
  PROVE  RunMade(p)'
<1>1. /\ handling[p].step \in {"rating", "read"} => Made(p, handling[p].reply)'
      /\ handling[p].step \in {"run", "answered"} => Made(p, runs[p])'
  BY SteadyMade DEF ChatInv, RunMade
<1> QED BY <1>1 DEF ChatInv, RunMade, Made, Clean

LEMMA BeginKeeps ==
  ASSUME ChatConstants, ChatInv, NEW q \in Calls, Begin(q)
  PROVE  ChatInv'
<1>1. PICK actor \in {"owner", "member"}, asks \in Questions :
        handling' = [handling EXCEPT ![q] =
          [Idle EXCEPT !.step = "begun", !.actor = actor, !.asks = asks, !.ai = settings.ai,
                       !.full = FullContext(actor)]]
  BY DEF Begin
<1>2. UNCHANGED <<settings, title, log, runs, feedback>> /\ handling[q].step = "idle"
  BY DEF Begin
<1> DEFINE f == FullContext(actor)
           row == [Idle EXCEPT !.step = "begun", !.actor = actor, !.asks = asks, !.ai = settings.ai, !.full = f]
<1>3. asks \in SUBSET STRING /\ settings.ai \in Flags
  BY DEF ChatConstants, ChatInv, ChatTyped
<1>4. f \in Flags
  BY DEF FullContext, Flags
<1>5. Idle \in AskRows
  BY IdleTyped
<1> HIDE DEF f
<1>6. row \in AskRows /\ row.step = "begun"
  BY <1>3, <1>4, <1>5 DEF AskRows
<1>7. handling' = [handling EXCEPT ![q] = row]
  BY <1>1 DEF f
<1> HIDE DEF row
<1>8. handling'[q] = row /\ \A p \in Calls : p # q => handling'[p] = handling[p]
  BY <1>7 DEF ChatInv, ChatTyped
<1>9. ChatTyped'
  BY <1>2, <1>6, <1>7 DEF ChatInv, ChatTyped
<1>10. \A i \in Places : log[i].by # q
  BY <1>2 DEF ChatInv, TurnStored, Before
<1>11. Grown
  BY <1>2, <1>8, <1>10, LogIs DEF Grown, ChatInv
<1>12. LegacyRows' /\ ToldClean'
  BY <1>2, <1>9, <1>11, SteadyRows DEF RatedFairly
<1>13. ASSUME NEW p \in Calls PROVE TurnStored(p)' /\ RunMade(p)'
  <2>1. CASE p = q
    <3>1. runs'[q] = NoRun /\ Places' = Places
      BY <1>2 DEF ChatInv, RunMade, Places
    <3> QED BY <1>2, <1>6, <1>8, <1>10, <2>1, <3>1 DEF TurnStored, RunMade, Before
  <2>2. CASE p # q
    <3>1. handling'[p] = handling[p] /\ runs'[p] = runs[p] /\ TurnStored(p)
      BY <1>2, <1>8, <2>2 DEF ChatInv
    <3> QED BY <1>2, <1>9, <1>11, <3>1, SteadyTurn, SteadyRun
  <2> QED BY <2>1, <2>2
<1> QED BY <1>9, <1>12, <1>13 DEF ChatInv

\* One more message at the end.
LEMMA OneMoreMessage ==
  ASSUME ChatTyped, NEW m \in Messages, log' = Append(log, m)
  PROVE  /\ log' \in Seq(Messages) /\ Len(log') = Len(log) + 1
         /\ Places' = Places \union {Len(log) + 1} /\ Len(log) + 1 \notin Places
         /\ \A i \in Places : log'[i] = log[i]
         /\ log'[Len(log) + 1] = m
         /\ Len(log) \in Nat
<1>1. log \in Seq(Messages)
  BY DEF ChatTyped
<1>2. log' \in Seq(Messages) /\ Len(log') = Len(log) + 1
  BY <1>1
<1>3. \A i \in Places : log'[i] = log[i]
  BY <1>1 DEF Places
<1>4. Places' = Places \union {Len(log) + 1} /\ Len(log) + 1 \notin Places
  BY <1>1, <1>2 DEF Places
<1>5. log'[Len(log) + 1] = m /\ Len(log) \in Nat
  BY <1>1
<1> QED BY <1>2, <1>3, <1>4, <1>5

\* A message of a request comes after what an older version stored.
LEMMA LaterRows ==
  ASSUME ChatConstants, ChatInv, NEW q \in Calls, NEW m \in Messages, m.by = q,
         log' = Append(log, m), runs'[Legacy] = runs[Legacy]
  PROVE  LegacyRows'
<1>1. m.by # Legacy
  BY DEF ChatConstants
<1>2. ChatTyped /\ LegacyRows
  BY DEF ChatInv
<1>3. CASE OldTurn
  <2>1. OldTurn'
    BY <1>1, <1>2, <1>3, OneMoreMessage DEF OldTurn, Places
  <2> QED BY <1>2, <2>1 DEF LegacyRows
<1>4. CASE ~OldTurn
  BY <1>1, <1>2, <1>4, OneMoreMessage DEF LegacyRows
<1> QED BY <1>3, <1>4

\* A message that is as private as what it tells.
LEMMA ToldMore ==
  ASSUME ChatConstants, ChatInv, ChatTyped', Grown, NEW q \in Calls, NEW m \in Messages, m.by = q,
         log' = Append(log, m), feedback' = feedback, title' \subseteq {1} \intersect Places',
         m.tells \subseteq Places', ~m.ownerOnly => CleanNext(m.tells)
  PROVE  ToldClean'
<1> USE DEF ChatInv
<1>0. /\ Places' = Places \union {Len(log) + 1} /\ \A i \in Places : log'[i] = log[i]
      /\ log'[Len(log) + 1] = m
  BY OneMoreMessage
<1>1. ASSUME NEW i \in Places'
      PROVE  /\ log'[i].tells \subseteq Places'
             /\ log'[i].by # Legacy /\ ~log'[i].ownerOnly => CleanNext(log'[i].tells)
  <2>1. CASE i \in Places
    <3>1. log'[i] = log[i] /\ log[i].tells \subseteq Places'
      BY <1>0, <2>1 DEF ToldClean
    <3>2. log[i].by # Legacy /\ ~log[i].ownerOnly => CleanNext(log[i].tells)
      BY <2>1, GrownClean DEF ToldClean
    <3> QED BY <3>1, <3>2
  <2>2. CASE i = Len(log) + 1
    BY <1>0, <2>2
  <2> QED BY <1>0, <1>1, <2>1, <2>2
<1>2. feedback' \subseteq {"owner", "member"} \X Places'
  BY <1>0 DEF ToldClean
<1>3. ASSUME NEW p \in feedback', p[1] = "member" PROVE CleanNext(log'[p[2]].tells)
  <2>1. p[2] \in Places /\ Clean(log[p[2]].tells)
    BY <1>3 DEF ToldClean
  <2>2. log'[p[2]] = log[p[2]]
    BY <1>0, <2>1
  <2> QED BY <2>1, <2>2, GrownClean
<1> QED BY <1>1, <1>2, <1>3 DEF ToldClean, Clean, CleanNext

\* Another request does not mind.
LEMMA OtherTurn ==
  ASSUME ChatInv, NEW q \in Calls, NEW m \in Messages, m.by = q, log' = Append(log, m),
         NEW p \in Calls, p # q, handling'[p] = handling[p]
  PROVE  TurnStored(p)'
<1>1. TurnStored(p) /\ ChatTyped
  BY DEF ChatInv
<1> QED BY <1>1, OneMoreMessage DEF TurnStored

LEMMA StoreKeeps ==
  ASSUME ChatConstants, ChatInv, NEW q \in Calls, Store(q)
  PROVE  ChatInv'
<1> DEFINE turn == Len(log) + 1
           kept == IF RouteOf(handling[q].asks) = "secret" THEN {} ELSE {turn}
           m == Said("user", q, OwnerOnly(q), kept)
           row == [handling[q] EXCEPT !.step = "stored", !.turn = turn]
<1>1. /\ handling[q].step = "begun" /\ log' = Append(log, m)
      /\ title' = IF log = <<>> /\ RouteOf(handling[q].asks) \notin Local THEN kept ELSE title
      /\ handling' = [handling EXCEPT ![q] = row]
      /\ UNCHANGED <<settings, runs, feedback>>
  BY DEF Store
<1>2. handling[q] \in AskRows /\ ChatTyped /\ turn \in Nat
  BY LogIs DEF ChatInv, ChatTyped
<1>3. kept \in SUBSET Nat /\ kept \subseteq {turn}
  BY <1>2
<1>4. /\ m \in Messages /\ m.role = "user" /\ m.by = q /\ m.ownerOnly = handling[q].full
      /\ m.tells = kept
  <2>1. q \in Askers /\ handling[q].full \in Flags
    BY <1>2 DEF Askers, AskRows
  <2> HIDE DEF kept
  <2> QED BY <1>3, <2>1 DEF Said, OwnerOnly, Messages
<1> HIDE DEF kept, m
<1>5. row \in AskRows /\ row.step = "stored" /\ row.turn = turn /\ row.full = handling[q].full
  <2> HIDE DEF turn
  <2> QED BY <1>2 DEF AskRows
<1> HIDE DEF row
<1>6. handling'[q] = row /\ \A p \in Calls : p # q => handling'[p] = handling[p]
  BY <1>1, <1>2 DEF ChatTyped
<1>7. /\ log' \in Seq(Messages) /\ Len(log') = turn /\ Places' = Places \union {turn} /\ turn \notin Places
      /\ \A i \in Places : log'[i] = log[i]
      /\ log'[turn] = m
  BY <1>1, <1>2, <1>4, OneMoreMessage
<1>8. ChatTyped'
  BY <1>1, <1>2, <1>5, <1>7 DEF ChatTyped
<1>9. \A i \in Places : log[i].by # q
  BY <1>1 DEF ChatInv, TurnStored, Before
<1>10. Grown
  <2>1. Len(log') >= Len(log)
    BY <1>2, <1>7
  <2>2. \A i \in Places : log[i].by \in Calls => handling'[log[i].by].full = handling[log[i].by].full
    BY <1>6, <1>9
  <2> QED BY <1>1, <1>7, <2>1, <2>2 DEF Grown
<1>11. LegacyRows'
  BY <1>1, <1>4, LaterRows
<1>12. TurnStored(q)'
  BY <1>4, <1>5, <1>6, <1>7, <1>9 DEF TurnStored, Before
<1>13. ~m.ownerOnly => CleanNext(m.tells)
  <2> SUFFICES ASSUME ~handling[q].full, turn \in PrivateTurns' PROVE FALSE
    BY <1>3, <1>4, <1>7 DEF CleanNext
  <2>1. log'[turn].by = q /\ q # Legacy
    BY <1>4, <1>7 DEF ChatConstants
  <2>2. handling'[q].full = handling[q].full
    BY <1>5, <1>6
  <2> QED BY <2>1, <2>2 DEF PrivateTurns
<1>14. title' \subseteq {1} \intersect Places'
  <2>1. CASE title' = title
    BY <2>1, <1>7 DEF ChatInv, ToldClean
  <2>2. CASE title' = kept /\ log = <<>>
    <3>1. turn = 1
      BY <2>2
    <3> QED BY <2>2, <3>1, <1>3, <1>7
  <2> QED BY <1>1, <2>1, <2>2
<1>15. ToldClean'
  BY <1>1, <1>3, <1>4, <1>7, <1>8, <1>10, <1>13, <1>14, ToldMore
<1>16. RunMade(q)'
  BY <1>1, <1>5, <1>6 DEF ChatInv, RunMade
<1>17. \A p \in Calls : TurnStored(p)' /\ RunMade(p)'
  <2> TAKE p \in Calls
  <2>1. CASE p # q
    <3>1. handling'[p] = handling[p] /\ runs'[p] = runs[p]
      BY <1>1, <1>6, <2>1
    <3>2. TurnStored(p)'
      BY <1>1, <1>4, <2>1, <3>1, OtherTurn
    <3>3. RunMade(p)'
      BY <1>8, <1>10, <3>1, SteadyRun
    <3> QED BY <3>2, <3>3
  <2> QED BY <2>1, <1>12, <1>16
<1> QED BY <1>8, <1>11, <1>15, <1>17 DEF ChatInv

LEMMA ShownPlaces ==
  ASSUME ChatConstants, ChatInv, NEW n, NEW v, NEW i \in Shown(n, v)
  PROVE  i \in Places /\ log[i].tells \subseteq Places
<1>1. i \in Window(n)
  BY DEF Shown
<1>2. i \in Places
  BY <1>1, LogIs DEF Window, ChatInv
<1> QED BY <1>2 DEF ChatInv, ToldClean

\* What a request read may be told where its turn may.
LEMMA ReadClean ==
  ASSUME ChatConstants, ChatInv, NEW q \in Calls, handling[q].step \notin Before,
         NEW i, \/ i = handling[q].turn
                \/ i \in Shown(HistoryTake, Reasoning(q))
                \/ i \in Shown(HistoryTake, ProviderView(q))
  PROVE  /\ i \in Places /\ log[i].tells \subseteq Places
         /\ ~handling[q].full => Clean(log[i].tells)
<1>1. CASE i = handling[q].turn
  <2>1. i \in Places /\ log[i].by = q /\ q # Legacy /\ log[i].ownerOnly = handling[q].full
    BY <1>1 DEF ChatInv, TurnStored, ChatConstants
  <2> QED BY <2>1 DEF ChatInv, ToldClean
<1>2. CASE i \in Shown(HistoryTake, Reasoning(q))
  <2>1. i \in Places /\ log[i].tells \subseteq Places
    BY <1>2, ShownPlaces
  <2>2. ~handling[q].full => Reasoning(q) = "normal" /\ HistoryTake \in Nat \ {0}
    BY DEF Reasoning, ChatConstants
  <2> QED BY <1>2, <2>1, <2>2, ShownClean
<1>3. CASE i \in Shown(HistoryTake, ProviderView(q))
  <2>1. i \in Places /\ log[i].tells \subseteq Places
    BY <1>3, ShownPlaces
  <2>2. ~handling[q].full => ProviderView(q) = "provider_redacted" /\ HistoryTake \in Nat \ {0}
    BY DEF ProviderView, ChatConstants
  <2> QED BY <1>3, <2>1, <2>2, ShownClean
<1> QED BY <1>1, <1>2, <1>3

LEMMA ReplyMade ==
  ASSUME ChatConstants, ChatInv, NEW q \in Calls, handling[q].step = "stored",
         NEW r \in Reply(q, RouteOf(handling[q].asks))
  PROVE  r \in RunRows /\ Made(q, r)
<1> DEFINE route == RouteOf(handling[q].asks)
           turn == handling[q].turn
           full == handling[q].full
           told == log[turn].tells
           context == IF full THEN "bound" ELSE "shared"
           base == [NoRun EXCEPT !.context = context, !.turn = turn, !.route = route, !.tells = told]
           Told(T) == T \in SUBSET Places /\ (~full => Clean(T))
           heard == UNION {log[i].tells : i \in Shown(HistoryTake, ProviderView(q))}
<1>1. handling[q] \in AskRows /\ handling[q].step \notin Before /\ Places \subseteq Nat
  BY LogIs DEF ChatInv, ChatTyped, Before, Places
<1>2. turn \in Nat /\ context \in {"shared", "bound", "unbound"}
  BY <1>1 DEF AskRows
<1>3. route \in RouteKinds
  BY <1>1 DEF AskRows, RouteKinds
<1>4. Told(told)
  BY <1>1, ReadClean
<1>5. \A i \in Continued(q) : Told(told \union log[i].tells)
  <2> TAKE i \in Continued(q)
  <2>1. Told(log[i].tells)
    BY <1>1, ReadClean DEF Continued
  <2> QED BY <1>4, <2>1 DEF Clean
<1>6. Told(told \union heard)
  <2>1. \A i \in Shown(HistoryTake, ProviderView(q)) : Told(log[i].tells)
    BY <1>1, ReadClean
  <2> QED BY <1>4, <2>1 DEF Clean
<1>7. \/ r = base
      \/ r = [base EXCEPT !.rec = "remember", !.source = turn]
      \/ r = [base EXCEPT !.rec = "capture", !.source = turn]
      \/ r = [base EXCEPT !.rec = "advice"]
      \/ \E i \in Continued(q) : r = [base EXCEPT !.tells = @ \union log[i].tells, !.rec = "advice"]
      \/ \E c \in {"none", "advice"} : r = [base EXCEPT !.tells = @ \union heard, !.rec = c]
  BY DEF Reply, OwnTurn
<1> HIDE DEF route, turn, told, context, heard
<1>8. /\ base \in RunRows /\ base.context = context /\ base.rec = "none" /\ base.tells = told
      /\ base.source = 0
  <2>1. told \in SUBSET Nat
    BY <1>1, <1>4
  <2> QED BY <1>2, <1>3, <2>1, NoRunTyped DEF NoRun, RunRows
<1> HIDE DEF base
<1>9. \A T : Told(T) => T \in SUBSET Nat
  BY <1>1
<1>10. r \in RunRows /\ r.context = context /\ (r.rec = "remember" => r.source = turn) /\ Told(r.tells)
  <2> HIDE DEF Told
  <2>1. CASE r = base
    BY <1>4, <1>8, <2>1
  <2>2. CASE r = [base EXCEPT !.rec = "remember", !.source = turn]
    BY <1>2, <1>4, <1>8, <2>2 DEF RunRows
  <2>3. CASE r = [base EXCEPT !.rec = "capture", !.source = turn]
    BY <1>2, <1>4, <1>8, <2>3 DEF RunRows
  <2>4. CASE r = [base EXCEPT !.rec = "advice"]
    BY <1>4, <1>8, <2>4 DEF RunRows
  <2>5. ASSUME NEW T, Told(told \union T), NEW c \in {"none", "advice"},
               r = [base EXCEPT !.tells = @ \union T, !.rec = c]
        PROVE  r \in RunRows /\ r.context = context /\ r.rec # "remember" /\ Told(r.tells)
    <3>1. r = [base EXCEPT !.tells = told \union T, !.rec = c]
      BY <1>8, <2>5
    <3>2. told \union T \in SUBSET Nat
      BY <1>9, <2>5
    <3> QED BY <1>8, <2>5, <3>1, <3>2 DEF RunRows
  <2> QED BY <1>5, <1>6, <1>7, <2>1, <2>2, <2>3, <2>4, <2>5
<1> QED BY <1>10 DEF Made, context, turn

\* A step of one request, with the messages as they were.
LEMMA RowSteps ==
  ASSUME ChatConstants, ChatInv, NEW q \in Calls, handling[q].step \notin Before,
         log' = log, title' = title, RatedFairly, settings' = settings,
         NEW row \in AskRows, handling' = [handling EXCEPT ![q] = row],
         row.turn = handling[q].turn, row.full = handling[q].full, row.step \notin Before,
         NEW run \in RunRows, runs' = [runs EXCEPT ![q] = run],
         row.step \notin {"run", "answered"} => run = NoRun,
         row.step \in {"rating", "read"} => Made(q, row.reply),
         row.step \in {"run", "answered"} => Made(q, run)
  PROVE  ChatInv'
<1>1. ChatTyped /\ q \in Askers /\ q # Legacy /\ Legacy \in Askers
  BY DEF ChatInv, Askers, ChatConstants
<1>2. /\ handling'[q] = row /\ runs'[q] = run /\ runs'[Legacy] = runs[Legacy]
      /\ \A p \in Calls : p # q => handling'[p] = handling[p] /\ runs'[p] = runs[p]
  BY <1>1 DEF ChatTyped, Askers
<1>3. ChatTyped'
  BY <1>1 DEF ChatTyped
<1>4. Grown
  <2>1. \A p \in Calls : handling'[p].full = handling[p].full
    BY <1>2
  <2>2. Len(log') >= Len(log)
    BY <1>1, LogIs
  <2> QED BY <1>2, <2>1, <2>2 DEF Grown
<1>5. LegacyRows' /\ ToldClean'
  BY <1>2, <1>3, <1>4, SteadyRows
<1>6. \A p \in Calls : TurnStored(p)'
  BY <1>2, SteadyTurn DEF ChatInv
<1>7. RunMade(q)'
  <2>1. row.step \in {"rating", "read"} => Made(q, row.reply)'
    BY <1>2, <1>3, <1>4, SteadyMade
  <2>2. row.step \in {"run", "answered"} => Made(q, run)'
    BY <1>2, <1>3, <1>4, SteadyMade
  <2> QED BY <1>2, <2>1, <2>2 DEF RunMade, Made, Clean
<1>8. \A p \in Calls : RunMade(p)'
  BY <1>2, <1>3, <1>4, <1>7, SteadyRun
<1> QED BY <1>3, <1>5, <1>6, <1>8 DEF ChatInv

LEMMA RowIs ==
  ASSUME ChatInv, NEW q \in Calls
  PROVE  /\ handling[q] \in AskRows /\ q \in Askers /\ runs[q] \in RunRows
         /\ runs = [runs EXCEPT ![q] = runs[q]]
BY DEF ChatInv, ChatTyped, Askers

LEMMA ReadTurnsKeeps ==
  ASSUME ChatConstants, ChatInv, NEW q \in Calls, ReadTurns(q)
  PROVE  ChatInv'
<1> DEFINE rated == IF "feedback" \in handling[q].asks THEN Rated ELSE {}
           step == IF rated = {} THEN "read" ELSE "rating"
<1>1. PICK reply \in Reply(q, RouteOf(handling[q].asks)) :
        handling' = [handling EXCEPT ![q].reply = reply, ![q].target = rated, ![q].step = step]
  BY DEF ReadTurns
<1>2. handling[q].step = "stored" /\ UNCHANGED <<settings, title, log, runs, feedback>>
  BY DEF ReadTurns
<1>3. reply \in RunRows /\ Made(q, reply)
  BY <1>2, ReplyMade
<1>4. rated \in SUBSET Nat /\ step \in {"rating", "read"}
  BY LogIs DEF Rated, Answers, ChatInv, Places
<1> HIDE DEF rated, step
<1> DEFINE row == [handling[q] EXCEPT !.reply = reply, !.target = rated, !.step = step]
<1>5. handling' = [handling EXCEPT ![q] = row]
  BY <1>1, RowIs DEF ChatInv, ChatTyped
<1>6. /\ row \in AskRows /\ row.turn = handling[q].turn /\ row.full = handling[q].full
      /\ row.step = step /\ row.reply = reply
  BY <1>3, <1>4, RowIs DEF AskRows
<1> HIDE DEF row
<1>7. runs[q] = NoRun
  BY <1>2 DEF ChatInv, RunMade
<1>8. /\ handling[q].step \notin Before /\ row.step \notin Before /\ row.step \notin {"run", "answered"}
  BY <1>2, <1>4, <1>6 DEF Before
<1> QED BY <1>2, <1>3, <1>5, <1>6, <1>7, <1>8, RowIs, RowSteps DEF RatedFairly

LEMMA StoreRunKeeps ==
  ASSUME ChatConstants, ChatInv, NEW q \in Calls, StoreRun(q)
  PROVE  ChatInv'
<1> DEFINE row == [handling[q] EXCEPT !.step = "run", !.reply = NoRun]
           run == [handling[q].reply EXCEPT !.stored = TRUE]
<1>1. /\ handling[q].step = "read" /\ runs' = [runs EXCEPT ![q] = run]
      /\ UNCHANGED <<settings, title, log, feedback>>
  BY DEF StoreRun
<1>2. handling' = [handling EXCEPT ![q] = row]
  BY RowIs DEF StoreRun, ChatInv, ChatTyped
<1>3. /\ row \in AskRows /\ row.turn = handling[q].turn /\ row.full = handling[q].full /\ row.step = "run"
  BY RowIs, NoRunTyped DEF AskRows
<1>4. handling[q].reply \in RunRows /\ Made(q, handling[q].reply)
  BY <1>1, RowIs DEF AskRows, ChatInv, RunMade
<1>5. run \in RunRows /\ Made(q, run)
  BY <1>4, FlagsAre DEF RunRows, Made
<1> HIDE DEF row, run
<1>6. handling[q].step \notin Before /\ row.step \notin Before
  BY <1>1, <1>3 DEF Before
<1> QED BY <1>1, <1>2, <1>3, <1>5, <1>6, RowSteps DEF RatedFairly

LEMMA RespondKeeps ==
  ASSUME ChatConstants, ChatInv, NEW q \in Calls, Respond(q)
  PROVE  ChatInv'
<1> DEFINE m == Said("assistant", q, OwnerOnly(q), runs[q].tells)
           row == [handling[q] EXCEPT !.step = "answered"]
<1>1. /\ handling[q].step = "run" /\ log' = Append(log, m)
      /\ UNCHANGED <<settings, title, runs, feedback>>
  BY DEF Respond
<1>2. handling' = [handling EXCEPT ![q] = row]
  BY RowIs DEF Respond, ChatInv, ChatTyped
<1>3. row \in AskRows /\ row.turn = handling[q].turn /\ row.full = handling[q].full /\ row.step = "answered"
  BY RowIs DEF AskRows
<1>4. Made(q, runs[q])
  BY <1>1 DEF ChatInv, RunMade
<1>5. /\ m \in Messages /\ m.role = "assistant" /\ m.by = q /\ m.ownerOnly = handling[q].full
      /\ m.tells = runs[q].tells
  <2>1. handling[q].full \in Flags /\ runs[q].tells \in SUBSET Nat
    BY RowIs DEF AskRows, RunRows
  <2> QED BY <2>1, RowIs DEF Said, OwnerOnly, Messages
<1> HIDE DEF m, row
<1>6. ChatTyped /\ Legacy \in Askers /\ q # Legacy
  BY DEF ChatInv, Askers, ChatConstants
<1>7. /\ log' \in Seq(Messages) /\ Len(log') = Len(log) + 1 /\ Places' = Places \union {Len(log) + 1}
      /\ Len(log) + 1 \notin Places /\ Len(log) \in Nat
      /\ \A i \in Places : log'[i] = log[i]
      /\ log'[Len(log) + 1] = m
  BY <1>1, <1>5, <1>6, OneMoreMessage
<1>8. handling'[q] = row /\ \A p \in Calls : p # q => handling'[p] = handling[p]
  BY <1>2, <1>6 DEF ChatTyped
<1>9. ChatTyped'
  BY <1>1, <1>2, <1>3, <1>6, <1>7 DEF ChatTyped
<1>10. Grown
  <2>1. \A p \in Calls : handling'[p].full = handling[p].full
    BY <1>3, <1>8
  <2>2. Len(log') >= Len(log)
    BY <1>7
  <2> QED BY <1>1, <1>7, <2>1, <2>2 DEF Grown
<1>11. LegacyRows'
  BY <1>1, <1>5, LaterRows
<1>12. TurnStored(q)'
  <2>1. TurnStored(q) /\ handling[q].step \notin Before
    BY <1>1 DEF ChatInv, Before
  <2> QED BY <2>1, <1>3, <1>5, <1>7, <1>8 DEF TurnStored, Before
<1>13. ~m.ownerOnly => CleanNext(m.tells)
  BY <1>4, <1>5, <1>9, <1>10, GrownClean DEF Made
<1>14. m.tells \subseteq Places'
  BY <1>4, <1>5, <1>7 DEF Made
<1>15. title' \subseteq {1} \intersect Places'
  BY <1>1, <1>7 DEF ChatInv, ToldClean
<1>16. ToldClean'
  BY <1>1, <1>5, <1>9, <1>10, <1>13, <1>14, <1>15, ToldMore
<1>17. RunMade(q)'
  <2>1. runs[q] \in RunRows /\ handling'[q].turn = handling[q].turn /\ handling'[q].full = handling[q].full
    BY <1>3, <1>8, RowIs
  <2>2. LET r == runs[q] IN CleanNext(r.tells) \/ handling[q].full
    BY <1>5, <1>13
  <2> QED BY <1>1, <1>3, <1>4, <1>7, <1>8, <2>1, <2>2 DEF RunMade, Made, Clean, CleanNext
<1>18. \A p \in Calls : TurnStored(p)' /\ RunMade(p)'
  <2> TAKE p \in Calls
  <2>1. CASE p # q
    <3>1. handling'[p] = handling[p] /\ runs'[p] = runs[p]
      BY <1>1, <1>8, <2>1
    <3>2. TurnStored(p)'
      BY <1>1, <1>5, <2>1, <3>1, OtherTurn
    <3>3. RunMade(p)'
      BY <1>9, <1>10, <3>1, SteadyRun
    <3> QED BY <3>2, <3>3
  <2> QED BY <2>1, <1>12, <1>17
<1> QED BY <1>9, <1>11, <1>16, <1>18 DEF ChatInv

\* A response visible to a member tells nothing private.
LEMMA VisibleClean ==
  ASSUME ChatConstants, ChatInv, NEW actor \in {"owner", "member"}, NEW i,
         ResponseVisible(i, RoleView(actor))
  PROVE  i \in Places /\ (actor = "member" => Clean(log[i].tells))
<1>1. i \in Places /\ i \in Answers
  BY LogIs DEF ResponseVisible, Answers, ChatInv
<1>2. ASSUME actor = "member" PROVE Clean(log[i].tells)
  <2>1. ~log[i].ownerOnly /\ (log[i].by = Legacy => runs[Legacy].context = "shared")
    BY <1>2 DEF ResponseVisible, RoleView, MessageVisible, Traced, Insiders
  <2>2. CASE log[i].by # Legacy
    BY <1>1, <2>1, <2>2 DEF ChatInv, ToldClean
  <2>3. CASE log[i].by = Legacy
    <3>1. OldTurn /\ log[i].tells = {1}
      BY <1>1, <2>3, LogIs DEF ChatInv, LegacyRows, OldTurn, Places
    <3>2. 1 \notin PrivateTurns /\ 1 \in Places
      BY <2>1, <2>3, <3>1, LogIs DEF PrivateTurns, OldTurn, ChatInv, Places
    <3> QED BY <3>1, <3>2 DEF Clean
  <2> QED BY <2>2, <2>3
<1> QED BY <1>1, <1>2

LEMMA RateKeeps ==
  ASSUME ChatConstants, ChatInv, NEW q \in Calls, Rate(q)
  PROVE  ChatInv'
<1>1. handling[q].step = "rating" /\ UNCHANGED <<settings, title, log, runs>>
  BY DEF Rate
<1>2. PICK step \in {"read", "failed"} :
        /\ handling' = [handling EXCEPT ![q].step = step]
        /\ \A p \in feedback' \ feedback :
             \E i \in handling[q].target : p = <<handling[q].actor, i>> /\ ResponseVisible(i, RoleView(handling[q].actor))
  BY DEF Rate
<1> DEFINE row == [handling[q] EXCEPT !.step = step]
<1>3. handling' = [handling EXCEPT ![q] = row]
  BY <1>2, RowIs DEF ChatInv, ChatTyped
<1>4. /\ row \in AskRows /\ row.turn = handling[q].turn /\ row.full = handling[q].full
      /\ row.step = step /\ row.reply = handling[q].reply
  BY RowIs DEF AskRows
<1> HIDE DEF row
<1>5. RatedFairly
  <2> SUFFICES ASSUME NEW p \in feedback' \ feedback
               PROVE  p \in {"owner", "member"} \X Places /\ (p[1] = "member" => Clean(log[p[2]].tells))
    BY DEF RatedFairly
  <2>1. PICK i \in handling[q].target : p = <<handling[q].actor, i>> /\ ResponseVisible(i, RoleView(handling[q].actor))
    BY <1>2
  <2>2. handling[q].actor \in {"owner", "member"}
    BY RowIs DEF AskRows
  <2> QED BY <2>1, <2>2, VisibleClean
<1>6. runs[q] = NoRun /\ Made(q, handling[q].reply)
  BY <1>1 DEF ChatInv, RunMade
<1>7. /\ handling[q].step \notin Before /\ row.step \notin Before /\ row.step \notin {"run", "answered"}
  BY <1>1, <1>4 DEF Before
<1> QED BY <1>1, <1>3, <1>4, <1>5, <1>6, <1>7, RowIs, RowSteps

\* Nobody asks, and the messages stay.
LEMMA OtherSteps ==
  ASSUME ChatConstants, ChatInv, log' = log, title' = title, RatedFairly,
         handling' = handling, settings' \in [ai : Flags, full : Flags], runs' \in [Askers -> RunRows],
         \A q \in Askers : /\ runs'[q].context = runs[q].context /\ runs'[q].rec = runs[q].rec
                           /\ runs'[q].source = runs[q].source /\ runs'[q].tells = runs[q].tells
                           /\ runs'[q].turn = runs[q].turn,
         \A q \in Calls : runs[q] = NoRun => runs'[q] = NoRun
  PROVE  ChatInv'
<1>1. Legacy \in Askers /\ Calls \subseteq Askers
  BY DEF Askers
<1>2. ChatTyped'
  BY DEF ChatInv, ChatTyped
<1>3. Grown
  BY <1>1, LogIs DEF Grown, ChatInv
<1>4. LegacyRows' /\ ToldClean'
  BY <1>1, <1>2, <1>3, SteadyRows
<1>5. ASSUME NEW p \in Calls PROVE TurnStored(p)' /\ RunMade(p)'
  <2>1. TurnStored(p)'
    BY SteadyTurn DEF ChatInv
  <2>2. /\ handling[p].step \in {"rating", "read"} => Made(p, handling[p].reply)'
    BY <1>2, <1>3, SteadyMade DEF ChatInv, RunMade
  <2>3. handling[p].step \in {"run", "answered"} => Made(p, runs[p])
    BY DEF ChatInv, RunMade
  <2>4. \A S : Clean(S) => CleanNext(S)
    BY <1>2, <1>3, GrownClean
  <2>5. Places' = Places
    BY DEF Places
  <2>6. handling[p].step \in {"run", "answered"} => Made(p, runs[p])'
    BY <1>1, <2>3, <2>4, <2>5 DEF Made, Clean, CleanNext
  <2>7. RunMade(p)'
    BY <2>2, <2>6 DEF ChatInv, RunMade, Made, Clean
  <2> QED BY <2>1, <2>7
<1> QED BY <1>2, <1>4, <1>5 DEF ChatInv

LEMMA RateShownKeeps ==
  ASSUME ChatConstants, ChatInv, NEW actor \in {"owner", "member"}, NEW i \in Answers, RateShown(actor, i)
  PROVE  ChatInv'
<1>1. /\ ResponseVisible(i, RoleView(actor)) /\ feedback' = feedback \union {<<actor, i>>}
      /\ UNCHANGED <<settings, title, log, runs, handling>>
  BY DEF RateShown
<1>2. RatedFairly
  BY <1>1, VisibleClean DEF RatedFairly
<1> QED BY <1>1, <1>2, OtherSteps DEF ChatInv, ChatTyped

LEMMA DecideKeeps ==
  ASSUME ChatConstants, ChatInv, NEW q \in Askers, DecideProposal(q)
  PROVE  ChatInv'
<1>1. PICK outcome \in {"accepted", "dismissed"} : runs' = [runs EXCEPT ![q].outcome = outcome]
  BY DEF DecideProposal
<1>2. UNCHANGED <<settings, title, log, handling, feedback>> /\ runs[q].rec # "none"
  BY DEF DecideProposal
<1>3. runs \in [Askers -> RunRows]
  BY DEF ChatInv, ChatTyped
<1>4. [runs[q] EXCEPT !.outcome = outcome] \in RunRows
  BY <1>3 DEF RunRows
<1>5. runs' \in [Askers -> RunRows]
  BY <1>1, <1>3, <1>4
<1>6. \A p \in Askers : /\ runs'[p].context = runs[p].context /\ runs'[p].rec = runs[p].rec
                        /\ runs'[p].source = runs[p].source /\ runs'[p].tells = runs[p].tells
                        /\ runs'[p].turn = runs[p].turn
  BY <1>1, <1>3 DEF RunRows
<1>7. \A p \in Calls : runs[p] = NoRun => runs'[p] = NoRun
  <2>1. runs[q] # NoRun
    BY <1>2 DEF NoRun
  <2>2. \A p \in Calls : p # q => runs'[p] = runs[p]
    BY <1>1, <1>3 DEF Askers
  <2> QED BY <2>1, <2>2
<1> QED BY <1>2, <1>5, <1>6, <1>7, OtherSteps DEF ChatInv, ChatTyped, RatedFairly

LEMMA SettingsKeep ==
  ASSUME ChatConstants, ChatInv, UpdateSettings
  PROVE  ChatInv'
<1>1. UNCHANGED <<title, log, runs, handling, feedback>>
  BY DEF UpdateSettings
<1>2. settings' \in [ai : Flags, full : Flags]
  <2>1. settings \in [ai : Flags, full : Flags]
    BY DEF ChatInv, ChatTyped
  <2> DEFINE f == ~settings.full
  <2>2. settings' = [ai |-> FALSE, full |-> FALSE] \/ settings' = [settings EXCEPT !.ai = TRUE]
        \/ settings' = [settings EXCEPT !.full = f]
    BY DEF UpdateSettings
  <2>3. f \in Flags
    BY DEF Flags
  <2> HIDE DEF f
  <2>4. TRUE \in Flags /\ FALSE \in Flags
    BY FlagsAre
  <2>5. [ai |-> FALSE, full |-> FALSE] \in [ai : Flags, full : Flags]
    BY <2>4
  <2>6. [settings EXCEPT !.ai = TRUE] \in [ai : Flags, full : Flags]
    BY <2>1, <2>4
  <2>7. [settings EXCEPT !.full = f] \in [ai : Flags, full : Flags]
    BY <2>1, <2>3
  <2> QED BY <2>2, <2>5, <2>6, <2>7
<1> QED BY <1>1, <1>2, OtherSteps DEF ChatInv, ChatTyped, RatedFairly

LEMMA ChatInvAlways ==
  ASSUME ChatConstants
  PROVE  ChatSpec => []ChatInv
<1>1. ChatInit => ChatInv
  BY ChatInvInit
<1>2. ChatInv /\ [ChatNext]_chatVars => ChatInv'
  <2> SUFFICES ASSUME ChatInv, [ChatNext]_chatVars PROVE ChatInv'
    OBVIOUS
  <2>1. CASE \E q \in Calls : Begin(q) \/ Store(q) \/ ReadTurns(q)
    BY <2>1, BeginKeeps, StoreKeeps, ReadTurnsKeeps
  <2>2. CASE \E q \in Calls : Rate(q) \/ StoreRun(q) \/ Respond(q)
    BY <2>2, RateKeeps, StoreRunKeeps, RespondKeeps
  <2>3. CASE \E actor \in {"owner", "member"}, i \in Answers : RateShown(actor, i)
    BY <2>3, RateShownKeeps
  <2>4. CASE \E q \in Askers : DecideProposal(q)
    BY <2>4, DecideKeeps
  <2>5. CASE UpdateSettings
    BY <2>5, SettingsKeep
  <2>6. CASE UNCHANGED chatVars \/ \E q \in Askers : PatchMemory(q)
    <3>1. UNCHANGED <<settings, title, log, runs, handling, feedback>>
      BY <2>6 DEF PatchMemory, chatVars
    <3> QED BY <3>1, OtherSteps DEF ChatInv, ChatTyped, RatedFairly
  <2> QED BY <2>1, <2>2, <2>3, <2>4, <2>5, <2>6 DEF ChatNext
<1> QED BY <1>1, <1>2, PTL DEF ChatSpec

RatingsTyped ==
  /\ \A q \in Askers : fact[q] \in {"none", "normal", "sensitive", "restricted", "archived"}
  /\ DOMAIN fact = Askers
  /\ feedback \subseteq {"owner", "member"} \X Answers
  /\ byHand \in 0..MaxByHand

LEMMA AnswersStay ==
  ASSUME ChatTyped, NEW m, log' = Append(log, m)
  PROVE  Answers \subseteq Answers'
<1> SUFFICES ASSUME NEW i \in DOMAIN log PROVE i \in DOMAIN log' /\ log'[i] = log[i]
  BY DEF Answers
<1>1. log \in Seq(Messages) /\ i \in 1..Len(log) /\ Len(log) \in Nat
  BY DEF ChatTyped
<1>2. DOMAIN log' = 1..(Len(log) + 1)
  BY <1>1
<1> QED BY <1>1, <1>2

LEMMA RatingsKept ==
  ASSUME ChatConstants, ChatInv, ChatInv', RatingsTyped, [ChatNext]_chatVars
  PROVE  RatingsTyped'
<1>1. MaxByHand \in Nat /\ ChatTyped
  BY DEF ChatConstants, ChatInv
<1>2. CASE \E q \in Calls : Begin(q) \/ ReadTurns(q) \/ StoreRun(q)
  <2>1. UNCHANGED <<log, fact, feedback, byHand>>
    <3>1. ASSUME NEW q \in Calls, Begin(q) PROVE UNCHANGED <<log, fact, feedback, byHand>>
      BY <3>1 DEF Begin
    <3>2. ASSUME NEW q \in Calls, ReadTurns(q) PROVE UNCHANGED <<log, fact, feedback, byHand>>
      BY <3>2, Zenon DEF ReadTurns
    <3>3. ASSUME NEW q \in Calls, StoreRun(q) PROVE UNCHANGED <<log, fact, feedback, byHand>>
      BY <3>3 DEF StoreRun
    <3> QED BY <1>2, <3>1, <3>2, <3>3
  <2> QED BY <2>1 DEF RatingsTyped, Answers
<1>3. CASE \E q \in Calls : Store(q) \/ Respond(q)
  <2>1. UNCHANGED <<fact, feedback, byHand>> /\ \E m : log' = Append(log, m)
    <3>1. ASSUME NEW q \in Calls, Store(q)
          PROVE  UNCHANGED <<fact, feedback, byHand>> /\ \E m : log' = Append(log, m)
      BY <3>1, Zenon DEF Store
    <3>2. ASSUME NEW q \in Calls, Respond(q)
          PROVE  UNCHANGED <<fact, feedback, byHand>> /\ \E m : log' = Append(log, m)
      BY <3>2, Zenon DEF Respond
    <3> QED BY <1>3, <3>1, <3>2
  <2>2. Answers \subseteq Answers'
    BY <1>1, <2>1, AnswersStay
  <2> QED BY <2>1, <2>2 DEF RatingsTyped
<1>4. ASSUME NEW q \in Calls, Rate(q) PROVE RatingsTyped'
  <2>1. UNCHANGED <<log, fact, byHand>> /\ handling[q].actor \in {"owner", "member"}
    BY <1>1, <1>4 DEF Rate, ChatTyped, AskRows
  <2>2. feedback' \subseteq {"owner", "member"} \X Answers
    BY <1>4, <2>1 DEF Rate, ResponseVisible, RatingsTyped
  <2> QED BY <2>1, <2>2 DEF RatingsTyped, Answers
<1>5. CASE \E actor \in {"owner", "member"}, i \in Answers : RateShown(actor, i)
  <2>1. UNCHANGED <<log, fact>> /\ byHand' = byHand + 1 /\ byHand < MaxByHand
    BY <1>5 DEF RateShown
  <2>2. feedback' \subseteq {"owner", "member"} \X Answers
    BY <1>5 DEF RateShown, RatingsTyped
  <2> QED BY <1>1, <2>1, <2>2 DEF RatingsTyped, Answers
<1>6. ASSUME NEW q \in Askers, DecideProposal(q) PROVE RatingsTyped'
  <2>1. UNCHANGED <<log, feedback, byHand>> /\ (fact' = fact \/ fact' = [fact EXCEPT ![q] = "normal"])
    BY <1>6 DEF DecideProposal
  <2> QED BY <2>1 DEF RatingsTyped, Answers
<1>7. ASSUME NEW q \in Askers, PatchMemory(q) PROVE RatingsTyped'
  <2>1. /\ UNCHANGED <<log, feedback>> /\ byHand' = byHand + 1 /\ byHand < MaxByHand
        /\ \E f \in {"normal", "sensitive", "restricted", "archived"} : fact' = [fact EXCEPT ![q] = f]
    BY <1>7 DEF PatchMemory
  <2> QED BY <1>1, <2>1 DEF RatingsTyped, Answers
<1>8. CASE UpdateSettings
  <2>1. UNCHANGED <<log, fact, feedback>> /\ byHand' = byHand + 1 /\ byHand < MaxByHand
    BY <1>8 DEF UpdateSettings
  <2> QED BY <1>1, <2>1 DEF RatingsTyped, Answers
<1>9. CASE UNCHANGED chatVars
  BY <1>9 DEF chatVars, RatingsTyped, Answers
<1> QED BY <1>2, <1>3, <1>4, <1>5, <1>6, <1>7, <1>8, <1>9 DEF ChatNext

\* The conversation, its runs and what is known of it stay well typed, whatever is
\* asked, rated, decided and switched.
THEOREM ChatTypeCorrect ==
  ASSUME ChatConstants
  PROVE  ChatSpec => []ChatTypeOK
<1>1. ChatInit => RatingsTyped
  BY DEF ChatInit, RatingsTyped, ChatConstants
<1>2. ChatInv /\ ChatInv' /\ RatingsTyped /\ [ChatNext]_chatVars => RatingsTyped'
  BY RatingsKept
<1>3. ChatInv /\ RatingsTyped => ChatTypeOK
  <2> SUFFICES ASSUME ChatInv, RatingsTyped PROVE ChatTypeOK
    OBVIOUS
  <2>1. settings \in [ai : BOOLEAN, full : BOOLEAN]
    BY DEF ChatInv, ChatTyped, Flags
  <2>2. \A i \in DOMAIN log : log[i].by \in Askers /\ log[i].tells \subseteq DOMAIN log
    BY LogIs DEF ChatInv, ToldClean, Messages
  <2> QED BY <2>1, <2>2 DEF ChatTypeOK, RatingsTyped
<1> QED BY <1>1, <1>2, <1>3, ChatInvAlways, PTL DEF ChatSpec

\* What the owner asked with full context stays with owners, a note and the turn that
\* asked for it are one unit in every view, and no member rates what was made for the
\* owner, whatever is asked and switched at once
\* (projectManagerConversationMessages, hiddenConversationIds,
\* responseReviewCandidates, learningSummary).
THEOREM ChatPrivateAlways ==
  ASSUME ChatConstants
  PROVE  ChatSpec => []ChatPrivate
<1>1. ChatInv => ChatPrivate
  BY PrivacyHolds, RatingsHold, NotesHold DEF ChatPrivate
<1> QED BY <1>1, ChatInvAlways, PTL
=============================================================================
