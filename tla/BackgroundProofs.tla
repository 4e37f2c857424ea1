-------------------------- MODULE BackgroundProofs --------------------------
(***************************************************************************)
(* Theorems about StripeWebhook, for any number of concurrent deliveries and*)
(* of failures, about BriefSchedule, for any workers, people and periods, and *)
(* about ManagerLearning, for any answers, advice, members and sizes of queues.*)
(***************************************************************************)
EXTENDS StripeWebhook, BriefSchedule, ManagerLearning, FiniteSetTheorems, TLAPS

-----------------------------------------------------------------------------
(* Deliveries of Stripe                                                     *)
\* The points at which a transaction holds the row.
Holding == {"promote", "reclaim", "apply", "work", "complete", "commit"}

\* The committed row tells whether the handler's writes are in the database.
RowInv ==
  /\ effects \in {0, 1}
  /\ Handled <=> effects = 1
  /\ acked => effects = 1
  /\ row.status = "absent" => effects = 0

\* A transaction that will work, or has worked, found an event nobody has
\* handled; one that promotes found a handled one; both leave a handled one.
Sound(t) ==
  /\ t.pc \in {"reclaim", "apply", "work", "complete"} => effects = 0
  /\ t.worked <=> t.pc = "complete" \/ (t.pc = "commit" /\ effects = 0)
  /\ t.pc = "reclaim" => row.status # "absent"
  /\ t.pc = "promote" => t.draft = row /\ effects = 1
  /\ t.pc \in {"work", "complete"} => t.draft.applied
  /\ t.pc = "commit" => /\ t.draft.applied \/ t.draft.status = "completed"
                        /\ t.draft.status # "absent"

\* Whoever is past the lock is the holder.
TxInv(d) == (tx[d].pc \in Holding <=> holder = d) /\ Sound(tx[d])

IInv == TypeOK /\ RowInv /\ \A d \in Deliveries : TxInv(d)

-----------------------------------------------------------------------------
TxRecords == [pc : PCs, draft : Rows, worked : BOOLEAN, stale : BOOLEAN, sawLapsed : BOOLEAN]

LEMMA IdleTyped == Idle \in TxRecords /\ Absent \in Rows
BY DEF Idle, Absent, TxRecords, Rows, PCs

LEMMA ClaimTyped == ASSUME NEW d \in Deliveries PROVE ClaimBy(d) \in Rows
BY DEF ClaimBy, Rows

LEMMA InitHolds == ASSUME StripeConstants, Init PROVE IInv
<1>1. row \in Rows
  BY IdleTyped DEF Init, Leftovers
<1>2. TypeOK
  <2>1. tx \in [Deliveries -> TxRecords]
    BY IdleTyped DEF Init
  <2>2. failures \in 0..MaxFailures /\ effects \in Nat
    BY DEF StripeConstants, Init
  <2> QED BY <1>1, <2>1, <2>2 DEF Init, TypeOK, TxRecords
<1>3. RowInv
  BY DEF Init, RowInv, Handled, Leftovers, Absent, Rows
<1>4. ASSUME NEW d \in Deliveries PROVE TxInv(d)
  BY DEF StripeConstants, Init, TxInv, Sound, Idle, Holding
<1> QED BY <1>2, <1>3, <1>4 DEF IInv

\* A step that gives one delivery a new transaction record, and leaves the
\* others, the row and the effect as they are, is judged by that record alone.
LEMMA OneTransaction ==
  ASSUME StripeConstants, IInv, NEW d \in Deliveries, NEW t \in TxRecords,
         tx' = [tx EXCEPT ![d] = t],
         UNCHANGED <<row, lapsed, effects, acked>>, failures' \in 0..MaxFailures,
         \/ holder' = holder
         \/ holder' = d /\ holder = Nobody
         \/ holder' = Nobody /\ holder = d,
         t.pc \in Holding <=> holder' = d,
         Sound(t)
  PROVE  IInv'
<1>1. TypeOK'
  BY DEF IInv, TypeOK, TxRecords
<1>2. RowInv'
  BY DEF IInv, RowInv, Handled
<1>3. ASSUME NEW c \in Deliveries PROVE TxInv(c)'
  <2>1. CASE c = d
    <3>1. tx'[c] = t
      BY <2>1 DEF IInv, TypeOK
    <3> QED BY <3>1, <2>1 DEF TxInv, Sound
  <2>2. CASE c # d
    <3>1. tx'[c] = tx[c] /\ (holder' = c <=> holder = c)
      BY <2>2 DEF StripeConstants, IInv, TypeOK
    <3> QED BY <3>1 DEF IInv, TxInv, Sound
  <2> QED BY <2>1, <2>2
<1> QED BY <1>1, <1>2, <1>3 DEF IInv

LEMMA Steps == ASSUME StripeConstants, IInv, [Next]_vars PROVE IInv'
<1> USE DEF IInv
<1>0. failures \in 0..MaxFailures /\ \A d \in Deliveries : tx[d] \in TxRecords
  BY DEF TypeOK, TxRecords
<1>1. ASSUME NEW d \in Deliveries, Begin(d) PROVE IInv'
  <2> DEFINE t == [Idle EXCEPT !.pc = "insert", !.sawLapsed = lapsed]
  <2>1. t \in TxRecords /\ t.pc = "insert" /\ ~t.worked
    BY IdleTyped DEF TypeOK, TxRecords, Idle, PCs
  <2>2. holder # d
    BY <1>1 DEF Begin, TxInv, Holding
  <2>3. Sound(t)
    BY <2>1 DEF Sound
  <2>4. tx' = [tx EXCEPT ![d] = t]
    BY <1>1 DEF Begin
  <2> HIDE DEF t
  <2> QED BY <1>0, <1>1, <2>1, <2>2, <2>3, <2>4, OneTransaction DEF Begin, Holding
<1>2. ASSUME NEW d \in Deliveries, InsertClaim(d) PROVE IInv'
  <2> DEFINE t == [tx[d] EXCEPT !.draft = ClaimBy(d), !.pc = "apply"]
  <2>1. t \in TxRecords /\ t.pc = "apply" /\ (t.worked <=> tx[d].worked)
    BY <1>0, ClaimTyped DEF TxRecords, PCs
  <2>2. tx' = [tx EXCEPT ![d] = t]
    BY <1>2 DEF InsertClaim, Write, TypeOK
  <2>3. Sound(t)
    BY <1>2, <2>1 DEF InsertClaim, TxInv, Sound, RowInv
  <2>4. holder' = d /\ holder = Nobody
    <3>1. ASSUME holder # Nobody PROVE FALSE
      <4>1. holder \in Deliveries /\ TxInv(holder)
        BY <3>1 DEF TypeOK
      <4>2. tx[holder].pc \in {"promote", "reclaim"}
        BY <1>2, <3>1, <4>1 DEF InsertClaim, MustWait, TxInv, Holding
      <4> QED BY <1>2, <4>1, <4>2 DEF InsertClaim, TxInv, Sound, RowInv
    <3> QED BY <1>2, <3>1 DEF InsertClaim
  <2> HIDE DEF t
  <2> QED BY <1>0, <1>2, <2>1, <2>2, <2>3, <2>4, OneTransaction DEF InsertClaim, Holding
<1>3. ASSUME NEW d \in Deliveries, InsertConflicts(d) PROVE IInv'
  <2> DEFINE t == [tx[d] EXCEPT !.pc = "lock"]
  <2>1. t \in TxRecords /\ t.pc = "lock" /\ (t.worked <=> tx[d].worked)
    BY <1>0 DEF TxRecords, PCs
  <2>2. tx' = [tx EXCEPT ![d] = t]
    BY <1>3 DEF InsertConflicts, Goto, TypeOK
  <2>3. Sound(t) /\ holder # d
    BY <1>3, <2>1 DEF InsertConflicts, TxInv, Sound, Holding
  <2> HIDE DEF t
  <2> QED BY <1>0, <1>3, <2>1, <2>2, <2>3, OneTransaction DEF InsertConflicts, Holding
<1>4. ASSUME NEW d \in Deliveries, LockRow(d) PROVE IInv'
  <2> DEFINE t == [tx[d] EXCEPT !.draft = row, !.pc = OnRow(d)]
  <2>1. OnRow(d) \in {"promote", "reclaim"}
    BY <1>4 DEF LockRow, OnRow
  <2>2. t \in TxRecords /\ t.pc = OnRow(d) /\ t.draft = row /\ (t.worked <=> tx[d].worked)
    BY <1>0, <2>1 DEF TxRecords, PCs, TypeOK
  <2>3. tx' = [tx EXCEPT ![d] = t]
    BY <1>4 DEF LockRow, Write, TypeOK
  <2>4. OnRow(d) = "promote" => effects = 1
    BY DEF OnRow, RowInv
  <2>5. OnRow(d) = "reclaim" => effects = 0 /\ row.status # "absent"
    BY DEF OnRow, Reclaimable, RowInv
  <2>6. Sound(t)
    BY <1>4, <2>1, <2>2, <2>4, <2>5 DEF LockRow, TxInv, Sound
  <2> HIDE DEF t
  <2> QED BY <1>0, <1>4, <2>1, <2>2, <2>3, <2>6, OneTransaction DEF LockRow, Free, Holding
<1>5. ASSUME NEW d \in Deliveries, Reclaim(d) PROVE IInv'
  <2> DEFINE t == [tx[d] EXCEPT !.draft = ClaimBy(d), !.pc = "apply"]
  <2>1. t \in TxRecords /\ t.pc = "apply" /\ (t.worked <=> tx[d].worked)
    BY <1>0, ClaimTyped DEF TxRecords, PCs
  <2>2. tx' = [tx EXCEPT ![d] = t]
    BY <1>5 DEF Reclaim, Write, TypeOK
  <2>3. Sound(t) /\ holder = d
    BY <1>5, <2>1 DEF Reclaim, TxInv, Sound, Holding
  <2> HIDE DEF t
  <2> QED BY <1>0, <1>5, <2>1, <2>2, <2>3, OneTransaction DEF Reclaim, Holding
<1>6. ASSUME NEW d \in Deliveries, Leave(d), UNCHANGED <<row, lapsed, effects, acked>>,
             failures' \in 0..MaxFailures
      PROVE  IInv'
  <2>1. Idle \in TxRecords /\ Idle.pc = "idle" /\ ~Idle.worked
    BY IdleTyped DEF Idle
  <2>2. Sound(Idle)
    BY <2>1 DEF Sound
  <2>3. holder' # d
    BY <1>6 DEF StripeConstants, Leave
  <2> QED BY <1>6, <2>1, <2>2, <2>3, OneTransaction DEF Leave, Holding
<1>7. ASSUME NEW d \in Deliveries, InFlight(d) PROVE IInv'
  BY <1>0, <1>6, <1>7 DEF InFlight
<1>8. ASSUME NEW d \in Deliveries, Rollback(d) PROVE IInv'
  BY <1>0, <1>6, <1>8 DEF StripeConstants, Rollback, Fail
<1>9. ASSUME NEW d \in Deliveries, MarkApplied(d) PROVE IInv'
  <2> DEFINE w == [tx[d].draft EXCEPT !.applied = TRUE]
             t == [tx[d] EXCEPT !.draft = w, !.pc = "work"]
  <2>1. w \in Rows /\ w.applied
    BY <1>0 DEF TxRecords, Rows
  <2>2. t \in TxRecords /\ t.pc = "work" /\ t.draft = w /\ (t.worked <=> tx[d].worked)
    BY <1>0, <2>1 DEF TxRecords, PCs
  <2>3. tx' = [tx EXCEPT ![d] = t]
    BY <1>9 DEF MarkApplied, Write, TypeOK
  <2>4. Sound(t) /\ holder = d
    BY <1>9, <2>1, <2>2 DEF MarkApplied, TxInv, Sound, Holding
  <2> HIDE DEF t
  <2> QED BY <1>0, <1>9, <2>2, <2>3, <2>4, OneTransaction DEF MarkApplied, Holding
<1>10. ASSUME NEW d \in Deliveries, Work(d) PROVE IInv'
  <2> DEFINE t == [tx[d] EXCEPT !.worked = TRUE, !.pc = "complete"]
  <2>1. t \in TxRecords /\ t.pc = "complete" /\ t.worked /\ t.draft = tx[d].draft
    BY <1>0 DEF TxRecords, PCs
  <2>2. tx' = [tx EXCEPT ![d] = t]
    BY <1>10 DEF Work, TypeOK
  <2>3. Sound(t) /\ holder = d
    BY <1>10, <2>1 DEF Work, TxInv, Sound, Holding
  <2> HIDE DEF t
  <2> QED BY <1>0, <1>10, <2>1, <2>2, <2>3, OneTransaction DEF Work, Holding
<1>11. ASSUME NEW d \in Deliveries, MarkCompleted(d) PROVE IInv'
  <2> DEFINE w == [tx[d].draft EXCEPT !.status = "completed"]
             t == [tx[d] EXCEPT !.draft = w, !.pc = "commit"]
  <2>1. w \in Rows /\ w.status = "completed"
    BY <1>0 DEF TxRecords, Rows
  <2>2. t \in TxRecords /\ t.pc = "commit" /\ t.draft = w /\ (t.worked <=> tx[d].worked)
    BY <1>0, <2>1 DEF TxRecords, PCs
  <2>3. tx' = [tx EXCEPT ![d] = t]
    BY <1>11 DEF MarkCompleted, Write, TypeOK
  <2>4. Sound(t) /\ holder = d
    BY <1>11, <2>1, <2>2 DEF MarkCompleted, TxInv, Sound, Holding
  <2> HIDE DEF t
  <2> QED BY <1>0, <1>11, <2>2, <2>3, <2>4, OneTransaction DEF MarkCompleted, Holding
<1>12. ASSUME NEW d \in Deliveries, PromoteApplied(d) PROVE IInv'
  <2>1. tx[d].draft = row /\ effects = 1 /\ holder = d /\ ~tx[d].worked /\ row.status # "absent"
    BY <1>12 DEF PromoteApplied, TxInv, Sound, Holding, RowInv
  <2>2. CASE Goto(d, "commit")
    <3> DEFINE t == [tx[d] EXCEPT !.pc = "commit"]
    <3>1. t \in TxRecords /\ t.pc = "commit" /\ t.draft = row /\ ~t.worked
      BY <1>0, <2>1 DEF TxRecords, PCs
    <3>2. tx' = [tx EXCEPT ![d] = t]
      BY <2>2 DEF Goto, TypeOK
    <3>3. Sound(t)
      BY <2>1, <3>1 DEF Sound, RowInv, Handled
    <3> HIDE DEF t
    <3> QED BY <1>0, <1>12, <2>1, <3>1, <3>2, <3>3, OneTransaction DEF PromoteApplied, Holding
  <2>3. CASE Write(d, [row EXCEPT !.status = "completed"], "commit")
    <3> DEFINE w == [row EXCEPT !.status = "completed"]
               t == [tx[d] EXCEPT !.draft = w, !.pc = "commit"]
    <3>1. w \in Rows /\ w.status = "completed"
      BY DEF TypeOK, Rows
    <3>2. t \in TxRecords /\ t.pc = "commit" /\ t.draft = w /\ ~t.worked
      BY <1>0, <2>1, <3>1 DEF TxRecords, PCs
    <3>3. tx' = [tx EXCEPT ![d] = t]
      BY <2>3 DEF Write, TypeOK
    <3> HIDE DEF w, t
    <3>4. Sound(t)
      BY <2>1, <3>1, <3>2 DEF Sound
    <3> QED BY <1>0, <1>12, <2>1, <3>2, <3>3, <3>4, OneTransaction DEF PromoteApplied, Holding
  <2> QED BY <1>12, <2>2, <2>3 DEF PromoteApplied
<1>13. ASSUME NEW d \in Deliveries, Commit(d) PROVE IInv'
  <2>1. /\ holder = d
        /\ tx[d].draft \in Rows
        /\ tx[d].draft.applied \/ tx[d].draft.status = "completed"
        /\ tx[d].draft.status # "absent"
        /\ tx[d].worked <=> effects = 0
    BY <1>0, <1>13 DEF Commit, TxInv, Sound, Holding, TxRecords
  <2>2. effects' = 1
    BY <1>13, <2>1 DEF Commit, RowInv
  <2>3. RowInv'
    BY <1>13, <2>1, <2>2 DEF Commit, RowInv, Handled
  <2>4. ASSUME NEW c \in Deliveries
        PROVE  /\ tx'[c] \in TxRecords
               /\ c = d => tx'[c] = Idle
               /\ c # d => /\ tx'[c].pc = tx[c].pc
                           /\ tx'[c].worked = tx[c].worked
    <3>1. CASE c = d
      BY <1>13, <3>1, IdleTyped DEF Commit, Outdated
    <3>2. CASE c # d
      <4> DEFINE b == tx[c].pc # "idle" /\ (tx[c].stale \/ tx[d].draft # row)
      <4>1. b \in BOOLEAN
        OBVIOUS
      <4>2. tx'[c] = [tx[c] EXCEPT !.stale = b]
        BY <1>13, <3>2 DEF Commit, Outdated
      <4> HIDE DEF b
      <4> QED BY <1>0, <3>2, <4>1, <4>2 DEF TxRecords
    <3> QED BY <3>1, <3>2
  <2>5. tx' \in [Deliveries -> TxRecords]
    BY <1>13, <2>4 DEF Commit, Outdated
  <2>6. TypeOK'
    <3>1. failures' \in 0..MaxFailures /\ acked' \in BOOLEAN
      <4>1. failures' = failures \/ (failures < MaxFailures /\ failures' = failures + 1)
        BY <1>13 DEF Commit, Fail
      <4>2. acked' \in {acked, TRUE} /\ acked \in BOOLEAN
        BY <1>13 DEF Commit, TypeOK
      <4>3. failures' \in 0..MaxFailures
        BY <1>0, <4>1 DEF StripeConstants
      <4> QED BY <4>2, <4>3
    <3>2. row' \in Rows /\ lapsed' \in BOOLEAN /\ holder' \in Deliveries \union {Nobody}
      BY <1>13, <2>1 DEF Commit, TypeOK
    <3> QED BY <2>2, <2>5, <3>1, <3>2 DEF TypeOK, TxRecords
  <2>7. ASSUME NEW c \in Deliveries PROVE TxInv(c)'
    <3>1. CASE c = d
      BY <1>13, <2>4, <3>1 DEF StripeConstants, Commit, TxInv, Sound, Idle, Holding
    <3>2. CASE c # d
      <4>1. tx[c].pc \notin Holding /\ ~tx[c].worked
        BY <2>1, <3>2 DEF TxInv, Sound, Holding
      <4> QED BY <1>13, <2>4, <3>2, <4>1 DEF StripeConstants, Commit, TxInv, Sound, Holding
    <3> QED BY <3>1, <3>2
  <2> QED BY <2>3, <2>6, <2>7
<1>14. CASE LeaseEnds \/ UNCHANGED vars
  <2>1. lapsed' \in BOOLEAN /\ UNCHANGED <<row, tx, holder, effects, acked, failures>>
    BY <1>14 DEF LeaseEnds, vars, TypeOK
  <2>2. TypeOK'
    BY <2>1 DEF TypeOK
  <2>3. RowInv'
    BY <2>1 DEF RowInv, Handled
  <2> QED BY <2>1, <2>2, <2>3 DEF TxInv, Sound
<1> QED
  BY <1>1, <1>2, <1>3, <1>4, <1>5, <1>7, <1>8, <1>9, <1>10, <1>11, <1>12, <1>13, <1>14
  DEF Next, Step

LEMMA Always == ASSUME StripeConstants PROVE Spec => []IInv
<1>1. Init => IInv
  BY InitHolds
<1>2. IInv /\ [Next]_vars => IInv'
  BY Steps
<1> QED BY <1>1, <1>2, PTL DEF Spec

-----------------------------------------------------------------------------
\* The table and the transactions keep their types.
THEOREM StripeTypeCorrect == ASSUME StripeConstants PROVE Spec => []TypeOK
<1>1. IInv => TypeOK
  BY DEF IInv
<1> QED BY <1>1, Always, PTL

\* However deliveries repeat, race, fail and crash, the handler's writes are
\* committed at most once for an event (runOnce).
THEOREM AppliedOnceAlways == ASSUME StripeConstants PROVE Spec => []AppliedOnce
<1>1. IInv => AppliedOnce
  BY DEF IInv, RowInv, AppliedOnce
<1> QED BY <1>1, Always, PTL

\* Nothing is acknowledged, or marked applied or completed, unless the handler's
\* writes are committed (runOnce, promoteApplied).
THEOREM AckedIsAppliedAlways == ASSUME StripeConstants PROVE Spec => []AckedIsApplied
<1>1. IInv => AckedIsApplied
  BY DEF IInv, RowInv, AckedIsApplied, Handled
<1> QED BY <1>1, Always, PTL

\* No second handler runs while the first holds the row, lease or no lease
\* (lockEventRow).
THEOREM OneHandlerAlways == ASSUME StripeConstants PROVE Spec => []OneHandler
<1>1. ASSUME IInv PROVE OneHandler
  <2> DEFINE H == {d \in Deliveries : tx[d].pc \in {"apply", "work", "complete"}}
  <2>1. H \subseteq {holder}
    BY <1>1 DEF IInv, TxInv, Holding
  <2>2. IsFiniteSet({holder}) /\ Cardinality({holder}) = 1
    BY FS_Singleton
  <2>3. IsFiniteSet(H) /\ Cardinality(H) <= 1
    BY <2>1, <2>2, FS_Subset
  <2> QED BY <2>3 DEF OneHandler
<1> QED BY <1>1, Always, PTL

-----------------------------------------------------------------------------
(* That a period is briefed once, for any workers, people and periods.       *)

\* A scan that is under way is about a period.
ScanOfPeriod == \A w \in Workers : scan[w].at # "idle" => scan[w].period \in Periods

BriefInv == BriefTypeOK /\ ScanOfPeriod /\ BriefedOnce

Scans == [at : {"idle", "claim", "generate", "recover"}, period : Periods \union {NoPeriod},
          audience : Audiences, last : Periods \union {NoPeriod}]
Settings == [enabled : BOOLEAN, audience : Audiences, last : Periods \union {NoPeriod},
             claimedBy : Workers \union {NoClaim}, stale : BOOLEAN]

LEMMA ScanTyped ==
  BriefTypeOK => scan \in [Workers -> Scans] /\ settings \in Settings
BY DEF BriefTypeOK, Scans, Settings

LEMMA BriefTyped ==
  ASSUME BriefTypeOK, scan' \in [Workers -> Scans], settings' \in Settings,
         period' \in Periods, due' \in BOOLEAN, briefs' \subseteq Periods,
         notices' \in [Periods -> [People -> Nat]],
         edits' \in 0..MaxEdits, faults' \in 0..MaxFaults
  PROVE  BriefTypeOK'
BY DEF BriefTypeOK, Scans, Settings

\* What one scan comes to know; the others know what they knew.
LEMMA ScanMoves ==
  ASSUME BriefTypeOK, ScanOfPeriod, NEW w \in Workers, NEW s \in Scans,
         s.at # "idle" => s.period \in Periods,
         scan' = [scan EXCEPT ![w] = s]
  PROVE  scan' \in [Workers -> Scans] /\ ScanOfPeriod'
BY ScanTyped DEF ScanOfPeriod, Periods

LEMMA ScanGoes ==
  ASSUME BriefTypeOK, ScanOfPeriod, NEW w \in Workers,
         NEW at \in {"generate", "recover"}, scan[w].at # "idle",
         scan' = [scan EXCEPT ![w].at = at]
  PROVE  scan' \in [Workers -> Scans] /\ ScanOfPeriod'
<1> DEFINE s == [scan[w] EXCEPT !.at = at]
<1>1. scan[w] \in Scans
  BY ScanTyped
<1>2. s \in Scans /\ s.period = scan[w].period
  BY <1>1 DEF Scans
<1>3. scan' = [scan EXCEPT ![w] = s]
  OBVIOUS
<1>4. s.period \in Periods
  BY <1>2 DEF ScanOfPeriod
<1> HIDE DEF s
<1> QED BY <1>2, <1>3, <1>4, ScanMoves

LEMMA ScanEnds ==
  ASSUME BriefTypeOK, ScanOfPeriod, NEW w \in Workers, scan' = [scan EXCEPT ![w] = IdleScan]
  PROVE  scan' \in [Workers -> Scans] /\ ScanOfPeriod'
<1>1. IdleScan \in Scans /\ IdleScan.at = "idle"
  BY DEF IdleScan, Scans, Audiences
<1> HIDE DEF IdleScan
<1> QED BY <1>1, ScanMoves

\* No notice is written and no run created.
LEMMA NothingTold ==
  ASSUME BriefedOnce, UNCHANGED <<briefs, notices>>
  PROVE  BriefedOnce'
BY DEF BriefedOnce

LEMMA BriefInitial == ASSUME BriefConstants, BriefInit PROVE BriefInv
<1>1. 1 \in Periods /\ 0 \in 0..MaxEdits /\ 0 \in 0..MaxFaults
  BY DEF BriefConstants, Periods
<1>2. IdleScan \in Scans /\ IdleScan.at = "idle"
  BY DEF IdleScan, Scans, Audiences
<1>3. scan \in [Workers -> Scans] /\ settings \in Settings
  <2> HIDE DEF IdleScan
  <2> QED BY <1>2 DEF BriefInit, Settings
<1>4. BriefTypeOK
  BY <1>1, <1>3 DEF BriefInit, BriefTypeOK, Scans, Settings
<1>5. ScanOfPeriod
  <2> HIDE DEF IdleScan
  <2> QED BY <1>2 DEF BriefInit, ScanOfPeriod
<1>6. BriefedOnce
  BY DEF BriefInit, BriefedOnce
<1> QED BY <1>4, <1>5, <1>6 DEF BriefInv

\* One scan's step: the transaction is the only one that tells anybody, and it
\* tells those a period's first run is for.
LEMMA BriefScanStep ==
  ASSUME BriefConstants, BriefInv, NEW w \in Workers,
         ScanRead(w) \/ ScanSteps(w) \/ GenerationFails(w) \/ ScanDies(w)
  PROVE  BriefInv'
<1> USE DEF BriefInv
<1>1. scan[w] \in Scans /\ settings \in Settings /\ period \in Periods
  BY ScanTyped DEF BriefTypeOK
<1>2. CASE ScanRead(w)
  <2> DEFINE s == [at |-> "claim", period |-> period, audience |-> settings.audience,
                   last |-> settings.last]
  <2>1. s \in Scans /\ s.period \in Periods
    BY <1>1 DEF Scans, Settings
  <2>2. scan' = [scan EXCEPT ![w] = s]
    BY <1>2 DEF ScanRead
  <2> HIDE DEF s
  <2>3. scan' \in [Workers -> Scans] /\ ScanOfPeriod'
    BY <2>1, <2>2, ScanMoves
  <2> QED BY <1>1, <1>2, <2>3, BriefTyped, NothingTold DEF ScanRead, BriefTypeOK
<1>3. CASE Claim(w)
  <2>1. scan[w].period \in Periods
    BY <1>3 DEF Claim, ScanOfPeriod
  <2>2. PICK old \in BOOLEAN :
          /\ faults' = faults + (IF old THEN 1 ELSE 0) /\ (old => faults < MaxFaults)
          /\ settings' = [settings EXCEPT !.last = scan[w].period, !.claimedBy = w, !.stale = old]
    BY <1>3 DEF Claim
  <2>3. settings' \in Settings
    BY <1>1, <2>1, <2>2 DEF Settings
  <2>4. faults' \in 0..MaxFaults
    BY <2>2 DEF BriefConstants, BriefTypeOK
  <2>5. scan' \in [Workers -> Scans] /\ ScanOfPeriod'
    BY <1>3, ScanGoes DEF Claim
  <2> QED BY <1>3, <2>3, <2>4, <2>5, BriefTyped, NothingTold DEF Claim, BriefTypeOK
<1>4. CASE ClaimRefused(w)
  <2>1. scan' \in [Workers -> Scans] /\ ScanOfPeriod'
    BY <1>4, ScanEnds DEF ClaimRefused
  <2> QED BY <1>1, <1>4, <2>1, BriefTyped, NothingTold DEF ClaimRefused, BriefTypeOK
<1>5. CASE CommitRun(w)
  <2> DEFINE p == scan[w].period
             told == [o \in People |->
                        notices[p][o] + (IF o \in Recipients(scan[w].audience) THEN 1 ELSE 0)]
  <2>1. p \in Periods /\ p \notin briefs /\ Owners \subseteq Recipients(scan[w].audience)
    BY <1>5 DEF CommitRun, KeyFree, ScanOfPeriod, Recipients, People
  <2>2. briefs' = briefs \union {p} /\ notices' = [notices EXCEPT ![p] = told]
    BY <1>5 DEF CommitRun
  <2>3. \A o \in People : notices[p][o] = 0
    BY <2>1 DEF BriefedOnce
  <2>4. /\ told \in [People -> Nat] /\ \A o \in People : told[o] <= 1
        /\ \A o \in Owners : told[o] = 1
    BY <2>1, <2>3 DEF People
  <2> HIDE DEF told, p
  <2>5. notices' \in [Periods -> [People -> Nat]] /\ briefs' \subseteq Periods
    BY <2>1, <2>2, <2>4 DEF BriefTypeOK
  <2>6. BriefedOnce'
    BY <2>1, <2>2, <2>4 DEF BriefedOnce, BriefTypeOK
  <2>7. settings' \in Settings
    BY <1>1, <1>5 DEF CommitRun, Settings
  <2>8. faults' \in 0..MaxFaults
    BY <1>5 DEF BriefConstants, CommitRun, BriefTypeOK
  <2>9. scan' \in [Workers -> Scans] /\ ScanOfPeriod'
    BY <1>5, ScanGoes, ScanEnds DEF CommitRun
  <2> QED BY <1>5, <2>5, <2>6, <2>7, <2>8, <2>9, BriefTyped DEF CommitRun, BriefTypeOK
<1>6. CASE Refused(w)
  <2>1. scan' \in [Workers -> Scans] /\ ScanOfPeriod'
    BY <1>6, ScanGoes DEF Refused
  <2> QED BY <1>1, <1>6, <2>1, BriefTyped, NothingTold DEF Refused, BriefTypeOK
<1>7. CASE GenerationFails(w)
  <2>1. scan' \in [Workers -> Scans] /\ ScanOfPeriod'
    BY <1>7, ScanGoes DEF GenerationFails
  <2>2. faults' \in 0..MaxFaults
    BY <1>7 DEF BriefConstants, GenerationFails, BriefTypeOK
  <2> QED BY <1>1, <1>7, <2>1, <2>2, BriefTyped, NothingTold DEF GenerationFails, BriefTypeOK
<1>8. CASE RecoverExisting(w) \/ RecoverRestore(w)
  <2>1. scan' \in [Workers -> Scans] /\ ScanOfPeriod'
    BY <1>8, ScanEnds DEF RecoverExisting, RecoverRestore
  <2>2. settings' \in Settings
    <3>1. CASE settings' = settings
      BY <1>1, <3>1
    <3>2. CASE settings' = [settings EXCEPT !.claimedBy = NoClaim, !.stale = FALSE]
      BY <1>1, <3>2 DEF Settings
    <3>3. ASSUME NEW last \in Periods \union {NoPeriod},
                 settings' = [settings EXCEPT !.last = last, !.claimedBy = NoClaim, !.stale = FALSE]
          PROVE  settings' \in Settings
      BY <1>1, <3>3 DEF Settings
    <3>4. scan[w].last \in Periods \union {NoPeriod}
      BY <1>1 DEF Scans
    <3> QED BY <1>8, <3>1, <3>2, <3>3, <3>4 DEF RecoverExisting, RecoverRestore
  <2> QED BY <1>8, <2>1, <2>2, BriefTyped, NothingTold DEF RecoverExisting, RecoverRestore, BriefTypeOK
<1>9. CASE ScanDies(w)
  <2>1. scan' \in [Workers -> Scans] /\ ScanOfPeriod'
    BY <1>9, ScanEnds DEF ScanDies
  <2>2. faults' \in 0..MaxFaults
    BY <1>9 DEF BriefConstants, ScanDies, BriefTypeOK
  <2> QED BY <1>1, <1>9, <2>1, <2>2, BriefTyped, NothingTold DEF ScanDies, BriefTypeOK
<1> QED BY <1>2, <1>3, <1>4, <1>5, <1>6, <1>7, <1>8, <1>9 DEF ScanSteps

LEMMA BriefStep == ASSUME BriefConstants, BriefInv, [BriefNext]_briefVars PROVE BriefInv'
<1> USE DEF BriefInv
<1>1. scan \in [Workers -> Scans] /\ settings \in Settings
  BY ScanTyped
<1>2. CASE UNCHANGED briefVars
  BY <1>1, <1>2, BriefTyped, NothingTold DEF briefVars, BriefTypeOK, ScanOfPeriod
<1>3. CASE \E w \in Workers : ScanRead(w) \/ ScanSteps(w) \/ GenerationFails(w) \/ ScanDies(w)
  BY <1>3, BriefScanStep
<1>4. CASE EditSettings
  <2>1. settings' \in Settings
    BY <1>4 DEF EditSettings, Settings
  <2>2. edits' \in 0..MaxEdits
    BY <1>4 DEF BriefConstants, EditSettings, BriefTypeOK
  <2> QED BY <1>1, <1>4, <2>1, <2>2, BriefTyped, NothingTold DEF EditSettings, BriefTypeOK, ScanOfPeriod
<1>5. CASE HourArrives
  BY <1>1, <1>5, BriefTyped, NothingTold DEF HourArrives, BriefTypeOK, ScanOfPeriod
<1>6. CASE PeriodPasses
  <2>1. period' \in Periods
    BY <1>6 DEF BriefConstants, PeriodPasses, BriefTypeOK, Periods
  <2> QED BY <1>1, <1>6, <2>1, BriefTyped, NothingTold DEF PeriodPasses, BriefTypeOK, ScanOfPeriod
<1>7. CASE ClaimAges
  <2>1. settings' \in Settings
    BY <1>1, <1>7 DEF ClaimAges, Settings
  <2>2. faults' \in 0..MaxFaults
    BY <1>7 DEF BriefConstants, ClaimAges, BriefTypeOK
  <2> QED BY <1>1, <1>7, <2>1, <2>2, BriefTyped, NothingTold DEF ClaimAges, BriefTypeOK, ScanOfPeriod
<1> QED BY <1>2, <1>3, <1>4, <1>5, <1>6, <1>7 DEF BriefNext

LEMMA BriefInvariant == ASSUME BriefConstants PROVE BriefSpec => []BriefInv
<1>1. BriefInit => BriefInv
  BY BriefInitial
<1>2. BriefInv /\ [BriefNext]_briefVars => BriefInv'
  BY BriefStep
<1> QED BY <1>1, <1>2, PTL DEF BriefSpec

\* However workers overlap, die or lose answers, and whatever the owner edits, a
\* period has one brief and everybody it is for is told of it once
\* (runScheduledBriefScan and the transaction of generateBrief).
THEOREM BriefedOnceAlways == ASSUME BriefConstants PROVE BriefSpec => []BriefedOnce
<1>1. BriefInv => BriefedOnce
  BY DEF BriefInv
<1> QED BY <1>1, BriefInvariant, PTL

-----------------------------------------------------------------------------
(* What a queue asks about                                                  *)

\* Of the finite set S, whose members have moments of their own, what comes after r.
After(S, At, r) == {s \in S : At[s] > At[r]}
Apart(S, At) ==
  /\ IsFiniteSet(S)
  /\ \A r \in S : At[r] \in Nat
  /\ \A r, s \in S : At[r] = At[s] => r = s

\* There is one for every number of those that come after.
LEMMA Ranked ==
  ASSUME NEW S, NEW At, Apart(S, At)
  PROVE  [r \in S |-> Cardinality(After(S, At, r))] \in Bijection(S, 0..(Cardinality(S) - 1))
<1> DEFINE n == Cardinality(S)
           rank == [r \in S |-> Cardinality(After(S, At, r))]
<1>1. IsFiniteSet(S) /\ n \in Nat
  BY FS_CardinalityType DEF Apart
<1>2. ASSUME NEW r \in S
      PROVE  IsFiniteSet(After(S, At, r)) /\ Cardinality(After(S, At, r)) \in 0..(n - 1)
  <2>1. After(S, At, r) \in SUBSET (S \ {r})
    BY DEF After, Apart
  <2>2. IsFiniteSet(S \ {r}) /\ Cardinality(S \ {r}) = n - 1
    BY <1>1, FS_RemoveElement
  <2>3. IsFiniteSet(After(S, At, r)) /\ Cardinality(After(S, At, r)) <= n - 1
    BY <2>1, <2>2, FS_Subset
  <2> QED BY <1>1, <2>3, FS_CardinalityType
<1>3. rank \in [S -> 0..(n - 1)]
  BY <1>2
<1>4. ASSUME NEW r \in S, NEW s \in S, At[s] > At[r] PROVE rank[s] < rank[r]
  <2>1. After(S, At, s) \in SUBSET (After(S, At, r) \ {s}) /\ s \in After(S, At, r)
    BY <1>4 DEF After, Apart
  <2>2. IsFiniteSet(After(S, At, r) \ {s}) /\ Cardinality(After(S, At, r) \ {s}) = rank[r] - 1
    BY <1>2, <2>1, FS_RemoveElement
  <2>3. rank[s] <= rank[r] - 1
    BY <2>1, <2>2, FS_Subset
  <2> QED BY <1>3, <2>3
<1>5. rank \in Injection(S, 0..(n - 1))
  <2> SUFFICES ASSUME NEW r \in S, NEW s \in S, r # s PROVE rank[r] # rank[s]
    BY <1>3 DEF Injection, IsInjective
  <2>1. At[r] > At[s] \/ At[s] > At[r]
    BY DEF Apart
  <2> HIDE DEF rank
  <2> QED BY <1>3, <1>4, <2>1
<1>6. IsFiniteSet(0..(n - 1)) /\ Cardinality(0..(n - 1)) = n
  BY <1>1, FS_Interval
<1> HIDE DEF rank
<1>7. rank \in Surjection(S, 0..(n - 1))
  BY <1>5, <1>6, FS_Injection
<1> QED BY <1>5, <1>7 DEF Bijection, rank

\* One comes last, and as many as there is room for come before the others.
LEMMA OneLast ==
  ASSUME NEW S, NEW At, Apart(S, At), S # {}
  PROVE  \E r \in S : \A s \in S : At[s] <= At[r]
<1> DEFINE rank == [r \in S |-> Cardinality(After(S, At, r))]
<1>1. rank \in Surjection(S, 0..(Cardinality(S) - 1))
  BY Ranked DEF Bijection
<1>2. Cardinality(S) \in Nat /\ Cardinality(S) # 0
  BY FS_CardinalityType, FS_EmptySet DEF Apart
<1>3. PICK r \in S : rank[r] = 0
  <2> HIDE DEF rank
  <2>1. 0 \in 0..(Cardinality(S) - 1)
    BY <1>2
  <2> QED BY <1>1, <2>1 DEF Surjection
<1>4. After(S, At, r) = {}
  <2>1. IsFiniteSet(After(S, At, r))
    <3>1. After(S, At, r) \in SUBSET S
      BY DEF After
    <3> QED BY <3>1, FS_Subset DEF Apart
  <2> QED BY <1>3, <2>1, FS_EmptySet
<1>5. \A s \in S : ~(At[s] > At[r])
  BY <1>4 DEF After
<1> QED BY <1>5 DEF Apart

LEMMA Least == ASSUME NEW k \in Nat, NEW n \in Nat PROVE Min({k, n}) = IF k <= n THEN k ELSE n
BY DEF Min

LEMMA FirstOnes ==
  ASSUME NEW S, NEW At, Apart(S, At), NEW k \in Nat
  PROVE  Cardinality({r \in S : Cardinality(After(S, At, r)) < k}) = Min({k, Cardinality(S)})
<1> DEFINE n == Cardinality(S)
           room == IF k <= n THEN k ELSE n
           rank == [r \in S |-> Cardinality(After(S, At, r))]
           first == {r \in S : rank[r] < k}
           f == [r \in first |-> rank[r]]
<1>1. n \in Nat
  BY FS_CardinalityType DEF Apart
<1>2. rank \in Bijection(S, 0..(n - 1))
  BY Ranked
<1>3. first = {r \in S : Cardinality(After(S, At, r)) < k}
  OBVIOUS
<1> HIDE DEF rank
<1>4. /\ rank \in [S -> 0..(n - 1)]
      /\ \A r, s \in S : rank[r] = rank[s] => r = s
      /\ \A i \in 0..(n - 1) : \E r \in S : rank[r] = i
  BY <1>2 DEF Bijection, Injection, Surjection, IsInjective
<1>5. f \in Bijection(first, 0..(room - 1))
  <2>1. f \in [first -> 0..(room - 1)]
    BY <1>1, <1>4
  <2>2. \A r, s \in first : f[r] = f[s] => r = s
    BY <1>4
  <2>3. ASSUME NEW i \in 0..(room - 1) PROVE \E r \in first : f[r] = i
    <3>1. i \in 0..(n - 1) /\ i < k
      BY <1>1
    <3> QED BY <1>4, <3>1
  <2> HIDE DEF f, first, room
  <2> QED BY <2>1, <2>2, <2>3 DEF Bijection, Injection, Surjection, IsInjective
<1>6. IsFiniteSet(first)
  <2>1. first \in SUBSET S
    OBVIOUS
  <2> QED BY <2>1, FS_Subset DEF Apart
<1>7. Cardinality(0..(room - 1)) = Cardinality(first)
  <2> HIDE DEF f, first
  <2> QED BY <1>5, <1>6, FS_Bijection DEF ExistsBijection
<1>8. Cardinality(0..(room - 1)) = room
  <2>1. room \in Nat
    BY <1>1
  <2> HIDE DEF room
  <2>2. 0 \in Int /\ room - 1 \in Int /\ (0 > room - 1 => room = 0)
    BY <2>1
  <2>3. Cardinality(0..(room - 1)) = IF 0 > room - 1 THEN 0 ELSE (room - 1) - 0 + 1
    BY <2>2, FS_Interval
  <2> QED BY <2>1, <2>2, <2>3
<1> QED BY <1>1, <1>3, <1>7, <1>8, Least

\* The newest of each group are as many as the groups.
LEMMA Heads ==
  ASSUME NEW S, NEW At, NEW Group, Apart(S, At)
  PROVE  /\ Apart(Newest(S, At, Group), At)
         /\ Cardinality(Newest(S, At, Group)) = Cardinality({Group[r] : r \in S})
<1> DEFINE heads == Newest(S, At, Group)
           groups == {Group[r] : r \in S}
           f == [r \in heads |-> Group[r]]
<1>1. heads \in SUBSET S
  BY DEF Newest
<1>2. IsFiniteSet(heads)
  BY <1>1, FS_Subset DEF Apart
<1>3. f \in [heads -> groups]
  BY <1>1
<1>4. \A r, s \in heads : f[r] = f[s] => r = s
  <2> SUFFICES ASSUME NEW r \in heads, NEW s \in heads, Group[r] = Group[s] PROVE r = s
    OBVIOUS
  <2>1. r \in S /\ s \in S /\ At[r] <= At[s] /\ At[s] <= At[r]
    BY <1>1 DEF Newest
  <2> QED BY <2>1 DEF Apart
<1>5. ASSUME NEW g \in groups PROVE \E r \in heads : f[r] = g
  <2> DEFINE T == {r \in S : Group[r] = g}
  <2>1. Apart(T, At) /\ T # {}
    <3>1. T \in SUBSET S /\ T # {}
      BY <1>5
    <3>2. IsFiniteSet(T)
      BY <3>1, FS_Subset DEF Apart
    <3> HIDE DEF T
    <3> QED BY <3>1, <3>2 DEF Apart
  <2>2. PICK r \in T : \A s \in T : At[s] <= At[r]
    <3> HIDE DEF T
    <3> QED BY <2>1, OneLast
  <2>3. r \in heads
    BY <2>2 DEF Newest
  <2> QED BY <2>2, <2>3
<1>6. f \in Bijection(heads, groups)
  <2> HIDE DEF f, heads, groups
  <2> QED BY <1>3, <1>4, <1>5 DEF Bijection, Injection, Surjection, IsInjective
<1>7. Apart(heads, At)
  <2> HIDE DEF heads
  <2> QED BY <1>1, <1>2 DEF Apart
<1> HIDE DEF f
<1> QED BY <1>2, <1>6, <1>7, FS_Bijection DEF ExistsBijection

\* A queue passes over a group only when it is full.
LEMMA QueueFull ==
  ASSUME NEW S, NEW At, NEW Group, Apart(S, At), Limit \in Nat
  PROVE  /\ Cardinality(Queue(S, At, Group)) = Min({Limit, Cardinality({Group[r] : r \in S})})
         /\ Queue(S, At, Group) \subseteq S
<1>1. Apart(Newest(S, At, Group), At)
      /\ Cardinality(Newest(S, At, Group)) = Cardinality({Group[r] : r \in S})
  BY Heads
<1>2. Queue(S, At, Group)
        = {r \in Newest(S, At, Group) : Cardinality(After(Newest(S, At, Group), At, r)) < Limit}
  BY DEF Queue, After
<1>3. Newest(S, At, Group) \subseteq S
  BY DEF Newest
<1> QED BY <1>1, <1>2, <1>3, FirstOnes

-----------------------------------------------------------------------------
(* What members teach the Manager                                           *)

Ratings == {"helpful", "unhelpful"}
Answered(m) == answer[m] # Nothing
Decided(r) == outcome[r].what # "suggested"

LearningTyped ==
  /\ version \in 1..MaxVersion /\ now \in 0..MaxNow
  /\ answer = [m \in Messages |-> answer[m]]
  /\ rating \in [Messages -> [Raters -> {"none"} \union Ratings]]
  /\ example = [m \in Messages |-> example[m]]
  /\ outcome = [r \in Advice |-> outcome[r]]
  /\ \A r \in Advice : lesson[r] = Nothing \/ lesson[r].label \in Labels
  /\ lesson = [r \in Advice |-> lesson[r]]
  /\ doing = [o \in Raters |-> doing[o]]

\* Every answer and every decision has a moment of its own.
Given ==
  /\ \A m \in Messages : Answered(m) => /\ answer[m].version \in 1..version
                                        /\ answer[m].at \in 0..(now - 1)
  /\ \A m, n \in Messages : Answered(m) /\ Answered(n) /\ answer[m].at = answer[n].at => m = n
  /\ \A m \in Messages, o \in Raters : rating[m][o] # "none" => Answered(m)
DecidedOnce ==
  /\ \A r \in Advice : outcome[r].at \in 0..now /\ (Decided(r) => outcome[r].at < now)
  /\ \A r, s \in Advice : Decided(r) /\ Decided(s) /\ outcome[r].at = outcome[s].at => r = s

\* An example is of its answer, and later versions alone resolve it.
ExampleOf(e, v) ==
  \E label \in Labels, r \in Ratings, by \in {0} \union (v + 1)..MaxVersion :
    /\ e = [label |-> label, rated |-> r, version |-> v, resolved |-> by]
    /\ Agrees(label, r)
Made(m) == Answered(m) /\ ExampleOf(example[m], answer[m].version)
Pending(o) ==
  LET d == doing[o]
  IN  /\ d.kind = "promote" => /\ d.of \in Messages /\ Answered(d.of)
                               /\ d.label \in Labels /\ d.rated \in Ratings /\ Agrees(d.label, d.rated)
      /\ d.kind = "resolve" => /\ d.of \in Messages /\ Made(d.of)
                               /\ d.by \in (answer[d.of].version + 1)..MaxVersion

LearningInv ==
  /\ LearningTyped /\ Given /\ DecidedOnce
  /\ \A m \in Messages : example[m] = Nothing \/ Made(m)
  /\ \A o \in Raters : Pending(o)

LEMMA LearningStart == ASSUME LearningConstants, LearningInit PROVE LearningInv
<1>1. LearningTyped /\ DecidedOnce
  BY DEF LearningConstants, LearningInit, LearningTyped, DecidedOnce, Decided
<1>2. Given
  BY DEF LearningInit, Given, Answered
<1>3. \A o \in Raters : Pending(o)
  BY DEF LearningInit, Pending, Resting
<1> QED BY <1>1, <1>2, <1>3 DEF LearningInv, LearningInit

\* An answer, once given, stays as it is.
LEMMA AnswersKept ==
  ASSUME LearningConstants, LearningInv, LearningNext \/ UNCHANGED learningVars
  PROVE  /\ \A m \in Messages : Answered(m) => answer'[m] = answer[m]
         /\ now' \in {now, now + 1} /\ version' \in {version, version + 1}
         /\ now' \in 0..MaxNow /\ version' \in 1..MaxVersion
<1>1. answer = [m \in Messages |-> answer[m]] /\ now \in 0..MaxNow /\ version \in 1..MaxVersion
  BY DEF LearningInv, LearningTyped
<1> {MaxNow, MaxVersion} \subseteq Nat
  BY DEF LearningConstants
<1>2. \A m \in Messages : Answered(m) => answer'[m] = answer[m]
  <2>1. ASSUME NEW n \in Messages, Answer(n) PROVE \A m \in Messages : Answered(m) => answer'[m] = answer[m]
    BY <1>1, <2>1 DEF Answer, Answered
  <2>2. (\E n \in Messages : Answer(n)) \/ answer' = answer
    BY DEF LearningNext, learningVars, Rate, PromoteReads, ResolveReads, PromoteWrites, ResolveWrites,
           Decide, Teach, Upgrade, OfAnswers
  <2> QED BY <2>1, <2>2
<1>3. now' = now \/ (now < MaxNow /\ now' = now + 1)
  BY DEF LearningNext, learningVars, Answer, Rate, PromoteReads, ResolveReads, PromoteWrites, ResolveWrites,
         Decide, Teach, Upgrade, Moment
<1>4. version' = version \/ (version < MaxVersion /\ version' = version + 1)
  BY DEF LearningNext, learningVars, Answer, Rate, PromoteReads, ResolveReads, PromoteWrites, ResolveWrites,
         Decide, Teach, Upgrade, Moment
<1> QED BY <1>1, <1>2, <1>3, <1>4

LEMMA TypedKept ==
  ASSUME LearningConstants, LearningInv, LearningNext \/ UNCHANGED learningVars
  PROVE  LearningTyped'
<1> USE DEF LearningInv
<1>1. version' \in 1..MaxVersion /\ now' \in 0..MaxNow
  BY AnswersKept
<1>2. answer' = [m \in Messages |-> answer'[m]] /\ outcome' = [r \in Advice |-> outcome'[r]]
  BY DEF LearningTyped, LearningNext, learningVars, Answer, Rate, PromoteReads, ResolveReads, PromoteWrites,
         ResolveWrites, Decide, Teach, Upgrade, OfAnswers, OfAdvice
<1>6. rating' \in [Messages -> [Raters -> {"none"} \union Ratings]]
  <2>1. rating \in [Messages -> [Raters -> {"none"} \union Ratings]]
    BY DEF LearningTyped
  <2>2. ASSUME NEW o \in Raters, NEW m \in Messages, NEW r \in Ratings
        PROVE  [rating EXCEPT ![m][o] = r] \in [Messages -> [Raters -> {"none"} \union Ratings]]
    BY <2>1
  <2>3. \/ rating' = rating
        \/ \E o \in Raters, m \in Messages, r \in Ratings : rating' = [rating EXCEPT ![m][o] = r]
    BY DEF LearningNext, learningVars, Answer, Rate, PromoteReads, ResolveReads, PromoteWrites,
         ResolveWrites, Decide, Teach, Upgrade, OfAnswers, Ratings
  <2> QED BY <2>1, <2>2, <2>3
<1>3. example' = [m \in Messages |-> example'[m]]
  BY DEF LearningTyped, LearningNext, learningVars, Answer, Rate, PromoteReads, ResolveReads, PromoteWrites,
         ResolveWrites, Decide, Teach, Upgrade, OfAnswers, OfAdvice
<1>4. doing' = [o \in Raters |-> doing'[o]]
  BY DEF LearningTyped, LearningNext, learningVars, Answer, Rate, PromoteReads, ResolveReads, PromoteWrites,
         ResolveWrites, Decide, Teach, Upgrade, OfAnswers, OfAdvice
<1> DEFINE Lessons == /\ lesson' = [r \in Advice |-> lesson'[r]]
                      /\ \A r \in Advice : lesson'[r] = Nothing \/ lesson'[r].label \in Labels
<1>5. Lessons
  <2>1. ASSUME NEW r \in Advice, Teach(r) PROVE Lessons
    <3>1. PICK label \in Labels : lesson' = [lesson EXCEPT ![r] = [label |-> label, version |-> 1]]
      BY <2>1 DEF Teach
    <3>2. [label |-> label, version |-> 1].label \in Labels
      OBVIOUS
    <3> DEFINE taught == [label |-> label, version |-> 1]
    <3> HIDE DEF taught
    <3> QED BY <3>1, <3>2 DEF LearningTyped, taught
  <2>2. (\E r \in Advice : Teach(r)) \/ lesson' = lesson
    BY DEF LearningNext, learningVars, Answer, Rate, PromoteReads, ResolveReads, PromoteWrites,
         ResolveWrites, Decide, Upgrade, OfAnswers, OfAdvice
  <2> QED BY <2>1, <2>2 DEF LearningTyped
<1> QED BY <1>1, <1>2, <1>3, <1>4, <1>5, <1>6 DEF LearningTyped

LEMMA GivenKept ==
  ASSUME LearningConstants, LearningInv, LearningNext \/ UNCHANGED learningVars
  PROVE  Given'
<1>1. /\ now \in Nat /\ version \in Nat /\ now' \in {now, now + 1} /\ version' \in {version, version + 1}
      /\ answer = [m \in Messages |-> answer[m]] /\ rating \in [Messages -> [Raters -> {"none"} \union Ratings]]
  BY AnswersKept DEF LearningInv, LearningTyped, LearningConstants
<1>2. ASSUME NEW m \in Messages, Answer(m) PROVE Given'
  <2>1. /\ answer' = [answer EXCEPT ![m] = [version |-> version, at |-> now]] /\ now' = now + 1
        /\ version' = version /\ rating' = rating
    BY <1>2 DEF Answer, Moment
  <2>3. version \in 1..version
    BY <1>1 DEF LearningConstants, LearningInv, LearningTyped
  <2>2. answer[m] = Nothing
    BY <1>2 DEF Answer
  <2> QED BY <1>1, <2>1, <2>2, <2>3 DEF LearningInv, Given, Answered
<1>3. CASE UNCHANGED answer
  <2>1. \A m \in Messages, o \in Raters : rating'[m][o] # "none" => Answered(m)
    <3>1. ASSUME NEW p \in Raters, NEW n \in Messages, Rate(p, n)
          PROVE  \A m \in Messages, o \in Raters : rating'[m][o] # "none" => Answered(m)
      <4>1. PICK r \in Ratings : rating' = [rating EXCEPT ![n][p] = r]
        BY <3>1 DEF Rate, Ratings
      <4>2. Answered(n)
        BY <3>1 DEF Rate, Answered
      <4> QED BY <1>1, <4>1, <4>2 DEF LearningInv, Given
    <3>2. (\E p \in Raters, n \in Messages : Rate(p, n)) \/ rating' = rating
      BY DEF LearningNext, learningVars, Answer, PromoteReads, ResolveReads, PromoteWrites, ResolveWrites,
             Decide, Teach, Upgrade, OfAnswers
    <3> QED BY <3>1, <3>2 DEF LearningInv, Given
  <2> QED BY <1>1, <1>3, <2>1 DEF LearningInv, Given, Answered
<1>4. (\E m \in Messages : Answer(m)) \/ UNCHANGED answer
  BY DEF LearningNext, learningVars, Rate, PromoteReads, ResolveReads, PromoteWrites, ResolveWrites,
         Decide, Teach, Upgrade, OfAnswers
<1> QED BY <1>2, <1>3, <1>4

LEMMA DecidedKept ==
  ASSUME LearningConstants, LearningInv, LearningNext \/ UNCHANGED learningVars
  PROVE  DecidedOnce'
<1>1. now \in Nat /\ now' \in {now, now + 1} /\ outcome = [r \in Advice |-> outcome[r]]
  BY AnswersKept DEF LearningInv, LearningTyped, LearningConstants
<1>2. ASSUME NEW r \in Advice, Decide(r) PROVE DecidedOnce'
  <2>1. PICK what \in {"completed", "dismissed", "blocked"} :
          outcome' = [outcome EXCEPT ![r] = [what |-> what, at |-> now]]
    BY <1>2 DEF Decide
  <2>2. now' = now + 1
    BY <1>2 DEF Decide, Moment
  <2> QED BY <1>1, <2>1, <2>2 DEF LearningInv, DecidedOnce, Decided
<1>3. CASE UNCHANGED outcome
  BY <1>1, <1>3 DEF LearningInv, DecidedOnce, Decided
<1>4. (\E r \in Advice : Decide(r)) \/ UNCHANGED outcome
  BY DEF LearningNext, learningVars, Answer, Rate, PromoteReads, ResolveReads, PromoteWrites, ResolveWrites,
         Teach, Upgrade, OfAdvice
<1> QED BY <1>2, <1>3, <1>4

\* The examples that are there, and what is in flight, as a step leaves them.
LEMMA ExamplesKept ==
  ASSUME LearningConstants, LearningInv, LearningNext \/ UNCHANGED learningVars
  PROVE  /\ \A m \in Messages : example'[m] = Nothing \/ Made(m)'
         /\ \A m \in Messages : Made(m) => Made(m)'
<1>1. /\ version \in Nat /\ MaxVersion \in Nat /\ example = [m \in Messages |-> example[m]]
      /\ \A m \in Messages : Answered(m) => answer'[m] = answer[m] /\ answer[m].version \in Nat
  BY AnswersKept DEF LearningInv, LearningTyped, LearningConstants, Given
<1>2. ASSUME NEW m \in Messages, example'[m] = example[m], Made(m) PROVE Made(m)'
  <2>1. answer'[m] = answer[m] /\ Answered(m)
    BY <1>1, <1>2 DEF Made
  <2> QED BY <1>2, <2>1 DEF Made, Answered
<1>3. ASSUME NEW o \in Raters, PromoteWrites(o), NEW n \in Messages, n = doing[o].of
      PROVE  Made(n)' /\ \A m \in Messages \ {n} : example'[m] = example[m]
  <2> DEFINE d == doing[o]
             e == [label |-> d.label, rated |-> d.rated, version |-> answer[d.of].version, resolved |-> 0]
  <2>1. /\ d.of \in Messages /\ Answered(d.of)
        /\ d.label \in Labels /\ d.rated \in Ratings /\ Agrees(d.label, d.rated)
    BY <1>3 DEF PromoteWrites, LearningInv, Pending
  <2>2. example' = [example EXCEPT ![d.of] = e] /\ answer' = answer
    BY <1>3 DEF PromoteWrites
  <2>3. ExampleOf(e, answer[d.of].version)
    BY <2>1 DEF ExampleOf
  <2> HIDE DEF d, e
  <2>4. example'[d.of] = e /\ \A m \in Messages \ {d.of} : example'[m] = example[m]
    BY <1>1, <2>1, <2>2
  <2>5. n = d.of
    BY <1>3 DEF d
  <2> QED BY <2>1, <2>2, <2>3, <2>4, <2>5 DEF Made, Answered
<1>4. ASSUME NEW o \in Raters, ResolveWrites(o), NEW n \in Messages, n = doing[o].of
      PROVE  Made(n)' /\ \A m \in Messages \ {n} : example'[m] = example[m]
  <2> DEFINE d == doing[o]
             v == answer[d.of].version
  <2>1. d.of \in Messages /\ Answered(d.of) /\ ExampleOf(example[d.of], v) /\ d.by \in (v + 1)..MaxVersion
    BY <1>4 DEF ResolveWrites, LearningInv, Pending, Made
  <2>2. example' = [example EXCEPT ![d.of].resolved = d.by] /\ answer' = answer
    BY <1>4 DEF ResolveWrites
  <2>3. PICK label \in Labels, r \in Ratings, by \in {0} \union (v + 1)..MaxVersion :
          /\ example[d.of] = [label |-> label, rated |-> r, version |-> v, resolved |-> by]
          /\ Agrees(label, r)
    BY <2>1 DEF ExampleOf
  <2> HIDE DEF d, v
  <2>4. /\ example'[d.of] = [label |-> label, rated |-> r, version |-> v, resolved |-> d.by]
        /\ \A m \in Messages \ {d.of} : example'[m] = example[m]
    BY <1>1, <2>1, <2>2, <2>3
  <2>5. ExampleOf(example'[d.of], v)
    BY <2>1, <2>3, <2>4 DEF ExampleOf
  <2>6. n = d.of /\ v = answer[d.of].version
    BY <1>4 DEF d, v
  <2> QED BY <2>1, <2>2, <2>4, <2>5, <2>6 DEF Made, Answered
<1>5. CASE example' = example
  BY <1>2, <1>5 DEF LearningInv
<1>6. \/ example' = example
      \/ \E o \in Raters : PromoteWrites(o) \/ ResolveWrites(o)
  BY DEF LearningNext, learningVars, Answer, Rate, PromoteReads, ResolveReads,
         Decide, Teach, Upgrade, OfAnswers
<1>7. ASSUME NEW n \in Messages, Made(n)', \A m \in Messages \ {n} : example'[m] = example[m]
      PROVE  /\ \A m \in Messages : example'[m] = Nothing \/ Made(m)'
             /\ \A m \in Messages : Made(m) => Made(m)'
  <2>1. \A m \in Messages \ {n} : Made(m) => Made(m)'
    BY <1>2, <1>7
  <2> QED BY <1>7, <2>1 DEF LearningInv
<1>8. \A o \in Raters : PromoteWrites(o) \/ ResolveWrites(o) => doing[o].of \in Messages
  BY DEF PromoteWrites, ResolveWrites, LearningInv, Pending
<1> QED BY <1>3, <1>4, <1>5, <1>6, <1>7, <1>8

LEMMA PendingKept ==
  ASSUME LearningConstants, LearningInv, LearningNext \/ UNCHANGED learningVars
  PROVE  \A o \in Raters : Pending(o)'
<1>1. /\ version \in 1..MaxVersion /\ MaxVersion \in Nat /\ doing = [o \in Raters |-> doing[o]]
      /\ \A m \in Messages : Answered(m) => /\ answer'[m] = answer[m]
                                            /\ answer[m].version \in 1..version
      /\ \A m \in Messages : Made(m) => Made(m)'
      /\ rating \in [Messages -> [Raters -> {"none"} \union Ratings]]
  BY AnswersKept, ExamplesKept DEF LearningInv, LearningTyped, LearningConstants, Given
<1>2. ASSUME NEW o \in Raters, doing'[o] = doing[o] PROVE Pending(o)'
  <2>1. Pending(o)
    BY DEF LearningInv
  <2> QED BY <1>1, <1>2, <2>1 DEF Pending, Made, Answered
<1>3. ASSUME NEW o \in Raters, doing'[o] = Resting PROVE Pending(o)'
  BY <1>3 DEF Pending, Resting
<1>4. ASSUME NEW o \in Raters, NEW m \in Messages, PromoteReads(o, m)
      PROVE  Pending(o)' /\ \A p \in Raters \ {o} : doing'[p] = doing[p]
  <2>1. PICK label \in Labels :
          /\ Agrees(label, rating[m][o])
          /\ doing' = [doing EXCEPT ![o] = [kind |-> "promote", of |-> m, label |-> label, rated |-> rating[m][o]]]
    BY <1>4 DEF PromoteReads
  <2>2. rating[m][o] \in Ratings /\ Answered(m) /\ answer' = answer
    BY <1>1, <1>4 DEF PromoteReads, OfAnswers, LearningInv, Given
  <2> QED BY <1>1, <2>1, <2>2 DEF Pending, Answered
<1>5. ASSUME NEW o \in Raters, NEW m \in Messages, ResolveReads(o, m)
      PROVE  Pending(o)' /\ \A p \in Raters \ {o} : doing'[p] = doing[p]
  <2>1. /\ doing' = [doing EXCEPT ![o] = [kind |-> "resolve", of |-> m, by |-> version]]
        /\ example[m] # Nothing /\ example[m].version # version
    BY <1>5 DEF ResolveReads
  <2>2. Made(m) /\ Made(m)' /\ Answered(m)
    BY <1>1, <2>1 DEF LearningInv, Made
  <2>3. example[m].version = answer[m].version
    BY <2>2 DEF Made, ExampleOf
  <2>4. version \in (answer'[m].version + 1)..MaxVersion
    BY <1>1, <2>1, <2>2, <2>3
  <2> QED BY <1>1, <2>1, <2>2, <2>4 DEF Pending
<1>6. ASSUME NEW o \in Raters, PromoteWrites(o) \/ ResolveWrites(o)
      PROVE  doing'[o] = Resting /\ \A p \in Raters \ {o} : doing'[p] = doing[p]
  BY <1>1, <1>6 DEF PromoteWrites, ResolveWrites
<1>7. \/ doing' = doing
      \/ \E o \in Raters, m \in Messages : PromoteReads(o, m) \/ ResolveReads(o, m)
      \/ \E o \in Raters : PromoteWrites(o) \/ ResolveWrites(o)
  BY DEF LearningNext, learningVars, Answer, Rate, Decide, Teach, Upgrade
<1> QED BY <1>2, <1>3, <1>4, <1>5, <1>6, <1>7

LEMMA LearningStep ==
  ASSUME LearningConstants, LearningInv, LearningNext \/ UNCHANGED learningVars
  PROVE  LearningInv'
BY TypedKept, GivenKept, DecidedKept, ExamplesKept, PendingKept DEF LearningInv

LEMMA ExamplesTold ==
  ASSUME LearningConstants, LearningInv
  PROVE  /\ \A m \in Messages : example[m] # Nothing =>
              /\ Agrees(example[m].label, example[m].rated)
              /\ example[m].version = answer[m].version
              /\ example[m].resolved # 0 => example[m].resolved > answer[m].version
         /\ \A v \in 1..MaxVersion : Passes(v) =>
              /\ \A m \in Messages : example[m] # Nothing /\ example[m].label # "useful" => answer[m].version < v
              /\ \A r \in Advice : lesson[r] # Nothing /\ lesson[r].label = "needs_revision" => lesson[r].version # v
<1>1. ASSUME NEW m \in Messages, example[m] # Nothing
      PROVE  /\ Agrees(example[m].label, example[m].rated)
             /\ example[m].version = answer[m].version
             /\ example[m].resolved # 0 => example[m].resolved > answer[m].version
  <2>1. Made(m)
    BY <1>1 DEF LearningInv
  <2>2. answer[m].version \in Nat /\ MaxVersion \in Nat
    BY <2>1 DEF Made, LearningInv, LearningTyped, Given, LearningConstants
  <2>3. ExampleOf(example[m], answer[m].version)
    BY <2>1 DEF Made
  <2> QED BY <2>2, <2>3 DEF ExampleOf
<1>2. ASSUME NEW v \in 1..MaxVersion, Passes(v), NEW m \in Messages, example[m] # Nothing,
             example[m].label # "useful"
      PROVE  answer[m].version < v
  <2>1. ExamplePasses(m, v) /\ v # 0
    BY <1>2 DEF Passes
  <2>2. example[m].resolved = v
    BY <1>2, <2>1 DEF ExamplePasses
  <2> QED BY <1>1, <1>2, <2>1, <2>2
<1>3. ASSUME NEW v \in 1..MaxVersion, Passes(v), NEW r \in Advice, lesson[r] # Nothing,
             lesson[r].label = "needs_revision"
      PROVE  lesson[r].version # v
  BY <1>3 DEF Passes, LessonPasses
<1> QED BY <1>1, <1>2, <1>3

LEMMA AnswersApart ==
  ASSUME LearningConstants, LearningInv, NEW S \in SUBSET (DOMAIN AnsweredAt)
  PROVE  Apart(S, AnsweredAt)
<1>1. S \in SUBSET Messages /\ IsFiniteSet(Messages) /\ now \in Nat
  <2>1. MaxNow \in Nat /\ IsFiniteSet(Messages)
    BY DEF LearningConstants
  <2>2. now \in 0..MaxNow
    BY DEF LearningInv, LearningTyped
  <2> QED BY <2>1, <2>2 DEF AnsweredAt
<1>2. IsFiniteSet(S)
  BY <1>1, FS_Subset
<1>3. \A m \in S : m \in Messages /\ Answered(m) /\ AnsweredAt[m] = answer[m].at
  BY DEF AnsweredAt, Answered
<1>4. \A m \in S : AnsweredAt[m] \in Nat
  BY <1>1, <1>3 DEF LearningInv, Given
<1>5. \A m, n \in S : AnsweredAt[m] = AnsweredAt[n] => m = n
  BY <1>3 DEF LearningInv, Given
<1> QED BY <1>2, <1>4, <1>5 DEF Apart

LEMMA AdviceApart ==
  ASSUME LearningConstants, LearningInv
  PROVE  Apart(ToTeach, DecidedAt)
<1>1. ToTeach \in SUBSET Advice /\ IsFiniteSet(Advice) /\ now \in Nat
  BY DEF ToTeach, LearningConstants, LearningInv, LearningTyped
<1>2. IsFiniteSet(ToTeach)
  BY <1>1, FS_Subset
<1>3. \A r \in ToTeach : r \in Advice /\ Decided(r) /\ DecidedAt[r] = outcome[r].at
  BY DEF ToTeach, DecidedAt, Decided
<1>4. \A r \in ToTeach : DecidedAt[r] \in Nat
  BY <1>1, <1>3 DEF LearningInv, DecidedOnce
<1>5. \A r, s \in ToTeach : DecidedAt[r] = DecidedAt[s] => r = s
  BY <1>3 DEF LearningInv, DecidedOnce
<1> QED BY <1>2, <1>4, <1>5 DEF Apart

LEMMA LearningFollows == ASSUME LearningConstants, LearningInv PROVE LearningTold
<1>1. LearningTypeOK
  <2>1. \A m \in Messages : answer[m] = Nothing \/ answer[m].version \in 1..MaxVersion
    BY DEF LearningInv, LearningTyped, Given, Answered, LearningConstants
  <2>2. \A m \in Messages : example[m] = Nothing \/ example[m].label \in Labels
    <3>1. \A m \in Messages : Made(m) => example[m].label \in Labels
      BY DEF Made, ExampleOf
    <3> QED BY <3>1 DEF LearningInv
  <2> QED BY <2>1, <2>2 DEF LearningInv, LearningTyped, LearningTypeOK, Ratings
<1>2. Limit \in Nat
  BY DEF LearningConstants
<1>3. ASSUME NEW o \in Raters
      PROVE  /\ ToRate(o) \intersect ToPromote(o) = {}
             /\ \A m \in ToPromote(o) : rating[m][o] # "none"
             /\ \A S \in {Answers(o, FALSE)} :
                  Cardinality(ToRate(o)) = Min({Limit, Cardinality({Talk[m] : m \in S})})
  <2> DEFINE new == Answers(o, FALSE)
             rated == {m \in Answers(o, TRUE) : example[m] = Nothing}
  <2>1. new \in SUBSET (DOMAIN AnsweredAt) /\ rated \in SUBSET (DOMAIN AnsweredAt)
    BY DEF Answers
  <2>2. (\A m \in new : rating[m][o] = "none") /\ (\A m \in rated : rating[m][o] # "none")
    BY DEF Answers
  <2>3. ToRate(o) = Queue(new, AnsweredAt, Talk) /\ ToPromote(o) = Queue(rated, AnsweredAt, Talk)
    BY DEF ToRate, ToPromote
  <2> HIDE DEF new, rated
  <2>4. Apart(new, AnsweredAt) /\ Apart(rated, AnsweredAt)
    BY <2>1, AnswersApart
  <2>5. /\ Queue(new, AnsweredAt, Talk) \subseteq new
        /\ Cardinality(Queue(new, AnsweredAt, Talk)) = Min({Limit, Cardinality({Talk[m] : m \in new})})
    BY <1>2, <2>4, QueueFull
  <2>6. Queue(rated, AnsweredAt, Talk) \subseteq rated
    BY <1>2, <2>4, QueueFull
  <2> QED BY <2>2, <2>3, <2>5, <2>6 DEF new
<1>4. /\ Cardinality(AdviceQueue) = Min({Limit, Cardinality({Key[r] : r \in ToTeach})})
      /\ AdviceQueue \subseteq ToTeach
  BY <1>2, AdviceApart, QueueFull DEF AdviceQueue
<1>5. \A r \in AdviceQueue, s \in Advice : lesson[s] # Nothing /\ Key[s] = Key[r] => outcome[s].at < outcome[r].at
  <2> SUFFICES ASSUME NEW r \in AdviceQueue, NEW s \in Advice, lesson[s] # Nothing, Key[s] = Key[r]
               PROVE  outcome[s].at < outcome[r].at
    OBVIOUS
  <2>1. r \in ToTeach /\ outcome[s].at \in ReviewedThrough(Key[r])
    BY <1>4 DEF ReviewedThrough
  <2>2. r \in Advice /\ outcome[r].at > outcome[s].at
    BY <2>1 DEF ToTeach
  <2> QED BY <2>2 DEF LearningInv, DecidedOnce, LearningTyped
<1> QED BY <1>1, <1>3, <1>4, <1>5, ExamplesTold DEF LearningTold

\* What members teach is kept as they taught it, whatever interleaves: examples agree
\* with their ratings, later versions alone resolve a failure, no version passes with a
\* failure of its own, and a queue leaves out nothing while it has room
\* (promoteResponseEvalExample, resolveResponseEvalExample, responseReview,
\* runManagerEvaluation).
THEOREM LearningToldAlways ==
  ASSUME LearningConstants
  PROVE  LearningSpec => []LearningTold
<1>1. LearningInit => LearningInv
  BY LearningStart
<1>2. LearningInv /\ [LearningNext]_learningVars => LearningInv'
  BY LearningStep
<1>3. LearningInv => LearningTold
  BY LearningFollows
<1> QED BY <1>1, <1>2, <1>3, PTL DEF LearningSpec

=============================================================================
