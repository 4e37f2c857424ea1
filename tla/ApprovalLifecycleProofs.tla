----------------------- MODULE ApprovalLifecycleProofs -----------------------
(***************************************************************************)
(* Theorems about ApprovalLifecycle, for any number of approvals, executors, *)
(* observers and keys, and about ManagerCapture, for any finite sets of      *)
(* tasks, members and shows and any number of edits of the band.            *)
(***************************************************************************)
EXTENDS ApprovalLifecycle, ManagerCapture, FiniteSetTheorems, TLAPS

-----------------------------------------------------------------------------
(* Approvals                                                                *)

\* Whatever the linked rows are, a recommendation gets one of the known verdicts.
LEMMA VerdictsTyped == ASSUME NEW rows PROVE Verdicts(rows) \subseteq VerdictSet
BY DEF Verdicts, VerdictSet, Verdict, RecommendationOutcomes, Reasons

LEMMA EmptyReading == NoReading \in Readings /\ NoReading.step = "none"
<1>1. << >> \in [{} -> RowViews]
  OBVIOUS
<1>2. << >> \in UNION {[linked -> RowViews] : linked \in SUBSET Approvals}
  <2> HIDE DEF RowViews
  <2> QED BY <1>1
<1> QED BY <1>2 DEF NoReading, Readings, VerdictSet, Verdict, RecommendationOutcomes, Reasons

LEMMA ViewsTyped ==
  ASSUME TypeOK, NEW a
  PROVE  LinkedViews(a) \in UNION {[linked -> RowViews] : linked \in SUBSET Approvals}
<1> DEFINE S == {c \in Linked(a) : status[c] # "absent"}
<1>1. S \in SUBSET Approvals
  BY DEF Linked
<1>2. ASSUME NEW b \in S PROVE ViewOf(b) \in RowViews
  <2> DEFINE simulated == Simulated(b, result[b])
             outcomes == OutcomesOf(receipts[b])
  <2>1. simulated \in BOOLEAN /\ outcomes \in SUBSET Outcomes /\ b \in Approvals
    BY <1>1, <1>2 DEF TypeOK, Simulated, OutcomesOf
  <2>2. status[b] \in Statuses /\ attempt[b] \in Attempts
    BY <2>1 DEF TypeOK
  <2>3. ViewOf(b) = [status |-> status[b], attempt |-> attempt[b], outcomes |-> outcomes,
                     simulated |-> simulated]
    BY DEF ViewOf
  <2> HIDE DEF simulated, outcomes
  <2> QED BY <2>1, <2>2, <2>3 DEF RowViews
<1>3. LinkedViews(a) = [b \in S |-> ViewOf(b)]
  BY DEF LinkedViews
<1>4. LinkedViews(a) \in [S -> RowViews]
  <2> HIDE DEF S
  <2> QED BY <1>2, <1>3
<1> QED BY <1>1, <1>4

LEMMA ReconcileTyped ==
  ASSUME TypeOK, NEW a \in Approvals, NEW k \in {"row", "receipt"}, NEW changed,
         ReconcileRecommendation(k, a, changed)
  PROVE  /\ recommendation' \in [Recommendations -> VerdictSet]
         /\ txn' \in [Transactions -> Readings]
<1>1. CASE RecOf[a] = NoRecommendation
  BY <1>1 DEF TypeOK, ReconcileRecommendation, projection
<1>2. CASE RecOf[a] # NoRecommendation
  <2>1. RecOf[a] \in Recommendations /\ <<k, a>> \in Transactions
    BY <1>2, ConstantTypes DEF Transactions
  <2>2. PICK v \in Projected(recommendation[RecOf[a]], txn[k, a], a, changed) :
          recommendation' = [recommendation EXCEPT ![RecOf[a]] = v]
    BY <1>2 DEF ReconcileRecommendation
  <2>3. v \in VerdictSet
    BY <2>1, <2>2, VerdictsTyped DEF Projected, TypeOK
  <2>4. txn' = [txn EXCEPT ![<<k, a>>] = NoReading]
    BY <1>2 DEF ReconcileRecommendation
  <2>5. txn' \in [Transactions -> Readings]
    BY <2>1, <2>4, EmptyReading DEF TypeOK
  <2> QED BY <2>1, <2>2, <2>3, <2>5 DEF TypeOK
<1> QED BY <1>1, <1>2

LEMMA RollBackTyped ==
  ASSUME TypeOK, NEW e \in Executors, RollBack(e) PROVE txn' \in [Transactions -> Readings]
<1>1. \A k \in Transactions : txn[k] \in Readings
  BY DEF TypeOK
<1> QED BY <1>1, EmptyReading DEF RollBack

\* The reads of a projection, as the steps of those who make them.
Projecting ==
  \/ \E a \in Approvals : ReadForProjection(a)
  \/ \E o \in Observers : ReadSnapshot(o)

\* They leave everything else alone.
LEMMA ReadingOnly ==
  ASSUME Projecting
  PROVE  UNCHANGED <<status, attempt, result, targetId, receipts, recommendation, exec, seen,
                     made, effect, acked, done>>
BY DEF Projecting, ReadForProjection, ReadRecommendation, ReadLinked, ReadSnapshot, row, history,
       outside

-----------------------------------------------------------------------------
\* An executor moves on, or returns.
LEMMA GotoTyped ==
  ASSUME exec \in [Executors -> ExecutorStates], NEW e \in Executors, NEW pc \in PCs,
         Goto(e, pc) \/ Return(e)
  PROVE  exec' \in [Executors -> ExecutorStates]
<1>1. CASE Goto(e, pc)
  <2>1. [exec[e] EXCEPT !.pc = pc] \in ExecutorStates
    BY DEF ExecutorStates
  <2>2. exec' = [exec EXCEPT ![e] = [exec[e] EXCEPT !.pc = pc]]
    BY <1>1 DEF Goto
  <2> QED BY <2>1, <2>2
<1>2. CASE Return(e)
  <2>1. Idle \in ExecutorStates
    BY DEF Idle, ExecutorStates, PCs, AdapterModes, Results
  <2> QED BY <1>2, <2>1 DEF Return
<1> QED BY <1>1, <1>2

LEMMA IdleTyped ==
  /\ Idle \in ExecutorStates
  /\ \A a \in Approvals, pc \in PCs : [Idle EXCEPT !.pc = pc, !.on = a] \in ExecutorStates
BY DEF Idle, ExecutorStates, PCs, AdapterModes, Results

\* A request that left "idle" works on an approval: typing rests on it.
BusyOnApproval == \A e \in Executors : exec[e].pc # "idle" => exec[e].on \in Approvals

TypeInv == TypeOK /\ BusyOnApproval

LEMMA BusyKept ==
  ASSUME exec \in [Executors -> ExecutorStates], BusyOnApproval, NEW e \in Executors,
         exec[e].pc # "idle", NEW pc, Goto(e, pc) \/ Return(e)
  PROVE  BusyOnApproval'
<1> DEFINE y == [exec[e] EXCEPT !.pc = pc]
<1>1. y.on = exec[e].on
  BY DEF ExecutorStates
<1>2. CASE Goto(e, pc)
  <2>1. exec' = [exec EXCEPT ![e] = y]
    BY <1>2 DEF Goto
  <2> HIDE DEF y
  <2> QED BY <1>1, <2>1 DEF BusyOnApproval
<1>3. CASE Return(e)
  BY <1>3 DEF Return, Idle, BusyOnApproval
<1> QED BY <1>2, <1>3

LEMMA ClaimTyped ==
  ASSUME NEW x \in ExecutorStates, NEW m \in AdapterModes
  PROVE  /\ [x EXCEPT !.pc = "calling", !.mode = m] \in ExecutorStates
         /\ [x EXCEPT !.pc = "calling", !.mode = m].on = x.on
BY DEF ExecutorStates, PCs

\* Preparing and deciding touch only rows that nobody has decided.
Deciding(a) == Create(a) \/ \E d \in {"approved", "rejected"} : Decide(a, d)

LEMMA DecisionRows ==
  ASSUME TypeOK, NEW a \in Approvals, Deciding(a)
  PROVE  /\ status' \in [Approvals -> Statuses]
         /\ \A b \in Approvals : status'[b] # status[b] =>
              /\ status[b] \in {"absent", "pending", "proposed"}
              /\ status'[b] \in {"pending", "proposed", "approved", "rejected"}
         /\ \A b \in Approvals : status'[b] # status[b] /\ status[b] = "absent" => Create(a)
         /\ UNCHANGED <<attempt, result, targetId, receipts, exec, seen, made, effect, acked, done>>
<1>1. CASE Create(a)
  <2> DEFINE prepared == IF RecOf[a] = NoRecommendation THEN {a} ELSE Linked(a)
  <2>1. /\ \A b \in prepared : status[b] = "absent"
        /\ \E s \in {"pending", "proposed"} :
             status' = [b \in Approvals |-> IF b \in prepared THEN s ELSE status[b]]
        /\ UNCHANGED <<attempt, result, targetId, receipts, exec, seen, made, effect, acked, done>>
    BY <1>1 DEF Create, history, outside
  <2>2. {"pending", "proposed"} \subseteq Statuses
    BY DEF Statuses
  <2> HIDE DEF prepared
  <2>3. \A b \in Approvals : status[b] \in Statuses
    BY DEF TypeOK
  <2>4. PICK s \in {"pending", "proposed"} :
          status' = [b \in Approvals |-> IF b \in prepared THEN s ELSE status[b]]
    BY <2>1
  <2>5. \A b \in Approvals : status'[b] = IF b \in prepared THEN s ELSE status[b]
    BY <2>4
  <2>6. status' \in [Approvals -> Statuses]
    BY <2>2, <2>3, <2>4, <2>5
  <2> QED BY <1>1, <2>1, <2>5, <2>6
<1>2. ASSUME NEW d \in {"approved", "rejected"}, Decide(a, d)
      PROVE  /\ status[a] \in {"pending", "proposed"} /\ status' = [status EXCEPT ![a] = d]
             /\ UNCHANGED <<attempt, result, targetId, receipts, exec, seen, made, effect, acked, done>>
  BY <1>2 DEF Decide, Undecided, history, outside
<1> QED BY <1>1, <1>2 DEF Deciding, TypeOK, Statuses

LEMMA TypeInit == Init => TypeInv
<1> SUFFICES ASSUME Init PROVE TypeInv
  OBVIOUS
<1>1. recommendation \in [Recommendations -> VerdictSet]
  BY DEF Init, Verdict, VerdictSet, RecommendationOutcomes, Reasons
<1>2. exec \in [Executors -> ExecutorStates]
  BY IdleTyped DEF Init
<1>3. seen \in [Observers -> [on : Approvals \union {NoApproval}, when : Attempts,
                              effect : BOOLEAN]]
  BY DEF Init, NothingSeen, Attempts
<1>4. BusyOnApproval
  BY DEF Init, BusyOnApproval, Idle
<1>5. txn \in [Transactions -> Readings]
  BY EmptyReading DEF Init
<1> QED
  BY <1>1, <1>2, <1>3, <1>4, <1>5 DEF Init, TypeInv, TypeOK, Statuses, Attempts, Results

\* The steps of a request to execute, and of a member who reconciles, that do more
\* than read for the projection.
Running(e) ==
  \/ \E a \in Approvals, dryRun \in BOOLEAN : ReadApproved(e, a, dryRun)
  \/ \E reply \in {"ok", "lost", "error"} : CallProvider(e, reply)
  \/ WritePreview(e) \/ Claim(e) \/ ClaimLost(e) \/ Abort(e) \/ Finalize(e)
  \/ Audit(e) \/ ReadBack(e) \/ FinalizeFailed(e) \/ Crash(e)

Reviewing(o) ==
  \/ \E a \in Approvals : Observe(o, a)
  \/ \E key \in Keys, outcome \in Outcomes : RecordReconciliation(o, key, outcome)

\* A step is one of these.
LEMMA StepIs ==
  ASSUME TypeInv, [Next]_vars
  PROVE  \/ \E a \in Approvals : Deciding(a)
         \/ Projecting
         \/ \E e \in Executors : Running(e)
         \/ \E a \in Approvals : LeaseEnds(a)
         \/ \E o \in Observers : Reviewing(o)
         \/ UNCHANGED vars
<1>1. ASSUME Decision PROVE Projecting \/ \E a \in Approvals : Deciding(a)
  BY <1>1 DEF Decision, Approve, Reject, Deciding, Projecting
<1>2. ASSUME NEW e \in Executors, Called(e) \/ exec[e].pc = "fail",
             ReadForProjection(exec[e].on)
      PROVE  Projecting
  BY <1>2 DEF Called, TypeInv, BusyOnApproval, Projecting
<1>3. ASSUME NEW o \in Observers, ReadSnapshot(o) PROVE Projecting
  BY <1>3 DEF Projecting
<1>4. ASSUME NEW e \in Executors, Execution(e) PROVE Projecting \/ Running(e)
  BY <1>2, <1>4 DEF Execution, Running
<1>5. ASSUME NEW o \in Observers, Review(o) PROVE Projecting \/ Reviewing(o)
  BY <1>3, <1>5 DEF Review, Reviewing
<1>6. Next \/ UNCHANGED vars
  OBVIOUS
<1>7. \/ Decision \/ \E e \in Executors : Execution(e)
      \/ \E a \in Approvals : LeaseEnds(a)
      \/ \E o \in Observers : Review(o)
      \/ UNCHANGED vars
  BY <1>6 DEF Next
<1> QED BY <1>1, <1>4, <1>5, <1>7

LEMMA TypeStep == TypeInv /\ [Next]_vars => TypeInv'
<1> SUFFICES ASSUME TypeOK, BusyOnApproval, [Next]_vars PROVE TypeInv'
  BY DEF TypeInv
<1> USE DEF TypeOK
<1>1. ASSUME NEW a \in Approvals, Deciding(a) PROVE TypeInv'
  <2>1. /\ recommendation' \in [Recommendations -> VerdictSet]
        /\ txn' \in [Transactions -> Readings]
    <3>1. CASE Create(a)
      <4>1. Verdict("accepted", "approval_prepared") \in VerdictSet
        BY DEF Verdict, VerdictSet, RecommendationOutcomes, Reasons
      <4> QED BY <3>1, <4>1 DEF Create
    <3>2. ASSUME NEW d, Decide(a, d)
          PROVE  /\ recommendation' \in [Recommendations -> VerdictSet]
                 /\ txn' \in [Transactions -> Readings]
      BY <3>2, ReconcileTyped DEF Decide
    <3> QED BY <1>1, <3>1, <3>2 DEF Deciding
  <2> QED BY <1>1, <2>1, DecisionRows DEF TypeInv, BusyOnApproval
<1>2. ASSUME Projecting PROVE TypeInv'
  <2>1. txn' \in [Transactions -> Readings]
    <3>1. ASSUME NEW a \in Approvals, ReadRecommendation(a)
          PROVE  txn' \in [Transactions -> Readings]
      <4> DEFINE x == [NoReading EXCEPT !.step = "rec", !.rec = recommendation[RecOf[a]]]
      <4>1. RecOf[a] \in Recommendations
        BY <3>1, ConstantTypes DEF ReadRecommendation
      <4>2. x \in Readings
        <5> HIDE DEF RowViews
        <5> QED BY <4>1, EmptyReading DEF Readings
      <4>3. txn' = [txn EXCEPT ![<<"row", a>>] = x]
        BY <3>1 DEF ReadRecommendation
      <4> HIDE DEF x
      <4> QED BY <4>2, <4>3
    <3>2. ASSUME NEW a \in Approvals, ReadLinked(a)
          PROVE  txn' \in [Transactions -> Readings]
      <4> DEFINE f == LinkedViews(a)
                 x == [txn["row", a] EXCEPT !.step = "all", !.rows = f]
      <4>1. txn["row", a] \in Readings /\ <<"row", a>> \in Transactions
        BY DEF Transactions
      <4>2. f \in UNION {[linked -> RowViews] : linked \in SUBSET Approvals}
        BY ViewsTyped
      <4>3. x \in Readings
        <5> HIDE DEF f, RowViews
        <5> QED BY <4>1, <4>2 DEF Readings
      <4>4. txn' = [txn EXCEPT ![<<"row", a>>] = x]
        BY <3>2, <4>1 DEF ReadLinked
      <4> HIDE DEF x
      <4> QED BY <4>3, <4>4
    <3>3. ASSUME NEW o \in Observers, ReadSnapshot(o)
          PROVE  txn' \in [Transactions -> Readings]
      <4> DEFINE a == seen[o].on
                 f == LinkedViews(a)
                 x == [step |-> "all", rec |-> recommendation[RecOf[a]], rows |-> f]
      <4>1. a \in Approvals /\ RecOf[a] \in Recommendations
        BY <3>3, ConstantTypes DEF ReadSnapshot, MayReconcile
      <4>2. f \in UNION {[linked -> RowViews] : linked \in SUBSET Approvals}
        BY ViewsTyped
      <4>3. x \in Readings
        <5> HIDE DEF f, RowViews
        <5> QED BY <4>1, <4>2 DEF Readings
      <4>4. txn' = [txn EXCEPT ![<<"receipt", a>>] = x]
        BY <3>3 DEF ReadSnapshot
      <4> HIDE DEF x
      <4> QED BY <4>3, <4>4
    <3> QED BY <1>2, <3>1, <3>2, <3>3 DEF Projecting, ReadForProjection
  <2> QED BY <1>2, <2>1, ReadingOnly DEF TypeInv, BusyOnApproval
<1>3. ASSUME NEW e \in Executors, NEW a \in Approvals, NEW dryRun \in BOOLEAN,
             ReadApproved(e, a, dryRun)
      PROVE  TypeInv'
  <2>1. exec' \in [Executors -> ExecutorStates]
    BY <1>3, IdleTyped DEF ReadApproved, PCs
  <2>2. BusyOnApproval'
    BY <1>3 DEF ReadApproved, BusyOnApproval, Idle
  <2> QED BY <1>3, <2>1, <2>2 DEF ReadApproved, row, history, outside, projection, TypeInv
<1>4. ASSUME NEW e \in Executors, WritePreview(e) PROVE TypeInv'
  <2>1. exec' \in [Executors -> ExecutorStates] /\ BusyOnApproval'
    BY <1>4, IdleTyped DEF WritePreview, Return, BusyOnApproval, Idle
  <2> QED BY <1>4, <2>1 DEF WritePreview, history, outside, projection, Results, TypeInv
<1>5. ASSUME NEW e \in Executors, Claim(e) PROVE TypeInv'
  <2>1. PICK m \in AdapterModes : exec' = [exec EXCEPT ![e] = [exec[e] EXCEPT !.pc = "calling",
                                                                              !.mode = m]]
    BY <1>5 DEF Claim
  <2>2. [exec[e] EXCEPT !.pc = "calling", !.mode = m] \in ExecutorStates
    <3>1. exec[e] \in ExecutorStates
      OBVIOUS
    <3> QED BY <3>1, ClaimTyped
  <2>3. exec' \in [Executors -> ExecutorStates]
    BY <2>1, <2>2
  <2>4. BusyOnApproval'
    BY <1>5, <2>1 DEF Claim, BusyOnApproval, ExecutorStates
  <2> QED BY <1>5, <2>3, <2>4 DEF Claim, history, outside, projection, Attempts, TypeInv
<1>6. ASSUME NEW e \in Executors, ClaimLost(e) PROVE TypeInv'
  <2>1. exec' \in [Executors -> ExecutorStates] /\ BusyOnApproval'
    BY <1>6, IdleTyped DEF ClaimLost, Return, BusyOnApproval, Idle
  <2> QED BY <1>6, <2>1 DEF ClaimLost, row, history, outside, projection, TypeInv
<1>7. ASSUME NEW e \in Executors, NEW reply \in {"ok", "lost", "error"},
             CallProvider(e, reply)
      PROVE  TypeInv'
  <2>1. PICK y \in ExecutorStates : /\ exec' = [exec EXCEPT ![e] = y]
                                    /\ y.on = exec[e].on
    <3> DEFINE x == exec[e]
               r == IF x.mode = "real" THEN "known" ELSE "simulated"
    <3>1. r \in Results /\ x \in ExecutorStates /\ x.calls + 1 \in Nat
      BY DEF Results, ExecutorStates
    <3>2. CASE reply = "ok"
      <4> DEFINE y == [x EXCEPT !.calls = @ + 1, !.result = r]
      <4>1. y \in ExecutorStates /\ y.on = x.on
        BY <3>1 DEF ExecutorStates
      <4>2. exec' = [exec EXCEPT ![e] = y]
        BY <1>7, <3>2 DEF CallProvider
      <4> HIDE DEF y
      <4> QED BY <4>1, <4>2
    <3>3. CASE reply # "ok" /\ ActionOf[x.on] \in StoppingActions
      <4> DEFINE y == [x EXCEPT !.pc = "catch"]
      <4>1. y \in ExecutorStates /\ y.on = x.on
        BY <3>1 DEF ExecutorStates, PCs
      <4>2. exec' = [exec EXCEPT ![e] = y]
        BY <1>7, <3>3 DEF CallProvider
      <4> HIDE DEF y
      <4> QED BY <4>1, <4>2
    <3>4. CASE reply # "ok" /\ ActionOf[x.on] \notin StoppingActions
      <4> DEFINE y == [x EXCEPT !.calls = @ + 1, !.bad = TRUE]
      <4>1. y \in ExecutorStates /\ y.on = x.on
        BY <3>1 DEF ExecutorStates
      <4>2. exec' = [exec EXCEPT ![e] = y]
        BY <1>7, <3>4 DEF CallProvider
      <4> HIDE DEF y
      <4> QED BY <4>1, <4>2
    <3> QED BY <3>2, <3>3, <3>4
  <2>2. exec' \in [Executors -> ExecutorStates] /\ BusyOnApproval'
    BY <1>7, <2>1 DEF CallProvider, BusyOnApproval
  <2>3. made' \in [Approvals -> Nat]
    <3>1. made' = [made EXCEPT ![exec[e].on] = made[exec[e].on] + 1]
      BY <1>7, Zenon DEF CallProvider
    <3>2. exec[e].on \in Approvals
      BY <1>7 DEF CallProvider, BusyOnApproval
    <3>3. made[exec[e].on] + 1 \in Nat
      BY <3>2
    <3> QED BY <3>1, <3>2, <3>3
  <2>4. effect' \in [Approvals -> BOOLEAN]
    BY <1>7, Zenon DEF CallProvider
  <2>5. acked' \in [Approvals -> BOOLEAN]
    BY <1>7, Zenon DEF CallProvider
  <2>6. targetId' \in [Approvals -> BOOLEAN]
    BY <1>7, Zenon DEF CallProvider
  <2> QED BY <1>7, <2>2, <2>3, <2>4, <2>5, <2>6 DEF CallProvider, row, projection, TypeInv
<1>8. ASSUME NEW e \in Executors, Abort(e) PROVE TypeInv'
  <2> DEFINE res == IF ActionOf[exec[e].on] = "social_post_batch" THEN "none"
                    ELSE exec[e].result
             y == [exec[e] EXCEPT !.pc = "catch", !.result = res]
  <2>1. res \in Results
    BY DEF ExecutorStates, Results
  <2>2. y \in ExecutorStates /\ y.on = exec[e].on
    BY <2>1 DEF ExecutorStates, PCs
  <2>3. exec' = [exec EXCEPT ![e] = y]
    BY <1>8 DEF Abort
  <2>5. exec[e].on \in Approvals
    BY <1>8 DEF Abort, BusyOnApproval
  <2> HIDE DEF y
  <2>4. exec' \in [Executors -> ExecutorStates] /\ BusyOnApproval'
    BY <2>2, <2>3, <2>5 DEF BusyOnApproval
  <2>6. txn' \in [Transactions -> Readings]
    BY <1>8, RollBackTyped DEF Abort
  <2> QED BY <1>8, <2>4, <2>6 DEF Abort, row, history, outside, projection, TypeInv
<1>9. ASSUME NEW e \in Executors, Finalize(e) PROVE TypeInv'
  <2>1. exec' \in [Executors -> ExecutorStates]
    BY <1>9, GotoTyped DEF Finalize, PCs
  <2>2. exec[e].on \in Approvals /\ exec[e].result \in Results
    BY <1>9 DEF Finalize, Called, BusyOnApproval, ExecutorStates
  <2>3. /\ recommendation' \in [Recommendations -> VerdictSet]
        /\ txn' \in [Transactions -> Readings]
    BY <1>9, <2>2, ReconcileTyped DEF Finalize
  <2>4. BusyOnApproval'
    BY <1>9, <2>2 DEF Finalize, Called, Goto, BusyOnApproval, ExecutorStates
  <2>5. done' \in [Approvals -> BOOLEAN]
    BY <1>9, <2>2, Zenon DEF Finalize
  <2> QED BY <1>9, <2>1, <2>2, <2>3, <2>4, <2>5 DEF Finalize, Ending, Statuses, history, outside, projection, TypeInv
<1>10. ASSUME NEW e \in Executors, Audit(e) PROVE TypeInv'
  <2>1. exec' \in [Executors -> ExecutorStates]
    BY <1>10, GotoTyped DEF Audit, PCs
  <2>2. BusyOnApproval'
    BY <1>10, BusyKept DEF Audit
  <2> QED BY <1>10, <2>1, <2>2 DEF Audit, row, history, outside, projection, TypeInv
<1>11. ASSUME NEW e \in Executors, ReadBack(e) PROVE TypeInv'
  <2>1. exec' \in [Executors -> ExecutorStates]
    BY <1>11, GotoTyped DEF ReadBack, PCs
  <2>2. BusyOnApproval'
    BY <1>11, BusyKept DEF ReadBack
  <2> QED BY <1>11, <2>1, <2>2 DEF ReadBack, row, history, outside, projection, TypeInv
<1>12. ASSUME NEW e \in Executors, FinalizeFailed(e) PROVE TypeInv'
  <2>1. exec' \in [Executors -> ExecutorStates] /\ BusyOnApproval'
    BY <1>12, IdleTyped DEF FinalizeFailed, Return, BusyOnApproval, Idle
  <2>2. exec[e].on \in Approvals /\ SavedOnFailure(e) \in Results
    BY <1>12 DEF FinalizeFailed, BusyOnApproval, ExecutorStates, SavedOnFailure
  <2>3. /\ recommendation' \in [Recommendations -> VerdictSet]
        /\ txn' \in [Transactions -> Readings]
    BY <1>12, <2>2, ReconcileTyped DEF FinalizeFailed
  <2> QED BY <1>12, <2>1, <2>2, <2>3 DEF FinalizeFailed, Statuses, history, outside, projection, TypeInv
<1>13. ASSUME NEW e \in Executors, Crash(e) PROVE TypeInv'
  <2>1. exec' \in [Executors -> ExecutorStates] /\ BusyOnApproval'
    BY <1>13, IdleTyped DEF Crash, Return, BusyOnApproval, Idle
  <2>2. txn' \in [Transactions -> Readings]
    BY <1>13, RollBackTyped DEF Crash
  <2> QED BY <1>13, <2>1, <2>2 DEF Crash, row, history, outside, projection, TypeInv
<1>14. ASSUME NEW a \in Approvals, LeaseEnds(a) PROVE TypeInv'
  BY <1>14 DEF LeaseEnds, history, outside, projection, Attempts, TypeInv, BusyOnApproval
<1>15. ASSUME NEW o \in Observers, NEW a \in Approvals, Observe(o, a) PROVE TypeInv'
  BY <1>15 DEF Observe, row, history, outside, projection, TypeInv, BusyOnApproval
<1>16. ASSUME NEW o \in Observers, NEW key \in Keys, NEW outcome \in Outcomes,
              RecordReconciliation(o, key, outcome)
       PROVE  TypeInv'
  <2>1. seen[o].on \in Approvals
    BY <1>16 DEF RecordReconciliation, MayReconcile
  <2>2. /\ recommendation' \in [Recommendations -> VerdictSet]
        /\ txn' \in [Transactions -> Readings]
    <3> DEFINE c == [txn["receipt", seen[o].on].rows[seen[o].on] EXCEPT
                       !.outcomes = @ \union {outcome}]
    <3>1. ReconcileRecommendation("receipt", seen[o].on, c)
      BY <1>16 DEF RecordReconciliation
    <3> HIDE DEF c
    <3> QED BY <2>1, <3>1, ReconcileTyped
  <2>3. receipts' \in [Approvals -> SUBSET [key : Keys, outcome : Outcomes, by : Observers]]
    <3> DEFINE new == [key |-> key, outcome |-> outcome, by |-> o]
    <3>1. receipts' = [receipts EXCEPT ![seen[o].on] = receipts[seen[o].on] \union {new}]
      BY <1>16 DEF RecordReconciliation
    <3>2. new \in [key : Keys, outcome : Outcomes, by : Observers]
      OBVIOUS
    <3>3. receipts \in [Approvals -> SUBSET [key : Keys, outcome : Outcomes, by : Observers]]
      OBVIOUS
    <3> HIDE DEF new
    <3> QED BY <2>1, <3>1, <3>2, <3>3
  <2> QED BY <1>16, <2>2, <2>3 DEF RecordReconciliation, row, history, outside, projection, TypeInv, BusyOnApproval
<1>17. CASE UNCHANGED vars
  BY <1>17 DEF vars, TypeInv, BusyOnApproval
<1> QED
  BY <1>1, <1>2, <1>3, <1>4, <1>5, <1>6, <1>7, <1>8, <1>9, <1>10, <1>11, <1>12, <1>13,
     <1>14, <1>15, <1>16, <1>17, StepIs DEF TypeInv, Running, Reviewing

LEMMA TypeInvariant == Spec => []TypeInv
BY TypeInit, TypeStep, PTL DEF Spec

\* Type correctness of the whole lifecycle.
THEOREM TypeCorrect == Spec => []TypeOK
BY TypeInvariant, PTL DEF TypeInv

-----------------------------------------------------------------------------
(* What a step of an executor does to its local state *)

\* e goes to pc, on the same approval; no other executor moves.
Moves(e, pc) == /\ exec'[e].pc = pc
                /\ exec'[e].on = exec[e].on
                /\ \A f \in Executors \ {e} : exec'[f] = exec[f]

LEMMA GotoMoves ==
  ASSUME TypeOK, NEW e \in Executors, NEW pc, Goto(e, pc)
  PROVE  Moves(e, pc) /\ exec'[e].result = exec[e].result /\ exec'[e].calls = exec[e].calls
<1> DEFINE y == [exec[e] EXCEPT !.pc = pc]
<1>1. /\ y.pc = pc /\ y.on = exec[e].on
      /\ y.result = exec[e].result /\ y.calls = exec[e].calls
  BY DEF TypeOK, ExecutorStates
<1>2. exec' = [exec EXCEPT ![e] = y]
  BY DEF Goto
<1> HIDE DEF y
<1> QED BY <1>1, <1>2 DEF TypeOK, Moves

LEMMA ReturnMoves ==
  ASSUME TypeOK, NEW e \in Executors, Return(e)
  PROVE  exec'[e] = Idle /\ \A f \in Executors \ {e} : exec'[f] = exec[f]
BY DEF TypeOK, Return

LEMMA ReadMoves ==
  ASSUME TypeOK, NEW e \in Executors, NEW a \in Approvals, NEW dryRun \in BOOLEAN,
         ReadApproved(e, a, dryRun)
  PROVE  /\ exec'[e].pc \in {"preview", "claim"} /\ exec'[e].calls = 0
         /\ \A f \in Executors \ {e} : exec'[f] = exec[f]
<1> DEFINE pc == IF dryRun THEN "preview" ELSE "claim"
           y == [Idle EXCEPT !.pc = pc, !.on = a]
<1>1. y.pc \in {"preview", "claim"} /\ y.calls = 0
  BY DEF Idle
<1>2. exec' = [exec EXCEPT ![e] = y]
  BY DEF ReadApproved
<1> HIDE DEF y
<1> QED BY <1>1, <1>2 DEF TypeOK

LEMMA ClaimMoves ==
  ASSUME TypeOK, NEW e \in Executors, Claim(e)
  PROVE  Moves(e, "calling") /\ exec'[e].calls = exec[e].calls
<1>1. PICK m \in AdapterModes : exec' = [exec EXCEPT ![e] = [exec[e] EXCEPT !.pc = "calling",
                                                                            !.mode = m]]
  BY DEF Claim
<1> DEFINE y == [exec[e] EXCEPT !.pc = "calling", !.mode = m]
<1>2. y.pc = "calling" /\ y.on = exec[e].on /\ y.calls = exec[e].calls
  BY DEF TypeOK, ExecutorStates
<1>3. exec' = [exec EXCEPT ![e] = y]
  BY <1>1
<1> HIDE DEF y
<1> QED BY <1>2, <1>3 DEF TypeOK, Moves

LEMMA CallMoves ==
  ASSUME TypeOK, NEW e \in Executors, NEW reply, CallProvider(e, reply)
  PROVE  \/ Moves(e, "catch")
         \/ Moves(e, "calling") /\ exec'[e].calls = exec[e].calls + 1
<1> DEFINE x == exec[e]
           r == IF x.mode = "real" THEN "known" ELSE "simulated"
<1>1. x \in ExecutorStates /\ x.pc = "calling"
  BY DEF TypeOK, CallProvider
<1>2. CASE reply = "ok"
  <2> DEFINE y == [x EXCEPT !.calls = @ + 1, !.result = r]
  <2>1. y.pc = "calling" /\ y.on = x.on /\ y.calls = x.calls + 1
    BY <1>1 DEF ExecutorStates
  <2>2. exec' = [exec EXCEPT ![e] = y]
    BY <1>2 DEF CallProvider
  <2> HIDE DEF y
  <2> QED BY <2>1, <2>2 DEF TypeOK, Moves
<1>3. CASE reply # "ok" /\ ActionOf[x.on] \in StoppingActions
  <2> DEFINE y == [x EXCEPT !.pc = "catch"]
  <2>1. y.pc = "catch" /\ y.on = x.on
    BY <1>1 DEF ExecutorStates
  <2>2. exec' = [exec EXCEPT ![e] = y]
    BY <1>3 DEF CallProvider
  <2> HIDE DEF y
  <2> QED BY <2>1, <2>2 DEF TypeOK, Moves
<1>4. CASE reply # "ok" /\ ActionOf[x.on] \notin StoppingActions
  <2> DEFINE y == [x EXCEPT !.calls = @ + 1, !.bad = TRUE]
  <2>1. y.pc = "calling" /\ y.on = x.on /\ y.calls = x.calls + 1
    BY <1>1 DEF ExecutorStates
  <2>2. exec' = [exec EXCEPT ![e] = y]
    BY <1>4 DEF CallProvider
  <2> HIDE DEF y
  <2> QED BY <2>1, <2>2 DEF TypeOK, Moves
<1> QED BY <1>2, <1>3, <1>4

LEMMA CallIssued ==
  ASSUME TypeInv, NEW e \in Executors, NEW reply, CallProvider(e, reply)
  PROVE  /\ exec[e].on \in Approvals /\ exec[e].pc = "calling"
         /\ exec[e].calls < CallsOf[exec[e].on]
         /\ made' = [made EXCEPT ![exec[e].on] = made[exec[e].on] + 1]
         /\ UNCHANGED <<status, attempt, result, receipts>>
<1>1. /\ exec[e].pc = "calling" /\ exec[e].calls < CallsOf[exec[e].on]
      /\ made' = [made EXCEPT ![exec[e].on] = made[exec[e].on] + 1]
      /\ UNCHANGED <<status, attempt, result, receipts>>
  BY Zenon DEF CallProvider, row
<1> QED BY <1>1 DEF TypeInv, BusyOnApproval

LEMMA AbortMoves ==
  ASSUME TypeOK, NEW e \in Executors, Abort(e)
  PROVE  Moves(e, "catch")
<1> DEFINE res == IF ActionOf[exec[e].on] = "social_post_batch" THEN "none"
                  ELSE exec[e].result
           y == [exec[e] EXCEPT !.pc = "catch", !.result = res]
<1>1. y.pc = "catch" /\ y.on = exec[e].on
  BY DEF TypeOK, ExecutorStates
<1>2. exec' = [exec EXCEPT ![e] = y]
  BY DEF Abort
<1> HIDE DEF y
<1> QED BY <1>1, <1>2 DEF TypeOK, Moves

-----------------------------------------------------------------------------
(* The inductive invariant behind OneAttempt and OneConclusion. The claim is  *)
(* a column of the row that is never cleared; what makes it a lock is that    *)
(* every request between its claim and its answer finds it set (LiveClaimed), *)
(* so a second compare-and-set on "not claimed" can not succeed.              *)

\* What a request has claimed stays claimed while it runs.
LiveClaimed == \A e \in Executors : exec[e].pc \in Live => attempt[exec[e].on] # "none"

\* Two running requests never share an approval.
OneLive == \A e, f \in Executors :
  exec[e].pc \in Live /\ exec[f].pc \in Live /\ exec[e].on = exec[f].on => e = f

\* Only a decided, approved row is claimed, and only a claimed row has an outcome.
ClaimStatus == \A a \in Approvals :
  /\ attempt[a] # "none" => status[a] \in {"approved", "executed", "failed"}
  /\ status[a] \in {"executed", "failed"} => attempt[a] # "none"

\* The calls issued are the ones the running request counts.
CallsCounted ==
  /\ \A a \in Approvals : made[a] <= CallsOf[a] /\ (attempt[a] = "none" => made[a] = 0)
  /\ \A e \in Executors : /\ exec[e].pc = "claim" => exec[e].calls = 0
                          /\ exec[e].pc = "calling" => made[exec[e].on] = exec[e].calls

\* The conclusive receipts of an approval are one.
OneTerminal == \A a \in Approvals : \A r, q \in receipts[a] :
  r.outcome \in Conclusive /\ q.outcome \in Conclusive => r = q

SafeInv == LiveClaimed /\ OneLive /\ ClaimStatus /\ CallsCounted /\ OneTerminal

LEMMA SafeInit == Init => SafeInv
BY ConstantTypes
   DEF Init, SafeInv, LiveClaimed, OneLive, ClaimStatus, CallsCounted, OneTerminal, Idle, Live

\* A step that leaves the rows alone and lets at most one executor move on,
\* never into its attempt.
LEMMA SafeFrame ==
  ASSUME TypeInv, SafeInv, UNCHANGED <<status, attempt, receipts, made>>, NEW e \in Executors,
         \A f \in Executors \ {e} : exec'[f] = exec[f],
         exec'[e].pc \in Live => exec[e].pc \in Live /\ exec'[e].on = exec[e].on,
         exec'[e].pc # "calling",
         exec'[e].pc = "claim" => exec'[e].calls = 0
  PROVE  SafeInv'
<1> USE DEF TypeInv, TypeOK, SafeInv
<1>1. LiveClaimed'
  BY DEF LiveClaimed
<1>2. OneLive'
  BY DEF OneLive
<1>3. ClaimStatus'
  BY DEF ClaimStatus
<1>4. CallsCounted'
  BY DEF CallsCounted
<1>5. OneTerminal'
  BY DEF OneTerminal
<1> QED BY <1>1, <1>2, <1>3, <1>4, <1>5

LEMMA SafeStep == TypeInv /\ SafeInv /\ [Next]_vars => SafeInv'
<1> SUFFICES ASSUME TypeInv, SafeInv, [Next]_vars PROVE SafeInv'
  OBVIOUS
<1> USE DEF Live
<1>0. TypeOK
  BY DEF TypeInv
<1>1. ASSUME NEW a \in Approvals, Deciding(a) PROVE SafeInv'
  <2>1. /\ \A b \in Approvals : attempt[b] # "none" => status'[b] = status[b]
        /\ \A b \in Approvals : status'[b] = status[b]
             \/ status'[b] \in {"pending", "proposed", "approved", "rejected"}
        /\ UNCHANGED <<attempt, receipts, exec, made>>
    BY <1>0, <1>1, DecisionRows DEF SafeInv, ClaimStatus
  <2> QED
    BY <2>1 DEF SafeInv, LiveClaimed, OneLive, ClaimStatus, CallsCounted, OneTerminal
<1>2. ASSUME Projecting PROVE SafeInv'
  BY <1>2, ReadingOnly DEF SafeInv, LiveClaimed, OneLive, ClaimStatus, CallsCounted, OneTerminal
<1>3. ASSUME NEW e \in Executors, NEW a \in Approvals, NEW dryRun \in BOOLEAN,
             ReadApproved(e, a, dryRun)
      PROVE  SafeInv'
  <2>1. UNCHANGED <<status, attempt, receipts, made>>
    BY <1>3 DEF ReadApproved, row, history, outside
  <2> QED BY <1>0, <1>3, <2>1, ReadMoves, SafeFrame
<1>4. ASSUME NEW e \in Executors, WritePreview(e) \/ ClaimLost(e) \/ Crash(e) PROVE SafeInv'
  <2>1. UNCHANGED <<status, attempt, receipts, made>> /\ Return(e)
    BY <1>4 DEF WritePreview, ClaimLost, Crash, row, history, outside
  <2> QED BY <1>0, <2>1, ReturnMoves, SafeFrame DEF Idle
<1>5. ASSUME NEW e \in Executors, Claim(e) PROVE SafeInv'
  <2> DEFINE a == exec[e].on
  <2>1. /\ a \in Approvals /\ exec[e].pc = "claim"
        /\ status[a] = "approved" /\ attempt[a] = "none"
        /\ attempt' = [attempt EXCEPT ![a] = "leased"]
        /\ UNCHANGED <<status, receipts, made>>
    BY <1>5 DEF Claim, Unclaimed, history, outside, TypeInv, BusyOnApproval
  <2>2. Moves(e, "calling") /\ exec'[e].calls = exec[e].calls
    BY <1>0, <1>5, ClaimMoves
  <2>3. \A f \in Executors \ {e} : exec[f].pc \in Live => exec[f].on # a
    BY <2>1 DEF SafeInv, LiveClaimed
  <2>9. /\ \A b \in Approvals \ {a} : attempt'[b] = attempt[b]
        /\ attempt'[a] = "leased"
        /\ exec'[e].on = a
        /\ \A f \in Executors \ {e} : exec'[f] = exec[f]
    <3>1. attempt \in [Approvals -> Attempts]
      BY <1>0 DEF TypeOK
    <3> QED BY <2>1, <2>2, <3>1 DEF Moves
  <2>4. LiveClaimed' /\ OneLive'
    <3> HIDE DEF a
    <3>1. LiveClaimed'
      BY <2>1, <2>9 DEF SafeInv, LiveClaimed
    <3>2. OneLive'
      BY <2>3, <2>9 DEF SafeInv, OneLive
    <3> QED BY <3>1, <3>2
  <2>5. ClaimStatus'
    BY <1>0, <2>1 DEF SafeInv, ClaimStatus, TypeOK
  <2>6. CallsCounted'
    BY <1>0, <2>1, <2>2, <2>3 DEF Moves, SafeInv, CallsCounted, TypeOK
  <2>7. OneTerminal'
    BY <2>1 DEF SafeInv, OneTerminal
  <2> QED BY <2>4, <2>5, <2>6, <2>7 DEF SafeInv
<1>6. ASSUME NEW e \in Executors, NEW reply \in {"ok", "lost", "error"},
             CallProvider(e, reply)
      PROVE  SafeInv'
  <2> DEFINE a == exec[e].on
  <2>1. /\ a \in Approvals /\ exec[e].pc = "calling" /\ exec[e].calls < CallsOf[a]
        /\ made' = [made EXCEPT ![a] = made[a] + 1]
        /\ UNCHANGED <<status, attempt, result, receipts>>
    BY <1>6, CallIssued
  <2>2. \/ Moves(e, "catch")
        \/ Moves(e, "calling") /\ exec'[e].calls = exec[e].calls + 1
    BY <1>0, <1>6, CallMoves
  <2>3. LiveClaimed' /\ OneLive'
    BY <2>1, <2>2 DEF Moves, SafeInv, LiveClaimed, OneLive
  <2>4. \A f \in Executors \ {e} : exec[f].pc \in Live => exec[f].on # a
    BY <2>1 DEF SafeInv, OneLive
  <2>5. made[a] = exec[e].calls /\ made[a] + 1 <= CallsOf[a] /\ attempt[a] # "none"
    <3>1. made[a] \in Nat /\ CallsOf[a] \in Nat
      BY <1>0, <2>1, ConstantTypes DEF TypeOK
    <3>2. made[a] = exec[e].calls /\ attempt[a] # "none"
      BY <2>1 DEF SafeInv, CallsCounted, LiveClaimed
    <3> QED BY <2>1, <3>1, <3>2
  <2>6. CallsCounted'
    BY <1>0, <2>1, <2>2, <2>4, <2>5 DEF Moves, SafeInv, CallsCounted, TypeOK
  <2> QED BY <2>1, <2>3, <2>6 DEF SafeInv, ClaimStatus, OneTerminal
<1>7. ASSUME NEW e \in Executors, Abort(e) PROVE SafeInv'
  <2>1. UNCHANGED <<status, attempt, receipts, made>> /\ exec[e].pc = "calling"
    BY <1>7 DEF Abort, row, history, outside
  <2> QED BY <1>0, <1>7, <2>1, AbortMoves, SafeFrame DEF Moves
<1>8. ASSUME NEW e \in Executors, Audit(e) \/ ReadBack(e) PROVE SafeInv'
  <2>1. /\ UNCHANGED <<status, attempt, receipts, made>>
        /\ exec[e].pc \in Live
        /\ Return(e) \/ Goto(e, "catch") \/ Goto(e, "fail")
    BY <1>8 DEF Audit, ReadBack, row, history, outside
  <2>2. CASE Return(e)
    BY <1>0, <2>1, <2>2, ReturnMoves, SafeFrame DEF Idle
  <2>3. ASSUME NEW pc \in {"catch", "fail"}, Goto(e, pc) PROVE SafeInv'
    BY <1>0, <2>1, <2>3, GotoMoves, SafeFrame DEF Moves
  <2> QED BY <2>1, <2>2, <2>3
<1>9. ASSUME NEW e \in Executors, Finalize(e) \/ FinalizeFailed(e) PROVE SafeInv'
  <2> DEFINE a == exec[e].on
  <2>1. /\ a \in Approvals /\ exec[e].pc \in Live
        /\ UNCHANGED <<attempt, receipts, made>>
        /\ \E s \in {"executed", "failed"} : status' = [status EXCEPT ![a] = s]
    BY <1>9 DEF Finalize, FinalizeFailed, Called, Ending, history, outside, TypeInv, BusyOnApproval
  <2>2. Goto(e, "audit") \/ Return(e)
    BY <1>9 DEF Finalize, FinalizeFailed
  <2>3. /\ \A f \in Executors \ {e} : exec'[f] = exec[f]
        /\ \/ exec'[e] = Idle
           \/ exec'[e].pc = "audit" /\ exec'[e].on = a
    BY <1>0, <2>2, GotoMoves, ReturnMoves DEF Moves
  <2>4. LiveClaimed' /\ OneLive'
    BY <2>1, <2>3 DEF SafeInv, LiveClaimed, OneLive, Idle
  <2>5. ClaimStatus'
    BY <1>0, <2>1 DEF SafeInv, LiveClaimed, ClaimStatus, TypeOK
  <2>6. CallsCounted'
    BY <2>1, <2>3 DEF SafeInv, CallsCounted, Idle
  <2> QED BY <2>1, <2>4, <2>5, <2>6 DEF SafeInv, OneTerminal
<1>10. ASSUME NEW a \in Approvals, LeaseEnds(a) PROVE SafeInv'
  BY <1>10, <1>0 DEF LeaseEnds, history, outside, SafeInv, LiveClaimed, OneLive, ClaimStatus,
                     CallsCounted, OneTerminal, TypeOK
<1>11. ASSUME NEW o \in Observers, NEW a \in Approvals, Observe(o, a) PROVE SafeInv'
  BY <1>11 DEF Observe, row, history, outside, SafeInv, LiveClaimed, OneLive, ClaimStatus,
               CallsCounted, OneTerminal
<1>12. ASSUME NEW o \in Observers, NEW key \in Keys, NEW outcome \in Outcomes,
              RecordReconciliation(o, key, outcome)
       PROVE  SafeInv'
  <2> DEFINE a == seen[o].on
             new == [key |-> key, outcome |-> outcome, by |-> o]
  <2>1. /\ receipts' = [receipts EXCEPT ![a] = receipts[a] \union {new}]
        /\ UNCHANGED <<status, attempt, made, exec>>
        /\ NotConcluded(a)
    BY <1>12 DEF RecordReconciliation, MayReconcile, row, history, outside
  <2>2. \A r \in receipts[a] : r.outcome \notin Conclusive
    BY <2>1 DEF NotConcluded, IsTerminal, OutcomesOf
  <2>3. OneTerminal'
    BY <1>0, <2>1, <2>2 DEF SafeInv, OneTerminal, TypeOK
  <2> QED BY <2>1, <2>3 DEF SafeInv, LiveClaimed, OneLive, ClaimStatus, CallsCounted
<1>13. CASE UNCHANGED vars
  BY <1>13 DEF vars, SafeInv, LiveClaimed, OneLive, ClaimStatus, CallsCounted, OneTerminal
<1> QED
  BY <1>1, <1>2, <1>3, <1>4, <1>5, <1>6, <1>7, <1>8, <1>9, <1>10, <1>11, <1>12, <1>13, StepIs DEF Running, Reviewing

LEMMA SafeInvariant == Spec => [](TypeInv /\ SafeInv)
BY TypeInit, TypeStep, SafeInit, SafeStep, PTL DEF Spec

\* A set in which any two members are equal has one member at most.
LEMMA AtMostOne ==
  ASSUME NEW S, \A x, y \in S : x = y
  PROVE  Cardinality(S) <= 1
<1>1. CASE S = {}
  BY <1>1, FS_EmptySet
<1>2. CASE S # {}
  <2>1. PICK x \in S : S = {x}
    BY <1>2
  <2> QED BY <2>1, FS_Singleton
<1> QED BY <1>1, <1>2

\* However many requests race to execute an approval, one carries its attempt,
\* and it issues no more provider calls than were approved; slow providers included.
THEOREM OneAttemptAlways == Spec => []OneAttempt
<1>1. TypeInv /\ SafeInv => OneAttempt
  <2> SUFFICES ASSUME TypeInv, SafeInv, NEW a \in Approvals
               PROVE  Cardinality(LiveOn(a)) <= 1 /\ made[a] <= CallsOf[a]
    BY DEF OneAttempt
  <2>1. \A e, f \in LiveOn(a) : e = f
    BY DEF LiveOn, SafeInv, OneLive
  <2> QED BY <2>1, AtMostOne DEF SafeInv, CallsCounted
<1> QED BY <1>1, SafeInvariant, PTL

\* However many members reconcile an approval, it gets one conclusion.
THEOREM OneConclusionAlways == Spec => []OneConclusion
<1>1. SafeInv => OneConclusion
  BY AtMostOne DEF SafeInv, OneTerminal, OneConclusion
<1> QED BY <1>1, SafeInvariant, PTL

-----------------------------------------------------------------------------
(* The two readings of a row: the projection and the SQL counts. They differ   *)
(* on a concluded approval whose lease is still running, so there must be none. *)

\* A claim that never came back is concluded only after its lease. This holds of
\* slow providers too.
ConcludedClaim == \A a \in Approvals : Concluded(a) =>
  /\ attempt[a] # "none"
  /\ status[a] = "approved" => attempt[a] = "expired"

LEMMA ConcludedClaimStep == TypeInv /\ SafeInv /\ ConcludedClaim /\ [Next]_vars => ConcludedClaim'
<1> SUFFICES ASSUME TypeInv, SafeInv, ConcludedClaim, [Next]_vars PROVE ConcludedClaim'
  OBVIOUS
<1>0. TypeOK
  BY DEF TypeInv
<1>1. ASSUME NEW a \in Approvals, Deciding(a) PROVE ConcludedClaim'
  <2>1. /\ \A b \in Approvals : attempt[b] # "none" => status'[b] = status[b]
        /\ UNCHANGED <<attempt, receipts>>
    BY <1>0, <1>1, DecisionRows DEF SafeInv, ClaimStatus
  <2> QED BY <2>1 DEF ConcludedClaim, Concluded
<1>2. ASSUME NEW e \in Executors, Claim(e) PROVE ConcludedClaim'
  <2>1. /\ attempt[exec[e].on] = "none"
        /\ attempt' = [attempt EXCEPT ![exec[e].on] = "leased"]
        /\ UNCHANGED <<status, receipts>>
    BY <1>2 DEF Claim, Unclaimed
  <2> QED BY <1>0, <2>1 DEF ConcludedClaim, Concluded, TypeOK
<1>3. ASSUME NEW e \in Executors, Finalize(e) \/ FinalizeFailed(e) PROVE ConcludedClaim'
  <2>1. /\ UNCHANGED <<attempt, receipts>>
        /\ \E s \in {"executed", "failed"} : status' = [status EXCEPT ![exec[e].on] = s]
    BY <1>3 DEF Finalize, FinalizeFailed, Ending
  <2> QED BY <1>0, <2>1 DEF ConcludedClaim, Concluded, TypeOK
<1>4. ASSUME NEW a \in Approvals, LeaseEnds(a) PROVE ConcludedClaim'
  BY <1>0, <1>4 DEF LeaseEnds, ConcludedClaim, Concluded, TypeOK
<1>5. ASSUME NEW o \in Observers, NEW key \in Keys, NEW outcome \in Outcomes,
             RecordReconciliation(o, key, outcome)
      PROVE  ConcludedClaim'
  <2> DEFINE a == seen[o].on
             new == [key |-> key, outcome |-> outcome, by |-> o]
  <2>1. /\ receipts' = [receipts EXCEPT ![a] = receipts[a] \union {new}]
        /\ UNCHANGED <<status, attempt>>
        /\ NeedsReconciliation(status[a], attempt[a])
        /\ ~LeaseActive(status[a], attempt[a])
        /\ a \in Approvals
    BY <1>0, <1>5 DEF RecordReconciliation, MayReconcile, row, TypeOK
  <2>2. attempt[a] # "none" /\ (status[a] = "approved" => attempt[a] = "expired")
    BY <1>0, <2>1 DEF NeedsReconciliation, LeaseActive, SafeInv, ClaimStatus, TypeOK, Attempts
  <2>3. \A b \in Approvals \ {a} : receipts'[b] = receipts[b]
    BY <1>0, <2>1 DEF TypeOK
  <2> QED BY <2>1, <2>2, <2>3 DEF ConcludedClaim, Concluded
<1>6. ASSUME \/ \E e \in Executors :
                  \/ \E b \in Approvals, dryRun \in BOOLEAN : ReadApproved(e, b, dryRun)
                  \/ \E reply \in {"ok", "lost", "error"} : CallProvider(e, reply)
                  \/ WritePreview(e) \/ ClaimLost(e) \/ Abort(e) \/ Audit(e) \/ ReadBack(e)
                  \/ Crash(e)
             \/ \E o \in Observers, a \in Approvals : Observe(o, a)
             \/ Projecting
             \/ UNCHANGED vars
      PROVE  ConcludedClaim'
  <2>1. UNCHANGED <<status, attempt, receipts>>
    BY <1>6, CallIssued, ReadingOnly DEF ReadApproved, WritePreview, ClaimLost, Abort, Audit, ReadBack, Crash,
                            Observe, vars, row
  <2> QED BY <2>1 DEF ConcludedClaim, Concluded
<1> QED
  BY <1>1, <1>2, <1>3, <1>4, <1>5, <1>6, StepIs DEF Running, Reviewing

\* The six SQL counts and the projection agree on every row that ClaimStatus and
\* ConcludedClaim allow.
LEMMA BucketsAgree ==
  ASSUME NEW s \in Statuses, NEW t \in Attempts, NEW action, NEW os \in SUBSET Outcomes,
         t # "none" => s \in {"approved", "executed", "failed"},
         s \in {"executed", "failed"} => t # "none",
         IsTerminal(os) => t # "none" /\ (s = "approved" => t = "expired")
  PROVE  StageBuckets(Stage(s, t, action, os)) = QueryBuckets(s, t, action, os)
<1> USE DEF Stage, StageBuckets, QueryBuckets, NeedsReconciliation, LeaseActive
<1>1. CASE s \in {"absent", "rejected", "expired"}
  <2>1. t = "none" /\ ~IsTerminal(os)
    BY <1>1 DEF Attempts
  <2> QED BY <1>1, <2>1
<1>2. CASE s \in {"proposed", "pending"}
  <2>1. t = "none" /\ ~IsTerminal(os)
    BY <1>2 DEF Attempts
  <2> QED BY <1>2, <2>1
<1>3. CASE s = "executed"
  BY <1>3
<1>4. CASE s = "failed" /\ IsTerminal(os)
  <2>1. "external_effect_observed" \in os
          \/ os \intersect Conclusive = {"no_external_effect_observed"}
    BY <1>4 DEF IsTerminal, Conclusive
  <2> QED BY <1>4, <2>1
<1>5. CASE s = "failed" /\ ~IsTerminal(os)
  <2>1. "external_effect_observed" \notin os
          /\ os \intersect Conclusive # {"no_external_effect_observed"}
    BY <1>5 DEF IsTerminal, Conclusive
  <2> QED BY <1>5, <2>1
<1>6. CASE s = "approved" /\ IsTerminal(os)
  <2>1. t = "expired"
    BY <1>6
  <2>2. "external_effect_observed" \in os
          \/ os \intersect Conclusive = {"no_external_effect_observed"}
    BY <1>6 DEF IsTerminal, Conclusive
  <2> QED BY <1>6, <2>1, <2>2
<1>7. CASE s = "approved" /\ ~IsTerminal(os)
  <2>1. "external_effect_observed" \notin os
          /\ os \intersect Conclusive # {"no_external_effect_observed"}
    BY <1>7 DEF IsTerminal, Conclusive
  <2>2. CASE t = "none" /\ action \in ExecutableActions
    BY <1>7, <2>1, <2>2
  <2>3. CASE t = "none" /\ action \notin ExecutableActions
    BY <1>7, <2>1, <2>3
  <2>4. CASE t = "leased"
    BY <1>7, <2>1, <2>4
  <2>5. CASE t = "expired"
    BY <1>7, <2>1, <2>5
  <2> QED BY <2>2, <2>3, <2>4, <2>5 DEF Attempts
<1> QED BY <1>1, <1>2, <1>3, <1>4, <1>5, <1>6, <1>7 DEF Statuses

\* Every approval is in the same list for the projection and for the SQL counts,
\* slow providers and mistaken members included.
THEOREM CountsMatchStagesAlways == Spec => []CountsMatchStages
<1>1. Init => ConcludedClaim
  BY DEF Init, ConcludedClaim, Concluded, IsTerminal, OutcomesOf
<1>2. TypeInv /\ SafeInv /\ ConcludedClaim => CountsMatchStages
  <2> SUFFICES ASSUME TypeInv, SafeInv, ConcludedClaim, NEW a \in Approvals
               PROVE  LET os == OutcomesOf(receipts[a])
                      IN  StageBuckets(Stage(status[a], attempt[a], ActionOf[a], os))
                            = QueryBuckets(status[a], attempt[a], ActionOf[a], os)
    BY DEF CountsMatchStages
  <2>1. status[a] \in Statuses /\ attempt[a] \in Attempts
    BY DEF TypeInv, TypeOK
  <2>2. OutcomesOf(receipts[a]) \in SUBSET Outcomes
    BY DEF TypeInv, TypeOK, OutcomesOf
  <2>3. /\ attempt[a] # "none" => status[a] \in {"approved", "executed", "failed"}
        /\ status[a] \in {"executed", "failed"} => attempt[a] # "none"
    BY DEF SafeInv, ClaimStatus
  <2>4. IsTerminal(OutcomesOf(receipts[a]))
          => attempt[a] # "none" /\ (status[a] = "approved" => attempt[a] = "expired")
    BY DEF ConcludedClaim, Concluded
  <2> QED BY <2>1, <2>2, <2>3, <2>4, BucketsAgree
<1>3. TypeInv /\ SafeInv /\ ConcludedClaim /\ [Next]_vars => ConcludedClaim'
  BY ConcludedClaimStep
<1> QED BY <1>1, <1>2, <1>3, SafeInvariant, PTL DEF Spec

-----------------------------------------------------------------------------
(* What the provider confirmed stays in the saved result. The confirmation     *)
(* travels with the one running request (AckedCarried): nobody else can put it *)
(* into the row, and a crash leaves the row approved, hence unknown.           *)

\* Provider calls are made on approved rows only.
CallingApproved == \A e \in Executors :
  exec[e].pc = "calling" => status[exec[e].on] = "approved"

\* Only a claimed approval was ever confirmed, and never through a mock provider.
AckedClaimed ==
  /\ \A a \in Approvals : acked[a] => attempt[a] # "none"
  /\ \A e \in Executors : exec[e].pc \in Live /\ acked[exec[e].on] => exec[e].mode = "real"

\* The request that runs still holds the reference it was given.
AckedCarried == \A e \in Executors :
  exec[e].pc \in Live /\ acked[exec[e].on] /\ ActionOf[exec[e].on] # "social_post_batch"
  => exec[e].result = "known"

KnownInv == CallingApproved /\ AckedClaimed /\ AckedCarried /\ KnownEffectKept

\* What a step of the error path keeps of the request's local state.
Keeps(e) == /\ exec'[e].mode = exec[e].mode
            /\ ActionOf[exec[e].on] # "social_post_batch" => exec'[e].result = exec[e].result

LEMMA GotoKeeps ==
  ASSUME TypeOK, NEW e \in Executors, NEW pc, Goto(e, pc) PROVE Keeps(e)
<1> DEFINE y == [exec[e] EXCEPT !.pc = pc]
<1>1. y.mode = exec[e].mode /\ y.result = exec[e].result
  BY DEF TypeOK, ExecutorStates
<1>2. exec' = [exec EXCEPT ![e] = y]
  BY DEF Goto
<1> HIDE DEF y
<1> QED BY <1>1, <1>2 DEF TypeOK, Keeps

LEMMA AbortKeeps ==
  ASSUME TypeOK, NEW e \in Executors, Abort(e) PROVE Keeps(e)
<1> DEFINE res == IF ActionOf[exec[e].on] = "social_post_batch" THEN "none"
                  ELSE exec[e].result
           y == [exec[e] EXCEPT !.pc = "catch", !.result = res]
<1>1. y.mode = exec[e].mode /\ y.result = res
  BY DEF TypeOK, ExecutorStates
<1>2. exec' = [exec EXCEPT ![e] = y]
  BY DEF Abort
<1> HIDE DEF y
<1> QED BY <1>1, <1>2 DEF TypeOK, Keeps

\* A reply is confirmed by a real provider only, and then kept with its reference;
\* a real provider's later failures do not take the reference away.
LEMMA CallKeeps ==
  ASSUME TypeOK, NEW e \in Executors, NEW reply \in {"ok", "lost", "error"},
         CallProvider(e, reply), exec[e].on \in Approvals
  PROVE  /\ exec'[e].mode = exec[e].mode
         /\ exec[e].mode = "real" => exec'[e].result \in {exec[e].result, "known"}
         /\ \A b \in Approvals : acked'[b] =>
              acked[b] \/ (b = exec[e].on /\ exec[e].mode = "real" /\ exec'[e].result = "known")
<1> DEFINE x == exec[e]
           r == IF x.mode = "real" THEN "known" ELSE "simulated"
           landed == x.mode = "real" /\ reply # "error"
<1>1. x \in ExecutorStates
  BY DEF TypeOK
<1>2. acked' = [acked EXCEPT ![x.on] = acked[x.on] \/ (landed /\ reply = "ok")]
  BY Zenon DEF CallProvider
<1>3. \A b \in Approvals : acked'[b] =>
        acked[b] \/ (b = x.on /\ x.mode = "real" /\ reply = "ok")
  <2> SUFFICES ASSUME NEW b \in Approvals, acked'[b]
               PROVE  acked[b] \/ (b = x.on /\ x.mode = "real" /\ reply = "ok")
    OBVIOUS
  <2>1. CASE b = x.on
    <3>1. acked'[b] = (acked[x.on] \/ (landed /\ reply = "ok"))
      BY <1>2, <2>1, Zenon DEF TypeOK
    <3> QED BY <2>1, <3>1
  <2>2. CASE b # x.on
    BY <1>2, <2>2 DEF TypeOK
  <2> QED BY <2>1, <2>2
<1>4. CASE reply = "ok"
  <2> DEFINE y == [x EXCEPT !.calls = @ + 1, !.result = r]
  <2>1. y.mode = x.mode /\ y.result = r
    BY <1>1 DEF ExecutorStates
  <2>2. exec' = [exec EXCEPT ![e] = y]
    BY <1>4 DEF CallProvider
  <2> HIDE DEF y
  <2> QED BY <1>3, <2>1, <2>2 DEF TypeOK
<1>5. CASE reply # "ok" /\ ActionOf[x.on] \in StoppingActions
  <2> DEFINE y == [x EXCEPT !.pc = "catch"]
  <2>1. y.mode = x.mode /\ y.result = x.result
    BY <1>1 DEF ExecutorStates
  <2>2. exec' = [exec EXCEPT ![e] = y]
    BY <1>5 DEF CallProvider
  <2> HIDE DEF y
  <2> QED BY <1>3, <1>5, <2>1, <2>2 DEF TypeOK
<1>6. CASE reply # "ok" /\ ActionOf[x.on] \notin StoppingActions
  <2> DEFINE y == [x EXCEPT !.calls = @ + 1, !.bad = TRUE]
  <2>1. y.mode = x.mode /\ y.result = x.result
    BY <1>1 DEF ExecutorStates
  <2>2. exec' = [exec EXCEPT ![e] = y]
    BY <1>6 DEF CallProvider
  <2> HIDE DEF y
  <2> QED BY <1>3, <1>6, <2>1, <2>2 DEF TypeOK
<1> QED BY <1>4, <1>5, <1>6

\* A step that leaves rows and history, outside alone and lets at most one executor move
\* on with what it holds, never into its attempt.
LEMMA KnownFrame ==
  ASSUME TypeInv, KnownInv, UNCHANGED <<status, attempt, result, acked>>, NEW e \in Executors,
         \A f \in Executors \ {e} : exec'[f] = exec[f],
         exec'[e].pc \in Live => exec[e].pc \in Live /\ exec'[e].on = exec[e].on /\ Keeps(e),
         exec'[e].pc = "calling" => exec[e].pc = "calling"
  PROVE  KnownInv'
<1> USE DEF TypeInv, TypeOK, KnownInv
<1>1. CallingApproved'
  BY DEF CallingApproved, Live
<1>2. AckedClaimed'
  BY DEF AckedClaimed, Keeps
<1>3. AckedCarried'
  BY DEF AckedCarried, Keeps
<1>4. KnownEffectKept'
  BY DEF KnownEffectKept
<1> QED BY <1>1, <1>2, <1>3, <1>4

LEMMA KnownInit == Init => KnownInv
BY DEF Init, KnownInv, CallingApproved, AckedClaimed, AckedCarried, KnownEffectKept, Idle, Live

LEMMA KnownStep == TypeInv /\ SafeInv /\ KnownInv /\ [Next]_vars => KnownInv'
<1> SUFFICES ASSUME TypeInv, SafeInv, KnownInv, [Next]_vars PROVE KnownInv'
  OBVIOUS
<1> USE DEF Live
<1>0. TypeOK
  BY DEF TypeInv
<1>1. ASSUME NEW a \in Approvals, Deciding(a) PROVE KnownInv'
  <2>1. /\ \A b \in Approvals : attempt[b] # "none" => status'[b] = status[b]
        /\ \A b \in Approvals : status'[b] \in {"executed", "failed"} => status'[b] = status[b]
        /\ UNCHANGED <<attempt, result, acked, exec>>
    BY <1>0, <1>1, DecisionRows DEF SafeInv, ClaimStatus
  <2>2. CallingApproved'
    BY <2>1 DEF KnownInv, CallingApproved, SafeInv, LiveClaimed, TypeInv, BusyOnApproval
  <2> QED
    BY <2>1, <2>2 DEF KnownInv, AckedClaimed, AckedCarried, KnownEffectKept
<1>2. ASSUME NEW e \in Executors, NEW a \in Approvals, NEW dryRun \in BOOLEAN,
             ReadApproved(e, a, dryRun)
      PROVE  KnownInv'
  <2>1. UNCHANGED <<status, attempt, result, acked>>
    BY <1>2 DEF ReadApproved, row, history, outside
  <2> QED BY <1>0, <1>2, <2>1, ReadMoves, KnownFrame
<1>3. ASSUME NEW e \in Executors, ClaimLost(e) \/ Crash(e) PROVE KnownInv'
  <2>1. UNCHANGED <<status, attempt, result, acked>> /\ Return(e)
    BY <1>3 DEF ClaimLost, Crash, row, history, outside
  <2> QED BY <1>0, <2>1, ReturnMoves, KnownFrame DEF Idle
<1>4. ASSUME NEW e \in Executors, WritePreview(e) PROVE KnownInv'
  <2> DEFINE a == exec[e].on
  <2>1. /\ UNCHANGED <<status, attempt, acked>> /\ Return(e)
        /\ \/ UNCHANGED result
           \/ /\ status[a] = "approved"
              /\ result' = [result EXCEPT ![a] = "none"]
    BY <1>4 DEF WritePreview, Unclaimed, history, outside
  <2>2. exec'[e] = Idle /\ \A f \in Executors \ {e} : exec'[f] = exec[f]
    BY <1>0, <2>1, ReturnMoves
  <2>3. KnownEffectKept'
    BY <1>0, <2>1 DEF KnownInv, KnownEffectKept, TypeOK
  <2> QED BY <2>1, <2>2, <2>3 DEF KnownInv, CallingApproved, AckedClaimed, AckedCarried, Idle
<1>5. ASSUME NEW e \in Executors, Claim(e) PROVE KnownInv'
  <2> DEFINE a == exec[e].on
  <2>1. /\ a \in Approvals
        /\ status[a] = "approved" /\ attempt[a] = "none"
        /\ attempt' = [attempt EXCEPT ![a] = "leased"]
        /\ UNCHANGED <<status, result, acked>>
    BY <1>5 DEF Claim, Unclaimed, TypeInv, BusyOnApproval, history, outside
  <2>2. Moves(e, "calling")
    BY <1>0, <1>5, ClaimMoves
  <2>3. ~acked[a]
    BY <2>1 DEF KnownInv, AckedClaimed
  <2>4. CallingApproved' /\ AckedCarried'
    BY <2>1, <2>2, <2>3 DEF Moves, KnownInv, CallingApproved, AckedCarried
  <2>5. AckedClaimed'
    BY <1>0, <2>1, <2>2, <2>3 DEF Moves, KnownInv, AckedClaimed, TypeOK
  <2> QED BY <2>1, <2>4, <2>5 DEF KnownInv, KnownEffectKept
<1>6. ASSUME NEW e \in Executors, NEW reply \in {"ok", "lost", "error"},
             CallProvider(e, reply)
      PROVE  KnownInv'
  <2> DEFINE a == exec[e].on
  <2>1. a \in Approvals /\ exec[e].pc = "calling" /\ UNCHANGED <<status, attempt, result>>
    BY <1>6, CallIssued
  <2>2. status[a] = "approved" /\ attempt[a] # "none"
    BY <2>1 DEF KnownInv, CallingApproved, SafeInv, LiveClaimed
  <2>3. Moves(e, "catch") \/ Moves(e, "calling")
    BY <1>0, <1>6, CallMoves
  <2>4. /\ exec'[e].mode = exec[e].mode
        /\ exec[e].mode = "real" => exec'[e].result \in {exec[e].result, "known"}
        /\ \A b \in Approvals : acked'[b] =>
             acked[b] \/ (b = a /\ exec[e].mode = "real" /\ exec'[e].result = "known")
    BY <1>0, <1>6, <2>1, CallKeeps
  \* The other running requests work on other approvals.
  <2>5. \A f \in Executors \ {e} : exec[f].pc \in Live => exec[f].on \in Approvals \ {a}
    BY <2>1 DEF SafeInv, OneLive, TypeInv, BusyOnApproval
  <2>6. CallingApproved'
    BY <2>1, <2>2, <2>3 DEF Moves, KnownInv, CallingApproved
  <2>7. AckedClaimed'
    BY <2>1, <2>2, <2>3, <2>4, <2>5 DEF Moves, KnownInv, AckedClaimed
  <2>8. AckedCarried'
    BY <2>1, <2>3, <2>4, <2>5 DEF Moves, KnownInv, AckedClaimed, AckedCarried
  <2>9. KnownEffectKept'
    BY <2>1, <2>2, <2>4 DEF KnownInv, KnownEffectKept
  <2> QED BY <2>6, <2>7, <2>8, <2>9 DEF KnownInv
<1>7. ASSUME NEW e \in Executors, Abort(e) PROVE KnownInv'
  <2>1. UNCHANGED <<status, attempt, result, acked>> /\ exec[e].pc = "calling"
    BY <1>7 DEF Abort, row, history, outside
  <2> QED BY <1>0, <1>7, <2>1, AbortMoves, AbortKeeps, KnownFrame DEF Moves
<1>8. ASSUME NEW e \in Executors, Audit(e) \/ ReadBack(e) PROVE KnownInv'
  <2>1. /\ UNCHANGED <<status, attempt, result, acked>>
        /\ exec[e].pc \in Live
        /\ Return(e) \/ Goto(e, "catch") \/ Goto(e, "fail")
    BY <1>8 DEF Audit, ReadBack, row, history, outside
  <2>2. CASE Return(e)
    BY <1>0, <2>1, <2>2, ReturnMoves, KnownFrame DEF Idle
  <2>3. ASSUME NEW pc \in {"catch", "fail"}, Goto(e, pc) PROVE KnownInv'
    BY <1>0, <2>1, <2>3, GotoMoves, GotoKeeps, KnownFrame DEF Moves
  <2> QED BY <2>1, <2>2, <2>3
<1>9. ASSUME NEW e \in Executors, Finalize(e) \/ FinalizeFailed(e) PROVE KnownInv'
  <2> DEFINE a == exec[e].on
  <2>1. /\ a \in Approvals /\ exec[e].pc \in Live
        /\ UNCHANGED <<attempt, acked>>
        /\ \E s \in {"executed", "failed"} : status' = [status EXCEPT ![a] = s]
        /\ result' = [result EXCEPT ![a] = exec[e].result]
    BY <1>9 DEF Finalize, FinalizeFailed, Called, Ending, SavedOnFailure, TypeInv, BusyOnApproval, history, outside
  <2>2. /\ \A f \in Executors \ {e} : exec'[f] = exec[f]
        /\ \/ exec'[e] = Idle
           \/ exec'[e].pc = "audit" /\ exec'[e].on = a /\ Keeps(e)
    BY <1>0, <1>9, GotoMoves, GotoKeeps, ReturnMoves DEF Finalize, FinalizeFailed, Moves
  <2>3. \A f \in Executors \ {e} : exec[f].pc \in Live => exec[f].on # a
    BY <2>1 DEF SafeInv, OneLive
  <2>4. CallingApproved'
    BY <1>0, <2>1, <2>2, <2>3 DEF KnownInv, CallingApproved, Idle, TypeOK
  <2>5. AckedClaimed' /\ AckedCarried'
    BY <2>1, <2>2 DEF KnownInv, AckedClaimed, AckedCarried, Keeps, Idle
  <2>6. KnownEffectKept'
    BY <1>0, <2>1 DEF KnownInv, AckedCarried, KnownEffectKept, TypeOK
  <2> QED BY <2>4, <2>5, <2>6 DEF KnownInv
<1>10. ASSUME NEW a \in Approvals, LeaseEnds(a) PROVE KnownInv'
  BY <1>0, <1>10 DEF LeaseEnds, history, outside, KnownInv, CallingApproved, AckedClaimed, AckedCarried,
                     KnownEffectKept, TypeOK
<1>11. ASSUME \/ \E o \in Observers : Reviewing(o)
              \/ Projecting \/ UNCHANGED vars
       PROVE KnownInv'
  <2>1. UNCHANGED <<status, attempt, result, exec, acked>>
    BY <1>11, ReadingOnly DEF Reviewing, Observe, RecordReconciliation, vars, row, history, outside
  <2> QED BY <2>1 DEF KnownInv, CallingApproved, AckedClaimed, AckedCarried, KnownEffectKept
<1> QED
  BY <1>1, <1>2, <1>3, <1>4, <1>5, <1>6, <1>7, <1>8, <1>9, <1>10, <1>11, StepIs DEF Running, Reviewing

\* Whatever ends an attempt, a late error, a lost audit row, a slow provider or a
\* dry run in between, the reference the provider gave is in the saved result.
THEOREM KnownEffectKeptAlways == Spec => []KnownEffectKept
<1>1. Init => KnownInv
  BY KnownInit
<1>2. TypeInv /\ SafeInv /\ KnownInv /\ [Next]_vars => KnownInv'
  BY KnownStep
<1>3. KnownInv => KnownEffectKept
  BY DEF KnownInv
<1> QED BY <1>1, <1>2, <1>3, SafeInvariant, PTL DEF Spec

-----------------------------------------------------------------------------
(* What holds beyond that when no attempt outlives its lease (the provider     *)
(* calls of a batch are bounded in number and in time): a member can conclude  *)
(* an approval only when the request that attempted it is over or has written  *)
(* the outcome it may at most write again.                                     *)

\* A request still running on an approved row is inside its lease.
LiveLeased == \A e \in Executors :
  exec[e].pc \in Live /\ status[exec[e].on] = "approved" => attempt[exec[e].on] = "leased"

\* Before the outcome is written the row is approved, after it it is not.
PcStatus == \A e \in Executors :
  /\ exec[e].pc = "calling" => status[exec[e].on] = "approved"
  /\ exec[e].pc = "audit" => status[exec[e].on] # "approved"

\* A request whose outcome is written could only write the same result again.
SameResult == \A e \in Executors :
  exec[e].pc \in Live /\ status[exec[e].on] # "approved"
  => result[exec[e].on] = exec[e].result

\* Only a failed row, or a claim whose lease is over, has been concluded.
ConcludedRow == \A a \in Approvals : Concluded(a) =>
  /\ status[a] \in {"approved", "failed"}
  /\ attempt[a] # "none"
  /\ status[a] = "approved" => attempt[a] = "expired"

QuietInv == LiveLeased /\ PcStatus /\ SameResult /\ ConcludedRow

LEMMA QuietInit == Init => QuietInv
BY DEF Init, QuietInv, LiveLeased, PcStatus, SameResult, ConcludedRow, Concluded, IsTerminal,
       OutcomesOf, Idle, Live

LEMMA QuietFrame ==
  ASSUME TypeInv, QuietInv, UNCHANGED <<status, attempt, result, receipts>>, NEW e \in Executors,
         \A f \in Executors \ {e} : exec'[f] = exec[f],
         exec'[e].pc \in Live => exec[e].pc \in Live /\ exec'[e].on = exec[e].on,
         exec'[e].pc \in Live /\ status[exec[e].on] # "approved"
           => exec'[e].result = exec[e].result,
         exec'[e].pc = "calling" => exec[e].pc = "calling",
         exec'[e].pc # "audit"
  PROVE  QuietInv'
<1> USE DEF TypeInv, TypeOK, QuietInv
<1>1. LiveLeased'
  BY DEF LiveLeased
<1>2. PcStatus'
  BY DEF PcStatus, Live
<1>3. SameResult'
  BY DEF SameResult
<1>4. ConcludedRow'
  BY DEF ConcludedRow, Concluded
<1> QED BY <1>1, <1>2, <1>3, <1>4

LEMMA QuietStep ==
  ASSUME ~SlowProviders
  PROVE  TypeInv /\ SafeInv /\ QuietInv /\ [Next]_vars => QuietInv'
<1> SUFFICES ASSUME TypeInv, SafeInv, QuietInv, [Next]_vars PROVE QuietInv'
  OBVIOUS
<1> USE DEF Live
<1>0. TypeOK
  BY DEF TypeInv
<1>1. ASSUME NEW a \in Approvals, Deciding(a) PROVE QuietInv'
  <2>1. /\ \A b \in Approvals : attempt[b] # "none" => status'[b] = status[b]
        /\ UNCHANGED <<attempt, result, receipts, exec>>
    BY <1>0, <1>1, DecisionRows DEF SafeInv, ClaimStatus
  <2>2. \A e \in Executors : exec[e].pc \in Live => status'[exec[e].on] = status[exec[e].on]
    BY <2>1 DEF SafeInv, LiveClaimed, TypeInv, BusyOnApproval
  <2> QED
    BY <2>1, <2>2 DEF QuietInv, LiveLeased, PcStatus, SameResult, ConcludedRow, Concluded
<1>2. ASSUME Projecting PROVE QuietInv'
  BY <1>2, ReadingOnly DEF QuietInv, LiveLeased, PcStatus, SameResult, ConcludedRow, Concluded
<1>3. ASSUME NEW e \in Executors, NEW a \in Approvals, NEW dryRun \in BOOLEAN,
             ReadApproved(e, a, dryRun)
      PROVE  QuietInv'
  <2>1. UNCHANGED <<status, attempt, result, receipts>>
    BY <1>3 DEF ReadApproved, row
  <2> QED BY <1>0, <1>3, <2>1, ReadMoves, QuietFrame
<1>4. ASSUME NEW e \in Executors, ClaimLost(e) \/ Crash(e) PROVE QuietInv'
  <2>1. UNCHANGED <<status, attempt, result, receipts>> /\ Return(e)
    BY <1>4 DEF ClaimLost, Crash, row
  <2> QED BY <1>0, <2>1, ReturnMoves, QuietFrame DEF Idle
<1>5. ASSUME NEW e \in Executors, WritePreview(e) PROVE QuietInv'
  <2> DEFINE a == exec[e].on
  <2>1. /\ UNCHANGED <<status, attempt, receipts>> /\ Return(e)
        /\ \/ UNCHANGED result
           \/ attempt[a] = "none" /\ result' = [result EXCEPT ![a] = "none"]
    BY <1>5 DEF WritePreview, Unclaimed
  <2>2. exec'[e] = Idle /\ \A f \in Executors \ {e} : exec'[f] = exec[f]
    BY <1>0, <2>1, ReturnMoves
  <2>3. SameResult'
    <3>1. \A f \in Executors : exec'[f].pc \in Live => f # e /\ exec'[f] = exec[f]
      BY <2>2 DEF Idle
    <3>2. CASE UNCHANGED result
      BY <2>1, <3>1, <3>2 DEF QuietInv, SameResult
    <3>3. CASE attempt[a] = "none" /\ result' = [result EXCEPT ![a] = "none"]
      <4>1. \A f \in Executors : exec[f].pc \in Live => exec[f].on \in Approvals \ {a}
        BY <3>3 DEF SafeInv, LiveClaimed, TypeInv, BusyOnApproval
      <4> QED BY <1>0, <2>1, <3>1, <3>3, <4>1 DEF QuietInv, SameResult, TypeOK
    <3> QED BY <2>1, <3>2, <3>3
  <2> QED BY <2>1, <2>2, <2>3 DEF QuietInv, LiveLeased, PcStatus, ConcludedRow, Concluded, Idle
<1>6. ASSUME NEW e \in Executors, Claim(e) PROVE QuietInv'
  <2> DEFINE a == exec[e].on
  <2>1. /\ a \in Approvals
        /\ status[a] = "approved" /\ attempt[a] = "none"
        /\ attempt' = [attempt EXCEPT ![a] = "leased"]
        /\ UNCHANGED <<status, result, receipts>>
    BY <1>6 DEF Claim, Unclaimed, TypeInv, BusyOnApproval
  <2>2. Moves(e, "calling")
    BY <1>0, <1>6, ClaimMoves
  <2>3. ~Concluded(a)
    BY <2>1 DEF QuietInv, ConcludedRow
  <2>4. LiveLeased' /\ PcStatus' /\ SameResult'
    BY <1>0, <2>1, <2>2 DEF Moves, QuietInv, LiveLeased, PcStatus, SameResult, TypeOK
  <2>5. ConcludedRow'
    BY <1>0, <2>1, <2>3 DEF QuietInv, ConcludedRow, Concluded, TypeOK
  <2> QED BY <2>4, <2>5 DEF QuietInv
<1>7. ASSUME NEW e \in Executors, NEW reply \in {"ok", "lost", "error"},
             CallProvider(e, reply)
      PROVE  QuietInv'
  <2>1. exec[e].pc = "calling" /\ UNCHANGED <<status, attempt, result, receipts>>
    BY <1>7, CallIssued
  <2>2. status[exec[e].on] = "approved"
    BY <2>1 DEF QuietInv, PcStatus
  <2> QED BY <1>0, <1>7, <2>1, <2>2, CallMoves, QuietFrame DEF Moves
<1>8. ASSUME NEW e \in Executors, Abort(e) PROVE QuietInv'
  <2>1. exec[e].pc = "calling" /\ UNCHANGED <<status, attempt, result, receipts>>
    BY <1>8 DEF Abort, row
  <2>2. status[exec[e].on] = "approved"
    BY <2>1 DEF QuietInv, PcStatus
  <2> QED BY <1>0, <1>8, <2>1, <2>2, AbortMoves, QuietFrame DEF Moves
<1>9. ASSUME NEW e \in Executors, Audit(e) \/ ReadBack(e) PROVE QuietInv'
  <2>1. /\ UNCHANGED <<status, attempt, result, receipts>>
        /\ exec[e].pc \in Live
        /\ Return(e) \/ Goto(e, "catch") \/ Goto(e, "fail")
    BY <1>9 DEF Audit, ReadBack, row
  <2>2. CASE Return(e)
    BY <1>0, <2>1, <2>2, ReturnMoves, QuietFrame DEF Idle
  <2>3. ASSUME NEW pc \in {"catch", "fail"}, Goto(e, pc) PROVE QuietInv'
    BY <1>0, <2>1, <2>3, GotoMoves, QuietFrame DEF Moves
  <2> QED BY <2>1, <2>2, <2>3
<1>10. ASSUME NEW e \in Executors, Finalize(e) \/ FinalizeFailed(e) PROVE QuietInv'
  <2> DEFINE a == exec[e].on
  <2>1. /\ a \in Approvals /\ exec[e].pc \in Live
        /\ UNCHANGED <<attempt, receipts>>
        /\ \E s \in {"executed", "failed"} : status' = [status EXCEPT ![a] = s]
        /\ result' = [result EXCEPT ![a] = exec[e].result]
    BY <1>10 DEF Finalize, FinalizeFailed, Called, Ending, SavedOnFailure, TypeInv, BusyOnApproval
  <2>2. Goto(e, "audit") \/ Return(e)
    BY <1>10 DEF Finalize, FinalizeFailed
  <2>3. /\ \A f \in Executors \ {e} : exec'[f] = exec[f]
        /\ \/ exec'[e] = Idle
           \/ exec'[e].pc = "audit" /\ exec'[e].on = a /\ exec'[e].result = exec[e].result
    BY <1>0, <2>2, GotoMoves, ReturnMoves DEF Moves
  <2>4. \A f \in Executors \ {e} : exec[f].pc \in Live => exec[f].on # a
    BY <2>1 DEF SafeInv, OneLive
  <2>5. LiveLeased' /\ PcStatus' /\ SameResult'
    BY <1>0, <2>1, <2>3, <2>4 DEF QuietInv, LiveLeased, PcStatus, SameResult, TypeOK, Idle
  <2>6. Concluded(a) => status'[a] = "failed" /\ attempt[a] # "none"
    <3>1. CASE Finalize(e)
      <4>1. status[a] = "approved" /\ attempt[a] = "leased"
        BY <3>1 DEF Finalize, Called, QuietInv, PcStatus, LiveLeased
      <4> QED BY <4>1, <2>1 DEF QuietInv, ConcludedRow
    <3>2. CASE FinalizeFailed(e)
      <4>1. status'[a] = "failed"
        BY <1>0, <2>1, <3>2 DEF FinalizeFailed, TypeOK
      <4> QED BY <4>1, <2>1 DEF QuietInv, ConcludedRow
    <3> QED BY <1>10, <3>1, <3>2
  <2>7. ConcludedRow'
    BY <1>0, <2>1, <2>6 DEF QuietInv, ConcludedRow, Concluded, TypeOK
  <2> QED BY <2>5, <2>7 DEF QuietInv
<1>11. ASSUME NEW a \in Approvals, LeaseEnds(a) PROVE QuietInv'
  <2>1. /\ attempt' = [attempt EXCEPT ![a] = "expired"]
        /\ UNCHANGED <<status, result, receipts, exec>>
        /\ \A e \in Executors : exec[e].pc \in Live => exec[e].on # a
    BY <1>11 DEF LeaseEnds, LiveOn
  <2> QED
    BY <1>0, <2>1
       DEF QuietInv, LiveLeased, PcStatus, SameResult, ConcludedRow, Concluded, TypeOK
<1>12. ASSUME NEW o \in Observers, NEW a \in Approvals, Observe(o, a) PROVE QuietInv'
  BY <1>12 DEF Observe, row, QuietInv, LiveLeased, PcStatus, SameResult, ConcludedRow,
               Concluded
<1>13. ASSUME NEW o \in Observers, NEW key \in Keys, NEW outcome \in Outcomes,
              RecordReconciliation(o, key, outcome)
       PROVE  QuietInv'
  <2> DEFINE a == seen[o].on
             new == [key |-> key, outcome |-> outcome, by |-> o]
  <2>1. /\ receipts' = [receipts EXCEPT ![a] = receipts[a] \union {new}]
        /\ UNCHANGED <<status, attempt, result, exec>>
        /\ NeedsReconciliation(status[a], attempt[a])
        /\ ~LeaseActive(status[a], attempt[a])
        /\ a \in Approvals
    BY <1>0, <1>13 DEF RecordReconciliation, MayReconcile, row, TypeOK
  <2>2. /\ status[a] \in {"approved", "failed"}
        /\ attempt[a] # "none"
        /\ status[a] = "approved" => attempt[a] = "expired"
    BY <1>0, <2>1 DEF NeedsReconciliation, LeaseActive, SafeInv, ClaimStatus, TypeOK, Attempts
  <2>3. \A b \in Approvals \ {a} : receipts'[b] = receipts[b]
    BY <1>0, <2>1 DEF TypeOK
  <2>4. ConcludedRow'
    BY <2>1, <2>2, <2>3 DEF QuietInv, ConcludedRow, Concluded
  <2> QED BY <2>1, <2>4 DEF QuietInv, LiveLeased, PcStatus, SameResult
<1>14. CASE UNCHANGED vars
  BY <1>14 DEF vars, QuietInv, LiveLeased, PcStatus, SameResult, ConcludedRow, Concluded
<1> QED
  BY <1>1, <1>2, <1>3, <1>4, <1>5, <1>6, <1>7, <1>8, <1>9, <1>10, <1>11, <1>12, <1>13, <1>14, StepIs DEF Running, Reviewing

LEMMA QuietInvariant ==
  ASSUME ~SlowProviders PROVE Spec => [](TypeInv /\ SafeInv /\ QuietInv)
<1>1. TypeInv /\ SafeInv /\ QuietInv /\ [Next]_vars => QuietInv'
  BY QuietStep
<1> QED BY <1>1, TypeInit, TypeStep, SafeInit, SafeStep, QuietInit, PTL DEF Spec

\* No step changes the row of a concluded approval, nor calls a provider for it.
LEMMA FrozenStep ==
  ASSUME TypeInv, SafeInv, QuietInv, [Next]_vars, NEW a \in Approvals, Concluded(a)
  PROVE  /\ status'[a] = status[a]
         /\ attempt'[a] \in {attempt[a], "expired"}
         /\ result'[a] = result[a]
         /\ made'[a] = made[a]
<1> USE DEF Live
<1>0. TypeOK
  BY DEF TypeInv
<1>a. /\ status[a] \in {"approved", "failed"} /\ attempt[a] # "none"
      /\ status[a] = "approved" => attempt[a] = "expired"
  BY DEF QuietInv, ConcludedRow
\* A request still running on it has written its failure.
<1>b. \A e \in Executors : exec[e].pc \in Live /\ exec[e].on = a =>
        status[a] = "failed" /\ exec[e].pc # "calling" /\ result[a] = exec[e].result
  BY <1>a DEF QuietInv, LiveLeased, PcStatus, SameResult
<1>1. ASSUME NEW b \in Approvals, Deciding(b)
      PROVE  UNCHANGED <<status[a], attempt[a], result[a], made[a]>>
  BY <1>0, <1>a, <1>1, DecisionRows
<1>2. ASSUME NEW e \in Executors, Claim(e) \/ WritePreview(e)
      PROVE  UNCHANGED <<status[a], attempt[a], result[a], made[a]>>
  <2>1. /\ UNCHANGED <<status, made>>
        /\ \/ UNCHANGED <<attempt, result>>
           \/ /\ attempt[exec[e].on] = "none"
              /\ \E t, u : /\ attempt' = [attempt EXCEPT ![exec[e].on] = t]
                           /\ result' = [result EXCEPT ![exec[e].on] = u]
    <3>1. CASE Claim(e)
      <4>1. /\ UNCHANGED <<status, made, result>> /\ attempt[exec[e].on] = "none"
            /\ attempt' = [attempt EXCEPT ![exec[e].on] = "leased"]
        BY <3>1 DEF Claim, Unclaimed, history, outside
      <4>2. result' = [result EXCEPT ![exec[e].on] = result[exec[e].on]]
        BY <1>0, <4>1 DEF TypeOK
      <4> QED BY <4>1, <4>2
    <3>2. CASE WritePreview(e)
      <4>1. /\ UNCHANGED <<status, made, attempt>>
            /\ \/ UNCHANGED result
               \/ attempt[exec[e].on] = "none" /\ result' = [result EXCEPT ![exec[e].on] = "none"]
        BY <3>2 DEF WritePreview, Unclaimed, history, outside
      <4>2. attempt' = [attempt EXCEPT ![exec[e].on] = attempt[exec[e].on]]
        BY <1>0, <4>1 DEF TypeOK
      <4> QED BY <4>1, <4>2
    <3> QED BY <1>2, <3>1, <3>2
  <2>2. attempt[exec[e].on] = "none" => exec[e].on # a
    BY <1>a
  <2> QED BY <1>0, <2>1, <2>2 DEF TypeOK
<1>3. ASSUME NEW e \in Executors, NEW reply \in {"ok", "lost", "error"},
             CallProvider(e, reply)
      PROVE  UNCHANGED <<status[a], attempt[a], result[a], made[a]>>
  <2>1. /\ exec[e].pc = "calling" /\ UNCHANGED <<status, attempt, result>>
        /\ made' = [made EXCEPT ![exec[e].on] = made[exec[e].on] + 1]
    BY <1>3, CallIssued
  <2>2. exec[e].on # a
    BY <1>b, <2>1
  <2> QED BY <1>0, <2>1, <2>2 DEF TypeOK
<1>4. ASSUME NEW e \in Executors, Finalize(e) \/ FinalizeFailed(e)
      PROVE  UNCHANGED <<status[a], attempt[a], result[a], made[a]>>
  <2>1. /\ exec[e].pc \in Live /\ UNCHANGED <<attempt, made>>
        /\ \E s : /\ status' = [status EXCEPT ![exec[e].on] = s]
                  /\ exec[e].pc # "calling" => s = "failed"
        /\ result' = [result EXCEPT ![exec[e].on] = exec[e].result]
    BY <1>4 DEF Finalize, FinalizeFailed, Called, SavedOnFailure, history, outside
  <2> QED BY <1>0, <1>b, <2>1 DEF TypeOK
<1>5. ASSUME NEW b \in Approvals, LeaseEnds(b)
      PROVE  /\ UNCHANGED <<status, result, made>>
             /\ attempt'[a] \in {attempt[a], "expired"}
  BY <1>0, <1>5 DEF LeaseEnds, history, outside, TypeOK
<1>6. ASSUME \/ \E e \in Executors :
                  \/ \E b \in Approvals, dryRun \in BOOLEAN : ReadApproved(e, b, dryRun)
                  \/ ClaimLost(e) \/ Abort(e) \/ Audit(e) \/ ReadBack(e) \/ Crash(e)
             \/ \E o \in Observers : \/ \E b \in Approvals : Observe(o, b)
                                      \/ \E key \in Keys, outcome \in Outcomes :
                                           RecordReconciliation(o, key, outcome)
             \/ Projecting
             \/ UNCHANGED vars
      PROVE  UNCHANGED <<status, attempt, result, made>>
  BY <1>6, ReadingOnly DEF ReadApproved, ClaimLost, Abort, Audit, ReadBack, Crash, Observe,
              RecordReconciliation, vars, row, history, outside
<1> QED
  BY <1>1, <1>2, <1>3, <1>4, <1>5, <1>6, StepIs DEF Running, Reviewing

\* Once a member has concluded an approval nothing changes for it any more, the
\* outside world included: no late answer, retry or dry run reaches it.
THEOREM ConclusionFreezesAlways ==
  ASSUME ~SlowProviders PROVE Spec => ConclusionFreezes
<1>1. TypeInv /\ SafeInv /\ QuietInv /\ [Next]_vars =>
        [\A a \in Approvals :
           Concluded(a) => /\ status'[a] = status[a]
                           /\ attempt'[a] \in {attempt[a], "expired"}
                           /\ result'[a] = result[a]
                           /\ made'[a] = made[a]]_vars
  BY FrozenStep
<1> QED BY <1>1, QuietInvariant, PTL DEF Spec, ConclusionFreezes

-----------------------------------------------------------------------------
(* What the receipts say is, and stays, true of the row and of the provider.   *)

\* A receipt that is new was added by the request of a member.
LEMMA NewReceipt ==
  ASSUME TypeInv, [Next]_vars, NEW a \in Approvals, receipts'[a] # receipts[a]
  PROVE  \E o \in Observers, key \in Keys, outcome \in Outcomes :
           /\ RecordReconciliation(o, key, outcome)
           /\ seen[o].on = a
           /\ receipts'[a] = receipts[a] \union {[key |-> key, outcome |-> outcome, by |-> o]}
<1>1. CASE \E o \in Observers, key \in Keys, outcome \in Outcomes :
             RecordReconciliation(o, key, outcome)
  <2>1. PICK o \in Observers, key \in Keys, outcome \in Outcomes :
          RecordReconciliation(o, key, outcome)
    BY <1>1
  <2>2. receipts' = [receipts EXCEPT ![seen[o].on] =
                       receipts[seen[o].on] \union {[key |-> key, outcome |-> outcome, by |-> o]}]
    BY <2>1 DEF RecordReconciliation
  <2> QED BY <2>1, <2>2 DEF TypeInv, TypeOK
<1>2. CASE Projecting \/ \E b \in Approvals : Deciding(b)
  BY <1>2, ReadingOnly, DecisionRows DEF TypeInv
<1>3. CASE \/ \E e \in Executors :
                \/ \E b \in Approvals, dryRun \in BOOLEAN : ReadApproved(e, b, dryRun)
                \/ \E reply \in {"ok", "lost", "error"} : CallProvider(e, reply)
                \/ WritePreview(e) \/ Claim(e) \/ ClaimLost(e) \/ Abort(e) \/ Finalize(e)
                \/ Audit(e) \/ ReadBack(e) \/ FinalizeFailed(e) \/ Crash(e)
           \/ \E b \in Approvals : LeaseEnds(b)
           \/ \E o \in Observers, b \in Approvals : Observe(o, b)
           \/ UNCHANGED vars
  <2>1. receipts' = receipts
    BY <1>3, CallIssued
       DEF ReadApproved, WritePreview, Claim, ClaimLost, Abort, Finalize, Audit, ReadBack,
           FinalizeFailed, Crash, LeaseEnds, Observe, vars
  <2> QED BY <2>1
<1> QED
  BY <1>1, <1>2, <1>3, StepIs DEF Running, Reviewing

LEMMA NoContradictionStep ==
  TypeInv /\ SafeInv /\ QuietInv /\ NoContradictoryReceipt /\ [Next]_vars
    => NoContradictoryReceipt'
<1> SUFFICES ASSUME TypeInv, SafeInv, QuietInv, NoContradictoryReceipt, [Next]_vars,
                    NEW a \in Approvals,
                    "no_external_effect_observed" \in OutcomesOf(receipts'[a])
             PROVE  result'[a] # "known"
  BY DEF NoContradictoryReceipt
<1>1. CASE "no_external_effect_observed" \in OutcomesOf(receipts[a])
  <2>1. Concluded(a) /\ result[a] # "known"
    BY <1>1 DEF Concluded, IsTerminal, Conclusive, NoContradictoryReceipt
  <2> QED BY <2>1, FrozenStep
\* The receipt is new: the member's request looked at the saved result.
<1>2. CASE "no_external_effect_observed" \notin OutcomesOf(receipts[a])
  <2>1. PICK o \in Observers, key \in Keys, outcome \in Outcomes :
          /\ RecordReconciliation(o, key, outcome)
          /\ seen[o].on = a
          /\ receipts'[a] = receipts[a] \union {[key |-> key, outcome |-> outcome, by |-> o]}
    BY <1>2, NewReceipt
  <2>2. outcome = "no_external_effect_observed"
    BY <1>2, <2>1 DEF OutcomesOf
  <2> QED BY <2>1, <2>2 DEF RecordReconciliation, row, KnownExternalEffect
<1> QED BY <1>1, <1>2

\* No member, however mistaken, closes as "nothing happened" an attempt whose saved
\* result names a provider reference, and no result is saved under such a receipt.
THEOREM NoContradictoryReceiptAlways ==
  ASSUME ~SlowProviders PROVE Spec => []NoContradictoryReceipt
<1>1. Init => NoContradictoryReceipt
  BY DEF Init, NoContradictoryReceipt, OutcomesOf
<1> QED BY <1>1, NoContradictionStep, QuietInvariant, PTL DEF Spec

-----------------------------------------------------------------------------
\* What was seen after the lease is still so: no call can follow it.
SeenStands == \A o \in Observers :
  seen[o].on \in Approvals /\ seen[o].when = "expired"
  => attempt[seen[o].on] = "expired" /\ seen[o].effect = effect[seen[o].on]

EvidenceInv == SeenStands /\ UnknownReceiptIsTrue

\* A call is made inside the lease of its approval, so it changes the effect of no
\* approval whose lease is over.
LEMMA CallInLease ==
  ASSUME TypeInv, QuietInv, NEW e \in Executors, NEW reply, CallProvider(e, reply)
  PROVE  /\ exec[e].on \in Approvals /\ attempt[exec[e].on] = "leased"
         /\ \A b \in Approvals \ {exec[e].on} : effect'[b] = effect[b]
<1>1. exec[e].pc = "calling" /\ exec[e].on \in Approvals
  BY CallIssued
<1>2. status[exec[e].on] = "approved" /\ attempt[exec[e].on] = "leased"
  BY <1>1 DEF QuietInv, PcStatus, LiveLeased, Live
<1>3. \E v \in BOOLEAN : effect' = [effect EXCEPT ![exec[e].on] = v]
  <2>1. effect' = [effect EXCEPT ![exec[e].on] =
                     effect[exec[e].on] \/ (exec[e].mode = "real" /\ reply # "error")]
    BY Zenon DEF CallProvider
  <2> QED BY <2>1, Zenon
<1> QED BY <1>1, <1>2, <1>3 DEF TypeInv, TypeOK

LEMMA SeenStep == TypeInv /\ SafeInv /\ QuietInv /\ SeenStands /\ [Next]_vars => SeenStands'
<1> SUFFICES ASSUME TypeInv, SafeInv, QuietInv, SeenStands, [Next]_vars PROVE SeenStands'
  OBVIOUS
<1>0. TypeOK
  BY DEF TypeInv
<1>1. ASSUME NEW e \in Executors, Claim(e) PROVE SeenStands'
  <2>1. /\ attempt[exec[e].on] = "none"
        /\ attempt' = [attempt EXCEPT ![exec[e].on] = "leased"]
        /\ UNCHANGED <<seen, effect>>
    BY <1>1 DEF Claim, Unclaimed, history, outside
  <2> QED BY <1>0, <2>1 DEF SeenStands, TypeOK
<1>2. ASSUME NEW e \in Executors, NEW reply \in {"ok", "lost", "error"},
             CallProvider(e, reply)
      PROVE  SeenStands'
  <2>1. UNCHANGED <<attempt, seen>>
    BY <1>2 DEF CallProvider, row
  <2>2. /\ attempt[exec[e].on] = "leased"
        /\ \A b \in Approvals \ {exec[e].on} : effect'[b] = effect[b]
    BY <1>2, CallInLease
  <2> QED BY <2>1, <2>2 DEF SeenStands
<1>3. ASSUME NEW a \in Approvals, LeaseEnds(a) PROVE SeenStands'
  BY <1>0, <1>3 DEF LeaseEnds, history, outside, SeenStands, TypeOK
<1>4. ASSUME NEW o \in Observers, NEW a \in Approvals, Observe(o, a) PROVE SeenStands'
  <2>1. /\ UNCHANGED <<attempt, effect>>
        /\ seen' = [seen EXCEPT ![o] = [on |-> a, when |-> attempt[a], effect |-> effect[a]]]
    BY <1>4 DEF Observe, row, history, outside
  <2> QED BY <1>0, <2>1 DEF SeenStands, TypeOK
<1>5. ASSUME \/ \E e \in Executors :
                  \/ \E b \in Approvals, dryRun \in BOOLEAN : ReadApproved(e, b, dryRun)
                  \/ WritePreview(e) \/ ClaimLost(e) \/ Abort(e) \/ Finalize(e) \/ Audit(e)
                  \/ ReadBack(e) \/ FinalizeFailed(e) \/ Crash(e)
             \/ \E o \in Observers, key \in Keys, outcome \in Outcomes :
                  RecordReconciliation(o, key, outcome)
             \/ \E a \in Approvals : Deciding(a)
             \/ Projecting
             \/ UNCHANGED vars
      PROVE  SeenStands'
  <2>1. UNCHANGED <<attempt, seen, effect>>
    BY <1>0, <1>5, ReadingOnly, DecisionRows
       DEF ReadApproved, WritePreview, ClaimLost, Abort, Finalize, Audit, ReadBack, FinalizeFailed,
           Crash, RecordReconciliation, vars, row, history, outside
  <2> QED BY <2>1 DEF SeenStands
<1> QED BY <1>1, <1>2, <1>3, <1>4, <1>5, StepIs DEF Running, Reviewing

\* A claim whose lease is over was called for the last time.
LEMMA EffectSettled ==
  ASSUME TypeInv, QuietInv, [Next]_vars, NEW a \in Approvals, attempt[a] # "leased"
  PROVE  effect'[a] = effect[a]
<1>1. ASSUME NEW e \in Executors, NEW reply \in {"ok", "lost", "error"},
             CallProvider(e, reply)
      PROVE  effect'[a] = effect[a]
  BY <1>1, CallInLease
<1>2. CASE Projecting \/ \E b \in Approvals : Deciding(b)
  BY <1>2, ReadingOnly, DecisionRows DEF TypeInv
<1>3. CASE \/ \E e \in Executors :
                \/ \E b \in Approvals, dryRun \in BOOLEAN : ReadApproved(e, b, dryRun)
                \/ WritePreview(e) \/ Claim(e) \/ ClaimLost(e) \/ Abort(e) \/ Finalize(e)
                \/ Audit(e) \/ ReadBack(e) \/ FinalizeFailed(e) \/ Crash(e)
           \/ \E b \in Approvals : LeaseEnds(b)
           \/ \E o \in Observers : \/ \E b \in Approvals : Observe(o, b)
                                    \/ \E key \in Keys, outcome \in Outcomes :
                                         RecordReconciliation(o, key, outcome)
           \/ UNCHANGED vars
  <2>1. effect' = effect
    BY <1>3
       DEF ReadApproved, WritePreview, Claim, ClaimLost, Abort, Finalize, Audit, ReadBack,
           FinalizeFailed, Crash, LeaseEnds, Observe, RecordReconciliation, vars, history, outside
  <2> QED BY <2>1
<1> QED
  BY <1>1, <1>2, <1>3, StepIs DEF Running, Reviewing

LEMMA ReceiptTrueStep ==
  TypeInv /\ SafeInv /\ QuietInv /\ EvidenceInv /\ [Next]_vars => UnknownReceiptIsTrue'
<1> SUFFICES ASSUME TypeInv, SafeInv, QuietInv, EvidenceInv, [Next]_vars,
                    NEW a \in Approvals, NEW r \in receipts'[a], status'[a] = "approved",
                    r.outcome = "no_external_effect_observed", r.by \notin MistakenHumans
             PROVE  ~effect'[a]
  BY DEF UnknownReceiptIsTrue
<1>1. CASE r \in receipts[a]
  <2>1. Concluded(a)
    BY <1>1 DEF Concluded, IsTerminal, Conclusive, OutcomesOf
  <2>2. status[a] = "approved" /\ attempt[a] = "expired"
    BY <2>1, FrozenStep DEF QuietInv, ConcludedRow
  <2> QED BY <1>1, <2>2, EffectSettled DEF EvidenceInv, UnknownReceiptIsTrue
<1>2. CASE r \notin receipts[a]
  <2>1. PICK o \in Observers, key \in Keys, outcome \in Outcomes :
          /\ RecordReconciliation(o, key, outcome)
          /\ seen[o].on = a
          /\ receipts'[a] = receipts[a] \union {[key |-> key, outcome |-> outcome, by |-> o]}
    BY <1>2, NewReceipt
  <2>2. outcome = "no_external_effect_observed" /\ o \notin MistakenHumans
    BY <1>2, <2>1
  <2>3. /\ outcome \in {Conclusion(o), "still_unknown"}
        /\ EvidenceTimely(o, a)
        /\ UNCHANGED <<status, effect>>
    BY <2>1, <2>2 DEF RecordReconciliation, MayReconcile, row, history, outside
  <2>4. seen[o].when = "expired" /\ ~seen[o].effect
    BY <2>2, <2>3 DEF EvidenceTimely, Conclusion
  <2> QED BY <2>1, <2>3, <2>4 DEF EvidenceInv, SeenStands
<1> QED BY <1>1, <1>2

\* A member who reports what was seen never wrongly closes a claim that did not
\* come back: what may be reported was seen when no call could follow any more.
THEOREM UnknownReceiptIsTrueAlways ==
  ASSUME ~SlowProviders PROVE Spec => []UnknownReceiptIsTrue
<1>1. Init => EvidenceInv
  BY DEF Init, EvidenceInv, SeenStands, UnknownReceiptIsTrue, NothingSeen, OutcomesOf
<1>2. TypeInv /\ SafeInv /\ QuietInv /\ EvidenceInv /\ [Next]_vars => EvidenceInv'
  BY SeenStep, ReceiptTrueStep DEF EvidenceInv
<1>3. EvidenceInv => UnknownReceiptIsTrue
  BY DEF EvidenceInv
<1> QED BY <1>1, <1>2, <1>3, QuietInvariant, PTL DEF Spec

-----------------------------------------------------------------------------
(* Outcomes are kept. When the read after a commit fails too, executed work is *)
(* marked failed; the request that does so saves the result it had committed,  *)
(* and nobody else writes a row whose outcome is known.                        *)

LEMMA SameResultStep ==
  ASSUME TypeInv, SafeInv, KnownInv, SameResult, [Next]_vars PROVE SameResult'
<1> USE DEF Live
<1>0. TypeOK
  BY DEF TypeInv
<1>1. ASSUME NEW a \in Approvals, Deciding(a) PROVE SameResult'
  <2>1. /\ \A b \in Approvals : attempt[b] # "none" => status'[b] = status[b]
        /\ UNCHANGED <<result, exec>>
    BY <1>0, <1>1, DecisionRows DEF SafeInv, ClaimStatus
  <2>2. \A e \in Executors : exec[e].pc \in Live => status'[exec[e].on] = status[exec[e].on]
    BY <2>1 DEF SafeInv, LiveClaimed, TypeInv, BusyOnApproval
  <2> QED BY <2>1, <2>2 DEF SameResult
\* Rows as they are; at most one executor moves, with what it holds or on a row
\* that is still approved.
<1>2. ASSUME NEW e \in Executors, UNCHANGED <<status, result>>,
             \A f \in Executors \ {e} : exec'[f] = exec[f],
             exec'[e].pc \in Live => exec[e].pc \in Live /\ exec'[e].on = exec[e].on,
             exec'[e].pc \in Live /\ status[exec[e].on] # "approved"
               => exec'[e].result = exec[e].result
      PROVE  SameResult'
  BY <1>2 DEF SameResult
<1>3. ASSUME NEW e \in Executors, NEW b \in Approvals, NEW dryRun \in BOOLEAN,
             ReadApproved(e, b, dryRun)
      PROVE  SameResult'
  <2>1. UNCHANGED <<status, result>>
    BY <1>3 DEF ReadApproved, row
  <2> QED BY <1>0, <1>2, <1>3, <2>1, ReadMoves
<1>4. ASSUME NEW e \in Executors, ClaimLost(e) \/ Crash(e) PROVE SameResult'
  <2>1. UNCHANGED <<status, result>> /\ Return(e)
    BY <1>4 DEF ClaimLost, Crash, row
  <2> QED BY <1>0, <1>2, <2>1, ReturnMoves DEF Idle
<1>5. ASSUME NEW e \in Executors, WritePreview(e) PROVE SameResult'
  <2> DEFINE a == exec[e].on
  <2>1. /\ UNCHANGED status /\ Return(e)
        /\ \/ UNCHANGED result
           \/ attempt[a] = "none" /\ result' = [result EXCEPT ![a] = "none"]
    BY <1>5 DEF WritePreview, Unclaimed
  <2>2. \A f \in Executors : exec'[f].pc \in Live => f # e /\ exec'[f] = exec[f]
    BY <1>0, <2>1, ReturnMoves DEF Idle
  <2>3. CASE UNCHANGED result
    BY <2>1, <2>2, <2>3 DEF SameResult
  <2>4. CASE attempt[a] = "none" /\ result' = [result EXCEPT ![a] = "none"]
    <3>1. \A f \in Executors : exec[f].pc \in Live => exec[f].on \in Approvals \ {a}
      BY <2>4 DEF SafeInv, LiveClaimed, TypeInv, BusyOnApproval
    <3> QED BY <1>0, <2>1, <2>2, <2>4, <3>1 DEF SameResult, TypeOK
  <2> QED BY <2>1, <2>3, <2>4
<1>6. ASSUME NEW e \in Executors, Claim(e) PROVE SameResult'
  <2>1. UNCHANGED <<status, result>> /\ status[exec[e].on] = "approved"
    BY <1>6 DEF Claim, Unclaimed
  <2>2. Moves(e, "calling")
    BY <1>0, <1>6, ClaimMoves
  <2> QED BY <2>1, <2>2 DEF Moves, SameResult
<1>7. ASSUME NEW e \in Executors, NEW reply \in {"ok", "lost", "error"},
             CallProvider(e, reply)
      PROVE  SameResult'
  <2>1. exec[e].pc = "calling" /\ UNCHANGED <<status, result>>
    BY <1>7, CallIssued
  <2>2. status[exec[e].on] = "approved"
    BY <2>1 DEF KnownInv, CallingApproved
  <2> QED BY <1>0, <1>2, <1>7, <2>1, <2>2, CallMoves DEF Moves
<1>8. ASSUME NEW e \in Executors, Abort(e) PROVE SameResult'
  <2>1. exec[e].pc = "calling" /\ UNCHANGED <<status, result>>
    BY <1>8 DEF Abort, row
  <2>2. status[exec[e].on] = "approved"
    BY <2>1 DEF KnownInv, CallingApproved
  <2> QED BY <1>0, <1>2, <1>8, <2>1, <2>2, AbortMoves DEF Moves
<1>9. ASSUME NEW e \in Executors, Audit(e) \/ ReadBack(e) PROVE SameResult'
  <2>1. /\ UNCHANGED <<status, result>>
        /\ exec[e].pc \in Live
        /\ Return(e) \/ Goto(e, "catch") \/ Goto(e, "fail")
    BY <1>9 DEF Audit, ReadBack, row
  <2>2. CASE Return(e)
    BY <1>0, <1>2, <2>1, <2>2, ReturnMoves DEF Idle
  <2>3. ASSUME NEW pc \in {"catch", "fail"}, Goto(e, pc) PROVE SameResult'
    BY <1>0, <1>2, <2>1, <2>3, GotoMoves DEF Moves
  <2> QED BY <2>1, <2>2, <2>3
<1>10. ASSUME NEW e \in Executors, Finalize(e) \/ FinalizeFailed(e) PROVE SameResult'
  <2> DEFINE a == exec[e].on
  <2>1. /\ a \in Approvals /\ exec[e].pc \in Live
        /\ \E s \in {"executed", "failed"} : status' = [status EXCEPT ![a] = s]
        /\ result' = [result EXCEPT ![a] = exec[e].result]
    BY <1>10 DEF Finalize, FinalizeFailed, Called, Ending, SavedOnFailure, TypeInv, BusyOnApproval
  <2>2. Goto(e, "audit") \/ Return(e)
    BY <1>10 DEF Finalize, FinalizeFailed
  <2>3. /\ \A f \in Executors \ {e} : exec'[f] = exec[f]
        /\ \/ exec'[e] = Idle
           \/ exec'[e].pc = "audit" /\ exec'[e].on = a /\ exec'[e].result = exec[e].result
    BY <1>0, <2>2, GotoMoves, ReturnMoves DEF Moves
  <2>4. \A f \in Executors \ {e} : exec[f].pc \in Live => exec[f].on # a
    BY <2>1 DEF SafeInv, OneLive
  <2> QED BY <1>0, <2>1, <2>3, <2>4 DEF SameResult, TypeOK, Idle
<1>11. ASSUME \/ \E a \in Approvals : LeaseEnds(a)
              \/ \E o \in Observers : Reviewing(o)
              \/ Projecting \/ UNCHANGED vars
       PROVE SameResult'
  <2>1. UNCHANGED <<status, result, exec>>
    BY <1>11, ReadingOnly DEF Reviewing, LeaseEnds, Observe, RecordReconciliation, vars, row
  <2> QED BY <2>1 DEF SameResult
<1> QED
  BY <1>1, <1>3, <1>4, <1>5, <1>6, <1>7, <1>8, <1>9, <1>10, <1>11, StepIs DEF Running, Reviewing

\* What one step may make of a row.
LEMMA RowStep ==
  ASSUME TypeInv, SafeInv, KnownInv, SameResult, NEW a \in Approvals, [Next]_vars
  PROVE  /\ status[a] \in {"rejected", "failed"} => status'[a] = status[a]
         /\ status[a] = "approved" => status'[a] \in {"approved", "executed", "failed"}
         /\ status[a] = "executed" => status'[a] \in {"executed", "failed"}
         /\ status[a] \in {"executed", "failed"} => /\ attempt'[a] # "none"
                                                    /\ result'[a] = result[a]
                                                    /\ done'[a] = done[a]
         /\ status'[a] = "executed" => status[a] = "executed" \/ done'[a]
         /\ done'[a] => done[a] \/ status'[a] = "executed"
         /\ status[a] # "absent" => status'[a] # "absent"
         /\ status[a] = "absent" /\ status'[a] # "absent" => \E b \in Approvals : Create(b)
<1> DEFINE Goes ==
      /\ status[a] \in {"rejected", "failed"} => status'[a] = status[a]
      /\ status[a] = "approved" => status'[a] \in {"approved", "executed", "failed"}
      /\ status[a] = "executed" => status'[a] \in {"executed", "failed"}
      /\ status[a] \in {"executed", "failed"} => /\ attempt'[a] # "none"
                                                 /\ result'[a] = result[a]
                                                 /\ done'[a] = done[a]
      /\ status'[a] = "executed" => status[a] = "executed" \/ done'[a]
      /\ done'[a] => done[a] \/ status'[a] = "executed"
      /\ status[a] # "absent" => status'[a] # "absent"
      /\ status[a] = "absent" /\ status'[a] # "absent" => \E b \in Approvals : Create(b)
<1> USE DEF Live
<1>0. TypeOK /\ (status[a] \in {"executed", "failed"} => attempt[a] # "none")
  BY DEF TypeInv, SafeInv, ClaimStatus
<1>1. ASSUME NEW b \in Approvals, Deciding(b) PROVE Goes
  BY <1>0, <1>1, DecisionRows
<1>2. ASSUME NEW e \in Executors, Claim(e) \/ WritePreview(e) PROVE Goes
  <2> DEFINE b == exec[e].on
  <2>1. CASE Claim(e)
    <3>1. /\ UNCHANGED <<status, result, done>>
          /\ attempt' = [attempt EXCEPT ![b] = "leased"]
      BY <2>1 DEF Claim, history
    <3> QED BY <1>0, <3>1 DEF TypeOK
  <2>2. CASE WritePreview(e)
    <3>1. /\ UNCHANGED <<status, attempt, done>>
          /\ \/ UNCHANGED result
             \/ status[b] = "approved" /\ result' = [result EXCEPT ![b] = "none"]
      BY <2>2 DEF WritePreview, Unclaimed, history
    <3> QED BY <1>0, <3>1 DEF TypeOK
  <2> QED BY <1>2, <2>1, <2>2
<1>3. ASSUME NEW e \in Executors, Finalize(e) PROVE Goes
  <2> DEFINE b == exec[e].on
  <2>1. /\ b \in Approvals /\ status[b] = "approved" /\ exec[e].bad \in BOOLEAN
        /\ status' = [status EXCEPT ![b] = IF exec[e].bad THEN "failed" ELSE "executed"]
        /\ result' = [result EXCEPT ![b] = exec[e].result]
        /\ UNCHANGED attempt
    BY <1>0, <1>3
       DEF Finalize, Called, Ending, KnownInv, CallingApproved, TypeInv, BusyOnApproval, TypeOK,
           ExecutorStates
  <2>2. done' = [done EXCEPT ![b] = ~exec[e].bad]
    BY <1>3, Zenon DEF Finalize
  <2>3. CASE b = a
    <3>1. done'[a] <=> ~exec[e].bad
      BY <1>0, <2>1, <2>2, <2>3, Zenon DEF TypeOK
    <3> QED BY <1>0, <2>1, <2>3, <3>1 DEF TypeOK
  <2>4. CASE b # a
    BY <1>0, <2>1, <2>2, <2>4 DEF TypeOK
  <2> QED BY <2>3, <2>4
<1>4. ASSUME NEW e \in Executors, FinalizeFailed(e) PROVE Goes
  <2> DEFINE b == exec[e].on
  <2>1. /\ b \in Approvals /\ exec[e].pc \in Live
        /\ status' = [status EXCEPT ![b] = "failed"]
        /\ result' = [result EXCEPT ![b] = exec[e].result]
        /\ UNCHANGED <<attempt, done>>
    BY <1>4 DEF FinalizeFailed, SavedOnFailure, TypeInv, BusyOnApproval, history
  <2>2. attempt[b] # "none" /\ (status[b] # "approved" => result[b] = exec[e].result)
    BY <2>1 DEF SafeInv, LiveClaimed, SameResult
  <2>3. status[b] \in {"approved", "executed", "failed"}
    BY <2>1, <2>2 DEF SafeInv, ClaimStatus
  <2> QED BY <1>0, <2>1, <2>2, <2>3 DEF TypeOK
<1>5. ASSUME NEW b \in Approvals, LeaseEnds(b) PROVE Goes
  BY <1>0, <1>5 DEF LeaseEnds, history, TypeOK
<1>6. ASSUME \/ \E e \in Executors :
                  \/ \E b \in Approvals, dryRun \in BOOLEAN : ReadApproved(e, b, dryRun)
                  \/ \E reply \in {"ok", "lost", "error"} : CallProvider(e, reply)
                  \/ ClaimLost(e) \/ Abort(e) \/ Audit(e) \/ ReadBack(e) \/ Crash(e)
             \/ \E o \in Observers : \/ \E b \in Approvals : Observe(o, b)
                                      \/ \E key \in Keys, outcome \in Outcomes :
                                           RecordReconciliation(o, key, outcome)
             \/ Projecting
             \/ UNCHANGED vars
      PROVE  Goes
  <2>1. UNCHANGED <<status, attempt, result, done>>
    BY <1>6, ReadingOnly
       DEF ReadApproved, CallProvider, ClaimLost, Abort, Audit, ReadBack, Crash, Observe,
           RecordReconciliation, vars, row, history
  <2> QED BY <1>0, <2>1
<1> QED
  BY <1>1, <1>2, <1>3, <1>4, <1>5, <1>6, StepIs DEF Running, Reviewing

LEMMA KeptInvariant == Spec => [](TypeInv /\ SafeInv /\ KnownInv /\ SameResult)
<1>1. Init => SameResult
  BY DEF Init, SameResult, Idle, Live
<1>2. TypeInv /\ SafeInv /\ KnownInv /\ SameResult /\ [Next]_vars => SameResult'
  BY SameResultStep
<1> QED BY <1>1, <1>2, SafeInvariant, KnownInit, KnownStep, PTL DEF Spec

\* A decision and a failure stand; executed work is at most marked failed, by the very
\* request that executed it, and keeps its claim and what the provider said.
THEOREM OutcomeIsKeptAlways == Spec => OutcomeIsKept
<1>1. TypeInv /\ SafeInv /\ KnownInv /\ SameResult /\ [Next]_vars =>
        [\A a \in Approvals :
           /\ status[a] \in {"rejected", "failed"} => status'[a] = status[a]
           /\ status[a] = "approved" => status'[a] \in {"approved", "executed", "failed"}
           /\ status[a] = "executed" => /\ status'[a] \in {"executed", "failed"}
                                        /\ attempt'[a] # "none"
                                        /\ result'[a] = result[a]]_vars
  BY RowStep
<1> QED BY <1>1, KeptInvariant, PTL DEF Spec, OutcomeIsKept

-----------------------------------------------------------------------------
(* The recommendation is written from rows read earlier, which other requests  *)
(* may have changed since. What makes a completed one true nevertheless is that *)
(* a row which was read executed stays done, with its result: the projection    *)
(* can be late, but it is never wrong about work that succeeded.                *)

\* Only real, executed work completes a recommendation.
LEMMA CompletedVerdict ==
  ASSUME NEW rows, NEW v \in Verdicts(rows), v.outcome = "completed"
  PROVE  \A a \in DOMAIN rows : rows[a].status = "executed" /\ ~rows[a].simulated
<1> DEFINE linked == DOMAIN rows
           External == {a \in linked : "external_effect_observed" \in rows[a].outcomes}
           Open == {a \in linked : Unresolved(rows[a])}
           NoEffect == {a \in linked : "no_external_effect_observed" \in rows[a].outcomes}
           Refused == {a \in linked : rows[a].status \in {"rejected", "expired"}}
           Executed == {a \in linked : rows[a].status = "executed"}
           Mocked == {a \in Executed : rows[a].simulated}
<1>1. External = {} /\ Open = {} /\ NoEffect = {} /\ Refused = {}
  BY DEF Verdicts, Verdict
<1>2. Executed = linked /\ Mocked = {}
  BY <1>1 DEF Verdicts, Verdict
<1> QED BY <1>2

\* The execution of a was committed as a success, and for real.
Real(a) == done[a] /\ ~Simulated(a, result[a])

\* An executed row was done; a done row is executed, or marked failed.
DoneStatus == \A a \in Approvals :
  /\ status[a] = "executed" => done[a]
  /\ done[a] => status[a] \in {"executed", "failed"}

\* The approvals of a recommendation are created together.
Together == \A a, b \in Approvals :
  RecOf[a] # NoRecommendation /\ RecOf[b] = RecOf[a] /\ status[a] # "absent"
  => status[b] # "absent"

\* What a projection has read: all the linked rows, and no success that is not one.
ReadTruly(k, a) ==
  /\ txn[k, a].step # "none" => RecOf[a] # NoRecommendation
  /\ txn[k, a].step = "all" =>
       /\ DOMAIN txn[k, a].rows = Linked(a)
       /\ \A b \in Linked(a) : txn[k, a].rows[b].status = "executed" =>
            done[b] /\ txn[k, a].rows[b].simulated = Simulated(b, result[b])

AllReadTruly == \A k \in {"row", "receipt"}, a \in Approvals : ReadTruly(k, a)

DoneInv == DoneStatus /\ Together /\ AllReadTruly /\ CompletedMeansExecuted

LEMMA RealStays ==
  ASSUME TypeInv, SafeInv, KnownInv, SameResult, DoneStatus, NEW a \in Approvals, done[a],
         [Next]_vars
  PROVE  done'[a] /\ result'[a] = result[a]
<1>1. status[a] \in {"executed", "failed"}
  BY DEF DoneStatus
<1> QED BY <1>1, RowStep

LEMMA ReadingStands ==
  ASSUME AllReadTruly, \A b \in Approvals : done[b] => done'[b] /\ result'[b] = result[b],
         NEW k \in {"row", "receipt"}, NEW a \in Approvals,
         txn'[k, a] = txn[k, a] \/ txn'[k, a] = NoReading
  PROVE  ReadTruly(k, a)'
<1>1. ReadTruly(k, a)
  BY DEF AllReadTruly
<1>2. CASE txn'[k, a] = txn[k, a]
  <2>1. ASSUME txn[k, a].step = "all", NEW b \in Linked(a), txn[k, a].rows[b].status = "executed"
        PROVE  done'[b] /\ txn[k, a].rows[b].simulated = Simulated(b, result'[b])
    <3>1. b \in Approvals /\ done[b] /\ txn[k, a].rows[b].simulated = Simulated(b, result[b])
      BY <1>1, <2>1 DEF ReadTruly, Linked
    <3> QED BY <3>1
  <2> QED BY <1>1, <1>2, <2>1 DEF ReadTruly, Linked, Simulated
<1>3. CASE txn'[k, a] = NoReading
  <2>1. txn'[k, a].step = "none"
    BY <1>3, EmptyReading
  <2> QED BY <2>1 DEF ReadTruly
<1> QED BY <1>2, <1>3

LEMMA RowRead ==
  ASSUME TypeOK, AllReadTruly, NEW k \in {"row", "receipt"}, NEW a \in Approvals,
         txn[k, a].step = "all"
  PROVE  txn[k, a].rows[a] \in RowViews
<1>1. DOMAIN txn[k, a].rows = Linked(a) /\ a \in Linked(a)
  BY DEF AllReadTruly, ReadTruly, Linked
<1>2. txn[k, a] \in Readings
  BY DEF TypeOK, Transactions
<1>3. txn[k, a].rows \in UNION {[linked -> RowViews] : linked \in SUBSET Approvals}
  <2> HIDE DEF RowViews
  <2> QED BY <1>2 DEF Readings
<1> HIDE DEF RowViews
<1> QED BY <1>1, <1>3

LEMMA OwnChange ==
  ASSUME TypeOK, AllReadTruly, NEW a \in Approvals, txn["row", a].step = "all", NEW s, NEW res
  PROVE  Changed(a, s, res).status = s /\ Changed(a, s, res).simulated = Simulated(a, res)
<1> DEFINE x == txn["row", a].rows[a]
           m == Simulated(a, res)
<1>1. x \in RowViews
  BY RowRead
<1>2. Changed(a, s, res) = [x EXCEPT !.status = s, !.simulated = m]
  BY DEF Changed
<1> HIDE DEF x, m
<1>3. /\ [x EXCEPT !.status = s, !.simulated = m].status = s
      /\ [x EXCEPT !.status = s, !.simulated = m].simulated = m
  BY <1>1 DEF RowViews
<1> QED BY <1>2, <1>3 DEF m

\* A projection that commits says "completed" only of what is done, its own row too.
LEMMA ReconciledTrue ==
  ASSUME TypeOK, DoneInv, NEW k \in {"row", "receipt"}, NEW a \in Approvals, NEW changed,
         ReconcileRecommendation(k, a, changed),
         \A b \in Approvals : done[b] => done'[b] /\ result'[b] = result[b],
         txn[k, a].step = "all" /\ changed.status = "executed" =>
           done'[a] /\ changed.simulated = Simulated(a, result'[a])
  PROVE  CompletedMeansExecuted' /\ AllReadTruly'
<1>1. <<k, a>> \in Transactions /\ txn \in [Transactions -> Readings]
  BY DEF Transactions, TypeOK
<1>2. \A b \in Approvals : Real(b) => done'[b] /\ ~Simulated(b, result'[b])
  BY DEF Real
<1>3. AllReadTruly'
  <2>1. ASSUME NEW m \in {"row", "receipt"}, NEW b \in Approvals PROVE ReadTruly(m, b)'
    <3>1. txn'[m, b] = txn[m, b] \/ txn'[m, b] = NoReading
      <4>1. <<m, b>> \in Transactions
        BY DEF Transactions
      <4>2. txn' = txn \/ txn' = [txn EXCEPT ![<<k, a>>] = NoReading]
        BY DEF ReconcileRecommendation, projection
      <4> QED BY <1>1, <4>1, <4>2
    <3> QED BY <3>1, ReadingStands DEF DoneInv
  <2> QED BY <2>1 DEF AllReadTruly
<1>4. ASSUME NEW b \in Approvals, RecOf[b] # NoRecommendation,
             recommendation'[RecOf[b]].outcome = "completed"
      PROVE  done'[b] /\ ~Simulated(b, result'[b])
  <2>0. RecOf[b] \in Recommendations
    BY <1>4, ConstantTypes
  <2>1. CASE recommendation'[RecOf[b]] = recommendation[RecOf[b]]
    BY <1>2, <1>4, <2>1 DEF DoneInv, CompletedMeansExecuted, Real
  <2>2. CASE recommendation'[RecOf[b]] # recommendation[RecOf[b]]
    <3> DEFINE f == [txn[k, a].rows EXCEPT ![a] = changed]
    <3>1. RecOf[a] # NoRecommendation
      BY <2>2 DEF ReconcileRecommendation, projection
    <3>2. txn[k, a].step = "all"
      BY <3>1 DEF ReconcileRecommendation
    <3>3. PICK v \in Projected(recommendation[RecOf[a]], txn[k, a], a, changed) :
            recommendation' = [recommendation EXCEPT ![RecOf[a]] = v]
      BY <3>1 DEF ReconcileRecommendation
    <3>4. RecOf[b] = RecOf[a] /\ v # recommendation[RecOf[a]] /\ v.outcome = "completed"
      BY <1>4, <2>0, <2>2, <3>3 DEF TypeOK
    <3>5. v \in Verdicts(f)
      BY <3>3, <3>4 DEF Projected
    <3>6. /\ DOMAIN txn[k, a].rows = Linked(a)
          /\ \A c \in Linked(a) : txn[k, a].rows[c].status = "executed" =>
               done[c] /\ txn[k, a].rows[c].simulated = Simulated(c, result[c])
      BY <3>2 DEF DoneInv, AllReadTruly, ReadTruly
    <3>7. b \in Linked(a) /\ DOMAIN f = Linked(a)
      BY <3>4, <3>6 DEF Linked
    <3>8. f[b].status = "executed" /\ ~f[b].simulated
      <4> HIDE DEF f
      <4> QED BY <3>4, <3>5, <3>7, CompletedVerdict
    <3>9. CASE b = a
      BY <3>2, <3>6, <3>7, <3>8, <3>9
    <3>10. CASE b # a
      <4>1. f[b] = txn[k, a].rows[b]
        BY <3>6, <3>7, <3>10
      <4>2. done[b] /\ ~Simulated(b, result[b])
        BY <3>6, <3>7, <3>8, <4>1
      <4> QED BY <1>2, <4>2 DEF Real
    <3> QED BY <3>9, <3>10
  <2> QED BY <2>1, <2>2
<1> QED BY <1>3, <1>4 DEF CompletedMeansExecuted, Simulated

\* A row is read with all its siblings, as they are.
LEMMA ViewsTrue ==
  ASSUME DoneInv, NEW a \in Approvals, RecOf[a] # NoRecommendation, status[a] # "absent"
  PROVE  /\ DOMAIN LinkedViews(a) = Linked(a)
         /\ \A b \in Linked(a) : LinkedViews(a)[b].status = "executed" =>
              done[b] /\ LinkedViews(a)[b].simulated = Simulated(b, result[b])
<1> DEFINE S == {c \in Linked(a) : status[c] # "absent"}
<1>1. S = Linked(a)
  BY DEF Linked, DoneInv, Together
<1>2. LinkedViews(a) = [b \in Linked(a) |-> ViewOf(b)]
  BY <1>1 DEF LinkedViews
<1>3. ASSUME NEW b \in Linked(a), ViewOf(b).status = "executed"
      PROVE  done[b] /\ ViewOf(b).simulated = Simulated(b, result[b])
  <2> DEFINE simulated == Simulated(b, result[b])
             outcomes == OutcomesOf(receipts[b])
             x == [status |-> status[b], attempt |-> attempt[b], outcomes |-> outcomes,
                   simulated |-> simulated]
  <2>1. ViewOf(b) = x
    BY DEF ViewOf
  <2>2. x.status = status[b] /\ x.simulated = simulated
    <3> HIDE DEF simulated, outcomes
    <3> QED OBVIOUS
  <2>3. status[b] = "executed" /\ b \in Approvals
    BY <1>3, <2>1, <2>2 DEF Linked
  <2> QED BY <2>1, <2>2, <2>3 DEF DoneInv, DoneStatus
<1> QED BY <1>2, <1>3

LEMMA DoneStep ==
  ASSUME TypeInv, SafeInv, KnownInv, SameResult, DoneInv, [Next]_vars PROVE DoneInv'
<1> USE DEF Live
<1>0. TypeOK /\ TypeOK'
  BY TypeStep DEF TypeInv
<1>1. \A b \in Approvals : done[b] => done'[b] /\ result'[b] = result[b]
  BY RealStays DEF DoneInv
<1>2. DoneStatus'
  BY RowStep DEF DoneInv, DoneStatus
<1>3. Together'
  <2>1. ASSUME NEW c \in Approvals, Create(c) PROVE Together'
    <3> DEFINE prepared == IF RecOf[c] = NoRecommendation THEN {c} ELSE Linked(c)
    <3>1. PICK s \in {"pending", "proposed"} :
            status' = [b \in Approvals |-> IF b \in prepared THEN s ELSE status[b]]
      BY <2>1 DEF Create
    <3> QED BY <3>1 DEF DoneInv, Together, Linked
  <2>2. CASE ~\E c \in Approvals : Create(c)
    <3>1. \A b \in Approvals : status[b] = "absent" <=> status'[b] = "absent"
      BY <2>2, RowStep
    <3> QED BY <3>1 DEF DoneInv, Together
  <2> QED BY <2>1, <2>2
<1>a. \A m \in {"row", "receipt"}, b \in Approvals : <<m, b>> \in Transactions
  BY DEF Transactions
<1>4. ASSUME UNCHANGED recommendation,
             \A m \in {"row", "receipt"}, b \in Approvals :
               txn'[m, b] = txn[m, b] \/ txn'[m, b] = NoReading
      PROVE  CompletedMeansExecuted' /\ AllReadTruly'
  <2>1. AllReadTruly'
    BY <1>1, <1>4, ReadingStands DEF DoneInv, AllReadTruly
  <2> QED BY <1>1, <1>4, <2>1 DEF DoneInv, CompletedMeansExecuted, Simulated
\* A new reading x of the transaction of a.
<1>5. ASSUME NEW k \in {"row", "receipt"}, NEW a \in Approvals, NEW x,
             UNCHANGED recommendation, txn' = [txn EXCEPT ![<<k, a>>] = x],
             RecOf[a] # NoRecommendation,
             x.step = "rec" \/ (x.rows = LinkedViews(a) /\ status[a] # "absent")
      PROVE  CompletedMeansExecuted' /\ AllReadTruly'
  <2>1. txn'[k, a] = x
    BY <1>0, <1>5, <1>a DEF TypeOK
  <2>2. \A m \in {"row", "receipt"}, b \in Approvals :
          <<m, b>> # <<k, a>> => txn'[m, b] = txn[m, b]
    BY <1>0, <1>5, <1>a DEF TypeOK
  <2>3. ReadTruly(k, a)'
    <3>1. CASE x.step = "rec"
      BY <1>5, <2>1, <3>1 DEF ReadTruly
    <3>2. CASE x.step # "rec"
      <4>1. /\ DOMAIN x.rows = Linked(a)
            /\ \A b \in Linked(a) : x.rows[b].status = "executed" =>
                 done[b] /\ x.rows[b].simulated = Simulated(b, result[b])
        BY <1>5, <3>2, ViewsTrue
      <4>2. \A b \in Linked(a) : x.rows[b].status = "executed" =>
                 done'[b] /\ x.rows[b].simulated = Simulated(b, result'[b])
        BY <1>1, <4>1 DEF Linked
      <4> QED BY <1>5, <2>1, <4>1, <4>2 DEF ReadTruly, Linked, Simulated
    <3> QED BY <3>1, <3>2
  <2>4. AllReadTruly'
    <3>1. ASSUME NEW m \in {"row", "receipt"}, NEW b \in Approvals PROVE ReadTruly(m, b)'
      <4>1. CASE m = k /\ b = a
        BY <2>3, <4>1
      <4>2. CASE ~(m = k /\ b = a)
        BY <1>1, <2>2, <4>2, ReadingStands DEF DoneInv
      <4> QED BY <4>1, <4>2
    <3> QED BY <3>1 DEF AllReadTruly
  <2> QED BY <1>1, <1>5, <2>4 DEF DoneInv, CompletedMeansExecuted, Simulated
<1>6. ASSUME NEW a \in Approvals, ReadForProjection(a), status[a] # "absent"
      PROVE  CompletedMeansExecuted' /\ AllReadTruly'
  <2>1. CASE ReadRecommendation(a)
    <3> DEFINE x == [NoReading EXCEPT !.step = "rec", !.rec = recommendation[RecOf[a]]]
    <3>1. x.step = "rec"
      BY DEF NoReading
    <3>2. txn' = [txn EXCEPT ![<<"row", a>>] = x] /\ RecOf[a] # NoRecommendation
          /\ UNCHANGED recommendation
      BY <2>1 DEF ReadRecommendation
    <3> HIDE DEF x
    <3> QED BY <1>5, <3>1, <3>2
  <2>2. CASE ReadLinked(a)
    <3> DEFINE f == LinkedViews(a)
               x == [txn["row", a] EXCEPT !.step = "all", !.rows = f]
    <3>1. txn["row", a] \in Readings /\ txn["row", a].step = "rec"
      BY <1>0, <1>a, <2>2 DEF TypeOK, ReadLinked
    <3>2. x.rows = f
      <4> HIDE DEF f
      <4> QED BY <3>1 DEF Readings
    <3>3. txn' = [txn EXCEPT ![<<"row", a>>] = x] /\ UNCHANGED recommendation
      BY <1>0, <1>a, <2>2 DEF TypeOK, ReadLinked
    <3>4. RecOf[a] # NoRecommendation
      BY <3>1 DEF DoneInv, AllReadTruly, ReadTruly
    <3> HIDE DEF x
    <3> QED BY <1>5, <1>6, <3>2, <3>3, <3>4
  <2> QED BY <1>6, <2>1, <2>2 DEF ReadForProjection
<1>7. ASSUME NEW o \in Observers, ReadSnapshot(o) PROVE CompletedMeansExecuted' /\ AllReadTruly'
  <2> DEFINE a == seen[o].on
             f == LinkedViews(a)
             x == [step |-> "all", rec |-> recommendation[RecOf[a]], rows |-> f]
  <2>1. /\ a \in Approvals /\ RecOf[a] # NoRecommendation /\ status[a] # "absent"
        /\ txn' = [txn EXCEPT ![<<"receipt", a>>] = x] /\ UNCHANGED recommendation
    BY <1>0, <1>7 DEF ReadSnapshot, MayReconcile, NeedsReconciliation, TypeOK
  <2>2. x.rows = f
    OBVIOUS
  <2> HIDE DEF x
  <2> QED BY <1>5, <2>1, <2>2
<1>8. ASSUME NEW k \in {"row", "receipt"}, NEW a \in Approvals, NEW changed,
             ReconcileRecommendation(k, a, changed),
             txn[k, a].step = "all" /\ changed.status = "executed" =>
               done'[a] /\ changed.simulated = Simulated(a, result'[a])
      PROVE  CompletedMeansExecuted' /\ AllReadTruly'
  BY <1>0, <1>1, <1>8, ReconciledTrue
<1>9. ASSUME NEW a \in Approvals, Deciding(a) PROVE CompletedMeansExecuted' /\ AllReadTruly'
  <2>1. CASE Create(a)
    <3>1. \A m \in {"row", "receipt"}, b \in Approvals : txn'[m, b] = txn[m, b]
      BY <2>1 DEF Create
    <3>2. AllReadTruly'
      BY <1>1, <3>1, ReadingStands DEF DoneInv, AllReadTruly
    <3>3. CASE RecOf[a] = NoRecommendation
      BY <1>4, <2>1, <3>1, <3>3 DEF Create
    <3>4. CASE RecOf[a] # NoRecommendation
      <4>1. recommendation' = [recommendation EXCEPT
                                 ![RecOf[a]] = Verdict("accepted", "approval_prepared")]
        BY <2>1, <3>4 DEF Create
      <4>2. ASSUME NEW b \in Approvals, RecOf[b] # NoRecommendation,
                   recommendation'[RecOf[b]].outcome = "completed"
            PROVE  recommendation[RecOf[b]].outcome = "completed"
        <5>1. RecOf[b] \in Recommendations /\ RecOf[a] \in Recommendations
          BY <3>4, <4>2, ConstantTypes
        <5> QED BY <1>0, <4>1, <4>2, <5>1 DEF TypeOK, Verdict
      <4> QED BY <1>1, <3>2, <4>2 DEF DoneInv, CompletedMeansExecuted, Simulated
    <3> QED BY <3>3, <3>4
  <2>2. ASSUME NEW d \in {"approved", "rejected"}, Decide(a, d)
        PROVE  CompletedMeansExecuted' /\ AllReadTruly'
    <3>1. ReconcileRecommendation("row", a, Changed(a, d, result[a]))
      BY <2>2 DEF Decide
    <3>2. txn["row", a].step = "all" => Changed(a, d, result[a]).status # "executed"
      BY <1>0, OwnChange DEF DoneInv
    <3> QED BY <1>8, <3>1, <3>2
  <2> QED BY <1>9, <2>1, <2>2 DEF Deciding
<1>10. ASSUME NEW e \in Executors, Finalize(e) PROVE CompletedMeansExecuted' /\ AllReadTruly'
  <2> DEFINE a == exec[e].on
             c == Changed(a, Ending(e), exec[e].result)
  <2>1. /\ a \in Approvals /\ exec[e].bad \in BOOLEAN
        /\ ReconcileRecommendation("row", a, c)
        /\ result' = [result EXCEPT ![a] = exec[e].result]
    BY <1>0, <1>10 DEF Finalize, Called, TypeInv, BusyOnApproval, TypeOK, ExecutorStates
  <2>2. done'[a] = ~exec[e].bad
    BY <1>0, <1>10, <2>1, Zenon DEF Finalize, TypeOK
  <2>3. txn["row", a].step = "all" => /\ c.status = Ending(e)
                                     /\ c.simulated = Simulated(a, exec[e].result)
    <3> SUFFICES ASSUME txn["row", a].step = "all"
                 PROVE  c.status = Ending(e) /\ c.simulated = Simulated(a, exec[e].result)
      OBVIOUS
    <3>1. TypeOK /\ AllReadTruly /\ a \in Approvals
      BY <1>0, <2>1 DEF DoneInv
    <3> DEFINE s == Ending(e)
               res == exec[e].result
    <3>2. c = Changed(a, s, res)
      OBVIOUS
    <3> HIDE DEF a, c, s, res
    <3>3. c.status = s /\ c.simulated = Simulated(a, res)
      BY <3>1, <3>2, OwnChange
    <3> QED BY <3>3 DEF s, res
  <2>4. result'[a] = exec[e].result
    BY <1>0, <2>1 DEF TypeOK
  <2>5. Ending(e) = "executed" => ~exec[e].bad
    BY DEF Ending
  <2> HIDE DEF c
  <2>6. txn["row", a].step = "all" /\ c.status = "executed" =>
          done'[a] /\ c.simulated = Simulated(a, result'[a])
    BY <2>1, <2>2, <2>3, <2>4, <2>5
  <2> QED BY <1>8, <2>1, <2>6
<1>11. ASSUME NEW e \in Executors, FinalizeFailed(e) PROVE CompletedMeansExecuted' /\ AllReadTruly'
  <2> DEFINE a == exec[e].on
             c == Changed(a, "failed", SavedOnFailure(e))
  <2>1. a \in Approvals /\ ReconcileRecommendation("row", a, c)
    BY <1>11 DEF FinalizeFailed, TypeInv, BusyOnApproval
  <2>2. txn["row", a].step = "all" => c.status = "failed"
    BY <1>0, <2>1, OwnChange DEF DoneInv
  <2> HIDE DEF c
  <2> QED BY <1>8, <2>1, <2>2
<1>12. ASSUME NEW o \in Observers, NEW key \in Keys, NEW outcome \in Outcomes,
              RecordReconciliation(o, key, outcome)
       PROVE  CompletedMeansExecuted' /\ AllReadTruly'
  <2> DEFINE a == seen[o].on
             x == txn["receipt", a].rows[a]
             c == [x EXCEPT !.outcomes = @ \union {outcome}]
  <2>1. /\ a \in Approvals /\ ReconcileRecommendation("receipt", a, c)
        /\ UNCHANGED <<result, done>>
    BY <1>0, <1>12 DEF RecordReconciliation, MayReconcile, row, history, TypeOK
  <2>2. ASSUME txn["receipt", a].step = "all", c.status = "executed"
        PROVE  done'[a] /\ c.simulated = Simulated(a, result'[a])
    <3>1. x \in RowViews
      BY <1>0, <2>1, <2>2, RowRead DEF DoneInv
    <3>2. c.status = x.status /\ c.simulated = x.simulated
      <4> HIDE DEF x
      <4> QED BY <3>1 DEF RowViews
    <3>3. done[a] /\ x.simulated = Simulated(a, result[a])
      BY <2>1, <2>2, <3>2 DEF DoneInv, AllReadTruly, ReadTruly, Linked
    <3> QED BY <2>1, <3>2, <3>3
  <2> HIDE DEF c
  <2> QED BY <1>8, <2>1, <2>2
<1>13. ASSUME NEW e \in Executors, Abort(e) \/ Crash(e)
       PROVE  CompletedMeansExecuted' /\ AllReadTruly'
  <2>1. UNCHANGED recommendation /\ RollBack(e)
    BY <1>13 DEF Abort, Crash
  <2>2. \A m \in {"row", "receipt"}, b \in Approvals :
          txn'[m, b] = txn[m, b] \/ txn'[m, b] = NoReading
    BY <1>a, <2>1 DEF RollBack
  <2> QED BY <1>4, <2>1, <2>2
<1>14. ASSUME \/ \E e \in Executors :
                  \/ \E b \in Approvals, dryRun \in BOOLEAN : ReadApproved(e, b, dryRun)
                  \/ \E reply \in {"ok", "lost", "error"} : CallProvider(e, reply)
                  \/ WritePreview(e) \/ Claim(e) \/ ClaimLost(e) \/ Audit(e) \/ ReadBack(e)
              \/ \E b \in Approvals : LeaseEnds(b)
              \/ \E o \in Observers, b \in Approvals : Observe(o, b)
              \/ UNCHANGED vars
       PROVE  CompletedMeansExecuted' /\ AllReadTruly'
  <2>1. UNCHANGED <<recommendation, txn>>
    BY <1>14 DEF ReadApproved, CallProvider, WritePreview, Claim, ClaimLost, Audit, ReadBack,
                 LeaseEnds, Observe, vars, projection
  <2> QED BY <1>4, <2>1
<1>15. ASSUME NEW e \in Executors, Called(e) \/ exec[e].pc = "fail",
              ReadForProjection(exec[e].on)
       PROVE  CompletedMeansExecuted' /\ AllReadTruly'
  <2>1. exec[e].on \in Approvals /\ attempt[exec[e].on] # "none"
    BY <1>15 DEF Called, TypeInv, BusyOnApproval, SafeInv, LiveClaimed
  <2>2. status[exec[e].on] # "absent"
    BY <2>1 DEF SafeInv, ClaimStatus
  <2> QED BY <1>6, <1>15, <2>1, <2>2
<1>16. ASSUME NEW a \in Approvals, Undecided(a), ReadForProjection(a)
       PROVE  CompletedMeansExecuted' /\ AllReadTruly'
  BY <1>6, <1>16 DEF Undecided
<1> HIDE DEF Live
<1>17. CompletedMeansExecuted' /\ AllReadTruly'
  BY <1>7, <1>9, <1>10, <1>11, <1>12, <1>13, <1>14, <1>15, <1>16
     DEF Next, Decision, Deciding, Approve, Reject, Execution, Review
<1> QED BY <1>2, <1>3, <1>17 DEF DoneInv

\* A recommendation is completed only when every approval prepared for it was executed
\* for real, however the requests that decide, run and reconcile them interleave: late
\* reads of a projection can keep "completed" away, never bring it about too early.
THEOREM CompletedMeansExecutedAlways == Spec => []CompletedMeansExecuted
<1>1. Init => DoneInv
  <2> SUFFICES ASSUME Init PROVE DoneInv
    OBVIOUS
  <2>1. \A k \in {"row", "receipt"}, a \in Approvals : txn[k, a].step = "none"
    BY DEF Init, Transactions, NoReading
  <2> QED BY <2>1, ConstantTypes
     DEF Init, DoneInv, DoneStatus, Together, AllReadTruly, ReadTruly, CompletedMeansExecuted, Verdict
<1>2. TypeInv /\ SafeInv /\ KnownInv /\ SameResult /\ DoneInv /\ [Next]_vars => DoneInv'
  BY DoneStep
<1>3. DoneInv => CompletedMeansExecuted
  BY DEF DoneInv
<1> QED BY <1>1, <1>2, <1>3, KeptInvariant, PTL DEF Spec

-----------------------------------------------------------------------------
(* The lifecycle implements OneShotEffect: at most one authorised attempt, and *)
(* silence after a conclusion.                                                 *)

\* One approval changes phase.
LEMMA PhaseMove ==
  ASSUME NEW a \in Approvals, NEW from, NEW to, Phase(a) \in from, Phase(a)' = to,
         \A b \in Approvals \ {a} : Phase(b)' = Phase(b), UNCHANGED made
  PROVE  OneShot!Move(a, from, to)
BY DEF OneShot!Move

\* No phase changes when neither the rows nor the receipts do.
LEMMA SamePhase ==
  UNCHANGED <<status, attempt, receipts>> => \A b \in Approvals : Phase(b)' = Phase(b)
BY DEF Phase, Concluded

\* The other approvals keep their phase when only the fields of one change.
LEMMA OtherPhases ==
  ASSUME NEW a, NEW b, status'[b] = status[b], attempt'[b] = attempt[b],
         receipts'[b] = receipts[b]
  PROVE  Phase(b)' = Phase(b)
BY DEF Phase, Concluded

LEMMA RefinementInit == Init => OneShot!Init
BY DEF Init, OneShot!Init, Phase, Concluded, IsTerminal, OutcomesOf

LEMMA RefinementStep ==
  TypeInv /\ SafeInv /\ QuietInv /\ [Next]_vars => [OneShot!Next]_OneShot!vars
<1> SUFFICES ASSUME TypeInv, SafeInv, QuietInv, [Next]_vars
             PROVE  OneShot!Next \/ UNCHANGED OneShot!vars
  OBVIOUS
<1> USE DEF Live
<1>0. TypeOK
  BY DEF TypeInv
<1>s. ASSUME UNCHANGED made, \A b \in Approvals : Phase(b)' = Phase(b)
      PROVE  UNCHANGED OneShot!vars
  BY <1>s DEF OneShot!vars
<1>1. ASSUME NEW a \in Approvals, Create(a) PROVE UNCHANGED OneShot!vars
  <2>1. /\ \A b \in Approvals : status'[b] # status[b] =>
             status[b] = "absent" /\ status'[b] \in {"pending", "proposed"}
        /\ UNCHANGED <<attempt, receipts, made>>
    BY <1>0, <1>1 DEF Create, history, outside, TypeOK
  <2>2. ASSUME NEW b \in Approvals PROVE Phase(b)' = Phase(b)
    <3>1. CASE status'[b] = status[b]
      BY <2>1, <3>1, OtherPhases
    <3>2. CASE status'[b] # status[b]
      <4>1. ~Concluded(b) /\ status[b] = "absent" /\ status'[b] \in {"pending", "proposed"}
        BY <2>1, <3>2 DEF QuietInv, ConcludedRow
      <4>2. Phase(b) = "undecided"
        BY <4>1 DEF Phase
      <4>3. ~Concluded(b)' /\ Phase(b)' = "undecided"
        BY <2>1, <4>1 DEF Phase, Concluded
      <4> QED BY <4>2, <4>3
    <3> QED BY <3>1, <3>2
  <2> QED BY <1>s, <2>1, <2>2
<1>2. ASSUME NEW a \in Approvals, NEW d \in {"approved", "rejected"}, Decide(a, d)
      PROVE  OneShot!Next
  <2>1. /\ status' = [status EXCEPT ![a] = d]
        /\ status[a] \in {"pending", "proposed"}
        /\ UNCHANGED <<attempt, receipts, made>>
    BY <1>2 DEF Decide, Undecided, history, outside
  <2>2. ~Concluded(a) /\ attempt[a] = "none"
    BY <2>1 DEF QuietInv, ConcludedRow, SafeInv, ClaimStatus
  <2>3. /\ Phase(a) = "undecided"
        /\ Phase(a)' = IF d = "approved" THEN "authorised" ELSE "refused"
    BY <1>0, <2>1, <2>2 DEF Phase, Concluded, TypeOK
  <2>4. \A b \in Approvals \ {a} : Phase(b)' = Phase(b)
    BY <1>0, <2>1, OtherPhases DEF TypeOK
  <2>5. OneShot!Authorise(a) \/ OneShot!Refuse(a)
    BY <2>1, <2>3, <2>4, PhaseMove DEF OneShot!Authorise, OneShot!Refuse
  <2> QED BY <2>5 DEF OneShot!Next
<1>3. ASSUME NEW e \in Executors, Claim(e) PROVE OneShot!Next
  <2>0. PICK a \in Approvals : a = exec[e].on
    BY <1>3 DEF Claim, TypeInv, BusyOnApproval
  <2>1. /\ status[a] = "approved" /\ attempt[a] = "none"
        /\ attempt' = [attempt EXCEPT ![a] = "leased"]
        /\ UNCHANGED <<status, receipts, made>>
    BY <1>3, <2>0 DEF Claim, Unclaimed, history, outside
  <2>2. ~Concluded(a)
    BY <2>1 DEF QuietInv, ConcludedRow
  <2>3. Phase(a) = "authorised" /\ Phase(a)' = "attempted"
    BY <1>0, <2>1, <2>2 DEF Phase, Concluded, TypeOK
  <2>4. \A b \in Approvals \ {a} : Phase(b)' = Phase(b)
    BY <1>0, <2>1, OtherPhases DEF TypeOK
  <2>5. OneShot!Start(a)
    BY <2>1, <2>3, <2>4, PhaseMove DEF OneShot!Start
  <2> QED BY <2>1, <2>5 DEF OneShot!Next
<1>4. ASSUME NEW e \in Executors, NEW reply \in {"ok", "lost", "error"},
             CallProvider(e, reply)
      PROVE  OneShot!Next
  <2>0. PICK a \in Approvals : a = exec[e].on
    BY <1>4, CallIssued
  <2>1. /\ exec[e].pc = "calling" /\ exec[e].calls < CallsOf[a]
        /\ made' = [made EXCEPT ![a] = made[a] + 1]
        /\ UNCHANGED <<status, attempt, result, receipts>>
    BY <1>4, <2>0, CallIssued
  <2>2. status[a] = "approved" /\ attempt[a] = "leased" /\ made[a] = exec[e].calls
    BY <2>0, <2>1 DEF QuietInv, PcStatus, LiveLeased, SafeInv, CallsCounted
  <2>3. ~Concluded(a)
    BY <2>1, <2>2 DEF QuietInv, ConcludedRow
  <2>4. Phase(a) = "attempted"
    BY <2>2, <2>3 DEF Phase
  <2>5. \A b \in Approvals : Phase(b)' = Phase(b)
    BY <2>1, SamePhase
  <2>6. OneShot!Call(a)
    BY <2>1, <2>2, <2>4, <2>5 DEF OneShot!Call
  <2> QED BY <2>1, <2>6 DEF OneShot!Next
<1>5. ASSUME NEW e \in Executors, Finalize(e) \/ FinalizeFailed(e)
      PROVE  OneShot!Next \/ UNCHANGED OneShot!vars
  <2>0. PICK a \in Approvals : a = exec[e].on
    BY <1>5 DEF Finalize, FinalizeFailed, Called, TypeInv, BusyOnApproval
  <2>1. /\ exec[e].pc \in Live
        /\ \E s \in {"executed", "failed"} : /\ status' = [status EXCEPT ![a] = s]
                                             /\ exec[e].pc # "calling" => s = "failed"
        /\ UNCHANGED <<attempt, receipts, made>>
    BY <1>5, <2>0 DEF Finalize, FinalizeFailed, Called, Ending, history, outside
  <2>2. \A b \in Approvals \ {a} : Phase(b)' = Phase(b)
    BY <1>0, <2>1, OtherPhases DEF TypeOK
  <2>3. attempt[a] # "none" /\ status[a] \in {"approved", "executed", "failed"}
    BY <2>0, <2>1 DEF SafeInv, LiveClaimed, ClaimStatus
  <2>4. CASE status[a] = "approved"
    <3>1. ~Concluded(a)
      BY <2>0, <2>1, <2>4 DEF QuietInv, LiveLeased, ConcludedRow
    <3>2. Phase(a) = "attempted" /\ Phase(a)' = "finished"
      BY <1>0, <2>1, <2>3, <2>4, <3>1 DEF Phase, Concluded, TypeOK
    <3>3. OneShot!Finish(a)
      BY <2>1, <2>2, <3>2, PhaseMove DEF OneShot!Finish
    <3> QED BY <2>1, <3>3 DEF OneShot!Next
  <2>5. CASE status[a] \in {"executed", "failed"}
    <3>1. Phase(a)' = Phase(a)
      BY <1>0, <2>1, <2>5 DEF Phase, Concluded, TypeOK
    <3> QED BY <1>s, <2>1, <2>2, <3>1
  <2> QED BY <2>3, <2>4, <2>5
<1>6. ASSUME NEW a \in Approvals, LeaseEnds(a) PROVE UNCHANGED OneShot!vars
  <2>1. /\ attempt[a] = "leased" /\ attempt' = [attempt EXCEPT ![a] = "expired"]
        /\ UNCHANGED <<status, receipts, made>>
    BY <1>6 DEF LeaseEnds, history, outside
  <2>2. Phase(a)' = Phase(a)
    BY <1>0, <2>1 DEF Phase, Concluded, TypeOK
  <2>3. \A b \in Approvals \ {a} : Phase(b)' = Phase(b)
    BY <1>0, <2>1, OtherPhases DEF TypeOK
  <2> QED BY <1>s, <2>1, <2>2, <2>3
<1>7. ASSUME NEW o \in Observers, NEW key \in Keys, NEW outcome \in Outcomes,
             RecordReconciliation(o, key, outcome)
      PROVE  OneShot!Next \/ UNCHANGED OneShot!vars
  <2> DEFINE new == [key |-> key, outcome |-> outcome, by |-> o]
  <2>0. PICK a \in Approvals : a = seen[o].on
    BY <1>0, <1>7 DEF RecordReconciliation, MayReconcile, TypeOK
  <2>1. /\ receipts' = [receipts EXCEPT ![a] = receipts[a] \union {new}]
        /\ UNCHANGED <<status, attempt, made>>
        /\ NeedsReconciliation(status[a], attempt[a])
        /\ NotConcluded(a)
    BY <1>7, <2>0 DEF RecordReconciliation, MayReconcile, row, history, outside
  <2>2. \A b \in Approvals \ {a} : Phase(b)' = Phase(b)
    BY <1>0, <2>1, OtherPhases DEF TypeOK
  <2>3. ~Concluded(a) /\ receipts'[a] = receipts[a] \union {new}
    BY <1>0, <2>1 DEF NotConcluded, Concluded, TypeOK
  <2>4. Phase(a) \in {"attempted", "finished"}
    BY <2>1, <2>3 DEF NeedsReconciliation, Phase
  <2>5. CASE outcome \in Conclusive
    <3>1. Concluded(a)'
      BY <2>3, <2>5 DEF Concluded, IsTerminal, OutcomesOf
    <3>2. Phase(a)' = "sealed"
      BY <3>1 DEF Phase
    <3>3. OneShot!Seal(a)
      BY <2>1, <2>2, <2>4, <3>2, PhaseMove DEF OneShot!Seal
    <3> QED BY <2>1, <3>3 DEF OneShot!Next
  <2>6. CASE outcome \notin Conclusive
    <3>1. ~Concluded(a)'
      BY <2>3, <2>6 DEF Concluded, IsTerminal, OutcomesOf
    <3>2. Phase(a)' = Phase(a)
      BY <2>1, <2>3, <3>1 DEF Phase
    <3> QED BY <1>s, <2>1, <2>2, <3>2
  <2> QED BY <2>5, <2>6
<1>8. ASSUME \/ \E e \in Executors :
                  \/ \E b \in Approvals, dryRun \in BOOLEAN : ReadApproved(e, b, dryRun)
                  \/ WritePreview(e) \/ ClaimLost(e) \/ Abort(e) \/ Audit(e) \/ ReadBack(e)
                  \/ Crash(e)
             \/ \E o \in Observers, a \in Approvals : Observe(o, a)
             \/ Projecting
             \/ UNCHANGED vars
      PROVE  UNCHANGED OneShot!vars
  <2>1. UNCHANGED <<status, attempt, receipts, made>>
    BY <1>8, ReadingOnly DEF ReadApproved, WritePreview, ClaimLost, Abort, Audit, ReadBack, Crash, Observe,
                vars, row, history, outside
  <2> QED BY <1>s, <2>1, SamePhase
<1> QED
  BY <1>1, <1>2, <1>3, <1>4, <1>5, <1>6, <1>7, <1>8, StepIs DEF Deciding, Running, Reviewing

\* The approval gate keeps the promise of OneShotEffect, for any number of
\* approvals, members and requests, as long as no attempt outlives its lease.
THEOREM Refinement ==
  ASSUME ~SlowProviders PROVE Spec => RefinesOneShot
<1>1. TypeInv /\ SafeInv /\ QuietInv /\ [Next]_vars => [OneShot!Next]_OneShot!vars
  BY RefinementStep
<1> QED
  BY <1>1, RefinementInit, QuietInvariant, PTL DEF Spec, OneShot!Spec, RefinesOneShot

-----------------------------------------------------------------------------
(* What a message is read as, until it is saved                             *)

TaskFields == {"title", "status", "due", "reason", "waiting", "owner", "at"}
MemberFields == {"name", "on", "checkIn", "since"}
ShowFields == {"title", "open", "at", "answer"}
WorldFields == {"zone", "tasks", "made", "members", "shows", "projects", "events", "profile"}

\* Work is in order: a prerequisite is due no later than what needs it.
InOrder(w) ==
  \A n \in Needs : LET d == w.tasks[n[1]].due
                       p == w.tasks[n[2]].due
                   IN d = None \/ p = None \/ p <= d

TasksKept(w) ==
  /\ w.tasks = [t \in Tasks |-> w.tasks[t]]
  /\ \A t \in Tasks : DOMAIN w.tasks[t] = TaskFields /\ w.tasks[t].at \in Nat
  /\ InOrder(w)
MembersKept(w) ==
  /\ w.members = [b \in Members |-> w.members[b]]
  /\ \A b \in Members : /\ DOMAIN w.members[b] = MemberFields
                        /\ w.members[b].name = <<w.members[b].name[1], w.members[b].name[2]>>
ShowsKept(w) ==
  /\ w.shows = [s \in Shows |-> w.shows[s]]
  /\ \A s \in Shows : DOMAIN w.shows[s] = ShowFields /\ w.shows[s].answer = [b \in Members |-> w.shows[s].answer[b]]
Recorded(w) ==
  /\ DOMAIN w = WorldFields /\ TasksKept(w) /\ MembersKept(w) /\ ShowsKept(w)
  /\ DOMAIN w.profile = {"open", "at"} /\ w.profile.at \in Nat

\* What a reading looks at keeps its version while it is not edited.
Onward(w, v) ==
  /\ \A t \in Tasks : /\ w.tasks[t].at <= v.tasks[t].at
                      /\ v.tasks[t].at = w.tasks[t].at => v.tasks[t].title = w.tasks[t].title
  /\ w.profile.at <= v.profile.at
  /\ v.profile.at = w.profile.at => v.profile.open = w.profile.open

LEMMA SameOnward ==
  ASSUME NEW w, Recorded(w), NEW v, v.tasks = w.tasks, v.profile = w.profile
  PROVE  Onward(w, v)
BY DEF Onward, Recorded, TasksKept

\* Work stays in order where a task keeps its date, loses it, or gets one that fits.
LEMMA DueMoved ==
  ASSUME CaptureConstants, NEW w, InOrder(w), NEW v, NEW t \in Tasks,
         \A u \in Tasks \ {t} : v.tasks[u].due = w.tasks[u].due,
         v.tasks[t].due \in {w.tasks[t].due, None} \/ (v.tasks[t].due \in Int /\ Fits(w, t, v.tasks[t].due))
  PROVE  InOrder(v)
<1> SUFFICES ASSUME NEW n \in Needs, v.tasks[n[1]].due # None, v.tasks[n[2]].due # None
             PROVE  v.tasks[n[2]].due <= v.tasks[n[1]].due
  BY DEF InOrder
<1> DEFINE x == n[1]
           y == n[2]
           due == v.tasks[t].due
<1>1. x \in Tasks /\ y \in Tasks /\ n = <<x, y>>
  BY DEF CaptureConstants
<1>2. w.tasks[x].due = None \/ w.tasks[y].due = None \/ w.tasks[y].due <= w.tasks[x].due
  BY DEF InOrder
<1>3. CASE due \in {w.tasks[t].due, None}
  BY <1>1, <1>2, <1>3
<1>4. CASE due \in Int /\ Fits(w, t, due)
  <2>1. CASE x = t /\ y = t
    BY <1>4, <2>1
  <2>2. CASE x = t /\ y # t
    <3>1. y \in Prerequisites(t)
      BY <1>1, <2>2 DEF Prerequisites
    <3> QED BY <1>1, <1>4, <2>2, <3>1 DEF Fits
  <2>3. CASE x # t /\ y = t
    <3>1. x \in Dependents(t)
      BY <1>1, <2>3 DEF Dependents
    <3> QED BY <1>1, <1>4, <2>3, <3>1 DEF Fits
  <2>4. CASE x # t /\ y # t
    BY <1>1, <1>2, <2>4
  <2> QED BY <2>1, <2>2, <2>3, <2>4
<1> QED BY <1>3, <1>4

\* An edit of a task is an edit of it alone, which is later than the one before.
LEMMA Touches ==
  ASSUME CaptureConstants, Recorded(world), NEW t \in Tasks, NEW k, DOMAIN k = TaskFields,
         k.due \in {world.tasks[t].due, None} \/ (k.due \in Int /\ Fits(world, t, k.due))
  PROVE  Recorded(Touched(t, k)) /\ Onward(world, Touched(t, k))
<1> DEFINE v == Touched(t, k)
           at == world.tasks[t].at + 1
           entry == [k EXCEPT !.at = at]
<1>1. /\ DOMAIN v = WorldFields /\ v.tasks = [world.tasks EXCEPT ![t] = entry]
      /\ v.members = world.members /\ v.shows = world.shows /\ v.profile = world.profile
  BY DEF Touched, Recorded, WorldFields
<1>2. /\ world.tasks = [u \in Tasks |-> world.tasks[u]]
      /\ \A u \in Tasks : DOMAIN world.tasks[u] = TaskFields /\ world.tasks[u].at \in Nat
  BY DEF Recorded, TasksKept
<1>3. DOMAIN entry = TaskFields /\ entry.at = at /\ entry.due = k.due /\ at \in Nat
  BY <1>2 DEF TaskFields
<1> HIDE DEF v, entry
<1>4. /\ v.tasks = [u \in Tasks |-> v.tasks[u]] /\ v.tasks[t] = entry
      /\ \A u \in Tasks \ {t} : v.tasks[u] = world.tasks[u]
  BY <1>1, <1>2
<1>5. InOrder(v)
  BY <1>3, <1>4, DueMoved DEF Recorded, TasksKept
<1>6. TasksKept(v)
  BY <1>2, <1>3, <1>4, <1>5 DEF TasksKept
<1>7. MembersKept(v) /\ ShowsKept(v)
  BY <1>1 DEF Recorded, MembersKept, ShowsKept
<1>8. Onward(world, v)
  BY <1>1, <1>2, <1>3, <1>4 DEF Onward, Recorded, at
<1> QED BY <1>1, <1>6, <1>7, <1>8 DEF Recorded, v

LEMMA TaskEditKeeps ==
  ASSUME CaptureConstants, Recorded(world), NEW t \in Tasks, NEW v \in TaskEdits(t)
  PROVE  Recorded(v) /\ Onward(world, v)
<1> DEFINE entry == world.tasks[t]
           Edited == \E k : /\ v = Touched(t, k) /\ DOMAIN k = TaskFields
                            /\ k.due \in {entry.due, None} \/ (k.due \in Int /\ Fits(world, t, k.due))
<1>1. DOMAIN entry = TaskFields
  BY DEF Recorded, TasksKept
<1>2. Edited
  <2>1. ASSUME NEW s \in TaskStatuses, v = Touched(t, [entry EXCEPT !.status = s]) PROVE Edited
    <3>1. DOMAIN [entry EXCEPT !.status = s] = TaskFields /\ [entry EXCEPT !.status = s].due = entry.due
      BY <1>1 DEF TaskFields
    <3> HIDE DEF entry
    <3> QED BY <2>1, <3>1
  <2>2. ASSUME NEW d \in {None} \union {e \in {1, 3} : Fits(world, t, e)}, v = Touched(t, [entry EXCEPT !.due = d])
        PROVE  Edited
    <3>1. DOMAIN [entry EXCEPT !.due = d] = TaskFields /\ [entry EXCEPT !.due = d].due = d
      BY <1>1 DEF TaskFields
    <3>2. d = None \/ (d \in Int /\ Fits(world, t, d))
      OBVIOUS
    <3> HIDE DEF entry
    <3> QED BY <2>2, <3>1, <3>2
  <2>3. ASSUME NEW n \in Titles, v = Touched(t, [entry EXCEPT !.title = n]) PROVE Edited
    <3>1. DOMAIN [entry EXCEPT !.title = n] = TaskFields /\ [entry EXCEPT !.title = n].due = entry.due
      BY <1>1 DEF TaskFields
    <3> HIDE DEF entry
    <3> QED BY <2>3, <3>1
  <2>4. ASSUME NEW b \in Members, v = Touched(t, [entry EXCEPT !.owner = b]) PROVE Edited
    <3>1. DOMAIN [entry EXCEPT !.owner = b] = TaskFields /\ [entry EXCEPT !.owner = b].due = entry.due
      BY <1>1 DEF TaskFields
    <3> HIDE DEF entry
    <3> QED BY <2>4, <3>1
  <2>5. ASSUME v = Touched(t, [entry EXCEPT !.status = "blocked", !.reason = Text]) PROVE Edited
    <3>1. /\ DOMAIN [entry EXCEPT !.status = "blocked", !.reason = Text] = TaskFields
          /\ [entry EXCEPT !.status = "blocked", !.reason = Text].due = entry.due
      BY <1>1 DEF TaskFields
    <3> HIDE DEF entry
    <3> QED BY <2>5, <3>1
  <2>6. ASSUME v = Touched(t, [entry EXCEPT !.waiting = Text]) PROVE Edited
    <3>1. DOMAIN [entry EXCEPT !.waiting = Text] = TaskFields /\ [entry EXCEPT !.waiting = Text].due = entry.due
      BY <1>1 DEF TaskFields
    <3> HIDE DEF entry
    <3> QED BY <2>6, <3>1
  <2> HIDE DEF Edited
  <2> QED BY <2>1, <2>2, <2>3, <2>4, <2>5, <2>6 DEF TaskEdits
<1> QED BY <1>2, Touches

LEMMA OtherRecords ==
  ASSUME Recorded(world), NEW v, DOMAIN v = WorldFields, v.tasks = world.tasks, v.profile = world.profile,
         MembersKept(v), ShowsKept(v)
  PROVE  Recorded(v) /\ Onward(world, v)
<1>1. Onward(world, v)
  BY SameOnward
<1> QED BY <1>1 DEF Recorded, TasksKept, InOrder

LEMMA MemberEditKeeps ==
  ASSUME Recorded(world), NEW v \in MemberEdits
  PROVE  Recorded(v) /\ Onward(world, v)
<1> DEFINE Edited(b) == /\ DOMAIN v = WorldFields /\ v.tasks = world.tasks /\ v.profile = world.profile
                        /\ v.shows = world.shows /\ v.members = [c \in Members |-> v.members[c]]
                        /\ DOMAIN v.members[b] = MemberFields
                        /\ v.members[b].name = <<v.members[b].name[1], v.members[b].name[2]>>
                        /\ \A c \in Members \ {b} : v.members[c] = world.members[c]
<1>1. /\ DOMAIN world = WorldFields /\ world.members = [b \in Members |-> world.members[b]]
      /\ \A b \in Members : /\ DOMAIN world.members[b] = MemberFields
                            /\ world.members[b].name = <<world.members[b].name[1], world.members[b].name[2]>>
  BY DEF Recorded, MembersKept
<1>2. ASSUME NEW b \in Members, v = [world EXCEPT !.members[b].on = ~@] PROVE Edited(b)
  BY <1>1, <1>2 DEF WorldFields, MemberFields
<1>3. ASSUME NEW b \in Members, v = [world EXCEPT !.members[b].checkIn = "unavailable", !.members[b].since = @ + 1] PROVE Edited(b)
  BY <1>1, <1>3 DEF WorldFields, MemberFields
<1>4. ASSUME NEW b \in Members, v = [world EXCEPT !.members[b].checkIn = "limited", !.members[b].since = @ + 1] PROVE Edited(b)
  BY <1>1, <1>4 DEF WorldFields, MemberFields
<1>5. ASSUME NEW b \in Members, v = [world EXCEPT !.members[b].name = <<"lee", b>>] PROVE Edited(b)
  BY <1>1, <1>5 DEF WorldFields, MemberFields
<1>6. \E b \in Members : Edited(b)
  <2> HIDE DEF Edited
  <2> QED BY <1>2, <1>3, <1>4, <1>5 DEF MemberEdits
<1>7. MembersKept(v) /\ ShowsKept(v)
  BY <1>1, <1>6 DEF MembersKept, ShowsKept, Recorded
<1> QED BY <1>6, <1>7, OtherRecords

LEMMA ShowEditKeeps ==
  ASSUME Recorded(world), NEW s \in Shows, NEW v \in ShowEdits(s)
  PROVE  Recorded(v) /\ Onward(world, v)
<1> DEFINE show == world.shows[s]
           Kept(entry) == DOMAIN entry = ShowFields /\ entry.answer = [b \in Members |-> entry.answer[b]]
           Edited == \E entry : v = Altered(s, entry) /\ Kept(entry)
<1>1. /\ DOMAIN world = WorldFields /\ world.shows = [c \in Shows |-> world.shows[c]]
      /\ \A c \in Shows : Kept(world.shows[c])
  BY DEF Recorded, ShowsKept
<1>2. Edited
  <2>1. ASSUME v = Renewed(s, [show EXCEPT !.open = FALSE]) PROVE Edited
    <3> DEFINE entry == [[show EXCEPT !.open = FALSE] EXCEPT !.at = world.shows[s].at + 1]
    <3>1. Kept(entry)
      BY <1>1 DEF ShowFields
    <3>2. v = Altered(s, entry)
      BY <2>1 DEF Renewed
    <3> HIDE DEF entry, Kept
    <3> QED BY <3>1, <3>2
  <2>2. ASSUME NEW n \in Titles, v = Renewed(s, [show EXCEPT !.title = n]) PROVE Edited
    <3> DEFINE entry == [[show EXCEPT !.title = n] EXCEPT !.at = world.shows[s].at + 1]
    <3>1. Kept(entry)
      BY <1>1 DEF ShowFields
    <3>2. v = Altered(s, entry)
      BY <2>2 DEF Renewed
    <3> HIDE DEF entry, Kept
    <3> QED BY <3>1, <3>2
  <2>3. ASSUME NEW b \in Members, NEW a \in {"available", "unknown"}, v = Altered(s, WithAnswer(show, b, a))
        PROVE  Edited
    <3>1. Kept(WithAnswer(show, b, a))
      BY <1>1 DEF ShowFields, WithAnswer
    <3> HIDE DEF show, Kept
    <3> QED BY <2>3, <3>1
  <2> HIDE DEF Edited
  <2>4. \/ v = Renewed(s, [show EXCEPT !.open = FALSE])
        \/ \E n \in Titles : v = Renewed(s, [show EXCEPT !.title = n])
        \/ \E b \in Members, a \in {"available", "unknown"} : v = Altered(s, WithAnswer(show, b, a))
    BY DEF ShowEdits
  <2> QED BY <2>1, <2>2, <2>3, <2>4
<1>3. PICK entry : v = Altered(s, entry) /\ Kept(entry)
  BY <1>2
<1>4. /\ DOMAIN v = WorldFields /\ v.tasks = world.tasks /\ v.profile = world.profile
      /\ v.members = world.members /\ v.shows = [world.shows EXCEPT ![s] = entry]
  BY <1>1, <1>3 DEF Altered, WorldFields
<1>5. MembersKept(v) /\ ShowsKept(v)
  <2>1. v.shows = [c \in Shows |-> v.shows[c]] /\ \A c \in Shows : Kept(v.shows[c])
    <3> HIDE DEF Kept
    <3> QED BY <1>1, <1>3, <1>4
  <2> QED BY <1>4, <2>1 DEF MembersKept, ShowsKept, Recorded
<1> QED BY <1>4, <1>5, OtherRecords

LEMMA EditKeeps ==
  ASSUME CaptureConstants, Recorded(world), Edit
  PROVE  Recorded(world') /\ Onward(world, world')
<1>1. DOMAIN world = WorldFields /\ MembersKept(world) /\ ShowsKept(world)
  BY DEF Recorded
<1>2. ASSUME NEW t \in Tasks, world' \in TaskEdits(t) PROVE Recorded(world') /\ Onward(world, world')
  BY <1>2, TaskEditKeeps
<1>3. CASE world' \in MemberEdits
  BY <1>3, MemberEditKeeps
<1>4. ASSUME NEW s \in Shows, world' \in ShowEdits(s) PROVE Recorded(world') /\ Onward(world, world')
  BY <1>4, ShowEditKeeps
<1>5. CASE world' \in PlanEdits \/ \E z \in Zones : world' = [world EXCEPT !.zone = z]
  <2>1. /\ DOMAIN world' = WorldFields /\ world'.tasks = world.tasks /\ world'.profile = world.profile
        /\ world'.members = world.members /\ world'.shows = world.shows
    BY <1>1, <1>5 DEF PlanEdits, WorldFields
  <2>2. MembersKept(world') /\ ShowsKept(world')
    BY <1>1, <2>1 DEF MembersKept, ShowsKept
  <2> QED BY <2>1, <2>2, OtherRecords
<1>6. ASSUME NEW gaps, world' = [world EXCEPT !.profile.open = gaps, !.profile.at = @ + 1]
      PROVE  Recorded(world') /\ Onward(world, world')
  <2>1. /\ DOMAIN world' = WorldFields /\ world'.tasks = world.tasks
        /\ world'.members = world.members /\ world'.shows = world.shows
        /\ DOMAIN world.profile = {"open", "at"} /\ world.profile.at \in Nat
    BY <1>1, <1>6 DEF WorldFields, Recorded
  <2>2. DOMAIN world'.profile = {"open", "at"} /\ world'.profile.at = world.profile.at + 1
    BY <1>1, <1>6, <2>1 DEF WorldFields
  <2>3. MembersKept(world') /\ ShowsKept(world') /\ TasksKept(world')
    BY <1>1, <2>1 DEF MembersKept, ShowsKept, Recorded, TasksKept, InOrder
  <2>4. Onward(world, world')
    BY <2>1, <2>2 DEF Onward, Recorded, TasksKept
  <2> QED BY <2>1, <2>2, <2>3, <2>4 DEF Recorded
<1> QED BY <1>2, <1>3, <1>4, <1>5, <1>6 DEF Edit

LEMMA TheOne ==
  ASSUME NEW T, IsFiniteSet(T), NEW S \in SUBSET T, Cardinality(S) = 1
  PROVE  S = {The(S)} /\ The(S) \in T
<1>1. PICK x : S = {x}
  BY FS_Subset, FS_Singleton
<1> QED BY <1>1 DEF The

LEMMA NamedIn ==
  ASSUME NEW m, NEW title
  PROVE  Named(m, title) \subseteq DOMAIN title
BY DEF Named

LEMMA Answers ==
  ASSUME NEW why, NEW a
  PROVE  /\ Answer(why) = Ready(a) => why = "ready"
         /\ \A b : Ready(b) = Ready(a) => b = a
         /\ Answer(why).status = why /\ Answer(why).act = None
         /\ Ready(a).status = "ready" /\ Ready(a).act = a
<1>1. /\ Answer(why).status = why /\ Answer(why).act = None
      /\ Ready(a).status = "ready" /\ Ready(a).act = a
  BY DEF Answer, Ready
<1>2. \A b : Ready(b).act = b
  BY DEF Ready
<1> QED BY <1>1, <1>2

\* What a reading that proposes something has found.
LEMMA TaskRead ==
  ASSUME NEW m, NEW open, NEW zone, NEW a, ReadTask(m, open, zone) = Ready(a)
  PROVE  /\ a = [title |-> m.words, due |-> DayOf(m.date, zone), zone |-> ZoneOf(m, zone)]
         /\ m.words \notin open
BY Answers DEF ReadTask

DueOf(m, zone) == IF m.op = "reschedule" THEN DayOf(m.date, zone) ELSE None
DayZone(m, zone) == IF m.op = "reschedule" THEN ZoneOf(m, zone) ELSE None
LEMMA UpdateRead ==
  ASSUME CaptureConstants, NEW m, NEW w, NEW among \in SUBSET Tasks, NEW zone, NEW a,
         ReadUpdate(m, w, among, zone) = Ready(a)
  PROVE  /\ a.at = w.tasks[a.task].at /\ a.op = m.op /\ a.due = DueOf(m, zone) /\ a.zone = DayZone(m, zone)
         /\ \A title : title = [t \in among |-> w.tasks[t].title] => Named(m, title) = {a.task}
         /\ a.task \in among
         /\ m.op = "reschedule" => DueOf(m, zone) # Unclear
         /\ ~AlreadySo(m.op, w.tasks[a.task], DueOf(m, zone))
<1> DEFINE named == Named(m, [t \in among |-> w.tasks[t].title])
           x == The(named)
           k == w.tasks[x]
           due == DueOf(m, zone)
           z == DayZone(m, zone)
           act == [task |-> x, at |-> k.at, title |-> k.title, op |-> m.op, due |-> due, zone |-> z]
           unclear == \/ Cardinality(named) # 1
                      \/ k.status = "done" /\ m.op # "complete"
                      \/ m.op = "reschedule" /\ (due = Unclear \/ ~Fits(w, x, due))
                      \/ m.op = "complete" /\ Unfinished(w, x) # {}
<1>1. ReadUpdate(m, w, among, zone) = IF unclear THEN Answer("needs_clarification")
                                      ELSE IF AlreadySo(m.op, k, due) THEN Answer("already_current") ELSE Ready(act)
  BY DEF ReadUpdate, DueOf, DayZone
<1>2. ~unclear /\ ~AlreadySo(m.op, k, due) /\ a = act
  <2> HIDE DEF unclear, act, due, k
  <2> QED BY <1>1, Answers
<1>3. named \subseteq among /\ IsFiniteSet(among)
  BY NamedIn, FS_Subset DEF CaptureConstants
<1>4. named = {x} /\ x \in among
  <2> HIDE DEF named
  <2> QED BY <1>2, <1>3, TheOne
<1>5. /\ a.task = x /\ a.at = k.at /\ a.op = m.op /\ a.due = due /\ a.zone = z
      /\ (m.op = "reschedule" => due # Unclear) /\ ~AlreadySo(m.op, k, due)
  BY <1>2
<1>6. \A title : title = [t \in among |-> w.tasks[t].title] => Named(m, title) = {x}
  BY <1>4
<1> HIDE DEF named, x
<1> QED BY <1>4, <1>5, <1>6

LEMMA AssignRead ==
  ASSUME CaptureConstants, NEW m, NEW w, NEW among \in SUBSET Tasks, NEW a,
         ReadAssign(m, w, among) = Ready(a)
  PROVE  LET k == w.tasks[a.task]
             b == w.members[a.member]
         IN /\ a = [task |-> a.task, at |-> k.at, title |-> k.title, member |-> a.member,
                    name |-> b.name, from |-> k.owner, since |-> b.since, checkIn |-> b.checkIn]
            /\ Named(m, [t \in among |-> w.tasks[t].title]) = {a.task} /\ a.task \in among
            /\ NamedMember(m.who, w) = {a.member} /\ a.member \in Members
            /\ k.status # "done" /\ b.checkIn # "unavailable" /\ k.owner # a.member
<1> DEFINE named == Named(m, [t \in among |-> w.tasks[t].title])
           x == The(named)
           member == NamedMember(m.who, w)
           b == The(member)
           act == [task |-> x, at |-> w.tasks[x].at, title |-> w.tasks[x].title, member |-> b,
                   name |-> w.members[b].name, from |-> w.tasks[x].owner,
                   since |-> w.members[b].since, checkIn |-> w.members[b].checkIn]
           unclear == Cardinality(named) # 1 \/ w.tasks[x].status = "done" \/ Cardinality(member) # 1
<1>1. ReadAssign(m, w, among) = IF unclear THEN Answer("needs_clarification")
                                ELSE IF w.members[b].checkIn = "unavailable" THEN Answer("blocked_unavailable")
                                ELSE IF w.tasks[x].owner = b THEN Answer("already_current") ELSE Ready(act)
  BY DEF ReadAssign
<1>2. ~unclear /\ w.members[b].checkIn # "unavailable" /\ w.tasks[x].owner # b /\ a = act
  <2> DEFINE blocked == w.members[b].checkIn = "unavailable"
             already == w.tasks[x].owner = b
  <2>1. ReadAssign(m, w, among) = IF unclear THEN Answer("needs_clarification")
                                  ELSE IF blocked THEN Answer("blocked_unavailable")
                                  ELSE IF already THEN Answer("already_current") ELSE Ready(act)
    BY <1>1
  <2>2. ~unclear /\ ~blocked /\ ~already /\ a = act
    <3> HIDE DEF unclear, act, blocked, already
    <3> QED BY <2>1, Answers
  <2> QED BY <2>2
<1>3. named \subseteq among /\ IsFiniteSet(among) /\ member \subseteq Members /\ IsFiniteSet(Members)
  BY NamedIn, FS_Subset DEF CaptureConstants, NamedMember, Active
<1>4. named = {x} /\ x \in among /\ member = {b} /\ b \in Members
  <2> HIDE DEF named, member
  <2> QED BY <1>2, <1>3, TheOne
<1>5. a.task = x /\ a.member = b
  BY <1>2
<1>6. /\ a = act /\ named = {x} /\ x \in among /\ member = {b} /\ b \in Members
      /\ w.tasks[x].status # "done" /\ w.members[b].checkIn # "unavailable" /\ w.tasks[x].owner # b
  BY <1>2, <1>4
<1> HIDE DEF x, b
<1> QED BY <1>5, <1>6, Zenon

LEMMA ProjectRead ==
  ASSUME NEW m, NEW projects, NEW a, ReadProject(m, projects) = Ready(a)
  PROVE  /\ a = [name |-> m.words, due |-> DayOf(m.date, None)] /\ a.due \notin {Unclear, None}
         /\ ~\E p \in projects : p.name = m.words /\ p.due = a.due
<1>1. /\ a = [name |-> m.words, due |-> DayOf(m.date, None)] /\ DayOf(m.date, None) \notin {Unclear, None}
      /\ ~\E p \in projects : p.name = m.words /\ p.due = DayOf(m.date, None)
  BY Answers DEF ReadProject
<1> QED BY <1>1

LEMMA EventRead ==
  ASSUME NEW m, NEW w, NEW events, NEW zone, NEW a, ReadEvent(m, w, events, zone) = Ready(a)
  PROVE  /\ a = [title |-> m.words, start |-> Start(m.date, zone), zone |-> zone, lineup |-> Active(w)]
         /\ Start(m.date, zone) # None
BY Answers DEF ReadEvent

\* What the answer that a message gives, read in the records w, is: the member and the
\* open show it names alone, and a response other than the one recorded.
ShowTitles(w) == [s \in {x \in Shows : w.shows[x].open} |-> w.shows[s].title]
AnswerOf(m, w, a) ==
  /\ NamedMember(m.who, w) = {a.member} /\ a.member \in Members
  /\ Named(m, ShowTitles(w)) = {a.show} /\ a.show \in Shows
  /\ a.from = ResponseOf(w.shows[a.show], a.member) /\ a.response = m.op /\ a.from # m.op

LEMMA AvailabilityRead ==
  ASSUME CaptureConstants, NEW m, NEW w, NEW a, ReadAvailability(m, w) = Ready(a)
  PROVE  AnswerOf(m, w, a)
<1> DEFINE open == {s \in Shows : w.shows[s].open}
           named == Named(m, [s \in open |-> w.shows[s].title])
           x == The(named)
           member == NamedMember(m.who, w)
           b == The(member)
           act == [show |-> x, at |-> w.shows[x].at, title |-> w.shows[x].title, member |-> b,
                   name |-> w.members[b].name, invited |-> w.shows[x].answer[b] # None,
                   from |-> ResponseOf(w.shows[x], b), response |-> m.op]
<1>1. ReadAvailability(m, w) = IF Cardinality(member) # 1 \/ Cardinality(named) # 1 THEN Answer("needs_clarification")
                               ELSE IF ResponseOf(w.shows[x], b) = m.op THEN Answer("already_current") ELSE Ready(act)
  BY DEF ReadAvailability
<1>2. Cardinality(member) = 1 /\ Cardinality(named) = 1 /\ ResponseOf(w.shows[x], b) # m.op /\ a = act
  <2> HIDE DEF member, named, act, x, b
  <2> QED BY <1>1, Answers
<1>3. named \subseteq open /\ IsFiniteSet(open) /\ member \subseteq Members /\ IsFiniteSet(Members)
  BY NamedIn, FS_Subset DEF CaptureConstants, NamedMember, Active
<1>4. named = {x} /\ x \in open /\ member = {b} /\ b \in Members
  <2> HIDE DEF named, member
  <2> QED BY <1>2, <1>3, TheOne
<1>5. /\ a.show = x /\ a.member = b /\ a.from = ResponseOf(w.shows[x], b) /\ a.response = m.op
      /\ ResponseOf(w.shows[x], b) # m.op
  BY <1>2
<1>6. Named(m, ShowTitles(w)) = {x}
  BY <1>4 DEF ShowTitles
<1> HIDE DEF x, b, member
<1>7. NamedMember(m.who, w) = {b}
  BY <1>4 DEF member
<1> QED BY <1>4, <1>5, <1>6, <1>7 DEF AnswerOf

LEMMA ContextRead ==
  ASSUME NEW m, NEW w, NEW a, ReadContext(m, w) = Ready(a),
         \A f \in DOMAIN Refusals : Refusals[f] # "ready", m.form \in {"plain"} \union DOMAIN Refusals
  PROVE  a = [gap |-> m.gap, at |-> w.profile.at] /\ m.gap \in w.profile.open
BY Answers DEF ReadContext

\* A record that a message names among others it names alone.
LEMMA NamedAlone ==
  ASSUME NEW m, NEW title, NEW t \in Named(m, title), NEW alone, alone = [x \in {t} |-> title[t]]
  PROVE  t \in Named(m, alone)
<1> DEFINE whole(f) == {c \in DOMAIN f : f[c] \subseteq m.words}
           quoted(f) == {c \in DOMAIN f : f[c] \subseteq m.quoted \/ m.quoted \subseteq f[c]}
           owners(f, x) == {c \in DOMAIN f : x \in f[c]}
           hinted(f) == UNION {owners(f, x) : x \in {y \in m.words : Cardinality(owners(f, y)) = 1}}
<1>1. \A f : Named(m, f) = IF whole(f) # {} THEN whole(f) ELSE IF m.quoted # {} THEN quoted(f)
                           ELSE IF m.hint THEN hinted(f) ELSE {}
  BY DEF Named
<1>2. DOMAIN alone = {t} /\ alone[t] = title[t] /\ t \in DOMAIN title
  BY NamedIn
<1>3. CASE title[t] \subseteq m.words
  <2>1. t \in whole(alone)
    BY <1>2, <1>3
  <2> HIDE DEF whole
  <2> QED BY <1>1, <2>1
<1>4. CASE ~(title[t] \subseteq m.words)
  <2>1. whole(alone) = {} /\ t \notin whole(title)
    BY <1>2, <1>4
  <2>2. whole(title) = {}
    <3> HIDE DEF whole, quoted, hinted
    <3> QED BY <1>1, <2>1
  <2>3. CASE m.quoted # {}
    <3>1. t \in quoted(title)
      <4> HIDE DEF whole, quoted, hinted
      <4> QED BY <1>1, <2>2, <2>3
    <3>2. t \in quoted(alone)
      BY <1>2, <3>1
    <3> HIDE DEF whole, quoted, hinted
    <3> QED BY <1>1, <2>1, <2>3, <3>2
  <2>4. CASE m.quoted = {}
    <3>1. m.hint /\ t \in hinted(title)
      <4> HIDE DEF whole, quoted, hinted
      <4> QED BY <1>1, <2>2, <2>4
    <3>2. PICK x \in m.words : t \in owners(title, x)
      BY <3>1
    <3>3. owners(alone, x) = {t}
      BY <1>2, <3>2
    <3>4. t \in hinted(alone)
      <4>1. Cardinality({t}) = 1
        BY FS_Singleton
      <4> QED BY <3>2, <3>3, <4>1
    <3> HIDE DEF whole, quoted, hinted
    <3> QED BY <1>1, <2>1, <2>4, <3>1, <3>4
  <2> QED BY <2>3, <2>4
<1> QED BY <1>3, <1>4

\* A entry that was not touched since is named as before.
LEMMA StillNamed ==
  ASSUME NEW m, NEW v, NEW w, NEW among, NEW t \in Named(m, [x \in among |-> v.tasks[x].title]),
         w.tasks[t].title = v.tasks[t].title
  PROVE  t \in Named(m, [x \in {t} |-> w.tasks[x].title])
<1> DEFINE title == [x \in among |-> v.tasks[x].title]
           alone == [x \in {t} |-> w.tasks[x].title]
<1>1. t \in among
  BY NamedIn
<1>2. alone = [x \in {t} |-> title[t]]
  BY <1>1
<1> HIDE DEF title, alone
<1> QED BY <1>2, NamedAlone DEF title, alone

----------------------------------------------------------------------------
(* What a save does for each topic, given what was read of the records       *)
(* before (v) and compared now (w).                                          *)

Offered(m, z, w) == Reading(m, w, z).status = "ready"

LEMMA TaskSaved ==
  ASSUME NEW m, m.topic = "task", m.form = "plain", NEW a, NEW v, Rereading(m, a, v) = Ready(a),
         NEW w, Recorded(w), Holds(m, a, w), NEW u, u = Saved(m, a, w)
  PROVE  /\ m.words \notin OpenTitles(w)
         /\ \E n \in u.made : n.title = m.words /\ n.due = DayOf(m.date, a.zone)
         /\ \A z : ~Offered(m, z, u)
<1>1. /\ Rereading(m, a, v) = ReadTask(m, OpenTitles(v), a.zone)
      /\ Holds(m, a, w) <=> a.title \notin OpenTitles(w)
      /\ u = [w EXCEPT !.made = @ \union {[title |-> a.title, due |-> a.due]}]
  BY DEF Rereading, Holds, Saved
<1>2. a.title = m.words /\ a.due = DayOf(m.date, a.zone)
  <2>1. a = [title |-> m.words, due |-> DayOf(m.date, a.zone), zone |-> ZoneOf(m, a.zone)]
    <3>1. ReadTask(m, OpenTitles(v), a.zone) = Ready(a)
      BY <1>1
    <3> QED BY <3>1, TaskRead, Zenon
  <2> QED BY <2>1
<1>3. [title |-> a.title, due |-> a.due] \in u.made
  BY <1>1 DEF Recorded, WorldFields
<1>4. m.words \in OpenTitles(u)
  BY <1>2, <1>3 DEF OpenTitles
<1>5. ASSUME NEW z PROVE ~Offered(m, z, u)
  <2>1. Reading(m, u, z) = ReadTask(m, OpenTitles(u), z)
    BY DEF Reading
  <2> QED BY <1>4, <2>1, Answers DEF ReadTask, Offered
<1> QED BY <1>1, <1>2, <1>3, <1>5

LEMMA ProjectSaved ==
  ASSUME NEW m, m.topic = "project", m.form = "plain", NEW a, NEW v, Rereading(m, a, v) = Ready(a),
         NEW w, Recorded(w), Holds(m, a, w), NEW u, u = Saved(m, a, w)
  PROVE  /\ ~\E p \in NotCancelled(w.projects) : p.name = m.words /\ p.due = 2
         /\ \A z : ~Offered(m, z, u)
<1> DEFINE entry == [name |-> a.name, due |-> a.due, status |-> "planned"]
<1>1. /\ Rereading(m, a, v) = ReadProject(m, NotCancelled(v.projects))
      /\ Holds(m, a, w) <=> ~\E p \in NotCancelled(w.projects) : p.name = a.name /\ p.due = a.due
      /\ u = [w EXCEPT !.projects = @ \union {entry}]
  BY DEF Rereading, Holds, Saved
<1>2. a.name = m.words /\ a.due = DayOf(m.date, None) /\ a.due \notin {Unclear, None}
  <2>1. a = [name |-> m.words, due |-> DayOf(m.date, None)] /\ a.due \notin {Unclear, None}
    BY <1>1, ProjectRead
  <2> QED BY <2>1
<1>3. a.due = 2
  BY <1>2 DEF DayOf
<1>4. entry \in InPlan(u.projects)
  BY <1>1 DEF Recorded, WorldFields, InPlan
<1>5. ASSUME NEW z PROVE ~Offered(m, z, u)
  <2>1. Reading(m, u, z) = ReadProject(m, InPlan(u.projects))
    BY DEF Reading
  <2> QED BY <1>2, <1>4, <2>1, Answers DEF ReadProject, Offered
<1> QED BY <1>1, <1>2, <1>3, <1>5

LEMMA EventSaved ==
  ASSUME NEW m, m.topic = "event", m.form = "plain", NEW a, NEW v, Rereading(m, a, v) = Ready(a),
         NEW w, Recorded(w), Holds(m, a, w), NEW u, u = Saved(m, a, w)
  PROVE  /\ ~\E e \in NotCancelled(w.events) : e.title = m.words /\ e.start = Start(m.date, a.zone)
         /\ \E e \in u.events : e.start = Start(m.date, a.zone) /\ e.lineup = a.lineup
         /\ a.zone # None /\ ~Offered(m, a.zone, u)
<1> DEFINE entry == [title |-> a.title, start |-> a.start, status |-> "planned", lineup |-> Active(w)]
<1>1. /\ Rereading(m, a, v) = ReadEvent(m, v, NotCancelled(v.events), a.zone)
      /\ Holds(m, a, w) <=> /\ a.lineup = Active(w)
                            /\ ~\E e \in NotCancelled(w.events) : e.title = a.title /\ e.start = a.start
      /\ u = [w EXCEPT !.events = @ \union {entry}]
      /\ Reading(m, u, a.zone) = ReadEvent(m, u, InPlan(u.events), a.zone)
  BY DEF Rereading, Holds, Saved, Reading
<1>2. a.title = m.words /\ a.start = Start(m.date, a.zone) /\ a.start # None
  <2>1. /\ a = [title |-> m.words, start |-> Start(m.date, a.zone), zone |-> a.zone, lineup |-> Active(v)]
        /\ Start(m.date, a.zone) # None
    <3>1. ReadEvent(m, v, NotCancelled(v.events), a.zone) = Ready(a)
      BY <1>1
    <3> QED BY <3>1, EventRead, Zenon
  <2> QED BY <2>1
<1>3. entry \in InPlan(u.events) /\ entry \in u.events
  BY <1>1 DEF Recorded, WorldFields, InPlan
<1>4. a.zone # None
  BY <1>2 DEF Start
<1>5. ~Offered(m, a.zone, u)
  BY <1>1, <1>2, <1>3, Answers DEF ReadEvent, Offered
<1> QED BY <1>1, <1>2, <1>3, <1>4, <1>5

LEMMA FormsRefused == \A f \in DOMAIN Refusals : Refusals[f] \notin {"ready", "proposed", "reviewed", "completed"}
BY DEF Refusals

LEMMA ContextSaved ==
  ASSUME NEW m, m.topic = "context", m.form \in {"plain"} \union DOMAIN Refusals,
         NEW a, NEW v, Recorded(v), Rereading(m, a, v) = Ready(a),
         NEW w, Recorded(w), Onward(v, w), Holds(m, a, w), NEW u, u = Saved(m, a, w)
  PROVE  /\ m.gap \in w.profile.open /\ m.gap \notin u.profile.open
         /\ \A z : ~Offered(m, z, u)
<1>1. /\ Rereading(m, a, v) = ReadContext(m, v)
      /\ Holds(m, a, w) <=> w.profile.at = a.at
      /\ u = [w EXCEPT !.profile = [open |-> w.profile.open \ {a.gap}, at |-> w.profile.at + 1]]
  BY DEF Rereading, Holds, Saved
<1>2. a = [gap |-> m.gap, at |-> v.profile.at] /\ m.gap \in v.profile.open
  BY <1>1, ContextRead, FormsRefused
<1>3. w.profile.at = v.profile.at /\ w.profile.open = v.profile.open
  BY <1>1, <1>2 DEF Onward
<1>4. u.profile.open = w.profile.open \ {m.gap}
  <2>1. DOMAIN w = WorldFields /\ a.gap = m.gap
    BY <1>2 DEF Recorded
  <2> QED BY <1>1, <2>1 DEF WorldFields
<1>5. ASSUME NEW z PROVE ~Offered(m, z, u)
  <2>1. Reading(m, u, z) = ReadContext(m, u)
    BY DEF Reading
  <2> QED BY <1>4, <2>1, Answers DEF ReadContext, Offered
<1> QED BY <1>2, <1>3, <1>4, <1>5

LEMMA AvailabilitySaved ==
  ASSUME CaptureConstants, NEW m, m.topic = "availability", m.form = "plain", m.op \in Responses,
         NEW a, NEW w, Recorded(w), Holds(m, a, w), NEW u, u = Saved(m, a, w)
  PROVE  /\ AnswerOf(m, w, a) /\ u.shows[a.show].answer[a.member] = m.op
         /\ \A z : Offered(m, z, u) => Reading(m, u, z).act.show # a.show
<1>1. /\ Holds(m, a, w) <=> ReadAvailability(m, w) = Ready(a)
      /\ u = [w EXCEPT !.shows[a.show] = WithAnswer(w.shows[a.show], a.member, a.response)]
  BY DEF Holds, Saved
<1>2. AnswerOf(m, w, a)
  BY <1>1, AvailabilityRead
<1>3. /\ a.response = m.op /\ a.member \in Members /\ a.show \in Shows
      /\ NamedMember(m.who, w) = {a.member}
  BY <1>2 DEF AnswerOf
<1>4. u.members = w.members /\ u.shows[a.show].answer[a.member] = m.op
  <2>1. /\ DOMAIN w = WorldFields /\ DOMAIN w.shows = Shows
        /\ DOMAIN w.shows[a.show] = ShowFields /\ DOMAIN w.shows[a.show].answer = Members
    BY <1>3 DEF Recorded, ShowsKept
  <2> QED BY <1>1, <1>3, <2>1 DEF WorldFields, ShowFields, WithAnswer
<1>5. NamedMember(m.who, u) = {a.member}
  BY <1>3, <1>4 DEF NamedMember, Active
<1>6. ASSUME NEW z, Offered(m, z, u) PROVE Reading(m, u, z).act.show # a.show
  <2> DEFINE b == Reading(m, u, z).act
  <2>1. ReadAvailability(m, u) = Ready(b)
    <3>1. Reading(m, u, z) = ReadAvailability(m, u)
      BY DEF Reading
    <3>2. ReadAvailability(m, u).status = "ready" => ReadAvailability(m, u) = Ready(ReadAvailability(m, u).act)
      BY DEF ReadAvailability, Answer, Ready
    <3> QED BY <1>6, <3>1, <3>2 DEF Offered
  <2> HIDE DEF b
  <2>2. NamedMember(m.who, u) = {b.member} /\ ResponseOf(u.shows[b.show], b.member) # m.op
    <3>1. AnswerOf(m, u, b)
      BY <2>1, AvailabilityRead
    <3> QED BY <3>1 DEF AnswerOf
  <2>3. b.member = a.member
    BY <1>5, <2>2
  <2>4. CASE b.show = a.show
    BY <1>4, <2>2, <2>3, <2>4 DEF ResponseOf, Responses, CaptureConstants
  <2> QED BY <2>4 DEF b
<1> QED BY <1>4, <1>6, <1>2

LEMMA AssignSaved ==
  ASSUME CaptureConstants, NEW m, m.topic = "assign", m.form = "plain", m.who \in Names,
         NEW a, NEW v, Recorded(v), Rereading(m, a, v) = Ready(a),
         NEW w, Recorded(w), Onward(v, w), Holds(m, a, w), NEW u, u = Saved(m, a, w)
  PROVE  /\ w.tasks[a.task].status # "done" /\ w.tasks[a.task].owner = a.from
         /\ a.task \in Named(m, [t \in {a.task} |-> w.tasks[t].title])
         /\ a.member \in Active(w) /\ w.members[a.member].checkIn # "unavailable"
         /\ m.who \in {w.members[a.member].name, <<w.members[a.member].name[1]>>}
         /\ \A z : Offered(m, z, u) => Reading(m, u, z).act.task # a.task
<1> DEFINE b == w.members[a.member]
           who == m.who
<1>1. /\ Rereading(m, a, v) = ReadAssign(m, v, OpenTasks(v))
      /\ Holds(m, a, w) <=> /\ w.tasks[a.task].status # "done"
                            /\ w.tasks[a.task].at = a.at /\ w.tasks[a.task].owner = a.from
                            /\ b.on /\ b.checkIn # "unavailable" /\ b.checkIn = a.checkIn
                            /\ b.since = a.since /\ b.name = a.name
      /\ u = [w EXCEPT !.tasks[a.task].owner = a.member, !.tasks[a.task].at = @ + 1]
  BY DEF Rereading, Holds, Saved
<1>2. /\ a.at = v.tasks[a.task].at /\ a.name = v.members[a.member].name
      /\ a.task \in Named(m, [t \in OpenTasks(v) |-> v.tasks[t].title]) /\ a.task \in Tasks
      /\ a.member \in NamedMember(m.who, v) /\ a.member \in Members
  <2>1. ReadAssign(m, v, OpenTasks(v)) = Ready(a) /\ OpenTasks(v) \in SUBSET Tasks
    BY <1>1 DEF OpenTasks
  <2> HIDE DEF b
  <2>2. /\ a = [task |-> a.task, at |-> v.tasks[a.task].at, title |-> v.tasks[a.task].title, member |-> a.member,
                name |-> v.members[a.member].name, from |-> v.tasks[a.task].owner,
                since |-> v.members[a.member].since, checkIn |-> v.members[a.member].checkIn]
        /\ Named(m, [t \in OpenTasks(v) |-> v.tasks[t].title]) = {a.task} /\ a.task \in OpenTasks(v)
        /\ NamedMember(m.who, v) = {a.member} /\ a.member \in Members
    BY <2>1, AssignRead
  <2> QED BY <2>1, <2>2
<1>3. a.task \in Named(m, [t \in {a.task} |-> w.tasks[t].title])
  <2>1. w.tasks[a.task].title = v.tasks[a.task].title
    BY <1>1, <1>2 DEF Onward
  <2> QED BY <1>2, <2>1, StillNamed
<1>4. /\ who = b.name \/ who = <<b.name[1]>>
      /\ b.name = <<b.name[1], b.name[2]>>
  <2>1. b.name = v.members[a.member].name /\ b.name = <<b.name[1], b.name[2]>>
    BY <1>1, <1>2 DEF Recorded, MembersKept
  <2>2. who = b.name \/ (Len(who) <= 1 /\ who[1] = b.name[1])
    BY <1>2, <2>1 DEF NamedMember, Names
  <2>3. who = <<"sam">> \/ \E c \in Members : who = <<"sam", c>>
    BY DEF Names
  <2> QED BY <2>1, <2>2, <2>3
<1>5. a.member \in NamedMember(who, w)
  <2>1. a.member \in Active(w)
    BY <1>1, <1>2 DEF Active
  <2>2. CASE who = b.name
    BY <2>1, <2>2 DEF NamedMember
  <2>3. CASE who = <<b.name[1]>>
    <3>1. \A c \in Members : w.members[c].name # who
      BY <2>3 DEF Recorded, MembersKept
    <3> QED BY <2>1, <2>3, <3>1 DEF NamedMember, Active
  <2> QED BY <1>4, <2>2, <2>3
<1>6. u.members = w.members /\ u.tasks[a.task].owner = a.member
  <2>1. DOMAIN w = WorldFields /\ DOMAIN w.tasks = Tasks /\ DOMAIN w.tasks[a.task] = TaskFields
    BY <1>2 DEF Recorded, TasksKept
  <2> QED BY <1>1, <1>2, <2>1 DEF WorldFields, TaskFields
<1>7. ASSUME NEW z, Offered(m, z, u) PROVE Reading(m, u, z).act.task # a.task
  <2> DEFINE c == Reading(m, u, z).act
             among == OpenTasks(u) \union Goalward
  <2>1. ReadAssign(m, u, among) = Ready(c)
    <3>1. Reading(m, u, z) = ReadAssign(m, u, among)
      BY DEF Reading
    <3>2. ReadAssign(m, u, among).status = "ready" => ReadAssign(m, u, among) = Ready(ReadAssign(m, u, among).act)
      BY DEF ReadAssign, Answer, Ready
    <3> QED BY <1>7, <3>1, <3>2 DEF Offered
  <2>2. among \in SUBSET Tasks
    BY DEF OpenTasks, CaptureConstants
  <2> HIDE DEF c, among
  <2>3. NamedMember(who, u) = {c.member} /\ u.tasks[c.task].owner # c.member
    BY <2>1, <2>2, AssignRead
  <2>4. c.member = a.member
    BY <1>5, <1>6, <2>3 DEF NamedMember, Active
  <2>5. c.task # a.task
    BY <1>6, <2>3, <2>4
  <2> QED BY <2>5 DEF c
<1> QED BY <1>1, <1>3, <1>4, <1>5, <1>7 DEF NamedMember, Active

\* What an operation makes of a task.
LEMMA UpdateDone ==
  ASSUME NEW k, DOMAIN k = TaskFields, NEW a, a.op \in Operations,
         a.op = "clear_due_date" => a.due = None
  PROVE  /\ AlreadySo(a.op, Updated(k, a), a.due)
         /\ Updated(k, a).status = "done" => a.op = "complete" \/ k.status = "done"
         /\ a.op \in {"reschedule", "clear_due_date"} => Updated(k, a).due = a.due
         /\ a.op \notin {"reschedule", "clear_due_date"} => Updated(k, a).due = k.due
<1> DEFINE next == [k EXCEPT !.at = k.at + 1]
<1>1. DOMAIN next = TaskFields /\ next.status = k.status /\ next.due = k.due
  BY DEF TaskFields
<1>2. Updated(k, a) = CASE a.op = "complete" -> [next EXCEPT !.status = "done", !.reason = None, !.waiting = None]
       [] a.op \in {"start", "resume"} -> [next EXCEPT !.status = "in_progress", !.reason = None, !.waiting = None]
       [] a.op = "block" -> [next EXCEPT !.status = "blocked", !.reason = Text]
       [] a.op \in {"reschedule", "clear_due_date"} -> [next EXCEPT !.due = a.due]
       [] a.op = "set_waiting_on" -> [next EXCEPT !.waiting = Text]
       [] a.op = "clear_waiting_on" -> [next EXCEPT !.waiting = None]
  BY DEF Updated
<1> HIDE DEF next
<1>3. CASE a.op = "complete"
  BY <1>1, <1>2, <1>3 DEF AlreadySo, TaskFields
<1>4. CASE a.op \in {"start", "resume"}
  BY <1>1, <1>2, <1>4 DEF AlreadySo, TaskFields
<1>5. CASE a.op = "block"
  BY <1>1, <1>2, <1>5 DEF AlreadySo, TaskFields
<1>6. CASE a.op = "reschedule"
  BY <1>1, <1>2, <1>6 DEF AlreadySo, TaskFields
<1>7. CASE a.op = "clear_due_date"
  BY <1>1, <1>2, <1>7 DEF AlreadySo, TaskFields
<1>8. CASE a.op \in {"set_waiting_on", "clear_waiting_on"}
  BY <1>1, <1>2, <1>8 DEF AlreadySo, TaskFields
<1> QED BY <1>3, <1>4, <1>5, <1>6, <1>7, <1>8 DEF Operations

LEMMA UpdateSaved ==
  ASSUME CaptureConstants, NEW m, m.topic = "update", m.form = "plain", m.op \in Operations,
         m.date \in {"exact", "wrong", "today"},
         NEW a, NEW v, Recorded(v), Rereading(m, a, v) = Ready(a), a.task \in Tasks,
         NEW w, Recorded(w), Onward(v, w), Holds(m, a, w), NEW u, u = Saved(m, a, w)
  PROVE  /\ a.task \in Named(m, [t \in {a.task} |-> w.tasks[t].title])
         /\ \A t \in Tasks \ {a.task} : u.tasks[t] = w.tasks[t]
         /\ u.tasks[a.task].status = "done" => Unfinished(w, a.task) = {}
         /\ InOrder(u)
         /\ m.op = "reschedule" => u.tasks[a.task].due = DayOf(m.date, a.zone)
         /\ \A z : (a.zone # None => z = a.zone) /\ Offered(m, z, u) => Reading(m, u, z).act.task # a.task
<1> DEFINE k == w.tasks[a.task]
           entry == Updated(k, a)
<1>1. /\ Rereading(m, a, v) = ReadUpdate(m, v, {a.task}, a.zone)
      /\ Holds(m, a, w) <=> /\ k.at = a.at
                            /\ k.status = "done" => a.op = "complete"
                            /\ a.op = "complete" => Unfinished(w, a.task) = {}
                            /\ a.op = "reschedule" => Fits(w, a.task, a.due)
      /\ u = [w EXCEPT !.tasks[a.task] = entry]
  BY DEF Rereading, Holds, Saved
<1>2. /\ a.at = v.tasks[a.task].at /\ a.op = m.op /\ a.due = DueOf(m, a.zone)
      /\ m.op = "reschedule" => DueOf(m, a.zone) # Unclear
      /\ a.task \in Named(m, [t \in {a.task} |-> v.tasks[t].title])
  <2> DEFINE alone == {a.task}
             title == [t \in alone |-> v.tasks[t].title]
  <2>1. ReadUpdate(m, v, alone, a.zone) = Ready(a) /\ alone \in SUBSET Tasks
    BY <1>1
  <2>2. /\ a.at = v.tasks[a.task].at /\ a.op = m.op /\ a.due = DueOf(m, a.zone) /\ a.zone = DayZone(m, a.zone)
        /\ m.op = "reschedule" => DueOf(m, a.zone) # Unclear
        /\ \A f : f = [t \in alone |-> v.tasks[t].title] => Named(m, f) = {a.task}
    <3> HIDE DEF alone, title
    <3> QED BY <2>1, UpdateRead
  <2>3. Named(m, title) = {a.task}
    <3> HIDE DEF alone
    <3> QED BY <2>2
  <2> QED BY <2>2, <2>3
<1>3. a.task \in Named(m, [t \in {a.task} |-> w.tasks[t].title])
  <2>1. w.tasks[a.task].title = v.tasks[a.task].title
    BY <1>1, <1>2 DEF Onward
  <2> QED BY <1>2, <2>1, StillNamed
<1>4. /\ AlreadySo(a.op, entry, a.due)
      /\ entry.status = "done" => a.op = "complete" \/ k.status = "done"
      /\ a.op \in {"reschedule", "clear_due_date"} => entry.due = a.due
      /\ a.op \notin {"reschedule", "clear_due_date"} => entry.due = k.due
  <2>1. DOMAIN k = TaskFields
    BY DEF Recorded, TasksKept
  <2>2. a.op = "clear_due_date" => a.due = None
    BY <1>2 DEF DueOf
  <2> HIDE DEF k
  <2> QED BY <1>2, <2>1, <2>2, UpdateDone
<1>5. u.tasks[a.task] = entry /\ \A t \in Tasks \ {a.task} : u.tasks[t] = w.tasks[t]
  <2>1. DOMAIN w = WorldFields /\ DOMAIN w.tasks = Tasks
    BY DEF Recorded, TasksKept
  <2> HIDE DEF entry
  <2> QED BY <1>1, <2>1 DEF WorldFields
<1> HIDE DEF entry
<1>6. InOrder(u)
  <2>1. entry.due \in {k.due, None} \/ (entry.due \in Int /\ Fits(w, a.task, entry.due))
    <3>1. CASE a.op = "reschedule"
      <4>1. a.due \in Int
        BY <1>2, <3>1 DEF DueOf, DayOf, Unclear
      <4> QED BY <1>1, <1>4, <3>1, <4>1
    <3>2. CASE a.op = "clear_due_date"
      BY <1>2, <1>4, <3>2 DEF DueOf
    <3> QED BY <1>4, <3>1, <3>2
  <2>2. InOrder(w)
    BY DEF Recorded, TasksKept
  <2> QED BY <1>5, <2>1, <2>2, DueMoved
<1>7. ASSUME NEW z, a.zone # None => z = a.zone, Offered(m, z, u) PROVE Reading(m, u, z).act.task # a.task
  <2> DEFINE c == Reading(m, u, z).act
             among == OpenTasks(u) \union Goalward
  <2>1. ReadUpdate(m, u, among, z) = Ready(c)
    <3>1. Reading(m, u, z) = ReadUpdate(m, u, among, z)
      BY DEF Reading
    <3>2. ReadUpdate(m, u, among, z).status = "ready" => ReadUpdate(m, u, among, z) = Ready(ReadUpdate(m, u, among, z).act)
      BY DEF ReadUpdate, Answer, Ready
    <3> QED BY <1>7, <3>1, <3>2 DEF Offered
  <2>2. among \in SUBSET Tasks
    BY DEF OpenTasks, CaptureConstants
  <2> HIDE DEF c, among
  <2>3. ~AlreadySo(m.op, u.tasks[c.task], DueOf(m, z))
    BY <2>1, <2>2, UpdateRead
  <2>4. DueOf(m, z) = DueOf(m, a.zone)
    BY <1>2, <1>7 DEF DueOf, DayOf
  <2>5. c.task # a.task
    BY <1>2, <1>4, <1>5, <2>3, <2>4
  <2> QED BY <2>5 DEF c
<1> QED BY <1>1, <1>2, <1>3, <1>4, <1>5, <1>6, <1>7 DEF DueOf

----------------------------------------------------------------------------
(* What is said.                                                            *)

MessageFields == {"topic", "form", "words", "quoted", "hint", "who", "date", "op", "asked", "gap"}
Understood(m) ==
  /\ m.topic \in AllTopics /\ m.form \in {"plain"} \union DOMAIN Refusals /\ m.who \in Names
  /\ m.form = "plain" /\ m.topic = "update" => m.op \in Operations /\ m.date \in {"exact", "wrong", "today"}
  /\ m.form = "plain" /\ m.topic = "availability" => m.op \in Responses

LEMMA PlainIsPlain ==
  /\ DOMAIN Plain = MessageFields /\ Plain.form = "plain" /\ Plain.who = <<"sam">> /\ Plain.date = "exact"
  /\ \A p \in Mentions : /\ DOMAIN p = MessageFields /\ p.form = "plain" /\ p.who = <<"sam">> /\ p.date = "exact"
<1>1. DOMAIN Plain = MessageFields /\ Plain.form = "plain" /\ Plain.who = <<"sam">> /\ Plain.date = "exact"
  BY DEF Plain, MessageFields
<1>2. ASSUME NEW p \in Mentions
      PROVE  DOMAIN p = MessageFields /\ p.form = "plain" /\ p.who = <<"sam">> /\ p.date = "exact"
  <2>1. \/ \E T \in Titles : p = [Plain EXCEPT !.words = T]
        \/ p = [Plain EXCEPT !.words = {"poster"}, !.hint = TRUE]
        \/ p = [Plain EXCEPT !.words = {"poster"}, !.quoted = {"poster"}]
    BY DEF Mentions
  <2> QED BY <1>1, <2>1 DEF MessageFields
<1> QED BY <1>1, <1>2

LEMMA SaidPlainly ==
  ASSUME NEW topic \in AllTopics, NEW p \in PlainMessages(topic)
  PROVE  /\ DOMAIN p = MessageFields /\ p.form = "plain" /\ p.who \in Names
         /\ topic = "update" => p.op \in Operations /\ p.date \in {"exact", "wrong", "today"}
         /\ topic = "availability" => p.op \in Responses
<1>1. <<"sam">> \in Names
  BY DEF Names
<1>2. CASE topic = "task"
  <2>1. PICK d : p = [Plain EXCEPT !.date = d]
    BY <1>2 DEF PlainMessages
  <2> QED BY <1>1, <1>2, <2>1, PlainIsPlain DEF MessageFields
<1>3. CASE topic = "update"
  <2>1. \/ \E m \in Mentions, o \in Operations : p = [m EXCEPT !.op = o]
        \/ \E d \in {"wrong", "today"} : p = [Plain EXCEPT !.op = "reschedule", !.date = d]
    BY <1>3 DEF PlainMessages
  <2>2. CASE \E m \in Mentions, o \in Operations : p = [m EXCEPT !.op = o]
    BY <1>1, <1>3, <2>2, PlainIsPlain DEF MessageFields
  <2>3. CASE \E d \in {"wrong", "today"} : p = [Plain EXCEPT !.op = "reschedule", !.date = d]
    BY <1>1, <1>3, <2>3, PlainIsPlain DEF MessageFields, Operations
  <2> QED BY <2>1, <2>2, <2>3
<1>4. ASSUME NEW m \in Addressed PROVE DOMAIN m = MessageFields /\ m.form = "plain" /\ m.who \in Names
  <2>1. PICK x \in Mentions, n \in Names : m = [x EXCEPT !.who = n]
    BY DEF Addressed
  <2> QED BY <2>1, PlainIsPlain DEF MessageFields
<1>5. CASE topic = "assign"
  BY <1>4, <1>5 DEF PlainMessages
<1>6. CASE topic = "project" \/ topic = "event"
  <2>1. topic = "project" => \E d : p = [Plain EXCEPT !.date = d]
    BY DEF PlainMessages
  <2>2. topic = "event" => \E d : p = [Plain EXCEPT !.date = d]
    BY DEF PlainMessages
  <2>3. PICK d : p = [Plain EXCEPT !.date = d]
    BY <1>6, <2>1, <2>2
  <2> QED BY <1>1, <1>6, <2>3, PlainIsPlain DEF MessageFields
<1>7. CASE topic = "availability"
  <2>1. PICK m \in Addressed, r \in Responses : p = [m EXCEPT !.op = r]
    BY <1>7 DEF PlainMessages
  <2> QED BY <1>4, <1>7, <2>1 DEF MessageFields
<1>8. CASE topic = "context"
  <2>1. PICK m \in {[Plain EXCEPT !.asked = n] : n \in 0..2}, g \in {"ambition", "lineup"} : p = [m EXCEPT !.gap = g]
    BY <1>8 DEF PlainMessages
  <2>2. PICK n : m = [Plain EXCEPT !.asked = n]
    BY <2>1
  <2> QED BY <1>1, <1>8, <2>1, <2>2, PlainIsPlain DEF MessageFields
<1> QED BY <1>2, <1>3, <1>5, <1>6, <1>7, <1>8 DEF AllTopics

LEMMA SaidUnderstood ==
  ASSUME NEW topic \in AllTopics, NEW m \in Messages(topic)
  PROVE  m.topic = topic /\ Understood(m)
<1>1. \/ \E p \in PlainMessages(topic) : m = [p EXCEPT !.topic = topic]
      \/ \E f \in Forms[topic] : m = [Plain EXCEPT !.topic = topic, !.form = f]
  BY DEF Messages
<1>2. ASSUME NEW p \in PlainMessages(topic), m = [p EXCEPT !.topic = topic]
      PROVE  m.topic = topic /\ Understood(m)
  <2>1. /\ DOMAIN p = MessageFields /\ p.form = "plain" /\ p.who \in Names
        /\ topic = "update" => p.op \in Operations /\ p.date \in {"exact", "wrong", "today"}
        /\ topic = "availability" => p.op \in Responses
    BY SaidPlainly
  <2>2. /\ m.topic = topic /\ m.form = p.form /\ m.who = p.who /\ m.op = p.op /\ m.date = p.date
    BY <1>2, <2>1 DEF MessageFields
  <2> QED BY <2>1, <2>2 DEF Understood
<1>3. ASSUME NEW f \in Forms[topic], m = [Plain EXCEPT !.topic = topic, !.form = f]
      PROVE  m.topic = topic /\ Understood(m)
  <2>1. f \in DOMAIN Refusals /\ f # "plain"
    BY DEF Forms, Refusals, AllTopics
  <2>2. m.topic = topic /\ m.form = f /\ m.who = <<"sam">>
    BY <1>3, PlainIsPlain DEF MessageFields
  <2> QED BY <2>1, <2>2 DEF Understood, Names
<1> QED BY <1>1, <1>2, <1>3

----------------------------------------------------------------------------
(* The proposal.                                                            *)

\* An act that was reviewed: read like this of records that have only gone on since.
Reviewed(m, a, w) == \E v : Recorded(v) /\ Onward(v, w) /\ Rereading(m, a, v) = Ready(a)
Proposed(m, a) ==
  /\ Understood(m) /\ (m.topic = "context" \/ m.form = "plain")
  /\ m.topic = "update" => a.task \in Tasks

CaptureInv ==
  /\ said.topic \in AllTopics
  /\ rec = [phase |-> rec.phase, act |-> rec.act]
  /\ rec.phase # "completed" => Recorded(world)
  /\ rec.phase \in {"proposed", "reviewed"} => Proposed(said, rec.act)
  /\ rec.phase = "reviewed" => Reviewed(said, rec.act, world)

LEMMA OnwardGoesOn ==
  ASSUME NEW v, Recorded(v), NEW w, Recorded(w), NEW u, Recorded(u), Onward(v, w), Onward(w, u)
  PROVE  Onward(v, u)
<1>1. \A t \in Tasks : v.tasks[t].at \in Nat /\ w.tasks[t].at \in Nat /\ u.tasks[t].at \in Nat
  BY DEF Recorded, TasksKept
<1>2. v.profile.at \in Nat /\ w.profile.at \in Nat /\ u.profile.at \in Nat
  BY DEF Recorded
<1>3. ASSUME NEW t \in Tasks
      PROVE  /\ v.tasks[t].at <= u.tasks[t].at
             /\ u.tasks[t].at = v.tasks[t].at => u.tasks[t].title = v.tasks[t].title
  BY <1>1 DEF Onward
<1>4. v.profile.at <= u.profile.at /\ (u.profile.at = v.profile.at => u.profile.open = v.profile.open)
  BY <1>2 DEF Onward
<1> QED BY <1>3, <1>4 DEF Onward

LEMMA CaptureStart == ASSUME CaptureConstants, CaptureInit PROVE CaptureInv
<1>1. said.topic \in AllTopics /\ rec = [phase |-> rec.phase, act |-> rec.act] /\ rec.phase = "none"
  BY DEF CaptureConstants, CaptureInit, NoProposal
<1>2. TasksKept(World0)
  <2>1. \A t \in Tasks : /\ DOMAIN World0.tasks[t] = TaskFields
                         /\ World0.tasks[t].at = 0 /\ World0.tasks[t].due = None
    BY DEF World0, TaskFields
  <2>2. World0.tasks = [t \in Tasks |-> World0.tasks[t]]
    BY DEF World0
  <2>3. InOrder(World0)
    BY <2>1 DEF InOrder, CaptureConstants
  <2> QED BY <2>1, <2>2, <2>3 DEF TasksKept
<1>3. MembersKept(World0) /\ ShowsKept(World0)
  <2>1. World0.members = [b \in Members |-> World0.members[b]] /\ World0.shows = [s \in Shows |-> World0.shows[s]]
    BY DEF World0
  <2>2. \A b \in Members : DOMAIN World0.members[b] = MemberFields /\ World0.members[b].name = <<"sam", b>>
    BY DEF World0, MemberFields
  <2>3. \A s \in Shows : DOMAIN World0.shows[s] = ShowFields /\ World0.shows[s].answer = [b \in Members |-> None]
    BY DEF World0, ShowFields
  <2> QED BY <2>1, <2>2, <2>3 DEF MembersKept, ShowsKept
<1>4. DOMAIN World0 = WorldFields /\ DOMAIN World0.profile = {"open", "at"} /\ World0.profile.at = 0
  BY DEF World0, WorldFields
<1>5. Recorded(world)
  BY <1>2, <1>3, <1>4 DEF Recorded, CaptureInit
<1> QED BY <1>1, <1>5 DEF CaptureInv

Whynots == {"needs_clarification", "already_current", "blocked_unavailable", "duplicate"}
LEMMA EitherSays ==
  ASSUME NEW r, (\E why \in Whynots : r = Answer(why)) \/ (\E act : r = Ready(act))
  PROVE  /\ r.status \notin {"proposed", "reviewed", "completed"}
         /\ r.status = "ready" => r = Ready(r.act)
BY Answers DEF Whynots

\* A reading proposes or it says why not.
LEMMA ReadingSays ==
  ASSUME CaptureConstants, NEW m, Understood(m), NEW w, NEW zone
  PROVE  LET r == Reading(m, w, zone)
         IN /\ r.status \notin {"proposed", "reviewed", "completed"}
            /\ r.status = "ready" => Proposed(m, r.act)
<1> DEFINE r == Reading(m, w, zone)
<1>1. CASE m.form # "plain" /\ m.topic # "context"
  <2>1. r = Answer(Refusals[m.form]) /\ m.form \in DOMAIN Refusals
    BY <1>1 DEF Reading, Understood
  <2> QED BY <2>1, FormsRefused, Answers
<1>2. CASE m.topic = "context"
  <2>1. r = ReadContext(m, w)
    BY <1>2 DEF Reading
  <2>2. r.status \notin {"proposed", "reviewed", "completed"}
    BY <2>1, FormsRefused, Answers DEF ReadContext, Understood
  <2> QED BY <1>2, <2>2 DEF Proposed
<1>3. CASE m.form = "plain" /\ m.topic = "update"
  <2> DEFINE among == OpenTasks(w) \union Goalward
  <2>1. r = ReadUpdate(m, w, among, zone)
    BY <1>3 DEF Reading
  <2>2. (\E why \in Whynots : r = Answer(why)) \/ (\E act : r = Ready(act))
    <3> HIDE DEF r, among
    <3> QED BY <2>1 DEF ReadUpdate, Whynots
  <2>3. ASSUME r.status = "ready" PROVE r.act.task \in Tasks
    <3>1. r = Ready(r.act)
      <4> HIDE DEF r
      <4> QED BY <2>2, <2>3, EitherSays
    <3>2. among \in SUBSET Tasks
      BY DEF OpenTasks, CaptureConstants
    <3> HIDE DEF among, r
    <3>3. ReadUpdate(m, w, among, zone) = Ready(r.act)
      BY <2>1, <3>1
    <3> DEFINE a == r.act
    <3>4. ReadUpdate(m, w, among, zone) = Ready(a) /\ a = r.act
      BY <3>3
    <3> HIDE DEF a
    <3>5. a.task \in among
      BY <3>2, <3>4, UpdateRead
    <3> QED BY <3>2, <3>4, <3>5
  <2>4. r.status \notin {"proposed", "reviewed", "completed"}
    <3> HIDE DEF r
    <3> QED BY <2>2, EitherSays
  <2> QED BY <1>3, <2>3, <2>4 DEF Proposed
<1>4. CASE m.form = "plain" /\ m.topic \notin {"update", "context"}
  <2> DEFINE says == (\E why \in Whynots : r = Answer(why)) \/ (\E act : r = Ready(act))
  <2>1. says
    <3>1. CASE m.topic = "task"
      <4>1. r = ReadTask(m, OpenTitles(w), zone)
        BY <1>4, <3>1 DEF Reading
      <4> HIDE DEF r
      <4> QED BY <4>1 DEF ReadTask, Whynots
    <3>2. CASE m.topic = "assign"
      <4>1. r = ReadAssign(m, w, OpenTasks(w) \union Goalward)
        BY <1>4, <3>2 DEF Reading
      <4> HIDE DEF r
      <4> QED BY <4>1 DEF ReadAssign, Whynots
    <3>3. CASE m.topic = "project"
      <4>1. r = ReadProject(m, InPlan(w.projects))
        BY <1>4, <3>3 DEF Reading
      <4> HIDE DEF r
      <4> QED BY <4>1 DEF ReadProject, Whynots
    <3>4. CASE m.topic = "event"
      <4>1. r = ReadEvent(m, w, InPlan(w.events), zone)
        BY <1>4, <3>4 DEF Reading
      <4> HIDE DEF r
      <4> QED BY <4>1 DEF ReadEvent, Whynots
    <3>5. CASE m.topic = "availability"
      <4>1. r = ReadAvailability(m, w)
        BY <1>4, <3>5 DEF Reading
      <4> HIDE DEF r
      <4> QED BY <4>1 DEF ReadAvailability, Whynots
    <3> QED BY <1>4, <3>1, <3>2, <3>3, <3>4, <3>5 DEF Understood, AllTopics
  <2>2. r.status \notin {"proposed", "reviewed", "completed"}
    <3> HIDE DEF r
    <3> QED BY <2>1, EitherSays
  <2> QED BY <1>4, <2>2 DEF Proposed
<1> QED BY <1>1, <1>2, <1>3, <1>4

LEMMA CaptureStep ==
  ASSUME CaptureConstants, CaptureInv, CaptureNext \/ UNCHANGED captureVars
  PROVE  CaptureInv'
<1>1. CASE Say
  <2>1. PICK m \in Messages(said.topic) :
          LET r == Reading(m, world, world.zone)
          IN  /\ said' = m
              /\ rec' = [phase |-> IF r.status = "ready" THEN "proposed" ELSE r.status, act |-> r.act]
    BY <1>1 DEF Say
  <2>2. world' = world /\ rec.phase = "none" /\ Recorded(world) /\ said.topic \in AllTopics
    BY <1>1 DEF Say, CaptureInv
  <2>3. m.topic = said.topic /\ Understood(m)
    BY <2>2, SaidUnderstood
  <2> DEFINE r == Reading(m, world, world.zone)
  <2>4. /\ r.status \notin {"proposed", "reviewed", "completed"}
        /\ r.status = "ready" => Proposed(m, r.act)
    BY <2>3, ReadingSays
  <2>5. said' = m /\ rec'.phase = (IF r.status = "ready" THEN "proposed" ELSE r.status) /\ rec'.act = r.act
        /\ rec' = [phase |-> rec'.phase, act |-> rec'.act]
    BY <2>1
  <2> HIDE DEF r
  <2> QED BY <2>2, <2>3, <2>4, <2>5 DEF CaptureInv
<1>2. CASE Reread
  <2>1. /\ rec'.phase = "reviewed" /\ rec'.act = rec.act /\ rec' = [phase |-> rec'.phase, act |-> rec'.act]
        /\ world' = world /\ said' = said /\ Recorded(world) /\ Proposed(said, rec.act)
        /\ Rereading(said, rec.act, world) = Ready(rec.act)
    BY <1>2 DEF Reread, CaptureInv
  <2>2. Reviewed(said, rec.act, world)
    BY <2>1, SameOnward DEF Reviewed
  <2> QED BY <2>1, <2>2 DEF CaptureInv
<1>3. CASE Save
  <2>1. /\ rec'.act = rec.act /\ rec' = [phase |-> rec'.phase, act |-> rec'.act] /\ said' = said
        /\ rec'.phase = "completed" \/ (rec'.phase = "proposed" /\ world' = world)
        /\ Recorded(world) /\ Proposed(said, rec.act)
    BY <1>3 DEF Save, CaptureInv
  <2> QED BY <2>1 DEF CaptureInv
<1>4. CASE Edit
  <2>1. said' = said /\ rec' = rec
    BY <1>4 DEF Edit
  <2>2. CASE rec.phase = "completed"
    BY <2>1, <2>2 DEF CaptureInv
  <2>3. CASE rec.phase # "completed"
    <3>1. Recorded(world) /\ Recorded(world') /\ Onward(world, world')
      BY <1>4, <2>3, EditKeeps DEF CaptureInv
    <3>2. Reviewed(said, rec.act, world) => Reviewed(said, rec.act, world')
      BY <3>1, OnwardGoesOn DEF Reviewed
    <3> QED BY <2>1, <2>3, <3>1, <3>2 DEF CaptureInv
  <2> QED BY <2>2, <2>3
<1>5. CASE UNCHANGED captureVars
  BY <1>5 DEF captureVars, CaptureInv
<1> QED BY <1>1, <1>2, <1>3, <1>4, <1>5 DEF CaptureNext

\* What is known at a save.
LEMMA AtSave ==
  ASSUME CaptureInv, CaptureNext \/ UNCHANGED captureVars, rec.phase = "reviewed", rec'.phase = "completed"
  PROVE  /\ said.topic \in AllTopics /\ Proposed(said, rec.act) /\ Recorded(world)
         /\ Holds(said, rec.act, world) /\ world' = Saved(said, rec.act, world)
         /\ Reviewed(said, rec.act, world)
BY DEF CaptureInv, CaptureNext, Say, Reread, Save, Edit, captureVars

LEMMA SavesAsSaid ==
  ASSUME CaptureConstants, CaptureInv, CaptureNext \/ UNCHANGED captureVars
  PROVE  SavedAsSaid /\ SaidAgain
<1> SUFFICES ASSUME rec.phase = "reviewed", rec'.phase = "completed" PROVE SavedAsSaid /\ SaidAgain
  BY DEF SavedAsSaid, SaidAgain
<1> DEFINE m == said
           a == rec.act
           u == world'
           zone == IF said.topic \in {"task", "update", "event"} /\ a.zone # None THEN a.zone ELSE world'.zone
           again == Reading(m, u, zone)
<1>1. /\ m.topic \in AllTopics /\ Proposed(m, a) /\ Recorded(world)
      /\ Holds(m, a, world) /\ u = Saved(m, a, world)
  BY AtSave
<1>2. PICK v : Recorded(v) /\ Onward(v, world) /\ Rereading(m, a, v) = Ready(a)
  BY AtSave DEF Reviewed
<1>3. again.status = "ready" <=> Offered(m, zone, u)
  BY DEF Offered
<1>4. CASE m.topic = "task"
  <2>1. /\ m.words \notin OpenTitles(world)
        /\ \E n \in u.made : n.title = m.words /\ n.due = DayOf(m.date, a.zone)
        /\ \A z : ~Offered(m, z, u)
    BY <1>1, <1>2, <1>4, TaskSaved DEF Proposed
  <2> QED BY <1>3, <1>4, <2>1 DEF SavedAsSaid, SaidAgain
<1>5. CASE m.topic = "update"
  <2>1. m.form = "plain" /\ m.op \in Operations /\ m.date \in {"exact", "wrong", "today"} /\ a.task \in Tasks
    BY <1>1, <1>5 DEF Proposed, Understood
  <2>2. /\ a.task \in Named(m, [t \in {a.task} |-> world.tasks[t].title])
        /\ \A t \in Tasks \ {a.task} : u.tasks[t] = world.tasks[t]
        /\ u.tasks[a.task].status = "done" => Unfinished(world, a.task) = {}
        /\ InOrder(u)
        /\ m.op = "reschedule" => u.tasks[a.task].due = DayOf(m.date, a.zone)
        /\ \A z : (a.zone # None => z = a.zone) /\ Offered(m, z, u) => Reading(m, u, z).act.task # a.task
    <3> HIDE DEF m, a, u
    <3> QED BY <1>1, <1>2, <1>5, <2>1, UpdateSaved
  <2>3. a.zone # None => zone = a.zone
    BY <1>5
  <2>4. SavedAsSaid
    BY <1>5, <2>2 DEF SavedAsSaid, InOrder
  <2>5. SaidAgain
    BY <1>3, <1>5, <2>2, <2>3 DEF SaidAgain
  <2> QED BY <2>4, <2>5
<1>6. CASE m.topic = "assign"
  <2>1. /\ world.tasks[a.task].status # "done" /\ world.tasks[a.task].owner = a.from
        /\ a.task \in Named(m, [t \in {a.task} |-> world.tasks[t].title])
        /\ a.member \in Active(world) /\ world.members[a.member].checkIn # "unavailable"
        /\ m.who \in {world.members[a.member].name, <<world.members[a.member].name[1]>>}
        /\ \A z : Offered(m, z, u) => Reading(m, u, z).act.task # a.task
    <3>1. m.form = "plain" /\ m.who \in Names
      BY <1>1, <1>6 DEF Proposed, Understood
    <3> HIDE DEF m, a, u
    <3> QED BY <1>1, <1>2, <1>6, <3>1, AssignSaved
  <2>2. SavedAsSaid
    BY <1>6, <2>1 DEF SavedAsSaid
  <2>3. SaidAgain
    BY <1>3, <1>6, <2>1 DEF SaidAgain
  <2> QED BY <2>2, <2>3
<1>7. CASE m.topic = "project"
  <2>1. /\ ~\E p \in NotCancelled(world.projects) : p.name = m.words /\ p.due = 2
        /\ \A z : ~Offered(m, z, u)
    BY <1>1, <1>2, <1>7, ProjectSaved DEF Proposed
  <2> QED BY <1>3, <1>7, <2>1 DEF SavedAsSaid, SaidAgain
<1>8. CASE m.topic = "event"
  <2>1. /\ ~\E e \in NotCancelled(world.events) : e.title = m.words /\ e.start = Start(m.date, a.zone)
        /\ \E e \in u.events : e.start = Start(m.date, a.zone) /\ e.lineup = a.lineup
        /\ a.zone # None /\ ~Offered(m, a.zone, u)
    BY <1>1, <1>2, <1>8, EventSaved DEF Proposed
  <2> QED BY <1>3, <1>8, <2>1 DEF SavedAsSaid, SaidAgain
<1>9. CASE m.topic = "availability"
  <2>1. /\ AnswerOf(m, world, a) /\ u.shows[a.show].answer[a.member] = m.op
        /\ \A z : Offered(m, z, u) => Reading(m, u, z).act.show # a.show
    <3>1. m.form = "plain" /\ m.op \in Responses
      BY <1>1, <1>9 DEF Proposed, Understood
    <3> HIDE DEF m, a, u
    <3> QED BY <1>1, <1>9, <3>1, AvailabilitySaved
  <2>2. SavedAsSaid
    BY <1>9, <2>1 DEF SavedAsSaid, AnswerOf, ShowTitles
  <2>3. SaidAgain
    BY <1>3, <1>9, <2>1 DEF SaidAgain
  <2> QED BY <2>2, <2>3
<1>10. CASE m.topic = "context"
  <2>1. m.gap \in world.profile.open /\ m.gap \notin u.profile.open /\ \A z : ~Offered(m, z, u)
    BY <1>1, <1>2, <1>10, ContextSaved DEF Proposed, Understood
  <2> QED BY <1>3, <1>10, <2>1 DEF SavedAsSaid, SaidAgain
<1> QED BY <1>1, <1>4, <1>5, <1>6, <1>7, <1>8, <1>9, <1>10 DEF AllTopics

\* What is saved is the one change the message asks for, to a record it still names
\* and nobody touched since it was reviewed (SavedAsSaid).
THEOREM SavedAsSaidAlways ==
  ASSUME CaptureConstants
  PROVE  CaptureSpec => [][SavedAsSaid]_captureVars
<1>1. CaptureInit => CaptureInv
  BY CaptureStart
<1>2. CaptureInv /\ [CaptureNext]_captureVars => CaptureInv' /\ [SavedAsSaid]_captureVars
  BY CaptureStep, SavesAsSaid
<1> QED BY <1>1, <1>2, PTL DEF CaptureSpec

\* Saying the same again is never offered as the same change again (SaidAgain).
THEOREM SaidAgainAlways ==
  ASSUME CaptureConstants
  PROVE  CaptureSpec => [][SaidAgain]_captureVars
<1>1. CaptureInit => CaptureInv
  BY CaptureStart
<1>2. CaptureInv /\ [CaptureNext]_captureVars => CaptureInv' /\ [SaidAgain]_captureVars
  BY CaptureStep, SavesAsSaid
<1> QED BY <1>1, <1>2, PTL DEF CaptureSpec
=============================================================================
