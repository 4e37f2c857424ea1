------------------------ MODULE SocialPublishingProofs ------------------------
(* Theorems about SocialPublishing and SocialAdapters, for any platforms,       *)
(* requests, edits, replies of the adapters, chunks and polls; and about        *)
(* Workspaces, for any tabs, operators, bands and faults.                       *)
EXTENDS SocialPublishing, SocialAdapters, Workspaces, WellFoundedInduction, TLAPS

-----------------------------------------------------------------------------
(* Typing *)

LEMMA IdleTyped ==
  /\ Idle \in RequestStates
  /\ \A pc \in PCs : [Idle EXCEPT !.pc = pc] \in RequestStates
<1>1. (CHOOSE t \in Targets : TRUE) \in Targets
  BY SocialConstants
<1>2. Drafts \in Snapshots
  BY DEF Drafts, Snapshots, Contents, Accounts
<1> QED BY <1>1, <1>2 DEF Idle, RequestStates, PCs, Results

LEMMA EditedTyped ==
  ASSUME NEW snapshot \in Snapshots, NEW edit \in Edits \union {NoEdit}
  PROVE  Edited(snapshot, edit) \in Snapshots
<1>1. edit \in [Targets -> Contents \union {"keep"}]
  BY SocialConstants DEF NoEdit
<1>2. \A t \in Targets : edit[t] # "keep" => [snapshot[t] EXCEPT !.content = edit[t]]
                                                \in [content : Contents, account : Accounts]
  BY <1>1 DEF Snapshots
<1> QED BY <1>1, <1>2 DEF Edited, Snapshots

LEMMA CurrentTyped == ASSUME TypeOK PROVE Current \in Snapshots
BY DEF TypeOK, Rows, Current, Snapshots

\* The request goes elsewhere with what it knows, or with nothing.
Others(q) == \A p \in Requests \ {q} : req'[p] = req[p]

LEMMA MovesTo ==
  ASSUME TypeOK, NEW q \in Requests, NEW y \in RequestStates, req' = [req EXCEPT ![q] = y]
  PROVE  req' \in [Requests -> RequestStates] /\ Others(q) /\ req'[q] = y
BY DEF TypeOK, Others

LEMMA GotoMoves ==
  ASSUME TypeOK, NEW q \in Requests, NEW pc \in PCs, Goto(q, pc)
  PROVE  /\ req' \in [Requests -> RequestStates] /\ Others(q)
         /\ req'[q].pc = pc /\ req'[q].todo = req[q].todo /\ req'[q].results = req[q].results
<1> DEFINE y == [req[q] EXCEPT !.pc = pc]
<1>1. /\ y \in RequestStates
      /\ y.pc = pc /\ y.todo = req[q].todo /\ y.results = req[q].results
  BY DEF TypeOK, RequestStates
<1>2. req' = [req EXCEPT ![q] = y]
  BY DEF Goto
<1> HIDE DEF y
<1> QED BY <1>1, <1>2, MovesTo

LEMMA EnterMoves ==
  ASSUME TypeOK, NEW q \in Requests, NEW pc \in PCs, Enter(q, pc)
  PROVE  req' \in [Requests -> RequestStates] /\ Others(q) /\ req'[q].pc = pc
<1> DEFINE y == [Idle EXCEPT !.pc = pc]
<1>1. y \in RequestStates /\ y.pc = pc
  BY IdleTyped DEF Idle
<1>2. req' = [req EXCEPT ![q] = y]
  BY DEF Enter
<1> HIDE DEF y
<1> QED BY <1>1, <1>2, MovesTo

LEMMA ReturnMoves ==
  ASSUME TypeOK, NEW q \in Requests, Return(q)
  PROVE  req' \in [Requests -> RequestStates] /\ Others(q) /\ req'[q].pc = "idle"
<1>1. Idle \in RequestStates /\ Idle.pc = "idle"
  BY IdleTyped DEF Idle
<1>2. req' = [req EXCEPT ![q] = Idle]
  BY DEF Return
<1> HIDE DEF Idle
<1> QED BY <1>1, <1>2, MovesTo

LEMMA ReviewMoves ==
  ASSUME TypeOK, NEW q \in Requests, Review(q)
  PROVE  req' \in [Requests -> RequestStates] /\ Others(q) /\ req'[q].pc = "decided"
<1> DEFINE y == [Idle EXCEPT !.pc = "decided", !.edit = req[q].edit]
<1>1. Idle \in RequestStates /\ req[q] \in RequestStates
  BY IdleTyped DEF TypeOK
<1>2. y \in RequestStates /\ y.pc = "decided"
  <2> HIDE DEF Idle
  <2> QED BY <1>1 DEF RequestStates, PCs
<1>3. req' = [req EXCEPT ![q] = y]
  BY DEF Review
<1> HIDE DEF y
<1> QED BY <1>2, <1>3, MovesTo

LEMMA ViewMoves ==
  ASSUME TypeOK, NEW q \in Requests, NEW edit \in Edits,
         req' = [req EXCEPT ![q] = [Idle EXCEPT !.pc = "approve", !.seen = Fingerprint,
                                                !.edit = edit]]
  PROVE  req' \in [Requests -> RequestStates] /\ Others(q) /\ req'[q].pc = "approve"
<1> DEFINE y == [Idle EXCEPT !.pc = "approve", !.seen = Fingerprint, !.edit = edit]
<1>1. Fingerprint \in Snapshots
  BY CurrentTyped DEF TypeOK, ApprovalStates, Fingerprint
<1>2. Idle \in RequestStates
  BY IdleTyped
<1>3. y \in RequestStates /\ y.pc = "approve"
  BY <1>1, <1>2 DEF RequestStates, PCs
<1>4. req' = [req EXCEPT ![q] = y]
  OBVIOUS
<1> HIDE DEF y
<1> QED BY <1>3, <1>4, MovesTo

\* The decision is prepared: the plan is what the owner saw, edited.
LEMMA PlanMoves ==
  ASSUME TypeOK, NEW q \in Requests, NEW plan \in Snapshots,
         req' = [req EXCEPT ![q].pc = "write", ![q].plan = plan]
  PROVE  /\ req' \in [Requests -> RequestStates] /\ Others(q)
         /\ req'[q].pc = "write" /\ req'[q].plan = plan
         /\ req'[q].seen = req[q].seen /\ req'[q].edit = req[q].edit
<1> DEFINE y == [req[q] EXCEPT !.pc = "write", !.plan = plan]
<1>1. req[q] \in RequestStates
  BY DEF TypeOK
<1>2. /\ y \in RequestStates
      /\ y.pc = "write" /\ y.plan = plan
      /\ y.seen = req[q].seen /\ y.edit = req[q].edit
  BY <1>1 DEF RequestStates, PCs
<1>4. req' = [req EXCEPT ![q] = y]
  OBVIOUS
<1> HIDE DEF y
<1> QED BY <1>2, <1>4, MovesTo

\* The claims of the post and of a target, the call, and the writing of its result.
LEMMA ClaimPostMoves ==
  ASSUME TypeOK, NEW q \in Requests, NEW todo \in SUBSET Targets,
         req' = [req EXCEPT ![q].pc = "targets", ![q].todo = todo]
  PROVE  /\ req' \in [Requests -> RequestStates] /\ Others(q)
         /\ req'[q].pc = "targets" /\ req'[q].todo = todo
         /\ req'[q].results = req[q].results
<1> DEFINE y == [req[q] EXCEPT !.pc = "targets", !.todo = todo]
<1>1. req[q] \in RequestStates
  BY DEF TypeOK
<1>2. /\ y \in RequestStates
      /\ y.pc = "targets" /\ y.todo = todo
      /\ y.results = req[q].results
  BY <1>1 DEF RequestStates, PCs
<1>4. req' = [req EXCEPT ![q] = y]
  OBVIOUS
<1> HIDE DEF y
<1> QED BY <1>2, <1>4, MovesTo

LEMMA ClaimTargetMoves ==
  ASSUME TypeOK, NEW q \in Requests, NEW t \in Targets,
         req' = [req EXCEPT ![q].pc = "send", ![q].target = t]
  PROVE  /\ req' \in [Requests -> RequestStates] /\ Others(q)
         /\ req'[q].pc = "send" /\ req'[q].target = t
         /\ req'[q].todo = req[q].todo /\ req'[q].results = req[q].results
<1> DEFINE y == [req[q] EXCEPT !.pc = "send", !.target = t]
<1>1. req[q] \in RequestStates
  BY DEF TypeOK
<1>2. /\ y \in RequestStates
      /\ y.pc = "send" /\ y.target = t
      /\ y.todo = req[q].todo /\ y.results = req[q].results
  BY <1>1 DEF RequestStates, PCs
<1>4. req' = [req EXCEPT ![q] = y]
  OBVIOUS
<1> HIDE DEF y
<1> QED BY <1>2, <1>4, MovesTo

LEMMA SendMoves ==
  ASSUME TypeOK, NEW q \in Requests, NEW outcome \in Outcomes,
         req' = [req EXCEPT ![q].pc = "record", ![q].results[req[q].target] = outcome]
  PROVE  /\ req' \in [Requests -> RequestStates] /\ Others(q)
         /\ req'[q].pc = "record" /\ req'[q].target = req[q].target /\ req'[q].todo = req[q].todo
         /\ req'[q].results = [req[q].results EXCEPT ![req[q].target] = outcome]
<1> DEFINE y == [req[q] EXCEPT !.pc = "record",
                                !.results = [@ EXCEPT ![req[q].target] = outcome]]
<1>1. req[q] \in RequestStates
  BY DEF TypeOK
<1>3. [req[q].results EXCEPT ![req[q].target] = outcome] \in Results
  BY <1>1 DEF RequestStates, Results
<1>2. /\ y \in RequestStates
      /\ y.pc = "record" /\ y.target = req[q].target /\ y.todo = req[q].todo
      /\ y.results = [req[q].results EXCEPT ![req[q].target] = outcome]
  BY <1>1, <1>3 DEF RequestStates, PCs
<1>4. req' = [req EXCEPT ![q] = y]
  OBVIOUS
<1> HIDE DEF y
<1> QED BY <1>2, <1>4, MovesTo

LEMMA RecordMoves ==
  ASSUME TypeOK, NEW q \in Requests, NEW t \in Targets,
         req' = [req EXCEPT ![q].pc = "targets", ![q].todo = @ \ {t}]
  PROVE  /\ req' \in [Requests -> RequestStates] /\ Others(q)
         /\ req'[q].pc = "targets" /\ req'[q].todo = req[q].todo \ {t}
         /\ req'[q].results = req[q].results
<1>1. req[q].todo \ {t} \in SUBSET Targets
  BY DEF TypeOK, RequestStates
<1>2. req' = [req EXCEPT ![q].pc = "targets", ![q].todo = req[q].todo \ {t}]
  OBVIOUS
<1> QED BY <1>1, <1>2, ClaimPostMoves

-----------------------------------------------------------------------------
(* The invariant *)

\* From the claim of the attempt to the record of how it ended.
Executing == {"check", "post", "targets", "send", "record", "stop", "finalize"}
Claimed == Executing \union {"audit", "catch"}
Batching == {"targets", "send", "record", "finalize"}
Settled == {"approved", "executed", "failed"}
Denied == {"unknown", "failed"}

\* One request at most executes.
ClaimAlone ==
  /\ \A q \in Requests : req[q].pc \in Claimed => approval.attempt # "none"
  /\ \A q, p \in Requests : req[q].pc \in Claimed /\ req[p].pc \in Claimed => q = p

Lifecycle ==
  /\ post = "absent" => approval.status = "absent"
  /\ approval.attempt # "none" \/ approval.signed => approval.status \in Settled
  /\ \A q \in Requests : req[q].pc \in Executing => approval.status = "approved"

\* What is approved is what was reviewed, and what a decision is about to write is.
PlanReviewed ==
  /\ approval.status \in Settled => approval.payload = reviewed
  /\ \A q \in Requests : At(q, "write") => req[q].plan = Edited(req[q].seen, req[q].edit)

\* What went out went out once, as reviewed, and its row says it may have.
SentOnce ==
  \A t \in Targets :
    sent[t] # <<>> => /\ sent[t] = <<reviewed[t]>>
                      /\ approval.attempt # "none"
                      /\ row[t].log # "none"
                      /\ row[t].status \notin {"pending", "skipped"}

RowTruthful(t) ==
  row[t].status \in Outcomes => /\ row[t].log = row[t].status
                                /\ row[t].status \notin Denied => sent[t] # <<>>

\* How far the request that executes has got.
BatchOf(q) ==
  /\ req[q].pc \in Batching =>
       /\ req[q].todo \subseteq Enabled(approval.payload)
       /\ \A t \in Enabled(approval.payload) \ req[q].todo :
            req[q].results[t] = row[t].status /\ row[t].status \in Outcomes
  /\ req[q].pc \in {"send", "record"} =>
       req[q].target \in req[q].todo /\ row[req[q].target].status = "sending"
                                     /\ row[req[q].target].log # "none"
  /\ At(q, "send") => sent[req[q].target] = <<>>
  /\ At(q, "record") =>
       /\ req[q].results[req[q].target] \in Outcomes
       /\ req[q].results[req[q].target] \notin Denied => sent[req[q].target] # <<>>
  /\ At(q, "finalize") => req[q].todo = {} /\ post \notin Unresolved

ExecutedTruthful ==
  approval.status = "executed" =>
    /\ post \notin Unresolved
    /\ \A t \in Enabled(approval.payload) : row[t].status \in Complete

DropInv ==
  /\ TypeOK
  /\ ClaimAlone
  /\ Lifecycle
  /\ PlanReviewed
  /\ SentOnce
  /\ \A t \in Targets : RowTruthful(t)
  /\ \A q \in Requests : BatchOf(q)
  /\ ExecutedTruthful

LEMMA DropInit == Init => DropInv
<1> SUFFICES ASSUME Init PROVE DropInv
  OBVIOUS
<1>1. Drafts \in Snapshots /\ account \in [Targets -> Accounts]
  BY DEF Init, Drafts, Snapshots, Contents, Accounts
<1>2. approval \in ApprovalStates
  <2> HIDE DEF Drafts
  <2> QED BY <1>1 DEF Init, ApprovalStates
<1>3. TypeOK
  <2>1. req \in [Requests -> RequestStates]
    BY IdleTyped DEF Init
  <2>2. row \in [Targets -> Rows]
    BY DEF Init, Rows, Contents
  <2>3. sent \in [Targets -> Seq([content : Contents, account : Accounts])]
    BY DEF Init
  <2> QED BY <1>1, <1>2, <2>1, <2>2, <2>3 DEF Init, TypeOK, PostStatuses
<1>4. \A q \in Requests : req[q].pc = "idle"
  BY DEF Init, Idle
<1>5. /\ approval.status = "absent" /\ \A t \in Targets : sent[t] = <<>>
      /\ \A t \in Targets : row[t].status = "pending"
      /\ approval.attempt = "none" /\ ~approval.signed
  BY DEF Init
<1> QED BY <1>3, <1>4, <1>5 DEF DropInv, ClaimAlone, Lifecycle, PlanReviewed, SentOnce, RowTruthful,
      BatchOf, ExecutedTruthful, Executing, Claimed, Batching, Settled, Outcomes, Complete, At

-----------------------------------------------------------------------------
(* The steps *)

\* A request moves on and changes none of the records; it does not come to hold
\* a claim, and not where it would have to know something.
LEMMA DropFrame ==
  ASSUME DropInv, NEW q \in Requests, Others(q), req' \in [Requests -> RequestStates],
         UNCHANGED <<post, linked, row, account, approval, history>>,
         req'[q].pc \in Claimed => req[q].pc \in Claimed,
         req'[q].pc \in Executing => req[q].pc \in Executing,
         req'[q].pc \notin Batching \union {"write"}
  PROVE  DropInv'
<1>1. TypeOK'
  BY DEF DropInv, TypeOK, history
<1>2. ClaimAlone'
  BY DEF DropInv, ClaimAlone, Others, history
<1>3. Lifecycle'
  BY DEF DropInv, Lifecycle, Others, history
<1>4. PlanReviewed'
  BY DEF DropInv, PlanReviewed, Others, At, history
<1>5. SentOnce' /\ \A t \in Targets : RowTruthful(t)'
  BY DEF DropInv, SentOnce, RowTruthful, history
<1>6. \A p \in Requests : BatchOf(p)'
  <2> TAKE p \in Requests
  <2>1. CASE p = q
    BY <2>1 DEF BatchOf, At, Batching
  <2>2. CASE p # q
    BY <2>2 DEF DropInv, BatchOf, Others, Enabled, At, history
  <2> QED BY <2>1, <2>2
<1>7. ExecutedTruthful'
  BY DEF DropInv, ExecutedTruthful, Enabled, history
<1> QED BY <1>1, <1>2, <1>3, <1>4, <1>5, <1>6, <1>7 DEF DropInv

\* Nothing the invariant is about changes.
LEMMA DropStutters ==
  ASSUME DropInv, account' \in [Targets -> Accounts], linked' \in BOOLEAN,
         UNCHANGED <<post, row, approval, req, history>>
  PROVE  DropInv'
<1>1. TypeOK'
  BY DEF DropInv, TypeOK, history
<1>2. ClaimAlone' /\ Lifecycle' /\ PlanReviewed'
  BY DEF DropInv, ClaimAlone, Lifecycle, PlanReviewed, At, history
<1>3. SentOnce' /\ \A t \in Targets : RowTruthful(t)'
  BY DEF DropInv, SentOnce, RowTruthful, history
<1>4. \A q \in Requests : BatchOf(q)'
  BY DEF DropInv, BatchOf, Enabled, At, history
<1>5. ExecutedTruthful'
  BY DEF DropInv, ExecutedTruthful, Enabled, history
<1> QED BY <1>1, <1>2, <1>3, <1>4, <1>5 DEF DropInv

\* The actions outside the requests: none of them reaches a drop that is decided.
LEMMA DropOutside ==
  ASSUME DropInv, \/ Draft \/ Propose \/ Link \/ (\E t \in Targets : Reconnect(t))
                  \/ ApproveInCenter \/ Reject \/ Hour
  PROVE  DropInv'
<1>1. CASE Draft
  <2>1. /\ approval.status = "absent" /\ approval.attempt = "none" /\ ~approval.signed
        /\ \A t \in Targets : sent[t] = <<>>
    BY <1>1 DEF DropInv, Lifecycle, SentOnce, Draft, Settled
  <2>2. /\ approval' \in ApprovalStates
        /\ approval'.status = "absent" /\ approval'.attempt = "none" /\ ~approval'.signed
    BY <1>1, <2>1, CurrentTyped DEF DropInv, TypeOK, ApprovalStates, Draft
  <2>3. \A q \in Requests : req[q].pc \notin Claimed
    BY <2>1 DEF DropInv, ClaimAlone
  <2>4. TypeOK'
    BY <1>1, <2>2 DEF DropInv, TypeOK, Draft, PostStatuses, Unresolved, history
  <2>5. UNCHANGED <<row, req, sent, reviewed>>
    BY <1>1 DEF Draft, history
  <2> QED BY <2>1, <2>2, <2>3, <2>4, <2>5 DEF DropInv, ClaimAlone, Lifecycle, PlanReviewed, SentOnce,
        RowTruthful, BatchOf, ExecutedTruthful, Claimed, Executing, Batching, Settled, At
<1>2. CASE Propose \/ ApproveInCenter \/ Reject
  <2>1. /\ approval.status \in {"absent", "pending"} /\ approval.attempt = "none" /\ ~approval.signed
        /\ \A t \in Targets : sent[t] = <<>>
        /\ approval.status = "pending" => post # "absent"
    BY <1>2 DEF DropInv, Lifecycle, SentOnce, Propose, ApproveInCenter, Reject, Settled
  <2>2. /\ approval' \in ApprovalStates
        /\ approval'.status \in {"pending", "approved", "rejected"}
        /\ approval'.attempt = "none" /\ ~approval'.signed /\ approval'.payload = approval.payload
    BY <1>2, <2>1 DEF DropInv, TypeOK, ApprovalStates, Propose, ApproveInCenter, Reject
  <2>3. \A q \in Requests : req[q].pc \notin Claimed
    BY <2>1 DEF DropInv, ClaimAlone
  <2>4. UNCHANGED <<post, linked, account, row, req, sent>> /\ post # "absent"
    BY <1>2, <2>1 DEF Propose, ApproveInCenter, Reject, history
  <2>5. /\ reviewed' \in Snapshots
        /\ approval'.status = "approved" => approval'.payload = reviewed'
    BY <1>2, <2>1, <2>2 DEF DropInv, TypeOK, ApprovalStates, Propose, ApproveInCenter, Reject, history
  <2>6. TypeOK'
    BY <2>2, <2>4, <2>5 DEF DropInv, TypeOK
  <2> QED BY <2>1, <2>2, <2>3, <2>4, <2>5, <2>6 DEF DropInv, ClaimAlone, Lifecycle, PlanReviewed,
        SentOnce, RowTruthful, BatchOf, ExecutedTruthful, Claimed, Executing, Batching, Settled, At
<1>3. CASE Link
  BY <1>3, DropStutters DEF DropInv, TypeOK, Link
<1>4. ASSUME NEW t \in Targets, Reconnect(t) PROVE DropInv'
  <2>1. account[t] + 1 \in Accounts
    BY DEF DropInv, TypeOK, Accounts
  <2>2. account' \in [Targets -> Accounts]
    BY <1>4, <2>1 DEF DropInv, TypeOK, Reconnect
  <2> QED BY <1>4, <2>2, DropStutters DEF DropInv, TypeOK, Reconnect
<1>5. CASE Hour
  <2>1. /\ approval' \in ApprovalStates /\ approval'.attempt = "old"
        /\ approval'.status = approval.status /\ approval'.payload = approval.payload
        /\ approval'.signed = approval.signed
        /\ approval.attempt # "none"
    BY <1>5 DEF DropInv, TypeOK, ApprovalStates, Hour
  <2>2. UNCHANGED <<post, linked, row, account, req, sent, reviewed>>
    BY <1>5 DEF Hour, history
  <2>3. TypeOK' /\ ClaimAlone' /\ Lifecycle' /\ PlanReviewed' /\ SentOnce'
    BY <2>1, <2>2 DEF DropInv, TypeOK, ClaimAlone, Lifecycle, PlanReviewed, SentOnce, At
  <2>4. /\ \A t \in Targets : RowTruthful(t)'
        /\ \A q \in Requests : BatchOf(q)'
        /\ ExecutedTruthful'
    BY <2>1, <2>2 DEF DropInv, RowTruthful, BatchOf, ExecutedTruthful, Enabled, At
  <2> QED BY <2>3, <2>4 DEF DropInv
<1> QED BY <1>1, <1>2, <1>3, <1>4, <1>5

\* The moves of a request that changes none of the records.
LEMMA DropReads ==
  ASSUME DropInv, NEW q \in Requests,
         UNCHANGED <<post, linked, row, account, approval, history>>,
         \/ ExecuteInCenter(q) \/ (\E edit \in Edits : View(q, edit)) \/ Review(q)
         \/ Decided(q) \/ Read(q) \/ Check(q) \/ Audit(q) \/ Throws(q)
         \/ Return(q)
         \/ req[q].pc \in Claimed /\ Enter(q, "catch")
         \/ req[q].pc \in Executing /\ Enter(q, "stop")
  PROVE  DropInv'
<1> USE DEF DropInv
<1>0. ASSUME NEW pc \in PCs \ (Batching \union {"write"}), Enter(q, pc),
             pc \in Claimed => req[q].pc \in Claimed, pc \in Executing => req[q].pc \in Executing
      PROVE  DropInv'
  BY <1>0, EnterMoves, DropFrame
<1>1. CASE Return(q)
  BY <1>1, ReturnMoves, DropFrame DEF Claimed, Executing, Batching
<1>2. CASE ExecuteInCenter(q)
  BY <1>2, <1>0 DEF ExecuteInCenter, PCs, Claimed, Executing, Batching
<1>3. ASSUME NEW edit \in Edits, View(q, edit) PROVE DropInv'
  BY <1>3, ViewMoves, DropFrame DEF View, Claimed, Executing, Batching
<1>4. CASE Review(q)
  BY <1>4, ReviewMoves, DropFrame DEF Claimed, Executing, Batching
<1>5. CASE Decided(q)
  <2>1. Enter(q, "read") \/ Return(q)
    BY <1>5 DEF Decided
  <2> QED BY <2>1, <1>0, <1>1 DEF PCs, Claimed, Executing, Batching
<1>6. CASE Read(q)
  <2>1. CASE Goto(q, "claim")
    <3>1. "claim" \in PCs /\ "claim" \notin Batching \union Claimed \union {"write"} \union Executing
      BY DEF PCs, Claimed, Executing, Batching
    <3> QED BY <2>1, <3>1, GotoMoves, DropFrame
  <2> QED BY <1>6, <2>1, <1>1 DEF Read
<1>7. CASE Check(q)
  <2>1. req[q].pc = "check" /\ (Enter(q, "post") \/ Enter(q, "catch"))
    BY <1>7 DEF Check, At
  <2> QED BY <2>1, <1>0 DEF PCs, Claimed, Executing, Batching
<1>8. CASE Audit(q)
  BY <1>8, <1>1 DEF Audit
<1>9. CASE req[q].pc \in Claimed /\ Enter(q, "catch")
  BY <1>9, <1>0 DEF PCs, Claimed, Executing, Batching
<1>10. CASE req[q].pc \in Executing /\ Enter(q, "stop")
  BY <1>10, <1>0 DEF PCs, Claimed, Executing, Batching
<1>11. CASE Throws(q)
  <2>1. \/ req[q].pc \in Claimed /\ Enter(q, "catch")
        \/ req[q].pc \in Executing /\ Enter(q, "stop")
    BY <1>11 DEF Throws, Handler, Claimed, Executing
  <2> QED BY <2>1, <1>9, <1>10
<1> QED BY <1>1, <1>2, <1>3, <1>4, <1>5, <1>6, <1>7, <1>8, <1>9, <1>10, <1>11

LEMMA DropApproveRead ==
  ASSUME DropInv, NEW q \in Requests, ApproveRead(q)
  PROVE  DropInv'
<1> DEFINE plan == Edited(Current, req[q].edit)
<1>1. UNCHANGED <<post, linked, row, account, approval, history>>
  BY DEF ApproveRead
<1>2. CASE Return(q) \/ Review(q)
  BY <1>1, <1>2, DropReads
<1>3. CASE /\ StillAsSeen(q) /\ approval.status = "pending"
           /\ req' = [req EXCEPT ![q].pc = "write", ![q].plan = plan]
  <2>1. ~approval.signed
    BY <1>3 DEF DropInv, Lifecycle, Settled
  <2>2. plan = Edited(req[q].seen, req[q].edit)
    BY <1>3, <2>1 DEF StillAsSeen, Fingerprint
  <2>3. plan \in Snapshots
    <3>1. req[q].edit \in Edits \union {NoEdit}
      BY DEF DropInv, TypeOK, RequestStates
    <3> QED BY <3>1, CurrentTyped, EditedTyped DEF DropInv
  <2> HIDE DEF plan
  <2>4. /\ req' \in [Requests -> RequestStates] /\ Others(q)
        /\ req'[q].pc = "write" /\ req'[q].plan = plan
        /\ req'[q].seen = req[q].seen /\ req'[q].edit = req[q].edit
    BY <1>3, <2>3, PlanMoves DEF DropInv
  <2>5. TypeOK' /\ ClaimAlone' /\ Lifecycle'
    BY <1>1, <2>4 DEF DropInv, TypeOK, ClaimAlone, Lifecycle, Claimed, Executing, Others, history
  <2>6. PlanReviewed'
    BY <1>1, <2>2, <2>4 DEF DropInv, PlanReviewed, Others, At, history
  <2>7. SentOnce' /\ (\A t \in Targets : RowTruthful(t)') /\ ExecutedTruthful'
    BY <1>1 DEF DropInv, SentOnce, RowTruthful, ExecutedTruthful, Enabled, history
  <2>8. \A p \in Requests : BatchOf(p)'
    <3> TAKE p \in Requests
    <3>1. CASE p = q
      BY <3>1, <2>4 DEF BatchOf, At, Batching
    <3>2. CASE p # q
      BY <3>2, <1>1, <2>4 DEF DropInv, BatchOf, Others, Enabled, At, history
    <3> QED BY <3>1, <3>2
  <2> QED BY <2>5, <2>6, <2>7, <2>8 DEF DropInv
<1> QED BY <1>2, <1>3 DEF ApproveRead

\* A decision made while nothing was claimed.
LEMMA DropApproveWrite ==
  ASSUME DropInv, NEW q \in Requests, ApproveWrite(q)
  PROVE  DropInv'
<1>1. CASE ~Undecided
  BY <1>1, DropReads DEF ApproveWrite, history
<1>2. CASE Undecided
  <2>1. /\ approval.status = "pending" /\ approval.attempt = "none" /\ At(q, "write")
        /\ \A p \in Requests : req[p].pc \notin Claimed
        /\ \A t \in Targets : sent[t] = <<>>
        /\ req[q].plan = Edited(req[q].seen, req[q].edit)
    BY <1>2 DEF Undecided, ApproveWrite, DropInv, ClaimAlone, SentOnce, PlanReviewed
  <2>2. req[q].plan \in Snapshots /\ req[q].seen \in Snapshots
    BY DEF DropInv, TypeOK, RequestStates
  <2>3. /\ approval' \in ApprovalStates
        /\ approval'.status = "approved" /\ approval'.payload = req[q].plan
        /\ approval'.attempt = "none"
    <3>1. approval' = [approval EXCEPT !.status = "approved", !.payload = req[q].plan,
                                       !.signed = TRUE, !.fingerprint = req[q].seen]
      BY <1>2 DEF ApproveWrite
    <3> QED BY <3>1, <2>1, <2>2 DEF DropInv, TypeOK, ApprovalStates
  <2>4. /\ row' \in [Targets -> Rows]
        /\ \A t \in Targets : row'[t].status \in {"pending", "skipped"}
    <3>1. row' = [t \in Targets |->
                    [row[t] EXCEPT !.content = req[q].plan[t].content,
                                   !.status = IF t \in Enabled(req[q].plan)
                                              THEN "pending" ELSE "skipped"]]
      BY <1>2 DEF ApproveWrite
    <3>2. \A t \in Targets : row[t] \in Rows /\ req[q].plan[t].content \in Contents
      BY <2>2 DEF DropInv, TypeOK, Snapshots
    <3> QED BY <3>1, <3>2 DEF Rows
  <2>5. /\ post' = "approved" /\ reviewed' = req[q].plan
        /\ UNCHANGED <<linked, account, sent>>
    BY <1>2, <2>1 DEF ApproveWrite
  <2>6. req' \in [Requests -> RequestStates] /\ Others(q) /\ req'[q].pc = "read"
    BY <1>2, EnterMoves DEF ApproveWrite, PCs, DropInv
  <2>7. \A p \in Requests : req'[p].pc \notin Claimed
    BY <2>1, <2>6 DEF Others, Claimed, Executing
  <2>8. TypeOK' /\ ClaimAlone' /\ Lifecycle'
    BY <2>1, <2>2, <2>3, <2>4, <2>5, <2>6, <2>7 DEF DropInv, TypeOK, ClaimAlone, Lifecycle, Claimed,
       Settled, PostStatuses, Unresolved
  <2>9. PlanReviewed'
    BY <2>3, <2>5, <2>6 DEF DropInv, PlanReviewed, Others, At
  <2>10. SentOnce' /\ (\A t \in Targets : RowTruthful(t)') /\ ExecutedTruthful'
    BY <2>1, <2>3, <2>4, <2>5 DEF SentOnce, RowTruthful, ExecutedTruthful, Outcomes, Complete
  <2>11. \A p \in Requests : BatchOf(p)'
    BY <2>7 DEF BatchOf, At, Claimed, Executing, Batching
  <2> QED BY <2>8, <2>9, <2>10, <2>11 DEF DropInv
<1> QED BY <1>1, <1>2

LEMMA DropClaim ==
  ASSUME DropInv, NEW q \in Requests, Claim(q)
  PROVE  DropInv'
<1>1. CASE approval' = approval /\ Return(q)
  BY <1>1, DropReads DEF Claim, history
<1>2. CASE /\ approval.status = "approved" /\ approval.attempt = "none"
           /\ approval' = [approval EXCEPT !.attempt = "recent"] /\ Goto(q, "check")
  <2>1. /\ \A p \in Requests : req[p].pc \notin Claimed
        /\ post # "absent"
    BY <1>2 DEF DropInv, ClaimAlone, Lifecycle
  <2>2. /\ approval' \in ApprovalStates /\ approval'.attempt = "recent"
        /\ approval'.status = "approved" /\ approval'.payload = approval.payload
    BY <1>2 DEF DropInv, TypeOK, ApprovalStates
  <2>3. /\ req' \in [Requests -> RequestStates] /\ Others(q) /\ req'[q].pc = "check"
        /\ "check" \in Claimed \ (Batching \union {"write"})
    BY <1>2, GotoMoves DEF PCs, DropInv, Claimed, Executing, Batching
  <2>4. UNCHANGED <<post, linked, row, account, sent, reviewed>>
    BY DEF Claim, history
  <2>5. TypeOK' /\ ClaimAlone' /\ Lifecycle'
    BY <2>1, <2>2, <2>3, <2>4 DEF DropInv, TypeOK, ClaimAlone, Lifecycle, Others, Settled
  <2>6. PlanReviewed' /\ SentOnce'
    BY <1>2, <2>2, <2>3, <2>4 DEF DropInv, PlanReviewed, SentOnce, Others, At, Settled
  <2>7. (\A t \in Targets : RowTruthful(t)') /\ ExecutedTruthful'
    BY <2>2, <2>4 DEF DropInv, RowTruthful, ExecutedTruthful
  <2>8. \A p \in Requests : BatchOf(p)'
    BY <2>1, <2>3 DEF BatchOf, At, Others, Claimed, Executing, Batching
  <2> QED BY <2>5, <2>6, <2>7, <2>8 DEF DropInv
<1> QED BY <1>1, <1>2 DEF Claim

-----------------------------------------------------------------------------
(* The request that executes *)

SentRecords == [Targets -> Seq([content : Contents, account : Accounts])]

\* While it executes no other request does, and the approval stands: what is left
\* to show of its step is about the post, the rows and what it has sent.
LEMMA DropExecutes ==
  ASSUME DropInv, NEW q \in Requests, req[q].pc \in Executing,
         req' \in [Requests -> RequestStates], Others(q),
         req'[q].pc \in Claimed,
         UNCHANGED <<linked, account, approval, reviewed>>,
         post' \in PostStatuses \ {"absent"},
         row' \in [Targets -> Rows],
         sent' \in SentRecords,
         SentOnce', \A t \in Targets : RowTruthful(t)', BatchOf(q)'
  PROVE  DropInv'
<1>1. approval.status = "approved" /\ req[q].pc \in Claimed
  BY DEF DropInv, Lifecycle, Claimed
<1>2. \A p \in Requests : p # q => req'[p].pc \notin Claimed
  BY <1>1 DEF DropInv, ClaimAlone, Others
<1>3. TypeOK'
  BY DEF DropInv, TypeOK, SentRecords
<1>4. ClaimAlone'
  BY <1>1, <1>2 DEF DropInv, ClaimAlone
<1>5. Lifecycle'
  BY <1>1 DEF DropInv, Lifecycle
<1>6. PlanReviewed'
  BY DEF DropInv, PlanReviewed, Others, At, Claimed, Executing
<1>7. \A p \in Requests : BatchOf(p)'
  BY <1>2 DEF BatchOf, At, Claimed, Executing, Batching
<1>8. ExecutedTruthful'
  BY <1>1 DEF ExecutedTruthful
<1> QED BY <1>3, <1>4, <1>5, <1>6, <1>7, <1>8 DEF DropInv

LEMMA DropClaimPost ==
  ASSUME DropInv, NEW q \in Requests, ClaimPost(q)
  PROVE  DropInv'
<1>1. req[q].pc = "post" /\ "post" \in Claimed /\ "post" \in Executing
  BY DEF ClaimPost, At, Claimed, Executing
<1>2. CASE Enter(q, "catch") /\ post' = post
  BY <1>1, <1>2, DropReads DEF ClaimPost, history
<1>3. CASE /\ post' = "posting"
           /\ req' = [req EXCEPT ![q].pc = "targets", ![q].todo = Enabled(approval.payload)]
  <2>1. /\ req' \in [Requests -> RequestStates] /\ Others(q)
        /\ req'[q].pc = "targets" /\ req'[q].todo = Enabled(approval.payload)
    <3>1. Enabled(approval.payload) \in SUBSET Targets
      BY DEF Enabled
    <3> QED BY <1>3, <3>1, ClaimPostMoves DEF DropInv
  <2>2. UNCHANGED <<linked, row, account, approval, sent, reviewed>>
    BY DEF ClaimPost, history
  <2>3. SentOnce' /\ (\A t \in Targets : RowTruthful(t)')
    BY <2>2 DEF DropInv, SentOnce, RowTruthful
  <2>4. BatchOf(q)'
    BY <2>1, <2>2 DEF BatchOf, At, Enabled
  <2>5. req'[q].pc \in Claimed /\ post' \in PostStatuses \ {"absent"}
    BY <1>3, <2>1 DEF Claimed, Executing, PostStatuses, Unresolved
  <2>6. row' \in [Targets -> Rows] /\ sent' \in SentRecords
    BY <2>2 DEF DropInv, TypeOK, SentRecords
  <2> QED BY <1>1, <2>1, <2>2, <2>3, <2>4, <2>5, <2>6, DropExecutes
<1> QED BY <1>2, <1>3 DEF ClaimPost

LEMMA DropClaimTarget ==
  ASSUME DropInv, NEW q \in Requests, NEW t \in Targets, ClaimTarget(q, t)
  PROVE  DropInv'
<1>1. /\ req[q].pc = "targets" /\ "targets" \in Executing /\ "targets" \in Batching
      /\ t \in req[q].todo
  BY DEF ClaimTarget, At, Executing, Batching
<1>2. CASE Enter(q, "stop") /\ row' = row
  BY <1>1, <1>2, DropReads DEF ClaimTarget, history
<1>3. CASE /\ row[t].status = "pending" /\ row' = [row EXCEPT ![t] = Marked(t)]
           /\ req' = [req EXCEPT ![q].pc = "send", ![q].target = t]
  <2>1. /\ req' \in [Requests -> RequestStates] /\ Others(q)
        /\ req'[q].pc = "send" /\ req'[q].target = t
        /\ req'[q].todo = req[q].todo /\ req'[q].results = req[q].results
    BY <1>3, ClaimTargetMoves DEF DropInv
  <2>2. UNCHANGED <<post, linked, account, approval, sent, reviewed>>
    BY DEF ClaimTarget, history
  <2>3. /\ row' \in [Targets -> Rows]
        /\ row'[t].status = "sending" /\ row'[t].log = "unknown"
        /\ \A u \in Targets \ {t} : row'[u] = row[u]
    <3>1. row[t] \in Rows
      BY DEF DropInv, TypeOK
    <3>2. Marked(t) \in Rows /\ Marked(t).status = "sending" /\ Marked(t).log = "unknown"
      BY <3>1 DEF Marked, Rows, Attempted, Outcomes
    <3> HIDE DEF Marked
    <3> QED BY <1>3, <3>2 DEF DropInv, TypeOK
  <2>4. sent[t] = <<>>
    BY <1>3 DEF DropInv, SentOnce
  <2>5. SentOnce'
    BY <2>2, <2>3, <2>4 DEF DropInv, SentOnce
  <2>6. \A u \in Targets : RowTruthful(u)'
    BY <2>2, <2>3 DEF DropInv, RowTruthful, Outcomes, Complete
  <2>7. BatchOf(q)'
    <3>1. /\ req[q].todo \subseteq Enabled(approval.payload)
          /\ \A u \in Enabled(approval.payload) \ req[q].todo :
               req[q].results[u] = row[u].status /\ row[u].status \in Outcomes
      BY <1>1 DEF DropInv, BatchOf
    <3>2. Enabled(approval'.payload) = Enabled(approval.payload)
      BY <2>2
    <3>3. \A u \in Enabled(approval.payload) \ req[q].todo : u \in Targets \ {t}
      BY <1>1 DEF Enabled
    <3> QED BY <1>1, <2>1, <2>2, <2>3, <2>4, <3>1, <3>2, <3>3 DEF BatchOf, At
  <2>8. req'[q].pc \in Claimed /\ post' \in PostStatuses \ {"absent"}
    BY <1>1, <2>1, <2>2 DEF DropInv, Lifecycle, TypeOK, Claimed, Executing
  <2>9. sent' \in SentRecords
    BY <2>2 DEF DropInv, TypeOK, SentRecords
  <2> QED BY <1>1, <2>1, <2>2, <2>3, <2>5, <2>6, <2>7, <2>8, <2>9, DropExecutes
<1> QED BY <1>2, <1>3 DEF ClaimTarget

LEMMA DropSend ==
  ASSUME DropInv, NEW q \in Requests, NEW outcome \in Replies, Send(q, outcome)
  PROVE  DropInv'
<1> DEFINE t == req[q].target
<1>1. /\ req[q].pc = "send" /\ "send" \in Executing /\ "send" \in Batching
      /\ t \in Targets /\ t \in req[q].todo /\ row[t].status = "sending" /\ row[t].log # "none"
      /\ sent[t] = <<>>
      /\ outcome \in Outcomes
  BY SocialConstants DEF Send, At, Executing, Batching, DropInv, TypeOK, RequestStates, BatchOf,
     Outcomes, Complete
<1>2. /\ req' \in [Requests -> RequestStates] /\ Others(q)
      /\ req'[q].pc = "record" /\ req'[q].target = t /\ req'[q].todo = req[q].todo
      /\ req'[q].results = [req[q].results EXCEPT ![t] = outcome]
  BY <1>1, SendMoves DEF Send, DropInv
<1>3. UNCHANGED <<post, linked, row, account, approval, reviewed>>
  BY DEF Send
<1>4. /\ approval.payload = reviewed /\ approval.attempt # "none"
      /\ approval.payload[t] \in [content : Contents, account : Accounts]
  BY <1>1 DEF DropInv, ClaimAlone, Lifecycle, PlanReviewed, Claimed, Settled, TypeOK, ApprovalStates,
     Snapshots
<1>5. /\ sent' \in SentRecords
      /\ \A u \in Targets \ {t} : sent'[u] = sent[u]
      /\ sent'[t] \in {<<>>, <<reviewed[t]>>}
      /\ outcome \notin Denied => sent'[t] # <<>>
  <2> PICK reached \in Reached(outcome) :
             sent' = IF reached THEN [sent EXCEPT ![t] = Append(@, approval.payload[t])] ELSE sent
    BY DEF Send
  <2> HIDE DEF t
  <2>1. sent \in SentRecords /\ Append(sent[t], approval.payload[t]) = <<reviewed[t]>>
    <3>1. Append(<<>>, reviewed[t]) = <<reviewed[t]>>
      OBVIOUS
    <3> QED BY <1>1, <1>4, <3>1 DEF DropInv, TypeOK, SentRecords
  <2>2. outcome \notin Denied => reached
    BY DEF Reached, Denied
  <2>3. <<reviewed[t]>> # <<>> /\ <<reviewed[t]>> \in Seq([content : Contents, account : Accounts])
    BY <1>4
  <2>4. CASE reached
    <3>1. sent' = [sent EXCEPT ![t] = <<reviewed[t]>>]
      BY <2>1, <2>4
    <3> QED BY <1>1, <2>1, <2>3, <3>1 DEF SentRecords
  <2>5. CASE ~reached
    BY <1>1, <2>1, <2>2, <2>5
  <2> QED BY <2>4, <2>5
<1> HIDE DEF t
<1>6. SentOnce'
  BY <1>1, <1>3, <1>4, <1>5 DEF DropInv, SentOnce
<1>7. \A u \in Targets : RowTruthful(u)'
  BY <1>1, <1>3, <1>5 DEF DropInv, RowTruthful, Outcomes, Complete
<1>8. BatchOf(q)'
  <2>1. /\ req[q].todo \subseteq Enabled(approval.payload)
        /\ \A u \in Enabled(approval.payload) \ req[q].todo :
             req[q].results[u] = row[u].status /\ row[u].status \in Outcomes
    BY <1>1 DEF DropInv, BatchOf
  <2>2. Enabled(approval'.payload) = Enabled(approval.payload)
    BY <1>3
  <2>3. req[q].results \in Results
    BY DEF DropInv, TypeOK, RequestStates
  <2>4. \A u \in Enabled(approval.payload) \ req[q].todo : req'[q].results[u] = req[q].results[u]
    BY <1>1, <1>2, <2>3 DEF Enabled, Results
  <2>5. req'[q].results[t] = outcome
    BY <1>1, <1>2, <2>3 DEF Results
  <2> QED BY <1>1, <1>2, <1>3, <1>5, <2>1, <2>2, <2>4, <2>5 DEF BatchOf, At
<1>9. req'[q].pc \in Claimed /\ post' \in PostStatuses \ {"absent"} /\ row' \in [Targets -> Rows]
  BY <1>1, <1>2, <1>3 DEF DropInv, Lifecycle, TypeOK, Claimed, Executing
<1> QED BY <1>1, <1>2, <1>3, <1>5, <1>6, <1>7, <1>8, <1>9, DropExecutes

LEMMA DropRecord ==
  ASSUME DropInv, NEW q \in Requests, Record(q)
  PROVE  DropInv'
<1> DEFINE t == req[q].target
           result == req[q].results[t]
<1>1. /\ req[q].pc = "record" /\ "record" \in Executing /\ "record" \in Batching
      /\ t \in Targets /\ t \in req[q].todo /\ row[t].status = "sending"
      /\ result \in Outcomes
      /\ result \notin Denied => sent[t] # <<>>
  BY DEF Record, At, Executing, Batching, DropInv, TypeOK, RequestStates, BatchOf
<1>2. /\ req' \in [Requests -> RequestStates] /\ Others(q)
      /\ req'[q].pc = "targets" /\ req'[q].todo = req[q].todo \ {t}
      /\ req'[q].results = req[q].results
  BY <1>1, RecordMoves DEF Record, DropInv
<1>3. UNCHANGED <<post, linked, account, approval, sent, reviewed>>
  BY DEF Record, history
<1>4. /\ row' \in [Targets -> Rows]
      /\ row'[t].status = result /\ row'[t].log = result
      /\ \A u \in Targets \ {t} : row'[u] = row[u]
  <2>1. row' = [row EXCEPT ![t] = [row[t] EXCEPT !.status = result, !.log = result]]
    BY DEF Record
  <2>2. [row[t] EXCEPT !.status = result, !.log = result] \in Rows
    BY <1>1 DEF DropInv, TypeOK, Rows, Attempted
  <2>3. row \in [Targets -> Rows]
    BY DEF DropInv, TypeOK
  <2> HIDE DEF t, result
  <2>4. /\ [row[t] EXCEPT !.status = result, !.log = result].status = result
        /\ [row[t] EXCEPT !.status = result, !.log = result].log = result
    BY <1>1, <2>3 DEF Rows
  <2> QED BY <1>1, <2>1, <2>2, <2>3, <2>4
<1> HIDE DEF t, result
<1>5. SentOnce'
  BY <1>1, <1>3, <1>4 DEF DropInv, SentOnce, Outcomes, Complete
<1>6. \A u \in Targets : RowTruthful(u)'
  BY <1>1, <1>3, <1>4 DEF DropInv, RowTruthful
<1>7. BatchOf(q)'
  <2>1. /\ req[q].todo \subseteq Enabled(approval.payload)
        /\ \A u \in Enabled(approval.payload) \ req[q].todo :
             req[q].results[u] = row[u].status /\ row[u].status \in Outcomes
    BY <1>1 DEF DropInv, BatchOf
  <2>2. Enabled(approval'.payload) = Enabled(approval.payload)
    BY <1>3
  <2>3. \A u \in Enabled(approval.payload) \ req'[q].todo :
          u = t \/ (u \in Enabled(approval.payload) \ req[q].todo /\ u \in Targets \ {t})
    BY <1>1, <1>2 DEF Enabled
  <2> QED BY <1>1, <1>2, <1>3, <1>4, <2>1, <2>2, <2>3 DEF BatchOf, At, result
<1>8. /\ req'[q].pc \in Claimed /\ post' \in PostStatuses \ {"absent"}
      /\ sent' \in SentRecords
  BY <1>1, <1>2, <1>3 DEF DropInv, Lifecycle, TypeOK, Claimed, Executing, SentRecords
<1> QED BY <1>1, <1>2, <1>3, <1>4, <1>5, <1>6, <1>7, <1>8, DropExecutes

LEMMA DropStop ==
  ASSUME DropInv, NEW q \in Requests, Stop(q)
  PROVE  DropInv'
<1>1. /\ req[q].pc \in Executing
      /\ req' \in [Requests -> RequestStates] /\ Others(q) /\ req'[q].pc = "catch"
  BY EnterMoves DEF Stop, At, Executing, DropInv, PCs
<1>2. /\ UNCHANGED <<linked, row, account, approval, sent, reviewed>>
      /\ post' \in PostStatuses \ {"absent"}
  BY DEF Stop, history, PostStatuses, Outcomes
<1>3. /\ row' \in [Targets -> Rows] /\ sent' \in SentRecords
      /\ SentOnce' /\ (\A t \in Targets : RowTruthful(t)')
  BY <1>2 DEF DropInv, TypeOK, SentRecords, SentOnce, RowTruthful
<1>4. BatchOf(q)' /\ req'[q].pc \in Claimed
  BY <1>1 DEF BatchOf, At, Batching, Claimed
<1> QED BY <1>1, <1>2, <1>3, <1>4, DropExecutes

\* A batch ends with a verdict, which is never one of those that wait.
LEMMA VerdictGiven ==
  ASSUME NEW said \in SUBSET (Outcomes \union {"none"})
  PROVE  NextStatus(said) \in {"partial"} \union Outcomes
<1>1. CASE \E outcome \in Complete : said = {outcome}
  <2>1. (CHOOSE outcome \in said : TRUE) \in Complete
    BY <1>1
  <2> QED BY <1>1, <2>1 DEF NextStatus, Outcomes
<1>2. CASE ~ \E outcome \in Complete : said = {outcome}
  <2>1. CASE "unknown" \in said
    BY <1>2, <2>1 DEF NextStatus, Outcomes
  <2>2. CASE "unknown" \notin said /\ "processing" \in said
    BY <1>2, <2>2 DEF NextStatus, Outcomes
  <2>3. CASE said = {"failed"}
    BY <1>2, <2>3 DEF NextStatus, Outcomes
  <2>4. CASE "unknown" \notin said /\ "processing" \notin said /\ said # {"failed"}
    BY <1>2, <2>4 DEF NextStatus, Outcomes
  <2> QED BY <2>1, <2>2, <2>3, <2>4
<1> QED BY <1>1, <1>2

LEMMA DropFinish ==
  ASSUME DropInv, NEW q \in Requests, Finish(q)
  PROVE  DropInv'
<1>1. /\ req[q].pc = "targets" /\ "targets" \in Executing /\ "targets" \in Batching
      /\ req[q].todo = {}
  BY DEF Finish, At, Executing, Batching
<1>2. /\ req' \in [Requests -> RequestStates] /\ Others(q) /\ req'[q].pc = "finalize"
      /\ req'[q].todo = {} /\ req'[q].results = req[q].results
  BY <1>1, GotoMoves DEF Finish, DropInv, PCs
<1>3. UNCHANGED <<linked, row, account, approval, sent, reviewed>>
  BY DEF Finish, history
<1>4. post' \in PostStatuses \ ({"absent"} \union Unresolved)
  <2>1. req[q].results \in Results
    BY DEF DropInv, TypeOK, RequestStates
  <2>2. Said(q) \in SUBSET (Outcomes \union {"none"})
    BY <2>1 DEF Said, Results, Enabled
  <2>3. post' \in {"partial"} \union Outcomes
    BY <2>2, VerdictGiven DEF Finish
  <2> QED BY <2>3 DEF PostStatuses, Outcomes, Complete, Unresolved
<1>5. /\ row' \in [Targets -> Rows] /\ sent' \in SentRecords
      /\ SentOnce' /\ (\A t \in Targets : RowTruthful(t)')
  BY <1>3 DEF DropInv, TypeOK, SentRecords, SentOnce, RowTruthful
<1>6. BatchOf(q)' /\ req'[q].pc \in Claimed
  <2>1. Enabled(approval'.payload) = Enabled(approval.payload) /\ BatchOf(q)
    BY <1>3 DEF DropInv
  <2> QED BY <1>1, <1>2, <1>3, <1>4, <2>1 DEF BatchOf, At, Claimed, Executing
<1> QED BY <1>1, <1>2, <1>3, <1>4, <1>5, <1>6, DropExecutes

\* The end of an execution, well or badly.
LEMMA DropEnds ==
  ASSUME DropInv, NEW q \in Requests, Finalize(q) \/ Catch(q)
  PROVE  DropInv'
<1>1. /\ req[q].pc \in {"finalize", "catch"} /\ req[q].pc \in Claimed
      /\ approval.attempt # "none" /\ approval.status \in Settled /\ post # "absent"
      /\ \A p \in Requests : p # q => req[p].pc \notin Claimed
  BY DEF Finalize, Catch, At, Claimed, Executing, DropInv, ClaimAlone, Lifecycle, Settled
<1>2. /\ req' \in [Requests -> RequestStates] /\ Others(q) /\ req'[q].pc \in {"audit", "idle"}
  BY EnterMoves, ReturnMoves DEF Finalize, Catch, DropInv, PCs
<1>3. UNCHANGED <<post, linked, row, account, sent, reviewed>>
  BY DEF Finalize, Catch, history
<1>4. /\ approval' \in ApprovalStates
      /\ approval'.status \in {"executed", "failed"}
      /\ approval'.attempt = approval.attempt /\ approval'.payload = approval.payload
      /\ approval'.signed = approval.signed
  BY DEF Finalize, Catch, DropInv, TypeOK, ApprovalStates
<1>5. \A p \in Requests : p # q => req'[p].pc \notin Claimed
  BY <1>1, <1>2 DEF Others
<1>6. TypeOK' /\ ClaimAlone'
  BY <1>1, <1>2, <1>3, <1>4, <1>5 DEF DropInv, TypeOK, ClaimAlone
<1>7. Lifecycle'
  BY <1>1, <1>2, <1>3, <1>4, <1>5 DEF DropInv, Lifecycle, Settled, Claimed, Executing
<1>8. PlanReviewed'
  BY <1>1, <1>2, <1>3, <1>4 DEF DropInv, PlanReviewed, Others, At
<1>9. SentOnce' /\ (\A t \in Targets : RowTruthful(t)')
  BY <1>3, <1>4 DEF DropInv, SentOnce, RowTruthful
<1>10. \A p \in Requests : BatchOf(p)'
  BY <1>2, <1>5 DEF BatchOf, At, Claimed, Executing, Batching
<1>11. ExecutedTruthful'
  <2>1. Enabled(approval'.payload) = Enabled(approval.payload)
    BY <1>4
  <2>2. CASE Finalize(q)
    <3>1. /\ req[q].todo = {} /\ post \notin Unresolved
          /\ \A t \in Enabled(approval.payload) : req[q].results[t] = row[t].status
      BY <2>2 DEF Finalize, At, DropInv, BatchOf, Batching
    <3>2. CASE AllComplete(Said(q))
      BY <1>3, <2>1, <3>1, <3>2 DEF AllComplete, Said, ExecutedTruthful
    <3>3. CASE ~AllComplete(Said(q))
      BY <2>2, <3>3 DEF Finalize, ExecutedTruthful, DropInv, TypeOK, ApprovalStates
    <3> QED BY <3>2, <3>3
  <2>3. CASE Catch(q)
    <3>1. approval'.status = "executed" => approval.status = "executed"
      BY <2>3 DEF Catch, DropInv, TypeOK, ApprovalStates
    <3> QED BY <1>3, <2>1, <3>1 DEF DropInv, ExecutedTruthful
  <2> QED BY <2>2, <2>3
<1> QED BY <1>6, <1>7, <1>8, <1>9, <1>10, <1>11 DEF DropInv

LEMMA DropStep == DropInv /\ [Next]_vars => DropInv'
<1> SUFFICES ASSUME DropInv, [Next]_vars PROVE DropInv'
  OBVIOUS
<1>1. CASE UNCHANGED vars
  BY <1>1, DropStutters DEF vars, history, DropInv, TypeOK
<1>2. CASE \/ Draft \/ Propose \/ Link \/ (\E t \in Targets : Reconnect(t))
           \/ ApproveInCenter \/ Reject \/ Hour
  BY <1>2, DropOutside
<1>3. ASSUME NEW q \in Requests, Handles(q) PROVE DropInv'
  <2>1. CASE ExecuteInCenter(q) \/ \E edit \in Edits : View(q, edit)
    BY <2>1, DropReads DEF ExecuteInCenter, View
  <2>2. CASE Decided(q) \/ Read(q) \/ Check(q) \/ Audit(q) \/ Throws(q)
    BY <2>2, DropReads DEF Decided, Read, Check, Audit, Throws
  <2>3. CASE Crash(q)
    BY <2>3, DropReads DEF Crash
  <2>4. CASE ApproveRead(q)
    BY <2>4, DropApproveRead
  <2>5. CASE ApproveWrite(q)
    BY <2>5, DropApproveWrite
  <2>6. CASE Claim(q)
    BY <2>6, DropClaim
  <2>7. CASE ClaimPost(q) \/ \E t \in Targets : ClaimTarget(q, t)
    BY <2>7, DropClaimPost, DropClaimTarget
  <2>8. CASE (\E outcome \in Replies : Send(q, outcome)) \/ Record(q)
    BY <2>8, DropSend, DropRecord
  <2>9. CASE Stop(q) \/ Finish(q)
    BY <2>9, DropStop, DropFinish
  <2>10. CASE Finalize(q) \/ Catch(q)
    BY <2>10, DropEnds
  <2> QED BY <1>3, <2>1, <2>2, <2>3, <2>4, <2>5, <2>6, <2>7, <2>8, <2>9, <2>10 DEF Handles
<1> QED BY <1>1, <1>2, <1>3 DEF Next

LEMMA DropInvariant == Spec => []DropInv
BY DropInit, DropStep, PTL DEF Spec

-----------------------------------------------------------------------------
(* What the invariant gives *)

\* The records of a drop keep their types.
THEOREM SocialTypeCorrect == Spec => []TypeOK
<1>1. DropInv => TypeOK
  BY DEF DropInv
<1> QED BY <1>1, DropInvariant, PTL

\* However reviews, edits, reconnections and executions race, a platform gets a
\* drop at most once, with the content an owner agreed to, on the account that
\* owner was shown (approveAndPost, executeApproved, sendSocialTarget).
THEOREM SentAsReviewedAlways == Spec => []SentAsReviewed
<1>1. ASSUME DropInv PROVE SentAsReviewed
  <2> SUFFICES ASSUME NEW t \in Targets
               PROVE  Len(sent[t]) <= 1 /\ \A i \in 1..Len(sent[t]) : sent[t][i] = reviewed[t]
    BY DEF SentAsReviewed
  <2>1. CASE sent[t] = <<>>
    BY <2>1
  <2>2. CASE sent[t] # <<>>
    <3>1. sent[t] = <<reviewed[t]>>
      BY <1>1, <2>2 DEF DropInv, SentOnce
    <3> QED BY <3>1
  <2> QED BY <2>1, <2>2
<1> QED BY <1>1, DropInvariant, PTL

\* What a target is shown as is told from its row and from the log of its send.
LEMMA ShownTruly ==
  ASSUME DropInv, NEW t \in Targets
  PROVE  /\ sent[t] # <<>> => ShownTarget(t) \notin {"pending", "approved", "not_attempted",
                                                     "cancelled", "skipped"}
         /\ ShownTarget(t) = "posted" => row[t].status = "posted" /\ sent[t] # <<>>
<1> DEFINE status == row[t].status
<1>1. /\ status \in {"pending", "skipped"} \union Attempted
      /\ row[t].log \in Outcomes \union {"none"}
  BY DEF DropInv, TypeOK, Rows
<1>2. status \in Outcomes => row[t].log = status /\ (status \notin Denied => sent[t] # <<>>)
  BY DEF DropInv, RowTruthful
<1>3. sent[t] # <<>> => status \notin {"pending", "skipped"} /\ ~Cancelled
  BY DEF DropInv, SentOnce, Lifecycle, Cancelled, Settled
<1> HIDE DEF status
<1>4. CASE status \in {"posted", "draft_only"}
  <2>1. ShownTarget(t) = status
    BY <1>2, <1>4 DEF ShownTarget, status, Outcomes, Complete
  <2> QED BY <1>2, <1>4, <2>1 DEF status, Outcomes, Complete, Denied
<1>5. CASE status = "sending"
  <2>1. ShownTarget(t) \in {"unknown", "sending"}
    BY <1>5 DEF ShownTarget, status
  <2> QED BY <2>1
<1>6. CASE status \in {"pending", "skipped"}
  <2>1. ShownTarget(t) # "posted"
    BY <1>6 DEF ShownTarget, status
  <2> QED BY <1>3, <1>6, <2>1
<1>7. CASE status \in Outcomes \ {"posted", "draft_only"}
  <2>1. ShownTarget(t) = status
    BY <1>7 DEF ShownTarget, status, Outcomes, Complete
  <2> QED BY <1>7, <2>1 DEF Outcomes, Complete
<1> QED BY <1>1, <1>4, <1>5, <1>6, <1>7 DEF Attempted

\* What a drop is shown as: the verdict it has, told again from what its targets
\* are shown as when it is a success or a part of one.
LEMMA ShownDrop ==
  LET shown == {ShownTarget(t) : t \in Enabled(Current)} IN
    /\ ShownPost = "posted" => shown = {"posted"}
    /\ ShownPost \in Unresolved => post \in Unresolved /\ ~UnresolvedAttempt
<1> DEFINE status == IF Cancelled /\ post \in {"pending_approval", "approved"} THEN "cancelled"
                     ELSE IF UnresolvedAttempt THEN "unknown" ELSE post
           shown == {ShownTarget(t) : t \in Enabled(Current)}
           told == CASE shown = {} -> "failed"
                     [] shown # {} /\ shown \in {{outcome} : outcome \in Complete} ->
                          CHOOSE outcome \in shown : TRUE
                     [] "unknown" \in shown -> "unknown"
                     [] "unknown" \notin shown /\ "processing" \in shown -> "processing"
                     [] OTHER -> "partial"
<1>1. ShownPost = IF status \notin {"posted", "partial"} THEN status ELSE told
  BY DEF ShownPost
<1>2. status \in Unresolved => post \in Unresolved /\ ~UnresolvedAttempt
  BY DEF Unresolved
<1> HIDE DEF status, shown
<1>3. CASE shown \in {{outcome} : outcome \in Complete}
  <2>1. PICK outcome \in Complete : shown = {outcome}
    BY <1>3
  <2>2. told = outcome
    <3>1. (CHOOSE o \in shown : TRUE) = outcome
      BY <2>1
    <3>2. "unknown" \notin shown /\ "processing" \notin shown /\ shown # {}
      BY <2>1 DEF Complete
    <3> QED BY <1>3, <3>1, <3>2
  <2> QED BY <1>1, <1>2, <2>1, <2>2 DEF shown, Complete, Unresolved
<1>4. CASE shown \notin {{outcome} : outcome \in Complete}
  <2>1. told \in {"failed", "unknown", "processing", "partial"}
    BY <1>4
  <2> QED BY <1>1, <1>2, <2>1 DEF Unresolved
<1> QED BY <1>3, <1>4

\* An owner is told the truth about a drop: what is shown as never sent was not,
\* what is shown as posted, and what an executed approval had to send, was
\* (presentPost).
THEOREM DropToldTrulyAlways == Spec => []DropToldTruly
<1>1. ASSUME DropInv PROVE NotSentIsTrue
  BY <1>1, ShownTruly DEF NotSentIsTrue
<1>2. ASSUME DropInv, approval.status = "executed", NEW t \in Enabled(approval.payload)
      PROVE  row[t].status \in Complete /\ sent[t] # <<>>
  <2>1. t \in Targets /\ row[t].status \in Complete
    BY <1>2 DEF DropInv, ExecutedTruthful, Enabled
  <2> QED BY <1>2, <2>1 DEF DropInv, RowTruthful, Outcomes, Complete, Denied
<1>3. ASSUME DropInv, ShownPost = "posted", NEW t \in Enabled(Current)
      PROVE  row[t].status = "posted" /\ sent[t] # <<>>
  <2>1. {ShownTarget(u) : u \in Enabled(Current)} = {"posted"}
    BY <1>3, ShownDrop
  <2>2. ShownTarget(t) = "posted" /\ t \in Targets
    BY <2>1 DEF Enabled
  <2> QED BY <1>3, <2>2, ShownTruly
<1>4. DropInv => DropToldTruly
  BY <1>1, <1>2, <1>3 DEF DropToldTruly, DoneIsDelivered
<1> QED BY <1>4, DropInvariant, PTL

\* An hour after an attempt began, wherever it died, the drop is no longer shown as
\* waiting, approved or posting (presentPost).
THEOREM ResolvedWithinTheHourAlways == Spec => []ResolvedWithinTheHour
<1>1. ASSUME DropInv, linked, approval.attempt = "old", post \in Unresolved PROVE UnresolvedAttempt
  <2>1. approval.status \in {"approved", "failed"}
    BY <1>1 DEF DropInv, Lifecycle, ExecutedTruthful, Settled
  <2> QED BY <1>1, <2>1 DEF UnresolvedAttempt
<1>2. DropInv => ResolvedWithinTheHour
  BY <1>1, ShownDrop DEF ResolvedWithinTheHour
<1> QED BY <1>2, DropInvariant, PTL

-----------------------------------------------------------------------------
(* One publish() of an adapter                                              *)

Untouched == {"begin", "post", "start", "limit", "container", "token", "open", "reauthorize", "reopen", "inbox"}
Uploading == {"transfer", "finish", "put", "poll", "publish"}
CallRows == [step : Untouched \union Uploading \union {"done"}, offset : Int, end : Int, polls : Nat,
             answer : {"none", "failed", "unknown", "published", "private_upload", "processing"}]

\* Each platform takes its own steps.
PlatformSteps ==
  /\ call.step \in {"limit", "container", "poll", "publish"} => wanted.platform = "instagram"
  /\ call.step \in {"token", "open", "reauthorize", "reopen"} => wanted.platform = "youtube"
  /\ call.step = "inbox" => wanted.platform = "tiktok"

\* The requests sent are those that lead to the step.
SentBefore ==
  /\ call.step \in {"begin", "post", "start", "limit", "inbox", "token"} => calls = 0
  /\ call.step \in {"container", "open"} => calls <= 1
  /\ call.step = "reauthorize" => calls <= 2
  /\ call.step = "reopen" => calls <= 3
  /\ call.step = "put" => /\ call.offset \in 0..(Chunks - 1)
                          /\ calls <= call.offset + (IF wanted.platform = "instagram" THEN 2 ELSE 4)
  /\ call.step = "transfer" => /\ call.end <= Chunks /\ calls <= Chunks + 1
                               /\ call.offset < call.end => calls <= call.offset + 1
  /\ call.step = "finish" => calls <= Chunks + 1
  /\ call.step = "poll" => call.polls < MaxPolls /\ calls <= Chunks + 2 + call.polls
  /\ call.step = "publish" => calls <= Chunks + 2 + MaxPolls

\* Nothing is written before the steps that write, and a step that goes on has no
\* answer yet.
AdapterInv ==
  /\ call \in CallRows /\ wanted \in Inputs /\ calls \in Nat
  /\ call.step \in Untouched => remote = "nothing"
  /\ call.step # "done" => call.answer = "none"
  /\ call.step \notin {"poll", "publish", "done"} => call.polls = 0
  /\ PlatformSteps /\ SentBefore
  /\ AnswerIsTrue /\ PublishEnds

LEMMA AdapterStarts == ASSUME AdapterConstants PROVE AdapterInit => AdapterInv
BY DEF AdapterConstants, AdapterInit, AdapterInv, CallRows, Untouched, Uploading, PlatformSteps, SentBefore,
       AnswerIsTrue, PublishEnds

LEMMA CallIs ==
  ASSUME AdapterConstants, AdapterInv
  PROVE  /\ call.step \in Untouched \union Uploading \union {"done"} /\ call.offset \in Int /\ call.end \in Int
         /\ call.polls \in Nat /\ calls \in Nat /\ Chunks \in Nat \ {0} /\ MaxPolls \in Nat \ {0}
BY DEF AdapterConstants, AdapterInv, CallRows

\* Before the last step a request more may be sent.
LEMMA RequestLeft ==
  ASSUME AdapterConstants, AdapterInv, call.step # "done"
  PROVE  calls + 1 <= Chunks + MaxPolls + 4
BY CallIs DEF AdapterInv, SentBefore, Untouched, Uploading

\* publish() answers.
LEMMA Ended ==
  ASSUME AdapterConstants, AdapterInv, UNCHANGED wanted, call.step # "done",
         NEW a \in {"failed", "unknown", "published", "private_upload", "processing"},
         call' = Answer(a), calls' \in {calls, calls + 1},
         a = "failed" => remote' = "nothing", a = "published" => remote' = "public",
         a = "private_upload" => remote' = "private", a = "processing" => remote' \in {"public", "inbox"}
  PROVE  AdapterInv'
<1>1. /\ call' \in CallRows /\ call'.step = "done" /\ call'.answer = a
  BY DEF Answer, AdapterInv, CallRows
<1>2. calls' \in Nat /\ calls' <= Chunks + MaxPolls + 4
  BY RequestLeft, CallIs
<1> QED BY <1>1, <1>2 DEF AdapterInv, PlatformSteps, SentBefore, AnswerIsTrue, PublishEnds, Untouched

\* publish() goes on at another step.
LEMMA WentOn ==
  ASSUME AdapterConstants, AdapterInv, UNCHANGED wanted, call.step # "done", call' \in CallRows,
         call'.step # "done", call'.answer = call.answer,
         calls' \in Nat, calls' <= Chunks + MaxPolls + 4,
         call'.step \in Untouched => remote' = "nothing",
         call'.step \notin {"poll", "publish"} => call'.polls = 0,
         PlatformSteps', SentBefore'
  PROVE  AdapterInv'
BY DEF AdapterInv, AnswerIsTrue, PublishEnds

LEMMA StepsTo ==
  ASSUME AdapterConstants, AdapterInv, NEW s \in Untouched \union Uploading, call' = ProceedTo(s)
  PROVE  /\ call' \in CallRows /\ call'.step = s /\ call'.offset = 0 /\ call'.polls = call.polls
         /\ call'.answer = call.answer
<1>1. call \in CallRows /\ call' = [call EXCEPT !.step = s, !.offset = 0]
  BY DEF ProceedTo, AdapterInv
<1>2. call' = [step |-> s, offset |-> 0, end |-> call.end, polls |-> call.polls, answer |-> call.answer]
  BY <1>1 DEF CallRows
<1> QED BY <1>1, <1>2 DEF CallRows

LEMMA AnswersAre ==
  /\ Unsure = Answer("unknown")
  /\ \A a \in {"failed", "published", "private_upload", "processing"} : a # "unknown"
BY DEF Unsure

\* A write that is not answered well.
LEMMA BadlyAnswered ==
  ASSUME AdapterConstants, AdapterInv, UNCHANGED wanted, call.step # "done",
         call' = Unsure, calls' \in {calls, calls + 1}
  PROVE  AdapterInv'
BY Ended, AnswersAre

LEMMA BeginSafe == ASSUME AdapterConstants, AdapterInv, UNCHANGED wanted, Begin PROVE AdapterInv'
<1>1. call.step = "begin" /\ calls = 0 /\ remote = "nothing" /\ UNCHANGED <<calls, remote>> /\ call.polls = 0
  BY DEF Begin, AtStep, NoCall, AdapterInv, SentBefore, Untouched
<1>2. CASE call' = Answer("failed")
  BY <1>1, <1>2, Ended
<1>3. CASE call' = ProceedTo(FirstStep)
  <2>1. /\ FirstStep \in {"start", "post", "limit", "open", "token", "inbox"}
        /\ FirstStep = "limit" => wanted.platform = "instagram"
        /\ FirstStep \in {"open", "token"} => wanted.platform = "youtube"
        /\ FirstStep = "inbox" => wanted.platform = "tiktok"
    BY DEF AdapterInv, Inputs, FirstStep
  <2>2. /\ call' \in CallRows /\ call'.step = FirstStep /\ call'.polls = 0 /\ call'.answer = call.answer
    BY <1>1, <1>3, <2>1, StepsTo DEF Untouched
  <2>3. calls' \in Nat /\ calls' <= Chunks + MaxPolls + 4
    BY <1>1, CallIs
  <2>4. PlatformSteps' /\ SentBefore'
    BY <1>1, <2>1, <2>2 DEF PlatformSteps, SentBefore
  <2> QED BY <1>1, <2>1, <2>2, <2>3, <2>4, WentOn
<1> QED BY <1>2, <1>3 DEF Begin, NoCall

LEMMA PostSafe == ASSUME AdapterConstants, AdapterInv, UNCHANGED wanted, Post PROVE AdapterInv'
<1>1. call.step = "post" /\ calls' = calls + 1
  BY DEF Post, AtStep, WriteCall
<1>2. CASE call' = Unsure
  BY <1>1, <1>2, BadlyAnswered
<1>3. CASE remote' = "public" /\ call' \in {Answer("processing"), Answer("published")}
  BY <1>1, <1>3, Ended
<1> QED BY <1>2, <1>3 DEF Post, WriteCall

LEMMA FromIs ==
  ASSUME AdapterConstants, AdapterInv, NEW from \in Offsets, NEW to \in Offsets, ~Invalid(from, to),
         call' = From(from, to)
  PROVE  /\ call' \in CallRows /\ call'.step = "transfer" /\ call'.offset = from /\ call'.end = to
         /\ call'.polls = call.polls /\ call'.answer = call.answer
         /\ from \in Nat /\ to \in 0..Chunks
<1>1. call \in CallRows /\ call' = [call EXCEPT !.step = "transfer", !.offset = from, !.end = to]
  BY DEF From, AdapterInv
<1>2. call' = [step |-> "transfer", offset |-> from, end |-> to, polls |-> call.polls, answer |-> call.answer]
  BY <1>1 DEF CallRows
<1>3. from \in Nat /\ to \in 0..Chunks
  BY CallIs DEF Offsets, Invalid
<1> QED BY <1>1, <1>2, <1>3 DEF CallRows, Uploading

LEMMA StartSafe == ASSUME AdapterConstants, AdapterInv, UNCHANGED wanted, Start PROVE AdapterInv'
<1>1. call.step = "start" /\ calls = 0 /\ calls' = 1 /\ call.polls = 0
  BY DEF Start, AtStep, WriteCall, AdapterInv, SentBefore
<1>2. CASE call' = Unsure
  BY <1>1, <1>2, BadlyAnswered
<1>3. ASSUME NEW from \in Offsets, NEW to \in Offsets, ~Invalid(from, to), call' = From(from, to)
      PROVE  AdapterInv'
  <2>1. /\ call' \in CallRows /\ call'.step = "transfer" /\ call'.offset = from /\ call'.end = to
        /\ call'.polls = call.polls /\ call'.answer = call.answer
        /\ from \in Nat /\ to \in 0..Chunks
    BY <1>3, FromIs
  <2>2. PlatformSteps' /\ SentBefore'
    BY <1>1, <2>1, CallIs DEF PlatformSteps, SentBefore
  <2> QED BY <1>1, <2>1, <2>2, WentOn, CallIs DEF Untouched
<1> QED BY <1>2, <1>3 DEF Start, WriteCall

LEMMA TransferSafe == ASSUME AdapterConstants, AdapterInv, UNCHANGED wanted, Transfer PROVE AdapterInv'
<1>1. /\ call.step = "transfer" /\ call.end <= Chunks /\ calls <= Chunks + 1 /\ call.polls = 0
      /\ call.offset < call.end => calls <= call.offset + 1
  BY DEF Transfer, AtStep, AdapterInv, SentBefore
<1>2. CASE call.offset < call.end /\ call' = Unsure
  BY <1>1, <1>2, BadlyAnswered DEF Transfer, WriteCall
<1>3. ASSUME call.offset < call.end, calls' = calls + 1,
             NEW from \in Offsets, NEW to \in Offsets, ~Invalid(from, to), Advances(from, to), call' = From(from, to)
      PROVE  AdapterInv'
  <2>1. /\ call' \in CallRows /\ call'.step = "transfer" /\ call'.offset = from /\ call'.end = to
        /\ call'.polls = call.polls /\ call'.answer = call.answer
        /\ from \in Nat /\ to \in 0..Chunks
    BY <1>3, FromIs
  <2>2. from < to => calls' <= from + 1
    BY <1>1, <1>3, <2>1, CallIs DEF Advances
  <2>3. calls' \in Nat /\ calls' <= Chunks + 1 /\ calls' <= Chunks + MaxPolls + 4
    <3>1. calls' = calls + 1 /\ calls <= Chunks
      BY <1>1, <1>3, CallIs
    <3> QED BY <3>1, CallIs
  <2>4. to <= Chunks /\ (from < to => calls' <= from + 1)
    BY <2>1, <2>2, CallIs
  <2>5. PlatformSteps' /\ SentBefore'
    BY <2>1, <2>3, <2>4 DEF PlatformSteps, SentBefore
  <2> QED BY <1>1, <2>1, <2>3, <2>5, WentOn DEF Untouched
<1>4. CASE ~(call.offset < call.end)
  <2>1. call' = ProceedTo("finish") /\ calls' = calls
    BY <1>4 DEF Transfer, NoCall
  <2>2. call' \in CallRows /\ call'.step = "finish" /\ call'.answer = call.answer /\ call'.polls = call.polls
    BY <2>1, StepsTo DEF Uploading
  <2>3. PlatformSteps' /\ SentBefore'
    BY <1>1, <2>1, <2>2 DEF PlatformSteps, SentBefore
  <2> QED BY <1>1, <2>1, <2>2, <2>3, WentOn, CallIs DEF Untouched
<1> QED BY <1>2, <1>3, <1>4 DEF Transfer, WriteCall

LEMMA FinishSafe == ASSUME AdapterConstants, AdapterInv, UNCHANGED wanted, FinishUpload PROVE AdapterInv'
<1>1. call.step = "finish" /\ calls' = calls + 1
  BY DEF FinishUpload, AtStep, WriteCall
<1>2. CASE call' = Unsure
  BY <1>1, <1>2, BadlyAnswered
<1>3. CASE remote' = "public" /\ call' = Answer("processing")
  BY <1>1, <1>3, Ended
<1> QED BY <1>2, <1>3 DEF FinishUpload, WriteCall

LEMMA InstagramSafe ==
  ASSUME AdapterConstants, AdapterInv, UNCHANGED wanted, Limit \/ Container \/ Poll \/ Publish
  PROVE  AdapterInv'
<1>1. wanted.platform = "instagram" /\ calls' = calls + 1 /\ call.step \in {"limit", "container", "poll", "publish"}
  BY DEF Limit, Container, Poll, Publish, AtStep, ReadCall, WriteCall, AdapterInv, PlatformSteps
<1>2. CASE call' = Unsure
  BY <1>1, <1>2, BadlyAnswered
<1>3. CASE Limit /\ call' = Answer("failed")
  BY <1>1, <1>3, Ended DEF Limit, AtStep, ReadCall, AdapterInv, Untouched
<1>4. CASE Limit /\ call' = ProceedTo("container")
  <2>1. call.step = "limit" /\ calls = 0 /\ remote' = "nothing" /\ call.polls = 0
    BY <1>4 DEF Limit, AtStep, ReadCall, AdapterInv, SentBefore, Untouched
  <2>2. call' \in CallRows /\ call'.step = "container" /\ call'.answer = call.answer /\ call'.polls = 0
    BY <1>4, <2>1, StepsTo DEF Untouched
  <2>3. PlatformSteps' /\ SentBefore'
    BY <1>1, <2>1, <2>2 DEF PlatformSteps, SentBefore
  <2> QED BY <1>1, <2>1, <2>2, <2>3, WentOn, CallIs
<1>5. CASE Container /\ \E s \in {"put", "poll", "publish"} : call' = ProceedTo(s)
  <2>1. call.step = "container" /\ calls <= 1 /\ call.polls = 0
    BY <1>5 DEF Container, AtStep, AdapterInv, SentBefore
  <2>2. PICK s \in {"put", "poll", "publish"} : call' = ProceedTo(s)
    BY <1>5
  <2>3. /\ call' \in CallRows /\ call'.step = s /\ call'.answer = call.answer /\ call'.polls = 0
        /\ call'.offset = 0
    BY <2>1, <2>2, StepsTo DEF Uploading
  <2>4. PlatformSteps' /\ SentBefore'
    BY <1>1, <2>1, <2>3, CallIs DEF PlatformSteps, SentBefore
  <2> QED BY <1>1, <2>1, <2>3, <2>4, WentOn, CallIs DEF Untouched
<1>6. CASE Poll /\ call' = ProceedTo("publish")
  <2>1. call.step = "poll" /\ calls <= Chunks + 2 + call.polls /\ call.polls < MaxPolls
    BY <1>6 DEF Poll, AtStep, AdapterInv, SentBefore
  <2>2. call' \in CallRows /\ call'.step = "publish" /\ call'.answer = call.answer
    BY <1>6, StepsTo DEF Uploading
  <2>3. calls' <= Chunks + 2 + MaxPolls
    BY <1>1, <2>1, CallIs
  <2>4. PlatformSteps' /\ SentBefore'
    BY <1>1, <2>2, <2>3 DEF PlatformSteps, SentBefore
  <2> QED BY <1>1, <2>1, <2>2, <2>3, <2>4, WentOn, CallIs DEF Untouched
<1>7. CASE Poll /\ call.polls + 1 < MaxPolls /\ call' = [call EXCEPT !.polls = @ + 1]
  <2>1. call.step = "poll" /\ calls <= Chunks + 2 + call.polls /\ call.polls < MaxPolls
    BY <1>7 DEF Poll, AtStep, AdapterInv, SentBefore
  <2>2. /\ call' \in CallRows /\ call'.step = "poll" /\ call'.answer = call.answer
        /\ call'.polls = call.polls + 1
    BY <1>7, <2>1, CallIs DEF AdapterInv, CallRows
  <2>3. PlatformSteps' /\ SentBefore'
    BY <1>1, <1>7, <2>1, <2>2, CallIs DEF PlatformSteps, SentBefore
  <2> QED BY <1>1, <1>7, <2>1, <2>2, <2>3, WentOn, CallIs DEF Untouched
<1>8. CASE Publish /\ remote' = "public" /\ call' = Answer("published")
  BY <1>1, <1>8, Ended
<1> QED BY <1>2, <1>3, <1>4, <1>5, <1>6, <1>7, <1>8 DEF Limit, Container, Poll, Publish, ReadCall, WriteCall

LEMMA TokenSafe ==
  ASSUME AdapterConstants, AdapterInv, UNCHANGED wanted,
         Refresh("token", "open") \/ Refresh("reauthorize", "reopen")
  PROVE  AdapterInv'
<1>1. /\ wanted.platform = "youtube" /\ call.step \in {"token", "reauthorize"} /\ UNCHANGED remote
      /\ remote = "nothing" /\ calls' \in {calls, calls + 1} /\ call.polls = 0
  BY DEF Refresh, AtStep, ReadCall, NoCall, AdapterInv, PlatformSteps, Untouched
<1>2. CASE call' = Answer("failed")
  BY <1>1, <1>2, Ended
<1>3. CASE call.step = "token" /\ call' = ProceedTo("open")
  <2>1. call' \in CallRows /\ call'.step = "open" /\ call'.answer = call.answer /\ call'.polls = 0
    BY <1>1, <1>3, StepsTo DEF Untouched
  <2>2. calls = 0
    BY <1>3 DEF AdapterInv, SentBefore
  <2>3. PlatformSteps' /\ SentBefore'
    BY <1>1, <2>1, <2>2 DEF PlatformSteps, SentBefore
  <2> QED BY <1>1, <1>3, <2>1, <2>2, <2>3, WentOn, CallIs
<1>4. CASE call.step = "reauthorize" /\ call' = ProceedTo("reopen")
  <2>1. call' \in CallRows /\ call'.step = "reopen" /\ call'.answer = call.answer /\ call'.polls = 0
    BY <1>1, <1>4, StepsTo DEF Untouched
  <2>2. calls <= 2
    BY <1>4 DEF AdapterInv, SentBefore
  <2>3. PlatformSteps' /\ SentBefore'
    BY <1>1, <2>1, <2>2, CallIs DEF PlatformSteps, SentBefore
  <2> QED BY <1>1, <1>4, <2>1, <2>2, <2>3, WentOn, CallIs
<1> QED BY <1>2, <1>3, <1>4 DEF Refresh, AtStep, ReadCall, NoCall

LEMMA OpenSafe ==
  ASSUME AdapterConstants, AdapterInv, UNCHANGED wanted, Open("open") \/ Open("reopen")
  PROVE  AdapterInv'
<1>1. /\ wanted.platform = "youtube" /\ call.step \in {"open", "reopen"} /\ calls' = calls + 1
      /\ call.polls = 0 /\ calls <= 3
  BY CallIs DEF Open, AtStep, ReadCall, WriteCall, AdapterInv, PlatformSteps, SentBefore
<1>2. CASE call' = Unsure
  BY <1>1, <1>2, BadlyAnswered
<1>3. CASE call' = ProceedTo("put")
  <2>1. /\ call' \in CallRows /\ call'.step = "put" /\ call'.answer = call.answer /\ call'.polls = 0
        /\ call'.offset = 0
    BY <1>1, <1>3, StepsTo DEF Uploading
  <2>2. PlatformSteps' /\ SentBefore'
    BY <1>1, <2>1, CallIs DEF PlatformSteps, SentBefore
  <2> QED BY <1>1, <1>3, <2>1, <2>2, WentOn, CallIs DEF Untouched
<1>4. CASE call.step = "open" /\ call' = ProceedTo("reauthorize") /\ UNCHANGED remote
  <2>1. call' \in CallRows /\ call'.step = "reauthorize" /\ call'.answer = call.answer /\ call'.polls = 0
    BY <1>1, <1>4, StepsTo DEF Untouched
  <2>2. calls <= 1 /\ remote' = "nothing"
    BY <1>4 DEF AdapterInv, SentBefore, Untouched
  <2>3. PlatformSteps' /\ SentBefore'
    BY <1>1, <2>1, <2>2, CallIs DEF PlatformSteps, SentBefore
  <2> QED BY <1>1, <1>4, <2>1, <2>2, <2>3, WentOn, CallIs
<1> QED BY <1>2, <1>3, <1>4 DEF Open, AtStep, ReadCall, WriteCall

LEMMA InboxSafe == ASSUME AdapterConstants, AdapterInv, UNCHANGED wanted, Inbox PROVE AdapterInv'
<1>1. call.step = "inbox" /\ calls = 0 /\ calls' = 1 /\ call.polls = 0 /\ wanted.platform = "tiktok"
  BY DEF Inbox, AtStep, WriteCall, AdapterInv, SentBefore, PlatformSteps
<1>2. CASE call' = Unsure
  BY <1>1, <1>2, BadlyAnswered
<1>3. CASE call' = ProceedTo("put")
  <2>1. /\ call' \in CallRows /\ call'.step = "put" /\ call'.answer = call.answer /\ call'.polls = 0
        /\ call'.offset = 0
    BY <1>1, <1>3, StepsTo DEF Uploading
  <2>2. PlatformSteps' /\ SentBefore'
    BY <1>1, <2>1, CallIs DEF PlatformSteps, SentBefore
  <2> QED BY <1>1, <1>3, <2>1, <2>2, WentOn, CallIs DEF Untouched
<1>4. CASE remote' = "inbox" /\ call' = Answer("processing")
  BY <1>1, <1>4, Ended
<1> QED BY <1>2, <1>3, <1>4 DEF Inbox, WriteCall

LEMMA PutSafe == ASSUME AdapterConstants, AdapterInv, UNCHANGED wanted, Put PROVE AdapterInv'
<1>1. /\ call.step = "put" /\ calls' = calls + 1 /\ call.polls = 0 /\ call.offset \in 0..(Chunks - 1)
      /\ calls <= call.offset + (IF wanted.platform = "instagram" THEN 2 ELSE 4)
  BY DEF Put, AtStep, WriteCall, AdapterInv, SentBefore
<1>2. CASE call' = Unsure
  BY <1>1, <1>2, BadlyAnswered
<1>3. CASE call.offset + 1 < Chunks /\ call' = [call EXCEPT !.offset = @ + 1]
  <2>1. /\ call' \in CallRows /\ call'.step = "put" /\ call'.answer = call.answer /\ call'.polls = 0
        /\ call'.offset = call.offset + 1
    BY <1>1, <1>3, CallIs DEF AdapterInv, CallRows
  <2>2. call'.offset \in 0..(Chunks - 1) /\ calls' \in Nat /\ calls' <= Chunks + MaxPolls + 4
        /\ calls' <= call'.offset + (IF wanted.platform = "instagram" THEN 2 ELSE 4)
    BY <1>1, <1>3, <2>1, CallIs
  <2>3. PlatformSteps' /\ SentBefore'
    BY <1>1, <2>1, <2>2 DEF PlatformSteps, SentBefore
  <2> QED BY <1>1, <1>3, <2>1, <2>2, <2>3, WentOn DEF Untouched
<1>4. CASE ~(call.offset + 1 < Chunks) /\ remote' = Uploaded.level /\ call' = Uploaded.next
  <2>1. CASE wanted.platform = "instagram"
    <3>1. call' = ProceedTo("poll")
      BY <1>4, <2>1 DEF Uploaded
    <3>2. /\ call' \in CallRows /\ call'.step = "poll" /\ call'.answer = call.answer /\ call'.polls = 0
      BY <1>1, <3>1, StepsTo DEF Uploading
    <3>3. calls' \in Nat /\ calls' <= Chunks + 2
      BY <1>1, <1>4, <2>1, CallIs
    <3>4. PlatformSteps' /\ SentBefore'
      BY <2>1, <3>2, <3>3, CallIs DEF PlatformSteps, SentBefore
    <3> QED BY <1>1, <3>2, <3>3, <3>4, WentOn, CallIs DEF Untouched
  <2>2. CASE wanted.platform = "youtube"
    <3>1. call' = Answer("private_upload") /\ remote' = "private"
      BY <1>4, <2>2 DEF Uploaded
    <3> QED BY <1>1, <3>1, Ended
  <2>3. CASE wanted.platform \notin {"instagram", "youtube"}
    <3>1. call' = Answer("processing") /\ remote' = "inbox"
      BY <1>4, <2>3 DEF Uploaded
    <3> QED BY <1>1, <3>1, Ended
  <2> QED BY <2>1, <2>2, <2>3
<1> QED BY <1>2, <1>3, <1>4 DEF Put, WriteCall

LEMMA AdapterInvAlways == ASSUME AdapterConstants PROVE AdapterSpec => []AdapterInv
<1>1. AdapterInit => AdapterInv
  BY AdapterStarts
<1>2. AdapterInv /\ [AdapterNext]_adapterVars => AdapterInv'
  <2> SUFFICES ASSUME AdapterInv, [AdapterNext]_adapterVars PROVE AdapterInv'
    OBVIOUS
  <2>1. CASE UNCHANGED adapterVars
    BY <2>1 DEF adapterVars, AdapterInv, PlatformSteps, SentBefore, AnswerIsTrue, PublishEnds
  <2>2. CASE AdapterNext
    BY <2>2, BeginSafe, PostSafe, StartSafe, TransferSafe, FinishSafe, InstagramSafe, TokenSafe, OpenSafe,
       InboxSafe, PutSafe DEF AdapterNext
  <2> QED BY <2>1, <2>2
<1> QED BY <1>1, <1>2, PTL DEF AdapterSpec

\* Whatever a platform does with a call it does not answer well, and however many
\* chunks and polls there are: an answer claims no more than is there, a plain failure
\* hides nothing that was left on the platform, and publish() ends after a bounded
\* number of requests (publish of each adapter).
THEOREM AnswerIsTrueAlways ==
  ASSUME AdapterConstants
  PROVE  AdapterSpec => [](AnswerIsTrue /\ PublishEnds)
<1>1. AdapterInv => AnswerIsTrue /\ PublishEnds
  BY DEF AdapterInv
<1> QED BY <1>1, AdapterInvAlways, PTL

-----------------------------------------------------------------------------
(* The bands of a browser                                                   *)

SessionRows == [operator : Operators, current : Nat]
Sessions == SessionRows \union {Nobody}
Memberships == [band : Nat \ {0}, role : {"owner", "viewer"}]
Slugs == (Names \union {"other"}) \X Nat
BandRows == [slug : Slugs, maker : Operators \union {Nobody}, first : BOOLEAN, click : Nat]
CreateFields == {"at", "session", "name", "click", "tries", "heard", "source"}
Making == {"create", "commit", "conflict"}

\* What a page shows is the band its session chose, or else the oldest of its rows.
ShownFits(p) ==
  /\ p.rows \in Seq(Memberships)
  /\ p.band = IF \E i \in DOMAIN p.rows : p.rows[i].band = p.session.current THEN p.session.current
              ELSE p.rows[1].band

PageFits(p) ==
  /\ p.at = "google" => /\ p.nonce \in 1..clicks
                        /\ cookie.state # Nobody /\ cookie.state.nonce = p.nonce => cookie.state.invite = p.invite
  /\ p.at = "landed" => p.invite = p.asked
  /\ p.at = "shown" => ShownFits(p)

\* No band was made by a click.
Unmade(click) == \A i \in DOMAIN band : band[i].click # click

CreateFits(r) ==
  /\ DOMAIN r = CreateFields /\ r.at = "create"
  /\ r.session \in Sessions /\ r.name \in Names
  /\ r.click \in 1..clicks /\ Unmade(r.click)

\* What a transaction that is about to commit has read.
CommitFits(r) ==
  /\ CreateFits(r.again)
  /\ r.operator \in Operators /\ r.slug \in Slugs /\ r.saw \in 0..Len(band)
  /\ \A i \in 1..r.saw : /\ band[i].slug # r.slug
                         /\ r.again.source = 0 => ~(band[i].first /\ band[i].maker = r.operator)

\* A request of a tab that shows p.
RequestFits(r, p) ==
  /\ r.at = "callback" => /\ p.at = "google" /\ r.nonce = p.nonce /\ r.code \in Operators \union {Nobody}
                          /\ Matches(r) => r.state.invite = p.invite
  /\ r.at = "switch" => r.session \in Sessions /\ r.band \in Nat
  /\ r.at = "act" => ShownFits(r.shown) /\ r.header \in {0, r.shown.band}
  /\ r.at = "write" => (r.header # 0 \/ r.fresh => r.band = r.shown)
  /\ r.at = "create" => CreateFits(r)
  /\ r.at = "commit" => CommitFits(r)
  /\ r.at = "conflict" => r.click \in 1..clicks /\ Unmade(r.click)
  /\ r.at = "created" => /\ r.operator \in Operators
                         /\ \E i \in DOMAIN band \ {1} : band[i].click = r.click /\ band[i].maker = r.operator

ClickOf(r) == IF r.at = "commit" THEN r.again.click ELSE r.click

BandsTyped ==
  /\ clicks \in Nat
  /\ band \in Seq(BandRows) /\ band # <<>>
  /\ joined \in [Operators -> Seq(Memberships)]
  /\ cookie.session \in Sessions /\ cookie = [session |-> cookie.session, state |-> cookie.state]
  /\ cookie.state # Nobody => cookie.state.nonce \in 0..clicks
  /\ page = [t \in Tabs |-> page[t]] /\ request = [t \in Tabs |-> request[t]]

\* Who made a band owns it; only the first was made by somebody else.
OwnsMade ==
  \A i \in DOMAIN band \ {1} : band[i].maker \in Operators /\ HasRole(band[i].maker, i, {"owner"})

RowsApart ==
  \A i, j \in DOMAIN band : i # j =>
    /\ band[i].slug # band[j].slug /\ band[i].click # band[j].click
    /\ ~(band[i].first /\ band[j].first /\ band[i].maker = band[j].maker)

\* A click is one request.
ClicksApart ==
  \A t, u \in Tabs : t # u /\ request[t].at \in Making /\ request[u].at \in Making
    => ClickOf(request[t]) # ClickOf(request[u])

BrowserInv ==
  /\ BandsTyped /\ OwnsMade /\ RowsApart /\ ClicksApart
  /\ ~band[1].first /\ \A i \in DOMAIN band : band[i].click \in 0..clicks
  /\ \A t \in Tabs : PageFits(page[t]) /\ RequestFits(request[t], page[t])

LEMMA BrowserSafe == ASSUME BrowserInv PROVE LandsAtInvite /\ ActsWhereShown /\ BandMadeOnce
<1>1. LandsAtInvite
  BY DEF BrowserInv, PageFits, LandsAtInvite
<1>2. ActsWhereShown
  BY DEF BrowserInv, RequestFits, ActsWhereShown
<1>3. ASSUME NEW t \in Tabs, request[t].at = "conflict" PROVE \A i \in DOMAIN band : band[i].click # request[t].click
  BY <1>3 DEF BrowserInv, RequestFits, Unmade
<1>4. ASSUME NEW t \in Tabs, request[t].at = "created"
      PROVE  \E i \in DOMAIN band : band[i].click = request[t].click /\ HasRole(request[t].operator, i, {"owner"})
  BY <1>4 DEF BrowserInv, RequestFits, OwnsMade
<1> QED BY <1>1, <1>2, <1>3, <1>4 DEF BrowserInv, RowsApart, BandMadeOnce

LEMMA BrowserStarts == ASSUME WorkspaceConstants, WorkspaceInit PROVE BrowserInv
<1> DEFINE first == [slug |-> <<"other", 0>>, maker |-> Nobody, first |-> FALSE, click |-> 0]
<1>1. first \in BandRows /\ band = <<first>> /\ ~first.first /\ first.click = 0
  BY DEF WorkspaceInit, BandRows, Slugs
<1>2. band \in Seq(BandRows) /\ band # <<>> /\ DOMAIN band = {1} /\ ~band[1].first /\ band[1].click = 0
  BY <1>1
<1>3. joined \in [Operators -> Seq(Memberships)]
  <2>1. [band |-> 1, role |-> "owner"] \in Memberships
    BY DEF Memberships
  <2>2. <<>> \in Seq(Memberships) /\ <<[band |-> 1, role |-> "owner"]>> \in Seq(Memberships)
    BY <2>1
  <2> QED BY <2>2 DEF WorkspaceInit
<1>4. PICK s \in {Nobody} \union {Session(o, 0) : o \in Operators} : cookie = [session |-> s, state |-> Nobody]
  BY DEF WorkspaceInit
<1>5. s \in Sessions
  BY <1>4 DEF Session, Sessions, SessionRows
<1>6. page = [t \in Tabs |-> [at |-> "blank"]] /\ request = [t \in Tabs |-> NoRequest] /\ clicks = 0
  BY DEF WorkspaceInit
<1>7. BandsTyped
  BY <1>2, <1>3, <1>4, <1>5, <1>6 DEF BandsTyped
<1>8. OwnsMade /\ RowsApart
  BY <1>2 DEF OwnsMade, RowsApart
<1>9. ClicksApart
  BY <1>6 DEF ClicksApart, NoRequest, Making
<1>10. ASSUME NEW t \in Tabs PROVE PageFits(page[t]) /\ RequestFits(request[t], page[t])
  BY <1>6 DEF PageFits, RequestFits, NoRequest
<1> QED BY <1>2, <1>6, <1>7, <1>8, <1>9, <1>10 DEF BrowserInv

-----------------------------------------------------------------------------
(* One tab moves *)

\* A page or a request of a tab stays fit while bands stay and no sign-in begins.
LEMMA StaysFit ==
  ASSUME UNCHANGED <<band, clicks>>, cookie'.state = cookie.state \/ cookie'.state = Nobody,
         NEW p, NEW r, PageFits(p), RequestFits(r, p)
  PROVE  PageFits(p)' /\ RequestFits(r, p)'
<1>1. PageFits(p)'
  BY DEF PageFits, ShownFits
<1>2. RequestFits(r, p)'
  BY DEF RequestFits, ShownFits, CreateFits, CommitFits, Unmade, Matches
<1> QED BY <1>1, <1>2

\* A request goes on, ends, or begins without a click; its tab shows another page.
LEMMA TabMovesOn ==
  ASSUME BrowserInv, UNCHANGED <<band, joined, clicks>>,
         cookie' = [session |-> cookie'.session, state |-> cookie'.state],
         cookie'.session \in Sessions, cookie'.state = cookie.state \/ cookie'.state = Nobody,
         NEW t \in Tabs, NEW p, NEW r, page' = [page EXCEPT ![t] = p], request' = [request EXCEPT ![t] = r],
         PageFits(p)', RequestFits(r, p)',
         r.at \in Making => request[t].at \in Making /\ ClickOf(r) = ClickOf(request[t])
  PROVE  BrowserInv'
<1>1. /\ page' = [u \in Tabs |-> page'[u]] /\ request' = [u \in Tabs |-> request'[u]]
      /\ page'[t] = p /\ request'[t] = r
      /\ \A u \in Tabs \ {t} : page'[u] = page[u] /\ request'[u] = request[u]
  BY DEF BrowserInv, BandsTyped
<1>2. BandsTyped'
  BY <1>1 DEF BrowserInv, BandsTyped
<1>3. ClicksApart'
  BY <1>1 DEF BrowserInv, ClicksApart, ClickOf
<1>4. OwnsMade' /\ RowsApart'
  BY DEF BrowserInv, OwnsMade, RowsApart, HasRole
<1>5. ASSUME NEW u \in Tabs PROVE PageFits(page[u])' /\ RequestFits(request[u], page[u])'
  <2>1. CASE u = t
    BY <1>1, <2>1 DEF PageFits, RequestFits, ShownFits, CreateFits, CommitFits, Unmade, Matches
  <2>2. CASE u # t
    <3>1. PageFits(page[u]) /\ RequestFits(request[u], page[u])
      BY DEF BrowserInv
    <3>2. page'[u] = page[u] /\ request'[u] = request[u]
      BY <1>1, <2>2
    <3> QED BY <3>1, <3>2 DEF PageFits, RequestFits, ShownFits, CreateFits, CommitFits, Unmade, Matches
  <2> QED BY <2>1, <2>2
<1> QED BY <1>2, <1>3, <1>4, <1>5 DEF BrowserInv

-----------------------------------------------------------------------------
(* Pages, sign-ins, requests                                                 *)

LEMMA TabFits ==
  ASSUME BrowserInv, NEW t \in Tabs
  PROVE  /\ PageFits(page[t]) /\ RequestFits(request[t], page[t])
         /\ page = [u \in Tabs |-> page[u]] /\ request = [u \in Tabs |-> request[u]]
         /\ page = [page EXCEPT ![t] = page[t]] /\ request = [request EXCEPT ![t] = request[t]]
         /\ cookie.session \in Sessions /\ cookie = [session |-> cookie.session, state |-> cookie.state]
BY DEF BrowserInv, BandsTyped

\* Cookies and the page stay, and the request of a tab becomes another.
LEMMA RequestMovesOn ==
  ASSUME BrowserInv, UNCHANGED <<rows, cookie, page, clicks>>,
         NEW t \in Tabs, NEW r, request' = [request EXCEPT ![t] = r], RequestFits(r, page[t]),
         r.at \in Making => request[t].at \in Making /\ ClickOf(r) = ClickOf(request[t])
  PROVE  BrowserInv'
<1>1. PICK p : p = page[t]
  OBVIOUS
<1>2. PageFits(p)' /\ RequestFits(r, p)'
  BY <1>1, TabFits, StaysFit DEF rows
<1>3. page' = [page EXCEPT ![t] = p]
  BY <1>1, TabFits
<1> QED BY <1>2, <1>3, TabFits, TabMovesOn DEF rows

\* Nothing is asked any more.
LEMMA NothingFits == /\ NoRequest.at = "idle" /\ NoRequest.at \notin Making
                     /\ \A p : RequestFits(NoRequest, p) /\ RequestFits(NoRequest, p)'
BY DEF NoRequest, Making, RequestFits

LEMMA BandShownFits ==
  ASSUME BrowserInv, NEW s \in SessionRows, joined[s.operator] # <<>>
  PROVE  ShownFits([at |-> "shown", session |-> s, rows |-> joined[s.operator], band |-> BandShown(s)])
<1>1. joined[s.operator] \in Seq(Memberships) /\ s.operator \in Operators
  BY DEF BrowserInv, BandsTyped, SessionRows
<1> QED BY <1>1 DEF ShownFits, BandShown, Bands

LEMMA LoadSafe == ASSUME BrowserInv, NEW t \in Tabs, Load(t) PROVE BrowserInv'
<1> DEFINE s == cookie.session
<1>1. PICK p : p = Loaded(s)
  OBVIOUS
<1>2. p.at # "google" /\ p.at # "landed" /\ (p.at = "shown" => ShownFits(p))
  <2>1. CASE s = Nobody
    BY <1>1, <2>1 DEF Loaded
  <2>2. CASE s # Nobody /\ joined[s.operator] = <<>>
    BY <1>1, <2>2 DEF Loaded
  <2>3. CASE s # Nobody /\ joined[s.operator] # <<>>
    <3>1. p = [at |-> "shown", session |-> s, rows |-> joined[s.operator], band |-> BandShown(s)]
      BY <1>1, <2>3 DEF Loaded
    <3>2. s \in SessionRows
      BY <2>3, TabFits DEF Sessions
    <3>3. p.at = "shown" /\ ShownFits(p)
      BY <2>3, <3>1, <3>2, BandShownFits
    <3> QED BY <3>3
  <2> QED BY <2>1, <2>2, <2>3
<1>3. PageFits(p)'
  BY <1>2 DEF PageFits, ShownFits
<1>4. page' = [page EXCEPT ![t] = p] /\ request' = [request EXCEPT ![t] = NoRequest]
  BY <1>1, TabFits DEF Load, Shows
<1>5. cookie' = cookie /\ UNCHANGED <<band, joined, clicks>>
  BY DEF Load, rows
<1> QED BY <1>3, <1>4, <1>5, NothingFits, TabFits, TabMovesOn

LEMMA ComesBackSafe == ASSUME BrowserInv, NEW t \in Tabs, ComesBack(t) PROVE BrowserInv'
<1>1. PICK code \in Operators \union {Nobody} :
        request' = [request EXCEPT ![t] = [at |-> "callback", nonce |-> page[t].nonce, code |-> code, state |-> cookie.state]]
  BY DEF ComesBack, Sends
<1> DEFINE r == [at |-> "callback", nonce |-> page[t].nonce, code |-> code, state |-> cookie.state]
<1>2. page[t].at = "google" /\ PageFits(page[t])
  BY TabFits DEF ComesBack
<1>3. RequestFits(r, page[t]) /\ r.at \notin Making
  BY <1>2 DEF RequestFits, PageFits, Matches, Making
<1> QED BY <1>1, <1>3, RequestMovesOn DEF ComesBack

LEMMA CallbackSafe == ASSUME BrowserInv, NEW t \in Tabs, Callback(t) PROVE BrowserInv'
<1> DEFINE r == request[t]
<1>1. /\ r.at = "callback" /\ request' = [request EXCEPT ![t] = NoRequest]
      /\ UNCHANGED <<band, joined, clicks>> /\ RequestFits(r, page[t])
  BY TabFits DEF Callback, Ends, rows
<1>2. CASE ~Matches(r)
  <2>1. page' = [page EXCEPT ![t] = [at |-> "gate"]] /\ cookie' = cookie
    BY <1>2 DEF Callback, Shows
  <2>2. PageFits([at |-> "gate"])'
    BY DEF PageFits
  <2> QED BY <1>1, <2>1, <2>2, NothingFits, TabFits, TabMovesOn
<1>3. CASE Matches(r)
  <2>0. PICK p : p = [at |-> "landed", asked |-> page[t].invite, invite |-> r.state.invite]
    OBVIOUS
  <2>1. PICK s : /\ s \in {cookie.session} \union (IF r.code = Nobody THEN {} ELSE {Session(r.code, 0)})
                 /\ cookie' = [session |-> s, state |-> Nobody]
    BY <1>3 DEF Callback
  <2>2. r.state.invite = page[t].invite /\ r.code \in Operators \union {Nobody}
    BY <1>1, <1>3 DEF RequestFits
  <2>3. s \in Sessions
    BY <2>1, <2>2, TabFits DEF Session, Sessions, SessionRows
  <2>4. page' = [page EXCEPT ![t] = p]
    BY <1>3, <2>0 DEF Callback, Shows
  <2>5. p.at = "landed" /\ p.asked = p.invite
    BY <2>0, <2>2
  <2>6. PageFits(p)'
    BY <2>5 DEF PageFits
  <2> QED BY <1>1, <2>1, <2>3, <2>4, <2>6, NothingFits, TabMovesOn
<1> QED BY <1>2, <1>3

LEMMA SignOutSafe == ASSUME BrowserInv, NEW t \in Tabs, SignOut(t) PROVE BrowserInv'
<1> DEFINE r == [at |-> "logout", session |-> cookie.session]
<1>1. request' = [request EXCEPT ![t] = r] /\ RequestFits(r, page[t]) /\ r.at \notin Making
  BY DEF SignOut, Sends, RequestFits, Making
<1> QED BY <1>1, RequestMovesOn DEF SignOut

LEMMA SignedOutSafe == ASSUME BrowserInv, NEW t \in Tabs, SignedOut(t) PROVE BrowserInv'
<1>1. request' = [request EXCEPT ![t] = NoRequest] /\ UNCHANGED <<rows, clicks>>
  BY DEF SignedOut, Ends
<1>2. CASE request[t].session = Nobody
  BY <1>1, <1>2, NothingFits, RequestMovesOn DEF SignedOut
<1>3. CASE request[t].session # Nobody
  <2>1. page' = [page EXCEPT ![t] = [at |-> "gate"]] /\ cookie' = [session |-> Nobody, state |-> cookie.state]
    BY <1>3, TabFits DEF SignedOut, Shows
  <2>2. PageFits([at |-> "gate"])' /\ Nobody \in Sessions
    BY DEF PageFits, Sessions
  <2> QED BY <1>1, <2>1, <2>2, NothingFits, TabMovesOn DEF rows
<1> QED BY <1>2, <1>3

LEMMA SwitchSafe == ASSUME BrowserInv, NEW t \in Tabs, NEW b \in DOMAIN band, Switch(t, b) PROVE BrowserInv'
<1> DEFINE r == [at |-> "switch", session |-> cookie.session, band |-> b]
<1>1. b \in Nat
  BY DEF BrowserInv, BandsTyped
<1>2. request' = [request EXCEPT ![t] = r] /\ r.at \notin Making
  BY DEF Switch, Sends, Making
<1>3. RequestFits(r, page[t])
  BY <1>1, TabFits DEF RequestFits
<1> QED BY <1>2, <1>3, RequestMovesOn DEF Switch

LEMMA SwitchedSafe == ASSUME BrowserInv, NEW t \in Tabs, Switched(t) PROVE BrowserInv'
<1> DEFINE r == request[t]
<1>1. /\ request' = [request EXCEPT ![t] = NoRequest] /\ UNCHANGED <<rows, page, clicks>>
      /\ r.session \in Sessions /\ r.band \in Nat
  BY TabFits DEF Switched, Ends, RequestFits
<1>2. CASE cookie' = cookie
  BY <1>1, <1>2, NothingFits, RequestMovesOn
<1>3. CASE r.session # Nobody /\ cookie' = [cookie EXCEPT !.session = Session(r.session.operator, r.band)]
  <2>1. /\ Session(r.session.operator, r.band) \in Sessions
        /\ cookie' = [session |-> Session(r.session.operator, r.band), state |-> cookie.state]
    BY <1>1, <1>3, TabFits DEF Session, Sessions, SessionRows
  <2>2. PICK p : p = page[t]
    OBVIOUS
  <2>3. page' = [page EXCEPT ![t] = p] /\ PageFits(p)'
    BY <1>1, <2>1, <2>2, TabFits DEF PageFits, ShownFits
  <2> QED BY <1>1, <2>1, <2>3, NothingFits, TabMovesOn DEF rows
<1> QED BY <1>2, <1>3 DEF Switched

LEMMA ActSafe == ASSUME BrowserInv, NEW t \in Tabs, Act(t) PROVE BrowserInv'
<1>1. PICK scoped \in Scoping :
        request' = [request EXCEPT ![t] =
          [at |-> "act", session |-> cookie.session, header |-> IF scoped THEN page[t].band ELSE 0, shown |-> page[t]]]
  BY DEF Act, Sends
<1> DEFINE r == [at |-> "act", session |-> cookie.session, header |-> IF scoped THEN page[t].band ELSE 0, shown |-> page[t]]
<1>2. r.at = "act" /\ r.at \notin Making /\ r.shown = page[t] /\ r.header \in {0, page[t].band}
  BY DEF Making
<1>3. ShownFits(page[t])
  BY TabFits DEF Act, PageFits
<1> HIDE DEF r
<1>4. RequestFits(r, page[t])
  BY <1>2, <1>3 DEF RequestFits
<1>5. request' = [request EXCEPT ![t] = r]
  BY <1>1 DEF r
<1> QED BY <1>2, <1>4, <1>5, RequestMovesOn DEF Act

\* A request acts in the band of its page if it names it, or nothing changed since.
LEMMA ResolveSafe == ASSUME BrowserInv, NEW t \in Tabs, Resolve(t) PROVE BrowserInv'
<1> DEFINE r == request[t]
           o == r.session.operator
           fresh == r.session = r.shown.session /\ joined[o] = r.shown.rows
           new == [at |-> "write", band |-> Resolved(r), header |-> r.header, shown |-> r.shown.band, fresh |-> fresh]
<1>1. r.at = "act" /\ ShownFits(r.shown) /\ r.header \in {0, r.shown.band}
  BY TabFits DEF Resolve, RequestFits
<1>2. CASE ~Admits(r)
  <2>1. request' = [request EXCEPT ![t] = NoRequest]
    BY <1>2 DEF Resolve, Ends
  <2> QED BY <2>1, NothingFits, RequestMovesOn DEF Resolve
<1>3. CASE Admits(r)
  <2>1. request' = [request EXCEPT ![t] = new]
    BY <1>3 DEF Resolve
  <2>2. ASSUME r.header # 0 PROVE Resolved(r) = r.shown.band
    BY <1>1, <2>2 DEF Resolved, Preferred
  <2>3. ASSUME r.header = 0, fresh PROVE Resolved(r) = r.shown.band
    <3>1. /\ \E i \in DOMAIN joined[o] : joined[o][i].band = Resolved(r)
          /\ Resolved(r) = IF r.session.current # 0 THEN r.session.current ELSE joined[o][1].band
      BY <1>3, <2>3 DEF Admits, HasRole, Resolved, Preferred
    <3>2. r.shown.band = IF \E i \in DOMAIN joined[o] : joined[o][i].band = r.session.current
                         THEN r.session.current ELSE joined[o][1].band
      BY <1>1, <2>3 DEF ShownFits
    <3>3. \A i \in DOMAIN joined[o] : joined[o][i].band # 0
      <4>1. joined[o] \in Seq(Memberships)
        BY <1>1, <2>3 DEF ShownFits
      <4>2. \A i \in DOMAIN joined[o] : joined[o][i] \in Memberships
        BY <4>1
      <4> QED BY <4>2 DEF Memberships
    <3> QED BY <3>1, <3>2, <3>3
  <2>4. /\ new.at = "write" /\ new.band = Resolved(r) /\ new.header = r.header /\ new.shown = r.shown.band
        /\ (new.fresh <=> fresh)
    OBVIOUS
  <2> HIDE DEF new
  <2>5. RequestFits(new, page[t]) /\ new.at \notin Making
    BY <2>2, <2>3, <2>4 DEF RequestFits, Making
  <2> QED BY <2>1, <2>5, RequestMovesOn DEF Resolve
<1> QED BY <1>2, <1>3

LEMMA WriteSafe == ASSUME BrowserInv, NEW t \in Tabs, Write(t) PROVE BrowserInv'
<1>1. request' = [request EXCEPT ![t] = NoRequest]
  BY DEF Write, Ends
<1> QED BY <1>1, NothingFits, RequestMovesOn DEF Write

-----------------------------------------------------------------------------
(* Bands are made                                                           *)

LEMMA AnswerSafe == ASSUME BrowserInv, NEW t \in Tabs, AnswerArrives(t) PROVE BrowserInv'
<1> DEFINE r == request[t]
<1>1. request' = [request EXCEPT ![t] = NoRequest] /\ UNCHANGED <<rows, page, clicks>>
  BY DEF AnswerArrives, Ends
<1>2. CASE cookie' = cookie
  BY <1>1, <1>2, NothingFits, RequestMovesOn
<1>3. CASE \E i \in DOMAIN band : r.at = "created" /\ cookie' = [cookie EXCEPT !.session = Session(r.operator, i)]
  <2>1. PICK i \in DOMAIN band : r.at = "created" /\ cookie' = [cookie EXCEPT !.session = Session(r.operator, i)]
    BY <1>3
  <2>2. r.operator \in Operators /\ i \in Nat
    BY <2>1, TabFits DEF RequestFits, BrowserInv, BandsTyped
  <2>3. Session(r.operator, i) \in Sessions /\ cookie' = [session |-> Session(r.operator, i), state |-> cookie.state]
    BY <2>1, <2>2, TabFits DEF Session, Sessions, SessionRows
  <2>4. PICK p : p = page[t]
    OBVIOUS
  <2>5. page' = [page EXCEPT ![t] = p] /\ PageFits(p)'
    BY <1>1, <2>3, <2>4, TabFits DEF PageFits, ShownFits
  <2> QED BY <1>1, <2>3, <2>5, NothingFits, TabMovesOn DEF rows
<1> QED BY <1>2, <1>3 DEF AnswerArrives

LEMMA LeavesSafe == ASSUME BrowserInv, NEW t \in Tabs, Leaves(t) PROVE BrowserInv'
<1>1. PICK r : r = [request[t] EXCEPT !.heard = FALSE]
  OBVIOUS
<1>2. CreateFits(request[t]) /\ request[t].at = "create"
  BY TabFits DEF Leaves, RequestFits
<1>3. CreateFits(r) /\ r.at = "create" /\ r.click = request[t].click
  BY <1>1, <1>2 DEF CreateFits, CreateFields
<1>4. ClickOf(r) = ClickOf(request[t]) /\ request[t].at \in Making
  BY <1>2, <1>3 DEF ClickOf, Making
<1>5. RequestFits(r, [at |-> "blank"])' /\ PageFits([at |-> "blank"])'
  BY <1>3 DEF RequestFits, PageFits, CreateFits, Unmade, Leaves, rows
<1>6. /\ request' = [request EXCEPT ![t] = r] /\ page' = [page EXCEPT ![t] = [at |-> "blank"]]
      /\ UNCHANGED <<band, joined, cookie, clicks>>
  BY <1>1 DEF Leaves, Shows, rows
<1> QED BY <1>4, <1>5, <1>6, TabFits, TabMovesOn

LEMMA SlugFree ==
  ASSUME NEW name \in Names, Slug(name) # Nobody, MaxSlugs \in Nat
  PROVE  Slug(name) \in Slugs /\ Slug(name) \notin Taken
<1> DEFINE Free == {k \in 0..MaxSlugs - 1 : <<name, k>> \notin Taken}
           Least(k) == <<name, k>> \notin Taken /\ \A j \in 0..k - 1 : <<name, j>> \in Taken
<1>1. Free # {} /\ Free \subseteq Nat
  <2>1. \E k \in 0..MaxSlugs - 1 : <<name, k>> \notin Taken
    BY Zenon DEF Slug
  <2>2. PICK k \in 0..MaxSlugs - 1 : <<name, k>> \notin Taken
    BY <2>1
  <2>3. k \in Free
    BY <2>2
  <2>4. Free \subseteq Nat
    OBVIOUS
  <2> HIDE DEF Free
  <2> QED BY <2>3, <2>4
<1>2. \E k \in Free : \A j \in Free : <<j, k>> \notin OpToRel(<, Nat)
  BY <1>1, NatLessThanWellFounded, WFMin, Zenon
<1>3. PICK k \in Free : \A j \in Free : <<j, k>> \notin OpToRel(<, Nat)
  BY <1>2
<1>4. \A j \in Free : ~(j < k)
  BY <1>1, <1>3 DEF OpToRel
<1>5. k \in 0..MaxSlugs - 1 /\ Least(k)
  BY <1>4
<1>6. PICK m \in 0..MaxSlugs - 1 : Least(m) /\ m = CHOOSE n \in 0..MaxSlugs - 1 : Least(n)
  BY <1>5
<1>7. Slug(name) = <<name, m>>
  BY <1>1, <1>6 DEF Slug
<1>8. m \in Nat
  BY <1>6
<1>9. <<name, m>> \notin Taken
  BY <1>6
<1> HIDE DEF Free, Least
<1> QED BY <1>7, <1>8, <1>9 DEF Slugs

LEMMA ReadSafe ==
  ASSUME WorkspaceConstants, BrowserInv, NEW t \in Tabs, ReadToCreate(t)
  PROVE  BrowserInv'
<1> DEFINE r == request[t]
           o == r.session.operator
<1>1. CASE ~MayCreate(r) \/ Slug(r.name) = Nobody
  <2>1. request' = [request EXCEPT ![t] = NoRequest]
    BY <1>1 DEF ReadToCreate, Ends
  <2> QED BY <2>1, NothingFits, RequestMovesOn DEF ReadToCreate
<1>2. CASE MayCreate(r) /\ Slug(r.name) # Nobody
  <2>1. CreateFits(r) /\ r.at = "create"
    BY TabFits DEF ReadToCreate, RequestFits
  <2>2. PICK again : again = [r EXCEPT !.tries = r.tries + 1]
    OBVIOUS
  <2>3. CreateFits(again) /\ again.click = r.click /\ again.source = r.source
    BY <2>1, <2>2 DEF CreateFits, CreateFields
  <2>4. PICK new : new = [at |-> "commit", operator |-> o, slug |-> Slug(r.name), saw |-> Len(band), again |-> again]
    OBVIOUS
  <2>5. o \in Operators /\ Len(band) \in Nat /\ DOMAIN band = 1..Len(band)
    BY <1>2, <2>1 DEF MayCreate, CreateFits, Sessions, SessionRows, BrowserInv, BandsTyped
  <2>6. Slug(r.name) \in Slugs /\ \A i \in DOMAIN band : band[i].slug # Slug(r.name)
    BY <1>2, <2>1, SlugFree DEF CreateFits, Taken, WorkspaceConstants
  <2>7. ASSUME NEW i \in DOMAIN band, again.source = 0 PROVE ~(band[i].first /\ band[i].maker = o)
    <3>1. joined[o] = <<>>
      BY <1>2, <2>3, <2>7 DEF MayCreate
    <3>2. CASE i = 1
      BY <3>2 DEF BrowserInv
    <3>3. CASE i # 1
      BY <3>1, <3>3 DEF BrowserInv, OwnsMade, HasRole
    <3> QED BY <3>2, <3>3
  <2>8. CommitFits(new)
    BY <2>3, <2>4, <2>5, <2>6, <2>7 DEF CommitFits
  <2>9. RequestFits(new, page[t]) /\ request' = [request EXCEPT ![t] = new]
    BY <1>2, <2>2, <2>4, <2>8 DEF RequestFits, ReadToCreate
  <2>10. new.at \in Making => r.at \in Making /\ ClickOf(new) = ClickOf(r)
    BY <2>1, <2>3, <2>4 DEF Making, ClickOf
  <2> QED BY <2>9, <2>10, RequestMovesOn DEF ReadToCreate
<1> QED BY <1>1, <1>2

\* What a tab is told of its click.
Told(t, at) ==
  [at |-> at, operator |-> request[t].operator, click |-> request[t].again.click, heard |-> request[t].again.heard]

LEMMA AbortSafe == ASSUME BrowserInv, NEW t \in Tabs, Abort(t) PROVE BrowserInv'
<1> DEFINE r == request[t]
<1>1. r.at = "commit" /\ CreateFits(r.again) /\ r.at \in Making
  BY TabFits DEF Abort, RequestFits, CommitFits, Making
<1>2. ASSUME NEW new, request' = [request EXCEPT ![t] = new], RequestFits(new, page[t]), ClickOf(new) = r.again.click
      PROVE  BrowserInv'
  BY <1>1, <1>2, RequestMovesOn DEF Abort, ClickOf
<1>3. CASE request' = [request EXCEPT ![t] = r.again]
  <2>1. RequestFits(r.again, page[t]) /\ ClickOf(r.again) = r.again.click
    BY <1>1 DEF RequestFits, CreateFits, ClickOf
  <2> QED BY <1>2, <1>3, <2>1
<1>4. CASE request' = [request EXCEPT ![t] = Told(t, "conflict")]
  <2>1. Told(t, "conflict").at = "conflict" /\ Told(t, "conflict").click = r.again.click
    BY DEF Told
  <2>2. RequestFits(Told(t, "conflict"), page[t]) /\ ClickOf(Told(t, "conflict")) = r.again.click
    BY <1>1, <2>1 DEF RequestFits, CreateFits, ClickOf
  <2> QED BY <1>2, <1>4, <2>2
<1> QED BY <1>3, <1>4 DEF Abort, Tell, Told

\* Whoever has clicked has a click of the past.
LEMMA ClickPast ==
  ASSUME BrowserInv, NEW u \in Tabs, request[u].at \in Making
  PROVE  ClickOf(request[u]) \in 1..clicks /\ Unmade(ClickOf(request[u]))
<1>1. RequestFits(request[u], page[u])
  BY TabFits
<1>2. CASE request[u].at = "create"
  BY <1>1, <1>2 DEF RequestFits, CreateFits, ClickOf
<1>3. CASE request[u].at = "commit"
  BY <1>1, <1>3 DEF RequestFits, CommitFits, CreateFits, ClickOf
<1>4. CASE request[u].at = "conflict"
  BY <1>1, <1>4 DEF RequestFits, ClickOf
<1> QED BY <1>2, <1>3, <1>4 DEF Making

\* A click more: what fitted fits, and nothing has that click.
LEMMA RequestsOutlive ==
  ASSUME BrowserInv, UNCHANGED band, clicks' = clicks + 1, NEW p, NEW r, RequestFits(r, p)
  PROVE  RequestFits(r, p)'
<1>1. clicks \in Nat
  BY DEF BrowserInv, BandsTyped
<1>2. 1..clicks \subseteq 1..clicks'
  BY <1>1
<1>3. \A c : Unmade(c) <=> Unmade(c)'
  BY DEF Unmade
<1>4. \A c : CreateFits(c) => CreateFits(c)'
  BY <1>2, <1>3 DEF CreateFits
<1>5. CommitFits(r) => CommitFits(r)'
  BY <1>4 DEF CommitFits
<1> QED BY <1>2, <1>3, <1>4, <1>5 DEF RequestFits, ShownFits, Matches

LEMMA BeginsSafe ==
  ASSUME BrowserInv, NEW t \in Tabs, NEW invite, StartGoogle(t, invite)
  PROVE  BrowserInv'
<1> DEFINE n == clicks + 1
<1>1. /\ request[t] = NoRequest /\ clicks' = n /\ UNCHANGED <<band, joined, request>>
      /\ cookie' = [session |-> cookie.session, state |-> [nonce |-> n, invite |-> invite]]
      /\ page' = [page EXCEPT ![t] = [at |-> "google", nonce |-> n, invite |-> invite]]
  BY TabFits DEF StartGoogle, Clicks, Shows, rows
<1>2. clicks \in Nat /\ n \in Nat /\ \A k \in 0..clicks : k # n /\ k \in 0..n
  BY DEF BrowserInv, BandsTyped
<1>3. cookie'.session = cookie.session /\ cookie'.state = [nonce |-> n, invite |-> invite]
  BY <1>1
<1>4. PICK p : p = [at |-> "google", nonce |-> n, invite |-> invite]
  OBVIOUS
<1>5. /\ page' = [u \in Tabs |-> page'[u]] /\ page'[t] = p
      /\ \A u \in Tabs \ {t} : page'[u] = page[u]
  BY <1>1, <1>4, TabFits
<1> HIDE DEF n
<1>6. BandsTyped'
  BY <1>1, <1>2, <1>3, <1>5 DEF BrowserInv, BandsTyped
<1>7. OwnsMade' /\ RowsApart' /\ ClicksApart'
  BY <1>1 DEF BrowserInv, OwnsMade, RowsApart, ClicksApart, HasRole
<1>8. ~band'[1].first /\ \A i \in DOMAIN band' : band'[i].click \in 0..clicks'
  BY <1>1, <1>2 DEF BrowserInv
<1>9. ASSUME NEW u \in Tabs PROVE PageFits(page[u])' /\ RequestFits(request[u], page[u])'
  <2>1. CASE u = t
    <3>1. p.at = "google" /\ p.nonce = n /\ p.invite = invite /\ n \in 1..n
      BY <1>2, <1>4
    <3>2. PageFits(page[u])'
      BY <1>1, <1>3, <1>5, <2>1, <3>1 DEF PageFits
    <3>3. RequestFits(request[u], page[u])'
      BY <1>1, <2>1 DEF RequestFits, NoRequest
    <3> QED BY <3>2, <3>3
  <2>2. CASE u # t
    <3>1. PICK q : q = page[u]
      OBVIOUS
    <3>2. PICK r : r = request[u]
      OBVIOUS
    <3>3. PageFits(q) /\ RequestFits(r, q)
      BY <3>1, <3>2, TabFits
    <3>4. RequestFits(r, q)'
      BY <1>1, <3>3, RequestsOutlive DEF n
    <3>5. q.at = "google" => q.nonce \in 1..clicks' /\ q.nonce # n
      BY <1>1, <1>2, <3>3 DEF PageFits
    <3>6. PageFits(q)'
      BY <1>3, <3>3, <3>5 DEF PageFits, ShownFits
    <3>7. page'[u] = q /\ request'[u] = r
      BY <1>1, <1>5, <2>2, <3>1, <3>2
    <3> QED BY <3>4, <3>6, <3>7
  <2> QED BY <2>1, <2>2
<1> QED BY <1>6, <1>7, <1>8, <1>9 DEF BrowserInv

LEMMA CreateSafe ==
  ASSUME BrowserInv, NEW t \in Tabs, NEW name \in Names, Create(t, name)
  PROVE  BrowserInv'
<1>0. PICK n : n = clicks + 1
  OBVIOUS
<1>1. PICK r : r = [at |-> "create", session |-> cookie.session, name |-> name, click |-> n, tries |-> 0,
                    heard |-> TRUE, source |-> IF page[t].at = "shown" THEN page[t].band ELSE 0]
  OBVIOUS
<1>2. /\ clicks' = n /\ UNCHANGED <<band, joined, cookie, page>>
      /\ request' = [request EXCEPT ![t] = r]
  BY <1>0, <1>1 DEF Create, Clicks, Sends, rows
<1>3. clicks \in Nat /\ n \in 1..n /\ \A k \in 0..clicks : k # n /\ k \in 0..n
  BY <1>0 DEF BrowserInv, BandsTyped
<1>4. DOMAIN r = CreateFields /\ r.at = "create" /\ r.session = cookie.session /\ r.name = name /\ r.click = n
  BY <1>1 DEF CreateFields
<1>5. /\ request' = [u \in Tabs |-> request'[u]] /\ request'[t] = r
      /\ \A u \in Tabs \ {t} : request'[u] = request[u]
  BY <1>2, TabFits
<1>6. BandsTyped'
  BY <1>2, <1>3, <1>5 DEF BrowserInv, BandsTyped
<1>7. OwnsMade' /\ RowsApart'
  BY <1>2 DEF BrowserInv, OwnsMade, RowsApart, HasRole
<1>8. ~band'[1].first /\ \A i \in DOMAIN band' : band'[i].click \in 0..clicks'
  BY <1>2, <1>3 DEF BrowserInv
<1>9. ClicksApart'
  <2>1. \A u \in Tabs \ {t} : request[u].at \in Making => ClickOf(request[u]) # n
    BY <1>3, ClickPast
  <2>2. ClickOf(r) = n
    BY <1>4 DEF ClickOf
  <2> QED BY <1>5, <2>1, <2>2 DEF BrowserInv, ClicksApart, ClickOf
<1>10. ASSUME NEW u \in Tabs PROVE PageFits(page[u])' /\ RequestFits(request[u], page[u])'
  <2>1. PageFits(page[u])'
    BY <1>2, <1>3, TabFits DEF PageFits, ShownFits
  <2>2. CASE u = t
    <3>1. Unmade(n)'
      BY <1>2, <1>3 DEF BrowserInv, Unmade
    <3>2. CreateFits(r)'
      BY <1>2, <1>3, <1>4, <3>1, TabFits DEF CreateFits
    <3>3. RequestFits(request[u], page[u])'
      BY <1>4, <1>5, <2>2, <3>2 DEF RequestFits
    <3> QED BY <2>1, <3>3
  <2>3. CASE u # t
    <3>1. PICK q : q = page[u]
      OBVIOUS
    <3>2. PICK s : s = request[u]
      OBVIOUS
    <3>3. RequestFits(s, q)'
      BY <1>2, <3>1, <3>2, TabFits, RequestsOutlive, <1>0
    <3>4. page'[u] = q /\ request'[u] = s
      BY <1>2, <1>5, <2>3, <3>1, <3>2
    <3> QED BY <2>1, <3>3, <3>4
  <2> QED BY <2>2, <2>3
<1> QED BY <1>6, <1>7, <1>8, <1>9, <1>10 DEF BrowserInv

\* A transaction commits: of its slug, its click and its operator's first bands there
\* is none other, whatever was committed since it read.
LEMMA BandSafe ==
  ASSUME BrowserInv, NEW t \in Tabs, request[t].at = "commit", Commits(request[t]),
         NEW at \in {"created", "error"}, request' = [request EXCEPT ![t] = Told(t, at)],
         UNCHANGED <<cookie, page, clicks>>
  PROVE  BrowserInv'
<1>1. PICK r : r = request[t]
  OBVIOUS
<1>2. PICK o : o = r.operator
  OBVIOUS
<1>3. PICK n : n = Len(band) + 1
  OBVIOUS
<1>4. PICK click : click = r.again.click
  OBVIOUS
<1>5. PICK made : made = [slug |-> r.slug, maker |-> o, first |-> r.again.source = 0, click |-> click]
  OBVIOUS
<1>6. RequestFits(r, page[t]) /\ CommitFits(r) /\ CreateFits(r.again)
  BY <1>1, TabFits DEF RequestFits, CommitFits
<1>7. /\ band \in Seq(BandRows) /\ Len(band) \in Nat /\ DOMAIN band = 1..Len(band) /\ Len(band) >= 1
      /\ clicks \in Nat /\ joined \in [Operators -> Seq(Memberships)]
  BY DEF BrowserInv, BandsTyped
<1>8. o \in Operators /\ r.slug \in Slugs /\ click \in 1..clicks /\ Unmade(click)
  BY <1>2, <1>4, <1>6 DEF CommitFits, CreateFits
<1>9. made \in BandRows /\ made.slug = r.slug /\ made.maker = o /\ (made.first <=> r.again.source = 0) /\ made.click = click
  <2>1. PICK first \in BOOLEAN : first = (r.again.source = 0)
    BY Zenon
  <2>2. click \in Nat
    BY <1>7, <1>8
  <2>3. made = [slug |-> r.slug, maker |-> o, first |-> first, click |-> click]
    BY <1>5, <2>1
  <2> QED BY <1>8, <2>1, <2>2, <2>3 DEF BandRows
<1>10. band' = Append(band, made) /\ joined' = [joined EXCEPT ![o] = Append(joined[o], [band |-> n, role |-> "owner"])]
  BY <1>1, <1>2, <1>3, <1>4, <1>5 DEF Commits
<1>11. /\ n \in Nat \ {0, 1} /\ DOMAIN band' = 1..n /\ band' \in Seq(BandRows) /\ band' # <<>> /\ Len(band') = n
       /\ band'[n] = made /\ \A i \in 1..Len(band) : i # n /\ band'[i] = band[i]
  BY <1>3, <1>7, <1>9, <1>10
<1>12. DOMAIN band' = DOMAIN band \union {n}
  BY <1>3, <1>7, <1>11
<1>13. /\ joined' \in [Operators -> Seq(Memberships)]
       /\ HasRole(o, n, {"owner"})'
       /\ \A b : \A e \in Operators : HasRole(e, b, {"owner"}) => HasRole(e, b, {"owner"})'
  <2>1. PICK m : m = [band |-> n, role |-> "owner"]
    OBVIOUS
  <2>2. m \in Memberships /\ m.band = n /\ m.role = "owner"
    BY <1>11, <2>1 DEF Memberships
  <2>3. joined[o] \in Seq(Memberships) /\ joined' = [joined EXCEPT ![o] = Append(joined[o], m)]
    BY <1>7, <1>8, <1>10, <2>1
  <2>4. PICK s : s = Append(joined[o], m)
    OBVIOUS
  <2>5. s \in Seq(Memberships) /\ Len(joined[o]) + 1 \in DOMAIN s /\ s[Len(joined[o]) + 1] = m
        /\ \A i \in DOMAIN joined[o] : i \in DOMAIN s /\ s[i] = joined[o][i]
    BY <2>2, <2>3, <2>4
  <2>6. joined'[o] = s /\ joined' = [joined EXCEPT ![o] = s]
    BY <1>7, <1>8, <2>3, <2>4
  <2>7. joined' \in [Operators -> Seq(Memberships)]
    BY <1>7, <2>5, <2>6
  <2>8. HasRole(o, n, {"owner"})'
    BY <2>2, <2>5, <2>6 DEF HasRole
  <2>9. ASSUME NEW b, NEW e \in Operators, HasRole(e, b, {"owner"}) PROVE HasRole(e, b, {"owner"})'
    <3>1. CASE e = o
      BY <2>5, <2>6, <2>9, <3>1 DEF HasRole
    <3>2. CASE e # o
      BY <1>7, <2>6, <2>9, <3>2 DEF HasRole
    <3> QED BY <3>1, <3>2
  <2> QED BY <2>7, <2>8, <2>9
<1>14. PICK new : new = Told(t, at)
  OBVIOUS
<1>15. new.at = at /\ new.operator = o /\ new.click = click
  BY <1>1, <1>2, <1>4, <1>14 DEF Told
<1>16. /\ request' = [u \in Tabs |-> request'[u]] /\ request'[t] = new
       /\ \A u \in Tabs \ {t} : request'[u] = request[u]
  BY <1>14, TabFits
<1>17. BandsTyped'
  BY <1>7, <1>11, <1>13, <1>16 DEF BrowserInv, BandsTyped
<1>18. OwnsMade'
  <2>1. ASSUME NEW i \in DOMAIN band' \ {1}
        PROVE  \E e \in Operators : e = band'[i].maker /\ HasRole(e, i, {"owner"})'
    <3>1. CASE i = n
      BY <1>8, <1>9, <1>11, <1>13, <3>1
    <3>2. CASE i \in DOMAIN band
      <4>1. band'[i] = band[i] /\ i \in DOMAIN band \ {1}
        BY <1>7, <1>11, <3>2
      <4>2. PICK e \in Operators : e = band[i].maker /\ HasRole(e, i, {"owner"})
        BY <4>1 DEF BrowserInv, OwnsMade
      <4> QED BY <1>13, <4>1, <4>2
    <3> QED BY <1>12, <3>1, <3>2
  <2> QED BY <2>1 DEF OwnsMade, HasRole
<1>19. RowsApart'
  <2>1. ASSUME NEW j \in DOMAIN band
        PROVE  band[j].slug # made.slug /\ band[j].click # made.click /\ ~(band[j].first /\ made.first /\ band[j].maker = made.maker)
    <3>1. r.saw \in 0..Len(band) /\ (j \in 1..r.saw \/ j \in Since(r))
      BY <1>6, <1>7 DEF CommitFits, Since
    <3>2. CASE j \in 1..r.saw
      BY <1>6, <1>8, <1>9, <1>2, <3>2 DEF CommitFits, Unmade
    <3>3. CASE j \in Since(r)
      BY <1>1, <1>2, <1>8, <1>9, <3>3 DEF Commits, SlugTaken, Skewed, Unmade
    <3> QED BY <3>1, <3>2, <3>3
  <2> SUFFICES ASSUME NEW i \in DOMAIN band', NEW j \in DOMAIN band', i # j
               PROVE  /\ band'[i].slug # band'[j].slug /\ band'[i].click # band'[j].click
                      /\ ~(band'[i].first /\ band'[j].first /\ band'[i].maker = band'[j].maker)
    BY DEF RowsApart
  <2>2. CASE i = n
    BY <1>7, <1>11, <1>12, <2>1, <2>2
  <2>3. CASE j = n
    BY <1>7, <1>11, <1>12, <2>1, <2>3
  <2>4. CASE i \in DOMAIN band /\ j \in DOMAIN band
    BY <1>7, <1>11, <2>4 DEF BrowserInv, RowsApart
  <2> QED BY <1>12, <2>2, <2>3, <2>4
<1>20. ClicksApart'
  BY <1>15, <1>16 DEF BrowserInv, ClicksApart, ClickOf, Making
<1>21. ~band'[1].first /\ \A i \in DOMAIN band' : band'[i].click \in 0..clicks'
  <2>1. \A i \in DOMAIN band : band'[i].click \in 0..clicks'
    BY <1>7, <1>11 DEF BrowserInv
  <2>2. band'[n].click \in 0..clicks'
    BY <1>7, <1>8, <1>9, <1>11
  <2>3. ~band'[1].first
    BY <1>7, <1>11 DEF BrowserInv
  <2> QED BY <1>12, <2>1, <2>2, <2>3
<1>22. ASSUME NEW u \in Tabs PROVE PageFits(page[u])' /\ RequestFits(request[u], page[u])'
  <2>1. PageFits(page[u])'
    BY TabFits DEF PageFits, ShownFits
  <2>2. CASE u = t
    <3>1. n \in DOMAIN band' \ {1} /\ band'[n].click = new.click /\ band'[n].maker = new.operator
      BY <1>9, <1>11, <1>15
    <3>2. RequestFits(request[u], page[u])'
      BY <1>8, <1>15, <1>16, <2>2, <3>1 DEF RequestFits
    <3> QED BY <2>1, <3>2
  <2>3. CASE u # t
    <3>1. PICK q : q = request[u]
      OBVIOUS
    <3>2. RequestFits(q, page[u]) /\ request'[u] = q
      BY <1>16, <2>3, <3>1, TabFits
    <3>3. q.at \in Making => ClickOf(q) # click
      BY <1>1, <1>4, <2>3, <3>1 DEF BrowserInv, ClicksApart, ClickOf, Making
    <3>4. ASSUME NEW c, Unmade(c), c # click PROVE Unmade(c)'
      BY <1>7, <1>9, <1>11, <1>12, <3>4 DEF Unmade
    <3>5. q.at = "create" => CreateFits(q)'
      BY <3>2, <3>3, <3>4 DEF RequestFits, CreateFits, Making, ClickOf
    <3>6. q.at = "conflict" => q.click \in 1..clicks' /\ Unmade(q.click)'
      BY <3>2, <3>3, <3>4 DEF RequestFits, Making, ClickOf
    <3>7. q.at = "commit" => CommitFits(q)'
      <4> SUFFICES ASSUME q.at = "commit" PROVE CommitFits(q)'
        OBVIOUS
      <4>1. CommitFits(q) /\ q.again.click # click
        BY <3>2, <3>3 DEF RequestFits, Making, ClickOf
      <4>2. CreateFits(q.again)'
        BY <3>4, <4>1 DEF CommitFits, CreateFits
      <4>3. q.saw \in 0..Len(band') /\ 1..q.saw \subseteq 1..Len(band)
        BY <1>3, <1>7, <1>11, <4>1 DEF CommitFits
      <4>4. \A i \in 1..q.saw : band'[i] = band[i]
        BY <1>11, <4>3
      <4> QED BY <4>1, <4>2, <4>3, <4>4 DEF CommitFits
    <3>8. q.at = "created" => \E i \in DOMAIN band' \ {1} : band'[i].click = q.click /\ band'[i].maker = q.operator
      BY <1>7, <1>11, <1>12, <3>2 DEF RequestFits
    <3>9. RequestFits(request[u], page[u])'
      BY <3>2, <3>5, <3>6, <3>7, <3>8 DEF RequestFits, ShownFits, Matches
    <3> QED BY <2>1, <3>9
  <2> QED BY <2>2, <2>3
<1> QED BY <1>17, <1>18, <1>19, <1>20, <1>21, <1>22 DEF BrowserInv

LEMMA CommitSafe == ASSUME BrowserInv, NEW t \in Tabs, Commit(t) PROVE BrowserInv'
BY BandSafe DEF Commit, Tell, Told

LEMMA LosesSafe == ASSUME BrowserInv, NEW t \in Tabs, LosesCommit(t) PROVE BrowserInv'
<1>1. /\ request[t].at = "commit" /\ request' = [request EXCEPT ![t] = Told(t, "error")]
      /\ UNCHANGED <<cookie, page, clicks>>
  BY DEF LosesCommit, Tell, Told
<1>2. CASE Commits(request[t])
  BY <1>1, <1>2, BandSafe
<1>3. CASE UNCHANGED rows
  <2>1. Told(t, "error").at = "error" /\ Told(t, "error").at \notin Making
    BY DEF Told, Making
  <2>2. RequestFits(Told(t, "error"), page[t])
    BY <2>1 DEF RequestFits
  <2> QED BY <1>1, <1>3, <2>1, <2>2, RequestMovesOn
<1> QED BY <1>2, <1>3 DEF LosesCommit

\* The others' band lets somebody in or out: that takes nobody off another band.
LEMMA TeamChanged ==
  ASSUME BrowserInv, NEW o \in Operators, ChangeTeam(o)
  PROVE  /\ joined' \in [Operators -> Seq(Memberships)]
         /\ \A b : b # 1 => \A e \in Operators : HasRole(e, b, {"owner"}) => HasRole(e, b, {"owner"})'
<1>1. PICK mine : mine = joined[o]
  OBVIOUS
<1>2. joined \in [Operators -> Seq(Memberships)] /\ mine \in Seq(Memberships) /\ Len(mine) \in Nat
      /\ DOMAIN mine = 1..Len(mine) /\ \A i \in DOMAIN mine : mine[i] \in Memberships
  BY <1>1 DEF BrowserInv, BandsTyped
<1>3. ASSUME NEW now \in Seq(Memberships), joined' = [joined EXCEPT ![o] = now],
             \A i \in DOMAIN mine : mine[i].band # 1 => \E j \in DOMAIN now : now[j] = mine[i]
      PROVE  /\ joined' \in [Operators -> Seq(Memberships)]
             /\ \A b : b # 1 => \A e \in Operators : HasRole(e, b, {"owner"}) => HasRole(e, b, {"owner"})'
  <2>1. joined' \in [Operators -> Seq(Memberships)] /\ joined'[o] = now /\ \A e \in Operators \ {o} : joined'[e] = joined[e]
    BY <1>2, <1>3
  <2>2. ASSUME NEW b, b # 1, NEW e \in Operators, HasRole(e, b, {"owner"}) PROVE HasRole(e, b, {"owner"})'
    <3>1. CASE e = o
      BY <1>1, <1>3, <2>1, <2>2, <3>1 DEF HasRole
    <3>2. CASE e # o
      BY <2>1, <2>2, <3>2 DEF HasRole
    <3> QED BY <3>1, <3>2
  <2> QED BY <2>1, <2>2
<1>4. CASE \E role \in {"owner", "viewer"} :
             joined' = [joined EXCEPT ![o] =
               IF 1 \in Bands(o) THEN [i \in DOMAIN mine |-> IF mine[i].band = 1 THEN [band |-> 1, role |-> role] ELSE mine[i]]
               ELSE Append(mine, [band |-> 1, role |-> role])]
  <2>1. PICK role \in {"owner", "viewer"} :
          joined' = [joined EXCEPT ![o] =
            IF 1 \in Bands(o) THEN [i \in DOMAIN mine |-> IF mine[i].band = 1 THEN [band |-> 1, role |-> role] ELSE mine[i]]
            ELSE Append(mine, [band |-> 1, role |-> role])]
    BY <1>4
  <2>2. PICK m : m = [band |-> 1, role |-> role]
    OBVIOUS
  <2>3. m \in Memberships
    BY <2>2 DEF Memberships
  <2>4. CASE 1 \in Bands(o)
    <3>1. PICK now : now = [i \in DOMAIN mine |-> IF mine[i].band = 1 THEN m ELSE mine[i]]
      OBVIOUS
    <3>2. now \in [1..Len(mine) -> Memberships]
      BY <1>2, <2>3, <3>1
    <3>3. now \in Seq(Memberships)
      BY <1>2, <3>2
    <3>4. \A i \in DOMAIN mine : mine[i].band # 1 => i \in DOMAIN now /\ now[i] = mine[i]
      BY <1>2, <3>1
    <3>5. joined' = [joined EXCEPT ![o] = now]
      BY <2>1, <2>2, <2>4, <3>1
    <3> QED BY <1>3, <3>3, <3>4, <3>5
  <2>5. CASE 1 \notin Bands(o)
    <3>1. PICK now : now = Append(mine, m)
      OBVIOUS
    <3>2. now \in Seq(Memberships) /\ \A i \in DOMAIN mine : i \in DOMAIN now /\ now[i] = mine[i]
      BY <1>2, <2>3, <3>1
    <3>3. joined' = [joined EXCEPT ![o] = now]
      BY <2>1, <2>2, <2>5, <3>1
    <3> QED BY <1>3, <3>2, <3>3
  <2> QED BY <2>4, <2>5
<1>5. CASE \E i \in DOMAIN mine :
             /\ mine[i].band = 1
             /\ joined' = [joined EXCEPT ![o] = SubSeq(mine, 1, i - 1) \o SubSeq(mine, i + 1, Len(mine))]
  <2>1. PICK i \in DOMAIN mine :
             /\ mine[i].band = 1
             /\ joined' = [joined EXCEPT ![o] = SubSeq(mine, 1, i - 1) \o SubSeq(mine, i + 1, Len(mine))]
    BY <1>5
  <2>2. PICK front : front = SubSeq(mine, 1, i - 1)
    OBVIOUS
  <2>3. PICK back : back = SubSeq(mine, i + 1, Len(mine))
    OBVIOUS
  <2>4. PICK n \in Nat : n = Len(mine)
    BY <1>2
  <2>5. i \in 1..n
    BY <1>2, <2>4
  <2>6. /\ front \in Seq(Memberships) /\ Len(front) = i - 1
        /\ \A j \in 1..(i - 1) : front[j] = mine[j]
    BY <1>2, <2>2, <2>4, <2>5
  <2>7. /\ back \in Seq(Memberships) /\ Len(back) = n - i
        /\ \A j \in 1..(n - i) : back[j] = mine[i + j]
    BY <1>2, <2>3, <2>4, <2>5
  <2>8. PICK now : now = front \o back
    OBVIOUS
  <2>9. /\ now \in Seq(Memberships) /\ DOMAIN now = 1..(n - 1)
        /\ \A j \in 1..(i - 1) : now[j] = front[j]
        /\ \A j \in 1..(n - i) : now[i - 1 + j] = back[j]
    BY <2>5, <2>6, <2>7, <2>8
  <2>10. ASSUME NEW k \in 1..n, k # i PROVE \E j \in DOMAIN now : now[j] = mine[k]
    <3>1. CASE k < i
      BY <2>5, <2>6, <2>9, <3>1
    <3>2. CASE k > i
      <4>1. PICK j \in 1..(n - i) : j = k - i
        BY <2>5, <3>2
      <4>2. now[i - 1 + j] = mine[i + j] /\ i - 1 + j \in DOMAIN now /\ i + j = k
        BY <2>5, <2>7, <2>9, <4>1
      <4> QED BY <4>2
    <3> QED BY <2>5, <2>10, <3>1, <3>2
  <2>11. \A k \in DOMAIN mine : mine[k].band # 1 => \E j \in DOMAIN now : now[j] = mine[k]
    BY <1>2, <2>1, <2>4, <2>10
  <2>12. joined' = [joined EXCEPT ![o] = now]
    BY <2>1, <2>2, <2>3, <2>8
  <2> QED BY <1>3, <2>9, <2>11, <2>12
<1> QED BY <1>1, <1>4, <1>5 DEF ChangeTeam

LEMMA ChangeSafe == ASSUME BrowserInv, NEW o \in Operators, ChangeTeam(o) PROVE BrowserInv'
<1>1. UNCHANGED <<band, cookie, page, request, clicks>>
  BY DEF ChangeTeam
<1>2. OwnsMade'
  <2>1. ASSUME NEW i \in DOMAIN band \ {1}
        PROVE  \E e \in Operators : e = band[i].maker /\ HasRole(e, i, {"owner"})'
    <3>1. PICK e \in Operators : e = band[i].maker /\ HasRole(e, i, {"owner"})
      BY DEF BrowserInv, OwnsMade
    <3> QED BY <3>1, TeamChanged
  <2> QED BY <1>1, <2>1 DEF OwnsMade, HasRole
<1>3. BandsTyped'
  BY <1>1, TeamChanged DEF BrowserInv, BandsTyped
<1>4. RowsApart' /\ ClicksApart'
  BY <1>1 DEF BrowserInv, RowsApart, ClicksApart, ClickOf
<1>5. ASSUME NEW t \in Tabs PROVE PageFits(page[t])' /\ RequestFits(request[t], page[t])'
  BY <1>1, TabFits DEF PageFits, RequestFits, ShownFits, CreateFits, CommitFits, Unmade, Matches
<1> QED BY <1>1, <1>2, <1>3, <1>4, <1>5 DEF BrowserInv

LEMMA BrowserStep ==
  ASSUME WorkspaceConstants, BrowserInv, WorkspaceNext \/ UNCHANGED workspaceVars
  PROVE  BrowserInv'
<1>1. ASSUME NEW t \in Tabs,
             \/ Load(t) \/ ComesBack(t) \/ Callback(t) \/ SignOut(t) \/ SignedOut(t) \/ Switched(t)
             \/ Act(t) \/ Resolve(t) \/ Write(t)
      PROVE  BrowserInv'
  BY <1>1, LoadSafe, ComesBackSafe, CallbackSafe, SignOutSafe, SignedOutSafe, SwitchedSafe, ActSafe, ResolveSafe, WriteSafe
<1>2. ASSUME NEW t \in Tabs,
             ReadToCreate(t) \/ Commit(t) \/ Abort(t) \/ LosesCommit(t) \/ AnswerArrives(t) \/ Leaves(t)
      PROVE  BrowserInv'
  BY <1>2, ReadSafe, CommitSafe, AbortSafe, LosesSafe, AnswerSafe, LeavesSafe
<1>3. ASSUME NEW t \in Tabs,
             \/ \E invite \in Invites : StartGoogle(t, invite)
             \/ \E name \in Names : Create(t, name)
             \/ \E b \in DOMAIN band : Switch(t, b)
      PROVE  BrowserInv'
  BY <1>3, BeginsSafe, CreateSafe, SwitchSafe
<1>4. CASE UNCHANGED workspaceVars
  BY <1>4 DEF workspaceVars, BrowserInv, BandsTyped, OwnsMade, HasRole, RowsApart, ClicksApart, ClickOf, PageFits,
              RequestFits, ShownFits, CreateFits, CommitFits, Unmade, Matches
<1> QED BY <1>1, <1>2, <1>3, <1>4, ChangeSafe DEF WorkspaceNext

LEMMA BrowserAlways == ASSUME WorkspaceConstants PROVE WorkspaceSpec => []BrowserInv
<1>1. WorkspaceInit => BrowserInv
  BY BrowserStarts
<1>2. BrowserInv /\ [WorkspaceNext]_workspaceVars => BrowserInv'
  BY BrowserStep
<1> QED BY <1>1, <1>2, PTL DEF WorkspaceSpec

\* However sign-ins, switches and changes of the team interleave in the tabs of a
\* browser: a sign-in lands at the invitation its own tab began with (googleCallback),
\* and a request that names the band of its page, or was sent and resolved with the
\* session and the memberships of that page, acts in that band (resolveArtistId).
THEOREM ActsWhereShownAlways ==
  ASSUME WorkspaceConstants PROVE WorkspaceSpec => [](LandsAtInvite /\ ActsWhereShown)
<1>1. BrowserInv => LandsAtInvite /\ ActsWhereShown
  BY BrowserSafe
<1> QED BY <1>1, BrowserAlways, PTL

\* However often transactions abort, are run again or lose their commit: a click makes
\* one band at most, what its tab is told of it is so, nobody gets two first bands and
\* no two bands one slug (createWorkspace, createWithSerializationRetry).
THEOREM BandMadeOnceAlways ==
  ASSUME WorkspaceConstants PROVE WorkspaceSpec => []BandMadeOnce
<1>1. BrowserInv => BandMadeOnce
  BY BrowserSafe
<1> QED BY <1>1, BrowserAlways, PTL

=============================================================================
