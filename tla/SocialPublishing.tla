--------------------------- MODULE SocialPublishing ---------------------------
(***************************************************************************)
(* One social drop: a post with a target per platform, the approval it needs, *)
(* and the requests of owners who approve and send it.                       *)
(* SocialService (createDrop, approveAndPost), SocialExecutionService         *)
(* (executeApproved, presentPost), sendSocialTarget, and the part of          *)
(* ApprovalsService a social batch goes through (approve, reject, claim,      *)
(* finalisation, catch block).                                               *)
(*                                                                          *)
(* Each statement outside a transaction is a step; the transaction of         *)
(* approveAndPost is two, its reads and its writes, because at READ COMMITTED *)
(* others commit in between.  A request that throws or dies stops where it is. *)
(* Captions, titles, tags and media of a target are its content; `rejected'    *)
(* stands for expired too, and `failed' for a refused target too.             *)
(***************************************************************************)
EXTENDS Naturals, Sequences

CONSTANTS
  Targets,     \* the drop's platforms
  Requests,    \* concurrent requests of owners
  Edits,       \* edits an owner may submit with an approval
  Replies,     \* what adapters may come back with
  MaxAccounts  \* bound: [Targets -> how many accounts it is connected to in turn]

\* What a target says: nothing (disabled), or one of two captions.
Contents == {"off", "drafted", "edited"}

ASSUME SocialConstants ==
  /\ Targets # {}
  /\ MaxAccounts \in [Targets -> Nat \ {0}]
  /\ Replies \subseteq {"posted", "private_upload", "draft_only", "processing", "unknown", "failed"}
  /\ Edits \subseteq [Targets -> Contents \union {"keep"}]

VARIABLES
  post,      \* SocialPost.status
  linked,    \* SocialPost.approvalRequestId is set
  row,       \* [Targets -> SocialPostTarget with the outcome of its send log]
  account,   \* [Targets -> which account the platform is connected to]
  approval,  \* the ApprovalRequest: status, attempt, payload, recorded fingerprint
  req,       \* [Requests -> the handler's local state]
  sent,      \* history: [Targets -> what reached the platform, and where]
  reviewed   \* history: what the owner whose decision counted agreed to

vars == <<post, linked, row, account, approval, req, sent, reviewed>>
history == <<sent, reviewed>>

-----------------------------------------------------------------------------
(* Rows *)

\* simulated is left out: in mock mode every target is, and it is complete.
Complete == {"posted", "private_upload", "draft_only"}
Outcomes == Complete \union {"processing", "unknown", "failed"}
Attempted == Outcomes \union {"sending"}
Unresolved == {"pending_approval", "approved", "posting"}
PostStatuses == {"absent", "partial"} \union Unresolved \union Outcomes

Accounts == Nat \ {0}
Snapshots == [Targets -> [content : Contents, account : Accounts]]
NoEdit == [t \in Targets |-> "keep"]

PCs == {"idle", "approve", "write", "decided", "read", "claim", "check", "post", "targets",
        "send", "record", "stop", "finalize", "audit", "catch"}

\* What the fingerprint is a hash of: the content and destination of each target.
Current == [t \in Targets |-> [content |-> row[t].content, account |-> account[t]]]
Enabled(snapshot) == {t \in Targets : snapshot[t].content # "off"}
Edited(snapshot, edit) ==
  [t \in Targets |-> IF edit[t] = "keep" THEN snapshot[t]
                     ELSE [snapshot[t] EXCEPT !.content = edit[t]]]

Drafts == [t \in Targets |-> [content |-> "drafted", account |-> 1]]
Idle == [pc |-> "idle", seen |-> Drafts, edit |-> NoEdit, plan |-> Drafts, todo |-> {},
         target |-> CHOOSE t \in Targets : TRUE, results |-> [t \in Targets |-> "none"]]

Results == [Targets -> Outcomes \union {"none"}]
RequestStates == [pc : PCs, seen : Snapshots, edit : Edits \union {NoEdit}, plan : Snapshots,
                  todo : SUBSET Targets, target : Targets, results : Results]
Rows == [content : Contents, status : {"pending", "skipped"} \union Attempted,
         log : Outcomes \union {"none"}]
ApprovalStates ==
  [status : {"absent", "pending", "approved", "rejected", "executed", "failed"},
   attempt : {"none", "recent", "old"}, payload : Snapshots, signed : BOOLEAN,
   fingerprint : Snapshots]

TypeOK ==
  /\ post \in PostStatuses
  /\ linked \in BOOLEAN
  /\ row \in [Targets -> Rows]
  /\ account \in [Targets -> Accounts]
  /\ approval \in ApprovalStates
  /\ req \in [Requests -> RequestStates]
  /\ sent \in [Targets -> Seq([content : Contents, account : Accounts])]
  /\ reviewed \in Snapshots

Init ==
  /\ post = "absent"
  /\ linked = FALSE
  /\ row = [t \in Targets |-> [content |-> "drafted", status |-> "pending", log |-> "none"]]
  /\ account = [t \in Targets |-> 1]
  /\ approval = [status |-> "absent", attempt |-> "none", payload |-> Drafts, signed |-> FALSE,
                 fingerprint |-> Drafts]
  /\ req = [q \in Requests |-> Idle]
  /\ sent = [t \in Targets |-> <<>>]
  /\ reviewed = Drafts

At(q, pc) == req[q].pc = pc
Goto(q, pc) == req' = [req EXCEPT ![q].pc = pc]
Return(q) == req' = [req EXCEPT ![q] = Idle]
\* On to a part of the handler that uses none of the locals.
Enter(q, pc) == req' = [req EXCEPT ![q] = [Idle EXCEPT !.pc = pc]]

-----------------------------------------------------------------------------
(* createDrop: the post with its targets, then the approval, then the link. *)
(* A request that dies on the way leaves the rest undone.                   *)

Draft ==
  /\ post = "absent"
  /\ post' = "pending_approval"
  /\ approval' = [approval EXCEPT !.payload = Current]
  /\ UNCHANGED <<linked, row, account, req, history>>

Propose ==
  /\ post # "absent"
  /\ approval.status = "absent"
  /\ approval' = [approval EXCEPT !.status = "pending"]
  /\ UNCHANGED <<post, linked, row, account, req, history>>

Link ==
  /\ approval.status # "absent"
  /\ ~linked
  /\ linked' = TRUE
  /\ UNCHANGED <<post, row, account, approval, req, history>>

\* The OAuth callback points a platform at another account, with its secrets.
Reconnect(t) ==
  /\ account[t] < MaxAccounts[t]
  /\ account' = [account EXCEPT ![t] = @ + 1]
  /\ UNCHANGED <<post, linked, row, approval, req, history>>

-----------------------------------------------------------------------------
(* Approval Center *)

\* The payload is approved as it was proposed.
ApproveInCenter ==
  /\ approval.status = "pending"
  /\ approval' = [approval EXCEPT !.status = "approved"]
  /\ reviewed' = approval.payload
  /\ UNCHANGED <<post, linked, row, account, req, sent>>

Reject ==
  /\ approval.status = "pending"
  /\ approval' = [approval EXCEPT !.status = "rejected"]
  /\ UNCHANGED <<post, linked, row, account, req, history>>

ExecuteInCenter(q) ==
  /\ At(q, "idle")
  /\ approval.status # "absent"
  /\ Enter(q, "read")
  /\ UNCHANGED <<post, linked, row, account, approval, history>>

-----------------------------------------------------------------------------
(* approveAndPost *)

\* Once a decision carries a fingerprint it is the one shown and compared.
Fingerprint == IF approval.signed THEN approval.fingerprint ELSE Current

\* An owner opens the drop and presses the button, with or without edits.
View(q, edit) ==
  /\ At(q, "idle")
  /\ linked
  /\ req' = [req EXCEPT ![q] = [Idle EXCEPT !.pc = "approve", !.seen = Fingerprint, !.edit = edit]]
  /\ UNCHANGED <<post, linked, row, account, approval, history>>

\* The request goes on as a reader of a decision made elsewhere.
Review(q) == req' = [req EXCEPT ![q] = [Idle EXCEPT !.pc = "decided", !.edit = req[q].edit]]

StillAsSeen_Ignored(q) == TRUE
StillAsSeen(q) == req[q].seen = Fingerprint

ApproveRead(q) ==
  /\ At(q, "approve")
  /\ LET plan == Edited(Current, req[q].edit) IN
       \/ /\ StillAsSeen(q)
          /\ approval.status = "pending"
          /\ post \in {"pending_approval", "approved"}
          /\ Enabled(plan) # {}
          /\ req' = [req EXCEPT ![q].pc = "write", ![q].plan = plan]
       \/ /\ StillAsSeen(q)
          /\ approval.status # "pending"
          /\ Review(q)
       \/ /\ \/ ~StillAsSeen(q)
             \/ approval.status = "pending" /\ Enabled(plan) = {}
          /\ Return(q)
  /\ UNCHANGED <<post, linked, row, account, approval, history>>

Undecided_AsRead == TRUE
Undecided == approval.status = "pending" /\ approval.attempt = "none"

\* The decision is claimed before a target changes.
ApproveWrite(q) ==
  /\ At(q, "write")
  /\ \/ /\ Undecided
        /\ approval' = [approval EXCEPT !.status = "approved", !.payload = req[q].plan,
                                        !.signed = TRUE, !.fingerprint = req[q].seen]
        /\ row' = [t \in Targets |->
                     [row[t] EXCEPT !.content = req[q].plan[t].content,
                                    !.status = IF t \in Enabled(req[q].plan)
                                               THEN "pending" ELSE "skipped"]]
        /\ post' = "approved"
        /\ reviewed' = Edited(req[q].seen, req[q].edit)
        /\ Enter(q, "read")
     \/ /\ ~Undecided
        /\ Review(q)
        /\ UNCHANGED <<post, row, approval, reviewed>>
  /\ UNCHANGED <<linked, account, sent>>

\* Somebody else decided: go on only with the content as it was approved.
Decided(q) ==
  /\ At(q, "decided")
  /\ IF /\ \A t \in Targets : req[q].edit[t] \in {"keep", row[t].content}
        /\ approval.status = "approved" /\ approval.attempt = "none"
     THEN Enter(q, "read") ELSE Return(q)
  /\ UNCHANGED <<post, linked, row, account, approval, history>>

-----------------------------------------------------------------------------
(* ApprovalsService.executeApproved, up to the social part *)

Read(q) ==
  /\ At(q, "read")
  /\ IF approval.status = "approved" THEN Goto(q, "claim") ELSE Return(q)
  /\ UNCHANGED <<post, linked, row, account, approval, history>>

Claim(q) ==
  /\ At(q, "claim")
  /\ IF approval.status = "approved" /\ approval.attempt = "none"
     THEN approval' = [approval EXCEPT !.attempt = "recent"] /\ Goto(q, "check")
     ELSE Return(q) /\ UNCHANGED approval
  /\ UNCHANGED <<post, linked, row, account, history>>

-----------------------------------------------------------------------------
(* SocialExecutionService.executeApproved *)

\* The approved payload against the drop and the accounts, as they are now.
SnapshotMatches ==
  /\ linked
  /\ \A t \in Targets : row[t].content = approval.payload[t].content
  /\ \A t \in Enabled(approval.payload) : account[t] = approval.payload[t].account

Check(q) ==
  /\ At(q, "check")
  /\ Enter(q, IF SnapshotMatches THEN "post" ELSE "catch")
  /\ UNCHANGED <<post, linked, row, account, approval, history>>

\* The second durable claim.  The loop that follows it in the code looks at the
\* targets for what ClaimTarget guards again.
ClaimPost(q) ==
  /\ At(q, "post")
  /\ IF post \in {"pending_approval", "approved"}
     THEN /\ post' = "posting"
          /\ req' = [req EXCEPT ![q].pc = "targets", ![q].todo = Enabled(approval.payload)]
     ELSE Enter(q, "catch") /\ UNCHANGED post
  /\ UNCHANGED <<linked, row, account, approval, history>>

\* secretsFor: only the approved account's secrets are handed out.
SecretsFor(t) == account[t] = approval.payload[t].account

Marked_Later(t) == row[t]
Marked_LogSending(t) == [row[t] EXCEPT !.status = "sending", !.log = "sending"]
Marked(t) == [row[t] EXCEPT !.status = "sending", !.log = "unknown"]

ClaimTarget(q, t) ==
  /\ At(q, "targets")
  /\ t \in req[q].todo
  /\ IF SecretsFor(t) /\ row[t].status = "pending"
     THEN /\ row' = [row EXCEPT ![t] = Marked(t)]
          /\ req' = [req EXCEPT ![q].pc = "send", ![q].target = t]
     ELSE Enter(q, "stop") /\ UNCHANGED row
  /\ UNCHANGED <<post, linked, account, approval, history>>

\* A result the platform confirms took effect, a failed one did not.
Reached(outcome) == IF outcome = "unknown" THEN BOOLEAN ELSE {outcome # "failed"}

Send(q, outcome) ==
  /\ At(q, "send")
  /\ LET t == req[q].target IN
       /\ req' = [req EXCEPT ![q].pc = "record", ![q].results[t] = outcome]
       /\ \E reached \in Reached(outcome) :
            sent' = IF reached THEN [sent EXCEPT ![t] = Append(@, approval.payload[t])] ELSE sent
  /\ UNCHANGED <<post, linked, row, account, approval, reviewed>>

Record(q) ==
  /\ At(q, "record")
  /\ LET t == req[q].target IN
       /\ row' = [row EXCEPT ![t].status = req[q].results[t], ![t].log = req[q].results[t]]
       /\ req' = [req EXCEPT ![q].pc = "targets", ![q].todo = @ \ {t}]
  /\ UNCHANGED <<post, linked, account, approval, history>>

\* The catch block of the loop.
Stop(q) ==
  /\ At(q, "stop")
  /\ post' = "unknown"
  /\ Enter(q, "catch")
  /\ UNCHANGED <<linked, row, account, approval, history>>

Said(q) == {req[q].results[t] : t \in Enabled(approval.payload)}

NextStatus(said) ==
  CASE \E outcome \in Complete : said = {outcome} -> CHOOSE outcome \in said : TRUE
    [] "unknown" \in said -> "unknown"
    [] "unknown" \notin said /\ "processing" \in said -> "processing"
    [] said = {"failed"} -> "failed"
    [] OTHER -> "partial"

Finish(q) ==
  /\ At(q, "targets")
  /\ req[q].todo = {}
  /\ post' = NextStatus(Said(q))
  /\ Goto(q, "finalize")
  /\ UNCHANGED <<linked, row, account, approval, history>>

-----------------------------------------------------------------------------
(* ApprovalsService.executeApproved, after the social part *)

AllComplete_Accepted(said) == said \subseteq Complete \union {"processing"}
AllComplete(said) == said \subseteq Complete

Finalize(q) ==
  /\ At(q, "finalize")
  /\ approval' = [approval EXCEPT !.status = IF AllComplete(Said(q)) THEN "executed" ELSE "failed"]
  /\ Enter(q, "audit")
  /\ UNCHANGED <<post, linked, row, account, history>>

Audit(q) ==
  /\ At(q, "audit")
  /\ Return(q)
  /\ UNCHANGED <<post, linked, row, account, approval, history>>

\* A success that is already recorded stays; anything else is failed.
Catch(q) ==
  /\ At(q, "catch")
  /\ approval' = [approval EXCEPT !.status = IF @ = "executed" THEN @ ELSE "failed"]
  /\ Return(q)
  /\ UNCHANGED <<post, linked, row, account, history>>

-----------------------------------------------------------------------------
(* What can go wrong at any statement, and time *)

\* Where a statement that throws leads; elsewhere the request ends, as in Crash.
Handler == [check |-> "catch", post |-> "catch", targets |-> "stop", record |-> "stop",
            stop |-> "catch", finalize |-> "catch", audit |-> "catch"]

Throws(q) ==
  /\ req[q].pc \in DOMAIN Handler
  /\ Enter(q, IF At(q, "targets") /\ req[q].todo = {} THEN "catch" ELSE Handler[req[q].pc])
  /\ UNCHANGED <<post, linked, row, account, approval, history>>

Crash(q) ==
  /\ ~At(q, "idle")
  /\ Return(q)
  /\ UNCHANGED <<post, linked, row, account, approval, history>>

\* An hour has passed since executionAttemptedAt.
Hour ==
  /\ approval.attempt = "recent"
  /\ approval' = [approval EXCEPT !.attempt = "old"]
  /\ UNCHANGED <<post, linked, row, account, req, history>>

Handles(q) ==
  \/ ExecuteInCenter(q)
  \/ \E edit \in Edits : View(q, edit)
  \/ ApproveRead(q) \/ ApproveWrite(q) \/ Decided(q)
  \/ Read(q) \/ Claim(q) \/ Check(q) \/ ClaimPost(q)
  \/ \E t \in Targets : ClaimTarget(q, t)
  \/ \E outcome \in Replies : Send(q, outcome)
  \/ Record(q) \/ Stop(q) \/ Finish(q) \/ Finalize(q) \/ Audit(q) \/ Catch(q)
  \/ Throws(q) \/ Crash(q)

Next ==
  \/ Draft \/ Propose \/ Link
  \/ \E t \in Targets : Reconnect(t)
  \/ ApproveInCenter \/ Reject \/ Hour
  \/ \E q \in Requests : Handles(q)

Spec == Init /\ [][Next]_vars

-----------------------------------------------------------------------------
(* presentPost: what an owner is shown *)

Cancelled == linked /\ approval.status = "rejected"

UnresolvedAttempt_FailedOnly ==
  post = "unknown" \/ (linked /\ post \in Unresolved /\ approval.status = "failed")
UnresolvedAttempt ==
  \/ post = "unknown"
  \/ /\ linked
     /\ post \in Unresolved
     /\ \/ approval.status = "failed"
        \/ approval.status = "approved" /\ approval.attempt = "old"

UnattemptedNeedsReview ==
  \/ UnresolvedAttempt
  \/ linked /\ approval.status \in {"failed", "executed"}
  \/ post \in {"partial"} \union (Outcomes \ {"unknown"})

Evidence(t) == row[t].log # "none"

ShownTarget(t) ==
  LET status == row[t].status IN
  CASE status \in {"posted", "draft_only"} -> row[t].log
    [] Cancelled /\ status \in {"pending", "skipped"} -> IF Evidence(t) THEN "unknown" ELSE "cancelled"
    [] ~Cancelled /\ status = "sending" -> IF UnresolvedAttempt THEN "unknown" ELSE "sending"
    [] ~Cancelled /\ status = "pending" ->
         IF Evidence(t) THEN "unknown"
         ELSE IF UnattemptedNeedsReview THEN "not_attempted"
         ELSE IF linked /\ approval.status = "approved" THEN "approved" ELSE "pending"
    [] OTHER -> status

ShownPost ==
  LET status == IF Cancelled /\ post \in {"pending_approval", "approved"} THEN "cancelled"
                ELSE IF UnresolvedAttempt THEN "unknown" ELSE post
      shown == {ShownTarget(t) : t \in Enabled(Current)}
  IN IF status \notin {"posted", "partial"} THEN status
     ELSE CASE shown = {} -> "failed"
            [] shown # {} /\ shown \in {{outcome} : outcome \in Complete} -> CHOOSE outcome \in shown : TRUE
            [] "unknown" \in shown -> "unknown"
            [] "unknown" \notin shown /\ "processing" \in shown -> "processing"
            [] OTHER -> "partial"

-----------------------------------------------------------------------------
(* Properties *)

\* A platform gets a drop at most once, with the content an owner agreed to and
\* on the account that owner was shown, however reviews, edits, reconnections
\* and executions race.
SentAsReviewed ==
  \A t \in Targets :
    /\ Len(sent[t]) <= 1
    /\ \A i \in 1..Len(sent[t]) : sent[t][i] = reviewed[t]

\* What an owner is told never went out did not, also after a crash between the
\* call and the writing of its result.
NotSentIsTrue ==
  \A t \in Targets :
    ShownTarget(t) \in {"pending", "approved", "not_attempted", "cancelled", "skipped"} => sent[t] = <<>>

\* An executed approval, and a drop shown as posted, delivered every platform
\* the owner left enabled.
DoneIsDelivered ==
  /\ approval.status = "executed" =>
       \A t \in Enabled(approval.payload) : row[t].status \in Complete /\ sent[t] # <<>>
  /\ ShownPost = "posted" =>
       \A t \in Enabled(Current) : row[t].status = "posted" /\ sent[t] # <<>>

\* Both: an owner is told the truth, of what went out and of what did not.
DropToldTruly == NotSentIsTrue /\ DoneIsDelivered

\* An hour after an attempt began, wherever its process died, the drop is no
\* longer shown as waiting, approved or posting.
ResolvedWithinTheHour ==
  linked /\ approval.attempt = "old" => ShownPost \notin Unresolved
=============================================================================
