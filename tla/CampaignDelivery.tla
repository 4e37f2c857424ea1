-------------------------- MODULE CampaignDelivery --------------------------
(***************************************************************************)
(* One booking campaign: its recipients, the approval batches prepared for  *)
(* it one after another, the execution of a batch recipient by recipient,   *)
(* the follow-up tasks it leaves, the replies that come back, and the edits *)
(* members make meanwhile (BookingCampaignsService, the campaign branches   *)
(* of ApprovalsService, BookingRepliesService.sync).                        *)
(*                                                                          *)
(* That an approval is attempted by one request at most is the subject of   *)
(* ApprovalLifecycle; here a batch has one executor. Reconciliation is made *)
(* by a member who looked after the attempt was over and reports what is    *)
(* there.                                                                   *)
(***************************************************************************)
EXTENDS Naturals, FiniteSets

CONSTANTS
  Recipients,     \* recipients that may be added
  MaxRecipients,  \* 25 in the code
  Batches,        \* approval ids; bounds how often a batch is replaced
  Adders,         \* concurrent addRecipient requests
  Editors,        \* concurrent patchRecipient requests
  Modes,          \* delivery modes the campaign may be switched to
  WritesMayFail,  \* TRUE: any local write of the execution may throw
  Nobody          \* null

ASSUME CampaignConstants ==
  /\ IsFiniteSet(Recipients)
  /\ MaxRecipients \in Nat
  /\ Nobody \notin Recipients \union Batches \union Adders \union Nat
  /\ Modes \subseteq {"draft_only", "send_on_execution"}
  /\ Modes # {}
  /\ WritesMayFail \in BOOLEAN

VARIABLES
  campaign,   \* [status, mode, batch]: batch is approvalRequestId
  lock,       \* holder of SELECT ... FOR UPDATE on the campaign row
  adding,     \* [Adders -> the count read under the lock, or Nobody]
  recipient,  \* [Recipients -> recipient status, "absent" before it is added]
  contact,    \* [Recipients -> linked contact]
  editing,    \* [Editors -> what patchRecipient has read and will write]
  batch,      \* [Batches -> the approval row]
  delivery,   \* [Batches -> [Recipients -> delivery status]]
  exec,       \* [Batches -> the local state of the executing request]
  tasks,      \* [Recipients -> follow-up tasks created]
  replied,    \* replies already imported, as <<batch, recipient>>
  mailed      \* history: [Batches -> [Recipients -> messages that left]]

campaignVars == <<campaign, lock, adding, recipient, contact, editing, batch, delivery,
                  exec, tasks, replied, mailed>>
edits == <<adding, editing, lock>>

-----------------------------------------------------------------------------
RecipientStatuses == {"absent", "needs_contact", "ready", "approval_requested",
                      "drafted", "sent", "replied", "declined", "booked"}
Contacts == {"none", "first", "second"}
DeliveryStatuses == {"none", "pending", "sending", "sent", "unknown", "drafted"}
BatchStatuses == {"absent", "pending", "approved", "rejected", "executed", "failed"}
PCs == {"off", "loop", "call", "commit", "catch", "over"}
Replies == {"none", "ok", "unknown"}

NoBatch == [status |-> "absent", mode |-> "draft_only", to |-> {}, attempted |-> FALSE,
            known |-> FALSE, concluded |-> "none"]
NotStarted == [pc |-> "off", at |-> Nobody, got |-> [r \in Recipients |-> "none"]]
NoEdit == [on |-> Nobody, status |-> "absent", contact |-> "keep"]

CampaignTypeOK ==
  /\ campaign \in [status : {"draft", "active", "closed"},
                   mode : {"draft_only", "send_on_execution"}, batch : Batches \union {Nobody}]
  /\ lock \in Adders \union {Nobody}
  /\ adding \in [Adders -> Nat \union {Nobody}]
  /\ recipient \in [Recipients -> RecipientStatuses]
  /\ contact \in [Recipients -> Contacts]
  /\ editing \in [Editors -> [on : Recipients \union {Nobody}, status : RecipientStatuses,
                              contact : Contacts \union {"keep"}]]
  /\ batch \in [Batches -> [status : BatchStatuses, mode : {"draft_only", "send_on_execution"},
                            to : SUBSET Recipients, attempted : BOOLEAN, known : BOOLEAN,
                            concluded : {"none", "effect", "no_effect"}]]
  /\ delivery \in [Batches -> [Recipients -> DeliveryStatuses]]
  /\ exec \in [Batches -> [pc : PCs, at : Recipients \union {Nobody},
                           got : [Recipients -> Replies]]]
  /\ tasks \in [Recipients -> Nat]
  /\ replied \subseteq (Batches \X Recipients)
  /\ mailed \in [Batches -> [Recipients -> Nat]]

Prepared == campaign.batch # Nobody
Added == {r \in Recipients : recipient[r] # "absent"}

\* Mistake: a status the schema does not know.
AutomaticStatus_Contacted(c) == IF c = "none" THEN "needs_contact" ELSE "contacted"

\* The status a recipient gets from its contact.
AutomaticStatus(c) == IF c = "none" THEN "needs_contact" ELSE "ready"

-----------------------------------------------------------------------------
(* Editing the campaign *)

\* patch: the mode and the status may be set at any time, but active needs a batch.
PatchCampaign ==
  /\ \E m \in Modes, s \in {campaign.status, "draft", "closed", "active"} :
       /\ s = "active" => Prepared \/ campaign.status = "active"
       /\ campaign' = [campaign EXCEPT !.mode = m, !.status = s]
  /\ UNCHANGED <<lock, adding, recipient, contact, editing, batch, delivery, exec, tasks,
                 replied, mailed>>

\* Mistake: the campaign row is not locked.
LockFree_Always == TRUE

LockFree == lock = Nobody

\* addRecipient, inside its transaction: lock the campaign, count, insert.
LockForAdd(m) ==
  /\ adding[m] = Nobody
  /\ LockFree
  /\ ~Prepared /\ campaign.status = "draft"
  /\ Cardinality(Added) < MaxRecipients
  /\ lock' = m
  /\ adding' = [adding EXCEPT ![m] = Cardinality(Added)]
  /\ UNCHANGED <<campaign, recipient, contact, editing, batch, delivery, exec, tasks,
                 replied, mailed>>

AddRecipient(m) ==
  /\ adding[m] # Nobody
  /\ \E r \in Recipients \ Added, c \in {"none", "first"} :
       /\ recipient' = [recipient EXCEPT ![r] = AutomaticStatus(c)]
       /\ contact' = [contact EXCEPT ![r] = c]
  /\ lock' = Nobody
  /\ adding' = [adding EXCEPT ![m] = Nobody]
  /\ UNCHANGED <<campaign, editing, batch, delivery, exec, tasks, replied, mailed>>

\* patchRecipient reads the campaign and the recipient outside a transaction ...
ReadForPatch(m, r) ==
  /\ editing[m] = NoEdit
  /\ r \in Added
  /\ \/ \E s \in {recipient[r], "replied", "declined", "booked"} :
          editing' = [editing EXCEPT ![m] = [on |-> r, status |-> s, contact |-> "keep"]]
     \/ /\ ~Prepared
        /\ \E c \in Contacts \ {contact[r]} :
             editing' = [editing EXCEPT ![m] = [on |-> r, status |-> AutomaticStatus(c),
                                                contact |-> c]]
  /\ UNCHANGED <<campaign, lock, adding, recipient, contact, batch, delivery, exec, tasks,
                 replied, mailed>>

\* ... and writes the status it computed, guarded by nothing. The link is only
\* written when the request carries one.
WritePatch(m) ==
  LET w == editing[m] IN
  /\ w # NoEdit
  /\ recipient' = [recipient EXCEPT ![w.on] = w.status]
  /\ contact' = [contact EXCEPT ![w.on] = IF w.contact = "keep" THEN @ ELSE w.contact]
  /\ editing' = [editing EXCEPT ![m] = NoEdit]
  /\ UNCHANGED <<campaign, lock, adding, batch, delivery, exec, tasks, replied, mailed>>

-----------------------------------------------------------------------------
(* Preparing a batch *)

\* Mistake: a batch that failed may be prepared again.
CanReplace_Failed(b) == batch[b].status \in {"rejected", "failed"}

\* campaignApprovalState.canPrepareReplacement
CanReplace(b) ==
  \/ batch[b].status = "rejected"
  \/ batch[b].status \in {"approved", "failed"} /\ batch[b].concluded = "no_effect"

\* prepareApproval: Serializable, under the same row lock, guarded on the
\* campaign row and on the number of recipients changed.
PrepareApproval(b, to) ==
  /\ LockFree
  /\ batch[b].status = "absent"
  /\ IF Prepared THEN CanReplace(campaign.batch) ELSE campaign.status = "draft"
  /\ to # {} /\ Cardinality(to) <= MaxRecipients
  /\ \A r \in to : /\ recipient[r] = IF Prepared THEN "approval_requested" ELSE "ready"
                   /\ contact[r] # "none"
  /\ batch' = [batch EXCEPT ![b] = [NoBatch EXCEPT !.status = "pending", !.to = to,
                                                   !.mode = campaign.mode]]
  /\ campaign' = [campaign EXCEPT !.batch = b, !.status = "active"]
  /\ recipient' = [r \in Recipients |-> IF r \in to THEN "approval_requested" ELSE recipient[r]]
  /\ delivery' = [delivery EXCEPT ![b] = [r \in Recipients |->
                                            IF r \in to THEN "pending" ELSE "none"]]
  /\ UNCHANGED <<lock, adding, contact, editing, exec, tasks, replied, mailed>>

Decide(b) ==
  /\ batch[b].status = "pending"
  /\ \E d \in {"approved", "rejected"} : batch' = [batch EXCEPT ![b].status = d]
  /\ UNCHANGED <<campaign, recipient, contact, delivery, exec, tasks, replied, mailed, edits>>

-----------------------------------------------------------------------------
(* Executing a batch *)

Start(b) ==
  /\ batch[b].status = "approved" /\ ~batch[b].attempted
  /\ batch' = [batch EXCEPT ![b].attempted = TRUE]
  /\ exec' = [exec EXCEPT ![b].pc = "loop"]
  /\ UNCHANGED <<campaign, recipient, contact, delivery, tasks, replied, mailed, edits>>

Remaining(b) == {r \in batch[b].to : exec[b].got[r] = "none"}

\* Mistake: the delivery is marked once the message has been handed over.
MarkSending_Late(b, r) ==
  /\ exec[b].pc = "loop" /\ batch[b].mode = "send_on_execution"
  /\ r \in Remaining(b)
  /\ exec' = [exec EXCEPT ![b].pc = "call", ![b].at = r]
  /\ UNCHANGED <<campaign, recipient, contact, batch, delivery, tasks, replied, mailed, edits>>

\* Each delivery is marked durably before its message is handed to Gmail.
MarkSending(b, r) ==
  /\ exec[b].pc = "loop" /\ batch[b].mode = "send_on_execution"
  /\ r \in Remaining(b)
  /\ delivery[b][r] = "pending"
  /\ delivery' = [delivery EXCEPT ![b][r] = "sending"]
  /\ exec' = [exec EXCEPT ![b].pc = "call", ![b].at = r]
  /\ UNCHANGED <<campaign, recipient, contact, batch, tasks, replied, mailed, edits>>

\* sendMessage: an error is recorded as unknown whether or not the message left.
Send(b, left, answered) ==
  LET r == exec[b].at IN
  /\ exec[b].pc = "call"
  /\ answered => left
  /\ mailed' = [mailed EXCEPT ![b][r] = @ + IF left THEN 1 ELSE 0]
  /\ exec' = [exec EXCEPT ![b].pc = "loop", ![b].at = Nobody,
                          ![b].got[r] = IF answered THEN "ok" ELSE "unknown"]
  /\ UNCHANGED <<campaign, recipient, contact, batch, delivery, tasks, replied, edits>>

\* draftMessage: the loop stops at the first error. A draft is not a message.
CreateDraft(b, r, answered) ==
  /\ exec[b].pc = "loop" /\ batch[b].mode = "draft_only"
  /\ r \in Remaining(b)
  /\ exec' = [exec EXCEPT ![b].pc = IF answered THEN "loop" ELSE "catch",
                          ![b].got[r] = IF answered THEN "ok" ELSE @]
  /\ UNCHANGED <<campaign, recipient, contact, batch, delivery, tasks, replied, mailed, edits>>

\* finalizeCampaignDrafts / finalizeCampaignSends read the recipients first.
FinalizeCheck(b) ==
  /\ exec[b].pc = "loop" /\ Remaining(b) = {}
  /\ LET ready == /\ \A r \in batch[b].to : recipient[r] = "approval_requested"
                  /\ batch[b].mode = "draft_only" => campaign.batch = b
     IN exec' = [exec EXCEPT ![b].pc = IF ready THEN "commit" ELSE "catch"]
  /\ UNCHANGED <<campaign, recipient, contact, batch, delivery, tasks, replied, mailed, edits>>

Confirmed(b) == {r \in batch[b].to : exec[b].got[r] = "ok"}

FinalizeCommit(b) ==
  LET done == IF batch[b].mode = "draft_only" THEN "drafted" ELSE "sent" IN
  /\ exec[b].pc = "commit"
  /\ recipient' = [r \in Recipients |-> IF r \in Confirmed(b) THEN done ELSE recipient[r]]
  /\ tasks' = [r \in Recipients |-> tasks[r] + IF r \in Confirmed(b) THEN 1 ELSE 0]
  /\ delivery' = [delivery EXCEPT ![b] = [r \in Recipients |->
                    IF r \in Confirmed(b) THEN done
                    ELSE IF r \in batch[b].to THEN "unknown" ELSE @[r]]]
  /\ batch' = [batch EXCEPT ![b].known = Confirmed(b) # {},
                            ![b].status = IF Confirmed(b) = batch[b].to THEN "executed"
                                          ELSE "failed"]
  /\ exec' = [exec EXCEPT ![b].pc = "over"]
  /\ UNCHANGED <<campaign, contact, replied, mailed, edits>>

\* Any other error of the try block, and the catch block of executeApproved.
Throw(b) ==
  /\ WritesMayFail
  /\ exec[b].pc \in {"loop", "commit"}
  /\ exec' = [exec EXCEPT ![b].pc = "catch"]
  /\ UNCHANGED <<campaign, recipient, contact, batch, delivery, tasks, replied, mailed, edits>>

FinalizeFailed(b) ==
  /\ exec[b].pc = "catch"
  /\ batch' = [batch EXCEPT ![b].status = "failed", ![b].known = Confirmed(b) # {}]
  /\ exec' = [exec EXCEPT ![b].pc = "over"]
  /\ UNCHANGED <<campaign, recipient, contact, delivery, tasks, replied, mailed, edits>>

Crash(b) ==
  /\ exec[b].pc \in {"loop", "call", "commit", "catch"}
  /\ exec' = [exec EXCEPT ![b].pc = "over"]
  /\ UNCHANGED <<campaign, recipient, contact, batch, delivery, tasks, replied, mailed, edits>>

-----------------------------------------------------------------------------
(* Afterwards *)

\* recordReconciliation by a member who checked Gmail after the attempt. What is
\* in Gmail is what left the loop, acknowledged or not.
Reconcile(b, gmailHasIt) ==
  /\ batch[b].status = "failed" \/ (batch[b].status = "approved" /\ batch[b].attempted)
  /\ exec[b].pc = "over"
  /\ batch[b].concluded = "none"
  /\ batch[b].mode = "send_on_execution"
       => gmailHasIt = (\E r \in batch[b].to : mailed[b][r] > 0)
  /\ gmailHasIt \/ ~batch[b].known
  /\ batch' = [batch EXCEPT ![b].concluded = IF gmailHasIt THEN "effect" ELSE "no_effect"]
  /\ UNCHANGED <<campaign, recipient, contact, delivery, exec, tasks, replied, mailed, edits>>

\* sync: a reply in a tracked thread is imported once.
ImportReply(b, r) ==
  /\ delivery[b][r] \in {"sent", "drafted"}
  /\ <<b, r>> \notin replied
  /\ replied' = replied \union {<<b, r>>}
  /\ recipient' = [recipient EXCEPT ![r] = IF @ \in {"drafted", "sent"} THEN "replied" ELSE @]
  /\ UNCHANGED <<campaign, contact, batch, delivery, exec, tasks, mailed, edits>>

-----------------------------------------------------------------------------
CampaignInit ==
  /\ campaign \in [status : {"draft"}, mode : Modes, batch : {Nobody}]
  /\ lock = Nobody
  /\ adding = [m \in Adders |-> Nobody]
  /\ recipient = [r \in Recipients |-> "absent"]
  /\ contact = [r \in Recipients |-> "none"]
  /\ editing = [m \in Editors |-> NoEdit]
  /\ batch = [b \in Batches |-> NoBatch]
  /\ delivery = [b \in Batches |-> [r \in Recipients |-> "none"]]
  /\ exec = [b \in Batches |-> NotStarted]
  /\ tasks = [r \in Recipients |-> 0]
  /\ replied = {}
  /\ mailed = [b \in Batches |-> [r \in Recipients |-> 0]]

Editing ==
  \/ PatchCampaign
  \/ \E m \in Adders : LockForAdd(m) \/ AddRecipient(m)
  \/ \E m \in Editors : WritePatch(m) \/ \E r \in Recipients : ReadForPatch(m, r)

Preparing(b) == Decide(b) \/ \E to \in SUBSET Recipients : PrepareApproval(b, to)

Executing(b) ==
  \/ Start(b) \/ FinalizeCheck(b) \/ FinalizeCommit(b) \/ Throw(b) \/ FinalizeFailed(b)
  \/ Crash(b)
  \/ \E r \in Recipients : MarkSending(b, r)
  \/ \E left, answered \in BOOLEAN : Send(b, left, answered)
  \/ \E r \in Recipients, answered \in BOOLEAN : CreateDraft(b, r, answered)

Afterwards(b) ==
  \/ \E gmailHasIt \in BOOLEAN : Reconcile(b, gmailHasIt)
  \/ \E r \in Recipients : ImportReply(b, r)

CampaignNext == Editing \/ \E b \in Batches : Preparing(b) \/ Executing(b) \/ Afterwards(b)

CampaignSpec == CampaignInit /\ [][CampaignNext]_campaignVars

-----------------------------------------------------------------------------
(* Safety *)

\* Whatever is rejected, fails, crashes, is reconciled and prepared again, no
\* recipient of the campaign gets the pitch twice.
NoDuplicateEmail == \A r \in Recipients :
  /\ \A b \in Batches : mailed[b][r] <= 1
  /\ Cardinality({b \in Batches : mailed[b][r] > 0}) <= 1

\* A delivery still pending was never handed to Gmail, wherever the executor died.
PendingMeansNotMailed == \A b \in Batches, r \in Recipients :
  delivery[b][r] = "pending" => mailed[b][r] = 0

\* Of the batches prepared for a campaign, only the linked one can still have an
\* effect: every other was rejected or concluded without effect.
OneLiveBatch == \A b \in Batches :
  \/ b = campaign.batch
  \/ batch[b].status \in {"absent", "rejected"}
  \/ batch[b].concluded = "no_effect"

\* Two members adding at once never exceed the size of a batch.
Capacity == Cardinality(Added) <= MaxRecipients

\* All of it: a campaign pitches to nobody twice, has one batch that can still do
\* something and at most its recipients, and never forgets what it handed to Gmail
\* (prepareApproval, addRecipient, executeApproved).
PitchedOnce == NoDuplicateEmail /\ PendingMeansNotMailed /\ OneLiveBatch /\ Capacity

\* Nobody joins a campaign once its batch is prepared.
RecipientsFrozen == [][Prepared => Added' = Added]_campaignVars

\* What the documentation says of a send that Gmail acknowledged: it leaves a
\* follow-up task.
AcknowledgedHasTask == \A b \in Batches :
  batch[b].status \in {"executed", "failed"} /\ batch[b].mode = "send_on_execution"
  => \A r \in Confirmed(b) : tasks[r] >= 1
=============================================================================
