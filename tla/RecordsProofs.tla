--------------------------- MODULE RecordsProofs ----------------------------
(***************************************************************************)
(* Theorems about CampaignDelivery, for any recipients, members, batches   *)
(* and size limit, about TaskGraph, for any finite set of tasks, any       *)
(* number of requests and any limit of the scan, about SetlistEditing, for *)
(* any open editors, running orders and saves, and about MediaUpload, for  *)
(* any uploads, requests, sizes and daily limits.                          *)
(***************************************************************************)
EXTENDS CampaignDelivery, TaskGraph, SetlistEditing, MediaUpload, FiniteSetTheorems, TLAPS

-----------------------------------------------------------------------------
(* Campaigns                                                                *)
Running == {"loop", "call", "commit", "catch"}
Tried == {"approved", "executed", "failed"}

\* A batch is executed once it is approved, and concluded once that is over.
Started(b) ==
  /\ exec[b].pc # "off" => batch[b].attempted
  /\ batch[b].attempted => batch[b].status \in Tried
  /\ exec[b].pc \in Running => batch[b].status = "approved"
  /\ batch[b].concluded # "none" => exec[b].pc = "over"
  /\ batch[b].to \subseteq Added

\* A recipient of a send batch was mailed once at most, after its delivery was
\* marked, and whoever is being mailed was not yet.
Mailing(b) ==
  /\ \A r \in Recipients : mailed[b][r] # 0 =>
       /\ mailed[b][r] = 1
       /\ r \in batch[b].to
       /\ batch[b].mode = "send_on_execution"
       /\ exec[b].pc # "off"
       /\ delivery[b][r] # "pending"
       /\ batch[b].concluded # "no_effect"
  /\ exec[b].pc = "call" =>
       /\ exec[b].at \in batch[b].to
       /\ batch[b].mode = "send_on_execution"
       /\ mailed[b][exec[b].at] = 0
       /\ delivery[b][exec[b].at] = "sending"

\* Whoever is about to add a recipient holds the lock and has room for it.
RoomKept ==
  /\ \A m \in Adders : adding[m] # Nobody => lock = m /\ Cardinality(Added) < MaxRecipients
  /\ \A m \in Editors : editing[m] # NoEdit => /\ editing[m].on \in Added
                                               /\ editing[m].status # "absent"
  /\ Capacity

CampaignInv ==
  /\ CampaignTypeOK
  /\ \A b \in Batches : Started(b) /\ Mailing(b)
  /\ OneLiveBatch
  /\ RoomKept

-----------------------------------------------------------------------------
(* What a step leaves of the other batches *)

ExecStates == [pc : PCs, at : Recipients \union {Nobody}, got : [Recipients -> Replies]]
BatchRows == [status : BatchStatuses, mode : {"draft_only", "send_on_execution"},
              to : SUBSET Recipients, attempted : BOOLEAN, known : BOOLEAN,
              concluded : {"none", "effect", "no_effect"}]

\* The rows, the request and the messages of a batch are as before.
Rests(b) == /\ batch'[b] = batch[b] /\ delivery'[b] = delivery[b]
            /\ exec'[b] = exec[b] /\ mailed'[b] = mailed[b]
OthersRest(b) == \A c \in Batches \ {b} : Rests(c)

\* Nobody who was a recipient stops being one, and a batch at rest stays as it was.
LEMMA RestingKept ==
  ASSUME NEW b \in Batches, Started(b), Mailing(b), Rests(b), Added \subseteq Added'
  PROVE  Started(b)' /\ Mailing(b)'
BY DEF Started, Mailing, Rests

\* The request that executes b is elsewhere.
LEMMA ExecGoes ==
  ASSUME CampaignTypeOK, NEW b \in Batches, NEW pc \in PCs, exec' = [exec EXCEPT ![b].pc = pc]
  PROVE  /\ exec' \in [Batches -> ExecStates]
         /\ exec'[b].pc = pc /\ exec'[b].at = exec[b].at
         /\ \A c \in Batches \ {b} : exec'[c] = exec[c]
<1>1. exec \in [Batches -> ExecStates]
  BY DEF CampaignTypeOK, ExecStates
<1>2. exec[b] \in ExecStates
  BY <1>1
<1>3. [exec[b] EXCEPT !.pc = pc] \in ExecStates
  BY <1>2 DEF ExecStates
<1> QED BY <1>1, <1>2, <1>3 DEF ExecStates

\* Members only edit, and no recipient is lost: the batches are as before.
LEMMA EditingKept ==
  ASSUME CampaignInv, UNCHANGED <<batch, delivery, exec, mailed>>, campaign'.batch = campaign.batch,
         Added \subseteq Added', CampaignTypeOK', RoomKept'
  PROVE  CampaignInv'
<1>1. \A b \in Batches : Started(b)' /\ Mailing(b)'
  BY RestingKept DEF CampaignInv, Rests
<1>2. OneLiveBatch'
  BY DEF CampaignInv, OneLiveBatch
<1> QED BY <1>1, <1>2 DEF CampaignInv

\* A step of batch b after which it is still well kept, the link is the same and
\* b is no more alive than it was.
LEMMA BatchKept ==
  ASSUME CampaignInv, NEW b \in Batches, OthersRest(b), CampaignTypeOK', RoomKept',
         Added \subseteq Added', Started(b)', Mailing(b)', campaign' = campaign,
         batch[b].status \in {"absent", "rejected"} => batch'[b] = batch[b],
         batch[b].concluded = "no_effect" => batch'[b].concluded = "no_effect"
  PROVE  CampaignInv'
<1>1. \A c \in Batches : Started(c)' /\ Mailing(c)'
  BY RestingKept DEF CampaignInv, OthersRest
<1>2. OneLiveBatch'
  <2> SUFFICES ASSUME NEW c \in Batches
               PROVE  (\/ c = campaign.batch
                       \/ batch[c].status \in {"absent", "rejected"}
                       \/ batch[c].concluded = "no_effect")'
    BY DEF OneLiveBatch
  <2>1. CASE c = b
    BY <2>1 DEF CampaignInv, OneLiveBatch
  <2>2. CASE c # b
    BY <2>2 DEF CampaignInv, OneLiveBatch, OthersRest, Rests
  <2> QED BY <2>1, <2>2
<1> QED BY <1>1, <1>2 DEF CampaignInv

\* The members and their room are as before when recipients stay recipients.
LEMMA RoomSame ==
  ASSUME RoomKept, UNCHANGED <<adding, editing, lock>>, Added' = Added
  PROVE  RoomKept'
BY DEF RoomKept, Capacity

-----------------------------------------------------------------------------
LEMMA CampaignInitial == CampaignInit => CampaignInv
<1> SUFFICES ASSUME CampaignInit PROVE CampaignInv
  OBVIOUS
<1>1. CampaignTypeOK
  BY CampaignConstants DEF CampaignInit, CampaignTypeOK, NoBatch, NotStarted, NoEdit, RecipientStatuses,
     Contacts, DeliveryStatuses, BatchStatuses, PCs, Replies
<1>2. Added = {}
  BY DEF CampaignInit, Added
<1>3. \A b \in Batches : Started(b) /\ Mailing(b)
  BY DEF CampaignInit, Started, Mailing, NoBatch, NotStarted, Running
<1>4. OneLiveBatch
  BY DEF CampaignInit, OneLiveBatch, NoBatch
<1>5. RoomKept
  BY <1>2, FS_EmptySet, CampaignConstants DEF CampaignInit, RoomKept, Capacity, NoEdit
<1> QED BY <1>1, <1>3, <1>4, <1>5 DEF CampaignInv

-----------------------------------------------------------------------------
(* The members' edits *)

CampaignRows == [status : {"draft", "active", "closed"},
                 mode : {"draft_only", "send_on_execution"}, batch : Batches \union {Nobody}]
EditStates == [on : Recipients \union {Nobody}, status : RecipientStatuses,
               contact : Contacts \union {"keep"}]

LEMMA PatchCampaignKept == CampaignInv /\ PatchCampaign => CampaignInv'
<1> SUFFICES ASSUME CampaignInv, PatchCampaign PROVE CampaignInv'
  OBVIOUS
<1>1. campaign' \in CampaignRows /\ campaign'.batch = campaign.batch
  <2>1. campaign \in CampaignRows
    BY DEF CampaignInv, CampaignTypeOK, CampaignRows
  <2>2. PICK m \in Modes, s \in {campaign.status, "draft", "closed", "active"} :
          campaign' = [campaign EXCEPT !.mode = m, !.status = s]
    BY DEF PatchCampaign
  <2> QED BY <2>1, <2>2, CampaignConstants DEF CampaignRows
<1>2. CampaignTypeOK'
  BY <1>1 DEF CampaignInv, CampaignTypeOK, PatchCampaign, CampaignRows
<1>3. Added' = Added /\ RoomKept'
  BY RoomSame DEF CampaignInv, PatchCampaign, Added
<1> QED BY <1>1, <1>2, <1>3, EditingKept DEF PatchCampaign

LEMMA AddersKept ==
  ASSUME CampaignInv, NEW m \in Adders, LockForAdd(m) \/ AddRecipient(m)
  PROVE  CampaignInv'
<1> USE CampaignConstants
<1>0. IsFiniteSet(Added) /\ Cardinality(Added) \in Nat
  BY FS_Subset, FS_CardinalityType DEF Added
<1>1. ASSUME LockForAdd(m) PROVE CampaignInv'
  <2>1. CampaignTypeOK'
    BY <1>0, <1>1 DEF CampaignInv, CampaignTypeOK, LockForAdd
  <2>2. Added' = Added
    BY <1>1 DEF LockForAdd, Added
  <2>3. RoomKept'
    <3>1. \A n \in Adders : adding'[n] # Nobody => lock' = n /\ Cardinality(Added) < MaxRecipients
      BY <1>1 DEF CampaignInv, CampaignTypeOK, RoomKept, LockForAdd, LockFree
    <3> QED BY <1>1, <2>2, <3>1 DEF CampaignInv, RoomKept, Capacity, LockForAdd
  <2> QED BY <1>1, <2>1, <2>2, <2>3, EditingKept DEF LockForAdd
<1>2. ASSUME AddRecipient(m) PROVE CampaignInv'
  <2>1. PICK r \in Recipients \ Added, c \in {"none", "first"} :
          /\ recipient' = [recipient EXCEPT ![r] = AutomaticStatus(c)]
          /\ contact' = [contact EXCEPT ![r] = c]
    BY <1>2 DEF AddRecipient
  <2>2. AutomaticStatus(c) \in RecipientStatuses \ {"absent"}
    BY DEF AutomaticStatus, RecipientStatuses
  <2>3. CampaignTypeOK'
    BY <1>2, <2>1, <2>2 DEF CampaignInv, CampaignTypeOK, AddRecipient, Contacts
  <2>4. Added' = Added \union {r}
    BY <2>1, <2>2 DEF CampaignInv, CampaignTypeOK, Added
  <2>5. Cardinality(Added') = Cardinality(Added) + 1
    BY <1>0, <2>1, <2>4, FS_AddElement
  <2>6. RoomKept'
    <3>1. Cardinality(Added) < MaxRecipients /\ lock = m
      BY <1>2 DEF CampaignInv, RoomKept, AddRecipient
    <3>2. \A n \in Adders : adding'[n] = Nobody
      BY <1>2, <3>1 DEF CampaignInv, CampaignTypeOK, RoomKept, AddRecipient
    <3>3. Capacity'
      BY <1>0, <2>5, <3>1 DEF Capacity
    <3> QED BY <1>2, <2>4, <3>2, <3>3 DEF CampaignInv, RoomKept, AddRecipient
  <2> QED BY <1>2, <2>3, <2>4, <2>6, EditingKept DEF AddRecipient
<1> QED BY <1>1, <1>2

LEMMA EditorsKept ==
  ASSUME CampaignInv, NEW m \in Editors, WritePatch(m) \/ \E r \in Recipients : ReadForPatch(m, r)
  PROVE  CampaignInv'
<1>1. ASSUME NEW r \in Recipients, ReadForPatch(m, r) PROVE CampaignInv'
  <2>1. PICK w \in EditStates : /\ editing' = [editing EXCEPT ![m] = w]
                                /\ w.on \in Added /\ w.status # "absent"
    <3>1. recipient[r] \in RecipientStatuses \ {"absent"}
      BY <1>1 DEF CampaignInv, CampaignTypeOK, ReadForPatch, Added
    <3>2. ASSUME NEW s \in RecipientStatuses \ {"absent"}, NEW c \in Contacts \union {"keep"},
                 editing' = [editing EXCEPT ![m] = [on |-> r, status |-> s, contact |-> c]]
          PROVE  \E w \in EditStates : /\ editing' = [editing EXCEPT ![m] = w]
                                       /\ w.on \in Added /\ w.status # "absent"
      <4> DEFINE w == [on |-> r, status |-> s, contact |-> c]
      <4>1. w \in EditStates /\ w.on \in Added /\ w.status # "absent"
        BY <1>1 DEF EditStates, ReadForPatch
      <4> QED BY <3>2, <4>1
    <3>3. CASE \E s \in {recipient[r], "replied", "declined", "booked"} :
                 editing' = [editing EXCEPT ![m] = [on |-> r, status |-> s, contact |-> "keep"]]
      BY <3>1, <3>2, <3>3 DEF RecipientStatuses
    <3>4. CASE \E c \in Contacts \ {contact[r]} :
                 editing' = [editing EXCEPT ![m] = [on |-> r, status |-> AutomaticStatus(c),
                                                    contact |-> c]]
      BY <3>2, <3>4 DEF RecipientStatuses, AutomaticStatus
    <3> QED BY <1>1, <3>3, <3>4 DEF ReadForPatch
  <2>2. CampaignTypeOK'
    BY <1>1, <2>1 DEF CampaignInv, CampaignTypeOK, ReadForPatch, EditStates
  <2>3. Added' = Added
    BY <1>1 DEF ReadForPatch, Added
  <2>4. RoomKept'
    BY <1>1, <2>1, <2>3 DEF CampaignInv, CampaignTypeOK, RoomKept, Capacity, ReadForPatch
  <2> QED BY <1>1, <2>2, <2>3, <2>4, EditingKept DEF ReadForPatch
<1>2. ASSUME WritePatch(m) PROVE CampaignInv'
  <2>1. /\ editing[m] \in EditStates
        /\ editing[m].on \in Added /\ editing[m].status # "absent"
    BY <1>2 DEF CampaignInv, CampaignTypeOK, RoomKept, WritePatch, EditStates
  <2>2. CampaignTypeOK'
    <3>1. NoEdit \in EditStates
      BY DEF NoEdit, EditStates, RecipientStatuses
    <3>2. editing' \in [Editors -> EditStates]
      BY <1>2, <3>1 DEF CampaignInv, CampaignTypeOK, WritePatch, EditStates
    <3>3. recipient' \in [Recipients -> RecipientStatuses] /\ contact' \in [Recipients -> Contacts]
      BY <1>2, <2>1 DEF CampaignInv, CampaignTypeOK, WritePatch, EditStates, Added
    <3> QED BY <1>2, <3>2, <3>3 DEF CampaignInv, CampaignTypeOK, WritePatch, EditStates
  <2>3. Added' = Added
    BY <1>2, <2>1 DEF CampaignInv, CampaignTypeOK, WritePatch, Added
  <2>4. RoomKept'
    BY <1>2, <2>3 DEF CampaignInv, CampaignTypeOK, RoomKept, Capacity, WritePatch
  <2> QED BY <1>2, <2>2, <2>3, <2>4, EditingKept DEF WritePatch
<1> QED BY <1>1, <1>2

-----------------------------------------------------------------------------
(* Preparing and deciding a batch *)

LEMMA PrepareKept ==
  ASSUME CampaignInv, NEW b \in Batches, NEW to \in SUBSET Recipients, PrepareApproval(b, to)
  PROVE  CampaignInv'
<1> USE CampaignConstants
<1>1. /\ batch' = [batch EXCEPT ![b] = [NoBatch EXCEPT !.status = "pending", !.to = to,
                                                      !.mode = campaign.mode]]
      /\ campaign' = [campaign EXCEPT !.batch = b, !.status = "active"]
      /\ recipient' = [r \in Recipients |-> IF r \in to THEN "approval_requested" ELSE recipient[r]]
      /\ delivery' = [delivery EXCEPT ![b] = [r \in Recipients |->
                                                IF r \in to THEN "pending" ELSE "none"]]
      /\ UNCHANGED <<lock, adding, contact, editing, exec, tasks, replied, mailed>>
      /\ batch[b].status = "absent"
      /\ to \subseteq Added
  BY DEF PrepareApproval, Added
<1>2. CampaignTypeOK'
  <2>1. batch' \in [Batches -> BatchRows]
    BY <1>1 DEF CampaignInv, CampaignTypeOK, BatchRows, NoBatch, BatchStatuses
  <2>2. campaign' \in CampaignRows
    BY <1>1 DEF CampaignInv, CampaignTypeOK, CampaignRows
  <2>3. recipient' \in [Recipients -> RecipientStatuses]
    BY <1>1 DEF CampaignInv, CampaignTypeOK, RecipientStatuses
  <2>4. delivery' \in [Batches -> [Recipients -> DeliveryStatuses]]
    BY <1>1 DEF CampaignInv, CampaignTypeOK, DeliveryStatuses
  <2> QED BY <1>1, <2>1, <2>2, <2>3, <2>4 DEF CampaignInv, CampaignTypeOK, BatchRows, CampaignRows
<1>3. Added' = Added
  BY <1>1 DEF CampaignInv, CampaignTypeOK, Added
<1>4. RoomKept'
  BY <1>1, <1>3, RoomSame DEF CampaignInv
<1>5. OthersRest(b)
  BY <1>1 DEF CampaignInv, CampaignTypeOK, OthersRest, Rests
<1>6. exec[b].pc = "off" /\ exec'[b] = exec[b] /\ mailed'[b] = mailed[b]
  BY <1>1 DEF CampaignInv, Started, Tried
<1>7. /\ batch'[b].status = "pending" /\ batch'[b].to = to
      /\ batch'[b].attempted = FALSE /\ batch'[b].concluded = "none"
  <2>1. batch'[b] = [NoBatch EXCEPT !.status = "pending", !.to = to, !.mode = campaign.mode]
    BY <1>1 DEF CampaignInv, CampaignTypeOK
  <2> QED BY <2>1 DEF NoBatch
<1>8. Started(b)' /\ Mailing(b)'
  <2>1. Started(b)'
    BY <1>1, <1>3, <1>6, <1>7 DEF Started, Running
  <2>2. Mailing(b)'
    BY <1>6 DEF CampaignInv, Mailing
  <2> QED BY <2>1, <2>2
<1>9. \A c \in Batches : Started(c)' /\ Mailing(c)'
  BY <1>3, <1>5, <1>8, RestingKept DEF CampaignInv, OthersRest
<1>10. OneLiveBatch'
  <2> SUFFICES ASSUME NEW c \in Batches, c # b
               PROVE  (batch[c].status \in {"absent", "rejected"} \/ batch[c].concluded = "no_effect")'
    BY <1>1 DEF OneLiveBatch, CampaignInv, CampaignTypeOK
  <2>1. batch'[c] = batch[c]
    BY <1>5 DEF OthersRest, Rests
  <2>2. CASE c = campaign.batch
    BY <2>1, <2>2 DEF PrepareApproval, Prepared, CanReplace
  <2>3. CASE c # campaign.batch
    BY <2>1, <2>3 DEF CampaignInv, OneLiveBatch
  <2> QED BY <2>2, <2>3
<1> QED BY <1>2, <1>4, <1>9, <1>10 DEF CampaignInv

\* The row of b gets other fields; its deliveries, request and messages are as before.
LEMMA RowMoves ==
  ASSUME CampaignInv, NEW b \in Batches, NEW x \in BatchRows, batch' = [batch EXCEPT ![b] = x],
         UNCHANGED <<campaign, recipient, contact, delivery, exec, tasks, replied, mailed, edits>>,
         x.to = batch[b].to, x.mode = batch[b].mode, Started(b)',
         x.concluded = "no_effect" => \A r \in Recipients : mailed[b][r] = 0,
         batch[b].status \notin {"absent", "rejected"},
         batch[b].concluded = "no_effect" => x.concluded = "no_effect"
  PROVE  CampaignInv'
<1>1. Added' = Added
  BY DEF Added
<1>2. RoomKept'
  BY <1>1, RoomSame DEF CampaignInv, edits
<1>3. batch'[b] = x /\ OthersRest(b)
  BY DEF CampaignInv, CampaignTypeOK, OthersRest, Rests
<1>4. CampaignTypeOK'
  BY DEF CampaignInv, CampaignTypeOK, BatchRows, edits
<1>5. Mailing(b)'
  BY <1>3 DEF CampaignInv, Mailing
<1> QED BY <1>1, <1>2, <1>3, <1>4, <1>5, BatchKept

LEMMA DecideKept ==
  ASSUME CampaignInv, NEW b \in Batches, Decide(b)
  PROVE  CampaignInv'
<1>1. PICK d \in {"approved", "rejected"} : batch' = [batch EXCEPT ![b].status = d]
  BY DEF Decide
<1> DEFINE x == [batch[b] EXCEPT !.status = d]
<1>2. batch[b] \in BatchRows /\ x \in BatchRows
  <2>1. batch[b] \in BatchRows
    BY DEF CampaignInv, CampaignTypeOK, BatchRows
  <2> QED BY <2>1 DEF BatchRows, BatchStatuses
<1>3. batch' = [batch EXCEPT ![b] = x] /\ batch'[b] = x
  BY <1>1 DEF CampaignInv, CampaignTypeOK
<1>4. /\ batch[b] \in BatchRows /\ batch[b].status = "pending"
      /\ exec[b].pc = "off" /\ ~batch[b].attempted /\ batch[b].concluded = "none"
  BY DEF CampaignInv, CampaignTypeOK, Decide, Started, Tried, BatchRows
<1>5. Started(b)'
  BY <1>3, <1>4 DEF CampaignInv, Started, Decide, Running, Added, BatchRows
<1>6. x.to = batch[b].to /\ x.mode = batch[b].mode /\ x.concluded = batch[b].concluded
  BY <1>4 DEF BatchRows
<1> HIDE DEF x
<1> QED BY <1>2, <1>3, <1>4, <1>5, <1>6, RowMoves DEF Decide

LEMMA ReconcileKept ==
  ASSUME CampaignInv, NEW b \in Batches, NEW gmailHasIt \in BOOLEAN, Reconcile(b, gmailHasIt)
  PROVE  CampaignInv'
<1> DEFINE x == [batch[b] EXCEPT !.concluded = IF gmailHasIt THEN "effect" ELSE "no_effect"]
<1>1. batch[b] \in BatchRows /\ x \in BatchRows
  <2>1. batch[b] \in BatchRows
    BY DEF CampaignInv, CampaignTypeOK, BatchRows
  <2> QED BY <2>1 DEF BatchRows
<1>2. batch' = [batch EXCEPT ![b] = x] /\ batch'[b] = x
  BY DEF CampaignInv, CampaignTypeOK, Reconcile
<1>3. /\ x.to = batch[b].to /\ x.mode = batch[b].mode /\ x.status = batch[b].status
      /\ x.attempted = batch[b].attempted
      /\ x.concluded = "no_effect" => ~gmailHasIt
  BY <1>1 DEF BatchRows
<1>4. Started(b)'
  BY <1>2, <1>3 DEF CampaignInv, Started, Reconcile, Running, Added
<1>5. x.concluded = "no_effect" => \A r \in Recipients : mailed[b][r] = 0
  <2> SUFFICES ASSUME ~gmailHasIt, NEW r \in Recipients, mailed[b][r] # 0 PROVE FALSE
    BY <1>3
  <2>1. mailed[b][r] = 1 /\ r \in batch[b].to /\ batch[b].mode = "send_on_execution"
    BY DEF CampaignInv, Mailing
  <2> QED BY <2>1 DEF Reconcile
<1>6. batch[b].status \notin {"absent", "rejected"} /\ batch[b].concluded # "no_effect"
  BY DEF Reconcile
<1> HIDE DEF x
<1> QED BY <1>1, <1>2, <1>3, <1>4, <1>5, <1>6, RowMoves DEF Reconcile

-----------------------------------------------------------------------------
(* The execution of a batch *)

LEMMA ExecTyped == ASSUME CampaignTypeOK, NEW b \in Batches PROVE exec[b] \in ExecStates
BY DEF CampaignTypeOK, ExecStates

\* The request goes on to y, and nobody is about to be mailed.
LEMMA ExecMoves ==
  ASSUME CampaignInv, NEW b \in Batches, NEW y \in ExecStates, exec' = [exec EXCEPT ![b] = y],
         UNCHANGED <<campaign, recipient, contact, batch, delivery, tasks, replied, mailed, edits>>,
         exec[b].pc \in Running, y.pc \in {"loop", "commit", "catch", "over"}
  PROVE  CampaignInv'
<1>1. Added' = Added
  BY DEF Added
<1>2. RoomKept'
  BY <1>1, RoomSame DEF CampaignInv, edits
<1>3. exec'[b] = y /\ OthersRest(b)
  BY DEF CampaignInv, CampaignTypeOK, OthersRest, Rests
<1>4. CampaignTypeOK'
  BY DEF CampaignInv, CampaignTypeOK, ExecStates, edits
<1>5. Started(b)'
  BY <1>1, <1>3 DEF CampaignInv, Started, Running
<1>6. Mailing(b)'
  BY <1>3 DEF CampaignInv, Mailing
<1> QED BY <1>1, <1>2, <1>3, <1>4, <1>5, <1>6, BatchKept

LEMMA PassingKept ==
  ASSUME CampaignInv, NEW b \in Batches,
         \/ FinalizeCheck(b) \/ Throw(b) \/ Crash(b)
         \/ \E r \in Recipients, answered \in BOOLEAN : CreateDraft(b, r, answered)
  PROVE  CampaignInv'
<1>0. exec[b] \in ExecStates
  BY ExecTyped DEF CampaignInv
<1>1. ASSUME NEW pc \in {"loop", "commit", "catch", "over"}, exec' = [exec EXCEPT ![b].pc = pc],
             exec[b].pc \in Running,
             UNCHANGED <<campaign, recipient, contact, batch, delivery, tasks, replied, mailed, edits>>
      PROVE  CampaignInv'
  <2> DEFINE y == [exec[b] EXCEPT !.pc = pc]
  <2>1. y \in ExecStates /\ y.pc = pc
    BY <1>0 DEF ExecStates, PCs
  <2>2. exec' = [exec EXCEPT ![b] = y]
    BY <1>1
  <2> HIDE DEF y
  <2> QED BY <1>1, <2>1, <2>2, ExecMoves
<1>2. CASE FinalizeCheck(b)
  <2>1. \E pc \in {"commit", "catch"} : exec' = [exec EXCEPT ![b].pc = pc]
    BY <1>2 DEF FinalizeCheck
  <2> QED BY <1>1, <1>2, <2>1 DEF FinalizeCheck, Running
<1>3. CASE Throw(b) \/ Crash(b)
  BY <1>1, <1>3 DEF Throw, Crash, Running
<1>4. ASSUME NEW r \in Recipients, NEW answered \in BOOLEAN, CreateDraft(b, r, answered)
      PROVE  CampaignInv'
  <2> DEFINE y == [exec[b] EXCEPT !.pc = IF answered THEN "loop" ELSE "catch",
                                  !.got[r] = IF answered THEN "ok" ELSE @]
  <2>1. y \in ExecStates /\ y.pc \in {"loop", "catch"}
    BY <1>0 DEF ExecStates, PCs, Replies
  <2>2. exec' = [exec EXCEPT ![b] = y]
    <3>1. exec' = [exec EXCEPT ![b].pc = IF answered THEN "loop" ELSE "catch",
                               ![b].got[r] = IF answered THEN "ok" ELSE @]
      BY <1>4 DEF CreateDraft
    <3>2. CASE answered
      BY <3>1, <3>2
    <3>3. CASE ~answered
      BY <3>1, <3>3
    <3> QED BY <3>2, <3>3
  <2>3. /\ exec[b].pc \in Running
        /\ UNCHANGED <<campaign, recipient, contact, batch, delivery, tasks, replied, mailed, edits>>
    BY <1>4 DEF CreateDraft, Running
  <2> HIDE DEF y
  <2> QED BY <2>1, <2>2, <2>3, ExecMoves
<1> QED BY <1>2, <1>3, <1>4

LEMMA StartKept ==
  ASSUME CampaignInv, NEW b \in Batches, Start(b)
  PROVE  CampaignInv'
<1>1. batch[b] \in BatchRows /\ [batch[b] EXCEPT !.attempted = TRUE] \in BatchRows
  <2>1. batch[b] \in BatchRows
    BY DEF CampaignInv, CampaignTypeOK, BatchRows
  <2> QED BY <2>1 DEF BatchRows
<1>2. /\ exec' \in [Batches -> ExecStates] /\ exec'[b].pc = "loop"
      /\ \A c \in Batches \ {b} : exec'[c] = exec[c]
  BY ExecGoes DEF CampaignInv, Start, PCs
<1>3. /\ batch'[b].attempted /\ batch'[b].status = "approved" /\ batch'[b].to = batch[b].to
      /\ batch'[b].mode = batch[b].mode /\ batch'[b].concluded = batch[b].concluded
  BY <1>1 DEF CampaignInv, CampaignTypeOK, Start, BatchRows
<1>4. exec[b].pc = "off" /\ batch[b].concluded = "none"
  BY DEF CampaignInv, Started, Start
<1>5. CampaignTypeOK'
  <2>1. batch' \in [Batches -> BatchRows]
    BY <1>1 DEF CampaignInv, CampaignTypeOK, Start, BatchRows
  <2> QED BY <1>2, <2>1 DEF CampaignInv, CampaignTypeOK, Start, ExecStates, BatchRows, edits
<1>6. Added' = Added /\ RoomKept'
  BY RoomSame DEF CampaignInv, Start, edits, Added
<1>7. OthersRest(b)
  BY <1>2 DEF CampaignInv, CampaignTypeOK, Start, OthersRest, Rests
<1>8. Started(b)'
  BY <1>2, <1>3, <1>4, <1>6 DEF CampaignInv, Started, Tried, Running
<1>9. Mailing(b)'
  BY <1>2, <1>3, <1>4 DEF CampaignInv, Mailing, Start
<1> QED BY <1>3, <1>4, <1>5, <1>6, <1>7, <1>8, <1>9, BatchKept DEF Start

LEMMA MarkSendingKept ==
  ASSUME CampaignInv, NEW b \in Batches, NEW r \in Recipients, MarkSending(b, r)
  PROVE  CampaignInv'
<1> DEFINE y == [exec[b] EXCEPT !.pc = "call", !.at = r]
<1>1. exec[b] \in ExecStates /\ y \in ExecStates /\ y.pc = "call" /\ y.at = r
  <2>1. exec[b] \in ExecStates
    BY ExecTyped DEF CampaignInv
  <2> QED BY <2>1 DEF ExecStates, PCs
<1>2. exec' = [exec EXCEPT ![b] = y]
  BY DEF MarkSending
<1> HIDE DEF y
<1>3. exec'[b] = y /\ OthersRest(b) /\ delivery'[b] = [delivery[b] EXCEPT ![r] = "sending"]
  BY <1>2 DEF CampaignInv, CampaignTypeOK, OthersRest, Rests, MarkSending
<1>4. r \in batch[b].to /\ mailed[b][r] = 0
  BY DEF CampaignInv, Mailing, MarkSending, Remaining
<1>5. CampaignTypeOK'
  <2>1. exec' \in [Batches -> ExecStates]
    BY <1>1, <1>2 DEF CampaignInv, CampaignTypeOK, ExecStates
  <2>2. delivery' \in [Batches -> [Recipients -> DeliveryStatuses]]
    BY DEF CampaignInv, CampaignTypeOK, MarkSending, DeliveryStatuses
  <2> QED BY <2>1, <2>2 DEF CampaignInv, CampaignTypeOK, MarkSending, ExecStates, edits
<1>6. Added' = Added /\ RoomKept'
  BY RoomSame DEF CampaignInv, MarkSending, edits, Added
<1>7. Started(b)'
  BY <1>1, <1>3, <1>6 DEF CampaignInv, Started, MarkSending, Running
<1>8. Mailing(b)'
  BY <1>1, <1>3, <1>4 DEF CampaignInv, CampaignTypeOK, Mailing, MarkSending
<1> QED BY <1>3, <1>5, <1>6, <1>7, <1>8, BatchKept DEF MarkSending

LEMMA SendKept ==
  ASSUME CampaignInv, NEW b \in Batches, NEW left \in BOOLEAN, NEW answered \in BOOLEAN,
         Send(b, left, answered)
  PROVE  CampaignInv'
<1> DEFINE r == exec[b].at
           y == [exec[b] EXCEPT !.pc = "loop", !.at = Nobody,
                                !.got[r] = IF answered THEN "ok" ELSE "unknown"]
<1>1. exec[b] \in ExecStates /\ y \in ExecStates /\ y.pc = "loop"
  <2>1. exec[b] \in ExecStates
    BY ExecTyped DEF CampaignInv
  <2> QED BY <2>1 DEF ExecStates, PCs, Replies
<1>2. /\ exec[b].pc = "call" /\ batch[b].status = "approved" /\ batch[b].concluded = "none"
      /\ r \in batch[b].to /\ r \in Recipients /\ batch[b].mode = "send_on_execution"
      /\ mailed[b][r] = 0 /\ delivery[b][r] = "sending"
  BY DEF CampaignInv, CampaignTypeOK, Started, Mailing, Send, Running, Added
<1>3. exec' = [exec EXCEPT ![b] = y]
  BY DEF Send
<1> HIDE DEF y
<1>4. exec'[b] = y /\ OthersRest(b)
  BY <1>3 DEF CampaignInv, CampaignTypeOK, OthersRest, Rests, Send
<1>5. mailed \in [Batches -> [Recipients -> Nat]]
  BY DEF CampaignInv, CampaignTypeOK
<1> DEFINE n == IF left THEN 1 ELSE 0
           counts == [mailed[b] EXCEPT ![r] = n]
<1>6. n \in {0, 1} /\ mailed' = [mailed EXCEPT ![b] = counts] /\ counts \in [Recipients -> Nat]
  <2>1. mailed' = [mailed EXCEPT ![b][r] = @ + n]
    BY DEF Send
  <2>2. mailed[b][r] + n = n
    BY <1>2
  <2> QED BY <1>5, <2>1, <2>2
<1> HIDE DEF n
<1>7. CampaignTypeOK'
  <2>1. exec' \in [Batches -> ExecStates]
    BY <1>1, <1>3 DEF CampaignInv, CampaignTypeOK, ExecStates
  <2>2. mailed' \in [Batches -> [Recipients -> Nat]]
    <3> HIDE DEF counts
    <3> QED BY <1>5, <1>6
  <2> QED BY <2>1, <2>2 DEF CampaignInv, CampaignTypeOK, Send, ExecStates, edits
<1>8. Added' = Added /\ RoomKept'
  BY RoomSame DEF CampaignInv, Send, edits, Added
<1>9. Started(b)'
  BY <1>1, <1>2, <1>4, <1>8 DEF CampaignInv, Started, Send, Running
<1>10. Mailing(b)'
  <2>1. \A s \in Recipients \ {r} : mailed'[b][s] = mailed[b][s]
    BY <1>5, <1>6
  <2>2. mailed'[b][r] \in {0, 1}
    BY <1>2, <1>5, <1>6
  <2>3. batch'[b] = batch[b] /\ delivery'[b] = delivery[b]
    BY DEF Send
  <2> QED BY <1>1, <1>2, <1>4, <2>1, <2>2, <2>3 DEF CampaignInv, Mailing
<1> QED BY <1>2, <1>4, <1>7, <1>8, <1>9, <1>10, BatchKept DEF Send

\* The end of an execution is written: the request is over and nobody is mailed.
LEMMA EndingKept ==
  ASSUME CampaignInv, NEW b \in Batches, NEW x \in BatchRows, batch' = [batch EXCEPT ![b] = x],
         exec' = [exec EXCEPT ![b].pc = "over"], exec[b].pc \in Running,
         UNCHANGED <<campaign, contact, replied, mailed, edits>>,
         x.status \in {"executed", "failed"}, x.to = batch[b].to, x.mode = batch[b].mode,
         x.attempted = batch[b].attempted, x.concluded = batch[b].concluded,
         recipient' \in [Recipients -> RecipientStatuses], Added' = Added,
         tasks' \in [Recipients -> Nat],
         delivery' \in [Batches -> [Recipients -> DeliveryStatuses]],
         \A c \in Batches \ {b} : delivery'[c] = delivery[c],
         \A r \in batch[b].to : delivery[b][r] # "pending" => delivery'[b][r] # "pending"
  PROVE  CampaignInv'
<1>1. /\ exec' \in [Batches -> ExecStates] /\ exec'[b].pc = "over"
      /\ \A c \in Batches \ {b} : exec'[c] = exec[c]
  BY ExecGoes DEF CampaignInv, PCs
<1>2. batch' \in [Batches -> BatchRows] /\ batch'[b] = x /\ OthersRest(b)
  BY <1>1 DEF CampaignInv, CampaignTypeOK, BatchRows, OthersRest, Rests
<1>3. CampaignTypeOK'
  BY <1>1, <1>2 DEF CampaignInv, CampaignTypeOK, ExecStates, BatchRows, edits
<1>4. RoomKept'
  BY RoomSame DEF CampaignInv, edits
<1>5. Started(b)'
  BY <1>1, <1>2 DEF CampaignInv, Started, Tried, Running
<1>6. Mailing(b)'
  BY <1>1, <1>2 DEF CampaignInv, Mailing
<1>7. batch[b].status = "approved"
  BY DEF CampaignInv, Started
<1> QED BY <1>2, <1>3, <1>4, <1>5, <1>6, <1>7, BatchKept

LEMMA FinalizeCommitKept ==
  ASSUME CampaignInv, NEW b \in Batches, FinalizeCommit(b)
  PROVE  CampaignInv'
<1> DEFINE done == IF batch[b].mode = "draft_only" THEN "drafted" ELSE "sent"
           row == [batch[b] EXCEPT !.known = Confirmed(b) # {},
                                   !.status = IF Confirmed(b) = batch[b].to THEN "executed" ELSE "failed"]
           told == [r \in Recipients |-> IF r \in Confirmed(b) THEN done
                                         ELSE IF r \in batch[b].to THEN "unknown" ELSE delivery[b][r]]
<1>1. batch[b] \in BatchRows
  BY DEF CampaignInv, CampaignTypeOK, BatchRows
<1>2. /\ row \in BatchRows /\ row.status \in {"executed", "failed"} /\ row.to = batch[b].to
      /\ row.mode = batch[b].mode /\ row.attempted = batch[b].attempted
      /\ row.concluded = batch[b].concluded
  BY <1>1 DEF BatchRows, BatchStatuses
<1>3. batch' = [batch EXCEPT ![b] = row]
  BY DEF FinalizeCommit
<1>4. Confirmed(b) \subseteq Added /\ Confirmed(b) \subseteq batch[b].to
  BY DEF CampaignInv, Started, Confirmed
<1>5. recipient' \in [Recipients -> RecipientStatuses] /\ Added' = Added
  <2>1. recipient' = [r \in Recipients |-> IF r \in Confirmed(b) THEN done ELSE recipient[r]]
    BY DEF FinalizeCommit
  <2>2. recipient \in [Recipients -> RecipientStatuses]
    BY DEF CampaignInv, CampaignTypeOK
  <2> HIDE DEF done
  <2>3. done \in RecipientStatuses \ {"absent"}
    BY DEF done, RecipientStatuses
  <2> QED BY <1>4, <2>1, <2>2, <2>3 DEF Added
<1>6. tasks' \in [Recipients -> Nat]
  BY DEF CampaignInv, CampaignTypeOK, FinalizeCommit
<1>7. told \in [Recipients -> DeliveryStatuses] /\ \A r \in batch[b].to : told[r] # "pending"
  BY <1>4 DEF CampaignInv, CampaignTypeOK, DeliveryStatuses, Started, Added
<1>8. delivery' = [delivery EXCEPT ![b] = told]
  BY DEF FinalizeCommit
<1>9. exec[b].pc \in Running /\ exec' = [exec EXCEPT ![b].pc = "over"]
  BY DEF FinalizeCommit, Running
<1> HIDE DEF row, told
<1>10. /\ delivery' \in [Batches -> [Recipients -> DeliveryStatuses]]
       /\ \A c \in Batches \ {b} : delivery'[c] = delivery[c]
       /\ delivery'[b] = told
  BY <1>7, <1>8 DEF CampaignInv, CampaignTypeOK
<1>11. UNCHANGED <<campaign, contact, replied, mailed, edits>>
  BY DEF FinalizeCommit
<1> QED BY <1>2, <1>3, <1>5, <1>6, <1>7, <1>9, <1>10, <1>11, EndingKept

LEMMA FinalizeFailedKept ==
  ASSUME CampaignInv, NEW b \in Batches, FinalizeFailed(b)
  PROVE  CampaignInv'
<1> DEFINE row == [batch[b] EXCEPT !.status = "failed", !.known = Confirmed(b) # {}]
<1>1. batch[b] \in BatchRows
  BY DEF CampaignInv, CampaignTypeOK, BatchRows
<1>2. /\ row \in BatchRows /\ row.status = "failed" /\ row.to = batch[b].to
      /\ row.mode = batch[b].mode /\ row.attempted = batch[b].attempted
      /\ row.concluded = batch[b].concluded
  BY <1>1 DEF BatchRows, BatchStatuses
<1>3. batch' = [batch EXCEPT ![b] = row]
  BY DEF FinalizeFailed
<1>4. /\ exec[b].pc \in Running /\ exec' = [exec EXCEPT ![b].pc = "over"]
      /\ UNCHANGED <<campaign, recipient, contact, delivery, tasks, replied, mailed, edits>>
  BY DEF FinalizeFailed, Running
<1>5. /\ recipient' \in [Recipients -> RecipientStatuses] /\ Added' = Added
      /\ tasks' \in [Recipients -> Nat]
      /\ delivery' \in [Batches -> [Recipients -> DeliveryStatuses]]
  BY <1>4 DEF CampaignInv, CampaignTypeOK, Added
<1> HIDE DEF row
<1> QED BY <1>2, <1>3, <1>4, <1>5, EndingKept

LEMMA ImportReplyKept ==
  ASSUME CampaignInv, NEW b \in Batches, NEW r \in Recipients, ImportReply(b, r)
  PROVE  CampaignInv'
<1>1. recipient' \in [Recipients -> RecipientStatuses] /\ Added' = Added
  BY DEF CampaignInv, CampaignTypeOK, ImportReply, Added, RecipientStatuses
<1>2. CampaignTypeOK'
  BY <1>1 DEF CampaignInv, CampaignTypeOK, ImportReply, edits
<1>3. RoomKept'
  BY <1>1, RoomSame DEF CampaignInv, ImportReply, edits
<1> QED BY <1>1, <1>2, <1>3, EditingKept DEF ImportReply

-----------------------------------------------------------------------------
LEMMA CampaignStep == CampaignInv /\ [CampaignNext]_campaignVars => CampaignInv'
<1> SUFFICES ASSUME CampaignInv, [CampaignNext]_campaignVars PROVE CampaignInv'
  OBVIOUS
<1>1. CASE UNCHANGED campaignVars
  <2>1. Added' = Added /\ RoomKept' /\ CampaignTypeOK'
    BY <1>1, RoomSame DEF CampaignInv, CampaignTypeOK, campaignVars, Added
  <2> QED BY <1>1, <2>1, EditingKept DEF campaignVars
<1>2. CASE Editing
  BY <1>2, PatchCampaignKept, AddersKept, EditorsKept DEF Editing
<1>3. ASSUME NEW b \in Batches, Preparing(b) PROVE CampaignInv'
  BY <1>3, DecideKept, PrepareKept DEF Preparing
<1>4. ASSUME NEW b \in Batches, Executing(b) PROVE CampaignInv'
  BY <1>4, StartKept, PassingKept, MarkSendingKept, SendKept, FinalizeCommitKept, FinalizeFailedKept
     DEF Executing
<1>5. ASSUME NEW b \in Batches, Afterwards(b) PROVE CampaignInv'
  BY <1>5, ReconcileKept, ImportReplyKept DEF Afterwards
<1> QED BY <1>1, <1>2, <1>3, <1>4, <1>5 DEF CampaignNext

LEMMA CampaignInvariant == CampaignSpec => []CampaignInv
BY CampaignInitial, CampaignStep, PTL DEF CampaignSpec

-----------------------------------------------------------------------------
\* Whatever is rejected, fails, crashes, is reconciled and prepared again, nobody is
\* pitched twice, one batch at most can still do something, a campaign has at most
\* its recipients, and what is pending never left (prepareApproval, addRecipient,
\* executeApproved).
THEOREM PitchedOnceAlways == CampaignSpec => []PitchedOnce
<1>1. ASSUME CampaignInv PROVE PitchedOnce
  <2>1. ASSUME NEW b \in Batches, NEW r \in Recipients, mailed[b][r] # 0
        PROVE  b = campaign.batch /\ mailed[b][r] = 1 /\ delivery[b][r] # "pending"
    <3>1. batch[b].status \in Tried /\ batch[b].concluded # "no_effect"
      BY <1>1, <2>1 DEF CampaignInv, Started, Mailing
    <3> QED BY <1>1, <2>1, <3>1 DEF CampaignInv, OneLiveBatch, Mailing, Tried
  <2>2. NoDuplicateEmail
    <3> SUFFICES ASSUME NEW r \in Recipients
                 PROVE  /\ \A b \in Batches : mailed[b][r] <= 1
                        /\ Cardinality({b \in Batches : mailed[b][r] > 0}) <= 1
      BY DEF NoDuplicateEmail
    <3>1. \A b \in Batches : mailed[b][r] \in Nat
      BY <1>1 DEF CampaignInv, CampaignTypeOK
    <3>2. {b \in Batches : mailed[b][r] > 0} \subseteq {campaign.batch}
      BY <2>1, <3>1
    <3>3. Cardinality({b \in Batches : mailed[b][r] > 0}) <= 1
      <4>1. IsFiniteSet({campaign.batch}) /\ Cardinality({campaign.batch}) = 1
        BY FS_Singleton
      <4>2. Cardinality({b \in Batches : mailed[b][r] > 0}) <= Cardinality({campaign.batch})
        BY <3>2, <4>1, FS_Subset
      <4> QED BY <4>1, <4>2
    <3> QED BY <2>1, <3>1, <3>3
  <2>3. PendingMeansNotMailed
    BY <2>1 DEF PendingMeansNotMailed
  <2> QED BY <1>1, <2>2, <2>3 DEF PitchedOnce, CampaignInv, RoomKept
<1> QED BY <1>1, CampaignInvariant, PTL

-----------------------------------------------------------------------------
(* Tasks                                                                    *)
Rows == [status : Statuses \union {"absent"}, due : Dates, reason : BOOLEAN]

Patches == [pc : {"idle", "patch"}, id : Tasks \union {Keep}, status : Statuses, due : Dates,
            change : Changes \union {Idle.change}, unchanged : BOOLEAN]

\* What a patch has checked against a row nobody has written since.
Checked(r) ==
  (r.pc = "patch" /\ r.unchanged) =>
    /\ r.status = Given(r.change.status, task[r.id].status)
    /\ r.due = Given(r.change.due, task[r.id].due)
    /\ r.status = "blocked" => Given(r.change.reason, task[r.id].reason)

AllChecked == \A q \in Requests : Checked(req[q])

IInv == TypeOK /\ Acyclic /\ DatesInOrder /\ DoneStandsOnDone /\ BlockedSaysWhy /\ AllChecked

-----------------------------------------------------------------------------
(* Rows *)

LEMMA IdleTyped == Idle \in Patches /\ Absent \in Rows
BY TaskConstants DEF Idle, Absent, Patches, Rows, Statuses, Dates, NoDate

LEMMA ChangeTyped ==
  ASSUME NEW change \in Changes \union {Idle.change}
  PROVE change \in [status : Statuses \union {Keep}, due : Dates \union {Keep},
                    reason : BOOLEAN \union {Keep}]
BY TaskConstants DEF Idle

LEMMA PatchedTyped ==
  ASSUME TypeOK, NEW q \in Requests, req[q].pc = "patch"
  PROVE /\ req[q] \in Patches /\ req[q].id \in Tasks
        /\ Patched(req[q]) \in Rows /\ Patched(req[q]).status # "absent"
<1> DEFINE r == req[q]
<1>1. r \in Patches /\ r.id \in Tasks /\ task[r.id].status # "absent"
  BY DEF TypeOK, Patches, Exists
<1>2. r.change \in [status : Statuses \union {Keep}, due : Dates \union {Keep},
                    reason : BOOLEAN \union {Keep}]
  BY <1>1, ChangeTyped DEF Patches
<1>3. task[r.id] \in Rows
  BY <1>1 DEF TypeOK, Rows
<1>4. Given(r.change.status, task[r.id].status) \in Statuses
  BY <1>1, <1>2, <1>3 DEF Given, Rows
<1>5. Given(r.change.due, task[r.id].due) \in Dates
  BY <1>2, <1>3 DEF Given, Rows
<1>6. Given(r.change.reason, task[r.id].reason) \in BOOLEAN
  BY <1>2, <1>3 DEF Given, Rows
<1> QED BY <1>1, <1>4, <1>5, <1>6 DEF Patched, Rows, Statuses

\* A row keeps existing once it does, so no edge loses an end.
LEMMA SaveTyped ==
  ASSUME TypeOK, NEW t \in Tasks, NEW new \in Rows, new.status # "absent",
         NEW others \in [Requests -> Patches],
         \A q \in Requests : others[q].pc = "patch" => others[q].id \in {s \in Tasks : Exists(s)},
         Save(t, new, others), UNCHANGED edges
  PROVE TypeOK'
<1>1. task' \in [Tasks -> Rows]
  BY DEF TypeOK, Save, Rows
<1>2. \A s \in Tasks : Exists(s) => Exists(s)'
  BY DEF TypeOK, Save, Exists
<1>3. edges' \subseteq {s \in Tasks : Exists(s)'} \X {s \in Tasks : Exists(s)'}
  BY <1>2 DEF TypeOK
<1>4. ASSUME NEW q \in Requests
      PROVE /\ req'[q] \in Patches
            /\ req'[q].pc = "patch" => req'[q].id \in {s \in Tasks : Exists(s)'}
  BY <1>2 DEF Save, Patches
<1>5. req' = [q \in Requests |-> req'[q]]
  BY DEF Save
<1>6. req' \in [Requests -> Patches]
  BY <1>4, <1>5
<1> QED BY <1>1, <1>3, <1>4, <1>6 DEF TypeOK, Rows, Patches, Exists

LEMMA RequestsTyped ==
  ASSUME TypeOK
  PROVE /\ req \in [Requests -> Patches]
        /\ \A q \in Requests : req[q].pc = "patch" => req[q].id \in {t \in Tasks : Exists(t)}
BY DEF TypeOK, Patches

LEMMA RowTyped ==
  ASSUME NEW row \in Rows, NEW status \in Statuses, NEW reason \in BOOLEAN
  PROVE [row EXCEPT !.status = status, !.reason = reason] \in Rows
<1> DEFINE first == [row EXCEPT !.status = status]
<1>1. first \in Rows
  BY DEF Rows
<1>2. [first EXCEPT !.reason = reason] \in Rows
  <2> HIDE DEF first
  <2> QED BY <1>1 DEF Rows
<1>3. [row EXCEPT !.status = status, !.reason = reason] = [first EXCEPT !.reason = reason]
  OBVIOUS
<1> QED BY <1>2, <1>3

\* The rows a step of the Manager writes.
LEMMA ManagerTyped ==
  ASSUME TypeOK, NEW t \in Tasks, Manager(t)
  PROVE TypeOK'
<1>0. task[t] \in Rows /\ {"done", "open", "blocked"} \subseteq Statuses
  BY DEF TypeOK, Rows, Statuses
<1>1. CASE ManagerComplete(t)
  <2>1. [task[t] EXCEPT !.status = "done", !.reason = FALSE] \in Rows
    BY <1>0, RowTyped
  <2> QED BY <1>1, <2>1, SaveTyped, RequestsTyped DEF ManagerComplete, TypeOK, Rows
<1>2. CASE ManagerStart(t)
  <2>1. [task[t] EXCEPT !.status = "open", !.reason = FALSE] \in Rows
    BY <1>0, RowTyped
  <2> QED BY <1>2, <2>1, SaveTyped, RequestsTyped DEF ManagerStart, TypeOK, Rows
<1>3. CASE ManagerBlock(t)
  <2>1. [task[t] EXCEPT !.status = "blocked", !.reason = TRUE] \in Rows
    BY <1>0, RowTyped
  <2> QED BY <1>3, <2>1, SaveTyped, RequestsTyped DEF ManagerBlock, TypeOK, Rows
<1>4. ASSUME NEW due \in Dates, ManagerReschedule(t, due) PROVE TypeOK'
  <2>1. [task[t] EXCEPT !.due = due] \in Rows
    BY DEF TypeOK, Rows
  <2>2. [task[t] EXCEPT !.due = due].status # "absent"
    BY <1>4 DEF ManagerReschedule, TypeOK
  <2> QED BY <1>4, <2>1, <2>2, SaveTyped, RequestsTyped DEF ManagerReschedule
<1> QED BY <1>1, <1>2, <1>3, <1>4 DEF Manager

LEMMA TypeStep == TypeOK /\ [Next]_vars => TypeOK'
<1> SUFFICES ASSUME TypeOK, [Next]_vars PROVE TypeOK'
  OBVIOUS
<1>1. ASSUME NEW t \in Tasks, NEW status \in Statuses, NEW due \in Dates, Create(t, status, due)
      PROVE TypeOK'
  <2>1. [status |-> status, due |-> due, reason |-> status = "blocked"] \in Rows
    BY DEF Rows
  <2> QED BY <1>1, <2>1, SaveTyped, RequestsTyped DEF Create, Statuses
<1>2. ASSUME NEW t \in Tasks, NEW p \in Tasks, AddPrerequisite(t, p) PROVE TypeOK'
  BY <1>2 DEF AddPrerequisite, TypeOK, Exists
<1>3. ASSUME NEW t \in Tasks, NEW p \in Tasks, RemovePrerequisite(t, p) PROVE TypeOK'
  BY <1>3 DEF RemovePrerequisite, TypeOK, Exists
<1>4. ASSUME NEW q \in Requests, NEW t \in Tasks, NEW change \in Changes, PatchRead(q, t, change)
      PROVE TypeOK'
  <2> DEFINE status == Given(change.status, task[t].status)
             due == Given(change.due, task[t].due)
             r == [pc |-> "patch", id |-> t, status |-> status, due |-> due,
                   change |-> change, unchanged |-> TRUE]
  <2>1. change \in [status : Statuses \union {Keep}, due : Dates \union {Keep},
                    reason : BOOLEAN \union {Keep}]
    BY TaskConstants
  <2>2. status \in Statuses /\ due \in Dates
    BY <1>4, <2>1 DEF PatchRead, Exists, TypeOK, Given
  <2>3. r \in Patches
    BY <2>2 DEF Patches
  <2>4. req' = [req EXCEPT ![q] = r] /\ UNCHANGED <<task, edges>>
    BY <1>4 DEF PatchRead
  <2>5. req' \in [Requests -> Patches]
    BY <2>3, <2>4, RequestsTyped
  <2>6. \A c \in Requests : req'[c].pc = "patch" => req'[c].id \in {s \in Tasks : Exists(s)}
    BY <1>4, <2>4, RequestsTyped DEF PatchRead
  <2> QED BY <2>4, <2>5, <2>6 DEF TypeOK, Patches, Exists
<1>5. ASSUME NEW q \in Requests, PatchWrite(q) PROVE TypeOK'
  <2> DEFINE others == [req EXCEPT ![q] = Idle]
  <2>1. req[q].pc = "patch" /\ Save(req[q].id, Patched(req[q]), others) /\ UNCHANGED edges
    BY <1>5 DEF PatchWrite
  <2>2. Patched(req[q]) \in Rows /\ Patched(req[q]).status # "absent" /\ req[q].id \in Tasks
    BY <2>1, PatchedTyped
  <2>3. others \in [Requests -> Patches]
    BY IdleTyped, RequestsTyped
  <2>4. \A c \in Requests : others[c].pc = "patch" => others[c].id \in {s \in Tasks : Exists(s)}
    BY RequestsTyped DEF Idle
  <2> HIDE DEF others
  <2> QED BY <2>1, <2>2, <2>3, <2>4, SaveTyped
<1>6. ASSUME NEW q \in Requests, GiveUp(q) PROVE TypeOK'
  <2>1. req' \in [Requests -> Patches]
    BY <1>6, IdleTyped, RequestsTyped DEF GiveUp
  <2>2. \A c \in Requests : req'[c].pc = "patch" => req'[c].id \in {s \in Tasks : Exists(s)}
    BY <1>6, RequestsTyped DEF GiveUp, Idle
  <2> QED BY <1>6, <2>1, <2>2 DEF GiveUp, TypeOK, Patches, Exists
<1>7. CASE UNCHANGED vars
  BY <1>7 DEF vars, TypeOK, Exists
<1> QED BY <1>1, <1>2, <1>3, <1>4, <1>5, <1>6, <1>7, ManagerTyped DEF Next

-----------------------------------------------------------------------------
(* What is written *)

\* A row fits beside its neighbours and says why it is blocked.
SuitsTask(t, new) ==
  /\ new.status # "absent"
  /\ DatesFit(t, new.due)
  /\ StatusFits(t, new.status)
  /\ new.status = "blocked" <=> new.reason

\* A row is written that fits, and no request is opened.
Written ==
  /\ UNCHANGED edges
  /\ \E t \in Tasks, new \in Rows, others \in [Requests -> Patches] :
       /\ Save(t, new, others)
       /\ SuitsTask(t, new)
       /\ \A q \in Requests : others[q] \in {req[q], Idle}

\* The dates and the status a row has already fit.
LEMMA AsItIsFits ==
  ASSUME TypeOK, DatesInOrder, DoneStandsOnDone, NEW t \in Tasks
  PROVE DatesFit(t, task[t].due) /\ StatusFits(t, task[t].status) /\ DatesFit(t, NoDate)
<1>1. \A p \in Prerequisites(t) : <<t, p>> \in edges
  BY DEF Prerequisites
<1>2. \A d \in Dependents(t) : <<d, t>> \in edges
  BY DEF Dependents
<1>3. DatesFit(t, task[t].due)
  BY <1>1, <1>2 DEF DatesFit, DatesInOrder
<1>4. StatusFits(t, task[t].status)
  BY <1>1, <1>2 DEF StatusFits, DoneStandsOnDone
<1> QED BY <1>3, <1>4 DEF DatesFit, InOrder

LEMMA CreateWrites ==
  ASSUME TypeOK, NEW t \in Tasks, NEW status \in Statuses, NEW due \in Dates,
         Create(t, status, due)
  PROVE Written
<1> DEFINE new == [status |-> status, due |-> due, reason |-> status = "blocked"]
<1>1. new \in Rows /\ new.status # "absent" /\ (new.status = "blocked" <=> new.reason)
  BY DEF Rows, Statuses
<1>2. Prerequisites(t) = {} /\ Dependents(t) = {}
  BY DEF Create, Prerequisites, Dependents, TypeOK
<1>3. SuitsTask(t, new)
  BY <1>1, <1>2 DEF SuitsTask, DatesFit, StatusFits
<1>4. Save(t, new, req) /\ UNCHANGED edges
  BY DEF Create
<1> QED BY <1>1, <1>3, <1>4, RequestsTyped DEF Written

LEMMA PatchWrites ==
  ASSUME TypeOK, AllChecked, BlockedSaysWhy, NEW q \in Requests, PatchWrite(q)
  PROVE Written
<1> DEFINE r == req[q]
           new == Patched(r)
           others == [req EXCEPT ![q] = Idle]
<1>1. /\ r.pc = "patch" /\ StatusFits(r.id, r.status) /\ DatesFit(r.id, r.due) /\ r.unchanged
      /\ Save(r.id, new, others) /\ UNCHANGED edges
  BY DEF PatchWrite, Unchanged
<1>2. r \in Patches /\ r.id \in Tasks /\ new \in Rows /\ new.status # "absent"
  BY <1>1, PatchedTyped
<1>3. /\ r.status = new.status /\ r.due = new.due
      /\ r.status = "blocked" => Given(r.change.reason, task[r.id].reason)
  BY <1>1 DEF AllChecked, Checked, Patched
<1>4. new.status = "blocked" <=> new.reason
  <2>1. new.reason = IF r.status = "blocked" THEN Given(r.change.reason, task[r.id].reason) ELSE FALSE
    BY DEF Patched
  <2> QED BY <2>1, <1>3
<1>5. SuitsTask(r.id, new)
  BY <1>1, <1>2, <1>3, <1>4 DEF SuitsTask
<1>6. others \in [Requests -> Patches] /\ \A c \in Requests : others[c] \in {req[c], Idle}
  BY IdleTyped, RequestsTyped
<1> QED
  <2> HIDE DEF r, new, others
  <2> QED BY <1>1, <1>2, <1>5, <1>6 DEF Written

LEMMA ManagerWrites ==
  ASSUME IInv, NEW t \in Tasks, Manager(t)
  PROVE Written
<1> USE DEF IInv
<1>0. task[t] \in Rows /\ {"done", "open", "blocked"} \subseteq Statuses
  BY DEF TypeOK, Rows, Statuses
<1>1. CASE ManagerComplete(t)
  <2> DEFINE new == [task[t] EXCEPT !.status = "done", !.reason = FALSE]
  <2>1. new \in Rows
    BY <1>0, RowTyped
  <2>2. new.status = "done" /\ new.reason = FALSE /\ new.due = task[t].due
    BY <1>0 DEF Rows
  <2>3. Save(t, new, req) /\ UNCHANGED edges /\ StatusFits(t, "done")
    BY <1>1 DEF ManagerComplete, StatusFits
  <2> HIDE DEF new
  <2>4. SuitsTask(t, new)
    BY <2>2, <2>3, AsItIsFits DEF SuitsTask
  <2> QED BY <2>1, <2>3, <2>4, RequestsTyped DEF Written
<1>2. CASE ManagerStart(t)
  <2> DEFINE new == [task[t] EXCEPT !.status = "open", !.reason = FALSE]
  <2>1. new \in Rows
    BY <1>0, RowTyped
  <2>2. new.status = "open" /\ new.reason = FALSE /\ new.due = task[t].due
    BY <1>0 DEF Rows
  <2>3. Save(t, new, req) /\ UNCHANGED edges /\ StatusFits(t, "open")
    BY <1>2 DEF ManagerStart, StatusFits
  <2> HIDE DEF new
  <2>4. SuitsTask(t, new)
    BY <2>2, <2>3, AsItIsFits DEF SuitsTask
  <2> QED BY <2>1, <2>3, <2>4, RequestsTyped DEF Written
<1>3. CASE ManagerBlock(t)
  <2> DEFINE new == [task[t] EXCEPT !.status = "blocked", !.reason = TRUE]
  <2>1. new \in Rows
    BY <1>0, RowTyped
  <2>2. new.status = "blocked" /\ new.reason = TRUE /\ new.due = task[t].due
    BY <1>0 DEF Rows
  <2>3. Save(t, new, req) /\ UNCHANGED edges /\ StatusFits(t, "blocked")
    BY <1>3 DEF ManagerBlock, StatusFits
  <2> HIDE DEF new
  <2>4. SuitsTask(t, new)
    BY <2>2, <2>3, AsItIsFits DEF SuitsTask
  <2> QED BY <2>1, <2>3, <2>4, RequestsTyped DEF Written
<1>4. ASSUME NEW due \in Dates, ManagerReschedule(t, due) PROVE Written
  <2> DEFINE new == [task[t] EXCEPT !.due = due]
  <2>1. new \in Rows
    BY <1>0 DEF Rows
  <2>2. new.status = task[t].status /\ new.reason = task[t].reason /\ new.due = due
    BY <1>0 DEF Rows
  <2>3. Save(t, new, req) /\ UNCHANGED edges /\ task[t].status # "absent" /\ DatesFit(t, due)
    BY <1>4, AsItIsFits DEF ManagerReschedule
  <2> HIDE DEF new
  <2>4. SuitsTask(t, new)
    BY <2>2, <2>3, AsItIsFits DEF SuitsTask, BlockedSaysWhy
  <2> QED BY <2>1, <2>3, <2>4, RequestsTyped DEF Written
<1> QED BY <1>1, <1>2, <1>3, <1>4 DEF Manager

\* Every step writes one row that fits, or changes one edge, or moves a request.
LEMMA Steps ==
  ASSUME IInv, [Next]_vars
  PROVE \/ Written
        \/ \E t, p \in Tasks : AddPrerequisite(t, p) \/ RemovePrerequisite(t, p)
        \/ \E q \in Requests, t \in Tasks, change \in Changes : PatchRead(q, t, change)
        \/ \E q \in Requests : GiveUp(q)
        \/ UNCHANGED vars
<1> USE DEF IInv
<1>1. ASSUME NEW t \in Tasks, NEW status \in Statuses, NEW due \in Dates, Create(t, status, due)
      PROVE Written
  BY <1>1, CreateWrites
<1>2. ASSUME NEW q \in Requests, PatchWrite(q) PROVE Written
  BY <1>2, PatchWrites
<1>3. ASSUME NEW t \in Tasks, Manager(t) PROVE Written
  BY <1>3, ManagerWrites
<1> QED BY <1>1, <1>2, <1>3 DEF Next

-----------------------------------------------------------------------------
(* What follows for each invariant *)

\* A search that is not cut short and does not meet the task adds no knot: a
\* knot with the new edge would have one without it, among what was visited or
\* beside it.
LEMMA NoNewKnot ==
  ASSUME TypeOK, Acyclic, NEW t \in Tasks, NEW p \in Tasks, AddPrerequisite(t, p)
  PROVE Acyclic'
<1>1. PICK scanned \in Scans : Cardinality(scanned) < ScanLimit /\ ~WouldCycle(t, p, scanned)
  BY DEF AddPrerequisite
<1>2. scanned = edges
  BY <1>1, TaskConstants DEF Scans
<1>3. PICK visited \in SUBSET Tasks : p \in visited /\ Closed(visited, edges) /\ t \notin visited
  BY <1>1, <1>2 DEF WouldCycle
<1>4. \A s \in Tasks : Prerequisites(s)' \subseteq Prerequisites(s) \union {p}
  BY DEF AddPrerequisite, Prerequisites
<1>5. \A s \in visited : Prerequisites(s)' = Prerequisites(s) /\ Prerequisites(s) \subseteq visited
  BY <1>3 DEF AddPrerequisite, Prerequisites, Closed
<1> SUFFICES ASSUME NEW knot \in (SUBSET Tasks) \ {{}}
             PROVE \E s \in knot : Prerequisites(s)' \intersect knot = {}
  BY DEF Acyclic
<1>6. CASE knot \intersect visited # {}
  <2>1. PICK s \in knot \intersect visited : Prerequisites(s) \intersect (knot \intersect visited) = {}
    BY <1>6 DEF Acyclic
  <2> QED BY <2>1, <1>5
<1>7. CASE knot \intersect visited = {}
  <2>1. PICK s \in knot : Prerequisites(s) \intersect knot = {}
    BY DEF Acyclic
  <2> QED BY <2>1, <1>3, <1>4, <1>7
<1> QED BY <1>6, <1>7

LEMMA FewerEdges ==
  ASSUME Acyclic, edges' \subseteq edges
  PROVE Acyclic'
<1>1. \A s \in Tasks : Prerequisites(s)' \subseteq Prerequisites(s)
  BY DEF Prerequisites
<1> QED BY <1>1 DEF Acyclic

LEMMA AcyclicStep == IInv /\ [Next]_vars => Acyclic'
<1> SUFFICES ASSUME IInv, [Next]_vars PROVE Acyclic'
  OBVIOUS
<1>1. ASSUME NEW t \in Tasks, NEW p \in Tasks, AddPrerequisite(t, p) PROVE Acyclic'
  BY <1>1, NoNewKnot DEF IInv
<1>2. CASE edges' \subseteq edges
  BY <1>2, FewerEdges DEF IInv
<1> QED BY <1>1, <1>2, Steps DEF Written, RemovePrerequisite, PatchRead, GiveUp, vars

LEMMA DatesStep == IInv /\ [Next]_vars => DatesInOrder'
<1> SUFFICES ASSUME IInv, [Next]_vars PROVE DatesInOrder'
  OBVIOUS
<1> USE DEF IInv
<1>1. CASE Written
  <2>1. PICK t \in Tasks, new \in Rows, others \in [Requests -> Patches] :
          Save(t, new, others) /\ SuitsTask(t, new)
    BY <1>1 DEF Written
  <2>2. new.due \in Int
    BY TaskConstants DEF Rows, Dates, NoDate
  <2>3. \A s \in Tasks : task'[s].due = IF s = t THEN new.due ELSE task[s].due
    BY <2>1 DEF Save, TypeOK
  <2>4. ASSUME NEW e \in edges PROVE InOrder(task'[e[2]].due, task'[e[1]].due)
    <3>1. e = <<e[1], e[2]>> /\ e[1] \in Tasks /\ e[2] \in Tasks
      BY DEF TypeOK
    <3>2. e[1] = t => InOrder(task[e[2]].due, new.due)
      BY <3>1, <2>1 DEF SuitsTask, DatesFit, Prerequisites
    <3>3. e[2] = t => InOrder(new.due, task[e[1]].due)
      BY <3>1, <2>1 DEF SuitsTask, DatesFit, Dependents
    <3>4. InOrder(new.due, new.due)
      BY <2>2 DEF InOrder
    <3> QED BY <3>1, <3>2, <3>3, <3>4, <2>3 DEF DatesInOrder
  <2> QED BY <2>4, <1>1 DEF DatesInOrder, Written
<1>2. ASSUME NEW t \in Tasks, NEW p \in Tasks, AddPrerequisite(t, p) PROVE DatesInOrder'
  BY <1>2 DEF AddPrerequisite, DatesInOrder
<1>3. CASE edges' \subseteq edges /\ UNCHANGED task
  BY <1>3 DEF DatesInOrder
<1> QED BY <1>1, <1>2, <1>3, Steps DEF RemovePrerequisite, PatchRead, GiveUp, vars

LEMMA DoneStep == IInv /\ [Next]_vars => DoneStandsOnDone'
<1> SUFFICES ASSUME IInv, [Next]_vars PROVE DoneStandsOnDone'
  OBVIOUS
<1> USE DEF IInv
<1>1. CASE Written
  <2>1. PICK t \in Tasks, new \in Rows, others \in [Requests -> Patches] :
          Save(t, new, others) /\ SuitsTask(t, new)
    BY <1>1 DEF Written
  <2>2. \A s \in Tasks : task'[s].status = IF s = t THEN new.status ELSE task[s].status
    BY <2>1 DEF Save, TypeOK
  <2>3. ASSUME NEW e \in edges, task'[e[1]].status = "done" PROVE task'[e[2]].status = "done"
    <3>1. e = <<e[1], e[2]>> /\ e[1] \in Tasks /\ e[2] \in Tasks
      BY DEF TypeOK
    <3>2. CASE e[1] = t /\ e[2] # t
      BY <3>1, <3>2, <2>1, <2>2, <2>3 DEF SuitsTask, StatusFits, Prerequisites
    <3>3. CASE e[2] = t /\ e[1] # t
      <4>1. e[1] \in Dependents(t) /\ task[e[1]].status = "done" /\ task[t].status = "done"
        BY <3>1, <3>3, <2>2, <2>3 DEF Dependents, DoneStandsOnDone
      <4> QED BY <4>1, <3>1, <3>3, <2>1, <2>2 DEF SuitsTask, StatusFits
    <3>4. CASE e[1] = t /\ e[2] = t
      BY <3>4, <2>3
    <3>5. CASE e[1] # t /\ e[2] # t
      BY <3>1, <3>5, <2>2, <2>3 DEF DoneStandsOnDone
    <3> QED BY <3>2, <3>3, <3>4, <3>5
  <2> QED BY <2>3, <1>1 DEF DoneStandsOnDone, Written
<1>2. ASSUME NEW t \in Tasks, NEW p \in Tasks, AddPrerequisite(t, p) PROVE DoneStandsOnDone'
  BY <1>2 DEF AddPrerequisite, DoneStandsOnDone
<1>3. CASE edges' \subseteq edges /\ UNCHANGED task
  BY <1>3 DEF DoneStandsOnDone
<1> QED BY <1>1, <1>2, <1>3, Steps DEF RemovePrerequisite, PatchRead, GiveUp, vars

LEMMA BlockedStep == IInv /\ [Next]_vars => BlockedSaysWhy'
<1> SUFFICES ASSUME IInv, [Next]_vars PROVE BlockedSaysWhy'
  OBVIOUS
<1> USE DEF IInv
<1>1. CASE Written
  BY <1>1 DEF Written, Save, SuitsTask, BlockedSaysWhy, TypeOK
<1>2. CASE UNCHANGED task
  BY <1>2 DEF BlockedSaysWhy
<1> QED BY <1>1, <1>2, Steps DEF AddPrerequisite, RemovePrerequisite, PatchRead, GiveUp, vars

\* A row that is written is no longer unchanged for any request that read it.
LEMMA CheckedStep == IInv /\ [Next]_vars => AllChecked'
<1> SUFFICES ASSUME IInv, [Next]_vars, NEW c \in Requests PROVE Checked(req[c])'
  BY DEF AllChecked
<1> USE DEF IInv
<1>0. Checked(req[c]) /\ req[c] \in Patches /\ (req[c].pc = "patch" => req[c].id \in Tasks)
  BY RequestsTyped DEF AllChecked
<1>1. CASE Written
  <2>1. PICK t \in Tasks, new \in Rows, others \in [Requests -> Patches] :
          Save(t, new, others) /\ others[c] \in {req[c], Idle}
    BY <1>1 DEF Written
  <2> DEFINE r == others[c]
  <2>2. req'[c] = [r EXCEPT !.unchanged = r.unchanged /\ r.id # t]
    BY <2>1 DEF Save
  <2>3. r \in Patches
    OBVIOUS
  <2>4. CASE r = Idle
    <3>1. req'[c].pc = "idle"
      BY <2>2, <2>3, <2>4 DEF Idle, Patches
    <3> QED BY <3>1 DEF Checked
  <2>5. CASE r = req[c]
    <3>1. /\ req'[c].pc = r.pc /\ req'[c].status = r.status /\ req'[c].due = r.due
          /\ req'[c].change = r.change /\ req'[c].id = r.id
          /\ req'[c].unchanged => r.unchanged /\ r.id # t
      BY <2>2, <2>3 DEF Patches
    <3>2. ASSUME r.pc = "patch", r.id # t PROVE task'[r.id] = task[r.id]
      BY <3>2, <2>1, <2>5, <1>0 DEF Save, TypeOK
    <3> QED BY <3>1, <3>2, <2>5, <1>0 DEF Checked
  <2> QED BY <2>1, <2>4, <2>5
<1>2. ASSUME NEW q \in Requests, NEW t \in Tasks, NEW change \in Changes, PatchRead(q, t, change)
      PROVE Checked(req[c])'
  <2>1. CASE c = q
    <3>1. /\ req'[c].id = t /\ req'[c].change = change
          /\ req'[c].status = Given(change.status, task[t].status)
          /\ req'[c].due = Given(change.due, task[t].due)
          /\ req'[c].status = "blocked" => Given(change.reason, task[t].reason)
          /\ task' = task
      BY <1>2, <2>1, RequestsTyped DEF PatchRead
    <3> QED BY <3>1 DEF Checked
  <2>2. CASE c # q
    BY <1>0, <1>2, <2>2 DEF PatchRead, Checked
  <2> QED BY <2>1, <2>2
<1>3. ASSUME NEW q \in Requests, GiveUp(q) PROVE Checked(req[c])'
  <2>1. req'[c] \in {req[c], Idle} /\ task' = task
    BY <1>3, RequestsTyped DEF GiveUp
  <2>2. Idle.pc # "patch"
    BY DEF Idle
  <2> QED BY <2>1, <2>2, <1>0 DEF Checked
<1>4. CASE UNCHANGED <<task, req>>
  BY <1>0, <1>4 DEF Checked
<1> QED BY <1>1, <1>2, <1>3, <1>4, Steps DEF AddPrerequisite, RemovePrerequisite, vars

-----------------------------------------------------------------------------
LEMMA InitHolds == Init => IInv
<1> SUFFICES ASSUME Init PROVE IInv
  OBVIOUS
<1>1. TypeOK
  <2>1. req \in [Requests -> Patches] /\ \A q \in Requests : req[q].pc = "idle"
    BY IdleTyped DEF Init, Idle
  <2>2. task \in [Tasks -> Rows]
    BY IdleTyped DEF Init
  <2> QED BY <2>1, <2>2 DEF Init, TypeOK, Rows, Patches
<1>2. Acyclic
  <2>1. \A t \in Tasks : Prerequisites(t) = {}
    BY DEF Init, Prerequisites
  <2>2. ASSUME NEW knot \in (SUBSET Tasks) \ {{}} PROVE \E t \in knot : Prerequisites(t) \intersect knot = {}
    <3>1. PICK t \in knot : t \in Tasks
      OBVIOUS
    <3> QED BY <3>1, <2>1
  <2> QED BY <2>2 DEF Acyclic
<1>3. DatesInOrder /\ DoneStandsOnDone
  BY DEF Init, DatesInOrder, DoneStandsOnDone
<1>4. BlockedSaysWhy
  BY DEF Init, BlockedSaysWhy, Absent
<1>5. AllChecked
  BY DEF Init, AllChecked, Checked, Idle
<1> QED BY <1>1, <1>2, <1>3, <1>4, <1>5 DEF IInv

LEMMA Inductive == Spec => []IInv
<1>1. IInv /\ [Next]_vars => IInv'
  BY TypeStep, AcyclicStep, DatesStep, DoneStep, BlockedStep, CheckedStep DEF IInv
<1> QED BY <1>1, InitHolds, PTL DEF Spec

\* Rows, prerequisites and open patches are well typed; an edge joins two tasks
\* that exist.
THEOREM TaskTypeCorrect == Spec => []TypeOK
<1>1. IInv => TypeOK
  BY DEF IInv
<1> QED BY <1>1, Inductive, PTL

\* However many tasks there are and whatever happens between requests,
\* prerequisites form no cycle (addPrerequisite, dependencyWouldCycle).
THEOREM AcyclicAlways == Spec => []Acyclic
<1>1. IInv => Acyclic
  BY DEF IInv
<1> QED BY <1>1, Inductive, PTL

\* No prerequisite is due after what it unlocks, and no task is done while a
\* prerequisite of it is not (patch, addPrerequisite, the Manager's update).
THEOREM PrerequisitesHoldAlways == Spec => []PrerequisitesHold
<1>1. IInv => PrerequisitesHold
  BY DEF IInv, PrerequisitesHold
<1> QED BY <1>1, Inductive, PTL

\* A task is blocked exactly when a reason is recorded; the compare-and-set on
\* updatedAt in patch is what this rests on.
THEOREM BlockedSaysWhyAlways == Spec => []BlockedSaysWhy
<1>1. IInv => BlockedSaysWhy
  BY DEF IInv
<1> QED BY <1>1, Inductive, PTL

-----------------------------------------------------------------------------
(* Running orders                                                           *)
Snapshots == [version : Nat, draft : Drafts]
Issues == {"none", "invalid-receipt", "save-unconfirmed", "save-conflict", "read-failed"}
EditorRows == [base : Snapshots, draft : Drafts, latest : Snapshots \union {None},
               pending : Snapshots \union {None}, issue : Issues]
Doings == [op : {"none", "save", "read"}, row : Snapshots \union {None}]
PatchRequests == [from : OpenEditors, version : Nat, draft : Drafts, late : BOOLEAN]

EditingTypeOK ==
  /\ saved \in [version : Nat, draft : Drafts, by : OpenEditors \union {None}]
  /\ editor \in [OpenEditors -> EditorRows]
  /\ doing \in [OpenEditors -> Doings]
  /\ page \in [OpenEditors -> Snapshots \union {None}]
  /\ wire \subseteq PatchRequests
  /\ reviewed \in [OpenEditors -> SUBSET Nat]

\* An answer somebody waits for is the one to what the editor still holds.
Awaited(m) ==
  /\ editor[m.from].pending = [version |-> m.version, draft |-> m.draft]
  /\ editor[m.from].draft = m.draft

\* What an editor builds on, and every version a request on its way names, is one
\* its author has had before them.
EditingInv ==
  /\ EditingTypeOK
  /\ \A e \in OpenEditors : doing[e].op = "read" => doing[e].row \in Snapshots
  /\ \A e \in OpenEditors : editor[e].base.version \in reviewed[e]
  /\ \A m \in wire : m.version \in reviewed[m.from] /\ (Waiting(m) => Awaited(m))

\* An editor may become `new` without its author's doing.
Follows(ed, new) ==
  /\ new \in EditorRows
  /\ Dirty(new) => new.base = ed.base

LEMMA SavedNowTyped == EditingTypeOK => SavedNow \in Snapshots
BY DEF EditingTypeOK, SavedNow, Snapshot, Snapshots

LEMMA OpenedTyped ==
  ASSUME NEW s \in Snapshots
  PROVE  Opened(s) \in EditorRows /\ ~Dirty(Opened(s)) /\ Opened(s).pending = None /\ Opened(s).draft = s.draft
BY DEF Opened, EditorRows, Snapshots, Issues, Dirty

\* A row that arrives leaves a draft with changes, or one being saved, as it is.
LEMMA ReceivedFollows ==
  ASSUME NEW ed \in EditorRows, NEW s, s = Garbled \/ s \in Snapshots
  PROVE  /\ Follows(ed, Received(ed, s))
         /\ Received(ed, s).pending = ed.pending
         /\ Dirty(ed) \/ ed.pending # None => Received(ed, s).draft = ed.draft
<1>1. ASSUME NEW issue \in Issues
      PROVE  /\ Follows(ed, [ed EXCEPT !.issue = issue])
             /\ [ed EXCEPT !.issue = issue].pending = ed.pending
             /\ [ed EXCEPT !.issue = issue].draft = ed.draft
  BY DEF Follows, EditorRows, Dirty
<1>2. CASE s = Garbled
  <2>1. Received(ed, s) = [ed EXCEPT !.issue = "invalid-receipt"]
    BY <1>2 DEF Received
  <2> QED BY <1>1, <2>1 DEF Issues
<1>3. CASE s # Garbled
  <2>1. Follows(ed, ed)
    BY DEF Follows
  <2>2. s \in Snapshots
    BY <1>3
  <2>3. /\ Follows(ed, Offered(ed, s))
        /\ Offered(ed, s).pending = ed.pending
        /\ Offered(ed, s).draft = ed.draft
    BY <2>2 DEF Follows, EditorRows, Issues, Dirty, Offered
  <2>4. CASE Newer(Known(ed), s)
    <3>1. Received(ed, s) = ed
      BY <2>4, <1>3 DEF Received
    <3> QED BY <2>1, <3>1
  <2>5. CASE ~Newer(Known(ed), s)
    <3>1. Received(ed, s) = IF s.version = Known(ed).version /\ s.draft # Known(ed).draft
                            THEN [ed EXCEPT !.issue = "invalid-receipt"]
                            ELSE IF Clean(ed) THEN Opened(s)
                            ELSE IF s.version = ed.base.version THEN [ed EXCEPT !.issue = "none"]
                            ELSE Offered(ed, s)
      BY <2>5, <1>3 DEF Received
    <3>2. CASE Clean(ed)
      <4>1. /\ Follows(ed, Opened(s))
            /\ Opened(s).pending = ed.pending
            /\ ~Dirty(ed) /\ ed.pending = None
        BY <3>2, <2>2, OpenedTyped DEF Follows, Clean
      <4> QED BY <1>1, <3>1, <3>2, <4>1 DEF Issues
    <3>3. CASE ~Clean(ed)
      BY <1>1, <2>3, <3>1, <3>3 DEF Issues
    <3> QED BY <3>2, <3>3
  <2> QED BY <2>4, <2>5
<1> QED BY <1>2, <1>3

LEMMA StopsSaving ==
  ASSUME NEW ed \in EditorRows, NEW issue \in Issues
  PROVE  LET new == [ed EXCEPT !.pending = None, !.issue = issue]
         IN  new \in EditorRows /\ new.base = ed.base /\ new.draft = ed.draft /\ new.pending = None
BY DEF EditorRows

LEMMA UnconfirmedFollows ==
  ASSUME NEW ed \in EditorRows
  PROVE  /\ Follows(ed, Unconfirmed(ed))
         /\ Unconfirmed(ed).pending = None
         /\ Unconfirmed(ed).draft = ed.draft
         /\ Unconfirmed(ed).base = ed.base
BY StopsSaving DEF Follows, Issues, Unconfirmed

\* The answer to a save leaves the draft that was saved.
LEMMA SaveSucceededFollows ==
  ASSUME NEW ed \in EditorRows, ed.pending.draft = ed.draft, NEW s, s = Garbled \/ s \in Snapshots
  PROVE  /\ Follows(ed, SaveSucceeded(ed, s))
         /\ SaveSucceeded(ed, s).pending = None
         /\ SaveSucceeded(ed, s).draft = ed.draft
<1>1. CASE SaveSucceeded(ed, s) = Unconfirmed(ed)
  BY <1>1, UnconfirmedFollows
<1>2. CASE SaveSucceeded(ed, s) # Unconfirmed(ed)
  <2>1. /\ s \in Snapshots /\ s.draft = ed.draft
        /\ \E newest \in Snapshots \union {None} :
             SaveSucceeded(ed, s) = [Opened(s) EXCEPT !.latest = newest]
    <3>1. s # Garbled /\ s.draft = ed.pending.draft
      BY <1>2 DEF SaveSucceeded
    <3>2. ed.latest \in Snapshots \union {None}
      BY DEF EditorRows
    <3>3. SaveSucceeded(ed, s) = [Opened(s) EXCEPT !.latest =
            IF ed.latest # None /\ Newer(ed.latest, s) THEN ed.latest ELSE None]
      BY <1>2 DEF SaveSucceeded
    <3> QED BY <3>1, <3>2, <3>3
  <2>2. PICK newest \in Snapshots \union {None} : SaveSucceeded(ed, s) = [Opened(s) EXCEPT !.latest = newest]
    BY <2>1
  <2>3. Opened(s) \in EditorRows /\ ~Dirty(Opened(s)) /\ Opened(s).pending = None /\ Opened(s).draft = s.draft
    BY <2>1, OpenedTyped
  <2>4. LET new == [Opened(s) EXCEPT !.latest = newest]
        IN  new \in EditorRows /\ ~Dirty(new) /\ new.pending = None /\ new.draft = s.draft
    BY <2>3 DEF EditorRows, Dirty
  <2> QED BY <2>1, <2>2, <2>4 DEF Follows
<1> QED BY <1>1, <1>2

LEMMA EditingStart == ASSUME EditingConstants, EditingInit PROVE EditingInv
<1>1. PICK d \in Drafts \ Unfit : EditingFrom(d)
  BY DEF EditingInit
<1>2. SavedNow \in Snapshots /\ SavedNow.version = 1
  BY <1>1 DEF EditingFrom, SavedNow, Snapshot, Snapshots
<1>3. /\ Opened(SavedNow) \in EditorRows /\ Opened(SavedNow).base.version = 1
      /\ Resting \in Doings /\ Resting.op = "none"
  BY <1>2, OpenedTyped DEF Opened, Resting, Doings
<1>4. EditingTypeOK
  BY <1>1, <1>3 DEF EditingFrom, EditingTypeOK
<1>5. \A e \in OpenEditors : editor[e] = Opened(SavedNow) /\ doing[e] = Resting /\ reviewed[e] = {1}
  BY <1>1 DEF EditingFrom
<1> QED BY <1>1, <1>3, <1>4, <1>5 DEF EditingInv, EditingFrom

LEMMA BecomesReviewed ==
  ASSUME EditingInv, NEW e \in OpenEditors, NEW new, Becomes(e, new), Follows(editor[e], new)
  PROVE  /\ new \in EditorRows /\ editor' = [editor EXCEPT ![e] = new]
         /\ reviewed' \in [OpenEditors -> SUBSET Nat]
         /\ \A x \in OpenEditors : reviewed[x] \subseteq reviewed'[x]
         /\ new.base.version \in reviewed'[e]
<1>1. new.base.version \in Nat
  BY DEF Follows, EditorRows, Snapshots
<1>2. CASE Dirty(new)
  <2>1. reviewed' = [reviewed EXCEPT ![e] = reviewed[e]]
    BY <1>2 DEF Becomes, Shows
  <2> QED BY <1>2, <2>1 DEF Becomes, Follows, EditingInv, EditingTypeOK
<1>3. CASE ~Dirty(new)
  <2>1. reviewed' = [reviewed EXCEPT ![e] = reviewed[e] \union {new.base.version}]
    BY <1>3 DEF Becomes, Shows
  <2> QED BY <1>1, <2>1 DEF Becomes, Follows, EditingInv, EditingTypeOK
<1> QED BY <1>2, <1>3

\* An editor changes; what somebody still waits for was sent before, and the editor
\* it answers still holds it.
LEMMA EditorKept ==
  ASSUME EditingInv, NEW e \in OpenEditors, NEW new \in EditorRows,
         editor' = [editor EXCEPT ![e] = new],
         reviewed' \in [OpenEditors -> SUBSET Nat],
         \A x \in OpenEditors : reviewed[x] \subseteq reviewed'[x],
         new.base.version \in reviewed'[e],
         wire' \subseteq PatchRequests,
         \A m \in wire' : m.version \in reviewed[m.from] /\ (~m.late => m \in wire),
         \A m \in wire' : m.from = e /\ ~m.late => new.pending = editor[e].pending /\ new.draft = editor[e].draft,
         doing' \in [OpenEditors -> Doings],
         \A x \in OpenEditors : doing'[x].op = "read" => doing[x].op = "read" /\ doing'[x].row = doing[x].row,
         page' \in [OpenEditors -> Snapshots \union {None}],
         saved' \in [version : Nat, draft : Drafts, by : OpenEditors \union {None}]
  PROVE  EditingInv'
<1>1. editor' \in [OpenEditors -> EditorRows]
  BY DEF EditingInv, EditingTypeOK
<1>2. EditingTypeOK'
  BY <1>1 DEF EditingInv, EditingTypeOK
<1>3. \A x \in OpenEditors : editor'[x].base.version \in reviewed'[x]
  BY DEF EditingInv, EditingTypeOK
<1>4. \A m \in wire' : m.version \in reviewed'[m.from] /\ (Waiting(m) => Awaited(m)')
  <2> TAKE m \in wire'
  <2>1. m.from \in OpenEditors
    BY DEF PatchRequests
  <2>2. m.version \in reviewed'[m.from]
    BY <2>1
  <2>3. ASSUME Waiting(m) PROVE Awaited(m)'
    <3>1. m \in wire /\ Awaited(m)
      BY <2>3 DEF EditingInv, Waiting
    <3> QED BY <2>1, <2>3, <3>1 DEF EditingInv, EditingTypeOK, Awaited, Waiting
  <2> QED BY <2>2, <2>3
<1>5. \A x \in OpenEditors : doing'[x].op = "read" => doing'[x].row \in Snapshots
  BY DEF EditingInv
<1> QED BY <1>2, <1>3, <1>4, <1>5 DEF EditingInv, Waiting

\* One editor has one request somebody waits for.
LEMMA OneAwaited ==
  ASSUME EditingInv, NEW m \in wire, NEW n \in wire, m.from = n.from, Waiting(m), Waiting(n)
  PROVE  m = n
<1>1. m \in PatchRequests /\ n \in PatchRequests
  BY DEF EditingInv, EditingTypeOK
<1>2. [version |-> m.version, draft |-> m.draft] = [version |-> n.version, draft |-> n.draft]
  BY DEF EditingInv, Awaited
<1>3. m.version = n.version /\ m.draft = n.draft
  BY <1>2
<1> QED BY <1>1, <1>3 DEF PatchRequests, Waiting

\* Nobody waits for an answer to an editor that saves nothing.
LEMMA NoneAwaited ==
  ASSUME EditingConstants, EditingInv, NEW e \in OpenEditors, editor[e].pending = None
  PROVE  \A m \in wire : Waiting(m) => m.from # e
<1> SUFFICES ASSUME NEW m \in wire, Waiting(m), m.from = e PROVE FALSE
  OBVIOUS
<1>1. [version |-> m.version, draft |-> m.draft] = None
  BY DEF EditingInv, Awaited
<1>2. [version |-> m.version, draft |-> m.draft] \in [version : Nat, draft : Drafts]
  BY DEF EditingInv, EditingTypeOK, PatchRequests
<1> QED BY <1>1, <1>2 DEF EditingConstants

LEMMA RestKept ==
  ASSUME EditingTypeOK, NEW e \in OpenEditors
  PROVE  LET rest == [doing EXCEPT ![e] = Resting]
         IN  /\ rest \in [OpenEditors -> Doings]
             /\ \A x \in OpenEditors : rest[x].op = "read" => doing[x].op = "read" /\ rest[x].row = doing[x].row
BY DEF EditingTypeOK, Resting, Doings

\* What a step of the editing spec keeps, and what both properties say of it.
Survives == EditingInv' /\ SavesReviewed /\ KeepsDraft

LEMMA EditKept == ASSUME EditingConstants, EditingInv, NEW e \in OpenEditors, NEW d \in Drafts, Edit(e, d) PROVE Survives
<1>1. /\ editor' = [editor EXCEPT ![e].draft = d] /\ editor[e].pending = None
      /\ UNCHANGED <<saved, doing, page, wire, reviewed>>
  BY DEF Edit, Editable
<1>2. editor' \in [OpenEditors -> EditorRows] /\ \A x \in OpenEditors : editor'[x].base = editor[x].base
  BY <1>1 DEF EditingInv, EditingTypeOK, EditorRows
<1>3. \A m \in wire : Waiting(m) => m.from # e
  BY <1>1, NoneAwaited
<1>4. \A m \in wire : Waiting(m) => Awaited(m)'
  BY <1>1, <1>3 DEF EditingInv, EditingTypeOK, PatchRequests, Awaited
<1>5. EditingTypeOK'
  BY <1>1, <1>2 DEF EditingInv, EditingTypeOK
<1>6. EditingInv'
  BY <1>1, <1>2, <1>4, <1>5 DEF EditingInv, Waiting
<1>7. KeepsDraft
  BY <1>1 DEF KeepsDraft, EditingInv, EditingTypeOK
<1> QED BY <1>1, <1>6, <1>7 DEF Survives, SavesReviewed

LEMMA ChooseKept ==
  ASSUME EditingConstants, EditingInv, NEW e \in OpenEditors, NEW choice \in {"use-latest", "keep-draft"},
         ChooseReviewed(e, choice)
  PROVE  Survives
<1> DEFINE latest == editor[e].latest
           new == [Opened(latest) EXCEPT !.draft = IF choice = "use-latest" THEN latest.draft ELSE editor[e].draft]
<1>1. /\ editor' = [editor EXCEPT ![e] = new] /\ editor[e].pending = None
      /\ reviewed' = [reviewed EXCEPT ![e] = reviewed[e] \union {latest.version}]
      /\ UNCHANGED <<saved, doing, page, wire>> /\ latest # None
  BY DEF ChooseReviewed, Editable
<1>2. latest \in Snapshots /\ latest.version \in Nat /\ latest.draft \in Drafts /\ editor[e].draft \in Drafts
  BY <1>1 DEF EditingInv, EditingTypeOK, EditorRows, Snapshots
<1>3. /\ new \in EditorRows /\ new.base = latest
      /\ choice # "use-latest" => new.draft = editor[e].draft
  BY <1>2, OpenedTyped DEF Opened, EditorRows
<1>4. \A m \in wire : Waiting(m) => m.from # e
  BY <1>1, NoneAwaited
<1> HIDE DEF latest, new
<1>5. EditingTypeOK'
  BY <1>1, <1>2, <1>3 DEF EditingInv, EditingTypeOK
<1>6. \A x \in OpenEditors : editor'[x].base.version \in reviewed'[x]
  BY <1>1, <1>3 DEF EditingInv, EditingTypeOK
<1>7. \A m \in wire : m.version \in reviewed'[m.from] /\ (Waiting(m) => Awaited(m)')
  BY <1>1, <1>4 DEF EditingInv, EditingTypeOK, PatchRequests, Awaited
<1>8. EditingInv'
  BY <1>1, <1>5, <1>6, <1>7 DEF EditingInv, Waiting
<1>9. KeepsDraft
  BY <1>1, <1>3 DEF KeepsDraft, EditingInv, EditingTypeOK
<1> QED BY <1>1, <1>8, <1>9 DEF Survives, SavesReviewed

LEMMA SendSaveKept == ASSUME EditingConstants, EditingInv, NEW e \in OpenEditors, SendSave(e) PROVE Survives
<1> DEFINE request == [version |-> editor[e].base.version, draft |-> editor[e].draft]
           sent == [from |-> e, version |-> request.version, draft |-> request.draft, late |-> FALSE]
<1>1. /\ editor' = [editor EXCEPT ![e].pending = request] /\ editor[e].pending = None
      /\ wire' = wire \union {sent}
      /\ doing' = [doing EXCEPT ![e].op = "save"]
      /\ UNCHANGED <<saved, page, reviewed>>
  BY DEF SendSave, Editable
<1>2. request \in Snapshots /\ sent \in PatchRequests
  BY DEF EditingInv, EditingTypeOK, EditorRows, Snapshots, PatchRequests
<1>3. \A m \in wire : Waiting(m) => m.from # e
  BY <1>1, NoneAwaited
<1>4. /\ sent.from = e /\ sent.version \in reviewed[e]
      /\ [version |-> sent.version, draft |-> sent.draft] = request /\ sent.draft = editor[e].draft
  BY DEF EditingInv
<1> HIDE DEF request, sent
<1>5. /\ editor' \in [OpenEditors -> EditorRows] /\ editor'[e].pending = request
      /\ \A x \in OpenEditors : editor'[x].base = editor[x].base /\ editor'[x].draft = editor[x].draft
  BY <1>1, <1>2 DEF EditingInv, EditingTypeOK, EditorRows
<1>6. /\ doing' \in [OpenEditors -> Doings]
      /\ \A x \in OpenEditors : doing'[x].op = "read" => doing'[x].row \in Snapshots
  BY <1>1 DEF EditingInv, EditingTypeOK, Doings
<1>7. EditingTypeOK'
  BY <1>1, <1>2, <1>5, <1>6 DEF EditingInv, EditingTypeOK
<1>8. \A m \in wire' : m.version \in reviewed'[m.from] /\ (Waiting(m) => Awaited(m)')
  <2> TAKE m \in wire'
  <2>1. CASE m = sent
    BY <1>1, <1>4, <1>5, <2>1 DEF Awaited
  <2>2. CASE m \in wire
    BY <1>1, <1>3, <2>2 DEF EditingInv, EditingTypeOK, PatchRequests, Awaited
  <2> QED BY <1>1, <2>1, <2>2
<1>9. EditingInv'
  BY <1>1, <1>5, <1>6, <1>7, <1>8 DEF EditingInv, Waiting
<1>10. KeepsDraft
  BY <1>5 DEF KeepsDraft
<1> QED BY <1>1, <1>9, <1>10 DEF Survives, SavesReviewed

\* Only what is on its way or under way moves.
LEMMA QuietKept ==
  ASSUME EditingInv, UNCHANGED <<saved, editor, wire, reviewed>>,
         doing' \in [OpenEditors -> Doings], page' \in [OpenEditors -> Snapshots \union {None}],
         \A e \in OpenEditors : doing'[e].op = "read" => doing'[e].row \in Snapshots
  PROVE  Survives
<1>1. EditingTypeOK'
  BY DEF EditingInv, EditingTypeOK
<1>2. \A m \in wire : Awaited(m) => Awaited(m)'
  BY DEF Awaited
<1>3. EditingInv'
  BY <1>1, <1>2 DEF EditingInv, Waiting
<1> QED BY <1>3 DEF Survives, SavesReviewed, KeepsDraft

LEMMA ReviewKept == ASSUME EditingInv, NEW e \in OpenEditors, ReviewLatest(e) PROVE Survives
<1>1. SavedNow \in Snapshots
  BY SavedNowTyped DEF EditingInv
<1>2. [op |-> "read", row |-> SavedNow] \in Doings
  BY <1>1 DEF Doings
<1>3. /\ doing' \in [OpenEditors -> Doings]
      /\ \A x \in OpenEditors : doing'[x].op = "read" => doing'[x].row \in Snapshots
  BY <1>1, <1>2 DEF ReviewLatest, EditingInv, EditingTypeOK
<1> QED BY <1>3, QuietKept DEF ReviewLatest, EditingInv, EditingTypeOK

LEMMA RefreshKept == ASSUME EditingInv, NEW e \in OpenEditors, Refresh(e) PROVE Survives
<1>1. SavedNow \in Snapshots
  BY SavedNowTyped DEF EditingInv
<1>2. page' \in [OpenEditors -> Snapshots \union {None}]
  BY <1>1 DEF Refresh, EditingInv, EditingTypeOK
<1> QED BY <1>2, QuietKept DEF Refresh, EditingInv, EditingTypeOK

\* A draft stays where the step changes one editor and keeps its draft.
LEMMA DraftStays ==
  ASSUME EditingTypeOK, NEW e \in OpenEditors, NEW new, editor' = [editor EXCEPT ![e] = new],
         Dirty(editor[e]) => new.draft = editor[e].draft
  PROVE  KeepsDraft
BY DEF KeepsDraft, EditingTypeOK

LEMMA ReopenKept == ASSUME EditingInv, NEW e \in OpenEditors, Reopen(e) PROVE Survives
<1> DEFINE new == Opened(SavedNow)
<1>1. SavedNow \in Snapshots
  BY SavedNowTyped DEF EditingInv
<1>2. Follows(editor[e], new) /\ Becomes(e, new)
  BY <1>1, OpenedTyped DEF Reopen, Follows
<1>3. /\ wire' = {[m EXCEPT !.late = m.late \/ m.from = e] : m \in wire}
      /\ UNCHANGED saved /\ doing' = [doing EXCEPT ![e] = Resting] /\ page' = [page EXCEPT ![e] = None]
  BY DEF Reopen
<1>4. page' \in [OpenEditors -> Snapshots \union {None}]
  BY <1>3 DEF EditingInv, EditingTypeOK
<1>5. wire \subseteq PatchRequests /\ \A m \in wire : m.version \in reviewed[m.from]
  BY DEF EditingInv, EditingTypeOK
<1>6. \A n \in wire' : /\ n \in PatchRequests /\ n.version \in reviewed[n.from]
                       /\ ~n.late => n \in wire /\ n.from # e
  <2> TAKE n \in wire'
  <2>1. PICK m \in wire : n = [m EXCEPT !.late = m.late \/ m.from = e]
    BY <1>3
  <2>2. m \in PatchRequests /\ m.version \in reviewed[m.from]
    BY <1>5
  <2>3. n \in PatchRequests /\ n.version = m.version /\ n.from = m.from /\ (n.late <=> m.late \/ m.from = e)
    BY <2>1, <2>2 DEF PatchRequests
  <2>4. ASSUME ~n.late PROVE n = m
    BY <2>1, <2>2, <2>3, <2>4 DEF PatchRequests
  <2> QED BY <2>2, <2>3, <2>4
<1> HIDE DEF new
<1>7. EditingInv'
  <2>1. /\ new \in EditorRows /\ editor' = [editor EXCEPT ![e] = new]
        /\ reviewed' \in [OpenEditors -> SUBSET Nat]
        /\ \A x \in OpenEditors : reviewed[x] \subseteq reviewed'[x]
        /\ new.base.version \in reviewed'[e]
    BY <1>2, BecomesReviewed
  <2>2. /\ doing' \in [OpenEditors -> Doings]
        /\ \A x \in OpenEditors : doing'[x].op = "read" => doing[x].op = "read" /\ doing'[x].row = doing[x].row
    BY <1>3, RestKept DEF EditingInv
  <2>3. saved' \in [version : Nat, draft : Drafts, by : OpenEditors \union {None}]
    BY <1>3 DEF EditingInv, EditingTypeOK
  <2>4. /\ wire' \subseteq PatchRequests
        /\ \A n \in wire' : n.version \in reviewed[n.from] /\ (~n.late => n \in wire)
        /\ \A n \in wire' : n.from = e /\ ~n.late => new.pending = editor[e].pending /\ new.draft = editor[e].draft
    BY <1>6
  <2> QED BY <1>4, <2>1, <2>2, <2>3, <2>4, EditorKept
<1>8. KeepsDraft
  BY <1>2 DEF KeepsDraft, Becomes, EditingInv, EditingTypeOK
<1> QED BY <1>3, <1>7, <1>8 DEF Survives, SavesReviewed

\* A row that is read, or comes with a refresh.
LEMMA RowArrives ==
  ASSUME EditingInv, NEW e \in OpenEditors, NEW s, s = Garbled \/ s \in Snapshots,
         Becomes(e, Received(editor[e], s)), UNCHANGED <<saved, wire>>,
         doing' \in [OpenEditors -> Doings],
         \A x \in OpenEditors : doing'[x].op = "read" => doing[x].op = "read" /\ doing'[x].row = doing[x].row,
         page' \in [OpenEditors -> Snapshots \union {None}]
  PROVE  EditingConstants => Survives
<1> DEFINE new == Received(editor[e], s)
<1> HAVE EditingConstants
<1>1. editor[e] \in EditorRows
  BY DEF EditingInv, EditingTypeOK
<1>2. /\ Follows(editor[e], new) /\ new.pending = editor[e].pending
      /\ Dirty(editor[e]) \/ editor[e].pending # None => new.draft = editor[e].draft
  BY <1>1, ReceivedFollows
<1>3. Becomes(e, new)
  OBVIOUS
<1> HIDE DEF new
<1>4. \A m \in wire : m.from = e /\ ~m.late => new.pending = editor[e].pending /\ new.draft = editor[e].draft
  BY <1>2, NoneAwaited DEF Waiting
<1>5. /\ wire' \subseteq PatchRequests
      /\ \A m \in wire' : m.version \in reviewed[m.from] /\ (~m.late => m \in wire)
      /\ saved' \in [version : Nat, draft : Drafts, by : OpenEditors \union {None}]
  BY DEF EditingInv, EditingTypeOK
<1>6. EditingInv'
  BY <1>2, <1>3, <1>4, <1>5, BecomesReviewed, EditorKept
<1>7. KeepsDraft
  BY <1>2, <1>3, DraftStays DEF Becomes, EditingInv
<1> QED BY <1>6, <1>7 DEF Survives, SavesReviewed

LEMMA LatestArrivesKept ==
  ASSUME EditingConstants, EditingInv, NEW e \in OpenEditors, NEW garbled \in BOOLEAN, LatestArrives(e, garbled)
  PROVE  Survives
<1> DEFINE s == IF garbled THEN Garbled ELSE doing[e].row
<1>1. s = Garbled \/ s \in Snapshots
  BY DEF LatestArrives, EditingInv
<1>2. /\ Becomes(e, Received(editor[e], s)) /\ UNCHANGED <<saved, wire, page>>
      /\ doing' = [doing EXCEPT ![e] = Resting]
  BY DEF LatestArrives
<1> HIDE DEF s
<1> QED BY <1>1, <1>2, RestKept, RowArrives DEF EditingInv, EditingTypeOK

LEMMA PropsArriveKept == ASSUME EditingConstants, EditingInv, NEW e \in OpenEditors, PropsArrive(e) PROVE Survives
<1>1. page[e] \in Snapshots /\ page' \in [OpenEditors -> Snapshots \union {None}]
  BY DEF PropsArrive, EditingInv, EditingTypeOK
<1>2. /\ doing' \in [OpenEditors -> Doings]
      /\ \A x \in OpenEditors : doing'[x].op = "read" => doing[x].op = "read" /\ doing'[x].row = doing[x].row
  BY DEF PropsArrive, EditingInv, EditingTypeOK
<1> QED BY <1>1, <1>2, RowArrives DEF PropsArrive

LEMMA OthersSaveKept == ASSUME EditingConstants, EditingInv, NEW d \in Drafts, OthersSave(d) PROVE Survives
<1>1. /\ saved' \in [version : Nat, draft : Drafts, by : OpenEditors \union {None}]
      /\ saved'.by = None /\ UNCHANGED <<editor, doing, page, wire, reviewed>>
  BY DEF OthersSave, EditingInv, EditingTypeOK
<1>2. EditingTypeOK'
  BY <1>1 DEF EditingInv, EditingTypeOK
<1>3. \A m \in wire : Awaited(m) => Awaited(m)'
  BY <1>1 DEF Awaited
<1>4. EditingInv'
  BY <1>1, <1>2, <1>3 DEF EditingInv, Waiting
<1> QED BY <1>1, <1>4 DEF Survives, SavesReviewed, KeepsDraft, EditingConstants

LEMMA LatestFailsKept == ASSUME EditingInv, NEW e \in OpenEditors, LatestFails(e) PROVE Survives
<1> DEFINE new == [editor[e] EXCEPT !.issue = "read-failed"]
<1>1. /\ editor' = [editor EXCEPT ![e] = new] /\ doing' = [doing EXCEPT ![e] = Resting]
      /\ UNCHANGED <<saved, page, wire, reviewed>>
  BY DEF LatestFails
<1>2. /\ new \in EditorRows /\ new.base = editor[e].base
      /\ new.pending = editor[e].pending /\ new.draft = editor[e].draft
  BY DEF EditingInv, EditingTypeOK, EditorRows, Issues
<1> HIDE DEF new
<1>3. /\ wire \subseteq PatchRequests /\ \A m \in wire : m.version \in reviewed[m.from]
      /\ reviewed \in [OpenEditors -> SUBSET Nat] /\ new.base.version \in reviewed[e]
      /\ page \in [OpenEditors -> Snapshots \union {None}]
      /\ saved \in [version : Nat, draft : Drafts, by : OpenEditors \union {None}]
  BY <1>2 DEF EditingInv, EditingTypeOK
<1>4. EditingInv'
  BY <1>1, <1>2, <1>3, RestKept, EditorKept DEF EditingInv
<1>5. KeepsDraft
  BY <1>1, <1>2, DraftStays DEF EditingInv
<1> QED BY <1>1, <1>4, <1>5 DEF Survives, SavesReviewed

\* The answer m is waited for: its editor stops saving, and keeps its draft.
LEMMA AnswerKept ==
  ASSUME EditingInv, NEW m \in wire, Waiting(m), NEW new \in EditorRows,
         editor' = [editor EXCEPT ![m.from] = new], new.draft = editor[m.from].draft,
         reviewed' \in [OpenEditors -> SUBSET Nat],
         \A x \in OpenEditors : reviewed[x] \subseteq reviewed'[x],
         new.base.version \in reviewed'[m.from],
         wire' \subseteq PatchRequests,
         \A n \in wire' : n.version \in reviewed[n.from] /\ (~n.late => n \in wire /\ n # m),
         doing' = [doing EXCEPT ![m.from] = Resting], UNCHANGED page,
         saved' \in [version : Nat, draft : Drafts, by : OpenEditors \union {None}]
  PROVE  EditingInv' /\ KeepsDraft
<1>1. m.from \in OpenEditors
  BY DEF EditingInv, EditingTypeOK, PatchRequests
<1>2. \A n \in wire' : ~n.late => n.from # m.from
  BY OneAwaited DEF Waiting
<1>3. /\ doing' \in [OpenEditors -> Doings]
      /\ \A x \in OpenEditors : doing'[x].op = "read" => doing[x].op = "read" /\ doing'[x].row = doing[x].row
  BY <1>1, RestKept DEF EditingInv
<1>4. page' \in [OpenEditors -> Snapshots \union {None}]
  BY DEF EditingInv, EditingTypeOK
<1>5. EditingInv'
  BY <1>1, <1>2, <1>3, <1>4, EditorKept
<1>6. KeepsDraft
  BY <1>1, DraftStays DEF EditingInv
<1> QED BY <1>5, <1>6

\* What is known of a request on its way, and of the others when it is taken off.
LEMMA TakenOff ==
  ASSUME EditingInv, NEW m \in wire
  PROVE  /\ m.from \in OpenEditors /\ m.version \in Nat /\ m.draft \in Drafts /\ m.late \in BOOLEAN
         /\ m.version \in reviewed[m.from] /\ editor[m.from] \in EditorRows
         /\ editor[m.from].base.version \in reviewed[m.from]
         /\ Waiting(m) => editor[m.from].pending.draft = editor[m.from].draft
         /\ reviewed \in [OpenEditors -> SUBSET Nat]
         /\ wire \ {m} \subseteq PatchRequests
         /\ \A n \in wire \ {m} : n.version \in reviewed[n.from] /\ (~n.late => n \in wire /\ n # m)
<1>1. m \in PatchRequests /\ m.from \in OpenEditors
  BY DEF EditingInv, EditingTypeOK, PatchRequests
<1>2. ASSUME Waiting(m) PROVE editor[m.from].pending.draft = editor[m.from].draft
  <2>1. /\ editor[m.from].pending = [version |-> m.version, draft |-> m.draft]
        /\ editor[m.from].draft = m.draft
    BY <1>2 DEF EditingInv, Awaited
  <2> QED BY <2>1
<1> QED BY <1>1, <1>2 DEF EditingInv, EditingTypeOK, PatchRequests

\* A save that the server applied and whose author waits for the answer.
LEMMA AppliedKept ==
  ASSUME EditingInv, NEW m \in wire, Waiting(m), NEW s, s = Garbled \/ s \in Snapshots,
         Becomes(m.from, SaveSucceeded(editor[m.from], s)),
         wire' = wire \ {m}, doing' = [doing EXCEPT ![m.from] = Resting], UNCHANGED page,
         saved' \in [version : Nat, draft : Drafts, by : OpenEditors \union {None}]
  PROVE  EditingInv' /\ KeepsDraft
<1> DEFINE new == SaveSucceeded(editor[m.from], s)
<1>1. Follows(editor[m.from], new) /\ new.draft = editor[m.from].draft
  BY TakenOff, SaveSucceededFollows
<1>2. Becomes(m.from, new)
  OBVIOUS
<1> HIDE DEF new
<1>3. /\ new \in EditorRows /\ editor' = [editor EXCEPT ![m.from] = new]
      /\ reviewed' \in [OpenEditors -> SUBSET Nat]
      /\ \A x \in OpenEditors : reviewed[x] \subseteq reviewed'[x]
      /\ new.base.version \in reviewed'[m.from]
  BY <1>1, <1>2, TakenOff, BecomesReviewed
<1> QED BY <1>1, <1>3, TakenOff, AnswerKept

\* The rest of the requests on their way when one that nobody waits for is taken off.
LEMMA LateKept ==
  ASSUME EditingInv, NEW m \in wire, wire' = wire \ {m}, UNCHANGED <<editor, doing, page, reviewed>>,
         saved' \in [version : Nat, draft : Drafts, by : OpenEditors \union {None}]
  PROVE  EditingInv' /\ KeepsDraft
<1>1. EditingTypeOK'
  BY DEF EditingInv, EditingTypeOK
<1>2. \A n \in wire : Awaited(n) => Awaited(n)'
  BY DEF Awaited
<1> QED BY <1>1, <1>2 DEF EditingInv, Waiting, KeepsDraft

LEMMA ApplyKept == ASSUME EditingConstants, EditingInv, NEW m \in wire, Apply(m) PROVE Survives
<1> DEFINE written == [version |-> saved.version + 1, draft |-> m.draft, by |-> m.from]
           refused == [editor[m.from] EXCEPT !.pending = None, !.issue = "save-conflict"]
<1>1. /\ written \in [version : Nat, draft : Drafts, by : OpenEditors \union {None}]
      /\ Snapshot(written.version, written.draft) \in Snapshots /\ written.by = m.from
      /\ saved \in [version : Nat, draft : Drafts, by : OpenEditors \union {None}]
  BY TakenOff DEF EditingInv, EditingTypeOK, Snapshot, Snapshots
<1>2. wire' = wire \ {m} /\ UNCHANGED page
  BY DEF Apply
<1>3. CASE m.version = saved.version
  <2>1. saved' = written
    BY <1>3 DEF Apply
  <2>2. SavesReviewed
    BY <1>1, <1>3, <2>1, TakenOff DEF SavesReviewed
  <2>3. CASE Waiting(m)
    <3>1. /\ Becomes(m.from, SaveSucceeded(editor[m.from], Snapshot(written.version, written.draft)))
          /\ doing' = [doing EXCEPT ![m.from] = Resting]
      BY <1>3, <2>3 DEF Apply
    <3> HIDE DEF written
    <3> QED BY <1>1, <1>2, <2>1, <2>2, <2>3, <3>1, AppliedKept DEF Survives
  <2>4. CASE ~Waiting(m)
    <3>1. UNCHANGED <<editor, doing, reviewed>>
      BY <1>3, <2>4 DEF Apply
    <3> QED BY <1>1, <1>2, <2>1, <2>2, <3>1, LateKept DEF Survives
  <2> QED BY <2>3, <2>4
<1>4. CASE m.version # saved.version
  <2>1. UNCHANGED <<saved, reviewed>>
    BY <1>4 DEF Apply
  <2>2. SavesReviewed
    BY <2>1 DEF SavesReviewed
  <2>3. CASE Waiting(m)
    <3>1. editor' = [editor EXCEPT ![m.from] = refused] /\ doing' = [doing EXCEPT ![m.from] = Resting]
      BY <1>4, <2>3 DEF Apply
    <3>2. refused \in EditorRows /\ refused.draft = editor[m.from].draft /\ refused.base = editor[m.from].base
      BY TakenOff, StopsSaving DEF Issues
    <3> HIDE DEF refused
    <3> QED BY <1>1, <1>2, <2>1, <2>2, <2>3, <3>1, <3>2, TakenOff, AnswerKept DEF Survives
  <2>4. CASE ~Waiting(m)
    <3>1. UNCHANGED <<editor, doing>>
      BY <1>4, <2>4 DEF Apply
    <3> QED BY <1>1, <1>2, <2>1, <2>2, <3>1, LateKept DEF Survives
  <2> QED BY <2>3, <2>4
<1> QED BY <1>3, <1>4

LEMMA ApplyGarbledKept == ASSUME EditingConstants, EditingInv, NEW m \in wire, ApplyGarbled(m) PROVE Survives
<1>1. /\ saved' = [version |-> saved.version + 1, draft |-> m.draft, by |-> m.from]
      /\ m.version = saved.version
  BY DEF ApplyGarbled
<1>2. saved' \in [version : Nat, draft : Drafts, by : OpenEditors \union {None}]
  BY <1>1, TakenOff DEF EditingInv, EditingTypeOK
<1>3. SavesReviewed
  BY <1>1, TakenOff DEF SavesReviewed
<1>4. EditingInv' /\ KeepsDraft
  BY <1>2, AppliedKept DEF ApplyGarbled
<1> QED BY <1>3, <1>4 DEF Survives

LEMMA InterruptKept ==
  ASSUME EditingConstants, EditingInv, NEW m \in wire, NEW lost \in BOOLEAN, Interrupt(m, lost)
  PROVE  Survives
<1> DEFINE new == Unconfirmed(editor[m.from])
           late == [m EXCEPT !.late = TRUE]
<1>1. /\ editor' = [editor EXCEPT ![m.from] = new] /\ doing' = [doing EXCEPT ![m.from] = Resting]
      /\ UNCHANGED <<saved, page, reviewed>> /\ Waiting(m)
      /\ wire' \subseteq (wire \ {m}) \union {late}
  BY DEF Interrupt
<1>2. new \in EditorRows /\ new.draft = editor[m.from].draft /\ new.base = editor[m.from].base
  BY TakenOff, UnconfirmedFollows DEF Follows
<1>3. late \in PatchRequests /\ late.version = m.version /\ late.from = m.from /\ late.late
  BY DEF EditingInv, EditingTypeOK, PatchRequests
<1> HIDE DEF new, late
<1>4. /\ wire' \subseteq PatchRequests
      /\ \A n \in wire' : n.version \in reviewed[n.from] /\ (~n.late => n \in wire /\ n # m)
  BY <1>1, <1>3, TakenOff
<1>5. saved' \in [version : Nat, draft : Drafts, by : OpenEditors \union {None}]
  BY <1>1 DEF EditingInv, EditingTypeOK
<1>6. EditingInv' /\ KeepsDraft
  BY <1>1, <1>2, <1>4, <1>5, TakenOff, AnswerKept
<1> QED BY <1>1, <1>6 DEF Survives, SavesReviewed

LEMMA EditingStep == ASSUME EditingConstants, EditingInv, [EditingNext]_editingVars PROVE Survives
<1>1. CASE UNCHANGED editingVars
  <2>1. EditingInv'
    BY <1>1 DEF editingVars, EditingInv, EditingTypeOK, Waiting, Awaited
  <2> QED BY <1>1, <2>1 DEF editingVars, Survives, SavesReviewed, KeepsDraft
<1>2. CASE EditingNext
  <2>1. ASSUME NEW e \in OpenEditors,
               \/ \E d \in Drafts : Edit(e, d)
               \/ \E choice \in {"use-latest", "keep-draft"} : ChooseReviewed(e, choice)
               \/ SendSave(e) \/ ReviewLatest(e) \/ Reopen(e)
        PROVE  Survives
    BY <2>1, EditKept, ChooseKept, SendSaveKept, ReviewKept, ReopenKept
  <2>2. ASSUME NEW e \in OpenEditors,
               \/ \E garbled \in BOOLEAN : LatestArrives(e, garbled)
               \/ LatestFails(e) \/ Refresh(e) \/ PropsArrive(e)
        PROVE  Survives
    BY <2>2, LatestArrivesKept, LatestFailsKept, RefreshKept, PropsArriveKept
  <2>3. ASSUME NEW m \in wire, Apply(m) \/ ApplyGarbled(m) \/ (\E lost \in BOOLEAN : Interrupt(m, lost))
        PROVE  Survives
    BY <2>3, ApplyKept, ApplyGarbledKept, InterruptKept
  <2>4. ASSUME NEW d \in Drafts, OthersSave(d) PROVE Survives
    BY <2>4, OthersSaveKept
  <2> QED BY <1>2, <2>1, <2>2, <2>3, <2>4 DEF EditingNext
<1> QED BY <1>1, <1>2

\* However many editors are open and whatever answers, refreshes and saves overtake
\* one another, no save replaces a version its author has not had before them, and a
\* draft with changes is replaced by its author only (patchSetlist, reduceSetlistDraft).
THEOREM DraftsSurviveAlways == ASSUME EditingConstants PROVE EditingSpec => DraftsSurvive
<1>1. EditingInit => EditingInv
  BY EditingStart
<1>2. EditingInv /\ [EditingNext]_editingVars => EditingInv'
  BY EditingStep DEF Survives
<1>3. EditingInv /\ [EditingNext]_editingVars => [SavesReviewed /\ KeepsDraft]_editingVars
  BY EditingStep DEF Survives
<1> QED BY <1>1, <1>2, <1>3, PTL DEF EditingSpec, DraftsSurvive

-----------------------------------------------------------------------------
(* Uploads                                                                  *)

Sureness == BOOLEAN
AssetRows == [status : {"absent", "uploading", "ready"}, key : Sureness, received : Nat]
Opening == {"new", "row", "file"}
TabRows == [at : Opening \union {"ready to send", "waiting", "failed", "stored"}, offset : Nat]
Ranges == [start : Nat, end : Nat]
CallRows ==
  [at : {"idle"}]
    \union [at : {"append"}, upload : Uploads, range : Ranges]
    \union [at : {"complete"}, upload : Uploads]
    \union [at : {"stat"}, upload : Uploads, range : Ranges, expects : Nat, expired : Sureness]
    \union [at : {"write"}, upload : Uploads, expired : Sureness, rest : Seq(Nat)]
    \union [at : {"save"}, upload : Uploads, expired : Sureness, size : Nat]
    \union [at : {"mark"}, upload : Uploads, expired : Sureness]

UploadTyped ==
  /\ asset \in [Uploads -> AssetRows]
  /\ file \in [Uploads -> Seq(Nat)]
  /\ tab \in [Uploads -> TabRows]
  /\ call \in [Calls -> CallRows]

\* The pieces of s are the first ones of the file that was sent.
Begins(s) == Len(s) <= Size /\ \A i \in 1..Len(s) : s[i] = i
\* A request that holds the lock of its upload.
Holds(c) == call[c].at \in {"stat", "write", "save", "mark"} /\ ~call[c].expired
Appends(c) == call[c].at \in {"stat", "write", "save"} /\ ~call[c].expired

\* Nothing is asked of an upload before it is open, what is asked starts where some
\* earlier answer said, and while one appends the browser waits for it.
CallOK(c) ==
  LET u == call[c].upload IN
  call[c].at # "idle" =>
    /\ tab[u].at \notin Opening
    /\ call[c].at = "append" =>
         /\ call[c].range.start < call[c].range.end /\ call[c].range.end <= Size
         /\ call[c].range.start <= asset[u].received
         /\ tab[u].at = "ready to send" => call[c].range.start < asset[u].received
    /\ call[c].at \in {"stat", "write"} /\ call[c].expired => u \in overran
    /\ Appends(c) => asset[u].status = "uploading" /\ tab[u].at # "ready to send"
    /\ Appends(c) /\ call[c].at = "stat" =>
         /\ call[c].range.start < call[c].range.end /\ call[c].range.end <= Size
         /\ call[c].range.start = asset[u].received /\ call[c].expects = asset[u].received
    /\ Appends(c) /\ call[c].at = "write" =>
         /\ Len(file[u]) + Len(call[c].rest) > asset[u].received
         /\ u \notin overran =>
              /\ Len(file[u]) + Len(call[c].rest) <= Size
              /\ \A i \in 1..Len(call[c].rest) : call[c].rest[i] = Len(file[u]) + i
    /\ Appends(c) /\ call[c].at = "save" => call[c].size > asset[u].received
    /\ Holds(c) /\ call[c].at = "mark" => u \in overran \/ Len(file[u]) = Size

UploadOK(u) ==
  /\ tab[u].at \in Opening =>
       ~asset[u].key /\ asset[u].received = 0 /\ tab[u].offset = 0 /\ asset[u].status # "ready"
  /\ tab[u].at \in {"ready to send", "waiting"} => tab[u].offset = asset[u].received
  /\ tab[u].at = "stored" => asset[u].status = "ready"
  /\ u \notin overran => /\ Begins(file[u])
                         /\ asset[u].status = "ready" => Len(file[u]) = Size

OneHolder == \A c, d \in Calls : Holds(c) /\ Holds(d) /\ call[c].upload = call[d].upload => c = d

UploadInv ==
  /\ UploadTyped
  /\ \A c \in Calls : CallOK(c)
  /\ \A u \in Uploads : UploadOK(u)
  /\ OneHolder

LEMMA CallFields ==
  ASSUME UploadTyped, NEW c \in Calls
  PROVE  /\ call[c].at = "append" => call[c].upload \in Uploads /\ call[c].range \in Ranges
         /\ call[c].at = "complete" => call[c].upload \in Uploads
         /\ call[c].at = "stat" => /\ call[c].upload \in Uploads /\ call[c].range \in Ranges
                                   /\ call[c].expects \in Nat /\ call[c].expired \in Sureness
         /\ call[c].at = "write" => /\ call[c].upload \in Uploads /\ call[c].expired \in Sureness
                                    /\ call[c].rest \in Seq(Nat)
         /\ call[c].at = "save" => call[c].upload \in Uploads /\ call[c].expired \in Sureness /\ call[c].size \in Nat
         /\ call[c].at = "mark" => call[c].upload \in Uploads /\ call[c].expired \in Sureness
         /\ call[c] = AtRest <=> call[c].at = "idle"
         /\ call[c].at \in {"idle", "append", "complete", "stat", "write", "save", "mark"}
BY DEF UploadTyped, CallRows, AtRest

LEMMA UploadFields ==
  ASSUME UploadTyped, NEW u \in Uploads
  PROVE  /\ asset[u] \in AssetRows /\ asset[u].received \in Nat
         /\ tab[u] \in TabRows /\ tab[u].offset \in Nat
         /\ file[u] \in Seq(Nat) /\ Len(file[u]) \in Nat
<1>1. asset[u] \in AssetRows /\ tab[u] \in TabRows /\ file[u] \in Seq(Nat)
  BY DEF UploadTyped
<1>2. asset[u].received \in Nat /\ tab[u].offset \in Nat
  BY <1>1 DEF AssetRows, TabRows
<1>3. Len(file[u]) \in Nat
  BY <1>1
<1> QED BY <1>1, <1>2, <1>3

LEMMA UploadStarts == ASSUME UploadConstants, UploadInit PROVE UploadInv
<1>1. [status |-> "absent", key |-> FALSE, received |-> 0] \in AssetRows
  BY DEF AssetRows, Sureness
<1>2. [at |-> "new", offset |-> 0] \in TabRows
  BY DEF TabRows, Opening
<1>3. AtRest \in CallRows /\ AtRest.at = "idle"
  BY DEF AtRest, CallRows
<1>4. UploadTyped
  BY <1>1, <1>2, <1>3 DEF UploadInit, UploadTyped
<1>5. \A c \in Calls : CallOK(c)
  BY <1>3 DEF UploadInit, CallOK
<1>6. \A u \in Uploads : UploadOK(u)
  <2> SUFFICES ASSUME NEW u \in Uploads PROVE UploadOK(u)
    OBVIOUS
  <2>1. /\ asset[u] = [status |-> "absent", key |-> FALSE, received |-> 0]
        /\ tab[u] = [at |-> "new", offset |-> 0] /\ file[u] = <<>>
    BY DEF UploadInit
  <2>2. Begins(file[u])
    BY <2>1 DEF Begins, UploadConstants
  <2> QED BY <2>1, <2>2 DEF UploadOK, Opening
<1>7. OneHolder
  BY <1>3 DEF UploadInit, OneHolder, Holds
<1> QED BY <1>4, <1>5, <1>6, <1>7 DEF UploadInv

\* What is asked stands while the upload keeps its row and its file, and its browser is
\* told nothing that lets it go on.
Calm(u) ==
  /\ asset'[u].received = asset[u].received /\ asset'[u].status = asset[u].status
  /\ file'[u] = file[u]
  /\ u \in overran => u \in overran'
  /\ tab'[u].at = tab[u].at \/ tab'[u].at \notin Opening \union {"ready to send"}

LEMMA CallStays ==
  ASSUME NEW d, call'[d] = call[d], CallOK(d), Calm(call[d].upload)
  PROVE  CallOK(d)'
BY DEF CallOK, Calm, Appends, Holds, Opening

LEMMA UploadStays ==
  ASSUME NEW u, UploadOK(u), Calm(u), asset'[u].key = asset[u].key,
         \/ tab'[u].at = "failed"
         \/ tab'[u].offset = tab[u].offset
            /\ (tab'[u].at = tab[u].at \/ (tab'[u].at = "waiting" /\ tab[u].at = "ready to send"))
  PROVE  UploadOK(u)'
BY DEF UploadOK, Calm, Opening

\* Request c moves on; the browser may stop waiting.
LEMMA CallMoves ==
  ASSUME UploadInv, NEW c \in Calls, call' \in [Calls -> CallRows],
         \A d \in Calls : d # c => call'[d] = call[d],
         UNCHANGED <<asset, file>>, overran \subseteq overran', tab' \in [Uploads -> TabRows],
         \A u \in Uploads :
           \/ tab'[u].at = "failed" /\ tab[u].at \notin Opening
           \/ tab'[u].offset = tab[u].offset
              /\ (tab'[u].at = tab[u].at \/ (tab'[u].at = "waiting" /\ tab[u].at = "ready to send")),
         CallOK(c)',
         Holds(c)' => \A d \in Calls : Holds(d) /\ call[d].upload = call'[c].upload => d = c
  PROVE  UploadInv'
<1>1. UploadTyped /\ call \in [Calls -> CallRows]
  BY DEF UploadInv, UploadTyped
<1>2. UploadTyped'
  BY <1>1 DEF UploadTyped
<1>3. \A u \in Uploads : Calm(u) /\ asset'[u].key = asset[u].key
  BY DEF Calm, Opening
<1>4. \A u \in Uploads : UploadOK(u)'
  BY <1>3, UploadStays DEF UploadInv
<1>5. ASSUME NEW d \in Calls PROVE CallOK(d)'
  <2>1. CASE d = c
    BY <2>1
  <2>2. CASE d # c /\ call[d].at = "idle"
    BY <2>2 DEF CallOK
  <2>3. CASE d # c /\ call[d].at # "idle"
    <3>1. call[d].upload \in Uploads
      BY <1>1, <2>3, CallFields
    <3> QED BY <1>3, <2>3, <3>1, CallStays DEF UploadInv
  <2> QED BY <2>1, <2>2, <2>3
<1>6. OneHolder'
  <2> SUFFICES ASSUME NEW d \in Calls, NEW e \in Calls, Holds(d)', Holds(e)', call'[d].upload = call'[e].upload
               PROVE  d = e
    BY DEF OneHolder
  <2>1. \A x \in Calls : x # c => Holds(x)' = Holds(x)
    BY DEF Holds
  <2> QED BY <2>1 DEF OneHolder, UploadInv
<1> QED BY <1>2, <1>4, <1>5, <1>6 DEF UploadInv

LEMMA IdleCall == AtRest \in CallRows /\ AtRest.at = "idle"
BY DEF AtRest, CallRows

LEMMA CallEnds ==
  ASSUME UploadInv, NEW c \in Calls, call' = [call EXCEPT ![c] = AtRest],
         UNCHANGED <<asset, file, overran, tab>>
  PROVE  UploadInv'
<1>1. call \in [Calls -> CallRows] /\ tab \in [Uploads -> TabRows]
  BY DEF UploadInv, UploadTyped
<1>2. /\ call'[c].at = "idle" /\ call' \in [Calls -> CallRows]
      /\ \A d \in Calls : d # c => call'[d] = call[d]
  BY <1>1, IdleCall
<1>3. CallOK(c)' /\ ~Holds(c)'
  BY <1>2 DEF CallOK, Holds
<1> QED BY <1>1, <1>2, <1>3, CallMoves

LEMMA CallRefused ==
  ASSUME UploadInv, NEW c \in Calls, call[c].at # "idle", Refuse(c), UNCHANGED <<asset, file, overran>>
  PROVE  UploadInv'
<1> DEFINE u == call[c].upload
<1>1. UploadTyped /\ call \in [Calls -> CallRows] /\ tab \in [Uploads -> TabRows] /\ CallOK(c)
  BY DEF UploadInv, UploadTyped
<1>2. u \in Uploads
  BY <1>1, CallFields
<1>3. call' = [call EXCEPT ![c] = AtRest]
  BY DEF Refuse
<1>4. /\ call'[c].at = "idle" /\ call' \in [Calls -> CallRows]
      /\ \A d \in Calls : d # c => call'[d] = call[d]
  BY <1>1, <1>3, IdleCall
<1>5. CallOK(c)' /\ ~Holds(c)'
  BY <1>4 DEF CallOK, Holds
<1>6. tab' = tab \/ (tab[u].at = "waiting" /\ tab' = [tab EXCEPT ![u] = [at |-> "failed", offset |-> tab[u].offset]])
  BY DEF Refuse, Told
<1>7. [at |-> "failed", offset |-> tab[u].offset] \in TabRows
  BY <1>1, <1>2, UploadFields DEF TabRows
<1> HIDE DEF u
<1>8. /\ tab' \in [Uploads -> TabRows]
      /\ \A x \in Uploads : tab'[x] = tab[x] \/ (tab'[x].at = "failed" /\ tab[x].at \notin Opening)
  BY <1>1, <1>2, <1>6, <1>7 DEF Opening
<1> QED BY <1>4, <1>5, <1>8, CallMoves

\* While an upload is being opened, nothing is asked of it.
LEMMA OpeningSafe ==
  ASSUME UploadInv, NEW u \in Uploads, tab[u].at \in Opening, UNCHANGED <<call, overran>>,
         UploadTyped', UploadOK(u)',
         \A x \in Uploads : x # u => asset'[x] = asset[x] /\ file'[x] = file[x] /\ tab'[x] = tab[x]
  PROVE  UploadInv'
<1>1. \A x \in Uploads : x # u => Calm(x)
  BY DEF Calm
<1>2. ASSUME NEW x \in Uploads, x # u PROVE UploadOK(x)'
  <2>1. asset'[x].key = asset[x].key /\ tab'[x].offset = tab[x].offset /\ tab'[x].at = tab[x].at
    BY <1>2
  <2> QED BY <1>1, <1>2, <2>1, UploadStays DEF UploadInv
<1>3. ASSUME NEW d \in Calls PROVE CallOK(d)'
  <2>1. CASE call[d].at = "idle"
    BY <2>1 DEF CallOK
  <2>2. CASE call[d].at # "idle"
    <3>1. call[d].upload \in Uploads /\ call[d].upload # u
      BY <2>2, CallFields DEF UploadInv, CallOK
    <3> QED BY <1>1, <3>1, CallStays DEF UploadInv
  <2> QED BY <2>1, <2>2
<1>4. OneHolder'
  BY DEF OneHolder, Holds, UploadInv
<1> QED BY <1>2, <1>3, <1>4 DEF UploadInv

LEMMA TabMoves ==
  ASSUME NEW r \in TabRows, NEW a \in {"row", "file", "ready to send", "waiting", "failed", "stored"}
  PROVE  /\ [r EXCEPT !.at = a] \in TabRows /\ [r EXCEPT !.at = a].at = a
         /\ [r EXCEPT !.at = a].offset = r.offset
BY DEF TabRows, Opening

LEMMA AssetMoves ==
  ASSUME NEW r \in AssetRows
  PROVE  /\ \A s \in {"uploading", "ready"} :
              LET new == [r EXCEPT !.status = s] IN
              new \in AssetRows /\ new.status = s /\ new.key = r.key /\ new.received = r.received
         /\ LET new == [r EXCEPT !.key = TRUE] IN
            new \in AssetRows /\ new.status = r.status /\ new.received = r.received
         /\ \A n \in Nat :
              LET new == [r EXCEPT !.received = n] IN
              new \in AssetRows /\ new.status = r.status /\ new.key = r.key /\ new.received = n
BY DEF AssetRows, Sureness

LEMMA NoPieces == ASSUME UploadConstants PROVE <<>> \in Seq(Nat) /\ Begins(<<>>)
<1>1. <<>> \in Seq(Nat) /\ Len(<<>>) = 0
  OBVIOUS
<1>2. Size \in Nat
  BY DEF UploadConstants
<1> QED BY <1>1, <1>2 DEF Begins

LEMMA OpeningSteps ==
  ASSUME UploadConstants, UploadInv, NEW u \in Uploads, CreateRow(u) \/ CreateFile(u) \/ SaveKey(u) \/ InitFails(u)
  PROVE  UploadInv'
<1>1. UploadTyped /\ tab \in [Uploads -> TabRows] /\ asset \in [Uploads -> AssetRows] /\ file \in [Uploads -> Seq(Nat)]
  BY DEF UploadInv, UploadTyped
<1>2. UploadOK(u) /\ tab[u].at \in Opening /\ tab[u] \in TabRows /\ asset[u] \in AssetRows
  BY <1>1 DEF UploadInv, CreateRow, CreateFile, SaveKey, InitFails, Opening
<1>3. /\ tab'[u] \in TabRows /\ tab'[u].offset = tab[u].offset
      /\ tab'[u].at \in {"row", "file", "ready to send", "failed"}
      /\ tab'[u].at \in Opening => CreateRow(u) \/ CreateFile(u)
      /\ tab' \in [Uploads -> TabRows] /\ \A x \in Uploads : x # u => tab'[x] = tab[x]
  <2>1. \E step \in {"row", "file", "ready to send", "failed"} :
          tab' = [tab EXCEPT ![u].at = step] /\ (step \in {"row", "file"} => CreateRow(u) \/ CreateFile(u))
    BY DEF CreateRow, CreateFile, SaveKey, InitFails, To
  <2>2. PICK step \in {"row", "file", "ready to send", "failed"} :
          tab' = [tab EXCEPT ![u].at = step] /\ (step \in {"row", "file"} => CreateRow(u) \/ CreateFile(u))
    BY <2>1
  <2>3. tab' = [tab EXCEPT ![u] = [tab[u] EXCEPT !.at = step]]
    BY <1>1, <2>2
  <2>4. /\ [tab[u] EXCEPT !.at = step] \in TabRows /\ [tab[u] EXCEPT !.at = step].at = step
        /\ [tab[u] EXCEPT !.at = step].offset = tab[u].offset
    <3>1. step \in {"row", "file", "ready to send", "waiting", "failed", "stored"} /\ tab[u] \in TabRows
      BY <1>2, <2>2
    <3> QED BY <3>1, TabMoves
  <2> QED BY <1>1, <2>2, <2>3, <2>4 DEF Opening
<1>4. /\ asset' \in [Uploads -> AssetRows] /\ \A x \in Uploads : x # u => asset'[x] = asset[x]
      /\ asset'[u].received = asset[u].received /\ asset'[u].status \in {asset[u].status, "uploading"}
      /\ asset'[u].key = asset[u].key \/ SaveKey(u)
  <2>1. CASE CreateRow(u)
    <3>1. asset' = [asset EXCEPT ![u] = [asset[u] EXCEPT !.status = "uploading"]]
      BY <1>1, <2>1 DEF CreateRow
    <3> QED BY <1>1, <1>2, <3>1, AssetMoves
  <2>2. CASE CreateFile(u) \/ InitFails(u)
    BY <1>1, <2>2 DEF CreateFile, InitFails
  <2>3. CASE SaveKey(u)
    <3>1. asset' = [asset EXCEPT ![u] = [asset[u] EXCEPT !.key = TRUE]]
      BY <1>1, <2>3 DEF SaveKey
    <3> QED BY <1>1, <1>2, <2>3, <3>1, AssetMoves
  <2> QED BY <2>1, <2>2, <2>3
<1>5. file' = file \/ file' = [file EXCEPT ![u] = <<>>]
  BY DEF CreateRow, CreateFile, SaveKey, InitFails
<1>6. UNCHANGED <<call, overran>> /\ (SaveKey(u) => ~CreateRow(u) /\ ~CreateFile(u))
  BY DEF CreateRow, CreateFile, SaveKey, InitFails
<1>7. /\ file' \in [Uploads -> Seq(Nat)] /\ \A x \in Uploads : x # u => file'[x] = file[x]
      /\ file'[u] = file[u] \/ file'[u] = <<>>
  BY <1>1, <1>5, NoPieces
<1>8. UploadTyped'
  BY <1>1, <1>3, <1>4, <1>6, <1>7 DEF UploadTyped
<1>9. UploadOK(u)'
  <2>1. u \notin overran' => Begins(file'[u])
    BY <1>2, <1>6, <1>7, NoPieces DEF UploadOK
  <2>2. ~asset[u].key /\ asset[u].received = 0 /\ tab[u].offset = 0 /\ asset[u].status # "ready"
    BY <1>2 DEF UploadOK
  <2>3. u \notin overran' => Begins(file[u])'
    BY <2>1 DEF Begins
  <2> QED BY <1>3, <1>4, <1>6, <2>2, <2>3 DEF UploadOK
<1> QED BY <1>2, <1>3, <1>4, <1>6, <1>7, <1>8, <1>9, OpeningSafe

LEMMA Sent ==
  ASSUME UploadConstants, UploadInv, NEW u \in Uploads, NEW c \in Calls, SendNext(u, c) \/ Resend(u, c)
  PROVE  UploadInv'
<1> DEFINE append == [at |-> "append", upload |-> u, range |-> NextChunk(u)]
           complete == [at |-> "complete", upload |-> u]
<1>1. UploadTyped /\ tab \in [Uploads -> TabRows] /\ call \in [Calls -> CallRows] /\ UploadOK(u)
      /\ tab[u].offset \in Nat /\ tab[u] \in TabRows
  BY UploadFields DEF UploadInv, UploadTyped
<1>2. /\ tab[u].at \in {"ready to send", "waiting"} /\ tab' = [tab EXCEPT ![u].at = "waiting"]
      /\ UNCHANGED <<asset, file, overran>> /\ Arrives(u, c)
  <2>1. CASE SendNext(u, c)
    BY <2>1 DEF SendNext, To
  <2>2. CASE Resend(u, c)
    <3>1. tab = [tab EXCEPT ![u].at = "waiting"]
      BY <1>1, <2>2 DEF Resend, TabRows
    <3> QED BY <2>2, <3>1 DEF Resend
  <2> QED BY <2>1, <2>2
<1>3. tab[u].offset = asset[u].received
  BY <1>1, <1>2 DEF UploadOK
<1>4. tab' = [tab EXCEPT ![u] = [tab[u] EXCEPT !.at = "waiting"]]
      /\ [tab[u] EXCEPT !.at = "waiting"] \in TabRows
      /\ [tab[u] EXCEPT !.at = "waiting"].at = "waiting"
      /\ [tab[u] EXCEPT !.at = "waiting"].offset = tab[u].offset
  BY <1>1, <1>2 DEF TabRows
<1>5. /\ tab' \in [Uploads -> TabRows] /\ tab'[u].at = "waiting" /\ tab'[u].offset = tab[u].offset
      /\ \A x \in Uploads : x # u => tab'[x] = tab[x]
  BY <1>1, <1>4
<1>6. call'[c] \in {append, complete} /\ (call'[c] = append => tab[u].offset < Size)
      /\ \A d \in Calls : d # c => call'[d] = call[d]
  BY <1>1, <1>2 DEF Arrives
<1>7. tab[u].offset < Size =>
        /\ NextChunk(u) \in Ranges /\ NextChunk(u).start = tab[u].offset
        /\ NextChunk(u).start < NextChunk(u).end /\ NextChunk(u).end <= Size
  BY <1>1 DEF NextChunk, Ranges, UploadConstants
<1>8. call' \in [Calls -> CallRows]
  <2>1. complete \in CallRows /\ (tab[u].offset < Size => append \in CallRows)
    BY <1>7 DEF CallRows
  <2>2. call' = [call EXCEPT ![c] = IF tab[u].offset < Size THEN append ELSE complete]
    BY <1>2 DEF Arrives
  <2> QED BY <1>1, <2>1, <2>2
<1>9. CallOK(c)'
  <2>1. /\ call'[c].upload = u /\ call'[c].at \in {"append", "complete"}
        /\ call'[c].at = "append" =>
             /\ call'[c].range.start = asset'[u].received /\ call'[c].range.start < call'[c].range.end
             /\ call'[c].range.end <= Size /\ call'[c].range.start \in Nat
    <3>1. CASE call'[c] = append
      <4>1. NextChunk(u).start = asset[u].received /\ NextChunk(u) \in Ranges
            /\ NextChunk(u).start < NextChunk(u).end /\ NextChunk(u).end <= Size
        BY <1>3, <1>6, <1>7, <3>1
      <4>2. call'[c].upload = u /\ call'[c].at = "append" /\ call'[c].range = NextChunk(u) /\ asset' = asset
        <5>1. asset' = asset
          BY <1>2
        <5> QED BY <3>1, <5>1
      <4> QED BY <4>1, <4>2 DEF Ranges
    <3>2. CASE call'[c] = complete
      BY <3>2
    <3> QED BY <1>6, <3>1, <3>2
  <2>2. ~Appends(c)' /\ ~Holds(c)' /\ call'[c].at \notin {"stat", "write"}
    BY <2>1 DEF Appends, Holds
  <2>3. tab'[u].at \notin Opening \union {"ready to send"}
    BY <1>5 DEF Opening
  <2>4. tab'[call'[c].upload].at \notin Opening \union {"ready to send"}
    BY <2>1, <2>3
  <2>5. call'[c].at = "append" =>
          /\ call'[c].range.start < call'[c].range.end /\ call'[c].range.end <= Size
          /\ call'[c].range.start <= asset'[call'[c].upload].received
    BY <2>1
  <2> QED BY <2>2, <2>4, <2>5 DEF CallOK
<1>10. ~Holds(c)'
  BY <1>6 DEF Holds
<1> QED BY <1>2, <1>5, <1>6, <1>8, <1>9, <1>10, CallMoves

LEMMA AnswerLost ==
  ASSUME UploadInv, NEW u \in Uploads, LosesAnswer(u)
  PROVE  UploadInv'
<1>1. UploadTyped /\ tab \in [Uploads -> TabRows] /\ call \in [Calls -> CallRows] /\ tab[u] \in TabRows
  BY UploadFields DEF UploadInv, UploadTyped
<1>2. tab[u].at = "waiting" /\ tab' = [tab EXCEPT ![u].at = "failed"] /\ UNCHANGED <<asset, file, overran, call>>
  BY DEF LosesAnswer, To
<1>3. [tab[u] EXCEPT !.at = "failed"] \in TabRows /\ [tab[u] EXCEPT !.at = "failed"].at = "failed"
  BY <1>1 DEF TabRows
<1>4. tab' \in [Uploads -> TabRows] /\ tab'[u].at = "failed" /\ \A x \in Uploads : x # u => tab'[x] = tab[x]
  BY <1>1, <1>2, <1>3
<1>5. UploadTyped'
  BY <1>1, <1>2, <1>4 DEF UploadTyped
<1>6. \A x \in Uploads : Calm(x)
  BY <1>2, <1>4 DEF Calm, Opening
<1>7. \A x \in Uploads : UploadOK(x)'
  BY <1>2, <1>4, <1>6, UploadStays DEF UploadInv
<1>8. \A d \in Calls : CallOK(d)'
  <2> SUFFICES ASSUME NEW d \in Calls PROVE CallOK(d)'
    OBVIOUS
  <2>1. CASE call[d].at = "idle"
    BY <1>2, <2>1 DEF CallOK
  <2>2. CASE call[d].at # "idle"
    BY <1>1, <1>2, <1>6, <2>2, CallFields, CallStays DEF UploadInv
  <2> QED BY <2>1, <2>2
<1>9. OneHolder'
  BY <1>2 DEF OneHolder, Holds, UploadInv
<1> QED BY <1>5, <1>7, <1>8, <1>9 DEF UploadInv

LEMMA NobodyHolds ==
  ASSUME UploadTyped, NEW u, ~Locked(u)
  PROVE  \A d \in Calls : Holds(d) => call[d].upload # u
<1> SUFFICES ASSUME NEW d \in Calls, Holds(d) PROVE call[d].upload # u
  OBVIOUS
<1>1. call[d] # AtRest /\ Locks(d)
  BY CallFields DEF Holds, Locks
<1> QED BY <1>1 DEF Locked

LEMMA LockTaken ==
  ASSUME UploadInv, NEW c \in Calls, TakeLock(c)
  PROVE  UploadInv'
<1> DEFINE u == call[c].upload
           r == [at |-> "stat", upload |-> u, range |-> call[c].range, expects |-> asset[u].received, expired |-> FALSE]
<1>1. UploadTyped /\ call \in [Calls -> CallRows] /\ tab \in [Uploads -> TabRows] /\ CallOK(c)
  BY DEF UploadInv, UploadTyped
<1>2. call[c].at = "append" /\ ~Locked(u) /\ UNCHANGED <<asset, file, overran>>
  BY DEF TakeLock
<1>3. CASE Refuse(c)
  BY <1>2, <1>3, CallRefused
<1>4. CASE asset[u].status = "uploading" /\ Fits(u, call[c].range) /\ call' = [call EXCEPT ![c] = r] /\ tab' = tab
  <2>1. u \in Uploads /\ call[c].range \in Ranges /\ asset[u].received \in Nat
    BY <1>1, <1>2, CallFields, UploadFields
  <2>2. r \in CallRows
    BY <2>1 DEF CallRows, Sureness
  <2>3. call' \in [Calls -> CallRows] /\ call'[c] = r /\ \A d \in Calls : d # c => call'[d] = call[d]
    BY <1>1, <1>4, <2>2
  <2>4. /\ call'[c].at = "stat" /\ call'[c].upload = u /\ call'[c].range = call[c].range
        /\ call'[c].expects = asset[u].received /\ call'[c].expired = FALSE
    BY <2>3
  <2> HIDE DEF r, u
  <2>5. /\ asset'[u].status = "uploading" /\ call'[c].range.start = asset'[u].received
        /\ call'[c].range.start < call'[c].range.end /\ call'[c].range.end <= Size
        /\ call'[c].expects = asset'[u].received
    BY <1>2, <1>4, <2>4 DEF Fits
  <2>6. tab'[u].at \notin Opening /\ tab'[u].at # "ready to send"
    <3>1. tab[u].at \notin Opening /\ (tab[u].at = "ready to send" => call[c].range.start < asset[u].received)
      BY <1>1, <1>2 DEF CallOK, u
    <3>2. call[c].range.start = asset[u].received
      BY <1>4 DEF Fits
    <3>3. tab[u].at # "ready to send"
      <4>1. asset[u].received \in Nat
        BY <2>1
      <4>2. ~(call[c].range.start < asset[u].received)
        BY <3>2, <4>1
      <4> QED BY <3>1, <4>2
    <3>4. tab' = tab
      BY <1>4
    <3> QED BY <3>1, <3>3, <3>4
  <2>7. CallOK(c)'
    BY <2>4, <2>5, <2>6 DEF CallOK, Appends, Holds
  <2>8. \A d \in Calls : Holds(d) => call[d].upload # u
    BY <1>1, <1>2, NobodyHolds
  <2> QED BY <1>1, <1>2, <1>4, <2>3, <2>4, <2>7, <2>8, CallMoves
<1> QED BY <1>3, <1>4 DEF TakeLock

LEMMA PiecesTyped ==
  ASSUME NEW range, range.start \in Nat, range.end \in Nat
  PROVE  /\ Pieces(range) \in Seq(Nat)
         /\ range.start < range.end =>
              /\ Len(Pieces(range)) = range.end - range.start
              /\ \A i \in 1..Len(Pieces(range)) : Pieces(range)[i] = range.start + i
<1>1. CASE range.start < range.end
  BY <1>1 DEF Pieces
<1>2. CASE ~(range.start < range.end)
  <2>1. 1..(range.end - range.start) = 1..0
    BY <1>2
  <2>2. Pieces(range) = [i \in 1..0 |-> range.start + i]
    BY <2>1 DEF Pieces
  <2> QED BY <1>2, <2>2
<1> QED BY <1>1, <1>2

LEMMA StatSafe ==
  ASSUME UploadInv, NEW c \in Calls, Stat(c)
  PROVE  UploadInv'
<1> DEFINE u == call[c].upload
           rest == Pieces(call[c].range)
           r == [at |-> "write", upload |-> u, expired |-> call[c].expired, rest |-> rest]
<1>1. UploadTyped /\ call \in [Calls -> CallRows] /\ tab \in [Uploads -> TabRows] /\ CallOK(c)
  BY DEF UploadInv, UploadTyped
<1>2. call[c].at = "stat" /\ UNCHANGED <<asset, file, overran>>
  BY DEF Stat
<1>3. CASE Refuse(c)
  BY <1>2, <1>3, CallRefused
<1>4. CASE AsExpected(u, call[c].expects) /\ call' = [call EXCEPT ![c] = r] /\ tab' = tab
  <2>1. /\ u \in Uploads /\ call[c].range \in Ranges /\ call[c].expects \in Nat /\ call[c].expired \in Sureness
        /\ call[c].range.start \in Nat /\ call[c].range.end \in Nat
    BY <1>1, <1>2, CallFields DEF Ranges
  <2>2. asset[u].received \in Nat /\ Len(file[u]) \in Nat
    BY <1>1, <2>1, UploadFields
  <2>4. rest \in Seq(Nat)
    BY <2>1, PiecesTyped
  <2>5. r \in CallRows
    BY <2>1, <2>4 DEF CallRows
  <2>6. call' \in [Calls -> CallRows] /\ call'[c] = r /\ \A d \in Calls : d # c => call'[d] = call[d]
    BY <1>1, <1>4, <2>5
  <2>7. call'[c].at = "write" /\ call'[c].upload = u /\ call'[c].expired = call[c].expired /\ call'[c].rest = rest
    BY <2>6
  <2>8. Len(file[u]) = call[c].expects
    BY <1>4 DEF AsExpected
  <2> HIDE DEF r, u, rest
  <2>9. Holds(c)' => Holds(c) /\ Appends(c)
    BY <1>2, <2>7 DEF Holds, Appends
  <2>10. CallOK(c)'
    <3>1. call[c].expired => u \in overran
      BY <1>1, <1>2 DEF CallOK, u
    <3>2. tab'[u].at \notin Opening /\ (~call[c].expired => asset[u].status = "uploading" /\ tab[u].at # "ready to send")
      BY <1>1, <1>2, <1>4 DEF CallOK, u, Appends
    <3>3. ~call[c].expired =>
            /\ call[c].range.start < call[c].range.end /\ call[c].range.end <= Size
            /\ call[c].range.start = asset[u].received /\ Len(file[u]) = asset[u].received
      BY <1>1, <1>2, <2>8 DEF CallOK, u, Appends
    <3>4. call[c].range.start < call[c].range.end =>
            /\ Len(rest) = call[c].range.end - call[c].range.start
            /\ \A i \in 1..Len(rest) : rest[i] = call[c].range.start + i
      BY <2>1, PiecesTyped DEF rest
    <3>5. ~call[c].expired =>
            /\ Len(file'[u]) + Len(rest) > asset'[u].received /\ Len(file'[u]) + Len(rest) <= Size
            /\ \A i \in 1..Len(rest) : rest[i] = Len(file'[u]) + i
      <4> SUFFICES ASSUME ~call[c].expired
                   PROVE  /\ Len(file[u]) + Len(rest) > asset[u].received /\ Len(file[u]) + Len(rest) <= Size
                          /\ \A i \in 1..Len(rest) : rest[i] = Len(file[u]) + i
        BY <1>2
      <4>1. Len(rest) = call[c].range.end - call[c].range.start /\ call[c].range.start = Len(file[u])
            /\ Len(file[u]) = asset[u].received
        BY <3>3, <3>4
      <4>2. Len(file[u]) + Len(rest) = call[c].range.end
        BY <2>1, <4>1
      <4>3. \A i \in 1..Len(rest) : rest[i] = Len(file[u]) + i
        BY <3>3, <3>4, <4>1
      <4> QED BY <3>3, <4>1, <4>2, <4>3
    <3>6. Appends(c)' => ~call[c].expired
      BY <2>7 DEF Appends
    <3>7. call'[c].at \notin {"idle", "append", "stat", "save", "mark"}
      BY <2>7
    <3> QED BY <1>2, <1>4, <2>7, <3>1, <3>2, <3>5, <3>6, <3>7 DEF CallOK
  <2>11. Holds(c)' => \A d \in Calls : Holds(d) /\ call[d].upload = call'[c].upload => d = c
    BY <2>7, <2>9 DEF UploadInv, OneHolder, u
  <2> QED BY <1>1, <1>2, <1>4, <2>6, <2>10, <2>11, CallMoves
<1> QED BY <1>3, <1>4 DEF Stat

LEMMA RestShrinks ==
  ASSUME NEW s \in Seq(Nat), s # <<>>
  PROVE  /\ Tail(s) \in Seq(Nat) /\ Len(s) \in Nat \ {0} /\ Len(Tail(s)) = Len(s) - 1 /\ Head(s) = s[1]
         /\ Head(s) \in Nat /\ \A i \in 1..Len(Tail(s)) : Tail(s)[i] = s[i + 1]
OBVIOUS

LEMMA OneMore ==
  ASSUME NEW s \in Seq(Nat), NEW n \in Nat
  PROVE  /\ Append(s, n) \in Seq(Nat) /\ Len(Append(s, n)) = Len(s) + 1
         /\ \A i \in 1..Len(s) : Append(s, n)[i] = s[i]
         /\ Append(s, n)[Len(s) + 1] = n
OBVIOUS

LEMMA Grows ==
  ASSUME UploadConstants, NEW s \in Seq(Nat), Begins(s), Len(s) < Size
  PROVE  Begins(Append(s, Len(s) + 1))
<1>1. Len(s) \in Nat /\ Size \in Nat
  BY DEF UploadConstants
<1>2. /\ Len(Append(s, Len(s) + 1)) = Len(s) + 1
      /\ \A i \in 1..Len(s) : Append(s, Len(s) + 1)[i] = s[i]
      /\ Append(s, Len(s) + 1)[Len(s) + 1] = Len(s) + 1
  BY <1>1, OneMore
<1>3. \A i \in 1..(Len(s) + 1) : i \in 1..Len(s) \/ i = Len(s) + 1
  BY <1>1
<1> QED BY <1>1, <1>2, <1>3 DEF Begins

LEMMA WriteSafe ==
  ASSUME UploadConstants, UploadInv, NEW c \in Calls, Write(c), NEW u, u = call[c].upload,
         NEW rest, rest = call[c].rest
  PROVE  UploadInv'
<1> DEFINE r == [call[c] EXCEPT !.rest = Tail(rest)]
<1>1. UploadTyped /\ call \in [Calls -> CallRows] /\ file \in [Uploads -> Seq(Nat)] /\ CallOK(c)
  BY DEF UploadInv, UploadTyped
<1>2. call[c].at = "write" /\ rest # <<>> /\ UNCHANGED <<asset, tab, overran>>
  BY DEF Write
<1>3. u \in Uploads /\ call[c].expired \in Sureness /\ rest \in Seq(Nat)
  BY <1>1, <1>2, CallFields
<1>4. /\ Tail(rest) \in Seq(Nat) /\ Len(rest) \in Nat \ {0} /\ Len(Tail(rest)) = Len(rest) - 1 /\ Head(rest) = rest[1]
      /\ Head(rest) \in Nat /\ \A i \in 1..Len(Tail(rest)) : Tail(rest)[i] = rest[i + 1]
  BY <1>2, <1>3, RestShrinks
<1>5. asset[u].received \in Nat /\ file[u] \in Seq(Nat) /\ Len(file[u]) \in Nat
  BY <1>1, <1>3, UploadFields
<1>6. call[c] \in [at : {"write"}, upload : Uploads, expired : Sureness, rest : Seq(Nat)]
  BY <1>1, <1>2 DEF CallRows
<1>7. r \in [at : {"write"}, upload : Uploads, expired : Sureness, rest : Seq(Nat)]
      /\ r.at = "write" /\ r.upload = u /\ r.expired = call[c].expired /\ r.rest = Tail(rest)
  BY <1>4, <1>6
<1>8. /\ call' \in [Calls -> CallRows] /\ call'[c] = r /\ \A d \in Calls : d # c => call'[d] = call[d]
  <2>1. call' = [call EXCEPT ![c] = r]
    BY <1>1 DEF Write
  <2>2. r \in CallRows
    BY <1>7 DEF CallRows
  <2> QED BY <1>1, <2>1, <2>2
<1>9. /\ call'[c].at = "write" /\ call'[c].upload = u /\ call'[c].expired = call[c].expired /\ call'[c].rest = Tail(rest)
  BY <1>7, <1>8
<1>10. /\ file' \in [Uploads -> Seq(Nat)] /\ file'[u] = Append(file[u], Head(rest))
       /\ Len(file'[u]) = Len(file[u]) + 1 /\ \A x \in Uploads : x # u => file'[x] = file[x]
  <2>1. file' = [file EXCEPT ![u] = Append(file[u], Head(rest))]
    BY <1>1, <1>3 DEF Write
  <2>2. Append(file[u], Head(rest)) \in Seq(Nat) /\ Len(Append(file[u], Head(rest))) = Len(file[u]) + 1
    BY <1>4, <1>5, OneMore
  <2> QED BY <1>1, <1>3, <2>1, <2>2
<1>22. /\ Len(file'[u]) = Len(file[u]) + 1 /\ Len(file[u]) \in Nat /\ Len(rest) \in Nat \ {0}
       /\ Len(Tail(rest)) = Len(rest) - 1 /\ asset[u].received \in Nat
  BY <1>4, <1>5, <1>10
<1>23. /\ Len(file'[u]) + Len(Tail(rest)) = Len(file[u]) + Len(rest)
       /\ Len(file[u]) + Len(rest) <= Size => Len(file[u]) < Size
       /\ \A i \in 1..Len(Tail(rest)) : Len(file[u]) + (i + 1) = Len(file'[u]) + i
       /\ \A k, j \in Nat : Len(file[u]) + k > j => Len(file'[u]) + k > j
  <2>1. Size \in Nat
    BY DEF UploadConstants
  <2> DEFINE n == Len(file[u])
             m == Len(rest)
  <2>2. n \in Nat /\ m \in Nat \ {0} /\ Len(file'[u]) = n + 1 /\ Len(Tail(rest)) = m - 1
    BY <1>22
  <2> HIDE DEF n, m
  <2>3. \A n1, m1 : n1 = n + 1 /\ m1 = m - 1 =>
          /\ n1 + m1 = n + m /\ (n + m <= Size => n < Size)
          /\ \A i \in 1..m1 : n + (i + 1) = n1 + i
          /\ \A k, j \in Nat : n + k > j => n1 + k > j
    BY <2>1, <2>2
  <2>4. /\ Len(file'[u]) + Len(Tail(rest)) = n + m /\ (n + m <= Size => n < Size)
        /\ \A i \in 1..Len(Tail(rest)) : n + (i + 1) = Len(file'[u]) + i
        /\ \A k, j \in Nat : n + k > j => Len(file'[u]) + k > j
    BY <2>2, <2>3, Zenon
  <2> QED BY <2>4 DEF n, m
<1>11. UploadTyped'
  BY <1>1, <1>2, <1>8, <1>10 DEF UploadInv, UploadTyped
<1>12. call[c].expired => u \in overran
  BY <1>1, <1>2 DEF CallOK
<1>13. ~call[c].expired => Appends(c) /\ Holds(c)
  BY <1>2 DEF Appends, Holds
<1>14. ~call[c].expired =>
         /\ tab[u].at # "ready to send" /\ asset[u].status = "uploading"
         /\ Len(file[u]) + Len(rest) > asset[u].received
         /\ u \notin overran => /\ Len(file[u]) + Len(rest) <= Size
                                /\ \A i \in 1..Len(rest) : rest[i] = Len(file[u]) + i
  BY <1>1, <1>2, <1>13 DEF CallOK
<1>15. \A d \in Calls : d # c /\ Holds(d) /\ call[d].upload = u => u \in overran
  BY <1>12, <1>13 DEF UploadInv, OneHolder
<1> HIDE DEF r
<1>16. \A x \in Uploads : x # u => Calm(x)
  BY <1>2, <1>10 DEF Calm
<1>17. UploadOK(u)'
  <2>1. UploadOK(u) /\ asset' = asset /\ tab' = tab /\ overran' = overran
    BY <1>2, <1>3 DEF UploadInv
  <2>2. CASE u \in overran
    BY <2>1, <2>2 DEF UploadOK
  <2>3. CASE u \notin overran
    <3>5. 1 \in 1..Len(rest)
      BY <1>22
    <3>1. rest[1] = Len(file[u]) + 1 /\ Len(file[u]) + Len(rest) <= Size /\ asset[u].status = "uploading"
      BY <1>12, <1>14, <2>3, <3>5
    <3>7. Len(file[u]) < Size
      BY <1>23, <3>1
    <3>2. Len(file[u]) < Size /\ Head(rest) = Len(file[u]) + 1
      BY <1>4, <3>1, <3>7
    <3>3. Begins(file[u])
      BY <2>1, <2>3 DEF UploadOK
    <3>4. Begins(file[u])'
      <4>1. Begins(Append(file[u], Len(file[u]) + 1))
        BY <1>5, <3>2, <3>3, Grows
      <4>2. Begins(file'[u])
        BY <1>10, <3>2, <4>1
      <4> QED BY <4>2 DEF Begins
    <3> QED BY <2>1, <3>1, <3>4 DEF UploadOK
  <2> QED BY <2>2, <2>3
<1>18. ASSUME NEW x \in Uploads PROVE UploadOK(x)'
  <2>1. CASE x = u
    BY <1>17, <2>1
  <2>2. CASE x # u
    <3>1. UploadOK(x) /\ Calm(x) /\ asset'[x].key = asset[x].key /\ tab'[x].offset = tab[x].offset /\ tab'[x].at = tab[x].at
      BY <1>2, <1>16, <2>2 DEF UploadInv
    <3> QED BY <3>1, UploadStays
  <2> QED BY <2>1, <2>2
<1>19. CallOK(c)'
  <2>1. tab'[u].at \notin Opening
    BY <1>1, <1>2 DEF CallOK
  <2>2. Appends(c)' => ~call[c].expired
    BY <1>9 DEF Appends
  <2>3. Len(file'[u]) + Len(Tail(rest)) = Len(file[u]) + Len(rest)
    BY <1>23
  <2>4. u \notin overran /\ ~call[c].expired =>
          \A i \in 1..Len(Tail(rest)) : Tail(rest)[i] = Len(file'[u]) + i
    <3> SUFFICES ASSUME u \notin overran, ~call[c].expired, NEW i \in 1..Len(Tail(rest))
                 PROVE  Tail(rest)[i] = Len(file'[u]) + i
      OBVIOUS
    <3>1. i + 1 \in 1..Len(rest) /\ Tail(rest)[i] = rest[i + 1]
      BY <1>4
    <3>2. rest[i + 1] = Len(file[u]) + (i + 1)
      BY <1>14, <3>1
    <3>4. Len(file[u]) + (i + 1) = Len(file'[u]) + i
      BY <1>23
    <3> QED BY <3>1, <3>2, <3>4
  <2>5. call'[c].at \notin {"idle", "append", "stat", "save", "mark"}
    BY <1>9
  <2>6. asset' = asset /\ tab' = tab /\ overran' = overran
    BY <1>2
  <2>7. call[c].expired => u \in overran'
    BY <1>12, <2>6
  <2>8. ~call[c].expired =>
          /\ asset'[u].status = "uploading" /\ tab'[u].at # "ready to send"
          /\ Len(file'[u]) + Len(Tail(rest)) > asset'[u].received
          /\ u \notin overran' => /\ Len(file'[u]) + Len(Tail(rest)) <= Size
                                  /\ \A i \in 1..Len(Tail(rest)) : Tail(rest)[i] = Len(file'[u]) + i
    BY <1>14, <2>3, <2>4, <2>6
  <2> QED BY <1>9, <2>1, <2>2, <2>5, <2>7, <2>8 DEF CallOK
<1>20. ASSUME NEW d \in Calls PROVE CallOK(d)'
  <2>1. CASE d = c
    BY <1>19, <2>1
  <2>2. CASE d # c /\ call[d].at = "idle"
    BY <1>8, <2>2 DEF CallOK
  <2>3. CASE d # c /\ call[d].at # "idle" /\ call[d].upload # u
    <3>1. call[d].upload \in Uploads /\ CallOK(d) /\ call'[d] = call[d]
      BY <1>1, <1>8, <2>3, CallFields DEF UploadInv
    <3> QED BY <1>16, <2>3, <3>1, CallStays
  <2>4. CASE d # c /\ call[d].at # "idle" /\ call[d].upload = u
    <3>1. CallOK(d) /\ call'[d] = call[d] /\ asset' = asset /\ tab' = tab /\ overran' = overran
      BY <1>2, <1>8, <2>4 DEF UploadInv
    <3>2. Holds(d) => u \in overran
      BY <1>15, <2>4
    <3>3. CASE call[d].at = "write"
      <4>1. call[d].rest \in Seq(Nat) /\ Len(call[d].rest) \in Nat
        <5>1. call[d].rest \in Seq(Nat)
          BY <1>1, <3>3, CallFields
        <5> QED BY <5>1
      <4>2. Appends(d) => Holds(d)
        BY DEF Appends, Holds
      <4>3. Len(file[u]) + Len(call[d].rest) > asset[u].received
              => Len(file'[u]) + Len(call[d].rest) > asset[u].received
        BY <1>22, <1>23, <4>1
      <4> HIDE <1>4, <1>14
      <4> QED BY <2>4, <3>1, <3>2, <3>3, <4>2, <4>3 DEF CallOK, Appends, Holds
    <3>4. CASE call[d].at # "write"
      BY <2>4, <3>1, <3>2, <3>4 DEF CallOK, Appends, Holds
    <3> QED BY <3>3, <3>4
  <2> QED BY <2>1, <2>2, <2>3, <2>4
<1>21. OneHolder'
  <2>1. \A d \in Calls : Holds(d)' = Holds(d) /\ (Holds(d) => call'[d].upload = call[d].upload)
    BY <1>2, <1>8, <1>9 DEF Holds
  <2> QED BY <2>1 DEF OneHolder, UploadInv
<1> QED BY <1>11, <1>18, <1>20, <1>21 DEF UploadInv

LEMMA MeasureSafe ==
  ASSUME UploadInv, NEW c \in Calls, NEW u, u = call[c].upload, Measure(c)
  PROVE  UploadInv'
<1> DEFINE r == [at |-> "save", upload |-> u, expired |-> call[c].expired, size |-> Len(file[u])]
<1>1. UploadTyped /\ call \in [Calls -> CallRows] /\ tab \in [Uploads -> TabRows] /\ CallOK(c)
  BY DEF UploadInv, UploadTyped
<1>2. call[c].at = "write" /\ call[c].rest = <<>> /\ UNCHANGED <<asset, file, tab, overran>>
  BY DEF Measure
<1>3. u \in Uploads /\ call[c].expired \in Sureness
  BY <1>1, <1>2, CallFields
<1>4. asset[u].received \in Nat /\ Len(file[u]) \in Nat
  BY <1>1, <1>3, UploadFields
<1>5. r \in CallRows /\ call' = [call EXCEPT ![c] = r]
  <2>1. r \in CallRows
    BY <1>3, <1>4 DEF CallRows
  <2>2. call' = [call EXCEPT ![c] = r]
    BY <1>1 DEF Measure
  <2> QED BY <2>1, <2>2
<1>6. call' \in [Calls -> CallRows] /\ call'[c] = r /\ \A d \in Calls : d # c => call'[d] = call[d]
  BY <1>1, <1>5
<1>7. /\ call'[c].at = "save" /\ call'[c].upload = u /\ call'[c].expired = call[c].expired
      /\ call'[c].size = Len(file[u])
  BY <1>6
<1> HIDE DEF r
<1>8. Holds(c)' => Holds(c) /\ Appends(c) /\ ~call[c].expired
  BY <1>2, <1>7 DEF Holds, Appends
<1>9. ~call[c].expired => /\ asset[u].status = "uploading" /\ tab[u].at # "ready to send"
                          /\ Len(file[u]) > asset[u].received
  <2> SUFFICES ASSUME ~call[c].expired
               PROVE  /\ asset[u].status = "uploading" /\ tab[u].at # "ready to send"
                      /\ Len(file[u]) > asset[u].received
    OBVIOUS
  <2>1. /\ asset[u].status = "uploading" /\ tab[u].at # "ready to send"
        /\ Len(file[u]) + Len(call[c].rest) > asset[u].received
    BY <1>1, <1>2 DEF CallOK, Appends
  <2>2. Len(call[c].rest) = 0
    BY <1>2
  <2>3. Len(file[u]) + 0 > asset[u].received
    BY <2>1, <2>2
  <2>4. \A n \in Nat : n + 0 = n
    OBVIOUS
  <2>5. Len(file[u]) > asset[u].received
    BY <1>4, <2>3, <2>4, Zenon
  <2> QED BY <2>1, <2>5
<1>10. CallOK(c)'
  <2>1. tab[u].at \notin Opening
    BY <1>1, <1>2 DEF CallOK
  <2>2. Appends(c)' => ~call[c].expired
    BY <1>7 DEF Appends
  <2>3. call'[c].at \notin {"idle", "append", "stat", "write", "mark"}
    BY <1>7
  <2> QED BY <1>2, <1>7, <1>9, <2>1, <2>2, <2>3 DEF CallOK
<1>11. Holds(c)' => \A d \in Calls : Holds(d) /\ call[d].upload = call'[c].upload => d = c
  BY <1>7, <1>8 DEF UploadInv, OneHolder
<1> QED BY <1>1, <1>2, <1>6, <1>10, <1>11, CallMoves

LEMMA CompleteSafe ==
  ASSUME UploadInv, NEW c \in Calls, NEW u, u = call[c].upload, Complete(c)
  PROVE  UploadInv'
<1> DEFINE r == [at |-> "mark", upload |-> u, expired |-> FALSE]
<1>1. UploadTyped /\ call \in [Calls -> CallRows] /\ tab \in [Uploads -> TabRows] /\ CallOK(c)
  BY DEF UploadInv, UploadTyped
<1>2. call[c].at = "complete" /\ ~Locked(u) /\ UNCHANGED <<asset, file, overran>>
  BY DEF Complete
<1>3. CASE Refuse(c)
  BY <1>2, <1>3, CallRefused
<1>4. CASE Len(file[u]) = Size /\ call' = [call EXCEPT ![c] = r] /\ tab' = tab
  <2>1. u \in Uploads
    BY <1>1, <1>2, CallFields
  <2>2. r \in CallRows
    BY <2>1 DEF CallRows, Sureness
  <2>3. call' \in [Calls -> CallRows] /\ call'[c] = r /\ \A d \in Calls : d # c => call'[d] = call[d]
    BY <1>1, <1>4, <2>2
  <2>4. call'[c].at = "mark" /\ call'[c].upload = u /\ call'[c].expired = FALSE
    BY <2>3
  <2> HIDE DEF r
  <2>5. tab[u].at \notin Opening
    BY <1>1, <1>2 DEF CallOK
  <2>6. CallOK(c)'
    BY <1>2, <1>4, <2>4, <2>5 DEF CallOK, Appends, Holds
  <2>7. \A d \in Calls : Holds(d) => call[d].upload # u
    BY <1>1, <1>2, NobodyHolds
  <2> QED BY <1>1, <1>2, <1>4, <2>3, <2>4, <2>6, <2>7, CallMoves
<1> QED BY <1>3, <1>4 DEF Complete

LEMMA ExpireSafe ==
  ASSUME UploadInv, NEW c \in Calls, NEW u, u = call[c].upload, Expire(c)
  PROVE  UploadInv'
<1> DEFINE r == [call[c] EXCEPT !.expired = TRUE]
<1>1. UploadTyped /\ call \in [Calls -> CallRows] /\ tab \in [Uploads -> TabRows] /\ CallOK(c)
  BY DEF UploadInv, UploadTyped
<1>2. Locks(c) /\ UNCHANGED <<asset, file, tab>>
  BY DEF Expire
<1>3. call[c].at \in {"stat", "write", "save", "mark"} /\ ~call[c].expired
  BY <1>2 DEF Locks
<1>4. overran \subseteq overran' /\ (call[c].at \in {"stat", "write"} => u \in overran')
  BY DEF Expire
<1>5. /\ r \in CallRows /\ r.at = call[c].at /\ r.upload = u /\ r.expired = TRUE
  <2>1. call[c] \in [at : {"stat"}, upload : Uploads, range : Ranges, expects : Nat, expired : Sureness]
          \union [at : {"write"}, upload : Uploads, expired : Sureness, rest : Seq(Nat)]
          \union [at : {"save"}, upload : Uploads, expired : Sureness, size : Nat]
          \union [at : {"mark"}, upload : Uploads, expired : Sureness]
    BY <1>1, <1>3 DEF CallRows
  <2>2. TRUE \in Sureness
    BY DEF Sureness
  <2>3. CASE call[c] \in [at : {"stat"}, upload : Uploads, range : Ranges, expects : Nat, expired : Sureness]
    BY <2>2, <2>3 DEF CallRows
  <2>4. CASE call[c] \in [at : {"write"}, upload : Uploads, expired : Sureness, rest : Seq(Nat)]
    BY <2>2, <2>4 DEF CallRows
  <2>5. CASE call[c] \in [at : {"save"}, upload : Uploads, expired : Sureness, size : Nat]
    BY <2>2, <2>5 DEF CallRows
  <2>6. CASE call[c] \in [at : {"mark"}, upload : Uploads, expired : Sureness]
    BY <2>2, <2>6 DEF CallRows
  <2> QED BY <2>1, <2>3, <2>4, <2>5, <2>6
<1>6. call' = [call EXCEPT ![c] = r]
  BY <1>1 DEF Expire
<1>7. call' \in [Calls -> CallRows] /\ call'[c] = r /\ \A d \in Calls : d # c => call'[d] = call[d]
  BY <1>1, <1>5, <1>6
<1>8. call'[c].at = call[c].at /\ call'[c].upload = u /\ call'[c].expired
  BY <1>5, <1>7
<1> HIDE DEF r
<1>9. CallOK(c)' /\ ~Holds(c)'
  <2>1. tab[u].at \notin Opening
    BY <1>1, <1>3 DEF CallOK
  <2> QED BY <1>2, <1>3, <1>4, <1>8, <2>1 DEF CallOK, Appends, Holds
<1> QED BY <1>1, <1>2, <1>4, <1>7, <1>9, CallMoves

LEMMA BreaksSafe ==
  ASSUME UploadInv, NEW c \in Calls, Breaks(c)
  PROVE  UploadInv'
<1>1. call[c].at # "idle" /\ UNCHANGED <<asset, file, overran>>
  BY CallFields DEF Breaks, UploadInv
<1>2. CASE Refuse(c)
  BY <1>1, <1>2, CallRefused
<1>3. CASE call' = [call EXCEPT ![c] = AtRest] /\ UNCHANGED tab
  BY <1>1, <1>3, CallEnds
<1> QED BY <1>2, <1>3 DEF Breaks

LEMMA SaveSafe ==
  ASSUME UploadInv, NEW c \in Calls, NEW u, u = call[c].upload, SaveReceived(c)
  PROVE  UploadInv'
<1> DEFINE size == call[c].size
           r == [asset[u] EXCEPT !.received = size]
           t == [at |-> "ready to send", offset |-> size]
<1>1. /\ UploadTyped /\ call \in [Calls -> CallRows] /\ tab \in [Uploads -> TabRows]
      /\ asset \in [Uploads -> AssetRows] /\ CallOK(c)
  BY DEF UploadInv, UploadTyped
<1>2. call[c].at = "save" /\ UNCHANGED <<file, overran>>
  BY DEF SaveReceived
<1>3. u \in Uploads /\ size \in Nat /\ asset[u] \in AssetRows /\ asset[u].received \in Nat /\ tab[u] \in TabRows
  BY <1>1, <1>2, CallFields, UploadFields
<1>4. CASE call[c].expired
  <2>1. call[c].at # "idle" /\ Refuse(c) /\ asset' = asset
    BY <1>2, <1>4 DEF SaveReceived
  <2> QED BY <1>2, <2>1, CallRefused
<1>5. CASE ~call[c].expired
  <2>1. /\ asset' = [asset EXCEPT ![u] = r] /\ call' = [call EXCEPT ![c] = AtRest]
        /\ tab' = tab \/ (tab[u].at = "waiting" /\ tab' = [tab EXCEPT ![u] = t])
        /\ tab[u].at = "waiting" => tab' = [tab EXCEPT ![u] = t]
    BY <1>1, <1>3, <1>5 DEF SaveReceived, Told
  <2>2. /\ r \in AssetRows /\ r.status = asset[u].status /\ r.key = asset[u].key /\ r.received = size
    BY <1>3, AssetMoves
  <2>3. t \in TabRows /\ t.at = "ready to send" /\ t.offset = size
    BY <1>3 DEF TabRows
  <2>4. /\ asset' \in [Uploads -> AssetRows] /\ asset'[u] = r /\ \A x \in Uploads : x # u => asset'[x] = asset[x]
        /\ tab' \in [Uploads -> TabRows] /\ \A x \in Uploads : x # u => tab'[x] = tab[x]
        /\ (tab[u].at = "waiting" /\ tab'[u] = t) \/ (tab[u].at # "waiting" /\ tab'[u] = tab[u])
        /\ call' \in [Calls -> CallRows] /\ call'[c].at = "idle" /\ \A d \in Calls : d # c => call'[d] = call[d]
    BY <1>1, <1>3, <2>1, <2>2, <2>3, IdleCall
  <2> HIDE DEF r, t
  <2>5. Holds(c) /\ Appends(c) /\ asset[u].status = "uploading" /\ tab[u].at \notin Opening \union {"ready to send"}
        /\ asset[u].received < size
    BY <1>1, <1>2, <1>3, <1>5 DEF CallOK, Holds, Appends
  <2>6. UploadTyped'
    BY <1>1, <1>2, <2>4 DEF UploadInv, UploadTyped
  <2>7. UploadOK(u)'
    <3>1. UploadOK(u)
      BY <1>3 DEF UploadInv
    <3> QED BY <1>2, <2>2, <2>3, <2>4, <2>5, <3>1 DEF UploadOK, Begins, Opening
  <2>8. ASSUME NEW x \in Uploads PROVE UploadOK(x)'
    <3>1. CASE x = u
      BY <2>7, <3>1
    <3>2. CASE x # u
      <4>1. UploadOK(x) /\ asset'[x] = asset[x] /\ tab'[x] = tab[x]
        BY <2>4, <3>2 DEF UploadInv
      <4> QED BY <1>2, <4>1 DEF UploadOK, Begins
    <3> QED BY <3>1, <3>2
  <2>9. ASSUME NEW d \in Calls PROVE CallOK(d)'
    <3>1. CASE call'[d].at = "idle"
      BY <3>1 DEF CallOK
    <3>2. CASE call'[d].at # "idle"
      <4>1. d # c /\ call'[d] = call[d] /\ call[d].upload \in Uploads /\ CallOK(d)
        <5>1. d # c /\ call'[d] = call[d]
          BY <2>4, <3>2
        <5> QED BY <1>1, <3>2, <5>1, CallFields DEF UploadInv
      <4>2. CASE call[d].upload # u
        <5>1. Calm(call[d].upload)
          BY <1>2, <2>4, <4>1, <4>2 DEF Calm
        <5> QED BY <4>1, <5>1, CallStays
      <4>3. CASE call[d].upload = u
        <5>1. ~Holds(d)
          BY <2>5, <4>1, <4>3 DEF UploadInv, OneHolder
        <5>2. ~Appends(d)
          BY <5>1 DEF Holds, Appends
        <5>3. tab'[u].at \notin Opening
          BY <2>3, <2>4, <2>5 DEF Opening
        <5>4. call[d].at = "append" =>
                call[d].range.start < size /\ call[d].range.start <= size
          <6> SUFFICES ASSUME call[d].at = "append" PROVE call[d].range.start < size /\ call[d].range.start <= size
            OBVIOUS
          <6>1. call[d].range.start <= asset[u].received /\ call[d].range \in Ranges
            BY <1>1, <4>1, <4>3, CallFields DEF CallOK
          <6>2. call[d].range.start \in Nat
            BY <6>1 DEF Ranges
          <6>3. \A k, l, m \in Nat : k <= l /\ l < m => k < m /\ k <= m
            OBVIOUS
          <6>4. call[d].range.start <= asset[u].received /\ asset[u].received < size
            BY <2>5, <6>1
          <6> QED BY <1>3, <6>2, <6>3, <6>4, Zenon
        <5>5. asset'[u].received = size
          BY <2>2, <2>4
        <5> QED BY <1>2, <4>1, <4>3, <5>1, <5>2, <5>3, <5>4, <5>5 DEF CallOK, Appends, Holds
      <4> QED BY <4>2, <4>3
    <3> QED BY <3>1, <3>2
  <2>10. OneHolder'
    <3>1. \A d \in Calls : Holds(d)' => Holds(d) /\ call'[d] = call[d]
      BY <2>4 DEF Holds
    <3> QED BY <3>1 DEF OneHolder, UploadInv
  <2> QED BY <2>6, <2>8, <2>9, <2>10 DEF UploadInv
<1> QED BY <1>4, <1>5

LEMMA MarkSafe ==
  ASSUME UploadInv, NEW c \in Calls, NEW u, u = call[c].upload, Mark(c)
  PROVE  UploadInv'
<1> DEFINE r == [asset[u] EXCEPT !.status = "ready"]
           t == [at |-> "stored", offset |-> tab[u].offset]
<1>1. /\ UploadTyped /\ call \in [Calls -> CallRows] /\ tab \in [Uploads -> TabRows]
      /\ asset \in [Uploads -> AssetRows] /\ CallOK(c)
  BY DEF UploadInv, UploadTyped
<1>2. call[c].at = "mark" /\ UNCHANGED <<file, overran>>
  BY DEF Mark
<1>3. u \in Uploads /\ asset[u] \in AssetRows /\ tab[u] \in TabRows /\ tab[u].offset \in Nat
  BY <1>1, <1>2, CallFields, UploadFields
<1>4. CASE call[c].expired
  <2>1. call[c].at # "idle" /\ Refuse(c) /\ asset' = asset
    BY <1>2, <1>4 DEF Mark
  <2> QED BY <1>2, <2>1, CallRefused
<1>5. CASE ~call[c].expired
  <2>1. /\ asset' = [asset EXCEPT ![u] = r] /\ call' = [call EXCEPT ![c] = AtRest]
        /\ tab' = tab \/ (tab[u].at = "waiting" /\ tab' = [tab EXCEPT ![u] = t])
        /\ tab[u].at = "waiting" => tab' = [tab EXCEPT ![u] = t]
    BY <1>1, <1>3, <1>5 DEF Mark, Told
  <2>2. /\ r \in AssetRows /\ r.status = "ready" /\ r.key = asset[u].key /\ r.received = asset[u].received
    BY <1>3, AssetMoves
  <2>3. t \in TabRows /\ t.at = "stored" /\ t.offset = tab[u].offset
    BY <1>3 DEF TabRows
  <2>4. /\ asset' \in [Uploads -> AssetRows] /\ asset'[u] = r /\ \A x \in Uploads : x # u => asset'[x] = asset[x]
        /\ tab' \in [Uploads -> TabRows] /\ \A x \in Uploads : x # u => tab'[x] = tab[x]
        /\ (tab[u].at = "waiting" /\ tab'[u] = t) \/ (tab[u].at # "waiting" /\ tab'[u] = tab[u])
        /\ call' \in [Calls -> CallRows] /\ call'[c].at = "idle" /\ \A d \in Calls : d # c => call'[d] = call[d]
    BY <1>1, <1>3, <2>1, <2>2, <2>3, IdleCall
  <2> HIDE DEF r, t
  <2>5. Holds(c) /\ tab[u].at \notin Opening /\ (u \in overran \/ Len(file[u]) = Size)
    BY <1>1, <1>2, <1>5 DEF CallOK, Holds
  <2>6. UploadTyped'
    BY <1>1, <1>2, <2>4 DEF UploadInv, UploadTyped
  <2>7. UploadOK(u)'
    <3>1. UploadOK(u)
      BY <1>3 DEF UploadInv
    <3> QED BY <1>2, <2>2, <2>3, <2>4, <2>5, <3>1 DEF UploadOK, Begins, Opening
  <2>8. ASSUME NEW x \in Uploads PROVE UploadOK(x)'
    <3>1. CASE x = u
      BY <2>7, <3>1
    <3>2. CASE x # u
      <4>1. UploadOK(x) /\ asset'[x] = asset[x] /\ tab'[x] = tab[x]
        BY <2>4, <3>2 DEF UploadInv
      <4> QED BY <1>2, <4>1 DEF UploadOK, Begins
    <3> QED BY <3>1, <3>2
  <2>9. ASSUME NEW d \in Calls PROVE CallOK(d)'
    <3>1. CASE call'[d].at = "idle"
      BY <3>1 DEF CallOK
    <3>2. CASE call'[d].at # "idle"
      <4>1. d # c /\ call'[d] = call[d] /\ call[d].upload \in Uploads /\ CallOK(d)
        <5>1. d # c /\ call'[d] = call[d]
          BY <2>4, <3>2
        <5> QED BY <1>1, <3>2, <5>1, CallFields DEF UploadInv
      <4>2. CASE call[d].upload # u
        <5>1. Calm(call[d].upload)
          BY <1>2, <2>4, <4>1, <4>2 DEF Calm
        <5> QED BY <4>1, <5>1, CallStays
      <4>3. CASE call[d].upload = u
        <5>1. ~Holds(d)
          BY <2>5, <4>1, <4>3 DEF UploadInv, OneHolder
        <5>2. ~Appends(d)
          BY <5>1 DEF Holds, Appends
        <5>3. tab'[u].at \notin Opening /\ (tab'[u].at = "ready to send" => tab[u].at = "ready to send")
          BY <2>3, <2>4, <2>5 DEF Opening
        <5>5. asset'[u].received = asset[u].received
          BY <2>2, <2>4
        <5> QED BY <1>2, <4>1, <4>3, <5>1, <5>2, <5>3, <5>5 DEF CallOK, Appends, Holds
      <4> QED BY <4>2, <4>3
    <3> QED BY <3>1, <3>2
  <2>10. OneHolder'
    <3>1. \A d \in Calls : Holds(d)' => Holds(d) /\ call'[d] = call[d]
      BY <2>4 DEF Holds
    <3> QED BY <3>1 DEF OneHolder, UploadInv
  <2> QED BY <2>6, <2>8, <2>9, <2>10 DEF UploadInv
<1> QED BY <1>4, <1>5

LEMMA ReadyStays ==
  ASSUME UploadInv, UploadNext \/ UNCHANGED uploadVars, NEW u \in Uploads, asset[u].status = "ready"
  PROVE  asset'[u].status = "ready"
<1>1. asset \in [Uploads -> AssetRows] /\ asset[u] \in AssetRows
  BY DEF UploadInv, UploadTyped
<1>2. ASSUME NEW x \in Uploads, CreateRow(x) PROVE asset'[u].status = "ready"
  <2>1. tab[x].at = "new" /\ UploadOK(x)
    BY <1>2 DEF CreateRow, UploadInv
  <2>2. x # u
    BY <2>1 DEF UploadOK, Opening
  <2> QED BY <1>1, <1>2, <2>2 DEF CreateRow
<1>3. ASSUME NEW x \in Uploads, SaveKey(x) PROVE asset'[u].status = "ready"
  BY <1>1, <1>3 DEF SaveKey, AssetRows
<1>4. ASSUME NEW c \in Calls, SaveReceived(c) PROVE asset'[u].status = "ready"
  <2>1. asset' = asset \/ \E x, n : asset' = [asset EXCEPT ![x].received = n]
    BY <1>4 DEF SaveReceived
  <2> QED BY <1>1, <2>1 DEF AssetRows
<1>5. ASSUME NEW c \in Calls, Mark(c) PROVE asset'[u].status = "ready"
  BY <1>1, <1>5 DEF Mark, AssetRows
<1>6. CASE asset' = asset
  BY <1>6
<1>7. \/ \E x \in Uploads : CreateRow(x) \/ SaveKey(x)
      \/ \E c \in Calls : SaveReceived(c) \/ Mark(c)
      \/ asset' = asset
  BY DEF UploadNext, uploadVars, CreateFile, InitFails, LosesAnswer, SendNext, Resend, TakeLock, Stat, Write, Measure,
         Complete, Expire, Breaks, Reserve, ReserveUncertain, Ask, Answered, Takes, Midnight, uploading
<1> QED BY <1>2, <1>3, <1>4, <1>5, <1>6, <1>7

LEMMA UploadSteps ==
  ASSUME UploadConstants, UploadInv, UploadNext \/ UNCHANGED uploadVars
  PROVE  UploadInv'
<1>1. ASSUME NEW u \in Uploads, CreateRow(u) \/ CreateFile(u) \/ SaveKey(u) \/ InitFails(u) PROVE UploadInv'
  BY <1>1, OpeningSteps
<1>2. ASSUME NEW u \in Uploads, LosesAnswer(u) PROVE UploadInv'
  BY <1>2, AnswerLost
<1>3. ASSUME NEW u \in Uploads, NEW c \in Calls, SendNext(u, c) \/ Resend(u, c) PROVE UploadInv'
  BY <1>3, Sent
<1>4. ASSUME NEW c \in Calls, \/ TakeLock(c) \/ Stat(c) \/ Write(c) \/ Measure(c) \/ SaveReceived(c)
                              \/ Complete(c) \/ Mark(c) \/ Expire(c) \/ Breaks(c)
      PROVE UploadInv'
  BY <1>4, LockTaken, StatSafe, WriteSafe, MeasureSafe, SaveSafe, CompleteSafe, MarkSafe, ExpireSafe, BreaksSafe
<1>5. CASE UNCHANGED <<asset, file, tab, call, overran>>
  BY <1>5 DEF UploadInv, UploadTyped, CallOK, UploadOK, OneHolder, Holds, Appends, Begins
<1>6. CASE \/ \E d \in Drops : \/ Reserve(d) \/ ReserveUncertain(d) \/ Ask(d) \/ Answered(d)
                               \/ \E u \in Uploads : Takes(d, u)
           \/ Midnight \/ UNCHANGED uploadVars
  <2>1. UNCHANGED <<asset, file, tab, call, overran>>
    BY <1>6 DEF uploadVars, Reserve, ReserveUncertain, Ask, Answered, Takes, Midnight, uploading
  <2> QED BY <1>5, <2>1
<1> QED BY <1>1, <1>2, <1>3, <1>4, <1>6 DEF UploadNext

\* A drop names an upload that is ready, and the drops about to ask a provider are
\* among those their day has paid for.
DropRows ==
  [at : {"idle"}]
    \union [at : {"reserve", "ask", "asked", "created", "refused"}, upload : Uploads, paid : Days \union {Nothing}]
AboutToAsk(n) == {d \in Drops : drop[d].at = "ask" /\ drop[d].paid = n}
DropInv ==
  /\ drop \in [Drops -> DropRows]
  /\ \A d \in Drops : drop[d].at # "idle" => asset[drop[d].upload].status = "ready"
  /\ \A d \in Drops : drop[d].at = "ask" => drop[d].paid \in Days
  /\ day \in Days /\ usage \in [Days -> Nat] /\ asked \in [Days -> Nat]
  /\ \A n \in Days : asked[n] + Cardinality(AboutToAsk(n)) <= usage[n] /\ usage[n] <= Limit

LEMMA DropStarts == ASSUME UploadConstants, UploadInit PROVE DropInv
<1>1. AtRest \in DropRows /\ AtRest.at = "idle"
  BY DEF AtRest, DropRows
<1>2. \A n \in Days : AboutToAsk(n) = {}
  BY <1>1 DEF AboutToAsk, UploadInit
<1>3. Cardinality({}) = 0
  BY FS_EmptySet
<1>4. Limit \in Nat
  BY DEF UploadConstants
<1>5. \A n \in Days : usage[n] = 0 /\ asked[n] = 0 /\ Cardinality(AboutToAsk(n)) = 0
  BY <1>2, <1>3 DEF UploadInit
<1>6. \A n \in Days : asked[n] + Cardinality(AboutToAsk(n)) <= usage[n] /\ usage[n] <= Limit
  BY <1>4, <1>5
<1> QED BY <1>1, <1>6 DEF UploadInit, DropInv

LEMMA DropFields ==
  ASSUME NEW r \in DropRows, r.at # "idle"
  PROVE  /\ r.upload \in Uploads
         /\ \A a \in {"asked", "created", "refused"} :
              LET new == [r EXCEPT !.at = a] IN
              new \in DropRows /\ new.at = a /\ new.upload = r.upload /\ new.paid = r.paid
BY DEF DropRows

\* A drop that moves, and not to a question, leaves the day what it has.
LEMMA DropMoves ==
  ASSUME DropInv, NEW d \in Drops, NEW a \in {"asked", "created", "refused"}, drop[d].at # "idle",
         drop' = [drop EXCEPT ![d].at = a]
  PROVE  /\ drop' \in [Drops -> DropRows] /\ drop'[d].at = a /\ drop'[d].upload = drop[d].upload
         /\ drop'[d].paid = drop[d].paid /\ \A e \in Drops : e # d => drop'[e] = drop[e]
<1> DEFINE r == [drop[d] EXCEPT !.at = a]
<1>1. drop \in [Drops -> DropRows] /\ drop[d] \in DropRows
  BY DEF DropInv
<1>2. drop' = [drop EXCEPT ![d] = r]
  BY <1>1
<1>4. r \in DropRows /\ r.at = a /\ r.upload = drop[d].upload /\ r.paid = drop[d].paid
  BY <1>1, DropFields
<1> QED BY <1>1, <1>2, <1>4

LEMMA AskersFinite ==
  ASSUME UploadConstants, NEW n
  PROVE  IsFiniteSet(AboutToAsk(n)) /\ Cardinality(AboutToAsk(n)) \in Nat
<1>1. AboutToAsk(n) \subseteq Drops /\ IsFiniteSet(Drops)
  BY DEF AboutToAsk, UploadConstants
<1>2. IsFiniteSet(AboutToAsk(n))
  BY <1>1, FS_Subset
<1> QED BY <1>2, FS_CardinalityType

\* A step that starts no question and asks none.
LEMMA SameAskers ==
  ASSUME UploadConstants, DropInv, NEW d \in Drops, drop' \in [Drops -> DropRows], UNCHANGED <<asked, asset>>,
         \A e \in Drops : e # d => drop'[e] = drop[e],
         drop[d].at # "ask", drop'[d].at # "ask", asset[drop'[d].upload].status = "ready",
         day' \in Days, usage' \in [Days -> Nat],
         \A n \in Days : usage[n] <= usage'[n] /\ usage'[n] <= Limit
  PROVE  DropInv'
<1>1. \A n \in Days : AboutToAsk(n)' = AboutToAsk(n)
  BY DEF AboutToAsk
<1>2. \A n \in Days : asked'[n] + Cardinality(AboutToAsk(n)') <= usage'[n]
  <2> SUFFICES ASSUME NEW n \in Days PROVE asked[n] + Cardinality(AboutToAsk(n)) <= usage'[n]
    BY <1>1
  <2> DEFINE k == Cardinality(AboutToAsk(n))
  <2>1. k \in Nat /\ asked[n] \in Nat /\ usage[n] \in Nat /\ usage'[n] \in Nat
        /\ asked[n] + k <= usage[n] /\ usage[n] <= usage'[n]
    BY AskersFinite DEF DropInv
  <2> HIDE DEF k
  <2> QED BY <2>1 DEF k
<1>3. \A e \in Drops : drop'[e].at # "idle" => asset'[drop'[e].upload].status = "ready"
  BY DEF DropInv
<1>4. \A e \in Drops : drop'[e].at = "ask" => drop'[e].paid \in Days
  BY DEF DropInv
<1> QED BY <1>2, <1>3, <1>4 DEF DropInv

LEMMA TakesSafe ==
  ASSUME UploadConstants, DropInv, NEW d \in Drops, NEW u \in Uploads, Takes(d, u)
  PROVE  DropInv'
<1>1. PICK at \in {"reserve", "created"} :
        drop' = [drop EXCEPT ![d] = [at |-> at, upload |-> u, paid |-> Nothing]]
  BY DEF Takes
<1>2. [at |-> at, upload |-> u, paid |-> Nothing] \in DropRows
  BY DEF DropRows
<1>3. /\ drop' \in [Drops -> DropRows] /\ drop'[d].at = at /\ drop'[d].upload = u
      /\ \A e \in Drops : e # d => drop'[e] = drop[e]
  BY <1>1, <1>2 DEF DropInv
<1>4. drop[d].at = "idle" /\ asset[u].status = "ready" /\ UNCHANGED <<asset, day, usage, asked>>
  BY DEF Takes, AtRest, uploading
<1>5. \A n \in Days : usage[n] <= usage'[n] /\ usage'[n] <= Limit
  BY <1>4 DEF DropInv
<1> QED BY <1>3, <1>4, <1>5, SameAskers DEF DropInv

LEMMA AnsweredSafe ==
  ASSUME UploadConstants, DropInv, NEW d \in Drops, Answered(d)
  PROVE  DropInv'
<1>1. PICK a \in {"created", "refused"} : drop' = [drop EXCEPT ![d].at = a]
  BY DEF Answered, DropTo
<1>2. drop[d].at = "asked" /\ UNCHANGED <<asset, day, usage, asked>>
  BY DEF Answered, uploading
<1>3. /\ drop' \in [Drops -> DropRows] /\ drop'[d].at = a /\ drop'[d].upload = drop[d].upload
      /\ \A e \in Drops : e # d => drop'[e] = drop[e]
  BY <1>1, <1>2, DropMoves
<1>4. \A n \in Days : usage[n] <= usage'[n] /\ usage'[n] <= Limit
  BY <1>2 DEF DropInv
<1>5. asset[drop'[d].upload].status = "ready"
  BY <1>2, <1>3 DEF DropInv
<1> QED BY <1>2, <1>3, <1>4, <1>5, SameAskers DEF DropInv

LEMMA RefusedSafe ==
  ASSUME UploadConstants, DropInv, NEW d \in Drops, drop[d].at = "reserve", DropTo(d, "refused"),
         UNCHANGED <<uploading, day, asked>>,
         usage' \in {usage, [usage EXCEPT ![day] = IF @ < Limit THEN @ + 1 ELSE @]}
  PROVE  DropInv'
<1>1. drop' = [drop EXCEPT ![d].at = "refused"] /\ UNCHANGED <<asset, day, asked>>
  BY DEF DropTo, uploading
<1>2. /\ drop' \in [Drops -> DropRows] /\ drop'[d].at = "refused" /\ drop'[d].upload = drop[d].upload
      /\ \A e \in Drops : e # d => drop'[e] = drop[e]
  BY <1>1, DropMoves
<1>3. Limit \in Nat
  BY DEF UploadConstants
<1>4. usage \in [Days -> Nat] /\ day \in Days /\ \A n \in Days : usage[n] <= Limit
  BY DEF DropInv
<1>5. usage' \in [Days -> Nat] /\ \A n \in Days : usage[n] <= usage'[n] /\ usage'[n] <= Limit
  BY <1>3, <1>4
<1>6. asset[drop'[d].upload].status = "ready"
  BY <1>2 DEF DropInv
<1>7. drop[d].at # "ask" /\ drop'[d].at # "ask" /\ day' \in Days
  BY <1>1, <1>2, <1>4
<1> QED BY <1>1, <1>2, <1>5, <1>6, <1>7, SameAskers

\* One more is about to ask on a day that pays one more, or one that was about to has asked.
LEMMA AskersChange ==
  ASSUME UploadConstants, DropInv, NEW d \in Drops, drop' \in [Drops -> DropRows], asset' = asset, day' = day,
         \A e \in Drops : e # d => drop'[e] = drop[e], drop[d].at # "idle", drop'[d].upload = drop[d].upload,
         NEW n \in Days, drop'[d].at = "ask" => drop'[d].paid \in Days,
         usage' \in [Days -> Nat], asked' \in [Days -> Nat],
         \A m \in Days \ {n} : AboutToAsk(m)' = AboutToAsk(m) /\ usage'[m] = usage[m] /\ asked'[m] = asked[m],
         asked'[n] + Cardinality(AboutToAsk(n)') <= usage'[n], usage'[n] <= Limit
  PROVE  DropInv'
<1>1. \A m \in Days : asked'[m] + Cardinality(AboutToAsk(m)') <= usage'[m] /\ usage'[m] <= Limit
  <2> SUFFICES ASSUME NEW m \in Days
               PROVE  asked'[m] + Cardinality(AboutToAsk(m)') <= usage'[m] /\ usage'[m] <= Limit
    OBVIOUS
  <2>1. CASE m = n
    BY <2>1
  <2>2. CASE m # n
    <3>1. AboutToAsk(m)' = AboutToAsk(m) /\ usage'[m] = usage[m] /\ asked'[m] = asked[m]
      BY <2>2
    <3>2. asked[m] + Cardinality(AboutToAsk(m)) <= usage[m] /\ usage[m] <= Limit
      BY DEF DropInv
    <3> QED BY <3>1, <3>2
  <2> QED BY <2>1, <2>2
<1>2. \A e \in Drops : drop'[e].at # "idle" => asset'[drop'[e].upload].status = "ready"
  BY DEF DropInv
<1>3. \A e \in Drops : drop'[e].at = "ask" => drop'[e].paid \in Days
  BY DEF DropInv
<1> QED BY <1>1, <1>2, <1>3 DEF DropInv

LEMMA ReserveSafe ==
  ASSUME UploadConstants, DropInv, NEW d \in Drops, Reserve(d)
  PROVE  DropInv'
<1>1. CASE DropTo(d, "refused") /\ UNCHANGED usage
  BY <1>1, RefusedSafe DEF Reserve
<1>2. CASE usage[day] < Limit /\ usage' = [usage EXCEPT ![day] = @ + 1]
           /\ drop' = [drop EXCEPT ![d].at = "ask", ![d].paid = day]
  <2> DEFINE r == [drop[d] EXCEPT !.at = "ask", !.paid = day]
  <2>1. /\ drop \in [Drops -> DropRows] /\ drop[d] \in DropRows /\ day \in Days /\ drop[d].at = "reserve"
        /\ UNCHANGED <<asset, day, asked>> /\ usage \in [Days -> Nat] /\ asked \in [Days -> Nat]
    BY DEF DropInv, Reserve, uploading
  <2>2. drop' = [drop EXCEPT ![d] = r]
    BY <1>2, <2>1
  <2>3. r \in DropRows /\ r.at = "ask" /\ r.upload = drop[d].upload /\ r.paid = day
    <3>1. drop[d].at # "idle" /\ drop[d] \in DropRows /\ day \in Days
      BY <2>1
    <3> QED BY <3>1 DEF DropRows
  <2>4. /\ drop' \in [Drops -> DropRows] /\ drop'[d].at = "ask" /\ drop'[d].upload = drop[d].upload
        /\ drop'[d].paid = day /\ \A e \in Drops : e # d => drop'[e] = drop[e]
    BY <2>1, <2>2, <2>3
  <2> HIDE DEF r
  <2>5. AboutToAsk(day)' = AboutToAsk(day) \union {d} /\ d \notin AboutToAsk(day)
    BY <2>1, <2>4 DEF AboutToAsk
  <2>6. \A m \in Days \ {day} : AboutToAsk(m)' = AboutToAsk(m)
    BY <2>1, <2>4 DEF AboutToAsk
  <2>7. Cardinality(AboutToAsk(day)') = Cardinality(AboutToAsk(day)) + 1 /\ Cardinality(AboutToAsk(day)) \in Nat
    BY <2>5, AskersFinite, FS_AddElement
  <2>8. Limit \in Nat
    BY DEF UploadConstants
  <2>9. /\ usage' \in [Days -> Nat] /\ usage'[day] = usage[day] + 1 /\ usage'[day] <= Limit
        /\ \A m \in Days \ {day} : usage'[m] = usage[m]
    BY <1>2, <2>1, <2>8
  <2>10. asked'[day] + Cardinality(AboutToAsk(day)') <= usage'[day]
    <3> DEFINE k == Cardinality(AboutToAsk(day))
    <3>1. asked[day] + k <= usage[day] /\ asked[day] \in Nat /\ usage[day] \in Nat /\ k \in Nat
      BY <2>1, <2>7 DEF DropInv
    <3>2. Cardinality(AboutToAsk(day)') = k + 1 /\ asked'[day] = asked[day]
      BY <2>1, <2>7
    <3> HIDE DEF k
    <3>3. asked[day] + (k + 1) <= usage[day] + 1
      BY <3>1
    <3> QED BY <2>9, <3>2, <3>3
  <2> QED BY <2>1, <2>4, <2>6, <2>9, <2>10, AskersChange
<1> QED BY <1>1, <1>2 DEF Reserve

LEMMA AskSafe ==
  ASSUME UploadConstants, DropInv, NEW d \in Drops, Ask(d)
  PROVE  DropInv'
<1> DEFINE n == drop[d].paid
<1>1. /\ drop[d].at = "ask" /\ n \in Days /\ UNCHANGED <<asset, day, usage>>
      /\ usage \in [Days -> Nat] /\ asked \in [Days -> Nat]
  BY DEF DropInv, Ask, uploading
<1>2. /\ drop' \in [Drops -> DropRows] /\ drop'[d].at = "asked" /\ drop'[d].upload = drop[d].upload
      /\ drop'[d].paid = n /\ \A e \in Drops : e # d => drop'[e] = drop[e]
  BY <1>1, DropMoves DEF Ask, DropTo
<1>3. asked' \in [Days -> Nat] /\ asked'[n] = asked[n] + 1 /\ \A m \in Days \ {n} : asked'[m] = asked[m]
  BY <1>1 DEF Ask
<1>4. PICK x \in Days : x = n
  BY <1>1
<1> HIDE DEF n
<1>5. AboutToAsk(x)' = AboutToAsk(x) \ {d} /\ d \in AboutToAsk(x)
  BY <1>1, <1>2, <1>4 DEF AboutToAsk, n
<1>6. \A m \in Days \ {x} : AboutToAsk(m)' = AboutToAsk(m)
  BY <1>1, <1>2, <1>4 DEF AboutToAsk, n
<1>7. Cardinality(AboutToAsk(x)') = Cardinality(AboutToAsk(x)) - 1 /\ Cardinality(AboutToAsk(x)) \in Nat
  BY <1>5, AskersFinite, FS_RemoveElement
<1>8. asked'[x] + Cardinality(AboutToAsk(x)') <= usage'[x] /\ usage'[x] <= Limit
  <2> DEFINE k == Cardinality(AboutToAsk(x))
  <2>1. asked[x] + k <= usage[x] /\ usage[x] <= Limit /\ asked[x] \in Nat /\ usage[x] \in Nat /\ k \in Nat
    BY <1>1, <1>7 DEF DropInv
  <2>2. Cardinality(AboutToAsk(x)') = k - 1 /\ asked'[x] = asked[x] + 1 /\ usage'[x] = usage[x]
    BY <1>1, <1>3, <1>4, <1>7
  <2> HIDE DEF k
  <2>3. (asked[x] + 1) + (k - 1) <= usage[x]
    BY <2>1
  <2> QED BY <2>1, <2>2, <2>3
<1> QED BY <1>1, <1>2, <1>3, <1>4, <1>6, <1>8, AskersChange

LEMMA DropSteps ==
  ASSUME UploadConstants, UploadInv, DropInv, UploadNext \/ UNCHANGED uploadVars
  PROVE  DropInv'
<1>1. ASSUME NEW d \in Drops, ReserveUncertain(d) PROVE DropInv'
  BY <1>1, RefusedSafe DEF ReserveUncertain
<1>2. ASSUME NEW d \in Drops, \/ Reserve(d) \/ Ask(d) \/ Answered(d) \/ \E u \in Uploads : Takes(d, u)
      PROVE DropInv'
  BY <1>2, ReserveSafe, AskSafe, AnsweredSafe, TakesSafe
<1>3. CASE Midnight
  BY <1>3 DEF Midnight, uploading, DropInv, AboutToAsk
<1>4. CASE UNCHANGED drafting
  <2>1. \A d \in Drops : drop[d].at # "idle" => drop[d].upload \in Uploads
    BY DEF DropInv, DropRows
  <2>2. \A d \in Drops : drop'[d].at # "idle" => asset'[drop'[d].upload].status = "ready"
    BY <1>4, <2>1, ReadyStays DEF DropInv, drafting
  <2> QED BY <1>4, <2>2 DEF DropInv, AboutToAsk, drafting
<1>5. \/ \E d \in Drops : \/ Reserve(d) \/ ReserveUncertain(d) \/ Ask(d) \/ Answered(d)
                          \/ \E u \in Uploads : Takes(d, u)
      \/ Midnight \/ UNCHANGED drafting
  BY DEF UploadNext, uploadVars, drafting, CreateRow, CreateFile, SaveKey, InitFails, LosesAnswer, SendNext, Resend,
         TakeLock, Stat, Write, Measure, SaveReceived, Complete, Mark, Expire, Breaks
<1> QED BY <1>1, <1>2, <1>3, <1>4, <1>5

LEMMA WholeFile ==
  ASSUME UploadConstants, UploadInv, NEW u \in Uploads, u \notin overran, asset[u].status = "ready"
  PROVE  file[u] = Whole
<1>1. file[u] \in Seq(Nat) /\ Len(file[u]) = Size /\ \A i \in 1..Len(file[u]) : file[u][i] = i
  BY UploadFields DEF UploadInv, UploadOK, Begins
<1>2. DOMAIN file[u] = 1..Size
  BY <1>1
<1>3. file[u] = [i \in 1..Size |-> file[u][i]]
  BY <1>1, <1>2
<1> QED BY <1>1, <1>3 DEF Whole

\* Whatever is sent twice, torn, refused or left in the middle, and however many uploads
\* and requests there are: a file that is ready is the file that was sent unless a
\* transaction expired under its append, an upload that its browser still sends is as far
\* as the row says, and a day pays for all the provider calls it is charged
\* (appendChunk, complete, reserve).
THEOREM UploadKeptAlways ==
  ASSUME UploadConstants
  PROVE  UploadSpec => [](ReadyIsWhole /\ TabInStep /\ WithinBudget)
<1>1. UploadInit => UploadInv /\ DropInv
  BY UploadStarts, DropStarts
<1>2. UploadInv /\ DropInv /\ [UploadNext]_uploadVars => (UploadInv /\ DropInv)'
  <2>1. ASSUME UploadInv, DropInv, UploadNext \/ UNCHANGED uploadVars PROVE UploadInv'
    BY <2>1, UploadSteps
  <2>2. ASSUME UploadInv, DropInv, UploadNext \/ UNCHANGED uploadVars PROVE DropInv'
    BY <2>2, DropSteps
  <2> QED BY <2>1, <2>2
<1>3. UploadInv /\ DropInv => ReadyIsWhole /\ TabInStep /\ WithinBudget
  <2> SUFFICES ASSUME UploadInv, DropInv PROVE ReadyIsWhole /\ TabInStep /\ WithinBudget
    OBVIOUS
  <2>1. ReadyIsWhole
    BY WholeFile DEF ReadyIsWhole, UploadInv, UploadOK, DropInv, AtRest, DropRows
  <2>2. TabInStep
    BY DEF TabInStep, UploadInv, UploadOK
  <2>3. WithinBudget
    <3> SUFFICES ASSUME NEW n \in Days PROVE asked[n] <= usage[n] /\ usage[n] <= Limit
      BY DEF WithinBudget
    <3> DEFINE k == Cardinality(AboutToAsk(n))
    <3>1. k \in Nat /\ asked[n] \in Nat /\ usage[n] \in Nat /\ asked[n] + k <= usage[n] /\ usage[n] <= Limit
      BY AskersFinite DEF DropInv
    <3> HIDE DEF k
    <3> QED BY <3>1
  <2> QED BY <2>1, <2>2, <2>3
<1> QED BY <1>1, <1>2, <1>3, PTL DEF UploadSpec
=============================================================================
