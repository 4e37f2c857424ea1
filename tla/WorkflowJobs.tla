----------------------------- MODULE WorkflowJobs -----------------------------
(***************************************************************************)
(* The jobs of one workspace on the BullMQ queue, and what the processor    *)
(* does with them: invitation mail, notices about an event, the overdue and *)
(* stale scans and the digests.  The queue itself is external: a custom job *)
(* id is accepted once; the next iteration of a repeatable job is queued    *)
(* when one is taken; a worker that dies, or stalls and goes on, loses its  *)
(* job to another once.  So two runs of one scan overlap wherever there is  *)
(* a second process to take it.                                             *)
(***************************************************************************)
EXTENDS Naturals, FiniteSets, Functions

CONSTANTS
  Consumers,       \* API processes that consume the queue, one job at a time
  Operators,     \* owners and members of the workspace
  Occurrences,   \* occurrences reported by approval.notify and its like
  Invites,       \* invitations whose mail is to be drafted
  Repeating,     \* repeatable jobs of this instance, among RepeatingJobs
  MaxDays,       \* bound: UTC days that pass
  DaysPerWeek,   \* length of the ISO week in days of the model
  MaxJobs,       \* bound: jobs that enter the queue
  MaxStalls      \* bound: jobs whose process dies or stalls

RepeatingJobs == {"overdue", "stale", "daily", "weekly"}

JobConstants ==
  /\ Repeating \subseteq RepeatingJobs
  /\ {MaxDays, DaysPerWeek} \subseteq Nat \ {0}
  /\ {MaxJobs, MaxStalls} \subseteq Nat
  /\ IsFiniteSet(Consumers)
  /\ RepeatingJobs \intersect (Occurrences \union Invites) = {}
  /\ Occurrences \intersect Invites = {}

VARIABLES
  today,     \* the UTC day
  waiting,   \* jobs in the queue, each an iteration of its own
  known,     \* ids the queue has accepted
  processing,   \* processing[w]: the job of a worker and where the processor stands
  rows,      \* rows[<<o, k, d>>]: WorkflowNotification rows, by day of creation
  drafts,    \* history: mail drafts made for o about k on day d
  invite,    \* invite[i]: status, whether it has lapsed, deliveryChannel
  invited,   \* history: drafts of an invitation
  queued,    \* jobs that have entered the queue
  stalled    \* jobs that have been lost by their process

jobVars == <<today, waiting, known, processing, rows, drafts, invite, invited, queued, stalled>>

CalendarDays == 1..MaxDays
WeekOf(d) == (d - 1) \div DaysPerWeek
Kinds == Repeating \union Occurrences

\* The first day of the window in which a recipient is to get k once.
WindowStart(k, d) == IF k = "weekly" THEN WeekOf(d) * DaysPerWeek + 1 ELSE d

HasRowSince(o, k, since) == \E d \in CalendarDays : d >= since /\ rows[<<o, k, d>>] > 0

\* Who is to get a notification and who a mail draft.  A digest follows one
\* switch for both, every other kind the two channels of its category; members
\* change their preferences at any time.
IsDigest(k) == k \in {"daily", "weekly"}
Audience(k) == {a \in [rows : SUBSET Operators, drafts : SUBSET Operators] :
                  IsDigest(k) => a.rows = a.drafts}

Nobody == "nobody"
Free == [at |-> "free", job |-> [id |-> "none", nr |-> 0, stalls |-> 0], since |-> 1,
         todo |-> {}, who |-> Nobody, toRow |-> {}, toDraft |-> {}]
Job(id) == [id |-> id, nr |-> queued + 1, stalls |-> 0]

JobsInit ==
  /\ today = 1
  /\ waiting = {} /\ known = {}
  /\ processing = [w \in Consumers |-> Free]
  /\ rows = [x \in Operators \X Kinds \X CalendarDays |-> 0]
  /\ drafts = [x \in Operators \X Kinds \X CalendarDays |-> 0]
  /\ invite = [i \in Invites |-> [status |-> "pending", lapsed |-> FALSE, channel |-> "none"]]
  /\ invited = [i \in Invites |-> 0]
  /\ queued = 0 /\ stalled = 0

----------------------------------------------------------------------------
(* Producers and the queue.                                                 *)

\* enqueueInviteSend and enqueueApprovalNotify: the id is made of the invite,
\* or of the approval, the event and its time, so it is accepted once.
Enqueue ==
  /\ queued < MaxJobs /\ queued' = queued + 1
  /\ \E id \in (Occurrences \union Invites) \ known :
       /\ waiting' = waiting \union {Job(id)}
       /\ known' = known \union {id}
  /\ UNCHANGED <<today, processing, rows, drafts, invite, invited, stalled>>

\* The next iteration of a repeatable job is queued once the last one has been
\* taken, whether or not that one is done, and comes up when its time is there.
NextIterationWaits(k) == \E j \in waiting : j.id = k /\ j.stalls = 0
Repeat ==
  /\ queued < MaxJobs /\ queued' = queued + 1
  /\ \E k \in Repeating : ~NextIterationWaits(k) /\ waiting' = waiting \union {Job(k)}
  /\ UNCHANGED <<today, known, processing, rows, drafts, invite, invited, stalled>>

FirstStep(id) == IF id \in Invites THEN "check" ELSE IF id \in Occurrences THEN "rows" ELSE "next"

\* The processor starts: day, recipients and preferences are read once.
Take(w) ==
  /\ processing[w].at = "free"
  /\ \E j \in waiting : \E a \in Audience(j.id) :
       /\ waiting' = waiting \ {j}
       /\ processing' = [processing EXCEPT ![w] =
            [at |-> FirstStep(j.id), job |-> j, since |-> WindowStart(j.id, today), who |-> Nobody,
             todo |-> IF j.id \in Invites THEN {} ELSE Operators,
             toRow |-> a.rows, toDraft |-> a.drafts]]
  /\ UNCHANGED <<today, known, rows, drafts, invite, invited, queued, stalled>>

\* The process dies; or it stalls, loses the lock of its job and goes on with it
\* beside whoever takes it next.  A job that stalls a second time is given up.
Stall(w) ==
  LET j == processing[w].job
      lost == [j EXCEPT !.stalls = 1]
  IN
  /\ processing[w].at # "free"
  /\ stalled < MaxStalls /\ stalled' = stalled + 1
  /\ \/ /\ waiting' = IF j.stalls = 0 THEN waiting \union {lost} ELSE waiting
        /\ processing' = [processing EXCEPT ![w] = Free]
     \/ /\ j.stalls = 0
        /\ waiting' = waiting \union {lost}
        /\ processing' = [processing EXCEPT ![w].job = lost]
  /\ UNCHANGED <<today, known, rows, drafts, invite, invited, queued>>

----------------------------------------------------------------------------
(* Notices about an event: rows first, all at once, then a draft each.      *)

AddRow(S, k) ==
  rows' = [x \in DOMAIN rows |-> rows[x] + (IF x[1] \in S /\ x[2] = k /\ x[3] = today THEN 1 ELSE 0)]

\* createForRecipients: Promise.all of single creates.  When one fails the job
\* fails, and those that were made stay.
CreateRows(w) ==
  LET k == processing[w].job.id IN
  /\ processing[w].at = "rows"
  /\ \/ /\ AddRow(processing[w].toRow, k)
        /\ processing' = [processing EXCEPT ![w].at = "mail"]
     \/ \E S \in SUBSET processing[w].toRow :
          /\ S # processing[w].toRow
          /\ AddRow(S, k)
          /\ processing' = [processing EXCEPT ![w] = Free]
  /\ UNCHANGED <<today, waiting, known, drafts, invite, invited, queued, stalled>>

\* draftForOperatorIfEnabled: the operator may have mail switched off, and a
\* draft that fails is logged and passed over.
AddDraft(o, k) == drafts' = [drafts EXCEPT ![<<o, k, today>>] = @ + 1] \/ UNCHANGED drafts

MailNext(w) ==
  /\ processing[w].at = "mail"
  /\ \E o \in processing[w].toDraft :
       /\ AddDraft(o, processing[w].job.id)
       /\ processing' = [processing EXCEPT ![w].toDraft = @ \ {o}]
  /\ UNCHANGED <<today, waiting, known, rows, invite, invited, queued, stalled>>

EventDone(w) ==
  /\ processing[w].at = "mail" /\ processing[w].toDraft = {}
  /\ processing' = [processing EXCEPT ![w] = Free]
  /\ UNCHANGED <<today, waiting, known, rows, drafts, invite, invited, queued, stalled>>

----------------------------------------------------------------------------
(* Scans and digests: one recipient after the other.                        *)

Wanted(w, o) == o \in processing[w].toRow \union processing[w].toDraft

AlreadyTold_Today(w, o) == HasRowSince(o, processing[w].job.id, today)
AlreadyTold(w, o) == HasRowSince(o, processing[w].job.id, processing[w].since)

\* A recipient is passed over if nothing is wanted, a row of this window is
\* there already, or (in a digest) every section came out empty.
NextRecipient(w) ==
  /\ processing[w].at = "next"
  /\ \E o \in processing[w].todo, empty \in BOOLEAN :
       LET tell == Wanted(w, o) /\ ~AlreadyTold(w, o) /\ ~empty
       IN /\ empty => IsDigest(processing[w].job.id)
          /\ processing' = [processing EXCEPT ![w] =
               [processing[w] EXCEPT !.todo = @ \ {o},
                         !.at = IF tell THEN "row" ELSE "next",
                         !.who = IF tell THEN o ELSE Nobody]]
  /\ UNCHANGED <<today, waiting, known, rows, drafts, invite, invited, queued, stalled>>

\* The row, for whoever wants one; a failing create ends the job.
RecipientRow(w) ==
  /\ processing[w].at = "row"
  /\ \/ /\ AddRow({processing[w].who} \intersect processing[w].toRow, processing[w].job.id)
        /\ processing' = [processing EXCEPT ![w].at = "draft"]
     \/ processing' = [processing EXCEPT ![w] = Free] /\ UNCHANGED rows
  /\ UNCHANGED <<today, waiting, known, drafts, invite, invited, queued, stalled>>

RecipientDraft(w) ==
  /\ processing[w].at = "draft"
  /\ IF processing[w].who \in processing[w].toDraft
     THEN AddDraft(processing[w].who, processing[w].job.id) ELSE UNCHANGED drafts
  /\ processing' = [processing EXCEPT ![w].at = "next", ![w].who = Nobody]
  /\ UNCHANGED <<today, waiting, known, rows, invite, invited, queued, stalled>>

ScanDone(w) ==
  /\ processing[w].at = "next" /\ processing[w].todo = {}
  /\ processing' = [processing EXCEPT ![w] = Free]
  /\ UNCHANGED <<today, waiting, known, rows, drafts, invite, invited, queued, stalled>>

----------------------------------------------------------------------------
(* The mail of an invitation.                                               *)

Invited(w) == processing[w].job.id

\* Only a pending invitation is drafted; one that has lapsed is marked.
CheckInvite(w) ==
  LET i == Invited(w) IN
  /\ processing[w].at = "check"
  /\ IF invite[i].status = "pending" /\ ~invite[i].lapsed
     THEN /\ processing' = [processing EXCEPT ![w].at = "draftInvite"]
          /\ UNCHANGED invite
     ELSE /\ processing' = [processing EXCEPT ![w] = Free]
          /\ invite' = IF invite[i].status = "pending"
                       THEN [invite EXCEPT ![i].status = "expired"] ELSE invite
  /\ UNCHANGED <<today, waiting, known, rows, drafts, invited, queued, stalled>>

\* Gmail makes the draft and answers, makes it without answering, or refuses.
DraftInvite(w) ==
  LET i == Invited(w) IN
  /\ processing[w].at = "draftInvite"
  /\ \E made \in BOOLEAN, answered \in BOOLEAN :
       /\ answered => made
       /\ invited' = [invited EXCEPT ![i] = @ + (IF made THEN 1 ELSE 0)]
       /\ processing' = [processing EXCEPT ![w].at = IF answered THEN "delivered" ELSE "undelivered"]
  /\ UNCHANGED <<today, waiting, known, rows, drafts, invite, queued, stalled>>

\* Writes the channel whatever the status has become.  When the write of the
\* success or the audit row behind it fails, the failure is written instead.
RecordDelivery(w) ==
  LET i == Invited(w)
      channel == IF processing[w].at = "delivered" THEN "gmail_draft" ELSE "failed"
  IN
  /\ processing[w].at \in {"delivered", "undelivered"}
  /\ \/ /\ invite' = [invite EXCEPT ![i].channel = channel]
        /\ processing' = [processing EXCEPT ![w] = Free]
     \/ /\ processing[w].at = "delivered"
        /\ \E written \in BOOLEAN :
             invite' = [invite EXCEPT ![i].channel = IF written THEN channel ELSE @]
        /\ processing' = [processing EXCEPT ![w].at = "undelivered"]
  /\ UNCHANGED <<today, waiting, known, rows, drafts, invited, queued, stalled>>

----------------------------------------------------------------------------
(* Members and the calendar.                                                *)

\* Accepted or revoked through the API, or past its expiry, once it is made.
InviteMoves ==
  /\ \E i \in Invites \intersect known :
       /\ invite[i].status = "pending"
       /\ \/ invite' = [invite EXCEPT ![i].status = "revoked"]
          \/ ~invite[i].lapsed /\ invite' = [invite EXCEPT ![i].status = "accepted"]
          \/ ~invite[i].lapsed /\ invite' = [invite EXCEPT ![i].lapsed = TRUE]
  /\ UNCHANGED <<today, waiting, known, processing, rows, drafts, invited, queued, stalled>>

DayEnds ==
  /\ today < MaxDays
  /\ today' = today + 1
  /\ UNCHANGED <<waiting, known, processing, rows, drafts, invite, invited, queued, stalled>>

JobsNext ==
  \/ Enqueue \/ Repeat \/ InviteMoves \/ DayEnds
  \/ \E w \in Consumers :
       \/ Take(w) \/ Stall(w)
       \/ CreateRows(w) \/ MailNext(w) \/ EventDone(w)
       \/ NextRecipient(w) \/ RecipientRow(w) \/ RecipientDraft(w) \/ ScanDone(w)
       \/ CheckInvite(w) \/ DraftInvite(w) \/ RecordDelivery(w)

JobsSpec == JobsInit /\ [][JobsNext]_jobVars

----------------------------------------------------------------------------
(* Properties.                                                              *)

JobsTypeOK ==
  /\ today \in CalendarDays
  /\ waiting \subseteq [id : Kinds \union Invites, nr : 0..MaxJobs, stalls : 0..1]
  /\ known \subseteq Occurrences \union Invites
  /\ rows \in [Operators \X Kinds \X CalendarDays -> Nat]
  /\ drafts \in [Operators \X Kinds \X CalendarDays -> Nat]
  /\ invite \in [Invites -> [status : {"pending", "accepted", "revoked", "expired"},
                             lapsed : BOOLEAN, channel : {"none", "gmail_draft", "failed"}]]
  /\ invited \in [Invites -> Nat]
  /\ queued \in 0..MaxJobs /\ stalled \in 0..MaxStalls

\* However scans overlap, stall and run over midnight, a recipient gets no more
\* notifications of a scan or digest in a day or ISO week than there are processes
\* (so one, from a single process: between the look for a row and its creation only
\* another process can make one), and no more drafts of a digest than notifications;
\* and an invitation recorded as drafted was drafted (taskCheckOverdue,
\* digestGenerate, hasNotificationSince, createForRecipients, inviteSend).
CountOver(f, o, k, S) == SumFunction([d \in S |-> f[<<o, k, d>>]])
WindowDays(k, d) == {e \in CalendarDays : WindowStart(k, e) = WindowStart(k, d)}

ToldOnce ==
  /\ \A o \in Operators, k \in Repeating :
       /\ \A d \in CalendarDays : CountOver(rows, o, k, WindowDays(k, d)) <= Cardinality(Consumers)
       /\ IsDigest(k) =>
            CountOver(drafts, o, k, CalendarDays) <= CountOver(rows, o, k, CalendarDays)
  /\ \A i \in Invites : invite[i].channel = "gmail_draft" => invited[i] > 0

\* "At most one in-app + email draft per recipient per UTC day per digest kind"
\* (docs/workflow-automation.md:96-97): the scans look for a row before they draft.
OneDraftPerDay ==
  \A o \in Operators, k \in Repeating \ {"daily", "weekly"}, d \in CalendarDays :
    drafts[<<o, k, d>>] <= 1
=============================================================================
