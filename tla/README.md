# StoryBoard: models, checks and proofs

StoryBoard (`src/`) is a NestJS API with a BullMQ worker, a PostgreSQL database
behind Prisma and a Next.js front end. A band plans shows and outreach in it;
whatever touches the outside world (Gmail, Calendar, Drive, social platforms)
goes through an approval a member gives. The hard part of the program is that
gate and the state machines around it: several API processes, a worker that
retries jobs, provider calls that may take effect while their answer is lost,
and no transaction that spans both a provider and the database.

This directory holds TLA+ modules of those state machines, TLC configurations
that check small instances, and TLAPS proofs for every size.

## 1. The system

| Component | State it keeps | Operations | Interacts through |
| --- | --- | --- | --- |
| Approvals (`apps/api/src/approvals`) | `ApprovalRequest` (status, `executionAttemptedAt`, payload), `ApprovalReconciliation` | create, approve, reject, dry run, execute, record reconciliation, work queue | provider adapters; `ManagerRecommendation`; campaign, reply and show rows changed by the finalising transaction |
| Booking campaigns and replies (`booking`) | `BookingCampaign`, `Recipient`, `Delivery`, `BookingReply` | edit, add and patch recipients, prepare a batch, sync, analyse and apply replies | creates approvals; executed by Approvals; Gmail threads |
| Team (`memberships`, `auth/role-policy`) | `ArtistMembership`, `ArtistMembershipInvite` | change role, remove, invite, revoke, accept, expire, onboard | session cookie; `invite.send` job |
| Social publishing (`social`) | `SocialPost`, `SocialPostTarget`, media, caption budget | draft, approve, present, execute per target, receipts, uploads | one approval per batch; platform adapters |
| Manager (`manager`) | runs, recommendations, goals, decisions, profile, memory, conversations, ratings, examples | set up, brief, chat, capture a request, answer a recommendation, decide, rate, review outcomes | creates tasks, events, projects and approvals; receives outcomes back; reads nearly every table |
| Tasks (`tasks`) | `Task`, `TaskDependency` | create, patch, add and remove prerequisites | Manager, campaigns |
| Workflow automation (`workflow-automation`, `queue`) | `WorkflowNotification`, `TelegramUrgentDedupe`, BullMQ jobs | scans, digests, notifications, urgent Telegram messages | Redis; Telegram; rows of the other components |
| Stripe webhooks (`integrations/stripe-*`) | `StripeWebhookEvent` | claim, apply, complete, promote | Stripe redelivery; invoices |
| Operations (`operations`) | shows, deals, agreements, invoices, settlements, setlists | row edits with status checks | Manager, Stripe |
| Auth and OAuth (`auth`, `integrations/google-*`, `social/social-oauth`) | signed cookies, `IntegrationConnection`, `SocialAccount` | login, connection of an account, callback, token storage | Google, Meta, YouTube, TikTok; the adapters of Approvals and Social publishing act with the tokens |
| Commands, dashboard, summary, advisor, operational intelligence | `CommandRun`, advisor runs | parsers and read-only projections | reads the others |
| Venues, contacts, artists, audit | single rows | create, update, list | |
| Shared package, web, scripts | none | schemas, guards, rendering | |

Behaviours that are hard here: two members acting on the same row (every API
handler interleaves at its awaits), a process that dies between a durable mark
and a provider call, a provider that acts without answering, local writes that
fail after the outside world changed, evidence that is older than what it is
evidence of, and work prepared again after it failed. `PROJECT.json` lists each
at the line where it bites, with the properties that would catch it.

## 2. Modules

| Module | Models | Proved |
| --- | --- | --- |
| `ApprovalRows` | the pure part: lifecycle stage, lease, SQL counts, projection of a recommendation | used by the proofs |
| `OneShotEffect` | what the gate promises, without any of its mechanism | |
| `ApprovalLifecycle` | `ApprovalsService` | `ApprovalLifecycleProofs`, eleven theorems |
| `CampaignDelivery` | a campaign, its batches and their execution per recipient | `RecordsProofs`, one theorem |
| `BookingPipeline` | prospects converted to opportunities, the stages of an opportunity, the terms and the confirmation of a reply | `OperationsProofs`, two |
| `TeamAccess` | members and invitations of one workspace | at its end, two |
| `Workspaces` | one browser: signing in, the band each tab shows and acts in, bands made | `SocialPublishingProofs`, two |
| `StripeWebhook` | the deliveries of one Stripe event | `BackgroundProofs`, four |
| `SocialPublishing` | one drop: review, approval, execution per platform, what is shown | `SocialPublishingProofs`, four |
| `SocialAdapters` | the requests one adapter makes to publish one post | `SocialPublishingProofs`, one |
| `ConnectedAccounts` | the accounts a band is connected to, and what acts with their tokens | `DailyProofs`, two |
| `MediaUpload` | a file sent in chunks beside its row, the drops that take it and the caption budget | `RecordsProofs`, one |
| `TaskGraph` | tasks and prerequisites of a workspace | `RecordsProofs`, four |
| `BriefSchedule` | the scheduled brief of the Manager on several workers | `BackgroundProofs`, one |
| `ManagerIntake` | the setup of the Manager: profile, performers, starter plan | |
| `ManagerBrief` | what a brief proposes, how it is merged, ranked and cut, and how long it is served | |
| `ManagerChat` | a conversation with the Manager: routes, visibility, memory, ratings | `ManagerProofs`, two |
| `ManagerCapture` | what a message that asks for a change is read as, and the reading again | `ApprovalLifecycleProofs`, two theorems |
| `ManagerSignals` | order of work, commitments, goal paths, plan health, team load | |
| `ManagerKnowledge` | the profile, the facts it is the authority for, and what is made of both | |
| `ManagerCoverage` | open questions and the areas of records they are about | |
| `ManagerOutcomes` | the review of what came of shows, projects and pitches | |
| `ManagerDecisions` | decisions of the band | `ManagerProofs`, two |
| `ManagerLearning` | ratings, examples, their resolution, and the evaluation of a version | `BackgroundProofs`, one |
| `ManagerAcceptance` | answers to recommendations, with the recheck of what they are about | `ManagerProofs`, two |
| `ManagerReceipts` | what a recommendation says of its approvals and its record, and the decisions of members on it | `ManagerProofs`, two |
| `Telegram` | urgent messages and their dedupe rows, registration tokens of chats | `DailyProofs`, two |
| `WorkflowJobs` | the jobs of the queue: notices, scans, digests, invitation mail | `OperationsProofs`, one |
| `InvoiceLedger` | invoices, payments and their idempotency keys | `OperationsProofs`, one |
| `ShowSettlement` | expenses, splits and the final settlement of a show | `OperationsProofs`, one |
| `EventLogistics` | calendar holds for the versions of a show | `DailyProofs`, one |
| `SetlistEditing` | a running order edited in a browser against the saved one | `RecordsProofs`, one |
| `CatalogImport` | the catalogue importer: plan, upsert and reconciliation on songs and setlists | |
| `ShowDay` | the day of a show: what is next, the cursor, the facts recorded afterwards | `OperationsProofs`, three |
| `ApprovalLifecycleProofs`, `BackgroundProofs`, `DailyProofs`, `RecordsProofs`, `OperationsProofs`, `ManagerProofs`, `SocialPublishingProofs` | the theorems and their lemmas (section 4) | |
| `MCApprovalLifecycle` | instances of `ApprovalLifecycle` | |
| `MCClaims`, `MCDaily`, `MCRecords`, `MCRequests` | instances of several modules, one run each | |

### How the modules read the code

One database transaction, or one statement outside a transaction, is one
action. A handler of several statements is several actions with the local
variables of the request kept in a record (`exec`, `req`, `handling`, ...), so any
other request may run at each `await`. Transactions run at PostgreSQL's default
READ COMMITTED except where the code asks for Serializable
(`recordReconciliationOnce`, `prepareApproval`); an action stands for a READ
COMMITTED transaction only where one guarded write in it decides, or where the
row is locked first. Where it goes on to read what it has not locked and writes what it
concludes, those reads are actions before the commit: the projection of a recommendation
(`ReadRecommendation`, `ReadLinked`), `FinalizeCheck` of a campaign, `ReadConfirmation` of a
booking. The code retries a Serializable transaction that loses;
the retry is the same action taken later. Where another retry policy or a lost commit matters
(`StripeWebhook`, and `createWorkspace` in `Workspaces`), reads, commit, abort and retry
are actions of their own.

Definitions whose name has an underscore (`Unclaimed_StatusOnly`) are a guard as
a plausible mistake would leave it. No specification uses them; they exist so
that each property can be shown to notice the mistake.

The last four MC modules check several components in one run. A component that one
instance is enough for is extended, so that the run checks the very definitions its
theorems name: `MCClaims` extends `ApprovalLifecycle`; `MCDaily` extends `Telegram`, `EventLogistics`, `WorkflowJobs` and
`ManagerChat`; `MCRecords` extends `TaskGraph`, `CampaignDelivery`, `SetlistEditing`,
`InvoiceLedger` and `ShowSettlement`; `MCRequests` extends `SocialPublishing`. A
component that needs several instances, shares names with an extended one, or has no theorems,
is instantiated, mostly over shared slots (`v1`, `v2`, ...); a theorem about it is then about
the definition behind a checked property (`Hook!AppliedOnce`, `Carried!ReceiptHonest`) or a
conjunct of one (`Race!Joins` in `InvitesHonoured`). A variable
`part` that the initial state chooses and no step changes says which of them
moves: a behaviour is a behaviour of one component, and the components that really share
rows are composed in a module of their own (`ApprovalLifecycle` with the projection on
recommendations, `BookingPipeline` with replies and shows).

**ApprovalLifecycle.** `status`, `attempt`, `result` and `receipts` are the row,
`executionAttemptedAt` against the clock, what `payload.executionResult`
proves, and the reconciliation rows. `exec[e]` is one running
`executeApproved`: `ReadApproved`, then `Claim`/`ClaimLost` (the compare-and-set)
or `WritePreview`, `CallProvider` once per item of the batch (answered, failed,
or done with the answer lost), `Finalize`, `Audit`, and on any error `ReadBack`
and `FinalizeFailed`; `Abort` is every other throw of the `try` block and `Crash`
the death of the process. A transaction that changes a row also projects it onto its
recommendation. It holds the lock of that row only: `txn[k, a]` keeps what it has read of
the recommendation (`ReadRecommendation`) and then of the linked rows (`ReadLinked`),
other transactions commit between those reads and the commit, and the write
(`ReconcileRecommendation`, within the commit) has no guard and is skipped when the outcome
is the one that was read. So two siblings that finish at once may both leave
"blocked" behind (run `approval_stale`). A receipt is Serializable: its reads are one
snapshot (`k` is "receipt"), taken again after a conflict. `ReadMayFail` lets the read of the catch
block fail on its own, after which an executed row is marked failed (run
`approval_reversed`). Linked approvals are the calendar hold and the folder of a show and
nothing else: an acceptance is Serializable, plans the two at once, and their source keys make
them new rows. Decisions of members on a linked recommendation are in `ManagerReceipts`. `Observe` and `RecordReconciliation` are a member who looks
at the provider and reports later. `made`, `effect` and `acked` are history
variables the code does not keep: what really happened outside.

**CampaignDelivery.** `campaign`, `recipient`, `contact`, `delivery` and `tasks`
are the tables; `batch` is the approval row of each batch; `exec[b]` is the loop
over its recipients (`MarkSending` is the durable mark before each `Send`).
`FinalizeCheck` and `FinalizeCommit` are the read and the writes of the
finalising transaction, which under READ COMMITTED a member's edit may
separate. Gmail is real; `mailed` counts what left.

**TeamAccess.** `member`, `invite` and the local state of each request. Counting
owners, reading the target row and writing it are three steps.

**StripeWebhook.** `row` is the `StripeWebhookEvent`, `effects` counts the
committed writes of the handler (the processor in `stripe-webhook.service.ts` only
acknowledges today; its interface is a handler that writes in the same
transaction). `tx[d]` is the one Serializable transaction of a
delivery, its uncommitted row in `draft`: `Begin`, `InsertClaim` (which waits for
whoever has written the row) or `InsertConflicts`, `LockRow` (`FOR UPDATE
NOWAIT`), then `PromoteApplied` for an event already handled, or `Reclaim` of a
lapsed claim, and `MarkApplied`, `Work`, `MarkCompleted`, `Commit`. `InFlight` is
the refusal that makes Stripe try again, `Rollback` every other way the
transaction ends without its writes, and `stale` what PostgreSQL knows of commits
since its snapshot. A row may already be there when the model
starts: an abandoned claim or an applied event, as the design before migration
`20261013060000` left them.

**SocialPublishing.** `post`, `row`, `approval` are the tables; a target's
caption, title, tags and media are one `content`. `View` is an owner opening the
drop, `ApproveRead` and `ApproveWrite` the two halves of the transaction of
`approveAndPost`, `Decided` the branch for a drop somebody else decided,
`ApproveInCenter`, `Reject` and `ExecuteInCenter` Approval Center on the same
rows. `Read` to `Catch` follow one execution through
`ApprovalsService.executeApproved` and `SocialExecutionService.executeApproved`
with its three durable claims (`Claim`, `ClaimPost`, `ClaimTarget`); `Throws` is
any statement that fails and leads to the enclosing catch block, `Crash` the end
of a process. `ShownTarget` and `ShownPost` are `presentPost`. What reached a
platform and what its owner had agreed to are the history variables `sent` and
`reviewed`. simulated results are left out (in mock mode every target has one and
it is complete), refused counts as failed, expired as rejected. That adapters
answer `failed` only when nothing was published is assumed of them (`Reached`);
an answer nobody can trust is `unknown`.

**TaskGraph.** `task` and `edges` are `Task` and `TaskDependency`. `req[q]` is a
patch between what it reads (`PatchRead`) and its transaction (`PatchWrite`);
`unchanged` says that `updatedAt` is still what it has read. Every other writer is a
Serializable transaction, removes an edge or creates a row nobody refers to yet,
so it is one action. `dependencyWouldCycle` is `WouldCycle`: what its search
visits is the least set closed under the scanned edges, and `Scans` are the edges
`findMany` may return under its `take`. `Acyclic` is stated without any search.
`todo` and `in_progress` are one status, as nothing here tells them apart.
Writers of owners, links and `waitingOn` change no field of the model; all they
do to it is to make an open patch fail, as `GiveUp` does.

**SocialAdapters.** `call` is the one running `publish`, `remote` what the platform
really holds, `calls` the requests made. Every request may be refused, answered,
or carried out with its answer lost. Facebook's resumable upload (`Transfer`
with offsets the platform chooses), Instagram's containers and their polling, and
YouTube's session are the three shapes; X and plain Facebook posts are a single
`Publish`.

**MediaUpload.** `asset` is the row, `file` the pieces on disk, `tab` the browser that
sends, `call[c]` a request in the server. A chunk is several pieces, so an append may stop
in its middle. The row is locked while the transaction of the handler lasts: `Expire`
ends the transaction and its lock while the append goes on, and `overran` remembers the
uploads it happened to. `Refuse` is every error the browser is told, `Breaks` a failing
write or a dead process, `Resend` a request delivered twice. `drop`, `usage` and `day` are
the drafts and `SocialCaptionDailyUsage`; `asked` counts the calls a day really paid for.

**Workspaces.** `band` and `joined` are `Artist` and `ArtistMembership`, `cookie` what all
tabs share, `page` what a tab shows. A request in `request` carries the cookies of the moment it
was sent, and `Callback`, `Switched`, `SignedOut` and `AnswerArrives` change them when the answer
arrives. Band 1 belongs to others, who let operators in and out (`ChangeTeam`). `ReadToCreate`,
`Commit`, `Abort` and `LosesCommit` are one run of the transaction that makes a band;
`Skewed` is what Serializable refuses of two that each saw no membership.

**BookingPipeline.** `opp`, `show`, `prospect` and `reply` are the tables, `req` a
request between two awaits, `confirm` the finalising transaction of a confirmation
approval between its reads (`ReadConfirmation`) and its writes
(`WriteConfirmation`). `spawned` counts the opportunities made from a prospect.

**BriefSchedule.** `settings` is `ManagerSettings` as the claim, `scan[w]` what a
worker has read; `Claim`, `CommitRun`, `RecoverExisting` and `RecoverRestore` are the
guarded updates and the catch block. A local day or week is a number.

**ManagerAcceptance, ManagerReceipts.** The first splits an answer into what it
reads, the recheck of the records a proposal is about and the guarded writes,
while members edit those records; an advance and a project plan carry the date that was
read and are not checked again. The second has the decisions of members on a recommendation
beside the projections of its approvals, with the same reads and commit as in
`ApprovalLifecycle` (`reading[a]`, `Reproject`), and the receipt each viewer is shown.

**ManagerIntake.** `completeIntake` is a request that checks every account link and
then saves the profile, each performer and the plan in transactions of their own.
`plan` is the `StrategicInitiative` rows in order of creation; what `ensurePlan` looks
for is a row of the template's key, or one of the same title without a key. Roles,
links, profile and plan are edited meanwhile.

**ManagerBrief.** `facts` is one value per matter a brief looks at: records of a kind
stand for the one that `deterministicManagerBriefCandidates` would pick. `ReadFacts`
and `StoreRun` are the two ends of `generateBrief`, with the provider's answer (any of
`Proposals`) between them; `run` is what is stored and `Served` what `currentBrief`
decides. Days are numbers, so cooldowns and the age of a brief are differences.

**ManagerChat.** `log`, `runs` and `fact` are the messages, the runs with what they
propose and the memory rows; `handling[q]` is a question between `Store` of its turn, `Read`
of the facts and the last turns, and `StoreRun` of the response. Routes are tried in the order of `Routes`; which of
them match a message is the message. What a viewer is shown is computed from the rows
each time (`MessageVisible`, `ResponseVisible`, `Sources`), as the code does.

**ManagerCapture.** A title is the set of its words, a message the fields a reading looks
at. `Read...` operators are the parsers' decisions on the records of that moment;
`SavedAsSaid` compares what acceptance wrote with what the message asked for.

**ManagerSignals.** Extends `TaskGraph`, whose actions move the tasks; goals,
initiatives, owners and check-ins are edited freely. Each view is a function of those
rows in the code's order of cases, and the properties relate views to one another.

**ManagerKnowledge, ManagerCoverage, ManagerOutcomes.** The records a view reads are
edited at will and age with `now`; the view is an operator. An assessment of knowledge
reads profile and facts in two steps, so it may be torn. `ManagerOutcomes` extends
`ShowSettlement`: what the review sums are the expenses and settlements of that module.

**ManagerDecisions, ManagerLearning.** A patch of a decision is its read and its guarded
write. An example is promoted or resolved by id after a read; the version of the Manager
is a number.

**ConnectedAccounts.** `flow[f]` is one visit to a provider and the callback that ends
it, which the browser may call again: its state, the session at that moment, the role,
the exchange and the rows are one step each, so an owner may be removed, or a second
visit finish, in between. `connection` and `account` are the two tables; a page without
real adapters makes mock accounts beside them. A drop keeps the destination it was
reviewed for and is sent with the token read then; a request that writes through Google
takes the band's token, with its scopes, or the deployment's.

**Telegram, WorkflowJobs.** The queue is external: a job is handed to one worker, a custom
job id is accepted once, and the next iteration of a repeatable job is queued when one is
taken. Each API process has one worker that takes one job at a time
(`storyboard-queue.service.ts:132`). A worker that dies gives its job back once; one that
stalls (`Stall`) loses it to another process and goes on all the same. So two scans of
one kind overlap, each between its look for a row (`hasNotificationSince`) and the row
it makes. Reads a job makes once at its start are kept in the job's record.

**InvoiceLedger, ShowSettlement, EventLogistics.** Tables and requests as
above. Money is counted in minor units, splits in basis points. In
`EventLogistics`, `newer` is the order of `approvalActivityTime` (no two at one
millisecond) and `made` what really stands in the calendar.
`docs/domain-model.md:559` says that a simulation can be explicitly prepared again;
`SimulationCanBeReplaced` states it and does not hold of `ChannelState`: after a
simulation, a retry that is prepared and rejected leaves the channel "complete",
because the current row is no longer the simulated one (seen with one version, one
preparer and three attempts; none of the runs states it).

**SetlistEditing.** `reduceSetlistDraft` is the pure state machine of the editor,
`page` what the server last rendered, `wire` the requests on their way, of which the
late ones answer after their deadline.

**CatalogImport.** `planCatalogImport` is `Plan`, made of the payload when `Submit`
takes it; `NewSongs` and `NewSets` are what of it `ReadSongs` and `ReadSetlists` did
not find, and `Apply` is the one transaction that creates the songs, links
them and writes the setlists. Two importers and members who add and rename songs
interleave between those steps. Songs and shows are a few sources that the plan
treats differently (the vault, a show night, a ready set).

**ShowDay.** `gig`, `order` and `settlements` are the tables, `page[p]` a browser tab
on the day-of page. `RecordFacts` is guarded by the version the tab holds, which is
`updatedAt`: `FreshStamp` says that no two statements that stamp one row do so in the
same millisecond, except that a write always stamps later than what it has read.
What a member types over is `base`. Readiness keeps one gap, the running order, and
`Advice` is that of an artist without bookings and invoices.

**The map.** `PROJECT.json` gives the lines of every definition that stands for code of
its own. An operator that only names part of what another one states (a set of rows, a
key, an empty record) has no entry: its lines are among those of the definitions that
use it.

### Reading order

`OneShotEffect`, `ApprovalRows`, `ApprovalLifecycle`, then its proofs and
`ManagerReceipts`; `StripeWebhook` with the first part of `BackgroundProofs` and
`TaskGraph` with the second part of `RecordsProofs`; `ManagerCapture` with the second part
of `ApprovalLifecycleProofs`; the other modules stand alone,
and the part of a proof module about one of them uses no other part.

## 3. What TLC checks

| Run | Instance | Shows |
| --- | --- | --- |
| `claims` | a send batch of 2, then the hold of a recommendation: 2 executors, an honest and (for the batch) a mistaken observer, 2 keys; reads and writes may fail. Stripe: 3 deliveries of one event, up to 3 rollbacks or crashes. Briefs: 2 scans, 2 periods, 1 edit, 1 fault. Fair | one attempt, one conclusion, nothing moves after it, an outcome that is lost keeps its claim and its result, acknowledged references are kept and never denied, honest evidence never wrongly closes an unknown attempt, counts agree with stages, `OneShotEffect` is implemented, an attempt resolves; the event's handler takes effect once and never runs twice at a time, Stripe is told only what is committed and in the end it is told; a period that stays due is briefed, once |
| `approval_social` (violated) | a social batch of 2 | a post id StoryBoard stored is denied by an accepted receipt |
| `approval_failed_evidence` (violated) | a draft batch of 2 | evidence older than the provider call closes a failed attempt |
| `approval_reversed` (violated) | a draft batch of 2 whose read-back may fail | an executed approval is marked failed |
| `approval_stale` (violated) | the hold and the folder of one recommendation, 2 executors that finish at once | both are executed for real and the recommendation stays blocked |
| `daily` | 2 scans and 2 days of alerts; 2 tokens, 2 chats, 2 calls; 1 event, 1 invitation, 2 repeatable jobs over 2 days and 2 processes, 1 death or stall; 2 imports of one catalogue; 2 versions of a show, 3 approvals; 2 tabs, 2 shows to come and 2 that are settled and closed; 2 questions at once, and one of each route after an old turn; briefs of every pair of matters, and of a few over 2 days of edits and answers | an alert leaves once; a token links one chat; in a window a recipient is told at most as often as there are processes; holds are accounted for; an import adds everything once and undoes nothing; facts of a show are not overwritten unseen; private turns stay private; a brief keeps handled advice away, names what waits, puts pressure first, and serves nothing that was answered |
| `records` | 3 tasks and one open patch; 3 setlist drafts, one not fit to be saved, over 4 versions with late saves; a campaign of 3 with 2 batches, and one of 1 under edits; 2 invoices; 2 expenses; a video of 3 chunks; 2 visits to Meta, one to each other provider, 2 operators with 2 changes, 2 tabs that make mock accounts; an upload of 3 pieces in chunks of 2 by 2 requests, 2 drops and one caption call a day; a goal with its plan, an owner's load, a measured goal; 2 facts; one record of every area; a show and a project with 2 expenses; the hold and the folder of one recommendation, 2 executors | prerequisites, dates and completion agree; a draft is never lost; nobody is pitched twice; invoices tell their payments and final books balance; an adapter's answer is true; only owners connect a band, and what it sends goes where it was reviewed to; a ready file is what was sent and captions keep to their budget; the views of the Manager agree with one another and with the records; a recommendation is completed only when all its work was executed for real |
| `requests` | 2 requests in each of: a drop on 2 platforms, 1 or 2 invitations, 2 recommendations, 1 prospect, 2 replies, 1 decision, 1 intake of two performers; 2 tabs of a browser that sign in, make bands, or act in them while the team changes; a message of every kind about 2 tasks and 2 shows; ratings of 2 answers, 3 pieces of advice; a recommendation with a hold and a folder, or with a record | drops go out as reviewed and are told truly; invitations conclude once; a sign-in lands at its invitation, a click makes one band, and a request acts where its page shows; answers act once, on what was reviewed and as it was said; conversion, terms and setup happen once; decisions stand; what members teach is kept; a receipt never calls open work done |
| `campaign_follow_up` (violated) | 1 send batch, a racing editor | acknowledged messages without follow-up task |
| `team_last_owner` (violated) | 2 owners, 2 racing requests | the workspace is left without owner |
| `overdue_email` (violated) | one day, one member who wants mail and no rows | a second draft on the same day |
| `stage_reopened` (violated) | one opportunity, one reply to confirm | a closed opportunity is confirmed |

Bounds. Races in this code are between two requests at one guard, so two
requests, scans, executors or owners show them. The pair of `records` has no observers: how
receipts meet projections is left to the theorem and to `receipts` of `requests`. Two provider calls distinguish first, last, partial and all. Two keys and
two observers give a retry under another key and two members at once. Two
successive batches suffice for a duplicate: replacing is decided by looking at
the linked batch alone. Two periods or days are what a claim of yesterday needs to meet one of
today; `DaysPerWeek = 2` puts both days in one window of a weekly digest. Three
chunks give a first, a middle and a last offset, and three polls a container
that is never ready. The only unbounded counters (`made`, `mailed`, `tasks`,
`notices`, `rows`) are bounded by the work that may be prepared; every other bound is a
constant whose comment names it a bound (`MaxFailures`, `MaxFaults`, `MaxEdits`,
`MaxStalls`, `MaxVersion`, `MaxLate`, ...). `MaxFailures` equals the number of
statements of a Stripe delivery that may fail (insert, reclaim, promotion), so the
order in which failures meet is free; one reconnected account makes every reading stale.
Where a view of the Manager is a function of its records, the bounds are those of the
records: two edits where a message and its second reading, or an assessment and what it
read, must straddle one; one where the initial states already range over the rows.
`MaxNow` lets every age that a view distinguishes pass, `Window` lets a record leave the
review, limits (`TodayTake`, `HistoryTake`, `Limit`, ...) are small enough to be exceeded,
and `MaxRows` of an intake only stops members from adding rows without end.
Two platforms give a first and a last target and every mixture of two results.
Pieces and `ChunkSize` are such that the last chunk is short. A band's creation is tried 3 times
and its slug under 50 names in the code, 2 of each here; two bands of one name need no more.
Three tasks allow a cycle longer than a pair, and the three edges that three tasks
can have without a cycle reach the scan limit. One open patch is enough because
every other write is one step, so a second patch could only do what those steps
already do to the first; the theorems cover any number. `CHECK_DEADLOCK FALSE`
everywhere: every instance ends when its finite supply of ids is used and nobody
is obliged to act.

Symmetry is used over executors, observers, keys, requests and interchangeable
rows, and never with a liveness property. The platforms, members and
opportunities that edits or kinds tell apart are not permuted.

Fairness. A request between its claim and its answer is weakly
fair: the event loop runs it and provider calls carry timeouts. The clock is
weakly fair. Deciding, executing and reconciling are human and have none.
A Stripe delivery is weakly fair as a whole, its arrival included: Stripe repeats
an unanswered event for days, statements and transactions have timeouts, and a
lease ends by the clock. The scan of briefs is a repeatable job, so its start and
its steps are weakly fair, as is the age of a claim. Failures and edits have no
fairness; they are bounded, for a system whose every attempt fails delivers
nothing. The hour after which a social attempt counts as unresolved is a state of
the clock, so `ResolvedWithinTheHour` needs no fairness.

The violated runs are disagreements between the code and its own comments,
messages or documents; `PROJECT.json` quotes both sides under `findings`.

## 4. What is proved

Every theorem is about the specification of a module, for all values of its
constants that meet the named assumption of that module (`ConstantTypes`,
`SocialConstants`, ...; TLC evaluates each in a run). Each invariant is proved by its
initial case, one step per action, and one sub-step per conjunct the action can
disturb; the invariants and their strengthenings were first checked on the instances
of section 3.

**`ApprovalLifecycleProofs`**: any approvals, executors, observers and keys, any batch
sizes and action types.

* `TypeCorrect`: `Spec => []TypeOK`.
* `OneAttemptAlways`: `Spec => []OneAttempt`. The strengthening `SafeInv` says
  that a running executor's approval carries a claim, that two running
  executors never share an approval, and that the calls made for an approval
  are at most those its one executor has counted, so the compare-and-set in
  `Claim` is enough. No assumption on the speed of providers.
* `OneConclusionAlways`: from `OneTerminal`, a receipt is added only while none is
  conclusive.
* `CountsMatchStagesAlways`: the six SQL counts and the stage of a row agree. For
  most rows this is a case analysis (`BucketsAgree`); a row with a conclusive
  receipt needs `ConcludedClaim`: it carries a claim, and one that is still approved
  carries an expired one.
* `KnownEffectKeptAlways`: what a provider confirmed stays in the saved result.
  `KnownInv` follows the confirmation: it is given to an approved row
  (`CallingApproved`), to a claimed one (`AckedClaimed`), and while the request runs
  it travels with that request (`AckedCarried`). A crash loses it, and then leaves the
  row approved, hence unknown.
* `ConclusionFreezesAlways`, `NoContradictoryReceiptAlways` and `Refinement` assume
  `~SlowProviders`: the lease outlives every attempt. The code argues it from a 30 s
  timeout per Google request and at most 25 recipients
  (`docs/domain-model.md:533-561`). `QuietInv` says that under a running executor
  the lease is active and the row not concluded; without the assumption an executor
  that wakes after the conclusion writes over it, and the statements are false.
* `UnknownReceiptIsTrueAlways` assumes `~SlowProviders`, and speaks of receipts of
  members who are not `MistakenHumans`: a
  receipt about an unknown outcome is a person's reading of the provider. What the
  theorem adds to a careful reading is that it cannot go stale: once the lease is over
  nobody calls the provider again (`EffectSettled`), so what was seen stands
  (`SeenStands`).
* `OutcomeIsKeptAlways` assumes nothing of reads and writes: rejected and failed are
  final, and an executed row that is marked failed, because the read that follows an error
  failed too, keeps its claim and its result, so it cannot run again. `SameResult` says
  that the request that will write the failure carries the result of the row. That
  the executed row should not be marked failed at all is `OutcomeIsFinal`, which does not hold.
* `CompletedMeansExecutedAlways`, without assumptions on reads, providers or people: a
  recommendation is completed only when all its approvals were executed, for real. What a
  projection has read may be long gone when it commits. `ReadTruly` says what of it
  is still so: a row that was read executed was done, and stays done with that result
  (`RealStays`), although it may be marked failed since; the reading covers every approval that
  was prepared, as they are created together (`Together`). A verdict "completed" rests on such
  rows alone (`CompletedVerdict`), so a stale projection keeps "completed" away and never brings
  it about too early.
* `SavedAsSaidAlways` and `SaidAgainAlways`, about `ManagerCapture` with any tasks,
  members, shows and dependencies among tasks, all finite (`CaptureConstants`). Acceptance
  reads the message a second time, and the records may move between that reading and the
  save. `CaptureInv` says what survives: a reviewed act is what the reading gave in some
  earlier state of the records (`Reviewed`), from which they only went on (`Onward`:
  versions never fall, and what a reading looks at is as it was while its version is). Where the
  save compares versions the reading therefore still stands; a record that a
  message named among others it names alone (`NamedAlone`, `StillNamed`). One lemma per
  topic then shows what is saved, and that reading the message again in the new records does not
  offer the same (`TaskSaved` ... `UpdateSaved`). A new due date keeps prerequisites due before what needs
  them (`DueMoved`), which `TasksKept` carries through the edits of the band.

**`BackgroundProofs`**: any number of deliveries and failures; any workers, people and
periods.

* `StripeTypeCorrect`, `AppliedOnceAlways`, `AckedIsAppliedAlways`,
  `OneHandlerAlways`. `IInv` has two parts. `RowInv` ties the row to the
  history: the handler's writes are committed exactly once when the row is
  applied or completed and not at all otherwise. `TxInv` says that only the holder
  of the row lock is past the lock, and that what a transaction has written is
  what its place in the handler says. The lock is what the argument rests on:
  the lease decides only who may take over, so no theorem assumes anything about
  its length. Without `TxInv` the properties are not inductive: a transaction that
  is about to commit would be free to have written anything.
* `BriefedOnceAlways`: nobody is notified of a period twice. A brief row is unique
  per period and its notices are written with it, so it is enough that a scan under
  way is about a period (`ScanOfPeriod`); no claim on the settings row is needed.
* `LearningToldAlways`: an example is of the rating it was made of and resolved by a later
  version only, no version passes with a failure of its own on record, and a queue asks about
  each conversation or key at most once and passes over one only when it is full. Every
  answer and every decision has a moment of its own (`Given`, `DecidedOnce`), so the number
  of rows after a row is a bijection onto the first naturals (`Ranked`) and the queue is as
  long as the limit or the number of its groups (`QueueFull`), without an induction over it.
  `LearningInv` also says what a request that has read is about to write (`Pending`): its
  rating may have been changed since, the version of the answer not.

**`RecordsProofs`**: any finite sets of recipients and tasks, any batches, members,
patches and limits; any open editors and running orders; any uploads, requests, drops
and days.

* `PitchedOnceAlways`: nobody is mailed twice, a pending delivery was not mailed,
  no recipient is in two live batches, and a campaign holds at most `MaxRecipients`.
  `CampaignInv` adds that a batch is executed once it is approved and concluded only
  once that is over (`Started`), that whoever was mailed had left pending before
  (`Mailing`), and that whoever is about to add a recipient holds the row lock
  of the campaign and saw room (`RoomKept`). The replacement of a batch is where the parts meet: it is
  allowed on no call at all or on a receipt that says nothing left, and only then may
  the same recipients be mailed by another batch.
* `TaskTypeCorrect`, `AcyclicAlways`, `PrerequisitesHoldAlways` and
  `BlockedSaysWhyAlways`. Most actions write one
  row, so they are first shown to be cases of one `Written` step whose new row
  meets the guards; each invariant then has one proof for `Written` and one for
  each change of an edge. `Acyclic` is preserved because what the search from the
  prerequisite visited is closed and does not hold the task: a knot made by the new
  edge would contain a knot among what was visited, or be one beside it, without
  that edge (`NoNewKnot`); this
  needs the scan to be complete, which is what refusing at the limit ensures.
  `BlockedSaysWhy` alone is not inductive: `AllChecked` adds that what a patch
  computed from the row it read still describes that row while nobody has written
  it, which is where the compare-and-set on `updatedAt` enters.
* `DraftsSurviveAlways`: an edit is lost only by its author's own doing, and a save writes
  over a version its author has had before them. `EditingInv` says that of whatever an
  editor builds on and of every version a request names; an answer that is still waited for
  is the one to what the editor holds (`Awaited`), and a late one is the answer to nothing.
* `UploadKeptAlways`: a ready file is what was sent, the browser and the row agree, and a
  day's calls for captions keep to its budget. `UploadInv` says that one request at most
  holds the lock of an upload (`OneHolder`), and that what it is about to append is exactly
  what the file lacks (`CallOK`), unless a transaction of that upload has expired under its
  append (`overran`). In `DropInv` a day is charged for the calls made and for those about to
  be made, so checking and charging in one statement keeps the limit.

**`DailyProofs`**: any workers, days, signals, chats (at least one), requests and tokens;
any versions of a show, attempts and preparers; any operators, visits, tabs and
destinations.

* `AlertedOnceAlways`: from the claim of a dedupe key to its mark a worker is the only
  one with that key, and the message has left exactly when the row is about to say so
  (`Outbound`).
* `TokenLinksOnceAlways`: a token links one chat at most, because only a request that
  carries a token somebody made binds it, and a bound token is no longer open.
* `HoldsAccountedForAlways`: one version of a show is put in the provider at most
  once, and what took effect there is linked, still executed or waiting to be
  reconciled. `HoldInv` says that what a row or a request tells of the provider is so
  (`RowTruthful`), that attempts are prepared, and planned, on dead ones only
  (`Successive`: rejected, or claimed and over without effect), and that the rows have
  a most recent one and each version a highest attempt (`Ordered`), so that what
  `channelAssessment` picks exists. A plan may be stale when it is written; it stays
  harmless because a dead attempt stays dead.
* `ConnectedByOwnerAlways` and `SentToReviewedAlways`: a band is connected by an operator
  who was an owner at some moment after the callback came, the accounts shown are those the
  connection names, a drop is sent to the account it was reviewed for, and what writes
  through Google has the scopes it was granted. `ConnectionInv` follows a grant from the
  provider through its flow (`FlowFits`) into the connection (`ConnectionsGranted`), and
  from there to the accounts (`AccountsNamed`) and to whoever acts with it (`ActingFits`).

**`OperationsProofs`**: any finite sets of invoices, keys, expenses and members, any
amounts; any workers, people, occurrences and days; any opportunities, prospects, replies
and requests; any finite sets of shows, any tabs, facts and patches.

* `InvoiceTellsPaymentsAlways`, `FinalBooksBalanceAlways`. Both are about sums over
  finite sets (`SumFunction`, a fold). What the sums need is shown without an induction
  theorem: the subsets of a finite set for which a fact fails would have a least one,
  because strict inclusion is well founded on them (`WFMin`), and that one is the
  counterexample to the step. From there: a payment adds its amount once per key, and an
  allocation hands out the whole net, because the shares rounded down and the cents that
  are left over add up to it. `ExpensesStand` says why closed books stay closed: an
  expense is attached by a final settlement only.
* `ToldOnceAlways`: a member is told of one matter in its window no more often than there are
  processes, with scans that overlap, stall and run on. A worker that is about to write a row
  found none in a window that began no later than today's (`Fits`), so it has made none there
  itself: the rows of a window with those about to be made are no more than the workers
  (`RoomFor`), none is dated ahead (`NoneAhead`), and of a digest the drafts with those about
  to be made are no more than the rows (`DraftsFollow`). The counts are sums over days, by the same
  lemmas as the ledgers'.
* `ConvertedOnceAlways`, `AppliesOnceAlways`: one request converts a prospect at a time
  (`OneLock`), one that saw no opportunity makes the first (`MakesFirst`), and what was made
  is linked (`MadeLinked`).
* `FactsSeenAlways`: facts of a show are written over only by who has seen them.
  `FactsInv`: the version of a row stands for its facts, for whoever holds it: in a page, in a
  request on its way, or in an answer. It holds although a cursor move or a patch raises
  the version, too, because a write always stamps later than what it has read
  (`FreshStamp`).
* `NeverBuriedAlways`, `AdviceStepAlways`: what the panel says is next of the shows.
  `Selected` chooses the show that is before all other dated ones, which is worth nothing
  unless there is one: `Before` is a strict order on them (`AheadOrders`), and of a finite
  set of shows a least one without a first would be a counterexample (`OneAhead`, by
  `WFMin`). That is all `NeverBuried` needs beside the times being times. For the step,
  whatever leaves the dates and the clock alone leaves the selected show (`SelectedStays`),
  and of the actions a patch alone moves dates and a save alone the facts (`StepRows`).

**`ManagerProofs`**: any approvals, action types and requests; any decisions and options;
any recommendations, answers and edits; any questions asked at once.

* `ReceiptTypeCorrect`, `ReceiptHonestAlways`. `ReceiptInv`: what was only suggested has no
  consequences, what is reconciled or is about to be has none left open (`Frozen`), and a
  recommendation called simulated is one whose approvals all ran, one on a mock adapter. The
  reads of a projection are steps of their own, so `Fits` says of every open one what stays
  true of what it has read: what ran when it was read has run, on what it ran on. A receipt
  is computed from the rows themselves and not from the outcome, which is why it is honest
  while the outcome is stale.
* `ChosenFromOptionsAlways`, `ChoiceStandsAlways`: a row of the version that a request has
  read is the row it has read (`Sent`), so what was checked then is so when it is written.
* `AcceptedOnceAlways`, `ActsOnReviewedAlways`: `AcceptInv` says that the version of the
  task stands for its content and that what was suggested was true of the records seen; an
  acceptance then writes only where its kind writes, and only what is as it was reviewed.
* `ChatTypeCorrect`, `ChatPrivateAlways`: `ChatInv` says that a request stores one turn,
  whose messages are as private as its reading was (`TurnStored`), that a run read in full
  context is bound to its turn and any other tells nothing private (`Made`), and that the same
  is so of all that was told since (`ToldClean`). Turns stored by an older version, which
  carried no such mark, are a case of their own (`LegacyRows`).

**`SocialPublishingProofs`**: any targets (at least one, as the request schema asks),
requests, edits, replies of the platforms, chunks and polls, any number of accounts; any
tabs, operators, bands, names and faults.

* `SocialTypeCorrect`, `SentAsReviewedAlways`, `DropToldTrulyAlways` and
  `ResolvedWithinTheHourAlways`, all from `DropInv`. One request executes at most
  (`ClaimAlone`), on an approved row (`Lifecycle`) whose payload is what was reviewed,
  because a decision that is about to write carries the plan of what it read
  (`PlanReviewed`). What went out went out once and its row says that it may have
  (`SentOnce`, `RowTruthful`); `BatchOf` says how far the executing request is:
  its remaining targets were not sent, the others have the result it holds. The
  drop that is shown is then computed from rows that tell the truth
  (`ExecutedTruthful`).
* `AnswerIsTrueAlways`: what an adapter answers is so, and it ends within the requests its
  chunks and polls allow. `AdapterInv` says per step what the platform may hold by then
  (`PlatformSteps`) and how many requests were made (`SentBefore`).
* `ActsWhereShownAlways`, `BandMadeOnceAlways`, from `BrowserInv`. A nonce is a click, so a
  state that carries the nonce of a page carries its invitation (`PageFits`). What a page
  shows is what its session finds in its rows, and so is what `resolveArtistId` finds while
  neither has changed (`RequestFits`). A click is one request (`ClicksApart`), and no band has
  it while that request is under way (`Unmade`). The slug and the first band of a transaction
  are free among the bands it saw (`CommitFits`); `Skewed` and the unique index answer for
  those committed since. Who made a band keeps their membership of it (`OwnsMade`), so what
  a tab hears after a lost commit is true.

**`TeamAccess`**, at its end: any members, invitations and requests.

* `InviteConcludedOnceAlways`, `JoinsByLiveInviteAlways`: an invitation keeps its address,
  its role and its conclusion, and who joins had one that was pending. `TeamInv` adds that a
  request that accepts comes from the account the invitation is addressed to (`Fits`).

A few definitions are written the way the prover needs them: an `EXCEPT` inside the value of
another is one record at a time, and updates by `@@` of a known domain are functions.

Only model-checked:

* Liveness (`AttemptResolves`, `EventDelivered`, `DueIsBriefed`): the prover has no
  backend for fairness.
* `CatalogKept` (an import as folds over sequences of songs and sets), `BriefKept` (rankings
  cut to a length) and `SignalsAgree` (a dozen views, each a function of all records, that
  are compared with one another): their content is what the operators compute, of which the
  instances enumerate the inputs.
* `SetUpOnce` in `MadeOnce`. Every other part of it, and all parts of `ActsOnReviewed`,
  `ShowKept`, `PublishIsTrue` and `InvitesHonoured`, are proved one by one for the modules they
  are instances of.

## 5. What is not modelled, and why

* `expired` approvals: no code writes that status.
* Idempotent replays that change nothing (`createMany` by `sourceKey`,
  `recordReconciliation` by key), audit rows except where their failure matters.
* Recognising phrases in a message, the analysis of replies, and commands: text
  classification over one request. What the Manager does with a message once it is
  recognised is modelled.
* Of the Manager: progress of a goal synchronised from another record, the settings
  form, the event-readiness score that a brief takes as given, the wording of its texts.
* The advisor, dashboard, summary and operational intelligence: read-only
  aggregations that store nothing another guard reads.
* Deals, agreements, checklists, contacts and venues: single-row writes of one
  request that no other guard reads.
* Signatures, the expiry of cookies, the encryption of tokens and their refresh, and the
  development login. Controllers and schemas refuse ill-formed requests; the inputs of the actions are those they accept.
* Texts, templates and provider formats; build, backup and seed scripts; the pages of the
  web front end other than the running-order builder, the day-of page, the upload of a file
  and the selection of a band.
* Hazards seen and left open: `assign_task` does not look again whether the
  member is still active (`manager.service.ts:2119`); a confirmation writes the show
  it was reviewed with over one edited since (`booking-opportunities.service.ts:115`);
  two partial patches of a show are checked each against what it read
  (`operations.service.ts:206`), of which `ShowDay` keeps one open at a time; the
  recipients of a brief are read before its claim (`manager.service.ts:1542`).

Where a first statement of a property was not what the code does, the property was
weakened to what it does, and the difference is recorded here:

* `docs/architecture.md:436-437` says that a brief is reused only while no newer audit exists
  across the operating aggregates that feed it. `latestManagerFactChange` looks at a list of
  them that has neither `EventParticipant` nor `PaymentRecord` nor `ApprovalReconciliation`,
  and a change made while a brief is generated is older than the brief that does not know of it. No
  property claims what that sentence says, nor excepts those changes from it:
  `AnsweredNotServed` is about the answers to the brief's own advice and what became of them. Failed
  approvals come first by `updatedAt` and can take all the slots a brief has for approvals.
* Between the look for a notification and its creation nothing stops a second process from
  doing the same: two processes tell a member twice. `ToldOnce` therefore bounds notices by the
  number of processes; with one the bound is once, which is what
  `docs/workflow-automation.md:96-97` says.
* A projection that is late may leave a recommendation "blocked" whose work is done
  (`approval_stale`). For the same reason a receipt may say that all was executed although one
  of two siblings ran on a mock adapter: "approval_simulated" is read from the outcome.
* An executed approval may be marked failed by the catch block (`approval_reversed`);
  `ReceiptHonest` and `CompletedMeansExecuted` allow for it.
* A plan can be "on track" while the path of its goal has no task; a path that waits
  says to finish an available prerequisite even when only blocked work is left, and the
  list of ready work is cut at ten. A commitment is overdue by the minute and a member's
  load by the UTC day, and a deadline that is now is past for one view and due for the other.
* Capturing a new project or event looks at planned ones only, accepting it at all that
  are not cancelled. An update read again is compared with its one task alone.
* The question behind an example, and the answer behind a profile proposal, are the last
  user message before the response (`manager.service.ts:1074`, `:1803`), although another
  request may have come between; the code avoids this for memory (`:766`).
* A memory is patched by id after it was read, and an assessment may see the profile of
  one moment and the facts of another.
* The net in an outcome review includes drafts and cancelled shows, and a stale draft may
  overstate cost; confidence can be high with an unsettled show.
* No code writes the status `superseded` of a decision, which two messages offer
  (`manager.service.ts:373`, `:1599`). An example is resolved by its id after it was read, so
  one promoted again meanwhile is resolved, too.
* An append that outlives its expired transaction, and a chunk sent again meanwhile, can
  leave a ready file of the right length and the wrong content; `ReadyIsWhole` excepts
  uploads where a transaction expired under its append.
* Approval Center sends requests that name no band (`approvals-client.tsx:72`): they act in
  the band of the session, which another tab may have switched, and then find no such
  approval. An answer that arrives after signing out sets the session again.
  `ActsWhereShown` speaks of requests that name their band, or whose session and
  memberships are still those of the page.
* Of two finished shows whose facts and settlements are done, closing the one the panel is
  about leaves the same advice, "after_show_recorded", about the other. `AdviceStep` says
  that the advice changes or the show does.
* An operator who joins by invitation while their first band is being made has both.
* An intake is not one transaction: sent again after it stopped, it adds performers
  without an account a second time (`manager.service.ts:1117`). `SetUpOnce` is about
  accounts and the plan.

## 6. Plan

1. *(done)* The approval gate and its siblings: `ApprovalLifecycle`,
   `CampaignDelivery`, `TeamAccess`, `StripeWebhook`, `SocialPublishing`,
   `TaskGraph`.
2. *(done)* The Manager's claims and acceptances, the queue worker, the money,
   the booking pipeline, logistics, adapters and the running-order editor.
3. *(done)* The Manager: setup, brief, conversation, capture, the views of its
   records, decisions and what it is taught; the catalogue and the day of a show.
4. *(done)* `MediaUpload`, `Workspaces` and `ConnectedAccounts`. Left: the readiness
   score of an event, the forms of Approval Center and of the social page.
5. *(done)* Proofs of every safety property of the runs but those named at the end of
   section 4. Next: `SetUpOnce` of `ManagerIntake`, `CatalogKept` (folds over sequences),
   `AnsweredNotServed` of `ManagerBrief`.
