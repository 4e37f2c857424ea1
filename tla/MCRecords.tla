------------------------------- MODULE MCRecords -------------------------------
(***************************************************************************)
(* The records members edit: tasks, running orders, campaigns, invoices,    *)
(* settlements, the accounts a band is connected to, the file of a post and *)
(* its upload, and what the Manager concludes from tasks, goals and people, *)
(* knows of the band and makes of its results; and the two approvals that   *)
(* one recommendation prepares.                                             *)
(* A behaviour exercises the one component that `part` names.  The extended *)
(* modules have their own variables; the others share v1..v13 and leave the *)
(* ones they do not need Unused.  Two campaigns are checked: the extended   *)
(* one prepares successive batches for several recipients, in `Edited`      *)
(* members edit the one recipient.                                          *)
(***************************************************************************)
EXTENDS TaskGraph, CampaignDelivery, SetlistEditing, InvoiceLedger, ShowSettlement, TLC

CONSTANTS
  x1, x2, x3,                                               \* interchangeable rows
  b1, b2, m1, m2, d1,
  Chunks, MaxPolls

VARIABLES part, v1, v2, v3, v4, v5, v6, v7, v8, v9, v10, v11, v12, v13

\* A patch changes the status, the date or the reason.
Change(status, due, reason) == [status |-> status, due |-> due, reason |-> reason]
OneField ==
  {Change(status, Keep, Keep) : status \in {"open", "done"}}
    \union {Change(Keep, due, Keep) : due \in Dates}
    \union {Change("blocked", Keep, TRUE), Change(Keep, Keep, TRUE)}

\* No split, one member alone, both evenly.
SomeSplits == {<<>>, m1 :> 10000, m1 :> 5000 @@ m2 :> 5000}

RowSymmetry == Permutations({x1, x2, x3})

Edited == INSTANCE CampaignDelivery WITH
  Recipients <- {d1}, MaxRecipients <- 2, Batches <- {b1, b2}, Adders <- {m1},
  Editors <- {m2}, Modes <- {"send_on_execution"}, WritesMayFail <- TRUE,
  campaign <- v1, lock <- v2, adding <- v3, recipient <- v4, contact <- v5, editing <- v6,
  batch <- v7, delivery <- v8, exec <- v9, tasks <- v10, replied <- v11, mailed <- v12

\* What the Manager concludes: in the tasks above, of a goal and its path, of the
\* load of two members, and of one goal's measurement and one task's commitment.
Goal(deadline, target, current, direction, measured) ==
  [status |-> "active", deadline |-> deadline, target |-> target, current |-> current,
   direction |-> direction, measured |-> measured]
SomeGoals ==
  {Goal(deadline, 1, current, direction, FALSE) :
     deadline \in {0, 1}, current \in {0, 1}, direction \in {"at_least", "at_most"}}
    \union {Goal(2, None, 0, "exact", FALSE), Goal(2, 1, 1, "exact", TRUE)}
Ordered == INSTANCE ManagerSignals WITH
  Initiatives <- {}, Members <- {}, Goals <- {}, Plans <- {}, Owners <- {""}, Score <- <<>>,
  Soon <- 0, DayLength <- 1, MaxNow <- 1, MaxEdits <- 0, MaxEvidence <- 0, MaxDeferrals <- 0, Nothing <- None,
  now <- v1, goal <- v2, initiative <- v3, home <- v4, owner <- v5, deferrals <- v6, waitingOn <- v7,
  checkIn <- v8, evidence <- v9, shown <- v10, edits <- v11
Planned == INSTANCE ManagerSignals WITH
  Tasks <- {x1, x2}, Changes <- {}, Initiatives <- {d1}, Members <- {}, Goals <- SomeGoals,
  Plans <- {[status |-> "active", due |-> 1], [status |-> "blocked", due |-> 0]},
  Owners <- {"stranger"}, Score <- <<>>, Soon <- 0, DayLength <- 1,
  MaxNow <- 2, MaxEdits <- 0, MaxEvidence <- 0, MaxDeferrals <- 0, Nothing <- None,
  task <- v1, now <- v2, goal <- v3, initiative <- v4, home <- v5, owner <- v6, deferrals <- v7,
  waitingOn <- v8, checkIn <- v9, evidence <- v10, shown <- v11, edits <- v12
Loaded == INSTANCE ManagerSignals WITH
  Tasks <- {x1, x2}, Changes <- {}, Initiatives <- {}, Members <- {m1, m2}, Goals <- {Goal(0, None, None, "at_least", FALSE)}, Plans <- {},
  Owners <- {"", m1}, Score <- m1 :> 1 @@ m2 :> 1, Soon <- 1, DayLength <- 3, MaxDue <- 1,
  MaxNow <- 3, MaxEdits <- 1, MaxEvidence <- 0, MaxDeferrals <- 0, Nothing <- None,
  task <- v1, now <- v2, goal <- v3, initiative <- v4, home <- v5, owner <- v6, deferrals <- v7,
  waitingOn <- v8, checkIn <- v9, evidence <- v10, shown <- v11, edits <- v12
Measured == INSTANCE ManagerSignals WITH
  Tasks <- {x1}, Changes <- {}, Initiatives <- {d1}, Members <- {},
  Goals <- {Goal(2, 1, None, "at_least", TRUE), Goal(1, 1, 1, "exact", FALSE)},
  Plans <- {[status |-> "active", due |-> 1], [status |-> "completed", due |-> 0]},
  Owners <- {"manager recommendation"}, Score <- <<>>, Soon <- 0, DayLength <- 1,
  MaxNow <- 2, MaxEdits <- 1, MaxEvidence <- 1, MaxDeferrals <- 2, Nothing <- None,
  task <- v1, now <- v2, goal <- v3, initiative <- v4, home <- v5, owner <- v6, deferrals <- v7,
  waitingOn <- v8, checkIn <- v9, evidence <- v10, shown <- v11, edits <- v12
\* What the Manager knows, how much of the band its records tell, what came of its work.
Recalled == INSTANCE ManagerKnowledge WITH
  Backed <- {m1}, Notes <- {d1}, Values <- {1, 2}, Review <- m1 :> 0 @@ d1 :> 1,
  MaxNow <- 2, MaxEdits <- 2, Nothing <- None,
  profile <- v1, fact <- v2, patch <- v3, check <- v4, saved <- v5, now <- v6, edits <- v7
Covered == INSTANCE ManagerCoverage WITH
  Members <- {m1}, Events <- {d1}, Projects <- {d1}, Leads <- {d1}, Deals <- {d1},
  Settlements <- {d1}, Goals <- {d1}, Quiet <- 0, Old <- 1, OldDeal <- 1, OldDraft <- 0,
  MaxNow <- 3, MaxEdits <- 2,
  hasProfile <- v1, filled <- v2, lineup <- v3, event <- v4, project <- v5, lead <- v6,
  deal <- v7, draft <- v8, goal <- v9, now <- v10, edits <- v11
Ended == INSTANCE ManagerOutcomes WITH
  Events <- {d1}, Expenses <- {x1}, Members <- {}, Splits <- {<<>>}, MaxMinor <- 1,
  Projects <- {b1}, Recipients <- {m1}, Window <- 0, MaxNow <- 2, MaxEdits <- 1,
  expense <- v1, settlement <- v2, activeMembers <- v3,
  show <- v4, project <- v5, paidFor <- v6, recipient <- v7, now <- v8, edits <- v9
Stored == INSTANCE MediaUpload WITH
  Uploads <- {d1}, Calls <- {x1, x2}, Size <- 3, ChunkSize <- 2, Drops <- {m1, m2}, Limit <- 1,
  Days <- {1, 2}, MaxResends <- 2, MaxFaults <- 2, Nothing <- None,
  asset <- v1, file <- v2, tab <- v3, call <- v4, overran <- v5, drop <- v6, day <- v7,
  usage <- v8, asked <- v9, resends <- v10, faults <- v11
\* The hold and the folder of one recommendation, executed by two requests at once.
Paired == INSTANCE ApprovalLifecycle WITH
  Approvals <- {m1, m2}, ActionOf <- m1 :> "calendar_hold_batch" @@ m2 :> "drive_ensure_folder",
  Recommendations <- {d1}, NoRecommendation <- None, RecOf <- m1 :> d1 @@ m2 :> d1,
  Keyed <- {m1, m2}, CallsOf <- m1 :> 1 @@ m2 :> 1, Executors <- {x1, x2}, Observers <- {},
  Keys <- {}, NoApproval <- None, SlowProviders <- FALSE, ReadMayFail <- TRUE, MistakenHumans <- {},
  status <- v1, attempt <- v2, result <- v3, targetId <- v4, receipts <- v5, recommendation <- v6,
  txn <- v7, exec <- v8, seen <- v9, made <- v10, effect <- v11, acked <- v12, done <- v13
Adapters == INSTANCE SocialAdapters WITH wanted <- v1, call <- v2, remote <- v3, calls <- v4
\* The accounts of a band: two visits of one owner to Meta, one to TikTok while owners
\* change, a mailbox with any scopes, and a page whose mock accounts race with YouTube.
Paged == INSTANCE ConnectedAccounts WITH
  Operators <- {m1}, Flows <- {x1, x2}, Tabs <- {}, Providers <- {"meta"}, Destinations <- {b1, b2},
  StateLife <- 0, Mock <- FALSE, OwnMailbox <- FALSE, MaxNow <- 0, MaxEdits <- 0, Nothing <- None,
  who <- v1, now <- v2, edits <- v3, flow <- v4, connection <- v5, account <- v6, voiced <- v7,
  load <- v8, drop <- v9, acting <- v10
Owned == INSTANCE ConnectedAccounts WITH
  Operators <- {m1, m2}, Flows <- {d1}, Tabs <- {}, Providers <- {"tiktok"}, Destinations <- {b1},
  StateLife <- 0, Mock <- FALSE, OwnMailbox <- FALSE, MaxNow <- 1, MaxEdits <- 2, Nothing <- None,
  who <- v1, now <- v2, edits <- v3, flow <- v4, connection <- v5, account <- v6, voiced <- v7,
  load <- v8, drop <- v9, acting <- v10
Mailbox == INSTANCE ConnectedAccounts WITH
  Operators <- {m1}, Flows <- {d1}, Tabs <- {}, Providers <- {"google"}, Destinations <- {b1, b2},
  StateLife <- 0, Mock <- FALSE, OwnMailbox <- TRUE, MaxNow <- 0, MaxEdits <- 0, Nothing <- None,
  who <- v1, now <- v2, edits <- v3, flow <- v4, connection <- v5, account <- v6, voiced <- v7,
  load <- v8, drop <- v9, acting <- v10
Mocking == INSTANCE ConnectedAccounts WITH
  Operators <- {m1}, Flows <- {d1}, Tabs <- {x1, x2}, Providers <- {"youtube_publish"}, Destinations <- {b1},
  StateLife <- 0, Mock <- TRUE, OwnMailbox <- FALSE, MaxNow <- 0, MaxEdits <- 0, Nothing <- None,
  who <- v1, now <- v2, edits <- v3, flow <- v4, connection <- v5, account <- v6, voiced <- v7,
  load <- v8, drop <- v9, acting <- v10

ASSUME RecordConstants ==
  /\ EditingConstants /\ LedgerConstants /\ BookConstants /\ Adapters!AdapterConstants
  /\ Edited!CampaignConstants
  /\ Ordered!SignalConstants /\ Planned!SignalConstants
  /\ Loaded!SignalConstants /\ Measured!SignalConstants
  /\ Recalled!KnowledgeConstants /\ Covered!CoverageConstants /\ Ended!OutcomeConstants
  /\ Stored!UploadConstants
  /\ Paged!ConnectionConstants /\ Owned!ConnectionConstants
  /\ Mailbox!ConnectionConstants /\ Mocking!ConnectionConstants

Unused == 0
Free13 == v13 = Unused
Free12 == v12 = Unused /\ Free13
Free11 == v11 = Unused /\ Free12
Free10 == v10 = Unused /\ Free11
Free8 == v8 = Unused /\ v9 = Unused /\ Free10
Free5 == v5 = Unused /\ v6 = Unused /\ v7 = Unused /\ Free8
Free3 == v3 = Unused /\ v4 = Unused /\ Free5
Free1 == v1 = Unused /\ v2 = Unused /\ Free3

from12 == <<v12, v13>>
from11 == <<v11, from12>>
from10 == <<v10, from11>>
from8 == <<v8, v9, from10>>
from5 == <<v5, v6, v7, from8>>
slots == <<v1, v2, v3, v4, from5>>
moneyVars == <<ledgerVars, bookVars>>
recordVars == <<part, vars, campaignVars, editingVars, moneyVars, slots>>

OthersInit ==
  \/ part \in {"tasks", "setlists", "ledger", "books"} /\ Free1
  \/ part = "edited" /\ Edited!CampaignInit /\ Free13
  \/ part = "adapters" /\ Adapters!AdapterInit /\ Free5
  \/ part = "stored" /\ Stored!UploadInit /\ Free12
  \/ part = "pair" /\ Paired!Init
  \/ part = "planned" /\ Planned!SignalInit /\ Free13
  \/ part = "loaded" /\ Loaded!SignalInit /\ Free13
  \/ part = "measured" /\ Measured!SignalInit /\ Free13
  \/ part = "known" /\ Recalled!KnowledgeInit /\ Free8
  \/ part = "covered" /\ Covered!CoverageInit /\ Free12
  \/ part = "ended" /\ Ended!OutcomeInit /\ Free10
  \/ part = "paged" /\ Paged!ConnectionInit /\ Free11
  \/ part = "owned" /\ Owned!ConnectionInit /\ Free11
  \/ part = "mailbox" /\ Mailbox!ConnectionInit /\ Free11
  \/ part = "mocking" /\ Mocking!ConnectionInit /\ Free11

\* The campaign of any other behaviour is one that does not start.
CampaignIdle == CampaignInit /\ campaign.mode = "draft_only"
EditingIdle == EditingFrom(None)
LedgerIdle == \A i \in Invoices : invoice[i].currency = "usd"

RecordsInit ==
  /\ Init /\ LedgerInit /\ BooksInit
  /\ \/ part = "batches" /\ CampaignInit /\ Free1
     \/ OthersInit /\ CampaignIdle
  /\ part = "ledger" \/ LedgerIdle
  /\ IF part = "setlists" THEN EditingInit ELSE EditingIdle

OthersNext ==
  \/ part = "tasks" /\ Next /\ UNCHANGED slots
  \/ part = "edited" /\ Edited!CampaignNext /\ UNCHANGED <<vars, v13>>
  \/ part = "adapters" /\ Adapters!AdapterNext /\ UNCHANGED <<vars, from5>>
  \/ part = "stored" /\ Stored!UploadNext /\ UNCHANGED <<vars, from12>>
  \/ part = "pair" /\ Paired!Next /\ UNCHANGED vars
  \/ part = "planned" /\ Planned!SignalNext /\ UNCHANGED <<task, v13>>
  \/ part = "loaded" /\ Loaded!SignalNext /\ UNCHANGED <<task, v13>>
  \/ part = "measured" /\ Measured!SignalNext /\ UNCHANGED <<task, v13>>
  \/ part = "known" /\ Recalled!KnowledgeNext /\ UNCHANGED <<vars, from8>>
  \/ part = "covered" /\ Covered!CoverageNext /\ UNCHANGED <<vars, from12>>
  \/ part = "ended" /\ Ended!OutcomeNext /\ UNCHANGED <<vars, from10>>
  \/ part = "paged" /\ Paged!ConnectionNext /\ UNCHANGED <<vars, from11>>
  \/ part = "owned" /\ Owned!ConnectionNext /\ UNCHANGED <<vars, from11>>
  \/ part = "mailbox" /\ Mailbox!ConnectionNext /\ UNCHANGED <<vars, from11>>
  \/ part = "mocking" /\ Mocking!ConnectionNext /\ UNCHANGED <<vars, from11>>

RecordsNext ==
  /\ \/ part = "batches" /\ CampaignNext /\ UNCHANGED <<vars, editingVars, moneyVars, slots>>
     \/ part = "setlists" /\ EditingNext /\ UNCHANGED <<vars, campaignVars, moneyVars, slots>>
     \/ part = "ledger" /\ LedgerNext /\ UNCHANGED <<vars, campaignVars, editingVars, bookVars, slots>>
     \/ part = "books" /\ BooksNext /\ UNCHANGED <<vars, campaignVars, editingVars, ledgerVars, slots>>
     \/ OthersNext /\ UNCHANGED <<campaignVars, editingVars, moneyVars>>
  /\ UNCHANGED part

RecordsSpec == RecordsInit /\ [][RecordsNext]_recordVars

-----------------------------------------------------------------------------
\* A platform's answer says what it holds of the post, and comes after a bounded
\* number of requests (publish of the adapters, putYouTubeBytes, waitForContainer);
\* the file of a post is the one its owner sent, and its captions are drafted within
\* the budget (appendChunk, complete, reserve). What a campaign under edits has sent
\* is what its rows say, once (patchRecipient). Only an owner connects the band, each
\* account is the one its secrets name, and a drop or a request that writes acts for
\* the destination reviewed, by what was granted (finish, callback, secretsFor,
\* resolveForArtist).
PublishIsTrue ==
  /\ part = "adapters" => Adapters!AnswerIsTrue /\ Adapters!PublishEnds
  /\ part = "stored" => Stored!ReadyIsWhole /\ Stored!TabInStep /\ Stored!WithinBudget
  /\ part = "edited" => Edited!PitchedOnce
  /\ part = "paged" => Paged!AccountsAsConnected /\ Paged!SentToReviewed
  /\ part = "owned" => Owned!ConnectedByOwner
  /\ part = "mailbox" => Mailbox!ActsAsGranted
  /\ part = "mocking" => Mocking!AccountsAsConnected

\* What waits can be unlocked, and the Manager's views of work, goal and people do
\* not contradict each other, nor do its views of what it knows, what the records
\* tell and what came of the work (deterministicManagerWorkSequence, -GoalPath,
\* -PlanHealth, -CommitmentHealth, -TeamLoad, -KnowledgeHealth, -ContextHealth,
\* -EvidenceHealth, -OutcomeReview).
SignalsAgree ==
  /\ part = "tasks" => Ordered!OrderCanBeWorked
  /\ part = "planned" => Planned!SignalTypeOK /\ Planned!OrderCanBeWorked /\ Planned!PathTellsHealth
  /\ part = "loaded" => Loaded!SignalTypeOK /\ Loaded!LoadTellsCommitments
  /\ part = "measured" => Measured!SignalTypeOK /\ Measured!PathTellsHealth
  /\ part = "known" => Recalled!KnowledgeTypeOK /\ Recalled!KnowledgeTold
  /\ part = "covered" => Covered!CoverageTypeOK /\ Covered!CoverageAgrees
  /\ part = "ended" => Ended!OutcomesTold

\* What the recommendation says of the two approvals it prepared
\* (reconcileManagerRecommendation).
CompletedMeansExecuted == part = "pair" => Paired!CompletedMeansExecuted
=============================================================================
