------------------------------ MODULE MCRequests ------------------------------
(***************************************************************************)
(* The components where requests of members race: drops, invitations, the   *)
(* tabs of a browser and the bands made there, the setup of the Manager,     *)
(* its recommendations and their receipts, the decisions and examples made    *)
(* with it, and the booking pipeline.                                       *)
(* A behaviour exercises the one component that `part` names.  A drop has   *)
(* the variables of SocialPublishing; the others share v1..v8, and those one *)
(* does not need stay Unused.                                               *)
(***************************************************************************)
EXTENDS SocialPublishing, Integers, FiniteSets, TLC

CONSTANTS
  q1, q2,               \* interchangeable requests
  x1, x2,               \* interchangeable rows
  t1, t2, ann, bob, n1, p1, Nobody,
  Proposals             \* kinds of proposed actions

VARIABLES part, v1, v2, v3, v4, v5, v6, v7, v8

Pairs == Permutations({q1, q2}) \union Permutations({x1, x2})

\* An owner keeps both targets, edits one, or none; one platform may be
\* connected to another account.
OwnerEdits ==
  {[t \in {t1, t2} |-> "keep"], t1 :> "edited" @@ t2 :> "off", t1 :> "off" @@ t2 :> "off"}
OneReconnection == t1 :> 2 @@ t2 :> 1

\* Two requests race over one invitation; one request leaves two of them.
Race == INSTANCE TeamAccess WITH
  Operators <- {ann, bob}, Founders <- {ann}, Requests <- {q1, q2}, Invites <- {p1},
  member <- v1, invite <- v2, req <- v3
Again == INSTANCE TeamAccess WITH
  Operators <- {ann, bob}, Founders <- {ann}, Requests <- {p1}, Invites <- {x1, x2},
  member <- v1, invite <- v2, req <- v3

\* Two tabs sign in for two operators; make bands for one; act and switch for one.
Signing == INSTANCE Workspaces WITH
  Operators <- {ann, bob}, Tabs <- {q1, q2}, Names <- {}, Invites <- {p1, Nobody}, Scoping <- {TRUE},
  MaxSlugs <- 2, MaxTries <- 2, MaxBands <- 2, MaxClicks <- 2, MaxEdits <- 0, MaxFaults <- 0,
  band <- v1, joined <- v2, cookie <- v3, page <- v4, request <- v5, clicks <- v6, edits <- v7, faults <- v8
Founding == INSTANCE Workspaces WITH
  Operators <- {ann}, Tabs <- {q1, q2}, Names <- {t1, t2}, Invites <- {}, Scoping <- {},
  MaxSlugs <- 2, MaxTries <- 2, MaxBands <- 3, MaxClicks <- 2, MaxEdits <- 0, MaxFaults <- 1,
  band <- v1, joined <- v2, cookie <- v3, page <- v4, request <- v5, clicks <- v6, edits <- v7, faults <- v8
Acting == INSTANCE Workspaces WITH
  Operators <- {ann}, Tabs <- {q1, q2}, Names <- {t1}, Invites <- {}, Scoping <- BOOLEAN,
  MaxSlugs <- 2, MaxTries <- 2, MaxBands <- 2, MaxClicks <- 1, MaxEdits <- 1, MaxFaults <- 0,
  band <- v1, joined <- v2, cookie <- v3, page <- v4, request <- v5, clicks <- v6, edits <- v7, faults <- v8

Answers == INSTANCE ManagerAcceptance WITH
  Recommendations <- {x1, x2}, Answerers <- {q1, q2}, MaxEdits <- 1,
  world <- v1, advice <- v2, answer <- v3, edits <- v4, acted <- v5
\* The second task stands on the first; its title and the second show's contain the first's.
Captured == INSTANCE ManagerCapture WITH
  Tasks <- {t1, t2}, Members <- {ann, bob}, Shows <- {n1, p1},
  FirstTitle <- [r \in {t1, n1} |-> {"mixtape"}] @@ [r \in {t2, p1} |-> {"mixtape", "poster"}],
  Needs <- {<<t2, t1>>}, Goalward <- {t1}, MaxEdits <- 2, None <- Nobody,
  Topics <- {"task", "update", "assign", "project", "event", "availability", "context"},
  world <- v1, said <- v2, rec <- v3, edits <- v4
\* Two members decide on a recommendation carried by a hold and a folder.
Carried == INSTANCE ManagerReceipts WITH
  Approvals <- {t1, t2}, ActionOf <- t1 :> "calendar_hold_batch" @@ t2 :> "drive_ensure_folder",
  Requests <- {q1, q2},
  rec <- v1, linked <- v2, rows <- v3, reading <- v4, record <- v5, deciding <- v6
Chosen == INSTANCE ManagerDecisions WITH
  Decisions <- {p1}, Senders <- {q1, q2}, OptionLists <- {{t1, t2}, {t1, n1}},
  MaxVersion <- 4, Nothing <- Nobody,
  decision <- v1, advised <- v2, req <- v3
\* Two answers of one conversation, and two pieces of advice of one key.
Rated == INSTANCE ManagerLearning WITH
  Messages <- {1, 2}, Talk <- <<p1, p1>>, Advice <- {}, Key <- <<>>, Raters <- {q1, q2},
  Limit <- 1, Window <- 3, MaxVersion <- 2, MaxNow <- 6, Nothing <- Nobody,
  version <- v1, answer <- v2, rating <- v3, example <- v4, outcome <- v5, lesson <- v6,
  doing <- v7, now <- v8
Taught == INSTANCE ManagerLearning WITH
  Messages <- {}, Talk <- <<>>, Advice <- {x1, x2, p1}, Key <- x1 :> n1 @@ x2 :> n1 @@ p1 :> p1,
  Raters <- {}, Limit <- 1, Window <- 3, MaxVersion <- 2, MaxNow <- 6, Nothing <- Nobody,
  version <- v1, answer <- v2, rating <- v3, example <- v4, outcome <- v5, lesson <- v6,
  doing <- v7, now <- v8
PlanRow(key, title, under) == [key |-> key, title |-> title, under |-> under]
SetUp == INSTANCE ManagerIntake WITH
  Requests <- {q1, q2}, Actor <- q1 :> ann @@ q2 :> ann, Accounts <- {ann, bob},
  Lineups <- {<<bob, Nobody>>, <<bob, bob>>},
  Template <- [
    original |-> <<PlanRow("release", "ship", "top"), PlanRow("dated", "turn", "release")>>,
    hybrid |-> <<PlanRow("live", "grow", "top"), PlanRow("release", "cycle", "top"),
                 PlanRow("dated", "turn", "release")>>],
  MaxRows <- 2, MaxEdits <- 1, Unset <- n1, Top <- "top",
  role <- v1, profile <- v2, linked <- v3, plan <- v4, req <- v5, edits <- v6
Leads == INSTANCE BookingPipeline WITH
  Opportunities <- {t1, t2}, Prospects <- {p1}, Replies <- {}, Requests <- {q1, q2},
  Proposals <- {n1}, StagesAsked <- {"target"}, Nothing <- Nobody,
  opp <- v1, show <- v2, prospect <- v3, reply <- v4, confirm <- v5, req <- v6, spawned <- v7
Answered == INSTANCE BookingPipeline WITH
  Opportunities <- {t1}, Prospects <- {}, Replies <- {x1, x2}, Requests <- {q1, q2},
  Proposals <- {n1}, StagesAsked <- {"confirmed", "closed"}, Nothing <- Nobody,
  opp <- v1, show <- v2, prospect <- v3, reply <- v4, confirm <- v5, req <- v6, spawned <- v7

ASSUME RequestConstants ==
  /\ Race!TeamConstants /\ Again!TeamConstants
  /\ Signing!WorkspaceConstants /\ Founding!WorkspaceConstants /\ Acting!WorkspaceConstants
  /\ Answers!AcceptanceConstants /\ Carried!ReceiptConstants /\ Chosen!DecisionConstants /\ Captured!CaptureConstants
  /\ Rated!LearningConstants /\ Taught!LearningConstants
  /\ Leads!PipelineConstants /\ Answered!PipelineConstants

Unused == 0
Free8 == v8 = Unused
Free7 == v7 = Unused /\ Free8
Free6 == v6 = Unused /\ Free7
Free5 == v5 = Unused /\ Free6
Free4 == v4 = Unused /\ Free5
Free1 == v1 = Unused /\ v2 = Unused /\ v3 = Unused /\ Free4

from7 == <<v7, v8>>
from6 == <<v6, from7>>
from5 == <<v5, from6>>
from4 == <<v4, from5>>
otherVars == <<v1, v2, v3, from4>>
requestVars == <<part, vars, otherVars>>

OthersInit ==
  \/ part = "race" /\ Race!Init /\ Free4
  \/ part = "again" /\ Again!Init /\ Free4
  \/ part = "signing" /\ Signing!WorkspaceInit
  \/ part = "founding" /\ Founding!WorkspaceInit
  \/ part = "acting" /\ Acting!WorkspaceInit
  \/ part = "answers" /\ Answers!AcceptanceInit /\ Free6
  \/ part = "receipts" /\ Carried!ReceiptInit /\ Free7
  \/ part = "captured" /\ Captured!CaptureInit /\ Free5
  \/ part = "decided" /\ Chosen!DecisionInit /\ Free4
  \/ part = "rated" /\ Rated!LearningInit
  \/ part = "taught" /\ Taught!LearningInit
  \/ part = "setup" /\ SetUp!IntakeInit /\ Free7
  \/ part = "leads" /\ Leads!BookingInit /\ Free8
  \/ part = "answered" /\ Answered!BookingInit /\ Free8

RequestsInit ==
  /\ Init
  /\ \/ part = "drops" /\ Free1
     \/ OthersInit

OthersNext ==
  \/ part = "race" /\ Race!Next /\ UNCHANGED from4
  \/ part = "again" /\ Again!Next /\ UNCHANGED from4
  \/ part = "signing" /\ Signing!WorkspaceNext
  \/ part = "founding" /\ Founding!WorkspaceNext
  \/ part = "acting" /\ Acting!WorkspaceNext
  \/ part = "answers" /\ Answers!AcceptanceNext /\ UNCHANGED from6
  \/ part = "receipts" /\ Carried!ReceiptNext /\ UNCHANGED from7
  \/ part = "captured" /\ Captured!CaptureNext /\ UNCHANGED from5
  \/ part = "decided" /\ Chosen!DecisionNext /\ UNCHANGED from4
  \/ part = "rated" /\ Rated!LearningNext
  \/ part = "taught" /\ Taught!LearningNext
  \/ part = "setup" /\ SetUp!IntakeNext /\ UNCHANGED from7
  \/ part = "leads" /\ Leads!BookingNext /\ UNCHANGED v8
  \/ part = "answered" /\ Answered!BookingNext /\ UNCHANGED v8

RequestsNext ==
  /\ \/ part = "drops" /\ Next /\ UNCHANGED otherVars
     \/ OthersNext /\ UNCHANGED vars
  /\ UNCHANGED part

RequestsSpec == RequestsInit /\ [][RequestsNext]_requestVars

-----------------------------------------------------------------------------
\* Accepting, revoking and expiring an invitation never overwrite one another;
\* members join by a live invitation to them only, which changes no member's role.
\* A sign-in lands at the invitation it began with, and a request acts in the band
\* its page shows (googleCallback, resolveArtistId).
InvitesHonoured ==
  /\ [](/\ part = "signing" => Signing!LandsAtInvite
        /\ part = "acting" => Acting!ActsWhereShown)
  /\ [][/\ part = "race" => Race!ConcludesOnce /\ Race!Joins
        /\ part = "again" => Again!ConcludesOnce /\ Again!Joins]_requestVars

\* A recommendation changes the records once at most and creates no second record
\* of a kind, and changes nothing that changed since it was reviewed; one made of a
\* message changes what the message names, as it says; a decision is one of its options and
\* stands, and what members teach is kept as they taught it (recommendation, the
\* readings, patchDecision, promoteResponseEvalExample, runManagerEvaluation).
ActsOnReviewed ==
  /\ [](/\ part = "answers" => Answers!AcceptedOnce
        /\ part = "decided" => Chosen!ChosenFromOptions
        /\ part = "rated" => Rated!LearningTold
        /\ part = "taught" => Taught!LearningTold)
  /\ [][/\ part = "answers" => Answers!Reviewed
        /\ part = "captured" => Captured!SavedAsSaid /\ Captured!SaidAgain
        /\ part = "decided" => Chosen!ChoiceStands]_requestVars

\* What the receipt of a recommendation says of the work it stands for
\* (projectManagerFollowThrough, recommendation).
ReceiptHonest == part = "receipts" => Carried!ReceiptHonest

\* Conversion makes one opportunity of a prospect (convert); terms move once per
\* reply, by what was analyzed, never once closed (applyTerms); an intake sent twice
\* links an account once and builds one plan (completeIntake); a click makes one band,
\* and an operator has one first band (createWorkspace).
MadeOnce ==
  /\ [](/\ part = "leads" => Leads!ConvertedOnce
        /\ part = "setup" => SetUp!SetUpOnce
        /\ part = "founding" => Founding!BandMadeOnce)
  /\ [][part = "answered" => Answered!AppliesOnce]_requestVars
=============================================================================
