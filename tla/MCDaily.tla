-------------------------------- MODULE MCDaily --------------------------------
(***************************************************************************)
(* The daily work of a band: the jobs of the queue worker, the links of      *)
(* Telegram chats, the import of a song catalog, the logistics and the day of *)
(* a show, and the brief of the Manager and the conversation with it. A       *)
(* behaviour exercises the one component that `part` names.  The alerts, the  *)
(* links, the logistics, the jobs and the conversation have the variables of  *)
(* their modules; the others share v1..v8, and those one does not need stay   *)
(* Unused.                                                                    *)
(***************************************************************************)
EXTENDS Telegram, EventLogistics, WorkflowJobs, ManagerChat, Integers, FiniteSets, TLC

CONSTANTS
  q1, q2,                \* interchangeable tabs
  w2,                    \* the second process, idle where one is enough
  o1, i1, i2, a, b, c, Nil

VARIABLES part, v1, v2, v3, v4, v5, v6, v7, v8

Tabs == Permutations({q1, q2})

\* Every kind of first song beside a second one of the same or another title,
\* previewed; and two imports, one of them the script's, beside members.
Song(n, key, t, kind, played, original, scope) ==
  [id |-> n, key |-> key, title |-> t, project |-> kind, played |-> played,
   original |-> original, scope |-> scope]
Row(n, t) == [id |-> n, title |-> t]
Slugs == a :> a @@ b :> b @@ c :> b
Export(vault, ready, published, official) ==
  [vault |-> vault, ready |-> ready, published |-> published, official |-> official, guests |-> <<b>>]
Exports ==
  {Export(<<Song(1, 1, a, kind, played, TRUE, scope), second>>, ready, published, <<a, c>>) :
     kind \in {"live", "parked", "booker", "other"}, played \in BOOLEAN,
     scope \in {"none", "default_live", "parked_catalog", "cover_not_active"},
     second \in {Song(2, 2, a, "parked", FALSE, TRUE, "none"), Song(2, 3, b, "live", TRUE, FALSE, "none")},
     ready \in {<<>>, <<Row(2, b), Row(1, b)>>}, published \in {<<>>, <<Row(1, a)>>, Nil}}
Nights == {[vault |-> <<>>, ready |-> <<>>, published |-> Nil, official |-> <<a, n>>, guests |-> <<b, c>>] : n \in {b, c}}
Previewed == INSTANCE CatalogImport WITH
  Imports <- {i1}, Payloads <- Exports \union Nights, Flags <- [parked : BOOLEAN, guests : BOOLEAN, all : BOOLEAN],
  Titles <- {a, b, c}, Slug <- Slugs, MaxEdits <- 0, Dry <- {i1}, Scripted <- {}, Nothing <- Nil,
  songs <- v1, setlists <- v2, import <- v3, edits <- v4
Imported == INSTANCE CatalogImport WITH
  Imports <- {i1, i2},
  Payloads <- {Export(<<Song(1, 1, a, "live", FALSE, TRUE, "none"), Song(2, 2, b, "live", FALSE, TRUE, "none")>>,
                      <<Row(1, a), Row(2, b)>>, Nil, <<b>>)} \union {n \in Nights : n.official = <<a, c>>},
  Flags <- {[parked |-> FALSE, guests |-> TRUE, all |-> FALSE]},
  Titles <- {a, b, c}, Slug <- Slugs, MaxEdits <- 1, Dry <- {}, Scripted <- {i2}, Nothing <- Nil,
  songs <- v1, setlists <- v2, import <- v3, edits <- v4

\* Two tabs record facts; one moves the cursor while set and order change; two
\* shows, past or to come, with all that can be next; and two that are over, until
\* both are settled and closed.
At(start, end, set, facts) ==
  [start |-> start, end |-> end, status |-> "confirmed", set |-> set, facts |-> facts]
Wrap == INSTANCE ShowDay WITH
  Gigs <- {1}, Sets <- {1}, Pages <- {q1, q2}, Plans <- {At(0, 0, 1, "none")}, Facts <- {"some", "other"},
  NoFacts <- "none", Patches <- {[field |-> "status", value |-> "completed"]},
  MaxNow <- 1, MaxEdits <- 1, MaxAsks <- 2,
  now <- v1, gig <- v2, order <- v3, settlements <- v4, page <- v5, patch <- v6, edits <- v7
OnStage == INSTANCE ShowDay WITH
  Gigs <- {1}, Sets <- {1, 2}, Pages <- {q1}, Plans <- {At(1, 2, 1, "none")}, Facts <- {"some"},
  NoFacts <- "none", Patches <- {[field |-> "set", value |-> n] : n \in {1, 2}},
  MaxNow <- 3, MaxEdits <- 2, MaxAsks <- 2,
  now <- v1, gig <- v2, order <- v3, settlements <- v4, page <- v5, patch <- v6, edits <- v7
Panel == INSTANCE ShowDay WITH
  Gigs <- {1, 2}, Sets <- {1}, Pages <- {}, Facts <- {"some"}, NoFacts <- "none",
  Plans <- {At(start, end, set, facts) : start \in {1, 2}, end \in {2, Nil}, set \in {1, Nil}, facts \in {"none", "some"}},
  Patches <- {[field |-> "status", value |-> "completed"]},
  MaxNow <- 3, MaxEdits <- 2, MaxAsks <- 0,
  now <- v1, gig <- v2, order <- v3, settlements <- v4, page <- v5, patch <- v6, edits <- v7
Finished == INSTANCE ShowDay WITH
  Gigs <- {1, 2}, Sets <- {1}, Pages <- {}, Facts <- {"some"}, NoFacts <- "none",
  Plans <- {At(start, Nil, Nil, "some") : start \in {0, 1}}, Patches <- {[field |-> "status", value |-> "completed"]},
  MaxNow <- 1, MaxEdits <- 6, MaxAsks <- 0,
  now <- v1, gig <- v2, order <- v3, settlements <- v4, page <- v5, patch <- v6, edits <- v7

\* Jobs of every kind in one process; and the scans of a week in two.
Working ==
  \/ part = "jobs" /\ JobsNext /\ queued' <= 2 /\ processing'[w2] = Free
  \/ part = "scans" /\ JobsNext /\ \A j \in waiting' : j.id = "weekly"

\* Two questions asked at once in a new conversation; and one of every kind after
\* an older turn.
Racing == {{"remember"}, {"follow_up"}, {}}
Chatting ==
  \/ part = "chat" /\ ChatNext /\ byHand' <= 1 /\ \A q \in Calls : handling'[q].asks \in Racing
  \/ part = "older" /\ ChatNext /\ \E q \in Calls : \A other \in Calls \ {q} : handling'[other] = Idle

\* Every pair of matters at once, briefed; and a few matters through days, changes
\* and decisions.
Calm ==
  [intake |-> TRUE, reply |-> Nil, task |-> [state |-> "none", behind |-> "no"], approvals |-> <<>>,
   review |-> Nil, undecided |-> FALSE, context |-> "full", knowledge |-> "healthy",
   show |-> [start |-> Nil, gig |-> TRUE, ready |-> "ready", unavailable |-> FALSE, unresolved |-> FALSE,
             late |-> FALSE, bare |-> FALSE, logistics |-> FALSE],
   invoice |-> [open |-> FALSE, due |-> Nil], followUp |-> Nil, outcome |-> "none",
   project |-> [ready |-> "on_track", due |-> Nil], prospects |-> FALSE, drift |-> "none",
   path |-> "none", planned |-> FALSE]
Waits(id, stage, follow) == [id |-> id, stage |-> stage, follow |-> follow]
Show(start, ready, more) ==
  [start |-> start, gig |-> "rehearsal" \notin more, ready |-> ready, unavailable |-> "unavailable" \in more,
   unresolved |-> FALSE, late |-> "late" \in more, bare |-> "bare" \in more, logistics |-> "logistics" \in more]
Matters ==
  [intake |-> {FALSE}, reply |-> {0, -2, -9},
   task |-> [state : {"blocked", "overdue", "repeatedly_deferred", "waiting"}, behind : {"no"}]
            \union [state : {"overdue", "active"}, behind : {"no", "unlocked", "stuck"}],
   approvals |-> {<<Waits(a, stage, follow)>> : stage \in {"pending_decision", "approved_ready"}, follow \in {"none", "decides"}}
            \union {<<Waits(a, stage, follow)>> :
                       stage \in {"execution_unknown", "failed_needs_reconciliation"}, follow \in {"none", "blocked"}}
            \union {<<Waits(a, "approved_ready", "decides"), Waits(b, "failed_needs_reconciliation", "none"),
                     Waits(c, "execution_unknown", "blocked")>>,
                   <<Waits(a, "pending_decision", "none"), Waits(b, "pending_decision", "decides"),
                     Waits(c, "execution_in_progress", "waits")>>,
                   <<Waits(a, "closed", "none"), Waits(b, "pending_decision", "decides"), Waits(c, "pending_decision", "none")>>},
   review |-> {-1}, undecided |-> {TRUE}, context |-> {"thin", "high", "minor"},
   knowledge |-> {"attention", "conflicted"},
   show |-> {Show(0, "ready", {}), Show(1, "blocked", {"late"}), Show(3, "not_ready", {"bare"}),
             Show(7, "attention", {"logistics"}), Show(9, "ready", {"logistics", "bare"}),
             Show(2, "ready", {"rehearsal", "unavailable"})},
   invoice |-> {[open |-> TRUE, due |-> due] : due \in {Nil, 3, -4, -90}},
   followUp |-> {-1}, outcome |-> {"event_invoice_open", "settlement_incomplete"},
   project |-> {[ready |-> "off_track", due |-> 2], [ready |-> "needs_plan", due |-> 9], [ready |-> "on_track", due |-> -1]},
   prospects |-> {TRUE}, drift |-> {"recorded_ahead", "recorded_behind"},
   path |-> {"blocked", "missing_task", "target_monitoring"}, planned |-> {TRUE}]
Ranking == INSTANCE ManagerBrief WITH
  Worlds <- UNION {{[Calm EXCEPT ![x] = m, ![y] = n] : m \in Matters[x], n \in Matters[y]} :
                     x \in DOMAIN Matters, y \in DOMAIN Matters},
  Options <- <<>>,
  Proposals <- {Nil} \union
    {[key |-> <<"provider", id>>, list |-> list, place |-> 100, priority |-> "med", stream |-> stream,
      evidence |-> {id}, act |-> "none"] :
       id \in {"invoice", "show", "task"}, list \in {"today", "week"}, stream \in {"business", "live"}},
  DismissDays <- 1, CompleteDays <- 2, MaxAge <- 1,
  TodayTake <- 2, WeekTake <- 2, SectionTake <- 2, HistoryTake <- 2, ApprovalTake <- 3,
  MaxDay <- 0, MaxRuns <- 1, MaxChanges <- 0, MaxDecisions <- 0, Nothing <- Nil,
  facts <- v1, day <- v2, recs <- v3, reading <- v4, run <- v5, runs <- v6, changes <- v7, decided <- v8
Mixed == {[Calm EXCEPT !.invoice = [open |-> TRUE, due |-> 1], !.task = [state |-> "unassigned", behind |-> "no"]],
          [Calm EXCEPT !.show = Show(3, "not_ready", {"logistics"}), !.approvals = <<Waits(a, "pending_decision", "none")>>]}
Advice == INSTANCE ManagerBrief WITH
  Worlds <- Mixed, Options <- <<>>,
  Proposals <- {Nil,
    [key |-> <<"provider", "invoice">>, list |-> "today", place |-> 100, priority |-> "high", stream |-> "business",
     evidence |-> {"invoice"}, act |-> "none"]},
  DismissDays <- 1, CompleteDays <- 2, MaxAge <- 1,
  TodayTake <- 3, WeekTake <- 2, SectionTake <- 2, HistoryTake <- 2, ApprovalTake <- 2,
  MaxDay <- 2, MaxRuns <- 2, MaxChanges <- 0, MaxDecisions <- 2, Nothing <- Nil,
  facts <- v1, day <- v2, recs <- v3, reading <- v4, run <- v5, runs <- v6, changes <- v7, decided <- v8
Changing == INSTANCE ManagerBrief WITH
  Worlds <- Mixed, Proposals <- {Nil},
  Options <- [intake |-> BOOLEAN, reply |-> {1}, invoice |-> {[open |-> FALSE, due |-> 1]}, review |-> {1},
              task |-> {[state |-> "overdue", behind |-> "no"]}, show |-> {Show(3, "not_ready", {})},
              approvals |-> {<<Waits(a, "approved_ready", "none")>>}],
  DismissDays <- 1, CompleteDays <- 2, MaxAge <- 1,
  TodayTake <- 3, WeekTake <- 2, SectionTake <- 2, HistoryTake <- 2, ApprovalTake <- 2,
  MaxDay <- 2, MaxRuns <- 2, MaxChanges <- 2, MaxDecisions <- 0, Nothing <- Nil,
  facts <- v1, day <- v2, recs <- v3, reading <- v4, run <- v5, runs <- v6, changes <- v7, decided <- v8

ASSUME DailyConstants ==
  /\ JobConstants /\ ChatConstants
  /\ Previewed!CatalogConstants /\ Imported!CatalogConstants
  /\ Wrap!ShowConstants /\ OnStage!ShowConstants /\ Panel!ShowConstants /\ Finished!ShowConstants
  /\ Ranking!BriefConstants /\ Advice!BriefConstants /\ Changing!BriefConstants

Unused == 0
Free8 == v8 = Unused
Free7 == v7 = Unused /\ Free8
Free5 == v5 = Unused /\ v6 = Unused /\ Free7
from7 == <<v7, v8>>
from5 == <<v5, v6, from7>>
from1 == <<v1, v2, v3, v4, from5>>
dailyVars == <<part, urgentVars, linkVars, logisticsVars, jobVars, chatVars, from1>>

OthersInit ==
  \/ part = "previewed" /\ Previewed!CatalogInit /\ Free5
  \/ part = "imported" /\ Imported!CatalogInit /\ Free5
  \/ part = "wrap" /\ Wrap!ShowInit /\ Free8
  \/ part = "stage" /\ OnStage!ShowInit /\ Free8
  \/ part = "panel" /\ Panel!ShowInit /\ Free8
  \/ part = "finished" /\ Finished!ShowInit /\ Free8
  \/ part = "ranked" /\ Ranking!BriefInit
  \/ part = "advised" /\ Advice!BriefInit
  \/ part = "changed" /\ Changing!BriefInit

Init ==
  /\ UrgentInit /\ LinkInit /\ LogisticsInit /\ JobsInit /\ show.version = i1
  /\ \/ part \in {"urgent", "link", "logistics", "jobs", "scans", "chat", "older"} /\ v1 = Unused /\ v2 = Unused /\ v3 = Unused /\ v4 = Unused /\ Free5
     \/ OthersInit
  /\ ChatInit
  /\ CASE part = "chat" -> log = <<>>
       [] part = "older" -> log # <<>>
       [] OTHER -> log = <<>> /\ settings.full

OthersNext ==
  \/ part = "previewed" /\ Previewed!CatalogNext /\ UNCHANGED from5
  \/ part = "imported" /\ Imported!CatalogNext /\ UNCHANGED from5
  \/ part = "wrap" /\ Wrap!ShowNext /\ UNCHANGED v8
  \/ part = "stage" /\ OnStage!ShowNext /\ UNCHANGED v8
  \/ part = "panel" /\ Panel!ShowNext /\ UNCHANGED v8
  \/ part = "finished" /\ Finished!ShowNext /\ UNCHANGED v8
  \/ part = "ranked" /\ Ranking!BriefNext
  \/ part = "advised" /\ Advice!BriefNext
  \/ part = "changed" /\ Changing!BriefNext

Next ==
  /\ \/ part = "urgent" /\ UrgentNext /\ UNCHANGED <<linkVars, logisticsVars, jobVars, chatVars, from1>>
     \/ part = "link" /\ LinkNext /\ UNCHANGED <<urgentVars, logisticsVars, jobVars, chatVars, from1>>
     \/ part = "logistics" /\ LogisticsNext /\ UNCHANGED <<urgentVars, linkVars, jobVars, chatVars, from1>>
     \/ Working /\ UNCHANGED <<urgentVars, linkVars, logisticsVars, chatVars, from1>>
     \/ Chatting /\ UNCHANGED <<urgentVars, linkVars, logisticsVars, jobVars, from1>>
     \/ OthersNext /\ UNCHANGED <<urgentVars, linkVars, logisticsVars, jobVars, chatVars>>
  /\ UNCHANGED part

Spec == Init /\ [][Next]_dailyVars

-----------------------------------------------------------------------------
\* A plan accounts for its payload, an import links its items, and the catalog
\* says where it comes from (planCatalogImport, importCatalog).
CatalogKept ==
  /\ part = "previewed" => Previewed!CatalogTypeOK /\ Previewed!PlanAccounts
  /\ part = "imported" => /\ Imported!CatalogTypeOK /\ Imported!PlanAccounts
                          /\ Imported!ItemsLinked /\ Imported!SourceTrue

\* Facts are recorded over facts that were seen, a finished show is not buried,
\* and done advice moves on (recordAfterShow, projectOpsShowControl).
ShowKept ==
  /\ [](/\ part = "wrap" => Wrap!ShowTypeOK /\ Wrap!NeverBuried
        /\ part = "stage" => OnStage!ShowTypeOK /\ OnStage!NeverBuried
        /\ part = "panel" => Panel!ShowTypeOK /\ Panel!NeverBuried
        /\ part = "finished" => Finished!ShowTypeOK /\ Finished!NeverBuried)
  /\ [][/\ part = "wrap" => Wrap!FactsStep
        /\ part = "stage" => OnStage!FactsStep
        /\ part = "panel" => Panel!AdviceStep
        /\ part = "finished" => Finished!AdviceStep]_dailyVars

\* A brief keeps handled advice out, names what waits for a member, puts what
\* presses first, and is not served once its advice is answered (generateBrief,
\* currentBrief).
BriefKept ==
  /\ part = "ranked" => Ranking!BriefTypeOK /\ Ranking!ApprovalsNamed /\ Ranking!PressureFirst
  /\ part = "advised" => Advice!BriefTypeOK /\ Advice!HandledStaysAway /\ Advice!AnsweredNotServed
  /\ part = "changed" => Changing!BriefTypeOK /\ Changing!ApprovalsNamed
=============================================================================
