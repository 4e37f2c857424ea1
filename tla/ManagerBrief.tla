----------------------------- MODULE ManagerBrief -----------------------------
(***************************************************************************)
(* The Manager's brief: what deterministicManagerBriefCandidates proposes    *)
(* from the band's records, how a provider's items are merged into it, how    *)
(* handled advice is kept out and the rest ranked and cut                     *)
(* (manager-intelligence.ts), how generateBrief stores it and when            *)
(* currentBrief still serves it (manager.service.ts).                        *)
(*                                                                          *)
(* generateBrief reads the records, waits for the provider and stores the     *)
(* run: ReadFacts and StoreRun. Other actions come between the two. Records   *)
(* of a kind stand for the one the code would pick; approvals are a sequence  *)
(* by updatedAt. Time is counted in days.                                    *)
(***************************************************************************)
EXTENDS Integers, Sequences, SequencesExt, FiniteSetsExt

CONSTANTS
  Worlds,        \* records the band may have to begin with
  Options,       \* [subset of the fields -> values they may be changed to]
  Proposals,     \* items a provider may answer with, Nothing among them
  DismissDays, CompleteDays, MaxAge,         \* cooldowns; age a brief is served to
  TodayTake, WeekTake, SectionTake, HistoryTake, ApprovalTake,  \* limits
  MaxDay, MaxRuns, MaxChanges, MaxDecisions, \* bounds
  Nothing

BriefConstants ==
  /\ {TodayTake, WeekTake, SectionTake, HistoryTake, ApprovalTake} \subseteq Nat \ {0}
  /\ {DismissDays, CompleteDays, MaxAge, MaxDay, MaxRuns, MaxChanges, MaxDecisions} \subseteq Nat
  /\ \A w \in Worlds : DOMAIN Options \subseteq DOMAIN w

VARIABLES
  facts,     \* the records
  day,
  recs,      \* ManagerRecommendation rows
  reading,   \* what a generateBrief under way has read
  run,       \* the latest ManagerRun
  runs, changes, decided   \* how many there were

briefVars == <<facts, day, recs, reading, run, runs, changes, decided>>

NeedsHuman == {"pending_decision", "approved_ready", "execution_unknown", "failed_needs_reconciliation"}
Stages == NeedsHuman \union {"execution_in_progress", "closed"}
Outcomes == {"suggested", "accepted", "dismissed", "completed"}

-----------------------------------------------------------------------------
(* Candidates *)

When(holds, items) == IF holds THEN items ELSE {}

\* act: what accepting the advice starts: nothing, a task or approvals that are
\* tracked, or a change made at once to a record that is tracked.
Item(key, list, place, priority, stream, evidence, act) ==
  [key |-> key, list |-> list, place |-> place, priority |-> priority,
   stream |-> stream, evidence |-> evidence, act |-> act]

Past(date, d) == date # Nothing /\ date < d
Within(date, d, days) == date # Nothing /\ d <= date /\ date <= d + days

Severe(task) == task.state \in {"blocked", "overdue"}
TaskAdvice(f) ==
  LET t == f.task
      urgent == IF Severe(t) THEN "high" ELSE "med"
      list == IF Severe(t) THEN "today" ELSE "week"
  IN IF t.state = "none" THEN {}
     ELSE IF t.behind = "unlocked" THEN
            {Item(<<"work-sequence", "first">>, list, 3, urgent, "band_operations", {"task", "first"}, "none")}
     ELSE IF t.behind = "no" /\ t.state # "active" THEN
            {Item(<<"commitment", t.state>>, list, 3, urgent, "band_operations", {"task"},
                  IF t.state = "unassigned" THEN "now" ELSE "none")}
     ELSE {}

\* Of the approvals that need someone: unknown outcomes first, then failures, then
\* those to execute, then those to decide; the oldest of each.
Urgency(stage) ==
  CASE stage = "execution_unknown" -> 0 [] stage = "failed_needs_reconciliation" -> 1
    [] stage = "approved_ready" -> 2 [] OTHER -> 3
ApprovalAdvice(f) ==
  LET waiting == {n \in DOMAIN f.approvals : f.approvals[n].stage \in NeedsHuman}
      first == CHOOSE n \in waiting : \A m \in waiting :
                 \/ Urgency(f.approvals[n].stage) < Urgency(f.approvals[m].stage)
                 \/ Urgency(f.approvals[n].stage) = Urgency(f.approvals[m].stage) /\ n <= m
      id == f.approvals[first].id
  IN When(waiting # {},
          {Item(<<"approval", id>>, "today", 4, "high", "band_operations", {id}, "none")})

ShowAdvice(f, d) ==
  LET s == f.show
      onTheDay == s.gig /\ Within(s.start, d, 1)
      pressing == IF s.gig THEN s.ready \in {"blocked", "not_ready"} \/ s.late
                           ELSE s.unavailable \/ s.unresolved
  IN When(Within(s.start, d, 21),
       {Item(<<"event", "show">>, "today", 8, IF pressing THEN "high" ELSE "med", "live", {"show"},
             IF s.gig /\ ~onTheDay /\ s.bare THEN "now" ELSE "none")}
       \union When(s.gig /\ s.logistics,
         {Item(<<"event-logistics", "show">>, "week", 9,
               IF Within(s.start, d, 7) THEN "high" ELSE "med", "live", {"show"}, "approvals")}))

InvoiceAdvice(f, d) ==
  When(f.invoice.open,
    {Item(<<"invoice", "invoice">>, "today", 10, IF Past(f.invoice.due, d) THEN "high" ELSE "med",
          "business", {"invoice"}, "task")})

ProjectAdvice(f, d) ==
  LET p == f.project IN
  When(p.ready \in {"blocked", "off_track", "needs_plan", "at_risk"} \/ Past(p.due, d),
    {Item(<<"project", "project">>, "week", 13,
          IF p.ready \in {"blocked", "off_track"} \/ Past(p.due, d) THEN "high" ELSE "med",
          "releases", {"project"}, IF p.ready = "needs_plan" /\ p.due # Nothing THEN "now" ELSE "none")})

\* A decision to look back at, and what the Manager has still to be told.
OtherAdvice(f, d) ==
  When(f.review # Nothing /\ f.review <= d,
    {Item(<<"decision-review", "decision">>, "today", 5, "med", "live", {"decision"}, "none")})
  \union When(f.context # "full" /\ f.intake,
    {Item(<<"context", "gap">>, IF f.context = "thin" THEN "today" ELSE "week", 6,
          IF f.context = "minor" THEN "low" ELSE "med", "band_operations", {"profile"}, "none")})
  \union When(f.knowledge # "healthy" /\ f.intake,
    {Item(<<"knowledge-refresh", "memory">>, IF f.knowledge = "conflicted" THEN "today" ELSE "week", 7,
          IF f.knowledge = "conflicted" THEN "med" ELSE "low", "band_operations", {"memory"}, "none")})

\* Outreach, past shows, prospects, measured progress and the path to a goal.
OtherMatters(f, d) ==
  When(Past(f.followUp, d),
    {Item(<<"campaign-follow-ups", "recipient">>, "today", 11, "high", "relationships", {"recipient"}, "none")})
  \union When(f.outcome # "none",
    {Item(<<"outcome", f.outcome>>, "week", 12, IF f.outcome = "event_invoice_open" THEN "high" ELSE "med",
          "business", {"past"}, "none")})
  \union When(f.prospects,
    {Item(<<"qualified-prospects", "prospect">>, "week", 14, "med", "live", {"prospect"}, "task")})
  \union When(f.drift # "none",
    {Item(<<"goal-measurement", "goal">>, "week", 15, IF f.drift = "recorded_ahead" THEN "med" ELSE "low",
          "audience", {"goal"}, "none")})
  \union When(f.path # "none",
    {Item(<<"goal-path", f.path>>, "week", 16,
          CASE f.path \in {"blocked", "conflicted"} -> "high" [] f.path = "target_monitoring" -> "low" [] OTHER -> "med",
          "audience", {"goal"}, IF f.path = "missing_task" THEN "task" ELSE "none")})

Pressures(f, d) ==
  When(~f.intake,
    {Item(<<"complete-intake", "setup">>, "today", 1, "high", "band_operations", {}, "none")})
  \union When(f.reply # Nothing,
    {Item(<<"booking-reply", "reply">>, "today", 2, "high", "relationships", {"reply"}, "none")})
  \union TaskAdvice(f) \union ApprovalAdvice(f) \union ShowAdvice(f, d)
  \union InvoiceAdvice(f, d) \union ProjectAdvice(f, d) \union OtherAdvice(f, d)
  \union OtherMatters(f, d)

\* When nothing is for today, the plan's next task is, or the choice of a focus.
Candidates(f, d) ==
  LET pressures == Pressures(f, d) IN
  pressures \union When(\A i \in pressures : i.list # "today",
    {IF f.planned THEN Item(<<"planned-task", "planned">>, "today", 17, "med", "audience", {"planned"}, "none")
                  ELSE Item(<<"weekly-focus", "focus">>, "today", 17, "low", "audience",
                            IF f.path # "none" THEN {"goal"} ELSE {}, "none")})

-----------------------------------------------------------------------------
(* What a provider adds *)

Known(f) ==
  {"profile", "memory", "goal", "past", "planned", "prospect", "recipient"}
  \union When(f.reply # Nothing, {"reply"}) \union When(f.task.state # "none", {"task", "first"})
  \union When(f.show.start # Nothing, {"show"}) \union When(f.invoice.open, {"invoice"})
  \union {f.approvals[n].id : n \in DOMAIN f.approvals}

\* A severe commitment is kept for today, and work behind other work is proposed
\* only with what unlocks it; or the provider's whole answer is dropped.
Grounded(f, p) ==
  /\ p.evidence \subseteq Known(f)
  /\ Severe(f.task) => p.list = "today" /\ "task" \in p.evidence
  /\ "task" \in p.evidence =>
       CASE f.task.behind = "no" -> TRUE
         [] f.task.behind = "unlocked" -> "first" \in p.evidence
         [] OTHER -> FALSE

Prepares(item) == item.key[1] = "event-logistics"
Same(left, right) ==
  \/ left.key = right.key
  \/ /\ Prepares(left) = Prepares(right)
     /\ left.stream = right.stream
     /\ left.evidence \intersect right.evidence # {}

Level == [low |-> 0, med |-> 1, high |-> 2]
Higher(p, q) == IF Level[p] >= Level[q] THEN p ELSE q

MergedInto(items, p) ==
  LET same == {i \in items : Same(i, p)}
      first == CHOOSE i \in same : \A j \in same : i.place <= j.place
  IN IF same = {} THEN items \union {p}
     ELSE (items \ {first}) \union
          {[first EXCEPT !.priority = Higher(@, p.priority), !.evidence = @ \union p.evidence,
                         !.act = IF @ = "none" THEN p.act ELSE @]}

Merged(items, p) ==
  LET today == {i \in items : i.list = "today"}
      week == items \ today
      newToday == IF p.list = "today" THEN MergedInto(today, p) ELSE today
      newWeek == IF p.list = "week" THEN MergedInto(week, p) ELSE week
  IN newToday \union {i \in newWeek : \A j \in newToday : ~Same(j, i)}

-----------------------------------------------------------------------------
(* Handled advice *)

Cools(row, d) ==
  \/ row.work = "open"
  \/ (row.outcome = "completed" \/ (row.work = "done" /\ row.act # "approvals")) /\ d - row.at < CompleteDays
  \/ row.outcome = "dismissed" /\ d - row.at < DismissDays

\* The most recently updated decisions.
History(rows, count) == {r \in rows : r.outcome # "suggested" /\ r.no > count - HistoryTake}

Suppressed(item, history, d) == \E r \in history : r.key = item.key /\ Cools(r, d)

-----------------------------------------------------------------------------
(* Rank *)

ShowImpact(s, d) ==
  (IF Within(s.start, d, 1) THEN 140 ELSE IF Within(s.start, d, 3) THEN 105 ELSE IF Within(s.start, d, 7) THEN 70
   ELSE IF Within(s.start, d, 21) THEN 30 ELSE 0)
  + (IF s.unavailable THEN 75 ELSE 0)
  + (IF ~s.gig THEN 0 ELSE IF s.ready = "blocked" THEN 80 ELSE IF s.ready = "not_ready" THEN 55
     ELSE IF s.ready = "attention" THEN 20 ELSE 0)
  + (IF s.gig /\ s.late THEN 65 ELSE 0)

StageImpact(stage) ==
  CASE stage = "execution_unknown" -> 145 [] stage = "failed_needs_reconciliation" -> 120
    [] stage = "approved_ready" -> 100 [] stage = "pending_decision" -> 70 [] OTHER -> 0
ApprovalImpact(f, evidence) ==
  LET cited == {n \in DOMAIN f.approvals : f.approvals[n].id \in evidence} IN
  IF cited = {} THEN 0 ELSE StageImpact(f.approvals[Min(cited)].stage)

TaskImpact ==
  [blocked |-> 85, overdue |-> 75, repeatedly_deferred |-> 55, waiting |-> 45,
   unassigned |-> 35, due_soon |-> 25, unscheduled |-> 10, active |-> 0, none |-> 0]

ProjectImpact(p, d) ==
  (IF Past(p.due, d) THEN 75 ELSE 0)
  + (CASE p.ready = "blocked" -> 70 [] p.ready = "off_track" -> 55 [] p.ready = "at_risk" -> 30
       [] p.ready = "needs_plan" -> 25 [] OTHER -> 0)

KindImpact(item, f) ==
  CASE item.key[1] = "complete-intake" -> 35
    [] item.key[1] = "context" -> -60
    [] item.key[1] = "knowledge-refresh" -> IF f.knowledge = "conflicted" THEN 45 ELSE -45
    [] item.key[1] = "goal-measurement" -> IF item.priority = "med" THEN 10 ELSE -35
    [] item.key[1] = "weekly-focus" -> -25
    [] OTHER -> 0

Base == [high |-> 300, med |-> 200, low |-> 100]

Score(item, f, d) ==
  LET Cited(id, impact) == IF id \in item.evidence THEN impact ELSE 0 IN
  Base[item.priority] + KindImpact(item, f)
  + (IF item.evidence = {} THEN 0 ELSE 5)
  + Cited("show", ShowImpact(f.show, d))
  + ApprovalImpact(f, item.evidence)
  + Cited("reply", IF f.reply = Nothing THEN 0
                   ELSE IF d - f.reply <= 1 THEN 90 ELSE IF d - f.reply <= 3 THEN 70 ELSE 45)
  + Cited("task", TaskImpact[f.task.state])
  + Cited("invoice", IF ~f.invoice.open THEN 0
                     ELSE IF Past(f.invoice.due, d) THEN 70 + Min({30, d - f.invoice.due}) ELSE 25)
  + Cited("decision", IF f.review # Nothing /\ f.review <= d THEN 50 ELSE 0)
  + Cited("recipient", IF Past(f.followUp, d) THEN 60 ELSE 0)
  + Cited("project", ProjectImpact(f.project, d))

Ranked(items, take, f, d) ==
  LET score == [i \in items |-> Score(i, f, d)]
      Before(i) == {j \in items : score[j] > score[i] \/ (score[j] = score[i] /\ j.place < i.place)}
  IN [n \in 1..Min({take, Cardinality(items)}) |->
        CHOOSE i \in items : Cardinality(Before(i)) = n - 1]

-----------------------------------------------------------------------------
(* The brief *)

\* The approvals the sections of a brief name. What follow-through already lists
\* under a section is not listed there again.
Stage(f, stages, skipped) ==
  SelectSeq(f.approvals, LAMBDA a : a.stage \in stages /\ a.follow # skipped)
Followed(f, follow) == SelectSeq(f.approvals, LAMBDA a : a.follow = follow)
Cut(s, take) == SubSeq(s, 1, Min({take, Len(s)}))

DecisionsNeeded(f) ==
  Cut(Followed(f, "decides")
      \o (IF f.undecided THEN <<[id |-> "open decision", stage |-> "closed", follow |-> "none"]>> ELSE <<>>)
      \o Stage(f, {"pending_decision"}, "decides") \o Stage(f, {"approved_ready"}, "decides"),
      SectionTake)
WaitingOn(f) == Cut(Followed(f, "waits") \o Stage(f, {"execution_in_progress"}, "none of them"), SectionTake)
Risks(f) == Followed(f, "blocked") \o Stage(f, {"execution_unknown", "failed_needs_reconciliation"}, "blocked")

Brief_Suppressed(seen, p) ==
  LET f == seen.facts
      d == seen.day
      open == {i \in Candidates(f, d) : ~Suppressed(i, seen.history, d)}
      items == IF p # Nothing /\ Grounded(f, p) THEN Merged(open, p) ELSE open
  IN [today |-> Ranked({i \in items : i.list = "today"}, TodayTake, f, d),
      week |-> Ranked({i \in items : i.list = "week"}, WeekTake, f, d),
      decisions |-> DecisionsNeeded(f), waiting |-> WaitingOn(f), risks |-> Risks(f)]

\* generateBrief, from what it read and what the provider answered.
Brief(seen, p) ==
  LET f == seen.facts
      d == seen.day
      all == Candidates(f, d)
      merged == IF p # Nothing /\ Grounded(f, p) THEN Merged(all, p) ELSE all
      items == {i \in merged : ~Suppressed(i, seen.history, d)}
  IN [today |-> Ranked({i \in items : i.list = "today"}, TodayTake, f, d),
      week |-> Ranked({i \in items : i.list = "week"}, WeekTake, f, d),
      decisions |-> DecisionsNeeded(f), waiting |-> WaitingOn(f), risks |-> Risks(f)]

-----------------------------------------------------------------------------
(* The service *)

\* Audit rows that make a brief old, and those the handlers leave.
FactAggregates ==
  {"ArtistOperatingProfile", "Task", "TaskDependency", "BandEvent", "Invoice", "ManagerDecision",
   "ApprovalRequest", "BookingReply"}
AuditedAs(field) ==
  CASE field = "intake" -> {"ArtistOperatingProfile"}
    [] field = "task" -> {"Task", "TaskDependency"}
    [] field = "show" -> {"BandEvent", "EventParticipant"}
    [] field = "invoice" -> {"Invoice", "PaymentRecord"}
    [] field = "review" -> {"ManagerDecision"}
    [] field = "approvals" -> {"ApprovalRequest", "ApprovalReconciliation"}
    [] OTHER -> {"BookingReply"}

BriefInit ==
  /\ facts \in Worlds
  /\ day = 0 /\ recs = {} /\ reading = Nothing /\ run = Nothing
  /\ runs = 0 /\ changes = 0 /\ decided = 0

\* The oldest approvals are read, those that failed and are concluded among them.
Read(f) == [f EXCEPT !.approvals = Cut(@, ApprovalTake)]

ReadFacts ==
  /\ reading = Nothing
  /\ runs < MaxRuns
  /\ reading' = [facts |-> Read(facts), day |-> day, history |-> History(recs, decided)]
  /\ UNCHANGED <<facts, day, recs, run, runs, changes, decided>>

StoreRun(p) ==
  LET brief == Brief(reading, p) IN
  /\ reading # Nothing
  /\ run' = [brief |-> brief, seen |-> reading, at |-> day, old |-> FALSE]
  /\ recs' = recs \union
       {[key |-> i.key, run |-> runs, act |-> i.act, outcome |-> "suggested", at |-> day, no |-> 0, work |-> "none"] :
          i \in ToSet(brief.today) \union ToSet(brief.week)}
  /\ runs' = runs + 1
  /\ reading' = Nothing
  /\ UNCHANGED <<facts, day, changes, decided>>

\* A handler changes a record and leaves its audit row.
Change(field, value, audit) ==
  /\ changes < MaxChanges
  /\ facts[field] # value
  /\ audit \in AuditedAs(field)
  /\ facts' = [facts EXCEPT ![field] = value]
  /\ changes' = changes + 1
  /\ run' = IF run = Nothing THEN run ELSE [run EXCEPT !.old = @ \/ audit \in FactAggregates]
  /\ UNCHANGED <<day, recs, reading, runs, decided>>

\* Decisions on advice are audited among the facts too.
Outdate == IF run = Nothing THEN run ELSE [run EXCEPT !.old = TRUE]

\* recommendation: what a member answers; no is the order of the rows' updates.
Decide(r, outcome) ==
  LET final == IF outcome = "accepted" /\ r.act = "now" THEN "completed" ELSE outcome
      work == IF outcome = "accepted" /\ r.act # "none" THEN "open" ELSE r.work
  IN /\ decided < MaxDecisions
     /\ outcome \in {"accepted", "dismissed", "completed"}
     /\ r.outcome = "suggested" \/ (outcome = "completed" /\ r.outcome = "accepted" /\ r.work # "open")
     /\ recs' = (recs \ {r}) \union
                {[r EXCEPT !.outcome = final, !.at = day, !.no = decided + 1, !.work = work]}
     /\ decided' = decided + 1
     /\ run' = Outdate
     /\ UNCHANGED <<facts, day, reading, runs, changes>>

\* The tracked work is done; a task says so to the advice that was accepted, the
\* approvals do not.
FinishWork(r) ==
  /\ decided < MaxDecisions
  /\ r.work = "open"
  /\ recs' = (recs \ {r}) \union
             {IF r.outcome = "accepted" /\ r.act = "task"
              THEN [r EXCEPT !.work = "done", !.outcome = "completed", !.at = day, !.no = decided + 1]
              ELSE [r EXCEPT !.work = "done"]}
  /\ decided' = decided + 1
  /\ run' = Outdate
  /\ UNCHANGED <<facts, day, reading, runs, changes>>

DayPasses ==
  /\ day < MaxDay
  /\ day' = day + 1
  /\ UNCHANGED <<facts, recs, reading, run, runs, changes, decided>>

\* currentBrief
Served == run # Nothing /\ ~run.old /\ day - run.at <= MaxAge

BriefNext ==
  \/ ReadFacts
  \/ \E p \in Proposals : StoreRun(p)
  \/ \E field \in DOMAIN Options : \E value \in Options[field], audit \in AuditedAs(field) :
       Change(field, value, audit)
  \/ \E r \in recs : FinishWork(r) \/ \E outcome \in Outcomes : Decide(r, outcome)
  \/ DayPasses

-----------------------------------------------------------------------------
(* Properties *)

Advice == ToSet(run.brief.today) \union ToSet(run.brief.week)

\* Advice that was dismissed or completed stays away for its cooldown and advice
\* with work under way altogether, also under a provider's name for the same
\* records (docs/developer-runbook.md:768-770, docs/architecture.md:117).
HandledStaysAway ==
  run # Nothing =>
    LET seen == run.seen
        Handled(i) ==
          \E r \in seen.history : r.key = i.key /\
             \/ r.work = "open"
             \/ r.outcome = "dismissed" /\ seen.day < r.at + DismissDays
             \/ r.outcome = "completed" /\ seen.day < r.at + CompleteDays
        all == Candidates(seen.facts, seen.day)
    IN \A i \in Advice :
         /\ ~Handled(i)
         /\ \A c \in all : Handled(c) /\ c.list = i.list /\ Same(c, i) => \E o \in all : o.key = i.key

\* Whatever was dismissed or left out for others, an approval whose outcome is
\* unknown or failed is named in the brief, and so is one that waits for a member
\* unless the decisions fill their section (docs/architecture.md:428).
ApprovalsNamed ==
  run # Nothing =>
    LET Names(s) == {s[n].id : n \in DOMAIN s}
        named == Names(run.brief.decisions) \union Names(run.brief.waiting) \union Names(run.brief.risks)
    IN \A n \in DOMAIN run.seen.facts.approvals :
         LET waits == run.seen.facts.approvals[n] IN
         waits.stage \in NeedsHuman =>
           \/ waits.id \in named
           \/ waits.stage \in {"pending_decision", "approved_ready"} /\ Len(run.brief.decisions) = SectionTake

Pressing(i, f, d) ==
  \/ i.key[1] \in {"approval", "booking-reply"}
  \/ i.key[1] = "commitment" /\ Severe(f.task)
  \/ i.key[1] = "invoice" /\ Past(f.invoice.due, d)
  \/ i.key[1] = "event" /\ Within(f.show.start, d, 1)
General(i) ==
  i.key[1] \in {"complete-intake", "context", "knowledge-refresh", "planned-task", "weekly-focus"}

\* Shows of the day, blocked and overdue work, replies, approvals and overdue money
\* come before setup and planning (the instructions in generateBrief).
PressureFirst ==
  run # Nothing =>
    \A m, n \in DOMAIN run.brief.today :
      General(run.brief.today[m]) /\ Pressing(run.brief.today[n], run.seen.facts, run.seen.day) => n < m

\* A brief that is served shows no advice of its own that a member has answered, or
\* whose work is done: whoever answered, the row tells (latestManagerFactChange).
AnsweredNotServed ==
  Served => \A r \in recs : r.run = runs - 1 => r.outcome = "suggested" /\ r.work = "none"

BriefTypeOK ==
  /\ day \in 0..MaxDay /\ runs \in 0..MaxRuns /\ changes \in 0..MaxChanges /\ decided \in 0..MaxDecisions
  /\ \A r \in recs : r.outcome \in Outcomes /\ r.work \in {"none", "open", "done"} /\ r.run < runs
  /\ \A n \in DOMAIN facts.approvals : facts.approvals[n].stage \in Stages
  /\ run # Nothing => Len(run.brief.today) <= TodayTake /\ Len(run.brief.week) <= WeekTake
=============================================================================
