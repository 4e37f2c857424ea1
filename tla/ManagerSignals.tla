---------------------------- MODULE ManagerSignals ----------------------------
(***************************************************************************)
(* What the Manager concludes from tasks, goals and people: the order of      *)
(* work, the commitments under pressure, the path and the health of a goal,  *)
(* and who could take an unowned task.  Each is a function of its own over    *)
(* the same records, with its own order of cases, and a brief shows them side *)
(* by side.  The records change as TaskGraph lets them and as goals,          *)
(* initiatives, owners and check-ins are edited without further guards.       *)
(*                                                                          *)
(* Ties that the code breaks by title are left open: any of them may be first. *)
(***************************************************************************)
EXTENDS Integers, FiniteSets

CONSTANTS
  Tasks, Requests, Changes, MaxDue, ScanLimit, Keep,   \* of TaskGraph
  Initiatives, Members,
  Goals,         \* rows the goal may have
  Plans,         \* rows an initiative may have
  Owners,        \* what may own a task: Members and, as labels, those below
  Score,         \* Score[m]: how well member m's roles match an unowned task
  Soon,          \* moments that are near, for dates and loads alike
  DayLength,     \* moments in a UTC day
  MaxNow, MaxEdits, MaxEvidence, MaxDeferrals,   \* bounds
  Nothing

\* Labels that stand for nobody, for a system placeholder, for a name in no lineup.
Labels == {"", "manager recommendation", "stranger"}

SignalConstants ==
  /\ {Soon, MaxNow, MaxEdits, MaxEvidence, MaxDeferrals} \subseteq Nat /\ DayLength \in Nat \ {0}
  /\ Owners \subseteq Members \union Labels
  /\ Score \in [Members -> Nat]

VARIABLES
  task, edges, req,   \* of TaskGraph
  now,
  goal,        \* the active goal
  initiative,  \* [Initiatives -> row]
  home,        \* [Tasks -> initiative]
  owner,       \* [Tasks -> owner]
  deferrals,   \* [Tasks -> count]
  waitingOn,   \* tasks that wait for somebody outside
  checkIn,     \* [Members -> last check-in]
  evidence,    \* records that match the goal's source
  shown,       \* the count a page shows for the goal
  edits

Graph == INSTANCE TaskGraph

signalVars == <<task, edges, req, now, goal, initiative, home, owner, deferrals,
                waitingOn, checkIn, evidence, shown, edits>>

SignalInit ==
  /\ Graph!Init
  /\ now = 1
  /\ goal \in Goals
  /\ initiative \in [Initiatives -> Plans]
  /\ home = [t \in Tasks |-> Nothing]
  /\ owner = [t \in Tasks |-> ""]
  /\ deferrals = [t \in Tasks |-> 0]
  /\ waitingOn = {}
  /\ checkIn = [m \in Members |-> [status |-> "unknown", until |-> Graph!NoDate]]
  /\ evidence = 0
  /\ shown = Nothing
  /\ edits = 0

SignalTypeOK ==
  /\ Graph!TypeOK
  /\ now \in 1..MaxNow
  /\ goal \in [status : {"active", "achieved"}, deadline : Graph!Dates, target : Int \union {Nothing},
               current : Int \union {Nothing}, direction : {"at_least", "at_most", "exact"}, measured : BOOLEAN]
  /\ initiative \in [Initiatives -> [status : {"active", "blocked", "completed"}, due : Graph!Dates]]
  /\ home \in [Tasks -> Initiatives \union {Nothing}]
  /\ owner \in [Tasks -> Members \union Labels]
  /\ deferrals \in [Tasks -> 0..MaxDeferrals]
  /\ waitingOn \in SUBSET Tasks
  /\ checkIn \in [Members -> [status : {"unknown", "available", "limited", "unavailable"}, until : 0..MaxNow + 1]]
  /\ evidence \in 0..MaxEvidence
  /\ shown \in (0..MaxEvidence) \union {Nothing}
  /\ edits \in 0..MaxEdits

----------------------------------------------------------------------------
(* The order of work (deterministicManagerWorkSequence)                     *)

NoDate == Graph!NoDate
Passed(date) == date # NoDate /\ date < now
Near(date) == date # NoDate /\ date >= now /\ date <= now + Soon
After(date, limit) == date # NoDate /\ limit # NoDate /\ date > limit

Open == {t \in Tasks : Graph!Exists(t) /\ task[t].status # "done"}
Unfinished(t) == {p \in Graph!Prerequisites(t) : task[p].status # "done"}

Downstream_Direct(t) == Graph!Dependents(t) \intersect Open
\* The open tasks whose prerequisites lead to t.
Downstream(t) == {d \in Open \ {t} : Graph!WouldCycle(t, d, edges)}

WorkState(t) ==
  IF \E p \in Graph!Prerequisites(t) : After(task[p].due, task[t].due) THEN "conflicted"
  ELSE IF task[t].status = "blocked" THEN "manually_blocked"
  ELSE IF Unfinished(t) # {} THEN "waiting_on_prerequisites"
  ELSE "ready_now"

In(state) == {t \in Open : WorkState(t) = state}

\* x comes before y: smaller at the first place at which they differ.
Precedes(x, y) == \E i \in DOMAIN x : x[i] < y[i] /\ \A j \in 1..(i - 1) : x[j] = y[j]
FirstOf(S, Key(_)) == {t \in S : \A u \in S : ~Precedes(Key(u), Key(t))}
No(b) == IF b THEN 0 ELSE 1
LastIfNone(date) == IF date = NoDate THEN MaxDue + 1 ELSE date

WorkKey(t) == <<No(Passed(task[t].due)), -Cardinality(Downstream(t)), LastIfNone(task[t].due)>>

SequenceStatus ==
  IF Open = {} THEN "empty"
  ELSE IF In("conflicted") # {} THEN "conflicted"
  ELSE IF In("waiting_on_prerequisites") \union In("manually_blocked") # {} THEN "waiting"
  ELSE "clear"

----------------------------------------------------------------------------
(* Commitments (deterministicManagerCommitmentHealth)                       *)

Unassigned(t) == owner[t] \in {"", "manager recommendation"}
Deferred(t) == deferrals[t] >= 2

CommitmentState(t) ==
  IF task[t].status = "blocked" THEN "blocked"
  ELSE IF Passed(task[t].due) THEN "overdue"
  ELSE IF Deferred(t) THEN "repeatedly_deferred"
  ELSE IF t \in waitingOn THEN "waiting"
  ELSE IF Unassigned(t) THEN "unassigned"
  ELSE IF Near(task[t].due) THEN "due_soon"
  ELSE IF task[t].due = NoDate THEN "unscheduled"
  ELSE "active"

Severity(t) ==
  IF task[t].status = "blocked" \/ Passed(task[t].due) THEN "high"
  ELSE IF Deferred(t) \/ Unassigned(t) \/ Near(task[t].due) THEN "med"
  ELSE "low"

SeverityRank == [high |-> 0, med |-> 1, low |-> 2]
StateRank == [blocked |-> 0, overdue |-> 1, repeatedly_deferred |-> 2, waiting |-> 3,
              unassigned |-> 4, due_soon |-> 5, unscheduled |-> 6, active |-> 7]
CommitmentKey(t) ==
  <<SeverityRank[Severity(t)], StateRank[CommitmentState(t)], LastIfNone(task[t].due), -deferrals[t]>>
\* What the next action is about.
FirstCommitment == FirstOf(Open, CommitmentKey)

----------------------------------------------------------------------------
(* Who could take a task (deterministicManagerTeamLoad)                     *)

DayOf(date) == date \div DayLength
Assigned(m) == {t \in Open : owner[t] = m}
LateByDay(t) == task[t].due # NoDate /\ DayOf(task[t].due) < DayOf(now)
DueSoon(m) == Cardinality({t \in Assigned(m) : Near(task[t].due)})

\* Four due soon or six in all are a high load.
Pressure(m) ==
  IF \E t \in Assigned(m) : task[t].status = "blocked" \/ LateByDay(t) THEN "urgent"
  ELSE IF DueSoon(m) >= 4 \/ Cardinality(Assigned(m)) >= 6 THEN "high"
  ELSE IF Assigned(m) # {} THEN "steady"
  ELSE "clear"

Freshness(m) ==
  IF checkIn[m].status = "unknown" THEN "missing"
  ELSE IF checkIn[m].until # NoDate /\ checkIn[m].until <= now THEN "expired"
  ELSE "current"
Availability(m) == IF Freshness(m) = "current" THEN checkIn[m].status ELSE "unknown"
AvailabilityRank == [available |-> 0, unknown |-> 1, limited |-> 2, unavailable |-> 3]

Assignable == {t \in Open : owner[t] \in {"", "manager recommendation"}}
Candidates == {m \in Members : Score[m] > 0 /\ Pressure(m) # "urgent" /\ Availability(m) # "unavailable"}
LoadKey(m) ==
  <<-Score[m], AvailabilityRank[Availability(m)], DueSoon(m), Cardinality(Assigned(m))>>

\* Of two that are equal in everything but their names neither is suggested.
Suggested(t) ==
  {m \in Candidates : t \in Assignable /\ \A n \in Candidates \ {m} : Precedes(LoadKey(m), LoadKey(n))}

Owned == {t \in Open : owner[t] \in Members}
LoadStatus ==
  LET most == CHOOSE n \in 0..Cardinality(Tasks) :
                /\ \A m \in Members : Cardinality(Assigned(m)) <= n
                /\ n = 0 \/ \E m \in Members : Cardinality(Assigned(m)) = n
  IN IF Members = {} THEN "needs_context"
     ELSE IF Owned # Open THEN "needs_owners"
     ELSE IF Cardinality(Owned) >= 4 /\ 10 * most >= 6 * Cardinality(Owned) THEN "concentrated"
     ELSE "distributed"

----------------------------------------------------------------------------
(* The goal: its target and its measurement                                 *)

Meets(g) ==
  CASE g.direction = "at_least" -> g.current >= g.target
    [] g.direction = "at_most" -> g.current <= g.target
    [] OTHER -> g.current = g.target

\* A target that is not a finite number cannot be stored, so "invalid" is left out.
TargetState(g) ==
  IF g.target = Nothing THEN "not_configured"
  ELSE IF g.current = Nothing THEN "current_unknown"
  ELSE IF Meets(g) THEN "met"
  ELSE "not_met"

Final(g) ==
  \/ g.deadline # NoDate /\ g.deadline <= now
  \/ TargetState(g) = "met" /\ g.direction = "at_least"

Measurement(g) ==
  IF ~g.measured THEN "manual"
  ELSE IF g.current = Nothing THEN "not_recorded"
  ELSE IF evidence > g.current THEN "records_ahead"
  ELSE IF evidence < g.current THEN "recorded_ahead"
  ELSE "in_sync"

Unmeasured(g) ==
  \/ Measurement(g) \notin {"manual", "in_sync"}
  \/ TargetState(g) \in {"not_configured", "current_unknown"}

----------------------------------------------------------------------------
(* The path to the goal (deterministicManagerGoalPath)                      *)

Linked == {i \in Initiatives : initiative[i].status # "completed"}
AllLinked == {t \in Tasks : home[t] \in Linked}
OpenLinked == AllLinked \intersect Open

\* Tasks that can move now and are of the goal or lead to it.
Candidate == {t \in In("ready_now") : t \in OpenLinked \/ Downstream(t) \intersect OpenLinked # {}}
NextTask == FirstOf(Candidate, WorkKey)

Contradictions(g, next) ==
  {c \in {"goal_deadline_passed", "initiative_after_goal", "task_after_goal", "task_after_initiative",
          "sequence_conflict"} :
     CASE c = "goal_deadline_passed" -> Passed(g.deadline) /\ TargetState(g) # "met"
       [] c = "initiative_after_goal" -> \E i \in Linked : After(initiative[i].due, g.deadline)
       [] c = "task_after_goal" ->
            \E t \in OpenLinked \union (next \ OpenLinked) : After(task[t].due, g.deadline)
       [] c = "task_after_initiative" -> \E t \in OpenLinked : After(task[t].due, initiative[home[t]].due)
       [] c = "sequence_conflict" -> OpenLinked \intersect In("conflicted") # {}}

PathStatus(g, next) ==
  IF Contradictions(g, next) # {} THEN "conflicted"
  ELSE IF Unmeasured(g) THEN "needs_measurement"
  ELSE IF TargetState(g) = "met" THEN IF Final(g) THEN "target_reached" ELSE "target_monitoring"
  ELSE IF Linked = {} THEN "missing_initiative"
  ELSE IF OpenLinked = {} THEN "missing_task"
  ELSE IF next # {} THEN "ready"
  ELSE IF \/ \E i \in Linked : initiative[i].status = "blocked"
          \/ OpenLinked \intersect In("manually_blocked") # {} THEN "blocked"
  ELSE "waiting"

\* One status for each task that may come first.
PathStatuses(g) ==
  {PathStatus(g, next) : next \in IF NextTask = {} THEN {{}} ELSE {{t} : t \in NextTask}}

PathSummary(g) ==
  {IF g.status # "active" THEN "empty"
   ELSE IF p \in {"conflicted", "blocked"} THEN p
   ELSE IF p \in {"missing_initiative", "missing_task", "needs_measurement", "waiting"} THEN "needs_attention"
   ELSE "clear" : p \in PathStatuses(g)}

----------------------------------------------------------------------------
(* The health of the plan (deterministicManagerPlanHealth)                  *)

AtRisk(g) ==
  \/ \E i \in Linked : initiative[i].status = "blocked" \/ Passed(initiative[i].due)
  \/ \E t \in OpenLinked : \/ task[t].status = "blocked" \/ Passed(task[t].due)
                           \/ owner[t] = ""
  \/ Near(g.deadline)
  \/ g.deadline = NoDate /\ g.direction # "at_least"

PlanHealth(g) ==
  IF g.status # "active" THEN "needs_plan"
  ELSE IF Unmeasured(g) THEN "needs_measurement"
  ELSE IF TargetState(g) = "met" /\ Final(g) THEN "target_reached"
  ELSE IF Passed(g.deadline) /\ TargetState(g) # "met" THEN "off_track"
  ELSE IF AtRisk(g) \/ AllLinked = {} THEN "at_risk"
  ELSE "on_track"

----------------------------------------------------------------------------
(* The records change                                                       *)

PutOff(t) ==
  /\ Graph!Exists(t) /\ task[t].status # "done" /\ task[t].due # NoDate
  /\ task'[t].due = NoDate \/ task'[t].due > task[t].due

\* A step of TaskGraph, with what the same writes do to the fields it leaves out.
Work ==
  /\ Graph!Next
  /\ deferrals' = [t \in Tasks |-> IF PutOff(t) /\ deferrals[t] < MaxDeferrals THEN deferrals[t] + 1 ELSE deferrals[t]]
  /\ waitingOn' = {t \in waitingOn : task'[t].status # "done"}
  /\ LET created == {t \in Tasks : ~Graph!Exists(t) /\ task'[t] # task[t]} IN
       /\ \E i \in IF created = {} THEN {Nothing} ELSE Initiatives \union {Nothing} :
            home' = [t \in Tasks |-> IF t \in created THEN i ELSE home[t]]
       /\ \E o \in IF created = {} THEN {""} ELSE Owners :
            owner' = [t \in Tasks |-> IF t \in created THEN o ELSE owner[t]]
  /\ UNCHANGED <<now, goal, initiative, checkIn, evidence, shown, edits>>

Edits == edits < MaxEdits /\ edits' = edits + 1
keptRecords == <<task, edges, req, now, home, deferrals>>

\* A patch names an owner, or somebody the task waits for.
PatchOwner(t, o) ==
  /\ Edits /\ Graph!Exists(t)
  /\ owner' = [owner EXCEPT ![t] = o]
  /\ UNCHANGED <<keptRecords, goal, initiative, waitingOn, checkIn, evidence, shown>>

PatchWaiting(t) ==
  /\ Edits /\ t \in Open
  /\ waitingOn' = waitingOn \union {t}
  /\ UNCHANGED <<keptRecords, goal, initiative, owner, checkIn, evidence, shown>>

PatchGoal(g) ==
  /\ Edits
  /\ goal' = g
  /\ UNCHANGED <<keptRecords, initiative, owner, waitingOn, checkIn, evidence, shown>>

\* A value, or a step from the value that is recorded.
RecordGoalProgress(value, delta) ==
  /\ Edits
  /\ delta # Nothing => goal.current # Nothing
  /\ goal' = [goal EXCEPT !.current = IF delta = Nothing THEN value ELSE @ + delta]
  /\ UNCHANGED <<keptRecords, initiative, owner, waitingOn, checkIn, evidence, shown>>

PatchInitiative(i, row) ==
  /\ Edits
  /\ initiative' = [initiative EXCEPT ![i] = row]
  /\ UNCHANGED <<keptRecords, goal, owner, waitingOn, checkIn, evidence, shown>>

RecordMemberCheckIn(m, status, until) ==
  /\ Edits
  /\ until # NoDate => until > now
  /\ checkIn' = [checkIn EXCEPT ![m] = [status |-> status, until |-> until]]
  /\ UNCHANGED <<keptRecords, goal, initiative, owner, waitingOn, evidence, shown>>

\* Prospects, shows and projects come to match the goal's source, or no longer do.
EvidenceChanges ==
  /\ Edits /\ goal.measured
  /\ evidence' \in {evidence - 1, evidence + 1} \intersect 0..MaxEvidence
  /\ UNCHANGED <<keptRecords, goal, initiative, owner, waitingOn, checkIn, shown>>

\* A page shows the measurement; its number is sent back to be recorded.
GoalMeasurements ==
  /\ goal.measured /\ shown # evidence
  /\ shown' = evidence
  /\ UNCHANGED <<keptRecords, goal, initiative, owner, waitingOn, checkIn, evidence, edits>>

SyncGoalProgress ==
  /\ goal.measured /\ shown # Nothing
  /\ evidence = shown
  /\ goal' = [goal EXCEPT !.current = shown]
  /\ shown' = Nothing
  /\ UNCHANGED <<keptRecords, initiative, owner, waitingOn, checkIn, evidence, edits>>

TimePasses ==
  /\ now < MaxNow
  /\ now' = now + 1
  /\ UNCHANGED <<task, edges, req, goal, initiative, home, owner, deferrals, waitingOn, checkIn,
                 evidence, shown, edits>>

SignalNext ==
  \/ Work
  \/ \E t \in Tasks : PatchWaiting(t) \/ \E o \in Owners : PatchOwner(t, o)
  \/ \E g \in Goals : PatchGoal(g)
  \/ \E n \in 0..MaxEvidence : RecordGoalProgress(n, Nothing) \/ RecordGoalProgress(Nothing, 1)
  \/ \E i \in Initiatives, row \in Plans : PatchInitiative(i, row)
  \/ \E m \in Members, status \in {"available", "limited", "unavailable"}, until \in 0..MaxNow + 1 :
       RecordMemberCheckIn(m, status, until)
  \/ EvidenceChanges
  \/ GoalMeasurements
  \/ SyncGoalProgress
  \/ TimePasses

----------------------------------------------------------------------------
(* Properties *)

\* The recorded order can always be worked: no date contradicts it, and whatever
\* waits is unlocked by something that can move now or whose blocker is known
\* (deterministicManagerWorkSequence).
OrderCanBeWorked ==
  /\ SequenceStatus # "conflicted"
  /\ \A t \in In("waiting_on_prerequisites") :
       \E u \in In("ready_now") \union In("manually_blocked") : t \in Downstream(u)

\* Path and health tell one story of the goal: what is off track is a conflict,
\* what is reached or unmeasured for one is so for the other, nothing on track is
\* blocked, without a plan or under pressure, and a goal that waits only waits
\* behind blocked work of others (deterministicManagerGoalPath,
\* deterministicManagerPlanHealth).
PathTellsHealth ==
  goal.status = "active" =>
    LET h == PlanHealth(goal) IN
    \A p \in PathStatuses(goal) :
      /\ h = "off_track" => p = "conflicted"
      /\ p \in {"target_reached", "needs_measurement"} => h = p
      /\ h \in {"target_reached", "needs_measurement"} => p \in {h, "conflicted"}
      /\ h = "on_track" => /\ p \in {"ready", "target_monitoring", "missing_task", "waiting", "conflicted"}
                           /\ \A t \in OpenLinked : Severity(t) # "high"
      /\ p = "waiting" => \A t \in OpenLinked :
                            \E u \in In("manually_blocked") \ OpenLinked : t \in Downstream(u)
      /\ PathSummary(goal) = {"clear"} => h \notin {"needs_measurement", "off_track"}

\* Whoever is called urgent has a commitment of high severity, only work that the
\* commitments call unowned is offered, to one member at most, and to nobody who
\* has just said no (deterministicManagerTeamLoad).
LoadTellsCommitments ==
  /\ \A m \in Members : Pressure(m) = "urgent" =>
       /\ \E t \in Assigned(m) : Severity(t) = "high"
       /\ \A t \in FirstCommitment : Severity(t) = "high"
  /\ LoadStatus \in {"distributed", "concentrated"} => Assignable = {}
  /\ \A t \in Open : /\ Cardinality(Suggested(t)) <= 1
                     /\ Suggested(t) # {} => Unassigned(t)
                     /\ \A m \in Suggested(t) : ~(checkIn[m].status = "unavailable" /\ checkIn[m].until = NoDate)
=============================================================================
