--------------------------- MODULE ManagerCapture ---------------------------
(***************************************************************************)
(* What a member asks for in a conversation with the Manager.  A message is *)
(* read against the records of that moment into a proposal for one record,  *)
(* or into a question back; when somebody accepts the proposal the message  *)
(* is read again, and the transaction compares once more.  The band edits   *)
(* the records all the while.  ManagerAcceptance has the races of several   *)
(* acceptances, ManagerChat who may see a proposal; this module has what a  *)
(* message is read as.  A title is the set of its words; the wording around *)
(* them is abstracted into the fields a reading looks at.                   *)
(***************************************************************************)
EXTENDS Integers, FiniteSets, Sequences

CONSTANTS
  Tasks, Members, Shows,
  FirstTitle,  \* titles of the tasks and shows at first
  Needs,       \* pairs <<task, prerequisite>>
  Goalward,    \* tasks of an initiative: the Manager sees them when done, too
  Topics,      \* readings exercised, among AllTopics
  MaxEdits,    \* bound: edits of the band
  None

AllTopics == {"task", "update", "assign", "project", "event", "availability", "context"}
CaptureConstants ==
  /\ IsFiniteSet(Tasks) /\ IsFiniteSet(Members) /\ IsFiniteSet(Shows)
  /\ Needs \subseteq Tasks \X Tasks /\ Goalward \subseteq Tasks /\ Topics \subseteq AllTopics
  /\ DOMAIN FirstTitle = Tasks \union Shows /\ MaxEdits \in Nat
  /\ None \notin {"available", "tentative", "unavailable", "unknown"}

VARIABLES
  world,    \* the records
  said,     \* the member's message; before there is one, what it will be about
  rec,      \* the proposal: phase and action
  edits     \* edits so far

captureVars == <<world, said, rec, edits>>

Words == {"mixtape", "poster"}
Titles == (SUBSET Words) \ {{}}
Zones == {None, "west", "east"}      \* the Manager's timezone; None: not set, or not valid
TaskStatuses == {"todo", "in_progress", "blocked", "done"}
Text == "the printer"

NoProposal == [phase |-> "none", act |-> None]

World0 ==
  [zone |-> "west",
   tasks |-> [t \in Tasks |-> [title |-> FirstTitle[t], status |-> "todo", due |-> None,
                               reason |-> None, waiting |-> None, owner |-> None, at |-> 0]],
   made |-> {},
   members |-> [b \in Members |-> [name |-> <<"sam", b>>, on |-> TRUE, checkIn |-> "available", since |-> 0]],
   shows |-> [s \in Shows |-> [title |-> FirstTitle[s], open |-> TRUE, at |-> 0,
                               answer |-> [b \in Members |-> None]]],
   projects |-> {}, events |-> {},
   profile |-> [open |-> {"ambition", "lineup"}, at |-> 0]]

CaptureInit ==
  /\ world = World0
  /\ said \in [topic : Topics] /\ rec = NoProposal /\ edits = 0

----------------------------------------------------------------------------
(* What a message says.                                                     *)

Plain == [topic |-> "task", form |-> "plain", words |-> {"mixtape"}, quoted |-> {}, hint |-> FALSE,
          who |-> <<"sam">>, date |-> "exact", op |-> "none", asked |-> 1, gap |-> "ambition"]

\* A record named by its title, by a quoted part of it, or by one of its words
\* next to a word for its kind.
Mentions == {[Plain EXCEPT !.words = T] : T \in Titles}
  \union {[Plain EXCEPT !.words = {"poster"}, !.hint = TRUE],
          [Plain EXCEPT !.words = {"poster"}, !.quoted = {"poster"}]}

Operations == {"complete", "start", "resume", "block", "reschedule", "clear_due_date",
               "set_waiting_on", "clear_waiting_on"}
Names == {<<"sam">>} \union {<<"sam", b>> : b \in Members}
Addressed == {[m EXCEPT !.who = n] : m \in Mentions, n \in Names}
Responses == {"available", "tentative", "unavailable", "unknown"}

\* What is answered to a message that says more, or less, than one safe change.
Refusals ==
  [other |-> "not_this", personal |-> "needs_clarification", several |-> "needs_clarification",
   question |-> "needs_clarification", unnamed |-> "needs_clarification",
   secret |-> "blocked_sensitive"]
Forms == [task |-> DOMAIN Refusals,
          update |-> {"other", "several", "unnamed", "secret"},
          assign |-> {"other", "several", "unnamed"},
          project |-> DOMAIN Refusals \ {"personal"},
          event |-> DOMAIN Refusals \ {"personal"},
          availability |-> DOMAIN Refusals \ {"personal", "question"},
          context |-> {"question", "secret"}]

PlainMessages(topic) ==
  CASE topic = "task" -> {[Plain EXCEPT !.date = d] : d \in {"none", "wrong", "today", "exact"}}
    [] topic = "update" -> {[m EXCEPT !.op = o] : m \in Mentions, o \in Operations}
         \union {[Plain EXCEPT !.op = "reschedule", !.date = d] : d \in {"wrong", "today"}}
    [] topic = "assign" -> Addressed
    [] topic = "project" -> {[Plain EXCEPT !.date = d] : d \in {"none", "exact"}}
    [] topic = "event" -> {[Plain EXCEPT !.date = d] : d \in {"wrong", "exact", "clock_change"}}
    [] topic = "availability" -> {[m EXCEPT !.op = r] : m \in Addressed, r \in Responses}
    [] topic = "context" -> {[m EXCEPT !.gap = g] : m \in {[Plain EXCEPT !.asked = n] : n \in 0..2},
                                                    g \in {"ambition", "lineup"}}

Messages(topic) ==
  {[m EXCEPT !.topic = topic] : m \in PlainMessages(topic)}
    \union {[Plain EXCEPT !.topic = topic, !.form = f] : f \in Forms[topic]}

----------------------------------------------------------------------------
(* Reading it.                                                              *)

Answer(status) == [status |-> status, act |-> None]
Ready(act) == [status |-> "ready", act |-> act]
The(S) == CHOOSE x \in S : TRUE

\* The candidates a message names: title[c] is the title of candidate c.  Their
\* whole titles come first, then what is quoted, then words only one of them has.
Named(m, title) ==
  LET whole == {c \in DOMAIN title : title[c] \subseteq m.words}
      quoted == {c \in DOMAIN title : title[c] \subseteq m.quoted \/ m.quoted \subseteq title[c]}
      owners(v) == {c \in DOMAIN title : v \in title[c]}
  IN IF whole # {} THEN whole
     ELSE IF m.quoted # {} THEN quoted
     ELSE IF m.hint THEN UNION {owners(v) : v \in {u \in m.words : Cardinality(owners(u)) = 1}}
     ELSE {}

\* The active members of that name, or else of that first name.
Active(w) == {b \in Members : w.members[b].on}
NamedMember(who, w) ==
  LET whole == {b \in Active(w) : w.members[b].name = who}
  IN IF whole # {} \/ Len(who) > 1 THEN whole
     ELSE {b \in Active(w) : w.members[b].name[1] = who[1]}

\* A relative day is counted in the Manager's timezone, where it may be tomorrow.
Unclear == -1
DayOf(date, zone) ==
  CASE date = "none" -> None
    [] date = "exact" -> 2
    [] date = "today" /\ zone # None -> IF zone = "east" THEN 2 ELSE 1
    [] OTHER -> Unclear
ZoneOf(m, zone) == IF m.date = "today" THEN zone ELSE None

ReadTask(m, open, zone) ==
  LET due == DayOf(m.date, zone) IN
  IF due = Unclear THEN Answer("needs_clarification")
  ELSE IF m.words \in open THEN Answer("duplicate")
  ELSE Ready([title |-> m.words, due |-> due, zone |-> ZoneOf(m, zone)])

Prerequisites(t) == {p \in Tasks : <<t, p>> \in Needs}
Dependents(t) == {d \in Tasks : <<d, t>> \in Needs}
Unfinished(w, t) == {p \in Prerequisites(t) : w.tasks[p].status # "done"}
Fits(w, t, due) ==
  /\ \A p \in Prerequisites(t) : w.tasks[p].due # None => w.tasks[p].due <= due
  /\ \A d \in Dependents(t) : w.tasks[d].due # None => due <= w.tasks[d].due

\* Nothing is left for the operation to change.
AlreadySo(op, k, due) ==
  CASE op = "complete" -> k.status = "done"
    [] op = "start" -> k.status = "in_progress" /\ k.reason = None
    [] op = "resume" -> k.status = "in_progress" /\ k.reason = None /\ k.waiting = None
    [] op = "block" -> k.status = "blocked" /\ k.reason = Text
    [] op = "reschedule" -> k.due = due
    [] op = "clear_due_date" -> k.due = None
    [] op = "set_waiting_on" -> k.waiting = Text
    [] op = "clear_waiting_on" -> k.waiting = None

ReadUpdate(m, w, among, zone) ==
  LET named == Named(m, [t \in among |-> w.tasks[t].title])
      t == The(named)
      k == w.tasks[t]
      due == IF m.op = "reschedule" THEN DayOf(m.date, zone) ELSE None
  IN IF \/ Cardinality(named) # 1
        \/ k.status = "done" /\ m.op # "complete"
        \/ m.op = "reschedule" /\ (due = Unclear \/ ~Fits(w, t, due))
        \/ m.op = "complete" /\ Unfinished(w, t) # {}
     THEN Answer("needs_clarification")
     ELSE IF AlreadySo(m.op, k, due) THEN Answer("already_current")
     ELSE Ready([task |-> t, at |-> k.at, title |-> k.title, op |-> m.op, due |-> due,
                 zone |-> IF m.op = "reschedule" THEN ZoneOf(m, zone) ELSE None])

ReadAssign(m, w, among) ==
  LET named == Named(m, [t \in among |-> w.tasks[t].title])
      t == The(named)
      member == NamedMember(m.who, w)
      b == The(member)
  IN IF Cardinality(named) # 1 \/ w.tasks[t].status = "done" \/ Cardinality(member) # 1
     THEN Answer("needs_clarification")
     ELSE IF w.members[b].checkIn = "unavailable" THEN Answer("blocked_unavailable")
     ELSE IF w.tasks[t].owner = b THEN Answer("already_current")
     ELSE Ready([task |-> t, at |-> w.tasks[t].at, title |-> w.tasks[t].title, member |-> b,
                 name |-> w.members[b].name, from |-> w.tasks[t].owner,
                 since |-> w.members[b].since, checkIn |-> w.members[b].checkIn])

ReadProject(m, projects) ==
  LET due == DayOf(m.date, None) IN
  IF due \in {Unclear, None} THEN Answer("needs_clarification")
  ELSE IF \E p \in projects : p.name = m.words /\ p.due = due THEN Answer("duplicate")
  ELSE Ready([name |-> m.words, due |-> due])

\* An hour a clock change skips or repeats is asked about; an hour is an instant
\* only in a timezone.
Start(date, zone) ==
  IF zone = None \/ date = "wrong" \/ (date = "clock_change" /\ zone = "east") THEN None
  ELSE <<date, zone>>
ReadEvent(m, w, events, zone) ==
  LET start == Start(m.date, zone) IN
  IF start = None THEN Answer("needs_clarification")
  ELSE IF \E e \in events : e.title = m.words /\ e.start = start THEN Answer("duplicate")
  ELSE Ready([title |-> m.words, start |-> start, zone |-> zone, lineup |-> Active(w)])

ResponseOf(show, b) == IF show.answer[b] = None THEN "unknown" ELSE show.answer[b]
ReadAvailability(m, w) ==
  LET member == NamedMember(m.who, w)
      b == The(member)
      named == Named(m, [s \in {s \in Shows : w.shows[s].open} |-> w.shows[s].title])
      show == w.shows[The(named)]
  IN IF Cardinality(member) # 1 \/ Cardinality(named) # 1 THEN Answer("needs_clarification")
     ELSE IF ResponseOf(show, b) = m.op THEN Answer("already_current")
     ELSE Ready([show |-> The(named), at |-> show.at, title |-> show.title,
                 member |-> b, name |-> w.members[b].name,
                 invited |-> show.answer[b] # None, from |-> ResponseOf(show, b), response |-> m.op])

\* Only the answer to the one question asked in the turn before counts.
ReadContext(m, w) ==
  IF m.asked = 0 \/ m.gap \notin w.profile.open THEN Answer("not_this")
  ELSE IF m.asked > 1 THEN Answer("needs_clarification")
  ELSE IF m.gap = "lineup" THEN Answer("structured_required")
  ELSE IF m.form # "plain" THEN Answer(Refusals[m.form])
  ELSE Ready([gap |-> m.gap, at |-> w.profile.at])

----------------------------------------------------------------------------
(* In the conversation, and again at acceptance: then against the task alone *)
(* that is to change, records that are over too, and the timezone reviewed.  *)

OpenTasks(w) == {t \in Tasks : w.tasks[t].status # "done"}
OpenTitles(w) == {w.tasks[t].title : t \in OpenTasks(w)} \union {n.title : n \in w.made}
InPlan(rows) == {r \in rows : r.status = "planned"}
NotCancelled(rows) == {r \in rows : r.status # "cancelled"}

\* What was over before is not found, so it is offered and then refused.
Reading(m, w, zone) ==
  IF m.form # "plain" /\ m.topic # "context" THEN Answer(Refusals[m.form])
  ELSE CASE m.topic = "task" -> ReadTask(m, OpenTitles(w), zone)
         [] m.topic = "update" -> ReadUpdate(m, w, OpenTasks(w) \union Goalward, zone)
         [] m.topic = "assign" -> ReadAssign(m, w, OpenTasks(w) \union Goalward)
         [] m.topic = "project" -> ReadProject(m, InPlan(w.projects))
         [] m.topic = "event" -> ReadEvent(m, w, InPlan(w.events), zone)
         [] m.topic = "availability" -> ReadAvailability(m, w)
         [] m.topic = "context" -> ReadContext(m, w)

Rereading(m, a, w) ==
  CASE m.topic = "task" -> ReadTask(m, OpenTitles(w), a.zone)
    [] m.topic = "update" -> ReadUpdate(m, w, {a.task}, a.zone)
    [] m.topic = "assign" -> ReadAssign(m, w, OpenTasks(w))
    [] m.topic = "project" -> ReadProject(m, NotCancelled(w.projects))
    [] m.topic = "event" -> ReadEvent(m, w, NotCancelled(w.events), a.zone)
    [] m.topic = "availability" -> ReadAvailability(m, w)
    [] m.topic = "context" -> ReadContext(m, w)

\* The transaction trusts the reading.
Holds_Trusting(m, a, w) == TRUE

\* What the transaction compares.
Holds(m, a, w) ==
  CASE m.topic = "task" -> a.title \notin OpenTitles(w)
    [] m.topic = "update" ->
         /\ w.tasks[a.task].at = a.at
         /\ w.tasks[a.task].status = "done" => a.op = "complete"
         /\ a.op = "complete" => Unfinished(w, a.task) = {}
         /\ a.op = "reschedule" => Fits(w, a.task, a.due)
    [] m.topic = "assign" ->
         /\ w.tasks[a.task].status # "done"
         /\ w.tasks[a.task].at = a.at /\ w.tasks[a.task].owner = a.from
         /\ LET b == w.members[a.member] IN
            b.on /\ b.checkIn # "unavailable" /\ b.checkIn = a.checkIn /\ b.since = a.since /\ b.name = a.name
    [] m.topic = "project" -> ~\E p \in NotCancelled(w.projects) : p.name = a.name /\ p.due = a.due
    [] m.topic = "event" ->
         /\ a.lineup = Active(w)
         /\ ~\E e \in NotCancelled(w.events) : e.title = a.title /\ e.start = a.start
    [] m.topic = "availability" -> ReadAvailability(m, w) = Ready(a)
    [] m.topic = "context" -> w.profile.at = a.at

Updated(k, a) ==
  LET next == [k EXCEPT !.at = k.at + 1]
  IN CASE a.op = "complete" -> [next EXCEPT !.status = "done", !.reason = None, !.waiting = None]
       [] a.op \in {"start", "resume"} -> [next EXCEPT !.status = "in_progress", !.reason = None, !.waiting = None]
       [] a.op = "block" -> [next EXCEPT !.status = "blocked", !.reason = Text]
       [] a.op \in {"reschedule", "clear_due_date"} -> [next EXCEPT !.due = a.due]
       [] a.op = "set_waiting_on" -> [next EXCEPT !.waiting = Text]
       [] a.op = "clear_waiting_on" -> [next EXCEPT !.waiting = None]

WithAnswer(show, b, answer) == [show EXCEPT !.answer[b] = answer]
Saved(m, a, w) ==
  CASE m.topic = "task" -> [w EXCEPT !.made = @ \union {[title |-> a.title, due |-> a.due]}]
    [] m.topic = "update" -> [w EXCEPT !.tasks[a.task] = Updated(w.tasks[a.task], a)]
    [] m.topic = "assign" -> [w EXCEPT !.tasks[a.task].owner = a.member, !.tasks[a.task].at = @ + 1]
    [] m.topic = "project" ->
         [w EXCEPT !.projects = @ \union {[name |-> a.name, due |-> a.due, status |-> "planned"]}]
    [] m.topic = "event" ->
         [w EXCEPT !.events = @ \union {[title |-> a.title, start |-> a.start, status |-> "planned",
                                        lineup |-> Active(w)]}]
    [] m.topic = "availability" -> [w EXCEPT !.shows[a.show] = WithAnswer(w.shows[a.show], a.member, a.response)]
    [] m.topic = "context" -> [w EXCEPT !.profile = [open |-> w.profile.open \ {a.gap}, at |-> w.profile.at + 1]]

----------------------------------------------------------------------------
(* The conversation, the acceptance, and the band meanwhile.                *)

Say ==
  /\ rec.phase = "none"
  /\ \E m \in Messages(said.topic) :
       LET r == Reading(m, world, world.zone) IN
       /\ said' = m
       /\ rec' = [phase |-> IF r.status = "ready" THEN "proposed" ELSE r.status, act |-> r.act]
  /\ UNCHANGED <<world, edits>>

\* A message whose proposal no longer stands is refused, and may be tried again.
Reread ==
  /\ rec.phase = "proposed"
  /\ Rereading(said, rec.act, world) = Ready(rec.act)
  /\ rec' = [rec EXCEPT !.phase = "reviewed"]
  /\ UNCHANGED <<world, said, edits>>

Save ==
  /\ rec.phase = "reviewed"
  /\ IF Holds(said, rec.act, world)
     THEN /\ world' = Saved(said, rec.act, world)
          /\ rec' = [rec EXCEPT !.phase = "completed"]
     ELSE UNCHANGED world /\ rec' = [rec EXCEPT !.phase = "proposed"]
  /\ UNCHANGED <<said, edits>>

Touched(t, k) == [world EXCEPT !.tasks[t] = [k EXCEPT !.at = world.tasks[t].at + 1]]
TaskEdits(t) ==
  LET k == world.tasks[t] IN
  {Touched(t, [k EXCEPT !.status = s]) :
     s \in {s \in TaskStatuses : /\ s = "done" => Unfinished(world, t) = {}
                                 /\ k.status = "done" => \A d \in Dependents(t) : world.tasks[d].status # "done"}}
    \union {Touched(t, [k EXCEPT !.due = d]) :
              d \in {None} \union {d \in {1, 3} : Fits(world, t, d)}}
    \union {Touched(t, [k EXCEPT !.title = n]) : n \in Titles}
    \union {Touched(t, [k EXCEPT !.owner = b]) : b \in Members}
    \union {Touched(t, [k EXCEPT !.status = "blocked", !.reason = Text]),
            Touched(t, [k EXCEPT !.waiting = Text])}

MemberEdits ==
  UNION {{[world EXCEPT !.members[b].on = ~@],
          [world EXCEPT !.members[b].checkIn = "unavailable", !.members[b].since = @ + 1],
          [world EXCEPT !.members[b].checkIn = "limited", !.members[b].since = @ + 1],
          [world EXCEPT !.members[b].name = <<"lee", b>>]} : b \in Members}

Altered(s, show) == [world EXCEPT !.shows[s] = show]
Renewed(s, show) == Altered(s, [show EXCEPT !.at = world.shows[s].at + 1])
ShowEdits(s) ==
  LET show == world.shows[s] IN
  {Renewed(s, [show EXCEPT !.open = FALSE])}
    \union {Renewed(s, [show EXCEPT !.title = n]) : n \in Titles}
    \union {Altered(s, WithAnswer(show, b, a)) : b \in Members, a \in {"available", "unknown"}}

PlanEdits ==
  LET plans == {[name |-> {"mixtape"}, due |-> 2, status |-> s] : s \in {"planned", "over", "cancelled"}}
      started == {[title |-> {"mixtape"}, start |-> <<"exact", "west">>, status |-> s, lineup |-> {}] :
                    s \in {"planned", "over", "cancelled"}}
  IN {[world EXCEPT !.projects = @ \union {p}] : p \in plans}
       \union {[world EXCEPT !.events = @ \union {e}] : e \in started}
       \union {[world EXCEPT !.made = @ \union {[title |-> {"mixtape"}, due |-> None]}]}

\* Edits of records of no concern to the topics are left out.
Concerns == [task |-> {"task", "plan", "zone"}, update |-> {"task", "zone"}, assign |-> {"task", "member"},
             project |-> {"plan"}, event |-> {"plan", "member", "zone"},
             availability |-> {"show", "member"}, context |-> {"profile"}]
Concerned(records) == records \in Concerns[said.topic]
Edit ==
  /\ edits < MaxEdits /\ edits' = edits + 1
  /\ \/ Concerned("task") /\ \E t \in Tasks : world' \in TaskEdits(t)
     \/ Concerned("member") /\ world' \in MemberEdits
     \/ Concerned("show") /\ \E s \in Shows : world' \in ShowEdits(s)
     \/ Concerned("plan") /\ world' \in PlanEdits
     \/ Concerned("profile") /\ \E gaps \in SUBSET {"ambition", "lineup"} :
          world' = [world EXCEPT !.profile.open = gaps, !.profile.at = @ + 1]
     \/ Concerned("zone") /\ \E z \in Zones : world' = [world EXCEPT !.zone = z]
  /\ UNCHANGED <<said, rec>>

CaptureNext == Say \/ Reread \/ Save \/ Edit

CaptureSpec == CaptureInit /\ [][CaptureNext]_captureVars

----------------------------------------------------------------------------
(* Properties.                                                              *)

CaptureTypeOK ==
  /\ rec.phase \in {"none", "proposed", "reviewed", "completed", "duplicate", "already_current",
                    "structured_required", "blocked_unavailable"} \union {Refusals[f] : f \in DOMAIN Refusals}
  /\ rec.phase \in {"proposed", "reviewed", "completed"} <=> rec.act # None
  /\ edits \in 0..MaxEdits

\* Whatever the band does between a message, its review and the save, what is
\* saved is the one change the message asks for, to a record it still names and
\* nobody touched since: work stays in order, goes to an active member who is
\* not unavailable, answers for one show and one person only, is dated in the
\* timezone of the review, and doubles nothing that is there
\* (managerConversation*ActionMatchesMessage, recommendation).
SavedAsSaid ==
  rec.phase = "reviewed" /\ rec'.phase = "completed" =>
    LET m == said
        a == rec.act
    IN CASE m.topic = "task" ->
              /\ m.words \notin OpenTitles(world)
              /\ \E n \in world'.made : n.title = m.words /\ n.due = DayOf(m.date, a.zone)
         [] m.topic = "update" ->
              /\ a.task \in Named(m, [t \in {a.task} |-> world.tasks[t].title])
              /\ \A t \in Tasks \ {a.task} : world'.tasks[t] = world.tasks[t]
              /\ world'.tasks[a.task].status = "done" => Unfinished(world, a.task) = {}
              /\ \A n \in Needs : LET d == world'.tasks[n[1]].due
                                   p == world'.tasks[n[2]].due
                               IN d = None \/ p = None \/ p <= d
              /\ m.op = "reschedule" => world'.tasks[a.task].due = DayOf(m.date, a.zone)
         [] m.topic = "assign" ->
              /\ world.tasks[a.task].status # "done" /\ world.tasks[a.task].owner = a.from
              /\ a.task \in Named(m, [t \in {a.task} |-> world.tasks[t].title])
              /\ a.member \in Active(world) /\ world.members[a.member].checkIn # "unavailable"
              /\ m.who \in {world.members[a.member].name, <<world.members[a.member].name[1]>>}
         [] m.topic = "project" -> ~\E p \in NotCancelled(world.projects) : p.name = m.words /\ p.due = 2
         [] m.topic = "event" ->
              /\ ~\E e \in NotCancelled(world.events) : e.title = m.words /\ e.start = Start(m.date, a.zone)
              /\ \E e \in world'.events : e.start = Start(m.date, a.zone) /\ e.lineup = a.lineup
         [] m.topic = "availability" ->
              /\ NamedMember(m.who, world) = {a.member}
              /\ Named(m, [s \in {s \in Shows : world.shows[s].open} |-> world.shows[s].title]) = {a.show}
              /\ world'.shows[a.show].answer[a.member] = m.op
              /\ ResponseOf(world.shows[a.show], a.member) = a.from
         [] m.topic = "context" -> m.gap \in world.profile.open /\ m.gap \notin world'.profile.open

\* Saying the same again is never offered as the same change again: it is read
\* as a duplicate, as so already, or as a question (resolveManagerTaskCapture and
\* the other readings).
SaidAgain ==
  rec.phase = "reviewed" /\ rec'.phase = "completed" =>
    LET a == rec.act
        again == Reading(said, world', IF said.topic \in {"task", "update", "event"} /\ a.zone # None
                                       THEN a.zone ELSE world'.zone)
    IN again.status = "ready" =>
         \/ said.topic \in {"update", "assign"} /\ again.act.task # a.task
         \/ said.topic = "availability" /\ again.act.show # a.show
=============================================================================
