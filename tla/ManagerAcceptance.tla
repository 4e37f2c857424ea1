-------------------------- MODULE ManagerAcceptance --------------------------
(***************************************************************************)
(* Accepting what the Manager proposes.  A recommendation carries what it   *)
(* was reviewed against; recommendation() compares that with the records    *)
(* twice, once when it reads and once inside a Serializable transaction,    *)
(* and between suggestion, reading and transaction the band goes on editing *)
(* the same records.  ManagerReceipts has the life of what was accepted.    *)
(***************************************************************************)
EXTENDS Naturals, FiniteSets

CONSTANTS
  Recommendations,
  Answerers,     \* answers of members under way
  Proposals,     \* kinds of proposed actions in this instance, among Kinds
  MaxEdits       \* bound: edits of the band

\* create_path_task: a create_task that the path of a goal asked for.
Kinds == {"create_task", "create_path_task", "create_conversation_task",
          "update_conversation_task", "assign_conversation_task", "assign_task",
          "create_conversation_project", "create_conversation_event",
          "update_conversation_event_availability", "remember_fact", "profile_context",
          "prepare_event_logistics_approvals", "generate_event_advance",
          "generate_project_plan", "create_decision"}

AcceptanceConstants == Proposals \subseteq Kinds /\ MaxEdits \in Nat

VARIABLES
  world,     \* the records a proposal can be about
  advice,    \* advice[r]: kind, outcome, and the records as reviewed
  answer,    \* answer[q]: recommendation, wish and the records as read
  edits,     \* edits so far
  acted      \* history: acceptances that changed the records, per recommendation

acceptanceVars == <<world, advice, answer, edits, acted>>

\* Kinds that are complete with their acceptance; the others are followed up.
Immediate == Kinds \ {"create_task", "create_path_task", "create_conversation_task",
                      "create_decision", "prepare_event_logistics_approvals"}

\* `task` is one open task with its updatedAt, `member` one member and the last
\* check-in, `lineup` the active members, `equal` the number of records that are
\* equivalent to the one proposed, `memory` the state of the fact's key; `timed`
\* and `dated` say whether the event and the project have the date a plan needs.
World0 ==
  [task |-> [status |-> "open", late |-> FALSE, owner |-> "nobody", updatedAt |-> 0],
   member |-> [active |-> TRUE, checkIn |-> "available"],
   lineup |-> 0,
   equal |-> [task |-> 0, path |-> 0, project |-> 0, event |-> 0],
   event |-> [on |-> TRUE, timed |-> TRUE, response |-> "unknown", logistics |-> 0, advance |-> 0],
   project |-> [dated |-> TRUE, plan |-> 0],
   profile |-> [gap |-> TRUE, updatedAt |-> 0],
   memory |-> "absent"]

\* What the transaction compares with the read phase.
Kept(w) == [owner |-> w.task.owner, checkIn |-> w.member.checkIn, profileAt |-> w.profile.updatedAt]

NoRequest == [of |-> "none", wish |-> "none", read |-> Kept(World0)]

AcceptanceInit ==
  /\ world = World0
  /\ advice \in [Recommendations -> [kind : Proposals, outcome : {"none"}, seen : {World0}]]
  /\ answer = [q \in Answerers |-> NoRequest]
  /\ edits = 0
  /\ acted = [r \in Recommendations |-> 0]

----------------------------------------------------------------------------
(* What the checks compare: w now, s when it was suggested, m what was read. *)

MayBeAssigned(w, s) == w.member.checkIn = s.member.checkIn /\ w.member.checkIn # "unavailable"

EqualTo == [create_path_task |-> "path", create_conversation_task |-> "task",
            create_conversation_project |-> "project", create_conversation_event |-> "event"]

\* The checks of the read phase.
Current(k, w, s) ==
  CASE k \in {"create_path_task", "create_conversation_task", "create_conversation_project"} ->
         w.equal[EqualTo[k]] = 0
    [] k = "create_conversation_event" -> w.equal.event = 0 /\ w.lineup = s.lineup
    [] k = "update_conversation_task" -> w.task.updatedAt = s.task.updatedAt
    [] k = "assign_conversation_task" ->
         /\ w.task.updatedAt = s.task.updatedAt /\ w.task.status # "done"
         /\ w.member.active /\ MayBeAssigned(w, s)
    [] k = "assign_task" ->
         /\ w.task.owner = "nobody" /\ w.task.status # "done"
         /\ w.member.active /\ MayBeAssigned(w, s)
    [] k = "update_conversation_event_availability" ->
         w.event.on /\ w.member.active /\ w.event.response = s.event.response
    [] k = "profile_context" -> w.profile.gap
    [] k = "prepare_event_logistics_approvals" -> w.event.logistics = s.event.logistics
    [] k = "generate_event_advance" -> w.event.timed
    [] k = "generate_project_plan" -> w.project.dated
    [] OTHER -> TRUE

\* The transaction trusts what was read.
Recheck_Trusting(k, w, s, m) == TRUE

\* The checks the transaction makes again, or only there.  An advance and a plan
\* are written for the date that was read.
Recheck(k, w, s, m) ==
  CASE k = "assign_task" ->
         /\ w.task.owner = m.owner /\ w.task.status # "done"
         /\ w.member.checkIn = m.checkIn /\ w.member.checkIn # "unavailable"
    [] k = "profile_context" -> w.profile.updatedAt = m.profileAt
    [] k = "remember_fact" -> w.memory \in {"absent", "normal"}
    [] k \in {"generate_event_advance", "generate_project_plan"} -> TRUE
    [] OTHER -> Current(k, w, s)

\* What the transaction writes.  An update completes, blocks or puts off.
Effects(k, w) ==
  CASE k \in DOMAIN EqualTo -> {[w EXCEPT !.equal[EqualTo[k]] = @ + 1]}
    [] k = "update_conversation_task" ->
         {[w EXCEPT !.task.status = s, !.task.updatedAt = @ + 1] : s \in {"done", "blocked"}}
           \union {[w EXCEPT !.task.late = TRUE, !.task.updatedAt = @ + 1]}
    [] k \in {"assign_task", "assign_conversation_task"} ->
         {[w EXCEPT !.task.owner = "member", !.task.updatedAt = @ + 1]}
    [] k = "update_conversation_event_availability" ->
         {[w EXCEPT !.event.response = r] : r \in {"available", "declined"}}
    [] k = "profile_context" -> {[w EXCEPT !.profile.gap = FALSE, !.profile.updatedAt = @ + 1]}
    [] k = "remember_fact" -> {[w EXCEPT !.memory = "normal"]}
    [] k = "prepare_event_logistics_approvals" -> {[w EXCEPT !.event.logistics = @ + 1]}
    [] k = "generate_event_advance" -> {[w EXCEPT !.event.advance = 1]}
    [] k = "generate_project_plan" -> {[w EXCEPT !.project.plan = 1]}
    [] k \in {"create_task", "create_decision"} -> {w}

----------------------------------------------------------------------------
(* The Manager and the members who answer.                                  *)

Suggest(r) ==
  /\ advice[r].outcome = "none"
  /\ Current(advice[r].kind, world, world)
  /\ advice' = [advice EXCEPT ![r].outcome = "suggested", ![r].seen = world]
  /\ UNCHANGED <<world, answer, edits, acted>>

\* Completing what was accepted also asks for the linked record to be done,
\* which ManagerReceipts follows.
AllowedFor(wish) == IF wish = "completed" THEN {"suggested", "accepted"} ELSE {"suggested"}

ReadAnswer(q) ==
  /\ answer[q] = NoRequest
  /\ \E r \in Recommendations, wish \in {"accepted", "dismissed", "completed"} :
       /\ advice[r].outcome \in AllowedFor(wish)
       /\ wish = "accepted" => Current(advice[r].kind, world, advice[r].seen)
       /\ answer' = [answer EXCEPT ![q] = [of |-> r, wish |-> wish, read |-> Kept(world)]]
  /\ UNCHANGED <<world, advice, edits, acted>>

Claims_Read(r, wish) == TRUE
\* The first statement of the transaction takes the recommendation.
Claims(r, wish) == advice[r].outcome \in AllowedFor(wish)

Outcome(r, wish) ==
  IF wish = "accepted" /\ advice[r].kind \in Immediate THEN "completed" ELSE wish

WriteAnswer(q) ==
  LET r == answer[q].of
      wish == answer[q].wish
      passes == \/ wish # "accepted"
                \/ Recheck(advice[r].kind, world, advice[r].seen, answer[q].read)
  IN
  /\ answer[q] # NoRequest
  /\ answer' = [answer EXCEPT ![q] = NoRequest]
  /\ IF Claims(r, wish) /\ passes
     THEN /\ advice' = [advice EXCEPT ![r].outcome = Outcome(r, wish)]
          /\ IF wish = "accepted"
             THEN /\ world' \in Effects(advice[r].kind, world)
                  /\ acted' = [acted EXCEPT ![r] = @ + 1]
             ELSE UNCHANGED <<world, acted>>
     ELSE UNCHANGED <<advice, world, acted>>
  /\ UNCHANGED edits

----------------------------------------------------------------------------
(* The band edits the same records elsewhere.                               *)

TaskEdits ==
  {[world EXCEPT !.task.status = s, !.task.updatedAt = @ + 1] : s \in {"open", "done"}}
    \union {[world EXCEPT !.task.owner = o, !.task.updatedAt = @ + 1] : o \in {"nobody", "other"}}
MemberEdits ==
  {[world EXCEPT !.member.checkIn = c] : c \in {"available", "limited", "unavailable"}}
    \union {[world EXCEPT !.member.active = ~@, !.lineup = @ + 1]}
EventEdits ==
  {[world EXCEPT !.event.response = r] : r \in {"available", "declined"}}
    \union {[world EXCEPT !.event.on = FALSE], [world EXCEPT !.event.logistics = @ + 1]}
ProfileEdits == {[world EXCEPT !.profile.updatedAt = @ + 1, !.profile.gap = g] : g \in BOOLEAN}
MemoryEdits == {[world EXCEPT !.memory = c] : c \in {"normal", "owner", "archived"}}
TimeEdits == {[world EXCEPT !.event.timed = t] : t \in BOOLEAN}
DateEdits == {[world EXCEPT !.project.dated = t] : t \in BOOLEAN}

\* Edits of records a proposal of this kind is about; others are of no concern.
EditsAbout(k) ==
  CASE k \in DOMAIN EqualTo ->
         {[world EXCEPT !.equal[EqualTo[k]] = @ + 1]}
           \union (IF k = "create_conversation_event" THEN MemberEdits ELSE {})
    [] k = "update_conversation_task" -> TaskEdits
    [] k \in {"assign_task", "assign_conversation_task"} -> TaskEdits \union MemberEdits
    [] k \in {"update_conversation_event_availability", "prepare_event_logistics_approvals"} ->
         EventEdits \union MemberEdits
    [] k = "profile_context" -> ProfileEdits
    [] k = "remember_fact" -> MemoryEdits
    [] k = "generate_event_advance" -> TimeEdits
    [] k = "generate_project_plan" -> DateEdits
    [] OTHER -> {}

Edit ==
  /\ edits < MaxEdits /\ edits' = edits + 1
  /\ \E r \in Recommendations : world' \in EditsAbout(advice[r].kind) \ {world}
  /\ UNCHANGED <<advice, answer, acted>>

AcceptanceNext ==
  \/ \E r \in Recommendations : Suggest(r)
  \/ \E q \in Answerers : ReadAnswer(q) \/ WriteAnswer(q)
  \/ Edit

AcceptanceSpec == AcceptanceInit /\ [][AcceptanceNext]_acceptanceVars

----------------------------------------------------------------------------
(* Properties.                                                              *)

AcceptanceTypeOK ==
  /\ world.equal \in [{"task", "path", "project", "event"} -> Nat]
  /\ world.memory \in {"absent", "normal", "owner", "archived"}
  /\ \A r \in Recommendations :
       advice[r].outcome \in {"none", "suggested", "accepted", "dismissed", "completed"}
  /\ edits \in 0..MaxEdits

\* However many members answer at once, a recommendation changes the records
\* once at most, and one that was dismissed never does; two recommendations of
\* the same record do not both create it (recommendation).
AcceptedOnce ==
  /\ \A r \in Recommendations :
       acted[r] <= (IF advice[r].outcome \in {"none", "suggested", "dismissed"} THEN 0 ELSE 1)
  /\ \A e \in DOMAIN world.equal : world.equal[e] <= 1 + edits

\* An acceptance changes nothing the band has changed since it was reviewed:
\* no status, date, owner, answer, gap or private fact that is not as it was
\* when the Manager proposed the change, and work goes to nobody whose check-in
\* is another one or says unavailable.  A record proposed is made only while
\* there is no equivalent, an event only for the lineup that was reviewed.
Reviewed ==
  \A r \in Recommendations : acted'[r] # acted[r] =>
     LET s == advice[r].seen IN
     /\ world'.task.status # world.task.status => world.task = s.task
     /\ world'.task.late # world.task.late => world.task = s.task
     /\ world'.task.owner # world.task.owner =>
          world.task.owner = s.task.owner /\ MayBeAssigned(world, s)
     /\ world'.event.response # world.event.response => world.event.response = s.event.response
     /\ world'.event.logistics # world.event.logistics => world.event.logistics = s.event.logistics
     /\ world'.profile.gap # world.profile.gap => s.profile.gap
     /\ world'.memory # world.memory => world.memory = "absent"
     /\ \A e \in DOMAIN world.equal : world'.equal[e] # world.equal[e] => world.equal[e] = 0
     /\ world'.equal.event # world.equal.event => world.lineup = s.lineup
ActsOnReviewed == [][Reviewed]_acceptanceVars
=============================================================================
