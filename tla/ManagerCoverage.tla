--------------------------- MODULE ManagerCoverage ----------------------------
(***************************************************************************)
(* How much of the band the records tell: the questions the profile and the   *)
(* lineup leave open (manager-context-health.ts) and the state of six areas    *)
(* of records (manager-evidence-health.ts).  Both look at the same members,    *)
(* goals, shows, projects and opportunities, which are edited at will and age. *)
(***************************************************************************)
EXTENDS Integers, Sequences, FiniteSets, FiniteSetsExt

CONSTANTS
  Members, Events, Projects, Leads, Deals, Settlements, Goals,
  Quiet, Old, OldDeal, OldDraft,   \* ages: 21, 45, 45 and 30 days
  MaxNow, MaxEdits                 \* bounds

CoverageConstants ==
  /\ {Quiet, Old, OldDeal, OldDraft, MaxNow, MaxEdits} \subseteq Nat
  /\ Quiet <= Old

VARIABLES
  hasProfile, filled,   \* the profile, and the answers it holds
  lineup,               \* [Members -> "out", or whether roles or instruments are named]
  event,                \* [Events -> active, its start, whether its readiness is uncertain]
  project,              \* [Projects -> "none", or whether its readiness is uncertain]
  lead,                 \* [Leads -> kind of booking signal and its last change]
  deal,                 \* [Deals -> open offer, or accepted or invoiced, and last change]
  draft,                \* [Settlements -> last change of a draft], 0 for none
  goal,                 \* [Goals -> "none", or what its measurement says]
  now, edits

coverageVars == <<hasProfile, filled, lineup, event, project, lead, deal, draft, goal, now, edits>>

NoDate == 0
NoEvent == [active |-> FALSE, starts |-> NoDate, shaky |-> FALSE]
NoLead == [kind |-> "none", at |-> 0]
NoDeal == NoLead

\* In the order of the code.  A lineup without responsibilities answers the first
\* of the two questions about people only.
Asked == <<
  [code |-> "career_stage", importance |-> 2, worth |-> 4],
  [code |-> "home_market", importance |-> 1, worth |-> 5],
  [code |-> "genres", importance |-> 2, worth |-> 4],
  [code |-> "ambition", importance |-> 1, worth |-> 6],
  [code |-> "constraints", importance |-> 2, worth |-> 4],
  [code |-> "lineup", importance |-> 1, worth |-> 8],
  [code |-> "member_responsibilities", importance |-> 1, worth |-> 10],
  [code |-> "availability_expectations", importance |-> 1, worth |-> 7],
  [code |-> "revenue_sources", importance |-> 2, worth |-> 6],
  [code |-> "current_assets", importance |-> 2, worth |-> 5],
  [code |-> "budget_tolerance", importance |-> 2, worth |-> 5],
  [code |-> "business_identity", importance |-> 3, worth |-> 4],
  [code |-> "active_goal", importance |-> 1, worth |-> 7],
  [code |-> "current_commitments", importance |-> 2, worth |-> 0]>>
Fields == {"career_stage", "home_market", "genres", "ambition", "constraints",
           "availability_expectations", "revenue_sources", "current_assets",
           "budget_tolerance", "business_identity"}

CoverageTypeOK ==
  /\ filled \subseteq Fields /\ (filled # {} => hasProfile)
  /\ lineup \in [Members -> {"out", "bare", "scoped"}]
  /\ event \in [Events -> [active : BOOLEAN, starts : 0..MaxNow, shaky : BOOLEAN]]
  /\ project \in [Projects -> {"none", "shaky", "sound"}]
  /\ lead \in [Leads -> [kind : {"none", "opportunity", "prospect", "reply"}, at : 0..MaxNow]]
  /\ deal \in [Deals -> [kind : {"none", "open", "due"}, at : 0..MaxNow]]
  /\ draft \in [Settlements -> 0..MaxNow]
  /\ goal \in [Goals -> {"none", "drift", "unmeasured", "measured"}]
  /\ now \in 1..MaxNow /\ edits \in 0..MaxEdits

\* A band that has recorded nothing, or everything, of itself and of its work.
CoverageInit ==
  /\ now = 1 /\ edits = 0
  /\ \E known \in BOOLEAN :
       /\ hasProfile = known
       /\ filled = IF known THEN Fields ELSE {}
       /\ lineup = [m \in Members |-> IF known THEN "scoped" ELSE "out"]
  /\ \E full \in BOOLEAN :
       /\ event = [v \in Events |-> IF full THEN [active |-> TRUE, starts |-> 1, shaky |-> FALSE] ELSE NoEvent]
       /\ project = [p \in Projects |-> IF full THEN "sound" ELSE "none"]
       /\ lead = [l \in Leads |-> IF full THEN [kind |-> "opportunity", at |-> 1] ELSE NoLead]
       /\ deal = [d \in Deals |-> IF full THEN [kind |-> "open", at |-> 1] ELSE NoDeal]
       /\ draft = [d \in Settlements |-> IF full THEN 1 ELSE 0]
       /\ goal = [g \in Goals |-> IF full THEN "measured" ELSE "none"]

----------------------------------------------------------------------------
(* Edits of the records                                                     *)

Others(vars) == edits < MaxEdits /\ edits' = edits + 1 /\ UNCHANGED <<now, vars>>
Shows == <<event, project>>
Bookings == <<lead, deal, draft>>
Band == <<hasProfile, filled, lineup>>

\* A save of the profile fills or empties a field.
EditProfile ==
  /\ hasProfile' = TRUE
  /\ \E f \in Fields : filled' \in {filled \union {f}, filled \ {f}}
  /\ Others(<<lineup, Shows, Bookings, goal>>)

EditMember ==
  /\ \E m \in Members, row \in {"out", "bare", "scoped"} : lineup' = [lineup EXCEPT ![m] = row]
  /\ Others(<<hasProfile, filled, Shows, Bookings, goal>>)

EditEvent ==
  /\ \E v \in Events : \/ event' = [event EXCEPT ![v] = NoEvent]
                       \/ \E date \in 0..MaxNow, shaky \in BOOLEAN :
                            event' = [event EXCEPT ![v] = [active |-> TRUE, starts |-> date, shaky |-> shaky]]
  /\ Others(<<Band, project, Bookings, goal>>)

EditProject ==
  /\ \E p \in Projects, row \in {"none", "shaky", "sound"} : project' = [project EXCEPT ![p] = row]
  /\ Others(<<Band, event, Bookings, goal>>)

EditLead ==
  /\ \E l \in Leads : \/ lead' = [lead EXCEPT ![l] = NoLead]
                      \/ \E kind \in {"opportunity", "prospect", "reply"} :
                           lead' = [lead EXCEPT ![l] = [kind |-> kind, at |-> now]]
  /\ Others(<<Band, Shows, deal, draft, goal>>)

EditMoney ==
  /\ \/ \E d \in Deals : /\ \/ deal' = [deal EXCEPT ![d] = NoDeal]
                             \/ \E kind \in {"open", "due"} : deal' = [deal EXCEPT ![d] = [kind |-> kind, at |-> now]]
                          /\ UNCHANGED draft
     \/ \E d \in Settlements, at \in {0, now} : draft' = [draft EXCEPT ![d] = at] /\ UNCHANGED deal
  /\ Others(<<Band, Shows, lead, goal>>)

EditGoal ==
  /\ \E g \in Goals, row \in {"none", "drift", "unmeasured", "measured"} : goal' = [goal EXCEPT ![g] = row]
  /\ Others(<<Band, Shows, Bookings>>)

Tick == now < MaxNow /\ now' = now + 1 /\ UNCHANGED <<Band, Shows, Bookings, goal, edits>>

CoverageNext ==
  \/ EditProfile \/ EditMember \/ EditEvent \/ EditProject \/ EditLead \/ EditMoney \/ EditGoal
  \/ Tick

----------------------------------------------------------------------------
(* The questions (deterministicManagerContextHealth)                        *)

Working == {m \in Members : lineup[m] # "out"}
ActiveGoals == {g \in Goals : goal[g] # "none"}
ActiveEvents == {v \in Events : event[v].active}
ActiveProjects == {p \in Projects : project[p] # "none"}
Signals == {l \in Leads : lead[l] # NoLead}
Opportunities == {l \in Leads : lead[l].kind = "opportunity"}

Answered(code) ==
  CASE code = "lineup" -> Working # {}
    [] code = "member_responsibilities" -> Working # {} /\ \A m \in Working : lineup[m] = "scoped"
    [] code = "active_goal" -> ActiveGoals # {}
    [] code = "current_commitments" -> ActiveEvents \union ActiveProjects \union Opportunities # {}
    [] OTHER -> code \in filled

\* The question about responsibilities is not asked of an empty lineup.
Gaps ==
  {i \in DOMAIN Asked : ~Answered(Asked[i].code)
                          /\ (Asked[i].code = "member_responsibilities" => Working # {})}
GapCodes == {Asked[i].code : i \in Gaps}

\* The most important; of those the first.
Before(i, j) == Asked[i].importance * Len(Asked) + i < Asked[j].importance * Len(Asked) + j
NextGap == CHOOSE i \in Gaps : \A j \in Gaps \ {i} : Before(i, j)

Points(b, n) == IF b THEN n ELSE 0
ContextScore ==
  MapThenSumSet(LAMBDA i : Points(Answered(Asked[i].code), Asked[i].worth), DOMAIN Asked)
    + Points(hasProfile, 7)   \* its mode and its currency
    + Points(ActiveEvents # {}, 6) + Points(ActiveProjects # {}, 6) + Points(Opportunities # {}, 6)

ContextStatus ==
  IF ContextScore >= 80 THEN "strong" ELSE IF ContextScore >= 55 THEN "usable" ELSE "thin"

----------------------------------------------------------------------------
(* The areas (deterministicManagerEvidenceHealth)                           *)

Areas == <<"live", "booking", "projects", "money", "goals", "team">>

Dated == {v \in ActiveEvents : event[v].starts >= now}
Nearest == {v \in Dated : \A w \in Dated : event[v].starts <= event[w].starts}

\* Of two shows at one moment either may come first.
LiveStates ==
  IF ActiveEvents = {} THEN {"missing"}
  ELSE IF Dated = {} THEN {"needs_confirmation"}
  ELSE {IF event[v].shaky THEN "needs_confirmation" ELSE "current" : v \in Nearest}

LastSignal == Max({lead[l].at : l \in Signals})

BookingState ==
  IF Signals = {} THEN "missing"
  ELSE IF now - LastSignal > Old THEN "stale"
  ELSE IF now - LastSignal > Quiet THEN "needs_confirmation"
  ELSE "current"

ProjectState ==
  IF ActiveProjects = {} THEN "missing"
  ELSE IF \E p \in ActiveProjects : project[p] = "shaky" THEN "needs_confirmation"
  ELSE "current"

OpenDeals == {d \in Deals : deal[d].kind = "open"}
OpenDrafts == {d \in Settlements : draft[d] > 0}

MoneyState ==
  IF OpenDrafts = {} /\ \A d \in Deals : deal[d] = NoDeal THEN "missing"
  ELSE IF \/ \E d \in OpenDeals : now - deal[d].at > OldDeal
          \/ \E d \in OpenDrafts : now - draft[d] > OldDraft THEN "stale"
  ELSE "current"

GoalState ==
  IF ActiveGoals = {} THEN "missing"
  ELSE IF \E g \in ActiveGoals : goal[g] = "drift" THEN "conflicted"
  ELSE IF \E g \in ActiveGoals : goal[g] = "unmeasured" THEN "needs_confirmation"
  ELSE "current"

TeamState == IF Working = {} THEN "missing" ELSE "current"

\* The assessments the records may get: one for each show that may be the nearest.
Assessments ==
  {[live |-> live, booking |-> BookingState, projects |-> ProjectState,
    money |-> MoneyState, goals |-> GoalState, team |-> TeamState] : live \in LiveStates}

Confidence == [current |-> 100, needs_confirmation |-> 60, stale |-> 35, missing |-> 25, conflicted |-> 20]
Urgency == [conflicted |-> 0, stale |-> 1, missing |-> 2, needs_confirmation |-> 3]

\* Six times the average, which the code rounds to hundredths.
Sum(areas) == MapThenSumSet(LAMBDA i : Confidence[areas[Areas[i]]], DOMAIN Areas)
EvidenceStatus(areas) ==
  IF Sum(areas) >= 6 * 80 THEN "strong" ELSE IF Sum(areas) >= 6 * 55 THEN "usable" ELSE "thin"

Attention(areas) == {i \in DOMAIN Areas : areas[Areas[i]] # "current"}

\* The most urgent area is asked about first; of those the first above.
AskedBefore(areas, i, j) ==
  Len(Areas) * Urgency[areas[Areas[i]]] + i < Len(Areas) * Urgency[areas[Areas[j]]] + j
Ahead(areas, i) == {j \in Attention(areas) : AskedBefore(areas, j, i)}
PriorityQuestions(areas) == {i \in Attention(areas) : Cardinality(Ahead(areas, i)) < 3}
MostUrgent(areas) == CHOOSE i \in Attention(areas) : Ahead(areas, i) = {}

\* The area of a question is the first of these it has a word of.
WordOrder == <<"money", "booking", "projects", "live", "goals", "team">>
AreaOfQuestion(words) ==
  LET said == {i \in DOMAIN WordOrder : WordOrder[i] \in words}
  IN  IF said = {} THEN "none" ELSE WordOrder[Min(said)]

\* The area whose check an answer gets (calibrateManagerChatResult).
RecordCheck(areas, words, broad) ==
  LET asked == AreaOfQuestion(words)
      area == IF asked # "none" THEN asked
              ELSE IF broad /\ EvidenceStatus(areas) = "thin" THEN Areas[MostUrgent(areas)]
              ELSE "none"
  IN  IF area = "none" \/ areas[area] = "current" THEN "none" ELSE area

----------------------------------------------------------------------------
\* What one assessment says is missing the other asks about.  Full context leaves
\* nothing to ask, and nothing to ask means strong context; a question is of high
\* importance when any is.  Records are thin only when four areas need a check and
\* strong only when at most three do, three questions are of the most urgent, and
\* an answer about one area alone carries its check exactly when it needs one.
CoverageAgrees ==
  /\ Gaps = {} => ContextStatus = "strong"
  /\ ContextScore >= 100 => Gaps = {}
  /\ Gaps # {} /\ (\E i \in Gaps : Asked[i].importance = 1) => Asked[NextGap].importance = 1
  /\ \A areas \in Assessments :
       LET asks == PriorityQuestions(areas)
       IN  /\ areas.goals = "missing" <=> "active_goal" \in GapCodes
           /\ areas.team = "missing" <=> "lineup" \in GapCodes
           /\ "current_commitments" \in GapCodes => areas.live = "missing" /\ areas.projects = "missing"
           /\ areas.live = "missing" /\ areas.projects = "missing" /\ areas.booking = "missing"
                => "current_commitments" \in GapCodes
           /\ EvidenceStatus(areas) = "thin" => Cardinality(Attention(areas)) >= 4
           /\ EvidenceStatus(areas) = "strong" => Cardinality(Attention(areas)) <= 3
           /\ Cardinality(asks) = Min({3, Cardinality(Attention(areas))})
           /\ \A i \in asks, j \in Attention(areas) \ asks : Urgency[areas[Areas[i]]] <= Urgency[areas[Areas[j]]]
           /\ \A i \in DOMAIN Areas, broad \in BOOLEAN :
                RecordCheck(areas, {Areas[i]}, broad) = IF i \in Attention(areas) THEN Areas[i] ELSE "none"
           /\ RecordCheck(areas, {}, TRUE) # "none" <=> EvidenceStatus(areas) = "thin"
=============================================================================
