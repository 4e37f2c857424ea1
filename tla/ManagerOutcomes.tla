--------------------------- MODULE ManagerOutcomes ----------------------------
(***************************************************************************)
(* What the Manager says came of the shows, projects and pitches of the last  *)
(* weeks (outcomeReview, manager-outcome-review.ts), over the books that       *)
(* ShowSettlement keeps.  An expense may belong to a show, to a project or to   *)
(* both, in a currency of its own.                                             *)
(***************************************************************************)
EXTENDS ShowSettlement, FiniteSetsExt

CONSTANTS
  Projects, Recipients,
  Window,             \* how far back a review looks
  MaxNow, MaxEdits    \* bounds

OutcomeConstants == {Window, MaxNow, MaxEdits} \subseteq Nat /\ BookConstants

VARIABLES
  show,       \* [Events -> status, start, what was told of it, gross noted on it, last change]
  project,    \* [Projects -> status, whether a task is open, last change]
  paidFor,    \* [Expenses -> project or Nowhere]
  recipient,  \* [Recipients -> status, last change]
  now, edits

reviewVars == <<show, project, paidFor, recipient, now, edits>>
outcomeVars == <<bookVars, reviewVars>>

Told == {"attendance", "notes", "relationship"}
NoDate == 0
Ended == {"completed", "cancelled"}
Answers == {"booked", "replied", "declined"}

OutcomeInit ==
  /\ BooksInit
  /\ \E date \in {NoDate, 1} : show = [v \in Events |->
       [status |-> "confirmed", starts |-> date, told |-> {}, gross |-> NoDate, touched |-> 1]]
  /\ \E s \in {"active", "completed"} :
       project = [p \in Projects |-> [status |-> s, openWork |-> TRUE, touched |-> 1]]
  /\ paidFor \in [Expenses -> Projects \union {Nowhere}]
  /\ recipient = [r \in Recipients |-> [status |-> "sent", touched |-> 1]]
  /\ now = 1 /\ edits = 0

OutcomeTypeOK ==
  /\ show \in [Events -> [status : {"confirmed"} \union Ended, starts : 0..MaxNow,
                          told : SUBSET Told, gross : 0..MaxMinor, touched : 1..MaxNow]]
  /\ project \in [Projects -> [status : {"active"} \union Ended, openWork : BOOLEAN, touched : 1..MaxNow]]
  /\ recipient \in [Recipients -> [status : {"sent"} \union Answers, touched : 1..MaxNow]]
  /\ now \in 1..MaxNow /\ edits \in 0..MaxEdits

----------------------------------------------------------------------------
(* Edits; only those of a record itself bring it back into the window       *)

Edit == edits < MaxEdits /\ edits' = edits + 1 /\ UNCHANGED <<bookVars, paidFor, now>>

EditShow(v) ==
  /\ \/ \E s \in {"confirmed"} \union Ended, told \in SUBSET Told :
          show' = [show EXCEPT ![v].status = s, ![v].told = told, ![v].touched = now]
     \/ \E gross \in 1..MaxMinor : show' = [show EXCEPT ![v].gross = gross, ![v].touched = now]
  /\ Edit /\ UNCHANGED <<project, recipient>>

EditProject(p) ==
  /\ \E s \in Ended, open \in BOOLEAN :
       project' = [project EXCEPT ![p] = [status |-> s, openWork |-> open, touched |-> now]]
  /\ Edit /\ UNCHANGED <<show, recipient>>

Answer(r) ==
  /\ \E s \in Answers : recipient' = [recipient EXCEPT ![r] = [status |-> s, touched |-> now]]
  /\ Edit /\ UNCHANGED <<show, project>>

Tick == now < MaxNow /\ now' = now + 1 /\ UNCHANGED <<bookVars, show, project, paidFor, recipient, edits>>

OutcomeNext ==
  \/ BooksNext /\ UNCHANGED reviewVars
  \/ \E v \in Events : EditShow(v)
  \/ \E p \in Projects : EditProject(p)
  \/ \E r \in Recipients : Answer(r)
  \/ Tick

----------------------------------------------------------------------------
(* What a review looks at (outcomeReview)                                   *)

Recent(date) == date # NoDate /\ date <= now /\ date + Window >= now

Reviewed(status) ==
  {v \in Events : /\ show[v].status = status
                  /\ show[v].starts <= now
                  /\ Recent(show[v].starts) \/ Recent(show[v].touched)}
Completed == Reviewed("completed")
Shows == Completed \union Reviewed("cancelled")

ReviewedProjects(status) == {p \in Projects : project[p].status = status /\ Recent(project[p].touched)}
EndedProjects == ReviewedProjects("completed") \union ReviewedProjects("cancelled")
Pitches == {r \in Recipients : recipient[r].status \in Answers /\ Recent(recipient[r].touched)}

----------------------------------------------------------------------------
(* The review (deterministicManagerOutcomeReview)                           *)

ToldOf(f) == {v \in Completed : f \in show[v].told}
Final == {v \in Completed : settlement[v].status = "final"}
Unsettled == Completed \ Final

Always == Cardinality(ReviewedProjects("completed")) + Cardinality(Pitches)
Possible == 4 * Cardinality(Completed) + Always
Known == MapThenSumSet(LAMBDA f : Cardinality(ToldOf(f)), Told) + Cardinality(Final) + Always

ConfidenceLabel ==
  IF Possible > 0 /\ 100 * Known >= 75 * Possible THEN "high"
  ELSE IF Possible > 0 /\ 100 * Known >= 45 * Possible THEN "medium"
  ELSE "low"

Settled(v, c) == settlement[v].status # "absent" /\ settlement[v].currency = c
HomeCurrency == CHOOSE c \in Currencies : TRUE

\* A settlement's gross, or what was noted on the show in its own currency.
Gross(v, c) ==
  CASE Settled(v, c) -> settlement[v].gross
    [] settlement[v].status = "absent" /\ c = HomeCurrency -> show[v].gross
    [] OTHER -> 0

\* Costs that came after a settlement are added to those it counted.
ShowCost(v, c) ==
  IF Settled(v, c) THEN settlement[v].expense + Max({0, CostOf(v, c) - settlement[v].expense})
  ELSE CostOf(v, c)

OfShows == {x \in Expenses : expense[x].event \in Shows}
ProjectCosts(c) == {x \in Expenses \ OfShows : paidFor[x] \in EndedProjects /\ expense[x].currency = c}

Amount(x) == expense[x].amount
GrossMinor(c) == MapThenSumSet(LAMBDA v : Gross(v, c), Shows)
ExpenseMinor(c) ==
  MapThenSumSet(LAMBDA v : ShowCost(v, c), Shows) + MapThenSumSet(Amount, ProjectCosts(c))
SettledNet(c) == MapThenSumSet(LAMBDA v : settlement[v].net, {v \in Shows : Settled(v, c)})
FinalIn(c) == {v \in Shows : Settled(v, c) /\ settlement[v].status = "final"}

\* Wins speak of finalized shows; the sum they name is of drafts too.
PositiveNet == {c \in Currencies : FinalIn(c) # {} /\ SettledNet(c) > 0}

Untold == {v \in Completed : show[v].told # Told}
Drifted == {v \in Final : CostOf(v, settlement[v].currency) # settlement[v].expense}
OpenWork == {p \in ReviewedProjects("completed") : project[p].openWork}
NoOutcome == Completed = {} /\ Always = 0

\* In the order in which they are shown; the first is the next action.
Attention == <<
  [code |-> "post_show_incomplete", there |-> Untold # {}],
  [code |-> "settlement_incomplete", there |-> Unsettled # {}],
  [code |-> "settlement_expense_drift", there |-> Drifted # {}],
  [code |-> "completed_project_open_work", there |-> OpenWork # {}],
  [code |-> "no_recorded_outcomes", there |-> NoOutcome]>>
Raised == {Attention[i].code : i \in {j \in DOMAIN Attention : Attention[j].there}}

Questions == {f \in Told : ToldOf(f) # Completed}

----------------------------------------------------------------------------
\* A review counts every expense of the shows and projects it is about once, in its
\* own currency, and adds only what a draft settlement still says of costs that are
\* gone; the books never give it a final settlement that no longer matches its
\* expenses.  It knows at most what can be known, and everything exactly when
\* nothing is left to settle or to ask; and when its settlements are final and the
\* costs all in their currency, net and costs make up the gross.
OutcomesTold ==
  /\ OutcomeTypeOK
  /\ \A c \in Currencies :
       LET about == {x \in Expenses : expense[x].currency = c
                                        /\ (x \in OfShows \/ paidFor[x] \in EndedProjects)}
           gone(v) == Max({0, settlement[v].expense - CostOf(v, c)})
           drafts == {v \in Shows : Settled(v, c) /\ settlement[v].status = "draft"}
       IN  ExpenseMinor(c) = MapThenSumSet(Amount, about) + MapThenSumSet(gone, drafts)
  /\ "settlement_expense_drift" \notin Raised
  /\ Known <= Possible
  /\ Known = Possible <=> Raised \intersect {"post_show_incomplete", "settlement_incomplete"} = {}
  /\ Questions = {} <=> "post_show_incomplete" \notin Raised
  /\ Possible = 0 <=> "no_recorded_outcomes" \in Raised
  /\ \A c \in Currencies :
       FinalIn(c) = Shows /\ OfShows = UNION {Costs(v, c) : v \in Shows}
         => SettledNet(c) + MapThenSumSet(LAMBDA v : ShowCost(v, c), Shows) = GrossMinor(c)
=============================================================================
