----------------------------- MODULE ManagerIntake -----------------------------
(***************************************************************************)
(* Setting the Manager up (completeIntake): it saves the profile, then each    *)
(* performer, then the starter plan, in a transaction each, after checking     *)
(* every account link it was sent.  It may be sent twice, stop between two      *)
(* transactions, or meet edits of the roles, the lineup, the profile and the    *)
(* plan.  The plan may also be built alone (ensurePlan).                        *)
(***************************************************************************)
EXTENDS Naturals, Sequences, FiniteSetsExt, SequencesExt

CONSTANTS
  Requests, Actor,     \* Actor[q]: the account that sends q
  Accounts,
  Lineups,             \* the links of the performers sent: accounts, Nobody or Unset
  Template,            \* [band modes -> rows of the plan: key, title, key of the row above]
  MaxRows, MaxEdits,   \* bounds; a member adds no row to MaxRows
  Unset, Nobody, Top

VARIABLES
  role,      \* [Accounts -> role in the band]
  profile,   \* [mode, complete], or Nobody
  linked,    \* [request and place in its lineup -> linked account], Unset for no performer
  plan,      \* the rows of the plan in order of creation: key or Nobody, title, row above
  req,       \* [Requests -> how far it is]
  edits

intakeVars == <<role, profile, linked, plan, req, edits>>

Modes == DOMAIN Template
Performers == Requests \X (1..Max({Len(l) : l \in Lineups}))
Roles == {"owner", "member", "viewer", "none"}
Idle == [at |-> "idle"]
InFlight == {"checking", "saving", "joining", "planning", "building"}

IntakeInit ==
  /\ role \in {[a \in Accounts |-> IF a \in {Actor[q] : q \in Requests} THEN "owner" ELSE r] : r \in Roles}
  /\ profile = Nobody
  /\ linked = [p \in Performers |-> Unset]
  /\ plan = <<>>
  /\ req = [q \in Requests |-> Idle]
  /\ edits = 0

\* Every other request has had a change fall into it.
Moves(q, to) ==
  req' = [p \in Requests |-> IF p = q THEN to
                             ELSE IF req[p].at \in InFlight THEN [req[p] EXCEPT !.alone = FALSE]
                             ELSE req[p]]

\* An intake's own step that writes nothing.
Goes(q, to) == req' = [req EXCEPT ![q] = to]
Refused(q) == Goes(q, [req[q] EXCEPT !.at = "refused"])

----------------------------------------------------------------------------
(* The performers' accounts (member-account-link.ts)                        *)

Distinct(links) ==
  \A i, j \in DOMAIN links : links[i] \in Accounts /\ links[i] = links[j] => i = j

LinkAllowed(actor, link, own) ==
  link # Unset =>
    /\ role[actor] = "owner"
    /\ link # Nobody => /\ role[link] \in {"owner", "member"}
                        /\ \A p \in Performers \ {own} : linked[p] # link

----------------------------------------------------------------------------
(* The plan (ensurePlan).  A row of the template is found by its key; else a   *)
(* row of its title without a key, below the same row, takes the key.  Of       *)
(* several such rows the code takes any, this model the oldest.                 *)

RowsOf(rows, key) == {i \in DOMAIN rows : rows[i].key = key}
Above(rows, key) == IF key = Top THEN 0 ELSE Min(RowsOf(rows, key))
Legacy(rows, entry) ==
  {i \in DOMAIN rows : rows[i] = [key |-> Nobody, title |-> entry.title, under |-> Above(rows, entry.under)]}

EnsuredRow(rows, entry) ==
  IF RowsOf(rows, entry.key) # {} THEN rows
  ELSE IF Legacy(rows, entry) # {} THEN [rows EXCEPT ![Min(Legacy(rows, entry))].key = entry.key]
  ELSE Append(rows, [key |-> entry.key, title |-> entry.title, under |-> Above(rows, entry.under)])

Ensured(rows, mode) == FoldLeft(EnsuredRow, rows, Template[mode])

----------------------------------------------------------------------------
(* Requests                                                                 *)

Begin(q) ==
  /\ req[q] = Idle
  /\ \E links \in Lineups, mode \in Modes :
       LET sent == [at |-> "checking", links |-> links, mode |-> mode, next |-> 1, alone |-> TRUE, saved |-> FALSE]
       IN  Goes(q, IF Distinct(links) THEN sent ELSE [sent EXCEPT !.at = "refused"])
  /\ UNCHANGED <<role, profile, linked, plan, edits>>

\* Only the plan.
BeginPlan(q) ==
  /\ req[q] = Idle
  /\ Goes(q, [at |-> "planning", links |-> <<>>, mode |-> Nobody, next |-> 1, alone |-> TRUE, saved |-> FALSE])
  /\ UNCHANGED <<role, profile, linked, plan, edits>>

Checks(q) ==
  /\ req[q].at = "checking"
  /\ IF req[q].next > Len(req[q].links) THEN Goes(q, [req[q] EXCEPT !.at = "saving", !.next = 1])
     ELSE IF LinkAllowed(Actor[q], req[q].links[req[q].next], Nobody) THEN Goes(q, [req[q] EXCEPT !.next = @ + 1])
     ELSE Refused(q)
  /\ UNCHANGED <<role, profile, linked, plan, edits>>

SavesProfile(q) ==
  /\ req[q].at = "saving"
  /\ profile' = [mode |-> req[q].mode, complete |-> TRUE]
  /\ Moves(q, [req[q] EXCEPT !.at = "joining", !.saved = TRUE])
  /\ UNCHANGED <<role, linked, plan, edits>>

\* Checked again in the transaction that creates the performer.
Joins(q) ==
  /\ req[q].at = "joining"
  /\ LET i == req[q].next
     IN  IF i > Len(req[q].links) THEN Goes(q, [req[q] EXCEPT !.at = "planning"]) /\ UNCHANGED linked
         ELSE IF LinkAllowed(Actor[q], req[q].links[i], Nobody)
              THEN /\ linked' = [linked EXCEPT ![q, i] = IF req[q].links[i] = Unset THEN Nobody ELSE req[q].links[i]]
                   /\ Moves(q, [req[q] EXCEPT !.next = @ + 1])
              ELSE Refused(q) /\ UNCHANGED linked
  /\ UNCHANGED <<role, profile, plan, edits>>

\* The mode is read before the transaction that builds the plan.
PlanReads(q) ==
  /\ req[q].at = "planning"
  /\ IF profile # Nobody /\ profile.complete
     THEN Goes(q, [req[q] EXCEPT !.at = "building", !.mode = profile.mode])
     ELSE Refused(q)
  /\ UNCHANGED <<role, profile, linked, plan, edits>>

PlanWrites(q) ==
  /\ req[q].at = "building"
  /\ plan' = Ensured(plan, req[q].mode)
  /\ Moves(q, [req[q] EXCEPT !.at = "done"])
  /\ UNCHANGED <<role, profile, linked, edits>>

\* The process ends, or the database fails it: what is committed stays.
Stops(q) ==
  /\ req[q].at \in InFlight
  /\ Goes(q, [req[q] EXCEPT !.at = "stopped"])
  /\ UNCHANGED <<role, profile, linked, plan, edits>>

----------------------------------------------------------------------------
(* Edits                                                                    *)

Edit == edits < MaxEdits /\ edits' = edits + 1 /\ Moves(Nobody, Nobody)

EditRole ==
  /\ \E a \in Accounts, r \in Roles : role' = [role EXCEPT ![a] = r]
  /\ Edit /\ UNCHANGED <<profile, linked, plan>>

EditLink ==
  /\ \E p \in Performers, actor \in Accounts, link \in Accounts \union {Nobody} :
       /\ linked[p] # Unset /\ LinkAllowed(actor, link, p)
       /\ linked' = [linked EXCEPT ![p] = link]
  /\ Edit /\ UNCHANGED <<role, profile, plan>>

\* A save of the profile leaves the setup as complete as it was.
EditProfile ==
  /\ \E mode \in Modes :
       profile' = [mode |-> mode, complete |-> profile # Nobody /\ profile.complete]
  /\ Edit /\ UNCHANGED <<role, linked, plan>>

\* A row of a member's own, or another title for a row.
Titles == {"mine"} \union UNION {{Template[m][i].title : i \in DOMAIN Template[m]} : m \in Modes}
EditPlan ==
  /\ \E title \in Titles :
       \/ /\ Len(plan) < MaxRows
          /\ \E under \in 0..Len(plan) : plan' = Append(plan, [key |-> Nobody, title |-> title, under |-> under])
       \/ \E i \in DOMAIN plan : plan' = [plan EXCEPT ![i].title = title]
  /\ Edit /\ UNCHANGED <<role, profile, linked>>

IntakeNext ==
  \/ \E q \in Requests : \/ Begin(q) \/ BeginPlan(q) \/ Checks(q) \/ SavesProfile(q) \/ Joins(q)
                         \/ PlanReads(q) \/ PlanWrites(q) \/ Stops(q)
  \/ EditRole \/ EditLink \/ EditProfile \/ EditPlan

----------------------------------------------------------------------------
\* However intakes and edits interleave, and wherever one stops, an account is the
\* link of one performer at most and the plan holds each row of the template once:
\* building it again changes nothing, and no building of it renames or moves a row
\* or makes one beside a member's own of its title.  An intake that ends has all its
\* performers and a whole plan; one is refused after it saved something only when
\* something else changed meanwhile (completeIntake, ensurePlan).
SetUpOnce ==
  /\ role \in [Accounts -> Roles] /\ edits \in 0..MaxEdits
  /\ \A p, r \in Performers : linked[p] \in Accounts /\ linked[p] = linked[r] => p = r
  /\ \A i, j \in DOMAIN plan : plan[i].key # Nobody =>
       /\ profile # Nobody /\ profile.complete
       /\ plan[i].key = plan[j].key => i = j
  /\ \A m \in Modes :
       LET built == Ensured(plan, m)
       IN  /\ Ensured(built, m) = built
           /\ \A i \in DOMAIN plan :
                /\ built[i].title = plan[i].title /\ built[i].under = plan[i].under
                /\ \A j \in DOMAIN built \ DOMAIN plan : [built[j] EXCEPT !.key = Nobody] # plan[i]
  /\ \A q \in Requests :
       /\ req[q].at = "done" =>
            /\ Ensured(plan, req[q].mode) = plan
            /\ \A i \in DOMAIN req[q].links : linked[q, i] # Unset
       /\ req[q].at = "refused" /\ req[q].saved => ~req[q].alone
=============================================================================
