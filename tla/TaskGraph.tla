------------------------------ MODULE TaskGraph ------------------------------
(***************************************************************************)
(* The tasks of one workspace and the prerequisites among them, as            *)
(* TasksService keeps them (create, addPrerequisite, removePrerequisite,      *)
(* patch) and as the Manager's reviewed task updates change them.            *)
(*                                                                          *)
(* addPrerequisite, the second half of patch and the Manager's update are     *)
(* Serializable transactions: each is one action, and one that loses a        *)
(* conflict is the same action taken later or not at all.  What patch reads   *)
(* before its transaction is a step of its own.                              *)
(***************************************************************************)
EXTENDS Integers, FiniteSets

CONSTANTS
  Tasks,      \* tasks there may be
  Requests,   \* patch requests that may be open at once
  Changes,    \* what a patch may ask for
  MaxDue,     \* bound: due dates are 1..MaxDue
  ScanLimit,  \* TASK_DEPENDENCY_CYCLE_SCAN_LIMIT
  Keep        \* a field the request does not mention

NoDate == 0
Dates == NoDate..MaxDue
\* todo and in_progress are both open: nothing here tells them apart.
Statuses == {"open", "blocked", "done"}

ASSUME TaskConstants ==
  /\ IsFiniteSet(Tasks)
  /\ MaxDue \in Nat
  /\ ScanLimit \in Nat
  /\ Keep \notin Statuses /\ Keep \notin Dates /\ Keep \notin BOOLEAN
  /\ Changes \subseteq [status : Statuses \union {Keep}, due : Dates \union {Keep},
                        reason : BOOLEAN \union {Keep}]

VARIABLES
  task,   \* [Tasks -> row]; reason: a blockedReason is recorded
  edges,  \* TaskDependency: <<task, prerequisite>>
  req     \* [Requests -> patch between its read and its transaction]

vars == <<task, edges, req>>

Absent == [status |-> "absent", due |-> NoDate, reason |-> FALSE]
Exists(t) == task[t].status # "absent"

Prerequisites(t) == {p \in Tasks : <<t, p>> \in edges}
Dependents(t) == {d \in Tasks : <<d, t>> \in edges}

Idle == [pc |-> "idle", id |-> Keep, status |-> "open", due |-> NoDate,
         change |-> [status |-> Keep, due |-> Keep, reason |-> Keep], unchanged |-> FALSE]

TypeOK ==
  /\ task \in [Tasks -> [status : Statuses \union {"absent"}, due : Dates, reason : BOOLEAN]]
  /\ edges \subseteq {t \in Tasks : Exists(t)} \X {t \in Tasks : Exists(t)}
  /\ req \in [Requests -> [pc : {"idle", "patch"}, id : Tasks \union {Keep}, status : Statuses, due : Dates,
                           change : Changes \union {Idle.change}, unchanged : BOOLEAN]]
  /\ \A q \in Requests : req[q].pc = "patch" => req[q].id \in {t \in Tasks : Exists(t)}

Init ==
  /\ task = [t \in Tasks |-> Absent]
  /\ edges = {}
  /\ req = [q \in Requests |-> Idle]

-----------------------------------------------------------------------------
(* Guards *)

InOrder(earlier, later) == earlier = NoDate \/ later = NoDate \/ earlier <= later

DatesFit_BelowOnly(t, due) == \A p \in Prerequisites(t) : InOrder(task[p].due, due)
DatesFit(t, due) ==
  /\ \A p \in Prerequisites(t) : InOrder(task[p].due, due)
  /\ \A d \in Dependents(t) : InOrder(due, task[d].due)

StatusFits_AsRead(t, status) == TRUE
StatusFits(t, status) ==
  /\ status = "done" => \A p \in Prerequisites(t) : task[p].status = "done"
  /\ task[t].status = "done" /\ status # "done" => \A d \in Dependents(t) : task[d].status # "done"

\* What the search from the prerequisite visits is the least set that holds it
\* and is closed under the scanned edges; there is a cycle if the task is in it.
Closed(visited, scanned) == \A e \in scanned : e[1] \in visited => e[2] \in visited

WouldCycle_Direct(t, p, scanned) == <<p, t>> \in scanned
WouldCycle(t, p, scanned) ==
  \A visited \in SUBSET Tasks : p \in visited /\ Closed(visited, scanned) => t \in visited

\* findMany with take: all edges, or as many as the limit lets through.
Scans ==
  {scanned \in SUBSET edges :
     scanned = edges \/ (Cardinality(scanned) = ScanLimit /\ ScanLimit <= Cardinality(edges))}

-----------------------------------------------------------------------------
(* TasksService *)

\* A row is written: its updatedAt is no longer what other requests have read.
Save(t, new, others) ==
  /\ task' = [task EXCEPT ![t] = new]
  /\ req' = [q \in Requests |-> [others[q] EXCEPT !.unchanged = @ /\ others[q].id # t]]

Create(t, status, due) ==
  /\ ~Exists(t)
  /\ Save(t, [status |-> status, due |-> due, reason |-> status = "blocked"], req)
  /\ UNCHANGED edges

AddPrerequisite(t, p) ==
  /\ t # p
  /\ Exists(t) /\ Exists(p)
  /\ InOrder(task[p].due, task[t].due)
  /\ task[t].status = "done" => task[p].status = "done"
  /\ <<t, p>> \notin edges
  /\ \E scanned \in Scans :
       /\ Cardinality(scanned) < ScanLimit
       /\ ~WouldCycle(t, p, scanned)
  /\ edges' = edges \union {<<t, p>>}
  /\ UNCHANGED <<task, req>>

RemovePrerequisite(t, p) ==
  /\ <<t, p>> \in edges
  /\ edges' = edges \ {<<t, p>>}
  /\ UNCHANGED <<task, req>>

Given(field, current) == IF field = Keep THEN current ELSE field

\* patch, before its transaction: what is asked for, against the row as it is.
PatchRead(q, t, change) ==
  LET status == Given(change.status, task[t].status)
      due == Given(change.due, task[t].due)
  IN /\ req[q].pc = "idle"
     /\ Exists(t)
     /\ status = "blocked" => Given(change.reason, task[t].reason)
     /\ status # "blocked" => change.reason # TRUE
     /\ StatusFits(t, status)
     /\ DatesFit(t, due)
     /\ req' = [req EXCEPT ![q] = [pc |-> "patch", id |-> t, status |-> status, due |-> due,
                                   change |-> change, unchanged |-> TRUE]]
     /\ UNCHANGED <<task, edges>>

Patched_Raw(r) ==
  [status |-> r.change.status, due |-> r.due, reason |-> FALSE]
\* Fields the request mentions, and the reason of a task that is not blocked.
Patched(r) ==
  LET row == task[r.id] IN
  [status |-> Given(r.change.status, row.status),
   due |-> Given(r.change.due, row.due),
   reason |-> IF r.status = "blocked" THEN Given(r.change.reason, row.reason) ELSE FALSE]

Unchanged_Ignored(r) == TRUE
Unchanged(r) == r.unchanged

PatchWrite(q) ==
  LET r == req[q] IN
  /\ r.pc = "patch"
  /\ StatusFits(r.id, r.status)
  /\ DatesFit(r.id, r.due)
  /\ Unchanged(r)
  /\ Save(r.id, Patched(r), [req EXCEPT ![q] = Idle])
  /\ UNCHANGED edges

\* A guard of the transaction fails, it loses a conflict, or the process dies.
GiveUp(q) ==
  /\ req[q].pc = "patch"
  /\ req' = [req EXCEPT ![q] = Idle]
  /\ UNCHANGED <<task, edges>>

-----------------------------------------------------------------------------
(* ManagerService: a reviewed update is applied only to the row that was      *)
(* reviewed, so the review and the transaction are one step.                 *)

ManagerComplete(t) ==
  /\ Exists(t)
  /\ \A p \in Prerequisites(t) : task[p].status = "done"
  /\ Save(t, [task[t] EXCEPT !.status = "done", !.reason = FALSE], req)
  /\ UNCHANGED edges

ManagerStart(t) ==
  /\ task[t].status \in {"open", "blocked"}
  /\ Save(t, [task[t] EXCEPT !.status = "open", !.reason = FALSE], req)
  /\ UNCHANGED edges

ManagerBlock(t) ==
  /\ task[t].status \in {"open", "blocked"}
  /\ Save(t, [task[t] EXCEPT !.status = "blocked", !.reason = TRUE], req)
  /\ UNCHANGED edges

ManagerReschedule(t, due) ==
  /\ task[t].status \in {"open", "blocked"}
  /\ due # NoDate => DatesFit(t, due)
  /\ Save(t, [task[t] EXCEPT !.due = due], req)
  /\ UNCHANGED edges

Manager(t) ==
  \/ ManagerComplete(t) \/ ManagerStart(t) \/ ManagerBlock(t)
  \/ \E due \in Dates : ManagerReschedule(t, due)

Next ==
  \/ \E t \in Tasks, status \in Statuses, due \in Dates : Create(t, status, due)
  \/ \E t, p \in Tasks : AddPrerequisite(t, p) \/ RemovePrerequisite(t, p)
  \/ \E q \in Requests, t \in Tasks, change \in Changes : PatchRead(q, t, change)
  \/ \E q \in Requests : PatchWrite(q) \/ GiveUp(q)
  \/ \E t \in Tasks : Manager(t)

Spec == Init /\ [][Next]_vars

-----------------------------------------------------------------------------
(* Properties *)

\* Prerequisites never form a cycle, so some open task can always be worked on:
\* no set of tasks in which each waits for another of the set
\* (docs/domain-model.md:518).
Acyclic ==
  \A knot \in (SUBSET Tasks) \ {{}} : \E t \in knot : Prerequisites(t) \intersect knot = {}

\* A prerequisite is never due after what it unlocks, however edges and dates
\* are changed at the same time (docs/domain-model.md:518).
DatesInOrder ==
  \A e \in edges : InOrder(task[e[2]].due, task[e[1]].due)

\* Finished work never stands on unfinished work (docs/domain-model.md:519).
DoneStandsOnDone ==
  \A e \in edges : task[e[1]].status = "done" => task[e[2]].status = "done"

\* What a prerequisite promises holds while it stands: however edges, dates and
\* statuses are changed at the same time, no edge joins tasks in the wrong order
\* or work that is done to work that is not (docs/domain-model.md:518).
PrerequisitesHold == DatesInOrder /\ DoneStandsOnDone

\* A task is blocked exactly when it says why, also when its status and its
\* reason are edited by two people (docs/domain-model.md:511).
BlockedSaysWhy ==
  \A t \in Tasks : task[t].status = "blocked" <=> task[t].reason
=============================================================================
