--------------------------- MODULE ManagerDecisions ---------------------------
(***************************************************************************)
(* Decisions of the band (createDecision, patchDecision, reviewDecision).  A   *)
(* request reads the row, checks what it was sent against it, and writes only   *)
(* if the row is as it read it.  Nothing writes the status `superseded`, which  *)
(* the code's messages offer.                                                   *)
(***************************************************************************)
EXTENDS Naturals

CONSTANTS
  Decisions, Senders,
  OptionLists,   \* sets of labels to choose from
  MaxVersion,    \* bound on the changes of one decision
  Nothing

DecisionConstants == MaxVersion \in Nat \ {0}

VARIABLES
  decision,   \* [Decisions -> row]; version stands for updatedAt
  advised,    \* [Decisions -> outcome of the recommendation it came from]
  req         \* [Senders -> what it was sent and the row it read]

decisionVars == <<decision, advised, req>>

NoDecision == [status |-> "absent", options |-> {}, framed |-> FALSE, choice |-> Nothing,
               grounds |-> FALSE, due |-> FALSE, version |-> 0]
NotSent == [doing |-> "nothing"]

DecisionInit ==
  /\ decision = [d \in Decisions |-> NoDecision]
  /\ advised = [d \in Decisions |-> "none"]
  /\ req = [q \in Senders |-> NotSent]

DecisionTypeOK ==
  /\ \A d \in Decisions :
       /\ decision[d].status \in {"absent", "open", "decided", "reviewed"}
       /\ decision[d].options \in OptionLists \union {{}}
       /\ decision[d].version \in 0..MaxVersion
  /\ advised \in [Decisions -> {"none", "accepted", "completed"}]

\* A choice needs its rationale, its expected result and a date to review it;
\* grounds stands for the first two.
Grounded(row) == row.framed /\ row.grounds /\ row.due
Choosable(row) == row.choice # Nothing => row.choice \in row.options /\ Grounded(row)

Create(d) ==
  /\ decision[d] = NoDecision
  /\ \E options \in OptionLists, grounds, due \in BOOLEAN :
       \E choice \in options \union {Nothing} :
         LET row == [status |-> IF choice = Nothing THEN "open" ELSE "decided", options |-> options,
                     framed |-> TRUE, choice |-> choice, grounds |-> grounds, due |-> due, version |-> 1]
         IN  Choosable(row) /\ decision' = [decision EXCEPT ![d] = row]
  /\ UNCHANGED <<advised, req>>

\* An accepted recommendation opens a decision whose options nobody reviewed yet.
Propose(d) ==
  /\ decision[d] = NoDecision
  /\ \E options \in OptionLists :
       decision' = [decision EXCEPT ![d] =
         [NoDecision EXCEPT !.status = "open", !.options = options, !.version = 1]]
  /\ advised' = [advised EXCEPT ![d] = "accepted"]
  /\ UNCHANGED req

\* The row a patch would make of the one it read, or why it makes none.  A patch
\* carries the fields it names.
Patched(row, patch) ==
  [row EXCEPT
     !.options = IF "options" \in DOMAIN patch THEN patch.options ELSE @,
     !.framed = @ \/ "options" \in DOMAIN patch,
     !.choice = IF "choice" \in DOMAIN patch THEN patch.choice ELSE @,
     !.grounds = IF "grounds" \in DOMAIN patch THEN patch.grounds ELSE @,
     !.due = IF "due" \in DOMAIN patch THEN patch.due ELSE @]

MayPatch(row, patch) ==
  /\ row.status \in {"open", "decided"}
  /\ row.status = "decided" => DOMAIN patch = {"due"}
  /\ ~(~row.framed /\ "choice" \in DOMAIN patch)
  /\ Choosable(Patched(row, patch))

Patches ==
  {[options |-> o] : o \in OptionLists} \union {[due |-> d] : d \in BOOLEAN} \union {[grounds |-> TRUE]}
    \union {[choice |-> c, grounds |-> TRUE, due |-> TRUE] : c \in UNION OptionLists}

PatchReads(q, d) ==
  /\ req[q] = NotSent
  /\ \E patch \in Patches :
       /\ MayPatch(decision[d], patch)
       /\ req' = [req EXCEPT ![q] = [doing |-> "patch", row |-> d, read |-> decision[d], patch |-> patch]]
  /\ UNCHANGED <<decision, advised>>

ReviewReads(q, d) ==
  /\ req[q] = NotSent
  /\ decision[d].status = "decided"
  /\ req' = [req EXCEPT ![q] = [doing |-> "review", row |-> d, read |-> decision[d]]]
  /\ UNCHANGED <<decision, advised>>

\* The row is as it was read: status and updatedAt are compared.
AsRead(q) ==
  LET row == decision[req[q].row]
  IN  row.status = req[q].read.status /\ row.version = req[q].read.version

Writes(q, row) ==
  /\ decision[req[q].row].version < MaxVersion
  /\ decision' = [decision EXCEPT ![req[q].row] = [row EXCEPT !.version = @ + 1]]
  /\ req' = [req EXCEPT ![q] = NotSent]

PatchWrites(q) ==
  /\ req[q].doing = "patch" /\ AsRead(q)
  /\ LET row == Patched(decision[req[q].row], req[q].patch)
     IN  Writes(q, [row EXCEPT !.status = IF row.choice = Nothing THEN @ ELSE "decided"])
  /\ UNCHANGED advised

\* One transaction: the recommendation behind the decision is completed with it.
ReviewWrites(q) ==
  /\ req[q].doing = "review" /\ AsRead(q)
  /\ Writes(q, [decision[req[q].row] EXCEPT !.status = "reviewed"])
  /\ advised' = [advised EXCEPT ![req[q].row] = IF @ = "accepted" THEN "completed" ELSE @]

Refused(q) ==
  /\ req[q] # NotSent /\ ~AsRead(q)
  /\ req' = [req EXCEPT ![q] = NotSent]
  /\ UNCHANGED <<decision, advised>>

DecisionNext ==
  \/ \E d \in Decisions : Create(d) \/ Propose(d)
  \/ \E q \in Senders, d \in Decisions : PatchReads(q, d) \/ ReviewReads(q, d)
  \/ \E q \in Senders : PatchWrites(q) \/ ReviewWrites(q) \/ Refused(q)

DecisionSpec == DecisionInit /\ [][DecisionNext]_decisionVars

----------------------------------------------------------------------------
\* A choice made is one of the options its members see, made with its grounds and a
\* date; a reviewed one leaves no recommendation behind that still waits for it.
ChosenFromOptions ==
  /\ DecisionTypeOK
  /\ \A d \in Decisions :
       /\ decision[d].status \in {"decided", "reviewed"} =>
            decision[d].choice \in decision[d].options /\ Grounded(decision[d])
       /\ decision[d].status \in {"absent", "open"} => decision[d].choice = Nothing
       /\ decision[d].status = "reviewed" => advised[d] # "accepted"

\* A choice is never taken back or exchanged, nor the options it was made from; a
\* reviewed decision does not change at all.
ChoiceStands ==
  \A d \in Decisions :
    /\ decision[d].status = "decided" =>
         /\ decision'[d].status \in {"decided", "reviewed"}
         /\ decision'[d].choice = decision[d].choice /\ decision'[d].options = decision[d].options
    /\ decision[d].status = "reviewed" => decision'[d] = decision[d]
=============================================================================
