--------------------------- MODULE ManagerKnowledge ---------------------------
(***************************************************************************)
(* What the Manager knows of the band: the operating profile, the facts kept  *)
(* beside it, and the assessment of both (manager-knowledge-health.ts).  The   *)
(* profile is the authority for some facts and every save of it writes them    *)
(* again in the same transaction.  An assessment reads the profile and the     *)
(* facts with two queries that do not see one snapshot.                        *)
(***************************************************************************)
EXTENDS Integers, FiniteSets

CONSTANTS
  Backed,      \* keys the profile is the authority for
  Notes,       \* keys of facts a member asked to remember
  Values,
  Review,      \* Review[k]: how long a confirmation of k stands
  MaxNow, MaxEdits,   \* bounds
  Nothing

FactKeys == Backed \union Notes

KnowledgeConstants ==
  /\ Backed \intersect Notes = {}
  /\ Review \in [FactKeys -> Nat]
  /\ {MaxNow, MaxEdits} \subseteq Nat

VARIABLES
  profile,   \* [value, at] or Nothing
  fact,      \* [FactKeys -> row or Nothing]
  patch,     \* a patch of a fact that has read the row it will write
  check,     \* an assessment in flight: what it read, after how many edits
  saved,     \* the profile was saved by this code
  now, edits

knowledgeVars == <<profile, fact, patch, check, saved, now, edits>>

Fact(value, sure, confirmed, archived, sensitive) ==
  [value |-> value, sure |-> sure, confirmed |-> confirmed, archived |-> archived, sensitive |-> sensitive]
Profile(value) == [value |-> value, at |-> now]
NoCheck == [profile |-> Nothing, facts |-> Nothing, read |-> [profile |-> -1, facts |-> -1]]

KnowledgeTypeOK ==
  LET rows == [value : Values, sure : BOOLEAN, confirmed : 0..MaxNow, archived : BOOLEAN, sensitive : BOOLEAN]
  IN  /\ profile \in [value : [Backed -> Values], at : 1..MaxNow] \union {Nothing}
      /\ \A k \in FactKeys : fact[k] \in rows \union {Nothing}
      /\ now \in 1..MaxNow /\ edits \in 0..MaxEdits

\* A database may be older than the rule that the profile writes its facts.
KnowledgeInit ==
  /\ now = 1
  /\ profile \in {Nothing} \union {Profile([k \in Backed |-> v]) : v \in Values}
  /\ \E old \in [Backed -> {Nothing} \union {Fact(v, sure, at, FALSE, FALSE) :
                             v \in Values, sure \in BOOLEAN, at \in {0, 1}}] :
       fact = [k \in FactKeys |-> IF k \in Backed THEN old[k] ELSE Nothing]
  /\ patch = Nothing /\ check = NoCheck /\ saved = FALSE /\ edits = 0

----------------------------------------------------------------------------
(* Writes                                                                   *)

Edits == edits < MaxEdits /\ edits' = edits + 1 /\ UNCHANGED <<check, now>>

Sensitive(k) == fact[k] # Nothing /\ fact[k].sensitive

\* What a save of the profile makes of the facts; it keeps their sensitivity.
ProfileFacts(value) ==
  [k \in FactKeys |-> IF k \in Backed THEN Fact(value[k], TRUE, now, FALSE, Sensitive(k)) ELSE fact[k]]

SaveProfile(value) ==
  /\ profile' = Profile(value)
  /\ fact' = ProfileFacts(value)
  /\ saved' = TRUE
  /\ Edits /\ UNCHANGED patch

PutProfile == \E value \in [Backed -> Values] : SaveProfile(value)

\* An accepted answer to a question about the band changes one field.
AnswerContext ==
  /\ profile # Nothing
  /\ \E k \in Backed, v \in Values : SaveProfile([profile.value EXCEPT ![k] = v])

RememberFact(k) ==
  /\ k \in Notes
  /\ fact[k] # Nothing => ~fact[k].sensitive /\ ~fact[k].archived
  /\ \E v \in Values : fact' = [fact EXCEPT ![k] = Fact(v, TRUE, now, FALSE, FALSE)]
  /\ Edits /\ UNCHANGED <<profile, patch, saved>>

MayPatch(k, owner) == k \notin Backed /\ (owner \/ ~fact[k].sensitive)

PatchReads(k) ==
  /\ patch = Nothing /\ fact[k] # Nothing
  /\ \E owner \in BOOLEAN : MayPatch(k, owner) /\ patch' = [key |-> k, owner |-> owner]
  /\ UNCHANGED <<profile, fact, check, saved, now, edits>>

\* The row is written by its id: what became of it since it was read is kept.
PatchWrites ==
  /\ patch # Nothing
  /\ LET k == patch.key
         row == fact[k]
     IN  \/ \E v \in Values : fact' = [fact EXCEPT ![k].value = v, ![k].sure = TRUE, ![k].confirmed = now]
         \/ \E at \in {0, now} : fact' = [fact EXCEPT ![k].confirmed = at]
         \/ fact' = [fact EXCEPT ![k].archived = ~row.archived]
         \/ patch.owner /\ fact' = [fact EXCEPT ![k].sensitive = ~row.sensitive]
  /\ patch' = Nothing
  /\ Edits /\ UNCHANGED <<profile, saved>>

----------------------------------------------------------------------------
(* An assessment (deterministicManagerKnowledgeHealth)                      *)

\* Owners see sensitive facts too.
Facts(owner) ==
  {k \in FactKeys : fact[k] # Nothing /\ ~fact[k].archived /\ (owner \/ ~fact[k].sensitive)}

CheckReadsProfile ==
  /\ check.read.profile < 0
  /\ check' = [check EXCEPT !.profile = profile, !.read.profile = edits]
  /\ UNCHANGED <<profile, fact, patch, saved, now, edits>>

CheckReadsFacts ==
  /\ check.read.facts < 0
  /\ \E owner \in BOOLEAN :
       check' = [check EXCEPT !.facts = [k \in Facts(owner) |-> fact[k]], !.read.facts = edits]
  /\ UNCHANGED <<profile, fact, patch, saved, now, edits>>

Assessed == check.read.profile >= 0 /\ check.read.facts >= 0
CheckEnds == Assessed /\ check' = NoCheck /\ UNCHANGED <<profile, fact, patch, saved, now, edits>>

Tick == now < MaxNow /\ now' = now + 1 /\ UNCHANGED <<profile, fact, patch, check, saved, edits>>

KnowledgeNext ==
  \/ PutProfile \/ AnswerContext \/ PatchWrites
  \/ \E k \in FactKeys : RememberFact(k) \/ PatchReads(k)
  \/ CheckReadsProfile \/ CheckReadsFacts \/ CheckEnds
  \/ Tick

Ranked(k) == k \in Backed /\ check.profile # Nothing

StateOf(k, row) ==
  IF Ranked(k) /\ row.value # check.profile.value[k] THEN "conflicted"
  ELSE IF row.confirmed = 0 THEN "unconfirmed"
  ELSE IF ~row.sure THEN "low_confidence"
  ELSE IF now - row.confirmed > Review[k] THEN "stale"
  ELSE "current"

InState(facts, state) == {k \in DOMAIN facts : StateOf(k, facts[k]) = state}
Doubtful == <<"conflicted", "unconfirmed", "low_confidence", "stale">>
Deduction == <<35, 25, 20, 15>>

Score(facts) ==
  LET lost(i) == Deduction[i] * Cardinality(InState(facts, Doubtful[i]))
      left == 100 - lost(1) - lost(2) - lost(3) - lost(4)
  IN  IF DOMAIN facts = {} THEN 60 ELSE IF left < 0 THEN 0 ELSE left

Status(facts) ==
  IF InState(facts, "conflicted") # {} THEN "conflicted"
  ELSE IF DOMAIN facts = {} \/ InState(facts, "current") # DOMAIN facts THEN "attention"
  ELSE "healthy"

\* The facts to look at next: those of the first doubtful state there is.
NextFacts(facts) ==
  LET there == {i \in DOMAIN Doubtful : InState(facts, Doubtful[i]) # {}}
  IN  IF there = {} THEN {} ELSE InState(facts, Doubtful[CHOOSE i \in there : \A j \in there : i <= j])

\* What the Manager reasons from: the profile, wherever it is the authority.
ForReasoning(facts) ==
  [k \in DOMAIN facts |->
     IF Ranked(k) THEN [facts[k] EXCEPT !.value = check.profile.value[k], !.sure = TRUE,
                                        !.confirmed = check.profile.at]
     ELSE facts[k]]

----------------------------------------------------------------------------
\* Once this code has saved the profile the facts it is the authority for say the
\* same, and only an assessment that an edit fell into can see them disagree; the
\* Manager never reasons from a fact that does.  An assessment is healthy exactly
\* when it finds nothing to look at, and only then does it score full marks.
KnowledgeTold ==
  /\ saved => \A k \in Backed : fact[k] # Nothing /\ fact[k].value = profile.value[k] /\ ~fact[k].archived
  /\ Assessed =>
       LET facts == check.facts
       IN  /\ saved /\ check.read = [profile |-> edits, facts |-> edits] => Status(facts) # "conflicted"
           /\ Status(ForReasoning(facts)) # "conflicted"
           /\ Status(facts) = "healthy" <=> Score(facts) = 100
           /\ Status(facts) = "healthy" <=> NextFacts(facts) = {} /\ DOMAIN facts # {}
           /\ Status(facts) = "conflicted" => Score(facts) <= 65 /\ NextFacts(facts) \subseteq Backed
=============================================================================
