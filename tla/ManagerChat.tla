------------------------------ MODULE ManagerChat ------------------------------
(***************************************************************************)
(* One conversation with the Manager, shared by the owner and a member.     *)
(* Calls append to it at the same time: chat() stores a question, reads     *)
(* the facts and the last turns, answers, and stores a run and a response.   *)
(* What the owner asks with full context is for owners, and a note asked to  *)
(* be remembered is as private as the fact it became; every view of the      *)
(* conversation is computed again from the rows.                             *)
(***************************************************************************)
EXTENDS Naturals, Sequences, FiniteSets

CONSTANTS
  Calls,         \* questions being asked
  Legacy,        \* the request of a turn that an older version stored
  Started,       \* how a conversation can have started, among Starts
  Questions,     \* a question: the routes that match it
  HistoryTake,   \* turns read before answering
  PageTake,      \* turns shown of a conversation
  ScanLimit,     \* rows a privacy scan reads
  MaxByHand      \* bound: changes of settings and facts and ratings by hand

Starts == {"new", "bound", "unbound", "note"}

ChatConstants ==
  /\ Started \subseteq Starts
  /\ Legacy \notin Calls /\ Questions \subseteq SUBSET STRING
  /\ {HistoryTake, PageTake, ScanLimit} \subseteq Nat \ {0} /\ MaxByHand \in Nat

VARIABLES
  settings,  \* aiEnabled and fullContextEnabled
  title,     \* turns the title of the conversation tells
  log,       \* its messages, by time
  runs,      \* runs[q]: what the answer to q was made with, and proposes
  fact,      \* fact[q]: the memory a note became
  handling,    \* handling[q]: how far request q is
  feedback,  \* who rated which response
  byHand     \* of those so far

chatVars == <<settings, title, log, runs, fact, handling, feedback, byHand>>

Askers == Calls \union {Legacy}
Views == {"normal", "owner", "provider_redacted", "provider_full"}
Insiders == {"owner", "provider_full"}

\* Routes in the order in which they claim a question; a question no route
\* claims is open, and only an open one may go to the provider.
Routes == <<"secret", "remember", "feedback", "task", "availability", "update", "assign",
            "project", "event", "context", "write", "follow_up", "desk">>
Local == {"secret", "remember"}
Captures == {"task", "availability", "update", "assign", "project", "event", "context"}

NoRun == [stored |-> FALSE, context |-> "shared", turn |-> 0, rec |-> "none", source |-> 0,
          outcome |-> "suggested", route |-> "open", tells |-> {}]
Idle == [step |-> "idle", actor |-> "member", ai |-> FALSE, full |-> FALSE, asks |-> {}, turn |-> 0,
         reply |-> NoRun, target |-> {}]

Said(role, q, ownerOnly, tells) == [role |-> role, by |-> q, ownerOnly |-> ownerOnly, tells |-> tells]

\* A turn stored before messages had a visibility: its run was made with full
\* context and names its source or not, or it is a note that names none.
OldRun(start) ==
  LET old == [NoRun EXCEPT !.stored = TRUE, !.tells = {1}, !.turn = 1] IN
  IF start = "note" THEN [old EXCEPT !.rec = "remember", !.route = "remember", !.outcome = "accepted"]
  ELSE [old EXCEPT !.context = start]

ChatInit ==
  /\ settings \in [ai : {TRUE}, full : BOOLEAN]
  /\ handling = [q \in Calls |-> Idle]
  /\ feedback = {} /\ byHand = 0
  /\ \E start \in Started :
       /\ title = IF start = "new" THEN {} ELSE {1}
       /\ log = IF start = "new" THEN <<>>
                ELSE <<Said("user", Legacy, FALSE, {1}), Said("assistant", Legacy, FALSE, {1})>>
       /\ runs = [q \in Askers |-> IF q = Legacy /\ start # "new" THEN OldRun(start) ELSE NoRun]
       /\ fact = [q \in Askers |-> IF q = Legacy /\ start = "note" THEN "normal" ELSE "none"]

----------------------------------------------------------------------------
(* What a viewer may see of the rows.                                       *)

\* The fact a decided note became, for v.
FactVisible(q, v) ==
  \/ runs[q].rec # "remember" \/ runs[q].outcome = "suggested"
  \/ fact[q] = "normal"
  \/ v = "owner" /\ fact[q] \in {"sensitive", "restricted"}
  \/ v = "provider_full" /\ fact[q] = "sensitive"

\* Whether v may see what the run of q proposes.
RecVisible(q, v) ==
  \/ runs[q].rec # "remember"
  \/ /\ runs[q].source # 0
     /\ runs[q].outcome = "suggested" => v \notin {"provider_redacted", "provider_full"}
     /\ FactVisible(q, v)

MessageVisible(m, v) == ~m.ownerOnly \/ v \in Insiders
Traced(q, v) == v \notin Insiders /\ runs[q].context # "shared"

Answers == {i \in DOMAIN log : log[i].role = "assistant"}
Turns == {i \in DOMAIN log : log[i].role = "user"}

ResponseVisible(i, v) ==
  i \in Answers /\ MessageVisible(log[i], v) /\ ~Traced(log[i].by, v) /\ RecVisible(log[i].by, v)

\* The last n messages, and those of them whose content v is shown: a response
\* is hidden with the turn its rows name, all of them when they name none.
Window(n) == {i \in DOMAIN log : i + n > Len(log)}

\* Hides the turn before a note's response.
Sources_Adjacent(W, forgotten) == {i - 1 : i \in forgotten} \ {0}
Sources(W, forgotten) == {runs[log[i].by].source : i \in forgotten}

Shown(n, v) ==
  LET W == Window(n)
      traced == {i \in W \intersect Answers : Traced(log[i].by, v)}
      asked == {runs[log[i].by].turn : i \in traced}
      forgotten == {i \in W \intersect Answers : ~RecVisible(log[i].by, v)}
      unbound == \/ \E i \in traced : runs[log[i].by].context = "unbound" \/ runs[log[i].by].turn \notin W
                 \/ \E i \in forgotten : runs[log[i].by].source = 0
  IN
  IF unbound THEN {}
  ELSE {i \in W : MessageVisible(log[i], v)} \ (traced \union asked \union forgotten \union Sources(W, forgotten))

\* A conversation with anything hidden keeps its title; so does one with more
\* rows than a scan reads (hiddenConversationIds).
ConversationHidden(v) ==
  LET notes == {i \in Answers : runs[log[i].by].rec = "remember"}
      traces == IF v \in Insiders THEN {} ELSE Answers
      private == IF v \in Insiders THEN {} ELSE {i \in DOMAIN log : log[i].ownerOnly}
  IN
  \/ \E scan \in {notes, traces, private} : Cardinality(scan) >= ScanLimit
  \/ \E i \in notes : ~RecVisible(log[i].by, v)
  \/ \E i \in traces : Traced(log[i].by, v)
  \/ private # {}

LastOf(S) == CHOOSE i \in S : \A j \in S : j <= i

\* The question shown beside a response that is up for review: the source of a
\* note, else the last turn before it (responseReviewCandidates).
Reviews(v) ==
  LET open == {i \in Turns : v \in Insiders \/ ~log[i].ownerOnly}
      before(i) == {j \in open : j < i}
      question(i) == LET run == runs[log[i].by] IN
                     IF run.rec = "remember" THEN before(i) \intersect {run.source}
                     ELSE IF before(i) = {} THEN {} ELSE {LastOf(before(i))}
  IN
  IF ConversationHidden(v) THEN {}
  ELSE UNION {{<<j, i>> : j \in question(i)} :
         i \in {i \in Answers : /\ v \in Insiders \/ ~log[i].ownerOnly
                                /\ runs[log[i].by].route # "feedback"
                                /\ RecVisible(log[i].by, v)}}

\* Runs whose proposal counts in the summaries and receipts shown to v.
RunVisible(q, v) == \/ v \in Insiders
                    \/ /\ runs[q].context = "shared"
                       /\ \A i \in Answers : log[i].by = q => ~log[i].ownerOnly
Summarized(v) == {q \in Askers : /\ runs[q].stored /\ runs[q].rec # "none"
                                 /\ RunVisible(q, v) /\ FactVisible(q, v)}

----------------------------------------------------------------------------
(* chat().                                                                  *)

RouteOf(asks) ==
  LET matched == {i \in DOMAIN Routes : Routes[i] \in asks} IN
  IF matched = {} THEN "open" ELSE Routes[CHOOSE i \in matched : \A j \in matched : i <= j]

FullContext(actor) == actor = "owner" /\ settings.ai /\ settings.full

\* The settings are read before the question is stored.
Begin(q) ==
  /\ handling[q].step = "idle"
  /\ \E actor \in {"owner", "member"}, asks \in Questions :
       handling' = [handling EXCEPT ![q] =
         [Idle EXCEPT !.step = "begun", !.actor = actor, !.asks = asks, !.ai = settings.ai,
                      !.full = FullContext(actor)]]
  /\ UNCHANGED <<settings, title, log, runs, fact, feedback, byHand>>

\* The response is as private as its author's role.
OwnerOnly_Actor(q) == handling[q].actor = "owner"
\* The turn is visible to the team.
OwnerOnly_Team(q) == FALSE
OwnerOnly(q) == handling[q].full

\* A question with a secret is stored without it, and a note never is a title.
Store(q) ==
  LET turn == Len(log) + 1
      kept == IF RouteOf(handling[q].asks) = "secret" THEN {} ELSE {turn}
  IN
  /\ handling[q].step = "begun"
  /\ log' = Append(log, Said("user", q, OwnerOnly(q), kept))
  /\ title' = IF log = <<>> /\ RouteOf(handling[q].asks) \notin Local THEN kept ELSE title
  /\ handling' = [handling EXCEPT ![q].step = "stored", ![q].turn = turn]
  /\ UNCHANGED <<settings, runs, fact, feedback, byHand>>

\* What the history is read as: by the role of the actor.
Reasoning_Actor(q) == IF handling[q].actor = "owner" THEN "owner" ELSE "normal"
\* By the privacy of the turn, not by the role (managerConversationReasoningVisibility).
Reasoning(q) == IF handling[q].full THEN "owner" ELSE "normal"
ProviderView(q) == IF handling[q].full THEN "provider_full" ELSE "provider_redacted"

\* The turn that was read last.
OwnTurn_Recent(q) == IF Turns = {} THEN 0 ELSE LastOf(Turns)
\* A proposal is bound to the stored turn.
OwnTurn(q) == handling[q].turn

\* A follow-up is about the one proposal of the response read last, if that is shown.
Continued(q) ==
  LET answers == Window(HistoryTake) \intersect Answers IN
  {i \in answers \intersect Shown(HistoryTake, Reasoning(q)) :
     i = LastOf(answers) /\ runs[log[i].by].rec # "none"}

\* A rating is of the last but one message read, if that is a response.
Rated == {LastOf(Window(HistoryTake)) - 1} \intersect Window(HistoryTake) \intersect Answers

Reply(q, route) ==
  LET base == [NoRun EXCEPT !.context = IF handling[q].full THEN "bound" ELSE "shared",
                            !.turn = OwnTurn(q), !.route = route, !.tells = log[handling[q].turn].tells]
  IN
  CASE route \in {"secret", "write", "feedback"} -> {base}
    [] route = "remember" -> {base, [base EXCEPT !.rec = "remember", !.source = OwnTurn(q)]}
    [] route \in Captures -> {base, [base EXCEPT !.rec = "capture", !.source = OwnTurn(q)]}
    [] route = "follow_up" ->
         IF Continued(q) = {} THEN {base}
         ELSE {[base EXCEPT !.tells = @ \union log[i].tells, !.rec = "advice"] : i \in Continued(q)}
    [] route = "desk" -> {base, [base EXCEPT !.rec = "advice"]}
    [] OTHER -> \* the provider's answer, or the one given when it fails or is refused
         {base, [base EXCEPT !.rec = "advice"]} \union
           (IF handling[q].ai
            THEN {[base EXCEPT !.tells = @ \union UNION {log[i].tells : i \in Shown(HistoryTake, ProviderView(q))},
                               !.rec = r] : r \in {"none", "advice"}}
            ELSE {})

ReadTurns(q) ==
  LET rated == IF "feedback" \in handling[q].asks THEN Rated ELSE {} IN
  /\ handling[q].step = "stored"
  /\ \E reply \in Reply(q, RouteOf(handling[q].asks)) :
       handling' = [handling EXCEPT ![q].reply = reply, ![q].target = rated,
                                ![q].step = IF rated = {} THEN "read" ELSE "rating"]
  /\ UNCHANGED <<settings, title, log, runs, fact, feedback, byHand>>

RoleView(actor) == IF actor = "owner" THEN "owner" ELSE "normal"

\* The request fails when the response was hidden from the actor meanwhile.
Rate(q) ==
  /\ handling[q].step = "rating"
  /\ IF \A i \in handling[q].target : ResponseVisible(i, RoleView(handling[q].actor))
     THEN /\ feedback' = feedback \union {<<handling[q].actor, i>> : i \in handling[q].target}
          /\ handling' = [handling EXCEPT ![q].step = "read"]
     ELSE /\ handling' = [handling EXCEPT ![q].step = "failed"]
          /\ UNCHANGED feedback
  /\ UNCHANGED <<settings, title, log, runs, fact, byHand>>

\* The run and its proposal, then the response: a crash between them leaves the run.
StoreRun(q) ==
  /\ handling[q].step = "read"
  /\ runs' = [runs EXCEPT ![q] = [handling[q].reply EXCEPT !.stored = TRUE]]
  /\ handling' = [handling EXCEPT ![q].step = "run", ![q].reply = NoRun]
  /\ UNCHANGED <<settings, title, log, fact, feedback, byHand>>

Respond(q) ==
  /\ handling[q].step = "run"
  /\ log' = Append(log, Said("assistant", q, OwnerOnly(q), runs[q].tells))
  /\ handling' = [handling EXCEPT ![q].step = "answered"]
  /\ UNCHANGED <<settings, title, runs, fact, feedback, byHand>>

----------------------------------------------------------------------------
(* The other handlers.                                                      *)

\* messageFeedback from the page.
RateShown(actor, i) ==
  /\ byHand < MaxByHand /\ byHand' = byHand + 1
  /\ ResponseVisible(i, RoleView(actor)) /\ <<actor, i>> \notin feedback
  /\ feedback' = feedback \union {<<actor, i>>}
  /\ UNCHANGED <<settings, title, log, runs, fact, handling>>

\* Accepting a note makes it a fact; a legacy note has no button.
DecideProposal(q) ==
  /\ runs[q].stored /\ runs[q].rec # "none" /\ runs[q].outcome = "suggested"
  /\ \E outcome \in {"accepted", "dismissed"} :
       /\ runs' = [runs EXCEPT ![q].outcome = outcome]
       /\ fact' = IF runs[q].rec = "remember" /\ outcome = "accepted"
                  THEN [fact EXCEPT ![q] = "normal"] ELSE fact
  /\ UNCHANGED <<settings, title, log, handling, feedback, byHand>>

\* A member archives or restores a normal fact; sensitivity is the owner's.
PatchMemory(q) ==
  /\ byHand < MaxByHand /\ byHand' = byHand + 1
  /\ fact[q] # "none"
  /\ \E f \in {"normal", "sensitive", "restricted", "archived"} \ {fact[q]} : fact' = [fact EXCEPT ![q] = f]
  /\ UNCHANGED <<settings, title, log, runs, handling, feedback>>

\* Without AI there is no full context.
UpdateSettings ==
  /\ byHand < MaxByHand /\ byHand' = byHand + 1
  /\ settings' \in {[ai |-> FALSE, full |-> FALSE], [settings EXCEPT !.ai = TRUE],
                    [settings EXCEPT !.full = ~@]} \ {settings}
  /\ UNCHANGED <<title, log, runs, fact, handling, feedback>>

ChatNext ==
  \/ \E q \in Calls : Begin(q) \/ Store(q) \/ ReadTurns(q) \/ Rate(q) \/ StoreRun(q) \/ Respond(q)
  \/ \E actor \in {"owner", "member"}, i \in Answers : RateShown(actor, i)
  \/ \E q \in Askers : DecideProposal(q) \/ PatchMemory(q)
  \/ UpdateSettings

ChatSpec == ChatInit /\ [][ChatNext]_chatVars

----------------------------------------------------------------------------
(* Properties.                                                              *)

ChatTypeOK ==
  /\ settings \in [ai : BOOLEAN, full : BOOLEAN]
  /\ \A i \in DOMAIN log : log[i].by \in Askers /\ log[i].tells \subseteq DOMAIN log
  /\ \A q \in Askers : fact[q] \in {"none", "normal", "sensitive", "restricted", "archived"}
  /\ feedback \subseteq {"owner", "member"} \X Answers
  /\ byHand \in 0..MaxByHand

\* The turns the owner asked with full context, and the turn each note was.
PrivateTurns == {i \in Turns : IF log[i].by = Legacy THEN runs[Legacy].context # "shared"
                               ELSE handling[log[i].by].full}
TurnOf(q) == {i \in Turns : log[i].by = q}

\* Whatever requests run at once, whatever is switched and wherever a request
\* dies, no message, title, question under review or summarized proposal that a
\* member or the redacted provider is given tells what the owner asked with full
\* context, nor does an answer made from it (projectManagerConversationMessages,
\* hiddenConversationIds, responseReviewCandidates, learningSummary).
OwnerTurnsPrivate ==
  /\ \A n \in {1, PageTake, HistoryTake}, v \in {"normal", "provider_redacted"} :
       \A i \in Shown(n, v) : log[i].tells \intersect PrivateTurns = {}
  /\ ~ConversationHidden("normal") => title \intersect PrivateTurns = {}
  /\ \A p \in Reviews("normal") : (log[p[1]].tells \union log[p[2]].tells) \intersect PrivateTurns = {}
  /\ \A q \in Summarized("normal") : runs[q].tells \intersect PrivateTurns = {}

\* A note and the turn that asked for it are shown and hidden as one, and under
\* review it stands beside that turn, however many turns came between them.
NoteIsOneUnit ==
  \A i \in Answers : LET q == log[i].by IN
    runs[q].rec = "remember" =>
      /\ \A n \in {PageTake, HistoryTake}, v \in Views :
           i \in Window(n) /\ ~RecVisible(q, v) => (TurnOf(q) \union {i}) \intersect Shown(n, v) = {}
      /\ \A v \in Views : \A p \in Reviews(v) : p[2] = i => p[1] \in TurnOf(q)

\* A member rates no response that was made for the owner.
RatedWasShown == \A p \in feedback : p[1] = "member" => log[p[2]].tells \intersect PrivateTurns = {}

\* What the owner asked in private and a note that is not shared are told to
\* nobody else (projectManagerConversationMessages, responseReviewCandidates).
ChatPrivate == OwnerTurnsPrivate /\ NoteIsOneUnit /\ RatedWasShown
=============================================================================
