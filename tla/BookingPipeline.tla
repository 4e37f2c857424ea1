--------------------------- MODULE BookingPipeline ---------------------------
(***************************************************************************)
(* From a lead to a show: prospects and their conversion                    *)
(* (booking-prospects.service.ts), the stages of an opportunity             *)
(* (booking-opportunities.service.ts), the replies whose terms are applied  *)
(* to it (booking-replies.service.ts) and the approved confirmation of a    *)
(* reply (finalizeBookingReplyConfirmation of approvals.service.ts).        *)
(*                                                                          *)
(* A Serializable transaction is one step. A transaction at the default     *)
(* isolation reads in one step and writes in another.                       *)
(***************************************************************************)
EXTENDS Naturals, FiniteSets

CONSTANTS
  Opportunities, Prospects, Replies,
  Requests,     \* requests of members under way
  Proposals,    \* terms an analysis may find in a reply
  StagesAsked,  \* the stages requests ask for
  Nothing       \* null

Stages == <<"target", "outreach", "conversation", "offer", "hold", "confirmed", "closed">>
Terms == Proposals \union {Nothing}
Links == Opportunities \union {Nothing}
StatusesAsked == {"discovered", "qualified", "disqualified"}

PipelineConstants ==
  /\ Nothing \notin Opportunities \union Proposals
  /\ StagesAsked \subseteq {Stages[i] : i \in DOMAIN Stages}

VARIABLES
  opp,       \* opp[o]: stage ("absent": no row), terms: fee, currency and conditions
  show,      \* the BandEvent of o: "none", with pipeline details, or edited since
  prospect,  \* prospect[p]: status and opportunityId
  reply,     \* reply[r]: opportunityId, analysis, termsAppliedAt
  confirm,   \* confirm[r]: the approval that confirms r
  req,       \* req[q]: what request q has read
  spawned    \* history: opportunities conversion made of p since it was last relinked

bookingVars == <<opp, show, prospect, reply, confirm, req, spawned>>

NoRow == [stage |-> "absent", terms |-> Nothing]
Exists(o) == opp[o].stage # "absent"
Existing == {o \in Opportunities : Exists(o)}
Idle == [kind |-> "idle"]
Available(q) == req[q] = Idle
Done(q) == [req EXCEPT ![q] = Idle]

BookingInit ==
  /\ opp = [o \in Opportunities |-> NoRow]
  /\ show = [o \in Opportunities |-> "none"]
  /\ prospect = [p \in Prospects |-> [status |-> "absent", link |-> Nothing]]
  /\ reply = [r \in Replies |-> [found |-> FALSE, link |-> Nothing, analyzed |-> FALSE,
                                 terms |-> Nothing, applied |-> FALSE]]
  /\ confirm = [r \in Replies |-> "none"]
  /\ req = [q \in Requests |-> Idle]
  /\ spawned = [p \in Prospects |-> {}]

\* updatedAt of o moves: whoever reviewed the row before is out of date.
Outdated(o, requests) ==
  [q \in Requests |-> IF requests[q].kind = "stage" /\ requests[q].opp = o
                      THEN [requests[q] EXCEPT !.fresh = FALSE] ELSE requests[q]]

-----------------------------------------------------------------------------
(* Opportunities *)

Rank(stage) == CHOOSE i \in DOMAIN Stages : Stages[i] = stage

\* nextBookingStages: forward only, but for an offer reopened from a hold.
NextStages(stage) ==
  {s \in StagesAsked : Rank(s) > Rank(stage)} \union IF stage = "hold" THEN {"offer"} ELSE {}

CreateOpportunity(o, stage) ==
  /\ ~Exists(o)
  /\ opp' = [opp EXCEPT ![o].stage = stage]
  /\ UNCHANGED <<show, prospect, reply, confirm, req, spawned>>

PatchOpportunity(o) ==
  /\ Exists(o)
  /\ req' = Outdated(o, req)
  /\ UNCHANGED <<opp, show, prospect, reply, confirm, spawned>>

\* A member reviews the row and asks for a stage.
ReviewStage(q, o, stage) ==
  /\ Available(q) /\ Exists(o)
  /\ req' = [req EXCEPT ![q] = [kind |-> "stage", opp |-> o, stage |-> stage, fresh |-> TRUE]]
  /\ UNCHANGED <<opp, show, prospect, reply, confirm, spawned>>

UpdateStage(q) ==
  /\ req[q].kind = "stage"
  /\ LET o == req[q].opp  stage == req[q].stage
     IN  IF req[q].fresh /\ stage \in NextStages(opp[o].stage)
         THEN /\ opp' = [opp EXCEPT ![o].stage = stage]
              /\ show' = IF stage = "confirmed" /\ show[o] = "none"
                         THEN [show EXCEPT ![o] = "pipeline"] ELSE show
              /\ req' = Outdated(o, Done(q))
         ELSE req' = Done(q) /\ UNCHANGED <<opp, show>>
  /\ UNCHANGED <<prospect, reply, confirm, spawned>>

\* patchEvent of operations.service.ts, and the upsert of eventFromOpportunity.
EditShow(o) ==
  /\ show[o] # "none"
  /\ show' = [show EXCEPT ![o] = "edited"]
  /\ UNCHANGED <<opp, prospect, reply, confirm, req, spawned>>

EventFromOpportunity(o) ==
  /\ Exists(o) /\ show[o] = "none"
  /\ show' = [show EXCEPT ![o] = "pipeline"]
  /\ UNCHANGED <<opp, prospect, reply, confirm, req, spawned>>

-----------------------------------------------------------------------------
(* Prospects *)

CreateProspect(p, status, link) ==
  /\ prospect[p].status = "absent"
  /\ prospect' = [prospect EXCEPT ![p] = [status |-> status, link |-> link]]
  /\ UNCHANGED <<opp, show, reply, confirm, req, spawned>>

\* patch reads the row, checks, and writes whatever the row has become.
PatchProspect(q, p, field, value) ==
  /\ Available(q) /\ prospect[p].status # "absent"
  /\ field = "status" => prospect[p].status # "converted"
  /\ req' = [req EXCEPT ![q] = [kind |-> "patch", prospect |-> p, field |-> field, value |-> value]]
  /\ UNCHANGED <<opp, show, prospect, reply, confirm, spawned>>

\* createProspectFromVenue of a venue that has one: it is linked if it is not.
LinkVenueProspect(q, p, o) ==
  /\ prospect[p].link = Nothing
  /\ PatchProspect(q, p, "link", o)

WriteProspect(q) ==
  /\ req[q].kind = "patch"
  /\ prospect' = [prospect EXCEPT ![req[q].prospect] =
       IF req[q].field = "status" THEN [@ EXCEPT !.status = req[q].value]
                                  ELSE [@ EXCEPT !.link = req[q].value]]
  /\ spawned' = IF req[q].field = "link" THEN [spawned EXCEPT ![req[q].prospect] = {}] ELSE spawned
  /\ req' = Done(q)
  /\ UNCHANGED <<opp, show, reply, confirm>>

AskConversion(q, p) ==
  /\ Available(q) /\ prospect[p].status \in {"qualified", "converted"}
  /\ req' = [req EXCEPT ![q] = [kind |-> "convert", prospect |-> p]]
  /\ UNCHANGED <<opp, show, prospect, reply, confirm, spawned>>

Converting(p) == {q \in Requests : req[q].kind = "locked" /\ req[q].prospect = p}

\* Mistake: the conversions of a prospect do not wait for one another.
LockFree_Always(p) == TRUE

\* pg_advisory_xact_lock.
LockFree(p) == Converting(p) = {}

LockAndRead(q) ==
  /\ req[q].kind = "convert" /\ LockFree(req[q].prospect)
  /\ LET p == req[q].prospect
     IN  req' = [req EXCEPT ![q] = [kind |-> "locked", prospect |-> p, saw |-> prospect[p]]]
  /\ UNCHANGED <<opp, show, prospect, reply, confirm, spawned>>

Convert(q) ==
  /\ req[q].kind = "locked"
  /\ LET p == req[q].prospect  saw == req[q].saw
         Becomes(o) == prospect' = [prospect EXCEPT ![p] = [status |-> "converted", link |-> o]]
     IN  \/ /\ saw.status = "converted" /\ saw.link # Nothing
            /\ UNCHANGED <<opp, prospect, spawned>>
         \/ /\ saw.status # "converted" /\ saw.link # Nothing
            /\ Becomes(saw.link)
            /\ UNCHANGED <<opp, spawned>>
         \/ /\ saw.link = Nothing
            /\ \E o \in Opportunities \ Existing :
                 /\ opp' = [opp EXCEPT ![o].stage = "target"]
                 /\ Becomes(o)
                 /\ spawned' = [spawned EXCEPT ![p] = @ \union {o}]
  /\ req' = Done(q)
  /\ UNCHANGED <<show, reply, confirm>>

-----------------------------------------------------------------------------
(* Replies *)

\* sync: a message is stored once, with the opportunity of its recipient.
Detect(r, link) ==
  /\ ~reply[r].found
  /\ reply' = [reply EXCEPT ![r].found = TRUE, ![r].link = link]
  /\ UNCHANGED <<opp, show, prospect, confirm, req, spawned>>

Analyze(r, terms) ==
  /\ reply[r].found
  /\ reply' = [reply EXCEPT ![r].analyzed = TRUE, ![r].terms = terms]
  /\ UNCHANGED <<opp, show, prospect, confirm, req, spawned>>

AskTerms(q, r) ==
  /\ Available(q) /\ reply[r].analyzed /\ ~reply[r].applied /\ reply[r].link # Nothing
  /\ req' = [req EXCEPT ![q] = [kind |-> "terms", reply |-> r]]
  /\ UNCHANGED <<opp, show, prospect, reply, confirm, spawned>>

\* mergeAppliedBookingTerms keeps what the analysis left out.
Merged(recorded, proposed) == IF proposed = Nothing THEN recorded ELSE proposed

\* Mistake: the transaction trusts the reply as it was read before it began.
MayApply(r) == ~reply[r].applied /\ opp[reply[r].link].stage # "closed"

ApplyTerms(q) ==
  /\ req[q].kind = "terms"
  /\ LET r == req[q].reply  o == reply[r].link
     IN  IF MayApply(r)
         THEN /\ opp' = [opp EXCEPT ![o].terms = Merged(@, reply[r].terms)]
              /\ reply' = [reply EXCEPT ![r].applied = TRUE]
              /\ req' = Outdated(o, Done(q))
         ELSE req' = Done(q) /\ UNCHANGED <<opp, reply>>
  /\ UNCHANGED <<show, prospect, confirm, spawned>>

-----------------------------------------------------------------------------
(* The confirmation of a reply: one approval per reply and opportunity. *)

Confirmable(r) ==
  reply[r].applied /\ reply[r].link # Nothing /\ opp[reply[r].link].stage # "closed"

PrepareConfirmation(r) ==
  /\ confirm[r] = "none" /\ Confirmable(r)
  /\ confirm' = [confirm EXCEPT ![r] = "prepared"]
  /\ UNCHANGED <<opp, show, prospect, reply, req, spawned>>

ReadConfirmation(r) ==
  /\ confirm[r] = "prepared"
  /\ confirm' = [confirm EXCEPT ![r] =
       IF ~Confirmable(r) THEN "failed"
       ELSE IF opp[reply[r].link].stage = "confirmed" THEN "was_confirmed" ELSE "confirming"]
  /\ UNCHANGED <<opp, show, prospect, reply, req, spawned>>

\* The upsert writes the show with the details of the opportunity.
WriteConfirmation(r) ==
  /\ confirm[r] \in {"was_confirmed", "confirming"}
  /\ LET o == reply[r].link
     IN  /\ opp' = IF confirm[r] = "confirming" THEN [opp EXCEPT ![o].stage = "confirmed"] ELSE opp
         /\ req' = IF confirm[r] = "confirming" THEN Outdated(o, req) ELSE req
         /\ show' = [show EXCEPT ![o] = "pipeline"]
  /\ confirm' = [confirm EXCEPT ![r] = "executed"]
  /\ UNCHANGED <<prospect, reply, spawned>>

\* The transaction aborts: the approval fails, and fails for good.
AbortConfirmation(r) ==
  /\ confirm[r] \in {"was_confirmed", "confirming"}
  /\ confirm' = [confirm EXCEPT ![r] = "failed"]
  /\ UNCHANGED <<opp, show, prospect, reply, req, spawned>>

-----------------------------------------------------------------------------
\* A request is refused, loses a conflict, or its process dies.
GiveUp(q) ==
  /\ ~Available(q)
  /\ req' = Done(q)
  /\ UNCHANGED <<opp, show, prospect, reply, confirm, spawned>>

OnOpportunities ==
  \/ \E o \in Opportunities :
       \/ \E stage \in StagesAsked : CreateOpportunity(o, stage)
       \/ PatchOpportunity(o) \/ EditShow(o) \/ EventFromOpportunity(o)
       \/ \E q \in Requests, stage \in StagesAsked : ReviewStage(q, o, stage)
  \/ \E q \in Requests : UpdateStage(q) \/ GiveUp(q)

OnProspects ==
  \/ \E p \in Prospects, link \in Existing \union {Nothing} :
       \/ \E status \in StatusesAsked : CreateProspect(p, status, link)
       \/ \E q \in Requests : PatchProspect(q, p, "link", link)
  \/ \E q \in Requests, p \in Prospects :
       \/ \E status \in StatusesAsked : PatchProspect(q, p, "status", status)
       \/ \E o \in Existing : LinkVenueProspect(q, p, o)
       \/ AskConversion(q, p)
  \/ \E q \in Requests : WriteProspect(q) \/ LockAndRead(q) \/ Convert(q)

OnReplies ==
  \/ \E r \in Replies :
       \/ \E link \in Existing \union {Nothing} : Detect(r, link)
       \/ \E terms \in Terms : Analyze(r, terms)
       \/ PrepareConfirmation(r) \/ ReadConfirmation(r) \/ WriteConfirmation(r)
       \/ AbortConfirmation(r)
  \/ \E q \in Requests : ApplyTerms(q) \/ \E r \in Replies : AskTerms(q, r)

BookingNext == OnOpportunities \/ OnProspects \/ OnReplies
BookingSpec == BookingInit /\ [][BookingNext]_bookingVars

-----------------------------------------------------------------------------
(* Properties *)

\* Conversion is idempotent (docs/domain-model.md:484): whatever races, it makes
\* one opportunity of a prospect, and another one only after a member relinked it.
ConvertedOnce == \A p \in Prospects : Cardinality(spawned[p]) <= 1

\* The terms of an opportunity move only when those of a reply are applied: once
\* per reply, by what its analysis says at that moment, and never once closed
\* (docs/domain-model.md:466).
AppliesOnce == \A o \in Opportunities :
  opp'[o].terms # opp[o].terms =>
    /\ opp[o].stage # "closed"
    /\ \E r \in Replies : /\ reply[r].link = o
                          /\ ~reply[r].applied /\ reply'[r].applied
                          /\ opp'[o].terms = reply[r].terms
\* "The same recorded-stage policy is used by the pipeline and its write boundary"
\* (packages/shared/src/booking-stage-review.ts:19): nothing follows "closed".
ClosedStaysClosed == [][\A o \in Opportunities :
  opp[o].stage = "closed" => opp'[o].stage = "closed"]_bookingVars
=============================================================================
