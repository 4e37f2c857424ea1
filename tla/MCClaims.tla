-------------------------------- MODULE MCClaims --------------------------------
(***************************************************************************)
(* Work that is claimed once, by processes that may die with the claim: the  *)
(* execution of an approval, an event that Stripe delivers again until it is *)
(* applied, and the Manager's brief of every period. A behaviour exercises   *)
(* the part that `part` names: a batch of mail, the one approval of a        *)
(* recommendation (hold), the event (stripe) or the briefs (brief).          *)
(***************************************************************************)
EXTENDS ApprovalLifecycle, TLC

CONSTANTS
  mail, hold, o1, o2, r1,
  Deliveries, MaxFailures, Nobody,
  Workers, Owners, Members, MaxPeriods, MaxEdits, MaxFaults, NoPeriod, NoClaim

VARIABLES
  part,
  event, lapsed, holder, tx, effects, told, failures,           \* of the event
  period, due, settings, scan, briefs, notices, edits, faults   \* of the briefs

Hook == INSTANCE StripeWebhook WITH row <- event, acked <- told
Brief == INSTANCE BriefSchedule

Kind == mail :> "outbound_email_send_batch" @@ hold :> "calendar_hold_batch"
Prepared == mail :> NoRecommendation @@ hold :> r1
Calls == mail :> 2 @@ hold :> 1

\* The approval of a part and the members who look after it.
Work == [mail |-> mail, hold |-> hold]
Eyes == [mail |-> Observers, hold |-> Observers \ MistakenHumans]

ASSUME Hook!StripeConstants /\ Brief!BriefConstants

hookVars == <<event, lapsed, holder, tx, effects, told, failures>>
briefVars == <<period, due, settings, scan, briefs, notices, edits, faults>>
claimVars == <<part, vars, briefVars, hookVars>>

ClaimsInit ==
  /\ part \in DOMAIN Work \union {"stripe", "brief"}
  /\ Init /\ Hook!Init /\ Brief!BriefInit
  /\ part # "stripe" => event = Hook!Absent
  /\ part # "brief" => settings.audience = "owners"

ApprovalsNext ==
  /\ part \in DOMAIN Work
  /\ Next
  /\ \A a \in Approvals \ {Work[part]} : status'[a] = "absent"
  /\ \A o \in Observers \ Eyes[part] : seen'[o] = seen[o]
  /\ UNCHANGED <<briefVars, hookVars>>

ClaimsNext ==
  /\ \/ ApprovalsNext
     \/ part = "stripe" /\ Hook!Next /\ UNCHANGED <<vars, briefVars>>
     \/ part = "brief" /\ Brief!BriefNext /\ UNCHANGED <<vars, hookVars>>
  /\ UNCHANGED part

\* Fairness of ApprovalLifecycle, StripeWebhook and BriefSchedule, each for its part.
ClaimsFairness ==
  /\ Fairness
  /\ WF_hookVars(part = "stripe" /\ \E d \in Deliveries : ~told /\ Hook!Begin(d))
  /\ \A d \in Deliveries : WF_hookVars(part = "stripe" /\ Hook!Step(d))
  /\ WF_hookVars(part = "stripe" /\ Hook!LeaseEnds)
  /\ \A w \in Workers : /\ WF_briefVars(part = "brief" /\ Brief!ScanRead(w))
                         /\ WF_briefVars(part = "brief" /\ Brief!ScanSteps(w))
  /\ WF_briefVars(part = "brief" /\ Brief!ClaimAges)
  /\ WF_briefVars(part = "brief" /\ Brief!HourArrives)

ClaimsSpec == ClaimsInit /\ [][ClaimsNext]_claimVars /\ ClaimsFairness

-----------------------------------------------------------------------------
\* What StripeWebhook says of an event: its effects are applied once, Stripe is told
\* so only when they are, and one delivery at a time is at it (runOnce).
AppliedOnce == Hook!AppliedOnce
AckedIsApplied == Hook!AckedIsApplied
OneHandler == Hook!OneHandler

\* An event is never wedged: in the end Stripe is told (Delivered of StripeWebhook).
EventDelivered == <>(part = "stripe" => told /\ effects = 1)

\* What BriefSchedule says of a period: one brief of it, and every due one is briefed.
BriefedOnce == Brief!BriefedOnce
DueIsBriefed == Brief!DueIsBriefed
=============================================================================
