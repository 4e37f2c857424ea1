------------------------ MODULE MCApprovalLifecycle -------------------------
(* Instances of ApprovalLifecycle for TLC. *)
EXTENDS ApprovalLifecycle, TLC

CONSTANTS a1, a2, r1, e1, e2, e3, o1, o2, k1, k2

\* One Gmail draft batch of two recipients.
DraftBatch == a1 :> "outbound_email_batch"
\* One send batch of two recipients.
SendBatch == a1 :> "outbound_email_send_batch"
\* One social batch with two targets.
SocialBatch == a1 :> "social_post_batch"
\* The calendar hold and the folder of a show, prepared by one recommendation.
Siblings == a1 :> "calendar_hold_batch" @@ a2 :> "drive_ensure_folder"

TwoCalls == a1 :> 2
OneCallEach == a1 :> 1 @@ a2 :> 1

Alone == a1 :> NoRecommendation
BothLinked == a1 :> r1 @@ a2 :> r1

ExecutorSymmetry == Permutations(Executors) \union Permutations(Observers) \union Permutations(Keys)
=============================================================================
