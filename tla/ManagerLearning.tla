---------------------------- MODULE ManagerLearning ----------------------------
(***************************************************************************)
(* What members teach the Manager: ratings of its answers, examples promoted   *)
(* from answers and from decided advice, their resolution by a later version,  *)
(* the queues that ask for reviews, and the evaluation a version must pass.     *)
(* Promoting and resolving read first and write by id afterwards.              *)
(***************************************************************************)
EXTENDS Integers, FiniteSets, FiniteSetsExt

CONSTANTS
  Messages,          \* answers, numbered in the order in which they are given
  Talk,              \* Talk[m]: the conversation of answer m
  Advice, Key,       \* recommendations and the stable key of each
  Raters,            \* members
  Limit,             \* the items a queue shows: 1 to 5
  Window,            \* how far back a queue looks: 90 days
  MaxVersion, MaxNow,   \* bounds
  Nothing

LearningConstants ==
  /\ Messages \subseteq Nat /\ IsFiniteSet(Messages) /\ IsFiniteSet(Advice)
  /\ Limit \in 1..5 /\ {Window, MaxNow} \subseteq Nat /\ MaxVersion \in Nat \ {0}

VARIABLES
  version,    \* of the Manager that is deployed
  answer,     \* [Messages -> version and moment of the answer], or Nothing
  rating,     \* [Messages -> [Raters -> rating]]
  example,    \* [Messages -> example made of the answer]
  outcome,    \* [Advice -> outcome and its moment]
  lesson,     \* [Advice -> example made of the advice]
  doing,      \* [Raters -> request in flight]
  now         \* counts the writes: each is a moment of its own

learningVars == <<version, answer, rating, example, outcome, lesson, doing, now>>

Labels == {"useful", "not_useful", "needs_revision"}
Resting == [kind |-> "nothing"]

LearningInit ==
  /\ version = 1
  /\ answer = [m \in Messages |-> Nothing]
  /\ rating = [m \in Messages |-> [o \in Raters |-> "none"]]
  /\ example = [m \in Messages |-> Nothing]
  /\ outcome = [r \in Advice |-> [what |-> "suggested", at |-> 0]]
  /\ lesson = [r \in Advice |-> Nothing]
  /\ doing = [o \in Raters |-> Resting]
  /\ now = 0

LearningTypeOK ==
  /\ version \in 1..MaxVersion /\ now \in 0..MaxNow
  /\ \A m \in Messages : answer[m] = Nothing \/ answer[m].version \in 1..MaxVersion
  /\ rating \in [Messages -> [Raters -> {"none", "helpful", "unhelpful"}]]
  /\ \A m \in Messages : example[m] = Nothing \/ example[m].label \in Labels
  /\ \A r \in Advice : lesson[r] = Nothing \/ lesson[r].label \in Labels

Moment == now < MaxNow /\ now' = now + 1
OfAnswers == <<answer, rating, example>>
OfAdvice == <<outcome, lesson>>

----------------------------------------------------------------------------
(* Answers, advice and versions come and go                                 *)

Answer(m) ==
  /\ answer[m] = Nothing /\ \A n \in Messages : n < m => answer[n] # Nothing
  /\ answer' = [answer EXCEPT ![m] = [version |-> version, at |-> now]]
  /\ Moment /\ UNCHANGED <<version, rating, example, OfAdvice, doing>>

Upgrade ==
  /\ version < MaxVersion /\ version' = version + 1
  /\ Moment /\ UNCHANGED <<OfAnswers, OfAdvice, doing>>

Decide(r) ==
  /\ outcome[r].what = "suggested"
  /\ \E what \in {"completed", "dismissed", "blocked"} : outcome' = [outcome EXCEPT ![r] = [what |-> what, at |-> now]]
  /\ Moment /\ UNCHANGED <<version, OfAnswers, lesson, doing>>

\* messageFeedback: one rating of each member.
Rate(o, m) ==
  /\ answer[m] # Nothing
  /\ \E r \in {"helpful", "unhelpful"} : rating' = [rating EXCEPT ![m][o] = r]
  /\ Moment /\ UNCHANGED <<version, answer, example, OfAdvice, doing>>

----------------------------------------------------------------------------
(* Examples                                                                 *)

\* The label must agree with the member's own rating.
Agrees(label, r) == label = "useful" <=> r = "helpful"

PromoteReads(o, m) ==
  /\ doing[o] = Resting /\ rating[m][o] # "none"
  /\ \E label \in Labels :
       /\ Agrees(label, rating[m][o])
       /\ doing' = [doing EXCEPT ![o] = [kind |-> "promote", of |-> m, label |-> label, rated |-> rating[m][o]]]
  /\ UNCHANGED <<version, OfAnswers, OfAdvice, now>>

\* A new promotion replaces the example and what resolved it.
PromoteWrites(o) ==
  /\ doing[o].kind = "promote"
  /\ example' = [example EXCEPT ![doing[o].of] =
       [label |-> doing[o].label, rated |-> doing[o].rated, version |-> answer[doing[o].of].version, resolved |-> 0]]
  /\ doing' = [doing EXCEPT ![o] = Resting]
  /\ Moment /\ UNCHANGED <<version, answer, rating, OfAdvice>>

\* Only the version deployed resolves a failure, and not one of its own.
ResolveReads(o, m) ==
  /\ doing[o] = Resting /\ example[m] # Nothing
  /\ example[m].label # "useful" /\ example[m].version # version
  /\ doing' = [doing EXCEPT ![o] = [kind |-> "resolve", of |-> m, by |-> version]]
  /\ UNCHANGED <<version, OfAnswers, OfAdvice, now>>

\* By id: the example it resolves may have been promoted again meanwhile.
ResolveWrites(o) ==
  /\ doing[o].kind = "resolve"
  /\ example' = [example EXCEPT ![doing[o].of].resolved = doing[o].by]
  /\ doing' = [doing EXCEPT ![o] = Resting]
  /\ Moment /\ UNCHANGED <<version, answer, rating, OfAdvice>>

\* Advice is promoted once it is decided, by any label. All of it is of version 1 here,
\* and what is read of it before the write does not change.
Teach(r) ==
  /\ outcome[r].what # "suggested"
  /\ \E label \in Labels : lesson' = [lesson EXCEPT ![r] = [label |-> label, version |-> 1]]
  /\ Moment /\ UNCHANGED <<version, OfAnswers, outcome, doing>>

LearningNext ==
  \/ \E m \in Messages : Answer(m)
  \/ \E o \in Raters, m \in Messages : Rate(o, m) \/ PromoteReads(o, m) \/ ResolveReads(o, m)
  \/ \E o \in Raters : PromoteWrites(o) \/ ResolveWrites(o)
  \/ \E r \in Advice : Decide(r) \/ Teach(r)
  \/ Upgrade

LearningSpec == LearningInit /\ [][LearningNext]_learningVars

----------------------------------------------------------------------------
(* Queues of reviews                                                        *)

Recent(at) == at + Window >= now

\* Of the rows in S, the newest of each group, and of these the newest Limit.
Newest(S, At, Group) == {r \in S : \A s \in S : Group[s] = Group[r] => At[s] <= At[r]}
Queue(S, At, Group) ==
  LET heads == Newest(S, At, Group)
  IN  {r \in heads : Cardinality({s \in heads : At[s] > At[r]}) < Limit}

AnsweredAt == [m \in {n \in Messages : answer[n] # Nothing} |-> answer[m].at]
DecidedAt == [r \in Advice |-> outcome[r].at]

Answers(o, rated) ==
  {m \in DOMAIN AnsweredAt : Recent(answer[m].at) /\ (rating[m][o] # "none") = rated}

\* responseReview: what the member has not rated; responseEvalReview: what the
\* member rated and nobody made an example of.
ToRate(o) == Queue(Answers(o, FALSE), AnsweredAt, Talk)
ToPromote(o) == Queue({m \in Answers(o, TRUE) : example[m] = Nothing}, AnsweredAt, Talk)

\* Advice that is no newer than the last reviewed advice of its key is not asked
\* about again.
ReviewedThrough(k) == {outcome[r].at : r \in {s \in Advice : lesson[s] # Nothing /\ Key[s] = k}}
ToTeach ==
  {r \in Advice : /\ outcome[r].what # "suggested" /\ Recent(outcome[r].at) /\ lesson[r] = Nothing
                  /\ \A at \in ReviewedThrough(Key[r]) : outcome[r].at > at}
AdviceQueue == Queue(ToTeach, DecidedAt, Key)

----------------------------------------------------------------------------
(* The evaluation of a version (runManagerEvaluation): its own cases pass, and *)
(* every failure on record states what was expected.                        *)

LessonPasses(r, v) == lesson[r].label = "needs_revision" => lesson[r].version # v

ExamplePasses(m, v) ==
  IF example[m].label = "useful" THEN example[m].rated = "helpful"
  ELSE /\ example[m].rated = "unhelpful"
       /\ example[m].resolved = v /\ v # example[m].version

Passes(v) ==
  /\ \A r \in Advice : lesson[r] # Nothing => LessonPasses(r, v)
  /\ \A m \in Messages : example[m] # Nothing => ExamplePasses(m, v)

----------------------------------------------------------------------------
\* However promoting, rating and resolving interleave, an example's label agrees with
\* the rating it was made of, a failure is resolved by later versions only, and no
\* version passes while a failure of its own is on record.  A queue asks about each
\* conversation or key at most once, and passes over one only when it is full.
LearningTold ==
  /\ LearningTypeOK
  /\ \A m \in Messages : example[m] # Nothing =>
       /\ Agrees(example[m].label, example[m].rated)
       /\ example[m].version = answer[m].version
       /\ example[m].resolved # 0 => example[m].resolved > answer[m].version
  /\ \A v \in 1..MaxVersion : Passes(v) =>
       /\ \A m \in Messages : example[m] # Nothing /\ example[m].label # "useful" => answer[m].version < v
       /\ \A r \in Advice : lesson[r] # Nothing /\ lesson[r].label = "needs_revision" => lesson[r].version # v
  /\ \A o \in Raters :
       /\ ToRate(o) \intersect ToPromote(o) = {}
       /\ \A m \in ToPromote(o) : rating[m][o] # "none"
       /\ \A S \in {Answers(o, FALSE)} :
            Cardinality(ToRate(o)) = Min({Limit, Cardinality({Talk[m] : m \in S})})
  /\ Cardinality(AdviceQueue) = Min({Limit, Cardinality({Key[r] : r \in ToTeach})})
  /\ \A r \in AdviceQueue, s \in Advice : lesson[s] # Nothing /\ Key[s] = Key[r] => outcome[s].at < outcome[r].at
=============================================================================
