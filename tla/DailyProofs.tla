---------------------------- MODULE DailyProofs -----------------------------
(***************************************************************************)
(* Theorems about Telegram, for any workers, days, signals, chats, requests *)
(* and tokens; about EventLogistics, for any versions, attempts and        *)
(* preparers; and about ConnectedAccounts, for any operators, visits, tabs *)
(* and destinations.                                                       *)
(***************************************************************************)
EXTENDS Telegram, EventLogistics, ConnectedAccounts, FiniteSetTheorems, TLAPS

-----------------------------------------------------------------------------
(* Telegram                                                                 *)
(* Alerts: what a worker holds while a message leaves *)

JobStates == [at : {"idle", "route", "claim", "send", "mark", "error"},
              keys : Seq(Keys), chat : Chats \union {NoChat}]
Sending == {"send", "mark"}

\* A job that has gone past the routing is about a key.
HasKey == \A w \in Workers : job[w].at \in {"claim", "send", "mark", "error"} => job[w].keys # <<>>

\* From the claim of its key to the mark a worker is the only one with that key,
\* and the message has left exactly when the row is about to say so.
Outbound ==
  /\ \A k \in Keys : dedupe[k] = "none" => delivered[k] = 0
  /\ \A w \in Workers :
       /\ job[w].at \in Sending => dedupe[Key(w)] = "attempted"
       /\ job[w].at = "send" => delivered[Key(w)] = 0
       /\ job[w].at = "mark" => delivered[Key(w)] = 1
  /\ \A v, w \in Workers :
       job[v].at \in Sending /\ job[w].at \in Sending /\ Key(v) = Key(w) => v = w

UrgentInv == UrgentTypeOK /\ HasKey /\ Outbound /\ AlertedOnce

OtherJobs(w) == \A v \in Workers \ {w} : job'[v] = job[v]

LEMMA JobTyped == UrgentTypeOK => job \in [Workers -> JobStates]
BY DEF UrgentTypeOK, JobStates

LEMMA KeyTyped ==
  ASSUME UrgentTypeOK, HasKey, NEW w \in Workers,
         job[w].at \in {"claim", "send", "mark", "error"}
  PROVE  job[w].keys # <<>> /\ Key(w) \in Keys
<1>1. job[w].keys \in Seq(Keys) /\ job[w].keys # <<>>
  BY JobTyped DEF HasKey, JobStates
<1> QED BY <1>1 DEF Key

LEMMA JobMoves ==
  ASSUME UrgentTypeOK, NEW w \in Workers, NEW j \in JobStates, job' = [job EXCEPT ![w] = j]
  PROVE  job' \in [Workers -> JobStates] /\ OtherJobs(w) /\ job'[w] = j
BY JobTyped DEF OtherJobs

LEMMA JobGoes ==
  ASSUME UrgentTypeOK, NEW w \in Workers, NEW at \in {"send", "mark", "error"},
         job' = [job EXCEPT ![w].at = at]
  PROVE  /\ job' \in [Workers -> JobStates] /\ OtherJobs(w)
         /\ job'[w].at = at /\ job'[w].keys = job[w].keys /\ Key(w)' = Key(w)
<1> DEFINE j == [job[w] EXCEPT !.at = at]
<1>1. job[w] \in JobStates
  BY JobTyped
<1>2. j \in JobStates /\ j.at = at /\ j.keys = job[w].keys
  BY <1>1 DEF JobStates
<1>3. job' = [job EXCEPT ![w] = j]
  OBVIOUS
<1> HIDE DEF j
<1>4. job' \in [Workers -> JobStates] /\ OtherJobs(w) /\ job'[w] = j
  BY <1>2, <1>3, JobMoves
<1> QED BY <1>2, <1>4 DEF Key

LEMMA JobEnds ==
  ASSUME UrgentTypeOK, NEW w \in Workers, job' = [job EXCEPT ![w] = IdleJob]
  PROVE  job' \in [Workers -> JobStates] /\ OtherJobs(w) /\ job'[w].at = "idle"
<1>1. IdleJob \in JobStates /\ IdleJob.at = "idle"
  BY DEF IdleJob, JobStates
<1> HIDE DEF IdleJob
<1> QED BY <1>1, JobMoves

LEMMA JobPassesOn ==
  ASSUME UrgentTypeOK, NEW w \in Workers, job[w].keys # <<>>, job' = NextSignal(w)
  PROVE  job' \in [Workers -> JobStates] /\ OtherJobs(w) /\ job'[w].at = "route"
<1> DEFINE j == [job[w] EXCEPT !.at = "route", !.chat = NoChat, !.keys = Tail(job[w].keys)]
<1>1. job[w] \in JobStates
  BY JobTyped
<1>2. Tail(job[w].keys) \in Seq(Keys)
  BY <1>1 DEF JobStates
<1>3. j \in JobStates /\ j.at = "route"
  BY <1>1, <1>2 DEF JobStates
<1>4. job' = [job EXCEPT ![w] = j]
  BY DEF NextSignal
<1> HIDE DEF j
<1> QED BY <1>3, <1>4, JobMoves

LEMMA RaisedTyped == ASSUME NEW f \in Findings PROVE Raised(f) \in Seq(ScanSignals)
<1>1. \A s, t \in Seq(ScanSignals) : s \o t \in Seq(ScanSignals)
  OBVIOUS
<1>2. /\ IfRaised("approval_reconciliation", f.unresolved > 0) \in Seq(ScanSignals)
      /\ IfRaised("approval_aging", f.aged > 0) \in Seq(ScanSignals)
      /\ IfRaised("overdue_cluster", f.overdue >= OverdueThreshold(f.open)) \in Seq(ScanSignals)
      /\ IfRaised("stale_cluster", f.stale >= 5) \in Seq(ScanSignals)
  BY DEF IfRaised
<1> HIDE DEF IfRaised
<1> QED BY <1>1, <1>2 DEF Raised

\* A scan that starts is about the signals of its day.
LEMMA ScanTyped ==
  ASSUME UrgentTypeOK, NEW w \in Workers, StartScan(w)
  PROVE  job' \in [Workers -> JobStates] /\ OtherJobs(w) /\ job'[w].at = "route"
<1> PICK f \in Findings : job' = [job EXCEPT ![w] =
           [at |-> "route", chat |-> NoChat,
            keys |-> [i \in DOMAIN Raised(f) |-> <<Raised(f)[i], day>>]]]
  BY DEF StartScan
<1> DEFINE raised == Raised(f)
           keys == [i \in DOMAIN raised |-> <<raised[i], day>>]
<1>1. raised \in Seq(ScanSignals) /\ day \in Days
  BY RaisedTyped DEF UrgentTypeOK
<1> HIDE DEF raised
<1>2. keys \in Seq(Keys)
  <2>1. Len(raised) \in Nat /\ DOMAIN raised = 1..Len(raised)
        /\ \A i \in 1..Len(raised) : raised[i] \in ScanSignals
    BY <1>1
  <2>2. keys = [i \in 1..Len(raised) |-> <<raised[i], day>>]
    BY <2>1
  <2>3. \A i \in 1..Len(raised) : <<raised[i], day>> \in Keys
    BY <1>1, <2>1 DEF Keys
  <2>4. keys \in [1..Len(raised) -> Keys]
    BY <2>2, <2>3
  <2> HIDE DEF keys
  <2> QED BY <2>1, <2>4
<1> DEFINE j == [at |-> "route", chat |-> NoChat, keys |-> keys]
<1>3. j \in JobStates /\ j.at = "route"
  <2> HIDE DEF keys
  <2> QED BY <1>2 DEF JobStates
<1>4. job' = [job EXCEPT ![w] = j]
  BY DEF raised
<1> HIDE DEF j
<1> QED BY <1>3, <1>4, JobMoves

-----------------------------------------------------------------------------
(* Alerts: the steps *)

\* A worker moves on without a key it would be alone with.
LEMMA UrgentFrame ==
  ASSUME UrgentInv, NEW w \in Workers, job' \in [Workers -> JobStates], OtherJobs(w),
         UNCHANGED <<day, routing, dedupe, delivered, patches>>,
         job'[w].at \notin Sending,
         job'[w].at \in {"claim", "error"} => job'[w].keys # <<>>
  PROVE  UrgentInv'
<1>1. UrgentTypeOK'
  BY DEF UrgentInv, UrgentTypeOK, JobStates
<1>2. HasKey'
  BY DEF UrgentInv, HasKey, OtherJobs, Sending
<1>3. \A v \in Workers : job'[v].at \in Sending => job[v].at = job'[v].at /\ Key(v)' = Key(v)
  BY DEF OtherJobs, Key
<1>4. \A v \in Workers : /\ job'[v].at = "send" => job[v].at = "send"
                         /\ job'[v].at = "mark" => job[v].at = "mark"
  BY <1>3 DEF Sending
<1>5. Outbound'
  BY <1>3, <1>4 DEF UrgentInv, Outbound, Sending
<1>6. AlertedOnce'
  BY DEF UrgentInv, AlertedOnce
<1> QED BY <1>1, <1>2, <1>5, <1>6 DEF UrgentInv

\* One worker's step on its key, at the claim, the call or the mark.
LEMMA UrgentKeyed ==
  ASSUME UrgentInv, NEW w \in Workers, NEW k \in Keys, NEW at \in {"send", "mark", "error"},
         k = Key(w), job[w].at \in {"claim", "send", "mark"},
         job' = [job EXCEPT ![w].at = at],
         NEW mark \in {"none", "attempted", "sent"}, dedupe' = [dedupe EXCEPT ![k] = mark],
         NEW n \in Nat, delivered' = [delivered EXCEPT ![k] = n],
         UNCHANGED <<day, routing, patches>>,
         n <= 1, mark = "sent" => n = 1, mark = "none" => n = 0,
         at = "send" => dedupe[k] = "none" /\ mark = "attempted" /\ n = 0,
         at = "mark" => job[w].at = "send" /\ mark = "attempted" /\ n = 1,
         \A v \in Workers \ {w} : job[v].at \in Sending => Key(v) # k
  PROVE  UrgentInv'
<1>1. /\ job' \in [Workers -> JobStates] /\ OtherJobs(w)
      /\ job'[w].at = at /\ job'[w].keys = job[w].keys /\ Key(w)' = Key(w)
  BY JobGoes DEF UrgentInv
<1>2. UrgentTypeOK'
  BY <1>1 DEF UrgentInv, UrgentTypeOK, JobStates
<1>3. HasKey'
  BY <1>1 DEF UrgentInv, HasKey, OtherJobs
<1>4. /\ dedupe'[k] = mark /\ delivered'[k] = n
      /\ \A j \in Keys \ {k} : dedupe'[j] = dedupe[j] /\ delivered'[j] = delivered[j]
  BY DEF UrgentInv, UrgentTypeOK
<1>5. AlertedOnce'
  BY <1>4 DEF UrgentInv, AlertedOnce
<1>6. \A v \in Workers \ {w} : job'[v] = job[v] /\ Key(v)' = Key(v)
                               /\ (job[v].at \in Sending => Key(v) \in Keys \ {k})
  <2> TAKE v \in Workers \ {w}
  <2>1. job'[v] = job[v] /\ Key(v)' = Key(v)
    BY <1>1 DEF OtherJobs, Key
  <2>2. job[v].at \in Sending => Key(v) \in Keys
    BY KeyTyped DEF Sending, UrgentInv
  <2> QED BY <2>1, <2>2
<1>7. Outbound'
  BY <1>1, <1>4, <1>6 DEF UrgentInv, Outbound, Sending
<1> QED BY <1>2, <1>3, <1>5, <1>7 DEF UrgentInv

LEMMA UrgentInitial == UrgentInit => UrgentInv
<1> SUFFICES ASSUME UrgentInit PROVE UrgentInv
  OBVIOUS
<1>1. (CHOOSE c \in Chats : TRUE) \in Chats
  BY UrgentConstants
<1>2. IdleJob \in JobStates /\ IdleJob.at = "idle"
  BY DEF IdleJob, JobStates
<1> HIDE DEF IdleJob
<1>3. UrgentTypeOK
  BY <1>1, <1>2, UrgentConstants DEF UrgentInit, UrgentTypeOK, JobStates
<1>4. HasKey /\ Outbound /\ AlertedOnce
  BY <1>2 DEF UrgentInit, HasKey, Outbound, AlertedOnce, Sending
<1> QED BY <1>3, <1>4 DEF UrgentInv

LEMMA UrgentJobStep ==
  ASSUME UrgentInv, NEW w \in Workers,
         \/ StartScan(w) \/ StartFailedNotice(w) \/ EndJob(w)
         \/ Route(w) \/ ClaimDedupe(w) \/ Send(w) \/ MarkSent(w) \/ MarkAttemptError(w)
         \/ JobDies(w)
  PROVE  UrgentInv'
<1>0. UrgentTypeOK /\ HasKey /\ Outbound /\ AlertedOnce
  BY DEF UrgentInv
<1>1. CASE StartScan(w)
  BY <1>0, <1>1, ScanTyped, UrgentFrame DEF StartScan, Sending
<1>2. CASE StartFailedNotice(w)
  <2> DEFINE j == [at |-> "route", chat |-> NoChat, keys |-> <<FailedKey>>]
  <2>1. FailedKey \in Keys
    BY DEF Keys
  <2>2. j \in JobStates /\ j.at = "route"
    <3> HIDE DEF FailedKey
    <3> QED BY <2>1 DEF JobStates
  <2>3. job' = [job EXCEPT ![w] = j]
    BY <1>2 DEF StartFailedNotice
  <2> HIDE DEF j
  <2> QED BY <1>0, <1>2, <2>2, <2>3, JobMoves, UrgentFrame DEF StartFailedNotice, Sending
<1>3. CASE EndJob(w)
  BY <1>0, <1>3, JobEnds, UrgentFrame DEF EndJob, Sending
<1>4. CASE Route(w)
  <2>1. CASE Routed(w)
    <3> DEFINE j == [job[w] EXCEPT !.at = "claim", !.chat = routing.chat]
    <3>1. job[w] \in JobStates /\ routing.chat \in Chats \union {NoChat}
      BY <1>0, JobTyped DEF UrgentTypeOK
    <3>2. j \in JobStates /\ j.at = "claim" /\ j.keys = job[w].keys
      BY <3>1 DEF JobStates
    <3>3. job' = [job EXCEPT ![w] = j] /\ job[w].keys # <<>>
      BY <1>4, <2>1 DEF Route
    <3> HIDE DEF j
    <3>4. job' \in [Workers -> JobStates] /\ OtherJobs(w) /\ job'[w] = j
      BY <1>0, <3>2, <3>3, JobMoves
    <3> QED BY <1>4, <3>2, <3>3, <3>4, UrgentFrame DEF Route, Sending
  <2>2. CASE ~Routed(w)
    BY <1>0, <1>4, <2>2, JobPassesOn, UrgentFrame DEF Route, Sending
  <2> QED BY <2>1, <2>2
<1> DEFINE k == Key(w)
<1>5. CASE ClaimDedupe(w)
  <2>1. k \in Keys /\ job[w].keys # <<>>
    BY <1>0, <1>5, KeyTyped DEF ClaimDedupe
  <2>2. CASE dedupe[k] = "none"
    <3>1. /\ dedupe' = [dedupe EXCEPT ![k] = "attempted"] /\ job' = [job EXCEPT ![w].at = "send"]
          /\ job[w].at = "claim" /\ UNCHANGED <<day, routing, delivered, patches>>
      BY <1>5, <2>2 DEF ClaimDedupe
    <3>2. delivered[k] = 0 /\ delivered' = [delivered EXCEPT ![k] = 0]
      BY <1>0, <2>1, <2>2, <3>1 DEF Outbound, UrgentTypeOK
    <3>3. \A v \in Workers \ {w} : job[v].at \in Sending => Key(v) # k
      BY <1>0, <2>2 DEF Outbound
    <3> DEFINE at == "send"
               mark == "attempted"
               n == 0
    <3>4. /\ at \in {"send", "mark", "error"} /\ mark \in {"none", "attempted", "sent"} /\ n \in Nat
          /\ at = "send" /\ at # "mark" /\ mark = "attempted" /\ mark # "sent" /\ mark # "none"
          /\ n = 0 /\ n <= 1
      OBVIOUS
    <3>5. /\ dedupe' = [dedupe EXCEPT ![k] = mark] /\ job' = [job EXCEPT ![w].at = at]
          /\ delivered' = [delivered EXCEPT ![k] = n]
      BY <3>1, <3>2
    <3> HIDE DEF k, at, mark, n
    <3> QED BY <2>1, <2>2, <3>1, <3>3, <3>4, <3>5, UrgentKeyed DEF k
  <2>3. CASE dedupe[k] # "none"
    <3>1. job' = NextSignal(w) /\ UNCHANGED <<day, routing, dedupe, delivered, patches>>
      BY <1>5, <2>3 DEF ClaimDedupe
    <3> QED BY <1>0, <2>1, <3>1, JobPassesOn, UrgentFrame DEF Sending
  <2> QED BY <2>2, <2>3
<1>6. CASE Send(w)
  <2>1. k \in Keys /\ delivered[k] = 0 /\ dedupe[k] = "attempted" /\ job[w].at = "send"
    BY <1>0, <1>6, KeyTyped DEF Send, Outbound, Sending
  <2>2. \A v \in Workers \ {w} : job[v].at \in Sending => Key(v) # k
    BY <1>0, <2>1 DEF Outbound, Sending
  <2>3. PICK reached \in BOOLEAN, answered \in BOOLEAN :
          /\ answered => reached
          /\ delivered' = [delivered EXCEPT ![k] = @ + (IF reached THEN 1 ELSE 0)]
          /\ job' = [job EXCEPT ![w].at = IF answered THEN "mark" ELSE "error"]
    BY <1>6 DEF Send
  <2> DEFINE n == IF reached THEN 1 ELSE 0
             at == IF answered THEN "mark" ELSE "error"
  <2>4. n \in Nat /\ n <= 1 /\ at \in {"mark", "error"} /\ (at = "mark" => n = 1)
    BY <2>3
  <2>5. delivered' = [delivered EXCEPT ![k] = n] /\ dedupe' = [dedupe EXCEPT ![k] = "attempted"]
    <3>1. delivered' = [delivered EXCEPT ![k] = delivered[k] + n]
      BY <2>3
    <3>2. dedupe' = dedupe
      BY <1>6 DEF Send
    <3> HIDE DEF k, n
    <3> QED BY <1>0, <2>1, <2>4, <3>1, <3>2 DEF UrgentTypeOK
  <2>6. job' = [job EXCEPT ![w].at = at] /\ UNCHANGED <<day, routing, patches>>
    BY <1>6, <2>3 DEF Send
  <2> HIDE DEF k, n, at
  <2> QED BY <2>1, <2>2, <2>4, <2>5, <2>6, UrgentKeyed DEF k
<1>7. CASE MarkSent(w)
  <2>1. /\ k \in Keys /\ delivered[k] = 1 /\ dedupe[k] = "attempted" /\ job[w].at = "mark"
        /\ job[w].keys # <<>>
    BY <1>0, <1>7, KeyTyped DEF MarkSent, Outbound, Sending
  <2>2. CASE dedupe' = [dedupe EXCEPT ![k] = "sent"] /\ job' = NextSignal(w)
    <3>1. /\ job' \in [Workers -> JobStates] /\ OtherJobs(w) /\ job'[w].at = "route"
          /\ UNCHANGED <<day, routing, delivered, patches>>
      BY <1>0, <1>7, <2>1, <2>2, JobPassesOn DEF MarkSent
    <3>2. \A v \in Workers : job'[v].at \in Sending =>
             v # w /\ job'[v] = job[v] /\ Key(v)' = Key(v) /\ Key(v) \in Keys \ {k}
      <4> SUFFICES ASSUME NEW v \in Workers, job'[v].at \in Sending
                   PROVE v # w /\ job'[v] = job[v] /\ Key(v)' = Key(v) /\ Key(v) \in Keys \ {k}
        OBVIOUS
      <4>1. v # w /\ job'[v] = job[v]
        BY <3>1 DEF OtherJobs, Sending
      <4>2. Key(v) \in Keys /\ Key(v) # k
        BY <1>0, <2>1, <4>1, KeyTyped DEF Outbound, Sending
      <4> QED BY <4>1, <4>2 DEF Key
    <3> HIDE DEF k
    <3>3. /\ dedupe' \in [Keys -> {"none", "attempted", "sent"}] /\ dedupe'[k] = "sent"
          /\ \A j \in Keys \ {k} : dedupe'[j] = dedupe[j]
      BY <1>0, <2>1, <2>2 DEF UrgentTypeOK
    <3>4. UrgentTypeOK' /\ HasKey'
      BY <1>0, <3>1, <3>3 DEF UrgentTypeOK, JobStates, HasKey, OtherJobs
    <3>5. Outbound'
      BY <1>0, <3>1, <3>2, <3>3 DEF Outbound, Sending
    <3>6. AlertedOnce'
      BY <1>0, <2>1, <3>1, <3>3 DEF AlertedOnce
    <3> QED BY <3>4, <3>5, <3>6 DEF UrgentInv
  <2>3. CASE job' = [job EXCEPT ![w].at = "error"] /\ dedupe' = dedupe
    <3>1. /\ job' \in [Workers -> JobStates] /\ OtherJobs(w) /\ job'[w].at = "error"
          /\ job'[w].keys = job[w].keys
      BY <1>0, <2>3, JobGoes
    <3> QED BY <1>7, <2>1, <2>3, <3>1, UrgentFrame DEF MarkSent, Sending
  <2> QED BY <1>7, <2>2, <2>3 DEF MarkSent
<1>8. CASE MarkAttemptError(w)
  BY <1>0, <1>8, KeyTyped, JobPassesOn, UrgentFrame DEF MarkAttemptError, Sending
<1>9. CASE JobDies(w)
  BY <1>0, <1>9, JobEnds, UrgentFrame DEF JobDies, Sending
<1> QED BY <1>1, <1>2, <1>3, <1>4, <1>5, <1>6, <1>7, <1>8, <1>9

LEMMA UrgentStep == UrgentInv /\ [UrgentNext]_urgentVars => UrgentInv'
<1> SUFFICES ASSUME UrgentInv, [UrgentNext]_urgentVars PROVE UrgentInv'
  OBVIOUS
<1>1. ASSUME day' \in Days, patches' \in 0..MaxPatches, UNCHANGED <<dedupe, job, delivered>>,
             routing' \in [enabled : BOOLEAN, chat : Chats \union {NoChat}, allowed : SUBSET Categories]
      PROVE  UrgentInv'
  BY <1>1 DEF UrgentInv, UrgentTypeOK, HasKey, Outbound, AlertedOnce, Key
<1>2. CASE \E w \in Workers :
             \/ StartScan(w) \/ StartFailedNotice(w) \/ EndJob(w)
             \/ Route(w) \/ ClaimDedupe(w) \/ Send(w) \/ MarkSent(w) \/ MarkAttemptError(w)
             \/ JobDies(w)
  BY <1>2, UrgentJobStep
<1>3. CASE PatchRouting
  <2>1. routing' \in [enabled : BOOLEAN, chat : Chats \union {NoChat}, allowed : SUBSET Categories]
    <3>1. routing \in [enabled : BOOLEAN, chat : Chats \union {NoChat}, allowed : SUBSET Categories]
      BY DEF UrgentInv, UrgentTypeOK
    <3>2. ASSUME NEW c \in Chats \union {NoChat}, routing' = [routing EXCEPT !.chat = c]
          PROVE  routing' \in [enabled : BOOLEAN, chat : Chats \union {NoChat}, allowed : SUBSET Categories]
      BY <3>1, <3>2
    <3>3. CASE routing' = [routing EXCEPT !.enabled = ~@]
      BY <3>1, <3>3
    <3>4. ASSUME NEW c \in Categories, routing' = [routing EXCEPT !.allowed = @ \ {c}]
          PROVE  routing' \in [enabled : BOOLEAN, chat : Chats \union {NoChat}, allowed : SUBSET Categories]
      BY <3>1, <3>4
    <3> QED BY <1>3, <3>2, <3>3, <3>4 DEF PatchRouting
  <2>2. patches' \in 0..MaxPatches
    BY <1>3, UrgentConstants DEF PatchRouting, UrgentInv, UrgentTypeOK
  <2> QED BY <1>1, <1>3, <2>1, <2>2 DEF PatchRouting, UrgentInv, UrgentTypeOK
<1>4. CASE DayPasses
  BY <1>1, <1>4 DEF DayPasses, UrgentInv, UrgentTypeOK
<1>5. CASE UNCHANGED urgentVars
  BY <1>1, <1>5 DEF urgentVars, UrgentInv, UrgentTypeOK
<1> QED BY <1>2, <1>3, <1>4, <1>5 DEF UrgentNext

\* Two workers, a repeated job, a death or a lost answer never make one alert
\* leave twice, and a row that says sent is right (sendUrgent).
THEOREM AlertedOnceAlways == UrgentSpec => []AlertedOnce
<1>1. UrgentInv => AlertedOnce
  BY DEF UrgentInv
<1> QED BY <1>1, UrgentInitial, UrgentStep, PTL DEF UrgentSpec

-----------------------------------------------------------------------------
(* Links: a token is consumed by the one call that binds with it *)

\* A call that is about to consume carries a token.
Carried == \A h \in Hooks : hook[h].at = "consume" => hook[h].token \in Tokens

BoundOnce ==
  \A t \in Tokens :
    \/ token[t].status # "consumed" /\ binders[t] = {}
    \/ /\ token[t].status = "consumed"
       /\ \E h \in Hooks : binders[t] = {h} /\ hook[h].at = "ack" /\ hook[h].from = token[t].bound

LinkInv == LinkTypeOK /\ Carried /\ BoundOnce

TokenRows == [status : {"unused", "live", "expired", "deleted", "consumed"},
              bound : Senders \union {Unlinked}]
HookStates == [at : {"idle", "consume", "refused", "ack"},
               token : Tokens \union {NoToken}, from : Senders \union {Unlinked}]

LEMMA LinkInitial == LinkInit => LinkInv
<1> SUFFICES ASSUME LinkInit PROVE LinkInv
  OBVIOUS
<1>1. IdleHook \in HookStates /\ IdleHook.at = "idle"
  BY DEF IdleHook, HookStates
<1> HIDE DEF IdleHook
<1>2. LinkTypeOK
  BY <1>1 DEF LinkInit, LinkTypeOK, HookStates
<1>3. Carried /\ BoundOnce
  BY <1>1 DEF LinkInit, Carried, BoundOnce
<1> QED BY <1>2, <1>3 DEF LinkInv

\* A row that is not consumed gets another status, and no call moves.
LEMMA TokenTurns ==
  ASSUME LinkInv, token' \in [Tokens -> TokenRows], asking' \in [Requests -> {"idle", "create", "done"}],
         UNCHANGED <<chat, hook, binders>>,
         \A t \in Tokens : \/ token'[t] = token[t]
                           \/ token[t].status # "consumed" /\ token'[t].status # "consumed"
  PROVE  LinkInv'
<1>1. LinkTypeOK'
  BY DEF LinkInv, LinkTypeOK, TokenRows
<1>2. Carried' /\ BoundOnce'
  BY DEF LinkInv, Carried, BoundOnce
<1> QED BY <1>1, <1>2 DEF LinkInv

\* A call that has not bound anything moves, and does not.
LEMMA HookTurns ==
  ASSUME LinkInv, NEW h \in Hooks, NEW s \in HookStates, hook' = [hook EXCEPT ![h] = s],
         UNCHANGED <<chat, token, asking, binders>>,
         hook[h].at # "ack", s.at = "consume" => s.token \in Tokens
  PROVE  LinkInv'
<1>1. hook' \in [Hooks -> HookStates] /\ hook'[h] = s /\ \A g \in Hooks \ {h} : hook'[g] = hook[g]
  BY DEF LinkInv, LinkTypeOK, HookStates
<1>2. LinkTypeOK'
  BY <1>1 DEF LinkInv, LinkTypeOK, HookStates
<1>3. Carried'
  BY <1>1 DEF LinkInv, Carried
<1>4. BoundOnce'
  <2> SUFFICES ASSUME NEW t \in Tokens, token[t].status = "consumed"
               PROVE  \E g \in Hooks : binders[t] = {g} /\ hook'[g].at = "ack" /\ hook'[g].from = token[t].bound
    BY DEF LinkInv, BoundOnce
  <2>1. PICK g \in Hooks : binders[t] = {g} /\ hook[g].at = "ack" /\ hook[g].from = token[t].bound
    BY DEF LinkInv, BoundOnce
  <2>2. g # h
    BY <2>1
  <2> QED BY <1>1, <2>1, <2>2
<1> QED BY <1>2, <1>3, <1>4 DEF LinkInv

LEMMA LinkConsume ==
  ASSUME LinkInv, NEW h \in Hooks, ConsumeToken(h)
  PROVE  LinkInv'
<1> DEFINE t == hook[h].token
<1>1. hook[h] \in HookStates /\ t \in Tokens /\ hook[h].at = "consume"
  BY DEF ConsumeToken, LinkInv, LinkTypeOK, Carried, HookStates
<1>2. CASE Consumable(t)
  <2>1. /\ token' = [token EXCEPT ![t] = [status |-> "consumed", bound |-> hook[h].from]]
        /\ chat' = hook[h].from /\ binders' = [binders EXCEPT ![t] = @ \union {h}]
        /\ hook' = [hook EXCEPT ![h].at = "ack"] /\ UNCHANGED asking
    BY <1>2 DEF ConsumeToken
  <2>2. token[t].status = "live" /\ binders[t] = {}
    BY <1>1, <1>2 DEF Consumable, LinkInv, BoundOnce
  <2> DEFINE s == [hook[h] EXCEPT !.at = "ack"]
  <2>3. s \in HookStates /\ s.at = "ack" /\ s.from = hook[h].from /\ hook' = [hook EXCEPT ![h] = s]
    BY <1>1, <2>1 DEF HookStates
  <2> HIDE DEF s, t
  <2>4. /\ hook' \in [Hooks -> HookStates] /\ hook'[h] = s
        /\ \A g \in Hooks \ {h} : hook'[g] = hook[g]
    BY <2>3 DEF LinkInv, LinkTypeOK, HookStates
  <2>5. /\ token' \in [Tokens -> TokenRows] /\ token'[t].status = "consumed"
        /\ token'[t].bound = hook[h].from /\ \A u \in Tokens \ {t} : token'[u] = token[u]
    BY <1>1, <2>1 DEF LinkInv, LinkTypeOK, TokenRows, HookStates
  <2>6. /\ binders' \in [Tokens -> SUBSET Hooks] /\ binders'[t] = {h}
        /\ \A u \in Tokens \ {t} : binders'[u] = binders[u]
    BY <1>1, <2>1, <2>2 DEF LinkInv, LinkTypeOK
  <2>7. LinkTypeOK'
    BY <1>1, <2>1, <2>4, <2>5, <2>6 DEF LinkInv, LinkTypeOK, TokenRows, HookStates
  <2>8. Carried'
    BY <2>3, <2>4 DEF LinkInv, Carried
  <2>9. BoundOnce'
    <3> SUFFICES ASSUME NEW u \in Tokens
                 PROVE  \/ token'[u].status # "consumed" /\ binders'[u] = {}
                        \/ /\ token'[u].status = "consumed"
                           /\ \E g \in Hooks : /\ binders'[u] = {g} /\ hook'[g].at = "ack"
                                               /\ hook'[g].from = token'[u].bound
      BY DEF BoundOnce
    <3>1. CASE u = t
      BY <2>3, <2>4, <2>5, <2>6, <3>1
    <3>2. CASE u # t
      <4>1. token'[u] = token[u] /\ binders'[u] = binders[u]
        BY <2>5, <2>6, <3>2
      <4>2. CASE token[u].status = "consumed"
        <5>1. PICK g \in Hooks : binders[u] = {g} /\ hook[g].at = "ack" /\ hook[g].from = token[u].bound
          BY <4>2 DEF LinkInv, BoundOnce
        <5>2. hook'[g] = hook[g]
          BY <1>1, <2>4, <5>1
        <5> QED BY <4>1, <4>2, <5>1, <5>2
      <4> QED BY <4>1, <4>2 DEF LinkInv, BoundOnce
    <3> QED BY <3>1, <3>2
  <2> QED BY <2>7, <2>8, <2>9 DEF LinkInv
<1>3. CASE ~Consumable(t)
  <2> DEFINE s == [hook[h] EXCEPT !.at = "refused"]
  <2>1. hook' = [hook EXCEPT ![h] = s] /\ UNCHANGED <<chat, token, asking, binders>>
    BY <1>3 DEF ConsumeToken
  <2>2. s \in HookStates /\ s.at = "refused"
    BY <1>1 DEF HookStates
  <2> HIDE DEF s
  <2> QED BY <1>1, <2>1, <2>2, HookTurns
<1> QED BY <1>2, <1>3

LEMMA LinkStep == LinkInv /\ [LinkNext]_linkVars => LinkInv'
<1> SUFFICES ASSUME LinkInv, [LinkNext]_linkVars PROVE LinkInv'
  OBVIOUS
<1>0. token \in [Tokens -> TokenRows] /\ asking \in [Requests -> {"idle", "create", "done"}]
  BY DEF LinkInv, LinkTypeOK, TokenRows
<1>1. ASSUME NEW r \in Requests, ClearTokens(r) PROVE LinkInv'
  <2>1. \A t \in Tokens : /\ [token[t] EXCEPT !.status = "deleted"] \in TokenRows
                           /\ [token[t] EXCEPT !.status = "deleted"].status = "deleted"
    <3>1. \A t \in Tokens : token[t] \in TokenRows
      BY <1>0
    <3> QED BY <3>1 DEF TokenRows
  <2>3. /\ token' \in [Tokens -> TokenRows]
        /\ \A t \in Tokens : token[t].status \in {"live", "expired"} => token'[t].status = "deleted"
        /\ \A t \in Tokens : token[t].status \notin {"live", "expired"} => token'[t] = token[t]
    BY <1>0, <1>1, <2>1 DEF ClearTokens
  <2>2. \A t \in Tokens : \/ token'[t] = token[t]
                          \/ token[t].status # "consumed" /\ token'[t].status # "consumed"
    <3> TAKE t \in Tokens
    <3>1. CASE token[t].status \in {"live", "expired"}
      <4>1. token'[t].status = "deleted"
        BY <2>3, <3>1
      <4> QED BY <3>1, <4>1
    <3>2. CASE token[t].status \notin {"live", "expired"}
      <4>1. token'[t] = token[t]
        BY <2>3, <3>2
      <4> QED BY <4>1
    <3> QED BY <3>1, <3>2
  <2>4. asking' \in [Requests -> {"idle", "create", "done"}] /\ UNCHANGED <<chat, hook, binders>>
    BY <1>0, <1>1 DEF ClearTokens
  <2> QED BY <2>2, <2>3, <2>4, TokenTurns
<1>2. ASSUME NEW t \in Tokens, NEW status \in {"live", "expired"}, token[t].status # "consumed",
             token' = [token EXCEPT ![t].status = status],
             asking' \in [Requests -> {"idle", "create", "done"}], UNCHANGED <<chat, hook, binders>>
      PROVE  LinkInv'
  <2> DEFINE r == [token[t] EXCEPT !.status = status]
  <2>1. r \in TokenRows /\ r.status = status /\ token' = [token EXCEPT ![t] = r]
    BY <1>0, <1>2 DEF TokenRows
  <2> HIDE DEF r
  <2>2. /\ token' \in [Tokens -> TokenRows]
        /\ \A u \in Tokens : \/ token'[u] = token[u]
                             \/ token[u].status # "consumed" /\ token'[u].status # "consumed"
    <3>1. token' \in [Tokens -> TokenRows] /\ token'[t] = r
          /\ \A u \in Tokens \ {t} : token'[u] = token[u]
      BY <1>0, <2>1
    <3>2. token'[t].status # "consumed"
      BY <2>1, <3>1
    <3>3. \A u \in Tokens : u = t \/ token'[u] = token[u]
      BY <3>1
    <3> QED BY <1>2, <3>1, <3>2, <3>3
  <2> QED BY <1>2, <2>2, TokenTurns
<1>3. ASSUME NEW r \in Requests, CreateToken(r) PROVE LinkInv'
  <2>1. PICK t \in Tokens : token[t].status = "unused" /\ token' = [token EXCEPT ![t].status = "live"]
    BY <1>3 DEF CreateToken
  <2> QED BY <1>0, <1>2, <1>3, <2>1 DEF CreateToken
<1>4. ASSUME NEW t \in Tokens, TokenLapses(t) PROVE LinkInv'
  BY <1>0, <1>2, <1>4 DEF TokenLapses
<1>5. ASSUME NEW h \in Hooks, ReadToken(h) PROVE LinkInv'
  <2>1. PICK t \in Tokens, c \in Senders :
          hook' = [hook EXCEPT ![h] = [at |-> IF token[t].status = "live" THEN "consume" ELSE "refused",
                                       token |-> t, from |-> c]]
    BY <1>5 DEF ReadToken
  <2> DEFINE s == [at |-> IF token[t].status = "live" THEN "consume" ELSE "refused",
                   token |-> t, from |-> c]
  <2>2. s \in HookStates /\ s.token \in Tokens
    BY DEF HookStates
  <2>3. hook' = [hook EXCEPT ![h] = s]
    BY <2>1
  <2> HIDE DEF s
  <2> QED BY <1>5, <2>2, <2>3, HookTurns DEF ReadToken
<1>6. ASSUME NEW h \in Hooks, ConsumeToken(h) PROVE LinkInv'
  BY <1>6, LinkConsume
<1>7. CASE PatchChat \/ UNCHANGED linkVars
  <2>1. chat' \in Senders \union {Unlinked} /\ UNCHANGED <<token, asking, hook, binders>>
    BY <1>7 DEF PatchChat, linkVars, LinkInv, LinkTypeOK
  <2> QED BY <2>1 DEF LinkInv, LinkTypeOK, Carried, BoundOnce
<1> QED BY <1>1, <1>3, <1>4, <1>5, <1>6, <1>7 DEF LinkNext

\* A registration token links one chat, by one call, however often Telegram
\* repeats the update; a replaced or lapsed one links none (handleWebhookUpdate).
THEOREM TokenLinksOnceAlways == LinkSpec => []TokenLinksOnce
<1>1. ASSUME LinkInv PROVE TokenLinksOnce
  <2> SUFFICES ASSUME NEW t \in Tokens
               PROVE  /\ Cardinality(binders[t]) <= 1
                      /\ (binders[t] # {}) = (token[t].status = "consumed")
                      /\ \A h \in binders[t] : token[t].bound = hook[h].from
    BY DEF TokenLinksOnce
  <2>1. CASE token[t].status # "consumed"
    <3>1. binders[t] = {}
      BY <1>1, <2>1 DEF LinkInv, BoundOnce
    <3> QED BY <2>1, <3>1, FS_EmptySet
  <2>2. CASE token[t].status = "consumed"
    <3>1. PICK h \in Hooks : binders[t] = {h} /\ hook[h].from = token[t].bound
      BY <1>1, <2>2 DEF LinkInv, BoundOnce
    <3>2. Cardinality({h}) = 1
      BY FS_Singleton
    <3> QED BY <2>2, <3>1, <3>2
  <2> QED BY <2>1, <2>2
<1> QED BY <1>1, LinkInitial, LinkStep, PTL DEF LinkSpec

-----------------------------------------------------------------------------
(* Holds in the calendar                                                    *)
\* A request that executes holds the lease of an approved row; a claim is never
\* given back; and what a row or a request says of the provider is so.
RowTruthful(k) ==
  /\ running[k] # "idle" => row[k].status = "approved" /\ row[k].attempt = "leased"
  /\ row[k].attempt # "none" => row[k].status \in {"approved", "executed", "failed"}
  /\ row[k].status \in {"executed", "failed"} => row[k].attempt # "none"
  /\ row[k].outcomes # {} => row[k].attempt # "none" /\ running[k] = "idle"
  /\ running[k] \in {"claimed", "checked", "mock"}
       \/ "no_external_effect_observed" \in row[k].outcomes
       \/ row[k].attempt = "none" => k \notin made
  /\ k \in made /\ row[k].status = "executed" => show.link = k /\ row[k].mode = "real"

\* An attempt that did nothing in the provider, and never will.
Dead(k) ==
  /\ k \notin made /\ running[k] = "idle"
  /\ row[k].status = "rejected" \/ row[k].attempt # "none"

EarlierDead(k) == \A j \in SourceKeys : j[1] = k[1] /\ j[2] < k[2] => Dead(j)

\* Attempts are prepared, and planned, on dead ones only.
Successive ==
  /\ \A k \in Prepared : EarlierDead(k)
  /\ \A q \in Preparers : reading[q] # NoHold => EarlierDead(reading[q])

\* The approvals have a most recent one, and those of a version a highest one.
Ordered ==
  /\ \A ks \in SUBSET Prepared : ks # {} => \E k \in ks : \A j \in ks \ {k} : <<k, j>> \in newer
  /\ \A v \in Versions : OfVersion(Prepared, v) # {} =>
       \E k \in OfVersion(Prepared, v) : \A j \in OfVersion(Prepared, v) : j[2] <= k[2]

HoldInv ==
  /\ LogisticsTypeOK
  /\ \A k \in SourceKeys : RowTruthful(k)
  /\ Successive
  /\ Ordered

-----------------------------------------------------------------------------
RunStates == {"idle", "claimed", "checked", "real", "mock"}
Rows == [status : Statuses, attempt : Attempts, mode : {"none", "real", "mock"},
         outcomes : SUBSET Conclusive]

LEMMA RowTyped == LogisticsTypeOK => row \in [SourceKeys -> Rows]
BY DEF LogisticsTypeOK, Rows

LEMMA LogisticsInitial == LogisticsInit => HoldInv
<1> SUFFICES ASSUME LogisticsInit PROVE HoldInv
  OBVIOUS
<1>1. NoRow \in Rows /\ NoRow.status = "absent" /\ NoRow.attempt = "none" /\ NoRow.outcomes = {}
  BY DEF NoRow, Rows, Statuses, Attempts
<1>2. LogisticsTypeOK
  BY <1>1 DEF LogisticsInit, LogisticsTypeOK, Rows
<1>3. ASSUME NEW k \in SourceKeys PROVE RowTruthful(k)
  BY <1>1 DEF LogisticsInit, RowTruthful
<1>4. Prepared = {}
  BY <1>1 DEF LogisticsInit, Prepared
<1>5. Successive /\ Ordered
  BY <1>4 DEF LogisticsInit, Successive, Ordered, OfVersion
<1> QED BY <1>2, <1>3, <1>5 DEF HoldInv

\* What ks has most recently is one of them.
LEMMA LatestAmong ==
  ASSUME Ordered, NEW ks \in SUBSET Prepared, ks # {}
  PROVE  Latest(ks) \in ks
BY DEF Ordered, Latest

LEMMA NewestAmong ==
  ASSUME Ordered, NEW v \in Versions, OfVersion(Prepared, v) # {}
  PROVE  /\ Newest(OfVersion(Prepared, v)) \in OfVersion(Prepared, v)
         /\ \A j \in OfVersion(Prepared, v) : j[2] <= Newest(OfVersion(Prepared, v))[2]
BY DEF Ordered, Newest

-----------------------------------------------------------------------------
(* What a preparation, or a step of one approval, leaves of the others *)

LEMMA OrderKept ==
  ASSUME HoldInv, NEW k \in SourceKeys, Prepared' = Prepared \union {k}, Touch(k),
         \A j \in Prepared : j[1] = k[1] => j[2] \in Nat,
         k[2] \in Nat, k[1] \in Versions
  PROVE  Ordered'
<1>1. ASSUME NEW ks \in SUBSET Prepared', ks # {}
      PROVE  \E i \in ks : \A j \in ks \ {i} : <<i, j>> \in newer'
  <2>1. CASE k \in ks
    BY <2>1 DEF Touch
  <2>2. CASE k \notin ks
    <3>1. ks \in SUBSET Prepared
      BY <2>2
    <3>2. PICK i \in ks : \A j \in ks \ {i} : <<i, j>> \in newer
      BY <1>1, <3>1 DEF HoldInv, Ordered
    <3>3. \A j \in ks \ {i} : <<i, j>> \in newer'
      BY <2>2, <3>2 DEF Touch
    <3> QED BY <3>3
  <2> QED BY <2>1, <2>2
<1>2. ASSUME NEW v \in Versions, OfVersion(Prepared', v) # {}
      PROVE  \E i \in OfVersion(Prepared', v) : \A j \in OfVersion(Prepared', v) : j[2] <= i[2]
  <2>1. CASE v # k[1]
    BY <1>2, <2>1 DEF HoldInv, Ordered, OfVersion
  <2>2. CASE v = k[1] /\ OfVersion(Prepared, v) = {}
    BY <2>2 DEF OfVersion
  <2>3. CASE v = k[1] /\ OfVersion(Prepared, v) # {}
    <3>1. PICK i \in OfVersion(Prepared, v) : \A j \in OfVersion(Prepared, v) : j[2] <= i[2]
      BY <2>3 DEF HoldInv, Ordered
    <3>2. CASE k[2] <= i[2]
      BY <3>1, <3>2 DEF OfVersion
    <3>3. CASE i[2] < k[2]
      <4>1. \A j \in OfVersion(Prepared', v) : j[2] <= k[2]
        BY <2>3, <3>1, <3>3 DEF OfVersion
      <4> QED BY <2>3, <4>1 DEF OfVersion
    <3> QED BY <2>3, <3>1, <3>2, <3>3 DEF OfVersion
  <2> QED BY <2>1, <2>2, <2>3
<1> QED BY <1>1, <1>2 DEF Ordered, OfVersion

\* One approval gets the row r and its request moves on to at.
Moves(k, r, at) ==
  /\ row' = [row EXCEPT ![k] = r] /\ running' = [running EXCEPT ![k] = at]
  /\ Touch(k) \/ newer' = newer
  /\ reading' = reading

LEMMA MovesKept ==
  ASSUME HoldInv, NEW k \in SourceKeys, NEW r \in Rows, NEW at \in RunStates, Moves(k, r, at),
         row[k].status # "absent", r.status # "absent",
         made' = made \/ made' = made \union {k},
         show' \in [version : Versions, confirmed : BOOLEAN, link : SourceKeys \union {NoHold}],
         \A j \in made \ {k} : row[j].status = "executed" => show'.link = j,
         Dead(k) => Dead(k)', RowTruthful(k)'
  PROVE  HoldInv'
<1>1. row \in [SourceKeys -> Rows] /\ running \in [SourceKeys -> RunStates]
  BY RowTyped DEF HoldInv, LogisticsTypeOK, RunStates
<1>2. \A j \in SourceKeys \ {k} : /\ row'[j] = row[j] /\ running'[j] = running[j]
                                  /\ j \in made' <=> j \in made
  BY <1>1 DEF Moves
<1>3. row'[k] = r /\ running'[k] = at
  BY <1>1 DEF Moves
<1>4. row' \in [SourceKeys -> Rows] /\ running' \in [SourceKeys -> RunStates]
  BY <1>1 DEF Moves
<1>5. Prepared' = Prepared
  BY <1>2, <1>3 DEF Prepared
<1>6. LogisticsTypeOK'
  <2>1. newer' \subseteq SourceKeys \X SourceKeys
    BY DEF HoldInv, LogisticsTypeOK, Moves, Touch, Prepared
  <2>2. reading' \in [Preparers -> SourceKeys \union {NoHold}] /\ made' \subseteq SourceKeys
    BY DEF HoldInv, LogisticsTypeOK, Moves
  <2> QED BY <1>4, <2>1, <2>2 DEF LogisticsTypeOK, Rows, RunStates
<1>7. ASSUME NEW j \in SourceKeys PROVE RowTruthful(j)'
  <2>1. CASE j = k
    BY <2>1
  <2>2. CASE j # k
    BY <1>2, <2>2 DEF HoldInv, RowTruthful
  <2> QED BY <2>1, <2>2
<1>8. \A j \in SourceKeys : Dead(j) => Dead(j)'
  BY <1>2 DEF Dead
<1>9. Successive'
  BY <1>5, <1>8, LogisticsConstants DEF HoldInv, Successive, EarlierDead, Moves, Prepared, LogisticsTypeOK
<1>10. Ordered'
  <2>1. CASE newer' = newer
    BY <1>5, <2>1 DEF HoldInv, Ordered, OfVersion
  <2>2. CASE Touch(k)
    <3>1. k \in Prepared /\ k[1] \in Versions /\ k[2] \in Nat /\ \A j \in Prepared : j[2] \in Nat
      BY LogisticsConstants DEF Prepared, SourceKeys
    <3> QED BY <1>5, <2>2, <3>1, OrderKept
  <2> QED BY <2>1, <2>2 DEF Moves
<1> QED BY <1>6, <1>7, <1>9, <1>10 DEF HoldInv

-----------------------------------------------------------------------------
(* Deciding and executing *)

LEMMA DecideKept == ASSUME HoldInv, NEW k \in SourceKeys, Decide(k) PROVE HoldInv'
<1>1. row \in [SourceKeys -> Rows] /\ running \in [SourceKeys -> RunStates]
  BY RowTyped DEF HoldInv, LogisticsTypeOK, RunStates
<1>2. PICK decision \in {"approved", "rejected"} : Write(k, [row[k] EXCEPT !.status = decision])
  BY DEF Decide
<1> DEFINE r == [row[k] EXCEPT !.status = decision]
<1>3. r \in Rows /\ r.status = decision /\ r.attempt = row[k].attempt /\ r.outcomes = row[k].outcomes
  BY <1>1 DEF Rows, Statuses
<1>4. Moves(k, r, running[k]) /\ made' = made /\ show' = show
  BY <1>1, <1>2 DEF Decide, Write, Moves
<1> HIDE DEF r
<1>5. row[k].status = "pending" /\ row'[k] = r /\ running'[k] = running[k]
  BY <1>1, <1>4 DEF Decide, Moves
<1>6. RowTruthful(k)' /\ ~Dead(k)
  BY <1>3, <1>4, <1>5 DEF HoldInv, RowTruthful, Dead
<1>7. \A j \in made \ {k} : row[j].status = "executed" => show'.link = j
  BY <1>4 DEF HoldInv, RowTruthful, LogisticsTypeOK
<1> QED BY <1>1, <1>3, <1>4, <1>5, <1>6, <1>7, MovesKept DEF HoldInv, LogisticsTypeOK

LEMMA ClaimKept == ASSUME HoldInv, NEW k \in SourceKeys, Claim(k) PROVE HoldInv'
<1>1. row \in [SourceKeys -> Rows] /\ running \in [SourceKeys -> RunStates]
  BY RowTyped DEF HoldInv, LogisticsTypeOK, RunStates
<1> DEFINE r == [row[k] EXCEPT !.attempt = "leased"]
<1>3. r \in Rows /\ r.status = row[k].status /\ r.attempt = "leased" /\ r.outcomes = row[k].outcomes
  BY <1>1 DEF Rows, Attempts
<1>4. Moves(k, r, "claimed") /\ made' = made /\ show' = show
  BY <1>1 DEF Claim, Write, Moves
<1> HIDE DEF r
<1>5. /\ row[k].status = "approved" /\ row[k].attempt = "none"
      /\ row'[k] = r /\ running'[k] = "claimed"
  BY <1>1, <1>4 DEF Claim, Moves
<1>6. RowTruthful(k)' /\ ~Dead(k)
  BY <1>3, <1>4, <1>5 DEF HoldInv, RowTruthful, Dead
<1>7. \A j \in made \ {k} : row[j].status = "executed" => show'.link = j
  BY <1>4 DEF HoldInv, RowTruthful, LogisticsTypeOK
<1> QED BY <1>3, <1>4, <1>5, <1>6, <1>7, MovesKept DEF HoldInv, LogisticsTypeOK, RunStates

\* A request stops, its row failed with what is known of the mode.
LEMMA FailKept ==
  ASSUME HoldInv, NEW k \in SourceKeys, running[k] # "idle", NEW mode \in {"none", "real", "mock"},
         Fail(k, mode), running' = [running EXCEPT ![k] = "idle"], UNCHANGED <<show, reading>>,
         made' = made \/ made' = made \union {k}
  PROVE  HoldInv'
<1>1. row \in [SourceKeys -> Rows] /\ running \in [SourceKeys -> RunStates]
  BY RowTyped DEF HoldInv, LogisticsTypeOK, RunStates
<1> DEFINE r == [row[k] EXCEPT !.status = "failed", !.mode = mode]
<1>3. r \in Rows /\ r.status = "failed" /\ r.attempt = row[k].attempt /\ r.outcomes = row[k].outcomes
  BY <1>1 DEF Rows, Statuses
<1>4. Moves(k, r, "idle")
  BY <1>1 DEF Fail, Write, Moves
<1> HIDE DEF r
<1>5. /\ row[k].status = "approved" /\ row[k].attempt = "leased" /\ row[k].outcomes = {}
      /\ row'[k] = r /\ running'[k] = "idle"
  BY <1>1, <1>4 DEF HoldInv, RowTruthful, Moves
<1>6. RowTruthful(k)' /\ ~Dead(k)
  BY <1>3, <1>5 DEF RowTruthful, Dead
<1>7. \A j \in made \ {k} : row[j].status = "executed" => show'.link = j
  BY DEF HoldInv, RowTruthful, LogisticsTypeOK
<1> QED BY <1>3, <1>4, <1>5, <1>6, <1>7, MovesKept DEF HoldInv, LogisticsTypeOK, RunStates

\* A request moves on, or dies, and its row stays as it is.
LEMMA GoesKept ==
  ASSUME HoldInv, NEW k \in SourceKeys, running[k] # "idle", NEW at \in RunStates,
         running' = [running EXCEPT ![k] = at], UNCHANGED <<show, row, newer, reading>>,
         made' = made \/ made' = made \union {k},
         at \in {"claimed", "checked", "mock"} => k \notin made'
  PROVE  HoldInv'
<1>1. row \in [SourceKeys -> Rows] /\ running \in [SourceKeys -> RunStates]
  BY RowTyped DEF HoldInv, LogisticsTypeOK, RunStates
<1>4. Moves(k, row[k], at)
  BY <1>1 DEF Moves
<1>5. /\ row[k].status = "approved" /\ row[k].attempt = "leased" /\ row[k].outcomes = {}
      /\ row'[k] = row[k] /\ running'[k] = at
  BY <1>1, <1>4 DEF HoldInv, RowTruthful, Moves
<1>6. RowTruthful(k)' /\ ~Dead(k)
  BY <1>5 DEF RowTruthful, Dead
<1>7. \A j \in made \ {k} : row[j].status = "executed" => show'.link = j
  BY DEF HoldInv, RowTruthful, LogisticsTypeOK
<1> QED BY <1>1, <1>4, <1>5, <1>6, <1>7, MovesKept DEF HoldInv, LogisticsTypeOK

LEMMA ExecutingKept == ASSUME HoldInv, NEW k \in SourceKeys, Executing(k) PROVE HoldInv'
<1>1. row \in [SourceKeys -> Rows] /\ running \in [SourceKeys -> RunStates]
  BY RowTyped DEF HoldInv, LogisticsTypeOK, RunStates
<1>2. CASE Claim(k)
  BY <1>2, ClaimKept
<1>3. CASE Check(k)
  <2>1. running[k] = "claimed" /\ k \notin made
    BY <1>3 DEF Check, HoldInv, RowTruthful
  <2>2. CASE MayLink(k)
    BY <1>3, <2>1, <2>2, GoesKept DEF Check, RunStates
  <2>3. CASE ~MayLink(k)
    BY <1>3, <2>1, <2>3, FailKept DEF Check
  <2> QED BY <2>2, <2>3
<1>4. ASSUME NEW reply \in {"real", "mock", "lost", "error"}, CallProvider(k, reply) PROVE HoldInv'
  <2>1. running[k] = "checked" /\ k \notin made
    BY <1>4 DEF CallProvider, HoldInv, RowTruthful
  <2>2. made' = made \/ made' = made \union {k}
    BY <1>4 DEF CallProvider
  <2>3. CASE reply \in {"real", "mock"}
    BY <1>4, <2>1, <2>2, <2>3, GoesKept DEF CallProvider, RunStates
  <2>4. CASE reply \notin {"real", "mock"}
    BY <1>4, <2>1, <2>2, <2>4, FailKept DEF CallProvider
  <2> QED BY <2>3, <2>4
<1>5. CASE Finalize(k)
  <2>1. running[k] \in {"real", "mock"} /\ UNCHANGED <<reading, made>>
        /\ running' = [running EXCEPT ![k] = "idle"]
    BY <1>5 DEF Finalize
  <2>2. CASE ~MayLink(k)
    BY <1>5, <2>1, <2>2, FailKept DEF Finalize
  <2>3. CASE MayLink(k)
    <3> DEFINE r == [row[k] EXCEPT !.status = "executed", !.mode = running[k]]
    <3>1. /\ r \in Rows /\ r.status = "executed" /\ r.mode = running[k]
          /\ r.attempt = row[k].attempt /\ r.outcomes = row[k].outcomes
      BY <1>1, <2>1 DEF Rows, Statuses
    <3>2. Moves(k, r, "idle") /\ show' = [show EXCEPT !.link = k]
      BY <1>1, <1>5, <2>1, <2>3 DEF Finalize, Write, Moves
    <3> HIDE DEF r
    <3>3. /\ row[k].status = "approved" /\ row[k].attempt = "leased" /\ row[k].outcomes = {}
          /\ row'[k] = r /\ running'[k] = "idle"
      BY <1>1, <2>1, <3>2 DEF HoldInv, RowTruthful, Moves
    <3>4. /\ show'.link = k
          /\ show' \in [version : Versions, confirmed : BOOLEAN, link : SourceKeys \union {NoHold}]
      BY <3>2 DEF HoldInv, LogisticsTypeOK
    <3>5. k \in made => running[k] = "real"
      BY <2>1 DEF HoldInv, RowTruthful
    <3>6. RowTruthful(k)' /\ ~Dead(k)
      BY <2>1, <3>1, <3>3, <3>4, <3>5 DEF RowTruthful, Dead
    <3>7. \A j \in made \ {k} : row[j].status # "executed"
      <4> SUFFICES ASSUME NEW j \in made, row[j].status = "executed" PROVE FALSE
        OBVIOUS
      <4>1. j \in SourceKeys /\ show.link = j /\ row[j].mode = "real"
        BY DEF HoldInv, RowTruthful, LogisticsTypeOK
      <4> QED BY <2>3, <4>1, LogisticsConstants DEF MayLink, Simulated
    <3> QED BY <2>1, <3>1, <3>2, <3>3, <3>4, <3>6, <3>7, MovesKept DEF RunStates
  <2> QED BY <2>2, <2>3
<1>6. CASE Die(k)
  BY <1>6, GoesKept DEF Die, RunStates
<1>7. CASE LeaseEnds(k)
  <2> DEFINE r == [row[k] EXCEPT !.attempt = "expired"]
  <2>1. /\ r \in Rows /\ r.attempt = "expired" /\ r.status = row[k].status /\ r.mode = row[k].mode
        /\ r.outcomes = row[k].outcomes
    BY <1>1 DEF Rows, Attempts
  <2>2. Moves(k, r, "idle") /\ made' = made /\ show' = show
    BY <1>1, <1>7 DEF LeaseEnds, Moves
  <2> HIDE DEF r
  <2>3. row[k].attempt = "leased" /\ running[k] = "idle" /\ row'[k] = r /\ running'[k] = "idle"
    BY <1>1, <1>7, <2>2 DEF LeaseEnds, Moves
  <2>4. RowTruthful(k)' /\ (Dead(k) => Dead(k)') /\ row[k].status # "absent"
    BY <2>1, <2>2, <2>3 DEF HoldInv, RowTruthful, Dead
  <2>5. \A j \in made \ {k} : row[j].status = "executed" => show'.link = j
    BY <2>2 DEF HoldInv, RowTruthful, LogisticsTypeOK
  <2> QED BY <2>1, <2>2, <2>4, <2>5, MovesKept DEF HoldInv, LogisticsTypeOK, RunStates
<1> QED BY <1>2, <1>3, <1>4, <1>5, <1>6, <1>7 DEF Executing

LEMMA ReconcileKept == ASSUME HoldInv, NEW k \in SourceKeys, Reconcile(k) PROVE HoldInv'
<1>1. row \in [SourceKeys -> Rows] /\ running \in [SourceKeys -> RunStates]
  BY RowTyped DEF HoldInv, LogisticsTypeOK, RunStates
<1> DEFINE seen == IF k \in made THEN "external_effect_observed" ELSE "no_external_effect_observed"
           r == [row[k] EXCEPT !.outcomes = {seen}]
<1>2. /\ r \in Rows /\ r.status = row[k].status /\ r.attempt = row[k].attempt
      /\ r.mode = row[k].mode /\ r.outcomes = {seen}
  BY <1>1 DEF Rows, Conclusive
<1>3. Moves(k, r, running[k]) /\ made' = made /\ show' = show
  BY <1>1 DEF Reconcile, Write, Moves
<1>4. "no_external_effect_observed" \in r.outcomes => k \notin made
  BY <1>2
<1> HIDE DEF r
<1>5. row'[k] = r /\ running'[k] = running[k]
  BY <1>1, <1>3 DEF Moves
<1>6. row[k].attempt # "none" /\ row[k].status # "absent" /\ running[k] = "idle"
  BY <1>1 DEF Reconcile, NeedsReconciliation, LeaseActive, HoldInv, RowTruthful
<1>7. RowTruthful(k)' /\ (Dead(k) => Dead(k)')
  BY <1>2, <1>3, <1>4, <1>5, <1>6 DEF HoldInv, RowTruthful, Dead
<1>8. \A j \in made \ {k} : row[j].status = "executed" => show'.link = j
  BY <1>3 DEF HoldInv, RowTruthful, LogisticsTypeOK
<1> QED BY <1>1, <1>2, <1>3, <1>6, <1>7, <1>8, MovesKept DEF HoldInv, LogisticsTypeOK

-----------------------------------------------------------------------------
(* Preparing *)

\* The row whose state the channel shows, when that state allows an attempt, is a
\* dead one of this version, or this version has none.
LEMMA PlannedOnDead ==
  ASSUME HoldInv, Preparable \/ Retryable
  PROVE  Current # NoHold => Current \in SourceKeys /\ Dead(Current)
<1> SUFFICES ASSUME Current # NoHold PROVE Current \in SourceKeys /\ Dead(Current)
  OBVIOUS
<1>1. show.version \in Versions /\ show.link \in SourceKeys \union {NoHold}
  BY DEF HoldInv, LogisticsTypeOK
<1>2. Current \in OfVersion(Prepared, show.version)
  BY <1>1, NewestAmong DEF HoldInv, Current
<1>3. Current \in Prepared /\ Current \in SourceKeys
  BY <1>2 DEF OfVersion, Prepared
<1>4. row[Current] \in Rows /\ RowTruthful(Current)
  BY <1>3, RowTyped DEF HoldInv
<1>5. Quarantined = NoHold
  <2> SUFFICES ASSUME Quarantined # NoHold PROVE FALSE
    OBVIOUS
  <2>1. RowState(Quarantined) \in Ambiguous
    <3> DEFINE ks == {k \in Prepared : RowState(k) \in Ambiguous}
    <3>1. Quarantined = LatestOr(ks) /\ LatestOr(ks) # NoHold
      BY DEF Quarantined
    <3>2. ks # {} => Latest(ks) \in ks
      BY LatestAmong DEF HoldInv
    <3> QED BY <3>1, <3>2 DEF LatestOr
  <2>2. ChannelState = RowState(Quarantined)
    BY DEF ChannelState
  <2> QED BY <2>1, <2>2 DEF Preparable, Retryable, Ambiguous
<1>6. CASE show.link # NoHold
  <2>1. ChannelState \in {"stale", "simulated", "complete"}
        /\ (ChannelState = "simulated" => Simulated(Current))
    BY <1>5, <1>6 DEF ChannelState
  <2>2. Simulated(Current)
    BY <1>6, <2>1 DEF Preparable, Retryable
  <2> QED BY <1>3, <1>4, <2>2 DEF Simulated, RowTruthful, Dead
<1>7. CASE show.link = NoHold
  <2>1. ChannelState = RowState(Current)
    BY <1>5, <1>7 DEF ChannelState
  <2>2. RowState(Current) \in {"rejected", "simulated", "reconciled_no_external_effect",
                               "not_prepared", "stale"}
    BY <2>1 DEF Preparable, Retryable
  <2>3. \/ row[Current].status = "rejected"
        \/ "no_external_effect_observed" \in row[Current].outcomes
    BY <1>4, <2>2 DEF RowState, Rows, Statuses
  <2> QED BY <1>3, <1>4, <2>3 DEF RowTruthful, Dead
<1> QED BY <1>6, <1>7

LEMMA ReadPlanKept == ASSUME HoldInv, NEW q \in Preparers, ReadPlan(q) PROVE HoldInv'
<1> DEFINE k == <<show.version, NextAttempt>>
<1>1. show.version \in Versions /\ (Preparable \/ Retryable) /\ NextAttempt <= MaxAttempts
      /\ reading' = [reading EXCEPT ![q] = k] /\ UNCHANGED <<show, row, running, newer, made>>
  BY DEF ReadPlan, HoldInv, LogisticsTypeOK
<1>2. k \in SourceKeys /\ EarlierDead(k)
  <2>1. CASE Current = NoHold
    <3>1. NextAttempt = 1
      BY <2>1 DEF NextAttempt
    <3> QED BY <1>1, <3>1, LogisticsConstants DEF SourceKeys, EarlierDead
  <2>2. CASE Current # NoHold
    <3>1. Current \in SourceKeys /\ Dead(Current)
      BY <1>1, <2>2, PlannedOnDead
    <3>2. Current[1] = show.version /\ Current \in Prepared
      BY <1>1, <2>2, NewestAmong DEF HoldInv, Current, OfVersion
    <3>3. NextAttempt = Current[2] + 1 /\ Current[2] \in 1..MaxAttempts
      BY <2>2, <3>1 DEF NextAttempt, SourceKeys
    <3>4. EarlierDead(Current)
      BY <3>2 DEF HoldInv, Successive
    <3>5. ASSUME NEW j \in SourceKeys, j[1] = show.version, j[2] < Current[2] + 1 PROVE Dead(j)
      <4>1. CASE j[2] < Current[2]
        BY <3>2, <3>4, <3>5, <4>1 DEF EarlierDead
      <4>2. CASE j[2] = Current[2]
        <5>1. j = Current
          BY <3>1, <3>2, <3>5, <4>2 DEF SourceKeys
        <5> QED BY <3>1, <5>1
      <4> QED BY <3>3, <3>5, <4>1, <4>2, LogisticsConstants DEF SourceKeys
    <3> QED BY <1>1, <3>3, <3>5, LogisticsConstants DEF SourceKeys, EarlierDead
  <2> QED BY <2>1, <2>2
<1> HIDE DEF k
<1>3. LogisticsTypeOK'
  BY <1>1, <1>2 DEF HoldInv, LogisticsTypeOK
<1>4. \A j \in SourceKeys : RowTruthful(j)'
  BY <1>1 DEF HoldInv, RowTruthful
<1>5. Prepared' = Prepared /\ \A j \in SourceKeys : EarlierDead(j) => EarlierDead(j)'
  BY <1>1 DEF Prepared, EarlierDead, Dead
<1>6. Successive'
  <2>1. ASSUME NEW p \in Preparers, reading'[p] # NoHold
        PROVE  EarlierDead(reading[p])'
    <3>1. reading'[p] \in SourceKeys /\ EarlierDead(reading'[p])
      BY <1>1, <1>2, <2>1 DEF HoldInv, Successive, LogisticsTypeOK
    <3> QED BY <1>1, <3>1 DEF EarlierDead, Dead
  <2> QED BY <1>5, <2>1 DEF HoldInv, Successive, Prepared
<1>7. Ordered'
  BY <1>1, <1>5 DEF HoldInv, Ordered, OfVersion
<1> QED BY <1>3, <1>4, <1>6, <1>7 DEF HoldInv

LEMMA CreatePlannedKept == ASSUME HoldInv, NEW q \in Preparers, CreatePlanned(q) PROVE HoldInv'
<1>0. PICK k \in SourceKeys : k = reading[q]
  BY DEF CreatePlanned, HoldInv, LogisticsTypeOK
<1>1. /\ EarlierDead(k)
      /\ reading' = [reading EXCEPT ![q] = NoHold] /\ UNCHANGED <<show, running, made>>
  BY <1>0, LogisticsConstants DEF CreatePlanned, HoldInv, Successive
<1>2. row \in [SourceKeys -> Rows]
  BY RowTyped DEF HoldInv
<1>3. reading' \in [Preparers -> SourceKeys \union {NoHold}]
      /\ \A p \in Preparers : reading'[p] # NoHold => reading'[p] = reading[p]
  BY <1>1 DEF HoldInv, LogisticsTypeOK
<1>4. CASE row[k].status # "absent"
  <2>1. UNCHANGED <<row, newer>>
    BY <1>0, <1>4 DEF CreatePlanned
  <2>2. Prepared' = Prepared /\ \A j \in SourceKeys : EarlierDead(j) => EarlierDead(j)'
    BY <1>1, <2>1 DEF Prepared, EarlierDead, Dead
  <2>3. Successive'
    BY <1>3, <2>2 DEF HoldInv, Successive, LogisticsTypeOK, Prepared
  <2>4. LogisticsTypeOK' /\ Ordered'
    BY <1>1, <1>3, <2>1, <2>2 DEF HoldInv, LogisticsTypeOK, Ordered, OfVersion
  <2>5. \A j \in SourceKeys : RowTruthful(j)'
    BY <1>1, <2>1 DEF HoldInv, RowTruthful
  <2> QED BY <2>3, <2>4, <2>5 DEF HoldInv
<1>5. CASE row[k].status = "absent"
  <2> DEFINE r == [row[k] EXCEPT !.status = "pending"]
  <2>1. row' = [row EXCEPT ![k] = r] /\ Touch(k)
    BY <1>0, <1>2, <1>5 DEF CreatePlanned
  <2>2. /\ r \in Rows /\ r.status = "pending" /\ r.attempt = row[k].attempt
        /\ r.outcomes = row[k].outcomes /\ r.mode = row[k].mode
    BY <1>1, <1>2 DEF Rows, Statuses
  <2> HIDE DEF r
  <2>3. row'[k] = r /\ row' \in [SourceKeys -> Rows] /\ \A j \in SourceKeys \ {k} : row'[j] = row[j]
    BY <1>1, <1>2, <2>1, <2>2
  <2>4. row[k].attempt = "none" /\ running[k] = "idle" /\ k \notin made
    BY <1>1, <1>5 DEF HoldInv, RowTruthful
  <2>5. LogisticsTypeOK'
    <3>1. newer' \subseteq SourceKeys \X SourceKeys
      BY <1>1, <2>1 DEF HoldInv, LogisticsTypeOK, Touch, Prepared
    <3> QED BY <1>1, <1>3, <2>3, <3>1 DEF HoldInv, LogisticsTypeOK, Rows
  <2>6. \A j \in SourceKeys : RowTruthful(j)'
    <3>1. RowTruthful(k)'
      BY <1>1, <2>2, <2>3, <2>4 DEF HoldInv, RowTruthful
    <3>2. \A j \in SourceKeys \ {k} : RowTruthful(j)'
      BY <1>1, <2>3 DEF HoldInv, RowTruthful
    <3> QED BY <3>1, <3>2
  <2>7. \A j \in SourceKeys : Dead(j) => Dead(j)'
    BY <1>1, <1>5, <2>3, <2>4 DEF HoldInv, RowTruthful, Dead
  <2>8. \A j \in SourceKeys : EarlierDead(j) => EarlierDead(j)'
    BY <2>7 DEF EarlierDead
  <2>9. Prepared' = Prepared \union {k}
    BY <1>1, <2>2, <2>3 DEF Prepared
  <2>10. Successive'
    BY <1>1, <1>3, <2>8, <2>9 DEF HoldInv, Successive, LogisticsTypeOK, Prepared
  <2>11. Ordered'
    <3>1. k[1] \in Versions /\ k[2] \in Nat /\ \A j \in Prepared : j[2] \in Nat
      BY <1>1, LogisticsConstants DEF Prepared, SourceKeys
    <3> QED BY <1>1, <2>1, <2>9, <3>1, OrderKept
  <2> QED BY <2>5, <2>6, <2>10, <2>11 DEF HoldInv
<1> QED BY <1>4, <1>5

LEMMA EditShowKept == ASSUME HoldInv, EditShow PROVE HoldInv'
<1>1. UNCHANGED <<row, running, newer, reading, made>> /\ show'.link = show.link
      /\ show' \in [version : Versions, confirmed : BOOLEAN, link : SourceKeys \union {NoHold}]
  BY DEF EditShow, HoldInv, LogisticsTypeOK
<1>2. Prepared' = Prepared /\ \A j \in SourceKeys : EarlierDead(j) => EarlierDead(j)'
  BY <1>1 DEF Prepared, EarlierDead, Dead
<1>3. Successive' /\ Ordered'
  BY <1>1, <1>2 DEF HoldInv, Successive, Ordered, OfVersion, LogisticsTypeOK, Prepared
<1>4. \A j \in SourceKeys : RowTruthful(j)'
  BY <1>1 DEF HoldInv, RowTruthful
<1> QED BY <1>1, <1>3, <1>4 DEF HoldInv, LogisticsTypeOK

LEMMA LogisticsStep == HoldInv /\ [LogisticsNext]_logisticsVars => HoldInv'
<1> SUFFICES ASSUME HoldInv, [LogisticsNext]_logisticsVars PROVE HoldInv'
  OBVIOUS
<1>1. CASE EditShow
  BY <1>1, EditShowKept
<1>2. ASSUME NEW q \in Preparers, ReadPlan(q) \/ CreatePlanned(q) PROVE HoldInv'
  BY <1>2, ReadPlanKept, CreatePlannedKept
<1>3. ASSUME NEW k \in SourceKeys, Decide(k) \/ Executing(k) \/ Reconcile(k) PROVE HoldInv'
  BY <1>3, DecideKept, ExecutingKept, ReconcileKept
<1>4. CASE UNCHANGED logisticsVars
  <2>1. UNCHANGED <<show, row, running, newer, reading, made>>
    BY <1>4 DEF logisticsVars
  <2>2. Prepared' = Prepared /\ \A j \in SourceKeys : EarlierDead(j) => EarlierDead(j)'
    BY <2>1 DEF Prepared, EarlierDead, Dead
  <2>3. Successive' /\ Ordered'
    BY <2>1, <2>2 DEF HoldInv, Successive, Ordered, OfVersion, LogisticsTypeOK, Prepared
  <2>4. \A j \in SourceKeys : RowTruthful(j)'
    BY <2>1 DEF HoldInv, RowTruthful
  <2> QED BY <2>1, <2>3, <2>4 DEF HoldInv, LogisticsTypeOK
<1> QED BY <1>1, <1>2, <1>3, <1>4 DEF LogisticsNext

\* However a show changes and its holds are prepared, executed, lost and looked for,
\* one version of it is put in the provider at most once, and whatever took effect
\* there is linked, still executed or waiting to be reconciled (prepareLogistics,
\* channelAssessment, finalizeEventLogisticsExecution).
THEOREM HoldsAccountedForAlways == LogisticsSpec => []HoldsAccountedFor
<1>1. LogisticsInit => HoldInv
  BY LogisticsInitial
<1>2. HoldInv /\ [LogisticsNext]_logisticsVars => HoldInv'
  BY LogisticsStep
<1>3. HoldInv => HoldsAccountedFor
  <2> SUFFICES ASSUME HoldInv PROVE HoldsAccountedFor
    OBVIOUS
  <2>1. ASSUME NEW k \in made
        PROVE  /\ k \in Prepared /\ k \in SourceKeys
               /\ \/ show.link = k
                  \/ running[k] # "idle"
                  \/ NeedsReconciliation(row[k].status, row[k].attempt)
    BY RowTyped DEF HoldInv, RowTruthful, LogisticsTypeOK, Prepared, NeedsReconciliation
  <2>2. ASSUME NEW j \in made, NEW k \in made, j[1] = k[1] PROVE ~(j[2] < k[2])
    <3>1. EarlierDead(k) /\ j \in SourceKeys
      BY <2>1 DEF HoldInv, Successive
    <3> QED BY <2>2, <3>1 DEF EarlierDead, Dead
  <2>3. \A j, k \in made : j[1] = k[1] => j = k
    BY <2>1, <2>2, LogisticsConstants DEF SourceKeys
  <2> QED BY <2>1, <2>3 DEF HoldsAccountedFor
<1> QED BY <1>1, <1>2, <1>3, PTL DEF LogisticsSpec

-----------------------------------------------------------------------------
(* Connected accounts                                                       *)
(* What a grant names, and what flows have been granted                     *)

FlowSteps == {"idle", "away", "known", "allowed", "granted", "connected", "failed"}
FlowRows == [step : FlowSteps, provider : Providers \union {Nothing}, by : Operators \union {Nothing},
             signedAt : Nat, grant : Grants \union {Nothing}, owned : BOOLEAN]
Accounts == Destinations \union {"mock", Nothing}

ConnectionTyped ==
  /\ who \in [owners : SUBSET Operators, session : Operators] /\ now \in Nat
  /\ flow \in [Flows -> FlowRows]
  /\ connection \in [Providers -> Grants \union {Nothing}]
  /\ account \in [Platforms -> Accounts]
  /\ drop \in [platform : Platforms \union {Nothing}, asked : Accounts, used : Destinations \union {Nothing}]
  /\ acting \in [step : {"idle", "asked", "resolved", "acted"}, linked : BOOLEAN,
                 through : {"band", "deployment", "mock", Nothing}, scopes : SUBSET Adapters,
                 adapter : Adapters \union {Nothing}]

GrantsOf(provider) ==
  IF provider = "meta" THEN MetaGrants ELSE IF provider = "youtube_publish" THEN YouTubeGrants
  ELSE IF provider = "tiktok" THEN TikTokGrants ELSE GoogleGrants

\* A flow holds a grant of its own provider, and is past the role check only if its
\* operator has been an owner since the call came.
FlowFits(r) ==
  /\ r.step # "idle" => r.provider \in Providers
  /\ r.step = "idle" => r.grant = Nothing
  /\ r.grant # Nothing => r.provider \in Providers /\ r.grant \in GrantsOf(r.provider)
  /\ r.step \in {"granted", "connected"} => r.grant # Nothing
  /\ r.step \in {"known", "allowed", "granted", "connected"} /\ r.by \in who.owners => r.owned
  /\ r.step \in {"allowed", "granted", "connected"} => r.owned

Granted(provider, grant) == \E f \in Flows : flow[f].provider = provider /\ flow[f].grant = grant

ConnectionsGranted == \A p \in Providers : connection[p] # Nothing => Granted(p, connection[p])

\* The account of a platform that the secrets name is the one they name.
AccountsNamed == \A p \in Platforms :
  /\ ProviderOf(p) \in Providers
  /\ connection[ProviderOf(p)] # Nothing
  /\ connection[ProviderOf(p)].names[p] # Nothing
  => account[p] = connection[ProviderOf(p)].names[p]

DropFits == /\ drop.platform \in Platforms => drop.asked # Nothing
            /\ SentToReviewed

ActingFits ==
  /\ acting.step # "idle" => "google" \in Providers
  /\ acting.step = "asked" /\ acting.linked => connection["google"] # Nothing
  /\ acting.step \in {"resolved", "acted"} /\ acting.through = "deployment" => ~acting.linked
  /\ acting.step = "resolved" /\ acting.through = "band" =>
       \E grant \in Grants : Granted("google", grant) /\ acting.scopes = grant.scopes
  /\ acting.step = "acted" /\ acting.through = "band" =>
       \E grant \in Grants : Granted("google", grant) /\ acting.adapter \in grant.scopes

ConnectionInv ==
  /\ ConnectionTyped /\ (\A f \in Flows : FlowFits(flow[f])) /\ ConnectionsGranted
  /\ AccountsNamed /\ DropFits /\ ActingFits

LEMMA NamingOf ==
  ASSUME NEW names, NEW p \in Platforms
  PROVE  Naming(names)[p] = IF p \in DOMAIN names THEN names[p] ELSE Nothing
BY DEF Naming

LEMMA GrantNames ==
  ASSUME ConnectionConstants, NEW provider \in Providers, NEW grant \in GrantsOf(provider), NEW p \in Platforms
  PROVE  /\ grant \in Grants /\ grant # Nothing /\ grant.token \in Destinations /\ grant.scopes \subseteq Adapters
         /\ grant.names[p] \in {Nothing, grant.token}
         /\ ProviderOf(p) # provider => grant.names[p] = Nothing
<1>1. grant \in Grants /\ grant # Nothing
  BY DEF GrantsOf, Grants, ConnectionConstants
<1>2. CASE provider = "meta"
  <2>1. PICK page \in Destinations : \E instagram \in {Nothing, page} :
          grant = Grant(page, [facebook |-> page, instagram |-> instagram], {})
    BY <1>2 DEF GrantsOf, MetaGrants
  <2> QED BY <1>1, <1>2, <2>1, NamingOf DEF Grant, Platforms, ProviderOf
<1>3. CASE provider = "youtube_publish"
  <2>1. PICK channel \in Destinations : grant = Grant(channel, [youtube |-> channel], {})
    BY <1>3 DEF GrantsOf, YouTubeGrants
  <2> QED BY <1>1, <1>3, <2>1, NamingOf DEF Grant, Platforms, ProviderOf
<1>4. CASE provider = "tiktok"
  <2>1. PICK user \in Destinations : grant = Grant(user, [tiktok |-> user], {})
    BY <1>4 DEF GrantsOf, TikTokGrants
  <2> QED BY <1>1, <1>4, <2>1, NamingOf DEF Grant, Platforms, ProviderOf
<1>5. CASE provider = "google"
  <2>1. PICK box \in Destinations, scopes \in SUBSET Adapters : grant = Grant(box, <<>>, scopes)
    BY <1>5 DEF GrantsOf, GoogleGrants
  <2>2. p \notin DOMAIN <<>>
    OBVIOUS
  <2> QED BY <1>1, <1>5, <2>1, <2>2, NamingOf DEF Grant
<1> QED BY <1>2, <1>3, <1>4, <1>5 DEF ConnectionConstants

LEMMA ConnectionInitial == ConnectionConstants /\ ConnectionInit => ConnectionInv
<1> SUFFICES ASSUME ConnectionConstants, ConnectionInit PROVE ConnectionInv
  OBVIOUS
<1>1. ConnectionTyped
  BY DEF ConnectionInit, ConnectionTyped, FlowRows, FlowSteps, Accounts
<1>2. \A f \in Flows : FlowFits(flow[f])
  BY DEF ConnectionInit, FlowFits
<1>3. \A p \in Providers : connection[p] = Nothing
  BY DEF ConnectionInit
<1> QED BY <1>1, <1>2, <1>3 DEF ConnectionInit, ConnectionInv, ConnectionsGranted, AccountsNamed, DropFits, SentToReviewed,
                              ActingFits, ConnectionConstants

\* A flow moves on and keeps the grant it has.
LEMMA FlowMoves ==
  ASSUME ConnectionInv, NEW f \in Flows, NEW r \in FlowRows, flow' = [flow EXCEPT ![f] = r], FlowFits(r),
         flow[f].grant # Nothing => r.grant = flow[f].grant /\ r.provider = flow[f].provider, UNCHANGED who
  PROVE  /\ flow' \in [Flows -> FlowRows] /\ \A e \in Flows : FlowFits(flow[e])'
         /\ \A p, g : g # Nothing /\ Granted(p, g) => Granted(p, g)'
<1>1. flow \in [Flows -> FlowRows] /\ \A e \in Flows : FlowFits(flow[e])
  BY DEF ConnectionInv, ConnectionTyped
<1>2. flow' \in [Flows -> FlowRows] /\ flow'[f] = r /\ \A e \in Flows \ {f} : flow'[e] = flow[e]
  BY <1>1
<1>3. \A e \in Flows : FlowFits(flow[e])'
  BY <1>1, <1>2 DEF FlowFits
<1>4. \A p, g : g # Nothing /\ Granted(p, g) => Granted(p, g)'
  BY <1>2 DEF Granted
<1> QED BY <1>2, <1>3, <1>4

\* What was granted to the band is not taken back.
LEMMA ActingKept ==
  ASSUME ConnectionConstants, ConnectionInv, UNCHANGED acting, \A p, g : g # Nothing /\ Granted(p, g) => Granted(p, g)',
         "google" \in Providers /\ connection["google"] # Nothing => connection'["google"] # Nothing
  PROVE  ActingFits'
<1>1. \A g \in Grants : g # Nothing
  BY DEF ConnectionConstants
<1> QED BY <1>1 DEF ConnectionInv, ActingFits

LEMMA FlowStep ==
  ASSUME ConnectionConstants, ConnectionInv, NEW f \in Flows, NEW r \in FlowRows, flow' = [flow EXCEPT ![f] = r],
         FlowFits(r), flow[f].grant # Nothing => r.grant = flow[f].grant /\ r.provider = flow[f].provider,
         UNCHANGED <<who, now, connection, account, drop, acting>>
  PROVE  ConnectionInv'
<1>1. /\ flow' \in [Flows -> FlowRows] /\ \A e \in Flows : FlowFits(flow[e])'
      /\ \A p, g : g # Nothing /\ Granted(p, g) => Granted(p, g)'
  BY FlowMoves
<1>2. ConnectionTyped'
  BY <1>1 DEF ConnectionInv, ConnectionTyped
<1>3. ConnectionsGranted'
  BY <1>1 DEF ConnectionInv, ConnectionsGranted
<1>4. AccountsNamed' /\ DropFits'
  BY DEF ConnectionInv, AccountsNamed, DropFits, SentToReviewed
<1>5. ActingFits'
  BY <1>1, ActingKept
<1> QED BY <1>1, <1>2, <1>3, <1>4, <1>5 DEF ConnectionInv

\* The row of a flow, and what its next step writes.
LEMMA FlowTyped ==
  ASSUME ConnectionInv, NEW f \in Flows
  PROVE  flow[f] \in FlowRows /\ FlowFits(flow[f]) /\ flow \in [Flows -> FlowRows]
BY DEF ConnectionInv, ConnectionTyped

LEMMA StartKept ==
  ASSUME ConnectionConstants, ConnectionInv, NEW f \in Flows, NEW provider \in Providers, Start(f, provider)
  PROVE  ConnectionInv'
<1> DEFINE r == [flow[f] EXCEPT !.step = "away", !.provider = provider, !.by = who.session, !.signedAt = now]
<1>1. who.session \in Operators /\ now \in Nat /\ flow[f] \in FlowRows /\ FlowFits(flow[f]) /\ flow \in [Flows -> FlowRows]
  BY FlowTyped DEF ConnectionInv, ConnectionTyped
<1>2. /\ r \in FlowRows /\ r.step = "away" /\ r.provider = provider /\ r.grant = flow[f].grant
  BY <1>1 DEF FlowRows, FlowSteps
<1>3. flow' = [flow EXCEPT ![f] = r] /\ flow[f].grant = Nothing /\ UNCHANGED <<who, now, connection, account, drop, acting>>
  BY <1>1 DEF Start, FlowFits, world, rows, users
<1> HIDE DEF r
<1>4. FlowFits(r)
  BY <1>2, <1>3 DEF FlowFits
<1> QED BY <1>2, <1>3, <1>4, FlowStep

LEMMA GotoKept ==
  ASSUME ConnectionConstants, ConnectionInv, NEW f \in Flows, NEW step \in {"failed", "allowed"}, Goto(f, step),
         flow[f].step # "idle", step = "allowed" => flow[f].owned
  PROVE  ConnectionInv'
<1> DEFINE r == [flow[f] EXCEPT !.step = step]
<1>1. flow[f] \in FlowRows /\ FlowFits(flow[f]) /\ flow \in [Flows -> FlowRows]
  BY FlowTyped
<1>2. /\ r \in FlowRows /\ r.step = step /\ r.provider = flow[f].provider /\ r.grant = flow[f].grant
      /\ r.by = flow[f].by /\ r.owned = flow[f].owned
  BY <1>1 DEF FlowRows, FlowSteps
<1>3. flow' = [flow EXCEPT ![f] = r] /\ UNCHANGED <<who, now, connection, account, drop, acting>>
  BY <1>1 DEF Goto, world, rows, users
<1> HIDE DEF r
<1>4. FlowFits(r)
  BY <1>1, <1>2 DEF FlowFits
<1> QED BY <1>2, <1>3, <1>4, FlowStep

LEMMA ChecksKept == ASSUME ConnectionConstants, ConnectionInv, NEW f \in Flows, Checks(f) PROVE ConnectionInv'
<1>1. flow[f] \in FlowRows /\ FlowFits(flow[f]) /\ flow \in [Flows -> FlowRows]
  BY FlowTyped
<1>2. CASE Declined(f)
  BY <1>2, GotoKept DEF Declined
<1>3. CASE AssertOwner(f)
  <2>1. flow[f].step = "known" /\ (flow[f].by \in who.owners => flow[f].owned)
    BY <1>1, <1>3 DEF AssertOwner, FlowFits
  <2>2. CASE flow[f].by \in who.owners
    BY <1>3, <2>1, <2>2, GotoKept DEF AssertOwner
  <2>3. CASE flow[f].by \notin who.owners
    BY <1>3, <2>1, <2>3, GotoKept DEF AssertOwner
  <2> QED BY <2>2, <2>3
<1>4. CASE Arrive(f)
  <2> DEFINE step == IF StateValid(f) /\ flow[f].by = who.session THEN "known" ELSE "failed"
             owned == flow[f].by \in who.owners
             r == [flow[f] EXCEPT !.step = step, !.owned = owned]
  <2>1. step \in {"known", "failed"} /\ owned \in BOOLEAN
    OBVIOUS
  <2>2. flow' = [flow EXCEPT ![f] = r] /\ UNCHANGED <<who, now, connection, account, drop, acting>>
    BY <1>1, <1>4 DEF Arrive, world, rows, users
  <2>3. owned <=> flow[f].by \in who.owners
    OBVIOUS
  <2> HIDE DEF step, owned
  <2>4. /\ r \in FlowRows /\ r.step = step /\ r.provider = flow[f].provider /\ r.grant = flow[f].grant
        /\ r.by = flow[f].by /\ r.owned = owned
    BY <1>1, <2>1 DEF FlowRows, FlowSteps
  <2> HIDE DEF r
  <2>5. FlowFits(r)
    BY <1>1, <1>4, <2>1, <2>3, <2>4 DEF FlowFits, Arrive
  <2> QED BY <2>2, <2>4, <2>5, FlowStep
<1> QED BY <1>2, <1>3, <1>4 DEF Checks

LEMMA ExchangeKept ==
  ASSUME ConnectionConstants, ConnectionInv, NEW f \in Flows, Exchange(f, GrantsOf(flow[f].provider))
  PROVE  ConnectionInv'
<1>1. /\ flow[f] \in FlowRows /\ FlowFits(flow[f]) /\ flow \in [Flows -> FlowRows]
      /\ UNCHANGED <<who, now, connection, account, drop, acting>>
  BY FlowTyped DEF Exchange, world, rows, users
<1>2. ASSUME NEW grant \in GrantsOf(flow[f].provider), flow[f].grant = Nothing,
             flow' = [flow EXCEPT ![f].step = "granted", ![f].grant = grant]
      PROVE  ConnectionInv'
  <2> DEFINE r == [flow[f] EXCEPT !.step = "granted", !.grant = grant]
  <2>1. flow[f].step = "allowed" /\ flow[f].provider \in Providers
    BY <1>1 DEF Exchange, FlowFits
  <2>2. grant \in Grants /\ grant # Nothing
    BY <2>1 DEF GrantsOf, Grants, ConnectionConstants
  <2>3. /\ r \in FlowRows /\ r.step = "granted" /\ r.provider = flow[f].provider /\ r.grant = grant
        /\ r.by = flow[f].by /\ r.owned = flow[f].owned
    BY <1>1, <2>2 DEF FlowRows, FlowSteps
  <2>4. flow' = [flow EXCEPT ![f] = r]
    BY <1>1, <1>2
  <2> HIDE DEF r
  <2>5. FlowFits(r)
    BY <1>1, <2>1, <2>2, <2>3 DEF FlowFits
  <2> QED BY <1>1, <1>2, <2>3, <2>4, <2>5, FlowStep
<1>3. CASE flow' = [flow EXCEPT ![f].step = "failed"]
  <2>1. Goto(f, "failed") /\ flow[f].step # "idle"
    BY <1>3 DEF Exchange, Goto
  <2> QED BY <2>1, GotoKept
<1> QED BY <1>2, <1>3 DEF Exchange

\* The connection a flow writes was granted to it.
LEMMA FlowConnects ==
  ASSUME ConnectionConstants, ConnectionInv, NEW f \in Flows, flow[f].step = "granted",
         flow' = [flow EXCEPT ![f].step = "connected"],
         connection' = [connection EXCEPT ![flow[f].provider] = flow[f].grant],
         UNCHANGED <<who, now, drop, acting>>, account' \in [Platforms -> Accounts], AccountsNamed'
  PROVE  ConnectionInv'
<1> DEFINE r == [flow[f] EXCEPT !.step = "connected"]
<1>1. flow[f] \in FlowRows /\ FlowFits(flow[f]) /\ flow \in [Flows -> FlowRows]
  BY FlowTyped
<1>2. /\ r \in FlowRows /\ r.step = "connected" /\ r.provider = flow[f].provider /\ r.grant = flow[f].grant
      /\ r.by = flow[f].by /\ r.owned = flow[f].owned
  BY <1>1 DEF FlowRows, FlowSteps
<1>3. flow' = [flow EXCEPT ![f] = r]
  BY <1>1
<1> HIDE DEF r
<1>4. FlowFits(r)
  BY <1>1, <1>2 DEF FlowFits
<1>5. /\ flow' \in [Flows -> FlowRows] /\ \A e \in Flows : FlowFits(flow[e])'
      /\ \A p, g : g # Nothing /\ Granted(p, g) => Granted(p, g)'
  BY <1>2, <1>3, <1>4, FlowMoves
<1>6. /\ flow[f].provider \in Providers /\ flow[f].grant \in Grants /\ flow[f].grant # Nothing
      /\ connection \in [Providers -> Grants \union {Nothing}]
  BY <1>1 DEF FlowFits, FlowRows, ConnectionInv, ConnectionTyped
<1>7. /\ connection' \in [Providers -> Grants \union {Nothing}] /\ connection'[flow[f].provider] = flow[f].grant
      /\ \A p \in Providers \ {flow[f].provider} : connection'[p] = connection[p]
  BY <1>6
<1>8. ConnectionTyped'
  BY <1>5, <1>7 DEF ConnectionInv, ConnectionTyped
<1>9. ConnectionsGranted'
  <2> SUFFICES ASSUME NEW p \in Providers, connection'[p] # Nothing PROVE Granted(p, connection[p])'
    BY DEF ConnectionsGranted
  <2>1. Granted(p, connection'[p])
    BY <1>6, <1>7 DEF ConnectionInv, ConnectionsGranted, Granted
  <2>2. PICK g : g = connection'[p]
    OBVIOUS
  <2>3. Granted(p, g)'
    BY <1>5, <2>1, <2>2
  <2> QED BY <2>2, <2>3 DEF Granted
<1>10. ActingFits'
  BY <1>5, <1>6, <1>7, ActingKept
<1>11. DropFits'
  BY DEF ConnectionInv, DropFits, SentToReviewed
<1> QED BY <1>5, <1>8, <1>9, <1>10, <1>11 DEF ConnectionInv

LEMMA SaveAccountsKept ==
  ASSUME ConnectionConstants, ConnectionInv, NEW f \in Flows, flow[f].provider # "google", SaveAccounts(f)
  PROVE  ConnectionInv'
<1> DEFINE provider == flow[f].provider
           grant == flow[f].grant
<1>1. /\ flow[f] \in FlowRows /\ FlowFits(flow[f]) /\ flow[f].step = "granted"
      /\ connection \in [Providers -> Grants \union {Nothing}] /\ account \in [Platforms -> Accounts]
  BY FlowTyped DEF SaveAccounts, ConnectionInv, ConnectionTyped
<1>2. provider \in Providers /\ grant \in GrantsOf(provider) /\ grant # Nothing
  BY <1>1 DEF FlowFits
<1>3. \A p \in Platforms : /\ grant.token \in Destinations /\ grant.names[p] \in {Nothing, grant.token}
                           /\ ProviderOf(p) # provider => grant.names[p] = Nothing
  BY <1>2, GrantNames
<1>4. /\ connection' = [connection EXCEPT ![provider] = grant]
      /\ account' = [p \in Platforms |-> IF grant.names[p] # Nothing THEN grant.names[p] ELSE account[p]]
  BY DEF SaveAccounts
<1> HIDE DEF provider, grant
<1>5. account' \in [Platforms -> Accounts]
  BY <1>1, <1>3, <1>4 DEF Accounts
<1>6. AccountsNamed'
  <2> SUFFICES ASSUME NEW p \in Platforms, ProviderOf(p) \in Providers, connection'[ProviderOf(p)] # Nothing,
                      connection'[ProviderOf(p)].names[p] # Nothing
               PROVE  account'[p] = connection'[ProviderOf(p)].names[p]
    BY DEF AccountsNamed
  <2>1. CASE ProviderOf(p) = provider
    BY <1>1, <1>2, <1>4, <2>1
  <2>2. CASE ProviderOf(p) # provider
    <3>1. connection'[ProviderOf(p)] = connection[ProviderOf(p)] /\ grant.names[p] = Nothing
      BY <1>1, <1>2, <1>3, <1>4, <2>2
    <3> QED BY <1>4, <3>1 DEF ConnectionInv, AccountsNamed
  <2> QED BY <2>1, <2>2
<1> QED BY <1>5, <1>6, FlowConnects DEF SaveAccounts, world, users

LEMMA SaveMailboxKept ==
  ASSUME ConnectionConstants, ConnectionInv, NEW f \in Flows, flow[f].provider = "google", SaveMailbox(f)
  PROVE  ConnectionInv'
<1>1. account' = account /\ account \in [Platforms -> Accounts] /\ connection \in [Providers -> Grants \union {Nothing}]
  BY DEF SaveMailbox, ConnectionInv, ConnectionTyped
<1>2. \A p \in Platforms : ProviderOf(p) # "google"
  BY DEF ProviderOf
<1>3. \A p \in Platforms : ProviderOf(p) \in Providers => connection'[ProviderOf(p)] = connection[ProviderOf(p)]
  BY <1>1, <1>2 DEF SaveMailbox
<1>4. AccountsNamed'
  BY <1>1, <1>3 DEF ConnectionInv, AccountsNamed
<1> QED BY <1>1, <1>4, FlowConnects DEF SaveMailbox, world, users

LEMMA SaveFailsKept == ASSUME ConnectionConstants, ConnectionInv, NEW f \in Flows, SaveFails(f) PROVE ConnectionInv'
BY GotoKept DEF SaveFails

LEMMA FlowKept ==
  ASSUME ConnectionConstants, ConnectionInv, NEW f \in Flows,
         ConnectStart(f) \/ Authorize(f) \/ Finish(f) \/ GoogleCallback(f)
  PROVE  ConnectionInv'
<1>1. CASE ConnectStart(f) \/ Authorize(f)
  BY <1>1, StartKept DEF ConnectStart, Authorize
<1>2. CASE Finish(f)
  <2>1. CASE Checks(f) \/ SaveAccounts(f) \/ SaveFails(f)
    BY <1>2, <2>1, ChecksKept, SaveAccountsKept, SaveFailsKept DEF Finish
  <2>2. CASE flow[f].provider = "meta" /\ Exchange(f, MetaGrants)
    BY <2>2, ExchangeKept DEF GrantsOf
  <2>3. CASE flow[f].provider = "youtube_publish" /\ Exchange(f, YouTubeGrants)
    BY <2>3, ExchangeKept DEF GrantsOf
  <2>4. CASE flow[f].provider = "tiktok" /\ Exchange(f, TikTokGrants)
    BY <2>4, ExchangeKept DEF GrantsOf
  <2> QED BY <1>2, <2>1, <2>2, <2>3, <2>4 DEF Finish
<1>3. CASE GoogleCallback(f)
  <2>1. CASE Exchange(f, GoogleGrants)
    BY <1>3, <2>1, ExchangeKept DEF GrantsOf, GoogleCallback
  <2> QED BY <1>3, <2>1, ChecksKept, SaveMailboxKept, SaveFailsKept DEF GoogleCallback
<1> QED BY <1>1, <1>2, <1>3

-----------------------------------------------------------------------------
(* The accounts of a page, drops, requests, and owners                      *)

\* A step of a page that writes no flow, connection or drop.
LEMMA PageStep ==
  ASSUME ConnectionInv, UNCHANGED <<who, now, flow, connection, drop, acting>>,
         account' \in [Platforms -> Accounts], \A p \in Platforms : account[p] # Nothing => account'[p] = account[p]
  PROVE  ConnectionInv'
<1>1. ConnectionTyped' /\ (\A f \in Flows : FlowFits(flow[f])') /\ ConnectionsGranted' /\ DropFits' /\ ActingFits'
  BY DEF ConnectionInv, ConnectionTyped, FlowFits, ConnectionsGranted, Granted, DropFits, SentToReviewed, ActingFits
<1>2. AccountsNamed'
  BY DEF ConnectionInv, AccountsNamed
<1> QED BY <1>1, <1>2 DEF ConnectionInv

LEMMA PageKept ==
  ASSUME ConnectionInv, NEW t \in Tabs, Workspace(t) \/ EnsureVoiceProfile(t) \/ EnsureMockAccount(t)
  PROVE  ConnectionInv'
<1>1. account \in [Platforms -> Accounts]
  BY DEF ConnectionInv, ConnectionTyped
<1>2. CASE Workspace(t) \/ EnsureVoiceProfile(t)
  BY <1>1, <1>2, PageStep DEF Workspace, EnsureVoiceProfile, world, users
<1>3. CASE EnsureMockAccount(t)
  <2>1. PICK platform : account' = [account EXCEPT ![platform] = Mocked(platform)]
    BY <1>3 DEF EnsureMockAccount
  <2>2. account' \in [Platforms -> Accounts] /\ \A p \in Platforms : account[p] # Nothing => account'[p] = account[p]
    BY <1>1, <2>1 DEF Mocked, Accounts
  <2> QED BY <1>3, <2>2, PageStep DEF EnsureMockAccount, world, users
<1> QED BY <1>2, <1>3

LEMMA DropKept ==
  ASSUME ConnectionConstants, ConnectionInv, NEW platform \in Platforms, Review(platform) \/ SecretsFor(platform)
  PROVE  ConnectionInv'
<1>1. /\ drop \in [platform : Platforms \union {Nothing}, asked : Accounts, used : Destinations \union {Nothing}]
      /\ account \in [Platforms -> Accounts] /\ UNCHANGED <<who, now, flow, connection, account, acting>>
  BY DEF ConnectionInv, ConnectionTyped, Review, SecretsFor, world, rows
<1>2. CASE Review(platform)
  <2>1. drop' = [platform |-> platform, asked |-> account[platform], used |-> Nothing] /\ account[platform] # Nothing
    BY <1>2 DEF Review
  <2>2. drop' \in [platform : Platforms \union {Nothing}, asked : Accounts, used : Destinations \union {Nothing}] /\ DropFits'
    BY <1>1, <2>1 DEF DropFits, SentToReviewed
  <2> QED BY <1>1, <2>2 DEF ConnectionInv, ConnectionTyped, FlowFits, ConnectionsGranted, Granted, AccountsNamed, ActingFits
<1>3. CASE SecretsFor(platform)
  <2>1. PICK grant : grant = connection[ProviderOf(platform)]
    OBVIOUS
  <2>2. /\ ProviderOf(platform) \in Providers /\ grant # Nothing /\ grant.names[platform] = drop.asked
        /\ drop.platform = platform /\ drop' = [drop EXCEPT !.used = grant.token]
    BY <1>3, <2>1 DEF SecretsFor, Bound
  <2>3. PICK f \in Flows : flow[f].provider = ProviderOf(platform) /\ flow[f].grant = grant
    BY <2>1, <2>2 DEF ConnectionInv, ConnectionsGranted, Granted
  <2>4. grant \in GrantsOf(ProviderOf(platform))
    BY <2>2, <2>3, FlowTyped DEF FlowFits
  <2>5. grant.token \in Destinations /\ grant.names[platform] \in {Nothing, grant.token}
    BY <2>2, <2>4, GrantNames
  <2>6. drop.asked # Nothing
    BY <2>2 DEF ConnectionInv, DropFits
  <2>7. drop'.platform = drop.platform /\ drop'.asked = drop.asked /\ drop'.used = grant.token
        /\ drop' \in [platform : Platforms \union {Nothing}, asked : Accounts, used : Destinations \union {Nothing}]
    BY <1>1, <2>2, <2>5
  <2>8. DropFits'
    BY <2>2, <2>5, <2>6, <2>7 DEF DropFits, SentToReviewed
  <2> QED BY <1>1, <2>7, <2>8 DEF ConnectionInv, ConnectionTyped, FlowFits, ConnectionsGranted, Granted, AccountsNamed, ActingFits
<1> QED BY <1>2, <1>3

\* A step of the request that acts.
LEMMA ActingStep ==
  ASSUME ConnectionInv, UNCHANGED <<who, now, flow, connection, account, drop>>, ActingFits',
         acting' \in [step : {"idle", "asked", "resolved", "acted"}, linked : BOOLEAN,
                      through : {"band", "deployment", "mock", Nothing}, scopes : SUBSET Adapters,
                      adapter : Adapters \union {Nothing}]
  PROVE  ConnectionInv'
BY DEF ConnectionInv, ConnectionTyped, FlowFits, ConnectionsGranted, Granted, AccountsNamed, DropFits, SentToReviewed

LEMMA RequestKept ==
  ASSUME ConnectionConstants, ConnectionInv, "google" \in Providers, Ask \/ Resolve \/ Act
  PROVE  ConnectionInv'
<1> DEFINE Actings == [step : {"idle", "asked", "resolved", "acted"}, linked : BOOLEAN,
                       through : {"band", "deployment", "mock", Nothing}, scopes : SUBSET Adapters,
                       adapter : Adapters \union {Nothing}]
<1>1. acting \in Actings /\ ActingFits /\ connection["google"] \in Grants \union {Nothing}
  BY DEF ConnectionInv, ConnectionTyped
<1>2. UNCHANGED <<who, now, flow, connection, account, drop>>
  BY DEF Ask, Resolve, Act, world, rows
<1>3. CASE Ask
  <2>1. PICK linked \in BOOLEAN : linked = (connection["google"] # Nothing) /\ acting' = [acting EXCEPT !.step = "asked", !.linked = linked]
    BY <1>3 DEF Ask
  <2>2. acting' \in Actings /\ acting'.step = "asked" /\ acting'.linked = linked
    BY <1>1, <2>1
  <2>3. ActingFits'
    BY <1>2, <2>1, <2>2 DEF ActingFits
  <2> QED BY <1>2, <2>2, <2>3, ActingStep
<1>4. CASE Resolve
  <2> DEFINE new == [acting EXCEPT !.step = "resolved", !.through = Registry.through, !.scopes = Registry.scopes]
  <2>1. CASE connection["google"] # Nothing
    <3>1. PICK grant \in Grants : grant = connection["google"]
      BY <1>1, <2>1
    <3>2. Granted("google", grant)
      BY <2>1, <3>1 DEF ConnectionInv, ConnectionsGranted
    <3>3. grant.scopes \subseteq Adapters
      <4>1. PICK f \in Flows : flow[f].provider = "google" /\ flow[f].grant = grant
        BY <3>2 DEF Granted
      <4>2. grant \in GrantsOf("google")
        BY <2>1, <3>1, <4>1, FlowTyped DEF FlowFits
      <4> QED BY <4>2, GrantNames DEF Platforms
    <3>4. Registry.through = "band" /\ Registry.scopes = grant.scopes
      BY <2>1, <3>1 DEF Registry
    <3>5. /\ acting' \in Actings /\ acting'.step = "resolved" /\ acting'.through = "band" /\ acting'.scopes = grant.scopes
          /\ acting'.linked = acting.linked
      BY <1>1, <1>4, <3>3, <3>4 DEF Resolve
    <3>6. Granted("google", grant)'
      BY <1>2, <3>2 DEF Granted
    <3>7. ActingFits'
      BY <3>5, <3>6 DEF ActingFits
    <3> QED BY <1>2, <3>5, <3>7, ActingStep
  <2>2. CASE connection["google"] = Nothing
    <3>1. Registry.through \in {"deployment", "mock"} /\ Registry.scopes = Adapters
      BY <2>2 DEF Registry
    <3>2. /\ acting' \in Actings /\ acting'.step = "resolved" /\ acting'.through \in {"deployment", "mock"}
          /\ acting'.linked = acting.linked
      BY <1>1, <1>4, <3>1 DEF Resolve
    <3>3. ~acting.linked
      BY <1>1, <1>4, <2>2 DEF Resolve, ActingFits
    <3>4. ActingFits'
      BY <3>2, <3>3 DEF ActingFits
    <3> QED BY <1>2, <3>2, <3>4, ActingStep
  <2> QED BY <2>1, <2>2
<1>5. CASE Act
  <2>1. PICK adapter \in Adapters :
          acting' = [acting EXCEPT !.step = "acted", !.adapter = adapter, !.through = AdapterIn(acting, adapter)]
    BY <1>5 DEF Act
  <2>2. AdapterIn(acting, adapter) \in {acting.through, "mock"} /\ (AdapterIn(acting, adapter) # "mock" => adapter \in acting.scopes)
    BY DEF AdapterIn
  <2>3. /\ acting' \in Actings /\ acting'.step = "acted" /\ acting'.through = AdapterIn(acting, adapter)
        /\ acting'.linked = acting.linked /\ acting'.adapter = adapter
    BY <1>1, <2>1, <2>2
  <2>4. \A g : Granted("google", g)' <=> Granted("google", g)
    BY <1>2 DEF Granted
  <2>5. ActingFits'
    BY <1>1, <1>5, <2>2, <2>3, <2>4 DEF ActingFits, Act
  <2> QED BY <1>2, <2>3, <2>5, ActingStep
<1> QED BY <1>3, <1>4, <1>5

\* Owners change and time passes; the history of a flow follows its operator.
LEMMA OwnersStep ==
  ASSUME ConnectionInv, who' \in [owners : SUBSET Operators, session : Operators], now' \in Nat,
         UNCHANGED <<connection, account, drop, acting>>, flow' \in [Flows -> FlowRows],
         \A f \in Flows : /\ flow'[f].step = flow[f].step /\ flow'[f].provider = flow[f].provider
                          /\ flow'[f].by = flow[f].by /\ flow'[f].grant = flow[f].grant
                          /\ flow[f].owned \/ flow[f].by \in who'.owners \ who.owners => flow'[f].owned
  PROVE  ConnectionInv'
<1>1. \A f \in Flows : FlowFits(flow[f])'
  BY DEF ConnectionInv, ConnectionTyped, FlowFits
<1>2. \A p, g : Granted(p, g)' <=> Granted(p, g)
  BY DEF Granted
<1>3. ConnectionTyped' /\ AccountsNamed' /\ DropFits'
  BY DEF ConnectionInv, ConnectionTyped, AccountsNamed, DropFits, SentToReviewed
<1>4. ConnectionsGranted'
  <2> SUFFICES ASSUME NEW p \in Providers, connection'[p] # Nothing PROVE Granted(p, connection[p])'
    BY DEF ConnectionsGranted
  <2>1. Granted(p, connection[p])
    BY DEF ConnectionInv, ConnectionsGranted
  <2> QED BY <2>1 DEF Granted
<1>5. ActingFits'
  BY <1>2 DEF ConnectionInv, ActingFits
<1> QED BY <1>1, <1>3, <1>4, <1>5 DEF ConnectionInv

LEMMA OwnersKept ==
  ASSUME ConnectionInv, NEW operator \in Operators,
         SignIn(operator) \/ MakeOwner(operator) \/ RemoveOwner(operator)
  PROVE  ConnectionInv'
<1>1. /\ who \in [owners : SUBSET Operators, session : Operators] /\ flow \in [Flows -> FlowRows] /\ now \in Nat
      /\ UNCHANGED <<now, connection, account, drop, acting>>
  BY DEF ConnectionInv, ConnectionTyped, SignIn, MakeOwner, RemoveOwner, Edit, rows, users
<1>2. CASE SignIn(operator)
  <2>1. who' \in [owners : SUBSET Operators, session : Operators] /\ who'.owners = who.owners /\ flow' = flow
    BY <1>1, <1>2 DEF SignIn
  <2> QED BY <1>1, <2>1, OwnersStep
<1>3. CASE RemoveOwner(operator)
  <2>1. who' \in [owners : SUBSET Operators, session : Operators] /\ who'.owners \subseteq who.owners /\ flow' = flow
    BY <1>1, <1>3 DEF RemoveOwner
  <2> QED BY <1>1, <2>1, OwnersStep
<1>4. CASE MakeOwner(operator)
  <2>1. who' \in [owners : SUBSET Operators, session : Operators] /\ who'.owners = who.owners \union {operator}
    BY <1>1, <1>4 DEF MakeOwner
  <2>2. \A f \in Flows : /\ flow'[f] = [flow[f] EXCEPT !.owned = flow[f].owned \/ flow[f].by = operator]
                         /\ flow[f] \in FlowRows
    BY <1>1, <1>4 DEF MakeOwner
  <2>3. \A f \in Flows : /\ flow'[f] \in FlowRows /\ flow'[f].step = flow[f].step /\ flow'[f].provider = flow[f].provider
                         /\ flow'[f].by = flow[f].by /\ flow'[f].grant = flow[f].grant
                         /\ flow[f].owned \/ flow[f].by = operator => flow'[f].owned
    BY <2>2 DEF FlowRows
  <2>4. flow' \in [Flows -> FlowRows]
    BY <1>4, <2>3 DEF MakeOwner
  <2> QED BY <1>1, <2>1, <2>3, <2>4, OwnersStep
<1> QED BY <1>2, <1>3, <1>4

LEMMA TickKept == ASSUME ConnectionInv, Tick PROVE ConnectionInv'
<1>1. now' \in Nat /\ UNCHANGED <<who, flow, connection, account, drop, acting>>
  BY DEF ConnectionInv, ConnectionTyped, Tick, rows, users
<1> QED BY <1>1, OwnersStep DEF ConnectionInv, ConnectionTyped

LEMMA ConnectionStep == ConnectionConstants /\ ConnectionInv /\ [ConnectionNext]_connectionVars => ConnectionInv'
<1> SUFFICES ASSUME ConnectionConstants, ConnectionInv, [ConnectionNext]_connectionVars PROVE ConnectionInv'
  OBVIOUS
<1>1. CASE UNCHANGED connectionVars
  BY <1>1, PageStep DEF connectionVars, ConnectionInv, ConnectionTyped
<1> QED BY <1>1, FlowKept, PageKept, DropKept, RequestKept, OwnersKept, TickKept DEF ConnectionNext

LEMMA ConnectionSafe == ConnectionConstants /\ ConnectionInv =>
  ConnectedByOwner /\ AccountsAsConnected /\ SentToReviewed /\ ActsAsGranted
<1> SUFFICES ASSUME ConnectionConstants, ConnectionInv
             PROVE  ConnectedByOwner /\ AccountsAsConnected /\ SentToReviewed /\ ActsAsGranted
  OBVIOUS
<1>1. ConnectedByOwner
  BY DEF ConnectionInv, FlowFits, ConnectedByOwner
<1>2. AccountsAsConnected
  BY DEF ConnectionInv, AccountsNamed, AccountsAsConnected
<1>3. ActsAsGranted
  BY DEF ConnectionInv, ActingFits, ActsAsGranted, Granted, ConnectionConstants
<1> QED BY <1>1, <1>2, <1>3 DEF ConnectionInv, DropFits

\* However visits to a provider, loads of the page and changes of owners race, a band
\* is connected by an operator who was an owner after the provider sent them back
\* (finish, callback), and the account shown is the one its secrets name
\* (ensureMockAccounts).
THEOREM ConnectedByOwnerAlways ==
  ASSUME ConnectionConstants PROVE ConnectionSpec => [](ConnectedByOwner /\ AccountsAsConnected)
<1>1. ConnectionInit => ConnectionInv
  BY ConnectionInitial
<1>2. ConnectionInv /\ [ConnectionNext]_connectionVars => ConnectionInv'
  BY ConnectionStep
<1>3. ConnectionInv => ConnectedByOwner /\ AccountsAsConnected
  BY ConnectionSafe
<1> QED BY <1>1, <1>2, <1>3, PTL DEF ConnectionSpec

\* A drop goes to the destination it was reviewed for, whatever the band is connected
\* to since (secretsFor, boundSocialSecrets), and a request acts for the band by what
\* was granted alone (resolveForArtist, buildAdapterRegistry).
THEOREM SentToReviewedAlways ==
  ASSUME ConnectionConstants PROVE ConnectionSpec => [](SentToReviewed /\ ActsAsGranted)
<1>1. ConnectionInit => ConnectionInv
  BY ConnectionInitial
<1>2. ConnectionInv /\ [ConnectionNext]_connectionVars => ConnectionInv'
  BY ConnectionStep
<1>3. ConnectionInv => SentToReviewed /\ ActsAsGranted
  BY ConnectionSafe
<1> QED BY <1>1, <1>2, <1>3, PTL DEF ConnectionSpec
=============================================================================
