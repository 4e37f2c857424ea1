------------------------------- MODULE Telegram -------------------------------
(***************************************************************************)
(* Telegram, for one artist.                                               *)
(*                                                                         *)
(* Urgent messages: the periodic scan and the notice of a failed execution, *)
(* both through sendUrgent, on several workers, with the row of             *)
(* TelegramUrgentDedupe claimed before the message leaves.                  *)
(*                                                                         *)
(* Linking a chat: owners ask for registration tokens, Telegram posts       *)
(* /start updates with them, several at once and repeatedly, and the        *)
(* transaction that consumes a token binds the chat to the artist.          *)
(***************************************************************************)
EXTENDS Naturals, FiniteSets, Sequences

CONSTANTS
  Workers,       \* processes that run jobs
  Days,          \* UTC days; a bound on how long the model runs
  ScanSignals,   \* the signals of this instance, among Signals
  Chats,         \* chat ids
  NoChat,        \* telegramChatId is null
  MaxPatches     \* bound: changes of the routing

Signals == {"approval_reconciliation", "approval_aging", "overdue_cluster", "stale_cluster"}

ASSUME UrgentConstants ==
  /\ ScanSignals \subseteq Signals
  /\ Chats # {} /\ NoChat \notin Chats
  /\ Days \subseteq Nat
  /\ MaxPatches \in Nat

VARIABLES
  day,        \* the UTC day
  routing,    \* telegramUrgentEnabled, telegramChatId, telegramNotifyCategories
  dedupe,     \* status of the row of each dedupe key, or "none"
  job,        \* job[w]: the job of a worker and where sendUrgent stands
  delivered,  \* history: messages that reached Telegram, per key
  patches     \* changes of the routing so far

urgentVars == <<day, routing, dedupe, job, delivered, patches>>

\* One approval whose execution failed; its key does not name a day.
FailedKey == <<"approval_failed", 0>>
Keys == (ScanSignals \X Days) \union {FailedKey}

Categories == {"approvals", "overdueTasks", "staleFollowUps"}
CategoryOf(key) ==
  CASE key[1] = "overdue_cluster" -> "overdueTasks"
    [] key[1] = "stale_cluster"   -> "staleFollowUps"
    [] OTHER                      -> "approvals"

\* Values on both sides of every threshold.
Findings == [unresolved : 0..1, aged : 0..1, open : {10, 11}, overdue : {2, 3, 4, 5}, stale : {4, 5}]

OverdueThreshold(openTasks) == IF openTasks <= 10 THEN 3 ELSE 5

IfRaised(signal, raised) == IF signal \in ScanSignals /\ raised THEN <<signal>> ELSE <<>>

\* The signals a scan raises, in the order in which it sends them.
Raised(f) ==
  IfRaised("approval_reconciliation", f.unresolved > 0)
  \o IfRaised("approval_aging", f.aged > 0)
  \o IfRaised("overdue_cluster", f.overdue >= OverdueThreshold(f.open))
  \o IfRaised("stale_cluster", f.stale >= 5)

IdleJob == [at |-> "idle", keys |-> <<>>, chat |-> NoChat]

UrgentInit ==
  /\ day \in {d \in Days : \A e \in Days : d <= e}
  /\ routing = [enabled |-> TRUE, chat |-> CHOOSE c \in Chats : TRUE, allowed |-> Categories]
  /\ dedupe = [k \in Keys |-> "none"]
  /\ job = [w \in Workers |-> IdleJob]
  /\ delivered = [k \in Keys |-> 0]
  /\ patches = 0

----------------------------------------------------------------------------
(* Jobs.                                                                    *)

Key(w) == Head(job[w].keys)

\* urgent.telegram.scan: only artists with routing are scanned; one day key
\* serves the whole scan.
StartScan(w) ==
  /\ job[w].at = "idle"
  /\ routing.enabled /\ routing.chat # NoChat
  /\ \E f \in Findings : job' = [job EXCEPT ![w] =
       [at |-> "route", chat |-> NoChat,
        keys |-> [i \in DOMAIN Raised(f) |-> <<Raised(f)[i], day>>]]]
  /\ UNCHANGED <<day, routing, dedupe, delivered, patches>>

\* approval.notify with event failed.  The job may be delivered again.
StartFailedNotice(w) ==
  /\ job[w].at = "idle"
  /\ job' = [job EXCEPT ![w] = [at |-> "route", chat |-> NoChat, keys |-> <<FailedKey>>]]
  /\ UNCHANGED <<day, routing, dedupe, delivered, patches>>

EndJob(w) ==
  /\ job[w].at = "route" /\ job[w].keys = <<>>
  /\ job' = [job EXCEPT ![w] = IdleJob]
  /\ UNCHANGED <<day, routing, dedupe, delivered, patches>>

NextSignal(w) == [job EXCEPT ![w].at = "route", ![w].chat = NoChat, ![w].keys = Tail(@)]

Routed(w) ==
  /\ routing.enabled
  /\ routing.chat # NoChat
  /\ CategoryOf(Key(w)) \in routing.allowed

\* sendUrgent reads the artist; the chat it read is the one it will write to.
Route(w) ==
  /\ job[w].at = "route" /\ job[w].keys # <<>>
  /\ job' = IF Routed(w) THEN [job EXCEPT ![w].at = "claim", ![w].chat = routing.chat]
            ELSE NextSignal(w)
  /\ UNCHANGED <<day, routing, dedupe, delivered, patches>>

\* The claim as a status that is still open, which a failed send leaves behind.
ClaimDedupe_UnlessSent(w) ==
  /\ job[w].at = "claim"
  /\ IF dedupe[Key(w)] # "sent"
     THEN /\ dedupe' = [dedupe EXCEPT ![Key(w)] = "attempted"]
          /\ job' = [job EXCEPT ![w].at = "send"]
     ELSE /\ job' = NextSignal(w)
          /\ UNCHANGED dedupe
  /\ UNCHANGED <<day, routing, delivered, patches>>

\* create under the unique index on artist and key: one of two callers wins.
ClaimDedupe(w) ==
  /\ job[w].at = "claim"
  /\ IF dedupe[Key(w)] = "none"
     THEN /\ dedupe' = [dedupe EXCEPT ![Key(w)] = "attempted"]
          /\ job' = [job EXCEPT ![w].at = "send"]
     ELSE /\ job' = NextSignal(w)
          /\ UNCHANGED dedupe
  /\ UNCHANGED <<day, routing, delivered, patches>>

\* The adapter: Telegram answers, refuses, or acts and the answer is lost.
Send(w) ==
  /\ job[w].at = "send"
  /\ \E reached \in BOOLEAN, answered \in BOOLEAN :
       /\ answered => reached
       /\ delivered' = [delivered EXCEPT ![Key(w)] = @ + (IF reached THEN 1 ELSE 0)]
       /\ job' = [job EXCEPT ![w].at = IF answered THEN "mark" ELSE "error"]
  /\ UNCHANGED <<day, routing, dedupe, patches>>

\* markDedupeSent; if the update fails the row stays attempted.
MarkSent(w) ==
  /\ job[w].at = "mark"
  /\ \/ /\ dedupe' = [dedupe EXCEPT ![Key(w)] = "sent"]
        /\ job' = NextSignal(w)
     \/ /\ job' = [job EXCEPT ![w].at = "error"]
        /\ UNCHANGED dedupe
  /\ UNCHANGED <<day, routing, delivered, patches>>

\* markAttemptError writes lastError only, and never throws.
MarkAttemptError(w) ==
  /\ job[w].at = "error"
  /\ job' = NextSignal(w)
  /\ UNCHANGED <<day, routing, dedupe, delivered, patches>>

\* The process dies, or a statement throws out of the job.
JobDies(w) ==
  /\ job[w].at # "idle"
  /\ job' = [job EXCEPT ![w] = IdleJob]
  /\ UNCHANGED <<day, routing, dedupe, delivered, patches>>

----------------------------------------------------------------------------
(* The owner and the calendar.                                              *)

\* PATCH /workflow/telegram, and the chat bound by a registration.
PatchRouting ==
  /\ patches < MaxPatches /\ patches' = patches + 1
  /\ \/ \E c \in Chats \union {NoChat} : routing' = [routing EXCEPT !.chat = c]
     \/ routing' = [routing EXCEPT !.enabled = ~@]
     \/ \E c \in Categories : routing' = [routing EXCEPT !.allowed = @ \ {c}]
  /\ UNCHANGED <<day, dedupe, job, delivered>>

DayPasses ==
  /\ \E d \in Days : d > day /\ day' = d
  /\ UNCHANGED <<routing, dedupe, job, delivered, patches>>

UrgentNext ==
  \/ \E w \in Workers :
       \/ StartScan(w) \/ StartFailedNotice(w) \/ EndJob(w)
       \/ Route(w) \/ ClaimDedupe(w) \/ Send(w) \/ MarkSent(w) \/ MarkAttemptError(w)
       \/ JobDies(w)
  \/ PatchRouting \/ DayPasses

UrgentSpec == UrgentInit /\ [][UrgentNext]_urgentVars

----------------------------------------------------------------------------
(* Properties.                                                              *)

UrgentTypeOK ==
  /\ day \in Days
  /\ routing \in [enabled : BOOLEAN, chat : Chats \union {NoChat}, allowed : SUBSET Categories]
  /\ dedupe \in [Keys -> {"none", "attempted", "sent"}]
  /\ job \in [Workers -> [at : {"idle", "route", "claim", "send", "mark", "error"},
                          keys : Seq(Keys), chat : Chats \union {NoChat}]]
  /\ delivered \in [Keys -> Nat]
  /\ patches \in 0..MaxPatches

\* Two workers, a repeated job, a death or a lost answer never make the same
\* alert leave twice, and a row that says sent is never wrong (sendUrgent,
\* docs/workflow-automation.md on dedupe).
AlertedOnce ==
  \A k \in Keys :
    /\ delivered[k] <= 1
    /\ dedupe[k] = "sent" => delivered[k] = 1

----------------------------------------------------------------------------
(* Registration tokens.                                                     *)

CONSTANTS
  Requests,      \* requests of owners for a token
  Hooks,         \* webhook calls in flight
  Tokens,        \* rows that may be created
  Senders,       \* chats that write to the bot
  Unlinked,      \* telegramChatId is null
  NoToken        \* a request that has no token

ASSUME LinkConstants == Unlinked \notin Senders /\ NoToken \notin Tokens

VARIABLES
  chat,      \* Artist.telegramChatId
  token,     \* token[t]: status of the row and its boundChatId
  asking,    \* asking[r]: createRegistrationToken between its two statements
  hook,      \* hook[h]: a webhook call, the token it carries and what it read
  binders    \* history: the calls that bound the artist's chat with a token

linkVars == <<chat, token, asking, hook, binders>>

IdleHook == [at |-> "idle", token |-> NoToken, from |-> Unlinked]

LinkInit ==
  /\ chat = Unlinked
  /\ token = [t \in Tokens |-> [status |-> "unused", bound |-> Unlinked]]
  /\ asking = [r \in Requests |-> "idle"]
  /\ hook = [h \in Hooks |-> IdleHook]
  /\ binders = [t \in Tokens |-> {}]

\* deleteMany removes every token of the artist that is not consumed.
ClearTokens(r) ==
  /\ asking[r] = "idle"
  /\ token' = [t \in Tokens |->
       IF token[t].status \in {"live", "expired"} THEN [token[t] EXCEPT !.status = "deleted"]
       ELSE token[t]]
  /\ asking' = [asking EXCEPT ![r] = "create"]
  /\ UNCHANGED <<chat, hook, binders>>

CreateToken(r) ==
  /\ asking[r] = "create"
  /\ \E t \in Tokens :
       /\ token[t].status = "unused"
       /\ token' = [token EXCEPT ![t].status = "live"]
  /\ asking' = [asking EXCEPT ![r] = "done"]
  /\ UNCHANGED <<chat, hook, binders>>

TokenLapses(t) ==
  /\ token[t].status = "live"
  /\ token' = [token EXCEPT ![t].status = "expired"]
  /\ UNCHANGED <<chat, asking, hook, binders>>

\* An update with a token somebody has seen: the row is read outside the
\* transaction, and only a live one is taken further.
ReadToken(h) ==
  /\ hook[h].at = "idle"
  /\ \E t \in Tokens, c \in Senders :
       /\ token[t].status # "unused"
       /\ hook' = [hook EXCEPT ![h] =
            [at |-> IF token[t].status = "live" THEN "consume" ELSE "refused", token |-> t, from |-> c]]
  /\ UNCHANGED <<chat, token, asking, binders>>

Consumable_Present(t) == token[t].status # "deleted"
\* updateMany counts a row only while it is unconsumed and unexpired.
Consumable(t) == token[t].status = "live"

ConsumeToken(h) ==
  LET t == hook[h].token IN
  /\ hook[h].at = "consume"
  /\ IF Consumable(t)
     THEN /\ token' = [token EXCEPT ![t] = [status |-> "consumed", bound |-> hook[h].from]]
          /\ chat' = hook[h].from
          /\ binders' = [binders EXCEPT ![t] = @ \union {h}]
          /\ hook' = [hook EXCEPT ![h].at = "ack"]
     ELSE /\ hook' = [hook EXCEPT ![h].at = "refused"]
          /\ UNCHANGED <<chat, token, binders>>
  /\ UNCHANGED asking

\* The owner may still type a chat id, or remove it.
PatchChat ==
  /\ \E c \in Senders \union {Unlinked} : c # chat /\ chat' = c
  /\ UNCHANGED <<token, asking, hook, binders>>

LinkNext ==
  \/ \E r \in Requests : ClearTokens(r) \/ CreateToken(r)
  \/ \E t \in Tokens : TokenLapses(t)
  \/ \E h \in Hooks : ReadToken(h) \/ ConsumeToken(h)
  \/ PatchChat

LinkSpec == LinkInit /\ [][LinkNext]_linkVars

LinkTypeOK ==
  /\ chat \in Senders \union {Unlinked}
  /\ token \in [Tokens -> [status : {"unused", "live", "expired", "deleted", "consumed"},
                           bound : Senders \union {Unlinked}]]
  /\ asking \in [Requests -> {"idle", "create", "done"}]
  /\ hook \in [Hooks -> [at : {"idle", "consume", "refused", "ack"},
                         token : Tokens \union {NoToken}, from : Senders \union {Unlinked}]]
  /\ binders \in [Tokens -> SUBSET Hooks]

\* A registration token links one chat, by one call, however often Telegram
\* repeats the update and whoever else got hold of it; a token that was
\* replaced or has lapsed links nothing (handleWebhookUpdate).
TokenLinksOnce ==
  \A t \in Tokens :
    /\ Cardinality(binders[t]) <= 1
    /\ (binders[t] # {}) = (token[t].status = "consumed")
    /\ \A h \in binders[t] : token[t].bound = hook[h].from
=============================================================================
