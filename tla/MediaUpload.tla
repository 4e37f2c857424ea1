------------------------------ MODULE MediaUpload ------------------------------
(***************************************************************************)
(* A photo or video on its way into a drop.  A browser opens an upload, sends *)
(* the file chunk by chunk and completes it (uploadFile); the server appends  *)
(* each chunk to a file beside the row, which a rollback does not undo         *)
(* (SocialMediaService).  A drop then takes the file and pays for its captions *)
(* from a daily budget that all processes share (createDrop, reserve).        *)
(*                                                                          *)
(* Bytes are counted in pieces; a chunk is several, so an append may be torn.  *)
(***************************************************************************)
EXTENDS Naturals, Sequences, FiniteSets

CONSTANTS
  Uploads, Calls,     \* files, and requests the server works on
  Size, ChunkSize,    \* pieces of a file and of a chunk
  Drops, Limit,       \* requests to draft, and provider calls a day may make
  Days,
  MaxResends, MaxFaults,   \* bounds: requests delivered again; deaths, expiries, lost answers
  Nothing

UploadConstants ==
  /\ {Size, ChunkSize} \subseteq Nat \ {0} /\ {Limit, MaxResends, MaxFaults} \subseteq Nat
  /\ Days \subseteq Nat \ {0} /\ IsFiniteSet(Drops)

VARIABLES
  asset,     \* [Uploads -> row: status, whether it has a storage key, received pieces]
  file,      \* [Uploads -> the pieces on disk]
  tab,       \* [Uploads -> how far the browser is, and its offset]
  call,      \* [Calls -> a request in the server]
  overran,   \* history: uploads of which a transaction expired under its append
  drop,      \* [Drops -> how far it is, its upload, the day that pays for it]
  day, usage,    \* SocialCaptionDailyUsage
  asked,     \* history: [Days -> calls to the provider that the day pays for]
  resends, faults

uploadVars == <<asset, file, tab, call, overran, drop, day, usage, asked, resends, faults>>

AtRest == [at |-> "idle"]
Whole == [i \in 1..Size |-> i]

UploadInit ==
  /\ asset = [u \in Uploads |-> [status |-> "absent", key |-> FALSE, received |-> 0]]
  /\ file = [u \in Uploads |-> <<>>]
  /\ tab = [u \in Uploads |-> [at |-> "new", offset |-> 0]]
  /\ call = [c \in Calls |-> AtRest]
  /\ overran = {}
  /\ drop = [d \in Drops |-> AtRest]
  /\ day \in Days /\ usage = [n \in Days |-> 0] /\ asked = [n \in Days |-> 0]
  /\ resends = 0 /\ faults = 0

Fault == faults < MaxFaults /\ faults' = faults + 1
drafting == <<drop, day, usage, asked>>

----------------------------------------------------------------------------
(* init: the row, its file, and the row's key; whatever fails between them     *)
(* leaves a row that accepts no chunk.                                        *)

To(u, at) == tab' = [tab EXCEPT ![u].at = at]

CreateRow(u) ==
  /\ tab[u].at = "new" /\ To(u, "row")
  /\ asset' = [asset EXCEPT ![u].status = "uploading"]
  /\ UNCHANGED <<file, call, overran, drafting, resends, faults>>
CreateFile(u) ==
  /\ tab[u].at = "row" /\ To(u, "file")
  /\ file' = [file EXCEPT ![u] = <<>>]
  /\ UNCHANGED <<asset, call, overran, drafting, resends, faults>>
SaveKey(u) ==
  /\ tab[u].at = "file" /\ To(u, "ready to send")
  /\ asset' = [asset EXCEPT ![u].key = TRUE]
  /\ UNCHANGED <<file, call, overran, drafting, resends, faults>>
InitFails(u) ==
  /\ tab[u].at \in {"row", "file"} /\ To(u, "failed") /\ Fault
  /\ UNCHANGED <<asset, file, call, overran, drafting, resends>>

----------------------------------------------------------------------------
(* The browser sends one chunk at a time, goes on from what it is told was     *)
(* received, and gives up at the first error.  A request that got no answer    *)
(* may be delivered once more.                                                *)

NextChunk(u) == [start |-> tab[u].offset,
                 end |-> IF tab[u].offset + ChunkSize < Size THEN tab[u].offset + ChunkSize ELSE Size]
Arrives(u, c) ==
  call' = [call EXCEPT ![c] =
    IF tab[u].offset < Size THEN [at |-> "append", upload |-> u, range |-> NextChunk(u)]
    ELSE [at |-> "complete", upload |-> u]]

SendNext(u, c) ==
  /\ tab[u].at = "ready to send" /\ To(u, "waiting")
  /\ call[c] = AtRest /\ Arrives(u, c)
  /\ UNCHANGED <<asset, file, overran, drafting, resends, faults>>
Resend(u, c) ==
  /\ tab[u].at = "waiting" /\ resends < MaxResends /\ resends' = resends + 1
  /\ call[c] = AtRest /\ Arrives(u, c)
  /\ UNCHANGED <<asset, file, tab, overran, drafting, faults>>

\* An answer to a request that the browser no longer waits for is dropped.
Told(u, at, offset) ==
  tab' = IF tab[u].at = "waiting" THEN [tab EXCEPT ![u] = [at |-> at, offset |-> offset]] ELSE tab
Refuse(c) ==
  /\ Told(call[c].upload, "failed", tab[call[c].upload].offset)
  /\ call' = [call EXCEPT ![c] = AtRest]

----------------------------------------------------------------------------
(* appendChunk: under the lock of the row, which lasts as long as the          *)
(* transaction; the append goes on when it expires.                           *)

Locks(c) == call[c].at \in {"stat", "write", "save", "mark"} /\ ~call[c].expired
Locked(u) == \E c \in Calls : call[c] # AtRest /\ Locks(c) /\ call[c].upload = u

\* A chunk starts where the row's received pieces end.
Fits(u, range) == range.start = asset[u].received /\ range.start < range.end /\ range.end <= Size

TakeLock(c) ==
  /\ call[c].at = "append" /\ ~Locked(call[c].upload)
  /\ LET u == call[c].upload IN
     IF asset[u].status = "uploading" /\ asset[u].key /\ Fits(u, call[c].range)
     THEN /\ call' = [call EXCEPT ![c] =
               [at |-> "stat", upload |-> u, range |-> @.range, expects |-> asset[u].received, expired |-> FALSE]]
          /\ UNCHANGED tab
     ELSE Refuse(c)
  /\ UNCHANGED <<asset, file, overran, drafting, resends, faults>>

\* appendSocialMediaChunk refuses a file that is not as long as the row says.
Pieces(range) == [i \in 1..(range.end - range.start) |-> range.start + i]
AsExpected(u, expects) == Len(file[u]) = expects
Stat(c) ==
  /\ call[c].at = "stat"
  /\ IF AsExpected(call[c].upload, call[c].expects)
     THEN call' = [call EXCEPT ![c] = [at |-> "write", upload |-> @.upload, expired |-> @.expired,
                                       rest |-> Pieces(@.range)]]
          /\ UNCHANGED tab
     ELSE Refuse(c)
  /\ UNCHANGED <<asset, file, overran, drafting, resends, faults>>
Write(c) ==
  /\ call[c].at = "write" /\ call[c].rest # <<>>
  /\ file' = [file EXCEPT ![call[c].upload] = Append(@, Head(call[c].rest))]
  /\ call' = [call EXCEPT ![c].rest = Tail(@)]
  /\ UNCHANGED <<asset, tab, overran, drafting, resends, faults>>
\* What the row is told was received is the length of the file now.
Measure(c) ==
  /\ call[c].at = "write" /\ call[c].rest = <<>>
  /\ call' = [call EXCEPT ![c] = [at |-> "save", upload |-> @.upload, expired |-> @.expired,
                                  size |-> Len(file[@.upload])]]
  /\ UNCHANGED <<asset, file, tab, overran, drafting, resends, faults>>
SaveReceived(c) ==
  /\ call[c].at = "save"
  /\ LET u == call[c].upload IN
     IF call[c].expired THEN Refuse(c) /\ UNCHANGED asset
     ELSE /\ asset' = [asset EXCEPT ![u].received = call[c].size]
          /\ Told(u, "ready to send", call[c].size)
          /\ call' = [call EXCEPT ![c] = AtRest]
  /\ UNCHANGED <<file, overran, drafting, resends, faults>>

\* complete: the row has received everything and the file is as long.
Complete(c) ==
  /\ call[c].at = "complete" /\ ~Locked(call[c].upload)
  /\ LET u == call[c].upload IN
     IF asset[u].received = Size /\ asset[u].key /\ Len(file[u]) = Size
     THEN call' = [call EXCEPT ![c] = [at |-> "mark", upload |-> u, expired |-> FALSE]] /\ UNCHANGED tab
     ELSE Refuse(c)
  /\ UNCHANGED <<asset, file, overran, drafting, resends, faults>>
Mark(c) ==
  /\ call[c].at = "mark"
  /\ LET u == call[c].upload IN
     IF call[c].expired THEN Refuse(c) /\ UNCHANGED asset
     ELSE /\ asset' = [asset EXCEPT ![u].status = "ready"]
          /\ Told(u, "stored", tab[u].offset)
          /\ call' = [call EXCEPT ![c] = AtRest]
  /\ UNCHANGED <<file, overran, drafting, resends, faults>>

\* The transaction is rolled back and its lock released; the handler goes on.
Expire(c) ==
  /\ call[c] # AtRest /\ Locks(c) /\ Fault
  /\ call' = [call EXCEPT ![c].expired = TRUE]
  /\ overran' = IF call[c].at \in {"stat", "write"} THEN overran \union {call[c].upload} ELSE overran
  /\ UNCHANGED <<asset, file, tab, drafting, resends>>
\* Writing fails in the middle and the browser is told; or the process dies and
\* nobody answers.
Breaks(c) ==
  /\ call[c] # AtRest /\ Fault
  /\ \/ Refuse(c)
     \/ call' = [call EXCEPT ![c] = AtRest] /\ UNCHANGED tab
  /\ UNCHANGED <<asset, file, overran, drafting, resends>>
\* The connection of the browser breaks; what the server does, it does.
LosesAnswer(u) ==
  /\ tab[u].at = "waiting" /\ To(u, "failed") /\ Fault
  /\ UNCHANGED <<asset, file, call, overran, drafting, resends>>

----------------------------------------------------------------------------
(* createDrop up to its transaction.                                          *)

uploading == <<asset, file, tab, call, overran, resends>>
DropTo(d, at) == drop' = [drop EXCEPT ![d].at = at]

\* A file is taken only when its row is ready.  Without a provider the captions
\* come from the facts alone and cost nothing.
Takes(d, u) ==
  /\ drop[d] = AtRest /\ asset[u].status = "ready"
  /\ \E at \in {"reserve", "created"} :
       drop' = [drop EXCEPT ![d] = [at |-> at, upload |-> u, paid |-> Nothing]]
  /\ UNCHANGED <<uploading, day, usage, asked, faults>>

\* One upsert on the row of the database's day.
Reserve(d) ==
  /\ drop[d].at = "reserve"
  /\ IF usage[day] < Limit
     THEN /\ usage' = [usage EXCEPT ![day] = @ + 1]
          /\ drop' = [drop EXCEPT ![d].at = "ask", ![d].paid = day]
     ELSE DropTo(d, "refused") /\ UNCHANGED usage
  /\ UNCHANGED <<uploading, day, asked, faults>>
\* The write may have happened, and does not permit a call.
ReserveUncertain(d) ==
  /\ drop[d].at = "reserve" /\ Fault /\ DropTo(d, "refused")
  /\ usage' \in {usage, [usage EXCEPT ![day] = IF @ < Limit THEN @ + 1 ELSE @]}
  /\ UNCHANGED <<uploading, day, asked>>
Ask(d) ==
  /\ drop[d].at = "ask" /\ DropTo(d, "asked")
  /\ asked' = [asked EXCEPT ![drop[d].paid] = @ + 1]
  /\ UNCHANGED <<uploading, day, usage, faults>>
\* A failed or unfinished answer costs its reservation and makes no drop.
Answered(d) ==
  /\ drop[d].at = "asked"
  /\ \/ DropTo(d, "created") /\ UNCHANGED faults
     \/ DropTo(d, "refused") /\ Fault
  /\ UNCHANGED <<uploading, day, usage, asked>>
Midnight ==
  /\ day + 1 \in Days /\ day' = day + 1
  /\ UNCHANGED <<uploading, drop, usage, asked, faults>>

UploadNext ==
  \/ \E u \in Uploads : \/ CreateRow(u) \/ CreateFile(u) \/ SaveKey(u) \/ InitFails(u) \/ LosesAnswer(u)
                        \/ \E c \in Calls : SendNext(u, c) \/ Resend(u, c)
  \/ \E c \in Calls : \/ TakeLock(c) \/ Stat(c) \/ Write(c) \/ Measure(c) \/ SaveReceived(c)
                      \/ Complete(c) \/ Mark(c) \/ Expire(c) \/ Breaks(c)
  \/ \E d \in Drops : \/ Reserve(d) \/ ReserveUncertain(d) \/ Ask(d) \/ Answered(d)
                      \/ \E u \in Uploads : Takes(d, u)
  \/ Midnight

UploadSpec == UploadInit /\ [][UploadNext]_uploadVars

----------------------------------------------------------------------------
\* A file that is ready is the file that was sent, whatever was sent twice, torn or
\* left in the middle, except where a transaction expired under its append; who is
\* told it is stored, and a drop that takes it, may rely on that (appendChunk, complete).
ReadyIsWhole ==
  /\ \A u \in Uploads : asset[u].status = "ready" => u \in overran \/ file[u] = Whole
  /\ \A u \in Uploads : tab[u].at = "stored" => asset[u].status = "ready"
  /\ \A d \in Drops : drop[d] # AtRest => asset[drop[d].upload].status = "ready"

\* An upload that its browser still sends has received what is on disk and no more.
TabInStep ==
  \A u \in Uploads : tab[u].at = "ready to send" => tab[u].offset = asset[u].received

\* A day pays for as many provider calls as it allows, those that failed included
\* (reserve).
WithinBudget == \A n \in Days : asked[n] <= usage[n] /\ usage[n] <= Limit
=============================================================================
