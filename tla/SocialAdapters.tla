--------------------------- MODULE SocialAdapters ----------------------------
(***************************************************************************)
(* One publish() of a real adapter: the calls Facebook, Instagram, YouTube  *)
(* and TikTok take, what each may leave on the platform, and the answer the *)
(* send log is written from.                                                *)
(*                                                                          *)
(* A call that writes is answered well, or badly (not 2xx, no id, no        *)
(* session), or its answer is lost after 30 seconds; in every case but the  *)
(* first the platform may or may not have acted on it. A file is a number   *)
(* of chunks.                                                               *)
(***************************************************************************)
EXTENDS Integers

CONSTANTS
  Chunks,    \* chunks of the file
  MaxPolls   \* INSTAGRAM_CONTAINER_POLL_MAX_ATTEMPTS

AdapterConstants == Chunks \in Nat \ {0} /\ MaxPolls \in Nat \ {0}

VARIABLES
  wanted,   \* the input of publish()
  call,     \* step under way, offsets of the upload, polls made, and the answer
  remote,   \* what the platform holds of it
  calls     \* history: requests sent

adapterVars == <<wanted, call, remote, calls>>

Inputs == [platform : {"facebook", "instagram", "youtube", "tiktok"},
           kind : {"photo", "video"}, media : SUBSET {"file", "hosted"},
           token : BOOLEAN, refresh : BOOLEAN, event : BOOLEAN]

AdapterInit ==
  /\ wanted \in Inputs
  /\ call = [step |-> "begin", offset |-> 0, end |-> Chunks, polls |-> 0, answer |-> "none"]
  /\ remote = "nothing" /\ calls = 0

AtStep(step) == call.step = step
File == "file" \in wanted.media
Hosted == "hosted" \in wanted.media
Video == wanted.kind = "video"

----------------------------------------------------------------------------
(* Going on, stopping, calling *)

ProceedTo(step) == [call EXCEPT !.step = step, !.offset = 0]
Answer(answer) == [call EXCEPT !.step = "done", !.answer = answer]

\* Mistake: a refusal of the platform is taken for proof that nothing happened.
Unsure_AsFailure == Answer("failed")

\* What is answered when a write was not answered well.
Unsure == Answer("unknown")

\* A write that leaves `level` on the platform, and goes on with one of `nexts`.
WriteCall(level, nexts) ==
  /\ calls' = calls + 1
  /\ \/ remote' = level /\ call' \in nexts
     \/ remote' \in {remote, level} /\ call' = Unsure

\* A read, or a token request: nothing changes on the platform.
ReadCall(nexts) ==
  /\ calls' = calls + 1
  /\ call' \in nexts
  /\ UNCHANGED remote

NoCall(next) == call' = next /\ UNCHANGED <<remote, calls>>

----------------------------------------------------------------------------
(* publish(): what is refused before any request, and the first step *)

Unpublishable ==
  CASE wanted.platform = "facebook" -> ~wanted.token \/ wanted.event \/ wanted.media = {}
    [] wanted.platform = "instagram" -> ~wanted.token \/ wanted.media = {}
    [] wanted.platform = "youtube" -> ~(File /\ Video)
    [] wanted.platform = "tiktok" -> ~wanted.token \/ wanted.media = {} \/ (File /\ ~Video)

FirstStep ==
  CASE wanted.platform = "facebook" -> IF File /\ Video THEN "start" ELSE "post"
    [] wanted.platform = "instagram" -> "limit"
    [] wanted.platform = "youtube" -> IF wanted.token THEN "open" ELSE "token"
    [] wanted.platform = "tiktok" -> "inbox"

Begin ==
  /\ AtStep("begin")
  /\ NoCall(IF Unpublishable THEN Answer("failed") ELSE ProceedTo(FirstStep))

----------------------------------------------------------------------------
(* Facebook *)

\* A photo is published when its post id comes back; a hosted video is processed.
Post ==
  /\ AtStep("post")
  /\ WriteCall("public", IF Video THEN {Answer("processing")}
                         ELSE {Answer("published"), Answer("processing")})

Offsets == -1..(Chunks + 1)   \* -1: a number that is none, or negative
Invalid(from, to) == from < 0 \/ to < 0 \/ to > Chunks
From(from, to) == [call EXCEPT !.step = "transfer", !.offset = from, !.end = to]

Start ==
  /\ AtStep("start")
  /\ WriteCall("draft", {IF Invalid(from, to) THEN Unsure ELSE From(from, to)
                         : from \in Offsets, to \in Offsets})

\* Mistake: only the range of the offsets is checked.
Advances_Unchecked(from, to) == TRUE

Advances(from, to) == from > call.offset \/ from >= to

Transfer ==
  /\ AtStep("transfer")
  /\ IF call.offset < call.end
     THEN WriteCall("draft", {IF Invalid(from, to) \/ ~Advances(from, to) THEN Unsure
                              ELSE From(from, to) : from \in Offsets, to \in Offsets})
     ELSE NoCall(ProceedTo("finish"))

FinishUpload == AtStep("finish") /\ WriteCall("public", {Answer("processing")})

----------------------------------------------------------------------------
(* Instagram *)

\* content_publishing_limit: exhausted, or not, or not answered; a lost answer is
\* caught with all the others.
Limit ==
  /\ AtStep("limit")
  /\ ReadCall({Answer("failed"), Unsure,
               IF ~Video /\ ~Hosted THEN Answer("failed") ELSE ProceedTo("container")})

Container ==
  /\ AtStep("container")
  /\ WriteCall("draft", {IF Video /\ File THEN ProceedTo("put") ELSE IF Video THEN ProceedTo("poll")
                         ELSE ProceedTo("publish")})

\* waitForContainer
Poll ==
  /\ AtStep("poll")
  /\ ReadCall({ProceedTo("publish"), Unsure,
               IF call.polls + 1 < MaxPolls THEN [call EXCEPT !.polls = @ + 1] ELSE Unsure})

Publish == AtStep("publish") /\ WriteCall("public", {Answer("published")})

----------------------------------------------------------------------------
(* YouTube *)

\* accessToken, and the one refresh after a 401: no upload was begun.
Refresh(step, next) ==
  /\ AtStep(step)
  /\ IF wanted.refresh THEN ReadCall({ProceedTo(next), Answer("failed")})
     ELSE NoCall(Answer("failed"))

Open(step) ==
  /\ AtStep(step)
  /\ \/ WriteCall("draft", {ProceedTo("put")})
     \/ /\ step = "open" /\ wanted.refresh
        /\ ReadCall({ProceedTo("reauthorize")})

----------------------------------------------------------------------------
(* TikTok, and the chunks of Instagram, YouTube and TikTok *)

Inbox ==
  /\ AtStep("inbox")
  /\ IF File THEN WriteCall("draft", {ProceedTo("put")})
     ELSE WriteCall("inbox", {Answer("processing")})

Uploaded ==
  CASE wanted.platform = "instagram" -> [level |-> "draft", next |-> ProceedTo("poll")]
    [] wanted.platform = "youtube" -> [level |-> "private", next |-> Answer("private_upload")]
    [] OTHER -> [level |-> "inbox", next |-> Answer("processing")]

Put ==
  /\ AtStep("put")
  /\ IF call.offset + 1 < Chunks
     THEN WriteCall("draft", {[call EXCEPT !.offset = @ + 1]})
     ELSE WriteCall(Uploaded.level, {Uploaded.next})

AdapterNext ==
  /\ \/ Begin \/ Post \/ Start \/ Transfer \/ FinishUpload
     \/ Limit \/ Container \/ Poll \/ Publish
     \/ Refresh("token", "open") \/ Open("open") \/ Refresh("reauthorize", "reopen") \/ Open("reopen")
     \/ Inbox \/ Put
  /\ UNCHANGED wanted

AdapterSpec == AdapterInit /\ [][AdapterNext]_adapterVars

----------------------------------------------------------------------------
\* Whatever a platform does with a call it did not answer well, an answer never
\* claims more than is there, and a plain failure, which an owner may act on by
\* sending again, never hides something that was left on the platform.
AnswerIsTrue ==
  CASE call.answer = "failed" -> remote = "nothing"
    [] call.answer = "published" -> remote = "public"
    [] call.answer = "private_upload" -> remote = "private"
    [] call.answer = "processing" -> remote \in {"public", "inbox"}
    [] OTHER -> TRUE

\* No platform can hold a publish() for ever: offsets that stand still, a container
\* that is never ready and a token that is never accepted all end it.
PublishEnds == calls <= Chunks + MaxPolls + 4
=============================================================================
