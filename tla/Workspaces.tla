------------------------------- MODULE Workspaces -------------------------------
(***************************************************************************)
(* One browser, the cookies that its tabs share, and the bands of who signs    *)
(* in with it.  A tab signs in through Google (AuthController), shows one of   *)
(* the operator's bands (serverBandAccess), acts there, and makes a new one    *)
(* in a Serializable transaction (OnboardingService).  A request carries the    *)
(* cookies of the moment it is sent; its answer changes them when it arrives.  *)
(*                                                                          *)
(* Band 1 is there from the start and belongs to others, who let operators in  *)
(* and out of it.                                                           *)
(***************************************************************************)
EXTENDS Naturals, Sequences, FiniteSets

CONSTANTS
  Operators, Tabs, Names,
  Invites,                        \* invitations a sign-in may begin with, or Nobody
  Scoping,                        \* whether the requests of a page name its band: TRUE, FALSE
  MaxSlugs,                       \* names tried before a slug is given up
  MaxTries,                       \* runs of a creating transaction
  MaxBands, MaxClicks, MaxEdits, MaxFaults,   \* bounds
  Nobody                          \* no session, no invitation, no code

WorkspaceConstants ==
  /\ {MaxSlugs, MaxTries, MaxBands} \subseteq Nat \ {0}
  /\ {MaxClicks, MaxEdits, MaxFaults} \subseteq Nat
  /\ Scoping \subseteq BOOLEAN /\ Nobody \notin Operators

VARIABLES
  band,      \* sequence of Artist rows: slug, and the click that made it for whom
  joined,    \* [Operators -> sequence of their ArtistMembership rows, oldest first]
  cookie,    \* the session and the state of a sign-in that is under way
  page,      \* [Tabs -> what the tab shows]
  request,   \* [Tabs -> the request it has sent]
  clicks, edits, faults

workspaceVars == <<band, joined, cookie, page, request, clicks, edits, faults>>
rows == <<band, joined>>

NoRequest == [at |-> "idle"]
Session(o, b) == [operator |-> o, current |-> b]    \* current 0: none chosen
Bands(o) == {joined[o][i].band : i \in DOMAIN joined[o]}
HasRole(o, b, roles) == \E i \in DOMAIN joined[o] : joined[o][i].band = b /\ joined[o][i].role \in roles

WorkspaceInit ==
  /\ band = <<[slug |-> <<"other", 0>>, maker |-> Nobody, first |-> FALSE, click |-> 0]>>
  /\ joined \in [Operators -> {<<>>, <<[band |-> 1, role |-> "owner"]>>}]
  /\ \E s \in {Nobody} \union {Session(o, 0) : o \in Operators} : cookie = [session |-> s, state |-> Nobody]
  /\ page = [t \in Tabs |-> [at |-> "blank"]] /\ request = [t \in Tabs |-> NoRequest]
  /\ clicks = 0 /\ edits = 0 /\ faults = 0

Clicks == clicks < MaxClicks /\ clicks' = clicks + 1
Fault == faults < MaxFaults /\ faults' = faults + 1
Shows(t, p) == page' = [page EXCEPT ![t] = p]
Sends(t, r) == request[t] = NoRequest /\ request' = [request EXCEPT ![t] = r]
Ends(t) == request' = [request EXCEPT ![t] = NoRequest]

----------------------------------------------------------------------------
(* What a page loaded with a session shows (getMe, serverBandAccess).         *)

BandShown(s) == IF s.current \in Bands(s.operator) THEN s.current ELSE joined[s.operator][1].band
Loaded(s) ==
  IF s = Nobody THEN [at |-> "gate"]
  ELSE IF joined[s.operator] = <<>> THEN [at |-> "welcome"]
  ELSE [at |-> "shown", session |-> s, rows |-> joined[s.operator], band |-> BandShown(s)]

Load(t) ==
  /\ request[t] = NoRequest /\ page[t].at # "google" /\ Shows(t, Loaded(cookie.session))
  /\ UNCHANGED <<rows, cookie, request, clicks, edits, faults>>

----------------------------------------------------------------------------
(* Signing in: the cookie holds the nonce of the flow started last in this     *)
(* browser and its invitation.                                                *)

StartGoogle(t, invite) ==
  /\ page[t].at = "gate" /\ request[t] = NoRequest /\ Clicks
  /\ cookie' = [cookie EXCEPT !.state = [nonce |-> clicks', invite |-> invite]]
  /\ Shows(t, [at |-> "google", nonce |-> clicks', invite |-> invite])
  /\ UNCHANGED <<rows, request, edits, faults>>

\* Google sends the browser back with a code, or with an error.
ComesBack(t) ==
  /\ page[t].at = "google"
  /\ \E code \in Operators \union {Nobody} :
       Sends(t, [at |-> "callback", nonce |-> page[t].nonce, code |-> code, state |-> cookie.state])
  /\ UNCHANGED <<rows, cookie, page, clicks, edits, faults>>

Matches(r) == r.state # Nobody /\ r.state.nonce = r.nonce
Callback(t) ==
  /\ request[t].at = "callback" /\ Ends(t)
  /\ LET r == request[t] IN
     IF ~Matches(r) THEN Shows(t, [at |-> "gate"]) /\ UNCHANGED cookie
     ELSE /\ \E s \in {cookie.session} \union (IF r.code = Nobody THEN {} ELSE {Session(r.code, 0)}) :
               cookie' = [session |-> s, state |-> Nobody]
          /\ Shows(t, [at |-> "landed", asked |-> page[t].invite, invite |-> r.state.invite])
  /\ UNCHANGED <<rows, clicks, edits, faults>>

SignOut(t) ==
  /\ page[t].at \in {"shown", "landed"} /\ Sends(t, [at |-> "logout", session |-> cookie.session])
  /\ UNCHANGED <<rows, cookie, page, clicks, edits, faults>>
SignedOut(t) ==
  /\ request[t].at = "logout" /\ Ends(t)
  /\ IF request[t].session = Nobody THEN UNCHANGED <<cookie, page>>
     ELSE cookie' = [cookie EXCEPT !.session = Nobody] /\ Shows(t, [at |-> "gate"])
  /\ UNCHANGED <<rows, clicks, edits, faults>>

----------------------------------------------------------------------------
(* A band is chosen for all tabs, and acted in by one.                        *)

Switch(t, b) ==
  /\ page[t].at = "shown" /\ b # page[t].band /\ \E i \in DOMAIN page[t].rows : page[t].rows[i].band = b
  /\ Sends(t, [at |-> "switch", session |-> cookie.session, band |-> b])
  /\ UNCHANGED <<rows, cookie, page, clicks, edits, faults>>
Switched(t) ==
  /\ request[t].at = "switch" /\ Ends(t)
  /\ LET r == request[t] IN
     IF r.session # Nobody /\ r.band \in Bands(r.session.operator)
     THEN cookie' = [cookie EXCEPT !.session = Session(r.session.operator, r.band)]
     ELSE UNCHANGED cookie
  /\ UNCHANGED <<rows, page, clicks, edits, faults>>

\* Some pages send the band they show with a request (scopedApiFetch), others do not.
Act(t) ==
  /\ page[t].at = "shown"
  /\ \E scoped \in Scoping :
       Sends(t, [at |-> "act", session |-> cookie.session, header |-> IF scoped THEN page[t].band ELSE 0,
                 shown |-> page[t]])
  /\ UNCHANGED <<rows, cookie, page, clicks, edits, faults>>

\* resolveArtistId: the header, else the session's band, else the oldest membership.
Preferred(r) == IF r.header # 0 THEN r.header ELSE r.session.current
Resolved(r) == IF Preferred(r) # 0 THEN Preferred(r) ELSE joined[r.session.operator][1].band
Admits(r) ==
  /\ r.session # Nobody /\ joined[r.session.operator] # <<>>
  /\ HasRole(r.session.operator, Resolved(r), {"member", "owner"})
Resolve(t) ==
  /\ request[t].at = "act"
  /\ LET r == request[t] IN
     IF ~Admits(r) THEN Ends(t)
     ELSE request' = [request EXCEPT ![t] =
       [at |-> "write", band |-> Resolved(r), header |-> r.header, shown |-> r.shown.band,
        fresh |-> r.session = r.shown.session /\ joined[r.session.operator] = r.shown.rows]]
  /\ UNCHANGED <<rows, cookie, page, clicks, edits, faults>>
Write(t) ==
  /\ request[t].at = "write" /\ Ends(t)
  /\ UNCHANGED <<rows, cookie, page, clicks, edits, faults>>

----------------------------------------------------------------------------
(* createWorkspace: what it reads, and its commit in a Serializable             *)
(* transaction that is run again only when it is known to be aborted.          *)

Create(t, name) ==
  /\ page[t].at \in {"welcome", "shown"} /\ Clicks
  /\ Sends(t, [at |-> "create", session |-> cookie.session, name |-> name, click |-> clicks', tries |-> 0,
               heard |-> TRUE, source |-> IF page[t].at = "shown" THEN page[t].band ELSE 0])
  /\ UNCHANGED <<rows, cookie, page, edits, faults>>

Taken == {band[i].slug : i \in DOMAIN band}
Slug(name) ==
  IF \E k \in 0..MaxSlugs - 1 : <<name, k>> \notin Taken
  THEN <<name, CHOOSE k \in 0..MaxSlugs - 1 : <<name, k>> \notin Taken /\ \A j \in 0..k - 1 : <<name, j>> \in Taken>>
  ELSE Nobody
MayCreate(r) ==
  /\ r.session # Nobody
  /\ IF r.source = 0 THEN joined[r.session.operator] = <<>>
     ELSE HasRole(r.session.operator, r.source, {"owner"})

ReadToCreate(t) ==
  /\ request[t].at = "create"
  /\ LET r == request[t] IN
     IF ~MayCreate(r) \/ Slug(r.name) = Nobody THEN Ends(t)
     ELSE request' = [request EXCEPT ![t] =
       [at |-> "commit", operator |-> r.session.operator, slug |-> Slug(r.name), saw |-> Len(band),
        again |-> [r EXCEPT !.tries = r.tries + 1]]]
  /\ UNCHANGED <<rows, cookie, page, clicks, edits, faults>>

\* Rows that other such transactions committed since this one read.
Since(r) == (r.saw + 1)..Len(band)
SlugTaken(r) == \E i \in Since(r) : band[i].slug = r.slug
\* Two that each saw no membership of an operator cannot both commit.
Skewed(r) == r.again.source = 0 /\ \E i \in Since(r) : band[i].maker = r.operator /\ band[i].first

Commits(r) ==
  /\ ~SlugTaken(r) /\ ~Skewed(r) /\ Len(band) < MaxBands
  /\ band' = Append(band, [slug |-> r.slug, maker |-> r.operator, first |-> r.again.source = 0, click |-> r.again.click])
  /\ joined' = [joined EXCEPT ![r.operator] = Append(@, [band |-> Len(band) + 1, role |-> "owner"])]
Tell(t, at) ==
  LET r == request[t].again IN
  request' = [request EXCEPT ![t] = [at |-> at, operator |-> request[t].operator, click |-> r.click, heard |-> r.heard]]

Commit(t) ==
  /\ request[t].at = "commit" /\ Commits(request[t]) /\ Tell(t, "created")
  /\ UNCHANGED <<cookie, page, clicks, edits, faults>>
\* PostgreSQL may abort any of them; of two with one slug it aborts one, or calls the
\* slug a duplicate, which is told at once.
Abort(t) ==
  /\ request[t].at = "commit"
  /\ \/ request[t].again.tries < MaxTries /\ request' = [request EXCEPT ![t] = request[t].again]
     \/ (request[t].again.tries = MaxTries \/ SlugTaken(request[t])) /\ Tell(t, "conflict")
  /\ UNCHANGED <<rows, cookie, page, clicks, edits, faults>>
\* Nobody knows whether it was committed; that is not run again.
LosesCommit(t) ==
  /\ request[t].at = "commit" /\ Fault /\ Tell(t, "error")
  /\ Commits(request[t]) \/ UNCHANGED rows
  /\ UNCHANGED <<cookie, page, clicks, edits>>

AnswerArrives(t) ==
  /\ request[t].at \in {"created", "conflict", "error"} /\ Ends(t)
  /\ IF request[t].at = "created" /\ request[t].heard
     THEN \E i \in DOMAIN band :
            /\ band[i].click = request[t].click
            /\ cookie' = [cookie EXCEPT !.session = Session(request[t].operator, i)]
     ELSE UNCHANGED cookie
  /\ UNCHANGED <<rows, page, clicks, edits, faults>>
\* The tab is closed or its connection breaks: the server goes on, the cookies stay.
Leaves(t) ==
  /\ request[t].at = "create" /\ request[t].heard /\ Fault
  /\ request' = [request EXCEPT ![t] = [request[t] EXCEPT !.heard = FALSE]] /\ Shows(t, [at |-> "blank"])
  /\ UNCHANGED <<rows, cookie, clicks, edits>>

----------------------------------------------------------------------------
(* The owners of the first band let an operator in, change the role or remove  *)
(* the operator, from another browser.                                        *)

ChangeTeam(o) ==
  LET mine == joined[o] IN
  /\ edits < MaxEdits /\ edits' = edits + 1
  /\ \/ \E role \in {"owner", "viewer"} :
          joined' = [joined EXCEPT ![o] =
            IF 1 \in Bands(o) THEN [i \in DOMAIN mine |-> IF mine[i].band = 1 THEN [band |-> 1, role |-> role] ELSE mine[i]]
            ELSE Append(mine, [band |-> 1, role |-> role])]
     \/ \E i \in DOMAIN mine :
          /\ mine[i].band = 1
          /\ joined' = [joined EXCEPT ![o] = SubSeq(mine, 1, i - 1) \o SubSeq(mine, i + 1, Len(mine))]
  /\ UNCHANGED <<band, cookie, page, request, clicks, faults>>

WorkspaceNext ==
  \/ \E t \in Tabs :
       \/ Load(t) \/ ComesBack(t) \/ Callback(t) \/ SignOut(t) \/ SignedOut(t) \/ Switched(t)
       \/ Act(t) \/ Resolve(t) \/ Write(t)
       \/ ReadToCreate(t) \/ Commit(t) \/ Abort(t) \/ LosesCommit(t) \/ AnswerArrives(t) \/ Leaves(t)
       \/ \E invite \in Invites : StartGoogle(t, invite)
       \/ \E name \in Names : Create(t, name)
       \/ \E b \in DOMAIN band : Switch(t, b)
  \/ \E o \in Operators : ChangeTeam(o)

WorkspaceSpec == WorkspaceInit /\ [][WorkspaceNext]_workspaceVars

----------------------------------------------------------------------------
\* A click makes one band at most, none if it is told of a conflict, and one of which
\* its operator is an owner if it is told so; nobody gets two first bands, and no two
\* bands share a slug (createWorkspace, createWithSerializationRetry).
BandMadeOnce ==
  /\ \A i, j \in DOMAIN band : i # j =>
       /\ band[i].slug # band[j].slug /\ band[i].click # band[j].click
       /\ ~(band[i].first /\ band[j].first /\ band[i].maker = band[j].maker)
  /\ \A t \in Tabs :
       /\ request[t].at = "conflict" => \A i \in DOMAIN band : band[i].click # request[t].click
       /\ request[t].at = "created" => \E i \in DOMAIN band :
            band[i].click = request[t].click /\ HasRole(request[t].operator, i, {"owner"})

\* A sign-in ends at the invitation its own tab began with, whatever other tabs begin
\* or end meanwhile (startGoogle, googleCallback).
LandsAtInvite == \A t \in Tabs : page[t].at = "landed" => page[t].invite = page[t].asked

\* A request that names the band of its page changes no other; one that names none
\* does so only if the session or the memberships changed since the page was loaded
\* (scopedApiFetch, resolveArtistId, serverBandAccess).
ActsWhereShown ==
  \A t \in Tabs : request[t].at = "write" /\ (request[t].header # 0 \/ request[t].fresh) => request[t].band = request[t].shown
=============================================================================
