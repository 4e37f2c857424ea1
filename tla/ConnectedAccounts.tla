-------------------------- MODULE ConnectedAccounts --------------------------
(***************************************************************************)
(* The accounts a band is connected to: the OAuth round trip of an owner    *)
(* through Meta, YouTube, TikTok or Google, with a signed state that the    *)
(* callback takes for 15 minutes; the account rows a drop is reviewed by;   *)
(* and what acts with the secrets kept: a drop that is sent, a request that *)
(* writes through Gmail, Calendar or Drive.                                 *)
(*                                                                          *)
(* A flow is one visit to a provider and its callback, which a browser may  *)
(* repeat.  There is one browser, at which operators take turns.  A token   *)
(* is known by the account it acts for, an account of a platform by the     *)
(* destination it belongs to, and the client credentials are configured.    *)
(***************************************************************************)
EXTENDS Naturals

CONSTANTS
  Operators, Flows, Tabs,
  Providers,      \* the ones exercised
  Destinations,   \* Pages, channels and mailboxes an owner may choose at a provider
  StateLife,      \* STATE_TTL_MS
  Mock,           \* SOCIAL_ADAPTER is not "real"
  OwnMailbox,     \* GOOGLE_OAUTH_REFRESH_TOKEN is set
  MaxNow, MaxEdits,
  Nothing

Platforms == {"facebook", "instagram", "youtube", "tiktok"}
Adapters == {"gmail", "calendar", "drive"}

ProviderOf(platform) ==
  IF platform = "youtube" THEN "youtube_publish" ELSE IF platform = "tiktok" THEN "tiktok" ELSE "meta"

Naming(names) == [p \in Platforms |-> IF p \in DOMAIN names THEN names[p] ELSE Nothing]
Grant(token, names, scopes) == [token |-> token, names |-> Naming(names), scopes |-> scopes]

\* One Page, with its Instagram account if it has one; its token is kept with its ids.
MetaGrants ==
  UNION {{Grant(page, [facebook |-> page, instagram |-> instagram], {}) :
            instagram \in {Nothing, page}} : page \in Destinations}
YouTubeGrants == {Grant(channel, [youtube |-> channel], {}) : channel \in Destinations}
TikTokGrants == {Grant(user, [tiktok |-> user], {}) : user \in Destinations}
GoogleGrants == {Grant(box, <<>>, scopes) : box \in Destinations, scopes \in SUBSET Adapters}
Grants == MetaGrants \union YouTubeGrants \union TikTokGrants \union GoogleGrants

ConnectionConstants ==
  /\ Providers \subseteq {"meta", "youtube_publish", "tiktok", "google"}
  /\ StateLife \in Nat /\ MaxNow \in Nat /\ MaxEdits \in Nat
  /\ Mock \in BOOLEAN /\ OwnMailbox \in BOOLEAN
  /\ Nothing \notin Destinations /\ Nothing \notin Platforms /\ Nothing \notin Grants

VARIABLES
  who,          \* owners of the band, and the operator signed in
  now, edits,
  flow,
  connection,   \* IntegrationConnection of each provider: its scopes and secrets
  account,      \* SocialAccount of each platform: externalAccountId
  voiced,       \* the band has a SocialVoiceProfile
  load,         \* what a workspace request has yet to make sure of
  drop,         \* destination reviewed, and the token it was sent with
  acting        \* a request that writes through Google

connectionVars == <<who, now, edits, flow, connection, account, voiced, load, drop, acting>>

ConnectionInit ==
  /\ who \in [owners : SUBSET Operators, session : Operators]
  /\ now = 0 /\ edits = 0
  /\ flow = [f \in Flows |->
       [step |-> "idle", provider |-> Nothing, by |-> Nothing, signedAt |-> 0,
        grant |-> Nothing, owned |-> FALSE]]
  /\ connection = [p \in Providers |-> Nothing]
  /\ account \in {[p \in Platforms |-> Nothing], [p \in Platforms |-> "mock"]}
  /\ voiced = FALSE
  /\ load = [t \in Tabs |-> {}]
  /\ drop = [platform |-> Nothing, asked |-> Nothing, used |-> Nothing]
  /\ acting = [step |-> "idle", linked |-> FALSE, through |-> Nothing, scopes |-> {}, adapter |-> Nothing]

rows == <<connection, account, voiced, load>>
world == <<who, now, edits>>
users == <<drop, acting>>

-----------------------------------------------------------------------------
(* Leaving for a provider *)

Start(f, provider) ==
  /\ flow[f].step = "idle"
  /\ who.session \in who.owners
  /\ flow' = [flow EXCEPT ![f].step = "away", ![f].provider = provider,
                          ![f].by = who.session, ![f].signedAt = now]
  /\ UNCHANGED <<world, rows, users>>

ConnectStart(f) == \E provider \in Providers \ {"google"} : Start(f, provider)
Authorize(f) == "google" \in Providers /\ Start(f, "google")

-----------------------------------------------------------------------------
(* The callback: the state, the session, the role, the exchange, the rows *)

StateValid(f) == now - flow[f].signedAt <= StateLife

Goto(f, step) ==
  /\ flow' = [flow EXCEPT ![f].step = step]
  /\ UNCHANGED <<world, rows, users>>

\* The provider sends the browser back, or the browser repeats the call, with the
\* cookie of who is signed in then.  `owned`: history, the operator has been an owner
\* since this call came.
Arrive(f) ==
  /\ flow[f].step \in {"away", "connected", "failed"}
  /\ flow' = [flow EXCEPT
       ![f].step = IF StateValid(f) /\ flow[f].by = who.session THEN "known" ELSE "failed",
       ![f].owned = flow[f].by \in who.owners]
  /\ UNCHANGED <<world, rows, users>>

\* The owner declined at the provider.
Declined(f) == flow[f].step = "away" /\ Goto(f, "failed")

\* assertMembership and assertOwner; an owner is a member.
AssertOwner(f) == flow[f].step = "known" /\ Goto(f, IF flow[f].by \in who.owners THEN "allowed" ELSE "failed")

\* A code is good for one exchange, which may fail.
Exchange(f, grants) ==
  /\ flow[f].step = "allowed"
  /\ \/ /\ flow[f].grant = Nothing
        /\ \E grant \in grants :
             flow' = [flow EXCEPT ![f].step = "granted", ![f].grant = grant]
     \/ flow' = [flow EXCEPT ![f].step = "failed"]
  /\ UNCHANGED <<world, rows, users>>

\* One transaction: the connection with its secrets, then the accounts they name.
SaveAccounts(f) ==
  /\ flow[f].step = "granted"
  /\ flow' = [flow EXCEPT ![f].step = "connected"]
  /\ connection' = [connection EXCEPT ![flow[f].provider] = flow[f].grant]
  /\ account' = [p \in Platforms |->
       IF flow[f].grant.names[p] # Nothing THEN flow[f].grant.names[p] ELSE account[p]]
  /\ UNCHANGED <<world, voiced, load, users>>

SaveMailbox(f) ==
  /\ flow[f].step = "granted"
  /\ flow' = [flow EXCEPT ![f].step = "connected"]
  /\ connection' = [connection EXCEPT !["google"] = flow[f].grant]
  /\ UNCHANGED <<world, account, voiced, load, users>>

SaveFails(f) == flow[f].step = "granted" /\ Goto(f, "failed")

Checks(f) == Declined(f) \/ Arrive(f) \/ AssertOwner(f)

Finish(f) ==
  /\ flow[f].provider # "google"
  /\ \/ Checks(f) \/ SaveAccounts(f) \/ SaveFails(f)
     \/ flow[f].provider = "meta" /\ Exchange(f, MetaGrants)
     \/ flow[f].provider = "youtube_publish" /\ Exchange(f, YouTubeGrants)
     \/ flow[f].provider = "tiktok" /\ Exchange(f, TikTokGrants)

GoogleCallback(f) ==
  /\ flow[f].provider = "google"
  /\ Checks(f) \/ Exchange(f, GoogleGrants) \/ SaveMailbox(f) \/ SaveFails(f)

-----------------------------------------------------------------------------
(* The social page of a band *)

\* The voice profile, read before it is made; then the mock accounts, one by one.
Workspace(t) ==
  /\ load[t] = {}
  /\ load' = [load EXCEPT ![t] =
       (IF voiced THEN {} ELSE {"voice"}) \union (IF Mock THEN Platforms ELSE {})]
  /\ load'[t] # {}
  /\ UNCHANGED <<world, flow, connection, account, voiced, users>>

\* Another request made it meanwhile: artistId is unique, and this one ends.
EnsureVoiceProfile(t) ==
  /\ "voice" \in load[t]
  /\ load' = [load EXCEPT ![t] = IF voiced THEN {} ELSE @ \ {"voice"}]
  /\ voiced' = TRUE
  /\ UNCHANGED <<world, flow, connection, account, users>>

\* An account that exists is left as it is.
Mocked(platform) == IF account[platform] = Nothing THEN "mock" ELSE account[platform]

EnsureMockAccount(t) ==
  /\ "voice" \notin load[t]
  /\ \E platform \in load[t] :
       /\ load' = [load EXCEPT ![t] = @ \ {platform}]
       /\ account' = [account EXCEPT ![platform] = Mocked(platform)]
  /\ UNCHANGED <<world, flow, connection, voiced, users>>

-----------------------------------------------------------------------------
(* A drop is reviewed by its account row and sent with the secrets as they are then *)

\* payloadFromPost: the destination is part of what the owner approves.
Review(platform) ==
  /\ account[platform] # Nothing
  /\ drop' = [platform |-> platform, asked |-> account[platform], used |-> Nothing]
  /\ UNCHANGED <<world, flow, rows, acting>>

\* boundSocialSecrets
Bound(grant, platform, asked) == grant # Nothing /\ grant.names[platform] = asked

\* secretsFor, for the real adapter.
SecretsFor(platform) ==
  /\ ~Mock
  /\ drop.platform = platform /\ drop.used = Nothing
  /\ ProviderOf(platform) \in Providers
  /\ Bound(connection[ProviderOf(platform)], platform, drop.asked)
  /\ drop' = [drop EXCEPT !.used = connection[ProviderOf(platform)].token]
  /\ UNCHANGED <<world, flow, rows, acting>>

-----------------------------------------------------------------------------
(* A request that writes through Google *)

\* googleOverrideForArtist, and the deployment's own mailbox without one.
Registry ==
  LET row == connection["google"]
  IN IF row # Nothing THEN [through |-> "band", scopes |-> row.scopes]
     ELSE [through |-> IF OwnMailbox THEN "deployment" ELSE "mock", scopes |-> Adapters]

\* buildAdapterRegistry: an adapter whose scope was not granted is a mock.
AdapterIn(registry, adapter) == IF adapter \in registry.scopes THEN registry.through ELSE "mock"

\* `linked`: history, the band was connected when the request came.
Ask ==
  /\ acting.step = "idle"
  /\ acting' = [acting EXCEPT !.step = "asked", !.linked = connection["google"] # Nothing]
  /\ UNCHANGED <<world, flow, rows, drop>>

Resolve ==
  /\ acting.step = "asked"
  /\ acting' = [acting EXCEPT !.step = "resolved", !.through = Registry.through, !.scopes = Registry.scopes]
  /\ UNCHANGED <<world, flow, rows, drop>>

Act ==
  /\ acting.step = "resolved"
  /\ \E adapter \in Adapters :
       acting' = [acting EXCEPT !.step = "acted", !.adapter = adapter, !.through = AdapterIn(acting, adapter)]
  /\ UNCHANGED <<world, flow, rows, drop>>

-----------------------------------------------------------------------------
(* What happens meanwhile *)

Edit ==
  /\ edits < MaxEdits /\ edits' = edits + 1
  /\ UNCHANGED <<now, rows, users>>

SignIn(operator) ==
  /\ Edit
  /\ who' = [who EXCEPT !.session = operator]
  /\ UNCHANGED flow

MakeOwner(operator) ==
  /\ Edit
  /\ who' = [who EXCEPT !.owners = @ \union {operator}]
  /\ flow' = [f \in Flows |-> [flow[f] EXCEPT !.owned = @ \/ flow[f].by = operator]]

RemoveOwner(operator) ==
  /\ Edit
  /\ who' = [who EXCEPT !.owners = @ \ {operator}]
  /\ UNCHANGED flow

Tick == now < MaxNow /\ now' = now + 1 /\ UNCHANGED <<who, edits, flow, rows, users>>

ConnectionNext ==
  \/ \E f \in Flows : ConnectStart(f) \/ Authorize(f) \/ Finish(f) \/ GoogleCallback(f)
  \/ \E t \in Tabs : Workspace(t) \/ EnsureVoiceProfile(t) \/ EnsureMockAccount(t)
  \/ \E platform \in Platforms : Review(platform) \/ SecretsFor(platform)
  \/ "google" \in Providers /\ (Ask \/ Resolve \/ Act)
  \/ \E operator \in Operators : SignIn(operator) \/ MakeOwner(operator) \/ RemoveOwner(operator)
  \/ Tick

ConnectionSpec == ConnectionInit /\ [][ConnectionNext]_connectionVars

-----------------------------------------------------------------------------
\* A band is connected only by an operator who was one of its owners after the
\* provider sent them back: to have been one when leaving is not enough (finish,
\* callback).
ConnectedByOwner == \A f \in Flows : flow[f].step = "connected" => flow[f].owned

\* Whatever callbacks and loads of the page race, the account shown for a platform is
\* the one the secrets of its provider name, if they name one (finish,
\* ensureMockAccounts).
AccountsAsConnected ==
  \A p \in Platforms :
    /\ ProviderOf(p) \in Providers
    /\ account[p] # Nothing
    /\ connection[ProviderOf(p)] # Nothing
    => connection[ProviderOf(p)].names[p] \in {Nothing, account[p]}

\* A drop reviewed for a destination is sent with a token of that destination, though
\* the band was connected to another since (secretsFor, boundSocialSecrets).
SentToReviewed == drop.used # Nothing => drop.used = drop.asked

\* A request acts for the band only by what an owner granted, and for the deployment
\* only if the band was not connected when it came (resolveForArtist,
\* buildAdapterRegistry).
ActsAsGranted ==
  /\ acting.step = "acted" /\ acting.through = "band"
     => \E f \in Flows : /\ flow[f].provider = "google" /\ flow[f].grant # Nothing
                         /\ acting.adapter \in flow[f].grant.scopes
  /\ acting.step = "acted" /\ acting.through = "deployment" => ~acting.linked
=============================================================================
