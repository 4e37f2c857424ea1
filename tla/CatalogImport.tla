----------------------------- MODULE CatalogImport -----------------------------
(***************************************************************************)
(* The import of a song catalog: planCatalogImport decides what of a Vault  *)
(* export and of a Show Night running order is for this band,               *)
(* reconcileCatalogImport leaves out what the artist has, and importCatalog *)
(* (or the script, which reads the rows a second time before it links the   *)
(* items) writes songs and running orders in one transaction, while members *)
(* add and rename songs.  A title stands for its case-folded text.          *)
(***************************************************************************)
EXTENDS Naturals, FiniteSets, SequencesExt

CONSTANTS
  Imports,       \* requests and script runs
  Payloads,      \* [vault, ready, published, official, guests], see PayloadShape
  Flags,         \* [parked, guests, all : BOOLEAN], the options of an import
  Titles,        \* titles members may give a song
  Slug,          \* Slug[t]: the part of a Show Night key made of a title
  MaxEdits,      \* bound: songs added or renamed by members
  Dry,           \* imports that only preview
  Scripted,      \* imports made by scripts/import-catalog.mjs
  Nothing        \* no list, no rows

Projects == {"live", "parked", "booker", "other"}
Scopes == {"none", "default_live", "parked_catalog", "cover_not_active", "travis_books"}
VaultSong == [id : Nat, key : Nat, title : Titles, project : Projects,
              played : BOOLEAN, original : BOOLEAN, scope : Scopes]

CatalogConstants ==
  /\ Dry \subseteq Imports /\ Scripted \subseteq Imports
  /\ Titles \subseteq DOMAIN Slug
  /\ MaxEdits \in Nat
  /\ \A p \in Payloads :
       /\ IsInjective([i \in DOMAIN p.vault |-> p.vault[i].id])
       /\ Range(p.vault) \subseteq VaultSong

VARIABLES
  songs,     \* rows in the order of their ids: [key, title]
  setlists,  \* imported running orders: [key, by, items]
  import,    \* import[i]: its plan, what it has read and where it stands
  edits      \* edits of members so far

catalogVars == <<songs, setlists, import, edits>>

----------------------------------------------------------------------------
(* The plan.                                                                *)

NoKey == <<"manual">>
VaultKey(n) == <<"vault", n>>
SongKey(act, t) == <<"shownight", act, Slug[t]>>
SetKey(of) == <<of, "set">>

Ids(rows) == {rows[i].id : i \in DOMAIN rows}

\* decideVaultSong: "include", or the reason for which a song is left out.
Decision(s, p, f) ==
  LET parked == s.scope = "parked_catalog" \/ s.project = "parked"
      live == s.project = "live" \/ s.played
      hasReady == p.ready # <<>>
      inReady == s.id \in Ids(p.ready)
      published == p.published # Nothing
      declares == \E i \in DOMAIN p.vault : p.vault[i].scope # "none"
      scope == IF s.scope # "none" THEN s.scope
               ELSE CASE s.project = "live" -> "default_live"
                      [] s.project = "parked" -> "parked_catalog"
                      [] OTHER -> "not_live_band"
      asked == f.parked /\ parked
  IN
  IF s.project = "booker" \/ s.scope = "travis_books" THEN "travis_books"
  ELSE IF ~f.all /\ (~s.original \/ s.scope = "cover_not_active") THEN "cover_not_active"
  ELSE IF f.all THEN "include"
  ELSE IF published THEN
         IF s.id \in Ids(p.published) \/ asked THEN "include"
         ELSE IF s.scope \notin {"none", "default_live"} THEN s.scope
         ELSE IF parked THEN "parked_catalog"
         ELSE IF hasReady \/ p.published = <<>> THEN "not_setlist_ready" ELSE "not_live_band"
  ELSE IF declares THEN
         IF scope = "default_live" \/ (scope = "parked_catalog" /\ f.parked) THEN "include" ELSE scope
  ELSE IF hasReady /\ ~inReady THEN IF asked THEN "include" ELSE "not_setlist_ready"
  ELSE IF parked /\ ~live /\ ~f.parked THEN "parked_catalog"
  ELSE IF ~live /\ ~parked THEN "not_live_band"
  ELSE "include"

Upsert_ByKey(plan, d) ==
  IF \E i \in DOMAIN plan : plan[i].key = d.key THEN plan ELSE Append(plan, d)

\* A song joins the plan under its key, or under that of its title.
Upsert(plan, d) ==
  IF \E i \in DOMAIN plan : plan[i].key = d.key \/ plan[i].title = d.title THEN plan ELSE Append(plan, d)
KeyOf(plan, d) ==
  LET same == SelectSeq(plan, LAMBDA x : x.key = d.key)
      named == SelectSeq(plan, LAMBDA x : x.title = d.title)
  IN IF same # <<>> THEN same[1].key ELSE named[1].key

Draft(s) == [key |-> VaultKey(s.key), title |-> s.title, project |-> s.project]
VaultPlan(p, f) ==
  FoldLeft(LAMBDA plan, s : IF Decision(s, p, f) = "include" THEN Upsert(plan, Draft(s)) ELSE plan,
           <<>>, p.vault)
VaultSkipped(p, f) == {s \in Range(p.vault) : Decision(s, p, f) # "include"}

ReadyRows(p, f) ==
  IF f.all \/ f.parked \/ p.published = Nothing THEN p.ready ELSE p.published
\* A row of the running order is found by its id, else by its title.
ReadyKey(plan, row) ==
  LET same == SelectSeq(plan, LAMBDA x : x.key = VaultKey(row.id))
      named == SelectSeq(plan, LAMBDA x : x.title = row.title)
  IN IF same # <<>> THEN same ELSE named
ReadyItems(plan, rows) ==
  FoldLeft(LAMBDA items, row : LET found == ReadyKey(plan, row) IN
             IF found = <<>> THEN items
             ELSE Append(items, [key |-> found[1].key, label |-> found[1].title]),
           <<>>, rows)

\* Show Night adds songs of its own only where no Vault payload was read.
NightSong(hasVault, act, acc, t) ==
  LET d == [key |-> SongKey(act, t), title |-> t, project |-> act]
      plan == IF hasVault THEN acc.plan ELSE Upsert(acc.plan, d)
      known == \E i \in DOMAIN plan : plan[i].title = t
  IN IF hasVault /\ ~known THEN acc
     ELSE [plan |-> plan,
           items |-> Append(acc.items,
             [label |-> t,
              key |-> IF hasVault
                      THEN plan[CHOOSE i \in DOMAIN plan : plan[i].title = t].key
                      ELSE KeyOf(plan, d)])]
NightSet(hasVault, act, plan, titles) ==
  FoldLeft(LAMBDA acc, t : NightSong(hasVault, act, acc, t), [plan |-> plan, items |-> <<>>], titles)

WithSet(sets, of, items) ==
  IF items = <<>> THEN sets ELSE Append(sets, [key |-> SetKey(of), items |-> items])

Plan(p, f) ==
  LET hasVault == p.vault # <<>>
      vaulted == VaultPlan(p, f)
      official == NightSet(hasVault, "rad-dad", vaulted, p.official)
      guest == IF f.guests THEN NightSet(hasVault, "guest", official.plan, p.guests)
               ELSE [plan |-> official.plan, items |-> <<>>]
  IN [songs |-> guest.plan,
      sets |-> WithSet(WithSet(WithSet(<<>>, "vault", ReadyItems(vaulted, ReadyRows(p, f))),
                               "rad-dad", official.items), "guest", guest.items)]

----------------------------------------------------------------------------
(* An import.                                                               *)

Idle == [at |-> "idle", payload |-> Nothing, flags |-> Nothing, plan |-> Nothing,
         songs |-> Nothing, sets |-> Nothing, links |-> Nothing]

CatalogInit ==
  /\ songs = <<>> /\ setlists = {}
  /\ import = [i \in Imports |-> Idle]
  /\ edits = 0

\* The payload is parsed and planned before anything is read.
Submit(i) ==
  /\ import[i].at = "idle"
  /\ \E p \in Payloads, f \in Flags :
       import' = [import EXCEPT ![i] =
                    [Idle EXCEPT !.at = "reading", !.payload = p, !.flags = f, !.plan = Plan(p, f)]]
  /\ UNCHANGED <<songs, setlists, edits>>

\* Two queries at once, neither in a transaction.
ReadSongs(i) ==
  /\ import[i].at = "reading" /\ import[i].songs = Nothing
  /\ import' = [import EXCEPT ![i].songs = songs]
  /\ UNCHANGED <<songs, setlists, edits>>

ReadSetlists(i) ==
  /\ import[i].at = "reading" /\ import[i].sets = Nothing
  /\ import' = [import EXCEPT ![i].sets = {s.key : s \in setlists}]
  /\ UNCHANGED <<songs, setlists, edits>>

\* A preview answers; the script reads the songs again to link the items.
Reconciled(i) ==
  /\ import[i].at = "reading" /\ import[i].songs # Nothing /\ import[i].sets # Nothing
  /\ import' = [import EXCEPT ![i].at = IF i \in Dry THEN "previewed" ELSE "apply",
                              ![i].links = IF i \in Scripted THEN songs ELSE import[i].songs]
  /\ UNCHANGED <<songs, setlists, edits>>

PlanOf(i) == import[i].plan
HasTitle(rows, t) == \E n \in DOMAIN rows : rows[n].title = t
HasKey(rows, k) == \E n \in DOMAIN rows : rows[n].key = k
IsNew(rows, d) == ~HasKey(rows, d.key) /\ ~HasTitle(rows, d.title)
NewSongs(i) == SelectSeq(PlanOf(i).songs, LAMBDA d : IsNew(import[i].songs, d))
NewSets(i) == SelectSeq(PlanOf(i).sets, LAMBDA s : s.key \notin import[i].sets)

\* The row an item is linked to: created now, or known under its key or under
\* the title of the planned song with that key, or else under its label.
\* Of several rows of a title the last is in the map, the first is searched.
FirstNamed(rows, t) == CHOOSE n \in DOMAIN rows : rows[n].title = t /\ \A m \in 1..(n - 1) : rows[m].title # t
LastNamed(rows, t) == CHOOSE n \in DOMAIN rows : rows[n].title = t /\ \A m \in (n + 1)..Len(rows) : rows[m].title # t
Linked(i, created, item) ==
  LET known == import[i].links
      at(k) == CHOOSE n \in DOMAIN known : known[n].key = k
      new == {n \in DOMAIN created : created[n].key = item.key}
      skipped == {d \in Range(PlanOf(i).songs) : d.key = item.key /\ ~IsNew(import[i].songs, d)}
  IN CASE new # {} -> Len(songs) + (CHOOSE n \in new : TRUE)
       [] HasKey(known, item.key) -> at(item.key)
       [] \E d \in skipped : HasTitle(known, d.title) ->
            FirstNamed(known, (CHOOSE d \in skipped : TRUE).title)
       [] HasTitle(known, item.label) -> LastNamed(known, item.label)
       [] OTHER -> 0
Items(i, created, set) ==
  LET linked == [n \in DOMAIN set.items |->
                   [label |-> set.items[n].label, key |-> set.items[n].key,
                    song |-> Linked(i, created, set.items[n])]]
  IN SelectSeq(linked, LAMBDA x : x.song # 0)

\* One transaction.  Source keys are unique for an artist, so an import that
\* was overtaken by another writes nothing.
Apply(i) ==
  LET created == [n \in DOMAIN NewSongs(i) |-> [key |-> NewSongs(i)[n].key, title |-> NewSongs(i)[n].title]]
      free == /\ \A n \in DOMAIN created : ~HasKey(songs, created[n].key)
              /\ \A s \in Range(NewSets(i)) : \A t \in setlists : t.key # s.key
  IN
  /\ import[i].at = "apply"
  /\ IF free
     THEN /\ songs' = songs \o created
          /\ setlists' = setlists \union
               {[key |-> s.key, by |-> i, items |-> Items(i, created, s)] : s \in Range(NewSets(i))}
          /\ import' = [import EXCEPT ![i].at = "applied"]
     ELSE /\ import' = [import EXCEPT ![i].at = "failed"]
          /\ UNCHANGED <<songs, setlists>>
  /\ UNCHANGED edits

----------------------------------------------------------------------------
(* Members.                                                                 *)

AddSong ==
  /\ edits < MaxEdits /\ edits' = edits + 1
  /\ \E t \in Titles : songs' = Append(songs, [key |-> NoKey, title |-> t])
  /\ UNCHANGED <<setlists, import>>

\* The source key of a row is not for members to change.
RenameSong ==
  /\ edits < MaxEdits /\ edits' = edits + 1
  /\ \E n \in DOMAIN songs, t \in Titles :
       songs[n].title # t /\ songs' = [songs EXCEPT ![n].title = t]
  /\ UNCHANGED <<setlists, import>>

CatalogNext ==
  \/ \E i \in Imports :
       Submit(i) \/ ReadSongs(i) \/ ReadSetlists(i) \/ Reconciled(i) \/ Apply(i)
  \/ AddSong \/ RenameSong

CatalogSpec == CatalogInit /\ [][CatalogNext]_catalogVars

----------------------------------------------------------------------------
(* What the catalog is said to be.                                          *)

Kind(k) == CASE k[1] = "vault" -> "vault" [] k[1] = "manual" -> "manual" [] OTHER -> "show_night"

\* catalogRecordProvenance: a running order without a key is no catalog, and one
\* of a source whose songs are there adds no second.
Source(rows, sets) ==
  LET present == {Kind(rows[n].key) : n \in DOMAIN rows}
      extra == {IF s.key[1] = "vault" THEN "vault" ELSE "show_night" : s \in sets} \ present
  IN IF rows = <<>> THEN "none"
     ELSE IF Cardinality(present) = 1 /\ extra = {} THEN CHOOSE k \in present : TRUE
     ELSE "mixed"

----------------------------------------------------------------------------
(* Properties.                                                              *)

CatalogTypeOK ==
  /\ \A n \in DOMAIN songs : songs[n].title \in Titles
  /\ \A s \in setlists : s.by \in Imports /\ \A n \in DOMAIN s.items : s.items[n].song \in DOMAIN songs
  /\ \A i \in Imports : import[i].at \in {"idle", "reading", "previewed", "apply", "applied", "failed"}
  /\ edits \in 0..MaxEdits

\* Whatever a payload holds, its plan names a song once, links every item of a
\* running order to a song of the plan, plans nothing of the booker, by
\* default nothing the published list does not hold, and nothing of Show Night's
\* beside a Vault (planCatalogImport, decideVaultSong, upsertSong).
PlanAccounts ==
  \A i \in Imports : import[i].at # "idle" =>
    LET p == import[i].payload
        f == import[i].flags
        plan == PlanOf(i)
        keys == {d.key : d \in Range(plan.songs)}
        of(d) == {s \in Range(p.vault) : d.key = VaultKey(s.key)}
    IN /\ \A m, n \in DOMAIN plan.songs : m # n =>
            plan.songs[m].key # plan.songs[n].key /\ plan.songs[m].title # plan.songs[n].title
       /\ \A set \in Range(plan.sets) : \A item \in Range(set.items) : item.key \in keys
       /\ p.vault # <<>> => \A d \in Range(plan.songs) :
            \E s \in of(d) : /\ s.project # "booker"
                             /\ (p.published # Nothing /\ ~f.all /\ ~f.parked) =>
                                  s.id \in Ids(p.published)

\* However imports and members interleave, each item of an imported running
\* order is linked to the song that has its key, or that had its title when the
\* import read it, and through the API no item is lost (importCatalog).
ItemsLinked ==
  \A s \in setlists :
    LET plan == PlanOf(s.by)
        set == CHOOSE x \in Range(plan.sets) : x.key = s.key
        known == import[s.by].links
        names(item) == {item.label} \union {d.title : d \in {e \in Range(plan.songs) : e.key = item.key}}
    IN /\ s.by \notin Scripted => Len(s.items) = Len(set.items)
       /\ \A n \in DOMAIN s.items :
            \/ songs[s.items[n].song].key = s.items[n].key
            \/ /\ s.items[n].song \in DOMAIN known
               /\ known[s.items[n].song].title \in names(s.items[n])

\* A catalog is said to come from one source exactly if its songs and imported
\* running orders do (describeSongCatalogStatus).
SourceTrue ==
  LET kinds == {Kind(songs[n].key) : n \in DOMAIN songs} \union {Kind(s.key) : s \in setlists}
  IN Source(songs, setlists) =
       IF songs = <<>> THEN "none"
       ELSE IF Cardinality(kinds) = 1 THEN CHOOSE k \in kinds : TRUE ELSE "mixed"
=============================================================================
