---------------------------- MODULE SetlistEditing ----------------------------
(***************************************************************************)
(* A running order edited by several members at once: the draft each of     *)
(* them holds in a browser (reduceSetlistDraft of setlist-draft.ts, driven   *)
(* by setlist-builder.tsx) and the version check of patchSetlist             *)
(* (operations.service.ts). Requests may be lost, late, or applied with      *)
(* their answer lost; pages refresh with what the server had earlier.        *)
(*                                                                          *)
(* Members outside OpenEditors appear as their saves alone: whatever they do in  *)
(* their browsers reaches an editor only through the row.                    *)
(*                                                                          *)
(* Every write moves updatedAt forward, so it is a version number here, and  *)
(* a draft stands for its canonical form. Editing pauses while a request is  *)
(* under way, so the revision of a draft never differs from the one saved.   *)
(***************************************************************************)
EXTENDS Naturals, FiniteSets

CONSTANTS
  OpenEditors,      \* open editors
  Drafts,       \* running orders
  Unfit,        \* those that setlistCreateSchema refuses
  MaxVersion,   \* bound on the saved versions
  MaxLate,      \* bound on the requests that outlive their deadline
  Shaky,        \* the editors that lose messages and whose page is refreshed
  None,         \* null
  Garbled       \* a response that readSnapshot refuses

EditingConstants ==
  /\ Unfit \subseteq Drafts /\ Shaky \subseteq OpenEditors
  /\ MaxVersion \in Nat \ {0} /\ MaxLate \in Nat
  /\ None \notin OpenEditors /\ None \notin [version : Nat, draft : Drafts]

VARIABLES
  saved,     \* the row: version, draft, and the editor that wrote it
  editor,    \* editor[e]: base, draft, latest, pending, issue
  doing,     \* doing[e]: the operation under way, and the row reviewLatest brings
  page,      \* page[e]: the props of a refresh on their way
  wire,      \* PATCH requests on their way; late: nobody waits for the answer
  reviewed   \* history: versions e has had before them

editingVars == <<saved, editor, doing, page, wire, reviewed>>

Snapshot(v, d) == [version |-> v, draft |-> d]
SavedNow == Snapshot(saved.version, saved.draft)
Newer(s, t) == s.version > t.version

Resting == [op |-> "none", row |-> None]
Opened(s) == [base |-> s, draft |-> s.draft, latest |-> None, pending |-> None, issue |-> "none"]

EditingFrom(d) ==
  /\ saved = [version |-> 1, draft |-> d, by |-> None]
  /\ editor = [e \in OpenEditors |-> Opened(SavedNow)]
  /\ doing = [e \in OpenEditors |-> Resting]
  /\ page = [e \in OpenEditors |-> None]
  /\ wire = {}
  /\ reviewed = [e \in OpenEditors |-> {1}]

EditingInit == \E d \in Drafts \ Unfit : EditingFrom(d)

-----------------------------------------------------------------------------
(* reduceSetlistDraft *)

Dirty(ed) == ed.draft # ed.base.draft
CanSave(ed) ==
  /\ Dirty(ed) /\ ed.draft \notin Unfit
  /\ ed.latest = None /\ ed.pending = None /\ ed.issue = "none"

Known(ed) == IF ed.latest # None THEN ed.latest ELSE ed.base

\* Mistake: an editor with changes takes a new version as if it had none.
Clean_Always(ed) == ed.pending = None

Clean(ed) == ed.pending = None /\ ~Dirty(ed)

\* Mistake: a version that arrives over a draft becomes its base at once.
Offered_AsBase(ed, s) == [ed EXCEPT !.base = s, !.issue = "none"]

Offered(ed, s) == [ed EXCEPT !.latest = s, !.issue = "none"]

Received(ed, s) ==
  CASE s = Garbled -> [ed EXCEPT !.issue = "invalid-receipt"]
    [] s # Garbled /\ Newer(Known(ed), s) -> ed
    [] s # Garbled /\ ~Newer(Known(ed), s) ->
         IF s.version = Known(ed).version /\ s.draft # Known(ed).draft
         THEN [ed EXCEPT !.issue = "invalid-receipt"]
         ELSE IF Clean(ed) THEN Opened(s)
         ELSE IF s.version = ed.base.version THEN [ed EXCEPT !.issue = "none"]
         ELSE Offered(ed, s)

Unconfirmed(ed) == [ed EXCEPT !.pending = None, !.issue = "save-unconfirmed"]

SaveSucceeded(ed, s) ==
  IF \/ s = Garbled
     \/ s.version <= ed.pending.version \/ s.draft # ed.pending.draft
     \/ s.version = Known(ed).version /\ s.draft # Known(ed).draft
     \/ Newer(ed.base, s)
  THEN Unconfirmed(ed)
  ELSE [Opened(s) EXCEPT !.latest =
          IF ed.latest # None /\ Newer(ed.latest, s) THEN ed.latest ELSE None]

\* The versions the editor shows as its own after a step.
Shows(e, ed) == reviewed' = [reviewed EXCEPT ![e] =
                  IF Dirty(ed) THEN @ ELSE @ \union {ed.base.version}]

Becomes(e, ed) == editor' = [editor EXCEPT ![e] = ed] /\ Shows(e, ed)

-----------------------------------------------------------------------------
(* The member *)

Editable(e) == doing[e] = Resting /\ editor[e].pending = None

Edit(e, d) ==
  /\ Editable(e)
  /\ editor' = [editor EXCEPT ![e].draft = d]
  /\ UNCHANGED <<saved, doing, page, wire, reviewed>>

\* The choice between the draft and the version offered against it.
ChooseReviewed(e, choice) ==
  /\ Editable(e) /\ editor[e].latest # None /\ editor[e].issue = "none"
  /\ LET latest == editor[e].latest
     IN  /\ editor' = [editor EXCEPT ![e] =
              [Opened(latest) EXCEPT !.draft =
                 IF choice = "use-latest" THEN latest.draft ELSE editor[e].draft]]
         /\ reviewed' = [reviewed EXCEPT ![e] = @ \union {latest.version}]
  /\ UNCHANGED <<saved, doing, page, wire>>

SendSave(e) ==
  /\ Editable(e) /\ CanSave(editor[e])
  /\ LET request == [version |-> editor[e].base.version, draft |-> editor[e].draft]
     IN  /\ editor' = [editor EXCEPT ![e].pending = request]
         /\ wire' = wire \union {[from |-> e, version |-> request.version,
                                  draft |-> request.draft, late |-> FALSE]}
  /\ doing' = [doing EXCEPT ![e].op = "save"]
  /\ UNCHANGED <<saved, page, reviewed>>

ReviewLatest(e) ==
  /\ Editable(e)
  /\ doing' = [doing EXCEPT ![e] = [op |-> "read", row |-> SavedNow]]
  /\ UNCHANGED <<saved, editor, page, wire, reviewed>>

\* Leaving the page and opening it again.
Reopen(e) ==
  /\ Becomes(e, Opened(SavedNow))
  /\ doing' = [doing EXCEPT ![e] = Resting]
  /\ page' = [page EXCEPT ![e] = None]
  /\ wire' = {[m EXCEPT !.late = @ \/ m.from = e] : m \in wire}
  /\ UNCHANGED saved

-----------------------------------------------------------------------------
(* The server and the network *)

Waiting(m) == ~m.late

\* patchSetlist: the answer is the row it wrote, or a conflict.
Apply(m) ==
  /\ m \in wire /\ saved.version < MaxVersion
  /\ LET e == m.from
         written == [version |-> saved.version + 1, draft |-> m.draft, by |-> e]
     IN  IF m.version = saved.version
         THEN /\ saved' = written
              /\ IF Waiting(m)
                 THEN Becomes(e, SaveSucceeded(editor[e], Snapshot(written.version, written.draft)))
                 ELSE UNCHANGED <<editor, reviewed>>
         ELSE /\ editor' = IF Waiting(m)
                           THEN [editor EXCEPT ![e].pending = None, ![e].issue = "save-conflict"]
                           ELSE editor
              /\ UNCHANGED <<saved, reviewed>>
  /\ doing' = IF Waiting(m) THEN [doing EXCEPT ![m.from] = Resting] ELSE doing
  /\ wire' = wire \ {m}
  /\ UNCHANGED page

\* The save is applied, but what comes back cannot be read.
ApplyGarbled(m) ==
  /\ m \in wire /\ Waiting(m) /\ m.from \in Shaky
  /\ m.version = saved.version /\ saved.version < MaxVersion
  /\ saved' = [version |-> saved.version + 1, draft |-> m.draft, by |-> m.from]
  /\ Becomes(m.from, SaveSucceeded(editor[m.from], Garbled))
  /\ doing' = [doing EXCEPT ![m.from] = Resting]
  /\ wire' = wire \ {m}
  /\ UNCHANGED page

\* A member who is not one of OpenEditors saves what they have on the version they have.
OthersSave(d) ==
  /\ saved.version < MaxVersion /\ d \notin Unfit
  /\ saved' = [version |-> saved.version + 1, draft |-> d, by |-> None]
  /\ UNCHANGED <<editor, doing, page, wire, reviewed>>

Late == {m \in wire : m.late}

\* The deadline of 15 seconds: the request may still arrive.
Interrupt(m, lost) ==
  /\ m \in wire /\ Waiting(m) /\ m.from \in Shaky
  /\ editor' = [editor EXCEPT ![m.from] = Unconfirmed(@)]
  /\ doing' = [doing EXCEPT ![m.from] = Resting]
  /\ wire' = IF lost THEN wire \ {m} ELSE (wire \ {m}) \union {[m EXCEPT !.late = TRUE]}
  /\ UNCHANGED <<saved, page, reviewed>>

LatestArrives(e, garbled) ==
  /\ doing[e].op = "read" /\ (garbled => e \in Shaky)
  /\ Becomes(e, Received(editor[e], IF garbled THEN Garbled ELSE doing[e].row))
  /\ doing' = [doing EXCEPT ![e] = Resting]
  /\ UNCHANGED <<saved, page, wire>>

LatestFails(e) ==
  /\ doing[e].op = "read" /\ e \in Shaky
  /\ editor' = [editor EXCEPT ![e].issue = "read-failed"]
  /\ doing' = [doing EXCEPT ![e] = Resting]
  /\ UNCHANGED <<saved, page, wire, reviewed>>

\* router.refresh(): the server renders now, the props arrive later.
Refresh(e) ==
  /\ e \in Shaky /\ page[e] = None
  /\ page' = [page EXCEPT ![e] = SavedNow]
  /\ UNCHANGED <<saved, editor, doing, wire, reviewed>>

PropsArrive(e) ==
  /\ page[e] # None
  /\ Becomes(e, Received(editor[e], page[e]))
  /\ page' = [page EXCEPT ![e] = None]
  /\ UNCHANGED <<saved, doing, wire>>

EditingNext ==
  \/ \E e \in OpenEditors :
       \/ \E d \in Drafts : Edit(e, d)
       \/ \E choice \in {"use-latest", "keep-draft"} : ChooseReviewed(e, choice)
       \/ SendSave(e) \/ ReviewLatest(e) \/ Reopen(e)
       \/ \E garbled \in BOOLEAN : LatestArrives(e, garbled)
       \/ LatestFails(e) \/ Refresh(e) \/ PropsArrive(e)
  \/ \E d \in Drafts : OthersSave(d)
  \/ \E m \in wire : \/ Apply(m) \/ ApplyGarbled(m)
                     \/ \E lost \in BOOLEAN : Cardinality(Late) < MaxLate /\ Interrupt(m, lost)

EditingSpec == EditingInit /\ [][EditingNext]_editingVars

-----------------------------------------------------------------------------
(* Properties *)

\* A save never replaces a version its author has not had before them: as the
\* editor's own contents, or in the choice against a draft (setlist-draft.ts:192,
\* "Only the reviewed base supplies expectedUpdatedAt").
SavesReviewed ==
  saved'.version # saved.version /\ saved'.by \in OpenEditors =>
    saved.version \in reviewed[saved'.by]

\* A draft with changes is replaced by its author only: by an edit, by choosing the
\* latest version, or by leaving; no refresh, receipt or failure takes it away.
KeepsDraft == \A e \in OpenEditors :
  Dirty(editor[e]) /\ editor'[e].draft # editor[e].draft =>
    \/ \E d \in Drafts : Edit(e, d)
    \/ ChooseReviewed(e, "use-latest")
    \/ Reopen(e)

\* However saves, answers, refreshes and other members' saves overtake one another,
\* nothing newer is overwritten unseen and nothing typed is lost
\* (patchSetlist, reduceSetlistDraft).
DraftsSurvive == [][SavesReviewed /\ KeepsDraft]_editingVars
=============================================================================
