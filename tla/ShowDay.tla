-------------------------------- MODULE ShowDay --------------------------------
(***************************************************************************)
(* The day of a show: what Band operations and the day-of page say is next   *)
(* (projectOpsShowControl, projectOpsLiveRun), the cursor members move over   *)
(* the running order, and the facts they record afterwards under the version *)
(* of the show their page holds (recordAfterShow), while the show is patched, *)
(* its running order is saved anew and its settlement is made.               *)
(***************************************************************************)
EXTENDS Integers, FiniteSets, SequencesExt

CONSTANTS
  Gigs,        \* ids, ordered as numbers
  Sets,        \* setlists
  Pages,       \* browser tabs on the day-of page of a show
  Plans,       \* [start, end, status, set, facts] of a show at first
  Facts,       \* after-show facts members type
  NoFacts,     \* nothing recorded
  Nil,         \* no time, no set, no item
  Patches,     \* what a patch of a show sets: [field, value]
  MaxNow,      \* bound: the clock
  MaxEdits,    \* bound: patches, saved running orders, settlements
  MaxAsks      \* bound: requests of a page

VARIABLES
  now,
  gig,         \* gig[g]: the row of a show
  order,       \* order[s]: the items of a setlist, by id
  settlements, \* settlements[g]: "none", "draft" or "finalized"
  page,        \* page[p]: what a tab shows, the facts it is typed over, what it asked
  patch,       \* a patch of a show between its read and its write
  edits

showVars == <<now, gig, order, settlements, page, patch, edits>>

Active == {"draft", "hold", "confirmed"}
Closed == {"completed", "cancelled"}

ShowConstants ==
  /\ Gigs \subseteq Nat /\ IsFiniteSet(Gigs) /\ Gigs # {} /\ NoFacts \notin Facts /\ Nil \notin Sets
  /\ MaxNow \in Nat /\ MaxEdits \in Nat /\ MaxAsks \in Nat
  /\ \A plan \in Plans : /\ plan.status \in Active /\ plan.set \in Sets \union {Nil}
                         /\ plan.start \in Nat \union {Nil}
  /\ \A x \in Patches : /\ x.field \in {"status", "start", "end", "set"}
                        /\ x.field = "start" => x.value \in Nat \union {Nil}

----------------------------------------------------------------------------
(* What is next.                                                            *)

Phase(row, t) ==
  IF row.status \notin Active \/ row.start = Nil THEN "none"
  ELSE IF row.start > t THEN "upcoming"
  ELSE IF row.start <= t /\ row.end # Nil /\ row.end >= t THEN "live"
  ELSE "overdue"
PhaseOrder == [live |-> 0, overdue |-> 1, upcoming |-> 2, none |-> 3]

\* selectLiveOrNextOpsGig: live, then overdue with the latest first, then the
\* next one.
Before(g, h) ==
  LET p == Phase(gig[g], now)
      q == Phase(gig[h], now)
  IN \/ PhaseOrder[p] < PhaseOrder[q]
     \/ p = q /\ p = "upcoming" /\ gig[g].start < gig[h].start
     \/ p = q /\ p # "upcoming" /\ gig[g].start > gig[h].start
     \/ p = q /\ gig[g].start = gig[h].start /\ g < h
Dated == {g \in Gigs : Phase(gig[g], now) # "none"}
Selected == CHOOSE g \in Dated : \A h \in Dated \ {g} : Before(g, h)

\* afterShowWriteAllowed.
FactsAllowed(row, t) == row.status \in Closed \/ (row.start # Nil /\ row.start <= t)

\* afterShowNextAction.
AfterShow(g) ==
  CASE settlements[g] = "draft" -> "finalize_settlement"
    [] settlements[g] = "none" -> "after_show_settlement"
    [] OTHER -> "after_show_recorded"

\* settlementWorkspaceNextAction.
Unsettled == {g \in Gigs : gig[g].status = "completed" /\ settlements[g] = "none"}
Books ==
  IF \E g \in Gigs : settlements[g] = "draft" THEN "finalize_settlement"
  ELSE IF Unsettled # {} THEN "create_settlement"
  ELSE "none"

\* Readiness is assessed for shows still to come; of its gaps one is kept here.
Lacking(g) == Phase(gig[g], now) = "upcoming" /\ (gig[g].set = Nil \/ order[gig[g].set] = <<>>)

\* projectNextAction, of an artist without bookings and invoices.
Advice ==
  IF Dated # {} /\ Phase(gig[Selected], now) = "live" THEN "open_day_of"
  ELSE IF Dated # {} /\ Phase(gig[Selected], now) = "overdue"
  THEN IF gig[Selected].facts = NoFacts THEN "review_overdue_gig" ELSE AfterShow(Selected)
  ELSE IF Dated # {} /\ Lacking(Selected) THEN "setlist_missing"
  ELSE IF Books # "none" THEN Books
  ELSE IF Dated = {} THEN "record_gig" ELSE "none"

\* projectOpsLiveRun: the panel for the facts is there on a show that started
\* or is closed; current and next come from the cursor alone.
WrapUp(row, t) ==
  LET phase == IF row.status \in Closed THEN "closed" ELSE Phase(row, t)
  IN phase = "closed" \/ (row.start # Nil /\ row.start <= t)
Items(row, orders) == IF row.set = Nil THEN <<>> ELSE orders[row.set]
CurrentAt(row, items) == SelectInSeq(items, LAMBDA item : item = row.cursor)
NextItem(row, items) ==
  IF CurrentAt(row, items) < Len(items) THEN items[CurrentAt(row, items) + 1] ELSE Nil

----------------------------------------------------------------------------
(* The page.                                                                *)

Snapshot(g) == [row |-> gig[g], items |-> Items(gig[g], order), wrap |-> WrapUp(gig[g], now)]
AtRest == [at |-> "idle"]
ShowInit ==
  /\ now = 0
  /\ gig \in [Gigs -> {[status |-> plan.status, start |-> plan.start, end |-> plan.end, set |-> plan.set,
                        cursor |-> Nil, facts |-> plan.facts, version |-> 0] : plan \in Plans}]
  /\ order = [s \in Sets |-> IF s = Min(Sets) THEN <<[set |-> s, id |-> 1], [set |-> s, id |-> 2]>>
                             ELSE <<[set |-> s, id |-> 1]>>]
  /\ settlements = [g \in Gigs |-> "none"]
  /\ page = [p \in Pages |-> [gig |-> Min(Gigs), data |-> Nil, base |-> NoFacts,
                              ask |-> AtRest, asked |-> 0]]
  /\ patch = AtRest /\ edits = 0

\* setData: what was typed is thrown away as soon as the facts are others, so
\* all that is typed is typed over `base`.
Shown(pg, data) ==
  [pg EXCEPT !.data = data,
             !.base = IF pg.data # Nil /\ pg.data.row.facts = data.row.facts THEN @ ELSE data.row.facts]

Refresh(p) ==
  /\ page' = [page EXCEPT ![p] = Shown(page[p], Snapshot(page[p].gig))]
  /\ UNCHANGED <<now, gig, order, settlements, patch, edits>>

Ask(p, ask) ==
  /\ page[p].data # Nil /\ page[p].ask = AtRest /\ page[p].asked < MaxAsks
  /\ page' = [page EXCEPT ![p].ask = ask, ![p].asked = @ + 1]
  /\ UNCHANGED <<now, gig, order, settlements, patch, edits>>

\* LiveWrapPanel save: refused at once if the show the page holds may not have
\* facts yet.
Save(p) ==
  LET pg == page[p]
  IN /\ pg.data # Nil /\ pg.data.wrap /\ FactsAllowed(pg.data.row, now)
     /\ \E f \in Facts :
          Ask(p, [at |-> "facts", facts |-> f, base |-> pg.base, version |-> pg.data.row.version])

\* LiveSetPanel: start, advance, or clear.
Position(p) ==
  /\ page[p].data # Nil
  /\ LET data == page[p].data IN
     \E item \in {NextItem(data.row, data.items)} \union {Nil} :
       /\ item = Nil => CurrentAt(data.row, data.items) > 0
       /\ Ask(p, [at |-> "position", item |-> item])

Answered(p) == page' = [page EXCEPT ![p].ask = [at |-> "answering"]]
Refused(p) == page' = [page EXCEPT ![p].ask = AtRest]

\* recordAfterShow: one serializable transaction.
Versioned_Now(row) == now
\* Later than the version read, even within a millisecond.
Versioned(row) == Max({now, row.version + 1})
Current(row, version) == row.version = version
RecordFacts(p) ==
  LET g == page[p].gig
      ask == page[p].ask
      ok == FactsAllowed(gig[g], now) /\ Current(gig[g], ask.version)
  IN
  /\ ask.at = "facts"
  /\ IF ok /\ gig[g].facts # ask.facts
     THEN gig' = [gig EXCEPT ![g].facts = ask.facts, ![g].version = Versioned(gig[g])]
     ELSE UNCHANGED gig
  /\ IF ok THEN Answered(p) ELSE Refused(p)
  /\ UNCHANGED <<now, order, settlements, patch, edits>>

\* Writes that stamp the clock: no two in a millisecond.
Stamped(row) == [row EXCEPT !.version = now]
FreshStamp(g) == gig[g].version < now

\* setLiveSetPosition: the item is looked up in the set that is assigned, then
\* the cursor is written.
ReadSet(p) ==
  LET g == page[p].gig
      item == page[p].ask.item
      belongs == item \in Range(Items(gig[g], order))
  IN
  /\ page[p].ask.at = "position"
  /\ IF gig[g].set = Nil \/ (item # Nil /\ ~belongs) THEN Refused(p)
     ELSE IF gig[g].cursor = item THEN Answered(p)
     ELSE page' = [page EXCEPT ![p].ask = [at |-> "positioning", item |-> item]]
  /\ UNCHANGED <<now, gig, order, settlements, patch, edits>>

WriteCursor(p) ==
  LET g == page[p].gig
      item == page[p].ask.item
      exists == item = Nil \/ \E s \in Sets : item \in Range(order[s])
  IN
  /\ page[p].ask.at = "positioning"
  /\ FreshStamp(g)
  /\ IF exists
     THEN /\ gig' = [gig EXCEPT ![g] = Stamped([gig[g] EXCEPT !.cursor = item])]
          /\ Answered(p)
     ELSE Refused(p) /\ UNCHANGED gig
  /\ UNCHANGED <<now, order, settlements, patch, edits>>

\* Every answer is the day-of page read afresh; it may be delivered late.
ReadDayOf(p) ==
  /\ page[p].ask.at = "answering"
  /\ page' = [page EXCEPT ![p].ask = [at |-> "answered", data |-> Snapshot(page[p].gig)]]
  /\ UNCHANGED <<now, gig, order, settlements, patch, edits>>
Deliver(p) ==
  /\ page[p].ask.at = "answered"
  /\ page' = [page EXCEPT ![p] = [Shown(page[p], page[p].ask.data) EXCEPT !.ask = AtRest]]
  /\ UNCHANGED <<now, gig, order, settlements, patch, edits>>
LoseAnswer(p) ==
  /\ page[p].ask.at \in {"answering", "answered"}
  /\ Refused(p)
  /\ UNCHANGED <<now, gig, order, settlements, patch, edits>>

----------------------------------------------------------------------------
(* Other members.                                                           *)

Edit == edits < MaxEdits /\ edits' = edits + 1

\* patchEvent: another set than the one read takes the cursor off; the facts
\* are not to be patched.
ReadPatch ==
  /\ patch = AtRest /\ Edit
  /\ \E g \in Gigs, x \in Patches : patch' = [at |-> "read", gig |-> g, patch |-> x, set |-> gig[g].set]
  /\ UNCHANGED <<now, gig, order, settlements, page>>
WritePatch ==
  LET g == patch.gig
      x == patch.patch
      other == x.field = "set" /\ x.value # patch.set
  IN
  /\ patch.at = "read" /\ FreshStamp(g)
  /\ gig' = [gig EXCEPT ![g] = Stamped(IF other THEN [gig[g] EXCEPT ![x.field] = x.value, !.cursor = Nil]
                                       ELSE [gig[g] EXCEPT ![x.field] = x.value])]
  /\ patch' = AtRest
  /\ UNCHANGED <<now, order, settlements, page, edits>>

\* Saving a running order deletes its items and creates them anew; a cursor on
\* one of them is set to null by the database.
SaveOrder ==
  /\ Edit
  /\ \E s \in Sets :
       LET top == Max({0} \union {item.id : item \in Range(order[s])})
           made == [n \in 1..2 |-> [set |-> s, id |-> top + n]]
       IN /\ order' = [order EXCEPT ![s] = made]
          /\ gig' = [g \in Gigs |-> IF gig[g].cursor \in Range(order[s])
                                    THEN [gig[g] EXCEPT !.cursor = Nil] ELSE gig[g]]
  /\ UNCHANGED <<now, settlements, page, patch>>

Settle ==
  /\ Edit
  /\ \E g \in Gigs :
       /\ settlements[g] # "finalized"
       /\ settlements' = [settlements EXCEPT ![g] = IF @ = "none" THEN "draft" ELSE "finalized"]
  /\ UNCHANGED <<now, gig, order, page, patch>>

Tick ==
  /\ now < MaxNow /\ now' = now + 1
  /\ UNCHANGED <<gig, order, settlements, page, patch, edits>>

ShowNext ==
  \/ \E p \in Pages :
       \/ Refresh(p) \/ Save(p) \/ Position(p)
       \/ RecordFacts(p) \/ ReadSet(p) \/ WriteCursor(p)
       \/ ReadDayOf(p) \/ Deliver(p) \/ LoseAnswer(p)
  \/ ReadPatch \/ WritePatch \/ SaveOrder \/ Settle \/ Tick

ShowSpec == ShowInit /\ [][ShowNext]_showVars

----------------------------------------------------------------------------
(* Properties.                                                              *)

ShowTypeOK ==
  /\ now \in 0..MaxNow /\ edits \in 0..MaxEdits
  /\ \A g \in Gigs : /\ gig[g].status \in Active \union Closed
                     /\ gig[g].facts \in Facts \union {NoFacts}
                     /\ gig[g].set \in Sets \union {Nil}
                     /\ gig[g].cursor \in {Nil} \union UNION {Range(order[s]) : s \in Sets}
  /\ \A p \in Pages : page[p].ask.at \in
       {"idle", "facts", "position", "positioning", "answering", "answered"}

\* Facts of a show change only by a save typed over the facts that were there,
\* and never before the show started or was closed: no tab overwrites what
\* another recorded without having been shown it, however patches, cursor moves,
\* late and lost answers refresh the version it holds (recordAfterShow).
FactsStep ==
  \A g \in Gigs : gig'[g].facts # gig[g].facts =>
    /\ FactsAllowed(gig[g], now)
    /\ \E p \in Pages : /\ page[p].gig = g /\ page[p].ask.at = "facts"
                        /\ page[p].ask.base = gig[g].facts
                        /\ page[p].ask.facts = gig'[g].facts

\* The finished but open show is never buried: while one is past its window and
\* none is on, what is next is about such a show, facts are asked for first,
\* and the page it leads to takes them (projectNextAction, projectOpsLiveRun).
NeverBuried ==
  LET overdue == {g \in Gigs : Phase(gig[g], now) = "overdue"}
      live == {g \in Gigs : Phase(gig[g], now) = "live"}
  IN /\ live # {} => Advice = "open_day_of"
     /\ live = {} /\ overdue # {} =>
          /\ Advice \in {"review_overdue_gig", "after_show_settlement",
                         "finalize_settlement", "after_show_recorded"}
          /\ WrapUp(gig[Selected], now)
          /\ (\A g \in overdue : gig[g].facts = NoFacts) => Advice = "review_overdue_gig"
     /\ \A g \in Gigs : WrapUp(gig[g], now) <=> FactsAllowed(gig[g], now)

\* Doing what is said to be next changes what is next, or the show it is about: no
\* show or settlement done is asked for again, and only a closed show or books let the
\* panel move on.
AdviceFollowed ==
  LET g == Selected IN
  CASE Advice = "review_overdue_gig" -> gig[g].facts = NoFacts /\ gig'[g].facts # NoFacts
    [] Advice = "after_show_settlement" -> settlements'[g] = "draft" /\ settlements[g] = "none"
    [] Advice = "after_show_recorded" -> gig'[g].status = "completed"
    [] Advice = "create_settlement" -> settlements' # settlements
    [] OTHER -> FALSE
AdviceStep == AdviceFollowed => Advice' # Advice \/ (Advice = "after_show_recorded" /\ Selected' # Selected)
=============================================================================
