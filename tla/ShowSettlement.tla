--------------------------- MODULE ShowSettlement ----------------------------
(***************************************************************************)
(* Expenses of shows and the settlement of each show (OperationsService):   *)
(* a draft is recomputed at will; finalizing attaches the expenses of its   *)
(* currency and freezes the books of the event. Each write is one           *)
(* serializable transaction; one that gives up changes nothing.             *)
(***************************************************************************)
EXTENDS Naturals, FiniteSets, Functions

CONSTANTS
  Events, Expenses, Members, Currencies,
  Splits,      \* splits a request may send: [subset of Members -> basis points]
  MaxMinor,    \* bound on each amount
  Nowhere      \* eventId = null: the expense of a project

Points == 10000

BookConstants ==
  /\ IsFiniteSet(Expenses) /\ IsFiniteSet(Members)
  /\ MaxMinor \in Nat /\ Nowhere \notin Events
  /\ \A s \in Splits : \E S \in SUBSET Members : s \in [S -> 0..Points]
  /\ \A s \in Splits : DOMAIN s # {} => SumFunction(s) = Points

VARIABLES
  expense,     \* expense[x]: event, amount, currency, settled: settlementId is set
  settlement,  \* settlement[v]: status, currency, gross, expense, net, splits, amounts
  activeMembers

bookVars == <<expense, settlement, activeMembers>>

NoExpense == [event |-> Nowhere, amount |-> 0, currency |-> "none", settled |-> FALSE]
NoSettlement == [status |-> "absent", currency |-> "none", gross |-> 0, expense |-> 0,
                 net |-> 0, splits |-> <<>>, amounts |-> <<>>]

BooksInit ==
  /\ expense = [x \in Expenses |-> NoExpense]
  /\ settlement = [v \in Events |-> NoSettlement]
  /\ activeMembers = Members

Recorded(x) == expense[x].amount > 0
Costs(v, c) == {x \in Expenses : expense[x].event = v /\ expense[x].currency = c}
CostOf(v, c) == SumFunction([x \in Costs(v, c) |-> expense[x].amount])

\* allocateSettlementSplits: floors, and what is left to a largest share.
Floors(net, splits) == [m \in DOMAIN splits |-> (net * splits[m]) \div Points]
Heirs(splits) == {m \in DOMAIN splits : \A n \in DOMAIN splits : splits[n] <= splits[m]}
\* Mistake: the cents the floors leave are nobody's.
Allocations_Floored(net, splits) == {Floors(net, splits)}

Allocations(net, splits) ==
  LET shares == Floors(net, splits)
      left == net - SumFunction(shares)
  IN  IF left = 0 \/ DOMAIN splits = {} THEN {shares} ELSE {[shares EXCEPT ![m] = @ + left] : m \in Heirs(splits)}

ActiveOnly(splits) == DOMAIN splits \subseteq activeMembers

----------------------------------------------------------------------------
\* assertEventAllowsExpenseMutation
BooksOpen(v) == v # Nowhere => settlement[v].status # "final"

CreateExpense(x) ==
  /\ ~Recorded(x)
  /\ \E v \in Events \union {Nowhere}, amount \in 1..MaxMinor, c \in Currencies :
       /\ BooksOpen(v)
       /\ expense' = [expense EXCEPT ![x] =
            [event |-> v, amount |-> amount, currency |-> c, settled |-> FALSE]]
  /\ UNCHANGED <<settlement, activeMembers>>

\* Mistake: only the event the expense leaves is looked at.
MayMove_Leaving(from, to) == BooksOpen(from)

MayMove(from, to) == BooksOpen(from) /\ BooksOpen(to)

PatchExpense(x) ==
  /\ Recorded(x) /\ ~expense[x].settled
  /\ \E v \in Events \union {Nowhere}, amount \in 1..MaxMinor, c \in Currencies :
       /\ MayMove(expense[x].event, v)
       /\ expense' = [expense EXCEPT ![x] =
            [event |-> v, amount |-> amount, currency |-> c, settled |-> FALSE]]
  /\ UNCHANGED <<settlement, activeMembers>>

\* createSettlement and patchSettlement compute alike; one per event.
SaveDraft(v, c, gross, splits) ==
  LET cost == CostOf(v, c)
  IN  /\ cost <= gross
      /\ \E amounts \in Allocations(gross - cost, splits) :
           settlement' = [settlement EXCEPT ![v] =
             [status |-> "draft", currency |-> c, gross |-> gross, expense |-> cost,
              net |-> gross - cost, splits |-> splits, amounts |-> amounts]]
      /\ UNCHANGED <<expense, activeMembers>>

CreateSettlement(v) ==
  /\ settlement[v].status = "absent"
  /\ \E c \in Currencies, gross \in 0..MaxMinor, splits \in Splits :
       ActiveOnly(splits) /\ SaveDraft(v, c, gross, splits)

\* New splits are checked against the active members; splits kept are not.
PatchSettlement(v) ==
  /\ settlement[v].status = "draft"
  /\ \E gross \in 0..MaxMinor, splits \in Splits \union {settlement[v].splits} :
       /\ splits = settlement[v].splits \/ ActiveOnly(splits)
       /\ SaveDraft(v, settlement[v].currency, gross, splits)

\* finalizeSettlement: recomputed once more; a finalized one is returned as it is.
FinalizeSettlement(v) ==
  LET s == settlement[v]
      cost == CostOf(v, s.currency)
  IN  /\ s.status = "draft"
      /\ ActiveOnly(s.splits)
      /\ cost <= s.gross
      /\ \E amounts \in Allocations(s.gross - cost, s.splits) :
           settlement' = [settlement EXCEPT ![v].status = "final", ![v].expense = cost,
                            ![v].net = s.gross - cost, ![v].amounts = amounts]
      /\ expense' = [x \in Expenses |->
           IF x \in Costs(v, s.currency) THEN [expense[x] EXCEPT !.settled = TRUE]
           ELSE expense[x]]
      /\ UNCHANGED activeMembers

\* A band member is deactivated, or comes back (BandMembersService).
ToggleMember(m) ==
  /\ activeMembers' = IF m \in activeMembers THEN activeMembers \ {m}
                      ELSE activeMembers \union {m}
  /\ UNCHANGED <<expense, settlement>>

BooksNext ==
  \/ \E x \in Expenses : CreateExpense(x) \/ PatchExpense(x)
  \/ \E v \in Events : CreateSettlement(v) \/ PatchSettlement(v) \/ FinalizeSettlement(v)
  \/ \E m \in Members : ToggleMember(m)

BooksSpec == BooksInit /\ [][BooksNext]_bookVars

----------------------------------------------------------------------------
\* Once a settlement is final its books stay closed: its cost is the sum of the
\* event's expenses of its currency and of no other, all of them attached to it,
\* and the members' amounts add up to what is left of the gross.
FinalBooksBalance ==
  \A v \in Events : settlement[v].status = "final" =>
    LET s == settlement[v]
    IN  /\ s.expense = CostOf(v, s.currency)
        /\ s.gross = s.expense + s.net
        /\ \A x \in Expenses : expense[x].settled /\ expense[x].event = v
                                 <=> x \in Costs(v, s.currency)
        /\ DOMAIN s.amounts # {} => SumFunction(s.amounts) = s.net
=============================================================================
