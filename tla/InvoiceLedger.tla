---------------------------- MODULE InvoiceLedger ----------------------------
(***************************************************************************)
(* Invoices and the payments recorded on them (OperationsService). Each     *)
(* write is one serializable transaction, retried up to three times: a      *)
(* request that gives up leaves nothing behind, so it is no step here.      *)
(***************************************************************************)
EXTENDS Naturals, FiniteSets, Functions

CONSTANTS
  Invoices,    \* invoice ids
  Keys,        \* idempotency keys of payments
  InvoiceCurrencies,
  MaxInvoice,  \* bound on totals and payments
  AsIs         \* a field the patch leaves out

VARIABLES
  invoice,     \* invoice[i]: status, total, paid, currency ("absent": no row)
  payments     \* PaymentRecord rows

ledgerVars == <<invoice, payments>>

Patchable == {"draft", "issued", "partially_paid", "paid", "overdue", "voided"}
Money == 0..MaxInvoice

LedgerConstants == MaxInvoice \in Nat /\ AsIs \notin Patchable

NoInvoice(c) == [status |-> "absent", total |-> 0, paid |-> 0, currency |-> c]

LedgerInit ==
  /\ \E c \in InvoiceCurrencies : invoice = [i \in Invoices |-> NoInvoice(c)]
  /\ payments = {}

PaidStatus(paid, total) == IF paid = total THEN "paid" ELSE "partially_paid"

\* createInvoice: always a draft, nothing paid.
CreateInvoice(i) ==
  /\ invoice[i].status = "absent"
  /\ \E total \in Money, c \in InvoiceCurrencies :
       invoice' = [invoice EXCEPT ![i] =
                     [status |-> "draft", total |-> total, paid |-> 0, currency |-> c]]
  /\ UNCHANGED payments

\* invoiceStatusFromRecordedPayments, for an invoice that is not voided: the
\* statuses a patch may ask for, and the status it leaves.
MayAsk(asked, paid, total) ==
  IF paid > 0 THEN asked \in {AsIs, PaidStatus(paid, total)}
  ELSE asked \notin {"paid", "partially_paid"}

NextStatus(asked, paid, total, current) ==
  IF paid > 0 THEN PaidStatus(paid, total)
  ELSE IF asked = AsIs THEN current ELSE asked

\* Mistake: a smaller total is accepted whatever was paid.
Covers_Whatever(total, paid) == TRUE

Covers(total, paid) == total >= paid

PatchInvoice(i) ==
  LET row == invoice[i]
  IN  /\ row.status \notin {"absent", "voided"}
      /\ \E asked \in Patchable \union {AsIs}, total \in Money, c \in InvoiceCurrencies :
           /\ c # row.currency => row.paid = 0
           /\ Covers(total, row.paid)
           /\ MayAsk(asked, row.paid, total)
           /\ invoice' = [invoice EXCEPT ![i] =
                [status |-> NextStatus(asked, row.paid, total, row.status),
                 total |-> total, paid |-> row.paid, currency |-> c]]
      /\ UNCHANGED payments

\* recordPayment with a key not seen before; a key already used returns its row
\* or is refused, and changes nothing.
RecordPayment(i) ==
  LET row == invoice[i]
  IN  /\ row.status \notin {"absent", "voided"}
      /\ \E key \in Keys, amount \in Money \ {0} :
           LET paid == row.paid + amount
           IN  /\ \A p \in payments : p.key # key
               /\ paid <= row.total
               /\ payments' = payments \union
                    {[key |-> key, on |-> i, amount |-> amount, currency |-> row.currency]}
               /\ invoice' = [invoice EXCEPT ![i].paid = paid,
                                             ![i].status = PaidStatus(paid, row.total)]

LedgerNext == \E i \in Invoices : CreateInvoice(i) \/ PatchInvoice(i) \/ RecordPayment(i)

LedgerSpec == LedgerInit /\ [][LedgerNext]_ledgerVars

----------------------------------------------------------------------------
PaidOn(i) == SumFunction([p \in {p \in payments : p.on = i} |-> p.amount])

\* Whatever order patches and payments come in, an invoice says what its payment
\* rows say: the amount paid, in its own currency and within its total, and a
\* paid, part-paid or void status only when the rows bear it out.
InvoiceTellsPayments ==
  \A i \in Invoices :
    LET row == invoice[i]
    IN  /\ row.paid = PaidOn(i)
        /\ row.paid <= row.total
        /\ \A p \in payments : p.on = i => p.currency = row.currency
        /\ row.paid > 0 <=> row.status \in {"paid", "partially_paid"}
        /\ row.status = "paid" => row.paid = row.total
=============================================================================
