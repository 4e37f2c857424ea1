-------------------------- MODULE OperationsProofs ---------------------------
(***************************************************************************)
(* Theorems about the components of the band's daily operations:            *)
(* InvoiceLedger, for any invoices, keys and amounts; ShowSettlement, for   *)
(* any finite sets of expenses and members; WorkflowJobs, for any workers,  *)
(* people, occurrences and days; BookingPipeline, for any opportunities,    *)
(* prospects, replies and requests; ShowDay, for any shows, tabs, patches   *)
(* and facts.                                                               *)
(***************************************************************************)
EXTENDS InvoiceLedger, ShowSettlement, WorkflowJobs, BookingPipeline, ShowDay, FiniteSetTheorems,
  WellFoundedInduction, TLAPS

-----------------------------------------------------------------------------
(* Sums over finite sets *)

\* A set of subsets of a finite set has a least one: induction without a predicate.
LEMMA LeastSubset ==
  ASSUME NEW S, IsFiniteSet(S), NEW Bad \in SUBSET SUBSET S, Bad # {}
  PROVE  \E B \in Bad : \A A \in Bad : A \subseteq B => A = B
<1>1. Bad \subseteq FiniteSubsetsOf(S)
  BY FS_Subset DEF FiniteSubsetsOf
<1>2. \E B \in Bad : \A A \in Bad : <<A, B>> \notin StrictSubsetOrdering(S)
  BY <1>1, FS_StrictSubsetOrderingWellFounded, WFMin, Zenon
<1> QED BY <1>2 DEF StrictSubsetOrdering

\* What SumFunctionOnSet computes: sums of all subsets, one element at a time.
AnyOf(A) == CHOOSE x \in A : TRUE
Unrolled(f, S, sum) ==
  [A \in SUBSET S |-> IF A = {} THEN 0 ELSE f[AnyOf(A)] + sum[A \ {AnyOf(A)}]]
SumsOf(f, S) == CHOOSE sum : sum = Unrolled(f, S, sum)

LEMMA SumUnfolds == ASSUME NEW f, NEW S PROVE SumFunctionOnSet(f, S) = SumsOf(f, S)[S]
BY DEF SumFunctionOnSet, FoldFunctionOnSet, MapThenFoldSet, SumsOf, Unrolled, AnyOf

LEMMA AnyOfIn == ASSUME NEW A, A # {} PROVE AnyOf(A) \in A
BY DEF AnyOf

\* Two sums of one function agree wherever both are defined.
LEMMA SumsAgree ==
  ASSUME NEW f, NEW S, NEW T, NEW sum, NEW tally, sum = Unrolled(f, S, sum), tally = Unrolled(f, T, tally),
         IsFiniteSet(S), NEW A \in SUBSET S, A \subseteq T
  PROVE  sum[A] = tally[A]
<1> DEFINE Bad == {B \in SUBSET A : sum[B] # tally[B]}
<1>1. SUFFICES ASSUME Bad # {} PROVE FALSE
  OBVIOUS
<1>2. PICK B \in Bad : \A C \in Bad : C \subseteq B => C = B
  <2>1. IsFiniteSet(A)
    BY FS_Subset
  <2>2. Bad \in SUBSET SUBSET A
    OBVIOUS
  <2> HIDE DEF Bad
  <2> QED BY <1>1, <2>1, <2>2, LeastSubset
<1>3. sum[B] = (IF B = {} THEN 0 ELSE f[AnyOf(B)] + sum[B \ {AnyOf(B)}])
  BY DEF Unrolled
<1>4. tally[B] = (IF B = {} THEN 0 ELSE f[AnyOf(B)] + tally[B \ {AnyOf(B)}])
  BY DEF Unrolled
<1>5. B # {} => B \ {AnyOf(B)} \notin Bad
  BY <1>2, AnyOfIn
<1> QED BY <1>3, <1>4, <1>5

LEMMA SumsExist ==
  ASSUME NEW f, NEW S, IsFiniteSet(S)
  PROVE  SumsOf(f, S) = Unrolled(f, S, SumsOf(f, S))
<1> DEFINE Summed(A) == \E sum : sum = Unrolled(f, A, sum)
           Bad == {A \in SUBSET S : ~Summed(A)}
<1>1. SUFFICES ASSUME Bad # {} PROVE FALSE
  BY DEF SumsOf
<1>2. PICK A \in Bad : \A C \in Bad : C \subseteq A => C = A
  <2>1. Bad \in SUBSET SUBSET S
    OBVIOUS
  <2> HIDE DEF Bad
  <2> QED BY <1>1, <2>1, LeastSubset
<1>3. \A C \in SUBSET A : C # A => SumsOf(f, C) = Unrolled(f, C, SumsOf(f, C))
  BY <1>2 DEF SumsOf
<1> DEFINE sum == [C \in SUBSET A |->
             IF C = {} THEN 0 ELSE f[AnyOf(C)] + SumsOf(f, C \ {AnyOf(C)})[C \ {AnyOf(C)}]]
<1>4. ASSUME NEW C \in SUBSET A, C # A PROVE sum[C] = SumsOf(f, C)[C]
  <2> DEFINE D == C \ {AnyOf(C)}
  <2>1. SumsOf(f, C)[C] = (IF C = {} THEN 0 ELSE f[AnyOf(C)] + SumsOf(f, C)[D])
    BY <1>3, <1>4 DEF Unrolled
  <2>2. C # {} => SumsOf(f, C)[D] = SumsOf(f, D)[D]
    <3>1. IsFiniteSet(C) /\ D \in SUBSET C /\ D \in SUBSET A
      BY FS_Subset
    <3>2. C # {} => D # A
      BY AnyOfIn, <1>4
    <3>3. C # {} => SumsOf(f, D) = Unrolled(f, D, SumsOf(f, D))
      BY <1>3, <3>1, <3>2
    <3> HIDE DEF D
    <3> QED BY <1>3, <1>4, <3>1, <3>3, SumsAgree
  <2> HIDE DEF D
  <2>3. sum[C] = (IF C = {} THEN 0 ELSE f[AnyOf(C)] + SumsOf(f, D)[D])
    BY DEF D
  <2> QED BY <2>1, <2>2, <2>3
<1>5. sum = Unrolled(f, A, sum)
  <2> SUFFICES ASSUME NEW C \in SUBSET A, C # {}
               PROVE  sum[C \ {AnyOf(C)}] = SumsOf(f, C \ {AnyOf(C)})[C \ {AnyOf(C)}]
    BY DEF Unrolled
  <2>1. C \ {AnyOf(C)} \in SUBSET A /\ C \ {AnyOf(C)} # A
    BY AnyOfIn
  <2> HIDE DEF sum
  <2> QED BY <2>1, <1>4
<1> HIDE DEF sum
<1> QED BY <1>2, <1>5

LEMMA SumRecursion ==
  ASSUME NEW f, NEW S, IsFiniteSet(S)
  PROVE  /\ SumFunctionOnSet(f, {}) = 0
         /\ S # {} => SumFunctionOnSet(f, S) = f[AnyOf(S)] + SumFunctionOnSet(f, S \ {AnyOf(S)})
<1>1. SumsOf(f, {}) = Unrolled(f, {}, SumsOf(f, {}))
  BY SumsExist, FS_EmptySet
<1>2. SumsOf(f, {})[{}] = 0
  BY <1>1 DEF Unrolled
<1> DEFINE T == S \ {AnyOf(S)}
<1>3. IsFiniteSet(T) /\ T \in SUBSET S
  BY FS_Subset
<1> HIDE DEF T
<1>4. SumsOf(f, S) = Unrolled(f, S, SumsOf(f, S)) /\ SumsOf(f, T) = Unrolled(f, T, SumsOf(f, T))
  BY <1>3, SumsExist
<1>5. SumsOf(f, S)[T] = SumsOf(f, T)[T]
  BY <1>3, <1>4, SumsAgree
<1>6. S # {} => SumsOf(f, S)[S] = f[AnyOf(S)] + SumsOf(f, S)[T]
  BY <1>4 DEF Unrolled, T
<1> QED BY <1>2, <1>5, <1>6, SumUnfolds DEF T

\* Sums of integers are integers, of naturals naturals.
LEMMA SumTyped ==
  ASSUME NEW f, NEW S, IsFiniteSet(S), \A x \in S : f[x] \in Int
  PROVE  /\ SumFunctionOnSet(f, S) \in Int
         /\ (\A x \in S : f[x] \in Nat) => SumFunctionOnSet(f, S) \in Nat
<1> DEFINE Fine(A) == /\ SumFunctionOnSet(f, A) \in Int
                      /\ (\A x \in S : f[x] \in Nat) => SumFunctionOnSet(f, A) \in Nat
           Bad == {A \in SUBSET S : ~Fine(A)}
<1>1. SUFFICES ASSUME Bad # {} PROVE FALSE
  OBVIOUS
<1>2. PICK A \in Bad : \A C \in Bad : C \subseteq A => C = A
  <2>1. Bad \in SUBSET SUBSET S
    OBVIOUS
  <2> HIDE DEF Bad
  <2> QED BY <1>1, <2>1, LeastSubset
<1>3. IsFiniteSet(A) /\ A \in SUBSET S
  BY FS_Subset
<1>4. A # {} => AnyOf(A) \in A /\ Fine(A \ {AnyOf(A)})
  BY <1>2, AnyOfIn
<1>5. A # {} => SumFunctionOnSet(f, A) = f[AnyOf(A)] + SumFunctionOnSet(f, A \ {AnyOf(A)})
  BY <1>3, SumRecursion
<1>6. A = {} => SumFunctionOnSet(f, A) = 0
  BY <1>3, SumRecursion
<1> QED BY <1>2, <1>4, <1>5, <1>6

\* The sum of a set is that of any one element and of the others.
LEMMA SumSplit ==
  ASSUME NEW f, NEW S, IsFiniteSet(S), \A x \in S : f[x] \in Int
  PROVE  \A x \in S : SumFunctionOnSet(f, S) = f[x] + SumFunctionOnSet(f, S \ {x})
<1> DEFINE Divides(A) == \A x \in A : SumFunctionOnSet(f, A) = f[x] + SumFunctionOnSet(f, A \ {x})
           Bad == {A \in SUBSET S : ~Divides(A)}
<1>1. SUFFICES ASSUME Bad # {} PROVE FALSE
  OBVIOUS
<1>2. PICK A \in Bad : \A C \in Bad : C \subseteq A => C = A
  <2>1. Bad \in SUBSET SUBSET S
    OBVIOUS
  <2> HIDE DEF Bad
  <2> QED BY <1>1, <2>1, LeastSubset
<1>3. PICK x \in A : SumFunctionOnSet(f, A) # f[x] + SumFunctionOnSet(f, A \ {x})
  BY <1>2
<1> DEFINE a == AnyOf(A)
<1>4. a \in A /\ A \in SUBSET S /\ IsFiniteSet(A)
  BY AnyOfIn, FS_Subset
<1> HIDE DEF a
<1>5. SumFunctionOnSet(f, A) = f[a] + SumFunctionOnSet(f, A \ {a})
  BY <1>4, SumRecursion DEF a
<1>6. a # x
  BY <1>3, <1>5
<1>7. Divides(A \ {a}) /\ Divides(A \ {x})
  BY <1>2, <1>4
<1>8. /\ SumFunctionOnSet(f, A \ {a}) = f[x] + SumFunctionOnSet(f, (A \ {a}) \ {x})
      /\ SumFunctionOnSet(f, A \ {x}) = f[a] + SumFunctionOnSet(f, (A \ {x}) \ {a})
  BY <1>4, <1>6, <1>7
<1>9. (A \ {a}) \ {x} = (A \ {x}) \ {a}
  OBVIOUS
<1>10. /\ f[a] \in Int /\ f[x] \in Int
       /\ SumFunctionOnSet(f, (A \ {x}) \ {a}) \in Int
  <2>1. IsFiniteSet((A \ {x}) \ {a}) /\ (A \ {x}) \ {a} \subseteq S
    BY <1>4, FS_Subset
  <2> QED BY <1>4, <2>1, SumTyped
<1>11. SumFunctionOnSet(f, A) = f[a] + (f[x] + SumFunctionOnSet(f, (A \ {x}) \ {a}))
  BY <1>5, <1>8, <1>9
<1>12. \A n \in Int : f[a] + (f[x] + n) = f[x] + (f[a] + n)
  BY <1>10
<1>13. SumFunctionOnSet(f, A) = f[x] + SumFunctionOnSet(f, A \ {x})
  BY <1>8, <1>10, <1>11, <1>12
<1> QED BY <1>3, <1>13

\* Functions that agree on a set have the same sum there.
LEMMA SumSame ==
  ASSUME NEW f, NEW g, NEW S, IsFiniteSet(S), \A x \in S : f[x] = g[x]
  PROVE  SumFunctionOnSet(f, S) = SumFunctionOnSet(g, S)
<1> DEFINE Bad == {A \in SUBSET S : SumFunctionOnSet(f, A) # SumFunctionOnSet(g, A)}
<1>1. SUFFICES ASSUME Bad # {} PROVE FALSE
  OBVIOUS
<1>2. PICK A \in Bad : \A C \in Bad : C \subseteq A => C = A
  <2>1. Bad \in SUBSET SUBSET S
    OBVIOUS
  <2> HIDE DEF Bad
  <2> QED BY <1>1, <2>1, LeastSubset
<1>3. IsFiniteSet(A) /\ A \in SUBSET S
  BY FS_Subset
<1>4. A # {} => AnyOf(A) \in A /\ A \ {AnyOf(A)} \notin Bad
  BY <1>2, AnyOfIn
<1>5. A # {} => /\ SumFunctionOnSet(f, A) = f[AnyOf(A)] + SumFunctionOnSet(f, A \ {AnyOf(A)})
                /\ SumFunctionOnSet(g, A) = g[AnyOf(A)] + SumFunctionOnSet(g, A \ {AnyOf(A)})
  BY <1>3, SumRecursion
<1>6. A = {} => SumFunctionOnSet(f, A) = 0 /\ SumFunctionOnSet(g, A) = 0
  BY <1>3, SumRecursion
<1> QED BY <1>2, <1>3, <1>4, <1>5, <1>6

\* The same of whole functions: their sum, and what one entry changes in it.
LEMMA SumOfAll ==
  ASSUME NEW S, IsFiniteSet(S), NEW f \in [S -> Int]
  PROVE  /\ SumFunction(f) \in Int
         /\ f \in [S -> Nat] => SumFunction(f) \in Nat
         /\ S = {} => SumFunction(f) = 0
         /\ \A g \in [S -> Int] : (\A x \in S : f[x] = g[x]) => SumFunction(g) = SumFunction(f)
<1>1. SumFunction(f) = SumFunctionOnSet(f, S)
  BY DEF SumFunction
<1>2. SumFunctionOnSet(f, S) \in Int /\ (f \in [S -> Nat] => SumFunctionOnSet(f, S) \in Nat)
  BY SumTyped
<1>3. S = {} => SumFunctionOnSet(f, S) = 0
  BY SumRecursion
<1> QED BY <1>1, <1>2, <1>3

LEMMA SumSplitAt ==
  ASSUME NEW S, IsFiniteSet(S), NEW x \in S, NEW f \in [S -> Int]
  PROVE  SumFunction(f) = f[x] + SumFunctionOnSet(f, S \ {x}) /\ SumFunctionOnSet(f, S \ {x}) \in Int
<1>1. IsFiniteSet(S \ {x})
  BY FS_Subset
<1>2. SumFunctionOnSet(f, S \ {x}) \in Int
  BY <1>1, SumTyped
<1> QED BY <1>2, SumSplit DEF SumFunction

LEMMA SumChanged ==
  ASSUME NEW S, IsFiniteSet(S), NEW x \in S, NEW f \in [S -> Int], NEW g \in [S -> Int],
         \A y \in S \ {x} : f[y] = g[y]
  PROVE  SumFunction(g) = SumFunction(f) - f[x] + g[x]
<1>1. IsFiniteSet(S \ {x})
  BY FS_Subset
<1>2. SumFunctionOnSet(f, S \ {x}) = SumFunctionOnSet(g, S \ {x})
  BY <1>1, SumSame
<1>3. /\ SumFunction(f) = f[x] + SumFunctionOnSet(f, S \ {x})
      /\ SumFunction(g) = g[x] + SumFunctionOnSet(g, S \ {x})
      /\ SumFunctionOnSet(f, S \ {x}) \in Int
  BY SumSplitAt
<1>4. f[x] \in Int /\ g[x] \in Int
  OBVIOUS
<1> DEFINE rest == SumFunctionOnSet(f, S \ {x})
<1>5. SumFunction(f) = f[x] + rest /\ SumFunction(g) = g[x] + rest /\ rest \in Int
  BY <1>2, <1>3
<1> HIDE DEF rest
<1> QED BY <1>4, <1>5

LEMMA SumAdded ==
  ASSUME NEW S, IsFiniteSet(S), NEW x, x \notin S, NEW f \in [S -> Int],
         NEW g \in [S \union {x} -> Int], \A y \in S : f[y] = g[y]
  PROVE  SumFunction(g) = SumFunction(f) + g[x]
<1>1. IsFiniteSet(S \union {x}) /\ (S \union {x}) \ {x} = S
  BY FS_AddElement
<1>2. SumFunction(g) = g[x] + SumFunctionOnSet(g, S)
  BY <1>1, SumSplitAt
<1>3. SumFunctionOnSet(g, S) = SumFunctionOnSet(f, S) /\ SumFunction(f) = SumFunctionOnSet(f, S)
  BY SumSame DEF SumFunction
<1>4. SumFunction(f) \in Int /\ g[x] \in Int
  BY SumOfAll
<1> QED BY <1>2, <1>3, <1>4

\* Zeros add up to nothing; a sum of naturals is nothing only of zeros.
LEMMA SumOfZeros ==
  ASSUME NEW S, IsFiniteSet(S), NEW f \in [S -> Int], \A x \in S : f[x] = 0
  PROVE  SumFunction(f) = 0
<1> DEFINE Bad == {A \in SUBSET S : SumFunctionOnSet(f, A) # 0}
<1>1. SUFFICES ASSUME Bad # {} PROVE FALSE
  BY DEF SumFunction
<1>2. PICK A \in Bad : \A C \in Bad : C \subseteq A => C = A
  <2>1. Bad \in SUBSET SUBSET S
    OBVIOUS
  <2> HIDE DEF Bad
  <2> QED BY <1>1, <2>1, LeastSubset
<1>3. IsFiniteSet(A) /\ A \in SUBSET S
  BY FS_Subset
<1>4. A # {} => AnyOf(A) \in A /\ A \ {AnyOf(A)} \notin Bad
  BY <1>2, AnyOfIn
<1>5. A # {} => SumFunctionOnSet(f, A) = f[AnyOf(A)] + SumFunctionOnSet(f, A \ {AnyOf(A)})
  BY <1>3, SumRecursion
<1>6. A = {} => SumFunctionOnSet(f, A) = 0
  BY <1>3, SumRecursion
<1> QED BY <1>2, <1>3, <1>4, <1>5, <1>6

-----------------------------------------------------------------------------
(* Invoices *)

InvoiceRows == [status : {"absent"} \union Patchable, total : Money, paid : Money, currency : InvoiceCurrencies]
PaymentRows == [key : Keys, on : Invoices, amount : Money \ {0}, currency : InvoiceCurrencies]

LedgerTyped ==
  /\ invoice \in [Invoices -> InvoiceRows]
  /\ payments \in SUBSET PaymentRows
  /\ IsFiniteSet(payments)

\* An invoice with payments exists.
PaidExist == \A p \in payments : invoice[p.on].status # "absent"

LedgerInv == LedgerTyped /\ PaidExist /\ InvoiceTellsPayments

RowsOn(i) == {p \in payments : p.on = i}
Amounts(i) == [p \in RowsOn(i) |-> p.amount]

LEMMA PaidOnIs == \A i : PaidOn(i) = SumFunction(Amounts(i))
BY DEF PaidOn, Amounts, RowsOn

LEMMA AmountsTyped ==
  ASSUME LedgerTyped, NEW i \in Invoices
  PROVE  IsFiniteSet(RowsOn(i)) /\ Amounts(i) \in [RowsOn(i) -> Int]
<1>1. IsFiniteSet(RowsOn(i))
  BY FS_Subset DEF LedgerTyped, RowsOn
<1> QED BY <1>1 DEF LedgerTyped, Amounts, RowsOn, PaymentRows, Money

\* What one invoice says is not touched by a step that leaves it and its payments.
LEMMA InvoiceUntouched ==
  ASSUME LedgerInv, NEW j \in Invoices, invoice'[j] = invoice[j], RowsOn(j)' = RowsOn(j)
  PROVE  /\ invoice'[j].paid = PaidOn(j)'
         /\ invoice'[j].paid <= invoice'[j].total
         /\ \A p \in payments' : p.on = j => p.currency = invoice'[j].currency
         /\ invoice'[j].paid > 0 <=> invoice'[j].status \in {"paid", "partially_paid"}
         /\ invoice'[j].status = "paid" => invoice'[j].paid = invoice'[j].total
<1>1. PaidOn(j)' = PaidOn(j)
  BY DEF PaidOn, RowsOn
<1>2. \A p \in payments' : p.on = j => p \in payments
  BY DEF RowsOn
<1> QED BY <1>1, <1>2 DEF LedgerInv, InvoiceTellsPayments

LEMMA LedgerInitial == LedgerConstants /\ LedgerInit => LedgerInv
<1> SUFFICES ASSUME LedgerConstants, LedgerInit PROVE LedgerInv
  OBVIOUS
<1>1. LedgerTyped
  BY FS_EmptySet DEF LedgerConstants, LedgerInit, LedgerTyped, NoInvoice, InvoiceRows, Money
<1>2. \A i \in Invoices : PaidOn(i) = 0
  <2> TAKE i \in Invoices
  <2>1. RowsOn(i) = {}
    BY DEF LedgerInit, RowsOn
  <2> QED BY <1>1, <2>1, AmountsTyped, SumOfAll, PaidOnIs
<1> QED BY <1>1, <1>2 DEF LedgerInit, LedgerInv, PaidExist, InvoiceTellsPayments, NoInvoice, LedgerConstants, Money

LEMMA CreateInvoiceKept ==
  ASSUME LedgerInv, LedgerConstants, NEW i \in Invoices, CreateInvoice(i)
  PROVE  LedgerInv'
<1>1. PICK total \in Money, c \in InvoiceCurrencies :
        invoice' = [invoice EXCEPT ![i] = [status |-> "draft", total |-> total, paid |-> 0, currency |-> c]]
  BY DEF CreateInvoice
<1>2. LedgerTyped' /\ PaidExist'
  BY <1>1 DEF CreateInvoice, LedgerInv, LedgerTyped, PaidExist, InvoiceRows, PaymentRows, Patchable, Money,
              LedgerConstants
<1>3. \A j \in Invoices : RowsOn(j)' = RowsOn(j) /\ PaidOn(j)' = PaidOn(j)
  BY DEF CreateInvoice, RowsOn, PaidOn
<1>4. RowsOn(i) = {}
  BY DEF CreateInvoice, LedgerInv, PaidExist, RowsOn
<1>5. PaidOn(i) = 0
  BY <1>4, AmountsTyped, SumOfAll, PaidOnIs DEF LedgerInv
<1>6. /\ invoice'[i] = [status |-> "draft", total |-> total, paid |-> 0, currency |-> c]
      /\ \A j \in Invoices \ {i} : invoice'[j] = invoice[j]
  BY <1>1 DEF LedgerInv, LedgerTyped
<1>7. InvoiceTellsPayments'
  <2> SUFFICES ASSUME NEW j \in Invoices
               PROVE  /\ invoice'[j].paid = PaidOn(j)'
                      /\ invoice'[j].paid <= invoice'[j].total
                      /\ \A p \in payments' : p.on = j => p.currency = invoice'[j].currency
                      /\ invoice'[j].paid > 0 <=> invoice'[j].status \in {"paid", "partially_paid"}
                      /\ invoice'[j].status = "paid" => invoice'[j].paid = invoice'[j].total
    BY DEF InvoiceTellsPayments
  <2>1. CASE j = i
    <3>1. \A p \in payments' : p.on # i
      BY <1>3, <1>4 DEF RowsOn
    <3> QED BY <1>3, <1>5, <1>6, <2>1, <3>1 DEF Money, LedgerConstants
  <2>2. CASE j # i
    BY <1>3, <1>6, <2>2, InvoiceUntouched
  <2> QED BY <2>1, <2>2
<1> QED BY <1>2, <1>7 DEF LedgerInv

LEMMA PatchInvoiceKept ==
  ASSUME LedgerInv, LedgerConstants, NEW i \in Invoices, PatchInvoice(i)
  PROVE  LedgerInv'
<1>1. invoice[i] \in InvoiceRows
  BY DEF LedgerInv, LedgerTyped
<1> DEFINE old == invoice[i]
<1>2. PICK asked \in Patchable \union {AsIs}, total \in Money, c \in InvoiceCurrencies :
        /\ c # old.currency => old.paid = 0
        /\ total >= old.paid
        /\ MayAsk(asked, old.paid, total)
        /\ invoice' = [invoice EXCEPT ![i] =
             [status |-> NextStatus(asked, old.paid, total, old.status),
              total |-> total, paid |-> old.paid, currency |-> c]]
  BY DEF PatchInvoice, Covers
<1> DEFINE status == NextStatus(asked, old.paid, total, old.status)
<1>3. /\ old.status \in Patchable /\ payments' = payments
      /\ old.paid \in Money
      /\ old.paid > 0 <=> old.status \in {"paid", "partially_paid"}
      /\ old.paid = PaidOn(i)
      /\ \A p \in payments : p.on = i => p.currency = old.currency
  BY <1>1 DEF PatchInvoice, InvoiceRows, LedgerInv, InvoiceTellsPayments
<1>4. /\ status \in Patchable
      /\ old.paid > 0 <=> status \in {"paid", "partially_paid"}
      /\ status = "paid" => old.paid = total
  BY <1>2, <1>3 DEF NextStatus, MayAsk, PaidStatus, Patchable
<1>5. /\ invoice'[i] = [status |-> status, total |-> total, paid |-> old.paid, currency |-> c]
      /\ \A j \in Invoices \ {i} : invoice'[j] = invoice[j]
      /\ invoice' \in [Invoices -> InvoiceRows]
  <2>1. [status |-> status, total |-> total, paid |-> old.paid, currency |-> c] \in InvoiceRows
    <3> HIDE DEF status, old
    <3>1. status \in Patchable /\ old.paid \in Money
      BY <1>3, <1>4
    <3> QED BY <3>1 DEF InvoiceRows
  <2> QED BY <1>2, <2>1 DEF LedgerInv, LedgerTyped
<1>6. LedgerTyped' /\ PaidExist'
  BY <1>3, <1>4, <1>5 DEF LedgerInv, LedgerTyped, PaidExist, PaymentRows, Patchable
<1>7. \A j \in Invoices : RowsOn(j)' = RowsOn(j) /\ PaidOn(j)' = PaidOn(j)
  BY <1>3 DEF RowsOn, PaidOn
<1>8. \A p \in payments : p.on = i => old.paid > 0
  <2> SUFFICES ASSUME NEW p \in payments, p.on = i PROVE PaidOn(i) > 0
    BY <1>3
  <2>1. /\ IsFiniteSet(RowsOn(i)) /\ Amounts(i) \in [RowsOn(i) -> Nat] /\ Amounts(i)[p] > 0
        /\ p \in RowsOn(i) /\ Amounts(i) \in [RowsOn(i) -> Int]
    BY AmountsTyped DEF LedgerInv, LedgerTyped, Amounts, RowsOn, PaymentRows, Money
  <2>2. IsFiniteSet(RowsOn(i) \ {p})
    BY <2>1, FS_Subset
  <2>3. SumFunctionOnSet(Amounts(i), RowsOn(i) \ {p}) \in Nat
    BY <2>1, <2>2, SumTyped
  <2>4. SumFunction(Amounts(i)) = Amounts(i)[p] + SumFunctionOnSet(Amounts(i), RowsOn(i) \ {p})
    BY <2>1, SumSplitAt
  <2>5. Amounts(i)[p] \in Nat
    BY <2>1
  <2> QED BY <2>1, <2>3, <2>4, <2>5, PaidOnIs
<1>9. InvoiceTellsPayments'
  <2> SUFFICES ASSUME NEW j \in Invoices
               PROVE  /\ invoice'[j].paid = PaidOn(j)'
                      /\ invoice'[j].paid <= invoice'[j].total
                      /\ \A p \in payments' : p.on = j => p.currency = invoice'[j].currency
                      /\ invoice'[j].paid > 0 <=> invoice'[j].status \in {"paid", "partially_paid"}
                      /\ invoice'[j].status = "paid" => invoice'[j].paid = invoice'[j].total
    BY DEF InvoiceTellsPayments
  <2>1. CASE j = i
    <3>1. \A p \in payments' : p.on = i => p.currency = c
      BY <1>2, <1>3, <1>8 DEF Money
    <3> HIDE DEF old, status
    <3> QED BY <1>2, <1>3, <1>4, <1>5, <1>7, <2>1, <3>1 DEF Money
  <2>2. CASE j # i
    BY <1>5, <1>7, <2>2, InvoiceUntouched
  <2> QED BY <2>1, <2>2
<1> QED BY <1>6, <1>9 DEF LedgerInv

LEMMA RecordPaymentKept ==
  ASSUME LedgerInv, LedgerConstants, NEW i \in Invoices, RecordPayment(i)
  PROVE  LedgerInv'
<1>1. invoice[i] \in InvoiceRows
  BY DEF LedgerInv, LedgerTyped
<1> DEFINE old == invoice[i]
<1>2. PICK key \in Keys, amount \in Money \ {0} :
        /\ \A p \in payments : p.key # key
        /\ old.paid + amount <= old.total
        /\ payments' = payments \union {[key |-> key, on |-> i, amount |-> amount, currency |-> old.currency]}
        /\ invoice' = [invoice EXCEPT ![i].paid = old.paid + amount,
                                      ![i].status = PaidStatus(old.paid + amount, old.total)]
  BY DEF RecordPayment
<1> DEFINE new == [key |-> key, on |-> i, amount |-> amount, currency |-> old.currency]
           paid == old.paid + amount
<1>3. new \notin payments /\ new \in PaymentRows /\ payments' = payments \union {new}
  BY <1>1, <1>2 DEF PaymentRows, InvoiceRows
<1>4. /\ old.paid \in Money /\ old.total \in Money /\ old.status # "absent"
      /\ old.paid = PaidOn(i) /\ \A p \in payments : p.on = i => p.currency = old.currency
  BY <1>1 DEF RecordPayment, LedgerInv, InvoiceTellsPayments, InvoiceRows
<1>5. paid \in Money /\ paid > 0 /\ paid <= old.total
  BY <1>2, <1>4 DEF Money, LedgerConstants
<1>6. /\ invoice'[i] = [old EXCEPT !.paid = paid, !.status = PaidStatus(paid, old.total)]
      /\ \A j \in Invoices \ {i} : invoice'[j] = invoice[j]
      /\ invoice' \in [Invoices -> InvoiceRows]
  <2>1. PaidStatus(paid, old.total) \in Patchable
    BY DEF PaidStatus, Patchable
  <2>2. [old EXCEPT !.paid = paid, !.status = PaidStatus(paid, old.total)] \in InvoiceRows
    BY <1>1, <1>5, <2>1 DEF InvoiceRows
  <2>3. invoice' = [invoice EXCEPT ![i] = [old EXCEPT !.paid = paid, !.status = PaidStatus(paid, old.total)]]
    BY <1>1, <1>2 DEF LedgerInv, LedgerTyped, InvoiceRows
  <2> HIDE DEF old, paid
  <2> QED BY <2>2, <2>3 DEF LedgerInv, LedgerTyped
<1>7. /\ invoice'[i].paid = paid /\ invoice'[i].total = old.total /\ invoice'[i].currency = old.currency
      /\ invoice'[i].status = PaidStatus(paid, old.total)
  BY <1>1, <1>6 DEF InvoiceRows
<1>8. LedgerTyped' /\ PaidExist'
  <2>1. IsFiniteSet(payments')
    BY <1>3, FS_AddElement DEF LedgerInv, LedgerTyped
  <2>2. \A p \in payments' : invoice'[p.on].status # "absent"
    <3> TAKE p \in payments'
    <3>1. CASE p.on = i
      BY <1>7, <3>1 DEF PaidStatus
    <3>2. CASE p.on # i
      BY <1>3, <1>6, <3>2 DEF LedgerInv, LedgerTyped, PaidExist, PaymentRows
    <3> QED BY <3>1, <3>2
  <2> HIDE DEF new
  <2> QED BY <1>3, <1>6, <2>1, <2>2 DEF LedgerInv, LedgerTyped, PaidExist
<1>9. RowsOn(i)' = RowsOn(i) \union {new} /\ new \notin RowsOn(i)
  BY <1>3 DEF RowsOn
<1>10. \A j \in Invoices \ {i} : RowsOn(j)' = RowsOn(j)
  BY <1>3 DEF RowsOn
<1>11. PaidOn(i)' = paid
  <2>1. Amounts(i) \in [RowsOn(i) -> Int] /\ IsFiniteSet(RowsOn(i))
    BY AmountsTyped DEF LedgerInv
  <2>2. Amounts(i)' \in [RowsOn(i) \union {new} -> Int]
    BY <1>8, <1>9 DEF LedgerTyped, Amounts, RowsOn, PaymentRows, Money
  <2>3. \A p \in RowsOn(i) : Amounts(i)[p] = Amounts(i)'[p]
    BY <1>9 DEF Amounts
  <2>4. Amounts(i)'[new] = amount
    BY <1>9 DEF Amounts
  <2>5. PaidOn(i)' = SumFunction(Amounts(i)')
    BY DEF PaidOn, Amounts, RowsOn
  <2> HIDE DEF new
  <2>6. SumFunction(Amounts(i)') = SumFunction(Amounts(i)) + Amounts(i)'[new]
    BY <1>9, <2>1, <2>2, <2>3, SumAdded
  <2> QED BY <1>4, <2>4, <2>5, <2>6, PaidOnIs
<1>12. InvoiceTellsPayments'
  <2> SUFFICES ASSUME NEW j \in Invoices
               PROVE  /\ invoice'[j].paid = PaidOn(j)'
                      /\ invoice'[j].paid <= invoice'[j].total
                      /\ \A p \in payments' : p.on = j => p.currency = invoice'[j].currency
                      /\ invoice'[j].paid > 0 <=> invoice'[j].status \in {"paid", "partially_paid"}
                      /\ invoice'[j].status = "paid" => invoice'[j].paid = invoice'[j].total
    BY DEF InvoiceTellsPayments
  <2>1. CASE j = i
    <3>1. \A p \in payments' : p.on = i => p.currency = old.currency
      BY <1>3, <1>4
    <3> HIDE DEF old, paid, new
    <3> QED BY <1>5, <1>7, <1>11, <2>1, <3>1 DEF PaidStatus
  <2>2. CASE j # i
    BY <1>6, <1>10, <2>2, InvoiceUntouched
  <2> QED BY <2>1, <2>2
<1> QED BY <1>8, <1>12 DEF LedgerInv

LEMMA LedgerStep == LedgerConstants /\ LedgerInv /\ [LedgerNext]_ledgerVars => LedgerInv'
<1> SUFFICES ASSUME LedgerConstants, LedgerInv, [LedgerNext]_ledgerVars PROVE LedgerInv'
  OBVIOUS
<1>1. CASE UNCHANGED ledgerVars
  <2>1. \A j \in Invoices : PaidOn(j)' = PaidOn(j)
    BY <1>1 DEF ledgerVars, PaidOn
  <2> QED BY <1>1, <2>1 DEF ledgerVars, LedgerInv, LedgerTyped, PaidExist, InvoiceTellsPayments
<1>2. CASE LedgerNext
  BY <1>2, CreateInvoiceKept, PatchInvoiceKept, RecordPaymentKept DEF LedgerNext
<1> QED BY <1>1, <1>2

\* Whatever order patches and payments come in and whatever keys are sent again, an
\* invoice says what its payments add up to (patchInvoice, recordPayment).
THEOREM InvoiceTellsPaymentsAlways ==
  ASSUME LedgerConstants PROVE LedgerSpec => []InvoiceTellsPayments
<1>1. LedgerInit => LedgerInv
  BY LedgerInitial
<1>2. LedgerInv /\ [LedgerNext]_ledgerVars => LedgerInv'
  BY LedgerStep
<1>3. LedgerInv => InvoiceTellsPayments
  BY DEF LedgerInv
<1> QED BY <1>1, <1>2, <1>3, PTL DEF LedgerSpec

-----------------------------------------------------------------------------
(* The books of a show *)

Shares == (UNION {[S -> Int] : S \in SUBSET Members}) \union {<<>>}
ExpenseRows == [event : Events \union {Nowhere}, amount : 0..MaxMinor,
                currency : Currencies \union {"none"}, settled : BOOLEAN]
SettlementRows == [status : {"absent", "draft", "final"}, currency : Currencies \union {"none"},
                   gross : 0..MaxMinor, expense : Nat, net : Nat, splits : Shares, amounts : Shares]

\* The splits of a settlement are shares of members, in basis points.
SplitsTyped == \A v \in Events : settlement[v].status # "absent" =>
  \E S \in SUBSET Members : settlement[v].splits \in [S -> 0..Points]

BooksTyped ==
  /\ expense \in [Expenses -> ExpenseRows]
  /\ settlement \in [Events -> SettlementRows]
  /\ SplitsTyped

\* An expense without an amount is no row yet; one is attached by a final settlement only.
ExpensesStand == \A x \in Expenses :
  /\ expense[x].amount = 0 => expense[x].event = Nowhere
  /\ expense[x].settled => /\ expense[x].event \in Events
                           /\ settlement[expense[x].event].status = "final"

BooksInv == BooksTyped /\ ExpensesStand /\ FinalBooksBalance

LEMMA ShareOf ==
  ASSUME NEW S \in SUBSET Members, NEW f \in [S -> Int] PROVE f \in Shares
BY DEF Shares

CostRow(v, c) == [x \in Costs(v, c) |-> expense[x].amount]

LEMMA CostTyped ==
  ASSUME BookConstants, expense \in [Expenses -> ExpenseRows], NEW v, NEW c
  PROVE  /\ IsFiniteSet(Costs(v, c)) /\ CostRow(v, c) \in [Costs(v, c) -> Int]
         /\ CostOf(v, c) = SumFunction(CostRow(v, c)) /\ CostOf(v, c) \in Nat
<1>1. IsFiniteSet(Costs(v, c))
  BY FS_Subset DEF BookConstants, Costs
<1>2. CostRow(v, c) \in [Costs(v, c) -> Nat] /\ CostRow(v, c) \in [Costs(v, c) -> Int]
  BY DEF CostRow, Costs, ExpenseRows, BookConstants
<1> QED BY <1>1, <1>2, SumOfAll DEF CostOf, CostRow

\* However a net is split, no cent of it is lost or made.
LEMMA AllocationsAddUp ==
  ASSUME BookConstants, NEW S \in SUBSET Members, NEW splits \in [S -> 0..Points],
         NEW net \in Nat, NEW amounts \in Allocations(net, splits)
  PROVE  /\ amounts \in [S -> Int]
         /\ S # {} => SumFunction(amounts) = net
<1> DEFINE shares == Floors(net, splits)
           left == net - SumFunction(shares)
<1>1. IsFiniteSet(S)
  BY FS_Subset DEF BookConstants
<1>2. shares \in [S -> Int]
  <2>1. \A m \in S : net * splits[m] \in Int
    OBVIOUS
  <2>2. \A n \in Int : n \div Points \in Int
    BY DEF Points
  <2> QED BY <2>1, <2>2 DEF Floors
<1>3. SumFunction(shares) \in Int
  BY <1>1, <1>2, SumOfAll
<1>4. CASE left = 0 \/ S = {}
  <2>1. amounts = shares
    BY <1>4 DEF Allocations
  <2> HIDE DEF shares
  <2> QED BY <1>2, <1>3, <1>4, <2>1
<1>5. CASE left # 0 /\ S # {}
  <2>1. PICK m \in Heirs(splits) : amounts = [shares EXCEPT ![m] = @ + left]
    BY <1>5 DEF Allocations
  <2>2. m \in S
    BY DEF Heirs
  <2> HIDE DEF shares
  <2>3. /\ amounts \in [S -> Int] /\ amounts[m] = shares[m] + left
        /\ \A n \in S \ {m} : shares[n] = amounts[n]
    BY <1>2, <1>3, <2>1, <2>2
  <2>4. SumFunction(amounts) = SumFunction(shares) - shares[m] + amounts[m]
    BY <1>1, <1>2, <2>2, <2>3, SumChanged
  <2>5. shares[m] \in Int
    BY <1>2, <2>2
  <2> QED BY <1>3, <2>3, <2>4, <2>5
<1> QED BY <1>4, <1>5

\* What a final settlement says.
Balanced(v) ==
  LET s == settlement[v]
  IN  /\ s.expense = CostOf(v, s.currency)
      /\ s.gross = s.expense + s.net
      /\ \A x \in Expenses : expense[x].settled /\ expense[x].event = v <=> x \in Costs(v, s.currency)
      /\ DOMAIN s.amounts # {} => SumFunction(s.amounts) = s.net

LEMMA BooksBalance == FinalBooksBalance <=> \A v \in Events : settlement[v].status = "final" => Balanced(v)
BY DEF FinalBooksBalance, Balanced

\* A final settlement stays balanced by a step that leaves it and its event's expenses.
LEMMA BalanceUntouched ==
  ASSUME NEW v \in Events, Balanced(v), settlement'[v] = settlement[v],
         \A x \in Expenses : expense'[x] # expense[x] => expense[x].event # v /\ expense'[x].event # v
  PROVE  Balanced(v)'
<1> DEFINE c == settlement[v].currency
<1>1. Costs(v, c)' = Costs(v, c)
  BY DEF Costs
<1>2. CostOf(v, c)' = CostOf(v, c)
  <2>1. CostRow(v, c)' = CostRow(v, c)
    BY <1>1 DEF CostRow, Costs
  <2>2. CostOf(v, c) = SumFunction(CostRow(v, c)) /\ CostOf(v, c)' = SumFunction(CostRow(v, c)')
    BY DEF CostOf, CostRow
  <2> QED BY <2>1, <2>2
<1> QED BY <1>1, <1>2 DEF Balanced, Costs

LEMMA BooksInitial == BookConstants /\ BooksInit => BooksInv
<1> SUFFICES ASSUME BookConstants, BooksInit PROVE BooksInv
  OBVIOUS
<1>1. NoExpense \in ExpenseRows
  BY DEF NoExpense, ExpenseRows, BookConstants
<1>2. <<>> \in Shares
  BY DEF Shares
<1>3. NoSettlement \in SettlementRows
  BY <1>2 DEF NoSettlement, SettlementRows, BookConstants
<1> QED BY <1>1, <1>3 DEF BooksInit, BooksInv, BooksTyped, SplitsTyped, ExpensesStand, FinalBooksBalance, NoExpense,
                    NoSettlement

\* An expense of no final event is written for another such event.
LEMMA ExpenseWritten ==
  ASSUME BookConstants, BooksInv, NEW x \in Expenses, NEW v \in Events \union {Nowhere},
         NEW amount \in 1..MaxMinor, NEW c \in Currencies,
         ~expense[x].settled, BooksOpen(expense[x].event), BooksOpen(v),
         expense' = [expense EXCEPT ![x] = [event |-> v, amount |-> amount, currency |-> c, settled |-> FALSE]],
         UNCHANGED settlement
  PROVE  BooksInv'
<1>1. /\ expense'[x] = [event |-> v, amount |-> amount, currency |-> c, settled |-> FALSE]
      /\ \A y \in Expenses \ {x} : expense'[y] = expense[y]
      /\ expense' \in [Expenses -> ExpenseRows]
  BY DEF BooksInv, BooksTyped, ExpenseRows, BookConstants
<1>2. BooksTyped' /\ ExpensesStand'
  <2>1. SplitsTyped'
    BY DEF BooksInv, BooksTyped, SplitsTyped
  <2>2. \A y \in Expenses : /\ expense'[y].amount = 0 => expense'[y].event = Nowhere
                            /\ expense'[y].settled => /\ expense'[y].event \in Events
                                                      /\ settlement[expense'[y].event].status = "final"
    <3>1. expense'[x].amount # 0 /\ ~expense'[x].settled
      BY <1>1 DEF BookConstants
    <3> QED BY <1>1, <3>1 DEF BooksInv, ExpensesStand
  <2> QED BY <1>1, <2>1, <2>2 DEF BooksInv, BooksTyped, ExpensesStand
<1>3. FinalBooksBalance'
  <2> SUFFICES ASSUME NEW u \in Events, settlement[u].status = "final" PROVE Balanced(u)'
    BY DEF FinalBooksBalance, Balanced
  <2>1. Balanced(u)
    BY BooksBalance DEF BooksInv
  <2>2. expense[x].event # u /\ v # u
    BY DEF BooksOpen, BookConstants
  <2> QED BY <1>1, <2>1, <2>2, BalanceUntouched
<1> QED BY <1>2, <1>3 DEF BooksInv

LEMMA CreateExpenseKept ==
  ASSUME BookConstants, BooksInv, NEW x \in Expenses, CreateExpense(x)
  PROVE  BooksInv'
<1>1. PICK v \in Events \union {Nowhere}, amount \in 1..MaxMinor, c \in Currencies :
        /\ BooksOpen(v)
        /\ expense' = [expense EXCEPT ![x] = [event |-> v, amount |-> amount, currency |-> c, settled |-> FALSE]]
  BY DEF CreateExpense
<1>2. expense[x].amount = 0 /\ expense[x].event = Nowhere
  BY DEF CreateExpense, Recorded, BooksInv, BooksTyped, ExpensesStand, ExpenseRows
<1>3. ~expense[x].settled /\ BooksOpen(expense[x].event)
  BY <1>2 DEF BooksInv, BooksTyped, ExpensesStand, BooksOpen, BookConstants
<1> QED BY <1>1, <1>3, ExpenseWritten DEF CreateExpense

LEMMA PatchExpenseKept ==
  ASSUME BookConstants, BooksInv, NEW x \in Expenses, PatchExpense(x)
  PROVE  BooksInv'
<1>1. PICK v \in Events \union {Nowhere}, amount \in 1..MaxMinor, c \in Currencies :
        /\ BooksOpen(expense[x].event) /\ BooksOpen(v)
        /\ expense' = [expense EXCEPT ![x] = [event |-> v, amount |-> amount, currency |-> c, settled |-> FALSE]]
  BY DEF PatchExpense, MayMove
<1> QED BY <1>1, ExpenseWritten DEF PatchExpense

\* A draft is written for an event without a final settlement.
LEMMA DraftSaved ==
  ASSUME BookConstants, BooksInv, NEW v \in Events, settlement[v].status # "final",
         NEW c \in Currencies \union {"none"}, NEW gross \in 0..MaxMinor,
         NEW S \in SUBSET Members, NEW splits \in [S -> 0..Points], SaveDraft(v, c, gross, splits)
  PROVE  BooksInv'
<1> DEFINE cost == CostOf(v, c)
<1>1. cost \in Nat
  BY CostTyped DEF BooksInv, BooksTyped
<1>2. PICK amounts \in Allocations(gross - cost, splits) :
        settlement' = [settlement EXCEPT ![v] =
          [status |-> "draft", currency |-> c, gross |-> gross, expense |-> cost,
           net |-> gross - cost, splits |-> splits, amounts |-> amounts]]
  BY DEF SaveDraft
<1>3. gross - cost \in Nat /\ expense' = expense
  BY <1>1 DEF SaveDraft, BookConstants
<1> HIDE DEF cost
<1>4. amounts \in [S -> Int]
  BY <1>3, AllocationsAddUp
<1> DEFINE new == [status |-> "draft", currency |-> c, gross |-> gross, expense |-> cost,
                   net |-> gross - cost, splits |-> splits, amounts |-> amounts]
<1>5. new \in SettlementRows
  <2>1. splits \in Shares /\ amounts \in Shares
    <3>1. splits \in [S -> Int]
      OBVIOUS
    <3> QED BY <1>4, <3>1, ShareOf
  <2> QED BY <1>1, <1>3, <2>1 DEF SettlementRows
<1>6. /\ settlement'[v] = new /\ \A u \in Events \ {v} : settlement'[u] = settlement[u]
      /\ settlement' \in [Events -> SettlementRows]
  BY <1>2, <1>5 DEF BooksInv, BooksTyped
<1>7. SplitsTyped'
  <2> SUFFICES ASSUME NEW u \in Events, settlement'[u].status # "absent"
               PROVE  \E R \in SUBSET Members : settlement'[u].splits \in [R -> 0..Points]
    BY DEF SplitsTyped
  <2>1. CASE u = v
    BY <1>6, <2>1
  <2>2. CASE u # v
    BY <1>6, <2>2 DEF BooksInv, BooksTyped, SplitsTyped
  <2> QED BY <2>1, <2>2
<1>8. ExpensesStand'
  BY <1>3, <1>6 DEF BooksInv, ExpensesStand
<1>9. FinalBooksBalance'
  <2> SUFFICES ASSUME NEW u \in Events, settlement'[u].status = "final" PROVE Balanced(u)'
    BY DEF FinalBooksBalance, Balanced
  <2>1. u # v /\ settlement'[u] = settlement[u]
    BY <1>6
  <2>2. Balanced(u)
    BY <2>1, BooksBalance DEF BooksInv
  <2> QED BY <1>3, <2>1, <2>2, BalanceUntouched
<1> QED BY <1>3, <1>6, <1>7, <1>8, <1>9 DEF BooksInv, BooksTyped

LEMMA CreateSettlementKept ==
  ASSUME BookConstants, BooksInv, NEW v \in Events, CreateSettlement(v)
  PROVE  BooksInv'
<1>1. PICK c \in Currencies, gross \in 0..MaxMinor, splits \in Splits : SaveDraft(v, c, gross, splits)
  BY DEF CreateSettlement
<1>2. PICK S \in SUBSET Members : splits \in [S -> 0..Points]
  BY DEF BookConstants
<1> QED BY <1>1, <1>2, DraftSaved DEF CreateSettlement

LEMMA PatchSettlementKept ==
  ASSUME BookConstants, BooksInv, NEW v \in Events, PatchSettlement(v)
  PROVE  BooksInv'
<1>1. PICK gross \in 0..MaxMinor, splits \in Splits \union {settlement[v].splits} :
        SaveDraft(v, settlement[v].currency, gross, splits)
  BY DEF PatchSettlement
<1>2. PICK S \in SUBSET Members : splits \in [S -> 0..Points]
  BY DEF BookConstants, PatchSettlement, BooksInv, BooksTyped, SplitsTyped
<1>3. settlement[v].currency \in Currencies \union {"none"}
  BY DEF BooksInv, BooksTyped, SettlementRows
<1> QED BY <1>1, <1>2, <1>3, DraftSaved DEF PatchSettlement

LEMMA FinalizeSettlementKept ==
  ASSUME BookConstants, BooksInv, NEW v \in Events, FinalizeSettlement(v)
  PROVE  BooksInv'
<1> DEFINE s == settlement[v]
           cost == CostOf(v, s.currency)
<1>1. s \in SettlementRows /\ cost \in Nat /\ s.status = "draft" /\ cost <= s.gross
  BY CostTyped DEF BooksInv, BooksTyped, FinalizeSettlement
<1>2. PICK S \in SUBSET Members : s.splits \in [S -> 0..Points]
  BY <1>1 DEF BooksInv, BooksTyped, SplitsTyped
<1>3. PICK amounts \in Allocations(s.gross - cost, s.splits) :
        settlement' = [settlement EXCEPT ![v].status = "final", ![v].expense = cost,
                         ![v].net = s.gross - cost, ![v].amounts = amounts]
  BY DEF FinalizeSettlement
<1>4. s.gross - cost \in Nat
  BY <1>1 DEF SettlementRows, BookConstants
<1> HIDE DEF cost
<1>5. amounts \in [S -> Int] /\ (S # {} => SumFunction(amounts) = s.gross - cost)
  <2>1. PICK net \in Nat, splits \in [S -> 0..Points] : net = s.gross - cost /\ splits = s.splits
    BY <1>2, <1>4
  <2>2. amounts \in Allocations(net, splits)
    BY <1>3, <2>1
  <2> HIDE DEF s
  <2>3. amounts \in [S -> Int] /\ (S # {} => SumFunction(amounts) = net)
    BY <2>2, AllocationsAddUp
  <2> QED BY <2>1, <2>3
<1>6. amounts \in Shares /\ DOMAIN amounts = S
  BY <1>5, ShareOf
<1> DEFINE new == [s EXCEPT !.status = "final", !.expense = cost, !.net = s.gross - cost, !.amounts = amounts]
<1>7. /\ new \in SettlementRows /\ new.status = "final" /\ new.currency = s.currency
      /\ new.gross = s.gross /\ new.expense = cost /\ new.net = s.gross - cost
      /\ new.amounts = amounts /\ new.splits = s.splits
  BY <1>1, <1>4, <1>6 DEF SettlementRows
<1>8. /\ settlement'[v] = new /\ \A u \in Events \ {v} : settlement'[u] = settlement[u]
      /\ settlement' \in [Events -> SettlementRows]
  <2>1. settlement' = [settlement EXCEPT ![v] = new]
    BY <1>3 DEF BooksInv, BooksTyped
  <2> HIDE DEF new, s
  <2> QED BY <1>7, <2>1 DEF BooksInv, BooksTyped
<1> HIDE DEF new
<1>9. /\ \A x \in Costs(v, s.currency) : expense'[x] = [expense[x] EXCEPT !.settled = TRUE]
      /\ \A x \in Expenses \ Costs(v, s.currency) : expense'[x] = expense[x]
      /\ expense' \in [Expenses -> ExpenseRows]
  <2> HIDE DEF s
  <2>1. expense' = [x \in Expenses |-> IF x \in Costs(v, s.currency) THEN [expense[x] EXCEPT !.settled = TRUE]
                                      ELSE expense[x]]
    BY DEF FinalizeSettlement, s
  <2>2. \A x \in Expenses : expense[x] \in ExpenseRows /\ [expense[x] EXCEPT !.settled = TRUE] \in ExpenseRows
    BY DEF BooksInv, BooksTyped, ExpenseRows
  <2>3. Costs(v, s.currency) \subseteq Expenses
    BY DEF Costs
  <2> HIDE DEF Costs
  <2> QED BY <2>1, <2>2, <2>3
<1>10. \A x \in Expenses : /\ expense'[x].event = expense[x].event /\ expense'[x].amount = expense[x].amount
                           /\ expense'[x].currency = expense[x].currency
                           /\ expense'[x].settled <=> expense[x].settled \/ x \in Costs(v, s.currency)
  <2> HIDE DEF s
  <2>1. \A x \in Expenses : /\ expense[x].settled \in BOOLEAN
                            /\ expense[x] = [event |-> expense[x].event, amount |-> expense[x].amount,
                                 currency |-> expense[x].currency, settled |-> expense[x].settled]
    BY DEF BooksInv, BooksTyped, ExpenseRows
  <2> SUFFICES ASSUME NEW x \in Expenses
               PROVE  /\ expense'[x].event = expense[x].event /\ expense'[x].amount = expense[x].amount
                      /\ expense'[x].currency = expense[x].currency
                      /\ expense'[x].settled <=> expense[x].settled \/ x \in Costs(v, s.currency)
    OBVIOUS
  <2>2. CASE x \in Costs(v, s.currency)
    <3>1. expense'[x] = [event |-> expense[x].event, amount |-> expense[x].amount,
                         currency |-> expense[x].currency, settled |-> TRUE]
      BY <1>9, <2>1, <2>2
    <3> QED BY <2>2, <3>1
  <2>3. CASE x \notin Costs(v, s.currency)
    BY <1>9, <2>1, <2>3
  <2> QED BY <2>2, <2>3
<1>11. SplitsTyped'
  BY <1>2, <1>7, <1>8 DEF BooksInv, BooksTyped, SplitsTyped
<1>12. ExpensesStand'
  BY <1>7, <1>8, <1>10 DEF BooksInv, ExpensesStand, Costs
<1>13. FinalBooksBalance'
  <2> SUFFICES ASSUME NEW u \in Events, settlement'[u].status = "final" PROVE Balanced(u)'
    BY DEF FinalBooksBalance, Balanced
  <2>1. CASE u = v
    <3>1. PICK c : c = settlement[v].currency
      OBVIOUS
    <3>2. Costs(v, c)' = Costs(v, c)
      BY <1>10 DEF Costs
    <3>3. CostOf(v, c)' = cost
      <4>1. CostRow(v, c)' = CostRow(v, c)
        <5>1. \A x \in Costs(v, c) : expense'[x].amount = expense[x].amount
          BY <1>10 DEF Costs
        <5> QED BY <3>2, <5>1 DEF CostRow
      <4>2. cost = SumFunction(CostRow(v, c))
        BY <3>1 DEF CostOf, CostRow, cost
      <4>3. CostOf(v, c)' = SumFunction(CostRow(v, c)')
        BY DEF CostOf, CostRow
      <4> QED BY <4>1, <4>2, <4>3
    <3>4. \A x \in Expenses : expense'[x].settled /\ expense'[x].event = v <=> x \in Costs(v, c)
      BY <1>1, <1>10, <3>1 DEF BooksInv, ExpensesStand, Costs
    <3>5. DOMAIN amounts # {} => SumFunction(amounts) = s.gross - cost
      BY <1>5, <1>6
    <3>6. s.gross = cost + (s.gross - cost)
      BY <1>1 DEF SettlementRows, BookConstants
    <3>7. /\ settlement'[v].currency = c /\ settlement'[v].expense = cost
          /\ settlement'[v].gross = s.gross /\ settlement'[v].net = s.gross - cost
          /\ settlement'[v].amounts = amounts
      BY <1>7, <1>8, <3>1
    <3> HIDE DEF s
    <3>8. /\ settlement'[v].expense = CostOf(v, settlement[v].currency)'
          /\ settlement'[v].gross = settlement'[v].expense + settlement'[v].net
          /\ DOMAIN settlement'[v].amounts # {} => SumFunction(settlement'[v].amounts) = settlement'[v].net
      <4>1. CostOf(v, settlement[v].currency)' = CostOf(v, c)'
        BY <3>7 DEF CostOf, Costs
      <4> QED BY <3>3, <3>5, <3>6, <3>7, <4>1
    <3>9. \A x \in Expenses : expense'[x].settled /\ expense'[x].event = v <=> x \in Costs(v, settlement[v].currency)'
      BY <3>2, <3>4, <3>7 DEF Costs
    <3> QED BY <2>1, <3>8, <3>9 DEF Balanced
  <2>2. CASE u # v
    <3>1. Balanced(u) /\ settlement'[u] = settlement[u]
      BY <1>8, <2>2, BooksBalance DEF BooksInv
    <3>2. \A x \in Expenses : expense'[x] # expense[x] => expense[x].event # u /\ expense'[x].event # u
      BY <1>9, <1>10, <2>2 DEF Costs
    <3> QED BY <3>1, <3>2, BalanceUntouched
  <2> QED BY <2>1, <2>2
<1> QED BY <1>8, <1>9, <1>11, <1>12, <1>13 DEF BooksInv, BooksTyped

LEMMA BooksStep == BookConstants /\ BooksInv /\ [BooksNext]_bookVars => BooksInv'
<1> SUFFICES ASSUME BookConstants, BooksInv, [BooksNext]_bookVars PROVE BooksInv'
  OBVIOUS
<1>1. CASE UNCHANGED <<expense, settlement>>
  <2>1. \A v \in Events : Balanced(v)' <=> Balanced(v)
    BY <1>1 DEF Balanced, CostOf, Costs
  <2>2. FinalBooksBalance'
    BY <1>1, <2>1, BooksBalance DEF BooksInv, FinalBooksBalance, Balanced
  <2> QED BY <1>1, <2>2 DEF BooksInv, BooksTyped, SplitsTyped, ExpensesStand
<1>2. CASE \E m \in Members : ToggleMember(m)
  BY <1>1, <1>2 DEF ToggleMember
<1>3. CASE UNCHANGED bookVars
  BY <1>1, <1>3 DEF bookVars
<1>4. CASE \E x \in Expenses : CreateExpense(x) \/ PatchExpense(x)
  BY <1>4, CreateExpenseKept, PatchExpenseKept
<1>5. CASE \E v \in Events : CreateSettlement(v) \/ PatchSettlement(v) \/ FinalizeSettlement(v)
  BY <1>5, CreateSettlementKept, PatchSettlementKept, FinalizeSettlementKept
<1> QED BY <1>2, <1>3, <1>4, <1>5 DEF BooksNext

\* Whatever expenses, drafts and members change meanwhile, the books of a show stay
\* closed and add up once its settlement is final: not a cent of the net is lost
\* between the shares (finalizeSettlement, allocateSettlementSplits).
THEOREM FinalBooksBalanceAlways ==
  ASSUME BookConstants PROVE BooksSpec => []FinalBooksBalance
<1>1. BooksInit => BooksInv
  BY BooksInitial
<1>2. BooksInv /\ [BooksNext]_bookVars => BooksInv'
  BY BooksStep
<1>3. BooksInv => FinalBooksBalance
  BY DEF BooksInv
<1> QED BY <1>1, <1>2, <1>3, PTL DEF BooksSpec

-----------------------------------------------------------------------------
(* The jobs of the queue *)

Steps == {"free", "rows", "mail", "next", "row", "draft", "check", "draftInvite", "delivered", "undelivered"}
RunRows == [at : Steps, job : [id : Kinds \union Invites \union {"none"}, nr : 0..MaxJobs, stalls : 0..1],
            since : CalendarDays, todo : SUBSET Operators, who : Operators \union {Nobody},
            toRow : SUBSET Operators, toDraft : SUBSET Operators]
Told == [Operators \X Kinds \X CalendarDays -> Nat]

JobsTyped == JobsTypeOK /\ processing \in [Consumers -> RunRows]

\* A worker takes the steps of the kind of its job, over a window that began
\* no later than today's.
Fits(r) ==
  /\ r.at = "free" => r = Free
  /\ r.at \in {"rows", "mail"} => r.job.id \in Occurrences
  /\ r.at \in {"next", "row", "draft"} => r.job.id \in Repeating
  /\ r.at \in {"check", "draftInvite", "delivered", "undelivered"} => r.job.id \in Invites
  /\ r.at # "free" => r.since <= WindowStart(r.job.id, today)
  /\ IsDigest(r.job.id) => r.toRow = r.toDraft

Tells(r) ==
  /\ r.at \in {"row", "draft"} => r.who \in Operators
  /\ r.at = "delivered" => invited[r.job.id] > 0

StepsFit == \A w \in Consumers : Fits(processing[w])
Telling == \A w \in Consumers : Tells(processing[w])
Mailed == \A i \in Invites : invite[i].channel = "gmail_draft" => invited[i] > 0

\* The workers that found no row of o about k and are about to make one; and those
\* that have made one and are about to draft.
Rowers(p, o, k) == {w \in Consumers : p[w].at = "row" /\ p[w].who = o /\ p[w].job.id = k /\ o \in p[w].toRow}
Drafters(p, o, k) == {w \in Consumers : p[w].at = "draft" /\ p[w].who = o /\ p[w].job.id = k /\ o \in p[w].toDraft}

\* The rows of a window, with those about to be made in the one of today, are no more
\* than the workers, and none is dated ahead; drafts of a digest, with those about
\* to be made, are no more than its rows.
RoomIn(R) == \A o \in Operators, k \in Repeating, d \in CalendarDays :
  CountOver(R, o, k, WindowDays(k, d)) <= Cardinality(Consumers)
RoomFor(R, p, day) == \A o \in Operators, k \in Repeating :
  CountOver(R, o, k, WindowDays(k, day)) + Cardinality(Rowers(p, o, k)) <= Cardinality(Consumers)
NoneAhead(R, day) == \A o \in Operators, k \in Repeating, d \in CalendarDays : d > day => R[<<o, k, d>>] = 0
DraftsFollow(R, D, p) == \A o \in Operators, k \in Repeating : IsDigest(k) =>
  CountOver(D, o, k, CalendarDays) + Cardinality(Drafters(p, o, k)) <= CountOver(R, o, k, CalendarDays)

Counted(R, D, p, day) == RoomIn(R) /\ RoomFor(R, p, day) /\ NoneAhead(R, day) /\ DraftsFollow(R, D, p)

JobsInv == JobsTyped /\ StepsFit /\ Telling /\ Mailed /\ Counted(rows, drafts, processing, today)

\* Windows are told by their first day, which does not come after them.
LEMMA WindowBegins ==
  ASSUME JobConstants, NEW k, NEW d \in CalendarDays
  PROVE  /\ WindowStart(k, d) \in CalendarDays /\ WindowStart(k, d) <= d
         /\ \A e \in CalendarDays : d <= e => WindowStart(k, d) <= WindowStart(k, e)
<1>1. DaysPerWeek \in Nat \ {0} /\ MaxDays \in Nat \ {0}
  BY DEF JobConstants
<1>2. \A n \in Nat : n \div DaysPerWeek \in Nat /\ (n \div DaysPerWeek) * DaysPerWeek <= n
  BY <1>1
<1>3. \A m, n \in Nat : m <= n => (m \div DaysPerWeek) * DaysPerWeek <= (n \div DaysPerWeek) * DaysPerWeek
  BY <1>1
<1>4. WeekOf(d) * DaysPerWeek \in Nat /\ WeekOf(d) * DaysPerWeek <= d - 1
  BY <1>1, <1>2 DEF WeekOf, CalendarDays
<1>5. \A e \in CalendarDays : d <= e => WeekOf(d) * DaysPerWeek <= WeekOf(e) * DaysPerWeek
  BY <1>1, <1>3 DEF WeekOf, CalendarDays
<1>6. \A e \in CalendarDays : WeekOf(e) * DaysPerWeek \in Int
  BY <1>1, <1>2 DEF WeekOf, CalendarDays
<1> QED BY <1>1, <1>4, <1>5, <1>6 DEF WindowStart, CalendarDays

DayRow(f, o, k, S) == [d \in S |-> f[<<o, k, d>>]]

LEMMA CountTyped ==
  ASSUME JobConstants, NEW f \in Told, NEW o \in Operators, NEW k \in Kinds, NEW S \in SUBSET CalendarDays
  PROVE  /\ IsFiniteSet(S) /\ DayRow(f, o, k, S) \in [S -> Int]
         /\ CountOver(f, o, k, S) = SumFunction(DayRow(f, o, k, S)) /\ CountOver(f, o, k, S) \in Nat
<1>1. IsFiniteSet(S)
  <2>1. 1 \in Int /\ MaxDays \in Int
    BY DEF JobConstants
  <2>2. IsFiniteSet(CalendarDays)
    BY <2>1, FS_Interval DEF CalendarDays
  <2> QED BY <2>2, FS_Subset
<1>2. DayRow(f, o, k, S) \in [S -> Nat] /\ DayRow(f, o, k, S) \in [S -> Int]
  BY DEF DayRow, Told
<1> QED BY <1>1, <1>2, SumOfAll DEF CountOver, DayRow

LEMMA CountSame ==
  ASSUME JobConstants, NEW f, NEW g, NEW o, NEW k, NEW S, \A d \in S : g[<<o, k, d>>] = f[<<o, k, d>>]
  PROVE  CountOver(g, o, k, S) = CountOver(f, o, k, S)
<1>1. DayRow(g, o, k, S) = DayRow(f, o, k, S)
  BY DEF DayRow
<1> QED BY <1>1 DEF CountOver, DayRow

LEMMA CountOneMore ==
  ASSUME JobConstants, NEW f \in Told, NEW g \in Told, NEW o \in Operators, NEW k \in Kinds,
         NEW S \in SUBSET CalendarDays, NEW e \in S, g[<<o, k, e>>] = f[<<o, k, e>>] + 1,
         \A d \in S \ {e} : g[<<o, k, d>>] = f[<<o, k, d>>]
  PROVE  CountOver(g, o, k, S) = CountOver(f, o, k, S) + 1
<1> DEFINE old == DayRow(f, o, k, S)
           new == DayRow(g, o, k, S)
<1>1. /\ IsFiniteSet(S) /\ old \in [S -> Int] /\ new \in [S -> Int]
      /\ CountOver(f, o, k, S) = SumFunction(old) /\ CountOver(g, o, k, S) = SumFunction(new)
      /\ CountOver(f, o, k, S) \in Nat
  BY CountTyped
<1>2. new[e] = old[e] + 1 /\ \A d \in S \ {e} : old[d] = new[d]
  BY DEF DayRow
<1> HIDE DEF old, new
<1>3. SumFunction(new) = SumFunction(old) - old[e] + new[e]
  BY <1>1, <1>2, SumChanged
<1>4. old[e] \in Int
  BY <1>1
<1> QED BY <1>1, <1>2, <1>3, <1>4

LEMMA CountNone ==
  ASSUME JobConstants, NEW f \in Told, NEW o \in Operators, NEW k \in Kinds,
         NEW S \in SUBSET CalendarDays, \A d \in S : f[<<o, k, d>>] = 0
  PROVE  CountOver(f, o, k, S) = 0
<1> DEFINE old == DayRow(f, o, k, S)
<1>1. IsFiniteSet(S) /\ old \in [S -> Int] /\ CountOver(f, o, k, S) = SumFunction(old)
  BY CountTyped
<1>2. \A d \in S : old[d] = 0
  BY DEF DayRow
<1> HIDE DEF old
<1> QED BY <1>1, <1>2, SumOfZeros

LEMMA RepeatingKinds ==
  ASSUME JobConstants, NEW k \in Repeating
  PROVE  k \in Kinds /\ k # "none" /\ k \notin Occurrences /\ k \notin Invites
BY DEF JobConstants, RepeatingJobs, Kinds

LEMMA FreeTyped == JobConstants => Free \in RunRows /\ Fits(Free) /\ Tells(Free)
<1> SUFFICES ASSUME JobConstants PROVE Free \in RunRows /\ Fits(Free) /\ Tells(Free)
  OBVIOUS
<1>1. 1 \in CalendarDays
  BY DEF JobConstants, CalendarDays
<1>2. Free \in RunRows
  BY <1>1 DEF Free, RunRows, Steps, Nobody, JobConstants
<1> QED BY <1>2 DEF Free, Fits, Tells, IsDigest

\* Of so few workers there are at most so many.
LEMMA WorkersCounted ==
  ASSUME JobConstants, NEW A \in SUBSET Consumers
  PROVE  /\ Cardinality(A) \in Nat /\ Cardinality(Consumers) \in Nat
         /\ Cardinality(A) <= Cardinality(Consumers)
         /\ \A B \in SUBSET A : Cardinality(B) \in Nat /\ Cardinality(B) <= Cardinality(A)
         /\ \A w \in A : Cardinality(A \ {w}) = Cardinality(A) - 1
         /\ \A w \in Consumers : Cardinality(A \union {w}) <= Cardinality(A) + 1
<1>1. IsFiniteSet(Consumers) /\ Cardinality(Consumers) \in Nat
  BY FS_CardinalityType DEF JobConstants
<1>2. IsFiniteSet(A) /\ Cardinality(A) \in Nat /\ Cardinality(A) <= Cardinality(Consumers)
  BY <1>1, FS_Subset, FS_CardinalityType
<1>3. \A B \in SUBSET A : Cardinality(B) \in Nat /\ Cardinality(B) <= Cardinality(A)
  BY <1>2, FS_Subset, FS_CardinalityType
<1>4. \A w \in A : Cardinality(A \ {w}) = Cardinality(A) - 1
  BY <1>2, FS_RemoveElement
<1>5. \A w \in Consumers : Cardinality(A \union {w}) <= Cardinality(A) + 1
  <2> SUFFICES ASSUME NEW w \in Consumers PROVE Cardinality(A \union {w}) <= Cardinality(A) + 1
    OBVIOUS
  <2>1. Cardinality(A \union {w}) = IF w \in A THEN Cardinality(A) ELSE Cardinality(A) + 1
    BY <1>2, FS_AddElement
  <2> QED BY <1>2, <2>1
<1> QED BY <1>1, <1>2, <1>3, <1>4, <1>5

\* What the rows, drafts and mails say of the jobs that are told about once.
Unmoved(k) == \A o \in Operators, d \in CalendarDays :
  rows'[<<o, k, d>>] = rows[<<o, k, d>>] /\ drafts'[<<o, k, d>>] = drafts[<<o, k, d>>]

\* A worker goes on with its job, or puts it down.
LEMMA WorkerStep ==
  ASSUME JobConstants, JobsInv, NEW w \in Consumers, NEW r \in RunRows,
         processing' = [processing EXCEPT ![w] = r], UNCHANGED today, Fits(r), Tells(r)', JobsTypeOK',
         \A i \in Invites : invited'[i] >= invited[i], Mailed',
         Counted(rows', drafts', processing', today')
  PROVE  JobsInv'
<1>1. processing'[w] = r /\ processing' \in [Consumers -> RunRows] /\ \A v \in Consumers \ {w} : processing'[v] = processing[v]
  BY DEF JobsInv, JobsTyped
<1>2. \A v \in Consumers : Fits(processing[v])'
  <2> SUFFICES ASSUME NEW v \in Consumers PROVE Fits(processing[v])'
    OBVIOUS
  <2>1. Fits(processing[v])
    BY DEF JobsInv, StepsFit
  <2>2. CASE v = w
    BY <1>1, <2>2 DEF Fits
  <2>3. CASE v # w
    BY <1>1, <2>1, <2>3 DEF Fits
  <2> QED BY <2>2, <2>3
<1>3. \A v \in Consumers : Tells(processing[v])'
  <2> SUFFICES ASSUME NEW v \in Consumers PROVE Tells(processing[v])'
    OBVIOUS
  <2>1. CASE v = w
    BY <1>1, <2>1 DEF Tells
  <2>2. CASE v # w
    <3>1. PICK s \in RunRows : s = processing[v]
      BY DEF JobsInv, JobsTyped
    <3>2. Fits(s) /\ Tells(s)
      BY <3>1 DEF JobsInv, StepsFit, Telling
    <3>3. s.at = "delivered" => invited'[s.job.id] > 0
      BY <3>2 DEF Tells, Fits, JobsInv, JobsTyped, JobsTypeOK
    <3> QED BY <1>1, <2>2, <3>1, <3>2, <3>3 DEF Tells
  <2> QED BY <2>1, <2>2
<1>4. Counted(rows, drafts, processing, today)'
  BY DEF Counted, RoomIn, RoomFor, NoneAhead, DraftsFollow, CountOver, WindowDays, WindowStart, WeekOf, Rowers, Drafters
<1> QED BY <1>1, <1>2, <1>3, <1>4 DEF JobsInv, JobsTyped, StepsFit, Telling

\* Nobody is told anything, and no worker has come to the point of telling.
LEMMA CountersKept ==
  ASSUME JobConstants, JobsInv, NEW w \in Consumers, NEW r \in RunRows,
         processing' = [processing EXCEPT ![w] = r],
         r.at \in {"row", "draft"} =>
           /\ r.at = processing[w].at /\ r.who = processing[w].who /\ r.job.id = processing[w].job.id
           /\ r.toRow = processing[w].toRow /\ r.toDraft = processing[w].toDraft,
         \A k \in Repeating : Unmoved(k), UNCHANGED today
  PROVE  Counted(rows', drafts', processing', today')
<1>1. processing'[w] = r /\ \A v \in Consumers \ {w} : processing'[v] = processing[v]
  BY DEF JobsInv, JobsTyped
<1>2. \A o, k : /\ Rowers(processing', o, k) \subseteq Rowers(processing, o, k)
                /\ Drafters(processing', o, k) \subseteq Drafters(processing, o, k)
                /\ Rowers(processing, o, k) \subseteq Consumers /\ Drafters(processing, o, k) \subseteq Consumers
  BY <1>1 DEF Rowers, Drafters
<1>3. \A o, k : /\ Cardinality(Rowers(processing', o, k)) \in Nat /\ Cardinality(Rowers(processing, o, k)) \in Nat
                /\ Cardinality(Rowers(processing', o, k)) <= Cardinality(Rowers(processing, o, k))
                /\ Cardinality(Drafters(processing', o, k)) \in Nat /\ Cardinality(Drafters(processing, o, k)) \in Nat
                /\ Cardinality(Drafters(processing', o, k)) <= Cardinality(Drafters(processing, o, k))
  BY <1>2, WorkersCounted
<1>4. \A o \in Operators, k \in Repeating : \A S \in SUBSET CalendarDays :
        /\ CountOver(rows', o, k, S) = CountOver(rows, o, k, S)
        /\ CountOver(drafts', o, k, S) = CountOver(drafts, o, k, S)
  BY CountSame DEF Unmoved
<1>5. \A k, d : WindowDays(k, d) \in SUBSET CalendarDays
  BY DEF WindowDays
<1>6. rows \in Told /\ drafts \in Told
  BY DEF JobsInv, JobsTyped, JobsTypeOK, Told
<1>7. \A o \in Operators, k \in Repeating : \A S \in SUBSET CalendarDays :
        CountOver(rows, o, k, S) \in Nat /\ CountOver(drafts, o, k, S) \in Nat
  BY <1>6, CountTyped, RepeatingKinds
<1>8. RoomIn(rows')
  BY <1>4, <1>5 DEF JobsInv, Counted, RoomIn
<1>9. RoomFor(rows', processing', today')
  <2> SUFFICES ASSUME NEW o \in Operators, NEW k \in Repeating
               PROVE  CountOver(rows', o, k, WindowDays(k, today')) + Cardinality(Rowers(processing', o, k))
                        <= Cardinality(Consumers)
    BY DEF RoomFor
  <2>1. CountOver(rows, o, k, WindowDays(k, today)) + Cardinality(Rowers(processing, o, k)) <= Cardinality(Consumers)
    BY DEF JobsInv, Counted, RoomFor
  <2>2. CountOver(rows', o, k, WindowDays(k, today')) = CountOver(rows, o, k, WindowDays(k, today))
    BY <1>4, <1>5
  <2>3. Cardinality(Consumers) \in Nat /\ CountOver(rows, o, k, WindowDays(k, today)) \in Nat
    BY <1>5, <1>7, FS_CardinalityType DEF JobConstants
  <2>4. /\ Cardinality(Rowers(processing', o, k)) \in Nat /\ Cardinality(Rowers(processing, o, k)) \in Nat
        /\ Cardinality(Rowers(processing', o, k)) <= Cardinality(Rowers(processing, o, k))
    BY <1>3
  <2> QED BY <2>1, <2>2, <2>3, <2>4
<1>10. NoneAhead(rows', today')
  BY DEF JobsInv, Counted, NoneAhead, Unmoved
<1>11. DraftsFollow(rows', drafts', processing')
  <2> SUFFICES ASSUME NEW o \in Operators, NEW k \in Repeating, IsDigest(k)
               PROVE  CountOver(drafts', o, k, CalendarDays) + Cardinality(Drafters(processing', o, k))
                        <= CountOver(rows', o, k, CalendarDays)
    BY DEF DraftsFollow
  <2>1. CountOver(drafts, o, k, CalendarDays) + Cardinality(Drafters(processing, o, k))
          <= CountOver(rows, o, k, CalendarDays)
    BY DEF JobsInv, Counted, DraftsFollow
  <2>2. /\ Cardinality(Drafters(processing', o, k)) \in Nat /\ Cardinality(Drafters(processing, o, k)) \in Nat
        /\ Cardinality(Drafters(processing', o, k)) <= Cardinality(Drafters(processing, o, k))
    BY <1>3
  <2>3. /\ CountOver(rows', o, k, CalendarDays) = CountOver(rows, o, k, CalendarDays)
        /\ CountOver(drafts', o, k, CalendarDays) = CountOver(drafts, o, k, CalendarDays)
        /\ CountOver(rows, o, k, CalendarDays) \in Nat /\ CountOver(drafts, o, k, CalendarDays) \in Nat
    BY <1>4, <1>7
  <2> QED BY <2>1, <2>2, <2>3
<1> QED BY <1>8, <1>9, <1>10, <1>11 DEF Counted

\* A step that makes no row or draft of a repeatable job.
LEMMA QuietStep ==
  ASSUME JobConstants, JobsInv, NEW w \in Consumers, NEW r \in RunRows,
         processing' = [processing EXCEPT ![w] = r],
         r.at \in {"row", "draft"} =>
           /\ r.at = processing[w].at /\ r.who = processing[w].who /\ r.job.id = processing[w].job.id
           /\ r.toRow = processing[w].toRow /\ r.toDraft = processing[w].toDraft,
         \A k \in Repeating : Unmoved(k), UNCHANGED today, Fits(r), Tells(r)', JobsTypeOK',
         \A i \in Invites : invited'[i] >= invited[i], Mailed'
  PROVE  JobsInv'
BY CountersKept, WorkerStep

\* One that leaves everything but the worker and the queue alone.
LEMMA SilentStep ==
  ASSUME JobConstants, JobsInv, NEW w \in Consumers, NEW r \in RunRows,
         processing' = [processing EXCEPT ![w] = r],
         r.at \in {"row", "draft"} =>
           /\ r.at = processing[w].at /\ r.who = processing[w].who /\ r.job.id = processing[w].job.id
           /\ r.toRow = processing[w].toRow /\ r.toDraft = processing[w].toDraft,
         Fits(r), Tells(r), JobsTypeOK', UNCHANGED <<today, rows, drafts, invite, invited>>
  PROVE  JobsInv'
<1>1. \A k \in Repeating : Unmoved(k)
  BY DEF Unmoved
<1>2. \A i \in Invites : invited'[i] >= invited[i]
  BY DEF JobsInv, JobsTyped, JobsTypeOK
<1>3. Tells(r)' /\ Mailed'
  BY DEF Tells, JobsInv, Mailed
<1> QED BY <1>1, <1>2, <1>3, QuietStep

LEMMA WorkerRow ==
  ASSUME JobConstants, JobsInv, NEW w \in Consumers
  PROVE  /\ processing[w] \in RunRows /\ Fits(processing[w]) /\ Tells(processing[w]) /\ JobsTypeOK
BY DEF JobsInv, JobsTyped, StepsFit, Telling

LEMMA JobsInitial == JobConstants /\ JobsInit => JobsInv
<1> SUFFICES ASSUME JobConstants, JobsInit PROVE JobsInv
  OBVIOUS
<1>1. Free \in RunRows /\ Fits(Free) /\ Tells(Free)
  BY FreeTyped
<1>2. 1 \in CalendarDays
  BY DEF JobConstants, CalendarDays
<1>3. JobsTyped
  BY <1>1, <1>2 DEF JobsInit, JobsTyped, JobsTypeOK, JobConstants
<1>4. /\ rows \in Told /\ drafts \in Told
      /\ \A o \in Operators, k \in Kinds, d \in CalendarDays : rows[<<o, k, d>>] = 0 /\ drafts[<<o, k, d>>] = 0
  BY DEF JobsInit, Told
<1>5. \A o \in Operators, k \in Repeating : \A S \in SUBSET CalendarDays :
        CountOver(rows, o, k, S) = 0 /\ CountOver(drafts, o, k, S) = 0
  BY <1>4, CountNone, RepeatingKinds
<1>6. \A k, d : WindowDays(k, d) \in SUBSET CalendarDays
  BY DEF WindowDays
<1>7. \A o, k : Rowers(processing, o, k) = {} /\ Drafters(processing, o, k) = {}
  BY DEF JobsInit, Rowers, Drafters, Free
<1>8. Cardinality({}) = 0 /\ Cardinality(Consumers) \in Nat
  BY FS_EmptySet, FS_CardinalityType DEF JobConstants
<1>9. Counted(rows, drafts, processing, today)
  <2>1. RoomIn(rows)
    BY <1>5, <1>6, <1>8 DEF RoomIn
  <2>2. RoomFor(rows, processing, today)
    BY <1>5, <1>6, <1>7, <1>8 DEF RoomFor
  <2>3. NoneAhead(rows, today)
    BY <1>4, RepeatingKinds DEF NoneAhead
  <2>4. DraftsFollow(rows, drafts, processing)
    BY <1>5, <1>7, <1>8 DEF DraftsFollow
  <2> QED BY <2>1, <2>2, <2>3, <2>4 DEF Counted
<1>10. Mailed
  BY DEF JobsInit, Mailed
<1> QED BY <1>1, <1>3, <1>9, <1>10 DEF JobsInit, JobsInv, StepsFit, Telling

\* Steps of others than the workers.
LEMMA WorkersUntouched ==
  ASSUME JobsInv, UNCHANGED <<today, processing, rows, drafts, invited>>, JobsTypeOK', Mailed'
  PROVE  JobsInv'
<1>1. Counted(rows, drafts, processing, today)'
  BY DEF JobsInv, Counted, RoomIn, RoomFor, NoneAhead, DraftsFollow, CountOver, WindowDays, WindowStart, WeekOf,
         Rowers, Drafters
<1>2. StepsFit' /\ Telling'
  BY DEF JobsInv, StepsFit, Telling, Fits, Tells, WindowStart, WeekOf
<1> QED BY <1>1, <1>2 DEF JobsInv, JobsTyped

\* The queue takes a job in.
LEMMA JobAdded ==
  ASSUME JobConstants, JobsInv, NEW id \in Kinds \union Invites, waiting' = waiting \union {Job(id)},
         queued < MaxJobs, queued' = queued + 1, known' \subseteq Occurrences \union Invites,
         UNCHANGED <<today, processing, rows, drafts, invite, invited, stalled>>
  PROVE  JobsInv'
<1>1. queued \in 0..MaxJobs /\ MaxJobs \in Nat
  BY DEF JobsInv, JobsTyped, JobsTypeOK, JobConstants
<1>2. Job(id) \in [id : Kinds \union Invites, nr : 0..MaxJobs, stalls : 0..1] /\ queued' \in 0..MaxJobs
  BY <1>1 DEF Job
<1>3. JobsTypeOK'
  BY <1>2 DEF JobsInv, JobsTyped, JobsTypeOK
<1>4. Mailed'
  BY DEF JobsInv, Mailed
<1> QED BY <1>3, <1>4, WorkersUntouched

LEMMA EnqueueKept == ASSUME JobConstants, JobsInv, Enqueue PROVE JobsInv'
<1>1. PICK id \in (Occurrences \union Invites) \ known :
        waiting' = waiting \union {Job(id)} /\ known' = known \union {id}
  BY DEF Enqueue
<1>2. known' \subseteq Occurrences \union Invites
  BY <1>1 DEF JobsInv, JobsTyped, JobsTypeOK
<1> QED BY <1>1, <1>2, JobAdded DEF Enqueue, Kinds

LEMMA RepeatKept == ASSUME JobConstants, JobsInv, Repeat PROVE JobsInv'
<1>1. PICK k \in Repeating : waiting' = waiting \union {Job(k)}
  BY DEF Repeat
<1>2. known' \subseteq Occurrences \union Invites
  BY DEF Repeat, JobsInv, JobsTyped, JobsTypeOK
<1> QED BY <1>1, <1>2, JobAdded DEF Repeat, Kinds

LEMMA TakeKept == ASSUME JobConstants, JobsInv, NEW w \in Consumers, Take(w) PROVE JobsInv'
<1>1. PICK j \in waiting, a \in [rows : SUBSET Operators, drafts : SUBSET Operators] :
        /\ a \in Audience(j.id)
        /\ waiting' = waiting \ {j}
        /\ processing' = [processing EXCEPT ![w] =
             [at |-> FirstStep(j.id), job |-> j, since |-> WindowStart(j.id, today), who |-> Nobody,
              todo |-> IF j.id \in Invites THEN {} ELSE Operators,
              toRow |-> a.rows, toDraft |-> a.drafts]]
  BY DEF Take, Audience
<1> DEFINE r == [at |-> FirstStep(j.id), job |-> j, since |-> WindowStart(j.id, today), who |-> Nobody,
                 todo |-> IF j.id \in Invites THEN {} ELSE Operators,
                 toRow |-> a.rows, toDraft |-> a.drafts]
<1>2. /\ j \in [id : Kinds \union Invites, nr : 0..MaxJobs, stalls : 0..1] /\ today \in CalendarDays
      /\ WindowStart(j.id, today) \in CalendarDays /\ MaxJobs \in Nat
  BY WindowBegins DEF JobsInv, JobsTyped, JobsTypeOK, JobConstants
<1>3. a.rows \subseteq Operators /\ a.drafts \subseteq Operators /\ (IsDigest(j.id) => a.rows = a.drafts)
  BY <1>1 DEF Audience
<1>4. r \in RunRows
  BY <1>2, <1>3 DEF RunRows, Steps, FirstStep
<1>5. Fits(r) /\ Tells(r) /\ r.at \notin {"row", "draft"}
  <2>1. WindowStart(j.id, today) <= WindowStart(j.id, today)
    BY <1>2 DEF CalendarDays, JobConstants
  <2> HIDE DEF WindowStart
  <2> QED BY <1>2, <1>3, <2>1 DEF Fits, Tells, FirstStep, Kinds
<1>6. processing' = [processing EXCEPT ![w] = r]
  BY <1>1
<1> HIDE DEF r
<1>7. JobsTypeOK'
  BY <1>1 DEF Take, JobsInv, JobsTyped, JobsTypeOK
<1> QED BY <1>4, <1>5, <1>6, <1>7, SilentStep DEF Take

LEMMA StallKept == ASSUME JobConstants, JobsInv, NEW w \in Consumers, Stall(w) PROVE JobsInv'
<1> DEFINE j == processing[w].job
           lost == [processing[w].job EXCEPT !.stalls = 1]
           s == [processing[w] EXCEPT !.job = lost]
<1>1. /\ processing[w] \in RunRows /\ Fits(processing[w]) /\ Tells(processing[w]) /\ processing[w].at # "free"
      /\ UNCHANGED <<today, known, rows, drafts, invite, invited, queued>>
  BY WorkerRow DEF Stall
<1>2. /\ j \in [id : Kinds \union Invites \union {"none"}, nr : 0..MaxJobs, stalls : 0..1]
      /\ j.id \in Kinds \union Invites
  BY <1>1 DEF RunRows, Steps, Fits, Kinds
<1>3. PICK r \in {Free, s} :
        /\ processing' = [processing EXCEPT ![w] = r]
        /\ waiting' = waiting \/ waiting' = waiting \union {lost}
  BY DEF Stall, JobsInv, JobsTyped
<1>4. /\ lost \in [id : Kinds \union Invites \union {"none"}, nr : 0..MaxJobs, stalls : 0..1]
      /\ lost.id = j.id /\ lost.nr = j.nr /\ lost.stalls = 1
  BY <1>2
<1> HIDE DEF lost
<1>5. /\ s \in RunRows /\ s.at = processing[w].at /\ s.job = lost /\ s.since = processing[w].since
      /\ s.who = processing[w].who /\ s.toRow = processing[w].toRow /\ s.toDraft = processing[w].toDraft
  BY <1>1, <1>4 DEF RunRows
<1>6. Fits(s) /\ Tells(s)
  BY <1>1, <1>4, <1>5 DEF Fits, Tells
<1> HIDE DEF s
<1>7. stalled' \in 0..MaxStalls
  BY DEF Stall, JobsInv, JobsTyped, JobsTypeOK, JobConstants
<1>8. r \in RunRows /\ Fits(r) /\ Tells(r)
  BY <1>5, <1>6, FreeTyped
<1>9. r.at \in {"row", "draft"} =>
        /\ r.at = processing[w].at /\ r.who = processing[w].who /\ r.job.id = processing[w].job.id
        /\ r.toRow = processing[w].toRow /\ r.toDraft = processing[w].toDraft
  BY <1>4, <1>5 DEF Free
<1>10. JobsTypeOK'
  BY <1>1, <1>2, <1>3, <1>4, <1>7, WorkerRow DEF JobsTypeOK
<1> QED BY <1>1, <1>3, <1>8, <1>9, <1>10, SilentStep

LEMMA InviteMovesKept == ASSUME JobConstants, JobsInv, InviteMoves PROVE JobsInv'
<1>1. PICK i \in Invites :
        \/ invite' = [invite EXCEPT ![i].status = "revoked"]
        \/ invite' = [invite EXCEPT ![i].status = "accepted"]
        \/ invite' = [invite EXCEPT ![i].lapsed = TRUE]
  BY DEF InviteMoves
<1>2. UNCHANGED <<today, waiting, known, processing, rows, drafts, invited, queued, stalled>>
  BY DEF InviteMoves
<1>3. JobsTyped' /\ \A n \in Invites : invite'[n].channel = invite[n].channel
  <2> DEFINE rowOf == [status : {"pending", "accepted", "revoked", "expired"}, lapsed : BOOLEAN,
                       channel : {"none", "gmail_draft", "failed"}]
  <2>1. invite \in [Invites -> rowOf]
    BY DEF JobsInv, JobsTyped, JobsTypeOK
  <2>2. PICK row \in rowOf : invite' = [invite EXCEPT ![i] = row] /\ row.channel = invite[i].channel
    <3>1. /\ [invite[i] EXCEPT !.status = "revoked"] \in rowOf
          /\ [invite[i] EXCEPT !.status = "accepted"] \in rowOf
          /\ [invite[i] EXCEPT !.lapsed = TRUE] \in rowOf
      BY <2>1
    <3>2. CASE invite' = [invite EXCEPT ![i].status = "revoked"]
      <4>1. [invite[i] EXCEPT !.status = "revoked"].channel = invite[i].channel
        BY <2>1
      <4>2. invite' = [invite EXCEPT ![i] = [invite[i] EXCEPT !.status = "revoked"]]
        BY <2>1, <3>2
      <4> QED BY <3>1, <4>1, <4>2
    <3>3. CASE invite' = [invite EXCEPT ![i].status = "accepted"]
      <4>1. [invite[i] EXCEPT !.status = "accepted"].channel = invite[i].channel
        BY <2>1
      <4>2. invite' = [invite EXCEPT ![i] = [invite[i] EXCEPT !.status = "accepted"]]
        BY <2>1, <3>3
      <4> QED BY <3>1, <4>1, <4>2
    <3>4. CASE invite' = [invite EXCEPT ![i].lapsed = TRUE]
      <4>1. [invite[i] EXCEPT !.lapsed = TRUE].channel = invite[i].channel
        BY <2>1
      <4>2. invite' = [invite EXCEPT ![i] = [invite[i] EXCEPT !.lapsed = TRUE]]
        BY <2>1, <3>4
      <4> QED BY <3>1, <4>1, <4>2
    <3> QED BY <1>1, <3>2, <3>3, <3>4
  <2> HIDE DEF rowOf
  <2>3. invite' \in [Invites -> rowOf] /\ \A n \in Invites : invite'[n].channel = invite[n].channel
    BY <2>1, <2>2
  <2> QED BY <1>2, <2>3 DEF rowOf, JobsInv, JobsTyped, JobsTypeOK
<1>4. Mailed'
  BY <1>2, <1>3 DEF JobsInv, Mailed
<1> QED BY <1>2, <1>3, <1>4, WorkersUntouched DEF JobsTyped

LEMMA DayEndsKept == ASSUME JobConstants, JobsInv, DayEnds PROVE JobsInv'
<1>1. /\ today \in CalendarDays /\ today' \in CalendarDays /\ today' = today + 1
      /\ UNCHANGED <<waiting, known, processing, rows, drafts, invite, invited, queued, stalled>>
  BY DEF DayEnds, JobsInv, JobsTyped, JobsTypeOK, CalendarDays, JobConstants
<1>2. \A k : WindowStart(k, today) <= WindowStart(k, today') /\ WindowStart(k, today) \in Int /\ WindowStart(k, today') \in Int
  BY <1>1, WindowBegins DEF CalendarDays, JobConstants
<1>3. StepsFit'
  <2> SUFFICES ASSUME NEW w \in Consumers PROVE Fits(processing[w])'
    BY DEF StepsFit
  <2>1. Fits(processing[w]) /\ processing[w].since \in Int
    BY DEF JobsInv, JobsTyped, StepsFit, RunRows, CalendarDays
  <2>2. processing[w].since <= WindowStart(processing[w].job.id, today) =>
          processing[w].since <= WindowStart(processing[w].job.id, today')
    BY <1>2, <2>1
  <2>3. WindowStart(processing[w].job.id, today)' = WindowStart(processing[w].job.id, today')
    BY <1>1 DEF WindowStart, WeekOf
  <2> QED BY <1>1, <2>1, <2>2, <2>3 DEF Fits
<1>4. JobsTyped' /\ Telling' /\ Mailed'
  BY <1>1 DEF JobsInv, JobsTyped, JobsTypeOK, Telling, Tells, Mailed
<1>5. NoneAhead(rows, today')
  BY <1>1 DEF JobsInv, Counted, NoneAhead, CalendarDays
<1>6. RoomFor(rows, processing, today')
  <2> SUFFICES ASSUME NEW o \in Operators, NEW k \in Repeating
               PROVE  CountOver(rows, o, k, WindowDays(k, today')) + Cardinality(Rowers(processing, o, k))
                        <= Cardinality(Consumers)
    BY DEF RoomFor
  <2>1. CountOver(rows, o, k, WindowDays(k, today)) + Cardinality(Rowers(processing, o, k)) <= Cardinality(Consumers)
    BY DEF JobsInv, Counted, RoomFor
  <2>2. CASE WindowStart(k, today') = WindowStart(k, today)
    <3>1. WindowDays(k, today') = WindowDays(k, today)
      BY <2>2 DEF WindowDays
    <3> QED BY <2>1, <3>1
  <2>3. CASE WindowStart(k, today') # WindowStart(k, today)
    <3>1. ASSUME NEW e \in WindowDays(k, today') PROVE rows[<<o, k, e>>] = 0
      <4>1. e \in CalendarDays /\ WindowStart(k, e) = WindowStart(k, today')
        BY <3>1 DEF WindowDays
      <4>2. ~(e <= today)
        <5>1. e <= today => WindowStart(k, e) <= WindowStart(k, today)
          BY <1>1, <4>1, WindowBegins
        <5> QED BY <1>2, <2>3, <4>1, <5>1
      <4>3. e > today
        BY <1>1, <4>1, <4>2 DEF CalendarDays
      <4> QED BY <4>1, <4>3 DEF JobsInv, Counted, NoneAhead
    <3>2. rows \in Told /\ k \in Kinds /\ WindowDays(k, today') \in SUBSET CalendarDays
      BY RepeatingKinds DEF JobsInv, JobsTyped, JobsTypeOK, Told, WindowDays
    <3>3. CountOver(rows, o, k, WindowDays(k, today')) = 0
      BY <3>1, <3>2, CountNone
    <3>4. Rowers(processing, o, k) \in SUBSET Consumers
      BY DEF Rowers
    <3> QED BY <3>3, <3>4, WorkersCounted
  <2> QED BY <2>2, <2>3
<1>7. Counted(rows, drafts, processing, today)'
  <2>1. RoomIn(rows) /\ DraftsFollow(rows, drafts, processing)
    BY DEF JobsInv, Counted
  <2>2. RoomIn(rows)' /\ DraftsFollow(rows, drafts, processing)'
    BY <1>1, <2>1 DEF RoomIn, DraftsFollow, CountOver, Drafters, WindowDays, WindowStart, WeekOf
  <2>3. RoomFor(rows, processing, today)' /\ NoneAhead(rows, today)'
    BY <1>1, <1>5, <1>6 DEF RoomFor, NoneAhead, CountOver, Rowers, WindowDays, WindowStart, WeekOf
  <2> QED BY <2>2, <2>3 DEF Counted
<1> QED BY <1>3, <1>4, <1>7 DEF JobsInv

-----------------------------------------------------------------------------
(* The steps of the processor *)

LEMMA DaysTold ==
  ASSUME JobsInv
  PROVE  /\ rows \in Told /\ drafts \in Told /\ today \in CalendarDays
         /\ \A w \in Consumers : processing[w] \in RunRows /\ Fits(processing[w]) /\ Tells(processing[w])
         /\ \A k, d : WindowDays(k, d) \in SUBSET CalendarDays
BY DEF JobsInv, JobsTyped, JobsTypeOK, Told, StepsFit, Telling, WindowDays

LEMMA RowsAdded ==
  ASSUME JobConstants, JobsInv, NEW S, NEW k \in Kinds, AddRow(S, k)
  PROVE  /\ rows' \in Told
         /\ \A o \in Operators, l \in Kinds, d \in CalendarDays :
              rows'[<<o, l, d>>] = rows[<<o, l, d>>] + (IF o \in S /\ l = k /\ d = today THEN 1 ELSE 0)
<1>1. rows \in Told
  BY DaysTold
<1>2. rows' = [x \in Operators \X Kinds \X CalendarDays |->
                 rows[x] + (IF x[1] \in S /\ x[2] = k /\ x[3] = today THEN 1 ELSE 0)]
  BY <1>1 DEF AddRow, Told
<1> QED BY <1>1, <1>2 DEF Told

LEMMA DraftAdded ==
  ASSUME JobConstants, JobsInv, NEW a \in Operators, NEW k \in Kinds, AddDraft(a, k)
  PROVE  /\ drafts' \in Told
         /\ \/ \A o \in Operators, l \in Kinds, d \in CalendarDays :
                 drafts'[<<o, l, d>>] = drafts[<<o, l, d>>] + (IF o = a /\ l = k /\ d = today THEN 1 ELSE 0)
            \/ drafts' = drafts
<1>1. drafts \in Told /\ today \in CalendarDays
  BY DaysTold
<1> QED BY <1>1 DEF AddDraft, Told

\* Rows and drafts of a notice that is not repeated are not counted.
LEMMA NoticeStep ==
  ASSUME JobConstants, JobsInv, NEW w \in Consumers, NEW r \in RunRows,
         processing' = [processing EXCEPT ![w] = r], Fits(r),
         r.at \in {"rows", "mail", "free"}, rows' \in Told, drafts' \in Told,
         \A k \in Repeating : Unmoved(k), UNCHANGED <<today, waiting, known, invite, invited, queued, stalled>>
  PROVE  JobsInv'
<1>1. JobsTypeOK'
  BY DEF JobsInv, JobsTyped, JobsTypeOK, Told
<1>2. \A i \in Invites : invited'[i] >= invited[i]
  BY DEF JobsInv, JobsTyped, JobsTypeOK
<1>3. Tells(r)' /\ Mailed'
  BY DEF Tells, JobsInv, Mailed
<1> QED BY <1>1, <1>2, <1>3, QuietStep

LEMMA CreateRowsKept == ASSUME JobConstants, JobsInv, NEW w \in Consumers, CreateRows(w) PROVE JobsInv'
<1>1. processing[w] \in RunRows /\ Fits(processing[w]) /\ processing[w].at = "rows" /\ processing[w].job.id \in Occurrences
  BY DaysTold DEF CreateRows, Fits
<1>2. PICK r \in RunRows :
        /\ \E S : AddRow(S, processing[w].job.id)
        /\ processing' = [processing EXCEPT ![w] = r]
        /\ r = [processing[w] EXCEPT !.at = "mail"] \/ r = Free
  <2>1. [processing[w] EXCEPT !.at = "mail"] \in RunRows /\ Free \in RunRows
    BY <1>1, FreeTyped DEF RunRows, Steps
  <2>2. [processing EXCEPT ![w].at = "mail"] = [processing EXCEPT ![w] = [processing[w] EXCEPT !.at = "mail"]]
    BY DEF JobsInv, JobsTyped
  <2>3. CASE AddRow(processing[w].toRow, processing[w].job.id) /\ processing' = [processing EXCEPT ![w].at = "mail"]
    BY <2>1, <2>2, <2>3
  <2>4. CASE \E S \in SUBSET processing[w].toRow :
               AddRow(S, processing[w].job.id) /\ processing' = [processing EXCEPT ![w] = Free]
    BY <2>1, <2>4
  <2> QED BY <2>3, <2>4 DEF CreateRows
<1>3. Fits(r) /\ r.at \in {"mail", "free"}
  <2>1. CASE r = Free
    BY <2>1, FreeTyped DEF Free
  <2>2. CASE r = [processing[w] EXCEPT !.at = "mail"]
    <3>1. /\ r.at = "mail" /\ r.job = processing[w].job /\ r.since = processing[w].since
          /\ r.toRow = processing[w].toRow /\ r.toDraft = processing[w].toDraft
      BY <1>1, <2>2 DEF RunRows
    <3> QED BY <1>1, <3>1 DEF Fits
  <2> QED BY <1>2, <2>1, <2>2
<1>4. processing[w].job.id \in Kinds /\ processing[w].job.id \notin Repeating
  BY <1>1, RepeatingKinds DEF Kinds
<1>5. rows' \in Told /\ \A k \in Repeating : Unmoved(k)
  BY <1>2, <1>4, RowsAdded, RepeatingKinds, DaysTold DEF Unmoved, CreateRows, Told
<1> QED BY <1>2, <1>3, <1>5, NoticeStep, DaysTold DEF CreateRows

LEMMA MailNextKept == ASSUME JobConstants, JobsInv, NEW w \in Consumers, MailNext(w) PROVE JobsInv'
<1>1. processing[w] \in RunRows /\ Fits(processing[w]) /\ processing[w].at = "mail" /\ processing[w].job.id \in Occurrences
  BY DaysTold DEF MailNext, Fits
<1>2. PICK o \in processing[w].toDraft :
        /\ AddDraft(o, processing[w].job.id)
        /\ processing' = [processing EXCEPT ![w].toDraft = @ \ {o}]
  BY DEF MailNext
<1> DEFINE r == [processing[w] EXCEPT !.toDraft = @ \ {o}]
<1>3. o \in Operators
  BY <1>1 DEF RunRows
<1>4. processing[w].job.id \in Kinds /\ processing[w].job.id \notin Repeating /\ ~IsDigest(processing[w].job.id)
  BY <1>1, RepeatingKinds DEF Kinds, IsDigest, JobConstants, RepeatingJobs
<1>5. r \in RunRows /\ r.at = "mail" /\ r.job = processing[w].job /\ r.since = processing[w].since
  BY <1>1 DEF RunRows
<1>6. Fits(r)
  BY <1>1, <1>4, <1>5 DEF Fits
<1>7. processing' = [processing EXCEPT ![w] = r]
  BY <1>2 DEF JobsInv, JobsTyped
<1>8. drafts' \in Told /\ \A k \in Repeating : Unmoved(k)
  <2>1. drafts' \in Told /\ rows' = rows
    BY <1>2, <1>3, <1>4, DraftAdded DEF MailNext
  <2>2. \A a \in Operators, k \in Repeating, d \in CalendarDays : drafts'[<<a, k, d>>] = drafts[<<a, k, d>>]
    <3>1. \A k \in Repeating : k \in Kinds /\ k # processing[w].job.id
      BY <1>4, RepeatingKinds
    <3>2. \A a \in Operators, k \in Kinds, d \in CalendarDays : drafts[<<a, k, d>>] \in Nat
      BY DaysTold DEF Told
    <3>3. \/ \A a \in Operators, l \in Kinds, d \in CalendarDays :
               drafts'[<<a, l, d>>] = drafts[<<a, l, d>>]
                                        + (IF a = o /\ l = processing[w].job.id /\ d = today THEN 1 ELSE 0)
          \/ drafts' = drafts
      BY <1>2, <1>3, <1>4, DraftAdded
    <3> SUFFICES ASSUME NEW a \in Operators, NEW k \in Repeating, NEW d \in CalendarDays
                 PROVE  drafts'[<<a, k, d>>] = drafts[<<a, k, d>>]
      OBVIOUS
    <3>4. k \in Kinds /\ k # processing[w].job.id /\ drafts[<<a, k, d>>] \in Nat
      BY <3>1, <3>2
    <3>5. CASE drafts' # drafts
      BY <3>3, <3>4, <3>5
    <3> QED BY <3>5
  <2> QED BY <2>1, <2>2 DEF Unmoved
<1> HIDE DEF r
<1> QED BY <1>5, <1>6, <1>7, <1>8, NoticeStep, DaysTold DEF MailNext

\* A worker that is done with its job is free.
LEMMA PutDown ==
  ASSUME JobConstants, JobsInv, NEW w \in Consumers, processing' = [processing EXCEPT ![w] = Free],
         UNCHANGED <<today, waiting, known, rows, drafts, invite, invited, queued, stalled>>
  PROVE  JobsInv'
<1>1. Free \in RunRows /\ Fits(Free) /\ Tells(Free) /\ Free.at \notin {"row", "draft"}
  BY FreeTyped DEF Free
<1>2. JobsTypeOK'
  BY DEF JobsInv, JobsTyped, JobsTypeOK
<1> QED BY <1>1, <1>2, SilentStep

LEMMA NextRecipientKept == ASSUME JobConstants, JobsInv, NEW w \in Consumers, NextRecipient(w) PROVE JobsInv'
<1>1. processing[w] \in RunRows /\ Fits(processing[w]) /\ processing[w].at = "next" /\ processing[w].job.id \in Repeating
  BY DaysTold DEF NextRecipient, Fits
<1>2. PICK o \in processing[w].todo, empty \in BOOLEAN :
        LET tell == Wanted(w, o) /\ ~AlreadyTold(w, o) /\ ~empty
        IN  /\ empty => IsDigest(processing[w].job.id)
            /\ processing' = [processing EXCEPT ![w] =
                 [processing[w] EXCEPT !.todo = @ \ {o},
                           !.at = IF tell THEN "row" ELSE "next",
                           !.who = IF tell THEN o ELSE Nobody]]
  BY Zenon DEF NextRecipient
<1> DEFINE tell == Wanted(w, o) /\ ~AlreadyTold(w, o) /\ ~empty
<1>3. o \in Operators
  BY <1>1 DEF RunRows
<1>11. [processing[w] EXCEPT !.todo = @ \ {o}, !.at = IF tell THEN "row" ELSE "next",
                             !.who = IF tell THEN o ELSE Nobody] \in RunRows
  BY <1>1, <1>3 DEF RunRows, Steps
<1>12. PICK r \in RunRows :
         r = [processing[w] EXCEPT !.todo = @ \ {o}, !.at = IF tell THEN "row" ELSE "next",
                                   !.who = IF tell THEN o ELSE Nobody]
  BY <1>11
<1>4. /\ r \in RunRows /\ r.at = (IF tell THEN "row" ELSE "next") /\ r.job = processing[w].job
      /\ r.since = processing[w].since /\ r.toRow = processing[w].toRow /\ r.toDraft = processing[w].toDraft
      /\ r.who = (IF tell THEN o ELSE Nobody)
  BY <1>1, <1>12 DEF RunRows
<1>5. processing' = [processing EXCEPT ![w] = r]
  BY <1>2, <1>12
<1>6. Fits(r)
  BY <1>1, <1>4 DEF Fits
<1>7. Tells(r) /\ JobsTypeOK'
  BY <1>3, <1>4 DEF NextRecipient, Tells, JobsInv, JobsTyped, JobsTypeOK
<1>8. UNCHANGED <<today, rows, drafts, invite, invited>>
  BY DEF NextRecipient
<1>9. CASE ~tell
  BY <1>4, <1>5, <1>6, <1>7, <1>8, <1>9, SilentStep
<1>10. CASE tell
  <2> DEFINE k == processing[w].job.id
  <2>1. r.at = "row" /\ r.who = o /\ r.job.id = k /\ k \in Repeating /\ k \in Kinds
    BY <1>1, <1>4, <1>10, RepeatingKinds
  <2>2. processing'[w] = r /\ \A v \in Consumers \ {w} : processing'[v] = processing[v]
    BY <1>5 DEF JobsInv, JobsTyped
  <2>3. ~HasRowSince(o, k, processing[w].since)
    BY <1>10 DEF AlreadyTold
  <2> HIDE DEF tell, k
  <2>4. \A e \in WindowDays(k, today) : rows[<<o, k, e>>] = 0
    <3> SUFFICES ASSUME NEW e \in WindowDays(k, today) PROVE rows[<<o, k, e>>] = 0
      OBVIOUS
    <3>1. e \in CalendarDays /\ WindowStart(k, e) = WindowStart(k, today)
      BY DEF WindowDays
    <3>2. WindowStart(k, e) <= e /\ WindowStart(k, e) \in CalendarDays
      BY <3>1, WindowBegins
    <3>3. processing[w].since <= WindowStart(k, today) /\ processing[w].since \in CalendarDays
      BY <1>1 DEF Fits, RunRows, k
    <3>4. e >= processing[w].since
      BY <3>1, <3>2, <3>3 DEF CalendarDays
    <3>5. ~(rows[<<o, k, e>>] > 0) /\ rows[<<o, k, e>>] \in Nat
      BY <1>3, <2>1, <2>3, <3>1, <3>4, DaysTold DEF HasRowSince, Told
    <3> QED BY <3>5
  <2>5. CountOver(rows, o, k, WindowDays(k, today)) = 0
    BY <1>3, <2>1, <2>4, CountNone, DaysTold
  <2>6. \A a, l : /\ Rowers(processing', a, l) \in SUBSET Consumers
                  /\ ~(a = o /\ l = k) => Rowers(processing', a, l) \subseteq Rowers(processing, a, l)
                  /\ Drafters(processing', a, l) \subseteq Drafters(processing, a, l)
                  /\ Rowers(processing, a, l) \in SUBSET Consumers /\ Drafters(processing, a, l) \in SUBSET Consumers
    BY <2>1, <2>2 DEF Rowers, Drafters
  <2>7. RoomFor(rows, processing', today)
    <3> SUFFICES ASSUME NEW a \in Operators, NEW l \in Repeating
                 PROVE  CountOver(rows, a, l, WindowDays(l, today)) + Cardinality(Rowers(processing', a, l))
                          <= Cardinality(Consumers)
      BY DEF RoomFor
    <3>1. CASE a = o /\ l = k
      <4>1. Cardinality(Rowers(processing', a, l)) \in Nat
            /\ Cardinality(Rowers(processing', a, l)) <= Cardinality(Consumers)
        BY <2>6, WorkersCounted
      <4> QED BY <2>5, <3>1, <4>1
    <3>2. CASE ~(a = o /\ l = k)
      <4>1. /\ Cardinality(Rowers(processing', a, l)) <= Cardinality(Rowers(processing, a, l))
            /\ Cardinality(Rowers(processing', a, l)) \in Nat /\ Cardinality(Rowers(processing, a, l)) \in Nat
            /\ Cardinality(Consumers) \in Nat
        BY <2>6, <3>2, WorkersCounted
      <4>2. CountOver(rows, a, l, WindowDays(l, today)) \in Nat
        BY CountTyped, RepeatingKinds, DaysTold
      <4>3. CountOver(rows, a, l, WindowDays(l, today)) + Cardinality(Rowers(processing, a, l)) <= Cardinality(Consumers)
        BY DEF JobsInv, Counted, RoomFor
      <4> QED BY <4>1, <4>2, <4>3
    <3> QED BY <3>1, <3>2
  <2>8. DraftsFollow(rows, drafts, processing')
    <3> SUFFICES ASSUME NEW a \in Operators, NEW l \in Repeating, IsDigest(l)
                 PROVE  CountOver(drafts, a, l, CalendarDays) + Cardinality(Drafters(processing', a, l))
                          <= CountOver(rows, a, l, CalendarDays)
      BY DEF DraftsFollow
    <3>1. /\ Cardinality(Drafters(processing', a, l)) <= Cardinality(Drafters(processing, a, l))
          /\ Cardinality(Drafters(processing', a, l)) \in Nat /\ Cardinality(Drafters(processing, a, l)) \in Nat
      BY <2>6, WorkersCounted
    <3>2. CountOver(drafts, a, l, CalendarDays) \in Nat /\ CountOver(rows, a, l, CalendarDays) \in Nat
      BY CountTyped, RepeatingKinds, DaysTold
    <3>3. CountOver(drafts, a, l, CalendarDays) + Cardinality(Drafters(processing, a, l))
            <= CountOver(rows, a, l, CalendarDays)
      BY DEF JobsInv, Counted, DraftsFollow
    <3> QED BY <3>1, <3>2, <3>3
  <2>9. Counted(rows', drafts', processing', today')
    BY <1>8, <2>7, <2>8 DEF JobsInv, Counted
  <2>10. Tells(r)' /\ Mailed' /\ \A i \in Invites : invited'[i] >= invited[i]
    BY <1>7, <1>8 DEF Tells, JobsInv, Mailed, JobsTyped, JobsTypeOK
  <2> QED BY <1>4, <1>5, <1>6, <1>7, <1>8, <2>9, <2>10, WorkerStep
<1> QED BY <1>9, <1>10

LEMMA EventDoneKept == ASSUME JobConstants, JobsInv, NEW w \in Consumers, EventDone(w) PROVE JobsInv'
BY PutDown DEF EventDone

LEMMA ScanDoneKept == ASSUME JobConstants, JobsInv, NEW w \in Consumers, ScanDone(w) PROVE JobsInv'
BY PutDown DEF ScanDone

\* What a row for `a` about k, made today, adds to the counts.
LEMMA RowCounted ==
  ASSUME JobConstants, JobsInv, NEW a \in Operators, NEW k \in Repeating, NEW S \in SUBSET {a}, AddRow(S, k)
  PROVE  /\ rows' \in Told
         /\ \A o \in Operators, l \in Repeating, W \in SUBSET CalendarDays :
              ~(o \in S /\ l = k /\ today \in W) => CountOver(rows', o, l, W) = CountOver(rows, o, l, W)
         /\ \A W \in SUBSET CalendarDays :
              a \in S /\ today \in W => CountOver(rows', a, k, W) = CountOver(rows, a, k, W) + 1
         /\ NoneAhead(rows', today)
<1>1. /\ rows \in Told /\ rows' \in Told /\ today \in CalendarDays /\ k \in Kinds
      /\ \A o \in Operators, l \in Kinds, d \in CalendarDays :
           rows'[<<o, l, d>>] = rows[<<o, l, d>>] + (IF o \in S /\ l = k /\ d = today THEN 1 ELSE 0)
      /\ \A o \in Operators, l \in Kinds, d \in CalendarDays : rows[<<o, l, d>>] \in Nat
  BY RowsAdded, RepeatingKinds, DaysTold DEF Told
<1>2. \A o \in Operators, l \in Repeating, W \in SUBSET CalendarDays :
        ~(o \in S /\ l = k /\ today \in W) => CountOver(rows', o, l, W) = CountOver(rows, o, l, W)
  <2> SUFFICES ASSUME NEW o \in Operators, NEW l \in Repeating, NEW W \in SUBSET CalendarDays,
                      ~(o \in S /\ l = k /\ today \in W)
               PROVE  CountOver(rows', o, l, W) = CountOver(rows, o, l, W)
    OBVIOUS
  <2>1. l \in Kinds
    BY RepeatingKinds
  <2>2. \A d \in W : rows'[<<o, l, d>>] = rows[<<o, l, d>>]
    BY <1>1, <2>1
  <2> QED BY <2>2, CountSame
<1>3. \A W \in SUBSET CalendarDays : a \in S /\ today \in W => CountOver(rows', a, k, W) = CountOver(rows, a, k, W) + 1
  <2> SUFFICES ASSUME NEW W \in SUBSET CalendarDays, a \in S, today \in W
               PROVE  CountOver(rows', a, k, W) = CountOver(rows, a, k, W) + 1
    OBVIOUS
  <2>1. rows'[<<a, k, today>>] = rows[<<a, k, today>>] + 1 /\ \A d \in W \ {today} : rows'[<<a, k, d>>] = rows[<<a, k, d>>]
    BY <1>1
  <2> QED BY <1>1, <2>1, CountOneMore
<1>4. NoneAhead(rows', today)
  <2> SUFFICES ASSUME NEW o \in Operators, NEW l \in Repeating, NEW d \in CalendarDays, d > today
               PROVE  rows'[<<o, l, d>>] = 0
    BY DEF NoneAhead
  <2>1. l \in Kinds /\ d # today
    BY <1>1, RepeatingKinds DEF CalendarDays
  <2>2. rows[<<o, l, d>>] = 0
    BY DEF JobsInv, Counted, NoneAhead
  <2> QED BY <1>1, <2>1, <2>2
<1> QED BY <1>1, <1>2, <1>3, <1>4

LEMMA RecipientRowKept == ASSUME JobConstants, JobsInv, NEW w \in Consumers, RecipientRow(w) PROVE JobsInv'
<1>1. /\ processing[w] \in RunRows /\ Fits(processing[w]) /\ Tells(processing[w]) /\ processing[w].at = "row"
      /\ UNCHANGED <<today, waiting, known, drafts, invite, invited, queued, stalled>>
  BY DaysTold DEF RecipientRow
<1>2. CASE processing' = [processing EXCEPT ![w] = Free] /\ UNCHANGED rows
  BY <1>1, <1>2, PutDown
<1>3. CASE AddRow({processing[w].who} \intersect processing[w].toRow, processing[w].job.id)
           /\ processing' = [processing EXCEPT ![w].at = "draft"]
  <2>1. PICK a \in Operators, k \in Repeating : a = processing[w].who /\ k = processing[w].job.id
    BY <1>1 DEF Fits, Tells
  <2>2. PICK r \in RunRows : r = [processing[w] EXCEPT !.at = "draft"]
    BY <1>1 DEF RunRows, Steps
  <2>3. processing' = [processing EXCEPT ![w] = r]
    BY <1>3, <2>2 DEF JobsInv, JobsTyped
  <2>4. /\ r.at = "draft" /\ r.job = processing[w].job /\ r.since = processing[w].since /\ r.who = a
        /\ r.toRow = processing[w].toRow /\ r.toDraft = processing[w].toDraft
    BY <1>1, <2>1, <2>2 DEF RunRows
  <2>5. PICK S \in SUBSET {a} : S = {a} \intersect r.toRow /\ AddRow(S, k)
    BY <1>3, <2>1, <2>4
  <2>6. /\ rows' \in Told /\ rows \in Told /\ drafts \in Told /\ k \in Kinds /\ today \in CalendarDays
        /\ \A o \in Operators, l \in Repeating, W \in SUBSET CalendarDays :
             ~(o \in S /\ l = k /\ today \in W) => CountOver(rows', o, l, W) = CountOver(rows, o, l, W)
        /\ \A W \in SUBSET CalendarDays :
             a \in S /\ today \in W => CountOver(rows', a, k, W) = CountOver(rows, a, k, W) + 1
        /\ NoneAhead(rows', today)
    BY <2>5, RowCounted, RepeatingKinds, DaysTold
  <2>7. \A o \in Operators, l \in Repeating, W \in SUBSET CalendarDays :
          /\ CountOver(rows, o, l, W) \in Nat /\ CountOver(drafts, o, l, W) \in Nat
          /\ CountOver(rows', o, l, W) \in Nat
    BY <2>6, CountTyped, RepeatingKinds
  <2>8. /\ processing'[w] = r /\ \A v \in Consumers \ {w} : processing'[v] = processing[v]
    BY <2>3 DEF JobsInv, JobsTyped
  <2>9. \A o, l : /\ Rowers(processing, o, l) \in SUBSET Consumers
                  /\ Rowers(processing', o, l) \subseteq Rowers(processing, o, l)
                  /\ o \in S /\ l = k => /\ w \in Rowers(processing, o, l)
                                         /\ Rowers(processing', o, l) = Rowers(processing, o, l) \ {w}
                  /\ Drafters(processing, o, l) \in SUBSET Consumers
                  /\ Drafters(processing', o, l) \subseteq Drafters(processing, o, l) \union {w}
                  /\ ~(o = a /\ l = k /\ a \in r.toDraft) =>
                       Drafters(processing', o, l) \subseteq Drafters(processing, o, l)
    <3> SUFFICES ASSUME NEW o, NEW l
                 PROVE  /\ Rowers(processing, o, l) \in SUBSET Consumers
                        /\ Rowers(processing', o, l) \subseteq Rowers(processing, o, l)
                        /\ o \in S /\ l = k => /\ w \in Rowers(processing, o, l)
                                               /\ Rowers(processing', o, l) = Rowers(processing, o, l) \ {w}
                        /\ Drafters(processing, o, l) \in SUBSET Consumers
                        /\ Drafters(processing', o, l) \subseteq Drafters(processing, o, l) \union {w}
                        /\ ~(o = a /\ l = k /\ a \in r.toDraft) =>
                             Drafters(processing', o, l) \subseteq Drafters(processing, o, l)
      OBVIOUS
    <3>1. /\ Rowers(processing', o, l) = Rowers(processing, o, l) \ {w}
          /\ Rowers(processing, o, l) \in SUBSET Consumers
      BY <1>1, <2>4, <2>8 DEF Rowers
    <3>2. o \in S /\ l = k => w \in Rowers(processing, o, l)
      BY <1>1, <2>1, <2>4, <2>5 DEF Rowers
    <3>3. /\ Drafters(processing, o, l) \in SUBSET Consumers
          /\ Drafters(processing', o, l) \subseteq Drafters(processing, o, l) \union {w}
      BY <2>8 DEF Drafters
    <3>4. ~(o = a /\ l = k /\ a \in r.toDraft) => Drafters(processing', o, l) \subseteq Drafters(processing, o, l)
      BY <2>1, <2>4, <2>8 DEF Drafters
    <3> QED BY <3>1, <3>2, <3>3, <3>4
  <2>10. RoomFor(rows', processing', today)
    <3> SUFFICES ASSUME NEW o \in Operators, NEW l \in Repeating
                 PROVE  CountOver(rows', o, l, WindowDays(l, today)) + Cardinality(Rowers(processing', o, l))
                          <= Cardinality(Consumers)
      BY DEF RoomFor
    <3>1. CountOver(rows, o, l, WindowDays(l, today)) + Cardinality(Rowers(processing, o, l)) <= Cardinality(Consumers)
      BY DEF JobsInv, Counted, RoomFor
    <3>2. WindowDays(l, today) \in SUBSET CalendarDays /\ today \in WindowDays(l, today)
      BY <2>6 DEF WindowDays
    <3>3. /\ Cardinality(Rowers(processing', o, l)) \in Nat /\ Cardinality(Rowers(processing, o, l)) \in Nat
          /\ Cardinality(Rowers(processing', o, l)) <= Cardinality(Rowers(processing, o, l))
          /\ o \in S /\ l = k =>
               Cardinality(Rowers(processing', o, l)) = Cardinality(Rowers(processing, o, l)) - 1
          /\ Cardinality(Consumers) \in Nat
      BY <2>9, WorkersCounted
    <3>4. CountOver(rows, o, l, WindowDays(l, today)) \in Nat
      BY <2>7, <3>2
    <3>5. CASE o \in S /\ l = k
      <4>1. a \in S /\ o = a
        BY <3>5
      <4>2. CountOver(rows', o, l, WindowDays(l, today)) = CountOver(rows, o, l, WindowDays(l, today)) + 1
        BY <2>6, <3>2, <3>5, <4>1
      <4> QED BY <3>1, <3>3, <3>4, <3>5, <4>2
    <3>6. CASE ~(o \in S /\ l = k)
      <4>1. CountOver(rows', o, l, WindowDays(l, today)) = CountOver(rows, o, l, WindowDays(l, today))
        BY <2>6, <3>2, <3>6
      <4> QED BY <3>1, <3>3, <3>4, <4>1
    <3> QED BY <3>5, <3>6
  <2>11. RoomIn(rows')
    <3> SUFFICES ASSUME NEW o \in Operators, NEW l \in Repeating, NEW d \in CalendarDays
                 PROVE  CountOver(rows', o, l, WindowDays(l, d)) <= Cardinality(Consumers)
      BY DEF RoomIn
    <3>1. WindowDays(l, d) \in SUBSET CalendarDays /\ WindowDays(l, today) \in SUBSET CalendarDays
      BY DEF WindowDays
    <3>2. CASE today \in WindowDays(l, d)
      <4>1. WindowDays(l, d) = WindowDays(l, today)
        BY <3>2 DEF WindowDays
      <4>2. Rowers(processing', o, l) \in SUBSET Consumers
        BY <2>9
      <4>3. Cardinality(Rowers(processing', o, l)) \in Nat /\ Cardinality(Consumers) \in Nat
        BY <4>2, WorkersCounted
      <4>4. CountOver(rows', o, l, WindowDays(l, today)) + Cardinality(Rowers(processing', o, l)) <= Cardinality(Consumers)
        BY <2>10 DEF RoomFor
      <4>5. CountOver(rows', o, l, WindowDays(l, today)) \in Nat
        BY <2>7, <3>1
      <4> QED BY <4>1, <4>3, <4>4, <4>5
    <3>3. CASE today \notin WindowDays(l, d)
      <4>1. CountOver(rows', o, l, WindowDays(l, d)) = CountOver(rows, o, l, WindowDays(l, d))
        BY <2>6, <3>1, <3>3
      <4> QED BY <4>1 DEF JobsInv, Counted, RoomIn
    <3> QED BY <3>2, <3>3
  <2>12. DraftsFollow(rows', drafts, processing')
    <3> SUFFICES ASSUME NEW o \in Operators, NEW l \in Repeating, IsDigest(l)
                 PROVE  CountOver(drafts, o, l, CalendarDays) + Cardinality(Drafters(processing', o, l))
                          <= CountOver(rows', o, l, CalendarDays)
      BY DEF DraftsFollow
    <3>1. CountOver(drafts, o, l, CalendarDays) + Cardinality(Drafters(processing, o, l))
            <= CountOver(rows, o, l, CalendarDays)
      BY DEF JobsInv, Counted, DraftsFollow
    <3>2. CalendarDays \in SUBSET CalendarDays
      OBVIOUS
    <3>3. /\ Cardinality(Drafters(processing', o, l)) \in Nat /\ Cardinality(Drafters(processing, o, l)) \in Nat
          /\ Cardinality(Drafters(processing', o, l)) <= Cardinality(Drafters(processing, o, l)) + 1
          /\ ~(o = a /\ l = k /\ a \in r.toDraft) =>
               Cardinality(Drafters(processing', o, l)) <= Cardinality(Drafters(processing, o, l))
      <4>1. /\ Drafters(processing, o, l) \in SUBSET Consumers
            /\ Drafters(processing, o, l) \union {w} \in SUBSET Consumers
            /\ Drafters(processing', o, l) \in SUBSET (Drafters(processing, o, l) \union {w})
        BY <2>9
      <4>2. /\ Cardinality(Drafters(processing', o, l)) \in Nat /\ Cardinality(Drafters(processing, o, l)) \in Nat
            /\ Cardinality(Drafters(processing, o, l) \union {w}) \in Nat
            /\ Cardinality(Drafters(processing', o, l)) <= Cardinality(Drafters(processing, o, l) \union {w})
            /\ Cardinality(Drafters(processing, o, l) \union {w}) <= Cardinality(Drafters(processing, o, l)) + 1
        BY <4>1, WorkersCounted
      <4>3. ~(o = a /\ l = k /\ a \in r.toDraft) =>
               Cardinality(Drafters(processing', o, l)) <= Cardinality(Drafters(processing, o, l))
        BY <2>9, <4>1, WorkersCounted
      <4> QED BY <4>2, <4>3
    <3>4. /\ CountOver(drafts, o, l, CalendarDays) \in Nat /\ CountOver(rows, o, l, CalendarDays) \in Nat
          /\ CountOver(rows', o, l, CalendarDays) \in Nat
      BY <2>7, <3>2
    <3>5. CASE o = a /\ l = k /\ a \in r.toDraft
      <4>1. a \in S
        BY <1>1, <2>1, <2>4, <2>5, <3>5 DEF Fits
      <4>2. CountOver(rows', o, l, CalendarDays) = CountOver(rows, o, l, CalendarDays) + 1
        BY <2>6, <3>2, <3>5, <4>1
      <4> QED BY <3>1, <3>3, <3>4, <4>2
    <3>6. CASE ~(o = a /\ l = k /\ a \in r.toDraft)
      <4>1. CountOver(rows', o, l, CalendarDays) >= CountOver(rows, o, l, CalendarDays)
        <5>1. CASE o \in S /\ l = k
          <6>1. a \in S /\ o = a
            BY <5>1
          <6>2. CountOver(rows', o, l, CalendarDays) = CountOver(rows, o, l, CalendarDays) + 1
            BY <2>6, <3>2, <5>1, <6>1
          <6> QED BY <3>4, <6>2
        <5>2. CASE ~(o \in S /\ l = k)
          <6>1. CountOver(rows', o, l, CalendarDays) = CountOver(rows, o, l, CalendarDays)
            BY <2>6, <3>2, <5>2
          <6> QED BY <3>4, <6>1
        <5> QED BY <5>1, <5>2
      <4> QED BY <3>1, <3>3, <3>4, <3>6, <4>1
    <3> QED BY <3>5, <3>6
  <2>13. Counted(rows', drafts', processing', today')
    BY <1>1, <2>6, <2>10, <2>11, <2>12 DEF Counted
  <2>14. Fits(r) /\ Tells(r)'
    BY <1>1, <2>1, <2>4 DEF Fits, Tells
  <2>15. JobsTypeOK' /\ Mailed' /\ \A i \in Invites : invited'[i] >= invited[i]
    BY <1>1, <2>6 DEF JobsInv, JobsTyped, JobsTypeOK, Told, Mailed
  <2> QED BY <1>1, <2>3, <2>13, <2>14, <2>15, WorkerStep
<1> QED BY <1>1, <1>2, <1>3 DEF RecipientRow

LEMMA RecipientDraftKept == ASSUME JobConstants, JobsInv, NEW w \in Consumers, RecipientDraft(w) PROVE JobsInv'
<1>1. /\ processing[w] \in RunRows /\ Fits(processing[w]) /\ Tells(processing[w]) /\ processing[w].at = "draft"
      /\ UNCHANGED <<today, waiting, known, rows, invite, invited, queued, stalled>>
  BY DaysTold DEF RecipientDraft
<1>2. PICK a \in Operators, k \in Repeating : a = processing[w].who /\ k = processing[w].job.id
  BY <1>1 DEF Fits, Tells
<1>3. PICK r \in RunRows : r = [processing[w] EXCEPT !.at = "next", !.who = Nobody]
  BY <1>1 DEF RunRows, Steps
<1>4. processing' = [processing EXCEPT ![w] = r]
  BY <1>3 DEF RecipientDraft, JobsInv, JobsTyped
<1>5. /\ r.at = "next" /\ r.job = processing[w].job /\ r.since = processing[w].since
      /\ r.toRow = processing[w].toRow /\ r.toDraft = processing[w].toDraft
  BY <1>1, <1>3 DEF RunRows
<1>6. Fits(r) /\ Tells(r) /\ Tells(r)'
  BY <1>1, <1>5 DEF Fits, Tells
<1>7. CASE drafts' = drafts
  <2>1. JobsTypeOK'
    BY <1>1, <1>7 DEF JobsInv, JobsTyped, JobsTypeOK
  <2> QED BY <1>1, <1>4, <1>5, <1>6, <1>7, <2>1, SilentStep
<1>8. CASE drafts' # drafts
  <2>1. a \in processing[w].toDraft /\ AddDraft(a, k)
    BY <1>2, <1>8 DEF RecipientDraft
  <2>2. /\ k \in Kinds /\ drafts \in Told /\ rows \in Told /\ drafts' \in Told /\ today \in CalendarDays
        /\ \A o \in Operators, l \in Kinds, d \in CalendarDays :
             drafts'[<<o, l, d>>] = drafts[<<o, l, d>>] + (IF o = a /\ l = k /\ d = today THEN 1 ELSE 0)
        /\ \A o \in Operators, l \in Kinds, d \in CalendarDays : drafts[<<o, l, d>>] \in Nat
    BY <1>8, <2>1, DraftAdded, RepeatingKinds, DaysTold DEF Told
  <2>3. /\ processing'[w] = r /\ \A v \in Consumers \ {w} : processing'[v] = processing[v]
    BY <1>4 DEF JobsInv, JobsTyped
  <2>4. \A o, l : /\ Rowers(processing, o, l) \in SUBSET Consumers /\ Drafters(processing, o, l) \in SUBSET Consumers
                  /\ Rowers(processing', o, l) \subseteq Rowers(processing, o, l)
                  /\ Drafters(processing', o, l) \subseteq Drafters(processing, o, l)
                  /\ o = a /\ l = k => /\ w \in Drafters(processing, o, l)
                                       /\ Drafters(processing', o, l) = Drafters(processing, o, l) \ {w}
    BY <1>1, <1>2, <1>5, <2>1, <2>3 DEF Rowers, Drafters
  <2>5. RoomFor(rows, processing', today)
    <3> SUFFICES ASSUME NEW o \in Operators, NEW l \in Repeating
                 PROVE  CountOver(rows, o, l, WindowDays(l, today)) + Cardinality(Rowers(processing', o, l))
                          <= Cardinality(Consumers)
      BY DEF RoomFor
    <3>1. CountOver(rows, o, l, WindowDays(l, today)) + Cardinality(Rowers(processing, o, l)) <= Cardinality(Consumers)
      BY DEF JobsInv, Counted, RoomFor
    <3>2. /\ Cardinality(Rowers(processing', o, l)) \in Nat /\ Cardinality(Rowers(processing, o, l)) \in Nat
          /\ Cardinality(Rowers(processing', o, l)) <= Cardinality(Rowers(processing, o, l))
          /\ Cardinality(Consumers) \in Nat
      BY <2>4, WorkersCounted
    <3>3. CountOver(rows, o, l, WindowDays(l, today)) \in Nat
      BY <2>2, CountTyped, RepeatingKinds, DaysTold
    <3> QED BY <3>1, <3>2, <3>3
  <2>6. DraftsFollow(rows, drafts', processing')
    <3> SUFFICES ASSUME NEW o \in Operators, NEW l \in Repeating, IsDigest(l)
                 PROVE  CountOver(drafts', o, l, CalendarDays) + Cardinality(Drafters(processing', o, l))
                          <= CountOver(rows, o, l, CalendarDays)
      BY DEF DraftsFollow
    <3>1. CountOver(drafts, o, l, CalendarDays) + Cardinality(Drafters(processing, o, l))
            <= CountOver(rows, o, l, CalendarDays)
      BY DEF JobsInv, Counted, DraftsFollow
    <3>2. /\ Cardinality(Drafters(processing', o, l)) \in Nat /\ Cardinality(Drafters(processing, o, l)) \in Nat
          /\ Cardinality(Drafters(processing', o, l)) <= Cardinality(Drafters(processing, o, l))
          /\ o = a /\ l = k =>
               Cardinality(Drafters(processing', o, l)) = Cardinality(Drafters(processing, o, l)) - 1
      BY <2>4, WorkersCounted
    <3>3. /\ CountOver(drafts, o, l, CalendarDays) \in Nat /\ CountOver(rows, o, l, CalendarDays) \in Nat
          /\ l \in Kinds
      BY <2>2, CountTyped, RepeatingKinds
    <3>4. CASE o = a /\ l = k
      <4>1. /\ drafts'[<<a, k, today>>] = drafts[<<a, k, today>>] + 1
            /\ \A d \in CalendarDays \ {today} : drafts'[<<a, k, d>>] = drafts[<<a, k, d>>]
        BY <2>2
      <4>2. CountOver(drafts', a, k, CalendarDays) = CountOver(drafts, a, k, CalendarDays) + 1
        BY <2>2, <4>1, CountOneMore
      <4> QED BY <3>1, <3>2, <3>3, <3>4, <4>2
    <3>5. CASE ~(o = a /\ l = k)
      <4>1. \A d \in CalendarDays : drafts'[<<o, l, d>>] = drafts[<<o, l, d>>]
        BY <2>2, <3>3, <3>5
      <4>2. CountOver(drafts', o, l, CalendarDays) = CountOver(drafts, o, l, CalendarDays)
        BY <4>1, CountSame
      <4> QED BY <3>1, <3>2, <3>3, <4>2
    <3> QED BY <3>4, <3>5
  <2>7. Counted(rows', drafts', processing', today')
    BY <1>1, <2>5, <2>6 DEF JobsInv, Counted
  <2>8. JobsTypeOK' /\ Mailed' /\ \A i \in Invites : invited'[i] >= invited[i]
    BY <1>1, <2>2 DEF JobsInv, JobsTyped, JobsTypeOK, Told, Mailed
  <2> QED BY <1>1, <1>4, <1>6, <2>7, <2>8, WorkerStep
<1> QED BY <1>7, <1>8

LEMMA CheckInviteKept == ASSUME JobConstants, JobsInv, NEW w \in Consumers, CheckInvite(w) PROVE JobsInv'
<1>1. /\ processing[w] \in RunRows /\ Fits(processing[w]) /\ processing[w].at = "check" /\ processing[w].job.id \in Invites
      /\ UNCHANGED <<today, waiting, known, rows, drafts, invited, queued, stalled>>
  BY DaysTold DEF CheckInvite, Fits
<1>2. CASE processing' = [processing EXCEPT ![w].at = "draftInvite"] /\ UNCHANGED invite
  <2>1. PICK r \in RunRows : r = [processing[w] EXCEPT !.at = "draftInvite"]
    BY <1>1 DEF RunRows, Steps
  <2>2. processing' = [processing EXCEPT ![w] = r]
    BY <1>2, <2>1 DEF JobsInv, JobsTyped
  <2>3. /\ r.at = "draftInvite" /\ r.job = processing[w].job /\ r.since = processing[w].since
        /\ r.toRow = processing[w].toRow /\ r.toDraft = processing[w].toDraft
    BY <1>1, <2>1 DEF RunRows
  <2>4. Fits(r) /\ Tells(r) /\ JobsTypeOK'
    BY <1>1, <1>2, <2>3 DEF Fits, Tells, JobsInv, JobsTyped, JobsTypeOK
  <2> QED BY <1>1, <1>2, <2>2, <2>3, <2>4, SilentStep
<1>3. CASE processing' = [processing EXCEPT ![w] = Free] /\ invite' = [invite EXCEPT ![Invited(w)].status = "expired"]
  <2>1. JobsTypeOK' /\ \A n \in Invites : invite'[n].channel = invite[n].channel
    BY <1>1, <1>3 DEF JobsInv, JobsTyped, JobsTypeOK, Invited
  <2>2. Mailed'
    BY <1>1, <2>1 DEF JobsInv, Mailed
  <2>3. Fits(Free) /\ Free \in RunRows /\ Tells(Free)' /\ Free.at \notin {"row", "draft"}
    BY FreeTyped DEF Tells, Free
  <2>4. (\A k \in Repeating : Unmoved(k)) /\ \A i \in Invites : invited'[i] >= invited[i]
    BY <1>1 DEF Unmoved, JobsInv, JobsTyped, JobsTypeOK
  <2> QED BY <1>1, <1>3, <2>1, <2>2, <2>3, <2>4, QuietStep
<1>4. CASE processing' = [processing EXCEPT ![w] = Free] /\ UNCHANGED invite
  BY <1>1, <1>4, PutDown
<1> QED BY <1>2, <1>3, <1>4 DEF CheckInvite

LEMMA DraftInviteKept == ASSUME JobConstants, JobsInv, NEW w \in Consumers, DraftInvite(w) PROVE JobsInv'
<1>1. /\ processing[w] \in RunRows /\ Fits(processing[w]) /\ processing[w].at = "draftInvite" /\ processing[w].job.id \in Invites
      /\ UNCHANGED <<today, waiting, known, rows, drafts, invite, queued, stalled>>
  BY DaysTold DEF DraftInvite, Fits
<1>2. PICK made \in BOOLEAN, answered \in BOOLEAN :
        /\ answered => made
        /\ invited' = [invited EXCEPT ![Invited(w)] = @ + (IF made THEN 1 ELSE 0)]
        /\ processing' = [processing EXCEPT ![w].at = IF answered THEN "delivered" ELSE "undelivered"]
  BY DEF DraftInvite
<1>3. /\ invited' \in [Invites -> Nat] /\ \A i \in Invites : invited'[i] >= invited[i]
      /\ answered => invited'[processing[w].job.id] > 0
  BY <1>1, <1>2 DEF JobsInv, JobsTyped, JobsTypeOK, Invited
<1>4. PICK r \in RunRows : r = [processing[w] EXCEPT !.at = IF answered THEN "delivered" ELSE "undelivered"]
  BY <1>1 DEF RunRows, Steps
<1>5. processing' = [processing EXCEPT ![w] = r]
  BY <1>2, <1>4 DEF JobsInv, JobsTyped
<1>6. /\ r.at = (IF answered THEN "delivered" ELSE "undelivered") /\ r.job = processing[w].job
      /\ r.since = processing[w].since /\ r.toRow = processing[w].toRow /\ r.toDraft = processing[w].toDraft
  BY <1>1, <1>4 DEF RunRows
<1>7. Fits(r) /\ Tells(r)'
  BY <1>1, <1>3, <1>6 DEF Fits, Tells
<1>8. Mailed'
  <2>1. \A i \in Invites : invited[i] > 0 => invited'[i] > 0
    BY <1>3 DEF JobsInv, JobsTyped, JobsTypeOK
  <2> QED BY <1>1, <2>1 DEF JobsInv, Mailed
<1>9. JobsTypeOK' /\ \A k \in Repeating : Unmoved(k)
  BY <1>1, <1>3 DEF JobsInv, JobsTyped, JobsTypeOK, Unmoved
<1> QED BY <1>1, <1>3, <1>5, <1>6, <1>7, <1>8, <1>9, QuietStep

LEMMA RecordDeliveryKept == ASSUME JobConstants, JobsInv, NEW w \in Consumers, RecordDelivery(w) PROVE JobsInv'
<1> DEFINE i == processing[w].job.id
           rowOf == [status : {"pending", "accepted", "revoked", "expired"}, lapsed : BOOLEAN,
                     channel : {"none", "gmail_draft", "failed"}]
<1>1. /\ processing[w] \in RunRows /\ Fits(processing[w]) /\ Tells(processing[w])
      /\ processing[w].at \in {"delivered", "undelivered"} /\ i \in Invites
      /\ invite \in [Invites -> rowOf] /\ invited \in [Invites -> Nat]
      /\ UNCHANGED <<today, waiting, known, rows, drafts, invited, queued, stalled>>
  BY DaysTold DEF RecordDelivery, Fits, JobsInv, JobsTyped, JobsTypeOK
<1>2. PICK channel \in {"none", "gmail_draft", "failed"}, r \in RunRows :
        /\ invite' = [invite EXCEPT ![i].channel = channel]
        /\ processing' = [processing EXCEPT ![w] = r]
        /\ channel = "gmail_draft" => processing[w].at = "delivered" \/ invite[i].channel = "gmail_draft"
        /\ r = Free \/ r = [processing[w] EXCEPT !.at = "undelivered"]
  <2>1. /\ [processing[w] EXCEPT !.at = "undelivered"] \in RunRows /\ Free \in RunRows
        /\ invite[i].channel \in {"none", "gmail_draft", "failed"}
        /\ [processing EXCEPT ![w].at = "undelivered"] = [processing EXCEPT ![w] = [processing[w] EXCEPT !.at = "undelivered"]]
        /\ [invite EXCEPT ![i].channel = @] = [invite EXCEPT ![i].channel = invite[i].channel]
    BY <1>1, FreeTyped DEF RunRows, Steps, JobsInv, JobsTyped
  <2> DEFINE said == IF processing[w].at = "delivered" THEN "gmail_draft" ELSE "failed"
  <2>2. CASE invite' = [invite EXCEPT ![i].channel = said] /\ processing' = [processing EXCEPT ![w] = Free]
    <3>1. said \in {"none", "gmail_draft", "failed"} /\ (said = "gmail_draft" => processing[w].at = "delivered")
      OBVIOUS
    <3> HIDE DEF said
    <3> QED BY <2>1, <2>2, <3>1
  <2>3. ASSUME processing[w].at = "delivered", NEW written \in BOOLEAN,
               invite' = [invite EXCEPT ![i].channel = IF written THEN said ELSE @],
               processing' = [processing EXCEPT ![w].at = "undelivered"]
        PROVE  \E channel \in {"none", "gmail_draft", "failed"}, r \in RunRows :
                 /\ invite' = [invite EXCEPT ![i].channel = channel]
                 /\ processing' = [processing EXCEPT ![w] = r]
                 /\ channel = "gmail_draft" => processing[w].at = "delivered" \/ invite[i].channel = "gmail_draft"
                 /\ r = Free \/ r = [processing[w] EXCEPT !.at = "undelivered"]
    <3>1. CASE written
      <4>1. invite' = [invite EXCEPT ![i].channel = "gmail_draft"]
        BY <2>3, <3>1
      <4> QED BY <2>1, <2>3, <4>1
    <3>2. CASE ~written
      <4>1. invite' = [invite EXCEPT ![i].channel = invite[i].channel]
        BY <2>3, <3>2
      <4> QED BY <2>1, <2>3, <4>1
    <3> QED BY <3>1, <3>2
  <2>4. \/ invite' = [invite EXCEPT ![i].channel = said] /\ processing' = [processing EXCEPT ![w] = Free]
        \/ /\ processing[w].at = "delivered"
           /\ \E written \in BOOLEAN : invite' = [invite EXCEPT ![i].channel = IF written THEN said ELSE @]
           /\ processing' = [processing EXCEPT ![w].at = "undelivered"]
    BY Zenon DEF RecordDelivery, Invited
  <2> QED BY <2>2, <2>3, <2>4
<1>3. /\ invite' \in [Invites -> rowOf] /\ invite'[i].channel = channel
      /\ \A n \in Invites \ {i} : invite'[n] = invite[n]
  <2>1. [invite[i] EXCEPT !.channel = channel] \in rowOf /\ [invite[i] EXCEPT !.channel = channel].channel = channel
    BY <1>1
  <2>2. invite' = [invite EXCEPT ![i] = [invite[i] EXCEPT !.channel = channel]]
    BY <1>2
  <2> HIDE DEF rowOf
  <2> QED BY <1>1, <2>1, <2>2
<1>4. Mailed'
  BY <1>1, <1>2, <1>3 DEF Tells, JobsInv, Mailed
<1>5. Fits(r) /\ Tells(r)' /\ r.at \notin {"row", "draft"}
  <2>1. CASE r = Free
    BY <1>1, <2>1, FreeTyped DEF Free, Tells
  <2>2. CASE r = [processing[w] EXCEPT !.at = "undelivered"]
    <3>1. /\ r.at = "undelivered" /\ r.job = processing[w].job /\ r.since = processing[w].since
          /\ r.toRow = processing[w].toRow /\ r.toDraft = processing[w].toDraft
      BY <1>1, <2>2 DEF RunRows
    <3> QED BY <1>1, <3>1 DEF Fits, Tells
  <2> QED BY <1>2, <2>1, <2>2
<1>6. JobsTypeOK' /\ (\A k \in Repeating : Unmoved(k)) /\ \A n \in Invites : invited'[n] >= invited[n]
  BY <1>1, <1>3 DEF JobsInv, JobsTyped, JobsTypeOK, Unmoved
<1> QED BY <1>1, <1>2, <1>4, <1>5, <1>6, QuietStep

LEMMA JobsStep == JobConstants /\ JobsInv /\ [JobsNext]_jobVars => JobsInv'
<1> SUFFICES ASSUME JobConstants, JobsInv, [JobsNext]_jobVars PROVE JobsInv'
  OBVIOUS
<1>1. CASE Enqueue \/ Repeat \/ InviteMoves \/ DayEnds
  BY <1>1, EnqueueKept, RepeatKept, InviteMovesKept, DayEndsKept
<1>2. ASSUME NEW w \in Consumers, Take(w) \/ Stall(w) \/ CreateRows(w) \/ MailNext(w) \/ EventDone(w)
      PROVE  JobsInv'
  BY <1>2, TakeKept, StallKept, CreateRowsKept, MailNextKept, EventDoneKept
<1>3. ASSUME NEW w \in Consumers, NextRecipient(w) \/ RecipientRow(w) \/ RecipientDraft(w) \/ ScanDone(w)
      PROVE  JobsInv'
  BY <1>3, NextRecipientKept, RecipientRowKept, RecipientDraftKept, ScanDoneKept
<1>4. ASSUME NEW w \in Consumers, CheckInvite(w) \/ DraftInvite(w) \/ RecordDelivery(w)
      PROVE  JobsInv'
  BY <1>4, CheckInviteKept, DraftInviteKept, RecordDeliveryKept
<1>5. CASE UNCHANGED jobVars
  <2>1. UNCHANGED <<today, waiting, known, processing, rows, drafts, invite, invited, queued, stalled>>
    BY <1>5 DEF jobVars
  <2>2. JobsTypeOK' /\ Mailed'
    BY <2>1 DEF JobsInv, JobsTyped, JobsTypeOK, Mailed
  <2> QED BY <2>1, <2>2, WorkersUntouched
<1> QED BY <1>1, <1>2, <1>3, <1>4, <1>5 DEF JobsNext

\* What the counts say.
LEMMA CountedTellsOnce == ASSUME JobConstants, JobsInv PROVE ToldOnce
<1>1. ASSUME NEW o \in Operators, NEW k \in Repeating, NEW d \in CalendarDays
      PROVE  CountOver(rows, o, k, WindowDays(k, d)) <= Cardinality(Consumers)
  BY DEF JobsInv, Counted, RoomIn
<1>2. ASSUME NEW o \in Operators, NEW k \in Repeating, IsDigest(k)
      PROVE  CountOver(drafts, o, k, CalendarDays) <= CountOver(rows, o, k, CalendarDays)
  <2>1. CountOver(drafts, o, k, CalendarDays) + Cardinality(Drafters(processing, o, k))
          <= CountOver(rows, o, k, CalendarDays)
    BY <1>2 DEF JobsInv, Counted, DraftsFollow
  <2>2. Drafters(processing, o, k) \in SUBSET Consumers
    BY DEF Drafters
  <2>3. Cardinality(Drafters(processing, o, k)) \in Nat
    BY <2>2, WorkersCounted
  <2>4. CountOver(drafts, o, k, CalendarDays) \in Nat /\ CountOver(rows, o, k, CalendarDays) \in Nat
    BY CountTyped, RepeatingKinds, DaysTold
  <2> QED BY <2>1, <2>3, <2>4
<1> QED BY <1>1, <1>2 DEF ToldOnce, JobsInv, Mailed

\* However scans overlap, stall and run over midnight, a recipient is told of a scan
\* or digest no more often in a UTC day or ISO week than there are processes that
\* serve the queue (once, where there is one), gets no more drafts of a digest than
\* notifications, and no invitation is recorded as drafted that was not
\* (taskCheckOverdue, digestGenerate, hasNotificationSince, inviteSend).
THEOREM ToldOnceAlways ==
  ASSUME JobConstants PROVE JobsSpec => []ToldOnce
<1>1. JobsInit => JobsInv
  BY JobsInitial
<1>2. JobsInv /\ [JobsNext]_jobVars => JobsInv'
  BY JobsStep
<1>3. JobsInv => ToldOnce
  BY CountedTellsOnce
<1> QED BY <1>1, <1>2, <1>3, PTL DEF JobsSpec

-----------------------------------------------------------------------------
(* From a lead to a show                                                    *)

StageNames == {Stages[i] : i \in DOMAIN Stages} \union {"absent"}
\* The truth values of a row, expanded only where one is read.
Truth == BOOLEAN
OppRows == [stage : StageNames, terms : Terms]
ProspectRows == [status : {"absent", "converted"} \union StatusesAsked, link : Links]
ReplyRows == [found : Truth, link : Links, analyzed : Truth, terms : Terms, applied : Truth]
AskedRows ==
  [kind : {"idle"}]
    \union [kind : {"stage"}, opp : Opportunities, stage : StageNames, fresh : Truth]
    \union [kind : {"patch"}, prospect : Prospects, field : {"link"}, value : Links]
    \union [kind : {"patch"}, prospect : Prospects, field : {"status"}, value : StatusesAsked]
    \union [kind : {"convert"}, prospect : Prospects]
    \union [kind : {"locked"}, prospect : Prospects, saw : ProspectRows]
    \union [kind : {"terms"}, reply : Replies]

BookingTyped ==
  /\ opp \in [Opportunities -> OppRows]
  /\ prospect \in [Prospects -> ProspectRows]
  /\ reply \in [Replies -> ReplyRows]
  /\ req \in [Requests -> AskedRows]
  /\ spawned \in [Prospects -> SUBSET Opportunities]

\* Conversion of a prospect is one at a time, and whoever saw no opportunity is about
\* to make the first; what was made is linked.
OneLock == \A p \in Prospects : \A q, s \in Converting(p) : q = s
MakesFirst == \A q \in Requests : req[q].kind = "locked" /\ req[q].saw.link = Nothing => spawned[req[q].prospect] = {}
MadeLinked == \A p \in Prospects :
  spawned[p] # {} => /\ prospect[p].status # "absent" /\ prospect[p].link # Nothing
                     /\ \E o \in Opportunities : spawned[p] = {o}
BookingInv == BookingTyped /\ OneLock /\ MakesFirst /\ MadeLinked

LEMMA LinksNamed == ASSUME PipelineConstants, NEW o \in Opportunities PROVE o \in Links /\ o # Nothing
BY DEF PipelineConstants, Links

LEMMA BookingStarts == ASSUME PipelineConstants PROVE BookingInit => BookingInv
<1> SUFFICES ASSUME BookingInit PROVE BookingInv
  OBVIOUS
<1>1. NoRow \in OppRows
  BY DEF NoRow, OppRows, StageNames, Terms
<1>2. Idle \in AskedRows /\ Idle.kind = "idle"
  BY DEF Idle, AskedRows
<1>3. BookingTyped
  BY <1>1, <1>2 DEF BookingInit, BookingTyped, ProspectRows, ReplyRows, Links, Terms, Truth
<1>4. OneLock /\ MakesFirst /\ MadeLinked
  BY <1>2 DEF BookingInit, OneLock, MakesFirst, MadeLinked, Converting
<1> QED BY <1>3, <1>4 DEF BookingInv

\* Requests move without a new lock.
LEMMA RequestsMove ==
  ASSUME BookingTyped, OneLock, MakesFirst, spawned' = spawned, req' \in [Requests -> AskedRows],
         \A q \in Requests : req'[q] = req[q] \/ req'[q].kind # "locked"
  PROVE  OneLock' /\ MakesFirst'
<1>1. \A p \in Prospects : Converting(p)' \subseteq Converting(p)
  BY DEF Converting
<1> QED BY <1>1 DEF OneLock, MakesFirst

LEMMA IdleAsked == Idle \in AskedRows /\ Idle.kind = "idle"
BY DEF Idle, AskedRows

LEMMA DoneMoves ==
  ASSUME BookingTyped, NEW q \in Requests
  PROVE  /\ Done(q) \in [Requests -> AskedRows]
         /\ \A s \in Requests : Done(q)[s] = req[s] \/ Done(q)[s].kind # "locked"
BY IdleAsked DEF BookingTyped, Done

LEMMA OutdatedMoves ==
  ASSUME NEW o, NEW requests \in [Requests -> AskedRows]
  PROVE  /\ Outdated(o, requests) \in [Requests -> AskedRows]
         /\ \A s \in Requests : Outdated(o, requests)[s] = requests[s] \/ Outdated(o, requests)[s].kind # "locked"
<1> DEFINE new(s) == IF requests[s].kind = "stage" /\ requests[s].opp = o
                     THEN [requests[s] EXCEPT !.fresh = FALSE] ELSE requests[s]
<1>1. Outdated(o, requests) = [s \in Requests |-> new(s)]
  BY DEF Outdated
<1>2. ASSUME NEW s \in Requests PROVE new(s) \in AskedRows /\ (new(s) = requests[s] \/ new(s).kind # "locked")
  <2>1. CASE requests[s].kind = "stage"
    <3>1. requests[s] \in [kind : {"stage"}, opp : Opportunities, stage : StageNames, fresh : Truth]
      BY <2>1 DEF AskedRows
    <3>2. FALSE \in Truth
      BY DEF Truth
    <3>3. [requests[s] EXCEPT !.fresh = FALSE] \in [kind : {"stage"}, opp : Opportunities, stage : StageNames, fresh : Truth]
      BY <3>1, <3>2
    <3>4. [requests[s] EXCEPT !.fresh = FALSE] \in AskedRows /\ [requests[s] EXCEPT !.fresh = FALSE].kind = "stage"
      BY <3>3 DEF AskedRows
    <3> QED BY <3>4
  <2>2. CASE requests[s].kind # "stage"
    BY <2>2
  <2> QED BY <2>1, <2>2
<1> HIDE DEF new
<1> QED BY <1>1, <1>2

\* Nothing is converted.
LEMMA NoConversion ==
  ASSUME BookingInv, UNCHANGED <<prospect, spawned>>, req' \in [Requests -> AskedRows],
         opp' \in [Opportunities -> OppRows], reply' \in [Replies -> ReplyRows],
         \A q \in Requests : req'[q] = req[q] \/ req'[q].kind # "locked"
  PROVE  BookingInv'
<1>1. BookingTyped'
  BY DEF BookingInv, BookingTyped
<1>2. OneLock' /\ MakesFirst'
  BY RequestsMove DEF BookingInv
<1>3. MadeLinked'
  BY DEF BookingInv, MadeLinked
<1> QED BY <1>1, <1>2, <1>3 DEF BookingInv

\* The opportunities once o is at the stage.
Staged(o, stage) == [opp EXCEPT ![o].stage = stage]

LEMMA StageSet ==
  ASSUME BookingTyped, NEW o, NEW stage \in StageNames
  PROVE  /\ Staged(o, stage) \in [Opportunities -> OppRows]
         /\ \A x \in Opportunities : Staged(o, stage)[x].terms = opp[x].terms
<1>1. opp \in [Opportunities -> OppRows] /\ DOMAIN Staged(o, stage) = Opportunities
  BY DEF BookingTyped, Staged
<1>2. ASSUME NEW x \in Opportunities
      PROVE  /\ [opp[x] EXCEPT !.stage = stage] \in OppRows
             /\ [opp[x] EXCEPT !.stage = stage].terms = opp[x].terms
  BY <1>1 DEF OppRows
<1>3. ASSUME NEW x \in Opportunities
      PROVE  Staged(o, stage)[x] \in OppRows /\ Staged(o, stage)[x].terms = opp[x].terms
  BY <1>1, <1>2 DEF Staged
<1>4. Staged(o, stage) = [x \in Opportunities |-> Staged(o, stage)[x]]
  BY <1>1 DEF Staged
<1> QED BY <1>3, <1>4

LEMMA AskedStages == ASSUME PipelineConstants PROVE StagesAsked \subseteq StageNames
BY DEF PipelineConstants, StageNames

LEMMA NamedStages == "target" \in StageNames /\ "confirmed" \in StageNames
<1>1. Stages[1] = "target" /\ Stages[6] = "confirmed" /\ 1 \in DOMAIN Stages /\ 6 \in DOMAIN Stages
  BY DEF Stages
<1> QED BY <1>1 DEF StageNames

LEMMA AskMoves ==
  ASSUME BookingTyped, NEW q \in Requests, NEW r \in AskedRows, r.kind # "locked", req' = [req EXCEPT ![q] = r]
  PROVE  /\ req' \in [Requests -> AskedRows]
         /\ \A s \in Requests : req'[s] = req[s] \/ req'[s].kind # "locked"
BY DEF BookingTyped

LEMMA TermsStay ==
  ASSUME \A o \in Opportunities : opp'[o].terms = opp[o].terms
  PROVE  AppliesOnce
BY DEF AppliesOnce

\* What every step is shown to do.
Preserved == BookingInv' /\ AppliesOnce

LEMMA OpportunitySteps ==
  ASSUME PipelineConstants, BookingInv, OnOpportunities
  PROVE  Preserved
<1>1. BookingTyped /\ req \in [Requests -> AskedRows] /\ opp \in [Opportunities -> OppRows] /\ reply \in [Replies -> ReplyRows]
  BY DEF BookingInv, BookingTyped
<1>2. ASSUME NEW o \in Opportunities, NEW stage \in StagesAsked, CreateOpportunity(o, stage) PROVE Preserved
  <2>1. opp' \in [Opportunities -> OppRows] /\ \A x \in Opportunities : opp'[x].terms = opp[x].terms
    <3>1. opp' = Staged(o, stage)
      BY <1>2 DEF CreateOpportunity, Staged
    <3> QED BY <1>1, <3>1, AskedStages, StageSet
  <2>2. UNCHANGED <<prospect, reply, req, spawned>>
    BY <1>2 DEF CreateOpportunity
  <2> QED BY <1>1, <2>1, <2>2, NoConversion, TermsStay DEF Preserved
<1>3. ASSUME NEW o \in Opportunities, PatchOpportunity(o) \/ EditShow(o) \/ EventFromOpportunity(o) PROVE Preserved
  <2>1. UNCHANGED <<opp, prospect, reply, spawned>> /\ (req' = Outdated(o, req) \/ req' = req)
    BY <1>3 DEF PatchOpportunity, EditShow, EventFromOpportunity
  <2>2. req' \in [Requests -> AskedRows] /\ \A s \in Requests : req'[s] = req[s] \/ req'[s].kind # "locked"
    BY <1>1, <2>1, OutdatedMoves
  <2> QED BY <1>1, <2>1, <2>2, NoConversion, TermsStay DEF Preserved
<1>4. ASSUME NEW o \in Opportunities, NEW q \in Requests, NEW stage \in StagesAsked, ReviewStage(q, o, stage) PROVE Preserved
  <2> DEFINE r == [kind |-> "stage", opp |-> o, stage |-> stage, fresh |-> TRUE]
  <2>1. r \in AskedRows /\ r.kind # "locked"
    BY AskedStages DEF AskedRows, Truth
  <2>2. UNCHANGED <<opp, prospect, reply, spawned>> /\ req' = [req EXCEPT ![q] = r]
    BY <1>4 DEF ReviewStage
  <2> HIDE DEF r
  <2>3. req' \in [Requests -> AskedRows] /\ \A s \in Requests : req'[s] = req[s] \/ req'[s].kind # "locked"
    BY <1>1, <2>1, <2>2, AskMoves
  <2> QED BY <1>1, <2>2, <2>3, NoConversion, TermsStay DEF Preserved
<1>5. ASSUME NEW q \in Requests, UpdateStage(q) PROVE Preserved
  <2>1. req[q] \in [kind : {"stage"}, opp : Opportunities, stage : StageNames, fresh : Truth]
    BY <1>1, <1>5 DEF UpdateStage, AskedRows
  <2>2. opp' = Staged(req[q].opp, req[q].stage) \/ opp' = opp
    BY <1>5 DEF UpdateStage, Staged
  <2>3. opp' \in [Opportunities -> OppRows] /\ \A x \in Opportunities : opp'[x].terms = opp[x].terms
    BY <1>1, <2>1, <2>2, StageSet
  <2>4. UNCHANGED <<prospect, reply, spawned>> /\ (req' = Done(q) \/ req' = Outdated(req[q].opp, Done(q)))
    BY <1>5 DEF UpdateStage
  <2>5. /\ Done(q) \in [Requests -> AskedRows]
        /\ \A s \in Requests : Done(q)[s] = req[s] \/ Done(q)[s].kind # "locked"
    BY <1>1, DoneMoves
  <2>6. req' \in [Requests -> AskedRows] /\ \A s \in Requests : req'[s] = req[s] \/ req'[s].kind # "locked"
    BY <2>4, <2>5, OutdatedMoves
  <2> QED BY <1>1, <2>3, <2>4, <2>6, NoConversion, TermsStay DEF Preserved
<1>6. ASSUME NEW q \in Requests, GiveUp(q) PROVE Preserved
  <2>1. UNCHANGED <<opp, prospect, reply, spawned>> /\ req' = Done(q)
    BY <1>6 DEF GiveUp
  <2>2. req' \in [Requests -> AskedRows] /\ \A s \in Requests : req'[s] = req[s] \/ req'[s].kind # "locked"
    BY <1>1, <2>1, DoneMoves
  <2> QED BY <1>1, <2>1, <2>2, NoConversion, TermsStay DEF Preserved
<1> QED BY <1>2, <1>3, <1>4, <1>5, <1>6 DEF OnOpportunities

\* A request about a prospect is sent, or locks it.
LEMMA ProspectAsked ==
  ASSUME PipelineConstants, BookingInv, NEW q \in Requests, NEW r \in AskedRows, r.kind # "locked",
         req' = [req EXCEPT ![q] = r], UNCHANGED <<opp, prospect, reply, spawned>>
  PROVE  Preserved
<1>1. BookingTyped
  BY DEF BookingInv
<1>2. req' \in [Requests -> AskedRows] /\ \A s \in Requests : req'[s] = req[s] \/ req'[s].kind # "locked"
  BY <1>1, AskMoves
<1> QED BY <1>1, <1>2, NoConversion, TermsStay DEF Preserved, BookingTyped

LEMMA ProspectWritten ==
  ASSUME PipelineConstants, BookingInv, NEW q \in Requests, WriteProspect(q)
  PROVE  Preserved
<1>1. BookingTyped /\ req \in [Requests -> AskedRows] /\ prospect \in [Prospects -> ProspectRows]
      /\ spawned \in [Prospects -> SUBSET Opportunities]
  BY DEF BookingInv, BookingTyped
<1>2. req[q].kind = "patch" /\ req' = Done(q) /\ UNCHANGED <<opp, reply>>
  BY DEF WriteProspect
<1>3. req' \in [Requests -> AskedRows] /\ \A s \in Requests : req'[s] = req[s] \/ req'[s].kind # "locked"
  BY <1>1, <1>2, DoneMoves
<1> DEFINE p == req[q].prospect
<1>4. p \in Prospects /\ req[q].field \in {"status", "link"}
      /\ (req[q].field = "status" => req[q].value \in StatusesAsked)
      /\ (req[q].field = "link" => req[q].value \in Links)
  BY <1>1, <1>2 DEF AskedRows
<1>5. CASE req[q].field = "status"
  <2> DEFINE row == [prospect[p] EXCEPT !.status = req[q].value]
  <2>1. prospect' = [prospect EXCEPT ![p] = row] /\ spawned' = spawned
    BY <1>5 DEF WriteProspect
  <2>2. row \in ProspectRows /\ row.link = prospect[p].link /\ row.status # "absent"
    BY <1>1, <1>4, <1>5 DEF ProspectRows, StatusesAsked
  <2> HIDE DEF p, row
  <2>3. BookingTyped'
    BY <1>1, <1>2, <1>3, <2>1, <2>2 DEF BookingTyped
  <2>4. OneLock' /\ MakesFirst'
    BY <1>1, <1>3, <2>1, RequestsMove DEF BookingInv
  <2>5. MadeLinked'
    BY <1>1, <1>4, <2>1, <2>2 DEF BookingInv, MadeLinked
  <2> QED BY <1>2, <2>3, <2>4, <2>5, TermsStay DEF Preserved, BookingInv
<1>6. CASE req[q].field = "link"
  <2> DEFINE row == [prospect[p] EXCEPT !.link = req[q].value]
  <2>1. prospect' = [prospect EXCEPT ![p] = row] /\ spawned' = [spawned EXCEPT ![p] = {}]
    BY <1>6 DEF WriteProspect
  <2>2. row \in ProspectRows
    BY <1>1, <1>4, <1>6 DEF ProspectRows
  <2> HIDE DEF p, row
  <2>3. BookingTyped'
    BY <1>1, <1>2, <1>3, <1>4, <2>1, <2>2 DEF BookingTyped
  <2>4. \A x \in Prospects : Converting(x)' \subseteq Converting(x)
    BY <1>3 DEF Converting
  <2>5. OneLock'
    BY <2>4 DEF BookingInv, OneLock
  <2>6. MakesFirst'
    <3> SUFFICES ASSUME NEW s \in Requests, req'[s].kind = "locked", req'[s].saw.link = Nothing
                 PROVE  spawned'[req'[s].prospect] = {}
      BY DEF MakesFirst
    <3>1. req'[s] = req[s] /\ spawned[req[s].prospect] = {}
      BY <1>3 DEF BookingInv, MakesFirst
    <3> QED BY <1>1, <1>4, <2>1, <3>1
  <2>7. MadeLinked'
    BY <1>1, <1>4, <2>1, <2>2 DEF BookingInv, MadeLinked
  <2> QED BY <1>2, <2>3, <2>5, <2>6, <2>7, TermsStay DEF Preserved, BookingInv
<1> QED BY <1>4, <1>5, <1>6

LEMMA ProspectLocked ==
  ASSUME PipelineConstants, BookingInv, NEW q \in Requests, LockAndRead(q)
  PROVE  Preserved
<1> DEFINE p == req[q].prospect
           r == [kind |-> "locked", prospect |-> p, saw |-> prospect[p]]
<1>1. BookingTyped /\ req \in [Requests -> AskedRows] /\ prospect \in [Prospects -> ProspectRows]
  BY DEF BookingInv, BookingTyped
<1>2. req[q].kind = "convert" /\ Converting(p) = {} /\ req' = [req EXCEPT ![q] = r]
      /\ UNCHANGED <<opp, prospect, reply, spawned>>
  BY DEF LockAndRead, LockFree
<1>3. p \in Prospects
  BY <1>1, <1>2 DEF AskedRows
<1>4. r \in AskedRows /\ r.kind = "locked" /\ r.prospect = p /\ r.saw = prospect[p]
  BY <1>1, <1>3 DEF AskedRows
<1> HIDE DEF p, r
<1>5. BookingTyped'
  BY <1>1, <1>2, <1>4 DEF BookingTyped
<1>6. \A x \in Prospects : Converting(x)' = IF x = p THEN {q} ELSE Converting(x)
  <2> SUFFICES ASSUME NEW x \in Prospects PROVE Converting(x)' = IF x = p THEN {q} ELSE Converting(x)
    OBVIOUS
  <2>1. \A s \in Requests : s # q => req'[s] = req[s]
    BY <1>1, <1>2
  <2>2. req'[q] = r /\ req[q].kind # "locked"
    BY <1>1, <1>2
  <2> QED BY <1>2, <1>4, <2>1, <2>2 DEF Converting
<1>7. OneLock'
  BY <1>6 DEF BookingInv, OneLock
<1>8. MakesFirst'
  <2>1. prospect[p].link = Nothing => spawned[p] = {}
    BY <1>3 DEF BookingInv, MadeLinked
  <2> QED BY <1>1, <1>2, <1>4, <2>1 DEF BookingInv, MakesFirst
<1>9. MadeLinked'
  BY <1>2 DEF BookingInv, MadeLinked
<1> QED BY <1>2, <1>5, <1>7, <1>8, <1>9, TermsStay DEF Preserved, BookingInv

LEMMA ProspectConverted ==
  ASSUME PipelineConstants, BookingInv, NEW q \in Requests, Convert(q)
  PROVE  Preserved
<1> DEFINE p == req[q].prospect
           saw == req[q].saw
<1>1. BookingTyped /\ req \in [Requests -> AskedRows] /\ prospect \in [Prospects -> ProspectRows]
      /\ spawned \in [Prospects -> SUBSET Opportunities]
  BY DEF BookingInv, BookingTyped
<1>2. req[q].kind = "locked" /\ req' = Done(q) /\ UNCHANGED reply
  BY DEF Convert
<1>3. p \in Prospects /\ saw \in ProspectRows /\ saw.link \in Links
  <2>1. req[q] \in [kind : {"locked"}, prospect : Prospects, saw : ProspectRows]
    BY <1>1, <1>2 DEF AskedRows
  <2> QED BY <2>1 DEF ProspectRows
<1>4. req' \in [Requests -> AskedRows] /\ \A s \in Requests : req'[s] = req[s] \/ req'[s].kind # "locked"
  BY <1>1, <1>2, DoneMoves
<1>5. req'[q].kind # "locked"
  BY <1>1, <1>2, IdleAsked DEF Done
<1>6. \A x \in Prospects : Converting(x)' \subseteq Converting(x)
  BY <1>4 DEF Converting
<1>7. OneLock'
  BY <1>6 DEF BookingInv, OneLock
<1>8. CASE UNCHANGED <<opp, prospect, spawned>>
  BY <1>1, <1>2, <1>4, <1>8, NoConversion, TermsStay DEF Preserved, BookingTyped
<1>9. ASSUME NEW o \in Opportunities, NEW row, row = [status |-> "converted", link |-> o],
             prospect' = [prospect EXCEPT ![p] = row], opp' = opp \/ opp' = [opp EXCEPT ![o].stage = "target"],
             \/ spawned' = spawned
             \/ saw.link = Nothing /\ spawned' = [spawned EXCEPT ![p] = @ \union {o}]
      PROVE  Preserved
  <2>1. row \in ProspectRows /\ row.link = o /\ o # Nothing /\ row.status # "absent"
    BY <1>9, LinksNamed DEF ProspectRows
  <2>2. opp' \in [Opportunities -> OppRows] /\ \A x \in Opportunities : opp'[x].terms = opp[x].terms
    <3>1. opp' = opp \/ opp' = Staged(o, "target")
      BY <1>9 DEF Staged
    <3> QED BY <1>1, <3>1, NamedStages, StageSet DEF BookingTyped
  <2>3. saw.link = Nothing => spawned[p] = {}
    BY <1>2 DEF BookingInv, MakesFirst
  <2> HIDE DEF p, saw
  <2>4. /\ spawned' \in [Prospects -> SUBSET Opportunities]
        /\ \A x \in Prospects : x # p => spawned'[x] = spawned[x] /\ prospect'[x] = prospect[x]
        /\ (spawned'[p] = spawned[p] \/ (spawned[p] = {} /\ spawned'[p] = {o}))
        /\ prospect'[p].link # Nothing /\ prospect'[p].status # "absent"
    <3>1. prospect'[p] = row /\ \A x \in Prospects : x # p => prospect'[x] = prospect[x]
      BY <1>1, <1>3, <1>9
    <3>2. CASE spawned' = spawned
      <4>1. spawned' \in [Prospects -> SUBSET Opportunities] /\ spawned'[p] = spawned[p]
        BY <1>1, <3>2
      <4>2. \A x \in Prospects : spawned'[x] = spawned[x]
        BY <3>2
      <4> QED BY <2>1, <3>1, <4>1, <4>2
    <3>3. CASE saw.link = Nothing /\ spawned' = [spawned EXCEPT ![p] = @ \union {o}]
      <4>1. spawned[p] = {}
        BY <2>3, <3>3
      <4>2. spawned' = [spawned EXCEPT ![p] = {o}]
        BY <3>3, <4>1
      <4> QED BY <1>1, <1>3, <2>1, <3>1, <4>1, <4>2
    <3> QED BY <1>9, <3>2, <3>3
  <2>5. BookingTyped'
    BY <1>1, <1>2, <1>4, <1>9, <2>1, <2>2, <2>4 DEF BookingTyped
  <2>6. MakesFirst'
    <3> SUFFICES ASSUME NEW s \in Requests, req'[s].kind = "locked", req'[s].saw.link = Nothing
                 PROVE  spawned'[req'[s].prospect] = {}
      BY DEF MakesFirst
    <3>1. req'[s] = req[s] /\ spawned[req[s].prospect] = {} /\ s # q
      BY <1>4, <1>5 DEF BookingInv, MakesFirst
    <3>2. req[s].prospect \in Prospects
      <4>1. req[s].kind = "locked" /\ req[s] \in AskedRows
        BY <1>1, <3>1
      <4>2. req[s] \in [kind : {"locked"}, prospect : Prospects, saw : ProspectRows]
        BY <4>1 DEF AskedRows
      <4> QED BY <4>2
    <3>3. req[s].prospect # p
      BY <1>2, <1>3, <3>1 DEF BookingInv, OneLock, Converting, p
    <3> QED BY <2>4, <3>1, <3>2, <3>3
  <2>7. MadeLinked'
    BY <1>3, <2>4 DEF BookingInv, MadeLinked
  <2> QED BY <1>7, <2>2, <2>5, <2>6, <2>7, TermsStay DEF Preserved, BookingInv
<1>10. CASE saw.link # Nothing /\ prospect' = [prospect EXCEPT ![p] = [status |-> "converted", link |-> saw.link]]
            /\ UNCHANGED <<opp, spawned>>
  <2>1. saw.link \in Opportunities
    BY <1>3, <1>10 DEF Links
  <2> QED BY <1>9, <1>10, <2>1
<1>11. ASSUME saw.link = Nothing, NEW o \in Opportunities, opp' = [opp EXCEPT ![o].stage = "target"],
              prospect' = [prospect EXCEPT ![p] = [status |-> "converted", link |-> o]],
              spawned' = [spawned EXCEPT ![p] = @ \union {o}]
       PROVE  Preserved
  BY <1>9, <1>11
<1> QED BY <1>8, <1>10, <1>11 DEF Convert

LEMMA ProspectSteps ==
  ASSUME PipelineConstants, BookingInv, OnProspects
  PROVE  Preserved
<1>1. BookingTyped /\ prospect \in [Prospects -> ProspectRows]
  BY DEF BookingInv, BookingTyped
<1>2. Existing \union {Nothing} \subseteq Links
  BY DEF Existing, Links
<1>3. ASSUME NEW p \in Prospects, NEW link \in Links, NEW status \in StatusesAsked, CreateProspect(p, status, link)
      PROVE  Preserved
  <2> DEFINE row == [status |-> status, link |-> link]
  <2>1. row \in ProspectRows
    BY DEF ProspectRows
  <2>2. prospect' = [prospect EXCEPT ![p] = row] /\ UNCHANGED <<opp, reply, req, spawned>>
    BY <1>3 DEF CreateProspect
  <2>3. spawned[p] = {}
    BY <1>3 DEF CreateProspect, BookingInv, MadeLinked
  <2> HIDE DEF row
  <2>4. BookingTyped'
    BY <1>1, <2>1, <2>2 DEF BookingTyped
  <2>5. OneLock' /\ MakesFirst'
    BY <1>1, <2>2, RequestsMove DEF BookingInv, BookingTyped
  <2>6. MadeLinked'
    BY <1>1, <2>2, <2>3 DEF BookingInv, MadeLinked
  <2> QED BY <2>2, <2>4, <2>5, <2>6, TermsStay DEF Preserved, BookingInv
<1>4. ASSUME NEW q \in Requests, NEW p \in Prospects, NEW link \in Links, PatchProspect(q, p, "link", link)
      PROVE  Preserved
  <2> DEFINE r == [kind |-> "patch", prospect |-> p, field |-> "link", value |-> link]
  <2>1. r \in AskedRows /\ r.kind # "locked"
    BY DEF AskedRows
  <2>2. req' = [req EXCEPT ![q] = r] /\ UNCHANGED <<opp, prospect, reply, spawned>>
    BY <1>4 DEF PatchProspect
  <2> HIDE DEF r
  <2> QED BY <2>1, <2>2, ProspectAsked
<1>5. ASSUME NEW q \in Requests, NEW p \in Prospects, NEW status \in StatusesAsked, PatchProspect(q, p, "status", status)
      PROVE  Preserved
  <2> DEFINE r == [kind |-> "patch", prospect |-> p, field |-> "status", value |-> status]
  <2>1. r \in AskedRows /\ r.kind # "locked"
    BY DEF AskedRows
  <2>2. req' = [req EXCEPT ![q] = r] /\ UNCHANGED <<opp, prospect, reply, spawned>>
    BY <1>5 DEF PatchProspect
  <2> HIDE DEF r
  <2> QED BY <2>1, <2>2, ProspectAsked
<1>6. ASSUME NEW q \in Requests, NEW p \in Prospects, AskConversion(q, p) PROVE Preserved
  <2> DEFINE r == [kind |-> "convert", prospect |-> p]
  <2>1. r \in AskedRows /\ r.kind # "locked"
    BY DEF AskedRows
  <2>2. req' = [req EXCEPT ![q] = r] /\ UNCHANGED <<opp, prospect, reply, spawned>>
    BY <1>6 DEF AskConversion
  <2> HIDE DEF r
  <2> QED BY <2>1, <2>2, ProspectAsked
<1>7. ASSUME NEW q \in Requests, WriteProspect(q) \/ LockAndRead(q) \/ Convert(q) PROVE Preserved
  BY <1>7, ProspectWritten, ProspectLocked, ProspectConverted
<1> QED BY <1>2, <1>3, <1>4, <1>5, <1>6, <1>7 DEF OnProspects, LinkVenueProspect

LEMMA ReplyKept ==
  ASSUME PipelineConstants, BookingInv, UNCHANGED <<prospect, spawned>>, UNCHANGED opp,
         req' = req, reply' \in [Replies -> ReplyRows]
  PROVE  Preserved
BY NoConversion, TermsStay DEF Preserved, BookingInv, BookingTyped

LEMMA TermsApplied ==
  ASSUME PipelineConstants, BookingInv, NEW q \in Requests, ApplyTerms(q)
  PROVE  Preserved
<1> DEFINE r == req[q].reply
           o == reply[r].link
           terms == Merged(opp[o].terms, reply[r].terms)
           row == [opp[o] EXCEPT !.terms = terms]
<1>1. BookingTyped /\ req \in [Requests -> AskedRows] /\ opp \in [Opportunities -> OppRows] /\ reply \in [Replies -> ReplyRows]
  BY DEF BookingInv, BookingTyped
<1>2. req[q].kind = "terms" /\ UNCHANGED <<prospect, spawned>> /\ (req' = Done(q) \/ req' = Outdated(o, Done(q)))
  BY DEF ApplyTerms
<1>3. r \in Replies
  BY <1>1, <1>2 DEF AskedRows
<1>4. reply[r] \in ReplyRows /\ o \in Links
  BY <1>1, <1>3 DEF ReplyRows
<1>5. /\ Done(q) \in [Requests -> AskedRows]
      /\ \A s \in Requests : Done(q)[s] = req[s] \/ Done(q)[s].kind # "locked"
  BY <1>1, DoneMoves
<1>6. req' \in [Requests -> AskedRows] /\ \A s \in Requests : req'[s] = req[s] \/ req'[s].kind # "locked"
  BY <1>2, <1>5, OutdatedMoves
<1>7. CASE MayApply(r)
  <2>1. /\ opp' = [opp EXCEPT ![o].terms = terms] /\ reply' = [reply EXCEPT ![r].applied = TRUE]
        /\ ~reply[r].applied /\ opp[o].stage # "closed"
    BY <1>7 DEF ApplyTerms, MayApply
  <2>2. opp' = [opp EXCEPT ![o] = row]
    BY <2>1
  <2>3. o \in Opportunities => row \in OppRows /\ row.terms = terms
    BY <1>1, <1>4 DEF OppRows, ReplyRows, Merged
  <2>4. /\ [reply[r] EXCEPT !.applied = TRUE] \in ReplyRows
        /\ [reply[r] EXCEPT !.applied = TRUE].applied
    BY <1>4 DEF ReplyRows, Truth
  <2>5. reply' \in [Replies -> ReplyRows] /\ reply'[r].applied
    BY <1>1, <1>3, <2>1, <2>4
  <2> HIDE DEF row
  <2>6. opp' \in [Opportunities -> OppRows]
    BY <1>1, <2>2, <2>3
  <2>7. BookingInv'
    BY <1>2, <1>6, <2>5, <2>6, NoConversion
  <2>8. ASSUME NEW x \in Opportunities, opp'[x].terms # opp[x].terms
        PROVE  /\ opp[x].stage # "closed"
               /\ \E y \in Replies : /\ reply[y].link = x
                                     /\ ~reply[y].applied /\ reply'[y].applied
                                     /\ opp'[x].terms = reply[y].terms
    <3>1. x = o /\ opp'[x] = row
      BY <1>1, <2>2, <2>8
    <3>2. row.terms = terms /\ terms # opp[o].terms
      BY <2>3, <2>8, <3>1
    <3>3. terms = reply[r].terms
      BY <3>2 DEF Merged
    <3> QED BY <1>3, <2>1, <2>5, <3>1, <3>2, <3>3
  <2> QED BY <2>7, <2>8 DEF Preserved, AppliesOnce
<1>8. CASE ~MayApply(r)
  <2>1. UNCHANGED <<opp, reply>>
    BY <1>8 DEF ApplyTerms
  <2> QED BY <1>1, <1>2, <1>6, <2>1, NoConversion, TermsStay DEF Preserved
<1> QED BY <1>7, <1>8

LEMMA ReplySteps ==
  ASSUME PipelineConstants, BookingInv, OnReplies
  PROVE  Preserved
<1>1. BookingTyped /\ req \in [Requests -> AskedRows] /\ opp \in [Opportunities -> OppRows] /\ reply \in [Replies -> ReplyRows]
  BY DEF BookingInv, BookingTyped
<1>2. ASSUME NEW r \in Replies, NEW link \in Existing \union {Nothing}, Detect(r, link) PROVE Preserved
  <2>1. link \in Links
    BY DEF Existing, Links
  <2>2. [reply[r] EXCEPT !.found = TRUE, !.link = link] \in ReplyRows
    BY <1>1, <2>1 DEF ReplyRows, Truth
  <2>3. reply' = [reply EXCEPT ![r] = [reply[r] EXCEPT !.found = TRUE, !.link = link]]
    BY <1>1, <1>2 DEF Detect
  <2>4. reply' \in [Replies -> ReplyRows]
    BY <1>1, <2>2, <2>3
  <2> QED BY <1>2, <2>4, ReplyKept DEF Detect
<1>3. ASSUME NEW r \in Replies, NEW terms \in Terms, Analyze(r, terms) PROVE Preserved
  <2>2. [reply[r] EXCEPT !.analyzed = TRUE, !.terms = terms] \in ReplyRows
    BY <1>1 DEF ReplyRows, Truth
  <2>3. reply' = [reply EXCEPT ![r] = [reply[r] EXCEPT !.analyzed = TRUE, !.terms = terms]]
    BY <1>1, <1>3 DEF Analyze
  <2>4. reply' \in [Replies -> ReplyRows]
    BY <1>1, <2>2, <2>3
  <2> QED BY <1>3, <2>4, ReplyKept DEF Analyze
<1>4. ASSUME NEW r \in Replies, PrepareConfirmation(r) \/ ReadConfirmation(r) \/ AbortConfirmation(r) PROVE Preserved
  <2>1. UNCHANGED <<opp, prospect, reply, req, spawned>>
    BY <1>4 DEF PrepareConfirmation, ReadConfirmation, AbortConfirmation
  <2> QED BY <1>1, <2>1, ReplyKept
<1>5. ASSUME NEW r \in Replies, WriteConfirmation(r) PROVE Preserved
  <2>1. /\ opp' = opp \/ opp' = Staged(reply[r].link, "confirmed")
        /\ req' = req \/ req' = Outdated(reply[r].link, req)
        /\ UNCHANGED <<prospect, reply, spawned>>
    BY <1>5 DEF WriteConfirmation, Staged
  <2>2. opp' \in [Opportunities -> OppRows] /\ \A x \in Opportunities : opp'[x].terms = opp[x].terms
    BY <1>1, <2>1, NamedStages, StageSet
  <2>3. req' \in [Requests -> AskedRows] /\ \A s \in Requests : req'[s] = req[s] \/ req'[s].kind # "locked"
    BY <1>1, <2>1, OutdatedMoves
  <2> QED BY <1>1, <2>1, <2>2, <2>3, NoConversion, TermsStay DEF Preserved
<1>6. ASSUME NEW q \in Requests, NEW r \in Replies, AskTerms(q, r) PROVE Preserved
  <2> DEFINE asked == [kind |-> "terms", reply |-> r]
  <2>1. asked \in AskedRows /\ asked.kind # "locked"
    BY DEF AskedRows
  <2>2. req' = [req EXCEPT ![q] = asked] /\ UNCHANGED <<opp, prospect, reply, spawned>>
    BY <1>6 DEF AskTerms
  <2> HIDE DEF asked
  <2> QED BY <2>1, <2>2, ProspectAsked
<1> QED BY <1>2, <1>3, <1>4, <1>5, <1>6, TermsApplied DEF OnReplies

LEMMA BookingStep ==
  ASSUME PipelineConstants, BookingInv, [BookingNext]_bookingVars
  PROVE  BookingInv' /\ [AppliesOnce]_bookingVars
<1>1. CASE UNCHANGED bookingVars
  <2>1. UNCHANGED <<opp, prospect, reply, req, spawned>>
    BY <1>1 DEF bookingVars
  <2>2. BookingInv'
    BY <2>1 DEF BookingInv, BookingTyped, OneLock, MakesFirst, MadeLinked, Converting
  <2> QED BY <1>1, <2>2
<1>2. CASE BookingNext
  BY <1>2, OpportunitySteps, ProspectSteps, ReplySteps DEF BookingNext, Preserved
<1> QED BY <1>1, <1>2

\* Whatever conversions, patches and relinks race, one opportunity is made of a
\* prospect (convert under its advisory lock).
THEOREM ConvertedOnceAlways ==
  ASSUME PipelineConstants
  PROVE  BookingSpec => []ConvertedOnce
<1>1. BookingInv => ConvertedOnce
  <2> SUFFICES ASSUME BookingInv, NEW p \in Prospects PROVE Cardinality(spawned[p]) <= 1
    BY DEF ConvertedOnce
  <2>1. CASE spawned[p] = {}
    BY <2>1, FS_EmptySet
  <2>2. CASE spawned[p] # {}
    <3>1. PICK o \in Opportunities : spawned[p] = {o}
      BY <2>2 DEF BookingInv, MadeLinked
    <3> QED BY <3>1, FS_Singleton
  <2> QED BY <2>1, <2>2
<1>2. BookingInit => BookingInv
  BY BookingStarts
<1>3. BookingInv /\ [BookingNext]_bookingVars => BookingInv'
  BY BookingStep
<1> QED BY <1>1, <1>2, <1>3, PTL DEF BookingSpec

\* The terms of an opportunity move only when those of a reply are applied, once per
\* reply, by what it says then and never once closed (applyTerms).
THEOREM AppliesOnceAlways ==
  ASSUME PipelineConstants
  PROVE  BookingSpec => [][AppliesOnce]_bookingVars
<1>1. BookingInit => BookingInv
  BY BookingStarts
<1>2. BookingInv /\ [BookingNext]_bookingVars => BookingInv' /\ [AppliesOnce]_bookingVars
  BY BookingStep
<1> QED BY <1>1, <1>2, PTL DEF BookingSpec

-----------------------------------------------------------------------------
(* The facts of a show                                                      *)

RowFields == {"status", "start", "end", "set", "cursor", "facts", "version"}
PageFields == {"gig", "data", "base", "ask", "asked"}

GigsTyped ==
  /\ now \in Nat
  /\ gig = [g \in Gigs |-> gig[g]]
  /\ \A g \in Gigs : DOMAIN gig[g] = RowFields /\ gig[g].version \in Nat
  /\ page = [p \in Pages |-> page[p]]
  /\ \A p \in Pages : DOMAIN page[p] = PageFields /\ page[p].gig \in Gigs

\* The version of a row stands for its facts: who holds the version the row has now
\* holds its facts, too.
Holds(row, version, facts) ==
  /\ version \in Nat /\ version <= row.version
  /\ version = row.version => facts = row.facts

\* What a tab shows, types over, asks for and is answered.
TabKnows(p) ==
  LET pg == page[p]
      row == gig[pg.gig]
  IN /\ pg.data # Nil => /\ Holds(row, pg.data.row.version, pg.data.row.facts)
                         /\ pg.base = pg.data.row.facts
     /\ pg.ask.at = "facts" => Holds(row, pg.ask.version, pg.ask.base)
     /\ pg.ask.at = "answered" => Holds(row, pg.ask.data.row.version, pg.ask.data.row.facts)

FactsInv == GigsTyped /\ \A p \in Pages : TabKnows(p)

LEMMA LeastGig == ASSUME ShowConstants PROVE Min(Gigs) \in Gigs
<1>1. Gigs \in SUBSET Nat /\ Gigs # {}
  BY DEF ShowConstants
<1>2. \E g \in Gigs : \A h \in Gigs : <<h, g>> \notin OpToRel(<, Nat)
  BY <1>1, NatLessThanWellFounded, WFMin, Zenon
<1>3. PICK g \in Gigs : \A h \in Gigs : <<h, g>> \notin OpToRel(<, Nat)
  BY <1>2
<1>4. \A h \in Gigs : ~(h < g)
  BY <1>1, <1>3 DEF OpToRel
<1>5. \A h \in Gigs : g <= h
  BY <1>1, <1>4
<1> QED BY <1>5 DEF Min

LEMMA LaterVersion ==
  ASSUME NEW row, row.version \in Nat, now \in Nat
  PROVE  Versioned(row) \in Nat /\ Versioned(row) > row.version
<1> DEFINE a == now
           b == row.version + 1
<1>1. a \in Nat /\ b \in Nat /\ b > row.version
  OBVIOUS
<1>2. \E x \in {a, b} : \A y \in {a, b} : x >= y
  BY <1>1
<1>3. Max({a, b}) \in {a, b} /\ \A y \in {a, b} : Max({a, b}) >= y
  BY <1>2 DEF Max
<1> QED BY <1>1, <1>3 DEF Versioned

LEMMA FactsStart == ASSUME ShowConstants, ShowInit PROVE FactsInv
<1>1. Min(Gigs) \in Gigs
  BY LeastGig
<1>2. GigsTyped
  BY <1>1 DEF ShowInit, GigsTyped, RowFields, PageFields
<1>3. \A p \in Pages : TabKnows(p)
  BY DEF ShowInit, TabKnows, AtRest
<1> QED BY <1>2, <1>3 DEF FactsInv

\* A row that is written gets a later version, unless its facts stay as they are.
Moves(row, new) ==
  /\ DOMAIN new = RowFields /\ new.version \in Nat
  /\ \/ new.version > row.version
     \/ new.version = row.version /\ new.facts = row.facts

LEMMA StillHolds ==
  ASSUME NEW row, NEW new, NEW v, NEW f, row.version \in Nat, Holds(row, v, f), Moves(row, new)
  PROVE  Holds(new, v, f)
BY DEF Holds, Moves

\* Tabs keep what they show; a request is over, or as it was.
TabsRest ==
  /\ page' = [p \in Pages |-> page'[p]]
  /\ \A p \in Pages : /\ DOMAIN page'[p] = PageFields /\ page'[p].gig = page[p].gig
                      /\ page'[p].data = page[p].data /\ page'[p].base = page[p].base
                      /\ page'[p].ask = page[p].ask \/ page'[p].ask.at \notin {"facts", "answered"}

\* Rows move, and pages stay or ask for nothing that rests on a row.
LEMMA RowsMove ==
  ASSUME FactsInv, now' \in Nat, gig' = [g \in Gigs |-> gig'[g]],
         \A g \in Gigs : Moves(gig[g], gig'[g]),
         TabsRest
  PROVE  FactsInv'
<1>1. GigsTyped'
  BY DEF GigsTyped, FactsInv, Moves, TabsRest
<1>2. ASSUME NEW p \in Pages PROVE TabKnows(p)'
  <2> DEFINE g == page[p].gig
  <2>1. g \in Gigs /\ gig[g].version \in Nat /\ Moves(gig[g], gig'[g]) /\ TabKnows(p)
    BY DEF FactsInv, GigsTyped
  <2>2. \A v, f : Holds(gig[g], v, f) => Holds(gig'[g], v, f)
    BY <2>1, StillHolds
  <2> HIDE DEF g
  <2>3. page'[p].gig = g
    BY DEF g, TabsRest
  <2>4. /\ page[p].data # Nil => /\ Holds(gig'[g], page[p].data.row.version, page[p].data.row.facts)
                                 /\ page[p].base = page[p].data.row.facts
        /\ page[p].ask.at = "facts" => Holds(gig'[g], page[p].ask.version, page[p].ask.base)
        /\ page[p].ask.at = "answered" => Holds(gig'[g], page[p].ask.data.row.version, page[p].ask.data.row.facts)
    BY <2>1, <2>2 DEF TabKnows, g
  <2>5. page'[p].data = page[p].data /\ page'[p].base = page[p].base
    BY DEF TabsRest
  <2>6. page'[p].ask = page[p].ask \/ page'[p].ask.at \notin {"facts", "answered"}
    BY DEF TabsRest
  <2>7. /\ page'[p].data # Nil => /\ Holds(gig'[g], page'[p].data.row.version, page'[p].data.row.facts)
                                  /\ page'[p].base = page'[p].data.row.facts
        /\ page'[p].ask.at = "facts" => Holds(gig'[g], page'[p].ask.version, page'[p].ask.base)
        /\ page'[p].ask.at = "answered" => Holds(gig'[g], page'[p].ask.data.row.version, page'[p].ask.data.row.facts)
    BY <2>4, <2>5, <2>6
  <2> QED BY <2>3, <2>7 DEF TabKnows, Holds
<1> QED BY <1>1, <1>2 DEF FactsInv


\* One tab changes and no row.
LEMMA TabMoves ==
  ASSUME FactsInv, NEW p \in Pages, NEW new, page' = [page EXCEPT ![p] = new], DOMAIN new = PageFields,
         new.gig = page[p].gig, UNCHANGED <<gig, now>>,
         /\ new.data # Nil => /\ Holds(gig[new.gig], new.data.row.version, new.data.row.facts)
                              /\ new.base = new.data.row.facts
         /\ new.ask.at = "facts" => Holds(gig[new.gig], new.ask.version, new.ask.base)
         /\ new.ask.at = "answered" => Holds(gig[new.gig], new.ask.data.row.version, new.ask.data.row.facts)
  PROVE  FactsInv'
<1>1. page = [q \in Pages |-> page[q]]
  BY DEF FactsInv, GigsTyped
<1>2. page' = [q \in Pages |-> page'[q]] /\ page'[p] = new /\ \A q \in Pages : q # p => page'[q] = page[q]
  BY <1>1
<1>3. GigsTyped'
  <2>1. \A q \in Pages : DOMAIN page'[q] = PageFields /\ page'[q].gig \in Gigs
    BY <1>2 DEF FactsInv, GigsTyped
  <2> QED BY <1>2, <2>1 DEF FactsInv, GigsTyped
<1>4. ASSUME NEW q \in Pages PROVE TabKnows(q)'
  <2>1. CASE q = p
    <3>1. gig' = gig /\ page'[q] = new
      BY <1>2, <2>1
    <3> QED BY <3>1 DEF TabKnows, Holds
  <2>2. CASE q # p
    <3>1. page'[q] = page[q] /\ gig' = gig /\ TabKnows(q)
      BY <1>2, <2>2 DEF FactsInv
    <3> QED BY <3>1 DEF TabKnows, Holds
  <2> QED BY <2>1, <2>2
<1> QED BY <1>3, <1>4 DEF FactsInv

LEMMA TabFields ==
  ASSUME FactsInv, NEW p \in Pages
  PROVE  /\ DOMAIN page[p] = PageFields /\ page[p].gig \in Gigs /\ TabKnows(p)
         /\ gig[page[p].gig].version \in Nat /\ DOMAIN gig[page[p].gig] = RowFields
BY DEF FactsInv, GigsTyped

\* What is read off the row now is held.
LEMMA ReadHolds ==
  ASSUME FactsInv, NEW g \in Gigs
  PROVE  Snapshot(g).row = gig[g] /\ Holds(gig[g], gig[g].version, gig[g].facts)
BY DEF FactsInv, GigsTyped, Holds, Snapshot

\* The answer to a request and the page itself are shown in the same way.
LEMMA ShownHolds ==
  ASSUME FactsInv, NEW p \in Pages, NEW data, Holds(gig[page[p].gig], data.row.version, data.row.facts),
         NEW new, new = Shown(page[p], data)
  PROVE  /\ DOMAIN new = PageFields /\ new.gig = page[p].gig /\ new.ask = page[p].ask
         /\ new.data = data /\ new.base = data.row.facts
<1>1. DOMAIN page[p] = PageFields /\ TabKnows(p)
  BY TabFields
<1>2. page[p].data # Nil => page[p].base = page[p].data.row.facts
  BY <1>1 DEF TabKnows
<1> QED BY <1>1, <1>2 DEF Shown, PageFields

LEMMA RefreshSafe == ASSUME FactsInv, NEW p \in Pages, Refresh(p) PROVE FactsInv'
<1> DEFINE data == Snapshot(page[p].gig)
           new == Shown(page[p], data)
<1>1. Holds(gig[page[p].gig], data.row.version, data.row.facts) /\ TabKnows(p)
  BY TabFields, ReadHolds
<1>2. /\ DOMAIN new = PageFields /\ new.gig = page[p].gig /\ new.ask = page[p].ask
      /\ new.data = data /\ new.base = data.row.facts
  BY <1>1, ShownHolds
<1>3. page' = [page EXCEPT ![p] = new] /\ UNCHANGED <<gig, now>>
  BY DEF Refresh
<1> HIDE DEF new, data
<1>4. /\ new.data # Nil => /\ Holds(gig[new.gig], new.data.row.version, new.data.row.facts)
                           /\ new.base = new.data.row.facts
      /\ new.ask.at = "facts" => Holds(gig[new.gig], new.ask.version, new.ask.base)
      /\ new.ask.at = "answered" => Holds(gig[new.gig], new.ask.data.row.version, new.ask.data.row.facts)
  BY <1>1, <1>2 DEF TabKnows
<1> QED BY <1>2, <1>3, <1>4, TabMoves

LEMMA AskSafe ==
  ASSUME FactsInv, NEW p \in Pages, NEW ask, Ask(p, ask), ask.at # "answered",
         ask.at = "facts" => Holds(gig[page[p].gig], ask.version, ask.base)
  PROVE  FactsInv'
<1> DEFINE new == [page[p] EXCEPT !.ask = ask, !.asked = @ + 1]
<1>1. DOMAIN page[p] = PageFields /\ TabKnows(p) /\ page = [q \in Pages |-> page[q]]
  BY TabFields DEF FactsInv, GigsTyped
<1>2. /\ DOMAIN new = PageFields /\ new.gig = page[p].gig /\ new.ask = ask
      /\ new.data = page[p].data /\ new.base = page[p].base
  BY <1>1 DEF PageFields
<1>3. page' = [page EXCEPT ![p] = new] /\ UNCHANGED <<gig, now>>
  BY <1>1 DEF Ask
<1> HIDE DEF new
<1>4. /\ new.data # Nil => /\ Holds(gig[new.gig], new.data.row.version, new.data.row.facts)
                           /\ new.base = new.data.row.facts
      /\ new.ask.at = "facts" => Holds(gig[new.gig], new.ask.version, new.ask.base)
      /\ new.ask.at = "answered" => Holds(gig[new.gig], new.ask.data.row.version, new.ask.data.row.facts)
  BY <1>1, <1>2 DEF TabKnows
<1> QED BY <1>2, <1>3, <1>4, TabMoves

LEMMA SaveSafe == ASSUME FactsInv, NEW p \in Pages, Save(p) PROVE FactsInv'
<1>1. PICK f \in Facts :
        Ask(p, [at |-> "facts", facts |-> f, base |-> page[p].base, version |-> page[p].data.row.version])
  BY DEF Save
<1>2. page[p].data # Nil /\ TabKnows(p)
  BY TabFields DEF Save
<1>3. Holds(gig[page[p].gig], page[p].data.row.version, page[p].base)
  BY <1>2 DEF TabKnows
<1> QED BY <1>1, <1>3, AskSafe

LEMMA PositionSafe == ASSUME FactsInv, NEW p \in Pages, Position(p) PROVE FactsInv'
<1>1. \E item : Ask(p, [at |-> "position", item |-> item])
  BY DEF Position
<1> QED BY <1>1, AskSafe

\* A request that goes on or ends rests on no row any more, or on the row of now.
LEMMA RequestMoves ==
  ASSUME FactsInv, NEW p \in Pages, NEW ask, page' = [page EXCEPT ![p].ask = ask], UNCHANGED <<gig, now>>,
         ask.at # "facts",
         ask.at = "answered" => Holds(gig[page[p].gig], ask.data.row.version, ask.data.row.facts)
  PROVE  FactsInv'
<1> DEFINE new == [page[p] EXCEPT !.ask = ask]
<1>1. DOMAIN page[p] = PageFields /\ TabKnows(p) /\ page = [q \in Pages |-> page[q]]
  BY TabFields DEF FactsInv, GigsTyped
<1>2. /\ DOMAIN new = PageFields /\ new.gig = page[p].gig /\ new.ask = ask
      /\ new.data = page[p].data /\ new.base = page[p].base
  BY <1>1 DEF PageFields
<1>3. page' = [page EXCEPT ![p] = new]
  BY <1>1
<1> HIDE DEF new
<1>4. /\ new.data # Nil => /\ Holds(gig[new.gig], new.data.row.version, new.data.row.facts)
                           /\ new.base = new.data.row.facts
      /\ new.ask.at = "facts" => Holds(gig[new.gig], new.ask.version, new.ask.base)
      /\ new.ask.at = "answered" => Holds(gig[new.gig], new.ask.data.row.version, new.ask.data.row.facts)
  BY <1>1, <1>2 DEF TabKnows
<1> QED BY <1>2, <1>3, <1>4, TabMoves


LEMMA RequestSteps ==
  ASSUME FactsInv, NEW p \in Pages, ReadSet(p) \/ ReadDayOf(p) \/ LoseAnswer(p)
  PROVE  FactsInv'
<1>1. UNCHANGED <<gig, now>>
  BY DEF ReadSet, ReadDayOf, LoseAnswer
<1> DEFINE g == page[p].gig
           Next(ask) == /\ page' = [page EXCEPT ![p].ask = ask] /\ ask.at # "facts"
                        /\ ask.at = "answered" => Holds(gig[g], ask.data.row.version, ask.data.row.facts)
<1>2. ASSUME Refused(p) PROVE \E ask : Next(ask)
  <2>1. page' = [page EXCEPT ![p].ask = AtRest] /\ AtRest.at = "idle"
    BY <1>2 DEF Refused, AtRest
  <2> QED BY <2>1
<1>3. ASSUME Answered(p) PROVE \E ask : Next(ask)
  <2>1. page' = [page EXCEPT ![p].ask = [at |-> "answering"]] /\ [at |-> "answering"].at = "answering"
    BY <1>3 DEF Answered
  <2> QED BY <2>1
<1>4. ASSUME NEW item, page' = [page EXCEPT ![p].ask = [at |-> "positioning", item |-> item]]
      PROVE  \E ask : Next(ask)
  <2>1. [at |-> "positioning", item |-> item].at = "positioning"
    OBVIOUS
  <2> QED BY <1>4, <2>1
<1>5. ASSUME page' = [page EXCEPT ![p].ask = [at |-> "answered", data |-> Snapshot(g)]]
      PROVE  \E ask : Next(ask)
  <2>1. Holds(gig[g], Snapshot(g).row.version, Snapshot(g).row.facts)
    BY TabFields, ReadHolds
  <2>2. [at |-> "answered", data |-> Snapshot(g)].at = "answered"
        /\ [at |-> "answered", data |-> Snapshot(g)].data = Snapshot(g)
    OBVIOUS
  <2> QED BY <1>5, <2>1, <2>2
<1>6. \E ask : Next(ask)
  BY <1>2, <1>3, <1>4, <1>5 DEF ReadSet, ReadDayOf, LoseAnswer
<1>7. PICK ask : Next(ask)
  BY <1>6
<1> QED BY <1>1, <1>7, RequestMoves

LEMMA DeliverSafe == ASSUME FactsInv, NEW p \in Pages, Deliver(p) PROVE FactsInv'
<1> DEFINE data == page[p].ask.data
           shown == Shown(page[p], data)
           new == [shown EXCEPT !.ask = AtRest]
<1>1. TabKnows(p) /\ page[p].ask.at = "answered"
  BY TabFields DEF Deliver
<1>2. Holds(gig[page[p].gig], data.row.version, data.row.facts)
  BY <1>1 DEF TabKnows
<1>3. /\ DOMAIN shown = PageFields /\ shown.gig = page[p].gig
      /\ shown.data = data /\ shown.base = data.row.facts
  BY <1>2, ShownHolds
<1>4. page' = [page EXCEPT ![p] = new] /\ UNCHANGED <<gig, now>>
  BY DEF Deliver
<1> HIDE DEF data, shown
<1>5. /\ DOMAIN new = PageFields /\ new.gig = page[p].gig /\ new.ask = AtRest
      /\ new.data = data /\ new.base = data.row.facts
  BY <1>3 DEF PageFields
<1> HIDE DEF new
<1>6. new.ask.at \notin {"facts", "answered"}
  BY <1>5 DEF AtRest
<1>7. new.data # Nil => /\ Holds(gig[new.gig], new.data.row.version, new.data.row.facts)
                        /\ new.base = new.data.row.facts
  BY <1>2, <1>5
<1> QED BY <1>4, <1>5, <1>6, <1>7, TabMoves

\* A tab whose request is over for now, or nothing of any tab.
LEMMA TabsAfter ==
  ASSUME FactsInv, UNCHANGED page \/ \E p \in Pages : Answered(p) \/ Refused(p)
  PROVE  TabsRest
<1>1. page = [q \in Pages |-> page[q]] /\ \A q \in Pages : DOMAIN page[q] = PageFields
  BY DEF FactsInv, GigsTyped
<1>2. CASE UNCHANGED page
  BY <1>1, <1>2 DEF TabsRest
<1>3. ASSUME NEW p \in Pages, NEW ask, ask.at \notin {"facts", "answered"}, page' = [page EXCEPT ![p].ask = ask]
      PROVE  TabsRest
  BY <1>1, <1>3 DEF PageFields, TabsRest
<1>4. ASSUME NEW p \in Pages, Answered(p) \/ Refused(p) PROVE TabsRest
  <2>1. [at |-> "answering"].at \notin {"facts", "answered"} /\ AtRest.at \notin {"facts", "answered"}
    BY DEF AtRest
  <2>2. CASE Answered(p)
    BY <1>3, <2>1, <2>2 DEF Answered
  <2>3. CASE Refused(p)
    BY <1>3, <2>1, <2>3 DEF Refused
  <2> QED BY <1>4, <2>2, <2>3
<1> QED BY <1>2, <1>4

\* One row is written, the others stay.
LEMMA RowMoves ==
  ASSUME FactsInv, NEW g \in Gigs, NEW new, Moves(gig[g], new), gig' = [gig EXCEPT ![g] = new]
  PROVE  gig' = [h \in Gigs |-> gig'[h]] /\ gig'[g] = new /\ \A h \in Gigs : Moves(gig[h], gig'[h])
<1>1. gig = [h \in Gigs |-> gig[h]] /\ \A h \in Gigs : Moves(gig[h], gig[h])
  BY DEF FactsInv, GigsTyped, Moves
<1> QED BY <1>1

LEMMA RecordSafe ==
  ASSUME FactsInv, NEW p \in Pages, RecordFacts(p)
  PROVE  FactsInv' /\ FactsStep
<1> DEFINE g == page[p].gig
           ask == page[p].ask
           new == [gig[g] EXCEPT !.facts = ask.facts, !.version = Versioned(gig[g])]
<1>1. /\ g \in Gigs /\ gig[g].version \in Nat /\ DOMAIN gig[g] = RowFields /\ TabKnows(p)
      /\ gig = [h \in Gigs |-> gig[h]] /\ now \in Nat
  BY TabFields DEF FactsInv, GigsTyped
<1>2. ask.at = "facts" /\ now' = now /\ (Answered(p) \/ Refused(p))
  BY DEF RecordFacts
<1>3. \A h \in Gigs : Moves(gig[h], gig[h])
  BY DEF FactsInv, GigsTyped, Moves
<1>4. CASE gig' = gig
  BY <1>1, <1>2, <1>3, <1>4, TabsAfter, RowsMove DEF FactsStep
<1>5. CASE FactsAllowed(gig[g], now) /\ Current(gig[g], ask.version) /\ gig' = [gig EXCEPT ![g] = new]
  <2>1. Versioned(gig[g]) \in Nat /\ Versioned(gig[g]) > gig[g].version
    BY <1>1, LaterVersion
  <2>2. DOMAIN new = RowFields /\ new.version = Versioned(gig[g]) /\ new.facts = ask.facts
    BY <1>1 DEF RowFields
  <2>3. ask.base = gig[g].facts
    BY <1>1, <1>2, <1>5 DEF TabKnows, Holds, Current
  <2> HIDE DEF new
  <2>4. Moves(gig[g], new)
    BY <2>1, <2>2 DEF Moves
  <2>5. gig' = [h \in Gigs |-> gig'[h]] /\ gig'[g] = new /\ \A h \in Gigs : Moves(gig[h], gig'[h])
    BY <1>1, <1>5, <2>4, RowMoves
  <2>6. FactsInv'
    BY <1>1, <1>2, <2>5, TabsAfter, RowsMove
  <2>7. \A h \in Gigs : h # g => gig'[h] = gig[h]
    BY <1>1, <1>5
  <2>8. FactsStep
    <3> SUFFICES ASSUME NEW h \in Gigs, gig'[h].facts # gig[h].facts
                 PROVE  /\ FactsAllowed(gig[h], now)
                        /\ page[p].gig = h /\ page[p].ask.at = "facts"
                        /\ page[p].ask.base = gig[h].facts /\ page[p].ask.facts = gig'[h].facts
      BY DEF FactsStep
    <3>1. h = g
      BY <2>7
    <3> QED BY <1>2, <1>5, <2>2, <2>3, <2>5, <3>1
  <2> QED BY <2>6, <2>8
<1>6. gig' = gig \/ (FactsAllowed(gig[g], now) /\ Current(gig[g], ask.version) /\ gig' = [gig EXCEPT ![g] = new])
  <2>1. (UNCHANGED gig \/ gig' = [gig EXCEPT ![g].facts = ask.facts, ![g].version = Versioned(gig[g])])
        /\ (UNCHANGED gig \/ (FactsAllowed(gig[g], now) /\ Current(gig[g], ask.version)))
    BY DEF RecordFacts
  <2>2. [gig EXCEPT ![g].facts = ask.facts, ![g].version = Versioned(gig[g])] = [gig EXCEPT ![g] = new]
    BY <1>1 DEF RowFields
  <2> QED BY <2>1, <2>2
<1> QED BY <1>4, <1>5, <1>6

\* Every other write to a row leaves its facts and stamps it later, or not at all.
LEMMA OtherWrites ==
  ASSUME FactsInv, now' \in Nat, gig' = [g \in Gigs |-> gig'[g]],
         \A g \in Gigs : Moves(gig[g], gig'[g]) /\ gig'[g].facts = gig[g].facts,
         UNCHANGED page \/ \E p \in Pages : Answered(p) \/ Refused(p)
  PROVE  FactsInv' /\ FactsStep
<1>1. FactsInv'
  BY TabsAfter, RowsMove
<1> QED BY <1>1 DEF FactsStep


LEMMA SameRow ==
  ASSUME FactsInv
  PROVE  gig = [g \in Gigs |-> gig[g]] /\ \A g \in Gigs : Moves(gig[g], gig[g])
BY DEF FactsInv, GigsTyped, Moves

\* A write that stamps the clock: later than the row was written, and about other fields.
LEMMA StampedMoves ==
  ASSUME FactsInv, NEW g \in Gigs, FreshStamp(g), NEW row, DOMAIN row = RowFields, row.facts = gig[g].facts,
         now' = now, gig' = [gig EXCEPT ![g] = Stamped(row)],
         UNCHANGED page \/ \E p \in Pages : Answered(p) \/ Refused(p)
  PROVE  FactsInv' /\ FactsStep
<1> DEFINE new == Stamped(row)
<1>1. now \in Nat /\ gig[g].version \in Nat /\ gig[g].version < now /\ gig = [h \in Gigs |-> gig[h]]
  BY DEF FactsInv, GigsTyped, FreshStamp
<1>2. DOMAIN new = RowFields /\ new.version = now /\ new.facts = gig[g].facts
  BY DEF Stamped, RowFields
<1> HIDE DEF new
<1>3. Moves(gig[g], new)
  BY <1>1, <1>2 DEF Moves
<1>4. gig' = [gig EXCEPT ![g] = new]
  BY DEF new
<1>5. gig' = [h \in Gigs |-> gig'[h]] /\ gig'[g] = new /\ \A h \in Gigs : Moves(gig[h], gig'[h])
  BY <1>3, <1>4, RowMoves
<1>6. \A h \in Gigs : gig'[h].facts = gig[h].facts
  BY <1>1, <1>2, <1>4, <1>5
<1> QED BY <1>1, <1>5, <1>6, OtherWrites

LEMMA CursorSafe == ASSUME FactsInv, NEW p \in Pages, WriteCursor(p) PROVE FactsInv' /\ FactsStep
<1> DEFINE g == page[p].gig
           row == [gig[g] EXCEPT !.cursor = page[p].ask.item]
<1>1. g \in Gigs /\ FreshStamp(g) /\ now' = now /\ (Answered(p) \/ Refused(p)) /\ now \in Nat
      /\ DOMAIN gig[g] = RowFields
  BY TabFields DEF WriteCursor, FactsInv, GigsTyped
<1>2. CASE gig' = gig
  BY <1>1, <1>2, SameRow, OtherWrites
<1>3. CASE gig' = [gig EXCEPT ![g] = Stamped(row)]
  <2>1. DOMAIN row = RowFields /\ row.facts = gig[g].facts
    BY <1>1 DEF RowFields
  <2> QED BY <1>1, <1>3, <2>1, StampedMoves
<1> QED BY <1>2, <1>3 DEF WriteCursor

LEMMA PatchedRow ==
  ASSUME NEW row, DOMAIN row = RowFields, NEW f \in {"status", "start", "end", "set"}, NEW v
  PROVE  /\ DOMAIN [row EXCEPT ![f] = v] = RowFields /\ [row EXCEPT ![f] = v].facts = row.facts
         /\ DOMAIN [row EXCEPT ![f] = v, !.cursor = Nil] = RowFields
         /\ [row EXCEPT ![f] = v, !.cursor = Nil].facts = row.facts
BY DEF RowFields

\* A patch under way was asked for, and of a show there is.
PatchAsked == patch.at = "read" => patch.gig \in Gigs /\ patch.patch \in Patches

LEMMA PatchSafe == ASSUME ShowConstants, FactsInv, PatchAsked, WritePatch PROVE FactsInv' /\ FactsStep
<1> DEFINE g == patch.gig
           x == patch.patch
<1>1. g \in Gigs /\ FreshStamp(g) /\ now' = now /\ UNCHANGED page
      /\ x.field \in {"status", "start", "end", "set"}
  BY DEF WritePatch, PatchAsked, ShowConstants
<1>2. DOMAIN gig[g] = RowFields
  BY <1>1 DEF FactsInv, GigsTyped
<1>3. \E row : /\ gig' = [gig EXCEPT ![g] = Stamped(row)]
               /\ DOMAIN row = RowFields /\ row.facts = gig[g].facts
  <2>1. \/ gig' = [gig EXCEPT ![g] = Stamped([gig[g] EXCEPT ![x.field] = x.value, !.cursor = Nil])]
        \/ gig' = [gig EXCEPT ![g] = Stamped([gig[g] EXCEPT ![x.field] = x.value])]
    BY DEF WritePatch
  <2>2. /\ DOMAIN [gig[g] EXCEPT ![x.field] = x.value] = RowFields
        /\ [gig[g] EXCEPT ![x.field] = x.value].facts = gig[g].facts
        /\ DOMAIN [gig[g] EXCEPT ![x.field] = x.value, !.cursor = Nil] = RowFields
        /\ [gig[g] EXCEPT ![x.field] = x.value, !.cursor = Nil].facts = gig[g].facts
    BY <1>1, <1>2, PatchedRow
  <2> QED BY <2>1, <2>2
<1> HIDE DEF g
<1> QED BY <1>1, <1>3, StampedMoves

LEMMA OrderSafe == ASSUME FactsInv, SaveOrder PROVE FactsInv' /\ FactsStep
<1>1. UNCHANGED page /\ now' = now /\ now \in Nat
      /\ \E s \in Sets : gig' = [g \in Gigs |-> IF gig[g].cursor \in Range(order[s])
                                              THEN [gig[g] EXCEPT !.cursor = Nil] ELSE gig[g]]
  BY DEF SaveOrder, FactsInv, GigsTyped
<1>2. \A g \in Gigs : DOMAIN gig[g] = RowFields /\ gig[g].version \in Nat
  BY DEF FactsInv, GigsTyped
<1>3. \A g \in Gigs : /\ Moves(gig[g], gig[g])
                      /\ Moves(gig[g], [gig[g] EXCEPT !.cursor = Nil])
                      /\ [gig[g] EXCEPT !.cursor = Nil].facts = gig[g].facts
  BY <1>2 DEF Moves, RowFields
<1>4. PICK s \in Sets : gig' = [g \in Gigs |-> IF gig[g].cursor \in Range(order[s])
                                              THEN [gig[g] EXCEPT !.cursor = Nil] ELSE gig[g]]
  BY <1>1
<1>5. gig' = [g \in Gigs |-> gig'[g]] /\ \A g \in Gigs : Moves(gig[g], gig'[g]) /\ gig'[g].facts = gig[g].facts
  BY <1>3, <1>4
<1> QED BY <1>1, <1>5, OtherWrites

LEMMA RestSafe == ASSUME FactsInv, ReadPatch \/ Settle \/ Tick \/ UNCHANGED showVars PROVE FactsInv' /\ FactsStep
<1>1. gig' = gig /\ page' = page /\ (now' = now \/ now' = now + 1) /\ now \in Nat
  BY DEF ReadPatch, Settle, Tick, showVars, FactsInv, GigsTyped
<1> QED BY <1>1, SameRow, OtherWrites

LEMMA PatchAskedKept == ASSUME PatchAsked, ShowNext \/ UNCHANGED showVars PROVE PatchAsked'
<1>1. CASE ReadPatch
  BY <1>1 DEF ReadPatch, PatchAsked
<1>2. CASE WritePatch
  <2>1. patch' = AtRest /\ AtRest.at = "idle"
    BY <1>2 DEF WritePatch, AtRest
  <2> QED BY <2>1 DEF PatchAsked
<1>3. CASE UNCHANGED patch
  BY <1>3 DEF PatchAsked
<1> QED BY <1>1, <1>2, <1>3
     DEF ShowNext, showVars, Refresh, Save, Position, Ask, RecordFacts, ReadSet, WriteCursor, ReadDayOf, Deliver,
         LoseAnswer, SaveOrder, Settle, Tick

LEMMA ShowStep ==
  ASSUME ShowConstants, FactsInv, PatchAsked, ShowNext \/ UNCHANGED showVars
  PROVE  FactsInv' /\ (FactsStep \/ UNCHANGED showVars)
<1>1. ASSUME NEW p \in Pages, Refresh(p) \/ Save(p) \/ Position(p) \/ ReadSet(p) \/ ReadDayOf(p) \/ Deliver(p)
                              \/ LoseAnswer(p)
      PROVE  FactsInv' /\ FactsStep
  <2>1. FactsInv'
    BY <1>1, RefreshSafe, SaveSafe, PositionSafe, RequestSteps, DeliverSafe
  <2>2. gig' = gig
    BY <1>1 DEF Refresh, Save, Position, Ask, ReadSet, ReadDayOf, Deliver, LoseAnswer
  <2> QED BY <2>1, <2>2 DEF FactsStep
<1>2. ASSUME NEW p \in Pages, RecordFacts(p) \/ WriteCursor(p) PROVE FactsInv' /\ FactsStep
  BY <1>2, RecordSafe, CursorSafe
<1> QED BY <1>1, <1>2, PatchSafe, OrderSafe, RestSafe DEF ShowNext

\* However many tabs, patches and cursor moves there are, and however late or lost their
\* answers: the facts of a show are written over by a save only that was typed over the
\* facts that were there, never before the show started or was closed (recordAfterShow
\* under the version the page holds).
THEOREM FactsSeenAlways ==
  ASSUME ShowConstants
  PROVE  ShowSpec => [][FactsStep]_showVars
<1>1. ShowInit => FactsInv /\ PatchAsked
  <2>1. ShowInit => PatchAsked
    BY DEF ShowInit, PatchAsked, AtRest
  <2> QED BY <2>1, FactsStart
<1>2. FactsInv /\ PatchAsked /\ [ShowNext]_showVars => (FactsInv /\ PatchAsked)' /\ [FactsStep]_showVars
  BY ShowStep, PatchAskedKept
<1> QED BY <1>1, <1>2, PTL DEF ShowSpec

-----------------------------------------------------------------------------
(* What is next of the shows                                                *)

Moments == Int \union {Nil}
Timed(shows) == \A g \in Gigs : shows[g].start \in Moments
Ahead(shows, t, g, h) ==
  LET p == Phase(shows[g], t)
      q == Phase(shows[h], t)
  IN \/ PhaseOrder[p] < PhaseOrder[q]
     \/ p = q /\ p = "upcoming" /\ shows[g].start < shows[h].start
     \/ p = q /\ p # "upcoming" /\ shows[g].start > shows[h].start
     \/ p = q /\ shows[g].start = shows[h].start /\ g < h
DatedOf(shows, t) == {g \in Gigs : Phase(shows[g], t) # "none"}

\* What a phase says of the times of a row.
LEMMA PhaseIs ==
  ASSUME NEW row, row.start \in Moments, NEW t \in Nat
  PROVE  /\ Phase(row, t) \in {"none", "upcoming", "live", "overdue"}
         /\ Phase(row, t) = "none" <=> row.status \notin Active \/ row.start = Nil
         /\ Phase(row, t) \in {"live", "overdue"} => row.start # Nil /\ row.start <= t
         /\ Phase(row, t) = "upcoming" => row.start # Nil /\ row.start > t
<1> DEFINE off == row.status \notin Active \/ row.start = Nil
           later == row.start > t
           on == row.start <= t /\ row.end # Nil /\ row.end >= t
<1>1. off => Phase(row, t) = "none"
  BY DEF Phase
<1>2. ~off => row.start \in Int
  BY DEF Moments
<1>3. ~off /\ later => Phase(row, t) = "upcoming"
  BY <1>2 DEF Phase
<1>4. ~off /\ ~later /\ on => Phase(row, t) = "live"
  BY <1>2 DEF Phase
<1>5. ~off /\ ~later /\ ~on => Phase(row, t) = "overdue"
  BY <1>2 DEF Phase
<1>6. ~off /\ ~later => row.start <= t
  BY <1>2
<1> QED BY <1>1, <1>3, <1>4, <1>5, <1>6

LEMMA Ranks ==
  /\ PhaseOrder["live"] = 0 /\ PhaseOrder["overdue"] = 1 /\ PhaseOrder["upcoming"] = 2
BY DEF PhaseOrder

LEMMA AheadOrders ==
  ASSUME ShowConstants, NEW shows, Timed(shows), NEW t \in Nat,
         NEW g \in DatedOf(shows, t), NEW h \in DatedOf(shows, t)
  PROVE  /\ g # h => Ahead(shows, t, g, h) \/ Ahead(shows, t, h, g)
         /\ ~(Ahead(shows, t, g, h) /\ Ahead(shows, t, h, g))
         /\ \A k \in DatedOf(shows, t) : Ahead(shows, t, g, h) /\ Ahead(shows, t, h, k) => Ahead(shows, t, g, k)
<1>1. \A x \in DatedOf(shows, t) :
        /\ x \in Nat /\ shows[x].start \in Int
        /\ Phase(shows[x], t) \in {"upcoming", "live", "overdue"}
  <2> SUFFICES ASSUME NEW x \in DatedOf(shows, t)
               PROVE  /\ x \in Nat /\ shows[x].start \in Int
                      /\ Phase(shows[x], t) \in {"upcoming", "live", "overdue"}
    OBVIOUS
  <2>1. x \in Gigs /\ x \in Nat /\ shows[x].start \in Moments /\ Phase(shows[x], t) # "none"
    BY DEF DatedOf, ShowConstants, Timed
  <2> QED BY <2>1, PhaseIs DEF Moments
<1> HIDE DEF DatedOf
<1>2. g # h => Ahead(shows, t, g, h) \/ Ahead(shows, t, h, g)
  BY <1>1, Ranks DEF Ahead
<1>3. ~(Ahead(shows, t, g, h) /\ Ahead(shows, t, h, g))
  BY <1>1, Ranks DEF Ahead
<1>4. ASSUME NEW k \in DatedOf(shows, t), Ahead(shows, t, g, h), Ahead(shows, t, h, k)
      PROVE  Ahead(shows, t, g, k)
  BY <1>1, <1>4, Ranks DEF Ahead
<1> QED BY <1>2, <1>3, <1>4

\* Of the shows that are dated one is ahead of all others.
LEMMA OneAhead ==
  ASSUME ShowConstants, NEW shows, Timed(shows), NEW t \in Nat, DatedOf(shows, t) # {}
  PROVE  \E g \in DatedOf(shows, t) : \A h \in DatedOf(shows, t) \ {g} : Ahead(shows, t, g, h)
<1> DEFINE D == DatedOf(shows, t)
           Led(S) == \E g \in S : \A h \in S \ {g} : Ahead(shows, t, g, h)
           Bad == {S \in SUBSET D : S # {} /\ ~Led(S)}
<1>1. SUFFICES ASSUME Bad # {} PROVE FALSE
  OBVIOUS
<1>2. PICK B \in Bad : \A A \in Bad : A \subseteq B => A = B
  <2>1. IsFiniteSet(D)
    <3>1. IsFiniteSet(Gigs)
      BY DEF ShowConstants
    <3>2. D \subseteq Gigs
      BY DEF DatedOf
    <3> HIDE DEF D
    <3> QED BY <3>1, <3>2, FS_Subset
  <2>2. Bad \in SUBSET SUBSET D
    OBVIOUS
  <2> HIDE DEF Bad
  <2> QED BY <1>1, <2>1, <2>2, LeastSubset
<1>3. PICK x \in B : TRUE
  OBVIOUS
<1>4. B \subseteq D
  OBVIOUS
<1>5. CASE B = {x}
  BY <1>5
<1>6. CASE B # {x}
  <2>1. B \ {x} # {} /\ B \ {x} \in SUBSET D /\ B \ {x} # B
    BY <1>3, <1>6
  <2>2. Led(B \ {x})
    BY <1>2, <2>1
  <2>3. PICK m \in B \ {x} : \A h \in (B \ {x}) \ {m} : Ahead(shows, t, m, h)
    BY <2>2
  <2>4. Ahead(shows, t, m, x) \/ Ahead(shows, t, x, m)
    BY <1>3, <1>4, <2>3, AheadOrders
  <2>5. CASE Ahead(shows, t, m, x)
    BY <2>3, <2>5
  <2>6. CASE Ahead(shows, t, x, m)
    <3>1. \A h \in B \ {x} : Ahead(shows, t, x, h)
      BY <1>3, <1>4, <2>3, <2>6, AheadOrders
    <3> QED BY <1>3, <3>1
  <2> QED BY <2>4, <2>5, <2>6
<1> QED BY <1>5, <1>6

\* The two halves of what is next agree with the operators above.
LEMMA AheadIs ==
  /\ Dated = DatedOf(gig, now)
  /\ \A g, h : Before(g, h) <=> Ahead(gig, now, g, h)
BY DEF Dated, DatedOf, Before, Ahead

LEMMA SelectedFirst ==
  ASSUME ShowConstants, Timed(gig), now \in Nat, Dated # {}
  PROVE  Selected \in Dated /\ \A h \in Dated \ {Selected} : Ahead(gig, now, Selected, h)
<1>1. \E g \in Dated : \A h \in Dated \ {g} : Before(g, h)
  BY AheadIs, OneAhead
<1>2. Selected \in Dated /\ \A h \in Dated \ {Selected} : Before(Selected, h)
  BY <1>1 DEF Selected
<1> QED BY <1>2, AheadIs

LEMMA SelectedFirstNext ==
  ASSUME ShowConstants, Timed(gig'), now' \in Nat, DatedOf(gig', now') # {}
  PROVE  /\ Selected' \in DatedOf(gig', now')
         /\ \A h \in DatedOf(gig', now') \ {Selected'} : Ahead(gig', now', Selected', h)
<1> DEFINE D == DatedOf(gig', now')
           First == CHOOSE g \in D : \A h \in D \ {g} : Ahead(gig', now', g, h)
<1>1. \E g \in D : \A h \in D \ {g} : Ahead(gig', now', g, h)
  BY OneAhead
<1>2. First \in D /\ \A h \in D \ {First} : Ahead(gig', now', First, h)
  <2> HIDE DEF D
  <2> QED BY <1>1
<1>3. Selected' = First
  BY DEF Selected, Dated, DatedOf, Before, Ahead
<1> QED BY <1>2, <1>3

\* The selected show is of the first phase there is.
LEMMA SelectedPhase ==
  ASSUME ShowConstants, Timed(gig), now \in Nat, NEW g \in Gigs
  PROVE  /\ Phase(gig[g], now) = "live" => Dated # {} /\ Phase(gig[Selected], now) = "live"
         /\ Phase(gig[g], now) = "overdue" => Dated # {} /\ Phase(gig[Selected], now) \in {"live", "overdue"}
<1>1. SUFFICES ASSUME Phase(gig[g], now) \in {"live", "overdue"}
               PROVE  /\ Phase(gig[g], now) = "live" => Dated # {} /\ Phase(gig[Selected], now) = "live"
                      /\ Phase(gig[g], now) = "overdue" => Dated # {} /\ Phase(gig[Selected], now) \in {"live", "overdue"}
  OBVIOUS
<1>2. g \in Dated
  BY <1>1 DEF Dated
<1>3. Selected \in Dated /\ (g # Selected => Ahead(gig, now, Selected, g))
  BY <1>2, SelectedFirst
<1>4. CASE g = Selected
  BY <1>1, <1>2, <1>4
<1>5. CASE g # Selected
  <2>1. Selected \in Gigs /\ gig[Selected].start \in Moments /\ Phase(gig[Selected], now) # "none"
    BY <1>3 DEF Dated, Timed
  <2>2. Phase(gig[Selected], now) \in {"upcoming", "live", "overdue"}
    BY <2>1, PhaseIs
  <2>3. Ahead(gig, now, Selected, g)
    BY <1>3, <1>5
  <2> HIDE DEF Phase
  <2>4. \/ PhaseOrder[Phase(gig[Selected], now)] < PhaseOrder[Phase(gig[g], now)]
        \/ Phase(gig[Selected], now) = Phase(gig[g], now)
    BY <2>3 DEF Ahead
  <2> QED BY <1>1, <1>2, <2>2, <2>4, Ranks
<1> QED BY <1>4, <1>5

LEMMA WrapUpIs ==
  ASSUME NEW row, NEW t \in Nat, row.start \in Moments
  PROVE  WrapUp(row, t) <=> FactsAllowed(row, t)
<1>1. Phase(row, t) # "closed"
  <2>1. Phase(row, t) \in {"none", "upcoming", "live", "overdue"}
    BY PhaseIs
  <2> QED BY <2>1
<1> QED BY <1>1 DEF WrapUp, FactsAllowed

LEMMA Advised ==
  ASSUME ShowConstants, Timed(gig), now \in Nat
  PROVE  NeverBuried
<1> DEFINE overdue == {g \in Gigs : Phase(gig[g], now) = "overdue"}
           live == {g \in Gigs : Phase(gig[g], now) = "live"}
<1>1. \A g \in Gigs : WrapUp(gig[g], now) <=> FactsAllowed(gig[g], now)
  BY WrapUpIs DEF Timed
<1>2. live # {} => Advice = "open_day_of"
  <2> SUFFICES ASSUME NEW g \in live PROVE Advice = "open_day_of"
    OBVIOUS
  <2>1. Dated # {} /\ Phase(gig[Selected], now) = "live"
    BY SelectedPhase
  <2> QED BY <2>1 DEF Advice
<1>3. ASSUME live = {}, NEW g \in overdue
      PROVE  /\ Advice \in {"review_overdue_gig", "after_show_settlement",
                            "finalize_settlement", "after_show_recorded"}
             /\ WrapUp(gig[Selected], now)
             /\ (\A h \in overdue : gig[h].facts = NoFacts) => Advice = "review_overdue_gig"
  <2>1. Dated # {} /\ Phase(gig[Selected], now) \in {"live", "overdue"}
    BY SelectedPhase
  <2>2. Selected \in Dated
    BY <2>1, SelectedFirst
  <2>3. Selected \in Gigs
    BY <2>2 DEF Dated
  <2>4. Phase(gig[Selected], now) = "overdue"
    BY <1>3, <2>1, <2>3
  <2>5. gig[Selected].start # Nil /\ gig[Selected].start <= now
    BY <2>3, <2>4, PhaseIs DEF Timed
  <2>6. AfterShow(Selected) \in {"after_show_settlement", "finalize_settlement", "after_show_recorded"}
    <3>1. CASE settlements[Selected] = "draft"
      BY <3>1 DEF AfterShow
    <3>2. CASE settlements[Selected] = "none"
      BY <3>2 DEF AfterShow
    <3>3. CASE settlements[Selected] \notin {"draft", "none"}
      BY <3>3 DEF AfterShow
    <3> QED BY <3>1, <3>2, <3>3
  <2>7. Advice = IF gig[Selected].facts = NoFacts THEN "review_overdue_gig" ELSE AfterShow(Selected)
    BY <2>1, <2>4 DEF Advice
  <2>8. WrapUp(gig[Selected], now)
    BY <2>5 DEF WrapUp
  <2> QED BY <2>3, <2>4, <2>6, <2>7, <2>8
<1> QED BY <1>1, <1>2, <1>3 DEF NeverBuried

DayInv ==
  /\ FactsInv /\ PatchAsked /\ Timed(gig)
  /\ settlements \in [Gigs -> {"none", "draft", "finalized"}]

\* The times of a row, and what else its phase depends on.
Dates(row) == <<row.status, row.start, row.end>>

LEMMA SamePhase ==
  ASSUME NEW row, NEW new, Dates(new) = Dates(row), NEW t
  PROVE  Phase(new, t) = Phase(row, t)
<1>1. new.status = row.status /\ new.start = row.start /\ new.end = row.end
  BY DEF Dates
<1> QED BY <1>1 DEF Phase

LEMMA DatesOf ==
  ASSUME NEW row, DOMAIN row = RowFields, NEW cursor
  PROVE  /\ Dates(Stamped([row EXCEPT !.cursor = cursor])) = Dates(row)
         /\ Stamped([row EXCEPT !.cursor = cursor]).facts = row.facts
         /\ Dates([row EXCEPT !.cursor = cursor]) = Dates(row)
         /\ [row EXCEPT !.cursor = cursor].facts = row.facts
BY DEF Dates, Stamped, RowFields

\* A patch alone moves the dates of a show, and a save alone its facts.
LEMMA StepRows ==
  ASSUME ShowConstants, DayInv, ShowNext \/ UNCHANGED showVars
  PROVE  /\ WritePatch \/ \A g \in Gigs : Dates(gig'[g]) = Dates(gig[g])
         /\ (\E p \in Pages : RecordFacts(p)) \/ \A g \in Gigs : gig'[g].facts = gig[g].facts
<1>1. \A g \in Gigs : DOMAIN gig[g] = RowFields
  BY DEF DayInv, FactsInv, GigsTyped
<1>2. gig = [g \in Gigs |-> gig[g]]
  BY DEF DayInv, FactsInv, GigsTyped
<1>3. CASE gig' = gig
  BY <1>3
<1>4. ASSUME NEW p \in Pages, RecordFacts(p) PROVE \A g \in Gigs : Dates(gig'[g]) = Dates(gig[g])
  <2> DEFINE g == page[p].gig
             f == page[p].ask.facts
             new == [gig[g] EXCEPT !.facts = f, !.version = Versioned(gig[g])]
  <2>1. g \in Gigs
    BY TabFields DEF DayInv
  <2>2. gig' = gig \/ gig' = [gig EXCEPT ![g] = new]
    <3>1. gig' = gig \/ gig' = [gig EXCEPT ![g].facts = f, ![g].version = Versioned(gig[g])]
      BY <1>4 DEF RecordFacts
    <3>2. [gig EXCEPT ![g].facts = f, ![g].version = Versioned(gig[g])] = [gig EXCEPT ![g] = new]
      BY <1>1, <1>2, <2>1 DEF RowFields
    <3> QED BY <3>1, <3>2
  <2>3. Dates(new) = Dates(gig[g])
    BY <1>1, <2>1 DEF Dates, RowFields
  <2> HIDE DEF new
  <2> QED BY <1>2, <2>2, <2>3
<1>5. ASSUME NEW p \in Pages, WriteCursor(p)
      PROVE  \A g \in Gigs : Dates(gig'[g]) = Dates(gig[g]) /\ gig'[g].facts = gig[g].facts
  <2> DEFINE g == page[p].gig
             new == Stamped([gig[g] EXCEPT !.cursor = page[p].ask.item])
  <2>1. gig' = gig \/ gig' = [gig EXCEPT ![g] = new]
    BY <1>5 DEF WriteCursor
  <2>2. g \in Gigs
    BY TabFields DEF DayInv
  <2>3. Dates(new) = Dates(gig[g]) /\ new.facts = gig[g].facts
    BY <1>1, <2>2, DatesOf
  <2> HIDE DEF new
  <2> QED BY <1>2, <2>1, <2>3
<1>6. ASSUME WritePatch PROVE \A g \in Gigs : gig'[g].facts = gig[g].facts
  <2> DEFINE g == patch.gig
             x == patch.patch
  <2>1. g \in Gigs /\ x.field \in {"status", "start", "end", "set"}
    BY <1>6 DEF WritePatch, PatchAsked, ShowConstants, DayInv
  <2>2. PICK row : gig' = [gig EXCEPT ![g] = Stamped(row)] /\ DOMAIN row = RowFields /\ row.facts = gig[g].facts
    <3>1. \/ gig' = [gig EXCEPT ![g] = Stamped([gig[g] EXCEPT ![x.field] = x.value, !.cursor = Nil])]
          \/ gig' = [gig EXCEPT ![g] = Stamped([gig[g] EXCEPT ![x.field] = x.value])]
      BY <1>6 DEF WritePatch
    <3>2. /\ DOMAIN [gig[g] EXCEPT ![x.field] = x.value] = RowFields
          /\ [gig[g] EXCEPT ![x.field] = x.value].facts = gig[g].facts
          /\ DOMAIN [gig[g] EXCEPT ![x.field] = x.value, !.cursor = Nil] = RowFields
          /\ [gig[g] EXCEPT ![x.field] = x.value, !.cursor = Nil].facts = gig[g].facts
      BY <1>1, <2>1, PatchedRow
    <3> QED BY <3>1, <3>2
  <2>3. Stamped(row).facts = gig[g].facts
    BY <2>2 DEF Stamped, RowFields
  <2> QED BY <1>2, <2>2, <2>3
<1>7. ASSUME SaveOrder PROVE \A g \in Gigs : Dates(gig'[g]) = Dates(gig[g]) /\ gig'[g].facts = gig[g].facts
  <2>1. PICK s \in Sets : gig' = [g \in Gigs |-> IF gig[g].cursor \in Range(order[s])
                                                  THEN [gig[g] EXCEPT !.cursor = Nil] ELSE gig[g]]
    BY <1>7 DEF SaveOrder
  <2> QED BY <1>1, <2>1, DatesOf
<1>8. \/ gig' = gig \/ WritePatch \/ SaveOrder
      \/ \E p \in Pages : RecordFacts(p) \/ WriteCursor(p)
  BY DEF ShowNext, showVars, Refresh, Save, Position, Ask, ReadSet, ReadDayOf, Deliver, LoseAnswer,
         ReadPatch, Settle, Tick
<1> QED BY <1>3, <1>4, <1>5, <1>6, <1>7, <1>8

LEMMA TimedKept ==
  ASSUME ShowConstants, DayInv, ShowNext \/ UNCHANGED showVars
  PROVE  Timed(gig')
<1>1. CASE \A g \in Gigs : Dates(gig'[g]) = Dates(gig[g])
  BY <1>1 DEF Dates, Timed, DayInv
<1>2. CASE WritePatch
  <2> DEFINE g == patch.gig
             x == patch.patch
  <2>1. g \in Gigs /\ x.field \in {"status", "start", "end", "set"}
        /\ (x.field = "start" => x.value \in Nat \union {Nil})
    BY <1>2 DEF WritePatch, PatchAsked, ShowConstants, DayInv
  <2>2. DOMAIN gig[g] = RowFields /\ gig[g].start \in Moments /\ gig = [h \in Gigs |-> gig[h]]
    BY <2>1 DEF DayInv, FactsInv, GigsTyped, Timed
  <2>3. x.field = "start" => x.value \in Moments
    BY <2>1 DEF Moments
  <2>4. \A cursor : /\ Stamped([gig[g] EXCEPT ![x.field] = x.value, !.cursor = cursor]).start \in Moments
                    /\ Stamped([gig[g] EXCEPT ![x.field] = x.value]).start \in Moments
    BY <2>1, <2>2, <2>3 DEF Stamped, RowFields
  <2>5. \/ gig' = [gig EXCEPT ![g] = Stamped([gig[g] EXCEPT ![x.field] = x.value, !.cursor = Nil])]
        \/ gig' = [gig EXCEPT ![g] = Stamped([gig[g] EXCEPT ![x.field] = x.value])]
    BY <1>2 DEF WritePatch
  <2>6. gig'[g].start \in Moments /\ \A h \in Gigs \ {g} : gig'[h] = gig[h]
    BY <2>1, <2>2, <2>4, <2>5
  <2> QED BY <2>6 DEF Timed, DayInv
<1> QED BY <1>1, <1>2, StepRows

LEMMA DayStep ==
  ASSUME ShowConstants, DayInv, ShowNext \/ UNCHANGED showVars
  PROVE  DayInv'
<1>1. FactsInv' /\ PatchAsked'
  BY ShowStep, PatchAskedKept DEF DayInv
<1>2. Timed(gig)'
  BY TimedKept DEF Timed
<1>3. (settlements \in [Gigs -> {"none", "draft", "finalized"}])'
  <2>1. CASE Settle
    BY <2>1 DEF Settle, DayInv
  <2>2. CASE UNCHANGED settlements
    BY <2>2 DEF DayInv
  <2> QED BY <2>1, <2>2 DEF ShowNext, showVars, Refresh, Save, Position, Ask, RecordFacts, ReadSet, WriteCursor,
         ReadDayOf, Deliver, LoseAnswer, ReadPatch, WritePatch, SaveOrder, Tick
<1> QED BY <1>1, <1>2, <1>3 DEF DayInv

LEMMA DayStart == ASSUME ShowConstants, ShowInit PROVE DayInv
<1>1. FactsInv /\ PatchAsked
  BY FactsStart DEF ShowInit, PatchAsked, AtRest
<1>2. Timed(gig)
  <2> SUFFICES ASSUME NEW g \in Gigs PROVE gig[g].start \in Moments
    BY DEF Timed
  <2>1. PICK plan \in Plans :
          gig[g] = [status |-> plan.status, start |-> plan.start, end |-> plan.end, set |-> plan.set,
                    cursor |-> Nil, facts |-> plan.facts, version |-> 0]
    BY DEF ShowInit
  <2>2. plan.start \in Nat \union {Nil}
    BY DEF ShowConstants
  <2> QED BY <2>1, <2>2 DEF Moments
<1> QED BY <1>1, <1>2 DEF DayInv, ShowInit

\* A step that leaves the dates of the shows and the clock alone leaves the
\* selected show.
LEMMA SelectedStays ==
  ASSUME ShowConstants, Timed(gig), Timed(gig'), now \in Nat, now' = now, Dated # {},
         \A g \in Gigs : Dates(gig'[g]) = Dates(gig[g])
  PROVE  Selected' = Selected /\ Selected \in Gigs
<1>1. \A g \in Gigs : Phase(gig'[g], now) = Phase(gig[g], now)
  BY SamePhase
<1>2. DatedOf(gig', now) = DatedOf(gig, now) /\ Dated = DatedOf(gig, now)
  BY <1>1, AheadIs DEF DatedOf
<1>3. \A g, h \in Gigs : Ahead(gig', now, g, h) <=> Ahead(gig, now, g, h)
  BY <1>1 DEF Ahead, Dates
<1>4. /\ Selected \in DatedOf(gig, now)
      /\ \A h \in DatedOf(gig, now) \ {Selected} : Ahead(gig, now, Selected, h)
  BY <1>2, SelectedFirst
<1>5. /\ Selected' \in DatedOf(gig', now)
      /\ \A h \in DatedOf(gig', now) \ {Selected'} : Ahead(gig', now, Selected', h)
  BY <1>2, SelectedFirstNext
<1>6. Selected \in Gigs /\ Selected' \in Gigs
  BY <1>4, <1>5 DEF DatedOf
<1>7. ~(Ahead(gig, now, Selected, Selected') /\ Ahead(gig, now, Selected', Selected))
  BY <1>2, <1>4, <1>5, AheadOrders
<1> QED BY <1>2, <1>3, <1>4, <1>5, <1>6, <1>7

\* What each advice says of the books and of the selected show, in the state before
\* a step and in the state after it.
LEMMA AdviceSays ==
  /\ Advice = "review_overdue_gig" => Dated # {} /\ gig[Selected].facts = NoFacts
  /\ Advice = "after_show_settlement" => Dated # {} /\ settlements[Selected] = "none"
  /\ Advice = "after_show_recorded" => Dated # {}
  /\ Advice = "create_settlement" => \A g \in Gigs : settlements[g] # "draft"
<1>1. AfterShow(Selected) \in {"after_show_settlement", "finalize_settlement", "after_show_recorded"}
      /\ (AfterShow(Selected) = "after_show_settlement" => settlements[Selected] = "none")
  BY DEF AfterShow
<1>2. Books \in {"finalize_settlement", "create_settlement", "none"}
      /\ (Books = "create_settlement" => \A g \in Gigs : settlements[g] # "draft")
  BY DEF Books
<1> HIDE DEF AfterShow, Books
<1> QED BY <1>1, <1>2 DEF Advice

LEMMA AdviceSaysNext ==
  /\ Advice' = "review_overdue_gig" => gig'[Selected'].facts = NoFacts
  /\ Advice' = "after_show_settlement" => settlements'[Selected'] = "none"
  /\ Advice' = "after_show_recorded" => DatedOf(gig', now') # {}
  /\ Advice' = "create_settlement" => \A g \in Gigs : settlements'[g] # "draft"
<1> DEFINE after == AfterShow(Selected)
<1>1. after' \in {"after_show_settlement", "finalize_settlement", "after_show_recorded"}
      /\ (after' = "after_show_settlement" => settlements'[Selected'] = "none")
  BY DEF AfterShow
<1>2. Books' \in {"finalize_settlement", "create_settlement", "none"}
      /\ (Books' = "create_settlement" => \A g \in Gigs : settlements'[g] # "draft")
  BY DEF Books
<1>3. Dated' = DatedOf(gig', now')
  BY DEF Dated, DatedOf
<1>4. Advice' = IF Dated' # {} /\ (Phase(gig[Selected], now) = "live")' THEN "open_day_of"
                ELSE IF Dated' # {} /\ (Phase(gig[Selected], now) = "overdue")'
                THEN IF gig'[Selected'].facts = NoFacts THEN "review_overdue_gig" ELSE after'
                ELSE IF Dated' # {} /\ Lacking(Selected)' THEN "setlist_missing"
                ELSE IF Books' # "none" THEN Books'
                ELSE IF Dated' = {} THEN "record_gig" ELSE "none"
  BY DEF Advice
<1> HIDE DEF after
<1> QED BY <1>1, <1>2, <1>3, <1>4

LEMMA AdviceChanges ==
  ASSUME ShowConstants, DayInv, ShowNext \/ UNCHANGED showVars
  PROVE  AdviceStep
<1>1. /\ now \in Nat /\ now' \in Nat /\ Timed(gig) /\ Timed(gig')
  BY DayStep, TimedKept DEF DayInv, FactsInv, GigsTyped
<1>2. ASSUME Advice = "review_overdue_gig", gig[Selected].facts = NoFacts, gig'[Selected].facts # NoFacts
      PROVE  Advice' # Advice
  <2>1. Dated # {}
    BY <1>2, AdviceSays
  <2>2. Selected \in Gigs
    BY <1>1, <2>1, SelectedFirst DEF Dated
  <2>3. PICK p \in Pages : RecordFacts(p)
    BY <1>2, <2>2, StepRows
  <2>4. now' = now /\ ~WritePatch
    <3>1. now' = now /\ patch' = patch
      BY <2>3 DEF RecordFacts
    <3>2. WritePatch => patch.at = "read" /\ patch' = AtRest
      BY DEF WritePatch
    <3> QED BY <3>1, <3>2 DEF AtRest
  <2>5. Selected' = Selected
    BY <1>1, <2>1, <2>4, StepRows, SelectedStays
  <2> QED BY <1>2, <2>5, AdviceSaysNext
<1>3. ASSUME Advice = "after_show_settlement", settlements'[Selected] = "draft", settlements[Selected] = "none"
      PROVE  Advice' # Advice
  <2>1. Settle
    BY <1>3 DEF ShowNext, showVars, Refresh, Save, Position, Ask, RecordFacts, ReadSet, WriteCursor,
         ReadDayOf, Deliver, LoseAnswer, ReadPatch, WritePatch, SaveOrder, Tick
  <2>2. now' = now /\ gig' = gig /\ Dated # {}
    BY <1>3, <2>1, AdviceSays DEF Settle
  <2>3. Selected' = Selected
    BY <1>1, <2>2, SelectedStays
  <2> QED BY <1>3, <2>3, AdviceSaysNext
<1>4. ASSUME Advice = "after_show_recorded", gig'[Selected].status = "completed"
      PROVE  Advice' # Advice \/ Selected' # Selected
  <2>1. SUFFICES ASSUME Advice' = "after_show_recorded" PROVE Selected' # Selected
    BY <1>4
  <2>2. Selected' \in DatedOf(gig', now')
    BY <1>1, <2>1, AdviceSaysNext, SelectedFirstNext
  <2>3. gig'[Selected'].status \in Active
    BY <2>2 DEF DatedOf, Phase
  <2> QED BY <1>4, <2>3 DEF Active
<1>5. ASSUME Advice = "create_settlement", settlements' # settlements
      PROVE  Advice' # Advice
  <2>1. Settle
    BY <1>5 DEF ShowNext, showVars, Refresh, Save, Position, Ask, RecordFacts, ReadSet, WriteCursor,
         ReadDayOf, Deliver, LoseAnswer, ReadPatch, WritePatch, SaveOrder, Tick
  <2>2. PICK g \in Gigs : /\ settlements[g] # "finalized"
                          /\ settlements' = [settlements EXCEPT ![g] = IF @ = "none" THEN "draft" ELSE "finalized"]
    BY <2>1 DEF Settle
  <2>3. settlements[g] = "none"
    BY <1>5, <2>2, AdviceSays DEF DayInv
  <2>4. settlements'[g] = "draft"
    BY <2>2, <2>3 DEF DayInv
  <2> QED BY <1>5, <2>4, AdviceSaysNext
<1>6. AdviceFollowed =>
        \/ Advice = "review_overdue_gig" /\ gig[Selected].facts = NoFacts /\ gig'[Selected].facts # NoFacts
        \/ Advice = "after_show_settlement" /\ settlements'[Selected] = "draft" /\ settlements[Selected] = "none"
        \/ Advice = "after_show_recorded" /\ gig'[Selected].status = "completed"
        \/ Advice = "create_settlement" /\ settlements' # settlements
  BY DEF AdviceFollowed
<1> QED BY <1>2, <1>3, <1>4, <1>5, <1>6 DEF AdviceStep

\* The finished show is never buried: in every state, while a show is past its
\* window and none is on, what is next is about such a show, its facts come first,
\* and the page takes them (selectLiveOrNextOpsGig, projectNextAction).
THEOREM NeverBuriedAlways ==
  ASSUME ShowConstants
  PROVE  ShowSpec => []NeverBuried
<1>1. ShowInit => DayInv
  BY DayStart
<1>2. DayInv /\ [ShowNext]_showVars => DayInv'
  BY DayStep
<1>3. DayInv => NeverBuried
  BY Advised DEF DayInv, FactsInv, GigsTyped
<1> QED BY <1>1, <1>2, <1>3, PTL DEF ShowSpec

\* What is said to be next and done is not said again of the same show: to record
\* the facts, to settle, to finalize or to close a show changes the advice or the
\* show it is about (projectNextAction, afterShowNextAction,
\* settlementWorkspaceNextAction).
THEOREM AdviceStepAlways ==
  ASSUME ShowConstants
  PROVE  ShowSpec => [][AdviceStep]_showVars
<1>1. ShowInit => DayInv
  BY DayStart
<1>2. DayInv /\ [ShowNext]_showVars => DayInv' /\ [AdviceStep]_showVars
  BY DayStep, AdviceChanges
<1> QED BY <1>1, <1>2, PTL DEF ShowSpec

=============================================================================
