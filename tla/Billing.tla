------------------------------- MODULE Billing ------------------------------
(***************************************************************************)
(* One invoice: its issue, the recognition of its revenue month by month,  *)
(* and its payments.  Each step posts an entry in the journal, which may   *)
(* refuse it, and then saves rows found before; none is a transaction.     *)
(* Every month is worth one unit.                                          *)
(***************************************************************************)
EXTENDS Saves, Integers

CONSTANTS
  Invoice,     \* the id of the invoice
  MonthCount,  \* the months of its service
  MaxPosted,   \* bound of the entries of one document
  MaxPayments  \* bound of the sum of the payments

Months == 1..MonthCount
InvoiceRecords ==
  [status : {"DRAFT", "ISSUED", "PARTIALLY_PAID", "PAID"}, paid : Nat, recognized : Nat]
MonthRecords == [posted : BOOLEAN]

\* The ids differ, and no row looks like a missing one.
BillingAssumption ==
  /\ MonthCount \in Nat \ {0} /\ MaxPosted \in Nat \ {0} /\ MaxPayments \in Nat
  /\ Invoice \notin Months
  /\ Null \notin InvoiceRecords \union MonthRecords

VARIABLES
  payments,    \* the sum of the payment rows
  booked,      \* the sum of those the journal took an entry for
  posted       \* entries in the journal, for each document

billingVars == <<row, call, payments, booked, posted>>

Payable == {"ISSUED", "PARTIALLY_PAID"}
Unposted == {m \in Months : row[m] # Null /\ ~row[m].posted}

Posts(doc) ==
  /\ posted[doc] < MaxPosted
  /\ posted' = [posted EXCEPT ![doc] = @ + 1]

----------------------------------------------------------------------------
\* createInvoice: a draft.
CreateInvoice ==
  /\ row[Invoice] = Null
  /\ row' = [row EXCEPT ![Invoice] = [status |-> "DRAFT", paid |-> 0, recognized |-> 0]]
  /\ UNCHANGED <<call, payments, booked, posted>>

IssueInvoice(p) ==
  /\ call[p] = Idle
  /\ row[Invoice] # Null
  /\ row[Invoice].status = "DRAFT"
  /\ call' = [call EXCEPT ![p] = [NewCall EXCEPT !.at = "issue", !.entity = row[Invoice]]]
  /\ UNCHANGED <<row, payments, booked, posted>>

PostInvoice(p) ==
  /\ call[p].at = "issue"
  /\ Posts(Invoice)
  /\ call' = [call EXCEPT ![p] = Saving(@, Invoice,
       [@.entity EXCEPT !.status = "ISSUED", !.recognized = 0], "schedule")]
  /\ UNCHANGED <<row, payments, booked>>

\* A month that is scheduled already refuses the whole schedule.
Schedule(p) ==
  /\ call[p].at = "schedule"
  /\ IF \A m \in Months : row[m] = Null
     THEN /\ row' = [i \in DOMAIN row |->
               IF i \in Months THEN [posted |-> FALSE] ELSE row[i]]
          /\ GoesTo(p, call[p], "due")
     ELSE Fails(p)
  /\ UNCHANGED <<payments, booked, posted>>

\* recognizeRevenue on its own.
RecognizeRevenue(p) ==
  /\ call[p] = Idle
  /\ row[Invoice] # Null
  /\ call' = [call EXCEPT ![p] = [NewCall EXCEPT !.at = "due"]]
  /\ UNCHANGED <<row, payments, booked, posted>>

\* The months up to "asOf" that are not posted are found at once ...
FindDue(p, asOf) ==
  /\ call[p].at = "due"
  /\ GoesTo(p, [call[p] EXCEPT !.holds = {m \in Unposted : m <= asOf}], "recognize")
  /\ UNCHANGED <<row, payments, booked, posted>>

\* Mutant of PostRecognition: the month is marked whether it is posted or not.
MarkRecognition(p, m) ==
  /\ call[p].at = "recognize"
  /\ m \in call[p].holds
  /\ GoesTo(p, [call[p] EXCEPT !.id = m, !.entity = row[Invoice]], "mark")
  /\ UNCHANGED <<row, payments, booked, posted>>

\* ... and posted one by one, the earliest first, with the invoice as it is then.
PostRecognition(p, m) ==
  /\ call[p].at = "recognize"
  /\ m \in call[p].holds
  /\ \A n \in call[p].holds : m <= n
  /\ Posts(m)
  /\ GoesTo(p, [call[p] EXCEPT !.id = m, !.entity = row[Invoice]], "mark")
  /\ UNCHANGED <<row, payments, booked>>

\* The month is saved as posted, then its amount is added to the invoice.
MarkPosted(p) ==
  LET c == call[p] IN
  /\ c.at = "mark"
  /\ row' = [row EXCEPT ![c.id] = [posted |-> TRUE]]
  /\ call' = [call EXCEPT ![p] = Saving([c EXCEPT !.holds = c.holds \ {c.id}], Invoice,
       [c.entity EXCEPT !.recognized = c.entity.recognized + 1], "recognize")]
  /\ UNCHANGED <<payments, booked, posted>>

Recognized(p) ==
  /\ call[p].at = "recognize"
  /\ call[p].holds = {}
  /\ GoesTo(p, call[p], "idle")
  /\ UNCHANGED <<row, payments, booked, posted>>

----------------------------------------------------------------------------
RecordPayment(p, n) ==
  /\ call[p] = Idle
  /\ row[Invoice] # Null
  /\ row[Invoice].status \in Payable
  /\ n <= MonthCount - row[Invoice].paid
  /\ call' = [call EXCEPT ![p] =
       [NewCall EXCEPT !.at = "payment", !.entity = row[Invoice], !.holds = n]]
  /\ UNCHANGED <<row, payments, booked, posted>>

InsertPayment(p) ==
  /\ call[p].at = "payment"
  /\ payments + call[p].holds <= MaxPayments
  /\ payments' = payments + call[p].holds
  /\ GoesTo(p, call[p], "paid")
  /\ UNCHANGED <<row, booked, posted>>

\* The entry of the payment is posted; the invoice is saved with the new sum.
PostPayment(p) ==
  LET paid == call[p].entity.paid + call[p].holds IN
  /\ call[p].at = "paid"
  /\ call' = [call EXCEPT ![p] = Saving(@, Invoice,
       [@.entity EXCEPT
          !.paid = paid,
          !.status = IF paid >= MonthCount THEN "PAID" ELSE "PARTIALLY_PAID"], "idle")]
  /\ booked' = booked + call[p].holds
  /\ UNCHANGED <<row, payments, posted>>

\* The journal refuses an entry (closed year, reference taken): the call fails,
\* and a payment that was inserted before stays.
JournalRefuses(p) ==
  /\ call[p].at \in {"issue", "recognize", "paid"}
  /\ call[p].at = "recognize" => call[p].holds # {}
  /\ Fails(p)
  /\ UNCHANGED <<payments, booked, posted>>

SaveInvoice(p) ==
  /\ CompareSave(p) \/ UpdateSave(p, TRUE)
  /\ UNCHANGED <<payments, booked, posted>>

----------------------------------------------------------------------------
BillingInit ==
  /\ row = [i \in {Invoice} \union Months |-> Null]
  /\ call = [p \in Calls |-> Idle]
  /\ payments = 0
  /\ booked = 0
  /\ posted = [i \in {Invoice} \union Months |-> 0]

BillingStep(p) ==
  \/ IssueInvoice(p) \/ PostInvoice(p) \/ Schedule(p)
  \/ RecognizeRevenue(p) \/ MarkPosted(p) \/ Recognized(p)
  \/ \E m \in Months : FindDue(p, m) \/ PostRecognition(p, m) \/ RecordPayment(p, m)
  \/ InsertPayment(p) \/ PostPayment(p)
  \/ JournalRefuses(p)
  \/ SaveInvoice(p)

BillingNext == CreateInvoice \/ \E p \in Calls : BillingStep(p)

BillingFaults == \E p \in Calls : Crash(p) /\ UNCHANGED <<payments, booked, posted>>

BillingSpec == BillingInit /\ [][BillingNext]_billingVars
BillingFaultSpec == BillingInit /\ [][BillingNext \/ BillingFaults]_billingVars

----------------------------------------------------------------------------
Quiet == \A p \in Calls : call[p] = Idle
Recorded == {m \in Months : row[m] # Null /\ row[m].posted}

\* Amounts stay between nothing and the total, and a paid invoice is paid.
BillingTypeOK ==
  row[Invoice] # Null =>
    /\ row[Invoice].status \in {"DRAFT", "ISSUED", "PARTIALLY_PAID", "PAID"}
    /\ row[Invoice].paid \in 0..MonthCount
    /\ row[Invoice].recognized \in 0..MonthCount
    /\ row[Invoice].status = "PAID" <=> row[Invoice].paid = MonthCount

\* What is recognized or issued has its entry in the journal, whatever failed.
NothingUnposted ==
  /\ \A m \in Recorded : posted[m] > 0
  /\ row[Invoice] # Null /\ row[Invoice].status # "DRAFT" => posted[Invoice] > 0

\* The sums an invoice keeps are those of its recognized months and of the
\* payments that are in the journal.
SumsAgree ==
  Quiet /\ row[Invoice] # Null =>
    /\ row[Invoice].paid = booked
    /\ row[Invoice].recognized = Cardinality(Recorded)

\* A payment that is on record counts for its invoice.
\* The code does not keep this (README, section 5).
PaymentsCount == Quiet /\ row[Invoice] # Null => row[Invoice].paid = payments

\* recordPayment refuses a payment beyond what remains.
\* The code does not keep this (README, section 5).
NotOverpaid == payments <= MonthCount

=============================================================================
