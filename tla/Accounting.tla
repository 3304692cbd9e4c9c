----------------------------- MODULE Accounting -----------------------------
(***************************************************************************)
(* The journal of one fiscal year.  An entry gets the number "entries of   *)
(* the year + 1", counted before it is inserted; the number is unique.     *)
(* Other services post entries for their documents: a call of theirs goes  *)
(* through CheckEntry and InsertEntry and reads the outcome in its field   *)
(* "posted".  The lines of an entry, which postEntry balances before it    *)
(* reads anything, are left out.                                           *)
(***************************************************************************)
EXTENDS Naturals, FiniteSets

CONSTANTS
  Calls,      \* calls of the API, and runs of the payroll, in progress at once
  Null,
  Documents,  \* what an entry is posted for: the year, expenses, invoices...
  MaxEntries  \* bound of the numbers of the year

Sources == {"MANUAL", "TAX", "EXPENSE", "PAYROLL", "INVOICE"}
Entries ==
  [number : 1..MaxEntries, source : Sources, of : Documents \union {Null}, draft : BOOLEAN]

AccountingAssumption == MaxEntries \in Nat

VARIABLES
  entry,      \* the entries in the journal
  year,       \* "OPEN" or "CLOSED"
  call        \* each call: where it is and what it holds

ledgerVars == <<entry, year, call>>

Idle == [at |-> "idle"]

\* A call that posts for the document "of" and then stands at "then".
Posting(source, of, draft, then, holds) ==
  [at |-> "check", source |-> source, of |-> of, draft |-> draft,
   number |-> 0, posted |-> FALSE, then |-> then, holds |-> holds]

Draft == Posting("TAX", Null, TRUE, "idle", Null)

Begins(p, c) == call[p] = Idle /\ call' = [call EXCEPT ![p] = c]

GoesTo(p, c, at) ==
  call' = [call EXCEPT ![p] = IF at = "idle" THEN Idle ELSE [c EXCEPT !.at = at]]

EntriesOf(source, of) == {e \in entry : e.source = source /\ e.of = of}

----------------------------------------------------------------------------
\* postEntry: a closed year refuses; otherwise nextReference counts.
CheckEntry(p) ==
  /\ call[p].at = "check"
  /\ IF year = "CLOSED"
     THEN GoesTo(p, call[p], call[p].then)
     ELSE GoesTo(p, [call[p] EXCEPT !.number = Cardinality(entry) + 1], "insert")
  /\ UNCHANGED <<entry, year>>

\* The insertion fails if the number is taken.
InsertEntry(p) ==
  LET free == \A e \in entry : e.number # call[p].number IN
  /\ call[p].at = "insert"
  /\ call[p].number <= MaxEntries
  /\ entry' = IF free
       THEN entry \union {[number |-> call[p].number, source |-> call[p].source,
                           of |-> call[p].of, draft |-> call[p].draft]}
       ELSE entry
  /\ GoesTo(p, [call[p] EXCEPT !.posted = free], call[p].then)
  /\ UNCHANGED year

\* createManualEntry, and postContractStampDuty of a new contract.
ManualEntry(p, d) ==
  /\ Begins(p, Posting("MANUAL", d, FALSE, "idle", Null))
  /\ UNCHANGED <<entry, year>>

----------------------------------------------------------------------------
TaxEntries == {e \in entry : e.source = "TAX"}

\* Without entries getIncomeStatement finds no profit; with some it may.
Profitable == \E e \in entry : e.source # "TAX"

\* Without a tax entry, and with a profit, a draft of it is posted and the year
\* stays open.  A validated entry, or no profit, lets the year be closed.
CloseFiscalYear(p, profit) ==
  /\ year = "OPEN"
  /\ \/ /\ TaxEntries = {}
        /\ Begins(p, IF profit THEN Draft
                               ELSE [at |-> "close"])
     \/ \E e \in TaxEntries : ~e.draft /\ Begins(p, [at |-> "close"])
  /\ UNCHANGED <<entry, year>>

SaveClosed(p) ==
  /\ call[p].at = "close"
  /\ year' = "CLOSED"
  /\ GoesTo(p, call[p], "idle")
  /\ UNCHANGED entry

ReopenFiscalYear ==
  /\ year = "CLOSED"
  /\ year' = "OPEN"
  /\ UNCHANGED <<entry, call>>

ValidateDraftEntry(e) ==
  /\ e.draft
  /\ entry' = (entry \ {e}) \union {[e EXCEPT !.draft = FALSE]}
  /\ UNCHANGED <<year, call>>

----------------------------------------------------------------------------
\* The process of a call stops; what it stored stays.
LedgerCrash(p) ==
  /\ call[p] # Idle
  /\ call' = [call EXCEPT ![p] = Idle]
  /\ UNCHANGED <<entry, year>>

LedgerInit ==
  /\ entry = {}
  /\ year = "OPEN"
  /\ call = [p \in Calls |-> Idle]

Post(p) == CheckEntry(p) \/ InsertEntry(p)

YearNext ==
  \/ \E p \in Calls :
       \/ \E profit \in {FALSE, Profitable} : CloseFiscalYear(p, profit)
       \/ SaveClosed(p)
  \/ ReopenFiscalYear
  \/ \E e \in entry : ValidateDraftEntry(e)

LedgerNext ==
  \/ YearNext
  \/ \E p \in Calls :
       \/ Post(p)
       \/ \E d \in Documents : ManualEntry(p, d)
       \/ LedgerCrash(p)

LedgerSpec == LedgerInit /\ [][LedgerNext]_ledgerVars

----------------------------------------------------------------------------
\* Every reference stands for one entry; only the tax entry is ever a draft.
EntryTypeOK ==
  /\ entry \subseteq Entries
  /\ \A e \in entry :
       /\ e.draft => e.source = "TAX"
       /\ \A f \in entry : e.number = f.number => e = f
  /\ year \in {"OPEN", "CLOSED"}

\* As a step: postEntry refuses a closed year, no entry is added to it.
ClosedYearTakesNothing ==
  \A e \in entry' : year = "OPEN" \/ \E f \in entry : f.number = e.number

\* closeFiscalYear waits for the validation of the tax entry: a closed year has
\* no draft.
ClosedYearIsValidated == year = "CLOSED" => \A e \in entry : ~e.draft

=============================================================================
