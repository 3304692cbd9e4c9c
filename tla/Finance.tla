------------------------------ MODULE Finance -------------------------------
(***************************************************************************)
(* The expenses of the current month and their entries in the journal.     *)
(* One employee has a salary: the screen of the expenses, the record of    *)
(* the employee and the run of the payroll all write the line of it.       *)
(*                                                                         *)
(* No call is a transaction: an expense, its payslip and its entries are   *)
(* stored one after the other, and a failure to post is only logged.       *)
(* Amounts are left out; none of them is zero.                             *)
(***************************************************************************)
EXTENDS Accounting

CONSTANTS
  ExpenseIds,
  Removed      \* an expense that was deleted; its id is not used again

LineRecords == [salary : BOOLEAN, reverses : BOOLEAN]

\* Every line may have its entry; NULL is nobody, and a line that is missing,
\* one that was deleted and one that is there are told apart.
FinanceAssumption ==
  /\ AccountingAssumption /\ ExpenseIds \subseteq Documents
  /\ Null \notin Calls /\ Null # Removed
  /\ {Null, Removed} \intersect LineRecords = {}

VARIABLES
  expense,   \* the lines of the month, by id
  payslip,   \* the lines a payslip was made of
  period,    \* "OPEN" or "CLOSED"
  lock       \* the run that holds the advisory lock of the payroll

financeRows == <<expense, payslip, period, lock>>
financeVars == <<ledgerVars, financeRows>>

Lines == {x \in ExpenseIds : expense[x] \notin {Null, Removed}}
SalaryLines == {x \in Lines : expense[x].salary}
Line(salary, reverses) == [salary |-> salary, reverses |-> reverses]

\* A call that has yet to record and post "todo" lines; one at the line x.
Recording(todo, line) == [at |-> "record", todo |-> todo, line |-> line, x |-> Null]
On(x, line, at) == [at |-> at, todo |-> 0, line |-> line, x |-> x]

Posts(p, source, x, then) ==
  call' = [call EXCEPT ![p] = Posting(source, x, FALSE, then, @)]

----------------------------------------------------------------------------
\* createExpense: a salary only if the employee has no line yet.
CreateExpense(p, salary) ==
  /\ period = "OPEN"
  /\ salary => SalaryLines = {}
  /\ Begins(p, Recording(1, Line(salary, FALSE)))
  /\ UNCHANGED <<entry, year, financeRows>>

\* correctExpense of a line of any month: its reversal, and the replacement
\* unless it is only cancelled, are lines of the current month.
CorrectExpense(p, todo, salary) ==
  /\ Begins(p, Recording(todo, Line(salary, TRUE)))
  /\ UNCHANGED <<entry, year, financeRows>>

\* A line of another category than SALARIES is of no employee any more; one that
\* gets this category is of none either.
UpdateExpense(p, x, salary) ==
  /\ x \in Lines
  /\ period = "OPEN"
  /\ salary => expense[x].salary
  /\ Begins(p, On(x, [expense[x] EXCEPT !.salary = salary], "save"))
  /\ UNCHANGED <<entry, year, financeRows>>

RemoveExpense(p, x) ==
  /\ x \in Lines
  /\ period = "OPEN"
  /\ Begins(p, On(x, Removed, "delete"))
  /\ UNCHANGED <<entry, year, financeRows>>

\* The unique index: one line per employee and month, corrections aside.
Unique(x, line) ==
  line.salary /\ ~line.reverses => \A y \in SalaryLines \ {x} : expense[y].reverses

RecordLine(p, x) ==
  /\ call[p].at = "record"
  /\ expense[x] = Null
  /\ IF Unique(x, call[p].line)
     THEN /\ expense' = [expense EXCEPT ![x] = call[p].line]
          /\ GoesTo(p, [call[p] EXCEPT !.todo = @ - 1, !.x = x], "repost")
     ELSE GoesTo(p, call[p], "idle") /\ UNCHANGED expense
  /\ UNCHANGED <<entry, year, payslip, period, lock>>

\* A save or a deletion.  The save of an entity whose line was removed since it
\* was found inserts it again.
WriteLine(p) ==
  LET x == call[p].x
      line == call[p].line
      after == [save |-> "repost", delete |-> "unpost", sync |-> "idle"]
  IN
  /\ call[p].at \in DOMAIN after
  /\ IF line = Removed \/ Unique(x, line)
     THEN /\ expense' = [expense EXCEPT ![x] = line]
          /\ GoesTo(p, call[p], after[call[p].at])
     ELSE GoesTo(p, call[p], "idle") /\ UNCHANGED expense
  /\ UNCHANGED <<entry, year, payslip, period, lock>>

\* postExpenseEntry deletes the entry of the expense and posts it again.
RepostExpense(p) ==
  /\ call[p].at = "repost"
  /\ entry' = entry \ EntriesOf("EXPENSE", call[p].x)
  /\ Posts(p, "EXPENSE", call[p].x, "next")
  /\ UNCHANGED <<year, financeRows>>

\* Whether it was posted is not asked.
NextLine(p) ==
  LET c == call[p].holds IN
  /\ call[p].at = "next"
  /\ GoesTo(p, c, IF c.todo = 0 THEN "idle" ELSE "record")
  /\ UNCHANGED <<entry, year, financeRows>>

RemoveExpenseEntry(p) ==
  /\ call[p].at = "unpost"
  /\ entry' = entry \ EntriesOf("EXPENSE", call[p].x)
  /\ GoesTo(p, call[p], "idle")
  /\ UNCHANGED <<year, financeRows>>

----------------------------------------------------------------------------
\* syncCurrentMonthSalaryExpense: the line the employee has, whichever is found
\* first, follows the new salary; nothing is posted.
SyncSalary(p, salary) ==
  /\ period = "OPEN"
  /\ IF SalaryLines = {}
     THEN salary /\ Begins(p, On(Null, Null, "hired"))
     ELSE \E x \in SalaryLines :
            Begins(p, On(x, IF salary THEN expense[x] ELSE Removed, "sync"))
  /\ UNCHANGED <<entry, year, financeRows>>

\* runPayroll: one run at a time, of an open month.
StartRun(p) ==
  /\ lock = Null
  /\ period = "OPEN"
  /\ lock' = p
  /\ Begins(p, On(Null, Null, "payroll"))
  /\ UNCHANGED <<entry, year, expense, payslip, period>>

\* Mutant of FindSalaryLine: a line with a payslip is not skipped.
FindAnyLine(p) ==
  /\ call[p].at = "payroll"
  /\ \/ SalaryLines = {} /\ GoesTo(p, call[p], "salary")
     \/ \E x \in SalaryLines :
          GoesTo(p, [call[p] EXCEPT !.x = x, !.todo = 1], "payslip")
  /\ UNCHANGED <<entry, year, financeRows>>

\* The line the employee has, whichever is found first; "todo" counts it: its
\* entry, if there is one, is to be replaced.
FindSalaryLine(p) ==
  /\ call[p].at = "payroll"
  /\ \/ SalaryLines = {} /\ GoesTo(p, call[p], "salary")
     \/ \E x \in SalaryLines :
          GoesTo(p, [call[p] EXCEPT !.x = x, !.todo = 1],
                 IF x \in payslip THEN "unlock" ELSE "payslip")
  /\ UNCHANGED <<entry, year, financeRows>>

\* A new line, which the run makes a payslip of.  If another call has stored
\* one in the meantime, the run ends, and a change of salary is logged.
InsertSalaryLine(p, x) ==
  LET run == call[p].at = "salary" IN
  /\ call[p].at \in {"salary", "hired"}
  /\ expense[x] = Null
  /\ IF Unique(x, Line(TRUE, FALSE))
     THEN /\ expense' = [expense EXCEPT ![x] = Line(TRUE, FALSE)]
          /\ GoesTo(p, [call[p] EXCEPT !.x = x], IF run THEN "payslip" ELSE "idle")
     ELSE GoesTo(p, call[p], IF run THEN "unlock" ELSE "idle") /\ UNCHANGED expense
  /\ UNCHANGED <<entry, year, payslip, period, lock>>

CreatePayslip(p) ==
  /\ call[p].at = "payslip"
  /\ payslip' = payslip \union {call[p].x}
  /\ Posts(p, "PAYROLL", call[p].x, "posted")
  /\ UNCHANGED <<entry, year, expense, period, lock>>

PayrollPosted(p) ==
  LET c == call[p].holds IN
  /\ call[p].at = "posted"
  /\ GoesTo(p, c, IF call[p].posted /\ c.todo > 0 THEN "replace" ELSE "unlock")
  /\ UNCHANGED <<entry, year, financeRows>>

ReplaceEntry(p) ==
  /\ call[p].at = "replace"
  /\ entry' = entry \ EntriesOf("EXPENSE", call[p].x)
  /\ GoesTo(p, call[p], "unlock")
  /\ UNCHANGED <<year, financeRows>>

\* The lock is released whatever became of the run.
Unlock(p) ==
  /\ call[p].at = "unlock"
  /\ lock' = Null
  /\ GoesTo(p, call[p], "idle")
  /\ UNCHANGED <<entry, year, expense, payslip, period>>

----------------------------------------------------------------------------
SetPeriod(status) ==
  /\ period # status
  /\ period' = status
  /\ UNCHANGED <<ledgerVars, expense, payslip, lock>>

\* The lock belongs to a connection, which ends with the process.
FinanceCrash(p) ==
  /\ LedgerCrash(p)
  /\ lock' = IF lock = p THEN Null ELSE lock
  /\ UNCHANGED <<expense, payslip, period>>

FinanceInit ==
  /\ LedgerInit
  /\ expense = [x \in ExpenseIds |-> Null]
  /\ payslip = {}
  /\ period = "OPEN"
  /\ lock = Null

PostLine(p) == Post(p) /\ UNCHANGED financeRows

Record(p) ==
  \/ PostLine(p)
  \/ \E x \in ExpenseIds : RecordLine(p, x)
  \/ WriteLine(p)
  \/ RepostExpense(p)
  \/ NextLine(p)
  \/ RemoveExpenseEntry(p)

\* The screen of the expenses.
Expenses(p) ==
  \/ Record(p)
  \/ \E salary \in BOOLEAN : CreateExpense(p, salary)
  \/ \E x \in ExpenseIds :
       RemoveExpense(p, x) \/ \E salary \in BOOLEAN : UpdateExpense(p, x, salary)

Corrections(p) ==
  \E todo \in {1, 2}, salary \in BOOLEAN : CorrectExpense(p, todo, salary)

PayrollStep(p) ==
  \/ FindSalaryLine(p)
  \/ \E x \in ExpenseIds : InsertSalaryLine(p, x)
  \/ CreatePayslip(p)
  \/ PayrollPosted(p)
  \/ ReplaceEntry(p)
  \/ Unlock(p)

Payroll(p) ==
  \/ Record(p)
  \/ StartRun(p)
  \/ PayrollStep(p)
  \/ \E salary \in BOOLEAN : SyncSalary(p, salary)

FinanceNext ==
  \/ \E p \in Calls : Expenses(p) \/ Corrections(p) \/ Payroll(p) \/ FinanceCrash(p)
  \/ YearNext /\ UNCHANGED financeRows
  \/ \E status \in {"OPEN", "CLOSED"} : SetPeriod(status)

FinanceSpec == FinanceInit /\ [][FinanceNext]_financeVars

\* The month and its payroll, without corrections and the year.
PayrollNext == \E p \in Calls : Expenses(p) \/ Payroll(p)

\* A process runs the steps of its call; the run of the payroll may crash.
LiveNext ==
  \E p \in Calls :
    \/ Record(p) \/ StartRun(p) \/ PayrollStep(p)
    \/ SyncSalary(p, TRUE)
    \/ FinanceCrash(p)
LiveFairness == \A p \in Calls : WF_financeVars(PayrollStep(p) \/ PostLine(p))
LiveSpec == FinanceInit /\ [][LiveNext]_financeVars /\ LiveFairness

----------------------------------------------------------------------------
Quiet == \A p \in Calls : call[p] = Idle

\* An employee has one salary line in a month, corrections aside.
FinanceTypeOK ==
  /\ EntryTypeOK
  /\ \A x, y \in SalaryLines :
       ~expense[x].reverses /\ ~expense[y].reverses => x = y
  /\ payslip \subseteq ExpenseIds
  /\ lock \in Calls \union {Null}

\* postExpenseEntry replaces: an expense has at most one EXPENSE entry.
OneExpenseEntry == \A x \in ExpenseIds : Cardinality(EntriesOf("EXPENSE", x)) <= 1

\* Runs of the payroll that repeat, race with the screens or stop in between
\* make one payslip of a line and post it once.
PayrollOnce == \A x \in ExpenseIds : Cardinality(EntriesOf("PAYROLL", x)) <= 1

\* As a step: the run removes the simple entry of a salary only after the
\* detailed one is there: no step of a run leaves a salary without the entry it had.
PayrollKeepsEntry ==
  \A x \in Lines, p \in Calls :
    /\ call[p].at = "replace"
    /\ call'[p].at # "replace"
    => EntriesOf("EXPENSE", x) \union EntriesOf("PAYROLL", x) = {}
       \/ (EntriesOf("EXPENSE", x) \union EntriesOf("PAYROLL", x))' # {}

\* Every run ends and lets the next one start.
LockIsReleased == \A p \in Calls : lock = p ~> lock # p

\* Every expense the screen recorded has its entry when the call is over.
\* The code does not keep this (README, section 5).
ExpenseIsPosted == Quiet => \A x \in Lines : EntriesOf("EXPENSE", x) # {}

\* The entry of a salary is simple or, once its payslip is made, detailed.
\* The code does not keep this (README, section 5).
SalaryPostedOnce ==
  Quiet => \A x \in Lines :
    EntriesOf("EXPENSE", x) = {} \/ EntriesOf("PAYROLL", x) = {}

\* A payslip is made of the salary, never of the correction of one.
\* The code does not keep this (README, section 5).
PayslipOfSalary ==
  \A x \in payslip : x \in Lines => ~expense[x].reverses

\* No entry of a closed year disappears.
\* The code does not keep this (README, section 5).
ClosedYearIsKept == [][year = "CLOSED" => entry \subseteq entry']_financeVars

=============================================================================
