------------------------------ MODULE MCOffice ------------------------------
(***************************************************************************)
(* Small instances of the services that administer a company: its books,   *)
(* payroll and invoices, leave, contract documents, the accounts of its    *)
(* employees, registration, roles and SLA levels.  None of them reads a    *)
(* row of another, so TLC explores each by itself: "service" names the one *)
(* that moves, the rest stay as they started.  A service whose name ends   *)
(* in "alone" handles one call at a time.                                  *)
(***************************************************************************)
EXTENDS Naturals, FiniteSets, TLC

CONSTANTS
  Services,   \* those to explore
  Null, Removed, Calls, one,
  ExpenseIds, Documents, MaxEntries, MaxEntriesAlone,
  Invoice, MonthCount, MonthCountAlone, MaxPosted, MaxPayments, MaxPaymentsAlone,
  Requests, Absentees, Allowances,
  References, Terms,
  Employees, Emails, Accounts, Codes, HireCodes,
  Options, Challenges, Phones, MaxCodes,
  RoleIds, Quotas,
  LevelIds, LevelCodes, Defaults, LevelRoles

VARIABLES
  service,
  entry, year, expense, payslip, period, lock, bookCall,
  billRow, billCall, payments, booked, posted,
  leaveRow, leaveCall, leaveLock,
  contractRow, contractCall, file,
  staffRow, staffCall, account, code, admitted,
  companyRow, companyCall, options, codes, shown, challenge, proofs, registered,
  roleRow, roleCall, quotas, roleOf, roleIds,
  levelRow, levelCall, roleLevel, levelIds

financeRows == <<expense, payslip, period, lock>>
bookVars == <<entry, year, financeRows, bookCall>>
billVars == <<billRow, billCall, payments, booked, posted>>
leaveVars == <<leaveRow, leaveCall, leaveLock>>
contractVars == <<contractRow, contractCall, file>>
staffVars == <<staffRow, staffCall, account, code, admitted>>
companyVars ==
  <<companyRow, companyCall, options, codes, shown, challenge, proofs, registered>>
roleVars == <<roleRow, roleCall, quotas, roleOf, roleIds>>
levelVars == <<levelRow, levelCall, roleLevel, levelIds>>
vars == <<service, bookVars, billVars, leaveVars, contractVars, staffVars, companyVars,
          roleVars, levelVars>>

\* Expenses and what is posted for them, by some calls or by one.
Books == INSTANCE Finance WITH call <- bookCall
BooksAlone ==
  INSTANCE Finance WITH call <- bookCall, Calls <- {one}, MaxEntries <- MaxEntriesAlone

\* An invoice of some months: by one call, and by some.
BillAlone ==
  INSTANCE Billing WITH row <- billRow, call <- billCall, Calls <- {one},
    MonthCount <- MonthCountAlone, MaxPayments <- MaxPaymentsAlone
Bill == INSTANCE Billing WITH row <- billRow, call <- billCall

LeaveAlone ==
  INSTANCE Leave WITH row <- leaveRow, call <- leaveCall, lock <- leaveLock, Calls <- {one}
Absence ==
  INSTANCE Leave WITH row <- leaveRow, call <- leaveCall, lock <- leaveLock,
    Employees <- Absentees

\* A contract and its documents: saves are refused; the process stops, too;
\* nor are files removed.
Refused ==
  INSTANCE ContractDocuments WITH row <- contractRow, call <- contractCall,
    Calls <- {one}, Faults <- {"save"}
Stopped ==
  INSTANCE ContractDocuments WITH row <- contractRow, call <- contractCall,
    Calls <- {one}, Faults <- {"crash", "save"}
Unremoved ==
  INSTANCE ContractDocuments WITH row <- contractRow, call <- contractCall,
    Calls <- {one}, Faults <- {"crash", "save", "unlink"}

\* The accounts of employees: with nothing that fails, with saves that are
\* refused, and with all that may fail.
Smooth ==
  INSTANCE Onboarding WITH row <- staffRow, call <- staffCall,
    Calls <- {one}, Rejectable <- {"PENDING"}, Flags <- BOOLEAN,
    Faults <- {}
Admission ==
  INSTANCE Onboarding WITH row <- staffRow, call <- staffCall,
    Calls <- {one}, Rejectable <- {"PENDING"}, Flags <- BOOLEAN,
    Faults <- {"save"}
Faulty ==
  INSTANCE Onboarding WITH row <- staffRow, call <- staffCall, Calls <- {one},
    Rejectable <- {"PENDING", "INVITED", "ACTIVE"}, Flags <- BOOLEAN,
    Faults <- {"crash", "save", "keycloak"}
Hires ==
  INSTANCE Onboarding WITH row <- staffRow, call <- staffCall,
    Codes <- HireCodes, Rejectable <- {"PENDING"}, Flags <- {}, Faults <- {"save"}

Registrations ==
  INSTANCE Registration WITH row <- companyRow, call <- companyCall,
    Calls <- {one}, MayCrash <- FALSE
Interrupted ==
  INSTANCE Registration WITH row <- companyRow, call <- companyCall,
    Calls <- {one}, MayCrash <- TRUE

RoleEdits ==
  INSTANCE Roles WITH row <- roleRow, call <- roleCall, used <- roleIds,
    Calls <- {one}, MayCrash <- FALSE
RoleFaults ==
  INSTANCE Roles WITH row <- roleRow, call <- roleCall, used <- roleIds,
    Calls <- {one}, MayCrash <- TRUE

LevelEdits ==
  INSTANCE SlaLevels WITH row <- levelRow, call <- levelCall, used <- levelIds,
    Calls <- {one}, Codes <- LevelCodes, Roles <- LevelRoles, MayCrash <- FALSE
LevelFaults ==
  INSTANCE SlaLevels WITH row <- levelRow, call <- levelCall, used <- levelIds,
    Calls <- {one}, Codes <- LevelCodes, Roles <- LevelRoles, MayCrash <- TRUE

ASSUME BooksAssumption == Books!FinanceAssumption /\ BooksAlone!FinanceAssumption
ASSUME InvoicesAssumption == Bill!BillingAssumption /\ BillAlone!BillingAssumption
ASSUME AbsencesAssumption == Absence!LeaveAssumption /\ LeaveAlone!LeaveAssumption
ASSUME ContractsAssumption == Refused!DocumentAssumption
ASSUME StaffAssumption == Smooth!OnboardingAssumption
ASSUME CompaniesAssumption ==
  Registrations!RegistrationAssumption /\ Interrupted!RegistrationAssumption
ASSUME RoleAssumption == RoleEdits!RolesAssumption /\ RoleFaults!RolesAssumption
ASSUME LevelAssumption == LevelEdits!SlaAssumption /\ LevelFaults!SlaAssumption

----------------------------------------------------------------------------
Init ==
  /\ service \in Services
  /\ IF service \in {"ledger alone", "finance alone"} THEN BooksAlone!FinanceInit
     ELSE Books!FinanceInit
  /\ IF service = "billing" THEN Bill!BillingInit ELSE BillAlone!BillingInit
  /\ IF service = "leave" THEN Absence!LeaveInit
     ELSE IF service = "leave alone" THEN LeaveAlone!LeaveInit
     ELSE leaveRow = Null /\ leaveCall = Null /\ leaveLock = Null
  /\ IF service \in {"documents alone", "documents and crashes alone", "documents and faults alone"}
     THEN Refused!DocumentInit
     ELSE contractRow = Null /\ contractCall = Null /\ file = Null
  /\ IF service = "hires" THEN Hires!OnboardingInit ELSE Smooth!OnboardingInit
  /\ IF service = "registration and crashes alone" THEN Interrupted!RegistrationInit
     ELSE Registrations!RegistrationInit
  /\ RoleEdits!RolesInit
  /\ LevelEdits!SlaInit

BookNext ==
  /\ \/ service = "ledger" /\ Books!LedgerNext /\ UNCHANGED financeRows
     \/ service = "ledger alone" /\ BooksAlone!LedgerNext /\ UNCHANGED financeRows
     \/ service = "finance alone" /\ BooksAlone!FinanceNext
     \/ /\ service = "payroll"
        /\ Books!PayrollNext \/ \E p \in Calls : Books!FinanceCrash(p)
  /\ UNCHANGED <<service, billVars, leaveVars, contractVars, staffVars, companyVars,
                 roleVars, levelVars>>

BillNext ==
  /\ \/ service = "billing alone" /\ BillAlone!BillingNext
     \/ service = "billing" /\ (Bill!BillingNext \/ Bill!BillingFaults)
  /\ UNCHANGED <<service, bookVars, leaveVars, contractVars, staffVars, companyVars,
                 roleVars, levelVars>>

LeaveNext ==
  /\ \/ service = "leave alone" /\ LeaveAlone!LeaveNext
     \/ service = "leave" /\ Absence!LeaveNext
  /\ UNCHANGED <<service, bookVars, billVars, contractVars, staffVars, companyVars,
                 roleVars, levelVars>>

ContractNext ==
  /\ \/ service = "documents alone" /\ Refused!DocumentNext
     \/ service = "documents and crashes alone" /\ Stopped!DocumentNext
     \/ service = "documents and faults alone" /\ Unremoved!DocumentNext
  /\ UNCHANGED <<service, bookVars, billVars, leaveVars, staffVars, companyVars,
                 roleVars, levelVars>>

StaffNext ==
  /\ \/ service = "accounts alone" /\ Smooth!OnboardingNext
     \/ service = "accounts and refusals alone" /\ Admission!OnboardingNext
     \/ service = "accounts and faults alone" /\ Faulty!OnboardingNext
     \/ service = "hires" /\ Hires!OnboardingNext
  /\ UNCHANGED <<service, bookVars, billVars, leaveVars, contractVars, companyVars,
                 roleVars, levelVars>>

CompanyNext ==
  /\ \/ service = "registration alone" /\ Registrations!RegistrationNext
     \/ service = "registration and crashes alone" /\ Interrupted!RegistrationNext
  /\ UNCHANGED <<service, bookVars, billVars, leaveVars, contractVars, staffVars,
                 roleVars, levelVars>>

RoleNext ==
  /\ \/ service = "roles alone" /\ RoleEdits!RolesNext
     \/ service = "roles and crashes alone" /\ RoleFaults!RolesNext
  /\ UNCHANGED <<service, bookVars, billVars, leaveVars, contractVars, staffVars,
                 companyVars, levelVars>>

LevelNext ==
  /\ \/ service = "levels alone" /\ LevelEdits!SlaNext
     \/ service = "levels and crashes alone" /\ LevelFaults!SlaNext
  /\ UNCHANGED <<service, bookVars, billVars, leaveVars, contractVars, staffVars,
                 companyVars, roleVars>>

Next ==
  \/ BookNext \/ BillNext \/ LeaveNext \/ ContractNext
  \/ StaffNext \/ CompanyNext \/ RoleNext \/ LevelNext

Spec == Init /\ [][Next]_vars

----------------------------------------------------------------------------
\* Whatever calls race and crash, the journal uses no number twice, the employee
\* has one salary line in the month, and the payslip of a line is posted at most
\* once; one call at a time, an expense has at most one EXPENSE entry and a
\* closed year no draft of its tax entry.
JournalIsSound ==
  /\ service = "ledger" => Books!EntryTypeOK
  /\ service = "payroll" => Books!FinanceTypeOK /\ Books!PayrollOnce
  /\ service = "finance alone" => BooksAlone!OneExpenseEntry
  /\ service = "ledger alone" => BooksAlone!ClosedYearIsValidated

\* With a journal that may refuse any entry: what was issued or recognized is in
\* it, with two calls and crashes; one call at a time, an invoice keeps the sums
\* of its recognized months and of the payments the journal took, and is never
\* paid beyond its total.
InvoicesAgree ==
  /\ service = "billing" => Bill!NothingUnposted
  /\ service = "billing alone" => BillAlone!BillingTypeOK /\ BillAlone!SumsAgree

\* No balance goes below zero, whatever calls race; one call at a time, and
\* with crashes, the days it counts are those of the approved requests.
LeaveAgrees ==
  /\ service = "leave" => Absence!TakenWithinEntitled
  /\ service = "leave alone" =>
       LeaveAlone!ApprovedAreTaken /\ LeaveAlone!TakenWereApproved

\* The document a contract refers to is there although the process stops, some
\* file is there whatever fails, and no file is left behind although saves are
\* refused.
DocumentsAreKept ==
  /\ service = "documents and crashes alone" => Stopped!DocumentIsKept
  /\ service = "documents and faults alone" => Unremoved!SomeFileIsLeft
  /\ service = "documents alone" => Refused!NothingElseIsKept

\* Employees never share an account, whatever calls race; one call at a time,
\* an account has the e-mail of its row although saves are refused, and while
\* nothing fails whoever is invited got a code that only its age ends.
AccountsFit ==
  /\ service = "hires" => Hires!OneAccountEach
  /\ service = "accounts and refusals alone" => Admission!AccountsAgree
  /\ service = "accounts alone" => Smooth!InvitedUntilExpiry

\* One call at a time: an earlier code of the company stops when a new one was
\* shown, although processes stop; a challenge registers one employee; orders
\* are held to the quotas a role has, although some are refused; and a company
\* with levels has an active one.
SettingsHold ==
  /\ service = "registration and crashes alone" => Interrupted!OldCodesStop
  /\ service = "registration alone" => Registrations!OnePerChallenge
  /\ service = "roles alone" => RoleEdits!QuotasAreEnabled
  /\ service = "levels alone" => LevelEdits!SomeLevelIsActive

\* What was decided stands: a run of the payroll leaves no salary without the
\* entry it had and a rejected leave stays rejected, whatever calls race; one
\* call at a time, and with crashes, a closed year takes no entry, nobody
\* becomes active unapproved or by an option that was withdrawn, and no role or
\* level is removed from those who have it.
DecisionsStand ==
  [][/\ service = "payroll" => Books!PayrollKeepsEntry
     /\ service = "leave" => Absence!RejectedIsFinal
     /\ service = "ledger alone" => BooksAlone!ClosedYearTakesNothing
     /\ service = "accounts and faults alone" => Faulty!ApprovedBeforeActive
     /\ service = "registration and crashes alone" => Interrupted!RegisteredAsSet
     /\ service = "roles and crashes alone" => RoleFaults!AssignedIsProtected
     /\ service = "levels and crashes alone" => LevelFaults!RemovedIsUnused]_vars

\* The model values i1 and i2 stand for whatever there are two of.
Interchangeable ==
  Permutations(Calls) \union Permutations(Employees) \union Permutations(ExpenseIds)
=============================================================================
