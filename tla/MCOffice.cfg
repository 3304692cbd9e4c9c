CONSTANTS
  Services = {"ledger", "ledger alone", "finance alone", "payroll", "billing", "billing alone",
              "leave", "leave alone", "documents alone", "documents and crashes alone",
              "documents and faults alone", "accounts alone", "accounts and refusals alone",
              "accounts and faults alone", "hires", "registration alone",
              "registration and crashes alone", "roles alone", "roles and crashes alone",
              "levels alone", "levels and crashes alone"}
  Null = Null
  Removed = Removed
  Calls = {p1, p2}
  one = one
  ExpenseIds = {x1, x2}
  Documents = {x1, x2}
  MaxEntries = 3
  MaxEntriesAlone = 4
  Invoice = Invoice
  MonthCount = 2
  MonthCountAlone = 3
  MaxPosted = 2
  MaxPayments = 1
  MaxPaymentsAlone = 4
  Requests = {r1, r2, r3}
  Absentees = {one}
  Allowances = {2, 3}
  References = {f1, f2, f3, f4}
  Terms = {i1, i2}
  Employees = {i1, i2}
  Emails = {i1, i2}
  Accounts = {i1, i2}
  Codes = {i1, i2}
  HireCodes = {one}
  Options = {i1, i2}
  Challenges = {one}
  Phones = {i1, i2}
  MaxCodes = 2
  RoleIds = {i1, i2}
  Quotas = {i1, i2}
  LevelIds = {v1, v2, v3}
  LevelCodes = {l1, l2, l3}
  Defaults = {l1, l2}
  LevelRoles = {one}
SPECIFICATION Spec
INVARIANTS
  JournalIsSound
  InvoicesAgree
  LeaveAgrees
  DocumentsAreKept
  AccountsFit
  SettingsHold
PROPERTIES
  DecisionsStand
SYMMETRY Interchangeable
CHECK_DEADLOCK FALSE
