CONSTANTS
  Services = {"locks", "catalogue", "codes", "payroll"}
  Null = Null
  Removed = Removed
  Calls = {p1, p2}
  a = a
  u1 = u1
  x1 = x1
  x2 = x2
  h1 = h1
  Transactions = {t1, t2, t3}
  Products <- OneProduct
  Rows <- LockRows
  Plans <- FewPlans
SPECIFICATION Spec
PROPERTIES
  EveryTransactionEnds
  ServedInTheEnd
CHECK_DEADLOCK FALSE
