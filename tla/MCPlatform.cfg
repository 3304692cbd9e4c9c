CONSTANTS
  Services = {"access", "access alone", "locks", "catalogue", "spaced updates",
              "codes alone", "codes and crashes alone", "browser", "browser and faults",
              "one proof", "two proofs"}
  Calls = {p1, p2}
  one = one
  Null = Null
  Nobody = Nobody
  Roles = {r1}
  TTL = 2
  MaxDelay = 1
  MaxTime = 4
  MaxChanges = 2
  Linked = TRUE
  MayFail = TRUE
  a = a
  Transactions = {t1, t2, t3}
  Products <- OneProduct
  Rows <- LockRows
  Plans <- AllPlans
  Readers = {p1, p2}
  Updater = u1
  MaxUpdates = 2
  Phones = {p1, p2}
  Purposes = {"login", "registration"}
  MaxRequests = 2
  MaxAttempts = 3
  MaxCodes = 2
  Users = {u1, u2}
  Internal = {u1}
  Logins = {s1, s2, s3, s4}
  Stored = u1
  TwoProofs = {u1, u2}
  delivery = d1
  QueueFlushes = {f1, f2}
  PairFlushes = {f1}
  QueueKills = 2
  PairKills = 1
SPECIFICATION PlatformSpec
INVARIANTS
  StaleIsBounded
  ProfileIsCurrent
  DeadlocksAreInversions
  CatalogueIsCurrent
  LastCodeWorks
  PageIsItsSession
  ProofsArrive
PROPERTIES
  ProofStays
SYMMETRY Interchangeable
CHECK_DEADLOCK FALSE
