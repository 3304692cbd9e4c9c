CONSTANTS
  Services = {"transfers", "replenishments", "purchases alone",
              "self-service alone", "self-service and faults alone",
              "cleaning", "bookings", "meetings", "meetings alone"}
  Null = Null
  Calls = {p1, p2}
  one = one
  Agents = {e1, e2}
  Zones = {"CENTRAL", "BRANCH", "KITCHEN"}
  Ids = {t1, t2}
  Amounts = {1, 2}
  InitialRow <- TwoInBranch
  KitchenZones = {"BRANCH", "KITCHEN"}
  Refills = {q1}
  Requests = {o1}
  Asked = {1}
  KitchenRow <- OneInBranch
  Orders = {o1}
  MaxOrdered = 2
  Items = {i1}
  Tasks = {t1, t2}
  MaxQuantity = 1
  MaxPut = 6
  InitialStock <- StockAtFirst
  Reserved <- ReservedAtFirst
  Cleanings = {t1, t2}
  Bookings = {b1, b2}
  LastHour = 2
  Prepared = {b1}
  Checklist = {m1, m2}
  LastPrepared = 1
SPECIFICATION Spec
INVARIANTS
  TransfersKeepUnits
  StatusFollowsUnits
  ValidationsStand
  PlacesAreSupplied
  RoomsAreReady
SYMMETRY Interchangeable
CHECK_DEADLOCK FALSE
