CONSTANTS
  Requests = {r1, r2}
  Employees = {emp}
  Callers = {emp, cook, boss}
  Permissions <- MCPermissions
  Keys = {k1}
  NoKey = NoKey
  Products = {coffee, water}
  Orderable = {coffee, water}
  Carts <- TwoCarts
  Recipe <- MCRecipe
  Limited = {water}
  Quota <- MCQuota
  LastPeriod = 2
  Counted <- MCCounted
  MaxStock = 2
  InitialStock <- MCInitialStock
  Nobody = Nobody
  coffee = coffee
  water = water
  cook = cook
  boss = boss
  emp = emp
SPECIFICATION Spec
SYMMETRY Symmetric
INVARIANTS
  TypeOK
  ReservedIsHeld
  ReservedWithinQuantity
  UsedIsCharged
  QuotaNeverExceeded
  EveryOrderIsBacked
  QuotaFollowsTheOrder
  OneOrderPerKey
  OrderNumbersGapless
PROPERTIES
  OneCookStarts
  TerminalIsFinal
  PlacedAtomically
