CONSTANTS
  Requests = {r1, r2}
  Employees = {emp}
  Callers = {emp, agent, boss}
  Permissions <- MCPermissions
  Keys = {}
  NoKey = NoKey
  Products = {water}
  Orderable = {water}
  Carts <- OneCart
  Recipe <- NoRecipe
  Limited = {water}
  Quota <- MCQuota
  LastPeriod = 1
  Counted = {}
  MaxStock = 0
  InitialStock <- MCInitialStock
  Nobody = Nobody
  water = water
  agent = agent
  boss = boss
  emp = emp
SPECIFICATION DeliverySpec
SYMMETRY Symmetric
INVARIANTS
  LedgersAgree
  StockTakenOnce
  DeliveredWasPrepared
PROPERTIES
  OnlyIncidentsReopen
  CourierKeepsTheOrder
