CONSTANTS
  Requests = {r1, r2, r3}
  Employees = {emp}
  Callers = {emp, cook, boss}
  Permissions <- MCPermissions
  Keys = {k1}
  NoKey = NoKey
  Products = {coffee, water}
  Orderable = {coffee, water}
  Carts <- OneEach
  Recipe <- PlainRecipe
  Limited = {}
  Quota <- MCQuota
  LastPeriod = 1
  Counted = {}
  MaxStock = 0
  InitialStock <- KitchenStock
  Nobody = Nobody
  coffee = coffee
  water = water
  cook = cook
  boss = boss
  emp = emp
SPECIFICATION FairSpec
PROPERTY
  EveryRequestIsAnswered
CHECK_DEADLOCK FALSE
