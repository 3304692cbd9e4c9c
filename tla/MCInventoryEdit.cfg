CONSTANTS
  Requests = {r1}
  Employees = {emp}
  Callers = {emp, cook}
  Permissions <- MCPermissions
  Keys = {}
  NoKey = NoKey
  Products = {water}
  Orderable = {water}
  Carts <- OneCart
  Recipe <- NoRecipe
  Limited = {}
  Quota <- MCQuota
  LastPeriod = 1
  Counted <- MCCounted
  MaxStock = 2
  InitialStock <- MCInitialStock
  Nobody = Nobody
  water = water
  cook = cook
  emp = emp
SPECIFICATION EditSpec
INVARIANT
  ReservedIsHeld
