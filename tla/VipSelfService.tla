-------------------------- MODULE VipSelfService ---------------------------
(***************************************************************************)
(* Self-service of a VIP office: products in a place, their thresholds,    *)
(* and the replenishment tasks that refill them from a zone of the branch. *)
(*                                                                         *)
(* Only the decrement of the zone is a transaction (decrementBranchStock); *)
(* the product and its tasks are found and saved around it.                *)
(***************************************************************************)
EXTENDS Saves, Integers

CONSTANTS
  Items,          \* products in VIP places
  TaskIds,
  MaxQuantity,    \* bound of a quantity or threshold
  InitialStock,   \* units of the product in the zones KITCHEN and BRANCH
  Reserved,       \* units of a zone that orders reserved
  MaxPut          \* bound of the units added to VIP places

VARIABLES
  stock,          \* units in each zone
  put             \* units the replenishments added to VIP places

vipGhosts == <<stock, put>>
vipVars == <<row, call, vipGhosts>>

Quantities == 0..MaxQuantity

\* The columns of a product in a place and of a replenishment task.
ItemRecords == [quantity : Quantities, min : Quantities, max : Quantities]
TaskRecords == [item : Items, status : {"OPEN", "COMPLETED"}]

\* The zones start with at least what is reserved in them.  Products and tasks
\* have ids of their own, and no row looks like a missing one.
VipAssumption ==
  /\ MaxQuantity \in Nat
  /\ Items \intersect TaskIds = {}
  /\ Null \notin ItemRecords \union TaskRecords
  /\ InitialStock \in [{"KITCHEN", "BRANCH"} -> Nat]
  /\ Reserved \in [{"KITCHEN", "BRANCH"} -> Nat]
  /\ \A z \in {"KITCHEN", "BRANCH"} : InitialStock[z] >= Reserved[z]

Low(item) == item.quantity <= item.min

OpenTasks(i) ==
  {t \in TaskIds : row[t] # Null /\ row[t].item = i /\ row[t].status = "OPEN"}

\* resolveSourceZone: CENTRAL never, BRANCH only with access to the branch.
SourceZones(hasBranchAccess) ==
  IF hasBranchAccess THEN {"KITCHEN", "BRANCH"} ELSE {"KITCHEN"}

----------------------------------------------------------------------------
\* addProduct, also for the first products of a new place.
AddProduct(i, quantity, min, max) ==
  /\ row[i] = Null
  /\ row' = [row EXCEPT ![i] = [quantity |-> quantity, min |-> min, max |-> max]]
  /\ UNCHANGED <<call, vipGhosts>>

RemoveProduct(i) ==
  /\ row[i] # Null
  /\ row' = [row EXCEPT ![i] = Null]
  /\ UNCHANGED <<call, vipGhosts>>

AdjustProduct(p, i, quantity, min, max) ==
  /\ call[p] = Idle
  /\ row[i] # Null
  /\ call' = [call EXCEPT ![p] = Saving(NewCall, i,
       [quantity |-> quantity, min |-> min, max |-> max], "alert")]
  /\ UNCHANGED <<row, vipGhosts>>

\* createTaskIfNeeded looks at the saved entity ...
NeedsTask(p) == Low(call[p].entity)

\* ... then for an open task ...
FindTask(p) ==
  /\ call[p].at = "alert"
  /\ GoesTo(p, call[p],
       IF NeedsTask(p) /\ OpenTasks(call[p].id) = {} THEN "create" ELSE "idle")
  /\ UNCHANGED <<row, vipGhosts>>

\* ... and creates one.
CreateTask(p, t) ==
  /\ call[p].at = "create"
  /\ row[t] = Null
  /\ row' = [row EXCEPT ![t] = [item |-> call[p].id, status |-> "OPEN"]]
  /\ GoesTo(p, call[p], "idle")
  /\ UNCHANGED vipGhosts

----------------------------------------------------------------------------
CompleteTask(p, t) ==
  /\ call[p] = Idle
  /\ row[t] # Null
  /\ row[t].status # "COMPLETED"
  /\ call' = [call EXCEPT ![p] =
       [NewCall EXCEPT !.at = "refill", !.id = row[t].item, !.holds = {t}]]
  /\ UNCHANGED <<row, vipGhosts>>

ReplenishLocation(p, i) ==
  /\ call[p] = Idle
  /\ row[i] # Null
  /\ call' = [call EXCEPT ![p] =
       [NewCall EXCEPT !.at = "refill", !.id = i, !.holds = {}]]
  /\ UNCHANGED <<row, vipGhosts>>

Missing(i) == row[i].max - row[i].quantity

\* decrementBranchStock: the row of the zone is locked; a CHECK keeps what
\* orders reserved.
Decrement(z, n) ==
  /\ stock[z] - n >= Reserved[z]
  /\ stock' = [stock EXCEPT ![z] = @ - n]

\* Mutant of Refill: the place is filled without taking from the zone.
RefillFromNothing(p, z) ==
  LET i == call[p].id IN
  /\ call[p].at = "refill"
  /\ row[i] # Null
  /\ row[i].max # 0
  /\ call' = [call EXCEPT ![p] =
       Saving(@, i, [row[i] EXCEPT !.quantity = row[i].max], "done")]
  /\ UNCHANGED <<row, vipGhosts>>

\* Without a maximum, or without the product, nothing is moved.
SkipRefill(p) ==
  /\ call[p].at = "refill"
  /\ row[call[p].id] # Null => row[call[p].id].max = 0
  /\ GoesTo(p, call[p], "done")
  /\ UNCHANGED <<row, vipGhosts>>

Refill(p, z) ==
  LET i == call[p].id IN
  /\ call[p].at = "refill"
  /\ row[i] # Null
  /\ row[i].max # 0
  /\ IF Missing(i) > 0 THEN Decrement(z, Missing(i)) ELSE UNCHANGED stock
  /\ call' = [call EXCEPT ![p] =
       Saving(@, i, [row[i] EXCEPT !.quantity = row[i].max], "done")]
  /\ UNCHANGED <<row, put>>

\* insufficientInventoryStock: the call fails before anything was saved.
RefuseRefill(p, z) ==
  LET i == call[p].id IN
  /\ call[p].at = "refill"
  /\ row[i] # Null
  /\ row[i].max # 0
  /\ stock[z] - Missing(i) < Reserved[z]
  /\ Fails(p)
  /\ UNCHANGED vipGhosts

\* completeTask closes its task, replenishLocation all that are open by now.
FindDone(p) ==
  /\ call[p].at = "done"
  /\ call' = [call EXCEPT
       ![p].at = "close",
       ![p].holds = IF @ = {} THEN OpenTasks(call[p].id) ELSE @]
  /\ UNCHANGED <<row, vipGhosts>>

CloseTasks(p) ==
  /\ call[p].at = "close"
  /\ row' = [t \in DOMAIN row |->
       IF t \in call[p].holds THEN [row[t] EXCEPT !.status = "COMPLETED"]
                              ELSE row[t]]
  /\ GoesTo(p, call[p], "idle")
  /\ UNCHANGED vipGhosts

SaveProduct(p) ==
  LET i == call[p].id IN
  \/ CompareSave(p) /\ UNCHANGED vipGhosts
  \/ InsertSave(p) /\ UNCHANGED vipGhosts
  \/ /\ UpdateSave(p, TRUE)
     /\ put' = IF /\ call[p].then = "done"
                  /\ row[i] # Null
                  /\ row'[i].quantity > row[i].quantity
               THEN put + row'[i].quantity - row[i].quantity ELSE put
     /\ put' <= MaxPut
     /\ UNCHANGED stock

----------------------------------------------------------------------------
VipInit ==
  /\ row = [i \in Items \union TaskIds |-> Null]
  /\ call = [p \in Calls |-> Idle]
  /\ stock = InitialStock
  /\ put = 0

VipNext ==
  \/ \E i \in Items, quantity, min, max \in Quantities :
       \/ AddProduct(i, quantity, min, max)
       \/ \E p \in Calls : AdjustProduct(p, i, quantity, min, max)
  \/ \E p \in Calls, t \in TaskIds : CreateTask(p, t) \/ CompleteTask(p, t)
  \/ \E p \in Calls, i \in Items : ReplenishLocation(p, i)
  \/ \E p \in Calls, b \in BOOLEAN : \E z \in SourceZones(b) :
       Refill(p, z) \/ RefuseRefill(p, z)
  \/ \E p \in Calls :
       \/ FindTask(p)
       \/ SkipRefill(p)
       \/ FindDone(p)
       \/ CloseTasks(p)
       \/ SaveProduct(p)

FaultNext ==
  \/ \E i \in Items : RemoveProduct(i)
  \/ \E p \in Calls : Crash(p) /\ UNCHANGED vipGhosts

VipSpec == VipInit /\ [][VipNext]_vipVars
VipFaultSpec == VipInit /\ [][VipNext \/ FaultNext]_vipVars

----------------------------------------------------------------------------
Quiet == \A p \in Calls : call[p] = Idle

\* The columns keep their types; orders keep what they reserved in a zone.
VipTypeOK ==
  /\ \A i \in Items : row[i] \in ItemRecords \union {Null}
  /\ \A t \in TaskIds : row[t] \in TaskRecords \union {Null}
  /\ \A z \in {"KITCHEN", "BRANCH"} : stock[z] >= Reserved[z]

\* A task is created only if none is open: a product never has two.
OneOpenTask == \A i \in Items : Cardinality(OpenTasks(i)) <= 1

\* What replenishments take from the zones is what they add to VIP places, so
\* that no unit counts twice and none disappears on the way.
TakenIsPut ==
  Quiet => put = InitialStock["KITCHEN"] - stock["KITCHEN"]
                   + InitialStock["BRANCH"] - stock["BRANCH"]

\* createTaskIfNeeded also follows a refill: a product that is still low when
\* its task is closed gets a new one.
\* The code does not keep this (README, section 5).
LowRefillAlerts ==
  [][\A p \in Calls, i \in Items :
       /\ call[p].at = "close"
       /\ call[p].id = i
       /\ row[i] # Null
       /\ Low(row[i])
       => OpenTasks(i)' # {}]_vipVars

=============================================================================
