------------------------------- MODULE Orders -------------------------------
(***************************************************************************)
(* Hospitality orders of one company and one branch: the stock they        *)
(* reserve, the quota they consume and the statuses they go through.       *)
(*                                                                         *)
(* The state is the committed content of the PostgreSQL tables orders,     *)
(* order_lines, inventory_items, inventory_reservations,                   *)
(* employee_quota_usage, order_quota_consumptions and                      *)
(* company_order_counters, plus what the transactions of                   *)
(* OrdersService.create that are still open have written so far.  Only     *)
(* create is split into several steps: it holds the row locks it took      *)
(* until it ends (ItemLocks, QuotaLocks), and every other operation is     *)
(* one short transaction that waits for the rows it writes to be free.     *)
(*                                                                         *)
(* A request and the order it creates have the same name.  A cart is the   *)
(* aggregated map of create: a quantity for each product, 0 when absent.   *)
(* Its lines are tried in any order, since the client chooses their order. *)
(***************************************************************************)
EXTENDS Naturals, FiniteSets, Units

CONSTANTS
  Requests,       \* calls of POST /orders, each the order it may create
  Employees,      \* callers who order
  Callers,        \* everyone who may change the status of an order
  Permissions,    \* Callers -> what the token of the caller grants
  Keys,           \* values of clientRequestId
  NoKey,          \* no clientRequestId was sent
  Products,
  Orderable,      \* products the caller may order (active, sold, role, branch)
  Carts,          \* the carts the clients send
  Recipe,         \* quantity of each ingredient in one unit of a product
  Limited,        \* products with a quota for the role of the caller
  Quota,          \* Products -> maxQuantity of that quota
  LastPeriod,     \* bound: number of quota periods that elapse
  Counted,        \* bound: the inventory items that counts correct
  MaxStock,       \* bound: the largest quantity a count sets
  InitialStock,   \* quantity of each inventory item at the start
  Nobody          \* value of preparedBy before the preparation starts

Zones   == {"KITCHEN", "BRANCH"}
Items   == Products \X Zones
Periods == 1..LastPeriod

\* What the code asks of the token: platform administrator, order.approve or
\* the legacy manager role, order.prepare, order.deliver, the legacy agent
\* role, order.queue.manage.
Permission == {"admin", "approve", "prepare", "deliver", "agent", "queue"}

ASSUME RequestsAssumption == IsFiniteSet(Requests)

ASSUME CallersAssumption ==
  /\ Employees \subseteq Callers
  /\ Permissions \in [Callers -> SUBSET Permission]
  /\ Nobody \notin Callers
  /\ NoKey \notin Keys

ASSUME CatalogueAssumption ==
  /\ IsFiniteSet(Products)
  /\ Orderable \subseteq Products
  /\ Limited \subseteq Products
  /\ Quota \in [Products -> Nat]
  /\ Recipe \in [Products -> [Products -> Nat]]
  /\ Carts \subseteq [Products -> Nat]

ASSUME BoundsAssumption ==
  /\ LastPeriod \in Nat \ {0}
  /\ MaxStock \in Nat
  /\ Counted \subseteq Items
  /\ InitialStock \in [Items -> Nat]

VARIABLES
  quantity,     \* inventory_items.quantity
  reserved,     \* inventory_items.reserved
  used,         \* employee_quota_usage.used_quantity
  nextNumber,   \* company_order_counters.next_number
  period,       \* the quota period of the business date
  status,       \* of a request, and of the order once it is created
  request,      \* employee, key and cart of a request
  window,       \* quota period frozen when the transaction of a request opens
  line,         \* decision on each line of the cart
  held,         \* inventory_reservations of the order, HELD
  consumed,     \* inventory_reservations of the order, CONSUMED
  charge,       \* order_quota_consumptions of the order, CONSUMED
  preparedBy,   \* orders.prepared_by, set together with prep_started_at
  prepared,     \* lines whose preparationStatus is not PENDING
  number        \* orders.order_number

stockVars == <<quantity, reserved>>
bookVars  == <<held, consumed, charge>>
orderVars == <<status, line, preparedBy, prepared, number>>
vars == <<quantity, reserved, used, nextNumber, period, status, request,
          window, line, held, consumed, charge, preparedBy, prepared, number>>

OrderStatus == {"PENDING", "APPROVED", "IN_PROGRESS", "READY", "DELIVERED",
                "REJECTED", "CANCELLED"}

\* The answers of create other than a new order: 422 orderValidationFailed,
\* the existing order, 409 orderRequestPayloadMismatch, 500.
Answer == {"REFUSED", "REPLAYED", "CONFLICT", "FAILED"}

Status == OrderStatus \union Answer \union {"NEW", "RECEIVED", "CREATING"}

Decision == {"ABSENT", "TODO", "APPROVED", "REJECTED"}

RequestData == [employee : Employees, key : Keys \union {NoKey}, cart : Carts]

\* What is known of a request that was not sent yet.
NoRequest == [employee |-> Nobody, key |-> NoKey, cart |-> [p \in Products |-> 0]]

Nothing == [i \in Items |-> 0]
NoCharge == [p \in Products |-> 0]
NoLine == [p \in Products |-> "ABSENT"]

-----------------------------------------------------------------------------
(***************************************************************************)
(* The cart against recipes, stock and quota                               *)
(***************************************************************************)

Smaller(a, b) == IF a < b THEN a ELSE b

\* A product with a recipe has no stock of its own.
Composed(p) == \E q \in Products : Recipe[p][q] > 0

\* Units of the stock product q that n units of the product p take.
Need(p, n, q) ==
  IF Composed(p) THEN n * Recipe[p][q] ELSE IF q = p THEN n ELSE 0

LineNeed(r, p, q) == Need(p, request[r].cart[p], q)

Free(i) == quantity[i] - reserved[i]

Available(q) == Free(<<q, "KITCHEN">>) + Free(<<q, "BRANCH">>)

\* Mutant of Allocation: the deficit of the kitchen is not reserved.
KitchenOnly(r, p) ==
  [i \in Items |-> IF i[2] = "KITCHEN"
                  THEN Smaller(Free(<<i[1], "KITCHEN">>), LineNeed(r, p, i[1]))
                  ELSE 0]

\* Kitchen first, the deficit in the branch.
Allocation(r, p) ==
  [i \in Items |->
     LET fromKitchen == Smaller(Free(<<i[1], "KITCHEN">>), LineNeed(r, p, i[1]))
     IN  IF i[2] = "KITCHEN" THEN fromKitchen
                             ELSE LineNeed(r, p, i[1]) - fromKitchen]

\* Mutant of StockSuffices: what other orders reserved is not subtracted.
PhysicalStockSuffices(r, p) ==
  \A q \in Products :
    LineNeed(r, p, q) <= quantity[<<q, "KITCHEN">>] + quantity[<<q, "BRANCH">>]

StockSuffices(r, p) == \A q \in Products : LineNeed(r, p, q) <= Available(q)

QuotaRow(r, p) == <<request[r].employee, p, window[r]>>

\* Mutant of QuotaSuffices: the order alone is compared with the quota (P02).
QuotaSufficesAlone(r, p) == p \in Limited => request[r].cart[p] <= Quota[p]

QuotaSuffices(r, p) ==
  p \in Limited => used[QuotaRow(r, p)] + request[r].cart[p] <= Quota[p]

HeldOn(i) == [r \in Requests |-> held[r][i]]

ChargedTo(e, p, t) ==
  [r \in Requests |->
     IF request[r].employee = e /\ window[r] = t THEN charge[r][p] ELSE 0]

Open == {r \in Requests : status[r] = "CREATING"}

\* What the open transactions reserved: a plain read does not see it yet.
OpenHeld(i) == Total([r \in Open |-> held[r][i]])

CommittedAvailable(q) ==
  Available(q) + OpenHeld(<<q, "KITCHEN">>) + OpenHeld(<<q, "BRANCH">>)

(***************************************************************************)
(* Row locks of the open transactions: the items of the accepted lines and *)
(* their usage rows.  ROLLBACK TO SAVEPOINT gives up those of a refused    *)
(* line.                                                                   *)
(***************************************************************************)
AcceptedLines(r) == {p \in Products : line[r][p] = "APPROVED"}

ItemLocks(r) ==
  IF status[r] = "CREATING"
  THEN {i \in Items : \E p \in AcceptedLines(r) : LineNeed(r, p, i[1]) > 0}
  ELSE {}

QuotaLocks(r) ==
  IF status[r] = "CREATING"
  THEN {QuotaRow(r, p) : p \in AcceptedLines(r) \intersect Limited}
  ELSE {}

ItemFree(r, i) == \A o \in Requests \ {r} : i \notin ItemLocks(o)

QuotaFree(r, k) == \A o \in Requests \ {r} : k \notin QuotaLocks(o)

-----------------------------------------------------------------------------
(***************************************************************************)
(* OrdersService.create                                                    *)
(***************************************************************************)

\* Orders already stored for this key: the pre-check, and the unique index
\* (employee_id, client_request_id).
Existing(e, k) ==
  {o \in Requests : /\ status[o] \in OrderStatus
                    /\ k # NoKey
                    /\ request[o].employee = e
                    /\ request[o].key = k}

\* Mutant of SameKey: no unique index backs the pre-check.
NoSameKey(r) == {}

SameKey(r) == Existing(request[r].employee, request[r].key)

\* The stored order is returned only if it was created from the same cart.
AnswerFor(orders, cart) ==
  IF \E o \in orders : request[o].cart = cart THEN "REPLAYED" ELSE "CONFLICT"

\* The request arrives and its key is looked up, before anything is locked.
Receive(r, e, k, c) ==
  /\ status[r] = "NEW"
  /\ request' = [request EXCEPT ![r] = [employee |-> e, key |-> k, cart |-> c]]
  /\ status' = [status EXCEPT ![r] = IF Existing(e, k) = {} THEN "RECEIVED"
                                     ELSE AnswerFor(Existing(e, k), c)]
  /\ UNCHANGED <<stockVars, used, nextNumber, period, window, line, bookVars,
                 preparedBy, prepared, number>>

\* Decision of the validation engine on each line, on unlocked reads.
Advisory(r) ==
  [p \in Products |->
     IF request[r].cart[p] = 0 THEN "ABSENT"
     ELSE IF /\ p \in Orderable
             /\ \A q \in Products : LineNeed(r, p, q) <= CommittedAvailable(q)
          THEN "TODO" ELSE "REJECTED"]

\* The advisory validation, then the transaction opens.
Validate(r) ==
  /\ status[r] = "RECEIVED"
  /\ IF \E p \in Products : Advisory(r)[p] = "TODO"
     THEN /\ status' = [status EXCEPT ![r] = "CREATING"]
          /\ line' = [line EXCEPT ![r] = Advisory(r)]
          /\ window' = [window EXCEPT ![r] = period]
     ELSE /\ status' = [status EXCEPT ![r] = "REFUSED"]
          /\ UNCHANGED <<line, window>>
  /\ UNCHANGED <<stockVars, used, nextNumber, period, request, bookVars,
                 preparedBy, prepared, number>>

Trying(r, p) ==
  /\ status[r] = "CREATING"
  /\ line[r][p] = "TODO"
  /\ p \in Limited => QuotaFree(r, QuotaRow(r, p))

ItemsFree(r, p, q) ==
  LineNeed(r, p, q) > 0 => \A z \in Zones : ItemFree(r, <<q, z>>)

\* Quota and stock of one line, both or neither.
AcceptLine(r, p) ==
  /\ Trying(r, p)
  /\ QuotaSuffices(r, p)
  /\ \A q \in Products : ItemsFree(r, p, q)
  /\ StockSuffices(r, p)
  /\ line' = [line EXCEPT ![r][p] = "APPROVED"]
  /\ reserved' = [i \in Items |-> reserved[i] + Allocation(r, p)[i]]
  /\ held' = [held EXCEPT ![r] = [i \in Items |-> @[i] + Allocation(r, p)[i]]]
  /\ IF p \in Limited
     THEN /\ used' = [used EXCEPT ![QuotaRow(r, p)] = @ + request[r].cart[p]]
          /\ charge' = [charge EXCEPT ![r][p] = request[r].cart[p]]
     ELSE UNCHANGED <<used, charge>>
  /\ UNCHANGED <<quantity, nextNumber, period, status, request, window,
                 consumed, preparedBy, prepared, number>>

\* Mutant of RefuseLine: a line without stock waits for a delivery of goods.
RefuseLineOverQuota(r, p) ==
  /\ Trying(r, p)
  /\ ~QuotaSuffices(r, p)
  /\ line' = [line EXCEPT ![r][p] = "REJECTED"]
  /\ UNCHANGED <<stockVars, used, nextNumber, period, status, request, window,
                 bookVars, preparedBy, prepared, number>>

\* QUOTA_EXCEEDED or INSUFFICIENT_STOCK: back to the savepoint of the line.
RefuseLine(r, p) ==
  /\ Trying(r, p)
  /\ \/ ~QuotaSuffices(r, p)
     \/ \E q \in Products : ItemsFree(r, p, q) /\ LineNeed(r, p, q) > Available(q)
  /\ line' = [line EXCEPT ![r][p] = "REJECTED"]
  /\ UNCHANGED <<stockVars, used, nextNumber, period, status, request, window,
                 bookVars, preparedBy, prepared, number>>

AllLinesTried(r) ==
  /\ status[r] = "CREATING"
  /\ \A p \in Products : line[r][p] # "TODO"

\* Counter, order, lines and both registers, then COMMIT.
CommitCreate(r) ==
  /\ AllLinesTried(r)
  /\ AcceptedLines(r) # {}
  /\ SameKey(r) = {}
  /\ status' = [status EXCEPT ![r] = "APPROVED"]
  /\ number' = [number EXCEPT ![r] = nextNumber]
  /\ nextNumber' = nextNumber + 1
  /\ UNCHANGED <<stockVars, used, period, request, window, line, bookVars,
                 preparedBy, prepared>>

\* reserved -= q on every item the order holds.
ReleaseHeld(r) ==
  /\ reserved' = [i \in Items |-> reserved[i] - held[r][i]]
  /\ held' = [held EXCEPT ![r] = Nothing]

\* Mutant of GiveQuotaBack: into the period of the day, not the frozen one.
GiveQuotaBackToday(r) ==
  /\ used' = [k \in Employees \X Products \X Periods |->
                IF k[1] = request[r].employee /\ k[3] = period
                THEN used[k] - Smaller(charge[r][k[2]], used[k])
                ELSE used[k]]
  /\ charge' = [charge EXCEPT ![r] = NoCharge]

\* Mutant of GiveQuotaBack: the register still says CONSUMED afterwards.
GiveQuotaBackAgain(r) ==
  /\ used' = [k \in Employees \X Products \X Periods |->
                IF k[1] = request[r].employee /\ k[3] = window[r]
                THEN used[k] - Smaller(charge[r][k[2]], used[k])
                ELSE used[k]]
  /\ charge' = charge

\* used_quantity -= q in the window of the order, never below 0.
GiveQuotaBack(r) ==
  /\ used' = [k \in Employees \X Products \X Periods |->
                IF k[1] = request[r].employee /\ k[3] = window[r]
                THEN used[k] - Smaller(charge[r][k[2]], used[k])
                ELSE used[k]]
  /\ charge' = [charge EXCEPT ![r] = NoCharge]

\* Mutant of Rollback: the order number is a sequence, which never rolls back.
RollbackButNumber(r, answer) ==
  /\ ReleaseHeld(r)
  /\ GiveQuotaBack(r)
  /\ line' = [line EXCEPT ![r] = NoLine]
  /\ status' = [status EXCEPT ![r] = answer]
  /\ nextNumber' = nextNumber + 1
  /\ UNCHANGED <<quantity, period, request, window, consumed, preparedBy,
                 prepared, number>>

\* ROLLBACK of everything the transaction wrote, and the answer it ends with.
Rollback(r, answer) ==
  /\ ReleaseHeld(r)
  /\ GiveQuotaBack(r)
  /\ line' = [line EXCEPT ![r] = NoLine]
  /\ status' = [status EXCEPT ![r] = answer]
  /\ UNCHANGED <<quantity, nextNumber, period, request, window, consumed,
                 preparedBy, prepared, number>>

\* No line was accepted: 422.
RefuseCreate(r) ==
  /\ AllLinesTried(r)
  /\ AcceptedLines(r) = {}
  /\ Rollback(r, "REFUSED")

\* The insert violates the unique index: the loser reads the winner.
LoseRace(r) ==
  /\ AllLinesTried(r)
  /\ AcceptedLines(r) # {}
  /\ SameKey(r) # {}
  /\ Rollback(r, AnswerFor(SameKey(r), request[r].cart))

\* The connection or the process is lost, or PostgreSQL aborts the
\* transaction: 500, and nothing it wrote remains.
AbortCreate(r) ==
  /\ status[r] = "CREATING"
  /\ Rollback(r, "FAILED")

-----------------------------------------------------------------------------
(***************************************************************************)
(* OrdersService.updateStatus and updatePreparationLine: one transaction   *)
(* on the locked order.  A new order is APPROVED already: the approval of  *)
(* a PENDING one is an action of Delivery, whose incidents put orders back *)
(* to PENDING.                                                             *)
(***************************************************************************)

AdminTransitions(s) ==
  CASE s = "PENDING"     -> {"APPROVED", "IN_PROGRESS", "REJECTED"}
    [] s = "APPROVED"    -> {"IN_PROGRESS", "REJECTED"}
    [] s = "IN_PROGRESS" -> {"READY", "REJECTED"}
    [] s = "READY"       -> {"DELIVERED", "REJECTED"}
    [] OTHER             -> {}

ApproverTransitions(s) ==
  CASE s = "PENDING"  -> {"APPROVED", "REJECTED"}
    [] s = "APPROVED" -> {"REJECTED"}
    [] OTHER          -> {}

\* Mutant of AgentTransitions: an order in preparation can be started (P03).
AgentStartsTwice(c, s) ==
  CASE s \in {"PENDING", "APPROVED", "IN_PROGRESS"} -> {"IN_PROGRESS"}
    [] OTHER -> {}

\* Mutant of AgentTransitions: a courier delivers what nobody prepared.
AgentSkipsPreparation(c, s) ==
  CASE s \in {"PENDING", "APPROVED"} -> {"IN_PROGRESS", "DELIVERED"}
    [] OTHER -> {}

AgentTransitions(c, s) ==
  CASE s \in {"PENDING", "APPROVED"} -> {"IN_PROGRESS"}
    [] s = "IN_PROGRESS" /\ "prepare" \in Permissions[c] -> {"READY", "REJECTED"}
    [] s = "READY" /\ "deliver" \in Permissions[c] -> {"DELIVERED"}
    [] OTHER -> {}

\* The first table that applies to the caller, not the union of the tables.
RoleTransitions(c, s) ==
  CASE "admin" \in Permissions[c]   -> AdminTransitions(s)
    [] "admin" \notin Permissions[c] /\ "approve" \in Permissions[c]
         -> ApproverTransitions(s)
    [] /\ {"admin", "approve"} \intersect Permissions[c] = {}
       /\ {"prepare", "deliver", "agent"} \intersect Permissions[c] # {}
         -> AgentTransitions(c, s)
    [] OTHER -> {}

\* Mutant of OwnerTransitions: the owner cancels at any time.
OwnerAlwaysCancels(c, r) ==
  IF c = request[r].employee THEN {"CANCELLED"} ELSE {}

\* The owner may also cancel before the preparation, whatever its role.
OwnerTransitions(c, r) ==
  IF c = request[r].employee /\ status[r] \in {"PENDING", "APPROVED"}
  THEN {"CANCELLED"} ELSE {}

MayMove(c, r, s) ==
  /\ status[r] \in OrderStatus
  /\ s \in RoleTransitions(c, status[r]) \union OwnerTransitions(c, r)

Started(r) == preparedBy[r] # Nobody

\* The rows that releasing or consuming the reservations of r updates, and
\* those that giving its quota back updates, are not locked by a creation.
StockRowsFree(r) == \A i \in Items : held[r][i] > 0 => ItemFree(r, i)

QuotaRowsFree(r) ==
  \A p \in Products : charge[r][p] > 0 => QuotaFree(r, QuotaRow(r, p))

SetStatus(r, s) == status' = [status EXCEPT ![r] = s]

\* Mutant of Reject: the quota comes back even after the preparation started.
RejectGivesBack(r, c) ==
  /\ MayMove(c, r, "REJECTED")
  /\ StockRowsFree(r) /\ QuotaRowsFree(r)
  /\ ReleaseHeld(r)
  /\ GiveQuotaBack(r)
  /\ SetStatus(r, "REJECTED")
  /\ UNCHANGED <<quantity, nextNumber, period, request, window, line, consumed,
                 preparedBy, prepared, number>>

\* Releases the stock still held; the quota comes back only when the
\* preparation never started.
Reject(r, c) ==
  /\ MayMove(c, r, "REJECTED")
  /\ StockRowsFree(r)
  /\ ReleaseHeld(r)
  /\ IF Started(r) THEN UNCHANGED <<used, charge>>
                   ELSE QuotaRowsFree(r) /\ GiveQuotaBack(r)
  /\ SetStatus(r, "REJECTED")
  /\ UNCHANGED <<quantity, nextNumber, period, request, window, line, consumed,
                 preparedBy, prepared, number>>

\* No test of prep_started_at on this path.
Cancel(r, c) ==
  /\ MayMove(c, r, "CANCELLED")
  /\ StockRowsFree(r) /\ QuotaRowsFree(r)
  /\ ReleaseHeld(r)
  /\ GiveQuotaBack(r)
  /\ SetStatus(r, "CANCELLED")
  /\ UNCHANGED <<quantity, nextNumber, period, request, window, line, consumed,
                 preparedBy, prepared, number>>

\* Mutant of ConsumeHeld: the reservation is consumed but stays reserved.
ConsumeButReserved(r) ==
  /\ quantity' = [i \in Items |-> quantity[i] - held[r][i]]
  /\ reserved' = reserved
  /\ consumed' = [consumed EXCEPT ![r] = [i \in Items |-> @[i] + held[r][i]]]
  /\ held' = [held EXCEPT ![r] = Nothing]

\* Mutant of ConsumeHeld: the reservation stays HELD and is consumed again.
ConsumeButHeld(r) ==
  /\ quantity' = [i \in Items |-> quantity[i] - held[r][i]]
  /\ reserved' = [i \in Items |-> reserved[i] - held[r][i]]
  /\ consumed' = [consumed EXCEPT ![r] = [i \in Items |-> @[i] + held[r][i]]]
  /\ held' = held

\* Mutant of ConsumeHeld: the units leave the reservation but not the stock.
ConsumeOnPaper(r) ==
  /\ UNCHANGED quantity
  /\ reserved' = [i \in Items |-> reserved[i] - held[r][i]]
  /\ consumed' = [consumed EXCEPT ![r] = [i \in Items |-> @[i] + held[r][i]]]
  /\ held' = [held EXCEPT ![r] = Nothing]

\* HELD becomes CONSUMED: quantity and reserved lose what the order held.
ConsumeHeld(r) ==
  /\ quantity' = [i \in Items |-> quantity[i] - held[r][i]]
  /\ reserved' = [i \in Items |-> reserved[i] - held[r][i]]
  /\ consumed' = [consumed EXCEPT ![r] = [i \in Items |-> @[i] + held[r][i]]]
  /\ held' = [held EXCEPT ![r] = Nothing]

StartPreparation(r, c) ==
  /\ MayMove(c, r, "IN_PROGRESS")
  /\ StockRowsFree(r)
  /\ ConsumeHeld(r)
  /\ preparedBy' = [preparedBy EXCEPT ![r] = c]
  /\ SetStatus(r, "IN_PROGRESS")
  /\ UNCHANGED <<used, nextNumber, period, request, window, line, charge,
                 prepared, number>>

MayPrepare(r, c) == preparedBy[r] = c \/ "queue" \in Permissions[c]

\* Every accepted line must have left PENDING on the preparation checklist.
MarkReady(r, c) ==
  /\ MayMove(c, r, "READY")
  /\ MayPrepare(r, c)
  /\ AcceptedLines(r) \subseteq prepared[r]
  /\ SetStatus(r, "READY")
  /\ UNCHANGED <<stockVars, used, nextNumber, period, request, window, line,
                 bookVars, preparedBy, prepared, number>>

Deliver(r, c) ==
  /\ MayMove(c, r, "DELIVERED")
  /\ SetStatus(r, "DELIVERED")
  /\ UNCHANGED <<stockVars, used, nextNumber, period, request, window, line,
                 bookVars, preparedBy, prepared, number>>

\* DONE, SUBSTITUTED and OUT_OF_STOCK all leave PENDING, and may return to it.
UpdatePreparationLine(r, c, p) ==
  /\ status[r] = "IN_PROGRESS"
  /\ MayPrepare(r, c)
  /\ p \in AcceptedLines(r)
  /\ \E done \in BOOLEAN :
       prepared' = [prepared EXCEPT ![r] = IF done THEN @ \union {p} ELSE @ \ {p}]
  /\ UNCHANGED <<stockVars, used, nextNumber, period, status, request, window,
                 line, bookVars, preparedBy, number>>

-----------------------------------------------------------------------------
(***************************************************************************)
(* InventoryService.adjustAtomic, and the business date                    *)
(***************************************************************************)

\* SORTIE takes units out, the other type sets the count.  Neither looks at
\* reserved: the CHECK reserved <= quantity of the table refuses the write.
AdjustStock(i) ==
  /\ \A r \in Requests : i \notin ItemLocks(r)
  /\ \/ \E n \in 1..quantity[i] :
          quantity' = [quantity EXCEPT ![i] = @ - n]
     \/ \E n \in 0..MaxStock : quantity' = [quantity EXCEPT ![i] = n]
  /\ reserved[i] <= quantity'[i]
  /\ UNCHANGED <<reserved, used, nextNumber, period, request, window, bookVars,
                 orderVars>>

\* The next day, week or month of the quotas begins.
NextPeriod ==
  /\ period < LastPeriod
  /\ period' = period + 1
  /\ UNCHANGED <<stockVars, used, nextNumber, request, window, bookVars,
                 orderVars>>

-----------------------------------------------------------------------------
Init ==
  /\ quantity = InitialStock
  /\ reserved = Nothing
  /\ used = [k \in Employees \X Products \X Periods |-> 0]
  /\ nextNumber = 1
  /\ period = 1
  /\ status = [r \in Requests |-> "NEW"]
  /\ request = [r \in Requests |-> NoRequest]
  /\ window = [r \in Requests |-> 1]
  /\ line = [r \in Requests |-> NoLine]
  /\ held = [r \in Requests |-> Nothing]
  /\ consumed = [r \in Requests |-> Nothing]
  /\ charge = [r \in Requests |-> NoCharge]
  /\ preparedBy = [r \in Requests |-> Nobody]
  /\ prepared = [r \in Requests |-> {}]
  /\ number = [r \in Requests |-> 0]

Submit(r) ==
  \E e \in Employees, k \in Keys \union {NoKey}, c \in Carts : Receive(r, e, k, c)

\* What an open request does next, unless it waits for a lock.
Continue(r) ==
  \/ Validate(r)
  \/ \E p \in Products : AcceptLine(r, p) \/ RefuseLine(r, p)
  \/ CommitCreate(r)
  \/ RefuseCreate(r)
  \/ LoseRace(r)

ChangeStatus(r, c) ==
  \/ Reject(r, c)
  \/ Cancel(r, c)
  \/ StartPreparation(r, c)
  \/ \E p \in Products : UpdatePreparationLine(r, c, p)
  \/ MarkReady(r, c)
  \/ Deliver(r, c)

Next ==
  \/ \E r \in Requests : Submit(r) \/ Continue(r) \/ AbortCreate(r)
  \/ \E r \in Requests, c \in Callers : ChangeStatus(r, c)
  \/ \E i \in Counted : AdjustStock(i)
  \/ NextPeriod

Spec == Init /\ [][Next]_vars

(***************************************************************************)
(* Fairness.  The process keeps executing an open request, and PostgreSQL  *)
(* aborts a transaction of a wait cycle.  Nothing else is fair: people     *)
(* need not order, cook or count.                                          *)
(***************************************************************************)

WaitsForLock(r, p) ==
  \/ p \in Limited /\ ~QuotaFree(r, QuotaRow(r, p))
  \/ \E q \in Products : ~ItemsFree(r, p, q)

Untried(r) == {p \in Products : line[r][p] = "TODO"}

Waiting(r) ==
  /\ status[r] = "CREATING"
  /\ Untried(r) # {}
  /\ \A p \in Untried(r) : WaitsForLock(r, p)

\* Every open transaction waits for another one: one of them is aborted.
BreakDeadlock ==
  /\ \A r \in Requests : status[r] = "CREATING" => Waiting(r)
  /\ \E r \in Requests : Waiting(r) /\ AbortCreate(r)

FairSpec ==
  /\ Spec
  /\ \A r \in Requests : WF_vars(Continue(r))
  /\ WF_vars(BreakDeadlock)

-----------------------------------------------------------------------------
(***************************************************************************)
(* Properties                                                              *)
(***************************************************************************)

\* Every variable has its type, and a request that was sent has its data.
TypeOK ==
  /\ quantity \in [Items -> Nat]
  /\ reserved \in [Items -> Nat]
  /\ used \in [Employees \X Products \X Periods -> Nat]
  /\ nextNumber \in Nat \ {0}
  /\ period \in Periods
  /\ status \in [Requests -> Status]
  /\ request \in [Requests -> RequestData \union {NoRequest}]
  /\ \A r \in Requests : status[r] # "NEW" => request[r] \in RequestData
  /\ window \in [Requests -> Periods]
  /\ line \in [Requests -> [Products -> Decision]]
  /\ held \in [Requests -> [Items -> Nat]]
  /\ consumed \in [Requests -> [Items -> Nat]]
  /\ charge \in [Requests -> [Products -> Nat]]
  /\ preparedBy \in [Requests -> Callers \union {Nobody}]
  /\ prepared \in [Requests -> SUBSET Products]
  /\ number \in [Requests -> Nat]

\* What an item has reserved is exactly the sum of the reservations held on it,
\* whatever reserves, releases, consumes or rolls back concurrently: the
\* invariant stated by the migration that creates inventory_reservations.
ReservedIsHeld ==
  \A i \in Items : reserved[i] = Total(HeldOn(i))

\* No item is promised beyond its physical stock, although orders reserve it
\* and counts correct it concurrently; so no CHECK of the table ever makes a
\* preparation or a cancellation fail.
ReservedWithinQuantity == \A i \in Items : reserved[i] <= quantity[i]

\* The usage of an employee in a period is exactly the sum of what its orders
\* still have consumed in that period, even when the order is undone in a
\* later period: the invariant stated by the migration that creates
\* order_quota_consumptions.
UsedIsCharged ==
  \A e \in Employees, p \in Products, t \in Periods :
    used[<<e, p, t>>] = Total(ChargedTo(e, p, t))

\* Concurrent orders of one employee never take together more than the quota
\* of its role (P02).
QuotaNeverExceeded ==
  \A k \in Employees \X Products \X Periods :
    k[2] \in Limited => used[k] <= Quota[k[2]]

Live(r) == status[r] \in OrderStatus \ {"REJECTED", "CANCELLED"}

HeldBy(r, q)     == held[r][<<q, "KITCHEN">>] + held[r][<<q, "BRANCH">>]
ConsumedBy(r, q) == consumed[r][<<q, "KITCHEN">>] + consumed[r][<<q, "BRANCH">>]

\* What the accepted lines of r take of the stock product q.
Promised(r, q) ==
  Total([p \in AcceptedLines(r) |-> LineNeed(r, p, q)])

\* Until its preparation starts, a live order holds exactly what its accepted
\* lines need over both zones; from then on it has consumed exactly that; an
\* order ended before its preparation, and a request that made no order, hold
\* and consumed nothing.  So a preparation never runs out of stock.
EveryOrderIsBacked ==
  \A r \in Requests, q \in Products :
    LET waiting == status[r] = "CREATING" \/ (Live(r) /\ ~Started(r))
    IN  /\ HeldBy(r, q) = IF waiting THEN Promised(r, q) ELSE 0
        /\ ConsumedBy(r, q) = IF Started(r) THEN Promised(r, q) ELSE 0

\* An order costs its employee the quota of its accepted lines as long as it
\* is live and for ever once its preparation started (D12); an order ended
\* before that costs nothing.
QuotaFollowsTheOrder ==
  \A r \in Requests, p \in Products :
    charge[r][p] =
      IF /\ status[r] = "CREATING" \/ Live(r) \/ Started(r)
         /\ p \in AcceptedLines(r) \intersect Limited
      THEN request[r].cart[p] ELSE 0

Stored == {r \in Requests : status[r] \in OrderStatus}

\* A key creates at most one order, however many requests carry it at once
\* (D8).
OneOrderPerKey ==
  \A r, o \in Stored :
    /\ request[r].key # NoKey
    /\ request[r].key = request[o].key
    /\ request[r].employee = request[o].employee
    => r = o

\* The orders of the company carry the numbers 1, 2, 3, ... without a hole or
\* a double, although creations run concurrently and roll back.
OrderNumbersGapless ==
  /\ {number[r] : r \in Stored} = 1..(nextNumber - 1)
  /\ Cardinality(Stored) = nextNumber - 1

\* The same key with the same cart gets the order that exists, not a refusal:
\* the description of clientRequestId (order.dto.ts).  A retry that passed the
\* pre-check while the first request was open may find that this one took the
\* stock or the quota: the advisory validation or the transaction refuses it
\* before it reaches the unique index.
RetryGetsTheOrder ==
  [][\A r \in Requests :
       /\ status[r] \in {"RECEIVED", "CREATING"}
       /\ \E o \in SameKey(r) : request[o].cart = request[r].cart
       => status'[r] # "REFUSED"]_vars

\* Every order request gets an answer, even when creations wait for the locks
\* of each other in a cycle.
EveryRequestIsAnswered ==
  \A r \in Requests :
    status[r] = "RECEIVED" ~> status[r] \notin {"RECEIVED", "CREATING"}

\* Two cooks never start the same order: who started it does not change (P03).
OneCookStarts ==
  [][\A r \in Requests : Started(r) => preparedBy'[r] = preparedBy[r]]_vars

\* An order that was delivered, rejected or cancelled stays so.
TerminalIsFinal ==
  [][\A r \in Requests :
       status[r] \in {"DELIVERED", "REJECTED", "CANCELLED"}
         => status'[r] = status[r]]_vars

-----------------------------------------------------------------------------
(***************************************************************************)
(* Refinement: the transactions implement OrderPromises, in which an order *)
(* is placed in one step.  An open creation is invisible: its lines, its   *)
(* locks and its rollback are stuttering steps of the abstract system.     *)
(***************************************************************************)

Committed(r) == status[r] \in OrderStatus

QuotaAccounts == Employees \X Limited \X Periods

\* What an order shows of itself once it is committed: what it holds, what it
\* costs and how far it is.
PromiseOf(r) == IF Committed(r) THEN held[r] ELSE Nothing

CostOf(r) ==
  [a \in QuotaAccounts |->
     IF Committed(r) /\ a[1] = request[r].employee /\ a[3] = window[r]
     THEN charge[r][a[2]] ELSE 0]

StageOf(r) ==
  IF ~Committed(r) THEN "none"
  ELSE IF Started(r) THEN "started"
  ELSE IF status[r] \in {"REJECTED", "CANCELLED"} THEN "withdrawn" ELSE "placed"

Promises == INSTANCE OrderPromises WITH
  Ids      <- Requests,
  Goods    <- Items,
  Accounts <- QuotaAccounts,
  Limit    <- [a \in QuotaAccounts |-> Quota[a[2]]],
  stock    <- quantity,
  promise  <- [r \in Requests |-> PromiseOf(r)],
  cost     <- [r \in Requests |-> CostOf(r)],
  stage    <- [r \in Requests |-> StageOf(r)],
  rank     <- number

\* Seen from outside, orders are placed atomically, never beyond the stock and
\* the quota that are left, and numbered in the order they are placed.
PlacedAtomically == Promises!Spec

=============================================================================
