----------------------------- MODULE LockPlans ------------------------------
(***************************************************************************)
(* In which order the transactions of the API lock rows.  A row is named   *)
(* by its table and, for the stock and for the quota an employee has used, *)
(* by the product; the row of a delivery task is its entry in the unique   *)
(* index of order_id, too.  Rows that only the holder of another row locks *)
(* (the lines of an order, its reservations) are left out, and receptions, *)
(* which PostgreSQL refuses before they have a lock (Procurement).         *)
(***************************************************************************)
EXTENDS LockOrder, SequencesExt

CONSTANTS Products

TheOrder == <<"orders">>
TheTask == <<"delivery_tasks">>
TheTransfer == <<"inventory_transfers">>
TheCounter == <<"company_order_counters">>
Usage(p) == <<"employee_quota_usage", p>>
Stock(zone, p) == <<"inventory_items", p, zone>>

LockRows ==
  {TheOrder, TheTask, TheTransfer, TheCounter}
  \union {Usage(p) : p \in Products}
  \union {Stock(zone, p) : zone \in {"KITCHEN", "BRANCH"}, p \in Products}

Plan(kind, locks) == [kind |-> kind, locks |-> locks, savepoints |-> {}]

\* Mutant of ReserveLocks: as for a transfer, BRANCH first.
ReserveBranchFirst(p) == <<Stock("BRANCH", p), Stock("KITCHEN", p)>>

\* reserveStockForProduct: one SELECT, ORDER BY KITCHEN, BRANCH.
ReserveLocks(p) == <<Stock("KITCHEN", p), Stock("BRANCH", p)>>

\* Orders.create: for each line of the cart a savepoint, the quota, and the
\* stock; at the end the number of the order.
CreateOrder(lines) ==
  [kind |-> "create",
   locks |-> FlattenSeq([i \in DOMAIN lines |->
               <<Usage(lines[i])>> \o ReserveLocks(lines[i])]) \o <<TheCounter>>,
   savepoints |-> {3 * i + 1 : i \in 0..Len(lines)}]

\* consumeReservationsForOrder: the stock of its reservations, from a SELECT
\* without an ORDER BY.
PrepareOrder(stock) == Plan("prepare", <<TheOrder>> \o stock)

\* Cancelled, or rejected before the preparation: the stock of its
\* reservations, then the quota.
GiveUpOrder(stock) ==
  Plan("give up", <<TheOrder>> \o stock
         \o SetToSeq({Usage(p) : p \in {stock[i][2] : i \in DOMAIN stock}}))

\* The other transitions of an order, and the checklist of the preparation.
UpdateOrder == Plan("update", <<TheOrder>>)

\* reportOrderIssue has the order when it locks or inserts the task.
ReportOrderIssue == Plan("report", <<TheOrder, TheTask>>)

\* queue() inserts the tasks that are missing: the entry in the unique index,
\* and then the foreign key, FOR KEY SHARE on the order.
QueueDeliveries == Plan("queue", <<TheTask, TheOrder>>)

TransitionDelivery == Plan("transition", <<TheTask>>)

\* OUT_FOR_DELIVERY again, RETURNED or FAILED, after a problem was reported.
ResumeDelivery == Plan("resume", <<TheTask, TheOrder>>)

\* adjustAtomic, and decrementBranchStock without a transaction of its caller.
AdjustStock(zone, p) == Plan("adjust", <<Stock(zone, p)>>)

ToZone(to) == IF to = "KITCHEN" THEN "to KITCHEN" ELSE "to BRANCH"

ConfirmTransfer(from, to, p) ==
  Plan(ToZone(to), <<TheTransfer, Stock(from, p), Stock(to, p)>>)

-----------------------------------------------------------------------------
Distinct(S) == {<<x>> : x \in S} \union ({<<x, y>> : x \in S, y \in S} \ {<<x, x>> : x \in S})

Carts == Distinct(Products)

Reserved == Distinct({Stock(zone, p) : zone \in {"KITCHEN", "BRANCH"}, p \in Products})

AllPlans ==
  {CreateOrder(lines) : lines \in Carts}
  \union {PrepareOrder(stock) : stock \in Reserved}
  \union {GiveUpOrder(stock) : stock \in Reserved}
  \union {AdjustStock(zone, p) : zone \in {"KITCHEN", "BRANCH"}, p \in Products}
  \union {ConfirmTransfer("KITCHEN", "BRANCH", p) : p \in Products}
  \union {ConfirmTransfer("BRANCH", "KITCHEN", p) : p \in Products}
  \union {UpdateOrder, ReportOrderIssue, TransitionDelivery, ResumeDelivery, QueueDeliveries}

\* The operations, of one product each, that keep to one order of the rows:
\* the documents first, then the quota, KITCHEN, BRANCH and the counter.
OrderedPlans ==
  {CreateOrder(<<p>>) : p \in Products}
  \union {PrepareOrder(ReserveLocks(p)) : p \in Products}
  \union {AdjustStock(zone, p) : zone \in {"KITCHEN", "BRANCH"}, p \in Products}
  \union {ConfirmTransfer("KITCHEN", "BRANCH", p) : p \in Products}
  \union {UpdateOrder, ReportOrderIssue, TransitionDelivery}

Inverts(p) ==
  \/ p.kind \in {"resume", "queue", "give up", "to KITCHEN"}
  \/ p.kind = "prepare" /\ Len(p.locks) > 2
  \/ /\ p.kind = "create"
     /\ Cardinality({p.locks[i][2] : i \in {j \in DOMAIN p.locks :
                                       p.locks[j][1] = "inventory_items"}}) > 1

\* When transactions wait for one another, one of them is a delivery that goes
\* on after a problem, a queue of deliveries that inserts its tasks, an order
\* that is given up, a transfer out of BRANCH, an order whose reservations were
\* read in some order, or a cart of several products: an order that is reported,
\* placed with one product or changed, an adjustment and a transfer to BRANCH
\* never stop each other.
DeadlockHasInverter ==
  \A S \in SUBSET Transactions :
    S # {} /\ Stuck(S) => \E t \in S : Inverts(plan[t])

\* reserveStockForProduct says the locks of a product are taken in a stable
\* order, KITCHEN and then BRANCH: who holds BRANCH does not ask for KITCHEN.
\* The code does not keep this (README, section 5).
KitchenBeforeBranch ==
  \A t \in Transactions, p \in Products :
    Open(t) /\ Stock("BRANCH", p) \in HeldRows(t) =>
      ~ (Wants(t) /\ Wanted(t) = Stock("KITCHEN", p))
=============================================================================
