------------------------------ MODULE Delivery ------------------------------
(***************************************************************************)
(* Delivery tasks of the ready orders, and the incidents that put an order *)
(* on hold.  DeliveryService shares the orders table with OrdersService    *)
(* but writes orders.status itself: this module composes both.             *)
(*                                                                         *)
(* Three operations are more than one transaction.  The queue reads the    *)
(* ready orders without a task, then inserts the missing tasks.  The       *)
(* acceptance of a task reads the queue, then locks the task.  The proof   *)
(* of delivery commits the task, then calls updateStatus for the order; a  *)
(* crash or a refusal in between leaves the order as it was.               *)
(*                                                                         *)
(* A second queue that runs at the same time inserts what the first one    *)
(* inserts, and fails: one running queue is enough.                        *)
(***************************************************************************)
EXTENDS Orders

VARIABLES
  task,       \* delivery_tasks.status of the order, or "NONE"
  assignee,   \* delivery_tasks.assigned_employee_id
  previous,   \* delivery_tasks.previous_order_status, or "NONE"
  missing,    \* orders the running queue read without a task
  inZone,     \* (order, courier) that passed the check of the delivery zone
  closing     \* who confirmed the delivery and still has to update the order

deliveryVars == <<task, assignee, previous, missing, inZone, closing>>
allVars == <<vars, deliveryVars>>

TaskStatus == {"AVAILABLE", "ASSIGNED", "PICKED_UP", "OUT_FOR_DELIVERY",
               "ARRIVED", "DELIVERED", "ISSUE_REPORTED", "RETURNED", "FAILED"}

\* Everything of the order but its status.
orderRest == <<stockVars, used, nextNumber, period, request, window, line,
               bookVars, preparedBy, prepared, number>>

-----------------------------------------------------------------------------
(***************************************************************************)
(* DeliveryService.queue                                                   *)
(***************************************************************************)

ReadQueue ==
  /\ missing = {}
  /\ missing' = {r \in Requests : status[r] = "READY" /\ task[r] = "NONE"}
  /\ UNCHANGED <<vars, task, assignee, previous, inZone, closing>>

\* One insert for all of them: a task that exists by now violates the unique
\* index on order_id and none is created.
SaveTasks ==
  /\ missing # {}
  /\ missing' = {}
  /\ task' = IF \A r \in missing : task[r] = "NONE"
             THEN [r \in Requests |-> IF r \in missing THEN "AVAILABLE" ELSE task[r]]
             ELSE task
  /\ UNCHANGED <<vars, assignee, previous, inZone, closing>>

-----------------------------------------------------------------------------
(***************************************************************************)
(* DeliveryService.reportOrderIssue                                        *)
(***************************************************************************)

MayReport(c) == {"prepare", "deliver", "queue"} \intersect Permissions[c] # {}

\* Mutant of ReportOrderIssue: the reporter takes the task over.
ReporterTakesOver(r, c) ==
  /\ MayReport(c)
  /\ status[r] \in OrderStatus \ {"DELIVERED", "REJECTED"}
  /\ task' = [task EXCEPT ![r] = "ISSUE_REPORTED"]
  /\ assignee' = [assignee EXCEPT ![r] = c]
  /\ previous' = [previous EXCEPT ![r] =
                    IF task[r] = "ISSUE_REPORTED" THEN @ ELSE status[r]]
  /\ SetStatus(r, "PENDING")
  /\ UNCHANGED <<orderRest, missing, inZone, closing>>

\* Any order but a delivered or a rejected one goes back to PENDING.
ReportOrderIssue(r, c) ==
  /\ MayReport(c)
  /\ status[r] \in OrderStatus \ {"DELIVERED", "REJECTED"}
  /\ task' = [task EXCEPT ![r] = "ISSUE_REPORTED"]
  /\ assignee' = [assignee EXCEPT ![r] = IF task[r] = "NONE" THEN c ELSE @]
  /\ previous' = [previous EXCEPT ![r] =
                    IF task[r] = "ISSUE_REPORTED" THEN @ ELSE status[r]]
  /\ SetStatus(r, "PENDING")
  /\ UNCHANGED <<orderRest, missing, inZone, closing>>

\* OrdersService.updateStatus: an approver takes an order off hold.
Approve(r, c) ==
  /\ MayMove(c, r, "APPROVED")
  /\ SetStatus(r, "APPROVED")
  /\ UNCHANGED <<orderRest, deliveryVars>>

-----------------------------------------------------------------------------
(***************************************************************************)
(* DeliveryService.transitionAtomic                                        *)
(***************************************************************************)

MayCarry(r, c)  == assignee[r] = c \/ "queue" \in Permissions[c]
Courier(c)      == "deliver" \in Permissions[c]
QueueManager(c) == "queue" \in Permissions[c]

SetTask(r, s) == task' = [task EXCEPT ![r] = s]

OnlyTheTask == UNCHANGED <<vars, previous, missing, closing>>

\* Before the transaction of accept, a courier who does not manage the queue
\* must find the task in the queue, on a floor of its own: only a ready order
\* is there.  The floors are left open.
CheckZone(r, c) ==
  /\ Courier(c) /\ ~QueueManager(c)
  /\ task[r] = "AVAILABLE" /\ status[r] = "READY"
  /\ inZone' = inZone \union {<<r, c>>}
  /\ UNCHANGED <<vars, task, assignee, previous, missing, closing>>

\* The order is not read again.
AcceptTask(r, c) ==
  /\ Courier(c)
  /\ QueueManager(c) \/ <<r, c>> \in inZone
  /\ task[r] = "AVAILABLE"
  /\ inZone' = inZone \ {<<r, c>>}
  /\ SetTask(r, "ASSIGNED")
  /\ assignee' = [assignee EXCEPT ![r] = c]
  /\ OnlyTheTask

PickUp(r, c) ==
  /\ Courier(c) /\ MayCarry(r, c)
  /\ task[r] = "ASSIGNED"
  /\ SetTask(r, "PICKED_UP")
  /\ UNCHANGED <<assignee, inZone>> /\ OnlyTheTask

Arrive(r, c) ==
  /\ Courier(c) /\ MayCarry(r, c)
  /\ task[r] = "OUT_FOR_DELIVERY"
  /\ SetTask(r, "ARRIVED")
  /\ UNCHANGED <<assignee, inZone>> /\ OnlyTheTask

\* The incident of a courier stops the task, not the order, and does not
\* record the status of the order.
ReportTaskIssue(r, c) ==
  /\ Courier(c) /\ MayCarry(r, c)
  /\ task[r] \in {"PICKED_UP", "OUT_FOR_DELIVERY", "ARRIVED"}
  /\ SetTask(r, "ISSUE_REPORTED")
  /\ UNCHANGED <<assignee, inZone>> /\ OnlyTheTask

\* Mutant of Restore: without a recorded status, the order moves all the same.
RestoreAlways(r, s) ==
  status' = [status EXCEPT ![r] = IF s = "NONE" THEN "APPROVED" ELSE s]

\* The status of the order after a task that once was put on hold moves on.
Restore(r, s) ==
  status' = IF previous[r] = "NONE" THEN status ELSE [status EXCEPT ![r] = s]

\* The courier departs, or resumes after an incident: the same transition
\* behind two routes.  previous is written back each time and never cleared.
Depart(r, c) ==
  /\ Courier(c) \/ QueueManager(c)
  /\ MayCarry(r, c)
  /\ task[r] \in {"PICKED_UP", "ISSUE_REPORTED"}
  /\ SetTask(r, "OUT_FOR_DELIVERY")
  /\ Restore(r, previous[r])
  /\ UNCHANGED <<orderRest, assignee, previous, missing, inZone, closing>>

\* RETURNED or FAILED: the order is rejected in the table, nothing else.
GiveUp(r, c) ==
  /\ QueueManager(c)
  /\ task[r] = "ISSUE_REPORTED"
  /\ \E s \in {"RETURNED", "FAILED"} : SetTask(r, s)
  /\ Restore(r, "REJECTED")
  /\ UNCHANGED <<orderRest, assignee, previous, missing, inZone, closing>>

\* The proof of delivery: the task commits first.
ConfirmDelivery(r, c) ==
  /\ Courier(c) /\ MayCarry(r, c)
  /\ task[r] = "ARRIVED"
  /\ closing[r] = Nobody
  /\ SetTask(r, "DELIVERED")
  /\ closing' = [closing EXCEPT ![r] = c]
  /\ UNCHANGED <<vars, assignee, previous, missing, inZone>>

\* A retry with the proof already recorded skips the task, whoever it is
\* assigned to, and calls updateStatus again.
RetryDelivery(r, c) ==
  /\ Courier(c)
  /\ task[r] = "DELIVERED"
  /\ closing[r] = Nobody
  /\ closing' = [closing EXCEPT ![r] = c]
  /\ UNCHANGED <<vars, task, assignee, previous, missing, inZone>>

\* The second transaction: updateStatus(DELIVERED), which may refuse.
CloseOrder(r) ==
  /\ closing[r] # Nobody
  /\ IF MayMove(closing[r], r, "DELIVERED") THEN Deliver(r, closing[r])
                                            ELSE UNCHANGED vars
  /\ closing' = [closing EXCEPT ![r] = Nobody]
  /\ UNCHANGED <<task, assignee, previous, missing, inZone>>

\* The process stops before the second transaction.
CrashBeforeClose(r) ==
  /\ closing[r] # Nobody
  /\ closing' = [closing EXCEPT ![r] = Nobody]
  /\ UNCHANGED <<vars, task, assignee, previous, missing, inZone>>

-----------------------------------------------------------------------------
DeliveryInit ==
  /\ Init
  /\ task = [r \in Requests |-> "NONE"]
  /\ assignee = [r \in Requests |-> Nobody]
  /\ previous = [r \in Requests |-> "NONE"]
  /\ missing = {}
  /\ inZone = {}
  /\ closing = [r \in Requests |-> Nobody]

Carry(r, c) ==
  \/ ReportOrderIssue(r, c)
  \/ Approve(r, c)
  \/ CheckZone(r, c)
  \/ AcceptTask(r, c)
  \/ PickUp(r, c)
  \/ Depart(r, c)
  \/ Arrive(r, c)
  \/ ReportTaskIssue(r, c)
  \/ GiveUp(r, c)
  \/ ConfirmDelivery(r, c)
  \/ RetryDelivery(r, c)

DeliveryNext ==
  \/ Next /\ UNCHANGED deliveryVars
  \/ ReadQueue
  \/ SaveTasks
  \/ \E r \in Requests, c \in Callers : Carry(r, c)
  \/ \E r \in Requests : CloseOrder(r) \/ CrashBeforeClose(r)

DeliverySpec == DeliveryInit /\ [][DeliveryNext]_allVars

-----------------------------------------------------------------------------
(***************************************************************************)
(* Properties                                                              *)
(***************************************************************************)

\* The variables of the orders and of the tasks have their types.
DeliveryTypeOK ==
  /\ TypeOK
  /\ task \in [Requests -> TaskStatus \union {"NONE"}]
  /\ assignee \in [Requests -> Callers \union {Nobody}]
  /\ previous \in [Requests -> OrderStatus \union {"NONE"}]
  /\ missing \subseteq Requests
  /\ inZone \subseteq Requests \X Callers
  /\ closing \in [Requests -> Callers \union {Nobody}]

\* Through incidents, revivals and restarts the reserved columns and the usage
\* rows stay the sums of what orders hold and have consumed, and no stock is
\* promised twice.
LedgersAgree ==
  /\ DeliveryTypeOK
  /\ ReservedIsHeld
  /\ ReservedWithinQuantity
  /\ UsedIsCharged

\* However often an order is put on hold, resumed, started again or revived,
\* it never takes more stock than its accepted lines need.
StockTakenOnce ==
  \A r \in Requests, q \in Products :
    HeldBy(r, q) + ConsumedBy(r, q) <= Promised(r, q)

\* However an order is put on hold and restored, it is delivered only after a
\* cook started it.
DeliveredWasPrepared ==
  \A r \in Requests : status[r] = "DELIVERED" => Started(r)

\* A delivered, rejected or cancelled order comes back only through the
\* incident of its task: the report that puts a cancelled order on hold, or
\* the end of an incident that once recorded a status.
OnlyIncidentsReopen ==
  [][\A r \in Requests :
       /\ status[r] \in {"DELIVERED", "REJECTED", "CANCELLED"}
       /\ status'[r] # status[r]
       => /\ status[r] = "CANCELLED" \/ previous[r] # "NONE"
          /\ "ISSUE_REPORTED" \in {task[r], task'[r]} \/ task[r] = "PICKED_UP"]_allVars

\* The courier who carries an order does not change on the way, whoever
\* reports or resolves the incidents of its task.
CourierKeepsTheOrder ==
  [][\A r \in Requests :
       task[r] \in {"PICKED_UP", "OUT_FOR_DELIVERY", "ARRIVED"}
         => assignee'[r] = assignee[r]]_allVars

\* D12 as the comments state it: the quota stays consumed once the preparation
\* started.  An owner may cancel a started order that is on hold, and then
\* gets it back.
QuotaKeptOnceStarted ==
  [][\A r \in Requests : Started(r) => charge'[r] = charge[r]]_allVars

\* The stock was reserved at the approval, so a first preparation finds it: an
\* order that a cook may start holds what its accepted lines need.
PreparationFindsItsStock ==
  \A r \in Requests, q \in Products :
    status[r] \in {"PENDING", "APPROVED"} /\ ~Started(r)
      => HeldBy(r, q) = Promised(r, q)

\* Rejecting an order before its preparation frees what it reserved.
RejectedHoldsNothing ==
  \A r \in Requests : status[r] = "REJECTED" => held[r] = Nothing

=============================================================================
