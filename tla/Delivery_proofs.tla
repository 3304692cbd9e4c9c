--------------------------- MODULE Delivery_proofs ---------------------------
(***************************************************************************)
(* Proofs about the orders when DeliveryService writes their status too:   *)
(* what holds of Orders alone and survives the incidents, the revivals and *)
(* the interrupted proofs of delivery.                                     *)
(***************************************************************************)
EXTENDS Delivery, OrdersQuota_proofs

\* DeliveryTypeOK without the variables of the orders.
TaskTypes ==
  /\ task \in [Requests -> TaskStatus \union {"NONE"}]
  /\ assignee \in [Requests -> Callers \union {Nobody}]
  /\ previous \in [Requests -> OrderStatus \union {"NONE"}]
  /\ missing \subseteq Requests
  /\ inZone \subseteq Requests \X Callers
  /\ closing \in [Requests -> Callers \union {Nobody}]

\* Only a stored order has a recorded status, so an incident that ends writes
\* the status of an order and never that of an open creation.
PreviousStored ==
  \A r \in Requests : previous[r] # "NONE" => status[r] \in OrderStatus

-----------------------------------------------------------------------------
(***************************************************************************)
(* What a step of the deliveries does to an order                          *)
(***************************************************************************)

\* A status is written behind the back of OrdersService.
Overwritten(r) ==
  /\ status[r] \in OrderStatus
  /\ \E s \in OrderStatus : SetStatus(r, s)
  /\ UNCHANGED orderRest

LEMMA RestoreWrites ==
  ASSUME TypeOK, TaskTypes, PreviousStored, NEW r \in Requests,
         NEW s \in OrderStatus \union {"NONE"}, previous[r] # "NONE" => s # "NONE",
         Restore(r, s), UNCHANGED orderRest
  PROVE  UNCHANGED vars \/ Overwritten(r)
<1>1. CASE previous[r] = "NONE"
  BY <1>1 DEF Restore, orderRest, vars, stockVars, bookVars
<1>2. CASE previous[r] # "NONE"
  BY <1>2 DEF Restore, PreviousStored, Overwritten, SetStatus
<1> QED
  BY <1>1, <1>2

LEMMA CarryWrites ==
  ASSUME TypeOK, TaskTypes, PreviousStored, NEW r \in Requests, NEW c \in Callers,
         Carry(r, c)
  PROVE  UNCHANGED vars \/ Overwritten(r)
<1>0. {"PENDING", "APPROVED", "REJECTED"} \subseteq OrderStatus
  BY DEF OrderStatus
<1>1. CASE ReportOrderIssue(r, c)
  BY <1>0, <1>1 DEF ReportOrderIssue, Overwritten, orderRest
<1>2. CASE Approve(r, c)
  BY <1>0, <1>2 DEF Approve, MayMove, Overwritten, orderRest
<1>3. CASE Depart(r, c)
  <2>1. previous[r] \in OrderStatus \union {"NONE"}
    BY DEF TaskTypes
  <2> QED
    BY <1>3, <2>1, RestoreWrites DEF Depart, orderRest
<1>4. CASE GiveUp(r, c)
  BY <1>0, <1>4, RestoreWrites DEF GiveUp, orderRest
<1>5. CASE UNCHANGED vars
  BY <1>5
<1> QED
  BY <1>1, <1>2, <1>3, <1>4, <1>5
  DEF Carry, CheckZone, AcceptTask, PickUp, Arrive, ReportTaskIssue,
      ConfirmDelivery, RetryDelivery, OnlyTheTask

\* Every step is one of Orders, or overwrites the status of one order.
LEMMA OrderSide ==
  ASSUME TypeOK, TaskTypes, PreviousStored, [DeliveryNext]_allVars
  PROVE  [Next]_vars \/ \E r \in Requests : Overwritten(r)
<1>1. CASE Next
  BY <1>1
<1>2. ASSUME NEW r \in Requests, NEW c \in Callers, Carry(r, c)
      PROVE  UNCHANGED vars \/ Overwritten(r)
  BY <1>2, CarryWrites
<1>3. ASSUME NEW r \in Requests, CloseOrder(r)
      PROVE  [Next]_vars
  <2>1. closing[r] \in Callers
    BY <1>3 DEF CloseOrder, TaskTypes
  <2> QED
    BY <1>3, <2>1 DEF CloseOrder, Next, ChangeStatus
<1>4. CASE UNCHANGED vars
  BY <1>4
<1> QED
  BY <1>1, <1>2, <1>3, <1>4
  DEF DeliveryNext, ReadQueue, SaveTasks, CrashBeforeClose, allVars

\* A stored order stays stored.
LEMMA StoredStep ==
  ASSUME TypeOK, [Next]_vars \/ \E o \in Requests : Overwritten(o),
         NEW r \in Requests, status[r] \in OrderStatus
  PROVE  status'[r] \in OrderStatus
<1>1. CASE [Next]_vars
  BY <1>1, EveryLifeStep DEF LifeStep, OrderMoves, OrderStatus
<1>2. ASSUME NEW o \in Requests, Overwritten(o)
      PROVE  status'[r] \in OrderStatus
  BY <1>2 DEF Overwritten, SetStatus, TypeOK
<1> QED
  BY <1>1, <1>2

\* The tasks keep their types, whoever moves them.
LEMMA CarryTypes ==
  ASSUME TypeOK, TaskTypes, NEW r \in Requests, NEW c \in Callers, Carry(r, c)
  PROVE  TaskTypes'
<1>1. ASSUME NEW s \in TaskStatus, SetTask(r, s)
      PROVE  task' \in [Requests -> TaskStatus \union {"NONE"}]
  BY <1>1 DEF SetTask, TaskTypes
<1>2. {"ISSUE_REPORTED", "ASSIGNED", "PICKED_UP", "ARRIVED", "OUT_FOR_DELIVERY",
       "RETURNED", "FAILED", "DELIVERED"} \subseteq TaskStatus
  BY DEF TaskStatus
<1>3. CASE ReportOrderIssue(r, c)
  <2>1. task' = [task EXCEPT ![r] = "ISSUE_REPORTED"]
    BY <1>3 DEF ReportOrderIssue
  <2>2. assignee' \in [Requests -> Callers \union {Nobody}]
    BY <1>3 DEF ReportOrderIssue, TaskTypes
  <2>3. previous' \in [Requests -> OrderStatus \union {"NONE"}]
    BY <1>3 DEF ReportOrderIssue, TaskTypes
  <2> QED
    BY <1>1, <1>2, <1>3, <2>1, <2>2, <2>3 DEF ReportOrderIssue, SetTask, TaskTypes
<1>4. CASE Approve(r, c)
  BY <1>4 DEF Approve, deliveryVars, TaskTypes
<1>5. CASE CheckZone(r, c)
  BY <1>5 DEF CheckZone, TaskTypes
<1>6. CASE AcceptTask(r, c)
  BY <1>1, <1>2, <1>6 DEF AcceptTask, OnlyTheTask, TaskTypes
<1>7. CASE PickUp(r, c) \/ Arrive(r, c) \/ ReportTaskIssue(r, c)
  BY <1>1, <1>2, <1>7 DEF PickUp, Arrive, ReportTaskIssue, OnlyTheTask, TaskTypes
<1>8. CASE Depart(r, c) \/ GiveUp(r, c)
  BY <1>1, <1>2, <1>8 DEF Depart, GiveUp, TaskTypes
<1>9. CASE ConfirmDelivery(r, c) \/ RetryDelivery(r, c)
  BY <1>1, <1>2, <1>9 DEF ConfirmDelivery, RetryDelivery, TaskTypes
<1> QED
  BY <1>3, <1>4, <1>5, <1>6, <1>7, <1>8, <1>9 DEF Carry

LEMMA TaskTypesStep ==
  ASSUME TypeOK, TaskTypes, [DeliveryNext]_allVars
  PROVE  TaskTypes'
<1>1. CASE UNCHANGED deliveryVars
  BY <1>1 DEF deliveryVars, TaskTypes
<1>2. CASE ReadQueue
  BY <1>2 DEF ReadQueue, TaskTypes
<1>3. CASE SaveTasks
  <2>1. "AVAILABLE" \in TaskStatus
    BY DEF TaskStatus
  <2> QED
    BY <1>3, <2>1 DEF SaveTasks, TaskTypes
<1>4. ASSUME NEW r \in Requests, CloseOrder(r) \/ CrashBeforeClose(r)
      PROVE  TaskTypes'
  BY <1>4 DEF CloseOrder, CrashBeforeClose, TaskTypes
<1> QED
  BY <1>1, <1>2, <1>3, <1>4, CarryTypes DEF DeliveryNext, deliveryVars, allVars

\* A report records the status of a stored order, and nothing else records one.
LEMMA PreviousStep ==
  ASSUME TypeOK, TaskTypes, PreviousStored, [DeliveryNext]_allVars
  PROVE  PreviousStored'
<1>1. [Next]_vars \/ \E o \in Requests : Overwritten(o)
  BY OrderSide
<1>2. ASSUME previous' = previous
      PROVE  PreviousStored'
  BY <1>1, <1>2, StoredStep DEF PreviousStored
<1>3. ASSUME NEW r \in Requests, NEW c \in Callers, ReportOrderIssue(r, c)
      PROVE  PreviousStored'
  <2>1. status[r] \in OrderStatus
    BY <1>3 DEF ReportOrderIssue
  <2>2. \A o \in Requests : previous'[o] # "NONE" => status[o] \in OrderStatus
    BY <1>3, <2>1 DEF ReportOrderIssue, TaskTypes, PreviousStored
  <2> QED
    BY <1>1, <2>2, StoredStep DEF PreviousStored
<1>4. ASSUME NEW r \in Requests, NEW c \in Callers, Carry(r, c),
             ~ReportOrderIssue(r, c)
      PROVE  previous' = previous
  BY <1>4 DEF Carry, Approve, CheckZone, AcceptTask, PickUp, Arrive,
              ReportTaskIssue, Depart, GiveUp, ConfirmDelivery, RetryDelivery,
              OnlyTheTask, deliveryVars
<1> QED
  BY <1>2, <1>3, <1>4
  DEF DeliveryNext, ReadQueue, SaveTasks, CloseOrder, CrashBeforeClose,
      deliveryVars, allVars

-----------------------------------------------------------------------------
(***************************************************************************)
(* The ledgers                                                             *)
(***************************************************************************)

\* LedgersAgree, and what makes it inductive.
LedgerInv ==
  /\ StockInv
  /\ TaskTypes
  /\ PreviousStored
  /\ OnlyLinesCharged
  /\ UsedIsCharged

LEMMA OverwrittenLedgers ==
  ASSUME LedgerInv, NEW r \in Requests, Overwritten(r)
  PROVE  StockInv' /\ OnlyLinesCharged' /\ UsedIsCharged'
<1>1. PICK s \in OrderStatus : SetStatus(r, s)
  BY DEF Overwritten
<1>2. StockInv'
  BY <1>1, StatusOnlyStock DEF LedgerInv, Overwritten, orderRest
<1>3. OnlyLinesCharged'
  <2>1. status'[r] \notin {"NEW", "RECEIVED"}
    BY <1>1 DEF SetStatus, OrderStatus, LedgerInv, StockInv, TypeOK
  <2>2. \A o \in Requests \ {r} : status'[o] = status[o]
    BY <1>1 DEF SetStatus, LedgerInv, StockInv, TypeOK
  <2> QED
    BY <2>1, <2>2, OthersCharged
    DEF Overwritten, orderRest, bookVars, LedgerInv, OnlyLinesCharged, AcceptedLines
<1>4. UsedIsCharged'
  BY UsageKept DEF Overwritten, orderRest, bookVars, LedgerInv, UsageInv, StockInv
<1> QED
  BY <1>2, <1>3, <1>4

LEMMA LedgerStep == LedgerInv /\ [DeliveryNext]_allVars => LedgerInv'
<1> SUFFICES ASSUME LedgerInv, [DeliveryNext]_allVars PROVE LedgerInv'
  OBVIOUS
<1>1. TaskTypes' /\ PreviousStored'
  BY TaskTypesStep, PreviousStep DEF LedgerInv, StockInv
<1>2. CASE [Next]_vars
  <2>1. StockInv'
    BY <1>2, StockStep DEF LedgerInv
  <2>2. OnlyLinesCharged'
    BY <1>2, ChargedStep DEF LedgerInv, StockInv
  <2>3. UsedIsCharged'
    BY <1>2, <2>1, UsageStep DEF LedgerInv, UsageInv, StockInv
  <2> QED
    BY <1>1, <2>1, <2>2, <2>3 DEF LedgerInv
<1>3. ASSUME NEW r \in Requests, Overwritten(r)
      PROVE  LedgerInv'
  BY <1>1, <1>3, OverwrittenLedgers DEF LedgerInv
<1> QED
  BY <1>2, <1>3, OrderSide DEF LedgerInv, StockInv

LEMMA LedgerInit == DeliveryInit => LedgerInv
<1> SUFFICES ASSUME DeliveryInit PROVE LedgerInv
  OBVIOUS
<1>1. StockInv /\ OnlyLinesCharged /\ UsedIsCharged
  BY StockInit, ChargedInit, UsageInit DEF DeliveryInit
<1>2. TaskTypes /\ PreviousStored
  BY DEF DeliveryInit, TaskTypes, PreviousStored
<1> QED
  BY <1>1, <1>2 DEF LedgerInv

\* The strengthened invariant of the ledgers.
THEOREM LedgerInvariant == DeliverySpec => []LedgerInv
BY LedgerInit, LedgerStep, PTL DEF DeliverySpec

\* Through incidents, revivals and interrupted deliveries, the reserved columns
\* and the usage rows stay the sums of what the orders hold and have consumed.
THEOREM LedgersAlwaysAgree == DeliverySpec => []LedgersAgree
<1>1. LedgerInv => LedgersAgree
  BY DEF LedgerInv, StockInv, TaskTypes, LedgersAgree, DeliveryTypeOK
<1> QED
  BY <1>1, LedgerInvariant, PTL

\* An incident never lets an employee go over the quota.
THEOREM QuotaNeverExceededByDeliveries == DeliverySpec => []QuotaNeverExceeded
<1>1. DeliveryInit => QuotaNeverExceeded
  BY CatalogueAssumption DEF DeliveryInit, Init, QuotaNeverExceeded
<1>2. LedgerInv /\ LedgerInv' /\ QuotaNeverExceeded /\ [DeliveryNext]_allVars
        => QuotaNeverExceeded'
  <2> SUFFICES ASSUME LedgerInv, LedgerInv', QuotaNeverExceeded,
                      [DeliveryNext]_allVars
               PROVE  QuotaNeverExceeded'
    OBVIOUS
  <2>1. CASE [Next]_vars
    BY <2>1, QuotaStep DEF LedgerInv, StockInv
  <2>2. CASE \E r \in Requests : Overwritten(r)
    BY <2>2 DEF Overwritten, orderRest, QuotaNeverExceeded
  <2> QED
    BY <2>1, <2>2, OrderSide DEF LedgerInv, StockInv
<1> QED
  BY <1>1, <1>2, LedgerInvariant, PTL DEF DeliverySpec

-----------------------------------------------------------------------------
(***************************************************************************)
(* Delivered orders were prepared                                          *)
(***************************************************************************)

Cooked == {"IN_PROGRESS", "READY", "DELIVERED"}

\* A started order, or one whose incident recorded such a status, was taken by
\* a cook; and no incident recorded a delivered order.
PreparedInv ==
  \A r \in Requests :
    /\ status[r] \in Cooked => Started(r)
    /\ previous[r] \in Cooked => Started(r)
    /\ previous[r] # "DELIVERED"

\* A cook stays, and only a cook brings an order among the cooked ones.
LEMMA CookedStep ==
  ASSUME TypeOK, [Next]_vars, NEW r \in Requests
  PROVE  /\ Started(r) => Started(r)'
         /\ status'[r] \in Cooked => status[r] \in Cooked \/ Started(r)'
<1>1. ASSUME NEW o \in Requests, Submit(o) \/ Continue(o) \/ AbortCreate(o)
      PROVE  /\ preparedBy' = preparedBy
             /\ status'[r] = status[r] \/ status'[r] \notin Cooked
  <2>1. CASE status' = status
    BY <1>1, <2>1 DEF Submit, Receive, Continue, Validate, AcceptLine, RefuseLine,
                      CommitCreate, RefuseCreate, LoseRace, AbortCreate, Rollback
  <2>2. CASE CommitCreate(o)
    BY <2>2 DEF CommitCreate, Cooked, TypeOK
  <2>3. CASE Submit(o) \/ Validate(o)
    BY <2>3 DEF Submit, Receive, Validate, AnswerFor, Cooked, TypeOK
  <2>4. CASE RefuseCreate(o) \/ LoseRace(o) \/ AbortCreate(o)
    BY <2>4 DEF RefuseCreate, LoseRace, AbortCreate, Rollback, AnswerFor, Cooked,
                TypeOK
  <2>5. ASSUME NEW p \in Products, AcceptLine(o, p) \/ RefuseLine(o, p)
        PROVE  status' = status
    BY <2>5 DEF AcceptLine, RefuseLine
  <2> QED
    BY <1>1, <2>1, <2>2, <2>3, <2>4, <2>5 DEF Continue
<1>2. ASSUME NEW o \in Requests, NEW c \in Callers, ChangeStatus(o, c)
      PROVE  /\ preparedBy'[r] = preparedBy[r] \/ Started(r)'
             /\ status'[r] \in Cooked => status[r] \in Cooked \/ Started(r)'
  <2>1. CASE StartPreparation(o, c)
    BY <2>1, CallersAssumption DEF StartPreparation, SetStatus, Started, TypeOK
  <2>2. CASE MarkReady(o, c)
    <3>1. status[o] = "IN_PROGRESS"
      BY <2>2, MoveSources DEF MarkReady
    <3> QED
      BY <2>2, <3>1 DEF MarkReady, SetStatus, Cooked, TypeOK
  <2>3. CASE Deliver(o, c)
    <3>1. status[o] = "READY"
      BY <2>3, MoveSources DEF Deliver
    <3> QED
      BY <2>3, <3>1 DEF Deliver, SetStatus, Cooked, TypeOK
  <2>4. CASE Reject(o, c) \/ Cancel(o, c)
    BY <2>4 DEF Reject, Cancel, SetStatus, Cooked, TypeOK
  <2>5. ASSUME NEW p \in Products, UpdatePreparationLine(o, c, p)
        PROVE  status' = status /\ preparedBy' = preparedBy
    BY <2>5 DEF UpdatePreparationLine
  <2> QED
    BY <1>2, <2>1, <2>2, <2>3, <2>4, <2>5 DEF ChangeStatus
<1>3. ASSUME UNCHANGED <<status, preparedBy>>
      PROVE  /\ Started(r) => Started(r)'
             /\ status'[r] \in Cooked => status[r] \in Cooked \/ Started(r)'
  BY <1>3 DEF Started
<1> QED
  BY <1>1, <1>2, <1>3
  DEF Next, AdjustStock, NextPeriod, orderVars, vars, Started

\* What an incident puts back was recorded from the order itself.
LEMMA CarryPrepared ==
  ASSUME TypeOK, TaskTypes, PreparedInv, NEW r \in Requests, NEW c \in Callers,
         Carry(r, c)
  PROVE  PreparedInv'
<1>1. CASE ReportOrderIssue(r, c)
  <2>1. /\ \A o \in Requests : status'[o] = status[o] \/ status'[o] = "PENDING"
        /\ preparedBy' = preparedBy
    BY <1>1 DEF ReportOrderIssue, SetStatus, orderRest, TypeOK
  <2>2. \A o \in Requests : \/ previous'[o] = previous[o]
                            \/ /\ previous'[o] = status[o]
                               /\ status[o] # "DELIVERED"
    BY <1>1 DEF ReportOrderIssue, TaskTypes
  <2> QED
    BY <2>1, <2>2 DEF PreparedInv, Started, Cooked
<1>2. CASE Approve(r, c)
  <2>1. \A o \in Requests : status'[o] = status[o] \/ status'[o] = "APPROVED"
    BY <1>2 DEF Approve, SetStatus, TypeOK
  <2> QED
    BY <1>2, <2>1 DEF Approve, orderRest, deliveryVars, PreparedInv, Started, Cooked
<1>3. CASE Depart(r, c) \/ GiveUp(r, c)
  <2>1. \A o \in Requests : \/ status'[o] = status[o]
                            \/ status'[o] = previous[o]
                            \/ status'[o] = "REJECTED"
    BY <1>3 DEF Depart, GiveUp, Restore, TypeOK
  <2>2. previous' = previous /\ preparedBy' = preparedBy
    BY <1>3 DEF Depart, GiveUp, orderRest
  <2> QED
    BY <2>1, <2>2 DEF PreparedInv, Started, Cooked
<1>4. CASE UNCHANGED vars /\ UNCHANGED previous
  BY <1>4 DEF vars, PreparedInv, Started
<1> QED
  BY <1>1, <1>2, <1>3, <1>4
  DEF Carry, CheckZone, AcceptTask, PickUp, Arrive, ReportTaskIssue,
      ConfirmDelivery, RetryDelivery, OnlyTheTask

LEMMA PreparedStep ==
  TypeOK /\ TaskTypes /\ PreparedInv /\ [DeliveryNext]_allVars => PreparedInv'
<1> SUFFICES ASSUME TypeOK, TaskTypes, PreparedInv, [DeliveryNext]_allVars
             PROVE  PreparedInv'
  OBVIOUS
<1>1. ASSUME [Next]_vars, UNCHANGED previous
      PROVE  PreparedInv'
  <2> SUFFICES ASSUME NEW r \in Requests
               PROVE  /\ status'[r] \in Cooked => Started(r)'
                      /\ previous[r] \in Cooked => Started(r)'
                      /\ previous[r] # "DELIVERED"
    BY <1>1 DEF PreparedInv
  <2> QED
    BY <1>1, CookedStep DEF PreparedInv
<1>2. ASSUME NEW r \in Requests, CloseOrder(r)
      PROVE  PreparedInv'
  <2>1. closing[r] \in Callers
    BY <1>2 DEF CloseOrder, TaskTypes
  <2> QED
    BY <1>1, <1>2, <2>1 DEF CloseOrder, Next, ChangeStatus
<1> QED
  BY <1>1, <1>2, CarryPrepared
  DEF DeliveryNext, ReadQueue, SaveTasks, CrashBeforeClose, deliveryVars, allVars

\* However an order is put on hold, restored and delivered again, a cook
\* started it before it was delivered.
THEOREM DeliveredWasAlwaysPrepared == DeliverySpec => []DeliveredWasPrepared
<1>1. DeliveryInit => PreparedInv
  BY DEF DeliveryInit, Init, PreparedInv, Cooked
<1>2. PreparedInv => DeliveredWasPrepared
  BY DEF PreparedInv, DeliveredWasPrepared, Cooked
<1>3. LedgerInv => TypeOK /\ TaskTypes
  BY DEF LedgerInv, StockInv
<1> QED
  BY <1>1, <1>2, <1>3, PreparedStep, LedgerInvariant, PTL DEF DeliverySpec

-----------------------------------------------------------------------------
(***************************************************************************)
(* Ends and couriers                                                       *)
(***************************************************************************)

\* A delivered, rejected or cancelled order comes back only through the
\* incident of its task.
THEOREM OnlyIncidentsReopenHolds == DeliverySpec => OnlyIncidentsReopen
<1>1. LedgerInv /\ [DeliveryNext]_allVars =>
        [\A r \in Requests :
           /\ status[r] \in {"DELIVERED", "REJECTED", "CANCELLED"}
           /\ status'[r] # status[r]
           => /\ status[r] = "CANCELLED" \/ previous[r] # "NONE"
              /\ "ISSUE_REPORTED" \in {task[r], task'[r]} \/ task[r] = "PICKED_UP"]_allVars
  <2> SUFFICES ASSUME LedgerInv, DeliveryNext, NEW r \in Requests,
                      status[r] \in {"DELIVERED", "REJECTED", "CANCELLED"},
                      status'[r] # status[r]
               PROVE  /\ status[r] = "CANCELLED" \/ previous[r] # "NONE"
                      /\ \/ "ISSUE_REPORTED" \in {task[r], task'[r]}
                         \/ task[r] = "PICKED_UP"
    OBVIOUS
  <2>0. TypeOK /\ TaskTypes
    BY DEF LedgerInv, StockInv
  <2>1. ASSUME [Next]_vars PROVE FALSE
    BY <2>0, <2>1, EveryLifeStep DEF LifeStep, OrderMoves, OrderStatus
  <2>2. ASSUME NEW o \in Requests, CloseOrder(o) PROVE FALSE
    <3>1. closing[o] \in Callers
      BY <2>0, <2>2 DEF CloseOrder, TaskTypes
    <3> QED
      BY <2>1, <2>2, <3>1 DEF CloseOrder, Next, ChangeStatus
  <2>3. PICK o \in Requests, c \in Callers : Carry(o, c)
    BY <2>1, <2>2
    DEF DeliveryNext, ReadQueue, SaveTasks, CrashBeforeClose
  <2>4. CASE ReportOrderIssue(o, c)
    BY <2>0, <2>4 DEF ReportOrderIssue, SetStatus, TypeOK, TaskTypes
  <2>5. CASE Approve(o, c)
    <3>1. status[o] = "PENDING"
      BY <2>5, MoveSources DEF Approve
    <3> QED
      BY <2>0, <2>5, <3>1 DEF Approve, SetStatus, TypeOK
  <2>6. CASE Depart(o, c) \/ GiveUp(o, c)
    BY <2>0, <2>6 DEF Depart, GiveUp, Restore, TypeOK
  <2>7. ~UNCHANGED vars
    BY DEF vars
  <2> QED
    BY <2>3, <2>4, <2>5, <2>6, <2>7
    DEF Carry, CheckZone, AcceptTask, PickUp, Arrive, ReportTaskIssue,
        ConfirmDelivery, RetryDelivery, OnlyTheTask
<1> QED
  BY <1>1, LedgerInvariant, PTL DEF DeliverySpec, OnlyIncidentsReopen

\* The courier who carries an order does not change on the way.
THEOREM CourierKeepsTheOrderHolds == DeliverySpec => CourierKeepsTheOrder
<1>1. LedgerInv /\ [DeliveryNext]_allVars =>
        [\A r \in Requests :
           task[r] \in {"PICKED_UP", "OUT_FOR_DELIVERY", "ARRIVED"}
             => assignee'[r] = assignee[r]]_allVars
  <2> SUFFICES ASSUME LedgerInv, DeliveryNext, NEW r \in Requests,
                      task[r] \in {"PICKED_UP", "OUT_FOR_DELIVERY", "ARRIVED"}
               PROVE  assignee'[r] = assignee[r]
    OBVIOUS
  <2>0. TaskTypes
    BY DEF LedgerInv
  <2>1. ASSUME NEW o \in Requests, NEW c \in Callers, Carry(o, c)
        PROVE  assignee'[r] = assignee[r]
    <3>1. CASE ReportOrderIssue(o, c) \/ AcceptTask(o, c)
      BY <2>0, <3>1 DEF ReportOrderIssue, AcceptTask, TaskTypes
    <3>2. CASE assignee' = assignee
      BY <3>2
    <3> QED
      BY <2>1, <3>1, <3>2
      DEF Carry, Approve, CheckZone, PickUp, Arrive, ReportTaskIssue, Depart,
          GiveUp, ConfirmDelivery, RetryDelivery, deliveryVars
  <2> QED
    BY <2>1 DEF DeliveryNext, ReadQueue, SaveTasks, CloseOrder, CrashBeforeClose,
                deliveryVars
<1> QED
  BY <1>1, LedgerInvariant, PTL DEF DeliverySpec, CourierKeepsTheOrder

-----------------------------------------------------------------------------
(***************************************************************************)
(* No order takes its stock twice                                          *)
(***************************************************************************)

\* StockTakenOnce for one order; one that is still to be created has taken and
\* promised nothing, and one that is being created has consumed nothing.
TakenOnce(r) ==
  /\ \A q \in Products : HeldBy(r, q) + ConsumedBy(r, q) <= Promised(r, q)
  /\ status[r] \in {"NEW", "RECEIVED"} => held[r] = Nothing /\ AcceptedLines(r) = {}
  /\ status[r] \in {"NEW", "RECEIVED", "CREATING"} => consumed[r] = Nothing

TakenInv == \A r \in Requests : TakenOnce(r)

\* A step of one order leaves the others as they are.
LEMMA OthersTaken ==
  ASSUME TakenInv, NEW r \in Requests, TakenOnce(r)',
         \A o \in Requests \ {r} : /\ status'[o] = status[o]
                                   /\ line'[o] = line[o]
                                   /\ request'[o] = request[o]
                                   /\ held'[o] = held[o]
                                   /\ consumed'[o] = consumed[o]
  PROVE  TakenInv'
<1>1. ASSUME NEW o \in Requests \ {r}
      PROVE  TakenOnce(o)'
  <2>1. AcceptedLines(o)' = AcceptedLines(o)
    BY DEF AcceptedLines
  <2>2. \A q \in Products : Promised(o, q)' = Promised(o, q)
    BY <2>1, PromisedKept
  <2> QED
    BY <2>1, <2>2 DEF TakenInv, TakenOnce, HeldBy, ConsumedBy, Nothing
<1> QED
  BY <1>1 DEF TakenInv

\* An order that accepted nothing promises nothing, and that is what it took.
LEMMA NothingTaken ==
  ASSUME NEW r \in Requests, held[r] = Nothing, consumed[r] = Nothing,
         AcceptedLines(r) = {}
  PROVE  TakenOnce(r)
<1> SUFFICES ASSUME NEW q \in Products
             PROVE  HeldBy(r, q) + ConsumedBy(r, q) <= Promised(r, q)
  BY DEF TakenOnce
<1>1. [p \in AcceptedLines(r) |-> LineNeed(r, p, q)] = [p \in {} |-> 0]
  OBVIOUS
<1>2. Promised(r, q) = 0
  BY <1>1, TotalOfZeros DEF Promised
<1>3. HeldBy(r, q) = 0 /\ ConsumedBy(r, q) = 0
  BY ProductItems DEF HeldBy, ConsumedBy, Nothing
<1> QED
  BY <1>2, <1>3

\* The same for the state after a step.
LEMMA NothingTakenAfter ==
  ASSUME NEW r \in Requests, held'[r] = Nothing, consumed'[r] = Nothing,
         AcceptedLines(r)' = {}
  PROVE  TakenOnce(r)'
<1> SUFFICES ASSUME NEW q \in Products
             PROVE  (HeldBy(r, q) + ConsumedBy(r, q) <= Promised(r, q))'
  BY DEF TakenOnce, Nothing
<1>1. [p \in AcceptedLines(r) |-> LineNeed(r, p, q)]' = [p \in {} |-> 0]
  OBVIOUS
<1>2. Promised(r, q)' = 0
  BY <1>1, TotalOfZeros DEF Promised
<1>3. HeldBy(r, q)' = 0 /\ ConsumedBy(r, q)' = 0
  BY ProductItems DEF HeldBy, ConsumedBy, Nothing
<1> QED
  BY <1>2, <1>3

\* An accepted line takes what it adds to the promise.
LEMMA AcceptLineTaken ==
  ASSUME StockInv, TakenInv, NEW r \in Requests, NEW p \in Products,
         AcceptLine(r, p)
  PROVE  TakenInv'
<1>1. status[r] = "CREATING" /\ status' = status /\ line[r][p] = "TODO"
  BY DEF AcceptLine, Trying
<1>2. p \notin AcceptedLines(r) /\ AcceptedLines(r)' = AcceptedLines(r) \union {p}
  BY <1>1 DEF AcceptLine, AcceptedLines, StockInv, TypeOK
<1>3. ASSUME NEW q \in Products
      PROVE  (HeldBy(r, q) + ConsumedBy(r, q) <= Promised(r, q))'
  <2>1. /\ Promised(r, q) \in Nat
        /\ Promised(r, q)' = Promised(r, q) + LineNeed(r, p, q)
    BY <1>1, <1>2, PromiseGrows DEF AcceptLine, StockInv
  <2>2. HeldBy(r, q) + ConsumedBy(r, q) <= Promised(r, q)
    BY DEF TakenInv, TakenOnce
  <2>3. \A i \in Items : /\ held'[r][i] = held[r][i] + Allocation(r, p)[i]
                         /\ held[r][i] \in Nat
    BY DEF AcceptLine, StockInv, TypeOK
  <2>4. Allocation(r, p) \in [Items -> Nat]
    BY <1>1, AllocationFits DEF AcceptLine
  <2>5. Allocation(r, p)[<<q, "KITCHEN">>] + Allocation(r, p)[<<q, "BRANCH">>]
          = LineNeed(r, p, q)
    BY <1>1, AllocationIsNeed
  <2>6. HeldBy(r, q)' = HeldBy(r, q) + LineNeed(r, p, q)
    BY <2>3, <2>4, <2>5, ProductItems DEF HeldBy
  <2>7. ConsumedBy(r, q)' = ConsumedBy(r, q)
    BY DEF AcceptLine, ConsumedBy
  <2>8. /\ HeldBy(r, q) \in Nat /\ ConsumedBy(r, q) \in Nat
        /\ LineNeed(r, p, q) \in Nat
    BY <1>1, HeldByIsNat, NeedIsNat DEF StockInv
  <2> QED
    BY <2>1, <2>2, <2>6, <2>7, <2>8
<1>4. consumed'[r] = Nothing
  BY <1>1 DEF AcceptLine, TakenInv, TakenOnce
<1>5. TakenOnce(r)'
  BY <1>1, <1>3, <1>4 DEF TakenOnce, Nothing
<1>6. \A o \in Requests \ {r} : line'[o] = line[o] /\ held'[o] = held[o]
  BY DEF AcceptLine, StockInv, TypeOK
<1> QED
  BY <1>1, <1>5, <1>6, OthersTaken DEF AcceptLine

\* What an order took and promised stays, although its status changes.
LEMMA TakenKept ==
  ASSUME StockInv, TakenInv, NEW r \in Requests,
         AcceptedLines(r)' = AcceptedLines(r),
         request'[r] = request[r], held'[r] = held[r], consumed'[r] = consumed[r],
         \/ status'[r] \notin {"NEW", "RECEIVED", "CREATING"}
         \/ status'[r] = status[r]
  PROVE  TakenOnce(r)'
<1>1. \A q \in Products : Promised(r, q)' = Promised(r, q)
  BY PromisedKept
<1> QED
  BY <1>1 DEF TakenInv, TakenOnce, HeldBy, ConsumedBy, Nothing

LEMMA RequestTaken ==
  ASSUME StockInv, TakenInv, NEW r \in Requests,
         Submit(r) \/ Continue(r) \/ AbortCreate(r)
  PROVE  TakenInv'
<1>1. CASE Submit(r)
  <2>1. PICK e \in Employees, k \in Keys \union {NoKey}, c \in Carts :
               Receive(r, e, k, c)
    BY <1>1 DEF Submit
  <2>2. TakenOnce(r)'
    BY <2>1, NothingTakenAfter
    DEF Receive, bookVars, TakenInv, TakenOnce, AcceptedLines
  <2> QED
    BY <2>1, <2>2, OthersTaken DEF Receive, bookVars, StockInv, TypeOK
<1>2. CASE Validate(r)
  <2>1. held[r] = Nothing /\ consumed[r] = Nothing /\ AcceptedLines(r) = {}
    BY <1>2 DEF Validate, TakenInv, TakenOnce
  <2>2. AcceptedLines(r)' = {}
    <3>1. CASE line' = line
      BY <2>1, <3>1 DEF AcceptedLines
    <3>2. CASE line' = [line EXCEPT ![r] = Advisory(r)]
      BY <3>2 DEF AcceptedLines, Advisory, StockInv, TypeOK
    <3> QED
      BY <1>2, <3>1, <3>2 DEF Validate
  <2>3. TakenOnce(r)'
    BY <1>2, <2>1, <2>2, NothingTakenAfter DEF Validate, bookVars
  <2> QED
    BY <1>2, <2>3, OthersTaken DEF Validate, bookVars, StockInv, TypeOK
<1>3. ASSUME NEW p \in Products, AcceptLine(r, p)
      PROVE  TakenInv'
  BY <1>3, AcceptLineTaken
<1>4. ASSUME NEW p \in Products, RefuseLine(r, p)
      PROVE  TakenInv'
  <2>1. AcceptedLines(r)' = AcceptedLines(r)
    BY <1>4 DEF RefuseLine, Trying, AcceptedLines, StockInv, TypeOK
  <2>2. TakenOnce(r)'
    BY <1>4, <2>1, TakenKept DEF RefuseLine, bookVars
  <2> QED
    BY <1>4, <2>2, OthersTaken DEF RefuseLine, bookVars, StockInv, TypeOK
<1>5. CASE CommitCreate(r)
  <2>1. TakenOnce(r)'
    BY <1>5, TakenKept
    DEF CommitCreate, bookVars, AcceptedLines, StockInv, TypeOK
  <2> QED
    BY <1>5, <2>1, OthersTaken DEF CommitCreate, bookVars, StockInv, TypeOK
<1>6. CASE RefuseCreate(r) \/ LoseRace(r) \/ AbortCreate(r)
  <2>1. PICK a : Rollback(r, a) /\ status[r] = "CREATING"
    BY <1>6 DEF RefuseCreate, LoseRace, AbortCreate, AllLinesTried
  <2>2. held'[r] = Nothing /\ consumed'[r] = Nothing
    BY <2>1 DEF Rollback, ReleaseHeld, TakenInv, TakenOnce, StockInv, TypeOK
  <2>3. AcceptedLines(r)' = {}
    BY <2>1 DEF Rollback, NoLine, AcceptedLines, StockInv, TypeOK
  <2>4. TakenOnce(r)'
    BY <2>2, <2>3, NothingTakenAfter
  <2>5. \A o \in Requests \ {r} : /\ status'[o] = status[o]
                                  /\ line'[o] = line[o]
                                  /\ held'[o] = held[o]
    BY <2>1 DEF Rollback, ReleaseHeld, StockInv, TypeOK
  <2> QED
    BY <2>1, <2>4, <2>5, OthersTaken DEF Rollback
<1> QED
  BY <1>1, <1>2, <1>3, <1>4, <1>5, <1>6 DEF Continue

\* A start moves what is held to what is consumed, an end gives it back.
LEMMA MoveTaken ==
  ASSUME StockInv, TakenInv, NEW r \in Requests, NEW c \in Callers,
         ChangeStatus(r, c)
  PROVE  TakenInv'
<1>1. CASE StartPreparation(r, c) \/ Reject(r, c) \/ Cancel(r, c)
  <2>1. /\ request' = request /\ line' = line
        /\ status'[r] \notin {"NEW", "RECEIVED", "CREATING"}
        /\ \A o \in Requests \ {r} : /\ status'[o] = status[o]
                                     /\ held'[o] = held[o]
                                     /\ consumed'[o] = consumed[o]
    BY <1>1 DEF StartPreparation, Reject, Cancel, SetStatus, ConsumeHeld,
                ReleaseHeld, StockInv, TypeOK
  <2>2. ASSUME NEW q \in Products
        PROVE  (HeldBy(r, q) + ConsumedBy(r, q) <= Promised(r, q))'
    <3>1. HeldBy(r, q) + ConsumedBy(r, q) <= Promised(r, q)
      BY DEF TakenInv, TakenOnce
    <3>2. Promised(r, q)' = Promised(r, q)
      BY <2>1, PromisedKept DEF AcceptedLines
    <3>3. \A i \in Items : /\ held[r][i] \in Nat /\ consumed[r][i] \in Nat
                           /\ held'[r][i] = 0
                           /\ consumed'[r][i] \in {consumed[r][i],
                                                   consumed[r][i] + held[r][i]}
      BY <1>1 DEF StartPreparation, Reject, Cancel, ConsumeHeld, ReleaseHeld,
                  Nothing, StockInv, TypeOK
    <3>4. /\ HeldBy(r, q)' = 0
          /\ ConsumedBy(r, q)' <= HeldBy(r, q) + ConsumedBy(r, q)
          /\ ConsumedBy(r, q)' \in Nat
      BY <3>3, ProductItems DEF HeldBy, ConsumedBy
    <3>5. Promised(r, q) \in Nat
      <4>1. status[r] # "NEW"
        BY <1>1 DEF StartPreparation, Reject, Cancel, MayMove, OrderStatus
      <4>2. AcceptedLines(r) \subseteq Products /\ IsFiniteSet(AcceptedLines(r))
        BY CatalogueAssumption, FS_Subset DEF AcceptedLines
      <4>3. [p \in AcceptedLines(r) |-> LineNeed(r, p, q)]
              \in [AcceptedLines(r) -> Nat]
        BY <4>1, <4>2, NeedIsNat DEF StockInv
      <4> QED
        BY <4>2, <4>3, UnitsFinite DEF Promised
    <3> QED
      BY <3>1, <3>2, <3>4, <3>5, HeldByIsNat DEF StockInv
  <2>3. TakenOnce(r)'
    BY <2>1, <2>2 DEF TakenOnce
  <2> QED
    BY <2>1, <2>3, OthersTaken
<1>2. CASE MarkReady(r, c) \/ Deliver(r, c)
  <2>1. TakenOnce(r)'
    BY <1>2, TakenKept
    DEF MarkReady, Deliver, SetStatus, bookVars, AcceptedLines, StockInv, TypeOK
  <2> QED
    BY <1>2, <2>1, OthersTaken
    DEF MarkReady, Deliver, SetStatus, bookVars, StockInv, TypeOK
<1>3. ASSUME NEW p \in Products, UpdatePreparationLine(r, c, p)
      PROVE  TakenInv'
  <2>1. TakenOnce(r)'
    BY <1>3, TakenKept DEF UpdatePreparationLine, bookVars, AcceptedLines
  <2> QED
    BY <1>3, <2>1, OthersTaken DEF UpdatePreparationLine, bookVars
<1> QED
  BY <1>1, <1>2, <1>3 DEF ChangeStatus

LEMMA TakenStep ==
  ASSUME StockInv, TakenInv, [Next]_vars \/ \E r \in Requests : Overwritten(r)
  PROVE  TakenInv'
<1>1. ASSUME UNCHANGED <<status, line, request, held, consumed>>
      PROVE  TakenInv'
  <2>1. \A r \in Requests : TakenOnce(r)'
    BY <1>1, TakenKept DEF AcceptedLines
  <2> QED
    BY <2>1 DEF TakenInv
<1>2. ASSUME NEW r \in Requests, Overwritten(r)
      PROVE  TakenInv'
  <2>1. TakenOnce(r)'
    BY <1>2, TakenKept DEF Overwritten, SetStatus, orderRest, bookVars,
                           AcceptedLines, OrderStatus, StockInv, TypeOK
  <2> QED
    BY <1>2, <2>1, OthersTaken
    DEF Overwritten, SetStatus, orderRest, bookVars, StockInv, TypeOK
<1> QED
  BY <1>1, <1>2, RequestTaken, MoveTaken
  DEF Next, AdjustStock, NextPeriod, orderVars, bookVars, vars

\* However often an order is put on hold, resumed, started again or revived, it
\* never takes more stock than its accepted lines need.
THEOREM StockIsTakenOnce == DeliverySpec => []StockTakenOnce
<1>1. DeliveryInit => TakenInv
  <2> SUFFICES ASSUME DeliveryInit, NEW r \in Requests PROVE TakenOnce(r)
    BY DEF TakenInv
  <2>1. held[r] = Nothing /\ consumed[r] = Nothing /\ AcceptedLines(r) = {}
    BY DEF DeliveryInit, Init, NoLine, AcceptedLines
  <2> QED
    BY <2>1, NothingTaken
<1>2. TakenInv => StockTakenOnce
  BY DEF TakenInv, TakenOnce, StockTakenOnce
<1>3. LedgerInv /\ TakenInv /\ [DeliveryNext]_allVars => TakenInv'
  BY TakenStep, OrderSide DEF LedgerInv, StockInv
<1> QED
  BY <1>1, <1>2, <1>3, LedgerInvariant, PTL DEF DeliverySpec
=============================================================================
