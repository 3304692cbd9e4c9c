------------------------- MODULE OrdersQuota_proofs -------------------------
(***************************************************************************)
(* Proofs about the quota: what an order costs, and what the usage of an   *)
(* employee adds up to.                                                    *)
(***************************************************************************)
EXTENDS Orders_proofs

\* The cost that QuotaFollowsTheOrder says an order has.
Costs(r, p) ==
  /\ status[r] = "CREATING" \/ Live(r) \/ Started(r)
  /\ p \in AcceptedLines(r) \intersect Limited

\* One order of QuotaFollowsTheOrder.
CostIsCharged(r) ==
  \A p \in Products : charge[r][p] = IF Costs(r, p) THEN request[r].cart[p] ELSE 0

LEMMA CostOfAll == QuotaFollowsTheOrder <=> \A r \in Requests : CostIsCharged(r)
BY DEF QuotaFollowsTheOrder, CostIsCharged, Costs

\* A step of one order leaves the cost of the others alone.
LEMMA OtherCostsKept ==
  ASSUME QuotaFollowsTheOrder, NEW r \in Requests, CostIsCharged(r)',
         \A o \in Requests \ {r} : /\ status'[o] = status[o]
                                   /\ preparedBy'[o] = preparedBy[o]
                                   /\ line'[o] = line[o]
                                   /\ charge'[o] = charge[o]
                                   /\ request'[o] = request[o]
  PROVE  QuotaFollowsTheOrder'
<1>1. \A o \in Requests \ {r} : CostIsCharged(o)'
  BY DEF QuotaFollowsTheOrder, CostIsCharged, Costs, Live, Started, AcceptedLines
<1>2. \A o \in Requests : CostIsCharged(o)'
  BY <1>1
<1> QED
  BY <1>2 DEF QuotaFollowsTheOrder, CostIsCharged, Costs

LEMMA RollbackCost ==
  ASSUME TypeOK, NotStartedEarly, QuotaFollowsTheOrder, NEW r \in Requests,
         status[r] = "CREATING", NEW a \in Answer, Rollback(r, a)
  PROVE  QuotaFollowsTheOrder'
<1>1. ~Started(r)
  BY DEF NotStartedEarly
<1>2. CostIsCharged(r)'
  BY <1>1 DEF Rollback, GiveQuotaBack, NoCharge, Answer, OrderStatus, TypeOK,
              CostIsCharged, Costs, Live, Started
<1> QED
  BY <1>2, OtherCostsKept DEF Rollback, GiveQuotaBack, TypeOK

LEMMA RequestCost ==
  ASSUME TypeOK, NotStartedEarly, QuotaFollowsTheOrder, NEW r \in Requests,
         Submit(r) \/ Continue(r) \/ AbortCreate(r)
  PROVE  QuotaFollowsTheOrder'
<1>0. CostIsCharged(r)
  BY CostOfAll
<1>1. CASE Submit(r)
  <2>1. PICK e \in Employees, k \in Keys \union {NoKey}, c \in Carts :
               Receive(r, e, k, c)
    BY <1>1 DEF Submit
  <2>2. ~Started(r) /\ status[r] = "NEW"
    BY <2>1 DEF Receive, NotStartedEarly
  <2>3. status'[r] \in {"RECEIVED", "REPLAYED", "CONFLICT"}
    BY <2>1 DEF Receive, AnswerFor, TypeOK
  <2>4. \A p \in Products : charge[r][p] = 0
    BY <1>0, <2>2 DEF CostIsCharged, Costs, Live, OrderStatus
  <2>5. CostIsCharged(r)'
    BY <2>1, <2>2, <2>3, <2>4
    DEF Receive, bookVars, CostIsCharged, Costs, Live, OrderStatus, Started
  <2> QED
    BY <2>1, <2>5, OtherCostsKept DEF Receive, bookVars, TypeOK
<1>2. CASE Validate(r)
  <2>1. ~Started(r) /\ status[r] = "RECEIVED"
    BY <1>2 DEF Validate, NotStartedEarly
  <2>2. \A p \in Products : charge[r][p] = 0
    BY <1>0, <2>1 DEF CostIsCharged, Costs, Live, OrderStatus
  <2>3. CASE status'[r] = "REFUSED"
    <3>1. CostIsCharged(r)'
      BY <1>2, <2>1, <2>2, <2>3
      DEF Validate, bookVars, CostIsCharged, Costs, Live, OrderStatus, Started
    <3> QED
      BY <1>2, <3>1, OtherCostsKept DEF Validate, bookVars, TypeOK
  <2>4. CASE line' = [line EXCEPT ![r] = Advisory(r)]
    <3>1. AcceptedLines(r)' = {}
      BY <2>4 DEF AcceptedLines, Advisory, TypeOK
    <3>2. CostIsCharged(r)'
      BY <1>2, <2>2, <3>1 DEF Validate, bookVars, CostIsCharged, Costs
    <3> QED
      BY <1>2, <3>2, OtherCostsKept DEF Validate, bookVars, TypeOK
  <2> QED
    BY <1>2, <2>3, <2>4 DEF Validate, TypeOK
<1>3. ASSUME NEW p \in Products, AcceptLine(r, p)
      PROVE  QuotaFollowsTheOrder'
  <2>1. status[r] = "CREATING" /\ status' = status /\ line[r][p] = "TODO"
    BY <1>3 DEF AcceptLine, Trying
  <2>2. AcceptedLines(r)' = AcceptedLines(r) \union {p}
    BY <1>3 DEF AcceptLine, AcceptedLines, TypeOK
  <2>3. charge[r][p] = 0
    BY <1>0, <2>1 DEF CostIsCharged, Costs, AcceptedLines
  <2>4. \A q \in Products : charge'[r][q] =
          IF q = p /\ p \in Limited THEN request[r].cart[p] ELSE charge[r][q]
    BY <1>3 DEF AcceptLine, TypeOK
  <2>5. request' = request
    BY <1>3 DEF AcceptLine
  <2>6. CostIsCharged(r)'
    BY <1>0, <2>1, <2>2, <2>3, <2>4, <2>5 DEF CostIsCharged, Costs
  <2>7. \A o \in Requests \ {r} : line'[o] = line[o] /\ charge'[o] = charge[o]
    BY <1>3 DEF AcceptLine, TypeOK
  <2> QED
    BY <1>3, <2>6, <2>7, OtherCostsKept DEF AcceptLine
<1>4. ASSUME NEW p \in Products, RefuseLine(r, p)
      PROVE  QuotaFollowsTheOrder'
  <2>1. AcceptedLines(r)' = AcceptedLines(r)
    BY <1>4 DEF RefuseLine, Trying, AcceptedLines, TypeOK
  <2>2. CostIsCharged(r)'
    BY <1>0, <1>4, <2>1
    DEF RefuseLine, bookVars, CostIsCharged, Costs, Live, Started
  <2> QED
    BY <1>4, <2>2, OtherCostsKept DEF RefuseLine, bookVars, TypeOK
<1>5. CASE CommitCreate(r)
  <2>1. CostIsCharged(r)'
    BY <1>0, <1>5 DEF CommitCreate, AllLinesTried, bookVars, CostIsCharged,
                      Costs, Live, OrderStatus, AcceptedLines, TypeOK
  <2> QED
    BY <1>5, <2>1, OtherCostsKept DEF CommitCreate, bookVars, TypeOK
<1>6. CASE RefuseCreate(r) \/ LoseRace(r) \/ AbortCreate(r)
  <2>1. /\ {"REFUSED", "FAILED"} \subseteq Answer
        /\ AnswerFor(SameKey(r), request[r].cart) \in Answer
    BY DEF Answer, AnswerFor
  <2> QED
    BY <1>6, <2>1, RollbackCost
    DEF RefuseCreate, LoseRace, AbortCreate, AllLinesTried
<1> QED
  BY <1>1, <1>2, <1>3, <1>4, <1>5, <1>6 DEF Continue

LEMMA MoveCost ==
  ASSUME TypeOK, NotStartedEarly, QuotaFollowsTheOrder, NEW r \in Requests,
         NEW c \in Callers, ChangeStatus(r, c)
  PROVE  QuotaFollowsTheOrder'
<1>0. CostIsCharged(r)
  BY CostOfAll
<1>1. ASSUME status[r] \in OrderStatus \ {"REJECTED", "CANCELLED"},
             NEW s \in OrderStatus \ {"REJECTED", "CANCELLED"}, SetStatus(r, s),
             UNCHANGED <<request, line, charge>>,
             \A o \in Requests \ {r} : preparedBy'[o] = preparedBy[o]
      PROVE  QuotaFollowsTheOrder'
  <2>1. CostIsCharged(r)'
    BY <1>0, <1>1 DEF SetStatus, CostIsCharged, Costs, Live, AcceptedLines, TypeOK
  <2> QED
    BY <1>1, <2>1, OtherCostsKept DEF SetStatus, TypeOK
<1>2. ASSUME NEW s \in {"REJECTED", "CANCELLED"}, SetStatus(r, s),
             ~Started(r), GiveQuotaBack(r),
             UNCHANGED <<request, line, preparedBy>>
      PROVE  QuotaFollowsTheOrder'
  <2>1. CostIsCharged(r)'
    BY <1>2 DEF SetStatus, GiveQuotaBack, NoCharge, CostIsCharged, Costs, Live,
                Started, TypeOK
  <2> QED
    BY <1>2, <2>1, OtherCostsKept DEF SetStatus, GiveQuotaBack, TypeOK
<1>3. CASE MarkReady(r, c) \/ Deliver(r, c)
  <2>1. status[r] \in {"IN_PROGRESS", "READY"}
    BY <1>3, MoveSources DEF MarkReady, Deliver
  <2> QED
    BY <1>1, <1>3, <2>1 DEF MarkReady, Deliver, OrderStatus, bookVars
<1>4. CASE StartPreparation(r, c)
  <2>1. status[r] \in {"PENDING", "APPROVED"}
    BY <1>4, MoveSources DEF StartPreparation
  <2> QED
    BY <1>1, <1>4, <2>1 DEF StartPreparation, OrderStatus, TypeOK
<1>5. CASE Cancel(r, c)
  <2>1. status[r] \in {"PENDING", "APPROVED"}
    BY <1>5, MoveSources DEF Cancel
  <2>2. ~Started(r)
    BY <2>1 DEF NotStartedEarly
  <2> QED
    BY <1>2, <1>5, <2>2 DEF Cancel
<1>6. CASE Reject(r, c) /\ ~Started(r)
  BY <1>2, <1>6 DEF Reject
<1>7. CASE Reject(r, c) /\ Started(r)
  <2>1. CostIsCharged(r)'
    BY <1>0, <1>7 DEF Reject, CostIsCharged, Costs, AcceptedLines, Started
  <2> QED
    BY <1>7, <2>1, OtherCostsKept DEF Reject, SetStatus, TypeOK
<1>8. ASSUME NEW p \in Products, UpdatePreparationLine(r, c, p)
      PROVE  QuotaFollowsTheOrder'
  <2>1. CostIsCharged(r)'
    BY <1>0, <1>8 DEF UpdatePreparationLine, bookVars, CostIsCharged, Costs,
                      Live, AcceptedLines, Started
  <2> QED
    BY <1>8, <2>1, OtherCostsKept DEF UpdatePreparationLine, bookVars
<1> QED
  BY <1>3, <1>4, <1>5, <1>6, <1>7, <1>8 DEF ChangeStatus

LEMMA CostStep ==
  TypeOK /\ NotStartedEarly /\ QuotaFollowsTheOrder /\ [Next]_vars
    => QuotaFollowsTheOrder'
<1> SUFFICES ASSUME TypeOK, NotStartedEarly, QuotaFollowsTheOrder, [Next]_vars
             PROVE  QuotaFollowsTheOrder'
  OBVIOUS
<1>1. ASSUME UNCHANGED <<status, preparedBy, line, charge, request>>
      PROVE  QuotaFollowsTheOrder'
  BY <1>1 DEF QuotaFollowsTheOrder, Live, Started, AcceptedLines
<1>2. ASSUME NEW i \in Counted, AdjustStock(i)
      PROVE  QuotaFollowsTheOrder'
  BY <1>1, <1>2 DEF AdjustStock, orderVars, bookVars
<1>3. CASE NextPeriod
  BY <1>1, <1>3 DEF NextPeriod, orderVars, bookVars
<1>4. CASE UNCHANGED vars
  BY <1>1, <1>4 DEF vars
<1> QED
  BY <1>2, <1>3, <1>4, RequestCost, MoveCost DEF Next

\* An order costs the quota of its accepted lines while it is live and for
\* ever once its preparation started, and costs nothing otherwise.
THEOREM QuotaFollowsTheOrderHolds == Spec => []QuotaFollowsTheOrder
<1>1. Init => QuotaFollowsTheOrder
  BY DEF Init, QuotaFollowsTheOrder, NoCharge, Live, OrderStatus, Started
<1> QED
  BY <1>1, CostStep, TypeCorrect, NotStartedEarlyHolds, PTL DEF Spec

-----------------------------------------------------------------------------
(***************************************************************************)
(* The usage of an employee is the sum of what its orders cost.            *)
(***************************************************************************)

\* Only an accepted line costs anything, and only once its creation began.
OnlyLinesCharged ==
  \A r \in Requests, p \in Products :
    charge[r][p] # 0
      => p \in AcceptedLines(r) /\ status[r] \notin {"NEW", "RECEIVED"}

UsageInv == TypeOK /\ OnlyLinesCharged /\ UsedIsCharged

\* A step of one order leaves the charged lines of the others alone.
LEMMA OthersCharged ==
  ASSUME OnlyLinesCharged, NEW r \in Requests,
         \A p \in Products :
           charge'[r][p] # 0
             => p \in AcceptedLines(r)' /\ status'[r] \notin {"NEW", "RECEIVED"},
         \A o \in Requests \ {r} : /\ status'[o] = status[o]
                                   /\ line'[o] = line[o]
                                   /\ charge'[o] = charge[o]
  PROVE  OnlyLinesCharged'
BY DEF OnlyLinesCharged, AcceptedLines

LEMMA RequestCharged ==
  ASSUME TypeOK, OnlyLinesCharged, NEW r \in Requests,
         Submit(r) \/ Continue(r) \/ AbortCreate(r)
  PROVE  OnlyLinesCharged'
<1>1. ASSUME status[r] \in {"NEW", "RECEIVED"}, charge' = charge,
             \A o \in Requests \ {r} : status'[o] = status[o] /\ line'[o] = line[o]
      PROVE  OnlyLinesCharged'
  BY <1>1, OthersCharged DEF OnlyLinesCharged
<1>2. CASE Submit(r)
  BY <1>1, <1>2 DEF Submit, Receive, bookVars, TypeOK
<1>3. CASE Validate(r)
  BY <1>1, <1>3 DEF Validate, bookVars, TypeOK
<1>4. ASSUME NEW p \in Products, AcceptLine(r, p)
      PROVE  OnlyLinesCharged'
  <2>1. \A q \in Products : charge'[r][q] # 0 => charge[r][q] # 0 \/ q = p
    BY <1>4 DEF AcceptLine, TypeOK
  <2>2. AcceptedLines(r)' = AcceptedLines(r) \union {p}
    BY <1>4 DEF AcceptLine, AcceptedLines, TypeOK
  <2>3. \A o \in Requests \ {r} : line'[o] = line[o] /\ charge'[o] = charge[o]
    BY <1>4 DEF AcceptLine, TypeOK
  <2>4. status' = status /\ status[r] = "CREATING"
    BY <1>4 DEF AcceptLine, Trying
  <2> QED
    BY <2>1, <2>2, <2>3, <2>4, OthersCharged DEF OnlyLinesCharged
<1>5. ASSUME NEW p \in Products, RefuseLine(r, p)
      PROVE  OnlyLinesCharged'
  <2>1. AcceptedLines(r)' = AcceptedLines(r)
    BY <1>5 DEF RefuseLine, Trying, AcceptedLines, TypeOK
  <2>2. \A o \in Requests \ {r} : line'[o] = line[o]
    BY <1>5 DEF RefuseLine, TypeOK
  <2> QED
    BY <1>5, <2>1, <2>2, OthersCharged DEF RefuseLine, bookVars, OnlyLinesCharged
<1>6. CASE CommitCreate(r)
  BY <1>6, OthersCharged
  DEF CommitCreate, bookVars, OnlyLinesCharged, AcceptedLines, TypeOK
<1>7. CASE RefuseCreate(r) \/ LoseRace(r) \/ AbortCreate(r)
  <2>1. PICK a : Rollback(r, a)
    BY <1>7 DEF RefuseCreate, LoseRace, AbortCreate
  <2>2. \A p \in Products : charge'[r][p] = 0
    BY <2>1 DEF Rollback, GiveQuotaBack, NoCharge, TypeOK
  <2>3. \A o \in Requests \ {r} : /\ status'[o] = status[o]
                                  /\ line'[o] = line[o]
                                  /\ charge'[o] = charge[o]
    BY <2>1 DEF Rollback, GiveQuotaBack, TypeOK
  <2> QED
    BY <2>2, <2>3, OthersCharged
<1> QED
  BY <1>2, <1>3, <1>4, <1>5, <1>6, <1>7 DEF Continue

LEMMA MoveCharged ==
  ASSUME TypeOK, OnlyLinesCharged, NEW r \in Requests, NEW c \in Callers,
         ChangeStatus(r, c)
  PROVE  OnlyLinesCharged'
<1>1. /\ status' = status \/ \E s \in OrderStatus : SetStatus(r, s)
      /\ charge' = charge \/ GiveQuotaBack(r)
      /\ line' = line
  BY DEF ChangeStatus, Reject, Cancel, StartPreparation, UpdatePreparationLine,
         MarkReady, Deliver, bookVars, OrderStatus
<1>2. \A p \in Products : charge'[r][p] # 0 => charge[r][p] # 0
  BY <1>1 DEF GiveQuotaBack, NoCharge, TypeOK
<1>3. \A o \in Requests \ {r} : status'[o] = status[o] /\ charge'[o] = charge[o]
  BY <1>1 DEF SetStatus, GiveQuotaBack, TypeOK
<1>4. status'[r] = status[r] \/ status'[r] \in OrderStatus
  BY <1>1 DEF SetStatus, TypeOK
<1> QED
  BY <1>1, <1>2, <1>3, <1>4, OthersCharged
  DEF OnlyLinesCharged, AcceptedLines, OrderStatus

LEMMA ChargedStep == TypeOK /\ OnlyLinesCharged /\ [Next]_vars => OnlyLinesCharged'
<1> SUFFICES ASSUME TypeOK, OnlyLinesCharged, [Next]_vars
             PROVE  OnlyLinesCharged'
  OBVIOUS
<1>1. ASSUME UNCHANGED <<status, line, charge>>
      PROVE  OnlyLinesCharged'
  BY <1>1 DEF OnlyLinesCharged, AcceptedLines
<1> QED
  BY <1>1, RequestCharged, MoveCharged
  DEF Next, AdjustStock, NextPeriod, orderVars, bookVars, vars

LEMMA ChargedInit == Init => OnlyLinesCharged
BY DEF Init, OnlyLinesCharged, NoCharge

\* What one order contributes is part of the sum.
LEMMA ChargeWithinUsed ==
  ASSUME UsageInv, NEW r \in Requests, NEW e \in Employees, NEW p \in Products,
         NEW t \in Periods
  PROVE  /\ ChargedTo(e, p, t) \in [Requests -> Nat]
         /\ used[<<e, p, t>>] \in Nat
         /\ ChargedTo(e, p, t)[r] <= used[<<e, p, t>>]
<1>1. ChargedTo(e, p, t) \in [Requests -> Nat]
  BY DEF UsageInv, TypeOK, ChargedTo
<1>2. ChargedTo(e, p, t)[r] <= Total(ChargedTo(e, p, t))
  BY <1>1, TotalUpdate, RequestsAssumption
<1> QED
  BY <1>1, <1>2 DEF UsageInv, UsedIsCharged, TypeOK

\* Changing what one order costs, and the usage by the difference, keeps the
\* sums.
LEMMA UsageChange ==
  ASSUME UsageInv, TypeOK', NEW r \in Requests,
         \A o \in Requests \ {r} : /\ request'[o] = request[o]
                                   /\ window'[o] = window[o]
                                   /\ charge'[o] = charge[o],
         \A e \in Employees, p \in Products, t \in Periods :
           used'[<<e, p, t>>] = used[<<e, p, t>>] - ChargedTo(e, p, t)[r]
                                  + ChargedTo(e, p, t)'[r]
  PROVE  UsedIsCharged'
<1> SUFFICES ASSUME NEW e \in Employees, NEW p \in Products, NEW t \in Periods
             PROVE  used'[<<e, p, t>>] = Total(ChargedTo(e, p, t)')
  BY DEF UsedIsCharged
<1>1. ChargedTo(e, p, t) \in [Requests -> Nat]
  BY ChargeWithinUsed
<1>2. ChargedTo(e, p, t)' \in [Requests -> Nat]
  BY DEF TypeOK, ChargedTo
<1>3. \A o \in Requests \ {r} : ChargedTo(e, p, t)'[o] = ChargedTo(e, p, t)[o]
  BY DEF ChargedTo
<1>4. Total(ChargedTo(e, p, t)') = Total(ChargedTo(e, p, t))
        - ChargedTo(e, p, t)[r] + ChargedTo(e, p, t)'[r]
  BY <1>1, <1>2, <1>3, TotalUpdate, RequestsAssumption
<1>5. used[<<e, p, t>>] = Total(ChargedTo(e, p, t))
  BY DEF UsageInv, UsedIsCharged
<1> QED
  BY <1>4, <1>5

LEMMA UsageKept ==
  ASSUME UsageInv, UNCHANGED <<used, request, window, charge>>
  PROVE  UsedIsCharged'
<1>1. \A e \in Employees, p \in Products, t \in Periods :
        Total(ChargedTo(e, p, t)') = Total(ChargedTo(e, p, t))
  BY DEF ChargedTo
<1> QED
  BY <1>1 DEF UsageInv, UsedIsCharged

\* The data of a request may change while the request costs nothing.
LEMMA UsageOfFreeRequest ==
  ASSUME UsageInv, NEW r \in Requests, \A p \in Products : charge[r][p] = 0,
         \A o \in Requests \ {r} : /\ request'[o] = request[o]
                                   /\ window'[o] = window[o],
         UNCHANGED <<used, charge>>
  PROVE  UsedIsCharged'
<1>1. \A e \in Employees, p \in Products, t \in Periods :
        ChargedTo(e, p, t)' = ChargedTo(e, p, t)
  <2> SUFFICES ASSUME NEW e \in Employees, NEW p \in Products, NEW t \in Periods,
                      NEW o \in Requests
               PROVE  ChargedTo(e, p, t)'[o] = ChargedTo(e, p, t)[o]
    BY DEF ChargedTo
  <2> QED
    BY DEF ChargedTo
<1>2. \A e \in Employees, p \in Products, t \in Periods :
        Total(ChargedTo(e, p, t)') = Total(ChargedTo(e, p, t))
  BY <1>1
<1> QED
  BY <1>2 DEF UsageInv, UsedIsCharged

\* The cap at zero of the refund is never reached: all of the cost comes back.
LEMMA UsageGivenBack ==
  ASSUME UsageInv, TypeOK', NEW r \in Requests, GiveQuotaBack(r),
         UNCHANGED <<request, window>>
  PROVE  UsedIsCharged'
<1>1. ASSUME NEW e \in Employees, NEW p \in Products, NEW t \in Periods
      PROVE  used'[<<e, p, t>>] = used[<<e, p, t>>] - ChargedTo(e, p, t)[r]
                                    + ChargedTo(e, p, t)'[r]
  <2>1. /\ used[<<e, p, t>>] \in Nat
        /\ ChargedTo(e, p, t)[r] \in Nat
        /\ ChargedTo(e, p, t)[r] <= used[<<e, p, t>>]
    BY ChargeWithinUsed
  <2>2. ChargedTo(e, p, t)'[r] = 0
    BY DEF ChargedTo, GiveQuotaBack, NoCharge, UsageInv, TypeOK
  <2>3. used'[<<e, p, t>>] =
          IF e = request[r].employee /\ t = window[r]
          THEN used[<<e, p, t>>] - Smaller(charge[r][p], used[<<e, p, t>>])
          ELSE used[<<e, p, t>>]
    BY DEF GiveQuotaBack
  <2>4. ChargedTo(e, p, t)[r] =
          IF e = request[r].employee /\ t = window[r] THEN charge[r][p] ELSE 0
    BY DEF ChargedTo
  <2> QED
    BY <2>1, <2>2, <2>3, <2>4 DEF Smaller
<1>2. \A o \in Requests \ {r} : charge'[o] = charge[o]
  BY DEF GiveQuotaBack, UsageInv, TypeOK
<1> QED
  BY <1>1, <1>2, UsageChange

LEMMA AcceptLineUsage ==
  ASSUME UsageInv, TypeOK', NEW r \in Requests, NEW p \in Products,
         AcceptLine(r, p)
  PROVE  UsedIsCharged'
<1>1. CASE p \notin Limited
  BY <1>1, UsageKept DEF AcceptLine
<1>2. CASE p \in Limited
  <2>1. charge[r][p] = 0
    BY DEF AcceptLine, Trying, UsageInv, OnlyLinesCharged, AcceptedLines
  <2>2. used' = [used EXCEPT ![QuotaRow(r, p)] =
                   used[QuotaRow(r, p)] + request[r].cart[p]]
    BY <1>2 DEF AcceptLine
  <2>3. charge' = [charge EXCEPT ![r][p] = request[r].cart[p]]
    BY <1>2 DEF AcceptLine
  <2>4. request[r].cart[p] \in Nat
    <3>1. request[r] \in RequestData
      BY DEF AcceptLine, Trying, UsageInv, TypeOK
    <3> QED
      BY <3>1, CatalogueAssumption DEF RequestData
  <2>5. ASSUME NEW e \in Employees, NEW q \in Products, NEW t \in Periods
        PROVE  used'[<<e, q, t>>] = used[<<e, q, t>>] - ChargedTo(e, q, t)[r]
                                      + ChargedTo(e, q, t)'[r]
    <3>1. /\ used[<<e, q, t>>] \in Nat
          /\ ChargedTo(e, q, t)[r] \in Nat
      BY ChargeWithinUsed
    <3>2. <<e, q, t>> \in DOMAIN used
      BY DEF UsageInv, TypeOK
    <3>3. CASE <<e, q, t>> = QuotaRow(r, p)
      <4>1. e = request[r].employee /\ q = p /\ t = window[r]
        BY <3>3 DEF QuotaRow
      <4>2. used'[<<e, q, t>>] = used[<<e, q, t>>] + request[r].cart[p]
        BY <2>2, <3>2, <3>3
      <4>3. ChargedTo(e, q, t)[r] = 0
        BY <2>1, <4>1 DEF ChargedTo
      <4>4. ChargedTo(e, q, t)'[r] = request[r].cart[p]
        BY <2>3, <4>1 DEF ChargedTo, AcceptLine, UsageInv, TypeOK
      <4> QED
        BY <2>4, <3>1, <4>2, <4>3, <4>4
    <3>4. CASE <<e, q, t>> # QuotaRow(r, p)
      <4>1. used'[<<e, q, t>>] = used[<<e, q, t>>]
        BY <2>2, <3>2, <3>4
      <4>2. ChargedTo(e, q, t)'[r] = ChargedTo(e, q, t)[r]
        BY <2>3, <3>4 DEF ChargedTo, QuotaRow, AcceptLine, UsageInv, TypeOK
      <4> QED
        BY <3>1, <4>1, <4>2
    <3> QED
      BY <3>3, <3>4
  <2>6. \A o \in Requests \ {r} : charge'[o] = charge[o]
    BY <2>3 DEF UsageInv, TypeOK
  <2> QED
    BY <2>5, <2>6, UsageChange DEF AcceptLine
<1> QED
  BY <1>1, <1>2

LEMMA RequestUsage ==
  ASSUME UsageInv, TypeOK', NEW r \in Requests,
         Submit(r) \/ Continue(r) \/ AbortCreate(r)
  PROVE  UsedIsCharged'
<1>1. ASSUME status[r] \in {"NEW", "RECEIVED"}
      PROVE  \A p \in Products : charge[r][p] = 0
  BY <1>1 DEF UsageInv, OnlyLinesCharged
<1>2. CASE Submit(r)
  <2>1. PICK e \in Employees, k \in Keys \union {NoKey}, c \in Carts :
               Receive(r, e, k, c)
    BY <1>2 DEF Submit
  <2> QED
    BY <1>1, <2>1, UsageOfFreeRequest DEF Receive, bookVars, UsageInv, TypeOK
<1>3. CASE Validate(r)
  <2>1. \A o \in Requests \ {r} : window'[o] = window[o]
    BY <1>3 DEF Validate, UsageInv, TypeOK
  <2> QED
    BY <1>1, <1>3, <2>1, UsageOfFreeRequest DEF Validate, bookVars
<1>4. ASSUME NEW p \in Products, AcceptLine(r, p)
      PROVE  UsedIsCharged'
  BY <1>4, AcceptLineUsage
<1>5. ASSUME NEW p \in Products, RefuseLine(r, p)
      PROVE  UsedIsCharged'
  BY <1>5, UsageKept DEF RefuseLine, bookVars
<1>6. CASE CommitCreate(r)
  BY <1>6, UsageKept DEF CommitCreate, bookVars
<1>7. CASE RefuseCreate(r) \/ LoseRace(r) \/ AbortCreate(r)
  BY <1>7, UsageGivenBack DEF RefuseCreate, LoseRace, AbortCreate, Rollback
<1> QED
  BY <1>2, <1>3, <1>4, <1>5, <1>6, <1>7 DEF Continue

LEMMA MoveUsage ==
  ASSUME UsageInv, TypeOK', NEW r \in Requests, NEW c \in Callers,
         ChangeStatus(r, c)
  PROVE  UsedIsCharged'
<1>1. CASE GiveQuotaBack(r) /\ UNCHANGED <<request, window>>
  BY <1>1, UsageGivenBack
<1>2. CASE UNCHANGED <<used, request, window, charge>>
  BY <1>2, UsageKept
<1> QED
  BY <1>1, <1>2 DEF ChangeStatus, Reject, Cancel, StartPreparation,
                    UpdatePreparationLine, MarkReady, Deliver, bookVars

LEMMA UsageStep ==
  UsageInv /\ TypeOK' /\ [Next]_vars => UsedIsCharged'
<1> SUFFICES ASSUME UsageInv, TypeOK', [Next]_vars
             PROVE  UsedIsCharged'
  OBVIOUS
<1>1. ASSUME NEW i \in Counted, AdjustStock(i)
      PROVE  UsedIsCharged'
  BY <1>1, UsageKept DEF AdjustStock, bookVars
<1>2. CASE NextPeriod
  BY <1>2, UsageKept DEF NextPeriod, bookVars
<1>3. CASE UNCHANGED vars
  BY <1>3, UsageKept DEF vars
<1> QED
  BY <1>1, <1>2, <1>3, RequestUsage, MoveUsage DEF Next

LEMMA UsageInit == Init => UsedIsCharged
<1> SUFFICES ASSUME Init, NEW e \in Employees, NEW p \in Products, NEW t \in Periods
             PROVE  used[<<e, p, t>>] = Total(ChargedTo(e, p, t))
  BY DEF UsedIsCharged
<1>1. ChargedTo(e, p, t) = [r \in Requests |-> 0]
  BY DEF Init, NoCharge, ChargedTo
<1> QED
  BY <1>1, TotalOfZeros DEF Init

\* The usage row of an employee is at all times the sum of what its orders
\* still have consumed in that period.
THEOREM UsedIsAlwaysCharged == Spec => []UsedIsCharged
<1>1. /\ TypeOK /\ TypeOK' /\ OnlyLinesCharged /\ UsedIsCharged /\ [Next]_vars
      => OnlyLinesCharged' /\ UsedIsCharged'
  BY UsageStep, ChargedStep DEF UsageInv
<1> QED
  BY <1>1, ChargedInit, UsageInit, TypeCorrect, PTL DEF Spec

-----------------------------------------------------------------------------
(***************************************************************************)
(* The limit of the quota                                                  *)
(***************************************************************************)

Rows == Employees \X Products \X Periods

\* A step either lowers the usage or accepts one line within the quota.
LEMMA UsageGrowth ==
  ASSUME TypeOK, [Next]_vars
  PROVE  \/ \A k \in Rows : used'[k] <= used[k]
         \/ \E r \in Requests, p \in Products : AcceptLine(r, p)
<1>1. ASSUME NEW r \in Requests, GiveQuotaBack(r)
      PROVE  \A k \in Rows : used'[k] <= used[k]
  BY <1>1, QuotaGivenBack DEF Rows
<1>2. ASSUME used' = used
      PROVE  \A k \in Rows : used'[k] <= used[k]
  BY <1>2 DEF TypeOK, Rows
<1>3. ASSUME NEW r \in Requests, Submit(r) \/ Continue(r) \/ AbortCreate(r),
             ~ \E p \in Products : AcceptLine(r, p)
      PROVE  used' = used \/ GiveQuotaBack(r)
  BY <1>3 DEF Submit, Receive, Continue, Validate, RefuseLine, CommitCreate,
              RefuseCreate, LoseRace, AbortCreate, Rollback
<1>4. ASSUME NEW r \in Requests, NEW c \in Callers, ChangeStatus(r, c)
      PROVE  used' = used \/ GiveQuotaBack(r)
  BY <1>4 DEF ChangeStatus, Reject, Cancel, StartPreparation,
              UpdatePreparationLine, MarkReady, Deliver
<1> QED
  BY <1>1, <1>2, <1>3, <1>4 DEF Next, AdjustStock, NextPeriod, vars

LEMMA QuotaStep ==
  TypeOK /\ TypeOK' /\ QuotaNeverExceeded /\ [Next]_vars => QuotaNeverExceeded'
<1> SUFFICES ASSUME TypeOK, TypeOK', QuotaNeverExceeded, [Next]_vars, NEW k \in Rows,
                    k[2] \in Limited
             PROVE  used'[k] <= Quota[k[2]]
  BY DEF QuotaNeverExceeded, Rows
<1>1. used[k] \in Nat /\ used[k] <= Quota[k[2]] /\ Quota[k[2]] \in Nat
  BY CatalogueAssumption DEF TypeOK, QuotaNeverExceeded, Rows
<1>2. CASE \A j \in Rows : used'[j] <= used[j]
  <2>1. used'[k] \in Nat
    BY DEF TypeOK, Rows
  <2> QED
    BY <1>1, <1>2, <2>1
<1>3. ASSUME NEW r \in Requests, NEW p \in Products, AcceptLine(r, p)
      PROVE  used'[k] <= Quota[k[2]]
  <2>1. CASE p \notin Limited \/ k # QuotaRow(r, p)
    <3>1. \/ used' = used
          \/ /\ used' = [used EXCEPT ![QuotaRow(r, p)] =
                           used[QuotaRow(r, p)] + request[r].cart[p]]
             /\ k # QuotaRow(r, p)
      BY <1>3, <2>1 DEF AcceptLine
    <3>2. used'[k] = used[k]
      BY <3>1 DEF TypeOK, Rows
    <3> QED
      BY <1>1, <3>2
  <2>2. CASE p \in Limited /\ k = QuotaRow(r, p)
    <3>1. used'[k] = used[k] + request[r].cart[p]
      BY <1>3, <2>2 DEF AcceptLine, TypeOK, Rows
    <3>2. k[2] = p
      BY <2>2 DEF QuotaRow
    <3> QED
      BY <1>3, <2>2, <3>1, <3>2 DEF AcceptLine, QuotaSuffices
  <2> QED
    BY <2>1, <2>2
<1> QED
  BY <1>2, <1>3, UsageGrowth

\* Concurrent orders never take together more than the quota of the role.
THEOREM QuotaNeverExceededHolds == Spec => []QuotaNeverExceeded
<1>1. Init => QuotaNeverExceeded
  BY CatalogueAssumption DEF Init, QuotaNeverExceeded
<1> QED
  BY <1>1, QuotaStep, TypeCorrect, PTL DEF Spec

-----------------------------------------------------------------------------
(***************************************************************************)
(* Proof that every order is backed by stock: what it holds, and later     *)
(* what it consumed, is what its accepted lines need.  With it, proof that *)
(* the transactions implement OrderPromises.                               *)
(***************************************************************************)

Waits(r) == status[r] = "CREATING" \/ (Live(r) /\ ~Started(r))

\* One order of EveryOrderIsBacked.
Backed(r) ==
  \A q \in Products :
    /\ HeldBy(r, q) = IF Waits(r) THEN Promised(r, q) ELSE 0
    /\ ConsumedBy(r, q) = IF Started(r) THEN Promised(r, q) ELSE 0

\* EveryOrderIsBacked, one order at a time.
LEMMA BackedAll == EveryOrderIsBacked <=> \A r \in Requests : Backed(r)
BY DEF EveryOrderIsBacked, Backed, Waits

BackInv == StockInv /\ NotStartedEarly /\ EveryOrderIsBacked

\* Every product has an item in each zone.
LEMMA ProductItems ==
  ASSUME NEW q \in Products
  PROVE  <<q, "KITCHEN">> \in Items /\ <<q, "BRANCH">> \in Items
BY DEF Items, Zones

\* What an order holds and consumed of a product are natural numbers.
LEMMA HeldByIsNat ==
  ASSUME TypeOK, NEW r \in Requests, NEW q \in Products
  PROVE  /\ HeldBy(r, q) \in Nat
         /\ ConsumedBy(r, q) \in Nat
BY ProductItems DEF TypeOK, HeldBy, ConsumedBy

\* The promise depends on the cart and on the decisions only.
LEMMA PromisedKept ==
  ASSUME NEW r \in Requests, NEW q \in Products,
         request'[r] = request[r], AcceptedLines(r)' = AcceptedLines(r)
  PROVE  Promised(r, q)' = Promised(r, q)
<1>1. \A p \in Products : LineNeed(r, p, q)' = LineNeed(r, p, q)
  BY DEF LineNeed, Need, Composed
<1>2. AcceptedLines(r) \subseteq Products
  BY DEF AcceptedLines
<1>3. [p \in AcceptedLines(r) |-> LineNeed(r, p, q)]' =
      [p \in AcceptedLines(r) |-> LineNeed(r, p, q)]
  BY <1>1, <1>2
<1> QED
  BY <1>3 DEF Promised

\* A step of one order leaves the others backed.
LEMMA OthersBacked ==
  ASSUME EveryOrderIsBacked, NEW r \in Requests, Backed(r)',
         \A o \in Requests \ {r} : /\ status'[o] = status[o]
                                   /\ preparedBy'[o] = preparedBy[o]
                                   /\ line'[o] = line[o]
                                   /\ request'[o] = request[o]
                                   /\ held'[o] = held[o]
                                   /\ consumed'[o] = consumed[o]
  PROVE  EveryOrderIsBacked'
<1>1. ASSUME NEW o \in Requests \ {r}
      PROVE  Backed(o)'
  <2> SUFFICES ASSUME NEW q \in Products
               PROVE  /\ HeldBy(o, q)' = IF Waits(o)' THEN Promised(o, q)' ELSE 0
                      /\ ConsumedBy(o, q)' = IF Started(o)' THEN Promised(o, q)' ELSE 0
    BY DEF Backed
  <2>1. Promised(o, q)' = Promised(o, q)
    BY PromisedKept DEF AcceptedLines
  <2>2. (Waits(o)' <=> Waits(o)) /\ (Started(o)' <=> Started(o))
    BY DEF Waits, Live, Started
  <2>3. HeldBy(o, q)' = HeldBy(o, q) /\ ConsumedBy(o, q)' = ConsumedBy(o, q)
    BY DEF HeldBy, ConsumedBy
  <2>4. Backed(o)
    BY BackedAll
  <2> QED
    BY <2>1, <2>2, <2>3, <2>4 DEF Backed
<1>2. \A o \in Requests : Backed(o)'
  BY <1>1
<1> QED
  BY <1>2 DEF EveryOrderIsBacked, Backed, Waits

\* Accepting one more line raises the promise by what the line needs.
LEMMA PromiseGrows ==
  ASSUME TypeOK, NEW r \in Requests, status[r] # "NEW",
         NEW p \in Products, p \notin AcceptedLines(r),
         AcceptedLines(r)' = AcceptedLines(r) \union {p},
         request'[r] = request[r], NEW q \in Products
  PROVE  /\ Promised(r, q) \in Nat
         /\ Promised(r, q)' = Promised(r, q) + LineNeed(r, p, q)
<1> DEFINE A == AcceptedLines(r)
           B == AcceptedLines(r) \union {p}
           f == [l \in B |-> LineNeed(r, l, q)]
<1>1. B \subseteq Products /\ A = B \ {p} /\ p \in B
  BY DEF AcceptedLines
<1>2. IsFiniteSet(B)
  BY <1>1, CatalogueAssumption, FS_Subset
<1>3. f \in [B -> Nat]
  BY <1>1, NeedIsNat
<1>4. /\ Total([l \in B \ {p} |-> f[l]]) \in Nat
      /\ Total(f) = Total([l \in B \ {p} |-> f[l]]) + f[p]
  <2> HIDE DEF f, B
  <2> QED
    BY <1>1, <1>2, <1>3, TotalSplit
<1>5. [l \in B \ {p} |-> f[l]] = [l \in A |-> LineNeed(r, l, q)]
  BY <1>1
<1>6. \A l \in Products : LineNeed(r, l, q)' = LineNeed(r, l, q)
  BY DEF LineNeed, Need, Composed
<1>7. [l \in AcceptedLines(r) |-> LineNeed(r, l, q)]' = f
  BY <1>1, <1>6
<1>8. Promised(r, q)' = Total(f)
  BY <1>7 DEF Promised
<1>9. Promised(r, q) = Total([l \in B \ {p} |-> f[l]])
  BY <1>5 DEF Promised
<1>10. f[p] = LineNeed(r, p, q)
  BY <1>1
<1> QED
  BY <1>4, <1>8, <1>9, <1>10

\* Both zones together give a line what it needs.
LEMMA AllocationIsNeed ==
  ASSUME StockInv, NEW r \in Requests, status[r] # "NEW", NEW p \in Products,
         NEW q \in Products
  PROVE  Allocation(r, p)[<<q, "KITCHEN">>] + Allocation(r, p)[<<q, "BRANCH">>]
           = LineNeed(r, p, q)
<1>1. LineNeed(r, p, q) \in Nat
  BY NeedIsNat DEF StockInv
<1>2. Free(<<q, "KITCHEN">>) \in Int
  <2>1. quantity[<<q, "KITCHEN">>] \in Nat /\ reserved[<<q, "KITCHEN">>] \in Nat
    BY ProductItems DEF StockInv, TypeOK
  <2> QED
    BY <2>1 DEF Free
<1>3. /\ Allocation(r, p)[<<q, "KITCHEN">>] =
           Smaller(Free(<<q, "KITCHEN">>), LineNeed(r, p, q))
      /\ Allocation(r, p)[<<q, "BRANCH">>] =
           LineNeed(r, p, q) - Smaller(Free(<<q, "KITCHEN">>), LineNeed(r, p, q))
  BY ProductItems DEF Allocation
<1> QED
  BY <1>1, <1>2, <1>3 DEF Smaller

\* An accepted line is held in full, whichever zones give it.
LEMMA AcceptLineBacked ==
  ASSUME BackInv, NEW r \in Requests, NEW p \in Products, AcceptLine(r, p)
  PROVE  EveryOrderIsBacked'
<1>1. status[r] = "CREATING" /\ status' = status /\ line[r][p] = "TODO"
  BY DEF AcceptLine, Trying
<1>2. ~Started(r) /\ preparedBy' = preparedBy
  BY <1>1 DEF BackInv, NotStartedEarly, AcceptLine
<1>3. p \notin AcceptedLines(r) /\ AcceptedLines(r)' = AcceptedLines(r) \union {p}
  BY <1>1 DEF AcceptLine, AcceptedLines, BackInv, StockInv, TypeOK
<1>4. ASSUME NEW q \in Products
      PROVE  HeldBy(r, q)' = Promised(r, q)'
  <2>1. /\ Promised(r, q) \in Nat
        /\ Promised(r, q)' = Promised(r, q) + LineNeed(r, p, q)
    BY <1>1, <1>3, PromiseGrows DEF AcceptLine, BackInv, StockInv
  <2>2. HeldBy(r, q) = Promised(r, q)
    BY <1>1 DEF BackInv, EveryOrderIsBacked
  <2>3. Allocation(r, p) \in [Items -> Nat]
    BY <1>1, AllocationFits DEF BackInv, AcceptLine
  <2>4. \A i \in Items : held'[r][i] = held[r][i] + Allocation(r, p)[i]
    BY DEF AcceptLine, BackInv, StockInv, TypeOK
  <2>5. \A i \in Items : held[r][i] \in Nat
    BY DEF BackInv, StockInv, TypeOK
  <2>6. Allocation(r, p)[<<q, "KITCHEN">>] + Allocation(r, p)[<<q, "BRANCH">>]
          = LineNeed(r, p, q)
    BY <1>1, AllocationIsNeed DEF BackInv
  <2>7. HeldBy(r, q)' = HeldBy(r, q) + LineNeed(r, p, q)
    BY <2>3, <2>4, <2>5, <2>6, ProductItems DEF HeldBy
  <2> QED
    BY <2>1, <2>2, <2>7
<1>5. ASSUME NEW q \in Products
      PROVE  ConsumedBy(r, q)' = 0
  BY <1>2 DEF AcceptLine, ConsumedBy, BackInv, EveryOrderIsBacked
<1>6. Backed(r)'
  BY <1>1, <1>2, <1>4, <1>5 DEF Backed, Waits, Started
<1>7. \A o \in Requests \ {r} : line'[o] = line[o] /\ held'[o] = held[o]
  BY DEF AcceptLine, BackInv, StockInv, TypeOK
<1> QED
  BY <1>1, <1>2, <1>6, <1>7, OthersBacked DEF AcceptLine, BackInv

\* An order that holds nothing, consumed nothing and is not live is backed.
LEMMA RollbackBacked ==
  ASSUME BackInv, NEW r \in Requests, status[r] = "CREATING",
         NEW a \in Answer, Rollback(r, a)
  PROVE  EveryOrderIsBacked'
<1>1. ~Started(r) /\ ~Started(r)'
  BY DEF BackInv, NotStartedEarly, Rollback, Started
<1>2. ~Waits(r)'
  BY DEF Rollback, Waits, Live, Answer, OrderStatus, BackInv, StockInv, TypeOK
<1>3. ASSUME NEW q \in Products
      PROVE  HeldBy(r, q)' = 0 /\ ConsumedBy(r, q)' = 0
  <2>1. HeldBy(r, q)' = 0
    BY ProductItems DEF Rollback, ReleaseHeld, Nothing, HeldBy, BackInv, StockInv,
                        TypeOK
  <2>2. ConsumedBy(r, q)' = ConsumedBy(r, q)
    BY DEF Rollback, ConsumedBy
  <2>3. ConsumedBy(r, q) = 0
    BY <1>1 DEF BackInv, EveryOrderIsBacked
  <2> QED
    BY <2>1, <2>2, <2>3
<1>4. Backed(r)'
  BY <1>1, <1>2, <1>3 DEF Backed
<1>5. \A o \in Requests \ {r} : /\ status'[o] = status[o]
                                /\ line'[o] = line[o]
                                /\ held'[o] = held[o]
  BY DEF Rollback, ReleaseHeld, BackInv, StockInv, TypeOK
<1> QED
  BY <1>4, <1>5, OthersBacked DEF Rollback, BackInv

\* The steps of create: a rollback leaves nothing held and no accepted line.
LEMMA RequestBacked ==
  ASSUME BackInv, NEW r \in Requests, Submit(r) \/ Continue(r) \/ AbortCreate(r)
  PROVE  EveryOrderIsBacked'
<1>0. Backed(r)
  BY BackedAll DEF BackInv
<1>1. CASE Submit(r)
  <2>1. PICK e \in Employees, k \in Keys \union {NoKey}, c \in Carts :
               Receive(r, e, k, c)
    BY <1>1 DEF Submit
  <2>2. ~Started(r) /\ ~Started(r)' /\ ~Waits(r)
    BY <2>1 DEF Receive, BackInv, NotStartedEarly, Started, Waits, Live, OrderStatus
  <2>3. ~Waits(r)'
    BY <2>1 DEF Receive, AnswerFor, Waits, Live, OrderStatus, BackInv, StockInv,
                TypeOK
  <2>4. Backed(r)'
    BY <1>0, <2>1, <2>2, <2>3 DEF Receive, bookVars, Backed, HeldBy, ConsumedBy
  <2> QED
    BY <2>1, <2>4, OthersBacked DEF Receive, bookVars, BackInv, StockInv, TypeOK
<1>2. CASE Validate(r)
  <2>1. ~Started(r) /\ ~Started(r)' /\ ~Waits(r)
    BY <1>2 DEF Validate, BackInv, NotStartedEarly, Started, Waits, Live, OrderStatus
  <2>2. \A q \in Products : HeldBy(r, q)' = 0 /\ ConsumedBy(r, q)' = 0
    BY <1>0, <1>2, <2>1 DEF Validate, bookVars, Backed, HeldBy, ConsumedBy
  <2>3. CASE status'[r] = "REFUSED"
    <3>1. ~Waits(r)'
      BY <2>3 DEF Waits, Live, OrderStatus
    <3>2. Backed(r)'
      BY <2>1, <2>2, <3>1 DEF Backed
    <3> QED
      BY <1>2, <3>2, OthersBacked DEF Validate, bookVars, BackInv, StockInv, TypeOK
  <2>4. CASE line' = [line EXCEPT ![r] = Advisory(r)]
    <3>1. AcceptedLines(r)' = {}
      BY <2>4 DEF AcceptedLines, Advisory, BackInv, StockInv, TypeOK
    <3>2. ASSUME NEW q \in Products
          PROVE  Promised(r, q)' = 0
      <4>1. [p \in AcceptedLines(r) |-> LineNeed(r, p, q)]' = [p \in {} |-> 0]
        BY <3>1
      <4>2. Total([p \in {} |-> 0]) = 0
        BY TotalOfZeros
      <4> QED
        BY <4>1, <4>2 DEF Promised
    <3>3. Backed(r)'
      BY <2>1, <2>2, <3>2 DEF Backed
    <3> QED
      BY <1>2, <3>3, OthersBacked DEF Validate, bookVars, BackInv, StockInv, TypeOK
  <2> QED
    BY <1>2, <2>3, <2>4 DEF Validate, BackInv, StockInv, TypeOK
<1>3. ASSUME NEW p \in Products, AcceptLine(r, p)
      PROVE  EveryOrderIsBacked'
  BY <1>3, AcceptLineBacked
<1>4. ASSUME NEW p \in Products, RefuseLine(r, p)
      PROVE  EveryOrderIsBacked'
  <2>1. AcceptedLines(r)' = AcceptedLines(r)
    BY <1>4 DEF RefuseLine, Trying, AcceptedLines, BackInv, StockInv, TypeOK
  <2>2. \A q \in Products : Promised(r, q)' = Promised(r, q)
    BY <1>4, <2>1, PromisedKept DEF RefuseLine
  <2>3. Backed(r)'
    BY <1>0, <1>4, <2>2
    DEF RefuseLine, bookVars, Backed, Waits, Live, Started, HeldBy, ConsumedBy
  <2> QED
    BY <1>4, <2>3, OthersBacked DEF RefuseLine, bookVars, BackInv, StockInv, TypeOK
<1>5. CASE CommitCreate(r)
  <2>1. status[r] = "CREATING" /\ status'[r] = "APPROVED"
    BY <1>5 DEF CommitCreate, AllLinesTried, BackInv, StockInv, TypeOK
  <2>2. ~Started(r) /\ ~Started(r)'
    BY <1>5, <2>1 DEF BackInv, NotStartedEarly, CommitCreate, Started
  <2>3. Waits(r) /\ Waits(r)'
    BY <2>1, <2>2 DEF Waits, Live, OrderStatus
  <2>4. \A q \in Products : Promised(r, q)' = Promised(r, q)
    BY <1>5, PromisedKept DEF CommitCreate, AcceptedLines
  <2>5. Backed(r)'
    BY <1>0, <1>5, <2>2, <2>3, <2>4
    DEF CommitCreate, bookVars, Backed, HeldBy, ConsumedBy
  <2> QED
    BY <1>5, <2>5, OthersBacked DEF CommitCreate, bookVars, BackInv, StockInv, TypeOK
<1>6. CASE RefuseCreate(r) \/ LoseRace(r) \/ AbortCreate(r)
  <2>1. /\ {"REFUSED", "FAILED"} \subseteq Answer
        /\ AnswerFor(SameKey(r), request[r].cart) \in Answer
    BY DEF Answer, AnswerFor
  <2> QED
    BY <1>6, <2>1, RollbackBacked
    DEF RefuseCreate, LoseRace, AbortCreate, AllLinesTried
<1> QED
  BY <1>1, <1>2, <1>3, <1>4, <1>5, <1>6 DEF Continue

\* The status changes: a start consumes what was held, an end releases it.
LEMMA MoveBacked ==
  ASSUME BackInv, NEW r \in Requests, NEW c \in Callers, ChangeStatus(r, c)
  PROVE  EveryOrderIsBacked'
<1>0. Backed(r)
  BY BackedAll DEF BackInv
<1>1. ASSUME NEW s \in {"READY", "DELIVERED"}, SetStatus(r, s),
             status[r] \in {"IN_PROGRESS", "READY"},
             UNCHANGED <<request, line, held, consumed, preparedBy>>
      PROVE  EveryOrderIsBacked'
  <2>1. (Waits(r)' <=> Waits(r)) /\ (Started(r)' <=> Started(r))
    BY <1>1 DEF SetStatus, Waits, Live, Started, OrderStatus, BackInv, StockInv,
                TypeOK
  <2>2. \A q \in Products : Promised(r, q)' = Promised(r, q)
    BY <1>1, PromisedKept DEF AcceptedLines
  <2>3. Backed(r)'
    BY <1>0, <1>1, <2>1, <2>2 DEF Backed, HeldBy, ConsumedBy
  <2> QED
    BY <1>1, <2>3, OthersBacked DEF SetStatus, BackInv, StockInv, TypeOK
<1>2. ASSUME NEW s \in {"REJECTED", "CANCELLED"}, SetStatus(r, s), ReleaseHeld(r),
             UNCHANGED <<request, line, consumed, preparedBy>>
      PROVE  EveryOrderIsBacked'
  <2>1. ~Waits(r)' /\ (Started(r)' <=> Started(r))
    BY <1>2 DEF SetStatus, Waits, Live, Started, BackInv, StockInv, TypeOK
  <2>2. \A q \in Products : Promised(r, q)' = Promised(r, q)
    BY <1>2, PromisedKept DEF AcceptedLines
  <2>3. \A q \in Products : HeldBy(r, q)' = 0
    <3>1. held'[r] = Nothing
      BY <1>2 DEF ReleaseHeld, BackInv, StockInv, TypeOK
    <3>2. \A i \in Items : held'[r][i] = 0
      BY <3>1 DEF Nothing
    <3> SUFFICES ASSUME NEW q \in Products PROVE HeldBy(r, q)' = 0
      OBVIOUS
    <3>3. held'[r][<<q, "KITCHEN">>] = 0 /\ held'[r][<<q, "BRANCH">>] = 0
      BY <3>2, ProductItems
    <3> QED
      BY <3>3 DEF HeldBy
  <2>4. \A q \in Products : ConsumedBy(r, q)' = ConsumedBy(r, q)
    BY <1>2 DEF ConsumedBy
  <2>5. Backed(r)'
    BY <1>0, <2>1, <2>2, <2>3, <2>4 DEF Backed
  <2> QED
    BY <1>2, <2>5, OthersBacked DEF SetStatus, ReleaseHeld, BackInv, StockInv, TypeOK
<1>3. CASE MarkReady(r, c) \/ Deliver(r, c)
  <2>1. status[r] \in {"IN_PROGRESS", "READY"}
    BY <1>3, MoveSources DEF MarkReady, Deliver
  <2> QED
    BY <1>1, <1>3, <2>1 DEF MarkReady, Deliver, bookVars
<1>4. CASE Reject(r, c) \/ Cancel(r, c)
  BY <1>2, <1>4 DEF Reject, Cancel
<1>5. CASE StartPreparation(r, c)
  <2>1. status[r] \in {"PENDING", "APPROVED"} /\ status'[r] = "IN_PROGRESS"
    BY <1>5, MoveSources DEF StartPreparation, SetStatus, BackInv, StockInv, TypeOK
  <2>2. ~Started(r) /\ Waits(r)
    BY <2>1 DEF BackInv, NotStartedEarly, Waits, Live, OrderStatus
  <2>3. Started(r)' /\ ~Waits(r)'
    BY <1>5, <2>1, CallersAssumption
    DEF StartPreparation, Started, Waits, BackInv, StockInv, TypeOK
  <2>4. ASSUME NEW q \in Products
        PROVE  /\ HeldBy(r, q)' = 0
               /\ ConsumedBy(r, q)' = ConsumedBy(r, q) + HeldBy(r, q)
    <3>1. \A i \in Items : /\ held'[r][i] = 0
                           /\ consumed'[r][i] = consumed[r][i] + held[r][i]
                           /\ consumed[r][i] \in Nat /\ held[r][i] \in Nat
      BY <1>5 DEF StartPreparation, ConsumeHeld, Nothing, BackInv, StockInv, TypeOK
    <3> QED
      BY <3>1, ProductItems DEF HeldBy, ConsumedBy
  <2>5. \A q \in Products : Promised(r, q)' = Promised(r, q)
    BY <1>5, PromisedKept DEF StartPreparation, AcceptedLines
  <2>6. \A q \in Products : HeldBy(r, q) \in Nat
    BY HeldByIsNat DEF BackInv, StockInv
  <2>7. Backed(r)'
    BY <1>0, <2>2, <2>3, <2>4, <2>5, <2>6 DEF Backed
  <2> QED
    BY <1>5, <2>7, OthersBacked
    DEF StartPreparation, SetStatus, ConsumeHeld, BackInv, StockInv, TypeOK
<1>6. ASSUME NEW p \in Products, UpdatePreparationLine(r, c, p)
      PROVE  EveryOrderIsBacked'
  <2>1. \A q \in Products : Promised(r, q)' = Promised(r, q)
    BY <1>6, PromisedKept DEF UpdatePreparationLine, AcceptedLines
  <2>2. Backed(r)'
    BY <1>0, <1>6, <2>1 DEF UpdatePreparationLine, bookVars, Backed, Waits, Live,
                            Started, HeldBy, ConsumedBy
  <2> QED
    BY <1>6, <2>2, OthersBacked DEF UpdatePreparationLine, bookVars, BackInv
<1> QED
  BY <1>3, <1>4, <1>5, <1>6 DEF ChangeStatus

\* Steps that touch no order.
LEMMA BackedKept ==
  ASSUME EveryOrderIsBacked,
         UNCHANGED <<status, preparedBy, line, request, held, consumed>>
  PROVE  EveryOrderIsBacked'
<1>1. \A r \in Requests, q \in Products : Promised(r, q)' = Promised(r, q)
  BY PromisedKept DEF AcceptedLines
<1> QED
  BY <1>1 DEF EveryOrderIsBacked, Live, Started, HeldBy, ConsumedBy

\* EveryOrderIsBacked is inductive together with BackInv.
LEMMA BackedStep == BackInv /\ [Next]_vars => EveryOrderIsBacked'
<1> SUFFICES ASSUME BackInv, [Next]_vars
             PROVE  EveryOrderIsBacked'
  OBVIOUS
<1>1. ASSUME NEW i \in Counted, AdjustStock(i)
      PROVE  EveryOrderIsBacked'
  BY <1>1, BackedKept DEF AdjustStock, orderVars, bookVars, BackInv
<1>2. CASE NextPeriod
  BY <1>2, BackedKept DEF NextPeriod, orderVars, bookVars, BackInv
<1>3. CASE UNCHANGED vars
  BY <1>3, BackedKept DEF vars, BackInv
<1> QED
  BY <1>1, <1>2, <1>3, RequestBacked, MoveBacked DEF Next

\* Until its preparation starts, a live order holds exactly what its accepted
\* lines need; from then on it has consumed exactly that.
THEOREM EveryOrderIsBackedHolds == Spec => []EveryOrderIsBacked
<1>1. Init => EveryOrderIsBacked
  <2> SUFFICES ASSUME Init, NEW r \in Requests, NEW q \in Products
               PROVE  /\ ~Waits(r) /\ ~Started(r)
                      /\ HeldBy(r, q) = 0 /\ ConsumedBy(r, q) = 0
    BY DEF EveryOrderIsBacked, Waits
  <2>1. ~Waits(r) /\ ~Started(r)
    BY DEF Init, Waits, Live, OrderStatus, Started
  <2>2. \A i \in Items : held[r][i] = 0 /\ consumed[r][i] = 0
    BY DEF Init, Nothing
  <2>3. HeldBy(r, q) = 0 /\ ConsumedBy(r, q) = 0
    BY <2>2, ProductItems DEF HeldBy, ConsumedBy
  <2> QED
    BY <2>1, <2>3
<1>2. StockInv /\ NotStartedEarly /\ EveryOrderIsBacked /\ [Next]_vars
        => EveryOrderIsBacked'
  BY BackedStep DEF BackInv
<1> QED
  BY <1>1, <1>2, StockInvariant, NotStartedEarlyHolds, PTL DEF Spec

-----------------------------------------------------------------------------
(***************************************************************************)
(* The refinement of OrderPromises                                         *)
(***************************************************************************)

RefinementInv ==
  /\ BackInv
  /\ UsedIsCharged
  /\ QuotaNeverExceeded
  /\ OrderNumbersGapless

\* OrderPromises counts and sums as Orders does.
LEMMA SameCardinality == \A S : Promises!Cardinality(S) = Cardinality(S)
BY DEF Promises!Cardinality, Cardinality

LEMMA SameTotal == \A f : Promises!Total(f) = Total(f)
BY SameCardinality DEF Promises!Total, Total, Promises!Units, Units

\* Seen from outside, nothing happened to the order.
Unseen(r) ==
  /\ PromiseOf(r)' = PromiseOf(r)
  /\ CostOf(r)' = CostOf(r)
  /\ StageOf(r)' = StageOf(r)
  /\ number'[r] = number[r]

LEMMA OpenUnseen ==
  ASSUME NEW r \in Requests, ~Committed(r), ~Committed(r)', number'[r] = number[r]
  PROVE  Unseen(r)
BY DEF Unseen, PromiseOf, CostOf, StageOf, Nothing, QuotaAccounts

LEMMA KeptUnseen ==
  ASSUME NEW r \in Requests,
         status'[r] = status[r], preparedBy'[r] = preparedBy[r],
         request'[r] = request[r], window'[r] = window[r],
         held'[r] = held[r], charge'[r] = charge[r], number'[r] = number[r]
  PROVE  Unseen(r)
BY DEF Unseen, PromiseOf, CostOf, StageOf, Committed, Started, Nothing,
       QuotaAccounts

LEMMA Stuttering ==
  ASSUME TypeOK, TypeOK', quantity' = quantity, \A r \in Requests : Unseen(r)
  PROVE  UNCHANGED Promises!vars
<1>1. number' = number
  BY DEF TypeOK, Unseen
<1> QED
  BY <1>1 DEF Unseen, Promises!vars

\* A committed order holds what it promises, an open one promises nothing.
LEMMA PromiseIsHeld ==
  ASSUME StockInv, NEW i \in Items
  PROVE  /\ Promises!PromisedOn(i) \in Nat
         /\ Promises!PromisedOn(i) <= reserved[i]
         /\ [r \in Requests |-> PromiseOf(r)[i]] \in [Requests -> Nat]
<1> DEFINE f == [r \in Requests |-> PromiseOf(r)[i]]
<1>1. f \in [Requests -> Nat] /\ \A r \in Requests : f[r] <= HeldOn(i)[r]
  BY DEF PromiseOf, Nothing, HeldOn, StockInv, TypeOK
<1>2. HeldOn(i) \in [Requests -> Nat]
  BY DEF HeldOn, StockInv, TypeOK
<1>3. Total(f) \in Nat /\ Total(f) <= Total(HeldOn(i))
  <2> HIDE DEF f
  <2> QED
    BY <1>1, <1>2, TotalMonotone, UnitsFinite, RequestsAssumption
<1>4. Promises!PromisedOn(i) = Total(f)
  <2>1. [o \in Requests |-> [r \in Requests |-> PromiseOf(r)][o][i]] = f
    OBVIOUS
  <2> QED
    BY <2>1, SameTotal DEF Promises!PromisedOn
<1> QED
  BY <1>1, <1>3, <1>4 DEF StockInv, ReservedIsHeld

\* The commit shows everything the order holds and costs at once.
LEMMA CommitPlaces ==
  ASSUME RefinementInv, NEW r \in Requests, CommitCreate(r)
  PROVE  Promises!Place(r)
<1>0. StockInv /\ TypeOK
  BY DEF RefinementInv, BackInv, StockInv
<1>1. /\ status[r] = "CREATING" /\ status'[r] = "APPROVED"
      /\ ~Committed(r) /\ Committed(r)'
  BY <1>0 DEF CommitCreate, AllLinesTried, Committed, OrderStatus, TypeOK
<1>2. ~Started(r) /\ ~Started(r)'
  BY <1>1 DEF RefinementInv, BackInv, NotStartedEarly, CommitCreate, Started
<1>3. \A o \in Requests \ {r} : Unseen(o)
  BY <1>0, KeptUnseen DEF CommitCreate, bookVars, TypeOK
<1>4. StageOf(r) = "none" /\ StageOf(r)' = "placed"
  BY <1>1, <1>2 DEF StageOf
<1>5. [o \in Requests |-> StageOf(o)]' =
        [[o \in Requests |-> StageOf(o)] EXCEPT ![r] = "placed"]
  BY <1>3, <1>4 DEF Unseen
<1>6. number' = [number EXCEPT ![r] = Promises!Cardinality(Promises!Placed) + 1]
  <2>1. Promises!Placed = Stored
    BY DEF Promises!Placed, Stored, StageOf, Committed
  <2>2. Cardinality(Stored) + 1 = nextNumber
    BY <1>0, RequestsAssumption, FS_Subset, FS_CardinalityType
    DEF RefinementInv, OrderNumbersGapless, TypeOK, Stored
  <2> QED
    BY <2>1, <2>2, SameCardinality DEF CommitCreate
<1>7. ASSUME NEW i \in Items
      PROVE  Promises!PromisedOn(i) + PromiseOf(r)'[i] <= quantity[i]
  <2> DEFINE f == [o \in Requests |-> PromiseOf(o)[i]]
             g == [f EXCEPT ![r] = held[r][i]]
  <2>1. f \in [Requests -> Nat] /\ f[r] = 0
    BY <1>0, <1>1, PromiseIsHeld DEF PromiseOf, Nothing
  <2>2. g \in [Requests -> Nat] /\ HeldOn(i) \in [Requests -> Nat]
    BY <1>0, <2>1 DEF HeldOn, TypeOK
  <2>3. \A o \in Requests : g[o] <= HeldOn(i)[o]
    BY <1>0 DEF HeldOn, PromiseOf, Nothing, TypeOK
  <2>4. \A o \in Requests \ {r} : g[o] = f[o]
    OBVIOUS
  <2>5. g[r] = held[r][i]
    BY <2>1
  <2>6. Promises!PromisedOn(i) = Total(f)
    <3>1. [o \in Requests |-> [b \in Requests |-> PromiseOf(b)][o][i]] = f
      OBVIOUS
    <3> QED
      BY <3>1, SameTotal DEF Promises!PromisedOn
  <2>7. /\ Total(f) \in Nat
        /\ Total(g) = Total(f) - f[r] + g[r]
        /\ Total(g) <= Total(HeldOn(i))
    <3> HIDE DEF f, g
    <3> QED
      BY <2>1, <2>2, <2>3, <2>4, TotalUpdate, TotalMonotone, RequestsAssumption
  <2>8. Total(HeldOn(i)) <= quantity[i] /\ Total(HeldOn(i)) \in Nat
        /\ quantity[i] \in Nat /\ held[r][i] \in Nat
    BY <1>0 DEF StockInv, TypeOK, ReservedIsHeld, ReservedWithinQuantity
  <2>9. PromiseOf(r)'[i] = held[r][i]
    BY <1>1 DEF PromiseOf, CommitCreate, bookVars
  <2>10. Total(f) + held[r][i] <= quantity[i]
    <3> HIDE DEF f, g
    <3> QED
      BY <2>1, <2>5, <2>7, <2>8
  <2> QED
    BY <2>6, <2>9, <2>10
<1>8. ASSUME NEW a \in QuotaAccounts
      PROVE  Promises!CostOn(a) + CostOf(r)'[a] <= Quota[a[2]]
  <2> DEFINE f == [o \in Requests |-> CostOf(o)[a]]
             g == [f EXCEPT ![r] = CostOf(r)'[a]]
             c == ChargedTo(a[1], a[2], a[3])
  <2>0. /\ a[1] \in Employees /\ a[2] \in Limited /\ a[2] \in Products
        /\ a[3] \in Periods
        /\ a \in Employees \X Products \X Periods
        /\ a = <<a[1], a[2], a[3]>>
    BY CatalogueAssumption DEF QuotaAccounts
  <2>1. f \in [Requests -> Nat] /\ f[r] = 0
    BY <1>0, <1>1, <2>0 DEF CostOf, TypeOK
  <2>2. CostOf(r)'[a] = c[r]
    BY <1>1 DEF CostOf, ChargedTo, CommitCreate, bookVars
  <2>3. c \in [Requests -> Nat]
    BY <1>0, <2>0 DEF ChargedTo, TypeOK
  <2>4. g \in [Requests -> Nat] /\ g[r] = CostOf(r)'[a]
    BY <2>1, <2>2, <2>3
  <2>5. \A o \in Requests : g[o] <= c[o]
    BY <1>0, <2>0, <2>2, <2>3 DEF CostOf, ChargedTo, TypeOK
  <2>6. \A o \in Requests \ {r} : g[o] = f[o]
    OBVIOUS
  <2>7. Promises!CostOn(a) = Total(f)
    <3>1. [o \in Requests |-> [b \in Requests |-> CostOf(b)][o][a]] = f
      OBVIOUS
    <3> QED
      BY <3>1, SameTotal DEF Promises!CostOn
  <2>8. /\ Total(f) \in Nat
        /\ Total(g) = Total(f) - f[r] + g[r]
        /\ Total(g) <= Total(c)
    <3> HIDE DEF f, g, c
    <3> QED
      BY <2>1, <2>3, <2>4, <2>5, <2>6, TotalUpdate, TotalMonotone,
         RequestsAssumption
  <2>9. /\ Total(c) = used[a] /\ used[a] \in Nat
        /\ used[a] <= Quota[a[2]] /\ Quota[a[2]] \in Nat
    <3>1. used[<<a[1], a[2], a[3]>>] = Total(c)
      BY <2>0 DEF RefinementInv, UsedIsCharged
    <3>2. used[a] <= Quota[a[2]]
      BY <2>0 DEF RefinementInv, QuotaNeverExceeded
    <3> HIDE DEF c
    <3> QED
      BY <1>0, <2>0, <3>1, <3>2, CatalogueAssumption DEF TypeOK
  <2>10. Total(f) + CostOf(r)'[a] <= Quota[a[2]]
    <3>1. CostOf(r)'[a] \in Nat
      BY <2>2, <2>3
    <3> HIDE DEF f, g, c
    <3> QED
      BY <2>1, <2>4, <2>8, <2>9, <3>1
  <2> QED
    BY <2>7, <2>10
<1>9. quantity' = quantity
  BY DEF CommitCreate, stockVars
<1>10. \A i \in Items : Promises!PromisedOn(i)
          + ([o \in Requests |-> PromiseOf(o)]')[r][i] <= quantity[i]
  <2>1. ([o \in Requests |-> PromiseOf(o)]')[r] = PromiseOf(r)'
    OBVIOUS
  <2> QED
    BY <1>7, <2>1
<1>11. \A a \in QuotaAccounts : ([o \in Requests |-> CostOf(o)]')[r][a] > 0
         => Promises!CostOn(a) + ([o \in Requests |-> CostOf(o)]')[r][a]
              <= [b \in QuotaAccounts |-> Quota[b[2]]][a]
  <2>1. ([o \in Requests |-> CostOf(o)]')[r] = CostOf(r)'
    OBVIOUS
  <2>2. \A a \in QuotaAccounts :
          [b \in QuotaAccounts |-> Quota[b[2]]][a] = Quota[a[2]]
    OBVIOUS
  <2> QED
    BY <1>8, <2>1, <2>2
<1>12. \A o \in Requests \ {r} :
         /\ ([b \in Requests |-> PromiseOf(b)]')[o]
              = [b \in Requests |-> PromiseOf(b)][o]
         /\ ([b \in Requests |-> CostOf(b)]')[o] = [b \in Requests |-> CostOf(b)][o]
  BY <1>3 DEF Unseen
<1>13. [o \in Requests |-> StageOf(o)][r] = "none"
  BY <1>4
<1> QED
  BY <1>5, <1>6, <1>9, <1>10, <1>11, <1>12, <1>13 DEF Promises!Place

\* An order that was started holds nothing any more.
LEMMA StartedHoldsNothing ==
  ASSUME BackInv, NEW r \in Requests, Started(r)
  PROVE  held[r] = Nothing
<1>1. ~Waits(r)
  BY DEF BackInv, NotStartedEarly, Waits
<1>2. \A q \in Products : HeldBy(r, q) = 0
  BY <1>1, BackedAll DEF BackInv, Backed
<1>3. held[r] \in [Items -> Nat]
  BY DEF BackInv, StockInv, TypeOK
<1>4. ASSUME NEW i \in Items
      PROVE  held[r][i] = 0
  <2>1. PICK q \in Products, z \in Zones : i = <<q, z>>
    BY DEF Items
  <2>2. held[r][<<q, "KITCHEN">>] \in Nat /\ held[r][<<q, "BRANCH">>] \in Nat
    BY <1>3, ProductItems
  <2>3. held[r][<<q, "KITCHEN">>] + held[r][<<q, "BRANCH">>] = 0
    BY <1>2 DEF HeldBy
  <2>4. held[r][<<q, "KITCHEN">>] = 0 /\ held[r][<<q, "BRANCH">>] = 0
    BY <2>2, <2>3
  <2> QED
    BY <2>1, <2>4 DEF Zones
<1> QED
  BY <1>3, <1>4 DEF Nothing

\* The start of a preparation uses the promise.
LEMMA PreparationStarts ==
  ASSUME RefinementInv, TypeOK', NEW r \in Requests, NEW c \in Callers,
         StartPreparation(r, c)
  PROVE  Promises!Start(r)
<1>0. TypeOK
  BY DEF RefinementInv, BackInv, StockInv
<1>1. status[r] \in {"PENDING", "APPROVED"} /\ status'[r] = "IN_PROGRESS"
  BY <1>0, MoveSources DEF StartPreparation, SetStatus, TypeOK
<1>2. Committed(r) /\ Committed(r)'
  BY <1>1 DEF Committed, OrderStatus
<1>3. ~Started(r) /\ Started(r)'
  <2>1. preparedBy'[r] = c
    BY <1>0 DEF StartPreparation, TypeOK
  <2> QED
    BY <1>1, <2>1, CallersAssumption
    DEF RefinementInv, BackInv, NotStartedEarly, Started
<1>4. \A o \in Requests \ {r} : Unseen(o)
  BY <1>0, KeptUnseen DEF StartPreparation, ConsumeHeld, SetStatus, TypeOK
<1>5. StageOf(r) = "placed" /\ StageOf(r)' = "started"
  BY <1>1, <1>2, <1>3 DEF StageOf
<1>6. PromiseOf(r) = held[r] /\ PromiseOf(r)' = Nothing
  BY <1>0, <1>2 DEF StartPreparation, ConsumeHeld, PromiseOf, Nothing, TypeOK
<1>7. CostOf(r)' = CostOf(r)
  BY <1>2 DEF StartPreparation, CostOf, QuotaAccounts
<1>8. [o \in Requests |-> StageOf(o)]' =
        [[o \in Requests |-> StageOf(o)] EXCEPT ![r] = "started"]
  BY <1>4, <1>5 DEF Unseen
<1>9. [o \in Requests |-> PromiseOf(o)]' =
        [[o \in Requests |-> PromiseOf(o)] EXCEPT ![r] = [g \in Items |-> 0]]
  BY <1>4, <1>6 DEF Unseen, Nothing
<1>10. [o \in Requests |-> CostOf(o)]' = [o \in Requests |-> CostOf(o)]
  BY <1>4, <1>7 DEF Unseen
<1>11. quantity' = [g \in Items |-> quantity[g] - [o \in Requests |-> PromiseOf(o)][r][g]]
  BY <1>6 DEF StartPreparation, ConsumeHeld
<1>12. [o \in Requests |-> StageOf(o)][r] = "placed" /\ number' = number
  BY <1>5 DEF StartPreparation
<1> QED
  BY <1>8, <1>9, <1>10, <1>11, <1>12 DEF Promises!Start

\* Ending an order before its preparation gives back what it was promised.
LEMMA EndWithdraws ==
  ASSUME RefinementInv, NEW r \in Requests, ~Started(r),
         status[r] \in {"PENDING", "APPROVED", "IN_PROGRESS", "READY"},
         NEW s \in {"REJECTED", "CANCELLED"}, SetStatus(r, s),
         ReleaseHeld(r), GiveQuotaBack(r),
         UNCHANGED <<quantity, request, window, preparedBy, number>>
  PROVE  Promises!Withdraw(r)
<1>0. TypeOK
  BY DEF RefinementInv, BackInv, StockInv
<1>1. /\ Committed(r) /\ Committed(r)' /\ ~Started(r)'
      /\ status'[r] \in {"REJECTED", "CANCELLED"}
  BY <1>0 DEF Committed, OrderStatus, SetStatus, Started, TypeOK
<1>2. \A o \in Requests \ {r} : Unseen(o)
  BY <1>0, KeptUnseen DEF SetStatus, ReleaseHeld, GiveQuotaBack, TypeOK
<1>3. StageOf(r) = "placed" /\ StageOf(r)' = "withdrawn"
  BY <1>1 DEF StageOf
<1>4. PromiseOf(r)' = [g \in Items |-> 0]
  BY <1>0, <1>1 DEF ReleaseHeld, PromiseOf, Nothing, TypeOK
<1>5. CostOf(r)' = [a \in QuotaAccounts |-> 0]
  <2>1. \A p \in Products : charge'[r][p] = 0
    BY <1>0 DEF GiveQuotaBack, NoCharge, TypeOK
  <2>2. \A a \in QuotaAccounts : a[2] \in Products
    BY CatalogueAssumption DEF QuotaAccounts
  <2> QED
    BY <2>1, <2>2 DEF CostOf
<1>6. [o \in Requests |-> StageOf(o)]' =
        [[o \in Requests |-> StageOf(o)] EXCEPT ![r] = "withdrawn"]
  BY <1>2, <1>3 DEF Unseen
<1>7. [o \in Requests |-> PromiseOf(o)]' =
        [[o \in Requests |-> PromiseOf(o)] EXCEPT ![r] = [g \in Items |-> 0]]
  BY <1>2, <1>4 DEF Unseen
<1>8. [o \in Requests |-> CostOf(o)]' =
        [[o \in Requests |-> CostOf(o)] EXCEPT ![r] = [a \in QuotaAccounts |-> 0]]
  BY <1>2, <1>5 DEF Unseen
<1>9. [o \in Requests |-> StageOf(o)][r] = "placed"
  BY <1>3
<1> QED
  BY <1>6, <1>7, <1>8, <1>9 DEF Promises!Withdraw

\* The other steps of create are not seen from outside.
LEMMA RequestImplements ==
  ASSUME RefinementInv, TypeOK', NEW r \in Requests,
         Submit(r) \/ Continue(r) \/ AbortCreate(r)
  PROVE  Promises!Place(r) \/ UNCHANGED Promises!vars
<1>0. TypeOK
  BY DEF RefinementInv, BackInv, StockInv
<1>1. ASSUME ~Committed(r), ~Committed(r)', UNCHANGED <<quantity, number>>,
             \A o \in Requests \ {r} : Unseen(o)
      PROVE  UNCHANGED Promises!vars
  <2>1. Unseen(r)
    BY <1>1, OpenUnseen
  <2> QED
    BY <1>0, <1>1, <2>1, Stuttering
<1>2. CASE Submit(r)
  <2>1. PICK e \in Employees, k \in Keys \union {NoKey}, c \in Carts :
               Receive(r, e, k, c)
    BY <1>2 DEF Submit
  <2>2. ~Committed(r) /\ ~Committed(r)'
    BY <1>0, <2>1 DEF Receive, AnswerFor, Committed, OrderStatus, TypeOK
  <2>3. \A o \in Requests \ {r} : Unseen(o)
    BY <1>0, <2>1, KeptUnseen DEF Receive, bookVars, TypeOK
  <2> QED
    BY <1>1, <2>1, <2>2, <2>3 DEF Receive, stockVars
<1>3. CASE Validate(r)
  <2>1. ~Committed(r) /\ ~Committed(r)'
    BY <1>0, <1>3 DEF Validate, Committed, OrderStatus, TypeOK
  <2>2. \A o \in Requests \ {r} : Unseen(o)
    BY <1>0, <1>3, KeptUnseen DEF Validate, bookVars, TypeOK
  <2> QED
    BY <1>1, <1>3, <2>1, <2>2 DEF Validate, stockVars
<1>4. ASSUME NEW p \in Products, AcceptLine(r, p)
      PROVE  UNCHANGED Promises!vars
  <2>1. ~Committed(r) /\ ~Committed(r)'
    BY <1>4 DEF AcceptLine, Trying, Committed, OrderStatus
  <2>2. \A o \in Requests \ {r} : held'[o] = held[o] /\ charge'[o] = charge[o]
    BY <1>0, <1>4 DEF AcceptLine, TypeOK
  <2>3. \A o \in Requests \ {r} : Unseen(o)
    BY <1>4, <2>2, KeptUnseen DEF AcceptLine
  <2> QED
    BY <1>1, <1>4, <2>1, <2>3 DEF AcceptLine
<1>5. ASSUME NEW p \in Products, RefuseLine(r, p)
      PROVE  UNCHANGED Promises!vars
  <2>1. ~Committed(r) /\ ~Committed(r)'
    BY <1>5 DEF RefuseLine, Trying, Committed, OrderStatus
  <2>2. \A o \in Requests \ {r} : Unseen(o)
    BY <1>5, KeptUnseen DEF RefuseLine, bookVars
  <2> QED
    BY <1>1, <1>5, <2>1, <2>2 DEF RefuseLine, stockVars
<1>6. CASE RefuseCreate(r) \/ LoseRace(r) \/ AbortCreate(r)
  <2>1. /\ {"REFUSED", "FAILED"} \subseteq Answer
        /\ AnswerFor(SameKey(r), request[r].cart) \in Answer
    BY DEF Answer, AnswerFor
  <2>2. PICK a \in Answer : Rollback(r, a) /\ status[r] = "CREATING"
    BY <1>6, <2>1 DEF RefuseCreate, LoseRace, AbortCreate, AllLinesTried
  <2>3. ~Committed(r) /\ ~Committed(r)'
    BY <1>0, <2>2 DEF Rollback, Answer, Committed, OrderStatus, TypeOK
  <2>4. \A o \in Requests \ {r} : Unseen(o)
    BY <1>0, <2>2, KeptUnseen DEF Rollback, ReleaseHeld, GiveQuotaBack, TypeOK
  <2> QED
    BY <1>1, <2>2, <2>3, <2>4 DEF Rollback
<1>7. CASE CommitCreate(r)
  BY <1>7, CommitPlaces
<1> QED
  BY <1>2, <1>3, <1>4, <1>5, <1>6, <1>7 DEF Continue

\* A status change starts, withdraws, or is not seen from outside.
LEMMA MoveImplements ==
  ASSUME RefinementInv, TypeOK', NEW r \in Requests, NEW c \in Callers,
         ChangeStatus(r, c)
  PROVE  Promises!Start(r) \/ Promises!Withdraw(r) \/ UNCHANGED Promises!vars
<1>0. TypeOK
  BY DEF RefinementInv, BackInv, StockInv
<1>1. CASE StartPreparation(r, c)
  BY <1>1, PreparationStarts
<1>2. CASE Cancel(r, c)
  <2>1. status[r] \in {"PENDING", "APPROVED"}
    BY <1>2, MoveSources DEF Cancel
  <2>2. ~Started(r)
    BY <2>1 DEF RefinementInv, BackInv, NotStartedEarly
  <2> QED
    BY <1>2, <2>1, <2>2, EndWithdraws DEF Cancel
<1>3. CASE Reject(r, c) /\ ~Started(r)
  BY <1>3, MoveSources, EndWithdraws DEF Reject
<1>4. CASE Reject(r, c) /\ Started(r)
  <2>1. held[r] = Nothing /\ held' = held
    <3>1. held[r] = Nothing
      BY <1>4, StartedHoldsNothing DEF RefinementInv
    <3> QED
      BY <1>0, <1>4, <3>1 DEF Reject, ReleaseHeld, TypeOK
  <2>2. Committed(r) /\ Committed(r)'
    BY <1>0, <1>4 DEF Reject, MayMove, SetStatus, Committed, OrderStatus, TypeOK
  <2>3. Unseen(r)
    BY <1>4, <2>1, <2>2 DEF Reject, Unseen, PromiseOf, CostOf, StageOf, Started,
                            QuotaAccounts
  <2>4. \A o \in Requests \ {r} : Unseen(o)
    BY <1>0, <1>4, <2>1, KeptUnseen DEF Reject, SetStatus, TypeOK
  <2> QED
    BY <1>0, <1>4, <2>3, <2>4, Stuttering DEF Reject
<1>5. CASE MarkReady(r, c) \/ Deliver(r, c)
  <2>1. /\ status[r] \in {"IN_PROGRESS", "READY"}
        /\ status'[r] \in {"READY", "DELIVERED"}
    BY <1>0, <1>5, MoveSources DEF MarkReady, Deliver, SetStatus, TypeOK
  <2>2. Unseen(r)
    BY <1>5, <2>1 DEF MarkReady, Deliver, bookVars, Unseen, PromiseOf, CostOf,
                      StageOf, Committed, OrderStatus, Started, QuotaAccounts
  <2>3. \A o \in Requests \ {r} : Unseen(o)
    BY <1>0, <1>5, KeptUnseen DEF MarkReady, Deliver, SetStatus, bookVars, TypeOK
  <2> QED
    BY <1>0, <1>5, <2>2, <2>3, Stuttering DEF MarkReady, Deliver, stockVars
<1>6. ASSUME NEW p \in Products, UpdatePreparationLine(r, c, p)
      PROVE  UNCHANGED Promises!vars
  <2>1. \A o \in Requests : Unseen(o)
    BY <1>6, KeptUnseen DEF UpdatePreparationLine, bookVars
  <2> QED
    BY <1>0, <1>6, <2>1, Stuttering DEF UpdatePreparationLine, stockVars
<1> QED
  BY <1>1, <1>2, <1>3, <1>4, <1>5, <1>6 DEF ChangeStatus

\* A count never takes what is promised.
LEMMA CountImplements ==
  ASSUME RefinementInv, NEW i \in Counted, AdjustStock(i)
  PROVE  Promises!Count(i)
<1>0. StockInv /\ TypeOK /\ i \in Items
  BY BoundsAssumption DEF RefinementInv, BackInv, StockInv
<1>1. \A h \in Items \ {i} : quantity'[h] = quantity[h]
  BY <1>0 DEF AdjustStock, TypeOK
<1>2. quantity'[i] \in Nat
  BY <1>0, AdjustStockStock DEF StockInv, TypeOK
<1>3. Promises!PromisedOn(i) <= quantity'[i]
  <2>1. /\ Promises!PromisedOn(i) \in Nat
        /\ Promises!PromisedOn(i) <= reserved[i]
        /\ reserved[i] \in Nat
    BY <1>0, PromiseIsHeld DEF TypeOK
  <2> QED
    BY <1>2, <2>1 DEF AdjustStock
<1>4. \A r \in Requests : Unseen(r)
  BY KeptUnseen DEF AdjustStock, bookVars, orderVars
<1>5. number' = number
  BY DEF AdjustStock, orderVars
<1> QED
  BY <1>1, <1>3, <1>4, <1>5 DEF Promises!Count, Unseen

LEMMA ImplementationStep ==
  RefinementInv /\ TypeOK' /\ [Next]_vars => [Promises!Next]_(Promises!vars)
<1> SUFFICES ASSUME RefinementInv, TypeOK', [Next]_vars
             PROVE  [Promises!Next]_(Promises!vars)
  OBVIOUS
<1>0. TypeOK
  BY DEF RefinementInv, BackInv, StockInv
<1>1. ASSUME NEW r \in Requests, Submit(r) \/ Continue(r) \/ AbortCreate(r)
      PROVE  [Promises!Next]_(Promises!vars)
  BY <1>1, RequestImplements DEF Promises!Next
<1>2. ASSUME NEW r \in Requests, NEW c \in Callers, ChangeStatus(r, c)
      PROVE  [Promises!Next]_(Promises!vars)
  BY <1>2, MoveImplements DEF Promises!Next
<1>3. ASSUME NEW i \in Counted, AdjustStock(i)
      PROVE  [Promises!Next]_(Promises!vars)
  BY <1>3, CountImplements, BoundsAssumption DEF Promises!Next
<1>4. CASE NextPeriod \/ UNCHANGED vars
  <2>1. \A r \in Requests : Unseen(r)
    BY <1>4, KeptUnseen DEF NextPeriod, bookVars, orderVars, vars
  <2> QED
    BY <1>0, <1>4, <2>1, Stuttering DEF NextPeriod, stockVars, vars
<1> QED
  BY <1>1, <1>2, <1>3, <1>4 DEF Next

LEMMA ImplementationInit == Init => Promises!Init
<1> SUFFICES ASSUME Init PROVE Promises!Init
  OBVIOUS
<1>1. \A r \in Requests : ~Committed(r)
  BY DEF Init, Committed, OrderStatus
<1>2. [r \in Requests |-> PromiseOf(r)] = [o \in Requests |-> [g \in Items |-> 0]]
  BY <1>1 DEF PromiseOf, Nothing
<1>3. [r \in Requests |-> CostOf(r)] = [o \in Requests |-> [a \in QuotaAccounts |-> 0]]
  BY <1>1 DEF CostOf
<1>4. [r \in Requests |-> StageOf(r)] = [o \in Requests |-> "none"]
  BY <1>1 DEF StageOf
<1>5. quantity \in [Items -> Nat] /\ number = [o \in Requests |-> 0]
  BY BoundsAssumption DEF Init
<1> QED
  BY <1>2, <1>3, <1>4, <1>5 DEF Promises!Init

\* The transactions, locks, savepoints and rollbacks of the service implement
\* a service that places every order in one step, within the stock and the
\* quota that are left, and numbers the orders as they are placed.
THEOREM OrdersImplementPromises == Spec => PlacedAtomically
<1>1. /\ StockInv /\ NotStartedEarly /\ EveryOrderIsBacked /\ UsedIsCharged
      /\ QuotaNeverExceeded /\ OrderNumbersGapless
      => RefinementInv
  BY DEF RefinementInv, BackInv
<1> QED
  BY <1>1, ImplementationInit, ImplementationStep, TypeCorrect, StockInvariant,
     NotStartedEarlyHolds, EveryOrderIsBackedHolds, UsedIsAlwaysCharged,
     QuotaNeverExceededHolds, OrderNumbersGaplessHolds, PTL
  DEF Spec, PlacedAtomically, Promises!Spec
=============================================================================
