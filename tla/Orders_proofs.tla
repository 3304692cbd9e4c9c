---------------------------- MODULE Orders_proofs ---------------------------
(***************************************************************************)
(* Proofs about Orders, for all requests, callers, carts, recipes, quotas  *)
(* and stocks.                                                             *)
(***************************************************************************)
EXTENDS Orders, Units_proofs

(***************************************************************************)
(* The stock invariant.  TypeOK says that reserved and quantity stay       *)
(* natural numbers, which holds because an order never releases more than  *)
(* what is reserved, and never consumes more than what is in stock.        *)
(***************************************************************************)
StockInv == TypeOK /\ ReservedIsHeld /\ ReservedWithinQuantity

\* What an order holds on an item is reserved, and what is reserved is there.
LEMMA HeldWithinReserved ==
  ASSUME StockInv, NEW r \in Requests, NEW i \in Items
  PROVE  /\ held[r][i] \in Nat /\ reserved[i] \in Nat /\ quantity[i] \in Nat
         /\ held[r][i] <= reserved[i]
         /\ reserved[i] <= quantity[i]
<1>1. HeldOn(i) \in [Requests -> Nat]
  BY DEF StockInv, TypeOK, HeldOn
<1>2. HeldOn(i)[r] <= Total(HeldOn(i))
  BY <1>1, TotalUpdate, RequestsAssumption
<1>3. HeldOn(i)[r] = held[r][i]
  BY DEF HeldOn
<1>4. reserved[i] = Total(HeldOn(i))
  BY DEF StockInv, ReservedIsHeld
<1> QED
  BY <1>2, <1>3, <1>4 DEF StockInv, TypeOK, ReservedWithinQuantity

\* Replacing what one order holds, and correcting the reserved column by the
\* difference, keeps the sum.
LEMMA HeldChange ==
  ASSUME StockInv, NEW r \in Requests, NEW h \in [Items -> Nat],
         held' = [held EXCEPT ![r] = h],
         reserved' = [i \in Items |-> reserved[i] - held[r][i] + h[i]]
  PROVE  ReservedIsHeld'
<1> SUFFICES ASSUME NEW i \in Items
             PROVE  reserved'[i] = Total(HeldOn(i)')
  BY DEF ReservedIsHeld
<1>1. HeldOn(i) \in [Requests -> Nat]
  BY DEF StockInv, TypeOK, HeldOn
<1>2. HeldOn(i)' \in [Requests -> Nat]
  BY DEF StockInv, TypeOK, HeldOn
<1>3. \A s \in Requests \ {r} : HeldOn(i)'[s] = HeldOn(i)[s]
  BY DEF StockInv, TypeOK, HeldOn
<1>4. Total(HeldOn(i)') = Total(HeldOn(i)) - HeldOn(i)[r] + HeldOn(i)'[r]
  BY <1>1, <1>2, <1>3, TotalUpdate, RequestsAssumption
<1>5. HeldOn(i)[r] = held[r][i] /\ HeldOn(i)'[r] = h[i]
  BY DEF StockInv, TypeOK, HeldOn
<1>6. reserved[i] = Total(HeldOn(i))
  BY DEF StockInv, ReservedIsHeld
<1> QED
  BY <1>4, <1>5, <1>6

\* What a line takes of a stock product is a number of units.
LEMMA NeedIsNat ==
  ASSUME TypeOK, NEW r \in Requests, status[r] # "NEW", NEW p \in Products, NEW q \in Products
  PROVE  LineNeed(r, p, q) \in Nat
<1>1. request[r].cart[p] \in Nat
  BY CatalogueAssumption DEF TypeOK, RequestData
<1>2. Recipe[p][q] \in Nat
  BY CatalogueAssumption
<1>3. request[r].cart[p] * Recipe[p][q] \in Nat
  BY <1>1, <1>2
<1> QED
  BY <1>1, <1>3 DEF LineNeed, Need

\* The allocation of a line takes from each zone what is there at most.
LEMMA AllocationFits ==
  ASSUME StockInv, NEW r \in Requests, status[r] # "NEW", NEW p \in Products,
         StockSuffices(r, p)
  PROVE  /\ Allocation(r, p) \in [Items -> Nat]
         /\ \A i \in Items : reserved[i] + Allocation(r, p)[i] <= quantity[i]
<1>0. SUFFICES ASSUME NEW i \in Items
               PROVE  /\ Allocation(r, p)[i] \in Nat
                      /\ reserved[i] + Allocation(r, p)[i] <= quantity[i]
  <2>1. Allocation(r, p) = [i \in Items |-> Allocation(r, p)[i]]
    BY DEF Allocation
  <2> QED
    BY <2>1
<1> PICK q \in Products, z \in Zones : i = <<q, z>>
  BY DEF Items
<1>1. LineNeed(r, p, q) \in Nat
  BY NeedIsNat DEF StockInv
<1>2. LineNeed(r, p, q) <= Available(q)
  BY DEF StockSuffices
<1>3. \A y \in Zones : /\ Free(<<q, y>>) \in Nat
                       /\ reserved[<<q, y>>] + Free(<<q, y>>) = quantity[<<q, y>>]
                       /\ reserved[<<q, y>>] \in Nat
                       /\ quantity[<<q, y>>] \in Nat
  BY DEF StockInv, TypeOK, ReservedWithinQuantity, Free, Items
<1>4. Allocation(r, p)[<<q, z>>] =
        LET fromKitchen == Smaller(Free(<<q, "KITCHEN">>), LineNeed(r, p, q))
        IN  IF z = "KITCHEN" THEN fromKitchen
                             ELSE LineNeed(r, p, q) - fromKitchen
  BY DEF Allocation, Items
<1>5. CASE z = "KITCHEN"
  BY <1>1, <1>3, <1>4, <1>5 DEF Smaller, Zones
<1>6. CASE z = "BRANCH"
  BY <1>1, <1>2, <1>3, <1>4, <1>6 DEF Smaller, Zones, Available
<1> QED
  BY <1>5, <1>6 DEF Zones

\* The statuses from which some caller may give an order each new status.
LEMMA MoveSources ==
  ASSUME NEW r \in Requests, NEW c \in Callers
  PROVE  /\ MayMove(c, r, "APPROVED") => status[r] = "PENDING"
         /\ MayMove(c, r, "REJECTED")
              => status[r] \in {"PENDING", "APPROVED", "IN_PROGRESS", "READY"}
         /\ MayMove(c, r, "CANCELLED") => status[r] \in {"PENDING", "APPROVED"}
         /\ MayMove(c, r, "IN_PROGRESS") => status[r] \in {"PENDING", "APPROVED"}
         /\ MayMove(c, r, "READY") => status[r] = "IN_PROGRESS"
         /\ MayMove(c, r, "DELIVERED") => status[r] = "READY"
BY DEF MayMove, RoleTransitions, OwnerTransitions, AdminTransitions,
       ApproverTransitions, AgentTransitions

\* Steps that write no stock column and no reservation.
LEMMA StockKept ==
  ASSUME StockInv, UNCHANGED <<stockVars, held>>
  PROVE  ReservedIsHeld' /\ ReservedWithinQuantity'
BY DEF StockInv, ReservedIsHeld, ReservedWithinQuantity, stockVars, HeldOn

\* Releasing what an order holds, as a cancellation, a rejection and a
\* rollback do.
LEMMA StockReleased ==
  ASSUME StockInv, NEW r \in Requests, ReleaseHeld(r), UNCHANGED quantity
  PROVE  /\ reserved' \in [Items -> Nat]
         /\ held' \in [Requests -> [Items -> Nat]]
         /\ ReservedIsHeld' /\ ReservedWithinQuantity'
<1>1. \A i \in Items : /\ held[r][i] \in Nat /\ reserved[i] \in Nat
                       /\ quantity[i] \in Nat
                       /\ held[r][i] <= reserved[i]
                       /\ reserved[i] <= quantity[i]
  BY HeldWithinReserved
<1>2. reserved' = [i \in Items |-> reserved[i] - held[r][i]]
  BY DEF ReleaseHeld
<1>3. reserved' \in [Items -> Nat]
  BY <1>1, <1>2
<1>4. held' \in [Requests -> [Items -> Nat]]
  BY DEF ReleaseHeld, StockInv, TypeOK, Nothing
<1>5. ReservedIsHeld'
  <2>1. Nothing \in [Items -> Nat]
    BY DEF Nothing
  <2>2. reserved' = [i \in Items |-> reserved[i] - held[r][i] + Nothing[i]]
    BY <1>1, <1>2 DEF Nothing
  <2> QED
    BY <2>1, <2>2, HeldChange DEF ReleaseHeld
<1>6. ReservedWithinQuantity'
  BY <1>1, <1>2 DEF ReservedWithinQuantity
<1> QED
  BY <1>3, <1>4, <1>5, <1>6

\* Consuming what an order holds, as the start of the preparation does.
LEMMA StockConsumed ==
  ASSUME StockInv, NEW r \in Requests, ConsumeHeld(r)
  PROVE  /\ quantity' \in [Items -> Nat]
         /\ reserved' \in [Items -> Nat]
         /\ held' \in [Requests -> [Items -> Nat]]
         /\ consumed' \in [Requests -> [Items -> Nat]]
         /\ ReservedIsHeld' /\ ReservedWithinQuantity'
<1>1. \A i \in Items : /\ held[r][i] \in Nat /\ reserved[i] \in Nat
                       /\ quantity[i] \in Nat
                       /\ held[r][i] <= reserved[i]
                       /\ reserved[i] <= quantity[i]
  BY HeldWithinReserved
<1>2. /\ reserved' = [i \in Items |-> reserved[i] - held[r][i]]
      /\ quantity' = [i \in Items |-> quantity[i] - held[r][i]]
  BY DEF ConsumeHeld
<1>3. reserved' \in [Items -> Nat] /\ quantity' \in [Items -> Nat]
  BY <1>1, <1>2
<1>4. held' \in [Requests -> [Items -> Nat]]
  BY DEF ConsumeHeld, StockInv, TypeOK, Nothing
<1>5. consumed' \in [Requests -> [Items -> Nat]]
  BY DEF ConsumeHeld, StockInv, TypeOK
<1>6. ReservedIsHeld'
  <2>1. Nothing \in [Items -> Nat]
    BY DEF Nothing
  <2>2. reserved' = [i \in Items |-> reserved[i] - held[r][i] + Nothing[i]]
    BY <1>1, <1>2 DEF Nothing
  <2> QED
    BY <2>1, <2>2, HeldChange DEF ConsumeHeld
<1>7. ReservedWithinQuantity'
  BY <1>1, <1>2 DEF ReservedWithinQuantity
<1> QED
  BY <1>3, <1>4, <1>5, <1>6, <1>7

\* Giving quota back never takes the usage below zero.
LEMMA QuotaGivenBack ==
  ASSUME TypeOK, NEW r \in Requests, GiveQuotaBack(r)
  PROVE  /\ used' \in [Employees \X Products \X Periods -> Nat]
         /\ charge' \in [Requests -> [Products -> Nat]]
         /\ \A k \in Employees \X Products \X Periods : used'[k] <= used[k]
<1>1. ASSUME NEW k \in Employees \X Products \X Periods
      PROVE  /\ used[k] \in Nat /\ charge[r][k[2]] \in Nat
             /\ used[k] - Smaller(charge[r][k[2]], used[k]) \in 0..used[k]
  <2>1. used[k] \in Nat /\ charge[r][k[2]] \in Nat
    BY DEF TypeOK
  <2> QED
    BY <2>1 DEF Smaller
<1>2. /\ used' \in [Employees \X Products \X Periods -> Nat]
      /\ \A k \in Employees \X Products \X Periods : used'[k] <= used[k]
  BY <1>1 DEF GiveQuotaBack
<1>3. charge' \in [Requests -> [Products -> Nat]]
  BY DEF GiveQuotaBack, NoCharge, TypeOK
<1> QED
  BY <1>2, <1>3

\* The initial tables reserve nothing.
LEMMA StockInit == Init => StockInv
<1> SUFFICES ASSUME Init PROVE StockInv
  OBVIOUS
<1>1. TypeOK
  BY CatalogueAssumption, BoundsAssumption
  DEF Init, TypeOK, Nothing, NoCharge, NoLine, NoRequest, Status, Answer,
      Decision, Periods
<1>2. \A i \in Items : reserved[i] = 0 /\ HeldOn(i) = [r \in Requests |-> 0]
  BY DEF Init, Nothing, HeldOn
<1>3. ReservedIsHeld
  BY <1>2, TotalOfZeros DEF ReservedIsHeld
<1>4. ReservedWithinQuantity
  BY <1>2, BoundsAssumption DEF ReservedWithinQuantity, Init
<1> QED
  BY <1>1, <1>3, <1>4 DEF StockInv

\* A rollback undoes what the transaction wrote.
LEMMA RollbackStock ==
  ASSUME StockInv, NEW r \in Requests, status[r] = "CREATING",
         NEW answer \in Answer, Rollback(r, answer)
  PROVE  StockInv'
<1>1. /\ reserved' \in [Items -> Nat]
      /\ held' \in [Requests -> [Items -> Nat]]
      /\ ReservedIsHeld' /\ ReservedWithinQuantity'
  BY StockReleased DEF Rollback
<1>2. /\ used' \in [Employees \X Products \X Periods -> Nat]
      /\ charge' \in [Requests -> [Products -> Nat]]
  BY QuotaGivenBack DEF Rollback, StockInv
<1>3. status' \in [Requests -> Status]
  BY DEF Rollback, StockInv, TypeOK, Status
<1>4. line' \in [Requests -> [Products -> Decision]]
  BY DEF Rollback, StockInv, TypeOK, NoLine, Decision
<1>5. \A o \in Requests : status'[o] # "NEW" => request'[o] \in RequestData
  BY DEF Rollback, StockInv, TypeOK
<1>6. TypeOK'
  BY <1>1, <1>2, <1>3, <1>4, <1>5 DEF Rollback, StockInv, TypeOK
<1> QED
  BY <1>1, <1>6 DEF StockInv

\* The steps of POST /orders.
LEMMA SubmitStock ==
  ASSUME StockInv, NEW r \in Requests, Submit(r)
  PROVE  StockInv'
<1> PICK e \in Employees, k \in Keys \union {NoKey}, c \in Carts : Receive(r, e, k, c)
  BY DEF Submit
<1>1. request' \in [Requests -> RequestData \union {NoRequest}]
  BY DEF Receive, StockInv, TypeOK, RequestData
<1>2. status' \in [Requests -> Status]
  BY DEF Receive, AnswerFor, StockInv, TypeOK, Status, Answer
<1>3. \A o \in Requests : status'[o] # "NEW" => request'[o] \in RequestData
  BY DEF Receive, StockInv, TypeOK, RequestData
<1>4. TypeOK'
  BY <1>1, <1>2, <1>3 DEF Receive, StockInv, TypeOK, stockVars, bookVars
<1> QED
  BY <1>4, StockKept DEF StockInv, Receive, bookVars

LEMMA ValidateStock ==
  ASSUME StockInv, NEW r \in Requests, Validate(r)
  PROVE  StockInv'
<1>1. status' \in [Requests -> Status]
  BY DEF Validate, StockInv, TypeOK, Status, Answer
<1>2. line' \in [Requests -> [Products -> Decision]]
  <2>1. Advisory(r) \in [Products -> Decision]
    BY DEF Advisory, Decision
  <2> QED
    BY <2>1 DEF Validate, StockInv, TypeOK
<1>3. window' \in [Requests -> Periods]
  BY DEF Validate, StockInv, TypeOK
<1>4. \A o \in Requests : status'[o] # "NEW" => request'[o] \in RequestData
  BY DEF Validate, StockInv, TypeOK
<1>5. TypeOK'
  BY <1>1, <1>2, <1>3, <1>4 DEF Validate, StockInv, TypeOK, stockVars, bookVars
<1> QED
  BY <1>5, StockKept DEF StockInv, Validate, bookVars

LEMMA AcceptLineStock ==
  ASSUME StockInv, NEW r \in Requests, NEW p \in Products, AcceptLine(r, p)
  PROVE  StockInv'
<1> DEFINE more == [i \in Items |-> held[r][i] + Allocation(r, p)[i]]
<1>0. status[r] = "CREATING" /\ StockSuffices(r, p) /\ request[r] \in RequestData
  BY DEF AcceptLine, Trying, StockInv, TypeOK
<1>1. /\ Allocation(r, p) \in [Items -> Nat]
      /\ \A i \in Items : reserved[i] + Allocation(r, p)[i] <= quantity[i]
  BY <1>0, AllocationFits
<1>2. more \in [Items -> Nat]
  BY <1>1 DEF StockInv, TypeOK
<1>3. held' = [held EXCEPT ![r] = more]
  BY DEF AcceptLine, StockInv, TypeOK
<1>4. reserved' = [i \in Items |-> reserved[i] - held[r][i] + more[i]]
  BY <1>1 DEF AcceptLine, StockInv, TypeOK
<1>5. ReservedIsHeld'
  BY <1>2, <1>3, <1>4, HeldChange
<1>6. ReservedWithinQuantity'
  BY <1>1 DEF AcceptLine, ReservedWithinQuantity
<1>7. /\ reserved' \in [Items -> Nat]
      /\ held' \in [Requests -> [Items -> Nat]]
  BY <1>1, <1>2, <1>3 DEF AcceptLine, StockInv, TypeOK
<1>8. /\ used' \in [Employees \X Products \X Periods -> Nat]
      /\ charge' \in [Requests -> [Products -> Nat]]
  <2>1. request[r].cart[p] \in Nat
    BY <1>0, CatalogueAssumption DEF RequestData
  <2>2. QuotaRow(r, p) \in Employees \X Products \X Periods
    BY <1>0 DEF QuotaRow, RequestData, StockInv, TypeOK
  <2>3. /\ used \in [Employees \X Products \X Periods -> Nat]
        /\ charge \in [Requests -> [Products -> Nat]]
    BY DEF StockInv, TypeOK
  <2>4. CASE p \in Limited
    <3>1. used' = [used EXCEPT ![QuotaRow(r, p)] =
                     used[QuotaRow(r, p)] + request[r].cart[p]]
      BY <2>4 DEF AcceptLine
    <3>2. charge' = [charge EXCEPT ![r][p] = request[r].cart[p]]
      BY <2>4 DEF AcceptLine
    <3>3. used[QuotaRow(r, p)] + request[r].cart[p] \in Nat
      BY <2>1, <2>2, <2>3
    <3> QED
      BY <2>1, <2>3, <3>1, <3>2, <3>3
  <2>5. CASE p \notin Limited
    BY <2>3, <2>5 DEF AcceptLine
  <2> QED
    BY <2>4, <2>5
<1>9. line' \in [Requests -> [Products -> Decision]]
  BY DEF AcceptLine, StockInv, TypeOK, Decision
<1>10. TypeOK'
  BY <1>7, <1>8, <1>9 DEF AcceptLine, StockInv, TypeOK
<1> QED
  BY <1>5, <1>6, <1>10 DEF StockInv

LEMMA RefuseLineStock ==
  ASSUME StockInv, NEW r \in Requests, NEW p \in Products, RefuseLine(r, p)
  PROVE  StockInv'
<1>1. line' \in [Requests -> [Products -> Decision]]
  BY DEF RefuseLine, StockInv, TypeOK, Decision
<1>2. TypeOK'
  BY <1>1 DEF RefuseLine, StockInv, TypeOK, stockVars, bookVars
<1> QED
  BY <1>2, StockKept DEF StockInv, RefuseLine, bookVars

LEMMA CommitCreateStock ==
  ASSUME StockInv, NEW r \in Requests, CommitCreate(r)
  PROVE  StockInv'
<1>1. status' \in [Requests -> Status]
  BY DEF CommitCreate, StockInv, TypeOK, Status, OrderStatus
<1>2. number' \in [Requests -> Nat] /\ nextNumber' \in Nat \ {0}
  BY DEF CommitCreate, StockInv, TypeOK
<1>3. \A o \in Requests : status'[o] # "NEW" => request'[o] \in RequestData
  BY DEF CommitCreate, AllLinesTried, StockInv, TypeOK
<1>4. TypeOK'
  BY <1>1, <1>2, <1>3 DEF CommitCreate, StockInv, TypeOK, stockVars, bookVars
<1> QED
  BY <1>4, StockKept DEF StockInv, CommitCreate, bookVars

LEMMA ContinueStock ==
  ASSUME StockInv, NEW r \in Requests, Continue(r) \/ AbortCreate(r)
  PROVE  StockInv'
<1>1. CASE Validate(r)
  BY <1>1, ValidateStock
<1>2. ASSUME NEW p \in Products, AcceptLine(r, p) \/ RefuseLine(r, p)
      PROVE  StockInv'
  BY <1>2, AcceptLineStock, RefuseLineStock
<1>3. CASE CommitCreate(r)
  BY <1>3, CommitCreateStock
<1>4. CASE RefuseCreate(r)
  <2>1. "REFUSED" \in Answer
    BY DEF Answer
  <2> QED
    BY <1>4, <2>1, RollbackStock DEF RefuseCreate, AllLinesTried
<1>5. CASE LoseRace(r)
  <2>1. AnswerFor(SameKey(r), request[r].cart) \in Answer
    BY DEF AnswerFor, Answer
  <2> QED
    BY <1>5, <2>1, RollbackStock DEF LoseRace, AllLinesTried
<1>6. CASE AbortCreate(r)
  <2>1. "FAILED" \in Answer
    BY DEF Answer
  <2> QED
    BY <1>6, <2>1, RollbackStock DEF AbortCreate
<1> QED
  BY <1>1, <1>2, <1>3, <1>4, <1>5, <1>6 DEF Continue

\* The steps of an order that exists: a status and nothing of the stock.
LEMMA StatusOnlyStock ==
  ASSUME StockInv, NEW r \in Requests, status[r] \in OrderStatus,
         NEW s \in OrderStatus, SetStatus(r, s),
         UNCHANGED <<stockVars, used, nextNumber, period, request, window,
                     line, bookVars, preparedBy, prepared, number>>
  PROVE  StockInv'
<1>1. status' \in [Requests -> Status]
  BY DEF SetStatus, StockInv, TypeOK, Status
<1>2. \A o \in Requests : status'[o] # "NEW" => request'[o] \in RequestData
  BY DEF SetStatus, StockInv, TypeOK, OrderStatus
<1>3. TypeOK'
  BY <1>1, <1>2 DEF StockInv, TypeOK, stockVars, bookVars
<1> QED
  BY <1>3, StockKept DEF StockInv, bookVars

\* Rejecting and cancelling, with or without the quota.
LEMMA WithdrawStock ==
  ASSUME StockInv, NEW r \in Requests, status[r] \in OrderStatus,
         NEW s \in OrderStatus, SetStatus(r, s), ReleaseHeld(r),
         GiveQuotaBack(r) \/ UNCHANGED <<used, charge>>,
         UNCHANGED <<quantity, nextNumber, period, request, window, line,
                     consumed, preparedBy, prepared, number>>
  PROVE  StockInv'
<1>1. /\ reserved' \in [Items -> Nat]
      /\ held' \in [Requests -> [Items -> Nat]]
      /\ ReservedIsHeld' /\ ReservedWithinQuantity'
  BY StockReleased
<1>2. /\ used' \in [Employees \X Products \X Periods -> Nat]
      /\ charge' \in [Requests -> [Products -> Nat]]
  <2>1. CASE GiveQuotaBack(r)
    BY <2>1, QuotaGivenBack DEF StockInv
  <2>2. CASE UNCHANGED <<used, charge>>
    BY <2>2 DEF StockInv, TypeOK
  <2> QED
    BY <2>1, <2>2
<1>3. status' \in [Requests -> Status]
  BY DEF SetStatus, StockInv, TypeOK, Status
<1>4. \A o \in Requests : status'[o] # "NEW" => request'[o] \in RequestData
  BY DEF SetStatus, StockInv, TypeOK, OrderStatus
<1>5. TypeOK'
  BY <1>1, <1>2, <1>3, <1>4 DEF StockInv, TypeOK
<1> QED
  BY <1>1, <1>5 DEF StockInv

LEMMA StartPreparationStock ==
  ASSUME StockInv, NEW r \in Requests, NEW c \in Callers, StartPreparation(r, c)
  PROVE  StockInv'
<1>1. /\ quantity' \in [Items -> Nat]
      /\ reserved' \in [Items -> Nat]
      /\ held' \in [Requests -> [Items -> Nat]]
      /\ consumed' \in [Requests -> [Items -> Nat]]
      /\ ReservedIsHeld' /\ ReservedWithinQuantity'
  BY StockConsumed DEF StartPreparation
<1>2. status' \in [Requests -> Status]
  BY DEF StartPreparation, SetStatus, StockInv, TypeOK, Status, OrderStatus
<1>3. \A o \in Requests : status'[o] # "NEW" => request'[o] \in RequestData
  BY DEF StartPreparation, MayMove, SetStatus, StockInv, TypeOK, OrderStatus
<1>4. preparedBy' \in [Requests -> Callers \union {Nobody}]
  BY DEF StartPreparation, StockInv, TypeOK
<1>5. TypeOK'
  BY <1>1, <1>2, <1>3, <1>4 DEF StartPreparation, StockInv, TypeOK
<1> QED
  BY <1>1, <1>5 DEF StockInv

LEMMA UpdatePreparationLineStock ==
  ASSUME StockInv, NEW r \in Requests, NEW c \in Callers, NEW p \in Products,
         UpdatePreparationLine(r, c, p)
  PROVE  StockInv'
<1>1. prepared' \in [Requests -> SUBSET Products]
  BY DEF UpdatePreparationLine, StockInv, TypeOK
<1>2. TypeOK'
  BY <1>1 DEF UpdatePreparationLine, StockInv, TypeOK, stockVars, bookVars
<1> QED
  BY <1>2, StockKept DEF StockInv, UpdatePreparationLine, bookVars

LEMMA ChangeStatusStock ==
  ASSUME StockInv, NEW r \in Requests, NEW c \in Callers, ChangeStatus(r, c)
  PROVE  StockInv'
<1>0. {"REJECTED", "CANCELLED", "READY", "DELIVERED"}
        \subseteq OrderStatus
  BY DEF OrderStatus
<1>1. CASE Reject(r, c)
  <2>1. GiveQuotaBack(r) \/ UNCHANGED <<used, charge>>
    BY <1>1 DEF Reject
  <2> QED
    BY <1>0, <1>1, <2>1, WithdrawStock DEF Reject, MayMove
<1>2. CASE Cancel(r, c)
  BY <1>0, <1>2, WithdrawStock DEF Cancel, MayMove
<1>3. CASE StartPreparation(r, c)
  BY <1>3, StartPreparationStock
<1>4. ASSUME NEW p \in Products, UpdatePreparationLine(r, c, p)
      PROVE  StockInv'
  BY <1>4, UpdatePreparationLineStock
<1>5. CASE MarkReady(r, c)
  BY <1>0, <1>5, StatusOnlyStock DEF MarkReady, MayMove
<1>6. CASE Deliver(r, c)
  BY <1>0, <1>6, StatusOnlyStock DEF Deliver, MayMove
<1> QED
  BY <1>1, <1>2, <1>3, <1>4, <1>5, <1>6 DEF ChangeStatus

\* A count may write any quantity that the CHECK of the table accepts.
LEMMA AdjustStockStock ==
  ASSUME StockInv, NEW i \in Counted, AdjustStock(i)
  PROVE  StockInv'
<1>1. i \in Items
  BY BoundsAssumption
<1>2. PICK n \in Nat : quantity' = [quantity EXCEPT ![i] = n]
  <2>1. CASE \E n \in 1..quantity[i] :
               quantity' = [quantity EXCEPT ![i] = @ - n]
    <3>1. PICK n \in 1..quantity[i] : quantity' = [quantity EXCEPT ![i] = @ - n]
      BY <2>1
    <3>2. quantity[i] - n \in Nat
      BY <1>1 DEF StockInv, TypeOK
    <3> QED
      BY <3>1, <3>2
  <2>2. CASE \E n \in 0..MaxStock : quantity' = [quantity EXCEPT ![i] = n]
    <3>1. PICK n \in 0..MaxStock : quantity' = [quantity EXCEPT ![i] = n]
      BY <2>2
    <3>2. n \in Nat
      BY BoundsAssumption
    <3> QED
      BY <3>1, <3>2
  <2> QED
    BY <2>1, <2>2 DEF AdjustStock
<1>3. quantity' \in [Items -> Nat]
  BY <1>2 DEF StockInv, TypeOK
<1>4. TypeOK'
  BY <1>3 DEF AdjustStock, StockInv, TypeOK, bookVars, orderVars
<1>5. ReservedIsHeld'
  BY DEF AdjustStock, bookVars, ReservedIsHeld, HeldOn, StockInv
<1>6. ReservedWithinQuantity'
  BY <1>1, <1>2 DEF AdjustStock, ReservedWithinQuantity, StockInv, TypeOK
<1> QED
  BY <1>4, <1>5, <1>6 DEF StockInv

LEMMA NextPeriodStock == StockInv /\ NextPeriod => StockInv'
<1> SUFFICES ASSUME StockInv, NextPeriod PROVE StockInv'
  OBVIOUS
<1>1. period' \in Periods
  BY BoundsAssumption DEF NextPeriod, StockInv, TypeOK, Periods
<1>2. TypeOK'
  BY <1>1 DEF NextPeriod, StockInv, TypeOK, stockVars, bookVars, orderVars
<1> QED
  BY <1>2, StockKept DEF StockInv, NextPeriod, bookVars

LEMMA StutterStock == StockInv /\ UNCHANGED vars => StockInv'
<1> SUFFICES ASSUME StockInv, UNCHANGED vars PROVE StockInv'
  OBVIOUS
<1>1. TypeOK'
  BY DEF vars, StockInv, TypeOK
<1> QED
  BY <1>1, StockKept DEF vars, stockVars, StockInv

LEMMA StockStep == StockInv /\ [Next]_vars => StockInv'
<1> SUFFICES ASSUME StockInv, [Next]_vars PROVE StockInv'
  OBVIOUS
<1>1. ASSUME NEW r \in Requests, Submit(r) \/ Continue(r) \/ AbortCreate(r)
      PROVE  StockInv'
  BY <1>1, SubmitStock, ContinueStock
<1>2. ASSUME NEW r \in Requests, NEW c \in Callers, ChangeStatus(r, c)
      PROVE  StockInv'
  BY <1>2, ChangeStatusStock
<1>3. ASSUME NEW i \in Counted, AdjustStock(i)
      PROVE  StockInv'
  BY <1>3, AdjustStockStock
<1>4. CASE NextPeriod
  BY <1>4, NextPeriodStock
<1>5. CASE UNCHANGED vars
  BY <1>5, StutterStock
<1> QED
  BY <1>1, <1>2, <1>3, <1>4, <1>5 DEF Next

\* The strengthened invariant of the stock holds in every reachable state.
THEOREM StockInvariant == Spec => []StockInv
BY StockInit, StockStep, PTL DEF Spec

\* Every variable keeps its type: in particular no stock, no reservation and
\* no usage becomes negative.
THEOREM TypeCorrect == Spec => []TypeOK
<1>1. StockInv => TypeOK
  BY DEF StockInv
<1> QED
  BY <1>1, StockInvariant, PTL

\* The reserved column is at all times the sum of the reservations held.
THEOREM ReservedIsAlwaysHeld == Spec => []ReservedIsHeld
<1>1. StockInv => ReservedIsHeld
  BY DEF StockInv
<1> QED
  BY <1>1, StockInvariant, PTL

\* No item is ever promised beyond its physical stock.
THEOREM NeverOverReserved == Spec => []ReservedWithinQuantity
<1>1. StockInv => ReservedWithinQuantity
  BY DEF StockInv
<1> QED
  BY <1>1, StockInvariant, PTL

-----------------------------------------------------------------------------
(***************************************************************************)
(* Proofs about the identity and the statuses of the orders: which orders  *)
(* are stored, under which key and number, and what a status can become.   *)
(***************************************************************************)

\* The commit of a creation stores one more order, with the next number.
LEMMA CommitStores ==
  ASSUME TypeOK, NEW r \in Requests, CommitCreate(r)
  PROVE  /\ r \notin Stored
         /\ Stored' = Stored \union {r}
         /\ request' = request
         /\ number' = [number EXCEPT ![r] = nextNumber]
         /\ nextNumber' = nextNumber + 1
         /\ SameKey(r) = {}
<1>1. status' = [status EXCEPT ![r] = "APPROVED"] /\ status[r] = "CREATING"
  BY DEF CommitCreate, AllLinesTried
<1>2. r \notin Stored /\ Stored' = Stored \union {r}
  BY <1>1 DEF Stored, OrderStatus, TypeOK
<1> QED
  BY <1>2 DEF CommitCreate

\* No other step stores an order, or changes the data of a stored order.
OrdersKept ==
  /\ Stored' = Stored
  /\ nextNumber' = nextNumber
  /\ \A o \in Stored : request'[o] = request[o] /\ number'[o] = number[o]

LEMMA RequestKeepsOrders ==
  ASSUME TypeOK, NEW r \in Requests, Submit(r) \/ Continue(r) \/ AbortCreate(r),
         ~CommitCreate(r)
  PROVE  OrdersKept
<1>1. CASE Submit(r)
  <2>1. PICK e \in Employees, k \in Keys \union {NoKey}, c \in Carts :
               Receive(r, e, k, c)
    BY <1>1 DEF Submit
  <2>2. status[r] \notin OrderStatus /\ status'[r] \notin OrderStatus
    BY <2>1 DEF Receive, AnswerFor, OrderStatus, TypeOK
  <2> QED
    BY <2>1, <2>2 DEF Receive, OrdersKept, Stored, TypeOK
<1>2. CASE Validate(r)
  <2>1. status[r] \notin OrderStatus /\ status'[r] \notin OrderStatus
    BY <1>2 DEF Validate, OrderStatus, TypeOK
  <2> QED
    BY <1>2, <2>1 DEF Validate, OrdersKept, Stored, TypeOK
<1>3. ASSUME NEW p \in Products, AcceptLine(r, p) \/ RefuseLine(r, p)
      PROVE  OrdersKept
  BY <1>3 DEF AcceptLine, RefuseLine, OrdersKept, Stored
<1>4. ASSUME NEW a \in Answer, Rollback(r, a), status[r] = "CREATING"
      PROVE  OrdersKept
  <2>1. status[r] \notin OrderStatus /\ status'[r] \notin OrderStatus
    BY <1>4 DEF Rollback, OrderStatus, Answer, TypeOK
  <2> QED
    BY <1>4, <2>1 DEF Rollback, OrdersKept, Stored, TypeOK
<1>5. CASE RefuseCreate(r) \/ LoseRace(r) \/ AbortCreate(r)
  <2>1. /\ {"REFUSED", "FAILED"} \subseteq Answer
        /\ AnswerFor(SameKey(r), request[r].cart) \in Answer
    BY DEF Answer, AnswerFor
  <2> QED
    BY <1>4, <1>5, <2>1
    DEF RefuseCreate, LoseRace, AbortCreate, AllLinesTried
<1> QED
  BY <1>1, <1>2, <1>3, <1>5 DEF Continue

LEMMA MoveKeepsOrders ==
  ASSUME TypeOK, NEW r \in Requests, NEW c \in Callers, ChangeStatus(r, c)
  PROVE  OrdersKept
<1>1. ASSUME NEW s \in OrderStatus, MayMove(c, r, s), SetStatus(r, s),
             UNCHANGED <<request, number, nextNumber>>
      PROVE  OrdersKept
  BY <1>1 DEF MayMove, SetStatus, OrdersKept, Stored, TypeOK
<1>2. {"REJECTED", "CANCELLED", "IN_PROGRESS", "READY", "DELIVERED"}
        \subseteq OrderStatus
  BY DEF OrderStatus
<1>3. ASSUME NEW p \in Products, UpdatePreparationLine(r, c, p)
      PROVE  OrdersKept
  BY <1>3 DEF UpdatePreparationLine, OrdersKept, Stored
<1> QED
  BY <1>1, <1>2, <1>3
  DEF ChangeStatus, Reject, Cancel, StartPreparation, MarkReady, Deliver

LEMMA OrdersStep ==
  ASSUME TypeOK, [Next]_vars
  PROVE  OrdersKept \/ \E r \in Requests : CommitCreate(r)
<1>1. ASSUME NEW i \in Counted, AdjustStock(i)
      PROVE  OrdersKept
  BY <1>1 DEF AdjustStock, orderVars, OrdersKept, Stored
<1>2. CASE NextPeriod
  BY <1>2 DEF NextPeriod, orderVars, OrdersKept, Stored
<1>3. CASE UNCHANGED vars
  BY <1>3 DEF vars, OrdersKept, Stored
<1> QED
  BY <1>1, <1>2, <1>3, RequestKeepsOrders, MoveKeepsOrders DEF Next

-----------------------------------------------------------------------------
(***************************************************************************)
(* Keys                                                                    *)
(***************************************************************************)

LEMMA KeyStep == TypeOK /\ OneOrderPerKey /\ [Next]_vars => OneOrderPerKey'
<1> SUFFICES ASSUME TypeOK, OneOrderPerKey, [Next]_vars
             PROVE  OneOrderPerKey'
  OBVIOUS
<1>1. CASE OrdersKept
  BY <1>1 DEF OrdersKept, OneOrderPerKey
<1>2. ASSUME NEW r \in Requests, CommitCreate(r)
      PROVE  OneOrderPerKey'
  <2>1. /\ Stored' = Stored \union {r}
        /\ request' = request
        /\ SameKey(r) = {}
    BY <1>2, CommitStores
  <2>2. \A o \in Stored : ~ /\ request[r].key # NoKey
                            /\ request[o].key = request[r].key
                            /\ request[o].employee = request[r].employee
    BY <2>1 DEF SameKey, Existing, Stored
  <2> QED
    BY <2>1, <2>2 DEF OneOrderPerKey
<1> QED
  BY <1>1, <1>2, OrdersStep

\* A key of an employee creates at most one order, whatever the number of
\* requests that carry it and the order of their steps.
THEOREM OneOrderPerKeyHolds == Spec => []OneOrderPerKey
<1>1. Init => OneOrderPerKey
  BY DEF Init, OneOrderPerKey, Stored, OrderStatus
<1> QED
  BY <1>1, KeyStep, TypeCorrect, PTL DEF Spec

-----------------------------------------------------------------------------
(***************************************************************************)
(* Numbers                                                                 *)
(***************************************************************************)

LEMMA NumberStep == TypeOK /\ OrderNumbersGapless /\ [Next]_vars => OrderNumbersGapless'
<1> SUFFICES ASSUME TypeOK, OrderNumbersGapless, [Next]_vars
             PROVE  OrderNumbersGapless'
  OBVIOUS
<1>1. CASE OrdersKept
  BY <1>1 DEF OrdersKept, OrderNumbersGapless
<1>2. ASSUME NEW r \in Requests, CommitCreate(r)
      PROVE  OrderNumbersGapless'
  <2>1. /\ r \notin Stored
        /\ Stored' = Stored \union {r}
        /\ number' = [number EXCEPT ![r] = nextNumber]
        /\ nextNumber' = nextNumber + 1
    BY <1>2, CommitStores
  <2>2. nextNumber \in Nat \ {0}
    BY DEF TypeOK
  <2>3. IsFiniteSet(Stored)
    BY RequestsAssumption, FS_Subset DEF Stored
  <2>4. Cardinality(Stored') = Cardinality(Stored) + 1
    BY <2>1, <2>3, FS_AddElement
  <2>5. {number'[o] : o \in Stored'} = {number[o] : o \in Stored} \union {nextNumber}
    BY <2>1 DEF TypeOK, Stored
  <2>6. 1..(nextNumber' - 1) = 1..(nextNumber - 1) \union {nextNumber}
    BY <2>1, <2>2
  <2> QED
    BY <2>1, <2>2, <2>4, <2>5, <2>6 DEF OrderNumbersGapless
<1> QED
  BY <1>1, <1>2, OrdersStep

\* The numbers of the stored orders are 1, 2, 3, ... without hole or double.
THEOREM OrderNumbersGaplessHolds == Spec => []OrderNumbersGapless
<1>1. Init => OrderNumbersGapless
  <2> SUFFICES ASSUME Init PROVE OrderNumbersGapless
    OBVIOUS
  <2>1. Stored = {} /\ nextNumber = 1
    BY DEF Init, Stored, OrderStatus
  <2> QED
    BY <2>1, FS_EmptySet DEF OrderNumbersGapless
<1> QED
  BY <1>1, NumberStep, TypeCorrect, PTL DEF Spec

-----------------------------------------------------------------------------
(***************************************************************************)
(* Statuses                                                                *)
(***************************************************************************)

\* Nobody started an order that waits, that is being created or that its owner
\* cancelled: no status of those leads back from the preparation.
NotStartedEarly ==
  \A r \in Requests :
    Started(r) => status[r] \in {"IN_PROGRESS", "READY", "DELIVERED", "REJECTED"}

\* Every status change of a stored order starts from the sources of its target.
OrderMoves(r) ==
  \/ status'[r] = status[r]
  \/ /\ status[r] \in {"PENDING", "APPROVED", "IN_PROGRESS", "READY"}
     /\ status'[r] = "REJECTED"
  \/ /\ status[r] \in {"PENDING", "APPROVED"}
     /\ status'[r] \in {"CANCELLED", "IN_PROGRESS"}
  \/ status[r] = "IN_PROGRESS" /\ status'[r] = "READY"
  \/ status[r] = "READY" /\ status'[r] = "DELIVERED"

\* What one step does to the status and to the cook of each order.
LifeStep(r) ==
  /\ status[r] \in OrderStatus => OrderMoves(r)
  /\ \/ preparedBy'[r] = preparedBy[r]
     \/ status[r] \in {"PENDING", "APPROVED"} /\ status'[r] = "IN_PROGRESS"

LEMMA RequestLife ==
  ASSUME TypeOK, NEW r \in Requests, Submit(r) \/ Continue(r) \/ AbortCreate(r)
  PROVE  \A o \in Requests : LifeStep(o)
<1>1. ASSUME status[r] \notin OrderStatus, preparedBy' = preparedBy,
             NEW s, status' = [status EXCEPT ![r] = s]
      PROVE  \A o \in Requests : LifeStep(o)
  BY <1>1 DEF LifeStep, OrderMoves, TypeOK
<1>2. CASE Submit(r)
  BY <1>1, <1>2 DEF Submit, Receive, OrderStatus
<1>3. CASE Validate(r)
  BY <1>1, <1>3 DEF Validate, OrderStatus
<1>4. ASSUME NEW p \in Products, AcceptLine(r, p) \/ RefuseLine(r, p)
      PROVE  \A o \in Requests : LifeStep(o)
  BY <1>4 DEF AcceptLine, RefuseLine, LifeStep, OrderMoves
<1>5. CASE CommitCreate(r)
  BY <1>1, <1>5 DEF CommitCreate, AllLinesTried, OrderStatus
<1>6. CASE RefuseCreate(r) \/ LoseRace(r) \/ AbortCreate(r)
  BY <1>1, <1>6
  DEF RefuseCreate, LoseRace, AbortCreate, Rollback, AllLinesTried, OrderStatus
<1> QED
  BY <1>2, <1>3, <1>4, <1>5, <1>6 DEF Continue

LEMMA MoveLife ==
  ASSUME TypeOK, NEW r \in Requests, NEW c \in Callers, ChangeStatus(r, c)
  PROVE  \A o \in Requests : LifeStep(o)
<1>1. ASSUME NEW s, MayMove(c, r, s), status' = [status EXCEPT ![r] = s],
             s \in {"REJECTED", "CANCELLED", "READY", "DELIVERED"},
             preparedBy' = preparedBy
      PROVE  \A o \in Requests : LifeStep(o)
  <2>1. status[r] \in OrderStatus
    BY <1>1 DEF MayMove
  <2>2. LifeStep(r)
    BY <1>1, <2>1, MoveSources DEF LifeStep, OrderMoves, TypeOK
  <2> QED
    BY <1>1, <2>2 DEF LifeStep, OrderMoves, TypeOK
<1>2. CASE StartPreparation(r, c)
  <2>1. status[r] \in {"PENDING", "APPROVED"}
    BY <1>2, MoveSources DEF StartPreparation
  <2> QED
    BY <1>2, <2>1 DEF StartPreparation, SetStatus, LifeStep, OrderMoves, TypeOK,
                      OrderStatus
<1>3. ASSUME NEW p \in Products, UpdatePreparationLine(r, c, p)
      PROVE  \A o \in Requests : LifeStep(o)
  BY <1>3 DEF UpdatePreparationLine, LifeStep, OrderMoves
<1> QED
  BY <1>1, <1>2, <1>3
  DEF ChangeStatus, Reject, Cancel, MarkReady, Deliver, SetStatus

LEMMA EveryLifeStep ==
  ASSUME TypeOK, [Next]_vars
  PROVE  \A o \in Requests : LifeStep(o)
<1>1. ASSUME UNCHANGED <<status, preparedBy>>
      PROVE  \A o \in Requests : LifeStep(o)
  BY <1>1 DEF LifeStep, OrderMoves
<1> QED
  BY <1>1, RequestLife, MoveLife DEF Next, AdjustStock, NextPeriod, orderVars, vars

LEMMA StartedStep == TypeOK /\ NotStartedEarly /\ [Next]_vars => NotStartedEarly'
<1> SUFFICES ASSUME TypeOK, NotStartedEarly, [Next]_vars, NEW r \in Requests,
                    preparedBy'[r] # Nobody
             PROVE  status'[r] \in {"IN_PROGRESS", "READY", "DELIVERED", "REJECTED"}
  BY DEF NotStartedEarly, Started
<1>1. LifeStep(r)
  BY EveryLifeStep
<1>2. CASE status'[r] = "IN_PROGRESS"
  BY <1>2
<1>3. CASE preparedBy'[r] = preparedBy[r]
  <2>1. status[r] \in {"IN_PROGRESS", "READY", "DELIVERED", "REJECTED"}
    BY <1>3 DEF NotStartedEarly, Started
  <2> QED
    BY <1>1, <2>1 DEF LifeStep, OrderMoves, OrderStatus
<1> QED
  BY <1>1, <1>2, <1>3 DEF LifeStep

\* No order in an early status was started by a cook.
THEOREM NotStartedEarlyHolds == Spec => []NotStartedEarly
<1>1. Init => NotStartedEarly
  BY DEF Init, NotStartedEarly, Started
<1> QED
  BY <1>1, StartedStep, TypeCorrect, PTL DEF Spec

\* The cook of a started order never changes: a second start finds the order
\* out of the statuses from which it may be started.
THEOREM OneCookStartsHolds == Spec => OneCookStarts
<1>1. TypeOK /\ NotStartedEarly /\ [Next]_vars =>
        [\A r \in Requests : Started(r) => preparedBy'[r] = preparedBy[r]]_vars
  <2> SUFFICES ASSUME TypeOK, NotStartedEarly, [Next]_vars,
                      NEW r \in Requests, Started(r)
               PROVE  preparedBy'[r] = preparedBy[r]
    OBVIOUS
  <2>1. status[r] \in {"IN_PROGRESS", "READY", "DELIVERED", "REJECTED"}
    BY DEF NotStartedEarly
  <2> QED
    BY <2>1, EveryLifeStep DEF LifeStep
<1> QED
  BY <1>1, TypeCorrect, NotStartedEarlyHolds, PTL DEF Spec, OneCookStarts

\* Orders stay delivered, rejected or cancelled, whoever asks for what.
THEOREM TerminalIsFinalHolds == Spec => TerminalIsFinal
<1>1. TypeOK /\ [Next]_vars =>
        [\A r \in Requests :
           status[r] \in {"DELIVERED", "REJECTED", "CANCELLED"}
             => status'[r] = status[r]]_vars
  BY EveryLifeStep DEF LifeStep, OrderMoves, OrderStatus
<1> QED
  BY <1>1, TypeCorrect, PTL DEF Spec, TerminalIsFinal
=============================================================================
