----------------------------- MODULE Transfers -----------------------------
(***************************************************************************)
(* Transfers of one product between the zones of a branch, the kitchen's   *)
(* replenishment requests that create and confirm them, and the orders     *)
(* that reserve and consume the same stock.                                *)
(*                                                                         *)
(* The API confirms a transfer in one transaction (confirmAtomic); the     *)
(* fulfilment of a request calls the older confirm, six database calls     *)
(* with no transaction around them.                                        *)
(***************************************************************************)
EXTENDS Saves, Units

CONSTANTS
  Zones,          \* CENTRAL, BRANCH and KITCHEN, or some of them
  TransferIds,
  RequestIds,
  InitialRow,     \* the stock row of each zone, or Null
  Quantities      \* quantities a transfer or a request may name

StockRecords == [quantity : Nat, reserved : Nat]

TransferRecords ==
  [status : {"PENDING", "CONFIRMED", "CANCELLED"}, from : Zones, to : Zones,
   quantity : Quantities, note : RequestIds \union {Null}]

RequestRecords ==
  [status : {"REQUESTED", "APPROVED", "FULFILLED", "REJECTED"},
   transfer : TransferIds \union {Null}, quantity : Quantities]

\* Requests move units from the branch to the kitchen.  A row has one table, a
\* zone starts with nothing reserved, and no row is NULL.
TransferAssumption ==
  /\ IsFiniteSet(Zones) /\ {"BRANCH", "KITCHEN"} \subseteq Zones
  /\ Zones \intersect (TransferIds \union RequestIds) = {}
  /\ TransferIds \intersect RequestIds = {}
  /\ Quantities \subseteq Nat
  /\ InitialRow \in [Zones -> [quantity : Nat, reserved : {0}] \union {Null}]
  /\ Null \notin TransferIds \union RequestIds
  /\ Null \notin StockRecords \union TransferRecords \union RequestRecords

VARIABLES
  debits,         \* how often each transfer was taken from its source
  credits,        \* how often it arrived at its destination
  held,           \* units reserved by orders in each zone
  consumed        \* units taken out by orders in each zone

ghostVars == <<debits, credits, held, consumed>>
transferVars == <<row, call, ghostVars>>

StockRow(q, r) == [quantity |-> q, reserved |-> r]

\* CHECK (reserved >= 0 AND reserved <= quantity) of inventory_items.
StockFits(s) == s.reserved <= s.quantity

HasStock(z, n) == row[z] # Null /\ row[z].quantity >= n

\* The note of a transfer names the request it was created for, if any.
NewTransfer(from, to, n, note) ==
  [status |-> "PENDING", from |-> from, to |-> to, quantity |-> n, note |-> note]

\* Mutant of Pending: a confirmed transfer is accepted as well.
NotCancelled(t) == row[t] # Null /\ row[t].status # "CANCELLED"

Pending(t) == row[t] # Null /\ row[t].status = "PENDING"

----------------------------------------------------------------------------
\* create: the source is read, not locked; reserved units count as available.
CreateTransfer(t, from, to, n) ==
  /\ row[t] = Null
  /\ from # to
  /\ HasStock(from, n)
  /\ row' = [row EXCEPT ![t] = NewTransfer(from, to, n, Null)]
  /\ UNCHANGED <<call, ghostVars>>

\* inventory.create leaves reserved to its default.
Received(z, n) ==
  IF row[z] = Null THEN StockRow(n, 0) ELSE [row[z] EXCEPT !.quantity = @ + n]

Taken(z, n) == [row[z] EXCEPT !.quantity = @ - n]

\* confirmAtomic: transfer, source and destination are locked in turn.
ConfirmAtomic(t) ==
  LET n    == row[t].quantity
      from == row[t].from
      to   == row[t].to
  IN  /\ Pending(t)
      /\ HasStock(from, n)
      /\ StockFits(Taken(from, n))
      /\ row' = [row EXCEPT ![from] = Taken(from, n),
                            ![to] = Received(to, n),
                            ![t].status = "CONFIRMED"]
      /\ debits' = [debits EXCEPT ![t] = @ + 1]
      /\ credits' = [credits EXCEPT ![t] = @ + 1]
      /\ UNCHANGED <<call, held, consumed>>

Begin(p, c) == call[p] = Idle /\ call' = [call EXCEPT ![p] = c]

Cancel(p, t) ==
  /\ Pending(t)
  /\ Begin(p, Saving(NewCall, t, [row[t] EXCEPT !.status = "CANCELLED"], "idle"))
  /\ UNCHANGED <<row, ghostVars>>

----------------------------------------------------------------------------
\* Mutant of ConfirmFind: the transfer is marked before its units move.
ConfirmFindAndMark(p) ==
  LET t == call[p].id
      e == [row[t] EXCEPT !.status = "CONFIRMED"]
      c == [call[p] EXCEPT !.holds.transfer = e]
  IN  /\ call[p].at = "confirm"
      /\ Pending(t)
      /\ call' = [call EXCEPT ![p] = Saving(c, t, e, "source")]
      /\ UNCHANGED <<row, ghostVars>>

\* confirm, called by fulfill.  The transfer is found first, ...
ConfirmFind(p) ==
  LET t == call[p].id IN
  /\ call[p].at = "confirm"
  /\ IF Pending(t)
     THEN call' = [call EXCEPT
            ![p].at = "source",
            ![p].holds.transfer = [row[t] EXCEPT !.status = "CONFIRMED"]]
     ELSE call' = [call EXCEPT ![p] = Idle]
  /\ UNCHANGED <<row, ghostVars>>

\* ... then its source is found and saved, ...
ConfirmSource(p) ==
  LET tr == call[p].holds.transfer IN
  /\ call[p].at = "source"
  /\ IF HasStock(tr.from, tr.quantity)
     THEN call' = [call EXCEPT ![p] =
            Saving(@, tr.from, Taken(tr.from, tr.quantity), "destination")]
     ELSE call' = [call EXCEPT ![p] = Idle]
  /\ UNCHANGED <<row, ghostVars>>

\* ... then its destination, which is created if there is none, ...
ConfirmDestination(p) ==
  LET tr  == call[p].holds.transfer
      new == Received(tr.to, tr.quantity)
      s   == Saving(call[p], tr.to, new, "mark")
  IN  /\ call[p].at = "destination"
      /\ call' = [call EXCEPT ![p] =
           IF row[tr.to] = Null THEN [s EXCEPT !.at = "insert"] ELSE s]
      /\ UNCHANGED <<row, ghostVars>>

\* ... and last the transfer itself.
ConfirmMark(p) ==
  LET h == call[p].holds IN
  /\ call[p].at = "mark"
  /\ call' = [call EXCEPT
       ![p] = Saving(@, h.found.transfer, h.transfer, "fulfilled")]
  /\ UNCHANGED <<row, ghostVars>>

----------------------------------------------------------------------------
CreateRequest(q, n) ==
  /\ row[q] = Null
  /\ row' = [row EXCEPT ![q] =
       [status |-> "REQUESTED", transfer |-> Null, quantity |-> n]]
  /\ UNCHANGED <<call, ghostVars>>

\* approve: the transfer is stored before the request is.
Approve(p, q, t) ==
  /\ row[q] # Null
  /\ row[q].status = "REQUESTED"
  /\ row[t] = Null
  /\ HasStock("BRANCH", row[q].quantity)
  /\ row' = [row EXCEPT
       ![t] = NewTransfer("BRANCH", "KITCHEN", row[q].quantity, q)]
  /\ Begin(p, Saving(NewCall, q,
       [row[q] EXCEPT !.status = "APPROVED", !.transfer = t], "idle"))
  /\ UNCHANGED ghostVars

Reject(p, q) ==
  /\ row[q] # Null
  /\ row[q].status = "REQUESTED"
  /\ Begin(p, Saving(NewCall, q, [row[q] EXCEPT !.status = "REJECTED"], "idle"))
  /\ UNCHANGED <<row, ghostVars>>

Fulfill(p, q) ==
  /\ row[q] # Null
  /\ row[q].status = "APPROVED"
  /\ row[q].transfer # Null
  /\ Begin(p, [NewCall EXCEPT
       !.at = "confirm", !.id = row[q].transfer,
       !.holds = [request |-> q, found |-> row[q], transfer |-> Null]])
  /\ UNCHANGED <<row, ghostVars>>

FulfillRequest(p) ==
  LET h == call[p].holds IN
  /\ call[p].at = "fulfilled"
  /\ call' = [call EXCEPT ![p] =
       Saving(@, h.request, [h.found EXCEPT !.status = "FULFILLED"], "idle")]
  /\ UNCHANGED <<row, ghostVars>>

----------------------------------------------------------------------------
\* What the arrival of a save at its row means for the transfer it is part of.
Moves(p, then, counter) ==
  counter' = IF call[p].then = then /\ call'[p].at = then
             THEN [counter EXCEPT ![call[p].holds.found.transfer] = @ + 1]
             ELSE counter

Save(p) ==
  \/ CompareSave(p) /\ UNCHANGED ghostVars
  \/ /\ \/ UpdateSave(p, call[p].id \in Zones => StockFits(Written(p)))
        \/ InsertSave(p)
     /\ Moves(p, "destination", debits)
     /\ Moves(p, "mark", credits)
     /\ UNCHANGED <<held, consumed>>

\* Orders reserve under the row lock, and take what they reserved.
Reserve(z) ==
  /\ row[z] # Null
  /\ row[z].reserved < row[z].quantity
  /\ row' = [row EXCEPT ![z].reserved = @ + 1]
  /\ held' = [held EXCEPT ![z] = @ + 1]
  /\ UNCHANGED <<call, debits, credits, consumed>>

Consume(z) ==
  /\ held[z] > 0
  /\ row[z] # Null
  /\ row[z].reserved > 0
  /\ row' = [row EXCEPT ![z] = StockRow(@.quantity - 1, @.reserved - 1)]
  /\ held' = [held EXCEPT ![z] = @ - 1]
  /\ consumed' = [consumed EXCEPT ![z] = @ + 1]
  /\ UNCHANGED <<call, debits, credits>>

----------------------------------------------------------------------------
TransferInit ==
  /\ row = [i \in Zones \union TransferIds \union RequestIds |->
              IF i \in Zones THEN InitialRow[i] ELSE Null]
  /\ call = [p \in Calls |-> Idle]
  /\ debits = [t \in TransferIds |-> 0]
  /\ credits = [t \in TransferIds |-> 0]
  /\ held = [z \in Zones |-> 0]
  /\ consumed = [z \in Zones |-> 0]

\* What the API of the transfers does, and the orders beside it.
LockedNext ==
  \/ \E t \in TransferIds, from, to \in Zones, n \in Quantities :
       CreateTransfer(t, from, to, n)
  \/ \E t \in TransferIds : ConfirmAtomic(t)
  \/ \E p \in Calls, t \in TransferIds : Cancel(p, t)
  \/ \E p \in Calls : Save(p)
  \/ \E z \in Zones : Reserve(z) \/ Consume(z)

ConfirmStep(p) ==
  \/ ConfirmFind(p)
  \/ ConfirmSource(p)
  \/ ConfirmDestination(p)
  \/ ConfirmMark(p)
  \/ FulfillRequest(p)

ReplenishNext ==
  \/ \E q \in RequestIds, n \in Quantities : CreateRequest(q, n)
  \/ \E p \in Calls, q \in RequestIds :
       \/ \E t \in TransferIds : Approve(p, q, t)
       \/ Reject(p, q)
       \/ Fulfill(p, q)
  \/ \E p \in Calls :
       \/ ConfirmStep(p)
       \/ Crash(p) /\ UNCHANGED ghostVars

LockedSpec == TransferInit /\ [][LockedNext]_transferVars
TransferSpec == TransferInit /\ [][LockedNext \/ ReplenishNext]_transferVars

----------------------------------------------------------------------------
\* The columns keep their types, and no quantity becomes negative.
TransferTypeOK ==
  /\ \A z \in Zones : row[z] \in StockRecords \union {Null}
  /\ \A t \in TransferIds : row[t] \in TransferRecords \union {Null}
  /\ \A q \in RequestIds : row[q] \in RequestRecords \union {Null}
  /\ \A z \in Zones : row[z] # Null => StockFits(row[z])

Quantity(z) == IF row[z] = Null THEN 0 ELSE row[z].quantity
InitialQuantity(z) == IF InitialRow[z] = Null THEN 0 ELSE InitialRow[z].quantity

\* A confirmation between the save of its source and that of its destination.
InFlight(p) == call[p].at = "destination" \/
               (call[p] # Idle /\ call[p].then = "mark" /\ call[p].at # "mark")

\* A confirmation debits the source and credits the destination: when none is
\* on its way, the zones hold together with what the orders took as many
\* units as at first.
UnitsKept ==
  (\A p \in Calls : ~InFlight(p)) =>
  Total([z \in Zones |-> Quantity(z) + consumed[z]])
    = Total([z \in Zones |-> InitialQuantity(z)])

\* A confirmation leaves the units that orders reserved where they are.
ReservedIsHeldInZone ==
  \A z \in Zones : held[z] = IF row[z] = Null THEN 0 ELSE row[z].reserved

\* Whatever confirmations, cancellations and repeated calls race, a transfer
\* leaves its source at most once, and arrives exactly when it leaves.
MovedOnce ==
  \A t \in TransferIds : debits[t] \in {0, 1} /\ credits[t] = debits[t]

\* A transfer shows as confirmed only once its units arrived.
ConfirmedWasMoved ==
  \A t \in TransferIds :
    row[t] # Null /\ row[t].status = "CONFIRMED" => credits[t] >= 1

\* A kitchen request shows as fulfilled only once units arrived for it.
FulfilledWasSupplied ==
  \A q \in RequestIds :
    row[q] # Null /\ row[q].status = "FULFILLED" =>
      \E t \in TransferIds : row[t] # Null /\ row[t].note = q /\ credits[t] >= 1

\* Only PENDING transfers are cancelled: a cancelled transfer moved nothing.
\* The code does not keep this (README, section 5).
CancelledMovedNothing ==
  \A t \in TransferIds :
    row[t] # Null /\ row[t].status = "CANCELLED" => debits[t] = 0

\* Only a REQUESTED request is approved: it gets one transfer.
\* The code does not keep this (README, section 5).
OneTransferPerRequest ==
  \A q \in RequestIds :
    Cardinality({t \in TransferIds : row[t] # Null /\ row[t].note = q}) <= 1

=============================================================================
