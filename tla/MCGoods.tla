------------------------------ MODULE MCGoods ------------------------------
(***************************************************************************)
(* Small instances of the services around the branches and their rooms:    *)
(* transfers and replenishments, purchase orders, VIP self-service,        *)
(* cleaning and meetings.  None of them reads a row of another, so TLC     *)
(* explores each by itself: "service" names the one that moves, the rest   *)
(* stay as they started.  A service whose name ends in "alone" handles one *)
(* call at a time; what only holds then is what its locks do not ensure.   *)
(***************************************************************************)
EXTENDS Naturals, FiniteSets, TLC

CONSTANTS
  Services,   \* those to explore
  Null, Calls, one, Agents,
  Zones, Ids, Amounts, InitialRow,                     \* transfers
  KitchenZones, Refills, Requests, Asked, KitchenRow,  \* replenishments
  Orders, MaxOrdered,                                  \* purchases
  Items, Tasks, MaxQuantity, MaxPut, InitialStock, Reserved,  \* self-service
  Cleanings,                                           \* cleaning
  Bookings, LastHour,                                  \* bookings
  Prepared, Checklist, LastPrepared                    \* meetings

VARIABLES
  service,
  transferRow, transferCall, debits, credits, held, consumed,
  orderRow, orderCall, submitted, refused,
  vipRow, vipCall, stock, put,
  cleanRow, cleanCall,
  roomRow, roomCall, team

transferVars == <<transferRow, transferCall, debits, credits, held, consumed>>
orderVars == <<orderRow, orderCall, submitted, refused>>
vipVars == <<vipRow, vipCall, stock, put>>
cleanVars == <<cleanRow, cleanCall>>
roomVars == <<roomRow, roomCall, team>>
vars == <<service, transferVars, orderVars, vipVars, cleanVars, roomVars>>

\* One call at a time.
Alone(call) == \A p, q \in Calls : p = q \/ call[p].at = "idle" \/ call[q].at = "idle"

BranchHolds(zones, n) ==
  [z \in zones |-> IF z = "BRANCH" THEN [quantity |-> n, reserved |-> 0] ELSE Null]

\* Two units in the branch; one, for the kitchen.
TwoInBranch == BranchHolds(Zones, 2)
OneInBranch == BranchHolds(KitchenZones, 1)

\* Three units in the kitchen, one of them reserved, and two in the branch.
StockAtFirst == [z \in {"KITCHEN", "BRANCH"} |-> IF z = "KITCHEN" THEN 3 ELSE 2]
ReservedAtFirst == [z \in {"KITCHEN", "BRANCH"} |-> IF z = "KITCHEN" THEN 1 ELSE 0]

Transfer ==
  INSTANCE Transfers WITH row <- transferRow, call <- transferCall,
    TransferIds <- Ids, RequestIds <- {}, Quantities <- Amounts

Replenishment ==
  INSTANCE Transfers WITH row <- transferRow, call <- transferCall,
    Zones <- KitchenZones, TransferIds <- Refills, RequestIds <- Requests,
    Quantities <- Asked, InitialRow <- KitchenRow

Purchase ==
  INSTANCE Procurement WITH row <- orderRow, call <- orderCall,
    Calls <- {one}, OrderIds <- Orders

SelfService ==
  INSTANCE VipSelfService WITH row <- vipRow, call <- vipCall,
    Calls <- {one}, TaskIds <- Tasks

Clean == INSTANCE Cleaning WITH row <- cleanRow, call <- cleanCall, CleaningTasks <- Cleanings

CleaningsOf(bookings) == {<<"cleaning", b>> : b \in bookings}

\* Bookings alone.
Booking ==
  INSTANCE Meetings WITH row <- roomRow, call <- roomCall,
    CleaningTasks <- CleaningsOf(Bookings), Agents <- {one}

\* Bookings with their preparations.
Meeting ==
  INSTANCE Meetings WITH row <- roomRow, call <- roomCall, Bookings <- Prepared,
    CleaningTasks <- CleaningsOf(Prepared), Agents <- {one}, LastHour <- LastPrepared

ASSUME TransfersAssumption ==
  Transfer!TransferAssumption /\ Replenishment!TransferAssumption

ASSUME PurchasesAssumption == Purchase!ProcurementAssumption

ASSUME PlacesAssumption == SelfService!VipAssumption

ASSUME RoomsAssumption ==
  Clean!CleaningAssumption /\ Booking!MeetingAssumption /\ Meeting!MeetingAssumption

----------------------------------------------------------------------------
Init ==
  /\ service \in Services
  /\ IF service = "replenishments" THEN Replenishment!TransferInit ELSE Transfer!TransferInit
  /\ Purchase!ProcurementInit
  /\ SelfService!VipInit
  /\ Clean!CleaningInit
  /\ IF service = "bookings" THEN Booking!MeetingInit ELSE Meeting!MeetingInit

TransferNext ==
  /\ \/ service = "transfers" /\ Transfer!LockedNext
     \/ service = "replenishments" /\ (Replenishment!LockedNext \/ Replenishment!ReplenishNext)
  /\ UNCHANGED <<service, orderVars, vipVars, cleanVars, roomVars>>

PurchaseNext ==
  /\ service = "purchases alone" /\ Purchase!ProcurementNext
  /\ UNCHANGED <<service, transferVars, vipVars, cleanVars, roomVars>>

SelfServiceNext ==
  /\ \/ service = "self-service alone" /\ SelfService!VipNext
     \/ service = "self-service and faults alone" /\ (SelfService!VipNext \/ SelfService!FaultNext)
  /\ UNCHANGED <<service, transferVars, orderVars, cleanVars, roomVars>>

CleaningNext ==
  /\ service = "cleaning" /\ Clean!CleaningNext
  /\ UNCHANGED <<service, transferVars, orderVars, vipVars, roomVars>>

MeetingNext ==
  /\ \/ service = "bookings" /\ (Booking!BookingNext \/ Booking!MeetingCrash)
     \/ /\ service \in {"meetings", "meetings alone"}
        /\ Meeting!BookingNext \/ Meeting!PreparationNext \/ Meeting!MeetingCrash
        /\ service = "meetings alone" => Alone(roomCall')
  /\ UNCHANGED <<service, transferVars, orderVars, vipVars, cleanVars>>

Next == TransferNext \/ PurchaseNext \/ SelfServiceNext \/ CleaningNext \/ MeetingNext

Spec == Init /\ [][Next]_vars

----------------------------------------------------------------------------
\* confirmAtomic moves each transfer at most once, makes and loses no unit, and
\* leaves what orders reserved, with cancellations that race and orders that
\* reserve the same items.
TransfersKeepUnits ==
  service = "transfers" =>
    /\ Transfer!TransferTypeOK
    /\ Transfer!UnitsKept
    /\ Transfer!ReservedIsHeldInZone
    /\ Transfer!MovedOnce

\* With crashes and the unlocked confirmation of a fulfilment: a transfer shows
\* as confirmed, and a request as fulfilled, only once the units arrived.
StatusFollowsUnits ==
  service = "replenishments" =>
    Replenishment!ConfirmedWasMoved /\ Replenishment!FulfilledWasSupplied

\* One call at a time and with crashes, a purchase order that was validated has
\* the lines its last submission asked for, although an edit of the draft deletes
\* the lines before it saves the new ones.
ValidationsStand ==
  /\ Purchase!ProcurementTypeOK
  /\ Purchase!ValidatedAsSubmitted

\* One call at a time, a VIP place has one open task per product and the zones
\* keep what orders reserved, although processes stop and products are removed;
\* while they do not, the place gets all that is taken from the zones for it.
PlacesAreSupplied ==
  /\ SelfService!VipTypeOK
  /\ SelfService!OneOpenTask
  /\ service = "self-service alone" => SelfService!TakenIsPut

\* The room is never booked twice for the same hour, a preparation is completed
\* only with a cleaning task and a cleaning task is started only by its agent,
\* whatever calls race; one call at a time, a room is ready only with every
\* mark of the checklist.
RoomsAreReady ==
  /\ service = "bookings" => Booking!NoDoubleBooking
  /\ service \in {"meetings", "meetings alone"} => Meeting!CompletedLeavesCleaning
  /\ service = "meetings alone" => Meeting!ReadyWasChecked
  /\ Clean!StartedHasAgent

Interchangeable == Permutations(Calls) \union Permutations(Ids) \union Permutations(Agents)
=============================================================================
