---------------------------- MODULE Goods_proofs ----------------------------
(***************************************************************************)
(* Proofs about the services around the branches and their rooms.  They    *)
(* are stated in the names of MCGoods, for all values of its constants.    *)
(***************************************************************************)
EXTENDS MCGoods, Units_proofs

(***************************************************************************)
(* Transfers.  Beside confirmAtomic the only saves are those of            *)
(* cancellations, which hold the row they found with another status.       *)
(***************************************************************************)
TransferPlaces == {"idle", "compare", "update", "insert"}

CancelRecords ==
  [at : {"compare", "update"}, id : Ids, entity : Transfer!TransferRecords,
   columns : SUBSET {"status"}, then : {"idle"}, holds : {Null}]

TransferShape ==
  /\ transferRow \in [Zones \union Ids -> Transfer!StockRecords \union Transfer!TransferRecords \union {Null}]
  /\ transferCall \in [Calls -> CancelRecords \union {Transfer!Idle}]
  /\ debits \in [Ids -> Nat] /\ credits \in [Ids -> Nat]
  /\ held \in [Zones -> Nat] /\ consumed \in [Zones -> Nat]
  /\ Transfer!TransferTypeOK

\* A cancellation changes nothing but the status of a transfer.
ChangesStatusOf(e, t) ==
  /\ t # Null
  /\ e.status = "CANCELLED"
  /\ e.from = t.from /\ e.to = t.to /\ e.quantity = t.quantity /\ e.note = t.note

CancelsItsTransfer ==
  \A p \in Calls : transferCall[p] # Transfer!Idle =>
    ChangesStatusOf(transferCall[p].entity, transferRow[transferCall[p].id])

\* A transfer that may still be confirmed was not moved.
PendingIsUnmoved ==
  \A t \in Ids :
    /\ transferRow[t] # Null => transferRow[t].from # transferRow[t].to
    /\ transferRow[t] = Null \/ transferRow[t].status = "PENDING" => debits[t] = 0

InZones == [z \in Zones |-> Transfer!Quantity(z) + consumed[z]]
InZonesAtFirst == [z \in Zones |-> Transfer!InitialQuantity(z)]

TransferInv ==
  /\ TransferShape
  /\ CancelsItsTransfer
  /\ PendingIsUnmoved
  /\ Transfer!MovedOnce
  /\ Transfer!ReservedIsHeldInZone
  /\ Total(InZones) = Total(InZonesAtFirst)

LEMMA TransferUnits == \A f : Transfer!Total(f) = Total(f)
BY DEF Transfer!Total, Transfer!Units, Transfer!Cardinality, Total, Units, Cardinality

LEMMA ZonesAreFinite == IsFiniteSet(Zones)
BY TransfersAssumption DEF Transfer!TransferAssumption, Transfer!IsFiniteSet, IsFiniteSet

LEMMA TransferStarts == Transfer!TransferInit => TransferInv
<1> SUFFICES ASSUME Transfer!TransferInit PROVE TransferInv
  OBVIOUS
<1> USE TransfersAssumption DEF Transfer!TransferAssumption
<1>1. /\ \A z \in Zones : transferRow[z] = InitialRow[z]
      /\ \A t \in Ids : transferRow[t] = Null
      /\ transferRow \in [Zones \union Ids -> Transfer!StockRecords \union Transfer!TransferRecords \union {Null}]
  BY DEF Transfer!TransferInit, Transfer!StockRecords
<1>2. Transfer!TransferTypeOK
  BY <1>1 DEF Transfer!TransferTypeOK, Transfer!StockRecords, Transfer!StockFits
<1>3. TransferShape
  BY <1>1, <1>2 DEF Transfer!TransferInit, TransferShape
<1>4. InZones = InZonesAtFirst
  BY <1>1 DEF Transfer!TransferInit, InZones, InZonesAtFirst, Transfer!Quantity, Transfer!InitialQuantity
<1>5. Transfer!ReservedIsHeldInZone
  BY <1>1 DEF Transfer!TransferInit, Transfer!ReservedIsHeldInZone
<1> QED
  BY <1>1, <1>3, <1>4, <1>5
  DEF TransferInv, CancelsItsTransfer, PendingIsUnmoved, Transfer!TransferInit, Transfer!MovedOnce

LEMMA InZonesIsNat == TransferInv => InZones \in [Zones -> Nat]
BY TransfersAssumption
DEF TransferInv, TransferShape, InZones, Transfer!Quantity, Transfer!TransferTypeOK,
    Transfer!StockRecords, Transfer!TransferAssumption

\* What only touches the stock rows leaves the cancellations alone.
LEMMA CreateKeeps ==
  ASSUME TransferInv, NEW t \in Ids, NEW from \in Zones, NEW to \in Zones,
         NEW n \in Amounts, Transfer!CreateTransfer(t, from, to, n)
  PROVE  TransferInv'
<1> USE TransfersAssumption DEF Transfer!TransferAssumption
<1> DEFINE new == Transfer!NewTransfer(from, to, n, Null)
<1>1. /\ new \in Transfer!TransferRecords /\ new.status = "PENDING"
      /\ new.from = from /\ new.to = to
  BY DEF Transfer!NewTransfer, Transfer!TransferRecords
<1>2. /\ transferRow' = [transferRow EXCEPT ![t] = new] /\ transferRow[t] = Null /\ from # to
      /\ UNCHANGED <<transferCall, debits, credits, held, consumed>>
  BY DEF Transfer!CreateTransfer, Transfer!ghostVars
<1> HIDE DEF new
<1>3. \A z \in Zones : transferRow'[z] = transferRow[z]
  BY <1>2 DEF TransferInv, TransferShape
<1>4. TransferShape'
  BY <1>1, <1>2, <1>3 DEF TransferInv, TransferShape, Transfer!TransferTypeOK
<1>5. InZones' = InZones /\ Transfer!ReservedIsHeldInZone'
  BY <1>2, <1>3 DEF InZones, Transfer!Quantity, Transfer!ReservedIsHeldInZone, TransferInv
<1>6. CancelsItsTransfer' /\ PendingIsUnmoved'
  BY <1>1, <1>2 DEF TransferInv, TransferShape, CancelsItsTransfer, ChangesStatusOf, PendingIsUnmoved, CancelRecords
<1> QED
  BY <1>2, <1>4, <1>5, <1>6 DEF TransferInv, Transfer!MovedOnce, InZonesAtFirst

LEMMA ConfirmKeeps ==
  ASSUME TransferInv, NEW t \in Ids, Transfer!ConfirmAtomic(t)
  PROVE  TransferInv'
<1> USE TransfersAssumption DEF Transfer!TransferAssumption
<1>0. /\ transferRow[t] \in Transfer!TransferRecords /\ transferRow[t].status = "PENDING"
      /\ transferRow[t].from # transferRow[t].to
  BY DEF Transfer!ConfirmAtomic, Transfer!Pending, TransferInv, PendingIsUnmoved,
         TransferShape, Transfer!TransferTypeOK
<1>1. PICK n \in Nat, from \in Zones, to \in Zones :
        /\ transferRow[t].quantity = n /\ transferRow[t].from = from /\ transferRow[t].to = to
        /\ from # to
  BY <1>0 DEF Transfer!TransferRecords
<1>2. /\ transferRow' = [transferRow EXCEPT ![from] = Transfer!Taken(from, n),
                                            ![to] = Transfer!Received(to, n),
                                            ![t].status = "CONFIRMED"]
      /\ debits' = [debits EXCEPT ![t] = @ + 1]
      /\ credits' = [credits EXCEPT ![t] = @ + 1]
      /\ UNCHANGED <<transferCall, held, consumed>>
      /\ Transfer!HasStock(from, n) /\ Transfer!StockFits(Transfer!Taken(from, n))
  BY <1>1 DEF Transfer!ConfirmAtomic
<1>3. /\ transferRow'[from] = Transfer!Taken(from, n)
      /\ transferRow'[to] = Transfer!Received(to, n)
      /\ \A z \in Zones \ {from, to} : transferRow'[z] = transferRow[z]
      /\ \A u \in Ids \ {t} : transferRow'[u] = transferRow[u]
      /\ transferRow'[t] = [transferRow[t] EXCEPT !.status = "CONFIRMED"]
  BY <1>0, <1>1, <1>2 DEF TransferInv, TransferShape
<1>4. /\ transferRow[from] \in Transfer!StockRecords
      /\ transferRow[from].quantity >= n
      /\ Transfer!Taken(from, n) \in Transfer!StockRecords
      /\ Transfer!Taken(from, n).quantity = transferRow[from].quantity - n
      /\ Transfer!Taken(from, n).reserved = transferRow[from].reserved
  BY <1>0, <1>1, <1>2
  DEF TransferInv, TransferShape, Transfer!TransferTypeOK, Transfer!HasStock,
      Transfer!Taken, Transfer!StockRecords
<1>5. /\ Transfer!Received(to, n) \in Transfer!StockRecords
      /\ Transfer!Received(to, n).quantity = Transfer!Quantity(to) + n
      /\ Transfer!StockFits(Transfer!Received(to, n))
      /\ Transfer!Received(to, n).reserved
           = IF transferRow[to] = Null THEN 0 ELSE transferRow[to].reserved
  BY <1>0, <1>1
  DEF TransferInv, TransferShape, Transfer!TransferTypeOK, Transfer!Received,
      Transfer!StockRow, Transfer!StockRecords, Transfer!StockFits, Transfer!Quantity
<1>6. TransferShape'
  <2>1. transferRow'[t] \in Transfer!TransferRecords
    BY <1>0, <1>1, <1>3 DEF Transfer!TransferRecords
  <2>2. Transfer!TransferTypeOK'
    BY <1>2, <1>3, <1>4, <1>5, <2>1 DEF Transfer!TransferTypeOK, TransferInv, TransferShape
  <2>3. transferRow' \in [Zones \union Ids -> Transfer!StockRecords \union Transfer!TransferRecords \union {Null}]
    <3>1. DOMAIN transferRow' = Zones \union Ids /\ transferRow' = [k \in Zones \union Ids |-> transferRow'[k]]
      BY <1>0, <1>1, <1>2 DEF TransferInv, TransferShape
    <3>2. \A k \in Zones \union Ids : transferRow'[k] \in Transfer!StockRecords \union Transfer!TransferRecords \union {Null}
      BY <1>3, <1>4, <1>5, <2>1 DEF TransferInv, TransferShape
    <3> QED
      BY <3>1, <3>2
  <2> QED
    BY <1>2, <2>2, <2>3 DEF TransferShape, TransferInv
<1>7. Transfer!ReservedIsHeldInZone'
  <2>1. /\ transferRow'[from] # Null /\ transferRow'[to] # Null /\ transferRow[from] # Null
    BY <1>3, <1>4, <1>5
  <2>2. held' = held /\ \A z \in Zones : held[z] = IF transferRow[z] = Null THEN 0 ELSE transferRow[z].reserved
    BY <1>2 DEF Transfer!ReservedIsHeldInZone, TransferInv
  <2>3. \A z \in Zones : held'[z] = IF transferRow'[z] = Null THEN 0 ELSE transferRow'[z].reserved
    BY <1>1, <1>3, <1>4, <1>5, <2>1, <2>2
  <2> QED
    BY <2>3 DEF Transfer!ReservedIsHeldInZone
<1>8. Total(InZones') = Total(InZones)
  <2>1. InZones \in [Zones -> Nat]
    BY InZonesIsNat
  <2>2. /\ InZones'[from] = InZones[from] - n
        /\ InZones'[to] = InZones[to] + n
        /\ \A z \in Zones \ {from, to} : InZones'[z] = InZones[z]
    <3>1. /\ Transfer!Quantity(from) = transferRow[from].quantity
          /\ Transfer!Quantity(from)' = transferRow[from].quantity - n
          /\ Transfer!Quantity(from) \in Nat
      BY <1>3, <1>4 DEF Transfer!Quantity, Transfer!StockRecords
    <3>2. Transfer!Quantity(to)' = Transfer!Quantity(to) + n /\ Transfer!Quantity(to) \in Nat
      BY <1>0, <1>1, <1>3, <1>5
      DEF Transfer!Quantity, Transfer!StockRecords, TransferInv, TransferShape, Transfer!TransferTypeOK
    <3>3. \A z \in Zones \ {from, to} : Transfer!Quantity(z)' = Transfer!Quantity(z)
      BY <1>3 DEF Transfer!Quantity
    <3> QED
      BY <1>0, <1>1, <1>2, <3>1, <3>2, <3>3 DEF InZones, TransferInv, TransferShape
  <2>3. InZones' \in [Zones -> Nat]
    BY <1>2, <1>6
    DEF TransferShape, InZones, Transfer!Quantity, Transfer!TransferTypeOK, Transfer!StockRecords
  <2> QED
    BY <1>0, <1>1, <2>1, <2>2, <2>3, TotalMove, ZonesAreFinite
<1>9. CancelsItsTransfer' /\ PendingIsUnmoved'
  <2>1. \A u \in Ids : u # t => debits'[u] = debits[u]
    BY <1>2 DEF TransferInv, TransferShape
  <2>2. /\ transferRow'[t] # Null /\ transferRow'[t].status = "CONFIRMED"
        /\ transferRow'[t].from = transferRow[t].from /\ transferRow'[t].to = transferRow[t].to
        /\ transferRow'[t].quantity = transferRow[t].quantity /\ transferRow'[t].note = transferRow[t].note
    BY <1>0, <1>1, <1>3 DEF Transfer!TransferRecords
  <2> QED
    BY <1>0, <1>1, <1>2, <1>3, <2>1, <2>2
    DEF TransferInv, TransferShape, CancelsItsTransfer, ChangesStatusOf, PendingIsUnmoved, CancelRecords
<1>10. Transfer!MovedOnce'
  BY <1>0, <1>1, <1>2 DEF Transfer!MovedOnce, TransferInv, TransferShape, PendingIsUnmoved
<1> QED
  BY <1>6, <1>7, <1>8, <1>9, <1>10 DEF TransferInv, InZonesAtFirst

LEMMA CancelKeeps ==
  ASSUME TransferInv, NEW p \in Calls, NEW t \in Ids, Transfer!Cancel(p, t)
  PROVE  TransferInv'
<1> USE TransfersAssumption DEF Transfer!TransferAssumption
<1> DEFINE e == [transferRow[t] EXCEPT !.status = "CANCELLED"]
           c == Transfer!Saving(Transfer!NewCall, t, e, "idle")
<1>1. /\ transferRow[t] # Null
      /\ transferCall' = [transferCall EXCEPT ![p] = c]
      /\ UNCHANGED <<transferRow, debits, credits, held, consumed>>
  BY DEF Transfer!Cancel, Transfer!Pending, Transfer!Begin, Transfer!ghostVars
<1>2. /\ e \in Transfer!TransferRecords /\ e.status = "CANCELLED"
      /\ e.from = transferRow[t].from /\ e.to = transferRow[t].to
      /\ e.quantity = transferRow[t].quantity /\ e.note = transferRow[t].note
  BY <1>1 DEF TransferInv, TransferShape, Transfer!TransferTypeOK, Transfer!TransferRecords
<1> HIDE DEF e
<1>3. c \in CancelRecords /\ c.id = t /\ c.entity = e
  BY <1>2 DEF CancelRecords, Transfer!Saving, Transfer!NewCall
<1> HIDE DEF c
<1>4. TransferShape'
  BY <1>1, <1>3 DEF TransferInv, TransferShape, Transfer!TransferTypeOK
<1>5. CancelsItsTransfer'
  BY <1>1, <1>2, <1>3 DEF TransferInv, TransferShape, CancelsItsTransfer, ChangesStatusOf
<1> QED
  BY <1>1, <1>4, <1>5
  DEF TransferInv, PendingIsUnmoved, Transfer!MovedOnce, Transfer!ReservedIsHeldInZone,
      InZones, InZonesAtFirst, Transfer!Quantity

LEMMA SaveKeeps ==
  ASSUME TransferInv, NEW p \in Calls, Transfer!Save(p)
  PROVE  TransferInv'
<1> USE TransfersAssumption DEF Transfer!TransferAssumption
<1>0. PICK c, t : c = transferCall[p] /\ t = c.id
  OBVIOUS
<1>1. c \in CancelRecords /\ c.at \in {"compare", "update"} /\ c.then = "idle" /\ t \in Ids
  BY <1>0 DEF TransferInv, TransferShape, CancelRecords, Transfer!Save, Transfer!CompareSave,
         Transfer!UpdateSave, Transfer!InsertSave, Transfer!Idle
<1>2. /\ transferRow[t] \in Transfer!TransferRecords
      /\ c.entity \in Transfer!TransferRecords
      /\ ChangesStatusOf(c.entity, transferRow[t])
      /\ c # Transfer!Idle
  BY <1>0, <1>1 DEF TransferInv, TransferShape, CancelsItsTransfer, CancelRecords,
              Transfer!TransferTypeOK, Transfer!Idle, ChangesStatusOf
<1>3. CASE Transfer!CompareSave(p) /\ UNCHANGED Transfer!ghostVars
  <2>1. /\ transferCall' = [transferCall EXCEPT
             ![p].at = "update", ![p].columns = Transfer!Differing(c.entity, transferRow[t])]
        /\ UNCHANGED <<transferRow, debits, credits, held, consumed>>
    BY <1>0, <1>2, <1>3 DEF Transfer!CompareSave, Transfer!ghostVars, ChangesStatusOf
  <2>2. Transfer!Differing(c.entity, transferRow[t]) \subseteq {"status"}
    BY <1>2 DEF Transfer!Differing, Transfer!TransferRecords, ChangesStatusOf
  <2>3. /\ transferCall'[p] \in CancelRecords
        /\ transferCall'[p].id = t /\ transferCall'[p].entity = c.entity
    BY <1>0, <1>1, <2>1, <2>2 DEF TransferInv, TransferShape, CancelRecords
  <2>4. \A q \in Calls \ {p} : transferCall'[q] = transferCall[q]
    BY <2>1 DEF TransferInv, TransferShape
  <2>5. transferCall' \in [Calls -> CancelRecords \union {Transfer!Idle}]
    BY <2>1, <2>3, <2>4 DEF TransferInv, TransferShape
  <2>6. TransferShape'
    BY <2>1, <2>5 DEF TransferInv, TransferShape, Transfer!TransferTypeOK
  <2>7. CancelsItsTransfer'
    <3> SUFFICES ASSUME NEW q \in Calls, transferCall'[q] # Transfer!Idle
                 PROVE  ChangesStatusOf(transferCall'[q].entity, transferRow'[transferCall'[q].id])
      BY DEF CancelsItsTransfer, ChangesStatusOf, Transfer!Idle
    <3>1. CASE q = p
      BY <1>2, <2>1, <2>3, <3>1
    <3>2. CASE q # p
      BY <2>1, <2>4, <3>2 DEF TransferInv, CancelsItsTransfer
    <3> QED
      BY <3>1, <3>2
  <2> QED
    BY <2>1, <2>6, <2>7
    DEF TransferInv, PendingIsUnmoved, Transfer!MovedOnce, Transfer!ReservedIsHeldInZone,
        InZones, InZonesAtFirst, Transfer!Quantity
<1>4. CASE /\ Transfer!UpdateSave(p, t \in Zones => Transfer!StockFits(Transfer!Written(p)))
           /\ Transfer!Moves(p, "destination", debits)
           /\ Transfer!Moves(p, "mark", credits)
           /\ UNCHANGED <<held, consumed>>
  <2> DEFINE w == Transfer!Written(p)
  <2>1. /\ w \in Transfer!TransferRecords
        /\ w.status \in {transferRow[t].status, "CANCELLED"}
        /\ w.from = transferRow[t].from /\ w.to = transferRow[t].to
        /\ w.quantity = transferRow[t].quantity /\ w.note = transferRow[t].note
    <3>1. c.columns \in SUBSET {"status"}
      BY <1>1 DEF CancelRecords
    <3> QED
      BY <1>0, <1>2, <3>1
      DEF Transfer!Written, Transfer!Updated, Transfer!TransferRecords, ChangesStatusOf
  <2>2. w # Null
    BY <2>1
  <2> HIDE DEF w
  <2>3. /\ transferRow' = [transferRow EXCEPT ![t] = w]
        /\ transferCall' = [transferCall EXCEPT ![p] = Transfer!Idle]
        /\ UNCHANGED <<debits, credits, held, consumed>>
    BY <1>0, <1>1, <1>4
    DEF Transfer!UpdateSave, Transfer!GoesTo, Transfer!Moves, w
  <2>4. \A z \in Zones : transferRow'[z] = transferRow[z]
    BY <1>1, <2>3 DEF TransferInv, TransferShape
  <2>5. TransferShape'
    BY <1>1, <2>1, <2>3, <2>4 DEF TransferInv, TransferShape, Transfer!TransferTypeOK
  <2>6. InZones' = InZones /\ Transfer!ReservedIsHeldInZone'
    BY <2>3, <2>4 DEF InZones, Transfer!Quantity, Transfer!ReservedIsHeldInZone, TransferInv
  <2>7. \A u \in Ids : /\ u # t => transferRow'[u] = transferRow[u]
                       /\ transferRow'[t] = w
    BY <1>1, <2>3 DEF TransferInv, TransferShape
  <2>8. CancelsItsTransfer'
    <3> SUFFICES ASSUME NEW q \in Calls, transferCall'[q] # Transfer!Idle
                 PROVE  ChangesStatusOf(transferCall'[q].entity, transferRow'[transferCall'[q].id])
      BY DEF CancelsItsTransfer, ChangesStatusOf, Transfer!Idle
    <3>1. q # p /\ transferCall'[q] = transferCall[q]
      BY <2>3 DEF TransferInv, TransferShape
    <3>2. transferCall[q].id \in Ids /\ ChangesStatusOf(transferCall[q].entity, transferRow[transferCall[q].id])
      BY <3>1 DEF TransferInv, TransferShape, CancelsItsTransfer, CancelRecords
    <3> QED
      BY <2>1, <2>2, <2>7, <3>1, <3>2 DEF ChangesStatusOf
  <2>9. PendingIsUnmoved'
    BY <1>2, <2>1, <2>2, <2>3, <2>7 DEF TransferInv, PendingIsUnmoved, ChangesStatusOf
  <2> QED
    BY <2>3, <2>5, <2>6, <2>8, <2>9 DEF TransferInv, Transfer!MovedOnce, InZonesAtFirst
<1> QED
  BY <1>0, <1>1, <1>3, <1>4 DEF Transfer!Save, Transfer!InsertSave

LEMMA ReserveKeeps ==
  ASSUME TransferInv, NEW z \in Zones, Transfer!Reserve(z)
  PROVE  TransferInv'
<1> USE TransfersAssumption DEF Transfer!TransferAssumption
<1> DEFINE s == [transferRow[z] EXCEPT !.reserved = @ + 1]
<1>1. /\ transferRow[z] # Null /\ transferRow[z].reserved < transferRow[z].quantity
      /\ transferRow' = [transferRow EXCEPT ![z] = s]
      /\ held' = [held EXCEPT ![z] = @ + 1]
      /\ UNCHANGED <<transferCall, debits, credits, consumed>>
  BY DEF Transfer!Reserve
<1>2. /\ s \in Transfer!StockRecords /\ Transfer!StockFits(s)
      /\ s.quantity = transferRow[z].quantity /\ s.reserved = transferRow[z].reserved + 1
      /\ s # Null
  BY <1>1
  DEF TransferInv, TransferShape, Transfer!TransferTypeOK, Transfer!StockRecords, Transfer!StockFits
<1> HIDE DEF s
<1>3. \A t \in Ids : transferRow'[t] = transferRow[t]
  BY <1>1 DEF TransferInv, TransferShape
<1>4. TransferShape'
  BY <1>1, <1>2, <1>3 DEF TransferInv, TransferShape, Transfer!TransferTypeOK
<1>5. InZones' = InZones
  BY <1>1, <1>2 DEF TransferInv, TransferShape, InZones, Transfer!Quantity
<1>6. Transfer!ReservedIsHeldInZone'
  BY <1>1, <1>2 DEF TransferInv, TransferShape, Transfer!ReservedIsHeldInZone
<1>7. CancelsItsTransfer' /\ PendingIsUnmoved'
  BY <1>1, <1>3 DEF TransferInv, TransferShape, CancelsItsTransfer, ChangesStatusOf, PendingIsUnmoved, CancelRecords
<1> QED
  BY <1>1, <1>4, <1>5, <1>6, <1>7 DEF TransferInv, Transfer!MovedOnce, InZonesAtFirst

LEMMA ConsumeKeeps ==
  ASSUME TransferInv, NEW z \in Zones, Transfer!Consume(z)
  PROVE  TransferInv'
<1> USE TransfersAssumption DEF Transfer!TransferAssumption
<1> DEFINE s == Transfer!StockRow(transferRow[z].quantity - 1, transferRow[z].reserved - 1)
<1>1. /\ transferRow[z] # Null /\ transferRow[z].reserved > 0
      /\ transferRow' = [transferRow EXCEPT ![z] = s]
      /\ held' = [held EXCEPT ![z] = @ - 1]
      /\ consumed' = [consumed EXCEPT ![z] = @ + 1]
      /\ held[z] = transferRow[z].reserved
      /\ UNCHANGED <<transferCall, debits, credits>>
  BY DEF Transfer!Consume, TransferInv, TransferShape, Transfer!ReservedIsHeldInZone
<1>2. /\ s \in Transfer!StockRecords /\ Transfer!StockFits(s)
      /\ s.quantity + 1 = transferRow[z].quantity /\ s.reserved = transferRow[z].reserved - 1
      /\ s # Null
  BY <1>1
  DEF TransferInv, TransferShape, Transfer!TransferTypeOK, Transfer!StockRecords,
      Transfer!StockFits, Transfer!StockRow
<1> HIDE DEF s
<1>3. \A t \in Ids : transferRow'[t] = transferRow[t]
  BY <1>1 DEF TransferInv, TransferShape
<1>4. TransferShape'
  <2>1. /\ held' \in [Zones -> Nat] /\ consumed' \in [Zones -> Nat]
    BY <1>1 DEF TransferInv, TransferShape
  <2> QED
    BY <1>1, <1>2, <1>3, <2>1 DEF TransferInv, TransferShape, Transfer!TransferTypeOK
<1>5. InZones' = InZones
  <2>1. /\ consumed'[z] = consumed[z] + 1 /\ consumed[z] \in Nat
        /\ \A y \in Zones \ {z} : consumed'[y] = consumed[y] /\ transferRow'[y] = transferRow[y]
        /\ transferRow'[z] = s /\ transferRow[z].quantity \in Nat /\ s.quantity \in Nat
    BY <1>1, <1>2
    DEF TransferInv, TransferShape, Transfer!TransferTypeOK, Transfer!StockRecords
  <2>2. \A y \in Zones : Transfer!Quantity(y)' + consumed'[y] = Transfer!Quantity(y) + consumed[y]
    BY <1>1, <1>2, <2>1 DEF Transfer!Quantity
  <2> QED
    BY <2>2 DEF InZones
<1>6. Transfer!ReservedIsHeldInZone'
  BY <1>1, <1>2 DEF TransferInv, TransferShape, Transfer!ReservedIsHeldInZone
<1>7. CancelsItsTransfer' /\ PendingIsUnmoved'
  BY <1>1, <1>3 DEF TransferInv, TransferShape, CancelsItsTransfer, ChangesStatusOf, PendingIsUnmoved, CancelRecords
<1> QED
  BY <1>1, <1>4, <1>5, <1>6, <1>7 DEF TransferInv, Transfer!MovedOnce, InZonesAtFirst

LEMMA TransferStep ==
  TransferInv /\ [Transfer!LockedNext]_Transfer!transferVars => TransferInv'
<1> SUFFICES ASSUME TransferInv, [Transfer!LockedNext]_Transfer!transferVars
             PROVE  TransferInv'
  OBVIOUS
<1>1. CASE UNCHANGED Transfer!transferVars
  BY <1>1
  DEF Transfer!transferVars, Transfer!ghostVars, TransferInv, TransferShape, CancelsItsTransfer,
      PendingIsUnmoved, Transfer!MovedOnce, Transfer!ReservedIsHeldInZone, InZones,
      InZonesAtFirst, Transfer!Quantity, Transfer!TransferTypeOK
<1>2. CASE Transfer!LockedNext
  BY <1>2, CreateKeeps, ConfirmKeeps, CancelKeeps, SaveKeeps, ReserveKeeps, ConsumeKeeps
  DEF Transfer!LockedNext
<1> QED
  BY <1>1, <1>2

\* What TransfersKeepUnits says of the transfers.
LEMMA TransferPromises ==
  TransferInv => /\ Transfer!TransferTypeOK
                 /\ Transfer!UnitsKept
                 /\ Transfer!ReservedIsHeldInZone
                 /\ Transfer!MovedOnce
BY TransferUnits DEF TransferInv, TransferShape, Transfer!UnitsKept, InZones, InZonesAtFirst

\* confirmAtomic, for all zones, quantities, calls and transfers: no unit is
\* made or lost, what orders reserved stays, and each transfer moves once.
THEOREM ConfirmedTransfersKeepUnits ==
  Transfer!LockedSpec => [](/\ Transfer!UnitsKept
                            /\ Transfer!ReservedIsHeldInZone
                            /\ Transfer!MovedOnce)
<1> QED
  BY TransferStarts, TransferStep, TransferPromises, PTL DEF Transfer!LockedSpec

-----------------------------------------------------------------------------
(***************************************************************************)
(* Replenishments.  Whatever the confirmations without a transaction lose, *)
(* a call that is about to write CONFIRMED or FULFILLED has seen the save  *)
(* of the destination.  Three things only grow, so that what a call has    *)
(* seen stays true while others run: the rows that exist, the note of each *)
(* transfer and the number of its arrivals.                                *)
(***************************************************************************)
RefillKeys == KitchenZones \union Refills \union Requests

RefillRows ==
  Replenishment!StockRecords \union Replenishment!TransferRecords
    \union Replenishment!RequestRecords

Columns == {"quantity", "reserved", "status", "from", "to", "note", "transfer"}

HeldRows ==
  [request : Requests, found : Replenishment!RequestRecords,
   transfer : Replenishment!TransferRecords \union {Null}]

SaveSteps == {"compare", "update", "insert"}

RefillRecords ==
  [at : SaveSteps \union {"confirm", "source", "destination", "mark", "fulfilled"},
   id : RefillKeys, entity : RefillRows \union {Null}, columns : SUBSET Columns,
   then : {"idle", "destination", "mark", "fulfilled"}, holds : HeldRows \union {Null}]

CreatedFor(t, q) ==
  t \in Refills /\ transferRow[t] # Null /\ transferRow[t].note = q

Supplied(q) == \E t \in Refills : CreatedFor(t, q) /\ credits[t] >= 1

\* What a row and an entity for it may say.
TransferFits(t, r) == r.status = "CONFIRMED" => credits[t] >= 1

RequestFits(q, r) ==
  /\ r.transfer # Null => CreatedFor(r.transfer, q)
  /\ r.status = "FULFILLED" => Supplied(q)

RowFits(k, r) ==
  r # Null =>
    /\ k \in KitchenZones => r \in Replenishment!StockRecords /\ Replenishment!StockFits(r)
    /\ k \in Refills => r \in Replenishment!TransferRecords /\ TransferFits(k, r)
    /\ k \in Requests => r \in Replenishment!RequestRecords /\ RequestFits(k, r)

EntityFits(k, e) ==
  /\ k \in KitchenZones => e \in Replenishment!StockRecords
  /\ k \in Refills => /\ e \in Replenishment!TransferRecords /\ TransferFits(k, e)
                      /\ CreatedFor(k, e.note)
  /\ k \in Requests => e \in Replenishment!RequestRecords /\ RequestFits(k, e)

\* Where a call stands, or will stand when its save is over.
Stage(c) == IF c.at \in SaveSteps THEN c.then ELSE c.at

CallFits(c) ==
  /\ c \in RefillRecords
  /\ c.at \in SaveSteps => EntityFits(c.id, c.entity)
  /\ c.at \in {"compare", "update"} => transferRow[c.id] # Null
  /\ c.at = "insert" => c.id \in KitchenZones /\ Replenishment!StockFits(c.entity)
  /\ Stage(c) # "idle" =>
       /\ c.holds \in HeldRows
       /\ transferRow[c.holds.request] # Null
       /\ CreatedFor(c.holds.found.transfer, c.holds.request)
  /\ c.at = "confirm" => c.id = c.holds.found.transfer
  /\ Stage(c) \in {"source", "destination", "mark", "fulfilled"} =>
       /\ c.holds.transfer \in Replenishment!TransferRecords
       /\ c.holds.transfer.note = c.holds.request
  /\ c.at = "mark" \/ Stage(c) = "fulfilled" => credits[c.holds.found.transfer] >= 1

RefillShape ==
  /\ transferRow \in [RefillKeys -> RefillRows \union {Null}]
  /\ transferCall \in [Calls -> RefillRecords \union {Replenishment!Idle}]
  /\ debits \in [Refills -> Nat] /\ credits \in [Refills -> Nat]
  /\ held \in [KitchenZones -> Nat] /\ consumed \in [KitchenZones -> Nat]

RefillInv ==
  /\ RefillShape
  /\ \A k \in RefillKeys : RowFits(k, transferRow[k])
  /\ \A p \in Calls : transferCall[p] # Replenishment!Idle => CallFits(transferCall[p])

\* No step deletes a row, changes the note of a transfer or takes an arrival back.
Grows ==
  /\ \A k \in RefillKeys : transferRow[k] # Null => transferRow'[k] # Null
  /\ \A t \in Refills : transferRow[t] # Null => transferRow'[t].note = transferRow[t].note
  /\ \A t \in Refills : credits'[t] >= credits[t]

LEMMA CreatedForGrows ==
  ASSUME RefillShape, RefillShape', Grows, NEW t, NEW q
  PROVE  /\ CreatedFor(t, q) => CreatedFor(t, q)'
         /\ Supplied(q) => Supplied(q)'
         /\ t \in Refills /\ credits[t] >= 1 => credits'[t] >= 1
<1>1. \A s : CreatedFor(s, q) => CreatedFor(s, q)'
  BY DEF CreatedFor, Grows, RefillKeys
<1>2. \A s \in Refills : credits[s] >= 1 => credits'[s] >= 1
  BY DEF Grows, RefillShape
<1> QED
  BY <1>1, <1>2 DEF Supplied

LEMMA RowsStayFit ==
  ASSUME RefillShape, RefillShape', Grows, NEW k \in RefillKeys, NEW r, RowFits(k, r)
  PROVE  RowFits(k, r)'
BY CreatedForGrows DEF RowFits, TransferFits, RequestFits

LEMMA CallsStayFit ==
  ASSUME RefillShape, RefillShape', Grows, NEW c, CallFits(c)
  PROVE  CallFits(c)'
<1>1. c.at \in SaveSteps => EntityFits(c.id, c.entity)'
  BY CreatedForGrows DEF CallFits, EntityFits, TransferFits, RequestFits
<1>2. c.id \in RefillKeys /\ (transferRow[c.id] # Null => transferRow'[c.id] # Null)
  BY DEF CallFits, RefillRecords, Grows
<1>3. Stage(c) # "idle" =>
        /\ transferRow[c.holds.request] # Null => transferRow'[c.holds.request] # Null
        /\ c.holds.found.transfer \in Refills
  BY DEF CallFits, HeldRows, RefillKeys, Grows, CreatedFor
<1>4. Stage(c) # "idle" => CreatedFor(c.holds.found.transfer, c.holds.request)'
  BY CreatedForGrows DEF CallFits
<1>5. c.at = "mark" \/ Stage(c) = "fulfilled" => credits'[c.holds.found.transfer] >= 1
  BY <1>3, CreatedForGrows DEF CallFits, Stage, SaveSteps
<1> QED
  BY <1>1, <1>2, <1>3, <1>4, <1>5 DEF CallFits, Stage

\* A step keeps the invariant when what it writes and what its call holds fits.
LEMMA StepFits ==
  ASSUME RefillInv, RefillShape', Grows,
         \A k \in RefillKeys : transferRow'[k] = transferRow[k] \/ RowFits(k, transferRow[k])',
         \A p \in Calls : \/ transferCall'[p] \in {transferCall[p], Replenishment!Idle}
                         \/ CallFits(transferCall[p])'
  PROVE  RefillInv'
<1>1. ASSUME NEW k \in RefillKeys PROVE RowFits(k, transferRow[k])'
  <2>1. PICK r : r = transferRow[k]
    OBVIOUS
  <2>2. RowFits(k, r)'
    BY <2>1, RowsStayFit DEF RefillInv
  <2>3. CASE transferRow'[k] = transferRow[k]
    BY <2>1, <2>2, <2>3
  <2> QED
    BY <2>3
<1>2. ASSUME NEW p \in Calls, transferCall'[p] # Replenishment!Idle'
      PROVE  CallFits(transferCall[p])'
  <2>1. PICK c : c = transferCall[p]
    OBVIOUS
  <2>2. CASE transferCall'[p] = transferCall[p]
    <3>1. CallFits(c)'
      BY <1>2, <2>1, <2>2, CallsStayFit DEF RefillInv, Replenishment!Idle
    <3> QED
      BY <2>1, <2>2, <3>1
  <2> QED
    BY <1>2, <2>2 DEF Replenishment!Idle
<1> QED
  BY <1>1, <1>2 DEF RefillInv

LEMMA RefillStarts == Replenishment!TransferInit => RefillInv
<1> SUFFICES ASSUME Replenishment!TransferInit PROVE RefillInv
  OBVIOUS
<1> USE TransfersAssumption DEF Replenishment!TransferAssumption
<1>1. \A k \in RefillKeys : k \in KitchenZones \/ transferRow[k] = Null
  BY DEF Replenishment!TransferInit, RefillKeys
<1>2. ASSUME NEW z \in KitchenZones, transferRow[z] # Null
      PROVE  /\ transferRow[z] \in Replenishment!StockRecords
             /\ Replenishment!StockFits(transferRow[z])
  <2>1. transferRow[z] \in [quantity : Nat, reserved : {0}]
    BY <1>2 DEF Replenishment!TransferInit
  <2> QED
    BY <2>1 DEF Replenishment!StockRecords, Replenishment!StockFits
<1>3. transferRow \in [RefillKeys -> RefillRows \union {Null}]
  BY <1>1, <1>2 DEF Replenishment!TransferInit, RefillKeys, RefillRows
<1> QED
  BY <1>1, <1>2, <1>3
  DEF Replenishment!TransferInit, RefillInv, RefillShape, RowFits, RefillKeys

\* A step that only moves a call.
LEMMA CallStep ==
  ASSUME RefillInv, NEW p \in Calls, NEW d, d = Replenishment!Idle \/ CallFits(d),
         transferCall' = [transferCall EXCEPT ![p] = d],
         UNCHANGED <<transferRow, debits, credits, held, consumed>>
  PROVE  RefillInv'
<1>1. d = Replenishment!Idle \/ (d \in RefillRecords /\ CallFits(d)')
  BY DEF CallFits, EntityFits, TransferFits, RequestFits, CreatedFor, Supplied, Stage
<1>2. RefillShape'
  BY <1>1 DEF RefillInv, RefillShape
<1>3. Grows
  BY DEF Grows, RefillInv, RefillShape
<1>4. transferCall'[p] = d /\ \A q \in Calls : q # p => transferCall'[q] = transferCall[q]
  BY DEF RefillInv, RefillShape
<1>5. d = Replenishment!Idle \/ CallFits(transferCall[p])'
  BY <1>1, <1>4
<1> QED
  BY <1>2, <1>3, <1>4, <1>5, StepFits

\* A call that begins, to save the entity e of the row k.
LEMMA BeginsSave ==
  ASSUME RefillInv, NEW p \in Calls, NEW k \in RefillKeys, transferRow[k] # Null,
         NEW e \in RefillRows, EntityFits(k, e),
         Replenishment!Begin(p, Replenishment!Saving(Replenishment!NewCall, k, e, "idle")),
         UNCHANGED <<transferRow, debits, credits, held, consumed>>
  PROVE  RefillInv'
<1> DEFINE c == Replenishment!Saving(Replenishment!NewCall, k, e, "idle")
<1>1. /\ c \in RefillRecords /\ c.at = "compare" /\ c.then = "idle"
      /\ c.id = k /\ c.entity = e
  BY DEF Replenishment!Saving, Replenishment!NewCall, RefillRecords, SaveSteps
<1>2. transferCall' = [transferCall EXCEPT ![p] = c]
  BY DEF Replenishment!Begin
<1> HIDE DEF c
<1>3. CallFits(c)
  BY <1>1 DEF CallFits, Stage, SaveSteps
<1> QED
  BY <1>2, <1>3, CallStep

LEMMA RefillDisjoint ==
  /\ \A z \in KitchenZones : z \in RefillKeys /\ z \notin Refills /\ z \notin Requests
  /\ \A t \in Refills : t \in RefillKeys /\ t \notin KitchenZones /\ t \notin Requests /\ t # Null
  /\ \A q \in Requests : q \in RefillKeys /\ q \notin KitchenZones /\ q \notin Refills /\ q # Null
  /\ Null \notin RefillRows
BY TransfersAssumption DEF Replenishment!TransferAssumption, RefillKeys, RefillRows

LEMMA RefillCancel ==
  ASSUME RefillInv, NEW p \in Calls, NEW t \in Refills, Replenishment!Cancel(p, t)
  PROVE  RefillInv'
<1> DEFINE e == [transferRow[t] EXCEPT !.status = "CANCELLED"]
<1>1. /\ transferRow[t] # Null /\ transferRow[t] \in Replenishment!TransferRecords
      /\ t \in RefillKeys
  BY RefillDisjoint DEF Replenishment!Cancel, Replenishment!Pending, RefillInv, RowFits
<1>2. /\ e \in Replenishment!TransferRecords /\ e.status = "CANCELLED"
      /\ e.note = transferRow[t].note
  BY <1>1 DEF Replenishment!TransferRecords
<1>3. /\ Replenishment!Begin(p, Replenishment!Saving(Replenishment!NewCall, t, e, "idle"))
      /\ UNCHANGED <<transferRow, debits, credits, held, consumed>>
  BY DEF Replenishment!Cancel, Replenishment!ghostVars
<1> HIDE DEF e
<1>4. e \in RefillRows /\ EntityFits(t, e)
  BY <1>1, <1>2, RefillDisjoint DEF EntityFits, TransferFits, CreatedFor, RefillRows
<1> QED
  BY <1>1, <1>3, <1>4, BeginsSave

LEMMA RefillReject ==
  ASSUME RefillInv, NEW p \in Calls, NEW q \in Requests, Replenishment!Reject(p, q)
  PROVE  RefillInv'
<1> DEFINE e == [transferRow[q] EXCEPT !.status = "REJECTED"]
<1>1. /\ transferRow[q] # Null /\ transferRow[q] \in Replenishment!RequestRecords
      /\ RequestFits(q, transferRow[q]) /\ q \in RefillKeys
  BY RefillDisjoint DEF Replenishment!Reject, RefillInv, RowFits
<1>2. /\ e \in Replenishment!RequestRecords /\ e.status = "REJECTED"
      /\ e.transfer = transferRow[q].transfer
  BY <1>1 DEF Replenishment!RequestRecords
<1>3. /\ Replenishment!Begin(p, Replenishment!Saving(Replenishment!NewCall, q, e, "idle"))
      /\ UNCHANGED <<transferRow, debits, credits, held, consumed>>
  BY DEF Replenishment!Reject, Replenishment!ghostVars
<1> HIDE DEF e
<1>4. e \in RefillRows /\ EntityFits(q, e)
  BY <1>1, <1>2, RefillDisjoint DEF EntityFits, RequestFits, RefillRows
<1> QED
  BY <1>1, <1>3, <1>4, BeginsSave

LEMMA RefillFulfill ==
  ASSUME RefillInv, NEW p \in Calls, NEW q \in Requests, Replenishment!Fulfill(p, q)
  PROVE  RefillInv'
<1>1. /\ transferRow[q] # Null /\ transferRow[q] \in Replenishment!RequestRecords
      /\ transferRow[q].transfer # Null /\ CreatedFor(transferRow[q].transfer, q)
  BY RefillDisjoint DEF Replenishment!Fulfill, RefillInv, RowFits, RequestFits
<1>2. PICK c : c = [Replenishment!NewCall EXCEPT
         !.at = "confirm", !.id = transferRow[q].transfer,
         !.holds = [request |-> q, found |-> transferRow[q], transfer |-> Null]]
  OBVIOUS
<1>3. /\ c \in RefillRecords /\ c.at = "confirm" /\ c.id = transferRow[q].transfer
      /\ c.holds \in HeldRows /\ c.holds.request = q /\ c.holds.found = transferRow[q]
  BY <1>1, <1>2, RefillDisjoint
  DEF Replenishment!NewCall, RefillRecords, HeldRows, CreatedFor
<1>4. CallFits(c)
  BY <1>1, <1>3 DEF CallFits, Stage, SaveSteps
<1>5. /\ transferCall' = [transferCall EXCEPT ![p] = c]
      /\ UNCHANGED <<transferRow, debits, credits, held, consumed>>
  BY <1>2 DEF Replenishment!Fulfill, Replenishment!Begin, Replenishment!ghostVars
<1> QED
  BY <1>4, <1>5, CallStep

LEMMA ConfirmFindKeeps ==
  ASSUME RefillInv, NEW p \in Calls, Replenishment!ConfirmFind(p)
  PROVE  RefillInv'
<1>1. PICK c : c = transferCall[p]
  OBVIOUS
<1>2. CallFits(c) /\ c.at = "confirm" /\ c.id = c.holds.found.transfer /\ Stage(c) # "idle"
  BY <1>1 DEF Replenishment!ConfirmFind, RefillInv, Replenishment!Idle, CallFits, Stage, SaveSteps
<1>3. UNCHANGED <<transferRow, debits, credits, held, consumed>>
  BY DEF Replenishment!ConfirmFind, Replenishment!ghostVars
<1>4. CASE ~Replenishment!Pending(c.id)
  BY <1>1, <1>3, <1>4, CallStep DEF Replenishment!ConfirmFind
<1>5. CASE Replenishment!Pending(c.id)
  <2>1. PICK e : e = [transferRow[c.id] EXCEPT !.status = "CONFIRMED"]
    OBVIOUS
  <2>2. e \in Replenishment!TransferRecords /\ e.note = c.holds.request
    <3>1. c.id \in Refills /\ transferRow[c.id] # Null /\ transferRow[c.id].note = c.holds.request
      BY <1>2 DEF CallFits, CreatedFor
    <3>2. transferRow[c.id] \in Replenishment!TransferRecords
      BY <3>1, RefillDisjoint DEF RefillInv, RowFits
    <3> QED
      BY <2>1, <3>1, <3>2 DEF Replenishment!TransferRecords
  <2>3. PICK d : d = [c EXCEPT !.at = "source", !.holds.transfer = e]
    OBVIOUS
  <2>4. transferCall' = [transferCall EXCEPT ![p] = d]
    <3>1. transferCall' = [transferCall EXCEPT ![p].at = "source", ![p].holds.transfer = e]
      BY <1>1, <1>5, <2>1 DEF Replenishment!ConfirmFind
    <3> QED
      BY <1>1, <2>3, <3>1 DEF RefillInv, RefillShape
  <2>5. c \in RefillRecords /\ c.holds \in HeldRows
    BY <1>2 DEF CallFits
  <2>6. /\ d.holds \in HeldRows /\ d.holds.transfer = e /\ d.holds.request = c.holds.request
        /\ d.holds.found = c.holds.found
    BY <2>2, <2>3, <2>5 DEF RefillRecords, HeldRows
  <2>7. d \in RefillRecords /\ d.at = "source"
    BY <2>3, <2>5, <2>6 DEF RefillRecords
  <2>8. CallFits(d)
    BY <1>2, <2>2, <2>6, <2>7 DEF CallFits, Stage, SaveSteps
  <2> QED
    BY <1>3, <2>4, <2>8, CallStep
<1> QED
  BY <1>4, <1>5

\* A confirmation goes on to save the row k; what it holds stays.
LEMMA GoesOnToSave ==
  ASSUME RefillInv, NEW p \in Calls, NEW c, c = transferCall[p], CallFits(c),
         Stage(c) \in {"source", "destination", "mark", "fulfilled"},
         NEW k \in RefillKeys, NEW e \in RefillRows, EntityFits(k, e),
         NEW at \in {"compare", "insert"}, NEW then \in {"idle", "destination", "mark", "fulfilled"},
         at = "compare" => transferRow[k] # Null,
         at = "insert" => k \in KitchenZones /\ Replenishment!StockFits(e),
         then = "fulfilled" => credits[c.holds.found.transfer] >= 1,
         transferCall' = [transferCall EXCEPT
           ![p] = [Replenishment!Saving(c, k, e, then) EXCEPT !.at = at]],
         UNCHANGED <<transferRow, debits, credits, held, consumed>>
  PROVE  RefillInv'
<1>1. PICK d : d = [Replenishment!Saving(c, k, e, then) EXCEPT !.at = at]
  OBVIOUS
<1>2. c \in RefillRecords
  BY DEF CallFits
<1>3. /\ d \in RefillRecords /\ d.at = at /\ d.id = k /\ d.entity = e /\ d.then = then
      /\ d.holds = c.holds
  BY <1>1, <1>2 DEF Replenishment!Saving, RefillRecords, SaveSteps
<1>4. CallFits(d)
  BY <1>3 DEF CallFits, Stage, SaveSteps
<1> QED
  BY <1>1, <1>4, CallStep

LEMMA ConfirmSourceKeeps ==
  ASSUME RefillInv, NEW p \in Calls, Replenishment!ConfirmSource(p)
  PROVE  RefillInv'
<1>1. PICK c : c = transferCall[p]
  OBVIOUS
<1>2. CallFits(c) /\ c.at = "source" /\ Stage(c) = "source"
  BY <1>1 DEF Replenishment!ConfirmSource, RefillInv, Replenishment!Idle, Stage, SaveSteps
<1>3. UNCHANGED <<transferRow, debits, credits, held, consumed>>
  BY DEF Replenishment!ConfirmSource, Replenishment!ghostVars
<1>4. PICK from \in KitchenZones, n \in Nat :
        c.holds.transfer.from = from /\ c.holds.transfer.quantity = n
  BY <1>2, TransfersAssumption
  DEF CallFits, Replenishment!TransferRecords, Replenishment!TransferAssumption
<1>5. CASE ~Replenishment!HasStock(from, n)
  BY <1>1, <1>3, <1>4, <1>5, CallStep DEF Replenishment!ConfirmSource
<1>6. CASE Replenishment!HasStock(from, n)
  <2>1. PICK e : e = Replenishment!Taken(from, n)
    OBVIOUS
  <2>2. /\ from \in RefillKeys /\ transferRow[from] # Null
        /\ e \in Replenishment!StockRecords
    BY <1>6, <2>1, RefillDisjoint
    DEF RefillInv, RowFits, Replenishment!HasStock, Replenishment!Taken, Replenishment!StockRecords
  <2>3. e \in RefillRows /\ EntityFits(from, e)
    BY <2>2, RefillDisjoint DEF EntityFits, RefillRows
  <2>4. transferCall' = [transferCall EXCEPT
          ![p] = [Replenishment!Saving(c, from, e, "destination") EXCEPT !.at = "compare"]]
    <3>1. transferCall' = [transferCall EXCEPT ![p] = Replenishment!Saving(c, from, e, "destination")]
      BY <1>1, <1>4, <1>6, <2>1 DEF Replenishment!ConfirmSource
    <3>2. c \in RefillRecords
      BY <1>2 DEF CallFits
    <3>3. Replenishment!Saving(c, from, e, "destination")
            = [Replenishment!Saving(c, from, e, "destination") EXCEPT !.at = "compare"]
      BY <3>2 DEF Replenishment!Saving, RefillRecords
    <3> QED
      BY <3>1, <3>3
  <2> QED
    BY <1>1, <1>2, <1>3, <2>2, <2>3, <2>4, GoesOnToSave
<1> QED
  BY <1>5, <1>6

LEMMA ConfirmDestinationKeeps ==
  ASSUME RefillInv, NEW p \in Calls, Replenishment!ConfirmDestination(p)
  PROVE  RefillInv'
<1>1. PICK c : c = transferCall[p]
  OBVIOUS
<1>2. CallFits(c) /\ c.at = "destination" /\ Stage(c) = "destination" /\ c \in RefillRecords
  BY <1>1
  DEF Replenishment!ConfirmDestination, RefillInv, Replenishment!Idle, Stage, SaveSteps, CallFits
<1>3. UNCHANGED <<transferRow, debits, credits, held, consumed>>
  BY DEF Replenishment!ConfirmDestination, Replenishment!ghostVars
<1>4. PICK to \in KitchenZones, n \in Nat :
        c.holds.transfer.to = to /\ c.holds.transfer.quantity = n
  BY <1>2, TransfersAssumption
  DEF CallFits, Replenishment!TransferRecords, Replenishment!TransferAssumption
<1>5. PICK e : e = Replenishment!Received(to, n)
  OBVIOUS
<1>6. /\ to \in RefillKeys /\ e \in Replenishment!StockRecords
      /\ transferRow[to] = Null => Replenishment!StockFits(e)
  BY <1>4, <1>5, RefillDisjoint
  DEF RefillInv, RowFits, Replenishment!Received, Replenishment!StockRow,
      Replenishment!StockRecords, Replenishment!StockFits
<1>7. e \in RefillRows /\ EntityFits(to, e)
  BY <1>6, RefillDisjoint DEF EntityFits, RefillRows
<1>8. PICK s : s = Replenishment!Saving(c, to, e, "mark")
  OBVIOUS
<1>9. transferCall' = [transferCall EXCEPT
         ![p] = IF transferRow[to] = Null THEN [s EXCEPT !.at = "insert"] ELSE s]
  BY <1>1, <1>4, <1>5, <1>8 DEF Replenishment!ConfirmDestination
<1>10. s = [s EXCEPT !.at = "compare"]
  BY <1>2, <1>8 DEF Replenishment!Saving, RefillRecords
<1>11. CASE transferRow[to] = Null
  BY <1>1, <1>2, <1>3, <1>6, <1>7, <1>8, <1>9, <1>11, GoesOnToSave
<1>12. CASE transferRow[to] # Null
  <2>1. transferCall' = [transferCall EXCEPT
          ![p] = [Replenishment!Saving(c, to, e, "mark") EXCEPT !.at = "compare"]]
    BY <1>8, <1>9, <1>10, <1>12
  <2> QED
    BY <1>1, <1>2, <1>3, <1>6, <1>7, <1>12, <2>1, GoesOnToSave
<1> QED
  BY <1>11, <1>12

LEMMA ConfirmMarkKeeps ==
  ASSUME RefillInv, NEW p \in Calls, Replenishment!ConfirmMark(p)
  PROVE  RefillInv'
<1>1. PICK c : c = transferCall[p]
  OBVIOUS
<1>2. /\ CallFits(c) /\ c.at = "mark" /\ Stage(c) = "mark" /\ c \in RefillRecords
  BY <1>1
  DEF Replenishment!ConfirmMark, RefillInv, Replenishment!Idle, Stage, SaveSteps, CallFits
<1>3. PICK t \in Refills, e \in Replenishment!TransferRecords :
        /\ t = c.holds.found.transfer /\ e = c.holds.transfer
        /\ CreatedFor(t, e.note) /\ credits[t] >= 1 /\ transferRow[t] # Null
  BY <1>2 DEF CallFits, CreatedFor
<1>4. UNCHANGED <<transferRow, debits, credits, held, consumed>>
  BY DEF Replenishment!ConfirmMark, Replenishment!ghostVars
<1>5. t \in RefillKeys /\ e \in RefillRows /\ EntityFits(t, e)
  BY <1>3, RefillDisjoint DEF EntityFits, RefillRows, TransferFits
<1>6. PICK s : s = Replenishment!Saving(c, t, e, "fulfilled")
  OBVIOUS
<1>7. transferCall' = [transferCall EXCEPT ![p] = s] /\ s = [s EXCEPT !.at = "compare"]
  BY <1>1, <1>2, <1>3, <1>6 DEF Replenishment!ConfirmMark, Replenishment!Saving, RefillRecords
<1>8. transferCall' = [transferCall EXCEPT
        ![p] = [Replenishment!Saving(c, t, e, "fulfilled") EXCEPT !.at = "compare"]]
  BY <1>6, <1>7
<1> QED
  BY <1>1, <1>2, <1>3, <1>4, <1>5, <1>8, GoesOnToSave

LEMMA FulfillRequestKeeps ==
  ASSUME RefillInv, NEW p \in Calls, Replenishment!FulfillRequest(p)
  PROVE  RefillInv'
<1>1. PICK c : c = transferCall[p]
  OBVIOUS
<1>2. /\ CallFits(c) /\ c.at = "fulfilled" /\ Stage(c) = "fulfilled" /\ c \in RefillRecords
  BY <1>1
  DEF Replenishment!FulfillRequest, RefillInv, Replenishment!Idle, Stage, SaveSteps, CallFits
<1>3. PICK q \in Requests, f \in Replenishment!RequestRecords :
        /\ q = c.holds.request /\ f = c.holds.found /\ transferRow[q] # Null
        /\ CreatedFor(f.transfer, q) /\ credits[f.transfer] >= 1
  BY <1>2 DEF CallFits, HeldRows
<1>4. UNCHANGED <<transferRow, debits, credits, held, consumed>>
  BY DEF Replenishment!FulfillRequest, Replenishment!ghostVars
<1>5. PICK e : e = [f EXCEPT !.status = "FULFILLED"]
  OBVIOUS
<1>6. e \in Replenishment!RequestRecords /\ e.transfer = f.transfer /\ Supplied(q)
  BY <1>3, <1>5 DEF Replenishment!RequestRecords, Supplied, CreatedFor
<1>7. q \in RefillKeys /\ e \in RefillRows /\ EntityFits(q, e)
  BY <1>3, <1>6, RefillDisjoint DEF EntityFits, RefillRows, RequestFits
<1>8. PICK s : s = Replenishment!Saving(c, q, e, "idle")
  OBVIOUS
<1>9. transferCall' = [transferCall EXCEPT ![p] = s] /\ s = [s EXCEPT !.at = "compare"]
  BY <1>1, <1>2, <1>3, <1>5, <1>8
  DEF Replenishment!FulfillRequest, Replenishment!Saving, RefillRecords
<1>10. transferCall' = [transferCall EXCEPT
         ![p] = [Replenishment!Saving(c, q, e, "idle") EXCEPT !.at = "compare"]]
  BY <1>8, <1>9
<1> QED
  BY <1>1, <1>2, <1>3, <1>4, <1>7, <1>10, GoesOnToSave

\* A step that only writes one row, and no arrival.
LEMMA RowStep ==
  ASSUME RefillInv, NEW k \in RefillKeys, NEW r, r # Null, r \in RefillRows, RowFits(k, r),
         transferRow' = [transferRow EXCEPT ![k] = r],
         k \in Refills => transferRow[k] = Null,
         UNCHANGED <<transferCall, debits, credits>>,
         held' \in [KitchenZones -> Nat], consumed' \in [KitchenZones -> Nat]
  PROVE  RefillInv'
<1>1. RefillShape'
  BY DEF RefillInv, RefillShape
<1>2. Grows
  BY DEF Grows, RefillInv, RefillShape, RefillKeys
<1>3. RowFits(k, r)'
  BY <1>1, <1>2, RowsStayFit DEF RefillInv
<1>4. transferRow'[k] = r /\ \A x \in RefillKeys : x # k => transferRow'[x] = transferRow[x]
  BY DEF RefillInv, RefillShape
<1>5. RowFits(k, transferRow[k])'
  BY <1>3, <1>4
<1> QED
  BY <1>1, <1>2, <1>4, <1>5, StepFits

LEMMA RefillCreateTransfer ==
  ASSUME RefillInv, NEW t \in Refills, NEW from \in KitchenZones, NEW to \in KitchenZones,
         NEW n \in Asked, Replenishment!CreateTransfer(t, from, to, n)
  PROVE  RefillInv'
<1>1. PICK r : r = Replenishment!NewTransfer(from, to, n, Null)
  OBVIOUS
<1>2. r \in Replenishment!TransferRecords /\ r.status = "PENDING"
  BY <1>1 DEF Replenishment!NewTransfer, Replenishment!TransferRecords
<1>3. t \in RefillKeys /\ r # Null /\ r \in RefillRows /\ RowFits(t, r)
  BY <1>2, RefillDisjoint DEF RefillRows, RowFits, TransferFits
<1>4. /\ transferRow' = [transferRow EXCEPT ![t] = r] /\ transferRow[t] = Null
      /\ UNCHANGED <<transferCall, debits, credits, held, consumed>>
  BY <1>1 DEF Replenishment!CreateTransfer, Replenishment!ghostVars
<1>5. held' \in [KitchenZones -> Nat] /\ consumed' \in [KitchenZones -> Nat]
  BY <1>4 DEF RefillInv, RefillShape
<1> QED
  BY <1>3, <1>4, <1>5, RowStep

LEMMA RefillCreateRequest ==
  ASSUME RefillInv, NEW q \in Requests, NEW n \in Asked, Replenishment!CreateRequest(q, n)
  PROVE  RefillInv'
<1>1. PICK r : r = [status |-> "REQUESTED", transfer |-> Null, quantity |-> n]
  OBVIOUS
<1>2. r \in Replenishment!RequestRecords /\ r.status = "REQUESTED" /\ r.transfer = Null
  BY <1>1 DEF Replenishment!RequestRecords
<1>3. q \in RefillKeys /\ r # Null /\ r \in RefillRows /\ RowFits(q, r)
  BY <1>2, RefillDisjoint DEF RefillRows, RowFits, RequestFits
<1>4. /\ transferRow' = [transferRow EXCEPT ![q] = r]
      /\ UNCHANGED <<transferCall, debits, credits, held, consumed>>
  BY <1>1 DEF Replenishment!CreateRequest, Replenishment!ghostVars
<1>5. held' \in [KitchenZones -> Nat] /\ consumed' \in [KitchenZones -> Nat]
  BY <1>4 DEF RefillInv, RefillShape
<1> QED
  BY <1>3, <1>4, <1>5, RefillDisjoint, RowStep

LEMMA RefillReserve ==
  ASSUME RefillInv, NEW z \in KitchenZones, Replenishment!Reserve(z)
  PROVE  RefillInv'
<1>1. PICK r : r = [transferRow[z] EXCEPT !.reserved = @ + 1]
  OBVIOUS
<1>2. /\ transferRow[z] # Null /\ transferRow[z] \in Replenishment!StockRecords
      /\ transferRow[z].reserved < transferRow[z].quantity
  BY RefillDisjoint DEF Replenishment!Reserve, RefillInv, RowFits
<1>3. r \in Replenishment!StockRecords /\ Replenishment!StockFits(r)
  BY <1>1, <1>2 DEF Replenishment!StockRecords, Replenishment!StockFits
<1>4. z \in RefillKeys /\ r # Null /\ r \in RefillRows /\ RowFits(z, r)
  BY <1>3, RefillDisjoint DEF RefillRows, RowFits
<1>5. /\ transferRow' = [transferRow EXCEPT ![z] = r]
      /\ UNCHANGED <<transferCall, debits, credits, consumed>>
      /\ held' = [held EXCEPT ![z] = @ + 1]
  BY <1>1 DEF Replenishment!Reserve
<1>6. held' \in [KitchenZones -> Nat] /\ consumed' \in [KitchenZones -> Nat]
  BY <1>5 DEF RefillInv, RefillShape
<1> QED
  BY <1>4, <1>5, <1>6, RefillDisjoint, RowStep

LEMMA RefillConsume ==
  ASSUME RefillInv, NEW z \in KitchenZones, Replenishment!Consume(z)
  PROVE  RefillInv'
<1>1. PICK r : r = Replenishment!StockRow(transferRow[z].quantity - 1, transferRow[z].reserved - 1)
  OBVIOUS
<1>2. transferRow[z] # Null => /\ transferRow[z] \in Replenishment!StockRecords
                               /\ Replenishment!StockFits(transferRow[z])
  BY RefillDisjoint DEF RefillInv, RowFits
<1>3. r \in Replenishment!StockRecords /\ Replenishment!StockFits(r)
  BY <1>1, <1>2
  DEF Replenishment!Consume, Replenishment!StockRecords, Replenishment!StockFits, Replenishment!StockRow
<1>4. z \in RefillKeys /\ r # Null /\ r \in RefillRows /\ RowFits(z, r)
  BY <1>3, RefillDisjoint DEF RefillRows, RowFits
<1>5. /\ transferRow' = [transferRow EXCEPT ![z] = r]
      /\ UNCHANGED <<transferCall, debits, credits>>
      /\ held[z] > 0
      /\ held' = [held EXCEPT ![z] = @ - 1]
      /\ consumed' = [consumed EXCEPT ![z] = @ + 1]
  BY <1>1 DEF Replenishment!Consume
<1>6. held' \in [KitchenZones -> Nat] /\ consumed' \in [KitchenZones -> Nat]
  BY <1>5 DEF RefillInv, RefillShape
<1> QED
  BY <1>4, <1>5, <1>6, RefillDisjoint, RowStep

LEMMA RefillConfirmAtomic ==
  ASSUME RefillInv, NEW t \in Refills, Replenishment!ConfirmAtomic(t)
  PROVE  RefillInv'
<1>1. PICK r : r = transferRow[t]
  OBVIOUS
<1>2. r \in Replenishment!TransferRecords
  BY <1>1, RefillDisjoint
  DEF Replenishment!ConfirmAtomic, Replenishment!Pending, RefillInv, RowFits
<1>3. PICK from \in KitchenZones, to \in KitchenZones, n \in Nat :
        r.from = from /\ r.to = to /\ r.quantity = n
  BY <1>2, TransfersAssumption DEF Replenishment!TransferRecords, Replenishment!TransferAssumption
<1>4. PICK a, b, c : /\ a = Replenishment!Taken(from, n)
                     /\ b = Replenishment!Received(to, n)
                     /\ c = [r EXCEPT !.status = "CONFIRMED"]
  OBVIOUS
<1>5. /\ transferRow' = [transferRow EXCEPT ![from] = a, ![to] = b, ![t] = c]
      /\ credits' = [credits EXCEPT ![t] = @ + 1]
      /\ debits' = [debits EXCEPT ![t] = @ + 1]
      /\ UNCHANGED <<transferCall, held, consumed>>
      /\ Replenishment!HasStock(from, n) /\ Replenishment!StockFits(a)
  <2>1. [[transferRow EXCEPT ![from] = a] EXCEPT ![to] = b][t] = r
    BY <1>1, RefillDisjoint DEF RefillInv, RefillShape
  <2>2. transferRow' = [transferRow EXCEPT ![from] = a, ![to] = b, ![t].status = "CONFIRMED"]
    BY <1>1, <1>3, <1>4 DEF Replenishment!ConfirmAtomic
  <2>3. transferRow' = [transferRow EXCEPT ![from] = a, ![to] = b, ![t] = c]
    BY <1>4, <2>1, <2>2
  <2> QED
    BY <1>1, <1>3, <1>4, <2>3 DEF Replenishment!ConfirmAtomic
<1>6. /\ a \in Replenishment!StockRecords
      /\ b \in Replenishment!StockRecords /\ Replenishment!StockFits(b)
  <2>1. \A z \in KitchenZones : transferRow[z] # Null =>
          transferRow[z] \in Replenishment!StockRecords /\ Replenishment!StockFits(transferRow[z])
    BY RefillDisjoint DEF RefillInv, RowFits
  <2> QED
    BY <1>3, <1>4, <1>5, <2>1
    DEF Replenishment!HasStock, Replenishment!Taken, Replenishment!Received,
        Replenishment!StockRow, Replenishment!StockRecords, Replenishment!StockFits
<1>7. c \in Replenishment!TransferRecords /\ c.note = r.note /\ c.status = "CONFIRMED"
  BY <1>2, <1>4 DEF Replenishment!TransferRecords
<1>8. /\ transferRow'[t] = c /\ transferRow'[to] = b
      /\ from # to => transferRow'[from] = a
      /\ \A k \in RefillKeys \ {from, to, t} : transferRow'[k] = transferRow[k]
      /\ credits'[t] >= 1 /\ \A s \in Refills : credits'[s] >= credits[s]
      /\ transferRow' \in [RefillKeys -> RefillRows \union {Null}]
  BY <1>5, <1>6, <1>7, RefillDisjoint DEF RefillInv, RefillShape, RefillRows
<1>9. RefillShape'
  BY <1>5, <1>8 DEF RefillInv, RefillShape
<1>10. Grows
  BY <1>1, <1>6, <1>7, <1>8, RefillDisjoint DEF Grows, RefillRows
<1>11. \A k \in RefillKeys : transferRow'[k] = transferRow[k] \/ RowFits(k, transferRow[k])'
  BY <1>5, <1>6, <1>7, <1>8, RefillDisjoint DEF RowFits, TransferFits
<1> QED
  BY <1>5, <1>9, <1>10, <1>11, StepFits

LEMMA RefillApprove ==
  ASSUME RefillInv, NEW p \in Calls, NEW q \in Requests, NEW t \in Refills,
         Replenishment!Approve(p, q, t)
  PROVE  RefillInv'
<1>1. PICK r : r = transferRow[q]
  OBVIOUS
<1>2. r \in Replenishment!RequestRecords /\ transferRow[q] # Null
  BY <1>1, RefillDisjoint DEF Replenishment!Approve, RefillInv, RowFits
<1>3. PICK n, e : /\ n = Replenishment!NewTransfer("BRANCH", "KITCHEN", r.quantity, q)
                  /\ e = [r EXCEPT !.status = "APPROVED", !.transfer = t]
  OBVIOUS
<1>4. n \in Replenishment!TransferRecords /\ n.status = "PENDING" /\ n.note = q
  BY <1>2, <1>3, TransfersAssumption
  DEF Replenishment!NewTransfer, Replenishment!TransferRecords, Replenishment!RequestRecords,
      Replenishment!TransferAssumption
<1>5. e \in Replenishment!RequestRecords /\ e.status = "APPROVED" /\ e.transfer = t
  BY <1>2, <1>3 DEF Replenishment!RequestRecords
<1>6. PICK c : c = Replenishment!Saving(Replenishment!NewCall, q, e, "idle")
  OBVIOUS
<1>7. /\ c \in RefillRecords /\ c.at = "compare" /\ c.then = "idle" /\ c.id = q /\ c.entity = e
  BY <1>5, <1>6, RefillDisjoint
  DEF Replenishment!Saving, Replenishment!NewCall, RefillRecords, SaveSteps, RefillRows
<1>8. /\ transferRow' = [transferRow EXCEPT ![t] = n] /\ transferRow[t] = Null
      /\ transferCall' = [transferCall EXCEPT ![p] = c]
      /\ UNCHANGED <<debits, credits, held, consumed>>
  BY <1>1, <1>3, <1>6 DEF Replenishment!Approve, Replenishment!Begin, Replenishment!ghostVars
<1>9. RefillShape'
  BY <1>4, <1>7, <1>8 DEF RefillInv, RefillShape, RefillRows
<1>10. n # Null
  BY <1>4, RefillDisjoint DEF RefillRows
<1>11. /\ transferRow'[t] = n /\ \A k \in RefillKeys : k # t => transferRow'[k] = transferRow[k]
       /\ transferCall'[p] = c /\ \A x \in Calls : x # p => transferCall'[x] = transferCall[x]
  BY <1>8, RefillDisjoint DEF RefillInv, RefillShape
<1>12. Grows
  BY <1>8, <1>10, <1>11, RefillDisjoint DEF Grows, RefillInv, RefillShape
<1>13. RowFits(t, transferRow[t])'
  BY <1>4, <1>11, RefillDisjoint DEF RowFits, TransferFits
<1>14. CallFits(c)'
  <2>1. CreatedFor(t, q)'
    BY <1>4, <1>10, <1>11 DEF CreatedFor
  <2>2. EntityFits(q, e)'
    BY <1>5, <2>1, RefillDisjoint DEF EntityFits, RequestFits
  <2>3. transferRow'[q] # Null
    BY <1>2, <1>11, RefillDisjoint
  <2> QED
    BY <1>7, <2>2, <2>3 DEF CallFits, Stage, SaveSteps
<1>15. CallFits(transferCall[p])'
  BY <1>11, <1>14
<1> QED
  BY <1>9, <1>11, <1>12, <1>13, <1>15, StepFits

\* The save of c arrives at its row, and the call goes on as d or is over.
LEMMA SaveArrives ==
  ASSUME RefillInv, NEW p \in Calls, NEW c, c = transferCall[p], CallFits(c),
         c.at \in {"update", "insert"},
         NEW w \in RefillRows, RowFits(c.id, w),
         c.id \in Refills => w.note = transferRow[c.id].note,
         transferRow' = [transferRow EXCEPT ![c.id] = w],
         NEW d, transferCall' = [transferCall EXCEPT ![p] = d],
         \/ d = Replenishment!Idle
         \/ d \in RefillRecords /\ d.at = c.then /\ d.at # "idle" /\ d.id = c.id /\ d.holds = c.holds,
         debits' \in [Refills -> Nat],
         credits' = IF c.then = "mark"
                    THEN [credits EXCEPT ![c.holds.found.transfer] = @ + 1] ELSE credits,
         UNCHANGED <<held, consumed>>
  PROVE  RefillInv'
<1>1. c \in RefillRecords /\ c.id \in RefillKeys /\ Stage(c) = c.then
  BY DEF CallFits, RefillRecords, Stage, SaveSteps
<1>2. c.then = "mark" => c.holds.found.transfer \in Refills
  BY <1>1 DEF CallFits, CreatedFor
<1>3. RefillShape'
  BY <1>1, <1>2 DEF RefillInv, RefillShape
<1>4. /\ transferRow'[c.id] = w /\ w # Null
      /\ \A k \in RefillKeys : k # c.id => transferRow'[k] = transferRow[k]
      /\ transferCall'[p] = d /\ \A x \in Calls : x # p => transferCall'[x] = transferCall[x]
  BY <1>1, RefillDisjoint DEF RefillInv, RefillShape
<1>5. \A s \in Refills : credits'[s] >= credits[s]
  BY <1>2 DEF RefillInv, RefillShape
<1>6. Grows
  BY <1>4, <1>5, RefillDisjoint DEF Grows
<1>7. RowFits(c.id, transferRow[c.id])'
  <2>1. PICK k \in RefillKeys : k = c.id
    BY <1>1
  <2>2. RowFits(k, w)'
    BY <1>3, <1>6, <2>1, RowsStayFit DEF RefillInv
  <2> QED
    BY <1>4, <2>1, <2>2
<1>8. d = Replenishment!Idle \/ CallFits(transferCall[p])'
  <2> SUFFICES ASSUME d # Replenishment!Idle PROVE CallFits(d)'
    BY <1>4
  <2>1. /\ d \in RefillRecords /\ d.at = c.then /\ d.at # "idle" /\ d.holds = c.holds
        /\ Stage(d) = Stage(c) /\ d.at \in {"destination", "mark", "fulfilled"}
    BY <1>1 DEF RefillRecords, Stage, SaveSteps
  <2>2. CallFits(c)'
    BY <1>3, <1>6, CallsStayFit DEF RefillInv
  <2>3. d.at = "mark" => credits'[d.holds.found.transfer] >= 1
    BY <1>1, <1>2, <2>1 DEF RefillInv, RefillShape
  <2> QED
    BY <2>1, <2>2, <2>3 DEF CallFits, Stage, SaveSteps
<1>9. \A k \in RefillKeys : transferRow'[k] = transferRow[k] \/ RowFits(k, transferRow[k])'
  <2> SUFFICES ASSUME NEW k \in RefillKeys, k = c.id PROVE RowFits(k, transferRow[k])'
    BY <1>4
  <2> QED
    BY <1>7
<1> QED
  BY <1>3, <1>4, <1>6, <1>8, <1>9, StepFits

\* What an UPDATE leaves in the row fits, when the row and the entity do.
LEMMA WrittenFits ==
  ASSUME NEW k \in RefillKeys, NEW r, r # Null, r = transferRow[k], RowFits(k, r), NEW e, EntityFits(k, e),
         NEW columns, NEW w, w = Replenishment!Updated(r, e, columns),
         k \in KitchenZones => Replenishment!StockFits(w)
  PROVE  w \in RefillRows /\ RowFits(k, w) /\ (k \in Refills => w.note = r.note)
<1>1. CASE k \in KitchenZones
  <2>1. w \in Replenishment!StockRecords
    BY <1>1 DEF RowFits, EntityFits, Replenishment!Updated, Replenishment!StockRecords
  <2> QED
    BY <1>1, <2>1, RefillDisjoint DEF RowFits, RefillRows
<1>2. CASE k \in Refills
  <2>1. /\ r \in Replenishment!TransferRecords /\ e \in Replenishment!TransferRecords
        /\ e.note = r.note /\ TransferFits(k, r) /\ TransferFits(k, e)
    BY <1>2 DEF RowFits, EntityFits, CreatedFor
  <2>2. /\ w \in Replenishment!TransferRecords /\ w.note = r.note
        /\ w.status \in {r.status, e.status}
    BY <2>1 DEF Replenishment!Updated, Replenishment!TransferRecords
  <2> QED
    BY <1>2, <2>1, <2>2, RefillDisjoint DEF RowFits, RefillRows, TransferFits
<1>3. CASE k \in Requests
  <2>1. /\ r \in Replenishment!RequestRecords /\ e \in Replenishment!RequestRecords
        /\ RequestFits(k, r) /\ RequestFits(k, e)
    BY <1>3 DEF RowFits, EntityFits
  <2>2. /\ w \in Replenishment!RequestRecords /\ w.transfer \in {r.transfer, e.transfer}
        /\ w.status \in {r.status, e.status}
    BY <2>1 DEF Replenishment!Updated, Replenishment!RequestRecords
  <2> QED
    BY <1>3, <2>1, <2>2, RefillDisjoint DEF RowFits, RefillRows, RequestFits
<1> QED
  BY <1>1, <1>2, <1>3 DEF RefillKeys

LEMMA RefillCompare ==
  ASSUME RefillInv, NEW p \in Calls, Replenishment!CompareSave(p), UNCHANGED Replenishment!ghostVars
  PROVE  RefillInv'
<1>1. PICK c : c = transferCall[p]
  OBVIOUS
<1>2. /\ CallFits(c) /\ c.at = "compare" /\ transferRow[c.id] # Null /\ c \in RefillRecords
      /\ EntityFits(c.id, c.entity)
  BY <1>1 DEF Replenishment!CompareSave, RefillInv, Replenishment!Idle, CallFits, SaveSteps
<1>3. PICK columns : columns = Replenishment!Differing(c.entity, transferRow[c.id])
  OBVIOUS
<1>4. columns \in SUBSET Columns
  <2>1. DOMAIN c.entity \subseteq Columns
    BY <1>2
    DEF EntityFits, RefillRecords, RefillKeys, Columns, Replenishment!StockRecords,
        Replenishment!TransferRecords, Replenishment!RequestRecords
  <2> QED
    BY <1>3, <2>1 DEF Replenishment!Differing
<1>5. PICK d : d = [c EXCEPT !.at = "update", !.columns = columns]
  OBVIOUS
<1>6. /\ transferCall' = [transferCall EXCEPT ![p] = d]
      /\ UNCHANGED <<transferRow, debits, credits, held, consumed>>
  <2>1. transferCall' = [transferCall EXCEPT ![p].at = "update", ![p].columns = columns]
    BY <1>1, <1>2, <1>3 DEF Replenishment!CompareSave
  <2> QED
    BY <1>1, <1>5, <2>1 DEF Replenishment!CompareSave, Replenishment!ghostVars, RefillInv, RefillShape
<1>7. /\ d \in RefillRecords /\ d.at = "update" /\ d.id = c.id /\ d.entity = c.entity
      /\ d.then = c.then /\ d.holds = c.holds
  BY <1>2, <1>4, <1>5 DEF RefillRecords, SaveSteps
<1>8. CallFits(d)
  BY <1>2, <1>7 DEF CallFits, Stage, SaveSteps
<1> QED
  BY <1>6, <1>8, CallStep

LEMMA RefillSave ==
  ASSUME RefillInv, NEW p \in Calls, Replenishment!Save(p)
  PROVE  RefillInv'
<1>1. PICK c : c = transferCall[p]
  OBVIOUS
<1>2. CASE Replenishment!CompareSave(p) /\ UNCHANGED Replenishment!ghostVars
  BY <1>2, RefillCompare
<1>3. ASSUME c.at \in {"update", "insert"}
      PROVE  /\ CallFits(c) /\ c \in RefillRecords /\ c.id \in RefillKeys
             /\ EntityFits(c.id, c.entity)
             /\ c.at = "update" => transferRow[c.id] # Null
             /\ c.at = "insert" => c.id \in KitchenZones /\ Replenishment!StockFits(c.entity)
             /\ RowFits(c.id, transferRow[c.id])
             /\ c.then \in {"destination", "mark"} => c.holds.found.transfer \in Refills
  BY <1>1, <1>3
  DEF RefillInv, Replenishment!Idle, CallFits, SaveSteps, RefillRecords, Stage, CreatedFor
<1>4. CASE /\ Replenishment!Fails(p) /\ c.at \in {"update", "insert"}
           /\ Replenishment!Moves(p, "destination", debits)
           /\ Replenishment!Moves(p, "mark", credits)
           /\ UNCHANGED <<held, consumed>>
  <2>1. /\ transferCall' = [transferCall EXCEPT ![p] = Replenishment!Idle]
        /\ UNCHANGED transferRow /\ transferCall'[p].at = "idle"
    BY <1>4 DEF Replenishment!Fails, Replenishment!Idle, RefillInv, RefillShape
  <2>2. UNCHANGED <<debits, credits, held, consumed>>
    BY <1>4, <2>1 DEF Replenishment!Moves
  <2> QED
    BY <2>1, <2>2, CallStep
<1>5. ASSUME c.at \in {"update", "insert"}, NEW columns \in SUBSET Columns,
             Replenishment!GoesTo(p, [c EXCEPT !.columns = columns], c.then),
             Replenishment!Moves(p, "destination", debits),
             Replenishment!Moves(p, "mark", credits)
      PROVE  \E d :
               /\ transferCall' = [transferCall EXCEPT ![p] = d]
               /\ \/ d = Replenishment!Idle
                  \/ d \in RefillRecords /\ d.at = c.then /\ d.at # "idle" /\ d.id = c.id /\ d.holds = c.holds
               /\ debits' \in [Refills -> Nat]
               /\ credits' = IF c.then = "mark"
                             THEN [credits EXCEPT ![c.holds.found.transfer] = @ + 1] ELSE credits
  <2>1. PICK d : d = IF c.then = "idle" THEN Replenishment!Idle
                     ELSE [[c EXCEPT !.columns = columns] EXCEPT !.at = c.then]
    OBVIOUS
  <2>2. transferCall' = [transferCall EXCEPT ![p] = d] /\ transferCall'[p] = d
    BY <1>5, <2>1 DEF Replenishment!GoesTo, RefillInv, RefillShape
  <2>3. \/ c.then = "idle" /\ d = Replenishment!Idle
        \/ d \in RefillRecords /\ d.at = c.then /\ d.at # "idle" /\ d.id = c.id /\ d.holds = c.holds
    BY <1>3, <1>5, <2>1 DEF RefillRecords
  <2>4. debits' \in [Refills -> Nat]
    BY <1>1, <1>3, <1>5, <2>2 DEF Replenishment!Moves, RefillInv, RefillShape
  <2>5. credits' = IF c.then = "mark"
                   THEN [credits EXCEPT ![c.holds.found.transfer] = @ + 1] ELSE credits
    BY <1>1, <1>5, <2>2, <2>3 DEF Replenishment!Moves
  <2> QED
    BY <2>2, <2>3, <2>4, <2>5
<1>6. CASE /\ Replenishment!UpdateSave(p, transferCall[p].id \in KitchenZones =>
                                         Replenishment!StockFits(Replenishment!Written(p)))
           /\ Replenishment!Moves(p, "destination", debits)
           /\ Replenishment!Moves(p, "mark", credits)
           /\ UNCHANGED <<held, consumed>>
  <2>1. c.at = "update"
    BY <1>1, <1>6 DEF Replenishment!UpdateSave
  <2>2. CASE Replenishment!Fails(p)
    BY <1>4, <1>6, <2>1, <2>2
  <2>3. CASE ~Replenishment!Fails(p)
    <3>1. PICK w : w = Replenishment!Updated(transferRow[c.id], c.entity, c.columns)
      OBVIOUS
    <3>2. /\ c.id \in KitchenZones => Replenishment!StockFits(w)
          /\ transferRow' = [transferRow EXCEPT ![c.id] = w]
          /\ Replenishment!GoesTo(p, [c EXCEPT !.columns = {}], c.then)
      BY <1>1, <1>3, <1>6, <2>1, <2>3, <3>1 DEF Replenishment!UpdateSave, Replenishment!Written
    <3>3. w \in RefillRows /\ RowFits(c.id, w) /\ (c.id \in Refills => w.note = transferRow[c.id].note)
      BY <1>3, <2>1, <3>1, <3>2, WrittenFits
    <3>4. PICK d :
          /\ transferCall' = [transferCall EXCEPT ![p] = d]
          /\ \/ d = Replenishment!Idle
             \/ d \in RefillRecords /\ d.at = c.then /\ d.at # "idle" /\ d.id = c.id /\ d.holds = c.holds
          /\ debits' \in [Refills -> Nat]
          /\ credits' = IF c.then = "mark"
                        THEN [credits EXCEPT ![c.holds.found.transfer] = @ + 1] ELSE credits
      BY <1>5, <1>6, <2>1, <3>2
    <3> QED
      BY <1>1, <1>3, <1>6, <2>1, <3>2, <3>3, <3>4, SaveArrives
  <2> QED
    BY <2>2, <2>3
<1>7. CASE /\ Replenishment!InsertSave(p)
           /\ Replenishment!Moves(p, "destination", debits)
           /\ Replenishment!Moves(p, "mark", credits)
           /\ UNCHANGED <<held, consumed>>
  <2>1. c.at = "insert"
    BY <1>1, <1>7 DEF Replenishment!InsertSave
  <2>2. CASE Replenishment!Fails(p)
    BY <1>4, <1>7, <2>1, <2>2
  <2>3. CASE ~Replenishment!Fails(p)
    <3>1. /\ transferRow' = [transferRow EXCEPT ![c.id] = c.entity]
          /\ Replenishment!GoesTo(p, c, c.then)
      BY <1>1, <1>7, <2>3 DEF Replenishment!InsertSave
    <3>2. c = [c EXCEPT !.columns = c.columns] /\ c.columns \in SUBSET Columns
      BY <1>3, <2>1 DEF RefillRecords
    <3>3. Replenishment!GoesTo(p, [c EXCEPT !.columns = c.columns], c.then)
      BY <3>1, <3>2
    <3>4. c.entity \in RefillRows /\ RowFits(c.id, c.entity) /\ c.id \notin Refills
      BY <1>3, <2>1, RefillDisjoint DEF EntityFits, RowFits, RefillRows
    <3>5. PICK d :
          /\ transferCall' = [transferCall EXCEPT ![p] = d]
          /\ \/ d = Replenishment!Idle
             \/ d \in RefillRecords /\ d.at = c.then /\ d.at # "idle" /\ d.id = c.id /\ d.holds = c.holds
          /\ debits' \in [Refills -> Nat]
          /\ credits' = IF c.then = "mark"
                        THEN [credits EXCEPT ![c.holds.found.transfer] = @ + 1] ELSE credits
      BY <1>5, <1>7, <2>1, <3>2, <3>3
    <3> QED
      BY <1>1, <1>3, <1>7, <2>1, <3>1, <3>4, <3>5, SaveArrives
  <2> QED
    BY <2>2, <2>3
<1> QED
  BY <1>2, <1>6, <1>7 DEF Replenishment!Save

RefillNext == Replenishment!LockedNext \/ Replenishment!ReplenishNext

LEMMA RefillStep ==
  RefillInv /\ [RefillNext]_Replenishment!transferVars => RefillInv'
<1> SUFFICES ASSUME RefillInv, [RefillNext]_Replenishment!transferVars
             PROVE  RefillInv'
  OBVIOUS
<1>1. CASE UNCHANGED Replenishment!transferVars
  BY <1>1
  DEF Replenishment!transferVars, Replenishment!ghostVars, RefillInv, RefillShape, RowFits,
      TransferFits, RequestFits, CallFits, EntityFits, Stage, CreatedFor, Supplied
<1>2. CASE Replenishment!LockedNext
  BY <1>2, RefillCreateTransfer, RefillConfirmAtomic, RefillCancel, RefillSave, RefillReserve, RefillConsume
  DEF Replenishment!LockedNext
<1>3. ASSUME NEW p \in Calls, Replenishment!Crash(p), UNCHANGED Replenishment!ghostVars
      PROVE  RefillInv'
  BY <1>3, CallStep DEF Replenishment!Crash, Replenishment!Fails, Replenishment!ghostVars
<1>4. CASE Replenishment!ReplenishNext
  BY <1>3, <1>4, RefillCreateRequest, RefillApprove, RefillReject, RefillFulfill,
     ConfirmFindKeeps, ConfirmSourceKeeps, ConfirmDestinationKeeps, ConfirmMarkKeeps, FulfillRequestKeeps
  DEF Replenishment!ReplenishNext, Replenishment!ConfirmStep
<1> QED
  BY <1>1, <1>2, <1>3, <1>4 DEF RefillNext

LEMMA RefillPromises ==
  RefillInv => /\ Replenishment!TransferTypeOK
               /\ Replenishment!ConfirmedWasMoved
               /\ Replenishment!FulfilledWasSupplied
BY RefillDisjoint
DEF RefillInv, RowFits, TransferFits, RequestFits, Supplied, CreatedFor,
    Replenishment!TransferTypeOK, Replenishment!ConfirmedWasMoved, Replenishment!FulfilledWasSupplied

\* With confirmations without a transaction, races, refused saves and crashes:
\* no column leaves its type, a transfer shows as confirmed and a request as
\* fulfilled only once units arrived for it.
THEOREM StatusesFollowTheUnits ==
  Replenishment!TransferSpec => [](/\ Replenishment!TransferTypeOK
                                   /\ Replenishment!ConfirmedWasMoved
                                   /\ Replenishment!FulfilledWasSupplied)
<1>1. Replenishment!TransferSpec => Replenishment!TransferInit /\ [][RefillNext]_Replenishment!transferVars
  BY PTL DEF Replenishment!TransferSpec, RefillNext
<1> QED
  BY <1>1, RefillStarts, RefillStep, RefillPromises, PTL

-----------------------------------------------------------------------------
(***************************************************************************)
(* Cleaning tasks.  A save holds a task that was given to an agent; as     *)
(* long as the row has none, the save differs from it in the agent and in  *)
(* the status, so it writes both or neither.                               *)
(***************************************************************************)
GivenTasks == {t \in Clean!TaskRecords : t.assigned # Null /\ t.status # "PENDING"}

CleanCalls ==
  [at : {"compare", "update"}, id : Cleanings, entity : GivenTasks,
   columns : SUBSET {"status", "assigned", "zone"}, then : {"idle"}, holds : {Null}]

SavesBoth(c) ==
  /\ cleanRow[c.id] # Null
  /\ c.at = "update" /\ cleanRow[c.id].assigned = Null
     => {"status", "assigned"} \subseteq c.columns

CleanInv ==
  /\ cleanRow \in [Cleanings -> Clean!TaskRecords \union {Null}]
  /\ cleanCall \in [Calls -> CleanCalls \union {Clean!Idle}]
  /\ Clean!StartedHasAgent
  /\ \A p \in Calls : cleanCall[p] # Clean!Idle => SavesBoth(cleanCall[p])

LEMMA CleanStarts == Clean!CleaningInit => CleanInv
BY DEF Clean!CleaningInit, CleanInv, Clean!StartedHasAgent

\* A step that leaves the calls and gives each row it changes an agent, or creates it.
LEMMA CleanRowStep ==
  ASSUME CleanInv, NEW t \in Cleanings, NEW r \in Clean!TaskRecords,
         r.assigned = Null <=> r.status = "PENDING",
         cleanRow[t] # Null => r.assigned # Null,
         cleanRow' = [cleanRow EXCEPT ![t] = r], UNCHANGED cleanCall
  PROVE  CleanInv'
BY RoomsAssumption
DEF Clean!CleaningAssumption, CleanInv, Clean!StartedHasAgent, SavesBoth, CleanCalls

\* A call that begins, to save the task e.
LEMMA CleanCallBegins ==
  ASSUME CleanInv, NEW p \in Calls, NEW t \in Cleanings, cleanRow[t] # Null, NEW e \in GivenTasks,
         cleanCall' = [cleanCall EXCEPT ![p] = Clean!Saving(Clean!NewCall, t, e, "idle")],
         UNCHANGED cleanRow
  PROVE  CleanInv'
<1>1. PICK c : c = Clean!Saving(Clean!NewCall, t, e, "idle")
  OBVIOUS
<1>2. c \in CleanCalls /\ c.at = "compare" /\ c.id = t
  BY <1>1 DEF Clean!Saving, Clean!NewCall, CleanCalls
<1>3. cleanCall' = [cleanCall EXCEPT ![p] = c]
  BY <1>1
<1> QED
  BY <1>2, <1>3 DEF CleanInv, Clean!StartedHasAgent, SavesBoth

LEMMA CleanCompare ==
  ASSUME CleanInv, NEW p \in Calls, Clean!CompareSave(p)
  PROVE  CleanInv'
<1>1. PICK c : c = cleanCall[p]
  OBVIOUS
<1>2. c \in CleanCalls /\ cleanRow[c.id] # Null /\ c.at = "compare"
  BY <1>1 DEF Clean!CompareSave, CleanInv, SavesBoth, Clean!Idle
<1>3. PICK d : d = [c EXCEPT !.at = "update", !.columns = Clean!Differing(c.entity, cleanRow[c.id])]
  OBVIOUS
<1>4. /\ d \in CleanCalls /\ d.id = c.id
      /\ cleanRow[c.id].assigned = Null => {"status", "assigned"} \subseteq d.columns
  BY <1>2, <1>3 DEF CleanCalls, GivenTasks, Clean!Differing, Clean!TaskRecords, CleanInv, Clean!StartedHasAgent
<1>5. UNCHANGED cleanRow /\ cleanCall' = [cleanCall EXCEPT ![p] = d]
  BY <1>1, <1>2, <1>3 DEF Clean!CompareSave, CleanInv
<1> QED
  BY <1>2, <1>4, <1>5 DEF CleanInv, Clean!StartedHasAgent, SavesBoth

LEMMA CleanUpdate ==
  ASSUME CleanInv, NEW p \in Calls, Clean!UpdateSave(p, TRUE)
  PROVE  CleanInv'
<1>1. PICK c : c = cleanCall[p]
  OBVIOUS
<1>2. c \in CleanCalls /\ SavesBoth(c) /\ c.at = "update"
  BY <1>1 DEF Clean!UpdateSave, CleanInv, Clean!Idle
<1>3. PICK r : r = Clean!Updated(cleanRow[c.id], c.entity, c.columns)
  OBVIOUS
<1>4. cleanRow[c.id] \in Clean!TaskRecords /\ c.id \in Cleanings
  BY <1>2 DEF CleanInv, CleanCalls, SavesBoth
<1>5. r \in Clean!TaskRecords
  BY <1>2, <1>3, <1>4 DEF Clean!Updated, CleanCalls, GivenTasks, Clean!TaskRecords
<1>6. r.assigned # Null /\ r.status # "PENDING"
  BY <1>2, <1>3, <1>4 DEF Clean!Updated, CleanCalls, GivenTasks, Clean!TaskRecords, SavesBoth,
     CleanInv, Clean!StartedHasAgent
<1>7. /\ cleanRow' = [cleanRow EXCEPT ![c.id] = r]
      /\ cleanCall' = [cleanCall EXCEPT ![p] = Clean!Idle]
  BY <1>1, <1>2, <1>3 DEF Clean!UpdateSave, Clean!Written, Clean!GoesTo, CleanCalls, SavesBoth
<1> QED
  BY <1>2, <1>4, <1>5, <1>6, <1>7, RoomsAssumption
  DEF Clean!CleaningAssumption, CleanInv, Clean!StartedHasAgent, SavesBoth, CleanCalls

LEMMA CleanStep == CleanInv /\ [Clean!CleaningNext]_Clean!saveVars => CleanInv'
<1> SUFFICES ASSUME CleanInv, [Clean!CleaningNext]_Clean!saveVars PROVE CleanInv'
  OBVIOUS
<1>1. CASE UNCHANGED Clean!saveVars
  BY <1>1 DEF Clean!saveVars, CleanInv, Clean!StartedHasAgent, SavesBoth
<1>2. ASSUME NEW t \in Cleanings, NEW e \in Agents \union {Null}, NEW zone \in BOOLEAN,
             Clean!CreateTask(t, e, zone)
      PROVE  CleanInv'
  <2>1. /\ Clean!NewTask(e, zone) \in Clean!TaskRecords
        /\ Clean!NewTask(e, zone).assigned = Null <=> Clean!NewTask(e, zone).status = "PENDING"
    BY DEF Clean!NewTask, Clean!TaskRecords
  <2> QED
    BY <1>2, <2>1, CleanRowStep DEF Clean!CreateTask
<1>3. ASSUME NEW t \in Cleanings, NEW e \in Agents, Clean!ClaimAndStart(t, e)
      PROVE  CleanInv'
  <2>1. PICK r : r = [cleanRow[t] EXCEPT !.assigned = e, !.status = "IN_PROGRESS"]
    OBVIOUS
  <2>2. cleanRow[t] \in Clean!TaskRecords
    BY <1>3 DEF Clean!ClaimAndStart, CleanInv
  <2>3. r \in Clean!TaskRecords /\ r.assigned # Null /\ r.status # "PENDING"
    BY <2>1, <2>2, RoomsAssumption DEF Clean!CleaningAssumption, Clean!TaskRecords
  <2>4. cleanRow' = [cleanRow EXCEPT ![t] = r] /\ UNCHANGED cleanCall
    BY <1>3, <2>1 DEF Clean!ClaimAndStart, CleanInv
  <2> QED
    BY <2>3, <2>4, CleanRowStep
<1>4. ASSUME NEW p \in Calls, NEW t \in Cleanings, NEW e \in Agents, Clean!AssignTask(p, t, e)
      PROVE  CleanInv'
  <2>1. [cleanRow[t] EXCEPT !.assigned = e, !.status = "ASSIGNED"] \in GivenTasks
    BY <1>4, RoomsAssumption
    DEF Clean!CleaningAssumption, Clean!AssignTask, CleanInv, GivenTasks, Clean!TaskRecords
  <2> QED
    BY <1>4, <2>1, CleanCallBegins DEF Clean!AssignTask
<1>5. ASSUME NEW p \in Calls, NEW t \in Cleanings, NEW status \in DOMAIN Clean!CleaningFrom,
             Clean!TransitionTask(p, t, status)
      PROVE  CleanInv'
  <2>1. status \in {"IN_PROGRESS", "DONE", "VERIFIED"} /\ cleanRow[t].status # "PENDING"
    BY <1>5 DEF Clean!CleaningFrom, Clean!TransitionTask
  <2>2. [cleanRow[t] EXCEPT !.status = status] \in GivenTasks
    BY <1>5, <2>1 DEF Clean!TransitionTask, CleanInv, Clean!StartedHasAgent, GivenTasks, Clean!TaskRecords
  <2> QED
    BY <1>5, <2>2, CleanCallBegins DEF Clean!TransitionTask
<1>6. ASSUME NEW p \in Calls, Clean!Crash(p)
      PROVE  CleanInv'
  BY <1>6 DEF Clean!Crash, Clean!Fails, CleanInv, Clean!StartedHasAgent, SavesBoth
<1> QED
  BY <1>1, <1>2, <1>3, <1>4, <1>5, <1>6, CleanCompare, CleanUpdate DEF Clean!CleaningNext

\* Cleaning tasks, for all calls, agents and tasks: a task that was started has
\* an agent, and one without an agent is untouched.
THEOREM StartedTasksHaveAgents == Clean!CleaningSpec => []Clean!StartedHasAgent
<1>1. CleanInv => Clean!StartedHasAgent
  BY DEF CleanInv
<1> QED
  BY <1>1, CleanStarts, CleanStep, PTL DEF Clean!CleaningSpec

-----------------------------------------------------------------------------
(***************************************************************************)
(* Bookings.  Two calls may both find the hour free; the constraint of the *)
(* table is asked again with each row that is written.                     *)
(***************************************************************************)
BookingKeys ==
  Bookings \union CleaningsOf(Bookings) \union {Booking!Prep(b) : b \in Bookings}

BookingCalls ==
  [at : {"book", "compare", "update", "insert"}, id : Bookings \union {Null},
   entity : Booking!BookingRecords,
   columns : SUBSET {"status", "start", "end", "services"}, then : {"idle"}, holds : {Null}]

BookingInv ==
  /\ roomRow \in [BookingKeys -> Booking!BookingRecords \union {Null}]
  /\ roomCall \in [Calls -> BookingCalls \union {Booking!Idle}]
  /\ \A p \in Calls : roomCall[p].at \in {"compare", "update", "insert"} => roomCall[p].id \in Bookings
  /\ Booking!NoDoubleBooking

LEMMA BookingStarts == Booking!MeetingInit => BookingInv
BY DEF Booking!MeetingInit, BookingInv, BookingKeys, Booking!NoDoubleBooking, Booking!Confirmed, Booking!Idle

\* Not excluded, not booked twice.
LEMMA ExcludedKeepsApart ==
  ASSUME BookingInv, NEW b \in Bookings, NEW r \in Booking!BookingRecords,
         ~Booking!Excluded(b, r), roomRow' = [roomRow EXCEPT ![b] = r]
  PROVE  Booking!NoDoubleBooking'
<1>1. roomRow'[b] = r /\ \A x \in Bookings \ {b} : roomRow'[x] = roomRow[x]
  BY DEF BookingInv, BookingKeys
<1>2. Booking!Confirmed' \ {b} = Booking!Confirmed \ {b}
  BY <1>1 DEF Booking!Confirmed
<1>3. ASSUME NEW x \in Booking!Confirmed' \ {b}, b \in Booking!Confirmed'
      PROVE  ~Booking!Overlap(roomRow'[x], r)
  BY <1>1, <1>2, <1>3, RoomsAssumption DEF Booking!Excluded, Booking!Confirmed, Booking!MeetingAssumption
<1>4. \A x, y : Booking!Overlap(x, y) <=> Booking!Overlap(y, x)
  BY DEF Booking!Overlap
<1>5. Booking!Confirmed \subseteq Bookings /\ Booking!Confirmed' \subseteq Bookings
  BY DEF Booking!Confirmed
<1>6. ASSUME NEW x \in Booking!Confirmed', NEW y \in Booking!Confirmed' \ {x}
      PROVE  ~Booking!Overlap(roomRow'[x], roomRow'[y])
  <2>1. CASE x = b
    BY <1>1, <1>3, <1>4, <1>6, <2>1
  <2>2. CASE y = b
    BY <1>1, <1>3, <1>4, <1>6, <2>2
  <2>3. CASE x # b /\ y # b
    BY <1>1, <1>2, <1>5, <1>6, <2>3 DEF BookingInv, Booking!NoDoubleBooking
  <2> QED
    BY <2>1, <2>2, <2>3
<1> QED
  BY <1>6 DEF Booking!NoDoubleBooking

\* A call that begins or moves on, and writes nothing.
LEMMA BookingCallStep ==
  ASSUME BookingInv, NEW p \in Calls, NEW d \in BookingCalls \union {Booking!Idle},
         d.at \in {"compare", "update", "insert"} => d.id \in Bookings,
         roomCall' = [roomCall EXCEPT ![p] = d], UNCHANGED roomRow
  PROVE  BookingInv'
BY DEF BookingInv, Booking!NoDoubleBooking, Booking!Confirmed

\* A call that writes a row that the constraint lets pass, and ends.
LEMMA BookingRowStep ==
  ASSUME BookingInv, NEW p \in Calls, NEW b \in Bookings, NEW r \in Booking!BookingRecords,
         ~Booking!Excluded(b, r), roomRow' = [roomRow EXCEPT ![b] = r],
         roomCall' = [roomCall EXCEPT ![p] = Booking!Idle]
  PROVE  BookingInv'
<1>1. Booking!NoDoubleBooking'
  BY ExcludedKeepsApart
<1> QED
  BY <1>1 DEF BookingInv, BookingKeys, Booking!Idle

LEMMA BookingStep ==
  BookingInv /\ [Booking!BookingNext \/ Booking!MeetingCrash]_Booking!meetingVars => BookingInv'
<1> SUFFICES ASSUME BookingInv, [Booking!BookingNext \/ Booking!MeetingCrash]_Booking!meetingVars
             PROVE  BookingInv'
  OBVIOUS
<1>1. CASE UNCHANGED Booking!meetingVars
  BY <1>1 DEF Booking!meetingVars, Booking!saveVars, BookingInv, Booking!NoDoubleBooking, Booking!Confirmed
<1>2. ASSUME NEW p \in Calls, NEW start \in Booking!Hours, NEW end \in Booking!Hours,
             Booking!CreateBooking(p, start, end)
      PROVE  BookingInv'
  <2>1. PICK r : r = [status |-> "CONFIRMED", start |-> start, end |-> end, services |-> 0]
    OBVIOUS
  <2>2. PICK d : d = [Booking!NewCall EXCEPT !.at = "book", !.entity = r]
    OBVIOUS
  <2>3. r \in Booking!BookingRecords
    BY <2>1 DEF Booking!BookingRecords
  <2>4. d \in BookingCalls /\ d.at = "book"
    BY <2>2, <2>3 DEF Booking!NewCall, BookingCalls
  <2>5. roomCall' = [roomCall EXCEPT ![p] = d] /\ UNCHANGED roomRow
    BY <1>2, <2>1, <2>2 DEF Booking!CreateBooking
  <2> QED
    BY <2>4, <2>5, BookingCallStep
<1>3. ASSUME NEW p \in Calls, NEW b \in Bookings, Booking!InsertBooking(p, b)
      PROVE  BookingInv'
  <2>1. roomCall[p] \in BookingCalls /\ roomCall[p].entity \in Booking!BookingRecords
    BY <1>3 DEF Booking!InsertBooking, BookingInv, BookingCalls, Booking!Idle
  <2>2. CASE Booking!Excluded(b, roomCall[p].entity)
    BY <1>3, <2>2, BookingCallStep DEF Booking!InsertBooking, Booking!Fails, Booking!Idle
  <2>3. CASE ~Booking!Excluded(b, roomCall[p].entity)
    BY <1>3, <2>1, <2>3, BookingRowStep DEF Booking!InsertBooking, Booking!GoesTo
  <2> QED
    BY <2>2, <2>3
<1>4. ASSUME NEW p \in Calls, NEW b \in Bookings, NEW e \in Booking!BookingRecords,
             roomCall' = [roomCall EXCEPT ![p] = Booking!Saving(Booking!NewCall, b, e, "idle")],
             UNCHANGED roomRow
      PROVE  BookingInv'
  <2>1. PICK d : d = Booking!Saving(Booking!NewCall, b, e, "idle")
    OBVIOUS
  <2>2. d \in BookingCalls /\ d.id = b
    BY <2>1 DEF Booking!Saving, Booking!NewCall, BookingCalls
  <2> QED
    BY <1>4, <2>1, <2>2, BookingCallStep
<1>5. ASSUME NEW p \in Calls, NEW b \in Bookings, Booking!CancelBooking(p, b)
      PROVE  BookingInv'
  <2>1. [roomRow[b] EXCEPT !.status = "CANCELLED"] \in Booking!BookingRecords
    BY <1>5 DEF Booking!CancelBooking, BookingInv, BookingKeys, Booking!BookingRecords
  <2> QED
    BY <1>4, <1>5, <2>1 DEF Booking!CancelBooking
<1>6. ASSUME NEW p \in Calls, NEW b \in Bookings, Booking!OrderServices(p, b)
      PROVE  BookingInv'
  <2>1. [roomRow[b] EXCEPT !.services = 1] \in Booking!BookingRecords
    BY <1>6 DEF Booking!OrderServices, Booking!Confirmed, BookingInv, BookingKeys, Booking!BookingRecords
  <2> QED
    BY <1>4, <1>6, <2>1 DEF Booking!OrderServices
<1>7. ASSUME NEW p \in Calls, Booking!CompareSave(p), UNCHANGED team
      PROVE  BookingInv'
  <2>1. PICK c : c = roomCall[p]
    OBVIOUS
  <2>2. c \in BookingCalls /\ c.id \in Bookings /\ roomRow[c.id] \in Booking!BookingRecords \union {Null}
    BY <1>7, <2>1 DEF Booking!CompareSave, BookingInv, BookingKeys, Booking!Idle
  <2>3. PICK d : d = IF roomRow[c.id] = Null THEN [c EXCEPT !.at = "insert"]
                     ELSE [c EXCEPT !.at = "update", !.columns = Booking!Differing(c.entity, roomRow[c.id])]
    OBVIOUS
  <2>4. d \in BookingCalls /\ d.id \in Bookings
    BY <2>2, <2>3 DEF BookingCalls, Booking!Differing, Booking!BookingRecords
  <2>5. roomCall' = [roomCall EXCEPT ![p] = d] /\ UNCHANGED roomRow
    BY <1>7, <2>1, <2>3 DEF Booking!CompareSave, Booking!GoesTo, BookingInv
  <2> QED
    BY <2>4, <2>5, BookingCallStep
<1>8. ASSUME NEW p \in Calls,
             Booking!UpdateSave(p, roomCall[p].id \in Bookings /\ roomRow[roomCall[p].id] # Null
                                   => ~Booking!Excluded(roomCall[p].id, Booking!Written(p)))
      PROVE  BookingInv'
  <2>1. PICK c : c = roomCall[p]
    OBVIOUS
  <2>2. c \in BookingCalls /\ c.id \in Bookings /\ roomRow[c.id] \in Booking!BookingRecords \union {Null}
    BY <1>8, <2>1 DEF Booking!UpdateSave, BookingInv, BookingKeys, Booking!Idle
  <2>3. PICK r : r = Booking!Written(p)
    OBVIOUS
  <2>4. CASE ~(roomRow[c.id] # Null => ~Booking!Excluded(c.id, r))
    BY <1>8, <2>1, <2>2, <2>3, <2>4, BookingCallStep DEF Booking!UpdateSave, Booking!Fails, Booking!Idle
  <2>5. CASE roomRow[c.id] # Null => ~Booking!Excluded(c.id, r)
    <3>1. /\ roomRow' = [roomRow EXCEPT ![c.id] = r]
          /\ roomCall' = [roomCall EXCEPT ![p] = Booking!Idle]
      BY <1>8, <2>1, <2>2, <2>3, <2>5 DEF Booking!UpdateSave, Booking!GoesTo, BookingCalls
    <3>2. CASE roomRow[c.id] = Null
      <4>1. UNCHANGED roomRow
        BY <2>1, <2>2, <2>3, <3>1, <3>2 DEF Booking!Written, BookingInv
      <4> QED
        BY <3>1, <4>1, BookingCallStep DEF Booking!Idle
    <3>3. CASE roomRow[c.id] # Null
      <4>1. r \in Booking!BookingRecords
        BY <2>1, <2>2, <2>3, <3>3 DEF Booking!Written, Booking!Updated, BookingCalls, Booking!BookingRecords
      <4> QED
        BY <2>2, <2>5, <3>1, <3>3, <4>1, BookingRowStep
    <3> QED
      BY <3>2, <3>3
  <2> QED
    BY <2>4, <2>5
<1>9. ASSUME NEW p \in Calls, Booking!Crash(p)
      PROVE  BookingInv'
  BY <1>9, BookingCallStep DEF Booking!Crash, Booking!Fails, Booking!Idle
<1> QED
  BY <1>1, <1>2, <1>3, <1>5, <1>6, <1>7, <1>8, <1>9
  DEF Booking!BookingNext, Booking!MeetingCrash, Booking!SaveMeeting

\* Bookings, for all calls, hours and bookings, with saves of stale entities and
\* processes that stop: no two confirmed ones overlap.
THEOREM RoomsAreBookedOnce == Booking!BookingSpec => []Booking!NoDoubleBooking
<1>1. BookingInv => Booking!NoDoubleBooking
  BY DEF BookingInv
<1> QED
  BY <1>1, BookingStarts, BookingStep, PTL DEF Booking!BookingSpec

-----------------------------------------------------------------------------
(***************************************************************************)
(* Preparations.  A call that is about to complete one has seen the        *)
(* cleaning task of the booking, or creates it; no step deletes a row, so  *)
(* what it saw stays.                                                      *)
(***************************************************************************)
Preparation(b) == Meeting!Prep(b)
CleaningOf(b) == Meeting!Clean(b)

RoomKeys ==
  Prepared \union CleaningsOf(Prepared) \union {Preparation(b) : b \in Prepared}

RoomRows == Meeting!BookingRecords \union Meeting!PreparationRecords \union Meeting!TaskRecords

RoomColumns == {"status", "start", "end", "services", "assigned", "marks"}

Teams == (SUBSET {one}) \union {Null}

RoomCalls ==
  [at : {"book", "team", "clean", "compare", "update"}, id : RoomKeys \union {Null},
   entity : RoomRows \union {Null}, columns : SUBSET RoomColumns, then : {"idle"},
   holds : Teams]

SavedRooms == Prepared \union {Preparation(b) : b \in Prepared}

\* The rows of the three tables.
RoomFits(k, r) ==
  /\ k \in Prepared => r \in Meeting!BookingRecords
  /\ \A b \in Prepared :
       /\ k = Preparation(b) => r \in Meeting!PreparationRecords
       /\ k = CleaningOf(b) => r \in Meeting!TaskRecords

\* A completed preparation has a cleaning task.
CleaningExists(k, r) ==
  \A b \in Prepared :
    k = Preparation(b) /\ r.status \in Meeting!Done => roomRow[CleaningOf(b)] # Null

RoomCallFits(c) ==
  /\ c \in RoomCalls
  /\ c.at = "book" => c.entity \in Meeting!BookingRecords
  /\ c.at \in {"clean", "compare", "update"} =>
       /\ c.id \in SavedRooms
       /\ roomRow[c.id] # Null
       /\ RoomFits(c.id, c.entity)
  /\ c.at \in {"compare", "update"} => CleaningExists(c.id, c.entity)

RoomInv ==
  /\ roomRow \in [RoomKeys -> RoomRows \union {Null}]
  /\ roomCall \in [Calls -> RoomCalls \union {Meeting!Idle}]
  /\ \A k \in RoomKeys : roomRow[k] # Null => RoomFits(k, roomRow[k]) /\ CleaningExists(k, roomRow[k])
  /\ \A p \in Calls : roomCall[p] # Meeting!Idle => RoomCallFits(roomCall[p])

LEMMA RoomKeysDiffer ==
  /\ \A b, x \in Prepared : b # Preparation(x) /\ b # CleaningOf(x) /\ Preparation(b) # CleaningOf(x)
  /\ \A b, x \in Prepared : Preparation(b) = Preparation(x) => b = x
  /\ \A b \in Prepared : {b, Preparation(b), CleaningOf(b)} \subseteq RoomKeys
  /\ Null \notin RoomRows
<1>1. \A b, x \in Prepared : Preparation(b) # CleaningOf(x)
  BY DEF Preparation, CleaningOf, Meeting!Prep, Meeting!Clean
<1>2. \A b, x \in Prepared : b # Preparation(x) /\ b # CleaningOf(x)
  BY RoomsAssumption DEF Meeting!MeetingAssumption, Preparation, CleaningOf
<1>3. \A b, x \in Prepared : Preparation(b) = Preparation(x) => b = x
  BY DEF Preparation, Meeting!Prep
<1>4. \A b \in Prepared : {b, Preparation(b), CleaningOf(b)} \subseteq RoomKeys
  BY DEF RoomKeys, CleaningsOf, Preparation, CleaningOf, Meeting!Clean
<1>5. Null \notin RoomRows
  BY RoomsAssumption DEF Meeting!MeetingAssumption, RoomRows
<1> QED
  BY <1>1, <1>2, <1>3, <1>4, <1>5

LEMMA RoomStarts == Meeting!MeetingInit => RoomInv
BY DEF Meeting!MeetingInit, RoomInv, RoomKeys, Preparation

\* While no row is deleted, calls that fit go on to fit.
LEMMA RoomCallsStayFit ==
  ASSUME NEW c, RoomCallFits(c), \A k \in RoomKeys : roomRow[k] # Null => roomRow'[k] # Null
  PROVE  RoomCallFits(c)'
<1>1. SavedRooms \subseteq RoomKeys
  BY RoomKeysDiffer DEF SavedRooms
<1> QED
  BY <1>1, RoomKeysDiffer DEF RoomCallFits, CleaningExists

\* A step that moves one call and no row.
LEMMA RoomCallStep ==
  ASSUME RoomInv, NEW p \in Calls, NEW d, d = Meeting!Idle \/ RoomCallFits(d),
         roomCall' = [roomCall EXCEPT ![p] = d], UNCHANGED roomRow
  PROVE  RoomInv'
<1>1. d = Meeting!Idle \/ (d \in RoomCalls /\ RoomCallFits(d)')
  BY RoomCallsStayFit DEF RoomCallFits
<1>2. \A q \in Calls : roomCall'[q] = IF q = p THEN d ELSE roomCall[q]
  BY DEF RoomInv
<1>3. ASSUME NEW q \in Calls, roomCall'[q] # Meeting!Idle
      PROVE  RoomCallFits(roomCall[q])'
  <2>1. PICK c : c = roomCall'[q]
    OBVIOUS
  <2>2. RoomCallFits(c)'
    BY <1>1, <1>2, <1>3, <2>1, RoomCallsStayFit DEF RoomInv
  <2> QED
    BY <2>1, <2>2
<1>4. roomCall' \in [Calls -> RoomCalls \union {Meeting!Idle}]
  BY <1>1 DEF RoomInv
<1> QED
  BY <1>3, <1>4 DEF RoomInv, CleaningExists

\* A step that also writes a row that fits.
LEMMA RoomRowStep ==
  ASSUME RoomInv, NEW k \in RoomKeys, NEW r \in RoomRows, RoomFits(k, r), CleaningExists(k, r),
         roomRow' = [roomRow EXCEPT ![k] = r],
         roomCall' \in [Calls -> RoomCalls \union {Meeting!Idle}],
         \A p \in Calls : roomCall'[p] \in {roomCall[p], Meeting!Idle} \/ RoomCallFits(roomCall[p])'
  PROVE  RoomInv'
<1>1. roomRow' \in [RoomKeys -> RoomRows \union {Null}]
  BY DEF RoomInv
<1>2. \A i \in RoomKeys : roomRow'[i] = IF i = k THEN r ELSE roomRow[i]
  BY DEF RoomInv
<1>3. \A i \in RoomKeys : roomRow[i] # Null => roomRow'[i] # Null
  BY <1>2, RoomKeysDiffer
<1>4. ASSUME NEW i \in RoomKeys, roomRow'[i] # Null
      PROVE  RoomFits(i, roomRow'[i]) /\ CleaningExists(i, roomRow[i])'
  <2>1. PICK s : s = roomRow'[i]
    OBVIOUS
  <2>2. RoomFits(i, s) /\ CleaningExists(i, s)
    BY <1>2, <1>4, <2>1 DEF RoomInv
  <2>3. CleaningExists(i, s)'
    BY <1>3, <2>2, RoomKeysDiffer DEF CleaningExists
  <2> QED
    BY <2>1, <2>2, <2>3 DEF CleaningExists
<1>5. ASSUME NEW p \in Calls, roomCall'[p] # Meeting!Idle
      PROVE  RoomCallFits(roomCall[p])'
  <2>1. CASE roomCall'[p] = roomCall[p]
    <3>1. PICK c : c = roomCall[p]
      OBVIOUS
    <3>2. RoomCallFits(c)
      BY <1>5, <2>1, <3>1 DEF RoomInv
    <3>3. RoomCallFits(c)'
      BY <1>3, <3>2, RoomCallsStayFit
    <3> QED
      BY <2>1, <3>1, <3>3
  <2> QED
    BY <1>5, <2>1
<1> QED
  BY <1>1, <1>4, <1>5 DEF RoomInv

\* Calls that begin, by the row and the entity they hold.
LEMMA RoomCallTyped ==
  /\ \A k \in RoomKeys, e \in RoomRows, at \in {"clean", "compare"} :
       [at |-> at, id |-> k, entity |-> e, columns |-> {}, then |-> "idle", holds |-> Null]
         \in RoomCalls
  /\ \A e \in RoomRows :
       [at |-> "book", id |-> Null, entity |-> e, columns |-> {}, then |-> "idle", holds |-> Null]
         \in RoomCalls
  /\ \A k \in RoomKeys, members \in SUBSET {one} :
       [at |-> "team", id |-> k, entity |-> Null, columns |-> {}, then |-> "idle", holds |-> members]
         \in RoomCalls
<1>1. \A members \in SUBSET {one} : members \in Teams
  BY DEF Teams
<1>2. Null \in Teams
  BY DEF Teams
<1> QED
  BY <1>1, <1>2 DEF RoomCalls

\* A call that begins, to save e as the row k.
LEMMA RoomSaves ==
  ASSUME RoomInv, NEW p \in Calls, NEW k \in SavedRooms, roomRow[k] # Null, NEW e \in RoomRows,
         RoomFits(k, e), CleaningExists(k, e),
         roomCall' = [roomCall EXCEPT ![p] = Meeting!Saving(Meeting!NewCall, k, e, "idle")],
         UNCHANGED roomRow
  PROVE  RoomInv'
<1>1. PICK d : d = Meeting!Saving(Meeting!NewCall, k, e, "idle")
  OBVIOUS
<1>2. k \in RoomKeys
  BY RoomKeysDiffer DEF SavedRooms
<1>3. d \in RoomCalls /\ d.at = "compare" /\ d.id = k /\ d.entity = e
  <2>1. d = [at |-> "compare", id |-> k, entity |-> e, columns |-> {},
             then |-> "idle", holds |-> Null]
    BY <1>1 DEF Meeting!Saving, Meeting!NewCall
  <2> QED
    BY <1>2, <2>1, RoomCallTyped
<1>4. RoomCallFits(d)
  BY <1>3 DEF RoomCallFits
<1> QED
  BY <1>1, <1>4, RoomCallStep

LEMMA RoomBookings ==
  ASSUME RoomInv, NEW p \in Calls, NEW b \in Prepared
  PROVE  /\ Meeting!CancelBooking(p, b) => RoomInv'
         /\ Meeting!OrderServices(p, b) => RoomInv'
         /\ Meeting!InsertBooking(p, b) => RoomInv'
<1>1. ASSUME NEW e \in Meeting!BookingRecords
      PROVE  e \in RoomRows /\ RoomFits(b, e) /\ CleaningExists(b, e)
  BY RoomKeysDiffer DEF RoomRows, RoomFits, CleaningExists
<1>2. b \in SavedRooms /\ b \in RoomKeys
  BY DEF SavedRooms, RoomKeys
<1>3. roomRow[b] # Null => roomRow[b] \in Meeting!BookingRecords
  BY <1>2 DEF RoomInv, RoomFits
<1>4. CASE Meeting!CancelBooking(p, b)
  <2>1. [roomRow[b] EXCEPT !.status = "CANCELLED"] \in Meeting!BookingRecords
    BY <1>3, <1>4 DEF Meeting!CancelBooking, Meeting!BookingRecords
  <2> QED
    BY <1>1, <1>2, <1>4, <2>1, RoomSaves DEF Meeting!CancelBooking
<1>5. CASE Meeting!OrderServices(p, b)
  <2>1. [roomRow[b] EXCEPT !.services = 1] \in Meeting!BookingRecords
    BY <1>3, <1>5 DEF Meeting!OrderServices, Meeting!Confirmed, Meeting!BookingRecords
  <2> QED
    BY <1>1, <1>2, <1>5, <2>1, RoomSaves DEF Meeting!OrderServices, Meeting!Confirmed
<1>6. CASE Meeting!InsertBooking(p, b)
  <2>1. CASE Meeting!Excluded(b, roomCall[p].entity)
    BY <1>6, <2>1, RoomCallStep DEF Meeting!InsertBooking, Meeting!Fails
  <2>2. CASE ~Meeting!Excluded(b, roomCall[p].entity)
    <3>1. PICK e : e = roomCall[p].entity
      OBVIOUS
    <3>2. e \in Meeting!BookingRecords
      BY <1>6, <3>1 DEF Meeting!InsertBooking, RoomInv, RoomCallFits, Meeting!Idle
    <3>3. /\ roomRow' = [roomRow EXCEPT ![b] = e]
          /\ roomCall' = [roomCall EXCEPT ![p] = Meeting!Idle]
      BY <1>6, <2>2, <3>1 DEF Meeting!InsertBooking, Meeting!GoesTo
    <3>4. /\ roomCall' \in [Calls -> RoomCalls \union {Meeting!Idle}]
          /\ \A q \in Calls : roomCall'[q] \in {roomCall[q], Meeting!Idle}
      BY <3>3 DEF RoomInv
    <3> QED
      BY <1>1, <1>2, <3>2, <3>3, <3>4, RoomRowStep
  <2> QED
    BY <2>1, <2>2
<1> QED
  BY <1>4, <1>5, <1>6

LEMMA RoomCreates ==
  ASSUME RoomInv, NEW p \in Calls, NEW start \in Meeting!Hours, NEW end \in Meeting!Hours,
         Meeting!CreateBooking(p, start, end)
  PROVE  RoomInv'
<1>1. PICK r : r = [status |-> "CONFIRMED", start |-> start, end |-> end, services |-> 0]
  OBVIOUS
<1>2. PICK d : d = [Meeting!NewCall EXCEPT !.at = "book", !.entity = r]
  OBVIOUS
<1>3. r \in Meeting!BookingRecords /\ r \in RoomRows
  BY <1>1 DEF Meeting!BookingRecords, RoomRows
<1>4. d = [at |-> "book", id |-> Null, entity |-> r, columns |-> {}, then |-> "idle", holds |-> Null]
  BY <1>2 DEF Meeting!NewCall
<1>5. d \in RoomCalls /\ d.at = "book" /\ d.entity = r
  BY <1>3, <1>4, RoomCallTyped
<1>6. roomCall' = [roomCall EXCEPT ![p] = d] /\ UNCHANGED roomRow
  BY <1>1, <1>2 DEF Meeting!CreateBooking
<1> QED
  BY <1>3, <1>6, <1>5, RoomCallStep DEF RoomCallFits

LEMMA RoomListPreparations ==
  ASSUME RoomInv, NEW b \in Prepared, Meeting!ListPreparations(b)
  PROVE  RoomInv'
<1>1. PICK r : r = [status |-> "PENDING", assigned |-> Null, marks |-> {}]
  OBVIOUS
<1>2. r \in Meeting!PreparationRecords /\ r.status \notin Meeting!Done
  BY <1>1 DEF Meeting!PreparationRecords, Meeting!Done
<1>3. RoomFits(Preparation(b), r) /\ CleaningExists(Preparation(b), r) /\ r \in RoomRows
  BY <1>2, RoomKeysDiffer DEF RoomFits, CleaningExists, RoomRows
<1>4. roomRow' = [roomRow EXCEPT ![Preparation(b)] = r] /\ UNCHANGED roomCall
  BY <1>1 DEF Meeting!ListPreparations, Preparation
<1>5. roomCall' \in [Calls -> RoomCalls \union {Meeting!Idle}]
  BY <1>4 DEF RoomInv
<1> QED
  BY <1>3, <1>4, <1>5, RoomKeysDiffer, RoomRowStep

\* The preparation of b, when there is one.
LEMMA PreparationFits ==
  ASSUME RoomInv, NEW b \in Prepared, roomRow[Preparation(b)] # Null
  PROVE  /\ roomRow[Preparation(b)] \in Meeting!PreparationRecords
         /\ CleaningExists(Preparation(b), roomRow[Preparation(b)])
         /\ Preparation(b) \in SavedRooms
BY RoomKeysDiffer DEF RoomInv, RoomFits, SavedRooms

\* The values a call saves, except those of a completed preparation.
LEMMA RoomPrepares ==
  ASSUME RoomInv, NEW p \in Calls, NEW b \in Prepared, roomRow[Preparation(b)] # Null,
         NEW status, NEW assigned, NEW marks,
         [status |-> status, assigned |-> assigned, marks |-> marks] \in Meeting!PreparationRecords,
         status \in Meeting!Done => roomRow[CleaningOf(b)] # Null,
         Meeting!Prepares(p, b, status, assigned, marks)
  PROVE  RoomInv'
<1>1. PICK e : e = [status |-> status, assigned |-> assigned, marks |-> marks]
  OBVIOUS
<1>2. /\ e \in RoomRows /\ RoomFits(Preparation(b), e) /\ CleaningExists(Preparation(b), e)
      /\ Preparation(b) \in SavedRooms
  BY <1>1, RoomKeysDiffer DEF RoomRows, RoomFits, CleaningExists, SavedRooms
<1>3. /\ roomCall' = [roomCall EXCEPT
           ![p] = Meeting!Saving(Meeting!NewCall, Preparation(b), e, "idle")]
      /\ UNCHANGED roomRow
  BY <1>1 DEF Meeting!Prepares, Preparation
<1> QED
  BY <1>2, <1>3, RoomSaves

LEMMA RoomTransitions ==
  ASSUME RoomInv, NEW p \in Calls, NEW b \in Prepared
  PROVE  /\ \A e \in {one} : Meeting!Assign(p, b, e) => RoomInv'
         /\ \A e \in {one} : Meeting!Start(p, b, e) => RoomInv'
         /\ \A mark \in Checklist : Meeting!Toggle(p, b, mark) => RoomInv'
         /\ Meeting!Ready(p, b) => RoomInv'
         /\ Meeting!Verify(p, b) => RoomInv'
<1>1. PICK x : x = roomRow[Preparation(b)]
  OBVIOUS
<1>2. x # Null => /\ x \in Meeting!PreparationRecords
                  /\ x.status \in Meeting!Done => roomRow[CleaningOf(b)] # Null
  BY <1>1, PreparationFits DEF CleaningExists
<1>3. ASSUME NEW status \in {"ASSIGNED", "IN_PROGRESS", "READY", "VERIFIED"},
             NEW assigned \in {one, Null}, NEW marks \in SUBSET Checklist
      PROVE  [status |-> status, assigned |-> assigned, marks |-> marks] \in Meeting!PreparationRecords
  BY DEF Meeting!PreparationRecords, Meeting!Done
<1>4. x # Null => x.assigned \in {one, Null} /\ x.marks \in SUBSET Checklist
  BY <1>2 DEF Meeting!PreparationRecords
<1>5. ASSUME NEW e \in {one}, Meeting!Assign(p, b, e)
      PROVE  RoomInv'
  <2>1. x # Null /\ Meeting!Prepares(p, b, "ASSIGNED", e, x.marks)
    BY <1>1, <1>5 DEF Meeting!Assign, Preparation
  <2> QED
    BY <1>1, <1>3, <1>4, <2>1, RoomPrepares DEF Meeting!Done
<1>6. ASSUME NEW e \in {one}, Meeting!Start(p, b, e)
      PROVE  RoomInv'
  <2>1. PICK a : a = IF x.assigned = Null THEN e ELSE x.assigned
    OBVIOUS
  <2>2. x # Null /\ Meeting!Prepares(p, b, "IN_PROGRESS", a, x.marks)
    BY <1>1, <1>6, <2>1 DEF Meeting!Start, Preparation
  <2> QED
    BY <1>1, <1>3, <1>4, <2>1, <2>2, RoomPrepares DEF Meeting!Done
<1>7. ASSUME NEW mark \in Checklist, Meeting!Toggle(p, b, mark)
      PROVE  RoomInv'
  <2>1. PICK m : m = IF mark \in x.marks THEN x.marks \ {mark} ELSE x.marks \union {mark}
    OBVIOUS
  <2>2. x # Null /\ Meeting!Prepares(p, b, "IN_PROGRESS", x.assigned, m)
    BY <1>1, <1>7, <2>1 DEF Meeting!Toggle, Preparation
  <2> QED
    BY <1>1, <1>3, <1>4, <2>1, <2>2, RoomPrepares DEF Meeting!Done
<1>8. ASSUME Meeting!Ready(p, b)
      PROVE  RoomInv'
  <2>1. x # Null /\ Meeting!Prepares(p, b, "READY", x.assigned, x.marks)
    BY <1>1, <1>8 DEF Meeting!Ready, Preparation
  <2> QED
    BY <1>1, <1>3, <1>4, <2>1, RoomPrepares DEF Meeting!Done
<1>9. ASSUME Meeting!Verify(p, b)
      PROVE  RoomInv'
  <2>1. /\ x # Null /\ x.status \in Meeting!Done
        /\ Meeting!Prepares(p, b, "VERIFIED", x.assigned, x.marks)
    BY <1>1, <1>9 DEF Meeting!Verify, Preparation, Meeting!Done
  <2> QED
    BY <1>1, <1>2, <1>3, <1>4, <2>1, RoomPrepares
<1> QED
  BY <1>5, <1>6, <1>7, <1>8, <1>9

LEMMA RoomComplete ==
  ASSUME RoomInv, NEW p \in Calls, NEW b \in Prepared, Meeting!Complete(p, b)
  PROVE  RoomInv'
<1>1. PICK x : x = roomRow[Preparation(b)]
  OBVIOUS
<1>2. x # Null /\ x \in Meeting!PreparationRecords /\ Preparation(b) \in SavedRooms
  BY <1>1, PreparationFits DEF Meeting!Complete, Preparation
<1>3. PICK e : e = [x EXCEPT !.status = "COMPLETED"]
  OBVIOUS
<1>4. e \in Meeting!PreparationRecords
  BY <1>2, <1>3 DEF Meeting!PreparationRecords, Meeting!Done
<1>5. PICK at : at = IF roomRow[CleaningOf(b)] = Null THEN "clean" ELSE "compare"
  OBVIOUS
<1>6. PICK d : d = [Meeting!Saving(Meeting!NewCall, Preparation(b), e, "idle") EXCEPT !.at = at]
  OBVIOUS
<1>7. e \in RoomRows /\ Preparation(b) \in RoomKeys
  BY <1>4, RoomKeysDiffer DEF RoomRows
<1>8. d = [at |-> at, id |-> Preparation(b), entity |-> e, columns |-> {},
           then |-> "idle", holds |-> Null]
  BY <1>6 DEF Meeting!Saving, Meeting!NewCall
<1>9. d \in RoomCalls /\ d.at = at /\ d.id = Preparation(b) /\ d.entity = e
  BY <1>5, <1>7, <1>8, RoomCallTyped
<1>10. RoomCallFits(d)
  BY <1>1, <1>2, <1>4, <1>5, <1>9, RoomKeysDiffer DEF RoomCallFits, RoomFits, CleaningExists
<1>11. roomCall' = [roomCall EXCEPT ![p] = d] /\ UNCHANGED roomRow
  BY <1>1, <1>3, <1>5, <1>6 DEF Meeting!Complete, Meeting!GoesTo, Preparation, CleaningOf
<1> QED
  BY <1>10, <1>11, RoomCallStep

LEMMA RoomCleanup ==
  ASSUME RoomInv, NEW p \in Calls, NEW b \in Prepared, Meeting!CreateCleanupTask(p, b)
  PROVE  RoomInv'
<1>1. CASE roomRow[CleaningOf(b)] # Null
  BY <1>1, RoomCallStep DEF Meeting!CreateCleanupTask, Meeting!Fails, CleaningOf
<1>2. CASE roomRow[CleaningOf(b)] = Null
  <2>1. PICK r : r = Meeting!NewTask(Null, FALSE)
    OBVIOUS
  <2>2. r \in Meeting!TaskRecords
    BY <2>1 DEF Meeting!NewTask, Meeting!TaskRecords
  <2>3. RoomFits(CleaningOf(b), r) /\ CleaningExists(CleaningOf(b), r) /\ r \in RoomRows
    BY <2>2, RoomKeysDiffer DEF RoomFits, CleaningExists, RoomRows
  <2>4. PICK c : c = roomCall[p]
    OBVIOUS
  <2>5. PICK d : d = [c EXCEPT !.at = "compare"]
    OBVIOUS
  <2>6. /\ roomRow' = [roomRow EXCEPT ![CleaningOf(b)] = r]
        /\ roomCall' = [roomCall EXCEPT ![p] = d]
        /\ c.at = "clean" /\ c.id = Preparation(b)
    BY <1>2, <2>1, <2>4, <2>5 DEF Meeting!CreateCleanupTask, Meeting!GoesTo, CleaningOf, Preparation
  <2>7. RoomCallFits(c) /\ c \in RoomCalls
    BY <2>4, <2>6 DEF RoomInv, RoomCallFits, Meeting!Idle
  <2>8. d \in RoomCalls /\ d.at = "compare" /\ d.id = c.id /\ d.entity = c.entity
    BY <2>5, <2>7 DEF RoomCalls
  <2>9. roomRow'[CleaningOf(b)] = r /\ roomRow'[Preparation(b)] = roomRow[Preparation(b)]
    BY <2>6, RoomKeysDiffer DEF RoomInv
  <2>10. RoomCallFits(d)'
    BY <2>3, <2>6, <2>7, <2>8, <2>9, RoomKeysDiffer DEF RoomCallFits, CleaningExists
  <2>11. roomCall' \in [Calls -> RoomCalls \union {Meeting!Idle}]
    BY <2>6, <2>8 DEF RoomInv
  <2>12. \A q \in Calls : roomCall'[q] = IF q = p THEN d ELSE roomCall[q]
    BY <2>6 DEF RoomInv
  <2>13. \A q \in Calls : roomCall'[q] \in {roomCall[q], Meeting!Idle} \/ RoomCallFits(roomCall[q])'
    BY <2>10, <2>12
  <2> QED
    BY <2>3, <2>6, <2>11, <2>13, RoomKeysDiffer, RoomRowStep
<1> QED
  BY <1>1, <1>2

LEMMA RoomTeam ==
  ASSUME RoomInv, NEW p \in Calls, NEW b \in Prepared
  PROVE  /\ \A members \in SUBSET {one} : Meeting!SetTeam(p, b, members) => RoomInv'
         /\ Meeting!ReplaceTeam(p, b) => RoomInv'
<1>1. ASSUME NEW members \in SUBSET {one}, Meeting!SetTeam(p, b, members)
      PROVE  RoomInv'
  <2>1. PICK d : d = [Meeting!NewCall EXCEPT !.at = "team", !.id = Preparation(b), !.holds = members]
    OBVIOUS
  <2>2. d = [at |-> "team", id |-> Preparation(b), entity |-> Null, columns |-> {},
             then |-> "idle", holds |-> members]
    BY <2>1 DEF Meeting!NewCall
  <2>3. Preparation(b) \in RoomKeys
    BY RoomKeysDiffer
  <2>4. d \in RoomCalls /\ d.at = "team"
    BY <2>2, <2>3, RoomCallTyped
  <2>5. roomCall' = [roomCall EXCEPT ![p] = d] /\ UNCHANGED roomRow
    BY <1>1, <2>1 DEF Meeting!SetTeam, Preparation
  <2> QED
    BY <2>4, <2>5, RoomCallStep DEF RoomCallFits
<1>2. CASE Meeting!ReplaceTeam(p, b)
  BY <1>2, RoomCallStep DEF Meeting!ReplaceTeam, Meeting!GoesTo
<1> QED
  BY <1>1, <1>2

LEMMA RoomCompare ==
  ASSUME RoomInv, NEW p \in Calls, Meeting!CompareSave(p)
  PROVE  RoomInv'
<1>1. PICK c : c = roomCall[p]
  OBVIOUS
<1>2. RoomCallFits(c) /\ c.at = "compare"
  BY <1>1 DEF Meeting!CompareSave, RoomInv, Meeting!Idle
<1>3. PICK d : d = [c EXCEPT !.at = "update", !.columns = Meeting!Differing(c.entity, roomRow[c.id])]
  OBVIOUS
<1>4. c.entity \in Meeting!BookingRecords \union Meeting!PreparationRecords
  BY <1>2 DEF RoomCallFits, SavedRooms, RoomFits
<1>5. d \in RoomCalls /\ d.at = "update" /\ d.id = c.id /\ d.entity = c.entity
  BY <1>2, <1>3, <1>4
  DEF RoomCallFits, RoomCalls, RoomColumns, Meeting!Differing, Meeting!BookingRecords, Meeting!PreparationRecords
<1>6. RoomCallFits(d)
  BY <1>2, <1>5 DEF RoomCallFits
<1>7. roomCall' = [roomCall EXCEPT ![p] = d] /\ UNCHANGED roomRow
  BY <1>1, <1>2, <1>3 DEF Meeting!CompareSave, RoomCallFits, RoomInv
<1> QED
  BY <1>6, <1>7, RoomCallStep

\* What a save writes: columns of the row and of the entity.
LEMMA RoomWritten ==
  ASSUME RoomInv, NEW p \in Calls, roomCall[p].at = "update", NEW r, r = Meeting!Written(p)
  PROVE  /\ roomCall[p].id \in SavedRooms /\ roomCall[p].then = "idle"
         /\ r \in RoomRows /\ RoomFits(roomCall[p].id, r) /\ CleaningExists(roomCall[p].id, r)
<1>1. PICK c : c = roomCall[p]
  OBVIOUS
<1>2. RoomCallFits(c) /\ c.at = "update" /\ c.id \in SavedRooms /\ c.then = "idle"
  BY <1>1 DEF RoomInv, RoomCallFits, RoomCalls, Meeting!Idle
<1>3. PICK s : s = roomRow[c.id]
  OBVIOUS
<1>4. s # Null /\ r = Meeting!Updated(s, c.entity, c.columns)
  BY <1>1, <1>2, <1>3 DEF RoomCallFits, Meeting!Written
<1>5. RoomFits(c.id, s) /\ CleaningExists(c.id, s)
  BY <1>2, <1>3, <1>4, RoomKeysDiffer DEF RoomInv, SavedRooms
<1>6. CASE c.id \in Prepared
  <2>1. r \in Meeting!BookingRecords
    BY <1>2, <1>4, <1>5, <1>6 DEF RoomCallFits, RoomFits, Meeting!Updated, Meeting!BookingRecords
  <2> QED
    BY <1>1, <1>2, <1>6, <2>1, RoomKeysDiffer DEF RoomRows, RoomFits, CleaningExists
<1>7. ASSUME NEW b \in Prepared, c.id = Preparation(b)
      PROVE  r \in RoomRows /\ RoomFits(c.id, r) /\ CleaningExists(c.id, r)
  <2>1. s \in Meeting!PreparationRecords /\ c.entity \in Meeting!PreparationRecords
    BY <1>2, <1>5, <1>7 DEF RoomCallFits, RoomFits
  <2>2. r \in Meeting!PreparationRecords /\ r.status \in {s.status, c.entity.status}
    BY <1>4, <2>1 DEF Meeting!Updated, Meeting!PreparationRecords
  <2>3. r \in RoomRows /\ RoomFits(c.id, r)
    BY <1>7, <2>2, RoomKeysDiffer DEF RoomRows, RoomFits
  <2> QED
    BY <1>2, <1>5, <1>7, <2>2, <2>3 DEF RoomCallFits, CleaningExists
<1> QED
  BY <1>1, <1>2, <1>6, <1>7 DEF SavedRooms

LEMMA RoomUpdate ==
  ASSUME RoomInv, NEW p \in Calls, NEW passed \in BOOLEAN, Meeting!UpdateSave(p, passed)
  PROVE  RoomInv'
<1>1. PICK k : k = roomCall[p].id
  OBVIOUS
<1>2. PICK r : r = Meeting!Written(p)
  OBVIOUS
<1>3. CASE ~passed
  BY <1>3, RoomCallStep DEF Meeting!UpdateSave, Meeting!Fails
<1>4. CASE passed
  <2>1. /\ roomCall[p].at = "update"
        /\ k \in SavedRooms /\ roomCall[p].then = "idle" /\ r \in RoomRows
        /\ RoomFits(k, r) /\ CleaningExists(k, r)
    BY <1>1, <1>2, RoomWritten DEF Meeting!UpdateSave
  <2>2. k \in RoomKeys
    BY <2>1, RoomKeysDiffer DEF SavedRooms
  <2>3. /\ roomRow' = [roomRow EXCEPT ![k] = r]
        /\ roomCall' = [roomCall EXCEPT ![p] = Meeting!Idle]
    BY <1>1, <1>2, <1>4, <2>1 DEF Meeting!UpdateSave, Meeting!GoesTo
  <2>4. /\ roomCall' \in [Calls -> RoomCalls \union {Meeting!Idle}]
        /\ \A q \in Calls : roomCall'[q] \in {roomCall[q], Meeting!Idle}
    BY <2>3 DEF RoomInv
  <2> QED
    BY <2>1, <2>2, <2>3, <2>4, RoomRowStep
<1> QED
  BY <1>3, <1>4

RoomNext == Meeting!BookingNext \/ Meeting!PreparationNext \/ Meeting!MeetingCrash

LEMMA RoomStep == RoomInv /\ [RoomNext]_Meeting!meetingVars => RoomInv'
<1> SUFFICES ASSUME RoomInv, [RoomNext]_Meeting!meetingVars PROVE RoomInv'
  OBVIOUS
<1>1. CASE UNCHANGED Meeting!meetingVars
  BY <1>1 DEF Meeting!meetingVars, Meeting!saveVars, RoomInv, RoomCallFits, CleaningExists
<1>2. CASE Meeting!BookingNext
  BY <1>2, RoomCreates, RoomBookings, RoomCompare, RoomUpdate DEF Meeting!BookingNext, Meeting!SaveMeeting
<1>3. CASE Meeting!PreparationNext
  BY <1>3, RoomListPreparations, RoomTransitions, RoomComplete, RoomCleanup, RoomTeam
  DEF Meeting!PreparationNext
<1>4. CASE Meeting!MeetingCrash
  BY <1>4, RoomCallStep DEF Meeting!MeetingCrash, Meeting!Crash, Meeting!Fails
<1> QED
  BY <1>1, <1>2, <1>3, <1>4 DEF RoomNext

LEMMA RoomPromises == RoomInv => Meeting!CompletedLeavesCleaning
BY RoomKeysDiffer
DEF RoomInv, CleaningExists, Meeting!CompletedLeavesCleaning, Meeting!Preparations, Preparation, CleaningOf

\* Preparations, for all calls, bookings and checklists, whatever stops when: one
\* that is completed has a cleaning task.
THEOREM CompletedRoomsAreCleaned == Meeting!MeetingSpec => []Meeting!CompletedLeavesCleaning
BY RoomStarts, RoomStep, RoomPromises, PTL DEF Meeting!MeetingSpec, RoomNext

\* One call at a time, a save finds the row as its call found it, so it writes
\* the whole entity and no mark is cleared under a status that stays.
CheckedStatuses == {"READY"} \union Meeting!Done

MarksAreSet(k, r) ==
  \A b \in Prepared : k = Preparation(b) /\ r.status \in CheckedStatuses => r.marks = Checklist

AloneCallFits(c) ==
  /\ c.at \in {"clean", "compare", "update"} => MarksAreSet(c.id, c.entity)
  /\ c.at = "update" => c.columns = Meeting!Differing(c.entity, roomRow[c.id])

AloneInv ==
  /\ RoomInv
  /\ Alone(roomCall)
  /\ \A k \in RoomKeys : roomRow[k] # Null => MarksAreSet(k, roomRow[k])
  /\ \A p \in Calls : roomCall[p] # Meeting!Idle => AloneCallFits(roomCall[p])

LEMMA AloneStarts == Meeting!MeetingInit => AloneInv
<1> SUFFICES ASSUME Meeting!MeetingInit PROVE AloneInv
  OBVIOUS
<1>1. \A p \in Calls : roomCall[p] = Meeting!Idle
  BY DEF Meeting!MeetingInit
<1>2. \A k \in RoomKeys : roomRow[k] = Null
  BY DEF Meeting!MeetingInit, RoomKeys, Preparation
<1> QED
  BY <1>1, <1>2, RoomStarts DEF AloneInv, Alone, Meeting!Idle

LEMMA OthersAreIdle ==
  ASSUME AloneInv, NEW p \in Calls, roomCall[p].at # "idle"
  PROVE  \A q \in Calls : q # p => roomCall[q] = Meeting!Idle
BY DEF AloneInv, Alone, RoomInv, RoomCalls, Meeting!Idle

\* A step that moves one call and no row.
LEMMA AloneCallStep ==
  ASSUME AloneInv, RoomInv', Alone(roomCall)', NEW p \in Calls, NEW d,
         d = Meeting!Idle \/ AloneCallFits(d),
         roomCall' = [roomCall EXCEPT ![p] = d], UNCHANGED roomRow
  PROVE  AloneInv'
<1>1. \A q \in Calls : roomCall'[q] = IF q = p THEN d ELSE roomCall[q]
  BY DEF AloneInv, RoomInv
<1>2. ASSUME NEW q \in Calls, roomCall'[q] # Meeting!Idle
      PROVE  AloneCallFits(roomCall[q])'
  <2>1. PICK c : c = roomCall'[q]
    OBVIOUS
  <2>2. AloneCallFits(c)
    BY <1>1, <1>2, <2>1 DEF AloneInv
  <2> QED
    BY <2>1, <2>2 DEF AloneCallFits
<1> QED
  BY <1>2 DEF AloneInv

\* A step that writes the row k, and leaves every call idle or as it should be.
LEMMA AloneRowStep ==
  ASSUME AloneInv, RoomInv', Alone(roomCall)', NEW k \in RoomKeys, NEW r, MarksAreSet(k, r),
         roomRow' = [roomRow EXCEPT ![k] = r],
         \A q \in Calls : roomCall'[q] = Meeting!Idle \/ AloneCallFits(roomCall[q])'
  PROVE  AloneInv'
<1>1. ASSUME NEW i \in RoomKeys, roomRow'[i] # Null
      PROVE  MarksAreSet(i, roomRow'[i])
  BY <1>1 DEF AloneInv, RoomInv
<1> QED
  BY <1>1 DEF AloneInv, MarksAreSet

\* What a call that begins saves.
LEMMA AloneSaves ==
  ASSUME AloneInv, RoomInv', Alone(roomCall)', NEW p \in Calls, NEW k, NEW e, MarksAreSet(k, e),
         roomCall' = [roomCall EXCEPT ![p] = Meeting!Saving(Meeting!NewCall, k, e, "idle")],
         UNCHANGED roomRow
  PROVE  AloneInv'
<1>1. PICK d : d = Meeting!Saving(Meeting!NewCall, k, e, "idle")
  OBVIOUS
<1>2. d.at = "compare" /\ d.id = k /\ d.entity = e
  BY <1>1 DEF Meeting!Saving, Meeting!NewCall
<1> QED
  BY <1>1, <1>2, AloneCallStep DEF AloneCallFits

LEMMA AloneBookings ==
  ASSUME AloneInv, RoomInv', Alone(roomCall)', NEW p \in Calls, NEW b \in Prepared
  PROVE  /\ Meeting!CancelBooking(p, b) => AloneInv'
         /\ Meeting!OrderServices(p, b) => AloneInv'
         /\ Meeting!InsertBooking(p, b) => AloneInv'
<1>1. \A e : MarksAreSet(b, e)
  BY RoomKeysDiffer DEF MarksAreSet
<1>2. CASE Meeting!CancelBooking(p, b)
  BY <1>1, <1>2, AloneSaves DEF Meeting!CancelBooking
<1>3. CASE Meeting!OrderServices(p, b)
  BY <1>1, <1>3, AloneSaves DEF Meeting!OrderServices
<1>4. CASE Meeting!InsertBooking(p, b)
  <2>1. CASE Meeting!Excluded(b, roomCall[p].entity)
    BY <1>4, <2>1, AloneCallStep DEF Meeting!InsertBooking, Meeting!Fails
  <2>2. CASE ~Meeting!Excluded(b, roomCall[p].entity)
    <3>1. PICK e : e = roomCall[p].entity
      OBVIOUS
    <3>2. /\ roomRow' = [roomRow EXCEPT ![b] = e]
          /\ roomCall' = [roomCall EXCEPT ![p] = Meeting!Idle]
          /\ roomCall[p].at # "idle"
      BY <1>4, <2>2, <3>1 DEF Meeting!InsertBooking, Meeting!GoesTo
    <3>3. \A q \in Calls : roomCall'[q] = Meeting!Idle
      BY <3>2, OthersAreIdle DEF AloneInv, RoomInv
    <3> QED
      BY <1>1, <3>2, <3>3, RoomKeysDiffer, AloneRowStep
  <2> QED
    BY <2>1, <2>2
<1> QED
  BY <1>2, <1>3, <1>4

LEMMA AloneCreates ==
  ASSUME AloneInv, RoomInv', Alone(roomCall)', NEW p \in Calls,
         NEW start, NEW end, Meeting!CreateBooking(p, start, end)
  PROVE  AloneInv'
<1>1. PICK d : d.at = "book" /\ roomCall' = [roomCall EXCEPT ![p] = d]
  BY DEF Meeting!CreateBooking, Meeting!NewCall
<1> QED
  BY <1>1, AloneCallStep DEF Meeting!CreateBooking, AloneCallFits

LEMMA AlonePrepares ==
  ASSUME AloneInv, RoomInv', Alone(roomCall)', NEW p \in Calls, NEW b \in Prepared,
         NEW status, NEW assigned, NEW marks, status \in CheckedStatuses => marks = Checklist,
         Meeting!Prepares(p, b, status, assigned, marks)
  PROVE  AloneInv'
<1>1. PICK e : e = [status |-> status, assigned |-> assigned, marks |-> marks]
  OBVIOUS
<1>2. MarksAreSet(Preparation(b), e)
  BY <1>1 DEF MarksAreSet
<1>3. /\ roomCall' = [roomCall EXCEPT
           ![p] = Meeting!Saving(Meeting!NewCall, Preparation(b), e, "idle")]
      /\ UNCHANGED roomRow
  BY <1>1 DEF Meeting!Prepares, Preparation
<1> QED
  BY <1>2, <1>3, AloneSaves

LEMMA AloneTransitions ==
  ASSUME AloneInv, RoomInv', Alone(roomCall)', NEW p \in Calls, NEW b \in Prepared
  PROVE  /\ \A e \in {one} : Meeting!Assign(p, b, e) => AloneInv'
         /\ \A e \in {one} : Meeting!Start(p, b, e) => AloneInv'
         /\ \A mark \in Checklist : Meeting!Toggle(p, b, mark) => AloneInv'
         /\ Meeting!Ready(p, b) => AloneInv'
         /\ Meeting!Verify(p, b) => AloneInv'
         /\ Meeting!Complete(p, b) => AloneInv'
<1>1. PICK x : x = roomRow[Preparation(b)]
  OBVIOUS
<1>2. x # Null /\ x.status \in CheckedStatuses => x.marks = Checklist
  BY <1>1, RoomKeysDiffer DEF AloneInv, MarksAreSet
<1> USE DEF CheckedStatuses, Meeting!Done
<1>3. ASSUME NEW e \in {one}, Meeting!Assign(p, b, e)
      PROVE  AloneInv'
  BY <1>3, AlonePrepares DEF Meeting!Assign
<1>4. ASSUME NEW e \in {one}, Meeting!Start(p, b, e)
      PROVE  AloneInv'
  BY <1>4, AlonePrepares DEF Meeting!Start
<1>5. ASSUME NEW mark \in Checklist, Meeting!Toggle(p, b, mark)
      PROVE  AloneInv'
  <2>1. PICK m : m = IF mark \in x.marks THEN x.marks \ {mark} ELSE x.marks \union {mark}
    OBVIOUS
  <2>2. Meeting!Prepares(p, b, "IN_PROGRESS", x.assigned, m)
    BY <1>1, <1>5, <2>1 DEF Meeting!Toggle, Preparation
  <2> QED
    BY <2>2, AlonePrepares
<1>6. ASSUME Meeting!Ready(p, b)
      PROVE  AloneInv'
  BY <1>6, AlonePrepares DEF Meeting!Ready
<1>7. ASSUME Meeting!Verify(p, b)
      PROVE  AloneInv'
  <2>1. Meeting!Prepares(p, b, "VERIFIED", x.assigned, x.marks) /\ x.marks = Checklist
    BY <1>1, <1>2, <1>7 DEF Meeting!Verify, Preparation
  <2> QED
    BY <2>1, AlonePrepares
<1>8. ASSUME Meeting!Complete(p, b)
      PROVE  AloneInv'
  <2>1. x # Null /\ x.status = "READY" /\ x \in Meeting!PreparationRecords
    BY <1>1, <1>8, PreparationFits DEF AloneInv, Meeting!Complete, Preparation
  <2>2. PICK e : e = [x EXCEPT !.status = "COMPLETED"]
    OBVIOUS
  <2>3. MarksAreSet(Preparation(b), e)
    BY <1>2, <2>1, <2>2 DEF MarksAreSet, Meeting!PreparationRecords
  <2>4. PICK d : /\ d.at \in {"clean", "compare"} /\ d.id = Preparation(b) /\ d.entity = e
                 /\ roomCall' = [roomCall EXCEPT ![p] = d] /\ UNCHANGED roomRow
    BY <1>1, <1>8, <2>2
    DEF Meeting!Complete, Meeting!GoesTo, Meeting!Saving, Meeting!NewCall, Preparation
  <2>5. AloneCallFits(d)
    BY <2>3, <2>4 DEF AloneCallFits
  <2> QED
    BY <2>4, <2>5, AloneCallStep
<1> QED
  BY <1>3, <1>4, <1>5, <1>6, <1>7, <1>8

LEMMA AloneLists ==
  ASSUME AloneInv, RoomInv', Alone(roomCall)', NEW b \in Prepared, Meeting!ListPreparations(b)
  PROVE  AloneInv'
<1>1. PICK r : r = [status |-> "PENDING", assigned |-> Null, marks |-> {}]
  OBVIOUS
<1>2. MarksAreSet(Preparation(b), r)
  BY <1>1 DEF MarksAreSet, CheckedStatuses, Meeting!Done
<1>3. /\ roomRow' = [roomRow EXCEPT ![Preparation(b)] = r] /\ UNCHANGED roomCall
      /\ roomRow[Preparation(b)] = Null
  BY <1>1 DEF Meeting!ListPreparations, Preparation
<1>4. ASSUME NEW q \in Calls, roomCall'[q] # Meeting!Idle
      PROVE  AloneCallFits(roomCall[q])'
  <2>1. PICK c : c = roomCall[q]
    OBVIOUS
  <2>2. RoomCallFits(c) /\ AloneCallFits(c)
    BY <1>3, <1>4, <2>1 DEF AloneInv, RoomInv
  <2>3. c.at = "update" => roomRow'[c.id] = roomRow[c.id]
    BY <1>3, <2>2, RoomKeysDiffer DEF RoomCallFits, SavedRooms, AloneInv, RoomInv
  <2>4. AloneCallFits(c)'
    BY <2>2, <2>3 DEF AloneCallFits
  <2> QED
    BY <1>3, <2>1, <2>4
<1> QED
  BY <1>2, <1>3, <1>4, RoomKeysDiffer, AloneRowStep

LEMMA AloneCleanup ==
  ASSUME AloneInv, RoomInv', Alone(roomCall)', NEW p \in Calls, NEW b \in Prepared,
         Meeting!CreateCleanupTask(p, b)
  PROVE  AloneInv'
<1>1. CASE roomRow[CleaningOf(b)] # Null
  BY <1>1, AloneCallStep DEF Meeting!CreateCleanupTask, Meeting!Fails, CleaningOf
<1>2. CASE roomRow[CleaningOf(b)] = Null
  <2>1. PICK c : c = roomCall[p]
    OBVIOUS
  <2>2. PICK d : d = [c EXCEPT !.at = "compare"]
    OBVIOUS
  <2>3. PICK r : r = Meeting!NewTask(Null, FALSE)
    OBVIOUS
  <2>4. /\ roomRow' = [roomRow EXCEPT ![CleaningOf(b)] = r]
        /\ roomCall' = [roomCall EXCEPT ![p] = d]
        /\ c.at = "clean"
    BY <1>2, <2>1, <2>2, <2>3 DEF Meeting!CreateCleanupTask, Meeting!GoesTo, CleaningOf
  <2>5. c \in RoomCalls /\ AloneCallFits(c)
    BY <2>1, <2>4 DEF AloneInv, RoomInv, RoomCallFits, Meeting!Idle
  <2>6. AloneCallFits(d)'
    BY <2>2, <2>4, <2>5 DEF AloneCallFits, RoomCalls
  <2>7. \A q \in Calls : roomCall'[q] = IF q = p THEN d ELSE Meeting!Idle
    BY <2>1, <2>4, OthersAreIdle DEF AloneInv, RoomInv
  <2>8. \A q \in Calls : roomCall'[q] = Meeting!Idle \/ AloneCallFits(roomCall[q])'
    BY <2>6, <2>7
  <2>9. MarksAreSet(CleaningOf(b), r)
    BY RoomKeysDiffer DEF MarksAreSet
  <2> QED
    BY <2>4, <2>8, <2>9, RoomKeysDiffer, AloneRowStep
<1> QED
  BY <1>1, <1>2

LEMMA AloneTeam ==
  ASSUME AloneInv, RoomInv', Alone(roomCall)', NEW p \in Calls, NEW b \in Prepared
  PROVE  /\ \A members \in SUBSET {one} : Meeting!SetTeam(p, b, members) => AloneInv'
         /\ Meeting!ReplaceTeam(p, b) => AloneInv'
<1>1. ASSUME NEW members \in SUBSET {one}, Meeting!SetTeam(p, b, members)
      PROVE  AloneInv'
  <2>1. PICK d : d.at = "team" /\ roomCall' = [roomCall EXCEPT ![p] = d]
    BY <1>1 DEF Meeting!SetTeam, Meeting!NewCall
  <2> QED
    BY <1>1, <2>1, AloneCallStep DEF Meeting!SetTeam, AloneCallFits
<1>2. CASE Meeting!ReplaceTeam(p, b)
  BY <1>2, AloneCallStep DEF Meeting!ReplaceTeam, Meeting!GoesTo
<1> QED
  BY <1>1, <1>2

LEMMA AloneCompare ==
  ASSUME AloneInv, RoomInv', Alone(roomCall)', NEW p \in Calls, Meeting!CompareSave(p)
  PROVE  AloneInv'
<1>1. PICK c : c = roomCall[p]
  OBVIOUS
<1>2. RoomCallFits(c) /\ AloneCallFits(c) /\ c.at = "compare"
  BY <1>1 DEF Meeting!CompareSave, AloneInv, RoomInv, Meeting!Idle
<1>3. PICK d : d = [c EXCEPT !.at = "update", !.columns = Meeting!Differing(c.entity, roomRow[c.id])]
  OBVIOUS
<1>4. AloneCallFits(d)
  BY <1>2, <1>3 DEF AloneCallFits, RoomCallFits, RoomCalls
<1>5. roomCall' = [roomCall EXCEPT ![p] = d] /\ UNCHANGED roomRow
  BY <1>1, <1>2, <1>3 DEF Meeting!CompareSave, RoomCallFits, AloneInv, RoomInv
<1> QED
  BY <1>4, <1>5, AloneCallStep

LEMMA AloneUpdate ==
  ASSUME AloneInv, RoomInv', Alone(roomCall)', NEW p \in Calls, NEW passed \in BOOLEAN,
         Meeting!UpdateSave(p, passed)
  PROVE  AloneInv'
<1>1. PICK c : c = roomCall[p]
  OBVIOUS
<1>2. /\ RoomCallFits(c) /\ AloneCallFits(c) /\ c.at = "update"
      /\ c.id \in SavedRooms /\ c.id \in RoomKeys /\ c.then = "idle"
  BY <1>1, RoomKeysDiffer
  DEF Meeting!UpdateSave, AloneInv, RoomInv, RoomCallFits, RoomCalls, Meeting!Idle, SavedRooms
<1>3. PICK r : r = Meeting!Written(p)
  OBVIOUS
<1>4. CASE ~passed
  BY <1>4, AloneCallStep DEF Meeting!UpdateSave, Meeting!Fails
<1>5. CASE passed
  <2>1. /\ roomRow' = [roomRow EXCEPT ![c.id] = r]
        /\ roomCall' = [roomCall EXCEPT ![p] = Meeting!Idle]
    BY <1>1, <1>2, <1>3, <1>5 DEF Meeting!UpdateSave, Meeting!GoesTo
  <2>2. \A q \in Calls : roomCall'[q] = Meeting!Idle
    BY <1>1, <1>2, <2>1, OthersAreIdle DEF AloneInv, RoomInv
  <2>3. ASSUME NEW b \in Prepared, c.id = Preparation(b)
        PROVE  r = c.entity
    <3>1. PICK s : s = roomRow[c.id]
      OBVIOUS
    <3>2. s \in Meeting!PreparationRecords /\ c.entity \in Meeting!PreparationRecords
      BY <1>2, <2>3, <3>1, PreparationFits DEF AloneInv, RoomCallFits, RoomFits
    <3>3. r = Meeting!Updated(s, c.entity, Meeting!Differing(c.entity, s))
      BY <1>1, <1>2, <1>3, <3>1 DEF Meeting!Written, RoomCallFits, AloneCallFits
    <3> QED
      BY <3>2, <3>3 DEF Meeting!Updated, Meeting!Differing, Meeting!PreparationRecords
  <2>4. MarksAreSet(c.id, r)
    BY <1>2, <2>3 DEF MarksAreSet, AloneCallFits
  <2> QED
    BY <1>2, <2>1, <2>2, <2>4, AloneRowStep
<1> QED
  BY <1>4, <1>5

LEMMA AloneStep ==
  AloneInv /\ [RoomNext /\ Alone(roomCall')]_Meeting!meetingVars => AloneInv'
<1> SUFFICES ASSUME AloneInv, [RoomNext /\ Alone(roomCall')]_Meeting!meetingVars
             PROVE  AloneInv'
  OBVIOUS
<1>1. CASE UNCHANGED Meeting!meetingVars
  <2>1. UNCHANGED <<roomRow, roomCall>>
    BY <1>1 DEF Meeting!meetingVars, Meeting!saveVars
  <2>2. RoomInv'
    BY <1>1, RoomStep DEF AloneInv
  <2> QED
    BY <2>1, <2>2 DEF AloneInv, Alone, MarksAreSet, AloneCallFits
<1>2. CASE RoomNext /\ Alone(roomCall')
  <2>1. RoomInv' /\ Alone(roomCall)'
    BY <1>2, RoomStep DEF AloneInv, Alone
  <2>2. CASE Meeting!BookingNext
    BY <2>1, <2>2, AloneBookings, AloneCompare, AloneUpdate, AloneCreates DEF Meeting!BookingNext, Meeting!SaveMeeting
  <2>3. CASE Meeting!PreparationNext
    BY <2>1, <2>3, AloneLists, AloneTransitions, AloneCleanup, AloneTeam DEF Meeting!PreparationNext
  <2>4. CASE Meeting!MeetingCrash
    BY <2>1, <2>4, AloneCallStep DEF Meeting!MeetingCrash, Meeting!Crash, Meeting!Fails
  <2> QED
    BY <1>2, <2>2, <2>3, <2>4 DEF RoomNext
<1> QED
  BY <1>1, <1>2

LEMMA AlonePromises == AloneInv => Meeting!ReadyWasChecked
BY RoomKeysDiffer
DEF AloneInv, MarksAreSet, CheckedStatuses, Meeting!ReadyWasChecked, Meeting!Preparations, Preparation

\* Preparations, one call at a time: a room is ready, and stays completed, only
\* with every mark of its checklist.
THEOREM ReadyRoomsWereChecked ==
  Meeting!MeetingInit /\ [][RoomNext /\ Alone(roomCall')]_Meeting!meetingVars
    => []Meeting!ReadyWasChecked
BY AloneStarts, AloneStep, AlonePromises, PTL

-----------------------------------------------------------------------------
(***************************************************************************)
(* Purchase orders, one call at a time.  What a call is about to save has  *)
(* the lines of the last submission if it says that the order waits or was *)
(* validated, and a save writes the whole entity: what it leaves out is    *)
(* what the row says already.                                              *)
(***************************************************************************)
PurchaseCalls ==
  [at : {"delete", "compare", "update"}, id : Orders, entity : Purchase!OrderRecords,
   columns : SUBSET {"status", "ordered"}, then : {"idle"}, holds : {Null}]

Shown(r, o) == r.status \in {"PENDING_VALIDATION", "VALIDATED"} => r.ordered = submitted[o]

PurchaseCallFits(c) ==
  /\ orderRow[c.id] # Null
  /\ Shown(c.entity, c.id)
  /\ c.at = "delete" => orderRow[c.id].status = "DRAFT"
  /\ c.at = "update" =>
       /\ "status" \notin c.columns => orderRow[c.id].status = c.entity.status
       /\ "ordered" \notin c.columns => orderRow[c.id].ordered = c.entity.ordered

PurchaseInv ==
  /\ orderRow \in [Orders -> Purchase!OrderRecords \union {Null}]
  /\ orderCall \in [{one} -> PurchaseCalls \union {Purchase!Idle}]
  /\ submitted \in [Orders -> 0..MaxOrdered]
  /\ refused \subseteq Purchase!Statuses
  /\ \A o \in Orders : orderRow[o] # Null => Shown(orderRow[o], o)
  /\ orderCall[one] # Purchase!Idle => PurchaseCallFits(orderCall[one])

LEMMA PurchaseStarts == Purchase!ProcurementInit => PurchaseInv
BY PurchasesAssumption DEF Purchase!ProcurementAssumption, Purchase!ProcurementInit, PurchaseInv

\* A step that only moves the call.
LEMMA PurchaseCallStep ==
  ASSUME PurchaseInv, NEW d, d = Purchase!Idle \/ (d \in PurchaseCalls /\ PurchaseCallFits(d)),
         orderCall' = [orderCall EXCEPT ![one] = d],
         UNCHANGED <<orderRow, submitted, refused>>
  PROVE  PurchaseInv'
<1>1. orderCall'[one] = d /\ orderCall' \in [{one} -> PurchaseCalls \union {Purchase!Idle}]
  BY DEF PurchaseInv
<1>2. orderCall'[one] # Purchase!Idle => PurchaseCallFits(orderCall[one])'
  BY <1>1 DEF PurchaseCallFits, Shown
<1> QED
  BY <1>1, <1>2 DEF PurchaseInv, Shown

\* A step that writes the row of one order, and leaves the call idle or as it should be.
LEMMA PurchaseRowStep ==
  ASSUME PurchaseInv, NEW o \in Orders, NEW r \in Purchase!OrderRecords, Shown(r, o),
         orderRow' = [orderRow EXCEPT ![o] = r], UNCHANGED <<submitted, refused>>,
         NEW d, orderCall' = [orderCall EXCEPT ![one] = d],
         d = Purchase!Idle \/ (d \in PurchaseCalls /\ PurchaseCallFits(d)')
  PROVE  PurchaseInv'
<1>1. orderCall'[one] = d /\ orderCall' \in [{one} -> PurchaseCalls \union {Purchase!Idle}]
  BY DEF PurchaseInv
<1>2. orderCall'[one] # Purchase!Idle => PurchaseCallFits(orderCall[one])'
  BY <1>1
<1>3. \A x \in Orders : orderRow'[x] = IF x = o THEN r ELSE orderRow[x]
  BY DEF PurchaseInv
<1> QED
  BY <1>1, <1>2, <1>3 DEF PurchaseInv, Shown

\* The order o as a call finds it, with another status that fits its lines.
LEMMA PurchaseFound ==
  ASSUME PurchaseInv, NEW o \in Orders, orderRow[o] # Null,
         NEW to \in Purchase!Statuses, NEW e, e = [orderRow[o] EXCEPT !.status = to],
         NEW d, d = Purchase!Saving(Purchase!NewCall, o, e, "idle")
  PROVE  /\ orderRow[o] \in Purchase!OrderRecords
         /\ e \in Purchase!OrderRecords /\ e.status = to /\ e.ordered = orderRow[o].ordered
         /\ d \in PurchaseCalls /\ d.at = "compare" /\ d.id = o /\ d.entity = e
<1>1. orderRow[o] \in Purchase!OrderRecords
  BY DEF PurchaseInv
<1>2. e \in Purchase!OrderRecords /\ e.status = to /\ e.ordered = orderRow[o].ordered
  BY <1>1 DEF Purchase!OrderRecords
<1> QED
  BY <1>1, <1>2 DEF Purchase!Saving, Purchase!NewCall, PurchaseCalls

LEMMA PurchaseChange ==
  ASSUME PurchaseInv, NEW o \in Orders, NEW from \in SUBSET Purchase!Statuses,
         NEW to \in Purchase!Statuses, to # "PENDING_VALIDATION",
         to = "VALIDATED" => from = {"PENDING_VALIDATION"},
         Purchase!Change(one, o, from, to), UNCHANGED submitted
  PROVE  PurchaseInv'
<1>1. PICK e : e = [orderRow[o] EXCEPT !.status = to]
  OBVIOUS
<1>2. PICK d : d = Purchase!Saving(Purchase!NewCall, o, e, "idle")
  OBVIOUS
<1>3. orderRow[o] # Null /\ orderRow[o].status \in from
  BY DEF Purchase!Change, Purchase!In
<1>4. /\ e.status = to /\ e.ordered = orderRow[o].ordered
      /\ d \in PurchaseCalls /\ d.at = "compare" /\ d.id = o /\ d.entity = e
  BY <1>1, <1>2, <1>3, PurchaseFound
<1>5. PurchaseCallFits(d)
  BY <1>3, <1>4 DEF PurchaseCallFits, PurchaseInv, Shown
<1> QED
  BY <1>1, <1>2, <1>4, <1>5, PurchaseCallStep DEF Purchase!Change

LEMMA PurchaseTransitions ==
  ASSUME PurchaseInv, NEW o \in Orders
  PROVE  /\ Purchase!Validate(one, o) => PurchaseInv'
         /\ Purchase!Reject(one, o) => PurchaseInv'
         /\ Purchase!Send(one, o) => PurchaseInv'
         /\ Purchase!Cancel(one, o) => PurchaseInv'
BY PurchaseChange
DEF Purchase!Validate, Purchase!Reject, Purchase!Send, Purchase!Cancel, Purchase!Statuses

\* The lines that are submitted are those of the draft.
LEMMA PurchaseSubmit ==
  ASSUME PurchaseInv, NEW o \in Orders, Purchase!Submit(one, o)
  PROVE  PurchaseInv'
<1>1. PICK e : e = [orderRow[o] EXCEPT !.status = "PENDING_VALIDATION"]
  OBVIOUS
<1>2. PICK d : d = Purchase!Saving(Purchase!NewCall, o, e, "idle")
  OBVIOUS
<1>3. orderRow[o] # Null /\ orderRow[o].status = "DRAFT"
  BY DEF Purchase!Submit, Purchase!Change, Purchase!In
<1>4. /\ orderRow[o] \in Purchase!OrderRecords
      /\ e.status = "PENDING_VALIDATION" /\ e.ordered = orderRow[o].ordered
      /\ d \in PurchaseCalls /\ d.at = "compare" /\ d.id = o /\ d.entity = e
  BY <1>1, <1>2, <1>3, PurchaseFound DEF Purchase!Statuses
<1>5. /\ orderCall' = [orderCall EXCEPT ![one] = d]
      /\ submitted' = [submitted EXCEPT ![o] = orderRow[o].ordered]
      /\ UNCHANGED <<orderRow, refused>>
  BY <1>1, <1>2 DEF Purchase!Submit, Purchase!Change
<1>6. /\ submitted' \in [Orders -> 0..MaxOrdered]
      /\ \A x \in Orders : submitted'[x] = IF x = o THEN orderRow[o].ordered ELSE submitted[x]
  BY <1>4, <1>5 DEF PurchaseInv, Purchase!OrderRecords
<1>7. orderCall'[one] = d /\ orderCall' \in [{one} -> PurchaseCalls \union {Purchase!Idle}]
  BY <1>4, <1>5 DEF PurchaseInv
<1>8. PurchaseCallFits(orderCall[one])'
  BY <1>3, <1>4, <1>5, <1>6, <1>7 DEF PurchaseCallFits, Shown
<1>9. \A x \in Orders : orderRow'[x] # Null => Shown(orderRow[x], x)'
  BY <1>3, <1>5, <1>6 DEF PurchaseInv, Shown
<1> QED
  BY <1>5, <1>6, <1>7, <1>8, <1>9 DEF PurchaseInv

LEMMA PurchaseCreate ==
  ASSUME PurchaseInv, NEW o \in Orders, NEW n \in Purchase!Quantities, Purchase!CreateOrder(o, n)
  PROVE  PurchaseInv'
<1>1. PICK r : r = [status |-> "DRAFT", ordered |-> n]
  OBVIOUS
<1>2. r \in Purchase!OrderRecords /\ Shown(r, o)
  BY <1>1 DEF Purchase!OrderRecords, Purchase!Quantities, Purchase!Statuses, Shown
<1>3. /\ orderRow' = [orderRow EXCEPT ![o] = r]
      /\ UNCHANGED <<orderCall, submitted, refused>>
      /\ orderRow[o] = Null
  BY <1>1 DEF Purchase!CreateOrder
<1>4. PICK d : d = orderCall[one]
  OBVIOUS
<1>5. d = Purchase!Idle \/ (d \in PurchaseCalls /\ PurchaseCallFits(d)')
  BY <1>3, <1>4 DEF PurchaseInv, PurchaseCallFits, PurchaseCalls, Shown
<1>6. orderCall' = [orderCall EXCEPT ![one] = d]
  BY <1>3, <1>4 DEF PurchaseInv
<1> QED
  BY <1>2, <1>3, <1>5, <1>6, PurchaseRowStep

LEMMA PurchaseReceive ==
  ASSUME PurchaseInv, NEW o \in Orders, Purchase!Receive(o)
  PROVE  PurchaseInv'
<1>1. refused' \subseteq Purchase!Statuses
  BY DEF Purchase!Receive, PurchaseInv, Purchase!OrderRecords
<1> QED
  BY <1>1 DEF Purchase!Receive, PurchaseInv, PurchaseCallFits, Shown

LEMMA PurchaseEdit ==
  ASSUME PurchaseInv, NEW o \in Orders, NEW n \in Purchase!Quantities, Purchase!EditDraft(one, o, n)
  PROVE  PurchaseInv'
<1>1. PICK e : e = [orderRow[o] EXCEPT !.ordered = n]
  OBVIOUS
<1>2. PICK d : d = [Purchase!Saving(Purchase!NewCall, o, e, "idle") EXCEPT !.at = "delete"]
  OBVIOUS
<1>3. orderRow[o] \in Purchase!OrderRecords /\ orderRow[o] # Null /\ orderRow[o].status = "DRAFT"
  BY DEF PurchaseInv, Purchase!EditDraft, Purchase!In
<1>4. e \in Purchase!OrderRecords /\ e.status = "DRAFT"
  BY <1>1, <1>3 DEF Purchase!OrderRecords, Purchase!Quantities
<1>5. d \in PurchaseCalls /\ d.at = "delete" /\ d.id = o /\ d.entity = e
  BY <1>2, <1>4 DEF Purchase!Saving, Purchase!NewCall, PurchaseCalls
<1>6. PurchaseCallFits(d)
  BY <1>3, <1>4, <1>5 DEF PurchaseCallFits, Shown
<1> QED
  BY <1>1, <1>2, <1>5, <1>6, PurchaseCallStep DEF Purchase!EditDraft

\* The order that the call is about to save.
LEMMA PurchaseHolds ==
  ASSUME PurchaseInv, orderCall[one].at # "idle"
  PROVE  /\ orderCall[one] \in PurchaseCalls /\ PurchaseCallFits(orderCall[one])
         /\ orderRow[orderCall[one].id] \in Purchase!OrderRecords
BY DEF PurchaseInv, PurchaseCallFits, PurchaseCalls, Purchase!Idle

LEMMA PurchaseDelete ==
  ASSUME PurchaseInv, Purchase!DeleteLines(one)
  PROVE  PurchaseInv'
<1>1. PICK c : c = orderCall[one]
  OBVIOUS
<1>2. /\ c \in PurchaseCalls /\ PurchaseCallFits(c) /\ c.at = "delete"
      /\ orderRow[c.id] \in Purchase!OrderRecords
  BY <1>1, PurchaseHolds DEF Purchase!DeleteLines
<1>3. PICK r : r = [orderRow[c.id] EXCEPT !.ordered = 0]
  OBVIOUS
<1>4. PICK d : d = [c EXCEPT !.at = "compare"]
  OBVIOUS
<1>5. r \in Purchase!OrderRecords /\ Shown(r, c.id)
  BY <1>2, <1>3, PurchasesAssumption
  DEF Purchase!ProcurementAssumption, Purchase!OrderRecords, PurchaseCallFits, Shown
<1>6. /\ d \in PurchaseCalls /\ d.at = "compare" /\ d.id = c.id /\ d.entity = c.entity
      /\ c.id \in Orders
  BY <1>2, <1>4 DEF PurchaseCalls
<1>7. /\ orderRow' = [orderRow EXCEPT ![c.id] = r]
      /\ orderCall' = [orderCall EXCEPT ![one] = d]
      /\ UNCHANGED <<submitted, refused>>
  BY <1>1, <1>2, <1>3, <1>4, <1>6 DEF Purchase!DeleteLines, Purchase!GoesTo, PurchaseInv
<1>8. orderRow'[c.id] = r /\ r # Null
  BY <1>5, <1>6, <1>7, PurchasesAssumption DEF Purchase!ProcurementAssumption, PurchaseInv
<1>9. PurchaseCallFits(d)'
  BY <1>2, <1>6, <1>7, <1>8 DEF PurchaseCallFits, Shown
<1> QED
  BY <1>5, <1>6, <1>7, <1>9, PurchaseRowStep

LEMMA PurchaseCompare ==
  ASSUME PurchaseInv, Purchase!CompareSave(one), UNCHANGED <<submitted, refused>>
  PROVE  PurchaseInv'
<1>1. PICK c : c = orderCall[one]
  OBVIOUS
<1>2. /\ c \in PurchaseCalls /\ PurchaseCallFits(c) /\ c.at = "compare"
      /\ orderRow[c.id] \in Purchase!OrderRecords /\ orderRow[c.id] # Null
  BY <1>1, PurchaseHolds DEF Purchase!CompareSave, PurchaseCallFits
<1>3. PICK k : k = Purchase!Differing(c.entity, orderRow[c.id])
  OBVIOUS
<1>4. PICK d : d = [c EXCEPT !.at = "update", !.columns = k]
  OBVIOUS
<1>5. /\ k \in SUBSET {"status", "ordered"}
      /\ "status" \notin k => orderRow[c.id].status = c.entity.status
      /\ "ordered" \notin k => orderRow[c.id].ordered = c.entity.ordered
  BY <1>2, <1>3 DEF PurchaseCalls, Purchase!Differing, Purchase!OrderRecords
<1>6. d \in PurchaseCalls /\ d.at = "update" /\ d.id = c.id /\ d.entity = c.entity /\ d.columns = k
  BY <1>2, <1>4, <1>5 DEF PurchaseCalls
<1>7. PurchaseCallFits(d)
  BY <1>2, <1>5, <1>6 DEF PurchaseCallFits
<1>8. orderCall' = [orderCall EXCEPT ![one] = d] /\ UNCHANGED <<orderRow, submitted, refused>>
  BY <1>1, <1>2, <1>3, <1>4 DEF Purchase!CompareSave, PurchaseInv
<1> QED
  BY <1>6, <1>7, <1>8, PurchaseCallStep

LEMMA PurchaseUpdate ==
  ASSUME PurchaseInv, Purchase!UpdateSave(one, TRUE), UNCHANGED <<submitted, refused>>
  PROVE  PurchaseInv'
<1>1. PICK c : c = orderCall[one]
  OBVIOUS
<1>2. /\ c \in PurchaseCalls /\ PurchaseCallFits(c) /\ c.at = "update" /\ c.then = "idle"
      /\ orderRow[c.id] \in Purchase!OrderRecords /\ orderRow[c.id] # Null
  BY <1>1, PurchaseHolds DEF Purchase!UpdateSave, PurchaseCallFits, PurchaseCalls
<1>3. PICK r : r = Purchase!Updated(orderRow[c.id], c.entity, c.columns)
  OBVIOUS
<1>4. c.entity \in Purchase!OrderRecords /\ c.id \in Orders
  BY <1>2 DEF PurchaseCalls
<1>5. /\ orderRow' = [orderRow EXCEPT ![c.id] = r]
      /\ orderCall' = [orderCall EXCEPT ![one] = Purchase!Idle]
  BY <1>1, <1>2, <1>3 DEF Purchase!UpdateSave, Purchase!Written, Purchase!GoesTo
<1>6. /\ r \in [status : Purchase!Statuses, ordered : 0..MaxOrdered]
      /\ r.status = c.entity.status /\ r.ordered = c.entity.ordered
  BY <1>2, <1>3, <1>4 DEF Purchase!Updated, Purchase!OrderRecords, PurchaseCallFits
<1>7. r \in Purchase!OrderRecords /\ Shown(r, c.id)
  BY <1>2, <1>6 DEF Purchase!OrderRecords, PurchaseCallFits, Shown
<1> QED
  BY <1>4, <1>5, <1>7, PurchaseRowStep

LEMMA PurchaseStep ==
  PurchaseInv /\ [Purchase!ProcurementNext]_Purchase!procurementVars => PurchaseInv'
<1> SUFFICES ASSUME PurchaseInv, [Purchase!ProcurementNext]_Purchase!procurementVars
             PROVE  PurchaseInv'
  OBVIOUS
<1>1. CASE UNCHANGED Purchase!procurementVars
  BY <1>1 DEF Purchase!procurementVars, PurchaseInv, PurchaseCallFits, Shown
<1>2. ASSUME Purchase!Crash(one), UNCHANGED <<submitted, refused>>
      PROVE  PurchaseInv'
  BY <1>2, PurchaseCallStep DEF Purchase!Crash, Purchase!Fails
<1>3. CASE Purchase!ProcurementNext
  BY <1>2, <1>3, PurchaseCreate, PurchaseSubmit, PurchaseTransitions, PurchaseEdit, PurchaseDelete,
     PurchaseCompare, PurchaseUpdate, PurchaseReceive
  DEF Purchase!ProcurementNext, Purchase!SaveOrder
<1> QED
  BY <1>1, <1>3

LEMMA PurchasePromises ==
  PurchaseInv => Purchase!ProcurementTypeOK /\ Purchase!ValidatedAsSubmitted
BY DEF PurchaseInv, Purchase!ProcurementTypeOK, Purchase!ValidatedAsSubmitted, Purchase!In, Shown

\* Purchase orders, for any orders and quantities, one call at a time and with
\* crashes: what waits for a validation or was validated has the lines that were
\* submitted.
THEOREM ValidatedOrdersStay == Purchase!ProcurementSpec => []Purchase!ValidatedAsSubmitted
BY PurchaseStarts, PurchaseStep, PurchasePromises, PTL DEF Purchase!ProcurementSpec

-----------------------------------------------------------------------------
(***************************************************************************)
(* VIP self-service, one call at a time, while processes stop and products *)
(* are removed.  A call that is about to create a task has found none      *)
(* open; no step deletes a task.                                           *)
(***************************************************************************)
VipKeys == Items \union Tasks
VipZones == {"KITCHEN", "BRANCH"}

VipCalls ==
  [at : {"compare", "update", "insert", "alert", "create", "refill", "done", "close"},
   id : Items, entity : SelfService!ItemRecords \union {Null},
   columns : SUBSET {"quantity", "min", "max"}, then : {"idle", "alert", "done"},
   holds : (SUBSET Tasks) \union {Null}]

AfterRefill(c) ==
  c.at \in {"refill", "done", "close"} \/ (c.at \in {"compare", "update", "insert"} /\ c.then = "done")

VipCallFits(c) ==
  /\ c.at \in {"compare", "update", "insert"} =>
       c.entity \in SelfService!ItemRecords /\ c.then \in {"alert", "done"}
  /\ c.at = "create" => \A t \in Tasks : ~(vipRow[t] # Null /\ vipRow[t].item = c.id /\ vipRow[t].status = "OPEN")
  /\ AfterRefill(c) => c.holds \in SUBSET Tasks /\ \A t \in c.holds : vipRow[t] # Null

OpenTasksAreOne ==
  \A t, u \in Tasks :
    /\ vipRow[t] # Null /\ vipRow[t].status = "OPEN"
    /\ vipRow[u] # Null /\ vipRow[u].status = "OPEN"
    /\ vipRow[t].item = vipRow[u].item
    => t = u

VipShape ==
  /\ vipRow \in [VipKeys -> SelfService!ItemRecords \union SelfService!TaskRecords \union {Null}]
  /\ \A i \in Items : vipRow[i] \in SelfService!ItemRecords \union {Null}
  /\ \A t \in Tasks : vipRow[t] \in SelfService!TaskRecords \union {Null}
  /\ vipCall \in [{one} -> VipCalls \union {SelfService!Idle}]
  /\ stock \in [VipZones -> Int]
  /\ \A z \in VipZones : stock[z] >= Reserved[z]

VipInv ==
  /\ VipShape
  /\ OpenTasksAreOne
  /\ vipCall[one] # SelfService!Idle => VipCallFits(vipCall[one])

LEMMA VipStarts == SelfService!VipInit => VipInv
BY PlacesAssumption
DEF SelfService!VipAssumption, SelfService!VipInit, VipInv, VipShape, VipKeys, VipZones, OpenTasksAreOne

LEMMA VipKeysDiffer ==
  /\ \A i \in Items : i \in VipKeys /\ i \notin Tasks
  /\ \A t \in Tasks : t \in VipKeys /\ t \notin Items
  /\ Null \notin SelfService!ItemRecords /\ Null \notin SelfService!TaskRecords
BY PlacesAssumption DEF SelfService!VipAssumption, VipKeys

\* A step that moves the call, may write a product and may take from a zone.
LEMMA VipItemStep ==
  ASSUME VipInv, NEW d, d = SelfService!Idle \/ (d \in VipCalls /\ VipCallFits(d)),
         vipCall' = [vipCall EXCEPT ![one] = d],
         NEW i \in Items, NEW r \in SelfService!ItemRecords \union {Null},
         vipRow' = [vipRow EXCEPT ![i] = r],
         stock' \in [VipZones -> Int], \A z \in VipZones : stock'[z] >= Reserved[z]
  PROVE  VipInv'
<1>1. /\ \A t \in Tasks : vipRow'[t] = vipRow[t]
      /\ \A j \in Items : vipRow'[j] = IF j = i THEN r ELSE vipRow[j]
      /\ vipRow' \in [VipKeys -> SelfService!ItemRecords \union SelfService!TaskRecords \union {Null}]
  BY VipKeysDiffer DEF VipInv, VipShape
<1>2. vipCall'[one] = d /\ vipCall' \in [{one} -> VipCalls \union {SelfService!Idle}]
  BY DEF VipInv, VipShape
<1>3. VipShape'
  BY <1>1, <1>2 DEF VipInv, VipShape
<1>4. OpenTasksAreOne'
  BY <1>1 DEF VipInv, OpenTasksAreOne
<1>5. vipCall'[one] # SelfService!Idle => VipCallFits(vipCall[one])'
  BY <1>1, <1>2 DEF VipCallFits, AfterRefill, VipCalls
<1> QED
  BY <1>3, <1>4, <1>5 DEF VipInv

\* A step that only moves the call.
LEMMA VipCallStep ==
  ASSUME VipInv, NEW d, d = SelfService!Idle \/ (d \in VipCalls /\ VipCallFits(d)),
         vipCall' = [vipCall EXCEPT ![one] = d], UNCHANGED <<vipRow, stock>>
  PROVE  VipInv'
<1>1. vipCall'[one] = d /\ vipCall' \in [{one} -> VipCalls \union {SelfService!Idle}]
  BY DEF VipInv, VipShape
<1>2. VipShape' /\ OpenTasksAreOne'
  BY <1>1 DEF VipInv, VipShape, OpenTasksAreOne
<1>3. vipCall'[one] # SelfService!Idle => VipCallFits(vipCall[one])'
  BY <1>1 DEF VipCallFits, AfterRefill
<1> QED
  BY <1>2, <1>3 DEF VipInv

\* The call that is not idle.
LEMMA VipHolds ==
  ASSUME VipInv, vipCall[one].at # "idle"
  PROVE  vipCall[one] \in VipCalls /\ VipCallFits(vipCall[one])
BY DEF VipInv, VipShape, SelfService!Idle

LEMMA VipProducts ==
  ASSUME VipInv, NEW i \in Items, NEW quantity \in SelfService!Quantities,
         NEW min \in SelfService!Quantities, NEW max \in SelfService!Quantities
  PROVE  /\ SelfService!AddProduct(i, quantity, min, max) => VipInv'
         /\ SelfService!AdjustProduct(one, i, quantity, min, max) => VipInv'
         /\ SelfService!RemoveProduct(i) => VipInv'
<1>1. PICK r : r = [quantity |-> quantity, min |-> min, max |-> max]
  OBVIOUS
<1>2. r \in SelfService!ItemRecords
  BY <1>1 DEF SelfService!ItemRecords
<1>3. PICK c : c = vipCall[one]
  OBVIOUS
<1>4. /\ c = SelfService!Idle \/ (c \in VipCalls /\ VipCallFits(c))
      /\ vipCall = [vipCall EXCEPT ![one] = c]
      /\ stock \in [VipZones -> Int] /\ \A z \in VipZones : stock[z] >= Reserved[z]
  BY <1>3 DEF VipInv, VipShape
<1>5. ASSUME NEW x \in SelfService!ItemRecords \union {Null}, vipRow' = [vipRow EXCEPT ![i] = x],
             UNCHANGED <<vipCall, stock>>
      PROVE  VipInv'
  BY <1>4, <1>5, VipItemStep
<1>6. CASE SelfService!AddProduct(i, quantity, min, max)
  BY <1>1, <1>2, <1>5, <1>6 DEF SelfService!AddProduct, SelfService!vipGhosts
<1>7. CASE SelfService!RemoveProduct(i)
  BY <1>5, <1>7 DEF SelfService!RemoveProduct, SelfService!vipGhosts
<1>8. CASE SelfService!AdjustProduct(one, i, quantity, min, max)
  <2>1. PICK d : d = SelfService!Saving(SelfService!NewCall, i, r, "alert")
    OBVIOUS
  <2>2. d \in VipCalls /\ d.at = "compare" /\ d.entity = r /\ d.then = "alert"
    BY <1>2, <2>1 DEF SelfService!Saving, SelfService!NewCall, VipCalls
  <2>3. VipCallFits(d)
    BY <1>2, <2>2 DEF VipCallFits, AfterRefill
  <2> QED
    BY <1>1, <1>8, <2>1, <2>2, <2>3, VipCallStep DEF SelfService!AdjustProduct, SelfService!vipGhosts
<1> QED
  BY <1>6, <1>7, <1>8

LEMMA VipFindTask ==
  ASSUME VipInv, SelfService!FindTask(one)
  PROVE  VipInv'
<1>1. PICK c : c = vipCall[one]
  OBVIOUS
<1>2. c \in VipCalls /\ c.at = "alert"
  BY <1>1, VipHolds DEF SelfService!FindTask
<1>3. PICK d : d = [c EXCEPT !.at = "create"]
  OBVIOUS
<1>4. d \in VipCalls /\ d.at = "create" /\ d.id = c.id
  BY <1>2, <1>3 DEF VipCalls
<1>5. \/ vipCall' = [vipCall EXCEPT ![one] = SelfService!Idle]
      \/ SelfService!OpenTasks(c.id) = {} /\ vipCall' = [vipCall EXCEPT ![one] = d]
  BY <1>1, <1>3 DEF SelfService!FindTask, SelfService!GoesTo
<1>6. SelfService!OpenTasks(c.id) = {} => VipCallFits(d)
  BY <1>4 DEF SelfService!OpenTasks, VipCallFits, AfterRefill
<1> QED
  BY <1>4, <1>5, <1>6, VipCallStep DEF SelfService!FindTask, SelfService!vipGhosts

\* A step that writes tasks and ends the call.
LEMMA VipTasksStep ==
  ASSUME VipInv, vipRow' \in [VipKeys -> SelfService!ItemRecords \union SelfService!TaskRecords \union {Null}],
         \A i \in Items : vipRow'[i] = vipRow[i],
         \A t \in Tasks : vipRow'[t] \in SelfService!TaskRecords \union {Null},
         OpenTasksAreOne', vipCall' = [vipCall EXCEPT ![one] = SelfService!Idle], UNCHANGED stock
  PROVE  VipInv'
BY DEF VipInv, VipShape

LEMMA VipCreateTask ==
  ASSUME VipInv, NEW t \in Tasks, SelfService!CreateTask(one, t)
  PROVE  VipInv'
<1>1. PICK c : c = vipCall[one]
  OBVIOUS
<1>2. c \in VipCalls /\ VipCallFits(c) /\ c.at = "create" /\ c.id \in Items
  BY <1>1, VipHolds DEF SelfService!CreateTask, VipCalls
<1>3. PICK r : r = [item |-> c.id, status |-> "OPEN"]
  OBVIOUS
<1>4. r \in SelfService!TaskRecords /\ r.item = c.id
  BY <1>2, <1>3 DEF SelfService!TaskRecords
<1>5. /\ vipRow' = [vipRow EXCEPT ![t] = r]
      /\ vipCall' = [vipCall EXCEPT ![one] = SelfService!Idle]
      /\ UNCHANGED stock
  BY <1>1, <1>3 DEF SelfService!CreateTask, SelfService!GoesTo, SelfService!vipGhosts
<1>6. /\ \A u \in Tasks : vipRow'[u] = IF u = t THEN r ELSE vipRow[u]
      /\ \A i \in Items : vipRow'[i] = vipRow[i]
      /\ vipRow' \in [VipKeys -> SelfService!ItemRecords \union SelfService!TaskRecords \union {Null}]
  BY <1>4, <1>5, VipKeysDiffer DEF VipInv, VipShape
<1>7. \A u \in Tasks : vipRow'[u] \in SelfService!TaskRecords \union {Null}
  BY <1>4, <1>6 DEF VipInv, VipShape
<1>8. OpenTasksAreOne'
  BY <1>2, <1>4, <1>6 DEF VipInv, OpenTasksAreOne, VipCallFits
<1> QED
  BY <1>5, <1>6, <1>7, <1>8, VipTasksStep

LEMMA VipCloseTasks ==
  ASSUME VipInv, SelfService!CloseTasks(one)
  PROVE  VipInv'
<1>1. PICK c : c = vipCall[one]
  OBVIOUS
<1>2. c \in VipCalls /\ c.holds \in SUBSET Tasks /\ \A t \in c.holds : vipRow[t] # Null
  BY <1>1, VipHolds DEF SelfService!CloseTasks, VipCallFits, AfterRefill
<1>3. /\ vipRow' = [t \in VipKeys |->
           IF t \in c.holds THEN [vipRow[t] EXCEPT !.status = "COMPLETED"] ELSE vipRow[t]]
      /\ vipCall' = [vipCall EXCEPT ![one] = SelfService!Idle]
      /\ UNCHANGED stock
  BY <1>1 DEF SelfService!CloseTasks, SelfService!GoesTo, SelfService!vipGhosts, VipInv, VipShape
<1>4. ASSUME NEW t \in c.holds
      PROVE  /\ vipRow'[t] \in SelfService!TaskRecords /\ vipRow'[t].status = "COMPLETED"
             /\ t \in Tasks
  <2>1. vipRow[t] \in SelfService!TaskRecords /\ t \in Tasks /\ t \in VipKeys
    BY <1>2, <1>4, VipKeysDiffer DEF VipInv, VipShape
  <2> QED
    BY <1>3, <1>4, <2>1 DEF SelfService!TaskRecords
<1>5. \A k \in VipKeys \ c.holds : vipRow'[k] = vipRow[k]
  BY <1>3
<1>6. /\ \A i \in Items : vipRow'[i] = vipRow[i]
      /\ \A t \in Tasks : vipRow'[t] \in SelfService!TaskRecords \union {Null}
  BY <1>4, <1>5, VipKeysDiffer DEF VipInv, VipShape
<1>7. vipRow' \in [VipKeys -> SelfService!ItemRecords \union SelfService!TaskRecords \union {Null}]
  BY <1>3, <1>6 DEF VipInv, VipShape, VipKeys
<1>8. OpenTasksAreOne'
  BY <1>4, <1>5, VipKeysDiffer DEF VipInv, OpenTasksAreOne
<1> QED
  BY <1>3, <1>6, <1>7, <1>8, VipTasksStep

\* Calls that begin to refill a place, with the tasks they may close.
LEMMA VipBeginsRefill ==
  ASSUME VipInv, NEW i \in Items, NEW closes \in SUBSET Tasks, \A t \in closes : vipRow[t] # Null,
         vipCall' = [vipCall EXCEPT
           ![one] = [SelfService!NewCall EXCEPT !.at = "refill", !.id = i, !.holds = closes]],
         UNCHANGED <<vipRow, stock>>
  PROVE  VipInv'
<1>1. PICK d : d = [SelfService!NewCall EXCEPT !.at = "refill", !.id = i, !.holds = closes]
  OBVIOUS
<1>2. d \in VipCalls /\ d.at = "refill" /\ d.holds = closes
  BY <1>1 DEF SelfService!NewCall, VipCalls
<1>3. VipCallFits(d)
  BY <1>2 DEF VipCallFits, AfterRefill
<1> QED
  BY <1>1, <1>2, <1>3, VipCallStep

LEMMA VipBegins ==
  ASSUME VipInv
  PROVE  /\ \A t \in Tasks : SelfService!CompleteTask(one, t) => VipInv'
         /\ \A i \in Items : SelfService!ReplenishLocation(one, i) => VipInv'
<1>1. ASSUME NEW t \in Tasks, SelfService!CompleteTask(one, t)
      PROVE  VipInv'
  <2>1. PICK i, closes : i = vipRow[t].item /\ closes = {t}
    OBVIOUS
  <2>2. i \in Items /\ closes \in SUBSET Tasks /\ \A u \in closes : vipRow[u] # Null
    BY <1>1, <2>1 DEF SelfService!CompleteTask, VipInv, VipShape, SelfService!TaskRecords
  <2>3. /\ vipCall' = [vipCall EXCEPT
             ![one] = [SelfService!NewCall EXCEPT !.at = "refill", !.id = i, !.holds = closes]]
        /\ UNCHANGED <<vipRow, stock>>
    BY <1>1, <2>1 DEF SelfService!CompleteTask, SelfService!vipGhosts
  <2> QED
    BY <2>2, <2>3, VipBeginsRefill
<1>2. ASSUME NEW i \in Items, SelfService!ReplenishLocation(one, i)
      PROVE  VipInv'
  BY <1>2, VipBeginsRefill DEF SelfService!ReplenishLocation, SelfService!vipGhosts
<1> QED
  BY <1>1, <1>2

LEMMA VipSkipRefill ==
  ASSUME VipInv, SelfService!SkipRefill(one)
  PROVE  VipInv'
<1>1. PICK c : c = vipCall[one]
  OBVIOUS
<1>2. c \in VipCalls /\ VipCallFits(c) /\ c.at = "refill"
  BY <1>1, VipHolds DEF SelfService!SkipRefill
<1>3. PICK d : d = [c EXCEPT !.at = "done"]
  OBVIOUS
<1>4. d \in VipCalls /\ d.at = "done" /\ d.holds = c.holds
  BY <1>2, <1>3 DEF VipCalls
<1>5. VipCallFits(d)
  BY <1>2, <1>4 DEF VipCallFits, AfterRefill
<1> QED
  BY <1>1, <1>3, <1>4, <1>5, VipCallStep
  DEF SelfService!SkipRefill, SelfService!GoesTo, SelfService!vipGhosts

\* What a refill does: it may take from a zone, and fills up the entity.
LEMMA VipRefillIs ==
  ASSUME VipInv, NEW z \in VipZones, SelfService!Refill(one, z)
  PROVE  \E c, d, e :
           /\ c = vipCall[one] /\ c \in VipCalls /\ c.at = "refill" /\ VipCallFits(c)
           /\ vipRow[c.id] # Null /\ vipRow[c.id] \in SelfService!ItemRecords
           /\ e = [vipRow[c.id] EXCEPT !.quantity = vipRow[c.id].max]
           /\ e \in SelfService!ItemRecords /\ e.quantity = vipRow[c.id].max
           /\ d \in VipCalls /\ d.at = "compare" /\ d.id = c.id /\ d.entity = e /\ d.then = "done"
           /\ d.holds = c.holds
           /\ vipCall' = [vipCall EXCEPT ![one] = d] /\ UNCHANGED vipRow
<1>1. PICK c : c = vipCall[one]
  OBVIOUS
<1>2. c \in VipCalls /\ VipCallFits(c) /\ c.at = "refill" /\ c.id \in Items
  BY <1>1, VipHolds DEF SelfService!Refill, VipCalls
<1>3. vipRow[c.id] # Null /\ vipRow[c.id] \in SelfService!ItemRecords
  BY <1>1, <1>2 DEF SelfService!Refill, VipInv, VipShape
<1>4. PICK e : e = [vipRow[c.id] EXCEPT !.quantity = vipRow[c.id].max]
  OBVIOUS
<1>5. e \in SelfService!ItemRecords /\ e.quantity = vipRow[c.id].max
  BY <1>3, <1>4 DEF SelfService!ItemRecords
<1>6. PICK d : d = SelfService!Saving(c, c.id, e, "done")
  OBVIOUS
<1>7. /\ d \in VipCalls /\ d.at = "compare" /\ d.id = c.id /\ d.entity = e /\ d.then = "done"
      /\ d.holds = c.holds
  BY <1>2, <1>5, <1>6 DEF SelfService!Saving, VipCalls
<1>8. vipCall' = [vipCall EXCEPT ![one] = d] /\ UNCHANGED vipRow
  BY <1>1, <1>4, <1>6 DEF SelfService!Refill, VipInv, VipShape
<1> QED
  BY <1>1, <1>2, <1>3, <1>4, <1>5, <1>7, <1>8

LEMMA VipRefill ==
  ASSUME VipInv, NEW z \in VipZones, SelfService!Refill(one, z)
  PROVE  VipInv'
<1>1. PICK c, d, e :
        /\ c = vipCall[one] /\ c \in VipCalls /\ c.at = "refill" /\ VipCallFits(c)
        /\ vipRow[c.id] # Null /\ vipRow[c.id] \in SelfService!ItemRecords
        /\ e \in SelfService!ItemRecords
        /\ d \in VipCalls /\ d.at = "compare" /\ d.id = c.id /\ d.entity = e /\ d.then = "done"
        /\ d.holds = c.holds
        /\ vipCall' = [vipCall EXCEPT ![one] = d] /\ UNCHANGED vipRow
  BY VipRefillIs
<1>2. VipCallFits(d)
  BY <1>1 DEF VipCallFits, AfterRefill
<1>3. c.id \in Items /\ SelfService!Missing(c.id) \in Int
  BY <1>1, PlacesAssumption
  DEF SelfService!VipAssumption, VipCalls, SelfService!Missing, SelfService!ItemRecords, SelfService!Quantities
<1>4. stock' \in [VipZones -> Int] /\ \A y \in VipZones : stock'[y] >= Reserved[y]
  BY <1>1, <1>3 DEF SelfService!Refill, SelfService!Decrement, VipInv, VipShape
<1>5. vipRow' = [vipRow EXCEPT ![c.id] = vipRow[c.id]]
  BY <1>1 DEF VipInv, VipShape
<1> QED
  BY <1>1, <1>2, <1>3, <1>4, <1>5, VipItemStep

LEMMA VipFindDone ==
  ASSUME VipInv, SelfService!FindDone(one)
  PROVE  VipInv'
<1>1. PICK c : c = vipCall[one]
  OBVIOUS
<1>2. c \in VipCalls /\ VipCallFits(c) /\ c.at = "done" /\ c.holds \in SUBSET Tasks
  BY <1>1, VipHolds DEF SelfService!FindDone, VipCallFits, AfterRefill
<1>3. PICK closes : closes = IF c.holds = {} THEN SelfService!OpenTasks(c.id) ELSE c.holds
  OBVIOUS
<1>4. closes \in SUBSET Tasks /\ \A t \in closes : vipRow[t] # Null
  BY <1>2, <1>3 DEF VipCallFits, AfterRefill, SelfService!OpenTasks
<1>5. PICK d : d = [c EXCEPT !.at = "close", !.holds = closes]
  OBVIOUS
<1>6. d \in VipCalls /\ d.at = "close" /\ d.holds = closes /\ d.id = c.id
  BY <1>2, <1>4, <1>5 DEF VipCalls
<1>7. VipCallFits(d)
  BY <1>4, <1>6 DEF VipCallFits, AfterRefill
<1>8. vipCall' = [vipCall EXCEPT ![one] = d]
  BY <1>1, <1>2, <1>3, <1>5 DEF SelfService!FindDone, VipInv, VipShape, VipCalls
<1> QED
  BY <1>6, <1>7, <1>8, VipCallStep DEF SelfService!FindDone, SelfService!vipGhosts

LEMMA VipCompare ==
  ASSUME VipInv, SelfService!CompareSave(one), UNCHANGED SelfService!vipGhosts
  PROVE  VipInv'
<1>1. PICK c : c = vipCall[one]
  OBVIOUS
<1>2. c \in VipCalls /\ VipCallFits(c) /\ c.at = "compare"
  BY <1>1, VipHolds DEF SelfService!CompareSave
<1>3. PICK d : d = IF vipRow[c.id] = Null THEN [c EXCEPT !.at = "insert"]
                   ELSE [c EXCEPT !.at = "update", !.columns = SelfService!Differing(c.entity, vipRow[c.id])]
  OBVIOUS
<1>4. /\ d \in VipCalls /\ d.at \in {"insert", "update"} /\ d.entity = c.entity
      /\ d.then = c.then /\ d.holds = c.holds
  BY <1>2, <1>3 DEF VipCalls, VipCallFits, SelfService!Differing, SelfService!ItemRecords
<1>5. VipCallFits(d)
  BY <1>2, <1>4 DEF VipCallFits, AfterRefill
<1>6. vipCall' = [vipCall EXCEPT ![one] = d]
  BY <1>1, <1>3 DEF SelfService!CompareSave, SelfService!GoesTo, VipInv, VipShape
<1> QED
  BY <1>4, <1>5, <1>6, VipCallStep DEF SelfService!CompareSave, SelfService!vipGhosts

\* Where a save goes on.
LEMMA VipGoesOn ==
  ASSUME VipInv, NEW c \in VipCalls, VipCallFits(c), c.at \in {"update", "insert"},
         NEW d, d = [[c EXCEPT !.columns = {}] EXCEPT !.at = c.then] \/ d = [c EXCEPT !.at = c.then]
  PROVE  d \in VipCalls /\ VipCallFits(d) /\ c.then # "idle" /\ d.id = c.id /\ d.at = c.then
<1>1. c.then \in {"alert", "done"}
  BY DEF VipCallFits
<1>2. d \in VipCalls /\ d.at = c.then /\ d.holds = c.holds /\ d.id = c.id
  BY <1>1 DEF VipCalls
<1> QED
  BY <1>1, <1>2 DEF VipCallFits, AfterRefill

LEMMA VipUpdate ==
  ASSUME VipInv, SelfService!UpdateSave(one, TRUE), UNCHANGED stock
  PROVE  VipInv'
<1>1. PICK c : c = vipCall[one]
  OBVIOUS
<1>2. c \in VipCalls /\ VipCallFits(c) /\ c.at = "update" /\ c.id \in Items /\ c.entity \in SelfService!ItemRecords
  BY <1>1, VipHolds DEF SelfService!UpdateSave, VipCalls, VipCallFits
<1>3. PICK r : r = SelfService!Written(one)
  OBVIOUS
<1>4. r \in SelfService!ItemRecords \union {Null}
  BY <1>1, <1>2, <1>3
  DEF SelfService!Written, SelfService!Updated, SelfService!ItemRecords, VipInv, VipShape
<1>5. PICK d : d = [[c EXCEPT !.columns = {}] EXCEPT !.at = c.then]
  OBVIOUS
<1>6. d \in VipCalls /\ VipCallFits(d) /\ c.then # "idle"
  BY <1>2, <1>5, VipGoesOn
<1>7. vipRow' = [vipRow EXCEPT ![c.id] = r] /\ vipCall' = [vipCall EXCEPT ![one] = d]
  BY <1>1, <1>2, <1>3, <1>5, <1>6 DEF SelfService!UpdateSave, SelfService!GoesTo, VipCalls
<1>8. stock' \in [VipZones -> Int] /\ \A z \in VipZones : stock'[z] >= Reserved[z]
  BY DEF VipInv, VipShape
<1> QED
  BY <1>2, <1>4, <1>6, <1>7, <1>8, VipItemStep

LEMMA VipInsert ==
  ASSUME VipInv, SelfService!InsertSave(one), UNCHANGED SelfService!vipGhosts
  PROVE  VipInv'
<1>1. PICK c : c = vipCall[one]
  OBVIOUS
<1>2. c \in VipCalls /\ VipCallFits(c) /\ c.at = "insert" /\ c.id \in Items /\ c.entity \in SelfService!ItemRecords
  BY <1>1, VipHolds DEF SelfService!InsertSave, VipCalls, VipCallFits
<1>3. CASE vipRow[c.id] # Null
  BY <1>1, <1>3, VipCallStep DEF SelfService!InsertSave, SelfService!Fails, SelfService!vipGhosts
<1>4. CASE vipRow[c.id] = Null
  <2>1. PICK d : d = [c EXCEPT !.at = c.then]
    OBVIOUS
  <2>2. d \in VipCalls /\ VipCallFits(d) /\ c.then # "idle"
    BY <1>2, <2>1, VipGoesOn
  <2>3. vipRow' = [vipRow EXCEPT ![c.id] = c.entity] /\ vipCall' = [vipCall EXCEPT ![one] = d]
    BY <1>1, <1>4, <2>1, <2>2 DEF SelfService!InsertSave, SelfService!GoesTo
  <2>4. stock' \in [VipZones -> Int] /\ \A z \in VipZones : stock'[z] >= Reserved[z]
    BY DEF VipInv, VipShape, SelfService!vipGhosts
  <2> QED
    BY <1>2, <2>2, <2>3, <2>4, VipItemStep
<1> QED
  BY <1>3, <1>4

LEMMA VipFails ==
  ASSUME VipInv, SelfService!Fails(one), UNCHANGED SelfService!vipGhosts
  PROVE  VipInv'
BY VipCallStep DEF SelfService!Fails, SelfService!vipGhosts

VipNextStep == SelfService!VipNext \/ SelfService!FaultNext

LEMMA VipStep == VipInv /\ [VipNextStep]_SelfService!vipVars => VipInv'
<1> SUFFICES ASSUME VipInv, [VipNextStep]_SelfService!vipVars PROVE VipInv'
  OBVIOUS
<1>1. CASE UNCHANGED SelfService!vipVars
  BY <1>1
  DEF SelfService!vipVars, SelfService!vipGhosts, VipInv, VipShape, OpenTasksAreOne, VipCallFits, AfterRefill
<1>2. ASSUME SelfService!SaveProduct(one)
      PROVE  VipInv'
  BY <1>2, VipCompare, VipInsert, VipUpdate DEF SelfService!SaveProduct
<1>3. ASSUME NEW b \in BOOLEAN, NEW z \in SelfService!SourceZones(b),
             SelfService!Refill(one, z) \/ SelfService!RefuseRefill(one, z)
      PROVE  VipInv'
  <2>1. z \in VipZones
    BY DEF SelfService!SourceZones, VipZones
  <2> QED
    BY <1>3, <2>1, VipRefill, VipFails DEF SelfService!RefuseRefill
<1>4. CASE SelfService!VipNext
  BY <1>2, <1>3, <1>4, VipProducts, VipCreateTask, VipBegins, VipFindTask, VipSkipRefill,
     VipFindDone, VipCloseTasks
  DEF SelfService!VipNext
<1>5. ASSUME NEW i \in Items, SelfService!RemoveProduct(i)
      PROVE  VipInv'
  <2>1. 0 \in SelfService!Quantities
    BY PlacesAssumption DEF SelfService!VipAssumption, SelfService!Quantities
  <2> QED
    BY <1>5, <2>1, VipProducts
<1>6. CASE SelfService!FaultNext
  BY <1>5, <1>6, VipFails DEF SelfService!FaultNext, SelfService!Crash
<1> QED
  BY <1>1, <1>4, <1>6 DEF VipNextStep

LEMMA VipPromises == VipInv => SelfService!VipTypeOK /\ SelfService!OneOpenTask
<1> SUFFICES ASSUME VipInv PROVE SelfService!VipTypeOK /\ SelfService!OneOpenTask
  OBVIOUS
<1>1. SelfService!VipTypeOK
  BY DEF VipInv, VipShape, VipZones, SelfService!VipTypeOK
<1>2. ASSUME NEW i \in Items
      PROVE  Cardinality(SelfService!OpenTasks(i)) <= 1
  <2>1. \A t, u \in SelfService!OpenTasks(i) : t = u
    BY DEF SelfService!OpenTasks, VipInv, OpenTasksAreOne
  <2>2. CASE SelfService!OpenTasks(i) = {}
    BY <2>2, FS_EmptySet
  <2>3. ASSUME NEW t \in SelfService!OpenTasks(i)
        PROVE  Cardinality(SelfService!OpenTasks(i)) <= 1
    <3>1. SelfService!OpenTasks(i) = {t}
      BY <2>1, <2>3
    <3> QED
      BY <3>1, FS_Singleton
  <2> QED
    BY <2>2, <2>3
<1>3. \A S : SelfService!Cardinality(S) = Cardinality(S)
  BY DEF SelfService!Cardinality, Cardinality
<1> QED
  BY <1>1, <1>2, <1>3 DEF SelfService!OneOpenTask

\* VIP self-service, one call at a time, for all products, tasks, thresholds and
\* stocks, whatever stops or is removed: one open task per product, and the
\* zones keep what orders reserved.
THEOREM PlacesHaveOneTask ==
  SelfService!VipFaultSpec => [](SelfService!VipTypeOK /\ SelfService!OneOpenTask)
BY VipStarts, VipStep, VipPromises, PTL DEF SelfService!VipFaultSpec, VipNextStep

\* While nothing stops and no product is removed, what was taken from the zones
\* is in the places or in the call that is about to save it: no row that a call
\* found changes before the call has saved its own.
Taken == InitialStock["KITCHEN"] - stock["KITCHEN"] + InitialStock["BRANCH"] - stock["BRANCH"]

InFlight(c) ==
  IF c.at \in {"compare", "update"} /\ c.then = "done" /\ c.entity.quantity > vipRow[c.id].quantity
  THEN c.entity.quantity - vipRow[c.id].quantity
  ELSE 0

TakenCallFits(c) ==
  /\ vipRow[c.id] # Null
  /\ c.at # "insert"
  /\ c.at = "update" => c.columns = SelfService!Differing(c.entity, vipRow[c.id])

TakenInv ==
  /\ VipInv
  /\ put \in Int
  /\ Taken = put + InFlight(vipCall[one])
  /\ vipCall[one] # SelfService!Idle => TakenCallFits(vipCall[one])
  /\ \A t \in Tasks : vipRow[t] # Null => vipRow[vipRow[t].item] # Null

LEMMA TakenStarts == SelfService!VipInit => TakenInv
<1> SUFFICES ASSUME SelfService!VipInit PROVE TakenInv
  OBVIOUS
<1>1. VipInv
  BY VipStarts
<1>2. vipCall[one] = SelfService!Idle /\ put = 0 /\ stock = InitialStock /\ \A t \in Tasks : vipRow[t] = Null
  BY DEF SelfService!VipInit
<1>3. InFlight(vipCall[one]) = 0
  BY <1>2 DEF InFlight, SelfService!Idle
<1>4. Taken = 0
  BY <1>2, PlacesAssumption DEF Taken, SelfService!VipAssumption
<1> QED
  BY <1>1, <1>2, <1>3, <1>4 DEF TakenInv

\* A step that only moves the call, and what it carries with it.
LEMMA TakenCallStep ==
  ASSUME TakenInv, VipInv', NEW d, d = SelfService!Idle \/ TakenCallFits(d),
         InFlight(d) = InFlight(vipCall[one]),
         vipCall' = [vipCall EXCEPT ![one] = d], UNCHANGED <<vipRow, stock, put>>
  PROVE  TakenInv'
<1>1. vipCall'[one] = d
  BY DEF TakenInv, VipInv, VipShape
<1>2. InFlight(vipCall[one])' = InFlight(d)
  BY <1>1 DEF InFlight
<1>3. vipCall'[one] # SelfService!Idle => TakenCallFits(vipCall[one])'
  BY <1>1 DEF TakenCallFits
<1>4. Taken' = Taken
  BY DEF Taken
<1> QED
  BY <1>2, <1>3, <1>4 DEF TakenInv

\* Away from a save, a call carries nothing.
LEMMA NothingInFlight ==
  ASSUME NEW c, c.at \notin {"compare", "update"} \/ c.then # "done"
  PROVE  InFlight(c) = 0
BY DEF InFlight

LEMMA TakenAddProduct ==
  ASSUME TakenInv, VipInv', NEW i \in Items, NEW quantity \in SelfService!Quantities,
         NEW min \in SelfService!Quantities, NEW max \in SelfService!Quantities,
         SelfService!AddProduct(i, quantity, min, max)
  PROVE  TakenInv'
<1>1. PICK r : r = [quantity |-> quantity, min |-> min, max |-> max]
  OBVIOUS
<1>2. r # Null
  BY <1>1, VipKeysDiffer DEF SelfService!ItemRecords
<1>3. vipRow' = [vipRow EXCEPT ![i] = r] /\ vipRow[i] = Null /\ UNCHANGED <<vipCall, stock, put>>
  BY <1>1 DEF SelfService!AddProduct, SelfService!vipGhosts
<1>4. \A k \in VipKeys : vipRow'[k] = IF k = i THEN r ELSE vipRow[k]
  BY <1>3 DEF TakenInv, VipInv, VipShape
<1>5. PICK c : c = vipCall[one]
  OBVIOUS
<1>6. c # SelfService!Idle => vipRow'[c.id] = vipRow[c.id] /\ c \in VipCalls
  BY <1>3, <1>4, <1>5, VipKeysDiffer DEF TakenInv, VipInv, VipShape, TakenCallFits, VipCalls
<1>7. InFlight(c)' = InFlight(c)
  BY <1>6 DEF InFlight, SelfService!Idle
<1>8. Taken' = Taken /\ InFlight(vipCall[one])' = InFlight(vipCall[one]) /\ put' \in Int
  BY <1>3, <1>5, <1>7 DEF Taken, TakenInv
<1>9. vipCall'[one] # SelfService!Idle => TakenCallFits(vipCall[one])'
  <2>1. c # SelfService!Idle => TakenCallFits(c)'
    BY <1>5, <1>6 DEF TakenInv, TakenCallFits
  <2> QED
    BY <1>3, <1>5, <2>1
<1>10. \A t \in Tasks : vipRow'[t] # Null => vipRow'[vipRow'[t].item] # Null
  <2> SUFFICES ASSUME NEW t \in Tasks, vipRow'[t] # Null
               PROVE  vipRow'[vipRow'[t].item] # Null
    OBVIOUS
  <2>1. vipRow'[t] = vipRow[t] /\ vipRow[t].item \in Items
    BY <1>4, VipKeysDiffer DEF TakenInv, VipInv, VipShape, SelfService!TaskRecords
  <2> QED
    BY <1>2, <1>4, <2>1, VipKeysDiffer DEF TakenInv
<1> QED
  BY <1>8, <1>9, <1>10, <1>3 DEF TakenInv

LEMMA TakenAdjust ==
  ASSUME TakenInv, VipInv', NEW i \in Items, NEW quantity, NEW min, NEW max,
         SelfService!AdjustProduct(one, i, quantity, min, max)
  PROVE  TakenInv'
<1>1. PICK e : e = [quantity |-> quantity, min |-> min, max |-> max]
  OBVIOUS
<1>2. PICK d : d = SelfService!Saving(SelfService!NewCall, i, e, "alert")
  OBVIOUS
<1>3. d.at = "compare" /\ d.then = "alert" /\ d.id = i
  BY <1>2 DEF SelfService!Saving, SelfService!NewCall
<1>4. TakenCallFits(d) /\ InFlight(d) = 0 /\ InFlight(vipCall[one]) = 0
  BY <1>3, NothingInFlight DEF TakenCallFits, SelfService!AdjustProduct, SelfService!Idle
<1> QED
  BY <1>1, <1>2, <1>4, TakenCallStep DEF SelfService!AdjustProduct, SelfService!vipGhosts

\* Steps between the saves.
LEMMA TakenMoves ==
  ASSUME TakenInv, VipInv', NEW c, c = vipCall[one], c.at \notin {"compare", "update"},
         NEW d, d = SelfService!Idle \/ (d.at \notin {"compare", "update", "insert"} /\ vipRow[d.id] # Null),
         vipCall' = [vipCall EXCEPT ![one] = d], UNCHANGED <<vipRow, stock, put>>
  PROVE  TakenInv'
<1>1. InFlight(c) = 0 /\ InFlight(d) = 0
  BY NothingInFlight DEF SelfService!Idle
<1>2. d = SelfService!Idle \/ TakenCallFits(d)
  BY DEF TakenCallFits
<1> QED
  BY <1>1, <1>2, TakenCallStep

\* The call that is not idle.
LEMMA TakenHolds ==
  ASSUME TakenInv, NEW c, c = vipCall[one], c.at # "idle"
  PROVE  c \in VipCalls /\ VipCallFits(c) /\ TakenCallFits(c) /\ c.id \in Items
BY VipHolds DEF TakenInv, SelfService!Idle, VipCalls

LEMMA TakenBetween ==
  ASSUME TakenInv, VipInv'
  PROVE  /\ SelfService!FindTask(one) => TakenInv'
         /\ SelfService!SkipRefill(one) => TakenInv'
         /\ SelfService!FindDone(one) => TakenInv'
         /\ \A t \in Tasks : SelfService!CompleteTask(one, t) => TakenInv'
         /\ \A i \in Items : SelfService!ReplenishLocation(one, i) => TakenInv'
         /\ \A z \in VipZones : SelfService!RefuseRefill(one, z) => TakenInv'
<1>1. PICK c : c = vipCall[one]
  OBVIOUS
<1>2. CASE SelfService!FindTask(one)
  <2>1. c.at = "alert" /\ c \in VipCalls /\ vipRow[c.id] # Null
    BY <1>1, <1>2, TakenHolds DEF SelfService!FindTask, TakenCallFits
  <2>2. PICK d : /\ d = SelfService!Idle \/ d = [c EXCEPT !.at = "create"]
                 /\ vipCall' = [vipCall EXCEPT ![one] = d]
    BY <1>1, <1>2 DEF SelfService!FindTask, SelfService!GoesTo
  <2>3. d = SelfService!Idle \/ (d.at = "create" /\ d.id = c.id)
    BY <2>1, <2>2 DEF VipCalls
  <2> QED
    BY <1>1, <1>2, <2>1, <2>2, <2>3, TakenMoves DEF SelfService!FindTask, SelfService!vipGhosts
<1>3. CASE SelfService!SkipRefill(one)
  <2>1. c.at = "refill" /\ c \in VipCalls /\ vipRow[c.id] # Null
    BY <1>1, <1>3, TakenHolds DEF SelfService!SkipRefill, TakenCallFits
  <2>2. PICK d : d = [c EXCEPT !.at = "done"] /\ vipCall' = [vipCall EXCEPT ![one] = d]
    BY <1>1, <1>3 DEF SelfService!SkipRefill, SelfService!GoesTo
  <2>3. d.at = "done" /\ d.id = c.id
    BY <2>1, <2>2 DEF VipCalls
  <2> QED
    BY <1>1, <1>3, <2>1, <2>2, <2>3, TakenMoves DEF SelfService!SkipRefill, SelfService!vipGhosts
<1>4. CASE SelfService!FindDone(one)
  <2>1. c.at = "done" /\ c \in VipCalls /\ vipRow[c.id] # Null
    BY <1>1, <1>4, TakenHolds DEF SelfService!FindDone, TakenCallFits
  <2>2. PICK closes : closes = IF c.holds = {} THEN SelfService!OpenTasks(c.id) ELSE c.holds
    OBVIOUS
  <2>3. PICK d : d = [c EXCEPT !.at = "close", !.holds = closes]
    OBVIOUS
  <2>4. d.at = "close" /\ d.id = c.id
    BY <2>1, <2>3 DEF VipCalls
  <2>5. vipCall' = [vipCall EXCEPT ![one] = d]
    BY <1>1, <1>4, <2>1, <2>2, <2>3 DEF SelfService!FindDone, TakenInv, VipInv, VipShape, VipCalls
  <2> QED
    BY <1>1, <1>4, <2>1, <2>4, <2>5, TakenMoves DEF SelfService!FindDone, SelfService!vipGhosts
<1>5. ASSUME NEW i \in Items, NEW closes, vipRow[i] # Null, c = SelfService!Idle,
             vipCall' = [vipCall EXCEPT
               ![one] = [SelfService!NewCall EXCEPT !.at = "refill", !.id = i, !.holds = closes]],
             UNCHANGED <<vipRow, stock, put>>
      PROVE  TakenInv'
  <2>1. PICK d : d = [SelfService!NewCall EXCEPT !.at = "refill", !.id = i, !.holds = closes]
    OBVIOUS
  <2>2. d.at = "refill" /\ d.id = i /\ c.at = "idle"
    BY <1>5, <2>1 DEF SelfService!NewCall, SelfService!Idle
  <2> QED
    BY <1>1, <1>5, <2>1, <2>2, TakenMoves
<1>6. ASSUME NEW t \in Tasks, SelfService!CompleteTask(one, t)
      PROVE  TakenInv'
  <2>1. PICK i : i = vipRow[t].item
    OBVIOUS
  <2>2. i \in Items /\ vipRow[i] # Null
    BY <1>6, <2>1
    DEF SelfService!CompleteTask, TakenInv, VipInv, VipShape, SelfService!TaskRecords
  <2> QED
    BY <1>1, <1>5, <1>6, <2>1, <2>2 DEF SelfService!CompleteTask, SelfService!vipGhosts
<1>7. ASSUME NEW i \in Items, SelfService!ReplenishLocation(one, i)
      PROVE  TakenInv'
  BY <1>1, <1>5, <1>7 DEF SelfService!ReplenishLocation, SelfService!vipGhosts
<1>8. ASSUME NEW z \in VipZones, SelfService!RefuseRefill(one, z)
      PROVE  TakenInv'
  BY <1>1, <1>8, TakenMoves
  DEF SelfService!RefuseRefill, SelfService!Fails, SelfService!vipGhosts, SelfService!Idle
<1> QED
  BY <1>2, <1>3, <1>4, <1>6, <1>7, <1>8

LEMMA TakenCreateTask ==
  ASSUME TakenInv, VipInv', NEW t \in Tasks, SelfService!CreateTask(one, t)
  PROVE  TakenInv'
<1>1. PICK c : c = vipCall[one]
  OBVIOUS
<1>2. c.at = "create" /\ vipRow[c.id] # Null /\ c.id \in Items
  BY <1>1, TakenHolds DEF SelfService!CreateTask, TakenCallFits
<1>3. PICK r : r = [item |-> c.id, status |-> "OPEN"]
  OBVIOUS
<1>4. /\ vipRow' = [vipRow EXCEPT ![t] = r]
      /\ vipCall' = [vipCall EXCEPT ![one] = SelfService!Idle]
      /\ UNCHANGED <<stock, put>>
  BY <1>1, <1>3 DEF SelfService!CreateTask, SelfService!GoesTo, SelfService!vipGhosts
<1>5. vipCall'[one] = SelfService!Idle
  BY <1>4 DEF TakenInv, VipInv, VipShape
<1>6. InFlight(vipCall[one]) = 0 /\ InFlight(vipCall[one])' = 0
  BY <1>1, <1>2, <1>5 DEF InFlight, SelfService!Idle
<1>7. \A k \in VipKeys : vipRow'[k] = IF k = t THEN r ELSE vipRow[k]
  BY <1>4 DEF TakenInv, VipInv, VipShape
<1>8. ASSUME NEW u \in Tasks, vipRow'[u] # Null
      PROVE  vipRow'[vipRow'[u].item] # Null
  <2>1. CASE u = t
    BY <1>2, <1>3, <1>7, <2>1, VipKeysDiffer
  <2>2. CASE u # t
    <3>1. vipRow'[u] = vipRow[u] /\ vipRow[u].item \in Items
      BY <1>7, <1>8, <2>2, VipKeysDiffer DEF TakenInv, VipInv, VipShape, SelfService!TaskRecords
    <3> QED
      BY <1>7, <1>8, <3>1, VipKeysDiffer DEF TakenInv
  <2> QED
    BY <2>1, <2>2
<1> QED
  BY <1>4, <1>5, <1>6, <1>8 DEF TakenInv, Taken

LEMMA TakenCloseTasks ==
  ASSUME TakenInv, VipInv', SelfService!CloseTasks(one)
  PROVE  TakenInv'
<1>1. PICK c : c = vipCall[one]
  OBVIOUS
<1>2. c.at = "close" /\ c.holds \in SUBSET Tasks /\ \A t \in c.holds : vipRow[t] # Null
  BY <1>1, TakenHolds DEF SelfService!CloseTasks, VipCallFits, AfterRefill
<1>3. /\ vipRow' = [t \in VipKeys |->
           IF t \in c.holds THEN [vipRow[t] EXCEPT !.status = "COMPLETED"] ELSE vipRow[t]]
      /\ vipCall' = [vipCall EXCEPT ![one] = SelfService!Idle]
      /\ UNCHANGED <<stock, put>>
  BY <1>1 DEF SelfService!CloseTasks, SelfService!GoesTo, SelfService!vipGhosts, TakenInv, VipInv, VipShape
<1>4. vipCall'[one] = SelfService!Idle
  BY <1>3 DEF TakenInv, VipInv, VipShape
<1>5. InFlight(vipCall[one]) = 0 /\ InFlight(vipCall[one])' = 0
  BY <1>1, <1>2, <1>4 DEF InFlight, SelfService!Idle
<1>6. \A i \in Items : vipRow'[i] = vipRow[i]
  BY <1>2, <1>3, VipKeysDiffer
<1>7. ASSUME NEW u \in Tasks, vipRow'[u] # Null
      PROVE  vipRow'[vipRow'[u].item] # Null
  <2>1. vipRow[u] # Null
    BY <1>2, <1>3, <1>7, VipKeysDiffer
  <2>2. vipRow[u] \in SelfService!TaskRecords /\ vipRow[u].item \in Items
    BY <2>1 DEF TakenInv, VipInv, VipShape, SelfService!TaskRecords
  <2>3. vipRow'[u].item = vipRow[u].item
    BY <1>3, <2>2, VipKeysDiffer DEF SelfService!TaskRecords
  <2> QED
    BY <1>6, <2>1, <2>2, <2>3 DEF TakenInv
<1> QED
  BY <1>3, <1>4, <1>5, <1>7 DEF TakenInv, Taken

LEMMA TakenRefill ==
  ASSUME TakenInv, VipInv', NEW z \in VipZones, SelfService!Refill(one, z)
  PROVE  TakenInv'
<1>1. PICK c, d, e :
        /\ c = vipCall[one] /\ c \in VipCalls /\ c.at = "refill"
        /\ vipRow[c.id] # Null /\ vipRow[c.id] \in SelfService!ItemRecords
        /\ e \in SelfService!ItemRecords /\ e.quantity = vipRow[c.id].max
        /\ d \in VipCalls /\ d.at = "compare" /\ d.id = c.id /\ d.entity = e /\ d.then = "done"
        /\ vipCall' = [vipCall EXCEPT ![one] = d] /\ UNCHANGED vipRow
  BY VipRefillIs DEF TakenInv
<1>2. PICK q, m : q = vipRow[c.id].quantity /\ m = vipRow[c.id].max
  OBVIOUS
<1>3. q \in Nat /\ m \in Nat
  BY <1>1, <1>2, PlacesAssumption
  DEF SelfService!VipAssumption, SelfService!ItemRecords, SelfService!Quantities
<1>4. /\ stock' = IF m - q > 0 THEN [stock EXCEPT ![z] = @ - (m - q)] ELSE stock
      /\ put' = put
  BY <1>1, <1>2 DEF SelfService!Refill, SelfService!Decrement, SelfService!Missing
<1>5. vipCall'[one] = d
  BY <1>1 DEF TakenInv, VipInv, VipShape
<1>6. InFlight(vipCall[one])' = IF m > q THEN m - q ELSE 0
  BY <1>1, <1>2, <1>5 DEF InFlight
<1>7. InFlight(vipCall[one]) = 0
  BY <1>1 DEF InFlight
<1>8. Taken' = Taken + (IF m > q THEN m - q ELSE 0)
  <2>1. /\ stock \in [VipZones -> Int] /\ InitialStock["KITCHEN"] \in Int /\ InitialStock["BRANCH"] \in Int
        /\ "KITCHEN" \in VipZones /\ "BRANCH" \in VipZones
    BY PlacesAssumption DEF SelfService!VipAssumption, TakenInv, VipInv, VipShape, VipZones
  <2>2. stock["KITCHEN"] \in Int /\ stock["BRANCH"] \in Int
    BY <2>1
  <2>3. CASE z = "KITCHEN"
    <3>1. /\ stock'["KITCHEN"] = stock["KITCHEN"] - (IF m > q THEN m - q ELSE 0)
          /\ stock'["BRANCH"] = stock["BRANCH"]
      BY <1>3, <1>4, <2>1, <2>3
    <3> QED
      BY <1>3, <2>1, <2>2, <3>1 DEF Taken
  <2>4. CASE z = "BRANCH"
    <3>1. /\ stock'["BRANCH"] = stock["BRANCH"] - (IF m > q THEN m - q ELSE 0)
          /\ stock'["KITCHEN"] = stock["KITCHEN"]
      BY <1>3, <1>4, <2>1, <2>4
    <3> QED
      BY <1>3, <2>1, <2>2, <3>1 DEF Taken
  <2> QED
    BY <2>3, <2>4 DEF VipZones
<1>9. TakenCallFits(vipCall[one])'
  BY <1>1, <1>5 DEF TakenCallFits
<1> QED
  BY <1>1, <1>3, <1>4, <1>6, <1>7, <1>8, <1>9 DEF TakenInv

LEMMA TakenCompare ==
  ASSUME TakenInv, VipInv', SelfService!CompareSave(one), UNCHANGED SelfService!vipGhosts
  PROVE  TakenInv'
<1>1. PICK c : c = vipCall[one]
  OBVIOUS
<1>2. c \in VipCalls /\ c.at = "compare" /\ vipRow[c.id] # Null
  BY <1>1, TakenHolds DEF SelfService!CompareSave, TakenCallFits
<1>3. PICK d : d = [c EXCEPT !.at = "update", !.columns = SelfService!Differing(c.entity, vipRow[c.id])]
  OBVIOUS
<1>4. /\ d.at = "update" /\ d.entity = c.entity /\ d.then = c.then /\ d.id = c.id
      /\ d.columns = SelfService!Differing(d.entity, vipRow[d.id])
  BY <1>2, <1>3 DEF VipCalls
<1>5. TakenCallFits(d) /\ InFlight(d) = InFlight(c)
  BY <1>2, <1>4 DEF TakenCallFits, InFlight
<1>6. vipCall' = [vipCall EXCEPT ![one] = d]
  BY <1>1, <1>2, <1>3 DEF SelfService!CompareSave, TakenInv, VipInv, VipShape
<1> QED
  BY <1>1, <1>5, <1>6, TakenCallStep DEF SelfService!CompareSave, SelfService!vipGhosts

LEMMA TakenUpdate ==
  ASSUME TakenInv, VipInv', SelfService!SaveProduct(one), SelfService!UpdateSave(one, TRUE),
         UNCHANGED stock,
         put' = IF /\ vipCall[one].then = "done"
                   /\ vipRow[vipCall[one].id] # Null
                   /\ vipRow'[vipCall[one].id].quantity > vipRow[vipCall[one].id].quantity
                THEN put + vipRow'[vipCall[one].id].quantity - vipRow[vipCall[one].id].quantity
                ELSE put
  PROVE  TakenInv'
<1>1. PICK c : c = vipCall[one]
  OBVIOUS
<1>2. /\ c \in VipCalls /\ VipCallFits(c) /\ TakenCallFits(c) /\ c.id \in Items /\ c.at = "update"
  BY <1>1, TakenHolds DEF SelfService!UpdateSave
<1>3. PICK s : s = vipRow[c.id]
  OBVIOUS
<1>4. /\ s # Null /\ s \in SelfService!ItemRecords /\ c.entity \in SelfService!ItemRecords
      /\ c.columns = SelfService!Differing(c.entity, s) /\ c.then \in {"alert", "done"}
  BY <1>2, <1>3 DEF TakenCallFits, VipCallFits, TakenInv, VipInv, VipShape
<1>5. SelfService!Written(one) = c.entity
  <2>1. SelfService!Written(one) = SelfService!Updated(s, c.entity, c.columns)
    BY <1>1, <1>3, <1>4 DEF SelfService!Written
  <2> QED
    BY <1>4, <2>1 DEF SelfService!Updated, SelfService!Differing, SelfService!ItemRecords
<1>6. PICK d : d = [[c EXCEPT !.columns = {}] EXCEPT !.at = c.then]
  OBVIOUS
<1>7. d.at = c.then /\ d.id = c.id
  BY <1>2, <1>6, VipGoesOn DEF TakenInv
<1>8. vipRow' = [vipRow EXCEPT ![c.id] = c.entity] /\ vipCall' = [vipCall EXCEPT ![one] = d]
  BY <1>1, <1>4, <1>5, <1>6 DEF SelfService!UpdateSave, SelfService!GoesTo
<1>9. /\ \A k \in VipKeys : vipRow'[k] = IF k = c.id THEN c.entity ELSE vipRow[k]
      /\ vipCall'[one] = d
  BY <1>8 DEF TakenInv, VipInv, VipShape
<1>10. vipRow'[c.id] = c.entity /\ c.entity # Null
  BY <1>2, <1>4, <1>9, VipKeysDiffer
<1>11. PICK q, e : q = s.quantity /\ e = c.entity.quantity
  OBVIOUS
<1>12. q \in Nat /\ e \in Nat
  BY <1>4, <1>11, PlacesAssumption
  DEF SelfService!VipAssumption, SelfService!ItemRecords, SelfService!Quantities
<1>13. InFlight(c) = IF c.then = "done" /\ e > q THEN e - q ELSE 0
  BY <1>2, <1>3, <1>11 DEF InFlight
<1>14. put' = IF c.then = "done" /\ e > q THEN put + e - q ELSE put
  BY <1>1, <1>3, <1>4, <1>10, <1>11
<1>15. InFlight(vipCall[one])' = 0
  BY <1>4, <1>7, <1>9 DEF InFlight
<1>16. Taken' = Taken
  BY DEF Taken
<1>17. put' \in Int /\ Taken' = put' + InFlight(vipCall[one])'
  BY <1>1, <1>12, <1>13, <1>14, <1>15, <1>16 DEF TakenInv
<1>18. TakenCallFits(vipCall[one])'
  BY <1>4, <1>7, <1>9, <1>10 DEF TakenCallFits
<1>19. ASSUME NEW t \in Tasks, vipRow'[t] # Null
       PROVE  vipRow'[vipRow'[t].item] # Null
  <2>1. vipRow'[t] = vipRow[t] /\ vipRow[t].item \in Items
    BY <1>2, <1>9, <1>19, VipKeysDiffer DEF TakenInv, VipInv, VipShape, SelfService!TaskRecords
  <2> QED
    BY <1>9, <1>10, <1>19, <2>1, VipKeysDiffer DEF TakenInv
<1> QED
  BY <1>17, <1>18, <1>19 DEF TakenInv

LEMMA TakenStep == TakenInv /\ [SelfService!VipNext]_SelfService!vipVars => TakenInv'
<1> SUFFICES ASSUME TakenInv, [SelfService!VipNext]_SelfService!vipVars PROVE TakenInv'
  OBVIOUS
<1>1. VipInv'
  BY VipStep DEF TakenInv, VipNextStep
<1>2. CASE UNCHANGED SelfService!vipVars
  BY <1>1, <1>2
  DEF SelfService!vipVars, SelfService!vipGhosts, TakenInv, Taken, InFlight, TakenCallFits
<1>3. ASSUME SelfService!SaveProduct(one)
      PROVE  TakenInv'
  <2>1. ~SelfService!InsertSave(one)
    BY TakenHolds DEF SelfService!InsertSave, TakenCallFits
  <2> QED
    BY <1>1, <1>3, <2>1, TakenCompare, TakenUpdate DEF SelfService!SaveProduct
<1>4. ASSUME NEW b \in BOOLEAN, NEW z \in SelfService!SourceZones(b),
             SelfService!Refill(one, z) \/ SelfService!RefuseRefill(one, z)
      PROVE  TakenInv'
  <2>1. z \in VipZones
    BY DEF SelfService!SourceZones, VipZones
  <2> QED
    BY <1>1, <1>4, <2>1, TakenRefill, TakenBetween
<1>5. CASE SelfService!VipNext
  BY <1>1, <1>3, <1>4, <1>5, TakenAddProduct, TakenAdjust, TakenBetween, TakenCreateTask, TakenCloseTasks
  DEF SelfService!VipNext
<1> QED
  BY <1>2, <1>5

LEMMA TakenPromises == TakenInv => SelfService!TakenIsPut
<1> SUFFICES ASSUME TakenInv, SelfService!Quiet
             PROVE  put = Taken
  BY DEF SelfService!TakenIsPut, Taken
<1>1. vipCall[one].at = "idle"
  BY DEF SelfService!Quiet, SelfService!Idle
<1>2. InFlight(vipCall[one]) = 0
  BY <1>1 DEF InFlight
<1> QED
  BY <1>2 DEF TakenInv

\* VIP self-service, one call at a time, while nothing stops and no product is
\* removed: the places get what is taken from the zones.
THEOREM TakenUnitsArePut == SelfService!VipSpec => []SelfService!TakenIsPut
BY TakenStarts, TakenStep, TakenPromises, PTL DEF SelfService!VipSpec

-----------------------------------------------------------------------------
(***************************************************************************)
(* The same of the services together, as the run explores them: each moves *)
(* only in its own steps.                                                  *)
(***************************************************************************)
LEMMA TransfersOnlyMoveThere ==
  ASSUME [Next]_vars
  PROVE  /\ service' = service
         /\ service = "transfers" => [Transfer!LockedNext]_Transfer!transferVars
         /\ service = "replenishments" => [RefillNext]_Replenishment!transferVars
<1>1. CASE TransferNext
  BY <1>1 DEF TransferNext, RefillNext
<1>2. ASSUME UNCHANGED <<service, transferVars>>
      PROVE  /\ service' = service
             /\ UNCHANGED Transfer!transferVars /\ UNCHANGED Replenishment!transferVars
  BY <1>2
  DEF transferVars, Transfer!transferVars, Transfer!ghostVars,
      Replenishment!transferVars, Replenishment!ghostVars
<1> QED
  BY <1>1, <1>2 DEF Next, vars, PurchaseNext, SelfServiceNext, CleaningNext, MeetingNext

\* In the service of the transfers, whatever call comes when: no unit is made or
\* lost, what orders reserved stays, and each transfer moves once.
THEOREM TransfersAlwaysKeepUnits == Spec => []TransfersKeepUnits
<1> DEFINE Kept == service = "transfers" => TransferInv
<1>1. Init => Kept
  BY TransferStarts DEF Init
<1>2. Kept /\ [Next]_vars => Kept'
  BY TransfersOnlyMoveThere, TransferStep
<1>3. Kept => TransfersKeepUnits
  BY TransferPromises DEF TransfersKeepUnits
<1> QED
  BY <1>1, <1>2, <1>3, PTL DEF Spec

\* In the service of the replenishments, with processes that stop: confirmed and
\* fulfilled say that the units arrived.
THEOREM StatusesAlwaysFollowUnits == Spec => []StatusFollowsUnits
<1> DEFINE Followed == service = "replenishments" => RefillInv
<1>1. Init => Followed
  BY RefillStarts DEF Init
<1>2. Followed /\ [Next]_vars => Followed'
  BY TransfersOnlyMoveThere, RefillStep
<1>3. Followed => StatusFollowsUnits
  BY RefillPromises DEF StatusFollowsUnits
<1> QED
  BY <1>1, <1>2, <1>3, PTL DEF Spec

LEMMA RoomsOnlyMoveThere ==
  ASSUME [Next]_vars
  PROVE  /\ service' = service
         /\ [Clean!CleaningNext]_Clean!saveVars
         /\ service = "bookings" => [Booking!BookingNext \/ Booking!MeetingCrash]_Booking!meetingVars
         /\ service \in {"meetings", "meetings alone"} => [RoomNext]_Meeting!meetingVars
         /\ service = "meetings alone" => [RoomNext /\ Alone(roomCall')]_Meeting!meetingVars
<1> USE DEF cleanVars, Clean!saveVars, roomVars, Booking!meetingVars, Booking!saveVars,
            Meeting!meetingVars, Meeting!saveVars
<1>1. CASE CleaningNext
  BY <1>1 DEF CleaningNext
<1>2. CASE MeetingNext
  BY <1>2 DEF MeetingNext, RoomNext
<1>3. CASE UNCHANGED <<service, cleanVars, roomVars>>
  BY <1>3
<1> QED
  BY <1>1, <1>2, <1>3 DEF Next, vars, TransferNext, PurchaseNext, SelfServiceNext

\* Cleaning, bookings and preparations, each in its own service.
THEOREM RoomsAreAlwaysReady == Spec => []RoomsAreReady
<1> DEFINE Rooms == /\ CleanInv
                    /\ service = "bookings" => BookingInv
                    /\ service \in {"meetings", "meetings alone"} => RoomInv
                    /\ service = "meetings alone" => AloneInv
<1>1. Init => Rooms
  BY CleanStarts, BookingStarts, RoomStarts, AloneStarts DEF Init
<1>2. Rooms /\ [Next]_vars => Rooms'
  BY RoomsOnlyMoveThere, CleanStep, BookingStep, RoomStep, AloneStep
<1>3. Rooms => RoomsAreReady
  BY RoomPromises, AlonePromises DEF RoomsAreReady, CleanInv, BookingInv
<1> QED
  BY <1>1, <1>2, <1>3, PTL DEF Spec

LEMMA PurchasesOnlyMoveThere ==
  ASSUME [Next]_vars
  PROVE  [Purchase!ProcurementNext]_Purchase!procurementVars
<1>1. CASE PurchaseNext
  BY <1>1 DEF PurchaseNext
<1>2. CASE UNCHANGED orderVars
  BY <1>2 DEF orderVars, Purchase!procurementVars
<1> QED
  BY <1>1, <1>2 DEF Next, vars, TransferNext, SelfServiceNext, CleaningNext, MeetingNext

\* Purchase orders: validations stand, with edits and crashes.
THEOREM ValidationsAlwaysStand == Spec => []ValidationsStand
<1>1. Init => PurchaseInv
  BY PurchaseStarts DEF Init
<1>2. PurchaseInv /\ [Next]_vars => PurchaseInv'
  BY PurchasesOnlyMoveThere, PurchaseStep
<1>3. PurchaseInv => ValidationsStand
  BY PurchasePromises DEF ValidationsStand
<1> QED
  BY <1>1, <1>2, <1>3, PTL DEF Spec

LEMMA PlacesOnlyMoveThere ==
  ASSUME [Next]_vars
  PROVE  /\ service' = service
         /\ [VipNextStep]_SelfService!vipVars
         /\ service = "self-service alone" => [SelfService!VipNext]_SelfService!vipVars
<1>1. CASE SelfServiceNext
  BY <1>1 DEF SelfServiceNext, VipNextStep
<1>2. CASE UNCHANGED <<service, vipVars>>
  BY <1>2 DEF vipVars, SelfService!vipVars, SelfService!vipGhosts
<1> QED
  BY <1>1, <1>2 DEF Next, vars, TransferNext, PurchaseNext, CleaningNext, MeetingNext

\* VIP self-service, with and without processes that stop.
THEOREM PlacesAreAlwaysSupplied == Spec => []PlacesAreSupplied
<1> DEFINE Supplies == VipInv /\ (service = "self-service alone" => TakenInv)
<1>1. Init => Supplies
  BY VipStarts, TakenStarts DEF Init
<1>2. Supplies /\ [Next]_vars => Supplies'
  BY PlacesOnlyMoveThere, VipStep, TakenStep
<1>3. Supplies => PlacesAreSupplied
  BY VipPromises, TakenPromises DEF PlacesAreSupplied
<1> QED
  BY <1>1, <1>2, <1>3, PTL DEF Spec
=============================================================================
