--------------------------- MODULE InventoryEdit ---------------------------
(***************************************************************************)
(* PATCH of an inventory item, beside the orders that reserve it.          *)
(*                                                                         *)
(* InventoryService.update reads the entity without a lock, changes some   *)
(* fields of it and saves it.  The save of TypeORM reads the row again and *)
(* writes the columns of the entity that differ from it, so a value that   *)
(* became old between the two reads is written back.                       *)
(***************************************************************************)
EXTENDS Orders

VARIABLES
  step,       \* of the edit in progress: "none", "read" or "compared"
  item,       \* the item it edits
  entity,     \* quantity and reserved of the entity in memory
  columns     \* columns the UPDATE will set

editVars == <<step, item, entity, columns>>
editAllVars == <<vars, editVars>>

CommittedReserved(i) == reserved[i] - OpenHeld(i)

\* findOne, then the fields of the request: the quantity may be one of them.
ReadEntity(i) ==
  /\ step = "none"
  /\ step' = "read"
  /\ item' = i
  /\ \E n \in {quantity[i]} \union (0..MaxStock) :
       entity' = [quantity |-> n, reserved |-> CommittedReserved(i)]
  /\ UNCHANGED <<vars, columns>>

\* The first half of save: the row is read again and compared.
CompareEntity ==
  /\ step = "read"
  /\ step' = "compared"
  /\ columns' =
       {c \in {"quantity", "reserved"} :
          entity[c] # IF c = "quantity" THEN quantity[item]
                                        ELSE CommittedReserved(item)}
  /\ UNCHANGED <<vars, item, entity>>

Written(c, current) == IF c \in columns THEN entity[c] ELSE current

\* The second half: UPDATE waits for the row; a CHECK may refuse it.
WriteEntity ==
  LET q == Written("quantity", quantity[item])
      v == Written("reserved", reserved[item])
  IN  /\ step = "compared"
      /\ \A r \in Requests : item \notin ItemLocks(r)
      /\ step' = "none"
      /\ columns' = {}
      /\ IF v <= q
         THEN /\ quantity' = [quantity EXCEPT ![item] = q]
              /\ reserved' = [reserved EXCEPT ![item] = v]
         ELSE UNCHANGED stockVars
      /\ UNCHANGED <<used, nextNumber, period, request, window, bookVars,
                     orderVars, item, entity>>

EditInit ==
  /\ Init
  /\ step = "none"
  /\ item \in Counted
  /\ entity = [quantity |-> 0, reserved |-> 0]
  /\ columns = {}

EditNext ==
  \/ Next /\ UNCHANGED editVars
  \/ \E i \in Counted : ReadEntity(i)
  \/ CompareEntity
  \/ WriteEntity

EditSpec == EditInit /\ [][EditNext]_editAllVars

=============================================================================
