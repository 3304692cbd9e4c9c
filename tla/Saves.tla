------------------------------- MODULE Saves -------------------------------
(***************************************************************************)
(* How a service changes a row outside a transaction of its own: it finds  *)
(* an entity, assigns to its fields and saves it.  The save of TypeORM     *)
(* reads the row again, compares, and updates only the columns in which    *)
(* the entity differs, so an old value of the entity is written back over  *)
(* what others stored since it was found.  No entity of this system has a  *)
(* version column that would refuse the write.                             *)
(***************************************************************************)
EXTENDS Naturals, FiniteSets

CONSTANTS
  Calls,  \* the calls of the API that are in progress at once
  Null    \* a NULL column, and a row that does not exist

VARIABLES
  row,    \* the rows of the tables of a component, by id
  call    \* each call: where it is, and the entity it holds

saveVars == <<row, call>>

Idle == [at |-> "idle"]

Differing(entity, stored) == {c \in DOMAIN entity : entity[c] # stored[c]}

Updated(stored, entity, columns) ==
  [c \in DOMAIN stored |-> IF c \in columns THEN entity[c] ELSE stored[c]]

\* The call p now stands at "at"; a call that stands at "idle" is over.
GoesTo(p, c, at) ==
  call' = [call EXCEPT ![p] = IF at = "idle" THEN Idle ELSE [c EXCEPT !.at = at]]

\* An error response: what was not saved is forgotten.
Fails(p) == call' = [call EXCEPT ![p] = Idle] /\ UNCHANGED row

\* The call c, about to save entity as the row id and then to go on at "then".
Saving(c, id, entity, then) ==
  [c EXCEPT !.at = "compare", !.id = id, !.entity = entity, !.then = then]

NewCall == [at |-> "start", id |-> Null, entity |-> Null, columns |-> {},
            then |-> "idle", holds |-> Null]

\* The first half of a save: the row is read again.  An entity whose row was
\* deleted since it was found is inserted.
CompareSave(p) ==
  /\ call[p].at = "compare"
  /\ IF row[call[p].id] = Null
     THEN GoesTo(p, call[p], "insert")
     ELSE call' = [call EXCEPT
            ![p].at = "update",
            ![p].columns = Differing(call[p].entity, row[call[p].id])]
  /\ UNCHANGED row

\* An UPDATE of a row that was deleted changes nothing.
Written(p) ==
  IF row[call[p].id] = Null THEN Null
  ELSE Updated(row[call[p].id], call[p].entity, call[p].columns)

\* The second half: one UPDATE, which a constraint of the table may refuse.
UpdateSave(p, accepted) ==
  /\ call[p].at = "update"
  /\ IF accepted
     THEN /\ row' = [row EXCEPT ![call[p].id] = Written(p)]
          /\ GoesTo(p, [call[p] EXCEPT !.columns = {}], call[p].then)
     ELSE Fails(p)

\* A new entity is inserted; the unique index refuses a second one.
InsertSave(p) ==
  /\ call[p].at = "insert"
  /\ IF row[call[p].id] = Null
     THEN /\ row' = [row EXCEPT ![call[p].id] = call[p].entity]
          /\ GoesTo(p, call[p], call[p].then)
     ELSE Fails(p)

\* The process stops; what was saved stays.
Crash(p) == call[p] # Idle /\ Fails(p)

=============================================================================
