----------------------------- MODULE SlaLevels -----------------------------
(***************************************************************************)
(* The priority levels of a company.  They are replaced as a set, but each *)
(* level is a row that is saved by itself; the roles name a level by its   *)
(* code, without a foreign key.  Labels, minutes and places in the list    *)
(* are columns that are written as they come.                              *)
(***************************************************************************)
EXTENDS Saves

CONSTANTS
  LevelIds,  \* the ids that levels may be given: bounds the insertions
  Codes,
  Defaults,  \* the codes a company starts with
  Roles,
  MayCrash

LevelRecords == [code : Codes, active : BOOLEAN]

\* No row looks like a missing one.
SlaAssumption ==
  /\ Defaults \subseteq Codes /\ MayCrash \in BOOLEAN
  /\ Null \notin LevelRecords

VARIABLES
  roleLevel, \* roles.sla_priority
  used       \* the ids given so far

slaVars == <<saveVars, roleLevel, used>>

Others == UNCHANGED <<roleLevel, used>>
Stored == {l \in LevelIds : row[l] # Null}
Having(codes) == {l \in Stored : row[l].code \in codes}

----------------------------------------------------------------------------
\* wanted: the codes of the request, and whether each is active.
SetLevels(p, wanted) ==
  /\ call[p] = Idle
  /\ \E c \in DOMAIN wanted : wanted[c]
  /\ call' = [call EXCEPT ![p] = [NewCall EXCEPT !.at = "roles",
       !.holds = [left |-> wanted, known |-> [l \in Stored |-> row[l]]]]]
  /\ UNCHANGED row /\ Others

Dropped(p) ==
  LET known == call[p].holds.known IN
  {l \in DOMAIN known : known[l].code \notin DOMAIN call[p].holds.left}

CheckRoles(p) ==
  /\ call[p].at = "roles"
  /\ IF \E r \in Roles, l \in Dropped(p) : roleLevel[r] = call[p].holds.known[l].code
     THEN Fails(p)
     ELSE GoesTo(p, call[p], IF Dropped(p) = {} THEN "level" ELSE "remove")
  /\ UNCHANGED row /\ Others

RemoveLevels(p) ==
  /\ call[p].at = "remove"
  /\ row' = [l \in LevelIds |-> IF l \in Dropped(p) THEN Null ELSE row[l]]
  /\ GoesTo(p, call[p], "level")
  /\ Others

\* The next level of the request: the one that was found, or a new one.
NextLevel(p, c, l) ==
  LET holds == call[p].holds
      entity == [code |-> c, active |-> holds.left[c]]
      rest == [left |-> [d \in DOMAIN holds.left \ {c} |-> holds.left[d]],
               known |-> holds.known]
      found == {k \in DOMAIN holds.known : holds.known[k].code = c}
  IN  /\ call[p].at = "level"
      /\ c \in DOMAIN holds.left
      /\ IF found = {} THEN l \notin used ELSE l \in found
      /\ call' = [call EXCEPT ![p] =
           [Saving(call[p], l, entity, IF DOMAIN rest.left = {} THEN "list" ELSE "level")
             EXCEPT !.at = IF found = {} THEN "insert" ELSE "compare", !.holds = rest]]
      /\ used' = used \union {l}
      /\ UNCHANGED <<row, roleLevel>>

\* The unique index on the company and the code refuses a second row.
SaveLevel(p) ==
  /\ \/ CompareSave(p)
     \/ UpdateSave(p, TRUE)
     \/ /\ call[p].at = "insert"
        /\ IF Having({call[p].entity.code}) = {} THEN InsertSave(p) ELSE Fails(p)
  /\ Others

----------------------------------------------------------------------------
\* getLevels, also at the end of setLevels: a company without levels gets the
\* default ones, in one transaction.
GetLevels(p) ==
  /\ call[p].at = "list" \/ (call[p] = Idle /\ Stored = {})
  /\ call' = [call EXCEPT ![p] = IF Stored = {} THEN [NewCall EXCEPT !.at = "seed"] ELSE Idle]
  /\ UNCHANGED row /\ Others

SeedLevels(p, level) ==
  /\ call[p].at = "seed"
  /\ \A c \in Defaults : level[c] \notin used
  /\ \A c, d \in Defaults : level[c] = level[d] => c = d
  /\ IF Having(Defaults) # {}
     THEN Fails(p) /\ Others
     ELSE LET seeded == {level[c] : c \in Defaults} IN
          /\ row' = [l \in LevelIds |->
               IF l \in seeded
               THEN [code |-> CHOOSE c \in Defaults : level[c] = l, active |-> TRUE]
               ELSE row[l]]
          /\ used' = used \union seeded
          /\ GoesTo(p, call[p], "idle")
          /\ UNCHANGED roleLevel

\* A role is created or updated: any code is accepted.
SetRoleLevel(p, r, c) ==
  /\ call[p] = Idle
  /\ roleLevel' = [roleLevel EXCEPT ![r] = c]
  /\ UNCHANGED <<saveVars, used>>

SlaCrash(p) == MayCrash /\ Crash(p) /\ Others

----------------------------------------------------------------------------
SlaInit ==
  /\ row = [l \in LevelIds |-> Null]
  /\ call = [p \in Calls |-> Idle]
  /\ roleLevel = [r \in Roles |-> Null]
  /\ used = {}

SlaNext ==
  \E p \in Calls :
    \/ \E codes \in SUBSET Codes : \E wanted \in [codes -> BOOLEAN] : SetLevels(p, wanted)
    \/ CheckRoles(p) \/ RemoveLevels(p) \/ SaveLevel(p) \/ GetLevels(p) \/ SlaCrash(p)
    \/ \E c \in Codes :
         \/ \E l \in LevelIds : NextLevel(p, c, l)
         \/ \E r \in Roles : SetRoleLevel(p, r, c)
    \/ \E level \in [Defaults -> LevelIds] : SeedLevels(p, level)

SlaSpec == SlaInit /\ [][SlaNext]_slaVars

----------------------------------------------------------------------------
\* Between calls, a company with levels has one that is active, whatever set
\* replaced whatever set (atLeastOneSlaLevelMustBeActive).  A process that
\* stops between two saves breaks this.
SomeLevelIsActive ==
  (\A p \in Calls : call[p] = Idle) => Stored = {} \/ \E l \in Stored : row[l].active

\* As a step: a level that a role names is not removed.  With two calls, a role
\* may get the level after the roles were asked.
RemovedIsUnused ==
  \A l \in Stored : row'[l] = Null => \A r \in Roles : roleLevel[r] # row[l].code

=============================================================================
