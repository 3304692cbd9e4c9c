------------------------------- MODULE Roles -------------------------------
(***************************************************************************)
(* The roles of a company, their quotas and the employees they are given.  *)
(* quotas_enabled repeats, in the row of a role, whether it has quotas.    *)
(* The row and its quotas are saved one after the other; the database      *)
(* deletes the quotas of a deleted role and sets the role of its employees *)
(* to NULL; what it deletes in the options of registration is in           *)
(* Registration.  What a role grants is in AccessCache.                    *)
(***************************************************************************)
EXTENDS Saves

CONSTANTS
  RoleIds,
  Quotas,     \* a product and a period
  Employees,
  MayCrash

RoleRecords == [enabled : BOOLEAN]

\* NULL is no id, and no row looks like a missing one.
RolesAssumption == MayCrash \in BOOLEAN /\ Null \notin RoleIds \union RoleRecords

VARIABLES
  quotas,  \* the rows of role_quotas, by role
  roleOf,  \* employees.role_id
  used     \* the ids given so far

rolesVars == <<saveVars, quotas, roleOf, used>>

Others == UNCHANGED <<quotas, roleOf, used>>
Stored == {r \in RoleIds : row[r] # Null}

Becomes(p, c) == call' = [call EXCEPT ![p] = c]

----------------------------------------------------------------------------
CreateRole(p, wanted) ==
  /\ call[p] = Idle
  /\ Becomes(p, [NewCall EXCEPT !.at = "file", !.entity = [enabled |-> wanted # {}],
                               !.holds = wanted])
  /\ UNCHANGED row /\ Others

FileRole(p, r) ==
  /\ call[p].at = "file"
  /\ r \notin used
  /\ row' = [row EXCEPT ![r] = call[p].entity]
  /\ used' = used \union {r}
  /\ GoesTo(p, [call[p] EXCEPT !.id = r, !.entity = Null],
            IF call[p].holds = {} THEN "idle" ELSE "fill")
  /\ UNCHANGED <<quotas, roleOf>>

\* The role is found with its quotas; those of the request replace them.
UpdateRole(p, r, wanted) ==
  /\ call[p] = Idle
  /\ row[r] # Null
  /\ Becomes(p, [Saving(NewCall, r, [row[r] EXCEPT !.enabled = wanted # {}], "idle")
                  EXCEPT !.at = "clear", !.holds = wanted])
  /\ UNCHANGED row /\ Others

\* A request without quotas: names, permissions and rooms are left out.
RenameRole(p, r) ==
  /\ call[p] = Idle
  /\ row[r] # Null
  /\ Becomes(p, [Saving(NewCall, r, row[r], "idle") EXCEPT !.holds = quotas[r]])
  /\ UNCHANGED row /\ Others

ClearQuotas(p) ==
  /\ call[p].at = "clear"
  /\ quotas' = [quotas EXCEPT ![call[p].id] = {}]
  /\ GoesTo(p, call[p], "fill")
  /\ UNCHANGED <<row, roleOf, used>>

\* One INSERT of all, or none when there are none to insert.
FillQuotas(p) ==
  LET c == call[p] IN
  /\ c.at = "fill"
  /\ c.holds # {} => row[c.id] # Null /\ quotas[c.id] \intersect c.holds = {}
  /\ quotas' = [quotas EXCEPT ![c.id] = @ \union c.holds]
  /\ GoesTo(p, c, IF c.entity = Null THEN "idle" ELSE "compare")
  /\ UNCHANGED <<row, roleOf, used>>

\* The INSERT of a quota is refused: the product or the role is not there, or
\* the role has the quota or is to have it twice.  What was cleared stays so.
QuotasRefused(p) ==
  /\ call[p].at \in {"fill", "add"}
  /\ call[p].holds # {}
  /\ Fails(p)
  /\ Others

\* An entity that was loaded with its quotas and saved without one that is now
\* stored would detach it, which the NOT NULL of its role refuses.
Detaches(c) == IF c.holds = Null THEN FALSE ELSE ~(quotas[c.id] \subseteq c.holds)

SaveRole(p) ==
  /\ \/ /\ call[p].at = "compare"
        /\ IF Detaches(call[p]) THEN Fails(p) ELSE CompareSave(p)
     \/ UpdateSave(p, TRUE)
     \/ InsertSave(p)
  /\ Others

----------------------------------------------------------------------------
SetQuota(p, r) ==
  /\ call[p] = Idle
  /\ row[r] # Null
  /\ Becomes(p, [NewCall EXCEPT !.at = "add", !.id = r, !.entity = row[r]])
  /\ UNCHANGED row /\ Others

\* An INSERT, or an UPDATE of the quota that is there.
AddQuota(p, q) ==
  /\ call[p].at = "add"
  /\ row[call[p].id] # Null
  /\ quotas' = [quotas EXCEPT ![call[p].id] = @ \union {q}]
  /\ GoesTo(p, call[p], "count")
  /\ UNCHANGED <<row, roleOf, used>>

RemoveQuota(p, r, q) ==
  /\ call[p] = Idle
  /\ q \in quotas[r]
  /\ quotas' = [quotas EXCEPT ![r] = @ \ {q}]
  /\ Becomes(p, [NewCall EXCEPT !.at = "find", !.id = r])
  /\ UNCHANGED <<row, roleOf, used>>

FindRole(p) ==
  /\ call[p].at = "find"
  /\ GoesTo(p, [call[p] EXCEPT !.entity = row[call[p].id]],
            IF row[call[p].id] = Null THEN "idle" ELSE "count")
  /\ UNCHANGED row /\ Others

SyncQuotasEnabled(p) ==
  /\ call[p].at = "count"
  /\ LET enabled == quotas[call[p].id] # {} IN
     IF call[p].entity.enabled = enabled THEN GoesTo(p, call[p], "idle")
     ELSE Becomes(p, Saving(call[p], call[p].id, [call[p].entity EXCEPT !.enabled = enabled], "idle"))
  /\ UNCHANGED row /\ Others

----------------------------------------------------------------------------
RemoveRole(p, r) ==
  /\ call[p] = Idle
  /\ row[r] # Null
  /\ \A e \in Employees : roleOf[e] # r
  /\ Becomes(p, [NewCall EXCEPT !.at = "delete", !.id = r])
  /\ UNCHANGED row /\ Others

DeleteRole(p) ==
  /\ call[p].at = "delete"
  /\ row' = [row EXCEPT ![call[p].id] = Null]
  /\ quotas' = [quotas EXCEPT ![call[p].id] = {}]
  /\ roleOf' = [e \in Employees |-> IF roleOf[e] = call[p].id THEN Null ELSE roleOf[e]]
  /\ GoesTo(p, call[p], "idle")
  /\ UNCHANGED used

\* An employee is created or saved with a role.
AssignRole(p, e, r) ==
  /\ call[p] = Idle
  /\ row[r] # Null
  /\ roleOf' = [roleOf EXCEPT ![e] = r]
  /\ UNCHANGED <<saveVars, quotas, used>>

RolesCrash(p) == MayCrash /\ Crash(p) /\ Others

----------------------------------------------------------------------------
RolesInit ==
  /\ row = [r \in RoleIds |-> Null]
  /\ call = [p \in Calls |-> Idle]
  /\ quotas = [r \in RoleIds |-> {}]
  /\ roleOf = [e \in Employees |-> Null]
  /\ used = {}

RolesNext ==
  \E p \in Calls :
    \/ \E wanted \in SUBSET Quotas :
         CreateRole(p, wanted) \/ \E r \in RoleIds : UpdateRole(p, r, wanted)
    \/ \E r \in RoleIds :
         \/ FileRole(p, r) \/ RenameRole(p, r) \/ SetQuota(p, r) \/ RemoveRole(p, r)
         \/ \E e \in Employees : AssignRole(p, e, r)
         \/ \E q \in Quotas : RemoveQuota(p, r, q)
    \/ \E q \in Quotas : AddQuota(p, q)
    \/ ClearQuotas(p) \/ FillQuotas(p) \/ QuotasRefused(p) \/ SaveRole(p)
    \/ FindRole(p) \/ SyncQuotasEnabled(p) \/ DeleteRole(p)
    \/ RolesCrash(p)

RolesSpec == RolesInit /\ [][RolesNext]_rolesVars

----------------------------------------------------------------------------
AtRest == \A p \in Calls : call[p] = Idle

\* Between calls the quotas of a role are enabled: an order is held to the
\* quotas of a role only when quotas_enabled is set.
QuotasAreEnabled == AtRest => \A r \in Stored : quotas[r] # {} => row[r].enabled

\* quotas_enabled says whether the role has a quota: it is derived by whatever
\* changes the quotas (role.dto.ts).
\* The code does not keep this (README, section 5).
EnabledWithQuotas == AtRest => \A r \in Stored : row[r].enabled = (quotas[r] # {})

\* As a step: nobody loses a role because it is deleted: remove() protects every role
\* that is assigned.
AssignedIsProtected == \A e \in Employees : roleOf[e] # Null => roleOf'[e] # Null

=============================================================================
