------------------------------- MODULE Leave -------------------------------
(***************************************************************************)
(* The leave of one kind and one year: requests, and the balance of each   *)
(* employee, which the first approval creates.  An approval locks its      *)
(* request and reads the balance without a lock; a rejection locks nothing.*)
(***************************************************************************)
EXTENDS Saves, FiniteSetsExt, Units

CONSTANTS
  Employees,
  Requests,
  Allowances   \* the days per year that an administrator may set

LeaveType == <<"leave type">>
Balance(e) == <<"balance", e>>

RequestRecords ==
  [employee : Employees, days : Nat, status : {"PENDING", "APPROVED", "REJECTED"}]
BalanceRecords == [entitled : Nat, taken : Nat]
AllowanceRecords == [days : Nat]

\* NULL is no call, requests have ids of their own, and no row looks like a
\* missing one.
LeaveAssumption ==
  /\ Allowances \subseteq Nat /\ IsFiniteSet(Requests)
  /\ LeaveType \notin Requests /\ \A e \in Employees : Balance(e) \notin Requests
  /\ Null \notin Calls \union RequestRecords \union BalanceRecords \union AllowanceRecords

VARIABLE lock  \* the approval that holds the row of each request

leaveVars == <<saveVars, lock>>

Unlocks(p) == lock' = [r \in Requests |-> IF lock[r] = p THEN Null ELSE lock[r]]

----------------------------------------------------------------------------
\* The balance of e, built from the leave type while e has none.  The type is
\* read in the same step: an approval that built a balance only inserts it.
GetOrBuildBalance(e) ==
  IF row[Balance(e)] # Null THEN row[Balance(e)]
  ELSE [entitled |-> row[LeaveType].days, taken |-> 0]

Remaining(balance) == balance.entitled - balance.taken

CreateLeaveRequest(p, e, days) ==
  /\ call[p] = Idle
  /\ days \in 1..Remaining(GetOrBuildBalance(e))
  /\ call' = [call EXCEPT ![p] = [NewCall EXCEPT !.at = "file",
       !.entity = [employee |-> e, days |-> days, status |-> "PENDING"]]]
  /\ UNCHANGED <<row, lock>>

FileRequest(p, r) ==
  /\ call[p].at = "file"
  /\ row[r] = Null
  /\ row' = [row EXCEPT ![r] = call[p].entity]
  /\ GoesTo(p, call[p], "idle")
  /\ UNCHANGED lock

ApproveLeaveRequest(p, r) ==
  /\ call[p] = Idle
  /\ row[r] # Null
  /\ row[r].status = "PENDING"
  /\ lock[r] = Null
  /\ lock' = [lock EXCEPT ![r] = p]
  /\ call' = [call EXCEPT ![p] =
       [NewCall EXCEPT !.at = "balance", !.id = r, !.entity = row[r]]]
  /\ UNCHANGED row

ReadBalance(p) ==
  /\ call[p].at = "balance"
  /\ LET e == call[p].entity.employee
         balance == GetOrBuildBalance(e)
     IN IF call[p].entity.days > Remaining(balance)
        THEN Fails(p) /\ Unlocks(p)
        ELSE /\ call' = [call EXCEPT
                  ![p].at = IF row[Balance(e)] = Null THEN "first" ELSE "add",
                  ![p].holds = balance]
             /\ UNCHANGED <<row, lock>>

Approval(p, taken) ==
  [row EXCEPT
     ![call[p].id].status = "APPROVED",
     ![Balance(call[p].entity.employee)] = [call[p].holds EXCEPT !.taken = taken]]

\* Mutant of CommitApproval: the days are set, not added.
CommitDays(p) ==
  /\ call[p].at \in {"first", "add"}
  /\ row' = IF call[p].at = "first" /\ row[Balance(call[p].entity.employee)] # Null
            THEN row
            ELSE Approval(p, call[p].entity.days)
  /\ GoesTo(p, call[p], "idle")
  /\ Unlocks(p)

\* The request and the balance are saved and the transaction commits.  UNIQUE
\* (employee, type, year) refuses a second first balance.
CommitApproval(p) ==
  /\ call[p].at \in {"first", "add"}
  /\ row' = IF call[p].at = "first" /\ row[Balance(call[p].entity.employee)] # Null
            THEN row
            ELSE Approval(p, call[p].holds.taken + call[p].entity.days)
  /\ GoesTo(p, call[p], "idle")
  /\ Unlocks(p)

RejectLeaveRequest(p, r) ==
  /\ call[p] = Idle
  /\ row[r] # Null
  /\ row[r].status = "PENDING"
  /\ call' = [call EXCEPT ![p] =
       Saving(NewCall, r, [row[r] EXCEPT !.status = "REJECTED"], "idle")]
  /\ UNCHANGED <<row, lock>>

UpdateLeaveType(p, days) ==
  /\ call[p] = Idle
  /\ call' = [call EXCEPT ![p] =
       Saving(NewCall, LeaveType, [row[LeaveType] EXCEPT !.days = days], "idle")]
  /\ UNCHANGED <<row, lock>>

\* The UPDATE of a rejection waits for the lock of an approval.
SaveLeave(p) ==
  /\ \/ CompareSave(p)
     \/ UpdateSave(p, TRUE) /\ \A r \in {call[p].id} \intersect Requests : lock[r] = Null
  /\ UNCHANGED lock

LeaveCrash(p) == Crash(p) /\ Unlocks(p)

----------------------------------------------------------------------------
LeaveInit ==
  /\ \E days \in Allowances :
       row = [id \in Requests \union {LeaveType} \union {Balance(e) : e \in Employees} |->
                IF id = LeaveType THEN [days |-> days] ELSE Null]
  /\ call = [p \in Calls |-> Idle]
  /\ lock = [r \in Requests |-> Null]

LeaveNext ==
  \E p \in Calls :
    \/ \E e \in Employees, days \in 1..Max(Allowances) : CreateLeaveRequest(p, e, days)
    \/ \E r \in Requests :
         FileRequest(p, r) \/ ApproveLeaveRequest(p, r) \/ RejectLeaveRequest(p, r)
    \/ ReadBalance(p)
    \/ CommitApproval(p)
    \/ \E days \in Allowances : UpdateLeaveType(p, days)
    \/ SaveLeave(p)
    \/ LeaveCrash(p)

LeaveSpec == LeaveInit /\ [][LeaveNext]_leaveVars

----------------------------------------------------------------------------
Approved(e) ==
  {r \in Requests : row[r] # Null /\ row[r].employee = e /\ row[r].status = "APPROVED"}

\* The sum of their days.
ApprovedDays(e) ==
  Total([r \in Requests |-> IF r \in Approved(e) THEN row[r].days ELSE 0])

TakenDays(e) == IF row[Balance(e)] = Null THEN 0 ELSE row[Balance(e)].taken

\* Every approved day is counted in the balance (approveLeaveRequest adds it
\* in the transaction of the approval), so that it cannot be granted again.
ApprovedAreTaken == \A e \in Employees : ApprovedDays(e) <= TakenDays(e)

\* The balance counts nothing but approved days: a rejection costs none.
TakenWereApproved == \A e \in Employees : TakenDays(e) <= ApprovedDays(e)

\* Whatever approvals, changes of the yearly allowance and crashes interleave,
\* no balance goes below zero.
TakenWithinEntitled ==
  \A e \in Employees :
    row[Balance(e)] # Null => row[Balance(e)].taken <= row[Balance(e)].entitled

\* As a step: a rejected request stays rejected, an approval that found it
\* before looks at it again under the lock.
RejectedIsFinal ==
  \A r \in Requests :
    row[r] # Null /\ row[r].status = "REJECTED" => row'[r].status = "REJECTED"

=============================================================================
