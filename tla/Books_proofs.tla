---------------------------- MODULE Books_proofs ---------------------------
(***************************************************************************)
(* Proofs about the other services of MCOffice: the days of leave, the     *)
(* journal and the payroll, the invoices and the accounts of employees;    *)
(* and what was decided by all the services stands.                        *)
(***************************************************************************)
EXTENDS Office_proofs

(***************************************************************************)
(* Leave, whatever calls race.  A call is nothing, a request to file, an   *)
(* approval, which has the lock of a pending request, a rejection, or a    *)
(* change of the allowance.                                                *)
(***************************************************************************)

USE AbsencesAssumption DEF Absence!LeaveAssumption, LeaveAlone!LeaveAssumption

RequestRecords == Absence!RequestRecords
BalanceRecords == Absence!BalanceRecords
AllowanceRecords == Absence!AllowanceRecords

Filings ==
  [at : {"file"}, id : {Null}, entity : RequestRecords, columns : {{}}, then : {"idle"}, holds : {Null}]
Approvals ==
  [at : {"balance", "first", "add"}, id : Requests, entity : RequestRecords, columns : {{}},
   then : {"idle"}, holds : BalanceRecords \union {Null}]
Rejections ==
  [at : {"compare", "update"}, id : Requests, entity : {r \in RequestRecords : r.status = "REJECTED"},
   columns : SUBSET {"employee", "days", "status"}, then : {"idle"}, holds : {Null}]
AllowanceCalls ==
  [at : {"compare", "update"}, id : {Absence!LeaveType}, entity : AllowanceRecords,
   columns : SUBSET {"days"}, then : {"idle"}, holds : {Null}]

AbsenceRows ==
  /\ leaveRow \in [Requests \union {Absence!LeaveType} \union {Absence!Balance(e) : e \in Absentees} ->
                     RequestRecords \union BalanceRecords \union AllowanceRecords \union {Null}]
  /\ \A r \in Requests : leaveRow[r] \in RequestRecords \union {Null}
  /\ \A e \in Absentees : leaveRow[Absence!Balance(e)] \in BalanceRecords \union {Null}
  /\ leaveRow[Absence!LeaveType] \in AllowanceRecords

\* The days of an approval still fit the balance it read.
Approving(p, c) ==
  /\ c \in Approvals /\ leaveLock[c.id] = p
  /\ leaveRow[c.id] # Null /\ leaveRow[c.id].status = "PENDING"
  /\ c.at # "balance" => c.holds \in BalanceRecords /\ c.holds.taken + c.entity.days <= c.holds.entitled

AbsenceFits(p, c) ==
  \/ c = Absence!Idle \/ c \in Filings \/ Approving(p, c) \/ c \in AllowanceCalls
  \/ c \in Rejections /\ leaveRow[c.id] # Null

AbsenceInv ==
  /\ AbsenceRows /\ Absence!TakenWithinEntitled
  /\ leaveLock \in [Requests -> Calls \union {Null}]
  /\ DOMAIN leaveCall = Calls /\ \A p \in Calls : AbsenceFits(p, leaveCall[p])

\* The rows have different ids.
LEMMA LeaveIds ==
  /\ Absence!LeaveType \notin Requests
  /\ \A e \in Absentees : Absence!Balance(e) \notin Requests /\ Absence!Balance(e) # Absence!LeaveType
  /\ \A e, f : Absence!Balance(e) = Absence!Balance(f) => e = f
  /\ Null \notin Calls /\ Null \notin RequestRecords /\ Null \notin BalanceRecords /\ Null \notin AllowanceRecords
BY AbsencesAssumption DEF Absence!LeaveType, Absence!Balance, RequestRecords, BalanceRecords, AllowanceRecords, Absence!LeaveAssumption

\* A call that moves and leaves alone what others hold.
LEMMA AbsenceGoes ==
  ASSUME AbsenceInv, NEW p \in Calls, NEW d, leaveCall' = [leaveCall EXCEPT ![p] = d],
         AbsenceRows', Absence!TakenWithinEntitled', AbsenceFits(p, d)',
         leaveLock' \in [Requests -> Calls \union {Null}],
         \A r \in Requests : leaveRow[r] # Null => leaveRow'[r] # Null,
         \A r \in Requests : leaveRow[r] # Null /\ leaveLock[r] \in Calls \ {p} =>
           leaveLock'[r] = leaveLock[r] /\ leaveRow'[r] = leaveRow[r]
  PROVE  AbsenceInv'
<1>1. DOMAIN leaveCall' = Calls /\ leaveCall'[p] = d /\ \A q \in Calls \ {p} : leaveCall'[q] = leaveCall[q]
  BY DEF AbsenceInv
<1>2. ASSUME NEW q \in Calls \ {p} PROVE AbsenceFits(q, leaveCall[q])'
  <2>1. PICK c : c = leaveCall[q]
    OBVIOUS
  <2>2. AbsenceFits(q, c)
    BY <2>1 DEF AbsenceInv
  <2>3. c \in Rejections /\ leaveRow[c.id] # Null => leaveRow'[c.id] # Null
    BY DEF Rejections
  <2>4. Approving(q, c) => Approving(q, c)'
    BY DEF Approving, Approvals
  <2>5. leaveCall'[q] = c
    BY <1>1, <2>1
  <2> QED
    BY <2>2, <2>3, <2>4, <2>5 DEF AbsenceFits
<1> QED
  BY <1>1, <1>2 DEF AbsenceInv

\* A call that moves without a change to rows and locks.
LEMMA AbsencePasses ==
  ASSUME AbsenceInv, NEW p \in Calls, NEW d, leaveCall' = [leaveCall EXCEPT ![p] = d],
         UNCHANGED <<leaveRow, leaveLock>>, AbsenceFits(p, d)
  PROVE  AbsenceInv'
<1>1. AbsenceRows' /\ Absence!TakenWithinEntitled' /\ leaveLock' \in [Requests -> Calls \union {Null}]
  BY DEF AbsenceInv, AbsenceRows, Absence!TakenWithinEntitled
<1>2. AbsenceFits(p, d)'
  BY DEF AbsenceFits, Approving
<1> QED
  BY <1>1, <1>2, AbsenceGoes

\* A call that ends and unlocks what it has locked.
LEMMA AbsenceUnlocks ==
  ASSUME AbsenceInv, NEW p \in Calls, leaveCall' = [leaveCall EXCEPT ![p] = Absence!Idle],
         Absence!Unlocks(p), UNCHANGED leaveRow
  PROVE  AbsenceInv'
<1>1. AbsenceRows' /\ Absence!TakenWithinEntitled'
  BY DEF AbsenceInv, AbsenceRows, Absence!TakenWithinEntitled
<1>2. leaveLock' = [r \in Requests |-> IF leaveLock[r] = p THEN Null ELSE leaveLock[r]]
      /\ leaveLock \in [Requests -> Calls \union {Null}]
  BY DEF Absence!Unlocks, AbsenceInv
<1>3. leaveLock' \in [Requests -> Calls \union {Null}]
      /\ \A r \in Requests : leaveLock[r] \in Calls \ {p} => leaveLock'[r] = leaveLock[r]
  BY <1>2
<1>4. AbsenceFits(p, Absence!Idle)'
  BY DEF AbsenceFits
<1> QED
  BY <1>1, <1>3, <1>4, AbsenceGoes

\* Requests are asked for, and an administrator starts to reject one or to
\* change the allowance.
LEMMA AbsenceStarts ==
  ASSUME AbsenceInv, NEW p \in Calls,
         \/ \E e \in Absentees, days \in 1..Absence!Max(Allowances) : Absence!CreateLeaveRequest(p, e, days)
         \/ \E r \in Requests : Absence!RejectLeaveRequest(p, r)
         \/ \E days \in Allowances : Absence!UpdateLeaveType(p, days)
  PROVE  AbsenceInv'
<1>1. AbsenceRows
  BY DEF AbsenceInv
<1>2. ASSUME NEW e \in Absentees, NEW days, Absence!CreateLeaveRequest(p, e, days)
      PROVE  AbsenceInv'
  <2>1. PICK x : x = [employee |-> e, days |-> days, status |-> "PENDING"]
    OBVIOUS
  <2>2. PICK d : d = [Absence!NewCall EXCEPT !.at = "file", !.entity = x]
    OBVIOUS
  <2>3. d = [at |-> "file", id |-> Null, entity |-> x, columns |-> {}, then |-> "idle", holds |-> Null]
    BY <2>2 DEF Absence!NewCall
  <2>4. PICK b : b = Absence!GetOrBuildBalance(e)
    OBVIOUS
  <2>5. b \in BalanceRecords
    BY <1>1, <2>4 DEF AbsenceRows, Absence!GetOrBuildBalance, BalanceRecords, Absence!BalanceRecords, AllowanceRecords, Absence!AllowanceRecords
  <2>6. days \in 1..(b.entitled - b.taken) /\ b.entitled \in Nat /\ b.taken \in Nat
    BY <1>2, <2>4, <2>5 DEF Absence!CreateLeaveRequest, Absence!Remaining, BalanceRecords, Absence!BalanceRecords
  <2>7. days \in Nat
    BY <2>6
  <2>8. x \in RequestRecords
    BY <2>1, <2>7 DEF RequestRecords, Absence!RequestRecords
  <2>9. d \in Filings
    BY <2>3, <2>8 DEF Filings
  <2>10. leaveCall' = [leaveCall EXCEPT ![p] = d] /\ UNCHANGED <<leaveRow, leaveLock>>
    BY <1>2, <2>1, <2>2 DEF Absence!CreateLeaveRequest
  <2> QED
    BY <2>9, <2>10, AbsencePasses DEF AbsenceFits
<1>3. ASSUME NEW r \in Requests, Absence!RejectLeaveRequest(p, r)
      PROVE  AbsenceInv'
  <2>1. leaveRow[r] # Null /\ leaveRow[r] \in RequestRecords
    BY <1>1, <1>3 DEF AbsenceRows, Absence!RejectLeaveRequest
  <2>2. PICK x : x = [leaveRow[r] EXCEPT !.status = "REJECTED"]
    OBVIOUS
  <2>3. x \in {y \in RequestRecords : y.status = "REJECTED"}
    BY <2>1, <2>2 DEF RequestRecords, Absence!RequestRecords
  <2>4. PICK d : d = Absence!Saving(Absence!NewCall, r, x, "idle")
    OBVIOUS
  <2>5. d = [at |-> "compare", id |-> r, entity |-> x, columns |-> {}, then |-> "idle", holds |-> Null]
    BY <2>4 DEF Absence!Saving, Absence!NewCall
  <2>6. d \in Rejections /\ d.id = r
    BY <2>3, <2>5 DEF Rejections
  <2>7. leaveCall' = [leaveCall EXCEPT ![p] = d] /\ UNCHANGED <<leaveRow, leaveLock>>
    BY <1>3, <2>2, <2>4 DEF Absence!RejectLeaveRequest
  <2> QED
    BY <2>1, <2>6, <2>7, AbsencePasses DEF AbsenceFits
<1>4. ASSUME NEW days \in Allowances, Absence!UpdateLeaveType(p, days)
      PROVE  AbsenceInv'
  <2>1. PICK x : x = [leaveRow[Absence!LeaveType] EXCEPT !.days = days]
    OBVIOUS
  <2>2. x \in AllowanceRecords
    BY <1>1, <2>1, AbsencesAssumption DEF AbsenceRows, AllowanceRecords, Absence!AllowanceRecords, Absence!LeaveAssumption
  <2>3. PICK d : d = Absence!Saving(Absence!NewCall, Absence!LeaveType, x, "idle")
    OBVIOUS
  <2>4. d = [at |-> "compare", id |-> Absence!LeaveType, entity |-> x, columns |-> {}, then |-> "idle", holds |-> Null]
    BY <2>3 DEF Absence!Saving, Absence!NewCall
  <2>5. d \in AllowanceCalls
    BY <2>2, <2>4 DEF AllowanceCalls
  <2>6. leaveCall' = [leaveCall EXCEPT ![p] = d] /\ UNCHANGED <<leaveRow, leaveLock>>
    BY <1>4, <2>1, <2>3 DEF Absence!UpdateLeaveType
  <2> QED
    BY <2>5, <2>6, AbsencePasses DEF AbsenceFits
<1> QED
  BY <1>2, <1>3, <1>4

\* A request is filed, or locked by an approval,
LEMMA AbsenceFiles ==
  ASSUME AbsenceInv, NEW p \in Calls, NEW r \in Requests,
         Absence!FileRequest(p, r) \/ Absence!ApproveLeaveRequest(p, r)
  PROVE  AbsenceInv'
<1>1. AbsenceRows /\ leaveLock \in [Requests -> Calls \union {Null}]
  BY DEF AbsenceInv
<1>2. PICK c : c = leaveCall[p] /\ AbsenceFits(p, c)
  BY DEF AbsenceInv
<1>3. CASE Absence!FileRequest(p, r)
  <2>1. c.at = "file" /\ leaveRow[r] = Null /\ UNCHANGED leaveLock
        /\ leaveRow' = [leaveRow EXCEPT ![r] = c.entity]
        /\ leaveCall' = [leaveCall EXCEPT ![p] = Absence!Idle]
    BY <1>2, <1>3 DEF Absence!FileRequest, Absence!GoesTo
  <2>2. c.entity \in RequestRecords
    BY <1>2, <2>1 DEF AbsenceFits, Approving, Approvals, AllowanceCalls, Rejections, Filings, Absence!Idle
  <2>3. DOMAIN leaveRow' = DOMAIN leaveRow /\ leaveRow'[r] = c.entity
        /\ \A i \in DOMAIN leaveRow : i # r => leaveRow'[i] = leaveRow[i]
    BY <1>1, <2>1 DEF AbsenceRows
  <2>4. AbsenceRows'
    BY <1>1, <2>1, <2>2, <2>3, LeaveIds DEF AbsenceRows
  <2>5. Absence!TakenWithinEntitled'
    BY <1>1, <2>3, LeaveIds DEF AbsenceInv, AbsenceRows, Absence!TakenWithinEntitled
  <2>6. \A s \in Requests : leaveRow[s] # Null => leaveRow'[s] = leaveRow[s]
    BY <1>1, <2>1, <2>3 DEF AbsenceRows
  <2>7. AbsenceFits(p, Absence!Idle)'
    BY DEF AbsenceFits
  <2> QED
    BY <1>1, <2>1, <2>4, <2>5, <2>6, <2>7, AbsenceGoes
<1>4. CASE Absence!ApproveLeaveRequest(p, r)
  <2>1. leaveRow[r] # Null /\ leaveRow[r].status = "PENDING" /\ leaveLock[r] = Null /\ UNCHANGED leaveRow
        /\ leaveLock' = [leaveLock EXCEPT ![r] = p]
    BY <1>4 DEF Absence!ApproveLeaveRequest
  <2>2. leaveRow[r] \in RequestRecords
    BY <1>1, <2>1 DEF AbsenceRows
  <2>3. PICK d : d = [Absence!NewCall EXCEPT !.at = "balance", !.id = r, !.entity = leaveRow[r]]
    OBVIOUS
  <2>4. d = [at |-> "balance", id |-> r, entity |-> leaveRow[r], columns |-> {}, then |-> "idle", holds |-> Null]
    BY <2>3 DEF Absence!NewCall
  <2>5. d \in Approvals /\ d.id = r /\ d.at = "balance"
    BY <2>2, <2>4 DEF Approvals
  <2>6. leaveCall' = [leaveCall EXCEPT ![p] = d]
    BY <1>4, <2>3 DEF Absence!ApproveLeaveRequest
  <2>7. leaveLock' \in [Requests -> Calls \union {Null}] /\ leaveLock'[r] = p
        /\ \A s \in Requests : leaveLock[s] \in Calls => leaveLock'[s] = leaveLock[s]
    BY <1>1, <2>1, LeaveIds
  <2>8. AbsenceFits(p, d)'
    BY <2>1, <2>5, <2>7 DEF AbsenceFits, Approving
  <2>9. AbsenceRows' /\ Absence!TakenWithinEntitled'
    BY <2>1 DEF AbsenceInv, AbsenceRows, Absence!TakenWithinEntitled
  <2> QED
    BY <2>1, <2>6, <2>7, <2>8, <2>9, AbsenceGoes
<1> QED
  BY <1>3, <1>4

\* which reads the balance,
LEMMA AbsenceReads ==
  ASSUME AbsenceInv, NEW p \in Calls, Absence!ReadBalance(p)
  PROVE  AbsenceInv'
<1>1. AbsenceRows
  BY DEF AbsenceInv
<1>2. PICK c : c = leaveCall[p] /\ AbsenceFits(p, c) /\ c.at = "balance"
  BY DEF AbsenceInv, Absence!ReadBalance
<1>3. Approving(p, c) /\ c \in Approvals
  BY <1>2 DEF AbsenceFits, Approving, AllowanceCalls, Rejections, Filings, Absence!Idle
<1>4. PICK e, b : e = c.entity.employee /\ b = Absence!GetOrBuildBalance(e)
  OBVIOUS
<1>5. e \in Absentees /\ c.entity.days \in Nat
  BY <1>3, <1>4 DEF Approvals, RequestRecords, Absence!RequestRecords
<1>6. b \in BalanceRecords /\ b.entitled \in Nat /\ b.taken \in Nat
  BY <1>1, <1>4, <1>5 DEF AbsenceRows, Absence!GetOrBuildBalance, BalanceRecords, Absence!BalanceRecords, AllowanceRecords, Absence!AllowanceRecords
<1>7. CASE c.entity.days > Absence!Remaining(b)
  <2>1. leaveCall' = [leaveCall EXCEPT ![p] = Absence!Idle] /\ UNCHANGED leaveRow /\ Absence!Unlocks(p)
    BY <1>2, <1>4, <1>7 DEF Absence!ReadBalance, Absence!Fails
  <2> QED
    BY <2>1, AbsenceUnlocks
<1>8. CASE ~ (c.entity.days > Absence!Remaining(b))
  <2>1. c.entity.days <= b.entitled - b.taken
    BY <1>5, <1>6, <1>8 DEF Absence!Remaining
  <2>2. PICK at \in {"first", "add"} : at = IF leaveRow[Absence!Balance(e)] = Null THEN "first" ELSE "add"
    OBVIOUS
  <2>3. PICK d : d = [c EXCEPT !.at = at, !.holds = b]
    OBVIOUS
  <2>4. leaveCall' = [leaveCall EXCEPT ![p].at = at, ![p].holds = b] /\ UNCHANGED <<leaveRow, leaveLock>>
    BY <1>2, <1>4, <1>8, <2>2 DEF Absence!ReadBalance
  <2>5. leaveCall' = [leaveCall EXCEPT ![p] = d]
    BY <1>2, <2>3, <2>4 DEF AbsenceInv
  <2>6. d \in Approvals /\ d.id = c.id /\ d.holds = b /\ d.entity = c.entity
    BY <1>3, <1>6, <2>2, <2>3 DEF Approvals
  <2>7. b.taken + c.entity.days <= b.entitled
    BY <1>5, <1>6, <2>1
  <2>8. Approving(p, d)
    BY <1>3, <1>6, <2>6, <2>7 DEF Approving
  <2> QED
    BY <2>4, <2>5, <2>8, AbsencePasses DEF AbsenceFits
<1> QED
  BY <1>7, <1>8

\* commits,
LEMMA AbsenceCommits ==
  ASSUME AbsenceInv, NEW p \in Calls, Absence!CommitApproval(p)
  PROVE  AbsenceInv'
<1>1. AbsenceRows /\ leaveLock \in [Requests -> Calls \union {Null}]
  BY DEF AbsenceInv
<1>2. PICK c : c = leaveCall[p] /\ AbsenceFits(p, c) /\ c.at \in {"first", "add"}
  BY DEF AbsenceInv, Absence!CommitApproval
<1>3. Approving(p, c) /\ c \in Approvals
  BY <1>2 DEF AbsenceFits, Approving, AllowanceCalls, Rejections, Filings, Absence!Idle
<1>4. PICK e : e = c.entity.employee
  OBVIOUS
<1>5. e \in Absentees /\ c.entity.days \in Nat /\ c.id \in Requests /\ leaveRow[c.id] \in RequestRecords
  BY <1>1, <1>3, <1>4 DEF Approvals, Approving, AbsenceRows, RequestRecords, Absence!RequestRecords
<1>6. c.holds \in BalanceRecords /\ c.holds.entitled \in Nat /\ c.holds.taken \in Nat
      /\ c.holds.taken + c.entity.days <= c.holds.entitled
  BY <1>2, <1>3 DEF Approving, BalanceRecords, Absence!BalanceRecords
<1>7. leaveCall' = [leaveCall EXCEPT ![p] = Absence!Idle] /\ Absence!Unlocks(p)
  BY DEF Absence!CommitApproval, Absence!GoesTo
<1>8. CASE UNCHANGED leaveRow
  BY <1>7, <1>8, AbsenceUnlocks
<1>9. CASE leaveRow' = Absence!Approval(p, c.holds.taken + c.entity.days)
  <2>1. PICK x, y : x = [leaveRow[c.id] EXCEPT !.status = "APPROVED"]
                    /\ y = [c.holds EXCEPT !.taken = c.holds.taken + c.entity.days]
    OBVIOUS
  <2>2. x \in RequestRecords /\ y \in BalanceRecords /\ y.taken <= y.entitled
    BY <1>5, <1>6, <2>1 DEF RequestRecords, Absence!RequestRecords, BalanceRecords, Absence!BalanceRecords
  <2>3. leaveRow' = [leaveRow EXCEPT ![c.id].status = "APPROVED", ![Absence!Balance(e)] = y]
    BY <1>2, <1>4, <1>9, <2>1 DEF Absence!Approval
  <2>4. c.id \in DOMAIN leaveRow /\ Absence!Balance(e) \in DOMAIN leaveRow /\ c.id # Absence!Balance(e)
    BY <1>1, <1>5, LeaveIds DEF AbsenceRows
  <2>5. DOMAIN leaveRow' = DOMAIN leaveRow /\ leaveRow'[c.id] = x /\ leaveRow'[Absence!Balance(e)] = y
        /\ \A i \in DOMAIN leaveRow \ {c.id, Absence!Balance(e)} : leaveRow'[i] = leaveRow[i]
    BY <2>1, <2>3, <2>4
  <2>6. AbsenceRows'
    <3>1. leaveRow' \in [Requests \union {Absence!LeaveType} \union {Absence!Balance(f) : f \in Absentees} ->
                           RequestRecords \union BalanceRecords \union AllowanceRecords \union {Null}]
      BY <1>1, <2>2, <2>3, <2>4, <2>5 DEF AbsenceRows
    <3>2. \A r \in Requests : leaveRow'[r] \in RequestRecords \union {Null}
      <4>1. \A r \in Requests : r # c.id => leaveRow'[r] = leaveRow[r]
        BY <1>1, <1>5, <2>5, LeaveIds DEF AbsenceRows
      <4> QED
        BY <1>1, <2>2, <2>5, <4>1 DEF AbsenceRows
    <3>3. \A f \in Absentees : leaveRow'[Absence!Balance(f)] \in BalanceRecords \union {Null}
      BY <1>1, <1>5, <2>2, <2>5, LeaveIds DEF AbsenceRows
    <3>4. leaveRow'[Absence!LeaveType] \in AllowanceRecords
      BY <1>1, <1>5, <2>5, LeaveIds DEF AbsenceRows
    <3> QED
      BY <3>1, <3>2, <3>3, <3>4 DEF AbsenceRows
  <2>7. Absence!TakenWithinEntitled'
    <3> SUFFICES ASSUME NEW f \in Absentees, leaveRow'[Absence!Balance(f)] # Null
                 PROVE  leaveRow'[Absence!Balance(f)].taken <= leaveRow'[Absence!Balance(f)].entitled
      BY DEF Absence!TakenWithinEntitled
    <3>1. CASE f = e
      BY <2>2, <2>5, <3>1
    <3>2. CASE f # e
      <4>1. leaveRow'[Absence!Balance(f)] = leaveRow[Absence!Balance(f)]
        BY <1>1, <1>5, <2>5, <3>2, LeaveIds DEF AbsenceRows
      <4> QED
        BY <4>1 DEF AbsenceInv, Absence!TakenWithinEntitled
    <3> QED
      BY <3>1, <3>2
  <2>8. leaveLock' = [r \in Requests |-> IF leaveLock[r] = p THEN Null ELSE leaveLock[r]]
    BY <1>7 DEF Absence!Unlocks
  <2>9. leaveLock' \in [Requests -> Calls \union {Null}]
        /\ \A r \in Requests : leaveLock[r] \in Calls \ {p} => leaveLock'[r] = leaveLock[r] /\ r # c.id
    BY <1>1, <1>3, <2>8 DEF Approving
  <2>10. \A r \in Requests : r # c.id => leaveRow'[r] = leaveRow[r]
    BY <1>1, <1>5, <2>5, LeaveIds DEF AbsenceRows
  <2>11. \A r \in Requests : leaveRow[r] # Null => leaveRow'[r] # Null
    BY <2>2, <2>5, <2>10, LeaveIds
  <2>12. AbsenceFits(p, Absence!Idle)'
    BY DEF AbsenceFits
  <2> QED
    BY <1>7, <2>6, <2>7, <2>9, <2>10, <2>11, <2>12, AbsenceGoes
<1> QED
  BY <1>2, <1>4, <1>8, <1>9 DEF Absence!CommitApproval

\* A rejection or another allowance is saved; it waits for the lock.
LEMMA AbsenceSaves ==
  ASSUME AbsenceInv, NEW p \in Calls, Absence!SaveLeave(p)
  PROVE  AbsenceInv'
<1>1. AbsenceRows /\ leaveLock \in [Requests -> Calls \union {Null}]
  BY DEF AbsenceInv
<1>2. PICK c : c = leaveCall[p] /\ AbsenceFits(p, c) /\ c.at \in {"compare", "update"}
  BY DEF AbsenceInv, Absence!SaveLeave, Absence!CompareSave, Absence!UpdateSave
<1>3. (c \in Rejections /\ leaveRow[c.id] # Null) \/ c \in AllowanceCalls
  BY <1>2 DEF AbsenceFits, Approving, Approvals, Filings, Absence!Idle
<1>4. PICK r : r = leaveRow[c.id]
  OBVIOUS
<1>5. /\ c \in Rejections => c.id \in Requests /\ r \in RequestRecords /\ c.entity \in RequestRecords /\ c.entity.status = "REJECTED"
      /\ c \in AllowanceCalls => c.id = Absence!LeaveType /\ r \in AllowanceRecords /\ c.entity \in AllowanceRecords
      /\ c.id \in DOMAIN leaveRow
  BY <1>1, <1>3, <1>4 DEF Rejections, AllowanceCalls, AbsenceRows
<1>6. \/ Absence!CompareSave(p) /\ UNCHANGED leaveLock
      \/ Absence!UpdateSave(p, TRUE) /\ UNCHANGED leaveLock /\ \A s \in {c.id} \intersect Requests : leaveLock[s] = Null
  BY <1>2 DEF Absence!SaveLeave
<1>7. AbsenceFits(p, Absence!Idle)'
  BY DEF AbsenceFits
<1>8. r # Null
  BY <1>3, <1>4, <1>5, LeaveIds
<1>9. CASE Absence!CompareSave(p) /\ UNCHANGED leaveLock
  <2>1. PICK cols : cols = Absence!Differing(c.entity, r)
    OBVIOUS
  <2>2. /\ c \in Rejections => cols \in SUBSET {"employee", "days", "status"}
        /\ c \in AllowanceCalls => cols \in SUBSET {"days"}
    BY <1>5, <2>1 DEF Absence!Differing, RequestRecords, Absence!RequestRecords, AllowanceRecords, Absence!AllowanceRecords
  <2>3. PICK d : d = [c EXCEPT !.at = "update", !.columns = cols]
    OBVIOUS
  <2>4. leaveCall' = [leaveCall EXCEPT ![p].at = "update", ![p].columns = cols] /\ UNCHANGED leaveRow
    BY <1>2, <1>4, <1>8, <1>9, <2>1 DEF Absence!CompareSave
  <2>5. leaveCall' = [leaveCall EXCEPT ![p] = d]
    BY <1>2, <2>3, <2>4 DEF AbsenceInv
  <2>6. /\ c \in Rejections => d \in Rejections /\ d.id = c.id
        /\ c \in AllowanceCalls => d \in AllowanceCalls
    BY <2>2, <2>3 DEF Rejections, AllowanceCalls
  <2>7. AbsenceFits(p, d)
    BY <1>3, <2>6 DEF AbsenceFits
  <2> QED
    BY <1>9, <2>4, <2>5, <2>7, AbsencePasses
<1>10. CASE Absence!UpdateSave(p, TRUE) /\ UNCHANGED leaveLock /\ \A s \in {c.id} \intersect Requests : leaveLock[s] = Null
  <2>1. PICK w : w = Absence!Written(p)
    OBVIOUS
  <2>2. leaveRow' = [leaveRow EXCEPT ![c.id] = w] /\ leaveCall' = [leaveCall EXCEPT ![p] = Absence!Idle]
    BY <1>2, <1>3, <1>10, <2>1 DEF Absence!UpdateSave, Absence!GoesTo, Rejections, AllowanceCalls
  <2>3. w = [k \in DOMAIN r |-> IF k \in c.columns THEN c.entity[k] ELSE r[k]]
    BY <1>2, <1>4, <1>8, <2>1 DEF Absence!Written, Absence!Updated
  <2>4. /\ c \in Rejections => w \in RequestRecords
        /\ c \in AllowanceCalls => w \in AllowanceRecords
    BY <1>5, <2>3 DEF RequestRecords, Absence!RequestRecords, AllowanceRecords, Absence!AllowanceRecords
  <2>5. DOMAIN leaveRow' = DOMAIN leaveRow /\ leaveRow'[c.id] = w
        /\ \A i \in DOMAIN leaveRow : i # c.id => leaveRow'[i] = leaveRow[i]
    BY <1>1, <1>5, <2>2 DEF AbsenceRows
  <2>6. c.id \in Requests \/ c.id = Absence!LeaveType
    BY <1>3, <1>5
  <2>7. \A e \in Absentees : leaveRow'[Absence!Balance(e)] = leaveRow[Absence!Balance(e)]
    BY <1>1, <2>5, <2>6, LeaveIds DEF AbsenceRows
  <2>8. AbsenceRows'
    <3>1. leaveRow' \in [Requests \union {Absence!LeaveType} \union {Absence!Balance(f) : f \in Absentees} ->
                           RequestRecords \union BalanceRecords \union AllowanceRecords \union {Null}]
      BY <1>1, <1>3, <2>2, <2>4 DEF AbsenceRows
    <3>2. \A s \in Requests : leaveRow'[s] \in RequestRecords \union {Null}
      <4>1. c.id \in Requests => c \in Rejections
        BY <1>3, <1>5, LeaveIds
      <4>2. \A s \in Requests : s \in DOMAIN leaveRow
        BY <1>1 DEF AbsenceRows
      <4> QED
        BY <1>1, <2>4, <2>5, <4>1, <4>2 DEF AbsenceRows
    <3>3. leaveRow'[Absence!LeaveType] \in AllowanceRecords
      <4>1. c.id = Absence!LeaveType => c \in AllowanceCalls
        BY <1>3, <1>5, LeaveIds
      <4>2. Absence!LeaveType \in DOMAIN leaveRow
        BY <1>1 DEF AbsenceRows
      <4> QED
        BY <1>1, <2>4, <2>5, <4>1, <4>2 DEF AbsenceRows
    <3> QED
      BY <1>1, <2>7, <3>1, <3>2, <3>3 DEF AbsenceRows
  <2>9. Absence!TakenWithinEntitled'
    BY <2>7 DEF AbsenceInv, Absence!TakenWithinEntitled
  <2>10. \A s \in Requests : s \in DOMAIN leaveRow
    BY <1>1 DEF AbsenceRows
  <2>11. \A s \in Requests : leaveRow[s] # Null => leaveRow'[s] # Null
    <3>1. c.id \in Requests => w # Null
      BY <1>3, <1>5, <2>4, LeaveIds
    <3> QED
      BY <2>5, <2>10, <3>1
  <2>12. \A s \in Requests : leaveLock[s] \in Calls => leaveRow'[s] = leaveRow[s]
    BY <1>10, <2>5, <2>10, LeaveIds
  <2> QED
    BY <1>1, <1>7, <1>10, <2>2, <2>8, <2>9, <2>11, <2>12, AbsenceGoes
<1> QED
  BY <1>6, <1>9, <1>10

\* The steps of all calls.
LEMMA AbsenceStep == AbsenceInv /\ [Absence!LeaveNext]_(Absence!leaveVars) => AbsenceInv'
<1>1. AbsenceInv /\ Absence!LeaveNext => AbsenceInv'
  <2> SUFFICES ASSUME AbsenceInv, Absence!LeaveNext PROVE AbsenceInv'
    OBVIOUS
  <2>1. ASSUME NEW p \in Calls, Absence!LeaveCrash(p) PROVE AbsenceInv'
    <3>1. leaveCall' = [leaveCall EXCEPT ![p] = Absence!Idle] /\ UNCHANGED leaveRow /\ Absence!Unlocks(p)
      BY <2>1 DEF Absence!LeaveCrash, Absence!Crash, Absence!Fails
    <3> QED
      BY <3>1, AbsenceUnlocks
  <2> QED
    BY <2>1, AbsenceStarts, AbsenceFiles, AbsenceReads, AbsenceCommits, AbsenceSaves DEF Absence!LeaveNext
<1>2. AbsenceInv /\ UNCHANGED Absence!leaveVars => AbsenceInv'
  BY DEF AbsenceInv, AbsenceRows, Absence!TakenWithinEntitled, AbsenceFits, Approving, Absence!leaveVars, Absence!saveVars
<1> QED
  BY <1>1, <1>2

LEMMA AbsenceInit == Absence!LeaveInit => AbsenceInv
<1> SUFFICES ASSUME Absence!LeaveInit PROVE AbsenceInv
  OBVIOUS
<1>1. PICK days \in Allowances :
        leaveRow = [id \in Requests \union {Absence!LeaveType} \union {Absence!Balance(e) : e \in Absentees} |->
                      IF id = Absence!LeaveType THEN [days |-> days] ELSE Null]
  BY DEF Absence!LeaveInit
<1>2. [days |-> days] \in AllowanceRecords
  BY AbsencesAssumption DEF Absence!LeaveAssumption, AllowanceRecords, Absence!AllowanceRecords
<1>3. AbsenceRows /\ Absence!TakenWithinEntitled
  BY <1>1, <1>2, LeaveIds DEF AbsenceRows, Absence!TakenWithinEntitled
<1> QED
  BY <1>3 DEF AbsenceInv, Absence!LeaveInit, AbsenceFits

\* No balance goes below zero, whatever approvals, allowances and crashes race.
THEOREM BalancesStayEntitled == Absence!LeaveSpec => []Absence!TakenWithinEntitled
<1>1. AbsenceInv => Absence!TakenWithinEntitled
  BY DEF AbsenceInv
<1> QED
  BY <1>1, AbsenceInit, AbsenceStep, PTL DEF Absence!LeaveSpec

\* An approval writes only a request that is pending.
LEMMA AbsenceRejects == AbsenceInv /\ Absence!LeaveNext => Absence!RejectedIsFinal
<1> SUFFICES ASSUME AbsenceInv, Absence!LeaveNext,
                    NEW r \in Requests, leaveRow[r] # Null, leaveRow[r].status = "REJECTED"
             PROVE  leaveRow'[r].status = "REJECTED"
  BY DEF Absence!RejectedIsFinal
<1>1. AbsenceRows /\ r \in DOMAIN leaveRow
  BY DEF AbsenceInv, AbsenceRows
<1>2. ASSUME NEW p \in Calls, NEW s \in Requests, Absence!FileRequest(p, s) PROVE leaveRow'[r] = leaveRow[r]
  BY <1>1, <1>2 DEF Absence!FileRequest
<1>3. ASSUME NEW p \in Calls, Absence!CommitApproval(p) PROVE leaveRow'[r] = leaveRow[r]
  <2>1. PICK c : c = leaveCall[p] /\ Approving(p, c)
    BY <1>3 DEF AbsenceInv, AbsenceFits, Absence!CommitApproval, AllowanceCalls, Rejections, Filings, Absence!Idle
  <2>2. c.id # r /\ c.entity.employee \in Absentees
    BY <2>1 DEF Approving, Approvals, RequestRecords, Absence!RequestRecords
  <2>3. r # Absence!Balance(c.entity.employee)
    BY <2>2, LeaveIds
  <2>4. ASSUME NEW taken, leaveRow' = Absence!Approval(p, taken) PROVE leaveRow'[r] = leaveRow[r]
    BY <1>1, <2>1, <2>2, <2>3, <2>4 DEF Absence!Approval
  <2> QED
    BY <1>3, <2>4 DEF Absence!CommitApproval
<1>4. ASSUME NEW p \in Calls, Absence!SaveLeave(p) PROVE leaveRow'[r].status = "REJECTED"
  <2>1. PICK c : c = leaveCall[p] /\ c.at \in {"compare", "update"} /\ AbsenceFits(p, c)
    BY <1>4 DEF AbsenceInv, Absence!SaveLeave, Absence!CompareSave, Absence!UpdateSave
  <2>2. (c \in Rejections /\ leaveRow[c.id] # Null) \/ c \in AllowanceCalls
    BY <2>1 DEF AbsenceFits, Approving, Approvals, Filings, Absence!Idle
  <2>3. UNCHANGED leaveRow \/ leaveRow' = [leaveRow EXCEPT ![c.id] = Absence!Written(p)]
    BY <1>4, <2>1 DEF Absence!SaveLeave, Absence!CompareSave, Absence!UpdateSave
  <2>4. CASE c.id = r
    <3>1. c \in Rejections
      BY <2>2, <2>4, LeaveIds DEF AllowanceCalls
    <3>2. Absence!Written(p) = [k \in DOMAIN leaveRow[r] |-> IF k \in c.columns THEN c.entity[k] ELSE leaveRow[r][k]]
      BY <2>1, <2>4 DEF Absence!Written, Absence!Updated
    <3>3. leaveRow[r] \in RequestRecords /\ c.entity.status = "REJECTED"
      BY <1>1, <3>1 DEF AbsenceRows, Rejections
    <3>4. Absence!Written(p).status = "REJECTED"
      BY <3>2, <3>3 DEF RequestRecords, Absence!RequestRecords
    <3> QED
      BY <1>1, <2>3, <2>4, <3>4
  <2>5. CASE c.id # r
    BY <1>1, <2>3, <2>5
  <2> QED
    BY <2>4, <2>5
<1>5. PICK p \in Calls :
        \/ UNCHANGED leaveRow \/ \E s \in Requests : Absence!FileRequest(p, s)
        \/ Absence!CommitApproval(p) \/ Absence!SaveLeave(p)
  BY DEF Absence!LeaveNext, Absence!CreateLeaveRequest, Absence!ApproveLeaveRequest, Absence!RejectLeaveRequest,
     Absence!ReadBalance, Absence!UpdateLeaveType, Absence!LeaveCrash, Absence!Crash, Absence!Fails
<1> QED
  BY <1>2, <1>3, <1>4, <1>5

\* A rejected leave stays rejected, whatever calls race.
THEOREM RejectedLeavesStay == Absence!LeaveSpec => [][Absence!RejectedIsFinal]_(Absence!leaveVars)
<1>1. AbsenceInv /\ [Absence!LeaveNext]_(Absence!leaveVars) => [Absence!RejectedIsFinal]_(Absence!leaveVars)
  BY AbsenceRejects
<1> QED
  BY <1>1, AbsenceInit, AbsenceStep, PTL DEF Absence!LeaveSpec

(***************************************************************************)
(* Leave, one call at a time: what a call found of a request and of the    *)
(* balance is still so, and each balance counts the approved days.         *)
(***************************************************************************)

AloneRequests == LeaveAlone!RequestRecords
AloneBalances == LeaveAlone!BalanceRecords
AloneAllowances == LeaveAlone!AllowanceRecords

AloneFilings ==
  [at : {"file"}, id : {Null}, entity : {r \in AloneRequests : r.status = "PENDING"}, columns : {{}},
   then : {"idle"}, holds : {Null}]
AloneApprovals ==
  [at : {"balance", "first", "add"}, id : Requests, entity : AloneRequests, columns : {{}},
   then : {"idle"}, holds : AloneBalances \union {Null}]
AloneRejections ==
  [at : {"compare", "update"}, id : Requests, entity : {r \in AloneRequests : r.status = "REJECTED"},
   columns : SUBSET {"employee", "days", "status"}, then : {"idle"}, holds : {Null}]
AloneChanges ==
  [at : {"compare", "update"}, id : {LeaveAlone!LeaveType}, entity : AloneAllowances,
   columns : SUBSET {"days"}, then : {"idle"}, holds : {Null}]

AloneRows ==
  /\ leaveRow \in [Requests \union {LeaveAlone!LeaveType} \union {LeaveAlone!Balance(e) : e \in Employees} ->
                     AloneRequests \union AloneBalances \union AloneAllowances \union {Null}]
  /\ \A r \in Requests : leaveRow[r] \in AloneRequests \union {Null}
  /\ \A e \in Employees : leaveRow[LeaveAlone!Balance(e)] \in AloneBalances \union {Null}
  /\ leaveRow[LeaveAlone!LeaveType] \in AloneAllowances

AloneFits(c) ==
  \/ c = LeaveAlone!Idle \/ c \in AloneFilings \/ c \in AloneChanges
  \/ /\ c \in AloneApprovals /\ leaveRow[c.id] = c.entity /\ c.entity.status = "PENDING"
     /\ c.at # "balance" =>
          c.holds \in AloneBalances /\ c.holds.taken = LeaveAlone!TakenDays(c.entity.employee)
  \/ c \in AloneRejections /\ leaveRow[c.id] # Null /\ leaveRow[c.id].status = "PENDING"

\* The days of the approved requests of e,
DaysOf(e) == [r \in Requests |-> IF r \in LeaveAlone!Approved(e) THEN leaveRow[r].days ELSE 0]

\* all of which, and no others, the balance counts.
Counted == \A e \in Employees : Total(DaysOf(e)) = LeaveAlone!TakenDays(e)

AloneInv ==
  /\ AloneRows /\ Counted
  /\ DOMAIN leaveCall = {one} /\ AloneFits(leaveCall[one])

LEMMA AloneIds ==
  /\ LeaveAlone!LeaveType \notin Requests
  /\ \A e \in Employees : LeaveAlone!Balance(e) \notin Requests /\ LeaveAlone!Balance(e) # LeaveAlone!LeaveType
  /\ \A e, f : LeaveAlone!Balance(e) = LeaveAlone!Balance(f) => e = f
  /\ Null \notin AloneRequests /\ Null \notin AloneBalances /\ Null \notin AloneAllowances
  /\ IsFiniteSet(Requests)
BY AbsencesAssumption DEF LeaveAlone!LeaveType, LeaveAlone!Balance, AloneRequests, AloneBalances, AloneAllowances,
   LeaveAlone!LeaveAssumption, LeaveAlone!IsFiniteSet, IsFiniteSet

\* The sums of the instance are those of the lemmas.
LEMMA AloneSums == \A e : LeaveAlone!ApprovedDays(e) = Total(DaysOf(e))
BY DEF LeaveAlone!ApprovedDays, DaysOf, LeaveAlone!Total, LeaveAlone!Units, LeaveAlone!Cardinality, Total, Units,
   Cardinality

LEMMA DaysAreNumbers ==
  ASSUME AloneRows, NEW e
  PROVE  DaysOf(e) \in [Requests -> Nat]
<1>1. \A r \in LeaveAlone!Approved(e) : leaveRow[r] \in AloneRequests
  BY DEF AloneRows, LeaveAlone!Approved
<1>2. \A r \in LeaveAlone!Approved(e) : leaveRow[r].days \in Nat
  BY <1>1 DEF AloneRequests, LeaveAlone!RequestRecords
<1> QED
  BY <1>2 DEF DaysOf

\* A request changes that is not approved, before or after, or no request does.
LEMMA AloneKeeps ==
  ASSUME AloneInv, NEW i, \A r \in Requests : r # i => leaveRow'[r] = leaveRow[r],
         i \in Requests => /\ leaveRow[i] = Null \/ leaveRow[i].status # "APPROVED"
                           /\ leaveRow'[i] = Null \/ leaveRow'[i].status # "APPROVED",
         \A e \in Employees : leaveRow'[LeaveAlone!Balance(e)] = leaveRow[LeaveAlone!Balance(e)]
  PROVE  Counted'
<1>1. ASSUME NEW e \in Employees PROVE DaysOf(e)' = DaysOf(e)
  <2>1. LeaveAlone!Approved(e)' = LeaveAlone!Approved(e)
    BY DEF LeaveAlone!Approved
  <2>2. \A r \in LeaveAlone!Approved(e) : leaveRow'[r] = leaveRow[r]
    BY DEF LeaveAlone!Approved
  <2> QED
    BY <2>1, <2>2 DEF DaysOf
<1>2. ASSUME NEW e \in Employees PROVE Total(DaysOf(e))' = LeaveAlone!TakenDays(e)'
  <2>1. LeaveAlone!TakenDays(e)' = LeaveAlone!TakenDays(e)
    BY DEF LeaveAlone!TakenDays
  <2>2. Total(DaysOf(e))' = Total(DaysOf(e))
    BY <1>1
  <2>3. Total(DaysOf(e)) = LeaveAlone!TakenDays(e)
    BY DEF AloneInv, Counted
  <2> QED
    BY <2>1, <2>2, <2>3
<1> QED
  BY <1>2 DEF Counted

LEMMA AlonePasses ==
  ASSUME AloneInv, NEW d, leaveCall' = [leaveCall EXCEPT ![one] = d], UNCHANGED leaveRow, AloneFits(d)
  PROVE  AloneInv'
<1>1. AloneRows' /\ Counted'
  BY DEF AloneInv, AloneRows, Counted, DaysOf, LeaveAlone!Approved, LeaveAlone!TakenDays
<1>2. AloneFits(d)'
  BY DEF AloneFits, LeaveAlone!TakenDays
<1>3. DOMAIN leaveCall' = {one} /\ leaveCall'[one] = d
  BY DEF AloneInv
<1> QED
  BY <1>1, <1>2, <1>3 DEF AloneInv

LEMMA AloneEnds ==
  ASSUME AloneInv, leaveCall' = [leaveCall EXCEPT ![one] = LeaveAlone!Idle], AloneRows', Counted'
  PROVE  AloneInv'
BY DEF AloneInv, AloneFits

LEMMA AloneStarts ==
  ASSUME AloneInv,
         \/ \E e \in Employees, days \in 1..LeaveAlone!Max(Allowances) : LeaveAlone!CreateLeaveRequest(one, e, days)
         \/ \E r \in Requests : LeaveAlone!RejectLeaveRequest(one, r) \/ LeaveAlone!ApproveLeaveRequest(one, r)
         \/ \E days \in Allowances : LeaveAlone!UpdateLeaveType(one, days)
  PROVE  AloneInv'
<1>1. AloneRows
  BY DEF AloneInv
<1>2. ASSUME NEW e \in Employees, NEW days, LeaveAlone!CreateLeaveRequest(one, e, days)
      PROVE  AloneInv'
  <2>1. PICK x : x = [employee |-> e, days |-> days, status |-> "PENDING"]
    OBVIOUS
  <2>2. PICK d : d = [LeaveAlone!NewCall EXCEPT !.at = "file", !.entity = x]
    OBVIOUS
  <2>3. d = [at |-> "file", id |-> Null, entity |-> x, columns |-> {}, then |-> "idle", holds |-> Null]
    BY <2>2 DEF LeaveAlone!NewCall
  <2>4. PICK b : b = LeaveAlone!GetOrBuildBalance(e)
    OBVIOUS
  <2>5. b \in AloneBalances
    BY <1>1, <2>4 DEF AloneRows, LeaveAlone!GetOrBuildBalance, AloneBalances, LeaveAlone!BalanceRecords,
       AloneAllowances, LeaveAlone!AllowanceRecords
  <2>6. days \in 1..(b.entitled - b.taken) /\ b.entitled \in Nat /\ b.taken \in Nat
    BY <1>2, <2>4, <2>5 DEF LeaveAlone!CreateLeaveRequest, LeaveAlone!Remaining, AloneBalances, LeaveAlone!BalanceRecords
  <2>7. days \in Nat
    BY <2>6
  <2>8. x \in {r \in AloneRequests : r.status = "PENDING"}
    BY <2>1, <2>7 DEF AloneRequests, LeaveAlone!RequestRecords
  <2>9. d \in AloneFilings
    BY <2>3, <2>8 DEF AloneFilings
  <2>10. leaveCall' = [leaveCall EXCEPT ![one] = d] /\ UNCHANGED leaveRow
    BY <1>2, <2>1, <2>2 DEF LeaveAlone!CreateLeaveRequest
  <2> QED
    BY <2>9, <2>10, AlonePasses DEF AloneFits
<1>3. ASSUME NEW r \in Requests, LeaveAlone!RejectLeaveRequest(one, r)
      PROVE  AloneInv'
  <2>1. leaveRow[r] # Null /\ leaveRow[r] \in AloneRequests /\ leaveRow[r].status = "PENDING"
    BY <1>1, <1>3 DEF AloneRows, LeaveAlone!RejectLeaveRequest
  <2>2. PICK x : x = [leaveRow[r] EXCEPT !.status = "REJECTED"]
    OBVIOUS
  <2>3. x \in {y \in AloneRequests : y.status = "REJECTED"}
    BY <2>1, <2>2 DEF AloneRequests, LeaveAlone!RequestRecords
  <2>4. PICK d : d = LeaveAlone!Saving(LeaveAlone!NewCall, r, x, "idle")
    OBVIOUS
  <2>5. d = [at |-> "compare", id |-> r, entity |-> x, columns |-> {}, then |-> "idle", holds |-> Null]
    BY <2>4 DEF LeaveAlone!Saving, LeaveAlone!NewCall
  <2>6. d \in AloneRejections /\ d.id = r
    BY <2>3, <2>5 DEF AloneRejections
  <2>7. leaveCall' = [leaveCall EXCEPT ![one] = d] /\ UNCHANGED leaveRow
    BY <1>3, <2>2, <2>4 DEF LeaveAlone!RejectLeaveRequest
  <2> QED
    BY <2>1, <2>6, <2>7, AlonePasses DEF AloneFits
<1>4. ASSUME NEW r \in Requests, LeaveAlone!ApproveLeaveRequest(one, r)
      PROVE  AloneInv'
  <2>1. leaveRow[r] # Null /\ leaveRow[r] \in AloneRequests /\ leaveRow[r].status = "PENDING" /\ UNCHANGED leaveRow
    BY <1>1, <1>4 DEF AloneRows, LeaveAlone!ApproveLeaveRequest
  <2>2. PICK d : d = [LeaveAlone!NewCall EXCEPT !.at = "balance", !.id = r, !.entity = leaveRow[r]]
    OBVIOUS
  <2>3. d = [at |-> "balance", id |-> r, entity |-> leaveRow[r], columns |-> {}, then |-> "idle", holds |-> Null]
    BY <2>2 DEF LeaveAlone!NewCall
  <2>4. d \in AloneApprovals /\ d.id = r /\ d.at = "balance" /\ d.entity = leaveRow[r]
    BY <2>1, <2>3 DEF AloneApprovals
  <2>5. leaveCall' = [leaveCall EXCEPT ![one] = d]
    BY <1>4, <2>2 DEF LeaveAlone!ApproveLeaveRequest
  <2> QED
    BY <2>1, <2>4, <2>5, AlonePasses DEF AloneFits
<1>5. ASSUME NEW days \in Allowances, LeaveAlone!UpdateLeaveType(one, days)
      PROVE  AloneInv'
  <2>1. PICK x : x = [leaveRow[LeaveAlone!LeaveType] EXCEPT !.days = days]
    OBVIOUS
  <2>2. x \in AloneAllowances
    BY <1>1, <2>1, AbsencesAssumption DEF AloneRows, AloneAllowances, LeaveAlone!AllowanceRecords, LeaveAlone!LeaveAssumption
  <2>3. PICK d : d = LeaveAlone!Saving(LeaveAlone!NewCall, LeaveAlone!LeaveType, x, "idle")
    OBVIOUS
  <2>4. d = [at |-> "compare", id |-> LeaveAlone!LeaveType, entity |-> x, columns |-> {}, then |-> "idle", holds |-> Null]
    BY <2>3 DEF LeaveAlone!Saving, LeaveAlone!NewCall
  <2>5. d \in AloneChanges
    BY <2>2, <2>4 DEF AloneChanges
  <2>6. leaveCall' = [leaveCall EXCEPT ![one] = d] /\ UNCHANGED leaveRow
    BY <1>5, <2>1, <2>3 DEF LeaveAlone!UpdateLeaveType
  <2> QED
    BY <2>5, <2>6, AlonePasses DEF AloneFits
<1> QED
  BY <1>2, <1>3, <1>4, <1>5

LEMMA AloneReads ==
  ASSUME AloneInv, LeaveAlone!ReadBalance(one)
  PROVE  AloneInv'
<1>1. AloneRows
  BY DEF AloneInv
<1>2. PICK c : c = leaveCall[one] /\ AloneFits(c) /\ c.at = "balance"
  BY DEF AloneInv, LeaveAlone!ReadBalance
<1>3. c \in AloneApprovals /\ leaveRow[c.id] = c.entity /\ c.entity.status = "PENDING"
  BY <1>2 DEF AloneFits, AloneChanges, AloneRejections, AloneFilings, LeaveAlone!Idle
<1>4. PICK e, b : e = c.entity.employee /\ b = LeaveAlone!GetOrBuildBalance(e)
  OBVIOUS
<1>5. e \in Employees
  BY <1>3, <1>4 DEF AloneApprovals, AloneRequests, LeaveAlone!RequestRecords
<1>6. b \in AloneBalances /\ b.taken = LeaveAlone!TakenDays(e)
  BY <1>1, <1>4, <1>5 DEF AloneRows, LeaveAlone!GetOrBuildBalance, AloneBalances, LeaveAlone!BalanceRecords,
     AloneAllowances, LeaveAlone!AllowanceRecords, LeaveAlone!TakenDays
<1>7. CASE c.entity.days > LeaveAlone!Remaining(b)
  <2>1. leaveCall' = [leaveCall EXCEPT ![one] = LeaveAlone!Idle] /\ UNCHANGED leaveRow
    BY <1>2, <1>4, <1>7 DEF LeaveAlone!ReadBalance, LeaveAlone!Fails
  <2> QED
    BY <2>1, AlonePasses DEF AloneFits
<1>8. CASE ~ (c.entity.days > LeaveAlone!Remaining(b))
  <2>1. PICK at \in {"first", "add"} : at = IF leaveRow[LeaveAlone!Balance(e)] = Null THEN "first" ELSE "add"
    OBVIOUS
  <2>2. PICK d : d = [c EXCEPT !.at = at, !.holds = b]
    OBVIOUS
  <2>3. leaveCall' = [leaveCall EXCEPT ![one].at = at, ![one].holds = b] /\ UNCHANGED leaveRow
    BY <1>2, <1>4, <1>8, <2>1 DEF LeaveAlone!ReadBalance
  <2>4. leaveCall' = [leaveCall EXCEPT ![one] = d]
    BY <1>2, <2>2, <2>3 DEF AloneInv
  <2>5. d \in AloneApprovals /\ d.id = c.id /\ d.holds = b /\ d.entity = c.entity
    BY <1>3, <1>6, <2>1, <2>2 DEF AloneApprovals
  <2> QED
    BY <1>3, <1>4, <1>6, <2>3, <2>4, <2>5, AlonePasses DEF AloneFits
<1> QED
  BY <1>7, <1>8

\* A request is filed, rejected, or the allowance changes: no day is approved.
LEMMA AloneSaves ==
  ASSUME AloneInv, (\E r \in Requests : LeaveAlone!FileRequest(one, r)) \/ LeaveAlone!SaveLeave(one)
  PROVE  AloneInv'
<1>1. AloneRows
  BY DEF AloneInv
<1>2. PICK c : c = leaveCall[one] /\ AloneFits(c)
  BY DEF AloneInv
<1>3. ASSUME NEW i \in DOMAIN leaveRow, NEW w, leaveRow' = [leaveRow EXCEPT ![i] = w],
             \/ i \in Requests /\ w \in AloneRequests
             \/ i = LeaveAlone!LeaveType /\ w \in AloneAllowances
      PROVE  AloneRows' /\ (\A r \in Requests : r # i => leaveRow'[r] = leaveRow[r]) /\ leaveRow'[i] = w
             /\ \A e \in Employees : leaveRow'[LeaveAlone!Balance(e)] = leaveRow[LeaveAlone!Balance(e)]
  <2>1. leaveRow'[i] = w /\ \A j \in DOMAIN leaveRow : j # i => leaveRow'[j] = leaveRow[j]
    BY <1>1, <1>3 DEF AloneRows
  <2>2. /\ \A r \in Requests : r \in DOMAIN leaveRow
        /\ \A e \in Employees : LeaveAlone!Balance(e) \in DOMAIN leaveRow /\ LeaveAlone!Balance(e) # i
        /\ LeaveAlone!LeaveType \in DOMAIN leaveRow
    BY <1>1, <1>3, AloneIds DEF AloneRows
  <2>3. leaveRow' \in [Requests \union {LeaveAlone!LeaveType} \union {LeaveAlone!Balance(e) : e \in Employees} ->
                          AloneRequests \union AloneBalances \union AloneAllowances \union {Null}]
    BY <1>1, <1>3 DEF AloneRows
  <2>4. /\ \A r \in Requests : leaveRow'[r] \in AloneRequests \union {Null}
        /\ leaveRow'[LeaveAlone!LeaveType] \in AloneAllowances
    BY <1>1, <1>3, <2>1, <2>2, AloneIds DEF AloneRows
  <2>5. \A e \in Employees : leaveRow'[LeaveAlone!Balance(e)] = leaveRow[LeaveAlone!Balance(e)]
    BY <2>1, <2>2
  <2> QED
    BY <1>1, <2>1, <2>2, <2>3, <2>4, <2>5 DEF AloneRows
<1>4. ASSUME NEW r \in Requests, LeaveAlone!FileRequest(one, r)
      PROVE  AloneInv'
  <2>1. c.at = "file" /\ leaveRow[r] = Null /\ leaveRow' = [leaveRow EXCEPT ![r] = c.entity]
        /\ leaveCall' = [leaveCall EXCEPT ![one] = LeaveAlone!Idle]
    BY <1>2, <1>4 DEF LeaveAlone!FileRequest, LeaveAlone!GoesTo
  <2>2. c.entity \in AloneRequests /\ c.entity.status = "PENDING"
    BY <1>2, <2>1 DEF AloneFits, AloneApprovals, AloneChanges, AloneRejections, AloneFilings, LeaveAlone!Idle
  <2>3. r \in DOMAIN leaveRow
    BY <1>1 DEF AloneRows
  <2>4. AloneRows' /\ (\A s \in Requests : s # r => leaveRow'[s] = leaveRow[s]) /\ leaveRow'[r] = c.entity
        /\ \A e \in Employees : leaveRow'[LeaveAlone!Balance(e)] = leaveRow[LeaveAlone!Balance(e)]
    BY <1>3, <2>1, <2>2, <2>3
  <2>5. Counted'
    BY <2>1, <2>2, <2>4, AloneKeeps
  <2> QED
    BY <2>1, <2>4, <2>5, AloneEnds
<1>5. CASE LeaveAlone!SaveLeave(one)
  <2>1. c.at \in {"compare", "update"}
    BY <1>2, <1>5 DEF LeaveAlone!SaveLeave, LeaveAlone!CompareSave, LeaveAlone!UpdateSave
  <2>2. \/ c \in AloneRejections /\ leaveRow[c.id] # Null /\ leaveRow[c.id].status = "PENDING"
        \/ c \in AloneChanges
    BY <1>2, <2>1 DEF AloneFits, AloneApprovals, AloneFilings, LeaveAlone!Idle
  <2>3. PICK r : r = leaveRow[c.id]
    OBVIOUS
  <2>4. /\ c \in AloneRejections => c.id \in Requests /\ r \in AloneRequests /\ c.entity \in AloneRequests
                                    /\ c.entity.status = "REJECTED"
        /\ c \in AloneChanges => c.id = LeaveAlone!LeaveType /\ r \in AloneAllowances /\ c.entity \in AloneAllowances
        /\ c.id \in DOMAIN leaveRow
    BY <1>1, <2>2, <2>3 DEF AloneRejections, AloneChanges, AloneRows
  <2>5. r # Null
    BY <2>2, <2>3, <2>4, AloneIds
  <2>6. CASE LeaveAlone!CompareSave(one)
    <3>1. PICK cols : cols = LeaveAlone!Differing(c.entity, r)
      OBVIOUS
    <3>2. /\ c \in AloneRejections => cols \in SUBSET {"employee", "days", "status"}
          /\ c \in AloneChanges => cols \in SUBSET {"days"}
      BY <2>4, <3>1 DEF LeaveAlone!Differing, AloneRequests, LeaveAlone!RequestRecords, AloneAllowances,
         LeaveAlone!AllowanceRecords
    <3>3. PICK d : d = [c EXCEPT !.at = "update", !.columns = cols]
      OBVIOUS
    <3>4. leaveCall' = [leaveCall EXCEPT ![one].at = "update", ![one].columns = cols] /\ UNCHANGED leaveRow
      BY <1>2, <2>3, <2>5, <2>6, <3>1 DEF LeaveAlone!CompareSave
    <3>5. leaveCall' = [leaveCall EXCEPT ![one] = d]
      BY <1>2, <3>3, <3>4 DEF AloneInv
    <3>6. /\ c \in AloneRejections => d \in AloneRejections /\ d.id = c.id
          /\ c \in AloneChanges => d \in AloneChanges
      BY <3>2, <3>3 DEF AloneRejections, AloneChanges
    <3>7. AloneFits(d)
      BY <2>2, <3>6 DEF AloneFits
    <3> QED
      BY <3>4, <3>5, <3>7, AlonePasses
  <2>7. CASE LeaveAlone!UpdateSave(one, TRUE)
    <3>1. PICK w : w = LeaveAlone!Written(one)
      OBVIOUS
    <3>2. leaveRow' = [leaveRow EXCEPT ![c.id] = w] /\ leaveCall' = [leaveCall EXCEPT ![one] = LeaveAlone!Idle]
      BY <1>2, <2>2, <2>7, <3>1 DEF LeaveAlone!UpdateSave, LeaveAlone!GoesTo, AloneRejections, AloneChanges
    <3>3. w = [k \in DOMAIN r |-> IF k \in c.columns THEN c.entity[k] ELSE r[k]]
      BY <1>2, <2>3, <2>5, <3>1 DEF LeaveAlone!Written, LeaveAlone!Updated
    <3>4. /\ c \in AloneRejections => w \in AloneRequests /\ w.status # "APPROVED"
          /\ c \in AloneChanges => w \in AloneAllowances
      BY <2>2, <2>3, <2>4, <3>3 DEF AloneRequests, LeaveAlone!RequestRecords, AloneAllowances, LeaveAlone!AllowanceRecords
    <3>5. AloneRows' /\ (\A s \in Requests : s # c.id => leaveRow'[s] = leaveRow[s]) /\ leaveRow'[c.id] = w
          /\ \A e \in Employees : leaveRow'[LeaveAlone!Balance(e)] = leaveRow[LeaveAlone!Balance(e)]
      BY <1>3, <2>2, <2>4, <3>2, <3>4
    <3>6. c.id \in Requests => leaveRow[c.id].status # "APPROVED" /\ leaveRow'[c.id].status # "APPROVED"
      BY <2>2, <2>4, <3>4, <3>5, AloneIds
    <3>7. Counted'
      BY <3>5, <3>6, AloneKeeps
    <3> QED
      BY <3>2, <3>5, <3>7, AloneEnds
  <2> QED
    BY <1>5, <2>6, <2>7 DEF LeaveAlone!SaveLeave
<1> QED
  BY <1>4, <1>5

\* An approval adds its days to the sum and to the balance.
LEMMA AloneCommits ==
  ASSUME AloneInv, LeaveAlone!CommitApproval(one)
  PROVE  AloneInv'
<1>1. AloneRows /\ Counted
  BY DEF AloneInv
<1>2. PICK c : c = leaveCall[one] /\ AloneFits(c) /\ c.at \in {"first", "add"}
  BY DEF AloneInv, LeaveAlone!CommitApproval
<1>3. c \in AloneApprovals /\ leaveRow[c.id] = c.entity /\ c.entity.status = "PENDING"
      /\ c.holds \in AloneBalances /\ c.holds.taken = LeaveAlone!TakenDays(c.entity.employee)
  BY <1>2 DEF AloneFits, AloneChanges, AloneRejections, AloneFilings, LeaveAlone!Idle
<1>4. PICK e : e = c.entity.employee
  OBVIOUS
<1>5. e \in Employees /\ c.entity.days \in Nat /\ c.id \in Requests /\ c.entity \in AloneRequests
  BY <1>3, <1>4 DEF AloneApprovals, AloneRequests, LeaveAlone!RequestRecords
<1>6. leaveCall' = [leaveCall EXCEPT ![one] = LeaveAlone!Idle]
  BY DEF LeaveAlone!CommitApproval, LeaveAlone!GoesTo
<1>7. CASE UNCHANGED leaveRow
  BY <1>6, <1>7, AlonePasses DEF AloneFits
<1>8. CASE leaveRow' = LeaveAlone!Approval(one, c.holds.taken + c.entity.days)
  <2>1. PICK x, y : x = [c.entity EXCEPT !.status = "APPROVED"]
                    /\ y = [c.holds EXCEPT !.taken = c.holds.taken + c.entity.days]
    OBVIOUS
  <2>2. x \in AloneRequests /\ x.status = "APPROVED" /\ x.days = c.entity.days /\ x.employee = e
        /\ y \in AloneBalances /\ y.taken = c.holds.taken + c.entity.days
    BY <1>3, <1>4, <1>5, <2>1 DEF AloneRequests, LeaveAlone!RequestRecords, AloneBalances, LeaveAlone!BalanceRecords
  <2>3. leaveRow' = [leaveRow EXCEPT ![c.id].status = "APPROVED", ![LeaveAlone!Balance(e)] = y]
    BY <1>2, <1>4, <1>8, <2>1 DEF LeaveAlone!Approval
  <2>4. c.id \in DOMAIN leaveRow /\ LeaveAlone!Balance(e) \in DOMAIN leaveRow /\ c.id # LeaveAlone!Balance(e)
    BY <1>1, <1>5, AloneIds DEF AloneRows
  <2>5. DOMAIN leaveRow' = DOMAIN leaveRow /\ leaveRow'[c.id] = x /\ leaveRow'[LeaveAlone!Balance(e)] = y
        /\ \A i \in DOMAIN leaveRow \ {c.id, LeaveAlone!Balance(e)} : leaveRow'[i] = leaveRow[i]
    BY <1>3, <2>1, <2>3, <2>4
  <2>6. \A r \in Requests : r # c.id => leaveRow'[r] = leaveRow[r]
    BY <1>1, <1>5, <2>5, AloneIds DEF AloneRows
  <2>7. \A f \in Employees : f # e => leaveRow'[LeaveAlone!Balance(f)] = leaveRow[LeaveAlone!Balance(f)]
    BY <1>1, <1>5, <2>5, AloneIds DEF AloneRows
  <2>8. AloneRows'
    <3>1. leaveRow' \in [Requests \union {LeaveAlone!LeaveType} \union {LeaveAlone!Balance(f) : f \in Employees} ->
                           AloneRequests \union AloneBalances \union AloneAllowances \union {Null}]
      BY <1>1, <2>2, <2>3, <2>4, <2>5 DEF AloneRows
    <3>2. leaveRow'[LeaveAlone!LeaveType] \in AloneAllowances
      BY <1>1, <1>5, <2>5, AloneIds DEF AloneRows
    <3> QED
      BY <1>1, <2>2, <2>5, <2>6, <2>7, <3>1, <3>2 DEF AloneRows
  <2>9. ASSUME NEW f \in Employees PROVE Total(DaysOf(f)') = LeaveAlone!TakenDays(f)'
    <3>1. DaysOf(f) \in [Requests -> Nat] /\ DaysOf(f)' \in [Requests -> Nat]
      <4>1. \A r \in LeaveAlone!Approved(f)' : r \in Requests /\ leaveRow'[r].days \in Nat
        BY <2>8 DEF AloneRows, LeaveAlone!Approved, AloneRequests, LeaveAlone!RequestRecords
      <4>2. DaysOf(f)' \in [Requests -> Nat]
        BY <4>1 DEF DaysOf
      <4> QED
        BY <1>1, <4>2, DaysAreNumbers
    <3>2. \A r \in Requests \ {c.id} : DaysOf(f)'[r] = DaysOf(f)[r]
      BY <2>6 DEF DaysOf, LeaveAlone!Approved
    <3>3. DaysOf(f)[c.id] = 0
      BY <1>3, <1>5 DEF DaysOf, LeaveAlone!Approved
    <3>4. DaysOf(f)'[c.id] = IF f = e THEN c.entity.days ELSE 0
      BY <1>5, <2>2, <2>5, AloneIds DEF DaysOf, LeaveAlone!Approved
    <3>5. Total(DaysOf(f)) \in Nat /\ Total(DaysOf(f)') = Total(DaysOf(f)) - DaysOf(f)[c.id] + DaysOf(f)'[c.id]
      BY <1>5, <3>1, <3>2, AloneIds, TotalUpdate
    <3>6. Total(DaysOf(f)) = LeaveAlone!TakenDays(f)
      BY <1>1 DEF Counted
    <3>7. CASE f = e
      <4>1. LeaveAlone!TakenDays(e)' = c.holds.taken + c.entity.days
        BY <2>2, <2>5, AloneIds DEF LeaveAlone!TakenDays
      <4>2. c.holds.taken = LeaveAlone!TakenDays(e)
        BY <1>3, <1>4
      <4> QED
        BY <1>5, <3>3, <3>4, <3>5, <3>6, <3>7, <4>1, <4>2
    <3>8. CASE f # e
      <4>1. LeaveAlone!TakenDays(f)' = LeaveAlone!TakenDays(f)
        BY <2>7, <3>8 DEF LeaveAlone!TakenDays
      <4> QED
        BY <3>3, <3>4, <3>5, <3>6, <3>8, <4>1
    <3> QED
      BY <3>7, <3>8
  <2>10. Counted'
    BY <2>9 DEF Counted
  <2> QED
    BY <1>6, <2>8, <2>10, AloneEnds
<1> QED
  BY <1>2, <1>4, <1>7, <1>8 DEF LeaveAlone!CommitApproval

LEMMA AloneStep == AloneInv /\ [LeaveAlone!LeaveNext]_(LeaveAlone!leaveVars) => AloneInv'
<1>1. AloneInv /\ LeaveAlone!LeaveNext => AloneInv'
  <2> SUFFICES ASSUME AloneInv, LeaveAlone!LeaveNext PROVE AloneInv'
    OBVIOUS
  <2>1. CASE LeaveAlone!LeaveCrash(one)
    <3>1. leaveCall' = [leaveCall EXCEPT ![one] = LeaveAlone!Idle] /\ UNCHANGED leaveRow
      BY <2>1 DEF LeaveAlone!LeaveCrash, LeaveAlone!Crash, LeaveAlone!Fails
    <3> QED
      BY <3>1, AlonePasses DEF AloneFits
  <2> QED
    BY <2>1, AloneStarts, AloneReads, AloneSaves, AloneCommits DEF LeaveAlone!LeaveNext
<1>2. AloneInv /\ UNCHANGED LeaveAlone!leaveVars => AloneInv'
  BY DEF AloneInv, AloneRows, Counted, DaysOf, LeaveAlone!Approved, LeaveAlone!TakenDays, AloneFits,
     LeaveAlone!leaveVars, LeaveAlone!saveVars
<1> QED
  BY <1>1, <1>2

LEMMA AloneInit == LeaveAlone!LeaveInit => AloneInv
<1> SUFFICES ASSUME LeaveAlone!LeaveInit PROVE AloneInv
  OBVIOUS
<1>1. PICK days \in Allowances :
        leaveRow = [id \in Requests \union {LeaveAlone!LeaveType} \union {LeaveAlone!Balance(e) : e \in Employees} |->
                      IF id = LeaveAlone!LeaveType THEN [days |-> days] ELSE Null]
  BY DEF LeaveAlone!LeaveInit
<1>2. [days |-> days] \in AloneAllowances
  BY AbsencesAssumption DEF LeaveAlone!LeaveAssumption, AloneAllowances, LeaveAlone!AllowanceRecords
<1>3. /\ \A r \in Requests : leaveRow[r] = Null
      /\ \A e \in Employees : leaveRow[LeaveAlone!Balance(e)] = Null
  BY <1>1, AloneIds
<1>4. AloneRows
  BY <1>1, <1>2, <1>3 DEF AloneRows
<1>5. ASSUME NEW e \in Employees PROVE Total(DaysOf(e)) = LeaveAlone!TakenDays(e)
  <2>1. DaysOf(e) = [r \in Requests |-> 0]
    BY <1>3 DEF DaysOf, LeaveAlone!Approved
  <2> QED
    BY <1>3, <2>1, TotalOfZeros DEF LeaveAlone!TakenDays
<1> QED
  BY <1>4, <1>5 DEF AloneInv, Counted, LeaveAlone!LeaveInit, AloneFits

LEMMA AloneShows == AloneInv => LeaveAlone!ApprovedAreTaken /\ LeaveAlone!TakenWereApproved
<1> SUFFICES ASSUME AloneInv, NEW e \in Employees
             PROVE  LeaveAlone!ApprovedDays(e) <= LeaveAlone!TakenDays(e)
                    /\ LeaveAlone!TakenDays(e) <= LeaveAlone!ApprovedDays(e)
  BY DEF LeaveAlone!ApprovedAreTaken, LeaveAlone!TakenWereApproved
<1>1. Total(DaysOf(e)) \in Nat
  BY DaysAreNumbers, UnitsFinite, AloneIds DEF AloneInv
<1> QED
  BY <1>1, AloneSums DEF AloneInv, Counted

\* One call at a time, and with crashes, a balance counts the approved days.
THEOREM BalancesCountApproved ==
  LeaveAlone!LeaveSpec => [](LeaveAlone!ApprovedAreTaken /\ LeaveAlone!TakenWereApproved)
BY AloneInit, AloneStep, AloneShows, PTL DEF LeaveAlone!LeaveSpec

\* The leave of a company moves by one of the two services only.
LEMMA LeaveOnlyMovesThere ==
  ASSUME [Next]_vars
  PROVE  /\ service' = service
         /\ service = "leave" => [Absence!LeaveNext]_(Absence!leaveVars)
         /\ service = "leave alone" => [LeaveAlone!LeaveNext]_(LeaveAlone!leaveVars)
<1>1. CASE LeaveNext
  BY <1>1 DEF LeaveNext
<1>2. CASE UNCHANGED <<service, leaveVars>>
  BY <1>2 DEF leaveVars, Absence!leaveVars, Absence!saveVars, LeaveAlone!leaveVars, LeaveAlone!saveVars
<1> QED
  BY <1>1, <1>2 DEF Next, BookNext, BillNext, ContractNext, StaffNext, CompanyNext, RoleNext, LevelNext, vars

\* No balance goes below zero, whatever calls race; one call at a time, and with
\* crashes, a balance counts the days of the approved requests.
THEOREM LeaveAlwaysAgrees == Spec => []LeaveAgrees
<1> DEFINE Inv == /\ service = "leave" => AbsenceInv
                  /\ service = "leave alone" => AloneInv
<1>1. Init => Inv
  BY AbsenceInit, AloneInit DEF Init
<1>2. Inv /\ [Next]_vars => Inv'
  BY LeaveOnlyMovesThere, AbsenceStep, AloneStep
<1>3. Inv => LeaveAgrees
  <2>1. AbsenceInv => Absence!TakenWithinEntitled
    BY DEF AbsenceInv, Absence!TakenWithinEntitled
  <2> QED
    BY <2>1, AloneShows DEF LeaveAgrees
<1> QED
  BY <1>1, <1>2, <1>3, PTL DEF Spec

HIDE AbsencesAssumption DEF Absence!LeaveAssumption, LeaveAlone!LeaveAssumption

(***************************************************************************)
(* The journal and the payroll, for the calls S and numbers up to "max": a *)
(* call is nothing, closes the year, works on an expense or its payslip,   *)
(* or posts an entry for what it holds.                                    *)
(***************************************************************************)

Works ==
  [at : {"record", "repost", "unpost", "save", "delete", "sync", "hired", "payroll", "salary",
         "payslip", "replace", "unlock"},
   todo : 0..2, line : Books!LineRecords \union {Null, Removed}, x : ExpenseIds \union {Null}]
Postings ==
  [at : {"check", "insert", "next", "posted"}, source : Books!Sources, of : Documents \union {Null},
   draft : BOOLEAN, number : Nat, posted : BOOLEAN, then : {"idle", "next", "posted"},
   holds : Works \union {Null}]
BookCalls == {Books!Idle, [at |-> "close"]} \union Works \union Postings

\* What a call needs for its next step.
WorkFits(c) ==
  /\ c.at \in {"repost", "unpost", "payslip", "replace", "save", "delete", "sync"} => c.x \in ExpenseIds
  /\ c.at = "record" => c.todo # 0
  /\ c.at \in {"record", "repost"} /\ c.todo # 0 => c.line \in Books!LineRecords
  /\ c.at \in {"save", "delete", "sync"} => c.line # Null /\ c.todo = 0
PostingFits(c) ==
  /\ c.draft => c.source = "TAX"
  /\ c.at \in {"check", "insert"} => ~ c.posted
  /\ c.at = "insert" => c.number # 0
  /\ c.at \in {"next", "posted"} => c.then = c.at
  /\ c.then = "next" =>
       c.source = "EXPENSE" /\ c.holds \in Works /\ c.of \in ExpenseIds
       /\ (c.holds.todo # 0 => c.holds.line \in Books!LineRecords)
  /\ c.then = "posted" =>
       c.source = "PAYROLL" /\ c.holds \in Works /\ c.of \in ExpenseIds /\ c.holds.x = c.of
BookFits(c) ==
  /\ c \in BookCalls
  /\ c \in Works => WorkFits(c)
  /\ c \in Postings => PostingFits(c)

\* A run that replaces the simple entry of a salary has posted the detailed one.
BookFound(c) ==
  /\ c.at = "posted" /\ c.posted => \E e \in entry : e.source = "PAYROLL" /\ e.of = c.of
  /\ c.at = "replace" => \E e \in entry : e.source = "PAYROLL" /\ e.of = c.x

EntriesSound(max) ==
  /\ entry \subseteq [number : 1..max, source : Books!Sources, of : Documents \union {Null}, draft : BOOLEAN]
  /\ IsFiniteSet(entry)
  /\ \A e \in entry : e.draft => e.source = "TAX"
  /\ \A e, f \in entry : e.number = f.number => e = f
LinesSound ==
  /\ expense \in [ExpenseIds -> Books!LineRecords \union {Null, Removed}]
  /\ \A x, y \in Books!SalaryLines : ~expense[x].reverses /\ ~expense[y].reverses => x = y

BookInv(S, max) ==
  /\ bookCall \in [S -> BookCalls]
  /\ \A p \in S : BookFits(bookCall[p]) /\ BookFound(bookCall[p])
  /\ EntriesSound(max) /\ LinesSound
  /\ year \in {"OPEN", "CLOSED"} /\ payslip \subseteq ExpenseIds /\ lock \in S \union {Null}

LEMMA BookFacts ==
  /\ MaxEntries \in Nat /\ MaxEntriesAlone \in Nat /\ ExpenseIds \subseteq Documents
  /\ Null \notin Calls /\ Null # one /\ Null # Removed
  /\ Null \notin Books!LineRecords /\ Removed \notin Books!LineRecords
BY BooksAssumption DEF Books!FinanceAssumption, BooksAlone!FinanceAssumption, Books!AccountingAssumption,
   BooksAlone!AccountingAssumption

\* A call that moves, and what the others hold is still there.
LEMMA BookGoes ==
  ASSUME NEW S, NEW max \in Nat, NEW p \in S, NEW d, BookInv(S, max), bookCall' = [bookCall EXCEPT ![p] = d],
         BookFits(d), BookFound(d)', EntriesSound(max)', LinesSound',
         year' \in {"OPEN", "CLOSED"}, payslip' \subseteq ExpenseIds, lock' \in S \union {Null},
         \A e \in entry : e.source = "PAYROLL" => e \in entry'
  PROVE  BookInv(S, max)'
<1>1. bookCall' \in [S -> BookCalls] /\ bookCall'[p] = d /\ \A q \in S \ {p} : bookCall'[q] = bookCall[q]
  BY DEF BookInv, BookFits
<1>2. ASSUME NEW q \in S PROVE BookFits(bookCall'[q]) /\ BookFound(bookCall[q])'
  <2>1. CASE q = p
    BY <1>1, <2>1 DEF BookFound
  <2>2. CASE q # p
    BY <1>1, <2>2 DEF BookInv, BookFound
  <2> QED
    BY <2>1, <2>2
<1> QED
  BY <1>1, <1>2 DEF BookInv

\* A call that moves without a change to the entries and the lines.
LEMMA BookPasses ==
  ASSUME NEW S, NEW max \in Nat, NEW p \in S, NEW d, BookInv(S, max), bookCall' = [bookCall EXCEPT ![p] = d],
         BookFits(d), BookFound(d), UNCHANGED <<entry, expense>>,
         year' \in {"OPEN", "CLOSED"}, payslip' \subseteq ExpenseIds, lock' \in S \union {Null}
  PROVE  BookInv(S, max)'
<1>1. EntriesSound(max)' /\ LinesSound' /\ BookFound(d)'
  BY DEF BookInv, EntriesSound, LinesSound, BookFound, Books!SalaryLines, Books!Lines
<1> QED
  BY <1>1, BookGoes

\* InsertEntry, with the bound of the numbers as a parameter.
Inserts(p, max) ==
  LET c == bookCall[p]
      free == \A e \in entry : e.number # c.number
  IN
  /\ c.at = "insert"
  /\ c.number <= max
  /\ entry' = IF free
       THEN entry \union {[number |-> c.number, source |-> c.source, of |-> c.of, draft |-> c.draft]}
       ELSE entry
  /\ Books!GoesTo(p, [c EXCEPT !.posted = free], c.then)
  /\ UNCHANGED year

LEMMA BookPosts ==
  ASSUME NEW S, NEW max \in Nat, NEW p \in S, BookInv(S, max), Books!CheckEntry(p) \/ Inserts(p, max),
         UNCHANGED Books!financeRows
  PROVE  BookInv(S, max)'
<1>1. PICK c : c = bookCall[p]
  OBVIOUS
<1>2. BookFits(c) /\ c.at \in {"check", "insert"} /\ EntriesSound(max) /\ LinesSound
      /\ year \in {"OPEN", "CLOSED"} /\ payslip \subseteq ExpenseIds /\ lock \in S \union {Null}
  BY <1>1 DEF BookInv, Books!CheckEntry, Inserts
<1>3. c \in Postings /\ PostingFits(c)
  BY <1>2 DEF BookFits, BookCalls, Books!Idle, Works
<1>4. UNCHANGED <<expense, payslip, lock>>
  BY DEF Books!financeRows
<1>5. Books!Idle \in BookCalls /\ Books!Idle.at = "idle"
  BY DEF BookCalls, Books!Idle
<1>6. Books!Idle \notin Works \union Postings
  BY <1>5 DEF Works, Postings
<1>7. CASE Books!CheckEntry(p) /\ year = "CLOSED"
  <2>1. Books!GoesTo(p, c, c.then) /\ UNCHANGED <<entry, year>>
    BY <1>1, <1>7 DEF Books!CheckEntry
  <2>2. PICK d : d = IF c.then = "idle" THEN Books!Idle ELSE [c EXCEPT !.at = c.then]
    OBVIOUS
  <2>3. bookCall' = [bookCall EXCEPT ![p] = d]
    BY <2>1, <2>2 DEF Books!GoesTo
  <2>4. BookFits(d) /\ d \notin Works /\ BookFound(d)
    <3>1. CASE c.then = "idle"
      BY <1>5, <1>6, <2>2, <3>1 DEF BookFits, BookFound
    <3>2. CASE c.then # "idle"
      <4>1. d \in Postings /\ d.at = c.then /\ d.then = c.then /\ d.source = c.source /\ d.of = c.of
            /\ d.holds = c.holds /\ d.draft = c.draft /\ d.posted = c.posted /\ d.at \in {"next", "posted"}
        BY <1>3, <2>2, <3>2 DEF Postings
      <4>2. d \notin Works
        BY <4>1 DEF Postings, Works
      <4>3. ~ c.posted
        BY <1>1, <1>3, <1>7 DEF Books!CheckEntry, PostingFits
      <4> QED
        BY <1>3, <4>1, <4>2, <4>3 DEF BookFits, BookFound, PostingFits, BookCalls
    <3> QED
      BY <3>1, <3>2
  <2> QED
    BY <1>2, <1>4, <2>1, <2>3, <2>4, BookPasses
<1>8. CASE Books!CheckEntry(p) /\ year # "CLOSED"
  <2>1. PICK d : d = [[c EXCEPT !.number = Cardinality(entry) + 1] EXCEPT !.at = "insert"]
    OBVIOUS
  <2>2. bookCall' = [bookCall EXCEPT ![p] = d] /\ UNCHANGED <<entry, year>>
    BY <1>1, <1>8, <2>1 DEF Books!CheckEntry, Books!GoesTo, Books!Cardinality, Cardinality
  <2>3. Cardinality(entry) \in Nat
    BY <1>2, FS_CardinalityType DEF EntriesSound
  <2>4. d \in Postings /\ d.at = "insert" /\ d.number # 0 /\ d.then = c.then /\ d.source = c.source
        /\ d.of = c.of /\ d.holds = c.holds /\ d.draft = c.draft /\ d.posted = c.posted
    <3>1. d = [at |-> "insert", source |-> c.source, of |-> c.of, draft |-> c.draft,
               number |-> Cardinality(entry) + 1, posted |-> c.posted, then |-> c.then, holds |-> c.holds]
      BY <1>3, <2>1 DEF Postings
    <3> QED
      BY <1>3, <2>3, <3>1 DEF Postings
  <2>5. BookFits(d) /\ d \notin Works
    BY <1>2, <1>3, <2>4 DEF BookFits, PostingFits, BookCalls, Works, Postings
  <2>6. BookFound(d)
    BY <2>4, <2>5 DEF BookFound
  <2> QED
    BY <1>2, <1>4, <2>2, <2>5, <2>6, BookPasses
<1>9. CASE Inserts(p, max)
  <2>1. PICK free \in BOOLEAN : free <=> \A e \in entry : e.number # c.number
    OBVIOUS
  <2>2. PICK new : new = [number |-> c.number, source |-> c.source, of |-> c.of, draft |-> c.draft]
    OBVIOUS
  <2>3. PICK d : d = IF c.then = "idle" THEN Books!Idle ELSE [[c EXCEPT !.posted = free] EXCEPT !.at = c.then]
    OBVIOUS
  <2>4. entry' = (IF free THEN entry \union {new} ELSE entry) /\ UNCHANGED year
    BY <1>1, <1>9, <2>1, <2>2 DEF Inserts
  <2>5. bookCall' = [bookCall EXCEPT ![p] = d]
    BY <1>1, <1>9, <2>1, <2>3 DEF Inserts, Books!GoesTo
  <2>6. EntriesSound(max)'
    <3>1. c.number \in 1..max /\ c.source \in Books!Sources /\ c.of \in Documents \union {Null}
          /\ c.draft \in BOOLEAN /\ (c.draft => c.source = "TAX")
      BY <1>1, <1>3, <1>9 DEF Postings, PostingFits, Inserts
    <3>2. IsFiniteSet(entry')
      BY <1>2, <2>4, FS_AddElement DEF EntriesSound
    <3> QED
      BY <1>2, <2>1, <2>2, <2>4, <3>1, <3>2 DEF EntriesSound
  <2>7. LinesSound'
    BY <1>2, <1>4 DEF LinesSound, Books!SalaryLines, Books!Lines
  <2>8. BookFits(d) /\ d \notin Works /\ BookFound(d)'
    <3>1. CASE c.then = "idle"
      BY <1>5, <1>6, <2>3, <3>1 DEF BookFits, BookFound
    <3>2. CASE c.then # "idle"
      <4>1. d \in Postings /\ d.at = c.then /\ d.then = c.then /\ d.source = c.source /\ d.of = c.of
            /\ d.holds = c.holds /\ d.draft = c.draft /\ d.posted = free /\ d.at \in {"next", "posted"}
        BY <1>3, <2>3, <3>2 DEF Postings
      <4>2. d \notin Works
        BY <4>1 DEF Postings, Works
      <4>3. free /\ d.at = "posted" => \E e \in entry' : e.source = "PAYROLL" /\ e.of = d.of
        BY <1>3, <2>2, <2>4, <4>1 DEF PostingFits
      <4> QED
        BY <1>3, <4>1, <4>2, <4>3 DEF BookFits, BookFound, PostingFits, BookCalls
    <3> QED
      BY <3>1, <3>2
  <2>9. \A e \in entry : e \in entry'
    BY <2>4
  <2> QED
    BY <1>2, <1>4, <2>4, <2>5, <2>6, <2>7, <2>8, <2>9, BookGoes
<1> QED
  BY <1>7, <1>8, <1>9

\* What a call may start with.
BookStarts(p) ==
  \/ \E d \in Documents : Books!ManualEntry(p, d) /\ UNCHANGED Books!financeRows
  \/ \E profit \in BOOLEAN : Books!CloseFiscalYear(p, profit) /\ UNCHANGED Books!financeRows
  \/ \E salary \in BOOLEAN :
       \/ Books!CreateExpense(p, salary) \/ Books!SyncSalary(p, salary)
       \/ \E todo \in {1, 2} : Books!CorrectExpense(p, todo, salary)
  \/ \E x \in ExpenseIds :
       Books!RemoveExpense(p, x) \/ \E salary \in BOOLEAN : Books!UpdateExpense(p, x, salary)
  \/ Books!StartRun(p)

LEMMA BookBegins ==
  ASSUME NEW S, NEW max \in Nat, NEW p \in S, BookInv(S, max), BookStarts(p)
  PROVE  BookInv(S, max)'
<1>1. UNCHANGED <<entry, expense>> /\ year' \in {"OPEN", "CLOSED"} /\ payslip' \subseteq ExpenseIds
      /\ lock' \in S \union {Null}
  BY DEF BookInv, BookStarts, Books!ManualEntry, Books!CloseFiscalYear, Books!CreateExpense, Books!SyncSalary,
     Books!CorrectExpense, Books!UpdateExpense, Books!RemoveExpense, Books!StartRun, Books!financeRows
<1>2. ASSUME NEW c, Books!Begins(p, c), BookFits(c), BookFound(c)
      PROVE  BookInv(S, max)'
  <2>1. bookCall' = [bookCall EXCEPT ![p] = c]
    BY <1>2 DEF Books!Begins
  <2> QED
    BY <1>1, <1>2, <2>1, BookPasses
<1>3. ASSUME NEW of \in Documents \union {Null}, NEW source \in Books!Sources, NEW draft \in BOOLEAN,
             draft => source = "TAX", Books!Begins(p, Books!Posting(source, of, draft, "idle", Null))
      PROVE  BookInv(S, max)'
  <2>1. PICK c : c = Books!Posting(source, of, draft, "idle", Null)
    OBVIOUS
  <2>2. c \in Postings /\ c.draft = draft /\ c.source = source /\ c.at = "check" /\ c.then = "idle" /\ ~ c.posted
    BY <2>1 DEF Postings, Books!Posting
  <2>3. c \notin Works
    BY <2>2 DEF Works
  <2> QED
    BY <1>2, <1>3, <2>1, <2>2, <2>3 DEF BookFits, BookFound, PostingFits, BookCalls
<1>4. ASSUME Books!Begins(p, [at |-> "close"]) PROVE BookInv(S, max)'
  <2>1. PICK c : c = [at |-> "close"]
    OBVIOUS
  <2>2. c \in BookCalls /\ c.at = "close"
    BY <2>1 DEF BookCalls
  <2>3. c \notin Works \union Postings
    BY <2>2 DEF Works, Postings
  <2> QED
    BY <1>2, <1>4, <2>1, <2>2, <2>3 DEF BookFits, BookFound
<1>5. ASSUME NEW c \in Works, Books!Begins(p, c), WorkFits(c),
             c.at \notin {"posted", "replace"}
      PROVE  BookInv(S, max)'
  <2>1. c \notin Postings
    BY <1>5 DEF Works, Postings
  <2> QED
    BY <1>2, <1>5, <2>1 DEF BookFits, BookFound, BookCalls
<1>6. expense \in [ExpenseIds -> Books!LineRecords \union {Null, Removed}]
  BY DEF BookInv, LinesSound
<1>7. CASE \E d \in Documents : Books!ManualEntry(p, d)
  BY <1>3, <1>7 DEF Books!ManualEntry, Books!Sources
<1>8. CASE \E profit \in BOOLEAN : Books!CloseFiscalYear(p, profit)
  <2>1. Books!Begins(p, Books!Draft) \/ Books!Begins(p, [at |-> "close"])
    BY <1>8 DEF Books!CloseFiscalYear
  <2> QED
    BY <1>3, <1>4, <2>1 DEF Books!Draft, Books!Sources
<1>9. ASSUME NEW salary \in BOOLEAN, NEW todo \in {1, 2},
             Books!CreateExpense(p, salary) \/ Books!CorrectExpense(p, todo, salary)
      PROVE  BookInv(S, max)'
  <2>1. PICK n \in {1, 2}, l \in Books!LineRecords : Books!Begins(p, Books!Recording(n, l))
    BY <1>9 DEF Books!CreateExpense, Books!CorrectExpense, Books!Line, Books!LineRecords
  <2>2. PICK c : c = Books!Recording(n, l)
    OBVIOUS
  <2>3. c \in Works /\ c.at = "record" /\ c.todo = n /\ c.line = l
    BY <2>2 DEF Works, Books!Recording
  <2> QED
    BY <1>5, <2>1, <2>2, <2>3 DEF WorkFits
<1>10. ASSUME NEW x \in ExpenseIds,
              Books!RemoveExpense(p, x) \/ \E salary \in BOOLEAN : Books!UpdateExpense(p, x, salary)
       PROVE  BookInv(S, max)'
  <2>1. ASSUME NEW at \in {"save", "delete"}, NEW l \in Books!LineRecords \union {Removed},
               Books!Begins(p, Books!On(x, l, at))
        PROVE  BookInv(S, max)'
    <3>1. PICK c : c = Books!On(x, l, at)
      OBVIOUS
    <3>2. c \in Works /\ c.at = at /\ c.x = x /\ c.line = l /\ c.todo = 0
      BY <2>1, <3>1 DEF Works, Books!On
    <3> QED
      BY <1>5, <2>1, <3>1, <3>2, BookFacts DEF WorkFits
  <2>2. CASE Books!RemoveExpense(p, x)
    BY <2>1, <2>2 DEF Books!RemoveExpense
  <2>3. ASSUME NEW salary \in BOOLEAN, Books!UpdateExpense(p, x, salary) PROVE BookInv(S, max)'
    <3>1. expense[x] \in Books!LineRecords
      BY <1>6, <2>3 DEF Books!UpdateExpense, Books!Lines
    <3>2. [expense[x] EXCEPT !.salary = salary] \in Books!LineRecords
      BY <3>1 DEF Books!LineRecords
    <3> QED
      BY <2>1, <2>3, <3>2 DEF Books!UpdateExpense
  <2> QED
    BY <1>10, <2>2, <2>3
<1>11. ASSUME NEW salary \in BOOLEAN, Books!SyncSalary(p, salary) PROVE BookInv(S, max)'
  <2>1. CASE Books!Begins(p, Books!On(Null, Null, "hired"))
    <3>1. PICK c : c = Books!On(Null, Null, "hired")
      OBVIOUS
    <3>2. c \in Works /\ c.at = "hired"
      BY <3>1 DEF Works, Books!On
    <3> QED
      BY <1>5, <2>1, <3>1, <3>2 DEF WorkFits
  <2>2. ASSUME NEW x \in Books!SalaryLines, Books!Begins(p, Books!On(x, IF salary THEN expense[x] ELSE Removed, "sync"))
        PROVE  BookInv(S, max)'
    <3>1. PICK l : l = IF salary THEN expense[x] ELSE Removed
      OBVIOUS
    <3>2. x \in ExpenseIds /\ l \in Books!LineRecords \union {Removed}
      BY <1>6, <3>1 DEF Books!SalaryLines, Books!Lines
    <3>3. PICK c : c = Books!On(x, l, "sync")
      OBVIOUS
    <3>4. c \in Works /\ c.at = "sync" /\ c.x = x /\ c.line = l /\ c.todo = 0
      BY <3>2, <3>3 DEF Works, Books!On
    <3> QED
      BY <1>5, <2>2, <3>1, <3>2, <3>3, <3>4, BookFacts DEF WorkFits
  <2> QED
    BY <1>11, <2>1, <2>2 DEF Books!SyncSalary
<1>12. CASE Books!StartRun(p)
  <2>1. PICK c : c = Books!On(Null, Null, "payroll")
    OBVIOUS
  <2>2. c \in Works /\ c.at = "payroll"
    BY <2>1 DEF Works, Books!On
  <2> QED
    BY <1>5, <1>12, <2>1, <2>2 DEF WorkFits, Books!StartRun
<1> QED
  BY <1>7, <1>8, <1>9, <1>10, <1>11, <1>12 DEF BookStarts

\* A call that ends.
LEMMA BookEnds ==
  ASSUME NEW S, NEW max \in Nat, NEW p \in S, BookInv(S, max),
         bookCall' = [bookCall EXCEPT ![p] = Books!Idle], UNCHANGED <<entry, expense>>,
         year' \in {"OPEN", "CLOSED"}, payslip' \subseteq ExpenseIds, lock' \in S \union {Null}
  PROVE  BookInv(S, max)'
<1>1. Books!Idle \in BookCalls /\ Books!Idle.at = "idle"
  BY DEF BookCalls, Books!Idle
<1>2. Books!Idle \notin Works \union Postings
  BY <1>1 DEF Works, Postings
<1> QED
  BY <1>1, <1>2, BookPasses DEF BookFits, BookFound

LEMMA LineStored ==
  ASSUME LinesSound, NEW x \in ExpenseIds, NEW l \in Books!LineRecords \union {Removed},
         l = Removed \/ Books!Unique(x, l), expense' = [expense EXCEPT ![x] = l]
  PROVE  LinesSound'
<1>1. expense' \in [ExpenseIds -> Books!LineRecords \union {Null, Removed}]
      /\ expense'[x] = l /\ \A y \in ExpenseIds \ {x} : expense'[y] = expense[y]
  BY DEF LinesSound
<1>2. ASSUME NEW y \in Books!SalaryLines', NEW z \in Books!SalaryLines',
             ~ expense'[y].reverses, ~ expense'[z].reverses, y # z
      PROVE  FALSE
  <2>1. y \in ExpenseIds /\ z \in ExpenseIds
        /\ (y # x => y \in Books!SalaryLines /\ expense'[y] = expense[y])
        /\ (z # x => z \in Books!SalaryLines /\ expense'[z] = expense[z])
    BY <1>1 DEF Books!SalaryLines, Books!Lines
  <2>2. x \in Books!SalaryLines' => l \in Books!LineRecords /\ l # Removed /\ l # Null /\ l.salary
    BY <1>1, BookFacts DEF Books!SalaryLines, Books!Lines
  <2> QED
    BY <1>1, <1>2, <2>1, <2>2 DEF LinesSound, Books!Unique
<1> QED
  BY <1>1, <1>2 DEF LinesSound

\* A line is recorded, saved or removed, or the unique index refuses it.
LEMMA BookLines ==
  ASSUME NEW S, NEW max \in Nat, NEW p \in S, BookInv(S, max),
         Books!WriteLine(p) \/ \E x \in ExpenseIds : Books!RecordLine(p, x) \/ Books!InsertSalaryLine(p, x)
  PROVE  BookInv(S, max)'
<1>1. PICK c : c = bookCall[p]
  OBVIOUS
<1>2. BookFits(c) /\ BookFound(c) /\ EntriesSound(max) /\ LinesSound
      /\ year \in {"OPEN", "CLOSED"} /\ payslip \subseteq ExpenseIds /\ lock \in S \union {Null}
  BY <1>1 DEF BookInv
<1>3. UNCHANGED <<entry, year, payslip, lock>>
  BY DEF Books!WriteLine, Books!RecordLine, Books!InsertSalaryLine
<1>4. c.at \in {"save", "delete", "sync", "record", "salary", "hired"}
  BY <1>1 DEF Books!WriteLine, Books!RecordLine, Books!InsertSalaryLine
<1>5. c \in Works /\ WorkFits(c)
  BY <1>2, <1>4 DEF BookFits, BookCalls, Books!Idle, Postings
<1>6. EntriesSound(max)'
  BY <1>2, <1>3 DEF EntriesSound
<1>7. Books!Idle \in BookCalls /\ Books!Idle.at = "idle" /\ Books!Idle \notin Works \union Postings
  <2>1. Books!Idle \in BookCalls /\ Books!Idle.at = "idle"
    BY DEF BookCalls, Books!Idle
  <2> QED
    BY <2>1 DEF Works, Postings
\* what is stored, and how the call goes on
<1>9. ASSUME NEW x \in ExpenseIds, NEW l \in Books!LineRecords \union {Removed},
             l = Removed \/ Books!Unique(x, l), expense' = [expense EXCEPT ![x] = l],
             NEW d \in Works \union {Books!Idle}, bookCall' = [bookCall EXCEPT ![p] = d],
             d \in Works => WorkFits(d), d.at # "replace"
      PROVE  BookInv(S, max)'
  <2>1. LinesSound'
    BY <1>2, <1>9, LineStored
  <2>2. BookFits(d) /\ BookFound(d)'
    <3>1. d \notin Postings /\ d.at # "posted"
      BY <1>7 DEF Works, Postings
    <3> QED
      BY <1>7, <1>9, <3>1 DEF BookFits, BookFound, BookCalls
  <2> QED
    BY <1>2, <1>3, <1>6, <1>9, <2>1, <2>2, BookGoes
<1>10. ASSUME UNCHANGED expense, NEW d \in Works \union {Books!Idle}, bookCall' = [bookCall EXCEPT ![p] = d],
              d \in Works => WorkFits(d), d.at # "replace"
       PROVE  BookInv(S, max)'
  <2>1. BookFits(d) /\ BookFound(d)
    <3>1. d \notin Postings /\ d.at # "posted"
      BY <1>7 DEF Works, Postings
    <3> QED
      BY <1>7, <1>10, <3>1 DEF BookFits, BookFound, BookCalls
  <2> QED
    BY <1>2, <1>3, <1>10, <2>1, BookPasses
<1>11. ASSUME NEW x \in ExpenseIds, Books!RecordLine(p, x) PROVE BookInv(S, max)'
  <2>1. c.at = "record" /\ expense[x] = Null /\ c.line \in Books!LineRecords /\ c.todo \in 1..2
    <3>1. c.at = "record" /\ expense[x] = Null
      BY <1>1, <1>11 DEF Books!RecordLine
    <3> QED
      BY <1>5, <3>1 DEF WorkFits, Works
  <2>2. CASE Books!Unique(x, c.line)
    <3>1. PICK d : d = [[c EXCEPT !.todo = c.todo - 1, !.x = x] EXCEPT !.at = "repost"]
      OBVIOUS
    <3>2. bookCall' = [bookCall EXCEPT ![p] = d] /\ expense' = [expense EXCEPT ![x] = c.line]
      BY <1>1, <1>11, <2>2, <3>1 DEF Books!RecordLine, Books!GoesTo
    <3>3. d = [at |-> "repost", todo |-> c.todo - 1, line |-> c.line, x |-> x]
      BY <1>5, <3>1 DEF Works
    <3>4. d \in Works /\ WorkFits(d) /\ d.at = "repost"
      BY <2>1, <3>3 DEF Works, WorkFits
    <3> QED
      BY <1>9, <2>1, <2>2, <3>2, <3>4
  <2>3. CASE ~ Books!Unique(x, c.line)
    BY <1>1, <1>7, <1>10, <1>11, <2>3 DEF Books!RecordLine, Books!GoesTo
  <2> QED
    BY <2>2, <2>3
<1>12. CASE Books!WriteLine(p)
  <2>1. c.at \in {"save", "delete", "sync"}
    BY <1>1, <1>12 DEF Books!WriteLine
  <2>2. c.x \in ExpenseIds /\ c.line \in Books!LineRecords \union {Removed} /\ c.todo = 0
    BY <1>5, <2>1 DEF WorkFits, Works
  <2>3. CASE c.line = Removed \/ Books!Unique(c.x, c.line)
    <3>1. PICK d : d = IF c.at = "sync" THEN Books!Idle
                       ELSE [c EXCEPT !.at = IF c.at = "save" THEN "repost" ELSE "unpost"]
      OBVIOUS
    <3>2. bookCall' = [bookCall EXCEPT ![p] = d] /\ expense' = [expense EXCEPT ![c.x] = c.line]
      BY <1>1, <1>12, <2>1, <2>3, <3>1 DEF Books!WriteLine, Books!GoesTo
    <3>3. d \in Works \union {Books!Idle} /\ (d \in Works => WorkFits(d))
          /\ d.at # "replace"
      <4>1. CASE c.at = "sync"
        BY <1>7, <3>1, <4>1
      <4>2. CASE c.at # "sync"
        <5>1. d \in Works /\ d.at \in {"repost", "unpost"} /\ d.x = c.x /\ d.todo = 0
          BY <1>5, <2>2, <3>1, <4>2 DEF Works
        <5> QED
          BY <2>2, <5>1 DEF WorkFits
      <4> QED
        BY <4>1, <4>2
    <3> QED
      BY <1>9, <2>2, <2>3, <3>2, <3>3
  <2>4. CASE ~ (c.line = Removed \/ Books!Unique(c.x, c.line))
    BY <1>1, <1>7, <1>10, <1>12, <2>4 DEF Books!WriteLine, Books!GoesTo
  <2> QED
    BY <2>3, <2>4
<1>13. ASSUME NEW x \in ExpenseIds, Books!InsertSalaryLine(p, x) PROVE BookInv(S, max)'
  <2>1. c.at \in {"salary", "hired"} /\ expense[x] = Null
    BY <1>1, <1>13 DEF Books!InsertSalaryLine
  <2>2. PICK l : l = Books!Line(TRUE, FALSE)
    OBVIOUS
  <2>3. l \in Books!LineRecords
    BY <2>2 DEF Books!Line, Books!LineRecords
  <2>4. CASE Books!Unique(x, l)
    <3>1. PICK d : d = IF c.at = "salary" THEN [[c EXCEPT !.x = x] EXCEPT !.at = "payslip"] ELSE Books!Idle
      OBVIOUS
    <3>2. bookCall' = [bookCall EXCEPT ![p] = d] /\ expense' = [expense EXCEPT ![x] = l]
      BY <1>1, <1>13, <2>1, <2>2, <2>4, <3>1 DEF Books!InsertSalaryLine, Books!GoesTo
    <3>3. c.at = "salary" => d = [at |-> "payslip", todo |-> c.todo, line |-> c.line, x |-> x]
      BY <1>5, <3>1 DEF Works
    <3>4. d \in Works \union {Books!Idle} /\ (d \in Works => WorkFits(d))
          /\ d.at # "replace"
      BY <1>5, <1>7, <2>1, <3>1, <3>3 DEF Works, WorkFits
    <3> QED
      BY <1>9, <2>1, <2>3, <2>4, <3>2, <3>4
  <2>5. CASE ~ Books!Unique(x, l)
    <3>1. PICK d : d = IF c.at = "salary" THEN [c EXCEPT !.at = "unlock"] ELSE Books!Idle
      OBVIOUS
    <3>2. bookCall' = [bookCall EXCEPT ![p] = d] /\ UNCHANGED expense
      BY <1>1, <1>13, <2>1, <2>2, <2>5, <3>1 DEF Books!InsertSalaryLine, Books!GoesTo
    <3>3. c.at = "salary" => d \in Works /\ d.at = "unlock"
      BY <1>5, <3>1 DEF Works
    <3>4. d \in Works \union {Books!Idle} /\ (d \in Works => WorkFits(d))
          /\ d.at # "replace"
      BY <1>7, <2>1, <3>1, <3>3 DEF WorkFits
    <3> QED
      BY <1>10, <3>2, <3>4
  <2> QED
    BY <2>4, <2>5
<1> QED
  BY <1>11, <1>12, <1>13

\* Entries are removed, none of them of the payroll, and the call goes on or posts.
LEMMA BookRemoves ==
  ASSUME NEW S, NEW max \in Nat, NEW p \in S, BookInv(S, max),
         Books!RepostExpense(p) \/ Books!RemoveExpenseEntry(p) \/ Books!ReplaceEntry(p) \/ Books!CreatePayslip(p)
  PROVE  BookInv(S, max)'
<1>1. PICK c : c = bookCall[p]
  OBVIOUS
<1>2. BookFits(c) /\ BookFound(c) /\ EntriesSound(max) /\ LinesSound
      /\ year \in {"OPEN", "CLOSED"} /\ payslip \subseteq ExpenseIds /\ lock \in S \union {Null}
  BY <1>1 DEF BookInv
<1>3. UNCHANGED <<expense, year, lock>> /\ c.at \in {"repost", "unpost", "replace", "payslip"}
  BY <1>1 DEF Books!RepostExpense, Books!RemoveExpenseEntry, Books!ReplaceEntry, Books!CreatePayslip, Books!financeRows
<1>4. c \in Works /\ c.x \in ExpenseIds /\ (c.at = "repost" /\ c.todo # 0 => c.line \in Books!LineRecords)
  <2>1. c \in Works
    BY <1>2, <1>3 DEF BookFits, BookCalls, Books!Idle, Postings
  <2> QED
    BY <1>2, <1>3, <2>1 DEF BookFits, WorkFits
<1>5. payslip' \subseteq ExpenseIds
  BY <1>1, <1>2, <1>4 DEF Books!RepostExpense, Books!RemoveExpenseEntry, Books!ReplaceEntry, Books!CreatePayslip,
     Books!financeRows
<1>6. entry' = entry \/ entry' = entry \ Books!EntriesOf("EXPENSE", c.x)
  BY <1>1 DEF Books!RepostExpense, Books!RemoveExpenseEntry, Books!ReplaceEntry, Books!CreatePayslip
<1>7. entry' \subseteq entry /\ \A e \in entry : e.source = "PAYROLL" => e \in entry'
  BY <1>6 DEF Books!EntriesOf
<1>8. EntriesSound(max)'
  <2>1. IsFiniteSet(entry')
    BY <1>2, <1>7, FS_Subset DEF EntriesSound
  <2> QED
    BY <1>2, <1>7, <2>1 DEF EntriesSound
<1>9. LinesSound'
  BY <1>2, <1>3 DEF LinesSound, Books!SalaryLines, Books!Lines
<1>10. ASSUME NEW source \in {"EXPENSE", "PAYROLL"}, NEW then \in {"next", "posted"},
              source = "EXPENSE" <=> then = "next", c.at = "repost" \/ then = "posted",
              bookCall' = [bookCall EXCEPT ![p] = Books!Posting(source, c.x, FALSE, then, c)]
       PROVE  BookInv(S, max)'
  <2>1. PICK d : d = Books!Posting(source, c.x, FALSE, then, c)
    OBVIOUS
  <2>2. d \in Postings /\ d.at = "check" /\ d.source = source /\ d.of = c.x /\ d.then = then /\ d.holds = c
        /\ ~ d.draft /\ ~ d.posted
    BY <1>4, <2>1, BookFacts DEF Postings, Books!Posting, Books!Sources
  <2>3. d \notin Works
    BY <2>2 DEF Works
  <2>4. BookFits(d) /\ BookFound(d)'
    BY <1>4, <1>10, <2>2, <2>3 DEF BookFits, BookFound, BookCalls, PostingFits
  <2> QED
    BY <1>2, <1>3, <1>5, <1>7, <1>8, <1>9, <1>10, <2>1, <2>4, BookGoes
<1>11. CASE Books!RepostExpense(p)
  BY <1>1, <1>10, <1>11 DEF Books!RepostExpense, Books!Posts
<1>12. CASE Books!CreatePayslip(p)
  BY <1>1, <1>10, <1>12 DEF Books!CreatePayslip, Books!Posts
<1>13. CASE Books!RemoveExpenseEntry(p) \/ Books!ReplaceEntry(p)
  <2>1. PICK d : d = IF c.at = "unpost" THEN Books!Idle ELSE [c EXCEPT !.at = "unlock"]
    OBVIOUS
  <2>2. bookCall' = [bookCall EXCEPT ![p] = d] /\ c.at \in {"unpost", "replace"}
    BY <1>1, <1>13, <2>1 DEF Books!RemoveExpenseEntry, Books!ReplaceEntry, Books!GoesTo
  <2>3. Books!Idle \in BookCalls /\ Books!Idle.at = "idle"
    BY DEF BookCalls, Books!Idle
  <2>4. d \in BookCalls /\ d.at \in {"idle", "unlock"}
    BY <1>4, <2>1, <2>3 DEF BookCalls, Works
  <2>5. BookFits(d) /\ BookFound(d)'
    <3>1. d \notin Postings
      BY <2>4 DEF Postings
    <3> QED
      BY <2>4, <3>1 DEF BookFits, BookFound, WorkFits
  <2> QED
    BY <1>2, <1>3, <1>5, <1>7, <1>8, <1>9, <2>2, <2>5, BookGoes
<1> QED
  BY <1>11, <1>12, <1>13

\* A call goes on with what it has.
LEMMA BookGoesOn ==
  ASSUME NEW S, NEW max \in Nat, NEW p \in S, BookInv(S, max),
         \/ Books!NextLine(p) \/ Books!PayrollPosted(p) \/ Books!FindSalaryLine(p) \/ Books!Unlock(p)
         \/ Books!FinanceCrash(p)
         \/ UNCHANGED Books!financeRows /\ (Books!SaveClosed(p) \/ Books!LedgerCrash(p))
  PROVE  BookInv(S, max)'
<1>1. PICK c : c = bookCall[p]
  OBVIOUS
<1>2. BookFits(c) /\ BookFound(c) /\ LinesSound
      /\ year \in {"OPEN", "CLOSED"} /\ payslip \subseteq ExpenseIds /\ lock \in S \union {Null}
  BY <1>1 DEF BookInv
<1>3. UNCHANGED <<entry, expense, payslip>> /\ year' \in {"OPEN", "CLOSED"} /\ lock' \in S \union {Null}
  <2>1. CASE Books!NextLine(p) \/ Books!PayrollPosted(p)
    BY <1>2, <2>1 DEF Books!NextLine, Books!PayrollPosted, Books!financeRows
  <2>2. CASE Books!FindSalaryLine(p)
    <3>1. UNCHANGED <<entry, year, Books!financeRows>>
      BY <2>2, Zenon DEF Books!FindSalaryLine
    <3> QED
      BY <1>2, <3>1 DEF Books!financeRows
  <2>3. CASE Books!Unlock(p) \/ Books!FinanceCrash(p)
    BY <1>2, <2>3 DEF Books!Unlock, Books!FinanceCrash, Books!LedgerCrash
  <2>4. CASE UNCHANGED Books!financeRows /\ (Books!SaveClosed(p) \/ Books!LedgerCrash(p))
    BY <1>2, <2>4 DEF Books!SaveClosed, Books!LedgerCrash, Books!financeRows
  <2> QED
    BY <2>1, <2>2, <2>3, <2>4
<1>4. ASSUME NEW d \in Works, WorkFits(d), bookCall' = [bookCall EXCEPT ![p] = d],
             d.at = "replace" => \E e \in entry : e.source = "PAYROLL" /\ e.of = d.x
      PROVE  BookInv(S, max)'
  <2>1. d \notin Postings /\ d.at # "posted"
    BY DEF Postings, Works
  <2> QED
    BY <1>2, <1>3, <1>4, <2>1, BookPasses DEF BookFits, BookCalls, BookFound
<1>5. CASE bookCall' = [bookCall EXCEPT ![p] = Books!Idle]
  BY <1>2, <1>3, <1>5, BookEnds
<1>6. CASE Books!NextLine(p)
  <2>1. c.at = "next" /\ Books!GoesTo(p, c.holds, IF c.holds.todo = 0 THEN "idle" ELSE "record")
    BY <1>1, <1>6 DEF Books!NextLine
  <2>2. c \in Postings
    BY <1>2, <2>1 DEF BookFits, BookCalls, Books!Idle, Works
  <2>3. c.holds \in Works /\ (c.holds.todo # 0 => c.holds.line \in Books!LineRecords)
    BY <1>2, <2>1, <2>2 DEF BookFits, PostingFits
  <2>4. CASE c.holds.todo # 0
    <3>1. PICK d : d = [c.holds EXCEPT !.at = "record"]
      OBVIOUS
    <3>2. d \in Works /\ d.at = "record" /\ d.todo = c.holds.todo /\ d.line = c.holds.line
      BY <2>3, <3>1 DEF Works
    <3>3. bookCall' = [bookCall EXCEPT ![p] = d]
      BY <2>1, <2>4, <3>1 DEF Books!GoesTo
    <3> QED
      BY <1>4, <2>3, <2>4, <3>2, <3>3 DEF WorkFits
  <2>5. CASE c.holds.todo = 0
    BY <1>5, <2>1, <2>5 DEF Books!GoesTo
  <2> QED
    BY <2>4, <2>5
<1>7. CASE Books!PayrollPosted(p)
  <2>1. c.at = "posted" /\ Books!GoesTo(p, c.holds, IF c.posted /\ c.holds.todo > 0 THEN "replace" ELSE "unlock")
    BY <1>1, <1>7 DEF Books!PayrollPosted
  <2>2. c \in Postings
    BY <1>2, <2>1 DEF BookFits, BookCalls, Books!Idle, Works
  <2>3. c.holds \in Works /\ c.holds.x = c.of /\ c.of \in ExpenseIds
    BY <1>2, <2>1, <2>2 DEF BookFits, PostingFits
  <2>4. PICK at \in {"replace", "unlock"} : Books!GoesTo(p, c.holds, at) /\ (at = "replace" => c.posted)
    BY <2>1
  <2>5. PICK d : d = [c.holds EXCEPT !.at = at]
    OBVIOUS
  <2>6. d \in Works /\ d.at = at /\ d.x = c.of
    BY <2>3, <2>5 DEF Works
  <2>7. bookCall' = [bookCall EXCEPT ![p] = d]
    BY <2>4, <2>5 DEF Books!GoesTo
  <2> QED
    BY <1>2, <1>4, <2>1, <2>3, <2>4, <2>6, <2>7 DEF WorkFits, BookFound
<1>8. CASE Books!FindSalaryLine(p)
  <2>1. c.at = "payroll"
    BY <1>1, <1>8, Zenon DEF Books!FindSalaryLine
  <2>2. c \in Works
    BY <1>2, <2>1 DEF BookFits, BookCalls, Books!Idle, Postings
  <2>3. CASE Books!GoesTo(p, c, "salary")
    <3>1. PICK d : d = [c EXCEPT !.at = "salary"]
      OBVIOUS
    <3>2. d \in Works /\ d.at = "salary"
      BY <2>2, <3>1 DEF Works
    <3> QED
      BY <1>4, <2>3, <3>1, <3>2 DEF WorkFits, Books!GoesTo
  <2>4. ASSUME NEW x \in Books!SalaryLines, NEW at \in {"unlock", "payslip"},
               Books!GoesTo(p, [c EXCEPT !.x = x, !.todo = 1], at)
        PROVE  BookInv(S, max)'
    <3>1. PICK d : d = [[c EXCEPT !.x = x, !.todo = 1] EXCEPT !.at = at]
      OBVIOUS
    <3>2. x \in ExpenseIds
      BY DEF Books!SalaryLines, Books!Lines
    <3>3. d = [at |-> at, todo |-> 1, line |-> c.line, x |-> x]
      BY <2>2, <3>1 DEF Works
    <3>4. d \in Works /\ d.at = at /\ d.x = x
      BY <2>2, <3>2, <3>3 DEF Works
    <3> QED
      BY <1>4, <2>4, <3>1, <3>2, <3>4 DEF WorkFits, Books!GoesTo
  <2> QED
    <3>1. ASSUME NEW x \in Books!SalaryLines,
                 Books!GoesTo(p, [c EXCEPT !.x = x, !.todo = 1], IF x \in payslip THEN "unlock" ELSE "payslip")
          PROVE  BookInv(S, max)'
      <4>1. PICK at : at = IF x \in payslip THEN "unlock" ELSE "payslip"
        OBVIOUS
      <4>2. Books!GoesTo(p, [c EXCEPT !.x = x, !.todo = 1], at)
        BY <3>1, <4>1, Zenon
      <4>3. at \in {"unlock", "payslip"}
        BY <4>1
      <4> QED
        BY <2>4, <4>2, <4>3, Zenon
    <3> QED
      BY <1>1, <1>8, <2>3, <3>1, Zenon DEF Books!FindSalaryLine
<1>9. CASE Books!Unlock(p) \/ Books!FinanceCrash(p) \/ Books!SaveClosed(p) \/ Books!LedgerCrash(p)
  BY <1>5, <1>9 DEF Books!Unlock, Books!FinanceCrash, Books!SaveClosed, Books!LedgerCrash, Books!GoesTo
<1> QED
  BY <1>6, <1>7, <1>8, <1>9

\* No call moves: the year is reopened, an entry validated, the month opened or closed.
LEMMA BookStands ==
  ASSUME NEW S, NEW max \in Nat, BookInv(S, max), UNCHANGED <<bookCall, expense, payslip, lock>>,
         \/ Books!ReopenFiscalYear \/ UNCHANGED <<entry, year>>
         \/ \E e \in entry : Books!ValidateDraftEntry(e)
  PROVE  BookInv(S, max)'
<1>1. /\ \A p \in S : BookFits(bookCall[p]) /\ BookFound(bookCall[p])
      /\ EntriesSound(max) /\ LinesSound /\ year \in {"OPEN", "CLOSED"}
  BY DEF BookInv
<1>2. LinesSound' /\ year' \in {"OPEN", "CLOSED"}
  BY <1>1 DEF LinesSound, Books!SalaryLines, Books!Lines, Books!ReopenFiscalYear, Books!ValidateDraftEntry
<1>3. EntriesSound(max)' /\ \A e \in entry : e.source = "PAYROLL" => e \in entry'
  <2>1. CASE UNCHANGED entry
    BY <1>1, <2>1 DEF EntriesSound
  <2>2. ASSUME NEW e \in entry, Books!ValidateDraftEntry(e)
        PROVE  EntriesSound(max)' /\ \A f \in entry : f.source = "PAYROLL" => f \in entry'
    <3>1. PICK g : g = [e EXCEPT !.draft = FALSE]
      OBVIOUS
    <3>2. e.source = "TAX" /\ g.number = e.number /\ g.source = e.source /\ ~ g.draft
          /\ g \in [number : 1..max, source : Books!Sources, of : Documents \union {Null}, draft : BOOLEAN]
      BY <1>1, <2>2, <3>1 DEF EntriesSound, Books!ValidateDraftEntry
    <3>3. entry' = (entry \ {e}) \union {g}
      BY <2>2, <3>1 DEF Books!ValidateDraftEntry
    <3>4. IsFiniteSet(entry')
      BY <1>1, <3>3, FS_RemoveElement, FS_AddElement DEF EntriesSound
    <3> QED
      BY <1>1, <3>2, <3>3, <3>4 DEF EntriesSound
  <2> QED
    BY <2>1, <2>2 DEF Books!ReopenFiscalYear
<1>4. ASSUME NEW p \in S PROVE BookFound(bookCall[p])'
  BY <1>1, <1>3 DEF BookFound
<1> QED
  BY <1>1, <1>2, <1>3, <1>4 DEF BookInv

\* The steps of the calls S, with numbers up to "max".
BookSteps(p, max) ==
  \/ (Books!CheckEntry(p) \/ Inserts(p, max)) /\ UNCHANGED Books!financeRows
  \/ BookStarts(p)
  \/ Books!WriteLine(p) \/ \E x \in ExpenseIds : Books!RecordLine(p, x) \/ Books!InsertSalaryLine(p, x)
  \/ Books!RepostExpense(p) \/ Books!RemoveExpenseEntry(p) \/ Books!ReplaceEntry(p) \/ Books!CreatePayslip(p)
  \/ Books!NextLine(p) \/ Books!PayrollPosted(p) \/ Books!FindSalaryLine(p) \/ Books!Unlock(p)
  \/ Books!FinanceCrash(p)
  \/ UNCHANGED Books!financeRows /\ (Books!SaveClosed(p) \/ Books!LedgerCrash(p))

BookPauses ==
  /\ UNCHANGED <<bookCall, expense, payslip, lock>>
  /\ Books!ReopenFiscalYear \/ UNCHANGED <<entry, year>> \/ \E e \in entry : Books!ValidateDraftEntry(e)

BooksNext(S, max) == (\E p \in S : BookSteps(p, max)) \/ BookPauses

LEMMA BookStep ==
  ASSUME NEW S, NEW max \in Nat, BookInv(S, max), BooksNext(S, max)
  PROVE  BookInv(S, max)'
<1>1. ASSUME NEW p \in S, BookSteps(p, max) PROVE BookInv(S, max)'
  BY <1>1, BookPosts, BookBegins, BookLines, BookRemoves, BookGoesOn DEF BookSteps
<1>2. CASE BookPauses
  BY <1>2, BookStands DEF BookPauses
<1> QED
  BY <1>1, <1>2 DEF BooksNext

LEMMA BookInit ==
  ASSUME NEW S, NEW max, entry = {}, year = "OPEN", bookCall = [p \in S |-> Books!Idle],
         expense = [x \in ExpenseIds |-> Null], payslip = {}, lock = Null
  PROVE  BookInv(S, max)
<1>1. Books!Idle \in BookCalls /\ Books!Idle.at = "idle"
  BY DEF BookCalls, Books!Idle
<1>2. Books!Idle \notin Works \union Postings
  BY <1>1 DEF Works, Postings
<1>3. EntriesSound(max)
  BY FS_EmptySet DEF EntriesSound
<1>4. LinesSound
  BY DEF LinesSound, Books!SalaryLines, Books!Lines
<1>5. BookFits(Books!Idle) /\ BookFound(Books!Idle)
  BY <1>1, <1>2 DEF BookFits, BookFound
<1> QED
  BY <1>1, <1>3, <1>4, <1>5 DEF BookInv

\* The calls of the ledger and of the payroll take these steps,
LEMMA BooksAreSteps ==
  /\ Books!LedgerNext /\ UNCHANGED Books!financeRows => BooksNext(Calls, MaxEntries)
  /\ Books!PayrollNext \/ (\E p \in Calls : Books!FinanceCrash(p)) => BooksNext(Calls, MaxEntries)
  /\ Books!FinanceNext => BooksNext(Calls, MaxEntries)
<1>1. \A p : Books!InsertEntry(p) => Inserts(p, MaxEntries)
  BY DEF Books!InsertEntry, Inserts
<1>2. ASSUME NEW p \in Calls, Books!Post(p), UNCHANGED Books!financeRows PROVE BookSteps(p, MaxEntries)
  BY <1>1, <1>2 DEF Books!Post, BookSteps
<1>3. ASSUME UNCHANGED Books!financeRows, Books!ReopenFiscalYear \/ \E e \in entry : Books!ValidateDraftEntry(e)
      PROVE  BookPauses
  BY <1>3 DEF BookPauses, Books!financeRows, Books!ReopenFiscalYear, Books!ValidateDraftEntry
<1>4. ASSUME NEW p \in Calls, UNCHANGED Books!financeRows,
             \/ \E profit \in {FALSE, Books!Profitable} : Books!CloseFiscalYear(p, profit)
             \/ Books!SaveClosed(p) \/ Books!LedgerCrash(p)
             \/ \E d \in Documents : Books!ManualEntry(p, d)
      PROVE  BookSteps(p, MaxEntries)
  <2>1. Books!Profitable \in BOOLEAN
    BY DEF Books!Profitable
  <2> QED
    BY <1>4, <2>1, Zenon DEF BookSteps, BookStarts
<1>5. Books!LedgerNext /\ UNCHANGED Books!financeRows => BooksNext(Calls, MaxEntries)
  BY <1>2, <1>3, <1>4, Zenon DEF Books!LedgerNext, Books!YearNext, BooksNext
<1>6. ASSUME NEW p \in Calls, Books!Record(p) PROVE BookSteps(p, MaxEntries)
  BY <1>2, <1>6 DEF Books!Record, Books!PostLine, BookSteps
<1>7. ASSUME NEW p \in Calls, Books!Expenses(p) PROVE BookSteps(p, MaxEntries)
  BY <1>6, <1>7 DEF Books!Expenses, BookSteps, BookStarts
<1>8. ASSUME NEW p \in Calls, Books!Payroll(p) PROVE BookSteps(p, MaxEntries)
  BY <1>6, <1>8 DEF Books!Payroll, Books!PayrollStep, BookSteps, BookStarts
<1>9. ASSUME NEW p \in Calls, Books!Corrections(p) PROVE BookSteps(p, MaxEntries)
  BY <1>9 DEF Books!Corrections, BookSteps, BookStarts
<1>10. ASSUME NEW p \in Calls,
              Books!Expenses(p) \/ Books!Corrections(p) \/ Books!Payroll(p) \/ Books!FinanceCrash(p)
       PROVE  BooksNext(Calls, MaxEntries)
  BY <1>7, <1>8, <1>9, <1>10, Zenon DEF BooksNext, BookSteps
<1>11. UNCHANGED Books!financeRows /\ Books!YearNext => BooksNext(Calls, MaxEntries)
  BY <1>3, <1>4, Zenon DEF Books!YearNext, BooksNext
<1>12. ASSUME NEW status, Books!SetPeriod(status) PROVE BooksNext(Calls, MaxEntries)
  BY <1>12 DEF Books!SetPeriod, BooksNext, BookPauses, Books!ledgerVars
<1>13. Books!FinanceNext => BooksNext(Calls, MaxEntries)
  BY <1>10, <1>11, <1>12, Zenon DEF Books!FinanceNext
<1> QED
  BY <1>5, <1>10, <1>13, Zenon DEF Books!PayrollNext

\* and so does a call of its own.
LEMMA AloneBooksAreSteps ==
  /\ BooksAlone!LedgerNext /\ UNCHANGED Books!financeRows => BooksNext({one}, MaxEntriesAlone)
  /\ BooksAlone!FinanceNext => BooksNext({one}, MaxEntriesAlone)
<1>1. BooksAlone!Idle = Books!Idle
  BY DEF BooksAlone!Idle, Books!Idle
<1>2. \A source, of, draft, then, holds : BooksAlone!Posting(source, of, draft, then, holds) = Books!Posting(source, of, draft, then, holds)
  BY DEF BooksAlone!Posting, Books!Posting
<1>3. BooksAlone!Draft = Books!Draft
  BY Zenon DEF BooksAlone!Draft, Books!Draft, BooksAlone!Posting, Books!Posting
<1>4. \A p, c : BooksAlone!Begins(p, c) <=> Books!Begins(p, c)
  BY <1>1 DEF BooksAlone!Begins, Books!Begins
<1>5. \A p, c, at : BooksAlone!GoesTo(p, c, at) <=> Books!GoesTo(p, c, at)
  BY <1>1 DEF BooksAlone!GoesTo, Books!GoesTo
<1>6. \A source, of : BooksAlone!EntriesOf(source, of) = Books!EntriesOf(source, of)
  BY DEF BooksAlone!EntriesOf, Books!EntriesOf
<1>7. \A p : BooksAlone!CheckEntry(p) <=> Books!CheckEntry(p)
  BY ZenonT(30) DEF BooksAlone!CheckEntry, Books!CheckEntry, BooksAlone!GoesTo, Books!GoesTo, BooksAlone!Idle, Books!Idle, BooksAlone!Cardinality, Books!Cardinality
<1>8. \A p, d : BooksAlone!ManualEntry(p, d) <=> Books!ManualEntry(p, d)
  BY Zenon DEF BooksAlone!ManualEntry, Books!ManualEntry, BooksAlone!Posting, Books!Posting, BooksAlone!Begins, Books!Begins, BooksAlone!Idle, Books!Idle
<1>9. BooksAlone!TaxEntries = Books!TaxEntries
  BY DEF BooksAlone!TaxEntries, Books!TaxEntries
<1>10. \A p, profit : BooksAlone!CloseFiscalYear(p, profit) <=> Books!CloseFiscalYear(p, profit)
  BY <1>9, <1>4, <1>3 DEF BooksAlone!CloseFiscalYear, Books!CloseFiscalYear
<1>11. \A p : BooksAlone!SaveClosed(p) <=> Books!SaveClosed(p)
  BY <1>5 DEF BooksAlone!SaveClosed, Books!SaveClosed
<1>12. BooksAlone!ReopenFiscalYear <=> Books!ReopenFiscalYear
  BY DEF BooksAlone!ReopenFiscalYear, Books!ReopenFiscalYear
<1>13. \A e : BooksAlone!ValidateDraftEntry(e) <=> Books!ValidateDraftEntry(e)
  BY DEF BooksAlone!ValidateDraftEntry, Books!ValidateDraftEntry
<1>14. \A p : BooksAlone!LedgerCrash(p) <=> Books!LedgerCrash(p)
  BY <1>1 DEF BooksAlone!LedgerCrash, Books!LedgerCrash
<1>15. UNCHANGED BooksAlone!financeRows <=> UNCHANGED Books!financeRows
  BY DEF BooksAlone!financeRows, Books!financeRows
<1>16. BooksAlone!Lines = Books!Lines
  BY DEF BooksAlone!Lines, Books!Lines
<1>17. BooksAlone!SalaryLines = Books!SalaryLines
  BY <1>16 DEF BooksAlone!SalaryLines, Books!SalaryLines
<1>18. \A salary, reverses : BooksAlone!Line(salary, reverses) = Books!Line(salary, reverses)
  BY DEF BooksAlone!Line, Books!Line
<1>19. \A todo, line : BooksAlone!Recording(todo, line) = Books!Recording(todo, line)
  BY DEF BooksAlone!Recording, Books!Recording
<1>20. \A x, line, at : BooksAlone!On(x, line, at) = Books!On(x, line, at)
  BY DEF BooksAlone!On, Books!On
<1>21. \A p, source, x, then : BooksAlone!Posts(p, source, x, then) <=> Books!Posts(p, source, x, then)
  BY Zenon DEF BooksAlone!Posts, Books!Posts, BooksAlone!Posting, Books!Posting
<1>22. \A p, salary : BooksAlone!CreateExpense(p, salary) <=> Books!CreateExpense(p, salary)
  BY <1>17, <1>4, <1>19, <1>18, <1>15 DEF BooksAlone!CreateExpense, Books!CreateExpense, BooksAlone!financeRows, Books!financeRows
<1>23. \A p, todo, salary : BooksAlone!CorrectExpense(p, todo, salary) <=> Books!CorrectExpense(p, todo, salary)
  BY <1>15, Zenon
     DEF BooksAlone!CorrectExpense, Books!CorrectExpense, BooksAlone!Begins, Books!Begins, BooksAlone!Idle, Books!Idle, BooksAlone!Recording, Books!Recording,
         BooksAlone!Line, Books!Line
<1>24. \A p, x, salary : BooksAlone!UpdateExpense(p, x, salary) <=> Books!UpdateExpense(p, x, salary)
  BY <1>16, <1>4, <1>20, <1>15 DEF BooksAlone!UpdateExpense, Books!UpdateExpense, BooksAlone!financeRows, Books!financeRows
<1>25. \A p, x : BooksAlone!RemoveExpense(p, x) <=> Books!RemoveExpense(p, x)
  BY <1>16, <1>4, <1>20, <1>15 DEF BooksAlone!RemoveExpense, Books!RemoveExpense, BooksAlone!financeRows, Books!financeRows
<1>26. \A x, line : BooksAlone!Unique(x, line) <=> Books!Unique(x, line)
  BY <1>17 DEF BooksAlone!Unique, Books!Unique
<1>27. \A p, x : BooksAlone!RecordLine(p, x) <=> Books!RecordLine(p, x)
  BY <1>26, <1>5 DEF BooksAlone!RecordLine, Books!RecordLine
<1>28. \A p : BooksAlone!WriteLine(p) <=> Books!WriteLine(p)
  BY <1>16, <1>26, <1>5 DEF BooksAlone!WriteLine, Books!WriteLine
<1>29. \A p : BooksAlone!RepostExpense(p) <=> Books!RepostExpense(p)
  BY <1>6, <1>21, <1>15 DEF BooksAlone!RepostExpense, Books!RepostExpense, BooksAlone!financeRows, Books!financeRows
<1>30. \A p : BooksAlone!NextLine(p) <=> Books!NextLine(p)
  BY <1>5, <1>15 DEF BooksAlone!NextLine, Books!NextLine, BooksAlone!financeRows, Books!financeRows
<1>31. \A p : BooksAlone!RemoveExpenseEntry(p) <=> Books!RemoveExpenseEntry(p)
  BY <1>6, <1>5, <1>15 DEF BooksAlone!RemoveExpenseEntry, Books!RemoveExpenseEntry, BooksAlone!financeRows, Books!financeRows
<1>32. \A p, salary : BooksAlone!SyncSalary(p, salary) <=> Books!SyncSalary(p, salary)
  BY <1>17, <1>4, <1>20, <1>15 DEF BooksAlone!SyncSalary, Books!SyncSalary, BooksAlone!financeRows, Books!financeRows
<1>33. \A p : BooksAlone!StartRun(p) <=> Books!StartRun(p)
  BY <1>4, <1>20 DEF BooksAlone!StartRun, Books!StartRun
<1>34. \A p : BooksAlone!FindSalaryLine(p) <=> Books!FindSalaryLine(p)
  BY <1>5, <1>15, <1>17, Zenon DEF BooksAlone!FindSalaryLine, Books!FindSalaryLine
<1>35. \A p, x : BooksAlone!InsertSalaryLine(p, x) <=> Books!InsertSalaryLine(p, x)
  BY <1>26, <1>18, <1>5 DEF BooksAlone!InsertSalaryLine, Books!InsertSalaryLine
<1>36. \A p : BooksAlone!CreatePayslip(p) <=> Books!CreatePayslip(p)
  BY <1>21 DEF BooksAlone!CreatePayslip, Books!CreatePayslip
<1>37. \A p : BooksAlone!PayrollPosted(p) <=> Books!PayrollPosted(p)
  BY <1>5, <1>15 DEF BooksAlone!PayrollPosted, Books!PayrollPosted, BooksAlone!financeRows, Books!financeRows
<1>38. \A p : BooksAlone!ReplaceEntry(p) <=> Books!ReplaceEntry(p)
  BY <1>6, <1>5, <1>15 DEF BooksAlone!ReplaceEntry, Books!ReplaceEntry, BooksAlone!financeRows, Books!financeRows
<1>39. \A p : BooksAlone!Unlock(p) <=> Books!Unlock(p)
  BY <1>5 DEF BooksAlone!Unlock, Books!Unlock
<1>40. \A p : BooksAlone!FinanceCrash(p) <=> Books!FinanceCrash(p)
  BY <1>14 DEF BooksAlone!FinanceCrash, Books!FinanceCrash
<1>41. \A p : BooksAlone!InsertEntry(p) => Inserts(p, MaxEntriesAlone)
  BY <1>5 DEF BooksAlone!InsertEntry, Inserts
<1>42. ASSUME NEW p, BooksAlone!Post(p), UNCHANGED Books!financeRows PROVE BookSteps(p, MaxEntriesAlone)
  BY <1>7, <1>41, <1>42 DEF BooksAlone!Post, BookSteps
<1>43. ASSUME UNCHANGED Books!financeRows, BooksAlone!ReopenFiscalYear \/ \E e \in entry : BooksAlone!ValidateDraftEntry(e)
       PROVE  BookPauses
  BY <1>12, <1>13, <1>43 DEF BookPauses, Books!financeRows, Books!ReopenFiscalYear, Books!ValidateDraftEntry
<1>44. ASSUME NEW p, UNCHANGED Books!financeRows,
              \/ \E profit \in {FALSE, BooksAlone!Profitable} : BooksAlone!CloseFiscalYear(p, profit)
              \/ BooksAlone!SaveClosed(p) \/ BooksAlone!LedgerCrash(p)
              \/ \E d \in Documents : BooksAlone!ManualEntry(p, d)
       PROVE  BookSteps(p, MaxEntriesAlone)
  <2>1. BooksAlone!Profitable \in BOOLEAN
    BY DEF BooksAlone!Profitable
  <2> QED
    BY <1>8, <1>10, <1>11, <1>14, <1>44, <2>1, Zenon DEF BookSteps, BookStarts
<1>45. UNCHANGED Books!financeRows /\ (BooksAlone!LedgerNext \/ BooksAlone!YearNext) =>
         BooksNext({one}, MaxEntriesAlone)
  BY <1>42, <1>43, <1>44, Zenon DEF BooksAlone!LedgerNext, BooksAlone!YearNext, BooksNext
<1>46. ASSUME NEW p, BooksAlone!Record(p) PROVE BookSteps(p, MaxEntriesAlone)
  <2>1. CASE BooksAlone!PostLine(p)
    BY <1>15, <1>42, <2>1 DEF BooksAlone!PostLine
  <2>2. CASE BooksAlone!WriteLine(p) \/ BooksAlone!RepostExpense(p) \/ BooksAlone!NextLine(p)
             \/ BooksAlone!RemoveExpenseEntry(p) \/ \E x \in ExpenseIds : BooksAlone!RecordLine(p, x)
    BY <1>27, <1>28, <1>29, <1>30, <1>31, <2>2, Zenon DEF BookSteps
  <2> QED
    BY <1>46, <2>1, <2>2 DEF BooksAlone!Record
<1>47. ASSUME NEW p, BooksAlone!Expenses(p) \/ BooksAlone!Corrections(p) PROVE BookSteps(p, MaxEntriesAlone)
  BY <1>22, <1>23, <1>24, <1>25, <1>46, <1>47
     DEF BooksAlone!Expenses, BooksAlone!Corrections, BookSteps, BookStarts
<1>48. ASSUME NEW p, BooksAlone!Payroll(p) \/ BooksAlone!FinanceCrash(p) PROVE BookSteps(p, MaxEntriesAlone)
  BY <1>32, <1>33, <1>34, <1>35, <1>36, <1>37, <1>38, <1>39, <1>40, <1>46, <1>48
     DEF BooksAlone!Payroll, BooksAlone!PayrollStep, BookSteps, BookStarts
<1>49. ASSUME NEW status, BooksAlone!SetPeriod(status) PROVE BookPauses
  BY <1>49 DEF BooksAlone!SetPeriod, BookPauses, BooksAlone!ledgerVars
<1> QED
  <2>1. ASSUME NEW p \in {one}, BooksAlone!Expenses(p) \/ BooksAlone!Corrections(p) \/ BooksAlone!Payroll(p)
                                \/ BooksAlone!FinanceCrash(p)
        PROVE  BooksNext({one}, MaxEntriesAlone)
    BY <1>47, <1>48, <2>1, Zenon DEF BooksNext
  <2>2. BookPauses => BooksNext({one}, MaxEntriesAlone)
    BY DEF BooksNext
  <2> QED
    BY <1>15, <1>45, <1>49, <2>1, <2>2, Zenon DEF BooksAlone!FinanceNext

(***************************************************************************)
(* With one call at a time: what is about to be posted has no entry yet, a *)
(* year that is about to be closed has no draft, and it stays open while   *)
(* an entry is inserted.                                                   *)
(***************************************************************************)

NoDraft == \A e \in entry : ~ e.draft

AloneBooks ==
  /\ \A e, f \in entry : e.source = f.source /\ (e.source = "TAX" \/ (e.source = "EXPENSE" /\ e.of = f.of)) => e = f
  /\ bookCall[one].at \in {"check", "insert"} =>
       /\ bookCall[one].source = "EXPENSE" => \A e \in entry : e.source = "EXPENSE" => e.of # bookCall[one].of
       /\ bookCall[one].source = "TAX" => \A e \in entry : e.source # "TAX"
  /\ bookCall[one].at = "insert" => year = "OPEN"
  /\ bookCall[one].at = "close" => NoDraft
  /\ year = "CLOSED" => NoDraft

\* A call that neither posts nor closes the year.
LEMMA AloneStands ==
  ASSUME AloneBooks, entry' \subseteq entry, year' = year, bookCall'[one].at \notin {"check", "insert", "close"}
  PROVE  AloneBooks'
BY DEF AloneBooks, NoDraft

\* The call is at the stage it goes to.
LEMMA BookSetsAt ==
  ASSUME NEW max, BookInv({one}, max), NEW c, "at" \in DOMAIN c, NEW at, Books!GoesTo(one, c, at)
  PROVE  bookCall'[one].at = at
<1>1. DOMAIN bookCall = {one}
  BY DEF BookInv
<1>2. PICK d : d = IF at = "idle" THEN Books!Idle ELSE [c EXCEPT !.at = at]
  OBVIOUS
<1>3. d.at = at
  BY <1>2 DEF Books!Idle
<1>4. bookCall' = [bookCall EXCEPT ![one] = d]
  BY <1>2 DEF Books!GoesTo
<1> QED
  BY <1>1, <1>3, <1>4

LEMMA AlonePosts ==
  ASSUME NEW max \in Nat, BookInv({one}, max), AloneBooks, Books!CheckEntry(one) \/ Inserts(one, max)
  PROVE  AloneBooks'
<1>1. PICK c : c = bookCall[one]
  OBVIOUS
<1>2. BookFits(c) /\ c.at \in {"check", "insert"} /\ EntriesSound(max) /\ DOMAIN bookCall = {one}
      /\ year \in {"OPEN", "CLOSED"}
  BY <1>1 DEF BookInv, Books!CheckEntry, Inserts
<1>3. c \in Postings /\ PostingFits(c)
  BY <1>2 DEF BookFits, BookCalls, Books!Idle, Works
<1>4. c.then \in {"idle", "next", "posted"} /\ "at" \in DOMAIN c
  BY <1>3 DEF Postings
<1>5. CASE Books!CheckEntry(one) /\ year = "CLOSED"
  <2>1. Books!GoesTo(one, c, c.then) /\ UNCHANGED <<entry, year>>
    BY <1>1, <1>5 DEF Books!CheckEntry
  <2> QED
    BY <1>3, <1>4, <2>1, BookSetsAt, AloneStands
<1>6. CASE Books!CheckEntry(one) /\ year # "CLOSED"
  <2>1. PICK d : d = [[c EXCEPT !.number = Cardinality(entry) + 1] EXCEPT !.at = "insert"]
    OBVIOUS
  <2>2. bookCall' = [bookCall EXCEPT ![one] = d] /\ UNCHANGED <<entry, year>> /\ c.at = "check"
    BY <1>1, <1>6, <2>1 DEF Books!CheckEntry, Books!GoesTo, Books!Cardinality, Cardinality
  <2>3. d.at = "insert" /\ d.source = c.source /\ d.of = c.of
    BY <1>3, <2>1 DEF Postings
  <2>4. bookCall'[one] = d
    BY <1>2, <2>2
  <2> QED
    BY <1>1, <1>2, <1>6, <2>2, <2>3, <2>4 DEF AloneBooks, NoDraft
<1>7. CASE Inserts(one, max)
  <2>1. PICK free \in BOOLEAN : free <=> \A e \in entry : e.number # c.number
    OBVIOUS
  <2>2. PICK new : new = [number |-> c.number, source |-> c.source, of |-> c.of, draft |-> c.draft]
    OBVIOUS
  <2>3. /\ entry' = (IF free THEN entry \union {new} ELSE entry) /\ UNCHANGED year
        /\ Books!GoesTo(one, [c EXCEPT !.posted = free], c.then) /\ c.at = "insert"
    BY <1>1, <1>7, <2>1, <2>2 DEF Inserts
  <2>4. "at" \in DOMAIN [c EXCEPT !.posted = free]
    BY <1>4
  <2>5. bookCall'[one].at \in {"idle", "next", "posted"}
    BY <1>4, <2>3, <2>4, BookSetsAt
  <2>6. year = "OPEN"
    BY <1>1, <2>3 DEF AloneBooks
  <2>7. \A e, f \in entry' : e.source = f.source /\ (e.source = "TAX" \/ (e.source = "EXPENSE" /\ e.of = f.of)) => e = f
    BY <1>1, <2>2, <2>3 DEF AloneBooks
  <2> QED
    BY <2>3, <2>5, <2>6, <2>7 DEF AloneBooks, NoDraft
<1> QED
  BY <1>2, <1>5, <1>6, <1>7

LEMMA AloneBegins ==
  ASSUME NEW max \in Nat, BookInv({one}, max), AloneBooks, BookStarts(one)
  PROVE  AloneBooks'
<1>1. UNCHANGED <<entry, year>> /\ DOMAIN bookCall = {one} /\ EntriesSound(max)
  BY DEF BookInv, BookStarts, Books!ManualEntry, Books!CloseFiscalYear, Books!CreateExpense, Books!SyncSalary,
     Books!CorrectExpense, Books!UpdateExpense, Books!RemoveExpense, Books!StartRun, Books!financeRows
<1>2. ASSUME NEW c, Books!Begins(one, c), c.at \notin {"check", "insert", "close"} PROVE AloneBooks'
  <2>1. bookCall'[one] = c
    BY <1>1, <1>2 DEF Books!Begins
  <2> QED
    BY <1>1, <1>2, <2>1, AloneStands
<1>3. CASE \E d \in Documents : Books!ManualEntry(one, d)
  <2>1. PICK d \in Documents : Books!Begins(one, Books!Posting("MANUAL", d, FALSE, "idle", Null))
    BY <1>3 DEF Books!ManualEntry
  <2>2. PICK c : c = Books!Posting("MANUAL", d, FALSE, "idle", Null)
    OBVIOUS
  <2>3. c.at = "check" /\ c.source = "MANUAL"
    BY <2>2 DEF Books!Posting
  <2>4. bookCall'[one] = c
    BY <1>1, <2>1, <2>2 DEF Books!Begins
  <2> QED
    BY <1>1, <2>3, <2>4 DEF AloneBooks, NoDraft
<1>4. CASE \E profit \in BOOLEAN : Books!CloseFiscalYear(one, profit)
  <2>1. \/ Books!TaxEntries = {} /\ (Books!Begins(one, Books!Draft) \/ Books!Begins(one, [at |-> "close"]))
        \/ (\E e \in Books!TaxEntries : ~ e.draft) /\ Books!Begins(one, [at |-> "close"])
    BY <1>4 DEF Books!CloseFiscalYear
  <2>2. CASE Books!Begins(one, Books!Draft) /\ Books!TaxEntries = {}
    <3>1. PICK c : c = Books!Draft
      OBVIOUS
    <3>2. c.at = "check" /\ c.source = "TAX"
      BY <3>1 DEF Books!Draft, Books!Posting
    <3>3. bookCall'[one] = c
      BY <1>1, <2>2, <3>1 DEF Books!Begins
    <3> QED
      BY <1>1, <2>2, <3>2, <3>3 DEF AloneBooks, NoDraft, Books!TaxEntries
  <2>3. CASE Books!Begins(one, [at |-> "close"]) /\ NoDraft
    <3>1. bookCall'[one] = [at |-> "close"]
      BY <1>1, <2>3 DEF Books!Begins
    <3> QED
      BY <1>1, <2>3, <3>1 DEF AloneBooks, NoDraft
  <2>4. Books!TaxEntries = {} => NoDraft
    BY <1>1 DEF Books!TaxEntries, NoDraft, EntriesSound
  <2>5. (\E e \in Books!TaxEntries : ~ e.draft) => NoDraft
    BY <1>1 DEF Books!TaxEntries, NoDraft, EntriesSound, AloneBooks
  <2> QED
    BY <2>1, <2>2, <2>3, <2>4, <2>5
<1>5. ASSUME NEW salary \in BOOLEAN, NEW todo \in {1, 2},
             Books!CreateExpense(one, salary) \/ Books!CorrectExpense(one, todo, salary)
      PROVE  AloneBooks'
  <2>1. PICK n, l : Books!Begins(one, Books!Recording(n, l))
    BY <1>5 DEF Books!CreateExpense, Books!CorrectExpense
  <2>2. Books!Recording(n, l).at = "record"
    BY DEF Books!Recording
  <2> QED
    BY <1>2, <2>1, <2>2
<1>6. \A x, l, at : Books!On(x, l, at).at = at
  BY DEF Books!On
<1>7. ASSUME NEW x \in ExpenseIds,
             Books!RemoveExpense(one, x) \/ \E salary \in BOOLEAN : Books!UpdateExpense(one, x, salary)
      PROVE  AloneBooks'
  <2>1. PICK l : Books!Begins(one, Books!On(x, l, "save")) \/ Books!Begins(one, Books!On(x, l, "delete"))
    BY <1>7 DEF Books!UpdateExpense, Books!RemoveExpense
  <2> QED
    BY <1>2, <1>6, <2>1
<1>8. ASSUME NEW salary \in BOOLEAN, Books!SyncSalary(one, salary) PROVE AloneBooks'
  <2>1. \E x, l : Books!Begins(one, Books!On(x, l, "hired")) \/ Books!Begins(one, Books!On(x, l, "sync"))
    BY <1>8, Zenon DEF Books!SyncSalary
  <2>2. PICK x, l : Books!Begins(one, Books!On(x, l, "hired")) \/ Books!Begins(one, Books!On(x, l, "sync"))
    BY <2>1
  <2> QED
    BY <1>2, <1>6, <2>2
<1>9. CASE Books!StartRun(one)
  BY <1>2, <1>6, <1>9 DEF Books!StartRun
<1> QED
  BY <1>3, <1>4, <1>5, <1>7, <1>8, <1>9 DEF BookStarts

LEMMA AloneGoesOn ==
  ASSUME NEW max \in Nat, BookInv({one}, max), AloneBooks,
         \/ Books!WriteLine(one) \/ \E x \in ExpenseIds : Books!RecordLine(one, x) \/ Books!InsertSalaryLine(one, x)
         \/ Books!RemoveExpenseEntry(one) \/ Books!ReplaceEntry(one)
         \/ Books!NextLine(one) \/ Books!PayrollPosted(one) \/ Books!FindSalaryLine(one) \/ Books!Unlock(one)
         \/ Books!FinanceCrash(one) \/ Books!LedgerCrash(one)
  PROVE  AloneBooks'
<1>1. PICK c : c = bookCall[one]
  OBVIOUS
<1>2. BookFits(c) /\ "at" \in DOMAIN c /\ DOMAIN bookCall = {one}
  BY <1>1 DEF BookInv, BookFits, BookCalls, Works, Postings, Books!Idle
<1>3. ASSUME NEW d, "at" \in DOMAIN d, NEW at, Books!GoesTo(one, d, at), at \notin {"check", "insert", "close"},
             entry' \subseteq entry, UNCHANGED year
      PROVE  AloneBooks'
  BY <1>3, BookSetsAt, AloneStands
<1>4. CASE Books!WriteLine(one)
  <2>1. PICK at \in {"repost", "unpost", "idle"} : Books!GoesTo(one, c, at)
    BY <1>1, <1>4 DEF Books!WriteLine
  <2> QED
    BY <1>2, <1>3, <1>4, <2>1 DEF Books!WriteLine
<1>5. ASSUME NEW x \in ExpenseIds, Books!RecordLine(one, x) PROVE AloneBooks'
  <2>1. Books!GoesTo(one, [c EXCEPT !.todo = c.todo - 1, !.x = x], "repost") \/ Books!GoesTo(one, c, "idle")
    BY <1>1, <1>5, Zenon DEF Books!RecordLine
  <2>2. UNCHANGED <<entry, year>>
    BY <1>5, Zenon DEF Books!RecordLine
  <2>3. Books!GoesTo(one, c, "idle") => AloneBooks'
    BY <1>2, <1>3, <2>2
  <2>4. PICK d : d = [c EXCEPT !.todo = c.todo - 1, !.x = x]
    OBVIOUS
  <2>5. "at" \in DOMAIN d
    BY <1>2, <2>4
  <2>6. Books!GoesTo(one, d, "repost") => AloneBooks'
    BY <1>3, <2>5, <2>2
  <2> QED
    BY <2>1, <2>3, <2>4, <2>6, Zenon
<1>6. ASSUME NEW x \in ExpenseIds, Books!InsertSalaryLine(one, x) PROVE AloneBooks'
  <2>1. PICK d : d = [c EXCEPT !.x = x]
    OBVIOUS
  <2>2. \E at \in {"payslip", "unlock", "idle"} : Books!GoesTo(one, d, at) \/ Books!GoesTo(one, c, at)
    <3>1. PICK run : run = (c.at = "salary")
      OBVIOUS
    <3>2. \/ Books!GoesTo(one, d, IF c.at = "salary" THEN "payslip" ELSE "idle")
          \/ Books!GoesTo(one, c, IF c.at = "salary" THEN "unlock" ELSE "idle")
      BY <1>1, <1>6, <2>1, Zenon DEF Books!InsertSalaryLine
    <3> QED
      BY <3>2
  <2>3. "at" \in DOMAIN d
    BY <1>2, <2>1
  <2>4. UNCHANGED <<entry, year>>
    BY <1>6 DEF Books!InsertSalaryLine
  <2> QED
    BY <1>2, <1>3, <2>2, <2>3, <2>4
<1>7. CASE Books!RemoveExpenseEntry(one) \/ Books!ReplaceEntry(one)
  <2>1. PICK at \in {"idle", "unlock"} : Books!GoesTo(one, c, at)
    BY <1>1, <1>7 DEF Books!RemoveExpenseEntry, Books!ReplaceEntry
  <2> QED
    BY <1>2, <1>3, <1>7, <2>1 DEF Books!RemoveExpenseEntry, Books!ReplaceEntry
<1>8. CASE Books!NextLine(one) \/ Books!PayrollPosted(one)
  <2>1. /\ c.at \in {"next", "posted"} /\ UNCHANGED <<entry, year>>
        /\ \E at \in {"idle", "record", "replace", "unlock"} : Books!GoesTo(one, c.holds, at)
    BY <1>1, <1>8 DEF Books!NextLine, Books!PayrollPosted
  <2>2. c \in Postings
    BY <1>2, <2>1 DEF BookFits, BookCalls, Books!Idle, Works
  <2>3. "at" \in DOMAIN c.holds
    BY <1>2, <2>1, <2>2 DEF BookFits, PostingFits, Works
  <2> QED
    BY <1>3, <2>1, <2>3
<1>9. CASE Books!FindSalaryLine(one)
  <2>1. UNCHANGED <<entry, year>>
    BY <1>9, Zenon DEF Books!FindSalaryLine
  <2>2. \/ Books!GoesTo(one, c, "salary")
        \/ \E x, at : at \in {"unlock", "payslip"} /\ Books!GoesTo(one, [c EXCEPT !.x = x, !.todo = 1], at)
    <3>1. ASSUME NEW x \in Books!SalaryLines,
                 Books!GoesTo(one, [c EXCEPT !.x = x, !.todo = 1], IF x \in payslip THEN "unlock" ELSE "payslip")
          PROVE  \E at : at \in {"unlock", "payslip"} /\ Books!GoesTo(one, [c EXCEPT !.x = x, !.todo = 1], at)
      <4>1. PICK at : at = IF x \in payslip THEN "unlock" ELSE "payslip"
        OBVIOUS
      <4>2. Books!GoesTo(one, [c EXCEPT !.x = x, !.todo = 1], at)
        BY <3>1, <4>1, Zenon
      <4>3. at \in {"unlock", "payslip"}
        BY <4>1
      <4> QED
        BY <4>2, <4>3, Zenon
    <3> QED
      BY <1>1, <1>9, <3>1, Zenon DEF Books!FindSalaryLine
  <2>3. CASE Books!GoesTo(one, c, "salary")
    BY <1>2, <1>3, <2>1, <2>3
  <2>4. ASSUME NEW x, NEW at \in {"unlock", "payslip"}, Books!GoesTo(one, [c EXCEPT !.x = x, !.todo = 1], at)
        PROVE  AloneBooks'
    <3>1. PICK d : d = [c EXCEPT !.x = x, !.todo = 1]
      OBVIOUS
    <3>2. Books!GoesTo(one, d, at)
      BY <2>4, <3>1, Zenon
    <3>3. "at" \in DOMAIN d
      BY <1>2, <3>1
    <3> QED
      BY <1>3, <2>1, <3>2, <3>3
  <2> QED
    BY <2>2, <2>3, <2>4, Zenon
<1>10. CASE Books!Unlock(one)
  BY <1>1, <1>2, <1>3, <1>10 DEF Books!Unlock
<1>11. CASE Books!FinanceCrash(one) \/ Books!LedgerCrash(one)
  <2>1. bookCall'[one] = Books!Idle /\ UNCHANGED <<entry, year>>
    BY <1>2, <1>11 DEF Books!FinanceCrash, Books!LedgerCrash
  <2> QED
    BY <2>1, AloneStands DEF Books!Idle
<1> QED
  BY <1>4, <1>5, <1>6, <1>7, <1>8, <1>9, <1>10, <1>11

LEMMA AloneReposts ==
  ASSUME NEW max \in Nat, BookInv({one}, max), AloneBooks,
         Books!RepostExpense(one) \/ Books!CreatePayslip(one) \/ Books!SaveClosed(one)
  PROVE  AloneBooks'
<1>1. PICK c : c = bookCall[one]
  OBVIOUS
<1>2. DOMAIN bookCall = {one} /\ BookFits(c)
  BY <1>1 DEF BookInv
<1>3. CASE Books!RepostExpense(one)
  <2>1. bookCall'[one] = Books!Posting("EXPENSE", c.x, FALSE, "next", c)
    BY <1>1, <1>2, <1>3 DEF Books!RepostExpense, Books!Posts
  <2>2. entry' = entry \ Books!EntriesOf("EXPENSE", c.x) /\ UNCHANGED year
    BY <1>1, <1>3 DEF Books!RepostExpense
  <2> QED
    BY <2>1, <2>2 DEF AloneBooks, NoDraft, Books!Posting, Books!EntriesOf
<1>4. CASE Books!CreatePayslip(one)
  <2>1. bookCall'[one] = Books!Posting("PAYROLL", c.x, FALSE, "posted", c) /\ UNCHANGED <<entry, year>>
    BY <1>1, <1>2, <1>4 DEF Books!CreatePayslip, Books!Posts
  <2> QED
    BY <2>1 DEF AloneBooks, NoDraft, Books!Posting
<1>5. CASE Books!SaveClosed(one)
  <2>1. bookCall'[one] = Books!Idle /\ year' = "CLOSED" /\ UNCHANGED entry /\ bookCall[one].at = "close"
    BY <1>2, <1>5 DEF Books!SaveClosed, Books!GoesTo
  <2> QED
    BY <2>1 DEF AloneBooks, NoDraft, Books!Idle
<1> QED
  BY <1>3, <1>4, <1>5

LEMMA AloneBooksStep ==
  ASSUME NEW max \in Nat, BookInv({one}, max), AloneBooks, BooksNext({one}, max)
  PROVE  AloneBooks'
<1>1. CASE BookSteps(one, max)
  BY <1>1, AlonePosts, AloneBegins, AloneGoesOn, AloneReposts DEF BookSteps
<1>2. CASE BookPauses
  <2>1. CASE Books!ReopenFiscalYear \/ UNCHANGED <<entry, year>>
    BY <1>2, <2>1 DEF BookPauses, Books!ReopenFiscalYear, AloneBooks, NoDraft
  <2>2. ASSUME NEW e \in entry, Books!ValidateDraftEntry(e) PROVE AloneBooks'
    <3>1. PICK g : g = [e EXCEPT !.draft = FALSE]
      OBVIOUS
    <3>2. EntriesSound(max)
      BY DEF BookInv
    <3>3. e.source = "TAX" /\ g.source = "TAX" /\ ~ g.draft
      BY <2>2, <3>1, <3>2 DEF EntriesSound, Books!ValidateDraftEntry
    <3>4. entry' = (entry \ {e}) \union {g} /\ UNCHANGED <<year, bookCall>>
      BY <1>2, <2>2, <3>1 DEF Books!ValidateDraftEntry, BookPauses
    <3> QED
      BY <3>3, <3>4 DEF AloneBooks, NoDraft
  <2> QED
    BY <1>2, <2>1, <2>2 DEF BookPauses
<1> QED
  BY <1>1, <1>2 DEF BooksNext

(***************************************************************************)
(* Whatever calls race and crash: only the run that holds the lock of the  *)
(* payroll makes payslips and posts them, each for a line that had none.   *)
(***************************************************************************)

Running(c) ==
  \/ c \in Works /\ c.at \in {"payroll", "salary", "payslip", "replace", "unlock"}
  \/ c \in Postings /\ c.source = "PAYROLL"

PaidFits(c) ==
  /\ c \in Works /\ c.at = "payslip" => c.x \notin payslip /\ expense[c.x] # Null
  /\ c \in Postings /\ c.source = "PAYROLL" /\ c.at \in {"check", "insert"} =>
       c.of \in payslip /\ \A e \in entry : e.source = "PAYROLL" => e.of # c.of

PaidInv(S) ==
  /\ \A p \in S : PaidFits(bookCall[p]) /\ (Running(bookCall[p]) => lock = p)
  /\ \A x \in payslip : expense[x] # Null
  /\ \A e \in entry : e.source = "PAYROLL" => e.of \in payslip
  /\ \A e, f \in entry : e.source = "PAYROLL" /\ f.source = "PAYROLL" /\ e.of = f.of => e = f

\* A call that moves, and neither makes a payslip nor posts one.
LEMMA PaidGoes ==
  ASSUME NEW S, NEW max, NEW p \in S, BookInv(S, max), PaidInv(S), NEW d,
         bookCall' = [bookCall EXCEPT ![p] = d], PaidFits(d)', UNCHANGED payslip,
         \A e : e.source = "PAYROLL" => (e \in entry' <=> e \in entry),
         \A x \in ExpenseIds : expense[x] # Null => expense'[x] # Null,
         Running(d) => lock' = p,
         \A q \in S \ {p} : lock = q => lock' = q
  PROVE  PaidInv(S)'
<1>1. bookCall'[p] = d /\ \A q \in S \ {p} : bookCall'[q] = bookCall[q]
  BY DEF BookInv
<1>2. ASSUME NEW q \in S, q # p PROVE PaidFits(bookCall[q])' /\ (Running(bookCall'[q]) => lock' = q)
  <2>1. PaidFits(bookCall[q]) /\ (Running(bookCall[q]) => lock = q) /\ BookFits(bookCall[q])
    BY DEF PaidInv, BookInv
  <2>2. bookCall[q] \in Works /\ bookCall[q].at = "payslip" => bookCall[q].x \in ExpenseIds
    BY <2>1 DEF BookFits, WorkFits
  <2> QED
    BY <1>1, <1>2, <2>1, <2>2 DEF PaidFits
<1>3. PaidFits(bookCall[p])' /\ (Running(bookCall'[p]) => lock' = p)
  BY <1>1 DEF PaidFits
<1>4. \A x \in payslip' : expense'[x] # Null
  BY DEF PaidInv, BookInv
<1> QED
  BY <1>2, <1>3, <1>4 DEF PaidInv

LEMMA PaidPosts ==
  ASSUME NEW S, NEW max, NEW p \in S, BookInv(S, max), PaidInv(S), Books!CheckEntry(p) \/ Inserts(p, max),
         UNCHANGED Books!financeRows
  PROVE  PaidInv(S)'
<1>1. PICK c : c = bookCall[p]
  OBVIOUS
<1>2. c \in Postings /\ PostingFits(c) /\ PaidFits(c) /\ (Running(c) => lock = p)
      /\ bookCall \in [S -> BookCalls]
  <2>1. BookFits(c) /\ c.at \in {"check", "insert"}
    BY <1>1 DEF BookInv, Books!CheckEntry, Inserts
  <2> QED
    BY <1>1, <2>1 DEF BookInv, PaidInv, BookFits, BookCalls, Books!Idle, Works
<1>3. UNCHANGED <<expense, payslip, lock>>
  BY DEF Books!financeRows
<1>4. c.then \in {"idle", "next", "posted"} /\ (c.source = "PAYROLL" <=> Running(c))
  BY <1>2 DEF Postings, Running, Works
\* where the call goes
<1>5. ASSUME NEW e \in Postings, e.source = c.source, Books!GoesTo(p, e, c.then)
      PROVE  \E d : /\ bookCall' = [bookCall EXCEPT ![p] = d] /\ (Running(d) => Running(c))
                    /\ PaidFits(d)'
  <2>1. PICK d : d = IF c.then = "idle" THEN Books!Idle ELSE [e EXCEPT !.at = c.then]
    OBVIOUS
  <2>2. bookCall' = [bookCall EXCEPT ![p] = d]
    BY <1>5, <2>1 DEF Books!GoesTo
  <2>3. CASE c.then = "idle"
    <3>1. d.at = "idle"
      BY <2>1, <2>3 DEF Books!Idle
    <3>2. d \notin Works \union Postings
      BY <3>1 DEF Works, Postings
    <3> QED
      BY <2>2, <3>2 DEF Running, PaidFits
  <2>4. CASE c.then # "idle"
    <3>1. d.at \in {"next", "posted"} /\ d.source = c.source
      BY <1>4, <1>5, <2>1, <2>4 DEF Postings
    <3>2. d \notin Works
      BY <3>1 DEF Works
    <3> QED
      BY <1>4, <2>2, <3>1, <3>2 DEF Running, PaidFits
  <2> QED
    BY <2>3, <2>4
<1>6. CASE Books!CheckEntry(p) /\ year = "CLOSED"
  <2>1. Books!GoesTo(p, c, c.then) /\ UNCHANGED entry
    BY <1>1, <1>6 DEF Books!CheckEntry
  <2>2. PICK d : /\ bookCall' = [bookCall EXCEPT ![p] = d] /\ (Running(d) => Running(c))
                 /\ PaidFits(d)'
    BY <1>2, <1>5, <2>1
  <2> QED
    BY <1>2, <1>3, <2>1, <2>2, PaidGoes
<1>7. CASE Books!CheckEntry(p) /\ year # "CLOSED"
  <2>1. PICK d : d = [[c EXCEPT !.number = Cardinality(entry) + 1] EXCEPT !.at = "insert"]
    OBVIOUS
  <2>2. bookCall' = [bookCall EXCEPT ![p] = d] /\ UNCHANGED entry /\ c.at = "check"
    BY <1>1, <1>7, <2>1 DEF Books!CheckEntry, Books!GoesTo, Books!Cardinality, Cardinality
  <2>3. d.at = "insert" /\ d.source = c.source /\ d.of = c.of
    BY <1>2, <2>1 DEF Postings
  <2>4. d \notin Works
    BY <2>3 DEF Works
  <2>5. PaidFits(d)' /\ (Running(d) => Running(c))
    BY <1>2, <1>3, <1>4, <2>2, <2>3, <2>4 DEF PaidFits, Running
  <2> QED
    BY <1>2, <1>3, <2>2, <2>5, PaidGoes
<1>8. CASE Inserts(p, max)
  <2>1. PICK free \in BOOLEAN : free <=> \A e \in entry : e.number # c.number
    OBVIOUS
  <2>2. PICK new : new = [number |-> c.number, source |-> c.source, of |-> c.of, draft |-> c.draft]
    OBVIOUS
  <2>3. /\ entry' = (IF free THEN entry \union {new} ELSE entry) /\ c.at = "insert"
        /\ Books!GoesTo(p, [c EXCEPT !.posted = free], c.then)
    BY <1>1, <1>8, <2>1, <2>2 DEF Inserts
  <2>4. [c EXCEPT !.posted = free] \in Postings /\ [c EXCEPT !.posted = free].source = c.source
    BY <1>2 DEF Postings
  <2>5. PICK d : /\ bookCall' = [bookCall EXCEPT ![p] = d] /\ (Running(d) => Running(c))
                 /\ PaidFits(d)'
    BY <1>5, <2>3, <2>4
  <2>6. new.source = c.source /\ new.of = c.of
    BY <2>2
  <2>7. CASE c.source # "PAYROLL"
    <3>1. \A e : e.source = "PAYROLL" => (e \in entry' <=> e \in entry)
      BY <2>3, <2>6, <2>7
    <3> QED
      BY <1>2, <1>3, <2>5, <3>1, PaidGoes
  <2>8. CASE c.source = "PAYROLL"
    <3>1. lock = p /\ c.of \in payslip /\ \A e \in entry : e.source = "PAYROLL" => e.of # c.of
      BY <1>2, <1>4, <2>3, <2>8 DEF PaidFits
    <3>2. ASSUME NEW q \in S, q # p PROVE ~ Running(bookCall'[q]) /\ PaidFits(bookCall[q])'
      <4>1. bookCall'[q] = bookCall[q] /\ ~ Running(bookCall[q]) /\ PaidFits(bookCall[q])
        BY <1>2, <2>5, <3>1, <3>2 DEF PaidInv
      <4> QED
        BY <1>3, <4>1 DEF Running, PaidFits
    <3>3. bookCall'[p] = d
      BY <1>2, <2>5
    <3>4. PaidFits(bookCall[p])'
      BY <2>5, <3>3 DEF PaidFits
    <3>5. \A e \in entry' : e.source = "PAYROLL" => e.of \in payslip'
      BY <1>3, <2>3, <2>6, <3>1 DEF PaidInv
    <3>6. \A e, f \in entry' : e.source = "PAYROLL" /\ f.source = "PAYROLL" /\ e.of = f.of => e = f
      BY <2>3, <2>6, <3>1 DEF PaidInv
    <3> QED
      BY <1>3, <3>1, <3>2, <3>4, <3>5, <3>6 DEF PaidInv
  <2> QED
    BY <2>7, <2>8
<1> QED
  BY <1>6, <1>7, <1>8

\* A call that starts runs nothing, or takes the lock that nobody has.
LEMMA PaidBegins ==
  ASSUME NEW S, NEW max, NEW p \in S, Null \notin S, BookInv(S, max), PaidInv(S), BookStarts(p)
  PROVE  PaidInv(S)'
<1>1. UNCHANGED <<entry, expense, payslip>> /\ (UNCHANGED lock \/ Books!StartRun(p))
  BY DEF BookStarts, Books!ManualEntry, Books!CloseFiscalYear, Books!CreateExpense, Books!SyncSalary,
     Books!CorrectExpense, Books!UpdateExpense, Books!RemoveExpense, Books!StartRun, Books!financeRows
<1>2. ASSUME NEW c, Books!Begins(p, c), UNCHANGED lock, ~ Running(c), c \in Works => c.at # "payslip"
      PROVE  PaidInv(S)'
  <2>1. bookCall' = [bookCall EXCEPT ![p] = c] /\ PaidFits(c)'
    BY <1>2 DEF Books!Begins, PaidFits, Running
  <2> QED
    BY <1>1, <1>2, <2>1, PaidGoes
<1>3. ASSUME NEW c, Books!Begins(p, c), UNCHANGED lock,
             c.at \in {"close", "record", "save", "delete", "sync", "hired"}
      PROVE  PaidInv(S)'
  <2>1. ~ Running(c)
    BY <1>3 DEF Running, Postings
  <2> QED
    BY <1>2, <1>3, <2>1
<1>4. ASSUME NEW c, Books!Begins(p, c), UNCHANGED lock, c.at = "check", c.source # "PAYROLL"
      PROVE  PaidInv(S)'
  <2>1. ~ Running(c) /\ c \notin Works
    BY <1>4 DEF Running, Works
  <2> QED
    BY <1>2, <1>4, <2>1
<1>5. ASSUME UNCHANGED Books!financeRows, \E d \in Documents : Books!ManualEntry(p, d) PROVE PaidInv(S)'
  <2>1. PICK c : Books!Begins(p, c) /\ c.at = "check" /\ c.source = "MANUAL"
    BY <1>5 DEF Books!ManualEntry, Books!Posting
  <2> QED
    BY <1>4, <1>5, <2>1 DEF Books!financeRows
<1>6. ASSUME UNCHANGED Books!financeRows, \E profit \in BOOLEAN : Books!CloseFiscalYear(p, profit)
      PROVE  PaidInv(S)'
  <2>1. Books!Begins(p, Books!Draft) \/ Books!Begins(p, [at |-> "close"])
    BY <1>6 DEF Books!CloseFiscalYear
  <2>2. Books!Draft.at = "check" /\ Books!Draft.source = "TAX"
    BY DEF Books!Draft, Books!Posting
  <2>3. PICK c : c = [at |-> "close"]
    OBVIOUS
  <2>4. c.at = "close"
    BY <2>3
  <2> QED
    BY <1>3, <1>4, <1>6, <2>1, <2>2, <2>3, <2>4 DEF Books!financeRows
<1>7. \A todo, l : Books!Recording(todo, l).at = "record"
  BY DEF Books!Recording
<1>8. \A x, l, at : Books!On(x, l, at).at = at
  BY DEF Books!On
<1>9. ASSUME NEW salary \in BOOLEAN,
             Books!CreateExpense(p, salary) \/ \E todo \in {1, 2} : Books!CorrectExpense(p, todo, salary)
      PROVE  PaidInv(S)'
  <2>1. PICK todo, l : Books!Begins(p, Books!Recording(todo, l)) /\ UNCHANGED lock
    BY <1>9 DEF Books!CreateExpense, Books!CorrectExpense, Books!financeRows
  <2> QED
    BY <1>3, <1>7, <2>1
<1>10. ASSUME NEW salary \in BOOLEAN, Books!SyncSalary(p, salary) PROVE PaidInv(S)'
  <2>1. \E x, l : Books!Begins(p, Books!On(x, l, "hired")) \/ Books!Begins(p, Books!On(x, l, "sync"))
    BY <1>10, Zenon DEF Books!SyncSalary
  <2>2. PICK x, l : Books!Begins(p, Books!On(x, l, "hired")) \/ Books!Begins(p, Books!On(x, l, "sync"))
    BY <2>1
  <2>3. UNCHANGED lock
    BY <1>10 DEF Books!SyncSalary, Books!financeRows
  <2> QED
    BY <1>3, <1>8, <2>2, <2>3
<1>11. ASSUME NEW x \in ExpenseIds,
              Books!RemoveExpense(p, x) \/ \E salary \in BOOLEAN : Books!UpdateExpense(p, x, salary)
       PROVE  PaidInv(S)'
  <2>1. PICK l : Books!Begins(p, Books!On(x, l, "save")) \/ Books!Begins(p, Books!On(x, l, "delete"))
    BY <1>11 DEF Books!UpdateExpense, Books!RemoveExpense
  <2>2. UNCHANGED lock
    BY <1>11 DEF Books!UpdateExpense, Books!RemoveExpense, Books!financeRows
  <2> QED
    BY <1>3, <1>8, <2>1, <2>2
<1>12. CASE Books!StartRun(p)
  <2>1. PICK c : c = Books!On(Null, Null, "payroll")
    OBVIOUS
  <2>2. c.at = "payroll" /\ bookCall' = [bookCall EXCEPT ![p] = c] /\ lock = Null /\ lock' = p
    BY <1>8, <1>12, <2>1 DEF Books!StartRun, Books!Begins
  <2>3. PaidFits(c)'
    BY <2>2 DEF PaidFits, Postings
  <2> QED
    BY <1>1, <2>2, <2>3, PaidGoes
<1> QED
  BY <1>5, <1>6, <1>9, <1>10, <1>11, <1>12 DEF BookStarts

\* A line that is there is never missing again.
LEMMA PaidLines ==
  ASSUME NEW S, NEW max, NEW p \in S, BookInv(S, max), PaidInv(S),
         Books!WriteLine(p) \/ \E x \in ExpenseIds : Books!RecordLine(p, x) \/ Books!InsertSalaryLine(p, x)
  PROVE  PaidInv(S)'
<1>1. PICK c : c = bookCall[p]
  OBVIOUS
<1>2. UNCHANGED <<entry, payslip, lock>> /\ c.at \in {"save", "delete", "sync", "record", "salary", "hired"}
  BY <1>1 DEF Books!WriteLine, Books!RecordLine, Books!InsertSalaryLine
<1>3. c \in Works /\ WorkFits(c) /\ (Running(c) => lock = p) /\ LinesSound
  <2>1. BookFits(c) /\ LinesSound /\ (Running(c) => lock = p)
    BY <1>1 DEF BookInv, PaidInv
  <2> QED
    BY <1>2, <2>1 DEF BookFits, BookCalls, Books!Idle, Postings
<1>4. Books!Idle \notin Works \union Postings
  <2>1. Books!Idle.at = "idle"
    BY DEF Books!Idle
  <2> QED
    BY <2>1 DEF Works, Postings
<1>5. ASSUME NEW d, bookCall' = [bookCall EXCEPT ![p] = d], d \in Works \union {Books!Idle},
             UNCHANGED expense \/ \E x, l : l # Null /\ expense' = [expense EXCEPT ![x] = l],
             d.at \in {"repost", "unpost", "idle"} \/ (c.at = "salary" /\ d.at \in {"payslip", "unlock"}),
             d.at = "payslip" => d.x \notin payslip /\ expense'[d.x] # Null
      PROVE  PaidInv(S)'
  <2>1. \A x \in ExpenseIds : expense[x] # Null => expense'[x] # Null
    BY <1>3, <1>5 DEF LinesSound
  <2>2. d \notin Postings
    BY <1>4, <1>5 DEF Works, Postings
  <2>3. PaidFits(d)'
    BY <1>2, <1>5, <2>2 DEF PaidFits
  <2>4. Running(d) => lock' = p
    <3>1. Running(d) => c.at = "salary"
      BY <1>4, <1>5, <2>2 DEF Running
    <3> QED
      BY <1>2, <1>3, <3>1 DEF Running
  <2> QED
    BY <1>2, <1>5, <2>1, <2>3, <2>4, PaidGoes
<1>6. CASE Books!WriteLine(p)
  <2>1. c.at \in {"save", "delete", "sync"} /\ c.line # Null
    BY <1>1, <1>3, <1>6 DEF Books!WriteLine, WorkFits
  <2>2. PICK at \in {"repost", "unpost", "idle"} : Books!GoesTo(p, c, at)
    BY <1>1, <1>6 DEF Books!WriteLine
  <2>3. PICK d : d = IF at = "idle" THEN Books!Idle ELSE [c EXCEPT !.at = at]
    OBVIOUS
  <2>4. d \in Works \union {Books!Idle} /\ d.at = at
    BY <1>3, <2>3 DEF Works, Books!Idle
  <2>5. bookCall' = [bookCall EXCEPT ![p] = d]
    BY <2>2, <2>3 DEF Books!GoesTo
  <2>6. UNCHANGED expense \/ expense' = [expense EXCEPT ![c.x] = c.line]
    BY <1>1, <1>6 DEF Books!WriteLine
  <2> QED
    BY <1>5, <2>1, <2>4, <2>5, <2>6
<1>7. ASSUME NEW x \in ExpenseIds, Books!RecordLine(p, x) PROVE PaidInv(S)'
  <2>1. c.at = "record" /\ expense[x] = Null /\ c.line # Null
    <3>1. c.at = "record" /\ expense[x] = Null
      BY <1>1, <1>7 DEF Books!RecordLine
    <3> QED
      BY <1>3, <3>1, BookFacts DEF WorkFits
  <2>2. CASE Books!Unique(x, c.line)
    <3>1. PICK d : d = [[c EXCEPT !.todo = c.todo - 1, !.x = x] EXCEPT !.at = "repost"]
      OBVIOUS
    <3>2. bookCall' = [bookCall EXCEPT ![p] = d] /\ expense' = [expense EXCEPT ![x] = c.line]
      BY <1>1, <1>7, <2>2, <3>1 DEF Books!RecordLine, Books!GoesTo
    <3>3. d = [at |-> "repost", todo |-> c.todo - 1, line |-> c.line, x |-> x]
      BY <1>3, <3>1 DEF Works
    <3>4. c.todo \in 1..2
      BY <1>3, <2>1 DEF WorkFits, Works
    <3>5. d \in Works /\ d.at = "repost"
      BY <1>3, <3>3, <3>4 DEF Works
    <3> QED
      BY <1>5, <2>1, <3>2, <3>5
  <2>3. CASE ~ Books!Unique(x, c.line)
    <3>1. bookCall' = [bookCall EXCEPT ![p] = Books!Idle] /\ UNCHANGED expense
      BY <1>1, <1>7, <2>3 DEF Books!RecordLine, Books!GoesTo
    <3>2. Books!Idle.at = "idle"
      BY DEF Books!Idle
    <3> QED
      BY <1>5, <3>1, <3>2
  <2> QED
    BY <2>2, <2>3
<1>8. ASSUME NEW x \in ExpenseIds, Books!InsertSalaryLine(p, x) PROVE PaidInv(S)'
  <2>1. PICK l : l = Books!Line(TRUE, FALSE)
    OBVIOUS
  <2>2. c.at \in {"salary", "hired"} /\ expense[x] = Null /\ l # Null
    <3>1. c.at \in {"salary", "hired"} /\ expense[x] = Null
      BY <1>1, <1>8 DEF Books!InsertSalaryLine
    <3>2. l \in Books!LineRecords
      BY <2>1 DEF Books!Line, Books!LineRecords
    <3> QED
      BY <3>1, <3>2, BookFacts
  <2>3. CASE Books!Unique(x, l)
    <3>1. PICK d : d = IF c.at = "salary" THEN [[c EXCEPT !.x = x] EXCEPT !.at = "payslip"] ELSE Books!Idle
      OBVIOUS
    <3>2. bookCall' = [bookCall EXCEPT ![p] = d] /\ expense' = [expense EXCEPT ![x] = l]
      BY <1>1, <1>8, <2>1, <2>2, <2>3, <3>1 DEF Books!InsertSalaryLine, Books!GoesTo
    <3>3. c.at = "salary" => d = [at |-> "payslip", todo |-> c.todo, line |-> c.line, x |-> x]
      BY <1>3, <3>1 DEF Works
    <3>4. d \in Works \union {Books!Idle} /\ d.at = (IF c.at = "salary" THEN "payslip" ELSE "idle")
          /\ (d.at = "payslip" => d.x = x)
      BY <1>3, <3>1, <3>3 DEF Works, Books!Idle
    <3>5. expense'[x] # Null /\ x \notin payslip
      BY <1>3, <2>2, <3>2 DEF LinesSound, PaidInv
    <3> QED
      BY <1>5, <2>2, <3>2, <3>4, <3>5
  <2>4. CASE ~ Books!Unique(x, l)
    <3>1. PICK d : d = IF c.at = "salary" THEN [c EXCEPT !.at = "unlock"] ELSE Books!Idle
      OBVIOUS
    <3>2. bookCall' = [bookCall EXCEPT ![p] = d] /\ UNCHANGED expense
      BY <1>1, <1>8, <2>1, <2>2, <2>4, <3>1 DEF Books!InsertSalaryLine, Books!GoesTo
    <3>3. d \in Works \union {Books!Idle} /\ d.at = (IF c.at = "salary" THEN "unlock" ELSE "idle")
      BY <1>3, <3>1 DEF Works, Books!Idle
    <3> QED
      BY <1>5, <2>2, <3>2, <3>3
  <2> QED
    BY <2>3, <2>4
<1> QED
  BY <1>6, <1>7, <1>8

\* A payslip is made of a line that has none; no entry of it is removed.
LEMMA PaidRemoves ==
  ASSUME NEW S, NEW max, NEW p \in S, BookInv(S, max), PaidInv(S),
         Books!RepostExpense(p) \/ Books!RemoveExpenseEntry(p) \/ Books!ReplaceEntry(p) \/ Books!CreatePayslip(p)
  PROVE  PaidInv(S)'
<1>1. PICK c : c = bookCall[p]
  OBVIOUS
<1>2. UNCHANGED <<expense, lock>> /\ c.at \in {"repost", "unpost", "replace", "payslip"}
  BY <1>1 DEF Books!RepostExpense, Books!RemoveExpenseEntry, Books!ReplaceEntry, Books!CreatePayslip, Books!financeRows
<1>3. c \in Works /\ c.x \in ExpenseIds /\ (Running(c) => lock = p) /\ PaidFits(c) /\ bookCall \in [S -> BookCalls]
  <2>1. BookFits(c)
    BY <1>1 DEF BookInv
  <2>2. c \in Works
    BY <1>2, <2>1 DEF BookFits, BookCalls, Books!Idle, Postings
  <2> QED
    BY <1>1, <1>2, <2>1, <2>2 DEF BookInv, PaidInv, BookFits, WorkFits
<1>4. entry' = entry \/ entry' = entry \ Books!EntriesOf("EXPENSE", c.x)
  BY <1>1 DEF Books!RepostExpense, Books!RemoveExpenseEntry, Books!ReplaceEntry, Books!CreatePayslip
<1>5. \A e : e.source = "PAYROLL" => (e \in entry' <=> e \in entry)
  BY <1>4 DEF Books!EntriesOf
<1>6. CASE Books!RepostExpense(p)
  <2>1. PICK d : d = Books!Posting("EXPENSE", c.x, FALSE, "next", c)
    OBVIOUS
  <2>2. bookCall' = [bookCall EXCEPT ![p] = d] /\ UNCHANGED payslip
    BY <1>1, <1>6, <2>1 DEF Books!RepostExpense, Books!Posts, Books!financeRows
  <2>3. d.at = "check" /\ d.source = "EXPENSE"
    BY <2>1 DEF Books!Posting
  <2>4. PaidFits(d)' /\ ~ Running(d)
    BY <2>3 DEF PaidFits, Running, Works
  <2> QED
    BY <1>2, <1>5, <2>2, <2>4, PaidGoes
<1>7. CASE Books!RemoveExpenseEntry(p) \/ Books!ReplaceEntry(p)
  <2>1. PICK d : d = IF c.at = "unpost" THEN Books!Idle ELSE [c EXCEPT !.at = "unlock"]
    OBVIOUS
  <2>2. bookCall' = [bookCall EXCEPT ![p] = d] /\ c.at \in {"unpost", "replace"} /\ UNCHANGED payslip
    BY <1>1, <1>7, <2>1 DEF Books!RemoveExpenseEntry, Books!ReplaceEntry, Books!GoesTo, Books!financeRows
  <2>3. d.at \in {"idle", "unlock"} /\ (d.at = "unlock" => c.at = "replace")
    BY <1>3, <2>1, <2>2 DEF Works, Books!Idle
  <2>4. PaidFits(d)' /\ (Running(d) => Running(c))
    BY <1>3, <2>3 DEF PaidFits, Running, Postings
  <2> QED
    BY <1>2, <1>3, <1>5, <2>2, <2>4, PaidGoes
<1>8. CASE Books!CreatePayslip(p)
  <2>1. PICK d : d = Books!Posting("PAYROLL", c.x, FALSE, "posted", c)
    OBVIOUS
  <2>2. bookCall' = [bookCall EXCEPT ![p] = d] /\ payslip' = payslip \union {c.x} /\ UNCHANGED entry
        /\ c.at = "payslip"
    BY <1>1, <1>8, <2>1 DEF Books!CreatePayslip, Books!Posts
  <2>3. d.at = "check" /\ d.source = "PAYROLL" /\ d.of = c.x
    BY <2>1 DEF Books!Posting
  <2>4. lock = p /\ c.x \notin payslip /\ expense[c.x] # Null
    BY <1>3, <2>2 DEF PaidFits, Running
  <2>5. \A e \in entry : e.source = "PAYROLL" => e.of # c.x
    BY <2>4 DEF PaidInv
  <2>6. d \notin Works /\ PaidFits(d)'
    BY <2>2, <2>3, <2>5 DEF PaidFits, Works
  <2>7. ASSUME NEW q \in S, q # p PROVE ~ Running(bookCall'[q]) /\ PaidFits(bookCall[q])'
    <3>1. bookCall'[q] = bookCall[q] /\ ~ Running(bookCall[q])
      BY <1>3, <2>2, <2>4, <2>7 DEF PaidInv
    <3> QED
      BY <3>1 DEF Running, PaidFits
  <2>8. bookCall'[p] = d
    BY <1>3, <2>2
  <2>9. PaidFits(bookCall[p])'
    BY <2>6, <2>8 DEF PaidFits
  <2>10. \A x \in payslip' : expense'[x] # Null
    BY <1>2, <2>2, <2>4 DEF PaidInv
  <2> QED
    BY <1>2, <2>2, <2>4, <2>7, <2>9, <2>10 DEF PaidInv
<1> QED
  BY <1>6, <1>7, <1>8

LEMMA PaidGoesOn ==
  ASSUME NEW S, NEW max, NEW p \in S, BookInv(S, max), PaidInv(S),
         \/ Books!NextLine(p) \/ Books!PayrollPosted(p) \/ Books!FindSalaryLine(p) \/ Books!Unlock(p)
         \/ Books!FinanceCrash(p)
         \/ UNCHANGED Books!financeRows /\ (Books!SaveClosed(p) \/ Books!LedgerCrash(p))
  PROVE  PaidInv(S)'
<1>1. PICK c : c = bookCall[p]
  OBVIOUS
<1>2. BookFits(c) /\ PaidFits(c) /\ (Running(c) => lock = p)
  BY <1>1 DEF BookInv, PaidInv
<1>3. CASE Books!Unlock(p) \/ Books!FinanceCrash(p)
           \/ (UNCHANGED Books!financeRows /\ (Books!SaveClosed(p) \/ Books!LedgerCrash(p)))
  <2>1. bookCall' = [bookCall EXCEPT ![p] = Books!Idle] /\ UNCHANGED <<entry, expense, payslip>>
    BY <1>3 DEF Books!Unlock, Books!FinanceCrash, Books!SaveClosed, Books!LedgerCrash, Books!GoesTo, Books!financeRows
  <2>2. Books!Idle.at = "idle"
    BY DEF Books!Idle
  <2>3. Books!Idle \notin Works \union Postings
    BY <2>2 DEF Works, Postings
  <2>4. ~ Running(Books!Idle) /\ PaidFits(Books!Idle)'
    BY <2>3 DEF Running, PaidFits
  <2>5. \A q \in S \ {p} : lock = q => lock' = q
    <3>1. CASE Books!Unlock(p)
      <4>1. c.at = "unlock"
        BY <1>1, <3>1 DEF Books!Unlock
      <4>2. c \in Works
        BY <1>2, <4>1 DEF BookFits, BookCalls, Books!Idle, Postings
      <4> QED
        BY <1>2, <4>1, <4>2 DEF Running
    <3>2. CASE ~ Books!Unlock(p)
      BY <1>3, <3>2 DEF Books!FinanceCrash, Books!financeRows
    <3> QED
      BY <3>1, <3>2
  <2> QED
    BY <2>1, <2>4, <2>5, PaidGoes
<1>4. ASSUME NEW d, bookCall' = [bookCall EXCEPT ![p] = d], UNCHANGED <<entry, expense, payslip, lock>>,
             PaidFits(d), Running(d) => Running(c)
      PROVE  PaidInv(S)'
  <2>1. PaidFits(d)'
    BY <1>4 DEF PaidFits
  <2> QED
    BY <1>2, <1>4, <2>1, PaidGoes
<1>5. CASE Books!NextLine(p) \/ Books!PayrollPosted(p)
  <2>1. c.at \in {"next", "posted"} /\ UNCHANGED <<entry, expense, payslip, lock>>
    BY <1>1, <1>5 DEF Books!NextLine, Books!PayrollPosted, Books!financeRows
  <2>2. c \in Postings
    BY <1>2, <2>1 DEF BookFits, BookCalls, Books!Idle, Works
  <2>3. c.then = c.at /\ c.holds \in Works /\ (c.at = "posted" => c.source = "PAYROLL")
    BY <1>2, <2>1, <2>2 DEF BookFits, PostingFits
  <2>4. PICK at : /\ Books!GoesTo(p, c.holds, at)
                  /\ at \in {"idle", "record"} \/ (c.at = "posted" /\ at \in {"replace", "unlock"})
    BY <1>1, <1>5 DEF Books!NextLine, Books!PayrollPosted
  <2>5. PICK d : d = IF at = "idle" THEN Books!Idle ELSE [c.holds EXCEPT !.at = at]
    OBVIOUS
  <2>6. bookCall' = [bookCall EXCEPT ![p] = d] /\ d.at = at
    BY <2>3, <2>4, <2>5 DEF Books!GoesTo, Books!Idle, Works
  <2>7. PaidFits(d) /\ (Running(d) => Running(c))
    BY <2>2, <2>3, <2>4, <2>6 DEF PaidFits, Running, Postings
  <2> QED
    BY <1>4, <2>1, <2>6, <2>7
<1>6. CASE Books!FindSalaryLine(p)
  <2>1. c.at = "payroll" /\ UNCHANGED <<entry, year, Books!financeRows>>
    BY <1>1, <1>6, Zenon DEF Books!FindSalaryLine
  <2>2. UNCHANGED <<entry, expense, payslip, lock>>
    BY <2>1 DEF Books!financeRows
  <2>3. c \in Works /\ Running(c)
    BY <1>2, <2>1 DEF BookFits, BookCalls, Books!Idle, Postings, Running
  <2>4. CASE Books!GoesTo(p, c, "salary")
    <3>1. PICK d : d = [c EXCEPT !.at = "salary"]
      OBVIOUS
    <3>2. d.at = "salary" /\ bookCall' = [bookCall EXCEPT ![p] = d]
      BY <2>3, <2>4, <3>1 DEF Works, Books!GoesTo
    <3> QED
      BY <1>4, <2>2, <2>3, <3>2 DEF PaidFits, Postings
  <2>5. ASSUME NEW x \in Books!SalaryLines, NEW at \in {"unlock", "payslip"}, at = "payslip" => x \notin payslip,
               Books!GoesTo(p, [c EXCEPT !.x = x, !.todo = 1], at)
        PROVE  PaidInv(S)'
    <3>1. PICK d : d = [[c EXCEPT !.x = x, !.todo = 1] EXCEPT !.at = at]
      OBVIOUS
    <3>2. d = [at |-> at, todo |-> 1, line |-> c.line, x |-> x]
      BY <2>3, <3>1 DEF Works
    <3>3. d.at = at /\ d.x = x /\ bookCall' = [bookCall EXCEPT ![p] = d] /\ expense[x] # Null
      BY <2>5, <3>1, <3>2 DEF Books!GoesTo, Books!SalaryLines, Books!Lines
    <3>4. PaidFits(d)
      BY <2>5, <3>3 DEF PaidFits, Postings
    <3> QED
      BY <1>4, <2>2, <2>3, <3>3, <3>4
  <2>6. ASSUME NEW x \in Books!SalaryLines,
               Books!GoesTo(p, [c EXCEPT !.x = x, !.todo = 1], IF x \in payslip THEN "unlock" ELSE "payslip")
        PROVE  PaidInv(S)'
    <3>1. PICK at : at = IF x \in payslip THEN "unlock" ELSE "payslip"
      OBVIOUS
    <3>2. Books!GoesTo(p, [c EXCEPT !.x = x, !.todo = 1], at)
      BY <2>6, <3>1, Zenon
    <3>3. at \in {"unlock", "payslip"} /\ (at = "payslip" => x \notin payslip)
      BY <3>1
    <3> QED
      BY <2>5, <3>2, <3>3, Zenon
  <2> QED
    BY <1>1, <1>6, <2>4, <2>6, Zenon DEF Books!FindSalaryLine
<1> QED
  BY <1>3, <1>5, <1>6

LEMMA PaidStands ==
  ASSUME NEW S, NEW max, BookInv(S, max), PaidInv(S), BookPauses
  PROVE  PaidInv(S)'
<1>1. UNCHANGED <<bookCall, expense, payslip, lock>>
  BY DEF BookPauses
<1>2. \A e : e.source = "PAYROLL" => (e \in entry' <=> e \in entry)
  <2>1. CASE UNCHANGED entry
    BY <2>1
  <2>2. ASSUME NEW e \in entry, Books!ValidateDraftEntry(e) PROVE \A f : f.source = "PAYROLL" => (f \in entry' <=> f \in entry)
    <3>1. PICK g : g = [e EXCEPT !.draft = FALSE]
      OBVIOUS
    <3>2. EntriesSound(max)
      BY DEF BookInv
    <3>3. e.source = "TAX" /\ g.source = "TAX"
      BY <2>2, <3>1, <3>2 DEF EntriesSound, Books!ValidateDraftEntry
    <3>4. entry' = (entry \ {e}) \union {g}
      BY <2>2, <3>1 DEF Books!ValidateDraftEntry
    <3> QED
      BY <3>3, <3>4
  <2> QED
    BY <2>1, <2>2 DEF BookPauses, Books!ReopenFiscalYear
<1> QED
  BY <1>1, <1>2 DEF PaidInv, PaidFits

LEMMA PaidStep ==
  ASSUME NEW S, NEW max \in Nat, Null \notin S, BookInv(S, max), PaidInv(S), BooksNext(S, max)
  PROVE  PaidInv(S)'
<1>1. ASSUME NEW p \in S, BookSteps(p, max) PROVE PaidInv(S)'
  BY <1>1, PaidPosts, PaidBegins, PaidLines, PaidRemoves, PaidGoesOn DEF BookSteps
<1> QED
  BY <1>1, PaidStands DEF BooksNext

LEMMA PaidInit ==
  ASSUME NEW S, entry = {}, bookCall = [p \in S |-> Books!Idle], payslip = {}
  PROVE  PaidInv(S)
<1>1. Books!Idle.at = "idle"
  BY DEF Books!Idle
<1>2. Books!Idle \notin Works \union Postings
  BY <1>1 DEF Works, Postings
<1>3. \A p \in S : PaidFits(bookCall[p]) /\ ~ Running(bookCall[p])
  BY <1>2 DEF PaidFits, Running
<1> QED
  BY <1>3 DEF PaidInv

LEMMA PaidShows == ASSUME NEW S, PaidInv(S) PROVE Books!PayrollOnce
<1>1. ASSUME NEW x \in ExpenseIds PROVE Cardinality(Books!EntriesOf("PAYROLL", x)) <= 1
  <2>1. PICK E : E = Books!EntriesOf("PAYROLL", x)
    OBVIOUS
  <2>2. \A e, f \in E : e = f
    BY <2>1 DEF PaidInv, Books!EntriesOf
  <2>3. CASE E = {}
    BY <2>1, <2>3, FS_EmptySet
  <2>4. CASE E # {}
    <3>1. PICK e : E = {e}
      BY <2>2, <2>4
    <3>2. Cardinality(E) = 1
      BY <3>1, FS_Singleton
    <3> QED
      BY <2>1, <3>2
  <2> QED
    BY <2>3, <2>4
<1> QED
  BY <1>1 DEF Books!PayrollOnce, Books!Cardinality, Cardinality

\* What the services keep, from this.
LEMMA BooksShow ==
  /\ BookInv(Calls, MaxEntries) => Books!EntryTypeOK /\ Books!FinanceTypeOK
  /\ BookInv({one}, MaxEntriesAlone) /\ AloneBooks =>
       BooksAlone!OneExpenseEntry /\ BooksAlone!ClosedYearIsValidated
<1>1. BookInv(Calls, MaxEntries) => Books!EntryTypeOK
  BY DEF BookInv, EntriesSound, Books!EntryTypeOK, Books!Entries
<1>2. BookInv(Calls, MaxEntries) => Books!FinanceTypeOK
  BY <1>1 DEF BookInv, LinesSound, Books!FinanceTypeOK
<1>3. AloneBooks => BooksAlone!ClosedYearIsValidated
  BY DEF AloneBooks, NoDraft, BooksAlone!ClosedYearIsValidated
<1>4. ASSUME AloneBooks, NEW x \in ExpenseIds PROVE Cardinality(BooksAlone!EntriesOf("EXPENSE", x)) <= 1
  <2>1. PICK E : E = BooksAlone!EntriesOf("EXPENSE", x)
    OBVIOUS
  <2>2. \A e, f \in E : e = f
    BY <1>4, <2>1 DEF AloneBooks, BooksAlone!EntriesOf
  <2>3. CASE E = {}
    BY <2>1, <2>3, FS_EmptySet
  <2>4. CASE E # {}
    <3>1. PICK e : E = {e}
      BY <2>2, <2>4
    <3> QED
      BY <2>1, <3>1, FS_Singleton
  <2> QED
    BY <2>3, <2>4
<1>5. AloneBooks => BooksAlone!OneExpenseEntry
  BY <1>4 DEF BooksAlone!OneExpenseEntry, BooksAlone!Cardinality, Cardinality
<1> QED
  BY <1>1, <1>2, <1>3, <1>5

\* The steps that change the journal.
LEMMA EntriesMove ==
  ASSUME NEW p, NEW max, BookSteps(p, max), ~ Inserts(p, max)
  PROVE  UNCHANGED entry \/ Books!RepostExpense(p) \/ Books!RemoveExpenseEntry(p) \/ Books!ReplaceEntry(p)
<1>1. CASE Books!CheckEntry(p)
  BY <1>1 DEF Books!CheckEntry
<1>2. CASE BookStarts(p)
  BY <1>2 DEF BookStarts, Books!ManualEntry, Books!CloseFiscalYear, Books!CreateExpense, Books!SyncSalary,
     Books!CorrectExpense, Books!UpdateExpense, Books!RemoveExpense, Books!StartRun
<1>3. CASE Books!WriteLine(p) \/ Books!CreatePayslip(p)
  BY <1>3 DEF Books!WriteLine, Books!CreatePayslip
<1>4. ASSUME NEW x \in ExpenseIds, Books!RecordLine(p, x) \/ Books!InsertSalaryLine(p, x) PROVE UNCHANGED entry
  BY <1>4, Zenon DEF Books!RecordLine, Books!InsertSalaryLine
<1>5. CASE Books!FindSalaryLine(p)
  <2>1. UNCHANGED <<entry, year>>
    BY <1>5, Zenon DEF Books!FindSalaryLine
  <2> QED
    BY <2>1
<1>6. CASE Books!NextLine(p) \/ Books!PayrollPosted(p) \/ Books!Unlock(p) \/ Books!FinanceCrash(p)
           \/ Books!SaveClosed(p) \/ Books!LedgerCrash(p)
  BY <1>6 DEF Books!NextLine, Books!PayrollPosted, Books!Unlock, Books!FinanceCrash,
     Books!SaveClosed, Books!LedgerCrash
<1> QED
  BY <1>1, <1>2, <1>3, <1>4, <1>5, <1>6 DEF BookSteps

\* The journal does not grow while the year is closed.
LEMMA ClosedYearGrowsNot ==
  BookInv({one}, MaxEntriesAlone) /\ AloneBooks /\ BooksNext({one}, MaxEntriesAlone) =>
    BooksAlone!ClosedYearTakesNothing
<1> SUFFICES ASSUME BookInv({one}, MaxEntriesAlone), AloneBooks, BooksNext({one}, MaxEntriesAlone)
             PROVE  BooksAlone!ClosedYearTakesNothing
  OBVIOUS
<1>1. CASE entry' \subseteq entry
  BY <1>1 DEF BooksAlone!ClosedYearTakesNothing
<1>2. CASE Inserts(one, MaxEntriesAlone)
  BY <1>2 DEF Inserts, AloneBooks, BooksAlone!ClosedYearTakesNothing
<1>3. CASE \E e \in entry : Books!ValidateDraftEntry(e)
  <2>1. PICK e \in entry : Books!ValidateDraftEntry(e)
    BY <1>3
  <2>2. EntriesSound(MaxEntriesAlone)
    BY DEF BookInv
  <2>3. PICK g : g = [e EXCEPT !.draft = FALSE]
    OBVIOUS
  <2>4. g.number = e.number
    BY <2>2, <2>3 DEF EntriesSound
  <2> QED
    BY <2>1, <2>3, <2>4 DEF Books!ValidateDraftEntry, BooksAlone!ClosedYearTakesNothing
<1>4. BookSteps(one, MaxEntriesAlone) /\ ~ Inserts(one, MaxEntriesAlone) => entry' \subseteq entry
  BY EntriesMove DEF Books!RepostExpense, Books!RemoveExpenseEntry, Books!ReplaceEntry
<1> QED
  BY <1>1, <1>2, <1>3, <1>4 DEF BooksNext, BookPauses, Books!ReopenFiscalYear

\* A run removes the simple entry of a salary when the detailed one is there.
LEMMA RunsKeepEntries ==
  BookInv(Calls, MaxEntries) /\ BooksNext(Calls, MaxEntries) => Books!PayrollKeepsEntry
<1> SUFFICES ASSUME BookInv(Calls, MaxEntries), BooksNext(Calls, MaxEntries), NEW p \in Calls, NEW x,
                    bookCall[p].at = "replace", bookCall'[p].at # "replace",
                    NEW e \in entry, e.source \in {"EXPENSE", "PAYROLL"}, e.of = x
             PROVE  \E f \in entry' : f.source \in {"EXPENSE", "PAYROLL"} /\ f.of = x
  BY DEF Books!PayrollKeepsEntry, Books!EntriesOf
<1>1. PICK q \in Calls : BookSteps(q, MaxEntries)
  BY DEF BooksNext, BookPauses
<1>2. CASE e \in entry'
  BY <1>2
<1>3. CASE Books!ReplaceEntry(q)
  <2>1. PICK c : c = bookCall[q]
    OBVIOUS
  <2>2. c.at = "replace" /\ entry' = entry \ Books!EntriesOf("EXPENSE", c.x)
    BY <1>3, <2>1 DEF Books!ReplaceEntry
  <2>3. PICK f \in entry : f.source = "PAYROLL" /\ f.of = c.x
    BY <2>1, <2>2 DEF BookInv, BookFound
  <2>4. f \in entry'
    BY <2>2, <2>3 DEF Books!EntriesOf
  <2>5. e.of # c.x => e \in entry'
    BY <2>2 DEF Books!EntriesOf
  <2> QED
    BY <2>3, <2>4, <2>5
<1>4. CASE Books!RepostExpense(q) \/ Books!RemoveExpenseEntry(q)
  <2>1. bookCall[q].at # "replace"
    BY <1>4 DEF Books!RepostExpense, Books!RemoveExpenseEntry
  <2>2. \E d : bookCall' = [bookCall EXCEPT ![q] = d]
    BY <1>4 DEF Books!RepostExpense, Books!RemoveExpenseEntry, Books!Posts, Books!GoesTo
  <2>3. DOMAIN bookCall = Calls
    BY DEF BookInv
  <2> QED
    BY <2>1, <2>2, <2>3
<1>5. Inserts(q, MaxEntries) => entry \subseteq entry'
  BY DEF Inserts
<1> QED
  BY <1>1, <1>2, <1>3, <1>4, <1>5, EntriesMove

LEMMA BooksInit ==
  /\ Books!FinanceInit => BookInv(Calls, MaxEntries) /\ PaidInv(Calls)
  /\ BooksAlone!FinanceInit => BookInv({one}, MaxEntriesAlone) /\ AloneBooks
<1>1. Books!FinanceInit => BookInv(Calls, MaxEntries) /\ PaidInv(Calls)
  BY BookInit, PaidInit DEF Books!FinanceInit, Books!LedgerInit
<1>2. BooksAlone!FinanceInit => BookInv({one}, MaxEntriesAlone) /\ AloneBooks
  <2>1. BooksAlone!Idle = Books!Idle /\ Books!Idle.at = "idle"
    BY DEF BooksAlone!Idle, Books!Idle
  <2> QED
    BY <2>1, BookInit DEF BooksAlone!FinanceInit, BooksAlone!LedgerInit, AloneBooks
<1> QED
  BY <1>1, <1>2

LEMMA BooksStands ==
  /\ UNCHANGED Books!financeVars => BookPauses
  /\ UNCHANGED BooksAlone!financeVars => BookPauses
BY DEF Books!financeVars, Books!ledgerVars, Books!financeRows, BookPauses,
   BooksAlone!financeVars, BooksAlone!ledgerVars, BooksAlone!financeRows

\* Whatever calls race and crash, an employee has one salary line in a month,
\* every reference stands for one entry, and the payslip of a line is posted once.
THEOREM SalaryLinesAreUnique ==
  Books!FinanceSpec => [](Books!FinanceTypeOK /\ Books!PayrollOnce)
<1> DEFINE Inv == BookInv(Calls, MaxEntries) /\ PaidInv(Calls)
<1>1. Books!FinanceInit => Inv
  BY BooksInit
<1>2. Inv /\ [Books!FinanceNext]_(Books!financeVars) => Inv'
  BY BookStep, PaidStep, BooksAreSteps, BooksStands, BookFacts DEF BooksNext
<1>3. Inv => Books!FinanceTypeOK /\ Books!PayrollOnce
  BY BooksShow, PaidShows
<1> QED
  BY <1>1, <1>2, <1>3, PTL DEF Books!FinanceSpec

\* No run of the payroll leaves a salary without the entry it had.
THEOREM SalariesKeepAnEntry == Books!FinanceSpec => [][Books!PayrollKeepsEntry]_(Books!financeVars)
<1> DEFINE Inv == BookInv(Calls, MaxEntries)
<1>1. Books!FinanceInit => Inv
  BY BooksInit
<1>2. Inv /\ [Books!FinanceNext]_(Books!financeVars) => Inv'
  BY BookStep, BooksAreSteps, BooksStands, BookFacts DEF BooksNext
<1>3. Inv /\ Books!FinanceNext => Books!PayrollKeepsEntry
  BY RunsKeepEntries, BooksAreSteps
<1> QED
  BY <1>1, <1>2, <1>3, PTL DEF Books!FinanceSpec

\* One call at a time: an expense has one EXPENSE entry at most, and a closed year
\* has no draft.
THEOREM ExpensesPostOnce == BooksAlone!FinanceSpec =>
  [](BooksAlone!OneExpenseEntry /\ BooksAlone!ClosedYearIsValidated)
<1> DEFINE Inv == BookInv({one}, MaxEntriesAlone) /\ AloneBooks
<1>1. BooksAlone!FinanceInit => Inv
  BY BooksInit
<1>2. Inv /\ [BooksAlone!FinanceNext]_(BooksAlone!financeVars) => Inv'
  BY BookStep, AloneBooksStep, AloneBooksAreSteps, BooksStands, BookFacts DEF BooksNext
<1>3. Inv => BooksAlone!OneExpenseEntry /\ BooksAlone!ClosedYearIsValidated
  BY BooksShow
<1> QED
  BY <1>1, <1>2, <1>3, PTL DEF BooksAlone!FinanceSpec

\* One call at a time, no entry is added to a closed year.
THEOREM ClosedYearsTakeNothing ==
  BooksAlone!FinanceSpec => [][BooksAlone!ClosedYearTakesNothing]_(BooksAlone!financeVars)
<1> DEFINE Inv == BookInv({one}, MaxEntriesAlone) /\ AloneBooks
<1>1. BooksAlone!FinanceInit => Inv
  BY BooksInit
<1>2. Inv /\ [BooksAlone!FinanceNext]_(BooksAlone!financeVars) => Inv'
  BY BookStep, AloneBooksStep, AloneBooksAreSteps, BooksStands, BookFacts DEF BooksNext
<1>3. Inv /\ BooksAlone!FinanceNext => BooksAlone!ClosedYearTakesNothing
  BY ClosedYearGrowsNot, AloneBooksAreSteps
<1> QED
  BY <1>1, <1>2, <1>3, PTL DEF BooksAlone!FinanceSpec

LEMMA BooksOnlyMoveThere ==
  ASSUME [Next]_vars
  PROVE  /\ service' = service
         /\ service = "ledger" => [Books!LedgerNext /\ UNCHANGED Books!financeRows]_(Books!financeVars)
         /\ service = "payroll" =>
              [Books!PayrollNext \/ \E p \in Calls : Books!FinanceCrash(p)]_(Books!financeVars)
         /\ service = "finance alone" => [BooksAlone!FinanceNext]_(Books!financeVars)
         /\ service = "ledger alone" => [BooksAlone!LedgerNext /\ UNCHANGED Books!financeRows]_(Books!financeVars)
<1>1. CASE BookNext
  <2>1. financeRows = Books!financeRows /\ (UNCHANGED financeRows => UNCHANGED Books!financeRows)
    BY DEF financeRows, Books!financeRows
  <2> QED
    BY <1>1, <2>1, Zenon DEF BookNext
<1>2. CASE UNCHANGED <<service, bookVars>>
  BY <1>2 DEF bookVars, financeRows, Books!financeVars, Books!ledgerVars, Books!financeRows
<1> QED
  BY <1>1, <1>2, Zenon DEF Next, BillNext, LeaveNext, ContractNext, StaffNext, CompanyNext, RoleNext, LevelNext, vars

BooksKeep ==
  /\ service = "ledger" => BookInv(Calls, MaxEntries)
  /\ service = "payroll" => BookInv(Calls, MaxEntries) /\ PaidInv(Calls)
  /\ service = "finance alone" => BookInv({one}, MaxEntriesAlone) /\ AloneBooks
  /\ service = "ledger alone" => BookInv({one}, MaxEntriesAlone) /\ AloneBooks

LEMMA BooksStep == BooksKeep /\ [Next]_vars => BooksKeep'
<1> SUFFICES ASSUME BooksKeep, [Next]_vars PROVE BooksKeep'
  OBVIOUS
<1>1. /\ service = "ledger" => BooksNext(Calls, MaxEntries)
      /\ service = "payroll" => BooksNext(Calls, MaxEntries)
      /\ service = "finance alone" => BooksNext({one}, MaxEntriesAlone)
      /\ service = "ledger alone" => BooksNext({one}, MaxEntriesAlone)
  BY BooksStands, BooksOnlyMoveThere, BooksAreSteps, AloneBooksAreSteps, Zenon DEF BooksNext
<1> QED
  BY <1>1, BooksOnlyMoveThere, BookStep, AloneBooksStep, PaidStep, BookFacts, Zenon DEF BooksKeep

LEMMA BooksStart == Init => BooksKeep
BY BooksInit, Zenon DEF Init, BooksKeep

\* Whatever calls race and crash, the journal uses no number twice, an employee
\* has one salary line, and a payslip is posted once; one call at a time, an
\* expense has one EXPENSE entry at most and a closed year no draft.
THEOREM JournalIsAlwaysSound == Spec => []JournalIsSound
<1>1. BooksKeep => JournalIsSound
  BY BooksShow, PaidShows, Zenon DEF BooksKeep, JournalIsSound
<1> QED
  BY <1>1, BooksStart, BooksStep, PTL DEF Spec

(***************************************************************************)
(* Invoices, whatever calls race, crash or are refused by the journal: an  *)
(* entity whose invoice was issued, and a month that is about to be        *)
(* marked, are in the journal.                                             *)
(***************************************************************************)

Invoices == Bill!InvoiceRecords

BillCalls ==
  [at : {"issue", "compare", "update", "schedule", "due", "recognize", "mark", "payment", "paid"},
   id : {Null, Invoice} \union Bill!Months, entity : Invoices \union {Null},
   columns : SUBSET {"status", "paid", "recognized"}, then : {"schedule", "recognize", "idle"},
   holds : (SUBSET Bill!Months) \union Nat \union {Null}]

BillFits(c) ==
  \/ c = Bill!Idle
  \/ /\ c \in BillCalls /\ billRow[Invoice] # Null
     /\ c.entity # Null /\ c.entity.status # "DRAFT" => posted[Invoice] > 0
     /\ c.at \in {"issue", "compare", "update", "mark", "payment", "paid"} => c.entity \in Invoices
     /\ c.at \in {"compare", "update"} => c.id = Invoice
     /\ c.at \in {"recognize", "mark"} \/ (c.at \in {"compare", "update"} /\ c.then = "recognize") =>
          c.holds \subseteq Bill!Months
     /\ c.at = "mark" => c.id \in Bill!Months /\ posted[c.id] > 0
     /\ c.at \in {"payment", "paid"} => c.holds \in Nat /\ c.entity.status # "DRAFT"

BillRows ==
  /\ billRow \in [{Invoice} \union Bill!Months -> Invoices \union Bill!MonthRecords \union {Null}]
  /\ billRow[Invoice] \in Invoices \union {Null}
  /\ \A m \in Bill!Months : billRow[m] \in Bill!MonthRecords \union {Null}
  /\ posted \in [{Invoice} \union Bill!Months -> Nat]

BillInv ==
  /\ BillRows /\ Bill!NothingUnposted
  /\ DOMAIN billCall = Calls /\ \A p \in Calls : BillFits(billCall[p])

LEMMA BillFacts ==
  /\ MonthCount \in Nat \ {0} /\ MaxPosted \in Nat \ {0} /\ Invoice \notin Bill!Months
  /\ Null \notin Invoices /\ Null \notin Bill!MonthRecords
BY InvoicesAssumption DEF Bill!BillingAssumption, Invoices

\* A call that moves; entries are only added, and the invoice stays.
LEMMA BillGoes ==
  ASSUME BillInv, NEW p \in Calls, NEW d, billCall' = [billCall EXCEPT ![p] = d], BillFits(d)',
         BillRows', Bill!NothingUnposted', billRow[Invoice] # Null => billRow'[Invoice] # Null,
         \A i \in {Invoice} \union Bill!Months : posted'[i] >= posted[i]
  PROVE  BillInv'
<1>1. DOMAIN billCall' = Calls /\ billCall'[p] = d /\ \A q \in Calls \ {p} : billCall'[q] = billCall[q]
  BY DEF BillInv
<1>2. \A i \in {Invoice} \union Bill!Months : posted[i] \in Nat /\ posted'[i] \in Nat /\ posted'[i] >= posted[i]
  BY DEF BillInv, BillRows
<1>3. ASSUME NEW q \in Calls \ {p} PROVE BillFits(billCall[q])'
  <2>1. PICK c : c = billCall[q]
    OBVIOUS
  <2>2. BillFits(c)
    BY <2>1 DEF BillInv
  <2>3. BillFits(c)'
    BY <1>2, <2>2 DEF BillFits
  <2> QED
    BY <1>1, <2>1, <2>3
<1> QED
  BY <1>1, <1>3 DEF BillInv

\* A call that moves without a change to rows and entries.
LEMMA BillPasses ==
  ASSUME BillInv, NEW p \in Calls, NEW d, billCall' = [billCall EXCEPT ![p] = d], BillFits(d),
         UNCHANGED <<billRow, posted>>
  PROVE  BillInv'
<1>1. BillRows' /\ Bill!NothingUnposted' /\ BillFits(d)'
  BY DEF BillInv, BillRows, Bill!NothingUnposted, Bill!Recorded, BillFits
<1>2. \A i \in {Invoice} \union Bill!Months : posted'[i] >= posted[i]
  BY DEF BillInv, BillRows
<1> QED
  BY <1>1, <1>2, BillGoes

LEMMA BillStarts ==
  ASSUME BillInv, NEW p \in Calls,
         \/ Bill!IssueInvoice(p) \/ Bill!RecognizeRevenue(p)
         \/ \E n \in Bill!Months : Bill!RecordPayment(p, n)
  PROVE  BillInv'
<1>1. BillRows /\ Bill!NothingUnposted
  BY DEF BillInv
<1>2. UNCHANGED <<billRow, posted>> /\ billRow[Invoice] \in Invoices
  <2>1. UNCHANGED <<billRow, payments, booked, posted>> /\ billRow[Invoice] # Null
    BY Zenon DEF Bill!IssueInvoice, Bill!RecognizeRevenue, Bill!RecordPayment
  <2> QED
    BY <1>1, <2>1 DEF BillRows
<1>3. ASSUME NEW d, billCall' = [billCall EXCEPT ![p] = d], d \in BillCalls,
             \/ d.at = "due" /\ d.entity = Null
             \/ d.at = "issue" /\ d.entity = billRow[Invoice]
             \/ d.at = "payment" /\ d.entity = billRow[Invoice] /\ d.holds \in Nat /\ d.entity.status # "DRAFT"
      PROVE  BillInv'
  <2>1. BillFits(d)
    BY <1>1, <1>2, <1>3, BillFacts DEF BillFits, Bill!NothingUnposted
  <2> QED
    BY <1>2, <1>3, <2>1, BillPasses
<1>4. CASE Bill!IssueInvoice(p)
  <2>1. PICK d : d = [Bill!NewCall EXCEPT !.at = "issue", !.entity = billRow[Invoice]]
    OBVIOUS
  <2>2. d = [at |-> "issue", id |-> Null, entity |-> billRow[Invoice], columns |-> {}, then |-> "idle", holds |-> Null]
    BY <2>1 DEF Bill!NewCall
  <2>3. d \in BillCalls /\ d.at = "issue" /\ d.entity = billRow[Invoice]
    BY <1>2, <2>2 DEF BillCalls
  <2>4. billCall' = [billCall EXCEPT ![p] = d]
    BY <1>4, <2>1 DEF Bill!IssueInvoice
  <2> QED
    BY <1>3, <2>3, <2>4
<1>5. CASE Bill!RecognizeRevenue(p)
  <2>1. PICK d : d = [Bill!NewCall EXCEPT !.at = "due"]
    OBVIOUS
  <2>2. d = [at |-> "due", id |-> Null, entity |-> Null, columns |-> {}, then |-> "idle", holds |-> Null]
    BY <2>1 DEF Bill!NewCall
  <2>3. d \in BillCalls /\ d.at = "due" /\ d.entity = Null
    BY <2>2 DEF BillCalls
  <2>4. billCall' = [billCall EXCEPT ![p] = d]
    BY <1>5, <2>1 DEF Bill!RecognizeRevenue
  <2> QED
    BY <1>3, <2>3, <2>4
<1>6. ASSUME NEW n \in Bill!Months, Bill!RecordPayment(p, n) PROVE BillInv'
  <2>1. PICK d : d = [Bill!NewCall EXCEPT !.at = "payment", !.entity = billRow[Invoice], !.holds = n]
    OBVIOUS
  <2>2. d = [at |-> "payment", id |-> Null, entity |-> billRow[Invoice], columns |-> {}, then |-> "idle", holds |-> n]
    BY <2>1 DEF Bill!NewCall
  <2>3. n \in Nat
    BY BillFacts DEF Bill!Months
  <2>4. d \in BillCalls /\ d.at = "payment" /\ d.entity = billRow[Invoice] /\ d.holds \in Nat
    BY <1>2, <2>2, <2>3 DEF BillCalls
  <2>5. billCall' = [billCall EXCEPT ![p] = d] /\ billRow[Invoice].status # "DRAFT"
    <3>1. billCall' = [billCall EXCEPT ![p] = d] /\ billRow[Invoice].status \in Bill!Payable
      BY <1>6, <2>1, Zenon DEF Bill!RecordPayment
    <3> QED
      BY <3>1 DEF Bill!Payable
  <2> QED
    BY <1>3, <2>4, <2>5
<1> QED
  BY <1>4, <1>5, <1>6

LEMMA BillEnds ==
  ASSUME BillInv, NEW p \in Calls, billCall' = [billCall EXCEPT ![p] = Bill!Idle], UNCHANGED <<billRow, posted>>
  PROVE  BillInv'
BY BillPasses DEF BillFits

\* An entry is posted: the invoice's, and it is to be saved as issued, or a
\* month's, and it is to be marked.
LEMMA BillPosts ==
  ASSUME BillInv, NEW p \in Calls, Bill!PostInvoice(p) \/ \E m \in Bill!Months : Bill!PostRecognition(p, m)
  PROVE  BillInv'
<1>1. PICK c : c = billCall[p]
  OBVIOUS
<1>2. c.at \in {"issue", "recognize"} /\ UNCHANGED billRow
  BY <1>1, Zenon DEF Bill!PostInvoice, Bill!PostRecognition
<1>3. c \in BillCalls /\ BillFits(c) /\ billRow[Invoice] \in Invoices /\ BillRows /\ Bill!NothingUnposted
      /\ c # Bill!Idle
  BY <1>1, <1>2 DEF BillInv, BillFits, Bill!Idle, BillRows
<1>4. ASSUME NEW i \in {Invoice} \union Bill!Months, posted' = [posted EXCEPT ![i] = posted[i] + 1],
             NEW d, billCall' = [billCall EXCEPT ![p] = d], BillFits(d)'
      PROVE  BillInv'
  <2>1. posted' \in [{Invoice} \union Bill!Months -> Nat]
        /\ \A j \in {Invoice} \union Bill!Months : posted'[j] >= posted[j] /\ posted[j] \in Nat /\ posted'[j] \in Nat
    BY <1>3, <1>4 DEF BillRows
  <2>2. BillRows'
    BY <1>2, <1>3, <2>1 DEF BillRows
  <2>3. Bill!NothingUnposted'
    BY <1>2, <1>3, <2>1 DEF Bill!NothingUnposted, Bill!Recorded
  <2> QED
    BY <1>2, <1>3, <1>4, <2>1, <2>2, <2>3, BillGoes
<1>5. CASE Bill!PostInvoice(p)
  <2>1. PICK x : x = [c.entity EXCEPT !.status = "ISSUED", !.recognized = 0]
    OBVIOUS
  <2>2. c.at = "issue"
    BY <1>1, <1>5 DEF Bill!PostInvoice
  <2>3. c.entity \in Invoices
    BY <1>3, <2>2 DEF BillFits
  <2>4. x \in Invoices
    BY <2>1, <2>3 DEF Invoices, Bill!InvoiceRecords
  <2>5. PICK d : d = Bill!Saving(c, Invoice, x, "schedule")
    OBVIOUS
  <2>6. d = [at |-> "compare", id |-> Invoice, entity |-> x, columns |-> c.columns, then |-> "schedule", holds |-> c.holds]
    BY <1>3, <2>5 DEF Bill!Saving, BillCalls
  <2>7. d \in BillCalls /\ d.at = "compare" /\ d.id = Invoice /\ d.entity = x /\ d.then = "schedule"
    BY <1>3, <2>4, <2>6 DEF BillCalls
  <2>8. posted' = [posted EXCEPT ![Invoice] = posted[Invoice] + 1]
    BY <1>5 DEF Bill!PostInvoice, Bill!Posts
  <2>9. billCall' = [billCall EXCEPT ![p] = d]
    BY <1>1, <1>5, <2>1, <2>5 DEF Bill!PostInvoice
  <2>10. posted'[Invoice] > 0
    BY <1>3, <2>8 DEF BillRows
  <2>11. BillFits(d)'
    BY <1>2, <1>3, <2>4, <2>7, <2>10, BillFacts DEF BillFits
  <2> QED
    BY <1>4, <2>8, <2>9, <2>11
<1>6. ASSUME NEW m \in Bill!Months, Bill!PostRecognition(p, m) PROVE BillInv'
  <2>1. PICK d : d = [[c EXCEPT !.id = m, !.entity = billRow[Invoice]] EXCEPT !.at = "mark"]
    OBVIOUS
  <2>2. c.at = "recognize" /\ posted' = [posted EXCEPT ![m] = posted[m] + 1]
    <3>1. c.at = "recognize" /\ Bill!Posts(m)
      BY <1>1, <1>6, Zenon DEF Bill!PostRecognition
    <3> QED
      BY <3>1 DEF Bill!Posts
  <2>3. c.holds \subseteq Bill!Months
    BY <1>3, <2>2 DEF BillFits
  <2>4. d = [at |-> "mark", id |-> m, entity |-> billRow[Invoice], columns |-> c.columns, then |-> c.then, holds |-> c.holds]
    BY <1>3, <2>1 DEF BillCalls
  <2>5. d \in BillCalls /\ d.at = "mark" /\ d.id = m /\ d.entity = billRow[Invoice] /\ d.holds = c.holds
    BY <1>3, <2>4 DEF BillCalls
  <2>6. billCall' = [billCall EXCEPT ![p] = d]
    BY <1>1, <1>6, <2>1, Zenon DEF Bill!PostRecognition, Bill!GoesTo
  <2>7. posted'[m] > 0 /\ (posted[Invoice] > 0 => posted'[Invoice] > 0)
    BY <1>3, <2>2 DEF BillRows
  <2>8. d.entity.status # "DRAFT" => posted'[Invoice] > 0
    BY <1>3, <2>5, <2>7, BillFacts DEF Bill!NothingUnposted
  <2>9. BillFits(d)'
    BY <1>2, <1>3, <2>3, <2>5, <2>7, <2>8, BillFacts DEF BillFits
  <2> QED
    BY <1>4, <2>2, <2>6, <2>9
<1> QED
  BY <1>5, <1>6

\* A call goes on with what it has: it looks for what is due, it ends, or the
\* payment is stored and added to the invoice it holds.
LEMMA BillGoesOn ==
  ASSUME BillInv, NEW p \in Calls,
         \/ Bill!Recognized(p) \/ Bill!InsertPayment(p) \/ Bill!PostPayment(p)
         \/ \E m \in Bill!Months : Bill!FindDue(p, m)
  PROVE  BillInv'
<1>1. PICK c : c = billCall[p]
  OBVIOUS
<1>2. c.at \in {"recognize", "payment", "paid", "due"} /\ UNCHANGED <<billRow, posted>>
  <2>1. c.at \in {"recognize", "payment", "paid", "due"} /\ UNCHANGED billRow
    BY <1>1, Zenon DEF Bill!Recognized, Bill!InsertPayment, Bill!PostPayment, Bill!FindDue
  <2>2. UNCHANGED posted
    <3>1. Bill!Recognized(p) \/ (\E m \in Bill!Months : Bill!FindDue(p, m)) =>
            UNCHANGED <<billRow, payments, booked, posted>>
      BY Zenon DEF Bill!Recognized, Bill!FindDue
    <3> QED
      BY <3>1 DEF Bill!InsertPayment, Bill!PostPayment
  <2> QED
    BY <2>1, <2>2
<1>3. c \in BillCalls /\ BillFits(c) /\ billRow[Invoice] \in Invoices /\ BillRows /\ c # Bill!Idle
  BY <1>1, <1>2 DEF BillInv, BillFits, Bill!Idle, BillRows
<1>4. CASE Bill!Recognized(p)
  BY <1>2, <1>4, BillEnds DEF Bill!Recognized, Bill!GoesTo
<1>5. CASE Bill!InsertPayment(p)
  <2>1. PICK d : d = [c EXCEPT !.at = "paid"]
    OBVIOUS
  <2>2. d \in BillCalls /\ d.at = "paid" /\ d.entity = c.entity /\ d.holds = c.holds
    BY <1>3, <2>1 DEF BillCalls
  <2>3. billCall' = [billCall EXCEPT ![p] = d] /\ c.at = "payment"
    BY <1>1, <1>5, <2>1 DEF Bill!InsertPayment, Bill!GoesTo
  <2>4. BillFits(d)
    BY <1>3, <2>2, <2>3 DEF BillFits
  <2> QED
    BY <1>2, <2>3, <2>4, BillPasses
<1>6. CASE Bill!PostPayment(p)
  <2>1. PICK paid, status : paid = c.entity.paid + c.holds
                            /\ status = (IF paid >= MonthCount THEN "PAID" ELSE "PARTIALLY_PAID")
    OBVIOUS
  <2>2. c.at = "paid"
    BY <1>1, <1>6 DEF Bill!PostPayment
  <2>3. c.entity \in Invoices /\ c.holds \in Nat /\ c.entity.status # "DRAFT" /\ posted[Invoice] > 0
    BY <1>3, <2>2, BillFacts DEF BillFits
  <2>4. PICK x : x = [c.entity EXCEPT !.paid = paid, !.status = status]
    OBVIOUS
  <2>5. x \in Invoices
    <3>1. paid \in Nat /\ status \in {"PAID", "PARTIALLY_PAID"}
      BY <2>1, <2>3 DEF Invoices, Bill!InvoiceRecords
    <3> QED
      BY <2>3, <2>4, <3>1 DEF Invoices, Bill!InvoiceRecords
  <2>6. PICK d : d = Bill!Saving(c, Invoice, x, "idle")
    OBVIOUS
  <2>7. d = [at |-> "compare", id |-> Invoice, entity |-> x, columns |-> c.columns, then |-> "idle", holds |-> c.holds]
    BY <1>3, <2>6 DEF Bill!Saving, BillCalls
  <2>8. d \in BillCalls /\ d.at = "compare" /\ d.id = Invoice /\ d.entity = x /\ d.then = "idle"
    BY <1>3, <2>5, <2>7 DEF BillCalls
  <2>9. billCall' = [billCall EXCEPT ![p] = d]
    BY <1>1, <1>6, <2>1, <2>4, <2>6 DEF Bill!PostPayment
  <2>10. BillFits(d)
    BY <1>3, <2>3, <2>5, <2>8 DEF BillFits
  <2> QED
    BY <1>2, <2>9, <2>10, BillPasses
<1>7. ASSUME NEW m \in Bill!Months, Bill!FindDue(p, m) PROVE BillInv'
  <2>1. PICK due : due = {n \in Bill!Unposted : n <= m}
    OBVIOUS
  <2>2. due \subseteq Bill!Months
    BY <2>1 DEF Bill!Unposted
  <2>3. PICK d : d = [[c EXCEPT !.holds = due] EXCEPT !.at = "recognize"]
    OBVIOUS
  <2>4. d = [at |-> "recognize", id |-> c.id, entity |-> c.entity, columns |-> c.columns, then |-> c.then, holds |-> due]
    BY <1>3, <2>3 DEF BillCalls
  <2>5. d \in BillCalls /\ d.at = "recognize" /\ d.entity = c.entity /\ d.holds = due
    BY <1>3, <2>2, <2>4 DEF BillCalls
  <2>6. billCall' = [billCall EXCEPT ![p] = d]
    BY <1>1, <1>7, <2>1, <2>3, Zenon DEF Bill!FindDue, Bill!GoesTo
  <2>7. BillFits(d)
    BY <1>3, <2>2, <2>5 DEF BillFits
  <2> QED
    BY <1>2, <2>6, <2>7, BillPasses
<1> QED
  BY <1>4, <1>5, <1>6, <1>7

\* The schedule is stored, or a month is marked, which is in the journal.
LEMMA BillMarks ==
  ASSUME BillInv, NEW p \in Calls, Bill!Schedule(p) \/ Bill!MarkPosted(p)
  PROVE  BillInv'
<1>1. PICK c : c = billCall[p]
  OBVIOUS
<1>2. c.at \in {"schedule", "mark"} /\ UNCHANGED posted
  <2>1. c.at \in {"schedule", "mark"} /\ UNCHANGED <<payments, booked, posted>>
    BY <1>1, Zenon DEF Bill!Schedule, Bill!MarkPosted
  <2> QED
    BY <2>1
<1>3. c \in BillCalls /\ BillFits(c) /\ billRow[Invoice] \in Invoices /\ BillRows /\ Bill!NothingUnposted
      /\ c # Bill!Idle
  BY <1>1, <1>2 DEF BillInv, BillFits, Bill!Idle, BillRows
<1>4. \A i \in {Invoice} \union Bill!Months : posted'[i] >= posted[i]
  BY <1>2, <1>3 DEF BillRows
<1>5. CASE Bill!Schedule(p) /\ \A m \in Bill!Months : billRow[m] = Null
  <2>1. billRow' = [i \in DOMAIN billRow |-> IF i \in Bill!Months THEN [posted |-> FALSE] ELSE billRow[i]]
    BY <1>5, Zenon DEF Bill!Schedule
  <2>2. billRow'[Invoice] = billRow[Invoice] /\ \A m \in Bill!Months : billRow'[m] = [posted |-> FALSE]
        /\ DOMAIN billRow' = {Invoice} \union Bill!Months
    BY <1>3, <2>1, BillFacts DEF BillRows
  <2>3. [posted |-> FALSE] \in Bill!MonthRecords
    BY DEF Bill!MonthRecords
  <2>4. BillRows' /\ Bill!NothingUnposted'
    <3>1. BillRows'
      BY <1>2, <1>3, <2>1, <2>2, <2>3 DEF BillRows
    <3> QED
      BY <1>2, <1>3, <2>2, <3>1 DEF Bill!NothingUnposted, Bill!Recorded
  <2>5. PICK d : d = [c EXCEPT !.at = "due"]
    OBVIOUS
  <2>6. d \in BillCalls /\ d.at = "due" /\ d.entity = c.entity
    BY <1>3, <2>5 DEF BillCalls
  <2>7. billCall' = [billCall EXCEPT ![p] = d]
    BY <1>1, <1>5, <2>5 DEF Bill!Schedule, Bill!GoesTo
  <2>8. BillFits(d)'
    BY <1>2, <1>3, <2>2, <2>6, BillFacts DEF BillFits
  <2> QED
    BY <1>3, <1>4, <2>2, <2>4, <2>7, <2>8, BillGoes
<1>6. CASE Bill!Schedule(p) /\ ~ \A m \in Bill!Months : billRow[m] = Null
  <2>1. Bill!Fails(p)
    BY <1>6, Zenon DEF Bill!Schedule
  <2> QED
    BY <1>2, <2>1, BillEnds DEF Bill!Fails
<1>7. CASE Bill!MarkPosted(p)
  <2>1. c.at = "mark"
    BY <1>1, <1>7 DEF Bill!MarkPosted
  <2>2. PICK m : m = c.id
    OBVIOUS
  <2>3. m \in Bill!Months /\ posted[m] > 0 /\ c.holds \subseteq Bill!Months /\ c.entity \in Invoices
    BY <1>3, <2>1, <2>2 DEF BillFits
  <2>4. billRow' = [billRow EXCEPT ![m] = [posted |-> TRUE]]
    BY <1>1, <1>7, <2>2 DEF Bill!MarkPosted
  <2>5. billRow'[Invoice] = billRow[Invoice] /\ billRow'[m] = [posted |-> TRUE]
        /\ \A n \in Bill!Months \ {m} : billRow'[n] = billRow[n]
    BY <1>3, <2>3, <2>4, BillFacts DEF BillRows
  <2>6. [posted |-> TRUE] \in Bill!MonthRecords
    BY DEF Bill!MonthRecords
  <2>7. BillRows'
    BY <1>2, <1>3, <2>3, <2>4, <2>5, <2>6 DEF BillRows
  <2>8. Bill!NothingUnposted'
    BY <1>2, <1>3, <2>3, <2>5 DEF Bill!NothingUnposted, Bill!Recorded
  <2>9. PICK x : x = [c.entity EXCEPT !.recognized = c.entity.recognized + 1]
    OBVIOUS
  <2>10. x \in Invoices /\ x.status = c.entity.status
    BY <2>3, <2>9 DEF Invoices, Bill!InvoiceRecords
  <2>11. PICK d : d = Bill!Saving([c EXCEPT !.holds = c.holds \ {m}], Invoice, x, "recognize")
    OBVIOUS
  <2>12. d = [at |-> "compare", id |-> Invoice, entity |-> x, columns |-> c.columns, then |-> "recognize",
              holds |-> c.holds \ {m}]
    BY <1>3, <2>11 DEF Bill!Saving, BillCalls
  <2>13. d \in BillCalls /\ d.at = "compare" /\ d.id = Invoice /\ d.entity = x /\ d.holds \subseteq Bill!Months
    BY <1>3, <2>3, <2>10, <2>12 DEF BillCalls
  <2>14. billCall' = [billCall EXCEPT ![p] = d]
    <3>1. billCall' = [billCall EXCEPT ![p] = Bill!Saving([c EXCEPT !.holds = c.holds \ {c.id}], Invoice,
                                   [c.entity EXCEPT !.recognized = c.entity.recognized + 1], "recognize")]
      BY <1>1, <1>7 DEF Bill!MarkPosted
    <3> QED
      BY <2>2, <2>9, <2>11, <3>1
  <2>15. BillFits(d)'
    BY <1>2, <1>3, <2>3, <2>5, <2>10, <2>13, BillFacts DEF BillFits
  <2> QED
    BY <1>3, <1>4, <2>5, <2>7, <2>8, <2>14, <2>15, BillGoes
<1> QED
  BY <1>5, <1>6, <1>7

\* The invoice is saved: its status is the stored one or that of the entity.
LEMMA BillSaves ==
  ASSUME BillInv, NEW p \in Calls, Bill!SaveInvoice(p)
  PROVE  BillInv'
<1>1. PICK c : c = billCall[p]
  OBVIOUS
<1>2. c.at \in {"compare", "update"} /\ UNCHANGED posted
  <2>1. c.at \in {"compare", "update"} /\ UNCHANGED <<payments, booked, posted>>
    BY <1>1, Zenon DEF Bill!SaveInvoice, Bill!CompareSave, Bill!UpdateSave
  <2> QED
    BY <2>1
<1>3. c \in BillCalls /\ BillFits(c) /\ billRow[Invoice] \in Invoices /\ BillRows /\ Bill!NothingUnposted
      /\ c # Bill!Idle
  BY <1>1, <1>2 DEF BillInv, BillFits, Bill!Idle, BillRows
<1>4. c.entity \in Invoices /\ c.id = Invoice /\ (c.entity.status # "DRAFT" => posted[Invoice] > 0)
      /\ (c.then = "recognize" => c.holds \subseteq Bill!Months)
  BY <1>2, <1>3, BillFacts DEF BillFits
<1>5. DOMAIN c.entity = {"status", "paid", "recognized"}
      /\ DOMAIN billRow[Invoice] = {"status", "paid", "recognized"}
  BY <1>3, <1>4 DEF Invoices, Bill!InvoiceRecords
<1>6. CASE Bill!CompareSave(p)
  <2>1. c.at = "compare" /\ UNCHANGED billRow
    BY <1>1, <1>6 DEF Bill!CompareSave
  <2>2. PICK cols : cols = Bill!Differing(c.entity, billRow[Invoice])
    OBVIOUS
  <2>3. cols \subseteq {"status", "paid", "recognized"}
    BY <1>5, <2>2 DEF Bill!Differing
  <2>4. billCall' = [billCall EXCEPT ![p].at = "update", ![p].columns = cols]
    BY <1>1, <1>3, <1>4, <1>6, <2>2, BillFacts DEF Bill!CompareSave
  <2>5. PICK d : d = [c EXCEPT !.at = "update", !.columns = cols]
    OBVIOUS
  <2>6. billCall' = [billCall EXCEPT ![p] = d]
    BY <1>1, <2>4, <2>5 DEF BillInv
  <2>7. d \in BillCalls /\ d.at = "update" /\ d.id = c.id /\ d.entity = c.entity /\ d.then = c.then /\ d.holds = c.holds
    BY <1>3, <2>3, <2>5 DEF BillCalls
  <2>8. BillFits(d)
    BY <1>3, <1>4, <2>7 DEF BillFits
  <2> QED
    BY <1>2, <2>1, <2>6, <2>8, BillPasses
<1>7. CASE Bill!UpdateSave(p, TRUE)
  <2>1. PICK r : r = billRow[Invoice]
    OBVIOUS
  <2>2. PICK w : w = [k \in DOMAIN r |-> IF k \in c.columns THEN c.entity[k] ELSE r[k]]
    OBVIOUS
  <2>3. c.at = "update" /\ billRow' = [billRow EXCEPT ![Invoice] = w]
    BY <1>1, <1>3, <1>4, <1>7, <2>1, <2>2, BillFacts DEF Bill!UpdateSave, Bill!Written, Bill!Updated
  <2>4. w \in Invoices /\ w.status \in {c.entity.status, r.status}
    <3>1. w = [status |-> w["status"], paid |-> w["paid"], recognized |-> w["recognized"]]
      BY <1>5, <2>1, <2>2
    <3>2. w["status"] \in {c.entity["status"], r["status"]} /\ w["paid"] \in {c.entity["paid"], r["paid"]}
          /\ w["recognized"] \in {c.entity["recognized"], r["recognized"]}
      BY <1>5, <2>1, <2>2
    <3> QED
      BY <1>3, <1>4, <2>1, <3>1, <3>2 DEF Invoices, Bill!InvoiceRecords
  <2>5. billRow'[Invoice] = w /\ \A m \in Bill!Months : billRow'[m] = billRow[m]
    BY <1>3, <2>3, BillFacts DEF BillRows
  <2>6. BillRows'
    BY <1>2, <1>3, <2>3, <2>4, <2>5 DEF BillRows
  <2>7. Bill!NothingUnposted'
    BY <1>2, <1>3, <1>4, <2>1, <2>4, <2>5, BillFacts DEF Bill!NothingUnposted, Bill!Recorded
  <2>8. PICK d : d = IF c.then = "idle" THEN Bill!Idle ELSE [[c EXCEPT !.columns = {}] EXCEPT !.at = c.then]
    OBVIOUS
  <2>9. billCall' = [billCall EXCEPT ![p] = d]
    BY <1>1, <1>7, <2>8 DEF Bill!UpdateSave, Bill!GoesTo
  <2>10. BillFits(d)'
    <3>1. CASE c.then = "idle"
      BY <2>8, <3>1 DEF BillFits
    <3>2. CASE c.then # "idle"
      <4>1. d = [at |-> c.then, id |-> c.id, entity |-> c.entity, columns |-> {}, then |-> c.then, holds |-> c.holds]
        BY <1>3, <2>8, <3>2 DEF BillCalls
      <4>2. c.then \in {"schedule", "recognize"}
        BY <1>3, <3>2 DEF BillCalls
      <4>3. d \in BillCalls /\ d.at = c.then /\ d.entity = c.entity /\ d.holds = c.holds
        BY <1>3, <4>1, <4>2 DEF BillCalls
      <4> QED
        BY <1>2, <1>4, <2>4, <2>5, <4>2, <4>3, BillFacts DEF BillFits
    <3> QED
      BY <3>1, <3>2
  <2>11. \A i \in {Invoice} \union Bill!Months : posted'[i] >= posted[i]
    BY <1>2, <1>3 DEF BillRows
  <2> QED
    BY <2>4, <2>5, <2>6, <2>7, <2>9, <2>10, <2>11, BillFacts, BillGoes
<1> QED
  BY <1>6, <1>7 DEF Bill!SaveInvoice

LEMMA BillStep == BillInv /\ [Bill!BillingNext \/ Bill!BillingFaults]_(Bill!billingVars) => BillInv'
<1> SUFFICES ASSUME BillInv, [Bill!BillingNext \/ Bill!BillingFaults]_(Bill!billingVars) PROVE BillInv'
  OBVIOUS
<1>1. ASSUME NEW p \in Calls, Bill!BillingStep(p) PROVE BillInv'
  <2>1. CASE Bill!JournalRefuses(p)
    <3>1. Bill!Fails(p) /\ UNCHANGED <<payments, booked, posted>>
      BY <2>1, Zenon DEF Bill!JournalRefuses
    <3> QED
      BY <3>1, BillEnds DEF Bill!Fails
  <2> QED
    BY <1>1, <2>1, BillStarts, BillPosts, BillGoesOn, BillMarks, BillSaves DEF Bill!BillingStep
<1>2. CASE Bill!CreateInvoice
  <2>1. PICK r : r = [status |-> "DRAFT", paid |-> 0, recognized |-> 0]
    OBVIOUS
  <2>2. r \in Invoices /\ r.status = "DRAFT"
    BY <2>1 DEF Invoices, Bill!InvoiceRecords
  <2>3. billRow[Invoice] = Null /\ billRow' = [billRow EXCEPT ![Invoice] = r] /\ UNCHANGED <<billCall, posted>>
    BY <1>2, <2>1 DEF Bill!CreateInvoice
  <2>4. billRow'[Invoice] = r /\ \A m \in Bill!Months : billRow'[m] = billRow[m]
    BY <2>3, BillFacts DEF BillInv, BillRows
  <2>5. BillRows'
    BY <2>2, <2>3, <2>4 DEF BillInv, BillRows
  <2>6. Bill!NothingUnposted'
    BY <2>2, <2>3, <2>4 DEF BillInv, Bill!NothingUnposted, Bill!Recorded
  <2>7. ASSUME NEW p \in Calls PROVE BillFits(billCall[p])'
    BY <2>3 DEF BillInv, BillFits
  <2> QED
    BY <2>3, <2>5, <2>6, <2>7 DEF BillInv
<1>3. ASSUME NEW p \in Calls, Bill!Crash(p), UNCHANGED <<payments, booked, posted>> PROVE BillInv'
  <2>1. Bill!Fails(p) /\ UNCHANGED <<payments, booked, posted>>
    BY <1>3, Zenon DEF Bill!Crash
  <2> QED
    BY <2>1, BillEnds DEF Bill!Fails
<1>4. CASE UNCHANGED Bill!billingVars
  BY <1>4 DEF Bill!billingVars, BillInv, BillRows, Bill!NothingUnposted, Bill!Recorded, BillFits
<1> QED
  BY <1>1, <1>2, <1>3, <1>4 DEF Bill!BillingNext, Bill!BillingFaults

LEMMA BillInit == Bill!BillingInit => BillInv
<1> SUFFICES ASSUME Bill!BillingInit PROVE BillInv
  OBVIOUS
<1>1. BillRows /\ Bill!NothingUnposted
  BY DEF Bill!BillingInit, BillRows, Bill!NothingUnposted, Bill!Recorded
<1> QED
  BY <1>1 DEF BillInv, Bill!BillingInit, BillFits

\* What is issued or recognized is in the journal, whatever calls race, crash or
\* are refused.
THEOREM RevenueIsPosted == Bill!BillingFaultSpec => []Bill!NothingUnposted
<1>1. BillInv => Bill!NothingUnposted
  BY DEF BillInv
<1> QED
  BY <1>1, BillInit, BillStep, PTL DEF Bill!BillingFaultSpec

(***************************************************************************)
(* An invoice that one call at a time changes: what the call holds is the  *)
(* invoice as it is, or as it is about to be saved, and that one agrees    *)
(* with the payments the journal took and with the months.                 *)
(***************************************************************************)

RecordedMonths == Cardinality(BillAlone!Recorded)

\* The invoice is paid when the whole of it is paid, and not beyond it.
Within(x) ==
  /\ x.paid <= MonthCountAlone /\ x.recognized <= MonthCountAlone
  /\ x.status = "PAID" <=> x.paid = MonthCountAlone

\* Its sums are those of the booked payments and of the months; a draft has none.
Agrees(x) ==
  /\ x.paid = booked /\ x.recognized = RecordedMonths
  /\ x.status = "DRAFT" => booked = 0 /\ \A m \in BillAlone!Months : billRow[m] = Null

SoleCalls ==
  [at : {"issue", "compare", "update", "schedule", "due", "recognize", "mark", "payment", "paid"},
   id : {Null, Invoice} \union BillAlone!Months, entity : Invoices \union {Null},
   columns : SUBSET {"status", "paid", "recognized"}, then : {"schedule", "recognize", "idle"},
   holds : (SUBSET BillAlone!Months) \union Nat \union {Null}]

\* Between calls the invoice agrees, and before it exists there is nothing.
SoleRests ==
  IF billRow[Invoice] = Null
  THEN booked = 0 /\ \A m \in BillAlone!Months : billRow[m] = Null
  ELSE Agrees(billRow[Invoice])

SoleHolds(c, r) ==
  /\ c.at \in {"schedule", "due", "recognize", "mark", "issue", "payment", "paid"} => Agrees(r)
  /\ c.at \in {"issue", "mark", "payment", "paid"} => c.entity = r
  /\ c.at \in {"compare", "update"} =>
       /\ c.id = Invoice /\ c.entity \in Invoices /\ c.entity.status # "DRAFT"
       /\ Agrees(c.entity) /\ Within(c.entity)
  /\ c.at = "update" => c.columns = BillAlone!Differing(c.entity, r)
  /\ c.at \in {"recognize", "mark"} \/ (c.at \in {"compare", "update"} /\ c.then = "recognize") =>
       c.holds \subseteq BillAlone!Unposted
  /\ c.at = "mark" => c.id \in c.holds
  /\ c.at = "issue" => r.status = "DRAFT"
  /\ c.at = "schedule" => r.status # "DRAFT"
  /\ c.at \in {"payment", "paid"} =>
       c.holds \in BillAlone!Months /\ r.paid + c.holds <= MonthCountAlone /\ r.status \in BillAlone!Payable

SoleFits(c) ==
  \/ c = BillAlone!Idle /\ SoleRests
  \/ c \in SoleCalls /\ billRow[Invoice] # Null /\ SoleHolds(c, billRow[Invoice])

SoleRows ==
  /\ billRow \in [{Invoice} \union BillAlone!Months -> Invoices \union Bill!MonthRecords \union {Null}]
  /\ billRow[Invoice] \in Invoices \union {Null}
  /\ \A m \in BillAlone!Months : billRow[m] \in Bill!MonthRecords \union {Null}
  /\ booked \in Nat
  /\ billRow[Invoice] # Null => Within(billRow[Invoice])

SoleBill ==
  SoleRows /\ billCall = [p \in {one} |-> billCall[one]] /\ SoleFits(billCall[one])

LEMMA SoleFacts ==
  /\ MonthCountAlone \in Nat \ {0} /\ Invoice \notin BillAlone!Months
  /\ Null \notin Invoices /\ Null \notin Bill!MonthRecords
BY InvoicesAssumption DEF Bill!BillingAssumption, BillAlone!BillingAssumption, Invoices,
   Bill!InvoiceRecords, BillAlone!InvoiceRecords, Bill!MonthRecords, BillAlone!MonthRecords

\* As many months are counted as there are, at most.
LEMMA CountedMonths ==
  ASSUME NEW S, S \subseteq BillAlone!Months
  PROVE  IsFiniteSet(S) /\ Cardinality(S) \in Nat /\ Cardinality(S) <= MonthCountAlone
<1>1. IsFiniteSet(BillAlone!Months) /\ Cardinality(BillAlone!Months) = MonthCountAlone
  BY FS_Interval, SoleFacts DEF BillAlone!Months
<1> QED
  BY <1>1, FS_Subset, FS_CardinalityType

LEMMA SoleGoes ==
  ASSUME SoleBill, NEW d, billCall' = [billCall EXCEPT ![one] = d], SoleFits(d)', SoleRows'
  PROVE  SoleBill'
BY DEF SoleBill

\* A call that moves without a change to rows and booked payments.
LEMMA SolePasses ==
  ASSUME SoleBill, NEW d, billCall' = [billCall EXCEPT ![one] = d], SoleFits(d),
         UNCHANGED <<billRow, booked>>
  PROVE  SoleBill'
<1>1. SoleRows'
  <2>1. PICK r : r = billRow[Invoice]
    OBVIOUS
  <2>2. (r # Null => Within(r)) /\ r = billRow'[Invoice]
    BY <2>1 DEF SoleBill, SoleRows
  <2> QED
    BY <2>2 DEF SoleBill, SoleRows, Within
<1>2. UNCHANGED BillAlone!Recorded /\ UNCHANGED BillAlone!Unposted
  BY DEF BillAlone!Recorded, BillAlone!Unposted
<1>3. UNCHANGED RecordedMonths
  BY <1>2 DEF RecordedMonths
<1>4. ASSUME NEW x, Agrees(x) PROVE Agrees(x)'
  <2>1. billRow' = billRow /\ booked' = booked
    OBVIOUS
  <2> QED
    BY <1>3, <1>4, <2>1 DEF Agrees, BillAlone!Months
<1>5. SoleRests => SoleRests'
  BY <1>4 DEF SoleRests
<1>6. SoleHolds(d, billRow[Invoice]) => SoleHolds(d, billRow[Invoice])'
  BY <1>2, <1>3, <1>4 DEF SoleHolds
<1>7. SoleFits(d)'
  BY <1>5, <1>6 DEF SoleFits
<1> QED
  BY <1>1, <1>7, SoleGoes

\* A call begins with the invoice as it is.
LEMMA SoleStarts ==
  ASSUME SoleBill,
         \/ BillAlone!IssueInvoice(one) \/ BillAlone!RecognizeRevenue(one)
         \/ \E n \in BillAlone!Months : BillAlone!RecordPayment(one, n)
  PROVE  SoleBill'
<1>1. PICK r : r = billRow[Invoice]
  OBVIOUS
<1>2. UNCHANGED <<billRow, booked>> /\ billCall[one] = BillAlone!Idle /\ r # Null
  <2>1. UNCHANGED <<billRow, payments, booked, posted>> /\ billCall[one] = BillAlone!Idle /\ r # Null
    BY <1>1, Zenon DEF BillAlone!IssueInvoice, BillAlone!RecognizeRevenue, BillAlone!RecordPayment
  <2> QED
    BY <2>1
<1>3. r \in Invoices /\ Within(r)
  BY <1>1, <1>2 DEF SoleBill, SoleRows
<1>4. Agrees(r)
  BY <1>1, <1>2 DEF SoleBill, SoleFits, SoleRests, SoleCalls, BillAlone!Idle
<1>5. ASSUME NEW d, billCall' = [billCall EXCEPT ![one] = d], d \in SoleCalls,
             \/ d.at = "due"
             \/ d.at = "issue" /\ d.entity = r /\ r.status = "DRAFT"
             \/ /\ d.at = "payment" /\ d.entity = r /\ r.status \in BillAlone!Payable
                /\ d.holds \in BillAlone!Months /\ r.paid + d.holds <= MonthCountAlone
      PROVE  SoleBill'
  <2>1. SoleFits(d)
    BY <1>1, <1>2, <1>4, <1>5 DEF SoleFits, SoleHolds
  <2> QED
    BY <1>2, <1>5, <2>1, SolePasses
<1>6. CASE BillAlone!IssueInvoice(one)
  <2>1. PICK d : d = [BillAlone!NewCall EXCEPT !.at = "issue", !.entity = r]
    OBVIOUS
  <2>2. d = [at |-> "issue", id |-> Null, entity |-> r, columns |-> {}, then |-> "idle", holds |-> Null]
    BY <2>1 DEF BillAlone!NewCall
  <2>3. d \in SoleCalls /\ d.at = "issue" /\ d.entity = r
    BY <1>3, <2>2 DEF SoleCalls
  <2>4. billCall' = [billCall EXCEPT ![one] = d] /\ r.status = "DRAFT"
    BY <1>1, <1>6, <2>1 DEF BillAlone!IssueInvoice
  <2> QED
    BY <1>5, <2>3, <2>4
<1>7. CASE BillAlone!RecognizeRevenue(one)
  <2>1. PICK d : d = [BillAlone!NewCall EXCEPT !.at = "due"]
    OBVIOUS
  <2>2. d = [at |-> "due", id |-> Null, entity |-> Null, columns |-> {}, then |-> "idle", holds |-> Null]
    BY <2>1 DEF BillAlone!NewCall
  <2>3. d \in SoleCalls /\ d.at = "due"
    BY <2>2 DEF SoleCalls
  <2>4. billCall' = [billCall EXCEPT ![one] = d]
    BY <1>7, <2>1 DEF BillAlone!RecognizeRevenue
  <2> QED
    BY <1>5, <2>3, <2>4
<1>8. ASSUME NEW n \in BillAlone!Months, BillAlone!RecordPayment(one, n) PROVE SoleBill'
  <2>1. PICK d : d = [BillAlone!NewCall EXCEPT !.at = "payment", !.entity = r, !.holds = n]
    OBVIOUS
  <2>2. d = [at |-> "payment", id |-> Null, entity |-> r, columns |-> {}, then |-> "idle", holds |-> n]
    BY <2>1 DEF BillAlone!NewCall
  <2>3. n \in Nat
    BY SoleFacts DEF BillAlone!Months
  <2>4. d \in SoleCalls /\ d.at = "payment" /\ d.entity = r /\ d.holds = n
    BY <1>3, <2>2, <2>3 DEF SoleCalls
  <2>5. billCall' = [billCall EXCEPT ![one] = d] /\ r.status \in BillAlone!Payable
        /\ n <= MonthCountAlone - r.paid
    BY <1>1, <1>8, <2>1, Zenon DEF BillAlone!RecordPayment
  <2>6. r.paid + n <= MonthCountAlone
    BY <1>3, <2>3, <2>5, SoleFacts DEF Invoices, Bill!InvoiceRecords
  <2> QED
    BY <1>5, <2>4, <2>5, <2>6
<1> QED
  BY <1>6, <1>7, <1>8

\* The invoice is created when there is nothing of it yet, and no call.
LEMMA SoleCreates ==
  ASSUME SoleBill, BillAlone!CreateInvoice
  PROVE  SoleBill'
<1>1. PICK r : r = [status |-> "DRAFT", paid |-> 0, recognized |-> 0]
  OBVIOUS
<1>2. r \in Invoices /\ r.status = "DRAFT" /\ r.paid = 0 /\ r.recognized = 0
  BY <1>1 DEF Invoices, Bill!InvoiceRecords
<1>3. billRow[Invoice] = Null /\ billRow' = [billRow EXCEPT ![Invoice] = r] /\ UNCHANGED <<billCall, booked>>
  BY <1>1 DEF BillAlone!CreateInvoice
<1>4. billCall[one] = BillAlone!Idle /\ booked = 0 /\ \A m \in BillAlone!Months : billRow[m] = Null
  BY <1>3 DEF SoleBill, SoleFits, SoleRests
<1>5. billRow'[Invoice] = r /\ \A m \in BillAlone!Months : billRow'[m] = billRow[m]
  BY <1>3, SoleFacts DEF SoleBill, SoleRows
<1>6. Within(r)
  BY <1>2, SoleFacts DEF Within
<1>7. SoleRows'
  BY <1>2, <1>3, <1>5, <1>6 DEF SoleBill, SoleRows, Within
<1>8. RecordedMonths' = 0
  <2>1. BillAlone!Recorded' = {}
    BY <1>4, <1>5 DEF BillAlone!Recorded
  <2> QED
    BY <2>1, FS_EmptySet DEF RecordedMonths
<1>9. SoleFits(billCall[one])'
  BY <1>2, <1>3, <1>4, <1>5, <1>8, SoleFacts DEF SoleFits, SoleRests, Agrees
<1> QED
  BY <1>3, <1>7, <1>9 DEF SoleBill

\* A call that ends while the invoice agrees.
LEMMA SoleEnds ==
  ASSUME SoleBill, billCall' = [billCall EXCEPT ![one] = BillAlone!Idle], UNCHANGED <<billRow, booked>>,
         Agrees(billRow[Invoice]), billRow[Invoice] # Null
  PROVE  SoleBill'
<1>1. SoleFits(BillAlone!Idle)
  BY DEF SoleFits, SoleRests
<1> QED
  BY <1>1, SolePasses

\* What a call holds while it moves.
LEMMA SoleHeld ==
  ASSUME SoleBill, billCall[one] # BillAlone!Idle
  PROVE  /\ billCall[one] \in SoleCalls /\ billRow[Invoice] \in Invoices
         /\ SoleHolds(billCall[one], billRow[Invoice]) /\ Within(billRow[Invoice])
BY DEF SoleBill, SoleFits, SoleRows

\* An entry is posted: the invoice is to be saved as issued, with nothing
\* recognized, as it was a draft.
LEMMA SoleIssues ==
  ASSUME SoleBill, BillAlone!PostInvoice(one)
  PROVE  SoleBill'
<1>1. PICK c : c = billCall[one]
  OBVIOUS
<1>2. PICK r : r = billRow[Invoice]
  OBVIOUS
<1>3. c.at = "issue" /\ UNCHANGED <<billRow, booked>>
  BY <1>1 DEF BillAlone!PostInvoice
<1>4. c \in SoleCalls /\ r \in Invoices /\ SoleHolds(c, r) /\ Within(r)
  BY <1>1, <1>2, <1>3, SoleHeld DEF BillAlone!Idle
<1>5. PICK x : x = [c.entity EXCEPT !.status = "ISSUED", !.recognized = 0]
  OBVIOUS
<1>6. c.entity = r /\ r.status = "DRAFT" /\ Agrees(r)
  BY <1>3, <1>4 DEF SoleHolds
<1>7. RecordedMonths = 0
  <2>1. BillAlone!Recorded = {}
    BY <1>6 DEF Agrees, BillAlone!Recorded
  <2> QED
    BY <2>1, FS_EmptySet DEF RecordedMonths
<1>8. x \in Invoices /\ x.status = "ISSUED" /\ x.recognized = 0 /\ x.paid = r.paid
  BY <1>4, <1>5, <1>6 DEF Invoices, Bill!InvoiceRecords
<1>9. Agrees(x) /\ Within(x)
  BY <1>4, <1>6, <1>7, <1>8, SoleFacts DEF Agrees, Within
<1>10. PICK d : d = BillAlone!Saving(c, Invoice, x, "schedule")
  OBVIOUS
<1>11. d = [at |-> "compare", id |-> Invoice, entity |-> x, columns |-> c.columns, then |-> "schedule", holds |-> c.holds]
  BY <1>4, <1>10 DEF BillAlone!Saving, SoleCalls
<1>12. d \in SoleCalls /\ d.at = "compare" /\ d.id = Invoice /\ d.entity = x /\ d.then = "schedule"
  BY <1>4, <1>8, <1>11 DEF SoleCalls
<1>13. billCall' = [billCall EXCEPT ![one] = d]
  BY <1>1, <1>5, <1>10 DEF BillAlone!PostInvoice
<1>14. SoleFits(d)
  BY <1>2, <1>4, <1>8, <1>9, <1>12, SoleFacts DEF SoleFits, SoleHolds
<1> QED
  BY <1>3, <1>13, <1>14, SolePasses

\* A month is posted and is to be marked; it is still due.
LEMMA SolePosts ==
  ASSUME SoleBill, NEW m \in BillAlone!Months, BillAlone!PostRecognition(one, m)
  PROVE  SoleBill'
<1>1. PICK c : c = billCall[one]
  OBVIOUS
<1>2. PICK r : r = billRow[Invoice]
  OBVIOUS
<1>3. c.at = "recognize" /\ m \in c.holds /\ UNCHANGED <<billRow, booked>>
  BY <1>1, Zenon DEF BillAlone!PostRecognition
<1>4. c \in SoleCalls /\ r \in Invoices /\ SoleHolds(c, r) /\ Within(r)
  BY <1>1, <1>2, <1>3, SoleHeld DEF BillAlone!Idle
<1>5. PICK d : d = [[c EXCEPT !.id = m, !.entity = billRow[Invoice]] EXCEPT !.at = "mark"]
  OBVIOUS
<1>6. d = [at |-> "mark", id |-> m, entity |-> r, columns |-> c.columns, then |-> c.then, holds |-> c.holds]
  BY <1>2, <1>4, <1>5 DEF SoleCalls
<1>7. d \in SoleCalls /\ d.at = "mark" /\ d.id = m /\ d.entity = r /\ d.holds = c.holds
  BY <1>4, <1>6 DEF SoleCalls
<1>8. billCall' = [billCall EXCEPT ![one] = d]
  BY <1>1, <1>5, Zenon DEF BillAlone!PostRecognition, BillAlone!GoesTo
<1>9. SoleFits(d)
  BY <1>2, <1>3, <1>4, <1>7, SoleFacts DEF SoleFits, SoleHolds
<1> QED
  BY <1>3, <1>8, <1>9, SolePasses

\* The months that are due are found, or all of them are done.
LEMMA SoleFinds ==
  ASSUME SoleBill, BillAlone!Recognized(one) \/ \E m \in BillAlone!Months : BillAlone!FindDue(one, m)
  PROVE  SoleBill'
<1>1. PICK c : c = billCall[one]
  OBVIOUS
<1>2. PICK r : r = billRow[Invoice]
  OBVIOUS
<1>3. c.at \in {"recognize", "due"} /\ UNCHANGED <<billRow, booked>>
  <2>1. c.at \in {"recognize", "due"} /\ UNCHANGED <<billRow, payments, booked, posted>>
    BY <1>1, Zenon DEF BillAlone!Recognized, BillAlone!FindDue
  <2> QED
    BY <2>1
<1>4. c \in SoleCalls /\ r \in Invoices /\ SoleHolds(c, r) /\ Within(r)
  BY <1>1, <1>2, <1>3, SoleHeld DEF BillAlone!Idle
<1>5. Agrees(r)
  BY <1>3, <1>4 DEF SoleHolds
<1>6. CASE BillAlone!Recognized(one)
  BY <1>2, <1>3, <1>4, <1>5, <1>6, SoleEnds, SoleFacts DEF BillAlone!Recognized, BillAlone!GoesTo
<1>7. ASSUME NEW m \in BillAlone!Months, BillAlone!FindDue(one, m) PROVE SoleBill'
  <2>1. PICK due : due = {n \in BillAlone!Unposted : n <= m}
    OBVIOUS
  <2>2. due \subseteq BillAlone!Unposted /\ due \subseteq BillAlone!Months
    BY <2>1 DEF BillAlone!Unposted
  <2>3. PICK d : d = [[c EXCEPT !.holds = due] EXCEPT !.at = "recognize"]
    OBVIOUS
  <2>4. d = [at |-> "recognize", id |-> c.id, entity |-> c.entity, columns |-> c.columns, then |-> c.then, holds |-> due]
    BY <1>4, <2>3 DEF SoleCalls
  <2>5. d \in SoleCalls /\ d.at = "recognize" /\ d.holds = due
    BY <1>4, <2>2, <2>4 DEF SoleCalls
  <2>6. billCall' = [billCall EXCEPT ![one] = d]
    BY <1>1, <1>7, <2>1, <2>3, Zenon DEF BillAlone!FindDue, BillAlone!GoesTo
  <2>7. SoleFits(d)
    BY <1>2, <1>4, <1>5, <2>2, <2>5, SoleFacts DEF SoleFits, SoleHolds
  <2> QED
    BY <1>3, <2>6, <2>7, SolePasses
<1> QED
  BY <1>6, <1>7

\* A payment is stored and then added to the invoice, which it fits.
LEMMA SolePays ==
  ASSUME SoleBill, BillAlone!InsertPayment(one) \/ BillAlone!PostPayment(one)
  PROVE  SoleBill'
<1>1. PICK c : c = billCall[one]
  OBVIOUS
<1>2. PICK r : r = billRow[Invoice]
  OBVIOUS
<1>3. c.at \in {"payment", "paid"} /\ UNCHANGED billRow
  BY <1>1, Zenon DEF BillAlone!InsertPayment, BillAlone!PostPayment
<1>4. c \in SoleCalls /\ r \in Invoices /\ SoleHolds(c, r) /\ Within(r) /\ SoleRows
  BY <1>1, <1>2, <1>3, SoleHeld DEF BillAlone!Idle, SoleBill
<1>5. c.entity = r /\ c.holds \in BillAlone!Months /\ r.paid + c.holds <= MonthCountAlone
      /\ r.status \in BillAlone!Payable
  BY <1>3, <1>4 DEF SoleHolds
<1>6. c.holds \in Nat \ {0} /\ r.paid \in Nat /\ r.recognized \in Nat
  BY <1>4, <1>5, SoleFacts DEF BillAlone!Months, Invoices, Bill!InvoiceRecords
<1>7. Agrees(r)
  BY <1>3, <1>4 DEF SoleHolds
<1>8. CASE BillAlone!InsertPayment(one)
  <2>1. PICK d : d = [c EXCEPT !.at = "paid"]
    OBVIOUS
  <2>2. d \in SoleCalls /\ d.at = "paid" /\ d.entity = c.entity /\ d.holds = c.holds
    BY <1>4, <2>1 DEF SoleCalls
  <2>3. billCall' = [billCall EXCEPT ![one] = d] /\ UNCHANGED <<billRow, booked>>
    BY <1>1, <1>8, <2>1 DEF BillAlone!InsertPayment, BillAlone!GoesTo
  <2>4. SoleFits(d)
    BY <1>2, <1>4, <1>5, <1>7, <2>2, SoleFacts DEF SoleFits, SoleHolds
  <2> QED
    BY <2>3, <2>4, SolePasses
<1>9. CASE BillAlone!PostPayment(one)
  <2>1. PICK paid, status : paid = c.entity.paid + c.holds
                            /\ status = (IF paid >= MonthCountAlone THEN "PAID" ELSE "PARTIALLY_PAID")
    OBVIOUS
  <2>2. c.at = "paid" /\ booked' = booked + c.holds
    BY <1>1, <1>9 DEF BillAlone!PostPayment
  <2>3. booked' = paid /\ r.recognized = RecordedMonths' /\ paid \in Nat /\ paid <= MonthCountAlone
    <3>1. UNCHANGED BillAlone!Recorded
      BY <1>3 DEF BillAlone!Recorded
    <3> QED
      BY <1>5, <1>6, <1>7, <2>1, <2>2, <3>1 DEF Agrees, RecordedMonths
  <2>4. PICK x : x = [c.entity EXCEPT !.paid = paid, !.status = status]
    OBVIOUS
  <2>5. x \in Invoices /\ x.paid = paid /\ x.status = status /\ x.recognized = r.recognized
    <3>1. status \in {"PAID", "PARTIALLY_PAID"}
      BY <2>1
    <3> QED
      BY <1>4, <1>5, <2>3, <2>4, <3>1 DEF Invoices, Bill!InvoiceRecords
  <2>6. status # "DRAFT" /\ (status = "PAID" <=> paid = MonthCountAlone)
    BY <2>1, <2>3, SoleFacts
  <2>7. Agrees(x)' /\ Within(x)
    BY <1>4, <2>3, <2>5, <2>6 DEF Agrees, Within
  <2>8. PICK d : d = BillAlone!Saving(c, Invoice, x, "idle")
    OBVIOUS
  <2>9. d = [at |-> "compare", id |-> Invoice, entity |-> x, columns |-> c.columns, then |-> "idle", holds |-> c.holds]
    BY <1>4, <2>8 DEF BillAlone!Saving, SoleCalls
  <2>10. d \in SoleCalls /\ d.at = "compare" /\ d.id = Invoice /\ d.entity = x /\ d.then = "idle"
    BY <1>4, <2>5, <2>9 DEF SoleCalls
  <2>11. billCall' = [billCall EXCEPT ![one] = d]
    BY <1>1, <1>9, <2>1, <2>4, <2>8 DEF BillAlone!PostPayment
  <2>12. SoleFits(d)'
    BY <1>2, <1>3, <1>4, <2>5, <2>6, <2>7, <2>10, SoleFacts DEF SoleFits, SoleHolds, Within
  <2>13. SoleRows'
    BY <1>2, <1>3, <1>4, <2>3 DEF SoleRows, Within
  <2> QED
    BY <2>11, <2>12, <2>13, SoleGoes
<1> QED
  BY <1>8, <1>9

\* The journal refuses an entry: the invoice is as the call found it.
LEMMA SoleRefused ==
  ASSUME SoleBill, BillAlone!JournalRefuses(one)
  PROVE  SoleBill'
<1>1. billCall[one].at \in {"issue", "recognize", "paid"} /\ BillAlone!Fails(one) /\ UNCHANGED booked
  <2>1. billCall[one].at \in {"issue", "recognize", "paid"} /\ BillAlone!Fails(one)
        /\ UNCHANGED <<payments, booked, posted>>
    BY Zenon DEF BillAlone!JournalRefuses
  <2> QED
    BY <2>1
<1>2. billRow[Invoice] \in Invoices /\ SoleHolds(billCall[one], billRow[Invoice])
  BY <1>1, SoleHeld DEF BillAlone!Idle
<1>3. Agrees(billRow[Invoice])
  BY <1>1, <1>2 DEF SoleHolds
<1> QED
  BY <1>1, <1>2, <1>3, SoleEnds, SoleFacts DEF BillAlone!Fails

\* The months are scheduled, none of them posted.
LEMMA SoleSchedules ==
  ASSUME SoleBill, BillAlone!Schedule(one)
  PROVE  SoleBill'
<1>1. PICK c : c = billCall[one]
  OBVIOUS
<1>2. PICK r : r = billRow[Invoice]
  OBVIOUS
<1>3. c.at = "schedule" /\ UNCHANGED booked
  <2>1. c.at = "schedule" /\ UNCHANGED <<payments, booked, posted>>
    BY <1>1, Zenon DEF BillAlone!Schedule
  <2> QED
    BY <2>1
<1>4. c \in SoleCalls /\ r \in Invoices /\ SoleHolds(c, r) /\ Within(r) /\ SoleRows
  BY <1>1, <1>2, <1>3, SoleHeld DEF BillAlone!Idle, SoleBill
<1>5. Agrees(r) /\ r.status # "DRAFT"
  BY <1>3, <1>4 DEF SoleHolds
<1>6. CASE ~ \A m \in BillAlone!Months : billRow[m] = Null
  BY <1>2, <1>3, <1>4, <1>5, <1>6, SoleEnds, SoleFacts DEF BillAlone!Schedule, BillAlone!Fails
<1>7. CASE \A m \in BillAlone!Months : billRow[m] = Null
  <2>1. billRow' = [i \in DOMAIN billRow |-> IF i \in BillAlone!Months THEN [posted |-> FALSE] ELSE billRow[i]]
    BY <1>7, Zenon DEF BillAlone!Schedule
  <2>2. billRow'[Invoice] = r /\ \A m \in BillAlone!Months : billRow'[m] = [posted |-> FALSE]
    BY <1>2, <1>4, <2>1, SoleFacts DEF SoleRows
  <2>3. [posted |-> FALSE] \in Bill!MonthRecords
    BY DEF Bill!MonthRecords
  <2>4. SoleRows'
    BY <1>2, <1>3, <1>4, <2>1, <2>2, <2>3 DEF SoleRows, Within
  <2>5. UNCHANGED RecordedMonths
    <3>1. BillAlone!Recorded = {} /\ BillAlone!Recorded' = {}
      BY <1>7, <2>2 DEF BillAlone!Recorded
    <3> QED
      BY <3>1 DEF RecordedMonths
  <2>6. PICK d : d = [c EXCEPT !.at = "due"]
    OBVIOUS
  <2>7. d \in SoleCalls /\ d.at = "due"
    BY <1>4, <2>6 DEF SoleCalls
  <2>8. billCall' = [billCall EXCEPT ![one] = d]
    BY <1>1, <1>7, <2>6 DEF BillAlone!Schedule, BillAlone!GoesTo
  <2>9. SoleFits(d)'
    BY <1>2, <1>3, <1>4, <1>5, <2>2, <2>5, <2>7, SoleFacts DEF SoleFits, SoleHolds, Agrees
  <2> QED
    BY <2>4, <2>8, <2>9, SoleGoes
<1> QED
  BY <1>6, <1>7

\* A month that was due is marked; the invoice that is to be saved counts it.
LEMMA SoleMarks ==
  ASSUME SoleBill, BillAlone!MarkPosted(one)
  PROVE  SoleBill'
<1>1. PICK c : c = billCall[one]
  OBVIOUS
<1>2. PICK r : r = billRow[Invoice]
  OBVIOUS
<1>3. c.at = "mark" /\ UNCHANGED booked /\ billRow' = [billRow EXCEPT ![c.id] = [posted |-> TRUE]]
  BY <1>1 DEF BillAlone!MarkPosted
<1>4. c \in SoleCalls /\ r \in Invoices /\ SoleHolds(c, r) /\ Within(r) /\ SoleRows
  BY <1>1, <1>2, <1>3, SoleHeld DEF BillAlone!Idle, SoleBill
<1>5. PICK m : m = c.id
  OBVIOUS
<1>6. c.entity = r /\ Agrees(r) /\ m \in c.holds /\ c.holds \subseteq BillAlone!Unposted
  BY <1>3, <1>4, <1>5 DEF SoleHolds
<1>7. m \in BillAlone!Months /\ billRow[m] # Null /\ ~billRow[m].posted
  BY <1>6 DEF BillAlone!Unposted
<1>8. r.status # "DRAFT"
  BY <1>6, <1>7 DEF Agrees
<1>9. billRow'[m] = [posted |-> TRUE] /\ billRow'[Invoice] = r
      /\ \A n \in BillAlone!Months \ {m} : billRow'[n] = billRow[n]
  BY <1>2, <1>3, <1>4, <1>5, <1>7, SoleFacts DEF SoleRows
<1>10. [posted |-> TRUE] \in Bill!MonthRecords
  BY DEF Bill!MonthRecords
<1>11. SoleRows'
  BY <1>2, <1>3, <1>4, <1>5, <1>7, <1>9, <1>10 DEF SoleRows, Within
<1>12. BillAlone!Recorded' = BillAlone!Recorded \union {m} /\ m \notin BillAlone!Recorded
       /\ BillAlone!Unposted' = BillAlone!Unposted \ {m}
  BY <1>7, <1>9, <1>10, SoleFacts DEF BillAlone!Recorded, BillAlone!Unposted
<1>13. RecordedMonths' = RecordedMonths + 1 /\ RecordedMonths \in Nat /\ RecordedMonths' <= MonthCountAlone
  <2>1. BillAlone!Recorded \subseteq BillAlone!Months /\ BillAlone!Recorded' \subseteq BillAlone!Months
    BY DEF BillAlone!Recorded
  <2>2. IsFiniteSet(BillAlone!Recorded) /\ Cardinality(BillAlone!Recorded) \in Nat
        /\ Cardinality(BillAlone!Recorded') <= MonthCountAlone
    BY <2>1, CountedMonths
  <2> QED
    BY <1>12, <2>2, FS_AddElement DEF RecordedMonths
<1>14. PICK x : x = [c.entity EXCEPT !.recognized = c.entity.recognized + 1]
  OBVIOUS
<1>15. x \in Invoices /\ x.recognized = r.recognized + 1 /\ x.paid = r.paid /\ x.status = r.status
  BY <1>4, <1>6, <1>14 DEF Invoices, Bill!InvoiceRecords
<1>16. Agrees(x)' /\ Within(x)
  BY <1>3, <1>4, <1>6, <1>8, <1>13, <1>15 DEF Agrees, Within
<1>17. PICK d : d = BillAlone!Saving([c EXCEPT !.holds = c.holds \ {m}], Invoice, x, "recognize")
  OBVIOUS
<1>18. d = [at |-> "compare", id |-> Invoice, entity |-> x, columns |-> c.columns, then |-> "recognize",
            holds |-> c.holds \ {m}]
  BY <1>4, <1>17 DEF BillAlone!Saving, SoleCalls
<1>19. d \in SoleCalls /\ d.at = "compare" /\ d.id = Invoice /\ d.entity = x /\ d.then = "recognize"
       /\ d.holds = c.holds \ {m}
  <2>1. c.holds \ {m} \subseteq BillAlone!Months
    BY <1>6 DEF BillAlone!Unposted
  <2> QED
    BY <1>4, <1>15, <1>18, <2>1 DEF SoleCalls
<1>20. billCall' = [billCall EXCEPT ![one] = d]
  BY <1>1, <1>5, <1>14, <1>17 DEF BillAlone!MarkPosted
<1>21. SoleFits(d)'
  BY <1>2, <1>3, <1>4, <1>6, <1>8, <1>9, <1>12, <1>15, <1>16, <1>19, SoleFacts DEF SoleFits, SoleHolds, Within
<1> QED
  BY <1>11, <1>20, <1>21, SoleGoes

\* The invoice is saved: it is then the entity, of which every column that
\* differed is written.
LEMMA SoleSaves ==
  ASSUME SoleBill, BillAlone!SaveInvoice(one)
  PROVE  SoleBill'
<1>1. PICK c : c = billCall[one]
  OBVIOUS
<1>2. PICK r : r = billRow[Invoice]
  OBVIOUS
<1>3. c.at \in {"compare", "update"} /\ UNCHANGED booked
  <2>1. c.at \in {"compare", "update"} /\ UNCHANGED <<payments, booked, posted>>
    BY <1>1, Zenon DEF BillAlone!SaveInvoice, BillAlone!CompareSave, BillAlone!UpdateSave
  <2> QED
    BY <2>1
<1>4. c \in SoleCalls /\ r \in Invoices /\ SoleHolds(c, r) /\ Within(r) /\ SoleRows
  BY <1>1, <1>2, <1>3, SoleHeld DEF BillAlone!Idle, SoleBill
<1>5. PICK x : x = c.entity
  OBVIOUS
<1>6. x \in Invoices /\ c.id = Invoice /\ x.status # "DRAFT" /\ Agrees(x) /\ Within(x)
      /\ (c.then = "recognize" => c.holds \subseteq BillAlone!Unposted)
  BY <1>3, <1>4, <1>5 DEF SoleHolds
<1>7. DOMAIN x = {"status", "paid", "recognized"} /\ DOMAIN r = {"status", "paid", "recognized"}
  BY <1>4, <1>6 DEF Invoices, Bill!InvoiceRecords
<1>8. CASE BillAlone!CompareSave(one)
  <2>1. c.at = "compare" /\ UNCHANGED billRow
    BY <1>1, <1>8 DEF BillAlone!CompareSave
  <2>2. PICK cols : cols = BillAlone!Differing(x, r)
    OBVIOUS
  <2>3. cols \subseteq {"status", "paid", "recognized"}
    BY <1>7, <2>2 DEF BillAlone!Differing
  <2>4. billCall' = [billCall EXCEPT ![one].at = "update", ![one].columns = cols]
    BY <1>1, <1>2, <1>4, <1>5, <1>6, <1>8, <2>2, SoleFacts DEF BillAlone!CompareSave
  <2>5. PICK d : d = [c EXCEPT !.at = "update", !.columns = cols]
    OBVIOUS
  <2>6. billCall' = [billCall EXCEPT ![one] = d]
    BY <1>1, <2>4, <2>5 DEF SoleBill
  <2>7. d \in SoleCalls /\ d.at = "update" /\ d.id = c.id /\ d.entity = x /\ d.then = c.then /\ d.holds = c.holds
        /\ d.columns = cols
    BY <1>4, <1>5, <2>3, <2>5 DEF SoleCalls
  <2>8. SoleFits(d)
    BY <1>2, <1>4, <1>6, <2>2, <2>7, SoleFacts DEF SoleFits, SoleHolds
  <2> QED
    BY <1>3, <2>1, <2>6, <2>8, SolePasses
<1>9. CASE BillAlone!UpdateSave(one, TRUE)
  <2>1. PICK w : w = [k \in DOMAIN r |-> IF k \in c.columns THEN x[k] ELSE r[k]]
    OBVIOUS
  <2>2. c.at = "update" /\ billRow' = [billRow EXCEPT ![Invoice] = w]
    BY <1>1, <1>2, <1>4, <1>5, <1>6, <1>9, <2>1, SoleFacts
    DEF BillAlone!UpdateSave, BillAlone!Written, BillAlone!Updated
  <2>3. c.columns = BillAlone!Differing(x, r)
    BY <1>4, <1>5, <2>2 DEF SoleHolds
  <2>4. w = x
    <3>1. w["status"] = x["status"] /\ w["paid"] = x["paid"] /\ w["recognized"] = x["recognized"]
      BY <1>7, <2>1, <2>3 DEF BillAlone!Differing
    <3>2. w = [status |-> w["status"], paid |-> w["paid"], recognized |-> w["recognized"]]
      BY <1>7, <2>1
    <3>3. x = [status |-> x["status"], paid |-> x["paid"], recognized |-> x["recognized"]]
      BY <1>6 DEF Invoices, Bill!InvoiceRecords
    <3> QED
      BY <3>1, <3>2, <3>3
  <2>5. billRow'[Invoice] = x /\ \A m \in BillAlone!Months : billRow'[m] = billRow[m]
    BY <1>4, <2>2, <2>4, SoleFacts DEF SoleRows
  <2>6. UNCHANGED RecordedMonths /\ UNCHANGED BillAlone!Unposted
    <3>1. UNCHANGED BillAlone!Recorded /\ UNCHANGED BillAlone!Unposted
      BY <2>5 DEF BillAlone!Recorded, BillAlone!Unposted
    <3> QED
      BY <3>1 DEF RecordedMonths
  <2>7. Agrees(x)'
    BY <1>3, <1>6, <2>6 DEF Agrees
  <2>8. SoleRows'
    BY <1>3, <1>4, <1>6, <2>2, <2>4, <2>5 DEF SoleRows, Within
  <2>9. PICK d : d = IF c.then = "idle" THEN BillAlone!Idle ELSE [[c EXCEPT !.columns = {}] EXCEPT !.at = c.then]
    OBVIOUS
  <2>10. billCall' = [billCall EXCEPT ![one] = d]
    BY <1>1, <1>9, <2>9 DEF BillAlone!UpdateSave, BillAlone!GoesTo
  <2>11. SoleFits(d)'
    <3>1. CASE c.then = "idle"
      BY <1>6, <2>5, <2>7, <2>9, <3>1, SoleFacts DEF SoleFits, SoleRests
    <3>2. CASE c.then # "idle"
      <4>1. d = [at |-> c.then, id |-> c.id, entity |-> c.entity, columns |-> {}, then |-> c.then, holds |-> c.holds]
        BY <1>4, <2>9, <3>2 DEF SoleCalls
      <4>2. c.then \in {"schedule", "recognize"}
        BY <1>4, <3>2 DEF SoleCalls
      <4>3. d \in SoleCalls /\ d.at = c.then /\ d.entity = x /\ d.holds = c.holds
        BY <1>4, <1>5, <4>1, <4>2 DEF SoleCalls
      <4> QED
        BY <1>6, <2>5, <2>6, <2>7, <4>2, <4>3, SoleFacts DEF SoleFits, SoleHolds
    <3> QED
      BY <3>1, <3>2
  <2> QED
    BY <2>8, <2>10, <2>11, SoleGoes
<1> QED
  BY <1>8, <1>9, Zenon DEF BillAlone!SaveInvoice

LEMMA SoleStep == SoleBill /\ [BillAlone!BillingNext]_(BillAlone!billingVars) => SoleBill'
<1> SUFFICES ASSUME SoleBill, [BillAlone!BillingNext]_(BillAlone!billingVars) PROVE SoleBill'
  OBVIOUS
<1>1. ASSUME BillAlone!BillingStep(one) PROVE SoleBill'
  BY <1>1, SoleStarts, SoleIssues, SolePosts, SoleFinds, SolePays, SoleRefused, SoleSchedules, SoleMarks, SoleSaves
  DEF BillAlone!BillingStep
<1>2. CASE BillAlone!CreateInvoice
  BY <1>2, SoleCreates
<1>3. CASE UNCHANGED BillAlone!billingVars
  <2>1. UNCHANGED <<billRow, booked>> /\ UNCHANGED billCall
    BY <1>3 DEF BillAlone!billingVars
  <2>2. PICK d : d = billCall[one]
    OBVIOUS
  <2>3. billCall' = [billCall EXCEPT ![one] = d] /\ SoleFits(d)
    BY <2>1, <2>2 DEF SoleBill
  <2> QED
    BY <2>1, <2>3, SolePasses
<1> QED
  BY <1>1, <1>2, <1>3 DEF BillAlone!BillingNext

LEMMA SoleInit == BillAlone!BillingInit => SoleBill
<1> SUFFICES ASSUME BillAlone!BillingInit PROVE SoleBill
  OBVIOUS
<1>1. SoleRows
  BY SoleFacts DEF BillAlone!BillingInit, SoleRows
<1>2. SoleFits(BillAlone!Idle)
  BY DEF BillAlone!BillingInit, SoleFits, SoleRests
<1> QED
  BY <1>1, <1>2 DEF BillAlone!BillingInit, SoleBill

LEMMA SoleShows == SoleBill => BillAlone!BillingTypeOK /\ BillAlone!SumsAgree
<1> SUFFICES ASSUME SoleBill PROVE BillAlone!BillingTypeOK /\ BillAlone!SumsAgree
  OBVIOUS
<1>1. CASE billRow[Invoice] = Null
  BY <1>1 DEF BillAlone!BillingTypeOK, BillAlone!SumsAgree
<1>2. CASE billRow[Invoice] # Null
  <2>1. PICK r : r = billRow[Invoice]
    OBVIOUS
  <2>2. r \in Invoices /\ Within(r)
    BY <1>2, <2>1 DEF SoleBill, SoleRows
  <2>3. r.status \in {"DRAFT", "ISSUED", "PARTIALLY_PAID", "PAID"} /\ r.paid \in Nat /\ r.recognized \in Nat
    BY <2>2 DEF Invoices, Bill!InvoiceRecords
  <2>4. r.paid \in 0..MonthCountAlone /\ r.recognized \in 0..MonthCountAlone
        /\ (r.status = "PAID" <=> r.paid = MonthCountAlone)
    BY <2>2, <2>3, SoleFacts DEF Within
  <2>5. BillAlone!Quiet => Agrees(r)
    BY <1>2, <2>1 DEF SoleBill, SoleFits, SoleRests, SoleCalls, BillAlone!Quiet, BillAlone!Idle
  <2>6. BillAlone!Quiet => r.paid = booked /\ r.recognized = Cardinality(BillAlone!Recorded)
    BY <2>5 DEF Agrees, RecordedMonths
  <2> QED
    BY <2>1, <2>3, <2>4, <2>6 DEF BillAlone!BillingTypeOK, BillAlone!SumsAgree, BillAlone!Cardinality, Cardinality
<1> QED
  BY <1>1, <1>2

\* An invoice that one call at a time changes has the sums of the payments the
\* journal took and of its recognized months, and is paid when all of it is and
\* not beyond.
THEOREM InvoicesAddUp ==
  BillAlone!BillingSpec => [](BillAlone!BillingTypeOK /\ BillAlone!SumsAgree)
BY SoleInit, SoleStep, SoleShows, PTL DEF BillAlone!BillingSpec

LEMMA BillsOnlyMoveThere ==
  ASSUME [Next]_vars
  PROVE  /\ service' = service
         /\ service = "billing" => [Bill!BillingNext \/ Bill!BillingFaults]_(Bill!billingVars)
         /\ service = "billing alone" => [BillAlone!BillingNext]_(BillAlone!billingVars)
<1>1. CASE BillNext
  BY <1>1, Zenon DEF BillNext
<1>2. CASE UNCHANGED <<service, billVars>>
  BY <1>2 DEF billVars, Bill!billingVars, BillAlone!billingVars
<1> QED
  BY <1>1, <1>2, Zenon DEF Next, BookNext, LeaveNext, ContractNext, StaffNext, CompanyNext, RoleNext, LevelNext, vars

\* What was issued or recognized is in the journal, whatever calls race, crash
\* or are refused; one call at a time, which the journal may refuse, an invoice
\* keeps the sums of the payments the journal took and of its months, and is
\* never paid beyond its total.
THEOREM InvoicesAlwaysAgree == Spec => []InvoicesAgree
<1> DEFINE Inv == /\ service = "billing" => BillInv
                  /\ service = "billing alone" => SoleBill
<1>1. Init => Inv
  BY BillInit, SoleInit, Zenon DEF Init
<1>2. Inv /\ [Next]_vars => Inv'
  BY BillsOnlyMoveThere, BillStep, SoleStep, Zenon
<1>3. Inv => InvoicesAgree
  <2>1. BillInv => Bill!NothingUnposted
    BY DEF BillInv
  <2> QED
    BY <2>1, SoleShows, Zenon DEF InvoicesAgree
<1> QED
  BY <1>1, <1>2, <1>3, PTL DEF Spec

(***************************************************************************)
(* Accounts, one call at a time: what the call holds of a row is what the  *)
(* row is, the accounts have the e-mail of their rows except while one is  *)
(* renamed, and who was invited has a code, or an expired one, or is about  *)
(* to have one.                                                            *)
(***************************************************************************)


Records == Faulty!EmployeeRecords
Fields == {"email", "status", "active", "keycloakId"}

StaffCalls ==
  [at : {"file", "issue", "delete", "spend", "account", "rename", "compare", "update", "restore"},
   id : Employees \union {Null}, entity : Records \union {Null}, columns : SUBSET Fields,
   then : {"issue", "idle"}, holds : Codes \union Emails \union {Null}]

Expired(e) == Faulty!Gone(e, "expired")

\* What a call holds: a new row, which nobody else has the e-mail of, the row of an
\* accepted invitation, or a row as it is about to be saved.
StaffHolds(c) ==
  /\ c.at = "file" => c.entity # Null /\ c.id = Null /\ (c.then = "issue" => c.entity.status = "INVITED")
  /\ c.at \in {"file", "account"} /\ c.id = Null => ~Faulty!HasRow(c.entity.email)
  /\ c.at \notin {"file", "account"} \/ c.id # Null => c.id \in Faulty!Rows
  /\ c.at \in {"issue", "spend"} \/ (c.at = "account" /\ c.id # Null) => staffRow[c.id].status # "PENDING"
  /\ c.at = "spend" => c.holds \in Codes /\ code[c.holds] \in {c.id, Expired(c.id)}
  /\ c.at \in {"spend", "account"} => c.entity # Null /\ c.entity.status = "ACTIVE" /\ c.then = "idle"
  /\ c.at = "spend" \/ (c.at = "account" /\ c.id # Null) =>
       c.entity = [staffRow[c.id] EXCEPT !.status = "ACTIVE", !.active = TRUE]
  /\ c.at \in {"file", "account"} => c.holds = Null
  /\ c.at \in {"rename", "restore"} => c.holds \in Emails /\ c.then = "idle"
  /\ c.at \in {"compare", "update"} => c.holds \in Emails \union {Null} /\ (c.holds # Null => c.then = "idle")
  /\ c.at \in {"rename", "compare", "update", "restore"} =>
       /\ c.entity # Null
       /\ c.entity.status # staffRow[c.id].status =>
            \/ staffRow[c.id].status = "PENDING" /\ c.entity.status = "INVITED" /\ c.then = "issue"
            \/ staffRow[c.id].status # "PENDING" /\ c.entity.status = "ACTIVE" /\ c.then = "idle"
       /\ c.then = "issue" => c.entity.status = "INVITED"
  /\ c.at = "update" => c.columns = Faulty!Differing(c.entity, staffRow[c.id])

StaffFits(c) == c = Faulty!Idle \/ (c \in StaffCalls /\ StaffHolds(c))

\* A code is given to whom was admitted and is not pending any more.
StaffRows ==
  /\ staffRow \in [Employees -> Records \union {Null}]
  /\ account \in [Accounts -> Emails \union {Null}]
  /\ code \in [Codes -> Employees \union {Null} \union Faulty!GoneCodes]
  /\ Faulty!Rows \subseteq admitted
  /\ \A c \in Codes : code[c] \in Employees =>
       code[c] \in admitted /\ (code[c] \in Faulty!Rows => staffRow[code[c]].status # "PENDING")

StaffInv ==
  StaffRows /\ staffCall = [p \in {one} |-> staffCall[one]] /\ StaffFits(staffCall[one])

\* The accounts are of different e-mails and of one employee each, and an account
\* has the e-mail of its row except while the call changes it.
MailAgrees(e) == staffRow[e].keycloakId # Null => account[staffRow[e].keycloakId] = staffRow[e].email

\* The call has renamed the account of its row, which is not saved yet.
Renamed(c) == c.at \in {"compare", "update", "restore"} /\ c.holds # Null

MailHolds(c) ==
  /\ c.at \in {"file", "compare", "update"} /\ c.entity.keycloakId # Null =>
       account[c.entity.keycloakId] = c.entity.email
  /\ c.at = "rename" \/ Renamed(c) =>
       /\ c.entity.keycloakId # Null /\ staffRow[c.id].keycloakId = c.entity.keycloakId
       /\ c.holds = staffRow[c.id].email /\ c.entity.email # c.holds
  /\ Renamed(c) =>
       account[c.entity.keycloakId] = c.entity.email /\ Faulty!AccountsOf(c.holds) = {}

MailInv ==
  /\ \A a, b \in Accounts : account[a] # Null /\ account[a] = account[b] => a = b
  /\ Faulty!OneAccountEach
  /\ \A e \in Faulty!Rows :
       MailAgrees(e) \/ (Renamed(staffCall[one]) /\ staffCall[one].id = e)
  /\ MailHolds(staffCall[one])

\* While nothing fails, an account is that of a row or of the row the call is about
\* to save, and who is invited has a code, or had one that expired, or is about to have
\* one or to be active.
HasCode(e) == \E c \in Codes : code[c] \in {e, Expired(e)}

Admits(c, e) ==
  /\ c.at \in {"issue", "account"} \/ (c.at \in {"compare", "update"} /\ c.entity.status = "ACTIVE")
  /\ c.id = e

Owns(c, a) == c.at \in {"file", "compare", "update"} /\ c.entity.keycloakId = a

SmoothHolds(c) ==
  /\ c.at = "delete" => staffRow[c.id].status = "PENDING"
  /\ c.at \in {"file", "rename", "compare", "update"} /\ c.entity.keycloakId # Null =>
       /\ c.entity.status = "ACTIVE"
       /\ \A x \in Faulty!Rows \ {c.id} : staffRow[x].keycloakId # c.entity.keycloakId
  /\ /\ c.at \in {"compare", "update"}
     /\ \/ c.entity.status = "ACTIVE" /\ staffRow[c.id].status # "ACTIVE"
        \/ c.entity.keycloakId # staffRow[c.id].keycloakId
     => c.entity.email = staffRow[c.id].email
  /\ c.at \in {"compare", "update"} /\ c.entity.keycloakId # staffRow[c.id].keycloakId =>
       staffRow[c.id].keycloakId = Null
  /\ c.at = "file" /\ c.entity.status = "INVITED" => c.then = "issue"

SmoothInv ==
  /\ \A e, x \in Faulty!Rows : staffRow[e].email = staffRow[x].email => e = x
  /\ \A e \in Faulty!Rows : staffRow[e].keycloakId # Null => staffRow[e].status = "ACTIVE"
  /\ \A a \in Accounts : account[a] # Null =>
       (\E e \in Faulty!Rows : staffRow[e].keycloakId = a) \/ Owns(staffCall[one], a)
  /\ \A e \in Faulty!Rows : staffRow[e].status = "INVITED" => HasCode(e) \/ Admits(staffCall[one], e)
  /\ SmoothHolds(staffCall[one])

LEMMA StaffFacts ==
  /\ Null \notin Employees /\ Null \notin Emails /\ Null \notin Accounts /\ Null \notin Records
BY StaffAssumption DEF Smooth!OnboardingAssumption, Smooth!EmployeeRecords, Records, Faulty!EmployeeRecords

\* What is left of a code is no employee, and tells whose it was.
LEMMA CodesGo ==
  /\ \A e \in Employees : /\ Expired(e) \in Faulty!GoneCodes /\ Faulty!Gone(e, "spent") \in Faulty!GoneCodes
                           /\ \A x \in Employees : Expired(e) = Expired(x) => e = x
  /\ Null \notin Faulty!GoneCodes /\ \A e \in Employees : e \notin Faulty!GoneCodes
<1>1. Faulty!GoneCodes = Smooth!GoneCodes
  BY DEF Faulty!GoneCodes, Smooth!GoneCodes, Faulty!Gone, Smooth!Gone
<1>2. Null \notin Smooth!GoneCodes /\ Employees \intersect Smooth!GoneCodes = {}
  BY StaffAssumption DEF Smooth!OnboardingAssumption
<1>3. ASSUME NEW e \in Employees
      PROVE  /\ Expired(e) \in Faulty!GoneCodes /\ Faulty!Gone(e, "spent") \in Faulty!GoneCodes
             /\ \A x \in Employees : Expired(e) = Expired(x) => e = x
  <2>1. Expired(e) \in Faulty!GoneCodes /\ Faulty!Gone(e, "spent") \in Faulty!GoneCodes
    BY DEF Faulty!GoneCodes, Expired
  <2>2. Expired(e).of = e /\ \A x \in Employees : Expired(x).of = x
    BY DEF Expired, Faulty!Gone
  <2> QED
    BY <2>1, <2>2
<1> QED
  BY <1>1, <1>2, <1>3


LEMMA StaffIdle == Faulty!Idle.at = "idle" /\ Faulty!Idle \notin StaffCalls
BY DEF Faulty!Idle, StaffCalls

LEMMA StaffHeld ==
  ASSUME StaffInv, staffCall[one] # Faulty!Idle
  PROVE  staffCall[one] \in StaffCalls /\ StaffHolds(staffCall[one]) /\ StaffRows
BY DEF StaffInv, StaffFits

LEMMA StaffGoes ==
  ASSUME StaffInv, NEW d, staffCall' = [staffCall EXCEPT ![one] = d], StaffFits(d)', StaffRows'
  PROVE  StaffInv' /\ staffCall'[one] = d
BY DEF StaffInv

\* A call that moves while the rows, accounts and codes stay.
LEMMA StaffPasses ==
  ASSUME StaffInv, NEW d, staffCall' = [staffCall EXCEPT ![one] = d],
         UNCHANGED <<staffRow, account, code, admitted>>, StaffFits(d)
  PROVE  /\ StaffInv'
         /\ /\ MailInv /\ MailHolds(d)
            /\ Renamed(staffCall[one]) => Renamed(d) /\ d.id = staffCall[one].id
            => MailInv'
         /\ /\ SmoothInv /\ SmoothHolds(d)
            /\ \A e \in Faulty!Rows : staffRow[e].status = "INVITED" /\ Admits(staffCall[one], e) => Admits(d, e)
            /\ \A a \in Accounts : Owns(staffCall[one], a) =>
                 Owns(d, a) \/ \E e \in Faulty!Rows : staffRow[e].keycloakId = a
            => SmoothInv'
<1>1. staffRow' = staffRow /\ account' = account /\ code' = code /\ admitted' = admitted
  OBVIOUS
<1>2. UNCHANGED Faulty!Rows /\ UNCHANGED Faulty!OneAccountEach /\ StaffRows'
  BY <1>1 DEF Faulty!Rows, Faulty!OneAccountEach, StaffInv, StaffRows
<1>3. StaffFits(d)'
  <2>1. \A email : Faulty!HasRow(email)' <=> Faulty!HasRow(email)
    BY <1>1, <1>2 DEF Faulty!HasRow
  <2>2. \A x, y : Faulty!Differing(x, y)' = Faulty!Differing(x, y)
    BY DEF Faulty!Differing
  <2> QED
    BY <1>1, <1>2, <2>1 DEF StaffFits, StaffHolds, Faulty!Differing
<1>4. StaffInv' /\ staffCall'[one] = d
  BY <1>2, <1>3, StaffGoes
<1>5. MailHolds(d) => MailHolds(d)'
  BY <1>1 DEF MailHolds, Renamed, Faulty!AccountsOf
<1>6. \A e : MailAgrees(e)' <=> MailAgrees(e)
  BY <1>1 DEF MailAgrees
<1>7. SmoothHolds(d) => SmoothHolds(d)'
  BY <1>1, <1>2 DEF SmoothHolds
<1>8. \A e : HasCode(e)' <=> HasCode(e)
  BY <1>1 DEF HasCode
<1>9. ASSUME MailInv, MailHolds(d), Renamed(staffCall[one]) => Renamed(d) /\ d.id = staffCall[one].id
      PROVE  MailInv'
  BY <1>1, <1>2, <1>4, <1>5, <1>6, <1>9 DEF MailInv, Renamed
<1>10. ASSUME SmoothInv, SmoothHolds(d),
              \A e \in Faulty!Rows : staffRow[e].status = "INVITED" /\ Admits(staffCall[one], e) => Admits(d, e),
              \A a \in Accounts : Owns(staffCall[one], a) =>
                 Owns(d, a) \/ \E e \in Faulty!Rows : staffRow[e].keycloakId = a
       PROVE  SmoothInv'
  BY <1>1, <1>2, <1>4, <1>7, <1>8, <1>10 DEF SmoothInv, Admits, Owns
<1> QED
  BY <1>4, <1>9, <1>10

LEMMA StaffBegins ==
  ASSUME StaffInv, staffCall[one] = Faulty!Idle, NEW d \in StaffCalls, StaffHolds(d),
         staffCall' = [staffCall EXCEPT ![one] = d], UNCHANGED <<staffRow, account, code, admitted>>
  PROVE  /\ StaffInv'
         /\ MailInv /\ MailHolds(d) => MailInv'
         /\ SmoothInv /\ SmoothHolds(d) => SmoothInv'
<1>1. StaffFits(d)
  BY DEF StaffFits
<1>2. ~Renamed(staffCall[one]) /\ \A e : ~Admits(staffCall[one], e) /\ ~Owns(staffCall[one], e)
  BY StaffIdle DEF Renamed, Admits, Owns
<1> QED
  BY <1>1, <1>2, StaffPasses

\* A new row is filed for an e-mail that no row has.
LEMMA StaffFiles ==
  ASSUME StaffInv, staffCall[one] = Faulty!Idle, NEW email \in Emails, ~Faulty!HasRow(email),
         NEW status \in {"PENDING", "INVITED", "ACTIVE"}, NEW at \in {"file", "account"}, NEW then \in {"issue", "idle"},
         then = "issue" <=> status = "INVITED", at = "account" => status = "ACTIVE",
         Faulty!Files(one, Faulty!NewEmployee(email, status), at, then),
         UNCHANGED <<staffRow, account, code, admitted>>
  PROVE  /\ StaffInv'
         /\ MailInv => MailInv'
         /\ SmoothInv => SmoothInv'
<1>1. PICK active : active = (status = "ACTIVE")
  OBVIOUS
<1>2. PICK r : r = [email |-> email, status |-> status, active |-> active, keycloakId |-> Null]
  OBVIOUS
<1>3. r = Faulty!NewEmployee(email, status)
  BY <1>1, <1>2, Zenon DEF Faulty!NewEmployee
<1>4. active \in BOOLEAN
  BY <1>1
<1>5. r \in Records /\ r.email = email /\ r.status = status /\ r.keycloakId = Null
  BY <1>2, <1>4 DEF Records, Faulty!EmployeeRecords
<1>6. PICK d : d = [Faulty!NewCall EXCEPT !.at = at, !.entity = r, !.then = then]
  OBVIOUS
<1>7. d = [at |-> at, id |-> Null, entity |-> r, columns |-> {}, then |-> then, holds |-> Null]
  BY <1>6 DEF Faulty!NewCall
<1>8. d \in StaffCalls /\ d.at = at /\ d.id = Null /\ d.entity = r /\ d.then = then /\ d.holds = Null
  BY <1>5, <1>7 DEF StaffCalls
<1>9. staffCall' = [staffCall EXCEPT ![one] = d]
  BY <1>3, <1>6, Zenon DEF Faulty!Files
<1>10. StaffHolds(d)
  BY <1>5, <1>8, StaffFacts DEF StaffHolds
<1>11. MailHolds(d) /\ SmoothHolds(d)
  BY <1>5, <1>8 DEF MailHolds, SmoothHolds, Renamed
<1> QED
  BY <1>8, <1>9, <1>10, <1>11, StaffBegins

LEMMA StaffCreates ==
  ASSUME StaffInv, NEW email \in Emails,
         \/ \E mode \in {"APPROVAL", "AUTO_APPROVED"} : Faulty!Register(one, email, mode)
         \/ Faulty!InviteEmployee(one, email)
         \/ \E password \in BOOLEAN : Faulty!CreateEmployee(one, email, password)
  PROVE  /\ StaffInv'
         /\ MailInv => MailInv'
         /\ SmoothInv => SmoothInv'
<1>1. staffCall[one] = Faulty!Idle /\ ~Faulty!HasRow(email) /\ UNCHANGED <<staffRow, account, code, admitted>>
  <2>1. staffCall[one] = Faulty!Idle /\ ~Faulty!HasRow(email) /\ UNCHANGED staffRow /\ Faulty!Others
    BY Zenon DEF Faulty!Register, Faulty!InviteEmployee, Faulty!CreateEmployee
  <2> QED
    BY <2>1 DEF Faulty!Others
<1>2. CASE \/ \E mode \in {"APPROVAL", "AUTO_APPROVED"} : Faulty!Register(one, email, mode)
           \/ Faulty!InviteEmployee(one, email)
  <2>1. \/ Faulty!Files(one, Faulty!NewEmployee(email, "INVITED"), "file", "issue")
        \/ Faulty!Files(one, Faulty!NewEmployee(email, "PENDING"), "file", "idle")
    BY <1>2, Zenon DEF Faulty!Register, Faulty!InviteEmployee
  <2>2. CASE Faulty!Files(one, Faulty!NewEmployee(email, "INVITED"), "file", "issue")
    BY <1>1, <2>2, StaffFiles
  <2>3. CASE Faulty!Files(one, Faulty!NewEmployee(email, "PENDING"), "file", "idle")
    BY <1>1, <2>3, StaffFiles
  <2> QED
    BY <2>1, <2>2, <2>3
<1>3. ASSUME NEW password \in BOOLEAN, Faulty!CreateEmployee(one, email, password)
      PROVE  /\ StaffInv'
             /\ MailInv => MailInv'
             /\ SmoothInv => SmoothInv'
  <2>1. PICK at : at = (IF password THEN "account" ELSE "file")
    OBVIOUS
  <2>2. Faulty!Files(one, Faulty!NewEmployee(email, "ACTIVE"), at, "idle")
    BY <1>3, <2>1, Zenon DEF Faulty!CreateEmployee
  <2>3. at \in {"account", "file"}
    BY <2>1
  <2> QED
    BY <1>1, <2>2, <2>3, StaffFiles
<1> QED
  BY <1>2, <1>3

\* A row is found and is to be saved: approved, with another activity or e-mail.
LEMMA StaffFinds ==
  ASSUME StaffInv, NEW e \in Employees,
         \/ Faulty!ApproveRegistration(one, e) \/ Faulty!Deactivate(one, e)
         \/ \E email \in Emails, active \in BOOLEAN \union {Null} : Faulty!UpdateEmployee(one, e, email, active)
  PROVE  /\ StaffInv'
         /\ MailInv => MailInv'
         /\ MailInv /\ SmoothInv => SmoothInv'
<1>1. PICK r : r = staffRow[e]
  OBVIOUS
<1>2. staffCall[one] = Faulty!Idle /\ r # Null /\ UNCHANGED <<staffRow, account, code, admitted>>
  <2>1. staffCall[one] = Faulty!Idle /\ r # Null /\ UNCHANGED staffRow /\ Faulty!Others
    BY <1>1, Zenon DEF Faulty!ApproveRegistration, Faulty!Deactivate, Faulty!UpdateEmployee
  <2> QED
    BY <2>1 DEF Faulty!Others
<1>3. r \in Records /\ e \in Faulty!Rows
  BY <1>1, <1>2 DEF StaffInv, StaffRows, Faulty!Rows
<1>4. r.email \in Emails /\ r.keycloakId \in Accounts \union {Null} /\ r.status \in {"PENDING", "INVITED", "ACTIVE"}
  BY <1>3 DEF Records, Faulty!EmployeeRecords
<1>5. MailInv => MailAgrees(e)
  BY <1>2, <1>3, StaffIdle DEF MailInv, Renamed
<1>6. SmoothInv => /\ r.keycloakId # Null => r.status = "ACTIVE"
                   /\ MailInv => \A x \in Faulty!Rows \ {e} : r.keycloakId # Null => staffRow[x].keycloakId # r.keycloakId
  BY <1>1, <1>3 DEF SmoothInv, MailInv, Faulty!OneAccountEach
<1>7. ASSUME NEW x \in Records, NEW then \in {"issue", "idle"}, NEW d,
             d = Faulty!Saving(Faulty!NewCall, e, x, then), staffCall' = [staffCall EXCEPT ![one] = d],
             x.keycloakId = r.keycloakId, x.email = r.email \/ r.keycloakId = Null,
             \/ x.status = r.status /\ then = "idle" /\ (x.email = r.email \/ r.keycloakId = Null)
             \/ r.status = "PENDING" /\ x.status = "INVITED" /\ then = "issue" /\ x.email = r.email
      PROVE  /\ StaffInv'
             /\ MailInv => MailInv'
             /\ MailInv /\ SmoothInv => SmoothInv'
  <2>1. d = [at |-> "compare", id |-> e, entity |-> x, columns |-> {}, then |-> then, holds |-> Null]
    BY <1>7 DEF Faulty!Saving, Faulty!NewCall
  <2>2. d \in StaffCalls /\ d.at = "compare" /\ d.id = e /\ d.entity = x /\ d.then = then /\ d.holds = Null
    BY <1>7, <2>1 DEF StaffCalls
  <2>3. StaffHolds(d)
    BY <1>1, <1>3, <1>7, <2>2, StaffFacts DEF StaffHolds
  <2>4. MailInv => MailHolds(d)
    BY <1>1, <1>5, <1>7, <2>2 DEF MailHolds, Renamed, MailAgrees
  <2>5. MailInv /\ SmoothInv => SmoothHolds(d)
    BY <1>1, <1>3, <1>4, <1>6, <1>7, <2>2 DEF SmoothHolds
  <2> QED
    BY <1>2, <1>7, <2>2, <2>3, <2>4, <2>5, StaffBegins
<1>8. CASE Faulty!ApproveRegistration(one, e)
  <2>1. PICK x : x = [r EXCEPT !.status = "INVITED"]
    OBVIOUS
  <2>2. x \in Records /\ x.keycloakId = r.keycloakId /\ x.email = r.email /\ x.status = "INVITED"
    BY <1>3, <2>1 DEF Records, Faulty!EmployeeRecords
  <2>3. r.status = "PENDING" /\ staffCall' = [staffCall EXCEPT ![one] = Faulty!Saving(Faulty!NewCall, e, x, "issue")]
    BY <1>1, <1>8, <2>1 DEF Faulty!ApproveRegistration
  <2> QED
    BY <1>7, <2>2, <2>3
<1>9. CASE Faulty!Deactivate(one, e)
  <2>1. PICK x : x = [r EXCEPT !.active = FALSE]
    OBVIOUS
  <2>2. x \in Records /\ x.keycloakId = r.keycloakId /\ x.email = r.email /\ x.status = r.status
    BY <1>3, <2>1 DEF Records, Faulty!EmployeeRecords
  <2>3. staffCall' = [staffCall EXCEPT ![one] = Faulty!Saving(Faulty!NewCall, e, x, "idle")]
    BY <1>1, <1>9, <2>1 DEF Faulty!Deactivate
  <2> QED
    BY <1>7, <2>2, <2>3
<1>10. ASSUME NEW email \in Emails, NEW active \in BOOLEAN \union {Null}, Faulty!UpdateEmployee(one, e, email, active)
       PROVE  /\ StaffInv'
              /\ MailInv => MailInv'
              /\ MailInv /\ SmoothInv => SmoothInv'
  <2>1. PICK x : x = [r EXCEPT !.email = email, !.active = IF active = Null THEN @ ELSE active]
    OBVIOUS
  <2>2. x \in Records /\ x.keycloakId = r.keycloakId /\ x.email = email /\ x.status = r.status
    BY <1>3, <2>1 DEF Records, Faulty!EmployeeRecords
  <2>3. PICK c : c = Faulty!Saving(Faulty!NewCall, e, x, "idle")
    OBVIOUS
  <2>5. PICK d : d = [c EXCEPT !.at = "rename", !.holds = r.email]
    OBVIOUS
  <2>6. staffCall' = [staffCall EXCEPT ![one] =
          IF email = r.email \/ r.keycloakId = Null THEN c ELSE [c EXCEPT !.at = "rename", !.holds = r.email]]
    BY <1>1, <1>10, <2>1, <2>3, Zenon DEF Faulty!UpdateEmployee
  <2>7. CASE email = r.email \/ r.keycloakId = Null
    BY <1>7, <2>2, <2>3, <2>6, <2>7
  <2>8. CASE email # r.email /\ r.keycloakId # Null
    <3>1. staffCall' = [staffCall EXCEPT ![one] = d]
      BY <2>5, <2>6, <2>8
    <3>2. d = [at |-> "rename", id |-> e, entity |-> x, columns |-> {}, then |-> "idle", holds |-> r.email]
      BY <2>3, <2>5 DEF Faulty!Saving, Faulty!NewCall
    <3>3. d \in StaffCalls /\ d.at = "rename" /\ d.id = e /\ d.entity = x /\ d.then = "idle" /\ d.holds = r.email
      BY <1>4, <2>2, <3>2 DEF StaffCalls
    <3>4. StaffHolds(d)
      BY <1>1, <1>3, <1>4, <2>2, <3>3, StaffFacts DEF StaffHolds
    <3>5. MailHolds(d)
      BY <1>1, <2>2, <2>8, <3>3 DEF MailHolds, Renamed
    <3>6. MailInv /\ SmoothInv => SmoothHolds(d)
      BY <1>3, <1>6, <2>2, <3>3 DEF SmoothHolds
    <3> QED
      BY <1>2, <3>1, <3>3, <3>4, <3>5, <3>6, StaffBegins
  <2> QED
    BY <2>7, <2>8
<1> QED
  BY <1>8, <1>9, <1>10

\* A row is to be deleted, or an invitation is accepted.
LEMMA StaffTakes ==
  ASSUME StaffInv,
         \/ \E e \in Employees : Faulty!RejectRegistration(one, e)
         \/ \E k \in Codes : Faulty!AcceptInvite(one, k)
  PROVE  /\ StaffInv'
         /\ MailInv => MailInv'
         /\ SmoothInv /\ (\A e \in Employees : Faulty!RejectRegistration(one, e) => staffRow[e].status = "PENDING")
            => SmoothInv'
<1>1. staffCall[one] = Faulty!Idle /\ UNCHANGED <<staffRow, account, code, admitted>>
  <2>1. staffCall[one] = Faulty!Idle /\ UNCHANGED staffRow /\ Faulty!Others
    BY Zenon DEF Faulty!RejectRegistration, Faulty!AcceptInvite
  <2> QED
    BY <2>1 DEF Faulty!Others
<1>2. ASSUME NEW e \in Employees, Faulty!RejectRegistration(one, e)
      PROVE  /\ StaffInv'
             /\ MailInv => MailInv'
             /\ SmoothInv /\ staffRow[e].status = "PENDING" => SmoothInv'
  <2>1. PICK d : d = [Faulty!NewCall EXCEPT !.at = "delete", !.id = e]
    OBVIOUS
  <2>2. d = [at |-> "delete", id |-> e, entity |-> Null, columns |-> {}, then |-> "idle", holds |-> Null]
    BY <2>1 DEF Faulty!NewCall
  <2>3. d \in StaffCalls /\ d.at = "delete" /\ d.id = e
    BY <2>2 DEF StaffCalls
  <2>4. staffCall' = [staffCall EXCEPT ![one] = d] /\ e \in Faulty!Rows
    <3>1. staffCall' = [staffCall EXCEPT ![one] = d] /\ staffRow[e] # Null
      BY <1>2, <2>1, Zenon DEF Faulty!RejectRegistration
    <3> QED
      BY <3>1 DEF Faulty!Rows
  <2>5. StaffHolds(d)
    BY <2>3, <2>4 DEF StaffHolds
  <2>6. MailHolds(d) /\ (staffRow[e].status = "PENDING" => SmoothHolds(d))
    BY <2>3 DEF MailHolds, SmoothHolds, Renamed
  <2> QED
    BY <1>1, <2>3, <2>4, <2>5, <2>6, StaffBegins
<1>3. ASSUME NEW k \in Codes, Faulty!AcceptInvite(one, k)
      PROVE  StaffInv' /\ (MailInv => MailInv') /\ (SmoothInv => SmoothInv')
  <2>1. PICK e : e = code[k]
    OBVIOUS
  <2>2. e \in Faulty!Rows /\ e \in Employees /\ staffRow[e] \in Records /\ staffRow[e].status # "PENDING"
    <3>1. e \in Faulty!Rows
      BY <1>3, <2>1, Zenon DEF Faulty!AcceptInvite
    <3> QED
      BY <2>1, <3>1 DEF StaffInv, StaffRows, Faulty!Rows
  <2>3. PICK x : x = [staffRow[e] EXCEPT !.status = "ACTIVE", !.active = TRUE]
    OBVIOUS
  <2>4. x \in Records /\ x.status = "ACTIVE" /\ x.email = staffRow[e].email
    BY <2>2, <2>3 DEF Records, Faulty!EmployeeRecords
  <2>5. PICK d : d = [Faulty!NewCall EXCEPT !.at = "spend", !.id = e, !.holds = k, !.entity = x]
    OBVIOUS
  <2>6. d = [at |-> "spend", id |-> e, entity |-> x, columns |-> {}, then |-> "idle", holds |-> k]
    BY <2>5 DEF Faulty!NewCall
  <2>7. d \in StaffCalls /\ d.at = "spend" /\ d.id = e /\ d.entity = x /\ d.holds = k /\ d.then = "idle"
    BY <2>2, <2>4, <2>6 DEF StaffCalls
  <2>8. staffCall' = [staffCall EXCEPT ![one] = d]
    BY <1>3, <2>1, <2>3, <2>5, Zenon DEF Faulty!AcceptInvite
  <2>9. StaffHolds(d)
    BY <2>1, <2>2, <2>3, <2>4, <2>7, StaffFacts DEF StaffHolds
  <2>10. MailHolds(d) /\ SmoothHolds(d)
    BY <2>7 DEF MailHolds, SmoothHolds, Renamed
  <2> QED
    BY <1>1, <2>7, <2>8, <2>9, <2>10, StaffBegins
<1> QED
  BY <1>2, <1>3

\* A call that ends.
LEMMA StaffEnds ==
  ASSUME StaffInv, staffCall' = [staffCall EXCEPT ![one] = Faulty!Idle],
         UNCHANGED <<staffRow, account, code, admitted>>
  PROVE  /\ StaffInv'
         /\ MailInv /\ ~Renamed(staffCall[one]) => MailInv'
         /\ /\ SmoothInv
            /\ \A e \in Faulty!Rows : staffRow[e].status = "INVITED" => ~Admits(staffCall[one], e)
            /\ \A a \in Accounts : Owns(staffCall[one], a) => \E e \in Faulty!Rows : staffRow[e].keycloakId = a
            => SmoothInv'
<1>1. StaffFits(Faulty!Idle) /\ MailHolds(Faulty!Idle) /\ SmoothHolds(Faulty!Idle)
  BY StaffIdle DEF StaffFits, MailHolds, SmoothHolds, Renamed
<1> QED
  BY <1>1, StaffPasses

\* An administrator's employee takes over the account that has the e-mail.
LEMMA StaffReattaches ==
  ASSUME StaffInv, Faulty!ReattachAccount(one)
  PROVE  /\ StaffInv'
         /\ MailInv => MailInv'
         /\ ~(MailInv /\ SmoothInv)
<1>1. PICK c : c = staffCall[one]
  OBVIOUS
<1>2. c.at = "account" /\ c.id = Null /\ UNCHANGED <<staffRow, account, code, admitted>>
  BY <1>1, Zenon DEF Faulty!ReattachAccount, Faulty!Others
<1>3. c \in StaffCalls /\ StaffHolds(c) /\ StaffRows
  BY <1>1, <1>2, StaffHeld, StaffIdle
<1>4. c.entity \in Records /\ c.then = "idle" /\ c.holds = Null /\ c.entity.status = "ACTIVE"
      /\ ~Faulty!HasRow(c.entity.email)
  BY <1>2, <1>3 DEF StaffHolds, StaffCalls
<1>5. PICK a \in Faulty!AccountsOf(c.entity.email) : Faulty!Links(one, a)
  BY <1>1, Zenon DEF Faulty!ReattachAccount
<1>6. a \in Accounts /\ account[a] = c.entity.email
  BY <1>5 DEF Faulty!AccountsOf
<1>7. PICK x : x = [c.entity EXCEPT !.keycloakId = a]
  OBVIOUS
<1>8. x \in Records /\ x.email = c.entity.email /\ x.status = "ACTIVE" /\ x.keycloakId = a
  BY <1>4, <1>6, <1>7 DEF Records, Faulty!EmployeeRecords
<1>9. PICK d : d = [at |-> "file", id |-> Null, entity |-> x, columns |-> c.columns, then |-> "idle", holds |-> Null]
  OBVIOUS
<1>10. staffCall' = [staffCall EXCEPT ![one] = d]
  <2>1. staffCall' = [staffCall EXCEPT ![one].entity.keycloakId = a,
                                       ![one].at = IF c.id = Null THEN "file" ELSE "compare"]
    BY <1>1, <1>5 DEF Faulty!Links
  <2>2. staffCall' = [staffCall EXCEPT ![one].entity.keycloakId = a, ![one].at = "file"]
    BY <1>2, <2>1
  <2>3. DOMAIN staffCall = {one} /\ c = [at |-> c.at, id |-> c.id, entity |-> c.entity, columns |-> c.columns,
                                         then |-> c.then, holds |-> c.holds]
    BY <1>3 DEF StaffInv, StaffCalls
  <2>4. PICK y : y = [c EXCEPT !.entity = x, !.at = "file"]
    OBVIOUS
  <2>5. y = d
    <3>1. y = [at |-> "file", id |-> c.id, entity |-> x, columns |-> c.columns, then |-> c.then, holds |-> c.holds]
      BY <1>3, <2>4 DEF StaffCalls
    <3> QED
      BY <1>2, <1>4, <1>9, <3>1
  <2>6. staffCall' = [staffCall EXCEPT ![one] = y]
    BY <1>1, <1>7, <2>2, <2>3, <2>4
  <2> QED
    BY <2>5, <2>6
<1>11. d \in StaffCalls /\ d.at = "file" /\ d.id = Null /\ d.entity = x /\ d.then = "idle" /\ d.holds = Null
  BY <1>3, <1>8, <1>9 DEF StaffCalls
<1>12. StaffFits(d)
  BY <1>4, <1>8, <1>11, StaffFacts DEF StaffFits, StaffHolds
<1>13. MailHolds(d) /\ ~Renamed(c)
  BY <1>2, <1>6, <1>8, <1>11 DEF MailHolds, Renamed
<1>14. ASSUME MailInv, SmoothInv PROVE FALSE
  <2>1. PICK e \in Faulty!Rows : staffRow[e].keycloakId = a
    BY <1>1, <1>2, <1>6, <1>4, <1>14, StaffFacts DEF SmoothInv, Owns, Records, Faulty!EmployeeRecords
  <2>2. MailAgrees(e)
    BY <1>1, <1>13, <1>14 DEF MailInv
  <2>3. staffRow[e].email = c.entity.email
    BY <1>6, <2>1, <2>2, StaffFacts DEF MailAgrees
  <2> QED
    BY <1>4, <2>1, <2>3 DEF Faulty!HasRow
<1> QED
  BY <1>1, <1>2, <1>10, <1>12, <1>13, <1>14, StaffPasses

\* The code of an invitation is spent: its employee is about to be active.
LEMMA StaffSpends ==
  ASSUME StaffInv, Faulty!SpendCode(one)
  PROVE  /\ StaffInv'
         /\ MailInv => MailInv'
         /\ SmoothInv => SmoothInv'
<1>1. PICK c : c = staffCall[one]
  OBVIOUS
<1>2. c.at = "spend" /\ code' = [code EXCEPT ![c.holds] = Faulty!Gone(c.id, "spent")]
      /\ staffRow' = staffRow /\ account' = account /\ admitted' = admitted
  BY <1>1 DEF Faulty!SpendCode
<1>3. c \in StaffCalls /\ StaffHolds(c) /\ StaffRows
  BY <1>1, <1>2, StaffHeld, StaffIdle
<1>4. c.id \in Faulty!Rows /\ c.holds \in Codes /\ code[c.holds] \in {c.id, Expired(c.id)} /\ c.id \in Employees
      /\ c.entity # Null /\ c.entity.status = "ACTIVE"
      /\ c.then = "idle" /\ staffRow[c.id].status # "PENDING"
      /\ c.entity = [staffRow[c.id] EXCEPT !.status = "ACTIVE", !.active = TRUE]
  BY <1>2, <1>3 DEF StaffHolds, Faulty!Rows
<1>5. PICK d : d = [at |-> "account", id |-> c.id, entity |-> c.entity, columns |-> c.columns, then |-> c.then, holds |-> Null]
  OBVIOUS
<1>6. staffCall' = [staffCall EXCEPT ![one] = d]
  <2>1. PICK y : y = [c EXCEPT !.at = "account", !.holds = Null]
    OBVIOUS
  <2>2. y = d
    <3>1. y = [at |-> "account", id |-> c.id, entity |-> c.entity, columns |-> c.columns, then |-> c.then, holds |-> Null]
      BY <1>3, <2>1 DEF StaffCalls
    <3> QED
      BY <1>5, <3>1
  <2>3. staffCall' = [staffCall EXCEPT ![one] = y]
    BY <1>1, <2>1 DEF Faulty!SpendCode, StaffInv
  <2> QED
    BY <2>2, <2>3
<1>7. d \in StaffCalls /\ d.at = "account" /\ d.id = c.id /\ d.entity = c.entity /\ d.then = "idle" /\ d.holds = Null
  BY <1>3, <1>4, <1>5 DEF StaffCalls
<1>8. UNCHANGED Faulty!Rows
  BY <1>2 DEF Faulty!Rows
<1>9. StaffRows'
  <2>1. Faulty!Gone(c.id, "spent") \in Faulty!GoneCodes /\ Faulty!Gone(c.id, "spent") \notin Employees
    BY <1>4, CodesGo
  <2> QED
    BY <1>2, <1>3, <1>8, <2>1, StaffFacts DEF StaffRows
<1>10. StaffFits(d)'
  BY <1>2, <1>4, <1>7, <1>8, StaffFacts DEF StaffFits, StaffHolds, Faulty!Rows
<1>11. StaffInv' /\ staffCall'[one] = d
  BY <1>6, <1>9, <1>10, StaffGoes
<1>12. ~Renamed(c) /\ ~Renamed(d) /\ MailHolds(d)' /\ SmoothHolds(d)'
  BY <1>2, <1>7 DEF Renamed, MailHolds, SmoothHolds
<1>13. MailInv => MailInv'
  BY <1>1, <1>2, <1>8, <1>11, <1>12 DEF MailInv, MailAgrees, Faulty!OneAccountEach
<1>14. ASSUME NEW e \in Faulty!Rows, HasCode(e) PROVE HasCode(e)' \/ Admits(d, e)
  <2>1. PICK k \in Codes : code[k] \in {e, Expired(e)}
    BY <1>14 DEF HasCode
  <2>2. CASE k = c.holds
    <3>1. e \in Employees
      BY DEF Faulty!Rows
    <3>2. e = c.id
      BY <1>4, <2>1, <2>2, <3>1, CodesGo
    <3> QED
      BY <1>7, <3>2 DEF Admits
  <2>3. CASE k # c.holds
    BY <1>2, <1>3, <2>1, <2>3 DEF HasCode, StaffRows
  <2> QED
    BY <2>2, <2>3
<1>15. \A a : ~Owns(c, a) /\ ~Owns(d, a) /\ ~Admits(c, a)
  BY <1>2, <1>7 DEF Owns, Admits
<1>16. SmoothInv => SmoothInv'
  BY <1>1, <1>2, <1>8, <1>11, <1>12, <1>14, <1>15 DEF SmoothInv
<1> QED
  BY <1>11, <1>13, <1>16

\* Keycloak refuses an account or the new e-mail of one, or the process stops.
LEMMA StaffFails ==
  ASSUME StaffInv,
         \/ Faulty!AccountFails(one) \/ Faulty!RenameFails(one)
         \/ Faulty!RestoreFails(one) \/ Faulty!OnboardingCrash(one)
  PROVE  /\ StaffInv'
         /\ MailInv /\ ~Renamed(staffCall[one]) => MailInv'
         /\ /\ MailInv /\ SmoothInv /\ staffCall[one].at \in {"account", "rename"}
            /\ staffCall[one].at = "account" =>
                 staffCall[one].id # Null /\ Faulty!AccountsOf(staffCall[one].entity.email) # {}
            => SmoothInv'
<1>1. PICK c : c = staffCall[one]
  OBVIOUS
<1>2. staffCall' = [staffCall EXCEPT ![one] = Faulty!Idle] /\ UNCHANGED <<staffRow, account, code, admitted>>
  BY DEF Faulty!AccountFails, Faulty!RenameFails, Faulty!RestoreFails, Faulty!OnboardingCrash,
         Faulty!Crash, Faulty!Fails, Faulty!Others
<1>3. ASSUME MailInv, SmoothInv, c.at \in {"account", "rename"},
             c.at = "account" => c.id # Null /\ Faulty!AccountsOf(c.entity.email) # {},
             NEW e \in Faulty!Rows, staffRow[e].status = "INVITED", Admits(c, e)
      PROVE  FALSE
  <2>1. c.at = "account" /\ c.id = e
    BY <1>3 DEF Admits
  <2>2. c \in StaffCalls /\ StaffHolds(c) /\ StaffRows
    BY <1>1, <1>3, StaffHeld, StaffIdle
  <2>3. staffRow[e] \in Records /\ c.entity = [staffRow[e] EXCEPT !.status = "ACTIVE", !.active = TRUE]
    BY <1>3, <2>1, <2>2 DEF StaffRows, StaffHolds, Faulty!Rows
  <2>4. c.entity.email = staffRow[e].email /\ c.entity.email \in Emails
    BY <2>3 DEF Records, Faulty!EmployeeRecords
  <2>5. PICK a \in Accounts : account[a] = staffRow[e].email
    BY <1>3, <2>1, <2>4 DEF Faulty!AccountsOf
  <2>6. ~Owns(c, a) /\ ~Renamed(c)
    BY <2>1 DEF Owns, Renamed
  <2>7. PICK x \in Faulty!Rows : staffRow[x].keycloakId = a
    BY <1>1, <1>3, <2>4, <2>5, <2>6, StaffFacts DEF SmoothInv
  <2>8. MailAgrees(x)
    BY <1>1, <1>3, <2>6 DEF MailInv
  <2>9. staffRow[x].email = staffRow[e].email
    BY <2>5, <2>7, <2>8, StaffFacts DEF MailAgrees
  <2>10. x = e
    BY <1>3, <2>9 DEF SmoothInv
  <2>11. staffRow[e].status = "ACTIVE"
    BY <1>3, <2>7, <2>10, StaffFacts DEF SmoothInv
  <2> QED
    BY <1>3, <2>11
<1>4. c.at \in {"account", "rename"} => \A a : ~Owns(c, a)
  BY DEF Owns
<1> QED
  BY <1>1, <1>2, <1>3, <1>4, StaffEnds

\* A save reads its row again, which is there as nobody else deletes it.
LEMMA StaffCompares ==
  ASSUME StaffInv, Faulty!CompareSave(one), Faulty!Others
  PROVE  /\ StaffInv'
         /\ MailInv => MailInv'
         /\ SmoothInv => SmoothInv'
<1>1. PICK c : c = staffCall[one]
  OBVIOUS
<1>2. c.at = "compare" /\ UNCHANGED <<staffRow, account, code, admitted>>
  BY <1>1 DEF Faulty!CompareSave, Faulty!Others
<1>3. c \in StaffCalls /\ StaffHolds(c) /\ StaffRows
  BY <1>1, <1>2, StaffHeld, StaffIdle
<1>4. c.id \in Faulty!Rows /\ staffRow[c.id] \in Records /\ c.entity \in Records
  BY <1>2, <1>3 DEF StaffHolds, StaffRows, Faulty!Rows, StaffCalls
<1>5. PICK cols : cols = Faulty!Differing(c.entity, staffRow[c.id])
  OBVIOUS
<1>6. cols \subseteq Fields
  BY <1>4, <1>5 DEF Faulty!Differing, Records, Faulty!EmployeeRecords, Fields
<1>7. PICK d : d = [c EXCEPT !.at = "update", !.columns = cols]
  OBVIOUS
<1>8. staffCall' = [staffCall EXCEPT ![one] = d]
  <2>1. staffCall' = [staffCall EXCEPT ![one].at = "update", ![one].columns = cols]
    BY <1>1, <1>4, <1>5, StaffFacts DEF Faulty!CompareSave
  <2> QED
    BY <1>1, <1>7, <2>1 DEF StaffInv
<1>9. d \in StaffCalls /\ d.at = "update" /\ d.id = c.id /\ d.entity = c.entity /\ d.then = c.then /\ d.holds = c.holds
      /\ d.columns = cols
  BY <1>3, <1>6, <1>7 DEF StaffCalls
<1>10. StaffFits(d)
  BY <1>2, <1>3, <1>5, <1>9, StaffFacts DEF StaffFits, StaffHolds
<1>11. (Renamed(c) <=> Renamed(d)) /\ (MailHolds(c) => MailHolds(d)) /\ (SmoothHolds(c) => SmoothHolds(d))
  BY <1>2, <1>9 DEF Renamed, MailHolds, SmoothHolds
<1>12. \A e : (Admits(c, e) => Admits(d, e)) /\ (Owns(c, e) => Owns(d, e))
  BY <1>2, <1>9 DEF Admits, Owns
<1>13. (MailInv => MailHolds(c)) /\ (SmoothInv => SmoothHolds(c))
  BY <1>1 DEF MailInv, SmoothInv
<1> QED
  BY <1>1, <1>2, <1>8, <1>9, <1>10, <1>11, <1>12, <1>13, StaffPasses

\* A new row is inserted, which no unique column refuses.
LEMMA StaffInserts ==
  ASSUME StaffInv, NEW e \in Employees, Faulty!InsertEmployee(one, e)
  PROVE  /\ StaffInv' /\ Faulty!ApprovedBeforeActive
         /\ MailInv => MailInv'
         /\ MailInv /\ SmoothInv => SmoothInv'
<1>1. PICK c : c = staffCall[one]
  OBVIOUS
<1>2. c.at = "file" /\ e \notin admitted /\ ~Faulty!Collides(one) /\ admitted' = admitted \union {e}
      /\ staffRow' = [staffRow EXCEPT ![e] = c.entity] /\ account' = account /\ code' = code
  BY <1>1 DEF Faulty!InsertEmployee
<1>3. c \in StaffCalls /\ StaffHolds(c) /\ StaffRows
  BY <1>1, <1>2, StaffHeld, StaffIdle
<1>4. PICK x : x = c.entity
  OBVIOUS
<1>5. x \in Records /\ c.id = Null /\ (c.then = "issue" => x.status = "INVITED") /\ c.holds = Null
      /\ ~Faulty!HasRow(x.email)
  BY <1>2, <1>3, <1>4 DEF StaffHolds, StaffCalls
<1>6. staffRow \in [Employees -> Records \union {Null}] /\ e \notin Faulty!Rows /\ staffRow'[e] = x
      /\ \A y \in Employees \ {e} : staffRow'[y] = staffRow[y]
  BY <1>2, <1>3, <1>4 DEF StaffRows
<1>7. Faulty!Rows' = Faulty!Rows \union {e} /\ Faulty!Rows \subseteq Employees
  BY <1>5, <1>6, StaffFacts DEF Faulty!Rows
<1>8. \A y \in Faulty!Rows : staffRow[y].email # x.email
                             /\ (x.keycloakId # Null => staffRow[y].keycloakId # x.keycloakId)
  <2>1. ~Faulty!Refused(Null, x)
    BY <1>1, <1>2, <1>4, <1>5, StaffFacts DEF Faulty!Collides
  <2> QED
    BY <1>7, <2>1, StaffFacts DEF Faulty!Refused
<1>9. PICK d : d = IF c.then = "idle" THEN Faulty!Idle ELSE [[c EXCEPT !.id = e] EXCEPT !.at = c.then]
  OBVIOUS
<1>10. staffCall' = [staffCall EXCEPT ![one] = d]
  BY <1>1, <1>9, Zenon DEF Faulty!InsertEmployee, Faulty!GoesTo
<1>11. \/ d = Faulty!Idle /\ c.then = "idle"
       \/ d \in StaffCalls /\ d.at = "issue" /\ d.id = e /\ c.then = "issue"
  <2>1. CASE c.then = "idle"
    BY <1>9, <2>1
  <2>2. CASE c.then # "idle"
    <3>1. c.then = "issue" /\ d = [at |-> c.then, id |-> e, entity |-> x, columns |-> c.columns, then |-> c.then, holds |-> c.holds]
      BY <1>3, <1>4, <1>9, <2>2 DEF StaffCalls
    <3>2. d \in StaffCalls /\ d.at = "issue" /\ d.id = e
      BY <1>3, <1>5, <3>1 DEF StaffCalls
    <3> QED
      BY <3>1, <3>2
  <2> QED
    BY <2>1, <2>2
<1>12. StaffRows'
  <2>1. staffRow' \in [Employees -> Records \union {Null}] /\ Faulty!Rows' \subseteq admitted'
    BY <1>2, <1>3, <1>4, <1>5, <1>7 DEF StaffRows
  <2>2. \A k \in Codes : code[k] \in Employees => code[k] # e /\ code[k] \in admitted
                          /\ (code[k] \in Faulty!Rows => staffRow[code[k]].status # "PENDING")
    BY <1>2, <1>3 DEF StaffRows
  <2> QED
    BY <1>2, <1>3, <1>6, <1>7, <2>1, <2>2 DEF StaffRows
<1>13. StaffFits(d)'
  BY <1>5, <1>6, <1>7, <1>11 DEF StaffFits, StaffHolds
<1>14. StaffInv' /\ staffCall'[one] = d
  BY <1>10, <1>12, <1>13, StaffGoes
<1>15. Faulty!ApprovedBeforeActive
  BY <1>6, <1>7 DEF Faulty!ApprovedBeforeActive
<1>16. ~Renamed(c) /\ ~Renamed(d) /\ MailHolds(d)' /\ SmoothHolds(d)' /\ \A a : ~Admits(c, a) /\ ~Owns(d, a)
  BY <1>2, <1>11, StaffIdle DEF Renamed, MailHolds, SmoothHolds, Admits, Owns
<1>17. MailInv => MailInv'
  <2> SUFFICES ASSUME MailInv PROVE MailInv'
    OBVIOUS
  <2>1. x.keycloakId # Null => account[x.keycloakId] = x.email
    BY <1>1, <1>2, <1>4 DEF MailInv, MailHolds
  <2>2. \A y \in Faulty!Rows' : MailAgrees(y)'
    BY <1>1, <1>2, <1>6, <1>7, <1>16, <2>1 DEF MailInv, MailAgrees
  <2>3. Faulty!OneAccountEach'
    BY <1>6, <1>7, <1>8 DEF MailInv, Faulty!OneAccountEach
  <2> QED
    BY <1>2, <1>14, <1>16, <2>2, <2>3 DEF MailInv
<1>18. SmoothInv => SmoothInv'
  <2> SUFFICES ASSUME SmoothInv PROVE SmoothInv'
    OBVIOUS
  <2>1. /\ x.keycloakId # Null => x.status = "ACTIVE"
        /\ x.status = "INVITED" => c.then = "issue"
    BY <1>1, <1>2, <1>4 DEF SmoothInv, SmoothHolds
  <2>2. \A y, z \in Faulty!Rows' : staffRow'[y].email = staffRow'[z].email => y = z
    BY <1>6, <1>7, <1>8 DEF SmoothInv
  <2>3. \A y \in Faulty!Rows' : staffRow'[y].keycloakId # Null => staffRow'[y].status = "ACTIVE"
    BY <1>6, <1>7, <2>1 DEF SmoothInv
  <2>4. ASSUME NEW a \in Accounts, account'[a] # Null PROVE \E y \in Faulty!Rows' : staffRow'[y].keycloakId = a
    <3>1. (\E y \in Faulty!Rows : staffRow[y].keycloakId = a) \/ x.keycloakId = a
      BY <1>1, <1>2, <1>4, <2>4 DEF SmoothInv, Owns
    <3> QED
      BY <1>6, <1>7, <3>1
  <2>5. ASSUME NEW y \in Faulty!Rows', staffRow'[y].status = "INVITED" PROVE HasCode(y)' \/ Admits(d, y)
    <3>1. CASE y = e
      BY <1>6, <1>11, <2>1, <2>5, <3>1 DEF Admits
    <3>2. CASE y # e
      BY <1>1, <1>2, <1>6, <1>7, <1>16, <2>5, <3>2 DEF SmoothInv, HasCode
    <3> QED
      BY <3>1, <3>2
  <2> QED
    BY <1>14, <1>16, <2>2, <2>3, <2>4, <2>5 DEF SmoothInv
<1> QED
  BY <1>14, <1>15, <1>17, <1>18

\* The code that the employee becomes active with is stored.
LEMMA StaffIssuesCode ==
  ASSUME StaffInv, NEW k \in Codes, Faulty!IssueActivationCode(one, k)
  PROVE  /\ StaffInv'
         /\ MailInv => MailInv'
         /\ MailInv /\ SmoothInv => SmoothInv'
<1>1. PICK c : c = staffCall[one]
  OBVIOUS
<1>2. c.at = "issue" /\ code[k] = Null /\ code' = [code EXCEPT ![k] = c.id] /\ staffRow' = staffRow
      /\ account' = account /\ admitted' = admitted /\ staffCall' = [staffCall EXCEPT ![one] = Faulty!Idle]
  BY <1>1 DEF Faulty!IssueActivationCode, Faulty!GoesTo
<1>3. c \in StaffCalls /\ StaffHolds(c) /\ StaffRows
  BY <1>1, <1>2, StaffHeld, StaffIdle
<1>4. c.id \in Faulty!Rows /\ staffRow[c.id].status # "PENDING" /\ c.id \in Employees
  BY <1>2, <1>3 DEF StaffHolds, Faulty!Rows
<1>5. UNCHANGED Faulty!Rows /\ code'[k] = c.id /\ \A j \in Codes \ {k} : code'[j] = code[j]
  BY <1>2, <1>3 DEF Faulty!Rows, StaffRows
<1>6. StaffRows'
  BY <1>2, <1>3, <1>4, <1>5 DEF StaffRows
<1>7. StaffInv' /\ staffCall'[one] = Faulty!Idle
  BY <1>2, <1>6, StaffGoes DEF StaffFits
<1>8. MailInv => MailInv'
  BY <1>1, <1>2, <1>5, <1>7, StaffIdle DEF MailInv, MailAgrees, MailHolds, Renamed, Faulty!OneAccountEach
<1>9. SmoothInv => SmoothInv'
  <2> SUFFICES ASSUME SmoothInv PROVE SmoothInv'
    OBVIOUS
  <2>1. \A a : ~Owns(c, a)
    BY <1>2 DEF Owns
  <2>2. ASSUME NEW y \in Faulty!Rows, staffRow[y].status = "INVITED" PROVE HasCode(y)'
    <3>1. CASE y = c.id
      BY <1>5, <3>1 DEF HasCode
    <3>2. CASE y # c.id
      <4>1. PICK j \in Codes : code[j] \in {y, Expired(y)}
        BY <1>1, <2>2, <3>2 DEF SmoothInv, HasCode, Admits
      <4>2. j # k
        BY <1>2, <2>2, <4>1, StaffFacts, CodesGo DEF Faulty!Rows
      <4> QED
        BY <1>5, <4>1, <4>2 DEF HasCode
    <3> QED
      BY <3>1, <3>2
  <2>3. SmoothHolds(Faulty!Idle)'
    BY StaffIdle DEF SmoothHolds
  <2> QED
    BY <1>1, <1>2, <1>5, <1>7, <2>1, <2>2, <2>3 DEF SmoothInv
<1> QED
  BY <1>7, <1>8, <1>9

\* A code expires: whoever has it has an expired one.
LEMMA StaffExpires ==
  ASSUME StaffInv, NEW k \in Codes, Faulty!ExpireCode(k)
  PROVE  /\ StaffInv' /\ UNCHANGED staffRow
         /\ MailInv => MailInv'
         /\ SmoothInv => SmoothInv'
<1>1. PICK c, e : c = staffCall[one] /\ e = code[k]
  OBVIOUS
<1>2. e \in Employees /\ code' = [code EXCEPT ![k] = Expired(e)] /\ staffRow' = staffRow
      /\ staffCall' = staffCall /\ account' = account /\ admitted' = admitted
  BY <1>1 DEF Faulty!ExpireCode, Faulty!saveVars, Expired
<1>3. StaffRows /\ StaffFits(c) /\ staffCall' = [p \in {one} |-> staffCall'[one]] /\ staffCall'[one] = c
  BY <1>1, <1>2 DEF StaffInv
<1>4. Expired(e) \in Faulty!GoneCodes /\ Expired(e) \notin Employees /\ e \notin Faulty!GoneCodes
  BY <1>2, CodesGo
<1>5. UNCHANGED Faulty!Rows /\ code'[k] = Expired(e) /\ \A j \in Codes \ {k} : code'[j] = code[j]
  BY <1>2, <1>3 DEF Faulty!Rows, StaffRows
<1>6. StaffRows'
  BY <1>2, <1>3, <1>4, <1>5 DEF StaffRows
<1>7. StaffFits(c)'
  <2>1. CASE c = Faulty!Idle
    BY <2>1 DEF StaffFits
  <2>2. CASE c \in StaffCalls /\ StaffHolds(c)
    <3>1. \A email : Faulty!HasRow(email)' <=> Faulty!HasRow(email)
      BY <1>2, <1>5 DEF Faulty!HasRow
    <3>2. c.at = "spend" => c.holds \in Codes /\ code'[c.holds] \in {c.id, Expired(c.id)}
      <4> SUFFICES ASSUME c.at = "spend" PROVE c.holds \in Codes /\ code'[c.holds] \in {c.id, Expired(c.id)}
        OBVIOUS
      <4>1. c.holds \in Codes /\ code[c.holds] \in {c.id, Expired(c.id)} /\ c.id \in Employees
        BY <2>2 DEF StaffHolds, Faulty!Rows
      <4>2. c.holds = k => c.id = e
        BY <1>1, <1>2, <4>1, CodesGo
      <4> QED
        BY <1>5, <4>1, <4>2
    <3> QED
      BY <1>2, <1>5, <2>2, <3>1, <3>2 DEF StaffFits, StaffHolds, Faulty!Differing
  <2> QED
    BY <1>3, <2>1, <2>2 DEF StaffFits
<1>8. StaffInv'
  BY <1>3, <1>6, <1>7 DEF StaffInv
<1>9. MailInv => MailInv'
  BY <1>2, <1>5 DEF MailInv, MailAgrees, MailHolds, Renamed, Faulty!AccountsOf, Faulty!OneAccountEach
<1>10. ASSUME NEW y \in Faulty!Rows, HasCode(y) PROVE HasCode(y)'
  <2>1. PICK j \in Codes : code[j] \in {y, Expired(y)}
    BY <1>10 DEF HasCode
  <2>2. y \in Employees
    BY DEF Faulty!Rows
  <2>3. j = k => y = e
    BY <1>1, <1>2, <2>1, <2>2, CodesGo
  <2>4. code'[j] \in {y, Expired(y)}
    BY <1>5, <2>1, <2>3
  <2> QED
    BY <2>4 DEF HasCode
<1>11. SmoothInv => SmoothInv'
  BY <1>2, <1>5, <1>10 DEF SmoothInv, SmoothHolds, Owns, Admits
<1> QED
  BY <1>2, <1>8, <1>9, <1>11

\* A row is deleted; while nothing fails, a pending one, which has no account.
LEMMA StaffDeletes ==
  ASSUME StaffInv, Faulty!DeleteRegistration(one)
  PROVE  /\ StaffInv' /\ Faulty!ApprovedBeforeActive
         /\ MailInv => MailInv'
         /\ MailInv /\ SmoothInv => SmoothInv'
<1>1. PICK c : c = staffCall[one]
  OBVIOUS
<1>2. c.at = "delete" /\ staffRow' = [staffRow EXCEPT ![c.id] = Null] /\ account' = account /\ code' = code
      /\ admitted' = admitted /\ staffCall' = [staffCall EXCEPT ![one] = Faulty!Idle]
  BY <1>1 DEF Faulty!DeleteRegistration, Faulty!GoesTo, Faulty!Others
<1>3. c \in StaffCalls /\ StaffHolds(c) /\ StaffRows
  BY <1>1, <1>2, StaffHeld, StaffIdle
<1>4. c.id \in Faulty!Rows
  BY <1>2, <1>3 DEF StaffHolds
<1>5. Faulty!Rows' = Faulty!Rows \ {c.id} /\ staffRow'[c.id] = Null
      /\ \A y \in Faulty!Rows \ {c.id} : staffRow'[y] = staffRow[y]
  BY <1>2, <1>3, <1>4 DEF Faulty!Rows, StaffRows
<1>6. StaffRows'
  BY <1>2, <1>3, <1>5 DEF StaffRows
<1>7. StaffInv' /\ staffCall'[one] = Faulty!Idle
  BY <1>2, <1>6, StaffGoes DEF StaffFits
<1>8. Faulty!ApprovedBeforeActive
  BY <1>5 DEF Faulty!ApprovedBeforeActive
<1>9. ~Renamed(c) /\ \A a : ~Admits(c, a) /\ ~Owns(c, a)
  BY <1>2 DEF Renamed, Admits, Owns
<1>10. MailHolds(Faulty!Idle)' /\ SmoothHolds(Faulty!Idle)'
  BY StaffIdle DEF MailHolds, SmoothHolds, Renamed
<1>11. MailInv => MailInv'
  BY <1>1, <1>2, <1>5, <1>7, <1>9, <1>10 DEF MailInv, MailAgrees, Faulty!OneAccountEach
<1>12. SmoothInv => SmoothInv'
  <2> SUFFICES ASSUME SmoothInv PROVE SmoothInv'
    OBVIOUS
  <2>1. staffRow[c.id].keycloakId = Null
    BY <1>1, <1>2, <1>4 DEF SmoothInv, SmoothHolds
  <2>2. ASSUME NEW a \in Accounts, account'[a] # Null PROVE \E y \in Faulty!Rows' : staffRow'[y].keycloakId = a
    <3>1. PICK y \in Faulty!Rows : staffRow[y].keycloakId = a
      BY <1>1, <1>2, <1>9, <2>2 DEF SmoothInv
    <3> QED
      BY <1>5, <2>1, <2>2, <3>1, StaffFacts
  <2>3. \A y \in Faulty!Rows' : staffRow'[y].status = "INVITED" => HasCode(y)'
    BY <1>1, <1>2, <1>5, <1>9 DEF SmoothInv, HasCode
  <2> QED
    BY <1>5, <1>7, <1>10, <2>2, <2>3 DEF SmoothInv
<1> QED
  BY <1>7, <1>8, <1>11, <1>12

\* An account is created for an e-mail that has none.
LEMMA StaffAccounts ==
  ASSUME StaffInv, NEW a \in Accounts, Faulty!CreateAccount(one, a)
  PROVE  /\ StaffInv'
         /\ MailInv => MailInv'
         /\ MailInv /\ SmoothInv => SmoothInv'
<1>1. PICK c : c = staffCall[one]
  OBVIOUS
<1>2. c.at = "account" /\ account[a] = Null /\ Faulty!AccountsOf(c.entity.email) = {}
      /\ account' = [account EXCEPT ![a] = c.entity.email] /\ Faulty!Links(one, a)
      /\ staffRow' = staffRow /\ code' = code /\ admitted' = admitted
  BY <1>1 DEF Faulty!CreateAccount
<1>3. c \in StaffCalls /\ StaffHolds(c) /\ StaffRows
  BY <1>1, <1>2, StaffHeld, StaffIdle
<1>4. c.entity \in Records /\ c.then = "idle" /\ c.holds = Null /\ c.entity.status = "ACTIVE"
      /\ c.entity.email \in Emails /\ c.entity.keycloakId \in Accounts \union {Null}
  BY <1>2, <1>3 DEF StaffHolds, StaffCalls, Records, Faulty!EmployeeRecords
<1>5. c.id # Null => /\ c.id \in Faulty!Rows /\ staffRow[c.id] \in Records /\ staffRow[c.id].status # "PENDING"
                     /\ c.entity = [staffRow[c.id] EXCEPT !.status = "ACTIVE", !.active = TRUE]
  BY <1>2, <1>3 DEF StaffHolds, StaffRows, Faulty!Rows
<1>6. c.id # Null => c.entity.email = staffRow[c.id].email /\ c.entity.keycloakId = staffRow[c.id].keycloakId
  BY <1>5 DEF Records, Faulty!EmployeeRecords
<1>7. PICK x : x = [c.entity EXCEPT !.keycloakId = a]
  OBVIOUS
<1>8. x \in Records /\ x.email = c.entity.email /\ x.status = "ACTIVE" /\ x.keycloakId = a
  BY <1>4, <1>7 DEF Records, Faulty!EmployeeRecords
<1>9. PICK at : at = IF c.id = Null THEN "file" ELSE "compare"
  OBVIOUS
<1>10. PICK d : d = [at |-> at, id |-> c.id, entity |-> x, columns |-> c.columns, then |-> c.then, holds |-> c.holds]
  OBVIOUS
<1>11. staffCall' = [staffCall EXCEPT ![one] = d]
  <2>1. staffCall' = [staffCall EXCEPT ![one].entity.keycloakId = a,
                                       ![one].at = IF c.id = Null THEN "file" ELSE "compare"]
    BY <1>1, <1>2 DEF Faulty!Links
  <2>2. staffCall' = [staffCall EXCEPT ![one].entity.keycloakId = a, ![one].at = at]
    BY <1>9, <2>1
  <2>3. DOMAIN staffCall = {one} /\ c = [at |-> c.at, id |-> c.id, entity |-> c.entity, columns |-> c.columns,
                                         then |-> c.then, holds |-> c.holds]
    BY <1>3 DEF StaffInv, StaffCalls
  <2>4. PICK y : y = [c EXCEPT !.entity = x, !.at = at]
    OBVIOUS
  <2>5. y = d
    <3>1. y = [at |-> at, id |-> c.id, entity |-> x, columns |-> c.columns, then |-> c.then, holds |-> c.holds]
      BY <1>3, <2>4 DEF StaffCalls
    <3> QED
      BY <1>10, <3>1
  <2>6. staffCall' = [staffCall EXCEPT ![one] = y]
    BY <1>1, <1>7, <2>2, <2>3, <2>4
  <2> QED
    BY <2>5, <2>6
<1>12. at \in {"file", "compare"} /\ (at = "file" <=> c.id = Null)
  BY <1>9
<1>13. d \in StaffCalls /\ d.at = at /\ d.id = c.id /\ d.entity = x /\ d.then = "idle" /\ d.holds = Null
  BY <1>3, <1>4, <1>8, <1>10, <1>12 DEF StaffCalls
<1>14. UNCHANGED Faulty!Rows /\ account'[a] = x.email /\ \A b \in Accounts \ {a} : account'[b] = account[b]
  BY <1>2, <1>3, <1>8 DEF Faulty!Rows, StaffRows
<1>15. StaffRows'
  BY <1>2, <1>3, <1>4, <1>14 DEF StaffRows
<1>16. ~Faulty!HasRow(x.email)' <=> ~Faulty!HasRow(x.email)
  BY <1>2, <1>14 DEF Faulty!HasRow
<1>17. StaffFits(d)'
  BY <1>2, <1>3, <1>5, <1>8, <1>12, <1>13, <1>14, <1>16, StaffFacts DEF StaffFits, StaffHolds
<1>18. StaffInv' /\ staffCall'[one] = d
  BY <1>11, <1>15, <1>17, StaffGoes
<1>19. ~Renamed(c) /\ ~Renamed(d) /\ MailHolds(d)'
  BY <1>2, <1>8, <1>12, <1>13, <1>14 DEF Renamed, MailHolds
<1>20. MailInv => \A y \in Faulty!Rows : MailAgrees(y) /\ staffRow[y].keycloakId # a
  <2> SUFFICES ASSUME MailInv, NEW y \in Faulty!Rows PROVE MailAgrees(y) /\ staffRow[y].keycloakId # a
    OBVIOUS
  <2>1. MailAgrees(y)
    BY <1>1, <1>19 DEF MailInv
  <2>2. staffRow[y].email \in Emails
    BY <1>3 DEF StaffRows, Faulty!Rows, Records, Faulty!EmployeeRecords
  <2> QED
    BY <1>2, <2>1, <2>2, StaffFacts DEF MailAgrees
<1>21. MailInv => MailInv'
  <2> SUFFICES ASSUME MailInv PROVE MailInv'
    OBVIOUS
  <2>1. \A y \in Faulty!Rows : MailAgrees(y)'
    <3> SUFFICES ASSUME NEW y \in Faulty!Rows PROVE MailAgrees(y)'
      OBVIOUS
    <3>1. staffRow[y].keycloakId \in Accounts \union {Null}
      BY <1>3 DEF StaffRows, Faulty!Rows, Records, Faulty!EmployeeRecords
    <3> QED
      BY <1>2, <1>14, <1>20, <3>1 DEF MailAgrees
  <2>2. \A b \in Accounts \ {a} : account[b] # x.email
    BY <1>2, <1>8 DEF Faulty!AccountsOf
  <2>3. \A b, k \in Accounts : account'[b] # Null /\ account'[b] = account'[k] => b = k
    BY <1>14, <2>2 DEF MailInv
  <2>4. Faulty!OneAccountEach'
    BY <1>2, <1>14 DEF MailInv, Faulty!OneAccountEach
  <2> QED
    BY <1>14, <1>18, <1>19, <2>1, <2>3, <2>4 DEF MailInv
<1>22. MailInv /\ SmoothInv => SmoothInv'
  <2> SUFFICES ASSUME MailInv, SmoothInv PROVE SmoothInv'
    OBVIOUS
  <2>1. \A b : ~Owns(c, b)
    BY <1>2 DEF Owns
  <2>2. ASSUME NEW b \in Accounts, account'[b] # Null
        PROVE  (\E y \in Faulty!Rows : staffRow[y].keycloakId = b) \/ Owns(d, b)
    <3>1. CASE b = a
      BY <1>8, <1>12, <1>13, <3>1 DEF Owns
    <3>2. CASE b # a
      BY <1>1, <1>14, <2>1, <2>2, <3>2 DEF SmoothInv
    <3> QED
      BY <3>1, <3>2
  <2>3. \A y \in Faulty!Rows : Admits(c, y) => Admits(d, y)
    BY <1>3, <1>5, <1>8, <1>12, <1>13, StaffFacts DEF Admits, Faulty!Rows
  <2>4. \A y \in Faulty!Rows : staffRow[y].status = "INVITED" => HasCode(y)' \/ Admits(d, y)
    BY <1>1, <1>2, <2>3 DEF SmoothInv, HasCode
  <2>5. c.id # Null => staffRow[c.id].keycloakId = Null
    <3> SUFFICES ASSUME c.id # Null PROVE staffRow[c.id].keycloakId = Null
      OBVIOUS
    <3>1. MailAgrees(c.id) /\ staffRow[c.id].keycloakId \in Accounts \union {Null}
      BY <1>4, <1>5, <1>6, <1>20
    <3> QED
      BY <1>2, <1>6, <3>1 DEF MailAgrees, Faulty!AccountsOf
  <2>6. SmoothHolds(d)'
    BY <1>2, <1>6, <1>8, <1>12, <1>13, <1>14, <1>20, <2>5 DEF SmoothHolds
  <2> QED
    BY <1>2, <1>14, <1>18, <2>2, <2>4, <2>6 DEF SmoothInv
<1> QED
  BY <1>18, <1>21, <1>22

\* The e-mail of an account is changed, before its row is saved.
LEMMA StaffRenames ==
  ASSUME StaffInv, Faulty!RenameAccount(one)
  PROVE  /\ StaffInv'
         /\ MailInv => MailInv'
         /\ MailInv /\ SmoothInv => SmoothInv'
<1>1. PICK c : c = staffCall[one]
  OBVIOUS
<1>2. PICK a, email : a = c.entity.keycloakId /\ email = c.entity.email
  OBVIOUS
<1>3. c.at = "rename" /\ Faulty!AccountsOf(email) \subseteq {a} /\ account' = [account EXCEPT ![a] = email]
      /\ staffRow' = staffRow /\ code' = code /\ admitted' = admitted
      /\ staffCall' = [staffCall EXCEPT ![one].at = "compare"]
  BY <1>1, <1>2 DEF Faulty!RenameAccount, Faulty!Renames
<1>4. c \in StaffCalls /\ StaffHolds(c) /\ StaffRows
  BY <1>1, <1>3, StaffHeld, StaffIdle
<1>5. c.id \in Faulty!Rows /\ c.holds \in Emails /\ c.then = "idle" /\ c.entity \in Records
  BY <1>3, <1>4 DEF StaffHolds, StaffCalls, Faulty!Rows
<1>6. email \in Emails /\ a \in Accounts \union {Null}
  BY <1>2, <1>5 DEF Records, Faulty!EmployeeRecords
<1>7. PICK d : d = [c EXCEPT !.at = "compare"]
  OBVIOUS
<1>8. staffCall' = [staffCall EXCEPT ![one] = d]
  BY <1>1, <1>3, <1>7 DEF StaffInv
<1>9. d \in StaffCalls /\ d.at = "compare" /\ d.id = c.id /\ d.entity = c.entity /\ d.then = "idle" /\ d.holds = c.holds
  BY <1>4, <1>5, <1>7 DEF StaffCalls
<1>10. UNCHANGED Faulty!Rows
  BY <1>3 DEF Faulty!Rows
<1>11. StaffRows'
  BY <1>3, <1>4, <1>6, <1>10 DEF StaffRows
<1>12. StaffFits(d)'
  BY <1>3, <1>4, <1>5, <1>9, <1>10, StaffFacts DEF StaffFits, StaffHolds
<1>13. StaffInv' /\ staffCall'[one] = d
  BY <1>8, <1>11, <1>12, StaffGoes
<1>14. MailInv => /\ a \in Accounts /\ staffRow[c.id].keycloakId = a /\ c.holds = staffRow[c.id].email /\ email # c.holds
                  /\ account'[a] = email /\ \A b \in Accounts \ {a} : account'[b] = account[b] /\ account[b] # email
  <2> SUFFICES ASSUME MailInv
               PROVE  /\ a \in Accounts /\ staffRow[c.id].keycloakId = a /\ c.holds = staffRow[c.id].email /\ email # c.holds
                      /\ account'[a] = email /\ \A b \in Accounts \ {a} : account'[b] = account[b] /\ account[b] # email
    OBVIOUS
  <2>1. a \in Accounts /\ staffRow[c.id].keycloakId = a /\ c.holds = staffRow[c.id].email /\ email # c.holds
    BY <1>1, <1>2, <1>3, <1>6 DEF MailInv, MailHolds
  <2> QED
    BY <1>3, <1>4, <2>1 DEF StaffRows, Faulty!AccountsOf
<1>15. MailInv => MailInv'
  <2> SUFFICES ASSUME MailInv PROVE MailInv'
    OBVIOUS
  <2>1. ~Renamed(c) /\ Renamed(d)
    BY <1>3, <1>5, <1>9, StaffFacts DEF Renamed
  <2>2. \A y \in Faulty!Rows : MailAgrees(y)
    BY <1>1, <2>1 DEF MailInv
  <2>3. account[a] = c.holds
    BY <1>5, <1>6, <1>14, <2>2, StaffFacts DEF MailAgrees
  <2>4. \A y \in Faulty!Rows \ {c.id} : MailAgrees(y)'
    <3> SUFFICES ASSUME NEW y \in Faulty!Rows \ {c.id} PROVE MailAgrees(y)'
      OBVIOUS
    <3>1. staffRow[y].keycloakId \in Accounts \union {Null}
      BY <1>4 DEF StaffRows, Faulty!Rows, Records, Faulty!EmployeeRecords
    <3>2. staffRow[y].keycloakId # Null => staffRow[y].keycloakId # a
      BY <1>5, <1>14 DEF MailInv, Faulty!OneAccountEach
    <3> QED
      BY <1>3, <1>14, <2>2, <3>1, <3>2 DEF MailAgrees
  <2>5. Faulty!AccountsOf(c.holds)' = {}
    <3>1. \A b \in Accounts \ {a} : account[b] # c.holds
      BY <1>5, <1>14, <2>3, StaffFacts DEF MailInv
    <3> QED
      BY <1>14, <3>1 DEF Faulty!AccountsOf
  <2>6. MailHolds(d)'
    BY <1>2, <1>3, <1>9, <1>14, <2>5, StaffFacts DEF MailHolds, Renamed
  <2>7. \A b, k \in Accounts : account'[b] # Null /\ account'[b] = account'[k] => b = k
    BY <1>14 DEF MailInv
  <2>8. Faulty!OneAccountEach'
    BY <1>3, <1>10 DEF MailInv, Faulty!OneAccountEach
  <2> QED
    BY <1>9, <1>10, <1>13, <2>1, <2>4, <2>6, <2>7, <2>8 DEF MailInv, Renamed
<1>16. MailInv /\ SmoothInv => SmoothInv'
  <2> SUFFICES ASSUME MailInv, SmoothInv PROVE SmoothInv'
    OBVIOUS
  <2>1. \A b : ~Owns(c, b) /\ ~Admits(c, b)
    BY <1>3 DEF Owns, Admits
  <2>2. \A b \in Accounts : account'[b] # Null => \E y \in Faulty!Rows : staffRow[y].keycloakId = b
    BY <1>1, <1>5, <1>14, <2>1 DEF SmoothInv
  <2>3. \A y \in Faulty!Rows : staffRow[y].status = "INVITED" => HasCode(y)'
    BY <1>1, <1>3, <2>1 DEF SmoothInv, HasCode
  <2>4. staffRow[c.id].status = "ACTIVE"
    BY <1>5, <1>14, StaffFacts DEF SmoothInv
  <2>5. SmoothHolds(d)'
    BY <1>1, <1>2, <1>3, <1>9, <1>10, <1>14, <2>4 DEF SmoothInv, SmoothHolds
  <2> QED
    BY <1>3, <1>10, <1>13, <2>2, <2>3, <2>5 DEF SmoothInv
<1> QED
  BY <1>13, <1>15, <1>16

\* What a save writes is the entity, as no one else changes the row meanwhile.
LEMMA StaffWritten ==
  ASSUME StaffInv, staffCall[one].at = "update"
  PROVE  /\ Faulty!Written(one) = staffCall[one].entity
         /\ Faulty!Collides(one) <=> Faulty!Refused(staffCall[one].id, staffCall[one].entity)
<1>1. PICK c : c = staffCall[one]
  OBVIOUS
<1>2. c \in StaffCalls /\ StaffHolds(c) /\ StaffRows
  BY <1>1, StaffHeld, StaffIdle
<1>3. PICK r, x : r = staffRow[c.id] /\ x = c.entity
  OBVIOUS
<1>4. r \in Records /\ x \in Records /\ c.columns = Faulty!Differing(x, r)
  BY <1>1, <1>2, <1>3 DEF StaffHolds, StaffRows, Faulty!Rows, StaffCalls
<1>5. DOMAIN r = Fields /\ DOMAIN x = Fields
  BY <1>4 DEF Records, Faulty!EmployeeRecords, Fields
<1>6. PICK w : w = [k \in DOMAIN r |-> IF k \in c.columns THEN x[k] ELSE r[k]]
  OBVIOUS
<1>7. Faulty!Written(one) = w
  BY <1>1, <1>3, <1>4, <1>6, StaffFacts DEF Faulty!Written, Faulty!Updated
<1>8. w = x
  <2>1. w["email"] = x["email"] /\ w["status"] = x["status"] /\ w["active"] = x["active"]
        /\ w["keycloakId"] = x["keycloakId"]
    BY <1>4, <1>5, <1>6 DEF Faulty!Differing, Fields
  <2>2. w = [email |-> w["email"], status |-> w["status"], active |-> w["active"], keycloakId |-> w["keycloakId"]]
    BY <1>5, <1>6 DEF Fields
  <2>3. x = [email |-> x["email"], status |-> x["status"], active |-> x["active"], keycloakId |-> x["keycloakId"]]
    BY <1>4 DEF Records, Faulty!EmployeeRecords
  <2> QED
    BY <2>1, <2>2, <2>3
<1>9. Faulty!Written(one) = staffCall[one].entity /\ staffCall[one].entity # Null
  BY <1>1, <1>3, <1>4, <1>7, <1>8, StaffFacts
<1> QED
  BY <1>9 DEF Faulty!Collides

\* A row is saved, which no unique column refuses.
LEMMA StaffUpdates ==
  ASSUME StaffInv, staffCall[one].at = "update", ~Faulty!Collides(one), Faulty!UpdateSave(one, TRUE), Faulty!Others
  PROVE  /\ StaffInv' /\ Faulty!ApprovedBeforeActive
         /\ MailInv => MailInv'
         /\ MailInv /\ SmoothInv => SmoothInv'
<1>1. PICK c : c = staffCall[one]
  OBVIOUS
<1>2. PICK r, x : r = staffRow[c.id] /\ x = c.entity
  OBVIOUS
<1>3. c.at = "update" /\ staffRow' = [staffRow EXCEPT ![c.id] = x] /\ account' = account /\ code' = code
      /\ admitted' = admitted
  BY <1>1, <1>2, StaffWritten DEF Faulty!UpdateSave, Faulty!Others
<1>4. c \in StaffCalls /\ StaffHolds(c) /\ StaffRows
  BY <1>1, <1>3, StaffHeld, StaffIdle
<1>5. c.id \in Faulty!Rows /\ r \in Records /\ x \in Records /\ (c.then = "issue" => x.status = "INVITED")
      /\ (x.status # r.status =>
            \/ r.status = "PENDING" /\ x.status = "INVITED" /\ c.then = "issue"
            \/ r.status # "PENDING" /\ x.status = "ACTIVE" /\ c.then = "idle")
  BY <1>2, <1>3, <1>4 DEF StaffHolds, StaffRows, Faulty!Rows, StaffCalls
<1>6. Faulty!Rows' = Faulty!Rows /\ staffRow'[c.id] = x /\ \A y \in Faulty!Rows \ {c.id} : staffRow'[y] = staffRow[y]
  BY <1>3, <1>4, <1>5, StaffFacts DEF Faulty!Rows, StaffRows
<1>7. \A y \in Faulty!Rows \ {c.id} : staffRow[y].email # x.email
                             /\ (x.keycloakId # Null => staffRow[y].keycloakId # x.keycloakId)
  BY <1>1, <1>2, StaffWritten DEF Faulty!Refused
<1>8. PICK d : d = IF c.then = "idle" THEN Faulty!Idle ELSE [[c EXCEPT !.columns = {}] EXCEPT !.at = c.then]
  OBVIOUS
<1>9. staffCall' = [staffCall EXCEPT ![one] = d]
  BY <1>1, <1>8 DEF Faulty!UpdateSave, Faulty!GoesTo
<1>10. \/ d = Faulty!Idle /\ c.then = "idle"
       \/ d \in StaffCalls /\ d.at = "issue" /\ d.id = c.id /\ c.then = "issue"
  <2>1. CASE c.then = "idle"
    BY <1>8, <2>1
  <2>2. CASE c.then # "idle"
    <3>1. c.then = "issue" /\ d = [at |-> c.then, id |-> c.id, entity |-> x, columns |-> {}, then |-> c.then, holds |-> c.holds]
      BY <1>2, <1>4, <1>8, <2>2 DEF StaffCalls
    <3>2. d \in StaffCalls /\ d.at = "issue" /\ d.id = c.id
      BY <1>4, <1>5, <3>1 DEF StaffCalls
    <3> QED
      BY <3>1, <3>2
  <2> QED
    BY <2>1, <2>2
<1>11. StaffRows'
  BY <1>2, <1>3, <1>4, <1>5, <1>6 DEF StaffRows
<1>12. StaffFits(d)'
  BY <1>5, <1>6, <1>10 DEF StaffFits, StaffHolds
<1>13. StaffInv' /\ staffCall'[one] = d
  BY <1>9, <1>11, <1>12, StaffGoes
<1>14. Faulty!ApprovedBeforeActive
  BY <1>2, <1>5, <1>6 DEF Faulty!ApprovedBeforeActive
<1>15. ~Renamed(d) /\ MailHolds(d)' /\ SmoothHolds(d)' /\ \A a : ~Owns(d, a)
  BY <1>10, StaffIdle DEF Renamed, MailHolds, SmoothHolds, Owns
<1>16. MailInv => MailInv'
  <2> SUFFICES ASSUME MailInv PROVE MailInv'
    OBVIOUS
  <2>1. x.keycloakId # Null => account[x.keycloakId] = x.email
    BY <1>1, <1>2, <1>3 DEF MailInv, MailHolds
  <2>2. \A y \in Faulty!Rows \ {c.id} : MailAgrees(y)
    BY <1>1 DEF MailInv
  <2>3. \A y \in Faulty!Rows : MailAgrees(y)'
    BY <1>3, <1>6, <2>1, <2>2 DEF MailAgrees
  <2>4. Faulty!OneAccountEach'
    BY <1>6, <1>7 DEF MailInv, Faulty!OneAccountEach
  <2> QED
    BY <1>3, <1>6, <1>13, <1>15, <2>3, <2>4 DEF MailInv
<1>17. SmoothInv => SmoothInv'
  <2> SUFFICES ASSUME SmoothInv PROVE SmoothInv'
    OBVIOUS
  <2>1. /\ x.keycloakId # Null => x.status = "ACTIVE"
        /\ x.keycloakId # r.keycloakId => r.keycloakId = Null
    BY <1>1, <1>2, <1>3 DEF SmoothInv, SmoothHolds
  <2>2. \A y, z \in Faulty!Rows : staffRow'[y].email = staffRow'[z].email => y = z
    BY <1>6, <1>7 DEF SmoothInv
  <2>3. \A y \in Faulty!Rows : staffRow'[y].keycloakId # Null => staffRow'[y].status = "ACTIVE"
    BY <1>6, <2>1 DEF SmoothInv
  <2>4. ASSUME NEW a \in Accounts, account'[a] # Null PROVE \E y \in Faulty!Rows : staffRow'[y].keycloakId = a
    <3>1. (\E y \in Faulty!Rows : staffRow[y].keycloakId = a) \/ x.keycloakId = a
      BY <1>1, <1>2, <1>3, <2>4 DEF SmoothInv, Owns
    <3>2. CASE x.keycloakId = a
      BY <1>5, <1>6, <3>2
    <3>3. ASSUME NEW y \in Faulty!Rows, staffRow[y].keycloakId = a PROVE \E z \in Faulty!Rows : staffRow'[z].keycloakId = a
      BY <1>2, <1>5, <1>6, <2>1, <3>3, StaffFacts
    <3> QED
      BY <3>1, <3>2, <3>3
  <2>5. ASSUME NEW y \in Faulty!Rows, staffRow'[y].status = "INVITED" PROVE HasCode(y)' \/ Admits(d, y)
    <3>1. CASE y = c.id /\ r.status = "INVITED"
      BY <1>1, <1>2, <1>3, <1>5, <1>6, <2>5, <3>1 DEF SmoothInv, HasCode, Admits
    <3>2. CASE y = c.id /\ r.status # "INVITED"
      BY <1>5, <1>6, <1>10, <2>5, <3>2 DEF Admits
    <3>3. CASE y # c.id
      BY <1>1, <1>3, <1>6, <2>5, <3>3 DEF SmoothInv, HasCode, Admits
    <3> QED
      BY <3>1, <3>2, <3>3
  <2> QED
    BY <1>6, <1>13, <1>15, <2>2, <2>3, <2>4, <2>5 DEF SmoothInv
<1> QED
  BY <1>13, <1>14, <1>16, <1>17

\* The e-mail of an account is changed back.
LEMMA StaffRestores ==
  ASSUME StaffInv, Faulty!RestoreAccount(one)
  PROVE  /\ StaffInv'
         /\ MailInv => MailInv'
         /\ MailInv /\ SmoothInv => SmoothInv'
<1>1. PICK c : c = staffCall[one]
  OBVIOUS
<1>2. PICK a, email : a = c.entity.keycloakId /\ email = c.holds
  OBVIOUS
<1>3. c.at = "restore" /\ account' = [account EXCEPT ![a] = email]
      /\ staffRow' = staffRow /\ code' = code /\ admitted' = admitted
      /\ staffCall' = [staffCall EXCEPT ![one] = Faulty!Idle]
  BY <1>1, <1>2 DEF Faulty!RestoreAccount, Faulty!Renames, Faulty!GoesTo
<1>4. c \in StaffCalls /\ StaffHolds(c) /\ StaffRows
  BY <1>1, <1>3, StaffHeld, StaffIdle
<1>5. c.id \in Faulty!Rows /\ email \in Emails /\ c.entity \in Records
  BY <1>2, <1>3, <1>4 DEF StaffHolds, StaffCalls, Faulty!Rows
<1>6. a \in Accounts \union {Null}
  BY <1>2, <1>5 DEF Records, Faulty!EmployeeRecords
<1>7. UNCHANGED Faulty!Rows
  BY <1>3 DEF Faulty!Rows
<1>8. StaffRows'
  BY <1>3, <1>4, <1>5, <1>6, <1>7 DEF StaffRows
<1>9. StaffInv' /\ staffCall'[one] = Faulty!Idle
  BY <1>3, <1>8, StaffGoes DEF StaffFits
<1>10. MailInv => /\ a \in Accounts /\ staffRow[c.id].keycloakId = a /\ email = staffRow[c.id].email
                  /\ account'[a] = email /\ \A b \in Accounts \ {a} : account'[b] = account[b] /\ account[b] # email
  <2> SUFFICES ASSUME MailInv
               PROVE  /\ a \in Accounts /\ staffRow[c.id].keycloakId = a /\ email = staffRow[c.id].email
                      /\ account'[a] = email /\ \A b \in Accounts \ {a} : account'[b] = account[b] /\ account[b] # email
    OBVIOUS
  <2>1. Renamed(c)
    BY <1>2, <1>3, <1>5, StaffFacts DEF Renamed
  <2>2. a \in Accounts /\ staffRow[c.id].keycloakId = a /\ email = staffRow[c.id].email
        /\ Faulty!AccountsOf(email) = {}
    BY <1>1, <1>2, <1>6, <2>1 DEF MailInv, MailHolds
  <2> QED
    BY <1>3, <1>4, <2>2 DEF StaffRows, Faulty!AccountsOf
<1>11. MailHolds(Faulty!Idle)' /\ SmoothHolds(Faulty!Idle)'
  BY StaffIdle DEF MailHolds, SmoothHolds, Renamed
<1>12. MailInv => MailInv'
  <2> SUFFICES ASSUME MailInv PROVE MailInv'
    OBVIOUS
  <2>1. \A y \in Faulty!Rows : MailAgrees(y)'
    <3> SUFFICES ASSUME NEW y \in Faulty!Rows PROVE MailAgrees(y)'
      OBVIOUS
    <3>1. CASE y = c.id
      BY <1>3, <1>10, <3>1 DEF MailAgrees
    <3>2. CASE y # c.id
      <4>1. staffRow[y].keycloakId \in Accounts \union {Null}
        BY <1>4 DEF StaffRows, Faulty!Rows, Records, Faulty!EmployeeRecords
      <4>2. staffRow[y].keycloakId # Null => staffRow[y].keycloakId # a
        BY <1>5, <1>10, <3>2 DEF MailInv, Faulty!OneAccountEach
      <4>3. MailAgrees(y)
        BY <1>1, <3>2 DEF MailInv
      <4> QED
        BY <1>3, <1>10, <4>1, <4>2, <4>3 DEF MailAgrees
    <3> QED
      BY <3>1, <3>2
  <2>2. \A b, k \in Accounts : account'[b] # Null /\ account'[b] = account'[k] => b = k
    BY <1>10 DEF MailInv
  <2>3. Faulty!OneAccountEach'
    BY <1>3, <1>7 DEF MailInv, Faulty!OneAccountEach
  <2> QED
    BY <1>7, <1>9, <1>11, <2>1, <2>2, <2>3 DEF MailInv
<1>13. MailInv /\ SmoothInv => SmoothInv'
  <2> SUFFICES ASSUME MailInv, SmoothInv PROVE SmoothInv'
    OBVIOUS
  <2>1. \A b : ~Owns(c, b) /\ ~Admits(c, b)
    BY <1>3 DEF Owns, Admits
  <2>2. \A b \in Accounts : account'[b] # Null => \E y \in Faulty!Rows : staffRow[y].keycloakId = b
    BY <1>1, <1>5, <1>10, <2>1 DEF SmoothInv
  <2>3. \A y \in Faulty!Rows : staffRow[y].status = "INVITED" => HasCode(y)'
    BY <1>1, <1>3, <2>1 DEF SmoothInv, HasCode
  <2> QED
    BY <1>3, <1>7, <1>9, <1>11, <2>2, <2>3 DEF SmoothInv
<1> QED
  BY <1>9, <1>12, <1>13

\* A save is refused: the e-mail of an account that was changed is restored.
LEMMA StaffRefused ==
  ASSUME StaffInv, Faulty!SaveRefused(one)
  PROVE  /\ StaffInv'
         /\ MailInv => MailInv'
         /\ MailInv /\ SmoothInv /\ Faulty!Collides(one) => SmoothInv'
<1>1. PICK c : c = staffCall[one]
  OBVIOUS
<1>2. c.at \in {"file", "update", "insert"} /\ UNCHANGED <<staffRow, account, code, admitted>>
  BY <1>1 DEF Faulty!SaveRefused, Faulty!Others
<1>3. c \in StaffCalls /\ StaffHolds(c) /\ StaffRows
  BY <1>1, <1>2, StaffHeld, StaffIdle
<1>4. c.at \in {"file", "update"} /\ c.entity \in Records
  BY <1>2, <1>3 DEF StaffCalls, StaffHolds
<1>5. c.at = "update" =>
        /\ c.id \in Faulty!Rows /\ staffRow[c.id] \in Records /\ c.holds \in Emails \union {Null}
        /\ (c.holds # Null => c.then = "idle")
        /\ c.entity.status # staffRow[c.id].status =>
            \/ staffRow[c.id].status = "PENDING" /\ c.entity.status = "INVITED" /\ c.then = "issue"
            \/ staffRow[c.id].status # "PENDING" /\ c.entity.status = "ACTIVE" /\ c.then = "idle"
  BY <1>3 DEF StaffHolds, StaffRows, Faulty!Rows
<1>6. PICK at : at = IF c.holds = Null THEN "idle" ELSE "restore"
  OBVIOUS
<1>7. PICK d : d = IF at = "idle" THEN Faulty!Idle ELSE [c EXCEPT !.at = at]
  OBVIOUS
<1>8. staffCall' = [staffCall EXCEPT ![one] = d]
  BY <1>1, <1>6, <1>7, Zenon DEF Faulty!SaveRefused, Faulty!GoesTo
<1>9. \/ d = Faulty!Idle /\ c.holds = Null
      \/ /\ d \in StaffCalls /\ d.at = "restore" /\ d.id = c.id /\ d.entity = c.entity /\ d.then = c.then
         /\ d.holds = c.holds /\ c.holds # Null /\ c.at = "update"
  <2>1. CASE c.holds = Null
    BY <1>6, <1>7, <2>1
  <2>2. CASE c.holds # Null
    <3>1. d = [c EXCEPT !.at = "restore"]
      BY <1>6, <1>7, <2>2
    <3>2. c.at = "update"
      BY <1>3, <1>4, <2>2 DEF StaffHolds
    <3> QED
      BY <1>3, <2>2, <3>1, <3>2 DEF StaffCalls
  <2> QED
    BY <2>1, <2>2
<1>10. StaffFits(d)
  BY <1>3, <1>4, <1>5, <1>9, StaffFacts DEF StaffFits, StaffHolds
<1>11. MailInv => MailHolds(d)
  BY <1>1, <1>9, StaffIdle DEF MailInv, MailHolds, Renamed
<1>12. Renamed(c) => Renamed(d) /\ d.id = c.id
  BY <1>9 DEF Renamed
<1>13. SmoothHolds(d)
  BY <1>9, StaffIdle DEF SmoothHolds
<1>14. ASSUME MailInv, SmoothInv, Faulty!Collides(one)
       PROVE  /\ c.at = "file" => c.entity.keycloakId = Null
              /\ c.at = "update" =>
                   /\ c.entity.status = "ACTIVE" => staffRow[c.id].status = "ACTIVE"
                   /\ c.entity.keycloakId = staffRow[c.id].keycloakId
  <2>1. SmoothHolds(c)
    BY <1>1, <1>14 DEF SmoothInv
  <2>2. Faulty!Refused(c.id, c.entity)
    BY <1>1, <1>4, <1>14, StaffWritten, StaffFacts DEF Faulty!Collides
  <2>3. PICK x \in Faulty!Rows \ {c.id} :
          \/ staffRow[x].email = c.entity.email
          \/ c.entity.keycloakId # Null /\ staffRow[x].keycloakId = c.entity.keycloakId
    BY <2>2 DEF Faulty!Refused
  <2>4. CASE c.at = "file"
    <3>1. ~Faulty!HasRow(c.entity.email)
      BY <1>3, <2>4 DEF StaffHolds
    <3> QED
      BY <2>1, <2>3, <2>4, <3>1 DEF Faulty!HasRow, SmoothHolds
  <2>5. CASE c.at = "update"
    <3>1. c.entity.keycloakId # Null => staffRow[x].keycloakId # c.entity.keycloakId
      BY <2>1, <2>3, <2>5 DEF SmoothHolds
    <3>2. staffRow[x].email # staffRow[c.id].email
      BY <1>5, <1>14, <2>3, <2>5 DEF SmoothInv
    <3> QED
      BY <1>5, <2>1, <2>3, <2>5, <3>1, <3>2 DEF SmoothHolds
  <2> QED
    BY <1>4, <2>4, <2>5
<1>15. ASSUME MailInv, SmoothInv, Faulty!Collides(one)
       PROVE  /\ \A e \in Faulty!Rows : staffRow[e].status = "INVITED" => ~Admits(c, e)
              /\ \A a \in Accounts : Owns(c, a) => \E e \in Faulty!Rows : staffRow[e].keycloakId = a
  BY <1>4, <1>5, <1>14, <1>15, StaffFacts DEF Admits, Owns
<1> QED
  BY <1>1, <1>2, <1>8, <1>10, <1>11, <1>12, <1>13, <1>15, StaffPasses

\* The steps that do not depend on what may fail.
StaffSteps ==
  \/ \E email \in Emails :
       \/ \E mode \in {"APPROVAL", "AUTO_APPROVED"} : Faulty!Register(one, email, mode)
       \/ Faulty!InviteEmployee(one, email)
       \/ \E password \in BOOLEAN : Faulty!CreateEmployee(one, email, password)
  \/ \E e \in Employees : Faulty!InsertEmployee(one, e) \/ Faulty!ApproveRegistration(one, e)
  \/ Faulty!DeleteRegistration(one)
  \/ \E k \in Codes : Faulty!IssueActivationCode(one, k) \/ Faulty!AcceptInvite(one, k)
  \/ Faulty!SpendCode(one)
  \/ \E a \in Accounts : Faulty!CreateAccount(one, a)
  \/ Faulty!ReattachAccount(one)
  \/ \E e \in Employees :
       \/ Faulty!Deactivate(one, e)
       \/ \E email \in Emails, active \in BOOLEAN \union {Null} : Faulty!UpdateEmployee(one, e, email, active)
  \/ \E k \in Codes : Faulty!ExpireCode(k)
  \/ Faulty!RenameAccount(one) \/ Faulty!SaveEmployee(one) \/ Faulty!RestoreAccount(one)

\* A row that no step changes becomes active by none.
LEMMA StaffStays == UNCHANGED staffRow => Faulty!ApprovedBeforeActive
BY DEF Faulty!ApprovedBeforeActive

LEMMA StaffSaves ==
  ASSUME StaffInv, Faulty!SaveEmployee(one)
  PROVE  /\ StaffInv' /\ Faulty!ApprovedBeforeActive
         /\ MailInv => MailInv'
         /\ MailInv /\ SmoothInv => SmoothInv'
<1>1. CASE Faulty!CompareSave(one) /\ Faulty!Others
  <2>1. UNCHANGED staffRow
    BY <1>1 DEF Faulty!CompareSave
  <2> QED
    BY <1>1, <2>1, StaffCompares, StaffStays
<1>2. CASE staffCall[one].at = "update" /\ ~Faulty!Collides(one) /\ Faulty!UpdateSave(one, TRUE) /\ Faulty!Others
  BY <1>2, StaffUpdates, Zenon
<1>3. staffCall[one].at # "insert"
  BY StaffHeld, StaffIdle DEF StaffCalls
<1> QED
  BY <1>1, <1>2, <1>3, Zenon DEF Faulty!SaveEmployee

LEMMA StaffStepsKeep ==
  ASSUME StaffInv, StaffSteps
  PROVE  /\ StaffInv' /\ Faulty!ApprovedBeforeActive
         /\ MailInv => MailInv'
         /\ MailInv /\ SmoothInv => SmoothInv'
<1>1. CASE \E email \in Emails :
             \/ \E mode \in {"APPROVAL", "AUTO_APPROVED"} : Faulty!Register(one, email, mode)
             \/ Faulty!InviteEmployee(one, email)
             \/ \E password \in BOOLEAN : Faulty!CreateEmployee(one, email, password)
  <2>1. UNCHANGED staffRow
    BY <1>1, Zenon DEF Faulty!Register, Faulty!InviteEmployee, Faulty!CreateEmployee
  <2> QED
    BY <1>1, <2>1, StaffCreates, StaffStays
<1>2. CASE \E e \in Employees : Faulty!InsertEmployee(one, e)
  BY <1>2, StaffInserts
<1>3. CASE \E e \in Employees : \/ Faulty!ApproveRegistration(one, e) \/ Faulty!Deactivate(one, e)
                                \/ \E email \in Emails, active \in BOOLEAN \union {Null} :
                                     Faulty!UpdateEmployee(one, e, email, active)
  <2>1. UNCHANGED staffRow
    BY <1>3, Zenon DEF Faulty!ApproveRegistration, Faulty!Deactivate, Faulty!UpdateEmployee
  <2> QED
    BY <1>3, <2>1, StaffFinds, StaffStays
<1>4. CASE Faulty!DeleteRegistration(one)
  BY <1>4, StaffDeletes
<1>5. CASE \E k \in Codes : Faulty!IssueActivationCode(one, k)
  <2>1. UNCHANGED <<staffRow, account, admitted>>
    BY <1>5, Zenon DEF Faulty!IssueActivationCode
  <2> QED
    BY <1>5, <2>1, StaffIssuesCode, StaffStays
<1>6. CASE \E k \in Codes : Faulty!AcceptInvite(one, k)
  <2>1. UNCHANGED staffRow /\ \A e \in Employees : ~Faulty!RejectRegistration(one, e)
    <3>1. PICK k \in Codes : Faulty!AcceptInvite(one, k)
      BY <1>6
    <3>2. UNCHANGED staffRow /\ staffCall[one] = Faulty!Idle
          /\ staffCall' = [staffCall EXCEPT ![one] = [Faulty!NewCall EXCEPT !.at = "spend", !.id = code[k],
               !.holds = k, !.entity = [staffRow[code[k]] EXCEPT !.status = "ACTIVE", !.active = TRUE]]]
      BY <3>1, Zenon DEF Faulty!AcceptInvite
    <3>3. staffCall'[one].at = "spend"
      BY <3>2 DEF StaffInv, Faulty!NewCall
    <3>4. ASSUME NEW e \in Employees, Faulty!RejectRegistration(one, e) PROVE FALSE
      <4>1. staffCall' = [staffCall EXCEPT ![one] = [Faulty!NewCall EXCEPT !.at = "delete", !.id = e]]
        BY <3>4, Zenon DEF Faulty!RejectRegistration
      <4>2. staffCall'[one].at = "delete"
        BY <4>1 DEF StaffInv, Faulty!NewCall
      <4> QED
        BY <3>3, <4>2
    <3> QED
      BY <3>2, <3>4
  <2> QED
    BY <1>6, <2>1, StaffTakes, StaffStays
<1>7. CASE Faulty!SpendCode(one)
  <2>1. UNCHANGED staffRow
    BY <1>7 DEF Faulty!SpendCode
  <2> QED
    BY <1>7, <2>1, StaffSpends, StaffStays
<1>8. CASE \E a \in Accounts : Faulty!CreateAccount(one, a)
  <2>1. UNCHANGED <<staffRow, code, admitted>>
    BY <1>8, Zenon DEF Faulty!CreateAccount
  <2> QED
    BY <1>8, <2>1, StaffAccounts, StaffStays
<1>9. CASE Faulty!ReattachAccount(one)
  <2>1. UNCHANGED staffRow
    BY <1>9, Zenon DEF Faulty!ReattachAccount
  <2> QED
    BY <1>9, <2>1, StaffReattaches, StaffStays
<1>10. CASE Faulty!RenameAccount(one)
  <2>1. UNCHANGED <<staffRow, code, admitted>>
    BY <1>10, Zenon DEF Faulty!RenameAccount
  <2> QED
    BY <1>10, <2>1, StaffRenames, StaffStays
<1>11. CASE Faulty!RestoreAccount(one)
  <2>1. UNCHANGED <<staffRow, code, admitted>>
    BY <1>11, Zenon DEF Faulty!RestoreAccount
  <2> QED
    BY <1>11, <2>1, StaffRestores, StaffStays
<1>12. CASE \E k \in Codes : Faulty!ExpireCode(k)
  BY <1>12, StaffExpires, StaffStays
<1> QED
  BY <1>1, <1>2, <1>3, <1>4, <1>5, <1>6, <1>7, <1>8, <1>9, <1>10, <1>11, <1>12, StaffSaves, Zenon DEF StaffSteps

\* What a call is refused by a rule, without a fault of Keycloak or a crash.
StaffRefusals ==
  \/ \E e \in Employees : Faulty!RejectRegistration(one, e) /\ staffRow[e].status = "PENDING"
  \/ /\ Faulty!AccountFails(one)
     /\ staffCall[one].id # Null /\ Faulty!AccountsOf(staffCall[one].entity.email) # {}
  \/ Faulty!RenameFails(one)
  \/ /\ Faulty!RestoreFails(one)
     /\ ~(Faulty!AccountsOf(staffCall[one].holds) \subseteq {staffCall[one].entity.keycloakId})

LEMMA FaultyIsStep ==
  Faulty!OnboardingNext =>
    \/ StaffSteps \/ Faulty!SaveRefused(one)
    \/ \E e \in Employees : Faulty!RejectRegistration(one, e)
    \/ Faulty!AccountFails(one) \/ Faulty!RenameFails(one)
    \/ Faulty!RestoreFails(one) \/ Faulty!OnboardingCrash(one)
BY Zenon DEF Faulty!OnboardingNext, Faulty!Admission, Faulty!Administration, StaffSteps

LEMMA AdmissionIsStep ==
  Admission!OnboardingNext => StaffSteps \/ StaffRefusals \/ Faulty!SaveRefused(one)
<1>1. Admission!Idle = Faulty!Idle
  BY DEF Admission!Idle, Faulty!Idle
<1>2. \A entity, stored : Admission!Differing(entity, stored) = Faulty!Differing(entity, stored)
  BY DEF Admission!Differing, Faulty!Differing
<1>3. \A stored, entity, columns : Admission!Updated(stored, entity, columns) = Faulty!Updated(stored, entity, columns)
  BY DEF Admission!Updated, Faulty!Updated
<1>4. \A p, c, at : Admission!GoesTo(p, c, at) <=> Faulty!GoesTo(p, c, at)
  BY <1>1 DEF Admission!GoesTo, Faulty!GoesTo
<1>5. \A p : Admission!Fails(p) <=> Faulty!Fails(p)
  BY <1>1 DEF Admission!Fails, Faulty!Fails
<1>6. \A c, id, entity, then : Admission!Saving(c, id, entity, then) = Faulty!Saving(c, id, entity, then)
  BY DEF Admission!Saving, Faulty!Saving
<1>7. Admission!NewCall = Faulty!NewCall
  BY DEF Admission!NewCall, Faulty!NewCall
<1>8. \A p : Admission!CompareSave(p) <=> Faulty!CompareSave(p)
  BY <1>4, <1>2 DEF Admission!CompareSave, Faulty!CompareSave
<1>9. \A p : Admission!Written(p) = Faulty!Written(p)
  BY <1>3 DEF Admission!Written, Faulty!Written
<1>10. \A p, accepted : Admission!UpdateSave(p, accepted) <=> Faulty!UpdateSave(p, accepted)
  BY <1>9, <1>4, <1>5 DEF Admission!UpdateSave, Faulty!UpdateSave
<1>11. \A p : Admission!InsertSave(p) <=> Faulty!InsertSave(p)
  BY <1>4, <1>5 DEF Admission!InsertSave, Faulty!InsertSave
<1>12. Admission!Others <=> Faulty!Others
  BY DEF Admission!Others, Faulty!Others
<1>13. Admission!Rows = Faulty!Rows
  BY DEF Admission!Rows, Faulty!Rows
<1>14. \A email : Admission!HasRow(email) <=> Faulty!HasRow(email)
  BY <1>13 DEF Admission!HasRow, Faulty!HasRow
<1>15. \A email : Admission!AccountsOf(email) = Faulty!AccountsOf(email)
  BY DEF Admission!AccountsOf, Faulty!AccountsOf
<1>16. \A e, r : Admission!Refused(e, r) <=> Faulty!Refused(e, r)
  BY <1>13 DEF Admission!Refused, Faulty!Refused
<1>17. \A p : Admission!Collides(p) <=> Faulty!Collides(p)
  BY <1>9, <1>16 DEF Admission!Collides, Faulty!Collides
<1>18. \A email, status : Admission!NewEmployee(email, status) = Faulty!NewEmployee(email, status)
  BY DEF Admission!NewEmployee, Faulty!NewEmployee
<1>19. \A p, r, at, then : Admission!Files(p, r, at, then) <=> Faulty!Files(p, r, at, then)
  BY <1>7 DEF Admission!Files, Faulty!Files
<1>20. \A p, email, mode : Admission!Register(p, email, mode) <=> Faulty!Register(p, email, mode)
  BY <1>1, <1>14, <1>19, <1>18, <1>12 DEF Admission!Register, Faulty!Register
<1>21. \A p, email : Admission!InviteEmployee(p, email) <=> Faulty!InviteEmployee(p, email)
  BY <1>1, <1>14, <1>19, <1>18, <1>12 DEF Admission!InviteEmployee, Faulty!InviteEmployee
<1>22. \A p, email, password : Admission!CreateEmployee(p, email, password) <=> Faulty!CreateEmployee(p, email, password)
  BY <1>1, <1>14, <1>19, <1>18, <1>12 DEF Admission!CreateEmployee, Faulty!CreateEmployee
<1>23. \A p, e : Admission!InsertEmployee(p, e) <=> Faulty!InsertEmployee(p, e)
  BY <1>17, <1>4 DEF Admission!InsertEmployee, Faulty!InsertEmployee
<1>24. \A p, c : Admission!IssueActivationCode(p, c) <=> Faulty!IssueActivationCode(p, c)
  BY <1>4 DEF Admission!IssueActivationCode, Faulty!IssueActivationCode
<1>25. \A p, e : Admission!ApproveRegistration(p, e) <=> Faulty!ApproveRegistration(p, e)
  BY <1>1, <1>6, <1>7, <1>12 DEF Admission!ApproveRegistration, Faulty!ApproveRegistration
<1>26. \A p : Admission!DeleteRegistration(p) <=> Faulty!DeleteRegistration(p)
  BY <1>4, <1>12 DEF Admission!DeleteRegistration, Faulty!DeleteRegistration
<1>27. \A p, c : Admission!AcceptInvite(p, c) <=> Faulty!AcceptInvite(p, c)
  BY <1>1, <1>13, <1>7, <1>12 DEF Admission!AcceptInvite, Faulty!AcceptInvite
<1>28. \A p : Admission!SpendCode(p) <=> Faulty!SpendCode(p)
  BY DEF Admission!SpendCode, Faulty!SpendCode, Admission!Gone, Faulty!Gone
<1>29. \A p, a : Admission!Links(p, a) <=> Faulty!Links(p, a)
  BY DEF Admission!Links, Faulty!Links
<1>30. \A p, a : Admission!CreateAccount(p, a) <=> Faulty!CreateAccount(p, a)
  BY <1>15, <1>29 DEF Admission!CreateAccount, Faulty!CreateAccount
<1>31. \A p : Admission!ReattachAccount(p) <=> Faulty!ReattachAccount(p)
  BY <1>15, <1>29, <1>12 DEF Admission!ReattachAccount, Faulty!ReattachAccount
<1>32. \A p, e, email, active : Admission!UpdateEmployee(p, e, email, active) <=> Faulty!UpdateEmployee(p, e, email, active)
  <2> SUFFICES ASSUME NEW p, NEW e, NEW email, NEW active
               PROVE  Admission!UpdateEmployee(p, e, email, active) <=> Faulty!UpdateEmployee(p, e, email, active)
    OBVIOUS
  <2>1. PICK x : x = [staffRow[e] EXCEPT !.email = email, !.active = IF active = Null THEN @ ELSE active]
    OBVIOUS
  <2>2. Admission!Saving(Admission!NewCall, e, x, "idle") = Faulty!Saving(Faulty!NewCall, e, x, "idle")
    BY <1>6, <1>7
  <2>3. PICK c : c = Faulty!Saving(Faulty!NewCall, e, x, "idle")
    OBVIOUS
  <2>4. PICK d : d = IF email = staffRow[e].email \/ staffRow[e].keycloakId = Null THEN c
                     ELSE [c EXCEPT !.at = "rename", !.holds = staffRow[e].email]
    OBVIOUS
  <2>5. PICK found : found = /\ staffCall[p] = Faulty!Idle /\ staffRow[e] # Null
                             /\ email # staffRow[e].email => ~Faulty!HasRow(email)
    OBVIOUS
  <2>6. Admission!UpdateEmployee(p, e, email, active) <=>
          found /\ staffCall' = [staffCall EXCEPT ![p] = d] /\ UNCHANGED staffRow /\ Faulty!Others
    BY <1>1, <1>12, <1>14, <2>1, <2>2, <2>3, <2>4, <2>5, Zenon DEF Admission!UpdateEmployee
  <2>7. Faulty!UpdateEmployee(p, e, email, active) <=>
          found /\ staffCall' = [staffCall EXCEPT ![p] = d] /\ UNCHANGED staffRow /\ Faulty!Others
    BY <2>1, <2>3, <2>4, <2>5, Zenon DEF Faulty!UpdateEmployee
  <2> QED
    BY <2>6, <2>7
<1>33. \A p, email : Admission!Renames(p, email) <=> Faulty!Renames(p, email)
  BY <1>15 DEF Admission!Renames, Faulty!Renames
<1>34. \A p : Admission!RenameAccount(p) <=> Faulty!RenameAccount(p)
  BY <1>33 DEF Admission!RenameAccount, Faulty!RenameAccount
<1>35. \A p, e : Admission!Deactivate(p, e) <=> Faulty!Deactivate(p, e)
  BY <1>1, <1>6, <1>7, <1>12 DEF Admission!Deactivate, Faulty!Deactivate
<1>36. \A p : Admission!SaveEmployee(p) <=> Faulty!SaveEmployee(p)
  BY <1>8, <1>17, <1>10, <1>11, <1>12 DEF Admission!SaveEmployee, Faulty!SaveEmployee
<1>37. \A p : Admission!RestoreAccount(p) <=> Faulty!RestoreAccount(p)
  BY <1>33, <1>4 DEF Admission!RestoreAccount, Faulty!RestoreAccount
<1>38. ASSUME NEW e, Admission!RejectRegistration(one, e)
       PROVE  Faulty!RejectRegistration(one, e) /\ staffRow[e].status = "PENDING"
  BY <1>1, <1>7, <1>12, <1>38 DEF Admission!RejectRegistration, Faulty!RejectRegistration
<1>39. ASSUME Admission!AccountFails(one)
       PROVE  /\ Faulty!AccountFails(one)
              /\ staffCall[one].id # Null /\ Faulty!AccountsOf(staffCall[one].entity.email) # {}
  BY <1>5, <1>12, <1>15, <1>39 DEF Admission!AccountFails, Faulty!AccountFails
<1>40. Admission!RenameFails(one) => Faulty!RenameFails(one)
  BY <1>5, <1>12, <1>15 DEF Admission!RenameFails, Faulty!RenameFails
<1>41. ASSUME Admission!RestoreFails(one)
       PROVE  /\ Faulty!RestoreFails(one)
              /\ ~(Faulty!AccountsOf(staffCall[one].holds) \subseteq {staffCall[one].entity.keycloakId})
  BY <1>5, <1>12, <1>15, <1>41 DEF Admission!RestoreFails, Faulty!RestoreFails
<1>42. Admission!SaveRefused(one) => Faulty!SaveRefused(one)
  BY <1>4, <1>12, <1>17 DEF Admission!SaveRefused, Faulty!SaveRefused
<1>43. ~Admission!OnboardingCrash(one)
  BY DEF Admission!OnboardingCrash
<1>44. Admission!OnboardingNext =>
         Admission!Admission(one) \/ Admission!Administration(one) \/ \E k \in Codes : Admission!ExpireCode(k)
  BY DEF Admission!OnboardingNext
<1>47. (\E k \in Codes : Admission!ExpireCode(k)) => StaffSteps
  <2>1. \A k : Admission!ExpireCode(k) <=> Faulty!ExpireCode(k)
    BY DEF Admission!ExpireCode, Faulty!ExpireCode, Admission!Gone, Faulty!Gone, Admission!saveVars, Faulty!saveVars
  <2> QED
    BY <2>1, Zenon DEF StaffSteps
<1>45. Admission!Admission(one) => StaffSteps \/ StaffRefusals
  BY <1>20, <1>21, <1>22, <1>23, <1>24, <1>25, <1>26, <1>27, <1>28, <1>30, <1>31, <1>38, <1>39, Zenon
     DEF Admission!Admission, StaffSteps, StaffRefusals
<1>46. Admission!Administration(one) => StaffSteps \/ StaffRefusals \/ (Faulty!SaveRefused(one))
  BY <1>32, <1>34, <1>35, <1>36, <1>37, <1>40, <1>41, <1>42, <1>43, Zenon
     DEF Admission!Administration, StaffSteps, StaffRefusals
<1> QED
  BY <1>44, <1>45, <1>46, <1>47

LEMMA SmoothIsStep ==
  Smooth!OnboardingNext => StaffSteps \/ StaffRefusals \/ (Faulty!SaveRefused(one) /\ Faulty!Collides(one))
<1>1. Smooth!Idle = Faulty!Idle
  BY DEF Smooth!Idle, Faulty!Idle
<1>2. \A entity, stored : Smooth!Differing(entity, stored) = Faulty!Differing(entity, stored)
  BY DEF Smooth!Differing, Faulty!Differing
<1>3. \A stored, entity, columns : Smooth!Updated(stored, entity, columns) = Faulty!Updated(stored, entity, columns)
  BY DEF Smooth!Updated, Faulty!Updated
<1>4. \A p, c, at : Smooth!GoesTo(p, c, at) <=> Faulty!GoesTo(p, c, at)
  BY <1>1 DEF Smooth!GoesTo, Faulty!GoesTo
<1>5. \A p : Smooth!Fails(p) <=> Faulty!Fails(p)
  BY <1>1 DEF Smooth!Fails, Faulty!Fails
<1>6. \A c, id, entity, then : Smooth!Saving(c, id, entity, then) = Faulty!Saving(c, id, entity, then)
  BY DEF Smooth!Saving, Faulty!Saving
<1>7. Smooth!NewCall = Faulty!NewCall
  BY DEF Smooth!NewCall, Faulty!NewCall
<1>8. \A p : Smooth!CompareSave(p) <=> Faulty!CompareSave(p)
  BY <1>4, <1>2 DEF Smooth!CompareSave, Faulty!CompareSave
<1>9. \A p : Smooth!Written(p) = Faulty!Written(p)
  BY <1>3 DEF Smooth!Written, Faulty!Written
<1>10. \A p, accepted : Smooth!UpdateSave(p, accepted) <=> Faulty!UpdateSave(p, accepted)
  BY <1>9, <1>4, <1>5 DEF Smooth!UpdateSave, Faulty!UpdateSave
<1>11. \A p : Smooth!InsertSave(p) <=> Faulty!InsertSave(p)
  BY <1>4, <1>5 DEF Smooth!InsertSave, Faulty!InsertSave
<1>12. Smooth!Others <=> Faulty!Others
  BY DEF Smooth!Others, Faulty!Others
<1>13. Smooth!Rows = Faulty!Rows
  BY DEF Smooth!Rows, Faulty!Rows
<1>14. \A email : Smooth!HasRow(email) <=> Faulty!HasRow(email)
  BY <1>13 DEF Smooth!HasRow, Faulty!HasRow
<1>15. \A email : Smooth!AccountsOf(email) = Faulty!AccountsOf(email)
  BY DEF Smooth!AccountsOf, Faulty!AccountsOf
<1>16. \A e, r : Smooth!Refused(e, r) <=> Faulty!Refused(e, r)
  BY <1>13 DEF Smooth!Refused, Faulty!Refused
<1>17. \A p : Smooth!Collides(p) <=> Faulty!Collides(p)
  BY <1>9, <1>16 DEF Smooth!Collides, Faulty!Collides
<1>18. \A email, status : Smooth!NewEmployee(email, status) = Faulty!NewEmployee(email, status)
  BY DEF Smooth!NewEmployee, Faulty!NewEmployee
<1>19. \A p, r, at, then : Smooth!Files(p, r, at, then) <=> Faulty!Files(p, r, at, then)
  BY <1>7 DEF Smooth!Files, Faulty!Files
<1>20. \A p, email, mode : Smooth!Register(p, email, mode) <=> Faulty!Register(p, email, mode)
  BY <1>1, <1>14, <1>19, <1>18, <1>12 DEF Smooth!Register, Faulty!Register
<1>21. \A p, email : Smooth!InviteEmployee(p, email) <=> Faulty!InviteEmployee(p, email)
  BY <1>1, <1>14, <1>19, <1>18, <1>12 DEF Smooth!InviteEmployee, Faulty!InviteEmployee
<1>22. \A p, email, password : Smooth!CreateEmployee(p, email, password) <=> Faulty!CreateEmployee(p, email, password)
  BY <1>1, <1>14, <1>19, <1>18, <1>12 DEF Smooth!CreateEmployee, Faulty!CreateEmployee
<1>23. \A p, e : Smooth!InsertEmployee(p, e) <=> Faulty!InsertEmployee(p, e)
  BY <1>17, <1>4 DEF Smooth!InsertEmployee, Faulty!InsertEmployee
<1>24. \A p, c : Smooth!IssueActivationCode(p, c) <=> Faulty!IssueActivationCode(p, c)
  BY <1>4 DEF Smooth!IssueActivationCode, Faulty!IssueActivationCode
<1>25. \A p, e : Smooth!ApproveRegistration(p, e) <=> Faulty!ApproveRegistration(p, e)
  BY <1>1, <1>6, <1>7, <1>12 DEF Smooth!ApproveRegistration, Faulty!ApproveRegistration
<1>26. \A p : Smooth!DeleteRegistration(p) <=> Faulty!DeleteRegistration(p)
  BY <1>4, <1>12 DEF Smooth!DeleteRegistration, Faulty!DeleteRegistration
<1>27. \A p, c : Smooth!AcceptInvite(p, c) <=> Faulty!AcceptInvite(p, c)
  BY <1>1, <1>13, <1>7, <1>12 DEF Smooth!AcceptInvite, Faulty!AcceptInvite
<1>28. \A p : Smooth!SpendCode(p) <=> Faulty!SpendCode(p)
  BY DEF Smooth!SpendCode, Faulty!SpendCode, Smooth!Gone, Faulty!Gone
<1>29. \A p, a : Smooth!Links(p, a) <=> Faulty!Links(p, a)
  BY DEF Smooth!Links, Faulty!Links
<1>30. \A p, a : Smooth!CreateAccount(p, a) <=> Faulty!CreateAccount(p, a)
  BY <1>15, <1>29 DEF Smooth!CreateAccount, Faulty!CreateAccount
<1>31. \A p : Smooth!ReattachAccount(p) <=> Faulty!ReattachAccount(p)
  BY <1>15, <1>29, <1>12 DEF Smooth!ReattachAccount, Faulty!ReattachAccount
<1>32. \A p, e, email, active : Smooth!UpdateEmployee(p, e, email, active) <=> Faulty!UpdateEmployee(p, e, email, active)
  <2> SUFFICES ASSUME NEW p, NEW e, NEW email, NEW active
               PROVE  Smooth!UpdateEmployee(p, e, email, active) <=> Faulty!UpdateEmployee(p, e, email, active)
    OBVIOUS
  <2>1. PICK x : x = [staffRow[e] EXCEPT !.email = email, !.active = IF active = Null THEN @ ELSE active]
    OBVIOUS
  <2>2. Smooth!Saving(Smooth!NewCall, e, x, "idle") = Faulty!Saving(Faulty!NewCall, e, x, "idle")
    BY <1>6, <1>7
  <2>3. PICK c : c = Faulty!Saving(Faulty!NewCall, e, x, "idle")
    OBVIOUS
  <2>4. PICK d : d = IF email = staffRow[e].email \/ staffRow[e].keycloakId = Null THEN c
                     ELSE [c EXCEPT !.at = "rename", !.holds = staffRow[e].email]
    OBVIOUS
  <2>5. PICK found : found = /\ staffCall[p] = Faulty!Idle /\ staffRow[e] # Null
                             /\ email # staffRow[e].email => ~Faulty!HasRow(email)
    OBVIOUS
  <2>6. Smooth!UpdateEmployee(p, e, email, active) <=>
          found /\ staffCall' = [staffCall EXCEPT ![p] = d] /\ UNCHANGED staffRow /\ Faulty!Others
    BY <1>1, <1>12, <1>14, <2>1, <2>2, <2>3, <2>4, <2>5, Zenon DEF Smooth!UpdateEmployee
  <2>7. Faulty!UpdateEmployee(p, e, email, active) <=>
          found /\ staffCall' = [staffCall EXCEPT ![p] = d] /\ UNCHANGED staffRow /\ Faulty!Others
    BY <2>1, <2>3, <2>4, <2>5, Zenon DEF Faulty!UpdateEmployee
  <2> QED
    BY <2>6, <2>7
<1>33. \A p, email : Smooth!Renames(p, email) <=> Faulty!Renames(p, email)
  BY <1>15 DEF Smooth!Renames, Faulty!Renames
<1>34. \A p : Smooth!RenameAccount(p) <=> Faulty!RenameAccount(p)
  BY <1>33 DEF Smooth!RenameAccount, Faulty!RenameAccount
<1>35. \A p, e : Smooth!Deactivate(p, e) <=> Faulty!Deactivate(p, e)
  BY <1>1, <1>6, <1>7, <1>12 DEF Smooth!Deactivate, Faulty!Deactivate
<1>36. \A p : Smooth!SaveEmployee(p) <=> Faulty!SaveEmployee(p)
  BY <1>8, <1>17, <1>10, <1>11, <1>12 DEF Smooth!SaveEmployee, Faulty!SaveEmployee
<1>37. \A p : Smooth!RestoreAccount(p) <=> Faulty!RestoreAccount(p)
  BY <1>33, <1>4 DEF Smooth!RestoreAccount, Faulty!RestoreAccount
<1>38. ASSUME NEW e, Smooth!RejectRegistration(one, e)
       PROVE  Faulty!RejectRegistration(one, e) /\ staffRow[e].status = "PENDING"
  BY <1>1, <1>7, <1>12, <1>38 DEF Smooth!RejectRegistration, Faulty!RejectRegistration
<1>39. ASSUME Smooth!AccountFails(one)
       PROVE  /\ Faulty!AccountFails(one)
              /\ staffCall[one].id # Null /\ Faulty!AccountsOf(staffCall[one].entity.email) # {}
  BY <1>5, <1>12, <1>15, <1>39 DEF Smooth!AccountFails, Faulty!AccountFails
<1>40. Smooth!RenameFails(one) => Faulty!RenameFails(one)
  BY <1>5, <1>12, <1>15 DEF Smooth!RenameFails, Faulty!RenameFails
<1>41. ASSUME Smooth!RestoreFails(one)
       PROVE  /\ Faulty!RestoreFails(one)
              /\ ~(Faulty!AccountsOf(staffCall[one].holds) \subseteq {staffCall[one].entity.keycloakId})
  BY <1>5, <1>12, <1>15, <1>41 DEF Smooth!RestoreFails, Faulty!RestoreFails
<1>42. Smooth!SaveRefused(one) => Faulty!SaveRefused(one) /\ Faulty!Collides(one)
  BY <1>4, <1>12, <1>17 DEF Smooth!SaveRefused, Faulty!SaveRefused
<1>43. ~Smooth!OnboardingCrash(one)
  BY DEF Smooth!OnboardingCrash
<1>44. Smooth!OnboardingNext =>
         Smooth!Admission(one) \/ Smooth!Administration(one) \/ \E k \in Codes : Smooth!ExpireCode(k)
  BY DEF Smooth!OnboardingNext
<1>47. (\E k \in Codes : Smooth!ExpireCode(k)) => StaffSteps
  <2>1. \A k : Smooth!ExpireCode(k) <=> Faulty!ExpireCode(k)
    BY DEF Smooth!ExpireCode, Faulty!ExpireCode, Smooth!Gone, Faulty!Gone, Smooth!saveVars, Faulty!saveVars
  <2> QED
    BY <2>1, Zenon DEF StaffSteps
<1>45. Smooth!Admission(one) => StaffSteps \/ StaffRefusals
  BY <1>20, <1>21, <1>22, <1>23, <1>24, <1>25, <1>26, <1>27, <1>28, <1>30, <1>31, <1>38, <1>39, Zenon
     DEF Smooth!Admission, StaffSteps, StaffRefusals
<1>46. Smooth!Administration(one) => StaffSteps \/ StaffRefusals \/ (Faulty!SaveRefused(one) /\ Faulty!Collides(one))
  BY <1>32, <1>34, <1>35, <1>36, <1>37, <1>40, <1>41, <1>42, <1>43, Zenon
     DEF Smooth!Administration, StaffSteps, StaffRefusals
<1> QED
  BY <1>44, <1>45, <1>46, <1>47

LEMMA StaffAnswers ==
  ASSUME StaffInv, StaffRefusals
  PROVE  /\ StaffInv' /\ UNCHANGED staffRow
         /\ MailInv => MailInv'
         /\ MailInv /\ SmoothInv => SmoothInv'
<1>1. CASE \E e \in Employees : Faulty!RejectRegistration(one, e) /\ staffRow[e].status = "PENDING"
  <2>1. PICK e \in Employees : Faulty!RejectRegistration(one, e) /\ staffRow[e].status = "PENDING"
    BY <1>1
  <2>2. staffCall' = [staffCall EXCEPT ![one] = [Faulty!NewCall EXCEPT !.at = "delete", !.id = e]]
    BY <2>1, Zenon DEF Faulty!RejectRegistration
  <2>3. ASSUME NEW x \in Employees, Faulty!RejectRegistration(one, x) PROVE x = e
    <3>1. staffCall' = [staffCall EXCEPT ![one] = [Faulty!NewCall EXCEPT !.at = "delete", !.id = x]]
      BY <2>3, Zenon DEF Faulty!RejectRegistration
    <3>2. staffCall'[one].id = x
      BY <3>1 DEF StaffInv, Faulty!NewCall
    <3>3. staffCall'[one].id = e
      BY <2>2 DEF StaffInv, Faulty!NewCall
    <3> QED
      BY <3>2, <3>3
  <2>4. UNCHANGED staffRow
    BY <2>1, Zenon DEF Faulty!RejectRegistration
  <2> QED
    BY <2>1, <2>3, <2>4, StaffTakes
<1>2. CASE /\ Faulty!AccountFails(one)
           /\ staffCall[one].id # Null /\ Faulty!AccountsOf(staffCall[one].entity.email) # {}
  <2>1. staffCall[one].at = "account" /\ UNCHANGED staffRow
    BY <1>2 DEF Faulty!AccountFails, Faulty!Fails
  <2> QED
    BY <1>2, <2>1, StaffFails DEF Renamed
<1>3. CASE Faulty!RenameFails(one)
  <2>1. staffCall[one].at = "rename" /\ UNCHANGED staffRow
    BY <1>3 DEF Faulty!RenameFails, Faulty!Fails
  <2> QED
    BY <1>3, <2>1, StaffFails DEF Renamed
<1>4. CASE /\ Faulty!RestoreFails(one)
           /\ ~(Faulty!AccountsOf(staffCall[one].holds) \subseteq {staffCall[one].entity.keycloakId})
  <2>1. staffCall[one].at = "restore" /\ UNCHANGED staffRow
    BY <1>4 DEF Faulty!RestoreFails, Faulty!Fails
  <2>2. staffCall[one].holds # Null
    BY <2>1, StaffHeld, StaffIdle, StaffFacts DEF StaffHolds
  <2>3. ~MailInv
    BY <1>4, <2>1, <2>2 DEF MailInv, MailHolds, Renamed
  <2> QED
    BY <1>4, <2>1, <2>3, StaffFails
<1> QED
  BY <1>1, <1>2, <1>3, <1>4 DEF StaffRefusals

LEMMA StaffRests ==
  ASSUME UNCHANGED <<staffRow, staffCall, account, code, admitted>>
  PROVE  /\ StaffInv => StaffInv'
         /\ MailInv => MailInv'
         /\ SmoothInv => SmoothInv'
<1>1. UNCHANGED <<Faulty!Rows, Faulty!OneAccountEach>>
  BY DEF Faulty!Rows, Faulty!OneAccountEach
<1>2. \A e : UNCHANGED <<Faulty!HasRow(e), MailAgrees(e), HasCode(e), Faulty!AccountsOf(e)>>
  BY <1>1 DEF Faulty!HasRow, MailAgrees, HasCode, Faulty!AccountsOf
<1>3. \A c, d : UNCHANGED Faulty!Differing(c, d)
  BY DEF Faulty!Differing
<1>4. StaffInv => StaffInv'
  BY <1>1, <1>2, <1>3 DEF StaffInv, StaffRows, StaffFits, StaffHolds
<1>5. MailInv => MailInv'
  BY <1>1, <1>2 DEF MailInv, MailHolds, Renamed
<1>6. SmoothInv => SmoothInv'
  BY <1>1, <1>2 DEF SmoothInv, SmoothHolds, Owns, Admits
<1> QED
  BY <1>4, <1>5, <1>6

LEMMA StaffInit ==
  ASSUME Smooth!OnboardingInit
  PROVE  StaffInv /\ MailInv /\ SmoothInv
<1>1. /\ staffRow = [e \in Employees |-> Null] /\ staffCall = [p \in {one} |-> Faulty!Idle]
      /\ account = [a \in Accounts |-> Null] /\ code = [c \in Codes |-> Null] /\ admitted = {}
  BY DEF Smooth!OnboardingInit, Smooth!Idle, Faulty!Idle
<1>2. Faulty!Rows = {} /\ \A c \in Codes : code[c] \notin Employees
  BY <1>1, StaffFacts DEF Faulty!Rows
<1>3. StaffInv
  BY <1>1, <1>2 DEF StaffInv, StaffRows, StaffFits
<1>4. staffCall[one].at = "idle"
  BY <1>1, StaffIdle
<1>5. MailInv
  BY <1>1, <1>2, <1>4 DEF MailInv, MailHolds, Renamed, Faulty!OneAccountEach
<1>6. SmoothInv
  BY <1>1, <1>2, <1>4 DEF SmoothInv, SmoothHolds
<1> QED
  BY <1>3, <1>5, <1>6

\* What every step of the three instances of one call keeps.
LEMMA FaultyStep ==
  ASSUME StaffInv, [Faulty!OnboardingNext]_(Faulty!onboardingVars)
  PROVE  StaffInv' /\ Faulty!ApprovedBeforeActive
<1>1. CASE StaffSteps
  BY <1>1, StaffStepsKeep
<1>2. CASE Faulty!SaveRefused(one)
  <2>1. UNCHANGED staffRow
    BY <1>2 DEF Faulty!SaveRefused
  <2> QED
    BY <1>2, <2>1, StaffRefused, StaffStays
<1>3. CASE \E e \in Employees : Faulty!RejectRegistration(one, e)
  <2>1. UNCHANGED staffRow
    BY <1>3, Zenon DEF Faulty!RejectRegistration
  <2> QED
    BY <1>3, <2>1, StaffTakes, StaffStays
<1>4. CASE \/ Faulty!AccountFails(one) \/ Faulty!RenameFails(one)
           \/ Faulty!RestoreFails(one) \/ Faulty!OnboardingCrash(one)
  <2>1. UNCHANGED staffRow
    BY <1>4 DEF Faulty!AccountFails, Faulty!RenameFails, Faulty!RestoreFails, Faulty!OnboardingCrash,
       Faulty!Crash, Faulty!Fails
  <2> QED
    BY <1>4, <2>1, StaffFails, StaffStays
<1>5. CASE UNCHANGED Faulty!onboardingVars
  BY <1>5, StaffRests, StaffStays DEF Faulty!onboardingVars, Faulty!saveVars
<1> QED
  BY <1>1, <1>2, <1>3, <1>4, <1>5, FaultyIsStep

LEMMA AdmissionStep ==
  ASSUME StaffInv, MailInv, [Admission!OnboardingNext]_(Admission!onboardingVars)
  PROVE  StaffInv' /\ MailInv'
BY AdmissionIsStep, StaffStepsKeep, StaffAnswers, StaffRefused, StaffRests
   DEF Admission!onboardingVars, Admission!saveVars

LEMMA SmoothStep ==
  ASSUME StaffInv, MailInv, SmoothInv, [Smooth!OnboardingNext]_(Smooth!onboardingVars)
  PROVE  StaffInv' /\ MailInv' /\ SmoothInv'
BY SmoothIsStep, StaffStepsKeep, StaffAnswers, StaffRefused, StaffRests
   DEF Smooth!onboardingVars, Smooth!saveVars

LEMMA MailFits ==
  ASSUME MailInv
  PROVE  Admission!AccountsAgree
<1>1. Admission!Idle.at = "idle" /\ Admission!Rows = Faulty!Rows
  BY DEF Admission!Idle, Admission!Rows, Faulty!Rows
<1> QED
  BY <1>1 DEF MailInv, MailAgrees, Renamed, Admission!AccountsAgree, Admission!AtRest

LEMMA InvitedFit ==
  ASSUME SmoothInv
  PROVE  Smooth!InvitedUntilExpiry
<1>1. Smooth!Idle.at = "idle" /\ Smooth!Rows = Faulty!Rows
  BY DEF Smooth!Idle, Smooth!Rows, Faulty!Rows
<1> QED
  BY <1>1 DEF SmoothInv, Admits, HasCode, Expired, Smooth!Gone, Faulty!Gone, Smooth!InvitedUntilExpiry, Smooth!AtRest

\* One call at a time, whatever fails: nobody becomes active unapproved.
THEOREM NobodyIsActiveUnapproved ==
  Faulty!OnboardingSpec => [][Faulty!ApprovedBeforeActive]_(Faulty!onboardingVars)
<1>1. Faulty!OnboardingInit => StaffInv
  BY StaffInit DEF Faulty!OnboardingInit, Smooth!OnboardingInit, Faulty!Idle, Smooth!Idle
<1>2. StaffInv /\ [Faulty!OnboardingNext]_(Faulty!onboardingVars) => StaffInv'
  BY FaultyStep
<1>3. StaffInv /\ [Faulty!OnboardingNext]_(Faulty!onboardingVars) =>
        [Faulty!ApprovedBeforeActive]_(Faulty!onboardingVars)
  BY FaultyStep
<1> QED
  BY <1>1, <1>2, <1>3, PTL DEF Faulty!OnboardingSpec

\* One call at a time, and although saves are refused: between calls an account
\* has the e-mail of its row.
THEOREM AccountsKeepTheirMail == Admission!OnboardingSpec => []Admission!AccountsAgree
<1> DEFINE Inv == StaffInv /\ MailInv
<1>1. Admission!OnboardingInit => Inv
  BY StaffInit DEF Admission!OnboardingInit, Smooth!OnboardingInit, Admission!Idle, Smooth!Idle
<1>2. Inv /\ [Admission!OnboardingNext]_(Admission!onboardingVars) => Inv'
  BY AdmissionStep
<1>3. Inv => Admission!AccountsAgree
  BY MailFits
<1> QED
  BY <1>1, <1>2, <1>3, PTL DEF Admission!OnboardingSpec

\* One call at a time, while nothing fails: between calls whoever is invited got
\* a code to become active with that nobody spent, whether it expired or not.
THEOREM InvitedStayWelcome == Smooth!OnboardingSpec => []Smooth!InvitedUntilExpiry
<1> DEFINE Inv == StaffInv /\ MailInv /\ SmoothInv
<1>1. Smooth!OnboardingInit => Inv
  BY StaffInit
<1>2. Inv /\ [Smooth!OnboardingNext]_(Smooth!onboardingVars) => Inv'
  BY SmoothStep
<1>3. Inv => Smooth!InvitedUntilExpiry
  BY InvitedFit
<1> QED
  BY <1>1, <1>2, <1>3, PTL DEF Smooth!OnboardingSpec

(***************************************************************************)
(* Any number of calls: a row is inserted and updated only while nobody    *)
(* else has its account, whatever the calls hold.  A row is filed by a     *)
(* call that has none yet, so it is compared with all the others.          *)
(***************************************************************************)

HireRecord(c) ==
  c = [at |-> c.at, id |-> c.id, entity |-> c.entity, columns |-> c.columns, then |-> c.then, holds |-> c.holds]

HireFits(c) ==
  c = Hires!Idle \/ (HireRecord(c) /\ c.then \in {"issue", "idle"} /\ (c.at = "file" => c.id = Null))

HireCalls ==
  staffCall = [p \in Calls |-> staffCall[p]] /\ \A p \in Calls : HireFits(staffCall[p])

HireRows == staffRow = [e \in Employees |-> staffRow[e]]

HireInv == HireCalls /\ HireRows /\ Hires!OneAccountEach

LEMMA HireHeld ==
  ASSUME HireCalls, NEW p \in Calls, staffCall[p].at # "idle"
  PROVE  /\ HireRecord(staffCall[p]) /\ staffCall[p].then \in {"issue", "idle"}
         /\ staffCall[p].at = "file" => staffCall[p].id = Null
<1>1. Hires!Idle.at = "idle"
  BY DEF Hires!Idle
<1> QED
  BY <1>1 DEF HireCalls, HireFits

LEMMA HireSets ==
  ASSUME HireCalls, NEW p \in Calls, NEW d, HireFits(d), staffCall' = [staffCall EXCEPT ![p] = d]
  PROVE  HireCalls'
BY DEF HireCalls

LEMMA HireGoes ==
  ASSUME HireCalls, NEW p \in Calls, NEW c, HireRecord(c), c.then \in {"issue", "idle"},
         NEW at \in {"idle", "issue", "insert", "restore"}, Hires!GoesTo(p, c, at)
  PROVE  HireCalls'
<1>1. PICK d : d = IF at = "idle" THEN Hires!Idle ELSE [c EXCEPT !.at = at]
  OBVIOUS
<1>2. staffCall' = [staffCall EXCEPT ![p] = d]
  BY <1>1, Zenon DEF Hires!GoesTo
<1>3. HireFits(d)
  <2>1. CASE at = "idle"
    BY <1>1, <2>1 DEF HireFits
  <2>2. CASE at # "idle"
    <3>1. d = [at |-> at, id |-> c.id, entity |-> c.entity, columns |-> c.columns, then |-> c.then, holds |-> c.holds]
      BY <1>1, <2>2 DEF HireRecord
    <3> QED
      BY <2>2, <3>1 DEF HireFits, HireRecord
  <2> QED
    BY <2>1, <2>2
<1> QED
  BY <1>2, <1>3, HireSets

\* A call that begins.
LEMMA HireBegins ==
  ASSUME HireCalls, NEW p \in Calls, NEW d, NEW at \in {"file", "account", "compare", "rename", "delete", "spend"},
         NEW id, NEW entity, NEW then \in {"issue", "idle"}, NEW holds, at = "file" => id = Null,
         d = [at |-> at, id |-> id, entity |-> entity, columns |-> {}, then |-> then, holds |-> holds],
         staffCall' = [staffCall EXCEPT ![p] = d]
  PROVE  HireCalls'
<1>1. HireFits(d)
  BY DEF HireFits, HireRecord
<1> QED
  BY <1>1, HireSets

LEMMA HireAdmits ==
  ASSUME HireCalls, NEW p \in Calls, Hires!Admission(p)
  PROVE  HireCalls'
<1>1. ASSUME NEW r, NEW at \in {"file", "account"}, NEW then \in {"issue", "idle"}, Hires!Files(p, r, at, then)
      PROVE  HireCalls'
  <2>1. PICK d : d = [Hires!NewCall EXCEPT !.at = at, !.entity = r, !.then = then]
    OBVIOUS
  <2>2. d = [at |-> at, id |-> Null, entity |-> r, columns |-> {}, then |-> then, holds |-> Null]
    BY <2>1 DEF Hires!NewCall
  <2>3. staffCall' = [staffCall EXCEPT ![p] = d]
    BY <1>1, <2>1, Zenon DEF Hires!Files
  <2> QED
    BY <2>2, <2>3, HireBegins
<1>2. ASSUME NEW email \in Emails, NEW mode, Hires!Register(p, email, mode) PROVE HireCalls'
  <2>1. \/ Hires!Files(p, Hires!NewEmployee(email, "INVITED"), "file", "issue")
        \/ Hires!Files(p, Hires!NewEmployee(email, "PENDING"), "file", "idle")
    BY <1>2, Zenon DEF Hires!Register
  <2> QED
    BY <1>1, <2>1
<1>3. ASSUME NEW email \in Emails, Hires!InviteEmployee(p, email) PROVE HireCalls'
  BY <1>1, <1>3 DEF Hires!InviteEmployee
<1>4. ASSUME NEW email \in Emails, NEW password \in BOOLEAN, Hires!CreateEmployee(p, email, password) PROVE HireCalls'
  <2>1. PICK at : at = IF password THEN "account" ELSE "file"
    OBVIOUS
  <2>2. Hires!Files(p, Hires!NewEmployee(email, "ACTIVE"), at, "idle")
    BY <1>4, <2>1, Zenon DEF Hires!CreateEmployee
  <2>3. at \in {"file", "account"}
    BY <2>1
  <2> QED
    BY <1>1, <2>2, <2>3
<1>5. ASSUME NEW e \in Employees, Hires!InsertEmployee(p, e) PROVE HireCalls'
  <2>1. staffCall[p].at = "file" /\ Hires!GoesTo(p, [staffCall[p] EXCEPT !.id = e], staffCall[p].then)
    BY <1>5, Zenon DEF Hires!InsertEmployee
  <2>2. PICK c : c = staffCall[p]
    OBVIOUS
  <2>3. HireRecord(c) /\ c.then \in {"issue", "idle"}
    BY <2>1, <2>2, HireHeld
  <2>4. PICK d : d = [c EXCEPT !.id = e]
    OBVIOUS
  <2>5. d = [at |-> c.at, id |-> e, entity |-> c.entity, columns |-> c.columns, then |-> c.then, holds |-> c.holds]
    BY <2>3, <2>4 DEF HireRecord
  <2>6. HireRecord(d) /\ d.then \in {"issue", "idle"} /\ d.then = c.then
    BY <2>3, <2>5 DEF HireRecord
  <2>7. Hires!GoesTo(p, d, c.then)
    BY <2>1, <2>2, <2>4, Zenon
  <2> QED
    BY <2>3, <2>6, <2>7, HireGoes
<1>6. ASSUME NEW e \in Employees, Hires!ApproveRegistration(p, e) PROVE HireCalls'
  <2>1. PICK x : x = [staffRow[e] EXCEPT !.status = "INVITED"]
    OBVIOUS
  <2>2. PICK d : d = Hires!Saving(Hires!NewCall, e, x, "issue")
    OBVIOUS
  <2>3. d = [at |-> "compare", id |-> e, entity |-> x, columns |-> {}, then |-> "issue", holds |-> Null]
    BY <2>2 DEF Hires!Saving, Hires!NewCall
  <2>4. staffCall' = [staffCall EXCEPT ![p] = d]
    BY <1>6, <2>1, <2>2, Zenon DEF Hires!ApproveRegistration
  <2> QED
    BY <2>3, <2>4, HireBegins
<1>7. ASSUME NEW e \in Employees, Hires!RejectRegistration(p, e) PROVE HireCalls'
  <2>1. PICK d : d = [Hires!NewCall EXCEPT !.at = "delete", !.id = e]
    OBVIOUS
  <2>2. d = [at |-> "delete", id |-> e, entity |-> Null, columns |-> {}, then |-> "idle", holds |-> Null]
    BY <2>1 DEF Hires!NewCall
  <2>3. staffCall' = [staffCall EXCEPT ![p] = d]
    BY <1>7, <2>1, Zenon DEF Hires!RejectRegistration
  <2> QED
    BY <2>2, <2>3, HireBegins
<1>8. ASSUME Hires!DeleteRegistration(p) \/ \E k \in HireCodes : Hires!IssueActivationCode(p, k)
      PROVE HireCalls'
  <2>1. staffCall' = [staffCall EXCEPT ![p] = Hires!Idle]
    BY <1>8 DEF Hires!DeleteRegistration, Hires!IssueActivationCode, Hires!GoesTo
  <2> QED
    BY <2>1, HireSets DEF HireFits
<1>9. ASSUME NEW k \in HireCodes, Hires!AcceptInvite(p, k) PROVE HireCalls'
  <2>1. PICK x, e : x = [staffRow[code[k]] EXCEPT !.status = "ACTIVE", !.active = TRUE] /\ e = code[k]
    OBVIOUS
  <2>2. PICK d : d = [Hires!NewCall EXCEPT !.at = "spend", !.id = e, !.holds = k, !.entity = x]
    OBVIOUS
  <2>3. d = [at |-> "spend", id |-> e, entity |-> x, columns |-> {}, then |-> "idle", holds |-> k]
    BY <2>2 DEF Hires!NewCall
  <2>4. staffCall' = [staffCall EXCEPT ![p] = d]
    BY <1>9, <2>1, <2>2, Zenon DEF Hires!AcceptInvite
  <2> QED
    BY <2>3, <2>4, HireBegins
<1>10. ASSUME Hires!SpendCode(p) PROVE HireCalls'
  <2>1. PICK c : c = staffCall[p]
    OBVIOUS
  <2>2. c.at = "spend" /\ staffCall' = [staffCall EXCEPT ![p].at = "account", ![p].holds = Null]
    BY <1>10, <2>1 DEF Hires!SpendCode
  <2>3. HireRecord(c) /\ c.then \in {"issue", "idle"}
    BY <2>1, <2>2, HireHeld
  <2>4. PICK d : d = [at |-> "account", id |-> c.id, entity |-> c.entity, columns |-> c.columns,
                      then |-> c.then, holds |-> Null]
    OBVIOUS
  <2>5. d = [c EXCEPT !.at = "account", !.holds = Null]
    <3>1. PICK id, entity, columns, then, holds :
            id = c.id /\ entity = c.entity /\ columns = c.columns /\ then = c.then /\ holds = c.holds
      OBVIOUS
    <3>2. c = [at |-> "spend", id |-> id, entity |-> entity, columns |-> columns, then |-> then, holds |-> holds]
      BY <2>2, <2>3, <3>1, Zenon DEF HireRecord
    <3> QED
      <4>1. d = [at |-> "account", id |-> id, entity |-> entity, columns |-> columns, then |-> then, holds |-> Null]
        BY <2>4, <3>1, Zenon
      <4>2. c \in [at : {"spend"}, id : {id}, entity : {entity}, columns : {columns}, then : {then}, holds : {holds}]
        BY <3>2
      <4>3. PICK y : y = [c EXCEPT !.at = "account", !.holds = Null]
        OBVIOUS
      <4>4. y = [at |-> "account", id |-> id, entity |-> entity, columns |-> columns, then |-> then, holds |-> Null]
        BY <4>2, <4>3
      <4> QED
        BY <4>1, <4>3, <4>4
  <2>6. staffCall' = [staffCall EXCEPT ![p] = d]
    BY <2>1, <2>2, <2>5 DEF HireCalls
  <2>7. HireFits(d)
    BY <2>3, <2>4 DEF HireFits, HireRecord
  <2> QED
    BY <2>6, <2>7, HireSets
<1>11. ASSUME NEW a, staffCall[p].at = "account", Hires!Links(p, a) PROVE HireCalls'
  <2>1. PICK c : c = staffCall[p]
    OBVIOUS
  <2>2. HireRecord(c) /\ c.then \in {"issue", "idle"}
    BY <1>11, <2>1, HireHeld
  <2>3. PICK x, at : x = [c.entity EXCEPT !.keycloakId = a] /\ at = IF c.id = Null THEN "file" ELSE "compare"
    OBVIOUS
  <2>4. PICK d : d = [at |-> at, id |-> c.id, entity |-> x, columns |-> c.columns, then |-> c.then, holds |-> c.holds]
    OBVIOUS
  <2>5. d = [c EXCEPT !.entity = x, !.at = at]
    <3>1. PICK id, entity, columns, then, holds :
            id = c.id /\ entity = c.entity /\ columns = c.columns /\ then = c.then /\ holds = c.holds
      OBVIOUS
    <3>2. c = [at |-> "account", id |-> id, entity |-> entity, columns |-> columns, then |-> then, holds |-> holds]
      BY <1>11, <2>1, <2>2, <3>1, Zenon DEF HireRecord
    <3> QED
      <4>1. d = [at |-> at, id |-> id, entity |-> x, columns |-> columns, then |-> then, holds |-> holds]
        BY <2>4, <3>1, Zenon
      <4>2. c \in [at : {"account"}, id : {id}, entity : {entity}, columns : {columns}, then : {then}, holds : {holds}]
        BY <3>2
      <4>3. PICK y : y = [c EXCEPT !.entity = x, !.at = at]
        OBVIOUS
      <4>4. y = [at |-> at, id |-> id, entity |-> x, columns |-> columns, then |-> then, holds |-> holds]
        BY <4>2, <4>3
      <4> QED
        BY <4>1, <4>3, <4>4
  <2>6. staffCall' = [staffCall EXCEPT ![p].entity.keycloakId = a,
                        ![p].at = IF c.id = Null THEN "file" ELSE "compare"]
    BY <1>11, <2>1 DEF Hires!Links
  <2>7. staffCall' = [staffCall EXCEPT ![p] = d]
    BY <2>1, <2>3, <2>5, <2>6 DEF HireCalls
  <2>8. HireFits(d)
    BY <2>2, <2>3, <2>4 DEF HireFits, HireRecord
  <2> QED
    BY <2>7, <2>8, HireSets
<1>12. ASSUME NEW a \in Accounts, Hires!CreateAccount(p, a) PROVE HireCalls'
  BY <1>11, <1>12 DEF Hires!CreateAccount
<1>13. ASSUME Hires!ReattachAccount(p) PROVE HireCalls'
  BY <1>11, <1>13 DEF Hires!ReattachAccount
<1>14. ASSUME Hires!AccountFails(p) PROVE HireCalls'
  <2>1. staffCall' = [staffCall EXCEPT ![p] = Hires!Idle]
    BY <1>14 DEF Hires!AccountFails, Hires!Fails
  <2> QED
    BY <2>1, HireSets DEF HireFits
<1> QED
  BY <1>2, <1>3, <1>4, <1>5, <1>6, <1>7, <1>8, <1>9, <1>10, <1>12, <1>13, <1>14, Zenon DEF Hires!Admission

LEMMA HireAdministers ==
  ASSUME HireCalls, NEW p \in Calls, Hires!Administration(p)
  PROVE  HireCalls'
<1>1. ASSUME NEW e, NEW x, NEW d, d = Hires!Saving(Hires!NewCall, e, x, "idle"),
             staffCall' = [staffCall EXCEPT ![p] = d]
      PROVE  HireCalls'
  <2>1. d = [at |-> "compare", id |-> e, entity |-> x, columns |-> {}, then |-> "idle", holds |-> Null]
    BY <1>1 DEF Hires!Saving, Hires!NewCall
  <2> QED
    BY <1>1, <2>1, HireBegins
<1>2. ASSUME NEW e \in Employees, NEW email \in Emails, NEW active, Hires!UpdateEmployee(p, e, email, active)
      PROVE  HireCalls'
  <2>1. PICK x, mail, kept : /\ x = [staffRow[e] EXCEPT !.email = email, !.active = IF active = Null THEN @ ELSE active]
                             /\ mail = staffRow[e].email
                             /\ kept = (email = mail \/ staffRow[e].keycloakId = Null)
    OBVIOUS
  <2>2. PICK c : c = Hires!Saving(Hires!NewCall, e, x, "idle")
    OBVIOUS
  <2>3. PICK d : d = IF kept THEN c ELSE [c EXCEPT !.at = "rename", !.holds = mail]
    OBVIOUS
  <2>4. staffCall' = [staffCall EXCEPT ![p] = d]
    BY <1>2, <2>1, <2>2, <2>3, Zenon DEF Hires!UpdateEmployee
  <2>5. CASE kept
    BY <1>1, <2>2, <2>3, <2>4, <2>5
  <2>6. CASE ~kept
    <3>1. c = [at |-> "compare", id |-> e, entity |-> x, columns |-> {}, then |-> "idle", holds |-> Null]
      BY <2>2 DEF Hires!Saving, Hires!NewCall
    <3>2. d = [c EXCEPT !.at = "rename", !.holds = mail]
      BY <2>3, <2>6
    <3>3. d = [at |-> "rename", id |-> e, entity |-> x, columns |-> {}, then |-> "idle", holds |-> mail]
      BY <3>1, <3>2
    <3> QED
      BY <2>4, <3>3, HireBegins
  <2> QED
    BY <2>5, <2>6
<1>3. ASSUME NEW e \in Employees, Hires!Deactivate(p, e) PROVE HireCalls'
  <2>1. PICK x : x = [staffRow[e] EXCEPT !.active = FALSE]
    OBVIOUS
  <2>2. PICK d : d = Hires!Saving(Hires!NewCall, e, x, "idle")
    OBVIOUS
  <2>3. staffCall' = [staffCall EXCEPT ![p] = d]
    BY <1>3, <2>1, <2>2, Zenon DEF Hires!Deactivate
  <2> QED
    BY <1>1, <2>2, <2>3
<1>4. ASSUME Hires!RenameAccount(p) PROVE HireCalls'
  <2>1. PICK c : c = staffCall[p]
    OBVIOUS
  <2>2. c.at = "rename" /\ staffCall' = [staffCall EXCEPT ![p].at = "compare"]
    BY <1>4, <2>1 DEF Hires!RenameAccount
  <2>3. HireRecord(c) /\ c.then \in {"issue", "idle"}
    BY <2>1, <2>2, HireHeld
  <2>4. PICK y : y = [c EXCEPT !.at = "compare"]
    OBVIOUS
  <2>5. y = [at |-> "compare", id |-> c.id, entity |-> c.entity, columns |-> c.columns, then |-> c.then, holds |-> c.holds]
    BY <2>3, <2>4 DEF HireRecord
  <2>6. staffCall' = [staffCall EXCEPT ![p] = y]
    BY <2>1, <2>2, <2>4 DEF HireCalls
  <2>7. HireFits(y)
    BY <2>3, <2>5 DEF HireFits, HireRecord
  <2> QED
    BY <2>6, <2>7, HireSets
<1>5. ASSUME Hires!CompareSave(p) PROVE HireCalls'
  <2>1. PICK c : c = staffCall[p]
    OBVIOUS
  <2>2. c.at = "compare"
    BY <1>5, <2>1 DEF Hires!CompareSave
  <2>3. HireRecord(c) /\ c.then \in {"issue", "idle"}
    BY <2>1, <2>2, HireHeld
  <2>4. CASE staffRow[c.id] = Null
    BY <1>5, <2>1, <2>3, <2>4, HireGoes DEF Hires!CompareSave
  <2>5. CASE staffRow[c.id] # Null
    <3>1. PICK columns : columns = Hires!Differing(c.entity, staffRow[c.id])
      OBVIOUS
    <3>2. staffCall' = [staffCall EXCEPT ![p].at = "update", ![p].columns = columns]
      BY <1>5, <2>1, <2>5, <3>1, Zenon DEF Hires!CompareSave
    <3>3. PICK id, entity, old, then, holds :
            id = c.id /\ entity = c.entity /\ old = c.columns /\ then = c.then /\ holds = c.holds
      OBVIOUS
    <3>4. c = [at |-> "compare", id |-> id, entity |-> entity, columns |-> old, then |-> then, holds |-> holds]
      BY <2>2, <2>3, <3>3, Zenon DEF HireRecord
    <3>5. c \in [at : {"compare"}, id : {id}, entity : {entity}, columns : {old}, then : {then}, holds : {holds}]
      BY <3>4
    <3>6. PICK y : y = [c EXCEPT !.at = "update", !.columns = columns]
      OBVIOUS
    <3>7. y = [at |-> "update", id |-> id, entity |-> entity, columns |-> columns, then |-> then, holds |-> holds]
      BY <3>5, <3>6
    <3>8. staffCall' = [staffCall EXCEPT ![p] = y]
      BY <2>1, <3>2, <3>6 DEF HireCalls
    <3>9. then \in {"issue", "idle"}
      BY <2>3, <3>3
    <3>10. HireFits(y)
      BY <3>7, <3>9 DEF HireFits, HireRecord
    <3> QED
      BY <3>8, <3>10, HireSets
  <2> QED
    BY <2>4, <2>5
<1>6. ASSUME Hires!Fails(p) PROVE HireCalls'
  <2>1. staffCall' = [staffCall EXCEPT ![p] = Hires!Idle]
    BY <1>6 DEF Hires!Fails
  <2> QED
    BY <2>1, HireSets DEF HireFits
<1>7. ASSUME Hires!UpdateSave(p, TRUE) PROVE HireCalls'
  <2>1. PICK c : c = staffCall[p]
    OBVIOUS
  <2>2. c.at = "update" /\ Hires!GoesTo(p, [c EXCEPT !.columns = {}], c.then)
    BY <1>7, <2>1, Zenon DEF Hires!UpdateSave
  <2>3. HireRecord(c) /\ c.then \in {"issue", "idle"}
    BY <2>1, <2>2, HireHeld
  <2>4. PICK d : d = [c EXCEPT !.columns = {}]
    OBVIOUS
  <2>5. d = [at |-> c.at, id |-> c.id, entity |-> c.entity, columns |-> {}, then |-> c.then, holds |-> c.holds]
    BY <2>3, <2>4 DEF HireRecord
  <2>6. HireRecord(d) /\ d.then = c.then
    BY <2>5 DEF HireRecord
  <2>7. Hires!GoesTo(p, d, c.then)
    BY <2>2, <2>4, Zenon
  <2> QED
    BY <2>3, <2>6, <2>7, HireGoes
<1>8. ASSUME Hires!InsertSave(p) PROVE HireCalls'
  <2>1. staffCall[p].at = "insert" /\ (Hires!GoesTo(p, staffCall[p], staffCall[p].then) \/ Hires!Fails(p))
    BY <1>8, Zenon DEF Hires!InsertSave
  <2>2. HireRecord(staffCall[p]) /\ staffCall[p].then \in {"issue", "idle"}
    BY <2>1, HireHeld
  <2> QED
    BY <1>6, <2>1, <2>2, HireGoes
<1>9. ASSUME Hires!SaveRefused(p) PROVE HireCalls'
  <2>1. PICK at : at = IF staffCall[p].holds = Null THEN "idle" ELSE "restore"
    OBVIOUS
  <2>2. staffCall[p].at \in {"file", "update", "insert"} /\ Hires!GoesTo(p, staffCall[p], at)
    BY <1>9, <2>1, Zenon DEF Hires!SaveRefused
  <2>3. HireRecord(staffCall[p]) /\ staffCall[p].then \in {"issue", "idle"}
    BY <2>2, HireHeld
  <2>4. at \in {"idle", "restore"}
    BY <2>1
  <2> QED
    BY <2>2, <2>3, <2>4, HireGoes
<1>10. ASSUME Hires!RestoreAccount(p) PROVE HireCalls'
  <2>1. staffCall' = [staffCall EXCEPT ![p] = Hires!Idle]
    BY <1>10 DEF Hires!RestoreAccount, Hires!GoesTo
  <2> QED
    BY <2>1, HireSets DEF HireFits
<1>11. ASSUME Hires!SaveEmployee(p) PROVE HireCalls'
  BY <1>5, <1>7, <1>8, <1>11, Zenon DEF Hires!SaveEmployee
<1>12. ASSUME Hires!RenameFails(p) \/ Hires!RestoreFails(p) \/ Hires!OnboardingCrash(p) PROVE HireCalls'
  BY <1>6, <1>12 DEF Hires!RenameFails, Hires!RestoreFails, Hires!OnboardingCrash, Hires!Crash
<1> QED
  BY <1>2, <1>3, <1>4, <1>9, <1>10, <1>11, <1>12, Zenon DEF Hires!Administration

\* A row that is written while nobody else has its e-mail or account.
LEMMA HireWrites ==
  ASSUME HireRows, Hires!OneAccountEach, NEW e, NEW r, ~(r # Null /\ Hires!Refused(e, r)),
         staffRow' = [staffRow EXCEPT ![e] = r]
  PROVE  HireRows' /\ Hires!OneAccountEach'
<1>1. \A x \in Employees : staffRow'[x] = IF x = e THEN r ELSE staffRow[x]
  BY DEF HireRows
<1>2. ASSUME NEW x \in Hires!Rows', NEW y \in Hires!Rows', x # y, staffRow'[x].keycloakId # Null
      PROVE  staffRow'[x].keycloakId # staffRow'[y].keycloakId
  <2>1. CASE x # e /\ y # e
    BY <1>1, <1>2, <2>1 DEF Hires!OneAccountEach, Hires!Rows
  <2>2. CASE x = e
    <3>1. r # Null /\ y \in Hires!Rows \ {e} /\ staffRow'[y] = staffRow[y] /\ staffRow'[x] = r
      BY <1>1, <1>2, <2>2 DEF Hires!Rows
    <3> QED
      BY <1>2, <3>1 DEF Hires!Refused
  <2>3. CASE y = e
    <3>1. r # Null /\ x \in Hires!Rows \ {e} /\ staffRow'[x] = staffRow[x] /\ staffRow'[y] = r
      BY <1>1, <1>2, <2>3 DEF Hires!Rows
    <3> QED
      BY <1>2, <3>1 DEF Hires!Refused
  <2> QED
    BY <2>1, <2>2, <2>3
<1>3. HireRows'
  BY DEF HireRows
<1> QED
  BY <1>2, <1>3 DEF Hires!OneAccountEach

LEMMA HireStep ==
  ASSUME HireInv, [Hires!OnboardingNext]_(Hires!onboardingVars)
  PROVE  HireInv'
<1>1. CASE UNCHANGED Hires!onboardingVars
  BY <1>1 DEF Hires!onboardingVars, Hires!saveVars, HireInv, HireCalls, HireRows, Hires!OneAccountEach, Hires!Rows
<1>2. ASSUME NEW p \in Calls, Hires!Admission(p) \/ Hires!Administration(p) PROVE HireInv'
  <2>1. HireCalls'
    BY <1>2, HireAdmits, HireAdministers DEF HireInv
  <2>2. CASE UNCHANGED staffRow
    BY <2>1, <2>2 DEF HireInv, HireRows, Hires!OneAccountEach, Hires!Rows
  <2>3. CASE \E e, r : ~(r # Null /\ Hires!Refused(e, r)) /\ staffRow' = [staffRow EXCEPT ![e] = r]
    BY <2>1, <2>3, HireWrites DEF HireInv
  <2>4. ASSUME NEW e \in Employees, Hires!InsertEmployee(p, e)
        PROVE  \E x, r : ~(r # Null /\ Hires!Refused(x, r)) /\ staffRow' = [staffRow EXCEPT ![x] = r]
    <3>1. PICK r : r = staffCall[p].entity
      OBVIOUS
    <3>2. staffCall[p].at = "file" /\ ~Hires!Collides(p) /\ staffRow' = [staffRow EXCEPT ![e] = r]
      BY <2>4, <3>1, Zenon DEF Hires!InsertEmployee
    <3>3. staffCall[p].id = Null
      BY <3>2, HireHeld DEF HireInv
    <3>4. ~(r # Null /\ Hires!Refused(Null, r))
      BY <3>1, <3>2, <3>3 DEF Hires!Collides
    <3>5. ~(r # Null /\ Hires!Refused(e, r))
      BY <3>4, StaffFacts DEF Hires!Refused, Hires!Rows
    <3> QED
      BY <3>2, <3>5
  <2>5. ASSUME Hires!DeleteRegistration(p)
        PROVE  \E x, r : ~(r # Null /\ Hires!Refused(x, r)) /\ staffRow' = [staffRow EXCEPT ![x] = r]
    BY <2>5 DEF Hires!DeleteRegistration
  <2>6. ASSUME Hires!SaveEmployee(p)
        PROVE  \/ UNCHANGED staffRow
               \/ \E x, r : ~(r # Null /\ Hires!Refused(x, r)) /\ staffRow' = [staffRow EXCEPT ![x] = r]
    <3>1. CASE Hires!CompareSave(p)
      BY <3>1 DEF Hires!CompareSave
    <3>2. CASE staffCall[p].at = "update" /\ ~Hires!Collides(p) /\ Hires!UpdateSave(p, TRUE)
      <4>1. PICK x, r : x = staffCall[p].id /\ r = Hires!Written(p)
        OBVIOUS
      <4>2. staffRow' = [staffRow EXCEPT ![x] = r]
        BY <3>2, <4>1, Zenon DEF Hires!UpdateSave
      <4>3. ~(r # Null /\ Hires!Refused(x, r))
        BY <3>2, <4>1, Zenon DEF Hires!Collides
      <4> QED
        BY <4>2, <4>3
    <3>3. CASE staffCall[p].at = "insert" /\ ~Hires!Collides(p) /\ Hires!InsertSave(p)
      <4>1. PICK x, r : x = staffCall[p].id /\ r = staffCall[p].entity
        OBVIOUS
      <4>2. UNCHANGED staffRow \/ staffRow' = [staffRow EXCEPT ![x] = r]
        BY <3>3, <4>1 DEF Hires!InsertSave, Hires!Fails
      <4>3. ~(r # Null /\ Hires!Refused(x, r))
        BY <3>3, <4>1 DEF Hires!Collides
      <4> QED
        BY <4>2, <4>3
    <3> QED
      BY <2>6, <3>1, <3>2, <3>3, Zenon DEF Hires!SaveEmployee
  <2>7. CASE Hires!Admission(p)
    <3>1. \/ UNCHANGED staffRow \/ Hires!DeleteRegistration(p)
          \/ \E e \in Employees : Hires!InsertEmployee(p, e)
      BY <2>7, Zenon DEF Hires!Admission, Hires!Register, Hires!InviteEmployee, Hires!CreateEmployee,
         Hires!ApproveRegistration, Hires!RejectRegistration, Hires!IssueActivationCode, Hires!AcceptInvite,
         Hires!SpendCode, Hires!CreateAccount, Hires!ReattachAccount, Hires!AccountFails, Hires!Fails
    <3> QED
      BY <2>2, <2>3, <2>4, <2>5, <3>1
  <2>8. CASE Hires!Administration(p)
    <3>1. UNCHANGED staffRow \/ Hires!SaveEmployee(p)
      BY <2>8, Zenon DEF Hires!Administration, Hires!Deactivate, Hires!UpdateEmployee, Hires!RenameAccount,
         Hires!RenameFails, Hires!SaveRefused, Hires!RestoreAccount, Hires!RestoreFails,
         Hires!OnboardingCrash, Hires!Crash, Hires!Fails
    <3> QED
      BY <2>2, <2>3, <2>6, <3>1
  <2> QED
    BY <1>2, <2>7, <2>8
<1>3. ASSUME NEW k, Hires!ExpireCode(k) PROVE HireInv'
  <2>1. UNCHANGED <<staffRow, staffCall>>
    BY <1>3 DEF Hires!ExpireCode, Hires!saveVars
  <2> QED
    BY <2>1 DEF HireInv, HireCalls, HireRows, Hires!OneAccountEach, Hires!Rows
<1> QED
  BY <1>1, <1>2, <1>3 DEF Hires!OnboardingNext

LEMMA HireInit ==
  ASSUME Hires!OnboardingInit
  PROVE  HireInv
BY DEF Hires!OnboardingInit, HireInv, HireCalls, HireFits, HireRows, Hires!OneAccountEach, Hires!Rows

\* Whatever calls race, and although saves are refused: two employees never
\* share an account.
THEOREM NoAccountIsShared == Hires!OnboardingSpec => []Hires!OneAccountEach
<1>1. Hires!OnboardingInit => HireInv
  BY HireInit
<1>2. HireInv /\ [Hires!OnboardingNext]_(Hires!onboardingVars) => HireInv'
  BY HireStep
<1>3. HireInv => Hires!OneAccountEach
  BY DEF HireInv
<1> QED
  BY <1>1, <1>2, <1>3, PTL DEF Hires!OnboardingSpec

\* A step of the services is one of the accounts of employees or leaves them alone.
LEMMA StaffOnlyMovesThere ==
  ASSUME [Next]_vars
  PROVE  /\ service' = service
         /\ service = "accounts alone" => [Smooth!OnboardingNext]_(Smooth!onboardingVars)
         /\ service = "accounts and refusals alone" => [Admission!OnboardingNext]_(Admission!onboardingVars)
         /\ service = "accounts and faults alone" => [Faulty!OnboardingNext]_(Faulty!onboardingVars)
         /\ service = "hires" => [Hires!OnboardingNext]_(Hires!onboardingVars)
<1>1. CASE StaffNext
  <2>1. /\ service' = service
        /\ \/ service = "accounts alone" /\ Smooth!OnboardingNext
           \/ service = "accounts and refusals alone" /\ Admission!OnboardingNext
           \/ service = "accounts and faults alone" /\ Faulty!OnboardingNext
           \/ service = "hires" /\ Hires!OnboardingNext
    BY <1>1, Zenon DEF StaffNext
  <2>2. /\ service = "accounts alone" => Smooth!OnboardingNext
        /\ service = "accounts and refusals alone" => Admission!OnboardingNext
        /\ service = "accounts and faults alone" => Faulty!OnboardingNext
        /\ service = "hires" => Hires!OnboardingNext
    <3>1. /\ "accounts alone" # "accounts and refusals alone" /\ "accounts alone" # "accounts and faults alone"
          /\ "accounts alone" # "hires" /\ "accounts and refusals alone" # "accounts and faults alone"
          /\ "accounts and refusals alone" # "hires" /\ "accounts and faults alone" # "hires"
      OBVIOUS
    <3> QED
      BY <2>1, <3>1, Zenon
  <2> QED
    BY <2>1, <2>2, Zenon
<1>2. CASE UNCHANGED <<service, staffVars>>
  BY <1>2 DEF staffVars, Smooth!onboardingVars, Smooth!saveVars, Admission!onboardingVars, Admission!saveVars,
     Faulty!onboardingVars, Faulty!saveVars, Hires!onboardingVars, Hires!saveVars
<1> QED
  BY <1>1, <1>2, Zenon DEF Next, BookNext, BillNext, LeaveNext, ContractNext, CompanyNext, RoleNext, LevelNext, vars

\* The accounts of employees fit them: nobody shares one, whatever calls race;
\* one call at a time, they have the e-mail of their row although saves are
\* refused, and while nothing fails whoever is invited got a code nobody spent.
THEOREM AccountsAlwaysFit == Spec => []AccountsFit
<1> DEFINE Fit == /\ service = "hires" => HireInv
                  /\ service = "accounts and refusals alone" => StaffInv /\ MailInv
                  /\ service = "accounts alone" => StaffInv /\ MailInv /\ SmoothInv
<1>1. Init => Fit
  <2>1. ASSUME Init, service = "hires" PROVE HireInv
    BY <2>1, HireInit, Zenon DEF Init
  <2>2. ASSUME Init, service # "hires" PROVE StaffInv /\ MailInv /\ SmoothInv
    BY <2>2, StaffInit, Zenon DEF Init
  <2>3. "accounts and refusals alone" # "hires" /\ "accounts alone" # "hires"
    OBVIOUS
  <2> QED
    BY <2>1, <2>2, <2>3, Zenon
<1>2. Fit /\ [Next]_vars => Fit'
  BY StaffOnlyMovesThere, HireStep, AdmissionStep, SmoothStep, Zenon
<1>3. Fit => AccountsFit
  BY MailFits, InvitedFit, Zenon DEF AccountsFit, HireInv
<1> QED
  BY <1>1, <1>2, <1>3, PTL DEF Spec

(***************************************************************************)
(* Decisions.  Each service keeps its own as a step; when another moves,   *)
(* its variables stay, and with them what was decided.                     *)
(***************************************************************************)

LEMMA PayrollDecides ==
  BookInv(Calls, MaxEntries) /\ [Books!PayrollNext \/ \E p \in Calls : Books!FinanceCrash(p)]_(Books!financeVars)
    => Books!PayrollKeepsEntry
<1>1. UNCHANGED Books!financeVars => Books!PayrollKeepsEntry
  BY DEF Books!financeVars, Books!ledgerVars, Books!PayrollKeepsEntry
<1> QED
  BY <1>1, BooksAreSteps, RunsKeepEntries, Zenon

LEMMA LedgerDecides ==
  BookInv({one}, MaxEntriesAlone) /\ AloneBooks
    /\ [BooksAlone!LedgerNext /\ UNCHANGED Books!financeRows]_(Books!financeVars)
    => BooksAlone!ClosedYearTakesNothing
<1>1. UNCHANGED Books!financeVars => BooksAlone!ClosedYearTakesNothing
  BY DEF Books!financeVars, Books!ledgerVars, BooksAlone!ClosedYearTakesNothing
<1> QED
  BY <1>1, AloneBooksAreSteps, ClosedYearGrowsNot, Zenon

LEMMA LeaveDecides == AbsenceInv /\ [Absence!LeaveNext]_(Absence!leaveVars) => Absence!RejectedIsFinal
<1>1. UNCHANGED Absence!leaveVars => Absence!RejectedIsFinal
  BY DEF Absence!leaveVars, Absence!saveVars, Absence!RejectedIsFinal
<1> QED
  BY <1>1, AbsenceRejects

LEMMA CompanyDecides ==
  CompanyInv /\ [Interrupted!RegistrationNext]_(Interrupted!registrationVars) =>
    CompanyInv' /\ Interrupted!RegisteredAsSet
<1>1. UNCHANGED Interrupted!registrationVars => Interrupted!RegisteredAsSet
  BY DEF Interrupted!registrationVars, Interrupted!RegisteredAsSet
<1>2. CompanyInv /\ [Interrupted!RegistrationNext]_(Interrupted!registrationVars) => CompanyInv'
  BY CompanyStep, CompanyStops, InterruptedIsStep DEF Interrupted!registrationVars, Interrupted!saveVars
<1> QED
  BY <1>1, <1>2, CompanyRegisters

LEMMA RolesDecide ==
  RoleInv /\ [RoleFaults!RolesNext]_(RoleFaults!rolesVars) => RoleInv' /\ RoleFaults!AssignedIsProtected
<1>1. UNCHANGED RoleFaults!rolesVars => RoleFaults!AssignedIsProtected
  BY DEF RoleFaults!rolesVars, RoleFaults!AssignedIsProtected
<1>2. RoleInv /\ [RoleFaults!RolesNext]_(RoleFaults!rolesVars) => RoleInv'
  BY RoleStep, RoleStops, RoleFaultIsStep DEF RoleFaults!rolesVars, RoleFaults!saveVars
<1> QED
  BY <1>1, <1>2, RoleProtects

LEMMA LevelsDecide ==
  LevelInv /\ [LevelFaults!SlaNext]_(LevelFaults!slaVars) => LevelInv' /\ LevelFaults!RemovedIsUnused
<1>1. UNCHANGED LevelFaults!slaVars => LevelFaults!RemovedIsUnused
  BY DEF LevelFaults!slaVars, LevelFaults!saveVars, LevelFaults!RemovedIsUnused, LevelFaults!Stored
<1>2. LevelInv /\ [LevelFaults!SlaNext]_(LevelFaults!slaVars) => LevelInv'
  BY LevelStep, LevelStops, LevelFaultIsStep DEF LevelFaults!slaVars, LevelFaults!saveVars
<1> QED
  BY <1>1, <1>2, LevelProtects

LEMMA DecisionsStart ==
  ASSUME Init
  PROVE  /\ service = "leave" => AbsenceInv
         /\ service = "accounts and faults alone" => StaffInv
         /\ service = "registration and crashes alone" => CompanyInv
         /\ RoleInv /\ LevelInv
<1>1. service = "leave" => AbsenceInv
  BY AbsenceInit, Zenon DEF Init
<1>2. service = "accounts and faults alone" => StaffInv
  <2>1. "accounts and faults alone" # "hires"
    OBVIOUS
  <2> QED
    BY <2>1, StaffInit, Zenon DEF Init
<1>3. service = "registration and crashes alone" => CompanyInv
  BY CompanyInit, Zenon DEF Init
<1>4. RoleInv /\ LevelInv
  BY RoleInit, LevelInit, Zenon DEF Init
<1> QED
  BY <1>1, <1>2, <1>3, <1>4, Zenon

\* What was decided stands: a run of the payroll leaves no salary without the
\* entry it had and a rejected leave stays rejected, whatever calls race; one call
\* at a time, and with crashes, a closed year takes no entry, nobody becomes active
\* unapproved or by an option that was withdrawn, and no role or level is removed
\* from those who have it.
THEOREM DecisionsAlwaysStand == Spec => DecisionsStand
<1> DEFINE Stand == /\ BooksKeep
                    /\ service = "leave" => AbsenceInv
                    /\ service = "accounts and faults alone" => StaffInv
                    /\ service = "registration and crashes alone" => CompanyInv
                    /\ service = "roles and crashes alone" => RoleInv
                    /\ service = "levels and crashes alone" => LevelInv
           Decided == /\ service = "payroll" => Books!PayrollKeepsEntry
                      /\ service = "leave" => Absence!RejectedIsFinal
                      /\ service = "ledger alone" => BooksAlone!ClosedYearTakesNothing
                      /\ service = "accounts and faults alone" => Faulty!ApprovedBeforeActive
                      /\ service = "registration and crashes alone" => Interrupted!RegisteredAsSet
                      /\ service = "roles and crashes alone" => RoleFaults!AssignedIsProtected
                      /\ service = "levels and crashes alone" => LevelFaults!RemovedIsUnused
<1>1. Init => Stand
  BY BooksStart, DecisionsStart, Zenon
<1>2. Stand /\ [Next]_vars => Stand'
  <2> SUFFICES ASSUME Stand, [Next]_vars PROVE Stand'
    BY Zenon
  <2>1. BooksKeep'
    BY BooksStep, Zenon
  <2>2. (service = "leave" => AbsenceInv)'
    BY LeaveOnlyMovesThere, AbsenceStep, Zenon
  <2>3. (service = "accounts and faults alone" => StaffInv)'
    BY StaffOnlyMovesThere, FaultyStep, Zenon
  <2>4. (service = "registration and crashes alone" => CompanyInv)'
    BY SettingsOnlyMoveThere, CompanyDecides, Zenon
  <2>5. (service = "roles and crashes alone" => RoleInv)'
    BY SettingsOnlyMoveThere, RolesDecide, Zenon
  <2>6. (service = "levels and crashes alone" => LevelInv)'
    BY SettingsOnlyMoveThere, LevelsDecide, Zenon
  <2> QED
    BY <2>1, <2>2, <2>3, <2>4, <2>5, <2>6, Zenon
<1>3. Stand /\ [Next]_vars => [Decided]_vars
  <2> SUFFICES ASSUME Stand, [Next]_vars PROVE Decided
    BY Zenon
  <2>1. service = "payroll" => Books!PayrollKeepsEntry
    BY BooksOnlyMoveThere, PayrollDecides, Zenon DEF BooksKeep
  <2>2. service = "leave" => Absence!RejectedIsFinal
    BY LeaveOnlyMovesThere, LeaveDecides, Zenon
  <2>3. service = "ledger alone" => BooksAlone!ClosedYearTakesNothing
    BY BooksOnlyMoveThere, LedgerDecides, Zenon DEF BooksKeep
  <2>4. service = "accounts and faults alone" => Faulty!ApprovedBeforeActive
    BY StaffOnlyMovesThere, FaultyStep, Zenon
  <2>5. service = "registration and crashes alone" => Interrupted!RegisteredAsSet
    BY SettingsOnlyMoveThere, CompanyDecides, Zenon
  <2>6. service = "roles and crashes alone" => RoleFaults!AssignedIsProtected
    BY SettingsOnlyMoveThere, RolesDecide, Zenon
  <2>7. service = "levels and crashes alone" => LevelFaults!RemovedIsUnused
    BY SettingsOnlyMoveThere, LevelsDecide, Zenon
  <2> QED
    BY <2>1, <2>2, <2>3, <2>4, <2>5, <2>6, <2>7, Zenon
<1> QED
  BY <1>1, <1>2, <1>3, PTL DEF Spec, DecisionsStand
=============================================================================
