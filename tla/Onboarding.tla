---------------------------- MODULE Onboarding -----------------------------
(***************************************************************************)
(* How a person becomes an employee who can log in: a registration that is *)
(* approved, or an invitation, leads to an activation code, and the code   *)
(* to an account of Keycloak; an administrator may create both at once.    *)
(* The row, the code (Redis) and the account (Keycloak) are changed one    *)
(* after the other, without a transaction.  The challenge and the proof of *)
(* the phone number that a registration brings are left out.               *)
(***************************************************************************)
EXTENDS Saves

CONSTANTS
  Employees, Emails, Accounts, Codes,
  Rejectable,  \* the statuses an administrator rejects; the page lists PENDING
  Flags,       \* the values of "active" that updates send, if any
  Faults       \* what may fail: "crash", "save", "keycloak"

EmployeeRecords ==
  [email : Emails, status : {"PENDING", "INVITED", "ACTIVE"}, active : BOOLEAN,
   keycloakId : Accounts \union {Null}]

\* What is left of the code of an employee.
Gone(e, how) == [of |-> e, is |-> how]
GoneCodes == {Gone(e, how) : e \in Employees, how \in {"spent", "expired"}}

\* NULL is no id, and no row looks like a missing one.
OnboardingAssumption ==
  /\ Null \notin Employees \union Emails \union Accounts \union EmployeeRecords \union GoneCodes
  /\ Employees \intersect GoneCodes = {}
  /\ Flags \subseteq BOOLEAN

VARIABLES
  account,   \* the e-mail of each account of Keycloak
  code,      \* of each activation code: its employee, or what is left of it
  admitted   \* the ids given so far

onboardingVars == <<saveVars, account, code, admitted>>

Others == UNCHANGED <<account, code, admitted>>
Rows == {e \in Employees : row[e] # Null}
HasRow(email) == \E e \in Rows : row[e].email = email
AccountsOf(email) == {a \in Accounts : account[a] = email}

\* The unique columns of employees: email and keycloak_id.
Refused(e, r) ==
  \E x \in Rows \ {e} :
    row[x].email = r.email \/ (r.keycloakId # Null /\ row[x].keycloakId = r.keycloakId)

\* The row that the save of p is about to leave breaks a unique column.
Collides(p) ==
  LET r == IF call[p].at = "update" THEN Written(p) ELSE call[p].entity IN
  r # Null /\ Refused(call[p].id, r)

NewEmployee(email, status) ==
  [email |-> email, status |-> status, active |-> status = "ACTIVE", keycloakId |-> Null]

Files(p, r, at, then) ==
  call' = [call EXCEPT ![p] = [NewCall EXCEPT !.at = at, !.entity = r, !.then = then]]

----------------------------------------------------------------------------
Register(p, email, mode) ==
  /\ call[p] = Idle
  /\ ~HasRow(email)
  /\ IF mode = "AUTO_APPROVED"
     THEN Files(p, NewEmployee(email, "INVITED"), "file", "issue")
     ELSE Files(p, NewEmployee(email, "PENDING"), "file", "idle")
  /\ UNCHANGED row /\ Others

InviteEmployee(p, email) ==
  /\ call[p] = Idle
  /\ ~HasRow(email)
  /\ Files(p, NewEmployee(email, "INVITED"), "file", "issue")
  /\ UNCHANGED row /\ Others

CreateEmployee(p, email, password) ==
  /\ call[p] = Idle
  /\ ~HasRow(email)
  /\ Files(p, NewEmployee(email, "ACTIVE"), IF password THEN "account" ELSE "file", "idle")
  /\ UNCHANGED row /\ Others

InsertEmployee(p, e) ==
  /\ call[p].at = "file"
  /\ e \notin admitted
  /\ ~Collides(p)
  /\ row' = [row EXCEPT ![e] = call[p].entity]
  /\ GoesTo(p, [call[p] EXCEPT !.id = e], call[p].then)
  /\ admitted' = admitted \union {e}
  /\ UNCHANGED <<account, code>>

IssueActivationCode(p, c) ==
  /\ call[p].at = "issue"
  /\ code[c] = Null
  /\ code' = [code EXCEPT ![c] = call[p].id]
  /\ GoesTo(p, call[p], "idle")
  /\ UNCHANGED <<row, account, admitted>>

\* Redis forgets a code after seven days.
ExpireCode(c) ==
  /\ code[c] \in Employees
  /\ code' = [code EXCEPT ![c] = Gone(@, "expired")]
  /\ UNCHANGED <<saveVars, account, admitted>>

ApproveRegistration(p, e) ==
  /\ call[p] = Idle
  /\ row[e] # Null
  /\ row[e].status = "PENDING"
  /\ call' = [call EXCEPT ![p] =
       Saving(NewCall, e, [row[e] EXCEPT !.status = "INVITED"], "issue")]
  /\ UNCHANGED row /\ Others

\* The row is found, then deleted by its id.  The status is not looked at.
RejectRegistration(p, e) ==
  /\ call[p] = Idle
  /\ row[e] # Null
  /\ row[e].status \in Rejectable
  /\ call' = [call EXCEPT ![p] = [NewCall EXCEPT !.at = "delete", !.id = e]]
  /\ UNCHANGED row /\ Others

DeleteRegistration(p) ==
  /\ call[p].at = "delete"
  /\ row' = [row EXCEPT ![call[p].id] = Null]
  /\ GoesTo(p, call[p], "idle")
  /\ Others

AcceptInvite(p, c) ==
  /\ call[p] = Idle
  /\ code[c] \in Rows
  /\ call' = [call EXCEPT ![p] = [NewCall EXCEPT !.at = "spend", !.id = code[c],
       !.holds = c, !.entity = [row[code[c]] EXCEPT !.status = "ACTIVE", !.active = TRUE]]]
  /\ UNCHANGED row /\ Others

SpendCode(p) ==
  /\ call[p].at = "spend"
  /\ code' = [code EXCEPT ![call[p].holds] = Gone(call[p].id, "spent")]
  /\ call' = [call EXCEPT ![p].at = "account", ![p].holds = Null]
  /\ UNCHANGED <<row, account, admitted>>

\* An accepted invitation saves its row, a created employee is a new one.
Links(p, a) ==
  call' = [call EXCEPT ![p].entity.keycloakId = a,
                       ![p].at = IF call[p].id = Null THEN "file" ELSE "compare"]

CreateAccount(p, a) ==
  /\ call[p].at = "account"
  /\ account[a] = Null
  /\ AccountsOf(call[p].entity.email) = {}
  /\ account' = [account EXCEPT ![a] = call[p].entity.email]
  /\ Links(p, a)
  /\ UNCHANGED <<row, code, admitted>>

\* create() takes over the account that an earlier attempt left behind.
ReattachAccount(p) ==
  /\ call[p].at = "account"
  /\ call[p].id = Null
  /\ \E a \in AccountsOf(call[p].entity.email) : Links(p, a)
  /\ UNCHANGED row /\ Others

\* Keycloak answers 409, or does not answer.
AccountFails(p) ==
  /\ call[p].at = "account"
  /\ \/ "keycloak" \in Faults
     \/ call[p].id # Null /\ AccountsOf(call[p].entity.email) # {}
  /\ Fails(p)
  /\ Others

----------------------------------------------------------------------------
\* update(): the e-mail is changed in Keycloak before the row is saved.  Null is
\* a request that leaves the flag alone.
UpdateEmployee(p, e, email, active) ==
  /\ call[p] = Idle
  /\ row[e] # Null
  /\ email # row[e].email => ~HasRow(email)
  /\ LET c == Saving(NewCall, e, [row[e] EXCEPT !.email = email, !.active = IF active = Null THEN @ ELSE active],
                     "idle") IN
     call' = [call EXCEPT ![p] =
       IF email = row[e].email \/ row[e].keycloakId = Null THEN c
       ELSE [c EXCEPT !.at = "rename", !.holds = row[e].email]]
  /\ UNCHANGED row /\ Others

\* updateUserEmail refuses an e-mail of another account.
Renames(p, email) ==
  /\ AccountsOf(email) \subseteq {call[p].entity.keycloakId}
  /\ account' = [account EXCEPT ![call[p].entity.keycloakId] = email]

RenameAccount(p) ==
  /\ call[p].at = "rename"
  /\ Renames(p, call[p].entity.email)
  /\ call' = [call EXCEPT ![p].at = "compare"]
  /\ UNCHANGED <<row, code, admitted>>

RenameFails(p) ==
  /\ call[p].at = "rename"
  /\ \/ "keycloak" \in Faults
     \/ ~(AccountsOf(call[p].entity.email) \subseteq {call[p].entity.keycloakId})
  /\ Fails(p)
  /\ Others

Deactivate(p, e) ==
  /\ call[p] = Idle
  /\ row[e] # Null
  /\ call' = [call EXCEPT ![p] =
       Saving(NewCall, e, [row[e] EXCEPT !.active = FALSE], "idle")]
  /\ UNCHANGED row /\ Others

SaveEmployee(p) ==
  /\ \/ CompareSave(p)
     \/ call[p].at = "update" /\ ~Collides(p) /\ UpdateSave(p, TRUE)
     \/ call[p].at = "insert" /\ ~Collides(p) /\ InsertSave(p)
  /\ Others

\* Mutant of SaveRefused: an e-mail changed in Keycloak is not restored.
SaveRefusedOnly(p) ==
  /\ call[p].at \in {"file", "update", "insert"}
  /\ "save" \in Faults \/ Collides(p)
  /\ GoesTo(p, call[p], "idle")
  /\ UNCHANGED row /\ Others

\* The database refuses the row, or is away.
SaveRefused(p) ==
  /\ call[p].at \in {"file", "update", "insert"}
  /\ "save" \in Faults \/ Collides(p)
  /\ GoesTo(p, call[p], IF call[p].holds = Null THEN "idle" ELSE "restore")
  /\ UNCHANGED row /\ Others

RestoreAccount(p) ==
  /\ call[p].at = "restore"
  /\ Renames(p, call[p].holds)
  /\ GoesTo(p, call[p], "idle")
  /\ UNCHANGED <<row, code, admitted>>

\* The failure is logged.
RestoreFails(p) ==
  /\ call[p].at = "restore"
  /\ \/ "keycloak" \in Faults
     \/ ~(AccountsOf(call[p].holds) \subseteq {call[p].entity.keycloakId})
  /\ Fails(p)
  /\ Others

OnboardingCrash(p) == "crash" \in Faults /\ Crash(p) /\ Others

----------------------------------------------------------------------------
OnboardingInit ==
  /\ row = [e \in Employees |-> Null]
  /\ call = [p \in Calls |-> Idle]
  /\ account = [a \in Accounts |-> Null]
  /\ code = [c \in Codes |-> Null]
  /\ admitted = {}

Admission(p) ==
  \/ \E email \in Emails :
       \/ \E mode \in {"APPROVAL", "AUTO_APPROVED"} : Register(p, email, mode)
       \/ InviteEmployee(p, email)
       \/ \E password \in BOOLEAN : CreateEmployee(p, email, password)
  \/ \E e \in Employees :
       InsertEmployee(p, e) \/ ApproveRegistration(p, e) \/ RejectRegistration(p, e)
  \/ DeleteRegistration(p)
  \/ \E c \in Codes : IssueActivationCode(p, c) \/ AcceptInvite(p, c)
  \/ SpendCode(p)
  \/ \E a \in Accounts : CreateAccount(p, a)
  \/ ReattachAccount(p) \/ AccountFails(p)

Administration(p) ==
  \/ \E e \in Employees :
       \/ Deactivate(p, e)
       \/ \E email \in Emails, active \in Flags \union {Null} : UpdateEmployee(p, e, email, active)
  \/ RenameAccount(p) \/ RenameFails(p)
  \/ SaveEmployee(p) \/ SaveRefused(p)
  \/ RestoreAccount(p) \/ RestoreFails(p)
  \/ OnboardingCrash(p)

OnboardingNext ==
  \/ \E p \in Calls : Admission(p) \/ Administration(p)
  \/ \E c \in Codes : ExpireCode(c)

OnboardingSpec == OnboardingInit /\ [][OnboardingNext]_onboardingVars

----------------------------------------------------------------------------
AtRest == \A p \in Calls : call[p] = Idle

\* Between calls the account of an employee has the e-mail of the row, with
\* which the employee logs in: update() restores it when the save is refused.
AccountsAgree ==
  AtRest => \A e \in Rows :
    row[e].keycloakId # Null => account[row[e].keycloakId] = row[e].email

\* Between calls whoever is invited got a code that nobody spent: only its seven
\* days may be over.
InvitedUntilExpiry ==
  AtRest => \A e \in Rows : row[e].status = "INVITED" =>
    \E c \in Codes : code[c] \in {e, Gone(e, "expired")}

\* Between calls whoever is invited has a code left to become active with.
\* The code does not keep this (README, section 5).
InvitedCanActivate ==
  AtRest => \A e \in Rows : row[e].status = "INVITED" => \E c \in Codes : code[c] = e

\* Two employees never share an account, although create() takes over whatever
\* account has the e-mail.
OneAccountEach ==
  \A e \in Rows : \A x \in Rows \ {e} :
    row[e].keycloakId # Null => row[e].keycloakId # row[x].keycloakId

\* As a step: a registration becomes active only after it was approved.
ApprovedBeforeActive ==
  \A e \in Rows : row[e].status = "PENDING" /\ row'[e] # Null
    => row'[e].status # "ACTIVE"

\* A rejection deletes registrations that are pending and no one else.
\* The code does not keep this (README, section 5).
OnlyPendingDeleted ==
  [][\A e \in Rows : row'[e] = Null => row[e].status = "PENDING"]_row

\* A registration that was rejected does not come back.
\* The code does not keep this (README, section 5).
RejectedIsGone == [][\A e \in admitted : row[e] = Null => row'[e] = Null]_row

=============================================================================
