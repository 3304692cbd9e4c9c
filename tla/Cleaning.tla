------------------------------- MODULE Cleaning -----------------------------
(***************************************************************************)
(* The cleaning tasks of a branch.  A claim is one conditional UPDATE; an  *)
(* assignment and the other transitions find the task and save it.  Who    *)
(* may call what is left out, but for the agent a task is given to.        *)
(***************************************************************************)
EXTENDS Saves

CONSTANTS
  CleaningTasks,
  Agents

\* The columns of a task.
TaskRecords ==
  [status : {"PENDING", "ASSIGNED", "IN_PROGRESS", "DONE", "VERIFIED"},
   assigned : Agents \union {Null}, zone : BOOLEAN]

\* NULL is no agent, and no row looks like a missing one.
CleaningAssumption == Null \notin Agents \union TaskRecords

\* The transitions of the table that an endpoint asks for.
CleaningFrom == [IN_PROGRESS |-> {"ASSIGNED", "DONE"},
                 DONE |-> {"IN_PROGRESS"},
                 VERIFIED |-> {"DONE"}]

NewTask(assigned, zone) ==
  [status |-> IF assigned = Null THEN "PENDING" ELSE "ASSIGNED",
   assigned |-> assigned, zone |-> zone]

CreateTask(t, assigned, zone) ==
  /\ row[t] = Null
  /\ row' = [row EXCEPT ![t] = NewTask(assigned, zone)]
  /\ UNCHANGED call

\* claimAndStart: of a pending task of a zone, that nobody has.
ClaimAndStart(t, e) ==
  /\ row[t] # Null
  /\ row[t].status = "PENDING"
  /\ row[t].assigned = Null
  /\ row[t].zone
  /\ row' = [row EXCEPT ![t].assigned = e, ![t].status = "IN_PROGRESS"]
  /\ UNCHANGED call

AssignTask(p, t, e) ==
  /\ call[p] = Idle
  /\ row[t] # Null
  /\ row[t].status \notin {"DONE", "VERIFIED", "CANCELLED"}
  /\ call' = [call EXCEPT ![p] = Saving(NewCall, t,
       [row[t] EXCEPT !.assigned = e, !.status = "ASSIGNED"], "idle")]
  /\ UNCHANGED row

TransitionTask(p, t, status) ==
  /\ call[p] = Idle
  /\ row[t] # Null
  /\ row[t].status \in CleaningFrom[status]
  /\ call' = [call EXCEPT ![p] =
       Saving(NewCall, t, [row[t] EXCEPT !.status = status], "idle")]
  /\ UNCHANGED row

CleaningInit ==
  /\ row = [t \in CleaningTasks |-> Null]
  /\ call = [p \in Calls |-> Idle]

CleaningNext ==
  \/ \E t \in CleaningTasks, e \in Agents \union {Null}, zone \in BOOLEAN :
       CreateTask(t, e, zone)
  \/ \E t \in CleaningTasks, e \in Agents :
       ClaimAndStart(t, e) \/ \E p \in Calls : AssignTask(p, t, e)
  \/ \E p \in Calls :
       \/ \E t \in CleaningTasks, status \in DOMAIN CleaningFrom :
            TransitionTask(p, t, status)
       \/ CompareSave(p) \/ UpdateSave(p, TRUE) \/ Crash(p)

CleaningSpec == CleaningInit /\ [][CleaningNext]_saveVars

----------------------------------------------------------------------------
\* Whatever is written back over what: a task that was started or done has an
\* agent, and only an untouched one has none.
StartedHasAgent ==
  \A t \in CleaningTasks :
    row[t] # Null => (row[t].assigned = Null <=> row[t].status = "PENDING")

\* The table has no way out of VERIFIED, and assign refuses a completed task.
\* The code does not keep this (README, section 5).
VerifiedIsFinal ==
  \A t \in CleaningTasks :
    row[t] # Null /\ row[t].status = "VERIFIED" => row'[t].status = "VERIFIED"

=============================================================================
