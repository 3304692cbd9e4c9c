-------------------------- MODULE OfflineDeliveries -------------------------
(***************************************************************************)
(* The proofs of delivery that the application of the hospitality agents   *)
(* keeps when it cannot reach the API.  A proof is sent when the agent     *)
(* confirms; when that fails it is stored on the device, and every flush   *)
(* sends all that is stored and stores what failed again.  The API commits *)
(* the task first and then the order, which it may refuse: others report   *)
(* incidents and resolve them in the meantime.  It recognises a proof that *)
(* a delivered task has recorded by its clientRequestId.  A call may time  *)
(* out while its request is still on its way, and the application may be   *)
(* killed.                                                                 *)
(***************************************************************************)
EXTENDS Naturals, Sequences, SequencesExt, FiniteSets

CONSTANTS
  Proofs,   \* each with a clientRequestId of its own
  TaskOf,   \* the delivery task of each proof
  Flushes,  \* the flushes that run at once
  Nobody,   \* no proof; and nobody who waits for an answer any more
  MaxKills  \* bound: how often the application is killed

OfflineAssumption ==
  /\ Nobody \notin Proofs \union Flushes
  /\ Proofs \intersect Flushes = {}
  /\ MaxKills \in Nat

Tasks == {TaskOf[p] : p \in Proofs}

VARIABLES
  stored,   \* the queue in SecureStore
  press,    \* of each proof: where its first call or its enqueue stands
  copy,     \* the queue an enqueue has read
  flush,    \* each flush: the queue it has read, what is left of it, what failed
  wire,     \* the requests that the API has not finished
  task,     \* the status of each task, and its deliveryRequestId
  order,    \* the order of each task
  previous, \* the previousOrderStatus of each task
  saved,    \* history: the proofs that were stored
  closed,   \* history: the proofs whose request ended with a delivered order
  kills

deviceVars == <<stored, press, copy, flush, saved>>
serverVars == <<task, order, previous, closed>>
offlineVars == <<deviceVars, wire, serverVars, kills>>

NoFlush == [at |-> "idle", left |-> <<>>, failed |-> <<>>]

Request(c, p) == [by |-> c, proof |-> p, at |-> "sent"]

Left(r) == wire \ {r}

\* The agent confirms: one call of this kind at once.
Press(p) ==
  /\ press[p] = "none"
  /\ \A q \in Proofs : press[q] # "sending"
  /\ press' = [press EXCEPT ![p] = "sending"]
  /\ wire' = wire \union {Request(p, p)}
  /\ UNCHANGED <<stored, copy, flush, saved, serverVars, kills>>

\* enqueue: the queue is read,
EnqueueRead(p) ==
  /\ press[p] = "failed"
  /\ press' = [press EXCEPT ![p] = "enqueue"]
  /\ copy' = [copy EXCEPT ![p] = stored]
  /\ UNCHANGED <<stored, flush, saved, wire, serverVars, kills>>

\* and written with the proof.
EnqueueWrite(p) ==
  /\ press[p] = "enqueue"
  /\ press' = [press EXCEPT ![p] = "over"]
  /\ stored' = IF p \in ToSet(copy[p]) THEN stored ELSE Append(copy[p], p)
  /\ copy' = [copy EXCEPT ![p] = <<>>]
  /\ saved' = saved \union {p}
  /\ UNCHANGED <<flush, wire, serverVars, kills>>

\* The network is back, the application starts, or the banner is pressed.
FlushStart(f) ==
  /\ flush[f].at = "idle"
  /\ stored # <<>>
  /\ flush' = [flush EXCEPT ![f] = [at |-> "next", left |-> stored, failed |-> <<>>]]
  /\ UNCHANGED <<stored, press, copy, saved, wire, serverVars, kills>>

FlushSend(f) ==
  /\ flush[f].at = "next"
  /\ flush[f].left # <<>>
  /\ flush' = [flush EXCEPT ![f].at = "sending"]
  /\ wire' = wire \union {Request(f, Head(flush[f].left))}
  /\ UNCHANGED <<stored, press, copy, saved, serverVars, kills>>

FlushWrite(f) ==
  /\ flush[f].at = "next"
  /\ flush[f].left = <<>>
  /\ stored' = flush[f].failed
  /\ flush' = [flush EXCEPT ![f] = NoFlush]
  /\ UNCHANGED <<press, copy, saved, wire, serverVars, kills>>

\* The call of c comes to its end, well or not.
Told(c, ok) ==
  /\ press' = IF c \in Proofs
              THEN [press EXCEPT ![c] = IF ok THEN "over" ELSE "failed"] ELSE press
  /\ flush' = IF c \in Flushes
              THEN [flush EXCEPT ![c] =
                     [at |-> "next", left |-> Tail(@.left),
                      failed |-> IF ok THEN @.failed ELSE Append(@.failed, Head(@.left))]]
              ELSE flush
  /\ UNCHANGED <<stored, copy, saved>>

\* A timeout, or no network: the request may still arrive.
TimeOut(r) ==
  /\ r.by # Nobody
  /\ Told(r.by, FALSE)
  /\ wire' = Left(r) \union {[r EXCEPT !.by = Nobody]}
  /\ UNCHANGED <<serverVars, kills>>

\* A request that nobody waits for any more is lost, or the server stops.
Vanish(r) ==
  /\ r.by = Nobody
  /\ wire' = Left(r)
  /\ UNCHANGED <<deviceVars, serverVars, kills>>

Recorded(p) == task[TaskOf[p]] = [status |-> "DELIVERED", proof |-> p]

\* Mutant of CommitTask: a delivered task takes the proof of any call.
CommitAnyTask(r) ==
  /\ r.at = "sent"
  /\ task[TaskOf[r.proof]].status # "ISSUE_REPORTED"
  /\ task' = [task EXCEPT ![TaskOf[r.proof]] =
                [status |-> "DELIVERED", proof |-> r.proof]]
  /\ wire' = Left(r) \union {[r EXCEPT !.at = "committed"]}
  /\ UNCHANGED <<deviceVars, order, previous, closed, kills>>

\* The transaction of the task: a proof it has recorded is accepted again.
CommitTask(r) ==
  /\ r.at = "sent"
  /\ Recorded(r.proof) \/ task[TaskOf[r.proof]].status = "ARRIVED"
  /\ task' = [task EXCEPT ![TaskOf[r.proof]] =
                [status |-> "DELIVERED", proof |-> r.proof]]
  /\ wire' = Left(r) \union {[r EXCEPT !.at = "committed"]}
  /\ UNCHANGED <<deviceVars, order, previous, closed, kills>>

\* invalidDeliveryTransition.
RefuseTask(r) ==
  /\ r.at = "sent"
  /\ ~ Recorded(r.proof)
  /\ task[TaskOf[r.proof]].status # "ARRIVED"
  /\ wire' = Left(r)
  /\ IF r.by = Nobody THEN UNCHANGED deviceVars ELSE Told(r.by, FALSE)
  /\ UNCHANGED <<serverVars, kills>>

\* Mutant of CommitOrder: the answer does not wait for the order.
AnswerFirst(r) ==
  /\ r.at = "committed"
  /\ wire' = Left(r)
  /\ IF r.by = Nobody THEN UNCHANGED deviceVars ELSE Told(r.by, TRUE)
  /\ UNCHANGED <<serverVars, kills>>

\* orders.updateStatus, which does nothing for a delivered order; the answer.
CommitOrder(r) ==
  /\ r.at = "committed"
  /\ order[TaskOf[r.proof]] \in {"READY", "DELIVERED"}
  /\ order' = [order EXCEPT ![TaskOf[r.proof]] = "DELIVERED"]
  /\ closed' = closed \union {r.proof}
  /\ wire' = Left(r)
  /\ IF r.by = Nobody THEN UNCHANGED deviceVars ELSE Told(r.by, TRUE)
  /\ UNCHANGED <<task, previous, kills>>

\* It refuses every other status; the task keeps the proof.
RefuseOrder(r) ==
  /\ r.at = "committed"
  /\ order[TaskOf[r.proof]] \notin {"READY", "DELIVERED"}
  /\ wire' = Left(r)
  /\ IF r.by = Nobody THEN UNCHANGED deviceVars ELSE Told(r.by, FALSE)
  /\ UNCHANGED <<serverVars, kills>>

-----------------------------------------------------------------------------
(***************************************************************************)
(* What others do to the task and its order meanwhile: see Delivery        *)
(***************************************************************************)

OnlyTheDelivery == UNCHANGED <<deviceVars, wire, closed, kills>>

\* reportOrderIssue: the status of the order is recorded by the first report
\* of an incident only.
ReportOrderIssue(t) ==
  /\ order[t] \notin {"DELIVERED", "REJECTED"}
  /\ task' = [task EXCEPT ![t].status = "ISSUE_REPORTED"]
  /\ previous' = [previous EXCEPT ![t] =
                    IF task[t].status = "ISSUE_REPORTED" THEN @ ELSE order[t]]
  /\ order' = [order EXCEPT ![t] = "ON_HOLD"]
  /\ OnlyTheDelivery

ReportTaskIssue(t) ==
  /\ task[t].status \in {"OUT_FOR_DELIVERY", "ARRIVED"}
  /\ task' = [task EXCEPT ![t].status = "ISSUE_REPORTED"]
  /\ UNCHANGED <<order, previous>> /\ OnlyTheDelivery

\* The incident ends, and the order goes back to the status that was recorded,
Resume(t) ==
  /\ task[t].status = "ISSUE_REPORTED"
  /\ task' = [task EXCEPT ![t].status = "OUT_FOR_DELIVERY"]
  /\ order' = IF previous[t] = "NONE" THEN order ELSE [order EXCEPT ![t] = previous[t]]
  /\ UNCHANGED previous /\ OnlyTheDelivery

\* or is rejected.
GiveUp(t) ==
  /\ task[t].status = "ISSUE_REPORTED"
  /\ task' = [task EXCEPT ![t].status = "RETURNED"]
  /\ order' = IF previous[t] = "NONE" THEN order ELSE [order EXCEPT ![t] = "REJECTED"]
  /\ UNCHANGED previous /\ OnlyTheDelivery

Arrive(t) ==
  /\ task[t].status = "OUT_FOR_DELIVERY"
  /\ task' = [task EXCEPT ![t].status = "ARRIVED"]
  /\ UNCHANGED <<order, previous>> /\ OnlyTheDelivery

\* updateStatus by others: an order on hold is prepared again, a ready one
\* delivered.
OrderMoves(t) ==
  /\ \E old, new \in {"ON_HOLD", "READY", "DELIVERED"} :
       /\ <<old, new>> \in {<<"ON_HOLD", "READY">>, <<"READY", "DELIVERED">>}
       /\ order[t] = old
       /\ order' = [order EXCEPT ![t] = new]
  /\ UNCHANGED <<task, previous>> /\ OnlyTheDelivery

-----------------------------------------------------------------------------
\* Only what is in SecureStore is left.
Kill ==
  /\ kills < MaxKills
  /\ kills' = kills + 1
  /\ press' = [p \in Proofs |-> IF press[p] = "none" THEN "none" ELSE "over"]
  /\ copy' = [p \in Proofs |-> <<>>]
  /\ flush' = [f \in Flushes |-> NoFlush]
  /\ wire' = {[r EXCEPT !.by = Nobody] : r \in wire}
  /\ UNCHANGED <<stored, saved, serverVars>>

OfflineInit ==
  /\ stored = <<>>
  /\ press = [p \in Proofs |-> "none"]
  /\ copy = [p \in Proofs |-> <<>>]
  /\ flush = [f \in Flushes |-> NoFlush]
  /\ wire = {}
  /\ task = [t \in Tasks |-> [status |-> "ARRIVED", proof |-> Nobody]]
  /\ order = [t \in Tasks |-> "READY"]
  /\ previous = [t \in Tasks |-> "NONE"]
  /\ saved = {}
  /\ closed = {}
  /\ kills = 0

DeviceNext ==
  \/ \E p \in Proofs : Press(p) \/ EnqueueRead(p) \/ EnqueueWrite(p)
  \/ \E f \in Flushes : FlushStart(f) \/ FlushSend(f) \/ FlushWrite(f)
  \/ Kill

NetworkNext == \E r \in wire : TimeOut(r) \/ Vanish(r)

ServerNext ==
  \/ \E r \in wire : CommitTask(r) \/ RefuseTask(r) \/ CommitOrder(r) \/ RefuseOrder(r)
  \/ \E t \in Tasks :
       \/ ReportOrderIssue(t) \/ ReportTaskIssue(t) \/ Resume(t) \/ GiveUp(t)
       \/ Arrive(t) \/ OrderMoves(t)

OfflineNext == DeviceNext \/ NetworkNext \/ ServerNext

OfflineSpec == OfflineInit /\ [][OfflineNext]_offlineVars

-----------------------------------------------------------------------------
OfflineTypeOK ==
  /\ stored \in Seq(Proofs)
  /\ press \in [Proofs -> {"none", "sending", "failed", "enqueue", "over"}]
  /\ \A f \in Flushes :
       /\ flush[f].at \in {"idle", "next", "sending"}
       /\ flush[f].at = "sending" => \E r \in wire : r.by = f /\ r.proof = Head(flush[f].left)
  /\ wire \subseteq [by : Proofs \union Flushes \union {Nobody}, proof : Proofs,
                     at : {"sent", "committed"}]
  /\ \A p \in Proofs : press[p] = "sending" <=> \E r \in wire : r.by = p
  /\ task \in [Tasks -> [status : {"OUT_FOR_DELIVERY", "ARRIVED", "DELIVERED",
                                   "ISSUE_REPORTED", "RETURNED"},
                         proof : Proofs \union {Nobody}]]
  /\ order \in [Tasks -> {"READY", "ON_HOLD", "DELIVERED", "REJECTED"}]
  /\ previous \in [Tasks -> {"NONE", "READY", "ON_HOLD"}]

\* What the banner counts as stored safely leaves the device only after a
\* request with that proof has recorded it in the task and ended with the order
\* delivered, whatever fails, is refused, comes late or ends in between.
StoredUntilDelivered ==
  \A p \in saved :
    p \in ToSet(stored) \/ (p \in closed /\ task[TaskOf[p]].proof # Nobody)

\* As a step: however late or often calls come, the recipient that a task has
\* recorded is replaced, or the task opened again, only when an incident of its
\* order was reported.
ProofStays ==
  \A t \in Tasks :
    task[t].status = "DELIVERED" /\ previous'[t] = "NONE" => task'[t] = task[t]

\* A recorded recipient is never replaced.
\* The code does not keep this (README, section 5).
FirstProofStays ==
  \A t \in Tasks : task[t].proof # Nobody => task'[t].proof = task[t].proof

\* What waits to be synchronised is synchronised in the end.
\* The code does not keep this (README, section 5).
StoredEmpties == \A p \in Proofs : p \in ToSet(stored) ~> p \notin ToSet(stored)
=============================================================================
