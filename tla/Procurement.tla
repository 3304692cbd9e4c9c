---------------------------- MODULE Procurement ----------------------------
(***************************************************************************)
(* Purchase orders of one line: the validation chain, whose steps read and *)
(* save without a lock, the edit of a draft, which deletes its lines in a  *)
(* statement of its own first, and the reception, which never succeeds.    *)
(*                                                                         *)
(* The lines of an order are loaded and saved with it (eager, cascade), so *)
(* a stale save writes old lines back as well as a status.  An order whose *)
(* line is deleted is one that orders 0.                                   *)
(***************************************************************************)
EXTENDS Saves

CONSTANTS
  OrderIds,
  MaxOrdered   \* bound of an ordered quantity

VARIABLES
  submitted,   \* what each order asked for when it was last submitted
  refused      \* statuses in which a reception was refused

procurementVars == <<row, call, submitted, refused>>

Statuses == {"DRAFT", "PENDING_VALIDATION", "VALIDATED", "SENT",
             "PARTIALLY_RECEIVED", "RECEIVED", "CANCELLED"}

OrderRecords == [status : Statuses, ordered : 0..MaxOrdered]

\* No row looks like a missing one.
ProcurementAssumption ==
  /\ MaxOrdered \in Nat
  /\ Null \notin OrderRecords

In(o, statuses) == row[o] # Null /\ row[o].status \in statuses

\* find, then a new status in memory; a save follows.
Change(p, o, from, to) ==
  /\ call[p] = Idle
  /\ In(o, from)
  /\ call' = [call EXCEPT
       ![p] = Saving(NewCall, o, [row[o] EXCEPT !.status = to], "idle")]
  /\ UNCHANGED <<row, refused>>

CreateOrder(o, n) ==
  /\ row[o] = Null
  /\ row' = [row EXCEPT ![o] = [status |-> "DRAFT", ordered |-> n]]
  /\ UNCHANGED <<call, submitted, refused>>

Submit(p, o) ==
  /\ Change(p, o, {"DRAFT"}, "PENDING_VALIDATION")
  /\ submitted' = [submitted EXCEPT ![o] = row[o].ordered]

Validate(p, o) == Change(p, o, {"PENDING_VALIDATION"}, "VALIDATED") /\ UNCHANGED submitted
Reject(p, o)   == Change(p, o, {"PENDING_VALIDATION"}, "DRAFT") /\ UNCHANGED submitted
Send(p, o)     == Change(p, o, {"DRAFT", "VALIDATED"}, "SENT") /\ UNCHANGED submitted
Cancel(p, o) ==
  Change(p, o, Statuses \ {"RECEIVED", "CANCELLED"}, "CANCELLED") /\ UNCHANGED submitted

\* Mutant of EditDraft: an order that waits for its validation can be edited.
EditUnsent(p, o, n) ==
  /\ call[p] = Idle
  /\ In(o, {"DRAFT", "PENDING_VALIDATION"})
  /\ call' = [call EXCEPT
       ![p] = [Saving(NewCall, o, [row[o] EXCEPT !.ordered = n], "idle") EXCEPT !.at = "delete"]]
  /\ UNCHANGED <<row, submitted, refused>>

\* updateDraft deletes the lines of a draft in a statement of its own ...
EditDraft(p, o, n) ==
  /\ call[p] = Idle
  /\ In(o, {"DRAFT"})
  /\ call' = [call EXCEPT
       ![p] = [Saving(NewCall, o, [row[o] EXCEPT !.ordered = n], "idle") EXCEPT !.at = "delete"]]
  /\ UNCHANGED <<row, submitted, refused>>

\* ... and saves the order with the new ones.
DeleteLines(p) ==
  /\ call[p].at = "delete"
  /\ row' = [row EXCEPT ![call[p].id].ordered = 0]
  /\ GoesTo(p, call[p], "compare")
  /\ UNCHANGED <<submitted, refused>>

SaveOrder(p) ==
  /\ CompareSave(p) \/ UpdateSave(p, TRUE)
  /\ UNCHANGED <<submitted, refused>>

\* receiveAtomic: findOne joins the eager lines, and PostgreSQL refuses FOR
\* UPDATE on the nullable side of an outer join (the comment of Order.lines
\* says so of this combination).  The transaction ends before it reads a
\* status or a line; nothing it would have done is modelled.
Receive(o) ==
  /\ row[o] # Null
  /\ refused' = refused \union {row[o].status}
  /\ UNCHANGED <<row, call, submitted>>

----------------------------------------------------------------------------
ProcurementInit ==
  /\ row = [o \in OrderIds |-> Null]
  /\ call = [p \in Calls |-> Idle]
  /\ submitted = [o \in OrderIds |-> 0]
  /\ refused = {}

\* The lines of a request; a request without lines asks for 0.
Quantities == 0..MaxOrdered

ProcurementNext ==
  \/ \E o \in OrderIds, n \in Quantities : CreateOrder(o, n)
  \/ \E p \in Calls, o \in OrderIds :
       \/ Submit(p, o)
       \/ Validate(p, o)
       \/ Reject(p, o)
       \/ Send(p, o)
       \/ Cancel(p, o)
       \/ \E n \in Quantities : EditDraft(p, o, n)
  \/ \E p \in Calls :
       \/ DeleteLines(p)
       \/ SaveOrder(p)
       \/ Crash(p) /\ UNCHANGED <<submitted, refused>>
  \/ \E o \in OrderIds : Receive(o)

ProcurementSpec == ProcurementInit /\ [][ProcurementNext]_procurementVars

----------------------------------------------------------------------------
\* The columns keep their types.
ProcurementTypeOK ==
  /\ \A o \in OrderIds : row[o] \in OrderRecords \union {Null}
  /\ submitted \in [OrderIds -> 0..MaxOrdered]
  /\ refused \subseteq Statuses

\* An order that was validated has the lines that were submitted, although an
\* edit deletes them before it saves, and may stop in between.
ValidatedAsSubmitted ==
  \A o \in OrderIds :
    In(o, {"PENDING_VALIDATION", "VALIDATED"}) => row[o].ordered = submitted[o]

\* Goods that arrive can be entered unless their order was cancelled.
\* The code does not keep this (README, section 5).
OnlyCancelledIsRefused == refused \subseteq {"CANCELLED"}

\* An order that is sent orders something.
\* The code does not keep this (README, section 5).
SentOrdersSomething == \A o \in OrderIds : In(o, {"SENT"}) => row[o].ordered > 0

\* An order that waits for its validation is not sent.
\* The code does not keep this (README, section 5).
PendingIsNotSent ==
  [][\A o \in OrderIds : In(o, {"PENDING_VALIDATION"}) => row'[o].status # "SENT"]_procurementVars

=============================================================================
