------------------------------- MODULE Meetings -----------------------------
(***************************************************************************)
(* The bookings of one meeting room, the preparation of each and the       *)
(* cleaning task its completion leaves.  The table of bookings refuses two *)
(* that overlap; a preparation is found and saved without a lock.  The     *)
(* removal of the room, which takes its bookings and preparations with it  *)
(* (a completion that waits then leaves nothing to clean), is left out.    *)
(***************************************************************************)
EXTENDS Cleaning, Naturals

CONSTANTS
  Bookings,
  Checklist,   \* the marks to set before a room is ready
  LastHour     \* bookings lie between 0 and LastHour

VARIABLE team  \* the participants of each preparation

meetingVars == <<saveVars, team>>

Prep(b) == <<"preparation", b>>
Clean(b) == <<"cleaning", b>>
Hours == 0..LastHour
Done == {"COMPLETED", "VERIFIED"}

\* The columns of a booking and of a preparation.
BookingRecords ==
  [status : {"CONFIRMED", "CANCELLED"}, start : Hours, end : Hours, services : {0, 1}]

PreparationRecords ==
  [status : {"PENDING", "ASSIGNED", "IN_PROGRESS", "READY"} \union Done,
   assigned : Agents \union {Null}, marks : SUBSET Checklist]

\* The ids of a booking, its preparation and its cleaning differ, and no row
\* looks like a missing one.
MeetingAssumption ==
  /\ \A b, x \in Bookings : b # Prep(x) /\ b # Clean(x)
  /\ CleaningTasks = {Clean(b) : b \in Bookings}
  /\ Null \notin BookingRecords \union PreparationRecords \union TaskRecords

----------------------------------------------------------------------------
Confirmed == {b \in Bookings : row[b] # Null /\ row[b].status = "CONFIRMED"}

Overlap(x, y) == x.start < y.end /\ y.start < x.end

\* Mutant of Excluded: the constraint of the table is missing.
NothingExcluded(b, r) == FALSE

\* The EXCLUDE constraint on [start, end) of the confirmed bookings.
Excluded(b, r) ==
  /\ r.status = "CONFIRMED"
  /\ \E x \in Confirmed \ {b} : Overlap(row[x], r)

\* createBooking looks for a conflict, then inserts.
CreateBooking(p, start, end) ==
  LET r == [status |-> "CONFIRMED", start |-> start, end |-> end, services |-> 0] IN
  /\ call[p] = Idle
  /\ start < end
  /\ \A b \in Confirmed : ~Overlap(row[b], r)
  /\ call' = [call EXCEPT ![p] = [NewCall EXCEPT !.at = "book", !.entity = r]]
  /\ UNCHANGED <<row, team>>

InsertBooking(p, b) ==
  /\ call[p].at = "book"
  /\ row[b] = Null
  /\ IF Excluded(b, call[p].entity)
     THEN Fails(p)
     ELSE row' = [row EXCEPT ![b] = call[p].entity] /\ GoesTo(p, call[p], "idle")
  /\ UNCHANGED team

CancelBooking(p, b) ==
  /\ call[p] = Idle
  /\ row[b] # Null
  /\ call' = [call EXCEPT ![p] =
       Saving(NewCall, b, [row[b] EXCEPT !.status = "CANCELLED"], "idle")]
  /\ UNCHANGED <<row, team>>

OrderServices(p, b) ==
  /\ call[p] = Idle
  /\ b \in Confirmed
  /\ call' = [call EXCEPT ![p] =
       Saving(NewCall, b, [row[b] EXCEPT !.services = 1], "idle")]
  /\ UNCHANGED <<row, team>>

\* A save, of a booking subject to the constraint.
SaveMeeting(p) ==
  /\ \/ CompareSave(p)
     \/ UpdateSave(p, call[p].id \in Bookings /\ row[call[p].id] # Null
                      => ~Excluded(call[p].id, Written(p)))
  /\ UNCHANGED team

----------------------------------------------------------------------------
\* The list of preparations creates those that are missing.
ListPreparations(b) ==
  /\ b \in Confirmed
  /\ row[Prep(b)] = Null
  /\ row' = [row EXCEPT ![Prep(b)] =
       [status |-> "PENDING", assigned |-> Null, marks |-> {}]]
  /\ UNCHANGED <<call, team>>

\* The call p saves the preparation of b with these values.
Prepares(p, b, status, assigned, marks) ==
  /\ call[p] = Idle
  /\ call' = [call EXCEPT ![p] = Saving(NewCall, Prep(b),
       [status |-> status, assigned |-> assigned, marks |-> marks], "idle")]
  /\ UNCHANGED <<row, team>>

Assign(p, b, e) ==
  /\ row[Prep(b)] # Null
  /\ row[Prep(b)].status \notin Done
  /\ Prepares(p, b, "ASSIGNED", e, row[Prep(b)].marks)

\* A manager also starts a preparation nobody has.
Start(p, b, e) ==
  LET x == row[Prep(b)] IN
  /\ x # Null
  /\ x.status \in {"PENDING", "ASSIGNED"}
  /\ Prepares(p, b, "IN_PROGRESS", IF x.assigned = Null THEN e ELSE x.assigned, x.marks)

Toggle(p, b, mark) ==
  LET x == row[Prep(b)] IN
  /\ x # Null
  /\ x.status = "IN_PROGRESS"
  /\ Prepares(p, b, x.status, x.assigned,
       IF mark \in x.marks THEN x.marks \ {mark} ELSE x.marks \union {mark})

Ready(p, b) ==
  LET x == row[Prep(b)] IN
  /\ x # Null
  /\ x.status = "IN_PROGRESS"
  /\ x.marks = Checklist
  /\ Prepares(p, b, "READY", x.assigned, x.marks)

Verify(p, b) ==
  LET x == row[Prep(b)] IN
  /\ x # Null
  /\ x.status = "COMPLETED"
  /\ Prepares(p, b, "VERIFIED", x.assigned, x.marks)

\* transition to COMPLETED: without a cleaning task of the booking ...
Complete(p, b) ==
  LET x == row[Prep(b)]
      c == Saving(NewCall, Prep(b), [x EXCEPT !.status = "COMPLETED"], "idle")
  IN
  /\ call[p] = Idle
  /\ x # Null
  /\ x.status = "READY"
  /\ GoesTo(p, c, IF row[Clean(b)] = Null THEN "clean" ELSE "compare")
  /\ UNCHANGED <<row, team>>

\* ... one is created before the preparation is saved; the index on its booking
\* refuses a second one.  It belongs to no zone.
CreateCleanupTask(p, b) ==
  /\ call[p].at = "clean"
  /\ call[p].id = Prep(b)
  /\ IF row[Clean(b)] = Null
     THEN /\ row' = [row EXCEPT ![Clean(b)] = NewTask(Null, FALSE)]
          /\ GoesTo(p, call[p], "compare")
     ELSE Fails(p)
  /\ UNCHANGED team

\* setTeam: checked against the preparation as it was found ...
SetTeam(p, b, members) ==
  LET x == row[Prep(b)] IN
  /\ call[p] = Idle
  /\ x # Null
  /\ x.assigned # Null
  /\ x.assigned \notin members
  /\ x.status \notin Done
  /\ call' = [call EXCEPT ![p] =
       [NewCall EXCEPT !.at = "team", !.id = Prep(b), !.holds = members]]
  /\ UNCHANGED <<row, team>>

\* ... and replaced in a transaction.
ReplaceTeam(p, b) ==
  /\ call[p].at = "team"
  /\ call[p].id = Prep(b)
  /\ team' = [team EXCEPT ![b] = call[p].holds]
  /\ GoesTo(p, call[p], "idle")
  /\ UNCHANGED row

----------------------------------------------------------------------------
MeetingInit ==
  /\ row = [i \in Bookings \union CleaningTasks
                  \union {Prep(b) : b \in Bookings} |-> Null]
  /\ call = [p \in Calls |-> Idle]
  /\ team = [b \in Bookings |-> {}]

BookingNext ==
  \E p \in Calls :
    \/ \E start, end \in Hours : CreateBooking(p, start, end)
    \/ \E b \in Bookings : InsertBooking(p, b) \/ CancelBooking(p, b) \/ OrderServices(p, b)
    \/ SaveMeeting(p)

PreparationNext ==
  \/ \E b \in Bookings : ListPreparations(b)
  \/ \E p \in Calls, b \in Bookings :
       \/ \E e \in Agents : Assign(p, b, e) \/ Start(p, b, e)
       \/ \E mark \in Checklist : Toggle(p, b, mark)
       \/ Ready(p, b) \/ Complete(p, b) \/ CreateCleanupTask(p, b) \/ Verify(p, b)
       \/ \E members \in SUBSET Agents : SetTeam(p, b, members)
       \/ ReplaceTeam(p, b)

MeetingCrash == \E p \in Calls : Crash(p) /\ UNCHANGED team

\* The bookings alone, and with their preparations; a call may crash anywhere.
BookingSpec == MeetingInit /\ [][BookingNext \/ MeetingCrash]_meetingVars
MeetingSpec == MeetingInit /\ [][BookingNext \/ PreparationNext \/ MeetingCrash]_meetingVars

----------------------------------------------------------------------------
\* The room is never booked twice for the same hour.
NoDoubleBooking ==
  \A b \in Confirmed : \A x \in Confirmed \ {b} : ~Overlap(row[b], row[x])

Preparations(statuses) ==
  {b \in Bookings : row[Prep(b)] # Null /\ row[Prep(b)].status \in statuses}

\* A preparation is completed only with a cleaning task for its room, whatever
\* crashes or happens at once.
CompletedLeavesCleaning == \A b \in Preparations(Done) : row[Clean(b)] # Null

\* A room is ready only with every mark of the checklist.
ReadyWasChecked ==
  \A b \in Preparations({"READY"} \union Done) : row[Prep(b)].marks = Checklist

\* The responsible of a preparation is not one of its participants.
\* The code does not keep this (README, section 5).
ResponsibleIsNoParticipant ==
  \A b \in Preparations({"ASSIGNED", "IN_PROGRESS", "READY"}) :
    row[Prep(b)].assigned \notin team[b]

\* Services are ordered only for a confirmed booking: no cancelled one comes back.
\* The code does not keep this (README, section 5).
CancelledIsFinal ==
  [][\A b \in Bookings :
       row[b] # Null /\ row[b].status = "CANCELLED" => b \notin Confirmed']_meetingVars

=============================================================================
