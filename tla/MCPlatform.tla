----------------------------- MODULE MCPlatform -----------------------------
(***************************************************************************)
(* Small instances of what the services share: the profile of an employee  *)
(* in its cache, the catalogue, the locks of the transactions, one-time    *)
(* codes, the session of the browser and the queue of the application for  *)
(* deliveries.  As in MCGoods, "service" names the one that moves, the     *)
(* rest stay as they started.  AccessCache and LockPlans are extended, so  *)
(* that their properties are those the proofs are about.                   *)
(***************************************************************************)
EXTENDS AccessCache, LockPlans, TLC

CONSTANTS
  Services,   \* those to explore
  Readers, Updater, MaxUpdates,
  one, Phones, Purposes, MaxRequests, MaxAttempts, MaxCodes,
  Users, Internal, Logins,
  Nobody, Stored, TwoProofs, delivery, QueueFlushes, PairFlushes, QueueKills, PairKills,
  a

VARIABLES
  service,
  clock, made, listed, version, snapshot, flight, catalogCall,
  cooldown, count, lasting, session, last, codes, codeCall,
  owner, live, cookie, tab, request,
  stored, press, copy, flush, wire, task, order, previous, saved, closed, kills

accessVars == vars
catalogVars == <<clock, made, listed, version, snapshot, flight, catalogCall>>
codeVars == <<cooldown, count, lasting, session, last, codes, codeCall>>
webVars == <<owner, live, cookie, tab, request>>
queueVars == <<stored, press, copy, flush, wire, task, order, previous, saved, closed, kills>>
platformVars ==
  <<service, accessVars, lockVars, catalogVars, codeVars, webVars, queueVars>>

OneProduct == {a}

\* One call at a time, and Redis up; a test is started by a call of one step.
Certain == INSTANCE AccessCache WITH MayFail <- FALSE
Alone == \A p, q \in Calls : p = q \/ call[p] = Idle \/ call[q] = Idle

\* Redis, queries and the process may fail; two updates may start in one
\* millisecond, or none.
Shared ==
  INSTANCE Catalog WITH stored <- listed, call <- catalogCall, Updaters <- {Updater},
    SameTime <- TRUE, MayFail <- TRUE
Spaced ==
  INSTANCE Catalog WITH stored <- listed, call <- catalogCall, Updaters <- {Updater},
    SameTime <- FALSE, MayFail <- TRUE

Coded ==
  INSTANCE PhoneCodes WITH call <- codeCall, Calls <- {one}, MayCrash <- FALSE
Interrupted ==
  INSTANCE PhoneCodes WITH call <- codeCall, Calls <- {one}, MayCrash <- TRUE

\* Requests of the browser one after the other, with nothing that fails, and
\* with all that may.
Web ==
  INSTANCE WebSession WITH Sessions <- Logins, flight <- request, Overlap <- FALSE,
    Faults <- {}
WebFaults ==
  INSTANCE WebSession WITH Sessions <- Logins, flight <- request, Overlap <- FALSE,
    Faults <- {"reload", "expiry", "lost", "me"}

\* One proof and the flushes that send it; two proofs of one task.
Queue ==
  INSTANCE OfflineDeliveries WITH Proofs <- {Stored}, TaskOf <- [p \in {Stored} |-> delivery],
    Flushes <- QueueFlushes, MaxKills <- QueueKills
QueuePair ==
  INSTANCE OfflineDeliveries WITH Proofs <- TwoProofs, TaskOf <- [p \in TwoProofs |-> delivery],
    Flushes <- PairFlushes, MaxKills <- PairKills

ASSUME CatalogsAssumption == Shared!CatalogAssumption /\ Spaced!CatalogAssumption
ASSUME CodesAssumption == Coded!PhoneCodesAssumption /\ Interrupted!PhoneCodesAssumption
ASSUME BrowserAssumption == Web!WebAssumption
ASSUME QueuesAssumption == Queue!OfflineAssumption /\ QueuePair!OfflineAssumption
ASSUME PlansOfRows == Rows = LockRows /\ Plans = AllPlans

----------------------------------------------------------------------------
PlatformInit ==
  /\ service \in Services
  /\ Init
  /\ LockInit
  /\ Shared!Init
  /\ Coded!Init
  /\ Web!Init
  /\ IF service = "two proofs" THEN QueuePair!OfflineInit ELSE Queue!OfflineInit

AccessNext ==
  /\ \/ service = "access" /\ Next
     \/ /\ service = "access alone" /\ Certain!EmployeeNext /\ Alone'
        /\ test' \notin {test, Null} => \A p \in Calls : call[p] = Idle
  /\ UNCHANGED <<service, lockVars, catalogVars, codeVars, webVars, queueVars>>

TransactionNext ==
  /\ service = "locks" /\ LockNext
  /\ UNCHANGED <<service, accessVars, catalogVars, codeVars, webVars, queueVars>>

CatalogNext ==
  /\ \/ service = "catalogue" /\ Shared!Next
     \/ service = "spaced updates" /\ Spaced!Next
  /\ UNCHANGED <<service, accessVars, lockVars, codeVars, webVars, queueVars>>

CodeNext ==
  /\ \/ service = "codes alone" /\ Coded!Next
     \/ service = "codes and crashes alone" /\ Interrupted!Next
  /\ UNCHANGED <<service, accessVars, lockVars, catalogVars, webVars, queueVars>>

WebNext ==
  /\ \/ service = "browser" /\ Web!Next
     \/ service = "browser and faults" /\ WebFaults!Next
  /\ UNCHANGED <<service, accessVars, lockVars, catalogVars, codeVars, queueVars>>

QueueNext ==
  /\ \/ service = "one proof" /\ Queue!OfflineNext
     \/ service = "two proofs" /\ QueuePair!OfflineNext
  /\ UNCHANGED <<service, accessVars, lockVars, catalogVars, codeVars, webVars>>

PlatformNext ==
  \/ AccessNext \/ TransactionNext \/ CatalogNext
  \/ CodeNext \/ WebNext \/ QueueNext

PlatformSpec == PlatformInit /\ [][PlatformNext]_platformVars

----------------------------------------------------------------------------
\* The profile of a tested role is never stored; one call at a time and with
\* Redis up, a request finds the employee as saved, and the role tested.
ProfileIsCurrent ==
  /\ AccessTypeOK /\ CacheIsReal
  /\ service = "access alone" => AnswerIsCurrent

\* Two transactions never hold one row.  While every open transaction keeps to
\* the one order of the rows, none of them wait for one another, and every
\* deadlock has one of the operations that do not.
DeadlocksAreInversions ==
  /\ LockTypeOK /\ OneHolder /\ DeadlockHasInverter
  /\ (\A t \in Transactions : plan[t] \in OrderedPlans \union {NoPlan}) => NoDeadlock

\* Whatever fails, expires or is restarted, the snapshot of a version shows the
\* update whose version it is and a key is computed once at a time; with each
\* update in a millisecond of its own, it shows every update up to its version.
CatalogueIsCurrent ==
  /\ service = "catalogue" =>
       Shared!CatalogTypeOK /\ Shared!SnapshotShowsItsVersion /\ Shared!OneFlight
  /\ service = "spaced updates" => Spaced!VersionIsWhole

\* One call at a time, the code that was sent last is the one that works, and a
\* session keeps the time of its own code, although processes stop.
LastCodeWorks ==
  /\ service = "codes alone" => Coded!LastCodeWorks
  /\ service = "codes and crashes alone" => Interrupted!CodeKeepsItsTtl

\* Whatever fails, expires or is loaded again, the page never acts as another
\* than it shows.  While nothing fails it shows the user whose token it sends,
\* sends the cookie of that session, offers the way back to who acts for
\* another, and leaves no session live that no cookie holds.
PageIsItsSession ==
  /\ service = "browser and faults" => WebFaults!NeverActsAsAnother
  /\ service = "browser" =>
       Web!ShowsWhoseToken /\ Web!CookieIsSession /\ Web!CanReturn /\ Web!NothingLeftLive

\* What is stored on the device, one proof of one task, leaves it only after a
\* request with it ended with task and order delivered, although answers are
\* lost, the application ends, the order is refused and others report, resolve
\* or deliver.
ProofsArrive ==
  service = "one proof" => Queue!OfflineTypeOK /\ Queue!StoredUntilDelivered

\* With two proofs of it, a task replaces the recipient it has recorded only
\* after an incident of its order.
ProofStays == [][service = "two proofs" => QueuePair!ProofStays]_platformVars

\* The readers and the phones are the model values of the calls.
Interchangeable == Permutations(Calls)
=============================================================================
