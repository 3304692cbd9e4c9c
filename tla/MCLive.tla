------------------------------- MODULE MCLive -------------------------------
(***************************************************************************)
(* What must happen in the end.  As in MCPlatform, "service" names the one *)
(* that moves, and the rest stay as they started: no step that a component *)
(* is fair to is enabled in its first state, so that each keeps its own    *)
(* fairness whichever moves.                                               *)
(***************************************************************************)
EXTENDS LockPlans, TLC

CONSTANTS
  Services,   \* those to explore
  Null, Removed, a, u1, x1, x2, h1, Calls

VARIABLES
  service,
  clock, made, listed, version, snapshot, flight, catalogCall,
  cooldown, count, lasting, session, last, codes, codeCall,
  entry, year, expense, payslip, period, lock, bookCall

catalogVars == <<clock, made, listed, version, snapshot, flight, catalogCall>>
codeVars == <<cooldown, count, lasting, session, last, codes, codeCall>>
bookVars == <<entry, year, expense, payslip, period, lock, bookCall>>
liveVars == <<service, lockVars, catalogVars, codeVars, bookVars>>

OneProduct == {a}

\* One operation of each kind.
FewPlans ==
  {ReportOrderIssue, ResumeDelivery, CreateOrder(<<a>>),
   GiveUpOrder(<<Stock("BRANCH", a)>>), ConfirmTransfer("BRANCH", "KITCHEN", a),
   ConfirmTransfer("KITCHEN", "BRANCH", a)}

Shared ==
  INSTANCE Catalog WITH stored <- listed, call <- catalogCall, Readers <- Calls,
    Updaters <- {u1}, MaxUpdates <- 1, SameTime <- FALSE, MayFail <- TRUE

Codes ==
  INSTANCE PhoneCodes WITH call <- codeCall, Phones <- {h1},
    Purposes <- {"login"}, MaxRequests <- 2, MaxAttempts <- 2, MaxCodes <- 2,
    MayCrash <- FALSE

Books ==
  INSTANCE Finance WITH call <- bookCall, ExpenseIds <- {x1, x2}, Documents <- {x1, x2},
    MaxEntries <- 4

ASSUME Shared!CatalogAssumption /\ Codes!PhoneCodesAssumption

----------------------------------------------------------------------------
Init ==
  /\ service \in Services
  /\ LockInit /\ Shared!Init /\ Codes!Init /\ Books!FinanceInit

Next ==
  \/ /\ service = "locks" /\ LockNext
     /\ UNCHANGED <<service, catalogVars, codeVars, bookVars>>
  \/ /\ service = "catalogue" /\ Shared!Next
     /\ UNCHANGED <<service, lockVars, codeVars, bookVars>>
  \/ /\ service = "codes" /\ Codes!Next
     /\ UNCHANGED <<service, lockVars, catalogVars, bookVars>>
  \/ /\ service = "payroll" /\ Books!LiveNext
     /\ UNCHANGED <<service, lockVars, catalogVars, codeVars>>

Spec ==
  /\ Init /\ [][Next]_liveVars
  /\ LockFairness /\ Shared!Fairness
  /\ Codes!Fairness /\ Books!LiveFairness

----------------------------------------------------------------------------
\* Every request for the catalogue is answered unless the process stops, a phone
\* that asked for too many codes is served again, and every run of the payroll lets
\* the next one start.
ServedInTheEnd ==
  /\ Shared!RequestsEnd
  /\ Codes!ServedAgain
  /\ Books!LockIsReleased
=============================================================================
