----------------------------- MODULE LockOrder ------------------------------
(***************************************************************************)
(* The row locks of the transactions of the API.  A transaction locks rows *)
(* one after the other, waits for a row that another one holds, and keeps  *)
(* what it locked until it commits or rolls back.  PostgreSQL looks for a  *)
(* cycle among those that wait and aborts one of them: its caller gets an  *)
(* error, nothing in this code tries again.  What the transactions write   *)
(* is in the other modules; here a transaction is the rows it locks, in    *)
(* the order in which its code locks them.                                 *)
(***************************************************************************)
EXTENDS Naturals, Sequences, FiniteSets

CONSTANTS
  Transactions,
  Rows,
  Plans     \* what a transaction may lock, see LockPlans

\* A plan: the operation, the rows in the order of their locks, and the
\* places in that order where a SAVEPOINT stands.
IsPlan(p) ==
  /\ DOMAIN p = {"kind", "locks", "savepoints"}
  /\ p.locks \in Seq(Rows)
  /\ p.savepoints \subseteq Nat

NoPlan == [kind |-> "none", locks |-> <<>>, savepoints |-> {}]

ASSUME PlansAssumption == \A p \in Plans : IsPlan(p) /\ p # NoPlan

VARIABLES
  plan,    \* of each transaction
  next,    \* the place in the plan of the lock it asks for
  held     \* the places in the plan whose locks it holds

lockVars == <<plan, next, held>>

Open(t) == plan[t] # NoPlan

HeldRows(t) == {plan[t].locks[i] : i \in held[t]}

Wanted(t) == plan[t].locks[next[t]]

Wants(t) == Open(t) /\ next[t] <= Len(plan[t].locks)

Waits(t, u) == t # u /\ Wants(t) /\ Open(u) /\ Wanted(t) \in HeldRows(u)

\* Everybody of S waits for somebody of S.
Stuck(S) == \A t \in S : \E u \in S : Waits(t, u)

BeginTransaction(t, p) ==
  /\ ~ Open(t)
  /\ plan' = [plan EXCEPT ![t] = p]
  /\ UNCHANGED <<next, held>>

Lock(t) ==
  /\ Wants(t)
  /\ \A u \in Transactions : ~ Waits(t, u)
  /\ held' = [held EXCEPT ![t] = @ \union {next[t]}]
  /\ next' = [next EXCEPT ![t] = @ + 1]
  /\ UNCHANGED plan

Ends(t) ==
  /\ plan' = [plan EXCEPT ![t] = NoPlan]
  /\ next' = [next EXCEPT ![t] = 1]
  /\ held' = [held EXCEPT ![t] = {}]

Commit(t) == Open(t) /\ ~ Wants(t) /\ Ends(t)

\* An exception: a row that is not found, a status or a quantity that the
\* code refuses once it has the lock.
Refuse(t) == Open(t) /\ Ends(t)

\* A line that is out of stock after its savepoint at s: ROLLBACK TO SAVEPOINT
\* gives back the locks of the line, and the next line, or the rest, goes on: the
\* rest only for an order that has a line left.
RejectLine(t, s, after) ==
  /\ Open(t)
  /\ {s, after} \subseteq plan[t].savepoints
  /\ s < next[t] /\ next[t] <= after
  /\ \A other \in plan[t].savepoints : other <= s \/ after <= other
  /\ after < Len(plan[t].locks) \/ \E i \in held[t] : i < s
  /\ held' = [held EXCEPT ![t] = {i \in @ : i < s}]
  /\ next' = [next EXCEPT ![t] = after]
  /\ UNCHANGED plan

\* t stands on a cycle of those that wait.
OnCycle(t) ==
  \E S \in SUBSET Transactions :
    /\ t \in S
    /\ Stuck(S)
    /\ \A u \in S : \E v \in S : Waits(v, u)

\* Mutant of AbortVictim: only a cycle of two is found.
AbortOfTwo(t) ==
  /\ \E u \in Transactions : Waits(t, u) /\ Waits(u, t)
  /\ Ends(t)

\* "deadlock detected" (40P01), at the caller that waited.
AbortVictim(t) == OnCycle(t) /\ Ends(t)

LockInit ==
  /\ plan = [t \in Transactions |-> NoPlan]
  /\ next = [t \in Transactions |-> 1]
  /\ held = [t \in Transactions |-> {}]

LockNext ==
  \E t \in Transactions :
    \/ \E p \in Plans : BeginTransaction(t, p)
    \/ Lock(t)
    \/ Commit(t)
    \/ Refuse(t)
    \/ \E s, after \in UNION {p.savepoints : p \in Plans} : RejectLine(t, s, after)
    \/ AbortVictim(t)

LockSpec == LockInit /\ [][LockNext]_lockVars

\* A row is given to those that wait in turn, and the detector runs when
\* somebody has waited for deadlock_timeout.
LockFairness ==
  \A t \in Transactions :
    /\ SF_lockVars(Lock(t))
    /\ WF_lockVars(Commit(t))
    /\ WF_lockVars(AbortVictim(t))

LiveLockSpec == LockSpec /\ LockFairness

-----------------------------------------------------------------------------
LockTypeOK ==
  /\ \A t \in Transactions : Open(t) => plan[t] \in Plans
  /\ next \in [Transactions -> Nat \ {0}]
  /\ held \in [Transactions -> SUBSET Nat]
  /\ \A t \in Transactions :
       IF Open(t) THEN \A i \in held[t] : i \in 1..Len(plan[t].locks) /\ i < next[t]
       ELSE held[t] = {}

\* FOR UPDATE: two transactions never hold the same row, so that what one has
\* read is still so when it writes.
OneHolder ==
  \A t, u \in Transactions :
    t # u /\ Open(t) /\ Open(u) => HeldRows(t) \intersect HeldRows(u) = {}

\* The operations that lock their rows in one order never stop each other:
\* there are no transactions that all wait for one another, and PostgreSQL
\* has nobody to abort.
NoDeadlock == \A S \in SUBSET Transactions : S # {} => ~ Stuck(S)

\* Each transaction ends: with a COMMIT, with an error of its own, or as the
\* one that PostgreSQL aborts.
EveryTransactionEnds == \A t \in Transactions : Open(t) ~> ~ Open(t)
=============================================================================
