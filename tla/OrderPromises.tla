--------------------------- MODULE OrderPromises ---------------------------
(***************************************************************************)
(* What the order service promises, without transactions, locks or         *)
(* reservations: an order is placed in one step against the stock and the  *)
(* quota that earlier orders left, and from then on it keeps its promise   *)
(* until it is prepared or withdrawn.                                      *)
(***************************************************************************)
EXTENDS Naturals, FiniteSets, Units

CONSTANTS
  Ids,        \* orders that may be placed
  Goods,      \* stock items
  Accounts,   \* (employee, product, period) that a quota limits
  Limit       \* Accounts -> largest total cost

VARIABLES
  stock,      \* physical units of each item
  promise,    \* Ids -> units of each item promised to the order
  cost,       \* Ids -> units charged on each account
  stage,      \* Ids -> "none", "placed", "started" or "withdrawn"
  rank        \* Ids -> position of the order among the orders placed, or 0

vars == <<stock, promise, cost, stage, rank>>

PromisedOn(g) == Total([o \in Ids |-> promise[o][g]])
CostOn(a)     == Total([o \in Ids |-> cost[o][a]])

Init ==
  /\ stock \in [Goods -> Nat]
  /\ promise = [o \in Ids |-> [g \in Goods |-> 0]]
  /\ cost = [o \in Ids |-> [a \in Accounts |-> 0]]
  /\ stage = [o \in Ids |-> "none"]
  /\ rank = [o \in Ids |-> 0]

Placed == {o \in Ids : stage[o] # "none"}

\* The whole promise and the whole cost are there at once, within what is left.
Place(o) ==
  /\ stage[o] = "none"
  /\ stage' = [stage EXCEPT ![o] = "placed"]
  /\ rank' = [rank EXCEPT ![o] = Cardinality(Placed) + 1]
  /\ \A g \in Goods : PromisedOn(g) + promise'[o][g] <= stock[g]
  /\ \A a \in Accounts : cost'[o][a] > 0 => CostOn(a) + cost'[o][a] <= Limit[a]
  /\ \A b \in Ids \ {o} : promise'[b] = promise[b] /\ cost'[b] = cost[b]
  /\ UNCHANGED stock

\* The promise is used: it leaves the stock, and its cost is final.
Start(o) ==
  /\ stage[o] = "placed"
  /\ stage' = [stage EXCEPT ![o] = "started"]
  /\ stock' = [g \in Goods |-> stock[g] - promise[o][g]]
  /\ promise' = [promise EXCEPT ![o] = [g \in Goods |-> 0]]
  /\ UNCHANGED <<cost, rank>>

\* The promise and the cost are given back.
Withdraw(o) ==
  /\ stage[o] = "placed"
  /\ stage' = [stage EXCEPT ![o] = "withdrawn"]
  /\ promise' = [promise EXCEPT ![o] = [g \in Goods |-> 0]]
  /\ cost' = [cost EXCEPT ![o] = [a \in Accounts |-> 0]]
  /\ UNCHANGED <<stock, rank>>

\* A count changes one item, but never below what is promised.
Count(g) ==
  /\ \A h \in Goods \ {g} : stock'[h] = stock[h]
  /\ PromisedOn(g) <= stock'[g]
  /\ UNCHANGED <<promise, cost, stage, rank>>

Next ==
  \/ \E o \in Ids : Place(o) \/ Start(o) \/ Withdraw(o)
  \/ \E g \in Goods : Count(g)

Spec == Init /\ [][Next]_vars

=============================================================================
