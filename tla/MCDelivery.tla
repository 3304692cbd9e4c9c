----------------------------- MODULE MCDelivery -----------------------------
(***************************************************************************)
(* A small instance of Delivery for TLC: one product under a quota, in two *)
(* zones, orders of two units that one zone alone cannot serve.            *)
(***************************************************************************)
EXTENDS Delivery, TLC

CONSTANTS water, agent, boss, emp

Items1 == {water} \X {"KITCHEN", "BRANCH"}

NoRecipe == [p \in {water} |-> [q \in {water} |-> 0]]

MCQuota == [p \in {water} |-> 2]

OneCart == {[p \in {water} |-> 2]}

MCInitialStock == [i \in Items1 |-> IF i[2] = "KITCHEN" THEN 1 ELSE 2]

MCPermissions ==
  (agent :> {"prepare", "deliver"}) @@ (boss :> {"approve", "queue"}) @@ (emp :> {})

Symmetric == Permutations(Requests)
=============================================================================
