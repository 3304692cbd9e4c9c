------------------------------ MODULE MCOrders ------------------------------
(***************************************************************************)
(* Small instances of Orders for TLC.  A coffee is made of one unit of     *)
(* water and has no stock of its own; water is also sold as it is, under a *)
(* quota.  So the two lines of a cart compete for the same items.          *)
(***************************************************************************)
EXTENDS Orders, TLC

CONSTANTS coffee, water, cook, boss, emp

Items2 == {coffee, water} \X {"KITCHEN", "BRANCH"}

MCRecipe ==
  [p \in {coffee, water} |->
     [q \in {coffee, water} |-> IF p = coffee /\ q = water THEN 1 ELSE 0]]

MCQuota == [p \in {coffee, water} |-> 2]

Cart(n, m) == [p \in {coffee, water} |-> IF p = coffee THEN n ELSE m]

\* One unit in the kitchen and two in the branch.
MCInitialStock ==
  [i \in Items2 |-> CASE i = <<water, "KITCHEN">> -> 1
                      [] i = <<water, "BRANCH">> -> 2
                      [] OTHER -> 0]

\* Counts correct the water of the branch only.
MCCounted == {<<water, "BRANCH">>}

MCPermissions ==
  (cook :> {"prepare", "deliver"}) @@ (boss :> {"admin", "queue"}) @@ (emp :> {})

\* A mixed cart and a cart of two waters.
TwoCarts == {Cart(1, 1), Cart(0, 2)}

\* Both products have stock of their own, so two mixed carts can deadlock.
PlainRecipe == [p \in {coffee, water} |-> [q \in {coffee, water} |-> 0]]

OneEach == {Cart(1, 1)}

\* One unit of each in the kitchen: there is enough for one of the carts.
KitchenStock == [i \in Items2 |-> IF i[2] = "KITCHEN" THEN 1 ELSE 0]

Symmetric == Permutations(Requests)
=============================================================================
