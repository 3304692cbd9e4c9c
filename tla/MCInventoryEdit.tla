-------------------------- MODULE MCInventoryEdit --------------------------
(***************************************************************************)
(* A small instance of InventoryEdit for TLC: one product in the branch,   *)
(* one order of one unit, one editor.                                      *)
(***************************************************************************)
EXTENDS InventoryEdit, TLC

CONSTANTS water, cook, emp

NoRecipe == [p \in {water} |-> [q \in {water} |-> 0]]

MCQuota == [p \in {water} |-> 1]

OneCart == {[p \in {water} |-> 1]}

MCCounted == {<<water, "BRANCH">>}

MCInitialStock ==
  [i \in {water} \X {"KITCHEN", "BRANCH"} |-> IF i[2] = "BRANCH" THEN 2 ELSE 0]

MCPermissions == (cook :> {"prepare", "deliver"}) @@ (emp :> {})
=============================================================================
