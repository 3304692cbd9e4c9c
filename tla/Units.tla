------------------------------- MODULE Units --------------------------------
(***************************************************************************)
(* The SUM of an aggregate query, as the number of units that a function   *)
(* hands out over its domain.                                              *)
(***************************************************************************)
EXTENDS Naturals, FiniteSets

\* One element for each unit of each row.
Units(f) == UNION {{r} \X (1..f[r]) : r \in DOMAIN f}

Total(f) == Cardinality(Units(f))
=============================================================================
