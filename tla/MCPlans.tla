------------------------------- MODULE MCPlans -------------------------------
(***************************************************************************)
(* Instances of the plans and subscriptions for TLC.                       *)
(***************************************************************************)
EXTENDS Plans, TLC

PlansSymmetry == Permutations(Requests) \cup Permutations(Customers)
==============================================================================
