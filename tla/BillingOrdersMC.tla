-------------------------- MODULE BillingOrdersMC --------------------------
(* Values for TLC: requests of a kind are interchangeable. *)
EXTENDS BillingOrders, TLC

MCSymmetry == Permutations(Handlers) \cup Permutations(Staff)
=============================================================================
