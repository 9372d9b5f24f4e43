---------------------------- MODULE SettlementsMC ----------------------------
(* Settlements on a small instance; periods, reports, variables and staff are      *)
(* interchangeable.                                                                *)
EXTENDS Settlements, TLC

Symmetry == Permutations(Batches) \cup Permutations(Reports)
                \cup Permutations(Variables) \cup Permutations(Requests)
=============================================================================
