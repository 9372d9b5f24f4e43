---------------------------- MODULE LiveReportsMC ----------------------------
(* LiveReports on a small instance; requests and report ids are interchangeable. *)
EXTENDS LiveReports, TLC

Symmetry == Permutations(Requests) \cup Permutations(Reports)
=============================================================================
