------------------------------ MODULE OcrJobsMC ------------------------------
(***************************************************************************)
(* One job, worked on by interchangeable workers, an inline run and staff. *)
(***************************************************************************)
EXTENDS OcrJobs, TLC
Symmetry == Permutations(Workers)
=============================================================================
