------------------------- MODULE UsageReservationsMC -------------------------
(***************************************************************************)
(* Three reservations against plans of one or two pages and one add-on,    *)
(* across a month boundary, while an order is applied.                     *)
(***************************************************************************)
EXTENDS UsageReservations, TLC
Symmetry == Permutations(Reservations)
AddonAndRefund == {1, -1}
AddonOnly == {1}
=============================================================================
