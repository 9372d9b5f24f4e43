------------------------ MODULE ReservationLifecycle ------------------------
(***************************************************************************)
(* What the usage quota and the OCR pipeline owe each other about one      *)
(* reservation: it is taken, given back and taken again any number of      *)
(* times, and consumed at most once, from the reserved state alone, for    *)
(* good, which is when it is billed.  UsageReservations implements this    *)
(* specification, and so does what OcrJobs does to the reservations of its *)
(* jobs.                                                                   *)
(***************************************************************************)
CONSTANT Ids

VARIABLES status,  \* usage_reservations.status, or "none" before it is inserted
          billed   \* the reservations that have their usage event

vars == <<status, billed>>

\* A reservation that is there from the start was taken when its job was enqueued.
Init == /\ status \in [Ids -> {"none", "reserved"}]
        /\ billed = {}

Take(r) == /\ status[r] \in {"none", "released"}
           /\ status' = [status EXCEPT ![r] = "reserved"]
           /\ UNCHANGED billed

GiveBack(r) == /\ status[r] = "reserved"
               /\ status' = [status EXCEPT ![r] = "released"]
               /\ UNCHANGED billed

Consume(r) == /\ status[r] = "reserved"
              /\ status' = [status EXCEPT ![r] = "consumed"]
              /\ billed' = billed \cup {r}

Next == \E r \in Ids : Take(r) \/ GiveBack(r) \/ Consume(r)

Spec == Init /\ [][Next]_vars
=============================================================================
