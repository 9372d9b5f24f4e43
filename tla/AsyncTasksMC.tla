---------------------------- MODULE AsyncTasksMC ----------------------------
(***************************************************************************)
(* Three tasks: two compete for one organization's cap of one lease, the   *)
(* third lets a batch span two organizations.                              *)
(***************************************************************************)
EXTENDS AsyncTasks
CONSTANTS t1, t2, t3, o1, o2

TwoOrgs == [t \in Tasks |-> IF t = t3 THEN o2 ELSE o1]
LaterSecond == [t \in Tasks |-> IF t = t2 THEN 1 ELSE 0]
=============================================================================
