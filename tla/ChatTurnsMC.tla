----------------------------- MODULE ChatTurnsMC -----------------------------
(***************************************************************************)
(* A bound for the checks of ChatTurns.                                    *)
(***************************************************************************)
EXTENDS ChatTurns

\* The executors that go on although others have ended their turns.
Late == {t \in Turns : ~ Active(t) /\ exec[t].at \notin {"none", "recheck", "verify", "end"}}

\* They write nothing any more and read their own turn only, so that a second one meets nothing
\* that the first does not.
OneLate == Cardinality(Late) <= 1
==============================================================================
