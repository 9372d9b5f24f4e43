----------------------------- MODULE Conversation -----------------------------
(***************************************************************************)
(* An AI conversation as its owner sees it: questions, turns that work on  *)
(* them one at a time, and the answer each question shows.  Only the last  *)
(* turn of a question is taken up again, and the answer shown is replaced  *)
(* in one step, by that of a later turn: no failure, cancellation or lapse *)
(* takes it away.  ChatTurns, with its executors, leases, triggers and     *)
(* superseded messages, implements this specification.                     *)
(***************************************************************************)
EXTENDS Naturals

CONSTANT Turns  \* 1 .. N, in the order they are made

VARIABLES state,     \* of each turn; "lapsed" is under way, but nobody may be at it
          question,  \* the turn that asked the question a turn works on, or 0
          shown      \* the answers each question shows

vars == <<state, question, shown>>

Unused(t) == state[t] = "none"
UnderWay(t) == state[t] \in {"running", "lapsed"}

Init == /\ state = [t \in Turns |-> "none"]
        /\ question = [t \in Turns |-> 0]
        /\ shown = [q \in Turns |-> {}]

\* The turns that outlived their leases have failed.
Reaped == [t \in Turns |-> IF state[t] = "lapsed" THEN "failed" ELSE state[t]]

Reap == state' = Reaped /\ UNCHANGED <<question, shown>>

LastOf(s) == \A u \in Turns : question[u] = question[s] => u <= s

\* The next turn asks a question, or works again on that of s, the last turn of its question,
\* which has completed or failed.
Begin(t, q) ==
    /\ \A u \in Turns : Unused(u) <=> t <= u
    /\ \A u \in Turns : state[u] # "running"
    /\ \/ q = t
       \/ \E s \in Turns : /\ q = question[s]
                           /\ state[s] \in {"completed", "failed"}
                           /\ LastOf(s)
    /\ state' = [Reaped EXCEPT ![t] = "running"]
    /\ question' = [question EXCEPT ![t] = q]
    /\ UNCHANGED shown

\* An executor that works on keeps its turn, or gets it back.
Renew(t) == /\ UnderWay(t)
            /\ state' = [state EXCEPT ![t] = "running"]
            /\ UNCHANGED <<question, shown>>

Lapse(t) == /\ state[t] = "running"
            /\ state' = [state EXCEPT ![t] = "lapsed"]
            /\ UNCHANGED <<question, shown>>

Answer(t) == /\ UnderWay(t)
             /\ state' = [state EXCEPT ![t] = "completed"]
             /\ shown' = [shown EXCEPT ![question[t]] = {t}]
             /\ UNCHANGED question

EndWithout(t) == /\ UnderWay(t)
                 /\ \E s \in {"failed", "cancelled"} : state' = [state EXCEPT ![t] = s]
                 /\ UNCHANGED <<question, shown>>

Next == \/ Reap
        \/ \E t, q \in Turns : Begin(t, q)
        \/ \E t \in Turns : Renew(t) \/ Lapse(t) \/ Answer(t) \/ EndWithout(t)

Spec == Init /\ [][Next]_vars
===============================================================================
