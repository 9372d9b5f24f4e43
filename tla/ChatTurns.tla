------------------------------ MODULE ChatTurns ------------------------------
(***************************************************************************)
(* The turns of one AI conversation.  A request creates a turn (the user's *)
(* message and a pending answer), then the same request executes it and    *)
(* streams its events.  A turn lives under a lease; one that outlived it   *)
(* is failed by the next create.  The owner may cancel, retry a failed     *)
(* turn and regenerate a completed one, at any time and from any window.   *)
(*                                                                         *)
(* The database functions lock the conversation and are one action each,   *)
(* with their triggers; every other await of the executor is a step.  A    *)
(* message is its status, the outcome "complete" also stands for partial   *)
(* and blocked, the frozen context of a turn is the answers it holds, and  *)
(* a heartbeat that renews a lease is the lease not lapsing.               *)
(***************************************************************************)
EXTENDS Naturals, FiniteSets

CONSTANTS MaxTurns,  \* bound on the turns of the conversation
          Runtimes   \* runtimes a request may select

ASSUME ChatAssumption ==
    /\ MaxTurns \in Nat
    /\ Runtimes \subseteq {"gateway", "legacy"}

VARIABLES row,      \* ai_chat_turns, with the invocation and root capability of each
          message,  \* the status of each turn's assistant message
          exec,     \* the step each turn's executor is at and the event it will announce
          told      \* the terminal event each turn's stream has sent

db == <<row, message>>
vars == <<row, message, exec, told>>

Turns == 1 .. MaxTurns
NoTurn == 0

ActiveStatus == {"accepted", "grounding", "generating", "validating"}
TerminalStatus == {"completed", "failed", "cancelled"}
Snapshot == [frozen : BOOLEAN, answers : SUBSET Turns]
Seed == [frozen |-> FALSE, answers |-> {}]
TurnRow == [kind : {"none", "user", "retry", "regenerate"}, source : Turns \cup {NoTurn},
            question : Turns \cup {NoTurn}, runtime : Runtimes \cup {"none"},
            status : ActiveStatus \cup TerminalStatus \cup {"none"},
            outcome : {"none", "complete", "failed", "cancelled"}, leased : BOOLEAN,
            context : Snapshot, invocation : {"none", "started", "closed"},
            capability : {"none", "live", "revoked"}]
NoRow == [kind |-> "none", source |-> NoTurn, question |-> NoTurn, runtime |-> "none",
          status |-> "none", outcome |-> "none", leased |-> FALSE, context |-> Seed,
          invocation |-> "none", capability |-> "none"]
MessageStatus == {"none", "pending", "completed", "failed", "superseded"}
Steps == {"none", "seed", "prepare", "issue", "capture", "generate", "prompt", "validate",
          "complete", "recheck", "fail", "verify", "end"}
Events == {"none", "completed", "failed", "cancelled"}

Init ==
    /\ row = [t \in Turns |-> NoRow]
    /\ message = [t \in Turns |-> "none"]
    /\ exec = [t \in Turns |-> [at |-> "none", event |-> "none"]]
    /\ told = [t \in Turns |-> "none"]

Active(t) == row[t].status \in ActiveStatus
Created == {t \in Turns : row[t].status # "none"}
Answers == {t \in Turns : message[t] = "completed"}
Lapsed(t) == Active(t) /\ ~ row[t].leased

At(t, s) == exec[t].at = s
Gateway(t) == row[t].runtime = "gateway"
Announce(t, s, e) == exec' = [exec EXCEPT ![t] = [at |-> s, event |-> e]]
Go(t, s) == Announce(t, s, exec[t].event)

\* Faulty variant of Ended: the trigger's branch for terminal rows leaves the lease alone.
EndedLeased(r, status, outcome) ==
    [r EXCEPT !.status = status, !.outcome = outcome,
              !.invocation = IF r.invocation = "started" THEN "closed" ELSE @,
              !.capability = IF r.invocation = "started" THEN "revoked" ELSE @]

\* A row as the triggers leave it when a turn ends: no lease, its started invocation closed,
\* and with it the capability issued for the invocation revoked.
Ended(r, status, outcome) ==
    [r EXCEPT !.status = status, !.outcome = outcome, !.leased = FALSE,
              !.invocation = IF r.invocation = "started" THEN "closed" ELSE @,
              !.capability = IF r.invocation = "started" THEN "revoked" ELSE @]

(***************************************************************************)
(* Creating a turn                                                         *)
(***************************************************************************)
\* The active turn that outlived its lease, which every create fails first.
ReapedRows == [t \in Turns |-> IF Lapsed(t) THEN Ended(row[t], "failed", "none") ELSE row[t]]
ReapedMessages == [t \in Turns |-> IF Lapsed(t) THEN "failed" ELSE message[t]]

\* Faulty variant of Succeeds: a successor that has ended no longer counts.
SucceedsActive(t, u, kind) == row[t].kind = kind /\ row[t].source = u /\ Active(t)

Succeeds(t, u, kind) == row[t].kind = kind /\ row[t].source = u

\* A repeated request, or one whose source has a successor already, gets the existing turn and
\* does not execute it: all it does is to fail the lapsed turn.
CreateDuplicate ==
    /\ \E t \in Turns : Lapsed(t)
    /\ row' = ReapedRows
    /\ message' = ReapedMessages
    /\ UNCHANGED <<exec, told>>

\* create_ai_chat_turn: one active turn per conversation; a retry needs a failed source, which
\* its route has seen, a regeneration a completed one, and both that it has no successor.
Create(kind, source, runtime) ==
    LET t == Cardinality(Created) + 1 IN
    /\ t \in Turns
    /\ \A s \in Turns : Active(s) => Lapsed(s)
    /\ kind = "user" => source = NoTurn
    /\ kind # "user" => /\ source \in Turns
                        /\ \A s \in Turns : ~ Succeeds(s, source, kind)
    /\ kind = "retry" => row[source].status = "failed"
    /\ kind = "regenerate" => row[source].status = "completed"
    /\ row' = [ReapedRows EXCEPT ![t] =
          [NoRow EXCEPT !.kind = kind, !.source = source, !.runtime = runtime,
                        !.question = IF kind = "user" THEN t ELSE row[source].question,
                        !.context = IF kind = "user" THEN Seed ELSE row[source].context,
                        !.status = "accepted", !.leased = TRUE]]
    /\ message' = [s \in Turns |->
          IF s = t THEN "pending"
          ELSE IF kind = "retry" /\ s = source /\ message[s] = "failed" THEN "superseded"
          ELSE ReapedMessages[s]]
    /\ Go(t, "seed")
    /\ UNCHANGED told

(***************************************************************************)
(* Executing a turn                                                        *)
(***************************************************************************)
\* transitionAiConversationTurn: a conditional update by status; the trigger renews the lease,
\* a lapsed one included.
Transition(t, from, to, context) ==
    /\ row[t].status = from
    /\ row' = [row EXCEPT ![t].status = to, ![t].context = context, ![t].leased = TRUE]
    /\ UNCHANGED <<message, told>>

\* createAiConversationTurn goes on to write the runtime it selected as the turn's snapshot.
WriteSeed(t) ==
    /\ At(t, "seed")
    /\ Transition(t, "accepted", "accepted", Seed)
    /\ Go(t, "prepare")

\* The answers the conversation has, frozen.
Frozen == [frozen |-> TRUE, answers |-> Answers]

\* prepareTurn keeps a frozen snapshot, or freezes one.
Prepare(t) ==
    /\ At(t, "prepare")
    /\ Transition(t, "accepted", "grounding",
          IF row[t].context.frozen THEN row[t].context ELSE Frozen)
    /\ Go(t, IF Gateway(t) THEN "issue" ELSE "capture")

\* Faulty variant of Issuable: the turn that prepareTurn found is taken for granted.
IssuableAsRead(t) == row[t].invocation = "none"

\* issue_ai_hermes_root_run_capability: the turn must be active under a lease still ...
Issuable(t) ==
    /\ row[t].invocation = "none"
    /\ Active(t)
    /\ row[t].leased

\* ... and gets its invocation and the capability that the gateway's tools run under.
Issue(t) ==
    /\ At(t, "issue")
    /\ Issuable(t)
    /\ row' = [row EXCEPT ![t].invocation = "started", ![t].capability = "live"]
    /\ Go(t, "capture")
    /\ UNCHANGED <<message, told>>

\* captureGatewayContext adds the prompt to the snapshot; the gateway runtime has read the
\* conversation again by then, and names the answers it found ...
Capture(t) ==
    /\ At(t, "capture")
    /\ Transition(t, "grounding", "grounding", IF Gateway(t) THEN Frozen ELSE row[t].context)
    /\ Go(t, IF Gateway(t) THEN "prompt" ELSE "generate")

\* ... and markGenerating follows in the legacy runtime.
Generate(t) ==
    /\ At(t, "generate")
    /\ Transition(t, "grounding", "generating", row[t].context)
    /\ Go(t, "prompt")

\* The gateway's terminal event: an answer, a failure, or that the run was cancelled.
Answered(t) ==
    /\ At(t, "prompt")
    /\ Gateway(t)
    /\ \/ Announce(t, "complete", "completed")
       \/ \E e \in {"failed", "cancelled"} : Announce(t, "fail", e)
    /\ UNCHANGED <<row, message, told>>

\* The legacy chat's terminal event, or a reply that is an error, which it may be before there
\* is a context, or that ends without one.
AnsweredLegacy(t) ==
    /\ ~ Gateway(t)
    /\ \/ At(t, "prompt") /\ Announce(t, "validate", "completed")
       \/ exec[t].at \in {"capture", "prompt"} /\ Announce(t, "fail", "failed")
    /\ UNCHANGED <<row, message, told>>

\* markValidating, in the legacy runtime only.
Validate(t) ==
    /\ At(t, "validate")
    /\ Transition(t, "generating", "validating", row[t].context)
    /\ Go(t, "complete")

\* A call of the gateway executor that fails or is refused before the answer is caught, and the
\* turn is to be recorded as failed.
Caught(t) ==
    /\ Gateway(t)
    /\ exec[t].at \in {"prepare", "issue", "capture"}
    /\ Announce(t, "fail", "failed")
    /\ UNCHANGED <<row, message, told>>

(***************************************************************************)
(* Finishing a turn                                                        *)
(***************************************************************************)
\* Faulty variant of Replaced: the regeneration is looked for on the turn itself only.
ReplacedBySelf(t) == IF row[t].kind = "regenerate" THEN {row[t].source} ELSE {}

\* The answer a turn's line of retries set out to regenerate, if any ...
Line[t \in Turns] ==
    IF row[t].kind = "retry" THEN Line[row[t].source]
    ELSE IF row[t].kind = "regenerate" THEN {row[t].source} ELSE {}

\* ... is what the turn replaces when it completes.
Replaced(t) == Line[t]

RecordAnswer(t, outcome) ==
    /\ row' = [row EXCEPT ![t] = Ended(@, "completed", outcome)]
    /\ message' = [u \in Turns |->
          IF u = t THEN "completed"
          ELSE IF u \in Replaced(t) /\ message[u] = "completed" THEN "superseded"
          ELSE message[u]]

RecordFailure(t, outcome) ==
    /\ row' = [row EXCEPT ![t] = Ended(@, "failed", outcome)]
    /\ message' = [message EXCEPT ![t] = "failed"]

\* finish_ai_chat_turn_v2 writes for the turn's invocation, under its lease; of a turn that has
\* ended it says whether it ended so, where a cancelled turn counts as ended in any way.
MayFinish(t) == Active(t) /\ row[t].leased /\ row[t].invocation # "none"
EndedSo(t, status, outcome) ==
    /\ row[t].invocation # "none"
    /\ \/ row[t].status = "cancelled"
       \/ row[t].status = status /\ row[t].outcome = outcome

\* The gateway executor completes the turn, by finish_ai_chat_turn_v3; when the call is refused
\* or fails, before or after it wrote, the turn is read again.
Complete(t) ==
    /\ At(t, "complete")
    /\ Gateway(t)
    /\ \/ /\ MayFinish(t)
          /\ RecordAnswer(t, "complete")
          /\ \E s \in {"verify", "recheck"} : Go(t, s)
       \/ /\ EndedSo(t, "completed", "complete")
          /\ Go(t, "verify")
          /\ UNCHANGED db
       \/ /\ Go(t, "recheck")
          /\ UNCHANGED db
    /\ UNCHANGED told

Shows(t, event) ==
    \/ event = "completed" /\ row[t].status = "completed" /\ row[t].outcome = "complete"
    \/ event \in {"failed", "cancelled"} /\ row[t].status = event /\ row[t].outcome = event

\* After a call that threw, a turn found completed is announced; any other is to be failed, and
\* so is one whose reading fails.
Recheck(t) ==
    /\ At(t, "recheck")
    /\ \/ Shows(t, "completed") /\ Go(t, "verify")
       \/ Announce(t, "fail", "failed")
    /\ UNCHANGED <<row, message, told>>

\* The gateway executor fails the turn; when the call fails, before or after it wrote, it calls
\* again to announce a failure, whatever it was to announce.
Fail(t) ==
    /\ At(t, "fail")
    /\ Gateway(t)
    /\ \/ /\ MayFinish(t)
          /\ RecordFailure(t, "failed")
          /\ Go(t, "verify") \/ Announce(t, "fail", "failed")
       \/ /\ EndedSo(t, "failed", "failed")
          /\ Go(t, "verify")
          /\ UNCHANGED db
       \/ /\ Announce(t, "fail", "failed")
          /\ UNCHANGED db
    /\ UNCHANGED told

\* The legacy executor finishes by finish_ai_chat_turn, which asks for no lease and records no
\* outcome.
FinishLegacy(t) ==
    /\ ~ Gateway(t)
    /\ \/ At(t, "complete") /\ row[t].status = "validating" /\ RecordAnswer(t, "none")
       \/ At(t, "fail") /\ Active(t) /\ RecordFailure(t, "none")
       \/ At(t, "fail") /\ row[t].status = "failed" /\ UNCHANGED db
    /\ Go(t, "verify")
    /\ UNCHANGED told

\* Faulty variant of Announced: what the finishing call answered is good enough.
AnnouncedUnread(t) == exec[t].event

\* The stream's last step: the event is sent if the row shows it, or else the stream breaks off.
Announced(t) == IF Shows(t, exec[t].event) THEN exec[t].event ELSE "broken"

Verify(t) ==
    /\ At(t, "verify")
    /\ told' = [told EXCEPT ![t] = Announced(t)]
    /\ Announce(t, "end", "none")
    /\ UNCHANGED db

\* A call nothing catches throws or is refused, its answer is lost after it wrote, or the
\* process dies.
Stop(t) ==
    /\ exec[t].at \notin {"none", "end"}
    /\ Announce(t, "end", "none")
    /\ told' = [told EXCEPT ![t] = "broken"]
    /\ UNCHANGED db

(***************************************************************************)
(* Beside the executor                                                     *)
(***************************************************************************)
\* cancel_ai_chat_turn, by the owner, from any window.
Cancel(t) ==
    /\ Active(t)
    /\ row' = [row EXCEPT ![t] = Ended(@, "cancelled", "cancelled")]
    /\ message' = [message EXCEPT ![t] = "failed"]
    /\ UNCHANGED <<exec, told>>

\* Nobody renewed the lease in time: the executor is dead, or slow.
Lapse(t) ==
    /\ Active(t)
    /\ row[t].leased
    /\ row' = [row EXCEPT ![t].leased = FALSE]
    /\ UNCHANGED <<message, exec, told>>

Step(t) ==
    \/ WriteSeed(t) \/ Prepare(t) \/ Issue(t) \/ Capture(t) \/ Generate(t) \/ Answered(t)
    \/ AnsweredLegacy(t) \/ Validate(t) \/ Caught(t) \/ Complete(t) \/ Recheck(t) \/ Fail(t)
    \/ FinishLegacy(t) \/ Verify(t)
    \/ Stop(t) \/ Cancel(t) \/ Lapse(t)

Next ==
    \/ CreateDuplicate
    \/ \E kind \in {"user", "retry", "regenerate"}, source \in Turns \cup {NoTurn},
          runtime \in Runtimes : Create(kind, source, runtime)
    \/ \E t \in Turns : Step(t)

Spec == Init /\ [][Next]_vars

(***************************************************************************)
(* Properties                                                              *)
(***************************************************************************)
\* Types, and a turn that has ended has no lease: the next create looks for lapsed leases only
\* among the active.
TypeOK ==
    /\ row \in [Turns -> TurnRow]
    /\ message \in [Turns -> MessageStatus]
    /\ exec \in [Turns -> [at : Steps, event : Events]]
    /\ told \in [Turns -> Events \cup {"broken"}]
    /\ \A t \in Turns : row[t].leased => Active(t)

\* Once a question has been answered it has exactly one answer, that of the turn which completed
\* last: a regeneration that fails, is cancelled or lapses keeps the answer there was, and one
\* that completes, after any number of retries, replaces it.
OneAnswer ==
    \A q \in Turns :
        LET completed == {t \in Turns : row[t].question = q /\ row[t].status = "completed"} IN
        completed # {} => \E t \in completed : /\ \A u \in completed : u <= t
                                              /\ completed \cap Answers = {t}

\* Executors that come late, cancels, and creates that fail a lapsed turn leave a turn, its
\* answer, its invocation and its capability telling one story: a run whose turn has ended has
\* no live capability to act under, and an answer is replaced by a successor only.
RowsAgree ==
    \A t \in Turns :
        /\ Active(t) <=> message[t] = "pending"
        /\ row[t].status = "completed" => message[t] \in {"completed", "superseded"}
        /\ row[t].status = "failed" => message[t] \in {"failed", "superseded"}
        /\ row[t].status = "cancelled" => message[t] = "failed"
        /\ row[t].capability = "live" => Active(t) /\ row[t].invocation = "started"
        /\ row[t].invocation = "started" => Active(t)
        /\ message[t] = "superseded" => \E u \in Turns : row[u].source = t

\* A client is told only what the conversation shows for good: the turn's recorded end.  A
\* finishing call also answers true for a turn that the owner has cancelled meanwhile.
ToldTruth ==
    \A t \in Turns : told[t] \in {"completed", "failed", "cancelled"} => row[t].status = told[t]

\* The rows and messages of the turns are one conversation in the sense of Conversation: one
\* turn at a time, only a question's last turn is retried or regenerated, and the answer that a
\* question shows is replaced in one step by a later turn's and is never missing in between,
\* while executors come late, leases lapse and are renewed, and the owner cancels.
StateOf(t) == IF Active(t) THEN IF row[t].leased THEN "running" ELSE "lapsed"
              ELSE row[t].status
ShownFor(q) == {t \in Turns : row[t].question = q /\ message[t] = "completed"}
Owner == INSTANCE Conversation WITH
            Turns <- Turns,
            state <- [t \in Turns |-> StateOf(t)],
            question <- [t \in Turns |-> row[t].question],
            shown <- [q \in Turns |-> ShownFor(q)]
ImplementsConversation == Owner!Spec

\* docs/superpowers/specs/2026-07-11-xingyao-conversation-protocol-design.md:69: retries and
\* regenerations reuse the frozen input of their source.
RetryReusesInput ==
    \A t \in Turns :
        row[t].kind \in {"retry", "regenerate"} /\ row[t].context.frozen
            /\ row[row[t].source].context.frozen
            => row[t].context = row[row[t].source].context

==============================================================================
