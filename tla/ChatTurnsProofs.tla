--------------------------- MODULE ChatTurnsProofs ---------------------------
(***************************************************************************)
(* Proofs about ChatTurns, for any number of turns and any runtimes.       *)
(*                                                                         *)
(* The turns of one question form a chain: each but the last has been      *)
(* retried or regenerated, once.  What the retries of a turn set out to    *)
(* replace is therefore the answer its question has, which is found by the *)
(* least-number principle: the library states it for the subsets of a set, *)
(* and an interval stands for its end.                                     *)
(***************************************************************************)
EXTENDS ChatTurns, FiniteSetTheorems, TLAPS

(***************************************************************************)
(* The least number of a set                                               *)
(***************************************************************************)
LEMMA LeastExists ==
  ASSUME NEW T \in SUBSET Nat, T # {}
  PROVE  \E n \in T : \A m \in T : n <= m
<1> DEFINE R == StrictSubsetOrdering(Nat)
           U == {1 .. n : n \in T}
<1>1. IsWellFoundedOn(R, FiniteSubsetsOf(Nat))
  BY FS_StrictSubsetOrderingWellFounded
<1>2. U \subseteq FiniteSubsetsOf(Nat) /\ U # {}
  <2>1. ASSUME NEW n \in T PROVE 1 .. n \in FiniteSubsetsOf(Nat)
    <3>1. IsFiniteSet(1 .. n)
      BY FS_Interval
    <3>2. 1 .. n \in SUBSET Nat
      OBVIOUS
    <3> QED  BY <3>1, <3>2 DEF FiniteSubsetsOf
  <2> QED  BY <2>1
<1>3. \E x \in U : \A y \in U : ~ (<<y, x>> \in R)
  <2> HIDE DEF R, U
  <2> QED  BY <1>1, <1>2, WFMin
<1>4. PICK n \in T : \A m \in T : ~ (<<1 .. m, 1 .. n>> \in R)
  BY <1>3
<1>5. ASSUME NEW m \in T, m < n PROVE FALSE
  <2>1. 1 .. m \subseteq 1 .. n /\ n \in 1 .. n /\ n \notin 1 .. m
    BY <1>5
  <2>2. 1 .. m # 1 .. n /\ 1 .. m \in SUBSET Nat /\ 1 .. n \in SUBSET Nat
    BY <2>1
  <2>3. <<1 .. m, 1 .. n>> \in (SUBSET Nat) \X (SUBSET Nat)
    BY <2>2
  <2>4. <<1 .. m, 1 .. n>> \in R
    BY <2>1, <2>2, <2>3, Zenon DEF StrictSubsetOrdering
  <2> QED  BY <1>4, <2>4
<1> QED  BY <1>5

\* The greatest of a set of turns.
LEMMA GreatestTurn ==
  ASSUME NEW T \in SUBSET Turns, T # {}
  PROVE  \E n \in T : \A m \in T : m <= n
<1> DEFINE U == {MaxTurns - n : n \in T}
<1>1. U \in SUBSET Nat /\ U # {}
  <2>1. ASSUME NEW n \in T PROVE MaxTurns - n \in Nat
    BY ChatAssumption DEF Turns
  <2> QED  BY <2>1
<1>2. PICK k \in U : \A m \in U : k <= m
  <2> HIDE DEF U
  <2> QED  BY <1>1, LeastExists
<1>3. PICK n \in T : k = MaxTurns - n
  OBVIOUS
<1>4. \A m \in T : MaxTurns - n <= MaxTurns - m
  BY <1>2, <1>3
<1> QED  BY <1>4, ChatAssumption DEF Turns

(***************************************************************************)
(* The line of a turn                                                      *)
(***************************************************************************)
\* A retry is of an earlier turn.
Backwards == \A t \in Turns : row[t].kind = "retry" => row[t].source \in 1 .. (t - 1)

Body(f, t) ==
    IF row[t].kind = "retry" THEN f[row[t].source]
    ELSE IF row[t].kind = "regenerate" THEN {row[t].source} ELSE {}

LEMMA LineUpTo ==
  ASSUME Backwards
  PROVE  \A n \in 0 .. MaxTurns : \E f : f = [t \in 1 .. n |-> Body(f, t)]
<1> DEFINE Good(n) == \E f : f = [t \in 1 .. n |-> Body(f, t)]
           T == {n \in 0 .. MaxTurns : ~ Good(n)}
<1>1. SUFFICES ASSUME T # {} PROVE FALSE
  OBVIOUS
<1>2. PICK n \in T : \A m \in T : n <= m
  <2>1. T \in SUBSET Nat
    BY ChatAssumption
  <2> HIDE DEF T
  <2> QED  BY <1>1, <2>1, LeastExists
<1>3. n \in 0 .. MaxTurns /\ ~ Good(n) /\ n \in Nat
  BY ChatAssumption
<1>4. CASE n = 0
  <2> DEFINE f == [t \in 1 .. n |-> {}]
  <2>1. f = [t \in 1 .. n |-> Body(f, t)]
    BY <1>4
  <2> QED  BY <1>3, <2>1
<1>5. CASE n # 0
  <2>1. n - 1 \in 0 .. MaxTurns /\ n - 1 \notin T
    BY <1>2, <1>3, <1>5, ChatAssumption
  <2>2. PICK f : f = [t \in 1 .. (n - 1) |-> Body(f, t)]
    BY <2>1
  <2> DEFINE g == [t \in 1 .. n |-> IF t = n THEN Body(f, n) ELSE f[t]]
  <2>3. ASSUME NEW t \in 1 .. n PROVE g[t] = Body(g, t)
    <3>1. t \in Turns
      BY <1>3, ChatAssumption DEF Turns
    <3>2. row[t].kind = "retry" => /\ row[t].source \in 1 .. (t - 1)
                                   /\ row[t].source \in 1 .. n /\ row[t].source # n
      BY <1>3, <3>1 DEF Backwards
    <3>3. row[t].kind = "retry" => g[row[t].source] = f[row[t].source]
      BY <3>2
    <3>4. Body(g, t) = Body(f, t)
      BY <3>3 DEF Body
    <3>5. t # n => t \in 1 .. (n - 1)
      BY <1>3
    <3>6. t # n => f[t] = Body(f, t)
      BY <2>2, <3>5
    <3> QED  BY <3>4, <3>6
  <2>4. g = [t \in 1 .. n |-> g[t]]
    OBVIOUS
  <2> HIDE DEF g
  <2>5. g = [t \in 1 .. n |-> Body(g, t)]
    BY <2>3, <2>4
  <2> QED  BY <1>3, <2>5
<1> QED  BY <1>4, <1>5

\* The recursion of Line is well founded, so that it can be unfolded.
LEMMA LineUnfolds ==
  ASSUME Backwards, NEW t \in Turns
  PROVE  Line[t] = Body(Line, t)
<1>1. PICK f : f = [u \in Turns |-> Body(f, u)]
  BY LineUpTo, ChatAssumption DEF Turns
<1>2. Line = [u \in Turns |-> IF row[u].kind = "retry" THEN Line[row[u].source]
                              ELSE IF row[u].kind = "regenerate" THEN {row[u].source} ELSE {}]
  <2>1. f = [u \in Turns |-> IF row[u].kind = "retry" THEN f[row[u].source]
                             ELSE IF row[u].kind = "regenerate" THEN {row[u].source} ELSE {}]
    BY <1>1 DEF Body
  <2> QED  BY <2>1, Zenon DEF Line
<1>3. Line[t] = IF row[t].kind = "retry" THEN Line[row[t].source]
                ELSE IF row[t].kind = "regenerate" THEN {row[t].source} ELSE {}
  BY <1>2
<1> QED  BY <1>3 DEF Body

(***************************************************************************)
(* The inductive invariant                                                 *)
(***************************************************************************)
HasRow(t) == row[t].status # "none"
SameQuestion(t, u) == row[t].question = row[u].question

\* What a turn is made from: it is next after its source among the turns of the question, and
\* its source has ended as its kind wants it.
RowInv(t) ==
    /\ ~ HasRow(t) => row[t] = NoRow
    /\ HasRow(t) =>
        /\ row[t].kind \in {"user", "retry", "regenerate"}
        /\ row[t].question \in 1 .. t
        /\ row[t].kind = "user" => row[t].source = NoTurn /\ row[t].question = t
        /\ row[t].kind # "user" =>
             /\ row[t].source \in 1 .. (t - 1)
             /\ HasRow(row[t].source) /\ SameQuestion(row[t].source, t)
             /\ \A u \in Turns : row[t].source < u /\ u < t => ~ SameQuestion(u, t)
        /\ row[t].kind = "retry" => row[row[t].source].status = "failed"
        /\ row[t].kind = "regenerate" => row[row[t].source].status = "completed"
RowsInv == \A t \in Turns : RowInv(t)

\* Turns are created one after another, and only the last may be under way.
PrefixInv == \E n \in 0 .. MaxTurns : Created = 1 .. n
LastInv == \A t, u \in Turns : Active(t) /\ HasRow(u) => u <= t

\* Of the turns of a question all but the last have a successor.
NextInv ==
    \A u, v \in Turns :
        HasRow(u) /\ HasRow(v) /\ u < v /\ SameQuestion(u, v) =>
            \E w \in Turns : HasRow(w) /\ row[w].source = u

Chain == RowsInv /\ PrefixInv /\ LastInv /\ NextInv

DbTyped ==
    /\ row \in [Turns -> TurnRow]
    /\ message \in [Turns -> MessageStatus]
    /\ \A t \in Turns : row[t].leased => Active(t)
RunTyped ==
    /\ exec \in [Turns -> [at : Steps, event : Events]]
    /\ told \in [Turns -> Events \cup {"broken"}]

\* RowsAgree of one turn.
Agree(t) ==
    /\ Active(t) <=> message[t] = "pending"
    /\ row[t].status = "completed" => message[t] \in {"completed", "superseded"}
    /\ row[t].status = "failed" => message[t] \in {"failed", "superseded"}
    /\ row[t].status = "cancelled" => message[t] = "failed"
    /\ row[t].capability = "live" => Active(t) /\ row[t].invocation = "started"
    /\ row[t].invocation = "started" => Active(t)
    /\ message[t] = "superseded" => \E u \in Turns : row[u].source = t

IInv == DbTyped /\ RunTyped /\ Chain /\ RowsAgree /\ ToldTruth /\ OneAnswer

LEMMA NoRowTyped == NoRow \in TurnRow /\ NoRow.status = "none" /\ NoRow.leased = FALSE
  BY DEF NoRow, TurnRow, Seed, Snapshot

LEMMA InitIInv == Init => IInv
<1> SUFFICES ASSUME Init PROVE IInv
  OBVIOUS
<1>1. \A t \in Turns : row[t] = NoRow /\ message[t] = "none" /\ told[t] = "none"
  BY DEF Init
<1>2. DbTyped /\ RunTyped
  BY NoRowTyped DEF Init, DbTyped, RunTyped, MessageStatus, Steps, Events
<1>3. Chain
  <2>1. \A t \in Turns : ~ HasRow(t) /\ ~ Active(t)
    BY <1>1, NoRowTyped DEF HasRow, Active, ActiveStatus
  <2>2. Created = 1 .. 0
    BY <2>1 DEF Created, HasRow
  <2>3. PrefixInv
    BY <2>2, ChatAssumption DEF PrefixInv
  <2>4. RowsInv
    BY <1>1, <2>1 DEF RowsInv, RowInv
  <2> QED  BY <2>1, <2>3, <2>4 DEF Chain, LastInv, NextInv
<1>4. RowsAgree
  <2>1. \A t \in Turns : row[t].status = "none" /\ row[t].capability = "none"
                         /\ row[t].invocation = "none"
    BY <1>1 DEF NoRow
  <2> QED  BY <1>1, <2>1 DEF RowsAgree, Active, ActiveStatus
<1>5. ToldTruth
  BY <1>1 DEF ToldTruth
<1>6. OneAnswer
  BY <1>1, NoRowTyped DEF OneAnswer
<1> QED  BY <1>2, <1>3, <1>4, <1>5, <1>6 DEF IInv

(***************************************************************************)
(* What a step that creates no turn leaves true                            *)
(***************************************************************************)
\* Turns keep what they are made from, and only an active one changes its status.
RowsMove ==
    /\ row' \in [Turns -> TurnRow]
    /\ \A t \in Turns : /\ row'[t].kind = row[t].kind
                        /\ row'[t].source = row[t].source
                        /\ row'[t].question = row[t].question
                        /\ ~ Active(t) => row'[t].status = row[t].status
                        /\ Active(t) => row'[t].status # "none"
                        /\ ~ HasRow(t) => row'[t] = row[t]

LEMMA ChainKept ==
  ASSUME DbTyped, Chain, RowsMove
  PROVE  Chain'
<1>1. \A t \in Turns : HasRow(t)' <=> HasRow(t)
  BY DEF RowsMove, HasRow, Active, ActiveStatus
<1>2. \A t \in Turns : Active(t)' => Active(t)
  BY DEF RowsMove, Active
<1>3. \A t, u \in Turns : SameQuestion(t, u)' <=> SameQuestion(t, u)
  BY DEF RowsMove, SameQuestion
<1>4. RowsInv'
  <2> SUFFICES ASSUME NEW t \in Turns PROVE RowInv(t)'
    BY DEF RowsInv
  <2>1. RowInv(t)
    BY DEF Chain, RowsInv
  <2>2. CASE HasRow(t) /\ row[t].kind # "user"
    <3>1. row[t].source \in Turns
      BY <2>1, <2>2, ChatAssumption DEF RowInv, Turns
    <3>2. row[row[t].source].status \in {"failed", "completed"} =>
              row'[row[t].source].status = row[row[t].source].status
      BY <3>1 DEF RowsMove, Active, ActiveStatus
    <3> QED  BY <1>1, <1>3, <2>1, <2>2, <3>1, <3>2 DEF RowInv, RowsMove
  <2>3. CASE ~ (HasRow(t) /\ row[t].kind # "user")
    BY <1>1, <2>1, <2>3 DEF RowInv, RowsMove
  <2> QED  BY <2>2, <2>3
<1>5. PrefixInv'
  <2>1. Created' = Created
    BY <1>1 DEF Created, HasRow
  <2> QED  BY <2>1 DEF Chain, PrefixInv
<1>6. LastInv'
  BY <1>1, <1>2 DEF Chain, LastInv
<1>7. NextInv'
  BY <1>1, <1>3 DEF Chain, NextInv, RowsMove
<1> QED  BY <1>4, <1>5, <1>6, <1>7 DEF Chain

LEMMA ToldKept ==
  ASSUME ToldTruth, RowsMove, told' = told
  PROVE  ToldTruth'
  BY DEF ToldTruth, RowsMove, Active, ActiveStatus

\* No turn is completed, and no completed one loses its answer.
LEMMA OneAnswerKept ==
  ASSUME OneAnswer,
         \A t \in Turns : row'[t].status = "completed" <=> row[t].status = "completed",
         \A t \in Turns : row[t].status = "completed" =>
             /\ row'[t].question = row[t].question
             /\ message'[t] = "completed" <=> message[t] = "completed"
  PROVE  OneAnswer'
<1> SUFFICES ASSUME NEW q \in Turns
             PROVE  LET completed == {t \in Turns : row'[t].question = q
                                                    /\ row'[t].status = "completed"} IN
                    completed # {} => \E t \in completed : /\ \A u \in completed : u <= t
                                                          /\ completed \cap Answers' = {t}
  BY DEF OneAnswer
<1> DEFINE completed == {t \in Turns : row[t].question = q /\ row[t].status = "completed"}
<1>1. {t \in Turns : row'[t].question = q /\ row'[t].status = "completed"} = completed
  OBVIOUS
<1>2. completed \cap Answers' = completed \cap Answers
  BY DEF Answers
<1>3. completed # {} => \E t \in completed : /\ \A u \in completed : u <= t
                                             /\ completed \cap Answers = {t}
  BY DEF OneAnswer
<1> QED  BY <1>1, <1>2, <1>3

\* The rows and their answers agree when they agree turn by turn.
LEMMA AgreeAll == RowsAgree <=> \A t \in Turns : Agree(t)
  BY DEF RowsAgree, Agree

LEMMA AgreeNext == RowsAgree' <=> \A t \in Turns : Agree(t)'
  BY DEF RowsAgree, Agree

(***************************************************************************)
(* Steps of the executor on the rows                                       *)
(***************************************************************************)
DbInv == DbTyped /\ Chain /\ RowsAgree /\ OneAnswer

\* A row that stays under way.
LEMMA Touched ==
  ASSUME DbInv, NEW t \in Turns, Active(t), NEW x \in TurnRow, row' = [row EXCEPT ![t] = x],
         x.kind = row[t].kind, x.source = row[t].source, x.question = row[t].question,
         x.status \in ActiveStatus, x.capability = "live" => x.invocation = "started",
         message' = message
  PROVE  DbInv' /\ RowsMove
<1>1. /\ row'[t] = x /\ \A u \in Turns \ {t} : row'[u] = row[u]
      /\ row' \in [Turns -> TurnRow]
  BY DEF DbInv, DbTyped
<1>2. Active(t)' /\ \A u \in Turns \ {t} : Active(u)' <=> Active(u)
  BY <1>1 DEF Active
<1>3. RowsMove
  BY <1>1, <1>2 DEF RowsMove, Active, HasRow, ActiveStatus
<1>4. DbTyped'
  BY <1>1, <1>2 DEF DbInv, DbTyped
<1>5. RowsAgree'
  <2> SUFFICES ASSUME NEW u \in Turns PROVE Agree(u)'
    BY AgreeNext
  <2>1. Agree(u)
    BY AgreeAll DEF DbInv
  <2>2. (\E w \in Turns : row[w].source = u) => \E w \in Turns : row'[w].source = u
    BY <1>3 DEF RowsMove
  <2>3. CASE u = t
    BY <1>1, <1>2, <2>1, <2>2, <2>3 DEF Agree, Active, ActiveStatus
  <2>4. CASE u # t
    BY <1>1, <1>2, <2>1, <2>2, <2>4 DEF Agree
  <2> QED  BY <2>3, <2>4
<1>6. OneAnswer'
  <2>1. \A u \in Turns : row'[u].status = "completed" <=> row[u].status = "completed"
    BY <1>1, <1>2 DEF Active, ActiveStatus
  <2>2. \A u \in Turns : row'[u].question = row[u].question
    BY <1>3 DEF RowsMove
  <2> QED  BY <2>1, <2>2, OneAnswerKept DEF DbInv
<1> QED  BY <1>3, <1>4, <1>5, <1>6, ChainKept DEF DbInv

\* The row x is the row r, ended.
EndsAs(x, r, s, o) ==
    /\ x \in TurnRow
    /\ x.kind = r.kind /\ x.source = r.source /\ x.question = r.question
    /\ x.status = s /\ x.outcome = o /\ x.leased = FALSE
    /\ x.invocation # "started"
    /\ x.capability = "live" => r.capability = "live" /\ r.invocation # "started"

LEMMA EndedRow ==
  ASSUME NEW r \in TurnRow, NEW s \in TerminalStatus,
         NEW o \in {"none", "complete", "failed", "cancelled"}
  PROVE  EndsAs(Ended(r, s, o), r, s, o)
<1> DEFINE inv == IF r.invocation = "started" THEN "closed" ELSE r.invocation
           cap == IF r.invocation = "started" THEN "revoked" ELSE r.capability
           x == Ended(r, s, o)
<1>1. inv \in {"none", "started", "closed"} /\ cap \in {"none", "live", "revoked"}
  BY DEF TurnRow
<1>2. x = [r EXCEPT !.status = s, !.outcome = o, !.leased = FALSE, !.invocation = inv,
                    !.capability = cap]
  BY DEF Ended
<1>3. /\ x \in TurnRow
      /\ x.kind = r.kind /\ x.source = r.source /\ x.question = r.question
      /\ x.status = s /\ x.outcome = o /\ x.leased = FALSE
      /\ x.invocation = inv /\ x.capability = cap
  <2> HIDE DEF inv, cap, x
  <2> QED  BY <1>1, <1>2 DEF TurnRow, TerminalStatus
<1> QED  BY <1>3 DEF EndsAs

\* A turn fails or is cancelled.
LEMMA EndsBadly ==
  ASSUME DbInv, NEW t \in Turns, Active(t), NEW s \in {"failed", "cancelled"},
         NEW o \in {"none", "failed", "cancelled"},
         row' = [row EXCEPT ![t] = Ended(row[t], s, o)],
         message' = [message EXCEPT ![t] = "failed"]
  PROVE  DbInv' /\ RowsMove
<1>1. PICK x : x = Ended(row[t], s, o)
  OBVIOUS
<1>2. /\ x \in TurnRow /\ x.kind = row[t].kind /\ x.source = row[t].source
      /\ x.question = row[t].question /\ x.status = s /\ x.leased = FALSE
      /\ x.invocation # "started"
      /\ x.capability = "live" => row[t].capability = "live" /\ row[t].invocation # "started"
  <2>1. row[t] \in TurnRow
    BY DEF DbInv, DbTyped
  <2>2. s \in TerminalStatus /\ o \in {"none", "complete", "failed", "cancelled"}
    BY DEF TerminalStatus
  <2>3. EndsAs(x, row[t], s, o)
    BY <1>1, <2>1, <2>2, EndedRow
  <2> QED  BY <2>3 DEF EndsAs
<1>3. /\ row'[t] = x /\ \A u \in Turns \ {t} : row'[u] = row[u]
      /\ row' \in [Turns -> TurnRow]
  BY <1>1, <1>2 DEF DbInv, DbTyped
<1>4. /\ message'[t] = "failed" /\ \A u \in Turns \ {t} : message'[u] = message[u]
      /\ message' \in [Turns -> MessageStatus]
  BY DEF DbInv, DbTyped, MessageStatus
<1>5. ~ Active(t)' /\ \A u \in Turns \ {t} : Active(u)' <=> Active(u)
  BY <1>2, <1>3 DEF Active, ActiveStatus
<1>6. RowsMove
  BY <1>2, <1>3, <1>5 DEF RowsMove, Active, HasRow, ActiveStatus
<1>7. DbTyped'
  BY <1>2, <1>3, <1>4, <1>5 DEF DbInv, DbTyped
<1>8. RowsAgree'
  <2> SUFFICES ASSUME NEW u \in Turns PROVE Agree(u)'
    BY AgreeNext
  <2>1. Agree(u)
    BY AgreeAll DEF DbInv
  <2>2. (\E w \in Turns : row[w].source = u) => \E w \in Turns : row'[w].source = u
    BY <1>6 DEF RowsMove
  <2>3. CASE u = t
    BY <1>2, <1>3, <1>4, <1>5, <2>1, <2>2, <2>3 DEF Agree
  <2>4. CASE u # t
    BY <1>3, <1>4, <1>5, <2>1, <2>2, <2>4 DEF Agree
  <2> QED  BY <2>3, <2>4
<1>9. OneAnswer'
  <2>1. row[t].status # "completed"
    BY DEF Active, ActiveStatus
  <2>2. \A u \in Turns : row'[u].status = "completed" <=> row[u].status = "completed"
    BY <1>2, <1>3, <2>1
  <2>3. \A u \in Turns : row[u].status = "completed" =>
          /\ row'[u].question = row[u].question
          /\ message'[u] = "completed" <=> message[u] = "completed"
    BY <1>3, <1>4, <2>1
  <2> QED  BY <2>2, <2>3, OneAnswerKept DEF DbInv
<1> QED  BY <1>6, <1>7, <1>8, <1>9, ChainKept DEF DbInv

(***************************************************************************)
(* What a turn replaces                                                    *)
(***************************************************************************)
\* The completed turns of its question before it.
Prior(t) == {u \in Turns : u < t /\ SameQuestion(u, t) /\ row[u].status = "completed"}
Greatest(T) == {n \in T : \A m \in T : m <= n}

\* A turn replaces the latest answer of its question, if there is one: a retry goes back to the
\* turn before it, a regeneration is of the answer itself.
LEMMA LineIsPrior ==
  ASSUME Chain, NEW t \in Turns, HasRow(t)
  PROVE  Line[t] = Greatest(Prior(t))
<1> DEFINE Bad == {u \in Turns : HasRow(u) /\ Line[u] # Greatest(Prior(u))}
<1> SUFFICES ASSUME Bad # {} PROVE FALSE
  OBVIOUS
<1>1. PICK n \in Bad : \A m \in Bad : n <= m
  <2>1. Bad \in SUBSET Nat
    BY ChatAssumption DEF Turns
  <2> HIDE DEF Bad
  <2> QED  BY <2>1, LeastExists
<1>2. n \in Turns /\ HasRow(n) /\ RowInv(n) /\ n \in Nat
  BY ChatAssumption DEF Chain, RowsInv, Turns
<1>3. \A u \in Turns : HasRow(u) /\ u < n => Line[u] = Greatest(Prior(u))
  BY <1>1, <1>2, ChatAssumption DEF Turns
<1>4. Backwards
  <2> SUFFICES ASSUME NEW u \in Turns, row[u].kind = "retry"
               PROVE  row[u].source \in 1 .. (u - 1)
    BY DEF Backwards
  <2>1. RowInv(u)
    BY DEF Chain, RowsInv
  <2>2. NoRow.kind # "retry"
    BY DEF NoRow
  <2> QED  BY <2>1, <2>2 DEF RowInv
<1>5. Line[n] = Body(Line, n)
  BY <1>2, <1>4, LineUnfolds
<1> HIDE DEF Bad
<1>6. CASE row[n].kind = "user"
  <2>1. Prior(n) = {}
    <3> SUFFICES ASSUME NEW u \in Turns, u < n, SameQuestion(u, n), row[u].status = "completed"
                 PROVE  FALSE
      BY DEF Prior
    <3>1. RowInv(u) /\ HasRow(u)
      BY DEF Chain, RowsInv, HasRow
    <3> QED  BY <1>2, <1>6, <3>1 DEF RowInv, SameQuestion
  <2>2. Line[n] = {}
    BY <1>5, <1>6 DEF Body
  <2>3. Line[n] = Greatest(Prior(n))
    BY <2>1, <2>2 DEF Greatest
  <2> QED  BY <1>1, <2>3 DEF Bad
<1>7. CASE row[n].kind # "user"
  <2>1. PICK s \in Turns : /\ s = row[n].source /\ s \in Nat /\ s < n
                           /\ HasRow(s) /\ SameQuestion(s, n)
                           /\ \A u \in Turns : s < u /\ u < n => ~ SameQuestion(u, n)
    BY <1>2, <1>7, ChatAssumption DEF RowInv, Turns
  <2>2. \A u \in Turns : u \in Prior(n) <=>
            \/ u = s /\ row[s].status = "completed"
            \/ u \in Prior(s)
    <3> SUFFICES ASSUME NEW u \in Turns
                 PROVE  u \in Prior(n) <=> \/ u = s /\ row[s].status = "completed"
                                           \/ u \in Prior(s)
      OBVIOUS
    <3>1. u \in Nat
      BY ChatAssumption DEF Turns
    <3>2. SameQuestion(u, n) <=> SameQuestion(u, s)
      BY <2>1 DEF SameQuestion
    <3> QED  BY <1>2, <2>1, <3>1, <3>2 DEF Prior
  <2>3. CASE row[n].kind = "retry"
    <3>1. row[s].status = "failed"
      BY <1>2, <2>1, <2>3 DEF RowInv
    <3>2. Prior(n) = Prior(s)
      <4>1. Prior(n) \subseteq Turns /\ Prior(s) \subseteq Turns
        BY DEF Prior
      <4> QED  BY <2>2, <3>1, <4>1
    <3>3. Line[n] = Line[s]
      BY <1>5, <2>1, <2>3 DEF Body
    <3>4. Line[n] = Greatest(Prior(n))
      BY <1>3, <2>1, <3>2, <3>3
    <3> QED  BY <1>1, <3>4 DEF Bad
  <2>4. CASE row[n].kind = "regenerate"
    <3>1. row[s].status = "completed"
      BY <1>2, <2>1, <2>4 DEF RowInv
    <3>2. Line[n] = {s}
      BY <1>5, <2>1, <2>4 DEF Body
    <3>3. s \in Prior(n) /\ \A u \in Prior(n) : u <= s /\ (u # s => ~ (s <= u))
      <4>1. s \in Prior(n)
        BY <2>2, <3>1
      <4>2. ASSUME NEW u \in Prior(n) PROVE u <= s /\ (u # s => ~ (s <= u))
        <5>1. u \in Turns /\ u \in Nat
          BY ChatAssumption DEF Prior, Turns
        <5>2. u = s \/ u < s
          BY <2>2, <5>1 DEF Prior
        <5> QED  BY <2>1, <5>1, <5>2
      <4> QED  BY <4>1, <4>2
    <3>4. Greatest(Prior(n)) = {s}
      BY <3>3 DEF Greatest
    <3> QED  BY <1>1, <3>2, <3>4 DEF Bad
  <2> QED  BY <1>2, <1>7, <2>3, <2>4 DEF RowInv
<1> QED  BY <1>6, <1>7

\* A turn completes: its answer is the one of its question, and replaces the one there was.
LEMMA Completes ==
  ASSUME DbInv, NEW t \in Turns, Active(t), NEW o \in {"none", "complete"}, RecordAnswer(t, o)
  PROVE  DbInv' /\ RowsMove
<1>1. PICK x : x = Ended(row[t], "completed", o)
  OBVIOUS
<1>2. /\ x \in TurnRow /\ x.kind = row[t].kind /\ x.source = row[t].source
      /\ x.question = row[t].question /\ x.status = "completed" /\ x.leased = FALSE
      /\ x.invocation # "started"
      /\ x.capability = "live" => row[t].capability = "live" /\ row[t].invocation # "started"
  <2>1. row[t] \in TurnRow
    BY DEF DbInv, DbTyped
  <2>2. "completed" \in TerminalStatus /\ o \in {"none", "complete", "failed", "cancelled"}
    BY DEF TerminalStatus
  <2>3. EndsAs(x, row[t], "completed", o)
    BY <1>1, <2>1, <2>2, EndedRow
  <2> QED  BY <2>3 DEF EndsAs
<1>3. /\ row'[t] = x /\ \A u \in Turns \ {t} : row'[u] = row[u]
      /\ row' \in [Turns -> TurnRow]
  <2>1. row' = [row EXCEPT ![t] = x]
    BY <1>1 DEF RecordAnswer
  <2> QED  BY <1>2, <2>1 DEF DbInv, DbTyped
<1>4. HasRow(t) /\ row[t].status # "completed"
  BY DEF HasRow, Active, ActiveStatus
<1>5. Line[t] = Greatest(Prior(t))
  BY <1>4, LineIsPrior DEF DbInv
<1>6. /\ message'[t] = "completed"
      /\ \A u \in Turns \ {t} :
            message'[u] = IF u \in Line[t] /\ message[u] = "completed" THEN "superseded"
                          ELSE message[u]
      /\ DOMAIN message' = Turns /\ message' = [u \in Turns |-> message'[u]]
  BY DEF RecordAnswer, Replaced
<1>7. ~ Active(t)' /\ \A u \in Turns \ {t} : Active(u)' <=> Active(u)
  BY <1>2, <1>3 DEF Active, ActiveStatus
<1>8. RowsMove
  BY <1>2, <1>3, <1>7 DEF RowsMove, Active, HasRow, ActiveStatus
<1>9. DbTyped'
  <2>1. \A u \in Turns : message'[u] \in MessageStatus
    BY <1>6 DEF DbInv, DbTyped, MessageStatus
  <2>2. message' \in [Turns -> MessageStatus]
    BY <1>6, <2>1
  <2> QED  BY <1>2, <1>3, <1>7, <2>2 DEF DbInv, DbTyped
<1>10. \A u \in Turns : u \in Line[t] =>
           /\ u # t /\ row[u].status = "completed" /\ SameQuestion(u, t)
           /\ \E w \in Turns : row[w].source = u
  <2> SUFFICES ASSUME NEW u \in Turns, u \in Prior(t)
               PROVE  /\ u # t /\ row[u].status = "completed" /\ SameQuestion(u, t)
                      /\ \E w \in Turns : row[w].source = u
    BY <1>5 DEF Greatest
  <2>1. u < t /\ SameQuestion(u, t) /\ row[u].status = "completed" /\ HasRow(u)
    BY DEF Prior, HasRow
  <2>2. \E w \in Turns : row[w].source = u
    BY <1>4, <2>1 DEF DbInv, Chain, NextInv
  <2> QED  BY <1>4, <2>1, <2>2
<1>11. RowsAgree'
  <2> SUFFICES ASSUME NEW u \in Turns PROVE Agree(u)'
    BY AgreeNext
  <2>1. Agree(u)
    BY AgreeAll DEF DbInv
  <2>2. (\E w \in Turns : row[w].source = u) => \E w \in Turns : row'[w].source = u
    BY <1>8 DEF RowsMove
  <2>3. CASE u = t
    BY <1>2, <1>3, <1>6, <1>7, <2>1, <2>3 DEF Agree
  <2>4. CASE u # t /\ u \in Line[t] /\ message[u] = "completed"
    <3>1. message'[u] = "superseded" /\ row'[u] = row[u] /\ row[u].status = "completed"
      BY <1>3, <1>6, <1>10, <2>4
    <3> QED  BY <1>7, <1>10, <2>1, <2>2, <2>4, <3>1 DEF Agree
  <2>5. CASE u # t /\ ~ (u \in Line[t] /\ message[u] = "completed")
    <3>1. message'[u] = message[u] /\ row'[u] = row[u]
      BY <1>3, <1>6, <2>5
    <3> QED  BY <1>7, <2>1, <2>2, <2>5, <3>1 DEF Agree
  <2> QED  BY <2>3, <2>4, <2>5
<1>12. OneAnswer'
  <2> SUFFICES ASSUME NEW q \in Turns
               PROVE  LET completed == {u \in Turns : row'[u].question = q
                                                      /\ row'[u].status = "completed"} IN
                      completed # {} => \E m \in completed : /\ \A u \in completed : u <= m
                                                            /\ completed \cap Answers' = {m}
    BY DEF OneAnswer
  <2> DEFINE now == {u \in Turns : row[u].question = q /\ row[u].status = "completed"}
             then == {u \in Turns : row'[u].question = q /\ row'[u].status = "completed"}
  <2>1. now # {} => \E m \in now : /\ \A u \in now : u <= m
                                   /\ now \cap Answers = {m}
    BY DEF DbInv, OneAnswer
  <2>2. CASE row[t].question # q
    <3>1. then = now
      BY <1>2, <1>3, <1>4, <2>2
    <3>2. then \cap Answers' = now \cap Answers
      <4>1. \A u \in now : u # t /\ u \notin Line[t]
        BY <1>10, <2>2 DEF SameQuestion
      <4>2. \A u \in now : message'[u] = message[u]
        BY <1>6, <4>1
      <4> QED  BY <3>1, <4>2 DEF Answers
    <3> QED  BY <2>1, <3>1, <3>2
  <2>3. CASE row[t].question = q
    <3>1. then = now \cup {t}
      BY <1>2, <1>3, <1>4, <2>3
    <3>2. now = Prior(t)
      <4>1. ASSUME NEW u \in now PROVE u < t
        <5>1. u <= t /\ u # t
          BY <1>4, <4>1 DEF DbInv, Chain, LastInv, HasRow
        <5> QED  BY <5>1, ChatAssumption DEF Turns
      <4> QED  BY <2>3, <4>1 DEF Prior, SameQuestion
    <3>3. \A u \in then : u <= t
      BY <3>1, <3>2, ChatAssumption DEF Prior, Turns
    <3>4. ASSUME NEW u \in now PROVE message'[u] # "completed"
      <4>1. u \in Turns /\ u # t
        BY <1>4
      <4>2. CASE message[u] = "completed"
        <5>1. PICK m \in now : (\A v \in now : v <= m) /\ now \cap Answers = {m}
          BY <2>1
        <5>2. u = m
          BY <4>1, <4>2, <5>1 DEF Answers
        <5>3. u \in Line[t]
          BY <1>5, <3>2, <5>1, <5>2 DEF Greatest
        <5> QED  BY <1>6, <4>1, <4>2, <5>3
      <4>3. CASE message[u] # "completed"
        BY <1>6, <4>1, <4>3
      <4> QED  BY <4>2, <4>3
    <3>5. then \cap Answers' = {t}
      BY <1>6, <3>1, <3>4 DEF Answers
    <3> QED  BY <3>1, <3>3, <3>5
  <2> QED  BY <2>2, <2>3
<1> QED  BY <1>8, <1>9, <1>11, <1>12, ChainKept DEF DbInv

(***************************************************************************)
(* Creating a turn                                                         *)
(***************************************************************************)
LEMMA ReapedRow ==
  ASSUME DbTyped, NEW t \in Turns
  PROVE  /\ Lapsed(t) => EndsAs(ReapedRows[t], row[t], "failed", "none")
         /\ ~ Lapsed(t) => ReapedRows[t] = row[t]
         /\ ReapedRows[t] \in TurnRow
<1>1. row[t] \in TurnRow
  BY DEF DbTyped
<1>2. EndsAs(Ended(row[t], "failed", "none"), row[t], "failed", "none")
  BY <1>1, EndedRow DEF TerminalStatus
<1>3. ReapedRows[t] = IF Lapsed(t) THEN Ended(row[t], "failed", "none") ELSE row[t]
  BY DEF ReapedRows
<1> QED  BY <1>1, <1>2, <1>3 DEF EndsAs

LEMMA CreateDuplicateDb ==
  ASSUME DbInv, CreateDuplicate
  PROVE  DbInv' /\ RowsMove
<1>1. /\ row' \in [Turns -> TurnRow]
      /\ \A t \in Turns : /\ Lapsed(t) => EndsAs(row'[t], row[t], "failed", "none")
                          /\ ~ Lapsed(t) => row'[t] = row[t]
  <2>1. row' = ReapedRows /\ ReapedRows = [t \in Turns |-> ReapedRows[t]]
    BY DEF CreateDuplicate, ReapedRows
  <2>2. \A t \in Turns : ReapedRows[t] \in TurnRow
    BY ReapedRow DEF DbInv
  <2>3. ReapedRows \in [Turns -> TurnRow]
    BY <2>1, <2>2
  <2> QED  BY <2>1, <2>3, ReapedRow DEF DbInv
<1>2. /\ message' \in [Turns -> MessageStatus]
      /\ \A t \in Turns : message'[t] = IF Lapsed(t) THEN "failed" ELSE message[t]
  BY DEF CreateDuplicate, ReapedMessages, DbInv, DbTyped, MessageStatus
<1>3. \A t \in Turns : /\ Active(t)' <=> Active(t) /\ ~ Lapsed(t)
                       /\ Lapsed(t) => Active(t)
  BY <1>1 DEF Active, Lapsed, ActiveStatus, EndsAs
<1>4. RowsMove
  BY <1>1, <1>3 DEF RowsMove, EndsAs, Active, HasRow, ActiveStatus
<1>5. DbTyped'
  BY <1>1, <1>2, <1>3 DEF DbInv, DbTyped, EndsAs
<1>6. RowsAgree'
  <2> SUFFICES ASSUME NEW u \in Turns PROVE Agree(u)'
    BY AgreeNext
  <2>1. Agree(u)
    BY AgreeAll DEF DbInv
  <2>2. (\E w \in Turns : row[w].source = u) => \E w \in Turns : row'[w].source = u
    BY <1>4 DEF RowsMove
  <2>3. CASE Lapsed(u)
    BY <1>1, <1>2, <1>3, <2>1, <2>2, <2>3 DEF Agree, EndsAs
  <2>4. CASE ~ Lapsed(u)
    BY <1>1, <1>2, <1>3, <2>1, <2>2, <2>4 DEF Agree
  <2> QED  BY <2>3, <2>4
<1>7. OneAnswer'
  <2>1. \A u \in Turns : Lapsed(u) => row[u].status # "completed"
    BY DEF Lapsed, Active, ActiveStatus
  <2>2. \A u \in Turns : row'[u].status = "completed" <=> row[u].status = "completed"
    BY <1>1, <2>1 DEF EndsAs
  <2>3. \A u \in Turns : row[u].status = "completed" =>
          /\ row'[u].question = row[u].question
          /\ message'[u] = "completed" <=> message[u] = "completed"
    BY <1>1, <1>2, <2>1
  <2> QED  BY <2>2, <2>3, OneAnswerKept DEF DbInv
<1> QED  BY <1>4, <1>5, <1>6, <1>7, ChainKept DEF DbInv

\* The kinds, sources and runtimes a create is asked for.
Kinds == {"user", "retry", "regenerate"}

\* A successor is made of its source's status, and a source without one of that kind has none:
\* it is the last turn of its question.
LEMMA SourceIsLast ==
  ASSUME Chain, NEW s \in Turns, NEW kind \in {"retry", "regenerate"},
         \A w \in Turns : ~ Succeeds(w, s, kind),
         kind = "retry" => row[s].status = "failed",
         kind = "regenerate" => row[s].status = "completed"
  PROVE  HasRow(s) /\ \A u \in Turns : HasRow(u) /\ s < u => ~ SameQuestion(s, u)
<1>1. HasRow(s)
  BY DEF HasRow
<1>2. ASSUME NEW u \in Turns, HasRow(u), s < u, SameQuestion(s, u) PROVE FALSE
  <2>1. PICK w \in Turns : HasRow(w) /\ row[w].source = s
    BY <1>1, <1>2 DEF Chain, NextInv
  <2>2. RowInv(w) /\ s # NoTurn
    BY ChatAssumption DEF Chain, RowsInv, Turns, NoTurn
  <2>3. row[w].kind = kind
    BY <2>1, <2>2 DEF RowInv
  <2> QED  BY <2>1, <2>3 DEF Succeeds
<1> QED  BY <1>1, <1>2

\* What a create does: the next turn t gets the row x, and the lapsed turn fails.
Creates(t, x, kind, source) ==
    /\ Created = 1 .. (t - 1)
    /\ \A u \in Turns : Active(u) => Lapsed(u)
    /\ kind = "user" => source = NoTurn
    /\ kind = "retry" => row[source].status = "failed"
    /\ kind = "regenerate" => row[source].status = "completed"
    /\ kind # "user" => /\ source \in Turns /\ source \in 1 .. (t - 1) /\ HasRow(source)
                        /\ \A u \in Turns : HasRow(u) /\ source < u => ~ SameQuestion(source, u)
    /\ x \in TurnRow /\ x.kind = kind /\ x.source = source
    /\ x.question = IF kind = "user" THEN t ELSE row[source].question
    /\ x.status = "accepted" /\ x.leased = TRUE
    /\ x.invocation = "none" /\ x.capability = "none"
    /\ row'[t] = x /\ row' \in [Turns -> TurnRow]
    /\ \A u \in Turns \ {t} : /\ Lapsed(u) => EndsAs(row'[u], row[u], "failed", "none")
                              /\ ~ Lapsed(u) => row'[u] = row[u]
    /\ message' \in [Turns -> MessageStatus]
    /\ message'[t] = "pending"
    /\ \A u \in Turns \ {t} :
          message'[u] = IF kind = "retry" /\ u = source /\ message[u] = "failed"
                        THEN "superseded"
                        ELSE IF Lapsed(u) THEN "failed" ELSE message[u]

LEMMA CreateLooks ==
  ASSUME DbInv, NEW kind \in Kinds, NEW source \in Turns \cup {NoTurn},
         NEW runtime \in Runtimes, Create(kind, source, runtime)
  PROVE  \E t \in Turns : \E x \in TurnRow : Creates(t, x, kind, source)
<1>1. PICK n \in 0 .. MaxTurns : Created = 1 .. n
  BY DEF DbInv, Chain, PrefixInv
<1>2. PICK t \in Turns : t = n + 1 /\ t = Cardinality(Created) + 1
  <2>1. Cardinality(Created) = n
    BY <1>1, FS_Interval
  <2> QED  BY <1>1, <2>1 DEF Create
<1>3. \A u \in Turns : /\ u \in Nat
                       /\ HasRow(u) <=> u < t
  BY <1>1, <1>2, ChatAssumption DEF Created, HasRow, Turns
<1>4. \A u \in Turns : Active(u) => Lapsed(u)
  BY <1>2 DEF Create
<1>5. ~ HasRow(t) /\ row[t] = NoRow
  BY <1>3 DEF DbInv, Chain, RowsInv, RowInv
<1>6. /\ kind = "user" => source = NoTurn
      /\ kind # "user" => source \in Turns /\ \A w \in Turns : ~ Succeeds(w, source, kind)
      /\ kind = "retry" => row[source].status = "failed"
      /\ kind = "regenerate" => row[source].status = "completed"
  BY <1>2 DEF Create
<1>7. kind # "user" => /\ source \in Turns /\ source \in 1 .. (t - 1) /\ HasRow(source)
                       /\ \A u \in Turns : HasRow(u) /\ source < u => ~ SameQuestion(source, u)
  <2> SUFFICES ASSUME kind # "user"
               PROVE  /\ source \in Turns /\ source \in 1 .. (t - 1) /\ HasRow(source)
                      /\ \A u \in Turns : HasRow(u) /\ source < u => ~ SameQuestion(source, u)
    OBVIOUS
  <2>1. source \in Turns /\ kind \in {"retry", "regenerate"}
    BY <1>6 DEF Kinds
  <2>2. HasRow(source) /\ \A u \in Turns : HasRow(u) /\ source < u => ~ SameQuestion(source, u)
    BY <1>6, <2>1, SourceIsLast DEF DbInv
  <2>3. source \in 1 .. (t - 1)
    BY <1>2, <1>3, <2>1, <2>2, ChatAssumption DEF Turns
  <2> QED  BY <2>1, <2>2, <2>3
<1> DEFINE question == IF kind = "user" THEN t ELSE row[source].question
           context == IF kind = "user" THEN Seed ELSE row[source].context
           x == [NoRow EXCEPT !.kind = kind, !.source = source, !.runtime = runtime,
                              !.question = question, !.context = context,
                              !.status = "accepted", !.leased = TRUE]
<1>8. /\ x \in TurnRow /\ x.kind = kind /\ x.source = source /\ x.question = question
      /\ x.status = "accepted" /\ x.leased = TRUE
      /\ x.invocation = "none" /\ x.capability = "none"
  <2>1. question \in Turns \cup {NoTurn}
    BY <1>7 DEF DbInv, DbTyped, TurnRow
  <2>2. context \in Snapshot
    BY <1>7 DEF DbInv, DbTyped, TurnRow, Seed, Snapshot
  <2>3. NoRow \in TurnRow /\ NoRow.invocation = "none" /\ NoRow.capability = "none"
    BY NoRowTyped DEF NoRow
  <2> HIDE DEF question, context
  <2> QED  BY <2>1, <2>2, <2>3 DEF TurnRow, ActiveStatus, Kinds
<1>9. row' = [ReapedRows EXCEPT ![t] = x]
  BY <1>2 DEF Create
<1> HIDE DEF x
<1>10. /\ row'[t] = x /\ row' \in [Turns -> TurnRow]
       /\ \A u \in Turns \ {t} : /\ Lapsed(u) => EndsAs(row'[u], row[u], "failed", "none")
                                 /\ ~ Lapsed(u) => row'[u] = row[u]
  <2>1. ReapedRows = [u \in Turns |-> ReapedRows[u]]
    BY DEF ReapedRows
  <2>2. \A u \in Turns : ReapedRows[u] \in TurnRow
    BY ReapedRow DEF DbInv
  <2>3. ReapedRows \in [Turns -> TurnRow]
    BY <2>1, <2>2
  <2>4. /\ row'[t] = x /\ row' \in [Turns -> TurnRow]
        /\ \A u \in Turns \ {t} : row'[u] = ReapedRows[u]
    BY <1>8, <1>9, <2>3
  <2> QED  BY <2>4, ReapedRow DEF DbInv
<1>11. /\ message' \in [Turns -> MessageStatus]
       /\ message'[t] = "pending"
       /\ \A u \in Turns \ {t} :
             message'[u] = IF kind = "retry" /\ u = source /\ message[u] = "failed"
                           THEN "superseded"
                           ELSE IF Lapsed(u) THEN "failed" ELSE message[u]
  <2>1. message' = [s \in Turns |->
          IF s = t THEN "pending"
          ELSE IF kind = "retry" /\ s = source /\ message[s] = "failed" THEN "superseded"
          ELSE ReapedMessages[s]]
    BY <1>2 DEF Create
  <2>2. \A u \in Turns : ReapedMessages[u] = IF Lapsed(u) THEN "failed" ELSE message[u]
    BY DEF ReapedMessages
  <2>3. \A u \in Turns : message[u] \in MessageStatus
    BY DEF DbInv, DbTyped
  <2>4. \A u \in Turns : message'[u] \in MessageStatus
    BY <2>1, <2>2, <2>3 DEF MessageStatus
  <2> QED  BY <2>1, <2>2, <2>4
<1>12. x.question = IF kind = "user" THEN t ELSE row[source].question
  BY <1>8
<1>13. Created = 1 .. (t - 1)
  BY <1>1, <1>2
<1> HIDE DEF question
<1>14. Creates(t, x, kind, source)
  BY <1>4, <1>6, <1>7, <1>8, <1>10, <1>11, <1>12, <1>13 DEF Creates
<1> QED  BY <1>8, <1>14

LEMMA CreateDb ==
  ASSUME DbInv, ToldTruth, NEW kind \in Kinds, NEW source \in Turns \cup {NoTurn},
         NEW runtime \in Runtimes, Create(kind, source, runtime)
  PROVE  DbInv' /\ ToldTruth'
<1>1. PICK t \in Turns, x \in TurnRow : Creates(t, x, kind, source)
  BY CreateLooks
<1> DEFINE n == t - 1
           question == IF kind = "user" THEN t ELSE row[source].question
<1>2. n \in 0 .. MaxTurns /\ t = n + 1 /\ Created = 1 .. n
  BY <1>1, ChatAssumption DEF Creates, Turns
<1>3. \A u \in Turns : /\ u \in Nat
                       /\ HasRow(u) <=> u < t
  BY <1>2, ChatAssumption DEF Created, HasRow, Turns
<1>4. \A u \in Turns : Active(u) => Lapsed(u)
  BY <1>1 DEF Creates
<1>5. ~ HasRow(t) /\ row[t] = NoRow
  BY <1>3 DEF DbInv, Chain, RowsInv, RowInv
<1>6. /\ kind = "user" => source = NoTurn
      /\ kind = "retry" => row[source].status = "failed"
      /\ kind = "regenerate" => row[source].status = "completed"
  BY <1>1 DEF Creates
<1>7. kind # "user" => /\ source \in Turns /\ source \in 1 .. (t - 1) /\ HasRow(source)
                       /\ \A u \in Turns : HasRow(u) /\ source < u => ~ SameQuestion(source, u)
  BY <1>1 DEF Creates
<1>8. /\ x \in TurnRow /\ x.kind = kind /\ x.source = source /\ x.question = question
      /\ x.status = "accepted" /\ x.invocation = "none" /\ x.capability = "none"
  BY <1>1 DEF Creates
<1>9. x.leased = TRUE
  BY <1>1 DEF Creates
<1>10. /\ row'[t] = x /\ row' \in [Turns -> TurnRow]
       /\ \A u \in Turns \ {t} : /\ Lapsed(u) => EndsAs(row'[u], row[u], "failed", "none")
                                 /\ ~ Lapsed(u) => row'[u] = row[u]
  BY <1>1 DEF Creates
<1>11. /\ message' \in [Turns -> MessageStatus]
       /\ message'[t] = "pending"
       /\ \A u \in Turns \ {t} :
             message'[u] = IF kind = "retry" /\ u = source /\ message[u] = "failed"
                           THEN "superseded"
                           ELSE IF Lapsed(u) THEN "failed" ELSE message[u]
  BY <1>1 DEF Creates
<1> HIDE DEF n
<1>12. \A u \in Turns \ {t} : /\ row'[u].kind = row[u].kind
                              /\ row'[u].source = row[u].source
                              /\ row'[u].question = row[u].question
                              /\ HasRow(u)' <=> HasRow(u)
                              /\ ~ Active(u)'
                              /\ ~ Active(u) => row'[u] = row[u]
                              /\ Active(u) => row'[u].status = "failed"
  BY <1>4, <1>10 DEF EndsAs, HasRow, Active, Lapsed, ActiveStatus
<1>13. Active(t)' /\ HasRow(t)'
  BY <1>8, <1>10 DEF Active, HasRow, ActiveStatus
<1>14. \A u, v \in Turns : u # t /\ v # t => (SameQuestion(u, v)' <=> SameQuestion(u, v))
  BY <1>12 DEF SameQuestion
<1>15. \A u \in Turns : u # t /\ kind # "user" =>
           (SameQuestion(u, t)' <=> SameQuestion(u, source))
  BY <1>8, <1>10, <1>12 DEF SameQuestion
<1>16. \A u \in Turns : HasRow(u) /\ kind = "user" => ~ SameQuestion(u, t)'
  <2> SUFFICES ASSUME NEW u \in Turns, HasRow(u), kind = "user" PROVE ~ SameQuestion(u, t)'
    OBVIOUS
  <2>1. row[u].question \in 1 .. u /\ u < t /\ u # t
    BY <1>3 DEF DbInv, Chain, RowsInv, RowInv
  <2> QED  BY <1>3, <1>8, <1>10, <1>12, <2>1 DEF SameQuestion
<1>17. DbTyped'
  <2>1. ASSUME NEW u \in Turns, u # t PROVE ~ row'[u].leased
    <3>1. CASE Lapsed(u)
      BY <1>10, <2>1, <3>1 DEF EndsAs
    <3>2. CASE ~ Lapsed(u)
      BY <1>4, <1>10, <2>1, <3>2 DEF DbInv, DbTyped
    <3> QED  BY <3>1, <3>2
  <2> QED  BY <1>10, <1>11, <1>13, <2>1 DEF DbTyped
<1>18. RowsInv'
  <2>1. RowInv(t)'
    <3>1. CASE kind = "user"
      BY <1>3, <1>6, <1>8, <1>10, <1>13, <3>1, ChatAssumption DEF RowInv, Turns
    <3>2. CASE kind # "user"
      <4>1. source # t /\ HasRow(source)' /\ SameQuestion(source, t)'
        BY <1>3, <1>7, <1>12, <1>15, <3>2 DEF SameQuestion
      <4>2. \A u \in Turns : source < u /\ u < t => ~ SameQuestion(u, t)'
        BY <1>3, <1>7, <1>15, <3>2 DEF SameQuestion
      <4>3. row'[source] = row[source]
        BY <1>6, <1>7, <1>12, <3>2, <4>1 DEF Active, ActiveStatus, Kinds
      <4>4. question \in 1 .. t
        <5>1. row[source].question \in 1 .. source
          BY <1>7, <3>2 DEF DbInv, Chain, RowsInv, RowInv
        <5> QED  BY <1>3, <1>7, <3>2, <5>1
      <4> QED
        BY <1>6, <1>7, <1>8, <1>10, <1>13, <3>2, <4>1, <4>2, <4>3, <4>4 DEF RowInv, Kinds
    <3> QED  BY <3>1, <3>2
  <2>2. ASSUME NEW u \in Turns, u # t PROVE RowInv(u)'
    <3>1. RowInv(u)
      BY DEF DbInv, Chain, RowsInv
    <3>2. CASE ~ HasRow(u)
      BY <1>12, <2>2, <3>1, <3>2 DEF RowInv, Active, HasRow, ActiveStatus
    <3>3. CASE HasRow(u) /\ row[u].kind = "user"
      BY <1>12, <2>2, <3>1, <3>3 DEF RowInv
    <3>4. CASE HasRow(u) /\ row[u].kind # "user"
      <4>1. PICK s \in Turns : s = row[u].source /\ s < u /\ s # t /\ HasRow(s)
        BY <1>3, <3>1, <3>4, ChatAssumption DEF RowInv, Turns
      <4>2. u < t
        BY <1>3, <3>4
      <4>3. row[s].status \in {"failed", "completed"} => row'[s].status = row[s].status
        BY <1>12, <4>1 DEF Active, ActiveStatus
      <4>4. \A v \in Turns : s < v /\ v < u => v # t
        BY <1>3, <4>2
      <4> QED
        BY <1>12, <1>14, <2>2, <3>1, <3>4, <4>1, <4>3, <4>4 DEF RowInv
    <3> QED  BY <3>2, <3>3, <3>4
  <2> QED  BY <2>1, <2>2 DEF RowsInv
<1>19. PrefixInv'
  <2>1. \A u \in Turns : HasRow(u)' <=> u \in 1 .. (n + 1)
    BY <1>2, <1>3, <1>12, <1>13, ChatAssumption DEF Turns
  <2>2. Created' = {u \in Turns : HasRow(u)'}
    BY DEF Created, HasRow
  <2>3. n + 1 \in 0 .. MaxTurns /\ 1 .. (n + 1) \subseteq Turns
    BY <1>2, ChatAssumption DEF Turns
  <2>4. Created' = 1 .. (n + 1)
    BY <2>1, <2>2, <2>3
  <2> QED  BY <2>3, <2>4 DEF PrefixInv
<1>20. LastInv'
  BY <1>3, <1>12, <1>13 DEF LastInv
<1>21. NextInv'
  <2> SUFFICES ASSUME NEW u \in Turns, NEW v \in Turns, HasRow(u)', HasRow(v)', u < v,
                      SameQuestion(u, v)'
               PROVE  \E w \in Turns : HasRow(w)' /\ row'[w].source = u
    BY DEF NextInv
  <2>1. u # t
    BY <1>3, <1>12
  <2>2. HasRow(u)
    BY <1>12, <2>1
  <2>3. ASSUME NEW z \in Turns, HasRow(z), u < z, SameQuestion(u, z)
        PROVE  \E w \in Turns : HasRow(w)' /\ row'[w].source = u
    <3>1. PICK w \in Turns : HasRow(w) /\ row[w].source = u
      BY <2>2, <2>3 DEF DbInv, Chain, NextInv
    <3>2. w # t
      BY <1>5, <3>1
    <3> QED  BY <1>12, <3>1, <3>2
  <2>4. CASE v # t
    BY <1>12, <1>14, <2>1, <2>3, <2>4
  <2>5. CASE v = t
    <3>1. kind # "user" /\ SameQuestion(u, source)
      BY <1>15, <1>16, <2>1, <2>2, <2>5
    <3>2. CASE u = source
      BY <1>8, <1>10, <1>13, <3>2
    <3>3. CASE u < source
      BY <1>7, <2>3, <3>1, <3>3
    <3>4. CASE source < u
      BY <1>7, <2>2, <3>1, <3>4 DEF SameQuestion
    <3> QED  BY <1>3, <1>7, <3>1, <3>2, <3>3, <3>4
  <2> QED  BY <2>4, <2>5
<1>22. RowsAgree'
  <2> SUFFICES ASSUME NEW u \in Turns PROVE Agree(u)'
    BY AgreeNext
  <2>1. Agree(u)
    BY AgreeAll DEF DbInv
  <2>2. (\E w \in Turns : row[w].source = u) => \E w \in Turns : row'[w].source = u
    <3>1. NoRow.source # u
      BY ChatAssumption DEF NoRow, NoTurn, Turns
    <3> QED  BY <1>5, <1>12, <3>1
  <2>3. CASE u = t
    BY <1>8, <1>10, <1>11, <1>13, <2>3 DEF Agree
  <2>4. CASE u # t /\ kind = "retry" /\ u = source /\ message[u] = "failed"
    <3>1. row[u].status = "failed"
      BY <1>6, <2>4
    <3>2. row'[u] = row[u] /\ ~ Active(u)' /\ message'[u] = "superseded"
      BY <1>11, <1>12, <2>4, <3>1 DEF Active, ActiveStatus
    <3>3. row'[t].source = u
      BY <1>8, <1>10, <2>4
    <3>4. ~ Active(u)
      BY <3>1 DEF Active, ActiveStatus
    <3> QED  BY <2>1, <3>1, <3>2, <3>3, <3>4 DEF Agree
  <2>5. CASE u # t /\ ~ (kind = "retry" /\ u = source /\ message[u] = "failed")
    <3>1. CASE Lapsed(u)
      BY <1>10, <1>11, <1>12, <2>1, <2>2, <2>5, <3>1 DEF Agree, EndsAs
    <3>2. CASE ~ Lapsed(u)
      BY <1>4, <1>10, <1>11, <1>12, <2>1, <2>2, <2>5, <3>2 DEF Agree
    <3> QED  BY <3>1, <3>2
  <2> QED  BY <2>3, <2>4, <2>5
<1>23. OneAnswer'
  <2>1. \A u \in Turns : u # t =>
          (row'[u].status = "completed" <=> row[u].status = "completed")
    BY <1>12 DEF Active, ActiveStatus
  <2>2. row'[t].status # "completed" /\ row[t].status # "completed"
    BY <1>5, <1>8, <1>10, NoRowTyped
  <2>3. \A u \in Turns : row[u].status = "completed" =>
          /\ row'[u].question = row[u].question
          /\ message'[u] = "completed" <=> message[u] = "completed"
    <3> SUFFICES ASSUME NEW u \in Turns, row[u].status = "completed"
                 PROVE  /\ row'[u].question = row[u].question
                        /\ message'[u] = "completed" <=> message[u] = "completed"
      OBVIOUS
    <3>1. u # t /\ ~ Lapsed(u) /\ ~ (kind = "retry" /\ u = source)
      BY <1>6, <2>2 DEF Lapsed, Active, ActiveStatus
    <3> QED  BY <1>11, <1>12, <3>1
  <2> QED  BY <2>1, <2>2, <2>3, OneAnswerKept DEF DbInv
<1>24. ToldTruth'
  <2> SUFFICES ASSUME NEW u \in Turns, told[u] \in {"completed", "failed", "cancelled"}
               PROVE  row'[u].status = told[u]
    BY DEF Create, ToldTruth
  <2>1. row[u].status = told[u]
    BY DEF ToldTruth
  <2>2. u # t
    BY <1>5, <2>1 DEF HasRow
  <2> QED  BY <1>12, <2>1, <2>2 DEF Active, ActiveStatus
<1> QED
  BY <1>17, <1>18, <1>19, <1>20, <1>21, <1>22, <1>23, <1>24 DEF DbInv, Chain

(***************************************************************************)
(* The steps                                                               *)
(***************************************************************************)
LEMMA AnnounceTyped ==
  ASSUME RunTyped, NEW t \in Turns, NEW s \in Steps, NEW e \in Events, Announce(t, s, e)
  PROVE  exec' \in [Turns -> [at : Steps, event : Events]]
  BY DEF RunTyped, Announce

LEMMA GoTyped ==
  ASSUME RunTyped, NEW t \in Turns, NEW s \in Steps, Go(t, s)
  PROVE  exec' \in [Turns -> [at : Steps, event : Events]]
<1>1. exec[t].event \in Events
  BY DEF RunTyped
<1> QED  BY <1>1, AnnounceTyped DEF Go

\* A step that leaves the rows and their answers alone, and tells nobody anything.
LEMMA DbSame ==
  ASSUME IInv, UNCHANGED db, told' = told,
         exec' \in [Turns -> [at : Steps, event : Events]]
  PROVE  IInv'
<1>1. row' = row /\ message' = message
  BY DEF db
<1>2. DbTyped' /\ RunTyped'
  BY <1>1 DEF IInv, DbTyped, RunTyped, Active
<1>3. RowsMove
  BY <1>1 DEF RowsMove, IInv, DbTyped, Active, ActiveStatus
<1>4. Chain'
  BY <1>3, ChainKept DEF IInv
<1>5. RowsAgree'
  BY <1>1 DEF IInv, RowsAgree, Active
<1>6. ToldTruth'
  BY <1>1 DEF IInv, ToldTruth
<1>7. OneAnswer'
  BY <1>1, OneAnswerKept DEF IInv
<1> QED  BY <1>2, <1>4, <1>5, <1>6, <1>7 DEF IInv

\* A step that moves the rows.
LEMMA DbMoves ==
  ASSUME IInv, DbInv', RowsMove, told' = told,
         exec' \in [Turns -> [at : Steps, event : Events]]
  PROVE  IInv'
  BY ToldKept DEF IInv, DbInv, RunTyped

LEMMA TransitionStep ==
  ASSUME IInv, NEW t \in Turns, NEW from \in ActiveStatus, NEW to \in ActiveStatus,
         NEW context \in Snapshot, NEW s \in Steps,
         Transition(t, from, to, context), Go(t, s)
  PROVE  IInv'
<1> DEFINE x == [row[t] EXCEPT !.status = to, !.context = context, !.leased = TRUE]
<1>1. row[t] \in TurnRow /\ Active(t) /\ Agree(t) /\ DbInv
  BY AgreeAll DEF IInv, DbInv, DbTyped, Transition, Active
<1>2. /\ x \in TurnRow /\ x.kind = row[t].kind /\ x.source = row[t].source
      /\ x.question = row[t].question /\ x.status = to
      /\ x.capability = row[t].capability /\ x.invocation = row[t].invocation
  BY <1>1 DEF TurnRow
<1>3. row' = [row EXCEPT ![t] = x]
  BY DEF Transition
<1> HIDE DEF x
<1>4. x.capability = "live" => x.invocation = "started"
  BY <1>1, <1>2 DEF Agree
<1>5. DbInv' /\ RowsMove
  BY <1>1, <1>2, <1>3, <1>4, Touched DEF Transition
<1>6. told' = told /\ exec' \in [Turns -> [at : Steps, event : Events]]
  BY GoTyped DEF IInv, Transition
<1> QED  BY <1>5, <1>6, DbMoves

LEMMA StatusNames ==
  /\ {"accepted", "grounding", "generating", "validating"} \subseteq ActiveStatus
  /\ {"seed", "prepare", "issue", "capture", "generate", "prompt", "validate", "complete",
      "recheck", "fail", "verify", "end"} \subseteq Steps
  /\ {"none", "completed", "failed", "cancelled"} \subseteq Events
  BY DEF ActiveStatus, Steps, Events

LEMMA PreparingSteps ==
  ASSUME IInv, NEW t \in Turns,
         WriteSeed(t) \/ Prepare(t) \/ Capture(t) \/ Generate(t) \/ Validate(t)
  PROVE  IInv'
<1>1. row[t] \in TurnRow /\ row[t].context \in Snapshot
  BY DEF IInv, DbTyped, TurnRow
<1>2. CASE WriteSeed(t)
  <2>1. Seed \in Snapshot
    BY DEF Seed, Snapshot
  <2> QED  BY <1>2, <2>1, StatusNames, TransitionStep DEF WriteSeed
<1>3. CASE Prepare(t)
  <2> DEFINE context == IF row[t].context.frozen THEN row[t].context ELSE Frozen
             s == IF Gateway(t) THEN "issue" ELSE "capture"
  <2>1. context \in Snapshot
    BY <1>1 DEF Frozen, Snapshot, Answers
  <2>2. s \in Steps
    BY StatusNames
  <2>3. Transition(t, "accepted", "grounding", context) /\ Go(t, s)
    BY <1>3 DEF Prepare
  <2> HIDE DEF context, s
  <2> QED  BY <2>1, <2>2, <2>3, StatusNames, TransitionStep
<1>4. CASE Capture(t)
  <2> DEFINE context == IF Gateway(t) THEN Frozen ELSE row[t].context
             s == IF Gateway(t) THEN "prompt" ELSE "generate"
  <2>1. context \in Snapshot
    BY <1>1 DEF Frozen, Snapshot, Answers
  <2>2. s \in Steps
    BY StatusNames
  <2>3. Transition(t, "grounding", "grounding", context) /\ Go(t, s)
    BY <1>4 DEF Capture
  <2> HIDE DEF context, s
  <2> QED  BY <2>1, <2>2, <2>3, StatusNames, TransitionStep
<1>5. CASE Generate(t)
  BY <1>1, <1>5, StatusNames, TransitionStep DEF Generate
<1>6. CASE Validate(t)
  BY <1>1, <1>6, StatusNames, TransitionStep DEF Validate
<1> QED  BY <1>2, <1>3, <1>4, <1>5, <1>6

LEMMA IssueStep ==
  ASSUME IInv, NEW t \in Turns, Issue(t)
  PROVE  IInv'
<1> DEFINE x == [row[t] EXCEPT !.invocation = "started", !.capability = "live"]
<1>1. row[t] \in TurnRow /\ Active(t) /\ DbInv
  BY DEF IInv, DbInv, DbTyped, Issue, Issuable
<1>2. /\ x \in TurnRow /\ x.kind = row[t].kind /\ x.source = row[t].source
      /\ x.question = row[t].question /\ x.status = row[t].status /\ x.invocation = "started"
  BY <1>1 DEF TurnRow
<1>3. row' = [row EXCEPT ![t] = x] /\ message' = message /\ told' = told /\ Go(t, "capture")
  BY DEF Issue
<1> HIDE DEF x
<1>4. DbInv' /\ RowsMove
  BY <1>1, <1>2, <1>3, Touched DEF Active
<1>5. exec' \in [Turns -> [at : Steps, event : Events]]
  BY <1>3, StatusNames, GoTyped DEF IInv
<1> QED  BY <1>3, <1>4, <1>5, DbMoves

LEMMA LapseStep ==
  ASSUME IInv, NEW t \in Turns, Lapse(t)
  PROVE  IInv'
<1> DEFINE x == [row[t] EXCEPT !.leased = FALSE]
<1>1. row[t] \in TurnRow /\ Active(t) /\ DbInv /\ Agree(t)
  BY AgreeAll DEF IInv, DbInv, DbTyped, Lapse
<1>2. /\ x \in TurnRow /\ x.kind = row[t].kind /\ x.source = row[t].source
      /\ x.question = row[t].question /\ x.status = row[t].status
      /\ x.capability = row[t].capability /\ x.invocation = row[t].invocation
  BY <1>1 DEF TurnRow
<1>3. row' = [row EXCEPT ![t] = x] /\ message' = message /\ told' = told /\ exec' = exec
  BY DEF Lapse
<1> HIDE DEF x
<1>4. DbInv' /\ RowsMove
  BY <1>1, <1>2, <1>3, Touched DEF Active, Agree
<1> QED  BY <1>3, <1>4, DbMoves DEF IInv, RunTyped

LEMMA CancelStep ==
  ASSUME IInv, NEW t \in Turns, Cancel(t)
  PROVE  IInv'
<1>1. DbInv /\ Active(t)
  BY DEF IInv, DbInv, Cancel
<1>2. DbInv' /\ RowsMove
  BY <1>1, EndsBadly DEF Cancel
<1> QED  BY <1>2, DbMoves DEF IInv, RunTyped, Cancel

\* What an executor writes when its turn fails or completes.
LEMMA RecordFailureDb ==
  ASSUME IInv, NEW t \in Turns, Active(t), NEW o \in {"none", "failed"}, RecordFailure(t, o)
  PROVE  DbInv' /\ RowsMove
<1>1. DbInv /\ o \in {"none", "failed", "cancelled"}
  BY DEF IInv, DbInv
<1> QED  BY <1>1, EndsBadly DEF RecordFailure

LEMMA FinishingSteps ==
  ASSUME IInv, NEW t \in Turns, Complete(t) \/ Fail(t) \/ FinishLegacy(t)
  PROVE  IInv'
<1>1. DbInv
  BY DEF IInv, DbInv
<1>2. told' = told
  BY DEF Complete, Fail, FinishLegacy
<1>3. exec' \in [Turns -> [at : Steps, event : Events]]
  <2>1. RunTyped
    BY DEF IInv
  <2>2. \/ \E s \in {"verify", "recheck"} : Go(t, s)
        \/ Announce(t, "fail", "failed")
    BY DEF Complete, Fail, FinishLegacy
  <2> QED  BY <2>1, <2>2, StatusNames, GoTyped, AnnounceTyped
<1>4. CASE UNCHANGED db
  BY <1>2, <1>3, <1>4, DbSame
<1>5. CASE RecordFailure(t, "failed") /\ MayFinish(t)
  <2>1. DbInv' /\ RowsMove
    BY <1>5, RecordFailureDb DEF MayFinish
  <2> QED  BY <1>2, <1>3, <2>1, DbMoves
<1>6. CASE RecordFailure(t, "none") /\ Active(t)
  <2>1. DbInv' /\ RowsMove
    BY <1>6, RecordFailureDb
  <2> QED  BY <1>2, <1>3, <2>1, DbMoves
<1>7. CASE \/ RecordAnswer(t, "complete") /\ MayFinish(t)
           \/ RecordAnswer(t, "none") /\ row[t].status = "validating"
  <2>1. Active(t) /\ \E o \in {"none", "complete"} : RecordAnswer(t, o)
    BY <1>7 DEF MayFinish, Active, ActiveStatus
  <2>2. DbInv' /\ RowsMove
    BY <1>1, <2>1, Completes
  <2> QED  BY <1>2, <1>3, <2>2, DbMoves
<1> QED  BY <1>4, <1>5, <1>6, <1>7 DEF Complete, Fail, FinishLegacy

LEMMA WaitingSteps ==
  ASSUME IInv, NEW t \in Turns,
         Answered(t) \/ AnsweredLegacy(t) \/ Caught(t) \/ Recheck(t)
  PROVE  IInv'
<1>1. UNCHANGED db /\ told' = told
  BY DEF Answered, AnsweredLegacy, Caught, Recheck, db
<1>2. \/ \E s \in {"complete", "fail", "validate"} :
             \E e \in {"completed", "failed", "cancelled"} : Announce(t, s, e)
      \/ Go(t, "verify")
  BY DEF Answered, AnsweredLegacy, Caught, Recheck
<1>3. exec' \in [Turns -> [at : Steps, event : Events]]
  BY <1>2, StatusNames, AnnounceTyped, GoTyped DEF IInv
<1> QED  BY <1>1, <1>3, DbSame

\* The stream ends: with the recorded end of the turn, or broken off.
LEMMA TellingSteps ==
  ASSUME IInv, NEW t \in Turns, Verify(t) \/ Stop(t)
  PROVE  IInv'
<1>1. PICK e \in Events \cup {"broken"} :
          /\ told' = [told EXCEPT ![t] = e]
          /\ e \in {"completed", "failed", "cancelled"} => row[t].status = e
  <2>1. exec[t].event \in Events
    BY DEF IInv, RunTyped
  <2>2. CASE Verify(t)
    <3>1. told' = [told EXCEPT ![t] = Announced(t)]
      BY <2>2 DEF Verify
    <3>2. Announced(t) \in Events \cup {"broken"}
      BY <2>1 DEF Announced
    <3>3. Announced(t) \in {"completed", "failed", "cancelled"} => row[t].status = Announced(t)
      BY DEF Announced, Shows
    <3> QED  BY <3>1, <3>2, <3>3
  <2>3. CASE Stop(t)
    <3>1. told' = [told EXCEPT ![t] = "broken"]
      BY <2>3 DEF Stop
    <3>2. "broken" \in Events \cup {"broken"} /\ "broken" \notin {"completed", "failed", "cancelled"}
      OBVIOUS
    <3> QED  BY <3>1, <3>2
  <2> QED  BY <2>2, <2>3
<1>2. UNCHANGED db /\ exec' \in [Turns -> [at : Steps, event : Events]]
  BY StatusNames, AnnounceTyped DEF Verify, Stop, IInv
<1>3. row' = row /\ message' = message
  BY <1>2 DEF db
<1>4. DbTyped'
  BY <1>3 DEF IInv, DbTyped, Active
<1>5. RunTyped'
  BY <1>1, <1>2 DEF IInv, RunTyped
<1>6. Chain'
  <2>1. RowsMove
    BY <1>3 DEF RowsMove, IInv, DbTyped, Active, ActiveStatus
  <2> QED  BY <2>1, ChainKept DEF IInv
<1>7. RowsAgree'
  BY <1>3 DEF IInv, RowsAgree, Active
<1>8. ToldTruth'
  BY <1>1, <1>3 DEF IInv, RunTyped, ToldTruth
<1>9. OneAnswer'
  BY <1>3, OneAnswerKept DEF IInv
<1> QED  BY <1>4, <1>5, <1>6, <1>7, <1>8, <1>9 DEF IInv

LEMMA CreateStep ==
  ASSUME IInv, NEW kind \in Kinds, NEW source \in Turns \cup {NoTurn}, NEW runtime \in Runtimes,
         Create(kind, source, runtime)
  PROVE  IInv'
<1>1. DbInv' /\ ToldTruth'
  BY CreateDb DEF IInv, DbInv
<1>2. told' = told /\ exec' \in [Turns -> [at : Steps, event : Events]]
  <2>1. PICK t \in Turns : Go(t, "seed")
    BY DEF Create
  <2> QED  BY <2>1, StatusNames, GoTyped DEF IInv, Create
<1> QED  BY <1>1, <1>2 DEF IInv, DbInv, RunTyped

LEMMA CreateDuplicateStep ==
  ASSUME IInv, CreateDuplicate
  PROVE  IInv'
<1>1. DbInv' /\ RowsMove
  BY CreateDuplicateDb DEF IInv, DbInv
<1> QED  BY <1>1, DbMoves DEF CreateDuplicate, IInv, RunTyped

LEMMA NextIInv == IInv /\ [Next]_vars => IInv'
<1> SUFFICES ASSUME IInv, [Next]_vars PROVE IInv'
  OBVIOUS
<1>1. CASE CreateDuplicate
  BY <1>1, CreateDuplicateStep
<1>2. ASSUME NEW kind \in {"user", "retry", "regenerate"}, NEW source \in Turns \cup {NoTurn},
             NEW runtime \in Runtimes, Create(kind, source, runtime)
      PROVE  IInv'
  BY <1>2, CreateStep DEF Kinds
<1>3. ASSUME NEW t \in Turns, Step(t) PROVE IInv'
  BY <1>3, PreparingSteps, IssueStep, LapseStep, CancelStep, FinishingSteps, WaitingSteps,
     TellingSteps
  DEF Step
<1>4. CASE UNCHANGED vars
  <2>1. UNCHANGED db /\ told' = told /\ exec' = exec
    BY <1>4 DEF vars, db
  <2> QED  BY <2>1, DbSame DEF IInv, RunTyped
<1> QED  BY <1>1, <1>2, <1>3, <1>4 DEF Next

(***************************************************************************)
(* Theorems                                                                *)
(***************************************************************************)
\* The invariant holds of every behaviour, for any number of turns.
THEOREM Invariance == Spec => []IInv
  BY InitIInv, NextIInv, PTL DEF Spec

\* Rows, messages, executors and what was told keep their types; a turn that has ended has no
\* lease, which the next create relies on.
THEOREM TypeCorrect == Spec => []TypeOK
<1>1. IInv => TypeOK
  BY DEF IInv, DbTyped, RunTyped, TypeOK
<1> QED  BY <1>1, Invariance, PTL

\* A question that was answered has one answer, that of its turn which completed last, through
\* any retries, regenerations, cancels and lapsed leases.
THEOREM OneAnswerHolds == Spec => []OneAnswer
<1>1. IInv => OneAnswer
  BY DEF IInv
<1> QED  BY <1>1, Invariance, PTL

\* A turn, its message, its invocation and its capability tell one story: none of the last two
\* outlives the turn.
THEOREM RowsAgreeHolds == Spec => []RowsAgree
<1>1. IInv => RowsAgree
  BY DEF IInv
<1> QED  BY <1>1, Invariance, PTL

\* What a stream told its client is the end the turn has, and keeps.
THEOREM ToldTruthHolds == Spec => []ToldTruth
<1>1. IInv => ToldTruth
  BY DEF IInv
<1> QED  BY <1>1, Invariance, PTL

(***************************************************************************)
(* The turns as one conversation                                           *)
(***************************************************************************)
States == [t \in Turns |-> StateOf(t)]
Questions == [t \in Turns |-> row[t].question]
Shown == [q \in Turns |-> ShownFor(q)]

\* A step that rewrites the row of one turn.
LEMMA OneState ==
  ASSUME DbTyped, NEW t \in Turns, NEW x \in TurnRow, row' = [row EXCEPT ![t] = x],
         x.question = row[t].question
  PROVE  /\ Questions' = Questions
         /\ States' = [States EXCEPT ![t] = IF x.status \in ActiveStatus
                                            THEN IF x.leased THEN "running" ELSE "lapsed"
                                            ELSE x.status]
<1>1. row'[t] = x /\ \A u \in Turns \ {t} : row'[u] = row[u]
  BY DEF DbTyped
<1>2. \A u \in Turns : row'[u].question = row[u].question
  BY <1>1
<1>3. Questions' = Questions
  BY <1>2 DEF Questions
<1>4. \A u \in Turns \ {t} : StateOf(u)' = StateOf(u)
  BY <1>1 DEF StateOf, Active
<1>5. StateOf(t)' = IF x.status \in ActiveStatus
                    THEN IF x.leased THEN "running" ELSE "lapsed" ELSE x.status
  BY <1>1 DEF StateOf, Active
<1> QED  BY <1>3, <1>4, <1>5 DEF States

\* The answers shown are those of the completed messages, under their questions.
LEMMA ShownSame ==
  ASSUME \A t \in Turns : row[t].question \in Turns \/ row'[t].question \in Turns =>
             \/ row'[t].question = row[t].question
                /\ (message'[t] = "completed" <=> message[t] = "completed")
             \/ /\ row[t].question \in Turns => message[t] # "completed"
                /\ row'[t].question \in Turns => message'[t] # "completed"
  PROVE  Shown' = Shown
<1>1. ASSUME NEW q \in Turns PROVE ShownFor(q)' = ShownFor(q)
  BY DEF ShownFor
<1> QED  BY <1>1 DEF Shown

LEMMA UnderWayState ==
  ASSUME NEW t \in Turns
  PROVE  /\ Active(t) => States[t] \in {"running", "lapsed"}
         /\ Active(t) => (States[t] = "running" <=> row[t].leased = TRUE)
         /\ ~ Active(t) => States[t] = row[t].status
  BY DEF States, StateOf

\* A turn works on, or its lease lapses.
LEMMA RenewsOrLapses ==
  ASSUME DbInv, NEW t \in Turns, Active(t), NEW x \in TurnRow, row' = [row EXCEPT ![t] = x],
         x.question = row[t].question, x.status \in ActiveStatus, message' = message,
         x.leased \/ row[t].leased
  PROVE  Owner!Renew(t) \/ Owner!Lapse(t)
<1>0. DbTyped /\ x.leased \in BOOLEAN /\ row[t].leased \in BOOLEAN
  BY DEF DbInv, DbTyped, TurnRow
<1>1. /\ Questions' = Questions
      /\ States' = [States EXCEPT ![t] = IF x.status \in ActiveStatus
                                         THEN IF x.leased THEN "running" ELSE "lapsed"
                                         ELSE x.status]
  BY <1>0, OneState
<1>2. \A u \in Turns : row'[u].question = row[u].question
  BY <1>0 DEF DbTyped
<1>3. Shown' = Shown
  BY <1>2, ShownSame
<1>4. CASE x.leased
  <2>1. Owner!Renew(t)
    BY <1>1, <1>3, <1>4, UnderWayState DEF Owner!Renew, Owner!UnderWay, States, Questions, Shown
  <2> QED  BY <2>1
<1>5. CASE ~ x.leased
  <2>1. row[t].leased = TRUE
    BY <1>0, <1>5
  <2>2. Owner!Lapse(t)
    BY <1>1, <1>3, <1>5, <2>1, UnderWayState DEF Owner!Lapse, States, Questions, Shown
  <2> QED  BY <2>2
<1> QED  BY <1>4, <1>5

\* A turn ends without an answer: what its question shows stays.
LEMMA EndsWithout ==
  ASSUME DbInv, NEW t \in Turns, Active(t), NEW s \in {"failed", "cancelled"},
         NEW o \in {"none", "failed", "cancelled"},
         row' = [row EXCEPT ![t] = Ended(row[t], s, o)],
         message' = [message EXCEPT ![t] = "failed"]
  PROVE  Owner!EndWithout(t)
<1>1. PICK x : x = Ended(row[t], s, o)
  OBVIOUS
<1>2. EndsAs(x, row[t], s, o)
  <2>1. row[t] \in TurnRow
    BY DEF DbInv, DbTyped
  <2> QED  BY <1>1, <2>1, EndedRow DEF TerminalStatus
<1>3. x \in TurnRow /\ x.question = row[t].question /\ x.status = s
      /\ s \notin ActiveStatus
  BY <1>2 DEF EndsAs, ActiveStatus
<1>4. row' = [row EXCEPT ![t] = x]
  BY <1>1
<1>5. /\ Questions' = Questions
      /\ States' = [States EXCEPT ![t] = s]
  BY <1>3, <1>4, OneState DEF DbInv
<1>6. Agree(t)
  BY AgreeAll DEF DbInv
<1>7. \A u \in Turns : message'[u] = "completed" <=> message[u] = "completed"
  BY <1>6 DEF DbInv, DbTyped, Agree
<1>8. \A u \in Turns : row'[u].question = row[u].question
  BY <1>3, <1>4 DEF DbInv, DbTyped
<1>9. Shown' = Shown
  BY <1>7, <1>8, ShownSame
<1> QED
  BY <1>5, <1>9, UnderWayState
  DEF Owner!EndWithout, Owner!UnderWay, States, Questions, Shown

\* Of a question's completed turns, those whose answer stands are shown.
LEMMA ShownCompleted ==
  DbInv => \A q \in Turns :
      ShownFor(q) = {t \in Turns : row[t].question = q /\ row[t].status = "completed"} \cap Answers
<1> SUFFICES ASSUME DbInv, NEW q \in Turns, NEW t \in Turns, row[t].question = q,
                    message[t] = "completed"
             PROVE  row[t].status = "completed"
  BY DEF ShownFor, Answers
<1>1. Agree(t) /\ RowInv(t) /\ row[t] \in TurnRow
  BY AgreeAll DEF DbInv, Chain, RowsInv, DbTyped
<1>2. NoRow.question # q
  BY ChatAssumption DEF NoRow, NoTurn, Turns
<1>3. HasRow(t)
  BY <1>1, <1>2 DEF RowInv
<1> QED  BY <1>1, <1>3 DEF Agree, Active, HasRow, TurnRow, ActiveStatus, TerminalStatus

LEMMA ShownCompletedNext ==
  DbInv' => (\A q \in Turns :
      ShownFor(q) = {t \in Turns : row[t].question = q /\ row[t].status = "completed"} \cap Answers)'
  BY ShownCompleted, PTL

\* A turn completes: its question shows its answer in place of what it showed.
LEMMA AnswersTurn ==
  ASSUME DbInv, DbInv', NEW t \in Turns, Active(t), NEW o \in {"none", "complete"},
         RecordAnswer(t, o)
  PROVE  Owner!Answer(t)
<1>1. PICK x : x = Ended(row[t], "completed", o)
  OBVIOUS
<1>2. EndsAs(x, row[t], "completed", o)
  <2>1. row[t] \in TurnRow
    BY DEF DbInv, DbTyped
  <2> QED  BY <1>1, <2>1, EndedRow DEF TerminalStatus
<1>3. x \in TurnRow /\ x.question = row[t].question /\ x.status = "completed"
      /\ "completed" \notin ActiveStatus
  BY <1>2 DEF EndsAs, ActiveStatus
<1>4. row' = [row EXCEPT ![t] = x]
  BY <1>1 DEF RecordAnswer
<1>5. /\ Questions' = Questions
      /\ States' = [States EXCEPT ![t] = "completed"]
  BY <1>3, <1>4, OneState DEF DbInv
<1>6. HasRow(t) /\ RowInv(t)
  BY DEF HasRow, Active, ActiveStatus, DbInv, Chain, RowsInv
<1>7. row[t].question \in Turns
  BY <1>6, ChatAssumption DEF RowInv, Turns
<1>8. /\ row'[t] = x /\ \A u \in Turns \ {t} : row'[u] = row[u]
      /\ message'[t] = "completed"
      /\ \A u \in Turns \ {t} :
            message'[u] = IF u \in Line[t] /\ message[u] = "completed" THEN "superseded"
                          ELSE message[u]
  BY <1>4 DEF RecordAnswer, Replaced, DbInv, DbTyped
<1>9. \A u \in Line[t] : SameQuestion(u, t)
  <2>1. Line[t] = Greatest(Prior(t))
    BY <1>6, LineIsPrior DEF DbInv
  <2> QED  BY <2>1 DEF Greatest, Prior
<1>10. ASSUME NEW q \in Turns, q # row[t].question
       PROVE  ShownFor(q)' = ShownFor(q)
  <2>1. \A u \in Turns : row'[u].question = row[u].question
    BY <1>3, <1>8
  <2>2. \A u \in Turns : row[u].question = q => message'[u] = message[u]
    BY <1>8, <1>9, <1>10 DEF SameQuestion
  <2> QED  BY <2>1, <2>2 DEF ShownFor
<1>11. ASSUME NEW q \in Turns, q = row[t].question
       PROVE  ShownFor(q)' = {t}
  <2> DEFINE completed == {u \in Turns : row'[u].question = q /\ row'[u].status = "completed"}
  <2>2. t \in completed /\ t \in Answers'
    BY <1>3, <1>8, <1>11 DEF Answers
  <2>3. completed # {} => \E m \in completed : /\ \A u \in completed : u <= m
                                               /\ completed \cap Answers' = {m}
    BY DEF DbInv, OneAnswer
  <2>4. completed \cap Answers' = {t}
    <3> HIDE DEF completed
    <3> QED  BY <2>2, <2>3
  <2>5. (\A p \in Turns : ShownFor(p) =
           {u \in Turns : row[u].question = p /\ row[u].status = "completed"} \cap Answers)'
    BY ShownCompletedNext
  <2> QED  BY <2>4, <2>5
<1>12. Shown' = [Shown EXCEPT ![Questions[t]] = {t}]
  <2>1. PICK q \in Turns : q = row[t].question /\ q = Questions[t]
    BY <1>7 DEF Questions
  <2>2. ShownFor(q)' = {t} /\ \A p \in Turns \ {q} : ShownFor(p)' = ShownFor(p)
    BY <1>10, <1>11, <2>1
  <2>3. Shown' = [Shown EXCEPT ![q] = {t}]
    BY <2>2 DEF Shown
  <2> QED  BY <2>1, <2>3
<1> QED
  BY <1>5, <1>12, UnderWayState
  DEF Owner!Answer, Owner!UnderWay, States, Questions, Shown

LEMMA ReapedStates ==
  ASSUME DbTyped
  PROVE  /\ \A u \in Turns : Owner!Reaped[u] = IF Lapsed(u) THEN "failed" ELSE StateOf(u)
         /\ Owner!Reaped = [u \in Turns |-> Owner!Reaped[u]]
<1>1. ASSUME NEW u \in Turns
      PROVE  (IF States[u] = "lapsed" THEN "failed" ELSE States[u])
                = IF Lapsed(u) THEN "failed" ELSE StateOf(u)
  <2>1. CASE Lapsed(u)
    BY <2>1 DEF States, StateOf, Lapsed
  <2>2. CASE ~ Lapsed(u) /\ Active(u)
    BY <2>2 DEF States, StateOf, Lapsed
  <2>3. CASE ~ Active(u)
    <3>1. States[u] = row[u].status /\ row[u].status # "lapsed"
      BY <2>3, UnderWayState DEF DbTyped, TurnRow, ActiveStatus, TerminalStatus
    <3> QED  BY <2>3, <3>1 DEF States, StateOf, Lapsed
  <2> QED  BY <2>1, <2>2, <2>3
<1> QED  BY <1>1 DEF Owner!Reaped, States

\* The row of a lapsed turn after a create.
LEMMA LapsedState ==
  ASSUME NEW u \in Turns, Lapsed(u), EndsAs(row'[u], row[u], "failed", "none")
  PROVE  StateOf(u)' = "failed"
  BY DEF StateOf, Active, ActiveStatus, EndsAs

\* A create that makes no turn fails the lapsed one.
LEMMA DuplicateReaps ==
  ASSUME DbInv, CreateDuplicate
  PROVE  Owner!Reap
<1>1. \A u \in Turns : /\ Lapsed(u) => EndsAs(row'[u], row[u], "failed", "none")
                       /\ ~ Lapsed(u) => row'[u] = row[u]
  BY ReapedRow DEF CreateDuplicate, DbInv
<1>2. \A u \in Turns : StateOf(u)' = Owner!Reaped[u]
  <2> SUFFICES ASSUME NEW u \in Turns PROVE StateOf(u)' = Owner!Reaped[u]
    OBVIOUS
  <2>1. CASE Lapsed(u)
    BY <1>1, <2>1, ReapedStates, LapsedState DEF DbInv
  <2>2. CASE ~ Lapsed(u)
    <3>1. StateOf(u)' = StateOf(u)
      BY <1>1, <2>2 DEF StateOf, Active
    <3> QED  BY <2>2, <3>1, ReapedStates DEF DbInv
  <2> QED  BY <2>1, <2>2
<1>3. States' = Owner!Reaped
  BY <1>2, ReapedStates DEF States, DbInv
<1>4. \A u \in Turns : row'[u].question = row[u].question
  BY <1>1 DEF EndsAs
<1>5. \A u \in Turns : message'[u] = "completed" <=> message[u] = "completed"
  <2> SUFFICES ASSUME NEW u \in Turns
               PROVE  message'[u] = "completed" <=> message[u] = "completed"
    OBVIOUS
  <2>1. Agree(u) /\ message'[u] = IF Lapsed(u) THEN "failed" ELSE message[u]
    BY AgreeAll DEF DbInv, CreateDuplicate, ReapedMessages
  <2> QED  BY <2>1 DEF Agree, Lapsed
<1>6. Questions' = Questions /\ Shown' = Shown
  BY <1>4, <1>5, ShownSame DEF Questions
<1> QED  BY <1>3, <1>6 DEF Owner!Reap, States, Questions, Shown

\* A create that makes a turn begins it, on a question of its own or on that of a source which
\* is the last of its question.
LEMMA CreateBegins ==
  ASSUME DbInv, NEW kind \in Kinds, NEW source \in Turns \cup {NoTurn},
         NEW runtime \in Runtimes, Create(kind, source, runtime)
  PROVE  Owner!Next
<1>1. PICK t \in Turns, x \in TurnRow : Creates(t, x, kind, source)
  BY CreateLooks
<1>2. \A u \in Turns : /\ u \in Nat /\ t \in Nat
                       /\ HasRow(u) <=> u < t
                       /\ RowInv(u) /\ Agree(u)
  <2>1. \A u \in Turns : HasRow(u) <=> u \in 1 .. (t - 1)
    BY <1>1, ChatAssumption DEF Creates, Created, HasRow, Turns
  <2> QED  BY <2>1, AgreeAll, ChatAssumption DEF DbInv, Chain, RowsInv, Turns
<1>3. \A u \in Turns : ~ HasRow(u) => row[u].question = NoTurn /\ row[u].status = "none"
  BY <1>2 DEF RowInv, NoRow
<1>4. \A u \in Turns : (States[u] = "none") <=> t <= u
  <2> SUFFICES ASSUME NEW u \in Turns PROVE (States[u] = "none") <=> ~ HasRow(u)
    BY <1>2
  <2> QED  BY UnderWayState DEF HasRow, Active, ActiveStatus
<1>5. \A u \in Turns : States[u] # "running"
  <2> SUFFICES ASSUME NEW u \in Turns PROVE States[u] # "running"
    OBVIOUS
  <2>1. row[u] \in TurnRow
    BY DEF DbInv, DbTyped
  <2>2. CASE Active(u)
    BY <1>1, <2>1, <2>2 DEF Creates, Lapsed, States, StateOf
  <2>3. CASE ~ Active(u)
    BY <2>1, <2>3, UnderWayState DEF TurnRow, ActiveStatus, TerminalStatus
  <2> QED  BY <2>2, <2>3
<1>6. PICK q \in Turns : q = x.question
  <2>1. CASE kind = "user"
    BY <1>1, <2>1 DEF Creates
  <2>2. CASE kind # "user"
    <3>1. source \in Turns /\ HasRow(source)
      BY <1>1, <2>2 DEF Creates
    <3>2. row[source].question \in Turns
      BY <1>2, <3>1, ChatAssumption DEF RowInv, Turns
    <3> QED  BY <1>1, <2>2, <3>2 DEF Creates
  <2> QED  BY <2>1, <2>2
<1>7. \/ q = t
      \/ \E s \in Turns : /\ q = Questions[s]
                          /\ States[s] \in {"completed", "failed"}
                          /\ \A u \in Turns : Questions[u] = Questions[s] => u <= s
  <2>1. CASE kind = "user"
    BY <1>1, <1>6, <2>1 DEF Creates
  <2>2. CASE kind # "user"
    <3>1. PICK s \in Turns :
            /\ s = source /\ HasRow(s)
            /\ \A u \in Turns : HasRow(u) /\ s < u => ~ SameQuestion(s, u)
      BY <1>1, <2>2 DEF Creates
    <3>2. q = row[s].question
      BY <1>1, <1>6, <2>2, <3>1 DEF Creates
    <3>3. row[s].status \in {"completed", "failed"}
      BY <1>1, <2>2, <3>1 DEF Creates, Kinds
    <3>4. States[s] \in {"completed", "failed"}
      BY <3>3, UnderWayState DEF Active, ActiveStatus
    <3>5. ASSUME NEW u \in Turns, row[u].question = row[s].question
          PROVE  u <= s
      <4>1. HasRow(u)
        BY <1>3, <1>6, <3>2, <3>5, ChatAssumption DEF NoTurn, Turns
      <4>2. ~ s < u
        BY <3>1, <3>5, <4>1 DEF SameQuestion
      <4> QED  BY <1>2, <4>2
    <3> QED  BY <3>2, <3>4, <3>5 DEF Questions
  <2> QED  BY <2>1, <2>2
<1>8. \A u \in Turns \ {t} : /\ Lapsed(u) => EndsAs(row'[u], row[u], "failed", "none")
                             /\ ~ Lapsed(u) => row'[u] = row[u]
                             /\ row'[u].question = row[u].question
  BY <1>1 DEF Creates, EndsAs
<1>9. States' = [Owner!Reaped EXCEPT ![t] = "running"]
  <2>1. StateOf(t)' = "running"
    BY <1>1 DEF Creates, StateOf, Active, ActiveStatus
  <2>2. ASSUME NEW u \in Turns, u # t PROVE StateOf(u)' = Owner!Reaped[u]
    <3>1. CASE Lapsed(u)
      BY <1>8, <2>2, <3>1, ReapedStates, LapsedState DEF DbInv
    <3>2. CASE ~ Lapsed(u)
      <4>1. StateOf(u)' = StateOf(u)
        BY <1>8, <2>2, <3>2 DEF StateOf, Active
      <4> QED  BY <3>2, <4>1, ReapedStates DEF DbInv
    <3> QED  BY <3>1, <3>2
  <2> QED  BY <2>1, <2>2, ReapedStates DEF States, DbInv
<1>10. Questions' = [Questions EXCEPT ![t] = q]
  <2>1. row'[t].question = q
    BY <1>1, <1>6 DEF Creates
  <2> QED  BY <1>8, <2>1 DEF Questions
<1>11. Shown' = Shown
  <2>1. ASSUME NEW u \in Turns, u # t
        PROVE  message'[u] = "completed" <=> message[u] = "completed"
    <3>1. message'[u] = IF kind = "retry" /\ u = source /\ message[u] = "failed"
                        THEN "superseded"
                        ELSE IF Lapsed(u) THEN "failed" ELSE message[u]
      BY <1>1, <2>1 DEF Creates
    <3>2. Lapsed(u) => message[u] # "completed"
      BY <1>2 DEF Agree, Lapsed
    <3> QED  BY <3>1, <3>2
  <2>2. row[t].question \notin Turns /\ message'[t] = "pending"
    <3>1. ~ HasRow(t)
      BY <1>2
    <3> QED  BY <1>1, <1>3, <3>1, ChatAssumption DEF Creates, NoTurn, Turns
  <2> QED  BY <1>8, <2>1, <2>2, ShownSame
<1>12. Owner!Begin(t, q)
  BY <1>4, <1>5, <1>7, <1>9, <1>10, <1>11
  DEF Owner!Begin, Owner!Unused, Owner!LastOf, States, Questions, Shown
<1> QED  BY <1>12 DEF Owner!Next

\* The steps of a turn.
LEMMA StepShows ==
  ASSUME IInv, NEW t \in Turns, Step(t), DbInv'
  PROVE  Owner!Next \/ UNCHANGED db
<1>1. DbInv /\ row[t] \in TurnRow
  BY DEF IInv, DbInv, DbTyped
<1>2. ASSUME NEW from \in ActiveStatus, NEW to \in ActiveStatus, NEW context \in Snapshot,
             Transition(t, from, to, context)
      PROVE  Owner!Next
  <2> DEFINE x == [row[t] EXCEPT !.status = to, !.context = context, !.leased = TRUE]
  <2>1. x \in TurnRow /\ x.question = row[t].question /\ x.status = to /\ x.leased = TRUE
    BY <1>1, <1>2 DEF TurnRow
  <2>2. row' = [row EXCEPT ![t] = x] /\ message' = message /\ Active(t)
    BY <1>2 DEF Transition, Active
  <2> HIDE DEF x
  <2>3. Owner!Renew(t) \/ Owner!Lapse(t)
    BY <1>1, <1>2, <2>1, <2>2, RenewsOrLapses
  <2> QED  BY <2>3 DEF Owner!Next
<1>3. CASE WriteSeed(t) \/ Prepare(t) \/ Capture(t) \/ Generate(t) \/ Validate(t)
  <2>1. \E from, to \in ActiveStatus : \E context \in Snapshot : Transition(t, from, to, context)
    <3>1. row[t].context \in Snapshot /\ Seed \in Snapshot
      BY <1>1 DEF TurnRow, Seed, Snapshot
    <3>2. CASE WriteSeed(t)
      BY <3>1, <3>2, StatusNames DEF WriteSeed
    <3>3. CASE Prepare(t)
      <4> DEFINE context == IF row[t].context.frozen THEN row[t].context ELSE Frozen
      <4>1. context \in Snapshot
        BY <3>1 DEF Frozen, Snapshot, Answers
      <4>2. Transition(t, "accepted", "grounding", context)
        BY <3>3 DEF Prepare
      <4> HIDE DEF context
      <4> QED  BY <4>1, <4>2, StatusNames
    <3>4. CASE Capture(t)
      <4> DEFINE context == IF Gateway(t) THEN Frozen ELSE row[t].context
      <4>1. context \in Snapshot
        BY <3>1 DEF Frozen, Snapshot, Answers
      <4>2. Transition(t, "grounding", "grounding", context)
        BY <3>4 DEF Capture
      <4> HIDE DEF context
      <4> QED  BY <4>1, <4>2, StatusNames
    <3>5. CASE Generate(t)
      BY <3>1, <3>5, StatusNames DEF Generate
    <3>6. CASE Validate(t)
      BY <3>1, <3>6, StatusNames DEF Validate
    <3> QED  BY <1>3, <3>2, <3>3, <3>4, <3>5, <3>6
  <2> QED  BY <1>2, <2>1
<1>4. CASE Issue(t)
  <2> DEFINE x == [row[t] EXCEPT !.invocation = "started", !.capability = "live"]
  <2>1. /\ x \in TurnRow /\ x.question = row[t].question /\ x.status = row[t].status
        /\ x.leased = row[t].leased
    BY <1>1 DEF TurnRow
  <2>2. row' = [row EXCEPT ![t] = x] /\ message' = message /\ Active(t) /\ row[t].leased
    BY <1>4 DEF Issue, Issuable
  <2> HIDE DEF x
  <2>3. Owner!Renew(t) \/ Owner!Lapse(t)
    BY <1>1, <2>1, <2>2, RenewsOrLapses DEF Active
  <2> QED  BY <2>3 DEF Owner!Next
<1>5. CASE Lapse(t)
  <2> DEFINE x == [row[t] EXCEPT !.leased = FALSE]
  <2>1. x \in TurnRow /\ x.question = row[t].question /\ x.status = row[t].status
    BY <1>1 DEF TurnRow
  <2>2. row' = [row EXCEPT ![t] = x] /\ message' = message /\ Active(t) /\ row[t].leased
    BY <1>5 DEF Lapse
  <2> HIDE DEF x
  <2>3. Owner!Renew(t) \/ Owner!Lapse(t)
    BY <1>1, <2>1, <2>2, RenewsOrLapses DEF Active
  <2> QED  BY <2>3 DEF Owner!Next
<1>6. CASE Cancel(t)
  BY <1>1, <1>6, EndsWithout DEF Cancel, Owner!Next
<1>7. CASE Complete(t) \/ Fail(t) \/ FinishLegacy(t)
  <2>1. \/ UNCHANGED db
        \/ Active(t) /\ \E o \in {"none", "failed"} : RecordFailure(t, o)
        \/ Active(t) /\ \E o \in {"none", "complete"} : RecordAnswer(t, o)
    BY <1>7, StatusNames DEF Complete, Fail, FinishLegacy, MayFinish, Active
  <2>2. ASSUME Active(t), NEW o \in {"none", "failed"}, RecordFailure(t, o)
        PROVE  Owner!Next
    BY <1>1, <2>2, EndsWithout DEF RecordFailure, Owner!Next
  <2>3. ASSUME Active(t), NEW o \in {"none", "complete"}, RecordAnswer(t, o)
        PROVE  Owner!Next
    BY <1>1, <2>3, AnswersTurn DEF Owner!Next
  <2> QED  BY <2>1, <2>2, <2>3
<1> QED
  BY <1>3, <1>4, <1>5, <1>6, <1>7
  DEF Step, Answered, AnsweredLegacy, Caught, Recheck, Verify, Stop, db

\* The owner has one conversation, for any number of turns: one turn at a time, and an answer
\* that only a later turn's answer replaces, in one step.
THEOREM ConversationImplemented == Spec => ImplementsConversation
<1>1. Init => Owner!Init
  <2> SUFFICES ASSUME Init PROVE Owner!Init
    OBVIOUS
  <2>1. \A t \in Turns : row[t] = NoRow /\ message[t] = "none"
    BY DEF Init
  <2>2. \A t \in Turns : StateOf(t) = "none" /\ row[t].question = 0
    BY <2>1 DEF StateOf, Active, ActiveStatus, NoRow, NoTurn
  <2>3. \A q \in Turns : ShownFor(q) = {}
    BY <2>1 DEF ShownFor
  <2> QED  BY <2>2, <2>3 DEF Owner!Init
<1>2. ASSUME IInv, IInv', [Next]_vars
      PROVE  [Owner!Next]_(Owner!vars)
  <2>1. DbInv /\ DbInv'
    BY <1>2 DEF IInv, DbInv
  <2>2. CASE CreateDuplicate
    BY <2>1, <2>2, DuplicateReaps DEF Owner!Next
  <2>3. ASSUME NEW kind \in Kinds, NEW source \in Turns \cup {NoTurn}, NEW runtime \in Runtimes,
               Create(kind, source, runtime)
        PROVE  Owner!Next
    BY <2>1, <2>3, CreateBegins
  <2>4. ASSUME UNCHANGED db PROVE UNCHANGED Owner!vars
    <3>1. row' = row /\ message' = message
      BY <2>4 DEF db
    <3>2. /\ \A t \in Turns : StateOf(t)' = StateOf(t) /\ row'[t].question = row[t].question
          /\ \A q \in Turns : ShownFor(q)' = ShownFor(q)
      BY <3>1 DEF StateOf, Active, ShownFor
    <3> QED  BY <3>2 DEF Owner!vars
  <2>5. ASSUME NEW t \in Turns, Step(t)
        PROVE  [Owner!Next]_(Owner!vars)
    BY <1>2, <2>1, <2>4, <2>5, StepShows
  <2>6. CASE UNCHANGED vars
    BY <2>4, <2>6 DEF vars, db
  <2> QED  BY <1>2, <2>2, <2>3, <2>5, <2>6 DEF Next, Kinds
<1> QED
  BY <1>1, <1>2, Invariance, PTL DEF Spec, ImplementsConversation, Owner!Spec
=============================================================================
