----------------------------- MODULE NodeProofs -----------------------------
(***************************************************************************)
(* Proofs about NodeTask, for every set of tasks, every list of questions, *)
(* retry policy and number of runs: Accountable, and RightAnswer for       *)
(* answers that come in Command.ResumeMap.                                 *)
(***************************************************************************)
EXTENDS NodeTask, TLAPS

Pcs == {"ready", "before", "lookup", "cached", "attempt", "decide", "retrybarrier",
        "backoff", "failbarrier", "failed", "after", "errorbarrier", "merge", "mergenew",
        "route", "barrier", "ended"}
Statuses == {"none", "completed", "failed", "interrupted"}
Values == Keys \cup {None}
Answers == [resume : Values, map : [Keys -> Values], used : [Keys -> Values]]

\* An attempt is never one too many: a retry is decided before it is counted.
NodeTypeOK ==
  /\ run \in Nat /\ cancelled \in BOOLEAN
  /\ shared \in Answers /\ copy \in [Tasks -> Answers]
  /\ pc \in [Tasks -> Pcs] /\ status \in [Tasks -> Statuses]
  /\ asked \in [Tasks -> Nat] /\ attempt \in [Tasks -> 1..MaxAttempts]
  /\ merged \in [Tasks -> Nat] /\ question \in [Tasks -> Values]
  /\ cached \subseteq Tasks /\ got \in [Keys -> SUBSET Values]
  /\ \A t \in Tasks : pc[t] \in {"retrybarrier", "backoff"} => attempt[t] < MaxAttempts

\* Where a result has been merged: only past Merge, whatever way led there.
MergedOnce ==
  \A t \in Tasks :
    /\ pc[t] \notin {"route", "barrier", "ended"} => merged[t] = 0
    /\ pc[t] \in {"route", "barrier"} => merged[t] = 1

\* A question is open exactly when the task was interrupted with it.
QuestionOpen == \A t \in Tasks : status[t] = "interrupted" => question[t] \in Keys

NodeInv == NodeTypeOK /\ MergedOnce /\ QuestionOpen /\ Accountable

\* The answers in c are answers to the questions they are filed under, and none is
\* left that would answer any question.
Filed(c) ==
  /\ c.resume = None
  /\ \A k \in Keys : c.map[k] \in {None, k} /\ c.used[k] \in {None, k}

\* So it is in the shared state, and in every copy of it, old or new.
AllFiled == Filed(shared) /\ \A t \in Tasks : Filed(copy[t])

-----------------------------------------------------------------------------
(* Answers.                                                                *)

\* Nobody has answered yet.
LEMMA NoAnswersFiled == NoAnswers \in Answers /\ Filed(NoAnswers)
  BY DEF NoAnswers, Answers, Values, Filed

\* graph.Interrupt takes the value it returns out of the answers.
LEMMA ConsumedType ==
  ASSUME NEW c \in Answers, NEW k \in Keys
  PROVE  AnswerTo(c, k) \in Values /\ Consumed(c, k) \in Answers
  BY DEF AnswerTo, Consumed, Answers, Values

\* What is filed under the questions answers them, and stays so when one is taken.
LEMMA ConsumedFiled ==
  ASSUME NEW c \in Answers, NEW k \in Keys, Filed(c)
  PROVE  AnswerTo(c, k) \in {None, k} /\ Filed(Consumed(c, k))
  BY DEF AnswerTo, Consumed, Answers, Values, Filed

\* The keys a task asks are questions.
LEMMA AskedKey ==
  ASSUME NEW t \in Tasks, asked[t] \in Nat, asked[t] < Len(Asks[t])
  PROVE  Asks[t][asked[t] + 1] \in Keys
  <1>1. Asks[t] \in Seq(STRING) /\ asked[t] + 1 \in DOMAIN Asks[t]
    BY NodeAssumption
  <1> QED BY <1>1 DEF Keys

\* The answer of a human is a value, and filed under its question in a ResumeMap.
LEMMA AnswerType ==
  ASSUME shared \in Answers, NEW k \in Keys, NEW by
  PROVE  Answer(k, by) \in Answers /\ (by = "map" /\ Filed(shared) => Filed(Answer(k, by)))
  BY DEF Answer, Answers, Values, Filed

-----------------------------------------------------------------------------
(* A task reports what it merged.                                          *)

\* All tasks are about to start.
LEMMA InitInv == Init => NodeInv /\ AllFiled /\ RightAnswer
  <1> SUFFICES ASSUME Init PROVE NodeInv /\ AllFiled /\ RightAnswer
    OBVIOUS
  <1>1. NodeTypeOK
    <2>1. shared \in Answers /\ copy \in [Tasks -> Answers] /\ question \in [Tasks -> Values]
      BY NoAnswersFiled DEF Init, Fresh, Values
    <2>2. /\ asked \in [Tasks -> Nat] /\ attempt \in [Tasks -> 1..MaxAttempts]
          /\ merged \in [Tasks -> Nat]
      BY NodeAssumption DEF Init, Fresh
    <2>3. /\ pc \in [Tasks -> Pcs] /\ status \in [Tasks -> Statuses]
          /\ \A t \in Tasks : pc[t] \notin {"retrybarrier", "backoff"}
      BY DEF Init, Pcs, Statuses
    <2>4. run \in Nat /\ cancelled \in BOOLEAN /\ cached \subseteq Tasks /\ got \in [Keys -> SUBSET Values]
      BY DEF Init
    <2> QED BY <2>1, <2>2, <2>3, <2>4 DEF NodeTypeOK
  <1>2. MergedOnce /\ QuestionOpen /\ Accountable
    BY DEF Init, Fresh, MergedOnce, QuestionOpen, Accountable
  <1>3. AllFiled /\ RightAnswer
    BY NoAnswersFiled DEF Init, Fresh, AllFiled, RightAnswer
  <1> QED BY <1>1, <1>2, <1>3 DEF NodeInv

\* A step of a task keeps the types.
LEMMA TaskStepType ==
  ASSUME NodeTypeOK, NEW t \in Tasks, TaskStep(t)
  PROVE  NodeTypeOK'
  <1> USE DEF NodeTypeOK, Pcs, Statuses, Goto, Sync, End
  <1>1. CASE CopyState(t) \/ LookupCache(t) \/ Returns(t) \/ AttemptFails(t)
    BY <1>1 DEF CopyState, LookupCache, Returns, AttemptFails
  <1>2. CASE \E o \in {"none", "result", "error"} : BeforeCallbacks(t, o)
    BY <1>2 DEF BeforeCallbacks
  <1>3. CASE \E b \in BOOLEAN : DecideRetry(t, b)
    BY <1>3 DEF DecideRetry
  <1>4. CASE \E b \in BOOLEAN : AfterCallbacks(t, b) \/ AfterFailure(t, b)
    BY <1>4 DEF AfterCallbacks, AfterFailure
  <1>5. CASE Merge(t) \/ Panics(t)
    BY <1>5 DEF Merge, Panics
  <1>6. CASE \E b \in BOOLEAN : Route(t, b) \/ Barrier(t, b)
    BY <1>6 DEF Route, Barrier
  <1>7. CASE WaitBeforeRetry(t)
    <2>1. attempt[t] + 1 \in 1..MaxAttempts
      BY <1>7, NodeAssumption DEF WaitBeforeRetry
    <2>2. CASE Goto(t, "attempt")
      <3>1. /\ attempt' \in [Tasks -> 1..MaxAttempts] /\ asked' \in [Tasks -> Nat]
            /\ \A u \in Tasks : u # t => attempt'[u] = attempt[u]
        BY <1>7, <2>1 DEF WaitBeforeRetry
      <3>2. pc' = [pc EXCEPT ![t] = "attempt"]
        BY <2>2
      <3>3. status' \in [Tasks -> Statuses]
        BY <1>7 DEF WaitBeforeRetry
      <3>4. UNCHANGED <<run, cancelled, shared, copy, merged, question, cached, got>>
        BY <1>7 DEF WaitBeforeRetry
      <3> QED BY <3>1, <3>2, <3>3, <3>4
    <2>3. CASE End(t, "failed") /\ UNCHANGED <<asked, attempt>>
      BY <1>7, <2>3 DEF WaitBeforeRetry
    <2> QED BY <1>7, <2>2, <2>3 DEF WaitBeforeRetry
  <1>8. CASE Interrupted(t)
    <2>1. Asks[t][asked[t] + 1] \in Values
      BY <1>8, AskedKey DEF Interrupted, Asking, Values
    <2> QED BY <1>8, <2>1 DEF Interrupted
  <1>9. CASE Ask(t)
    <2> DEFINE k == Asks[t][asked[t] + 1]
    <2>1. k \in Keys
      BY <1>9, AskedKey DEF Ask, Asking
    <2>2. copy[t] \in Answers
      OBVIOUS
    <2>3. AnswerTo(copy[t], k) \in Values /\ Consumed(copy[t], k) \in Answers
      BY <2>1, <2>2, ConsumedType
    <2>4. /\ copy' = [copy EXCEPT ![t] = Consumed(copy[t], k)]
          /\ got' = [got EXCEPT ![k] = @ \cup {AnswerTo(copy[t], k)}]
          /\ asked' = [asked EXCEPT ![t] = @ + 1]
          /\ UNCHANGED <<run, cancelled, shared, pc, attempt, merged, status, question, cached>>
      BY <1>9 DEF Ask
    <2> HIDE DEF k
    <2>5. copy' \in [Tasks -> Answers] /\ got' \in [Keys -> SUBSET Values] /\ asked' \in [Tasks -> Nat]
      BY <2>1, <2>3, <2>4
    <2> QED BY <2>4, <2>5
  <1> QED BY <1>1, <1>2, <1>3, <1>4, <1>5, <1>6, <1>7, <1>8, <1>9 DEF TaskStep

\* A step of a task keeps the books.
LEMMA TaskStepMerged ==
  ASSUME NodeInv, NEW t \in Tasks, TaskStep(t)
  PROVE  MergedOnce' /\ QuestionOpen' /\ Accountable'
  <1> USE DEF NodeInv, NodeTypeOK, MergedOnce, QuestionOpen, Accountable, Goto, End
  <1>1. CASE CopyState(t) \/ LookupCache(t) \/ Returns(t) \/ AttemptFails(t)
    BY <1>1 DEF CopyState, LookupCache, Returns, AttemptFails
  <1>2. CASE \E o \in {"none", "result", "error"} : BeforeCallbacks(t, o)
    BY <1>2 DEF BeforeCallbacks
  <1>3. CASE \E b \in BOOLEAN : DecideRetry(t, b)
    BY <1>3 DEF DecideRetry
  <1>4. CASE \E b \in BOOLEAN : AfterCallbacks(t, b) \/ AfterFailure(t, b)
    BY <1>4 DEF AfterCallbacks, AfterFailure
  <1>5. CASE Merge(t) \/ Panics(t)
    BY <1>5 DEF Merge, Panics
  <1>6. CASE \E b \in BOOLEAN : Route(t, b) \/ Barrier(t, b)
    BY <1>6 DEF Route, Barrier
  <1>7. CASE WaitBeforeRetry(t)
    BY <1>7 DEF WaitBeforeRetry
  <1>8. CASE Interrupted(t)
    <2>1. Asks[t][asked[t] + 1] \in Keys
      BY <1>8, AskedKey DEF Interrupted, Asking
    <2> QED BY <1>8, <2>1 DEF Interrupted, Asking
  <1>9. CASE Ask(t)
    BY <1>9 DEF Ask
  <1> QED BY <1>1, <1>2, <1>3, <1>4, <1>5, <1>6, <1>7, <1>8, <1>9 DEF TaskStep

\* A resumed superstep starts its tasks with nothing merged.
LEMMA ResumeInv ==
  ASSUME NodeInv, NEW t \in Tasks, NEW by \in AnswerBy, Resume(t, by)
  PROVE  NodeInv'
  <1> USE DEF NodeInv
  <1>1. question[t] \in Keys
    BY DEF QuestionOpen, Resume
  <1>2. shared' \in Answers /\ run' \in Nat
    BY <1>1, AnswerType DEF Resume, NodeTypeOK
  <1>3. NodeTypeOK'
    BY <1>2, NoAnswersFiled, NodeAssumption DEF Resume, NodeTypeOK, Pcs, Statuses, Values
  <1>4. MergedOnce' /\ QuestionOpen' /\ Accountable'
    BY DEF Resume, StepOver, NodeTypeOK, MergedOnce, QuestionOpen, Accountable
  <1> QED BY <1>3, <1>4

\* The invariant is inductive.
LEMMA NodeInvNext == NodeInv /\ [Next]_vars => NodeInv'
  <1> SUFFICES ASSUME NodeInv, [Next]_vars PROVE NodeInv'
    OBVIOUS
  <1>1. CASE \E t \in Tasks : TaskStep(t)
    BY <1>1, TaskStepType, TaskStepMerged DEF NodeInv
  <1>2. CASE \E t \in Tasks, by \in AnswerBy : Resume(t, by)
    BY <1>2, ResumeInv
  <1>3. CASE Cancel
    BY <1>3 DEF Cancel, NodeInv, NodeTypeOK, MergedOnce, QuestionOpen, Accountable
  <1>4. CASE Over \/ UNCHANGED vars
    BY <1>4 DEF Over, vars, NodeInv, NodeTypeOK, MergedOnce, QuestionOpen, Accountable
  <1> QED BY <1>1, <1>2, <1>3, <1>4 DEF Next

\* It holds of every reachable state.
LEMMA NodeInvAlways == Spec => []NodeInv
  <1>1. Init => NodeInv
    BY InitInv
  <1> QED BY <1>1, NodeInvNext, PTL DEF Spec

\* A task that reports completion has merged its result once, one that asks a human none,
\* and one that failed at most one, the conditional edge and the barrier behind the merge
\* included: through any number of retries, cached results, callbacks and resumes.
THEOREM AccountableAlways == Spec => []Accountable
  <1>1. NodeInv => Accountable
    BY DEF NodeInv
  <1> QED BY <1>1, NodeInvAlways, PTL

-----------------------------------------------------------------------------
(* Interrupt returns the answer to its own question.                       *)

\* A step keeps the answers filed: Sync writes back a copy, however old it is.
LEMMA FiledNext ==
  ASSUME AnswerBy \subseteq {"map"}, NodeInv, AllFiled, RightAnswer, [Next]_vars
  PROVE  AllFiled' /\ RightAnswer'
  <1> USE DEF NodeInv
  <1>1. ASSUME NEW t \in Tasks, Ask(t)
        PROVE  AllFiled' /\ RightAnswer'
    <2> DEFINE k == Asks[t][asked[t] + 1]
    <2>1. k \in Keys
      BY <1>1, AskedKey DEF Ask, Asking, NodeTypeOK
    <2>2. copy[t] \in Answers /\ Filed(copy[t])
      BY DEF NodeTypeOK, AllFiled
    <2>3. AnswerTo(copy[t], k) \in {None, k} /\ Filed(Consumed(copy[t], k))
      BY <2>1, <2>2, ConsumedFiled
    <2>4. /\ AnswerTo(copy[t], k) # None
          /\ copy' = [copy EXCEPT ![t] = Consumed(copy[t], k)]
          /\ got' = [got EXCEPT ![k] = @ \cup {AnswerTo(copy[t], k)}]
          /\ shared' = shared
      BY <1>1 DEF Ask
    <2> HIDE DEF k
    <2>5. AllFiled'
      BY <2>3, <2>4 DEF AllFiled, Filed, NodeTypeOK
    <2>6. RightAnswer'
      BY <2>3, <2>4 DEF RightAnswer, NodeTypeOK
    <2> QED BY <2>5, <2>6
  <1>2. ASSUME NEW t \in Tasks, TaskStep(t), ~Ask(t)
        PROVE  AllFiled' /\ RightAnswer'
    <2>1. got' = got /\ shared' \in {shared, copy[t]} /\ copy' \in {copy, [copy EXCEPT ![t] = shared]}
      BY <1>2 DEF TaskStep, CopyState, LookupCache, Interrupted, Returns, AttemptFails,
                  WaitBeforeRetry, Merge, Panics, Route, Barrier, BeforeCallbacks,
                  DecideRetry, AfterCallbacks, AfterFailure, Sync
    <2>2. AllFiled'
      BY <2>1 DEF AllFiled, Filed, NodeTypeOK
    <2> QED BY <2>1, <2>2 DEF RightAnswer
  <1>3. ASSUME NEW t \in Tasks, NEW by \in AnswerBy, Resume(t, by)
        PROVE  AllFiled' /\ RightAnswer'
    <2>1. by = "map" /\ question[t] \in Keys /\ shared \in Answers
      BY <1>3 DEF Resume, QuestionOpen, NodeTypeOK
    <2>2. Filed(shared')
      BY <1>3, <2>1, AnswerType DEF Resume, AllFiled
    <2>3. AllFiled'
      BY <1>3, <2>2, NoAnswersFiled DEF Resume, AllFiled, Filed
    <2> QED BY <1>3, <2>3 DEF Resume, RightAnswer
  <1>4. CASE Cancel \/ Over \/ UNCHANGED vars
    BY <1>4 DEF Cancel, Over, vars, AllFiled, Filed, RightAnswer
  <1> QED BY <1>1, <1>2, <1>3, <1>4 DEF Next

\* When humans answer by Command.ResumeMap, graph.Interrupt returns only the answer that
\* was given to its own question, although every task writes its copy of all answers back
\* over the shared ones.  Command.Resume does not have this property: run node_answer.
THEOREM RightAnswerByMap ==
  ASSUME AnswerBy \subseteq {"map"}
  PROVE  Spec => []RightAnswer
  <1>1. Init => AllFiled /\ RightAnswer
    BY InitInv
  <1>2. NodeInv /\ AllFiled /\ RightAnswer /\ [Next]_vars => AllFiled' /\ RightAnswer'
    BY FiledNext
  <1> QED BY <1>1, <1>2, NodeInvAlways, PTL DEF Spec
=============================================================================
