------------------------------ MODULE NodeTask ------------------------------
(***************************************************************************)
(* One task of a graph node, from executeSingleTask to its report:         *)
(* callbacks, the result cache, attempts and retries, graph.Interrupt and  *)
(* the answers a resume brings, the merge of the result, and the           *)
(* conditional edge and the barrier behind it (graph/executor.go, retry.go, *)
(* resume.go, cache.go).                                                   *)
(*                                                                         *)
(* The tasks of one superstep run at once.  Each works on a copy of the    *)
(* shared state and writes the resume keys of its copy back after every    *)
(* attempt (syncResumeState).  An asker calls graph.Interrupt for each of  *)
(* its questions in turn; the other tasks ask nothing.  A superstep that   *)
(* was interrupted is resumed with the human's answer to the question, as  *)
(* Command.Resume or in Command.ResumeMap: the askers that did not         *)
(* complete run again, next to tasks of the other branches.                *)
(***************************************************************************)
EXTENDS Integers, Sequences, FiniteSets

CONSTANTS
  Tasks,          \* tasks of the superstep
  Asks,           \* task -> sequence of the keys it interrupts with
  MaxAttempts,    \* RetryPolicy.MaxAttempts
  MaxRuns,        \* bound: runs of the lineage
  AnswerBy        \* how humans answer: subset of {"resume", "map"}

Keys == UNION {{Asks[t][i] : i \in DOMAIN Asks[t]} : t \in Tasks}

\* The answer to question k; None is an absent map entry.
None == "none"

ASSUME NodeAssumption ==
  /\ Asks \in [Tasks -> Seq(STRING)] /\ None \notin Keys
  /\ MaxAttempts \in Nat \ {0} /\ MaxRuns \in Nat \ {0}
  /\ AnswerBy \subseteq {"resume", "map"}

VARIABLES
  run,        \* runs begun
  cancelled,  \* the context of the run is done
  shared,     \* resume keys of execCtx.State: [resume, map, used]
  copy,       \* task -> the same keys of its stateCopy
  pc,         \* task -> where it is
  asked,      \* task -> questions answered in this attempt
  attempt,    \* task -> attempts begun
  merged,     \* task -> results merged into the state in this run
  status,     \* task -> how the task ended
  question,   \* task -> the key it was interrupted with
  cached,     \* tasks whose input has an entry in the cache
  got         \* key -> what Interrupt has returned for it

vars == <<run, cancelled, shared, copy, pc, asked, attempt, merged, status, question, cached, got>>

NoAnswers == [resume |-> None, map |-> [k \in Keys |-> None], used |-> [k \in Keys |-> None]]

Askers == {t \in Tasks : Asks[t] # <<>>}

\* Everything a task starts a run with.
Fresh ==
  /\ copy = [t \in Tasks |-> NoAnswers]
  /\ asked = [t \in Tasks |-> 0] /\ attempt = [t \in Tasks |-> 1]
  /\ merged = [t \in Tasks |-> 0] /\ question = [t \in Tasks |-> None]

Init ==
  /\ run = 1 /\ cancelled = FALSE /\ shared = NoAnswers
  /\ Fresh
  /\ pc = [t \in Tasks |-> "ready"] /\ status = [t \in Tasks |-> "none"]
  /\ cached = {}
  /\ got = [k \in Keys |-> {}]

Goto(t, p) == pc' = [pc EXCEPT ![t] = p]

\* syncResumeState: the resume keys of the copy replace the shared ones.
Sync(t) == shared' = copy[t]

End(t, s) == status' = [status EXCEPT ![t] = s] /\ Goto(t, "ended")

-----------------------------------------------------------------------------
(* Before the first attempt.                                               *)

\* buildTaskStateCopy: a deep copy under the state lock.
CopyState(t) ==
  /\ pc[t] = "ready"
  /\ copy' = [copy EXCEPT ![t] = shared]
  /\ Goto(t, "before")
  /\ UNCHANGED <<run, cancelled, shared, asked, attempt, merged, status, question, cached, got>>

\* runBeforeCallbacks: nothing, a result of its own, or an error.
BeforeCallbacks(t, outcome) ==
  /\ pc[t] = "before"
  /\ \/ outcome = "none" /\ Goto(t, "lookup") /\ UNCHANGED shared
     \/ outcome = "result" /\ Sync(t) /\ Goto(t, "merge")
     \/ outcome = "error" /\ Sync(t) /\ Goto(t, "errorbarrier")
  /\ UNCHANGED <<run, cancelled, copy, asked, attempt, merged, status, question, cached, got>>

\* attemptCacheLookup; handleCachedResult runs the after callbacks on a hit.
LookupCache(t) ==
  /\ pc[t] = "lookup"
  /\ Goto(t, IF t \in cached THEN "cached" ELSE "attempt")
  /\ UNCHANGED <<run, cancelled, shared, copy, asked, attempt, merged, status, question, cached, got>>

-----------------------------------------------------------------------------
(* Attempts.                                                               *)

\* Mutant: any entry of the map answers.
AnswerToAny(c, k) ==
  IF c.used[k] # None THEN c.used[k] ELSE IF c.resume # None THEN c.resume
  ELSE IF \E q \in Keys : c.map[q] # None THEN c.map[CHOOSE q \in Keys : c.map[q] # None]
  ELSE None

\* graph.Interrupt(key): the value used before; or Command.Resume, whatever the
\* question; or the entry of Command.ResumeMap.
AnswerTo(c, k) ==
  IF c.used[k] # None THEN c.used[k] ELSE IF c.resume # None THEN c.resume ELSE c.map[k]

Consumed(c, k) ==
  IF c.used[k] # None THEN c
  ELSE IF c.resume # None THEN [c EXCEPT !.used[k] = c.resume, !.resume = None]
  ELSE [c EXCEPT !.used[k] = c.map[k], !.map[k] = None]

Asking(t) == pc[t] = "attempt" /\ asked[t] < Len(Asks[t])

Ask(t) ==
  /\ Asking(t)
  /\ LET k == Asks[t][asked[t] + 1]
         v == AnswerTo(copy[t], k)
     IN  /\ v # None
         /\ copy' = [copy EXCEPT ![t] = Consumed(copy[t], k)]
         /\ got' = [got EXCEPT ![k] = @ \cup {v}]
  /\ asked' = [asked EXCEPT ![t] = @ + 1]
  /\ UNCHANGED <<run, cancelled, shared, pc, attempt, merged, status, question, cached>>

\* No answer yet: the attempt ends with an interrupt, which is never retried.
Interrupted(t) ==
  /\ Asking(t)
  /\ LET k == Asks[t][asked[t] + 1]
     IN  AnswerTo(copy[t], k) = None /\ question' = [question EXCEPT ![t] = k]
  /\ Sync(t)
  /\ End(t, "interrupted")
  /\ UNCHANGED <<run, cancelled, copy, asked, attempt, merged, cached, got>>

\* The function returns.
Returns(t) ==
  /\ pc[t] = "attempt" /\ ~Asking(t)
  /\ Sync(t)
  /\ Goto(t, "after")
  /\ UNCHANGED <<run, cancelled, copy, asked, attempt, merged, status, question, cached, got>>

\* The function fails, panics, or is cancelled, anywhere.
AttemptFails(t) ==
  /\ pc[t] = "attempt"
  /\ Sync(t)
  /\ Goto(t, "decide")
  /\ UNCHANGED <<run, cancelled, copy, asked, attempt, merged, status, question, cached, got>>

\* Mutant: the failed attempt is merged.
DecideRetryMerging(t, again) ==
  /\ pc[t] = "decide"
  /\ Sync(t)
  /\ IF again THEN attempt[t] < MaxAttempts /\ Goto(t, "retrybarrier") ELSE Goto(t, "failbarrier")
  /\ merged' = [merged EXCEPT ![t] = @ + 1]
  /\ UNCHANGED <<run, cancelled, copy, asked, attempt, status, question, cached, got>>

\* evaluateRetryDecision: a policy matches and its budgets of attempts and of time are
\* not used up, or the node has failed.
DecideRetry(t, again) ==
  /\ pc[t] = "decide"
  /\ Sync(t)
  /\ IF again THEN attempt[t] < MaxAttempts /\ Goto(t, "retrybarrier") ELSE Goto(t, "failbarrier")
  /\ UNCHANGED <<run, cancelled, copy, asked, attempt, merged, status, question, cached, got>>

\* Mutant: attempts are not counted.
WaitBeforeRetryUncounted(t) ==
  /\ pc[t] = "backoff"
  /\ \/ asked' = [asked EXCEPT ![t] = 0] /\ Goto(t, "attempt") /\ UNCHANGED status
     \/ cancelled /\ End(t, "failed") /\ UNCHANGED asked
  /\ UNCHANGED <<run, cancelled, shared, copy, attempt, merged, question, cached, got>>

\* waitBeforeRetry: the next attempt, on the same state copy, or the context is done.
WaitBeforeRetry(t) ==
  /\ pc[t] = "backoff"
  /\ \/ /\ attempt' = [attempt EXCEPT ![t] = @ + 1]
        /\ asked' = [asked EXCEPT ![t] = 0]
        /\ Goto(t, "attempt") /\ UNCHANGED status
     \/ cancelled /\ End(t, "failed") /\ UNCHANGED <<asked, attempt>>
  /\ UNCHANGED <<run, cancelled, shared, copy, merged, question, cached, got>>

-----------------------------------------------------------------------------
(* After the last attempt.                                                 *)

\* runAfterCallbacks on success or on a cache hit; they may fail the task.
AfterCallbacks(t, ok) ==
  /\ pc[t] \in {"after", "cached"}
  /\ Sync(t)
  /\ Goto(t, IF ~ok THEN "errorbarrier" ELSE IF pc[t] = "after" THEN "mergenew" ELSE "merge")
  /\ UNCHANGED <<run, cancelled, copy, asked, attempt, merged, status, question, cached, got>>

\* finalizeFailedExecution: an after callback may turn the failure into a result.
AfterFailure(t, recovered) ==
  /\ pc[t] = "failed"
  /\ IF recovered THEN Sync(t) /\ Goto(t, "merge") /\ UNCHANGED status
     ELSE End(t, "failed") /\ UNCHANGED shared
  /\ UNCHANGED <<run, cancelled, copy, asked, attempt, merged, question, cached, got>>

\* handleNodeResult merges the update and writes the channels; a result that is the
\* function's own is put in the cache.
Merge(t) ==
  /\ pc[t] \in {"merge", "mergenew"}
  /\ merged' = [merged EXCEPT ![t] = @ + 1]
  /\ cached' \in {cached, IF pc[t] = "mergenew" THEN cached \cup {t} ELSE cached}
  /\ Goto(t, "route")
  /\ UNCHANGED <<run, cancelled, shared, copy, asked, attempt, status, question, got>>

\* processConditionalEdges, behind the merge: the condition fails, or names a node that
\* does not exist, and the task reports the error without a barrier.
Route(t, ok) ==
  /\ pc[t] = "route"
  /\ IF ok THEN Goto(t, "barrier") /\ UNCHANGED status ELSE End(t, "failed")
  /\ UNCHANGED <<run, cancelled, shared, copy, asked, attempt, merged, question, cached, got>>

\* Code of the user other than the node function panics (callbacks, cache keys, retry
\* policies, conditions); executeStepTask recovers, and the task has failed.
Panics(t) ==
  /\ pc[t] \in {"before", "lookup", "cached", "decide", "after", "failed", "route"}
  /\ End(t, "failed")
  /\ UNCHANGED <<run, cancelled, shared, copy, asked, attempt, merged, question, cached, got>>

\* emitNodeBarrierAndWait: the runner answers; or the event cannot be emitted, the
\* answer does not come in time or the context is done, and the task fails at once.
Barrier(t, answered) ==
  /\ pc[t] \in {"barrier", "errorbarrier", "retrybarrier", "failbarrier"}
  /\ IF ~answered THEN End(t, "failed")
     ELSE \/ pc[t] = "barrier" /\ End(t, "completed")
          \/ pc[t] = "errorbarrier" /\ End(t, "failed")
          \/ pc[t] = "retrybarrier" /\ Goto(t, "backoff") /\ UNCHANGED status
          \/ pc[t] = "failbarrier" /\ Goto(t, "failed") /\ UNCHANGED status
  /\ UNCHANGED <<run, cancelled, shared, copy, asked, attempt, merged, question, cached, got>>

-----------------------------------------------------------------------------
(* The superstep and its resumption.                                       *)

Cancel ==
  /\ ~cancelled
  /\ cancelled' = TRUE
  /\ UNCHANGED <<run, shared, copy, pc, asked, attempt, merged, status, question, cached, got>>

StepOver == \A t \in Tasks : pc[t] = "ended"

\* processResumeCommand: Command.Resume replaces the resume value, Command.ResumeMap
\* the whole resume map; the rest of the shared state comes from the checkpoint.
Answer(k, by) ==
  IF by = "resume" THEN [shared EXCEPT !.resume = k]
  ELSE [shared EXCEPT !.map = [q \in Keys |-> IF q = k THEN k ELSE None]]

\* The human answers the question the interrupt reported.
Resume(t, by) ==
  /\ StepOver /\ run < MaxRuns /\ ~cancelled
  /\ status[t] = "interrupted"
  /\ run' = run + 1
  /\ shared' = Answer(question[t], by)
  /\ LET again == {u \in Tasks : u \notin Askers \/ status[u] = "interrupted"}
     IN  /\ pc' = [u \in Tasks |-> IF u \in again THEN "ready" ELSE "ended"]
         /\ status' = [u \in Tasks |-> IF u \in again THEN "none" ELSE status[u]]
         /\ merged' = [u \in Tasks |-> IF u \in again THEN 0 ELSE merged[u]]
  /\ copy' = [u \in Tasks |-> NoAnswers]
  /\ asked' = [u \in Tasks |-> 0] /\ attempt' = [u \in Tasks |-> 1]
  /\ question' = [u \in Tasks |-> None]
  /\ UNCHANGED <<cancelled, cached, got>>

TaskStep(t) ==
  \/ CopyState(t) \/ LookupCache(t) \/ Ask(t) \/ Interrupted(t) \/ Returns(t)
  \/ AttemptFails(t) \/ WaitBeforeRetry(t) \/ Merge(t) \/ Panics(t)
  \/ \E o \in {"none", "result", "error"} : BeforeCallbacks(t, o)
  \/ \E b \in BOOLEAN :
       \/ DecideRetry(t, b) \/ AfterCallbacks(t, b) \/ AfterFailure(t, b)
       \/ Route(t, b) \/ Barrier(t, b)

\* Nobody answers, or there is nothing to answer.
Over == StepOver /\ UNCHANGED vars

Next ==
  \/ \E t \in Tasks : TaskStep(t)
  \/ \E t \in Tasks, by \in AnswerBy : Resume(t, by)
  \/ Cancel \/ Over

\* Every task has a goroutine of its own; node functions and callbacks return, the
\* runner answers barriers, timers fire.
Fairness == \A t \in Tasks : WF_vars(TaskStep(t))

Spec == Init /\ [][Next]_vars /\ Fairness

-----------------------------------------------------------------------------
(* Properties.                                                             *)

\* graph.Interrupt returns only the answer that was given to its own question: not
\* one a stale copy of another task brought back, nor one for a later question.
RightAnswer == \A k \in Keys : got[k] \subseteq {k}

\* Through whatever retries, cached results and callbacks a task came: if it reports
\* completion it has merged its result once, if it asks a human it has merged none, so
\* that the resumed run may run it again, and no task merges twice.  A task that reports
\* a failure may have merged its result: what fails behind the merge (the conditional
\* edge, the barrier) does not take it back.
Accountable ==
  \A t \in Tasks : pc[t] = "ended" =>
    /\ status[t] = "completed" => merged[t] = 1
    /\ status[t] = "interrupted" => merged[t] = 0
    /\ status[t] = "failed" => merged[t] \in {0, 1}

\* Every task ends: attempts are bounded, also when every retry is granted.
TaskEnds == \A t \in Tasks : (pc[t] = "ready") ~> (pc[t] = "ended")
=============================================================================
