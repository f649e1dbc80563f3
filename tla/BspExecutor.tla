---------------------------- MODULE BspExecutor ----------------------------
(***************************************************************************)
(* The BSP engine (runBspLoop in graph/executor.go) over the lifetime of a *)
(* lineage: supersteps of planning, concurrent execution and update, the   *)
(* checkpoint after every superstep, internal, static and external         *)
(* interrupts, node errors, process crashes, and runs resumed from any     *)
(* checkpoint of the lineage.                                              *)
(***************************************************************************)
EXTENDS ExecutionContext

CONSTANTS
  MaxSteps,         \* Executor.maxSteps
  MaxConcurrency,   \* Executor.maxConcurrency
  MaxRuns,          \* bound: runs of the lineage
  MaxCrashes,       \* bound: process crashes
  MaxLostSaves,     \* bound: PutFull calls that fail
  ExternalInterrupts, \* whether the caller runs under WithGraphInterrupt
  TimeTravel        \* whether a run may resume from a checkpoint that is not the latest,
                    \* and a lineage that has completed

ASSUME BspAssumption ==
  /\ MaxSteps \in Nat /\ MaxConcurrency \in Nat \ {0} /\ MaxRuns \in Nat
  /\ MaxCrashes \in Nat /\ MaxLostSaves \in Nat
  /\ ExternalInterrupts \in BOOLEAN /\ TimeTravel \in BOOLEAN

VARIABLES
  status,     \* of the current run
  step,       \* the superstep
  tasks,      \* the tasks of the superstep being executed, in dispatch order
  work,       \* work[i]: how far tasks[i] is, see Work
  firstErr,   \* the error executeStep will return, NoErr when none yet
  ext,        \* the external interrupt of this run
  runs, crashes, lostSaves

engineVars == <<status, step, tasks, work, firstErr, ext>>
boundVars == <<runs, crashes, lostSaves>>
vars == <<ctxVars, engineVars, boundVars>>

Ended == {"done", "maxed", "interrupted", "failed", "crashed"}
NoErr == [kind |-> "none", node |-> End]

\* A checkpoint save either reaches the store or fails (at most MaxLostSaves).
SaveOutcome(saved) ==
  \/ saved /\ UNCHANGED lostSaves
  \/ ~saved /\ lostSaves < MaxLostSaves /\ lostSaves' = lostSaves + 1

\* A task: its phase, the channels it has still to write, and the channels its
\* conditional edge adds to them once its result has been handled.
Work == [phase : {"queued", "running", "writing", "finishing", "completed", "err"},
         todo : Seq(ChannelName), branch : Seq(ChannelName)]

\* Mutant: the last step's tasks stay behind in their workers.
ClearTasks == tasks' = <<>> /\ firstErr' = NoErr /\ UNCHANGED work

ClearStep == tasks' = <<>> /\ work' = <<>> /\ firstErr' = NoErr
-----------------------------------------------------------------------------
(***************************************************************************)
(* Starting and resuming a run                                             *)
(***************************************************************************)

\* Execute on a lineage without a checkpoint.
StartRun ==
  /\ status \in {"idle", "failed", "crashed", "interrupted"} /\ ckpts = <<>> /\ runs < MaxRuns
  /\ \E saved \in BOOLEAN : FreshContext(saved) /\ SaveOutcome(saved)
  /\ status' = "planning" /\ step' = 0 /\ ext' = "none" /\ runs' = runs + 1
  /\ ClearStep /\ UNCHANGED crashes

\* Execute with lineage_id and checkpoint_id of a stored checkpoint.
ResumeRun ==
  /\ status \in {"failed", "crashed", "interrupted"} \/ (TimeTravel /\ status = "done")
  /\ runs < MaxRuns
  /\ \E k \in DOMAIN ckpts :
       /\ TimeTravel \/ k = Len(ckpts)
       /\ ResumeContext(k, SeedNodes(ckpts[k]))
       /\ step' = ckpts[k].step + 1
  /\ status' = "planning" /\ ext' = "none" /\ runs' = runs + 1
  /\ ClearStep /\ UNCHANGED <<crashes, lostSaves>>

\* The process dies; the graph of the next one is the graph as built.
Crash ==
  /\ status \in {"planning", "executing"} /\ crashes < MaxCrashes
  /\ status' = "crashed" /\ crashes' = crashes + 1
  /\ declared' = graph.declared /\ mapped' = graph.mapped
  /\ ClearStep
  /\ UNCHANGED <<chan, nextNodes, skips, pendingWrites, pendingTasks, versionsSeen,
                 resumedFrom, ckpts, duty, step, ext, runs, lostSaves>>

\* The caller requests an external interrupt; with a timeout, the watcher then
\* cancels the run's context.
RequestInterrupt ==
  /\ ExternalInterrupts /\ status \in {"planning", "executing"}
  /\ \/ ext = "none" /\ ext' = "requested"
     \/ ext = "requested" /\ ext' = "forced"
  /\ UNCHANGED <<ctxVars, status, step, tasks, work, firstErr, boundVars>>
-----------------------------------------------------------------------------
(***************************************************************************)
(* Planning (planTasksForBspStep, planStep).  A plan is the task list with *)
(* the channels, next nodes and pending tasks it leaves.                   *)
(***************************************************************************)

\* shouldTriggerNode against the checkpoint the run was resumed from.
ShouldTrigger(c) ==
  \/ graph.expected[c] # {}
  \/ chan[c].version > ckpts[resumedFrom].versionsSeen[graph.target[c]][c]

\* planBasedOnVersionTriggers for resumed runs, planBasedOnAvailabilityTriggers
\* for fresh ones.  The former acknowledges every available channel, the latter
\* those with a trigger mapping.
TriggeredBy ==
  {c \in Available(chan, mapped) :
     graph.target[c] \in Node /\ (resumedFrom # 0 => ShouldTrigger(c))}

AcknowledgedChannels ==
  [c \in ChannelName |->
     IF chan[c].available /\ (resumedFrom # 0 \/ c \in mapped)
     THEN Acknowledge(chan[c]) ELSE chan[c]]

\* The plans planStep can produce from here.  Triggered tasks are sorted by node
\* id; any order is allowed, so that nothing depends on how nodes are named.
Plans ==
  IF nextNodes # <<>> THEN
    {[tasks |-> order, chan |-> chan, pendingTasks |-> pendingTasks] :
       order \in Executable(nextNodes)}
  ELSE IF pendingTasks # <<>> THEN
    {[tasks |-> pendingTasks, chan |-> chan, pendingTasks |-> <<>>]}
  ELSE IF step = 0 THEN
    {[tasks |-> <<graph.entry>>, chan |-> chan, pendingTasks |-> <<>>]}
  ELSE
    {[tasks |-> order, chan |-> AcknowledgedChannels, pendingTasks |-> <<>>] :
       order \in SetToSeqs(Targets(TriggeredBy))}

StaticHits(plan) == Range(plan.tasks) \cap graph.before

TakePlan(plan) ==
  /\ status = "planning" /\ step < MaxSteps
  /\ chan' = plan.chan /\ nextNodes' = <<>> /\ pendingTasks' = plan.pendingTasks

\* The loop ends: the step budget is used up, or there is nothing to run.
UseUpSteps ==
  /\ status = "planning" /\ step >= MaxSteps /\ status' = "maxed"
  /\ UNCHANGED <<ctxVars, step, tasks, work, firstErr, ext, boundVars>>

Stop ==
  /\ \E plan \in Plans : TakePlan(plan) /\ plan.tasks = <<>>
  /\ status' = "done"
  /\ UNCHANGED <<declared, mapped, skips, pendingWrites, versionsSeen, resumedFrom, ckpts,
                 duty, step, tasks, work, firstErr, ext, boundVars>>

\* maybeHandleExternalInterruptBeforeStep: the planned tasks become the next
\* nodes of an interrupt checkpoint of the previous step.
PauseBeforeStep ==
  /\ ext # "none"
  /\ \E plan \in Plans, saved \in BOOLEAN :
       /\ TakePlan(plan) /\ plan.tasks # <<>>
       /\ SaveOutcome(saved)
       /\ SaveInterruptCheckpoint(step - 1, plan.chan, skips,
            InterruptNextNodes(plan.tasks, <<>>, End, FALSE), duty, saved)
  /\ status' = "interrupted"
  /\ UNCHANGED <<declared, mapped, skips, pendingWrites, versionsSeen, resumedFrom, duty,
                 step, tasks, work, firstErr, ext, runs, crashes>>

\* maybeStaticInterruptBefore when some breakpoint is not to be skipped.
BreakBeforeStep ==
  /\ ext = "none"
  /\ \E plan \in Plans, saved \in BOOLEAN :
       /\ TakePlan(plan) /\ ~(StaticHits(plan) \subseteq skips)
       /\ skips' = skips \cup StaticHits(plan)
       /\ SaveOutcome(saved)
       /\ duty' = StopBefore(duty, StaticHits(plan))
       /\ \E active \in SetToSeqs(Range(plan.tasks)), hit \in StaticHits(plan) :
            SaveInterruptCheckpoint(step, plan.chan, skips',
              InterruptNextNodes(active, <<>>, hit, FALSE), duty', saved)
  /\ status' = "interrupted"
  /\ UNCHANGED <<declared, mapped, pendingWrites, versionsSeen, resumedFrom,
                 step, tasks, work, firstErr, ext, runs, crashes>>

\* Otherwise the step executes, and the breakpoints passed are armed again.
ExecuteStep ==
  /\ ext = "none"
  /\ \E plan \in Plans :
       /\ TakePlan(plan) /\ plan.tasks # <<>>
       /\ StaticHits(plan) \subseteq skips
       /\ skips' = skips \ StaticHits(plan)
       /\ tasks' = plan.tasks
       /\ work' = [i \in DOMAIN plan.tasks |->
                     [phase |-> "queued", todo |-> <<>>, branch |-> <<>>]]
       /\ duty' = Begin(duty, plan.tasks)
  /\ status' = "executing"
  /\ UNCHANGED <<declared, mapped, pendingWrites, versionsSeen, resumedFrom, ckpts,
                 step, firstErr, ext, boundVars>>
-----------------------------------------------------------------------------
(***************************************************************************)
(* Execution (executeStep): workers take the tasks in order.               *)
(***************************************************************************)
Completed(i) == work[i].phase = "completed"
Running(i) == work[i].phase \notin {"queued", "err"} /\ ~Completed(i)

StartTask(i) ==
  /\ status = "executing" /\ work[i].phase = "queued"
  /\ \A j \in 1..(i - 1) : work[j].phase # "queued"
  /\ Cardinality({j \in DOMAIN tasks : Running(j)}) < MaxConcurrency
  /\ work' = [work EXCEPT ![i].phase = "running"]
  /\ UNCHANGED <<ctxVars, status, step, tasks, firstErr, ext, boundVars>>

\* handleNodeResult: merge the result and enqueue the tasks it fans out; the writes of
\* its static edges, or of its GoTo, follow one by one.
HandleNodeResult(i) ==
  /\ status = "executing" /\ work[i].phase = "running"
  /\ \E r \in Results(tasks[i]) :
       /\ work' = [work EXCEPT ![i] = [phase |-> "writing", todo |-> r.writes,
                                       branch |-> r.branch]]
       /\ pendingTasks' = pendingTasks \o r.spawn
       /\ duty' = Owe(duty, r.spawn)
  /\ UNCHANGED <<declared, mapped, chan, nextNodes, skips, pendingWrites, versionsSeen,
                 resumedFrom, ckpts, status, step, tasks, firstErr, ext, boundVars>>

WriteNext(i) ==
  /\ status = "executing" /\ work[i].phase \in {"writing", "finishing"}
  /\ work[i].todo # <<>>
  /\ WriteChannel(tasks[i], Head(work[i].todo))
  /\ duty' = Send(duty, Head(work[i].todo), tasks[i])
  /\ work' = [work EXCEPT ![i].todo = Tail(@)]
  /\ UNCHANGED <<nextNodes, skips, pendingTasks, versionsSeen, resumedFrom, ckpts, status,
                 step, tasks, firstErr, ext, boundVars>>

\* The result has been handled: updateVersionsSeen, but not for the result of a before
\* callback, and then the writes of the conditional edge.
FinishTask(i) ==
  /\ status = "executing" /\ work[i].phase = "writing" /\ work[i].todo = <<>>
  /\ \/ UpdateVersionsSeen(tasks[i])
     \/ tasks[i] \in graph.answered /\ UNCHANGED versionsSeen
  /\ work' = [work EXCEPT ![i] = [phase |-> "finishing", todo |-> work[i].branch,
                                  branch |-> <<>>]]
  /\ UNCHANGED <<declared, mapped, chan, nextNodes, skips, pendingWrites, pendingTasks,
                 resumedFrom, ckpts, duty, status, step, tasks, firstErr, ext, boundVars>>

\* The barrier is answered: executeStepTask marks the task as completed.
CompleteTask(i) ==
  /\ status = "executing" /\ work[i].phase = "finishing" /\ work[i].todo = <<>>
  /\ work' = [work EXCEPT ![i].phase = "completed"]
  /\ UNCHANGED <<ctxVars, status, step, tasks, firstErr, ext, boundVars>>

FailureKinds(i) ==
  {kind \in {"error", "interrupt", "canceled"} :
     /\ kind = "error" => tasks[i] \in graph.failing
     /\ kind = "interrupt" => tasks[i] \in graph.interrupting
     /\ kind = "canceled" => ext = "forced"}

\* Mutant: a failed task goes back to the queue of the step.
FailTaskRequeued(i) ==
  /\ status = "executing" /\ work[i].phase = "running" /\ FailureKinds(i) # {}
  /\ work' = [work EXCEPT ![i].phase = "queued"]
  /\ UNCHANGED <<ctxVars, status, step, tasks, firstErr, ext, boundVars>>

\* The task of a node fails with one of kinds; executeStep keeps the first error.
Fail(i, kinds) ==
  /\ \E kind \in kinds :
       firstErr' = IF firstErr = NoErr THEN [kind |-> kind, node |-> tasks[i]] ELSE firstErr
  /\ work' = [work EXCEPT ![i] = [phase |-> "err", todo |-> <<>>, branch |-> <<>>]]
  /\ UNCHANGED <<ctxVars, status, step, tasks, ext, boundVars>>

\* The node fails, interrupts, or is cancelled by a forced external interrupt.
FailTask(i) ==
  /\ status = "executing" /\ work[i].phase = "running"
  /\ Fail(i, FailureKinds(i))

\* The task fails or is cancelled behind its result: the conditional edge fails, before
\* or between its writes, or the barrier does.  What was merged and written stays, and
\* the task is not marked as completed.
FailBehindResult(i) ==
  /\ status = "executing" /\ work[i].phase = "finishing"
  /\ Fail(i, FailureKinds(i) \ {"interrupt"})
-----------------------------------------------------------------------------
(***************************************************************************)
(* The end of a superstep, after all workers have returned                 *)
(***************************************************************************)
StepOver ==
  /\ status = "executing"
  /\ \A i \in DOMAIN tasks : work[i].phase = "err" \/ Completed(i)

\* The tasks with those that the step report has marked as completed blanked out.
Unfinished == [i \in DOMAIN tasks |-> IF work[i].phase = "err" THEN tasks[i] ELSE End]

\* Mutant: the whole step is run again.
AllTasksToRerun == {tasks}

\* tasksToRerun: the one list of the tasks that are not completed, in order.
TasksToRerun == Executable(Unfinished)

\* The promise with the tasks that did not complete outstanding again.  That includes a
\* task that was cut behind its result: the engine only knows whether a task reported
\* completion, so execution is at least once, and such a task is entitled to one more
\* start although its result is merged and its writes have triggered their targets.
Outstanding == Owe(duty, Unfinished)

\* getNextNodes ranges over a Go map, so its order is arbitrary.
Frontiers == SetToSeqs(GetNextNodes(chan))

\* handleExecuteStepError for an interrupt raised by a node.
InterruptStep ==
  /\ StepOver /\ firstErr.kind = "interrupt"
  /\ \E saved \in BOOLEAN, frontier \in Frontiers :
       /\ SaveOutcome(saved)
       /\ SaveInterruptCheckpoint(step, chan, skips,
            InterruptNextNodes(<<>>, frontier, firstErr.node, FALSE), Outstanding, saved)
  /\ status' = "interrupted" /\ ClearStep
  /\ UNCHANGED <<declared, mapped, chan, nextNodes, skips, pendingWrites, pendingTasks,
                 versionsSeen, resumedFrom, duty, step, ext, runs, crashes>>

\* handleForcedExternalInterrupt: rerun what did not complete.
ForceInterruptStep ==
  /\ StepOver /\ firstErr.kind = "canceled"
  /\ \E saved \in BOOLEAN, rerun \in TasksToRerun :
     \E rest \in SetToSeqs((GetNextNodes(chan) \cap Node) \ Range(rerun)) :
       /\ SaveOutcome(saved)
       /\ SaveInterruptCheckpoint(step, chan, skips,
            InterruptNextNodes(rerun \o rest, <<>>, End, FALSE), Outstanding, saved)
  /\ status' = "interrupted" /\ ClearStep
  /\ UNCHANGED <<declared, mapped, chan, nextNodes, skips, pendingWrites, pendingTasks,
                 versionsSeen, resumedFrom, duty, step, ext, runs, crashes>>

FailStep ==
  /\ StepOver /\ firstErr.kind = "error"
  /\ status' = "failed" /\ ClearStep
  /\ UNCHANGED <<ctxVars, step, ext, boundVars>>

\* maybeHandleStaticInterruptAfterStep: the completed nodes are not rerun.
BreakAfterStep ==
  /\ StepOver /\ firstErr = NoErr /\ Range(tasks) \cap graph.after # {}
  /\ \E saved \in BOOLEAN, frontier \in Frontiers, hit \in Range(tasks) \cap graph.after :
       /\ SaveOutcome(saved)
       /\ SaveInterruptCheckpoint(step, chan, skips,
            InterruptNextNodes(<<>>, frontier, hit, TRUE), duty, saved)
  /\ status' = "interrupted" /\ ClearStep
  /\ UNCHANGED <<declared, mapped, chan, nextNodes, skips, pendingWrites, pendingTasks,
                 versionsSeen, resumedFrom, duty, step, ext, runs, crashes>>

\* maybeCreateLoopCheckpoint, then the next superstep.
NextStep ==
  /\ StepOver /\ firstErr = NoErr /\ Range(tasks) \cap graph.after = {}
  /\ \E saved \in BOOLEAN, frontier \in Frontiers :
       SaveOutcome(saved) /\ SaveLoopCheckpoint(step, frontier, saved)
  /\ step' = step + 1 /\ status' = "planning" /\ ClearStep
  /\ UNCHANGED <<declared, mapped, chan, nextNodes, skips, pendingTasks, versionsSeen,
                 resumedFrom, duty, ext, runs, crashes>>
-----------------------------------------------------------------------------
\* The lineage is finished, or its bounds are used up.
LineageOver ==
  /\ status \in {"done", "maxed"} \/ (status \in Ended /\ runs = MaxRuns)
  /\ UNCHANGED vars

WorkerStep(i) ==
  \/ StartTask(i) \/ HandleNodeResult(i) \/ WriteNext(i) \/ FinishTask(i)
  \/ CompleteTask(i) \/ FailTask(i) \/ FailBehindResult(i)

EngineStep ==
  \/ UseUpSteps \/ Stop \/ PauseBeforeStep \/ BreakBeforeStep \/ ExecuteStep
  \/ \E i \in DOMAIN tasks : WorkerStep(i)
  \/ InterruptStep \/ ForceInterruptStep \/ FailStep \/ BreakAfterStep \/ NextStep

Init ==
  /\ InitContext
  /\ status = "idle" /\ step = 0 /\ tasks = <<>> /\ work = <<>>
  /\ firstErr = NoErr /\ ext = "none" /\ runs = 0 /\ crashes = 0 /\ lostSaves = 0

Next == StartRun \/ ResumeRun \/ Crash \/ RequestInterrupt \/ EngineStep \/ LineageOver

\* The executor goroutine and its workers keep running, and node functions
\* return (the code gives no bound on them beyond the caller's context).
Spec == Init /\ [][Next]_vars /\ WF_vars(EngineStep)
-----------------------------------------------------------------------------
\* Every variable has its type.
TypeOK ==
  /\ ContextTypeOK
  /\ status \in {"idle", "planning", "executing"} \cup Ended
  /\ step \in Nat /\ tasks \in Seq(Node)
  /\ work \in Seq(Work) /\ Len(work) = Len(tasks)
  /\ firstErr \in [kind : {"none", "error", "interrupt", "canceled"}, node : Node \cup {End}]
  /\ ext \in {"none", "requested", "forced"}

\* Every activation is followed by an execution of its target: when a run
\* reports completion, across any crashes, interrupts and resumes before it,
\* no node that the edges of the graph triggered is still waiting.
NothingLost == status = "done" => duty.owed = {}

\* No node is executed more often than it was triggered: resuming never repeats
\* a node that reported completion before the checkpoint, and a join runs once for
\* each time all of its starts have completed.  A task that was cut before it reported
\* completion is started once more, also when its result was merged (Outstanding).
NothingRepeated == duty.excess = {}

\* A breakpoint pauses once: after the pause, resuming takes the run past it.
BreakpointPassed == duty.restopped = {}

\* planBasedOnVersionTriggers never hides an activation: on a resumed run, every
\* available channel with a subscriber passes the version test.
VersionGateOpen ==
  status = "planning" /\ resumedFrom # 0 =>
    \A c \in Available(chan, mapped) : graph.target[c] \in Node => ShouldTrigger(c)

\* Every run ends: it completes, uses up its steps, pauses or fails.
RunEnds == status \in {"planning", "executing"} ~> status \in Ended
=============================================================================
