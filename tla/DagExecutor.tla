---------------------------- MODULE DagExecutor ----------------------------
(***************************************************************************)
(* The eager DAG engine (dagLoop in graph/executor_dag.go) over the        *)
(* lifetime of a lineage.  One scheduling loop starts a goroutine per task *)
(* under a semaphore, and goroutines write channels while the loop plans;  *)
(* the loop drains what is in flight before it interrupts, fails or ends.  *)
(***************************************************************************)
EXTENDS ExecutionContext

CONSTANTS
  MaxSteps,           \* Executor.maxSteps: node executions of one run
  MaxConcurrency,     \* Executor.maxConcurrency
  MaxRuns,            \* bound: runs of the lineage
  MaxCrashes,         \* bound: process crashes
  LostSaves,          \* whether PutFull calls may fail
  ExternalInterrupts, \* whether the caller runs under WithGraphInterrupt
  Cancellation,       \* whether the caller may cancel its context
  TimeTravel          \* whether a run may resume any checkpoint, also of a completed lineage

ASSUME DagAssumption ==
  /\ MaxSteps \in Nat /\ MaxConcurrency \in Nat \ {0}
  /\ MaxRuns \in Nat /\ MaxCrashes \in Nat
  /\ LostSaves \in BOOLEAN /\ ExternalInterrupts \in BOOLEAN
  /\ Cancellation \in BOOLEAN /\ TimeTravel \in BOOLEAN

VARIABLES
  status,     \* of the current run
  pc,         \* where the loop is within an iteration of run()
  nextStep,   \* the step number of the next task
  ready, inFlight, waiting, sem,
  worker,     \* worker[s]: the goroutine of the task with step number s
  draining, drainMaxStep, pendingIntr, pauseRequested, rerunNodes, executed,
  requested,  \* the caller called the interrupt function
  ctx,        \* the run's context: "live", "timedout" by the interrupt watcher, "canceled"
  runs, crashes

loopVars == <<status, pc, nextStep, ready, inFlight, waiting, draining, drainMaxStep,
              pendingIntr, pauseRequested, rerunNodes, executed>>
envVars == <<requested, ctx, runs, crashes>>
vars == <<ctxVars, loopVars, sem, worker, envVars>>

Steps == 0..(MaxSteps - 1)

\* A checkpoint save reaches the store, or fails and the run goes on without it.
Saves == {TRUE} \cup (IF LostSaves THEN {FALSE} ELSE {})
Ended == {"done", "maxed", "interrupted", "failed", "crashed"}
NoIntr == [node |-> End, skipRerun |-> FALSE, step |-> -1, set |-> FALSE]
Intr(node, skipRerun, step) ==
  [node |-> node, skipRerun |-> skipRerun, step |-> step, set |-> TRUE]

\* A goroutine runs its node, writes the channels of the result, gives its
\* semaphore slot back and sends its result to the loop, which receives it.
NoWorker == [node |-> End, phase |-> "none", todo |-> <<>>, branch |-> <<>>, err |-> "none"]
Holding == {"running", "writing", "finishing"}
Live == Holding \cup {"released", "sent"}
LiveSteps == {s \in Steps : worker[s].phase \in Live}
HoldingSteps == {s \in Steps : worker[s].phase \in Holding}
Sent == {s \in Steps : worker[s].phase = "sent"}
-----------------------------------------------------------------------------
(***************************************************************************)
(* Starting, resuming and losing a run                                     *)
(***************************************************************************)

\* newDagLoop; seed queues the next nodes of a resumed run, nothing if there
\* are none, and the entry point of a fresh run.
NewLoop(start, seeds) ==
  /\ status' = "running" /\ pc' = "request" /\ nextStep' = start /\ ready' = seeds
  /\ inFlight' = {} /\ waiting' = [n \in Node |-> 0] /\ sem' = 0
  /\ worker' = [s \in Steps |-> NoWorker]
  /\ draining' = FALSE /\ drainMaxStep' = FALSE /\ pendingIntr' = NoIntr
  /\ pauseRequested' = FALSE /\ rerunNodes' = <<>> /\ executed' = FALSE
  /\ requested' = FALSE /\ ctx' = "live" /\ runs' = runs + 1 /\ UNCHANGED crashes

StartRun ==
  /\ status \in {"idle", "failed", "crashed", "interrupted"} /\ ckpts = <<>> /\ runs < MaxRuns
  /\ \E saved \in Saves : FreshContext(saved)
  /\ NewLoop(0, <<graph.entry>>)

ResumeRun ==
  /\ status \in {"failed", "crashed", "interrupted"} \/ (TimeTravel /\ status = "done")
  /\ runs < MaxRuns
  /\ \E k \in DOMAIN ckpts :
       /\ TimeTravel \/ k = Len(ckpts)
       /\ \E seeds \in Executable(SeedNodes(ckpts[k])) :
            ResumeContext(k, <<>>) /\ NewLoop(ckpts[k].step + 1, seeds)

Crash ==
  /\ status = "running" /\ crashes < MaxCrashes
  /\ status' = "crashed" /\ crashes' = crashes + 1
  /\ declared' = graph.declared /\ mapped' = graph.mapped
  /\ worker' = [s \in Steps |-> NoWorker]
  /\ UNCHANGED <<chan, nextNodes, skips, pendingWrites, pendingTasks, versionsSeen,
                 resumedFrom, ckpts, duty, pc, nextStep, ready, inFlight, waiting, sem,
                 draining, drainMaxStep, pendingIntr, pauseRequested, rerunNodes, executed,
                 requested, ctx, runs>>

\* The caller asks for a pause; with a timeout, the watcher then cancels the
\* context with its own cause.
RequestInterrupt ==
  /\ ExternalInterrupts /\ status = "running"
  /\ \/ ~requested /\ requested' = TRUE /\ UNCHANGED ctx
     \/ requested /\ ctx = "live" /\ ctx' = "timedout" /\ UNCHANGED requested
  /\ UNCHANGED <<ctxVars, loopVars, sem, worker, runs, crashes>>

CancelContext ==
  /\ Cancellation /\ status = "running" /\ ctx = "live" /\ ctx' = "canceled"
  /\ UNCHANGED <<ctxVars, loopVars, sem, worker, requested, runs, crashes>>
-----------------------------------------------------------------------------
(***************************************************************************)
(* Goroutines (launchTask, executeSingleTask)                              *)
(***************************************************************************)

\* The node returns: its result is merged and its fan-out enqueued; the
\* channel writes of its static edges, or of its GoTo, follow one by one.
NodeReturns(s) ==
  /\ status = "running" /\ worker[s].phase = "running"
  /\ \E r \in Results(worker[s].node) :
       /\ worker' = [worker EXCEPT ![s].phase = "writing", ![s].todo = r.writes,
                                     ![s].branch = r.branch]
       /\ pendingTasks' = pendingTasks \o r.spawn
       /\ duty' = Owe(duty, r.spawn)
  /\ UNCHANGED <<declared, mapped, chan, nextNodes, skips, pendingWrites, versionsSeen,
                 resumedFrom, ckpts, loopVars, sem, envVars>>

\* The node returns an error, interrupts, or gives up because its context ended.
NodeFails(s) ==
  /\ status = "running" /\ worker[s].phase = "running"
  /\ \E kind \in {"error", "interrupt"} :
       /\ kind = "error" => worker[s].node \in graph.failing \/ ctx # "live"
       /\ kind = "interrupt" => worker[s].node \in graph.interrupting
       /\ worker' = [worker EXCEPT ![s].phase = "finishing", ![s].err = kind]
  /\ UNCHANGED <<ctxVars, loopVars, sem, envVars>>

WriteNext(s) ==
  /\ status = "running" /\ worker[s].phase \in {"writing", "finishing"}
  /\ worker[s].todo # <<>>
  /\ WriteChannel(worker[s].node, Head(worker[s].todo))
  /\ duty' = Send(duty, Head(worker[s].todo), worker[s].node)
  /\ worker' = [worker EXCEPT ![s].todo = Tail(@)]
  /\ UNCHANGED <<nextNodes, skips, pendingTasks, versionsSeen, resumedFrom, ckpts,
                 loopVars, sem, envVars>>

\* The result has been handled: updateVersionsSeen, but not for the result of a before
\* callback, and then the writes of the conditional edge.
SeeVersions(s) ==
  /\ status = "running" /\ worker[s].phase = "writing" /\ worker[s].todo = <<>>
  /\ \/ UpdateVersionsSeen(worker[s].node)
     \/ worker[s].node \in graph.answered /\ UNCHANGED versionsSeen
  /\ worker' = [worker EXCEPT ![s].phase = "finishing", ![s].todo = worker[s].branch]
  /\ UNCHANGED <<declared, mapped, chan, nextNodes, skips, pendingWrites, pendingTasks,
                 resumedFrom, ckpts, duty, loopVars, sem, envVars>>

\* The task fails behind its result: the conditional edge fails, before or between its
\* writes, or the barrier does, or the context has ended.  What was merged and written
\* stays.
FailsBehindResult(s) ==
  /\ status = "running" /\ worker[s].phase = "finishing" /\ worker[s].err = "none"
  /\ worker[s].node \in graph.failing \/ ctx # "live"
  /\ worker' = [worker EXCEPT ![s].err = "error", ![s].todo = <<>>]
  /\ UNCHANGED <<ctxVars, loopVars, sem, envVars>>

\* Mutants: the slot is given back twice, or not at all.
ReleaseWorkerTwice(s) ==
  /\ status = "running" /\ worker[s].phase = "finishing" /\ worker[s].todo = <<>>
  /\ sem' = sem - 2
  /\ worker' = [worker EXCEPT ![s].phase = "released"]
  /\ UNCHANGED <<ctxVars, loopVars, envVars>>

ReleaseWorkerNot(s) ==
  /\ status = "running" /\ worker[s].phase = "finishing" /\ worker[s].todo = <<>>
  /\ worker' = [worker EXCEPT ![s].phase = "released"]
  /\ UNCHANGED <<ctxVars, loopVars, sem, envVars>>

ReleaseWorker(s) ==
  /\ status = "running" /\ worker[s].phase = "finishing" /\ worker[s].todo = <<>>
  /\ sem' = sem - 1
  /\ worker' = [worker EXCEPT ![s].phase = "released"]
  /\ UNCHANGED <<ctxVars, loopVars, envVars>>

\* The done channel has room for MaxConcurrency results.
SendDone(s) ==
  /\ status = "running" /\ worker[s].phase = "released"
  /\ Cardinality(Sent) < MaxConcurrency
  /\ worker' = [worker EXCEPT ![s].phase = "sent"]
  /\ UNCHANGED <<ctxVars, loopVars, sem, envVars>>
-----------------------------------------------------------------------------
(***************************************************************************)
(* The loop                                                                *)
(***************************************************************************)
At(l) == status = "running" /\ pc = l

\* maybeRequestExternalInterrupt
Request ==
  /\ At("request") /\ pc' = "start"
  /\ pauseRequested' = (pauseRequested \/ (~draining /\ requested))
  /\ UNCHANGED <<ctxVars, status, nextStep, ready, inFlight, waiting, draining, drainMaxStep,
                 pendingIntr, rerunNodes, executed, sem, worker, envVars>>

Starting == At("start") /\ ~draining /\ ~pauseRequested /\ ready # <<>>

\* startReadyTasks has nothing (more) to start.
StartNothing ==
  /\ At("start") /\ (draining \/ pauseRequested \/ ready = <<>>)
  /\ pc' = "plan"
  /\ UNCHANGED <<ctxVars, status, nextStep, ready, inFlight, waiting, draining, drainMaxStep,
                 pendingIntr, pauseRequested, rerunNodes, executed, sem, worker, envVars>>

\* A task of the same node is in flight: wait behind it.
QueueBehind ==
  /\ Starting /\ Head(ready) \in inFlight
  /\ waiting' = [waiting EXCEPT ![Head(ready)] = @ + 1]
  /\ ready' = Tail(ready)
  /\ UNCHANGED <<ctxVars, status, pc, nextStep, inFlight, draining, drainMaxStep, pendingIntr,
                 pauseRequested, rerunNodes, executed, sem, worker, envVars>>

\* maybeStartStaticInterruptBefore: the breakpoint is armed.
BreakBefore ==
  /\ Starting /\ Head(ready) \notin inFlight
  /\ Head(ready) \in graph.before \ skips
  /\ skips' = skips \cup {Head(ready)}
  /\ duty' = StopBefore(duty, {Head(ready)})
  /\ pendingIntr' = Intr(Head(ready), FALSE, nextStep) /\ draining' = TRUE /\ pc' = "plan"
  /\ UNCHANGED <<declared, mapped, chan, nextNodes, pendingWrites, pendingTasks, versionsSeen,
                 resumedFrom, ckpts, status, nextStep, ready, inFlight, waiting, drainMaxStep,
                 pauseRequested, rerunNodes, executed, sem, worker, envVars>>

\* Mutant: the in-flight check is missing.
PastBreakpointUnchecked ==
  /\ Starting
  /\ Head(ready) \notin graph.before \ skips
  /\ skips' = IF Head(ready) \in graph.before THEN skips \ {Head(ready)} ELSE skips

\* Past the breakpoint check, which uses up a skip.
PastBreakpoint ==
  /\ Starting /\ Head(ready) \notin inFlight
  /\ Head(ready) \notin graph.before \ skips
  /\ skips' = IF Head(ready) \in graph.before THEN skips \ {Head(ready)} ELSE skips

\* Mutant: off by one.
SlotFreeOffByOne == sem <= MaxConcurrency

\* tryAcquireWorker would succeed.
SlotFree == sem < MaxConcurrency

\* tryAcquireWorker fails: the task stays at the head of the queue.
NoSlot ==
  /\ PastBreakpoint /\ ~SlotFree
  /\ pc' = "plan"
  /\ UNCHANGED <<declared, mapped, chan, nextNodes, pendingWrites, pendingTasks, versionsSeen,
                 resumedFrom, ckpts, duty, status, nextStep, ready, inFlight, waiting, draining,
                 drainMaxStep, pendingIntr, pauseRequested, rerunNodes, executed, sem, worker,
                 envVars>>

\* takeNextStep fails: stop starting tasks and let the run end.
NoStep ==
  /\ PastBreakpoint /\ SlotFree /\ nextStep >= MaxSteps
  /\ draining' = TRUE /\ drainMaxStep' = TRUE /\ pc' = "plan"
  /\ UNCHANGED <<declared, mapped, chan, nextNodes, pendingWrites, pendingTasks, versionsSeen,
                 resumedFrom, ckpts, duty, status, nextStep, ready, inFlight, waiting,
                 pendingIntr, pauseRequested, rerunNodes, executed, sem, worker, envVars>>

LaunchTask ==
  /\ PastBreakpoint /\ SlotFree /\ nextStep < MaxSteps
  /\ sem' = sem + 1 /\ nextStep' = nextStep + 1
  /\ inFlight' = inFlight \cup {Head(ready)} /\ ready' = Tail(ready)
  /\ worker' = [worker EXCEPT ![nextStep] =
                  [node |-> Head(ready), phase |-> "running", todo |-> <<>>, branch |-> <<>>,
                   err |-> "none"]]
  /\ duty' = Begin(duty, <<Head(ready)>>)
  /\ UNCHANGED <<declared, mapped, chan, nextNodes, pendingWrites, pendingTasks, versionsSeen,
                 resumedFrom, ckpts, status, pc, waiting, draining, drainMaxStep, pendingIntr,
                 pauseRequested, rerunNodes, executed, envVars>>

\* Mutants: fan-out tasks are dropped; fan-out tasks stay pending.
QueueDroppingFanOut(q) ==
  LET consumed == Available(chan, mapped)
  IN  /\ \E order \in SetToSeqs(Targets(consumed) \cap Node) : ready' = q \o order
      /\ pendingTasks' = <<>>
      /\ chan' = [c \in ChannelName |-> IF c \in consumed THEN Acknowledge(chan[c]) ELSE chan[c]]

QueueKeepingFanOut(q) ==
  LET consumed == Available(chan, mapped)
  IN  /\ \E order \in SetToSeqs(Targets(consumed) \cap Node) : ready' = q \o pendingTasks \o order
      /\ chan' = [c \in ChannelName |-> IF c \in consumed THEN Acknowledge(chan[c]) ELSE chan[c]]
      /\ UNCHANGED pendingTasks

(***************************************************************************)
(* queuePlannedTasks on the queue q: fan-out tasks first, then the targets *)
(* of the channels it consumes.  Each channel is consumed under its own    *)
(* lock; scanning them in one step only fixes the order in which tasks     *)
(* triggered during the scan are queued.                                   *)
(***************************************************************************)
QueuePlannedTasks(q) ==
  LET consumed == Available(chan, mapped)
  IN  /\ \E order \in SetToSeqs(Targets(consumed) \cap Node) : ready' = q \o pendingTasks \o order
      /\ pendingTasks' = <<>>
      /\ chan' = [c \in ChannelName |-> IF c \in consumed THEN Acknowledge(chan[c]) ELSE chan[c]]

PlanIfIdle ==
  /\ At("plan") /\ pc' = "finalize"
  /\ IF draining \/ pauseRequested \/ ready # <<>>
     THEN UNCHANGED <<chan, pendingTasks, ready>>
     ELSE QueuePlannedTasks(ready)
  /\ UNCHANGED <<declared, mapped, nextNodes, skips, pendingWrites, versionsSeen, resumedFrom,
                 ckpts, duty, status, nextStep, inFlight, waiting, draining, drainMaxStep,
                 pendingIntr, pauseRequested, rerunNodes, executed, sem, worker, envVars>>

Pausing == pauseRequested /\ ~draining

\* Mutant: an empty queue counts as idle.
QueueEmpty == ready = <<>>

\* tryFinalize's test for tasks in flight.
Idle == inFlight = {}

\* Mutant: the loop goes round again without waiting.
KeepSpinning ==
  /\ At("finalize")
  /\ \/ ~Idle
     \/ ~draining /\ ~pauseRequested /\ ready # <<>>
  /\ pc' = "request"
  /\ UNCHANGED <<ctxVars, status, nextStep, ready, inFlight, waiting, draining, drainMaxStep,
                 pendingIntr, pauseRequested, rerunNodes, executed, sem, worker, envVars>>

\* tryFinalize finds nothing to finish: wait.
KeepGoing ==
  /\ At("finalize")
  /\ \/ ~Idle
     \/ ~draining /\ ~pauseRequested /\ ready # <<>>
  /\ pc' = "wait"
  /\ UNCHANGED <<ctxVars, status, nextStep, ready, inFlight, waiting, draining, drainMaxStep,
                 pendingIntr, pauseRequested, rerunNodes, executed, sem, worker, envVars>>

\* Mutant: queued tasks are not carried over.
CancelledOnly == rerunNodes

\* snapshotNextNodes: queued and cancelled tasks, then the rest of the frontier.
\* No task waits behind another once nothing is in flight (WaitsBehindTask).
Queued == ready \o rerunNodes

FinalizeInterrupt ==
  /\ At("finalize") /\ Idle /\ (pendingIntr.set \/ Pausing)
  /\ LET intr == IF pendingIntr.set THEN pendingIntr ELSE Intr(End, FALSE, nextStep - 1)
     IN  \E rest \in SetToSeqs((GetNextNodes(chan) \cap Node) \ Range(Queued)),
            frontier \in SetToSeqs(GetNextNodes(chan)), saved \in Saves :
           SaveInterruptCheckpoint(intr.step, chan, skips,
             InterruptNextNodes(Queued \o rest, frontier, intr.node, intr.skipRerun),
             duty, saved)
  /\ status' = "interrupted"
  /\ UNCHANGED <<declared, mapped, chan, nextNodes, skips, pendingWrites, pendingTasks,
                 versionsSeen, resumedFrom, duty, pc, nextStep, ready, inFlight, waiting,
                 draining, drainMaxStep, pendingIntr, pauseRequested, rerunNodes, executed,
                 sem, worker, envVars>>

FinalizeDrained ==
  /\ At("finalize") /\ Idle /\ ~pendingIntr.set /\ draining
  /\ status' = IF drainMaxStep THEN "maxed" ELSE "failed"
  /\ UNCHANGED <<ctxVars, pc, nextStep, ready, inFlight, waiting, draining, drainMaxStep,
                 pendingIntr, pauseRequested, rerunNodes, executed, sem, worker, envVars>>

\* The graph has run out of work: maybeCreateFinalCheckpoint.
FinalizeDone ==
  /\ At("finalize") /\ Idle /\ ~draining /\ ~pauseRequested /\ ready = <<>>
  /\ status' = "done"
  /\ IF executed
     THEN \E frontier \in SetToSeqs(GetNextNodes(chan)), saved \in Saves :
            SaveLoopCheckpoint(nextStep - 1, frontier, saved)
     ELSE UNCHANGED <<pendingWrites, ckpts>>
  /\ UNCHANGED <<declared, mapped, chan, nextNodes, skips, pendingTasks, versionsSeen,
                 resumedFrom, duty, pc, nextStep, ready, inFlight, waiting, draining,
                 drainMaxStep, pendingIntr, pauseRequested, rerunNodes, executed, sem, worker,
                 envVars>>
-----------------------------------------------------------------------------
(***************************************************************************)
(* waitForEvent: a poll of the done channel, then a select that also wakes *)
(* up when the context is done.  Results may be received in any order.     *)
(***************************************************************************)
Waiting == At("wait") \/ At("select")

\* Mutant: the poll is missing, so a done context may win over a result.
PollBlindly ==
  /\ At("wait") /\ pc' = "select"
  /\ UNCHANGED <<ctxVars, status, nextStep, ready, inFlight, waiting, draining, drainMaxStep,
                 pendingIntr, pauseRequested, rerunNodes, executed, sem, worker, envVars>>

\* The poll finds no result.
Poll ==
  /\ At("wait") /\ Sent = {} /\ pc' = "select"
  /\ UNCHANGED <<ctxVars, status, nextStep, ready, inFlight, waiting, draining, drainMaxStep,
                 pendingIntr, pauseRequested, rerunNodes, executed, sem, worker, envVars>>

\* Mutants: the node stays in flight; the tasks that waited behind it are queued and
\* keep waiting.
ReceivedKeepsInFlight(s) ==
  LET n == worker[s].node
  IN  /\ Waiting /\ worker[s].phase = "sent" /\ pc' = "request"
      /\ worker' = [worker EXCEPT ![s] = NoWorker]
      /\ waiting' = [waiting EXCEPT ![n] = 0]
      /\ UNCHANGED inFlight

ReceivedKeepsWaiting(s) ==
  LET n == worker[s].node
  IN  /\ Waiting /\ worker[s].phase = "sent" /\ pc' = "request"
      /\ worker' = [worker EXCEPT ![s] = NoWorker]
      /\ inFlight' = inFlight \ {n}
      /\ UNCHANGED waiting

Received(s) ==
  LET n == worker[s].node
  IN  /\ Waiting /\ worker[s].phase = "sent" /\ pc' = "request"
      /\ worker' = [worker EXCEPT ![s] = NoWorker]
      /\ inFlight' = inFlight \ {n}
      /\ waiting' = [waiting EXCEPT ![n] = 0]

\* The queue once the tasks waiting behind n are ready.
Unblocked(n) == ready \o [i \in 1..waiting[n] |-> n]

TaskSucceeded(s) ==
  /\ worker[s].err = "none" /\ Received(s)
  /\ executed' = TRUE
  /\ \/ \* maybeStartStaticInterruptAfter
        /\ worker[s].node \in graph.after /\ ~draining
        /\ pendingIntr' = Intr(worker[s].node, TRUE, s) /\ draining' = TRUE
        /\ ready' = Unblocked(worker[s].node) /\ UNCHANGED <<chan, pendingTasks>>
     \/ /\ worker[s].node \notin graph.after /\ ~draining /\ ~pauseRequested
        /\ QueuePlannedTasks(Unblocked(worker[s].node))
        /\ UNCHANGED <<pendingIntr, draining>>
     \/ /\ draining \/ (pauseRequested /\ worker[s].node \notin graph.after)
        /\ ready' = Unblocked(worker[s].node)
        /\ UNCHANGED <<chan, pendingTasks, pendingIntr, draining>>
  /\ UNCHANGED <<declared, mapped, nextNodes, skips, pendingWrites, versionsSeen, resumedFrom,
                 ckpts, duty, status, nextStep, drainMaxStep, pauseRequested, rerunNodes, sem,
                 envVars>>

TaskFailed(s) ==
  /\ worker[s].err # "none" /\ Received(s)
  /\ ready' = Unblocked(worker[s].node)
  /\ duty' = Owe(duty, <<worker[s].node>>)
  /\ draining' = TRUE
  /\ \/ /\ draining
        /\ rerunNodes' = IF pendingIntr.set THEN Append(rerunNodes, worker[s].node) ELSE rerunNodes
        /\ UNCHANGED pendingIntr
     \/ /\ ~draining /\ ctx = "timedout"
        /\ pendingIntr' = Intr(End, FALSE, nextStep - 1)
        /\ rerunNodes' = Append(rerunNodes, worker[s].node)
     \/ /\ ~draining /\ ctx # "timedout" /\ worker[s].err = "interrupt"
        /\ pendingIntr' = Intr(worker[s].node, FALSE, s) /\ UNCHANGED rerunNodes
     \/ /\ ~draining /\ ctx # "timedout" /\ worker[s].err = "error"
        /\ UNCHANGED <<pendingIntr, rerunNodes>>
  /\ UNCHANGED <<declared, mapped, chan, nextNodes, skips, pendingWrites, pendingTasks,
                 versionsSeen, resumedFrom, ckpts, status, nextStep, drainMaxStep,
                 pauseRequested, executed, sem, envVars>>

\* handleContextDone
ContextDone ==
  /\ At("select") /\ ctx # "live" /\ pc' = "request"
  /\ draining' = TRUE
  /\ pendingIntr' = IF ~draining /\ ctx = "timedout"
                    THEN Intr(End, FALSE, nextStep - 1) ELSE pendingIntr
  /\ UNCHANGED <<ctxVars, status, nextStep, ready, inFlight, waiting, drainMaxStep,
                 pauseRequested, rerunNodes, executed, sem, worker, envVars>>
-----------------------------------------------------------------------------
LineageOver ==
  /\ status \in {"done", "maxed"} \/ (status \in Ended /\ runs = MaxRuns)
  /\ UNCHANGED vars

GoroutineStep(s) ==
  \/ NodeReturns(s) \/ NodeFails(s) \/ WriteNext(s) \/ SeeVersions(s)
  \/ FailsBehindResult(s) \/ ReleaseWorker(s) \/ SendDone(s)

LoopStep ==
  \/ Request \/ StartNothing \/ QueueBehind \/ BreakBefore \/ NoSlot \/ NoStep \/ LaunchTask
  \/ PlanIfIdle \/ KeepGoing \/ FinalizeInterrupt \/ FinalizeDrained \/ FinalizeDone
  \/ \E s \in Steps : TaskSucceeded(s) \/ TaskFailed(s)
  \/ Poll \/ ContextDone

Init ==
  /\ InitContext
  /\ status = "idle" /\ pc = "request" /\ nextStep = 0 /\ ready = <<>> /\ inFlight = {}
  /\ waiting = [n \in Node |-> 0] /\ sem = 0 /\ worker = [s \in Steps |-> NoWorker]
  /\ draining = FALSE /\ drainMaxStep = FALSE /\ pendingIntr = NoIntr
  /\ pauseRequested = FALSE /\ rerunNodes = <<>> /\ executed = FALSE
  /\ requested = FALSE /\ ctx = "live" /\ runs = 0 /\ crashes = 0

Next ==
  \/ StartRun \/ ResumeRun \/ Crash \/ RequestInterrupt \/ CancelContext
  \/ LoopStep \/ (\E s \in Steps : GoroutineStep(s)) \/ LineageOver

\* The loop and every goroutine keep running, and node functions return.
Fairness == WF_vars(LoopStep) /\ \A s \in Steps : WF_vars(GoroutineStep(s))

Spec == Init /\ [][Next]_vars /\ Fairness
-----------------------------------------------------------------------------
IntrType == [node : Node \cup {End}, skipRerun : BOOLEAN, step : Nat \cup {-1}, set : BOOLEAN]
WorkerType == [node : Node \cup {End}, phase : Live \cup {"none"}, todo : Seq(ChannelName),
               branch : Seq(ChannelName), err : {"none", "error", "interrupt"}]

\* The type of the loop, of its goroutines and of its environment.
LoopTypeOK ==
  /\ status \in {"idle", "running"} \cup Ended
  /\ pc \in {"request", "start", "plan", "finalize", "wait", "select"}
  /\ nextStep \in Nat /\ ready \in Seq(Node) /\ inFlight \subseteq Node
  /\ waiting \in [Node -> Nat] /\ sem \in Int /\ worker \in [Steps -> WorkerType]
  /\ draining \in BOOLEAN /\ drainMaxStep \in BOOLEAN /\ pauseRequested \in BOOLEAN
  /\ pendingIntr \in IntrType /\ rerunNodes \in Seq(Node) /\ executed \in BOOLEAN
  /\ requested \in BOOLEAN /\ ctx \in {"live", "timedout", "canceled"}
  /\ runs \in Nat /\ crashes \in Nat

\* Every variable has its type, and the semaphore holds between none and all of
\* its slots: releaseWorker never blocks, tryAcquireWorker never overfills it.
TypeOK == ContextTypeOK /\ LoopTypeOK /\ sem \in 0..MaxConcurrency

\* The scheduler runs at most one task per node at a time: two goroutines that
\* have not been received belong to different nodes.
SingleInFlight == \A s, t \in LiveSteps : worker[s].node = worker[t].node => s = t

\* No more than MaxConcurrency goroutines are executing.
ConcurrencyBounded == Cardinality(HoldingSteps) <= MaxConcurrency

\* When Execute returns, no goroutine of the run is left to touch its state.
NoOrphans == status \in Ended => LiveSteps = {}

\* A task is put behind another one only while that one is in flight, so that
\* its result will release it; snapshotNextNodes finds none when it runs.
WaitsBehindTask ==
  status = "running" => \A n \in Node : waiting[n] > 0 => n \in inFlight

(***************************************************************************)
(* The loop's books agree with its goroutines: inFlight holds exactly the  *)
(* nodes of goroutines it has not received, each node once; the semaphore  *)
(* counts those that are executing; step numbers from nextStep on have not *)
(* been used; nothing waits behind a task that is not there; and outside a *)
(* run there are no goroutines.                                            *)
(***************************************************************************)
Accounted ==
  /\ status = "running" =>
       /\ inFlight = {worker[s].node : s \in LiveSteps}
       /\ sem = Cardinality(HoldingSteps)
       /\ \A s \in LiveSteps : s < nextStep
  /\ status # "running" => LiveSteps = {}
  /\ SingleInFlight
  /\ WaitsBehindTask

\* The loop only blocks in waitForEvent when a goroutine will wake it up.
WaitHasWork == Waiting => LiveSteps # {}

\* Every activation is followed by an execution of its target: when a run
\* reports completion, no node that the edges triggered is still waiting, in
\* this run or from the checkpoint it was resumed from.
NothingLost == status = "done" => duty.owed = {}

\* No node is executed more often than it was triggered; a join runs once for
\* each time all of its starts have completed.  A task that did not report success is
\* started once more, also when its result was merged and its targets triggered before
\* it failed (TaskFailed): execution is at least once.
NothingRepeated == duty.excess = {}

\* A breakpoint pauses once: after the pause, resuming takes the run past it.
BreakpointPassed == duty.restopped = {}

\* Every run ends: the loop drains whatever is in flight and returns.
RunEnds == status = "running" ~> status \in Ended
=============================================================================
