# Verification of trpc-agent-go

This directory holds TLA+ modules, TLC configurations and TLAPS proofs about
trpc-agent-go. Its centre is `graph/`: the executor that runs an agent workflow as a
graph of nodes which activate each other through channels, checkpoints the
execution, pauses it for a human, and resumes it in a later run or another process.
Two engines share that machinery, a superstep engine (BSP) and an eager engine (DAG),
and both are modelled over the whole lifetime of a *lineage*: a first run, crashes,
failures and pauses, and the runs that resume it. Around the centre stand models of
one task inside a step, of the streams between two nodes, of the pipeline that takes
an agent's events to the session and to the caller, and of the session's summaries.

## 1. Inventory

| Component | State | Operations | Interacts with | Hard behaviour | What makes it correct |
|---|---|---|---|---|---|
| Channels `graph/internal/channel` | version, availability, senders seen by a barrier | Update, Acknowledge, ConsumeIfAvailable, SetBarrierSeen | written by node goroutines, read by the planner | a write races with a consume; a barrier resets when it fires | no activation is lost or taken twice |
| Graph builder `state_graph.go`, `graph.go` | nodes, channels, trigger map, writers | AddNode, AddEdge, AddJoinEdge, AddConditionalEdges, Compile | read by every run; conditional routes and GoTo *add* to it at run time | part of the graph exists only in the process that took a route | every channel that is written has a subscriber |
| Execution context `graph.go`, `executor.go` | per-run channels, pending writes, pending tasks, versions seen, next nodes, breakpoint skips | channel writes, getNextNodes, createCheckpointAndSave, handleInterrupt, applyPendingWrites | engines, checkpoint saver | a resumed run has three sources of work: next nodes, pending writes, barrier sets | a resume continues with exactly what was outstanding |
| BSP engine `executor.go` | step, tasks of the step | plan, execute, update, checkpoint | workers, watcher, saver | several tasks of a step fail or interrupt; forced cancellation | as above, and every run ends |
| DAG engine `executor_dag.go` | ready, inFlight, waiting, semaphore, done channel, draining state | run loop, startTask, waitForEvent, tryFinalize | goroutine per task | loop and goroutines share channels, a semaphore and a bounded result channel | one task per node, bounded concurrency, no orphan goroutine, the loop never waits for nothing |
| Static and external interrupts | skip marks, request flag, context cause | breakpoints before and after nodes, pause with optional timeout | both engines | a pause meets a breakpoint, an internal interrupt or a late result | a breakpoint pauses once; exactly the unfinished tasks run again |
| One task `executor.go`, `retry.go`, `cache.go` | attempts, elapsed time, state copy | callbacks, attemptCacheLookup, executeTaskWithRetry, merge, barrier | node function, runner | backoff and barriers against the context; a callback turns a failure into a result; the conditional edge and the barrier fail behind the merge | bounded attempts; one merge for a completed task, none for an interrupted one, never two |
| Resume values `interrupt.go`, `resume.go` | resume value, resume map, used values, shared and copied per task | Interrupt, Command.Resume, Command.ResumeMap, syncResumeState | tasks of one superstep, checkpoint | every task writes its copy back | each answer reaches its question |
| Checkpoint savers `graph/checkpoint`, `time_travel.go` | checkpoints per lineage and namespace | PutFull, GetTuple, Fork, EditState | executor | eviction, concurrent lineages | a stored checkpoint is atomic |
| Invocation notices `agent/invocation.go` | notice channels | AddNoticeChannelAndWait, NotifyCompletion, CleanupNotice | runner, flow, graph node barrier | notification before the wait, timeouts, teardown | who is woken finds its events stored |
| Stream hub `agent/stream_hub.go` | named streams: buffered channel, done, close error, one writer, one reader | open, Write, Read, Close, CloseAll | concurrent nodes, their taps, the executor, executors of nested graphs on the same hub | poll, check and select of Read race with Write and Close; whoever closes first decides | bytes in order, the first closing reported, nobody blocked for ever |
| LLM flow `internal/flow`, tools | step, notices awaited, queued messages | Run, runOneStep, handleFunctionCallsAndSendEvent | model, tools, runner, session | reads a session that three goroutines away is being written | the next model call sees all that was emitted |
| Chain, cycle, parallel agents | current sub-agent, merged event channel | Run | sub-agents, runner | early return on an error while the sub-agent goes on | order and completeness of events |
| Runner, team | run registry, event loop, flusher, appender, message queue | Run, runEventLoop, handleFlushRequest, emitRunnerCompletion, EnqueueUserMessage, Cancel | agents, session, caller | full channels, a flush while the loop is blocked, a panic before or behind an append or in the completion, failed append, cancellation | events stored in order and before they are handed out; the completion event; every goroutine ends |
| Session summaries `session/internal/summary` | events, summaries per filter key, job queue | EnqueueJob, CreateSessionSummaryWithCascade, SummarizeSession, Stop | runner, summarizer model | worker and caller summarize one key at once; copies | a summary covers every event up to its timestamp; Stop loses no job |
| Session, memory, artifact stores | stores | append, get, list | runner | external databases | — |
| Models, planners, skills, code executors, knowledge, servers, telemetry, plugins, evaluation, openclaw | — | adapters | external services | external I/O | — |

`PROJECT.json` lists every component with its status, and the hazards of the
modelled ones at the lines where they bite.

## 2. Modules

    Channel            channel records and their operations
    StateGraph         what the graph builder compiles a description into
    ExecutionContext   EXTENDS Channel: state and operations both engines share
    BspExecutor        EXTENDS ExecutionContext: runBspLoop
    DagExecutor        EXTENDS ExecutionContext: dagLoop and its goroutines
    MCGraphs           EXTENDS StateGraph: the small graphs of the runs
    MCBsp, MCDag       the engines on those graphs
    NodeTask, MCNode   one task of a node: callbacks, cache, retries, interrupts
    BytePipe           what a stream promises
    StreamHub          streams between two nodes; implements BytePipe by
                       INSTANCE BytePipe WITH its variables for the pipe's
    SessionSummary     the summary worker, cascade and in-memory store
    Runner             flow, forwarder, runner loop and caller of one run

    ContextProofs      EXTENDS ExecutionContext: lemmas both engines' proofs use
    BspProofs          EXTENDS BspExecutor, ContextProofs
    DagProofs          EXTENDS DagExecutor, ContextProofs
    DagPromiseProofs   EXTENDS DagProofs: what the engine owes to graph and caller
    NodeProofs, StreamProofs, SummaryProofs, RunnerProofs
                       EXTEND the module they are about

### Channel and StateGraph

A channel is `[version, available, seen]`. `Update`, `Acknowledge` and
`SetBarrierSeen` are the methods of the same names; `ConsumeIfAvailable` is a test
of `available` followed by `Acknowledge`. A LastValue channel is a barrier with
nobody to wait for. `Compile` turns a description (nodes, edges, joins, routes,
GoTo targets, fan-outs, breakpoints) into the tables the executor reads. The
distinction between `declared` (a channel exists) and `mapped` (it has an entry in
`triggerToNodes`) is the code's: conditional targets and `trigger:` channels get
theirs only when a route is first taken.

### ExecutionContext

Variables are the fields of `ExecutionContext`, plus the graph tables that grow
at run time and `ckpts`, the checkpoints the saver has stored for the lineage. User
state is abstracted to the two internal keys that steer the engines. What a node
returns is chosen from `Results(n)`: a state update with the static edges and one of
the targets of its conditional edge, a Command with GoTo, or a list of Commands.

Correctness needs something to be measured against. `duty` is a second, independent
book of what the *edges* promise: which starts of a join have completed, which nodes
have been triggered and not started, and triggers minus starts of every node. It is
kept by the act of completing or starting a node and never looks at the channels. A
checkpoint carries the promise as it stood when it was taken, so that a run resumed
from it answers for exactly what was outstanding then. On top of it

* `NothingLost`: a run that reports completion has no triggered node waiting;
* `NothingRepeated`: no node starts more often than it was triggered;
* `BreakpointPassed`: resuming after a breakpoint gets past it.

### BspExecutor

| Action | Code |
|---|---|
| `StartRun`, `ResumeRun` | executeGraph, resumeOrInitWithSaver, buildExecutionContext |
| `Stop`, `UseUpSteps`, `PauseBeforeStep`, `BreakBeforeStep`, `ExecuteStep` | the head of runBspStep: planning, external pause, breakpoints before |
| `StartTask`, `HandleNodeResult`, `WriteNext`, `FinishTask`, `CompleteTask`, `FailTask`, `FailBehindResult` | executeStep's workers, executeSingleTask, executeStepTask |
| `InterruptStep`, `ForceInterruptStep`, `FailStep` | handleExecuteStepError |
| `BreakAfterStep`, `NextStep` | the tail of runBspStep |
| `RequestInterrupt`, `Crash` | the caller and the environment |

A plan is one atomic step with the check that follows it, because the loop is
alone when it plans. A worker takes a task from the queue, handles its result, writes
its channels one at a time, updates the versions seen (not for the result of a before
callback) and writes the channel of its conditional edge; `work` says how far each task
of the superstep is. So the tasks of a superstep interleave, as many at once as
`MaxConcurrency` allows. `CompleteTask` is markCompleted, behind the barrier that ends a
task. Up to there the task can still fail or be cancelled (`FailBehindResult`): its
result stays merged and its successors stay triggered, but nobody marks it, so a forced
pause runs it again. Execution is at least once, and the promise says so: a task that
did not report completion is entitled to one more start. The promise changes
with the code's own steps: a write is a `Send`, a superstep that starts is a `Begin`
of all its tasks, and an interrupt saves the tasks that did not complete as outstanding.

### DagExecutor

`pc` is the position in `dagLoop.run`: request, start, plan, finalize, wait (the
non-blocking poll of `done`) and select. A goroutine goes through running, writing
(one channel write at a time), finishing (versions seen, conditional writes, and
`FailsBehindResult` where the conditional edge or the barrier fails behind them),
released (semaphore token returned) and sent, after which the loop receives it in
any order. The done channel has room for `MaxConcurrency` results, as in newDagLoop.
`planDagTasks` scans channels under each channel's own lock; the model scans in one
step, which only fixes whether an activation that arrives during the scan is seen by
this scan or the next one. A node error in a cancelled context is a node giving up.

### NodeTask

The tasks of one superstep, each on its own goroutine with its own copy of the state.
The actions follow executeSingleTask: `CopyState`, `BeforeCallbacks`, `LookupCache`,
the attempts (`Ask`, `Interrupted`, `Returns`, `AttemptFails`, `DecideRetry`,
`WaitBeforeRetry`), `AfterCallbacks`, `AfterFailure`, `Merge`, `Route` (the conditional
edge) and `Barrier`. `Route` may fail behind the merge, `Barrier` because its event
cannot be emitted, its answer is late or the context is done. `Panics` is a panic of the
user's code outside the node function, which executeStepTask recovers.
`Sync` is syncResumeState, made a part of every action whose code calls it. Of the
state only the three resume keys are kept; a question is its key and the right answer
to it is the same key. `Resume` ends a run and starts the next one with the human's
answer to the question the interrupt reported. Whether an error matches a policy, a
time budget is used up or a cache entry has expired is a choice.

### StreamHub and BytePipe

A producer (an LLM or an Agent node, which close their stream in different ways) and a
consumer that reads to the end. `WriteDelta` with `SendChunk` and `SendRefused` is
WriteString with its two selects, `PollEmpty`, `CheckDone`, `WaitEnds`, `Receive` and
`ReadRest` are the parts of Read. The attempt of an Agent node may end interrupted, and
then its deferred Close ends the stream without an error; a node may panic while it
streams (`Panic`) or with what it does with the answer (`PanicAfterClose`). `CloseAll`
is the deferred call of the graph's own Execute, `NestedCloseAll` that of a graph that
runs below an Agent node or a tool: Invocation.cloneState hands the hub on, so it closes
streams of its parent that are in use, and `nested` remembers that it did. `BytePipe` is
the abstract stream: bytes accepted, bytes taken, one closing, one end told. `StreamHub`
has its variables under the same names; `closed` and `result` are those of the code,
`sent` and `got` are histories, so the refinement mapping is the identity and all of the
buffering is hidden.

### SessionSummary

One session with events of several branches. A job runs on the worker or, when the
queue is full, the worker stopped or the context done, in the caller. Every call of
CreateSessionSummary is cut at its locks: `ReadPrevious`, `ReadDelta`, `WriteSummary`,
`ReadWritten`, `PersistSummary`, and `ReadLatest`, `TouchCopy` for a copied summary. A
summary text is the set of events it was made from. `Stop` holds the lock while the
worker drains.

### Runner

One run as four processes and three bounded channels:

    flow --fch--> forwarder --ach--> runner loop --out--> caller

| Actions | Code |
|---|---|
| `EmitStart`, `Drain`, `EmitUser`, `Answer`, `CallTool`, `ModelFails`, `RunTool`, `ToolFails`, `EmitResult`, `FlowExit` | Flow.Run and handleFunctionCallsAndSendEvent |
| `Woken`, `WaitTimesOut`, `WaitCancelled` | AddNoticeChannelAndWait |
| `FlushDetached`, `TakeFlush`, `Ack`, `FlushReturns`, `AppendChild` | the agent tool's flush and the events of its child |
| `Receive`, `Forward`, `ForwarderEnds`, `NextAgent`, `CloseAgentChannel` | wrapEventChannelWithTelemetry or the chain's executeSubAgents |
| `Store`, `NotifyCompletion`, `EmitProcessed`, `LoopPanics`, `LoopReturns`, `StoreCompletion`, `CompletionPanics`, `EmitCompletion`, `Teardown`, `LoopEnds` | processSingleAgentEvent and runEventLoop with its deferred function |
| `Read`, `Cancel`, `Steer` | the caller |

`Sends` and `Refused` are EmitEvent. Its check of the context and its send are two steps
of the code; `committed` holds the goroutines that had passed the check when the context
ended. A panic hits the loop before the append or behind it (`LoopPanics`), or in the
handling of the completion event (`CompletionPanics`); `dropped` is a history of the
events it hit. `StoreCompletion` may leave the session as it is, because
UpdateUserSession keeps only events with content (session.go:469), which the completion
of an agent that is no graph has not (runner_error_test.go:86). An event that is not
persisted stands for all that shouldPersistEvent refuses; partial responses would behave
like it.

## 3. Runs

| Run | Question | Bounds |
|---|---|---|
| `bsp_crash` | a crash, a failing node, a lost save, a resume from *any* checkpoint of the diamond: nothing is lost, nothing runs twice, every run ends | 2 runs, 1 crash, 1 lost save |
| `bsp_router` | a loop of routes and GoTo with breakpoints before and after nodes and a node that interrupts itself, paused by the caller at any moment, forced or not, with a lost save: exactly what did not report completion runs again, also what failed or was cut behind its result; a breakpoint pauses once, the version test of the planner hides no activation | 5 steps, 3 runs, 1 lost save |
| `dag_diamond` | interleavings of loop and goroutines on a diamond whose first node fans out to one branch twice, with cancellation, a crash and a failing node: nothing lost or repeated, the limit holds, the loop never waits for nothing and leaves no goroutine behind | 5 steps, 2 runs, 2 slots, 1 crash |
| `dag_pause` | draining for internal interrupts, breakpoints and an external pause with or without timeout in a loop of routes, any save lost; `Accounted`, the invariant of the proofs | 4 steps, 2 runs |
| `node_task` | two tasks through callbacks, cache, retries, panics, failures behind the merge, cancellation and resumes: right answers, one merge for what completes, none for what asks, never two, every task ends | 2 attempts, 3 runs |
| `stream` | producer and consumer that fail, retry, stop early, panic, are interrupted or cancelled, on a hub that a nested graph may close: `BytePipe` is implemented, a failed attempt does not end in a clean end of the stream but in the three ways of section 4, the step ends | 2 chunks of buffer, 4 bytes, 2 attempts |
| `summary` | worker and caller summarizing one session: branch summaries cover what they claim, Stop drains, calls return | 2 branches, 2 events, queue of 1 |
| `pipeline` | an LLM agent or a chain of two: woken means stored, the session in order, output stored before it is handed out, the completion event delivered unless its own handling panicked, every goroutine ends | channels of 1, 1 tool call, 1 queued message, 1 fault |

Four more runs expect a violation (section 4).

The bounds. `MaxSteps`, `MaxConcurrency`, `MaxAttempts`, `Capacity`, `QueueSize` and
`Buffer` are options of the code, set to the least value at which they are reached;
`MaxRuns`, `MaxCrashes`, `MaxLostSaves`, `MaxBytes`, `MaxEvents`, `MaxTools`,
`MaxSteers` and `MaxFaults` bound the environment. Two runs are the least in which a
resume happens, three the least in which a checkpoint written by a resumed run is
resumed in turn; `dag_pause` has two, and its safety properties were checked once with
three (2.4 million states), those of `bsp_router` with four (6.3 million). Two slots
with three runnable nodes reach a full semaphore. Four bytes in chunks of up to four and
reads of one or two make a Read split a chunk and a Write find the channel full. One
fault is a failed append, a panic of the loop before or behind an append or in the
completion, a timeout or a cancellation, at any moment; with channels of one event every
sender blocks. Two agents are the least chain. No symmetry is used: nodes have different
roles, and liveness is checked.

Fairness. BSP: weak fairness of the engine as a whole; workers and the loop are
goroutines of one process that Go keeps scheduling, and node functions are assumed
to return (the code gives no bound beyond the caller's context). DAG: weak fairness
of the loop and of each goroutine separately, since a draining loop with a cancelled
context spins and must not be taken to starve its goroutines. `NodeTask`: of each
task; functions and callbacks return, the runner answers barriers, timers fire.
`StreamHub`: of producer, consumer and the executor's CloseAll, but not of the
deadline, so that `StepEnds` does not rest on one. `SessionSummary`: of the worker, the
call and Stop once begun; nobody need append, stop or cancel. `Runner`: of flow,
forwarder and loop, and of the caller in one respect: as long as the run is not
cancelled, a caller that does not read cancels it, as the contract of a returned
channel demands. Faults never have to happen. Everything else in the environment
(starting and resuming runs, crashes, requests) is not fair.

## 4. Where code and documentation disagree

Four runs are expected to violate their property; each reproduces a behaviour of the
code that contradicts a comment, a test or a document of the repository.

| Run | Behaviour |
|---|---|
| `dag_resume_final` | resuming the final checkpoint of a completed lineage: the loop plans tasks after its chance to start them and waits for a result nobody sends |
| `node_answer` | with Command.Resume, a task that copied the state before another consumed the answer writes the answer back; two resumes later graph.Interrupt returns the second answer for the first question |
| `stream_eof` | a chunk and the close arrive between the poll and the check of Read, which reports the end with the chunk still buffered |
| `summary_gap` | a copied full-session summary is stamped with the time of an event it does not contain, which no later delta covers |

`dag_resume_final` does not check deadlock, because the loop blocked for ever is what
its liveness property reports.

More disagreements of the same kind are reproduced by other instances of the modules,
which are not kept as runs; `MCBsp` has their graphs. With the constants of `bsp_crash`
except for those named:

| Instance | Property | Behaviour |
|---|---|---|
| `MCDiamond`, `MaxSteps = 4`, `MaxRuns = 3`, `MaxCrashes = 2` | `NothingRepeated` | pending writes replayed by a resume stay pending and are stored again (executor.go:464); a second crash and resume runs completed nodes again. graph.md:3163: "versions_seen prevents re-execution" |
| `MCDiamondBreakAfter`, `MaxSteps = 5`, `MaxRuns = 2` | `NothingRepeated` | an interrupt checkpoint holds a complete barrier *and* the join in its next nodes (executor.go:965); the join runs twice. graph.md:2717: "wait for all, then run once" |
| `MCForkTwoInterrupts`, `MaxSteps = 5`, `MaxRuns = 3` | `NothingLost` | two nodes interrupt in one superstep (executor.go:2515); only the first is resumed. The same happens to a task cancelled by a forced pause in a superstep in which another interrupts. graph.md:1803: "resume from the exact point where they were interrupted" |
| `MCFanOutFailing`, `MaxSteps = 4`, `MaxRuns = 2` | `NothingLost` | fan-out tasks are in no checkpoint (executor.go:3943); a resumed run completes without them |
| the graph below, `MaxSteps = 8`, `MaxRuns = 1` | `NothingLost` | a start of a join that completes again in the superstep in which the join fires is forgotten when the planner acknowledges the channel (channel.go, Acknowledge): the join's second activation never comes, on a fresh run too |
| `MCRouter`, `MaxSteps = 4`, `MaxRuns = 2`, `MaxCrashes = 1` | `NothingLost` | the trigger of a conditional target exists only in the process that took the route (executor.go:4466); after a restart the replayed write triggers nobody. graph.md:3164: "pending_writes rebuilds channels" |

That graph has edges from the entry to `a` and `b`, a join of `{a, b}` to `j`, an edge
from `j` to `b`, and conditional edges from `a` and `b` back to themselves;
`MaxConcurrency = 1` suffices.

Two of `Runner`, with the constants of `pipeline`:

* The flush acknowledgement covers the events in the runner's channel and not those
  the forwarder still holds, so the child agent of an agent tool may be appended to
  the session before the tool call that started it (11 steps; state it as the order of
  `call` and `child` in `session`). agent_tool.go:208 says "Flush all events emitted
  before this tool call so that the snapshot sees all events", flush.go:25 "when it
  has appended all events that were enqueued before this request was processed".
* A message that EnqueueUserMessage accepts after the flow's last drain is dropped,
  and the sub-agents of a chain do not have the queue at all. runner.md:413 promises an
  error only when "the run has already finished"; acceptance is not delivery.

The passing runs stay clear of all these: one crash of a lineage and no second resume
after it, one interrupting node of a superstep, no breakpoint behind a start of a
join, no fan-out across a resume under BSP, no restart between routes, no time travel
onto a completed lineage under DAG, answers addressed by ResumeMap. `BranchCovered`
assumes events appended in the order of their timestamps (`InOrder`).

Where the code promises less than one would expect, the property names the exception,
so that everything else is still checked:

* `NothingRepeated`: a task that fails or is cancelled behind its result, in its
  conditional edge (executor.go:3107) or at its barrier (3116), does not report
  completion, and a forced pause runs it once more, with its result merged and its
  successors triggered. The promise grants it that start and no other.
* `Accountable`: for the same reason a failed task may have merged its result, once.
* `CleanEOF`: a stream ends cleanly although its producer did not end well if the node
  panics, if an Agent node is interrupted (state_graph.go:2821, the deferred tap.Close
  of 2929), or if the Execute of a nested graph closes the hub it shares with its parent
  (executor.go:328). No failed attempt does so by itself.
* `StepEnds`: a stream that is still open because nobody opens it, at either end, or
  because the LLM node panics before it closes its writer.
* `OutputStored`: the completion event need not be stored (session.go:469), and the
  event behind whose append the loop panics (in EnqueueSummaryJob, runner.go:1248) is
  stored and not handed out; only the completion event comes after it.
* `CompletionDelivered`: a panic in the handling of the completion event itself is
  recovered (runner.go:1153) and the caller's channel closes without it.

## 5. Proofs

`DagProofs` proves, for every graph that satisfies `GraphAssumption` and every
concurrency limit and step budget (`DagAssumption`), about `DagExecutor!Spec`:

| Theorem | Statement |
|---|---|
| `TypeCorrect` | `[]TypeOK`: types, and the semaphore between empty and full |
| `AccountedAlways` | `[]Accounted`: the loop's books agree with its goroutines |
| `SingleInFlightAlways` | at most one task per node is in flight |
| `WaitsBehindTaskAlways` | a task waits only behind a task in flight |
| `NoOrphansAlways` | a run that ended has no goroutine left |
| `ConcurrencyBoundedAlways` | at most `MaxConcurrency` node functions execute |

None of these is inductive alone. That `releaseWorker` never takes from an empty
semaphore needs `sem = Cardinality(HoldingSteps)`; that a launch does not overwrite a
live goroutine needs every live step number below `nextStep`; that a run ends without
goroutines needs `inFlight` to be exactly the nodes of live goroutines; that receiving
one result removes that node from `inFlight` and leaves the others needs
`SingleInFlight`; and that follows only because the loop refuses to start a node in
`inFlight`. `Accounted` is the conjunction of these, and
`DagInv == ContextTypeOK /\ LoopTypeOK /\ Accounted /\ SemOK` is inductive. The proof
has a typing lemma for each operation of the execution context, one for each group of
actions of the loop, and four accounting lemmas (a goroutine goes on, a task is
launched, a result is received, nothing is in flight); `DagInvNext` combines them, one
step per action. `Accounted` is also an invariant of the run `dag_pause`, and its parts
are checked by the other DAG runs.

`DagPromiseProofs` builds on `DagInv`, under the same assumptions:

| Theorem | Statement |
|---|---|
| `BreakpointPassedAlways` | `[]BreakpointPassed`: a breakpoint pauses the lineage once |
| `NothingRepeatedFresh` | `[](resumedFrom = 0 => NothingRepeated)` |
| `OnlyRepeatedJoinsLose` | what a fresh run leaves behind when it completes is the target of a join a start of which completed again while the barrier was full |
| `NothingLostUnrepeated` | `[](resumedFrom = 0 => NothingLost)` if that happens to no join |
| `NothingLostFresh` | `[](resumedFrom = 0 => NothingLost)` for graphs without joins |
| `WaitHasWorkSeeded` | `[](Seeded => WaitHasWork)`: the loop of a run that replays no writes waits for somebody |
| `WaitHasWorkAlways` | `[]WaitHasWork` if `~TimeTravel` |

* `BreakInv`: a breakpoint that stopped the lineage belongs to the *first* of the nodes
  that run next, which is marked in `skips`. Nothing is in flight when the loop passes
  it (`PassingRun`), so the mark cannot be used up by another task of the node, and it
  is saved again with every checkpoint until the node starts.
* `CreditInv`: the activations of a node that the engine holds, in channels, among the
  fanned-out tasks, in the queue and behind the node's own task (`Outstanding`), are
  covered by triggers that have not been used. The loop moves them from one place to
  the next and never copies one, whenever results arrive. `OwedInv` is the converse:
  what was triggered and not started is in one of these places, or behind a join of the
  set `J` of those excepted, and a loop that finishes has nothing left to plan
  (`NothingPlanned`). How joins are excepted is said with `BspProofs` below.
* `WorkInv`: a barrier is available as soon as all its starts have arrived, a
  checkpoint without writes to replay names the targets of the barriers it completes
  (`CalmCheckpoint`), and work that no goroutine will bring is in the queue before the
  loop plans and has started before it waits (`Supplied`). Only the final checkpoint of
  a completed lineage holds writes to replay (`CalmUntilDone`), hence the second form.
  Its hypothesis is necessary: a run that resumes that checkpoint does wait for nobody,
  which is what `dag_resume_final` reports (section 4).

`WorkInv` uses that a join channel is declared and mapped to its target when the graph
is compiled, which is the last conjunct of `GraphAssumption`: `AddJoinEdge` creates the
channel, its trigger and its expected starts in one call (`StateGraph!Compile`).

`StreamProofs` proves, for every channel capacity, number of bytes, number of attempts,
number of workers and set of read sizes (`StreamAssumption`), about `StreamHub!Spec`:

| Theorem | Statement |
|---|---|
| `TypeCorrect` | `[]TypeOK`: types, and the channel never above its capacity |
| `CleanEOFHolds` | `[]CleanEOF`: a clean end is never read from a producer that failed |
| `Refinement` | `ImplementsPipe`: every behaviour is one of `BytePipe` |

The refinement needs to know that what `Read` copies out is what comes next of what
`Write` accepted, which the chunks in the channel decide. `InOrder` says so: the bytes
are numbered, what was read, the reader's buffer and the chunks of the channel hold
consecutive numbers, and these are the numbers sent (`Chunks(c, lo, hi)`: the chunks of
`c` hold the bytes after `lo` up to `hi`). It is kept by a `Write` only because a tap
stops for good at the first delta it could not write, so `ProducerInv` ties `made` and
`delta` to `sent`. `CleanEOF` needs `ConsumerInv`: while somebody may still read, a
stream closed without an error has a producer that ended well or interrupted, or
panicked, or was closed by a nested graph, and that is for ever (`EndedWell`).
`StreamInv == TypeOK /\ InOrder /\ ProducerInv /\ ConsumerInv` is inductive; TLC found
it invariant on the constants of `stream` before it was proved. `SendChunk` is then the
pipe's `Accept`, `ReadRest` and `Receive` its `Take`, the closings its `Shut`,
`CheckDone` and `WaitEnds` its `Tell`; all else is a stutter.

`BspProofs` proves, for every graph that satisfies `GraphAssumption` and all bounds of
`BspAssumption`, about `BspExecutor!Spec`:

| Theorem | Statement |
|---|---|
| `TypeCorrect` | `[]TypeOK`, the checkpoints of the lineage included |
| `VersionGateOpenAlways` | `[]VersionGateOpen`: the version test of a resumed run hides no activation |
| `BreakpointPassedAlways` | `[]BreakpointPassed`: a breakpoint pauses the lineage once |
| `NothingRepeatedFresh` | `[](resumedFrom = 0 => NothingRepeated)` |
| `OnlyRepeatedJoinsLose` | what a fresh run leaves behind when it completes is the target of a join a start of which completed again while the barrier was full |
| `NothingLostUnrepeated` | `[](resumedFrom = 0 => NothingLost)` if that happens to no join |
| `NothingLostFresh` | `[](resumedFrom = 0 => NothingLost)` for graphs without joins |

`VersionGateOpen` compares a channel of the run with the versions seen in the checkpoint
it was resumed from. `VersionInv` says why the channel is always ahead: versions seen
never exceed the version of a channel, in the run and in every checkpoint; a channel
restored from a checkpoint is not available before a write raises its version
(`GrownSinceResume`); a barrier may be, and passes the test without one. What a node has
seen of a channel that the graph had not declared when it was built is `NeverSeen`,
which is the reason why a route of conditional edges, restored with version 0 in a new
process, passes too. `BreakInv` behind `BreakpointPassed` says that a node at whose
breakpoint the lineage stopped is marked in `skips`, in the run as in the checkpoint
from which it can be resumed, until it starts.

The promise is proved for runs that were not resumed from a checkpoint. `CreditInv` says
that every available channel, every start that a barrier has seen in full, every pending
task and the entry of a run that has not begun is covered by a trigger that has not been
used (`Claims`, at most `credit`), so a superstep never starts more than it may.
`OwedInv(J)` is the converse: every node that is owed a start has such a claim or is the
target of a join of `J` (`Waits`). A barrier that is acknowledged forgets who arrived,
those included who arrived a second time while it was full, so without exceptions the
converse is false: that is the graph with a cyclic join of section 4. The theorems name
this cause and no other. `StartRepeats(c)` is a step in which a start of join `c`
completes while the barrier of `c` is full, and `StartsOnce(J)` a step that is none
outside `J`. As long as every step is one of `StartsOnce(J)`, each barrier outside `J`
agrees with the promise (`Agree(J)`): full with nothing arrived since, or filled by
exactly the starts that the promise counts. So `FreshInv(J) == TypeOK /\ CreditInv /\
OwedInv(J)` is kept by these steps, and a fresh run that completes has left behind
targets of `J` only. `J = {}` gives `NothingLostUnrepeated`; in a graph without joins no
step is a `StartRepeats`, which gives `NothingLostFresh`; with every channel in `J` the
condition is void, which gives `NothingRepeatedFresh`. Under DAG the argument is the
same.

`NodeProofs` (`NodeTask!Spec`), `SummaryProofs` (`SessionSummary!Spec`) and
`RunnerProofs` (`Runner!Spec`), for all values of their constants:

| Theorem | Statement |
|---|---|
| `AccountableAlways` | `[]Accountable`: a task that reports completion has merged once, one that asks a human not at all, one that failed at most once |
| `RightAnswerByMap` | `[]RightAnswer` if `AnswerBy \subseteq {"map"}` |
| `StopDrainsAlways` | `[]StopDrains`: no job is left when Stop has returned |
| `BranchCoveredInOrder` | `[]BranchCovered` if `InOrder` |
| `TypesAlways` | `[]TypeOK` of the pipeline |
| `WokenMeansStoredAlways` | `[]WokenMeansStored` |
| `SessionInOrderAlways` | `[]SessionInOrder` |
| `OutputStoredAlways` | `[]OutputStored` |
| `CompletionDeliveredAlways` | `[]CompletionDelivered` |

The two hypotheses are necessary: `node_answer` and an instance of `summary` with events
out of order violate the properties without them. `RightAnswer` rests on `AllFiled`:
every copy of the resume map holds an answer only under its own question, which no
write back of an outdated copy can change, whereas `Command.Resume` has no key.
`BranchCovered` rests on `CoverInv`: whatever a call has read, and at whichever of its
locks it is cut, the events up to the timestamp it holds are in the text it holds, and
a stored summary only moves forward. `RunnerInv` orders the pipeline: events are
numbered as they are emitted, and the numbers grow from the session through the
runner's channel and the forwarder to the agent's channel (`PipelineOrder`); an event
that is not in the session is still upstream or was dropped, and then behind everything
that was forwarded; an emit that was refused leaves the flow mute for good; between
a call and its result the flow is in the tool or its context is done. `HandedOut` says
where a stored event is: handed out, in the loop's hand, or in `dropped`, and then the
loop never takes an event again. `WokenMeansStored` follows because the notice of an
event is sent behind its append, and `CompletionDelivered` because the context is
released only after the loop has ended, which it does with the completion event
delivered or dropped (`LastWord`).

Only model-checked: everything about liveness (`RunEnds`, `TaskEnds`, `StepEnds`,
`CallsReturn`), which TLAPS does not reach; the promise of resumed runs (`NothingLost`,
`NothingRepeated`) under both engines, which holds only within the limits of section 4.

## 6. What is left out

User state, reducers and messages; step and node timeouts, which appear as node errors;
events and traces of the graph engine. A panic of a node function is a node error under
both engines; a panic elsewhere in a DAG goroutine is a crash, and in a BSP worker an
error of the task (executor.go:2596). `input:` channels have no subscribers. Topic and
Ephemeral channels are not created by the builder. Subgraphs run as nodes. The
checkpoint saver is an atomic store that keeps or loses each checkpoint. The delays of a
retry policy and the keys of the cache. Two streams in one step, and nodes that both
read and write: the pairs are independent but for the workers they share. In `Runner`:
partial responses, plugins that drop or rewrite events, stream mode filters and the
suppression of a graph's own completion event, several tool calls at once, transfers,
summaries during a run, graph agents; the wrapper goroutine of each sub-agent of a chain
is part of its channel, so the chain's depth is one forwarder less than in the code. The
child of an agent tool is one event.

Not modelled at all, with the reasons in `PROJECT.json`: remote agents, models,
servers, storage and the other adapters, which are I/O without a protocol of their
own in this repository, and the applications built on top (openclaw, evaluation).
They make up most of the repository's lines.

## 7. Plan

Done: the graph core, one task, streams, summaries, the pipeline (sections 2 to 4) and
the proofs of section 5. Next, in this order:

1. The promise of a run resumed once after a crash, under BSP: `FreshInv` with the next
   nodes of a resumed run among its claims, and the same claims for every checkpoint;
   then the same for the interrupt checkpoints of DAG.
2. `Dataflow`: the promise of the edges as an abstract specification of its own, which
   both engines implement on fresh runs.
3. The parallel and cycle agents' merging of events, then the in-memory checkpoint
   saver with eviction, Fork and edited checkpoints.
