----------------------------- MODULE DagProofs -----------------------------
(***************************************************************************)
(* Proofs about DagExecutor: its type invariant, and the accounting of the *)
(* goroutines of a run by the scheduling loop, for every compiled graph    *)
(* and every value of the bounds.                                          *)
(***************************************************************************)
EXTENDS DagExecutor, ContextProofs

(***************************************************************************)
(* Type correctness                                                        *)
(***************************************************************************)

\* What planDagTasks consumes and queues.
LEMMA QueuePlannedTasksType ==
  ASSUME ContextTypeOK, NEW q \in Seq(Node), QueuePlannedTasks(q)
  PROVE  /\ ready' \in Seq(Node) /\ pendingTasks' \in Seq(Node)
         /\ chan' \in [ChannelName -> ChannelType(Node)]
<1> DEFINE consumed == Available(chan, mapped)
<1>1. PICK order \in SetToSeqs(Targets(consumed) \cap Node) : ready' = q \o pendingTasks \o order
  BY DEF QueuePlannedTasks
<1>2. order \in Seq(Node)
  <2>1. IsFiniteSet(Targets(consumed) \cap Node)
    BY NodesFinite
  <2> QED
    BY <1>1, <2>1, SetToSeqsType
<1>3. ready' \in Seq(Node)
  BY <1>1, <1>2 DEF ContextTypeOK
<1>4. pendingTasks' \in Seq(Node)
  BY DEF QueuePlannedTasks
<1>5. \A c \in ChannelName : Acknowledge(chan[c]) \in ChannelType(Node)
  BY DEF ContextTypeOK, ChannelType, Acknowledge
<1>6. chan' \in [ChannelName -> ChannelType(Node)]
  <2> HIDE DEF consumed
  <2>1. chan' = [c \in ChannelName |-> IF c \in consumed THEN Acknowledge(chan[c]) ELSE chan[c]]
    BY DEF QueuePlannedTasks, consumed
  <2> QED
    BY <1>5, <2>1 DEF ContextTypeOK
<1> QED
  BY <1>3, <1>4, <1>6

\* A step number whose goroutine is gone has a well-typed entry.
LEMMA NoWorkerType == NoWorker \in WorkerType
BY DEF NoWorker, WorkerType, Live, Holding

\* The fields of a goroutine that its steps change.
LEMMA WorkerUpdateType ==
  ASSUME worker \in [Steps -> WorkerType], NEW s \in Steps, NEW ph \in Live \cup {"none"},
         NEW td \in Seq(ChannelName), NEW br \in Seq(ChannelName),
         NEW er \in {"none", "error", "interrupt"}
  PROVE  /\ [worker EXCEPT ![s].phase = ph] \in [Steps -> WorkerType]
         /\ [worker EXCEPT ![s].todo = td] \in [Steps -> WorkerType]
         /\ [worker EXCEPT ![s].phase = ph, ![s].todo = td] \in [Steps -> WorkerType]
         /\ [worker EXCEPT ![s].phase = ph, ![s].todo = td, ![s].branch = br]
              \in [Steps -> WorkerType]
         /\ [worker EXCEPT ![s].phase = ph, ![s].err = er] \in [Steps -> WorkerType]
<1>1. worker[s] \in WorkerType
  OBVIOUS
<1>2. [worker[s] EXCEPT !.phase = ph] \in WorkerType
  BY <1>1 DEF WorkerType
<1>3. [worker[s] EXCEPT !.todo = td] \in WorkerType
  BY <1>1 DEF WorkerType
<1>4. [worker[s] EXCEPT !.phase = ph, !.todo = td] \in WorkerType
  BY <1>1 DEF WorkerType
<1>5. [worker[s] EXCEPT !.phase = ph, !.err = er] \in WorkerType
  BY <1>1 DEF WorkerType
<1>6. [worker EXCEPT ![s].phase = ph, ![s].todo = td] =
        [worker EXCEPT ![s] = [worker[s] EXCEPT !.phase = ph, !.todo = td]]
  OBVIOUS
<1>7. [worker EXCEPT ![s].phase = ph, ![s].err = er] =
        [worker EXCEPT ![s] = [worker[s] EXCEPT !.phase = ph, !.err = er]]
  OBVIOUS
<1>8. [worker[s] EXCEPT !.phase = ph, !.todo = td, !.branch = br] \in WorkerType
  BY <1>1 DEF WorkerType
<1>9. [worker EXCEPT ![s].phase = ph, ![s].todo = td, ![s].branch = br] =
        [worker EXCEPT ![s] = [worker[s] EXCEPT !.phase = ph, !.todo = td, !.branch = br]]
  OBVIOUS
<1> QED
  BY <1>2, <1>3, <1>4, <1>5, <1>6, <1>7, <1>8, <1>9

\* newDagLoop and seed create a well-typed loop.
LEMMA NewLoopType ==
  ASSUME LoopTypeOK, NEW start \in Nat, NEW seeds \in Seq(Node), NewLoop(start, seeds)
  PROVE  LoopTypeOK'
<1>1. worker' \in [Steps -> WorkerType]
  BY NoWorkerType DEF NewLoop
<1>2. pendingIntr' \in IntrType
  BY DEF NewLoop, NoIntr, IntrType
<1>3. rerunNodes' \in Seq(Node) /\ ready' \in Seq(Node)
  BY DEF NewLoop
<1>4. waiting' \in [Node -> Nat] /\ inFlight' \subseteq Node /\ sem' \in Int
  BY DEF NewLoop
<1>5. /\ draining' \in BOOLEAN /\ drainMaxStep' \in BOOLEAN /\ pauseRequested' \in BOOLEAN
      /\ executed' \in BOOLEAN /\ requested' \in BOOLEAN
  BY DEF NewLoop
<1>6. /\ status' = "running" /\ pc' = "request" /\ nextStep' \in Nat /\ ctx' = "live"
      /\ runs' \in Nat /\ crashes' \in Nat
  BY DEF NewLoop, LoopTypeOK
<1> QED
  BY <1>1, <1>2, <1>3, <1>4, <1>5, <1>6 DEF LoopTypeOK

\* A live goroutine belongs to a node.
WorkerNodes == \A s \in Steps : worker[s].phase \in Live => worker[s].node \in Node

\* The state stays well typed when a goroutine takes a step.
LEMMA GoroutineStepType ==
  ASSUME ContextTypeOK, LoopTypeOK, WorkerNodes, NEW s \in Steps, GoroutineStep(s)
  PROVE  ContextTypeOK' /\ LoopTypeOK'
<1> DEFINE n == worker[s].node
<1>w. worker[s] \in WorkerType
  BY DEF LoopTypeOK
<1>1. CASE NodeReturns(s)
  <2>n. n \in Node
    BY <1>1 DEF NodeReturns, WorkerNodes, Live, Holding
  <2>1. PICK r \in Results(n) :
          /\ worker' = [worker EXCEPT ![s].phase = "writing", ![s].todo = r.writes,
                                      ![s].branch = r.branch]
          /\ pendingTasks' = pendingTasks \o r.spawn
          /\ duty' = Owe(duty, r.spawn)
    BY <1>1 DEF NodeReturns
  <2>2. r.writes \in Seq(ChannelName) /\ r.branch \in Seq(ChannelName) /\ r.spawn \in Seq(Node)
    <3>1. <<>> \in Seq(ChannelName) /\ <<>> \in Seq(Node)
      OBVIOUS
    <3>2. graph.writers[n] \in Seq(ChannelName) /\ graph.routes[n] \subseteq Seq(ChannelName)
      BY <2>n, GraphAssumption DEF Node, ChannelName
    <3>3. graph.gotos[n] \subseteq ChannelName /\ graph.fanouts[n] \subseteq Seq(Node)
      BY <2>n, GraphAssumption DEF Node, ChannelName
    <3>4. \A c \in ChannelName : <<c>> \in Seq(ChannelName)
      OBVIOUS
    <3>5. \/ \E b \in graph.routes[n] : r = [writes |-> graph.writers[n], branch |-> b, spawn |-> <<>>]
          \/ \E c \in graph.gotos[n] : r = [writes |-> <<c>>, branch |-> <<>>, spawn |-> <<>>]
          \/ \E t \in graph.fanouts[n] : r = [writes |-> <<>>, branch |-> <<>>, spawn |-> t]
      BY <2>1 DEF Results
    <3> HIDE DEF n
    <3>6. CASE \E b \in graph.routes[n] :
                 r = [writes |-> graph.writers[n], branch |-> b, spawn |-> <<>>]
      BY <3>1, <3>2, <3>6
    <3>7. CASE \E c \in graph.gotos[n] : r = [writes |-> <<c>>, branch |-> <<>>, spawn |-> <<>>]
      <4>1. PICK c \in graph.gotos[n] : r = [writes |-> <<c>>, branch |-> <<>>, spawn |-> <<>>]
        BY <3>7
      <4>2. <<c>> \in Seq(ChannelName)
        BY <3>3, <3>4
      <4> QED
        BY <3>1, <4>1, <4>2
    <3>8. CASE \E t \in graph.fanouts[n] : r = [writes |-> <<>>, branch |-> <<>>, spawn |-> t]
      BY <3>1, <3>3, <3>8
    <3> QED
      BY <3>5, <3>6, <3>7, <3>8
  <2>3. worker' \in [Steps -> WorkerType]
    <3>1. "writing" \in Live \cup {"none"}
      BY DEF Live, Holding
    <3> QED
      BY <2>1, <2>2, <3>1, WorkerUpdateType DEF LoopTypeOK
  <2>4. pendingTasks' \in Seq(Node)
    BY <2>1, <2>2 DEF ContextTypeOK
  <2>5. duty' \in DutyType
    <3>1. r.spawn \in Seq(Node \cup {End})
      BY <2>2
    <3> QED
      BY <2>1, <3>1, OweType DEF ContextTypeOK
  <2>6. ContextTypeOK'
    BY <1>1, <2>4, <2>5 DEF NodeReturns, ContextTypeOK
  <2> QED
    BY <1>1, <2>3, <2>6 DEF NodeReturns, LoopTypeOK, loopVars, envVars
<1>2. CASE NodeFails(s)
  <2>1. worker' \in [Steps -> WorkerType]
    <3>1. PICK kind \in {"error", "interrupt"} :
            worker' = [worker EXCEPT ![s].phase = "finishing", ![s].err = kind]
      BY <1>2 DEF NodeFails
    <3>2. worker[s].todo \in Seq(ChannelName)
      BY <1>w DEF WorkerType
    <3>3. "finishing" \in Live \cup {"none"} /\ kind \in {"none", "error", "interrupt"}
      BY DEF Live, Holding
    <3> QED
      BY <3>1, <3>2, <3>3, WorkerUpdateType DEF LoopTypeOK
  <2> QED
    BY <1>2, <2>1, ContextUnchanged DEF NodeFails, LoopTypeOK, loopVars, envVars
<1>3. CASE WriteNext(s)
  <2> DEFINE c == Head(worker[s].todo)
  <2>1. n \in Node /\ c \in ChannelName
    BY <1>3, <1>w DEF WriteNext, WorkerNodes, WorkerType, Live, Holding
  <2>2. WriteChannel(n, c) /\ duty' = Send(duty, c, n)
    BY <1>3 DEF WriteNext
  <2>3. /\ declared' \subseteq ChannelName /\ mapped' \subseteq ChannelName
        /\ chan' \in [ChannelName -> ChannelType(Node)]
        /\ pendingWrites' \subseteq PendingWriteType
    <3> HIDE DEF c, n
    <3> QED
      BY <2>1, <2>2, WriteChannelType
  <2>4. duty' \in DutyType
    <3> HIDE DEF c, n
    <3> QED
      BY <2>1, <2>2, SendType DEF ContextTypeOK
  <2>5. ContextTypeOK'
    BY <1>3, <2>3, <2>4 DEF WriteNext, ContextTypeOK
  <2>6. worker' \in [Steps -> WorkerType]
    <3>1. Tail(worker[s].todo) \in Seq(ChannelName)
      BY <1>3, <1>w DEF WriteNext, WorkerType
    <3>2. worker' = [worker EXCEPT ![s].todo = Tail(worker[s].todo)]
      BY <1>3 DEF WriteNext
    <3> QED
      BY <3>1, <3>2, WorkerUpdateType DEF LoopTypeOK, Live
  <2> QED
    BY <1>3, <2>5, <2>6 DEF WriteNext, LoopTypeOK, loopVars, envVars
<1>4. CASE SeeVersions(s)
  <2>1. n \in Node
    BY <1>4 DEF SeeVersions, WorkerNodes, Live, Holding
  <2>2. versionsSeen' \in [Node -> [ChannelName -> Int]]
    <3> HIDE DEF n
    <3>1. \/ UNCHANGED versionsSeen
          \/ versionsSeen' = [versionsSeen EXCEPT ![n] =
               [c \in ChannelName |-> IF c \in graph.triggers[n] \cap declared
                                      THEN chan[c].version ELSE versionsSeen[n][c]]]
      BY <1>4, <2>1 DEF SeeVersions, UpdateVersionsSeen, ContextTypeOK, n
    <3>2. \A c \in ChannelName : chan[c].version \in Int /\ versionsSeen[n][c] \in Int
      BY <2>1 DEF ContextTypeOK, ChannelType
    <3> QED
      BY <3>1, <3>2 DEF ContextTypeOK
  <2>3. ContextTypeOK'
    BY <1>4, <2>2 DEF SeeVersions, ContextTypeOK
  <2>4. worker' \in [Steps -> WorkerType]
    <3>1. worker' = [worker EXCEPT ![s].phase = "finishing", ![s].todo = worker[s].branch]
      BY <1>4 DEF SeeVersions
    <3>2. "finishing" \in Live \cup {"none"} /\ worker[s].branch \in Seq(ChannelName)
      BY <1>w DEF Live, Holding, WorkerType
    <3> QED
      BY <3>1, <3>2, WorkerUpdateType DEF LoopTypeOK
  <2> QED
    BY <1>4, <2>3, <2>4 DEF SeeVersions, LoopTypeOK, loopVars, envVars
<1>5. CASE ReleaseWorker(s)
  <2>1. worker' \in [Steps -> WorkerType]
    BY <1>5 DEF ReleaseWorker, LoopTypeOK, WorkerType, Live, Holding
  <2> QED
    BY <1>5, <2>1, ContextUnchanged DEF ReleaseWorker, LoopTypeOK, loopVars, envVars
<1>6. CASE SendDone(s)
  <2>1. worker' \in [Steps -> WorkerType]
    BY <1>6 DEF SendDone, LoopTypeOK, WorkerType, Live, Holding
  <2> QED
    BY <1>6, <2>1, ContextUnchanged DEF SendDone, LoopTypeOK, loopVars, envVars
<1>7. CASE FailsBehindResult(s)
  <2>1. worker' \in [Steps -> WorkerType]
    <3>0. <<>> \in Seq(ChannelName)
      OBVIOUS
    <3>1. [worker[s] EXCEPT !.err = "error", !.todo = <<>>] \in WorkerType
      BY <1>w, <3>0 DEF WorkerType
    <3>2. worker' = [worker EXCEPT ![s] = [worker[s] EXCEPT !.err = "error", !.todo = <<>>]]
      BY <1>7, <1>w DEF FailsBehindResult, LoopTypeOK
    <3> QED
      BY <3>1, <3>2 DEF LoopTypeOK
  <2> QED
    BY <1>7, <2>1, ContextUnchanged DEF FailsBehindResult, LoopTypeOK, loopVars, envVars
<1> QED
  BY <1>1, <1>2, <1>3, <1>4, <1>5, <1>6, <1>7 DEF GoroutineStep

\* The state stays well typed when the loop takes a step that starts no task and
\* receives no result.
LEMMA LoopControlType ==
  ASSUME ContextTypeOK, LoopTypeOK,
         \/ Request \/ StartNothing \/ KeepGoing \/ FinalizeDrained \/ Poll \/ ContextDone
  PROVE  ContextTypeOK' /\ LoopTypeOK'
<1> USE DEF LoopTypeOK, envVars
<1>1. CASE Request
  BY <1>1, ContextUnchanged DEF Request
<1>2. CASE StartNothing
  BY <1>2, ContextUnchanged DEF StartNothing
<1>3. CASE KeepGoing
  BY <1>3, ContextUnchanged DEF KeepGoing
<1>4. CASE FinalizeDrained
  BY <1>4, ContextUnchanged DEF FinalizeDrained, Ended
<1>5. CASE Poll
  BY <1>5, ContextUnchanged DEF Poll
<1>6. CASE ContextDone
  <2>1. Intr(End, FALSE, nextStep - 1) \in IntrType
    BY DEF Intr, IntrType
  <2>2. pendingIntr' \in IntrType
    BY <1>6, <2>1 DEF ContextDone
  <2> QED
    BY <1>6, <2>2, ContextUnchanged DEF ContextDone
<1> QED
  BY <1>1, <1>2, <1>3, <1>4, <1>5, <1>6

\* The state stays well typed when the loop looks at the head of its queue.
LEMMA StartReadyTasksType ==
  ASSUME ContextTypeOK, LoopTypeOK, QueueBehind \/ BreakBefore \/ NoSlot \/ NoStep \/ LaunchTask
  PROVE  ContextTypeOK' /\ LoopTypeOK'
<1> USE DEF LoopTypeOK, envVars
<1> DEFINE n == Head(ready)
<1>0. Starting
  BY DEF QueueBehind, BreakBefore, NoSlot, NoStep, LaunchTask, PastBreakpoint
<1>n. n \in Node /\ Tail(ready) \in Seq(Node)
  BY <1>0 DEF Starting
<1>d. /\ duty \in DutyType /\ Begin(duty, <<n>>) \in DutyType
      /\ StopBefore(duty, {n}) \in DutyType
  <2> HIDE DEF n
  <2>1. <<n>> \in Seq(Node) /\ {n} \in SUBSET Node
    BY <1>n
  <2> QED
    BY <2>1, StartStopType DEF ContextTypeOK
<1>1. CASE QueueBehind
  <2>1. waiting' \in [Node -> Nat]
    BY <1>1, <1>n DEF QueueBehind
  <2> QED
    BY <1>1, <1>n, <2>1, ContextUnchanged DEF QueueBehind
<1>2. CASE BreakBefore
  <2>1. pendingIntr' \in IntrType
    BY <1>2, <1>n DEF BreakBefore, Intr, IntrType
  <2>2. ContextTypeOK'
    BY <1>2, <1>n, <1>d DEF BreakBefore, ContextTypeOK
  <2> QED
    BY <1>2, <2>1, <2>2 DEF BreakBefore
<1>3. CASE NoSlot
  <2>1. ContextTypeOK'
    BY <1>3 DEF NoSlot, PastBreakpoint, ContextTypeOK
  <2> QED
    BY <1>3, <2>1 DEF NoSlot
<1>4. CASE NoStep
  <2>1. ContextTypeOK'
    BY <1>4 DEF NoStep, PastBreakpoint, ContextTypeOK
  <2> QED
    BY <1>4, <2>1 DEF NoStep
<1>5. CASE LaunchTask
  <2>1. ContextTypeOK'
    BY <1>5, <1>d DEF LaunchTask, PastBreakpoint, ContextTypeOK
  <2> DEFINE w == [node |-> n, phase |-> "running", todo |-> <<>>, branch |-> <<>>,
                    err |-> "none"]
  <2>2. w \in WorkerType
    <3>1. <<>> \in Seq(ChannelName)
      OBVIOUS
    <3> QED
      BY <1>n, <3>1 DEF WorkerType, Live, Holding
  <2>3. worker' \in [Steps -> WorkerType]
    <3>1. worker' = [worker EXCEPT ![nextStep] = w]
      BY <1>5 DEF LaunchTask
    <3> HIDE DEF w
    <3> QED
      BY <2>2, <3>1
  <2>4. nextStep' \in Nat /\ sem' \in Int /\ inFlight' \subseteq Node /\ ready' \in Seq(Node)
    BY <1>5, <1>n DEF LaunchTask
  <2> QED
    BY <1>5, <2>1, <2>3, <2>4 DEF LaunchTask
<1> QED
  BY <1>1, <1>2, <1>3, <1>4, <1>5

\* The state stays well typed when the loop plans or ends the run.
LEMMA PlanFinalizeType ==
  ASSUME ContextTypeOK, LoopTypeOK, PlanIfIdle \/ FinalizeInterrupt \/ FinalizeDone
  PROVE  ContextTypeOK' /\ LoopTypeOK'
<1> USE DEF LoopTypeOK, envVars
<1>1. CASE PlanIfIdle
  <2>1. /\ ready' \in Seq(Node) /\ pendingTasks' \in Seq(Node)
        /\ chan' \in [ChannelName -> ChannelType(Node)]
    <3>1. CASE draining \/ pauseRequested \/ ready # <<>>
      BY <1>1, <3>1 DEF PlanIfIdle, ContextTypeOK
    <3>2. CASE ~(draining \/ pauseRequested \/ ready # <<>>)
      BY <1>1, <3>2, QueuePlannedTasksType DEF PlanIfIdle
    <3> QED
      BY <3>1, <3>2
  <2>2. ContextTypeOK'
    BY <1>1, <2>1 DEF PlanIfIdle, ContextTypeOK
  <2> QED
    BY <1>1, <2>1, <2>2 DEF PlanIfIdle
<1>2. CASE FinalizeInterrupt
  <2> DEFINE intr == IF pendingIntr.set THEN pendingIntr ELSE Intr(End, FALSE, nextStep - 1)
  <2>1. intr.step \in Nat \cup {-1}
    BY DEF Intr, IntrType
  <2> HIDE DEF intr
  <2>2. PICK rest \in SetToSeqs((GetNextNodes(chan) \cap Node) \ Range(Queued)),
            frontier \in SetToSeqs(GetNextNodes(chan)), saved \in Saves :
          SaveInterruptCheckpoint(intr.step, chan, skips,
            InterruptNextNodes(Queued \o rest, frontier, intr.node, intr.skipRerun), duty, saved)
    BY <1>2 DEF FinalizeInterrupt, intr
  <2>3. rest \in Seq(Node \cup {End}) /\ frontier \in Seq(Node \cup {End})
    <3>1. rest \in Seq(Node \cup {End})
      BY FrontierType, (GetNextNodes(chan) \cap Node) \ Range(Queued) \subseteq GetNextNodes(chan)
    <3>2. frontier \in Seq(Node \cup {End})
      BY FrontierType
    <3> QED
      BY <3>1, <3>2
  <2>4. Queued \o rest \in Seq(Node \cup {End})
    <3>1. ready \in Seq(Node \cup {End}) /\ rerunNodes \in Seq(Node \cup {End})
      OBVIOUS
    <3> QED
      BY <2>3, <3>1 DEF Queued
  <2>5. InterruptNextNodes(Queued \o rest, frontier, intr.node, intr.skipRerun)
          \in Seq(Node \cup {End})
    BY <2>3, <2>4, InterruptNextNodesType
  <2>6. saved \in BOOLEAN
    BY DEF Saves
  <2>7. ckpts' \in Seq(CheckpointType) /\ Len(ckpts') >= Len(ckpts)
    BY <2>1, <2>2, <2>5, <2>6, SaveInterruptCheckpointType DEF ContextTypeOK
  <2>8. ContextTypeOK'
    BY <1>2, <2>7 DEF FinalizeInterrupt, ContextTypeOK
  <2> QED
    BY <1>2, <2>8 DEF FinalizeInterrupt, Ended
<1>3. CASE FinalizeDone
  <2>1. /\ ckpts' \in Seq(CheckpointType) /\ Len(ckpts') >= Len(ckpts)
        /\ pendingWrites' \subseteq PendingWriteType
    <3>1. CASE executed
      <4>1. PICK frontier \in SetToSeqs(GetNextNodes(chan)), saved \in Saves :
              SaveLoopCheckpoint(nextStep - 1, frontier, saved)
        BY <1>3, <3>1 DEF FinalizeDone
      <4>2. frontier \in Seq(Node \cup {End})
        BY FrontierType
      <4>3. saved \in BOOLEAN
        BY DEF Saves
      <4>4. nextStep - 1 \in Nat \cup {-1}
        OBVIOUS
      <4> QED
        BY <4>1, <4>2, <4>3, <4>4, SaveLoopCheckpointType
    <3>2. CASE ~executed
      BY <1>3, <3>2 DEF FinalizeDone, ContextTypeOK
    <3> QED
      BY <3>1, <3>2
  <2>2. ContextTypeOK'
    BY <1>3, <2>1 DEF FinalizeDone, ContextTypeOK
  <2> QED
    BY <1>3, <2>2 DEF FinalizeDone, Ended
<1> QED
  BY <1>1, <1>2, <1>3

\* The queue with the tasks that waited behind node n is a queue of nodes.
LEMMA UnblockedType ==
  ASSUME LoopTypeOK, NEW n \in Node
  PROVE  Unblocked(n) \in Seq(Node)
<1>1. waiting[n] \in Nat /\ ready \in Seq(Node)
  BY DEF LoopTypeOK
<1>2. [i \in 1..waiting[n] |-> n] \in [1..waiting[n] -> Node]
  OBVIOUS
<1>3. [i \in 1..waiting[n] |-> n] \in Seq(Node)
  BY <1>1, <1>2, FunctionIsSeq
<1> QED
  BY <1>1, <1>3 DEF Unblocked

\* The state stays well typed when the loop receives a result.
LEMMA HandleTaskResultType ==
  ASSUME ContextTypeOK, LoopTypeOK, WorkerNodes, NEW s \in Steps, TaskSucceeded(s) \/ TaskFailed(s)
  PROVE  ContextTypeOK' /\ LoopTypeOK'
<1> USE DEF LoopTypeOK, envVars
<1> DEFINE n == worker[s].node
<1>r. Received(s)
  BY DEF TaskSucceeded, TaskFailed
<1>n. n \in Node
  BY <1>r DEF Received, WorkerNodes, Live
<1>q. Unblocked(n) \in Seq(Node)
  BY <1>n, UnblockedType
<1>w. /\ worker' \in [Steps -> WorkerType] /\ inFlight' \subseteq Node
      /\ waiting' \in [Node -> Nat] /\ pc' = "request"
  <2>1. worker' \in [Steps -> WorkerType]
    BY <1>r, NoWorkerType DEF Received
  <2>2. inFlight' \subseteq Node /\ waiting' \in [Node -> Nat] /\ pc' = "request"
    BY <1>r DEF Received
  <2> QED
    BY <2>1, <2>2
<1>i. s \in Nat \cup {-1}
  BY DagAssumption DEF Steps
<1>1. CASE TaskSucceeded(s)
  <2>1. /\ ready' \in Seq(Node) /\ pendingTasks' \in Seq(Node)
        /\ chan' \in [ChannelName -> ChannelType(Node)]
        /\ pendingIntr' \in IntrType /\ draining' \in BOOLEAN
    <3>1. CASE /\ pendingIntr' = Intr(n, TRUE, s) /\ draining' = TRUE
               /\ ready' = Unblocked(n) /\ UNCHANGED <<chan, pendingTasks>>
      <4>1. Intr(n, TRUE, s) \in IntrType
        BY <1>n, <1>i DEF Intr, IntrType
      <4> QED
        BY <1>q, <3>1, <4>1 DEF ContextTypeOK
    <3>2. CASE QueuePlannedTasks(Unblocked(n)) /\ UNCHANGED <<pendingIntr, draining>>
      BY <1>q, <3>2, QueuePlannedTasksType
    <3>3. CASE ready' = Unblocked(n) /\ UNCHANGED <<chan, pendingTasks, pendingIntr, draining>>
      BY <1>q, <3>3 DEF ContextTypeOK
    <3> QED
      BY <1>1, <3>1, <3>2, <3>3 DEF TaskSucceeded
  <2>2. ContextTypeOK'
    BY <1>1, <2>1 DEF TaskSucceeded, ContextTypeOK
  <2> QED
    BY <1>1, <1>w, <2>1, <2>2 DEF TaskSucceeded
<1>2. CASE TaskFailed(s)
  <2>0. <<worker[s].node>> \in Seq(Node \cup {End})
    BY <1>n
  <2>1. duty' \in DutyType
    BY <1>2, <2>0, OweType DEF TaskFailed, ContextTypeOK
  <2>2. ContextTypeOK'
    BY <1>2, <2>1 DEF TaskFailed, ContextTypeOK
  <2>3. Append(rerunNodes, n) \in Seq(Node)
    BY <1>n
  <2>4. Intr(End, FALSE, nextStep - 1) \in IntrType /\ Intr(n, FALSE, s) \in IntrType
    <3>1. nextStep - 1 \in Nat \cup {-1}
      OBVIOUS
    <3> QED
      BY <1>n, <1>i, <3>1 DEF Intr, IntrType
  <2>5. rerunNodes' \in Seq(Node) /\ pendingIntr' \in IntrType
    BY <1>2, <2>3, <2>4 DEF TaskFailed
  <2> QED
    BY <1>2, <1>q, <1>w, <2>2, <2>5 DEF TaskFailed
<1> QED
  BY <1>1, <1>2

\* The state stays well typed when a run starts, crashes, or is asked to stop.
LEMMA EnvironmentType ==
  ASSUME ContextTypeOK, LoopTypeOK,
         StartRun \/ ResumeRun \/ Crash \/ RequestInterrupt \/ CancelContext
  PROVE  ContextTypeOK' /\ LoopTypeOK'
<1>1. CASE StartRun
  <2>1. PICK saved \in Saves : FreshContext(saved)
    BY <1>1 DEF StartRun
  <2>2. saved \in BOOLEAN
    BY DEF Saves
  <2>3. <<graph.entry>> \in Seq(Node)
    <3>1. graph.entry \in Node
      BY GraphAssumption DEF Node
    <3> QED
      BY <3>1
  <2> QED
    BY <1>1, <2>1, <2>2, <2>3, FreshContextType, NewLoopType DEF StartRun
<1>2. CASE ResumeRun
  <2>0. PICK k \in DOMAIN ckpts : \E seeds \in Executable(SeedNodes(ckpts[k])) :
          ResumeContext(k, <<>>) /\ NewLoop(ckpts[k].step + 1, seeds)
    BY <1>2 DEF ResumeRun
  <2>1. PICK seeds \in Executable(SeedNodes(ckpts[k])) :
          ResumeContext(k, <<>>) /\ NewLoop(ckpts[k].step + 1, seeds)
    BY <2>0
  <2>2. ckpts[k] \in CheckpointType
    BY DEF ContextTypeOK
  <2>3. SeedNodes(ckpts[k]) \in Seq(Node \cup {End})
    BY <2>2 DEF SeedNodes, CheckpointType
  <2>4. seeds \in Seq(Node)
    BY <2>3, ExecutableType
  <2>5. ckpts[k].step + 1 \in Nat
    BY <2>2 DEF CheckpointType
  <2>6. <<>> \in Seq(Node \cup {End})
    OBVIOUS
  <2> QED
    BY <2>1, <2>4, <2>5, <2>6, ResumeContextType, NewLoopType
<1>3. CASE Crash
  <2>1. worker' \in [Steps -> WorkerType]
    BY <1>3, NoWorkerType DEF Crash
  <2>2. ContextTypeOK'
    BY <1>3, GraphAssumption DEF Crash, ContextTypeOK, ChannelName
  <2> QED
    BY <1>3, <2>1, <2>2 DEF Crash, LoopTypeOK, Ended
<1>4. CASE RequestInterrupt
  BY <1>4, ContextUnchanged DEF RequestInterrupt, LoopTypeOK, loopVars
<1>5. CASE CancelContext
  BY <1>5, ContextUnchanged DEF CancelContext, LoopTypeOK, loopVars
<1> QED
  BY <1>1, <1>2, <1>3, <1>4, <1>5
-----------------------------------------------------------------------------
(***************************************************************************)
(* The loop's account of its goroutines                                    *)
(***************************************************************************)

\* The semaphore is in range.
SemOK == sem \in 0..MaxConcurrency

\* Goroutines on the loop's books belong to nodes, because inFlight holds nodes.
LEMMA LiveWorkersHaveNodes ==
  ASSUME LoopTypeOK, Accounted
  PROVE  WorkerNodes
BY DEF LoopTypeOK, Accounted, WorkerNodes, LiveSteps

\* The goroutines that hold a slot are finitely many.
LEMMA HoldingFinite == IsFiniteSet(HoldingSteps)
<1>1. IsFiniteSet(Steps)
  BY DagAssumption, FS_Interval DEF Steps
<1> QED
  BY <1>1, FS_Subset, HoldingSteps \subseteq Steps DEF HoldingSteps

\* Steps that leave the goroutines and the loop's books alone.
booksVars == <<status, nextStep, inFlight, waiting, sem, worker>>

\* A step that leaves the loop's books alone leaves them balanced.
LEMMA BooksUnchanged ==
  Accounted /\ SemOK /\ UNCHANGED booksVars => Accounted' /\ SemOK'
BY DEF booksVars, Accounted, SemOK, SingleInFlight, WaitsBehindTask, LiveSteps, HoldingSteps

\* A goroutine that goes on executing keeps its node and its slot.
LEMMA GoroutineStepAccounted ==
  ASSUME LoopTypeOK, Accounted, SemOK, NEW s \in Steps, GoroutineStep(s)
  PROVE  Accounted' /\ SemOK'
<1>0. /\ status = "running" /\ UNCHANGED <<status, nextStep, inFlight, waiting>>
      /\ worker \in [Steps -> WorkerType]
  BY DEF GoroutineStep, NodeReturns, NodeFails, WriteNext, SeeVersions, FailsBehindResult,
         ReleaseWorker, SendDone, loopVars, LoopTypeOK
<1>1. /\ \A t \in Steps : t # s => worker'[t] = worker[t]
      /\ worker'[s].node = worker[s].node
      /\ worker[s].phase \in Live /\ worker'[s].phase \in Live
  <2> USE <1>0 DEF WorkerType, Live, Holding
  <2>1. CASE NodeReturns(s)
    BY <2>1 DEF NodeReturns
  <2>2. CASE NodeFails(s)
    BY <2>2 DEF NodeFails
  <2>3. CASE WriteNext(s)
    BY <2>3 DEF WriteNext
  <2>4. CASE SeeVersions(s)
    BY <2>4 DEF SeeVersions
  <2>5. CASE ReleaseWorker(s)
    BY <2>5 DEF ReleaseWorker
  <2>6. CASE SendDone(s)
    BY <2>6 DEF SendDone
  <2>7. CASE FailsBehindResult(s)
    BY <2>7 DEF FailsBehindResult
  <2> QED
    BY <2>1, <2>2, <2>3, <2>4, <2>5, <2>6, <2>7 DEF GoroutineStep
<1>2. LiveSteps' = LiveSteps /\ \A t \in Steps : worker'[t].node = worker[t].node
  BY <1>1 DEF LiveSteps
<1>3. sem' = Cardinality(HoldingSteps') /\ SemOK'
  <2>1. CASE ReleaseWorker(s)
    <3>1. HoldingSteps' = HoldingSteps \ {s} /\ s \in HoldingSteps
      BY <1>0, <2>1 DEF HoldingSteps, ReleaseWorker, WorkerType, Holding
    <3>2. Cardinality(HoldingSteps') = Cardinality(HoldingSteps) - 1
      BY <3>1, HoldingFinite, FS_RemoveElement
    <3>3. Cardinality(HoldingSteps') \in Nat
      BY <3>1, HoldingFinite, FS_RemoveElement, FS_CardinalityType
    <3> QED
      BY <1>0, <2>1, <3>2, <3>3, DagAssumption DEF Accounted, SemOK, ReleaseWorker
  <2>2. CASE ~ReleaseWorker(s)
    <3>1. UNCHANGED sem /\ (worker[s].phase \in Holding <=> worker'[s].phase \in Holding)
      BY <1>0, <2>2 DEF GoroutineStep, NodeReturns, NodeFails, WriteNext, SeeVersions,
                        FailsBehindResult, SendDone, WorkerType, Holding
    <3>2. HoldingSteps' = HoldingSteps
      BY <1>1, <3>1 DEF HoldingSteps
    <3> QED
      BY <1>0, <3>1, <3>2 DEF Accounted, SemOK
  <2> QED
    BY <2>1, <2>2
<1> QED
  BY <1>0, <1>2, <1>3 DEF Accounted, SingleInFlight, WaitsBehindTask, LiveSteps

\* A task is launched for a node that is not in flight, under a step number that
\* has not been used and a slot that is free.
LEMMA LaunchTaskAccounted ==
  ASSUME LoopTypeOK, Accounted, SemOK, LaunchTask
  PROVE  Accounted' /\ SemOK'
<1> DEFINE n == Head(ready)
<1>0. /\ status = "running" /\ n \notin inFlight /\ sem < MaxConcurrency
      /\ nextStep \in Nat /\ nextStep < MaxSteps
  BY DEF LaunchTask, PastBreakpoint, Starting, At, SlotFree, LoopTypeOK
<1>1. nextStep \in Steps /\ nextStep \notin LiveSteps /\ nextStep \notin HoldingSteps
  BY <1>0, DagAssumption DEF Steps, Accounted, LiveSteps, HoldingSteps, Live
<1>2. /\ worker' = [worker EXCEPT ![nextStep] = [node |-> n, phase |-> "running",
                                                 todo |-> <<>>, branch |-> <<>>,
                    err |-> "none"]]
      /\ UNCHANGED <<status, waiting>>
      /\ sem' = sem + 1 /\ nextStep' = nextStep + 1 /\ inFlight' = inFlight \cup {n}
  BY DEF LaunchTask
<1>3. /\ worker'[nextStep].node = n /\ worker'[nextStep].phase = "running"
      /\ \A t \in Steps : t # nextStep => worker'[t] = worker[t]
  BY <1>1, <1>2 DEF LoopTypeOK
<1> HIDE DEF n
<1>4. LiveSteps' = LiveSteps \cup {nextStep} /\ HoldingSteps' = HoldingSteps \cup {nextStep}
  BY <1>1, <1>3 DEF LiveSteps, HoldingSteps, Live, Holding
<1>5. sem' = Cardinality(HoldingSteps') /\ SemOK'
  <2>1. Cardinality(HoldingSteps') = Cardinality(HoldingSteps) + 1
    BY <1>1, <1>4, HoldingFinite, FS_AddElement
  <2> QED
    BY <1>0, <1>2, <2>1, DagAssumption DEF Accounted, SemOK
<1>6. inFlight' = {worker'[t].node : t \in LiveSteps'}
  BY <1>0, <1>1, <1>2, <1>3, <1>4 DEF Accounted, LiveSteps
<1>7. \A t \in LiveSteps' : t < nextStep'
  BY <1>0, <1>2, <1>4 DEF Accounted, LiveSteps, Steps
<1>8. SingleInFlight'
  <2>1. \A t \in LiveSteps : worker'[t].node = worker[t].node /\ worker[t].node # n
    BY <1>0, <1>1, <1>3 DEF Accounted, LiveSteps
  <2> QED
    BY <1>3, <1>4, <2>1 DEF Accounted, SingleInFlight
<1>9. WaitsBehindTask'
  BY <1>0, <1>2 DEF Accounted, WaitsBehindTask
<1> QED
  BY <1>0, <1>2, <1>5, <1>6, <1>7, <1>8, <1>9 DEF Accounted

\* Receiving a result takes exactly one goroutine and its node off the books.
LEMMA ReceivedAccounted ==
  ASSUME LoopTypeOK, Accounted, SemOK, NEW s \in Steps, Received(s),
         UNCHANGED <<status, nextStep, sem>>
  PROVE  Accounted' /\ SemOK'
<1> DEFINE n == worker[s].node
<1>0. /\ status = "running" /\ s \in LiveSteps /\ s \notin HoldingSteps
      /\ worker' = [worker EXCEPT ![s] = NoWorker]
      /\ inFlight' = inFlight \ {n} /\ waiting' = [waiting EXCEPT ![n] = 0]
  BY DEF Received, Waiting, At, LiveSteps, HoldingSteps, Live, Holding
<1>1. worker'[s].phase = "none" /\ \A t \in Steps : t # s => worker'[t] = worker[t]
  BY <1>0 DEF LoopTypeOK, NoWorker
<1> HIDE DEF n
<1>2. LiveSteps' = LiveSteps \ {s} /\ HoldingSteps' = HoldingSteps
  BY <1>0, <1>1 DEF LiveSteps, HoldingSteps, Live, Holding
<1>3. \A t \in LiveSteps : t # s => worker[t].node # n /\ worker'[t].node = worker[t].node
  BY <1>0, <1>1 DEF Accounted, SingleInFlight, LiveSteps, n
<1>4. inFlight' = {worker'[t].node : t \in LiveSteps'}
  BY <1>0, <1>2, <1>3 DEF Accounted, n
<1>5. SingleInFlight'
  BY <1>2, <1>3 DEF Accounted, SingleInFlight
<1>6. WaitsBehindTask'
  BY <1>0 DEF Accounted, WaitsBehindTask, LoopTypeOK
<1> QED
  BY <1>0, <1>2, <1>4, <1>5, <1>6 DEF Accounted, SemOK

\* A loop that has just been created has no goroutines, and neither has a
\* process that has just died.
LEMMA NoWorkersAccounted ==
  ASSUME worker' = [s \in Steps |-> NoWorker],
         \/ status' # "running" /\ SemOK /\ UNCHANGED sem
         \/ inFlight' = {} /\ sem' = 0 /\ waiting' = [n \in Node |-> 0]
  PROVE  Accounted' /\ SemOK'
<1>1. LiveSteps' = {} /\ HoldingSteps' = {}
  BY DEF LiveSteps, HoldingSteps, Live, Holding, NoWorker
<1>2. Cardinality(HoldingSteps') = 0
  BY <1>1, FS_EmptySet
<1>3. SemOK'
  BY DagAssumption DEF SemOK
<1>4. SingleInFlight'
  BY <1>1 DEF SingleInFlight
<1>5. WaitsBehindTask'
  BY DEF WaitsBehindTask
<1> QED
  BY <1>1, <1>2, <1>3, <1>4, <1>5 DEF Accounted

\* The loop ends a run only when nothing is in flight, so no goroutine is left.
LEMMA FinalizeAccounted ==
  ASSUME Accounted, SemOK, At("finalize"), Idle, status' # "running", UNCHANGED <<worker, sem>>
  PROVE  Accounted' /\ SemOK'
<1>1. LiveSteps = {}
  BY DEF Accounted, Idle, At
<1>2. LiveSteps' = {}
  BY <1>1 DEF LiveSteps
<1> QED
  BY <1>2 DEF Accounted, SemOK, SingleInFlight, WaitsBehindTask

\* The inductive invariant.
DagInv == ContextTypeOK /\ LoopTypeOK /\ Accounted /\ SemOK

\* The invariant holds before the first run.
LEMMA DagInvInit == Init => DagInv
<1> SUFFICES ASSUME Init PROVE DagInv
  OBVIOUS
<1>1. ContextTypeOK
  <2>1. chan \in [ChannelName -> ChannelType(Node)]
    BY DEF Init, InitContext, ChannelType, NewChannel
  <2>2. duty \in DutyType
    BY GraphAssumption DEF Init, InitContext, InitialDuty, DutyType, Node
  <2>3. versionsSeen \in [Node -> [ChannelName -> Int]]
    BY DEF Init, InitContext, NeverSeen
  <2>4. ckpts \in Seq(CheckpointType) /\ resumedFrom \in 0..Len(ckpts)
    BY DEF Init, InitContext
  <2> QED
    BY <2>1, <2>2, <2>3, <2>4, GraphAssumption DEF Init, InitContext, ContextTypeOK, ChannelName
<1>2. LoopTypeOK
  <2>1. worker \in [Steps -> WorkerType]
    BY NoWorkerType DEF Init
  <2>2. pendingIntr \in IntrType
    BY DEF Init, NoIntr, IntrType
  <2>3. ready \in Seq(Node) /\ rerunNodes \in Seq(Node)
    BY DEF Init
  <2>4. waiting \in [Node -> Nat] /\ inFlight \subseteq Node /\ sem \in Int
    BY DEF Init
  <2>5. /\ draining \in BOOLEAN /\ drainMaxStep \in BOOLEAN /\ pauseRequested \in BOOLEAN
        /\ executed \in BOOLEAN /\ requested \in BOOLEAN
    BY DEF Init
  <2>6. /\ status = "idle" /\ pc = "request" /\ nextStep \in Nat /\ ctx = "live"
        /\ runs \in Nat /\ crashes \in Nat
    BY DEF Init
  <2> QED
    BY <2>1, <2>2, <2>3, <2>4, <2>5, <2>6 DEF LoopTypeOK
<1>3. LiveSteps = {}
  BY DEF Init, LiveSteps, NoWorker, Live, Holding
<1>4. Accounted /\ SemOK
  BY <1>3, DagAssumption DEF Init, Accounted, SemOK, SingleInFlight, WaitsBehindTask
<1> QED
  BY <1>1, <1>2, <1>4 DEF DagInv

\* Every step of the loop, of a goroutine or of the environment preserves it.
LEMMA DagInvNext == DagInv /\ [Next]_vars => DagInv'
<1> SUFFICES ASSUME DagInv, [Next]_vars PROVE DagInv'
  OBVIOUS
<1>0. ContextTypeOK /\ LoopTypeOK /\ Accounted /\ SemOK /\ WorkerNodes
  BY LiveWorkersHaveNodes DEF DagInv
<1>1. CASE \/ StartRun \/ ResumeRun \/ Crash
  <2>1. Accounted' /\ SemOK'
    BY <1>0, <1>1, NoWorkersAccounted DEF StartRun, ResumeRun, Crash, NewLoop
  <2> QED
    BY <1>0, <1>1, <2>1, EnvironmentType DEF DagInv
<1>2. CASE RequestInterrupt \/ CancelContext
  <2>1. UNCHANGED booksVars
    BY <1>2 DEF RequestInterrupt, CancelContext, booksVars, loopVars
  <2> QED
    BY <1>0, <1>2, <2>1, EnvironmentType, BooksUnchanged DEF DagInv
<1>3. ASSUME NEW s \in Steps, GoroutineStep(s) PROVE DagInv'
  BY <1>0, <1>3, GoroutineStepType, GoroutineStepAccounted DEF DagInv
<1>4. CASE Request \/ StartNothing \/ KeepGoing \/ Poll \/ ContextDone
  <2>1. UNCHANGED booksVars
    BY <1>4 DEF Request, StartNothing, KeepGoing, Poll, ContextDone, booksVars
  <2> QED
    BY <1>0, <1>4, <2>1, LoopControlType, BooksUnchanged DEF DagInv
<1>5. CASE BreakBefore \/ NoSlot \/ NoStep
  <2>1. UNCHANGED booksVars
    BY <1>5 DEF BreakBefore, NoSlot, NoStep, booksVars
  <2> QED
    BY <1>0, <1>5, <2>1, StartReadyTasksType, BooksUnchanged DEF DagInv
<1>6. CASE QueueBehind
  <2>1. Head(ready) \in inFlight /\ waiting' = [waiting EXCEPT ![Head(ready)] = @ + 1]
    BY <1>6 DEF QueueBehind
  <2>2. WaitsBehindTask'
    BY <1>0, <1>6, <2>1 DEF QueueBehind, Accounted, WaitsBehindTask, LoopTypeOK
  <2>3. Accounted' /\ SemOK'
    BY <1>0, <1>6, <2>2 DEF QueueBehind, Accounted, SemOK, SingleInFlight, LiveSteps, HoldingSteps
  <2> QED
    BY <1>0, <1>6, <2>3, StartReadyTasksType DEF DagInv
<1>7. CASE LaunchTask
  BY <1>0, <1>7, StartReadyTasksType, LaunchTaskAccounted DEF DagInv
<1>8. CASE PlanIfIdle
  <2>1. UNCHANGED booksVars
    BY <1>8 DEF PlanIfIdle, booksVars
  <2> QED
    BY <1>0, <1>8, <2>1, PlanFinalizeType, BooksUnchanged DEF DagInv
<1>9. CASE FinalizeInterrupt \/ FinalizeDone
  <2>1. At("finalize") /\ Idle /\ status' # "running" /\ UNCHANGED <<worker, sem>>
    BY <1>9 DEF FinalizeInterrupt, FinalizeDone
  <2> QED
    BY <1>0, <1>9, <2>1, PlanFinalizeType, FinalizeAccounted DEF DagInv
<1>10. CASE FinalizeDrained
  <2>1. At("finalize") /\ Idle /\ status' # "running" /\ UNCHANGED <<worker, sem>>
    BY <1>10 DEF FinalizeDrained
  <2> QED
    BY <1>0, <1>10, <2>1, LoopControlType, FinalizeAccounted DEF DagInv
<1>11. ASSUME NEW s \in Steps, TaskSucceeded(s) \/ TaskFailed(s) PROVE DagInv'
  <2>1. Received(s) /\ UNCHANGED <<status, nextStep, sem>>
    BY <1>11 DEF TaskSucceeded, TaskFailed
  <2> QED
    BY <1>0, <1>11, <2>1, HandleTaskResultType, ReceivedAccounted DEF DagInv
<1>12. CASE UNCHANGED vars
  <2>1. UNCHANGED ctxVars /\ UNCHANGED booksVars
    BY <1>12 DEF vars, booksVars, loopVars
  <2>2. LoopTypeOK'
    BY <1>0, <1>12 DEF vars, loopVars, envVars, LoopTypeOK
  <2> QED
    BY <1>0, <2>1, <2>2, ContextUnchanged, BooksUnchanged DEF DagInv
<1> QED
  BY <1>1, <1>2, <1>3, <1>4, <1>5, <1>6, <1>7, <1>8, <1>9, <1>10, <1>11, <1>12
     DEF Next, LoopStep, LineageOver

\* The inductive invariant holds in every reachable state.
THEOREM DagInvAlways == Spec => []DagInv
BY DagInvInit, DagInvNext, PTL DEF Spec

\* The loop's books agree with its goroutines in every reachable state, whatever
\* the graph, the concurrency limit and the step budget (dagLoop).
THEOREM AccountedAlways == Spec => []Accounted
<1>1. DagInv => Accounted
  BY DEF DagInv
<1> QED
  BY <1>1, DagInvAlways, PTL

\* Every variable keeps its type and the semaphore stays in range, so that
\* releaseWorker always finds a token to take.
THEOREM TypeCorrect == Spec => []TypeOK
<1>1. DagInv => TypeOK
  BY DEF DagInv, TypeOK, SemOK
<1> QED
  BY <1>1, DagInvAlways, PTL

\* The scheduler never has two tasks of one node in flight (startTask).
THEOREM SingleInFlightAlways == Spec => []SingleInFlight
<1>1. Accounted => SingleInFlight
  BY DEF Accounted
<1> QED
  BY <1>1, AccountedAlways, PTL

\* A task waits only behind a task of its node that is in flight, so its turn comes
\* with that task's result (startTask, handleTaskResult).
THEOREM WaitsBehindTaskAlways == Spec => []WaitsBehindTask
<1>1. Accounted => WaitsBehindTask
  BY DEF Accounted
<1> QED
  BY <1>1, AccountedAlways, PTL

\* Execute never returns while a goroutine of the run is alive (tryFinalize).
THEOREM NoOrphansAlways == Spec => []NoOrphans
<1>1. Accounted => NoOrphans
  BY DEF Accounted, NoOrphans, Ended
<1> QED
  BY <1>1, AccountedAlways, PTL

\* At most MaxConcurrency node functions execute at a time (tryAcquireWorker).
THEOREM ConcurrencyBoundedAlways == Spec => []ConcurrencyBounded
<1>1. DagInv => ConcurrencyBounded
  <2> SUFFICES ASSUME DagInv PROVE Cardinality(HoldingSteps) <= MaxConcurrency
    BY DEF ConcurrencyBounded
  <2>1. CASE status = "running"
    BY <2>1 DEF DagInv, Accounted, SemOK
  <2>2. CASE status # "running"
    <3>1. HoldingSteps = {}
      BY <2>2 DEF DagInv, Accounted, LiveSteps, HoldingSteps, Live
    <3> QED
      BY <3>1, FS_EmptySet, DagAssumption
  <2> QED
    BY <2>1, <2>2
<1> QED
  BY <1>1, DagInvAlways, PTL
=============================================================================
