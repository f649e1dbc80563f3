----------------------------- MODULE BspProofs -----------------------------
(***************************************************************************)
(* Proofs about BspExecutor, for every compiled graph and every value of   *)
(* the bounds.                                                             *)
(***************************************************************************)
EXTENDS BspExecutor, ContextProofs

(***************************************************************************)
(* Type correctness                                                        *)
(***************************************************************************)

\* What planStep can produce: tasks of nodes, and channels that keep their versions.
LEMMA PlanType ==
  ASSUME ContextTypeOK, NEW plan \in Plans
  PROVE  /\ plan.tasks \in Seq(Node) /\ plan.pendingTasks \in Seq(Node)
         /\ plan.chan \in [ChannelName -> ChannelType(Node)]
         /\ \A c \in ChannelName : plan.chan[c].version = chan[c].version
<1>1. CASE nextNodes # <<>>
  <2>1. PICK order \in Executable(nextNodes) :
          plan = [tasks |-> order, chan |-> chan, pendingTasks |-> pendingTasks]
    BY <1>1 DEF Plans
  <2> QED
    BY <2>1, ExecutableType DEF ContextTypeOK
<1>2. CASE nextNodes = <<>> /\ pendingTasks # <<>>
  <2>1. plan = [tasks |-> pendingTasks, chan |-> chan, pendingTasks |-> <<>>]
    BY <1>2 DEF Plans
  <2> QED
    BY <2>1 DEF ContextTypeOK
<1>3. CASE nextNodes = <<>> /\ pendingTasks = <<>> /\ step = 0
  <2>1. plan = [tasks |-> <<graph.entry>>, chan |-> chan, pendingTasks |-> <<>>]
    BY <1>3 DEF Plans
  <2>2. graph.entry \in Node
    BY GraphAssumption DEF Node
  <2>3. <<graph.entry>> \in Seq(Node)
    BY <2>2
  <2> QED
    BY <2>1, <2>3 DEF ContextTypeOK
<1>4. CASE nextNodes = <<>> /\ pendingTasks = <<>> /\ step # 0
  <2>1. PICK order \in SetToSeqs(Targets(TriggeredBy)) :
          plan = [tasks |-> order, chan |-> AcknowledgedChannels, pendingTasks |-> <<>>]
    BY <1>4 DEF Plans
  <2>2. Targets(TriggeredBy) \subseteq Node
    BY DEF Targets, TriggeredBy
  <2>3. order \in Seq(Node)
    BY <2>1, <2>2, NodesFinite, SetToSeqsType
  <2>4. \A c \in ChannelName : /\ Acknowledge(chan[c]) \in ChannelType(Node)
                               /\ Acknowledge(chan[c]).version = chan[c].version
    BY DEF ContextTypeOK, ChannelType, Acknowledge
  <2>5. /\ AcknowledgedChannels \in [ChannelName -> ChannelType(Node)]
        /\ \A c \in ChannelName : AcknowledgedChannels[c].version = chan[c].version
    BY <2>4 DEF AcknowledgedChannels, ContextTypeOK
  <2> QED
    BY <2>1, <2>3, <2>5
<1> QED
  BY <1>1, <1>2, <1>3, <1>4

\* The next nodes an interrupt checkpoint can name are lists of nodes.
LEMMA NextNodesType ==
  ASSUME ContextTypeOK
  PROVE  /\ \A carried \in Seq(Node) : \A node, skipRerun :
              InterruptNextNodes(carried, <<>>, node, skipRerun) \in Seq(Node \cup {End})
         /\ \A frontier \in Frontiers : \A node, skipRerun :
              InterruptNextNodes(<<>>, frontier, node, skipRerun) \in Seq(Node \cup {End})
<1>0. <<>> \in Seq(Node \cup {End}) /\ \A q \in Seq(Node) : q \in Seq(Node \cup {End})
  OBVIOUS
<1>1. \A frontier \in Frontiers : frontier \in Seq(Node \cup {End})
  BY FrontierType DEF Frontiers
<1> QED
  BY <1>0, <1>1, InterruptNextNodesType

\* Starting, resuming and losing a run keep the types.
LEMMA RunType ==
  ASSUME TypeOK, StartRun \/ ResumeRun \/ Crash \/ RequestInterrupt \/ UNCHANGED vars
  PROVE  TypeOK'
<1> USE DEF TypeOK
<1>1. CASE StartRun
  <2>1. PICK saved \in BOOLEAN : FreshContext(saved)
    BY <1>1 DEF StartRun
  <2>2. ContextTypeOK'
    BY <2>1, FreshContextType
  <2> QED
    BY <1>1, <2>2 DEF StartRun, ClearStep, NoErr
<1>2. CASE ResumeRun
  <2>1. PICK k \in DOMAIN ckpts : ResumeContext(k, SeedNodes(ckpts[k])) /\ step' = ckpts[k].step + 1
    BY <1>2 DEF ResumeRun
  <2>2. ckpts[k] \in CheckpointType
    BY DEF ContextTypeOK
  <2>3. SeedNodes(ckpts[k]) \in Seq(Node \cup {End}) /\ ckpts[k].step + 1 \in Nat
    BY <2>2 DEF SeedNodes, CheckpointType
  <2>4. ContextTypeOK'
    BY <2>1, <2>3, ResumeContextType
  <2> QED
    BY <1>2, <2>1, <2>3, <2>4 DEF ResumeRun, ClearStep, NoErr
<1>3. CASE Crash
  <2>1. ContextTypeOK'
    BY <1>3, GraphAssumption DEF Crash, ContextTypeOK, ChannelName
  <2> QED
    BY <1>3, <2>1 DEF Crash, ClearStep, NoErr, Ended
<1>4. CASE RequestInterrupt
  BY <1>4, ContextUnchanged DEF RequestInterrupt
<1>5. CASE UNCHANGED vars
  BY <1>5, ContextUnchanged DEF vars, engineVars
<1> QED
  BY <1>1, <1>2, <1>3, <1>4, <1>5

\* Planning and what may follow a plan keep the types.
LEMMA PlanStepType ==
  ASSUME TypeOK, UseUpSteps \/ Stop \/ PauseBeforeStep \/ BreakBeforeStep \/ ExecuteStep
  PROVE  TypeOK'
<1>c. ContextTypeOK
  BY DEF TypeOK
<1> USE DEF TypeOK
<1>1. CASE UseUpSteps
  BY <1>1, ContextUnchanged DEF UseUpSteps, Ended
<1>2. CASE Stop
  <2>1. PICK plan \in Plans : TakePlan(plan)
    BY <1>2 DEF Stop
  <2>2. ContextTypeOK'
    BY <1>2, <2>1, PlanType DEF Stop, TakePlan, ContextTypeOK
  <2> QED
    BY <1>2, <2>2 DEF Stop, Ended
<1>3. CASE PauseBeforeStep
  <2>1. PICK plan \in Plans, saved \in BOOLEAN :
          /\ TakePlan(plan)
          /\ SaveInterruptCheckpoint(step - 1, plan.chan, skips,
               InterruptNextNodes(plan.tasks, <<>>, End, FALSE), duty, saved)
    BY <1>3 DEF PauseBeforeStep
  <2>2. /\ plan.tasks \in Seq(Node) /\ plan.pendingTasks \in Seq(Node)
        /\ plan.chan \in [ChannelName -> ChannelType(Node)]
    BY PlanType
  <2>3. InterruptNextNodes(plan.tasks, <<>>, End, FALSE) \in Seq(Node \cup {End})
    BY <2>2, NextNodesType
  <2>4. step - 1 \in Nat \cup {-1} /\ skips \in SUBSET Node /\ duty \in DutyType
    BY DEF ContextTypeOK
  <2>5. ckpts' \in Seq(CheckpointType) /\ Len(ckpts') >= Len(ckpts)
    <3> DEFINE next == InterruptNextNodes(plan.tasks, <<>>, End, FALSE)
    <3>1. next \in Seq(Node \cup {End})
      BY <2>3
    <3> HIDE DEF next
    <3>2. Checkpoint(step - 1, plan.chan, skips, next, {}, duty) \in CheckpointType
      BY <1>c, <2>2, <2>4, <3>1, CheckpointRecordType
    <3>3. ckpts' = IF saved
                   THEN Append(ckpts, Checkpoint(step - 1, plan.chan, skips, next, {}, duty))
                   ELSE ckpts
      BY <2>1 DEF SaveInterruptCheckpoint, next
    <3> QED
      BY <1>c, <3>2, <3>3 DEF ContextTypeOK
  <2>6. ContextTypeOK'
    BY <1>3, <2>1, <2>2, <2>5 DEF PauseBeforeStep, TakePlan, ContextTypeOK
  <2> QED
    BY <1>3, <2>6 DEF PauseBeforeStep, Ended
<1>4. CASE BreakBeforeStep
  <2>1. PICK plan \in Plans, saved \in BOOLEAN :
          /\ TakePlan(plan)
          /\ skips' = skips \cup StaticHits(plan) /\ duty' = StopBefore(duty, StaticHits(plan))
          /\ \E active \in SetToSeqs(Range(plan.tasks)), hit \in StaticHits(plan) :
               SaveInterruptCheckpoint(step, plan.chan, skips',
                 InterruptNextNodes(active, <<>>, hit, FALSE), duty', saved)
    BY <1>4 DEF BreakBeforeStep
  <2>2. PICK active \in SetToSeqs(Range(plan.tasks)), hit \in StaticHits(plan) :
          SaveInterruptCheckpoint(step, plan.chan, skips',
            InterruptNextNodes(active, <<>>, hit, FALSE), duty', saved)
    BY <2>1
  <2>3. /\ plan.tasks \in Seq(Node) /\ plan.pendingTasks \in Seq(Node)
        /\ plan.chan \in [ChannelName -> ChannelType(Node)]
    BY PlanType
  <2>4. Range(plan.tasks) \subseteq Node /\ StaticHits(plan) \in SUBSET Node
    BY <2>3 DEF Range, StaticHits
  <2>5. active \in Seq(Node)
    BY <2>2, <2>4, NodesFinite, SetToSeqsType
  <2>6. InterruptNextNodes(active, <<>>, hit, FALSE) \in Seq(Node \cup {End})
    BY <2>5, NextNodesType
  <2>7. skips' \in SUBSET Node /\ duty' \in DutyType
    BY <2>1, <2>4, StartStopType DEF ContextTypeOK
  <2>8. ckpts' \in Seq(CheckpointType) /\ Len(ckpts') >= Len(ckpts)
    <3> DEFINE next == InterruptNextNodes(active, <<>>, hit, FALSE)
    <3>1. next \in Seq(Node \cup {End})
      BY <2>6
    <3> HIDE DEF next
    <3>2. Checkpoint(step, plan.chan, skips', next, {}, duty') \in CheckpointType
      BY <1>c, <2>3, <2>7, <3>1, CheckpointRecordType
    <3>3. ckpts' = IF saved
                   THEN Append(ckpts, Checkpoint(step, plan.chan, skips', next, {}, duty'))
                   ELSE ckpts
      BY <2>2 DEF SaveInterruptCheckpoint, next
    <3> QED
      BY <1>c, <3>2, <3>3 DEF ContextTypeOK
  <2>9. ContextTypeOK'
    BY <1>4, <2>1, <2>3, <2>7, <2>8 DEF BreakBeforeStep, TakePlan, ContextTypeOK
  <2> QED
    BY <1>4, <2>9 DEF BreakBeforeStep, Ended
<1>5. CASE ExecuteStep
  <2>1. PICK plan \in Plans :
          /\ TakePlan(plan) /\ tasks' = plan.tasks /\ skips' = skips \ StaticHits(plan)
          /\ work' = [i \in DOMAIN plan.tasks |->
                        [phase |-> "queued", todo |-> <<>>, branch |-> <<>>]]
          /\ duty' = Begin(duty, plan.tasks)
    BY <1>5 DEF ExecuteStep
  <2>2. /\ plan.tasks \in Seq(Node) /\ plan.pendingTasks \in Seq(Node)
        /\ plan.chan \in [ChannelName -> ChannelType(Node)]
    BY PlanType
  <2>3. duty' \in DutyType
    BY <2>1, <2>2, StartStopType DEF ContextTypeOK
  <2>4. [phase |-> "queued", todo |-> <<>>, branch |-> <<>>] \in Work
    BY DEF Work
  <2>5. work' \in Seq(Work) /\ Len(work') = Len(tasks')
    <3>1. work' \in [1..Len(plan.tasks) -> Work] /\ Len(plan.tasks) \in Nat
      BY <2>1, <2>2, <2>4
    <3>2. work' \in Seq(Work)
      BY <3>1, FunctionIsSeq
    <3>3. DOMAIN work' = 1..Len(plan.tasks)
      BY <3>1
    <3> QED
      BY <2>1, <3>1, <3>2, <3>3
  <2>6. ContextTypeOK'
    BY <1>5, <2>1, <2>2, <2>3 DEF ExecuteStep, TakePlan, ContextTypeOK
  <2> QED
    BY <1>5, <2>1, <2>2, <2>5, <2>6 DEF ExecuteStep
<1> QED
  BY <1>1, <1>2, <1>3, <1>4, <1>5

\* What a node can return is made of channels and nodes of the graph.
LEMMA ResultsType ==
  ASSUME NEW n \in Node, NEW r \in Results(n)
  PROVE  r.writes \in Seq(ChannelName) /\ r.branch \in Seq(ChannelName) /\ r.spawn \in Seq(Node)
<1>1. CASE \E b \in graph.routes[n] : r = [writes |-> graph.writers[n], branch |-> b, spawn |-> <<>>]
  BY <1>1, GraphAssumption DEF Node, ChannelName
<1>2. CASE \E c \in graph.gotos[n] : r = [writes |-> <<c>>, branch |-> <<>>, spawn |-> <<>>]
  <2>0. \A c \in graph.gotos[n] : c \in ChannelName
    BY GraphAssumption DEF Node, ChannelName
  <2>1. \A c \in graph.gotos[n] : <<c>> \in Seq(ChannelName)
    BY <2>0
  <2> QED
    BY <1>2, <2>1
<1>3. CASE \E s \in graph.fanouts[n] : r = [writes |-> <<>>, branch |-> <<>>, spawn |-> s]
  BY <1>3, GraphAssumption DEF Node
<1> QED
  BY <1>1, <1>2, <1>3 DEF Results

\* The steps of the workers keep the types.
LEMMA WorkerStepType ==
  ASSUME TypeOK, NEW i \in DOMAIN tasks,
         WorkerStep(i)
  PROVE  TypeOK'
<1> USE DEF TypeOK
<1>n. tasks[i] \in Node /\ i \in DOMAIN work /\ work[i] \in Work /\ DOMAIN work = DOMAIN tasks
  OBVIOUS
<1>w. ASSUME NEW w \in Work PROVE /\ [work EXCEPT ![i] = w] \in Seq(Work)
                                  /\ Len([work EXCEPT ![i] = w]) = Len(tasks)
  BY <1>n
<1>1. CASE StartTask(i)
  <2>1. [work[i] EXCEPT !.phase = "running"] \in Work
    BY <1>n DEF Work
  <2>2. work' = [work EXCEPT ![i] = [work[i] EXCEPT !.phase = "running"]]
    BY <1>1 DEF StartTask
  <2>3. work' \in Seq(Work) /\ Len(work') = Len(tasks)
    BY <1>w, <2>1, <2>2
  <2> QED
    BY <1>1, <2>3, ContextUnchanged DEF StartTask
<1>2. CASE HandleNodeResult(i)
  <2>1. PICK r \in Results(tasks[i]) :
          /\ work' = [work EXCEPT ![i] = [phase |-> "writing", todo |-> r.writes,
                                         branch |-> r.branch]]
          /\ pendingTasks' = pendingTasks \o r.spawn /\ duty' = Owe(duty, r.spawn)
    BY <1>2 DEF HandleNodeResult
  <2>2. r.writes \in Seq(ChannelName) /\ r.branch \in Seq(ChannelName) /\ r.spawn \in Seq(Node)
    BY <1>n, ResultsType
  <2>3. [phase |-> "writing", todo |-> r.writes, branch |-> r.branch] \in Work
    BY <2>2 DEF Work
  <2>4. work' \in Seq(Work) /\ Len(work') = Len(tasks)
    BY <1>w, <2>1, <2>3
  <2>5. pendingTasks' \in Seq(Node)
    BY <2>1, <2>2 DEF ContextTypeOK
  <2>6. duty' \in DutyType
    BY <2>1, <2>2, OweType DEF ContextTypeOK
  <2>7. ContextTypeOK'
    BY <1>2, <2>5, <2>6 DEF HandleNodeResult, ContextTypeOK
  <2> QED
    BY <1>2, <2>4, <2>7 DEF HandleNodeResult
<1>3. CASE WriteNext(i)
  <2> DEFINE c == Head(work[i].todo)
  <2>1. c \in ChannelName /\ Tail(work[i].todo) \in Seq(ChannelName)
    BY <1>3, <1>n DEF WriteNext, Work
  <2>2. WriteChannel(tasks[i], c) /\ duty' = Send(duty, c, tasks[i])
    BY <1>3 DEF WriteNext
  <2>3. [work[i] EXCEPT !.todo = Tail(work[i].todo)] \in Work
    BY <1>n, <2>1 DEF Work
  <2>4. work' = [work EXCEPT ![i] = [work[i] EXCEPT !.todo = Tail(work[i].todo)]]
    BY <1>3 DEF WriteNext
  <2>5. work' \in Seq(Work) /\ Len(work') = Len(tasks)
    BY <1>w, <2>3, <2>4
  <2> HIDE DEF c
  <2>6. duty' \in DutyType
    BY <1>n, <2>1, <2>2, SendType DEF ContextTypeOK
  <2>7. /\ declared' \subseteq ChannelName /\ mapped' \subseteq ChannelName
        /\ chan' \in [ChannelName -> ChannelType(Node)] /\ pendingWrites' \subseteq PendingWriteType
    BY <1>n, <2>1, <2>2, WriteChannelType
  <2>8. ContextTypeOK'
    BY <1>3, <2>6, <2>7 DEF WriteNext, ContextTypeOK
  <2> QED
    BY <1>3, <2>5, <2>8 DEF WriteNext
<1>4. CASE FinishTask(i)
  <2>1. [phase |-> "finishing", todo |-> work[i].branch, branch |-> <<>>] \in Work
    BY <1>n DEF Work
  <2>2. work' \in Seq(Work) /\ Len(work') = Len(tasks)
    BY <1>4, <1>w, <2>1 DEF FinishTask
  <2>3. versionsSeen' \in [Node -> [ChannelName -> Int]]
    <3>1. CASE UpdateVersionsSeen(tasks[i])
      BY <1>n, <3>1 DEF UpdateVersionsSeen, ContextTypeOK, ChannelType
    <3>2. CASE UNCHANGED versionsSeen
      BY <3>2 DEF ContextTypeOK
    <3> QED
      BY <1>4, <3>1, <3>2 DEF FinishTask
  <2>4. ContextTypeOK'
    BY <1>4, <2>3 DEF FinishTask, ContextTypeOK
  <2> QED
    BY <1>4, <2>2, <2>4 DEF FinishTask
<1>5. CASE FailTask(i) \/ FailBehindResult(i)
  <2>1. [phase |-> "err", todo |-> <<>>, branch |-> <<>>] \in Work
    BY DEF Work
  <2>2. work' \in Seq(Work) /\ Len(work') = Len(tasks)
    BY <1>5, <1>w, <2>1 DEF FailTask, FailBehindResult, Fail
  <2>3. firstErr' \in [kind : {"none", "error", "interrupt", "canceled"}, node : Node \cup {End}]
    BY <1>5, <1>n DEF FailTask, FailBehindResult, Fail, FailureKinds
  <2> QED
    BY <1>5, <2>2, <2>3, ContextUnchanged DEF FailTask, FailBehindResult, Fail
<1>6. CASE CompleteTask(i)
  <2>1. [work[i] EXCEPT !.phase = "completed"] \in Work
    BY <1>n DEF Work
  <2>2. work' = [work EXCEPT ![i] = [work[i] EXCEPT !.phase = "completed"]]
    BY <1>6 DEF CompleteTask
  <2>3. work' \in Seq(Work) /\ Len(work') = Len(tasks)
    BY <1>w, <2>1, <2>2
  <2> QED
    BY <1>6, <2>3, ContextUnchanged DEF CompleteTask
<1> QED
  BY <1>1, <1>2, <1>3, <1>4, <1>5, <1>6 DEF WorkerStep

\* The tasks that did not complete are tasks, and the promise that owes them again is one.
LEMMA UnfinishedType ==
  ASSUME TypeOK
  PROVE  Unfinished \in Seq(Node \cup {End}) /\ Outstanding \in DutyType
<1>1. Unfinished \in [1..Len(tasks) -> Node \cup {End}] /\ Len(tasks) \in Nat
  BY DEF TypeOK, Unfinished
<1>2. Unfinished \in Seq(Node \cup {End})
  BY <1>1, FunctionIsSeq
<1> QED
  BY <1>2, OweType DEF Outstanding, TypeOK, ContextTypeOK

\* The end of a superstep keeps the types, whether it pauses, fails or goes on.
LEMMA EndStepType ==
  ASSUME TypeOK, InterruptStep \/ ForceInterruptStep \/ FailStep \/ BreakAfterStep \/ NextStep
  PROVE  TypeOK'
<1>c. ContextTypeOK
  BY DEF TypeOK
<1>d. /\ step \in Nat \cup {-1} /\ step \in Nat /\ skips \in SUBSET Node /\ duty \in DutyType
      /\ chan \in [ChannelName -> ChannelType(Node)]
  BY DEF TypeOK, ContextTypeOK
<1>e. <<>> \in Seq(Work) /\ <<>> \in Seq(Node) /\ Len(<<>>) = 0
      /\ NoErr \in [kind : {"none", "error", "interrupt", "canceled"}, node : Node \cup {End}]
  BY DEF NoErr
\* What the three kinds of interrupt have in common.
<1>p. ASSUME NEW next \in Seq(Node \cup {End}), NEW promise \in DutyType, NEW saved \in BOOLEAN,
             SaveInterruptCheckpoint(step, chan, skips, next, promise, saved),
             status' = "interrupted", ClearStep,
             UNCHANGED <<declared, mapped, chan, nextNodes, skips, pendingWrites, pendingTasks,
                         versionsSeen, resumedFrom, duty, step, ext, runs, crashes>>
      PROVE  TypeOK'
  <2>1. ckpts' \in Seq(CheckpointType) /\ Len(ckpts') >= Len(ckpts)
    BY <1>c, <1>d, <1>p, SaveInterruptCheckpointType
  <2>2. ContextTypeOK'
    BY <1>c, <1>p, <2>1 DEF ContextTypeOK
  <2> QED
    BY <1>e, <1>p, <2>2 DEF TypeOK, ClearStep, Ended
<1>f. \A frontier \in Frontiers : frontier \in Seq(Node \cup {End})
  BY <1>c, FrontierType DEF Frontiers
<1>1. CASE InterruptStep
  <2>1. PICK saved \in BOOLEAN, frontier \in Frontiers :
          SaveInterruptCheckpoint(step, chan, skips,
            InterruptNextNodes(<<>>, frontier, firstErr.node, FALSE), Outstanding, saved)
    BY <1>1 DEF InterruptStep
  <2> DEFINE next == InterruptNextNodes(<<>>, frontier, firstErr.node, FALSE)
  <2>2. next \in Seq(Node \cup {End})
    BY <1>c, NextNodesType
  <2>3. Outstanding \in DutyType
    BY UnfinishedType
  <2>4. SaveInterruptCheckpoint(step, chan, skips, next, Outstanding, saved)
    BY <2>1
  <2> HIDE DEF next
  <2>5. /\ status' = "interrupted" /\ ClearStep
        /\ UNCHANGED <<declared, mapped, chan, nextNodes, skips, pendingWrites, pendingTasks,
                       versionsSeen, resumedFrom, duty, step, ext, runs, crashes>>
    BY <1>1 DEF InterruptStep
  <2> QED
    BY <1>p, <2>2, <2>3, <2>4, <2>5
<1>2. CASE ForceInterruptStep
  <2>1. PICK saved \in BOOLEAN, rerun \in TasksToRerun :
        \E rest \in SetToSeqs((GetNextNodes(chan) \cap Node) \ Range(rerun)) :
          SaveInterruptCheckpoint(step, chan, skips,
            InterruptNextNodes(rerun \o rest, <<>>, End, FALSE), Outstanding, saved)
    BY <1>2 DEF ForceInterruptStep
  <2>2. PICK rest \in SetToSeqs((GetNextNodes(chan) \cap Node) \ Range(rerun)) :
          SaveInterruptCheckpoint(step, chan, skips,
            InterruptNextNodes(rerun \o rest, <<>>, End, FALSE), Outstanding, saved)
    BY <2>1
  <2> DEFINE next == InterruptNextNodes(rerun \o rest, <<>>, End, FALSE)
  <2>3. rerun \in Seq(Node)
    BY UnfinishedType, ExecutableType DEF TasksToRerun
  <2>4. rest \in Seq(Node)
    <3>1. (GetNextNodes(chan) \cap Node) \ Range(rerun) \subseteq Node
      OBVIOUS
    <3> QED
      BY <2>2, <3>1, NodesFinite, SetToSeqsType
  <2>5. rerun \o rest \in Seq(Node)
    BY <2>3, <2>4
  <2>6. next \in Seq(Node \cup {End})
    BY <1>c, <2>5, NextNodesType
  <2>7. Outstanding \in DutyType
    BY UnfinishedType
  <2>8. SaveInterruptCheckpoint(step, chan, skips, next, Outstanding, saved)
    BY <2>2
  <2> HIDE DEF next
  <2>9. /\ status' = "interrupted" /\ ClearStep
        /\ UNCHANGED <<declared, mapped, chan, nextNodes, skips, pendingWrites, pendingTasks,
                       versionsSeen, resumedFrom, duty, step, ext, runs, crashes>>
    BY <1>2 DEF ForceInterruptStep
  <2> QED
    BY <1>p, <2>6, <2>7, <2>8, <2>9
<1>3. CASE FailStep
  <2>1. ContextTypeOK'
    BY <1>3, <1>c, ContextUnchanged DEF FailStep
  <2> QED
    BY <1>3, <1>e, <2>1 DEF FailStep, TypeOK, ClearStep, Ended
<1>4. CASE BreakAfterStep
  <2>1. PICK saved \in BOOLEAN, frontier \in Frontiers, hit \in Range(tasks) \cap graph.after :
          SaveInterruptCheckpoint(step, chan, skips,
            InterruptNextNodes(<<>>, frontier, hit, TRUE), duty, saved)
    BY <1>4 DEF BreakAfterStep
  <2> DEFINE next == InterruptNextNodes(<<>>, frontier, hit, TRUE)
  <2>2. next \in Seq(Node \cup {End})
    BY <1>c, NextNodesType
  <2>3. SaveInterruptCheckpoint(step, chan, skips, next, duty, saved)
    BY <2>1
  <2> HIDE DEF next
  <2>4. /\ status' = "interrupted" /\ ClearStep
        /\ UNCHANGED <<declared, mapped, chan, nextNodes, skips, pendingWrites, pendingTasks,
                       versionsSeen, resumedFrom, duty, step, ext, runs, crashes>>
    BY <1>4 DEF BreakAfterStep
  <2> QED
    BY <1>d, <1>p, <2>2, <2>3, <2>4
<1>5. CASE NextStep
  <2>1. PICK saved \in BOOLEAN, frontier \in Frontiers : SaveLoopCheckpoint(step, frontier, saved)
    BY <1>5 DEF NextStep
  <2>2. /\ ckpts' \in Seq(CheckpointType) /\ Len(ckpts') >= Len(ckpts)
        /\ pendingWrites' \subseteq PendingWriteType
    BY <1>c, <1>d, <1>f, <2>1, SaveLoopCheckpointType
  <2>3. ContextTypeOK'
    BY <1>5, <1>c, <2>2 DEF NextStep, ContextTypeOK
  <2> QED
    BY <1>5, <1>d, <1>e, <2>3 DEF NextStep, TypeOK, ClearStep
<1> QED
  BY <1>1, <1>2, <1>3, <1>4, <1>5

\* The types hold when the executor is created and through every step.
LEMMA TypeInit == Init => TypeOK
<1> SUFFICES ASSUME Init PROVE TypeOK
  OBVIOUS
<1>1. InitialDuty \in DutyType
  BY GraphAssumption DEF InitialDuty, DutyType, Node
<1>2. [c \in ChannelName |-> NewChannel] \in [ChannelName -> ChannelType(Node)]
  BY DEF ChannelType, NewChannel
<1>3. ContextTypeOK
  BY <1>1, <1>2, GraphAssumption DEF Init, InitContext, ContextTypeOK, ChannelName, NeverSeen
<1> QED
  BY <1>3 DEF Init, TypeOK, NoErr

LEMMA TypeStep == TypeOK /\ [Next]_vars => TypeOK'
BY RunType, PlanStepType, WorkerStepType, EndStepType DEF Next, EngineStep, LineageOver

\* The state of every run is well typed: no plan names a node that the graph does not
\* have, every task has its worker record, and every checkpoint can be restored.
THEOREM TypeCorrect == Spec => []TypeOK
<1>1. Init => TypeOK
  BY TypeInit
<1>2. TypeOK /\ [Next]_vars => TypeOK'
  BY TypeStep
<1> QED
  BY <1>1, <1>2, PTL DEF Spec
-----------------------------------------------------------------------------
(***************************************************************************)
(* Breakpoints                                                             *)
(***************************************************************************)

\* Whoever paused at a breakpoint and has not started since is among the next nodes
\* next, and every breakpoint among those is one to skip.
PassingAt(d, sk, next) ==
  d.stopped # {} => d.stopped \subseteq Range(next) /\ Range(next) \cap graph.before \subseteq sk

\* The checkpoints from which a breakpoint is passed: a replay of writes does not
\* displace the next nodes.
PassingCheckpoint ==
  {ck \in CheckpointType : /\ PassingAt(ck.promise, ck.skips, ck.nextNodes)
                           /\ ck.promise.stopped # {} => ck.pendingWrites = {}}

BreakInv ==
  /\ duty.restopped = {}
  /\ status = "executing" => duty.stopped = {}
  /\ status = "planning" => PassingAt(duty, skips, nextNodes)
  /\ ckpts \in Seq(PassingCheckpoint)

\* The nodes of a plan made from next nodes are the next nodes.
LEMMA PlanOfNextNodes ==
  ASSUME ContextTypeOK, nextNodes # <<>>, NEW plan \in Plans
  PROVE  Range(plan.tasks) = Range(nextNodes) \cap Node
<1>1. PICK order \in Executable(nextNodes) :
        plan = [tasks |-> order, chan |-> chan, pendingTasks |-> pendingTasks]
  BY DEF Plans
<1> QED
  BY <1>1, ExecutableRange DEF ContextTypeOK

\* Starting and resuming keep it: what a checkpoint says is what the run starts from.
LEMMA BreakInvRun ==
  ASSUME TypeOK, BreakInv, StartRun \/ ResumeRun \/ Crash \/ RequestInterrupt \/ UNCHANGED vars
  PROVE  BreakInv'
<1>t. ContextTypeOK /\ ckpts \in Seq(CheckpointType)
  BY DEF TypeOK, ContextTypeOK
<1>1. CASE StartRun
  <2>1. PICK saved \in BOOLEAN : FreshContext(saved)
    BY <1>1 DEF StartRun
  <2>2. InitialDuty \in DutyType /\ InitialDuty.stopped = {}
    BY GraphAssumption DEF InitialDuty, DutyType, Node
  <2>3. duty'.stopped = {} /\ duty'.restopped = {}
    BY <2>1, <2>2 DEF FreshContext, DutyType, BreakInv
  <2>4. ckpts' \in Seq(CheckpointType)
    BY <1>t, <2>1, FreshContextType DEF ContextTypeOK
  <2>5. \A k \in DOMAIN ckpts' : ckpts'[k].promise = InitialDuty
    <3> DEFINE ck == [step |-> -1, skips |-> {}, nextNodes |-> <<graph.entry>>,
                      pendingWrites |-> {}, versions |-> [c \in ChannelName |-> 0],
                      barrierSets |-> [c \in ChannelName |-> {}],
                      versionsSeen |-> [n \in Node |-> [c \in ChannelName |-> NeverSeen]],
                      promise |-> InitialDuty]
    <3>1. ckpts' = IF saved THEN <<ck>> ELSE <<>>
      BY <2>1 DEF FreshContext
    <3>2. ck.promise = InitialDuty
      OBVIOUS
    <3> HIDE DEF ck
    <3> QED
      BY <3>1, <3>2
  <2>6. ckpts' \in Seq(PassingCheckpoint)
    BY <2>2, <2>4, <2>5 DEF PassingCheckpoint, PassingAt
  <2> QED
    BY <1>1, <2>3, <2>6 DEF StartRun, BreakInv, PassingAt
<1>2. CASE ResumeRun
  <2>1. PICK k \in DOMAIN ckpts : ResumeContext(k, SeedNodes(ckpts[k]))
    BY <1>2 DEF ResumeRun
  <2>2. ckpts[k] \in PassingCheckpoint /\ ckpts[k] \in CheckpointType
    BY <1>t DEF BreakInv
  <2>3. /\ duty' = [ckpts[k].promise EXCEPT !.excess = duty.excess, !.restopped = duty.restopped]
        /\ skips' = ckpts[k].skips /\ nextNodes' = SeedNodes(ckpts[k]) /\ ckpts' = ckpts
    BY <2>1 DEF ResumeContext
  <2>4. ckpts[k].promise \in DutyType
    BY <2>2 DEF CheckpointType
  <2>5. duty'.stopped = ckpts[k].promise.stopped /\ duty'.restopped = duty.restopped
    BY <2>3, <2>4 DEF DutyType
  <2>6. ASSUME duty'.stopped # {} PROVE nextNodes' = ckpts[k].nextNodes
    <3>1. ckpts[k].promise.stopped \subseteq Node
      BY <2>4 DEF DutyType
    <3> QED
      BY <2>2, <2>3, <2>5, <2>6, <3>1 DEF PassingCheckpoint, PassingAt, SeedNodes
  <2>7. PassingAt(duty', skips', nextNodes')
    BY <2>2, <2>3, <2>5, <2>6 DEF PassingCheckpoint, PassingAt
  <2> QED
    BY <1>2, <2>3, <2>5, <2>7 DEF ResumeRun, BreakInv, PassingAt
<1>3. CASE Crash
  BY <1>3 DEF Crash, BreakInv
<1>4. CASE RequestInterrupt
  BY <1>4 DEF RequestInterrupt, ctxVars, BreakInv, PassingAt
<1>5. CASE UNCHANGED vars
  BY <1>5 DEF vars, ctxVars, engineVars, BreakInv, PassingAt
<1> QED
  BY <1>1, <1>2, <1>3, <1>4, <1>5

\* A plan passes the breakpoints the run has paused at, so that what BreakBeforeStep
\* pauses at is new, and ExecuteStep starts all that had paused.
LEMMA BreakInvPlan ==
  ASSUME TypeOK, BreakInv, UseUpSteps \/ Stop \/ PauseBeforeStep \/ BreakBeforeStep \/ ExecuteStep
  PROVE  BreakInv'
<1>t. /\ ContextTypeOK /\ ckpts \in Seq(CheckpointType) /\ duty \in DutyType /\ End \notin Node
      /\ duty.stopped \subseteq Node
  BY GraphAssumption DEF TypeOK, ContextTypeOK, DutyType, Node
<1>p. ASSUME NEW plan \in Plans, status = "planning", duty.stopped # {}
      PROVE  /\ duty.stopped \subseteq Range(plan.tasks)
             /\ StaticHits(plan) \subseteq skips
  <2>1. duty.stopped \subseteq Range(nextNodes) /\ Range(nextNodes) \cap graph.before \subseteq skips
    BY <1>p DEF BreakInv, PassingAt
  <2>2. nextNodes # <<>>
    BY <1>p, <2>1 DEF Range
  <2>3. Range(plan.tasks) = Range(nextNodes) \cap Node
    BY <1>t, <2>2, PlanOfNextNodes
  <2> QED
    BY <1>t, <2>1, <2>3 DEF StaticHits
\* What an interrupt checkpoint of a plan adds.
<1>s. ASSUME NEW st, NEW chs, NEW sk, NEW next, NEW promise, NEW saved \in BOOLEAN,
             SaveInterruptCheckpoint(st, chs, sk, next, promise, saved),
             ContextTypeOK', PassingAt(promise, sk, next)
      PROVE  ckpts' \in Seq(PassingCheckpoint)
  <2> DEFINE ck == Checkpoint(st, chs, sk, next, {}, promise)
  <2>1. ckpts' = IF saved THEN Append(ckpts, ck) ELSE ckpts
    BY <1>s DEF SaveInterruptCheckpoint
  <2>2. /\ ck.promise = promise /\ ck.skips = sk /\ ck.nextNodes = next
        /\ ck.pendingWrites = {}
    BY DEF Checkpoint
  <2>3. ckpts' \in Seq(CheckpointType)
    BY <1>s DEF ContextTypeOK
  <2> HIDE DEF ck
  <2>4. ASSUME saved PROVE ck \in CheckpointType
    <3>1. Len(ckpts) + 1 \in DOMAIN ckpts' /\ ckpts'[Len(ckpts) + 1] = ck
      BY <1>t, <2>1, <2>4
    <3> QED
      BY <2>3, <3>1
  <2>5. saved => ck \in PassingCheckpoint
    BY <1>s, <2>2, <2>4 DEF PassingCheckpoint
  <2> QED
    BY <2>1, <2>5 DEF BreakInv
<1>c. ContextTypeOK'
  BY PlanStepType DEF TypeOK
<1>1. CASE UseUpSteps
  BY <1>1 DEF UseUpSteps, ctxVars, BreakInv
<1>2. CASE Stop
  BY <1>2 DEF Stop, BreakInv
<1>3. CASE PauseBeforeStep
  <2>1. PICK plan \in Plans, saved \in BOOLEAN :
          /\ TakePlan(plan) /\ plan.tasks # <<>>
          /\ SaveInterruptCheckpoint(step - 1, plan.chan, skips,
               InterruptNextNodes(plan.tasks, <<>>, End, FALSE), duty, saved)
    BY <1>3 DEF PauseBeforeStep
  <2>2. InterruptNextNodes(plan.tasks, <<>>, End, FALSE) = plan.tasks
    BY <1>t, <2>1 DEF InterruptNextNodes
  <2>3. SaveInterruptCheckpoint(step - 1, plan.chan, skips, plan.tasks, duty, saved)
    BY <2>1, <2>2
  <2>4. PassingAt(duty, skips, plan.tasks)
    BY <1>p, <2>1 DEF PassingAt, TakePlan, StaticHits
  <2>5. ckpts' \in Seq(PassingCheckpoint)
    BY <1>c, <1>s, <2>3, <2>4
  <2> QED
    BY <1>3, <2>5 DEF PauseBeforeStep, BreakInv
<1>4. CASE BreakBeforeStep
  <2>1. PICK plan \in Plans, saved \in BOOLEAN :
          /\ TakePlan(plan) /\ ~(StaticHits(plan) \subseteq skips)
          /\ skips' = skips \cup StaticHits(plan) /\ duty' = StopBefore(duty, StaticHits(plan))
          /\ \E active \in SetToSeqs(Range(plan.tasks)), hit \in StaticHits(plan) :
               SaveInterruptCheckpoint(step, plan.chan, skips',
                 InterruptNextNodes(active, <<>>, hit, FALSE), duty', saved)
    BY <1>4 DEF BreakBeforeStep
  <2>2. PICK active \in SetToSeqs(Range(plan.tasks)), hit \in StaticHits(plan) :
          SaveInterruptCheckpoint(step, plan.chan, skips',
            InterruptNextNodes(active, <<>>, hit, FALSE), duty', saved)
    BY <2>1
  <2>3. duty.stopped = {}
    BY <1>p, <2>1 DEF TakePlan
  <2>4. duty'.restopped = {} /\ duty'.stopped = StaticHits(plan)
    BY <1>t, <2>1, <2>3 DEF StopBefore, DutyType, BreakInv
  <2>5. plan.tasks \in Seq(Node)
    BY <1>t, PlanType
  <2>6. Range(active) = Range(plan.tasks)
    <3>1. IsFiniteSet(Range(plan.tasks))
      BY <2>5, NodesFinite DEF Range
    <3> QED
      BY <2>2, <3>1, SetToSeqsRange
  <2>7. InterruptNextNodes(active, <<>>, hit, FALSE) = active
    <3>1. hit \in Range(active)
      BY <2>6 DEF StaticHits
    <3>2. active # <<>>
      BY <3>1 DEF Range
    <3> QED
      BY <3>1, <3>2 DEF InterruptNextNodes
  <2>8. SaveInterruptCheckpoint(step, plan.chan, skips', active, duty', saved)
    BY <2>2, <2>7
  <2>9. PassingAt(duty', skips', active)
    BY <2>1, <2>4, <2>6 DEF PassingAt, StaticHits
  <2>10. ckpts' \in Seq(PassingCheckpoint)
    <3> DEFINE ck == Checkpoint(step, plan.chan, skips', active, {}, duty')
    <3>1. ckpts' = IF saved THEN Append(ckpts, ck) ELSE ckpts
      BY <2>8 DEF SaveInterruptCheckpoint
    <3>2. /\ ck.promise = duty' /\ ck.skips = skips' /\ ck.nextNodes = active
          /\ ck.pendingWrites = {}
      BY DEF Checkpoint
    <3>3. ckpts' \in Seq(CheckpointType)
      BY <1>c DEF ContextTypeOK
    <3> HIDE DEF ck
    <3>4. ASSUME saved PROVE ck \in CheckpointType
      <4>1. Len(ckpts) + 1 \in DOMAIN ckpts' /\ ckpts'[Len(ckpts) + 1] = ck
        BY <1>t, <3>1, <3>4
      <4> QED
        BY <3>3, <4>1
    <3>5. saved => ck \in PassingCheckpoint
      BY <2>9, <3>2, <3>4 DEF PassingCheckpoint
    <3> QED
      BY <3>1, <3>5 DEF BreakInv
  <2> QED
    BY <1>4, <2>4, <2>10 DEF BreakBeforeStep, BreakInv
<1>5. CASE ExecuteStep
  <2>1. PICK plan \in Plans : TakePlan(plan) /\ duty' = Begin(duty, plan.tasks)
    BY <1>5 DEF ExecuteStep
  <2>2. duty'.stopped = duty.stopped \ Range(plan.tasks) /\ duty'.restopped = duty.restopped
    BY <1>t, <2>1 DEF Begin, DutyType
  <2>3. duty'.stopped = {}
    BY <1>p, <2>1, <2>2 DEF TakePlan
  <2> QED
    BY <1>5, <2>2, <2>3 DEF ExecuteStep, BreakInv
<1> QED
  BY <1>1, <1>2, <1>3, <1>4, <1>5

\* A checkpoint saved while nobody is stopped at a breakpoint passes the breakpoints.
LEMMA PassingSaved ==
  ASSUME NEW q \in Seq(PassingCheckpoint), NEW ck, NEW saved \in BOOLEAN, NEW q2 \in Seq(CheckpointType),
         q2 = IF saved THEN Append(q, ck) ELSE q, ck.promise.stopped = {}
  PROVE  q2 \in Seq(PassingCheckpoint)
<1>1. ASSUME saved PROVE ck \in PassingCheckpoint
  <2>1. Len(q) + 1 \in DOMAIN q2 /\ q2[Len(q) + 1] = ck
    BY <1>1
  <2>2. ck \in CheckpointType
    BY <2>1
  <2> QED
    BY <2>2 DEF PassingCheckpoint, PassingAt
<1> QED
  BY <1>1

\* While a step executes nobody is stopped, so neither its writes nor its end matter.
LEMMA BreakInvStep ==
  ASSUME TypeOK, BreakInv,
         \/ \E i \in DOMAIN tasks : WorkerStep(i)
         \/ InterruptStep \/ ForceInterruptStep \/ FailStep \/ BreakAfterStep \/ NextStep
  PROVE  BreakInv'
<1>t. duty \in DutyType
  BY DEF TypeOK, ContextTypeOK
<1>o. /\ Outstanding.stopped = duty.stopped /\ Outstanding.restopped = duty.restopped
      /\ Outstanding.excess = duty.excess
  BY <1>t, UnfinishedType, OweEffect DEF Outstanding
<1>1. ASSUME NEW i \in DOMAIN tasks,
             WorkerStep(i)
      PROVE  BreakInv'
  <2>n. tasks[i] \in Node /\ work[i] \in Work
    BY <1>1 DEF TypeOK
  <2>1. CASE StartTask(i)
    BY <2>1 DEF StartTask, ctxVars, BreakInv
  <2>2. CASE HandleNodeResult(i)
    <3>1. PICK r \in Results(tasks[i]) : duty' = Owe(duty, r.spawn)
      BY <2>2 DEF HandleNodeResult
    <3>2. r.spawn \in Seq(Node \cup {End})
      BY <2>n, ResultsType
    <3>3. duty'.stopped = duty.stopped /\ duty'.restopped = duty.restopped
      BY <1>t, <3>1, <3>2, OweEffect
    <3> QED
      BY <2>2, <3>3 DEF HandleNodeResult, BreakInv
  <2>3. CASE WriteNext(i)
    <3>1. Head(work[i].todo) \in ChannelName
      BY <2>3, <2>n DEF WriteNext, Work
    <3>2. duty' = Send(duty, Head(work[i].todo), tasks[i])
      BY <2>3 DEF WriteNext
    <3>3. duty'.stopped = duty.stopped /\ duty'.restopped = duty.restopped
      BY <1>t, <2>n, <3>1, <3>2, SendLeaves
    <3> QED
      BY <2>3, <3>3 DEF WriteNext, BreakInv
  <2>4. CASE FinishTask(i)
    BY <2>4 DEF FinishTask, BreakInv
  <2>5. CASE FailTask(i) \/ FailBehindResult(i) \/ CompleteTask(i)
    BY <2>5 DEF FailTask, FailBehindResult, Fail, CompleteTask, ctxVars, BreakInv
  <2> QED
    BY <1>1, <2>1, <2>2, <2>3, <2>4, <2>5 DEF WorkerStep
<1>2. ASSUME StepOver,
             InterruptStep \/ ForceInterruptStep \/ FailStep \/ BreakAfterStep \/ NextStep
      PROVE  BreakInv'
  <2>1. ckpts' \in Seq(CheckpointType)
    BY <1>2, EndStepType DEF TypeOK, ContextTypeOK
  <2>2. duty.stopped = {} /\ Outstanding.stopped = {}
    BY <1>2, <1>o DEF StepOver, BreakInv
  <2>3. \A st, chs, sk, next, writes, promise :
          Checkpoint(st, chs, sk, next, writes, promise).promise = promise
    BY DEF Checkpoint
  <2>4. CASE InterruptStep
    <3>0. PICK next :
            \E saved \in BOOLEAN :
              SaveInterruptCheckpoint(step, chan, skips, next, Outstanding, saved)
      BY <2>4 DEF InterruptStep
    <3>1. PICK saved \in BOOLEAN :
            SaveInterruptCheckpoint(step, chan, skips, next, Outstanding, saved)
      BY <3>0
    <3>2. ckpts' = IF saved THEN Append(ckpts, Checkpoint(step, chan, skips, next, {}, Outstanding))
                            ELSE ckpts
      BY <3>1 DEF SaveInterruptCheckpoint
    <3>3. ckpts' \in Seq(PassingCheckpoint)
      <4> DEFINE ck == Checkpoint(step, chan, skips, next, {}, Outstanding)
      <4>1. ck.promise.stopped = {}
        BY <2>2, <2>3
      <4>2. ckpts' = IF saved THEN Append(ckpts, ck) ELSE ckpts
        BY <3>2
      <4> HIDE DEF ck
      <4> QED
        BY <2>1, <4>1, <4>2, PassingSaved DEF BreakInv
    <3> QED
      BY <2>4, <3>3 DEF InterruptStep, BreakInv
  <2>5. CASE ForceInterruptStep
    <3>0. PICK next :
            \E saved \in BOOLEAN :
              SaveInterruptCheckpoint(step, chan, skips, next, Outstanding, saved)
      BY <2>5 DEF ForceInterruptStep
    <3>1. PICK saved \in BOOLEAN :
            SaveInterruptCheckpoint(step, chan, skips, next, Outstanding, saved)
      BY <3>0
    <3>2. ckpts' = IF saved THEN Append(ckpts, Checkpoint(step, chan, skips, next, {}, Outstanding))
                            ELSE ckpts
      BY <3>1 DEF SaveInterruptCheckpoint
    <3>3. ckpts' \in Seq(PassingCheckpoint)
      <4> DEFINE ck == Checkpoint(step, chan, skips, next, {}, Outstanding)
      <4>1. ck.promise.stopped = {}
        BY <2>2, <2>3
      <4>2. ckpts' = IF saved THEN Append(ckpts, ck) ELSE ckpts
        BY <3>2
      <4> HIDE DEF ck
      <4> QED
        BY <2>1, <4>1, <4>2, PassingSaved DEF BreakInv
    <3> QED
      BY <2>5, <3>3 DEF ForceInterruptStep, BreakInv
  <2>6. CASE FailStep
    BY <2>6 DEF FailStep, ctxVars, BreakInv
  <2>7. CASE BreakAfterStep
    <3>0. PICK next :
            \E saved \in BOOLEAN :
              SaveInterruptCheckpoint(step, chan, skips, next, duty, saved)
      BY <2>7 DEF BreakAfterStep
    <3>1. PICK saved \in BOOLEAN :
            SaveInterruptCheckpoint(step, chan, skips, next, duty, saved)
      BY <3>0
    <3>2. ckpts' = IF saved THEN Append(ckpts, Checkpoint(step, chan, skips, next, {}, duty))
                            ELSE ckpts
      BY <3>1 DEF SaveInterruptCheckpoint
    <3>3. ckpts' \in Seq(PassingCheckpoint)
      <4> DEFINE ck == Checkpoint(step, chan, skips, next, {}, duty)
      <4>1. ck.promise.stopped = {}
        BY <2>2, <2>3
      <4>2. ckpts' = IF saved THEN Append(ckpts, ck) ELSE ckpts
        BY <3>2
      <4> HIDE DEF ck
      <4> QED
        BY <2>1, <4>1, <4>2, PassingSaved DEF BreakInv
    <3> QED
      BY <2>7, <3>3 DEF BreakAfterStep, BreakInv
  <2>8. CASE NextStep
    <3>1. PICK saved \in BOOLEAN, frontier \in Frontiers : SaveLoopCheckpoint(step, frontier, saved)
      BY <2>8 DEF NextStep
    <3>2. ckpts' = IF saved THEN Append(ckpts, Checkpoint(step, chan, skips, frontier, pendingWrites, duty))
                            ELSE ckpts
      BY <3>1 DEF SaveLoopCheckpoint
    <3>3. ckpts' \in Seq(PassingCheckpoint)
      <4> DEFINE ck == Checkpoint(step, chan, skips, frontier, pendingWrites, duty)
      <4>1. ck.promise.stopped = {}
        BY <2>2, <2>3
      <4>2. ckpts' = IF saved THEN Append(ckpts, ck) ELSE ckpts
        BY <3>2
      <4> HIDE DEF ck
      <4> QED
        BY <2>1, <4>1, <4>2, PassingSaved DEF BreakInv
    <3> QED
      BY <2>2, <2>8, <3>3 DEF NextStep, BreakInv, PassingAt
  <2> QED
    BY <1>2, <2>4, <2>5, <2>6, <2>7, <2>8
<1>3. InterruptStep \/ ForceInterruptStep \/ FailStep \/ BreakAfterStep \/ NextStep => StepOver
  BY DEF InterruptStep, ForceInterruptStep, FailStep, BreakAfterStep, NextStep
<1> QED
  BY <1>1, <1>2, <1>3

LEMMA BreakInvInit == Init => BreakInv
<1> SUFFICES ASSUME Init PROVE BreakInv
  OBVIOUS
<1>1. duty.stopped = {} /\ duty.restopped = {}
  BY DEF Init, InitContext, InitialDuty
<1> QED
  BY <1>1 DEF Init, InitContext, BreakInv

LEMMA BreakInvNext == TypeOK /\ BreakInv /\ [Next]_vars => BreakInv'
BY BreakInvRun, BreakInvPlan, BreakInvStep DEF Next, EngineStep, LineageOver

\* A breakpoint pauses a run once (maybeStaticInterruptBefore with the skips that the
\* interrupt checkpoint stores): for every graph, wherever its breakpoints are, however
\* often runs crash, fail, pause or lose a checkpoint, and from whichever checkpoint of
\* the lineage they are resumed, no run pauses again at a breakpoint at which the lineage
\* has paused before the node has started.
THEOREM BreakpointPassedAlways == Spec => []BreakpointPassed
<1>1. Init => TypeOK /\ BreakInv
  BY TypeInit, BreakInvInit
<1>2. TypeOK /\ BreakInv /\ [Next]_vars => (TypeOK /\ BreakInv)'
  BY TypeStep, BreakInvNext
<1>3. BreakInv => BreakpointPassed
  BY DEF BreakInv, BreakpointPassed
<1> QED
  BY <1>1, <1>2, <1>3, PTL DEF Spec
-----------------------------------------------------------------------------
(***************************************************************************)
(* The version test of resumed runs                                        *)
(***************************************************************************)

\* No checkpoint says that a node has seen a version that its channels did not have, or
\* anything of a channel that exists only since some route was taken.
GateCheckpoint ==
  {ck \in CheckpointType :
     \A c \in ChannelName :
       /\ \A n \in Node : /\ ck.versionsSeen[n][c] <= ck.versions[c]
                          /\ c \notin graph.declared => ck.versionsSeen[n][c] = NeverSeen
       /\ graph.expected[c] = {} => ck.barrierSets[c] = {}}

VersionsInOrder ==
  \A c \in ChannelName :
    /\ \A n \in Node : /\ versionsSeen[n][c] <= chan[c].version
                       /\ c \notin graph.declared => versionsSeen[n][c] = NeverSeen
    /\ graph.expected[c] = {} => chan[c].seen = {}

\* A resumed run has channels at least as new as those it was resumed with, and newer
\* where one without a barrier has become available: only a write makes it available.
GrownSinceResume ==
  resumedFrom # 0 =>
    \A c \in graph.declared :
      /\ ckpts[resumedFrom].versions[c] <= chan[c].version
      /\ chan[c].available /\ graph.expected[c] = {} =>
           ckpts[resumedFrom].versions[c] < chan[c].version

VersionInv ==
  graph.declared \subseteq declared /\ VersionsInOrder /\ ckpts \in Seq(GateCheckpoint) /\ GrownSinceResume

\* A checkpoint saved of channels with the versions of this run, as a plan leaves them or
\* as a step does, is in order, and the earlier ones stay.
LEMMA SavedInOrder ==
  ASSUME TypeOK, VersionInv, NEW chs,
         \A c \in ChannelName : chs[c].version = chan[c].version /\ chs[c].seen \subseteq chan[c].seen,
         NEW st, NEW sk, NEW next, NEW writes, NEW promise, NEW saved \in BOOLEAN,
         ckpts' = IF saved THEN Append(ckpts, Checkpoint(st, chs, sk, next, writes, promise))
                           ELSE ckpts,
         ckpts' \in Seq(CheckpointType), declared' = declared
  PROVE  ckpts' \in Seq(GateCheckpoint) /\ \A k \in DOMAIN ckpts : ckpts'[k] = ckpts[k]
<1> DEFINE ck == Checkpoint(st, chs, sk, next, writes, promise)
<1>1. \A c \in ChannelName :
        /\ \A n \in Node : /\ ck.versionsSeen[n][c] <= ck.versions[c]
                           /\ c \notin graph.declared => ck.versionsSeen[n][c] = NeverSeen
        /\ graph.expected[c] = {} => ck.barrierSets[c] = {}
  <2>1. /\ ck.versionsSeen = versionsSeen
        /\ \A c \in ChannelName : ck.versions[c] = IF c \in declared THEN chs[c].version ELSE 0
        /\ \A c \in ChannelName : ck.barrierSets[c] = chs[c].seen
    BY DEF Checkpoint
  <2> HIDE DEF ck
  <2> QED
    BY <2>1 DEF VersionInv, VersionsInOrder, NeverSeen
<1>2. ckpts' = IF saved THEN Append(ckpts, ck) ELSE ckpts
  OBVIOUS
<1>3. ckpts \in Seq(GateCheckpoint)
  BY DEF VersionInv
<1> HIDE DEF ck
<1>4. ASSUME saved PROVE ck \in GateCheckpoint
  <2>1. Len(ckpts) + 1 \in DOMAIN ckpts' /\ ckpts'[Len(ckpts) + 1] = ck
    BY <1>2, <1>3, <1>4
  <2>2. ck \in CheckpointType
    BY <2>1
  <2> QED
    BY <1>1, <2>2 DEF GateCheckpoint
<1>5. ckpts' \in Seq(GateCheckpoint)
  BY <1>2, <1>3, <1>4
<1>6. \A k \in DOMAIN ckpts : ckpts'[k] = ckpts[k]
  BY <1>2, <1>3
<1> QED
  BY <1>5, <1>6

\* Whatever leaves the versions alone and the checkpoints in order keeps the rest.
LEMMA VersionsKept ==
  ASSUME TypeOK, VersionInv, ckpts' \in Seq(GateCheckpoint), \A k \in DOMAIN ckpts : ckpts'[k] = ckpts[k],
         \A c \in ChannelName : /\ chan'[c].version = chan[c].version
                                /\ chan'[c].seen \subseteq chan[c].seen
                                /\ chan'[c].available => chan[c].available,
         versionsSeen' = versionsSeen, declared' = declared, resumedFrom' = resumedFrom
  PROVE  VersionInv'
<1>1. VersionsInOrder'
  BY DEF VersionInv, VersionsInOrder
<1>2. GrownSinceResume'
  <2>1. resumedFrom # 0 => resumedFrom \in DOMAIN ckpts
    BY DEF TypeOK, ContextTypeOK
  <2> QED
    BY <2>1, GraphAssumption DEF VersionInv, GrownSinceResume, ChannelName
<1> QED
  BY <1>1, <1>2 DEF VersionInv

\* A plan acknowledges channels and does nothing else to them.
LEMMA PlanLeavesVersions ==
  ASSUME ContextTypeOK, NEW plan \in Plans, NEW c \in ChannelName
  PROVE  /\ plan.chan[c].version = chan[c].version
         /\ plan.chan[c].seen \subseteq chan[c].seen
         /\ plan.chan[c].available => chan[c].available
<1>1. AcknowledgedChannels[c] \in {chan[c], Acknowledge(chan[c])}
  BY DEF AcknowledgedChannels
<1>2. plan.chan[c] \in {chan[c], AcknowledgedChannels[c]}
  BY DEF Plans
<1>3. plan.chan[c] \in {chan[c], Acknowledge(chan[c])}
  BY <1>1, <1>2
<1> QED
  BY <1>3 DEF Acknowledge, ContextTypeOK, ChannelType

\* Planning, pausing and the ends of a step keep the versions in order.
LEMMA VersionInvPlan ==
  ASSUME TypeOK, VersionInv,
         \/ UseUpSteps \/ Stop \/ PauseBeforeStep \/ BreakBeforeStep \/ ExecuteStep
         \/ InterruptStep \/ ForceInterruptStep \/ FailStep \/ BreakAfterStep \/ NextStep
  PROVE  VersionInv'
<1>t. TypeOK' /\ ContextTypeOK /\ ckpts' \in Seq(CheckpointType)
  <2>1. TypeOK'
    BY PlanStepType, EndStepType
  <2> QED
    BY <2>1 DEF TypeOK, ContextTypeOK
\* The checkpoint a step saves, if it saves one, has the channels of some plan, or its own.
<1>1. ASSUME NEW chs,
             \A c \in ChannelName : /\ chs[c].version = chan[c].version
                                    /\ chs[c].seen \subseteq chan[c].seen
                                    /\ chs[c].available => chan[c].available,
             chan' = chs \/ chan' = chan,
             versionsSeen' = versionsSeen, declared' = declared, resumedFrom' = resumedFrom,
             \/ ckpts' = ckpts
             \/ \E st, sk, next, writes, promise :
                  ckpts' = Append(ckpts, Checkpoint(st, chs, sk, next, writes, promise))
      PROVE  VersionInv'
  <2>1. ckpts' \in Seq(GateCheckpoint) /\ \A k \in DOMAIN ckpts : ckpts'[k] = ckpts[k]
    <3>1. CASE ckpts' = ckpts
      BY <1>1, <3>1 DEF VersionInv
    <3>2. ASSUME NEW st, NEW sk, NEW next, NEW writes, NEW promise,
                 ckpts' = Append(ckpts, Checkpoint(st, chs, sk, next, writes, promise))
          PROVE  ckpts' \in Seq(GateCheckpoint) /\ \A k \in DOMAIN ckpts : ckpts'[k] = ckpts[k]
      <4>1. ckpts' = IF TRUE THEN Append(ckpts, Checkpoint(st, chs, sk, next, writes, promise))
                             ELSE ckpts
        BY <3>2
      <4> QED
        BY <1>t, <1>1, <4>1, SavedInOrder
    <3> QED
      BY <1>1, <3>1, <3>2
  <2> QED
    BY <1>1, <2>1, VersionsKept
<1>o. \A c \in ChannelName : /\ chan[c].version = chan[c].version
                             /\ chan[c].seen \subseteq chan[c].seen
                             /\ chan[c].available => chan[c].available
  OBVIOUS
<1>2. CASE UseUpSteps \/ FailStep
  BY <1>o, <1>1, <1>2 DEF UseUpSteps, FailStep, ctxVars
<1>3. CASE Stop \/ ExecuteStep
  <2>1. PICK plan \in Plans : TakePlan(plan)
    BY <1>3 DEF Stop, ExecuteStep
  <2>2. \A c \in ChannelName : /\ plan.chan[c].version = chan[c].version
                               /\ plan.chan[c].seen \subseteq chan[c].seen
                               /\ plan.chan[c].available => chan[c].available
    BY <1>t, PlanLeavesVersions
  <2>3. /\ chan' = plan.chan /\ versionsSeen' = versionsSeen /\ declared' = declared
        /\ resumedFrom' = resumedFrom /\ ckpts' = ckpts
    BY <1>3, <2>1 DEF Stop, ExecuteStep, TakePlan
  <2> QED
    BY <1>1, <2>2, <2>3
<1>4. CASE PauseBeforeStep \/ BreakBeforeStep
  <2>1. PICK plan \in Plans :
          /\ TakePlan(plan)
          /\ \/ ckpts' = ckpts
             \/ \E st, sk, next, writes, promise :
                  ckpts' = Append(ckpts, Checkpoint(st, plan.chan, sk, next, writes, promise))
    BY <1>4 DEF PauseBeforeStep, BreakBeforeStep, SaveInterruptCheckpoint
  <2>2. \A c \in ChannelName : /\ plan.chan[c].version = chan[c].version
                               /\ plan.chan[c].seen \subseteq chan[c].seen
                               /\ plan.chan[c].available => chan[c].available
    BY <1>t, PlanLeavesVersions
  <2>3. /\ chan' = plan.chan /\ versionsSeen' = versionsSeen /\ declared' = declared
        /\ resumedFrom' = resumedFrom
    BY <1>4, <2>1 DEF PauseBeforeStep, BreakBeforeStep, TakePlan
  <2> QED
    BY <1>1, <2>1, <2>2, <2>3
<1>5. CASE InterruptStep \/ ForceInterruptStep \/ BreakAfterStep \/ NextStep
  <2>1. \/ ckpts' = ckpts
        \/ \E st, sk, next, writes, promise :
             ckpts' = Append(ckpts, Checkpoint(st, chan, sk, next, writes, promise))
    BY <1>5 DEF InterruptStep, ForceInterruptStep, BreakAfterStep, NextStep,
                SaveInterruptCheckpoint, SaveLoopCheckpoint
  <2>2. /\ chan' = chan /\ versionsSeen' = versionsSeen /\ declared' = declared
        /\ resumedFrom' = resumedFrom
    BY <1>5 DEF InterruptStep, ForceInterruptStep, BreakAfterStep, NextStep
  <2> QED
    BY <1>o, <1>1, <2>1, <2>2
<1> QED
  BY <1>2, <1>3, <1>4, <1>5

\* The workers only raise versions, and see those that are there.
LEMMA VersionInvWorker ==
  ASSUME TypeOK, VersionInv, NEW i \in DOMAIN tasks,
         WorkerStep(i)
  PROVE  VersionInv'
<1>n. /\ tasks[i] \in Node /\ work[i] \in Work
      /\ chan \in [ChannelName -> ChannelType(Node)]
      /\ versionsSeen \in [Node -> [ChannelName -> Int]]
  BY DEF TypeOK, ContextTypeOK
<1>g. resumedFrom # 0 => resumedFrom \in DOMAIN ckpts /\ ckpts[resumedFrom] \in CheckpointType
  BY DEF TypeOK, ContextTypeOK
<1>1. CASE \/ StartTask(i) \/ HandleNodeResult(i) \/ CompleteTask(i) \/ FailTask(i)
          \/ FailBehindResult(i) \/ (FinishTask(i) /\ UNCHANGED versionsSeen)
  BY <1>1, VersionsKept DEF StartTask, HandleNodeResult, CompleteTask, FailTask,
       FailBehindResult, Fail, FinishTask, ctxVars, VersionInv
<1>2. CASE WriteNext(i)
  <2> DEFINE c == Head(work[i].todo)
  <2>1. c \in ChannelName
    BY <1>2, <1>n DEF WriteNext, Work
  <2>2. /\ declared' = declared \cup {c}
        /\ chan' = [chan EXCEPT ![c] = Update(chan[c], graph.expected[c], tasks[i])]
        /\ versionsSeen' = versionsSeen /\ resumedFrom' = resumedFrom /\ ckpts' = ckpts
    BY <1>2 DEF WriteNext, WriteChannel
  <2> HIDE DEF c
  <2>3. /\ chan'[c].version = chan[c].version + 1 /\ chan[c].version \in Nat
        /\ graph.expected[c] = {} => chan'[c].seen = chan[c].seen
    BY <1>n, <2>1, <2>2 DEF Update, ChannelType
  <2>4. \A d \in ChannelName \ {c} : chan'[d] = chan[d]
    BY <1>n, <2>2
  <2>6. VersionsInOrder'
    <3> SUFFICES ASSUME NEW d \in ChannelName
                 PROVE  /\ \A n \in Node :
                             /\ versionsSeen[n][d] <= chan'[d].version
                             /\ d \notin graph.declared => versionsSeen[n][d] = NeverSeen
                        /\ graph.expected[d] = {} => chan'[d].seen = {}
      BY <2>2 DEF VersionsInOrder
    <3>1. /\ \A n \in Node : /\ versionsSeen[n][d] <= chan[d].version
                             /\ d \notin graph.declared => versionsSeen[n][d] = NeverSeen
          /\ graph.expected[d] = {} => chan[d].seen = {}
      BY DEF VersionInv, VersionsInOrder
    <3>2. \A n \in Node : versionsSeen[n][d] \in Int
      BY <1>n
    <3> QED
      BY <2>3, <2>4, <3>1, <3>2
  <2>7. GrownSinceResume'
    <3>1. resumedFrom # 0 => ckpts[resumedFrom].versions \in [ChannelName -> Nat]
      BY <1>g DEF CheckpointType
    <3>2. \A d \in ChannelName : chan[d].version \in Nat
      BY <1>n DEF ChannelType
    <3> QED
      BY <2>2, <2>3, <2>4, <3>1, <3>2, GraphAssumption DEF VersionInv, GrownSinceResume, ChannelName
  <2> QED
    BY <2>2, <2>6, <2>7 DEF VersionInv
<1>3. CASE FinishTask(i) /\ UpdateVersionsSeen(tasks[i])
  <2>1. /\ declared' = declared /\ chan' = chan /\ resumedFrom' = resumedFrom
        /\ ckpts' = ckpts
        /\ versionsSeen' = [versionsSeen EXCEPT ![tasks[i]] =
             [c \in ChannelName |-> IF c \in graph.triggers[tasks[i]] \cap declared
                                    THEN chan[c].version ELSE versionsSeen[tasks[i]][c]]]
    BY <1>3 DEF FinishTask, UpdateVersionsSeen
  <2>2. \A n \in Node, c \in ChannelName :
          \/ versionsSeen'[n][c] = versionsSeen[n][c]
          \/ versionsSeen'[n][c] = chan[c].version /\ c \in graph.declared
    <3>1. graph.triggers[tasks[i]] \subseteq graph.declared
      BY <1>n, GraphAssumption DEF Node
    <3> QED
      BY <1>n, <2>1, <3>1
  <2>3. \A c \in ChannelName : chan[c].version \in Nat
    BY <1>n DEF ChannelType
  <2>4. VersionsInOrder'
    BY <2>1, <2>2, <2>3 DEF VersionInv, VersionsInOrder
  <2> QED
    BY <2>1, <2>4 DEF VersionInv, GrownSinceResume
<1> QED
  BY <1>1, <1>2, <1>3 DEF WorkerStep, FinishTask

\* A resumed run has the versions of its checkpoint and one more for every writer whose
\* write is replayed, which is the only way for a channel to be available at its start.
LEMMA VersionInvResume ==
  ASSUME TypeOK, VersionInv, ResumeRun
  PROVE  VersionInv'
<1>1. PICK k \in DOMAIN ckpts : ResumeContext(k, SeedNodes(ckpts[k]))
  BY DEF ResumeRun
<1> DEFINE ck == ckpts[k]
           restored == RestoreChannels(ck)
<1>2. /\ chan' = ApplyPendingWrites(restored, ck.pendingWrites) /\ versionsSeen' = ck.versionsSeen
      /\ declared' = declared /\ ckpts' = ckpts /\ resumedFrom' = k
  BY <1>1 DEF ResumeContext, ResumeRun
<1>3. ck \in GateCheckpoint /\ ck \in CheckpointType
  BY DEF VersionInv, TypeOK, ContextTypeOK
<1>4. \A c \in ChannelName : ck.versions[c] \in Nat
  BY <1>3 DEF CheckpointType
<1>5. ASSUME NEW c \in ChannelName
      PROVE  /\ restored[c].version \in Nat /\ (c \in declared => restored[c].version = ck.versions[c])
             /\ graph.expected[c] = {} => restored[c].seen = {} /\ ~restored[c].available
  <2>1. restored[c] = IF c \notin declared THEN NewChannel
                      ELSE IF ck.barrierSets[c] = {} THEN [NewChannel EXCEPT !.version = ck.versions[c]]
                      ELSE SetBarrierSeen([NewChannel EXCEPT !.version = ck.versions[c]],
                                          graph.expected[c], ck.barrierSets[c])
    BY DEF RestoreChannels
  <2>2. graph.expected[c] = {} => ck.barrierSets[c] = {}
    BY <1>3 DEF GateCheckpoint
  <2> HIDE DEF restored, ck
  <2> QED
    BY <1>4, <2>1, <2>2 DEF NewChannel, SetBarrierSeen
<1>6. ASSUME NEW c \in ChannelName
      PROVE  /\ c \in declared => ck.versions[c] <= chan'[c].version
             /\ graph.expected[c] = {} =>
                  /\ chan'[c].seen = {}
                  /\ c \in declared /\ chan'[c].available => ck.versions[c] < chan'[c].version
  <2> DEFINE senders == {w[2] : w \in {v \in ck.pendingWrites : v[1] = c}}
             seen == IF graph.expected[c] = {} THEN restored[c].seen
                                               ELSE restored[c].seen \cup senders
             replayed == [version |-> restored[c].version + Cardinality(senders),
                          available |-> BarrierSatisfied(graph.expected[c], seen),
                          seen |-> seen]
  <2>1. chan'[c] = IF c \notin declared \/ senders = {} THEN restored[c] ELSE replayed
    BY <1>2 DEF ApplyPendingWrites
  <2>2. senders \subseteq Node
    BY <1>3 DEF CheckpointType, PendingWriteType
  <2>3. IsFiniteSet(senders)
    BY <2>2, NodesFinite
  <2>4. Cardinality(senders) \in Nat /\ (senders # {} => Cardinality(senders) > 0)
    <3> HIDE DEF senders
    <3>1. Cardinality(senders) \in Nat /\ (Cardinality(senders) = 0 <=> senders = {})
      BY <2>3, FS_CardinalityType, FS_EmptySet
    <3> QED
      BY <3>1
  <2>5. CASE c \notin declared \/ senders = {}
    <3>1. chan'[c] = restored[c]
      BY <2>1, <2>5
    <3> HIDE DEF senders, restored
    <3> QED
      BY <1>4, <1>5, <3>1
  <2>6. CASE c \in declared /\ senders # {}
    <3>1. /\ chan'[c].version = restored[c].version + Cardinality(senders)
          /\ graph.expected[c] = {} => chan'[c].seen = restored[c].seen
      BY <2>1, <2>6
    <3> HIDE DEF senders, restored
    <3> QED
      BY <1>4, <1>5, <2>4, <2>6, <3>1
  <2> QED
    BY <2>5, <2>6
<1>7. VersionsInOrder'
  <2>1. \A c \in ChannelName, n \in Node :
          /\ versionsSeen'[n][c] <= ck.versions[c] /\ versionsSeen'[n][c] \in Int
          /\ c \notin graph.declared => versionsSeen'[n][c] = NeverSeen
          /\ chan'[c].version \in Nat
    <3>1. versionsSeen' \in [Node -> [ChannelName -> Int]]
      BY <1>2, <1>3 DEF CheckpointType
    <3>2. chan' \in [ChannelName -> ChannelType(Node)]
      BY RunType DEF TypeOK, ContextTypeOK
    <3> QED
      BY <1>2, <1>3, <3>1, <3>2 DEF GateCheckpoint, ChannelType
  <2> QED
    BY <1>4, <1>6, <2>1 DEF VersionInv, VersionsInOrder, NeverSeen
<1>8. GrownSinceResume'
  BY <1>2, <1>6, GraphAssumption DEF VersionInv, GrownSinceResume, ChannelName
<1> QED
  BY <1>2, <1>7, <1>8 DEF VersionInv

\* So do a fresh start and the loss of a process.
LEMMA VersionInvRun ==
  ASSUME TypeOK, VersionInv,
         StartRun \/ ResumeRun \/ Crash \/ RequestInterrupt \/ UNCHANGED vars
  PROVE  VersionInv'
<1>1. CASE StartRun
  <2>1. PICK saved \in BOOLEAN : FreshContext(saved)
    BY <1>1 DEF StartRun
  <2>2. /\ chan' = [c \in ChannelName |-> NewChannel] /\ resumedFrom' = 0 /\ declared' = declared
        /\ versionsSeen' = [n \in Node |-> [c \in ChannelName |-> NeverSeen]]
    BY <1>1, <2>1 DEF FreshContext, StartRun
  <2>3. ckpts' \in Seq(CheckpointType)
    BY RunType, <1>1 DEF TypeOK, ContextTypeOK
  <2>4. \A k \in DOMAIN ckpts' :
          /\ ckpts'[k].versions = [c \in ChannelName |-> 0]
          /\ ckpts'[k].barrierSets = [c \in ChannelName |-> {}]
          /\ ckpts'[k].versionsSeen = [n \in Node |-> [c \in ChannelName |-> NeverSeen]]
    <3> DEFINE ck == [step |-> -1, skips |-> {}, nextNodes |-> <<graph.entry>>,
                      pendingWrites |-> {}, versions |-> [c \in ChannelName |-> 0],
                      barrierSets |-> [c \in ChannelName |-> {}],
                      versionsSeen |-> [n \in Node |-> [c \in ChannelName |-> NeverSeen]],
                      promise |-> InitialDuty]
    <3>1. ckpts' = IF saved THEN <<ck>> ELSE <<>>
      BY <2>1 DEF FreshContext
    <3>2. /\ ck.versions = [c \in ChannelName |-> 0]
          /\ ck.barrierSets = [c \in ChannelName |-> {}]
          /\ ck.versionsSeen = [n \in Node |-> [c \in ChannelName |-> NeverSeen]]
      OBVIOUS
    <3> HIDE DEF ck
    <3> QED
      BY <3>1, <3>2
  <2>5. ckpts' \in Seq(GateCheckpoint)
    BY <2>3, <2>4 DEF GateCheckpoint, NeverSeen
  <2> QED
    BY <2>2, <2>5 DEF VersionInv, VersionsInOrder, GrownSinceResume, NewChannel, NeverSeen
<1>2. CASE ResumeRun
  BY <1>2, VersionInvResume
<1>3. CASE Crash
  BY <1>3 DEF Crash, VersionInv, VersionsInOrder, GrownSinceResume
<1>4. CASE RequestInterrupt \/ UNCHANGED vars
  BY <1>4 DEF RequestInterrupt, vars, ctxVars, VersionInv, VersionsInOrder, GrownSinceResume
<1> QED
  BY <1>1, <1>2, <1>3, <1>4

LEMMA VersionInvInit == Init => VersionInv
<1> SUFFICES ASSUME Init PROVE VersionInv
  OBVIOUS
<1>1. /\ chan = [c \in ChannelName |-> NewChannel] /\ resumedFrom = 0 /\ declared = graph.declared
      /\ versionsSeen = [n \in Node |-> [c \in ChannelName |-> NeverSeen]] /\ ckpts = <<>>
  BY DEF Init, InitContext
<1> QED
  BY <1>1 DEF VersionInv, VersionsInOrder, GrownSinceResume, NewChannel, NeverSeen

LEMMA VersionInvNext == TypeOK /\ VersionInv /\ [Next]_vars => VersionInv'
BY VersionInvRun, VersionInvPlan, VersionInvWorker DEF Next, EngineStep, LineageOver

\* What the plan of a resumed run rests on: a channel that is available has a version
\* that its node has not seen, unless it is a barrier, which the test lets through.
LEMMA VersionInvImplies == TypeOK /\ VersionInv => VersionGateOpen
<1> SUFFICES ASSUME TypeOK, VersionInv, status = "planning", resumedFrom # 0,
                    NEW c \in Available(chan, mapped), graph.target[c] \in Node,
                    graph.expected[c] = {}
             PROVE  chan[c].version > ckpts[resumedFrom].versionsSeen[graph.target[c]][c]
  BY DEF VersionGateOpen, ShouldTrigger
<1>1. c \in ChannelName /\ chan[c].available /\ resumedFrom \in DOMAIN ckpts
  BY DEF Available, TypeOK, ContextTypeOK
<1>2. ckpts[resumedFrom] \in GateCheckpoint /\ ckpts[resumedFrom] \in CheckpointType
  BY <1>1 DEF VersionInv, TypeOK, ContextTypeOK
<1>3. \/ /\ ckpts[resumedFrom].versionsSeen[graph.target[c]][c] <= ckpts[resumedFrom].versions[c]
         /\ ckpts[resumedFrom].versions[c] < chan[c].version
      \/ ckpts[resumedFrom].versionsSeen[graph.target[c]][c] = NeverSeen
  BY <1>1, <1>2 DEF GateCheckpoint, VersionInv, GrownSinceResume
<1>4. /\ ckpts[resumedFrom].versionsSeen[graph.target[c]][c] \in Int
      /\ ckpts[resumedFrom].versions[c] \in Int /\ chan[c].version \in Nat
  <2>1. /\ ckpts[resumedFrom].versionsSeen \in [Node -> [ChannelName -> Int]]
        /\ ckpts[resumedFrom].versions \in [ChannelName -> Nat]
    BY <1>2 DEF CheckpointType
  <2>2. chan[c] \in ChannelType(Node)
    BY <1>1 DEF TypeOK, ContextTypeOK
  <2> QED
    BY <1>1, <2>1, <2>2 DEF ChannelType
<1> QED
  BY <1>3, <1>4 DEF NeverSeen

\* The version test of resumed runs hides no activation (planBasedOnVersionTriggers): for
\* every graph and every history of crashes, pauses, failures, lost saves and resumes, every
\* channel that is available to a planning run and has a node behind it passes the test.
THEOREM VersionGateOpenAlways == Spec => []VersionGateOpen
<1>1. Init => TypeOK /\ VersionInv
  BY TypeInit, VersionInvInit
<1>2. TypeOK /\ VersionInv /\ [Next]_vars => (TypeOK /\ VersionInv)'
  BY TypeStep, VersionInvNext
<1> QED
  BY <1>1, <1>2, VersionInvImplies, PTL DEF Spec
-----------------------------------------------------------------------------
(***************************************************************************)
(* The promise on runs that start afresh                                   *)
(***************************************************************************)
Active == status \in {"planning", "executing"}

\* The entry node is still to be planned.
AtEntry(n) == IF status = "planning" /\ step = 0 /\ n = graph.entry THEN 1 ELSE 0

\* Every activation that the engine holds for a node, in a channel, in the list of
\* fanned-out tasks or for the entry, is one that the promise counts.
CreditInv ==
  resumedFrom = 0 =>
    /\ duty.excess = {}
    /\ Active =>
         /\ nextNodes = <<>>
         /\ \A c \in ChannelName : chan[c].available => c \in mapped
         /\ status = "planning" /\ step = 0 => pendingTasks = <<>>
         /\ \A n \in Node : Cardinality(Claims(n)) + CountOf(pendingTasks, n) + AtEntry(n)
                              <= duty.credit[n]

\* Where n still waits to be started: as the entry, in the list, in a channel, or behind
\* a join of J.
Waits(J, n) ==
  \/ AtEntry(n) = 1 \/ n \in Range(pendingTasks)
  \/ \E c \in ChannelName : graph.target[c] = n /\ (chan[c].available \/ c \in J)

\* A node that has been triggered and not started waits somewhere, and nowhere but behind
\* a join of J when the run is complete; the other barriers agree with the promise.
OwedInv(J) ==
  resumedFrom = 0 =>
    /\ Active => \A n \in duty.owed : Waits(J, n)
    /\ Active => Agree(J)
    /\ status = "done" =>
         \A n \in duty.owed : \E c \in ChannelName : graph.target[c] = n /\ c \in J

\* On a fresh run a plan takes from channels and list what it starts, and leaves the rest.
LEMMA FreshPlan ==
  ASSUME NEW J, TypeOK, CreditInv, resumedFrom = 0, status = "planning", NEW plan \in Plans,
         chan' = plan.chan, duty'.arrived = duty.arrived
  PROVE  /\ \A n \in Node : /\ CountOf(plan.tasks, n) <= duty.credit[n]
                            /\ Cardinality(Claims(n)') + CountOf(plan.pendingTasks, n)
                                 <= duty.credit[n] - CountOf(plan.tasks, n)
         /\ \A c \in ChannelName : plan.chan[c].available => c \in mapped
         /\ \A n \in duty.owed \ Range(plan.tasks) :
              \/ n \in Range(plan.pendingTasks)
              \/ \E c \in ChannelName : graph.target[c] = n /\
                   (plan.chan[c].available \/ c \in J)
              \/ ~Waits(J, n)
<1>t. /\ duty \in DutyType /\ chan \in [ChannelName -> ChannelType(Node)]
      /\ pendingTasks \in Seq(Node) /\ ContextTypeOK
      /\ \A n \in Node : duty.credit[n] \in Int
  BY DEF TypeOK, ContextTypeOK, DutyType
<1>i. /\ nextNodes = <<>>
      /\ \A c \in ChannelName : chan[c].available => c \in mapped
      /\ step = 0 => pendingTasks = <<>>
      /\ \A n \in Node : Cardinality(Claims(n)) + CountOf(pendingTasks, n) + AtEntry(n)
                           <= duty.credit[n]
  BY DEF CreditInv, Active
<1>f. \A n \in Node : Cardinality(Claims(n)) \in Nat /\ CountOf(pendingTasks, n) \in Nat
                      /\ AtEntry(n) \in {0, 1}
  BY <1>t, ClaimsFinite, CountNat DEF AtEntry
<1>k. \A n \in Node : plan.chan = chan => Claims(n)' = Claims(n)
  BY DEF Claims, Held
<1>1. CASE pendingTasks # <<>>
  <2>1. plan.tasks = pendingTasks /\ plan.chan = chan /\ plan.pendingTasks = <<>>
    BY <1>1, <1>i DEF Plans
  <2>2. \A n \in Node : AtEntry(n) = 0
    BY <1>1, <1>i DEF AtEntry
  <2>3. \A n \in Node : /\ CountOf(plan.tasks, n) <= duty.credit[n]
                        /\ Cardinality(Claims(n)') + CountOf(plan.pendingTasks, n)
                             <= duty.credit[n] - CountOf(plan.tasks, n)
    <3> SUFFICES ASSUME NEW n \in Node
                 PROVE  /\ CountOf(pendingTasks, n) <= duty.credit[n]
                        /\ Cardinality(Claims(n)) + 0 <= duty.credit[n] - CountOf(pendingTasks, n)
      BY <1>k, <2>1, CountEmpty
    <3>1. Cardinality(Claims(n)) + CountOf(pendingTasks, n) <= duty.credit[n]
      BY <1>i, <1>f, <2>2
    <3> QED
      BY <1>f, <1>t, <3>1
  <2>4. \A n \in duty.owed : n \in Node
    BY <1>t DEF DutyType
  <2> QED
    BY <1>i, <2>1, <2>2, <2>3, <2>4 DEF Waits
<1>2. CASE pendingTasks = <<>> /\ step = 0
  <2>1. plan.tasks = <<graph.entry>> /\ plan.chan = chan /\ plan.pendingTasks = <<>>
    BY <1>2, <1>i DEF Plans
  <2>2. \A n \in Node : AtEntry(n) = IF n = graph.entry THEN 1 ELSE 0
    BY <1>2 DEF AtEntry
  <2>3. \A n \in Node : CountOf(<<graph.entry>>, n) = IF n = graph.entry THEN 1 ELSE 0
    BY CountSingle
  <2>4. Range(<<graph.entry>>) = {graph.entry}
    BY DEF Range
  <2>5. \A n \in duty.owed : n \in Node
    BY <1>t DEF DutyType
  <2>6. \A n \in Node : /\ CountOf(plan.tasks, n) <= duty.credit[n]
                        /\ Cardinality(Claims(n)') + CountOf(plan.pendingTasks, n)
                             <= duty.credit[n] - CountOf(plan.tasks, n)
    BY <1>2, <1>i, <1>f, <1>k, <1>t, <2>1, <2>2, <2>3, CountEmpty
  <2> QED
    BY <1>2, <1>i, <2>1, <2>2, <2>4, <2>5, <2>6 DEF Waits
<1>3. CASE pendingTasks = <<>> /\ step # 0
  <2>1. PICK order \in SetToSeqs(Targets(TriggeredBy)) :
          plan = [tasks |-> order, chan |-> AcknowledgedChannels, pendingTasks |-> <<>>]
    BY <1>3, <1>i DEF Plans
  <2>2. Targets(TriggeredBy) \subseteq Node /\ IsFiniteSet(Targets(TriggeredBy))
    <3>1. Targets(TriggeredBy) \subseteq Node
      BY DEF Targets, TriggeredBy
    <3> QED
      BY <3>1, NodesFinite
  <2>3. /\ Range(order) = Targets(TriggeredBy) /\ order \in Seq(Node)
        /\ \A i, j \in DOMAIN order : i # j => order[i] # order[j]
    BY <2>2, SetToSeqsRange, SetToSeqsType
  <2>4. TriggeredBy = {c \in ChannelName : chan[c].available /\ graph.target[c] \in Node}
    <3>1. mapped \subseteq ChannelName
      BY <1>t DEF ContextTypeOK
    <3> QED
      BY <1>i, <3>1 DEF TriggeredBy, Available
  <2>5. \A c \in ChannelName : AcknowledgedChannels[c] =
          IF chan[c].available THEN Acknowledge(chan[c]) ELSE chan[c]
    BY <1>i DEF AcknowledgedChannels
  <2>6. \A c \in ChannelName : Held(c)' => Held(c) /\ ~chan[c].available
    BY <1>t, <2>1, <2>5 DEF Held, Acknowledge, ChannelType
  <2>7. ASSUME NEW n \in Node PROVE Cardinality(Claims(n)') + CountOf(order, n) <= Cardinality(Claims(n))
    <3>1. Claims(n)' \subseteq Claims(n) /\ IsFiniteSet(Claims(n))
      BY <2>6, ClaimsFinite DEF Claims
    <3>2. /\ Cardinality(Claims(n)') \in Nat /\ Cardinality(Claims(n)') <= Cardinality(Claims(n))
          /\ \A c \in Claims(n) : c \notin Claims(n)' =>
               Cardinality(Claims(n)') + 1 <= Cardinality(Claims(n))
      BY <3>1, ProperSubset
    <3>3. CountOf(order, n) \in Nat /\ CountOf(order, n) <= 1
      BY <2>3, CountDistinct, CountNat
    <3>4. CASE CountOf(order, n) = 0
      BY <1>f, <3>2, <3>4
    <3>5. CASE CountOf(order, n) = 1
      <4>1. n \in Targets(TriggeredBy)
        BY <2>3, <3>5, CountPositive
      <4>2. PICK c \in ChannelName : chan[c].available /\ graph.target[c] = n
        BY <2>4, <4>1 DEF Targets
      <4>3. c \in Claims(n) /\ c \notin Claims(n)'
        BY <2>6, <4>2 DEF Claims, Held
      <4> QED
        BY <1>f, <3>2, <3>5, <4>3
    <3> QED
      BY <3>3, <3>4, <3>5
  <2>8. \A n \in Node : CountOf(plan.pendingTasks, n) = 0 /\ CountOf(pendingTasks, n) = 0
    BY <1>3, <2>1, CountEmpty
  <2>9. \A n \in Node : CountOf(order, n) \in Nat /\ Cardinality(Claims(n)') \in Nat
    <3>1. \A n \in Node : Claims(n)' \subseteq Claims(n) /\ IsFiniteSet(Claims(n))
      BY <2>6, ClaimsFinite DEF Claims
    <3>2. \A n \in Node : Cardinality(Claims(n)') \in Nat
      BY <3>1, ProperSubset
    <3> QED
      BY <2>3, <3>2, CountNat
  <2>10. \A n \in Node : /\ CountOf(plan.tasks, n) <= duty.credit[n]
                         /\ Cardinality(Claims(n)') + CountOf(plan.pendingTasks, n)
                              <= duty.credit[n] - CountOf(plan.tasks, n)
    <3> SUFFICES ASSUME NEW n \in Node
                 PROVE  /\ CountOf(order, n) <= duty.credit[n]
                        /\ Cardinality(Claims(n)') + 0 <= duty.credit[n] - CountOf(order, n)
      BY <2>1, <2>8
    <3>1. Cardinality(Claims(n)) <= duty.credit[n]
      BY <1>i, <1>f, <1>t, <2>8
    <3>2. Cardinality(Claims(n)') + CountOf(order, n) <= duty.credit[n]
      BY <1>f, <1>t, <2>7, <2>9, <3>1
    <3> QED
      BY <1>t, <2>9, <3>2
  <2>11. \A c \in ChannelName : plan.chan[c].available => c \in mapped
    BY <1>i, <1>t, PlanLeavesVersions
  <2>12. ASSUME NEW n \in duty.owed \ Range(plan.tasks), Waits(J, n)
         PROVE  \E c \in ChannelName : graph.target[c] = n /\
                  (plan.chan[c].available \/ c \in J)
    <3>1. n \in Node /\ n \notin Targets(TriggeredBy)
      BY <1>t, <2>1, <2>3, <2>12 DEF DutyType
    <3>2. \A c \in ChannelName : graph.target[c] = n => ~chan[c].available
      BY <2>4, <3>1 DEF Targets
    <3>3. n \notin Range(pendingTasks) /\ AtEntry(n) = 0
      BY <1>3 DEF Range, AtEntry
    <3> QED
      BY <2>12, <3>2, <3>3 DEF Waits
  <2> QED
    BY <2>10, <2>11, <2>12
<1> QED
  BY <1>1, <1>2, <1>3

\* Steps that touch neither the channels, nor the list, nor the promise keep both.
LEMMA FreshUnchanged ==
  ASSUME NEW J, TypeOK, CreditInv, OwedInv(J), resumedFrom' = resumedFrom,
         UNCHANGED <<chan, nextNodes, pendingTasks>>, mapped' = mapped,
         duty'.excess = duty.excess, duty'.arrived = duty.arrived,
         duty'.credit = duty.credit, duty'.owed = duty.owed,
         \/ ~Active' /\ status' # "done"
         \/ status' = status /\ step' = step
         \/ status = "executing" /\ status' = "planning" /\ step' > 0
  PROVE  CreditInv' /\ OwedInv(J)'
<1>1. \A n \in Node : Claims(n)' = Claims(n)
  BY DEF Claims, Held
<1>2. CASE ~Active' /\ status' # "done"
  BY <1>2 DEF CreditInv, OwedInv
<1>3. CASE status' = status /\ step' = step
  BY <1>1, <1>3 DEF CreditInv, OwedInv, Active, AtEntry, Waits, Agree
<1>4. CASE status = "executing" /\ status' = "planning" /\ step' > 0
  <2>1. \A n \in Node : AtEntry(n) = 0 /\ AtEntry(n)' = 0
    BY <1>4 DEF AtEntry
  <2>2. duty.owed \subseteq Node
    BY DEF TypeOK, ContextTypeOK, DutyType
  <2>3. step' # 0
    BY <1>4
  <2> QED
    BY <1>1, <1>4, <2>1, <2>2, <2>3 DEF CreditInv, OwedInv, Active, Waits, Agree
<1> QED
  BY <1>2, <1>3, <1>4

\* A fresh start owes the entry node and nothing else.
LEMMA FreshRun ==
  ASSUME NEW J, TypeOK, CreditInv, OwedInv(J),
         StartRun \/ ResumeRun \/ Crash \/ RequestInterrupt \/ UNCHANGED vars
  PROVE  CreditInv' /\ OwedInv(J)'
<1>1. CASE StartRun
  <2>1. PICK saved \in BOOLEAN : FreshContext(saved)
    BY <1>1 DEF StartRun
  <2>2. resumedFrom = 0
    BY <1>1 DEF StartRun, TypeOK, ContextTypeOK
  <2>3. /\ duty'.excess = {} /\ duty'.owed = {graph.entry}
        /\ duty'.arrived = [c \in ChannelName |-> {}]
        /\ duty'.credit = [n \in Node |-> IF n = graph.entry THEN 1 ELSE 0]
    BY <2>1, <2>2 DEF FreshContext, InitialDuty, CreditInv
  <2>4. /\ chan' = [c \in ChannelName |-> NewChannel] /\ nextNodes' = <<>> /\ pendingTasks' = <<>>
        /\ status' = "planning" /\ step' = 0
    BY <1>1, <2>1 DEF FreshContext, StartRun
  <2>5. \A c \in ChannelName : ~Held(c)' /\ ~chan'[c].available
    BY <2>3, <2>4 DEF Held, NewChannel
  <2>6. ASSUME NEW n \in Node
        PROVE Cardinality(Claims(n)') + CountOf(pendingTasks', n) + AtEntry(n)' <= duty'.credit[n]
    <3>1. Claims(n)' = {}
      BY <2>5 DEF Claims
    <3>2. Cardinality(Claims(n)') = 0 /\ CountOf(pendingTasks', n) = 0
      BY <2>4, <3>1, FS_EmptySet, CountEmpty
    <3>3. AtEntry(n)' = duty'.credit[n] /\ duty'.credit[n] \in Int
      BY <2>3, <2>4 DEF AtEntry
    <3> QED
      BY <3>2, <3>3
  <2>7. CreditInv'
    BY <2>3, <2>4, <2>5, <2>6 DEF CreditInv
  <2>8. OwedInv(J)'
    BY <2>3, <2>4 DEF OwedInv, Waits, AtEntry, Agree, NewChannel
  <2> QED
    BY <2>7, <2>8
<1>2. CASE ResumeRun
  <2>1. PICK k \in DOMAIN ckpts : ResumeContext(k, SeedNodes(ckpts[k]))
    BY <1>2 DEF ResumeRun
  <2>2. k # 0
    BY DEF TypeOK, ContextTypeOK
  <2>3. resumedFrom' # 0
    BY <2>1, <2>2 DEF ResumeContext
  <2> QED
    BY <2>3 DEF CreditInv, OwedInv
<1>3. CASE Crash
  BY <1>3 DEF Crash, CreditInv, OwedInv, Active
<1>4. CASE RequestInterrupt
  BY <1>4, FreshUnchanged DEF RequestInterrupt, ctxVars
<1>5. CASE UNCHANGED vars
  BY <1>5, FreshUnchanged DEF vars, ctxVars, engineVars
<1> QED
  BY <1>1, <1>2, <1>3, <1>4, <1>5

\* The planning steps.
LEMMA FreshPlanStep ==
  ASSUME NEW J, TypeOK, CreditInv, OwedInv(J),
         UseUpSteps \/ Stop \/ PauseBeforeStep \/ BreakBeforeStep \/ ExecuteStep
  PROVE  CreditInv' /\ OwedInv(J)'
<1>t. ContextTypeOK /\ duty \in DutyType
  BY DEF TypeOK, ContextTypeOK
<1>0. CASE resumedFrom' # 0
  BY <1>0 DEF CreditInv, OwedInv
<1>1. CASE UseUpSteps
  BY <1>1, FreshUnchanged DEF UseUpSteps, ctxVars, Active
<1>2. CASE Stop /\ resumedFrom' = 0
  <2>1. PICK plan \in Plans : TakePlan(plan) /\ plan.tasks = <<>>
    BY <1>2 DEF Stop
  <2>2. /\ status = "planning" /\ status' = "done" /\ resumedFrom = 0 /\ duty' = duty
        /\ chan' = plan.chan
    BY <1>2, <2>1 DEF Stop, TakePlan
  <2>3. CreditInv'
    BY <2>2 DEF CreditInv, Active
  <2>4. ASSUME NEW n \in duty.owed
        PROVE \E c \in ChannelName : graph.target[c] = n /\ c \in J
    <3>1. Waits(J, n) /\ n \in Node /\ n \notin Range(plan.tasks)
      BY <1>t, <2>1, <2>2 DEF OwedInv, Active, DutyType, Range
    <3>2. nextNodes = <<>> /\ pendingTasks = <<>> /\ step # 0
      <4>1. nextNodes = <<>>
        BY <2>2 DEF CreditInv, Active
      <4>2. <<graph.entry>> # <<>>
        OBVIOUS
      <4>3. pendingTasks = <<>>
        <5> SUFFICES ASSUME pendingTasks # <<>> PROVE FALSE
          OBVIOUS
        <5>1. plan.tasks = pendingTasks
          BY <4>1 DEF Plans
        <5> QED
          BY <2>1, <5>1
      <4>4. step # 0
        <5> SUFFICES ASSUME step = 0 PROVE FALSE
          OBVIOUS
        <5>1. plan.tasks = <<graph.entry>>
          BY <4>1, <4>3 DEF Plans
        <5> QED
          BY <2>1, <4>2, <5>1
      <4> QED
        BY <4>1, <4>3, <4>4
    <3>3. \E c \in ChannelName : graph.target[c] = n /\
            (plan.chan[c].available \/ c \in J)
      <4>1. plan.pendingTasks = <<>>
        BY <3>2 DEF Plans
      <4>2. n \notin Range(plan.pendingTasks)
        BY <4>1 DEF Range
      <4> QED
        BY <2>2, <3>1, <4>2, FreshPlan
    <3>4. plan.chan = AcknowledgedChannels
      BY <3>2 DEF Plans
    <3>5. \A c \in ChannelName : ~plan.chan[c].available
      BY <1>t, <2>2, <3>4 DEF AcknowledgedChannels, Acknowledge, CreditInv, Active,
                               ContextTypeOK, ChannelType
    <3> QED
      BY <3>3, <3>5
  <2>5. OwedInv(J)'
    BY <2>2, <2>4 DEF OwedInv, Active
  <2> QED
    BY <2>3, <2>5
<1>3. CASE PauseBeforeStep
  BY <1>3 DEF PauseBeforeStep, CreditInv, OwedInv, Active
<1>4. CASE BreakBeforeStep
  <2>1. duty'.excess = duty.excess
    BY <1>4, <1>t DEF BreakBeforeStep, StopBefore, DutyType
  <2> QED
    BY <1>4, <2>1 DEF BreakBeforeStep, CreditInv, OwedInv, Active
<1>5. CASE ExecuteStep /\ resumedFrom' = 0
  <2>1. PICK plan \in Plans : TakePlan(plan) /\ duty' = Begin(duty, plan.tasks)
    BY <1>5 DEF ExecuteStep
  <2>2. /\ status = "planning" /\ status' = "executing" /\ resumedFrom = 0
        /\ chan' = plan.chan /\ pendingTasks' = plan.pendingTasks /\ nextNodes' = <<>>
        /\ mapped' = mapped
    BY <1>5, <2>1 DEF ExecuteStep, TakePlan
  <2>3. plan.tasks \in Seq(Node)
    BY <1>t, PlanType
  <2>4. duty'.arrived = duty.arrived
    BY <1>t, <2>1 DEF Begin, DutyType
  <2>5. /\ \A n \in Node : /\ CountOf(plan.tasks, n) <= duty.credit[n]
                           /\ Cardinality(Claims(n)') + CountOf(plan.pendingTasks, n)
                                <= duty.credit[n] - CountOf(plan.tasks, n)
        /\ \A c \in ChannelName : plan.chan[c].available => c \in mapped
        /\ \A n \in duty.owed \ Range(plan.tasks) :
             \/ n \in Range(plan.pendingTasks)
             \/ \E c \in ChannelName : graph.target[c] = n /\
                  (plan.chan[c].available \/ c \in J)
             \/ ~Waits(J, n)
    BY <2>2, <2>4, FreshPlan
  <2>6. /\ duty'.excess = duty.excess /\ duty'.owed = duty.owed \ Range(plan.tasks)
        /\ \A n \in Node : duty'.credit[n] = duty.credit[n] - CountOf(plan.tasks, n)
    BY <1>t, <2>1, <2>3, <2>5, BeginEffect
  <2>7. \A n \in Node : /\ AtEntry(n)' = 0 /\ CountOf(plan.pendingTasks, n) \in Nat
                        /\ Cardinality(Claims(n)') \in Nat
    <3>1. \A n \in Node : CountOf(plan.pendingTasks, n) \in Nat
      BY <1>t, PlanType, CountNat
    <3>2. \A n \in Node : Claims(n)' \subseteq ChannelName
      BY DEF Claims
    <3>3. \A n \in Node : Cardinality(Claims(n)') \in Nat
      BY <3>2, GraphAssumption, ProperSubset DEF ChannelName
    <3> QED
      BY <2>2, <3>1, <3>3 DEF AtEntry
  <2>8. \A n \in Node : Cardinality(Claims(n)') + CountOf(pendingTasks', n) + AtEntry(n)'
                          <= duty'.credit[n]
    <3> SUFFICES ASSUME NEW n \in Node
                 PROVE Cardinality(Claims(n)') + CountOf(pendingTasks', n) + AtEntry(n)'
                          <= duty'.credit[n]
      OBVIOUS
    <3>1. Cardinality(Claims(n)') + CountOf(pendingTasks', n) <= duty'.credit[n]
      BY <2>2, <2>5, <2>6
    <3> QED
      BY <2>2, <2>7, <3>1
  <2>9. CreditInv'
    BY <2>2, <2>5, <2>6, <2>8 DEF CreditInv, Active
  <2>10. OwedInv(J)'
    <3>1. (\A n \in duty.owed : Waits(J, n)) /\ Agree(J)
      BY <2>2 DEF OwedInv, Active
    <3>2. Agree(J)'
      <4>1. plan.chan = chan \/ plan.chan = AcknowledgedChannels
        BY DEF Plans
      <4>2. \A c \in ChannelName : \/ chan'[c] = chan[c]
                                   \/ chan[c].available /\ chan'[c] = Acknowledge(chan[c])
        BY <2>2, <4>1 DEF AcknowledgedChannels
      <4> QED
        BY <1>t, <2>4, <3>1, <4>2, AcknowledgeAgrees
    <3> QED
      BY <2>2, <2>5, <2>6, <3>1, <3>2 DEF OwedInv, Active, Waits
  <2> QED
    BY <2>9, <2>10
<1> QED
  BY <1>0, <1>1, <1>2, <1>3, <1>4, <1>5

\* The workers: a fan-out is counted in the list and in the promise, a write is counted in
\* a channel only when the promise counts it.
LEMMA FreshWorker ==
  ASSUME NEW J, TypeOK, CreditInv, OwedInv(J), NEW i \in DOMAIN tasks,
         WorkerStep(i), StartsOnce(J)
  PROVE  CreditInv' /\ OwedInv(J)'
<1>t. /\ ContextTypeOK /\ duty \in DutyType /\ tasks[i] \in Node /\ work[i] \in Work
      /\ pendingTasks \in Seq(Node) /\ chan \in [ChannelName -> ChannelType(Node)]
      /\ \A n \in Node : duty.credit[n] \in Int
  BY DEF TypeOK, ContextTypeOK, DutyType
<1>0. CASE resumedFrom' # 0
  BY <1>0 DEF CreditInv, OwedInv
<1>1. CASE \/ StartTask(i) \/ FinishTask(i) \/ CompleteTask(i) \/ FailTask(i)
          \/ FailBehindResult(i)
  BY <1>1, FreshUnchanged DEF StartTask, FinishTask, CompleteTask, FailTask,
       FailBehindResult, Fail, ctxVars
<1>f. \A n \in Node : Cardinality(Claims(n)) \in Nat /\ CountOf(pendingTasks, n) \in Nat
  BY <1>t, ClaimsFinite, CountNat
<1>2. CASE HandleNodeResult(i) /\ resumedFrom' = 0
  <2>1. PICK r \in Results(tasks[i]) :
          pendingTasks' = pendingTasks \o r.spawn /\ duty' = Owe(duty, r.spawn)
    BY <1>2 DEF HandleNodeResult
  <2>2. r.spawn \in Seq(Node) /\ r.spawn \in Seq(Node \cup {End})
    BY <1>t, ResultsType
  <2>3. /\ duty'.owed = duty.owed \cup (Range(r.spawn) \cap Node)
        /\ \A n \in Node : duty'.credit[n] = duty.credit[n] + CountOf(r.spawn, n)
        /\ duty'.arrived = duty.arrived /\ duty'.excess = duty.excess
    BY <1>t, <2>1, <2>2, OweEffect
  <2>4. /\ status = "executing" /\ status' = "executing" /\ chan' = chan /\ mapped' = mapped
        /\ nextNodes' = nextNodes /\ resumedFrom = 0
    BY <1>2 DEF HandleNodeResult
  <2>5. \A n \in Node : Claims(n)' = Claims(n) /\ AtEntry(n) = 0 /\ AtEntry(n)' = 0
    BY <2>3, <2>4 DEF Claims, Held, AtEntry
  <2>6. \A n \in Node : /\ CountOf(pendingTasks', n) = CountOf(pendingTasks, n) + CountOf(r.spawn, n)
                        /\ CountOf(r.spawn, n) \in Nat
    BY <1>t, <2>1, <2>2, CountConcat, CountNat
  <2>7. \A n \in Node : Cardinality(Claims(n)') + CountOf(pendingTasks', n) + AtEntry(n)'
                          <= duty'.credit[n]
    <3> SUFFICES ASSUME NEW n \in Node
                 PROVE Cardinality(Claims(n)) + CountOf(pendingTasks', n) + 0 <= duty'.credit[n]
      BY <2>5
    <3>1. Cardinality(Claims(n)) + CountOf(pendingTasks, n) + 0 <= duty.credit[n]
      BY <2>4, <2>5 DEF CreditInv, Active
    <3> QED
      BY <1>f, <1>t, <2>3, <2>6, <3>1
  <2>8. Range(pendingTasks') = Range(pendingTasks) \cup Range(r.spawn)
    <3>1. \A k \in DOMAIN pendingTasks : k \in DOMAIN pendingTasks' /\ pendingTasks'[k] = pendingTasks[k]
      BY <1>t, <2>1, <2>2
    <3>2. \A k \in DOMAIN r.spawn : /\ k + Len(pendingTasks) \in DOMAIN pendingTasks'
                                    /\ pendingTasks'[k + Len(pendingTasks)] = r.spawn[k]
      BY <1>t, <2>1, <2>2
    <3>3. \A k \in DOMAIN pendingTasks' :
            \/ k \in DOMAIN pendingTasks /\ pendingTasks'[k] = pendingTasks[k]
            \/ /\ k - Len(pendingTasks) \in DOMAIN r.spawn
               /\ pendingTasks'[k] = r.spawn[k - Len(pendingTasks)]
      BY <1>t, <2>1, <2>2
    <3> QED
      BY <3>1, <3>2, <3>3 DEF Range
  <2>9. CreditInv'
    BY <2>3, <2>4, <2>7 DEF CreditInv, Active
  <2>10. OwedInv(J)'
    <3>1. \A n \in duty.owed : Waits(J, n)
      BY <2>4 DEF OwedInv, Active
    <3>2. \A n \in duty.owed : n \in Node
      BY <1>t DEF DutyType
    <3>3. Agree(J)'
      BY <2>3, <2>4 DEF OwedInv, Active, Agree
    <3> QED
      BY <2>3, <2>4, <2>5, <2>8, <3>1, <3>2, <3>3 DEF OwedInv, Active, Waits
  <2> QED
    BY <2>9, <2>10
<1>3. CASE WriteNext(i) /\ resumedFrom' = 0
  <2> DEFINE c == Head(work[i].todo)
  <2>1. c \in ChannelName
    BY <1>3, <1>t DEF WriteNext, Work
  <2>2. /\ WriteChannel(tasks[i], c) /\ duty' = Send(duty, c, tasks[i])
        /\ status = "executing" /\ status' = "executing" /\ step' = step
        /\ nextNodes' = nextNodes /\ pendingTasks' = pendingTasks /\ resumedFrom = 0
    BY <1>3 DEF WriteNext
  <2> HIDE DEF c
  <2>3. /\ chan' = [chan EXCEPT ![c] = Update(chan[c], graph.expected[c], tasks[i])]
        /\ mapped' = mapped \cup {c}
    BY <2>2 DEF WriteChannel
  <2>4. duty'.excess = duty.excess
    BY <1>t, <2>1, <2>2, SendLeaves
  <2>5. \A n \in Node : Cardinality(Claims(n)') - Cardinality(Claims(n)) <= duty'.credit[n] - duty.credit[n]
    <3> SUFFICES ASSUME NEW n \in Node
                 PROVE Cardinality(Claims(n)') - Cardinality(Claims(n)) <= duty'.credit[n] - duty.credit[n]
      OBVIOUS
    <3>1. duty'.credit[n] - duty.credit[n] >= Cardinality(Claims(n)') - Cardinality(Claims(n))
      BY <1>t, <2>1, <2>2, SendKeepsClaims
    <3> QED
      BY <3>1
  <2>6. \A n \in Node : /\ AtEntry(n) = 0 /\ AtEntry(n)' = 0
                        /\ duty'.credit[n] \in Int /\ Cardinality(Claims(n)') \in Nat
    <3>1. \A n \in Node : duty'.credit[n] \in Int
      BY <1>t, <2>1, <2>2, SendType DEF DutyType
    <3>2. \A n \in Node : Claims(n)' \subseteq ChannelName
      BY DEF Claims
    <3>3. \A n \in Node : Cardinality(Claims(n)') \in Nat
      BY <3>2, GraphAssumption, ProperSubset DEF ChannelName
    <3> QED
      BY <2>2, <3>1, <3>3 DEF AtEntry
  <2>7. \A n \in Node : Cardinality(Claims(n)') + CountOf(pendingTasks', n) + AtEntry(n)'
                          <= duty'.credit[n]
    <3> SUFFICES ASSUME NEW n \in Node
                 PROVE Cardinality(Claims(n)') + CountOf(pendingTasks, n) + 0 <= duty'.credit[n]
      BY <2>2, <2>6
    <3>1. Cardinality(Claims(n)) + CountOf(pendingTasks, n) + 0 <= duty.credit[n]
      BY <2>2, <2>6 DEF CreditInv, Active
    <3> QED
      BY <1>f, <1>t, <2>5, <2>6, <3>1
  <2>8. \A d \in ChannelName : /\ d # c => chan'[d] = chan[d]
                               /\ chan'[d].available => d \in mapped'
    BY <1>t, <2>1, <2>2, <2>3 DEF CreditInv, Active
  <2>9. CreditInv'
    BY <2>2, <2>4, <2>7, <2>8 DEF CreditInv, Active
  <2>10. Agree(J)' /\ (Fires(duty, c, tasks[i]) => chan'[c].available \/ c \in J)
    <3>1. Agree(J)
      BY <2>2 DEF OwedInv, Active
    <3> QED
      BY <1>t, <2>1, <2>2, <3>1, SendAgrees
  <2>11. /\ Fires(duty, c, tasks[i]) => duty'.owed \subseteq duty.owed \cup {graph.target[c]}
         /\ ~Fires(duty, c, tasks[i]) => duty'.owed = duty.owed
    BY <1>t, <2>1, <2>2, SendCredits
  <2>13. c \notin J /\ chan[c].available => chan'[c].available
    BY <1>t, <2>1, <2>2, <2>3 DEF StartsOnce, StartRepeats, Update, BarrierSatisfied
  <2>12. OwedInv(J)'
    <3>1. \A n \in duty.owed : Waits(J, n) /\ AtEntry(n) = 0
      BY <1>t, <2>2, <2>6 DEF OwedInv, Active, DutyType
    <3>2. ASSUME NEW n \in duty'.owed PROVE Waits(J, n)'
      <4>1. CASE n = graph.target[c] /\ Fires(duty, c, tasks[i])
        BY <2>1, <2>10, <4>1 DEF Waits
      <4>2. CASE ~(n = graph.target[c] /\ Fires(duty, c, tasks[i]))
        <5>1. Waits(J, n) /\ AtEntry(n) = 0
          BY <2>11, <3>1, <3>2, <4>2
        <5>2. CASE n \in Range(pendingTasks)
          BY <2>2, <5>2 DEF Waits
        <5>3. CASE n \notin Range(pendingTasks)
          <6>1. PICK d \in ChannelName : graph.target[d] = n /\ (chan[d].available \/ d \in J)
            BY <5>1, <5>3 DEF Waits
          <6>2. chan'[d].available \/ d \in J
            BY <2>1, <2>8, <2>13, <6>1
          <6> QED
            BY <6>1, <6>2 DEF Waits
        <5> QED
          BY <5>2, <5>3
      <4> QED
        BY <4>1, <4>2
    <3> QED
      BY <2>2, <2>10, <3>2 DEF OwedInv, Active
  <2> QED
    BY <2>9, <2>12
<1> QED
  BY <1>0, <1>1, <1>2, <1>3 DEF WorkerStep

\* The ends of a step.
LEMMA FreshEnd ==
  ASSUME NEW J, TypeOK, CreditInv, OwedInv(J),
         InterruptStep \/ ForceInterruptStep \/ FailStep \/ BreakAfterStep \/ NextStep
  PROVE  CreditInv' /\ OwedInv(J)'
<1>1. /\ resumedFrom' = resumedFrom /\ UNCHANGED <<chan, nextNodes, pendingTasks>>
      /\ mapped' = mapped /\ duty' = duty
  BY DEF InterruptStep, ForceInterruptStep, FailStep, BreakAfterStep, NextStep, ctxVars
<1>2. CASE InterruptStep \/ ForceInterruptStep \/ FailStep \/ BreakAfterStep
  <2>1. ~Active' /\ status' # "done"
    BY <1>2 DEF InterruptStep, ForceInterruptStep, FailStep, BreakAfterStep, Active
  <2> QED
    BY <1>1, <2>1, FreshUnchanged
<1>3. CASE NextStep
  <2>1. status = "executing" /\ status' = "planning" /\ step' > 0
    BY <1>3 DEF NextStep, StepOver, TypeOK
  <2> QED
    BY <1>1, <2>1, FreshUnchanged
<1> QED
  BY <1>2, <1>3

LEMMA FreshInit == ASSUME NEW J PROVE Init => CreditInv /\ OwedInv(J)
<1> SUFFICES ASSUME Init PROVE CreditInv /\ OwedInv(J)
  OBVIOUS
<1>1. duty.excess = {} /\ status = "idle"
  BY DEF Init, InitContext, InitialDuty
<1> QED
  BY <1>1 DEF CreditInv, OwedInv, Active

LEMMA FreshNext ==
  ASSUME NEW J, TypeOK, CreditInv, OwedInv(J), [Next]_vars, [StartsOnce(J)]_vars
  PROVE  CreditInv' /\ OwedInv(J)'
<1>1. CASE UNCHANGED vars
  BY <1>1, FreshRun
<1>2. CASE Next /\ StartsOnce(J)
  BY <1>2, FreshRun, FreshPlanStep, FreshWorker, FreshEnd DEF Next, EngineStep, LineageOver
<1> QED
  BY <1>1, <1>2

FreshInv(J) == TypeOK /\ CreditInv /\ OwedInv(J)

\* They hold as long as no start of a join outside J completes again too early.
LEMMA FreshInvInductive ==
  ASSUME NEW J
  PROVE  /\ Init => FreshInv(J)
         /\ FreshInv(J) /\ [Next]_vars /\ [StartsOnce(J)]_vars => FreshInv(J)'
<1>1. Init => FreshInv(J)
  BY TypeInit, FreshInit DEF FreshInv
<1>2. FreshInv(J) /\ [Next]_vars /\ [StartsOnce(J)]_vars => FreshInv(J)'
  BY TypeStep, FreshNext DEF FreshInv
<1> QED
  BY <1>1, <1>2

\* Until a checkpoint is resumed no node starts without an activation to account for it:
\* for every graph, with joins, loops, routes, fan-outs and breakpoints, whatever the order
\* in which the tasks of a superstep write. (With resumes it is a matter of the graph, and
\* the runs check it on some.)
THEOREM NothingRepeatedFresh == Spec => [](resumedFrom = 0 => NothingRepeated)
<1>1. FreshInv(ChannelName) => (resumedFrom = 0 => NothingRepeated)
  BY DEF FreshInv, CreditInv, NothingRepeated
<1>2. [StartsOnce(ChannelName)]_vars
  BY DEF StartsOnce
<1>3. /\ Init => FreshInv(ChannelName)
      /\ FreshInv(ChannelName) /\ [Next]_vars /\ [StartsOnce(ChannelName)]_vars
           => FreshInv(ChannelName)'
  BY FreshInvInductive
<1> QED
  BY <1>1, <1>2, <1>3, PTL DEF Spec

\* When a run that started afresh reports completion, every node that was triggered has
\* started, for every graph, but for the targets of joins a start of which has completed
\* again while the barrier was full: the barrier forgets that completion when it is
\* acknowledged (Update, Acknowledge).  J is any set that holds all joins to which that
\* happens in a behaviour.
THEOREM OnlyRepeatedJoinsLose ==
  ASSUME NEW J \in SUBSET ChannelName
  PROVE  Spec /\ [][StartsOnce(J)]_vars =>
           [](resumedFrom = 0 /\ status = "done" =>
                \A n \in duty.owed : \E c \in J : graph.target[c] = n)
<1> DEFINE Lost == \A n \in duty.owed : \E c \in J : graph.target[c] = n
<1>1. FreshInv(J) => (resumedFrom = 0 /\ status = "done" => Lost)
  BY DEF FreshInv, OwedInv
<1>2. /\ Init => FreshInv(J)
      /\ FreshInv(J) /\ [Next]_vars /\ [StartsOnce(J)]_vars => FreshInv(J)'
  BY FreshInvInductive
<1> HIDE DEF Lost
<1>3. Spec /\ [][StartsOnce(J)]_vars => [](resumedFrom = 0 /\ status = "done" => Lost)
  BY <1>1, <1>2, PTL DEF Spec
<1> QED
  BY <1>3 DEF Lost

\* A fresh run in which no start of a join completes again while the barrier is full loses
\* nothing.
THEOREM NothingLostUnrepeated ==
  Spec /\ [][StartsOnce({})]_vars => [](resumedFrom = 0 => NothingLost)
<1>1. FreshInv({}) => (resumedFrom = 0 => NothingLost)
  BY DEF FreshInv, OwedInv, NothingLost
<1>2. /\ Init => FreshInv({})
      /\ FreshInv({}) /\ [Next]_vars /\ [StartsOnce({})]_vars => FreshInv({})'
  BY FreshInvInductive
<1> QED
  BY <1>1, <1>2, PTL DEF Spec

\* So nothing is lost on a fresh run of a graph without joins.
THEOREM NothingLostFresh ==
  ASSUME \A c \in ChannelName : graph.expected[c] = {}
  PROVE  Spec => [](resumedFrom = 0 => NothingLost)
<1>1. [StartsOnce({})]_vars
  BY DEF StartsOnce, StartRepeats
<1> QED
  BY <1>1, NothingLostUnrepeated, PTL
=============================================================================
