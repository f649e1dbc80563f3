-------------------------- MODULE DagPromiseProofs --------------------------
(***************************************************************************)
(* Proofs about what DagExecutor owes to the graph and to its caller: a    *)
(* breakpoint pauses once, the loop waits for somebody, and a fresh run    *)
(* starts what the edges trigger, no more and no less.                     *)
(***************************************************************************)
EXTENDS DagProofs

(***************************************************************************)
(* A breakpoint pauses the lineage once                                    *)
(***************************************************************************)

\* The lineage has stopped at the breakpoint of at most one node, the first of those
\* that run next, and this node is marked.
FirstToPass(d, sk, next) ==
  d.stopped # {} => next # <<>> /\ d.stopped = {Head(next)} /\ Head(next) \in sk

PassingCheckpoint ==
  {ck \in CheckpointType : /\ FirstToPass(ck.promise, ck.skips, ck.nextNodes)
                           /\ ck.promise.stopped # {} => ck.pendingWrites = {}}

\* In a run nothing is in flight unless the loop drains when it is about to pass a
\* breakpoint; the mark is only used up by a start, or by a run that has used up its steps
\* and will neither start nor save anything.
PassingRun ==
  duty.stopped # {} =>
    /\ ready # <<>> /\ duty.stopped = {Head(ready)}
    /\ draining \/ LiveSteps = {}
    /\ \/ Head(ready) \in skips /\ ~drainMaxStep
       \/ draining /\ ~pendingIntr.set
    /\ pendingIntr.set => pendingIntr.node \in {Head(ready), End}

BreakInv ==
  /\ duty.restopped = {}
  /\ status = "running" => PassingRun /\ (pendingIntr.set \/ drainMaxStep => draining)
  /\ ckpts \in Seq(PassingCheckpoint)

\* The first of the executable entries is the first entry, when that is a node.
LEMMA ExecutableHead ==
  ASSUME NEW s \in Seq(Node \cup {End}), s # <<>>, Head(s) \in Node, NEW q \in Executable(s)
  PROVE  q # <<>> /\ Head(q) = Head(s)
<1> DEFINE kept == {i \in DOMAIN s : s[i] \in Node}
<1>1. IsFiniteSet(kept)
  BY FS_Interval, FS_Subset, kept \subseteq DOMAIN s
<1>2. Cardinality(kept) \in Nat
  BY <1>1, FS_CardinalityType
<1>3. PICK pos \in [1..Cardinality(kept) -> kept] :
        /\ \A i, j \in 1..Cardinality(kept) : i < j => pos[i] < pos[j]
        /\ q = [i \in 1..Cardinality(kept) |-> s[pos[i]]]
  BY DEF Executable
<1>4. \A i, j \in 1..Cardinality(kept) : i # j => pos[i] # pos[j]
  <2> SUFFICES ASSUME NEW i \in 1..Cardinality(kept), NEW j \in 1..Cardinality(kept), i # j
               PROVE  pos[i] # pos[j]
    OBVIOUS
  <2>1. pos[i] \in Nat /\ pos[j] \in Nat
    OBVIOUS
  <2>2. i < j \/ j < i
    OBVIOUS
  <2> QED
    BY <1>3, <2>1, <2>2
<1>5. 1 \in kept /\ \A i \in kept : i \in Nat /\ i >= 1
  OBVIOUS
<1>6. s[1] = Head(s)
  OBVIOUS
<1> HIDE DEF kept
<1>7. Range(pos) = kept
  BY <1>1, <1>4, DistinctListOnto
<1>8. PICK j \in 1..Cardinality(kept) : pos[j] = 1
  BY <1>5, <1>7 DEF Range
<1>9. 1 \in 1..Cardinality(kept)
  BY <1>2, <1>8
<1>10. pos[1] = 1
  <2>1. pos[1] \in kept
    BY <1>9
  <2> QED
    BY <1>3, <1>5, <1>8, <1>9, <2>1
<1>11. q \in Seq(Node)
  BY ExecutableType
<1>12. 1 \in DOMAIN q /\ q[1] = s[1]
  BY <1>3, <1>9, <1>10
<1> QED
  BY <1>6, <1>11, <1>12

\* A checkpoint of a kind that is added to others of that kind, or lost.
LEMMA SavedAmong ==
  ASSUME NEW S, ckpts \in Seq(S), NEW ck \in S, NEW saved \in BOOLEAN,
         ckpts' = IF saved THEN Append(ckpts, ck) ELSE ckpts
  PROVE  ckpts' \in Seq(S)
OBVIOUS

\* A goroutine that takes a step is alive before and after it, and leaves the loop alone.
LEMMA GoroutineLives ==
  ASSUME DagInv, NEW s \in Steps, GoroutineStep(s)
  PROVE  /\ status = "running" /\ worker[s].phase \in Live /\ worker[s].node \in Node
         /\ LiveSteps # {} /\ LiveSteps' # {}
         /\ UNCHANGED <<status, pc, ready, waiting, draining, pauseRequested, resumedFrom>>
<1>0. worker \in [Steps -> WorkerType] /\ WorkerNodes
  BY LiveWorkersHaveNodes DEF DagInv, LoopTypeOK
<1>1. /\ status = "running" /\ worker[s].phase \in Live
      /\ UNCHANGED <<status, pc, ready, waiting, draining, pauseRequested, resumedFrom>>
  BY DEF GoroutineStep, NodeReturns, NodeFails, WriteNext, SeeVersions, FailsBehindResult,
         ReleaseWorker, SendDone, Live, Holding, loopVars, ctxVars
<1>2. worker'[s].phase \in Live
  <2> USE DEF Live, Holding, WorkerType
  <2>1. CASE NodeReturns(s)
    BY <1>0, <2>1 DEF NodeReturns
  <2>2. CASE NodeFails(s) \/ FailsBehindResult(s)
    BY <1>0, <2>2 DEF NodeFails, FailsBehindResult
  <2>3. CASE WriteNext(s)
    BY <1>0, <2>3 DEF WriteNext
  <2>4. CASE SeeVersions(s)
    BY <1>0, <2>4 DEF SeeVersions
  <2>5. CASE ReleaseWorker(s) \/ SendDone(s)
    BY <1>0, <2>5 DEF ReleaseWorker, SendDone
  <2> QED
    BY <2>1, <2>2, <2>3, <2>4, <2>5 DEF GoroutineStep
<1> QED
  BY <1>0, <1>1, <1>2 DEF WorkerNodes, LiveSteps

\* A node at whose breakpoint the lineage has stopped starts with nothing in flight.
LEMMA PassingAlone ==
  ASSUME DagInv, BreakInv, status = "running", duty.stopped # {}, ~draining
  PROVE  /\ LiveSteps = {} /\ inFlight = {} /\ sem = 0
         /\ Head(ready) \in skips /\ ~pendingIntr.set /\ ~drainMaxStep
<1>1. LiveSteps = {}
  BY DEF BreakInv, PassingRun
<1>2. HoldingSteps = {}
  BY <1>1 DEF LiveSteps, HoldingSteps, Live
<1>3. Cardinality(HoldingSteps) = 0
  BY <1>2, FS_EmptySet
<1>4. inFlight = {} /\ sem = 0
  BY <1>1, <1>3 DEF DagInv, Accounted
<1>5. Head(ready) \in skips /\ ~pendingIntr.set /\ ~drainMaxStep
  BY DEF BreakInv, PassingRun
<1> QED
  BY <1>1, <1>4, <1>5

\* A run begins with the node it is about to pass in front of its queue.
LEMMA BreakInvRun ==
  ASSUME DagInv, BreakInv, StartRun \/ ResumeRun \/ Crash
  PROVE  BreakInv'
<1>1. CASE StartRun
  <2>1. PICK saved \in Saves : FreshContext(saved)
    BY <1>1 DEF StartRun
  <2>2. duty'.stopped = {} /\ duty'.restopped = {}
    BY <2>1 DEF FreshContext, InitialDuty, BreakInv
  <2>3. ckpts' \in Seq(PassingCheckpoint)
    <3> DEFINE seen == [n \in Node |-> [c \in ChannelName |-> NeverSeen]]
               ck == [step |-> -1, skips |-> {}, nextNodes |-> <<graph.entry>>,
                      pendingWrites |-> {}, versions |-> [c \in ChannelName |-> 0],
                      barrierSets |-> [c \in ChannelName |-> {}],
                      versionsSeen |-> seen, promise |-> InitialDuty]
    <3>1. ckpts' = IF saved THEN <<ck>> ELSE <<>>
      BY <2>1 DEF FreshContext
    <3>2. ck.promise.stopped = {}
      BY DEF InitialDuty
    <3>3. ck \in CheckpointType
      <4>1. seen \in [Node -> [ChannelName -> Int]]
        BY DEF NeverSeen
      <4>2. <<graph.entry>> \in Seq(Node \cup {End})
        BY GraphAssumption DEF Node
      <4>3. InitialDuty \in DutyType
        BY GraphAssumption DEF InitialDuty, DutyType, Node
      <4> HIDE DEF seen
      <4> QED
        BY <4>1, <4>2, <4>3 DEF CheckpointType
    <3> HIDE DEF ck
    <3>4. ck \in PassingCheckpoint
      BY <3>2, <3>3 DEF PassingCheckpoint, FirstToPass
    <3> QED
      BY <3>1, <3>4
  <2>4. ~pendingIntr'.set /\ ~drainMaxStep'
    BY <1>1 DEF StartRun, NewLoop, NoIntr
  <2> QED
    BY <2>2, <2>3, <2>4 DEF BreakInv, PassingRun
<1>2. CASE ResumeRun
  <2>1. PICK k \in DOMAIN ckpts : \E seeds \in Executable(SeedNodes(ckpts[k])) :
          ResumeContext(k, <<>>) /\ NewLoop(ckpts[k].step + 1, seeds)
    BY <1>2 DEF ResumeRun
  <2>2. PICK seeds \in Executable(SeedNodes(ckpts[k])) :
          ResumeContext(k, <<>>) /\ NewLoop(ckpts[k].step + 1, seeds)
    BY <2>1
  <2> DEFINE ck == ckpts[k]
  <2>3. ck \in PassingCheckpoint /\ ck \in CheckpointType
    BY DEF BreakInv, PassingCheckpoint
  <2>4. /\ duty'.stopped = ck.promise.stopped /\ duty'.restopped = {}
        /\ skips' = ck.skips /\ ckpts' = ckpts
    BY <2>2, <2>3 DEF ResumeContext, BreakInv, CheckpointType, DutyType
  <2>5. /\ ready' = seeds /\ ~draining' /\ ~drainMaxStep' /\ ~pendingIntr'.set
        /\ worker' = [s \in Steps |-> NoWorker]
    BY <2>2 DEF NewLoop, NoIntr
  <2>6. LiveSteps' = {}
    BY <2>5 DEF LiveSteps, Live, Holding, NoWorker
  <2>7. PassingRun'
    <3> SUFFICES ASSUME ck.promise.stopped # {}
                 PROVE  seeds # <<>> /\ Head(seeds) = Head(ck.nextNodes)
      BY <2>3, <2>4, <2>5, <2>6 DEF PassingRun, PassingCheckpoint, FirstToPass
    <3>1. /\ ck.pendingWrites = {} /\ ck.nextNodes # <<>> /\ Head(ck.nextNodes) \in Node
          /\ ck.nextNodes \in Seq(Node \cup {End})
      BY <2>3 DEF PassingCheckpoint, FirstToPass, CheckpointType
    <3>2. Head(ck.nextNodes) \in Range(ck.nextNodes)
      BY <3>1 DEF Range
    <3>3. SeedNodes(ck) = ck.nextNodes
      BY <3>1, <3>2 DEF SeedNodes
    <3> QED
      BY <2>2, <3>1, <3>3, ExecutableHead
  <2> QED
    BY <2>4, <2>5, <2>7 DEF BreakInv
<1>3. CASE Crash
  BY <1>3 DEF Crash, BreakInv
<1> QED
  BY <1>1, <1>2, <1>3

\* What BreakInv is about.
breakVars == <<duty.stopped, duty.restopped, status, ready, draining, skips, drainMaxStep,
               pendingIntr, ckpts, LiveSteps>>

\* Steps that leave all of it alone keep the invariant.
LEMMA BreakUnchanged == BreakInv /\ UNCHANGED breakVars => BreakInv'
BY DEF BreakInv, breakVars, PassingRun

\* Goroutines leave breakpoints alone.
LEMMA BreakInvGoroutine ==
  ASSUME DagInv, BreakInv, NEW s \in Steps, GoroutineStep(s)
  PROVE  BreakInv'
<1> DEFINE n == worker[s].node
<1>t. duty \in DutyType /\ worker[s] \in WorkerType /\ WorkerNodes
  BY LiveWorkersHaveNodes DEF DagInv, ContextTypeOK, LoopTypeOK
<1>1. /\ status = "running" /\ worker[s].phase \in Live
      /\ UNCHANGED <<status, ready, draining, skips, drainMaxStep, pendingIntr, ckpts>>
  BY DEF GoroutineStep, NodeReturns, NodeFails, WriteNext, SeeVersions, FailsBehindResult,
         ReleaseWorker, SendDone, Live, Holding, loopVars, ctxVars
<1>2. duty'.stopped = duty.stopped /\ duty'.restopped = duty.restopped
  <2>1. CASE NodeReturns(s)
    <3>1. n \in Node
      BY <1>t, <2>1 DEF NodeReturns, WorkerNodes, Live, Holding
    <3>2. PICK r \in Results(n) : duty' = Owe(duty, r.spawn)
      BY <2>1 DEF NodeReturns
    <3> QED
      BY <3>2, <1>t DEF Owe, DutyType
  <2>2. CASE WriteNext(s)
    <3>1. n \in Node /\ Head(worker[s].todo) \in ChannelName
      BY <1>t, <2>2 DEF WriteNext, WorkerNodes, WorkerType, Live, Holding
    <3>2. duty' = Send(duty, Head(worker[s].todo), n)
      BY <2>2 DEF WriteNext
    <3> DEFINE c == Head(worker[s].todo)
    <3> HIDE DEF c, n
    <3> QED
      BY <1>t, <3>1, <3>2, SendLeaves DEF c
  <2>3. CASE duty' = duty
    BY <2>3
  <2> QED
    BY <2>1, <2>2, <2>3
       DEF GoroutineStep, NodeFails, SeeVersions, FailsBehindResult, ReleaseWorker, SendDone,
           ctxVars
<1>3. duty.stopped # {} => draining
  BY <1>1 DEF BreakInv, PassingRun, LiveSteps
<1> QED
  BY <1>1, <1>2, <1>3 DEF BreakInv, PassingRun

\* The loop stops at a breakpoint only when no breakpoint waits to be passed, and starts
\* the node that waits before it looks at another.
LEMMA BreakInvStart ==
  ASSUME DagInv, BreakInv, QueueBehind \/ BreakBefore \/ NoSlot \/ NoStep \/ LaunchTask
  PROVE  BreakInv'
<1> DEFINE h == Head(ready)
<1>0. /\ status = "running" /\ ~draining /\ ready # <<>> /\ h \in Node
      /\ status' = status /\ ckpts' = ckpts
  <2>1. Starting
    BY DEF QueueBehind, BreakBefore, NoSlot, NoStep, LaunchTask, PastBreakpoint
  <2>2. ready \in Seq(Node)
    BY DEF DagInv, LoopTypeOK
  <2>3. status' = status /\ ckpts' = ckpts
    BY DEF QueueBehind, BreakBefore, NoSlot, NoStep, LaunchTask, ctxVars
  <2> QED
    BY <2>1, <2>2, <2>3 DEF Starting, At
<1>t. duty \in DutyType
  BY DEF DagInv, ContextTypeOK
<1>p. ~pendingIntr.set /\ ~drainMaxStep
  BY <1>0 DEF BreakInv
<1>1. CASE QueueBehind
  <2>1. duty.stopped = {}
    BY <1>0, <1>1, PassingAlone DEF QueueBehind
  <2> QED
    BY <1>1, <2>1 DEF QueueBehind, BreakInv, PassingRun, ctxVars
<1>2. CASE BreakBefore
  <2>1. duty.stopped = {}
    BY <1>0, <1>2, PassingAlone DEF BreakBefore, BreakInv, PassingRun
  <2>2. duty'.stopped = {h} /\ duty'.restopped = {}
    BY <1>2, <1>t, <2>1 DEF BreakBefore, StopBefore, DutyType, BreakInv
  <2>3. /\ ready' = ready /\ draining' /\ ~drainMaxStep' /\ h \in skips'
        /\ pendingIntr'.node = h
    BY <1>2, <1>p DEF BreakBefore, Intr
  <2> QED
    BY <1>0, <2>2, <2>3 DEF BreakInv, PassingRun
<1>3. CASE NoSlot
  <2>1. duty.stopped = {}
    BY <1>0, <1>3, PassingAlone, DagAssumption DEF NoSlot, SlotFree
  <2> QED
    BY <1>3, <2>1 DEF NoSlot, BreakInv, PassingRun
<1>4. CASE NoStep
  BY <1>0, <1>4, <1>p DEF NoStep, BreakInv, PassingRun
<1>5. CASE LaunchTask
  <2>1. duty'.stopped = duty.stopped \ {h} /\ duty'.restopped = {}
    BY <1>5, <1>t DEF LaunchTask, Begin, DutyType, BreakInv, Range
  <2>2. duty'.stopped = {}
    BY <1>0, <2>1 DEF BreakInv, PassingRun
  <2> QED
    BY <1>5, <2>1, <2>2 DEF LaunchTask, BreakInv, PassingRun
<1> QED
  BY <1>1, <1>2, <1>3, <1>4, <1>5

\* The interrupt and the final checkpoint keep the node that waits in front.
LEMMA BreakInvFinalize ==
  ASSUME DagInv, BreakInv, PlanIfIdle \/ FinalizeInterrupt \/ FinalizeDone
  PROVE  BreakInv'
<1>t. ContextTypeOK /\ LoopTypeOK
  BY DEF DagInv
<1>r. status = "running" /\ UNCHANGED duty
  BY DEF PlanIfIdle, FinalizeInterrupt, FinalizeDone, At
<1>1. CASE PlanIfIdle
  <2>1. ready' = ready \/ duty.stopped = {}
    BY <1>1, <1>r DEF PlanIfIdle, BreakInv, PassingRun
  <2>2. UNCHANGED <<duty, status, draining, skips, drainMaxStep, pendingIntr, ckpts, worker>>
    BY <1>1 DEF PlanIfIdle
  <2>3. LiveSteps' = LiveSteps
    BY <2>2 DEF LiveSteps
  <2> QED
    BY <2>1, <2>2, <2>3 DEF BreakInv, PassingRun
<1>2. CASE FinalizeInterrupt
  <2> DEFINE intr == IF pendingIntr.set THEN pendingIntr ELSE Intr(End, FALSE, nextStep - 1)
  <2>1. PICK rest \in SetToSeqs((GetNextNodes(chan) \cap Node) \ Range(Queued)),
            frontier \in SetToSeqs(GetNextNodes(chan)), saved \in Saves :
          SaveInterruptCheckpoint(intr.step, chan, skips,
            InterruptNextNodes(Queued \o rest, frontier, intr.node, intr.skipRerun), duty, saved)
    BY <1>2 DEF FinalizeInterrupt, intr
  <2> DEFINE next == InterruptNextNodes(Queued \o rest, frontier, intr.node, intr.skipRerun)
             ck == Checkpoint(intr.step, chan, skips, next, {}, duty)
  <2>2. rest \in Seq(Node \cup {End}) /\ frontier \in Seq(Node \cup {End})
    BY <1>t, FrontierType, (GetNextNodes(chan) \cap Node) \ Range(Queued) \subseteq GetNextNodes(chan)
  <2>3. Queued \o rest \in Seq(Node \cup {End})
    <3>1. ready \in Seq(Node \cup {End}) /\ rerunNodes \in Seq(Node \cup {End})
      BY <1>t DEF LoopTypeOK
    <3> QED
      BY <2>2, <3>1 DEF Queued
  <2>4. next \in Seq(Node \cup {End})
    BY <2>2, <2>3, InterruptNextNodesType
  <2>5. intr.step \in Nat \cup {-1}
    BY <1>t DEF LoopTypeOK, Intr, IntrType
  <2>6. duty.stopped # {} => next # <<>> /\ Head(next) = Head(ready) /\ Head(ready) \in skips
    <3> SUFFICES ASSUME duty.stopped # {} PROVE next = Queued \o rest /\ Head(ready) \in skips
      <4>1. duty.stopped # {} => ready # <<>>
        BY <1>r DEF BreakInv, PassingRun
      <4>2. ASSUME ready # <<>>
            PROVE  Queued \o rest # <<>> /\ Head(Queued \o rest) = Head(ready)
        <5>1. ready \in Seq(Node \cup {End}) /\ rerunNodes \in Seq(Node \cup {End})
          BY <1>t DEF LoopTypeOK
        <5> HIDE DEF next
        <5> QED
          BY <2>2, <4>2, <5>1 DEF Queued
      <4> QED
        BY <4>1, <4>2
    <3>1. ready # <<>>
      BY <1>r DEF BreakInv, PassingRun
    <3>2. Queued \o rest # <<>> /\ Head(ready) \in Range(Queued \o rest)
      <4>1. ready \in Seq(Node \cup {End}) /\ rerunNodes \in Seq(Node \cup {End})
        BY <1>t DEF LoopTypeOK
      <4>2. Queued \o rest # <<>> /\ Head(Queued \o rest) = Head(ready)
        BY <2>2, <3>1, <4>1 DEF Queued
      <4>3. Head(Queued \o rest) \in Range(Queued \o rest)
        BY <2>3, <4>2 DEF Range
      <4> QED
        BY <4>2, <4>3
    <3>3. Head(ready) \in skips /\ intr.node \in {Head(ready), End}
      BY <1>2, <1>r DEF FinalizeInterrupt, Pausing, BreakInv, PassingRun, Intr
    <3>4. End \notin Node
      BY GraphAssumption DEF Node
    <3> HIDE DEF intr
    <3> QED
      BY <3>2, <3>3, <3>4 DEF InterruptNextNodes
  <2> HIDE DEF next
  <2>7. ck \in PassingCheckpoint
    <3>1. ck \in CheckpointType
      <4> HIDE DEF intr
      <4> QED
        BY <1>t, <2>4, <2>5, CheckpointRecordType DEF ContextTypeOK
    <3>2. ck.promise = duty /\ ck.skips = skips /\ ck.nextNodes = next /\ ck.pendingWrites = {}
      BY DEF Checkpoint
    <3>3. FirstToPass(duty, skips, next)
      BY <1>r, <2>6 DEF FirstToPass, BreakInv, PassingRun
    <3> QED
      BY <3>1, <3>2, <3>3 DEF PassingCheckpoint
  <2>8. saved \in BOOLEAN /\ ckpts' = IF saved THEN Append(ckpts, ck) ELSE ckpts
    BY <2>1 DEF Saves, SaveInterruptCheckpoint, next
  <2>9. ckpts' \in Seq(PassingCheckpoint)
    <3> HIDE DEF ck
    <3> QED
      BY <2>7, <2>8, SavedAmong DEF BreakInv
  <2> QED
    BY <1>2, <1>r, <2>9 DEF FinalizeInterrupt, BreakInv
<1>3. CASE FinalizeDone
  <2>1. duty.stopped = {} /\ status' = "done"
    BY <1>3, <1>r DEF FinalizeDone, BreakInv, PassingRun
  <2>2. ckpts' \in Seq(PassingCheckpoint)
    <3>1. CASE executed
      <4>1. PICK frontier \in SetToSeqs(GetNextNodes(chan)), saved \in Saves :
              SaveLoopCheckpoint(nextStep - 1, frontier, saved)
        BY <1>3, <3>1 DEF FinalizeDone
      <4> DEFINE ck == Checkpoint(nextStep - 1, chan, skips, frontier, pendingWrites, duty)
      <4>2. ck \in CheckpointType
        <5>1. frontier \in Seq(Node \cup {End})
          BY <1>t, FrontierType
        <5>2. nextStep - 1 \in Nat \cup {-1}
          BY <1>t DEF LoopTypeOK
        <5> QED
          BY <1>t, <5>1, <5>2, CheckpointRecordType DEF ContextTypeOK
      <4>3. ck.promise = duty
        BY DEF Checkpoint
      <4>4. saved \in BOOLEAN /\ ckpts' = IF saved THEN Append(ckpts, ck) ELSE ckpts
        BY <4>1 DEF Saves, SaveLoopCheckpoint
      <4> HIDE DEF ck
      <4>5. ck \in PassingCheckpoint
        BY <2>1, <4>2, <4>3 DEF PassingCheckpoint, FirstToPass
      <4> QED
        BY <4>4, <4>5, SavedAmong DEF BreakInv
    <3>2. CASE ~executed
      BY <1>3, <3>2 DEF FinalizeDone, BreakInv
    <3> QED
      BY <3>1, <3>2
  <2> QED
    BY <1>r, <2>1, <2>2 DEF BreakInv
<1> QED
  BY <1>1, <1>2, <1>3

\* A result queues behind the node that waits.
LEMMA BreakInvResult ==
  ASSUME DagInv, BreakInv, NEW s \in Steps, TaskSucceeded(s) \/ TaskFailed(s)
  PROVE  BreakInv'
<1> DEFINE n == worker[s].node
<1>t. duty \in DutyType /\ LoopTypeOK /\ WorkerNodes
  BY LiveWorkersHaveNodes DEF DagInv, ContextTypeOK
<1>1. /\ Received(s) /\ status = "running" /\ worker[s].phase \in Live /\ n \in Node
      /\ UNCHANGED <<status, skips, drainMaxStep, ckpts>>
  BY <1>t DEF TaskSucceeded, TaskFailed, Received, Waiting, At, WorkerNodes, Live
<1>2. duty.stopped # {} => draining
  BY <1>1 DEF BreakInv, PassingRun, LiveSteps
<1>3. duty'.stopped = duty.stopped /\ duty'.restopped = duty.restopped
  <2>1. CASE TaskSucceeded(s)
    BY <2>1 DEF TaskSucceeded
  <2>2. CASE TaskFailed(s)
    <3>1. duty' = Owe(duty, <<n>>)
      BY <2>2 DEF TaskFailed
    <3> QED
      BY <1>t, <3>1 DEF Owe, DutyType
  <2> QED
    BY <2>1, <2>2
<1>4. pendingIntr'.set \/ drainMaxStep' => draining'
  BY <1>1 DEF TaskSucceeded, TaskFailed, BreakInv
<1>5. CASE duty.stopped = {}
  BY <1>1, <1>3, <1>4, <1>5 DEF BreakInv, PassingRun
<1>6. CASE duty.stopped # {}
  <2>1. draining' /\ pendingIntr' = pendingIntr /\ ready' = Unblocked(n)
    <3>1. CASE TaskSucceeded(s)
      <4>1. draining' = draining /\ pendingIntr' = pendingIntr /\ ready' = Unblocked(n)
        <5>1. ~(~draining)
          BY <1>2, <1>6
        <5> QED
          BY <3>1, <5>1 DEF TaskSucceeded
      <4> QED
        BY <1>2, <1>6, <4>1
    <3>2. CASE TaskFailed(s)
      <4>1. draining' = TRUE /\ ready' = Unblocked(n)
        BY <3>2 DEF TaskFailed
      <4>2. pendingIntr' = pendingIntr
        BY <1>2, <1>6, <3>2 DEF TaskFailed
      <4> QED
        BY <4>1, <4>2
    <3> QED
      BY <3>1, <3>2
  <2>2. ready' # <<>> /\ Head(ready') = Head(ready)
    <3>1. ready # <<>> /\ ready \in Seq(Node) /\ waiting[n] \in Nat
      BY <1>1, <1>t, <1>6 DEF BreakInv, PassingRun, LoopTypeOK
    <3>2. [i \in 1..waiting[n] |-> n] \in Seq(Node)
      BY <1>1, <3>1, FunctionIsSeq, [i \in 1..waiting[n] |-> n] \in [1..waiting[n] -> Node]
    <3> QED
      BY <2>1, <3>1, <3>2 DEF Unblocked
  <2> QED
    BY <1>1, <1>2, <1>3, <1>4, <1>6, <2>1, <2>2 DEF BreakInv, PassingRun
<1> QED
  BY <1>5, <1>6

\* No breakpoint has been stopped at before the first run.
LEMMA BreakInvInit == Init => BreakInv
BY DEF Init, InitContext, InitialDuty, BreakInv

\* Every step of the loop, of a goroutine or of the environment preserves it.
LEMMA BreakInvNext == DagInv /\ BreakInv /\ [Next]_vars => BreakInv'
<1> SUFFICES ASSUME DagInv, BreakInv, [Next]_vars PROVE BreakInv'
  OBVIOUS
<1>1. CASE \/ RequestInterrupt \/ CancelContext \/ Request \/ StartNothing \/ KeepGoing \/ Poll
           \/ UNCHANGED vars
  <2>1. UNCHANGED <<duty, status, ready, draining, skips, drainMaxStep, pendingIntr, ckpts, worker>>
    BY <1>1 DEF RequestInterrupt, CancelContext, Request, StartNothing, KeepGoing, Poll, vars,
                ctxVars, loopVars
  <2>2. LiveSteps' = LiveSteps
    BY <2>1 DEF LiveSteps
  <2> QED
    BY <2>1, <2>2, BreakUnchanged DEF breakVars
<1>2. CASE ContextDone
  <2>1. /\ UNCHANGED <<duty, status, ready, skips, drainMaxStep, ckpts, worker>>
        /\ status = "running" /\ draining' = TRUE
        /\ pendingIntr' = IF ~draining /\ ctx = "timedout"
                          THEN Intr(End, FALSE, nextStep - 1) ELSE pendingIntr
    BY <1>2 DEF ContextDone, ctxVars, At
  <2>2. Intr(End, FALSE, nextStep - 1).node = End
    BY DEF Intr
  <2> QED
    BY <2>1, <2>2 DEF BreakInv, PassingRun
<1>3. CASE FinalizeDrained
  BY <1>3 DEF FinalizeDrained, BreakInv, ctxVars
<1> QED
  BY <1>1, <1>2, <1>3, BreakInvRun, BreakInvGoroutine, BreakInvStart, BreakInvFinalize,
     BreakInvResult DEF Next, LoopStep, LineageOver

\* The invariant holds in every reachable state.
LEMMA BreakInvAlways == Spec => [](DagInv /\ BreakInv)
<1>1. Init => DagInv /\ BreakInv
  BY DagInvInit, BreakInvInit
<1>2. DagInv /\ BreakInv /\ [Next]_vars => (DagInv /\ BreakInv)'
  BY DagInvNext, BreakInvNext
<1> QED
  BY <1>1, <1>2, PTL DEF Spec

\* A breakpoint pauses the lineage once: whatever is in flight, queued, out of slots or
\* out of steps when a run stops, no later run stops at the same breakpoint before its
\* node has started (startTask, handleInterrupt, applyExecutableNextNodes).
THEOREM BreakpointPassedAlways == Spec => []BreakpointPassed
<1>1. BreakInv => BreakpointPassed
  BY DEF BreakInv, BreakpointPassed
<1> QED
  BY <1>1, BreakInvAlways, PTL
-----------------------------------------------------------------------------
(***************************************************************************)
(* The promise on runs that start afresh                                   *)
(***************************************************************************)

\* The activations of n that the engine holds: in its channels, among the fanned-out
\* tasks, in the queue and behind the task of n that is in flight.
Outstanding(n) ==
  Cardinality(Claims(n)) + CountOf(pendingTasks, n) + CountOf(ready, n) + waiting[n]

\* Each of them is one that the promise counts.
CreditInv ==
  resumedFrom = 0 =>
    /\ duty.excess = {}
    /\ status = "running" =>
         /\ \A c \in ChannelName : chan[c].available => c \in mapped
         /\ \A n \in Node : Outstanding(n) <= duty.credit[n]

\* Where n still waits to be started: in the queue, behind its task, in the list of
\* fanned-out tasks, in a channel, or behind a join of J.
Waits(J, n) ==
  \/ n \in Range(ready) \/ waiting[n] > 0 \/ n \in Range(pendingTasks)
  \/ \E c \in ChannelName : graph.target[c] = n /\ (chan[c].available \/ c \in J)

NothingPlanned == pendingTasks = <<>> /\ Available(chan, mapped) = {}

\* A node that has been triggered and not started waits somewhere unless the loop drains,
\* and nowhere but behind a join of J when the run is complete; the other barriers agree
\* with the promise.
OwedInv(J) ==
  /\ status = "running" /\ pc = "finalize" /\ LiveSteps = {} /\ ~draining /\ ~pauseRequested
       /\ ready = <<>> => NothingPlanned
  /\ resumedFrom = 0 =>
       /\ status = "running" /\ ~draining => \A n \in duty.owed : Waits(J, n)
       /\ status = "running" => Agree(J)
       /\ status = "done" =>
            \A n \in duty.owed : \E c \in ChannelName : graph.target[c] = n /\ c \in J

\* The parts of Outstanding are numbers.
LEMMA OutstandingType ==
  ASSUME DagInv, NEW n \in Node
  PROVE  /\ Cardinality(Claims(n)) \in Nat /\ CountOf(pendingTasks, n) \in Nat
         /\ CountOf(ready, n) \in Nat /\ waiting[n] \in Nat /\ duty.credit[n] \in Int
<1>1. /\ pendingTasks \in Seq(Node) /\ ready \in Seq(Node) /\ waiting \in [Node -> Nat]
      /\ duty \in DutyType
  BY DEF DagInv, ContextTypeOK, LoopTypeOK
<1> QED
  BY <1>1, ClaimsFinite, CountNat DEF DutyType

\* So are they after a step.
LEMMA OutstandingNext ==
  ASSUME DagInv', NEW n \in Node
  PROVE  /\ Cardinality(Claims(n)') \in Nat /\ CountOf(pendingTasks', n) \in Nat
         /\ CountOf(ready', n) \in Nat /\ waiting'[n] \in Nat
<1>1. /\ pendingTasks' \in Seq(Node) /\ ready' \in Seq(Node) /\ waiting' \in [Node -> Nat]
  BY DEF DagInv, ContextTypeOK, LoopTypeOK
<1>2. Claims(n)' \subseteq ChannelName
  BY DEF Claims
<1>3. Cardinality(Claims(n)') \in Nat
  BY <1>2, GraphAssumption, ProperSubset DEF ChannelName
<1> QED
  BY <1>1, <1>3, CountNat

\* planDagTasks and drainReadyTasks move activations from channels and list to the queue.
LEMMA FreshQueue ==
  ASSUME DagInv, NEW q \in Seq(Node), QueuePlannedTasks(q), UNCHANGED <<mapped, duty>>
  PROVE  /\ \A n \in Node :
              Cardinality(Claims(n)') + CountOf(pendingTasks', n) + CountOf(ready', n)
                <= Cardinality(Claims(n)) + CountOf(pendingTasks, n) + CountOf(q, n)
         /\ NothingPlanned'
         /\ \A c \in ChannelName : chan'[c].available => chan[c].available
         /\ \A c \in ChannelName : \/ chan'[c] = chan[c]
                                   \/ chan[c].available /\ chan'[c] = Acknowledge(chan[c])
         /\ Range(q) \subseteq Range(ready') /\ Range(pendingTasks) \subseteq Range(ready')
         /\ \A c \in ChannelName : chan[c].available /\ c \in mapped /\ graph.target[c] \in Node =>
              graph.target[c] \in Range(ready')
<1> DEFINE consumed == Available(chan, mapped)
           wanted == Targets(consumed) \cap Node
<1>t. /\ chan \in [ChannelName -> ChannelType(Node)] /\ mapped \subseteq ChannelName
      /\ pendingTasks \in Seq(Node)
  BY DEF DagInv, ContextTypeOK
<1>1. PICK order \in SetToSeqs(wanted) : ready' = q \o pendingTasks \o order
  BY DEF QueuePlannedTasks
<1>2. /\ pendingTasks' = <<>>
      /\ chan' = [c \in ChannelName |-> IF c \in consumed THEN Acknowledge(chan[c]) ELSE chan[c]]
  BY DEF QueuePlannedTasks
<1>3. IsFiniteSet(wanted) /\ wanted \subseteq Node
  BY NodesFinite
<1>4. /\ order \in Seq(Node) /\ Range(order) = wanted
      /\ \A i, j \in DOMAIN order : i # j => order[i] # order[j]
  BY <1>3, SetToSeqsType, SetToSeqsRange
<1>5. q \o pendingTasks \in Seq(Node)
  BY <1>t
<1>6. Range(ready') = Range(q) \cup Range(pendingTasks) \cup wanted
  <2>1. Range((q \o pendingTasks) \o order) = Range(q \o pendingTasks) \cup Range(order)
    BY <1>4, <1>5, RangeConcat
  <2>2. Range(q \o pendingTasks) = Range(q) \cup Range(pendingTasks)
    BY <1>t, RangeConcat
  <2> QED
    BY <1>1, <1>4, <2>1, <2>2
<1>7. \A c \in ChannelName : Held(c)' => Held(c) /\ c \notin consumed
  BY <1>t, <1>2 DEF Held, Acknowledge, ChannelType
<1>8. \A c \in ChannelName : chan'[c].available => chan[c].available /\ c \notin consumed
  BY <1>t, <1>2 DEF Acknowledge, ChannelType
<1>9. NothingPlanned'
  BY <1>t, <1>2, <1>8 DEF NothingPlanned, Available
<1>10. ASSUME NEW n \in Node
       PROVE  Cardinality(Claims(n)') + CountOf(order, n) <= Cardinality(Claims(n))
  <2>1. Claims(n)' \subseteq Claims(n) /\ IsFiniteSet(Claims(n)) /\ Cardinality(Claims(n)) \in Nat
    BY <1>7, ClaimsFinite DEF Claims
  <2>2. /\ Cardinality(Claims(n)') \in Nat /\ Cardinality(Claims(n)') <= Cardinality(Claims(n))
        /\ \A c \in Claims(n) : c \notin Claims(n)' =>
             Cardinality(Claims(n)') + 1 <= Cardinality(Claims(n))
    BY <2>1, ProperSubset
  <2>3. CountOf(order, n) \in Nat /\ CountOf(order, n) <= 1
    BY <1>4, CountDistinct, CountNat
  <2>4. CASE CountOf(order, n) = 0
    BY <2>1, <2>2, <2>4
  <2>5. CASE CountOf(order, n) = 1
    <3>1. n \in Targets(consumed)
      BY <1>4, <2>5, CountPositive
    <3>2. PICK c \in ChannelName : c \in consumed /\ graph.target[c] = n
      BY <1>t, <3>1 DEF Targets, Available
    <3>3. c \in Claims(n) /\ c \notin Claims(n)'
      BY <1>7, <3>2 DEF Claims, Held, Available
    <3> QED
      BY <2>1, <2>2, <2>5, <3>3
  <2> QED
    BY <2>3, <2>4, <2>5
<1>11. ASSUME NEW n \in Node
       PROVE  Cardinality(Claims(n)') + CountOf(pendingTasks', n) + CountOf(ready', n)
                <= Cardinality(Claims(n)) + CountOf(pendingTasks, n) + CountOf(q, n)
  <2>1. CountOf((q \o pendingTasks) \o order, n) = CountOf(q \o pendingTasks, n) + CountOf(order, n)
    BY <1>4, <1>5, CountConcat
  <2>2. CountOf(q \o pendingTasks, n) = CountOf(q, n) + CountOf(pendingTasks, n)
    BY <1>t, CountConcat
  <2>3. CountOf(ready', n) = CountOf(q, n) + CountOf(pendingTasks, n) + CountOf(order, n)
    BY <1>1, <2>1, <2>2
  <2>4. /\ CountOf(q, n) \in Nat /\ CountOf(pendingTasks, n) \in Nat /\ CountOf(order, n) \in Nat
        /\ CountOf(pendingTasks', n) = 0
    BY <1>t, <1>2, <1>4, CountNat, CountEmpty
  <2>5. Cardinality(Claims(n)) \in Nat /\ Cardinality(Claims(n)') \in Nat
    <3>1. Claims(n)' \subseteq Claims(n) /\ IsFiniteSet(Claims(n))
      BY <1>7, ClaimsFinite DEF Claims
    <3> QED
      BY <3>1, ProperSubset
  <2>6. Cardinality(Claims(n)') + CountOf(order, n) <= Cardinality(Claims(n))
    BY <1>10
  <2> QED
    BY <2>3, <2>4, <2>5, <2>6
<1>12. \A c \in ChannelName : chan[c].available /\ c \in mapped /\ graph.target[c] \in Node =>
         graph.target[c] \in Range(ready')
  BY <1>6 DEF Targets, Available
<1>13. \A c \in ChannelName : \/ chan'[c] = chan[c]
                              \/ chan[c].available /\ chan'[c] = Acknowledge(chan[c])
  BY <1>2 DEF Available
<1> QED
  BY <1>6, <1>8, <1>9, <1>11, <1>12, <1>13

\* Steps that touch neither the channels nor the queue nor the promise keep both.
LEMMA FreshUnchanged ==
  ASSUME NEW J, DagInv, CreditInv, OwedInv(J),
         UNCHANGED <<resumedFrom, chan, mapped, pendingTasks, ready, waiting>>,
         duty'.excess = duty.excess, duty'.arrived = duty.arrived,
         duty'.credit = duty.credit, duty'.owed = duty.owed,
         \/ status' # "running" /\ status' # "done"
         \/ /\ status' = status /\ draining' \in {draining, TRUE} /\ draining \in BOOLEAN
            /\ \/ pc' # "finalize"
               \/ /\ UNCHANGED <<pc, draining, pauseRequested>>
                  /\ LiveSteps' = LiveSteps \/ LiveSteps' # {}
  PROVE  CreditInv' /\ OwedInv(J)'
<1>1. \A n \in Node : Claims(n)' = Claims(n)
  BY DEF Claims, Held
<1>2. \A n \in Node : Outstanding(n)' = Outstanding(n)
  BY <1>1 DEF Outstanding
<1>3. CASE status' # "running" /\ status' # "done"
  BY <1>3 DEF CreditInv, OwedInv
<1>4. CASE /\ status' = status /\ draining' \in {draining, TRUE} /\ draining \in BOOLEAN
            /\ \/ pc' # "finalize"
               \/ /\ UNCHANGED <<pc, draining, pauseRequested>>
                  /\ LiveSteps' = LiveSteps \/ LiveSteps' # {}
  <2>1. CreditInv'
    BY <1>2, <1>4 DEF CreditInv
  <2>2. resumedFrom' = 0 =>
          /\ status' = "running" /\ ~draining' => \A n \in duty'.owed : Waits(J, n)'
          /\ status' = "done" => \A n \in duty'.owed :
               \E c \in ChannelName : graph.target[c] = n /\ c \in J
    <3>1. ~draining' => ~draining
      BY <1>4
    <3>2. \A n \in duty.owed : Waits(J, n)' <=> Waits(J, n)
      BY DEF Waits
    <3>3. duty'.owed = duty.owed /\ resumedFrom' = resumedFrom /\ status' = status
      BY <1>4
    <3> QED
      BY <3>1, <3>2, <3>3 DEF OwedInv
  <2>3. (status = "running" /\ pc = "finalize" /\ LiveSteps = {} /\ ~draining /\ ~pauseRequested
           /\ ready = <<>> => NothingPlanned)'
    BY <1>4 DEF OwedInv, NothingPlanned
  <2>4. resumedFrom' = 0 /\ status' = "running" => Agree(J)'
    BY <1>4 DEF OwedInv, Agree
  <2> QED
    BY <2>1, <2>2, <2>3, <2>4 DEF OwedInv
<1> QED
  BY <1>3, <1>4

\* A fresh start owes the entry node and nothing else.
LEMMA FreshRun ==
  ASSUME NEW J, DagInv, CreditInv, OwedInv(J), StartRun \/ ResumeRun \/ Crash
  PROVE  CreditInv' /\ OwedInv(J)'
<1>1. CASE StartRun
  <2>1. PICK saved \in Saves : FreshContext(saved)
    BY <1>1 DEF StartRun
  <2>2. resumedFrom = 0
    BY <1>1 DEF StartRun, DagInv, ContextTypeOK
  <2>3. /\ duty'.excess = {} /\ duty'.owed = {graph.entry}
        /\ duty'.arrived = [c \in ChannelName |-> {}]
        /\ duty'.credit = [n \in Node |-> IF n = graph.entry THEN 1 ELSE 0]
    BY <2>1, <2>2 DEF FreshContext, InitialDuty, CreditInv
  <2>4. /\ chan' = [c \in ChannelName |-> NewChannel] /\ pendingTasks' = <<>>
        /\ status' = "running" /\ pc' = "request" /\ ready' = <<graph.entry>>
        /\ waiting' = [n \in Node |-> 0]
    BY <1>1, <2>1 DEF FreshContext, StartRun, NewLoop
  <2>5. \A c \in ChannelName : ~Held(c)' /\ ~chan'[c].available
    BY <2>3, <2>4 DEF Held, NewChannel
  <2>6. ASSUME NEW n \in Node PROVE Outstanding(n)' <= duty'.credit[n]
    <3>1. Claims(n)' = {}
      BY <2>5 DEF Claims
    <3>2. Cardinality(Claims(n)') = 0 /\ CountOf(pendingTasks', n) = 0 /\ waiting'[n] = 0
      BY <2>4, <3>1, FS_EmptySet, CountEmpty
    <3>3. CountOf(ready', n) = duty'.credit[n] /\ duty'.credit[n] \in Int
      BY <2>3, <2>4, CountSingle
    <3> QED
      BY <3>2, <3>3 DEF Outstanding
  <2>7. CreditInv'
    BY <2>3, <2>5, <2>6 DEF CreditInv
  <2>8. OwedInv(J)'
    <3>1. graph.entry \in Range(ready')
      BY <2>4 DEF Range
    <3>2. Agree(J)'
      BY <2>3, <2>4 DEF Agree, NewChannel
    <3> QED
      BY <2>3, <2>4, <3>1, <3>2 DEF OwedInv, Waits
  <2> QED
    BY <2>7, <2>8
<1>2. CASE ResumeRun
  <2>1. PICK k \in DOMAIN ckpts : \E seeds \in Executable(SeedNodes(ckpts[k])) :
          ResumeContext(k, <<>>) /\ NewLoop(ckpts[k].step + 1, seeds)
    BY <1>2 DEF ResumeRun
  <2>2. k # 0
    BY DEF DagInv, ContextTypeOK
  <2>3. resumedFrom' # 0 /\ pc' = "request"
    BY <2>1, <2>2 DEF ResumeContext, NewLoop
  <2> QED
    BY <2>3 DEF CreditInv, OwedInv
<1>3. CASE Crash
  BY <1>3 DEF Crash, CreditInv, OwedInv
<1> QED
  BY <1>1, <1>2, <1>3

\* A fan-out is counted in the list and in the promise, a write is counted in a channel
\* only when the promise counts it.
LEMMA FreshGoroutine ==
  ASSUME NEW J, DagInv, CreditInv, OwedInv(J), NEW s \in Steps, GoroutineStep(s),
         StartsOnce(J)
  PROVE  CreditInv' /\ OwedInv(J)'
<1> DEFINE n == worker[s].node
<1>t. /\ ContextTypeOK /\ duty \in DutyType /\ worker[s] \in WorkerType /\ WorkerNodes
      /\ pendingTasks \in Seq(Node) /\ chan \in [ChannelName -> ChannelType(Node)]
      /\ draining \in BOOLEAN
  BY LiveWorkersHaveNodes DEF DagInv, ContextTypeOK, LoopTypeOK
<1>1. /\ status = "running" /\ n \in Node
      /\ UNCHANGED <<status, pc, ready, waiting, draining, pauseRequested, resumedFrom>>
  BY GoroutineLives
<1>2. LiveSteps' # {}
  BY GoroutineLives
<1>f. \A m \in Node : /\ Cardinality(Claims(m)) \in Nat /\ CountOf(pendingTasks, m) \in Nat
                      /\ CountOf(ready, m) \in Nat /\ waiting[m] \in Nat /\ duty.credit[m] \in Int
  BY OutstandingType
<1>3. CASE \/ NodeFails(s) \/ SeeVersions(s) \/ FailsBehindResult(s)
           \/ ReleaseWorker(s) \/ SendDone(s)
  BY <1>1, <1>2, <1>3, <1>t, FreshUnchanged
     DEF NodeFails, SeeVersions, FailsBehindResult, ReleaseWorker, SendDone, ctxVars, loopVars
<1>p. (status = "running" /\ pc = "finalize" /\ LiveSteps = {} /\ ~draining /\ ~pauseRequested
         /\ ready = <<>> => NothingPlanned)'
  BY <1>2
<1>0. CASE resumedFrom # 0
  BY <1>0, <1>1, <1>p DEF CreditInv, OwedInv
<1>4. CASE NodeReturns(s) /\ resumedFrom = 0
  <2>1. PICK r \in Results(n) :
          pendingTasks' = pendingTasks \o r.spawn /\ duty' = Owe(duty, r.spawn)
    BY <1>4 DEF NodeReturns
  <2>2. r.spawn \in Seq(Node) /\ r.spawn \in Seq(Node \cup {End})
    <3>1. <<>> \in Seq(Node)
      OBVIOUS
    <3>2. graph.fanouts[n] \subseteq Seq(Node)
      BY <1>1, GraphAssumption DEF Node
    <3>3. r.spawn = <<>> \/ r.spawn \in graph.fanouts[n]
      BY <2>1 DEF Results
    <3>4. r.spawn \in Seq(Node)
      BY <3>1, <3>2, <3>3
    <3> QED
      BY <3>4
  <2>3. /\ duty'.owed = duty.owed \cup (Range(r.spawn) \cap Node)
        /\ \A m \in Node : duty'.credit[m] = duty.credit[m] + CountOf(r.spawn, m)
        /\ duty'.arrived = duty.arrived /\ duty'.excess = duty.excess
    BY <1>t, <2>1, <2>2, OweEffect
  <2>4. chan' = chan /\ mapped' = mapped
    BY <1>4 DEF NodeReturns
  <2>5. \A m \in Node : Claims(m)' = Claims(m)
    BY <2>3, <2>4 DEF Claims, Held
  <2>6. \A m \in Node : /\ CountOf(pendingTasks', m) = CountOf(pendingTasks, m) + CountOf(r.spawn, m)
                        /\ CountOf(r.spawn, m) \in Nat
    BY <1>t, <2>1, <2>2, CountConcat, CountNat
  <2>7. ASSUME NEW m \in Node PROVE Outstanding(m)' <= duty'.credit[m]
    <3>1. Outstanding(m) <= duty.credit[m]
      BY <1>1, <1>4 DEF CreditInv
    <3>2. /\ Cardinality(Claims(m)') = Cardinality(Claims(m)) /\ CountOf(ready', m) = CountOf(ready, m)
          /\ waiting'[m] = waiting[m]
      BY <1>1, <2>5
    <3> QED
      BY <1>f, <2>3, <2>6, <3>1, <3>2 DEF Outstanding
  <2>8. Range(pendingTasks') = Range(pendingTasks) \cup Range(r.spawn)
    BY <1>t, <2>1, <2>2, RangeConcat
  <2>9. CreditInv'
    BY <1>1, <1>4, <2>3, <2>4, <2>7 DEF CreditInv
  <2>10. ASSUME ~draining, NEW m \in duty'.owed PROVE Waits(J, m)'
    <3>1. m \in duty.owed => Waits(J, m)
      BY <1>1, <1>4, <2>10 DEF OwedInv
    <3> QED
      BY <1>1, <2>3, <2>4, <2>8, <2>10, <3>1 DEF Waits
  <2>11. Agree(J)'
    BY <1>1, <1>4, <2>3, <2>4 DEF OwedInv, Agree
  <2> QED
    BY <1>1, <1>p, <2>9, <2>10, <2>11 DEF OwedInv
<1>5. CASE WriteNext(s) /\ resumedFrom = 0
  <2> DEFINE c == Head(worker[s].todo)
  <2>1. c \in ChannelName
    BY <1>5, <1>t DEF WriteNext, WorkerType
  <2>2. WriteChannel(n, c) /\ duty' = Send(duty, c, n) /\ pendingTasks' = pendingTasks
    BY <1>5 DEF WriteNext
  <2> HIDE DEF c, n
  <2>3. /\ chan' = [chan EXCEPT ![c] = Update(chan[c], graph.expected[c], n)]
        /\ mapped' = mapped \cup {c}
    BY <2>2 DEF WriteChannel
  <2>4. duty'.excess = duty.excess
    BY <1>t, <1>1, <2>1, <2>2, SendLeaves
  <2>5. ASSUME NEW m \in Node PROVE Outstanding(m)' <= duty'.credit[m]
    <3>1. duty'.credit[m] - duty.credit[m] >= Cardinality(Claims(m)') - Cardinality(Claims(m))
      BY <1>t, <1>1, <2>1, <2>2, SendKeepsClaims
    <3>2. duty'.credit[m] \in Int /\ Cardinality(Claims(m)') \in Nat
      <4>1. duty'.credit[m] \in Int
        BY <1>t, <1>1, <2>1, <2>2, SendType DEF DutyType
      <4>2. Claims(m)' \subseteq ChannelName
        BY DEF Claims
      <4>3. Cardinality(Claims(m)') \in Nat
        BY <4>2, GraphAssumption, ProperSubset DEF ChannelName
      <4> QED
        BY <4>1, <4>3
    <3>3. Outstanding(m) <= duty.credit[m]
      BY <1>1, <1>5 DEF CreditInv
    <3>4. /\ CountOf(pendingTasks', m) = CountOf(pendingTasks, m)
          /\ CountOf(ready', m) = CountOf(ready, m) /\ waiting'[m] = waiting[m]
      BY <1>1, <2>2
    <3> QED
      BY <1>f, <3>1, <3>2, <3>3, <3>4 DEF Outstanding
  <2>6. \A d \in ChannelName : /\ d # c => chan'[d] = chan[d]
                               /\ chan'[d].available => d \in mapped'
    BY <1>t, <1>1, <1>5, <2>1, <2>3 DEF CreditInv
  <2>7. CreditInv'
    BY <1>1, <1>5, <2>4, <2>5, <2>6 DEF CreditInv
  <2>8. Agree(J)' /\ (Fires(duty, c, n) => chan'[c].available \/ c \in J)
    <3>1. Agree(J)
      BY <1>1, <1>5 DEF OwedInv
    <3> QED
      BY <1>t, <1>1, <2>1, <2>2, <3>1, SendAgrees
  <2>9. /\ Fires(duty, c, n) => duty'.owed \subseteq duty.owed \cup {graph.target[c]}
        /\ ~Fires(duty, c, n) => duty'.owed = duty.owed
    BY <1>t, <1>1, <2>1, <2>2, SendCredits
  <2>10. c \notin J /\ chan[c].available => chan'[c].available
    BY <1>t, <1>1, <2>1, <2>2, <2>3 DEF StartsOnce, StartRepeats, Update, BarrierSatisfied
  <2>11. ASSUME ~draining, NEW m \in duty'.owed PROVE Waits(J, m)'
    <3>1. CASE m = graph.target[c] /\ Fires(duty, c, n)
      BY <2>1, <2>8, <3>1 DEF Waits
    <3>2. CASE ~(m = graph.target[c] /\ Fires(duty, c, n))
      <4>1. Waits(J, m)
        BY <1>1, <1>5, <2>9, <2>11, <3>2 DEF OwedInv
      <4>2. CASE \E d \in ChannelName : graph.target[d] = m /\ (chan[d].available \/ d \in J)
        <5>1. PICK d \in ChannelName : graph.target[d] = m /\ (chan[d].available \/ d \in J)
          BY <4>2
        <5>2. chan'[d].available \/ d \in J
          BY <2>1, <2>6, <2>10, <5>1
        <5> QED
          BY <5>1, <5>2 DEF Waits
      <4> QED
        BY <1>1, <2>2, <4>1, <4>2 DEF Waits
    <3> QED
      BY <3>1, <3>2
  <2> QED
    BY <1>1, <1>p, <2>7, <2>8, <2>11 DEF OwedInv
<1> QED
  BY <1>0, <1>1, <1>3, <1>4, <1>5 DEF GoroutineStep

\* The head of the queue moves behind its task in flight, or starts and takes its credit.
LEMMA FreshStart ==
  ASSUME NEW J, DagInv, CreditInv, OwedInv(J), QueueBehind \/ BreakBefore \/ NoSlot \/ NoStep \/ LaunchTask
  PROVE  CreditInv' /\ OwedInv(J)'
<1> DEFINE h == Head(ready)
<1>t. /\ duty \in DutyType /\ ready \in Seq(Node) /\ waiting \in [Node -> Nat]
      /\ draining \in BOOLEAN
  BY DEF DagInv, ContextTypeOK, LoopTypeOK
<1>0. status = "running" /\ pc = "start" /\ ~draining /\ ready # <<>>
  <2>1. Starting
    BY DEF QueueBehind, BreakBefore, NoSlot, NoStep, LaunchTask, PastBreakpoint
  <2> QED
    BY <2>1 DEF Starting, At
<1>h. h \in Node /\ Tail(ready) \in Seq(Node)
  BY <1>0, <1>t
<1>f. \A m \in Node : /\ Cardinality(Claims(m)) \in Nat /\ CountOf(pendingTasks, m) \in Nat
                      /\ CountOf(ready, m) \in Nat /\ waiting[m] \in Nat /\ duty.credit[m] \in Int
  BY OutstandingType
<1>q. \A m \in Node : /\ CountOf(ready, m) = CountOf(Tail(ready), m) + (IF m = h THEN 1 ELSE 0)
                      /\ CountOf(Tail(ready), m) \in Nat
  BY <1>0, <1>t, <1>h, CountTail, CountNat
<1>r. \A m : m \in Range(ready) => m = h \/ m \in Range(Tail(ready))
  <2> SUFFICES ASSUME NEW i \in DOMAIN ready
               PROVE  ready[i] = h \/ ready[i] \in Range(Tail(ready))
    BY DEF Range
  <2>1. CASE i = 1
    BY <1>0, <1>t, <2>1
  <2>2. CASE i # 1
    <3>1. i - 1 \in DOMAIN Tail(ready) /\ Tail(ready)[i - 1] = ready[i]
      BY <1>0, <1>t, <2>2
    <3> QED
      BY <3>1 DEF Range
  <2> QED
    BY <2>1, <2>2
<1> HIDE DEF h
<1>1. CASE QueueBehind
  <2>1. /\ waiting' = [waiting EXCEPT ![h] = waiting[h] + 1] /\ ready' = Tail(ready)
        /\ UNCHANGED <<status, pc, draining, resumedFrom, chan, mapped, duty, pendingTasks>>
    BY <1>1 DEF QueueBehind, ctxVars, h
  <2>2. \A m \in Node : Claims(m)' = Claims(m)
    BY <2>1 DEF Claims, Held
  <2>3. ASSUME NEW m \in Node PROVE Outstanding(m)' = Outstanding(m)
    <3>1. waiting'[m] = waiting[m] + (IF m = h THEN 1 ELSE 0)
      BY <1>h, <1>t, <2>1
    <3> QED
      BY <1>f, <1>q, <2>1, <2>2, <3>1 DEF Outstanding
  <2>4. CreditInv'
    BY <2>1, <2>3 DEF CreditInv
  <2>5. ASSUME NEW m \in Node, Waits(J, m) PROVE Waits(J, m)'
    <3>1. waiting'[h] > 0 /\ (m # h => waiting'[m] = waiting[m])
      BY <1>h, <1>t, <2>1
    <3> QED
      BY <1>r, <2>1, <2>5, <3>1 DEF Waits
  <2>6. duty.owed \subseteq Node
    BY <1>t DEF DutyType
  <2> QED
    BY <1>0, <2>1, <2>4, <2>5, <2>6 DEF OwedInv, Agree
<1>2. CASE BreakBefore
  <2>1. /\ duty' = StopBefore(duty, {Head(ready)}) /\ draining' = TRUE /\ pc' = "plan"
        /\ UNCHANGED <<status, resumedFrom, chan, mapped, pendingTasks, ready, waiting>>
    BY <1>2 DEF BreakBefore
  <2>2. /\ duty'.excess = duty.excess /\ duty'.arrived = duty.arrived
        /\ duty'.credit = duty.credit /\ duty'.owed = duty.owed
    BY <1>t, <2>1 DEF StopBefore, DutyType
  <2> QED
    BY <1>t, <2>1, <2>2, FreshUnchanged
<1>3. CASE NoSlot
  <2>1. /\ pc' = "plan"
        /\ UNCHANGED <<status, resumedFrom, chan, mapped, pendingTasks, ready, waiting, duty, draining>>
    BY <1>3 DEF NoSlot
  <2> QED
    BY <1>t, <2>1, FreshUnchanged
<1>4. CASE NoStep
  <2>1. /\ pc' = "plan" /\ draining' = TRUE
        /\ UNCHANGED <<status, resumedFrom, chan, mapped, pendingTasks, ready, waiting, duty>>
    BY <1>4 DEF NoStep
  <2> QED
    BY <1>t, <2>1, FreshUnchanged
<1>5. CASE LaunchTask
  <2>1. /\ duty' = Begin(duty, <<h>>) /\ ready' = Tail(ready)
        /\ UNCHANGED <<status, pc, draining, resumedFrom, chan, mapped, pendingTasks, waiting>>
    BY <1>5 DEF LaunchTask, h
  <2>0. CASE resumedFrom # 0
    BY <1>0, <2>0, <2>1 DEF CreditInv, OwedInv
  <2>2. CASE resumedFrom = 0
    <3>1. <<h>> \in Seq(Node) /\ Range(<<h>>) = {h}
      BY <1>h DEF Range
    <3>2. \A m \in Node : CountOf(<<h>>, m) = IF m = h THEN 1 ELSE 0
      BY CountSingle
    <3>3. \A m \in Node : Outstanding(m) <= duty.credit[m]
      BY <1>0, <2>2 DEF CreditInv
    <3>4. \A m \in Node : CountOf(<<h>>, m) <= duty.credit[m]
      <4> SUFFICES ASSUME NEW m \in Node PROVE CountOf(<<h>>, m) <= duty.credit[m]
        OBVIOUS
      <4>1. CountOf(ready, m) <= duty.credit[m]
        BY <1>f, <3>3 DEF Outstanding
      <4> QED
        BY <1>f, <1>q, <3>2, <4>1
    <3>5. /\ duty'.excess = duty.excess /\ duty'.arrived = duty.arrived
          /\ duty'.owed = duty.owed \ {h}
          /\ \A m \in Node : duty'.credit[m] = duty.credit[m] - CountOf(<<h>>, m)
      BY <1>t, <2>1, <3>1, <3>4, BeginEffect
    <3>6. \A m \in Node : Claims(m)' = Claims(m)
      BY <2>1, <3>5 DEF Claims, Held
    <3>7. ASSUME NEW m \in Node PROVE Outstanding(m)' <= duty'.credit[m]
      <4>1. Outstanding(m) <= duty.credit[m]
        BY <3>3
      <4> QED
        <5>1. /\ Cardinality(Claims(m)') = Cardinality(Claims(m)) /\ waiting'[m] = waiting[m]
              /\ CountOf(pendingTasks', m) = CountOf(pendingTasks, m)
              /\ CountOf(ready', m) = CountOf(ready, m) - (IF m = h THEN 1 ELSE 0)
          BY <1>f, <1>q, <2>1, <3>6
        <5>2. duty'.credit[m] = duty.credit[m] - (IF m = h THEN 1 ELSE 0)
          BY <3>2, <3>5
        <5> DEFINE one == IF m = h THEN 1 ELSE 0
        <5>4. one \in Nat
          OBVIOUS
        <5> HIDE DEF one
        <5>5. CountOf(ready', m) = CountOf(ready, m) - one /\ duty'.credit[m] = duty.credit[m] - one
          BY <5>1, <5>2 DEF one
        <5> QED
          BY <1>f, <4>1, <5>1, <5>4, <5>5 DEF Outstanding
    <3>8. CreditInv'
      BY <1>0, <2>1, <2>2, <3>5, <3>7 DEF CreditInv
    <3>9. ASSUME NEW m \in duty'.owed PROVE Waits(J, m)'
      <4>1. m \in duty.owed /\ m # h
        BY <3>5, <3>9
      <4>2. Waits(J, m)
        BY <1>0, <2>2, <4>1 DEF OwedInv
      <4> QED
        BY <1>r, <2>1, <4>1, <4>2 DEF Waits
    <3>10. Agree(J)'
      BY <1>0, <2>1, <2>2, <3>5 DEF OwedInv, Agree
    <3> QED
      BY <1>0, <2>1, <3>8, <3>9, <3>10 DEF OwedInv
  <2> QED
    BY <2>0, <2>2
<1> QED
  BY <1>1, <1>2, <1>3, <1>4, <1>5

\* A plan keeps what it does not queue; when nothing is left the graph has run out of work.
LEMMA FreshFinalize ==
  ASSUME NEW J, DagInv, CreditInv, OwedInv(J),
         PlanIfIdle \/ FinalizeInterrupt \/ FinalizeDrained \/ FinalizeDone
  PROVE  CreditInv' /\ OwedInv(J)'
<1>t. /\ duty \in DutyType /\ ready \in Seq(Node) /\ waiting \in [Node -> Nat]
      /\ draining \in BOOLEAN /\ duty.owed \subseteq Node /\ ContextTypeOK
  BY DEF DagInv, ContextTypeOK, LoopTypeOK, DutyType
<1>f. \A m \in Node : /\ Cardinality(Claims(m)) \in Nat /\ CountOf(pendingTasks, m) \in Nat
                      /\ CountOf(ready, m) \in Nat /\ waiting[m] \in Nat /\ duty.credit[m] \in Int
  BY OutstandingType
<1>1. CASE PlanIfIdle
  <2>1. /\ status = "running"
        /\ UNCHANGED <<status, draining, pauseRequested, resumedFrom, mapped, duty, waiting>>
    BY <1>1 DEF PlanIfIdle, At
  <2>2. CASE draining \/ pauseRequested \/ ready # <<>>
    <3>1. UNCHANGED <<chan, pendingTasks, ready>>
      BY <1>1, <2>2 DEF PlanIfIdle
    <3>2. \A m \in Node : Claims(m)' = Claims(m)
      BY <2>1, <3>1 DEF Claims, Held
    <3>3. CreditInv'
      BY <2>1, <3>1, <3>2 DEF CreditInv, Outstanding
    <3>4. OwedInv(J)'
      BY <2>1, <2>2, <3>1 DEF OwedInv, Waits, Agree
    <3> QED
      BY <3>3, <3>4
  <2>3. CASE ~(draining \/ pauseRequested \/ ready # <<>>)
    <3>1. QueuePlannedTasks(ready)
      BY <1>1, <2>3 DEF PlanIfIdle
    <3>2. /\ \A n \in Node :
               Cardinality(Claims(n)') + CountOf(pendingTasks', n) + CountOf(ready', n)
                 <= Cardinality(Claims(n)) + CountOf(pendingTasks, n) + CountOf(ready, n)
          /\ NothingPlanned'
          /\ \A c \in ChannelName : chan'[c].available => chan[c].available
          /\ \A c \in ChannelName : \/ chan'[c] = chan[c]
                                    \/ chan[c].available /\ chan'[c] = Acknowledge(chan[c])
          /\ Range(ready) \subseteq Range(ready') /\ Range(pendingTasks) \subseteq Range(ready')
          /\ \A c \in ChannelName : chan[c].available /\ c \in mapped /\ graph.target[c] \in Node =>
               graph.target[c] \in Range(ready')
      BY <1>t, <2>1, <3>1, FreshQueue
    <3>3. ASSUME resumedFrom = 0, NEW m \in Node PROVE Outstanding(m)' <= duty'.credit[m]
      <4>1. /\ Cardinality(Claims(m)') \in Nat /\ CountOf(pendingTasks', m) \in Nat
            /\ CountOf(ready', m) \in Nat
        <5>1. DagInv'
          BY DagInvNext, <1>1 DEF Next, LoopStep
        <5> QED
          BY <5>1, OutstandingNext
      <4>2. Outstanding(m) <= duty.credit[m]
        BY <2>1, <3>3 DEF CreditInv
      <4>3. Cardinality(Claims(m)') + CountOf(pendingTasks', m) + CountOf(ready', m)
              <= Cardinality(Claims(m)) + CountOf(pendingTasks, m) + CountOf(ready, m)
        BY <3>2
      <4> QED
        BY <1>f, <2>1, <4>1, <4>2, <4>3 DEF Outstanding
    <3>4. CreditInv'
      BY <2>1, <3>2, <3>3 DEF CreditInv
    <3>5. ASSUME resumedFrom = 0, NEW m \in duty.owed PROVE Waits(J, m)'
      <4>1. Waits(J, m) /\ m \in Node
        BY <1>t, <2>1, <2>3, <3>5 DEF OwedInv
      <4>2. \A c \in ChannelName : chan[c].available => c \in mapped
        BY <2>1, <3>5 DEF CreditInv
      <4> QED
        BY <2>1, <3>2, <4>1, <4>2 DEF Waits
    <3>6. resumedFrom = 0 => Agree(J)'
      BY <1>t, <2>1, <3>2, AcknowledgeAgrees DEF OwedInv
    <3> QED
      BY <2>1, <3>2, <3>4, <3>5, <3>6 DEF OwedInv
  <2> QED
    BY <2>2, <2>3
<1>2. CASE FinalizeInterrupt
  BY <1>2 DEF FinalizeInterrupt, CreditInv, OwedInv
<1>3. CASE FinalizeDrained
  BY <1>3 DEF FinalizeDrained, CreditInv, OwedInv, ctxVars
<1>4. CASE FinalizeDone
  <2>1. /\ status = "running" /\ pc = "finalize" /\ inFlight = {} /\ ~draining /\ ~pauseRequested
        /\ ready = <<>> /\ status' = "done"
        /\ UNCHANGED <<resumedFrom, duty>>
    <3>1. /\ At("finalize") /\ Idle /\ ~draining /\ ~pauseRequested /\ ready = <<>>
          /\ status' = "done"
      BY <1>4 DEF FinalizeDone
    <3>2. UNCHANGED <<resumedFrom, duty>>
      BY <1>4 DEF FinalizeDone
    <3> QED
      BY <3>1, <3>2 DEF At, Idle
  <2>2. LiveSteps = {} /\ \A n \in Node : waiting[n] = 0
    <3>1. LiveSteps = {}
      BY <2>1 DEF DagInv, Accounted
    <3>2. \A n \in Node : waiting[n] \in Nat /\ ~(waiting[n] > 0)
      BY <1>t, <2>1 DEF DagInv, Accounted, WaitsBehindTask
    <3>3. \A n \in Node : waiting[n] = 0
      BY <3>2
    <3> QED
      BY <3>1, <3>3
  <2>3. NothingPlanned
    BY <2>1, <2>2 DEF OwedInv
  <2>4. ASSUME resumedFrom = 0, NEW m \in duty.owed
        PROVE  \E c \in ChannelName : graph.target[c] = m /\ c \in J
    <3>1. Waits(J, m) /\ m \in Node
      BY <1>t, <2>1, <2>4 DEF OwedInv
    <3>2. m \notin Range(ready) /\ m \notin Range(pendingTasks) /\ waiting[m] = 0
      BY <2>1, <2>2, <2>3, <3>1 DEF NothingPlanned, Range
    <3>3. \A c \in ChannelName : ~chan[c].available
      BY <2>1, <2>3, <2>4 DEF CreditInv, NothingPlanned, Available
    <3> QED
      BY <3>1, <3>2, <3>3 DEF Waits
  <2> QED
    BY <2>1, <2>4 DEF CreditInv, OwedInv
<1> QED
  BY <1>1, <1>2, <1>3, <1>4

\* A result releases the tasks that waited behind it; a task that did not complete is owed
\* again.
LEMMA FreshResult ==
  ASSUME NEW J, DagInv, CreditInv, OwedInv(J), NEW s \in Steps, TaskSucceeded(s) \/ TaskFailed(s)
  PROVE  CreditInv' /\ OwedInv(J)'
<1> DEFINE n == worker[s].node
           q == Unblocked(n)
<1>t. /\ duty \in DutyType /\ ready \in Seq(Node) /\ waiting \in [Node -> Nat]
      /\ draining \in BOOLEAN /\ duty.owed \subseteq Node /\ LoopTypeOK /\ WorkerNodes
      /\ ContextTypeOK
  BY LiveWorkersHaveNodes DEF DagInv, ContextTypeOK, LoopTypeOK, DutyType
<1>f. \A m \in Node : /\ Cardinality(Claims(m)) \in Nat /\ CountOf(pendingTasks, m) \in Nat
                      /\ CountOf(ready, m) \in Nat /\ waiting[m] \in Nat /\ duty.credit[m] \in Int
  BY OutstandingType
<1>g. \A m \in Node : /\ Cardinality(Claims(m)') \in Nat /\ CountOf(pendingTasks', m) \in Nat
                      /\ CountOf(ready', m) \in Nat /\ waiting'[m] \in Nat
  <2>1. DagInv'
    <3>1. LoopStep
      BY DEF LoopStep
    <3> QED
      BY <3>1, DagInvNext DEF Next
  <2> QED
    BY <2>1, OutstandingNext
<1>1. /\ Received(s) /\ status = "running" /\ pc' = "request" /\ n \in Node
      /\ waiting' = [waiting EXCEPT ![n] = 0]
      /\ UNCHANGED <<status, mapped, resumedFrom>>
  BY <1>t DEF TaskSucceeded, TaskFailed, Received, Waiting, At, WorkerNodes, Live
<1> DEFINE blocked == [i \in 1..waiting[n] |-> n]
<1>2. waiting[n] \in Nat /\ blocked \in Seq(Node) /\ q = ready \o blocked /\ q \in Seq(Node)
  <2>1. waiting[n] \in Nat
    BY <1>1, <1>t
  <2>2. blocked \in [1..waiting[n] -> Node]
    BY <1>1
  <2>3. blocked \in Seq(Node)
    BY <2>1, <2>2, FunctionIsSeq
  <2>4. q \in Seq(Node)
    BY <1>1, <1>t, UnblockedType
  <2> QED
    <3>1. q = ready \o blocked
      BY DEF Unblocked
    <3> HIDE DEF q, blocked, n
    <3> QED
      BY <2>1, <2>3, <2>4, <3>1
<1>3. \A m \in Node : CountOf(q, m) + waiting'[m] = CountOf(ready, m) + waiting[m]
  <2> SUFFICES ASSUME NEW m \in Node
               PROVE  CountOf(q, m) + waiting'[m] = CountOf(ready, m) + waiting[m]
    OBVIOUS
  <2>1. CountOf(blocked, m) = IF m = n THEN waiting[n] ELSE 0
    <3>1. Len(blocked) = waiting[n] /\ \A i \in DOMAIN blocked : blocked[i] = n
      BY <1>2
    <3> HIDE DEF blocked, n
    <3> QED
      BY <1>2, <3>1, CountRepeat
  <2>2. waiting'[m] = IF m = n THEN 0 ELSE waiting[m]
    BY <1>1, <1>t
  <2> HIDE DEF blocked, q, n
  <2>3. CountOf(q, m) = CountOf(ready, m) + CountOf(blocked, m)
    BY <1>2, <1>t, CountConcat
  <2> QED
    BY <1>f, <2>1, <2>2, <2>3
<1>4. \A m \in Node : m \in Range(ready) \/ waiting[m] > 0 =>
        m \in Range(q) \/ waiting'[m] > 0
  <2> HIDE DEF q, blocked, n
  <2> SUFFICES ASSUME NEW m \in Node, m \in Range(ready) \/ waiting[m] > 0
               PROVE  m \in Range(q) \/ waiting'[m] > 0
    OBVIOUS
  <2>1. CountOf(ready, m) > 0 \/ waiting[m] > 0
    BY <1>t, CountPositive
  <2>2. CountOf(q, m) \in Nat
    BY <1>2, CountNat
  <2>3. CountOf(q, m) > 0 \/ waiting'[m] > 0
    BY <1>3, <1>f, <1>g, <2>1, <2>2
  <2> QED
    BY <1>2, <2>3, CountPositive
<1>5. CASE QueuePlannedTasks(q) /\ UNCHANGED <<duty, draining, pendingIntr>>
  <2> HIDE DEF q, blocked, n
  <2>1. /\ \A m \in Node :
             Cardinality(Claims(m)') + CountOf(pendingTasks', m) + CountOf(ready', m)
               <= Cardinality(Claims(m)) + CountOf(pendingTasks, m) + CountOf(q, m)
        /\ \A c \in ChannelName : chan'[c].available => chan[c].available
        /\ \A c \in ChannelName : \/ chan'[c] = chan[c]
                                  \/ chan[c].available /\ chan'[c] = Acknowledge(chan[c])
        /\ Range(q) \subseteq Range(ready') /\ Range(pendingTasks) \subseteq Range(ready')
        /\ \A c \in ChannelName : chan[c].available /\ c \in mapped /\ graph.target[c] \in Node =>
             graph.target[c] \in Range(ready')
    BY <1>1, <1>2, <1>5, FreshQueue
  <2>2. ASSUME resumedFrom = 0, NEW m \in Node PROVE Outstanding(m)' <= duty'.credit[m]
    <3>1. Outstanding(m) <= duty.credit[m]
      BY <1>1, <2>2 DEF CreditInv
    <3>2. Cardinality(Claims(m)') + CountOf(pendingTasks', m) + CountOf(ready', m)
            <= Cardinality(Claims(m)) + CountOf(pendingTasks, m) + CountOf(q, m)
      BY <2>1
    <3>3. CountOf(q, m) + waiting'[m] = CountOf(ready, m) + waiting[m] /\ CountOf(q, m) \in Nat
      BY <1>2, <1>3, CountNat
    <3> QED
      BY <1>5, <1>f, <1>g, <3>1, <3>2, <3>3 DEF Outstanding
  <2>3. CreditInv'
    BY <1>1, <1>5, <2>1, <2>2 DEF CreditInv
  <2>4. ASSUME resumedFrom = 0, ~draining, NEW m \in duty.owed PROVE Waits(J, m)'
    <3>1. Waits(J, m) /\ m \in Node
      BY <1>1, <1>t, <2>4 DEF OwedInv
    <3>2. \A c \in ChannelName : chan[c].available => c \in mapped
      BY <1>1, <2>4 DEF CreditInv
    <3> QED
      BY <1>4, <2>1, <3>1, <3>2 DEF Waits
  <2>5. resumedFrom = 0 => Agree(J)'
    BY <1>t, <1>1, <1>5, <2>1, AcknowledgeAgrees DEF OwedInv
  <2> QED
    BY <1>1, <1>5, <2>3, <2>4, <2>5 DEF OwedInv
<1>6. CASE ready' = q /\ UNCHANGED <<chan, pendingTasks, duty>> /\ draining' \in {draining, TRUE}
  <2> HIDE DEF q, blocked, n
  <2>1. \A m \in Node : Claims(m)' = Claims(m)
    BY <1>6 DEF Claims, Held
  <2>2. ASSUME resumedFrom = 0, NEW m \in Node PROVE Outstanding(m)' <= duty'.credit[m]
    <3>1. Outstanding(m) <= duty.credit[m]
      BY <1>1, <2>2 DEF CreditInv
    <3>2. CountOf(q, m) + waiting'[m] = CountOf(ready, m) + waiting[m] /\ CountOf(q, m) \in Nat
      BY <1>2, <1>3, CountNat
    <3> QED
      BY <1>6, <1>f, <1>g, <2>1, <3>1, <3>2 DEF Outstanding
  <2>3. CreditInv'
    BY <1>1, <1>6, <2>2 DEF CreditInv
  <2>4. ~draining' => ~draining
    BY <1>6, <1>t
  <2>5. ASSUME resumedFrom = 0, ~draining, NEW m \in duty.owed PROVE Waits(J, m)'
    <3>1. Waits(J, m) /\ m \in Node
      BY <1>1, <1>t, <2>5 DEF OwedInv
    <3> QED
      BY <1>4, <1>6, <3>1 DEF Waits
  <2>6. resumedFrom = 0 => Agree(J)'
    BY <1>1, <1>6 DEF OwedInv, Agree
  <2> QED
    BY <1>1, <1>6, <2>3, <2>4, <2>5, <2>6 DEF OwedInv
<1>7. CASE TaskFailed(s)
  <2>1. /\ ready' = q /\ duty' = Owe(duty, <<n>>) /\ draining' = TRUE
        /\ UNCHANGED <<chan, pendingTasks>>
    BY <1>7 DEF TaskFailed
  <2> HIDE DEF q, blocked
  <2>2. <<n>> \in Seq(Node \cup {End})
    BY <1>1
  <2> HIDE DEF n
  <2>3. /\ \A m \in Node : duty'.credit[m] = duty.credit[m] + CountOf(<<n>>, m)
        /\ duty'.arrived = duty.arrived /\ duty'.excess = duty.excess
    BY <1>t, <2>1, <2>2, OweEffect
  <2>4. \A m \in Node : Claims(m)' = Claims(m) /\ CountOf(<<n>>, m) \in Nat
    BY <2>1, <2>2, <2>3, CountNat DEF Claims, Held
  <2>5. ASSUME resumedFrom = 0, NEW m \in Node PROVE Outstanding(m)' <= duty'.credit[m]
    <3>1. Outstanding(m) <= duty.credit[m]
      BY <1>1, <2>5 DEF CreditInv
    <3>2. CountOf(q, m) + waiting'[m] = CountOf(ready, m) + waiting[m] /\ CountOf(q, m) \in Nat
      BY <1>2, <1>3, CountNat
    <3> QED
      BY <1>f, <1>g, <2>1, <2>3, <2>4, <3>1, <3>2 DEF Outstanding
  <2>6. resumedFrom = 0 => Agree(J)'
    BY <1>1, <2>1, <2>3 DEF OwedInv, Agree
  <2> QED
    BY <1>1, <2>1, <2>3, <2>5, <2>6 DEF CreditInv, OwedInv
<1>8. CASE TaskSucceeded(s)
  <2>1. /\ duty' = duty
        /\ \/ QueuePlannedTasks(q) /\ UNCHANGED <<draining, pendingIntr>>
           \/ ready' = q /\ UNCHANGED <<chan, pendingTasks>> /\ draining' \in {draining, TRUE}
    BY <1>8 DEF TaskSucceeded
  <2> HIDE DEF q, blocked, n
  <2> QED
    BY <1>5, <1>6, <2>1
<1> QED
  BY <1>7, <1>8

\* Nothing is owed before the first run but the entry node.
LEMMA FreshInit == ASSUME NEW J PROVE Init => CreditInv /\ OwedInv(J)
<1> SUFFICES ASSUME Init PROVE CreditInv /\ OwedInv(J)
  OBVIOUS
<1>1. duty.excess = {} /\ status = "idle"
  BY DEF Init, InitContext, InitialDuty
<1> QED
  BY <1>1 DEF CreditInv, OwedInv

\* Every step preserves both.
LEMMA FreshNext ==
  ASSUME NEW J, DagInv, CreditInv, OwedInv(J), [Next]_vars, [StartsOnce(J)]_vars
  PROVE  CreditInv' /\ OwedInv(J)'
<1>1. CASE \/ RequestInterrupt \/ CancelContext \/ Request \/ StartNothing \/ KeepGoing \/ Poll
           \/ ContextDone \/ UNCHANGED vars
  <2>1. /\ UNCHANGED <<resumedFrom, chan, mapped, pendingTasks, ready, waiting, duty, status, worker>>
        /\ draining' \in {draining, TRUE} /\ draining \in BOOLEAN
        /\ pc' # "finalize" \/ UNCHANGED <<pc, draining, pauseRequested>>
    <3> USE DEF DagInv, LoopTypeOK, ctxVars, loopVars
    <3>1. CASE RequestInterrupt \/ CancelContext \/ UNCHANGED vars
      BY <3>1 DEF RequestInterrupt, CancelContext, vars
    <3>2. CASE Request \/ StartNothing \/ KeepGoing \/ Poll \/ ContextDone
      BY <3>2 DEF Request, StartNothing, KeepGoing, Poll, ContextDone
    <3> QED
      BY <1>1, <3>1, <3>2
  <2>2. LiveSteps' = LiveSteps
    BY <2>1 DEF LiveSteps
  <2> QED
    BY <2>1, <2>2, FreshUnchanged
<1>2. CASE Next /\ StartsOnce(J)
  BY <1>1, <1>2, FreshRun, FreshGoroutine, FreshStart, FreshFinalize, FreshResult
     DEF Next, LoopStep, LineageOver
<1> QED
  BY <1>1, <1>2

FreshInv(J) == DagInv /\ CreditInv /\ OwedInv(J)

\* They hold as long as no start of a join outside J completes again too early.
LEMMA FreshInvInductive ==
  ASSUME NEW J
  PROVE  /\ Init => FreshInv(J)
         /\ FreshInv(J) /\ [Next]_vars /\ [StartsOnce(J)]_vars => FreshInv(J)'
<1>1. Init => FreshInv(J)
  BY DagInvInit, FreshInit DEF FreshInv
<1>2. FreshInv(J) /\ [Next]_vars /\ [StartsOnce(J)]_vars => FreshInv(J)'
  BY DagInvNext, FreshNext DEF FreshInv
<1> QED
  BY <1>1, <1>2

\* Until a checkpoint is resumed the eager loop starts no node without an activation to
\* account for it: for every graph, whatever the order in which goroutines write, return
\* and are received while the loop plans (planDagTasks, startTask, handleTaskResult).
THEOREM NothingRepeatedFresh == Spec => [](resumedFrom = 0 => NothingRepeated)
<1>1. FreshInv(ChannelName) => (resumedFrom = 0 => NothingRepeated)
  BY DEF FreshInv, CreditInv, NothingRepeated
<1>2. [StartsOnce(ChannelName)]_vars
  BY DEF StartsOnce
<1>3. /\ Init => FreshInv(ChannelName)
      /\ FreshInv(ChannelName) /\ [Next]_vars /\ [StartsOnce(ChannelName)]_vars
           => FreshInv(ChannelName)'
  BY FreshInvInductive
<1> QED
  BY <1>1, <1>2, <1>3, PTL DEF Spec

\* When a run that started afresh reports completion, every node that was triggered has
\* started, for every graph, but for the targets of joins a start of which has completed
\* again while the barrier was full: the barrier forgets that completion when it is
\* acknowledged (Update, Acknowledge).  J is any set that holds all joins to which that
\* happens in a behaviour.
THEOREM OnlyRepeatedJoinsLose ==
  ASSUME NEW J \in SUBSET ChannelName
  PROVE  Spec /\ [][StartsOnce(J)]_vars =>
           [](resumedFrom = 0 /\ status = "done" =>
                \A n \in duty.owed : \E c \in J : graph.target[c] = n)
<1> DEFINE Lost == \A n \in duty.owed : \E c \in J : graph.target[c] = n
<1>1. FreshInv(J) => (resumedFrom = 0 /\ status = "done" => Lost)
  BY DEF FreshInv, OwedInv
<1>2. /\ Init => FreshInv(J)
      /\ FreshInv(J) /\ [Next]_vars /\ [StartsOnce(J)]_vars => FreshInv(J)'
  BY FreshInvInductive
<1> HIDE DEF Lost
<1>3. Spec /\ [][StartsOnce(J)]_vars => [](resumedFrom = 0 /\ status = "done" => Lost)
  BY <1>1, <1>2, PTL DEF Spec
<1> QED
  BY <1>3 DEF Lost

\* A fresh run in which no start of a join completes again while the barrier is full loses
\* nothing.
THEOREM NothingLostUnrepeated ==
  Spec /\ [][StartsOnce({})]_vars => [](resumedFrom = 0 => NothingLost)
<1>1. FreshInv({}) => (resumedFrom = 0 => NothingLost)
  BY DEF FreshInv, OwedInv, NothingLost
<1>2. /\ Init => FreshInv({})
      /\ FreshInv({}) /\ [Next]_vars /\ [StartsOnce({})]_vars => FreshInv({})'
  BY FreshInvInductive
<1> QED
  BY <1>1, <1>2, PTL DEF Spec

\* So nothing is lost on a fresh run of a graph without joins.
THEOREM NothingLostFresh ==
  ASSUME \A c \in ChannelName : graph.expected[c] = {}
  PROVE  Spec => [](resumedFrom = 0 => NothingLost)
<1>1. [StartsOnce({})]_vars
  BY DEF StartsOnce, StartRepeats
<1> QED
  BY <1>1, NothingLostUnrepeated, PTL
-----------------------------------------------------------------------------
(***************************************************************************)
(* The loop waits for somebody                                             *)
(***************************************************************************)

\* The current run did not replay writes into its channels: it is fresh, or was resumed
\* from a checkpoint that records its work as next nodes.
Seeded == resumedFrom = 0 \/ ckpts[resumedFrom].pendingWrites = {}

\* A barrier that has heard from all its starts is available; other channels record nobody.
Barriers ==
  \A c \in ChannelName : IF graph.expected[c] = {} THEN chan[c].seen = {}
                         ELSE graph.expected[c] \subseteq chan[c].seen => chan[c].available

\* A checkpoint without writes to replay names the targets of the barriers it completes.
CalmCheckpoint ==
  {ck \in CheckpointType :
     /\ \A c \in ChannelName : graph.expected[c] = {} => ck.barrierSets[c] = {}
     /\ ck.pendingWrites = {} =>
          \A c \in ChannelName :
             /\ graph.expected[c] # {} /\ graph.expected[c] \subseteq ck.barrierSets[c]
             /\ graph.target[c] \in Node
             => graph.target[c] \in Range(ck.nextNodes)}

\* Nothing is in flight and the loop may start tasks.
Quiet == LiveSteps = {} /\ ~draining /\ ~pauseRequested

NothingReady == pendingTasks = <<>> /\ \A c \in ChannelName : chan[c].available => graph.target[c] \notin Node

\* Work that nobody in flight will bring is in the queue before the loop plans, and has
\* started before it waits.
Supplied ==
  /\ \A c \in ChannelName : chan[c].available => c \in mapped
  /\ Quiet /\ ready = <<>> => NothingReady
  /\ Quiet /\ pc \in {"plan", "finalize"} => ready = <<>>
  /\ pc \in {"wait", "select"} => LiveSteps # {}

WorkInv ==
  /\ graph.mapped \subseteq mapped /\ Barriers /\ ckpts \in Seq(CalmCheckpoint)
  /\ status = "running" /\ Seeded => Supplied

\* What a channel keeps when it is written or consumed.
LEMMA BarriersUpdated ==
  ASSUME DagInv, Barriers
  PROVE  /\ \A n \in Node, c \in ChannelName : WriteChannel(n, c) => Barriers'
         /\ \A q \in Seq(Node) : QueuePlannedTasks(q) => Barriers'
         /\ chan' = chan => Barriers'
<1>t. chan \in [ChannelName -> ChannelType(Node)] /\ graph.expected \in [ChannelName -> SUBSET Node]
  BY GraphAssumption DEF DagInv, ContextTypeOK, ChannelName, Node
<1>1. ASSUME NEW n \in Node, NEW c \in ChannelName, WriteChannel(n, c) PROVE Barriers'
  <2>1. chan' = [chan EXCEPT ![c] = Update(chan[c], graph.expected[c], n)]
    BY <1>1 DEF WriteChannel
  <2> SUFFICES ASSUME NEW d \in ChannelName
               PROVE  IF graph.expected[d] = {} THEN chan'[d].seen = {}
                      ELSE graph.expected[d] \subseteq chan'[d].seen => chan'[d].available
    BY DEF Barriers
  <2>2. CASE d = c
    <3>1. chan'[d] = Update(chan[d], graph.expected[d], n)
      BY <1>t, <2>1, <2>2
    <3>2. /\ chan'[d].seen = IF graph.expected[d] = {} THEN chan[d].seen ELSE chan[d].seen \cup {n}
          /\ chan'[d].available = (graph.expected[d] \subseteq chan'[d].seen)
      BY <3>1 DEF Update, BarrierSatisfied
    <3>3. graph.expected[d] = {} => chan[d].seen = {}
      BY DEF Barriers
    <3> QED
      BY <3>2, <3>3
  <2>3. CASE d # c
    BY <1>t, <2>1, <2>3 DEF Barriers
  <2> QED
    BY <2>2, <2>3
<1>2. ASSUME NEW q \in Seq(Node), QueuePlannedTasks(q) PROVE Barriers'
  <2>1. chan' = [c \in ChannelName |-> IF c \in Available(chan, mapped) THEN Acknowledge(chan[c])
                                       ELSE chan[c]]
    BY <1>2 DEF QueuePlannedTasks
  <2> SUFFICES ASSUME NEW d \in ChannelName
               PROVE  IF graph.expected[d] = {} THEN chan'[d].seen = {}
                      ELSE graph.expected[d] \subseteq chan'[d].seen => chan'[d].available
    BY DEF Barriers
  <2>2. chan'[d] = chan[d] \/ chan'[d].seen = {}
    BY <1>t, <2>1 DEF Acknowledge, ChannelType
  <2> QED
    BY <1>t, <2>2 DEF Barriers
<1>3. chan' = chan => Barriers'
  BY DEF Barriers
<1> QED
  BY <1>1, <1>2, <1>3

\* A checkpoint of the current channels whose next nodes are those of the frontier is calm.
LEMMA CalmSaved ==
  ASSUME DagInv, WorkInv, NEW st \in Nat \cup {-1}, NEW next \in Seq(Node \cup {End}),
         NEW writes \in SUBSET PendingWriteType,
         GetNextNodes(chan) \cap Node \subseteq Range(next)
  PROVE  Checkpoint(st, chan, skips, next, writes, duty) \in CalmCheckpoint
<1> DEFINE ck == Checkpoint(st, chan, skips, next, writes, duty)
<1>1. ck \in CheckpointType
  BY CheckpointRecordType DEF DagInv, ContextTypeOK
<1>2. /\ ck.barrierSets = [c \in ChannelName |-> chan[c].seen] /\ ck.nextNodes = next
  BY DEF Checkpoint
<1> HIDE DEF ck
<1>3. ASSUME NEW c \in ChannelName, graph.expected[c] = {} PROVE ck.barrierSets[c] = {}
  BY <1>2, <1>3 DEF WorkInv, Barriers
<1>4. ASSUME NEW c \in ChannelName, graph.expected[c] # {},
             graph.expected[c] \subseteq ck.barrierSets[c], graph.target[c] \in Node
      PROVE  graph.target[c] \in Range(ck.nextNodes)
  <2>1. chan[c].available
    BY <1>2, <1>4 DEF WorkInv, Barriers
  <2>2. c \in mapped
    BY <1>4, GraphAssumption DEF WorkInv, ChannelName
  <2>3. graph.target[c] \in GetNextNodes(chan)
    BY <2>1, <2>2 DEF GetNextNodes, Targets, Available
  <2> QED
    BY <1>2, <1>4, <2>3
<1>5. ck \in CalmCheckpoint
  BY <1>1, <1>3, <1>4 DEF CalmCheckpoint
<1> QED
  BY <1>5 DEF ck

\* Within a run the checkpoint it was resumed from stays as it is.
LEMMA SeededKept ==
  ASSUME DagInv, UNCHANGED <<resumedFrom, ckpts>>
  PROVE  Seeded' <=> Seeded
BY DEF Seeded

\* A run that replays nothing starts with its work in the queue.
LEMMA WorkRun ==
  ASSUME DagInv, WorkInv, StartRun \/ ResumeRun \/ Crash
  PROVE  WorkInv'
<1>g. /\ graph.expected \in [ChannelName -> SUBSET Node] /\ graph.mapped \subseteq ChannelName
      /\ \A c \in ChannelName : graph.expected[c] # {} => c \in graph.mapped
  BY GraphAssumption DEF ChannelName, Node
<1>1. CASE StartRun
  <2>1. PICK saved \in Saves : FreshContext(saved)
    BY <1>1 DEF StartRun
  <2>2. chan' = [c \in ChannelName |-> NewChannel] /\ mapped' = mapped
    BY <2>1 DEF FreshContext
  <2>3. /\ ready' = <<graph.entry>> /\ pc' = "request"
    BY <1>1 DEF StartRun, NewLoop
  <2>4. Barriers' /\ Supplied'
    BY <1>g, <2>2, <2>3 DEF Barriers, Supplied, NewChannel
  <2>5. ckpts' \in Seq(CalmCheckpoint)
    <3> DEFINE seen == [n \in Node |-> [c \in ChannelName |-> NeverSeen]]
               ck == [step |-> -1, skips |-> {}, nextNodes |-> <<graph.entry>>,
                      pendingWrites |-> {}, versions |-> [c \in ChannelName |-> 0],
                      barrierSets |-> [c \in ChannelName |-> {}],
                      versionsSeen |-> seen, promise |-> InitialDuty]
    <3>1. ckpts' = IF saved THEN <<ck>> ELSE <<>>
      BY <2>1 DEF FreshContext
    <3>2. ck.barrierSets = [c \in ChannelName |-> {}]
      OBVIOUS
    <3>3. ck \in CheckpointType
      <4>1. seen \in [Node -> [ChannelName -> Int]]
        BY DEF NeverSeen
      <4>2. <<graph.entry>> \in Seq(Node \cup {End})
        BY GraphAssumption DEF Node
      <4>3. InitialDuty \in DutyType
        BY GraphAssumption DEF InitialDuty, DutyType, Node
      <4> HIDE DEF seen
      <4> QED
        BY <4>1, <4>2, <4>3 DEF CheckpointType
    <3> HIDE DEF ck
    <3>4. \A c \in ChannelName : ck.barrierSets[c] = {}
      BY <3>2
    <3>5. ck \in CalmCheckpoint
      BY <1>g, <3>3, <3>4 DEF CalmCheckpoint
    <3> QED
      BY <3>1, <3>5
  <2> QED
    BY <2>2, <2>4, <2>5 DEF WorkInv
<1>2. CASE ResumeRun
  <2>1. PICK k \in DOMAIN ckpts : \E seeds \in Executable(SeedNodes(ckpts[k])) :
          ResumeContext(k, <<>>) /\ NewLoop(ckpts[k].step + 1, seeds)
    BY <1>2 DEF ResumeRun
  <2>2. PICK seeds \in Executable(SeedNodes(ckpts[k])) :
          ResumeContext(k, <<>>) /\ NewLoop(ckpts[k].step + 1, seeds)
    BY <2>1
  <2> DEFINE ck == ckpts[k]
             chs == RestoreChannels(ck)
  <2>3. ck \in CalmCheckpoint /\ ck \in CheckpointType
    BY DEF WorkInv, CalmCheckpoint
  <2>4. /\ chan' = ApplyPendingWrites(chs, ck.pendingWrites) /\ mapped' = mapped /\ ckpts' = ckpts
        /\ pendingTasks' = <<>> /\ resumedFrom' = k
    BY <2>2 DEF ResumeContext
  <2>5. ready' = seeds /\ pc' = "request"
    BY <2>2 DEF NewLoop
  <2>6. ck.pendingWrites = {} => chan' = chs
    <3>1. ASSUME ck.pendingWrites = {} PROVE ApplyPendingWrites(chs, ck.pendingWrites) = chs
      <4>2. \A c \in ChannelName : {w[2] : w \in {v \in ck.pendingWrites : v[1] = c}} = {}
        BY <3>1
      <4>3. chs = [c \in ChannelName |-> chs[c]]
        BY DEF RestoreChannels
      <4> HIDE DEF chs, ck
      <4> QED
        BY <4>2, <4>3 DEF ApplyPendingWrites
    <3> QED
      BY <2>4, <3>1
  <2>7. \A c \in ChannelName :
          /\ graph.expected[c] = {} => chs[c].seen = {} /\ ~chs[c].available
          /\ chs[c].seen \in {{}, ck.barrierSets[c]}
          /\ chs[c].available <=> chs[c].seen # {} /\ graph.expected[c] \subseteq chs[c].seen
    <3> SUFFICES ASSUME NEW c \in ChannelName
                 PROVE  /\ graph.expected[c] = {} => chs[c].seen = {} /\ ~chs[c].available
                        /\ chs[c].seen \in {{}, ck.barrierSets[c]}
                        /\ chs[c].available <=> chs[c].seen # {} /\ graph.expected[c] \subseteq chs[c].seen
      OBVIOUS
    <3>1. graph.expected[c] = {} => ck.barrierSets[c] = {}
      BY <2>3 DEF CalmCheckpoint
    <3> DEFINE new == [NewChannel EXCEPT !.version = ck.versions[c]]
    <3>2. chs[c] = IF c \notin declared THEN NewChannel
                   ELSE IF ck.barrierSets[c] = {} THEN new
                   ELSE SetBarrierSeen(new, graph.expected[c], ck.barrierSets[c])
      BY DEF RestoreChannels
    <3>3. /\ NewChannel.seen = {} /\ ~NewChannel.available /\ new.seen = {} /\ ~new.available
      BY DEF NewChannel
    <3>4. /\ SetBarrierSeen(new, graph.expected[c], ck.barrierSets[c]).seen = ck.barrierSets[c]
          /\ SetBarrierSeen(new, graph.expected[c], ck.barrierSets[c]).available
               <=> graph.expected[c] \subseteq ck.barrierSets[c]
      BY DEF SetBarrierSeen, NewChannel, BarrierSatisfied
    <3> HIDE DEF chs, ck, new
    <3> QED
      BY <3>1, <3>2, <3>3, <3>4
  <2>8. Barriers'
    <3> HIDE DEF chs, ck
    <3> SUFFICES ASSUME NEW c \in ChannelName
                 PROVE  IF graph.expected[c] = {} THEN chan'[c].seen = {}
                        ELSE graph.expected[c] \subseteq chan'[c].seen => chan'[c].available
      BY DEF Barriers
    <3> DEFINE senders == {w[2] : w \in {v \in ck.pendingWrites : v[1] = c}}
               seen == IF graph.expected[c] = {} THEN chs[c].seen ELSE chs[c].seen \cup senders
    <3>1. chan'[c] = IF c \notin declared \/ senders = {} THEN chs[c]
                     ELSE [version |-> chs[c].version + Cardinality(senders),
                           available |-> BarrierSatisfied(graph.expected[c], seen),
                           seen |-> seen]
      BY <2>4 DEF ApplyPendingWrites
    <3> HIDE DEF senders
    <3>2. CASE chan'[c] = chs[c]
      BY <1>g, <2>7, <3>2
    <3>3. CASE chan'[c] # chs[c]
      <4>1. chan'[c].seen = seen /\ chan'[c].available = (graph.expected[c] \subseteq seen)
        BY <3>1, <3>3 DEF BarrierSatisfied
      <4> QED
        BY <2>7, <4>1
    <3> QED
      BY <3>2, <3>3
  <2>9. ASSUME ck.pendingWrites = {} PROVE Supplied'
    <3>1. \A c \in ChannelName : chan'[c].available =>
            /\ graph.expected[c] # {} /\ graph.expected[c] \subseteq ck.barrierSets[c]
      <4> HIDE DEF chs, ck
      <4> QED
        BY <2>6, <2>7, <2>9
    <3>2. \A c \in ChannelName : chan'[c].available => c \in mapped'
      BY <1>g, <2>4, <3>1 DEF WorkInv
    <3>3. ASSUME seeds = <<>>, NEW c \in ChannelName, chan'[c].available
          PROVE  graph.target[c] \notin Node
      <4>1. graph.target[c] \in Node => graph.target[c] \in Range(ck.nextNodes)
        BY <2>3, <2>9, <3>1, <3>3 DEF CalmCheckpoint
      <4>2. SeedNodes(ck) \in Seq(Node \cup {End})
        BY <2>3 DEF SeedNodes, CheckpointType
      <4>3. Range(seeds) = Range(SeedNodes(ck)) \cap Node
        BY <2>2, <4>2, ExecutableRange
      <4>4. Range(seeds) = {}
        BY <3>3 DEF Range
      <4>5. Range(ck.nextNodes) \cap Node = {}
        <5> HIDE DEF ck
        <5> QED
          BY <2>9, <4>3, <4>4 DEF SeedNodes
      <4> QED
        BY <4>1, <4>5
    <3> QED
      BY <2>4, <2>5, <3>2, <3>3 DEF Supplied, NothingReady
  <2>10. Seeded' => ck.pendingWrites = {}
    <3>1. k # 0
      BY DEF DagInv, ContextTypeOK
    <3> QED
      BY <2>4, <3>1 DEF Seeded
  <2> QED
    BY <2>4, <2>8, <2>9, <2>10 DEF WorkInv
<1>3. CASE Crash
  BY <1>3 DEF Crash, WorkInv, Barriers
<1> QED
  BY <1>1, <1>2, <1>3

\* A goroutine brings its own work, and the loop does not stop waiting before it is received.
LEMMA WorkGoroutine ==
  ASSUME DagInv, WorkInv, NEW s \in Steps, GoroutineStep(s)
  PROVE  WorkInv'
<1> DEFINE n == worker[s].node
<1>1. /\ status' = status /\ pc' = pc /\ n \in Node /\ LiveSteps' # {} /\ status = "running"
  BY GoroutineLives
<1>2. UNCHANGED <<resumedFrom, ckpts>>
  BY DEF GoroutineStep, NodeReturns, NodeFails, WriteNext, SeeVersions, FailsBehindResult,
         ReleaseWorker, SendDone, ctxVars
<1>3. /\ Barriers' /\ graph.mapped \subseteq mapped'
      /\ (\A c \in ChannelName : chan[c].available => c \in mapped) =>
            (\A c \in ChannelName : chan'[c].available => c \in mapped')
  <2>1. CASE WriteNext(s)
    <3> DEFINE c == Head(worker[s].todo)
    <3>1. c \in ChannelName
      BY <2>1 DEF WriteNext, DagInv, LoopTypeOK, WorkerType
    <3>2. WriteChannel(n, c)
      BY <2>1 DEF WriteNext
    <3> HIDE DEF c, n
    <3>3. Barriers'
      BY <1>1, <3>1, <3>2, BarriersUpdated DEF WorkInv
    <3>4. mapped' = mapped \cup {c} /\ \A d \in ChannelName : d # c => chan'[d] = chan[d]
      BY <3>1, <3>2 DEF WriteChannel, DagInv, ContextTypeOK
    <3> QED
      BY <3>3, <3>4 DEF WorkInv
  <2>2. CASE ~WriteNext(s)
    <3>1. chan' = chan /\ mapped' = mapped
      BY <2>2 DEF GoroutineStep, NodeReturns, NodeFails, SeeVersions, FailsBehindResult,
                  ReleaseWorker, SendDone, ctxVars
    <3> QED
      BY <3>1, BarriersUpdated DEF WorkInv
  <2> QED
    BY <2>1, <2>2
<1>4. Seeded' <=> Seeded
  BY <1>2, SeededKept
<1> QED
  BY <1>1, <1>2, <1>3, <1>4 DEF WorkInv, Supplied, Quiet

\* The loop looks at the head of its queue.
LEMMA WorkStart ==
  ASSUME DagInv, WorkInv, QueueBehind \/ BreakBefore \/ NoSlot \/ NoStep \/ LaunchTask
  PROVE  WorkInv'
<1>1. /\ status = "running" /\ pc = "start" /\ ready # <<>> /\ ~draining
      /\ UNCHANGED <<status, resumedFrom, ckpts, chan, mapped, pendingTasks>>
  <2>1. Starting
    BY DEF QueueBehind, BreakBefore, NoSlot, NoStep, LaunchTask, PastBreakpoint
  <2>2. UNCHANGED <<status, resumedFrom, ckpts, chan, mapped, pendingTasks>>
    BY DEF QueueBehind, BreakBefore, NoSlot, NoStep, LaunchTask, ctxVars
  <2> QED
    BY <2>1, <2>2 DEF Starting, At
<1>2. Barriers' /\ (Seeded' <=> Seeded)
  BY <1>1, BarriersUpdated, SeededKept DEF WorkInv
<1>3. ASSUME Supplied PROVE Supplied'
  <2>1. CASE draining'
    <3>1. pc' \in {"start", "plan"}
      BY <1>1 DEF QueueBehind, BreakBefore, NoSlot, NoStep, LaunchTask
    <3> QED
      BY <1>1, <1>3, <2>1, <3>1 DEF Supplied, Quiet
  <2>2. CASE ~draining' /\ pc' = "start" /\ LiveSteps' # {}
    BY <1>1, <1>3, <2>2 DEF Supplied, Quiet
  <2>3. CASE QueueBehind
    <3>1. LiveSteps # {}
      BY <1>1, <2>3 DEF QueueBehind, DagInv, Accounted
    <3>2. LiveSteps' = LiveSteps /\ pc' = "start"
      BY <1>1, <2>3 DEF QueueBehind, LiveSteps
    <3> QED
      BY <1>1, <1>3, <3>1, <3>2 DEF Supplied, Quiet
  <2>4. CASE NoSlot
    <3>1. LiveSteps # {}
      <4>1. sem # 0
        BY <2>4, DagAssumption DEF NoSlot, SlotFree
      <4>2. HoldingSteps # {}
        BY <1>1, <4>1, FS_EmptySet DEF DagInv, Accounted
      <4> QED
        BY <4>2 DEF LiveSteps, HoldingSteps, Live
    <3>2. LiveSteps' = LiveSteps /\ pc' = "plan"
      BY <2>4 DEF NoSlot, LiveSteps
    <3> QED
      BY <1>1, <1>3, <3>1, <3>2 DEF Supplied, Quiet
  <2>5. CASE LaunchTask
    <3>1. nextStep \in Steps /\ worker'[nextStep].phase = "running" /\ pc' = "start"
      BY <1>1, <2>5, DagAssumption DEF LaunchTask, Steps, DagInv, LoopTypeOK
    <3>2. LiveSteps' # {}
      BY <3>1 DEF LiveSteps, Live, Holding
    <3> QED
      BY <1>1, <1>3, <3>1, <3>2 DEF Supplied, Quiet
  <2> QED
    BY <2>1, <2>3, <2>4, <2>5 DEF BreakBefore, NoStep
<1> QED
  BY <1>1, <1>2, <1>3 DEF WorkInv

\* The loop plans, and goes round again or waits.
LEMMA WorkPlan ==
  ASSUME DagInv, WorkInv, PlanIfIdle \/ KeepGoing
  PROVE  WorkInv'
<1>t. ready \in Seq(Node) /\ pendingTasks \in Seq(Node)
  BY DEF DagInv, ContextTypeOK, LoopTypeOK
<1>1. CASE PlanIfIdle
  <2>1. /\ status = "running" /\ pc = "plan" /\ pc' = "finalize"
        /\ UNCHANGED <<status, resumedFrom, ckpts, mapped, duty, draining, pauseRequested, worker>>
    BY <1>1 DEF PlanIfIdle, At
  <2>2. (Seeded' <=> Seeded) /\ LiveSteps' = LiveSteps
    BY <2>1, SeededKept DEF LiveSteps
  <2>3. CASE draining \/ pauseRequested \/ ready # <<>>
    <3>1. UNCHANGED <<chan, pendingTasks, ready>>
      BY <1>1, <2>3 DEF PlanIfIdle
    <3>2. Barriers'
      BY <3>1, BarriersUpdated DEF WorkInv
    <3>3. Supplied => Supplied'
      BY <2>1, <2>2, <3>1 DEF Supplied, Quiet, NothingReady
    <3> QED
      BY <2>1, <2>2, <3>2, <3>3 DEF WorkInv
  <2>4. CASE ~(draining \/ pauseRequested \/ ready # <<>>)
    <3>1. QueuePlannedTasks(ready)
      BY <1>1, <2>4 DEF PlanIfIdle
    <3>2. Barriers'
      BY <1>t, <3>1, BarriersUpdated DEF WorkInv
    <3>3. NothingPlanned' /\ \A c \in ChannelName : chan'[c].available => chan[c].available
      BY <1>t, <2>1, <3>1, FreshQueue
    <3>4. ASSUME Supplied, Quiet PROVE ready' = <<>>
      <4>1. NothingReady
        BY <2>4, <3>4 DEF Supplied
      <4>2. PICK order \in SetToSeqs(Targets(Available(chan, mapped)) \cap Node) :
              ready' = ready \o pendingTasks \o order
        BY <3>1 DEF QueuePlannedTasks
      <4>3. Targets(Available(chan, mapped)) \cap Node = {}
        BY <4>1 DEF NothingReady, Targets, Available, DagInv, ContextTypeOK
      <4>4. IsFiniteSet({}) /\ order \in SetToSeqs({})
        BY <4>2, <4>3, FS_EmptySet
      <4>5. Range(order) = {} /\ order \in Seq(Node)
        BY <4>4, SetToSeqsRange, SetToSeqsType
      <4>6. order = <<>>
        BY <4>5 DEF Range
      <4> QED
        BY <2>4, <4>1, <4>2, <4>6 DEF NothingReady
    <3>5. Supplied => Supplied'
      <4> SUFFICES ASSUME Supplied PROVE Supplied'
        OBVIOUS
      <4>1. \A c \in ChannelName : chan'[c].available => c \in mapped'
        BY <2>1, <3>3 DEF Supplied
      <4>2. NothingReady'
        BY <3>3, <4>1 DEF NothingReady, NothingPlanned, Available
      <4> QED
        BY <2>1, <2>2, <3>4, <4>1, <4>2 DEF Supplied, Quiet
    <3> QED
      BY <2>1, <2>2, <3>2, <3>5 DEF WorkInv
  <2> QED
    BY <2>3, <2>4
<1>2. CASE KeepGoing
  <2>1. /\ status = "running" /\ pc = "finalize" /\ pc' = "wait"
        /\ UNCHANGED <<status, resumedFrom, ckpts, chan, mapped, pendingTasks, ready, draining,
                       pauseRequested, worker>>
    BY <1>2 DEF KeepGoing, At, ctxVars
  <2>2. ~Idle \/ (~draining /\ ~pauseRequested /\ ready # <<>>)
    BY <1>2 DEF KeepGoing
  <2>3. (Seeded' <=> Seeded) /\ LiveSteps' = LiveSteps /\ Barriers'
    BY <2>1, SeededKept, BarriersUpdated DEF LiveSteps, WorkInv
  <2>4. ~Idle => LiveSteps # {}
    BY <2>1 DEF Idle, DagInv, Accounted
  <2>5. Supplied => Supplied'
    BY <2>1, <2>2, <2>3, <2>4 DEF Supplied, Quiet, NothingReady
  <2> QED
    BY <2>1, <2>3, <2>5 DEF WorkInv
<1> QED
  BY <1>1, <1>2

\* A result queues what it triggers unless the loop drains or pauses.
LEMMA WorkResult ==
  ASSUME DagInv, WorkInv, NEW s \in Steps, TaskSucceeded(s) \/ TaskFailed(s)
  PROVE  WorkInv'
<1> DEFINE n == worker[s].node
           q == Unblocked(n)
<1>1. /\ status = "running" /\ pc' = "request" /\ n \in Node
      /\ UNCHANGED <<status, mapped, resumedFrom, ckpts, pauseRequested>>
  BY LiveWorkersHaveNodes
     DEF TaskSucceeded, TaskFailed, Received, Waiting, At, WorkerNodes, Live, DagInv
<1>2. q \in Seq(Node)
  BY <1>1, UnblockedType DEF DagInv
<1>3. Seeded' <=> Seeded
  BY <1>1, SeededKept
<1>4. \/ QueuePlannedTasks(q) /\ UNCHANGED duty
      \/ chan' = chan /\ (draining' \/ pauseRequested)
  <2>1. CASE TaskFailed(s)
    <3>1. chan' = chan /\ draining' = TRUE
      BY <2>1 DEF TaskFailed
    <3> QED
      BY <3>1
  <2>2. CASE TaskSucceeded(s)
    <3>1. CASE n \in graph.after /\ ~draining
      <4>1. chan' = chan /\ draining' = TRUE
        BY <2>2, <3>1 DEF TaskSucceeded
      <4> QED
        BY <4>1
    <3>2. CASE n \notin graph.after /\ ~draining /\ ~pauseRequested
      BY <2>2, <3>2 DEF TaskSucceeded
    <3>3. CASE draining \/ (pauseRequested /\ n \notin graph.after)
      <4>1. chan' = chan /\ (draining' = TRUE \/ draining' = draining)
        BY <2>2, <3>3 DEF TaskSucceeded
      <4> QED
        BY <3>3, <4>1
    <3> QED
      BY <3>1, <3>2, <3>3
  <2> QED
    BY <2>1, <2>2
<1> HIDE DEF q, n
<1>5. CASE QueuePlannedTasks(q) /\ UNCHANGED duty
  <2>1. Barriers'
    BY <1>2, <1>5, BarriersUpdated DEF WorkInv
  <2>2. NothingPlanned' /\ \A c \in ChannelName : chan'[c].available => chan[c].available
    BY <1>1, <1>2, <1>5, FreshQueue
  <2>3. Supplied => Supplied'
    BY <1>1, <2>2 DEF Supplied, NothingReady, NothingPlanned, Available
  <2> QED
    BY <1>1, <1>3, <2>1, <2>3 DEF WorkInv
<1>6. CASE chan' = chan /\ (draining' \/ pauseRequested)
  <2>1. Barriers'
    BY <1>6, BarriersUpdated DEF WorkInv
  <2>2. Supplied => Supplied'
    BY <1>1, <1>6 DEF Supplied, Quiet
  <2> QED
    BY <1>1, <1>3, <2>1, <2>2 DEF WorkInv
<1> QED
  BY <1>4, <1>5, <1>6

\* A list keeps its elements when another is put before them.
LEMMA RangeCons ==
  ASSUME NEW S, NEW b \in Seq(S), NEW x
  PROVE  Range(b) \subseteq Range(<<x>> \o b)
<1> DEFINE T == S \cup {x}
           u == <<x>>
<1>1. u \in Seq(T) /\ b \in Seq(T)
  OBVIOUS
<1> HIDE DEF T, u
<1>2. Range(u \o b) = Range(u) \cup Range(b)
  BY <1>1, RangeConcat
<1>3. Range(b) \subseteq Range(u \o b)
  BY <1>2
<1> QED
  BY <1>3 DEF u

\* The next nodes of an interrupt checkpoint include the frontier, as those of a final one do.
LEMMA WorkFinalize ==
  ASSUME DagInv, WorkInv, FinalizeInterrupt \/ FinalizeDrained \/ FinalizeDone
  PROVE  WorkInv'
<1>t. ContextTypeOK /\ LoopTypeOK
  BY DEF DagInv
<1>1. status' # "running" /\ UNCHANGED <<chan, mapped>>
  BY DEF FinalizeInterrupt, FinalizeDrained, FinalizeDone, ctxVars
<1>2. Barriers'
  BY <1>1, BarriersUpdated DEF WorkInv
<1>f. IsFiniteSet(GetNextNodes(chan)) /\ IsFiniteSet((GetNextNodes(chan) \cap Node) \ Range(Queued))
  <2>1. GetNextNodes(chan) \subseteq Node \cup {End}
    BY <1>t, GraphAssumption
       DEF ContextTypeOK, GetNextNodes, Targets, Available, Node, ChannelName
  <2> QED
    BY <2>1, NodesFinite
<1>3. ckpts' \in Seq(CalmCheckpoint)
  <2>1. CASE FinalizeInterrupt
    <3> DEFINE intr == IF pendingIntr.set THEN pendingIntr ELSE Intr(End, FALSE, nextStep - 1)
    <3>1. PICK rest \in SetToSeqs((GetNextNodes(chan) \cap Node) \ Range(Queued)),
              frontier \in SetToSeqs(GetNextNodes(chan)), saved \in Saves :
            SaveInterruptCheckpoint(intr.step, chan, skips,
              InterruptNextNodes(Queued \o rest, frontier, intr.node, intr.skipRerun), duty, saved)
      BY <2>1 DEF FinalizeInterrupt, intr
    <3> DEFINE carried == Queued \o rest
               next == InterruptNextNodes(carried, frontier, intr.node, intr.skipRerun)
               ck == Checkpoint(intr.step, chan, skips, next, {}, duty)
    <3>2. rest \in Seq(Node \cup {End}) /\ frontier \in Seq(Node \cup {End})
      BY <1>t, FrontierType, (GetNextNodes(chan) \cap Node) \ Range(Queued) \subseteq GetNextNodes(chan)
    <3>3. Queued \in Seq(Node \cup {End}) /\ carried \in Seq(Node \cup {End})
      <4>1. ready \in Seq(Node \cup {End}) /\ rerunNodes \in Seq(Node \cup {End})
        BY <1>t DEF LoopTypeOK
      <4> QED
        BY <3>2, <4>1 DEF Queued
    <3>4. next \in Seq(Node \cup {End})
      BY <3>2, <3>3, InterruptNextNodesType
    <3>5. intr.step \in Nat \cup {-1}
      BY <1>t DEF LoopTypeOK, Intr, IntrType
    <3>6. /\ Range(rest) = (GetNextNodes(chan) \cap Node) \ Range(Queued)
          /\ Range(frontier) = GetNextNodes(chan)
      BY <1>f, SetToSeqsRange
    <3>7. Range(carried) = Range(Queued) \cup Range(rest)
      BY <3>2, <3>3, RangeConcat
    <3> HIDE DEF carried, intr
    <3>8. GetNextNodes(chan) \cap Node \subseteq Range(next)
      <4> DEFINE base == IF carried # <<>> THEN carried ELSE frontier
      <4>1. GetNextNodes(chan) \cap Node \subseteq Range(base)
        BY <3>6, <3>7
      <4>2. base \in Seq(Node \cup {End})
        BY <3>2, <3>3
      <4> HIDE DEF base
      <4>3. Range(base) \subseteq Range(<<intr.node>> \o base)
        BY <4>2, RangeCons
      <4>4. next = base \/ next = <<intr.node>> \o base
        BY DEF InterruptNextNodes, base
      <4> QED
        BY <4>1, <4>3, <4>4
    <3> HIDE DEF next
    <3>9. ck \in CalmCheckpoint
      BY <3>4, <3>5, <3>8, CalmSaved
    <3>10. saved \in BOOLEAN /\ ckpts' = IF saved THEN Append(ckpts, ck) ELSE ckpts
      BY <3>1 DEF Saves, SaveInterruptCheckpoint, next, carried
    <3> HIDE DEF ck
    <3> QED
      BY <3>9, <3>10, SavedAmong DEF WorkInv
  <2>2. CASE FinalizeDrained \/ (FinalizeDone /\ ~executed)
    BY <2>2 DEF FinalizeDrained, FinalizeDone, ctxVars, WorkInv
  <2>3. CASE FinalizeDone /\ executed
    <3>1. PICK frontier \in SetToSeqs(GetNextNodes(chan)), saved \in Saves :
            SaveLoopCheckpoint(nextStep - 1, frontier, saved)
      BY <2>3 DEF FinalizeDone
    <3> DEFINE ck == Checkpoint(nextStep - 1, chan, skips, frontier, pendingWrites, duty)
    <3>2. frontier \in Seq(Node \cup {End}) /\ nextStep - 1 \in Nat \cup {-1}
          /\ pendingWrites \in SUBSET PendingWriteType
      BY <1>t, FrontierType DEF LoopTypeOK, ContextTypeOK
    <3>3. Range(frontier) = GetNextNodes(chan)
      BY <1>f, SetToSeqsRange
    <3>4. ck \in CalmCheckpoint
      BY <3>2, <3>3, CalmSaved
    <3>5. saved \in BOOLEAN /\ ckpts' = IF saved THEN Append(ckpts, ck) ELSE ckpts
      BY <3>1 DEF Saves, SaveLoopCheckpoint
    <3> HIDE DEF ck
    <3> QED
      BY <3>4, <3>5, SavedAmong DEF WorkInv
  <2> QED
    BY <2>1, <2>2, <2>3
<1> QED
  BY <1>1, <1>2, <1>3 DEF WorkInv

\* No channel holds anything before the first run.
LEMMA WorkInit == Init => WorkInv
<1> SUFFICES ASSUME Init PROVE WorkInv
  OBVIOUS
<1>1. /\ chan = [c \in ChannelName |-> NewChannel] /\ mapped = graph.mapped /\ ckpts = <<>>
      /\ status = "idle"
  BY DEF Init, InitContext
<1>2. \A c \in ChannelName : graph.expected[c] \in SUBSET Node
  BY GraphAssumption DEF ChannelName, Node
<1>3. Barriers
  BY <1>1, <1>2 DEF Barriers, NewChannel
<1> QED
  BY <1>1, <1>3 DEF WorkInv

\* Every step preserves the invariant.
LEMMA WorkNext == DagInv /\ WorkInv /\ [Next]_vars => WorkInv'
<1> SUFFICES ASSUME DagInv, WorkInv, [Next]_vars PROVE WorkInv'
  OBVIOUS
<1>1. CASE \/ RequestInterrupt \/ CancelContext \/ Request \/ StartNothing \/ Poll
           \/ ContextDone \/ UNCHANGED vars
  <2>1. /\ UNCHANGED <<status, resumedFrom, ckpts, chan, mapped, pendingTasks, ready, worker>>
        /\ ~draining' => ~draining
        /\ ~pauseRequested' => ~pauseRequested
        /\ \/ pc' = pc
           \/ pc' \in {"request", "start"}
           \/ pc' = "plan" /\ (draining' \/ pauseRequested' \/ ready = <<>>)
           \/ pc' = "select" /\ pc = "wait"
    <3>1. CASE RequestInterrupt \/ CancelContext \/ UNCHANGED vars
      BY <3>1 DEF RequestInterrupt, CancelContext, vars, ctxVars, loopVars
    <3>2. CASE Request
      BY <3>2 DEF Request, ctxVars
    <3>3. CASE StartNothing
      BY <3>3 DEF StartNothing, ctxVars
    <3>4. CASE Poll
      BY <3>4 DEF Poll, ctxVars, At
    <3>5. CASE ContextDone
      BY <3>5 DEF ContextDone, ctxVars
    <3> QED
      BY <1>1, <3>1, <3>2, <3>3, <3>4, <3>5
  <2>2. (Seeded' <=> Seeded) /\ LiveSteps' = LiveSteps /\ Barriers'
    BY <2>1, SeededKept, BarriersUpdated DEF LiveSteps, WorkInv
  <2>3. Supplied => Supplied'
    BY <2>1, <2>2 DEF Supplied, Quiet, NothingReady
  <2> QED
    BY <2>1, <2>2, <2>3 DEF WorkInv
<1> QED
  BY <1>1, WorkRun, WorkGoroutine, WorkStart, WorkPlan, WorkResult, WorkFinalize
     DEF Next, LoopStep, LineageOver

LEMMA WorkInvAlways == Spec => [](DagInv /\ WorkInv)
<1>1. Init => DagInv /\ WorkInv
  BY DagInvInit, WorkInit
<1>2. DagInv /\ WorkInv /\ [Next]_vars => (DagInv /\ WorkInv)'
  BY DagInvNext, WorkNext
<1> QED
  BY <1>1, <1>2, PTL DEF Spec

\* A run that replays no writes only blocks in waitForEvent while a goroutine that will
\* wake it up is in flight (startReadyTasks, planNextTasks, maybeFinalize).
THEOREM WaitHasWorkSeeded == Spec => [](Seeded => WaitHasWork)
<1>1. WorkInv => (Seeded => WaitHasWork)
  BY DEF WorkInv, Supplied, WaitHasWork, Waiting, At
<1> QED
  BY <1>1, WorkInvAlways, PTL

SilentCheckpoint == {ck \in CheckpointType : ck.pendingWrites = {}}

\* Only the final checkpoint of a completed lineage holds writes to replay.
CalmUntilDone == status # "done" => ckpts \in Seq(SilentCheckpoint)

\* Only FinalizeDone stores the pending writes, and only time travel resumes behind it.
LEMMA CalmNext ==
  ASSUME ~TimeTravel, DagInv, CalmUntilDone, [Next]_vars
  PROVE  CalmUntilDone'
<1>1. CASE StartRun
  <2>1. PICK saved \in Saves : FreshContext(saved)
    BY <1>1 DEF StartRun
  <2> DEFINE ck == [step |-> -1, skips |-> {}, nextNodes |-> <<graph.entry>>,
                    pendingWrites |-> {}, versions |-> [c \in ChannelName |-> 0],
                    barrierSets |-> [c \in ChannelName |-> {}],
                    versionsSeen |-> [n \in Node |-> [c \in ChannelName |-> NeverSeen]],
                    promise |-> InitialDuty]
  <2>2. ckpts' = IF saved THEN <<ck>> ELSE <<>>
    BY <2>1 DEF FreshContext
  <2>3. ck.pendingWrites = {}
    OBVIOUS
  <2> HIDE DEF ck
  <2>4. ckpts' \in Seq(CheckpointType)
    BY <1>1, DagInvNext DEF DagInv, ContextTypeOK, Next
  <2>5. CASE saved
    <3>1. ckpts' = <<ck>>
      BY <2>2, <2>5
    <3>2. ck \in CheckpointType
      BY <2>4, <3>1
    <3> QED
      BY <2>3, <3>1, <3>2 DEF CalmUntilDone, SilentCheckpoint
  <2>6. CASE ~saved
    BY <2>2, <2>6 DEF CalmUntilDone
  <2> QED
    BY <2>5, <2>6
<1>2. CASE FinalizeInterrupt
  <2> DEFINE intr == IF pendingIntr.set THEN pendingIntr ELSE Intr(End, FALSE, nextStep - 1)
  <2>1. PICK rest \in SetToSeqs((GetNextNodes(chan) \cap Node) \ Range(Queued)),
             frontier \in SetToSeqs(GetNextNodes(chan)), saved \in Saves :
          SaveInterruptCheckpoint(intr.step, chan, skips,
            InterruptNextNodes(Queued \o rest, frontier, intr.node, intr.skipRerun), duty, saved)
    BY <1>2 DEF FinalizeInterrupt, intr
  <2> DEFINE next == InterruptNextNodes(Queued \o rest, frontier, intr.node, intr.skipRerun)
             ck == Checkpoint(intr.step, chan, skips, next, {}, duty)
  <2>2. saved \in BOOLEAN /\ ckpts' = IF saved THEN Append(ckpts, ck) ELSE ckpts
    BY <2>1 DEF SaveInterruptCheckpoint, Saves
  <2>3. ck.pendingWrites = {}
    BY DEF Checkpoint
  <2>4. status # "done" /\ ckpts \in Seq(SilentCheckpoint)
    BY <1>2 DEF FinalizeInterrupt, At, CalmUntilDone
  <2> HIDE DEF ck
  <2>5. ckpts' \in Seq(CheckpointType)
    BY <1>2, DagInvNext DEF DagInv, ContextTypeOK, Next, LoopStep
  <2> QED
    BY <2>2, <2>3, <2>4, <2>5 DEF CalmUntilDone, SilentCheckpoint
<1>3. CASE FinalizeDone
  BY <1>3 DEF FinalizeDone, CalmUntilDone
<1>4. CASE ResumeRun
  <2>1. status # "done" /\ UNCHANGED ckpts
    BY <1>4 DEF ResumeRun, ResumeContext
  <2> QED
    BY <2>1 DEF CalmUntilDone
<1>5. CASE \/ Crash \/ RequestInterrupt \/ CancelContext
           \/ \E s \in Steps : GoroutineStep(s) \/ TaskSucceeded(s) \/ TaskFailed(s)
  <2>1. status = "running" /\ UNCHANGED ckpts
    BY <1>5 DEF Crash, RequestInterrupt, CancelContext, GoroutineStep, NodeReturns, NodeFails,
                WriteNext, SeeVersions, FailsBehindResult, ReleaseWorker, SendDone, ctxVars,
                TaskSucceeded, TaskFailed, Received, Waiting, At
  <2> QED
    BY <2>1 DEF CalmUntilDone
<1>6. CASE \/ Request \/ StartNothing \/ QueueBehind \/ BreakBefore \/ NoSlot \/ NoStep
           \/ LaunchTask \/ PlanIfIdle \/ KeepGoing \/ FinalizeDrained \/ Poll \/ ContextDone
  <2>1. status = "running" /\ UNCHANGED ckpts
    BY <1>6 DEF Request, StartNothing, QueueBehind, BreakBefore, NoSlot, NoStep, LaunchTask,
                PlanIfIdle, QueuePlannedTasks, KeepGoing, FinalizeDrained, Poll, ContextDone,
                ctxVars, At, Starting, PastBreakpoint
  <2> QED
    BY <2>1 DEF CalmUntilDone
<1>7. CASE UNCHANGED vars
  BY <1>7 DEF vars, ctxVars, loopVars, CalmUntilDone
<1> QED
  BY <1>1, <1>2, <1>3, <1>4, <1>5, <1>6, <1>7 DEF Next, LoopStep, LineageOver

\* Unless a caller resumes the final checkpoint of a completed lineage, the loop only
\* blocks in waitForEvent while a goroutine that will wake it up is in flight.
THEOREM WaitHasWorkAlways ==
  ASSUME ~TimeTravel
  PROVE  Spec => []WaitHasWork
<1>1. Init => CalmUntilDone
  BY DEF Init, InitContext, CalmUntilDone
<1>2. DagInv /\ CalmUntilDone /\ [Next]_vars => CalmUntilDone'
  BY CalmNext
<1>3. DagInv /\ WorkInv /\ CalmUntilDone => WaitHasWork
  <2> SUFFICES ASSUME DagInv, WorkInv, CalmUntilDone, Waiting PROVE LiveSteps # {}
    BY DEF WaitHasWork
  <2>1. status = "running" /\ pc \in {"wait", "select"}
    BY DEF Waiting, At
  <2>2. Seeded
    BY <2>1 DEF Seeded, CalmUntilDone, SilentCheckpoint, DagInv, ContextTypeOK
  <2> QED
    BY <2>1, <2>2 DEF WorkInv, Supplied
<1> QED
  BY <1>1, <1>2, <1>3, WorkInvAlways, PTL DEF Spec
=============================================================================
