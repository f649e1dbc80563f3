-------------------------- MODULE ExecutionContext --------------------------
(***************************************************************************)
(* The state of one graph execution (ExecutionContext in graph/graph.go),  *)
(* the checkpoints it leaves behind, and the operations both engines share *)
(* (graph/executor.go): channel writes, frontier discovery, checkpoint     *)
(* creation and the restoration of an execution from a checkpoint.         *)
(*                                                                         *)
(* The user state is abstracted away except for the two internal keys that *)
(* steer the executor: StateKeyNextNodes and StateKeyStaticInterruptSkips. *)
(***************************************************************************)
EXTENDS Channel, Sequences, SequencesExt, FiniteSets, Integers

CONSTANTS
  graph,        \* the compiled graph, see StateGraph!Compile
  End           \* the virtual end node

ASSUME GraphAssumption ==
  /\ IsFiniteSet(graph.nodes) /\ IsFiniteSet(graph.channels)
  /\ graph.entry \in graph.nodes /\ End \notin graph.nodes
  /\ graph.declared \subseteq graph.channels /\ graph.mapped \subseteq graph.channels
  /\ graph.target \in [graph.channels -> graph.nodes \cup {End}]
  /\ graph.expected \in [graph.channels -> SUBSET graph.nodes]
  /\ graph.writers \in [graph.nodes -> Seq(graph.channels)]
  /\ graph.triggers \in [graph.nodes -> SUBSET graph.declared]
  /\ graph.routes \in [graph.nodes -> SUBSET Seq(graph.channels)]
  /\ graph.gotos \in [graph.nodes -> SUBSET graph.channels]
  /\ graph.fanouts \in [graph.nodes -> SUBSET Seq(graph.nodes)]
  /\ graph.before \subseteq graph.nodes
  /\ \A c \in graph.channels : graph.expected[c] # {} => c \in graph.declared \cap graph.mapped

VARIABLES
  \* The graph object of this process.  GoTo and conditional routing add to it
  \* at run time, so it changes, and a new process starts from what was built.
  declared,       \* channels that exist
  mapped,         \* channels with an entry in triggerToNodes
  \* The ExecutionContext of the current run.
  chan,           \* per-run channels
  nextNodes,      \* State[StateKeyNextNodes]
  skips,          \* State[StateKeyStaticInterruptSkips]
  pendingWrites,  \* channel writes since the last checkpoint, <<channel, writer>>
  pendingTasks,   \* nodes enqueued by fan-out, not planned yet
  versionsSeen,   \* versionsSeen[n][c], NeverSeen when absent
  resumedFrom,    \* index in ckpts of lastCheckpoint, 0 for a fresh run
  \* The checkpoint saver: the checkpoints of the lineage, oldest first.
  ckpts,
  \* What the edges of the graph promise, see "The promise" below.
  duty

ctxVars == <<declared, mapped, chan, nextNodes, skips, pendingWrites,
             pendingTasks, versionsSeen, resumedFrom, ckpts, duty>>

Node == graph.nodes
ChannelName == graph.channels
NeverSeen == -1

\* Entries with the same channel and value are kept once: all that a replay
\* makes of them is an available channel and a version that has grown.
PendingWriteType == ChannelName \X Node

(***************************************************************************)
(* The promise.  A record of what the edges owe to their targets, kept     *)
(* independently of the channels that implement it:                        *)
(*   arrived[c]  the starts of join c that completed since it last fired   *)
(*   owed        nodes triggered and not started since                     *)
(*   credit[n]   triggers of n minus starts of n                           *)
(*   excess      nodes started without a trigger to account for it         *)
(*   stopped     nodes at whose breakpoint a run paused, not started since *)
(*   restopped   nodes whose breakpoint paused a run again in that state   *)
(* A checkpoint carries the promise as it stands when it is taken, so a    *)
(* resumed run answers for exactly what was outstanding at that point.     *)
(***************************************************************************)
DutyType ==
  [arrived : [ChannelName -> SUBSET Node], owed : SUBSET Node,
   credit : [Node -> Int], excess : SUBSET Node,
   stopped : SUBSET Node, restopped : SUBSET Node]

InitialDuty ==
  [arrived |-> [c \in ChannelName |-> {}], owed |-> {graph.entry},
   credit |-> [n \in Node |-> IF n = graph.entry THEN 1 ELSE 0], excess |-> {},
   stopped |-> {}, restopped |-> {}]

\* The targets named in ts have been triggered, or have ended without completing and
\* have to run again, once for every entry of ts.
Owe(d, ts) ==
  [d EXCEPT !.owed = @ \cup (Range(ts) \cap Node),
            !.credit = [n \in Node |-> @[n] + Cardinality({i \in DOMAIN ts : ts[i] = n})]]

\* Node n has completed and sent to channel c.
Send(d, c, n) ==
  LET arrived == d.arrived[c] \cup {n}
      fires == graph.expected[c] \subseteq arrived
      d1 == [d EXCEPT !.arrived[c] = IF fires THEN {} ELSE arrived]
  IN  IF fires THEN Owe(d1, <<graph.target[c]>>) ELSE d1

\* Tasks of the nodes ts start together.
Begin(d, ts) ==
  LET starts == [n \in Node |-> Cardinality({i \in DOMAIN ts : ts[i] = n})]
  IN  [d EXCEPT !.owed = @ \ Range(ts), !.stopped = @ \ Range(ts),
                !.credit = [n \in Node |-> @[n] - starts[n]],
                !.excess = @ \cup {n \in Node : starts[n] > 0 /\ starts[n] > d.credit[n]}]

\* The run pauses at the breakpoints before the nodes in hits.
StopBefore(d, hits) ==
  [d EXCEPT !.stopped = @ \cup hits, !.restopped = @ \cup (hits \cap d.stopped)]
-----------------------------------------------------------------------------
(***************************************************************************)
(* Node results                                                            *)
(***************************************************************************)

\* What a completed node does: the channels it writes (writes from static
\* edges, or the one channel of a GoTo, then those of its conditional edge)
\* and the tasks it fans out (handleNodeResult, processConditionalEdges).
Results(n) ==
  {[writes |-> graph.writers[n], branch |-> b, spawn |-> <<>>] : b \in graph.routes[n]}
    \cup {[writes |-> <<c>>, branch |-> <<>>, spawn |-> <<>>] : c \in graph.gotos[n]}
    \cup {[writes |-> <<>>, branch |-> <<>>, spawn |-> s] : s \in graph.fanouts[n]}

\* One channel write of node n (processChannelWrites, handleCommandRouting,
\* processConditionalResult).  A channel registers itself and its trigger on
\* first use; for the static edges it already has.
WriteChannel(n, c) ==
  /\ declared' = declared \cup {c}
  /\ mapped' = mapped \cup {c}
  /\ chan' = [chan EXCEPT ![c] = Update(@, graph.expected[c], n)]
  /\ pendingWrites' = pendingWrites \cup {<<c, n>>}

\* Mutant: the version the node will see next counts as seen.
UpdateVersionsSeenAhead(n) ==
  versionsSeen' = [versionsSeen EXCEPT ![n] =
    [c \in ChannelName |-> IF c \in graph.triggers[n] \cap declared
                           THEN chan[c].version + 1 ELSE @[c]]]

\* updateVersionsSeen: n has now seen the current versions of its triggers.
UpdateVersionsSeen(n) ==
  versionsSeen' = [versionsSeen EXCEPT ![n] =
    [c \in ChannelName |-> IF c \in graph.triggers[n] \cap declared
                           THEN chan[c].version ELSE @[c]]]
-----------------------------------------------------------------------------
(***************************************************************************)
(* Frontier and checkpoints                                                *)
(***************************************************************************)

Available(chs, cs) == {c \in cs : chs[c].available}
Targets(cs) == {graph.target[c] : c \in cs}

\* getNextNodes: the targets of the available channels, each once.
GetNextNodes(chs) == Targets(Available(chs, mapped))

(***************************************************************************)
(* createCheckpointFromState with the fields its callers add.  The promise *)
(* outstanding at this point is recorded beside it.  pendingTasks is not   *)
(* part of a checkpoint.                                                   *)
(***************************************************************************)
Checkpoint(step, chs, sk, next, writes, promise) ==
  [step |-> step, skips |-> sk, nextNodes |-> next, pendingWrites |-> writes,
   versions |-> [c \in ChannelName |-> IF c \in declared THEN chs[c].version ELSE 0],
   barrierSets |-> [c \in ChannelName |-> chs[c].seen],
   versionsSeen |-> versionsSeen, promise |-> promise]

\* Mutants: the interrupted node is never, or always, run again.
InterruptNextNodesNoRerun(carried, frontier, node, skipRerun) ==
  IF carried # <<>> THEN carried ELSE frontier

InterruptNextNodesRerun(carried, frontier, node, skipRerun) ==
  LET next == IF carried # <<>> THEN carried ELSE frontier
  IN  IF node \notin Node \/ node \in Range(next) THEN next ELSE <<node>> \o next

(***************************************************************************)
(* The next nodes an interrupt checkpoint names (handleInterrupt): the     *)
(* list the interrupt carries, or the frontier when it carries none, with  *)
(* the interrupted node in front unless the interrupt skips its rerun.     *)
(***************************************************************************)
InterruptNextNodes(carried, frontier, node, skipRerun) ==
  LET next == IF carried # <<>> THEN carried ELSE frontier
  IN  IF skipRerun \/ node \notin Node \/ node \in Range(next) THEN next ELSE <<node>> \o next

\* Mutant: the writes are not replayed.
ApplyNoWrites(chs, writes) == chs

\* applyPendingWrites on the channels chs: writes to channels that the graph
\* of this process does not have are dropped.
ApplyPendingWrites(chs, writes) ==
  [c \in ChannelName |->
     LET senders == {w[2] : w \in {v \in writes : v[1] = c}}
         seen == IF graph.expected[c] = {} THEN chs[c].seen ELSE chs[c].seen \cup senders
     IN  IF c \notin declared \/ senders = {} THEN chs[c]
         ELSE [version |-> chs[c].version + Cardinality(senders),
               available |-> BarrierSatisfied(graph.expected[c], seen),
               seen |-> seen]]

\* restoreChannelVersions and restoreBarrierSets on fresh channels; only
\* non-empty barrier sets are stored.
RestoreChannels(ck) ==
  [c \in ChannelName |->
     IF c \notin declared THEN NewChannel
     ELSE LET ch == [NewChannel EXCEPT !.version = ck.versions[c]]
          IN  IF ck.barrierSets[c] = {} THEN ch
              ELSE SetBarrierSeen(ch, graph.expected[c], ck.barrierSets[c])]

\* applyExecutableNextNodes: the next nodes a resumed run starts from.  They are
\* taken over only when there are no pending writes.
SeedNodes(ck) ==
  IF ck.pendingWrites = {} /\ Range(ck.nextNodes) \cap Node # {} THEN ck.nextNodes ELSE <<>>

\* The entries of a list of next nodes for which a task is created, in order: the
\* one subsequence of s that consists of all its entries other than End.
Executable(s) ==
  LET kept == {i \in DOMAIN s : s[i] \in Node}
      Positions == [1..Cardinality(kept) -> kept]
  IN  {[i \in 1..Cardinality(kept) |-> s[pos[i]]] :
         pos \in {p \in Positions : \A i, j \in DOMAIN p : i < j => p[i] < p[j]}}

(***************************************************************************)
(* The ExecutionContext of a run resumed from checkpoint k                 *)
(* (resumeOrInitWithSaver, buildExecutionContext, executeGraph).  The      *)
(* restored pending writes are replayed and also stay pending.  next is    *)
(* what the engine leaves in State[StateKeyNextNodes].                     *)
(***************************************************************************)
ResumeContext(k, next) ==
  LET ck == ckpts[k]
  IN  /\ chan' = ApplyPendingWrites(RestoreChannels(ck), ck.pendingWrites)
      /\ nextNodes' = next
      /\ skips' = ck.skips
      /\ pendingWrites' = ck.pendingWrites
      /\ pendingTasks' = <<>>
      /\ versionsSeen' = ck.versionsSeen
      /\ resumedFrom' = k
      /\ duty' = [ck.promise EXCEPT !.excess = duty.excess, !.restopped = duty.restopped]
      /\ UNCHANGED <<declared, mapped, ckpts>>

\* A run that finds no checkpoint starts from scratch; saved says whether the
\* saver stored the initial checkpoint (source input, step -1).
FreshContext(saved) ==
  LET chs == [c \in ChannelName |-> NewChannel]
      seen == [n \in Node |-> [c \in ChannelName |-> NeverSeen]]
  IN  /\ chan' = chs /\ nextNodes' = <<>> /\ skips' = {} /\ pendingWrites' = {}
      /\ pendingTasks' = <<>> /\ versionsSeen' = seen /\ resumedFrom' = 0
      /\ duty' = [InitialDuty EXCEPT !.excess = duty.excess, !.restopped = duty.restopped]
      /\ ckpts' = IF saved
                  THEN <<[step |-> -1, skips |-> {}, nextNodes |-> <<graph.entry>>,
                          pendingWrites |-> {}, versions |-> [c \in ChannelName |-> 0],
                          barrierSets |-> [c \in ChannelName |-> {}],
                          versionsSeen |-> seen, promise |-> InitialDuty]>>
                  ELSE <<>>
      /\ UNCHANGED <<declared, mapped>>

\* Mutant: the pending writes stay pending.
SaveLoopCheckpointKeepsWrites(step, frontier, saved) ==
  /\ UNCHANGED pendingWrites
  /\ ckpts' = IF saved
              THEN Append(ckpts, Checkpoint(step, chan, skips, frontier, pendingWrites, duty))
              ELSE ckpts

\* createCheckpointAndSave: the pending writes go into the checkpoint and are
\* cleared whether or not the saver stores it.
SaveLoopCheckpoint(step, frontier, saved) ==
  /\ pendingWrites' = {}
  /\ ckpts' = IF saved
              THEN Append(ckpts, Checkpoint(step, chan, skips, frontier, pendingWrites, duty))
              ELSE ckpts

\* Mutant: the breakpoints to skip are not stored.
SaveInterruptCheckpointNoSkips(step, chs, sk, next, promise, saved) ==
  ckpts' = IF saved THEN Append(ckpts, Checkpoint(step, chs, {}, next, {}, promise)) ELSE ckpts

\* The part of handleInterrupt that stores the interrupt checkpoint, which
\* carries no pending writes.
SaveInterruptCheckpoint(step, chs, sk, next, promise, saved) ==
  ckpts' = IF saved THEN Append(ckpts, Checkpoint(step, chs, sk, next, {}, promise)) ELSE ckpts
-----------------------------------------------------------------------------
InitContext ==
  /\ declared = graph.declared /\ mapped = graph.mapped
  /\ chan = [c \in ChannelName |-> NewChannel]
  /\ nextNodes = <<>> /\ skips = {} /\ pendingWrites = {} /\ pendingTasks = <<>>
  /\ versionsSeen = [n \in Node |-> [c \in ChannelName |-> NeverSeen]]
  /\ resumedFrom = 0 /\ ckpts = <<>> /\ duty = InitialDuty

CheckpointType ==
  [step : Nat \cup {-1}, skips : SUBSET Node, nextNodes : Seq(Node \cup {End}),
   pendingWrites : SUBSET PendingWriteType, versions : [ChannelName -> Nat],
   barrierSets : [ChannelName -> SUBSET Node],
   versionsSeen : [Node -> [ChannelName -> Int]], promise : DutyType]

ContextTypeOK ==
  /\ declared \subseteq ChannelName /\ mapped \subseteq ChannelName
  /\ chan \in [ChannelName -> ChannelType(Node)]
  /\ nextNodes \in Seq(Node \cup {End}) /\ skips \subseteq Node
  /\ pendingWrites \subseteq PendingWriteType /\ pendingTasks \in Seq(Node)
  /\ versionsSeen \in [Node -> [ChannelName -> Int]]
  /\ ckpts \in Seq(CheckpointType) /\ resumedFrom \in 0..Len(ckpts)
  /\ duty \in DutyType
=============================================================================
