--------------------------- MODULE ContextProofs ---------------------------
(***************************************************************************)
(* What the operations of ExecutionContext keep, for every compiled graph: *)
(* the facts that the proofs about both engines share.                     *)
(***************************************************************************)
EXTENDS ExecutionContext, FiniteSetTheorems, TLAPS

(***************************************************************************)
(* Sequences and sets                                                      *)
(***************************************************************************)

\* Functions on 1..n are sequences.
LEMMA FunctionIsSeq ==
  ASSUME NEW S, NEW n \in Nat, NEW f \in [1..n -> S]
  PROVE  f \in Seq(S)
OBVIOUS

\* An enumeration of a finite set, as planDagTasks and getNextNodes build it,
\* is a sequence over it.
LEMMA SetToSeqsType ==
  ASSUME NEW S, NEW T, IsFiniteSet(S), S \subseteq T, NEW q \in SetToSeqs(S)
  PROVE  q \in Seq(T)
<1>1. Cardinality(S) \in Nat
  BY FS_CardinalityType
<1>2. q \in [1..Cardinality(S) -> T]
  BY DEF SetToSeqs
<1> QED
  BY <1>1, <1>2, FunctionIsSeq

\* Sets of nodes, with or without the end node, are finite.
LEMMA NodesFinite ==
  ASSUME NEW S, S \subseteq Node \cup {End}
  PROVE  IsFiniteSet(S)
<1>1. IsFiniteSet(Node \cup {End})
  BY GraphAssumption, FS_AddElement DEF Node
<1> QED
  BY <1>1, FS_Subset

\* The executable entries of a list of next nodes are a sequence of nodes.
LEMMA ExecutableType ==
  ASSUME NEW s \in Seq(Node \cup {End}), NEW q \in Executable(s)
  PROVE  q \in Seq(Node)
<1> DEFINE kept == {i \in DOMAIN s : s[i] \in Node}
<1>1. IsFiniteSet(DOMAIN s)
  BY FS_Interval
<1>2. Cardinality(kept) \in Nat
  BY <1>1, FS_Subset, FS_CardinalityType, kept \subseteq DOMAIN s
<1>3. PICK pos \in [1..Cardinality(kept) -> kept] :
        q = [i \in 1..Cardinality(kept) |-> s[pos[i]]]
  BY DEF Executable
<1>4. q \in [1..Cardinality(kept) -> Node]
  BY <1>3
<1> QED
  BY <1>2, <1>4, FunctionIsSeq

\* A list of as many distinct elements of a set as it has names all of them.
LEMMA DistinctListOnto ==
  ASSUME NEW S, IsFiniteSet(S), NEW f \in [1..Cardinality(S) -> S],
         \A i, j \in 1..Cardinality(S) : i # j => f[i] # f[j]
  PROVE  Range(f) = S
<1>1. Cardinality(S) \in Nat
  BY FS_CardinalityType
<1>2. IsFiniteSet(1..Cardinality(S)) /\ Cardinality(1..Cardinality(S)) = Cardinality(S)
  BY <1>1, FS_Interval
<1>3. f \in Injection(1..Cardinality(S), S)
  BY DEF Injection, IsInjective
<1>4. f \in Surjection(1..Cardinality(S), S)
  BY <1>2, <1>3, FS_Injection
<1> QED
  BY <1>4 DEF Surjection, Range

\* An enumeration of a set names every element, and none twice.
LEMMA SetToSeqsRange ==
  ASSUME NEW S, IsFiniteSet(S), NEW q \in SetToSeqs(S)
  PROVE  /\ Range(q) = S
         /\ \A i, j \in DOMAIN q : i # j => q[i] # q[j]
<1>1. /\ q \in [1..Cardinality(S) -> S]
      /\ \A i, j \in 1..Cardinality(S) : i # j => q[i] # q[j]
  BY DEF SetToSeqs
<1> QED
  BY <1>1, DistinctListOnto

\* The executable entries are all entries that are nodes.
LEMMA ExecutableRange ==
  ASSUME NEW s \in Seq(Node \cup {End}), NEW q \in Executable(s)
  PROVE  Range(q) = Range(s) \cap Node
<1> DEFINE kept == {i \in DOMAIN s : s[i] \in Node}
<1>1. IsFiniteSet(kept)
  BY FS_Interval, FS_Subset, kept \subseteq DOMAIN s
<1>2. Cardinality(kept) \in Nat
  BY <1>1, FS_CardinalityType
<1>3. PICK pos \in [1..Cardinality(kept) -> kept] :
        /\ \A i, j \in 1..Cardinality(kept) : i < j => pos[i] < pos[j]
        /\ q = [i \in 1..Cardinality(kept) |-> s[pos[i]]]
  BY DEF Executable
<1>4. \A i, j \in 1..Cardinality(kept) : i # j => pos[i] # pos[j]
  <2> SUFFICES ASSUME NEW i \in 1..Cardinality(kept), NEW j \in 1..Cardinality(kept), i # j
               PROVE  pos[i] # pos[j]
    OBVIOUS
  <2>1. pos[i] \in Nat /\ pos[j] \in Nat
    OBVIOUS
  <2>2. i < j \/ j < i
    BY <1>2
  <2> QED
    BY <1>3, <2>1, <2>2
<1> HIDE DEF kept
<1>5. Range(pos) = kept
  BY <1>1, <1>4, DistinctListOnto
<1>6. Range(q) = {s[i] : i \in kept}
  BY <1>3, <1>5 DEF Range
<1> QED
  BY <1>6 DEF kept, Range
-----------------------------------------------------------------------------
(***************************************************************************)
(* Channels and the promise                                                *)
(***************************************************************************)

\* Update, Acknowledge and SetBarrierSeen keep a channel a channel (channel.go).
LEMMA ChannelOps ==
  ASSUME NEW S, NEW ch \in ChannelType(S), NEW expected \in SUBSET S, NEW n \in S
  PROVE  /\ NewChannel \in ChannelType(S)
         /\ Update(ch, expected, n) \in ChannelType(S)
         /\ Acknowledge(ch) \in ChannelType(S)
         /\ \A seen \in SUBSET S : SetBarrierSeen(ch, expected, seen) \in ChannelType(S)
<1>1. NewChannel \in ChannelType(S)
  BY DEF ChannelType, NewChannel
<1>2. Acknowledge(ch) \in ChannelType(S)
  BY DEF ChannelType, Acknowledge
<1>3. \A seen \in SUBSET S : BarrierSatisfied(expected, seen) \in BOOLEAN
  BY DEF BarrierSatisfied
<1>4. \A seen \in SUBSET S : SetBarrierSeen(ch, expected, seen) \in ChannelType(S)
  BY <1>3 DEF ChannelType, SetBarrierSeen
<1>5. Update(ch, expected, n) \in ChannelType(S)
  <2> DEFINE seen == IF expected = {} THEN ch.seen ELSE ch.seen \cup {n}
  <2>1. seen \in SUBSET S /\ ch.version + 1 \in Nat
    BY DEF ChannelType
  <2>2. BarrierSatisfied(expected, seen) \in BOOLEAN
    BY <1>3, <2>1
  <2>3. Update(ch, expected, n) = [version |-> ch.version + 1,
                                   available |-> BarrierSatisfied(expected, seen), seen |-> seen]
    BY DEF Update
  <2> QED
    BY <2>1, <2>2, <2>3 DEF ChannelType
<1> QED
  BY <1>1, <1>2, <1>4, <1>5

\* The entries of a list that name n can be counted.
LEMMA CountType ==
  ASSUME NEW S, NEW ts \in Seq(S), NEW n
  PROVE  /\ IsFiniteSet({i \in DOMAIN ts : ts[i] = n})
         /\ Cardinality({i \in DOMAIN ts : ts[i] = n}) \in Nat
<1>1. IsFiniteSet(DOMAIN ts)
  BY FS_Interval
<1> QED
  BY <1>1, FS_Subset, FS_CardinalityType, {i \in DOMAIN ts : ts[i] = n} \subseteq DOMAIN ts

\* The number of times that n is named in ts.
CountOf(ts, n) == Cardinality({i \in DOMAIN ts : ts[i] = n})

LEMMA CountNat ==
  ASSUME NEW S, NEW ts \in Seq(S)
  PROVE  \A n : CountOf(ts, n) \in Nat
BY CountType DEF CountOf

LEMMA CountEmpty == \A n : CountOf(<<>>, n) = 0
<1> SUFFICES ASSUME NEW n PROVE CountOf(<<>>, n) = 0
  OBVIOUS
<1>1. {i \in DOMAIN <<>> : <<>>[i] = n} = {}
  OBVIOUS
<1> QED
  BY <1>1, FS_EmptySet DEF CountOf

LEMMA CountSingle == \A m, n : CountOf(<<m>>, n) = IF n = m THEN 1 ELSE 0
<1> SUFFICES ASSUME NEW m, NEW n PROVE CountOf(<<m>>, n) = IF n = m THEN 1 ELSE 0
  OBVIOUS
<1>1. {i \in DOMAIN <<m>> : <<m>>[i] = n} = IF n = m THEN {1} ELSE {}
  OBVIOUS
<1> QED
  BY <1>1, FS_Singleton, FS_EmptySet DEF CountOf

\* A set is larger by at least one than a part of it that lacks an element.
LEMMA ProperSubset ==
  ASSUME NEW S, IsFiniteSet(S), NEW T, T \subseteq S
  PROVE  /\ Cardinality(T) \in Nat /\ Cardinality(S) \in Nat /\ Cardinality(T) <= Cardinality(S)
         /\ \A x \in S : x \notin T => Cardinality(T) + 1 <= Cardinality(S)
<1>1. /\ IsFiniteSet(T) /\ Cardinality(T) \in Nat /\ Cardinality(S) \in Nat
      /\ Cardinality(T) <= Cardinality(S)
  BY FS_Subset, FS_CardinalityType
<1>2. ASSUME NEW x \in S, x \notin T PROVE Cardinality(T) + 1 <= Cardinality(S)
  <2>1. IsFiniteSet(T \cup {x}) /\ Cardinality(T \cup {x}) = Cardinality(T) + 1
    BY <1>1, <1>2, FS_AddElement
  <2>2. T \cup {x} \subseteq S
    BY <1>2
  <2> QED
    BY <2>1, <2>2, FS_Subset
<1> QED
  BY <1>1, <1>2

\* What a writer promises keeps the type of the duties.
LEMMA OweType ==
  ASSUME NEW d \in DutyType, NEW ts \in Seq(Node \cup {End})
  PROVE  Owe(d, ts) \in DutyType
<1>1. \A n \in Node : Cardinality({i \in DOMAIN ts : ts[i] = n}) \in Nat
  BY CountType
<1> DEFINE owed == d.owed \cup (Range(ts) \cap Node)
           credit == [n \in Node |-> d.credit[n] + Cardinality({i \in DOMAIN ts : ts[i] = n})]
<1>2. credit \in [Node -> Int] /\ owed \in SUBSET Node
  BY <1>1 DEF DutyType
<1>3. Owe(d, ts) = [d EXCEPT !.owed = owed, !.credit = credit]
  BY DEF Owe, DutyType
<1> QED
  BY <1>2, <1>3 DEF DutyType

\* A write and the promise it makes keep the types of the channels and the duties.
LEMMA SendType ==
  ASSUME NEW d \in DutyType, NEW c \in ChannelName, NEW n \in Node
  PROVE  Send(d, c, n) \in DutyType
<1> DEFINE arrived == d.arrived[c] \cup {n}
           fires == graph.expected[c] \subseteq arrived
           d1 == [d EXCEPT !.arrived[c] = IF fires THEN {} ELSE arrived]
<1>1. d1 \in DutyType
  BY DEF DutyType
<1>2. <<graph.target[c]>> \in Seq(Node \cup {End})
  BY GraphAssumption DEF Node, ChannelName
<1>3. Owe(d1, <<graph.target[c]>>) \in DutyType
  BY <1>1, <1>2, OweType
<1> HIDE DEF d1, fires
<1>4. Send(d, c, n) = IF fires THEN Owe(d1, <<graph.target[c]>>) ELSE d1
  BY DEF Send, d1, fires
<1> QED
  BY <1>1, <1>3, <1>4

\* Tasks that start, and runs that pause, keep the type of the duties.
LEMMA StartStopType ==
  ASSUME NEW d \in DutyType
  PROVE  /\ \A ts \in Seq(Node) : Begin(d, ts) \in DutyType
         /\ \A hits \in SUBSET Node : StopBefore(d, hits) \in DutyType
<1>1. ASSUME NEW ts \in Seq(Node) PROVE Begin(d, ts) \in DutyType
  <2> DEFINE starts == [n \in Node |-> Cardinality({i \in DOMAIN ts : ts[i] = n})]
             excess == d.excess \cup {n \in Node : starts[n] > 0 /\ starts[n] > d.credit[n]}
             credit == [n \in Node |-> d.credit[n] - starts[n]]
  <2>1. starts \in [Node -> Nat]
    BY CountType
  <2>2. credit \in [Node -> Int] /\ excess \in SUBSET Node
    <3> HIDE DEF starts
    <3> QED
      BY <2>1 DEF DutyType
  <2>3. Begin(d, ts) = [d EXCEPT !.owed = @ \ Range(ts), !.stopped = @ \ Range(ts),
                                !.credit = credit, !.excess = excess]
    BY DEF Begin, DutyType
  <2> HIDE DEF excess, credit
  <2> QED
    BY <2>2, <2>3 DEF DutyType
<1>2. \A hits \in SUBSET Node : StopBefore(d, hits) \in DutyType
  BY DEF StopBefore, DutyType
<1> QED
  BY <1>1, <1>2
-----------------------------------------------------------------------------
(***************************************************************************)
(* The operations of ExecutionContext keep its state well typed            *)
(***************************************************************************)

\* A channel write of node n (processChannelWrites).
LEMMA WriteChannelType ==
  ASSUME ContextTypeOK, NEW n \in Node, NEW c \in ChannelName, WriteChannel(n, c)
  PROVE  /\ declared' \subseteq ChannelName /\ mapped' \subseteq ChannelName
         /\ chan' \in [ChannelName -> ChannelType(Node)]
         /\ pendingWrites' \subseteq PendingWriteType
<1>1. graph.expected[c] \in SUBSET Node
  BY GraphAssumption DEF Node, ChannelName
<1>2. Update(chan[c], graph.expected[c], n) \in ChannelType(Node)
  BY <1>1, ChannelOps DEF ContextTypeOK
<1>3. chan' \in [ChannelName -> ChannelType(Node)]
  BY <1>2 DEF WriteChannel, ContextTypeOK
<1> QED
  BY <1>3 DEF WriteChannel, ContextTypeOK, PendingWriteType

\* createCheckpointFromState with well-typed arguments gives a checkpoint.
LEMMA CheckpointRecordType ==
  ASSUME ContextTypeOK, NEW st \in Nat \cup {-1}, NEW chs \in [ChannelName -> ChannelType(Node)],
         NEW sk \in SUBSET Node, NEW next \in Seq(Node \cup {End}),
         NEW writes \in SUBSET PendingWriteType, NEW promise \in DutyType
  PROVE  Checkpoint(st, chs, sk, next, writes, promise) \in CheckpointType
<1>1. [c \in ChannelName |-> IF c \in declared THEN chs[c].version ELSE 0] \in [ChannelName -> Nat]
  BY DEF ChannelType
<1>2. [c \in ChannelName |-> chs[c].seen] \in [ChannelName -> SUBSET Node]
  BY DEF ChannelType
<1> QED
  BY <1>1, <1>2 DEF ContextTypeOK, CheckpointType, Checkpoint

\* The frontier of getNextNodes is a list of nodes, the end node possibly among them.
LEMMA FrontierType ==
  ASSUME ContextTypeOK, NEW S, S \subseteq GetNextNodes(chan), NEW q \in SetToSeqs(S)
  PROVE  q \in Seq(Node \cup {End})
<1>1. GetNextNodes(chan) \subseteq Node \cup {End}
  BY GraphAssumption DEF ContextTypeOK, GetNextNodes, Targets, Available, Node, ChannelName
<1>2. S \subseteq Node \cup {End} /\ IsFiniteSet(S)
  BY <1>1, NodesFinite
<1> QED
  BY <1>2, SetToSeqsType

\* A saved loop checkpoint extends the list of checkpoints (createCheckpointAndSave).
LEMMA SaveLoopCheckpointType ==
  ASSUME ContextTypeOK, NEW st \in Nat \cup {-1}, NEW frontier \in Seq(Node \cup {End}),
         NEW saved \in BOOLEAN, SaveLoopCheckpoint(st, frontier, saved)
  PROVE  /\ ckpts' \in Seq(CheckpointType) /\ Len(ckpts') >= Len(ckpts)
         /\ pendingWrites' \subseteq PendingWriteType
<1>1. Checkpoint(st, chan, skips, frontier, pendingWrites, duty) \in CheckpointType
  BY CheckpointRecordType DEF ContextTypeOK
<1>2. ckpts \in Seq(CheckpointType)
  BY DEF ContextTypeOK
<1> QED
  BY <1>1, <1>2 DEF SaveLoopCheckpoint

\* A saved interrupt checkpoint extends the list of checkpoints (handleInterrupt).
LEMMA SaveInterruptCheckpointType ==
  ASSUME ContextTypeOK, NEW st \in Nat \cup {-1}, NEW chs \in [ChannelName -> ChannelType(Node)],
         NEW sk \in SUBSET Node, NEW next \in Seq(Node \cup {End}),
         NEW promise \in DutyType, NEW saved \in BOOLEAN,
         SaveInterruptCheckpoint(st, chs, sk, next, promise, saved)
  PROVE  ckpts' \in Seq(CheckpointType) /\ Len(ckpts') >= Len(ckpts)
<1>1. Checkpoint(st, chs, sk, next, {}, promise) \in CheckpointType
  BY CheckpointRecordType
<1>2. ckpts \in Seq(CheckpointType)
  BY DEF ContextTypeOK
<1> QED
  BY <1>1, <1>2 DEF SaveInterruptCheckpoint

\* The next nodes of an interrupt checkpoint are nodes of the graph (handleInterrupt).
LEMMA InterruptNextNodesType ==
  ASSUME NEW carried \in Seq(Node \cup {End}), NEW frontier \in Seq(Node \cup {End}),
         NEW node, NEW skipRerun
  PROVE  InterruptNextNodes(carried, frontier, node, skipRerun) \in Seq(Node \cup {End})
<1> DEFINE next == IF carried # <<>> THEN carried ELSE frontier
<1>1. next \in Seq(Node \cup {End})
  OBVIOUS
<1>2. ASSUME node \in Node PROVE <<node>> \o next \in Seq(Node \cup {End})
  <2>1. <<node>> \in Seq(Node \cup {End})
    BY <1>2
  <2> HIDE DEF next
  <2> QED
    BY <1>1, <2>1
<1> HIDE DEF next
<1>3. InterruptNextNodes(carried, frontier, node, skipRerun) =
        IF skipRerun \/ node \notin Node \/ node \in Range(next) THEN next ELSE <<node>> \o next
  BY DEF InterruptNextNodes, next
<1> QED
  BY <1>1, <1>2, <1>3

\* A run without a checkpoint starts from a well-typed context.
LEMMA FreshContextType ==
  ASSUME ContextTypeOK, NEW saved \in BOOLEAN, FreshContext(saved)
  PROVE  ContextTypeOK'
<1> DEFINE seen == [n \in Node |-> [c \in ChannelName |-> NeverSeen]]
           ck == [step |-> -1, skips |-> {}, nextNodes |-> <<graph.entry>>,
                  pendingWrites |-> {}, versions |-> [c \in ChannelName |-> 0],
                  barrierSets |-> [c \in ChannelName |-> {}],
                  versionsSeen |-> seen, promise |-> InitialDuty]
<1>1. InitialDuty \in DutyType
  BY GraphAssumption DEF InitialDuty, DutyType, Node
<1>2. duty' \in DutyType
  BY <1>1 DEF FreshContext, ContextTypeOK, DutyType
<1>3. seen \in [Node -> [ChannelName -> Int]] /\ seen = versionsSeen'
  BY DEF NeverSeen, FreshContext
<1>4. <<graph.entry>> \in Seq(Node \cup {End})
  BY GraphAssumption DEF Node
<1>5. ck \in CheckpointType
  <2> HIDE DEF seen
  <2> QED
    BY <1>1, <1>3, <1>4 DEF CheckpointType
<1>6. ckpts' \in Seq(CheckpointType)
  <2>1. ckpts' = IF saved THEN <<ck>> ELSE <<>>
    BY DEF FreshContext
  <2> HIDE DEF ck
  <2> QED
    BY <1>5, <2>1
<1>7. chan' \in [ChannelName -> ChannelType(Node)]
  BY DEF FreshContext, ChannelType, NewChannel
<1>8. resumedFrom' \in 0..Len(ckpts')
  BY <1>6 DEF FreshContext
<1> QED
  BY <1>2, <1>3, <1>6, <1>7, <1>8 DEF FreshContext, ContextTypeOK

\* Restoring a checkpoint gives a well-typed context: the channels with their
\* versions and barrier sets, and the pending writes replayed on them.
LEMMA ResumeContextType ==
  ASSUME ContextTypeOK, NEW k \in DOMAIN ckpts, NEW next \in Seq(Node \cup {End}),
         ResumeContext(k, next)
  PROVE  ContextTypeOK'
<1> DEFINE ck == ckpts[k]
           restored == RestoreChannels(ck)
<1>1. ck \in CheckpointType
  BY DEF ContextTypeOK
<1>2. restored \in [ChannelName -> ChannelType(Node)]
  <2> SUFFICES ASSUME NEW c \in ChannelName PROVE restored[c] \in ChannelType(Node)
    BY DEF RestoreChannels
  <2> DEFINE ch == [NewChannel EXCEPT !.version = ck.versions[c]]
  <2>1. ch \in ChannelType(Node) /\ NewChannel \in ChannelType(Node)
    BY <1>1 DEF CheckpointType, ChannelType, NewChannel
  <2>2. graph.expected[c] \in SUBSET Node /\ ck.barrierSets[c] \in SUBSET Node
    BY <1>1, GraphAssumption DEF CheckpointType, Node, ChannelName
  <2>3. SetBarrierSeen(ch, graph.expected[c], ck.barrierSets[c]) \in ChannelType(Node)
    <3> HIDE DEF ch, ck
    <3> QED
      BY <2>1, <2>2, ChannelOps, GraphAssumption DEF Node
  <2> HIDE DEF ch, ck
  <2> QED
    BY <2>1, <2>3 DEF RestoreChannels, ch, ck
<1>3. chan' \in [ChannelName -> ChannelType(Node)]
  <2> HIDE DEF restored, ck
  <2> SUFFICES ASSUME NEW c \in ChannelName
               PROVE  ApplyPendingWrites(restored, ck.pendingWrites)[c] \in ChannelType(Node)
    BY DEF ResumeContext, ApplyPendingWrites, restored, ck
  <2> DEFINE senders == {w[2] : w \in {v \in ck.pendingWrites : v[1] = c}}
             seen == IF graph.expected[c] = {} THEN restored[c].seen
                     ELSE restored[c].seen \cup senders
             replayed == [version |-> restored[c].version + Cardinality(senders),
                          available |-> BarrierSatisfied(graph.expected[c], seen),
                          seen |-> seen]
  <2>1. senders \subseteq Node
    BY <1>1 DEF CheckpointType, PendingWriteType
  <2>2. Cardinality(senders) \in Nat
    BY <2>1, NodesFinite, FS_CardinalityType
  <2>3. seen \in SUBSET Node
    BY <1>2, <2>1 DEF ChannelType
  <2>4. BarrierSatisfied(graph.expected[c], seen) \in BOOLEAN
    BY DEF BarrierSatisfied
  <2>5. restored[c].version + Cardinality(senders) \in Nat
    BY <1>2, <2>2 DEF ChannelType
  <2>6. replayed \in ChannelType(Node)
    <3> HIDE DEF seen, senders
    <3> QED
      BY <2>3, <2>4, <2>5 DEF ChannelType
  <2>7. ApplyPendingWrites(restored, ck.pendingWrites)[c] =
          IF c \notin declared \/ senders = {} THEN restored[c] ELSE replayed
    BY DEF ApplyPendingWrites
  <2> HIDE DEF replayed, senders
  <2> QED
    BY <1>2, <2>6, <2>7
<1>4. duty' \in DutyType
  <2>1. duty' = [ck.promise EXCEPT !.excess = duty.excess, !.restopped = duty.restopped]
    BY DEF ResumeContext
  <2>2. ck.promise \in DutyType /\ duty \in DutyType
    BY <1>1 DEF CheckpointType, ContextTypeOK
  <2> HIDE DEF ck
  <2> QED
    BY <2>1, <2>2 DEF DutyType
<1>5. /\ nextNodes' \in Seq(Node \cup {End}) /\ pendingTasks' \in Seq(Node)
      /\ skips' \subseteq Node /\ pendingWrites' \subseteq PendingWriteType
      /\ versionsSeen' \in [Node -> [ChannelName -> Int]]
  BY <1>1 DEF ResumeContext, CheckpointType
<1>6. /\ declared' \subseteq ChannelName /\ mapped' \subseteq ChannelName
      /\ ckpts' \in Seq(CheckpointType) /\ resumedFrom' \in 0..Len(ckpts')
  BY DEF ResumeContext, ContextTypeOK
<1> QED
  BY <1>3, <1>4, <1>5, <1>6 DEF ContextTypeOK
\* A step that leaves the execution context alone leaves it well typed.
LEMMA ContextUnchanged == ContextTypeOK /\ UNCHANGED ctxVars => ContextTypeOK'
BY DEF ctxVars, ContextTypeOK

-----------------------------------------------------------------------------
(***************************************************************************)
(* Channels that hold an activation, and the promise                       *)
(***************************************************************************)

\* Channel c holds an activation that the promise has counted: it is available, or it
\* is a barrier that still waits for senders the promise no longer waits for.
Held(c) == chan[c].available \/ ~(chan[c].seen \subseteq duty.arrived[c])
Claims(n) == {c \in ChannelName : graph.target[c] = n /\ Held(c)}

\* A node is in a list if and only if it is counted there.
LEMMA CountPositive ==
  ASSUME NEW S, NEW ts \in Seq(S), NEW n
  PROVE  n \in Range(ts) <=> CountOf(ts, n) > 0
<1>1. {i \in DOMAIN ts : ts[i] = n} = {} <=> n \notin Range(ts)
  BY DEF Range
<1>2. /\ IsFiniteSet({i \in DOMAIN ts : ts[i] = n})
      /\ Cardinality({i \in DOMAIN ts : ts[i] = n}) \in Nat
  BY CountType
<1>3. Cardinality({i \in DOMAIN ts : ts[i] = n}) = 0 <=> {i \in DOMAIN ts : ts[i] = n} = {}
  BY <1>2, FS_EmptySet
<1> QED
  BY <1>1, <1>2, <1>3 DEF CountOf

\* A list without repetitions counts nobody twice.
LEMMA CountDistinct ==
  ASSUME NEW S, NEW ts \in Seq(S), \A i, j \in DOMAIN ts : i # j => ts[i] # ts[j], NEW n
  PROVE  CountOf(ts, n) <= 1
<1> DEFINE at == {i \in DOMAIN ts : ts[i] = n}
<1>1. CASE at = {}
  BY <1>1, FS_EmptySet DEF CountOf
<1>2. CASE at # {}
  <2>1. PICK i \in DOMAIN ts : ts[i] = n
    BY <1>2
  <2>2. at = {i}
    BY <2>1
  <2>3. CountOf(ts, n) = Cardinality({i})
    BY <2>2 DEF CountOf
  <2>4. Cardinality({i}) = 1
    BY FS_Singleton
  <2> HIDE DEF at
  <2> QED
    BY <2>3, <2>4
<1> QED
  BY <1>1, <1>2

\* The counts of two lists add up.
LEMMA CountConcat ==
  ASSUME NEW S, NEW s \in Seq(S), NEW t \in Seq(S), NEW n
  PROVE  CountOf(s \o t, n) = CountOf(s, n) + CountOf(t, n)
<1> DEFINE inS == {i \in DOMAIN s : s[i] = n}
           inT == {i \in DOMAIN t : t[i] = n}
           moved == {i \in DOMAIN (s \o t) : (s \o t)[i] = n /\ i > Len(s)}
           shift == [i \in inT |-> i + Len(s)]
<1>1. IsFiniteSet(inS) /\ IsFiniteSet(inT) /\ Cardinality(inS) \in Nat /\ Cardinality(inT) \in Nat
  BY CountType
<1>2. {i \in DOMAIN (s \o t) : (s \o t)[i] = n} = inS \cup moved
  OBVIOUS
<1>3. inS \cap moved = {}
  OBVIOUS
<1>4. shift \in Bijection(inT, moved)
  <2>1. shift \in [inT -> moved]
    OBVIOUS
  <2>2. \A i, j \in inT : shift[i] = shift[j] => i = j
    OBVIOUS
  <2>3. \A k \in moved : \E i \in inT : shift[i] = k
    <3> SUFFICES ASSUME NEW k \in moved PROVE \E i \in inT : shift[i] = k
      OBVIOUS
    <3>1. k - Len(s) \in inT
      OBVIOUS
    <3>2. shift[k - Len(s)] = k
      BY <3>1
    <3> QED
      BY <3>1, <3>2
  <2> HIDE DEF shift, inT, moved
  <2> QED
    BY <2>1, <2>2, <2>3 DEF Bijection, Injection, Surjection, IsInjective
<1>c. /\ CountOf(s \o t, n) = Cardinality(inS \cup moved)
      /\ CountOf(s, n) = Cardinality(inS) /\ CountOf(t, n) = Cardinality(inT)
  BY <1>2 DEF CountOf
<1> HIDE DEF shift, inS, inT, moved
<1>5. IsFiniteSet(moved) /\ Cardinality(moved) = Cardinality(inT)
  BY <1>1, <1>4, FS_Bijection DEF ExistsBijection
<1>6. Cardinality(inS \cup moved) = Cardinality(inS) + Cardinality(moved) - Cardinality({})
  BY <1>1, <1>3, <1>5, FS_Union
<1>7. Cardinality({}) = 0
  BY FS_EmptySet
<1> QED
  BY <1>1, <1>c, <1>5, <1>6, <1>7

\* The channels that hold an activation for n can be counted.
LEMMA ClaimsFinite ==
  ASSUME NEW n
  PROVE  IsFiniteSet(Claims(n)) /\ Cardinality(Claims(n)) \in Nat
BY GraphAssumption, FS_Subset, FS_CardinalityType, Claims(n) \subseteq ChannelName
   DEF Claims, ChannelName

\* What Owe and Send do to the promise.
LEMMA OweEffect ==
  ASSUME NEW d \in DutyType, NEW ts \in Seq(Node \cup {End})
  PROVE  /\ Owe(d, ts).owed = d.owed \cup (Range(ts) \cap Node)
         /\ \A n \in Node : Owe(d, ts).credit[n] = d.credit[n] + CountOf(ts, n)
         /\ Owe(d, ts).arrived = d.arrived /\ Owe(d, ts).excess = d.excess
         /\ Owe(d, ts).stopped = d.stopped /\ Owe(d, ts).restopped = d.restopped
BY DEF Owe, DutyType, CountOf

\* The promise counts an activation when n writes c.
Fires(d, c, n) == graph.expected[c] \subseteq d.arrived[c] \cup {n}

\* A send keeps what has arrived at a join until the join fires ...
LEMMA SendArrived ==
  ASSUME NEW d \in DutyType, NEW c \in ChannelName, NEW n \in Node
  PROVE  Send(d, c, n).arrived =
           [d.arrived EXCEPT ![c] = IF Fires(d, c, n) THEN {} ELSE d.arrived[c] \cup {n}]
<1> DEFINE d1 == [d EXCEPT !.arrived[c] = IF Fires(d, c, n) THEN {} ELSE d.arrived[c] \cup {n}]
<1>1. Send(d, c, n) = IF Fires(d, c, n) THEN Owe(d1, <<graph.target[c]>>) ELSE d1
  BY DEF Send, Fires
<1>2. d1.arrived = [d.arrived EXCEPT ![c] = IF Fires(d, c, n) THEN {} ELSE d.arrived[c] \cup {n}]
  BY DEF DutyType
<1>3. Owe(d1, <<graph.target[c]>>).arrived = d1.arrived
  BY DEF Owe, DutyType
<1> HIDE DEF d1
<1> QED
  BY <1>1, <1>2, <1>3

\* ... leaves the books on starts and breakpoints alone ...
LEMMA SendLeaves ==
  ASSUME NEW d \in DutyType, NEW c \in ChannelName, NEW n \in Node
  PROVE  /\ Send(d, c, n).excess = d.excess
         /\ Send(d, c, n).stopped = d.stopped /\ Send(d, c, n).restopped = d.restopped
BY DEF Send, Owe, DutyType

\* ... and credits the target once when it fires.
LEMMA SendCredits ==
  ASSUME NEW d \in DutyType, NEW c \in ChannelName, NEW n \in Node
  PROVE  /\ Fires(d, c, n) =>
              /\ Send(d, c, n).owed = d.owed \cup ({graph.target[c]} \cap Node)
              /\ \A m \in Node : Send(d, c, n).credit[m] =
                                 d.credit[m] + (IF m = graph.target[c] THEN 1 ELSE 0)
         /\ ~Fires(d, c, n) =>
              /\ Send(d, c, n).owed = d.owed
              /\ \A m \in Node : Send(d, c, n).credit[m] = d.credit[m]
<1> DEFINE d1 == [d EXCEPT !.arrived[c] = IF Fires(d, c, n) THEN {} ELSE d.arrived[c] \cup {n}]
           t == graph.target[c]
<1>1. d1 \in DutyType /\ d1.owed = d.owed /\ d1.credit = d.credit
  BY DEF DutyType
<1>2. t \in Node \cup {End} /\ <<t>> \in Seq(Node \cup {End})
  BY GraphAssumption DEF Node, ChannelName
<1>3. Send(d, c, n) = IF Fires(d, c, n) THEN Owe(d1, <<t>>) ELSE d1
  BY DEF Send, Fires
<1> HIDE DEF d1, t
<1>4. \A m \in Node : CountOf(<<t>>, m) = IF m = t THEN 1 ELSE 0
  BY CountSingle
<1>5. Range(<<t>>) = {t}
  BY DEF Range
<1>6. /\ Owe(d1, <<t>>).owed = d1.owed \cup (Range(<<t>>) \cap Node)
      /\ \A m \in Node : Owe(d1, <<t>>).credit[m] = d1.credit[m] + CountOf(<<t>>, m)
  BY <1>1, <1>2, OweEffect
<1>7. CASE Fires(d, c, n)
  BY <1>1, <1>3, <1>4, <1>5, <1>6, <1>7 DEF t
<1>8. CASE ~Fires(d, c, n)
  BY <1>1, <1>3, <1>8
<1> QED
  BY <1>7, <1>8

\* A channel write makes at most as many activations for m available as the promise
\* then counts: a barrier that becomes available has heard from every start the promise
\* waited for (Update and the edges of the graph).
LEMMA SendKeepsClaims ==
  ASSUME ContextTypeOK, NEW n \in Node, NEW c \in ChannelName,
         WriteChannel(n, c), duty' = Send(duty, c, n), NEW m \in Node
  PROVE  duty'.credit[m] - duty.credit[m] >= Cardinality(Claims(m)') - Cardinality(Claims(m))
<1>0. duty \in DutyType
  BY DEF ContextTypeOK
<1>t. duty.arrived \in [ChannelName -> SUBSET Node] /\ chan \in [ChannelName -> ChannelType(Node)]
  BY <1>0 DEF DutyType, ContextTypeOK
<1>1. /\ duty'.arrived = [duty.arrived EXCEPT ![c] = IF Fires(duty, c, n) THEN {}
                                                      ELSE duty.arrived[c] \cup {n}]
      /\ duty'.credit[m] = duty.credit[m] +
           (IF Fires(duty, c, n) /\ m = graph.target[c] THEN 1 ELSE 0)
  <2>1. duty'.arrived = Send(duty, c, n).arrived /\ duty'.credit = Send(duty, c, n).credit
    OBVIOUS
  <2>2. Send(duty, c, n).arrived = [duty.arrived EXCEPT ![c] = IF Fires(duty, c, n) THEN {}
                                                        ELSE duty.arrived[c] \cup {n}]
    BY <1>0, SendArrived
  <2>3. CASE Fires(duty, c, n)
    BY <1>0, <2>1, <2>2, <2>3, SendCredits
  <2>4. CASE ~Fires(duty, c, n)
    <3>1. duty.credit[m] \in Int
      BY <1>0 DEF DutyType
    <3> QED
      BY <1>0, <2>1, <2>2, <2>4, <3>1, SendCredits
  <2> QED
    BY <2>3, <2>4
<1>2. chan' = [chan EXCEPT ![c] = Update(chan[c], graph.expected[c], n)]
  BY DEF WriteChannel
<1>3. \A d \in ChannelName \ {c} : Held(d)' <=> Held(d)
  BY <1>t, <1>1, <1>2 DEF Held
<1>4. ASSUME Held(c)', ~Held(c) PROVE Fires(duty, c, n)
  <2> USE DEF Fires
  <2>1. chan[c].seen \subseteq duty.arrived[c]
    BY <1>4 DEF Held
  <2>2. chan'[c] = Update(chan[c], graph.expected[c], n)
    BY <1>t, <1>2
  <2>3. CASE graph.expected[c] = {}
    BY <2>3
  <2>4. CASE graph.expected[c] # {}
    <3>1. /\ chan'[c].seen = chan[c].seen \cup {n}
          /\ chan'[c].available = BarrierSatisfied(graph.expected[c], chan[c].seen \cup {n})
      BY <2>2, <2>4 DEF Update
    <3>2. CASE chan'[c].available
      BY <2>1, <3>1, <3>2 DEF BarrierSatisfied
    <3>3. CASE ~(chan'[c].seen \subseteq duty'.arrived[c])
      <4> SUFFICES ASSUME ~Fires(duty, c, n) PROVE FALSE
        OBVIOUS
      <4>1. duty'.arrived[c] = duty.arrived[c] \cup {n}
        BY <1>t, <1>1
      <4> QED
        BY <2>1, <3>1, <3>3, <4>1
    <3> QED
      BY <1>4, <3>2, <3>3 DEF Held
  <2> QED
    BY <2>3, <2>4
<1>5. /\ IsFiniteSet(Claims(m)) /\ Cardinality(Claims(m)) \in Nat
      /\ IsFiniteSet(Claims(m)') /\ Cardinality(Claims(m)') \in Nat
  <2>1. Claims(m)' \subseteq ChannelName
    BY DEF Claims
  <2> QED
    BY <2>1, ClaimsFinite, GraphAssumption, FS_Subset, FS_CardinalityType DEF ChannelName
<1>6. duty.credit[m] \in Int
  BY <1>0 DEF DutyType
<1>7. CASE Claims(m)' \subseteq Claims(m)
  <2>1. Cardinality(Claims(m)') <= Cardinality(Claims(m))
    BY <1>5, <1>7, FS_Subset
  <2> QED
    BY <1>1, <1>5, <1>6, <2>1
<1>8. CASE ~(Claims(m)' \subseteq Claims(m))
  <2>1. m = graph.target[c] /\ Held(c)' /\ ~Held(c)
    BY <1>3, <1>8 DEF Claims
  <2>2. Claims(m)' \subseteq Claims(m) \cup {c} /\ c \notin Claims(m)
    BY <1>3, <2>1 DEF Claims
  <2>3. /\ IsFiniteSet(Claims(m) \cup {c})
        /\ Cardinality(Claims(m) \cup {c}) = Cardinality(Claims(m)) + 1
    BY <1>5, <2>2, FS_AddElement
  <2>4. Cardinality(Claims(m)') <= Cardinality(Claims(m)) + 1
    BY <2>2, <2>3, FS_Subset
  <2> QED
    BY <1>1, <1>4, <1>5, <1>6, <2>1, <2>4
<1> QED
  BY <1>7, <1>8

\* A start takes the credit it needs and no more, and is an excess only without credit.
LEMMA BeginEffect ==
  ASSUME NEW d \in DutyType, NEW ts \in Seq(Node), \A n \in Node : CountOf(ts, n) <= d.credit[n]
  PROVE  /\ Begin(d, ts).excess = d.excess /\ Begin(d, ts).arrived = d.arrived
         /\ Begin(d, ts).owed = d.owed \ Range(ts)
         /\ \A n \in Node : Begin(d, ts).credit[n] = d.credit[n] - CountOf(ts, n)
<1> DEFINE starts == [n \in Node |-> CountOf(ts, n)]
<1>1. \A n \in Node : starts[n] \in Nat /\ starts[n] <= d.credit[n] /\ d.credit[n] \in Int
  BY CountNat DEF DutyType
<1>2. Begin(d, ts) = [d EXCEPT !.owed = d.owed \ Range(ts), !.stopped = d.stopped \ Range(ts),
                        !.credit = [n \in Node |-> d.credit[n] - starts[n]],
                        !.excess = d.excess \cup {n \in Node : starts[n] > 0 /\ starts[n] > d.credit[n]}]
  BY DEF Begin, CountOf, DutyType
<1>3. \A n \in Node : starts[n] = CountOf(ts, n)
  OBVIOUS
<1> HIDE DEF starts
<1>4. {n \in Node : starts[n] > 0 /\ starts[n] > d.credit[n]} = {}
  BY <1>1
<1> QED
  BY <1>2, <1>3, <1>4 DEF DutyType

\* A list holds its first entry and what its tail holds.
LEMMA CountTail ==
  ASSUME NEW S, NEW s \in Seq(S), s # <<>>, NEW n
  PROVE  CountOf(s, n) = CountOf(Tail(s), n) + (IF n = Head(s) THEN 1 ELSE 0)
<1>1. s = <<Head(s)>> \o Tail(s) /\ <<Head(s)>> \in Seq(S) /\ Tail(s) \in Seq(S)
  <2>1. Head(s) \in S /\ Tail(s) \in Seq(S) /\ <<Head(s)>> \in Seq(S)
    OBVIOUS
  <2>2. Len(s) = Len(<<Head(s)>> \o Tail(s))
    BY <2>1
  <2>3. \A i \in 1..Len(s) : s[i] = (<<Head(s)>> \o Tail(s))[i]
    BY <2>1
  <2>4. <<Head(s)>> \o Tail(s) \in Seq(S)
    BY <2>1
  <2> QED
    BY <2>1, <2>2, <2>3, <2>4
<1>2. CountOf(<<Head(s)>> \o Tail(s), n) = CountOf(<<Head(s)>>, n) + CountOf(Tail(s), n)
  BY <1>1, CountConcat
<1>3. CountOf(<<Head(s)>>, n) = IF n = Head(s) THEN 1 ELSE 0
  BY CountSingle
<1>4. CountOf(Tail(s), n) \in Nat
  BY <1>1, CountNat
<1>5. CountOf(s, n) = CountOf(<<Head(s)>>, n) + CountOf(Tail(s), n)
  BY <1>1, <1>2, Zenon
<1> QED
  BY <1>3, <1>4, <1>5

\* A list of nothing but m holds m as often as it is long.
LEMMA CountRepeat ==
  ASSUME NEW S, NEW s \in Seq(S), NEW m, \A i \in DOMAIN s : s[i] = m, NEW n
  PROVE  CountOf(s, n) = IF n = m THEN Len(s) ELSE 0
<1>1. {i \in DOMAIN s : s[i] = n} = IF n = m THEN 1..Len(s) ELSE {}
  OBVIOUS
<1>2. Len(s) \in Nat
  OBVIOUS
<1>3. \A k \in Nat : Cardinality(1..k) = k
  BY FS_Interval
<1> QED
  BY <1>1, <1>2, <1>3, FS_EmptySet DEF CountOf

\* Two lists joined hold what each of them holds.
LEMMA RangeConcat ==
  ASSUME NEW S, NEW s \in Seq(S), NEW t \in Seq(S)
  PROVE  Range(s \o t) = Range(s) \cup Range(t)
<1>1. \A k \in DOMAIN s : k \in DOMAIN (s \o t) /\ (s \o t)[k] = s[k]
  OBVIOUS
<1>2. \A k \in DOMAIN t : k + Len(s) \in DOMAIN (s \o t) /\ (s \o t)[k + Len(s)] = t[k]
  OBVIOUS
<1>3. \A k \in DOMAIN (s \o t) :
        \/ k \in DOMAIN s /\ (s \o t)[k] = s[k]
        \/ k - Len(s) \in DOMAIN t /\ (s \o t)[k] = t[k - Len(s)]
  OBVIOUS
<1>4. Range(s) \subseteq Range(s \o t)
  BY <1>1 DEF Range
<1>5. Range(t) \subseteq Range(s \o t)
  BY <1>2 DEF Range
<1>6. Range(s \o t) \subseteq Range(s) \cup Range(t)
  BY <1>3 DEF Range
<1> QED
  BY <1>4, <1>5, <1>6
-----------------------------------------------------------------------------
(***************************************************************************)
(* Joins and the promise.  A barrier that is full keeps no record of a     *)
(* start that completes once more before it is acknowledged; as long as    *)
(* that does not happen, it has heard from exactly those starts that the   *)
(* promise has.  In what follows J stands for the joins to which it may    *)
(* happen.                                                                 *)
(***************************************************************************)

\* A start of join c completes again while the barrier is full.
StartRepeats(c) ==
  graph.expected[c] # {} /\ chan[c].available /\ \E n \in Node : WriteChannel(n, c)

\* It happens to no join but those of J.
StartsOnce(J) == \A c \in ChannelName \ J : ~StartRepeats(c)

\* The barriers other than those of J agree with the promise.
Agree(J) ==
  \A c \in ChannelName \ J : graph.expected[c] # {} =>
    /\ chan[c].available => duty.arrived[c] = {}
    /\ ~chan[c].available => duty.arrived[c] = chan[c].seen

\* A write keeps the agreement, and makes available what the promise counts.
LEMMA SendAgrees ==
  ASSUME ContextTypeOK, NEW n \in Node, NEW c \in ChannelName,
         WriteChannel(n, c), duty' = Send(duty, c, n), NEW J, Agree(J), StartsOnce(J)
  PROVE  /\ Agree(J)'
         /\ Fires(duty, c, n) => chan'[c].available \/ c \in J
<1>t. /\ duty \in DutyType /\ duty.arrived \in [ChannelName -> SUBSET Node]
      /\ chan \in [ChannelName -> ChannelType(Node)]
  BY DEF ContextTypeOK, DutyType
<1>1. duty'.arrived = [duty.arrived EXCEPT ![c] = IF Fires(duty, c, n) THEN {}
                                                  ELSE duty.arrived[c] \cup {n}]
  BY <1>t, SendArrived
<1>2. /\ chan' = [chan EXCEPT ![c] = Update(chan[c], graph.expected[c], n)]
      /\ chan'[c] = Update(chan[c], graph.expected[c], n)
  BY <1>t DEF WriteChannel
<1>3. CASE c \in J
  BY <1>t, <1>1, <1>2, <1>3 DEF Agree
<1>4. CASE graph.expected[c] = {}
  <2>0. Update(chan[c], {}, n).available
    BY DEF Update, BarrierSatisfied
  <2>1. chan'[c].available
    BY <1>2, <1>4, <2>0
  <2> QED
    BY <1>t, <1>1, <1>2, <1>4, <2>1 DEF Agree
<1>5. CASE c \notin J /\ graph.expected[c] # {}
  <2>1. ~chan[c].available
    BY <1>5 DEF StartsOnce, StartRepeats
  <2>2. duty.arrived[c] = chan[c].seen
    BY <1>5, <2>1 DEF Agree
  <2>3. /\ chan'[c].seen = chan[c].seen \cup {n}
        /\ chan'[c].available <=> Fires(duty, c, n)
    <3>1. chan'[c] = [version |-> chan[c].version + 1,
                      available |-> BarrierSatisfied(graph.expected[c], chan[c].seen \cup {n}),
                      seen |-> chan[c].seen \cup {n}]
      BY <1>2, <1>5 DEF Update
    <3>2. BarrierSatisfied(graph.expected[c], chan[c].seen \cup {n}) <=> Fires(duty, c, n)
      BY <2>2 DEF BarrierSatisfied, Fires
    <3> QED
      BY <3>1, <3>2
  <2>4. /\ Fires(duty, c, n) => duty'.arrived[c] = {}
        /\ ~Fires(duty, c, n) => duty'.arrived[c] = chan'[c].seen
    BY <1>t, <1>1, <2>2, <2>3
  <2>5. \A d \in ChannelName : d # c => chan'[d] = chan[d] /\ duty'.arrived[d] = duty.arrived[d]
    BY <1>t, <1>1, <1>2
  <2> QED
    BY <2>3, <2>4, <2>5 DEF Agree
<1> QED
  BY <1>3, <1>4, <1>5

\* Acknowledging full barriers keeps it.
LEMMA AcknowledgeAgrees ==
  ASSUME ContextTypeOK, NEW J, Agree(J), duty'.arrived = duty.arrived,
         \A c \in ChannelName : \/ chan'[c] = chan[c]
                                \/ chan[c].available /\ chan'[c] = Acknowledge(chan[c])
  PROVE  Agree(J)'
<1> SUFFICES ASSUME NEW c \in ChannelName \ J, graph.expected[c] # {}
             PROVE  /\ chan'[c].available => duty'.arrived[c] = {}
                    /\ ~chan'[c].available => duty'.arrived[c] = chan'[c].seen
  BY DEF Agree
<1>1. CASE chan'[c] = chan[c]
  BY <1>1 DEF Agree
<1>2. CASE chan[c].available /\ chan'[c] = Acknowledge(chan[c])
  <2>1. duty'.arrived[c] = {}
    BY <1>2 DEF Agree
  <2>2. chan'[c].available \/ chan'[c].seen = {}
    <3>1. chan[c] \in ChannelType(Node)
      BY DEF ContextTypeOK
    <3> QED
      BY <1>2, <3>1 DEF Acknowledge, ChannelType
  <2> QED
    BY <2>1, <2>2
<1> QED
  BY <1>1, <1>2
=============================================================================
