---------------------------- MODULE RunnerProofs ----------------------------
(***************************************************************************)
(* Proofs about Runner, for every buffer size, number of agents, tools,    *)
(* queued messages and faults: TypeOK, WokenMeansStored, SessionInOrder,   *)
(* OutputStored and CompletionDelivered.                                   *)
(*                                                                         *)
(* They rest on where the events are.  Numbers grow along the pipeline     *)
(* from what was handed out, through the event in the loop's hand, the     *)
(* agent's channel and the event in the forwarder's hand, to the flow's    *)
(* channel; and an event that is not stored yet is still in the pipeline,  *)
(* or behind everything that is.                                           *)
(***************************************************************************)
EXTENDS Runner, SequenceTheorems, TLAPS

FwdPcs == {"range", "emit", "close", "done"}
LoopPcs == {"select", "notify", "emit", "complete", "last", "teardown", "cancel", "ended"}
AgentKinds == {"start", "user", "call", "result", "final", "error"}

\* The events with numbers up to k.
EventsTo(k) == [n : 1..k, kind : Kinds]

\* The flow and what bounds it.
FlowOK ==
  /\ n \in Nat /\ root \in {"llm", "chain"} /\ synced \in Nat /\ synced <= n
  /\ flow \in [pc : FlowPcs, agent : Nat, wait : Nat, batch : Nat, tools : Nat]
  /\ 1 <= flow.agent /\ flow.agent <= Agents /\ flow.wait <= n /\ flow.tools <= MaxTools
  /\ faults \in Nat /\ faults <= MaxFaults
  /\ queue \in Nat /\ steered \in Nat /\ queue + flow.batch <= steered
  /\ steered <= MaxSteers
  /\ Waiting => flow.wait > 0
  /\ flow.pc = "user" => flow.batch > 0
  /\ fclosed <=> flow.pc = "done"

\* The channels, the session and what was read and sent.
SeqsOK ==
  /\ n \in Nat
  /\ fch \in Seq(EventsTo(n)) /\ Len(fch) <= Buffer
  /\ ach \in Seq(EventsTo(n)) /\ Len(ach) <= Buffer
  /\ out \in Seq(EventsTo(n)) /\ Len(out) <= Buffer
  /\ session \in Seq(EventsTo(n)) /\ got \in Seq(EventsTo(n)) /\ sent \in Seq(EventsTo(n))
  /\ closed \subseteq 1..n /\ failed \subseteq 1..n /\ dropped \subseteq EventsTo(n)

\* The forwarder, the loop and the context.
LoopOK ==
  /\ n \in Nat
  /\ fwd \in [pc : FwdPcs, evt : EventsTo(n) \cup {NoEvent}]
  /\ fwd.pc = "emit" => fwd.evt \in EventsTo(n)
  /\ loop \in [pc : LoopPcs, evt : EventsTo(n) \cup {NoEvent}, flush : BOOLEAN]
  /\ loop.pc \in {"notify", "emit", "last"} => loop.evt \in EventsTo(n)
  /\ loop.flush <=> ack = "open"
  /\ ctx \in {"ok", "done", "released"}
  /\ committed \subseteq {"flow", "forwarder", "loop"} /\ (ctx = "ok" => committed = {})

RunnerTypeOK == FlowOK /\ SeqsOK /\ LoopOK

\* The loop may still take events.
Alive == loop.pc \in {"select", "notify", "emit"}
InHand == IF loop.pc \in {"notify", "emit"} THEN {loop.evt} ELSE {}
Forwarding == IF fwd.pc = "emit" THEN {fwd.evt} ELSE {}
\* The events that come after the loop.
Upstream == Range(ach) \cup Forwarding \cup Range(fch)

Ascending(s) == \A i, j \in DOMAIN s : i < j => s[i].n < s[j].n
Before(S, T) == \A e \in S, f \in T : e.n < f.n

\* Numbers grow along the pipeline.
PipelineOrder ==
  /\ Ascending(Delivered) /\ Ascending(ach) /\ Ascending(fch)
  /\ Before(Range(ach), Forwarding \cup Range(fch)) /\ Before(Forwarding, Range(fch))
  /\ Alive => Before(Range(Delivered), InHand \cup Upstream) /\ Before(InHand, Upstream)
  /\ loop.pc = "last" => Before(Range(Delivered), {loop.evt})

\* The events of the agents are those the flows sent.
Origin ==
  /\ Range(sent) \subseteq [n : 1..n, kind : AgentKinds]
  /\ Upstream \cup InHand \subseteq Range(sent)
  /\ \A e \in Range(session) : e \in Range(sent) \/ e.kind \in {"child", "completion"}
  /\ loop.pc = "last" => loop.evt.kind = "completion"

FromAgents(S) == {e \in S : e.kind # "child"}

\* Numbers grow along s, child events left out.
InOrder(s) ==
  \A i, j \in DOMAIN s : i < j /\ s[i].kind # "child" /\ s[j].kind # "child" => s[i].n < s[j].n

\* The session is in order, and what comes after the loop belongs behind it.
StoreOrder ==
  /\ InOrder(session)
  /\ Alive => Before(FromAgents(Range(session)), Upstream)

\* The loop can hand out nothing any more.
Mute == Done /\ "loop" \notin committed
\* The events the loop is to hand out next.
Offered == InHand \cup (IF loop.pc = "last" THEN {loop.evt} ELSE {})

\* An event is stored before it is handed out, only the completion event need not be; one
\* that was stored is handed out, is in the loop's hand, was dropped by a panic, or the loop
\* can hand out nothing any more; and after a panic the loop takes no event again.
HandedOut ==
  /\ \A e \in Range(Delivered) \cup Offered :
       Kept(e) /\ e.kind # "completion" => e \in Range(session)
  /\ \A e \in Range(session) : Kept(e) => e \in Range(Delivered) \cup Offered \cup dropped \/ Mute
  /\ \A e \in Range(session), f \in Range(Delivered) :
       Kept(e) /\ e.n < f.n => e \in Range(Delivered) \/ (e \in dropped /\ f.kind = "completion")
  /\ Alive => dropped = {}

\* Sent, to be stored, and not stored yet.
Pending == {e \in Range(sent) : Persistent(e) /\ e.n \notin Numbers(session) \cup failed}
\* Stored for an agent.
Stored == {e \in Range(session) : e.kind \notin {"child", "completion"}}

\* An event that is pending is after the loop, or was dropped by the forwarder, behind
\* everything it forwarded; so it has a higher number than all that was stored or that
\* somebody was told of.
Behind ==
  /\ Alive => \A e \in Pending :
       e \in Upstream \/ (fwd.pc \in {"close", "done"} /\ Before(InHand \cup Range(ach), {e}))
  /\ Before(Stored, Pending)
  /\ loop.pc \notin {"cancel", "ended"} =>
       \A e \in Pending : synced < e.n /\ \A c \in closed : c < e.n

\* The current tool call has no result yet, or the run was done before it was sent.
MayBeOpen ==
  \/ flow.pc \in {"tool", "flush", "flushwait", "child", "result"}
  \/ Done /\ flow.pc \in {"resultwait", "exit", "done"}

\* A result, or an error, of every tool call before it.
Answers(e) == e.kind \in {"result", "error"}

\* A tool call without a result or an error after it is the current one, and no queued
\* message is sent in between.
CallsAnswered ==
  /\ \A c \in Range(sent) :
       c.kind = "call" => MayBeOpen \/ \E e \in Range(sent) : Answers(e) /\ c.n < e.n
  /\ \A c, u \in Range(sent) : c.kind = "call" /\ u.kind = "user" /\ c.n < u.n =>
       \E e \in Range(sent) : Answers(e) /\ c.n < e.n /\ e.n < u.n

\* The caller was given the completion event, or its handling panicked.
Completed ==
  \/ Len(Delivered) > 0 /\ Delivered[Len(Delivered)].kind = "completion"
  \/ \E e \in dropped : e.kind = "completion"

\* Where the loop is when the context was released and the caller's channel closed.
LastWord ==
  /\ ctx = "released" => loop.pc = "ended"
  /\ oclosed => loop.pc \in {"cancel", "ended"}
  /\ loop.pc \in {"teardown", "cancel", "ended"} /\ ctx \in {"ok", "released"} => Completed

\* Where the events are.
EventsInv == PipelineOrder /\ Origin /\ StoreOrder /\ HandedOut /\ Behind

RunnerInv == RunnerTypeOK /\ EventsInv /\ CallsAnswered /\ LastWord

-----------------------------------------------------------------------------
(* Events and sequences of events.                                         *)

\* An event added at the end.
LEMMA AppendElements ==
  ASSUME NEW S, NEW s \in Seq(S), NEW e \in S
  PROVE  /\ Append(s, e) \in Seq(S) /\ Len(Append(s, e)) = Len(s) + 1
         /\ Append(s, e)[Len(s) + 1] = e
         /\ \A i \in 1..Len(s) : Append(s, e)[i] = s[i]
         /\ Range(Append(s, e)) = Range(s) \cup {e}
  <1>1. /\ Append(s, e) \in Seq(S) /\ Len(Append(s, e)) = Len(s) + 1
        /\ Append(s, e)[Len(s) + 1] = e
        /\ \A i \in 1..Len(s) : Append(s, e)[i] = s[i]
    OBVIOUS
  <1>2. DOMAIN Append(s, e) = 1..(Len(s) + 1) /\ DOMAIN s = 1..Len(s) /\ Len(s) \in Nat
    OBVIOUS
  <1>3. Range(Append(s, e)) = {Append(s, e)[i] : i \in 1..(Len(s) + 1)}
    BY <1>2 DEF Range
  <1>4. Range(s) = {s[i] : i \in 1..Len(s)}
    BY <1>2 DEF Range
  <1>5. \A i \in 1..(Len(s) + 1) : i \in 1..Len(s) \/ i = Len(s) + 1
    BY <1>2
  <1>6. 1..Len(s) \subseteq 1..(Len(s) + 1) /\ Len(s) + 1 \in 1..(Len(s) + 1)
    BY <1>2
  <1> QED BY <1>1, <1>3, <1>4, <1>5, <1>6

\* The first event taken away.
LEMMA TailElements ==
  ASSUME NEW S, NEW s \in Seq(S), s # <<>>
  PROVE  /\ Head(s) \in S /\ Tail(s) \in Seq(S) /\ Len(Tail(s)) = Len(s) - 1
         /\ Head(s) = s[1] /\ \A i \in 1..(Len(s) - 1) : Tail(s)[i] = s[i + 1]
         /\ Range(s) = {Head(s)} \cup Range(Tail(s))
  <1>1. /\ Head(s) \in S /\ Tail(s) \in Seq(S) /\ Len(Tail(s)) = Len(s) - 1
        /\ Head(s) = s[1] /\ \A i \in 1..(Len(s) - 1) : Tail(s)[i] = s[i + 1]
    OBVIOUS
  <1>2. /\ DOMAIN Tail(s) = 1..(Len(s) - 1) /\ DOMAIN s = 1..Len(s) /\ Len(s) \in Nat
        /\ Len(s) > 0
    OBVIOUS
  <1>3. Range(Tail(s)) = {Tail(s)[i] : i \in 1..(Len(s) - 1)}
    BY <1>2 DEF Range
  <1>4. Range(s) = {s[i] : i \in 1..Len(s)}
    BY <1>2 DEF Range
  <1>5. \A i \in 1..Len(s) : i = 1 \/ (i - 1 \in 1..(Len(s) - 1) /\ i = (i - 1) + 1)
    BY <1>2
  <1>6. \A i \in 1..(Len(s) - 1) : i + 1 \in 1..Len(s)
    BY <1>2
  <1>7. 1 \in 1..Len(s)
    BY <1>2
  <1>8. ASSUME NEW e \in Range(s) PROVE e = Head(s) \/ e \in Range(Tail(s))
    <2>1. PICK i \in 1..Len(s) : e = s[i]
      BY <1>4
    <2>2. CASE i - 1 \in 1..(Len(s) - 1)
      <3>1. Tail(s)[i - 1] = s[(i - 1) + 1] /\ (i - 1) + 1 = i
        BY <1>1, <2>2
      <3> QED BY <3>1, <2>1, <2>2, <1>3
    <2> QED BY <2>1, <2>2, <1>1, <1>5
  <1>9. Head(s) \in Range(s) /\ \A e \in Range(Tail(s)) : e \in Range(s)
    BY <1>1, <1>3, <1>4, <1>6, <1>7
  <1> QED BY <1>1, <1>8, <1>9

\* An event with the highest number keeps a sequence in order.
LEMMA AppendAscending ==
  ASSUME NEW S, NEW s \in Seq(S), NEW e \in S, Ascending(s), Before(Range(s), {e})
  PROVE  Ascending(Append(s, e))
  <1> DEFINE t == Append(s, e)
  <1>1. /\ t \in Seq(S) /\ Len(t) = Len(s) + 1 /\ t[Len(s) + 1] = e
        /\ \A i \in 1..Len(s) : t[i] = s[i]
    BY AppendElements
  <1>2. \A i \in 1..Len(s) : s[i].n < e.n
    BY DEF Before, Range
  <1>3. \A i, j \in 1..Len(s) : i < j => s[i].n < s[j].n
    BY DEF Ascending
  <1>4. DOMAIN t = 1..(Len(s) + 1) /\ Len(s) \in Nat
    BY <1>1
  <1> HIDE DEF t
  <1>5. ASSUME NEW i \in DOMAIN t, NEW j \in DOMAIN t, i < j
        PROVE  t[i].n < t[j].n
    <2>1. i \in 1..Len(s) /\ (j \in 1..Len(s) \/ j = Len(s) + 1)
      BY <1>4, <1>5
    <2> QED BY <2>1, <1>1, <1>2, <1>3, <1>5
  <1>6. Ascending(t)
    BY <1>5 DEF Ascending
  <1> QED BY <1>6 DEF t

\* What follows the first event of a sequence in order.
LEMMA TailAscending ==
  ASSUME NEW S, NEW s \in Seq(S), s # <<>>, Ascending(s)
  PROVE  Ascending(Tail(s)) /\ Before({Head(s)}, Range(Tail(s)))
  <1>1. /\ Tail(s) \in Seq(S) /\ Len(Tail(s)) = Len(s) - 1
        /\ Head(s) = s[1] /\ \A i \in 1..(Len(s) - 1) : Tail(s)[i] = s[i + 1]
    BY TailElements
  <1>2. \A i, j \in 1..Len(s) : i < j => s[i].n < s[j].n
    BY DEF Ascending
  <1>3. DOMAIN Tail(s) = 1..(Len(s) - 1) /\ Len(s) \in Nat /\ Len(s) > 0
    BY <1>1
  <1>4. \A i \in 1..(Len(s) - 1) : i + 1 \in 1..Len(s) /\ 1 < i + 1 /\ 1 \in 1..Len(s)
    BY <1>3
  <1>5. \A i \in DOMAIN Tail(s) : Head(s).n < Tail(s)[i].n
    BY <1>1, <1>2, <1>3, <1>4
  <1>6. \A i, j \in DOMAIN Tail(s) : i < j => Tail(s)[i].n < Tail(s)[j].n
    <2> SUFFICES ASSUME NEW i \in DOMAIN Tail(s), NEW j \in DOMAIN Tail(s), i < j
                 PROVE  Tail(s)[i].n < Tail(s)[j].n
      OBVIOUS
    <2>1. i + 1 \in 1..Len(s) /\ j + 1 \in 1..Len(s) /\ i + 1 < j + 1
      BY <1>3
    <2> QED BY <2>1, <1>1, <1>2, <1>3
  <1> QED BY <1>5, <1>6 DEF Ascending, Before, Range

\* What is handed out comes last, also behind what was read.
LEMMA HandOut ==
  ASSUME NEW S, NEW s \in Seq(S), NEW t \in Seq(S), NEW e \in S
  PROVE  s \o Append(t, e) = Append(s \o t, e)
  <1>1. <<e>> \in Seq(S) /\ s \o t \in Seq(S)
    BY ConcatProperties
  <1>2. Append(t, e) = t \o <<e>> /\ Append(s \o t, e) = (s \o t) \o <<e>>
    BY <1>1, AppendIsConcat
  <1> QED BY <1>1, <1>2, ConcatAssociative

\* What is read was handed out.
LEMMA ReadOne ==
  ASSUME NEW S, NEW s \in Seq(S), NEW t \in Seq(S), t # <<>>
  PROVE  Append(s, Head(t)) \o Tail(t) = s \o t
  <1>1. Head(t) \in S /\ Tail(t) \in Seq(S) /\ <<Head(t)>> \in Seq(S)
    BY TailElements
  <1>2. t = <<Head(t)>> \o Tail(t)
    OBVIOUS
  <1>3. Append(s, Head(t)) = s \o <<Head(t)>>
    BY <1>1, AppendIsConcat
  <1> QED BY <1>1, <1>2, <1>3, ConcatAssociative

\* A channel with room for one more, and one less.
LEMMA ChannelRoom ==
  ASSUME NEW S, NEW s \in Seq(S)
  PROVE  /\ \A e \in S : Append(s, e) \in Seq(S) /\ (Len(s) < Buffer => Len(Append(s, e)) <= Buffer)
         /\ s # <<>> => /\ Head(s) \in S /\ Tail(s) \in Seq(S)
                        /\ Len(s) <= Buffer => Len(Tail(s)) <= Buffer
  <1>1. Buffer \in Nat /\ Len(s) \in Nat
    BY RunnerAssumption
  <1>2. ASSUME NEW e \in S
        PROVE  Append(s, e) \in Seq(S) /\ (Len(s) < Buffer => Len(Append(s, e)) <= Buffer)
    <2>1. Append(s, e) \in Seq(S) /\ Len(Append(s, e)) = Len(s) + 1
      BY AppendElements
    <2> QED BY <1>1, <2>1
  <1>3. ASSUME s # <<>>
        PROVE  Head(s) \in S /\ Tail(s) \in Seq(S) /\ (Len(s) <= Buffer => Len(Tail(s)) <= Buffer)
    <2>1. Head(s) \in S /\ Tail(s) \in Seq(S) /\ Len(Tail(s)) = Len(s) - 1
      BY <1>3, TailElements
    <2> QED BY <1>1, <2>1
  <1> QED BY <1>2, <1>3

-----------------------------------------------------------------------------
(* The types.                                                              *)

FlowRecords == [pc : FlowPcs, agent : Nat, wait : Nat, batch : Nat, tools : Nat]

\* What EmitEvent leaves alone.
LEMMA EmitFrame ==
  ASSUME NEW kind, Emit(kind)
  PROVE  /\ n' = n + 1
         /\ UNCHANGED <<root, ctx, fclosed, ach, aclosed, out, oclosed, fwd, loop, ack, attached,
                        closed, session, failed, faults, queue, qclosed, steered, got, synced, dropped>>
  BY DEF Emit, store, steer

\* A step of the flow, the forwarder, the loop or the caller keeps the flow's record
\* and its bounds.
LEMMA FlowTypes == ASSUME FlowOK, [Next]_vars PROVE FlowOK'
  <1> USE RunnerAssumption DEF FlowOK, Agents, Waiting, FlowPcs
  <1> DEFINE Frame == UNCHANGED <<root, fclosed, faults, queue, steered, synced>>
             Same == flow'.agent = flow.agent /\ flow'.tools = flow.tools
  <1>1. CASE EmitStart
    <2>1. n' = n + 1 /\ Frame
      BY <1>1, EmitFrame DEF EmitStart
    <2>2. /\ flow' \in FlowRecords /\ Same /\ flow'.batch = flow.batch
          /\ flow.pc = "start" /\ flow'.pc = "startwait" /\ flow'.wait = n'
      <3>1. /\ flow.pc = "start" /\ n' \in Nat
            /\ flow' = [flow EXCEPT !.pc = "startwait", !.wait = n']
        BY <1>1, <2>1 DEF EmitStart
      <3> QED BY <3>1 DEF FlowRecords
    <2> QED BY <2>1, <2>2 DEF FlowRecords
  <1>2. CASE Drain
    <2>1. UNCHANGED <<n, root, synced, fclosed, faults, steered>> /\ queue' = 0
      BY <1>2 DEF Drain, context, chans, store, history
    <2>2. /\ flow' \in FlowRecords /\ Same /\ flow'.batch = queue /\ flow'.wait = flow.wait
          /\ flow.pc = "drain" /\ flow'.pc = IF queue = 0 THEN "model" ELSE "user"
      BY <1>2 DEF Drain, FlowRecords
    <2> QED BY <2>1, <2>2 DEF FlowRecords
  <1>3. CASE EmitUser
    <2>1. n' = n + 1 /\ Frame
      BY <1>3, EmitFrame DEF EmitUser
    <2>2. /\ flow' \in FlowRecords /\ Same /\ flow'.batch = flow.batch - 1
          /\ flow.pc = "user" /\ flow'.pc \in {"userwait", "exit"} /\ flow'.wait = n'
      <3>1. /\ flow.pc = "user" /\ n' \in Nat /\ flow.batch - 1 \in Nat
            /\ \E pc \in {"userwait", "exit"} :
                 flow' = [flow EXCEPT !.pc = pc, !.wait = n', !.batch = flow.batch - 1]
        <4>1. flow.pc = "user" /\ flow.batch > 0 /\ flow.batch \in Nat
          BY <1>3 DEF EmitUser
        <4>2. flow' = [flow EXCEPT !.pc = IF Emitted THEN "userwait" ELSE "exit", !.wait = n',
                                   !.batch = flow.batch - 1]
          BY <1>3 DEF EmitUser
        <4>3. (IF Emitted THEN "userwait" ELSE "exit") \in {"userwait", "exit"}
          OBVIOUS
        <4>4. n' \in Nat /\ flow.batch - 1 \in Nat
          BY <4>1, <2>1
        <4> QED BY <4>1, <4>2, <4>3, <4>4
      <3> QED BY <3>1 DEF FlowRecords
    <2> QED BY <2>1, <2>2 DEF FlowRecords
  <1>4. CASE Answer \/ ModelFails
    <2>1. n' = n + 1 /\ Frame
      BY <1>4, EmitFrame DEF Answer, ModelFails
    <2>2. /\ flow' \in FlowRecords /\ Same /\ flow'.batch = flow.batch
          /\ flow.pc = "model" /\ flow'.pc = "exit" /\ flow'.wait = flow.wait
      BY <1>4 DEF Answer, ModelFails, Goto, FlowRecords
    <2> QED BY <2>1, <2>2 DEF FlowRecords
  <1>5. CASE CallTool
    <2>1. n' = n + 1 /\ Frame
      BY <1>5, EmitFrame DEF CallTool
    <2>2. /\ flow' \in FlowRecords /\ flow'.agent = flow.agent /\ flow'.batch = flow.batch
          /\ flow.tools < MaxTools /\ flow'.tools = flow.tools + 1
          /\ flow.pc = "model" /\ flow'.pc \in {"exit", "tool"} /\ flow'.wait = flow.wait
      <3>1. /\ flow.pc = "model" /\ flow.tools < MaxTools /\ flow.tools + 1 \in Nat
            /\ \E pc \in {"exit", "tool"} :
                 flow' = [flow EXCEPT !.pc = pc, !.tools = flow.tools + 1]
        <4>1. flow.pc = "model" /\ flow.tools < MaxTools /\ flow.tools \in Nat
          BY <1>5 DEF CallTool
        <4>2. flow' = [flow EXCEPT !.pc = IF Done THEN "exit" ELSE "tool",
                                   !.tools = flow.tools + 1]
          BY <1>5 DEF CallTool
        <4>3. (IF Done THEN "exit" ELSE "tool") \in {"exit", "tool"}
          OBVIOUS
        <4>4. \E pc \in {"exit", "tool"} : flow' = [flow EXCEPT !.pc = pc, !.tools = flow.tools + 1]
          BY ONLY <4>2, <4>3, Zenon
        <4>5. flow.tools + 1 \in Nat
          BY ONLY <4>1
        <4> QED BY ONLY <4>1, <4>4, <4>5
      <3> QED BY <3>1 DEF FlowRecords
    <2> QED BY <2>1, <2>2 DEF FlowRecords
  <1>6. CASE RunTool
    BY <1>6 DEF RunTool, Goto, chans, store, steer, history
  <1>7. CASE ToolFails
    <2>1. n' = n + 1 /\ Frame
      BY <1>7, EmitFrame DEF ToolFails
    <2>2. /\ flow' \in FlowRecords /\ Same /\ flow'.batch = flow.batch
          /\ flow.pc = "tool" /\ flow'.pc \in {"exit", "start"} /\ flow'.wait = flow.wait
      BY <1>7 DEF ToolFails, Goto, FlowRecords
    <2> QED BY <2>1, <2>2 DEF FlowRecords
  <1>8. CASE EmitResult
    <2>1. n' = n + 1 /\ Frame
      BY <1>8, EmitFrame DEF EmitResult
    <2>2. /\ flow' \in FlowRecords /\ Same /\ flow'.batch = flow.batch /\ flow'.wait = n'
          /\ flow.pc = "result" /\ flow'.pc \in {"resultwait", "start", "exit"}
      <3>1. /\ flow.pc = "result" /\ n' \in Nat
            /\ \E pc \in {"resultwait", "start", "exit"} :
                 flow' = [flow EXCEPT !.pc = pc, !.wait = n']
        <4>1. flow.pc = "result" /\ \E pc \in IF attached THEN {"resultwait"} ELSE AfterResult :
                                       flow' = [flow EXCEPT !.pc = pc, !.wait = n']
          BY <1>8 DEF EmitResult
        <4>2. (IF attached THEN {"resultwait"} ELSE AfterResult) \subseteq
                {"resultwait", "start", "exit"}
          BY DEF AfterResult
        <4>3. \E pc \in {"resultwait", "start", "exit"} :
                flow' = [flow EXCEPT !.pc = pc, !.wait = n']
          BY ONLY <4>1, <4>2, Zenon
        <4>4. n' \in Nat
          BY <2>1
        <4> QED BY <4>1, <4>3, <4>4
      <3> QED BY <3>1 DEF FlowRecords
    <2> QED BY <2>1, <2>2 DEF FlowRecords
  <1>9. CASE AppendChild
    <2>1. n' = n + 1 /\ Frame
      BY <1>9 DEF AppendChild, context, chans, steer, history
    <2>2. /\ flow' \in FlowRecords /\ Same /\ flow'.batch = flow.batch
          /\ flow.pc = "child" /\ flow'.pc = "result" /\ flow'.wait = flow.wait
      BY <1>9 DEF AppendChild, Goto, FlowRecords
    <2> QED BY <2>1, <2>2 DEF FlowRecords
  <1>10. CASE FlowExit
    BY <1>10 DEF FlowExit, Goto, context, store, history
  <1>11. CASE Woken
    BY <1>11 DEF Woken, AfterWait, AfterResult, Goto, context, chans, store, steer
  <1>12. CASE WaitTimesOut
    BY <1>12 DEF WaitTimesOut, AfterWait, AfterResult, Fault, Goto, context, chans, steer, history
  <1>13. CASE WaitCancelled
    BY <1>13 DEF WaitCancelled, Goto, context, chans, store, steer, history
  <1>14. CASE FlushDetached \/ FlushReturns \/ TakeFlush
    BY <1>14 DEF FlushDetached, FlushReturns, TakeFlush, Goto, context, chans, store, steer,
                 history
  <1>15. CASE NextAgent
    <2>1. UNCHANGED <<n, root, faults, queue, steered, synced>> /\ fclosed' = FALSE
      BY <1>15 DEF NextAgent, context, store, steer, history
    <2>2. /\ flow' \in FlowRecords /\ flow'.tools = flow.tools /\ flow'.batch = flow.batch
          /\ flow.agent < Agents /\ flow'.agent = flow.agent + 1 /\ flow'.wait = 0
          /\ flow'.pc = "start"
      <3>1. /\ flow.agent < Agents /\ flow.agent + 1 \in Nat
            /\ flow' = [flow EXCEPT !.pc = "start", !.agent = flow.agent + 1, !.wait = 0]
        BY <1>15 DEF NextAgent
      <3> QED BY <3>1 DEF FlowRecords
    <2> QED BY <2>1, <2>2 DEF FlowRecords
  <1>16. CASE Receive \/ Forward \/ ForwarderEnds \/ CloseAgentChannel
    BY <1>16 DEF Receive, Forward, ForwarderEnds, CloseAgentChannel, context, chans, store,
                 steer, history
  <1>17. CASE Ack \/ NotifyCompletion \/ EmitProcessed \/ LoopReturns \/ EmitCompletion
              \/ Teardown \/ LoopEnds
    BY <1>17 DEF Ack, NotifyCompletion, EmitProcessed, LoopReturns, EmitCompletion, Teardown,
                 LoopEnds, context, chans, store, steer, history
  <1>18. CASE Store \/ LoopPanics \/ StoreCompletion \/ CompletionPanics
    <2>1. /\ UNCHANGED <<root, fclosed, queue, steered, synced, flow>>
          /\ n' = n \/ n' = n + 1
          /\ faults' = faults \/ (faults < MaxFaults /\ faults' = faults + 1)
      BY <1>18 DEF Store, LoopPanics, StoreCompletion, CompletionPanics, Persist, Fault,
                   context, chans, store, steer, history
    <2> QED BY <2>1
  <1>19. CASE Read \/ Cancel \/ Steer
    <2>1. /\ UNCHANGED <<root, fclosed, synced, flow, n>>
          /\ faults' = faults \/ (faults < MaxFaults /\ faults' = faults + 1)
          /\ \/ UNCHANGED <<queue, steered>>
             \/ steered < MaxSteers /\ queue' = queue + 1 /\ steered' = steered + 1
      BY <1>19 DEF Read, Cancel, Steer, Fault, context, chans, store, steer, history
    <2> QED BY <2>1
  <1>20. CASE UNCHANGED vars
    BY <1>20 DEF vars, context, chans, store, steer, history
  <1> QED
    BY <1>1, <1>2, <1>3, <1>4, <1>5, <1>6, <1>7, <1>8, <1>9, <1>10, <1>11, <1>12, <1>13,
       <1>14, <1>15, <1>16, <1>17, <1>18, <1>19, <1>20
       DEF Next, FlowStep, ForwarderStep, LoopStep, Caller, Over

\* The steps that leave every event where it is.
Quiet ==
  \/ Drain \/ RunTool \/ FlowExit \/ Woken \/ WaitTimesOut \/ WaitCancelled \/ FlushDetached
  \/ FlushReturns \/ TakeFlush \/ Ack \/ NextAgent \/ ForwarderEnds \/ CloseAgentChannel
  \/ LoopReturns \/ LoopEnds \/ Cancel \/ Steer \/ UNCHANGED vars

\* The steps of the flow that emit an event.
Emits(kind) ==
  \/ kind = "start" /\ EmitStart
  \/ kind = "user" /\ EmitUser
  \/ kind = "final" /\ Answer
  \/ kind = "call" /\ CallTool
  \/ kind = "error" /\ (ModelFails \/ ToolFails)
  \/ kind = "result" /\ EmitResult

\* The steps, by what they do to events.
LEMMA Steps ==
  ASSUME [Next]_vars
  PROVE  \/ Quiet
         \/ \E kind \in AgentKinds : Emits(kind)
         \/ AppendChild \/ Receive \/ Forward \/ Store \/ LoopPanics \/ NotifyCompletion
         \/ EmitProcessed \/ StoreCompletion \/ CompletionPanics \/ EmitCompletion \/ Teardown
         \/ Read
  <1>1. CASE EmitStart \/ EmitUser \/ Answer \/ CallTool \/ ModelFails \/ ToolFails \/ EmitResult
    BY <1>1 DEF Emits, AgentKinds
  <1> QED BY <1>1 DEF Next, FlowStep, ForwarderStep, LoopStep, Caller, Over, Quiet

\* What a quiet step leaves alone.
LEMMA QuietFrame ==
  ASSUME Quiet
  PROVE  UNCHANGED <<n, fch, ach, out, session, got, sent, closed, failed, dropped>>
  <1>1. CASE Drain \/ RunTool \/ FlowExit \/ Woken \/ WaitTimesOut \/ WaitCancelled
             \/ FlushDetached \/ FlushReturns
    BY <1>1 DEF Drain, RunTool, FlowExit, Woken, WaitTimesOut, WaitCancelled, FlushDetached,
       FlushReturns, context, chans, store, steer, history
  <1>2. CASE TakeFlush \/ Ack \/ NextAgent \/ ForwarderEnds \/ CloseAgentChannel
    BY <1>2 DEF TakeFlush, Ack, NextAgent, ForwarderEnds, CloseAgentChannel, context, chans,
       store, steer, history
  <1>3. CASE LoopReturns \/ LoopEnds \/ Cancel \/ Steer \/ UNCHANGED vars
    BY <1>3 DEF LoopReturns, LoopEnds, Cancel, Steer, vars, context, chans, store, steer, history
  <1> QED BY <1>1, <1>2, <1>3 DEF Quiet

\* An emitted event is sent on the flow's channel, or refused.
LEMMA EmitsEvent ==
  ASSUME NEW kind, Emits(kind)
  PROVE  /\ n' = n + 1
         /\ \/ /\ ~Done \/ "flow" \in committed
               /\ Len(fch) < Buffer /\ fch' = Append(fch, [n |-> n + 1, kind |-> kind])
               /\ sent' = Append(sent, [n |-> n + 1, kind |-> kind])
            \/ Done /\ UNCHANGED <<fch, sent>>
         /\ committed' = committed \ {"flow"}
         /\ UNCHANGED <<root, ctx, ach, aclosed, out, oclosed, fwd, loop, ack, attached, closed,
                        session, failed, got, synced, dropped>>
  <1>1. Emit(kind)
    BY DEF Emits, EmitStart, EmitUser, Answer, CallTool, ModelFails, ToolFails, EmitResult
  <1> QED BY <1>1 DEF Emit, Sends, Refused, store, steer

\* Numbers that were given stay given.
LEMMA EventsGrow ==
  ASSUME NEW k \in Nat, NEW m \in Nat, k <= m
  PROVE  /\ EventsTo(k) \subseteq EventsTo(m) /\ 1..k \subseteq 1..m
         /\ \A s \in Seq(EventsTo(k)) : s \in Seq(EventsTo(m))
  <1>1. EventsTo(k) \subseteq EventsTo(m) /\ 1..k \subseteq 1..m
    BY DEF EventsTo
  <1> QED BY <1>1, SeqMonotonic

\* The channels, the session and what was sent keep their types.
LEMMA SeqTypes == ASSUME FlowOK, SeqsOK, LoopOK, [Next]_vars PROVE SeqsOK'
  <1>1. n \in Nat /\ n + 1 \in Nat /\ n <= n + 1
    BY DEF SeqsOK
  <1>2. /\ EventsTo(n) \subseteq EventsTo(n + 1) /\ 1..n \subseteq 1..(n + 1)
        /\ \A s \in Seq(EventsTo(n)) : s \in Seq(EventsTo(n + 1))
    BY <1>1, EventsGrow
  <1>3. \A e \in EventsTo(n) : e.n \in 1..n
    BY DEF EventsTo
  <1> USE DEF SeqsOK
  <1>4. CASE Quiet
    BY <1>4, QuietFrame
  <1>5. ASSUME NEW kind \in AgentKinds, Emits(kind) PROVE SeqsOK'
    <2>1. [n |-> n + 1, kind |-> kind] \in EventsTo(n + 1)
      BY <1>1 DEF EventsTo, Kinds, AgentKinds
    <2>2. /\ n' = n + 1
          /\ \/ /\ Len(fch) < Buffer /\ fch' = Append(fch, [n |-> n + 1, kind |-> kind])
                /\ sent' = Append(sent, [n |-> n + 1, kind |-> kind])
             \/ UNCHANGED <<fch, sent>>
          /\ UNCHANGED <<ach, out, session, got, closed, failed, dropped>>
      BY <1>5, EmitsEvent
    <2>3. fch' \in Seq(EventsTo(n + 1)) /\ sent' \in Seq(EventsTo(n + 1)) /\ Len(fch') <= Buffer
      BY <2>1, <2>2, <1>2, ChannelRoom
    <2> QED BY <2>2, <2>3, <1>1, <1>2
  <1>6. CASE AppendChild
    <2>1. [n |-> n + 1, kind |-> "child"] \in EventsTo(n + 1)
      BY <1>1 DEF EventsTo, Kinds
    <2>2. /\ n' = n + 1 /\ session' = Append(session, [n |-> n + 1, kind |-> "child"])
          /\ UNCHANGED <<fch, ach, out, got, sent, closed, failed, dropped>>
      BY <1>6 DEF AppendChild, chans, history
    <2> QED BY <2>1, <2>2, <1>1, <1>2
  <1>7. CASE Receive
    <2>1. fch # <<>> /\ fch' = Tail(fch) /\ UNCHANGED <<n, ach, out, session, got, sent, closed, failed, dropped>>
      BY <1>7 DEF Receive, store, history
    <2>2. fch' \in Seq(EventsTo(n)) /\ Len(fch') <= Buffer
      BY <2>1, ChannelRoom
    <2> QED BY <2>1, <2>2
  <1>8. CASE Forward
    <2>1. /\ UNCHANGED <<n, fch, out, session, got, sent, closed, failed, dropped>>
          /\ fwd.evt \in EventsTo(n)
          /\ ach' = ach \/ (Len(ach) < Buffer /\ ach' = Append(ach, fwd.evt))
      BY <1>8 DEF Forward, Sends, LoopOK, store, history
    <2>2. ach' \in Seq(EventsTo(n)) /\ Len(ach') <= Buffer
      BY <2>1, ChannelRoom
    <2> QED BY <2>1, <2>2
  <1>9. CASE Store
    <2>1. ach # <<>> /\ ach' = Tail(ach) /\ UNCHANGED <<n, fch, out, got, sent, closed, dropped>>
      BY <1>9 DEF Store, history
    <2>2. Head(ach) \in EventsTo(n) /\ ach' \in Seq(EventsTo(n)) /\ Len(ach') <= Buffer
      BY <2>1, ChannelRoom
    <2>3. \/ session' = Append(session, Head(ach)) /\ failed' = failed
          \/ session' = session /\ failed' = failed \cup {Head(ach).n}
          \/ UNCHANGED <<session, failed>>
      BY <1>9 DEF Store, Persist, store
    <2>4. session' \in Seq(EventsTo(n)) /\ failed' \subseteq 1..n
      BY <2>2, <2>3, <1>3, ChannelRoom
    <2> QED BY <2>1, <2>2, <2>4
  <1>10. CASE LoopPanics
    <2>1. /\ UNCHANGED <<n, fch, out, session, got, sent, closed, failed>>
          /\ \/ ach # <<>> /\ ach' = Tail(ach) /\ dropped' = dropped \cup {Head(ach)}
             \/ ach' = ach /\ loop.evt \in EventsTo(n) /\ dropped' = dropped \cup {loop.evt}
      BY <1>10 DEF LoopPanics, LoopOK
    <2>2. /\ ach' \in Seq(EventsTo(n)) /\ Len(ach') <= Buffer
          /\ ach # <<>> => Head(ach) \in EventsTo(n)
      BY <2>1, ChannelRoom
    <2> QED BY <2>1, <2>2
  <1>11. CASE NotifyCompletion
    <2>1. /\ loop.evt \in EventsTo(n) /\ closed' \subseteq closed \cup {loop.evt.n}
          /\ UNCHANGED <<n, fch, ach, out, session, got, sent, failed, dropped>>
      BY <1>11 DEF NotifyCompletion, LoopOK, chans, store, history
    <2> QED BY <2>1, <1>3
  <1>12. CASE EmitProcessed \/ EmitCompletion
    <2>1. /\ UNCHANGED <<n, fch, ach, session, got, sent, closed, failed, dropped>>
          /\ loop.evt \in EventsTo(n)
          /\ out' = out \/ (Len(out) < Buffer /\ out' = Append(out, loop.evt))
      BY <1>12 DEF EmitProcessed, EmitCompletion, Sends, LoopOK, store, history
    <2>2. out' \in Seq(EventsTo(n)) /\ Len(out') <= Buffer
      BY <2>1, ChannelRoom
    <2> QED BY <2>1, <2>2
  <1>13. CASE StoreCompletion
    <2>1. [n |-> n + 1, kind |-> "completion"] \in EventsTo(n + 1)
      BY <1>1 DEF EventsTo, Kinds
    <2>2. /\ n' = n + 1 /\ UNCHANGED <<fch, ach, out, got, sent, closed, dropped>>
          /\ \/ session' = Append(session, [n |-> n + 1, kind |-> "completion"]) /\ failed' = failed
             \/ session' = session /\ failed' \subseteq failed \cup {n + 1}
      BY <1>13 DEF StoreCompletion, Persist, chans, store, history
    <2>3. n + 1 \in 1..(n + 1)
      BY <1>1
    <2>4. failed' \subseteq 1..(n + 1)
      BY <2>2, <2>3, <1>2
    <2>5. session' \in Seq(EventsTo(n + 1))
      BY <2>1, <2>2, <1>2, ChannelRoom
    <2> QED BY <2>2, <2>4, <2>5, <1>1, <1>2
  <1>14. CASE Teardown
    <2>1. UNCHANGED <<n, fch, ach, out, session, got, sent, failed, dropped>>
      BY <1>14 DEF Teardown, store, history
    <2>2. closed' \subseteq closed \cup (IF Waiting THEN {flow.wait} ELSE {})
      BY <1>14 DEF Teardown
    <2>3. Waiting => flow.wait \in 1..n
      BY DEF FlowOK
    <2> QED BY <2>1, <2>2, <2>3
  <1>15. CASE Read
    <2>1. /\ out # <<>> /\ got' = Append(got, Head(out)) /\ out' = Tail(out)
          /\ UNCHANGED <<n, fch, ach, session, sent, closed, failed, dropped>>
      BY <1>15 DEF Read, store, history
    <2>2. Head(out) \in EventsTo(n) /\ Tail(out) \in Seq(EventsTo(n)) /\ Len(Tail(out)) <= Buffer
      BY <2>1, ChannelRoom
    <2>3. got' \in Seq(EventsTo(n))
      BY <2>1, <2>2, ChannelRoom
    <2> QED BY <2>1, <2>2, <2>3
  <1>16. CASE CompletionPanics
    <2>1. [n |-> n + 1, kind |-> "completion"] \in EventsTo(n + 1)
      BY <1>1 DEF EventsTo, Kinds
    <2>2. /\ n' = n + 1 /\ UNCHANGED <<fch, ach, out, got, sent, closed, failed>>
          /\ session' = Append(session, [n |-> n + 1, kind |-> "completion"]) \/ session' = session
          /\ dropped' = dropped \cup {[n |-> n + 1, kind |-> "completion"]}
      BY <1>16 DEF CompletionPanics, chans
    <2>3. session' \in Seq(EventsTo(n + 1))
      BY <2>1, <2>2, <1>2, ChannelRoom
    <2> QED BY <2>1, <2>2, <2>3, <1>1, <1>2
  <1> QED
    BY <1>4, <1>5, <1>6, <1>7, <1>8, <1>9, <1>10, <1>11, <1>12, <1>13, <1>14, <1>15, <1>16,
       Steps

\* The forwarder, the loop and the context keep theirs.
LEMMA LoopTypes == ASSUME SeqsOK, LoopOK, [Next]_vars PROVE LoopOK'
  <1>1. n \in Nat /\ n + 1 \in Nat /\ n <= n + 1
    BY DEF SeqsOK
  <1>2. EventsTo(n) \subseteq EventsTo(n + 1)
    BY <1>1, EventsGrow
  <1> USE DEF LoopOK, LoopPcs, FwdPcs
  <1>3. CASE Quiet
    <2>1. n' = n
      BY <1>3, QuietFrame
    <2>2. CASE Drain \/ RunTool \/ FlowExit \/ Woken \/ WaitTimesOut \/ WaitCancelled
               \/ FlushDetached \/ FlushReturns \/ NextAgent \/ Steer \/ UNCHANGED vars
      BY <2>2, <2>1 DEF Drain, RunTool, FlowExit, Woken, WaitTimesOut, WaitCancelled,
         FlushDetached, FlushReturns, NextAgent, Steer, vars, context
    <2>3. CASE TakeFlush
      BY <2>1, <2>3 DEF TakeFlush, context
    <2>4. CASE Ack
      BY <2>1, <2>4 DEF Ack, context
    <2>5. CASE ForwarderEnds \/ CloseAgentChannel
      BY <2>1, <2>5 DEF ForwarderEnds, CloseAgentChannel, context
    <2>6. CASE LoopReturns
      BY <2>1, <2>6 DEF LoopReturns, context
    <2>7. CASE LoopEnds
      BY <2>1, <2>7 DEF LoopEnds, EndContext
    <2>8. CASE Cancel
      BY <2>1, <2>8 DEF Cancel, EndContext
    <2> QED BY <1>3, <2>2, <2>3, <2>4, <2>5, <2>6, <2>7, <2>8 DEF Quiet
  <1>4. ASSUME NEW kind \in AgentKinds, Emits(kind) PROVE LoopOK'
    <2>1. n' = n + 1 /\ committed' = committed \ {"flow"} /\ UNCHANGED <<ctx, fwd, loop, ack>>
      BY <1>4, EmitsEvent
    <2> QED BY <2>1, <1>1, <1>2
  <1>5. CASE AppendChild
    <2>1. n' = n + 1 /\ UNCHANGED <<ctx, committed, fwd, loop, ack>>
      BY <1>5 DEF AppendChild, context
    <2> QED BY <2>1, <1>1, <1>2
  <1>6. CASE Receive
    <2>1. /\ fwd' = [pc |-> "emit", evt |-> Head(fch)] /\ fch # <<>>
          /\ UNCHANGED <<n, ctx, committed, loop, ack>>
      BY <1>6 DEF Receive, context
    <2>2. Head(fch) \in EventsTo(n)
      BY <2>1, ChannelRoom DEF SeqsOK
    <2> QED BY <2>1, <2>2
  <1>7. CASE Forward
    <2>1. /\ \E pc \in {"close", "range"} : fwd' = [pc |-> pc, evt |-> NoEvent]
          /\ committed' = committed \ {"forwarder"} /\ UNCHANGED <<n, ctx, loop, ack>>
      BY <1>7 DEF Forward, Sends, Refused
    <2> QED BY <2>1
  <1>8. CASE Store
    <2>1. /\ loop' = [loop EXCEPT !.pc = "notify", !.evt = Head(ach)] /\ ach # <<>>
          /\ UNCHANGED <<n, ctx, committed, fwd, ack>>
      BY <1>8 DEF Store, context
    <2>2. Head(ach) \in EventsTo(n)
      BY <2>1, ChannelRoom DEF SeqsOK
    <2> QED BY <2>1, <2>2
  <1>9. CASE LoopPanics
    BY <1>9 DEF LoopPanics, context
  <1>10. CASE NotifyCompletion
    BY <1>10 DEF NotifyCompletion, context
  <1>11. CASE EmitProcessed
    <2>1. committed' = committed \ {"loop"} /\ UNCHANGED <<n, ctx, fwd>>
      BY <1>11 DEF EmitProcessed, Sends, Refused
    <2>2. \/ loop' = [loop EXCEPT !.pc = "select", !.evt = NoEvent] /\ ack' = ack
          \/ loop' = [pc |-> "select", evt |-> NoEvent, flush |-> FALSE] /\ ack' = "closed"
          \/ loop' = [loop EXCEPT !.pc = "complete", !.evt = NoEvent] /\ ack' = ack
      BY <1>11 DEF EmitProcessed
    <2>3. CASE loop' = [pc |-> "select", evt |-> NoEvent, flush |-> FALSE] /\ ack' = "closed"
      BY <2>1, <2>3
    <2>4. CASE ~(loop' = [pc |-> "select", evt |-> NoEvent, flush |-> FALSE] /\ ack' = "closed")
      BY <2>1, <2>2, <2>4
    <2> QED BY <2>3, <2>4
  <1>12. CASE StoreCompletion
    <2>1. /\ loop' = [loop EXCEPT !.pc = "last", !.evt = [n |-> n + 1, kind |-> "completion"]]
          /\ n' = n + 1 /\ UNCHANGED <<ctx, committed, fwd, ack>>
      BY <1>12 DEF StoreCompletion, context
    <2>2. [n |-> n + 1, kind |-> "completion"] \in EventsTo(n + 1)
      BY <1>1 DEF EventsTo, Kinds
    <2> QED BY <2>1, <2>2, <1>1, <1>2
  <1>13. CASE EmitCompletion
    <2>1. /\ loop' = [loop EXCEPT !.pc = "teardown", !.evt = NoEvent]
          /\ committed' \subseteq committed /\ UNCHANGED <<n, ctx, fwd, ack>>
      BY <1>13 DEF EmitCompletion, Sends, Refused
    <2> QED BY <2>1
  <1>14. CASE Teardown
    BY <1>14 DEF Teardown, context
  <1>15. CASE Read
    BY <1>15 DEF Read, context
  <1>16. CASE CompletionPanics
    <2>1. /\ loop' = [loop EXCEPT !.pc = "teardown"]
          /\ n' = n + 1 /\ UNCHANGED <<ctx, committed, fwd, ack>>
      BY <1>16 DEF CompletionPanics, context
    <2> QED BY <2>1, <1>1, <1>2
  <1> QED
    BY <1>3, <1>4, <1>5, <1>6, <1>7, <1>8, <1>9, <1>10, <1>11, <1>12, <1>13, <1>14, <1>15, <1>16,
       Steps

\* The run starts with the right types.
LEMMA TypesInit == Init => RunnerTypeOK
  BY RunnerAssumption, EmptySeq DEF Init, RunnerTypeOK, FlowOK, SeqsOK, LoopOK, FlowPcs, FwdPcs, LoopPcs, Agents,
     Waiting, NoEvent

\* They say what TypeOK says.
LEMMA TypesImply == RunnerTypeOK => TypeOK
  <1> SUFFICES ASSUME RunnerTypeOK PROVE TypeOK
    OBVIOUS
  <1>1. Events = EventsTo(n)
    BY DEF Events, EventsTo
  <1>2. /\ \A c \in {fch, ach, out} : c \in Seq(Events) /\ Len(c) <= Buffer
        /\ \A c \in {session, got, sent} : c \in Seq(Events)
        /\ closed \subseteq 1..n /\ failed \subseteq 1..n /\ dropped \subseteq Events
    BY <1>1 DEF RunnerTypeOK, SeqsOK
  <1>3. /\ root \in {"llm", "chain"} /\ flow.pc \in FlowPcs /\ flow.agent \in 1..Agents
        /\ flow.wait \in 0..n /\ flow.batch \in 0..MaxSteers /\ flow.tools \in 0..MaxTools
        /\ faults \in 0..MaxFaults /\ queue + flow.batch <= steered
    BY RunnerAssumption DEF RunnerTypeOK, FlowOK, Agents
  <1>4. /\ ctx \in {"ok", "done", "released"} /\ (loop.flush <=> ack = "open")
        /\ committed \subseteq {"flow", "forwarder", "loop"} /\ (ctx = "ok" => committed = {})
    BY DEF RunnerTypeOK, LoopOK
  <1> QED BY <1>2, <1>3, <1>4 DEF TypeOK

\* The types are inductive.
LEMMA TypesNext == RunnerTypeOK /\ [Next]_vars => RunnerTypeOK'
  BY FlowTypes, SeqTypes, LoopTypes DEF RunnerTypeOK

\* Goroutines and channels have the values the code gives them; no channel holds more than
\* its capacity; the loop holds a flush request only while it is open.
THEOREM TypesAlways == Spec => []TypeOK
  BY TypesInit, TypesNext, TypesImply, PTL DEF Spec

-----------------------------------------------------------------------------
(* Where the events are.                                                   *)

\* All events have numbers up to n.
LEMMA Views ==
  ASSUME RunnerTypeOK
  PROVE  /\ n \in Nat /\ \A e \in EventsTo(n) : e.n \in Nat /\ 0 < e.n /\ e.n <= n /\ e.n < n + 1
         /\ Delivered \in Seq(EventsTo(n)) /\ Range(Delivered) \subseteq EventsTo(n)
         /\ Range(fch) \subseteq EventsTo(n) /\ Range(ach) \subseteq EventsTo(n)
         /\ Range(session) \subseteq EventsTo(n) /\ Range(sent) \subseteq EventsTo(n)
         /\ InHand \subseteq EventsTo(n) /\ Forwarding \subseteq EventsTo(n)
         /\ Upstream \subseteq EventsTo(n)
         /\ Numbers(session) = {e.n : e \in Range(session)}
         /\ closed \subseteq 1..n /\ failed \subseteq 1..n /\ dropped \subseteq EventsTo(n)
  <1>1. \A s \in Seq(EventsTo(n)) : Range(s) \subseteq EventsTo(n)
    BY DEF Range
  <1>2. Delivered \in Seq(EventsTo(n))
    BY ConcatProperties DEF RunnerTypeOK, SeqsOK, Delivered
  <1>3. n \in Nat /\ \A e \in EventsTo(n) : e.n \in Nat /\ 0 < e.n /\ e.n <= n /\ e.n < n + 1
    BY DEF EventsTo, RunnerTypeOK, SeqsOK
  <1>4. InHand \subseteq EventsTo(n) /\ Forwarding \subseteq EventsTo(n)
    BY DEF RunnerTypeOK, LoopOK, InHand, Forwarding
  <1>5. Range(fch) \subseteq EventsTo(n) /\ Range(ach) \subseteq EventsTo(n)
        /\ Range(session) \subseteq EventsTo(n) /\ Range(sent) \subseteq EventsTo(n)
    BY <1>1 DEF RunnerTypeOK, SeqsOK
  <1>6. Numbers(session) = {e.n : e \in Range(session)}
    BY DEF Numbers, Range
  <1>7. closed \subseteq 1..n /\ failed \subseteq 1..n /\ dropped \subseteq EventsTo(n)
    BY DEF RunnerTypeOK, SeqsOK
  <1> QED BY <1>1, <1>2, <1>3, <1>4, <1>5, <1>6, <1>7 DEF Upstream

\* An event behind the others, or a child event, keeps the session in order.
LEMMA AppendInOrder ==
  ASSUME NEW S, NEW s \in Seq(S), NEW e \in S, InOrder(s),
         e.kind = "child" \/ Before(FromAgents(Range(s)), {e})
  PROVE  InOrder(Append(s, e))
  <1> DEFINE t == Append(s, e)
  <1>1. /\ t \in Seq(S) /\ Len(t) = Len(s) + 1 /\ t[Len(s) + 1] = e
        /\ \A i \in 1..Len(s) : t[i] = s[i]
    BY AppendElements
  <1>2. e.kind # "child" => \A i \in 1..Len(s) : s[i].kind # "child" => s[i].n < e.n
    BY DEF Before, Range, FromAgents
  <1>3. \A i, j \in 1..Len(s) :
          i < j /\ s[i].kind # "child" /\ s[j].kind # "child" => s[i].n < s[j].n
    BY DEF InOrder
  <1>4. DOMAIN t = 1..(Len(s) + 1) /\ Len(s) \in Nat
    BY <1>1
  <1> HIDE DEF t
  <1>5. ASSUME NEW i \in DOMAIN t, NEW j \in DOMAIN t, i < j, t[i].kind # "child", t[j].kind # "child"
        PROVE  t[i].n < t[j].n
    <2>1. i \in 1..Len(s) /\ (j \in 1..Len(s) \/ j = Len(s) + 1)
      BY <1>4, <1>5
    <2> QED BY <2>1, <1>1, <1>2, <1>3, <1>5
  <1>6. InOrder(t)
    BY <1>5 DEF InOrder
  <1> QED BY <1>6 DEF t

\* An event that is sent is the last of all.
LEMMA EmitEvents ==
  ASSUME RunnerTypeOK, EventsInv, NEW kind \in AgentKinds, Emits(kind)
  PROVE  EventsInv'
  <1> DEFINE e == [n |-> n + 1, kind |-> kind]
  <1>1. /\ n' = n + 1
        /\ UNCHANGED <<ctx, ach, out, fwd, loop, closed, session, failed, got, synced, dropped>>
        /\ ("loop" \notin committed => "loop" \notin committed')
        /\ \/ fch' = Append(fch, e) /\ sent' = Append(sent, e)
           \/ UNCHANGED <<fch, sent>>
    BY EmitsEvent
  <1>2. /\ e \in EventsTo(n + 1) /\ e.n = n + 1 /\ e.kind = kind
        /\ fch \in Seq(EventsTo(n + 1)) /\ sent \in Seq(EventsTo(n + 1)) 
    <2>1. n \in Nat /\ n + 1 \in Nat /\ n <= n + 1
      BY DEF RunnerTypeOK, SeqsOK
    <2>2. e \in EventsTo(n + 1) /\ e.n = n + 1 /\ e.kind = kind
      BY <2>1 DEF EventsTo, Kinds, AgentKinds
    <2>3. fch \in Seq(EventsTo(n + 1)) /\ sent \in Seq(EventsTo(n + 1))
      BY <2>1, EventsGrow DEF RunnerTypeOK, SeqsOK
    <2> QED BY <2>2, <2>3
  <1> HIDE DEF e
  <1>3. \/ Range(fch') = Range(fch) \cup {e} /\ Range(sent') = Range(sent) \cup {e}
        \/ Range(fch') = Range(fch) /\ Range(sent') = Range(sent)
    <2>1. /\ Range(Append(fch, e)) = Range(fch) \cup {e}
          /\ Range(Append(sent, e)) = Range(sent) \cup {e}
      BY <1>2, AppendElements
    <2> QED BY <1>1, <2>1
  <1>4. /\ InHand' = InHand /\ Forwarding' = Forwarding /\ Delivered' = Delivered
        /\ Offered' = Offered /\ (Mute => Mute') /\ Alive' = Alive
        /\ \A f : Kept(f)' = Kept(f)
    BY <1>1 DEF InHand, Forwarding, Delivered, Offered, Mute, Done, Alive, Kept
  <1>5. PipelineOrder'
    <2>1. Before(Range(fch), {e})
      BY <1>2, Views DEF Before
    <2>2. Ascending(fch')
      BY <1>1, <1>2, <2>1, AppendAscending DEF EventsInv, PipelineOrder
    <2>3. Before(Range(ach) \cup Range(Delivered) \cup InHand \cup Forwarding, {e})
      BY <1>2, Views DEF Before
    <2> QED BY <1>1, <1>3, <1>4, <2>2, <2>3 DEF EventsInv, PipelineOrder, Before, Upstream
  <1>6. Origin'
    <2>1. [n : 1..n, kind : AgentKinds] \subseteq [n : 1..n', kind : AgentKinds]
      BY <1>1, Views
    <2>2. e \in [n : 1..n', kind : AgentKinds]
      BY <1>1, Views DEF e
    <2> QED BY <1>1, <1>3, <1>4, <2>1, <2>2 DEF EventsInv, Origin, Upstream
  <1>7. StoreOrder'
    <2>1. Before(Range(session), {e})
      BY <1>2, Views DEF Before
    <2> QED BY <1>1, <1>3, <1>4, <2>1 DEF EventsInv, StoreOrder, Before, Upstream, FromAgents
  <1>8. HandedOut'
    BY <1>1, <1>4 DEF EventsInv, HandedOut
  <1>9. Behind'
    <2>1. Pending' \subseteq Pending \cup (Range(sent') \ Range(sent))
      BY <1>1 DEF Pending
    <2>2. Stored' = Stored /\ Stored \subseteq EventsTo(n)
      BY <1>1, Views DEF Stored
    <2>3. Before(Stored, {e}) /\ \A c \in closed : c < e.n
      BY <1>2, <2>2, Views DEF Before
    <2>4. synced < e.n
      BY <1>2 DEF RunnerTypeOK, FlowOK
    <2>5. Upstream \subseteq Upstream'
      BY <1>1, <1>3, <1>4 DEF Upstream
    <2>6. \A f \in Pending' : f \in Pending \/ (f = e /\ f \in Upstream')
      BY <2>1, <1>3 DEF Upstream
    <2> QED BY <1>1, <1>4, <2>2, <2>3, <2>4, <2>5, <2>6 DEF EventsInv, Behind, Before
  <1> QED BY <1>5, <1>6, <1>7, <1>8, <1>9 DEF EventsInv

\* The child agent's event is stored past the loop: it stands for no event of the flow.
LEMMA ChildEvents ==
  ASSUME RunnerTypeOK, EventsInv, AppendChild
  PROVE  EventsInv'
  <1> DEFINE e == [n |-> n + 1, kind |-> "child"]
  <1>1. /\ n' = n + 1 /\ session' = Append(session, e)
        /\ UNCHANGED <<ctx, committed, fch, ach, out, fwd, loop, closed, failed, got, sent, synced, dropped>>
    BY DEF AppendChild, context, chans, history
  <1>2. n \in Nat /\ n + 1 \in Nat /\ n <= n + 1
    BY DEF RunnerTypeOK, SeqsOK
  <1>3. e \in EventsTo(n + 1) /\ e.n = n + 1 /\ e.kind = "child"
    BY <1>2 DEF EventsTo, Kinds
  <1>4. session \in Seq(EventsTo(n + 1))
    BY <1>2, EventsGrow DEF RunnerTypeOK, SeqsOK
  <1> HIDE DEF e
  <1>5. Range(session') = Range(session) \cup {e}
    BY <1>1, <1>3, <1>4, AppendElements
  <1>6. /\ InHand' = InHand /\ Forwarding' = Forwarding /\ Delivered' = Delivered
        /\ Offered' = Offered /\ Mute' = Mute /\ Alive' = Alive /\ Upstream' = Upstream
        /\ \A f : Kept(f)' = Kept(f)
    BY <1>1 DEF InHand, Forwarding, Delivered, Offered, Mute, Done, Alive, Kept, Upstream
  <1>7. PipelineOrder'
    BY <1>1, <1>6 DEF EventsInv, PipelineOrder
  <1>8. Origin'
    <2>1. [n : 1..n, kind : AgentKinds] \subseteq [n : 1..n', kind : AgentKinds]
      BY <1>1, <1>2
    <2> QED BY <1>1, <1>3, <1>5, <1>6, <2>1 DEF EventsInv, Origin
  <1>9. StoreOrder'
    <2>1. InOrder(session')
      BY <1>1, <1>3, <1>4, AppendInOrder DEF EventsInv, StoreOrder
    <2>2. FromAgents(Range(session')) = FromAgents(Range(session))
      BY <1>3, <1>5 DEF FromAgents
    <2> QED BY <1>6, <2>1, <2>2 DEF EventsInv, StoreOrder
  <1>10. HandedOut'
    <2>1. ~Kept(e)
      BY <1>3 DEF Kept
    <2> QED BY <1>1, <1>5, <1>6, <2>1 DEF EventsInv, HandedOut
  <1>11. Behind'
    <2>1. Numbers(session) \subseteq Numbers(session')
      <3>1. Numbers(session') = {f.n : f \in Range(session')}
        BY DEF Numbers, Range
      <3> QED BY <3>1, <1>5, Views
    <2>2. Pending' \subseteq Pending
      BY <1>1, <2>1 DEF Pending
    <2>3. Stored' = Stored
      BY <1>3, <1>5 DEF Stored
    <2> QED BY <1>1, <1>6, <2>2, <2>3 DEF EventsInv, Behind, Before
  <1> QED BY <1>7, <1>8, <1>9, <1>10, <1>11 DEF EventsInv

\* The forwarder takes the flow's first event in its hand.
LEMMA ReceiveEvents ==
  ASSUME RunnerTypeOK, EventsInv, Receive
  PROVE  EventsInv'
  <1>1. /\ fwd.pc = "range" /\ fch # <<>> /\ fch' = Tail(fch)
        /\ fwd' = [pc |-> "emit", evt |-> Head(fch)]
        /\ UNCHANGED <<ctx, committed, n, ach, out, loop, closed, session, failed, got, sent, synced, dropped>>
    BY DEF Receive, context, store, history
  <1>2. Range(fch) = {Head(fch)} \cup Range(fch')
    BY <1>1, TailElements DEF RunnerTypeOK, SeqsOK
  <1>3. Ascending(fch') /\ Before({Head(fch)}, Range(fch'))
    BY <1>1, TailAscending DEF RunnerTypeOK, SeqsOK, EventsInv, PipelineOrder
  <1>4. Forwarding = {} /\ Forwarding' = {Head(fch)}
    BY <1>1 DEF Forwarding
  <1>5. Upstream' = Upstream
    BY <1>1, <1>2, <1>4 DEF Upstream
  <1>6. /\ InHand' = InHand /\ Delivered' = Delivered /\ Offered' = Offered /\ Mute' = Mute
        /\ Alive' = Alive /\ \A f : Kept(f)' = Kept(f)
    BY <1>1 DEF InHand, Delivered, Offered, Mute, Done, Alive, Kept
  <1>7. PipelineOrder'
    BY <1>1, <1>2, <1>3, <1>4, <1>5, <1>6 DEF EventsInv, PipelineOrder, Before
  <1>8. Origin' /\ StoreOrder' /\ HandedOut'
    BY <1>1, <1>5, <1>6 DEF EventsInv, Origin, StoreOrder, HandedOut
  <1>9. Behind'
    <2>1. Pending' = Pending /\ Stored' = Stored
      BY <1>1 DEF Pending, Stored
    <2>2. Alive => \A e \in Pending : e \in Upstream
      BY <1>1 DEF EventsInv, Behind
    <2> QED BY <1>1, <1>5, <1>6, <2>1, <2>2 DEF EventsInv, Behind
  <1> QED BY <1>7, <1>8, <1>9 DEF EventsInv

\* The forwarder's event goes to the runner's end of the agent's channel; or it is dropped,
\* and the forwarder takes no more.
LEMMA ForwardEvents ==
  ASSUME RunnerTypeOK, EventsInv, Forward
  PROVE  EventsInv'
  <1>1. /\ fwd.pc = "emit"
        /\ UNCHANGED <<ctx, n, fch, out, loop, closed, session, failed, got, sent, synced, dropped>>
        /\ ("loop" \notin committed => "loop" \notin committed')
        /\ \/ ach' = Append(ach, fwd.evt) /\ fwd'.pc \in {"range", "close"}
           \/ ach' = ach /\ fwd'.pc = "close"
    BY DEF Forward, Sends, Refused, store, history
  <1>2. Forwarding = {fwd.evt} /\ Forwarding' = {}
    BY <1>1 DEF Forwarding
  <1>3. ach \in Seq(EventsTo(n)) /\ fwd.evt \in EventsTo(n)
    BY <1>1 DEF RunnerTypeOK, SeqsOK, LoopOK
  <1>4. /\ InHand' = InHand /\ Delivered' = Delivered /\ Offered' = Offered /\ (Mute => Mute')
        /\ Alive' = Alive /\ \A f : Kept(f)' = Kept(f)
    BY <1>1 DEF InHand, Delivered, Offered, Mute, Done, Alive, Kept
  <1>5. Pending' = Pending /\ Stored' = Stored
    BY <1>1 DEF Pending, Stored
  <1>6. Alive => \A e \in Pending : e \in Upstream
    BY <1>1 DEF EventsInv, Behind
  <1>7. CASE ach' = Append(ach, fwd.evt)
    <2>1. Range(ach') = Range(ach) \cup {fwd.evt}
      BY <1>3, <1>7, AppendElements
    <2>2. Ascending(ach')
      BY <1>2, <1>3, <1>7, AppendAscending DEF EventsInv, PipelineOrder, Before
    <2>3. Upstream' = Upstream
      BY <1>1, <1>2, <2>1 DEF Upstream
    <2>4. PipelineOrder'
      BY <1>1, <1>2, <1>4, <2>1, <2>2, <2>3 DEF EventsInv, PipelineOrder, Before
    <2>5. Origin' /\ StoreOrder' /\ HandedOut'
      BY <1>1, <1>4, <2>3 DEF EventsInv, Origin, StoreOrder, HandedOut
    <2>6. Behind'
      BY <1>1, <1>4, <1>5, <1>6, <2>3 DEF EventsInv, Behind
    <2> QED BY <2>4, <2>5, <2>6 DEF EventsInv
  <1>8. CASE ach' = ach /\ fwd'.pc = "close"
    <2>1. Upstream = Upstream' \cup {fwd.evt}
      BY <1>1, <1>2, <1>8 DEF Upstream
    <2>2. PipelineOrder'
      BY <1>1, <1>2, <1>4, <1>8, <2>1 DEF EventsInv, PipelineOrder, Before
    <2>3. Origin' /\ StoreOrder' /\ HandedOut'
      BY <1>1, <1>4, <2>1 DEF EventsInv, Origin, StoreOrder, HandedOut, Before
    <2>4. Alive => Before(InHand \cup Range(ach), {fwd.evt})
      BY <1>2, <2>1 DEF EventsInv, PipelineOrder, Before
    <2>5. Behind'
      BY <1>1, <1>4, <1>5, <1>6, <1>8, <2>1, <2>4 DEF EventsInv, Behind
    <2> QED BY <2>2, <2>3, <2>5 DEF EventsInv
  <1> QED BY <1>1, <1>7, <1>8

\* The loop takes the first event of the agent's channel in its hand and stores it: it
\* belongs behind all that was stored, and before all that is to come.
LEMMA StoreEvents ==
  ASSUME RunnerTypeOK, EventsInv, Store
  PROVE  EventsInv'
  <1>0. PICK e : e = Head(ach)
    OBVIOUS
  <1>1. /\ loop.pc = "select" /\ ach # <<>> /\ ach' = Tail(ach)
        /\ loop' = [loop EXCEPT !.pc = "notify", !.evt = e]
        /\ UNCHANGED <<ctx, committed, n, fch, out, fwd, closed, got, sent, synced, dropped>>
    BY <1>0 DEF Store, context, history
  <1>2. \/ Persistent(e) /\ session' = Append(session, e) /\ failed' = failed
        \/ Persistent(e) /\ session' = session /\ failed' = failed \cup {e.n}
        \/ ~Persistent(e) /\ session' = session /\ failed' = failed
    BY <1>0 DEF Store, Persist, store
  <1>3. e \in EventsTo(n) /\ Range(ach) = {e} \cup Range(ach') /\ session \in Seq(EventsTo(n))
    BY <1>0, <1>1, TailElements DEF RunnerTypeOK, SeqsOK
  <1>4. Ascending(ach') /\ Before({e}, Range(ach'))
    BY <1>0, <1>1, TailAscending DEF RunnerTypeOK, SeqsOK, EventsInv, PipelineOrder
  <1>5. loop'.pc = "notify" /\ loop'.evt = e
    BY <1>1 DEF RunnerTypeOK, LoopOK
  <1>6. /\ InHand = {} /\ InHand' = {e} /\ Offered = {} /\ Offered' = {e} /\ Alive /\ Alive'
    BY <1>1, <1>5 DEF InHand, Offered, Alive
  <1>7. /\ Forwarding' = Forwarding /\ Delivered' = Delivered /\ Mute' = Mute
        /\ Upstream = {e} \cup Upstream'
    BY <1>1, <1>3 DEF Forwarding, Delivered, Mute, Done, Upstream
  <1>8. Before({e}, Upstream')
    <2>1. Upstream' = Range(ach') \cup Forwarding \cup Range(fch)
      BY <1>1, <1>7 DEF Upstream
    <2> QED BY <1>3, <1>4, <2>1 DEF EventsInv, PipelineOrder, Before
  <1>9. \/ Persistent(e) /\ Range(session') = Range(session) \cup {e} /\ failed' = failed
        \/ Persistent(e) /\ session' = session /\ failed' = failed \cup {e.n}
        \/ ~Persistent(e) /\ session' = session /\ failed' = failed
    <2>1. Range(Append(session, e)) = Range(session) \cup {e}
      BY <1>3, AppendElements
    <2> QED BY <1>2, <2>1
  <1>10. \A f : Kept(f)' => Kept(f)
    BY <1>9 DEF Kept
  <1>11. PipelineOrder'
    <2>1. Before(Range(Delivered), {e} \cup Upstream')
      BY <1>6, <1>7 DEF EventsInv, PipelineOrder, Before
    <2>2. Before(Range(ach'), Forwarding \cup Range(fch)) /\ Before(Forwarding, Range(fch))
      BY <1>3 DEF EventsInv, PipelineOrder, Before
    <2> QED BY <1>1, <1>4, <1>5, <1>6, <1>7, <1>8, <2>1, <2>2 DEF EventsInv, PipelineOrder
  <1>12. Origin'
    BY <1>1, <1>5, <1>6, <1>7, <1>9 DEF EventsInv, Origin
  <1>13. StoreOrder'
    <2>1. Before(FromAgents(Range(session)), {e} \cup Upstream')
      BY <1>6, <1>7 DEF EventsInv, StoreOrder, Before
    <2>2. InOrder(session')
      BY <1>2, <1>3, <2>1, AppendInOrder DEF EventsInv, StoreOrder, Before
    <2>3. FromAgents(Range(session')) \subseteq FromAgents(Range(session)) \cup {e}
      BY <1>9 DEF FromAgents
    <2> QED BY <1>8, <2>1, <2>2, <2>3 DEF StoreOrder, Before
  <1>14. HandedOut'
    <2>1. Range(session) \subseteq Range(session')
      BY <1>9
    <2>2. Kept(e)' => e \in Range(session')
      BY <1>9 DEF Kept
    <2>3. \A f \in Range(session') : f \in Range(session) \/ f = e
      BY <1>9
    <2>4. \A f \in Range(Delivered) : ~(e.n < f.n)
      <3>1. \A f \in Range(Delivered) : f.n < e.n
        BY <1>6, <1>7 DEF EventsInv, PipelineOrder, Before
      <3> QED BY <3>1, <1>3, Views
    <2>5. \A f \in Range(Delivered') \cup Offered' :
            Kept(f)' /\ f.kind # "completion" => f \in Range(session')
      BY <1>6, <1>7, <1>10, <2>1, <2>2 DEF EventsInv, HandedOut
    <2>6. dropped' = {}
      BY <1>1, <1>6 DEF EventsInv, HandedOut
    <2>7. \A f \in Range(session') :
            Kept(f)' => f \in Range(Delivered') \cup Offered' \cup dropped' \/ Mute'
      BY <1>1, <1>6, <1>7, <1>10, <2>3 DEF EventsInv, HandedOut
    <2>8. \A f \in Range(session'), g \in Range(Delivered') : Kept(f)' /\ f.n < g.n =>
            f \in Range(Delivered') \/ (f \in dropped' /\ g.kind = "completion")
      BY <1>1, <1>7, <1>10, <2>3, <2>4 DEF EventsInv, HandedOut
    <2> QED BY <2>5, <2>6, <2>7, <2>8 DEF HandedOut
  <1>15. Behind'
    <2>1. Numbers(session') = {f.n : f \in Range(session')}
      BY DEF Numbers, Range
    <2>2. /\ Numbers(session) \cup failed \subseteq Numbers(session') \cup failed'
          /\ Persistent(e) => e.n \in Numbers(session') \cup failed'
      BY <1>9, <2>1, Views
    <2>3. Pending' \subseteq Pending \ {e}
      BY <1>1, <2>2 DEF Pending
    <2>4. Stored' \subseteq Stored \cup {e}
      BY <1>9 DEF Stored
    <2>5. \A f \in Pending' :
            f \in Upstream' \/ (fwd'.pc \in {"close", "done"} /\ Before({e} \cup Range(ach'), {f}))
      BY <1>1, <1>3, <1>6, <1>7, <2>3 DEF EventsInv, Behind, Before
    <2>6. Before({e}, Pending')
      BY <1>8, <2>5 DEF Before
    <2>7. Before(Stored', Pending')
      BY <2>3, <2>4, <2>6 DEF EventsInv, Behind, Before
    <2>8. \A f \in Pending' : synced' < f.n /\ \A c \in closed' : c < f.n
      BY <1>1, <2>3 DEF EventsInv, Behind
    <2> QED BY <1>6, <2>5, <2>7, <2>8 DEF Behind
  <1> QED BY <1>11, <1>12, <1>13, <1>14, <1>15 DEF EventsInv

\* The loop panics with an event it has taken, before it is stored or after it: the event
\* is dropped, and the loop takes no other.
LEMMA PanicEvents ==
  ASSUME RunnerTypeOK, EventsInv, LoopPanics
  PROVE  EventsInv'
  <1>1. /\ UNCHANGED <<ctx, committed, n, fch, out, fwd, closed, session, failed, got, sent, synced>>
        /\ \/ /\ loop.pc = "select" /\ ach # <<>> /\ ach' = Tail(ach)
              /\ dropped' = dropped \cup {Head(ach)}
           \/ loop.pc = "notify" /\ ach' = ach /\ dropped' = dropped \cup {loop.evt}
    BY DEF LoopPanics, context
  <1>2. loop'.pc = "complete"
    BY DEF LoopPanics
  <1>3. Range(ach') \subseteq Range(ach)
    BY <1>1, TailElements DEF RunnerTypeOK, SeqsOK
  <1>4. Ascending(ach')
    BY <1>1, TailAscending DEF RunnerTypeOK, SeqsOK, EventsInv, PipelineOrder
  <1>5. InHand' = {} /\ Offered' = {} /\ ~Alive' /\ Offered \subseteq dropped'
    BY <1>1, <1>2 DEF InHand, Offered, Alive
  <1>6. /\ Forwarding' = Forwarding /\ Delivered' = Delivered /\ Mute' = Mute
        /\ Upstream' \subseteq Upstream /\ \A f : Kept(f)' = Kept(f)
    BY <1>1, <1>3 DEF Forwarding, Delivered, Mute, Done, Upstream, Kept
  <1>7. PipelineOrder'
    BY <1>1, <1>2, <1>3, <1>4, <1>5, <1>6 DEF EventsInv, PipelineOrder, Before
  <1>8. Origin' /\ StoreOrder'
    BY <1>1, <1>2, <1>5, <1>6 DEF EventsInv, Origin, StoreOrder
  <1>9. HandedOut'
    <2>1. dropped \subseteq dropped'
      BY <1>1
    <2> QED BY <1>1, <1>5, <1>6, <2>1 DEF EventsInv, HandedOut
  <1>10. Behind'
    <2>1. Pending' = Pending /\ Stored' = Stored
      BY <1>1 DEF Pending, Stored
    <2>2. loop.pc \notin {"cancel", "ended"}
      BY <1>1
    <2> QED BY <1>1, <1>5, <2>1, <2>2 DEF EventsInv, Behind
  <1> QED BY <1>7, <1>8, <1>9, <1>10 DEF EventsInv

\* Who waits is told of the event in the loop's hand, which comes before all that is
\* pending.
LEMMA NotifyEvents ==
  ASSUME RunnerTypeOK, EventsInv, NotifyCompletion
  PROVE  EventsInv'
  <1>1. /\ loop.pc = "notify" /\ closed' \subseteq closed \cup {loop.evt.n}
        /\ UNCHANGED <<ctx, committed, n, fch, ach, out, fwd, session, failed, got, sent, synced, dropped>>
    BY DEF NotifyCompletion, context, chans, store, history
  <1>2. loop'.pc = "emit" /\ loop'.evt = loop.evt
    BY DEF NotifyCompletion, RunnerTypeOK, LoopOK
  <1>3. InHand = {loop.evt} /\ InHand' = InHand /\ Offered' = Offered /\ Alive /\ Alive'
    BY <1>1, <1>2 DEF InHand, Offered, Alive
  <1>4. /\ Forwarding' = Forwarding /\ Delivered' = Delivered /\ Mute' = Mute
        /\ Upstream' = Upstream /\ \A f : Kept(f)' = Kept(f)
    BY <1>1 DEF Forwarding, Delivered, Mute, Done, Upstream, Kept
  <1>5. PipelineOrder' /\ Origin' /\ StoreOrder' /\ HandedOut'
    BY <1>1, <1>2, <1>3, <1>4 DEF EventsInv, PipelineOrder, Origin, StoreOrder, HandedOut
  <1>6. Behind'
    <2>1. Pending' = Pending /\ Stored' = Stored
      BY <1>1 DEF Pending, Stored
    <2>2. \A e \in Pending : loop.evt.n < e.n
      BY <1>3 DEF EventsInv, Behind, PipelineOrder, Before
    <2>3. \A e \in Pending : synced < e.n /\ \A c \in closed : c < e.n
      BY <1>1 DEF EventsInv, Behind
    <2> QED BY <1>1, <1>3, <1>4, <2>1, <2>2, <2>3 DEF EventsInv, Behind
  <1> QED BY <1>5, <1>6 DEF EventsInv

\* An event is handed out: every event of the agents that was stored before it is.
LEMMA HandOutEvents ==
  ASSUME RunnerTypeOK, EventsInv, NEW e \in EventsTo(n), Offered = {e}, ~Mute,
         out' = Append(out, e), Offered' = {}, InHand' = {},
         loop.pc \in {"emit", "last"}, loop.evt = e,
         loop'.pc \in {"select", "teardown"}, loop'.pc = "select" => loop.pc = "emit",
         UNCHANGED <<n, fch, ach, fwd, closed, session, failed, got, sent, synced, dropped>>
  PROVE  EventsInv'
  <1>1. Delivered' = Append(Delivered, e) /\ Delivered \in Seq(EventsTo(n))
    <2>1. Delivered' = got \o Append(out, e)
      BY DEF Delivered
    <2> QED BY <2>1, HandOut, Views DEF Delivered, RunnerTypeOK, SeqsOK
  <1>2. Range(Delivered') = Range(Delivered) \cup {e}
    BY <1>1, AppendElements
  <1>3. Before(Range(Delivered), {e})
    BY DEF EventsInv, PipelineOrder, InHand, Alive, Before
  <1>4. Ascending(Delivered')
    BY <1>1, <1>3, AppendAscending DEF EventsInv, PipelineOrder
  <1>5. Forwarding' = Forwarding /\ Upstream' = Upstream /\ \A f : Kept(f)' = Kept(f)
    BY DEF Forwarding, Upstream, Kept
  <1>6. Alive' => Alive /\ InHand = {e}
    BY DEF Alive, InHand
  <1>7. PipelineOrder'
    <2>1. Alive' => Before(Range(Delivered) \cup {e}, Upstream)
      BY <1>6 DEF EventsInv, PipelineOrder, Before
    <2>2. Alive' => Before(Range(Delivered'), Upstream')
      BY <1>2, <1>5, <2>1
    <2>3. /\ Ascending(ach') /\ Ascending(fch') /\ Before(Forwarding', Range(fch'))
          /\ Before(Range(ach'), Forwarding' \cup Range(fch'))
      BY <1>5 DEF EventsInv, PipelineOrder
    <2>4. (Before(InHand, Upstream))' /\ loop'.pc # "last"
      BY DEF Before
    <2>5. (Alive => Before(Range(Delivered), InHand \cup Upstream) /\ Before(InHand, Upstream))'
      BY <2>2, <2>4 DEF Before
    <2> QED BY <1>4, <2>3, <2>4, <2>5 DEF PipelineOrder
  <1>8. Origin'
    BY <1>5 DEF EventsInv, Origin
  <1>9. StoreOrder'
    BY <1>5, <1>6 DEF EventsInv, StoreOrder
  <1>10. HandedOut'
    <2>1. \A f \in Range(session) : Kept(f) => f \in Range(Delivered') \cup dropped
      BY <1>2 DEF EventsInv, HandedOut
    <2>2. \A f \in Range(Delivered') : Kept(f) /\ f.kind # "completion" => f \in Range(session)
      BY <1>2 DEF EventsInv, HandedOut
    <2>3. dropped = {} \/ e.kind = "completion"
      <3>1. CASE loop.pc = "emit"
        BY <3>1 DEF EventsInv, HandedOut, Alive
      <3>2. CASE loop.pc = "last"
        BY <3>2 DEF EventsInv, Origin
      <3> QED BY <3>1, <3>2
    <2>4. \A f \in Range(session), g \in Range(Delivered') : Kept(f) /\ f.n < g.n =>
            f \in Range(Delivered') \/ (f \in dropped /\ g.kind = "completion")
      <3> SUFFICES ASSUME NEW f \in Range(session), NEW g \in Range(Delivered'), Kept(f), f.n < g.n
                   PROVE  f \in Range(Delivered') \/ (f \in dropped /\ g.kind = "completion")
        OBVIOUS
      <3>1. CASE g \in Range(Delivered)
        BY <3>1, <1>2 DEF EventsInv, HandedOut
      <3>2. CASE g = e
        BY <3>2, <2>1, <2>3
      <3> QED BY <3>1, <3>2, <1>2
    <2>5. Alive' => dropped' = {}
      BY <1>6 DEF EventsInv, HandedOut
    <2> QED BY <1>5, <2>1, <2>2, <2>4, <2>5 DEF HandedOut
  <1>11. Behind'
    <2>1. Pending' = Pending /\ Stored' = Stored
      BY DEF Pending, Stored
    <2>2. loop.pc \notin {"cancel", "ended"} /\ InHand' \subseteq InHand
      OBVIOUS
    <2>3. Alive' => \A f \in Pending : f \in Upstream \/ (fwd.pc \in {"close", "done"} /\ Before(Range(ach), {f}))
      BY <1>6 DEF EventsInv, Behind, Before
    <2>4. \A f \in Pending : synced < f.n /\ \A c \in closed : c < f.n
      BY <2>2 DEF EventsInv, Behind
    <2>5. (Alive => \A f \in Pending :
             f \in Upstream \/ (fwd.pc \in {"close", "done"} /\ Before(InHand \cup Range(ach), {f})))'
      BY <1>5, <2>1, <2>3 DEF Before
    <2>6. Before(Stored', Pending')
      BY <2>1 DEF EventsInv, Behind
    <2>7. \A f \in Pending' : synced' < f.n /\ \A c \in closed' : c < f.n
      BY <2>1, <2>4
    <2> QED BY <2>5, <2>6, <2>7 DEF Behind
  <1> QED BY <1>7, <1>8, <1>9, <1>10, <1>11 DEF EventsInv

\* The loop's event is refused: the loop hands out nothing any more.
LEMMA RefusedEvents ==
  ASSUME RunnerTypeOK, EventsInv, Mute', Offered' = {}, InHand' = {},
         loop'.pc \in {"select", "complete", "teardown"},
         loop'.pc = "select" => loop.pc = "emit", loop.pc \in {"emit", "last"},
         UNCHANGED <<n, fch, ach, out, fwd, closed, session, failed, got, sent, synced, dropped>>
  PROVE  EventsInv'
  <1>1. /\ Forwarding' = Forwarding /\ Upstream' = Upstream /\ Delivered' = Delivered
        /\ \A f : Kept(f)' = Kept(f)
    BY DEF Forwarding, Upstream, Kept, Delivered
  <1>2. Alive' => Alive
    BY DEF Alive
  <1>3. PipelineOrder'
    BY <1>1, <1>2 DEF EventsInv, PipelineOrder, Before
  <1>4. Origin' /\ StoreOrder' /\ HandedOut'
    BY <1>1, <1>2 DEF EventsInv, Origin, StoreOrder, HandedOut
  <1>5. Behind'
    <2>1. Pending' = Pending /\ Stored' = Stored
      BY DEF Pending, Stored
    <2> QED BY <1>1, <1>2, <2>1 DEF EventsInv, Behind, Before
  <1> QED BY <1>3, <1>4, <1>5 DEF EventsInv

\* Both ways of EmitEvent to the caller.
LEMMA EmitProcessedEvents ==
  ASSUME RunnerTypeOK, EventsInv, EmitProcessed \/ EmitCompletion
  PROVE  EventsInv'
  <1>1. /\ UNCHANGED <<ctx, n, fch, ach, fwd, closed, session, failed, got, sent, synced, dropped>>
        /\ loop.pc \in {"emit", "last"}
    BY DEF EmitProcessed, EmitCompletion, store, history
  <1>2. loop.evt \in EventsTo(n) /\ Offered = {loop.evt}
    BY <1>1 DEF RunnerTypeOK, LoopOK, Offered, InHand
  <1>3. /\ loop'.pc \in {"select", "complete", "teardown"}
        /\ loop'.pc = "select" => loop.pc = "emit"
    <2>1. loop \in [pc : LoopPcs, evt : EventsTo(n) \cup {NoEvent}, flush : BOOLEAN]
      BY DEF RunnerTypeOK, LoopOK
    <2>2. CASE EmitProcessed
      <3>1. \/ loop' = [loop EXCEPT !.pc = "select", !.evt = NoEvent]
            \/ loop' = [pc |-> "select", evt |-> NoEvent, flush |-> FALSE]
            \/ loop' = [loop EXCEPT !.pc = "complete", !.evt = NoEvent]
        BY <2>2 DEF EmitProcessed
      <3>2. loop.pc = "emit"
        BY <2>2 DEF EmitProcessed
      <3>3. CASE loop' = [pc |-> "select", evt |-> NoEvent, flush |-> FALSE]
        BY <3>2, <3>3
      <3>4. CASE loop' = [loop EXCEPT !.pc = "select", !.evt = NoEvent]
        BY <2>1, <3>2, <3>4
      <3>5. CASE loop' = [loop EXCEPT !.pc = "complete", !.evt = NoEvent]
        BY <2>1, <3>2, <3>5
      <3> QED BY <3>1, <3>3, <3>4, <3>5
    <2>3. CASE EmitCompletion
      BY <2>1, <2>3 DEF EmitCompletion
    <2> QED BY <2>2, <2>3
  <1>4. Offered' = {} /\ InHand' = {}
    BY <1>3 DEF Offered, InHand
  <1>5. \/ /\ ~Mute /\ out' = Append(out, loop.evt)
           /\ loop'.pc \in {"select", "teardown"}
        \/ Mute' /\ out' = out
    BY <1>1 DEF EmitProcessed, EmitCompletion, RunnerTypeOK, LoopOK, Sends, Refused, Mute, Done
  <1> QED BY <1>1, <1>2, <1>3, <1>4, <1>5, HandOutEvents, RefusedEvents

\* The completion event is the last of all, and need not be stored.
LEMMA CompletionEvents ==
  ASSUME RunnerTypeOK, EventsInv, StoreCompletion
  PROVE  EventsInv'
  <1>1. PICK e : e = [n |-> n + 1, kind |-> "completion"]
    OBVIOUS
  <1>2. /\ loop.pc = "complete" /\ n' = n + 1
        /\ UNCHANGED <<ctx, committed, fch, ach, out, fwd, closed, got, sent, synced, dropped>>
        /\ \/ session' = Append(session, e) /\ failed' = failed
           \/ session' = session /\ failed' \in {failed, failed \cup {n + 1}}
    BY <1>1 DEF StoreCompletion, Persist, Persistent, context, chans, store, history
  <1>3. loop'.pc = "last" /\ loop'.evt = e
    BY <1>1 DEF StoreCompletion, RunnerTypeOK, LoopOK
  <1>4. n \in Nat /\ n + 1 \in Nat /\ n <= n + 1
    BY DEF RunnerTypeOK, SeqsOK
  <1>5. e \in EventsTo(n + 1) /\ e.n = n + 1 /\ e.kind = "completion"
    BY <1>1, <1>4 DEF EventsTo, Kinds
  <1>6. session \in Seq(EventsTo(n + 1))
    BY <1>4, EventsGrow DEF RunnerTypeOK, SeqsOK
  <1>7. \/ Range(session') = Range(session) \cup {e} /\ failed' = failed
        \/ session' = session /\ failed' \in {failed, failed \cup {n + 1}}
    <2>1. Range(Append(session, e)) = Range(session) \cup {e}
      BY <1>5, <1>6, AppendElements
    <2> QED BY <1>2, <2>1
  <1>8. InHand = {} /\ InHand' = {} /\ Offered = {} /\ Offered' = {e} /\ ~Alive' /\ ~Alive
    BY <1>2, <1>3 DEF InHand, Offered, Alive
  <1>9. Forwarding' = Forwarding /\ Upstream' = Upstream /\ Delivered' = Delivered /\ Mute' = Mute
    BY <1>2 DEF Forwarding, Upstream, Delivered, Mute, Done
  <1>10. \A f : Kept(f)' => Kept(f)
    BY <1>7 DEF Kept
  <1>11. PipelineOrder'
    <2>1. Before(Range(Delivered), {e})
      BY <1>5, Views DEF Before
    <2> QED BY <1>2, <1>3, <1>8, <1>9, <2>1 DEF EventsInv, PipelineOrder
  <1>12. Origin'
    <2>1. [n : 1..n, kind : AgentKinds] \subseteq [n : 1..n', kind : AgentKinds]
      BY <1>2, <1>4
    <2> QED BY <1>2, <1>3, <1>5, <1>7, <1>8, <1>9, <2>1 DEF EventsInv, Origin
  <1>13. StoreOrder'
    <2>1. Before(FromAgents(Range(session)), {e})
      BY <1>5, Views DEF Before, FromAgents
    <2>2. InOrder(session')
      BY <1>2, <1>5, <1>6, <2>1, AppendInOrder DEF EventsInv, StoreOrder
    <2> QED BY <1>8, <2>2 DEF StoreOrder
  <1>14. HandedOut'
    <2>1. e.kind = "completion"
      BY <1>5
    <2>2. Range(session) \subseteq Range(session') /\ \A f \in Range(session') : f \in Range(session) \/ f = e
      BY <1>7
    <2>3. \A f \in Range(Delivered) : ~(e.n < f.n)
      BY <1>5, Views
    <2>4. \A f \in Range(Delivered') \cup Offered' :
            Kept(f)' /\ f.kind # "completion" => f \in Range(session')
      BY <1>8, <1>9, <1>10, <2>1, <2>2 DEF EventsInv, HandedOut
    <2>5. \A f \in Range(session') :
            Kept(f)' => f \in Range(Delivered') \cup Offered' \cup dropped' \/ Mute'
      BY <1>2, <1>8, <1>9, <1>10, <2>2 DEF EventsInv, HandedOut
    <2>6. \A f \in Range(session'), g \in Range(Delivered') : Kept(f)' /\ f.n < g.n =>
            f \in Range(Delivered') \/ (f \in dropped' /\ g.kind = "completion")
      BY <1>2, <1>9, <1>10, <2>2, <2>3 DEF EventsInv, HandedOut
    <2> QED BY <1>8, <2>4, <2>5, <2>6 DEF HandedOut
  <1>15. Behind'
    <2>1. Numbers(session') = {f.n : f \in Range(session')}
      BY DEF Numbers, Range
    <2>2. Numbers(session) \cup failed \subseteq Numbers(session') \cup failed'
      BY <1>7, <2>1, Views
    <2>3. Pending' \subseteq Pending
      BY <1>2, <2>2 DEF Pending
    <2>4. Stored' = Stored
      BY <1>5, <1>7 DEF Stored
    <2>5. Before(Stored', Pending')
      BY <2>3, <2>4 DEF EventsInv, Behind, Before
    <2>6. \A f \in Pending' : synced' < f.n /\ \A c \in closed' : c < f.n
      BY <1>2, <2>3 DEF EventsInv, Behind
    <2> QED BY <1>8, <2>5, <2>6 DEF Behind
  <1> QED BY <1>11, <1>12, <1>13, <1>14, <1>15 DEF EventsInv

\* The handling of the completion event panics: the event may be stored, and is dropped.
LEMMA CompletionPanicsEvents ==
  ASSUME RunnerTypeOK, EventsInv, CompletionPanics
  PROVE  EventsInv'
  <1>1. PICK e : e = [n |-> n + 1, kind |-> "completion"]
    OBVIOUS
  <1>2. /\ loop.pc = "complete" /\ n' = n + 1
        /\ UNCHANGED <<ctx, committed, fch, ach, out, fwd, closed, failed, got, sent, synced>>
        /\ session' = Append(session, e) \/ session' = session
        /\ dropped' = dropped \cup {e}
    BY <1>1 DEF CompletionPanics, context, chans
  <1>3. loop'.pc = "teardown"
    BY DEF CompletionPanics, RunnerTypeOK, LoopOK
  <1>4. n \in Nat /\ n + 1 \in Nat /\ n <= n + 1
    BY DEF RunnerTypeOK, SeqsOK
  <1>5. e \in EventsTo(n + 1) /\ e.n = n + 1 /\ e.kind = "completion"
    BY <1>1, <1>4 DEF EventsTo, Kinds
  <1>6. session \in Seq(EventsTo(n + 1))
    BY <1>4, EventsGrow DEF RunnerTypeOK, SeqsOK
  <1>7. Range(session') = Range(session) \cup {e} \/ session' = session
    <2>1. Range(Append(session, e)) = Range(session) \cup {e}
      BY <1>5, <1>6, AppendElements
    <2> QED BY <1>2, <2>1
  <1>8. InHand = {} /\ InHand' = {} /\ Offered = {} /\ Offered' = {} /\ ~Alive' /\ ~Alive
    BY <1>2, <1>3 DEF InHand, Offered, Alive
  <1>9. /\ Forwarding' = Forwarding /\ Upstream' = Upstream /\ Delivered' = Delivered
        /\ Mute' = Mute /\ \A f : Kept(f)' = Kept(f)
    BY <1>2 DEF Forwarding, Upstream, Delivered, Mute, Done, Kept
  <1>10. PipelineOrder'
    BY <1>2, <1>3, <1>8, <1>9 DEF EventsInv, PipelineOrder
  <1>11. Origin'
    <2>1. [n : 1..n, kind : AgentKinds] \subseteq [n : 1..n', kind : AgentKinds]
      BY <1>2, <1>4
    <2> QED BY <1>2, <1>3, <1>5, <1>7, <1>8, <1>9, <2>1 DEF EventsInv, Origin
  <1>12. StoreOrder'
    <2>1. Before(FromAgents(Range(session)), {e})
      BY <1>5, Views DEF Before, FromAgents
    <2>2. InOrder(session')
      BY <1>2, <1>5, <1>6, <2>1, AppendInOrder DEF EventsInv, StoreOrder
    <2> QED BY <1>8, <2>2 DEF StoreOrder
  <1>13. HandedOut'
    <2>1. /\ Range(session) \subseteq Range(session')
          /\ \A f \in Range(session') : f \in Range(session) \/ f = e
      BY <1>7
    <2>2. \A f \in Range(Delivered) : ~(e.n < f.n)
      BY <1>5, Views
    <2>3. e \in dropped' /\ dropped \subseteq dropped'
      BY <1>2
    <2>4. \A f \in Range(Delivered') \cup Offered' :
            Kept(f)' /\ f.kind # "completion" => f \in Range(session')
      BY <1>8, <1>9, <2>1 DEF EventsInv, HandedOut
    <2>5. \A f \in Range(session') :
            Kept(f)' => f \in Range(Delivered') \cup Offered' \cup dropped' \/ Mute'
      BY <1>8, <1>9, <2>1, <2>3 DEF EventsInv, HandedOut
    <2>6. \A f \in Range(session'), g \in Range(Delivered') : Kept(f)' /\ f.n < g.n =>
            f \in Range(Delivered') \/ (f \in dropped' /\ g.kind = "completion")
      BY <1>9, <2>1, <2>2, <2>3 DEF EventsInv, HandedOut
    <2> QED BY <1>8, <2>4, <2>5, <2>6 DEF HandedOut
  <1>14. Behind'
    <2>1. Numbers(session') = {f.n : f \in Range(session')}
      BY DEF Numbers, Range
    <2>2. Numbers(session) \subseteq Numbers(session')
      BY <1>7, <2>1, Views
    <2>3. Pending' \subseteq Pending
      BY <1>2, <2>2 DEF Pending
    <2>4. Stored' = Stored
      BY <1>5, <1>7 DEF Stored
    <2>5. Before(Stored', Pending')
      BY <2>3, <2>4 DEF EventsInv, Behind, Before
    <2>6. \A f \in Pending' : synced' < f.n /\ \A c \in closed' : c < f.n
      BY <1>2, <2>3 DEF EventsInv, Behind
    <2> QED BY <1>8, <2>5, <2>6 DEF Behind
  <1> QED BY <1>10, <1>11, <1>12, <1>13, <1>14 DEF EventsInv

\* The caller reads, or the run is torn down: the events stay where they are.
LEMMA ReadEvents ==
  ASSUME RunnerTypeOK, EventsInv, Read \/ Teardown
  PROVE  EventsInv'
  <1>1. /\ UNCHANGED <<ctx, committed, n, fch, ach, fwd, session, failed, sent, synced, dropped>>
        /\ Delivered' = Delivered
    <2>1. CASE Read
      <3>1. UNCHANGED <<ctx, committed, n, fch, ach, fwd, session, failed, sent, synced, dropped>>
        BY <2>1 DEF Read, context, store, history
      <3>2. out # <<>> /\ Delivered' = Append(got, Head(out)) \o Tail(out)
        BY <2>1 DEF Read, Delivered
      <3>3. Delivered' = Delivered
        BY <3>2, ReadOne DEF RunnerTypeOK, SeqsOK, Delivered
      <3> QED BY <3>1, <3>3
    <2>2. CASE Teardown
      BY <2>2 DEF Teardown, Delivered, context, store, history
    <2> QED BY <2>1, <2>2
  <1>2. \/ loop' = loop /\ closed' = closed
        \/ loop.pc = "teardown" /\ loop'.pc = "cancel"
    BY DEF Read, Teardown, RunnerTypeOK, LoopOK
  <1>3. InHand' = InHand /\ Offered' = Offered /\ Alive' = Alive
    BY <1>2 DEF InHand, Offered, Alive
  <1>4. Forwarding' = Forwarding /\ Upstream' = Upstream /\ Mute' = Mute /\ \A f : Kept(f)' = Kept(f)
    BY <1>1 DEF Forwarding, Upstream, Mute, Done, Kept
  <1>5. PipelineOrder' /\ Origin'
    BY <1>1, <1>2, <1>3, <1>4 DEF EventsInv, PipelineOrder, Origin
  <1>6. StoreOrder' /\ HandedOut'
    BY <1>1, <1>3, <1>4 DEF EventsInv, StoreOrder, HandedOut
  <1>7. Behind'
    <2>1. Pending' = Pending /\ Stored' = Stored
      BY <1>1 DEF Pending, Stored
    <2> QED BY <1>1, <1>2, <1>3, <1>4, <2>1 DEF EventsInv, Behind
  <1> QED BY <1>5, <1>6, <1>7 DEF EventsInv

\* What a quiet step may do: the loop returns or ends, the forwarder ends, the context is
\* done, or the flow is woken by a notice.
LEMMA QuietMoves ==
  ASSUME RunnerTypeOK, Quiet
  PROVE  /\ \/ loop'.pc = loop.pc /\ loop'.evt = loop.evt
            \/ loop.pc = "select" /\ loop'.pc = "complete"
            \/ loop.pc = "cancel" /\ loop'.pc = "ended"
         /\ \/ fwd' = fwd
            \/ fwd.pc = "range" /\ fwd'.pc = "close"
            \/ fwd.pc = "close" /\ fwd'.pc = "done"
         /\ Mute => Mute'
         /\ synced' = synced \/ synced' \in closed
  <1>1. /\ loop \in [pc : LoopPcs, evt : EventsTo(n) \cup {NoEvent}, flush : BOOLEAN]
        /\ fwd \in [pc : FwdPcs, evt : EventsTo(n) \cup {NoEvent}]
    BY DEF RunnerTypeOK, LoopOK
  <1>2. CASE Drain \/ RunTool \/ FlowExit \/ Woken \/ WaitTimesOut \/ WaitCancelled
             \/ FlushDetached \/ FlushReturns \/ NextAgent \/ Steer \/ UNCHANGED vars
    BY <1>2 DEF Drain, RunTool, FlowExit, Woken, WaitTimesOut, WaitCancelled, FlushDetached,
       FlushReturns, NextAgent, Steer, vars, context, history, Mute, Done
  <1>3. CASE TakeFlush \/ Ack
    BY <1>1, <1>3 DEF TakeFlush, Ack, context, history, Mute, Done
  <1>4. CASE ForwarderEnds \/ CloseAgentChannel
    BY <1>1, <1>4 DEF ForwarderEnds, CloseAgentChannel, context, history, Mute, Done
  <1>5. CASE LoopReturns
    BY <1>1, <1>5 DEF LoopReturns, context, history, Mute, Done
  <1>6. CASE LoopEnds
    <2>1. loop.pc = "cancel" /\ loop'.pc = "ended" /\ fwd' = fwd /\ synced' = synced
      BY <1>1, <1>6 DEF LoopEnds, history
    <2>2. Mute => Mute'
      BY <1>6 DEF LoopEnds, Mute, Done
    <2> QED BY <2>1, <2>2
  <1>7. CASE Cancel
    BY <1>7 DEF Cancel, history, Mute, Done
  <1> QED BY <1>2, <1>3, <1>4, <1>5, <1>6, <1>7 DEF Quiet

\* A quiet step.
LEMMA QuietEvents ==
  ASSUME RunnerTypeOK, EventsInv, Quiet
  PROVE  EventsInv'
  <1>1. UNCHANGED <<n, fch, ach, out, session, got, sent, closed, failed, dropped>>
    BY QuietFrame
  <1>2. /\ \/ loop'.pc = loop.pc /\ loop'.evt = loop.evt
           \/ loop.pc = "select" /\ loop'.pc = "complete"
           \/ loop.pc = "cancel" /\ loop'.pc = "ended"
        /\ \/ fwd' = fwd
           \/ fwd.pc = "range" /\ fwd'.pc = "close"
           \/ fwd.pc = "close" /\ fwd'.pc = "done"
        /\ Mute => Mute'
        /\ synced' = synced \/ synced' \in closed
    BY QuietMoves
  <1>3. /\ InHand' = InHand /\ Offered' = Offered /\ (Alive' => Alive)
        /\ (loop'.pc = "last" => loop.pc = "last" /\ loop'.evt = loop.evt)
    BY <1>2 DEF InHand, Offered, Alive
  <1>4. Forwarding' = Forwarding /\ Upstream' = Upstream
    BY <1>1, <1>2 DEF Forwarding, Upstream
  <1>5. Delivered' = Delivered /\ \A f : Kept(f)' = Kept(f)
    BY <1>1 DEF Delivered, Kept
  <1>6. PipelineOrder' /\ Origin'
    BY <1>1, <1>3, <1>4, <1>5 DEF EventsInv, PipelineOrder, Origin
  <1>7. StoreOrder' /\ HandedOut'
    BY <1>1, <1>2, <1>3, <1>4, <1>5 DEF EventsInv, StoreOrder, HandedOut
  <1>8. Behind'
    <2>1. Pending' = Pending /\ Stored' = Stored
      BY <1>1 DEF Pending, Stored
    <2>2. Alive' => \A e \in Pending' :
            e \in Upstream' \/ (fwd'.pc \in {"close", "done"} /\ Before(InHand' \cup Range(ach'), {e}))
      BY <1>1, <1>2, <1>3, <1>4, <2>1 DEF EventsInv, Behind
    <2>3. loop'.pc \notin {"cancel", "ended"} => loop.pc \notin {"cancel", "ended"}
      BY <1>2
    <2>4. loop'.pc \notin {"cancel", "ended"} =>
            \A e \in Pending' : synced' < e.n /\ \A c \in closed' : c < e.n
      BY <1>1, <1>2, <2>1, <2>3 DEF EventsInv, Behind
    <2>5. Before(Stored', Pending')
      BY <2>1 DEF EventsInv, Behind
    <2> QED BY <2>2, <2>4, <2>5 DEF Behind
  <1> QED BY <1>6, <1>7, <1>8 DEF EventsInv

\* No event has been created yet.
LEMMA EventsInit == Init => EventsInv
  <1> SUFFICES ASSUME Init PROVE EventsInv
    OBVIOUS
  <1>1. /\ fch = <<>> /\ ach = <<>> /\ out = <<>> /\ session = <<>> /\ got = <<>> /\ sent = <<>>
        /\ fwd.pc = "range" /\ loop.pc = "select" /\ dropped = {}
    BY DEF Init
  <1>2. Delivered = <<>>
    BY <1>1 DEF Delivered
  <1>3. DOMAIN << >> = {} /\ Range(<<>>) = {}
    BY DEF Range
  <1>4. InHand = {} /\ Offered = {} /\ Forwarding = {} /\ Upstream = {}
    BY <1>1, <1>3 DEF InHand, Offered, Forwarding, Upstream
  <1>5. Pending = {} /\ Stored = {}
    BY <1>1, <1>3 DEF Pending, Stored
  <1>6. PipelineOrder
    BY <1>1, <1>2, <1>3, <1>4 DEF PipelineOrder, Ascending, Before
  <1>7. Origin /\ StoreOrder /\ HandedOut
    BY <1>1, <1>2, <1>3, <1>4 DEF Origin, StoreOrder, HandedOut, InOrder, Before
  <1> QED BY <1>4, <1>5, <1>6, <1>7 DEF EventsInv, Behind, Before

\* Where the events are is inductive.
LEMMA EventsNext == RunnerTypeOK /\ EventsInv /\ [Next]_vars => EventsInv'
  BY Steps, EmitEvents, ChildEvents, ReceiveEvents, ForwardEvents, StoreEvents, PanicEvents,
     NotifyEvents, EmitProcessedEvents, CompletionEvents, CompletionPanicsEvents, ReadEvents,
     QuietEvents

-----------------------------------------------------------------------------
(* Tool calls and their results.                                           *)

\* What the steps that emit do to the flow: a call is made when none is open; an error or
\* a result that is refused leaves the flow on its way out.
LEMMA EmitMoves ==
  ASSUME RunnerTypeOK, NEW kind, Emits(kind)
  PROVE  /\ kind \notin {"result", "error"} => ~MayBeOpen
         /\ kind = "call" => MayBeOpen'
         /\ MayBeOpen /\ sent' = sent => MayBeOpen'
  <1>1. flow \in FlowRecords
    BY DEF RunnerTypeOK, FlowOK, FlowRecords
  <1>2. ctx' = ctx /\ (sent' = sent => Done)
    <2>1. sent' = sent => Done
      <3>1. sent' = Append(sent, [n |-> n + 1, kind |-> kind]) => sent' # sent
        <4>1. n + 1 \in Nat
          BY DEF RunnerTypeOK, SeqsOK
        <4>2. Len(sent) \in Nat /\ Len(Append(sent, [n |-> n + 1, kind |-> kind])) = Len(sent) + 1
          BY DEF RunnerTypeOK, SeqsOK
        <4> QED BY <4>2
      <3> QED BY <3>1, EmitsEvent
    <2> QED BY <2>1, EmitsEvent
  <1>3. CASE kind \in {"start", "user", "final"}
    BY <1>3 DEF Emits, EmitStart, EmitUser, Answer, MayBeOpen
  <1>4. CASE kind = "call"
    <2>1. flow.pc = "model" /\ flow' = [flow EXCEPT !.pc = IF Done THEN "exit" ELSE "tool", !.tools = @ + 1]
      BY <1>4 DEF Emits, CallTool
    <2>2. flow'.pc = IF Done THEN "exit" ELSE "tool"
      BY <1>1, <2>1 DEF FlowRecords
    <2> QED BY <1>2, <1>4, <2>1, <2>2 DEF MayBeOpen, Done
  <1>5. CASE kind = "error"
    <2>1. CASE ModelFails
      BY <1>5, <2>1 DEF ModelFails, MayBeOpen
    <2>2. CASE ToolFails
      <3>1. Done => flow' = [flow EXCEPT !.pc = "exit"]
        BY <2>2 DEF ToolFails, Goto
      <3>2. Done => flow'.pc = "exit"
        BY <1>1, <3>1 DEF FlowRecords
      <3> QED BY <1>2, <1>5, <3>2 DEF MayBeOpen, Done
    <2> QED BY <1>5, <2>1, <2>2 DEF Emits
  <1>6. CASE kind = "result"
    <2>1. Done => \E pc \in {"resultwait", "exit"} : flow' = [flow EXCEPT !.pc = pc, !.wait = n']
      BY <1>6 DEF Emits, EmitResult, AfterResult
    <2>2. Done => flow'.pc \in {"resultwait", "exit"}
      BY <1>1, <2>1 DEF FlowRecords
    <2> QED BY <1>2, <1>6, <2>2 DEF MayBeOpen, Done
  <1> QED BY <1>3, <1>4, <1>5, <1>6 DEF Emits

\* The other steps send nothing, and leave a flow whose call may be open where it may be.
LEMMA OtherMoves ==
  ASSUME RunnerTypeOK, [Next]_vars, ~\E kind \in AgentKinds : Emits(kind)
  PROVE  sent' = sent /\ (MayBeOpen => MayBeOpen')
  <1>1. flow \in FlowRecords /\ (flow.pc = "done" <=> fclosed)
    BY DEF RunnerTypeOK, FlowOK, FlowRecords
  <1>2. CASE \/ Receive \/ Forward \/ Store \/ LoopPanics \/ NotifyCompletion \/ EmitProcessed
             \/ StoreCompletion \/ CompletionPanics \/ EmitCompletion \/ Teardown \/ Read
    BY <1>2 DEF Receive, Forward, Store, LoopPanics, NotifyCompletion, EmitProcessed,
       StoreCompletion, CompletionPanics, EmitCompletion, Teardown, Read, context, history, MayBeOpen, Done
  <1>3. CASE AppendChild
    <2>1. flow'.pc = "result" /\ sent' = sent
      BY <1>1, <1>3 DEF AppendChild, Goto, FlowRecords, history
    <2> QED BY <2>1 DEF MayBeOpen
  <1>4. CASE Quiet
    <2>1. sent' = sent
      BY <1>4, QuietFrame
    <2>2. CASE \/ Ack \/ ForwarderEnds \/ CloseAgentChannel \/ LoopReturns \/ Steer \/ UNCHANGED vars
      BY <2>1, <2>2 DEF Ack, ForwarderEnds, CloseAgentChannel, LoopReturns, Steer, vars, context,
         MayBeOpen, Done
    <2>3. CASE LoopEnds \/ Cancel
      <3>1. flow' = flow /\ (Done => Done')
        BY <2>3 DEF LoopEnds, Cancel, EndContext, Done
      <3> QED BY <2>1, <3>1 DEF MayBeOpen
    <2>4. CASE Drain \/ NextAgent
      <3>1. ~MayBeOpen
        BY <1>1, <2>4 DEF Drain, NextAgent, MayBeOpen
      <3> QED BY <2>1, <3>1
    <2>5. CASE RunTool \/ FlushDetached \/ TakeFlush \/ FlushReturns
      <3>1. flow'.pc \in {"result", "flush", "child", "flushwait"}
        BY <1>1, <2>5 DEF RunTool, FlushDetached, TakeFlush, FlushReturns, Goto, FlowRecords
      <3> QED BY <2>1, <3>1 DEF MayBeOpen
    <2>6. CASE FlowExit
      <3>1. flow.pc = "exit" /\ flow'.pc = "done" /\ ctx' = ctx
        BY <1>1, <2>6 DEF FlowExit, Goto, FlowRecords, context
      <3> QED BY <2>1, <3>1 DEF MayBeOpen, Done
    <2>7. CASE Woken \/ WaitTimesOut \/ WaitCancelled
      <3>1. Waiting /\ ctx' = ctx
        BY <2>7 DEF Woken, WaitTimesOut, WaitCancelled, context
      <3>2. CASE flow.pc = "resultwait" /\ Done
        <4>1. flow' = [flow EXCEPT !.pc = "exit"]
          BY <2>7, <3>2 DEF Woken, WaitTimesOut, WaitCancelled, AfterWait, AfterResult, Goto
        <4>2. flow'.pc = "exit"
          BY <1>1, <4>1 DEF FlowRecords
        <4> QED BY <2>1, <3>1, <3>2, <4>2 DEF MayBeOpen, Done
      <3>3. CASE ~(flow.pc = "resultwait" /\ Done)
        BY <2>1, <3>1, <3>3 DEF MayBeOpen, Waiting
      <3> QED BY <3>2, <3>3
    <2> QED BY <1>4, <2>2, <2>3, <2>4, <2>5, <2>6, <2>7 DEF Quiet
  <1> QED BY <1>2, <1>3, <1>4, Steps

\* A result or an error answers all calls before it; a queued message is sent when no call
\* is open.
LEMMA CallsNext == RunnerTypeOK /\ CallsAnswered /\ [Next]_vars => CallsAnswered'
  <1> SUFFICES ASSUME RunnerTypeOK, CallsAnswered, [Next]_vars PROVE CallsAnswered'
    OBVIOUS
  <1>1. ASSUME NEW kind \in AgentKinds, Emits(kind) PROVE CallsAnswered'
    <2>1. PICK e : e = [n |-> n + 1, kind |-> kind]
      OBVIOUS
    <2>2. Range(sent') = Range(sent) \cup {e} \/ sent' = sent
      <3>1. n \in Nat /\ n + 1 \in Nat /\ n <= n + 1
        BY DEF RunnerTypeOK, SeqsOK
      <3>2. e \in EventsTo(n + 1)
        BY <2>1, <3>1 DEF EventsTo, Kinds, AgentKinds
      <3>3. sent \in Seq(EventsTo(n + 1))
        BY <3>1, EventsGrow DEF RunnerTypeOK, SeqsOK
      <3>4. Range(Append(sent, e)) = Range(sent) \cup {e}
        BY <3>2, <3>3, AppendElements
      <3> QED BY <1>1, <2>1, <3>4, EmitsEvent
    <2>3. e.kind = kind /\ \A c \in Range(sent) : c.n < e.n /\ ~(e.n < c.n)
      BY <2>1, Views
    <2>4. /\ kind \notin {"result", "error"} => ~MayBeOpen
          /\ kind = "call" => MayBeOpen'
          /\ MayBeOpen /\ sent' = sent => MayBeOpen'
      BY <1>1, EmitMoves
    <2>5. CASE sent' = sent
      BY <2>4, <2>5 DEF CallsAnswered
    <2>6. CASE Range(sent') = Range(sent) \cup {e}
      <3>1. \A c \in Range(sent) : c.kind = "call" => \E f \in Range(sent') : Answers(f) /\ c.n < f.n
        BY <2>3, <2>4, <2>6 DEF CallsAnswered, Answers
      <3>2. \A c \in Range(sent') :
              c.kind = "call" => MayBeOpen' \/ \E f \in Range(sent') : Answers(f) /\ c.n < f.n
        BY <2>3, <2>4, <2>6, <3>1
      <3>3. ~(e.n < e.n)
        BY <2>1, Views
      <3>4. ASSUME NEW c \in Range(sent'), NEW u \in Range(sent'),
                   c.kind = "call", u.kind = "user", c.n < u.n
            PROVE  \E f \in Range(sent') : Answers(f) /\ c.n < f.n /\ f.n < u.n
        <4>1. CASE u = e
          <5>1. c \in Range(sent) /\ ~MayBeOpen
            BY <2>3, <2>4, <2>6, <3>3, <3>4, <4>1
          <5> QED BY <2>3, <2>6, <3>4, <4>1, <5>1 DEF CallsAnswered
        <4>2. CASE u # e
          <5>1. u \in Range(sent) /\ c \in Range(sent)
            BY <2>3, <2>6, <3>4, <4>2
          <5> QED BY <2>6, <3>4, <5>1 DEF CallsAnswered
        <4> QED BY <4>1, <4>2
      <3> QED BY <3>2, <3>4 DEF CallsAnswered
    <2> QED BY <2>2, <2>5, <2>6
  <1>2. CASE ~\E kind \in AgentKinds : Emits(kind)
    BY <1>2, OtherMoves DEF CallsAnswered
  <1> QED BY <1>1, <1>2

-----------------------------------------------------------------------------
(* The completion event.                                                   *)

EndPcs == {"teardown", "cancel", "ended"}

\* The loop comes to its end only after the completion event was handed out, or with a
\* context that is done.
LEMMA LastWordNext ==
  RunnerTypeOK /\ Origin /\ LastWord /\ [Next]_vars => LastWord'
  <1> SUFFICES ASSUME RunnerTypeOK, Origin, LastWord, [Next]_vars PROVE LastWord'
    OBVIOUS
  <1>1. /\ loop \in [pc : LoopPcs, evt : EventsTo(n) \cup {NoEvent}, flush : BOOLEAN]
        /\ ctx \in {"ok", "done", "released"}
    BY DEF RunnerTypeOK, LoopOK
  <1>2. ASSUME NEW kind \in AgentKinds, Emits(kind) PROVE LastWord'
    BY <1>2, EmitsEvent DEF LastWord, Completed, Delivered
  <1>3. CASE AppendChild \/ Receive \/ Forward
    BY <1>3 DEF AppendChild, Receive, Forward, context, chans, history, LastWord,
       Completed, Delivered
  <1>4. CASE Store \/ LoopPanics \/ NotifyCompletion \/ EmitProcessed \/ StoreCompletion
    <2>1. /\ loop.pc \notin EndPcs /\ UNCHANGED <<ctx, oclosed>>
      BY <1>4 DEF Store, LoopPanics, NotifyCompletion, EmitProcessed, StoreCompletion, context,
         chans, EndPcs
    <2>2. loop'.pc \notin EndPcs
      <3>1. CASE EmitProcessed
        <4>1. \/ loop' = [loop EXCEPT !.pc = "select", !.evt = NoEvent]
              \/ loop' = [pc |-> "select", evt |-> NoEvent, flush |-> FALSE]
              \/ loop' = [loop EXCEPT !.pc = "complete", !.evt = NoEvent]
          BY <3>1 DEF EmitProcessed
        <4>2. CASE loop' = [pc |-> "select", evt |-> NoEvent, flush |-> FALSE]
          BY <4>2 DEF EndPcs
        <4>3. CASE loop' = [loop EXCEPT !.pc = "select", !.evt = NoEvent]
          BY <1>1, <4>3 DEF EndPcs
        <4>4. CASE loop' = [loop EXCEPT !.pc = "complete", !.evt = NoEvent]
          BY <1>1, <4>4 DEF EndPcs
        <4> QED BY <4>1, <4>2, <4>3, <4>4
      <3>2. CASE Store \/ NotifyCompletion \/ StoreCompletion
        BY <1>1, <3>2 DEF Store, NotifyCompletion, StoreCompletion, EndPcs
      <3>3. CASE LoopPanics
        BY <3>3 DEF LoopPanics, EndPcs
      <3> QED BY <1>4, <3>1, <3>2, <3>3
    <2> QED BY <2>1, <2>2 DEF LastWord, EndPcs
  <1>5. CASE EmitCompletion
    <2>1. loop.pc = "last" /\ loop'.pc = "teardown" /\ UNCHANGED <<ctx, oclosed, got>>
      BY <1>1, <1>5 DEF EmitCompletion
    <2>2. ctx # "released" /\ ~oclosed
      BY <2>1 DEF LastWord
    <2>3. ctx = "ok" => out' = Append(out, loop.evt)
      BY <1>5 DEF EmitCompletion, Sends, Refused, Done
    <2>4. loop.evt.kind = "completion" /\ loop.evt \in EventsTo(n)
      BY <2>1 DEF Origin, RunnerTypeOK, LoopOK
    <2>5. ctx = "ok" => Delivered' = Append(Delivered, loop.evt)
      <3>1. got \o Append(out, loop.evt) = Append(got \o out, loop.evt)
        BY <2>4, HandOut DEF RunnerTypeOK, SeqsOK
      <3> QED BY <2>1, <2>3, <3>1 DEF Delivered
    <2>6. ctx = "ok" => Completed'
      <3>1. /\ Len(Append(Delivered, loop.evt)) = Len(Delivered) + 1 /\ Len(Delivered) \in Nat
            /\ Append(Delivered, loop.evt)[Len(Delivered) + 1] = loop.evt
        BY <2>4, Views, AppendElements
      <3> QED BY <2>4, <2>5, <3>1 DEF Completed
    <2> QED BY <1>1, <2>1, <2>2, <2>6 DEF LastWord
  <1>6. CASE Teardown
    <2>1. loop.pc = "teardown" /\ loop'.pc = "cancel" /\ UNCHANGED <<ctx, got, out>>
      BY <1>1, <1>6 DEF Teardown, context
    <2>2. dropped' = dropped
      BY <1>6 DEF Teardown, history
    <2> QED BY <2>1, <2>2 DEF LastWord, Completed, Delivered
  <1>7. CASE Read
    <2>1. out # <<>> /\ Delivered' = Append(got, Head(out)) \o Tail(out) /\ UNCHANGED <<ctx, oclosed, loop>>
      BY <1>7 DEF Read, Delivered, context
    <2>2. Delivered' = Delivered
      BY <2>1, ReadOne DEF RunnerTypeOK, SeqsOK, Delivered
    <2>3. dropped' = dropped
      BY <1>7 DEF Read, history
    <2> QED BY <2>1, <2>2, <2>3 DEF LastWord, Completed
  <1>8. CASE Quiet
    <2>1. Completed' = Completed
      BY <1>8, QuietFrame DEF Completed, Delivered
    <2>2. CASE Cancel
      <3>1. ctx = "ok" /\ ctx' = "done" /\ UNCHANGED <<loop, oclosed>>
        BY <2>2 DEF Cancel, EndContext, chans
      <3> QED BY <2>1, <3>1 DEF LastWord
    <2>3. CASE LoopEnds
      <3>1. /\ loop.pc = "cancel" /\ loop'.pc = "ended" /\ oclosed' = oclosed
            /\ ctx' = ctx \/ (ctx = "ok" /\ ctx' = "released")
        BY <1>1, <2>3 DEF LoopEnds, EndContext, Done, chans
      <3> QED BY <2>1, <3>1 DEF LastWord
    <2>4. CASE \/ Drain \/ RunTool \/ FlowExit \/ Woken \/ WaitTimesOut \/ WaitCancelled
               \/ FlushDetached \/ FlushReturns \/ NextAgent \/ ForwarderEnds \/ CloseAgentChannel
               \/ Steer \/ UNCHANGED vars
      <3>1. UNCHANGED <<ctx, oclosed, loop>>
        BY <2>4 DEF Drain, RunTool, FlowExit, Woken, WaitTimesOut, WaitCancelled, FlushDetached,
           FlushReturns, NextAgent, ForwarderEnds, CloseAgentChannel, Steer, vars, context, chans
      <3> QED BY <2>1, <3>1 DEF LastWord
    <2>5. CASE TakeFlush \/ Ack \/ LoopReturns
      <3>1. loop.pc = "select" /\ loop'.pc \in {"select", "complete"} /\ UNCHANGED <<ctx, oclosed>>
        BY <1>1, <2>5 DEF TakeFlush, Ack, LoopReturns, context, chans
      <3> QED BY <2>1, <3>1 DEF LastWord
    <2> QED BY <1>8, <2>2, <2>3, <2>4, <2>5 DEF Quiet
  <1>9. CASE CompletionPanics
    <2>1. /\ loop.pc = "complete" /\ loop'.pc = "teardown" /\ UNCHANGED <<ctx, oclosed>>
          /\ \E e \in dropped' : e.kind = "completion"
      BY <1>1, <1>9 DEF CompletionPanics, context, chans
    <2> QED BY <2>1 DEF LastWord, Completed
  <1> QED BY <1>2, <1>3, <1>4, <1>5, <1>6, <1>7, <1>8, <1>9, Steps

-----------------------------------------------------------------------------
(* The invariant, and what it implies.                                     *)

\* The run starts with it.
LEMMA RunnerInit == Init => RunnerInv
  <1> SUFFICES ASSUME Init PROVE RunnerInv
    OBVIOUS
  <1>1. RunnerTypeOK /\ EventsInv
    BY TypesInit, EventsInit
  <1>2. CallsAnswered
    <2>1. Range(sent) = {}
      BY DEF Init, Range
    <2> QED BY <2>1 DEF CallsAnswered
  <1>3. LastWord
    BY DEF Init, LastWord
  <1> QED BY <1>1, <1>2, <1>3 DEF RunnerInv

\* It is inductive.
LEMMA RunnerNext == RunnerInv /\ [Next]_vars => RunnerInv'
  BY TypesNext, EventsNext, CallsNext, LastWordNext DEF RunnerInv, EventsInv

\* So it holds of every reachable state.
LEMMA RunnerInvAlways == Spec => []RunnerInv
  BY RunnerInit, RunnerNext, PTL DEF Spec

\* A flow that was woken by the notice of an event finds everything the agents sent up to
\* it in the session, unless the append failed: what is pending is behind every notice.
THEOREM WokenMeansStoredAlways == Spec => []WokenMeansStored
  <1>1. RunnerInv => WokenMeansStored
    <2> SUFFICES ASSUME RunnerInv, loop.pc \notin {"cancel", "ended"},
                        NEW e \in Range(sent), e.n <= synced, Persistent(e),
                        e.n \notin Numbers(session) \cup failed
                 PROVE  FALSE
      BY DEF WokenMeansStored
    <2>1. e \in Pending
      BY DEF Pending
    <2>2. synced < e.n
      BY <2>1 DEF RunnerInv, EventsInv, Behind
    <2>3. e.n \in Nat /\ synced \in Nat
      BY Views DEF RunnerInv, RunnerTypeOK, FlowOK
    <2> QED BY <2>2, <2>3
  <1> QED BY <1>1, RunnerInvAlways, PTL

\* The session has the agents' events in the order they were created, and a queued message
\* never between a tool call and its result.
THEOREM SessionInOrderAlways == Spec => []SessionInOrder
  <1>1. RunnerInv => SessionInOrder
    <2> SUFFICES ASSUME RunnerInv, NEW i \in DOMAIN session, NEW j \in DOMAIN session,
                        i < j, Kept(session[i]), Kept(session[j])
                 PROVE  /\ session[i].n < session[j].n
                        /\ session[i].kind = "call" /\ session[j].kind = "user" =>
                             \E e \in Range(sent) :
                               /\ e.kind \in {"result", "error"}
                               /\ session[i].n < e.n /\ e.n < session[j].n
                               /\ e.n \in Numbers(session) \cup failed
      BY DEF SessionInOrder
    <2>1. session[i].n < session[j].n
      BY DEF RunnerInv, EventsInv, StoreOrder, InOrder, Kept
    <2>2. ASSUME session[i].kind = "call", session[j].kind = "user"
          PROVE  \E e \in Range(sent) :
                   /\ e.kind \in {"result", "error"}
                   /\ session[i].n < e.n /\ e.n < session[j].n
                   /\ e.n \in Numbers(session) \cup failed
      <3>1. session[i] \in Range(session) /\ session[j] \in Range(session)
        BY DEF Range
      <3>2. session[i] \in Range(sent) /\ session[j] \in Range(sent)
        BY <2>2, <3>1 DEF RunnerInv, EventsInv, Origin
      <3>3. PICK e \in Range(sent) :
              Answers(e) /\ session[i].n < e.n /\ e.n < session[j].n
        BY <2>1, <2>2, <3>2 DEF RunnerInv, CallsAnswered
      <3>4. session[j] \in Stored
        BY <2>2, <3>1 DEF Stored
      <3>5. ~(session[j].n < e.n)
        BY <3>2, <3>3, Views DEF RunnerInv
      <3>6. e \notin Pending
        BY <3>4, <3>5 DEF RunnerInv, EventsInv, Behind, Before
      <3>7. e.n \in Numbers(session) \cup failed
        BY <3>3, <3>6 DEF Pending, Persistent, Answers
      <3> QED BY <3>3, <3>7 DEF Answers
    <2> QED BY <2>1, <2>2
  <1> QED BY <1>1, RunnerInvAlways, PTL

\* The caller is given what the session holds, in the same order and without gaps, up to the
\* first event whose handling panicked; nothing but the completion event, which need not be
\* stored, comes after it.
THEOREM OutputStoredAlways == Spec => []OutputStored
  <1>1. RunnerInv => OutputStored
    BY DEF RunnerInv, EventsInv, PipelineOrder, Ascending, HandedOut, OutputStored
  <1> QED BY <1>1, RunnerInvAlways, PTL

\* A run that nobody cancelled ends its channel with the completion event, unless the
\* handling of that event panicked.
THEOREM CompletionDeliveredAlways == Spec => []CompletionDelivered
  <1>1. RunnerInv => CompletionDelivered
    BY DEF RunnerInv, LastWord, Completed, CompletionDelivered, Last
  <1> QED BY <1>1, RunnerInvAlways, PTL
=============================================================================
