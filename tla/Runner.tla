------------------------------- MODULE Runner -------------------------------
(***************************************************************************)
(* One run of runner.Run, from the agent that emits events to the caller   *)
(* that reads them:                                                        *)
(*                                                                         *)
(*   flow --fch--> forwarder --ach--> runner loop --out--> consumer        *)
(*                                                                         *)
(* The flow is the LLM loop of internal/flow/llmflow/llmflow.go, with its  *)
(* tools.  The forwarder is the goroutine that every agent puts between    *)
(* its flow and the runner: wrapEventChannelWithTelemetry of an LLM agent  *)
(* (root = "llm"), or executeSubAgents of a chain agent, which runs one    *)
(* flow after another (root = "chain"; the wrapper of each sub-agent,      *)
(* which forwards in the same way, is part of fch).  The runner loop       *)
(* stores each event in the session, wakes whoever waits for it, answers   *)
(* flush requests and passes the event on.                                 *)
(*                                                                         *)
(* Events are [n, kind]: n numbers them in the order they are created.     *)
(* The model, the tools and the caller are external; MaxTools, MaxSteers   *)
(* and MaxFaults bound what they do.                                       *)
(***************************************************************************)
EXTENDS Integers, Sequences, SequencesExt, FiniteSets

CONSTANTS
  Buffer,     \* capacity of the event channels
  MaxAgents,  \* sub-agents of the chain
  MaxTools,   \* bound: tool calls of the run
  MaxSteers,  \* bound: messages the caller queues
  MaxFaults   \* bound: failed appends, panics of the loop, waits that time out and
              \* cancellations, together

ASSUME RunnerAssumption ==
  /\ Buffer \in Nat \ {0} /\ MaxAgents \in Nat \ {0}
  /\ MaxTools \in Nat /\ MaxSteers \in Nat /\ MaxFaults \in Nat

VARIABLES
  root,       \* the agent of the run: "llm" or "chain"
  ctx,        \* execCtx: "ok", "done" (cancelled or expired), "released" by the loop's end
  committed,  \* goroutines that were past EmitEvent's check of ctx when it was done
  flow,       \* [pc, agent, wait, batch, tools]: the flow goroutine of the current agent
  n,          \* events created so far
  fch, fclosed, ach, aclosed, out, oclosed,   \* the channels, and whether each is closed
  fwd,        \* the forwarder: "range", "done", or the event it is about to emit
  loop,       \* [pc, evt, flush]: the event loop; flush: inside handleFlushRequest
  ack,        \* the flush request of the flow: "none", "open", "closed"
  attached,   \* the flusher and the appender are attached to the invocation
  closed,     \* closed notice channels, by event number
  session,    \* events of the session
  failed,     \* numbers of events the session service did not append
  faults,     \* faults so far
  queue, qclosed, steered,    \* steer.Queue and how many messages it accepted
  got,            \* events the caller has read
  sent,           \* history: what the flows put on fch
  synced,         \* history: the event whose notice woke the flow last
  dropped         \* history: the events whose handling panicked

context == <<root, ctx, committed>>
chans == <<fch, fclosed, ach, aclosed, out, oclosed>>
store == <<session, failed, faults>>
steer == <<queue, qclosed, steered>>
history == <<sent, synced, dropped>>
vars == <<context, flow, n, chans, fwd, loop, ack, attached, closed, store, steer, got,
          history>>

NoEvent == [n |-> 0, kind |-> "none"]

\* The channels and goroutines runner.Run leaves behind when it returns the channel.
Init ==
  /\ root \in {"llm", "chain"} /\ ctx = "ok" /\ committed = {}
  /\ flow = [pc |-> "start", agent |-> 1, wait |-> 0, batch |-> 0, tools |-> 0]
  /\ n = 0
  /\ fch = <<>> /\ ach = <<>> /\ out = <<>>
  /\ fclosed = FALSE /\ aclosed = FALSE /\ oclosed = FALSE
  /\ fwd = [pc |-> "range", evt |-> NoEvent]
  /\ loop = [pc |-> "select", evt |-> NoEvent, flush |-> FALSE]
  /\ ack = "none" /\ attached = TRUE /\ closed = {}
  /\ session = <<>> /\ failed = {} /\ faults = 0
  /\ queue = 0 /\ qclosed = FALSE /\ steered = 0
  /\ got = <<>>
  /\ sent = <<>> /\ synced = 0 /\ dropped = {}

Agents == IF root = "chain" THEN MaxAgents ELSE 1
Done == ctx # "ok"

Fault == faults < MaxFaults /\ faults' = faults + 1

\* shouldPersistEvent: all but the empty start event.
Persistent(e) == e.kind # "start"
\* RequiresCompletion.
AwaitsNotice(e) == e.kind \in {"start", "user", "result"}

-----------------------------------------------------------------------------
(* EmitEvent of event/event.go: refused at once when the context is done;  *)
(* otherwise a send that blocks while the channel is full, and that may    *)
(* win or lose its select once the context is done.                        *)

Sends(p, ch, e, chNext) ==
  /\ ~Done \/ p \in committed
  /\ Len(ch) < Buffer /\ chNext = Append(ch, e)
  /\ committed' = committed \ {p}

Refused(p) == Done /\ committed' = committed \ {p}

\* The context ends: goroutines that are about to emit may be past the check.
EndContext(why) ==
  /\ ctx' = why
  /\ \E c \in SUBSET ((IF flow.pc \in {"start", "user", "model", "tool", "result"}
                        THEN {"flow"} ELSE {})
                      \cup (IF fwd.pc = "emit" THEN {"forwarder"} ELSE {})
                      \cup (IF loop.pc \in {"emit", "last"} THEN {"loop"} ELSE {})) :
       committed' = c

-----------------------------------------------------------------------------
(* The flow.                                                               *)

Goto(pc) == flow' = [flow EXCEPT !.pc = pc]

Emit(kind) ==
  /\ n' = n + 1
  /\ \/ /\ Sends("flow", fch, [n |-> n', kind |-> kind], fch')
        /\ sent' = Append(sent, [n |-> n', kind |-> kind])
     \/ Refused("flow") /\ UNCHANGED <<fch, sent>>
  /\ UNCHANGED <<root, ctx, fclosed, ach, aclosed, out, oclosed, fwd, loop, ack,
                 attached, closed, store, steer, got, synced, dropped>>

Emitted == fch' # fch

\* emitStartEventAndWait: the error of the emit is ignored.
EmitStart ==
  /\ flow.pc = "start"
  /\ Emit("start")
  /\ flow' = [flow EXCEPT !.pc = "startwait", !.wait = n']

\* maybeConsumeQueuedUserMessages: one drain of the queue, then a message at a time.
Drain ==
  /\ flow.pc = "drain"
  /\ flow' = [flow EXCEPT !.batch = queue, !.pc = IF queue = 0 THEN "model" ELSE "user"]
  /\ queue' = 0
  /\ UNCHANGED <<context, n, chans, fwd, loop, ack, attached, closed, store, qclosed,
                 steered, got, history>>

EmitUser ==
  /\ flow.pc = "user"
  /\ Emit("user")
  /\ flow' = [flow EXCEPT !.pc = IF Emitted THEN "userwait" ELSE "exit",
                          !.wait = n', !.batch = @ - 1]

\* runOneStep: the answer of the model, an error of the call, or a cancelled call.
Answer ==
  /\ flow.pc = "model"
  /\ Emit("final")
  /\ Goto("exit")

CallTool ==
  /\ flow.pc = "model" /\ flow.tools < MaxTools
  /\ Emit("call")
  /\ flow' = [flow EXCEPT !.pc = IF Done THEN "exit" ELSE "tool", !.tools = @ + 1]

ModelFails ==
  /\ flow.pc = "model"
  /\ Emit("error")
  /\ Goto("exit")

\* Mutant: queued messages are drained before the result.
RunToolLetsUserIn ==
  /\ flow.pc = "tool"
  /\ \E pc \in {"result", "flush", "drain"} : Goto(pc)
  /\ UNCHANGED <<context, n, chans, fwd, loop, ack, attached, closed, store, steer, got,
                 history>>

\* handleFunctionCallsAndSendEvent: a tool, an agent tool that flushes the session
\* first, or a tool whose error is emitted and may leave the flow running.
RunTool ==
  /\ flow.pc = "tool"
  /\ \E pc \in {"result", "flush"} : Goto(pc)
  /\ committed' = committed \ {"flow"}
  /\ UNCHANGED <<root, ctx, n, chans, fwd, loop, ack, attached, closed, store, steer, got,
                 history>>

ToolFails ==
  /\ flow.pc = "tool"
  /\ Emit("error")
  /\ \E stop \in BOOLEAN : Goto(IF stop \/ Done THEN "exit" ELSE "start")

\* Where the flow goes on after a tool result, which may set EndInvocation.
AfterResult == IF Done THEN {"exit"} ELSE {"start", "exit"}

EmitResult ==
  /\ flow.pc = "result"
  /\ Emit("result")
  /\ \E pc \in IF attached THEN {"resultwait"} ELSE AfterResult :
       flow' = [flow EXCEPT !.pc = pc, !.wait = n']

\* callWithParentInvocation after the flush: the child agent's event goes straight to
\* the session, through the appender or, when that is gone, without it.
AppendChild ==
  /\ flow.pc = "child"
  /\ n' = n + 1
  /\ session' = Append(session, [n |-> n', kind |-> "child"])
  /\ Goto("result")
  /\ UNCHANGED <<context, chans, fwd, loop, ack, attached, closed, failed, faults,
                 steer, got, history>>

\* The deferred calls of Flow.Run.  A sub-agent's clone does not have the queue.
FlowExit ==
  /\ flow.pc = "exit"
  /\ Goto("done")
  /\ fclosed' = TRUE
  /\ qclosed' = (qclosed \/ root = "llm")
  /\ UNCHANGED <<context, n, fch, ach, aclosed, out, oclosed, fwd, loop, ack, attached,
                 closed, store, queue, steered, got, history>>

-----------------------------------------------------------------------------
(* Notices: AddNoticeChannelAndWait.                                       *)

AfterWait ==
  CASE flow.pc = "startwait"  -> {"drain"}
    [] flow.pc = "userwait"   -> {IF flow.batch > 0 THEN "user" ELSE "model"}
    [] flow.pc = "resultwait" -> AfterResult

Waiting == flow.pc \in {"startwait", "userwait", "resultwait"}

\* The notice channel is closed, by NotifyCompletion or by CleanupNotice.
Woken ==
  /\ Waiting /\ flow.wait \in closed
  /\ \E pc \in AfterWait : Goto(pc)
  /\ synced' = flow.wait
  /\ UNCHANGED <<context, n, chans, fwd, loop, ack, attached, closed, store, steer, got,
                 sent, dropped>>

\* The timer fires: the flow goes on without the event.
WaitTimesOut ==
  /\ Waiting /\ Fault
  /\ \E pc \in AfterWait : Goto(pc)
  /\ UNCHANGED <<context, n, chans, fwd, loop, ack, attached, closed, session, failed,
                 steer, got, history>>

\* The context is done.  emitStartEventAndWait goes on when the deadline has passed: it
\* only looks for context.Canceled.
WaitCancelled ==
  /\ Waiting /\ Done
  /\ \/ Goto("exit")
     \/ flow.pc = "startwait" /\ ctx = "done" /\ Goto("drain")
  /\ UNCHANGED <<context, n, chans, fwd, loop, ack, attached, closed, store, steer, got,
                 history>>

-----------------------------------------------------------------------------
(* Flush: Invoke of internal/state/flush/flush.go and the loop's side.     *)

\* The flusher was cleared: Invoke returns at once.
FlushDetached ==
  /\ flow.pc = "flush" /\ ~attached
  /\ Goto("child")
  /\ UNCHANGED <<context, n, chans, fwd, loop, ack, attached, closed, store, steer, got,
                 history>>

\* The request is taken by the loop's select: the channel has no buffer.
TakeFlush ==
  /\ flow.pc = "flush" /\ attached /\ loop.pc = "select" /\ ~loop.flush
  /\ Goto("flushwait") /\ ack' = "open"
  /\ loop' = [loop EXCEPT !.flush = TRUE]
  /\ UNCHANGED <<context, n, chans, fwd, attached, closed, store, steer, got, history>>

\* handleFlushRequest: nothing is buffered, or the context is done.
Ack ==
  /\ loop.flush /\ loop.pc = "select" /\ (ach = <<>> \/ Done)
  /\ ack' = "closed"
  /\ loop' = [loop EXCEPT !.flush = FALSE]
  /\ UNCHANGED <<context, flow, n, chans, fwd, attached, closed, store, steer, got,
                 history>>

FlushReturns ==
  /\ \/ flow.pc = "flushwait" /\ ack = "closed" /\ Goto("child")
     \/ flow.pc \in {"flush", "flushwait"} /\ Done /\ Goto("result")
  /\ UNCHANGED <<context, n, chans, fwd, loop, ack, attached, closed, store, steer, got,
                 history>>

-----------------------------------------------------------------------------
(* The forwarder.                                                          *)

Receive ==
  /\ fwd.pc = "range" /\ fch # <<>>
  /\ fch' = Tail(fch)
  /\ fwd' = [pc |-> "emit", evt |-> Head(fch)]
  /\ UNCHANGED <<context, flow, n, fclosed, ach, aclosed, out, oclosed, loop, ack,
                 attached, closed, store, steer, got, history>>

\* Mutant: an event nobody waits for is dropped when the channel is full.
ForwardOrDrop ==
  /\ fwd.pc = "emit"
  /\ \/ /\ Sends("forwarder", ach, fwd.evt, ach')
        /\ fwd' = [pc |-> "range", evt |-> NoEvent]
     \/ /\ Len(ach) = Buffer /\ ~AwaitsNotice(fwd.evt)
        /\ fwd' = [pc |-> "range", evt |-> NoEvent] /\ UNCHANGED <<ach, committed>>
     \/ /\ Refused("forwarder")
        /\ fwd' = [pc |-> "close", evt |-> NoEvent] /\ UNCHANGED ach
  /\ UNCHANGED <<root, ctx, flow, n, fch, fclosed, aclosed, out, oclosed, loop, ack,
                 attached, closed, store, steer, got, history>>

\* EmitEvent to the runner.  The chain agent returns after an error event; both return,
\* and close the channel, when the emit fails.
Forward ==
  /\ fwd.pc = "emit"
  /\ \/ /\ Sends("forwarder", ach, fwd.evt, ach')
        /\ LET stop == root = "chain" /\ fwd.evt.kind = "error"
           IN  fwd' = [pc |-> IF stop THEN "close" ELSE "range", evt |-> NoEvent]
     \/ /\ Refused("forwarder")
        /\ fwd' = [pc |-> "close", evt |-> NoEvent] /\ UNCHANGED ach
  /\ UNCHANGED <<root, ctx, flow, n, fch, fclosed, aclosed, out, oclosed, loop, ack,
                 attached, closed, store, steer, got, history>>

\* The flow's channel is closed and empty: the chain runs the next sub-agent unless the
\* context is done (its error event is then refused by EmitEvent).
ForwarderEnds ==
  /\ fwd.pc = "range" /\ fclosed /\ fch = <<>> /\ (flow.agent = Agents \/ Done)
  /\ fwd' = [fwd EXCEPT !.pc = "close"]
  /\ UNCHANGED <<context, flow, n, chans, loop, ack, attached, closed, store, steer,
                 got, history>>

NextAgent ==
  /\ fwd.pc = "range" /\ fclosed /\ fch = <<>> /\ flow.agent < Agents /\ ~Done
  /\ flow' = [flow EXCEPT !.pc = "start", !.agent = @ + 1, !.wait = 0]
  /\ fclosed' = FALSE
  /\ UNCHANGED <<context, n, fch, ach, aclosed, out, oclosed, fwd, loop, ack, attached,
                 closed, store, steer, got, history>>

CloseAgentChannel ==
  /\ fwd.pc = "close"
  /\ fwd' = [fwd EXCEPT !.pc = "done"] /\ aclosed' = TRUE
  /\ UNCHANGED <<context, flow, n, fch, fclosed, ach, out, oclosed, loop, ack, attached,
                 closed, store, steer, got, history>>

-----------------------------------------------------------------------------
(* The runner's loop: processSingleAgentEvent, step by step.               *)

\* Mutant: an append is lost without an error.
PersistQuietly(e) ==
  \/ Persistent(e) /\ session' = Append(session, e) /\ UNCHANGED <<failed, faults>>
  \/ Fault /\ UNCHANGED <<session, failed>>
  \/ ~Persistent(e) /\ UNCHANGED store

\* handleEventPersistence.  A failed append is logged, and the event goes on.
Persist(e) ==
  \/ Persistent(e) /\ session' = Append(session, e) /\ UNCHANGED <<failed, faults>>
  \/ Persistent(e) /\ Fault /\ failed' = failed \cup {e.n} /\ UNCHANGED session
  \/ ~Persistent(e) /\ UNCHANGED store

Store ==
  /\ loop.pc = "select" /\ ach # <<>>
  /\ ach' = Tail(ach)
  /\ Persist(Head(ach))
  /\ loop' = [loop EXCEPT !.pc = "notify", !.evt = Head(ach)]
  /\ UNCHANGED <<context, flow, n, fch, fclosed, aclosed, out, oclosed, fwd, ack,
                 attached, closed, steer, got, history>>

\* Mutant: a panic leaves the flush request open.
LoopPanicsUnacknowledged ==
  /\ Fault
  /\ \/ loop.pc = "select" /\ ach # <<>> /\ ach' = Tail(ach) /\ dropped' = dropped \cup {Head(ach)}
     \/ loop.pc = "notify" /\ ach' = ach /\ dropped' = dropped \cup {loop.evt}
  /\ loop' = [pc |-> "complete", evt |-> NoEvent, flush |-> FALSE]
  /\ qclosed' = TRUE
  /\ UNCHANGED <<context, flow, n, fch, fclosed, aclosed, out, oclosed, fwd, ack,
                 attached, closed, session, failed, queue, steered, got, sent, synced>>

\* A panic of a plugin or of the session service, before the append, or after it (in
\* EnqueueSummaryJob, say): the deferred function recovers, the event is not handed out
\* and nobody is told of it.  The acknowledgement of a flush is closed on the way.
LoopPanics ==
  /\ Fault
  /\ \/ loop.pc = "select" /\ ach # <<>> /\ ach' = Tail(ach) /\ dropped' = dropped \cup {Head(ach)}
     \/ loop.pc = "notify" /\ ach' = ach /\ dropped' = dropped \cup {loop.evt}
  /\ loop' = [pc |-> "complete", evt |-> NoEvent, flush |-> FALSE]
  /\ ack' = IF loop.flush THEN "closed" ELSE ack
  /\ qclosed' = TRUE
  /\ UNCHANGED <<context, flow, n, fch, fclosed, aclosed, out, oclosed, fwd, attached,
                 closed, session, failed, queue, steered, got, sent, synced>>

\* NotifyCompletion: closes the channel, which it creates when nobody waits yet.
NotifyCompletion ==
  /\ loop.pc = "notify"
  /\ closed' = IF AwaitsNotice(loop.evt) THEN closed \cup {loop.evt.n} ELSE closed
  /\ loop' = [loop EXCEPT !.pc = "emit"]
  /\ UNCHANGED <<context, flow, n, chans, fwd, ack, attached, store, steer, got, history>>

\* EmitEvent to the caller.  An error ends the loop, but only the drain of a flush.
EmitProcessed ==
  /\ loop.pc = "emit"
  /\ \/ /\ Sends("loop", out, loop.evt, out')
        /\ loop' = [loop EXCEPT !.pc = "select", !.evt = NoEvent]
        /\ UNCHANGED <<ack, qclosed>>
     \/ /\ Refused("loop") /\ loop.flush
        /\ ack' = "closed"
        /\ loop' = [pc |-> "select", evt |-> NoEvent, flush |-> FALSE]
        /\ UNCHANGED <<out, qclosed>>
     \/ /\ Refused("loop") /\ ~loop.flush
        /\ loop' = [loop EXCEPT !.pc = "complete", !.evt = NoEvent] /\ qclosed' = TRUE
        /\ UNCHANGED <<out, ack>>
  /\ UNCHANGED <<root, ctx, flow, n, fch, fclosed, ach, aclosed, oclosed, fwd, attached,
                 closed, store, queue, steered, got, history>>

\* The agent's channel is closed or the context is done: the loop returns, and its
\* deferred function starts with steer.Close.
LoopReturns ==
  /\ loop.pc = "select" /\ ~loop.flush /\ ((aclosed /\ ach = <<>>) \/ Done)
  /\ loop' = [loop EXCEPT !.pc = "complete"] /\ qclosed' = TRUE
  /\ UNCHANGED <<context, flow, n, chans, fwd, ack, attached, closed, store, queue,
                 steered, got, history>>

\* emitRunnerCompletion: append to the session, then emit.  The session keeps an event
\* only if it has content, and the completion event of an agent that is no graph has
\* none, unless a plugin gives it some.
StoreCompletion ==
  /\ loop.pc = "complete"
  /\ n' = n + 1
  /\ Persist([n |-> n', kind |-> "completion"]) \/ UNCHANGED store
  /\ loop' = [loop EXCEPT !.pc = "last", !.evt = [n |-> n', kind |-> "completion"]]
  /\ UNCHANGED <<context, flow, chans, fwd, ack, attached, closed, steer, got, history>>

\* A panic of a plugin or of the session service, again before or after the event is
\* stored: safeEmitRunnerCompletion recovers, and the loop ends without the event.
CompletionPanics ==
  /\ loop.pc = "complete" /\ Fault
  /\ n' = n + 1
  /\ LET e == [n |-> n', kind |-> "completion"]
     IN  session' \in {session, Append(session, e)} /\ dropped' = dropped \cup {e}
  /\ loop' = [loop EXCEPT !.pc = "teardown"]
  /\ UNCHANGED <<context, flow, chans, fwd, ack, attached, closed, failed, steer, got, sent,
                 synced>>

\* Mutant: the completion event is not waited for.
EmitCompletionIfRoom ==
  /\ loop.pc = "last"
  /\ \/ Sends("loop", out, loop.evt, out')
     \/ (Done \/ Len(out) = Buffer) /\ UNCHANGED <<out, committed>>
  /\ loop' = [loop EXCEPT !.pc = "teardown", !.evt = NoEvent]
  /\ UNCHANGED <<root, ctx, flow, n, fch, fclosed, ach, aclosed, oclosed, fwd, ack,
                 attached, closed, store, steer, got, history>>

EmitCompletion ==
  /\ loop.pc = "last"
  /\ \/ Sends("loop", out, loop.evt, out')
     \/ Refused("loop") /\ UNCHANGED out
  /\ loop' = [loop EXCEPT !.pc = "teardown", !.evt = NoEvent]
  /\ UNCHANGED <<root, ctx, flow, n, fch, fclosed, ach, aclosed, oclosed, fwd, ack,
                 attached, closed, store, steer, got, history>>

\* flush.Clear, appender.Clear, steer.Clear, unregisterRun, close(processedEventCh) and
\* CleanupNotice, which wakes whoever waits.  The invocation of an LLM agent gets a new,
\* empty map of notices; the clones of a chain's sub-agents keep the old one.
Teardown ==
  /\ loop.pc = "teardown"
  /\ attached' = FALSE /\ oclosed' = TRUE
  /\ closed' = (IF root = "llm" THEN {} ELSE closed)
               \cup (IF Waiting THEN {flow.wait} ELSE {})
  /\ loop' = [loop EXCEPT !.pc = "cancel"]
  /\ UNCHANGED <<context, flow, n, fch, fclosed, ach, aclosed, out, fwd, ack, store,
                 steer, got, history>>

\* Mutant: the context is not released.
LoopEndsUncancelled ==
  /\ loop.pc = "cancel"
  /\ loop' = [loop EXCEPT !.pc = "ended"]
  /\ UNCHANGED <<context, flow, n, chans, fwd, ack, attached, closed, store, steer, got,
                 history>>

\* runHandle.cancel: what the run left behind is released.
LoopEnds ==
  /\ loop.pc = "cancel"
  /\ IF Done THEN UNCHANGED <<ctx, committed>> ELSE EndContext("released")
  /\ loop' = [loop EXCEPT !.pc = "ended"]
  /\ UNCHANGED <<root, flow, n, chans, fwd, ack, attached, closed, store, steer, got,
                 history>>

-----------------------------------------------------------------------------
(* The caller.                                                             *)

Read ==
  /\ out # <<>>
  /\ got' = Append(got, Head(out)) /\ out' = Tail(out)
  /\ UNCHANGED <<context, flow, n, fch, fclosed, ach, aclosed, oclosed, fwd, loop, ack,
                 attached, closed, store, steer, history>>

\* Cancel, Close, the caller's context, or MaxRunDuration.
Cancel ==
  /\ ctx = "ok" /\ loop.pc # "ended" /\ Fault
  /\ EndContext("done")
  /\ UNCHANGED <<root, flow, n, chans, fwd, loop, ack, attached, closed, session,
                 failed, steer, got, history>>

\* EnqueueUserMessage on a registered run whose queue is open.  The queue of a chain is
\* open too, but no flow of a chain has it: there the messages would stay where they are.
Steer ==
  /\ steered < MaxSteers /\ ~qclosed /\ attached /\ root = "llm"
  /\ queue' = queue + 1 /\ steered' = steered + 1
  /\ UNCHANGED <<context, flow, n, chans, fwd, loop, ack, attached, closed, store,
                 qclosed, got, history>>

-----------------------------------------------------------------------------
FlowStep ==
  \/ EmitStart \/ Drain \/ EmitUser \/ Answer \/ CallTool \/ ModelFails \/ RunTool
  \/ ToolFails \/ EmitResult \/ AppendChild \/ FlowExit
  \/ Woken \/ WaitTimesOut \/ WaitCancelled \/ FlushDetached \/ FlushReturns

ForwarderStep == Receive \/ Forward \/ ForwarderEnds \/ NextAgent \/ CloseAgentChannel

LoopStep ==
  \/ TakeFlush \/ Ack \/ Store \/ LoopPanics \/ NotifyCompletion \/ EmitProcessed
  \/ LoopReturns \/ StoreCompletion \/ CompletionPanics \/ EmitCompletion \/ Teardown \/ LoopEnds

Caller == Read \/ Cancel \/ Steer

AllDone ==
  /\ loop.pc = "ended" /\ flow.pc = "done" /\ fwd.pc = "done" /\ oclosed

\* Run has returned; what its goroutines still do is up to them.
Over == loop.pc = "ended" /\ UNCHANGED vars

Next == FlowStep \/ ForwarderStep \/ LoopStep \/ Caller \/ Over

\* Each goroutine runs as long as it is not blocked; a caller that no longer reads
\* cancels the run.
Fairness ==
  /\ WF_vars(FlowStep) /\ WF_vars(ForwarderStep) /\ WF_vars(LoopStep)
  /\ WF_vars(~Done /\ (Read \/ Cancel))

Spec == Init /\ [][Next]_vars /\ Fairness
-----------------------------------------------------------------------------
(* Properties.                                                             *)

FlowPcs == {"start", "startwait", "drain", "user", "userwait", "model", "tool", "flush",
            "flushwait", "child", "result", "resultwait", "exit", "done"}
Kinds == {"start", "user", "call", "result", "final", "error", "child", "completion"}
Events == [n : 1..n, kind : Kinds]

\* The goroutines and channels have the values the code gives them; no channel holds
\* more than its capacity, and the loop holds a flush request only while it is open.
TypeOK ==
  /\ root \in {"llm", "chain"} /\ ctx \in {"ok", "done", "released"}
  /\ committed \subseteq {"flow", "forwarder", "loop"} /\ (ctx = "ok" => committed = {})
  /\ flow.pc \in FlowPcs /\ flow.agent \in 1..Agents /\ flow.wait \in 0..n
  /\ flow.batch \in 0..MaxSteers /\ flow.tools \in 0..MaxTools /\ faults \in 0..MaxFaults
  /\ \A c \in {fch, ach, out} : c \in Seq(Events) /\ Len(c) <= Buffer
  /\ \A c \in {session, got, sent} : c \in Seq(Events)
  /\ loop.flush <=> ack = "open"
  /\ closed \subseteq 1..n /\ failed \subseteq 1..n /\ dropped \subseteq Events
  /\ queue + flow.batch <= steered

Numbers(s) == {s[i].n : i \in DOMAIN s}
\* The events an agent emitted that the session service appended.
Kept(e) == Persistent(e) /\ e.kind # "child" /\ e.n \notin failed
\* What the loop has handed out.
Delivered == got \o out

\* A flow woken by the notice of an event finds in the session every event it, or an
\* earlier agent of the chain, emitted up to that event, three goroutines away, unless
\* the append failed or the run has been torn down: what emitStartEventAndWait is for.
WokenMeansStored ==
  loop.pc \notin {"cancel", "ended"} =>
    \A e \in Range(sent) :
      e.n <= synced /\ Persistent(e) => e.n \in Numbers(session) \cup failed

\* The loop stores events in the order the agents created them, and a message queued by
\* EnqueueUserMessage never stands between a tool call and its result.
SessionInOrder ==
  \A i, j \in DOMAIN session :
    i < j /\ Kept(session[i]) /\ Kept(session[j]) =>
      /\ session[i].n < session[j].n
      /\ session[i].kind = "call" /\ session[j].kind = "user" =>
           \E e \in Range(sent) :
             /\ e.kind \in {"result", "error"} /\ session[i].n < e.n /\ e.n < session[j].n
             /\ e.n \in Numbers(session) \cup failed

\* What the caller has been given of the agents' events is what the session holds, in the
\* same order and without gaps: an event is stored before it is handed out, and after an
\* event that could not be handed out none is, also when the caller stops reading or
\* cancels.  Only a panic behind the append leaves a gap, and then nothing but the
\* completion event follows, which itself need not be stored.
OutputStored ==
  /\ \A i, j \in DOMAIN Delivered : i < j => Delivered[i].n < Delivered[j].n
  /\ \A e \in Range(Delivered) : Kept(e) /\ e.kind # "completion" => e \in Range(session)
  /\ \A e \in Range(session), f \in Range(Delivered) :
       Kept(e) /\ e.n < f.n =>
         e \in Range(Delivered) \/ (e \in dropped /\ f.kind = "completion")

\* A run that nobody cancelled ends its channel with the runner's completion event, also
\* when an agent failed, the loop panicked or goroutines are still running; unless the
\* handling of the completion event itself panicked.
CompletionDelivered ==
  oclosed /\ ctx \in {"ok", "released"} =>
    (\E e \in dropped : e.kind = "completion") \/ Last(Delivered).kind = "completion"

\* Every goroutine of a run ends and the caller's channel is closed: no full channel, late
\* notice, flush request or early return of a chain leaves one waiting for ever.
RunEnds == <>AllDone
=============================================================================
