----------------------------- MODULE StreamHub -----------------------------
(***************************************************************************)
(* agent/stream_hub.go and the nodes that use it (graph/state_graph.go):   *)
(* one superstep in which an LLM or Agent node with WithStreamOutput       *)
(* publishes the deltas of its model into a named stream, and a function   *)
(* node reads that stream to its end and then returns, as docs/mkdocs/en/  *)
(* graph.md lays it out.  The two run on the workers of the step.          *)
(*                                                                         *)
(* A select is one step: it takes any case that is ready.  A delta is the  *)
(* sequence of the positions its bytes have in what the model produced.    *)
(***************************************************************************)
EXTENDS Integers, Sequences

CONSTANTS
  Capacity,       \* defaultStreamBufferSize
  MaxBytes,       \* bound: bytes the model produces
  MaxAttempts,    \* attempts of the producer's retry policy
  Workers,        \* workers of the step
  ReadSizes,      \* lengths of the consumer's read buffers
  Kinds           \* kinds of producer: "llm", "agent"

ASSUME StreamAssumption ==
  /\ Capacity \in Nat \ {0}
  /\ MaxBytes \in Nat
  /\ MaxAttempts \in Nat \ {0}
  /\ Workers \in Nat \ {0}
  /\ ReadSizes \subseteq Nat \ {0}
  /\ Kinds \subseteq {"llm", "agent"}

VARIABLES
  ch,          \* stream.ch: the chunks in the buffered channel
  closed,      \* stream.done and stream.closeErr: "open", or how it was closed
  writerOpen,  \* stream.writerOpen
  expired,     \* the context of the run, which both nodes share, is done
  nested,      \* an execution of another graph has closed the stream
  prod,        \* where the producer is
  kind,        \* which producer it is
  delta,       \* the chunk a Write is sending
  sawDelta,    \* tap.sawDelta
  broken,      \* tap.broken
  outcome,     \* how the producer's last attempt ended
  panicked,    \* the producer's node function panicked
  attempts,    \* attempts of the producer begun
  cons,        \* where the consumer is
  buf,         \* StreamReader.buf, from off on
  result,      \* the error the consumer's last Read returned
  made,        \* bytes the model produced
  sent,        \* bytes Write accepted
  got          \* bytes Read returned

stream == <<ch, closed, writerOpen>>
producer == <<prod, kind, delta, sawDelta, broken, outcome, panicked, attempts, made>>
consumer == <<cons, buf, result, got>>
vars == <<stream, expired, nested, producer, consumer, sent>>

ProducerPcs == {"queued", "start", "model", "sending", "final", "closing", "ended"}
ConsumerPcs == {"queued", "open", "reading", "polled", "waiting", "closing", "ended", "skipped"}
Closings == {"nil", "err", "pipe", "ctx"}

Init ==
  /\ ch = <<>> /\ closed = "open" /\ writerOpen = FALSE /\ expired = FALSE /\ nested = FALSE
  /\ prod = "queued" /\ kind \in Kinds /\ delta = <<>>
  /\ sawDelta = FALSE /\ broken = FALSE /\ outcome = "none" /\ attempts = 0 /\ panicked = FALSE
  /\ cons = "queued" /\ buf = <<>> /\ result = "none"
  /\ made = 0 /\ sent = <<>> /\ got = <<>>

-----------------------------------------------------------------------------
(* stream.                                                                 *)

\* stream.closeWithError: only the first call has an effect.
CloseWithError(e) == closed' = IF closed = "open" THEN e ELSE closed

\* stream.readerErr.
ReaderErr == IF closed = "nil" THEN "EOF" ELSE closed

Ended == prod = "ended" /\ cons \in {"ended", "skipped"}

\* executor.go Execute: the deferred CloseAll(ctx.Err()) when the run is over.
CloseAll ==
  /\ Ended /\ closed = "open"
  /\ CloseWithError(IF expired THEN "ctx" ELSE "nil")
  /\ UNCHANGED <<ch, writerOpen, expired, nested, producer, consumer, sent>>

\* A graph that runs inside this one, below an Agent node or a tool, shares the hub of
\* its parent (Invocation.cloneState), and its own Execute closes every stream opened
\* so far: with the error of its context, which may end before the parent's.
NestedCloseAll ==
  /\ closed = "open" /\ (writerOpen \/ cons \in {"reading", "polled", "waiting", "closing"})
  /\ \E e \in IF expired THEN {"ctx"} ELSE {"nil", "ctx"} : CloseWithError(e)
  /\ nested' = TRUE
  /\ UNCHANGED <<ch, writerOpen, expired, producer, consumer, sent>>

\* The caller cancels the run, or the step's deadline passes.
Expire ==
  /\ ~expired
  /\ expired' = TRUE
  /\ UNCHANGED <<stream, nested, producer, consumer, sent>>

-----------------------------------------------------------------------------
(* The step's workers: executeStep runs at most workerCount tasks at once. *)

Running == (IF prod \in {"queued", "ended"} THEN 0 ELSE 1)
           + (IF cons \in {"queued", "ended", "skipped"} THEN 0 ELSE 1)

StartProducer ==
  /\ prod = "queued" /\ Running < Workers
  /\ prod' = "start" /\ attempts' = 1
  /\ UNCHANGED <<stream, expired, nested, kind, panicked, delta, sawDelta, broken, outcome, made, consumer, sent>>

StartConsumer ==
  /\ cons = "queued" /\ Running < Workers
  /\ cons' = "open"
  /\ UNCHANGED <<stream, expired, nested, producer, buf, result, got, sent>>

-----------------------------------------------------------------------------
(* The producer: OpenStreamWriter, the deltas of the model, Close.         *)

\* The attempt ended with an error: the retry policy starts another, or the node
\* has failed.
FailAttempt ==
  IF attempts < MaxAttempts /\ ~expired
  THEN prod' = "start" /\ attempts' = attempts + 1 /\ outcome' = "err"
  ELSE prod' = "ended" /\ attempts' = attempts /\ outcome' = "err"

\* hub.OpenWriter and stream.markWriterOpen: a stream has one writer, ever.
OpenWriter ==
  /\ prod = "start"
  /\ IF writerOpen
     THEN FailAttempt /\ UNCHANGED writerOpen
     ELSE /\ writerOpen' = TRUE /\ prod' = "model" /\ outcome' = "none"
          /\ UNCHANGED attempts
  /\ UNCHANGED <<ch, closed, expired, nested, kind, panicked, delta, sawDelta, broken, made, consumer, sent>>

\* The attempt ends before the writer is opened: with an error of the node's set-up,
\* or with a result that did not need the model (a cached result, a callback's).
EndBeforeOpen ==
  /\ prod = "start"
  /\ \/ FailAttempt
     \/ attempts = 1 /\ prod' = "ended" /\ outcome' = "ok" /\ UNCHANGED attempts
  /\ UNCHANGED <<stream, expired, nested, kind, panicked, delta, sawDelta, broken, made, consumer, sent>>

\* StreamWriter.WriteString up to its second select: refused when the stream is
\* closed, which breaks the tap for good; a broken tap drops the delta.
WriteDelta(n) ==
  /\ prod = "model" /\ made + n =< MaxBytes
  /\ made' = made + n
  /\ sawDelta' = (sawDelta \/ ~broken)
  /\ broken' = (broken \/ closed # "open")
  /\ IF broken' THEN UNCHANGED <<prod, delta>>
     ELSE prod' = "sending" /\ delta' = [i \in 1..n |-> made + i]
  /\ UNCHANGED <<stream, expired, nested, kind, panicked, outcome, attempts, consumer, sent>>

\* The model is done.  The text of a model that did not stream goes out as one
\* chunk (WriteFinalIfNoDelta, and the agent tap's Close), if there is any.  An agent
\* that was interrupted makes its node return an InterruptError, but later: the tap
\* sees no error.
EndModel(e, n) ==
  /\ prod = "model" /\ (e = "interrupt" => kind = "agent")
  /\ outcome' = e
  /\ \/ /\ e # "err" /\ ~sawDelta /\ ~broken /\ closed = "open" /\ made + n =< MaxBytes
        /\ prod' = "final" /\ delta' = [i \in 1..n |-> made + i] /\ made' = made + n
     \/ prod' = "closing" /\ UNCHANGED <<delta, made>>
  /\ UNCHANGED <<stream, expired, nested, kind, panicked, sawDelta, broken, attempts, consumer, sent>>

\* WriteString's second select.  An error breaks the tap, but not one of the final
\* chunk, which nobody looks at.
Written == prod' = (IF prod = "sending" THEN "model" ELSE "closing") /\ delta' = <<>>

\* Mutant: the channel has no bound.
SendChunkUnbounded ==
  /\ prod \in {"sending", "final"}
  /\ ch' = Append(ch, delta) /\ sent' = sent \o delta
  /\ Written
  /\ UNCHANGED <<closed, writerOpen, expired, nested, kind, panicked, sawDelta, broken, outcome, attempts, made, consumer>>

SendChunk ==
  /\ prod \in {"sending", "final"} /\ Len(ch) < Capacity
  /\ ch' = Append(ch, delta) /\ sent' = sent \o delta
  /\ Written
  /\ UNCHANGED <<closed, writerOpen, expired, nested, kind, panicked, sawDelta, broken, outcome, attempts, made, consumer>>

SendRefused ==
  /\ prod \in {"sending", "final"} /\ (closed # "open" \/ expired)
  /\ broken' = (broken \/ prod = "sending")
  /\ Written
  /\ UNCHANGED <<stream, expired, nested, kind, panicked, sawDelta, outcome, attempts, made, consumer, sent>>

\* A panic in the node function, which executeNodeFunction turns into an error.  The
\* LLM node does not close its writer; the agent node's deferred Close sees no error.
Panic ==
  /\ prod = "model"
  /\ panicked' = TRUE
  /\ IF kind = "llm" THEN UNCHANGED closed
     ELSE CloseWithError(IF broken THEN "pipe" ELSE "nil")
  /\ FailAttempt
  /\ UNCHANGED <<ch, writerOpen, expired, nested, kind, delta, sawDelta, broken, made, consumer, sent>>

\* What the node does with the answer panics, after the stream is closed: an output
\* mapper of an Agent node, a result without an assistant message in an LLM node.
PanicAfterClose ==
  /\ prod = "closing" /\ outcome = "ok"
  /\ panicked' = TRUE
  /\ CloseWithError(IF kind = "agent" /\ broken THEN "pipe" ELSE "nil")
  /\ FailAttempt
  /\ UNCHANGED <<ch, writerOpen, expired, nested, kind, delta, sawDelta, broken, made, consumer, sent>>

\* Mutant: the error of the attempt is not passed on.
CloseWriterBlindly ==
  /\ prod = "closing"
  /\ CloseWithError("nil")
  /\ IF outcome = "err" THEN FailAttempt
     ELSE prod' = "ended" /\ UNCHANGED <<attempts, outcome>>
  /\ UNCHANGED <<ch, writerOpen, expired, nested, kind, panicked, delta, sawDelta, broken, made, consumer, sent>>

\* The end of llmRunner.executeModel and agentDeltaStreamTap.Close.  An interrupted
\* attempt is not tried again.
CloseWriter ==
  /\ prod = "closing"
  /\ CloseWithError(IF kind = "agent" /\ broken THEN "pipe"
                    ELSE IF outcome = "err" THEN "err" ELSE "nil")
  /\ IF outcome = "err" THEN FailAttempt
     ELSE prod' = "ended" /\ UNCHANGED <<attempts, outcome>>
  /\ UNCHANGED <<ch, writerOpen, expired, nested, kind, panicked, delta, sawDelta, broken, made, consumer, sent>>

-----------------------------------------------------------------------------
(* The consumer: OpenStreamReader, Read until it returns an error, Close.  *)

OpenReader ==
  /\ cons = "open"
  /\ cons' = "reading"
  /\ UNCHANGED <<stream, expired, nested, producer, buf, result, got, sent>>

\* The consumer returns before it opens the reader: an error, or an early return.
SkipReader ==
  /\ cons = "open"
  /\ cons' = "skipped"
  /\ UNCHANGED <<stream, expired, nested, producer, buf, result, got, sent>>

\* Mutant: what does not fit is dropped.
CopyOutDropsRest(b, n) ==
  LET m == IF n < Len(b) THEN n ELSE Len(b)
  IN  got' = got \o SubSeq(b, 1, m) /\ buf' = <<>> /\ cons' = "reading"

\* The copy of Read: as much of the chunk as fits, the rest is kept.
CopyOut(b, n) ==
  LET m == IF n < Len(b) THEN n ELSE Len(b)
  IN  /\ got' = got \o SubSeq(b, 1, m)
      /\ buf' = SubSeq(b, m + 1, Len(b))
      /\ cons' = "reading"

\* Read returns an error: the consumer is done.
ReadErr(e) == cons' = "closing" /\ result' = e

ReadRest(n) ==
  /\ cons = "reading" /\ buf # <<>>
  /\ CopyOut(buf, n)
  /\ UNCHANGED <<stream, expired, nested, producer, result, sent>>

\* Read's first select, which does not wait, and its last.
Receive(n) ==
  /\ cons \in {"reading", "waiting"} /\ buf = <<>> /\ ch # <<>>
  /\ ch' = Tail(ch)
  /\ CopyOut(Head(ch), n)
  /\ UNCHANGED <<closed, writerOpen, expired, nested, producer, result, sent>>

PollEmpty ==
  /\ cons = "reading" /\ buf = <<>> /\ ch = <<>>
  /\ cons' = "polled"
  /\ UNCHANGED <<stream, expired, nested, producer, buf, result, got, sent>>

\* doneClosed: the stream is closed, and the poll before it found nothing.
CheckDone ==
  /\ cons = "polled"
  /\ IF closed # "open" THEN ReadErr(ReaderErr) ELSE cons' = "waiting" /\ UNCHANGED result
  /\ UNCHANGED <<stream, expired, nested, producer, buf, got, sent>>

\* The other cases of the last select.
WaitEnds ==
  /\ cons = "waiting"
  /\ \/ closed # "open" /\ ReadErr(ReaderErr)
     \/ expired /\ ReadErr("ctx")
  /\ UNCHANGED <<stream, expired, nested, producer, buf, got, sent>>

\* The consumer has seen enough.
Quit ==
  /\ cons = "reading"
  /\ cons' = "closing"
  /\ UNCHANGED <<stream, expired, nested, producer, buf, result, got, sent>>

\* Mutant: the writer is not stopped.
CloseReaderOnly ==
  /\ cons = "closing"
  /\ cons' = "ended"
  /\ UNCHANGED <<stream, expired, nested, producer, buf, result, got, sent>>

\* StreamReader.Close also stops the writer.
CloseReader ==
  /\ cons = "closing"
  /\ cons' = "ended"
  /\ CloseWithError("pipe")
  /\ UNCHANGED <<ch, writerOpen, expired, nested, producer, buf, result, got, sent>>

-----------------------------------------------------------------------------
\* The run is over.
Over == Ended /\ closed # "open" /\ UNCHANGED vars

Produce ==
  \/ StartProducer \/ OpenWriter \/ EndBeforeOpen
  \/ \E n \in 1..MaxBytes : WriteDelta(n)
  \/ \E e \in {"ok", "err", "interrupt"}, n \in 1..MaxBytes : EndModel(e, n)
  \/ SendChunk \/ SendRefused \/ Panic \/ PanicAfterClose \/ CloseWriter

Consume ==
  \/ StartConsumer \/ OpenReader \/ SkipReader
  \/ \E n \in ReadSizes : ReadRest(n) \/ Receive(n)
  \/ PollEmpty \/ CheckDone \/ WaitEnds \/ Quit \/ CloseReader

Next == Produce \/ Consume \/ CloseAll \/ NestedCloseAll \/ Expire \/ Over

\* The goroutines of the two tasks and of the executor run.  The caller need not
\* cancel the run, and without a step timeout no deadline passes.
Fairness == WF_vars(Produce) /\ WF_vars(Consume) /\ WF_vars(CloseAll)

Spec == Init /\ [][Next]_vars /\ Fairness

-----------------------------------------------------------------------------
TypeOK ==
  /\ ch \in Seq(Seq(Nat)) /\ Len(ch) =< Capacity
  /\ closed \in Closings \cup {"open"}
  /\ writerOpen \in BOOLEAN /\ expired \in BOOLEAN /\ nested \in BOOLEAN
  /\ prod \in ProducerPcs /\ kind \in Kinds /\ delta \in Seq(Nat)
  /\ sawDelta \in BOOLEAN /\ broken \in BOOLEAN
  /\ outcome \in {"none", "ok", "err", "interrupt"} /\ panicked \in BOOLEAN /\ attempts \in 0..MaxAttempts
  /\ cons \in ConsumerPcs /\ buf \in Seq(Nat)
  /\ result \in {"none", "EOF", "err", "pipe", "ctx"}
  /\ made \in 0..MaxBytes /\ sent \in Seq(Nat) /\ got \in Seq(Nat)

\* A consumer that reads a clean end of the stream is never fed by a producer whose
\* attempt failed with an error: the first closing wins, the error is stored before the
\* reader can see the stream closed, a retry cannot open the stream again, and a reader
\* that gave up is told so.  The code closes without the node's error in three more
\* ways, and in no other: the node panics, the Agent node is interrupted, or another
\* graph's Execute closes the shared hub while the stream is in use.
CleanEOF ==
  result = "EOF" =>
    \/ outcome = "ok"
    \/ panicked
    \/ kind = "agent" /\ outcome = "interrupt"
    \/ nested

\* The step ends without the help of a deadline: a blocked Write is released by the
\* reader or its Close, a blocked Read by a chunk or a closing.  The exceptions are a
\* stream never closed because nobody opens it for writing, or for reading, or because
\* an LLM node panics before it closes its writer.
StepEnds ==
  \/ <>Ended
  \/ <>[](closed = "open" /\ (~writerOpen \/ cons = "skipped" \/ (kind = "llm" /\ panicked)))

\* The test TestStreamHub_BasicReadWrite reads back all that was written before Close.
EOFComplete == result = "EOF" /\ outcome = "ok" /\ ~nested => got = sent

Pipe == INSTANCE BytePipe WITH sent <- sent, got <- got, closed <- closed, result <- result

\* The stream, its writer and its reader implement the pipe: a Read that splits a
\* chunk, a poll, a check of done and a select that races with Close and Write never
\* reorder, repeat or skip bytes, nor report another error than the first closing's.
ImplementsPipe == Pipe!Spec
=============================================================================
