--------------------------- MODULE SessionSummary ---------------------------
(***************************************************************************)
(* Session summaries: the asynchronous worker of session/internal/summary/ *)
(* async.go, delta summarization with the cascade to the full-session key  *)
(* (summary.go), and the in-memory service that persists the result        *)
(* (session/inmemory/summary.go).                                          *)
(*                                                                         *)
(* One run appends events to its session object and enqueues a job after   *)
(* each, as runner.go does.  A job runs on the worker of the session or,   *)
(* when the queue is full or the worker has stopped, on the goroutine of   *)
(* the run, beside a job of the worker.  A call of CreateSessionSummary is *)
(* cut at its lock operations.  A summary text is the set of the events it *)
(* covers; timestamps are the order in which events are created.           *)
(***************************************************************************)
EXTENDS Integers, Sequences, FiniteSetsExt

CONSTANTS
  Branches,    \* filter keys of the agents of the run
  MaxEvents,   \* bound: events the run appends
  QueueSize,   \* SummaryQueueSize
  InOrder      \* events are appended in the order they were created

ASSUME SummaryAssumption ==
  /\ MaxEvents \in Nat /\ QueueSize \in Nat \ {0} /\ InOrder \in BOOLEAN
  /\ "" \notin Branches

\* session.SummaryFilterKeyAllContents is the empty key.
AllContents == ""
Keys == Branches \cup {AllContents}
Procs == {"worker", "caller"}

VARIABLES
  events,   \* sess.Events: sequence of [key, ts]
  sess,     \* sess.Summaries: key -> [text, at], at = 0 for the zero time
  store,    \* the Summaries of the stored session
  worker,   \* AsyncSummaryWorker: "running", "stopping" (Stop holds the lock), "stopped"
  queue,    \* the session's job channel: filter keys
  job,      \* process -> [pc, key, force] of the cascade it runs
  call      \* process, key -> the CreateSessionSummary call it makes

vars == <<events, sess, store, worker, queue, job, call>>

NoSummary == [text |-> {}, at |-> 0]
NoCall == [pc |-> "none", prev |-> NoSummary, upTo |-> 0, incl |-> {}, sum |-> NoSummary]
NoJob == [pc |-> "idle", key |-> AllContents, force |-> FALSE]

Init ==
  /\ events = <<>>
  /\ sess = [k \in Keys |-> NoSummary] /\ store = [k \in Keys |-> NoSummary]
  /\ worker = "running" /\ queue = <<>>
  /\ job = [p \in Procs |-> NoJob]
  /\ call = [p \in Procs |-> [k \in Keys |-> NoCall]]

-----------------------------------------------------------------------------
(* The session's events.                                                   *)

\* event.Filter, for keys none of which is a prefix of another.
Matches(e, k) == k = AllContents \/ e.key \in {AllContents, k}

\* computeDeltaSince: the indices of the events after at that match k.
DeltaSince(at, k) == {i \in DOMAIN events : events[i].ts > at /\ Matches(events[i], k)}

\* The latest timestamp computeDeltaSince returns, 0 for no event.
LatestOf(delta) == Max({events[i].ts : i \in delta} \cup {0})

\* isSingleFilterKey.
SingleFilterKey(k) == \A i \in DOMAIN events : Matches(events[i], k)

-----------------------------------------------------------------------------
(* The run: append an event, then enqueue a job for its filter key.        *)

Unused == (1..MaxEvents) \ {events[i].ts : i \in DOMAIN events}

\* AppendEvent.  Events of parallel agents may arrive in another order than the one
\* they were created in.
AppendEvent(k, t) ==
  /\ job["caller"].pc = "idle"
  /\ t \in Unused /\ (InOrder => t = Min(Unused))
  /\ events' = Append(events, [key |-> k, ts |-> t])
  /\ job' = [job EXCEPT !["caller"] = [pc |-> "enqueue", key |-> k, force |-> FALSE]]
  /\ UNCHANGED <<sess, store, worker, queue, call>>

\* EnqueueJob and tryEnqueueJob, under the read lock: queued, or run by the caller when
\* the context is done, the worker has stopped or the queue is full.
EnqueueJob(force, cancelled) ==
  /\ job["caller"].pc = "enqueue"
  /\ cancelled \/ worker # "stopping"
  /\ IF cancelled \/ worker = "stopped" \/ Len(queue) >= QueueSize
     THEN /\ job' = [job EXCEPT !["caller"].pc = "start", !["caller"].force = force]
          /\ UNCHANGED <<queue>>
     ELSE /\ queue' = Append(queue, [key |-> job["caller"].key, force |-> force])
          /\ job' = [job EXCEPT !["caller"] = NoJob]
  /\ UNCHANGED <<events, sess, store, worker, call>>

\* Stop: takes the lock and closes the channels, then waits for the workers.
Stop ==
  /\ worker = "running"
  /\ worker' = "stopping"
  /\ UNCHANGED <<events, sess, store, queue, job, call>>

\* Mutant: Stop does not wait for the worker.
StoppedAtOnce ==
  /\ worker = "stopping"
  /\ worker' = "stopped"
  /\ UNCHANGED <<events, sess, store, queue, job, call>>

Stopped ==
  /\ worker = "stopping" /\ queue = <<>> /\ job["worker"].pc = "idle"
  /\ worker' = "stopped"
  /\ UNCHANGED <<events, sess, store, queue, job, call>>

\* Mutant: the worker returns as soon as the channel is closed.
TakeJobUntilStop ==
  /\ worker = "running" /\ queue # <<>> /\ job["worker"].pc = "idle"
  /\ queue' = Tail(queue)
  /\ job' = [job EXCEPT !["worker"] =
               [pc |-> "start", key |-> Head(queue).key, force |-> Head(queue).force]]
  /\ UNCHANGED <<events, sess, store, worker, call>>

\* The worker's loop ranges over the channel, also after it was closed.
TakeJob ==
  /\ worker # "stopped" /\ queue # <<>> /\ job["worker"].pc = "idle"
  /\ queue' = Tail(queue)
  /\ job' = [job EXCEPT !["worker"] =
               [pc |-> "start", key |-> Head(queue).key, force |-> Head(queue).force]]
  /\ UNCHANGED <<events, sess, store, worker, call>>

-----------------------------------------------------------------------------
(* CreateSessionSummaryWithCascade by process p.                           *)

Begin(p, ks) == call' = [call EXCEPT ![p] =
                   [k \in Keys |-> IF k \in ks THEN [NoCall EXCEPT !.pc = "read"] ELSE @[k]]]

Goto(p, pc) == job' = [job EXCEPT ![p].pc = pc]

StartCascade(p) ==
  /\ job[p].pc = "start"
  /\ LET k == job[p].key
     IN  IF k # AllContents /\ SingleFilterKey(k)
         THEN Goto(p, "branch") /\ Begin(p, {k})
         ELSE Goto(p, "both") /\ Begin(p, {k, AllContents})
  /\ UNCHANGED <<events, sess, store, worker, queue>>

\* The job is over; the calls it made are forgotten.
EndJob(p) ==
  /\ job' = [job EXCEPT ![p] = NoJob]
  /\ call' = [call EXCEPT ![p] = [k \in Keys |-> NoCall]]

\* Single filter key, after the call for the branch: copySummaryToKey marks the copy
\* with the zero time, and the call for the full-session key, not forced, persists it.
CopySummary(p) ==
  /\ job[p].pc = "branch" /\ call[p][job[p].key].pc = "done"
  /\ sess' = IF sess[job[p].key] = NoSummary THEN sess
             ELSE [sess EXCEPT ![AllContents] = [text |-> sess[job[p].key].text, at |-> 0]]
  /\ job' = [job EXCEPT ![p].pc = "full", ![p].force = FALSE]
  /\ Begin(p, {AllContents})
  /\ UNCHANGED <<events, store, worker, queue>>

EndCascade(p) ==
  /\ job[p].pc \in {"branch", "full", "both"}
  /\ \A k \in Keys : call[p][k].pc \in {"none", "done", "failed"}
  /\ job[p].pc = "branch" => call[p][job[p].key].pc = "failed"
  /\ EndJob(p)
  /\ UNCHANGED <<events, sess, store, worker, queue>>

-----------------------------------------------------------------------------
(* CreateSessionSummary(k) by process p, and SummarizeSession inside it.   *)

Step(p, k, pc) == call' = [call EXCEPT ![p][k] = [NoCall EXCEPT !.pc = pc]]

\* Under SummariesMu: the previous summary, which may be a copy to persist only.
ReadPrevious(p, k) ==
  /\ call[p][k].pc = "read"
  /\ call' = [call EXCEPT ![p][k].prev = sess[k],
                          ![p][k].pc = IF sess[k].text # {} /\ sess[k].at = 0
                                       THEN "latest" ELSE "delta"]
  /\ UNCHANGED <<events, sess, store, worker, queue, job>>

\* A copy: its UpdatedAt becomes the latest event of the session, in place.
ReadLatest(p, k) ==
  /\ call[p][k].pc = "latest"
  /\ call' = [call EXCEPT ![p][k] =
                [NoCall EXCEPT !.upTo = LatestOf(DeltaSince(0, k)), !.pc = "touch"]]
  /\ UNCHANGED <<events, sess, store, worker, queue, job>>

TouchCopy(p, k) ==
  /\ call[p][k].pc = "touch"
  /\ sess' = [sess EXCEPT ![k].at = call[p][k].upTo]
  /\ Step(p, k, "persist")
  /\ UNCHANGED <<events, store, worker, queue, job>>

\* Under EventMu: the events since the previous summary.  The summarizer may leave out
\* the most recent events, those after event m, but not all; UpdatedAt is the last event
\* it included.  With force, a previous summary alone is enough (m = 0).
ReadDelta(p, k, m) ==
  /\ call[p][k].pc = "delta"
  /\ LET delta == DeltaSince(call[p][k].prev.at, k)
     IN  /\ \/ m \in delta
            \/ m = 0 /\ delta = {} /\ job[p].force /\ call[p][k].prev.text # {}
         /\ call' = [call EXCEPT ![p][k].incl = {i \in delta : i =< m},
                                 ![p][k].upTo = IF m = 0 THEN call[p][k].prev.at
                                                ELSE events[m].ts,
                                 ![p][k].pc = "model"]
  /\ UNCHANGED <<events, sess, store, worker, queue, job>>

\* There is nothing to summarize, the summarizer's checks say no, or its text is empty.
SkipSummary(p, k) ==
  /\ call[p][k].pc = "model" \/ (call[p][k].pc = "delta" /\ ~job[p].force)
  /\ Step(p, k, "done")
  /\ UNCHANGED <<events, sess, store, worker, queue, job>>

\* The summarizer fails, times out, or was forced and has nothing to summarize.
SummarizeFails(p, k) ==
  /\ call[p][k].pc \in {"delta", "model"} /\ (call[p][k].pc = "delta" => job[p].force)
  /\ Step(p, k, "failed")
  /\ UNCHANGED <<events, sess, store, worker, queue, job>>

\* Mutant: UpdatedAt is the latest event, included or not.
WriteSummaryAsOfNow(p, k) ==
  /\ call[p][k].pc = "model"
  /\ sess' = [sess EXCEPT ![k] = [text |-> call[p][k].prev.text \cup call[p][k].incl,
                                  at |-> LatestOf(DeltaSince(0, k))]]
  /\ Step(p, k, "persist")
  /\ UNCHANGED <<events, store, worker, queue, job>>

\* Under SummariesMu: the new summary.
WriteSummary(p, k) ==
  /\ call[p][k].pc = "model"
  /\ sess' = [sess EXCEPT ![k] = [text |-> call[p][k].prev.text \cup call[p][k].incl,
                                  at |-> call[p][k].upTo]]
  /\ Step(p, k, "persist")
  /\ UNCHANGED <<events, store, worker, queue, job>>

\* CreateSessionSummary reads the summary again, whoever wrote it, ...
ReadWritten(p, k) ==
  /\ call[p][k].pc = "persist"
  /\ call' = [call EXCEPT ![p][k].sum = sess[k], ![p][k].pc = "store"]
  /\ UNCHANGED <<events, sess, store, worker, queue, job>>

\* ... and writes it to the stored session under its lock (writeSummaryUnderLock).
PersistSummary(p, k) ==
  /\ call[p][k].pc = "store"
  /\ store' = [store EXCEPT ![k] = call[p][k].sum]
  /\ Step(p, k, "done")
  /\ UNCHANGED <<events, sess, worker, queue, job>>

-----------------------------------------------------------------------------
Cascade(p) ==
  \/ StartCascade(p) \/ CopySummary(p) \/ EndCascade(p)
  \/ \E k \in Keys :
       \/ ReadPrevious(p, k) \/ ReadLatest(p, k) \/ TouchCopy(p, k)
       \/ \E m \in 0..MaxEvents : ReadDelta(p, k, m)
       \/ SkipSummary(p, k) \/ SummarizeFails(p, k)
       \/ WriteSummary(p, k) \/ ReadWritten(p, k) \/ PersistSummary(p, k)

Run == \E k \in Branches, t \in 1..MaxEvents : AppendEvent(k, t)

Enqueue == \E force, cancelled \in BOOLEAN : EnqueueJob(force, cancelled)

\* The run has appended its events.
Idle == Unused = {} /\ job["caller"].pc = "idle" /\ UNCHANGED vars

Next ==
  \/ Run \/ Enqueue \/ TakeJob \/ Stop \/ Stopped \/ Idle
  \/ \E p \in Procs : Cascade(p)

\* The goroutines of the worker and of a call run, and the summarizer returns: a job
\* has a timeout.  Nobody need append an event, stop the worker or cancel a call.
Fairness ==
  /\ WF_vars(\E force \in BOOLEAN : EnqueueJob(force, FALSE))
  /\ WF_vars(TakeJob) /\ WF_vars(Stopped)
  /\ \A p \in Procs : WF_vars(Cascade(p))

Spec == Init /\ [][Next]_vars /\ Fairness

-----------------------------------------------------------------------------
(* Properties.                                                             *)

\* Every event up to UpdatedAt that matches the key is in the summary's text: the next
\* delta starts after it, so an event it skipped would never be summarized.
Covered(s, k) ==
  \A i \in DOMAIN events :
    Matches(events[i], k) /\ events[i].ts =< s[k].at => i \in s[k].text

\* The branch summaries of the session object and of the store cover what they claim,
\* while the worker and a synchronous fallback summarize the same key at once, and the
\* one persists what the other wrote.
BranchCovered == \A k \in Branches : Covered(sess, k) /\ Covered(store, k)

\* The comment of SummarizeSession says it of every key.
FullSessionCovered == Covered(sess, AllContents)

\* Once Stop has returned, every job the queue accepted has been processed.
StopDrains == worker = "stopped" => queue = <<>> /\ job["worker"].pc = "idle"

\* EnqueueJob returns: not blocked for ever by Stop, which holds the lock while it waits
\* for the worker, nor by the worker; and Stop returns.
CallsReturn ==
  /\ job["caller"].pc # "idle" ~> job["caller"].pc = "idle"
  /\ worker = "stopping" ~> worker = "stopped"
=============================================================================
