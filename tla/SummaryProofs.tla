---------------------------- MODULE SummaryProofs ---------------------------
(***************************************************************************)
(* Proofs about SessionSummary, for every set of branches, number of       *)
(* events and queue size: StopDrains, and BranchCovered for events that    *)
(* are appended in the order they were created.                            *)
(*                                                                         *)
(* Two jobs may summarize one key at once, each from the summary it read   *)
(* before the other wrote.  What keeps a branch summary sound is not that  *)
(* they exclude each other but that every summary that is anywhere, in the *)
(* session, in the store or in the hands of a job, covers what it claims,  *)
(* and goes on doing so while events are appended.                         *)
(***************************************************************************)
EXTENDS SessionSummary, TLAPS

JobPcs == {"idle", "enqueue", "start", "branch", "full", "both"}
Jobs == [pc : JobPcs, key : Keys, force : BOOLEAN]

JobsOK ==
  /\ worker \in {"running", "stopping", "stopped"}
  /\ queue \in Seq([key : Keys, force : BOOLEAN])
  /\ job \in [Procs -> Jobs]

DrainInv == JobsOK /\ StopDrains

-----------------------------------------------------------------------------
(* Stop has drained the queue when it returns.                             *)

\* What is taken out of a queue, and what is left.
LEMMA HeadAndTail ==
  ASSUME NEW S, NEW q \in Seq(S), q # <<>>
  PROVE  Head(q) \in S /\ Tail(q) \in Seq(S)
  OBVIOUS

\* The worker runs and has nothing to do.
LEMMA DrainInit == Init => DrainInv
  BY DEF Init, DrainInv, JobsOK, StopDrains, Jobs, JobPcs, NoJob, Keys, Procs

\* The invariant is inductive: nobody queues a job for a worker that has stopped, and
\* its own cascade is over.
LEMMA DrainNext == DrainInv /\ [Next]_vars => DrainInv'
  <1> SUFFICES ASSUME DrainInv, [Next]_vars PROVE DrainInv'
    OBVIOUS
  <1> USE DEF DrainInv, JobsOK, StopDrains, Jobs, JobPcs, Procs
  <1>1. NoJob \in Jobs
    BY DEF NoJob, Keys
  <1>2. ASSUME NEW k \in Branches, NEW t \in 1..MaxEvents, AppendEvent(k, t)
        PROVE  DrainInv'
    BY <1>2 DEF AppendEvent, Keys
  <1>3. ASSUME NEW force \in BOOLEAN, NEW cancelled \in BOOLEAN, EnqueueJob(force, cancelled)
        PROVE  DrainInv'
    <2>1. CASE cancelled \/ worker = "stopped" \/ Len(queue) >= QueueSize
      BY <1>3, <2>1 DEF EnqueueJob
    <2>2. CASE ~(cancelled \/ worker = "stopped" \/ Len(queue) >= QueueSize)
      <3>1. worker' = worker /\ worker # "stopped" /\ job' = [job EXCEPT !["caller"] = NoJob]
            /\ queue' = Append(queue, [key |-> job["caller"].key, force |-> force])
        BY <1>3, <2>2 DEF EnqueueJob
      <3>2. [key |-> job["caller"].key, force |-> force] \in [key : Keys, force : BOOLEAN]
        OBVIOUS
      <3>3. queue' \in Seq([key : Keys, force : BOOLEAN])
        BY <3>1, <3>2
      <3>4. job' \in [Procs -> Jobs]
        BY <3>1, <1>1
      <3> QED BY <3>1, <3>3, <3>4
    <2> QED BY <2>1, <2>2
  <1>4. CASE Stop \/ Stopped
    BY <1>4 DEF Stop, Stopped
  <1>5. CASE TakeJob
    <2>1. /\ worker' = worker /\ worker # "stopped" /\ queue # <<>> /\ queue' = Tail(queue)
          /\ job' = [job EXCEPT !["worker"] =
                       [pc |-> "start", key |-> Head(queue).key, force |-> Head(queue).force]]
      BY <1>5 DEF TakeJob
    <2>2. Head(queue) \in [key : Keys, force : BOOLEAN] /\ queue' \in Seq([key : Keys, force : BOOLEAN])
      BY <2>1, HeadAndTail
    <2>3. job' \in [Procs -> Jobs]
      BY <2>1, <2>2
    <2> QED BY <2>1, <2>2, <2>3
  <1>6. ASSUME NEW p \in Procs, Cascade(p)
        PROVE  DrainInv'
    <2>1. /\ UNCHANGED <<worker, queue>>
          /\ \/ job' = job
             \/ job[p].pc # "idle" /\ \E pc \in JobPcs : job' = [job EXCEPT ![p].pc = pc]
             \/ job[p].pc # "idle" /\ job' = [job EXCEPT ![p].pc = "full", ![p].force = FALSE]
             \/ job[p].pc # "idle" /\ job' = [job EXCEPT ![p] = NoJob]
      BY <1>6 DEF Cascade, StartCascade, CopySummary, EndCascade, EndJob, Goto, ReadPrevious,
                  ReadLatest, TouchCopy, ReadDelta, SkipSummary, SummarizeFails, WriteSummary,
                  ReadWritten, PersistSummary
    <2> QED BY <2>1, <1>1
  <1>7. CASE Idle \/ UNCHANGED vars
    BY <1>7 DEF Idle, vars
  <1> QED BY <1>2, <1>3, <1>4, <1>5, <1>6, <1>7 DEF Next, Run, Enqueue

\* Once Stop has returned, every job the queue accepted has been processed, whatever
\* the size of the queue and whoever is still running a job of its own.
THEOREM StopDrainsAlways == Spec => []StopDrains
  <1>1. DrainInv => StopDrains
    BY DEF DrainInv
  <1> QED BY <1>1, DrainInit, DrainNext, PTL DEF Spec

-----------------------------------------------------------------------------
(* Every summary of a branch covers what it claims.                        *)

Summaries == [text : SUBSET Nat, at : Nat]
CallPcs == {"none", "read", "latest", "touch", "delta", "model", "persist", "store", "done", "failed"}
Calls == [pc : CallPcs, prev : Summaries, upTo : Nat, incl : SUBSET Nat, sum : Summaries]

\* Event i of the session was created as the i-th.
Numbered ==
  /\ events \in Seq([key : Branches, ts : Nat])
  /\ \A i \in DOMAIN events : events[i].ts = i

\* The summary s of key k has every event of ev up to s.at, which is an event of ev, and
\* is not one that copySummaryToKey marked.
Sound(ev, s, k) ==
  /\ s \in Summaries /\ s.at =< Len(ev)
  /\ s.text # {} => s.at > 0
  /\ \A i \in 1..Len(ev) : Matches(ev[i], k) /\ i =< s.at => i \in s.text

\* The summary a call is about to write.
Written(c) == [text |-> c.prev.text \cup c.incl, at |-> c.upTo]

\* A call works with sound summaries, and never on a copy.
CallSound(ev, c, k) ==
  /\ c \in Calls /\ c.pc \notin {"latest", "touch"}
  /\ Sound(ev, c.prev, k) /\ Sound(ev, c.sum, k)
  /\ c.pc = "model" => Sound(ev, Written(c), k)

Shape ==
  /\ DOMAIN sess = Keys /\ DOMAIN store = Keys /\ DOMAIN call = Procs
  /\ \A p \in Procs : DOMAIN call[p] = Keys

CallsSound == \A p \in Procs, k \in Branches : CallSound(events, call[p][k], k)

CoverInv ==
  /\ Numbered /\ Shape /\ CallsSound
  /\ \A k \in Branches : Sound(events, sess[k], k) /\ Sound(events, store[k], k)

\* No summary is sound, whatever the events.
LEMMA NoSummarySound ==
  ASSUME NEW ev \in Seq([key : Branches, ts : Nat]), NEW k
  PROVE  Sound(ev, NoSummary, k)
  BY DEF Sound, NoSummary, Summaries

\* A call that has not read anything yet, or has done its part.
LEMMA NoCallSound ==
  ASSUME NEW ev \in Seq([key : Branches, ts : Nat]), NEW k, NEW pc \in CallPcs,
         pc \notin {"latest", "touch", "model"}
  PROVE  CallSound(ev, [NoCall EXCEPT !.pc = pc], k)
  <1> DEFINE c == [NoCall EXCEPT !.pc = pc]
  <1>1. c.pc = pc /\ c.prev = NoSummary /\ c.sum = NoSummary
    BY DEF NoCall
  <1>2. c \in Calls
    BY DEF NoCall, NoSummary, Calls, Summaries
  <1> HIDE DEF c
  <1>3. CallSound(ev, c, k)
    BY <1>1, <1>2, NoSummarySound DEF CallSound
  <1> QED BY <1>3 DEF c

\* A summary stays sound when an event is appended: it does not claim the new event.
LEMMA AppendSound ==
  ASSUME NEW ev \in Seq([key : Branches, ts : Nat]), NEW e \in [key : Branches, ts : Nat],
         NEW s, NEW k, Sound(ev, s, k)
  PROVE  Sound(Append(ev, e), s, k)
  <1>1. Len(ev) \in Nat /\ Len(Append(ev, e)) = Len(ev) + 1
        /\ \A i \in 1..Len(ev) : Append(ev, e)[i] = ev[i]
    OBVIOUS
  <1>2. s.at \in Nat
    BY DEF Sound, Summaries
  <1>3. \A i \in 1..(Len(ev) + 1) : i =< s.at => i \in 1..Len(ev)
    BY <1>1, <1>2 DEF Sound
  <1> QED BY <1>1, <1>2, <1>3 DEF Sound

\* The unused timestamps are those after the last event, the least is the next.
LEMMA NextTimestamp ==
  ASSUME Numbered, NEW t \in Unused, t = Min(Unused)
  PROVE  t = Len(events) + 1
  <1>1. Len(events) \in Nat /\ DOMAIN events = 1..Len(events)
    BY DEF Numbered
  <1>2. \A i : i \in Unused <=> i \in 1..MaxEvents /\ i > Len(events)
    <2>1. {events[i].ts : i \in DOMAIN events} = 1..Len(events)
      BY <1>1 DEF Numbered
    <2>2. Unused = (1..MaxEvents) \ (1..Len(events))
      BY <2>1 DEF Unused
    <2>3. MaxEvents \in Nat
      BY SummaryAssumption
    <2> QED BY <1>1, <2>2, <2>3
  <1>3. Len(events) + 1 \in Unused /\ \A y \in Unused : Len(events) + 1 =< y
    <2>1. t \in 1..MaxEvents /\ t > Len(events) /\ MaxEvents \in Nat
      BY <1>2, SummaryAssumption
    <2>2. Len(events) + 1 \in 1..MaxEvents /\ Len(events) + 1 > Len(events)
      BY <1>1, <2>1
    <2>3. \A y \in Unused : Len(events) + 1 =< y
      BY <1>1, <1>2, <2>1
    <2> QED BY <1>2, <2>2, <2>3
  <1>4. Min(Unused) \in Unused /\ \A y \in Unused : Min(Unused) =< y
    BY <1>3 DEF Min
  <1>5. t =< Len(events) + 1 /\ Len(events) + 1 =< t /\ t \in Nat
    <2>1. t =< Len(events) + 1 /\ Len(events) + 1 =< t
      BY <1>3, <1>4
    <2>2. t \in 1..MaxEvents /\ MaxEvents \in Nat
      BY <1>2, SummaryAssumption
    <2> QED BY <2>1, <2>2
  <1> QED BY <1>1, <1>5

\* A step after which every call is as it was or sound.
LEMMA CallsSoundNext ==
  ASSUME CoverInv, events' = events,
         \A q \in Procs, l \in Branches :
           call'[q][l] = call[q][l] \/ CallSound(events, call'[q][l], l)
  PROVE  CallsSound'
  <1>1. \A q \in Procs, l \in Branches : CallSound(events', call'[q][l], l)
    BY DEF CoverInv, CallsSound
  <1> QED BY <1>1 DEF CallsSound, CallSound, Sound, Matches

\* A step that changes the calls, and no summary of a branch into one that is not sound.
LEMMA CoverStep ==
  ASSUME CoverInv, events' = events,
         DOMAIN call' = Procs, \A q \in Procs : DOMAIN call'[q] = Keys,
         DOMAIN sess' = Keys, DOMAIN store' = Keys,
         \A q \in Procs, l \in Branches :
           call'[q][l] = call[q][l] \/ CallSound(events, call'[q][l], l),
         \A l \in Branches : /\ sess'[l] = sess[l] \/ Sound(events, sess'[l], l)
                             /\ store'[l] = store[l] \/ Sound(events, store'[l], l)
  PROVE  CoverInv'
  <1>1. Numbered' /\ Shape'
    BY DEF CoverInv, Numbered, Shape
  <1>2. CallsSound'
    BY CallsSoundNext
  <1>3. \A l \in Branches : Sound(events', sess'[l], l) /\ Sound(events', store'[l], l)
    BY DEF CoverInv
  <1>4. \A l \in Branches : Sound(events, sess[l], l)' /\ Sound(events, store[l], l)'
    BY <1>3 DEF Sound, Matches
  <1> QED BY <1>1, <1>2, <1>4 DEF CoverInv

\* The steps of a call.  Call k of process p becomes c, the others stay.
LEMMA ChangeCall ==
  ASSUME Shape, NEW p \in Procs, NEW k \in Keys, NEW c, call' = [call EXCEPT ![p][k] = c]
  PROVE  /\ DOMAIN call' = Procs /\ \A q \in Procs : DOMAIN call'[q] = Keys
         /\ call'[p][k] = c
         /\ \A q \in Procs, l \in Keys : q # p \/ l # k => call'[q][l] = call[q][l]
  BY DEF Shape

\* No event yet.
LEMMA CoverInit == Init => CoverInv
  <1> SUFFICES ASSUME Init PROVE CoverInv
    OBVIOUS
  <1>1. events = <<>> /\ events \in Seq([key : Branches, ts : Nat])
    BY DEF Init
  <1>2. Numbered /\ Shape
    BY <1>1 DEF Init, Numbered, Shape
  <1>3. NoCall = [NoCall EXCEPT !.pc = "none"] /\ "none" \in CallPcs
    BY DEF NoCall, CallPcs
  <1>4. \A k \in Branches : CallSound(events, NoCall, k)
    BY <1>1, <1>3, NoCallSound
  <1>5. CallsSound
    BY <1>4 DEF Init, CallsSound, Keys
  <1>6. \A k \in Branches : Sound(events, sess[k], k) /\ Sound(events, store[k], k)
    BY <1>1, NoSummarySound DEF Init, Keys
  <1> QED BY <1>2, <1>5, <1>6 DEF CoverInv

\* AppendEvent: what is sound stays so.
LEMMA CoverAppend ==
  ASSUME InOrder, CoverInv, NEW k \in Branches, NEW t \in 1..MaxEvents, AppendEvent(k, t)
  PROVE  CoverInv'
  <1> DEFINE e == [key |-> k, ts |-> t]
  <1>1. events \in Seq([key : Branches, ts : Nat]) /\ Numbered /\ Len(events) \in Nat
    BY DEF CoverInv, Numbered
  <1>2. t = Len(events) + 1 /\ e \in [key : Branches, ts : Nat]
    BY <1>1, NextTimestamp DEF AppendEvent
  <1>3. events' = Append(events, e) /\ UNCHANGED <<sess, store, call>>
    BY DEF AppendEvent
  <1> HIDE DEF e
  <1>4. Numbered'
    <2>1. /\ events' \in Seq([key : Branches, ts : Nat]) /\ DOMAIN events' = 1..(Len(events) + 1)
          /\ events'[Len(events) + 1] = e
          /\ \A i \in 1..Len(events) : events'[i] = events[i]
      BY <1>1, <1>2, <1>3
    <2>2. ASSUME NEW i \in DOMAIN events'
          PROVE  events'[i].ts = i
      <3>1. CASE i = Len(events) + 1
        BY <2>1, <1>2, <3>1 DEF e
      <3>2. CASE i # Len(events) + 1
        <4>1. i \in 1..Len(events) /\ i \in DOMAIN events
          BY <2>1, <3>2, <1>1
        <4> QED BY <4>1, <2>1, <1>1 DEF Numbered
      <3> QED BY <3>1, <3>2
    <2> QED BY <2>1, <2>2 DEF Numbered
  <1>5. Shape'
    BY <1>3 DEF CoverInv, Shape
  <1>6. \A s, l : Sound(events, s, l) => Sound(events', s, l)
    BY <1>1, <1>2, <1>3, AppendSound
  <1>7. \A q \in Procs, l \in Branches : CallSound(events', call[q][l], l)
    BY <1>6 DEF CoverInv, CallsSound, CallSound
  <1>8. CallsSound'
    <2>1. \A q \in Procs, l \in Branches : CallSound(events', call'[q][l], l)
      BY <1>3, <1>7
    <2> QED BY <2>1 DEF CallsSound, CallSound, Sound, Matches
  <1>9. \A l \in Branches : Sound(events', sess'[l], l) /\ Sound(events', store'[l], l)
    BY <1>3, <1>6 DEF CoverInv
  <1>10. \A l \in Branches : Sound(events, sess[l], l)' /\ Sound(events, store[l], l)'
    BY <1>9 DEF Sound, Matches
  <1> QED BY <1>4, <1>5, <1>8, <1>10 DEF CoverInv

\* The steps of the cascade begin calls, or forget them.  The copy is the full session's.
LEMMA CoverCascade ==
  ASSUME CoverInv, NEW p \in Procs, StartCascade(p) \/ CopySummary(p) \/ EndCascade(p)
  PROVE  CoverInv'
  <1>1. Shape /\ events \in Seq([key : Branches, ts : Nat])
    BY DEF CoverInv, Numbered
  <1>2. events' = events /\ store' = store
    BY DEF StartCascade, CopySummary, EndCascade
  <1>3. DOMAIN sess' = Keys /\ \A l \in Branches : sess'[l] = sess[l]
    BY <1>1, SummaryAssumption
    DEF StartCascade, CopySummary, EndCascade, Shape, Keys, AllContents
  <1>4. ASSUME NEW ks, Begin(p, ks)
        PROVE  /\ DOMAIN call' = Procs /\ \A q \in Procs : DOMAIN call'[q] = Keys
               /\ \A q \in Procs, l \in Keys :
                    call'[q][l] = call[q][l] \/ call'[q][l] = [NoCall EXCEPT !.pc = "read"]
    BY <1>1, <1>4 DEF Begin, Shape
  <1>5. ASSUME EndJob(p)
        PROVE  /\ DOMAIN call' = Procs /\ \A q \in Procs : DOMAIN call'[q] = Keys
               /\ \A q \in Procs, l \in Keys :
                    call'[q][l] = call[q][l] \/ call'[q][l] = NoCall
    BY <1>1, <1>5 DEF EndJob, Shape
  <1>6. /\ DOMAIN call' = Procs /\ \A q \in Procs : DOMAIN call'[q] = Keys
        /\ \A q \in Procs, l \in Keys :
             call'[q][l] \in {call[q][l], NoCall, [NoCall EXCEPT !.pc = "read"]}
    BY <1>4, <1>5 DEF StartCascade, CopySummary, EndCascade
  <1>7. \A l \in Branches : CallSound(events, NoCall, l) /\ CallSound(events, [NoCall EXCEPT !.pc = "read"], l)
    <2>1. NoCall = [NoCall EXCEPT !.pc = "none"] /\ "none" \in CallPcs /\ "read" \in CallPcs
      BY DEF NoCall, CallPcs
    <2> QED BY <2>1, <1>1, NoCallSound
  <1>8. \A q \in Procs, l \in Branches :
          call'[q][l] = call[q][l] \/ CallSound(events, call'[q][l], l)
    BY <1>6, <1>7 DEF Keys
  <1> QED BY <1>1, <1>2, <1>3, <1>6, <1>8, CoverStep DEF Shape

\* The events a summarizer includes are those the previous summary left out, up to the
\* last: together they are sound.
LEMMA DeltaSound ==
  ASSUME Numbered, NEW k, NEW s, Sound(events, s, k), NEW m \in DeltaSince(s.at, k)
  PROVE  /\ m \in Nat /\ m > 0 /\ m =< Len(events) /\ events[m].ts = m
         /\ Sound(events, [text |-> s.text \cup {i \in DeltaSince(s.at, k) : i =< m}, at |-> m], k)
  <1>1. Len(events) \in Nat /\ DOMAIN events = 1..Len(events) /\ \A i \in 1..Len(events) : events[i].ts = i
    BY DEF Numbered
  <1>2. m \in 1..Len(events) /\ events[m].ts = m
    BY <1>1 DEF DeltaSince
  <1>3. s.text \subseteq Nat /\ s.at \in Nat
    BY DEF Sound, Summaries
  <1>4. {i \in DeltaSince(s.at, k) : i =< m} \subseteq Nat
    BY <1>1 DEF DeltaSince
  <1>5. ASSUME NEW i \in 1..Len(events), Matches(events[i], k), i =< m
        PROVE  i \in s.text \/ i \in DeltaSince(s.at, k)
    <2>1. CASE i =< s.at
      BY <2>1, <1>5 DEF Sound
    <2>2. CASE i > s.at
      BY <2>2, <1>1, <1>5 DEF DeltaSince
    <2> QED BY <2>1, <2>2, <1>3, <1>1
  <1>6. Sound(events, [text |-> s.text \cup {i \in DeltaSince(s.at, k) : i =< m}, at |-> m], k)
    BY <1>2, <1>3, <1>4, <1>5, <1>1 DEF Sound, Summaries
  <1> QED BY <1>1, <1>2, <1>6

\* CreateSessionSummary for key k by process p, one step.
LEMMA CoverCall ==
  ASSUME CoverInv, NEW p \in Procs, NEW k \in Keys,
         \/ ReadPrevious(p, k) \/ ReadLatest(p, k) \/ TouchCopy(p, k)
         \/ \E m \in 0..MaxEvents : ReadDelta(p, k, m)
         \/ SkipSummary(p, k) \/ SummarizeFails(p, k)
         \/ WriteSummary(p, k) \/ ReadWritten(p, k) \/ PersistSummary(p, k)
  PROVE  CoverInv'
  <1> DEFINE c == call[p][k]
             Pure(pc) == call' = [call EXCEPT ![p][k] = [NoCall EXCEPT !.pc = pc]]
             Sessions == UNCHANGED <<sess, store>>
  <1>1. Shape /\ Numbered /\ events \in Seq([key : Branches, ts : Nat]) /\ events' = events
    BY DEF CoverInv, Numbered, ReadPrevious, ReadLatest, TouchCopy, ReadDelta, SkipSummary,
           SummarizeFails, WriteSummary, ReadWritten, PersistSummary
  <1>2. k \in Branches => CallSound(events, c, k) /\ Sound(events, sess[k], k)
    BY DEF CoverInv, CallsSound
  <1>3. ASSUME NEW d, call' = [call EXCEPT ![p][k] = d], k \in Branches => CallSound(events, d, k),
               DOMAIN sess' = Keys, DOMAIN store' = Keys,
               \A l \in Branches : /\ sess'[l] = sess[l] \/ Sound(events, sess'[l], l)
                                   /\ store'[l] = store[l] \/ Sound(events, store'[l], l)
        PROVE  CoverInv'
    <2>1. /\ DOMAIN call' = Procs /\ \A q \in Procs : DOMAIN call'[q] = Keys
          /\ call'[p][k] = d
          /\ \A q \in Procs, l \in Keys : q # p \/ l # k => call'[q][l] = call[q][l]
      BY <1>1, <1>3, ChangeCall
    <2>2. \A q \in Procs, l \in Branches :
            call'[q][l] = call[q][l] \/ CallSound(events, call'[q][l], l)
      BY <1>3, <2>1 DEF Keys
    <2> QED BY <1>1, <1>3, <2>1, <2>2, CoverStep
  <1>4. ASSUME NEW pc \in CallPcs, pc \notin {"latest", "touch", "model"}
        PROVE  k \in Branches => CallSound(events, [NoCall EXCEPT !.pc = pc], k)
    BY <1>1, <1>4, NoCallSound
  <1>5. CASE ReadPrevious(p, k)
    <2> DEFINE d == [c EXCEPT !.prev = sess[k],
                              !.pc = IF sess[k].text # {} /\ sess[k].at = 0 THEN "latest" ELSE "delta"]
    <2>1. call' = [call EXCEPT ![p][k] = d] /\ Sessions
      BY <1>5 DEF ReadPrevious
    <2>2. ASSUME k \in Branches
          PROVE  CallSound(events, d, k)
      <3>1. c \in Calls /\ sess[k] \in Summaries /\ Sound(events, c.sum, k) /\ Sound(events, sess[k], k)
        BY <1>2, <2>2 DEF CallSound, Sound
      <3>2. ~(sess[k].text # {} /\ sess[k].at = 0)
        BY <3>1 DEF Sound
      <3>3. d \in Calls /\ d.pc = "delta" /\ d.prev = sess[k] /\ d.sum = c.sum
        BY <3>1, <3>2 DEF Calls, CallPcs
      <3> HIDE DEF d
      <3> QED BY <3>1, <3>3 DEF CallSound
    <2> HIDE DEF d
    <2> QED BY <1>1, <1>3, <2>1, <2>2 DEF Shape
  <1>6. CASE ReadLatest(p, k)
    <2>1. k \notin Branches
      BY <1>2, <1>6 DEF ReadLatest, CallSound
    <2>2. \E d : call' = [call EXCEPT ![p][k] = d]
      BY <1>6 DEF ReadLatest
    <2> QED BY <1>1, <1>3, <1>6, <2>1, <2>2 DEF ReadLatest, Shape
  <1>7. CASE TouchCopy(p, k)
    <2>1. k \notin Branches
      BY <1>2, <1>7 DEF TouchCopy, CallSound
    <2>2. call' = [call EXCEPT ![p][k] = [NoCall EXCEPT !.pc = "persist"]] /\ store' = store
      BY <1>7 DEF TouchCopy, Step
    <2>3. DOMAIN sess' = Keys /\ \A l \in Branches : sess'[l] = sess[l]
      BY <1>1, <1>7, <2>1 DEF TouchCopy, Shape, Keys
    <2> QED BY <1>1, <1>3, <2>1, <2>2, <2>3 DEF Shape
  <1>8. ASSUME NEW m \in 0..MaxEvents, ReadDelta(p, k, m)
        PROVE  CoverInv'
    <2> DEFINE delta == DeltaSince(c.prev.at, k)
               incl == {i \in delta : i =< m}
               upTo == IF m = 0 THEN c.prev.at ELSE events[m].ts
               d == [c EXCEPT !.incl = incl, !.upTo = upTo, !.pc = "model"]
    <2>1. /\ call' = [call EXCEPT ![p][k] = d] /\ Sessions
          /\ m \in delta \/ (m = 0 /\ delta = {} /\ c.prev.text # {})
      BY <1>8 DEF ReadDelta
    <2>2. ASSUME k \in Branches
          PROVE  CallSound(events, d, k)
      <3>1. c \in Calls /\ Sound(events, c.prev, k) /\ Sound(events, c.sum, k)
        BY <1>2, <2>2 DEF CallSound
      <3>2. upTo \in Nat /\ incl \subseteq Nat /\ Sound(events, [text |-> c.prev.text \cup incl, at |-> upTo], k)
        <4>1. CASE m \in delta
          <5>1. /\ m \in Nat /\ m > 0 /\ m =< Len(events) /\ events[m].ts = m
                /\ Sound(events, [text |-> c.prev.text \cup incl, at |-> m], k)
            BY <1>1, <3>1, <4>1, DeltaSound
          <5>2. incl \subseteq Nat
            BY <5>1 DEF Sound, Summaries
          <5>3. upTo = m
            BY <5>1
          <5> HIDE DEF incl, upTo
          <5> QED BY <5>1, <5>2, <5>3
        <4>2. CASE m = 0 /\ delta = {}
          <5>1. incl = {} /\ upTo = c.prev.at
            BY <4>2
          <5>2. c.prev = [text |-> c.prev.text \cup {}, at |-> c.prev.at]
            BY <3>1 DEF Calls, Summaries
          <5>3. c.prev.at \in Nat
            BY <3>1 DEF Calls, Summaries
          <5> HIDE DEF incl, upTo
          <5> QED BY <5>1, <5>2, <5>3, <3>1
        <4> QED BY <2>1, <4>1, <4>2
      <3> HIDE DEF incl, upTo
      <3>3. d \in Calls /\ d.pc = "model" /\ d.prev = c.prev /\ d.sum = c.sum /\ d.incl = incl /\ d.upTo = upTo
        BY <3>1, <3>2 DEF Calls, CallPcs
      <3> HIDE DEF d
      <3> QED BY <3>1, <3>2, <3>3 DEF CallSound, Written
    <2> HIDE DEF d
    <2> QED BY <1>1, <1>3, <2>1, <2>2 DEF Shape
  <1>9. CASE SkipSummary(p, k) \/ SummarizeFails(p, k)
    <2>1. (Pure("done") \/ Pure("failed")) /\ Sessions
      BY <1>9 DEF SkipSummary, SummarizeFails, Step
    <2> QED BY <1>1, <1>3, <1>4, <2>1 DEF Shape, CallPcs
  <1>10. CASE WriteSummary(p, k)
    <2>1. Pure("persist") /\ store' = store /\ c.pc = "model"
          /\ sess' = [sess EXCEPT ![k] = Written(c)]
      BY <1>10 DEF WriteSummary, Step, Written
    <2>2. DOMAIN sess' = Keys /\ \A l \in Branches : sess'[l] = sess[l] \/ Sound(events, sess'[l], l)
      BY <1>1, <1>2, <2>1 DEF Shape, CallSound, Keys
    <2> QED BY <1>1, <1>3, <1>4, <2>1, <2>2 DEF Shape, CallPcs
  <1>11. CASE ReadWritten(p, k)
    <2> DEFINE d == [c EXCEPT !.sum = sess[k], !.pc = "store"]
    <2>1. call' = [call EXCEPT ![p][k] = d] /\ Sessions
      BY <1>11 DEF ReadWritten
    <2>2. k \in Branches => CallSound(events, d, k)
      BY <1>2 DEF CallSound, Sound, Calls, CallPcs, Summaries
    <2> HIDE DEF d
    <2> QED BY <1>1, <1>3, <2>1, <2>2 DEF Shape
  <1>12. CASE PersistSummary(p, k)
    <2>1. Pure("done") /\ sess' = sess /\ store' = [store EXCEPT ![k] = c.sum]
      BY <1>12 DEF PersistSummary, Step
    <2>2. DOMAIN store' = Keys /\ \A l \in Branches : store'[l] = store[l] \/ Sound(events, store'[l], l)
      BY <1>1, <1>2, <2>1 DEF Shape, CallSound, Keys
    <2> QED BY <1>1, <1>3, <1>4, <2>1, <2>2 DEF Shape, CallPcs
  <1> QED BY <1>5, <1>6, <1>7, <1>8, <1>9, <1>10, <1>11, <1>12

\* The invariant is inductive.
LEMMA CoverNext ==
  ASSUME InOrder, CoverInv, [Next]_vars
  PROVE  CoverInv'
  <1>1. CASE Run
    BY <1>1, CoverAppend DEF Run
  <1>2. ASSUME NEW p \in Procs, Cascade(p)
        PROVE  CoverInv'
    <2>1. CASE StartCascade(p) \/ CopySummary(p) \/ EndCascade(p)
      BY <2>1, CoverCascade
    <2>2. ASSUME NEW k \in Keys,
                 \/ ReadPrevious(p, k) \/ ReadLatest(p, k) \/ TouchCopy(p, k)
                 \/ \E m \in 0..MaxEvents : ReadDelta(p, k, m)
                 \/ SkipSummary(p, k) \/ SummarizeFails(p, k)
                 \/ WriteSummary(p, k) \/ ReadWritten(p, k) \/ PersistSummary(p, k)
          PROVE  CoverInv'
      BY <2>2, CoverCall
    <2> QED BY <1>2, <2>1, <2>2 DEF Cascade
  <1>3. CASE Enqueue \/ TakeJob \/ Stop \/ Stopped \/ Idle \/ UNCHANGED vars
    <2>1. UNCHANGED <<events, sess, store, call>>
      BY <1>3 DEF Enqueue, EnqueueJob, TakeJob, Stop, Stopped, Idle, vars
    <2> QED BY <2>1, CoverStep DEF CoverInv, Shape
  <1> QED BY <1>1, <1>2, <1>3 DEF Next

\* For events appended in the order they were created, the summaries of every branch, in
\* the session and in the store, cover all events up to their timestamp, however the
\* jobs of the worker and of callers interleave.
THEOREM BranchCoveredInOrder ==
  ASSUME InOrder
  PROVE  Spec => []BranchCovered
  <1>1. CoverInv => BranchCovered
    BY DEF CoverInv, Numbered, Sound, BranchCovered, Covered
  <1>2. CoverInv /\ [Next]_vars => CoverInv'
    BY CoverNext
  <1> QED BY <1>1, <1>2, CoverInit, PTL DEF Spec
=============================================================================
