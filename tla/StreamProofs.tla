---------------------------- MODULE StreamProofs ----------------------------
(***************************************************************************)
(* Proofs about StreamHub: its type invariant, CleanEOF, and that it       *)
(* implements BytePipe, for every buffer, number of bytes, retry policy,   *)
(* number of workers and read size.                                        *)
(*                                                                         *)
(* The bytes are numbered by the model that makes them, and the tap stops  *)
(* for good at the first byte it cannot write.  So what Write accepted is  *)
(* always the numbers from 1 on, what Read returned too, and between the   *)
(* two lie the reader's buffer and the chunks of the channel, without gap  *)
(* or overlap: that is InOrder below, the heart of the refinement.         *)
(***************************************************************************)
EXTENDS StreamHub, TLAPS

\* The bytes of s are those after the first k.
From(s, k) == \A i \in 1..Len(s) : s[i] = k + i

\* The last byte of a chunk that starts where its first byte says.
LastOf(s) == s[1] + Len(s) - 1

\* The chunks of c hold, one after the other, the bytes after lo up to hi.
Chunks(c, lo, hi) ==
  /\ lo =< hi
  /\ \A j \in 1..Len(c) :
       /\ Len(c[j]) > 0 /\ From(c[j], c[j][1] - 1) /\ LastOf(c[j]) =< hi
       /\ c[j][1] = IF j = 1 THEN lo + 1 ELSE LastOf(c[j - 1]) + 1
  /\ hi = IF Len(c) = 0 THEN lo ELSE LastOf(c[Len(c)])

\* What was read, the reader's buffer and the chunks, in this order, are what was sent.
InOrder ==
  /\ From(sent, 0) /\ From(got, 0) /\ From(buf, Len(got))
  /\ Chunks(ch, Len(got) + Len(buf), Len(sent))

\* Where the producer is, in relation to what it has sent.
ProducerInv ==
  /\ prod \in {"sending", "final"} =>
       Len(delta) > 0 /\ From(delta, Len(sent)) /\ made = Len(sent) + Len(delta)
  /\ prod = "sending" => ~broken
  /\ prod = "model" /\ ~broken => made = Len(sent)
  /\ ~writerOpen => made = 0 /\ sent = <<>> /\ prod \in {"queued", "start", "ended"}
  /\ prod = "closing" => outcome \in {"ok", "err", "interrupt"}
  /\ prod = "final" => outcome \in {"ok", "interrupt"}
  /\ outcome = "interrupt" => kind = "agent"

\* The producer ended without an error that its stream was told of, or the stream was
\* closed by another graph.
EndedWell == (prod = "ended" /\ outcome \in {"ok", "interrupt"}) \/ panicked \/ nested

\* What the consumer may have been told.
ConsumerInv ==
  /\ cons \in {"queued", "open", "reading", "polled", "waiting"} => result = "none"
  /\ closed = "nil" /\ cons \notin {"ended", "skipped"} => EndedWell
  /\ result = "EOF" => EndedWell

StreamInv == TypeOK /\ InOrder /\ ProducerInv /\ ConsumerInv

-----------------------------------------------------------------------------
(* Sequences of consecutive bytes.                                         *)

\* The chunk WriteDelta builds holds the bytes after those made before.
LEMMA DeltaFrom ==
  ASSUME NEW k \in Nat, NEW n \in Nat
  PROVE  LET d == [i \in 1..n |-> k + i]
         IN  d \in Seq(Nat) /\ Len(d) = n /\ From(d, k)
  BY DEF From

\* Bytes that follow s, put behind it.
LEMMA ConcatFrom ==
  ASSUME NEW s \in Seq(Nat), NEW t \in Seq(Nat), NEW k \in Nat,
         From(s, k), From(t, k + Len(s))
  PROVE  /\ s \o t \in Seq(Nat) /\ Len(s \o t) = Len(s) + Len(t)
         /\ From(s \o t, k)
  BY DEF From

\* The two parts of a chunk that CopyOut splits.
LEMMA SplitFrom ==
  ASSUME NEW b \in Seq(Nat), NEW k \in Nat, From(b, k), NEW m \in 0..Len(b)
  PROVE  /\ SubSeq(b, 1, m) \in Seq(Nat) /\ Len(SubSeq(b, 1, m)) = m
         /\ From(SubSeq(b, 1, m), k)
         /\ SubSeq(b, m + 1, Len(b)) \in Seq(Nat)
         /\ Len(SubSeq(b, m + 1, Len(b))) = Len(b) - m
         /\ From(SubSeq(b, m + 1, Len(b)), k + m)
  <1>1. /\ SubSeq(b, 1, m) \in Seq(Nat) /\ Len(SubSeq(b, 1, m)) = m
        /\ From(SubSeq(b, 1, m), k)
    BY DEF From
  <1>2. /\ SubSeq(b, m + 1, Len(b)) \in Seq(Nat)
        /\ Len(SubSeq(b, m + 1, Len(b))) = Len(b) - m
    OBVIOUS
  <1>3. From(SubSeq(b, m + 1, Len(b)), k + m)
    BY <1>2 DEF From
  <1> QED BY <1>1, <1>2, <1>3

\* Of two sequences of the first bytes, the shorter is a prefix of the longer.
LEMMA PrefixFrom ==
  ASSUME NEW s \in Seq(Nat), NEW t \in Seq(Nat),
         From(s, 0), From(t, 0), Len(t) =< Len(s)
  PROVE  t = SubSeq(s, 1, Len(t))
  BY DEF From

\* Where a chunk of the bytes after the first k begins and ends.
LEMMA LastFrom ==
  ASSUME NEW s \in Seq(Nat), NEW k \in Nat, Len(s) > 0, From(s, k)
  PROVE  s[1] = k + 1 /\ LastOf(s) = k + Len(s)
  <1>1. Len(s) \in Nat /\ 1 \in 1..Len(s)
    OBVIOUS
  <1>2. s[1] = k + 1
    BY <1>1 DEF From
  <1> QED BY <1>1, <1>2 DEF LastOf

\* A chunk that is not empty ends at a number.
LEMMA LastInt ==
  ASSUME NEW s \in Seq(Nat), Len(s) > 0
  PROVE  LastOf(s) \in Int
  <1>1. Len(s) \in Nat /\ s[1] \in Nat
    OBVIOUS
  <1> QED BY <1>1 DEF LastOf

\* Taking the first chunk out of the channel.
LEMMA TailChunks ==
  ASSUME NEW c \in Seq(Seq(Nat)), NEW lo \in Nat, NEW hi \in Nat,
         Chunks(c, lo, hi), c # <<>>
  PROVE  /\ Head(c) \in Seq(Nat) /\ Len(Head(c)) > 0 /\ From(Head(c), lo)
         /\ Tail(c) \in Seq(Seq(Nat)) /\ Len(Tail(c)) = Len(c) - 1
         /\ Chunks(Tail(c), lo + Len(Head(c)), hi)
  <1>1. Len(c) > 0 /\ Len(c) \in Nat /\ Head(c) = c[1] /\ c[1] \in Seq(Nat)
    OBVIOUS
  <1>2. Tail(c) \in Seq(Seq(Nat)) /\ Len(Tail(c)) = Len(c) - 1
        /\ \A j \in 1..(Len(c) - 1) : Tail(c)[j] = c[j + 1]
    BY <1>1
  <1>3. Len(c[1]) > 0 /\ c[1][1] = lo + 1 /\ From(c[1], lo) /\ LastOf(c[1]) = lo + Len(c[1])
    <2>1. Len(c[1]) > 0 /\ c[1][1] = lo + 1 /\ From(c[1], c[1][1] - 1)
      BY <1>1 DEF Chunks
    <2>2. c[1][1] - 1 = lo /\ Len(c[1]) \in Nat
      BY <2>1, <1>1
    <2>3. From(c[1], lo)
      BY <2>1, <2>2
    <2>4. LastOf(c[1]) = lo + Len(c[1])
      BY <2>1, <2>3, <1>1, LastFrom
    <2> QED BY <2>1, <2>3, <2>4
  <1>4. lo + Len(c[1]) =< hi
    BY <1>1, <1>3 DEF Chunks
  <1>5. ASSUME NEW j \in 1..(Len(c) - 1)
        PROVE  /\ Len(c[j + 1]) > 0 /\ From(c[j + 1], c[j + 1][1] - 1) /\ LastOf(c[j + 1]) =< hi
               /\ c[j + 1][1] = LastOf(c[j]) + 1
    <2>1. j + 1 \in 1..Len(c) /\ j + 1 # 1 /\ (j + 1) - 1 = j
      BY <1>1
    <2> QED BY <2>1 DEF Chunks
  <1>6. ASSUME NEW j \in 1..Len(Tail(c))
        PROVE  /\ Len(Tail(c)[j]) > 0 /\ From(Tail(c)[j], Tail(c)[j][1] - 1)
               /\ LastOf(Tail(c)[j]) =< hi
               /\ Tail(c)[j][1] = IF j = 1 THEN lo + Len(c[1]) + 1 ELSE LastOf(Tail(c)[j - 1]) + 1
    <2>1. j \in 1..(Len(c) - 1) /\ Tail(c)[j] = c[j + 1]
      BY <1>2
    <2>2. CASE j = 1
      BY <2>1, <2>2, <1>5, <1>3
    <2>3. CASE j # 1
      <3>1. j - 1 \in 1..(Len(c) - 1) /\ Tail(c)[j - 1] = c[j]
        BY <2>1, <2>3, <1>1, <1>2
      <3> QED BY <3>1, <2>1, <2>3, <1>5
    <2> QED BY <2>2, <2>3
  <1>7. hi = IF Len(Tail(c)) = 0 THEN lo + Len(c[1]) ELSE LastOf(Tail(c)[Len(Tail(c))])
    <2>1. hi = LastOf(c[Len(c)])
      BY <1>1 DEF Chunks
    <2>2. CASE Len(c) = 1
      BY <2>1, <2>2, <1>2, <1>3
    <2>3. CASE Len(c) # 1
      <3>1. Len(c) - 1 \in 1..(Len(c) - 1) /\ Tail(c)[Len(c) - 1] = c[Len(c)]
        BY <1>1, <1>2, <2>3
      <3> QED BY <3>1, <2>1, <2>3, <1>2
    <2> QED BY <2>2, <2>3
  <1> QED BY <1>1, <1>2, <1>3, <1>4, <1>6, <1>7 DEF Chunks

\* Putting a chunk into the channel.
LEMMA AppendChunks ==
  ASSUME NEW c \in Seq(Seq(Nat)), NEW lo \in Nat, NEW hi \in Nat, NEW d \in Seq(Nat),
         Chunks(c, lo, hi), Len(d) > 0, From(d, hi)
  PROVE  /\ Append(c, d) \in Seq(Seq(Nat)) /\ Len(Append(c, d)) = Len(c) + 1
         /\ Chunks(Append(c, d), lo, hi + Len(d))
  <1> DEFINE a == Append(c, d)
  <1>1. a \in Seq(Seq(Nat)) /\ Len(a) = Len(c) + 1 /\ Len(c) \in Nat
        /\ a[Len(c) + 1] = d /\ \A j \in 1..Len(c) : a[j] = c[j]
    OBVIOUS
  <1> HIDE DEF a
  <1>2. Len(d) \in Nat /\ d[1] = hi + 1 /\ From(d, d[1] - 1) /\ LastOf(d) = hi + Len(d)
    <2>1. d[1] = hi + 1 /\ LastOf(d) = hi + Len(d)
      BY LastFrom
    <2>2. d[1] - 1 = hi
      BY <2>1
    <2> QED BY <2>1, <2>2
  <1>3. ASSUME NEW j \in 1..Len(a)
        PROVE  /\ Len(a[j]) > 0 /\ From(a[j], a[j][1] - 1) /\ LastOf(a[j]) =< hi + Len(d)
               /\ a[j][1] = IF j = 1 THEN lo + 1 ELSE LastOf(a[j - 1]) + 1
    <2>1. CASE j \in 1..Len(c)
      <3>1. a[j] = c[j] /\ (j # 1 => a[j - 1] = c[j - 1])
        <4>1. Len(c) \in Nat /\ (j # 1 => j - 1 \in 1..Len(c))
          BY <2>1
        <4> QED BY <4>1, <2>1, <1>1
      <3>2. /\ Len(c[j]) > 0 /\ From(c[j], c[j][1] - 1) /\ LastOf(c[j]) =< hi
            /\ c[j][1] = IF j = 1 THEN lo + 1 ELSE LastOf(c[j - 1]) + 1
        BY <2>1 DEF Chunks
      <3>3. c[j] \in Seq(Nat)
        BY <2>1
      <3>4. LastOf(c[j]) \in Int
        BY <3>2, <3>3, LastInt
      <3>5. LastOf(a[j]) =< hi + Len(d)
        BY <3>1, <3>2, <3>4, <1>2
      <3> QED BY <3>1, <3>2, <3>5
    <2>2. CASE j = Len(c) + 1
      <3>1. a[j] = d
        BY <1>1, <2>2
      <3>2. CASE Len(c) = 0
        BY <3>1, <3>2, <1>2, <2>2 DEF Chunks
      <3>3. CASE Len(c) # 0
        <4>1. hi = LastOf(c[Len(c)]) /\ a[j - 1] = c[Len(c)]
          <5>1. j - 1 = Len(c) /\ Len(c) \in 1..Len(c)
            BY <3>3, <1>1, <2>2
          <5>2. a[j - 1] = c[Len(c)]
            BY <5>1, <1>1
          <5> QED BY <5>2, <3>3 DEF Chunks
        <4>2. j # 1
          BY <3>3, <2>2, <1>1
        <4>3. /\ Len(a[j]) > 0 /\ From(a[j], a[j][1] - 1) /\ LastOf(a[j]) =< hi + Len(d)
              /\ a[j][1] = LastOf(a[j - 1]) + 1
          BY <4>1, <3>1, <1>2
        <4> QED BY <4>2, <4>3
      <3> QED BY <3>2, <3>3
    <2>3. j \in 1..Len(c) \/ j = Len(c) + 1
      <3>1. Len(c) \in Nat /\ j \in 1..(Len(c) + 1)
        BY <1>1
      <3> QED BY <3>1
    <2> QED BY <2>1, <2>2, <2>3
  <1>4. lo =< hi + Len(d)
    BY <1>2 DEF Chunks
  <1>5. hi + Len(d) = LastOf(a[Len(a)])
    BY <1>1, <1>2
  <1>6. Chunks(a, lo, hi + Len(d))
    BY <1>1, <1>3, <1>4, <1>5 DEF Chunks
  <1> QED BY <1>1, <1>6 DEF a

-----------------------------------------------------------------------------
(* The invariant is inductive: the steps that move no bytes.               *)

\* A step that leaves the bytes alone keeps their order.
LEMMA SameOrder ==
  ASSUME InOrder, UNCHANGED <<ch, sent, got, buf>>
  PROVE  InOrder'
  BY DEF InOrder, Chunks, From, LastOf

\* Nothing has been made, sent or read.
LEMMA InitInv == Init => StreamInv
  <1> SUFFICES ASSUME Init PROVE StreamInv
    OBVIOUS
  <1>1. <<>> \in Seq(Seq(Nat)) /\ <<>> \in Seq(Nat) /\ Len(<<>>) = 0
    OBVIOUS
  <1>2. /\ ch \in Seq(Seq(Nat)) /\ Len(ch) =< Capacity
        /\ attempts \in 0..MaxAttempts /\ made \in 0..MaxBytes
    BY <1>1, StreamAssumption DEF Init
  <1>3. delta \in Seq(Nat) /\ buf \in Seq(Nat) /\ sent \in Seq(Nat) /\ got \in Seq(Nat)
    BY <1>1 DEF Init
  <1>4. TypeOK
    BY <1>2, <1>3 DEF Init, TypeOK, ProducerPcs, ConsumerPcs
  <1>5. InOrder
    BY DEF Init, InOrder, From, Chunks
  <1>6. ProducerInv /\ ConsumerInv
    BY DEF Init, ProducerInv, ConsumerInv
  <1> QED BY <1>4, <1>5, <1>6 DEF StreamInv

\* executeStep hands the producer's task to a worker.
LEMMA StartProducerInv ==
  ASSUME StreamInv, StartProducer
  PROVE  StreamInv'
  <1> USE DEF stream, producer, consumer
  <1>1. TypeOK'
    BY StreamAssumption DEF StreamInv, TypeOK, ProducerPcs, ConsumerPcs, Closings, StartProducer
  <1>2. InOrder'
    BY SameOrder DEF StreamInv, StartProducer
  <1>3. ProducerInv'
    BY DEF StreamInv, TypeOK, ProducerInv, From, StartProducer
  <1>4. ConsumerInv'
    BY DEF StreamInv, TypeOK, ProducerInv, ConsumerInv, EndedWell, StartProducer
  <1> QED BY <1>1, <1>2, <1>3, <1>4 DEF StreamInv

\* The stream has its writer, or the attempt fails on the one it had.
LEMMA OpenWriterInv ==
  ASSUME StreamInv, OpenWriter
  PROVE  StreamInv'
  <1> USE DEF stream, producer, consumer
  <1>1. TypeOK'
    <2>1. CASE writerOpen
      BY <2>1, StreamAssumption DEF StreamInv, TypeOK, ProducerPcs, OpenWriter, FailAttempt
    <2>2. CASE ~writerOpen
      BY <2>2 DEF StreamInv, TypeOK, ProducerPcs, OpenWriter
    <2> QED BY <2>1, <2>2
  <1>2. InOrder'
    BY SameOrder DEF StreamInv, OpenWriter
  <1>3. ProducerInv'
    BY DEF StreamInv, TypeOK, ProducerInv, From, OpenWriter, FailAttempt
  <1>4. ConsumerInv'
    BY DEF StreamInv, TypeOK, ProducerInv, ConsumerInv, EndedWell, OpenWriter, FailAttempt
  <1> QED BY <1>1, <1>2, <1>3, <1>4 DEF StreamInv

\* An attempt that never opens the writer leaves the stream as it was.
LEMMA EndBeforeOpenInv ==
  ASSUME StreamInv, EndBeforeOpen
  PROVE  StreamInv'
  <1> USE DEF stream, producer, consumer
  <1>1. TypeOK'
    BY StreamAssumption DEF StreamInv, TypeOK, ProducerPcs, ConsumerPcs, Closings, EndBeforeOpen, FailAttempt
  <1>2. InOrder'
    BY SameOrder DEF StreamInv, EndBeforeOpen
  <1>3. ProducerInv'
    BY DEF StreamInv, TypeOK, ProducerInv, From, EndBeforeOpen, FailAttempt
  <1>4. ConsumerInv'
    BY DEF StreamInv, TypeOK, ProducerInv, ConsumerInv, EndedWell, EndBeforeOpen, FailAttempt
  <1> QED BY <1>1, <1>2, <1>3, <1>4 DEF StreamInv

\* A delta that goes to the second select begins where the bytes sent end: until
\* the tap breaks, all that was made was sent.
LEMMA WriteDeltaInv ==
  ASSUME StreamInv, NEW n \in 1..MaxBytes, WriteDelta(n)
  PROVE  StreamInv'
  <1> USE DEF stream, producer, consumer
  <1> DEFINE d == [i \in 1..n |-> made + i]
  <1>a. made \in Nat /\ n \in Nat \ {0} /\ made + n \in 0..MaxBytes
    BY StreamAssumption DEF StreamInv, TypeOK, WriteDelta
  <1>b. d \in Seq(Nat) /\ Len(d) = n /\ From(d, made)
    BY <1>a, DeltaFrom
  <1> HIDE DEF d
  <1>c. \/ broken' /\ prod' = "model" /\ delta' = delta
        \/ ~broken' /\ ~broken /\ prod' = "sending" /\ delta' = d
    BY DEF WriteDelta, d
  <1>1. TypeOK'
    <2>1. delta' \in Seq(Nat) /\ prod' \in ProducerPcs /\ made' \in 0..MaxBytes
      BY <1>a, <1>b, <1>c DEF StreamInv, TypeOK, ProducerPcs, WriteDelta
    <2>2. sawDelta' \in BOOLEAN /\ broken' \in BOOLEAN
      BY DEF WriteDelta
    <2> QED BY <2>1, <2>2 DEF StreamInv, TypeOK, WriteDelta
  <1>2. InOrder'
    BY SameOrder DEF StreamInv, WriteDelta
  <1>3. ProducerInv'
    <2>1. /\ writerOpen' /\ sent' = sent /\ made' = made + n
          /\ (outcome = "interrupt" => kind = "agent")'
      BY DEF StreamInv, ProducerInv, WriteDelta
    <2>2. CASE broken'
      BY <2>1, <2>2, <1>c DEF StreamInv, ProducerInv
    <2>3. CASE ~broken'
      <3>1. made = Len(sent) /\ delta' = d /\ prod' = "sending"
        BY <2>3, <1>c DEF StreamInv, ProducerInv, WriteDelta
      <3>2. Len(delta') > 0 /\ From(delta', Len(sent')) /\ made' = Len(sent') + Len(delta')
        BY <3>1, <2>1, <1>a, <1>b
      <3>3. From(delta, Len(sent))'
        BY <3>2 DEF From
      <3> QED BY <2>1, <2>3, <3>1, <3>2, <3>3 DEF ProducerInv
    <2> QED BY <2>2, <2>3
  <1>4. ConsumerInv'
    BY DEF StreamInv, TypeOK, ProducerInv, ConsumerInv, EndedWell, WriteDelta
  <1> QED BY <1>1, <1>2, <1>3, <1>4 DEF StreamInv

\* The final chunk too begins where the bytes sent end.
LEMMA EndModelInv ==
  ASSUME StreamInv, NEW e \in {"ok", "err", "interrupt"}, NEW n \in 1..MaxBytes, EndModel(e, n)
  PROVE  StreamInv'
  <1> USE DEF stream, producer, consumer
  <1> DEFINE d == [i \in 1..n |-> made + i]
  <1>a. made \in Nat /\ n \in Nat \ {0}
    BY StreamAssumption DEF StreamInv, TypeOK
  <1>b. d \in Seq(Nat) /\ Len(d) = n /\ From(d, made)
    BY <1>a, DeltaFrom
  <1> HIDE DEF d
  <1>c. \/ /\ e # "err" /\ ~broken /\ prod' = "final" /\ delta' = d
           /\ made' = made + n /\ made + n \in 0..MaxBytes
        \/ prod' = "closing" /\ delta' = delta /\ made' = made
    BY <1>a, StreamAssumption DEF EndModel, d
  <1>1. TypeOK'
    <2>1. delta' \in Seq(Nat) /\ prod' \in ProducerPcs /\ made' \in 0..MaxBytes
      BY <1>b, <1>c DEF StreamInv, TypeOK, ProducerPcs
    <2> QED BY <2>1 DEF StreamInv, TypeOK, EndModel
  <1>2. InOrder'
    BY SameOrder DEF StreamInv, EndModel
  <1>3. ProducerInv'
    <2>1. writerOpen' /\ sent' = sent /\ outcome' = e /\ (e = "interrupt" => kind' = "agent")
      BY DEF StreamInv, ProducerInv, EndModel
    <2>2. CASE prod' = "closing"
      BY <2>1, <2>2 DEF ProducerInv
    <2>3. CASE prod' = "final"
      <3>1. made = Len(sent) /\ delta' = d /\ made' = made + n /\ e # "err"
        BY <2>3, <1>c DEF StreamInv, ProducerInv, EndModel
      <3>2. Len(delta') > 0 /\ From(delta', Len(sent')) /\ made' = Len(sent') + Len(delta')
        BY <3>1, <2>1, <1>a, <1>b
      <3>3. From(delta, Len(sent))'
        BY <3>2 DEF From
      <3> QED BY <2>1, <2>3, <3>1, <3>2, <3>3 DEF ProducerInv
    <2> QED BY <2>2, <2>3, <1>c
  <1>4. ConsumerInv'
    BY DEF StreamInv, TypeOK, ProducerInv, ConsumerInv, EndedWell, EndModel
  <1> QED BY <1>1, <1>2, <1>3, <1>4 DEF StreamInv

\* A chunk that is refused breaks the tap, or was the last.
LEMMA SendRefusedInv ==
  ASSUME StreamInv, SendRefused
  PROVE  StreamInv'
  <1> USE DEF stream, producer, consumer
  <1>1. TypeOK'
    BY StreamAssumption DEF StreamInv, TypeOK, ProducerPcs, ConsumerPcs, Closings, SendRefused, Written
  <1>2. InOrder'
    BY SameOrder DEF StreamInv, SendRefused
  <1>3. ProducerInv'
    BY DEF StreamInv, TypeOK, ProducerInv, From, SendRefused, Written
  <1>4. ConsumerInv'
    BY DEF StreamInv, TypeOK, ProducerInv, ConsumerInv, EndedWell, SendRefused, Written
  <1> QED BY <1>1, <1>2, <1>3, <1>4 DEF StreamInv

\* A panic closes the stream without an error only as a panic.
LEMMA PanicInv ==
  ASSUME StreamInv, Panic
  PROVE  StreamInv'
  <1> USE DEF stream, producer, consumer
  <1>1. TypeOK'
    BY StreamAssumption DEF StreamInv, TypeOK, ProducerPcs, ConsumerPcs, Closings, Panic, FailAttempt, CloseWithError
  <1>2. InOrder'
    BY SameOrder DEF StreamInv, Panic
  <1>3. ProducerInv'
    BY DEF StreamInv, TypeOK, ProducerInv, From, Panic, FailAttempt, CloseWithError
  <1>4. ConsumerInv'
    BY DEF StreamInv, TypeOK, ProducerInv, ConsumerInv, EndedWell, Panic, FailAttempt, CloseWithError
  <1> QED BY <1>1, <1>2, <1>3, <1>4 DEF StreamInv

\* The writer closes without an error only when the attempt succeeded.
LEMMA CloseWriterInv ==
  ASSUME StreamInv, CloseWriter
  PROVE  StreamInv'
  <1> USE DEF stream, producer, consumer
  <1>1. TypeOK'
    BY StreamAssumption DEF StreamInv, TypeOK, ProducerPcs, ConsumerPcs, Closings, CloseWriter, FailAttempt, CloseWithError
  <1>2. InOrder'
    BY SameOrder DEF StreamInv, CloseWriter
  <1>3. ProducerInv'
    BY DEF StreamInv, TypeOK, ProducerInv, From, CloseWriter, FailAttempt, CloseWithError
  <1>4. ConsumerInv'
    BY DEF StreamInv, TypeOK, ProducerInv, ConsumerInv, EndedWell, CloseWriter, FailAttempt, CloseWithError
  <1> QED BY <1>1, <1>2, <1>3, <1>4 DEF StreamInv

\* So does a panic that comes after the closing.
LEMMA PanicAfterCloseInv ==
  ASSUME StreamInv, PanicAfterClose
  PROVE  StreamInv'
  <1> USE DEF stream, producer, consumer
  <1>1. TypeOK'
    BY StreamAssumption DEF StreamInv, TypeOK, ProducerPcs, ConsumerPcs, Closings, PanicAfterClose, FailAttempt, CloseWithError
  <1>2. InOrder'
    BY SameOrder DEF StreamInv, PanicAfterClose
  <1>3. ProducerInv'
    BY DEF StreamInv, TypeOK, ProducerInv, From, PanicAfterClose, FailAttempt, CloseWithError
  <1>4. ConsumerInv'
    BY DEF StreamInv, TypeOK, ProducerInv, ConsumerInv, EndedWell, PanicAfterClose, FailAttempt, CloseWithError
  <1> QED BY <1>1, <1>2, <1>3, <1>4 DEF StreamInv

\* The executor closes without an error only when nobody reads any more.
LEMMA CloseAllInv ==
  ASSUME StreamInv, CloseAll
  PROVE  StreamInv'
  <1> USE DEF stream, producer, consumer
  <1>1. TypeOK'
    BY StreamAssumption DEF StreamInv, TypeOK, ProducerPcs, ConsumerPcs, Closings, CloseAll, Ended, CloseWithError
  <1>2. InOrder'
    BY SameOrder DEF StreamInv, CloseAll
  <1>3. ProducerInv'
    BY DEF StreamInv, TypeOK, ProducerInv, From, CloseAll, Ended, CloseWithError
  <1>4. ConsumerInv'
    BY DEF StreamInv, TypeOK, ProducerInv, ConsumerInv, EndedWell, CloseAll, Ended, CloseWithError
  <1> QED BY <1>1, <1>2, <1>3, <1>4 DEF StreamInv

\* The closing of another graph is on record.
LEMMA NestedCloseAllInv ==
  ASSUME StreamInv, NestedCloseAll
  PROVE  StreamInv'
  <1> USE DEF stream, producer, consumer
  <1>a. PICK e \in {"nil", "ctx"} : CloseWithError(e)
    BY DEF NestedCloseAll
  <1>1. TypeOK'
    BY <1>a DEF StreamInv, TypeOK, Closings, NestedCloseAll, CloseWithError
  <1>2. InOrder'
    BY SameOrder DEF StreamInv, NestedCloseAll
  <1>3. ProducerInv'
    BY DEF StreamInv, TypeOK, ProducerInv, From, NestedCloseAll
  <1>4. ConsumerInv'
    BY DEF StreamInv, TypeOK, ProducerInv, ConsumerInv, EndedWell, NestedCloseAll
  <1> QED BY <1>1, <1>2, <1>3, <1>4 DEF StreamInv

\* The steps that only move the consumer, and the end of the context.
LEMMA ConsumerStepInv ==
  ASSUME StreamInv, StartConsumer \/ OpenReader \/ SkipReader \/ PollEmpty \/ Quit \/ Expire
  PROVE  StreamInv'
  <1> USE DEF stream, producer, consumer
  <1>a. /\ UNCHANGED <<stream, nested, producer, buf, result, got, sent>>
        /\ cons' \in ConsumerPcs /\ expired' \in BOOLEAN
    BY DEF StreamInv, TypeOK, ConsumerPcs, StartConsumer, OpenReader, SkipReader, PollEmpty, Quit, Expire
  <1>1. TypeOK'
    BY <1>a DEF StreamInv, TypeOK
  <1>2. InOrder'
    BY SameOrder DEF StreamInv, StartConsumer, OpenReader, SkipReader, PollEmpty, Quit, Expire
  <1>3. ProducerInv'
    BY <1>a DEF StreamInv, ProducerInv, From
  <1>4. ConsumerInv'
    BY DEF StreamInv, TypeOK, ProducerInv, ConsumerInv, EndedWell, StartConsumer, OpenReader, SkipReader, PollEmpty, Quit, Expire
  <1> QED BY <1>1, <1>2, <1>3, <1>4 DEF StreamInv

\* The reader is told how the stream was closed.
LEMMA CheckDoneInv ==
  ASSUME StreamInv, CheckDone
  PROVE  StreamInv'
  <1> USE DEF stream, producer, consumer
  <1>1. TypeOK'
    BY StreamAssumption DEF StreamInv, TypeOK, ProducerPcs, ConsumerPcs, Closings, CheckDone, ReadErr, ReaderErr
  <1>2. InOrder'
    BY SameOrder DEF StreamInv, CheckDone
  <1>3. ProducerInv'
    BY DEF StreamInv, TypeOK, ProducerInv, From, CheckDone, ReadErr, ReaderErr
  <1>4. ConsumerInv'
    BY DEF StreamInv, TypeOK, ProducerInv, ConsumerInv, EndedWell, Closings, CheckDone, ReadErr, ReaderErr
  <1> QED BY <1>1, <1>2, <1>3, <1>4 DEF StreamInv

\* So it is by its last select, or it is told that its context ended.
LEMMA WaitEndsInv ==
  ASSUME StreamInv, WaitEnds
  PROVE  StreamInv'
  <1> USE DEF stream, producer, consumer
  <1>1. TypeOK'
    BY StreamAssumption DEF StreamInv, TypeOK, ProducerPcs, ConsumerPcs, Closings, WaitEnds, ReadErr, ReaderErr
  <1>2. InOrder'
    BY SameOrder DEF StreamInv, WaitEnds
  <1>3. ProducerInv'
    BY DEF StreamInv, TypeOK, ProducerInv, From, WaitEnds, ReadErr, ReaderErr
  <1>4. ConsumerInv'
    BY DEF StreamInv, TypeOK, ProducerInv, ConsumerInv, EndedWell, Closings, WaitEnds, ReadErr, ReaderErr
  <1> QED BY <1>1, <1>2, <1>3, <1>4 DEF StreamInv

\* The reader closes with an error, and reads no more.
LEMMA CloseReaderInv ==
  ASSUME StreamInv, CloseReader
  PROVE  StreamInv'
  <1> USE DEF stream, producer, consumer
  <1>1. TypeOK'
    BY StreamAssumption DEF StreamInv, TypeOK, ProducerPcs, ConsumerPcs, Closings, CloseReader, CloseWithError
  <1>2. InOrder'
    BY SameOrder DEF StreamInv, CloseReader
  <1>3. ProducerInv'
    BY DEF StreamInv, TypeOK, ProducerInv, From, CloseReader, CloseWithError
  <1>4. ConsumerInv'
    BY DEF StreamInv, TypeOK, ProducerInv, ConsumerInv, EndedWell, CloseReader, CloseWithError
  <1> QED BY <1>1, <1>2, <1>3, <1>4 DEF StreamInv

-----------------------------------------------------------------------------
(* The invariant is inductive: the steps that move bytes.                  *)

\* A chunk goes into the channel behind the bytes sent before it.
LEMMA SendChunkInv ==
  ASSUME StreamInv, SendChunk
  PROVE  StreamInv' /\ Len(sent') > Len(sent)
  <1> USE DEF stream, producer, consumer
  <1>1. /\ Len(delta) > 0 /\ From(delta, Len(sent)) /\ made = Len(sent) + Len(delta)
        /\ delta \in Seq(Nat) /\ sent \in Seq(Nat) /\ ch \in Seq(Seq(Nat))
        /\ got \in Seq(Nat) /\ buf \in Seq(Nat)
        /\ Len(ch) < Capacity /\ ch' = Append(ch, delta) /\ sent' = sent \o delta
        /\ UNCHANGED <<got, buf>> /\ From(sent, 0)
        /\ Chunks(ch, Len(got) + Len(buf), Len(sent))
    BY DEF StreamInv, TypeOK, InOrder, ProducerInv, SendChunk
  <1>2. sent' \in Seq(Nat) /\ Len(sent') = Len(sent) + Len(delta) /\ From(sent', 0)
    <2>1. From(delta, 0 + Len(sent))
      BY <1>1
    <2> QED BY <1>1, <2>1, ConcatFrom
  <1>3. Len(got) + Len(buf) \in Nat /\ Len(sent) \in Nat
    BY <1>1
  <1>4. /\ ch' \in Seq(Seq(Nat)) /\ Len(ch') = Len(ch) + 1
        /\ Chunks(ch', Len(got) + Len(buf), Len(sent) + Len(delta))
    BY <1>1, <1>3, AppendChunks
  <1>5. prod' \in {"model", "closing"} /\ delta' = <<>> /\ (prod' = "model" => prod = "sending")
        /\ (prod' = "closing" => prod = "final")
    BY DEF SendChunk, Written
  <1>6. TypeOK'
    <2>1. Len(ch') =< Capacity /\ delta' \in Seq(Nat) /\ prod' \in ProducerPcs
      BY <1>1, <1>4, <1>5, StreamAssumption DEF ProducerPcs
    <2> QED BY <1>2, <1>4, <2>1 DEF StreamInv, TypeOK, SendChunk
  <1>7. InOrder'
    <2>1. From(got, 0)' /\ From(buf, Len(got))'
      BY <1>1 DEF StreamInv, InOrder, From
    <2>2. Chunks(ch, Len(got) + Len(buf), Len(sent))'
      <3>1. Chunks(ch', Len(got') + Len(buf'), Len(sent'))
        BY <1>1, <1>2, <1>4
      <3> QED BY <3>1 DEF Chunks, From, LastOf
    <2>3. From(sent, 0)'
      BY <1>2 DEF From
    <2> QED BY <2>1, <2>2, <2>3 DEF InOrder
  <1>8. ProducerInv'
    BY <1>1, <1>2, <1>5 DEF StreamInv, ProducerInv, SendChunk
  <1>9. ConsumerInv'
    BY <1>5 DEF StreamInv, ConsumerInv, EndedWell, SendChunk
  <1> QED BY <1>1, <1>2, <1>6, <1>7, <1>8, <1>9 DEF StreamInv

\* CopyOut moves the boundary between what was read and what the reader holds, and
\* by at least one byte.
LEMMA CopyOutMoves ==
  ASSUME got \in Seq(Nat), From(got, 0), NEW b \in Seq(Nat), From(b, Len(got)), Len(b) > 0,
         NEW n \in Nat \ {0}, CopyOut(b, n)
  PROVE  /\ got' \in Seq(Nat) /\ buf' \in Seq(Nat) /\ From(got', 0) /\ From(buf', Len(got'))
         /\ Len(got') > Len(got) /\ Len(got') + Len(buf') = Len(got) + Len(b)
  <1> DEFINE m == IF n < Len(b) THEN n ELSE Len(b)
             p == SubSeq(b, 1, m)
  <1>1. m \in 0..Len(b) /\ m > 0 /\ Len(got) \in Nat /\ Len(b) \in Nat
    OBVIOUS
  <1>2. got' = got \o p /\ buf' = SubSeq(b, m + 1, Len(b))
    BY DEF CopyOut
  <1> HIDE DEF m
  <1>3. /\ p \in Seq(Nat) /\ Len(p) = m /\ From(p, Len(got))
        /\ buf' \in Seq(Nat) /\ Len(buf') = Len(b) - m /\ From(buf', Len(got) + m)
    BY <1>1, <1>2, SplitFrom
  <1> HIDE DEF p
  <1>4. got' \in Seq(Nat) /\ Len(got') = Len(got) + m /\ From(got', 0)
    <2>1. From(p, 0 + Len(got))
      BY <1>1, <1>3
    <2> QED BY <1>2, <1>3, <2>1, ConcatFrom
  <1> QED BY <1>1, <1>3, <1>4

\* A Read of the rest of a chunk.
LEMMA ReadRestInv ==
  ASSUME StreamInv, NEW n \in ReadSizes, ReadRest(n)
  PROVE  StreamInv' /\ Len(got') > Len(got)
  <1> USE DEF stream, producer, consumer
  <1>1. /\ got \in Seq(Nat) /\ buf \in Seq(Nat) /\ From(got, 0) /\ From(buf, Len(got))
        /\ buf # <<>> /\ CopyOut(buf, n) /\ UNCHANGED <<ch, sent>>
        /\ Chunks(ch, Len(got) + Len(buf), Len(sent)) /\ From(sent, 0)
    BY DEF StreamInv, TypeOK, InOrder, ReadRest
  <1>2. Len(buf) > 0 /\ n \in Nat \ {0}
    BY <1>1, StreamAssumption
  <1>3. /\ got' \in Seq(Nat) /\ buf' \in Seq(Nat) /\ From(got', 0) /\ From(buf', Len(got'))
        /\ Len(got') > Len(got) /\ Len(got') + Len(buf') = Len(got) + Len(buf)
    BY <1>1, <1>2, CopyOutMoves
  <1>4. cons = "reading" /\ cons' = "reading" /\ result' = result
    BY DEF ReadRest, CopyOut
  <1>5. TypeOK'
    BY <1>3, <1>4 DEF StreamInv, TypeOK, ReadRest
  <1>6. InOrder'
    BY <1>1, <1>3 DEF InOrder, Chunks, From, LastOf
  <1>7. ProducerInv'
    BY DEF StreamInv, ProducerInv, From, ReadRest
  <1>8. ConsumerInv'
    BY <1>4 DEF StreamInv, ConsumerInv, EndedWell, ReadRest
  <1> QED BY <1>3, <1>5, <1>6, <1>7, <1>8 DEF StreamInv

\* A Read that takes the next chunk: the reader's buffer is empty, so the chunk begins
\* where what was read ends.
LEMMA ReceiveInv ==
  ASSUME StreamInv, NEW n \in ReadSizes, Receive(n)
  PROVE  StreamInv' /\ Len(got') > Len(got)
  <1> USE DEF stream, producer, consumer
  <1>1. /\ got \in Seq(Nat) /\ From(got, 0) /\ ch \in Seq(Seq(Nat)) /\ sent \in Seq(Nat)
        /\ buf = <<>> /\ ch # <<>> /\ ch' = Tail(ch) /\ CopyOut(Head(ch), n)
        /\ Chunks(ch, Len(got) + Len(buf), Len(sent)) /\ From(sent, 0)
        /\ Len(ch) =< Capacity /\ sent' = sent
    BY DEF StreamInv, TypeOK, InOrder, Receive
  <1>2. Len(got) \in Nat /\ Len(sent) \in Nat /\ Len(got) + Len(buf) = Len(got) /\ n \in Nat \ {0}
    BY <1>1, StreamAssumption
  <1>3. /\ Head(ch) \in Seq(Nat) /\ Len(Head(ch)) > 0 /\ From(Head(ch), Len(got))
        /\ Tail(ch) \in Seq(Seq(Nat)) /\ Len(Tail(ch)) = Len(ch) - 1
        /\ Chunks(Tail(ch), Len(got) + Len(Head(ch)), Len(sent))
    BY <1>1, <1>2, TailChunks
  <1>4. /\ got' \in Seq(Nat) /\ buf' \in Seq(Nat) /\ From(got', 0) /\ From(buf', Len(got'))
        /\ Len(got') > Len(got) /\ Len(got') + Len(buf') = Len(got) + Len(Head(ch))
    BY <1>1, <1>2, <1>3, CopyOutMoves
  <1>5. cons \in {"reading", "waiting"} /\ cons' = "reading" /\ result' = result
    BY DEF Receive, CopyOut
  <1>6. TypeOK'
    <2>1. ch' \in Seq(Seq(Nat)) /\ Len(ch') =< Capacity
      BY <1>1, <1>3, StreamAssumption
    <2> QED BY <2>1, <1>4, <1>5 DEF StreamInv, TypeOK, ConsumerPcs, Receive
  <1>7. InOrder'
    <2>1. Chunks(ch', Len(got') + Len(buf'), Len(sent'))
      BY <1>1, <1>3, <1>4
    <2>2. Chunks(ch, Len(got) + Len(buf), Len(sent))'
      BY <2>1 DEF Chunks, From, LastOf
    <2> QED BY <1>1, <1>4, <2>2 DEF InOrder, From
  <1>8. ProducerInv'
    BY DEF StreamInv, ProducerInv, From, Receive
  <1>9. ConsumerInv'
    BY <1>5 DEF StreamInv, ConsumerInv, EndedWell, Receive
  <1> QED BY <1>4, <1>6, <1>7, <1>8, <1>9 DEF StreamInv

\* The invariant is inductive.
LEMMA StepInv == StreamInv /\ [Next]_vars => StreamInv'
  <1> SUFFICES ASSUME StreamInv, [Next]_vars PROVE StreamInv'
    OBVIOUS
  <1>1. CASE Produce
    BY <1>1, StartProducerInv, OpenWriterInv, EndBeforeOpenInv, WriteDeltaInv, EndModelInv,
       SendChunkInv, SendRefusedInv, PanicInv, PanicAfterCloseInv, CloseWriterInv DEF Produce
  <1>2. CASE Consume
    BY <1>2, ConsumerStepInv, ReadRestInv, ReceiveInv, CheckDoneInv, WaitEndsInv, CloseReaderInv
    DEF Consume
  <1>3. CASE CloseAll \/ NestedCloseAll \/ Expire
    BY <1>3, CloseAllInv, NestedCloseAllInv, ConsumerStepInv
  <1>4. CASE Over \/ UNCHANGED vars
    <2>1. UNCHANGED <<stream, expired, nested, producer, consumer, sent>>
      BY <1>4 DEF Over, vars
    <2>2. InOrder'
      BY <2>1, SameOrder DEF StreamInv, stream, consumer
    <2>3. TypeOK' /\ ProducerInv' /\ ConsumerInv'
      BY <2>1 DEF StreamInv, TypeOK, ProducerInv, ConsumerInv, EndedWell, From,
                  stream, producer, consumer
    <2> QED BY <2>2, <2>3 DEF StreamInv
  <1> QED BY <1>1, <1>2, <1>3, <1>4 DEF Next

\* The invariant holds of every behaviour.
LEMMA Invariance == Spec => []StreamInv
  BY InitInv, StepInv, PTL DEF Spec

\* The type invariant of the stream and of the two nodes: in particular the channel
\* never holds more chunks than its buffer, and an attempt is never one too many.
THEOREM TypeCorrect == Spec => []TypeOK
  <1>1. StreamInv => TypeOK
    BY DEF StreamInv
  <1> QED BY <1>1, Invariance, PTL

\* A consumer that read a clean end was not fed by an attempt that ended with an error,
\* however many the attempts are and however the closings race, but for the three ways
\* in which the code closes the stream without the node's error: a panic, the interrupt
\* of an Agent node, and the CloseAll of another graph's execution on the shared hub.
THEOREM CleanEOFHolds == Spec => []CleanEOF
  <1>1. StreamInv => CleanEOF
    BY DEF StreamInv, ProducerInv, ConsumerInv, EndedWell, CleanEOF
  <1> QED BY <1>1, Invariance, PTL

-----------------------------------------------------------------------------
(* The stream implements the pipe.                                         *)

\* A closing is the pipe's, or changes nothing.
LEMMA CloseShuts ==
  ASSUME StreamInv, NEW e \in Closings, CloseWithError(e), UNCHANGED <<sent, got, result>>
  PROVE  [Pipe!Next]_(Pipe!vars)
  BY DEF CloseWithError, Closings, Pipe!Closings, Pipe!Next, Pipe!Shut, Pipe!vars

\* A Read that returns bytes takes the next ones out of the pipe.
LEMMA ReadTakes ==
  ASSUME StreamInv, StreamInv', Len(got') > Len(got), cons \in {"reading", "waiting"},
         UNCHANGED <<sent, closed, result>>
  PROVE  Pipe!Take
  <1>1. /\ sent \in Seq(Nat) /\ got' \in Seq(Nat) /\ buf' \in Seq(Nat)
        /\ From(sent, 0) /\ From(got', 0) /\ Len(got') + Len(buf') =< Len(sent)
    BY DEF StreamInv, TypeOK, InOrder, From, Chunks
  <1>2. Len(got') =< Len(sent)
    BY <1>1
  <1>3. got' = SubSeq(sent, 1, Len(got'))
    BY <1>1, <1>2, PrefixFrom
  <1>4. result = "none"
    BY DEF StreamInv, ConsumerInv
  <1> QED BY <1>2, <1>3, <1>4 DEF Pipe!Take

\* A Write that is accepted puts its bytes behind those in the pipe.
LEMMA SendAccepts ==
  ASSUME StreamInv, SendChunk
  PROVE  Pipe!Accept
  <1>1. StreamInv' /\ Len(sent') > Len(sent)
    BY SendChunkInv
  <1>2. sent \in Seq(Nat) /\ sent' \in Seq(Nat) /\ From(sent, 0) /\ From(sent', 0)
    BY <1>1 DEF StreamInv, TypeOK, InOrder, From
  <1>3. Len(sent) =< Len(sent')
    BY <1>1, <1>2
  <1>4. sent = SubSeq(sent', 1, Len(sent))
    BY <1>2, <1>3, PrefixFrom
  <1> QED BY <1>1, <1>2, <1>4 DEF SendChunk, consumer, Pipe!Accept

\* A Read that returns an error tells the reader how the pipe was closed, or that
\* its context ended, for the first time.
LEMMA ReadErrTells ==
  ASSUME StreamInv, CheckDone \/ WaitEnds
  PROVE  [Pipe!Next]_(Pipe!vars)
  <1>1. result = "none" /\ UNCHANGED <<sent, got, closed>>
    BY DEF StreamInv, ConsumerInv, CheckDone, WaitEnds, stream
  <1>2. \/ closed # "open" /\ result' = Pipe!Told(closed)
        \/ result' = "ctx"
        \/ result' = result
    BY DEF CheckDone, WaitEnds, ReadErr, ReaderErr, Pipe!Told
  <1> QED BY <1>1, <1>2 DEF Pipe!Next, Pipe!Tell, Pipe!vars

\* Every step of the stream is a step of the pipe, or none.
LEMMA StepImplements ==
  ASSUME StreamInv, StreamInv', [Next]_vars
  PROVE  [Pipe!Next]_(Pipe!vars)
  <1> USE DEF stream, producer, consumer
  <1>1. CASE SendChunk
    BY <1>1, SendAccepts DEF Pipe!Next
  <1>2. ASSUME NEW n \in ReadSizes, ReadRest(n) \/ Receive(n)
        PROVE  Pipe!Next
    <2>1. Len(got') > Len(got)
      BY <1>2, ReadRestInv, ReceiveInv
    <2>2. cons \in {"reading", "waiting"} /\ UNCHANGED <<sent, closed, result>>
      BY <1>2 DEF ReadRest, Receive
    <2> QED BY <2>1, <2>2, ReadTakes DEF Pipe!Next
  <1>3. CASE CheckDone \/ WaitEnds
    BY <1>3, ReadErrTells
  <1>4. CASE CloseAll
    <2>1. \E e \in Closings : CloseWithError(e)
      BY <1>4 DEF CloseAll, Closings
    <2> QED BY <1>4, <2>1, CloseShuts DEF CloseAll
  <1>5. CASE NestedCloseAll
    <2>1. \E e \in Closings : CloseWithError(e)
      BY <1>5 DEF NestedCloseAll, Closings
    <2> QED BY <1>5, <2>1, CloseShuts DEF NestedCloseAll
  <1>6. CASE Panic
    <2>1. closed' = closed \/ \E e \in Closings : CloseWithError(e)
      BY <1>6 DEF Panic, Closings
    <2>2. UNCHANGED <<sent, got, result>>
      BY <1>6 DEF Panic
    <2> QED BY <2>1, <2>2, CloseShuts DEF Pipe!vars
  <1>7. CASE CloseWriter
    <2>1. \E e \in Closings : CloseWithError(e)
      BY <1>7 DEF CloseWriter, Closings
    <2> QED BY <1>7, <2>1, CloseShuts DEF CloseWriter
  <1>8. CASE PanicAfterClose
    <2>1. \E e \in Closings : CloseWithError(e)
      BY <1>8 DEF PanicAfterClose, Closings
    <2> QED BY <1>8, <2>1, CloseShuts DEF PanicAfterClose
  <1>9. CASE CloseReader
    <2>1. \E e \in Closings : CloseWithError(e)
      BY <1>9 DEF CloseReader, Closings
    <2> QED BY <1>9, <2>1, CloseShuts DEF CloseReader
  <1>10. CASE \/ StartProducer \/ OpenWriter \/ EndBeforeOpen \/ SendRefused
              \/ \E n \in 1..MaxBytes : WriteDelta(n)
              \/ \E e \in {"ok", "err", "interrupt"}, n \in 1..MaxBytes : EndModel(e, n)
    BY <1>10 DEF StartProducer, OpenWriter, EndBeforeOpen, SendRefused, WriteDelta, EndModel, Pipe!vars
  <1>11. CASE \/ StartConsumer \/ OpenReader \/ SkipReader \/ PollEmpty \/ Quit
              \/ Expire \/ Over \/ UNCHANGED vars
    BY <1>11 DEF StartConsumer, OpenReader, SkipReader, PollEmpty, Quit, Expire, Over, vars, Pipe!vars
  <1> QED
    BY <1>1, <1>2, <1>3, <1>4, <1>5, <1>6, <1>7, <1>8, <1>9, <1>10, <1>11
     DEF Next, Produce, Consume

\* StreamHub implements BytePipe: no schedule of Write, Read and the closings reorders,
\* repeats or skips a byte, or tells the reader of another end than the first closing.
THEOREM Refinement == Spec => ImplementsPipe
  <1>1. Init => Pipe!Init
    BY DEF Init, Pipe!Init
  <1>2. StreamInv /\ StreamInv' /\ [Next]_vars => [Pipe!Next]_(Pipe!vars)
    BY StepImplements
  <1> QED BY <1>1, <1>2, Invariance, PTL DEF Spec, ImplementsPipe, Pipe!Spec
=============================================================================
