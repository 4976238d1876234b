----------------------- MODULE OrderConsumerReporting -----------------------
(***************************************************************************)
(* What a process reports is true, for any number of processes, partitions *)
(* and faults: its counters balance, its published aggregate lags by less  *)
(* than EveryN orders, and every letter says why its message failed.  Each *)
(* comes from an invariant that says what holds at every place of the      *)
(* thread, not only where the report is made: BooksInv and LettersInv.     *)
(***************************************************************************)
EXTENDS OrderConsumerTypes

----------------------------------------------------------------------------
(* The books of one process, as its thread goes from place to place. *)

BookAt(place, a) ==
    /\ TallyAt(place, a)
    /\ PublishAggregates /\ ~EgressFaults => LagAt(place, a)

\* The thread goes on without touching its books ...
LEMMA BookMoves ==
    ASSUME NEW a \in AppType, NEW from, NEW to, BookAt(from, a),
           \/ <<from, to>> \in {<<"handle", "deliver">>, <<"deliver", "deliver">>,
                                <<"produce", "flush">>, <<"store", "emit">>,
                                <<"poll", "poll">>, <<"poll", "emit">>,
                                <<"down", "poll">>, <<"closeFlush", "closeLeave">>}
           \/ from = "emit" /\ to = "poll" /\ a.sinceLast < EveryN
           \/ from = "closeEmit" /\ to = "closeFlush" /\ a.agg = <<>>
           \/ from \in Looping /\ to = "closeEmit"
    PROVE  BookAt(to, a)
<1>1. /\ a.emitted \in Nat /\ a.sinceLast \in Nat /\ Len(a.agg) \in Nat
      /\ a.agg = <<>> => Len(a.agg) = 0
  BY DEF AppType
<1>2. TallyAt(to, a)
  <2>1. CASE from = "down" /\ to = "poll"
    BY <2>1 DEF BookAt, TallyAt, FreshApp
  <2>2. CASE ~(from = "down" /\ to = "poll")
    BY <2>2 DEF BookAt, TallyAt, Looping, Busy
  <2> QED
    BY <2>1, <2>2
<1>3. ASSUME LagAt(from, a) PROVE LagAt(to, a)
  BY <1>1, <1>3 DEF LagAt, Looping, Busy
<1> QED
  BY <1>2, <1>3 DEF BookAt

\* ... polls a message and counts it ...
LEMMA BookConsumed ==
    ASSUME NEW a \in AppType, BookAt("poll", a)
    PROVE  BookAt("handle", [a EXCEPT !.consumed = @ + 1])
BY DEF AppType, BookAt, TallyAt, LagAt, Looping, Busy

\* ... makes a letter of it ...
LEMMA BookDeadLettered ==
    ASSUME NEW a \in AppType, NEW from \in {"handle", "deliver"}, BookAt(from, a)
    PROVE  BookAt("produce", [a EXCEPT !.deadLettered = @ + 1])
BY DEF AppType, BookAt, TallyAt, LagAt, Looping, Busy

\* ... and publishes that ...
LEMMA BookPublished ==
    ASSUME NEW a \in AppType, BookAt("flush", a)
    PROVE  BookAt("store", [a EXCEPT !.letters = @ + 1])
BY DEF AppType, BookAt, TallyAt, LagAt, Looping, Busy

\* ... or delivers and aggregates it ...
LEMMA BookProcessed ==
    ASSUME NEW a \in AppType, NEW m \in Message, NEW n \in Nat, BookAt("deliver", a)
    PROVE  BookAt("store", Processed(a, m, n))
<1> DEFINE b == Processed(a, m, n)
<1>1. Len(Append(a.agg, m)) = Len(a.agg) + 1 /\ Len(a.agg) \in Nat
  BY DEF AppType
<1>2. /\ b.agg = Append(a.agg, m) /\ b.sinceLast = a.sinceLast + 1
      /\ b.processed = a.processed + 1 /\ b.emitted = a.emitted
      /\ b.retried \in {a.retried, a.retried + 1}
      /\ b.consumed = a.consumed /\ b.deadLettered = a.deadLettered
      /\ b.letters = a.letters
  BY DEF Processed, AppType
<1>3. /\ a.sinceLast \in Nat /\ a.processed \in Nat /\ a.retried \in Nat
      /\ a.consumed \in Nat /\ a.deadLettered \in Nat /\ a.letters \in Nat
      /\ a.emitted \in Nat
  BY DEF AppType
<1> HIDE DEF b
<1>4. TallyAt("store", b)
  <2>1. /\ a.processed = Len(a.agg) /\ a.retried <= a.processed
        /\ a.consumed = a.processed + a.deadLettered + 1
        /\ a.deadLettered = a.letters
    <3>1. TallyAt("deliver", a)
      BY DEF BookAt
    <3> QED BY <3>1 DEF TallyAt
  <2>2. b.processed = Len(b.agg) /\ b.retried <= b.processed
    BY <1>1, <1>2, <1>3, <2>1
  <2>3. b.consumed = b.processed + b.deadLettered /\ b.deadLettered = b.letters
    BY <1>2, <1>3, <2>1
  <2> QED
    BY <2>2, <2>3 DEF TallyAt
<1>5. ASSUME LagAt("deliver", a) PROVE LagAt("store", b)
  <2>1. /\ a.emitted <= Len(a.agg) /\ a.emitted + a.sinceLast = Len(a.agg)
    BY <1>5 DEF LagAt, Looping, Busy
  <2>2. /\ b.emitted = a.emitted /\ b.sinceLast = a.sinceLast + 1
        /\ Len(b.agg) = Len(a.agg) + 1
    BY <1>1, <1>2
  <2>3. a.emitted \in Nat /\ a.sinceLast \in Nat /\ Len(a.agg) \in Nat
    BY <1>1, <1>3
  <2>4. b.emitted <= Len(b.agg) /\ b.emitted + b.sinceLast = Len(b.agg)
    BY <2>1, <2>2, <2>3
  <2> QED
    BY <2>4 DEF LagAt
<1> QED
  BY <1>4, <1>5 DEF BookAt, b

\* ... emits a snapshot, in the loop or on its way out ...
LEMMA BookSnapshot ==
    ASSUME NEW a \in AppType, NEW from, NEW to, BookAt(from, a),
           \/ from = "emit" /\ to \in {"poll", "closeEmit"}
           \/ from = "closeEmit" /\ to = "closeFlush"
    PROVE  BookAt(to, Snapshot(a))
<1> DEFINE b == Snapshot(a)
<1>1. /\ b.agg = a.agg /\ b.sinceLast = 0 /\ b.processed = a.processed
      /\ b.retried = a.retried /\ b.consumed = a.consumed
      /\ b.deadLettered = a.deadLettered /\ b.letters = a.letters
      /\ PublishAggregates => b.emitted = Len(a.agg)
  BY DEF Snapshot, AppType
<1>2. Len(a.agg) \in Nat /\ 0 < EveryN
  BY EveryNAssumption DEF AppType
<1> HIDE DEF b
<1>3. TallyAt(to, b)
  BY <1>1 DEF BookAt, TallyAt
<1>4. ASSUME PublishAggregates PROVE LagAt(to, b)
  BY <1>1, <1>2, <1>4 DEF LagAt, Looping, Busy
<1> QED
  BY <1>3, <1>4 DEF BookAt, b

\* ... or fails to, which restarts the count all the same.
LEMMA BookDropped ==
    ASSUME NEW a \in AppType, NEW from, NEW to, BookAt(from, a),
           \/ from = "emit" /\ to \in {"poll", "closeEmit"} /\ EgressFaults
           \/ from = "closeEmit" /\ to = "closeFlush" /\ EgressFaults
           \/ from = "emit" /\ to = "closeEmit"
    PROVE  BookAt(to, [a EXCEPT !.sinceLast = 0])
<1>1. TallyAt(to, [a EXCEPT !.sinceLast = 0])
  BY DEF AppType, BookAt, TallyAt
<1>2. ASSUME ~EgressFaults, LagAt(from, a)
      PROVE  LagAt(to, [a EXCEPT !.sinceLast = 0])
  BY <1>2 DEF AppType, LagAt, Looping, Busy
<1> QED
  BY <1>1, <1>2 DEF BookAt

\* A process starts with empty books.
LEMMA BookFresh == BookAt("down", FreshApp)
<1>1. Len(<<>>) = 0 /\ 0 < EveryN
  BY EveryNAssumption
<1> QED
  BY <1>1, EveryNAssumption DEF BookAt, TallyAt, LagAt, FreshApp, Looping, Busy

LEMMA BookOfOne ==
    ASSUME BooksInv, NEW c \in Consumers, BookAt(pc'[c], app'[c]),
           \A d \in Consumers \ {c} : pc'[d] = pc[d] /\ app'[d] = app[d]
    PROVE  BooksInv'
BY DEF BooksInv, BookAt, TallyAt, LagAt

----------------------------------------------------------------------------
(* The steps. *)

LEMMA InitBooks == Init => BooksInv
BY BookFresh DEF Init, BooksInv, BookAt

\* Steps that touch neither a thread nor its books.
LEMMA QuietBooks ==
    ASSUME BooksInv, UNCHANGED <<pc, app>>
    PROVE  BooksInv'
BY DEF BooksInv, TallyAt, LagAt

LEMMA EscapeBooks ==
    ASSUME TypeOK, BooksInv, NEW c \in Consumers, Escape(c), UNCHANGED app,
           pc[c] \in Looping
    PROVE  BooksInv'
<1>1. app[c] \in AppType /\ BookAt(pc[c], app[c])
  BY DEF TypeOK, MemoryTypeOK, BooksInv, BookAt
<1>2. BookAt("closeEmit", app[c])
  BY <1>1, BookMoves
<1>3. pc'[c] = "closeEmit" /\ \A d \in Consumers \ {c} : pc'[d] = pc[d]
  BY DEF TypeOK, ThreadTypeOK, Escape
<1> QED
  BY <1>2, <1>3, BookOfOne

LEMMA GoneBooks ==
    ASSUME TypeOK, BooksInv, NEW c \in Consumers, Gone(c)
    PROVE  BooksInv'
<1>1. /\ pc'[c] = "down" /\ app'[c] = FreshApp
      /\ \A d \in Consumers \ {c} : pc'[d] = pc[d] /\ app'[d] = app[d]
  BY DEF TypeOK, ThreadTypeOK, MemoryTypeOK, Gone
<1> QED
  BY <1>1, BookFresh, BookOfOne

LEMMA ThreadStepBooks ==
    ASSUME TypeOK, BooksInv, NEW c \in Consumers, ThreadStep(c)
    PROVE  BooksInv'
<1> DEFINE a == app[c]
<1>0. a \in AppType /\ BookAt(pc[c], a)
  BY DEF TypeOK, MemoryTypeOK, BooksInv, BookAt
<1> USE DEF outside, inHand
\* Every step moves one thread to some place with some books.
<1>1. ASSUME NEW to, NEW b, pc' = [pc EXCEPT ![c] = to], app' = [app EXCEPT ![c] = b],
             BookAt(to, b)
      PROVE  BooksInv'
  <2>1. /\ pc'[c] = to /\ app'[c] = b
        /\ \A d \in Consumers \ {c} : pc'[d] = pc[d] /\ app'[d] = app[d]
    BY <1>1 DEF TypeOK, ThreadTypeOK, MemoryTypeOK
  <2> QED
    BY <1>1, <2>1, BookOfOne
<1>2. ASSUME NEW to, pc' = [pc EXCEPT ![c] = to], UNCHANGED app, BookAt(to, a)
      PROVE  BooksInv'
  <2>1. app' = [app EXCEPT ![c] = a]
    BY <1>2 DEF TypeOK, MemoryTypeOK
  <2> QED
    BY <1>1, <1>2, <2>1
<1>3. CASE DecodeFails(c) \/ Reject(c) \/ GiveUp(c)
           \/ \E error \in SinkRaises : SinkRefuses(c, error)
  <2>1. /\ pc[c] \in {"handle", "deliver"}
        /\ pc' = [pc EXCEPT ![c] = "produce"]
        /\ app' = [app EXCEPT ![c] = [a EXCEPT !.deadLettered = @ + 1]]
    BY <1>3 DEF DecodeFails, Reject, GiveUp, SinkRefuses, DeadLetter
  <2>2. BookAt("produce", [a EXCEPT !.deadLettered = @ + 1])
    BY <1>0, <2>1, BookDeadLettered
  <2> QED
    BY <1>1, <2>1, <2>2
<1>4. CASE Accept(c)
  <2>1. BookAt("deliver", a)
    BY <1>0, <1>4, BookMoves DEF Accept
  <2> QED
    BY <1>2, <1>4, <2>1 DEF Accept
<1>5. CASE DeliverOk(c)
  <2>1. cur[c] \in Message /\ attempt[c] \in Nat
    BY <1>5, MaxAttemptsAssumption DEF DeliverOk, TypeOK, ThreadTypeOK, Busy
  <2>2. BookAt("store", Processed(a, cur[c], attempt[c]))
    BY <1>0, <1>5, <2>1, BookProcessed DEF DeliverOk
  <2> QED
    BY <1>1, <1>5, <2>2 DEF DeliverOk
<1>6. CASE Retry(c)
  BY <1>6, QuietBooks DEF Retry
<1>7. ASSUME NEW error \in SinkRaises, SinkEscapes(c, error)
      PROVE  BooksInv'
  BY <1>7, EscapeBooks DEF SinkEscapes, Looping, Busy
<1>8. CASE Enqueue(c)
  <2>1. BookAt("flush", a)
    BY <1>0, <1>8, BookMoves DEF Enqueue
  <2> QED
    BY <1>2, <1>8, <2>1 DEF Enqueue
<1>9. CASE Published(c)
  <2>1. BookAt("store", [a EXCEPT !.letters = @ + 1])
    BY <1>0, <1>9, BookPublished DEF Published
  <2> QED
    BY <1>1, <1>9, <2>1 DEF Published
<1>10. CASE StoreOffset(c)
  <2>1. BookAt("emit", a)
    BY <1>0, <1>10, BookMoves DEF StoreOffset
  <2> QED
    BY <1>2, <1>10, <2>1 DEF StoreOffset
<1>11. CASE EmitNot(c)
  <2>1. a.sinceLast < EveryN
    BY <1>0, <1>11, EveryNAssumption DEF EmitNot, CertainlyDue, AppType
  <2>2. BookAt(NextRound(c), a)
    BY <1>0, <1>11, <2>1, BookMoves DEF EmitNot, NextRound, Looping
  <2> QED
    BY <1>2, <1>11, <2>2 DEF EmitNot
<1>12. CASE Emit(c)
  <2>1. pc[c] = "emit" /\ NextRound(c) \in {"poll", "closeEmit"}
    BY <1>12 DEF Emit, NextRound
  <2>2. CASE app' = [app EXCEPT ![c] = Snapshot(@)]
    <3>1. BookAt(NextRound(c), Snapshot(a))
      BY <1>0, <2>1, BookSnapshot
    <3> QED
      BY <1>1, <1>12, <2>2, <3>1 DEF Emit
  <2>3. CASE EgressFaults /\ app' = [app EXCEPT ![c].sinceLast = 0]
    <3>1. BookAt(NextRound(c), [a EXCEPT !.sinceLast = 0])
      BY <1>0, <2>1, <2>3, BookDropped
    <3> QED
      BY <1>1, <1>12, <2>3, <3>1 DEF Emit
  <2> QED
    BY <1>12, <2>2, <2>3 DEF Emit, Emission
<1>13. CASE CloseEmit(c)
  <2>1. CASE a.agg = <<>>
    <3>1. BookAt("closeFlush", a)
      BY <1>0, <1>13, <2>1, BookMoves DEF CloseEmit
    <3> QED
      BY <1>2, <1>13, <2>1, <3>1 DEF CloseEmit
  <2>2. CASE app' = [app EXCEPT ![c] = Snapshot(@)]
    <3>1. BookAt("closeFlush", Snapshot(a))
      BY <1>0, <1>13, BookSnapshot DEF CloseEmit
    <3> QED
      BY <1>1, <1>13, <2>2, <3>1 DEF CloseEmit
  <2>3. CASE EgressFaults /\ app' = [app EXCEPT ![c].sinceLast = 0]
    <3>1. BookAt("closeFlush", [a EXCEPT !.sinceLast = 0])
      BY <1>0, <1>13, <2>3, BookDropped DEF CloseEmit
    <3> QED
      BY <1>1, <1>13, <2>3, <3>1 DEF CloseEmit
  <2> QED
    BY <1>13, <2>1, <2>2, <2>3 DEF CloseEmit, Emission
<1>14. CASE CloseFlush(c)
  <2>1. BookAt("closeLeave", a)
    BY <1>0, <1>14, BookMoves DEF CloseFlush
  <2> QED
    BY <1>2, <1>14, <2>1 DEF CloseFlush
<1>15. CASE CloseLeave(c)
  BY <1>15, GoneBooks DEF CloseLeave
<1> QED
  BY <1>3, <1>4, <1>5, <1>6, <1>7, <1>8, <1>9, <1>10, <1>11, <1>12, <1>13, <1>14, <1>15
  DEF ThreadStep

LEMMA ProcessBooks ==
    ASSUME TypeOK, BooksInv, NEW c \in Consumers,
           \/ \E p \in Partitions : PollMessage(c, p)
           \/ Polling(c) \/ ThreadFault(c) \/ ProcessStep(c)
    PROVE  BooksInv'
<1> DEFINE a == app[c]
<1>0. a \in AppType /\ BookAt(pc[c], a)
  BY DEF TypeOK, MemoryTypeOK, BooksInv, BookAt
<1> USE DEF outside, inHand
<1>1. ASSUME NEW to, pc' = [pc EXCEPT ![c] = to], UNCHANGED app, BookAt(to, a)
      PROVE  BooksInv'
  <2>1. /\ pc'[c] = to /\ app'[c] = a
        /\ \A d \in Consumers \ {c} : pc'[d] = pc[d] /\ app'[d] = app[d]
    BY <1>1 DEF TypeOK, ThreadTypeOK, MemoryTypeOK
  <2> QED
    BY <1>1, <2>1, BookOfOne
<1>2. ASSUME NEW p \in Partitions, PollMessage(c, p)
      PROVE  BooksInv'
  <2>1. BookAt("handle", [a EXCEPT !.consumed = @ + 1])
    BY <1>0, <1>2, BookConsumed DEF PollMessage
  <2>2. /\ pc'[c] = "handle" /\ app'[c] = [a EXCEPT !.consumed = @ + 1]
        /\ \A d \in Consumers \ {c} : pc'[d] = pc[d] /\ app'[d] = app[d]
    BY <1>2 DEF PollMessage, TypeOK, ThreadTypeOK, MemoryTypeOK
  <2> QED
    BY <2>1, <2>2, BookOfOne
<1>3. CASE PollNothing(c)
  <2>1. BookAt(NextRound(c), a)
    BY <1>0, <1>3, BookMoves DEF PollNothing, NextRound, Looping
  <2> QED
    BY <1>1, <1>3, <2>1 DEF PollNothing
<1>4. CASE PollTimeout(c)
  <2>1. BookAt("emit", a)
    BY <1>0, <1>4, BookMoves DEF PollTimeout
  <2> QED
    BY <1>1, <1>4, <2>1 DEF PollTimeout
<1>5. CASE PollFatal(c) \/ EnqueueRaises(c) \/ SecondSignal(c)
  BY <1>5, EscapeBooks
  DEF PollFatal, EnqueueRaises, SecondSignal, Looping, Busy
<1>6. CASE EmitRaises(c)
  <2>1. BookAt("closeEmit", [a EXCEPT !.sinceLast = 0])
    BY <1>0, <1>6, BookDropped DEF EmitRaises
  <2>2. /\ pc'[c] = "closeEmit" /\ app'[c] = [a EXCEPT !.sinceLast = 0]
        /\ \A d \in Consumers \ {c} : pc'[d] = pc[d] /\ app'[d] = app[d]
    BY <1>6 DEF EmitRaises, Escape, TypeOK, ThreadTypeOK, MemoryTypeOK
  <2> QED
    BY <2>1, <2>2, BookOfOne
<1>7. CASE CloseEmitRaises(c) \/ Crash(c) \/ SignalWhileClosing(c)
  BY <1>7, GoneBooks DEF CloseEmitRaises, Crash, SignalWhileClosing
<1>8. CASE Start(c)
  <2>1. BookAt("poll", a)
    BY <1>0, <1>8, BookMoves DEF Start
  <2> QED
    BY <1>1, <1>8, <2>1 DEF Start
<1>9. CASE FirstSignal(c)
  BY <1>9, QuietBooks DEF FirstSignal
<1> QED
  BY <1>2, <1>3, <1>4, <1>5, <1>6, <1>7, <1>8, <1>9
  DEF Polling, ThreadFault, ProcessStep

LEMMA NextBooks == TypeOK /\ BooksInv /\ [Next]_vars => BooksInv'
<1> SUFFICES ASSUME TypeOK, BooksInv, [Next]_vars PROVE BooksInv'
  OBVIOUS
<1>1. CASE UNCHANGED vars
  BY <1>1, QuietBooks DEF vars, program
<1>2. CASE \E p \in Partitions, k \in Kinds : Produce(p, k)
  BY <1>2, QuietBooks DEF Produce, program
<1>3. ASSUME NEW c \in Consumers, GroupStep(c) \/ Background(c)
      PROVE  BooksInv'
  BY <1>3, QuietBooks
  DEF GroupStep, Assign, Revoke, Evict, LosePartitions, Background, AutoCommit,
      EgressDeliver, EgressExpire, program
<1> QED
  BY <1>1, <1>2, <1>3, ThreadStepBooks, ProcessBooks DEF Next

\* The books of every process are right at every place of its thread.
THEOREM BooksKept == Spec => []BooksInv
BY InitBooks, NextBooks, TypeCorrect, PTL DEF Spec

\* The counters a process reports balance between two messages, whatever the sink,
\* the registry, the egress and the operator did to the ones before.
THEOREM Balanced == Spec => []TallyBalances
<1>1. BooksInv => TallyBalances
  BY DEF BooksInv, TallyAt, TallyBalances
<1> QED
  BY <1>1, BooksKept, PTL

\* The published aggregate lags less than EveryN orders behind at every poll and
\* covers everything once the process leaves.
THEOREM LagBounded == Spec => []SnapshotLag
<1>1. TypeOK /\ BooksInv => SnapshotLag
  <2> SUFFICES ASSUME TypeOK, BooksInv, PublishAggregates, ~EgressFaults,
                      NEW c \in Consumers
               PROVE  /\ pc[c] = "poll" => Len(app[c].agg) - app[c].emitted < EveryN
                      /\ pc[c] \in {"closeFlush", "closeLeave"}
                            => app[c].emitted = Len(app[c].agg)
    BY DEF SnapshotLag
  <2>1. app[c].emitted \in Nat /\ app[c].sinceLast \in Nat
    BY DEF TypeOK, MemoryTypeOK, AppType
  <2>2. LagAt(pc[c], app[c])
    BY DEF BooksInv
  <2> QED
    BY <2>1, <2>2, EveryNAssumption DEF LagAt, Looping
<1> QED
  BY <1>1, TypeCorrect, BooksKept, PTL

----------------------------------------------------------------------------
(* Letters. *)

\* A letter made where the code makes one tells why.
LEMMA LetterTells ==
    ASSUME NEW m, NEW error, NEW n,
           \/ /\ error = "DeserializationError" /\ n = 1
              /\ Kind(m) = "corrupt" \/ RegistryFaults
           \/ error = "ValidationError" /\ n = 1 /\ Kind(m) = "invalid"
           \/ /\ error = "RetryExhaustedError" /\ n = MaxAttempts
              /\ Kind(m) = "valid" /\ "TransientProcessingError" \in SinkRaises
           \/ /\ error \in SinkRaises /\ IsA(error, "ProcessingError")
              /\ ~IsA(error, "TransientProcessingError") /\ Kind(m) = "valid"
    PROVE  TellsWhy([origin |-> m, reason |-> Classify(error), attempts |-> n])
<1> DEFINE l == [origin |-> m, reason |-> Classify(error), attempts |-> n]
<1>0. l.origin = m /\ l.reason = Classify(error) /\ l.attempts = n
  OBVIOUS
<1>1. /\ Classify("DeserializationError") = "DESERIALIZATION_FAILURE"
      /\ Classify("ValidationError") = "VALIDATION_FAILURE"
      /\ Classify("RetryExhaustedError") = "RETRY_EXHAUSTED"
      /\ Classify("PermanentProcessingError") = "VALIDATION_FAILURE"
      /\ Classify("ProcessingError") = "UNEXPECTED_ERROR"
  BY DEF Classify, IsA, Bases
<1>2. error \in SinkRaises /\ IsA(error, "ProcessingError")
          /\ ~IsA(error, "TransientProcessingError")
        => error \in {"PermanentProcessingError", "ProcessingError"}
  BY SinkRaisesAssumption DEF IsA, Bases
<1> HIDE DEF l
<1>3. TellsWhy(l)
  BY <1>0, <1>1, <1>2 DEF TellsWhy
<1> QED
  BY <1>3 DEF l

\* Letters, messages and threads stay as they are.
LEMMA StillLetters ==
    ASSUME LettersInv, UNCHANGED <<log, dlqTopic, flight, cur, letter, pc>>
    PROVE  LettersInv'
<1>1. \A m : /\ InLog(m) => InLog(m)'
             /\ Kind(m)' = Kind(m)
  BY DEF InLog, Kind
<1>2. \A l : TellsWhy(l) => TellsWhy(l)'
  BY <1>1 DEF TellsWhy
<1>3. \A d \in Consumers :
        /\ (cur[d] # None => InLog(cur[d]))'
        /\ (pc[d] = "deliver" => Kind(cur[d]) = "valid")'
  BY <1>1 DEF LettersInv
<1>4. \A d \in Consumers : (pc[d] \in {"produce", "flush"} => TellsWhy(letter[d]))'
  <2> SUFFICES ASSUME NEW d \in Consumers, pc[d] \in {"produce", "flush"}
               PROVE  TellsWhy(letter[d])'
    OBVIOUS
  <2>1. TellsWhy(letter[d])
    BY DEF LettersInv
  <2> QED BY <2>1 DEF TellsWhy, Kind
<1>5. \A d \in Consumers : \A l \in flight'[d] : TellsWhy(l)' /\ InLog(l.origin)'
  BY <1>1, <1>2 DEF LettersInv
<1>6. \A l \in dlqTopic' : TellsWhy(l)' /\ InLog(l.origin)'
  BY <1>1, <1>2 DEF LettersInv
<1> QED
  BY <1>3, <1>4, <1>5, <1>6 DEF LettersInv

\* A thread moves, with its message in hand or without one.
LEMMA ThreadLetters ==
    ASSUME LettersInv, NEW c \in Consumers, UNCHANGED <<log, dlqTopic>>,
           \A d \in Consumers \ {c} :
               /\ cur'[d] = cur[d] /\ letter'[d] = letter[d] /\ pc'[d] = pc[d]
               /\ flight'[d] = flight[d],
           cur'[c] \in {cur[c], None},
           (pc[c] = "deliver" => Kind(cur[c]) = "valid")',
           (pc[c] \in {"produce", "flush"} => TellsWhy(letter[c]))',
           \A l \in flight'[c] :
               l \in flight[c] \/ (TellsWhy(l) /\ InLog(l.origin))
    PROVE  LettersInv'
<1>1. \A l : TellsWhy(l) => TellsWhy(l)'
  BY DEF TellsWhy, Kind
<1>2. \A m : /\ InLog(m) => InLog(m)'
             /\ Kind(m)' = Kind(m)
  BY DEF InLog, Kind
<1>3. \A l \in dlqTopic' : TellsWhy(l)' /\ InLog(l.origin)'
  BY <1>1, <1>2 DEF LettersInv
<1>4. ASSUME NEW d \in Consumers, d # c
      PROVE  /\ (cur[d] # None => InLog(cur[d]))'
             /\ (pc[d] = "deliver" => Kind(cur[d]) = "valid")'
             /\ (pc[d] \in {"produce", "flush"} => TellsWhy(letter[d]))'
             /\ \A l \in flight'[d] : TellsWhy(l)' /\ InLog(l.origin)'
  <2>1. /\ cur'[d] = cur[d] /\ letter'[d] = letter[d] /\ pc'[d] = pc[d]
        /\ flight'[d] = flight[d]
    BY <1>4
  <2>2. /\ cur[d] # None => InLog(cur[d])
        /\ pc[d] = "deliver" => Kind(cur[d]) = "valid"
        /\ pc[d] \in {"produce", "flush"} => TellsWhy(letter[d])
        /\ \A l \in flight[d] : TellsWhy(l) /\ InLog(l.origin)
    BY DEF LettersInv
  <2>3. /\ (cur[d] # None => InLog(cur[d]))'
        /\ (pc[d] = "deliver" => Kind(cur[d]) = "valid")'
    BY <2>1, <2>2 DEF InLog, Kind
  <2>4. (pc[d] \in {"produce", "flush"} => TellsWhy(letter[d]))'
    BY <2>1, <2>2 DEF Kind, TellsWhy
  <2>5. \A l \in flight'[d] : TellsWhy(l)' /\ InLog(l.origin)'
    BY <1>1, <1>2, <2>1, <2>2
  <2> QED BY <2>3, <2>4, <2>5
<1>5. /\ (cur[c] # None => InLog(cur[c]))'
      /\ (pc[c] = "deliver" => Kind(cur[c]) = "valid")'
      /\ (pc[c] \in {"produce", "flush"} => TellsWhy(letter[c]))'
      /\ \A l \in flight'[c] : TellsWhy(l)' /\ InLog(l.origin)'
  <2>1. (cur[c] # None => InLog(cur[c]))'
    BY DEF LettersInv, InLog
  <2>2. (pc[c] = "deliver" => Kind(cur[c]) = "valid")'
    OBVIOUS
  <2>3. (pc[c] \in {"produce", "flush"} => TellsWhy(letter[c]))'
    BY DEF TellsWhy, Kind
  <2>4. \A l \in flight[c] : TellsWhy(l) /\ InLog(l.origin)
    BY DEF LettersInv
  <2>5. \A l \in flight'[c] : TellsWhy(l)' /\ InLog(l.origin)'
    BY <1>1, <1>2, <2>4
  <2> QED BY <2>1, <2>2, <2>3, <2>5
<1> QED
  BY <1>3, <1>4, <1>5 DEF LettersInv

\* A thread that drops its message, or has its process end.
LEMMA EscapeLetters ==
    ASSUME TypeOK, LettersInv, NEW c \in Consumers, Escape(c),
           UNCHANGED <<log, dlqTopic, flight>>
    PROVE  LettersInv'
<1>1. /\ pc'[c] = "closeEmit" /\ cur'[c] = None
      /\ \A d \in Consumers \ {c} :
            cur'[d] = cur[d] /\ letter'[d] = letter[d] /\ pc'[d] = pc[d]
  BY DEF TypeOK, ThreadTypeOK, Escape, PutDown
<1> QED
  BY <1>1, ThreadLetters

LEMMA GoneLetters ==
    ASSUME TypeOK, LettersInv, NEW c \in Consumers, Gone(c),
           UNCHANGED <<log, dlqTopic>>
    PROVE  LettersInv'
<1>1. /\ pc'[c] = "down" /\ cur'[c] = None /\ flight'[c] = {}
      /\ \A d \in Consumers \ {c} :
            /\ cur'[d] = cur[d] /\ letter'[d] = letter[d] /\ pc'[d] = pc[d]
            /\ flight'[d] = flight[d]
  BY DEF TypeOK, ThreadTypeOK, ClientTypeOK, Gone, PutDown
<1> QED
  BY <1>1, ThreadLetters

\* A caught error makes a letter of the message in hand.
LEMMA DeadLetterLetters ==
    ASSUME TypeOK, LettersInv, NEW c \in Consumers, NEW error, NEW n,
           DeadLetter(c, error, n),
           TellsWhy([origin |-> cur[c], reason |-> Classify(error), attempts |-> n])
    PROVE  LettersInv'
<1>1. /\ pc'[c] = "produce"
      /\ letter'[c] = [origin |-> cur[c], reason |-> Classify(error), attempts |-> n]
      /\ \A d \in Consumers \ {c} : letter'[d] = letter[d] /\ pc'[d] = pc[d]
  BY DEF DeadLetter, TypeOK, ThreadTypeOK
<1>2. UNCHANGED <<log, dlqTopic, flight, cur>>
  BY DEF DeadLetter, outside, broker
<1>3. (TellsWhy(letter[c]))'
  BY <1>1, <1>2 DEF TellsWhy, Kind
<1> QED
  BY <1>1, <1>2, <1>3, ThreadLetters

LEMMA ThreadStepLetters ==
    ASSUME TypeOK, LettersInv, NEW c \in Consumers, ThreadStep(c)
    PROVE  LettersInv'
<1> USE DEF outside, broker, inHand
<1>1. CASE DecodeFails(c)
  <2>1. Kind(cur[c]) = "corrupt" \/ RegistryFaults
    BY <1>1 DEF DecodeFails
  <2>2. DeadLetter(c, "DeserializationError", 1)
    BY <1>1 DEF DecodeFails
  <2> QED
    BY <2>1, <2>2, LetterTells, DeadLetterLetters
<1>2. CASE Reject(c)
  <2>1. Kind(cur[c]) = "invalid" /\ DeadLetter(c, "ValidationError", 1)
    BY <1>2 DEF Reject
  <2> QED
    BY <2>1, LetterTells, DeadLetterLetters
<1>3. pc[c] = "deliver" => Kind(cur[c]) = "valid"
  BY DEF LettersInv
<1>4. CASE GiveUp(c)
  <2>1. attempt[c] = MaxAttempts
    BY <1>4, MaxAttemptsAssumption DEF GiveUp, ShouldRetry, TypeOK, ThreadTypeOK
  <2>2. /\ Kind(cur[c]) = "valid" /\ "TransientProcessingError" \in SinkRaises
        /\ DeadLetter(c, "RetryExhaustedError", attempt[c])
    BY <1>3, <1>4 DEF GiveUp
  <2> QED
    BY <2>1, <2>2, LetterTells, DeadLetterLetters
<1>5. ASSUME NEW error \in SinkRaises, SinkRefuses(c, error)
      PROVE  LettersInv'
  <2>1. /\ IsA(error, "ProcessingError") /\ ~IsA(error, "TransientProcessingError")
        /\ Kind(cur[c]) = "valid" /\ DeadLetter(c, error, 1)
    BY <1>3, <1>5 DEF SinkRefuses
  <2> QED
    BY <2>1, LetterTells, DeadLetterLetters
<1>6. CASE Accept(c)
  <2>1. /\ pc'[c] = "deliver" /\ UNCHANGED <<log, dlqTopic, flight, cur, letter>>
        /\ \A d \in Consumers \ {c} : pc'[d] = pc[d]
        /\ Kind(cur[c]) = "valid"
    BY <1>6 DEF Accept, TypeOK, ThreadTypeOK
  <2>2. (pc[c] = "deliver" => Kind(cur[c]) = "valid")'
    BY <2>1 DEF Kind
  <2> QED
    BY <2>1, <2>2, ThreadLetters
<1>7. CASE Retry(c)
  <2>1. UNCHANGED <<log, dlqTopic, flight, cur, letter, pc>>
    BY <1>7 DEF Retry
  <2> QED
    BY <2>1, StillLetters
<1>8. ASSUME NEW error \in SinkRaises, SinkEscapes(c, error)
      PROVE  LettersInv'
  BY <1>8, EscapeLetters DEF SinkEscapes
<1>9. CASE Enqueue(c)
  <2>1. letter[c].origin = cur[c] /\ cur[c] # None /\ pc[c] = "produce"
    BY <1>9 DEF Enqueue, TypeOK, ThreadTypeOK, Busy
  <2>2. TellsWhy(letter[c]) /\ InLog(letter[c].origin)
    BY <2>1 DEF LettersInv
  <2>3. /\ pc'[c] = "flush" /\ UNCHANGED <<log, dlqTopic, cur, letter>>
        /\ flight'[c] = flight[c] \union {letter[c]}
        /\ \A d \in Consumers \ {c} : pc'[d] = pc[d] /\ flight'[d] = flight[d]
    BY <1>9 DEF Enqueue, TypeOK, ThreadTypeOK, ClientTypeOK
  <2>4. (TellsWhy(letter[c]))'
    BY <2>2, <2>3 DEF TellsWhy, Kind
  <2> QED
    BY <2>2, <2>3, <2>4, ThreadLetters
<1>10. CASE DeliverOk(c) \/ Published(c) \/ EmitNot(c) \/ Emit(c) \/ CloseEmit(c)
            \/ CloseFlush(c)
  <2>1. /\ pc'[c] \in {"store", "poll", "closeEmit", "closeFlush", "closeLeave"}
        /\ UNCHANGED <<log, dlqTopic, flight, cur, letter>>
        /\ \A d \in Consumers \ {c} : pc'[d] = pc[d]
    BY <1>10
    DEF DeliverOk, Published, EmitNot, Emit, CloseEmit, CloseFlush, NextRound,
        TypeOK, ThreadTypeOK
  <2> QED
    BY <2>1, ThreadLetters
<1>11. CASE StoreOffset(c)
  <2>1. /\ pc'[c] = "emit" /\ cur'[c] = None /\ UNCHANGED <<log, dlqTopic, flight>>
        /\ \A d \in Consumers \ {c} :
            cur'[d] = cur[d] /\ letter'[d] = letter[d] /\ pc'[d] = pc[d]
    BY <1>11 DEF StoreOffset, PutDown, TypeOK, ThreadTypeOK
  <2> QED
    BY <2>1, ThreadLetters
<1>12. CASE CloseLeave(c)
  BY <1>12, GoneLetters DEF CloseLeave
<1> QED
  BY <1>1, <1>2, <1>4, <1>5, <1>6, <1>7, <1>8, <1>9, <1>10, <1>11, <1>12
  DEF ThreadStep

LEMMA ProcessLetters ==
    ASSUME TypeOK, LettersInv, NEW c \in Consumers,
           \/ \E p \in Partitions : PollMessage(c, p)
           \/ Polling(c) \/ ThreadFault(c) \/ ProcessStep(c)
    PROVE  LettersInv'
<1> USE DEF outside, broker, inHand
<1>1. ASSUME NEW p \in Partitions, PollMessage(c, p)
      PROVE  LettersInv'
  <2> DEFINE m == At(p, position[c][p])
  <2>1. /\ pc'[c] = "handle" /\ cur'[c] = m
        /\ UNCHANGED <<log, dlqTopic, flight, letter>>
        /\ \A d \in Consumers \ {c} : pc'[d] = pc[d] /\ cur'[d] = cur[d]
    BY <1>1 DEF PollMessage, TypeOK, ThreadTypeOK
  <2>2. InLog(m)
    BY <1>1 DEF PollMessage, InLog, At
  <2> HIDE DEF m
  <2>3. \A d \in Consumers : (cur[d] # None => InLog(cur[d]))'
    BY <2>1, <2>2 DEF LettersInv, InLog
  <2>4. \A d \in Consumers :
          /\ (pc[d] = "deliver" => Kind(cur[d]) = "valid")'
          /\ (pc[d] \in {"produce", "flush"} => TellsWhy(letter[d]))'
          /\ (\A l \in flight[d] : TellsWhy(l) /\ InLog(l.origin))'
    BY <2>1 DEF LettersInv, InLog, Kind, TellsWhy
  <2>5. (\A l \in dlqTopic : TellsWhy(l) /\ InLog(l.origin))'
    BY <2>1 DEF LettersInv, InLog, Kind, TellsWhy
  <2> QED
    BY <2>3, <2>4, <2>5 DEF LettersInv
<1>2. CASE Polling(c) \/ Start(c)
  <2>1. /\ pc'[c] \in {"poll", "emit", "closeEmit"}
        /\ UNCHANGED <<log, dlqTopic, flight, cur, letter>>
        /\ \A d \in Consumers \ {c} : pc'[d] = pc[d]
    BY <1>2
    DEF Polling, PollNothing, PollTimeout, Start, NextRound, TypeOK, ThreadTypeOK
  <2> QED
    BY <2>1, ThreadLetters
<1>3. CASE PollFatal(c) \/ EnqueueRaises(c) \/ EmitRaises(c) \/ SecondSignal(c)
  BY <1>3, EscapeLetters
  DEF PollFatal, EnqueueRaises, EmitRaises, SecondSignal, Signalled
<1>4. CASE CloseEmitRaises(c) \/ Crash(c) \/ SignalWhileClosing(c)
  BY <1>4, GoneLetters DEF CloseEmitRaises, Crash, SignalWhileClosing, Signalled
<1>5. CASE FirstSignal(c)
  <2>1. UNCHANGED <<log, dlqTopic, flight, cur, letter, pc>>
    BY <1>5 DEF FirstSignal, Signalled
  <2> QED
    BY <2>1, StillLetters
<1> QED
  BY <1>1, <1>2, <1>3, <1>4, <1>5 DEF ThreadFault, ProcessStep

\* Appending to a partition changes no message that is in it.
LEMMA AppendKeeps ==
    ASSUME TypeOK, NEW p \in Partitions, NEW k \in Kinds, Produce(p, k),
           NEW m \in Message, InLog(m)
    PROVE  InLog(m)' /\ Kind(m)' = Kind(m)
<1>1. /\ log[m.part] \in Seq(Kinds) /\ m.part \in Partitions /\ m.off \in Nat
      /\ log'[m.part] \in {log[m.part], Append(log[m.part], k)}
  BY DEF Produce, Message, TypeOK, BrokerTypeOK
<1>2. /\ m.off < Len(log'[m.part])
      /\ log'[m.part][m.off + 1] = log[m.part][m.off + 1]
  <2> DEFINE s == log[m.part]
  <2>1. m.off \in Nat /\ m.off < Len(s) /\ s \in Seq(Kinds)
    BY <1>1 DEF InLog
  <2>2. m.off + 1 \in 1..Len(s)
    BY <2>1
  <2> HIDE DEF s
  <2>3. /\ Len(Append(s, k)) = Len(s) + 1
        /\ Append(s, k)[m.off + 1] = s[m.off + 1]
    BY <2>1, <2>2
  <2>4. m.off < Len(Append(s, k))
    BY <2>1, <2>3
  <2> USE DEF s
  <2> QED
    BY <1>1, <2>1, <2>3, <2>4
<1> QED
  BY <1>2 DEF InLog, Kind

LEMMA ProduceLetters ==
    ASSUME TypeOK, LettersInv, NEW p \in Partitions, NEW k \in Kinds, Produce(p, k)
    PROVE  LettersInv'
<1>1. UNCHANGED <<dlqTopic, flight, cur, letter, pc>>
  BY DEF Produce, program, inHand
<1>2. \A m \in Message : InLog(m) => InLog(m)' /\ Kind(m)' = Kind(m)
  BY AppendKeeps
<1>3. ASSUME NEW l \in Letter, TellsWhy(l), InLog(l.origin)
      PROVE  TellsWhy(l)' /\ InLog(l.origin)'
  <2>1. l.origin \in Message
    BY DEF Letter
  <2>2. InLog(l.origin)' /\ Kind(l.origin)' = Kind(l.origin)
    BY <1>2, <1>3, <2>1
  <2> QED
    BY <1>3, <2>2 DEF TellsWhy
<1>4. \A l \in dlqTopic : TellsWhy(l)' /\ InLog(l.origin)'
  BY <1>3 DEF LettersInv, TypeOK, BrokerTypeOK
<1>5. ASSUME NEW c \in Consumers
      PROVE  /\ cur[c] # None => InLog(cur[c])'
             /\ pc[c] = "deliver" => Kind(cur[c])' = "valid"
             /\ pc[c] \in {"produce", "flush"} => TellsWhy(letter[c])'
             /\ \A l \in flight[c] : TellsWhy(l)' /\ InLog(l.origin)'
  <2>1. CASE cur[c] # None
    <3>1. cur[c] \in Message /\ InLog(cur[c])
      BY <2>1 DEF TypeOK, ThreadTypeOK, LettersInv
    <3>2. InLog(cur[c])' /\ Kind(cur[c])' = Kind(cur[c])
      BY <1>1, <1>2, <3>1 DEF InLog, Kind
    <3>3. pc[c] = "deliver" => Kind(cur[c])' = "valid"
      BY <3>2 DEF LettersInv
    <3>4. pc[c] \in {"produce", "flush"} => TellsWhy(letter[c])'
      <4> SUFFICES ASSUME pc[c] \in {"produce", "flush"} PROVE TellsWhy(letter[c])'
        OBVIOUS
      <4>1. letter[c] \in Letter /\ letter[c].origin = cur[c] /\ TellsWhy(letter[c])
        BY DEF TypeOK, ThreadTypeOK, LettersInv
      <4> QED
        BY <1>1, <1>3, <3>1, <4>1 DEF TellsWhy, Kind
    <3> QED
      BY <3>2, <3>3, <3>4, <1>3 DEF LettersInv, TypeOK, ClientTypeOK
  <2>2. CASE cur[c] = None
    <3>1. pc[c] \notin Busy
      BY <2>2 DEF TypeOK, ThreadTypeOK
    <3> QED
      BY <1>3, <2>2, <3>1 DEF LettersInv, TypeOK, ClientTypeOK, Busy
  <2> QED
    BY <2>1, <2>2
<1> QED
  BY <1>1, <1>4, <1>5 DEF LettersInv

LEMMA NextLetters == TypeOK /\ LettersInv /\ [Next]_vars => LettersInv'
<1> SUFFICES ASSUME TypeOK, LettersInv, [Next]_vars PROVE LettersInv'
  OBVIOUS
<1> USE DEF program, broker, client, inHand
<1>2. CASE UNCHANGED vars
  BY <1>2, StillLetters DEF vars
<1>3. ASSUME NEW c \in Consumers, GroupStep(c) \/ AutoCommit(c)
      PROVE  LettersInv'
  BY <1>3, StillLetters
  DEF GroupStep, Assign, Revoke, Evict, LosePartitions, AutoCommit
<1>4. ASSUME NEW c \in Consumers, EgressDeliver(c) \/ EgressExpire(c)
      PROVE  LettersInv'
  <2>1. /\ UNCHANGED <<log, cur, letter, pc>>
        /\ \A d \in Consumers : flight'[d] \subseteq flight[d]
        /\ \A l \in dlqTopic' : l \in dlqTopic \/ l \in flight[c]
    BY <1>4 DEF EgressDeliver, EgressExpire, TypeOK, ClientTypeOK
  <2>2. \A m : InLog(m)' = InLog(m) /\ Kind(m)' = Kind(m)
    BY <2>1 DEF InLog, Kind
  <2>3. \A l : TellsWhy(l) => TellsWhy(l)'
    BY <2>2 DEF TellsWhy
  <2>4. \A d \in Consumers :
          /\ (cur[d] # None => InLog(cur[d]))'
          /\ (pc[d] = "deliver" => Kind(cur[d]) = "valid")'
    BY <2>1, <2>2 DEF LettersInv
  <2>5. \A d \in Consumers : (pc[d] \in {"produce", "flush"} => TellsWhy(letter[d]))'
    <3> SUFFICES ASSUME NEW d \in Consumers, (pc[d] \in {"produce", "flush"})'
                 PROVE  TellsWhy(letter[d])'
      OBVIOUS
    <3>1. TellsWhy(letter[d])
      BY <2>1 DEF LettersInv
    <3> QED BY <2>1, <3>1 DEF TellsWhy, Kind
  <2>6. \A d \in Consumers : \A l \in flight'[d] : TellsWhy(l)' /\ InLog(l.origin)'
    BY <2>1, <2>2, <2>3 DEF LettersInv
  <2>7. \A l \in dlqTopic' : TellsWhy(l)' /\ InLog(l.origin)'
    BY <2>1, <2>2, <2>3 DEF LettersInv
  <2> QED
    BY <2>4, <2>5, <2>6, <2>7 DEF LettersInv
<1> QED
  BY <1>2, <1>3, <1>4, ProduceLetters, ThreadStepLetters, ProcessLetters
  DEF Next, Background

LEMMA InitLetters == Init => LettersInv
BY DEF Init, LettersInv, Busy

\* A letter tells why from the moment it is made, wherever it is.
THEOREM LettersKept == Spec => []LettersInv
BY InitLetters, NextLetters, TypeCorrect, PTL DEF Spec

----------------------------------------------------------------------------
(* Messages that are dead-lettered as undecodable though they are not. *)

SchemaInv == \A c \in Consumers : UndecodableExplained(c)

\* Only what _decode raises is classified as undecodable.
LEMMA OtherReasons ==
    /\ \A error \in {"ValidationError", "RetryExhaustedError"} :
          Classify(error) # "DESERIALIZATION_FAILURE"
    /\ \A error \in SinkRaises :
          IsA(error, "ProcessingError") => Classify(error) # "DESERIALIZATION_FAILURE"
BY SinkRaisesAssumption DEF Classify, IsA, Bases

\* One thread moves.
LEMMA OneSchema ==
    ASSUME SchemaInv, NEW c \in Consumers, UNCHANGED log, UndecodableExplained(c)',
           \A d \in Consumers \ {c} :
               /\ cur'[d] = cur[d] /\ letter'[d] = letter[d] /\ pc'[d] = pc[d]
               /\ schemaKnown'[d] = schemaKnown[d]
    PROVE  SchemaInv'
<1> SUFFICES ASSUME NEW d \in Consumers, d # c PROVE UndecodableExplained(d)'
  BY DEF SchemaInv
<1>1. /\ cur'[d] = cur[d] /\ letter'[d] = letter[d] /\ pc'[d] = pc[d]
      /\ schemaKnown'[d] = schemaKnown[d]
  OBVIOUS
<1>2. UndecodableExplained(d)
  BY DEF SchemaInv
<1> QED
  BY <1>1, <1>2 DEF UndecodableExplained, Kind

\* Nothing an explanation looks at changes.
LEMMA StillSchema ==
    ASSUME SchemaInv, UNCHANGED <<log, cur, letter, pc, schemaKnown>>
    PROVE  SchemaInv'
BY DEF SchemaInv, UndecodableExplained, Kind

\* An exception that leaves the loop takes the letter with it, as does the end of
\* the process.
LEMMA EscapeSchema ==
    ASSUME TypeOK, SchemaInv, NEW c \in Consumers, UNCHANGED log,
           \/ Escape(c) /\ UNCHANGED schemaKnown
           \/ Gone(c)
    PROVE  SchemaInv'
<1>1. /\ pc'[c] \in {"closeEmit", "down"}
      /\ \A d \in Consumers \ {c} :
            /\ cur'[d] = cur[d] /\ letter'[d] = letter[d] /\ pc'[d] = pc[d]
            /\ schemaKnown'[d] = schemaKnown[d]
  BY DEF Escape, Gone, PutDown, TypeOK, ThreadTypeOK, MemoryTypeOK
<1>2. UndecodableExplained(c)'
  BY <1>1 DEF UndecodableExplained
<1> QED
  BY <1>1, <1>2, OneSchema

LEMMA ThreadStepSchema ==
    ASSUME TypeOK, SchemaInv, NEW c \in Consumers, ThreadStep(c)
    PROVE  SchemaInv'
<1> USE DEF outside, broker, inHand
<1>1. ASSUME NEW error, NEW n, DeadLetter(c, error, n)
      PROVE  /\ letter'[c].reason = Classify(error)
             /\ UNCHANGED <<log, cur>>
             /\ \A d \in Consumers \ {c} : letter'[d] = letter[d] /\ pc'[d] = pc[d]
  BY <1>1 DEF DeadLetter, TypeOK, ThreadTypeOK
<1>2. CASE DecodeFails(c)
  <2>1. UNCHANGED <<log, cur>>
    BY <1>1, <1>2 DEF DecodeFails
  <2>2. \A d \in Consumers \ {c} :
            /\ letter'[d] = letter[d] /\ pc'[d] = pc[d]
            /\ schemaKnown'[d] = schemaKnown[d]
    BY <1>1, <1>2 DEF DecodeFails, TypeOK, MemoryTypeOK
  <2>3. \/ RegistryFaults /\ ~schemaKnown[c] /\ UNCHANGED schemaKnown
        \/ Kind(cur[c]) = "corrupt"
    BY <1>2 DEF DecodeFails
  <2>4. UndecodableExplained(c)'
    BY <2>1, <2>3 DEF UndecodableExplained, Kind
  <2> QED
    BY <2>1, <2>2, <2>4, OneSchema
<1>3. CASE Reject(c) \/ GiveUp(c) \/ \E error \in SinkRaises : SinkRefuses(c, error)
  <2>1. PICK error, n : /\ DeadLetter(c, error, n)
                        /\ Classify(error) # "DESERIALIZATION_FAILURE"
    BY <1>3, OtherReasons DEF Reject, GiveUp, SinkRefuses
  <2>2. \A d \in Consumers \ {c} : schemaKnown'[d] = schemaKnown[d]
    BY <1>3 DEF Reject, GiveUp, SinkRefuses, TypeOK, MemoryTypeOK
  <2>3. /\ letter'[c].reason # "DESERIALIZATION_FAILURE"
        /\ UNCHANGED <<log, cur>>
        /\ \A d \in Consumers \ {c} : letter'[d] = letter[d] /\ pc'[d] = pc[d]
    BY <1>1, <2>1
  <2>4. UndecodableExplained(c)'
    BY <2>3 DEF UndecodableExplained
  <2> QED
    BY <2>2, <2>3, <2>4, OneSchema
<1>4. CASE Enqueue(c)
  <2>1. /\ UNCHANGED <<log, cur, letter, schemaKnown>> /\ pc[c] = "produce"
        /\ \A d \in Consumers \ {c} : pc'[d] = pc[d]
    BY <1>4 DEF Enqueue, TypeOK, ThreadTypeOK
  <2>2. UndecodableExplained(c)
    BY DEF SchemaInv
  <2>3. UndecodableExplained(c)'
    BY <2>1, <2>2 DEF UndecodableExplained, Kind
  <2> QED
    BY <2>1, <2>3, OneSchema
<1>5. CASE Retry(c)
  BY <1>5, StillSchema DEF Retry
<1>6. CASE Accept(c) \/ DeliverOk(c) \/ Published(c) \/ EmitNot(c) \/ Emit(c)
           \/ CloseEmit(c) \/ CloseFlush(c)
  <2>1. /\ pc'[c] \in {"deliver", "store", "poll", "closeEmit", "closeFlush",
                       "closeLeave"}
        /\ UNCHANGED <<log, cur, letter>>
        /\ \A d \in Consumers \ {c} :
              pc'[d] = pc[d] /\ schemaKnown'[d] = schemaKnown[d]
    BY <1>6
    DEF Accept, DeliverOk, Published, EmitNot, Emit, CloseEmit, CloseFlush,
        NextRound, TypeOK, ThreadTypeOK, MemoryTypeOK
  <2>2. UndecodableExplained(c)'
    BY <2>1 DEF UndecodableExplained
  <2> QED
    BY <2>1, <2>2, OneSchema
<1>7. CASE StoreOffset(c)
  <2>1. /\ pc'[c] = "emit" /\ UNCHANGED <<log, schemaKnown>>
        /\ \A d \in Consumers \ {c} :
            cur'[d] = cur[d] /\ letter'[d] = letter[d] /\ pc'[d] = pc[d]
    BY <1>7 DEF StoreOffset, PutDown, TypeOK, ThreadTypeOK
  <2>2. UndecodableExplained(c)'
    BY <2>1 DEF UndecodableExplained
  <2> QED
    BY <2>1, <2>2, OneSchema
<1>8. CASE CloseLeave(c)
  BY <1>8, EscapeSchema DEF CloseLeave
<1>9. ASSUME NEW error \in SinkRaises, SinkEscapes(c, error)
      PROVE  SchemaInv'
  BY <1>9, EscapeSchema DEF SinkEscapes
<1> QED
  BY <1>2, <1>3, <1>4, <1>5, <1>6, <1>7, <1>8, <1>9 DEF ThreadStep

LEMMA ProcessSchema ==
    ASSUME TypeOK, SchemaInv, NEW c \in Consumers,
           \/ \E p \in Partitions : PollMessage(c, p)
           \/ Polling(c) \/ ThreadFault(c) \/ ProcessStep(c)
    PROVE  SchemaInv'
<1> USE DEF outside, broker, inHand
<1>1. CASE Polling(c) \/ Start(c) \/ \E p \in Partitions : PollMessage(c, p)
  <2>1. /\ pc'[c] \in {"poll", "emit", "closeEmit", "handle"}
        /\ UNCHANGED <<log, letter, schemaKnown>>
        /\ \A d \in Consumers \ {c} : pc'[d] = pc[d] /\ cur'[d] = cur[d]
    BY <1>1
    DEF Polling, PollNothing, PollTimeout, PollMessage, Start, NextRound, TypeOK,
        ThreadTypeOK
  <2>2. UndecodableExplained(c)'
    BY <2>1 DEF UndecodableExplained
  <2> QED
    BY <2>1, <2>2, OneSchema
<1>2. CASE PollFatal(c) \/ EnqueueRaises(c) \/ EmitRaises(c) \/ SecondSignal(c)
  BY <1>2, EscapeSchema
  DEF PollFatal, EnqueueRaises, EmitRaises, SecondSignal, Signalled
<1>3. CASE CloseEmitRaises(c) \/ Crash(c) \/ SignalWhileClosing(c)
  BY <1>3, EscapeSchema DEF CloseEmitRaises, Crash, SignalWhileClosing, Signalled
<1>4. CASE FirstSignal(c)
  BY <1>4, StillSchema DEF FirstSignal, Signalled
<1> QED
  BY <1>1, <1>2, <1>3, <1>4 DEF ThreadFault, ProcessStep

LEMMA NextSchema == TypeOK /\ LettersInv /\ SchemaInv /\ [Next]_vars => SchemaInv'
<1> SUFFICES ASSUME TypeOK, LettersInv, SchemaInv, [Next]_vars PROVE SchemaInv'
  OBVIOUS
<1> USE DEF program, broker, client, inHand
<1>1. CASE UNCHANGED vars
  BY <1>1, StillSchema DEF vars
<1>2. ASSUME NEW c \in Consumers, GroupStep(c) \/ Background(c)
      PROVE  SchemaInv'
  BY <1>2, StillSchema
  DEF GroupStep, Assign, Revoke, Evict, LosePartitions, Background, AutoCommit,
      EgressDeliver, EgressExpire
<1>3. ASSUME NEW p \in Partitions, NEW k \in Kinds, Produce(p, k)
      PROVE  SchemaInv'
  <2>1. UNCHANGED <<cur, letter, pc, schemaKnown>>
    BY <1>3 DEF Produce
  <2> SUFFICES ASSUME NEW c \in Consumers, pc[c] \in {"produce", "flush"}
               PROVE  UndecodableExplained(c)'
    BY <2>1 DEF SchemaInv, UndecodableExplained
  <2>2. cur[c] \in Message /\ InLog(cur[c])
    BY DEF TypeOK, ThreadTypeOK, Busy, LettersInv
  <2>3. Kind(cur[c])' = Kind(cur[c])
    BY <1>3, <2>1, <2>2, AppendKeeps DEF InLog, Kind
  <2>4. UndecodableExplained(c)
    BY DEF SchemaInv
  <2> QED
    BY <2>1, <2>3, <2>4 DEF UndecodableExplained
<1> QED
  BY <1>1, <1>2, <1>3, ThreadStepSchema, ProcessSchema DEF Next

LEMMA InitSchema == Init => SchemaInv
BY DEF Init, SchemaInv, UndecodableExplained

\* Every letter in the dead letter topic, or on its way there, gives a reason the
\* payload, the registry or the sink explains, and no process that has the schema
\* calls a message undecodable that is not.
THEOREM LettersExplained == Spec => []LettersTellWhy
<1>1. LettersInv /\ SchemaInv => LettersTellWhy
  BY DEF LettersInv, SchemaInv, LettersTellWhy
<1>2. Spec => []SchemaInv
  BY InitSchema, NextSchema, TypeCorrect, LettersKept, PTL DEF Spec
<1> QED
  BY <1>1, <1>2, LettersKept, PTL
=============================================================================
