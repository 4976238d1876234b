------------------------- MODULE OrderConsumerTypes -------------------------
(***************************************************************************)
(* Type correctness of the consumer group for any number of processes and  *)
(* partitions, any retry budget and any bounds: Spec => []TypeOK.          *)
(***************************************************************************)
EXTENDS OrderConsumerProperties, TLAPS

----------------------------------------------------------------------------
(* The operators the actions are built from. *)

\* classify gives every exception of the taxonomy one of the four reasons.
LEMMA ClassifyType ==
    ASSUME NEW error \in ErrorClasses
    PROVE  Classify(error) \in Reasons
BY DEF Classify, Reasons

\* A letter made of a message, a reason and a number is one.
LEMMA LetterType ==
    ASSUME NEW m \in Message, NEW error \in ErrorClasses, NEW n \in Nat
    PROVE  LET l == [origin |-> m, reason |-> Classify(error), attempts |-> n]
           IN  l \in Letter /\ l # None
BY ClassifyType, NoneAssumption DEF Letter

\* The bookkeeping of a delivered order keeps the type of a process's memory.
LEMMA ProcessedType ==
    ASSUME NEW a \in AppType, NEW m \in Message, NEW n \in Nat
    PROVE  Processed(a, m, n) \in AppType
<1>1. Append(a.agg, m) \in Seq(Message)
  BY DEF AppType
<1>2. /\ a.sinceLast + 1 \in Nat
      /\ a.processed + 1 \in Nat
      /\ a.retried + (IF n > 1 THEN 1 ELSE 0) \in Nat
  BY DEF AppType
<1> QED
  BY <1>1, <1>2 DEF AppType, Processed

\* So does a counter that goes up or starts again ...
LEMMA CountType ==
    ASSUME NEW a \in AppType
    PROVE  /\ [a EXCEPT !.consumed = @ + 1] \in AppType
           /\ [a EXCEPT !.deadLettered = @ + 1] \in AppType
           /\ [a EXCEPT !.letters = @ + 1] \in AppType
           /\ [a EXCEPT !.sinceLast = 0] \in AppType
<1>1. [a EXCEPT !.consumed = @ + 1] \in AppType
  BY DEF AppType
<1>2. [a EXCEPT !.deadLettered = @ + 1] \in AppType
  BY DEF AppType
<1>3. [a EXCEPT !.letters = @ + 1] \in AppType
  BY DEF AppType
<1>4. [a EXCEPT !.sinceLast = 0] \in AppType
  BY DEF AppType
<1> QED
  BY <1>1, <1>2, <1>3, <1>4

\* ... an emission ...
LEMMA SnapshotType ==
    ASSUME NEW a \in AppType
    PROVE  Snapshot(a) \in AppType
<1>1. Len(a.agg) \in Nat
  BY DEF AppType
<1> QED
  BY <1>1 DEF AppType, Snapshot

\* ... and a fresh start.
LEMMA FreshAppType == FreshApp \in AppType
BY DEF AppType, FreshApp

----------------------------------------------------------------------------
(* The pieces the actions share. *)

LEMMA FaultType ==
    ASSUME HistoryTypeOK, Fault, UNCHANGED <<delivered, unconfirmed>>
    PROVE  HistoryTypeOK'
<1>1. clean' \in BOOLEAN
  BY DEF Fault
<1>2. faults' \in Nat /\ rebalances' \in Nat /\ sent' \in Nat
  BY DEF Fault, HistoryTypeOK
<1> QED
  BY <1>1, <1>2 DEF HistoryTypeOK

LEMMA EscapeType ==
    ASSUME ThreadTypeOK, NEW c \in Consumers, Escape(c)
    PROVE  ThreadTypeOK'
BY MaxAttemptsAssumption DEF ThreadTypeOK, Escape, PutDown, Busy, Looping, Closing

LEMMA GoneType ==
    ASSUME TypeOK, NEW c \in Consumers, Gone(c), UNCHANGED shutdown
    PROVE  ThreadTypeOK' /\ MemoryTypeOK' /\ ClientTypeOK'
           /\ owner' \in [Partitions -> Consumers \union {None}]
<1>1. ThreadTypeOK'
  BY MaxAttemptsAssumption
  DEF TypeOK, ThreadTypeOK, Gone, PutDown, Busy, Looping, Closing
<1>2. app' \in [Consumers -> AppType]
  BY FreshAppType DEF TypeOK, MemoryTypeOK, Gone
<1>3. MemoryTypeOK'
  BY <1>2 DEF TypeOK, MemoryTypeOK, Gone
<1>4. ClientTypeOK'
  BY DEF TypeOK, ClientTypeOK, Gone
<1>5. owner' \in [Partitions -> Consumers \union {None}]
  BY DEF TypeOK, BrokerTypeOK, Gone
<1> QED
  BY <1>1, <1>3, <1>4, <1>5

LEMMA CommitType ==
    ASSUME TypeOK, NEW c \in Consumers, NEW parts, Commit(c, parts)
    PROVE  committed' \in [Partitions -> Nat]
BY DEF TypeOK, BrokerTypeOK, ClientTypeOK, Commit

LEMMA EmissionType ==
    ASSUME MemoryTypeOK, NEW c \in Consumers, Emission(c)
    PROVE  app' \in [Consumers -> AppType]
<1>1. CASE app' = [app EXCEPT ![c] = Snapshot(@)]
  BY <1>1, SnapshotType DEF MemoryTypeOK
<1>2. CASE app' = [app EXCEPT ![c].sinceLast = 0]
  <2>1. [app[c] EXCEPT !.sinceLast = 0] \in AppType
    BY CountType DEF MemoryTypeOK
  <2> QED
    BY <1>2, <2>1 DEF MemoryTypeOK
<1> QED
  BY <1>1, <1>2 DEF Emission

LEMMA DeadLetterType ==
    ASSUME TypeOK, NEW c \in Consumers, NEW error \in ErrorClasses, NEW n \in Nat,
           pc[c] \in {"handle", "deliver"}, DeadLetter(c, error, n),
           UNCHANGED attempt, schemaKnown' \in [Consumers -> BOOLEAN]
    PROVE  TypeOK'
<1>1. cur[c] \in Message
  BY DEF TypeOK, ThreadTypeOK, Busy
<1>2. /\ letter'[c] \in Letter /\ letter'[c] # None
      /\ letter'[c].origin = cur[c]
  BY <1>1, LetterType DEF TypeOK, ThreadTypeOK, DeadLetter
<1>3. letter' \in [Consumers -> Letter \union {None}]
      /\ \A d \in Consumers \ {c} : letter'[d] = letter[d]
  BY <1>2 DEF TypeOK, ThreadTypeOK, DeadLetter
<1>4. ThreadTypeOK'
  BY <1>2, <1>3
  DEF TypeOK, ThreadTypeOK, DeadLetter, Busy, Looping, Closing
<1>5. [app[c] EXCEPT !.deadLettered = @ + 1] \in AppType
  BY CountType DEF TypeOK, MemoryTypeOK
<1>6. MemoryTypeOK'
  BY <1>5 DEF TypeOK, MemoryTypeOK, DeadLetter, outside
<1> QED
  BY <1>4, <1>6
  DEF TypeOK, BrokerTypeOK, ClientTypeOK, HistoryTypeOK, DeadLetter, outside,
      broker, client, history, bounds

----------------------------------------------------------------------------
(* The initial state and the steps. *)

LEMMA InitTypeOK == Init => TypeOK
<1> SUFFICES ASSUME Init PROVE TypeOK
  OBVIOUS
<1>1. BrokerTypeOK /\ ClientTypeOK /\ HistoryTypeOK
  BY DEF Init, BrokerTypeOK, ClientTypeOK, HistoryTypeOK
<1>2. ThreadTypeOK
  BY MaxAttemptsAssumption
  DEF Init, ThreadTypeOK, Busy, Looping, Closing
<1>3. MemoryTypeOK
  BY FreshAppType DEF Init, MemoryTypeOK
<1> QED
  BY <1>1, <1>2, <1>3 DEF TypeOK

\* The coordinator and the background touch no thread.
LEMMA GroupTypeOK ==
    ASSUME TypeOK, NEW c \in Consumers, GroupStep(c) \/ Background(c)
    PROVE  TypeOK'
<1> USE DEF TypeOK, BrokerTypeOK, ThreadTypeOK, MemoryTypeOK, ClientTypeOK,
            HistoryTypeOK, broker, program, inHand, client, history, bounds
<1>1. ASSUME NEW p \in Partitions, Assign(c, p)
      PROVE  TypeOK'
  <2>1. position' \in [Consumers -> [Partitions -> Nat]]
    BY <1>1 DEF Assign
  <2>2. stored' \in [Consumers -> [Partitions -> Nat]]
    BY <1>1 DEF Assign
  <2> QED
    BY <1>1, <2>1, <2>2 DEF Assign
<1>2. ASSUME NEW p \in Partitions, Revoke(c, p)
      PROVE  TypeOK'
  <2>1. committed' \in [Partitions -> Nat]
    BY <1>2, CommitType DEF Revoke
  <2>2. /\ position' \in [Consumers -> [Partitions -> Nat]]
        /\ stored' \in [Consumers -> [Partitions -> Nat]]
    BY <1>2 DEF Revoke
  <2>3. BrokerTypeOK'
    BY <1>2, <2>1 DEF Revoke
  <2>4. ClientTypeOK'
    BY <1>2, <2>2 DEF Revoke
  <2> QED
    BY <1>2, <2>3, <2>4 DEF Revoke
<1>3. CASE Evict(c)
  <2>1. HistoryTypeOK'
    BY <1>3, FaultType DEF Evict
  <2>2. owner' \in [Partitions -> Consumers \union {None}]
    BY <1>3 DEF Evict
  <2> QED
    BY <1>3, <2>1, <2>2 DEF Evict
<1>4. CASE LosePartitions(c)
  <2>1. position' \in [Consumers -> [Partitions -> Nat]]
    BY <1>4 DEF LosePartitions, Owned
  <2>2. stored' \in [Consumers -> [Partitions -> Nat]]
    BY <1>4 DEF LosePartitions, Owned
  <2> QED
    BY <1>4, <2>1, <2>2 DEF LosePartitions
<1>5. CASE AutoCommit(c)
  <2>1. committed' \in [Partitions -> Nat]
    BY <1>5, CommitType DEF AutoCommit
  <2> QED
    BY <1>5, <2>1 DEF AutoCommit
<1>6. CASE EgressDeliver(c)
  BY <1>6 DEF EgressDeliver
<1>7. CASE EgressExpire(c)
  BY <1>7 DEF EgressExpire
<1> QED
  BY <1>1, <1>2, <1>3, <1>4, <1>5, <1>6, <1>7 DEF GroupStep, Background

\* poll, and the life of a process.
LEMMA ProcessTypeOK ==
    ASSUME TypeOK, NEW c \in Consumers,
           \/ \E p \in Partitions : PollMessage(c, p)
           \/ Polling(c) \/ ThreadFault(c) \/ ProcessStep(c)
    PROVE  TypeOK'
<1> USE DEF TypeOK, BrokerTypeOK, MemoryTypeOK, ClientTypeOK, HistoryTypeOK,
            broker, program, inHand, client, history, bounds, outside
<1>1. ASSUME NEW p \in Partitions, PollMessage(c, p)
      PROVE  TypeOK'
  <2>1. At(p, position[c][p]) \in Message
    BY DEF At, Message
  <2>2. At(p, position[c][p]) # None
    BY <2>1, NoneAssumption
  <2>3. ThreadTypeOK'
    BY <1>1, <2>1, <2>2
    DEF ThreadTypeOK, PollMessage, Busy, Looping, Closing
  <2>4. [app[c] EXCEPT !.consumed = @ + 1] \in AppType
    BY CountType
  <2>5. MemoryTypeOK'
    BY <1>1, <2>4 DEF PollMessage
  <2>6. ClientTypeOK'
    BY <1>1 DEF PollMessage, AutoOffsetStore
  <2> QED
    BY <1>1, <2>3, <2>5, <2>6 DEF PollMessage
<1>2. CASE PollNothing(c)
  BY <1>2 DEF ThreadTypeOK, PollNothing, NextRound, Busy, Looping, Closing
<1>3. CASE PollTimeout(c)
  BY <1>3 DEF ThreadTypeOK, PollTimeout, Busy, Looping, Closing
<1>4. CASE PollFatal(c)
  <2>1. ThreadTypeOK' /\ HistoryTypeOK'
    BY <1>4, FaultType, EscapeType DEF PollFatal
  <2> QED
    BY <1>4, <2>1 DEF PollFatal
<1>5. CASE EnqueueRaises(c)
  <2>1. ThreadTypeOK' /\ HistoryTypeOK'
    BY <1>5, FaultType, EscapeType DEF EnqueueRaises
  <2> QED
    BY <1>5, <2>1 DEF EnqueueRaises
<1>6. CASE EmitRaises(c)
  <2>1. ThreadTypeOK' /\ HistoryTypeOK'
    BY <1>6, FaultType, EscapeType DEF EmitRaises
  <2>2. [app[c] EXCEPT !.sinceLast = 0] \in AppType
    BY CountType
  <2>3. MemoryTypeOK'
    BY <1>6, <2>2 DEF EmitRaises
  <2> QED
    BY <1>6, <2>1, <2>3 DEF EmitRaises
<1>7. CASE CloseEmitRaises(c)
  <2>1. HistoryTypeOK'
    BY <1>7, FaultType DEF CloseEmitRaises
  <2> QED
    BY <1>7, <2>1, GoneType DEF CloseEmitRaises
<1>8. CASE Start(c)
  BY <1>8 DEF ThreadTypeOK, Start, Busy, Looping, Closing
<1>9. CASE Crash(c)
  <2>1. HistoryTypeOK'
    BY <1>9, FaultType DEF Crash
  <2> QED
    BY <1>9, <2>1, GoneType DEF Crash
<1>10. CASE FirstSignal(c)
  BY <1>10 DEF ThreadTypeOK, FirstSignal, Signalled
<1>11. CASE SecondSignal(c)
  <2>1. ThreadTypeOK'
    BY <1>11, EscapeType DEF SecondSignal
  <2>2. clean' \in BOOLEAN
    BY <1>11 DEF SecondSignal
  <2>3. HistoryTypeOK'
    BY <1>11, <2>2 DEF SecondSignal, Signalled
  <2> QED
    BY <1>11, <2>1, <2>3 DEF SecondSignal, Signalled
<1>12. CASE SignalWhileClosing(c)
  <2>1. clean' \in BOOLEAN
    BY <1>12 DEF SignalWhileClosing
  <2>2. HistoryTypeOK'
    BY <1>12, <2>1 DEF SignalWhileClosing, Signalled
  <2> QED
    BY <1>12, <2>2, GoneType DEF SignalWhileClosing, Signalled
<1> QED
  BY <1>1, <1>2, <1>3, <1>4, <1>5, <1>6, <1>7, <1>8, <1>9, <1>10, <1>11, <1>12
  DEF Polling, ThreadFault, ProcessStep

\* Handling a message, publishing its letter, storing, emitting and closing.
LEMMA ThreadStepTypeOK ==
    ASSUME TypeOK, NEW c \in Consumers, ThreadStep(c)
    PROVE  TypeOK'
<1> USE DEF TypeOK, BrokerTypeOK, MemoryTypeOK, ClientTypeOK, HistoryTypeOK,
            broker, program, inHand, client, history, bounds, outside
<1>1. pc[c] \in Busy => cur[c] \in Message
  BY DEF ThreadTypeOK
<1>2. CASE DecodeFails(c)
  BY <1>2, DeadLetterType DEF DecodeFails, ErrorClasses, Bases
<1>3. CASE Reject(c)
  BY <1>3, DeadLetterType DEF Reject, ErrorClasses, Bases
<1>4. CASE Accept(c)
  BY <1>4, MaxAttemptsAssumption
  DEF ThreadTypeOK, Accept, Busy, Looping, Closing
<1>5. CASE DeliverOk(c)
  <2>1. cur[c] \in Message /\ attempt[c] \in Nat
    BY <1>1, <1>5, MaxAttemptsAssumption DEF DeliverOk, ThreadTypeOK, Busy
  <2>2. Processed(app[c], cur[c], attempt[c]) \in AppType
    BY <2>1, ProcessedType
  <2>3. MemoryTypeOK'
    BY <1>5, <2>2 DEF DeliverOk
  <2>4. ThreadTypeOK'
    BY <1>5 DEF ThreadTypeOK, DeliverOk, Busy, Looping, Closing
  <2> QED
    BY <1>5, <2>1, <2>3, <2>4 DEF DeliverOk
<1>6. CASE Retry(c)
  BY <1>6, MaxAttemptsAssumption DEF ThreadTypeOK, Retry, ShouldRetry
<1>7. CASE GiveUp(c)
  <2>1. attempt[c] \in Nat
    BY MaxAttemptsAssumption DEF ThreadTypeOK
  <2> QED
    BY <1>7, <2>1, DeadLetterType DEF GiveUp, ErrorClasses, Bases
<1>8. ASSUME NEW error \in SinkRaises, SinkRefuses(c, error)
      PROVE  TypeOK'
  <2>1. error \in ErrorClasses
    BY SinkRaisesAssumption DEF ErrorClasses, Bases
  <2> QED
    BY <1>8, <2>1, DeadLetterType DEF SinkRefuses
<1>9. ASSUME NEW error \in SinkRaises, SinkEscapes(c, error)
      PROVE  TypeOK'
  <2>1. ThreadTypeOK'
    BY <1>9, EscapeType DEF SinkEscapes
  <2>2. clean' \in BOOLEAN
    BY <1>9 DEF SinkEscapes
  <2> QED
    BY <1>9, <2>1, <2>2 DEF SinkEscapes
<1>10. CASE Enqueue(c)
  <2>1. letter[c] \in Letter
    BY <1>10 DEF ThreadTypeOK, Enqueue
  <2> QED
    BY <1>10, <2>1 DEF ThreadTypeOK, Enqueue, Busy, Looping, Closing
<1>11. CASE Published(c)
  <2>1. [app[c] EXCEPT !.letters = @ + 1] \in AppType
    BY CountType
  <2>2. MemoryTypeOK'
    BY <1>11, <2>1 DEF Published
  <2>3. ThreadTypeOK'
    BY <1>11 DEF ThreadTypeOK, Published, Busy, Looping, Closing
  <2>4. unconfirmed' \in SUBSET Message
    BY <1>1, <1>11 DEF Published, Busy
  <2> QED
    BY <1>11, <2>2, <2>3, <2>4 DEF Published
<1>12. CASE StoreOffset(c)
  <2>1. cur[c].part \in Partitions /\ cur[c].off + 1 \in Nat
    BY <1>1, <1>12 DEF StoreOffset, ResumeOffset, Busy, Message
  <2>2. stored' \in [Consumers -> [Partitions -> Nat]]
    <3>1. ASSUME NEW p \in Partitions, NEW n \in Nat,
                 stored' = [stored EXCEPT ![c][p] = n]
          PROVE  stored' \in [Consumers -> [Partitions -> Nat]]
      BY <3>1
    <3>2. CASE stored' = [stored EXCEPT ![c][cur[c].part] = cur[c].off + 1]
      BY <2>1, <3>1, <3>2
    <3>3. CASE UNCHANGED stored
      BY <3>3
    <3> QED
      BY <1>12, <3>2, <3>3 DEF StoreOffset, ResumeOffset
  <2>3. ThreadTypeOK'
    BY <1>12, MaxAttemptsAssumption
    DEF ThreadTypeOK, StoreOffset, ResumeOffset, PutDown, Busy, Looping, Closing
  <2> QED
    BY <1>12, <2>2, <2>3 DEF StoreOffset, ResumeOffset
<1>13. CASE EmitNot(c)
  BY <1>13 DEF ThreadTypeOK, EmitNot, NextRound, Busy, Looping, Closing
<1>14. CASE Emit(c)
  <2>1. app' \in [Consumers -> AppType]
    BY <1>14, EmissionType DEF Emit
  <2>2. ThreadTypeOK'
    BY <1>14 DEF ThreadTypeOK, Emit, NextRound, Busy, Looping, Closing
  <2> QED
    BY <1>14, <2>1, <2>2 DEF Emit
<1>15. CASE CloseEmit(c)
  <2>1. app' \in [Consumers -> AppType]
    BY <1>15, EmissionType DEF CloseEmit
  <2>2. ThreadTypeOK'
    BY <1>15 DEF ThreadTypeOK, CloseEmit, Busy, Looping, Closing
  <2> QED
    BY <1>15, <2>1, <2>2 DEF CloseEmit
<1>16. CASE CloseFlush(c)
  BY <1>16 DEF ThreadTypeOK, CloseFlush, Busy, Looping, Closing
<1>17. CASE CloseLeave(c)
  <2>1. committed' \in [Partitions -> Nat]
    BY <1>17, CommitType DEF CloseLeave, LastCommit
  <2> QED
    BY <1>17, <2>1, GoneType DEF CloseLeave
<1> QED
  BY <1>2, <1>3, <1>4, <1>5, <1>6, <1>7, <1>8, <1>9, <1>10, <1>11, <1>12,
     <1>13, <1>14, <1>15, <1>16, <1>17
  DEF ThreadStep

LEMMA NextTypeOK == TypeOK /\ [Next]_vars => TypeOK'
<1> SUFFICES ASSUME TypeOK, [Next]_vars PROVE TypeOK'
  OBVIOUS
<1>1. CASE UNCHANGED vars
  BY <1>1
  DEF TypeOK, BrokerTypeOK, ThreadTypeOK, MemoryTypeOK, ClientTypeOK,
      HistoryTypeOK, vars, broker, program, inHand, client, history, bounds
<1>2. ASSUME NEW p \in Partitions, NEW k \in Kinds, Produce(p, k)
      PROVE  TypeOK'
  BY <1>2
  DEF TypeOK, BrokerTypeOK, ThreadTypeOK, MemoryTypeOK, ClientTypeOK,
      HistoryTypeOK, Produce, program, inHand, client, history, bounds
<1> QED
  BY <1>1, <1>2, GroupTypeOK, ProcessTypeOK, ThreadStepTypeOK DEF Next

\* Every variable keeps its type, whatever the processes, the broker and the
\* operator do: in particular no order is ever tried more often than the budget
\* allows, and a letter always goes with the message in hand.
THEOREM TypeCorrect == Spec => []TypeOK
BY InitTypeOK, NextTypeOK, PTL DEF Spec
=============================================================================
