--------------------------- MODULE OrderConsumer ---------------------------
(***************************************************************************)
(* The order consumer group: every process that runs OrderConsumerApp      *)
(* (apps/consumer.py), with the processing core (processing.py), the dead  *)
(* letter publisher (dlq.py), the shutdown flag (shutdown.py) and, as far  *)
(* as the code uses them, the broker, librdkafka and the downstream sink.  *)
(*                                                                         *)
(* A process is one thread that polls, handles, stores and emits; between  *)
(* any two of its steps librdkafka commits stored offsets in the           *)
(* background, its egress queue drains or fails, the group coordinator     *)
(* moves partitions, signals arrive and the process can die.               *)
(*                                                                         *)
(* A message is its partition and offset.  Of its payload only the kind    *)
(* matters: "corrupt" cannot be decoded, "invalid" breaks a business rule, *)
(* "valid" is an order.  An offset counts from 0, a sequence from 1.       *)
(***************************************************************************)
EXTENDS Naturals, Sequences, FiniteSets, RetryPolicy, ErrorTaxonomy

CONSTANTS
    Consumers,          \* the processes of the consumer group
    Partitions,         \* of the orders topic
    None,               \* no owner, no message in hand, no letter
    Kinds,              \* the kinds of message the producer may write
    SinkRaises,         \* the exception classes the sink may raise
    EveryN,             \* aggregate_emit_every_n
    PublishAggregates,  \* publish_aggregates
    EgressFaults,       \* may the egress producer stall, drop or fail?
    RegistryFaults,     \* may the schema registry be out of reach?
    MaxLog,             \* bound: messages per partition
    MaxFaults,          \* bound: crashes, evictions and fatal errors
    MaxRebalances,      \* bound: partitions revoked in an orderly rebalance
    MaxSignals          \* bound: SIGINT and SIGTERM

Message == [part: Partitions, off: Nat]
Letter  == [origin: Message, reason: Reasons, attempts: Nat]

ASSUME NoneAssumption == None \notin Consumers \union Message \union Letter
ASSUME KindsAssumption == Kinds \subseteq {"valid", "invalid", "corrupt"}
ASSUME SinkRaisesAssumption ==
    SinkRaises \subseteq {"TransientProcessingError", "PermanentProcessingError",
                          "ProcessingError", "Exception"}
ASSUME EveryNAssumption == EveryN \in Nat \ {0}
ASSUME FlagsAssumption == /\ PublishAggregates \in BOOLEAN
                          /\ EgressFaults \in BOOLEAN
                          /\ RegistryFaults \in BOOLEAN
ASSUME BoundsAssumption == /\ MaxLog \in Nat
                           /\ MaxFaults \in Nat
                           /\ MaxRebalances \in Nat
                           /\ MaxSignals \in Nat

VARIABLES
    \* The broker.
    log,          \* [Partitions -> Seq(Kinds)]: the orders topic
    committed,    \* the group's committed offset in each partition
    owner,        \* the member a partition is assigned to, or None
    dlqTopic,     \* the letters the dead letter topic holds
    \* The memory of each process.
    pc,           \* where its thread is
    cur,          \* the message in hand
    attempt,      \* the attempt under way, 1-based
    letter,       \* the letter it is publishing
    app,          \* counters, aggregate and emission state
    schemaKnown,  \* has its deserialiser cached the writer schema?
    shutdown,     \* the ShutdownSignal flag
    \* The Kafka clients of each process.
    held,         \* the partitions it believes it is assigned
    position,     \* the next offset to fetch
    stored,       \* the offset stored for commit
    flight,       \* letters queued in its egress producer
    \* History, read by the properties only.
    delivered,    \* messages the sink has accepted
    unconfirmed,  \* messages whose letter was not on the broker when publish returned
    clean,        \* nothing has gone wrong so far
    \* Bounds used up.
    faults, rebalances, sent

broker  == <<log, committed, owner, dlqTopic>>
inHand  == <<cur, attempt, letter>>
client  == <<held, position, stored>>
history == <<delivered, unconfirmed, clean>>
bounds  == <<faults, rebalances, sent>>
program == <<pc, inHand, app, schemaKnown, shutdown>>
outside == <<broker, shutdown, client, flight, bounds>>
vars    == <<broker, program, client, flight, history, bounds>>

At(p, o) == [part |-> p, off |-> o]
Kind(m) == log[m.part][m.off + 1]
DeadLettered == {l.origin : l \in dlqTopic}

\* Where the thread is.  "poll" is inside Consumer.poll; a process at one of
\* the Busy places has a message in hand; Closing is the finally of run.
Busy == {"handle", "deliver", "produce", "flush", "store"}
Looping == Busy \union {"poll", "emit"}
Closing == {"closeEmit", "closeFlush", "closeLeave"}

\* ConsumerCounters, DeadLetterPublisher.published (letters), the orders the
\* aggregate counts, AggregatePublisher._since_last, and how many orders the
\* last published snapshot covered.
FreshApp == [consumed |-> 0, processed |-> 0, retried |-> 0, deadLettered |-> 0,
             letters |-> 0, agg |-> <<>>, sinceLast |-> 0, emitted |-> 0]

Init ==
    /\ log = [p \in Partitions |-> <<>>]
    /\ committed = [p \in Partitions |-> 0]
    /\ owner = [p \in Partitions |-> None]
    /\ dlqTopic = {}
    /\ pc = [c \in Consumers |-> "down"]
    /\ cur = [c \in Consumers |-> None]
    /\ attempt = [c \in Consumers |-> 0]
    /\ letter = [c \in Consumers |-> None]
    /\ app = [c \in Consumers |-> FreshApp]
    /\ schemaKnown = [c \in Consumers |-> FALSE]
    /\ shutdown = [c \in Consumers |-> FALSE]
    /\ held = [c \in Consumers |-> {}]
    /\ position = [c \in Consumers |-> [p \in Partitions |-> 0]]
    /\ stored = [c \in Consumers |-> [p \in Partitions |-> 0]]
    /\ flight = [c \in Consumers |-> {}]
    /\ delivered = {}
    /\ unconfirmed = {}
    /\ clean = TRUE
    /\ faults = 0
    /\ rebalances = 0
    /\ sent = 0

----------------------------------------------------------------------------
(* Pieces the actions share. *)

Fault ==
    /\ faults < MaxFaults
    /\ faults' = faults + 1
    /\ clean' = FALSE
    /\ UNCHANGED <<rebalances, sent>>

\* A loop that never looks at the flag.
NextRoundUnchecked(c) == "poll"

\* The while of run: the shutdown flag is read between two rounds only.
NextRound(c) == IF shutdown[c] THEN "closeEmit" ELSE "poll"

PutDown(c) ==
    /\ cur' = [cur EXCEPT ![c] = None]
    /\ attempt' = [attempt EXCEPT ![c] = 0]
    /\ letter' = [letter EXCEPT ![c] = None]

\* An exception leaves the loop of run: its finally closes the app.
Escape(c) ==
    /\ pc' = [pc EXCEPT ![c] = "closeEmit"]
    /\ PutDown(c)

\* The process is gone, with its memory and its clients; the coordinator
\* takes its partitions back.
Gone(c) ==
    /\ pc' = [pc EXCEPT ![c] = "down"]
    /\ PutDown(c)
    /\ app' = [app EXCEPT ![c] = FreshApp]
    /\ schemaKnown' = [schemaKnown EXCEPT ![c] = FALSE]
    /\ held' = [held EXCEPT ![c] = {}]
    /\ position' = [position EXCEPT ![c] = [p \in Partitions |-> 0]]
    /\ stored' = [stored EXCEPT ![c] = [p \in Partitions |-> 0]]
    /\ flight' = [flight EXCEPT ![c] = {}]
    /\ owner' = [p \in Partitions |-> IF owner[p] = c THEN None ELSE owner[p]]

\* A commit by c: the coordinator accepts it only for what c still owns.
Commit(c, parts) ==
    committed' = [p \in Partitions |->
                    IF p \in parts /\ owner[p] = c THEN stored[c][p]
                    ELSE committed[p]]

----------------------------------------------------------------------------
(* The producer's side, the coordinator and the librdkafka background. *)

Produce(p, k) ==
    /\ Len(log[p]) < MaxLog
    /\ log' = [log EXCEPT ![p] = Append(@, k)]
    /\ UNCHANGED <<committed, owner, dlqTopic, program, client, flight,
                   history, bounds>>

\* c has not been told that it lost partitions.
Stale(c) == \E p \in held[c] : owner[p] # c

\* Offsets as they are once the partitions of others are dropped.
Owned(c, offsets) == [p \in Partitions |-> IF owner[p] = c THEN offsets[p] ELSE 0]

\* The rebalance callback of poll hands c a free partition; it is read from
\* the committed offset on (auto.offset.reset is "earliest").
Assign(c, p) ==
    /\ pc[c] = "poll"
    /\ owner[p] = None
    /\ ~Stale(c)
    /\ owner' = [owner EXCEPT ![p] = c]
    /\ held' = [held EXCEPT ![c] = @ \union {p}]
    /\ position' = [position EXCEPT ![c][p] = committed[p]]
    /\ stored' = [stored EXCEPT ![c][p] = committed[p]]
    /\ UNCHANGED <<log, committed, dlqTopic, program, flight, history, bounds>>

\* An orderly rebalance takes p away during poll; librdkafka commits what is
\* stored for p on the way out.
Revoke(c, p) ==
    /\ pc[c] = "poll"
    /\ rebalances < MaxRebalances
    /\ p \in held[c]
    /\ owner[p] = c
    /\ Commit(c, {p})
    /\ owner' = [owner EXCEPT ![p] = None]
    /\ held' = [held EXCEPT ![c] = @ \ {p}]
    /\ position' = [position EXCEPT ![c][p] = 0]
    /\ stored' = [stored EXCEPT ![c][p] = 0]
    /\ rebalances' = rebalances + 1
    /\ UNCHANGED <<log, dlqTopic, program, flight, history, faults, sent>>

\* The coordinator gives c up (session or poll interval exceeded) while c
\* goes on as if nothing had happened.
Evict(c) ==
    /\ pc[c] # "down"
    /\ \E p \in Partitions : owner[p] = c
    /\ Fault
    /\ owner' = [p \in Partitions |-> IF owner[p] = c THEN None ELSE owner[p]]
    /\ UNCHANGED <<log, committed, dlqTopic, program, client, flight,
                   delivered, unconfirmed>>

\* The next poll of an evicted member drops its assignment, committing nothing.
LosePartitions(c) ==
    /\ pc[c] = "poll"
    /\ Stale(c)
    /\ held' = [held EXCEPT ![c] = {p \in @ : owner[p] = c}]
    /\ position' = [position EXCEPT ![c] = Owned(c, @)]
    /\ stored' = [stored EXCEPT ![c] = Owned(c, @)]
    /\ UNCHANGED <<broker, program, flight, history, bounds>>

\* enable.auto.commit: what is stored is committed in the background.
AutoCommit(c) ==
    /\ \E p \in held[c] : owner[p] = c /\ stored[c][p] # committed[p]
    /\ Commit(c, held[c])
    /\ UNCHANGED <<log, owner, dlqTopic, program, client, flight, history,
                   bounds>>

\* The egress producer gets a letter acknowledged ...
EgressDeliver(c) ==
    \E l \in flight[c] :
        /\ dlqTopic' = dlqTopic \union {l}
        /\ flight' = [flight EXCEPT ![c] = @ \ {l}]
    /\ UNCHANGED <<log, committed, owner, program, client, history, bounds>>

\* ... or gives it up: the delivery report carries an error, which is logged.
EgressExpire(c) ==
    /\ EgressFaults
    /\ \E l \in flight[c] : flight' = [flight EXCEPT ![c] = @ \ {l}]
    /\ UNCHANGED <<broker, program, client, history, bounds>>

----------------------------------------------------------------------------
(* poll *)

\* enable.auto.offset.store switched on by mistake.
AutoOffsetStoreOn == TRUE

\* enable.auto.offset.store, as build_consumer sets it: would poll itself
\* store the offset of the message it returns?
AutoOffsetStore == FALSE

\* A message that is not an error.
PollMessage(c, p) ==
    /\ pc[c] = "poll"
    /\ p \in held[c]
    /\ position[c][p] < Len(log[p])
    /\ cur' = [cur EXCEPT ![c] = At(p, position[c][p])]
    /\ position' = [position EXCEPT ![c][p] = @ + 1]
    /\ stored' = IF AutoOffsetStore
                 THEN [stored EXCEPT ![c][p] = position[c][p] + 1]
                 ELSE stored
    /\ app' = [app EXCEPT ![c].consumed = @ + 1]
    /\ pc' = [pc EXCEPT ![c] = "handle"]
    /\ UNCHANGED <<broker, attempt, letter, schemaKnown, shutdown, held,
                   flight, history, bounds>>

\* A timeout with nothing to emit, the end of a partition or an error that
\* librdkafka recovers from: another round.
PollNothing(c) ==
    /\ pc[c] = "poll"
    /\ pc' = [pc EXCEPT ![c] = NextRound(c)]
    /\ UNCHANGED <<outside, inHand, app, schemaKnown, history>>

\* A timeout with orders that no emission has covered: the emission is tried.
PollTimeout(c) ==
    /\ pc[c] = "poll"
    /\ app[c].sinceLast > 0
    /\ pc' = [pc EXCEPT ![c] = "emit"]
    /\ UNCHANGED <<outside, inHand, app, schemaKnown, history>>

\* A fatal client error is raised.
PollFatal(c) ==
    /\ pc[c] = "poll"
    /\ Fault
    /\ Escape(c)
    /\ UNCHANGED <<broker, app, schemaKnown, shutdown, client, flight,
                   delivered, unconfirmed>>

----------------------------------------------------------------------------
(* _handle_message *)

\* A caught error: count the message, then publish its letter.
DeadLetter(c, error, attempts) ==
    /\ letter' = [letter EXCEPT ![c] = [origin |-> cur[c],
                                        reason |-> Classify(error),
                                        attempts |-> attempts]]
    /\ app' = [app EXCEPT ![c].deadLettered = @ + 1]
    /\ pc' = [pc EXCEPT ![c] = "produce"]
    /\ UNCHANGED <<outside, cur, history>>

\* _decode: whatever goes wrong, an unreachable registry included, is a
\* DeserializationError.  Bytes that turn out corrupt only once their schema is
\* known leave it cached.
DecodeFails(c) ==
    /\ pc[c] = "handle"
    /\ \/ /\ RegistryFaults /\ ~schemaKnown[c]
          /\ UNCHANGED schemaKnown
       \/ /\ Kind(cur[c]) = "corrupt"
          /\ schemaKnown' \in {schemaKnown, [schemaKnown EXCEPT ![c] = TRUE]}
    /\ DeadLetter(c, "DeserializationError", 1)
    /\ UNCHANGED attempt

\* validate_order refuses the decoded order.
Reject(c) ==
    /\ pc[c] = "handle"
    /\ Kind(cur[c]) = "invalid"
    /\ schemaKnown' = [schemaKnown EXCEPT ![c] = TRUE]
    /\ DeadLetter(c, "ValidationError", 1)
    /\ UNCHANGED attempt

\* The order is valid: the retry loop starts.
Accept(c) ==
    /\ pc[c] = "handle"
    /\ Kind(cur[c]) = "valid"
    /\ schemaKnown' = [schemaKnown EXCEPT ![c] = TRUE]
    /\ attempt' = [attempt EXCEPT ![c] = 1]
    /\ pc' = [pc EXCEPT ![c] = "deliver"]
    /\ UNCHANGED <<outside, cur, letter, app, history>>

\* A plausible slip: the counter of the retried orders, not the processed ones.
ProcessedMiscounted(a, m, n) ==
    [a EXCEPT !.agg = Append(@, m), !.sinceLast = @ + 1,
              !.processed = @ + (IF n > 1 THEN 0 ELSE 1),
              !.retried = @ + (IF n > 1 THEN 1 ELSE 0)]

\* A plausible slip: the publisher is not told of an order that was retried.
ProcessedUnnoted(a, m, n) ==
    [a EXCEPT !.agg = Append(@, m), !.sinceLast = @ + (IF n > 1 THEN 0 ELSE 1),
              !.processed = @ + 1, !.retried = @ + (IF n > 1 THEN 1 ELSE 0)]

\* The bookkeeping of an order delivered on the n-th attempt.
Processed(a, m, n) ==
    [a EXCEPT !.agg = Append(@, m), !.sinceLast = @ + 1,
              !.processed = @ + 1, !.retried = @ + (IF n > 1 THEN 1 ELSE 0)]

\* The sink accepts the order: it is aggregated and counted.
DeliverOk(c) ==
    /\ pc[c] = "deliver"
    /\ delivered' = delivered \union {cur[c]}
    /\ app' = [app EXCEPT ![c] = Processed(@, cur[c], attempt[c])]
    /\ pc' = [pc EXCEPT ![c] = "store"]
    /\ UNCHANGED <<outside, inHand, schemaKnown, unconfirmed, clean>>

\* A transient failure with budget left: sleep, then the next attempt.
Retry(c) ==
    /\ pc[c] = "deliver"
    /\ "TransientProcessingError" \in SinkRaises
    /\ ShouldRetry(attempt[c])
    /\ attempt' = [attempt EXCEPT ![c] = @ + 1]
    /\ UNCHANGED <<outside, pc, cur, letter, app, schemaKnown, history>>

\* The last attempt fails transiently.
GiveUp(c) ==
    /\ pc[c] = "deliver"
    /\ "TransientProcessingError" \in SinkRaises
    /\ ~ShouldRetry(attempt[c])
    /\ DeadLetter(c, "RetryExhaustedError", attempt[c])
    /\ UNCHANGED <<attempt, schemaKnown>>

\* Any other error of the taxonomy is dead-lettered at once; publish is left
\* to record its default of one attempt.
SinkRefuses(c, error) ==
    /\ pc[c] = "deliver"
    /\ IsA(error, "ProcessingError")
    /\ ~IsA(error, "TransientProcessingError")
    /\ DeadLetter(c, error, 1)
    /\ UNCHANGED <<attempt, schemaKnown>>

\* No handler matches anything else: it leaves the loop.
SinkEscapes(c, error) ==
    /\ pc[c] = "deliver"
    /\ ~IsA(error, "ProcessingError")
    /\ Escape(c)
    /\ clean' = FALSE
    /\ UNCHANGED <<outside, app, schemaKnown, delivered, unconfirmed>>

----------------------------------------------------------------------------
(* DeadLetterPublisher.publish *)

\* produce queues the letter ...
Enqueue(c) ==
    /\ pc[c] = "produce"
    /\ flight' = [flight EXCEPT ![c] = @ \union {letter[c]}]
    /\ pc' = [pc EXCEPT ![c] = "flush"]
    /\ UNCHANGED <<broker, inHand, app, schemaKnown, shutdown, client, history,
                   bounds>>

\* ... or raises (queue full, fatal producer error), which nothing catches.
EnqueueRaises(c) ==
    /\ pc[c] = "produce"
    /\ Fault
    /\ Escape(c)
    /\ UNCHANGED <<broker, app, schemaKnown, shutdown, client, flight,
                   delivered, unconfirmed>>

\* A flush that is not waited for.
FlushUnawaited(c) == TRUE

\* flush returns when the queue is empty or when its timeout is over.
FlushReturns(c) == flight[c] = {} \/ EgressFaults

\* What flush left in the queue is not looked at, nor is the delivery report:
\* publish returns and the message counts as dealt with.
Published(c) ==
    /\ pc[c] = "flush"
    /\ FlushReturns(c)
    /\ app' = [app EXCEPT ![c].letters = @ + 1]
    /\ unconfirmed' = IF letter[c] \in dlqTopic THEN unconfirmed
                      ELSE unconfirmed \union {cur[c]}
    /\ pc' = [pc EXCEPT ![c] = "store"]
    /\ UNCHANGED <<outside, inHand, schemaKnown, delivered, clean>>

----------------------------------------------------------------------------
(* _store_offset and AggregatePublisher.emit *)

\* A plausible slip: the offset of the message itself.
ResumeAtMessage(m) == m.off

\* The offset to resume from.
ResumeOffset(m) == m.off + 1

\* librdkafka may refuse the offset once the partition is another's, which is
\* logged and forgotten.
StoreOffset(c) ==
    /\ pc[c] = "store"
    /\ \/ stored' = [stored EXCEPT ![c][cur[c].part] = ResumeOffset(cur[c])]
       \/ owner[cur[c].part] # c /\ UNCHANGED stored
    /\ pc' = [pc EXCEPT ![c] = "emit"]
    /\ PutDown(c)
    /\ UNCHANGED <<broker, app, schemaKnown, shutdown, held, position, flight,
                   history, bounds>>

\* A snapshot is due every EveryN orders, and once the interval is over when
\* there is at least one; the clock decides in between.
CertainlyDue(c) == app[c].sinceLast >= EveryN
PossiblyDue(c) == app[c].sinceLast > 0

\* A plausible slip: the count restarts and the publication does not happen
\* for a snapshot that only the order count made due.
SnapshotForgotten(a) == [a EXCEPT !.sinceLast = 0]

\* The count restarts; with publication on, the records are queued.
Snapshot(a) == [a EXCEPT !.sinceLast = 0,
                         !.emitted = IF PublishAggregates THEN Len(a.agg) ELSE @]

\* emit past its guard; a full egress queue drops the snapshot.
Emission(c) ==
    \/ app' = [app EXCEPT ![c] = Snapshot(@)]
    \/ /\ PublishAggregates /\ EgressFaults
       /\ app' = [app EXCEPT ![c].sinceLast = 0]

EmitNot(c) ==
    /\ pc[c] = "emit"
    /\ ~CertainlyDue(c)
    /\ pc' = [pc EXCEPT ![c] = NextRound(c)]
    /\ UNCHANGED <<outside, inHand, app, schemaKnown, history>>

Emit(c) ==
    /\ pc[c] = "emit"
    /\ PossiblyDue(c)
    /\ Emission(c)
    /\ pc' = [pc EXCEPT ![c] = NextRound(c)]
    /\ UNCHANGED <<outside, inHand, schemaKnown, history>>

\* The serialiser or produce raises anything but BufferError.
EmitRaises(c) ==
    /\ pc[c] = "emit"
    /\ PossiblyDue(c)
    /\ PublishAggregates
    /\ Fault
    /\ app' = [app EXCEPT ![c].sinceLast = 0]
    /\ Escape(c)
    /\ UNCHANGED <<broker, schemaKnown, shutdown, client, flight, delivered,
                   unconfirmed>>

----------------------------------------------------------------------------
(* _close *)

\* The forced last snapshot, unless nothing was aggregated.
CloseEmit(c) ==
    /\ pc[c] = "closeEmit"
    /\ IF app[c].agg = <<>> THEN UNCHANGED app ELSE Emission(c)
    /\ pc' = [pc EXCEPT ![c] = "closeFlush"]
    /\ UNCHANGED <<outside, inHand, schemaKnown, history>>

\* An exception here skips the flush and the close: nothing is committed.
CloseEmitRaises(c) ==
    /\ pc[c] = "closeEmit"
    /\ app[c].agg # <<>>
    /\ PublishAggregates
    /\ Fault
    /\ Gone(c)
    /\ UNCHANGED <<log, committed, dlqTopic, shutdown, delivered, unconfirmed>>

CloseFlush(c) ==
    /\ pc[c] = "closeFlush"
    /\ FlushReturns(c)
    /\ pc' = [pc EXCEPT ![c] = "closeLeave"]
    /\ UNCHANGED <<outside, inHand, app, schemaKnown, history>>

\* A plausible slip: close leaves the group without a last commit.
LastCommitSkipped(c) == UNCHANGED committed

\* A plausible slip: the offsets are set from outside the group, unfenced.
LastCommitUnfenced(c) ==
    committed' = [p \in Partitions |-> IF p \in held[c] THEN stored[c][p]
                                       ELSE committed[p]]

\* Consumer.close commits what is stored ...
LastCommit(c) == Commit(c, held[c])

\* ... and leaves the group; the process ends.
CloseLeave(c) ==
    /\ pc[c] = "closeLeave"
    /\ LastCommit(c)
    /\ Gone(c)
    /\ UNCHANGED <<log, dlqTopic, shutdown, history, bounds>>

----------------------------------------------------------------------------
(* The life of a process *)

Start(c) ==
    /\ pc[c] = "down"
    /\ pc' = [pc EXCEPT ![c] = "poll"]
    /\ shutdown' = [shutdown EXCEPT ![c] = FALSE]
    /\ UNCHANGED <<broker, inHand, app, schemaKnown, client, flight, history,
                   bounds>>

Crash(c) ==
    /\ pc[c] # "down"
    /\ Fault
    /\ Gone(c)
    /\ UNCHANGED <<log, committed, dlqTopic, shutdown, delivered, unconfirmed>>

Signalled(c) ==
    /\ pc[c] # "down"
    /\ sent < MaxSignals
    /\ sent' = sent + 1
    /\ UNCHANGED <<faults, rebalances, delivered, unconfirmed, log, dlqTopic>>

\* The first signal only sets the flag.
FirstSignal(c) ==
    /\ Signalled(c)
    /\ ~shutdown[c]
    /\ shutdown' = [shutdown EXCEPT ![c] = TRUE]
    /\ UNCHANGED <<committed, owner, pc, inHand, app, schemaKnown, client,
                   flight, clean>>

\* The second raises KeyboardInterrupt wherever the thread is: in the loop
\* that still closes the app ...
SecondSignal(c) ==
    /\ Signalled(c)
    /\ shutdown[c]
    /\ pc[c] \in Looping
    /\ Escape(c)
    /\ clean' = FALSE
    /\ UNCHANGED <<committed, owner, app, schemaKnown, shutdown, client,
                   flight>>

\* ... in _close the rest of it is skipped.
SignalWhileClosing(c) ==
    /\ Signalled(c)
    /\ shutdown[c]
    /\ pc[c] \in Closing
    /\ Gone(c)
    /\ clean' = FALSE
    /\ UNCHANGED <<committed, shutdown>>

----------------------------------------------------------------------------

Polling(c) == PollNothing(c) \/ PollTimeout(c)

\* What the thread does, as far as it is sure to get on with it.
ThreadStep(c) ==
    \/ DecodeFails(c) \/ Reject(c) \/ Accept(c)
    \/ DeliverOk(c) \/ Retry(c) \/ GiveUp(c)
    \/ \E error \in SinkRaises : SinkRefuses(c, error) \/ SinkEscapes(c, error)
    \/ Enqueue(c) \/ Published(c) \/ StoreOffset(c)
    \/ EmitNot(c) \/ Emit(c)
    \/ CloseEmit(c) \/ CloseFlush(c) \/ CloseLeave(c)

ThreadFault(c) ==
    PollFatal(c) \/ EnqueueRaises(c) \/ EmitRaises(c) \/ CloseEmitRaises(c)

ProcessStep(c) ==
    \/ Start(c) \/ Crash(c)
    \/ FirstSignal(c) \/ SecondSignal(c) \/ SignalWhileClosing(c)

GroupStep(c) ==
    \/ \E p \in Partitions : Assign(c, p) \/ Revoke(c, p)
    \/ Evict(c) \/ LosePartitions(c)

Background(c) == AutoCommit(c) \/ EgressDeliver(c) \/ EgressExpire(c)

Next ==
    \/ \E p \in Partitions, k \in Kinds : Produce(p, k)
    \/ \E c \in Consumers :
        \/ \E p \in Partitions : PollMessage(c, p)
        \/ Polling(c) \/ ThreadStep(c) \/ ThreadFault(c)
        \/ ProcessStep(c) \/ GroupStep(c) \/ Background(c)

Spec == Init /\ [][Next]_vars
=============================================================================
