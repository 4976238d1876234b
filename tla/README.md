# Verification of the order pipeline

TLA+ models of the Kafka order pipeline, the TLC runs that check them on small
instances and the TLAPS proofs about them. Paths such as `consumer.py:264` are
relative to `src/order_pipeline/` (`apps/` left out); line numbers are of the
commit that is modelled.

## 1. The system

A producer writes orders to the topic `orders`; some are invalid or corrupt on
purpose. A group of consumer processes reads them, validates, delivers to a sink
with bounded retries, aggregates prices and writes running averages to
`orders.aggregates`. What cannot be processed goes, as it is, to `orders.DLQ`,
which an inspector prints.

| Component | State it keeps | Operations | Talks to |
|---|---|---|---|
| Order consumer (`consumer.py`) | counters, message in hand, emission count, client positions and stored offsets | `run`, `_handle_message`, `_decode`, `_store_offset`, `_close`, start, exit | broker, coordinator, processor, DLQ publisher, shutdown flag |
| Order processor (`processing.py`, `retry.py`) | attempt counter, sleep | `handle`, `should_retry`, `backoff_for` | sink, aggregator |
| Error taxonomy, dead letters (`errors.py`, `dlq.py`) | `published` | `classify`, `publish`, `_on_delivery`, header building | egress producer |
| Aggregation (`aggregation.py`) | count, mean, min, max, overall and per product | `add`, `snapshots` | – |
| Aggregate publisher (`consumer.py:130-195`) | `_since_last`, `_last_emit` | `note_processed`, `due`, `emit` | egress producer |
| Shutdown (`shutdown.py`) | one flag | first signal, second signal, `wait` | both threads |
| Order producer (`producer.py`) | counters, librdkafka queue | `run`, delivery callback, flush, exit code | broker |
| DLQ inspector (`dlq_inspector.py`) | entries seen, by reason; idle clock | `run`, entries, totals | broker, shutdown flag, registry |
| Serialisers, schemas, configuration, logging | cached schemas | factories | registry |
| Broker, coordinator, librdkafka (external) | log, committed offsets, owners, queues | commit, rebalance, delivery | everything |

What is hard: a message passes poll, handling, dead letter, flush, offset store
and background commit, and between any two of these the process may die, be
evicted, be signalled, lose the partition or have its egress producer fail. Several
processes do this to the same partitions. Delivery reports arrive asynchronously.
Every hazard is listed with its line in `PROJECT.json`, with the properties that
would catch it; the two that no property covers say why.

What makes the components correct:

* consumer group: a committed offset covers only messages with a decided outcome,
  never rewinds, never covers a message in flight; without a fault nothing is
  handled twice; every message is acknowledged in the end; a shutdown ends;
* processor and taxonomy: attempts stay in the budget, the letter's reason is that of
  the failure, and so is its number of attempts where the budget ran out or nothing was
  tried (what the sink refuses for good is a finding);
* aggregates: each order counted once and in order as long as nothing fails, and
  the published snapshot lags less than `aggregate_emit_every_n` behind; overall and
  per-product figures agree, the mean stays near the true one, and the reader of the
  topic gets the figures, whole and in time;
* poll interval: no round stays away from `poll` longer than its back-offs and a flush;
* producer: counters, report and exit code account for every message, the budget
  is met exactly, the run ends;
* dead letters: one failure context per letter however often it is replayed, foreign
  headers kept; the inspector prints every letter in order, reports what it printed,
  ends when it should, and not before the queue is drained.

## 2. Modules

| Module | Models |
|---|---|
| `RetryPolicy` | `retry.py`: the retry budget |
| `Backoff` | `retry.py`: how long to wait, in ticks |
| `ErrorTaxonomy` | `errors.py` classes with their bases; `classify` of `dlq.py` |
| `OrderConsumer` | every process of the consumer group, with broker, coordinator and librdkafka as the code uses them |
| `OrderConsumerProperties` | its type invariant, properties, inductive invariant, fairness, refinement mapping |
| `AtLeastOnce` | the abstract promise: messages are settled, partitions acknowledged over settled messages only, never taken back |
| `MCOrderConsumer` | the symmetry TLC uses |
| `OrderConsumerTypes`, `OrderConsumerAccounting`, `OrderConsumerHandover`, `OrderConsumerReporting` | proofs: types; acknowledgements and the refinement; histories without a fault; counters, snapshots and letters |
| `OrderProducer`, `OrderProducerProperties` | one run of the producer, and what it owes its operator |
| `OrderProducerProofs` | proofs |
| `Selections` | the comprehensions of `dlq.py` and `aggregation.py` that filter a list, as a recursive function one can prove about |
| `SelectionsProofs` | induction, recursion and the lemmas on `Picked` the proofs below use |
| `DeadLetterHeaders` | `dlq.py`: normalising, stripping and rebuilding headers |
| `DlqInspector`, `DlqInspectorProperties`, `MCDlqInspector` | the dead letter topic and one run of its inspector |
| `DlqInspectorProofs` | proofs |
| `RunningStats` | `aggregation.py`: running mean, extremes, snapshot records |
| `AggregatePublisher`, `AggregatePublisherProperties`, `MCAggregatePublisher` | one consumer on a clock: back-offs, emission rule, records, egress queue |
| `AggregatePublisherProofs` | proofs |

`DlqInspector` extends `DeadLetterHeaders`, which takes the reasons from
`ErrorTaxonomy`; `AggregatePublisher` extends `RunningStats` and `Backoff`, which
extends `RetryPolicy`. Both extend `Selections`: the headers that are kept and the
products that have a record are picked from a list. `AggregatePublisher` and `OrderConsumer` model the same loop:
the one has time, prices and the egress queue message by message, but one process and
no offsets; the other has offsets, several processes, crashes and rebalances, but no
time. What they share, the retry budget, is one module.

`OrderConsumer` extends `RetryPolicy` and `ErrorTaxonomy`; the properties module
instantiates `AtLeastOnce`. `OrderProducer` stands alone: of the topic it writes,
`OrderConsumer` keeps only that any kind of message may be appended (`Produce`).

### How `OrderConsumer` corresponds to the code

A process is one thread. `pc` is its place, and each place is left by the actions
named after the code that runs there:

| `pc` | Code | Actions |
|---|---|---|
| `poll` | `Consumer.poll`, and the rebalances librdkafka performs inside it | `PollMessage`, `PollNothing`, `PollTimeout`, `PollFatal`; `Assign`, `Revoke`, `LosePartitions` |
| `handle` | `_decode`, `validate_order` | `DecodeFails`, `Reject`, `Accept` |
| `deliver` | one attempt of the loop of `handle` | `DeliverOk`, `Retry`, `GiveUp`, `SinkRefuses`, `SinkEscapes` |
| `produce`, `flush` | `DeadLetterPublisher.publish` | `Enqueue`, `EnqueueRaises`, `Published` |
| `store` | `_store_offset` | `StoreOffset` |
| `emit` | `AggregatePublisher.emit` | `EmitNot`, `Emit`, `EmitRaises` |
| `closeEmit`, `closeFlush`, `closeLeave` | `_close` | `CloseEmit`, `CloseEmitRaises`, `CloseFlush`, `CloseLeave` |
| `down` | no process | `Start` |

Between any two of them: `AutoCommit`, `EgressDeliver`, `EgressExpire` (librdkafka),
`Evict` (coordinator), `Crash`, `FirstSignal`, `SecondSignal`, `SignalWhileClosing`,
and `Produce`.

Ownership is kept twice: `owner` is what the coordinator knows, `held` what a
process believes. A commit counts only for partitions the process still owns.
Offsets of a process: `position` (next to fetch), `stored` (eligible for commit);
of the group: `committed`.

Abstractions. A message is its partition and offset, its payload one of the kinds
valid, invalid, corrupt. A letter keeps origin, reason and attempts of its headers.
The aggregate is the sequence of orders counted. A snapshot is one step for all its
records. Time does not exist: an emission that only the clock makes due may happen
or not, a back-off has no length, an exceeded poll interval is an eviction at any
time. `delivered`, `unconfirmed` and `clean` are history, read by properties only.
The sink may raise any class the configuration lists in `SinkRaises`: the protocol
`OrderSink` (`processing.py:29-37`) leaves this open; `FlakyDownstream` raises
`TransientProcessingError` only.

### How `OrderProducer` corresponds to the code

`loop` is the while condition, draw, serialisation and count (`producer.py:165-188`),
`produce` and `serve` are `produce` and `poll(0)` with the pacing sleep, `flush` is
the finally, `report` the rest of `main`. `Deliver` and `DeliveryFails` are librdkafka;
a message that is given up may be on the broker all the same. Callbacks run only
inside `Serve` and `FlushServes`, and take all reports that are in.

### How `AggregatePublisher` corresponds to the code

| `pc` | Code | Actions |
|---|---|---|
| `poll` | `poll`, and what its result leads to (`consumer.py:252-263`) | `PollOrder`, `PollBad`, `PollTimeout`, `PollError` |
| `attempt` | one pass of the loop of `handle` (`processing.py:111-139`) | `AttemptOk`, `AttemptRetried`, `AttemptsExhausted` |
| `produce`, `flush` | `DeadLetterPublisher.publish` | `ProduceLetter`, `ProduceRaises`, `FlushEnds`, `FlushTimesOut` |
| `emit` | the tests of `emit` (`consumer.py:167-175`) | `EmitStart`, `EmitNot` |
| `records` | its loop over the scopes (`consumer.py:183-195`) | `EmitRecord`, `EmitDrops`, `EmitRaises`, `EmitEnds` |
| `closeFlush` | the flush of `_close` | `CloseFlush` |

`Deliver` and `Lose` are librdkafka, at any time. A message takes room in the egress
queue until its delivery report is served, which only `poll(0)` behind a snapshot and
the flushes do; `reports` counts those not served. `AttemptOk` covers `aggregator.add`
and `note_processed`. `EmitRaises`, an exception of the serialiser or of `produce` in the
middle of a snapshot, leads from the loop to `_close`, which emits again, and from there to
the end without the last flush, as a second signal does (`CutShort`). Time passes in ticks of
one second, in polls, back-offs and flushes; the sink, the deserialiser and `produce` take
none. `elapsed` is the time since `_last_emit`, as far as `due` tells it apart. `age`, `gap`
and `intact` are history.

Prices and means lie on a grid of whole numbers that stands for the precision of a
float: the division of the running mean is rounded up or down, as TLC likes. `exact` is
the true sum, kept beside it as history. `sumPrice` is derived (mean times count) and left
out. A product named `ALL` would share the key of the overall record; the module assumes
there is none (`ScopesAssumption`), which the code does not check.

### How `DlqInspector` corresponds to the code

`start` is what comes before the loop (the idle clock starts at `dlq_inspector.py:97`),
`poll` is `poll(1.0)` with the branches on its result (`PollNone`, `PollEof`, `PollError`,
`PollLetter`), `print` decoding, entry and limit, `close` the finally, `report` the totals.
`Join`, `Evicted` and `ReachEnd` are the client: it reads from the beginning after every
assignment, since nothing is committed, and it puts an end-of-partition event behind the
letters it has fetched. `Fail` and `Replay` are the orders group and the operator: a letter
is written with the headers `BuildHeaders` makes of those the message came with. `poll`
always returns: `Elapse` lets a poll without a letter take time, whatever is waiting and
whether or not the group has been joined. `waited` counts how long a letter has waited in
such polls, as far as the comparison with `Delay` needs it (`Counted`), and so does `idle`
for `--idle-timeout`. `printed`, `mark` and `waited` are history, and so are `failure`, `off`
and `sender` of a letter.

A header is a key and a value, and a key its prefix, if it is one the consumer claims, and the
rest: every header with such a prefix is stripped, also one a sender has set. Host, group,
time and message text are one value each. One partition stands for the topic.
`--idle-timeout`, `Delay` and `MaxDecode` are constants, `--follow` and `--limit` chosen in the
initial state.

## 3. Runs

| Run | Instance | Checks |
|---|---|---|
| `consumer_group` | 2 processes, 1 partition, 2 messages, 2 faults, 1 rebalance, 1 signal | `InFlightNotCommitted`, `NoOrderLost`, `IInv`, `NoReplayWithoutFault`, `CountedInOrder`, `OneOutcomeWithoutFault`, `SnapshotLag`, `OrderlyInv`, `CommittedNeverRewinds`, `ImplementsAtLeastOnce` |
| `consumer_single` | 1 process, 2 partitions with 1 message each, of all kinds, every sink error, egress and registry faults, 1 fault, 1 rebalance | `TypeOK`, `AckedIsAccountedFor`, `LettersTellWhy`, `TallyBalances` |
| `consumer_live` | 2 processes, 1 message, 1 fault, 2 signals, fairness | `EveryOrderAcknowledged`, `ShutdownCompletes` |
| `producer` | 3 messages, queue of 2, every budget, 2 signals, fairness | `TypeOK`, `Ledger`, `EndInv`, `BudgetSpentExactly`, `ExitCodeTruthful`, `StopsWhenAsked`, `EndsOnBudget` |
| `inspector` | 2 letters of 2 kinds of failure, replays, every `--follow` and limit 0 or 2, 1 lost assignment, 1 error, 2 signals, idle timeout 2 = `Delay` + `MaxDecode`, fairness | `TypeOK`, `DrainedInTime`, `PrintedInOrder`, `ReportTellsWhy`, `OneFailureContext`, `ForeignHeadersKept`, `EndsAfterSignal`, `EndsWithoutFollow`, `FollowShowsAll` |
| `aggregates` | 2 products, 2 prices, 2 messages, 3 attempts, egress queue of 1 or 3, 1 poll error, 1 loss or timeout, 2 signals, fairness | `TypeOK`, `MeanNear`, `PartsMakeWhole`, `SnapshotsAgree`, `ReaderUpToDate`, `PollGapBounded`, `NeverStale`, `EveryOrderPublished` |
| `finding_*` | one disagreement each, see below | one property, violated |

Bounds and why they are enough. `MaxLog` 2 gives a message before and a message
behind any offset; two processes give the old and the new owner of a partition, and
every commit, store or letter of one that meets the progress of the other; two
faults give a crash on top of an eviction; a rebalance takes a partition away, which is
assigned to either process later, and a signal makes its owner leave in order; two
partitions have one taken away while a message of the other is in hand; `MaxAttempts` 2
has a first and a last attempt, and 1 the budget without retries; with `EveryN` 1 an
emission that raises leaves an order to the last snapshot, and with 2 an order makes no
snapshot due. Two signals are all the code tells apart. In the producer, three messages exceed the queue by
one and leave an unlimited run, a budget met and a budget cut short by a signal. In
`inspector`, two letters have one behind every other, a letter that is a replay of the
first, a sender whose headers include one of the consumer's own keys, another with a
prefix it claims and one without a value, and a topic that grows behind an
end-of-partition event; one lost assignment already makes the run begin again, and count
a letter twice towards a limit of 2. In `aggregates`, two orders of two products make
a snapshot of three records, which fills the larger queue exactly, so that a record still
in it, or a report not served, makes the next one drop; in the smaller one every snapshot
drops, and a record leaves a letter no room; three attempts have a delay below the cap and
one at it; with `EveryN` 2 and `Interval` 2 snapshots become due by count and by time. What
the proofs below cover does not depend on these bounds. Symmetry over processes and
partitions is used for safety runs only; no action or property names one of them.

### Fairness

`consumer_live` assumes: a thread goes on when it can (its calls return: `poll` after
1 s, `flush` after 10 s and 15 s, the sleep after a bounded back-off); a poll repeated
for ever returns the messages there are (strong, since the poll is left and
re-entered); the coordinator hands a free partition to some member that goes on
polling, and an evicted member learns of it at a poll; librdkafka commits every
5 s and delivers what is queued; an ended process that was not asked to end is started
again (`restart: unless-stopped`, `docker-compose.yml:129`). Nothing is assumed of
faults, signals or rebalances. The sink may refuse every time: the retry budget, not
fairness, ends that. `producer` assumes only that its thread goes on; nothing is
assumed of the broker, since the flush gives up after 30 s. An exception of the
serialiser is never forced. `inspector` assumes only that its thread goes on, since `poll`
returns after 1 s and decoding in the end: `EndsAfterSignal` and `EndsWithoutFollow` hold for
a run that never joins as well. That the group is joined and letters are handed out is a
condition of `FollowShowsAll` alone (`BrokerServes`). `aggregates` assumes that the
thread goes on and that the egress producer works its queue off, by delivering or by
giving up.

### Findings

* `finding_lost_letter`: `publish` ignores the result of its flush and the delivery
  report (`dlq.py:111`), so a message can be acknowledged with its letter nowhere,
  against `dlq.py:109-110` and the project README (192-193). `AckedIsAccountedFor`
  is what still holds; `NoOrderLost` holds as long as the egress producer works.
* `finding_unexpected`: an exception that is no `ProcessingError` escapes the handlers
  (`consumer.py:280-290`), the process restarts and meets the message again for ever;
  `docs/ARCHITECTURE.md:57-59` promises a dead letter with `UNEXPECTED_ERROR`.
* `finding_counted_letter`: with an eviction, one process counts a message that another
  dead-letters (`consumer.py:292`), against `aggregation.py:56-57`.
* `finding_attempts`: an order that was retried and then fails for good is published
  without its number of attempts (`consumer.py:285-290`), so that the letter says 1, the
  default (`dlq.py:97`), where the project README (116) promises the attempt count.
  `LettersTellWhy` says what still holds of the reasons.
* `finding_inspector`: the idle clock starts before the subscription
  (`dlq_inspector.py:97`) and every empty poll of the join counts, so when the group is joined
  late or never, a run ends by itself and reports an empty queue with letters in the topic,
  against `dlq_inspector.py:107` and the project README (204). `DrainedInTime` says what
  still holds: with an idle timeout of at least `Delay` plus `MaxDecode`, a run does not end
  too early unless a letter has waited for longer than `Delay`.
* `finding_undelivered`: what the last flush leaves is not part of the report and the
  exit code of the producer (`producer.py:204-206`, `255`), which say 0 undelivered.

## 4. Proofs

For every number of processes and partitions, every bound and every setting, from the
named assumptions on the constants only (`Spec` is that of the consumer group, of a
producer run, of the inspector and of `AggregatePublisher` in turn):

| Theorem | States |
|---|---|
| `TypeCorrect` | `Spec => []TypeOK` |
| `Invariance` | `Spec => []IInv` |
| `Accounting` | `Spec => []AckedIsAccountedFor` |
| `NoLoss` | `Spec => []NoOrderLost`, assuming `~EgressFaults` |
| `InFlightSafe` | `Spec => []InFlightNotCommitted` |
| `Monotone` | `Spec => CommittedNeverRewinds` |
| `Refinement` | `Spec => ImplementsAtLeastOnce` |
| `BooksKept`, `LettersKept`, `Orderly` | `Spec => []BooksInv`, `[]LettersInv`, `[]OrderlyInv` |
| `Balanced`, `LagBounded`, `LettersExplained` | `Spec => []TallyBalances`, `[]SnapshotLag`, `[]LettersTellWhy` |
| `NoReplay`, `OneOutcomeOnly`, `InOrder` | `Spec => []NoReplayWithoutFault`, `[]OneOutcomeWithoutFault`, `[]CountedInOrder` |
| `ProducerTypes` | `Spec => []TypeOK` |
| `ProducerInvariance` | `Spec => [](Ledger /\ EndInv)` |
| `LedgerKept`, `BudgetKept`, `ExitCodeKept` | `Spec => []Ledger`, `[]BudgetSpentExactly`, `[]ExitCodeTruthful` |
| `QueueDrained` | `Spec => []DrainedInTime`, assuming `Delay + MaxDecode <= IdleTimeout` |
| `OrderKept` | `Spec => []PrintedInOrder` |
| `OneContext`, `ForeignKept` | `Spec => []OneFailureContext`, `[]ForeignHeadersKept` |
| `InspectorTypes`, `ReportTrue` | `Spec => []TypeOK`, `[]ReportTellsWhy` |
| `MeansStayNear` | `Spec => []MeanNear` |
| `RoundsBounded` | `Spec => []PollGapBounded` |
| `NoneStale` | `Spec => []NeverStale` |
| `PublisherTypes` | `Spec => []TypeOK` |
| `WholeOfParts` | `Spec => []PartsMakeWhole` |
| `ReaderCatchesUp`, `ReaderNeverMisled` | `Spec => []ReaderUpToDate`, `[]SnapshotsAgree` |

The assumptions are what the code guarantees of its settings: retry budget, `EveryN` and
`Interval` positive, bounds natural numbers, the sink's classes among those of `errors.py`
(or outside them), a failure a class and a number of attempts, a sender's headers keys
with values, prices natural numbers, and the products of an aggregator pairwise
different, as keys of a dict are. Every one is evaluated by TLC in the runs.

### Acknowledgements

`AckedIsAccountedFor` is not inductive: a commit takes whatever a process has stored,
so something must be known of stored offsets, of the message in hand they come from,
and of the position it was fetched at. `IInv` says it: in each process the offsets of
a held partition are ordered, stored up to the message in hand, the next position
right behind it (`OffsetsInOrder`); the owner knows that it owns the partition and has
stored at least what the group has committed (`OwnerStoresAhead`, which is why commits
never rewind although every process stores on its own); everything below a committed,
a stored or a handled offset is decided (`DecidedInv`); and without egress faults an
awaited letter is queued or delivered (`NothingUnconfirmed`). The frontier of a process
moves only when `StoreOffset` puts a message down whose outcome is decided; an
exception puts a message down undecided, but then the process never polls again
(`Closing`), which is what the exception for closing processes in `DecidedInv` says.

`OrderConsumerTypes` proves types action by action; `OrderConsumerAccounting` has
lemmas for the steps that leave offsets alone (`QuietOffsets`, `QuietDecided`), for the
pieces that move them (`EscapeOffsets`, `CommitAdvances`, `GoneOffsets`) and one for each
action that is special; the refinement, at its end, rests on that a step decides at most one
message, and none while it commits.

### Histories without a fault

`NoReplayWithoutFault`, `OneOutcomeWithoutFault` and `CountedInOrder` are about `clean`
histories. They follow from `OrderlyInv`, which is inductive together with `TypeOK` and
`OffsetsInOrder`. A process holds what it owns and nothing else, and has stored all that
it is done with (`HoldsWhatItOwns`). Each partition has one `Edge`, the frontier of its
owner or, without one, the committed offset; nothing at or beyond it has an outcome or a
letter on its way, but for a message that is about to be stored (`NothingBeyondEdge`).
Hence a message fetched at the edge is new, and in one process only. The point of the
proof are the hand-overs: a revocation happens inside `poll`, when no message is in hand,
and `Commit` brings the committed offset up to what is stored, which is the edge; so the
next owner begins exactly there (`OrderConsumerHandover`, one lemma per way to change
hands). `CountedInOrder` needs the orders counted to lie below the frontier as well.

### What a process reports

`TallyBalances` and `SnapshotLag` speak of a few places of the thread. `BooksInv` says for
every place which counters are one ahead (`TallyAt`) and how many orders the published
snapshot lacks (`LagAt`); the proof goes through the actions of the thread, with one lemma
for those that leave the books alone. `LettersTellWhy` follows from `LettersInv`: the kind
of a message in hand is settled because the message is in its log, an attempt is made for
an order only, and a letter tells why from the moment it is made. Its second part, that no
process that has the schema calls a decodable message undecodable, is inductive by itself
(`SchemaInv`): what a process has cached changes only where it makes up its mind.

### Producer

The ledger of the producer is inductive only with `EndInv`: that a message has one
report keeps a served message from being booked twice, and what the broker holds,
what was refused and what the flush left behind decide what an exit code means.
`OrderProducerProofs` has a lemma for each way the books move (a message composed,
handed over or refused; reported; served) and one for the steps that move nothing.
That failures are counted once is `FailuresCounted`: the callback counts reports, the
ledger messages, and the two agree since their failed ones are in bijection.

### Dead letters and their inspector

`DrainedInTime` looks at the end of the inspector only. Its invariant (`DInv`) says at every
poll that what the client has handed out is printed, and that while a letter below `mark`
is missing the idle clock shows no more than the decoding of the letter before it and the
polls that have waited (`IdleExplained`); with the assumption on the timeouts the test
`QueueIdle` then fails. `PrintedInOrder` needs to know that the last entry is the last letter
handed out (`LastPrinted`), that a restart from the beginning has used up an eviction
(`Restarts`), and that the loop goes on below the limit only (`BelowLimit`).

For the letters, `TopicInv` says that each one in the topic is `Built`: its headers are those
of its sender that are not the consumer's own, followed by one failure context, that of its
own failure. A replay hands these headers back to `BuildHeaders`, so the step is a
statement about `Picked`: of the headers of others followed by those of the consumer, the
first are what is picked (`PickedFirst`), and nothing is lost where nothing is left out
(`PickedAll`). `ReportTellsWhy` needs in addition that the totals agree with what is printed
before they are reported (`TallyInv`), with the letter in hand already counted when its
entry is next.

`Picked` is a recursive function, and what it returns is proved by induction on the length
of a list. The library's induction theorem is out of reach, since it takes an operator, but
its first-order core is not: `SelectionsProofs` derives from the well-foundedness of `<` that
every non-empty set of naturals has a least element (`LeastNatural`), from that induction for
sets (`SetInduction`), and from that the recursion equations (`RecursionExists`,
`PickedRecursion`).

### Aggregates

`MeanNear` is inductive with the types alone; its proof is the lemma `FoldedSound` on one
update, whose core is `QuotientBounds`: a rounded quotient never passes the value, and its
rounding error, times the count, stays below the count, so that errors add up to less than
half a unit per order. For the times, `Away` bounds the absence from `poll` by the delays of
the attempts so far, and `Ages` says that an order is older than the clock of the emissions
only when that has run down; as the emission behind every round then takes place, the
thread polls again with a younger order only, but for errors.

`PartsMakeWhole` compares the overall figures with sums over the products. `Sum` is recursive
over the list of products; `SumsExist` and `SumRecursion` are its recursion, and `SumOne` says
that a sum grows by what one of its terms grows by, which is where products have to be
pairwise different. With the lemma every order adds the same to both sides; that the overall
extremes are those of some product is carried along with it (`PInv`).

`ReaderUpToDate` and `SnapshotsAgree` are about records that are on their way. Both proofs
look at `Outgoing`, the queue followed by the rest of the snapshot, and at what a reader
would see of a scope once its first `k` items are delivered: `Shows`. `Movements` sorts the
steps by what they do to it: nothing, the first item leaves, a letter is queued, the rest is
dropped, a snapshot begins. `BInv` says that nothing in the topic or on its way is ahead of
the figures. `UpToDateInv` says that with nothing lost, dropped or noted since, the reader
will see the figures when all is delivered; `AgreeInv`, that after every prefix of
`Outgoing` the products add up to no more than the overall record. The second needs every
prefix, not the end alone, because a full queue may cut a snapshot anywhere; it survives
a new snapshot since its overall record goes first and covers whatever products are
older.

### What stays with TLC

Every safety invariant and the action property that the passing runs check has a theorem.
Liveness (`EveryOrderAcknowledged`, `ShutdownCompletes`, `StopsWhenAsked`, `EndsOnBudget`,
`EndsAfterSignal`, `EndsWithoutFollow`, `FollowShowsAll`, `EveryOrderPublished`) is out of the
prover's reach and only model-checked, as are the disagreements of section 3, which are
counterexamples.

## 5. Not modelled, and plan

Not modelled:

* argument parsing, logging, the wording of entries, schema loading, settings validation,
  topic creation: no state of their own that anything depends on;
* replication and retention of the broker, several partitions of the dead letter topic
  (letters of different partitions have no order to keep);
* `auto_offset_reset = latest`: the model has the default;
* the overflow of `multiplier ** (attempt - 1)` in `retry.py:57`, which takes about a
  thousand attempts: integers of the model do not overflow;
* several consumers that write snapshots of their own share to one aggregates topic
  under the same keys: readers see whichever came last.

Plan:

1. `auto_offset_reset` as a constant of `OrderConsumer`: what `latest` loses.
2. Two `AggregatePublisher`s with one topic.
3. `AggregatePublisher`, without its clock and prices, as an implementation of the loop of
   one process of `OrderConsumer`.
