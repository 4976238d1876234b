------------------------- MODULE AggregatePublisher -------------------------
(***************************************************************************)
(* The loop of one order consumer (apps/consumer.py) on a clock: what it   *)
(* adds to the running averages, how long it stays away from poll, and     *)
(* when and how AggregatePublisher writes the averages to the aggregates   *)
(* topic, record by record, through the egress queue it shares with the    *)
(* dead letters.  OrderConsumer has the same loop without a clock, with    *)
(* offsets and several processes; publication is switched on here.         *)
(*                                                                         *)
(* Time passes in ticks of one poll timeout (1 s), in polls, back-offs and *)
(* flushes.                                                                *)
(***************************************************************************)
EXTENDS Integers, Sequences, Selections, RunningStats, Backoff

CONSTANTS
    Products,     \* the products, in alphabetical order
    Prices,       \* the prices of valid orders
    All,          \* the scope of the overall average
    EveryN,       \* aggregate_emit_every_n
    Interval,     \* aggregate_emit_interval_s
    FlushTicks,   \* the timeout of a flush
    QueueLimits,  \* what the egress queue may hold
    MaxMessages,  \* bound: messages read
    MaxErrors,    \* bound: recoverable errors a poll returns
    MaxLosses,    \* bound: records whose delivery fails, flushes that time out
    MaxSignals    \* bound: SIGINT and SIGTERM

ProductSet == {Products[i] : i \in DOMAIN Products}
Scopes == {All} \union ProductSet

\* The keys of a dict; a product of that name would share its key with the overall
\* average.
ASSUME ScopesAssumption ==
    /\ Products \in Seq(STRING)
    /\ \A i, j \in DOMAIN Products : i # j => Products[i] # Products[j]
    /\ All \notin ProductSet
ASSUME PricesAssumption == Prices \subseteq Nat
ASSUME PublisherAssumption == /\ EveryN \in Nat \ {0}
                              /\ Interval \in Nat \ {0}
                              /\ FlushTicks \in Nat
                              /\ QueueLimits \subseteq Nat
ASSUME PublisherBounds == /\ MaxMessages \in Nat
                          /\ MaxErrors \in Nat
                          /\ MaxLosses \in Nat
                          /\ MaxSignals \in Nat

VARIABLES
    pc,           \* where the thread is
    shutdown,     \* the ShutdownSignal flag
    closing,      \* is run in its finally?
    order,        \* the order in hand
    attempt,      \* the attempt under way, 1-based
    overall, perProduct,   \* the OrderAggregator
    sinceLast,    \* _since_last
    elapsed,      \* ticks since _last_emit, up to Interval
    rest,         \* records of this snapshot still to produce
    queue,        \* the egress queue: records and letters not delivered yet
    reports,      \* delivery reports no poll or flush has served yet
    room,         \* what that queue holds in this process
    \* The aggregates topic: the last record of each scope.
    latest,
    \* History, read by the properties only.
    age,          \* ticks since the oldest order no emission has covered; or -1
    gap,          \* ticks since poll returned
    intact,       \* has all of the last snapshot arrived, or may it still?
    \* Bounds used up.
    messages, errors, losses, signals

inHand    == <<order, attempt>>
aggregate == <<overall, perProduct>>
clock     == <<elapsed, age, gap>>
egress    == <<queue, reports, room>>
bounds    == <<messages, errors, losses, signals>>
vars == <<pc, shutdown, closing, inHand, aggregate, sinceLast, clock, rest,
          egress, latest, intact, bounds>>

NoOrder == [product |-> All, price |-> 0]
Letter == Record("letter", Fresh)
Running == {"poll", "attempt", "produce", "flush", "emit", "records", "closeFlush"}

Init ==
    /\ pc = "poll"
    /\ shutdown = FALSE
    /\ closing = FALSE
    /\ order = NoOrder
    /\ attempt = 0
    /\ overall = Fresh
    /\ perProduct = [p \in ProductSet |-> Fresh]
    /\ sinceLast = 0
    /\ elapsed = 0
    /\ rest = <<>>
    /\ queue = <<>>
    /\ reports = 0
    /\ room \in QueueLimits
    /\ latest = [s \in Scopes |-> Record(s, Fresh)]
    /\ age = -1
    /\ gap = 0
    /\ intact = TRUE
    /\ messages = 0
    /\ errors = 0
    /\ losses = 0
    /\ signals = 0

----------------------------------------------------------------------------
(* Pieces the actions share. *)

\* The longest a round can stay away from poll; ages beyond MaxAge are not told
\* apart.
LongestRound == (MaxAttempts - 1) * (MaxBackoff + Spread(MaxBackoff)) + FlushTicks
MaxAge == Interval + MaxErrors + LongestRound

\* t ticks pass.
Pass(t) ==
    /\ elapsed' = Least(elapsed + t, Interval)
    /\ age' = IF age < 0 THEN age ELSE Least(age + t, MaxAge + 1)

\* They count as an absence from poll.
PassAway(t) == Pass(t) /\ gap' = gap + t

\* The while of run: the flag is read between two rounds.
NextRound ==
    IF shutdown THEN pc' = "emit" /\ closing' = TRUE
                ELSE pc' = "poll" /\ UNCHANGED closing

PutDown == order' = NoOrder /\ attempt' = 0

\* An exception or an interrupt leaves the loop: the finally of run.
Escape == pc' = "emit" /\ closing' = TRUE /\ PutDown /\ rest' = <<>>

\* One that may come in _close as well, which it ends, and cuts an emission short.
CutShort ==
    /\ IF closing THEN pc' = "done" ELSE pc' = "emit"
    /\ closing' = TRUE
    /\ PutDown
    /\ rest' = <<>>
    /\ intact' = FALSE

----------------------------------------------------------------------------
(* poll *)

Polled(t) == pc = "poll" /\ Pass(t) /\ gap' = 0

Read ==
    /\ messages < MaxMessages
    /\ messages' = messages + 1
    /\ \E t \in 0..1 : Polled(t)
    /\ UNCHANGED <<shutdown, closing, aggregate, sinceLast, rest, egress, latest,
                   intact, errors, losses, signals>>

\* A valid order ...
PollOrder(product, price) ==
    /\ Read
    /\ order' = [product |-> product, price |-> price]
    /\ attempt' = 1
    /\ pc' = "attempt"

\* ... or a message that is dead-lettered as it is.
PollBad ==
    /\ Read
    /\ pc' = "produce"
    /\ UNCHANGED inHand

\* None: an emission is tried.
PollTimeout ==
    /\ Polled(1)
    /\ pc' = "emit"
    /\ UNCHANGED <<shutdown, closing, inHand, aggregate, sinceLast, rest, egress,
                   latest, intact, bounds>>

\* A recoverable error: no emission is tried.
PollError ==
    /\ errors < MaxErrors
    /\ errors' = errors + 1
    /\ \E t \in 0..1 : Polled(t)
    /\ NextRound
    /\ UNCHANGED <<shutdown, inHand, aggregate, sinceLast, rest, egress, latest,
                   intact, messages, losses, signals>>

----------------------------------------------------------------------------
(* OrderProcessor.handle *)

\* A plausible slip: the publisher is not told of an order that was retried.
NotedFirstTry(n) == sinceLast + (IF n > 1 THEN 0 ELSE 1)

\* note_processed, for an order delivered on the n-th attempt.
Noted(n) == sinceLast + 1

AttemptOk ==
    /\ pc = "attempt"
    /\ \E both \in Added(overall, perProduct[order.product], order.price) :
        /\ overall' = both[1]
        /\ perProduct' = [perProduct EXCEPT ![order.product] = both[2]]
    /\ sinceLast' = Noted(attempt)
    /\ age' = IF age < 0 THEN 0 ELSE age
    /\ pc' = "emit"
    /\ PutDown
    /\ UNCHANGED <<shutdown, closing, elapsed, gap, rest, egress, latest, intact,
                   bounds>>

\* A transient failure with budget left: the back-off is slept through, signals
\* notwithstanding.
AttemptRetried ==
    /\ pc = "attempt"
    /\ ShouldRetry(attempt)
    /\ \E t \in Delays(attempt) : PassAway(t)
    /\ attempt' = attempt + 1
    /\ UNCHANGED <<pc, shutdown, closing, order, aggregate, sinceLast, rest,
                   egress, latest, intact, bounds>>

\* The budget is used up.
AttemptsExhausted ==
    /\ pc = "attempt"
    /\ ~ShouldRetry(attempt)
    /\ pc' = "produce"
    /\ UNCHANGED <<shutdown, closing, inHand, aggregate, sinceLast, clock, rest,
                   egress, latest, intact, bounds>>

----------------------------------------------------------------------------
(* DeadLetterPublisher.publish, and the egress queue *)

\* A message takes its room until its report has been served.
Room == Len(queue) + reports < room

ProduceLetter ==
    /\ pc = "produce"
    /\ Room
    /\ queue' = Append(queue, Letter)
    /\ pc' = "flush"
    /\ UNCHANGED <<shutdown, closing, inHand, aggregate, sinceLast, clock, rest,
                   reports, room, latest, intact, bounds>>

\* BufferError: records that wait for delivery, or for their report to be served,
\* leave no room for the letter, and nothing catches it.
ProduceRaises ==
    /\ pc = "produce"
    /\ ~Room
    /\ Escape
    /\ UNCHANGED <<shutdown, aggregate, sinceLast, clock, egress, latest, intact,
                   bounds>>

FlushEnds ==
    /\ pc = "flush"
    /\ queue = <<>>
    /\ reports' = 0
    /\ \E t \in 0..FlushTicks : PassAway(t)
    /\ pc' = "emit"
    /\ PutDown
    /\ UNCHANGED <<shutdown, closing, aggregate, sinceLast, rest, queue, room, latest,
                   intact, bounds>>

FlushTimesOut ==
    /\ pc = "flush"
    /\ queue # <<>>
    /\ losses < MaxLosses
    /\ losses' = losses + 1
    /\ reports' = 0
    /\ PassAway(FlushTicks)
    /\ pc' = "emit"
    /\ PutDown
    /\ UNCHANGED <<shutdown, closing, aggregate, sinceLast, rest, queue, room, latest,
                   intact, messages, errors, signals>>

\* The idempotent producer delivers in order ...
Deliver ==
    /\ pc # "done"
    /\ queue # <<>>
    /\ queue' = Tail(queue)
    /\ reports' = reports + 1
    /\ latest' = IF Head(queue) = Letter THEN latest
                 ELSE [latest EXCEPT ![Head(queue).scope] = Head(queue)]
    /\ UNCHANGED <<pc, shutdown, closing, inHand, aggregate, sinceLast, clock,
                   rest, room, intact, bounds>>

\* ... or gives a message up.  Of a record nobody is told: it was produced
\* without a delivery callback.
Lose ==
    /\ pc # "done"
    /\ queue # <<>>
    /\ losses < MaxLosses
    /\ losses' = losses + 1
    /\ queue' = Tail(queue)
    /\ reports' = reports + 1
    /\ intact' = (intact /\ Head(queue) = Letter)
    /\ UNCHANGED <<pc, shutdown, closing, inHand, aggregate, sinceLast, clock,
                   rest, room, latest, messages, errors, signals>>

----------------------------------------------------------------------------
(* AggregatePublisher.emit *)

\* Plausible slips: only the count makes a snapshot due; the interval must be
\* exceeded.
DueByCount == sinceLast >= EveryN
DueLate == sinceLast >= EveryN \/ (sinceLast > 0 /\ elapsed >= Interval + 1)

Due == sinceLast >= EveryN \/ (sinceLast > 0 /\ elapsed >= Interval)

\* The products seen so far.
Known == Picked(Products, {i \in DOMAIN Products : perProduct[Products[i]].count > 0})

ProductRecords == [i \in DOMAIN Known |-> Record(Known[i], perProduct[Known[i]])]

\* A plausible slip: the overall record comes last.
SnapshotsAllLast == Append(ProductRecords, Record(All, overall))

\* OrderAggregator.snapshots: the overall record, then one per product.
Snapshots == <<Record(All, overall)>> \o ProductRecords

EmitStart ==
    /\ pc = "emit"
    /\ closing \/ Due
    /\ overall.count > 0
    /\ sinceLast' = 0
    /\ elapsed' = 0
    /\ age' = -1
    /\ rest' = Snapshots
    /\ intact' = TRUE
    /\ pc' = "records"
    /\ UNCHANGED <<shutdown, closing, inHand, aggregate, gap, egress, latest,
                   bounds>>

\* After an emission the loop goes on, or _close does.
AfterEmission ==
    IF closing THEN pc' = "closeFlush" /\ UNCHANGED closing ELSE NextRound

EmitNot ==
    /\ pc = "emit"
    /\ ~(closing \/ Due) \/ overall.count = 0
    /\ AfterEmission
    /\ UNCHANGED <<shutdown, inHand, aggregate, sinceLast, clock, rest, egress,
                   latest, intact, bounds>>

EmitRecord ==
    /\ pc = "records"
    /\ rest # <<>> /\ Room
    /\ queue' = Append(queue, Head(rest))
    /\ rest' = Tail(rest)
    /\ UNCHANGED <<pc, shutdown, closing, inHand, aggregate, sinceLast, clock,
                   reports, room, latest, intact, bounds>>

\* BufferError: the rest of the snapshot is dropped.  poll(0) serves what
\* reports there are, here and behind a whole snapshot.
EmitDrops ==
    /\ pc = "records"
    /\ rest # <<>> /\ ~Room
    /\ rest' = <<>>
    /\ reports' = 0
    /\ intact' = FALSE
    /\ AfterEmission
    /\ UNCHANGED <<shutdown, inHand, aggregate, sinceLast, clock, queue, room, latest,
                   bounds>>

\* The serialiser (its registry is out of reach) or produce raises anything else:
\* the loop ends as after any exception, _close is left without its flush.
EmitRaises ==
    /\ pc = "records"
    /\ rest # <<>>
    /\ CutShort
    /\ UNCHANGED <<shutdown, aggregate, sinceLast, clock, egress, latest, bounds>>

EmitEnds ==
    /\ pc = "records"
    /\ rest = <<>>
    /\ reports' = 0
    /\ AfterEmission
    /\ UNCHANGED <<shutdown, inHand, aggregate, sinceLast, clock, rest, queue,
                   room, latest, intact, bounds>>

\* The last flush of _close; what it leaves in the queue is gone.
CloseFlush ==
    /\ pc = "closeFlush"
    /\ \/ queue = <<>> /\ UNCHANGED <<losses, intact>>
       \/ /\ queue # <<>>
          /\ losses < MaxLosses /\ losses' = losses + 1
          /\ intact' = FALSE
    /\ reports' = 0
    /\ pc' = "done"
    /\ UNCHANGED <<shutdown, closing, inHand, aggregate, sinceLast, clock, rest,
                   queue, room, latest, messages, errors, signals>>

----------------------------------------------------------------------------
(* Signals *)

Signalled ==
    /\ pc \in Running
    /\ signals < MaxSignals
    /\ signals' = signals + 1
    /\ UNCHANGED <<aggregate, sinceLast, clock, egress, latest, messages, errors,
                   losses>>

FirstSignal ==
    /\ Signalled
    /\ ~shutdown
    /\ shutdown' = TRUE
    /\ UNCHANGED <<pc, closing, inHand, rest, intact>>

\* KeyboardInterrupt: the loop still closes, _close does not get on with it.
SecondSignal ==
    /\ Signalled
    /\ shutdown
    /\ CutShort
    /\ UNCHANGED shutdown

----------------------------------------------------------------------------

\* What the thread does, as far as it is sure to get on with it.
ThreadStep ==
    \/ PollTimeout
    \/ AttemptOk \/ AttemptRetried \/ AttemptsExhausted
    \/ ProduceLetter \/ ProduceRaises \/ FlushEnds \/ FlushTimesOut
    \/ EmitStart \/ EmitNot \/ EmitRecord \/ EmitDrops \/ EmitEnds
    \/ CloseFlush

Next ==
    \/ \E product \in ProductSet, price \in Prices : PollOrder(product, price)
    \/ PollBad \/ PollError
    \/ ThreadStep \/ EmitRaises
    \/ Deliver \/ Lose
    \/ FirstSignal \/ SecondSignal

Spec == Init /\ [][Next]_vars
=============================================================================
