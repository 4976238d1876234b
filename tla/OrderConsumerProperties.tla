---------------------- MODULE OrderConsumerProperties ----------------------
(***************************************************************************)
(* What the consumer group has to guarantee: the type invariant, the       *)
(* safety and action properties, the fairness of the code's scheduling and *)
(* the liveness properties, and the abstract specification it implements.  *)
(***************************************************************************)
EXTENDS OrderConsumer

AppType == [consumed: Nat, processed: Nat, retried: Nat, deadLettered: Nat,
            letters: Nat, agg: Seq(Message), sinceLast: Nat, emitted: Nat]

BrokerTypeOK ==
    /\ log \in [Partitions -> Seq(Kinds)]
    /\ committed \in [Partitions -> Nat]
    /\ owner \in [Partitions -> Consumers \union {None}]
    /\ dlqTopic \in SUBSET Letter

ThreadTypeOK ==
    /\ pc \in [Consumers -> Looping \union Closing \union {"down"}]
    /\ cur \in [Consumers -> Message \union {None}]
    /\ attempt \in [Consumers -> 0 .. MaxAttempts]
    /\ letter \in [Consumers -> Letter \union {None}]
    /\ \A c \in Consumers :
        /\ cur[c] # None <=> pc[c] \in Busy
        /\ pc[c] = "deliver" => attempt[c] > 0
        /\ pc[c] \in {"produce", "flush"} =>
            letter[c] # None /\ letter[c].origin = cur[c]

MemoryTypeOK ==
    /\ app \in [Consumers -> AppType]
    /\ schemaKnown \in [Consumers -> BOOLEAN]
    /\ shutdown \in [Consumers -> BOOLEAN]

ClientTypeOK ==
    /\ held \in [Consumers -> SUBSET Partitions]
    /\ position \in [Consumers -> [Partitions -> Nat]]
    /\ stored \in [Consumers -> [Partitions -> Nat]]
    /\ flight \in [Consumers -> SUBSET Letter]

HistoryTypeOK ==
    /\ delivered \in SUBSET Message
    /\ unconfirmed \in SUBSET Message
    /\ clean \in BOOLEAN
    /\ faults \in Nat /\ rebalances \in Nat /\ sent \in Nat

\* Every variable has its type: a process has a message in hand exactly between
\* poll and the next round, an attempt never exceeds the retry budget
\* (processing.py:111-125) and the letter it publishes is that of this message.
TypeOK ==
    BrokerTypeOK /\ ThreadTypeOK /\ MemoryTypeOK /\ ClientTypeOK /\ HistoryTypeOK

----------------------------------------------------------------------------
(* Safety *)

\* An order is settled when the sink has it or its letter is in the topic; its
\* outcome is decided for the program also when publish came back without the
\* letter on the broker.
Settled == delivered \union DeadLettered
Decided == Settled \union unconfirmed

DecidedBelow(p, n) == \A o \in 0 .. n - 1 : At(p, o) \in Decided

\* Committing past a message means its outcome is decided: delivered, in the
\* dead letter topic, or handed to the egress producer by a publish that came
\* back without it (consumer.py:262-264, dlq.py:109-112).
AckedIsAccountedFor ==
    \A p \in Partitions : DecidedBelow(p, committed[p])

\* README.md:192-193: a message is only acknowledged once it is somewhere,
\* processed or dead-lettered.  The offset of a message that reached neither is
\* never committed, whatever crashes, moves or is interrupted.
NoOrderLost ==
    \A p \in Partitions : \A o \in 0 .. committed[p] - 1 : At(p, o) \in Settled

\* docs/ARCHITECTURE.md:114-115: no offset is committed for a message still in
\* flight, that is, in the hands of the partition's owner.
InFlightNotCommitted ==
    \A c \in Consumers :
        cur[c] # None /\ owner[cur[c].part] = c
            => committed[cur[c].part] <= cur[c].off

\* A message is handled twice only because of a fault (crash, eviction, fatal
\* error, second signal): as long as there was none, orderly rebalances and
\* restarts hand over at a point where every message in hand is new and in one
\* process only.
NoReplayWithoutFault ==
    clean => \A c \in Consumers :
        cur[c] # None /\ pc[c] \in {"handle", "deliver", "produce"}
            => /\ cur[c] \notin Settled
               /\ \A d \in Consumers \ {c} : cur[d] # cur[c]

\* Without a fault a process counts the orders of a partition in the order of
\* the partition, each once, across revocations and reassignments.
CountedInOrder ==
    clean => \A c \in Consumers : \A i, j \in 1 .. Len(app[c].agg) :
        i < j /\ app[c].agg[i].part = app[c].agg[j].part
            => app[c].agg[i].off < app[c].agg[j].off

\* A reason the payload of the message or its sink can give.  A message that was
\* never tried has one attempt, an exhausted budget all it allows; what the sink
\* refused for good may have been tried any number of times (LettersCountAttempts).
TellsWhy(l) ==
    \/ /\ l.reason = "DESERIALIZATION_FAILURE" /\ l.attempts = 1
       /\ Kind(l.origin) = "corrupt" \/ RegistryFaults
    \/ /\ l.reason = "VALIDATION_FAILURE"
       /\ \/ Kind(l.origin) = "invalid" /\ l.attempts = 1
          \/ /\ Kind(l.origin) = "valid"
             /\ "PermanentProcessingError" \in SinkRaises
    \/ /\ l.reason = "RETRY_EXHAUSTED" /\ l.attempts = MaxAttempts
       /\ Kind(l.origin) = "valid"
       /\ "TransientProcessingError" \in SinkRaises
    \/ /\ l.reason = "UNEXPECTED_ERROR"
       /\ Kind(l.origin) = "valid"
       /\ "ProcessingError" \in SinkRaises

\* A message that can be decoded becomes an undecodable one only in a process
\* that had not decoded any before: the registry is asked once.
UndecodableExplained(c) ==
    pc[c] \in {"produce", "flush"} =>
        \/ letter[c].reason # "DESERIALIZATION_FAILURE"
        \/ Kind(cur[c]) = "corrupt"
        \/ RegistryFaults /\ ~schemaKnown[c]

\* The letters of a message say why it failed, in the topic and on their way to
\* it (dlq.py:76-84, consumer.py:282-290), and a registry that is out of reach
\* costs no order of a process that has the schema (consumer.py:272-278, 311-315).
LettersTellWhy ==
    /\ \A l \in dlqTopic \union UNION {flight[c] : c \in Consumers} : TellsWhy(l)
    /\ \A c \in Consumers : UndecodableExplained(c)

\* README.md:116: the letter carries the attempt count, that is, the attempts
\* that were made when the sink's error was caught.
LettersCountAttempts ==
    \A c \in Consumers :
        pc[c] \in {"produce", "flush"} /\ attempt[c] > 0
            => letter[c].attempts = attempt[c]

\* Without a fault a message has one outcome: what the sink accepted, and so
\* what an aggregate counts, is not dead-lettered as well (processing.py:111-139).
OneOutcomeWithoutFault ==
    /\ clean => delivered \intersect DeadLettered = {}
    /\ \A c \in Consumers : \A i \in 1 .. Len(app[c].agg) :
            app[c].agg[i] \in delivered

\* aggregation.py:56-57, docs/ARCHITECTURE.md:139-140: the aggregate never counts
\* a message that ended up in the dead letter queue.
DeadLetteredNeverCounted ==
    \A c \in Consumers : \A i \in 1 .. Len(app[c].agg) :
        app[c].agg[i] \notin DeadLettered

\* Between two messages the counters the process reports at exit balance: what
\* it consumed it processed or dead-lettered, every dead-lettered message was
\* published and every processed one aggregated (consumer.py:261-295, dlq.py:112).
TallyBalances ==
    \A c \in Consumers : pc[c] \in {"poll", "emit"} =>
        LET a == app[c] IN
            /\ a.consumed = a.processed + a.deadLettered
            /\ a.deadLettered = a.letters
            /\ a.processed = Len(a.agg)
            /\ a.retried <= a.processed

\* While nothing goes wrong on the egress side, the published aggregate lags
\* less than EveryN orders behind what the process has counted whenever it
\* polls (consumer.py:162-174), and not at all once it is leaving.
SnapshotLag ==
    PublishAggregates /\ ~EgressFaults => \A c \in Consumers :
        /\ pc[c] = "poll" => Len(app[c].agg) - app[c].emitted < EveryN
        /\ pc[c] \in {"closeFlush", "closeLeave"}
            => app[c].emitted = Len(app[c].agg)

----------------------------------------------------------------------------
(* The inductive invariant: why AckedIsAccountedFor, InFlightNotCommitted and
   CommittedNeverRewinds hold.  Every offset that may become a committed one
   has only decided messages below it, and the offsets of a partition are
   in order: committed, stored, the message in hand, the next to fetch. *)

InHand(c, p) == cur[c] # None /\ cur[c].part = p

\* The offsets of p that c is done with once it has looked at none beyond it.
Frontier(c, p) == IF InHand(c, p) THEN cur[c].off ELSE position[c][p]

\* What is stored is below what is handled; the next message is right behind the
\* one in hand.
OffsetsInOrder ==
    \A c \in Consumers : \A p \in held[c] :
        /\ stored[c][p] <= Frontier(c, p)
        /\ InHand(c, p) => position[c][p] = cur[c].off + 1

\* The owner of a partition knows that it owns it and stores from where the
\* group has committed.
OwnerStoresAhead ==
    \A p \in Partitions : owner[p] # None =>
        p \in held[owner[p]] /\ committed[p] <= stored[owner[p]][p]

DecidedInv ==
    /\ \A p \in Partitions : DecidedBelow(p, committed[p])
    /\ \A c \in Consumers : \A p \in held[c] :
        /\ DecidedBelow(p, stored[c][p])
        /\ pc[c] \notin Closing => DecidedBelow(p, Frontier(c, p))
    /\ \A c \in Consumers : pc[c] = "store" => cur[c] \in Decided

\* Without egress faults a letter is queued or delivered while it is awaited, and
\* publish never returns without it.
NothingUnconfirmed ==
    ~EgressFaults =>
        /\ unconfirmed = {}
        /\ \A c \in Consumers :
            pc[c] = "flush" => letter[c] \in flight[c] \union dlqTopic

IInv == OffsetsInOrder /\ OwnerStoresAhead /\ DecidedInv /\ NothingUnconfirmed

----------------------------------------------------------------------------
(* The invariants behind the properties of orderly histories and of what a
   process reports.  Each is inductive together with TypeOK; OrderlyInv needs
   OffsetsInOrder as well. *)

\* Where the group stands in p: what its owner is done with, or what the last
\* owner has left behind.
Edge(p) == IF owner[p] = None THEN committed[p] ELSE Frontier(owner[p], p)

\* The messages whose letter is on its way to the dead letter topic.
Queued == {l.origin : l \in UNION {flight[c] : c \in Consumers}}

\* The outcome of m is known to the thread that has it in hand.
BeingStored(m) == \E c \in Consumers : pc[c] \in {"flush", "store"} /\ cur[c] = m

\* A process holds what it owns and nothing else, has only messages of its own
\* in hand and has stored all that it is done with.
HoldsWhatItOwns ==
    \A c \in Consumers : \A p \in Partitions :
        /\ p \in held[c] <=> owner[p] = c
        /\ InHand(c, p) => owner[p] = c
        /\ owner[p] = c => stored[c][p] = Frontier(c, p)

\* From the edge of a partition on nothing has an outcome, but for a message that
\* is about to be stored.
NothingBeyondEdge ==
    \A m \in Settled \union Queued : m.off < Edge(m.part) \/ BeingStored(m)

OneOutcome == delivered \intersect (DeadLettered \union Queued) = {}

\* How things are as long as nothing has gone wrong: a revocation and close() commit
\* all that is stored, and _store_offset stores all that is done with, so that the
\* next owner begins where the last one stopped (consumer.py:326-343, 369-371).
OrderlyInv == clean => HoldsWhatItOwns /\ NothingBeyondEdge /\ OneOutcome

\* What an aggregate counts was delivered.
CountedDelivered ==
    \A c \in Consumers : \A i \in 1 .. Len(app[c].agg) :
        app[c].agg[i] \in delivered

\* The counters of a process, by the place its thread is at.
TallyAt(place, a) ==
    /\ a.processed = Len(a.agg) /\ a.retried <= a.processed
    /\ place = "down" => a = FreshApp
    /\ place \in {"handle", "deliver"} =>
        a.consumed = a.processed + a.deadLettered + 1 /\ a.deadLettered = a.letters
    /\ place \in {"produce", "flush"} =>
        a.consumed = a.processed + a.deadLettered /\ a.deadLettered = a.letters + 1
    /\ place \in {"store", "emit", "poll"} =>
        a.consumed = a.processed + a.deadLettered /\ a.deadLettered = a.letters

\* What the published aggregate covers, likewise: in the loop the orders noted
\* since the last emission are the ones it does not cover.
LagAt(place, a) ==
    /\ a.emitted <= Len(a.agg)
    /\ place \in Looping \union {"down"} => a.emitted + a.sinceLast = Len(a.agg)
    /\ place \in {"down", "poll", "handle", "deliver", "produce", "flush"}
        => a.sinceLast < EveryN
    /\ place \in {"closeFlush", "closeLeave"} => a.emitted = Len(a.agg)

BooksInv ==
    \A c \in Consumers :
        /\ TallyAt(pc[c], app[c])
        /\ PublishAggregates /\ ~EgressFaults => LagAt(pc[c], app[c])

\* A message in hand or in a letter is in its partition, so that its kind is
\* settled; one that is tried is an order, and a letter tells why from the moment
\* it is made.
InLog(m) == m.off < Len(log[m.part])

LettersInv ==
    /\ \A c \in Consumers :
        /\ cur[c] # None => InLog(cur[c])
        /\ pc[c] = "deliver" => Kind(cur[c]) = "valid"
        /\ pc[c] \in {"produce", "flush"} => TellsWhy(letter[c])
        /\ \A l \in flight[c] : TellsWhy(l) /\ InLog(l.origin)
    /\ \A l \in dlqTopic : TellsWhy(l) /\ InLog(l.origin)

----------------------------------------------------------------------------
(* Action properties and the abstract specification *)

\* A committed offset never goes back, in whatever order evicted, restarted and
\* reassigned members commit.
CommittedNeverRewinds ==
    [][\A p \in Partitions : committed'[p] >= committed[p]]_vars

\* At-least-once delivery, with the letters publish gave up on counted as
\* settled; where the egress producer does not fail there are none.
ALO == INSTANCE AtLeastOnce
           WITH settled <- Decided,
                acked <- committed

ImplementsAtLeastOnce == ALO!Spec

----------------------------------------------------------------------------
(* Liveness *)

\* The code's scheduling: a thread runs on; a poll repeated for ever returns
\* what there is to return; the coordinator assigns what is free to a member
\* that goes on polling; librdkafka commits and delivers in the background; a
\* process that ended without having been asked to is restarted (restart:
\* unless-stopped, docker-compose.yml:129).
Fairness ==
    /\ \A c \in Consumers :
        /\ WF_vars(ThreadStep(c))
        /\ WF_vars(PollNothing(c))
        /\ WF_vars(AutoCommit(c))
        /\ WF_vars(EgressDeliver(c))
        /\ SF_vars(LosePartitions(c))
        /\ WF_vars(Start(c) /\ ~shutdown[c])
        /\ \A p \in Partitions : SF_vars(PollMessage(c, p))
    /\ \A p \in Partitions : SF_vars(\E c \in Consumers : Assign(c, p))

FairSpec == Spec /\ Fairness

\* Every message of the topic is acknowledged in the end, unless the operator
\* stops every consumer: no poisonous payload, failing sink, crash or eviction
\* blocks a partition for good.
EveryOrderAcknowledged ==
    \A p \in Partitions : \A o \in 0 .. MaxLog - 1 :
        o < Len(log[p]) ~> \/ committed[p] > o
                           \/ \A c \in Consumers : shutdown[c]

\* A process asked to stop ends, whatever it is doing.
ShutdownCompletes ==
    \A c \in Consumers : shutdown[c] ~> pc[c] = "down"
=============================================================================
