-------------------- MODULE AggregatePublisherProperties --------------------
(***************************************************************************)
(* What the running averages and their publication owe the reader of the   *)
(* aggregates topic, and the consumer its group coordinator.               *)
(***************************************************************************)
EXTENDS AggregatePublisher

Stats == [count : Nat, mean : Int, minimum : Int, maximum : Int, exact : Int]

TopicRecord == [scope : Scopes, count : Nat, mean : Int, minimum : Int, maximum : Int]

LoopTypeOK ==
    /\ pc \in Running \union {"done"}
    /\ shutdown \in BOOLEAN
    /\ closing \in BOOLEAN
    /\ intact \in BOOLEAN
    /\ order = NoOrder \/ order \in [product : ProductSet, price : Prices]
    /\ pc = "attempt" => order # NoOrder
    /\ attempt \in 0..MaxAttempts

FiguresTypeOK ==
    /\ overall \in Stats
    /\ perProduct \in [ProductSet -> Stats]
    /\ sinceLast \in Nat

ClockTypeOK ==
    /\ elapsed \in 0..Interval
    /\ age \in -1..MaxAge + 1
    /\ gap \in Nat

EgressTypeOK ==
    /\ rest \in Seq(TopicRecord)
    /\ queue \in Seq(TopicRecord \union {Letter})
    /\ reports \in Nat
    /\ room \in QueueLimits
    /\ Len(queue) + reports <= room
    /\ latest \in [Scopes -> TopicRecord]

\* Every variable has its type: the state of apps/consumer.py:130-195.
TypeOK ==
    /\ LoopTypeOK /\ FiguresTypeOK /\ ClockTypeOK /\ EgressTypeOK
    /\ messages \in 0..MaxMessages
    /\ errors \in 0..MaxErrors
    /\ losses \in 0..MaxLosses
    /\ signals \in 0..MaxSignals

----------------------------------------------------------------------------

\* The sum of f over the products, as a recursive function for the proofs.
Sum(f) ==
    LET upTo[n \in 0..Len(Products)] ==
            IF n = 0 THEN 0 ELSE upTo[n - 1] + f[Products[n]]
    IN  upTo[Len(Products)]

\* Twice the distance between count times mean and the exact sum.
Drift(s) == 2 * Greatest(s.count * s.mean - s.exact, s.exact - s.count * s.mean)

\* After n orders the running mean has left the true average by at most half a
\* unit per order (aggregation.py:28-32; docs/ARCHITECTURE.md:130-137: "Welford
\* keeps the error bounded"), and it lies between the lowest and the highest
\* price, for every scope.
Sound(s) == /\ Drift(s) <= s.count * (s.count - 1)
            /\ s.count > 0 => s.minimum <= s.mean /\ s.mean <= s.maximum

MeanNear == Sound(overall) /\ \A p \in ProductSet : Sound(perProduct[p])

\* The overall statistics are those of all products together
\* (aggregation.py:63-66): counts and sums add up, the extremes are those of
\* some product.
PartsMakeWhole ==
    /\ overall.count = Sum([p \in ProductSet |-> perProduct[p].count])
    /\ overall.exact = Sum([p \in ProductSet |-> perProduct[p].exact])
    /\ LET known == {perProduct[p] : p \in {q \in ProductSet : perProduct[q].count > 0}}
       IN  known # {} =>
            /\ overall.minimum \in {s.minimum : s \in known}
            /\ \A s \in known : overall.minimum <= s.minimum
            /\ overall.maximum \in {s.maximum : s \in known}
            /\ \A s \in known : overall.maximum >= s.maximum

\* As long as no delivery fails, the products never add up to more than the
\* overall count a reader sees: whatever a full queue drops, the overall record
\* of a snapshot goes first (apps/consumer.py:182-195, aggregation.py:76).
SnapshotsAgree ==
    losses = 0 => Sum([p \in ProductSet |-> latest[p].count]) <= latest[All].count

\* Once a snapshot has gone out whole and been delivered, and no order came
\* after it, the reader has the consumer's own figures for every scope, the
\* final snapshot of a shutdown included (apps/consumer.py:163-195, 367).
ReaderUpToDate ==
    (intact /\ sinceLast = 0 /\ rest = <<>> /\ queue = <<>>) =>
        /\ latest[All] = Record(All, overall)
        /\ \A p \in ProductSet : latest[p] = Record(p, perProduct[p])

\* Every round is back at poll within the back-offs of one budget and a flush,
\* which max.poll.interval.ms has to exceed, together with what the sink and the
\* registry take (apps/consumer.py:108; docs/ARCHITECTURE.md:79-81).
PollGapBounded == gap <= LongestRound

\* "Every ten orders, or every five seconds" (README.md:126): no order waits for
\* an emission longer than the interval and the round under way, plus the polls
\* that returned an error, which do not try an emission
\* (apps/consumer.py:159-162, 255-260).
NeverStale == age <= Interval + errors + LongestRound

----------------------------------------------------------------------------

\* The thread's calls return and the egress producer works its queue off.
Fairness == WF_vars(ThreadStep) /\ WF_vars(Deliver)

FairSpec == Spec /\ Fairness

\* Every order that was counted shows in the overall record of the topic in the
\* end, whether the consumer goes on or is shut down, unless that snapshot was
\* dropped, lost or interrupted (apps/consumer.py:172-195, 367).
EveryOrderPublished ==
    \A n \in 1..MaxMessages :
        (overall.count >= n) ~> (latest[All].count >= n \/ ~intact)
=============================================================================
