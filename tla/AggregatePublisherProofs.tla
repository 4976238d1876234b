---------------------- MODULE AggregatePublisherProofs ----------------------
(***************************************************************************)
(* Proofs about the running averages and their publication: the means,     *)
(* the time away from poll, and how long an order waits for an emission.   *)
(***************************************************************************)
EXTENDS AggregatePublisherProperties, SelectionsProofs, TLAPS

\* An order in hand is an order.
InHand == pc = "attempt" => order \in [product : ProductSet, price : Prices]

----------------------------------------------------------------------------
(* The means. *)

\* A rounded quotient moves the mean towards the value and not past it, and is
\* off by less than one (aggregation.py:30).
LEMMA QuotientBounds ==
    ASSUME NEW d \in Int, NEW n \in Nat \ {0}, NEW q \in Quotients(d, n)
    PROVE  /\ q \in Int
           /\ d >= 0 => 0 <= q /\ q <= d
           /\ d <= 0 => d <= q /\ q <= 0
           /\ n * q - d <= n - 1 /\ d - n * q <= n - 1
<1>1. /\ q \in Int /\ q >= -Greatest(d, -d) /\ q <= Greatest(d, -d)
      /\ d - n < n * q /\ n * q < d + n
  BY DEF Quotients, Greatest
<1>2. n * q \in Int
  BY <1>1
<1>3. q <= -1 => n * q <= -n
  BY <1>1
<1>4. q >= 1 => n * q >= n
  BY <1>1
<1> QED BY <1>1, <1>2, <1>3, <1>4 DEF Greatest

\* Multiplication distributes over addition.
LEMMA Distributes ==
    ASSUME NEW a \in Int, NEW b \in Int, NEW c \in Int
    PROVE  /\ a * (b + c) = a * b + a * c
           /\ (a + 1) * b = a * b + b
           /\ a * (a - 1) = a * a - a
OBVIOUS

\* Twice a distance, without Greatest.
LEMMA DriftCases ==
    ASSUME NEW s \in Stats, NEW b \in Int
    PROVE  Drift(s) <= b <=> /\ 2 * (s.count * s.mean - s.exact) <= b
                             /\ 2 * (s.exact - s.count * s.mean) <= b
<1>1. s.count * s.mean \in Int /\ s.exact \in Int
  BY DEF Stats
<1> QED BY <1>1 DEF Drift, Greatest

\* One more observation keeps the statistics of a scope sound
\* (aggregation.py:26-32).
LEMMA FoldedSound ==
    ASSUME NEW s \in Stats, Sound(s), NEW value \in Nat, NEW t \in Folded(s, value)
    PROVE  t \in Stats /\ Sound(t)
<1> DEFINE n == s.count + 1
           d == value - s.mean
<1>1. PICK q \in Quotients(d, n) :
        /\ t.count = n
        /\ t.mean = s.mean + q
        /\ t.minimum = IF s.count = 0 THEN value ELSE Least(s.minimum, value)
        /\ t.maximum = IF s.count = 0 THEN value ELSE Greatest(s.maximum, value)
        /\ t.exact = s.exact + value
        /\ t = [count |-> t.count, mean |-> t.mean, minimum |-> t.minimum,
                maximum |-> t.maximum, exact |-> t.exact]
  BY DEF Folded
<1>2. /\ s.count \in Nat /\ s.mean \in Int /\ s.minimum \in Int
      /\ s.maximum \in Int /\ s.exact \in Int
      /\ n \in Nat \ {0} /\ d \in Int
  BY DEF Stats
<1>3. /\ q \in Int
      /\ d >= 0 => 0 <= q /\ q <= d
      /\ d <= 0 => d <= q /\ q <= 0
      /\ n * q - d <= n - 1 /\ d - n * q <= n - 1
  BY <1>2, QuotientBounds
<1>4. t \in Stats
  <2>1. t.count \in Nat /\ t.mean \in Int /\ t.exact \in Int
    BY <1>1, <1>2, <1>3
  <2>2. t.minimum \in Int /\ t.maximum \in Int
    BY <1>1, <1>2 DEF Least, Greatest
  <2>3. [count |-> t.count, mean |-> t.mean, minimum |-> t.minimum,
         maximum |-> t.maximum, exact |-> t.exact] \in Stats
    BY <2>1, <2>2 DEF Stats
  <2> QED BY <1>1, <2>3
<1>5. /\ 2 * (s.count * s.mean - s.exact) <= s.count * (s.count - 1)
      /\ 2 * (s.exact - s.count * s.mean) <= s.count * (s.count - 1)
  <2>1. s.count * (s.count - 1) \in Int
    BY <1>2
  <2>2. Drift(s) <= s.count * (s.count - 1)
    BY DEF Sound
  <2> QED BY <2>1, <2>2, DriftCases
<1>6. t.count * t.mean - t.exact = (s.count * s.mean - s.exact) + (n * q - d)
  <2>1. n * (s.mean + q) = n * s.mean + n * q
    BY <1>2, <1>3, Distributes
  <2>2. n * s.mean = s.count * s.mean + s.mean
    BY <1>2, Distributes
  <2>3. n * q \in Int /\ s.count * s.mean \in Int
    BY <1>2, <1>3
  <2> QED BY <1>1, <1>2, <1>3, <2>1, <2>2, <2>3
<1>7. t.count * (t.count - 1) = s.count * (s.count - 1) + 2 * (n - 1)
  <2>1. n * s.count = s.count * s.count + s.count
    BY <1>2, Distributes
  <2>2. s.count * (s.count - 1) = s.count * s.count - s.count
    BY <1>2, Distributes
  <2>3. s.count * s.count \in Int
    BY <1>2
  <2>4. t.count = n /\ t.count - 1 = s.count
    BY <1>1, <1>2
  <2> QED BY <1>2, <2>1, <2>2, <2>3, <2>4
<1>8. Drift(t) <= t.count * (t.count - 1)
  <2> DEFINE e == s.count * s.mean - s.exact
             f == n * q - d
             b == s.count * (s.count - 1)
  <2>1. e \in Int /\ f \in Int /\ b \in Int
    BY <1>2, <1>3
  <2>2. 2 * e <= b /\ 2 * (-e) <= b /\ f <= n - 1 /\ -f <= n - 1
    BY <1>2, <1>3, <1>5
  <2>3. 2 * (e + f) <= b + 2 * (n - 1) /\ 2 * (-(e + f)) <= b + 2 * (n - 1)
    BY <1>2, <2>1, <2>2
  <2>4. t.count * t.mean \in Int /\ t.exact \in Int /\ t.count * (t.count - 1) \in Int
    BY <1>4 DEF Stats
  <2>5. /\ 2 * (t.count * t.mean - t.exact) <= t.count * (t.count - 1)
        /\ 2 * (t.exact - t.count * t.mean) <= t.count * (t.count - 1)
    BY <1>6, <1>7, <2>1, <2>3, <2>4
  <2> QED BY <1>4, <2>4, <2>5, DriftCases
<1>9. t.minimum <= t.mean /\ t.mean <= t.maximum
  <2>1. CASE s.count = 0
    <3>1. q = d
      BY <1>2, <1>3, <2>1
    <3> QED BY <1>1, <1>2, <2>1, <3>1
  <2>2. CASE s.count # 0
    <3>1. s.minimum <= s.mean /\ s.mean <= s.maximum
      BY <1>2, <2>2 DEF Sound
    <3> QED BY <1>1, <1>2, <1>3, <2>2, <3>1 DEF Least, Greatest
  <2> QED BY <2>1, <2>2
<1> QED BY <1>4, <1>8, <1>9 DEF Sound

\* The statistics are well formed and sound.
MInv == /\ InHand
        /\ overall \in Stats /\ perProduct \in [ProductSet -> Stats]
        /\ MeanNear

\* The initial state.
LEMMA MInit == Init => MInv
<1> SUFFICES ASSUME Init PROVE MInv
  OBVIOUS
<1>1. Fresh \in Stats
  BY DEF Fresh, Stats
<1>2. Sound(Fresh)
  BY DEF Sound, Drift, Greatest, Fresh
<1> QED BY <1>1, <1>2 DEF Init, MInv, InHand, MeanNear

\* A step that leaves the statistics alone.
LEMMA MQuiet ==
    ASSUME MInv, UNCHANGED aggregate, InHand'
    PROVE  MInv'
BY DEF MInv, aggregate, MeanNear, Sound, Drift

\* An order is delivered (aggregation.py:63-66).
LEMMA MOk ==
    ASSUME MInv, AttemptOk
    PROVE  MInv'
<1> USE DEF AttemptOk, MInv
<1>1. order.product \in ProductSet /\ order.price \in Nat
  BY PricesAssumption DEF InHand
<1>2. perProduct[order.product] \in Stats /\ Sound(perProduct[order.product])
  BY <1>1 DEF MeanNear
<1>3. PICK o \in Folded(overall, order.price),
           p \in Folded(perProduct[order.product], order.price) :
        /\ overall' = o
        /\ perProduct' = [perProduct EXCEPT ![order.product] = p]
  <2>1. PICK both \in Added(overall, perProduct[order.product], order.price) :
            overall' = both[1] /\ perProduct' = [perProduct EXCEPT ![order.product] = both[2]]
    OBVIOUS
  <2>2. PICK o \in Folded(overall, order.price),
             p \in Folded(perProduct[order.product], order.price) : both = <<o, p>>
    BY <2>1 DEF Added
  <2> QED BY <2>1, <2>2
<1>4. o \in Stats /\ Sound(o)
  BY <1>1, FoldedSound DEF MeanNear
<1>5. p \in Stats /\ Sound(p)
  BY <1>1, <1>2, FoldedSound
<1>6. perProduct' \in [ProductSet -> Stats]
  BY <1>3, <1>5
<1>7. \A x \in ProductSet : Sound(perProduct'[x])
  <2> TAKE x \in ProductSet
  <2>1. perProduct'[x] = IF x = order.product THEN p ELSE perProduct[x]
    BY <1>3
  <2> QED BY <1>5, <2>1 DEF MeanNear
<1>8. Sound(overall) '
  BY <1>3, <1>4 DEF Sound, Drift
<1>9. (\A x \in ProductSet : Sound(perProduct[x])) '
  BY <1>7 DEF Sound, Drift
<1>10. InHand'
  BY DEF InHand
<1> QED BY <1>3, <1>4, <1>6, <1>8, <1>9, <1>10 DEF MeanNear

\* Only a poll puts an order in hand (apps/consumer.py:262-279).
LEMMA HandKept ==
    ASSUME InHand, [Next]_vars, ~AttemptOk
    PROVE  InHand' /\ UNCHANGED aggregate
<1>1. CASE \E product \in ProductSet, price \in Prices : PollOrder(product, price)
  BY <1>1 DEF PollOrder, Read, InHand, aggregate
<1>2. CASE PollBad \/ PollTimeout \/ PollError
  BY <1>2 DEF PollBad, Read, PollTimeout, PollError, Polled, NextRound, InHand,
              inHand, aggregate
<1>3. CASE AttemptRetried \/ AttemptsExhausted
  BY <1>3 DEF AttemptRetried, AttemptsExhausted, InHand, inHand, aggregate
<1>4. CASE ProduceLetter \/ ProduceRaises \/ FlushEnds \/ FlushTimesOut
  BY <1>4 DEF ProduceLetter, ProduceRaises, Escape, FlushEnds, FlushTimesOut, InHand,
              inHand, aggregate
<1>5. CASE Deliver \/ Lose
  BY <1>5 DEF Deliver, Lose, InHand, inHand, aggregate
<1>6. CASE EmitStart \/ EmitNot \/ EmitRecord \/ EmitDrops \/ EmitEnds \/ CloseFlush
  BY <1>6 DEF EmitStart, EmitNot, EmitRecord, EmitDrops, EmitEnds, AfterEmission,
              NextRound, CloseFlush, InHand, inHand, aggregate
<1>7. CASE FirstSignal \/ SecondSignal \/ EmitRaises
  BY <1>7 DEF FirstSignal, SecondSignal, EmitRaises, Signalled, CutShort, PutDown,
              InHand, inHand, aggregate
<1>8. CASE UNCHANGED vars
  BY <1>8 DEF vars, InHand, inHand, aggregate
<1> QED BY <1>1, <1>2, <1>3, <1>4, <1>5, <1>6, <1>7, <1>8 DEF Next, ThreadStep

\* However a float is rounded, the running mean of n orders stays within half a
\* unit per order of the true one, and between the lowest and the highest price
\* (aggregation.py:26-32, 63-66).
THEOREM MeansStayNear == Spec => []MeanNear
<1>1. MInv /\ [Next]_vars => MInv'
  <2> SUFFICES ASSUME MInv, [Next]_vars PROVE MInv'
    OBVIOUS
  <2>1. CASE AttemptOk
    BY <2>1, MOk
  <2>2. CASE ~AttemptOk
    BY <2>2, HandKept, MQuiet DEF MInv
  <2> QED BY <2>1, <2>2
<1>2. MInv => MeanNear
  BY DEF MInv
<1> QED BY MInit, <1>1, <1>2, PTL DEF Spec

----------------------------------------------------------------------------
(* Time. *)

\* The longest delay between two attempts.
LongestDelay == MaxBackoff + Spread(MaxBackoff)

\* A delay is never negative, and the jitter stays within its share of the cap
\* (retry.py:47-63).
LEMMA DelayBounds ==
    ASSUME NEW n \in Nat \ {0}, NEW t \in Delays(n)
    PROVE  t \in Nat /\ t <= LongestDelay /\ LongestDelay \in Nat
<1> DEFINE base == Base(n)
<1>1. InitialBackoff * Multiplier ^ (n - 1) \in Int
  <2>1. Multiplier ^ (n - 1) \in Int
    BY PolicyAssumption
  <2> QED BY <2>1, PolicyAssumption
<1>2. base \in Int /\ base <= MaxBackoff
  BY <1>1, PolicyAssumption DEF Base
<1>3. base * JitterPercent \in Int /\ MaxBackoff * JitterPercent \in Nat
  BY <1>2, PolicyAssumption
<1>4. base * JitterPercent <= MaxBackoff * JitterPercent
  BY <1>2, PolicyAssumption
<1>5. /\ Spread(base) \in Int /\ Spread(MaxBackoff) \in Nat
      /\ Spread(base) <= Spread(MaxBackoff)
  BY <1>3, <1>4 DEF Spread
<1>6. LongestDelay \in Nat
  BY <1>5, PolicyAssumption DEF LongestDelay
<1>7. PICK d \in base - Spread(base) .. base + Spread(base) : t = IF d < 0 THEN 0 ELSE d
  BY DEF Delays
<1>8. d \in Int /\ d <= LongestDelay
  BY <1>2, <1>5, <1>7, PolicyAssumption DEF LongestDelay
<1> QED BY <1>6, <1>7, <1>8

\* One more delay is within the delays of one more attempt.
LEMMA DelaysAddUp ==
    ASSUME NEW n \in 1..MaxAttempts
    PROVE  /\ LongestDelay \in Nat
           /\ (n - 1) * LongestDelay \in Nat
           /\ (n - 1) * LongestDelay + LongestDelay = n * LongestDelay
           /\ (n - 1) * LongestDelay <= (MaxAttempts - 1) * LongestDelay
           /\ (MaxAttempts - 1) * LongestDelay \in Nat
           /\ LongestRound = (MaxAttempts - 1) * LongestDelay + FlushTicks
           /\ LongestRound \in Nat
<1>1. Spread(MaxBackoff) \in Nat
  <2>1. MaxBackoff * JitterPercent \in Nat
    BY PolicyAssumption
  <2> QED BY <2>1 DEF Spread
<1>2. LongestDelay \in Nat
  BY <1>1, PolicyAssumption DEF LongestDelay
<1>3. n \in Nat \ {0} /\ MaxAttempts \in Nat /\ n <= MaxAttempts
  BY MaxAttemptsAssumption
<1>4. (n - 1) * LongestDelay \in Nat /\ (MaxAttempts - 1) * LongestDelay \in Nat
  BY <1>2, <1>3
<1>5. (n - 1) * LongestDelay + LongestDelay = n * LongestDelay
  BY <1>2, <1>3
<1>6. (n - 1) * LongestDelay <= (MaxAttempts - 1) * LongestDelay
  BY <1>2, <1>3
<1>7. LongestRound = (MaxAttempts - 1) * LongestDelay + FlushTicks
  BY DEF LongestRound, LongestDelay
<1> QED BY <1>2, <1>4, <1>5, <1>6, <1>7, PublisherAssumption

\* The absence from poll, by where the thread is in its round.
Away ==
    /\ gap \in Nat
    /\ pc = "attempt" =>
        attempt \in 1..MaxAttempts /\ gap <= (attempt - 1) * LongestDelay
    /\ pc \in {"produce", "flush"} => gap <= (MaxAttempts - 1) * LongestDelay
    /\ PollGapBounded

\* An order that waits is older than the clock of the emissions only if that has
\* run down, and then the next emission is due: the thread polls again with a
\* younger one only.
Ages ==
    /\ elapsed \in 0..Interval
    /\ age \in Int
    /\ sinceLast \in Nat
    /\ errors \in Nat
    /\ overall.count \in Nat
    /\ sinceLast = 0 => age < 0
    /\ sinceLast > 0 => overall.count > 0
    /\ age <= elapsed \/ elapsed = Interval
    /\ pc = "poll" => age < Interval + errors
    /\ pc = "records" => age < 0
    /\ age <= Interval + errors + gap

TInv == Away /\ Ages

\* How the two clocks move (apps/consumer.py:172-175).
LEMMA Clocks ==
    ASSUME Ages, NEW t \in Nat, Pass(t)
    PROVE  /\ elapsed' \in 0..Interval /\ age' \in Int
           /\ age' <= age + t
           /\ age < 0 => age' < 0
           /\ age' <= elapsed' \/ elapsed' = Interval
<1>1. LongestRound \in Nat
  BY DelaysAddUp, MaxAttemptsAssumption
<1>2. MaxAge \in Nat
  BY <1>1, PublisherAssumption, PublisherBounds DEF MaxAge
<1>3. /\ elapsed \in 0..Interval /\ age \in Int /\ Interval \in Nat
      /\ age <= elapsed \/ elapsed = Interval
  BY PublisherAssumption DEF Ages
<1>4. elapsed' = IF elapsed + t < Interval THEN elapsed + t ELSE Interval
  BY DEF Pass, Least
<1>5. age' = IF age < 0 THEN age
             ELSE IF age + t < MaxAge + 1 THEN age + t ELSE MaxAge + 1
  BY DEF Pass, Least
<1> QED BY <1>2, <1>3, <1>4, <1>5

\* The initial state.
LEMMA TInit == Init => TInv
<1> SUFFICES ASSUME Init PROVE TInv
  OBVIOUS
<1>1. LongestRound \in Nat /\ 1 \in 1..MaxAttempts
  BY DelaysAddUp, MaxAttemptsAssumption
<1> QED BY <1>1, PublisherAssumption DEF Init, TInv, Away, Ages, PollGapBounded, Fresh

\* What one tick adds is less than one unit beyond a strict bound.
LEMMA OneTick ==
    ASSUME NEW a \in Int, NEW b \in Int, NEW i \in Nat, NEW e \in Nat, NEW f \in Nat,
           NEW g, a < i + e, b <= a + 1, f >= e, g = 0
    PROVE  b <= i + f + g /\ (f = e + 1 => b < i + f)
OBVIOUS

\* A poll ends an absence (apps/consumer.py:139).
LEMMA TPoll ==
    ASSUME TInv,
           \/ \E product \in ProductSet, price \in Prices : PollOrder(product, price)
           \/ PollBad \/ PollTimeout \/ PollError
    PROVE  TInv'
<1> USE DEF TInv, Polled
<1>1. LongestRound \in Nat /\ 1 \in 1..MaxAttempts /\ 0 * LongestDelay = 0
      /\ (MaxAttempts - 1) * LongestDelay \in Nat
  BY DelaysAddUp, MaxAttemptsAssumption
<1>2. PICK t \in 0..1 : Polled(t)
  BY DEF PollOrder, Read, PollBad, PollTimeout, PollError
<1>3. /\ pc = "poll" /\ gap' = 0 /\ sinceLast' = sinceLast /\ overall' = overall
      /\ pc' = "attempt" => attempt' = 1
      /\ pc' # "records"
      /\ errors' \in Nat /\ errors' >= errors
      /\ pc' = "poll" => errors' = errors + 1
  BY <1>2 DEF PollOrder, Read, PollBad, PollTimeout, PollError, Ages, aggregate, bounds,
              NextRound
<1>4. /\ elapsed' = Least(elapsed + t, Interval)
      /\ age' = IF age < 0 THEN age ELSE Least(age + t, MaxAge + 1)
  BY <1>2 DEF Pass
<1>5. Away'
  BY <1>1, <1>3 DEF Away, PollGapBounded, LongestRound, LongestDelay, Spread
<1>6. /\ elapsed' \in 0..Interval /\ age' \in Int /\ age' <= age + 1
      /\ age < 0 => age' < 0
      /\ age' <= elapsed' \/ elapsed' = Interval
  <2>1. Ages /\ Pass(t) /\ t \in Nat
    BY <1>2
  <2> QED BY <2>1, Clocks DEF Ages
<1>7. Ages'
  <2>1. age \in Int /\ errors \in Nat /\ Interval \in Nat /\ age < Interval + errors
    BY <1>3, PublisherAssumption DEF Ages
  <2>2. /\ age' <= Interval + errors' + gap'
        /\ pc' = "poll" => age' < Interval + errors'
    <3>1. /\ age' \in Int /\ age' <= age + 1 /\ gap' = 0
          /\ errors' \in Nat /\ errors' >= errors
          /\ pc' = "poll" => errors' = errors + 1
      BY <1>3, <1>6
    <3> QED BY <2>1, <3>1, OneTick
  <2>3. /\ sinceLast' = 0 => age' < 0
        /\ sinceLast' > 0 => overall'.count > 0
        /\ sinceLast' \in Nat /\ overall'.count \in Nat
    BY <1>3, <1>6 DEF Ages
  <2> QED BY <1>3, <1>6, <2>2, <2>3 DEF Ages
<1> QED BY <1>5, <1>7

\* Time away from poll (retry.py:47-63, dlq.py:108).
LEMMA TAway ==
    ASSUME TInv, AttemptRetried \/ FlushEnds \/ FlushTimesOut
    PROVE  TInv'
<1> USE DEF TInv
<1>1. PICK t \in Nat :
        /\ PassAway(t)
        /\ pc = "attempt" => t <= LongestDelay
        /\ pc = "flush" => t <= FlushTicks
  <2>1. CASE AttemptRetried
    BY <2>1, DelayBounds DEF AttemptRetried, Away
  <2>2. CASE FlushEnds \/ FlushTimesOut
    BY <2>2, PublisherAssumption DEF FlushEnds, FlushTimesOut
  <2> QED BY <2>1, <2>2
<1>2. /\ gap' = gap + t
      /\ elapsed' = Least(elapsed + t, Interval)
      /\ age' = IF age < 0 THEN age ELSE Least(age + t, MaxAge + 1)
  BY <1>1 DEF PassAway, Pass
<1>3. /\ sinceLast' = sinceLast /\ overall' = overall /\ errors' = errors
      /\ \/ pc = "attempt" /\ pc' = "attempt" /\ attempt' = attempt + 1
            /\ attempt < MaxAttempts
         \/ pc = "flush" /\ pc' = "emit"
  BY DEF AttemptRetried, FlushEnds, FlushTimesOut, ShouldRetry, aggregate, bounds
<1>4. Away'
  <2>1. CASE pc = "attempt"
    <3>1. /\ attempt \in 1..MaxAttempts /\ attempt' \in 1..MaxAttempts
          /\ gap <= (attempt - 1) * LongestDelay /\ gap \in Nat
      BY <2>1, <1>3, MaxAttemptsAssumption DEF Away
    <3>2. gap' <= attempt * LongestDelay
      BY <1>1, <1>2, <2>1, <3>1, DelaysAddUp
    <3>3. attempt * LongestDelay = (attempt' - 1) * LongestDelay
      BY <1>3, <2>1, <3>1
    <3>4. gap' <= LongestRound
      <4>1. /\ (attempt' - 1) * LongestDelay <= (MaxAttempts - 1) * LongestDelay
            /\ (attempt' - 1) * LongestDelay \in Nat
            /\ (MaxAttempts - 1) * LongestDelay \in Nat
            /\ LongestRound = (MaxAttempts - 1) * LongestDelay + FlushTicks
        BY <3>1, DelaysAddUp
      <4>2. gap' \in Nat /\ gap' <= (attempt' - 1) * LongestDelay
        BY <1>2, <3>1, <3>2, <3>3
      <4> QED BY <4>1, <4>2, PublisherAssumption
    <3> QED BY <1>2, <1>3, <2>1, <3>1, <3>2, <3>3, <3>4 DEF Away, PollGapBounded,
                LongestRound, LongestDelay, Spread
  <2>2. CASE pc = "flush"
    <3>1. gap \in Nat /\ gap <= (MaxAttempts - 1) * LongestDelay
      BY <2>2 DEF Away
    <3>2. 1 \in 1..MaxAttempts
      BY MaxAttemptsAssumption
    <3>3. gap' <= LongestRound
      <4>1. /\ (MaxAttempts - 1) * LongestDelay \in Nat
            /\ LongestRound = (MaxAttempts - 1) * LongestDelay + FlushTicks
        BY <3>2, DelaysAddUp
      <4> QED BY <1>1, <1>2, <2>2, <3>1, <4>1, PublisherAssumption
    <3> QED BY <1>2, <1>3, <2>2, <3>1, <3>3 DEF Away, PollGapBounded,
                LongestRound, LongestDelay, Spread
  <2> QED BY <1>3, <2>1, <2>2
<1>5. LongestRound \in Nat
  BY DelaysAddUp, MaxAttemptsAssumption
<1>6. /\ elapsed' \in 0..Interval /\ age' \in Int
      /\ age' <= age + t
      /\ age < 0 => age' < 0
      /\ age' <= elapsed' \/ elapsed' = Interval
  BY <1>1, Clocks DEF PassAway
<1>7. Ages'
  <2>1. /\ age \in Int /\ errors \in Nat /\ Interval \in Nat /\ gap \in Nat
        /\ age <= Interval + errors + gap
    BY PublisherAssumption DEF Ages, Away
  <2>2. age' <= Interval + errors' + gap'
    BY <1>2, <1>3, <1>6, <2>1
  <2>3. /\ sinceLast' = 0 => age' < 0
        /\ sinceLast' > 0 => overall'.count > 0
        /\ sinceLast' \in Nat /\ overall'.count \in Nat
    BY <1>3, <1>6 DEF Ages
  <2>4. pc' # "poll" /\ pc' # "records" /\ errors' \in Nat
    BY <1>3, <2>1
  <2> QED BY <1>6, <2>2, <2>3, <2>4 DEF Ages
<1> QED BY <1>4, <1>7

\* An order is delivered and starts to wait (apps/consumer.py:156-157).
LEMMA TOk ==
    ASSUME TInv, AttemptOk
    PROVE  TInv'
<1> USE DEF TInv
<1>1. overall'.count = overall.count + 1
  BY DEF AttemptOk, Added, Folded
<1>2. /\ pc' = "emit" /\ gap' = gap /\ elapsed' = elapsed /\ errors' = errors
      /\ sinceLast' = sinceLast + 1
      /\ age' = IF age < 0 THEN 0 ELSE age
  BY DEF AttemptOk, Noted, bounds
<1>3. Away'
  BY <1>2 DEF Away, PollGapBounded, LongestRound, LongestDelay, Spread
<1>4. Ages'
  BY <1>1, <1>2, PublisherAssumption DEF Ages, Away
<1> QED BY <1>3, <1>4

\* A snapshot starts, and nothing waits any more; without one, nothing is due
\* (apps/consumer.py:159-181).
LEMMA TEmit ==
    ASSUME TInv, EmitStart \/ EmitNot
    PROVE  TInv'
<1> USE DEF TInv, aggregate, clock, bounds
<1>1. CASE EmitStart
  BY <1>1, PublisherAssumption DEF EmitStart, Away, Ages, PollGapBounded, LongestRound,
           LongestDelay, Spread
<1>2. CASE EmitNot
  <2>1. /\ UNCHANGED <<overall, sinceLast, elapsed, age, gap, errors>>
        /\ pc' \in {"poll", "emit", "closeFlush"}
    BY <1>2 DEF EmitNot, AfterEmission, NextRound
  <2>2. pc' = "poll" => ~closing
    BY <1>2 DEF EmitNot, AfterEmission
  <2>3. pc' = "poll" => age < Interval
    <3>1. ASSUME pc' = "poll", sinceLast > 0
          PROVE  age < Interval
      BY <1>2, <2>2, <3>1, PublisherAssumption DEF EmitNot, Due, Ages
    <3>2. ASSUME sinceLast = 0
          PROVE  age < Interval
      BY <3>2, PublisherAssumption DEF Ages
    <3> QED BY <3>1, <3>2 DEF Ages
  <2>4. Ages'
    BY <2>1, <2>3, PublisherAssumption DEF Ages
  <2>5. Away'
    BY <2>1 DEF Away, PollGapBounded, LongestRound, LongestDelay, Spread
  <2> QED BY <2>4, <2>5
<1> QED BY <1>1, <1>2

\* Steps that take no time and put no order in hand: the records of a snapshot,
\* the egress queue, the way to the dead letter topic, the end, and signals
\* (apps/consumer.py:182-195, 363-371).
LEMMA TRest ==
    ASSUME TInv,
           \/ AttemptsExhausted \/ ProduceLetter \/ ProduceRaises
           \/ Deliver \/ Lose
           \/ EmitRecord \/ EmitDrops \/ EmitEnds \/ CloseFlush
           \/ FirstSignal \/ SecondSignal \/ EmitRaises
           \/ UNCHANGED vars
    PROVE  TInv'
<1> USE DEF TInv, aggregate, clock, bounds, inHand
<1>1. /\ UNCHANGED <<overall, sinceLast, elapsed, age, gap, errors>>
      /\ \/ pc' = pc /\ attempt' = attempt
         \/ pc = "attempt" /\ pc' = "produce"
         \/ pc = "produce" /\ pc' = "flush"
         \/ pc = "records" /\ pc' = "poll"
         \/ pc' \in {"emit", "closeFlush", "done"}
  <2>1. CASE AttemptsExhausted \/ ProduceLetter \/ ProduceRaises
    BY <2>1 DEF AttemptsExhausted, ProduceLetter, ProduceRaises, Escape
  <2>2. CASE Deliver \/ Lose \/ UNCHANGED vars
    BY <2>2 DEF Deliver, Lose, vars
  <2>3. CASE EmitRecord \/ EmitDrops \/ EmitEnds \/ CloseFlush
    BY <2>3 DEF EmitRecord, EmitDrops, EmitEnds, CloseFlush, AfterEmission, NextRound
  <2>4. CASE FirstSignal \/ SecondSignal \/ EmitRaises
    BY <2>4 DEF FirstSignal, SecondSignal, EmitRaises, Signalled, CutShort
  <2> QED BY <2>1, <2>2, <2>3, <2>4
<1>2. pc = "attempt" => gap <= (MaxAttempts - 1) * LongestDelay
  <2> SUFFICES ASSUME pc = "attempt" PROVE gap <= (MaxAttempts - 1) * LongestDelay
    OBVIOUS
  <2>1. attempt \in 1..MaxAttempts /\ gap <= (attempt - 1) * LongestDelay /\ gap \in Nat
    BY DEF Away
  <2>2. /\ (attempt - 1) * LongestDelay <= (MaxAttempts - 1) * LongestDelay
        /\ (attempt - 1) * LongestDelay \in Nat
        /\ (MaxAttempts - 1) * LongestDelay \in Nat
    BY <2>1, DelaysAddUp
  <2> QED BY <2>1, <2>2
<1>3. Away'
  BY <1>1, <1>2 DEF Away, PollGapBounded, LongestRound, LongestDelay, Spread
<1>4. Ages'
  BY <1>1, PublisherAssumption DEF Ages
<1> QED BY <1>3, <1>4

\* Every step keeps the invariant.
LEMMA TNext == TInv /\ [Next]_vars => TInv'
BY TPoll, TAway, TOk, TEmit, TRest DEF Next, ThreadStep

\* With any budget, back-off and flush timeout, a round is back at poll within
\* their sum (apps/consumer.py:108; docs/ARCHITECTURE.md:79-81).
THEOREM RoundsBounded == Spec => []PollGapBounded
<1>1. TInv => PollGapBounded
  BY DEF TInv, Away
<1> QED BY TInit, TNext, <1>1, PTL DEF Spec

\* No order waits for an emission longer than the interval, the round under way
\* and the polls that returned an error (apps/consumer.py:159-162, 255-260).
THEOREM NoneStale == Spec => []NeverStale
<1>1. TInv => NeverStale
  <2> SUFFICES ASSUME TInv PROVE NeverStale
    OBVIOUS
  <2>1. LongestRound \in Int
    BY DelaysAddUp, MaxAttemptsAssumption
  <2> QED BY <2>1, PublisherAssumption DEF TInv, Away, Ages, PollGapBounded, NeverStale
<1> QED BY TInit, TNext, <1>1, PTL DEF Spec

----------------------------------------------------------------------------
(* Sums over the products. *)

\* The recursion of Sum, up to place n.
SumsUpTo(g, f, n) ==
    g = [m \in 0..n |-> IF m = 0 THEN 0 ELSE g[m - 1] + f[Products[m]]]

LEMMA SumsExist ==
    ASSUME NEW f, NEW n \in Nat
    PROVE  \E g : SumsUpTo(g, f, n)
<1> DEFINE S == {k \in Nat : \E g : SumsUpTo(g, f, k)}
<1>1. 0 \in S
  <2>1. SumsUpTo([m \in 0..0 |-> 0], f, 0)
    BY DEF SumsUpTo
  <2> QED BY <2>1
<1>2. ASSUME NEW k \in Nat, k \in S
      PROVE  k + 1 \in S
  <2>1. PICK g : SumsUpTo(g, f, k)
    BY <1>2
  <2> DEFINE h == [m \in 0..k + 1 |->
                     IF m <= k THEN g[m] ELSE g[k] + f[Products[k + 1]]]
  <2>2. \A m \in 0..k : g[m] = IF m = 0 THEN 0 ELSE g[m - 1] + f[Products[m]]
    BY <2>1 DEF SumsUpTo
  <2>3. ASSUME NEW m \in 0..k + 1
        PROVE  h[m] = IF m = 0 THEN 0 ELSE h[m - 1] + f[Products[m]]
    <3>1. CASE m <= k
      BY <2>2, <3>1
    <3>2. CASE m = k + 1
      BY <3>2
    <3> QED BY <3>1, <3>2
  <2>4. SumsUpTo(h, f, k + 1)
    BY <2>3 DEF SumsUpTo
  <2> QED BY <2>4
<1> HIDE DEF S
<1>3. \A k \in Nat : k \in S
  BY <1>1, <1>2, SetInduction
<1> QED
  BY <1>3 DEF S

SumRule(g, f) ==
    /\ g[0] = 0
    /\ \A m \in 1..Len(Products) : g[m] = g[m - 1] + f[Products[m]]

\* How many products there are, and that they are different.
LEMMA ProductPlaces ==
    /\ Len(Products) \in Nat
    /\ DOMAIN Products = 1..Len(Products)
    /\ \A m \in 1..Len(Products) : Products[m] \in ProductSet
    /\ \A p \in ProductSet : \E m \in 1..Len(Products) : Products[m] = p
    /\ \A i, j \in 1..Len(Products) : Products[i] = Products[j] => i = j
<1>1. Products \in Seq(STRING)
  BY ScopesAssumption
<1>2. Len(Products) \in Nat /\ DOMAIN Products = 1..Len(Products)
  BY <1>1
<1> QED
  BY <1>2, ScopesAssumption DEF ProductSet

\* Sum has the recursion of its definition.
LEMMA SumRecursion ==
    ASSUME NEW f
    PROVE  \E g : Sum(f) = g[Len(Products)] /\ SumRule(g, f)
<1> DEFINE g == CHOOSE g : SumsUpTo(g, f, Len(Products))
<1>1. Len(Products) \in Nat
  BY ProductPlaces
<1>2. SumsUpTo(g, f, Len(Products))
  BY <1>1, SumsExist
<1>3. Sum(f) = g[Len(Products)]
  BY DEF Sum, SumsUpTo
<1> HIDE DEF g
<1>4. \A m \in 0..Len(Products) : g[m] = IF m = 0 THEN 0 ELSE g[m - 1] + f[Products[m]]
  BY <1>1, <1>2 DEF SumsUpTo
<1>5. SumRule(g, f)
  <2>1. g[0] = 0
    BY <1>1, <1>4
  <2>2. ASSUME NEW m \in 1..Len(Products)
        PROVE  g[m] = g[m - 1] + f[Products[m]]
    <3>1. m \in 0..Len(Products) /\ m # 0
      BY <1>1
    <3> QED BY <1>4, <3>1
  <2> QED BY <2>1, <2>2 DEF SumRule
<1> QED
  BY <1>3, <1>5

\* A sum of zeros.
LEMMA SumZero ==
    ASSUME NEW f, \A p \in ProductSet : f[p] = 0
    PROVE  Sum(f) = 0
<1>1. PICK g : Sum(f) = g[Len(Products)] /\ SumRule(g, f)
  BY SumRecursion
<1> DEFINE S == {m \in Nat : m <= Len(Products) => g[m] = 0}
<1>2. 0 \in S
  BY <1>1 DEF SumRule
<1>3. ASSUME NEW m \in Nat, m \in S
      PROVE  m + 1 \in S
  <2> SUFFICES ASSUME m + 1 <= Len(Products) PROVE g[m + 1] = 0
    OBVIOUS
  <2>1. m + 1 \in 1..Len(Products) /\ m <= Len(Products)
    BY ProductPlaces
  <2>2. g[m + 1] = g[(m + 1) - 1] + f[Products[m + 1]] /\ f[Products[m + 1]] = 0
    BY <1>1, <2>1, ProductPlaces DEF SumRule
  <2> QED BY <1>3, <2>1, <2>2
<1> HIDE DEF S
<1>4. Len(Products) \in S
  BY <1>2, <1>3, SetInduction, ProductPlaces
<1> QED
  BY <1>1, <1>4, ProductPlaces DEF S

\* Sums of larger parts are larger.
LEMMA SumLeq ==
    ASSUME NEW f, NEW h,
           \A p \in ProductSet : f[p] \in Int /\ h[p] \in Int /\ f[p] <= h[p]
    PROVE  Sum(f) \in Int /\ Sum(h) \in Int /\ Sum(f) <= Sum(h)
<1>1. PICK a : Sum(f) = a[Len(Products)] /\ SumRule(a, f)
  BY SumRecursion
<1>2. PICK b : Sum(h) = b[Len(Products)] /\ SumRule(b, h)
  BY SumRecursion
<1> DEFINE S == {m \in Nat : m <= Len(Products) =>
                              a[m] \in Int /\ b[m] \in Int /\ a[m] <= b[m]}
<1>3. 0 \in S
  BY <1>1, <1>2 DEF SumRule
<1>4. ASSUME NEW m \in Nat, m \in S
      PROVE  m + 1 \in S
  <2> SUFFICES ASSUME m + 1 <= Len(Products)
               PROVE  a[m + 1] \in Int /\ b[m + 1] \in Int /\ a[m + 1] <= b[m + 1]
    OBVIOUS
  <2> DEFINE x == f[Products[m + 1]]
             y == h[Products[m + 1]]
  <2>1. m + 1 \in 1..Len(Products) /\ m <= Len(Products) /\ (m + 1) - 1 = m
    BY ProductPlaces
  <2>2. x \in Int /\ y \in Int /\ x <= y
    BY <2>1, ProductPlaces
  <2>3. a[m + 1] = a[m] + x /\ b[m + 1] = b[m] + y
    BY <1>1, <1>2, <2>1 DEF SumRule
  <2> HIDE DEF x, y
  <2> QED BY <1>4, <2>1, <2>2, <2>3
<1> HIDE DEF S
<1>5. Len(Products) \in S
  BY <1>3, <1>4, SetInduction, ProductPlaces
<1> QED
  BY <1>1, <1>2, <1>5, ProductPlaces DEF S

\* What one part grows by, the sum grows by.
LEMMA SumOne ==
    ASSUME NEW f, NEW h, NEW q \in ProductSet, NEW d \in Int,
           \A p \in ProductSet : f[p] \in Int,
           \A p \in ProductSet : h[p] = IF p = q THEN f[p] + d ELSE f[p]
    PROVE  Sum(h) = Sum(f) + d
<1>1. PICK a : Sum(f) = a[Len(Products)] /\ SumRule(a, f)
  BY SumRecursion
<1>2. PICK b : Sum(h) = b[Len(Products)] /\ SumRule(b, h)
  BY SumRecursion
<1>3. PICK k \in 1..Len(Products) : Products[k] = q
  BY ProductPlaces
<1> DEFINE S == {m \in Nat : m <= Len(Products) =>
                              /\ a[m] \in Int
                              /\ b[m] = a[m] + IF k <= m THEN d ELSE 0}
<1>4. 0 \in S
  BY <1>1, <1>2 DEF SumRule
<1>5. ASSUME NEW m \in Nat, m \in S
      PROVE  m + 1 \in S
  <2> SUFFICES ASSUME m + 1 <= Len(Products)
               PROVE  /\ a[m + 1] \in Int
                      /\ b[m + 1] = a[m + 1] + IF k <= m + 1 THEN d ELSE 0
    OBVIOUS
  <2> DEFINE x == f[Products[m + 1]]
             y == h[Products[m + 1]]
  <2>1. m + 1 \in 1..Len(Products) /\ m <= Len(Products) /\ (m + 1) - 1 = m
    BY ProductPlaces
  <2>2. x \in Int /\ y = IF m + 1 = k THEN x + d ELSE x
    BY <1>3, <2>1, ProductPlaces
  <2>3. a[m + 1] = a[m] + x /\ b[m + 1] = b[m] + y
    BY <1>1, <1>2, <2>1 DEF SumRule
  <2> HIDE DEF x, y
  <2> QED BY <1>5, <2>1, <2>2, <2>3
<1> HIDE DEF S
<1>6. Len(Products) \in S
  BY <1>4, <1>5, SetInduction, ProductPlaces
<1> QED
  BY <1>1, <1>2, <1>6, ProductPlaces DEF S

----------------------------------------------------------------------------
(* The parts and the whole. *)

\* The lowest and the highest price of all are those of some product, and the
\* scope of no product has more orders than there are.
Extremes ==
    /\ \A p \in ProductSet :
        /\ perProduct[p].count <= overall.count
        /\ perProduct[p].count > 0 =>
            /\ overall.minimum <= perProduct[p].minimum
            /\ perProduct[p].maximum <= overall.maximum
    /\ overall.count > 0 =>
        /\ \E p \in ProductSet : /\ perProduct[p].count > 0
                                 /\ overall.minimum = perProduct[p].minimum
        /\ \E p \in ProductSet : /\ perProduct[p].count > 0
                                 /\ overall.maximum = perProduct[p].maximum

Counts == [p \in ProductSet |-> perProduct[p].count]
Exacts == [p \in ProductSet |-> perProduct[p].exact]

PInv ==
    /\ MInv
    /\ Extremes
    /\ overall.count = Sum(Counts)
    /\ overall.exact = Sum(Exacts)

\* The initial state.
LEMMA PInit == Init => PInv
<1> SUFFICES ASSUME Init PROVE PInv
  OBVIOUS
<1>1. /\ overall.count = 0 /\ overall.exact = 0
      /\ \A p \in ProductSet : perProduct[p].count = 0 /\ perProduct[p].exact = 0
  BY DEF Init, Fresh
<1>2. Sum(Counts) = 0 /\ Sum(Exacts) = 0
  BY <1>1, SumZero DEF Counts, Exacts
<1>3. Extremes
  BY <1>1 DEF Extremes
<1> QED
  BY <1>1, <1>2, <1>3, MInit DEF PInv

\* The statistics t of a scope with the statistics s, one price later.
Grown(s, t, price) ==
    /\ t.count = s.count + 1
    /\ t.exact = s.exact + price
    /\ t.minimum = IF s.count = 0 THEN price ELSE Least(s.minimum, price)
    /\ t.maximum = IF s.count = 0 THEN price ELSE Greatest(s.maximum, price)

\* What an order that is delivered does to the figures (aggregation.py:26-32,
\* 63-66).
LEMMA FiguresGrow ==
    ASSUME MInv, AttemptOk
    PROVE  \E q \in ProductSet, v \in Nat : \E o, r :
            /\ overall' = o /\ Grown(overall, o, v)
            /\ perProduct' = [perProduct EXCEPT ![q] = r] /\ Grown(perProduct[q], r, v)
<1>1. order.product \in ProductSet /\ order.price \in Nat
  BY PricesAssumption DEF InHand, MInv, AttemptOk
<1>2. PICK both \in Added(overall, perProduct[order.product], order.price) :
          overall' = both[1] /\ perProduct' = [perProduct EXCEPT ![order.product] = both[2]]
  BY DEF AttemptOk
<1>3. PICK o \in Folded(overall, order.price),
           r \in Folded(perProduct[order.product], order.price) : both = <<o, r>>
  BY <1>2 DEF Added
<1>4. overall' = o /\ perProduct' = [perProduct EXCEPT ![order.product] = r]
  BY <1>2, <1>3
<1>5. ASSUME NEW s, NEW t \in Folded(s, order.price)
      PROVE  Grown(s, t, order.price)
  BY DEF Folded, Grown
<1>6. Grown(overall, o, order.price) /\ Grown(perProduct[order.product], r, order.price)
  BY <1>5
<1> QED
  BY <1>1, <1>4, <1>6

\* An order is delivered.
LEMMA POk ==
    ASSUME PInv, AttemptOk
    PROVE  PInv'
<1>0. PICK q \in ProductSet, v \in Nat : \E o, r :
        /\ overall' = o /\ Grown(overall, o, v)
        /\ perProduct' = [perProduct EXCEPT ![q] = r] /\ Grown(perProduct[q], r, v)
  BY FiguresGrow DEF PInv
<1>1. PICK o, r :
        /\ overall' = o /\ Grown(overall, o, v)
        /\ perProduct' = [perProduct EXCEPT ![q] = r] /\ Grown(perProduct[q], r, v)
  BY <1>0
<1> USE DEF Grown
<1>2. /\ overall \in Stats /\ perProduct \in [ProductSet -> Stats]
      /\ overall' \in Stats /\ perProduct' \in [ProductSet -> Stats]
      /\ MInv'
  BY MOk DEF PInv, MInv
<1>3. \A p \in ProductSet : perProduct'[p] = IF p = q THEN r ELSE perProduct[p]
  BY <1>1, <1>2
<1>4. \A p \in ProductSet : /\ perProduct[p].count \in Nat /\ perProduct[p].exact \in Int
                            /\ perProduct[p].minimum \in Int
                            /\ perProduct[p].maximum \in Int
  BY <1>2 DEF Stats
<1>5. /\ overall.count \in Nat /\ overall.exact \in Int /\ overall.minimum \in Int
      /\ overall.maximum \in Int
  BY <1>2 DEF Stats
<1>6. overall'.count = Sum(Counts')
  <2> DEFINE f == Counts
             h == Counts'
  <2>1. \A p \in ProductSet : f[p] \in Int /\ h[p] = IF p = q THEN f[p] + 1 ELSE f[p]
    BY <1>1, <1>3, <1>4 DEF Counts
  <2> HIDE DEF f, h
  <2>2. Sum(h) = Sum(f) + 1
    BY <2>1, SumOne
  <2> QED BY <1>1, <2>2 DEF PInv, f, h
<1>7. overall'.exact = Sum(Exacts')
  <2> DEFINE f == Exacts
             h == Exacts'
  <2>1. \A p \in ProductSet : f[p] \in Int /\ h[p] = IF p = q THEN f[p] + v ELSE f[p]
    BY <1>1, <1>3, <1>4 DEF Exacts
  <2> HIDE DEF f, h
  <2>2. Sum(h) = Sum(f) + v
    BY <2>1, SumOne
  <2> QED BY <1>1, <2>2 DEF PInv, f, h
<1>8. Extremes'
  <2> USE DEF PInv, Least, Greatest
  <2>1. overall'.count = overall.count + 1 /\ overall'.minimum = o.minimum
        /\ overall'.maximum = o.maximum
    BY <1>1
  <2>2. ASSUME NEW p \in ProductSet
        PROVE  /\ perProduct'[p].count <= overall'.count
               /\ perProduct'[p].count > 0 =>
                    /\ overall'.minimum <= perProduct'[p].minimum
                    /\ perProduct'[p].maximum <= overall'.maximum
    <3>1. CASE p = q
      BY <1>1, <1>3, <1>4, <1>5, <2>1, <3>1 DEF Extremes
    <3>2. CASE p # q
      BY <1>1, <1>3, <1>4, <1>5, <2>1, <3>2 DEF Extremes
    <3> QED BY <3>1, <3>2
  <2>3. \E p \in ProductSet : perProduct'[p].count > 0
                              /\ overall'.minimum = perProduct'[p].minimum
    <3>1. CASE overall'.minimum = perProduct'[q].minimum
      BY <1>1, <1>3, <1>4, <3>1
    <3>2. CASE overall'.minimum # perProduct'[q].minimum
      <4>1. overall.count > 0 /\ overall'.minimum = overall.minimum
        BY <1>1, <1>3, <1>4, <1>5, <2>1, <3>2 DEF Extremes
      <4>2. PICK p \in ProductSet : perProduct[p].count > 0
                                    /\ overall.minimum = perProduct[p].minimum
        BY <4>1 DEF Extremes
      <4>3. p # q
        BY <1>1, <1>3, <1>4, <1>5, <2>1, <3>2, <4>1, <4>2
      <4> QED BY <1>3, <4>1, <4>2, <4>3
    <3> QED BY <3>1, <3>2
  <2>4. \E p \in ProductSet : perProduct'[p].count > 0
                              /\ overall'.maximum = perProduct'[p].maximum
    <3>1. CASE overall'.maximum = perProduct'[q].maximum
      BY <1>1, <1>3, <1>4, <3>1
    <3>2. CASE overall'.maximum # perProduct'[q].maximum
      <4>1. overall.count > 0 /\ overall'.maximum = overall.maximum
        BY <1>1, <1>3, <1>4, <1>5, <2>1, <3>2 DEF Extremes
      <4>2. PICK p \in ProductSet : perProduct[p].count > 0
                                    /\ overall.maximum = perProduct[p].maximum
        BY <4>1 DEF Extremes
      <4>3. p # q
        BY <1>1, <1>3, <1>4, <1>5, <2>1, <3>2, <4>1, <4>2
      <4> QED BY <1>3, <4>1, <4>2, <4>3
    <3> QED BY <3>1, <3>2
  <2> QED BY <2>2, <2>3, <2>4 DEF Extremes
<1> QED
  BY <1>2, <1>6, <1>7, <1>8 DEF PInv

LEMMA PNext == PInv /\ [Next]_vars => PInv'
<1> SUFFICES ASSUME PInv, [Next]_vars PROVE PInv'
  OBVIOUS
<1>1. CASE AttemptOk
  BY <1>1, POk
<1>2. CASE ~AttemptOk
  <2>1. MInv' /\ UNCHANGED <<overall, perProduct>>
    BY <1>2, HandKept, MQuiet DEF PInv, MInv, aggregate
  <2> QED BY <2>1 DEF PInv, Extremes, Counts, Exacts
<1> QED
  BY <1>1, <1>2

\* The overall statistics are those of all products together, for any number of
\* products and orders (aggregation.py:63-66).
THEOREM WholeOfParts == Spec => []PartsMakeWhole
<1>1. PInv => PartsMakeWhole
  <2> SUFFICES ASSUME PInv PROVE PartsMakeWhole
    OBVIOUS
  <2> DEFINE known == {perProduct[p] : p \in {q \in ProductSet : perProduct[q].count > 0}}
  <2>1. overall.count \in Nat /\ \A p \in ProductSet : perProduct[p].count \in Nat
    BY DEF PInv, MInv, Stats
  <2>2. ASSUME known # {}
        PROVE  /\ overall.minimum \in {s.minimum : s \in known}
               /\ \A s \in known : overall.minimum <= s.minimum
               /\ overall.maximum \in {s.maximum : s \in known}
               /\ \A s \in known : overall.maximum >= s.maximum
    <3>1. overall.count > 0
      BY <2>1, <2>2 DEF PInv, Extremes
    <3>2. /\ overall.minimum \in {s.minimum : s \in known}
          /\ overall.maximum \in {s.maximum : s \in known}
      BY <3>1 DEF PInv, Extremes
    <3>3. \A s \in known : overall.minimum <= s.minimum /\ s.maximum <= overall.maximum
      BY DEF PInv, Extremes
    <3>4. \A s \in known : s.maximum \in Int
      BY DEF PInv, MInv, Stats
    <3>5. overall.maximum \in Int
      BY DEF PInv, MInv, Stats
    <3> QED BY <3>2, <3>3, <3>4, <3>5
  <2> QED BY <2>2 DEF PInv, PartsMakeWhole, Counts, Exacts
<1> QED
  BY <1>1, PInit, PNext, PTL DEF Spec

----------------------------------------------------------------------------
(* Types. *)

\* A record of the aggregates topic.
LEMMA RecordType ==
    ASSUME NEW s \in Scopes, NEW t \in Stats
    PROVE  /\ Record(s, t) \in TopicRecord
           /\ Record(s, t).scope = s /\ Record(s, t).count = t.count
BY DEF Record, TopicRecord, Stats

\* A sequence behind one element.
LEMMA Behind ==
    ASSUME NEW X, NEW a \in X, NEW t \in Seq(X)
    PROVE  /\ <<a>> \o t \in Seq(X)
           /\ Len(<<a>> \o t) = 1 + Len(t)
           /\ (<<a>> \o t)[1] = a
           /\ \A i \in 2..1 + Len(t) : (<<a>> \o t)[i] = t[i - 1]
<1> DEFINE h == <<a>>
<1>1. h \in Seq(X) /\ Len(h) = 1 /\ h[1] = a
  OBVIOUS
<1> HIDE DEF h
<1>2. h \o t \in Seq(X) /\ Len(h \o t) = 1 + Len(t)
  <2>1. h \o t \in Seq(X) /\ Len(h \o t) = Len(h) + Len(t)
    BY <1>1, ConcatProperties, Zenon
  <2> QED BY <1>1, <2>1
<1>3. (h \o t)[1] = a
  <2>1. 1 \in 1..Len(h) + Len(t) /\ 1 <= Len(h)
    BY <1>1
  <2>2. (h \o t)[1] = IF 1 <= Len(h) THEN h[1] ELSE t[1 - Len(h)]
    BY <1>1, <2>1, ConcatProperties, Zenon
  <2> QED BY <1>1, <2>1, <2>2, Zenon
<1>4. ASSUME NEW i \in 2..1 + Len(t)
      PROVE  (h \o t)[i] = t[i - 1]
  <2>1. Len(t) \in Nat
    OBVIOUS
  <2>2. i \in 1..Len(h) + Len(t) /\ ~(i <= Len(h)) /\ i - Len(h) = i - 1
    BY <1>1, <2>1
  <2>3. (h \o t)[i] = IF i <= Len(h) THEN h[i] ELSE t[i - Len(h)]
    BY <1>1, <2>2, ConcatProperties
  <2> QED BY <2>2, <2>3
<1> QED
  BY <1>2, <1>3, <1>4 DEF h

\* A snapshot has the overall record first, then one of every product seen so far
\* (aggregation.py:74-80).
LEMMA SnapshotRecords ==
    ASSUME FiguresTypeOK
    PROVE  /\ Snapshots \in Seq(TopicRecord) /\ Len(Snapshots) \in Nat
           /\ Len(Snapshots) >= 1 /\ Snapshots[1] = Record(All, overall)
           /\ \A i \in 2..Len(Snapshots) : \E p \in ProductSet :
                perProduct[p].count > 0 /\ Snapshots[i] = Record(p, perProduct[p])
           /\ \A p \in ProductSet : perProduct[p].count > 0 =>
                \E i \in 2..Len(Snapshots) : Snapshots[i] = Record(p, perProduct[p])
<1> DEFINE I == {i \in DOMAIN Products : perProduct[Products[i]].count > 0}
           P == {p \in ProductSet : perProduct[p].count > 0}
           head == <<Record(All, overall)>>
<1>1. Products \in Seq(STRING)
  BY ScopesAssumption
<1>2. Known \in Seq(P)
  <2>1. Known \in Seq({Products[i] : i \in I \intersect DOMAIN Products})
    <3> HIDE DEF I
    <3> QED BY <1>1, PickedType DEF Known, I
  <2>2. {Products[i] : i \in I \intersect DOMAIN Products} \subseteq P
    BY DEF ProductSet
  <2> HIDE DEF P, I
  <2> QED BY <2>1, <2>2
<1>3. ASSUME NEW p \in P
      PROVE  \E k \in DOMAIN Known : Known[k] = p
  <2>1. PICK i \in DOMAIN Products : Products[i] = p
    BY DEF ProductSet
  <2>2. i \in I \intersect DOMAIN Products
    BY <2>1
  <2> HIDE DEF I
  <2>3. \E k \in DOMAIN Picked(Products, I) : Picked(Products, I)[k] = Products[i]
    BY <1>1, <2>2, PickedAll
  <2>4. Known = Picked(Products, I)
    BY DEF Known, I
  <2> QED BY <2>1, <2>3, <2>4
<1>4. /\ DOMAIN Known = 1..Len(Known) /\ Len(Known) \in Nat
      /\ \A k \in 1..Len(Known) : Known[k] \in P
  <2> HIDE DEF P
  <2> QED BY <1>2
<1>5. /\ ProductRecords \in Seq(TopicRecord)
      /\ Len(ProductRecords) = Len(Known)
      /\ \A k \in 1..Len(Known) : ProductRecords[k] = Record(Known[k], perProduct[Known[k]])
  <2>1. ASSUME NEW k \in 1..Len(Known)
        PROVE  Record(Known[k], perProduct[Known[k]]) \in TopicRecord
    <3>1. Known[k] \in Scopes /\ perProduct[Known[k]] \in Stats
      BY <1>4 DEF Scopes, FiguresTypeOK
    <3> QED BY <3>1, RecordType
  <2> HIDE DEF P
  <2>2. ProductRecords = [k \in 1..Len(Known) |-> Record(Known[k], perProduct[Known[k]])]
    BY <1>4 DEF ProductRecords
  <2>3. ProductRecords \in [1..Len(Known) -> TopicRecord]
    BY <2>1, <2>2
  <2>4. ProductRecords \in Seq(TopicRecord)
    BY <1>4, <2>3
  <2> QED BY <1>4, <2>2, <2>3, <2>4
<1>6. Record(All, overall) \in TopicRecord
  BY RecordType DEF Scopes, FiguresTypeOK
<1>7. head \in Seq(TopicRecord) /\ Len(head) = 1 /\ head[1] = Record(All, overall)
  BY <1>6
<1>8. Snapshots = head \o ProductRecords
  BY DEF Snapshots
<1> HIDE DEF head, P, I
<1>9. /\ Snapshots \in Seq(TopicRecord) /\ Len(Snapshots) = 1 + Len(Known)
      /\ Snapshots[1] = Record(All, overall)
      /\ \A i \in 2..Len(Snapshots) : Snapshots[i] = ProductRecords[i - 1]
  <2> DEFINE tail == ProductRecords
  <2>1. tail \in Seq(TopicRecord) /\ Len(tail) = Len(Known)
    BY <1>5
  <2> HIDE DEF tail
  <2>2. /\ head \o tail \in Seq(TopicRecord)
        /\ Len(head \o tail) = 1 + Len(tail)
        /\ (head \o tail)[1] = Record(All, overall)
        /\ \A i \in 2..1 + Len(tail) : (head \o tail)[i] = tail[i - 1]
    BY <1>6, <2>1, Behind DEF head
  <2> QED BY <1>8, <2>1, <2>2 DEF tail
<1>10. ASSUME NEW i \in 2..Len(Snapshots)
       PROVE  \E p \in ProductSet :
                perProduct[p].count > 0 /\ Snapshots[i] = Record(p, perProduct[p])
  <2>1. i - 1 \in 1..Len(Known) /\ Known[i - 1] \in P
    BY <1>4, <1>9
  <2>2. Snapshots[i] = Record(Known[i - 1], perProduct[Known[i - 1]])
    BY <1>5, <1>9, <2>1
  <2> QED BY <2>1, <2>2 DEF P
<1>11. ASSUME NEW p \in ProductSet, perProduct[p].count > 0
       PROVE  \E i \in 2..Len(Snapshots) : Snapshots[i] = Record(p, perProduct[p])
  <2>1. PICK k \in 1..Len(Known) : Known[k] = p
    BY <1>3, <1>4, <1>11 DEF P
  <2>2. k + 1 \in 2..Len(Snapshots) /\ (k + 1) - 1 = k
    BY <1>4, <1>9
  <2>3. Snapshots[k + 1] = Record(p, perProduct[p])
    BY <1>5, <1>9, <2>1, <2>2
  <2> QED BY <2>2, <2>3
<1> QED
  BY <1>4, <1>9, <1>10, <1>11

\* The invariant of the means, as one step.
LEMMA MNext == MInv /\ [Next]_vars => MInv'
<1> SUFFICES ASSUME MInv, [Next]_vars PROVE MInv'
  OBVIOUS
<1>1. CASE AttemptOk
  BY <1>1, MOk
<1>2. CASE ~AttemptOk
  BY <1>2, HandKept, MQuiet DEF MInv
<1> QED
  BY <1>1, <1>2

\* The thread and its order.
LEMMA LoopTypes ==
    ASSUME LoopTypeOK, MInv, MInv', TInv, [Next]_vars
    PROVE  LoopTypeOK'
<1> USE DEF LoopTypeOK, inHand, Running
<1>1. pc' = "attempt" => order' # NoOrder
  BY ScopesAssumption DEF MInv, InHand, NoOrder
<1>2. 0 \in 0..MaxAttempts /\ 1 \in 0..MaxAttempts
  BY MaxAttemptsAssumption
<1>3. CASE \E product \in ProductSet, price \in Prices : PollOrder(product, price)
  <2>1. PICK product \in ProductSet, price \in Prices : PollOrder(product, price)
    BY <1>3
  <2> QED BY <1>1, <1>2, <2>1 DEF PollOrder, Read
<1>4. CASE PollBad \/ PollTimeout \/ PollError
  BY <1>1, <1>4 DEF PollBad, Read, PollTimeout, PollError, NextRound
<1>5. CASE AttemptOk
  BY <1>1, <1>2, <1>5 DEF AttemptOk, PutDown
<1>6. CASE AttemptRetried
  <2>1. attempt' \in 0..MaxAttempts
    BY <1>6, MaxAttemptsAssumption DEF AttemptRetried, TInv, Away, ShouldRetry
  <2> QED BY <1>1, <1>6, <2>1 DEF AttemptRetried
<1>7. CASE AttemptsExhausted \/ ProduceLetter
  BY <1>1, <1>7 DEF AttemptsExhausted, ProduceLetter
<1>8. CASE ProduceRaises \/ FlushEnds \/ FlushTimesOut
  BY <1>1, <1>2, <1>8 DEF ProduceRaises, Escape, FlushEnds, FlushTimesOut, PutDown
<1>9. CASE EmitStart \/ EmitNot \/ EmitRecord \/ EmitDrops \/ EmitEnds
  BY <1>1, <1>9 DEF EmitStart, EmitNot, EmitRecord, EmitDrops, EmitEnds, AfterEmission,
                    NextRound
<1>10. CASE CloseFlush
  BY <1>1, <1>10 DEF CloseFlush
<1>11. CASE Deliver
  BY <1>1, <1>11 DEF Deliver
<1>12. CASE Lose
  BY <1>1, <1>12 DEF Lose
<1>13. CASE FirstSignal
  BY <1>1, <1>13 DEF FirstSignal, Signalled
<1>14. CASE SecondSignal \/ EmitRaises
  BY <1>1, <1>2, <1>14 DEF SecondSignal, EmitRaises, Signalled, CutShort, PutDown
<1>15. CASE UNCHANGED vars
  BY <1>15 DEF vars
<1> QED
  BY <1>3, <1>4, <1>5, <1>6, <1>7, <1>8, <1>9, <1>10, <1>11, <1>12, <1>13, <1>14, <1>15
  DEF Next, ThreadStep

\* The age at which ages are no longer told apart.
LEMMA MaxAgeType == MaxAge \in Nat
<1>1. LongestRound \in Nat
  BY DelaysAddUp, MaxAttemptsAssumption
<1> QED
  BY <1>1, PublisherAssumption, PublisherBounds DEF MaxAge

\* The age of the oldest order that waits.
LEMMA AgeType ==
    ASSUME age \in -1..MaxAge + 1, TInv, [Next]_vars
    PROVE  age' \in -1..MaxAge + 1
<1> USE DEF clock
<1>1. MaxAge \in Nat
  BY MaxAgeType
<1>2. age' \in {age, -1, 0} => age' \in -1..MaxAge + 1
  BY <1>1
<1>3. ASSUME NEW t \in Nat, Pass(t)
      PROVE  age' \in -1..MaxAge + 1
  BY <1>1, <1>3 DEF Pass, Least
<1>4. CASE \/ \E product \in ProductSet, price \in Prices : PollOrder(product, price)
           \/ PollBad \/ PollTimeout \/ PollError
  BY <1>3, <1>4 DEF PollOrder, PollBad, Read, PollTimeout, PollError, Polled
<1>5. CASE AttemptRetried
  <2>1. PICK t \in Delays(attempt) : PassAway(t)
    BY <1>5 DEF AttemptRetried
  <2>2. t \in Nat
    BY <1>5, <2>1, DelayBounds, MaxAttemptsAssumption DEF AttemptRetried, TInv, Away
  <2> QED BY <1>3, <2>1, <2>2 DEF PassAway
<1>6. CASE FlushEnds \/ FlushTimesOut
  BY <1>3, <1>6, PublisherAssumption DEF FlushEnds, FlushTimesOut, PassAway
<1>7. CASE AttemptOk \/ EmitStart
  BY <1>2, <1>7 DEF AttemptOk, EmitStart
<1>8. CASE AttemptsExhausted \/ ProduceLetter \/ ProduceRaises
  BY <1>2, <1>8 DEF AttemptsExhausted, ProduceLetter, ProduceRaises
<1>9. CASE EmitNot \/ EmitRecord \/ EmitDrops \/ EmitEnds \/ CloseFlush
  BY <1>2, <1>9 DEF EmitNot, EmitRecord, EmitDrops, EmitEnds, CloseFlush
<1>10. CASE \/ Deliver \/ Lose \/ FirstSignal \/ SecondSignal \/ EmitRaises
            \/ UNCHANGED vars
  BY <1>2, <1>10
  DEF Deliver, Lose, FirstSignal, SecondSignal, EmitRaises, Signalled, vars
<1> QED
  BY <1>4, <1>5, <1>6, <1>7, <1>8, <1>9, <1>10 DEF Next, ThreadStep

\* The records on their way, and those that have arrived.
LEMMA EgressTypes ==
    ASSUME EgressTypeOK, FiguresTypeOK, [Next]_vars
    PROVE  EgressTypeOK'
<1> USE DEF EgressTypeOK, egress
<1> DEFINE Items == TopicRecord \union {Letter}
<1>1. /\ rest \in Seq(TopicRecord) /\ queue \in Seq(Items) /\ Len(queue) \in Nat
      /\ room \in Nat
  BY PublisherAssumption
<1>2. <<>> \in Seq(TopicRecord)
  OBVIOUS
<1> HIDE DEF Items
<1>3. /\ rest # <<>> => Head(rest) \in Items /\ Tail(rest) \in Seq(TopicRecord)
      /\ queue # <<>> => /\ Head(queue) \in Items /\ Tail(queue) \in Seq(Items)
                         /\ Len(Tail(queue)) = Len(queue) - 1
      /\ \A x \in Items : /\ Append(queue, x) \in Seq(Items)
                          /\ Len(Append(queue, x)) = Len(queue) + 1
  <2>1. rest # <<>> => Head(rest) \in TopicRecord /\ Tail(rest) \in Seq(TopicRecord)
    BY <1>1
  <2>2. rest # <<>> => Head(rest) \in Items
    BY <2>1 DEF Items
  <2> QED BY <1>1, <2>1, <2>2
<1>4. CASE EmitStart
  BY <1>4, SnapshotRecords DEF EmitStart
<1>5. CASE EmitRecord
  <2>1. queue' = Append(queue, Head(rest)) /\ Head(rest) \in Items
    BY <1>3, <1>5 DEF EmitRecord
  <2>2. queue' \in Seq(Items) /\ Len(queue') = Len(queue) + 1
    BY <1>3, <2>1
  <2>3. Len(queue') + reports' <= room'
    BY <1>1, <1>5, <2>2 DEF EmitRecord, Room
  <2>4. queue' \in Seq(TopicRecord \union {Letter})
    BY <2>2 DEF Items
  <2> QED BY <1>3, <1>5, <2>3, <2>4 DEF EmitRecord
<1>6. CASE EmitDrops \/ EmitEnds
  <2>1. UNCHANGED <<queue, room, latest>> /\ reports' = 0 /\ rest' = <<>>
    BY <1>6 DEF EmitDrops, EmitEnds
  <2>2. Len(queue') + reports' <= room'
    BY <1>1, <2>1
  <2> QED BY <1>2, <2>1, <2>2
<1>7. CASE ProduceLetter
  <2>1. queue' = Append(queue, Letter) /\ Letter \in Items
    BY <1>7 DEF ProduceLetter, Items
  <2>2. queue' \in Seq(Items) /\ Len(queue') = Len(queue) + 1
    BY <1>3, <2>1
  <2>3. Len(queue') + reports' <= room'
    BY <1>1, <1>7, <2>2 DEF ProduceLetter, Room
  <2>4. queue' \in Seq(TopicRecord \union {Letter})
    BY <2>2 DEF Items
  <2> QED BY <1>7, <2>3, <2>4 DEF ProduceLetter
<1>8. CASE Deliver
  <2>1. /\ queue' = Tail(queue) /\ queue # <<>> /\ reports' = reports + 1
        /\ room' = room /\ rest' = rest
    BY <1>8 DEF Deliver
  <2>2. queue' \in Seq(TopicRecord \union {Letter}) /\ Len(queue') = Len(queue) - 1
    BY <1>3, <2>1 DEF Items
  <2>3. latest' \in [Scopes -> TopicRecord]
    <3>1. Head(queue) \in TopicRecord \/ Head(queue) = Letter
      BY <1>3, <2>1 DEF Items
    <3> QED BY <1>8, <3>1 DEF Deliver
  <2> QED BY <1>1, <2>1, <2>2, <2>3
<1>9. CASE Lose
  <2>1. /\ queue' = Tail(queue) /\ queue # <<>> /\ reports' = reports + 1
        /\ room' = room /\ rest' = rest /\ latest' = latest
    BY <1>9 DEF Lose
  <2>2. queue' \in Seq(TopicRecord \union {Letter}) /\ Len(queue') = Len(queue) - 1
    BY <1>3, <2>1 DEF Items
  <2> QED BY <1>1, <2>1, <2>2
<1>10. CASE FlushEnds \/ FlushTimesOut \/ CloseFlush
  BY <1>1, <1>10 DEF FlushEnds, FlushTimesOut, CloseFlush
<1>11. CASE \/ \E product \in ProductSet, price \in Prices : PollOrder(product, price)
            \/ PollBad \/ PollTimeout \/ PollError
  BY <1>11 DEF PollOrder, PollBad, Read, PollTimeout, PollError
<1>12. CASE AttemptOk \/ AttemptRetried \/ AttemptsExhausted \/ EmitNot
  BY <1>12 DEF AttemptOk, AttemptRetried, AttemptsExhausted, EmitNot
<1>13. CASE ProduceRaises
  BY <1>2, <1>13 DEF ProduceRaises, Escape
<1>14. CASE FirstSignal \/ SecondSignal \/ EmitRaises
  BY <1>2, <1>14 DEF FirstSignal, SecondSignal, EmitRaises, Signalled, CutShort
<1>15. CASE UNCHANGED vars
  BY <1>15 DEF vars
<1> QED
  BY <1>4, <1>5, <1>6, <1>7, <1>8, <1>9, <1>10, <1>11, <1>12, <1>13, <1>14, <1>15
  DEF Next, ThreadStep

\* The bounds.
LEMMA BoundTypes ==
    ASSUME [Next]_vars,
           messages \in 0..MaxMessages, errors \in 0..MaxErrors,
           losses \in 0..MaxLosses, signals \in 0..MaxSignals
    PROVE  /\ messages' \in 0..MaxMessages /\ errors' \in 0..MaxErrors
           /\ losses' \in 0..MaxLosses /\ signals' \in 0..MaxSignals
<1> USE PublisherBounds DEF bounds
<1>1. CASE \/ \E product \in ProductSet, price \in Prices : PollOrder(product, price)
           \/ PollBad \/ PollTimeout \/ PollError
  BY <1>1 DEF PollOrder, PollBad, Read, PollTimeout, PollError
<1>2. CASE AttemptOk \/ AttemptRetried \/ AttemptsExhausted \/ EmitNot
  BY <1>2 DEF AttemptOk, AttemptRetried, AttemptsExhausted, EmitNot
<1>3. CASE ProduceLetter \/ ProduceRaises \/ FlushEnds \/ FlushTimesOut
  BY <1>3 DEF ProduceLetter, ProduceRaises, FlushEnds, FlushTimesOut
<1>4. CASE EmitStart \/ EmitRecord \/ EmitDrops \/ EmitEnds \/ CloseFlush
  BY <1>4 DEF EmitStart, EmitRecord, EmitDrops, EmitEnds, CloseFlush
<1>5. CASE Deliver \/ Lose
  BY <1>5 DEF Deliver, Lose
<1>6. CASE FirstSignal \/ SecondSignal \/ EmitRaises \/ UNCHANGED vars
  BY <1>6 DEF FirstSignal, SecondSignal, EmitRaises, Signalled, vars
<1> QED
  BY <1>1, <1>2, <1>3, <1>4, <1>5, <1>6 DEF Next, ThreadStep

YInv == MInv /\ TInv /\ TypeOK

\* The initial state.
LEMMA YInit == Init => YInv
<1> SUFFICES ASSUME Init PROVE YInv
  OBVIOUS
<1>1. MInv /\ TInv
  BY MInit, TInit
<1>2. LoopTypeOK
  <2>1. 0 \in 0..MaxAttempts
    BY MaxAttemptsAssumption
  <2> QED BY <2>1 DEF Init, LoopTypeOK, Running
<1>3. FiguresTypeOK
  BY <1>1 DEF Init, FiguresTypeOK, MInv
<1>4. ClockTypeOK
  <2>1. MaxAge \in Nat
    BY MaxAgeType
  <2>2. age = -1 /\ gap = 0 /\ elapsed = 0
    BY DEF Init
  <2>3. age \in -1..MaxAge + 1
    BY <2>1, <2>2
  <2>4. elapsed \in 0..Interval
    BY <2>2, PublisherAssumption
  <2> QED BY <2>2, <2>3, <2>4 DEF ClockTypeOK
<1>5. EgressTypeOK
  <2>1. latest \in [Scopes -> TopicRecord]
    <3>1. Fresh \in Stats
      BY DEF Fresh, Stats
    <3>2. \A s \in Scopes : Record(s, Fresh) \in TopicRecord
      BY <3>1, RecordType
    <3> QED BY <3>2 DEF Init
  <2>2. rest \in Seq(TopicRecord) /\ queue \in Seq(TopicRecord \union {Letter})
    BY DEF Init
  <2>3. room \in Nat /\ Len(queue) = 0
    BY PublisherAssumption DEF Init
  <2> QED BY <2>1, <2>2, <2>3 DEF Init, EgressTypeOK
<1>6. /\ messages \in 0..MaxMessages /\ errors \in 0..MaxErrors
      /\ losses \in 0..MaxLosses /\ signals \in 0..MaxSignals
  BY PublisherBounds DEF Init
<1> QED
  BY <1>1, <1>2, <1>3, <1>4, <1>5, <1>6 DEF YInv, TypeOK

LEMMA YNext == YInv /\ [Next]_vars => YInv'
<1> SUFFICES ASSUME YInv, [Next]_vars PROVE YInv'
  OBVIOUS
<1>1. MInv /\ TInv /\ MInv' /\ TInv'
  BY MNext, TNext DEF YInv
<1>2. LoopTypeOK'
  BY <1>1, LoopTypes DEF YInv, TypeOK
<1>3. FiguresTypeOK'
  BY <1>1 DEF MInv, TInv, Ages, FiguresTypeOK
<1>4. ClockTypeOK'
  <2>1. age' \in -1..MaxAge + 1
    BY <1>1, AgeType DEF YInv, TypeOK, ClockTypeOK
  <2>2. MaxAge' = MaxAge
    BY DEF MaxAge, LongestRound, Spread
  <2>3. elapsed' \in 0..Interval /\ gap' \in Nat
    BY <1>1 DEF TInv, Ages, Away
  <2> QED BY <2>1, <2>2, <2>3 DEF ClockTypeOK
<1>5. EgressTypeOK'
  BY EgressTypes DEF YInv, TypeOK
<1>6. /\ messages' \in 0..MaxMessages /\ errors' \in 0..MaxErrors
      /\ losses' \in 0..MaxLosses /\ signals' \in 0..MaxSignals
  BY BoundTypes DEF YInv, TypeOK
<1> QED
  BY <1>1, <1>2, <1>3, <1>4, <1>5, <1>6 DEF YInv, TypeOK

\* Every variable keeps its type: with any products, prices, timings and room.
THEOREM PublisherTypes == Spec => []TypeOK
<1>1. YInv => TypeOK
  BY DEF YInv
<1> QED
  BY YInit, YNext, <1>1, PTL DEF Spec

----------------------------------------------------------------------------
(* Sequences of records. *)

LEMMA TailFacts ==
    ASSUME NEW X, NEW a \in Seq(X), a # <<>>
    PROVE  /\ Len(a) \in Nat /\ Len(a) >= 1 /\ Head(a) = a[1] /\ Head(a) \in X
           /\ Tail(a) \in Seq(X) /\ Len(Tail(a)) = Len(a) - 1
           /\ \A i \in 1..Len(a) - 1 : Tail(a)[i] = a[i + 1]
OBVIOUS

LEMMA AppendFacts ==
    ASSUME NEW X, NEW a \in Seq(X), NEW x \in X
    PROVE  /\ Append(a, x) \in Seq(X) /\ Len(Append(a, x)) = Len(a) + 1
           /\ Len(a) \in Nat
           /\ \A i \in 1..Len(a) : Append(a, x)[i] = a[i]
           /\ Append(a, x)[Len(a) + 1] = x
OBVIOUS

LEMMA ConcatFacts ==
    ASSUME NEW X, NEW a \in Seq(X), NEW b \in Seq(X)
    PROVE  /\ a \o b \in Seq(X) /\ Len(a \o b) = Len(a) + Len(b)
           /\ Len(a) \in Nat /\ Len(b) \in Nat
           /\ \A i \in 1..Len(a) : (a \o b)[i] = a[i]
           /\ \A i \in Len(a) + 1..Len(a) + Len(b) : (a \o b)[i] = b[i - Len(a)]
           /\ a \o <<>> = a
BY ConcatProperties

\* The first element leaves.
LEMMA TailOfConcat ==
    ASSUME NEW X, NEW a \in Seq(X), NEW b \in Seq(X), a # <<>>
    PROVE  Tail(a \o b) = Tail(a) \o b /\ Head(a \o b) = Head(a) /\ a \o b # <<>>
OBVIOUS

\* An element moves from one sequence to the one in front of it.
LEMMA MovesOver ==
    ASSUME NEW X, NEW a \in Seq(X), NEW b \in Seq(X), b # <<>>
    PROVE  Append(a, Head(b)) \o Tail(b) = a \o b
OBVIOUS

----------------------------------------------------------------------------
(* What a reader of the aggregates topic sees. *)

Items == TopicRecord \union {Letter}

\* All that is on its way to the brokers, and the rest of the snapshot behind it.
Outgoing == queue \o rest

\* The consumer's own figures.
Current(s) == IF s = All THEN Record(All, overall) ELSE Record(s, perProduct[s])

\* Among the first k of q there is no record of scope s, or the one at place i is
\* the last.
NoneOf(q, k, s) == \A j \in 1..k : q[j] # Letter => q[j].scope # s

LastOf(q, k, s, i) ==
    /\ i \in 1..k /\ q[i] # Letter /\ q[i].scope = s
    /\ \A j \in i + 1..k : q[j] # Letter => q[j].scope # s

\* The record x is what the topic shows for scope s when the first k of q have been
\* delivered on top of l.
Shows(x, l, q, k, s) ==
    \/ NoneOf(q, k, s) /\ x = l[s]
    \/ \E i \in 1..k : LastOf(q, k, s, i) /\ x = q[i]

\* The topic once item x has been delivered.
Delivered(l, x) == IF x = Letter THEN l ELSE [l EXCEPT ![x.scope] = x]

\* A delivery changes nothing in what will be shown.
LEMMA ShowsShift ==
    ASSUME NEW q \in Seq(Items), q # <<>>, NEW l \in [Scopes -> TopicRecord],
           NEW k \in 0..Len(q) - 1, NEW s \in Scopes, NEW x,
           Shows(x, Delivered(l, Head(q)), Tail(q), k, s)
    PROVE  Shows(x, l, q, k + 1, s)
<1> DEFINE m == Delivered(l, Head(q))
           t == Tail(q)
<1>1. /\ Len(q) \in Nat /\ Head(q) = q[1] /\ q[1] \in Items /\ k \in Nat
      /\ \A i \in 1..k : t[i] = q[i + 1]
  BY TailFacts
<1>2. /\ q[1] = Letter => m = l
      /\ q[1] # Letter => m[s] = IF s = q[1].scope THEN q[1] ELSE l[s]
  BY <1>1 DEF Delivered
<1>3. Shows(x, m, t, k, s)
  OBVIOUS
<1> HIDE DEF m, t
<1>4. ASSUME NEW j \in 2..k + 1
      PROVE  j - 1 \in 1..k /\ q[j] = t[j - 1]
  BY <1>1
<1>5. CASE NoneOf(t, k, s) /\ x = m[s]
  <2>1. \A j \in 2..k + 1 : q[j] # Letter => q[j].scope # s
    BY <1>4, <1>5 DEF NoneOf
  <2>2. CASE q[1] # Letter /\ q[1].scope = s
    <3>1. LastOf(q, k + 1, s, 1) /\ 1 \in 1..k + 1
      BY <1>1, <2>1, <2>2 DEF LastOf
    <3>2. x = q[1]
      BY <1>2, <1>5, <2>2
    <3> QED BY <3>1, <3>2 DEF Shows
  <2>3. CASE q[1] = Letter \/ q[1].scope # s
    <3>1. x = l[s]
      BY <1>2, <1>5, <2>3
    <3>2. NoneOf(q, k + 1, s)
      BY <1>1, <2>1, <2>3 DEF NoneOf
    <3> QED BY <3>1, <3>2 DEF Shows
  <2> QED BY <2>2, <2>3
<1>6. CASE \E i \in 1..k : LastOf(t, k, s, i) /\ x = t[i]
  <2>1. PICK i \in 1..k : LastOf(t, k, s, i) /\ x = t[i]
    BY <1>6
  <2>2. i + 1 \in 1..k + 1 /\ q[i + 1] = t[i]
    BY <1>1
  <2>3. \A j \in i + 2..k + 1 : q[j] # Letter => q[j].scope # s
    <3> SUFFICES ASSUME NEW j \in i + 2..k + 1, q[j] # Letter
                 PROVE  q[j].scope # s
      OBVIOUS
    <3>1. j - 1 \in i + 1..k /\ j \in 2..k + 1
      BY <1>1
    <3> QED BY <1>4, <2>1, <3>1 DEF LastOf
  <2>4. LastOf(q, k + 1, s, i + 1)
    <3>1. (i + 1) + 1 = i + 2
      OBVIOUS
    <3> QED BY <2>1, <2>2, <2>3, <3>1 DEF LastOf
  <2> QED BY <2>1, <2>2, <2>4 DEF Shows
<1> QED
  BY <1>3, <1>5, <1>6 DEF Shows

\* Only the first k count.
LEMMA ShowsPrefix ==
    ASSUME NEW q, NEW r, NEW k \in Nat, NEW l, NEW s, NEW x,
           \A i \in 1..k : q[i] = r[i],
           Shows(x, l, r, k, s)
    PROVE  Shows(x, l, q, k, s)
<1>1. NoneOf(r, k, s) => NoneOf(q, k, s)
  BY DEF NoneOf
<1>2. \A i \in 1..k : LastOf(r, k, s, i) => LastOf(q, k, s, i)
  BY DEF LastOf
<1> QED
  BY <1>1, <1>2 DEF Shows

\* A letter shows nothing.
LEMMA ShowsLetter ==
    ASSUME NEW q, NEW k \in Nat, NEW l, NEW s, NEW x,
           q[k + 1] = Letter, Shows(x, l, q, k + 1, s)
    PROVE  Shows(x, l, q, k, s)
<1>1. NoneOf(q, k + 1, s) => NoneOf(q, k, s)
  BY DEF NoneOf
<1>2. ASSUME NEW i \in 1..k + 1, LastOf(q, k + 1, s, i)
      PROVE  i \in 1..k /\ LastOf(q, k, s, i)
  <2>1. i # k + 1
    BY <1>2 DEF LastOf
  <2> QED BY <1>2, <2>1 DEF LastOf
<1> QED
  BY <1>1, <1>2 DEF Shows

\* Before anything is delivered the topic shows what it holds.
LEMMA ShowsNow ==
    ASSUME NEW q, NEW l, NEW s
    PROVE  Shows(l[s], l, q, 0, s)
BY DEF Shows, NoneOf

----------------------------------------------------------------------------
(* How what is on its way moves. *)

Quiet ==
    /\ Outgoing' = Outgoing /\ latest' = latest
    /\ (intact' /\ sinceLast' = 0) => intact /\ sinceLast = 0 /\ UNCHANGED aggregate
    /\ losses' = 0 => losses = 0

\* The first is delivered, or lost: a letter without a trace, a record not.
Leaves ==
    /\ Outgoing # <<>> /\ Outgoing' = Tail(Outgoing)
    /\ UNCHANGED aggregate /\ UNCHANGED sinceLast
    /\ \/ /\ latest' = Delivered(latest, Head(Outgoing))
          /\ intact' => intact
          /\ losses' = 0 => losses = 0
       \/ /\ latest' = latest
          /\ ~intact' /\ losses' # 0

LetterQueued ==
    /\ Outgoing' = Append(Outgoing, Letter)
    /\ latest' = latest
    /\ UNCHANGED aggregate /\ UNCHANGED <<sinceLast, intact, losses>>

\* The rest of the snapshot is dropped.
Dropped ==
    /\ Outgoing' = queue /\ latest' = latest
    /\ UNCHANGED aggregate /\ UNCHANGED losses
    /\ ~intact'

\* A snapshot follows what is still in the queue.
Emission ==
    /\ Outgoing = queue /\ Outgoing' = queue \o Snapshots /\ latest' = latest
    /\ overall.count > 0
    /\ UNCHANGED aggregate /\ UNCHANGED losses

\* Outside an emission no snapshot is under way.
RestInv == rest # <<>> => pc = "records"

\* Every step moves the records in one of these ways (apps/consumer.py:182-195).
LEMMA Movements ==
    ASSUME YInv, RestInv, [Next]_vars
    PROVE  /\ RestInv'
           /\ Quiet \/ Leaves \/ LetterQueued \/ Dropped \/ Emission
<1> USE DEF RestInv
<1>1. /\ rest \in Seq(Items) /\ queue \in Seq(Items) /\ losses \in Nat
      /\ queue \o <<>> = queue
  <2>1. /\ rest \in Seq(TopicRecord) /\ queue \in Seq(TopicRecord \union {Letter})
        /\ losses \in Nat
    BY PublisherBounds DEF YInv, TypeOK, EgressTypeOK
  <2>2. TopicRecord \subseteq Items
    BY DEF Items
  <2>3. rest \in Seq(Items)
    BY <2>1, <2>2, SeqMonotonic
  <2>4. queue \in Seq(Items)
    BY <2>1 DEF Items
  <2> QED BY <2>1, <2>3, <2>4, ConcatFacts
<1>2. CASE Deliver
  <2>1. /\ queue # <<>> /\ queue' = Tail(queue) /\ rest' = rest
        /\ latest' = Delivered(latest, Head(queue))
        /\ UNCHANGED aggregate /\ UNCHANGED <<pc, sinceLast, intact, losses>>
    BY <1>2 DEF Deliver, Delivered, bounds
  <2>2. /\ Tail(Outgoing) = Tail(queue) \o rest /\ Head(Outgoing) = Head(queue)
        /\ Outgoing # <<>>
    BY <1>1, <2>1, TailOfConcat DEF Outgoing
  <2>3. Outgoing' = Tail(Outgoing)
    BY <2>1, <2>2 DEF Outgoing
  <2> QED BY <2>1, <2>2, <2>3 DEF Leaves
<1>3. CASE Lose
  <2>1. /\ queue # <<>> /\ queue' = Tail(queue) /\ rest' = rest /\ latest' = latest
        /\ UNCHANGED aggregate /\ UNCHANGED <<pc, sinceLast>>
        /\ losses' = losses + 1
        /\ intact' = (intact /\ Head(queue) = Letter)
    BY <1>3 DEF Lose
  <2>2. /\ Tail(Outgoing) = Tail(queue) \o rest /\ Head(Outgoing) = Head(queue)
        /\ Outgoing # <<>>
    BY <1>1, <2>1, TailOfConcat DEF Outgoing
  <2>3. Outgoing' = Tail(Outgoing)
    BY <2>1, <2>2 DEF Outgoing
  <2>4. losses' # 0
    BY <1>1, <2>1
  <2>5. CASE Head(queue) = Letter
    <3>1. latest' = Delivered(latest, Head(Outgoing)) /\ (intact' => intact)
      BY <2>1, <2>2, <2>5 DEF Delivered
    <3> QED BY <2>1, <2>2, <2>3, <2>4, <3>1 DEF Leaves
  <2>6. CASE Head(queue) # Letter
    BY <2>1, <2>2, <2>3, <2>4, <2>6 DEF Leaves
  <2> QED BY <2>1, <2>5, <2>6
<1>4. CASE ProduceLetter
  <2>1. /\ queue' = Append(queue, Letter) /\ rest' = rest /\ rest = <<>> /\ latest' = latest
        /\ UNCHANGED aggregate /\ UNCHANGED <<sinceLast, intact, losses>>
    BY <1>4 DEF ProduceLetter, bounds
  <2>2. queue' \in Seq(Items)
    BY <1>1, <2>1 DEF Items
  <2>3. Outgoing' = queue' /\ Outgoing = queue
    BY <1>1, <2>1, <2>2, ConcatFacts DEF Outgoing
  <2> QED BY <2>1, <2>3 DEF LetterQueued
<1>5. CASE EmitStart
  <2>1. /\ rest = <<>> /\ rest' = Snapshots /\ queue' = queue /\ latest' = latest
        /\ overall.count > 0
        /\ UNCHANGED aggregate /\ UNCHANGED losses /\ pc' = "records"
    BY <1>5 DEF EmitStart, egress, bounds
  <2>2. Outgoing = queue /\ Outgoing' = queue \o Snapshots
    BY <1>1, <2>1 DEF Outgoing
  <2> QED BY <2>1, <2>2 DEF Emission
<1>6. CASE EmitRecord
  <2>1. /\ rest # <<>> /\ queue' = Append(queue, Head(rest)) /\ rest' = Tail(rest)
        /\ latest' = latest /\ UNCHANGED aggregate
        /\ UNCHANGED <<pc, sinceLast, intact, losses>>
    BY <1>6 DEF EmitRecord, bounds
  <2>2. Outgoing' = Outgoing
    BY <1>1, <2>1, MovesOver DEF Outgoing
  <2> QED BY <2>1, <2>2 DEF Quiet
<1>7. CASE EmitDrops
  <2>1. /\ rest' = <<>> /\ queue' = queue /\ latest' = latest /\ ~intact'
        /\ UNCHANGED aggregate /\ UNCHANGED losses
    BY <1>7 DEF EmitDrops, bounds
  <2>2. Outgoing' = queue
    BY <1>1, <2>1 DEF Outgoing
  <2> QED BY <2>1, <2>2 DEF Dropped
<1>8. CASE SecondSignal \/ EmitRaises
  <2>1. /\ rest' = <<>> /\ queue' = queue /\ latest' = latest /\ ~intact'
        /\ UNCHANGED aggregate /\ UNCHANGED losses
    BY <1>8 DEF SecondSignal, EmitRaises, Signalled, CutShort, egress, bounds
  <2>2. Outgoing' = queue
    BY <1>1, <2>1 DEF Outgoing
  <2> QED BY <2>1, <2>2 DEF Dropped
<1>9. CASE ProduceRaises
  <2>1. /\ rest = <<>> /\ rest' = <<>> /\ queue' = queue /\ latest' = latest
        /\ UNCHANGED aggregate /\ UNCHANGED <<sinceLast, intact, losses>>
    BY <1>9 DEF ProduceRaises, Escape, egress, bounds
  <2> QED BY <2>1 DEF Quiet, Outgoing
<1>10. CASE CloseFlush
  <2>1. /\ rest' = rest /\ queue' = queue /\ latest' = latest
        /\ UNCHANGED aggregate /\ UNCHANGED sinceLast
        /\ \/ UNCHANGED <<losses, intact>>
           \/ losses' = losses + 1 /\ intact' = FALSE
        /\ pc = "closeFlush"
    BY <1>10 DEF CloseFlush
  <2> QED BY <1>1, <2>1 DEF Quiet, Outgoing
<1>11. CASE AttemptOk
  <2>1. /\ rest' = rest /\ queue' = queue /\ latest' = latest /\ UNCHANGED losses
        /\ pc = "attempt" /\ sinceLast' = sinceLast + 1
    BY <1>11 DEF AttemptOk, Noted, egress, bounds
  <2>2. sinceLast' # 0
    BY <2>1 DEF YInv, TypeOK, FiguresTypeOK
  <2> QED BY <2>1, <2>2 DEF Quiet, Outgoing
<1>12. CASE FlushEnds \/ FlushTimesOut
  <2>1. /\ rest' = rest /\ queue' = queue /\ latest' = latest
        /\ UNCHANGED aggregate /\ UNCHANGED <<sinceLast, intact>>
        /\ losses' \in {losses, losses + 1}
        /\ pc = "flush"
    BY <1>12 DEF FlushEnds, FlushTimesOut, bounds
  <2> QED BY <1>1, <2>1 DEF Quiet, Outgoing
<1>13. CASE \/ \E product \in ProductSet, price \in Prices : PollOrder(product, price)
            \/ PollBad \/ PollTimeout \/ PollError
  <2>1. /\ rest' = rest /\ queue' = queue /\ latest' = latest
        /\ UNCHANGED aggregate /\ UNCHANGED <<sinceLast, intact, losses>>
        /\ pc = "poll"
    BY <1>13 DEF PollOrder, PollBad, Read, PollTimeout, PollError, Polled, egress, bounds
  <2> QED BY <2>1 DEF Quiet, Outgoing
<1>14. CASE AttemptRetried \/ AttemptsExhausted \/ EmitNot \/ FirstSignal
  <2>1. /\ rest' = rest /\ queue' = queue /\ latest' = latest
        /\ UNCHANGED aggregate /\ UNCHANGED <<sinceLast, intact, losses>>
        /\ pc' = pc \/ pc \in {"attempt", "emit"}
    BY <1>14 DEF AttemptRetried, AttemptsExhausted, EmitNot, FirstSignal, Signalled,
                 egress, bounds
  <2> QED BY <2>1 DEF Quiet, Outgoing
<1>15. CASE EmitEnds
  <2>1. /\ rest' = rest /\ rest = <<>> /\ queue' = queue /\ latest' = latest
        /\ UNCHANGED aggregate /\ UNCHANGED <<sinceLast, intact, losses>>
    BY <1>15 DEF EmitEnds, bounds
  <2> QED BY <2>1 DEF Quiet, Outgoing
<1>16. CASE UNCHANGED vars
  <2>1. /\ rest' = rest /\ queue' = queue /\ latest' = latest /\ pc' = pc
        /\ UNCHANGED aggregate /\ UNCHANGED <<sinceLast, intact, losses>>
    BY <1>16 DEF vars, egress, bounds
  <2> QED BY <2>1 DEF Quiet, Outgoing
<1> QED
  BY <1>2, <1>3, <1>4, <1>5, <1>6, <1>7, <1>8, <1>9, <1>10, <1>11, <1>12, <1>13, <1>14,
     <1>15, <1>16 DEF Next, ThreadStep

----------------------------------------------------------------------------
(* Nothing on its way, and nothing in the topic, is ahead of the consumer. *)

Figures == [s \in Scopes |-> Current(s).count]

FreshInv == \A s \in Scopes : Current(s).count = 0 => Current(s) = Record(s, Fresh)

LatestInv ==
    \A s \in Scopes :
        /\ latest[s].count <= Current(s).count
        /\ latest[s].count = 0 => latest[s] = Record(s, Fresh)

Behindhand(x) == x # Letter => x.count > 0 /\ x.count <= Figures[x.scope]

OutgoingInv == \A i \in 1..Len(Outgoing) : Behindhand(Outgoing[i])

BInv == RestInv /\ FreshInv /\ LatestInv /\ OutgoingInv

\* The figures of a scope.
LEMMA FigureType ==
    ASSUME NEW o \in Stats, NEW r \in [ProductSet -> Stats], NEW s \in Scopes
    PROVE  LET c == IF s = All THEN Record(All, o) ELSE Record(s, r[s])
           IN  /\ c \in TopicRecord /\ c.scope = s /\ c.count \in Nat
               /\ c.count = IF s = All THEN o.count ELSE r[s].count
<1>1. CASE s = All
  BY <1>1, RecordType DEF Stats
<1>2. CASE s # All
  <2>1. s \in ProductSet /\ r[s] \in Stats
    BY <1>2 DEF Scopes
  <2> QED BY <1>2, <2>1, RecordType DEF Stats
<1> QED
  BY <1>1, <1>2

LEMMA CurrentType ==
    ASSUME FiguresTypeOK, NEW s \in Scopes
    PROVE  /\ Current(s) \in TopicRecord /\ Current(s).scope = s
           /\ Current(s).count \in Nat
           /\ Current(s).count = IF s = All THEN overall.count ELSE perProduct[s].count
BY FigureType DEF FiguresTypeOK, Current

\* The figures only grow.
LEMMA CurrentGrows ==
    ASSUME YInv, YInv', FreshInv, [Next]_vars, NEW s \in Scopes
    PROVE  /\ Current(s).count \in Nat /\ Current(s)'.count \in Nat
           /\ Current(s).count <= Current(s)'.count
           /\ Current(s)'.count = 0 => Current(s)' = Record(s, Fresh)
<1>1. /\ Current(s).count \in Nat
      /\ Current(s).count = IF s = All THEN overall.count ELSE perProduct[s].count
  BY CurrentType DEF YInv, TypeOK
<1>2. /\ Current(s)'.count \in Nat
      /\ Current(s)'.count = IF s = All THEN overall'.count ELSE perProduct'[s].count
  <2>1. overall' \in Stats /\ perProduct' \in [ProductSet -> Stats]
    BY DEF YInv, MInv
  <2> QED BY <2>1, FigureType DEF Current
<1>3. CASE AttemptOk
  <2>0. PICK q \in ProductSet, v \in Nat : \E o, r :
          /\ overall' = o /\ Grown(overall, o, v)
          /\ perProduct' = [perProduct EXCEPT ![q] = r] /\ Grown(perProduct[q], r, v)
    BY <1>3, FiguresGrow DEF YInv
  <2>1. PICK o, r :
          /\ overall' = o /\ Grown(overall, o, v)
          /\ perProduct' = [perProduct EXCEPT ![q] = r] /\ Grown(perProduct[q], r, v)
    BY <2>0
  <2>2. overall'.count = overall.count + 1 /\ overall.count \in Nat
    BY <2>1 DEF Grown, YInv, MInv, Stats
  <2>3. s \in ProductSet =>
          perProduct'[s] = IF s = q THEN r ELSE perProduct[s]
    BY <2>1 DEF YInv, MInv
  <2>4. r.count = perProduct[q].count + 1 /\ perProduct[q].count \in Nat
    BY <2>1 DEF Grown, YInv, MInv, Stats
  <2>5. s # All => s \in ProductSet
    BY DEF Scopes
  <2>6. CASE s = All \/ s = q
    BY <1>1, <1>2, <2>2, <2>3, <2>4, <2>6
  <2>7. CASE s # All /\ s # q
    <3>1. Current(s)' = Current(s)
      BY <2>3, <2>5, <2>7 DEF Current
    <3> QED BY <1>1, <3>1 DEF FreshInv
  <2> QED BY <2>6, <2>7
<1>4. CASE ~AttemptOk
  <2>1. Current(s)' = Current(s)
    BY <1>4, HandKept DEF YInv, MInv, aggregate, Current
  <2> QED BY <1>1, <2>1 DEF FreshInv
<1> QED
  BY <1>3, <1>4

LEMMA OutgoingType ==
    ASSUME YInv
    PROVE  /\ Outgoing \in Seq(Items) /\ queue \in Seq(Items)
           /\ Len(queue) \in Nat /\ Len(Outgoing) \in Nat /\ Len(queue) <= Len(Outgoing)
           /\ \A i \in 1..Len(queue) : Outgoing[i] = queue[i]
           /\ latest \in [Scopes -> TopicRecord]
<1>1. /\ rest \in Seq(TopicRecord) /\ queue \in Seq(TopicRecord \union {Letter})
      /\ latest \in [Scopes -> TopicRecord]
  BY DEF YInv, TypeOK, EgressTypeOK
<1>2. queue \in Seq(Items) /\ TopicRecord \subseteq Items
  BY <1>1 DEF Items
<1>3. rest \in Seq(Items)
  BY <1>1, <1>2, SeqMonotonic
<1> QED
  BY <1>1, <1>2, <1>3, ConcatFacts DEF Outgoing

\* The items of q are those of the queue and a snapshot behind them.
SnapshotBehind(q) ==
    /\ q \in Seq(Items) /\ Len(queue) \in Nat
    /\ Len(q) \in Nat /\ Len(q) > Len(queue)
    /\ \A i \in 1..Len(queue) : q[i] = queue[i]
    /\ q[Len(queue) + 1] = Current(All) /\ Current(All) # Letter
    /\ \A i \in Len(queue) + 2..Len(q) :
         \E p \in ProductSet : q[i] = Current(p) /\ q[i] # Letter /\ q[i].scope = p
                               /\ q[i].count > 0
    /\ \A p \in ProductSet : perProduct[p].count > 0 =>
         \E i \in Len(queue) + 2..Len(q) : q[i] = Current(p) /\ Current(p) # Letter

LEMMA EmissionRecords ==
    ASSUME YInv, overall.count > 0, NEW q, q = queue \o Snapshots
    PROVE  SnapshotBehind(q)
<1> DEFINE n == Len(queue)
           z == Snapshots
<1>1. FiguresTypeOK
  BY DEF YInv, TypeOK
<1>2. /\ z \in Seq(TopicRecord) /\ Len(z) \in Nat
      /\ Len(z) >= 1 /\ z[1] = Record(All, overall)
      /\ \A i \in 2..Len(z) : \E p \in ProductSet :
            perProduct[p].count > 0 /\ z[i] = Record(p, perProduct[p])
      /\ \A p \in ProductSet : perProduct[p].count > 0 =>
            \E i \in 2..Len(z) : z[i] = Record(p, perProduct[p])
  BY <1>1, SnapshotRecords
<1>3. /\ Current(All) = Record(All, overall)
      /\ \A p \in ProductSet : Current(p) = Record(p, perProduct[p])
  BY ScopesAssumption DEF Current
<1>4. Letter.count = 0
  BY DEF Letter, Record, Fresh
<1>5. /\ Current(All) # Letter
      /\ \A p \in ProductSet : perProduct[p].count > 0 =>
            Current(p) # Letter /\ Current(p).scope = p /\ Current(p).count > 0
  <2>1. Current(All).count = overall.count
    BY <1>1, CurrentType DEF Scopes
  <2>2. ASSUME NEW p \in ProductSet
        PROVE  Current(p).count = perProduct[p].count /\ Current(p).scope = p
    BY <1>1, CurrentType, ScopesAssumption DEF Scopes
  <2>3. overall.count \in Nat
    BY <1>1 DEF FiguresTypeOK, Stats
  <2> QED BY <1>4, <2>1, <2>2, <2>3
<1> HIDE DEF z
<1>6. z \in Seq(Items) /\ queue \in Seq(Items) /\ n \in Nat
  <2>1. TopicRecord \subseteq Items
    BY DEF Items
  <2> QED BY <1>2, <2>1, SeqMonotonic, OutgoingType
<1>7. /\ q \in Seq(Items) /\ Len(q) = n + Len(z)
      /\ \A i \in 1..n : q[i] = queue[i]
      /\ \A i \in n + 1..n + Len(z) : q[i] = z[i - n]
  BY <1>6, ConcatFacts DEF z
<1> HIDE DEF n
<1>8. q[n + 1] = Current(All)
  <2>1. n + 1 \in n + 1..n + Len(z) /\ (n + 1) - n = 1
    BY <1>2, <1>6
  <2> QED BY <1>2, <1>3, <1>7, <2>1
<1>9. ASSUME NEW i \in n + 2..Len(q)
      PROVE  \E p \in ProductSet : q[i] = Current(p) /\ q[i] # Letter /\ q[i].scope = p
                                   /\ q[i].count > 0
  <2>1. i \in n + 1..n + Len(z) /\ i - n \in 2..Len(z)
    BY <1>2, <1>6, <1>7
  <2>2. PICK p \in ProductSet :
          perProduct[p].count > 0 /\ z[i - n] = Record(p, perProduct[p])
    BY <1>2, <2>1
  <2>3. q[i] = Current(p)
    BY <1>3, <1>7, <2>1, <2>2
  <2> QED BY <1>5, <2>2, <2>3
<1>10. ASSUME NEW p \in ProductSet, perProduct[p].count > 0
       PROVE  \E i \in n + 2..Len(q) : q[i] = Current(p) /\ Current(p) # Letter
  <2>1. PICK i \in 2..Len(z) : z[i] = Record(p, perProduct[p])
    BY <1>2, <1>10
  <2>2. n + i \in n + 2..Len(q) /\ n + i \in n + 1..n + Len(z) /\ (n + i) - n = i
    BY <1>2, <1>6, <1>7
  <2>3. q[n + i] = Current(p)
    BY <1>3, <1>7, <2>1, <2>2
  <2> QED BY <1>5, <1>10, <2>2, <2>3
<1>11. Len(q) \in Nat /\ Len(q) > n
  BY <1>2, <1>6, <1>7
<1> QED
  BY <1>5, <1>6, <1>7, <1>8, <1>9, <1>10, <1>11 DEF n, SnapshotBehind

\* The initial state.
LEMMA BInit == Init => BInv
<1> SUFFICES ASSUME Init PROVE BInv
  OBVIOUS
<1>1. rest = <<>> /\ queue = <<>> /\ latest = [s \in Scopes |-> Record(s, Fresh)]
  BY DEF Init
<1>2. \A s \in Scopes : Current(s) = Record(s, Fresh)
  BY DEF Init, Current, Scopes
<1>3. Len(Outgoing) = 0
  BY <1>1 DEF Outgoing
<1>4. \A s \in Scopes : latest[s] = Record(s, Fresh) /\ Record(s, Fresh).count = 0
  BY <1>1 DEF Record, Fresh
<1> QED
  BY <1>1, <1>2, <1>3, <1>4 DEF BInv, RestInv, FreshInv, LatestInv, OutgoingInv

\* What is behind the figures stays behind them.
LEMMA StaysBehind ==
    ASSUME YInv, YInv', BInv, [Next]_vars, NEW x \in Items, Behindhand(x)
    PROVE  x # Letter => x.count > 0 /\ x.count <= Figures'[x.scope]
<1> SUFFICES ASSUME x # Letter
             PROVE  x.count > 0 /\ x.count <= Figures'[x.scope]
  OBVIOUS
<1>1. x \in TopicRecord
  BY DEF Items
<1>2. x.count \in Nat /\ x.scope \in Scopes
  BY <1>1 DEF TopicRecord
<1>3. ASSUME NEW s \in Scopes
      PROVE  Figures[s] \in Nat /\ Figures'[s] \in Nat /\ Figures[s] <= Figures'[s]
  BY CurrentGrows DEF BInv, Figures
<1>4. x.count > 0 /\ x.count <= Figures[x.scope]
  BY DEF Behindhand
<1> QED
  BY <1>2, <1>3, <1>4

\* The topic and what is on its way stay behind the figures.
LEMMA BNext ==
    ASSUME YInv, YInv', BInv, [Next]_vars
    PROVE  BInv'
<1> DEFINE q == Outgoing
           r == Outgoing'
           ahead(x) == x # Letter => x.count > 0 /\ x.count <= Figures'[x.scope]
<1>1. RestInv' /\ (Quiet \/ Leaves \/ LetterQueued \/ Dropped \/ Emission)
  BY Movements DEF BInv
<1>2. FreshInv'
  BY CurrentGrows DEF FreshInv, BInv
<1>3. /\ q \in Seq(Items) /\ queue \in Seq(Items) /\ Len(q) \in Nat /\ Len(queue) \in Nat
      /\ Len(queue) <= Len(q) /\ \A i \in 1..Len(queue) : q[i] = queue[i]
      /\ latest \in [Scopes -> TopicRecord]
  BY OutgoingType
<1>4. ASSUME NEW i \in 1..Len(q)
      PROVE  ahead(q[i]) /\ q[i] \in Items
  <2>1. q[i] \in Items /\ Behindhand(q[i])
    BY <1>3 DEF BInv, OutgoingInv
  <2> HIDE DEF q
  <2> QED BY <2>1, StaysBehind
<1>5. ASSUME NEW s \in Scopes
      PROVE  /\ latest[s].count <= Current(s)'.count
             /\ latest[s].count = 0 => latest[s] = Record(s, Fresh)
  <2> DEFINE c == Current(s).count
             d == Current(s)'.count
  <2>1. c \in Nat /\ d \in Nat /\ c <= d
    BY CurrentGrows DEF BInv
  <2>2. latest[s].count <= c /\ (latest[s].count = 0 => latest[s] = Record(s, Fresh))
    BY DEF BInv, LatestInv
  <2>3. latest[s].count \in Nat
    BY <1>3 DEF TopicRecord
  <2> HIDE DEF c, d
  <2>4. latest[s].count <= d
    BY <2>1, <2>2, <2>3
  <2> QED BY <2>2, <2>4 DEF d
<1>6. LatestInv'
  <2>1. CASE latest' = latest
    BY <1>5, <2>1 DEF LatestInv
  <2>2. CASE Outgoing # <<>> /\ latest' = Delivered(latest, Head(Outgoing))
    <3>1. Head(q) = q[1] /\ 1 \in 1..Len(q)
      BY <1>3, <2>2, TailFacts
    <3> DEFINE x == q[1]
    <3>2. ahead(x) /\ x \in Items
      BY <1>4, <3>1
    <3>3. latest' = Delivered(latest, x)
      BY <2>2, <3>1
    <3> HIDE DEF x, q
    <3>4. CASE x = Letter
      BY <1>5, <3>3, <3>4 DEF Delivered, LatestInv
    <3>5. CASE x # Letter
      <4>1. ASSUME NEW s \in Scopes
            PROVE  latest'[s] = IF s = x.scope THEN x ELSE latest[s]
        BY <1>3, <3>3, <3>5 DEF Delivered
      <4>2. x.count # 0 /\ x.count <= Figures'[x.scope]
        <5>1. x.count \in Nat
          BY <3>2, <3>5 DEF Items, TopicRecord
        <5> QED BY <3>2, <3>5, <5>1
      <4>3. ASSUME NEW s \in Scopes
            PROVE  /\ latest'[s].count <= Current(s)'.count
                   /\ latest'[s].count = 0 => latest'[s] = Record(s, Fresh)
        <5>1. CASE s = x.scope
          <6>1. Figures'[s] = Current(s)'.count
            BY DEF Figures
          <6>2. latest'[s] = x
            BY <4>1, <5>1
          <6> QED BY <4>2, <5>1, <6>1, <6>2
        <5>2. CASE s # x.scope
          <6>1. latest'[s] = latest[s]
            BY <4>1, <5>2
          <6> QED BY <1>5, <6>1
        <5> QED BY <5>1, <5>2
      <4> QED BY <4>3 DEF LatestInv
    <3> QED BY <3>4, <3>5
  <2> QED BY <1>1, <2>1, <2>2 DEF Quiet, Leaves, LetterQueued, Dropped, Emission
<1>7. \A i \in 1..Len(r) : ahead(r[i])
  <2> HIDE DEF ahead
  <2>1. CASE Quiet
    BY <1>4, <2>1 DEF Quiet
  <2>2. CASE Leaves
    <3>1. /\ Len(r) = Len(q) - 1
          /\ \A i \in 1..Len(q) - 1 : r[i] = q[i + 1]
      <4>1. r = Tail(q) /\ q # <<>>
        BY <2>2 DEF Leaves
      <4> HIDE DEF q, r
      <4> QED BY <1>3, <4>1, TailFacts
    <3> HIDE DEF q, r
    <3> QED BY <1>3, <1>4, <3>1
  <2>3. CASE LetterQueued
    <3>1. r = Append(q, Letter) /\ Letter \in Items
      BY <2>3 DEF LetterQueued, Items
    <3> HIDE DEF q, r
    <3>2. /\ Len(r) = Len(q) + 1 /\ r[Len(q) + 1] = Letter
          /\ \A i \in 1..Len(q) : r[i] = q[i]
      BY <1>3, <3>1, AppendFacts
    <3>3. ahead(Letter)
      BY DEF ahead
    <3> QED BY <1>3, <1>4, <3>2, <3>3
  <2>4. CASE Dropped
    <3>1. r = queue
      BY <2>4 DEF Dropped
    <3> HIDE DEF q, r
    <3> QED BY <1>3, <1>4, <3>1
  <2>5. CASE Emission
    <3>1. r = queue \o Snapshots /\ overall.count > 0 /\ q = queue
      BY <2>5 DEF Emission
    <3>2. Figures' = Figures
      BY <2>5 DEF Emission, aggregate, Current, Figures
    <3> HIDE DEF q, r
    <3>3. /\ Len(r) \in Nat
          /\ \A i \in 1..Len(queue) : r[i] = queue[i]
          /\ r[Len(queue) + 1] = Current(All)
          /\ \A i \in Len(queue) + 2..Len(r) :
                \E p \in ProductSet : r[i] = Current(p) /\ r[i] # Letter
                                      /\ r[i].scope = p /\ r[i].count > 0
      <4>1. SnapshotBehind(r)
        BY <3>1, EmissionRecords
      <4> QED BY <4>1 DEF SnapshotBehind
    <3>4. ahead(Current(All))
      <4>1. Current(All).scope = All /\ Current(All).count = overall.count
            /\ Current(All).count \in Nat
        BY CurrentType DEF YInv, TypeOK, Scopes
      <4>2. Figures[All] = Current(All).count
        BY DEF Figures, Scopes
      <4> QED BY <3>1, <3>2, <4>1, <4>2 DEF ahead
    <3>5. ASSUME NEW i \in Len(queue) + 2..Len(r)
          PROVE  ahead(r[i])
      <4>1. PICK p \in ProductSet : r[i] = Current(p) /\ r[i].scope = p /\ r[i].count > 0
        BY <3>3
      <4>2. r[i].count \in Nat /\ Figures[p] = Current(p).count
        BY <4>1, CurrentType DEF YInv, TypeOK, Scopes, Figures
      <4> QED BY <3>2, <4>1, <4>2 DEF ahead
    <3>6. \A i \in 1..Len(queue) : ahead(r[i])
      BY <1>4, <3>1, <3>3
    <3>7. \A i \in 1..Len(r) : i \in 1..Len(queue) \/ i = Len(queue) + 1
                               \/ i \in Len(queue) + 2..Len(r)
      BY <1>3, <3>3
    <3> QED BY <3>3, <3>4, <3>5, <3>6, <3>7
  <2> QED BY <1>1, <2>1, <2>2, <2>3, <2>4, <2>5
<1>8. OutgoingInv'
  BY <1>7 DEF OutgoingInv, Behindhand
<1> QED
  BY <1>1, <1>2, <1>6, <1>8 DEF BInv

----------------------------------------------------------------------------
(* The last snapshot. *)

\* Unless something of it was lost, delivering what is on its way leaves the
\* consumer's own figures in the topic, as long as no order has come after it.
UpToDateInv ==
    (intact /\ sinceLast = 0) =>
        \A s \in Scopes : \A x : Shows(x, latest, Outgoing, Len(Outgoing), s) => x = Current(s)

\* A snapshot shows every figure, that of a product not seen yet by its absence.
LEMMA EmissionShows ==
    ASSUME YInv, BInv, overall.count > 0, Outgoing = queue,
           NEW q, q = queue \o Snapshots,
           NEW s \in Scopes, NEW x, Shows(x, latest, q, Len(q), s)
    PROVE  x = Current(s)
<1> DEFINE n == Len(queue)
           z == Len(q)
<1>1. /\ n \in Nat /\ z \in Nat /\ z > n
      /\ \A i \in 1..n : q[i] = queue[i]
      /\ q[n + 1] = Current(All) /\ Current(All) # Letter
      /\ \A i \in n + 2..z :
            \E p \in ProductSet : q[i] = Current(p) /\ q[i] # Letter /\ q[i].scope = p
                                  /\ q[i].count > 0
      /\ \A p \in ProductSet : perProduct[p].count > 0 =>
            \E i \in n + 2..z : q[i] = Current(p) /\ Current(p) # Letter
  <2>1. SnapshotBehind(q)
    BY EmissionRecords
  <2> QED BY <2>1 DEF SnapshotBehind
<1>2. \A p \in Scopes : /\ Current(p).scope = p /\ Current(p).count \in Nat
                        /\ Current(p).count = IF p = All THEN overall.count
                                              ELSE perProduct[p].count
  BY CurrentType DEF YInv, TypeOK
<1>3. Shows(x, latest, q, z, s)
  OBVIOUS
<1> HIDE DEF n, z
<1>4. ASSUME NEW i \in n + 1..z, NEW j \in 1..z, i <= j, q[i] = Current(s), q[i] # Letter,
             LastOf(q, z, s, j), x = q[j]
      PROVE  x = Current(s)
  <2>1. CASE j = n + 1
    <3>1. q[j] = Current(All) /\ q[j].scope = s
      BY <1>1, <1>4, <2>1 DEF LastOf
    <3>2. s = All
      BY <1>2, <3>1 DEF Scopes
    <3> QED BY <1>4, <3>1, <3>2
  <2>2. CASE j # n + 1
    <3>1. j \in n + 2..z
      BY <1>1, <1>4, <2>2
    <3>2. PICK p \in ProductSet : q[j] = Current(p) /\ q[j].scope = p
      BY <1>1, <3>1
    <3>3. p = s
      BY <1>4, <3>2 DEF LastOf
    <3> QED BY <1>4, <3>2, <3>3
  <2> QED BY <2>1, <2>2
\* A scope with a record in the snapshot ...
<1>5. ASSUME NEW i \in n + 1..z, q[i] = Current(s), q[i] # Letter
      PROVE  x = Current(s)
  <2>1. i \in 1..z /\ q[i].scope = s
    BY <1>1, <1>2, <1>5
  <2>2. ~NoneOf(q, z, s)
    BY <1>5, <2>1 DEF NoneOf
  <2>3. PICK j \in 1..z : LastOf(q, z, s, j) /\ x = q[j]
    BY <1>3, <2>2 DEF Shows
  <2>4. i <= j
    <3> SUFFICES ASSUME ~(i <= j) PROVE FALSE
      OBVIOUS
    <3>1. i \in j + 1..z
      BY <1>1, <2>1
    <3> QED BY <1>5, <2>1, <2>3, <3>1 DEF LastOf
  <2> QED BY <1>4, <1>5, <2>3, <2>4
<1>6. CASE s = All
  <2>1. n + 1 \in n + 1..z
    BY <1>1
  <2> QED BY <1>1, <1>5, <1>6, <2>1
<1>7. CASE s # All /\ perProduct[s].count > 0
  <2>1. s \in ProductSet
    BY <1>7 DEF Scopes
  <2>2. PICK i \in n + 2..z : q[i] = Current(s) /\ Current(s) # Letter
    BY <1>1, <1>7, <2>1
  <2>3. i \in n + 1..z
    BY <1>1
  <2> QED BY <1>5, <2>2, <2>3
\* ... and one without.
<1>8. CASE s # All /\ ~(perProduct[s].count > 0)
  <2>1. s \in ProductSet /\ Current(s).count = 0
    BY <1>2, <1>8 DEF Scopes
  <2>2. Current(s) = Record(s, Fresh)
    BY <2>1 DEF BInv, FreshInv
  <2>3. latest[s] = Record(s, Fresh)
    <3>1. latest[s].count \in Nat /\ latest[s].count <= 0
      BY <2>1, OutgoingType DEF BInv, LatestInv, TopicRecord
    <3>2. latest[s].count = 0
      BY <3>1
    <3> QED BY <3>2 DEF BInv, LatestInv
  <2>4. ASSUME NEW i \in 1..z, q[i] # Letter, q[i].scope = s
        PROVE  FALSE
    <3>1. CASE i \in 1..n
      <4>1. q[i] = Outgoing[i] /\ i \in 1..Len(Outgoing)
        BY <1>1, <3>1 DEF n
      <4>2. Behindhand(q[i])
        BY <4>1 DEF BInv, OutgoingInv
      <4>3. q[i].count > 0 /\ q[i].count <= 0
        BY <2>1, <2>4, <4>2 DEF Behindhand, Figures
      <4>4. q[i].count \in Nat
        <5>1. q[i] \in Items
          BY <4>1, OutgoingType
        <5> QED BY <2>4, <5>1 DEF Items, TopicRecord
      <4> DEFINE y == q[i].count
      <4>5. y > 0 /\ y <= 0 /\ y \in Nat
        BY <4>3, <4>4
      <4> HIDE DEF y
      <4> QED BY <4>5
    <3>2. CASE i = n + 1
      BY <1>1, <1>2, <1>8, <2>4, <3>2 DEF Scopes
    <3>3. CASE i \in n + 2..z
      <4>1. PICK p \in ProductSet : q[i] = Current(p) /\ q[i].scope = p /\ q[i].count > 0
        BY <1>1, <3>3
      <4> QED BY <2>1, <2>4, <4>1
    <3> QED BY <1>1, <3>1, <3>2, <3>3
  <2>5. x = latest[s]
    BY <1>3, <2>4 DEF Shows, LastOf
  <2> QED BY <2>2, <2>3, <2>5
<1> QED
  BY <1>6, <1>7, <1>8

\* The last snapshot stays the last until an order is delivered.
LEMMA UNext ==
    ASSUME YInv, BInv, UpToDateInv, [Next]_vars
    PROVE  UpToDateInv'
<1> DEFINE q == Outgoing
           r == Outgoing'
           m == latest'
<1> SUFFICES ASSUME intact', sinceLast' = 0,
                    NEW s \in Scopes, NEW x, Shows(x, m, r, Len(r), s)
             PROVE  x = Current(s)'
  BY DEF UpToDateInv
<1>1. Quiet \/ Leaves \/ LetterQueued \/ Dropped \/ Emission
  BY Movements DEF BInv
<1>2. /\ q \in Seq(Items) /\ Len(q) \in Nat
      /\ latest \in [Scopes -> TopicRecord]
  BY OutgoingType
<1>3. CASE Quiet
  <2>1. Shows(x, latest, q, Len(q), s) /\ intact /\ sinceLast = 0 /\ UNCHANGED aggregate
    BY <1>3 DEF Quiet
  <2>2. x = Current(s)
    BY <2>1 DEF UpToDateInv
  <2> QED BY <2>1, <2>2 DEF Current, aggregate
<1>4. CASE Leaves
  <2>1. /\ q # <<>> /\ r = Tail(q) /\ m = Delivered(latest, Head(q))
        /\ intact /\ sinceLast = 0 /\ UNCHANGED aggregate
    BY <1>4 DEF Leaves
  <2> HIDE DEF q, r, m
  <2>2. Len(r) = Len(q) - 1 /\ Len(r) \in 0..Len(q) - 1
    BY <1>2, <2>1, TailFacts
  <2>3. Shows(x, latest, q, Len(r) + 1, s)
    BY <1>2, <2>1, <2>2, ShowsShift
  <2>4. Shows(x, latest, q, Len(q), s)
    <3>1. Len(r) + 1 = Len(q)
      BY <1>2, <2>2
    <3> QED BY <2>3, <3>1
  <2>5. x = Current(s)
    BY <2>1, <2>4 DEF UpToDateInv, q
  <2> QED BY <2>1, <2>5 DEF Current, aggregate
<1>5. CASE LetterQueued
  <2>1. /\ r = Append(q, Letter) /\ m = latest
        /\ intact /\ sinceLast = 0 /\ UNCHANGED aggregate
    BY <1>5 DEF LetterQueued
  <2> HIDE DEF q, r, m
  <2>2. Letter \in Items
    BY DEF Items
  <2>3. /\ Len(r) = Len(q) + 1 /\ r[Len(q) + 1] = Letter
        /\ \A i \in 1..Len(q) : q[i] = r[i]
    BY <1>2, <2>1, <2>2, AppendFacts
  <2>4. Shows(x, latest, r, Len(q), s)
    BY <1>2, <2>1, <2>3, ShowsLetter
  <2>5. Shows(x, latest, q, Len(q), s)
    BY <1>2, <2>3, <2>4, ShowsPrefix
  <2>6. x = Current(s)
    BY <2>1, <2>5 DEF UpToDateInv, q
  <2> QED BY <2>1, <2>6 DEF Current, aggregate
<1>6. CASE Dropped
  BY <1>6 DEF Dropped
<1>7. CASE Emission
  <2>1. /\ q = queue /\ r = queue \o Snapshots /\ m = latest /\ overall.count > 0
        /\ UNCHANGED aggregate
    BY <1>7 DEF Emission
  <2> HIDE DEF r, m
  <2>2. x = Current(s)
    BY <2>1, EmissionShows
  <2> QED BY <2>1, <2>2 DEF Current, aggregate
<1> QED
  BY <1>1, <1>3, <1>4, <1>5, <1>6, <1>7

\* The initial state.
LEMMA UInit == Init => UpToDateInv
<1> SUFFICES ASSUME Init, NEW s \in Scopes, NEW x,
                    Shows(x, latest, Outgoing, Len(Outgoing), s)
             PROVE  x = Current(s)
  BY DEF UpToDateInv
<1>1. Len(Outgoing) = 0
  BY DEF Init, Outgoing
<1>2. x = latest[s]
  BY <1>1 DEF Shows
<1> QED
  BY <1>2 DEF Init, Current, Scopes

\* Once a snapshot has gone out whole and been delivered, and no order came after
\* it, a reader of the topic has the consumer's own figures for every scope
\* (apps/consumer.py:163-195, 367).
THEOREM ReaderCatchesUp == Spec => []ReaderUpToDate
<1>1. YInv /\ BInv /\ [Next]_vars => BInv'
  BY YNext, BNext
<1>2. YInv /\ UpToDateInv => ReaderUpToDate
  <2> SUFFICES ASSUME YInv, UpToDateInv, intact, sinceLast = 0, rest = <<>>, queue = <<>>
               PROVE  /\ latest[All] = Record(All, overall)
                      /\ \A p \in ProductSet : latest[p] = Record(p, perProduct[p])
    BY DEF ReaderUpToDate
  <2>1. Len(Outgoing) = 0
    BY DEF Outgoing
  <2>2. ASSUME NEW s \in Scopes PROVE latest[s] = Current(s)
    <3>1. Shows(latest[s], latest, Outgoing, Len(Outgoing), s)
      BY <2>1, ShowsNow
    <3> QED BY <3>1 DEF UpToDateInv
  <2> QED BY <2>2, ScopesAssumption DEF Scopes, Current
<1>3. YInv /\ BInv /\ UpToDateInv /\ [Next]_vars => UpToDateInv'
  BY UNext
<1> QED
  BY YInit, YNext, BInit, UInit, <1>1, <1>2, <1>3, PTL DEF Spec

----------------------------------------------------------------------------
(* The parts of what is shown. *)

ShownCounts(c) == [p \in ProductSet |-> c[p].count]

\* However much of what is on its way is delivered, the parts do not exceed the
\* whole.
AgreeInv ==
    losses = 0 =>
        \A k \in 0..Len(Outgoing), c \in [Scopes -> TopicRecord] :
            (\A s \in Scopes : Shows(c[s], latest, Outgoing, k, s))
                => Sum(ShownCounts(c)) <= c[All].count

\* As far as a snapshot has gone out, its overall record shows, and no product is
\* ahead of the figures.
LEMMA EmissionAgrees ==
    ASSUME YInv, PInv, BInv, overall.count > 0, Outgoing = queue,
           NEW q, q = queue \o Snapshots,
           NEW k \in Len(queue) + 1..Len(q), NEW c \in [Scopes -> TopicRecord],
           \A s \in Scopes : Shows(c[s], latest, q, k, s)
    PROVE  Sum(ShownCounts(c)) <= c[All].count
<1> DEFINE n == Len(queue)
           z == Len(q)
<1>1. /\ n \in Nat /\ z \in Nat /\ z > n
      /\ \A i \in 1..n : q[i] = queue[i]
      /\ q[n + 1] = Current(All) /\ Current(All) # Letter
      /\ \A i \in n + 2..z :
            \E p \in ProductSet : q[i] = Current(p) /\ q[i] # Letter /\ q[i].scope = p
                                  /\ q[i].count > 0
      /\ \A p \in ProductSet : perProduct[p].count > 0 =>
            \E i \in n + 2..z : q[i] = Current(p) /\ Current(p) # Letter
  <2>1. SnapshotBehind(q)
    BY EmissionRecords
  <2> QED BY <2>1 DEF SnapshotBehind
<1>2. \A p \in Scopes : /\ Current(p).scope = p /\ Current(p).count \in Nat
                        /\ Current(p).count = IF p = All THEN overall.count
                                              ELSE perProduct[p].count
  BY CurrentType DEF YInv, TypeOK
<1>3. k \in n + 1..z /\ k \in Nat
  BY <1>1
<1> HIDE DEF n, z
<1>4. c[All] = Current(All)
  <2>1. n + 1 \in 1..k
    BY <1>1, <1>3
  <2>2. Shows(c[All], latest, q, k, All)
    BY DEF Scopes
  <2>3. ~NoneOf(q, k, All)
    BY <1>1, <1>2, <2>1 DEF NoneOf, Scopes
  <2>4. PICK j \in 1..k : LastOf(q, k, All, j) /\ c[All] = q[j]
    BY <2>2, <2>3 DEF Shows
  <2>5. ~(j < n + 1)
    <3> SUFFICES ASSUME j < n + 1 PROVE FALSE
      OBVIOUS
    <3>1. n + 1 \in j + 1..k
      BY <1>1, <1>3
    <3> QED BY <1>1, <1>2, <2>4, <3>1 DEF LastOf, Scopes
  <2>6. ~(j > n + 1)
    <3> SUFFICES ASSUME j > n + 1 PROVE FALSE
      OBVIOUS
    <3>1. j \in n + 2..z
      BY <1>1, <1>3
    <3>2. PICK p \in ProductSet : q[j].scope = p
      BY <1>1, <3>1
    <3> QED BY <2>4, <3>2, ScopesAssumption DEF LastOf
  <2>7. j = n + 1
    BY <1>1, <2>5, <2>6
  <2> QED BY <1>1, <2>4, <2>7
<1>5. ASSUME NEW p \in ProductSet
      PROVE  /\ c[p].count \in Nat /\ perProduct[p].count \in Nat
             /\ c[p].count <= perProduct[p].count
  <2>1. p \in Scopes /\ p # All
    BY ScopesAssumption DEF Scopes
  <2>2. c[p].count \in Nat /\ Current(p).count = perProduct[p].count
        /\ perProduct[p].count \in Nat
    BY <1>2, <2>1 DEF TopicRecord
  <2>3. latest[p].count <= Current(p).count
    BY <2>1 DEF BInv, LatestInv
  <2>4. ASSUME NEW i \in 1..k, q[i] # Letter, q[i].scope = p
        PROVE  q[i].count <= Current(p).count
    <3>1. CASE i \in 1..n
      <4>1. q[i] = Outgoing[i] /\ i \in 1..Len(Outgoing)
        BY <1>1, <3>1 DEF n
      <4>2. Behindhand(q[i])
        BY <4>1 DEF BInv, OutgoingInv
      <4> QED BY <2>1, <2>4, <4>2 DEF Behindhand, Figures
    <3>2. CASE i = n + 1
      BY <1>1, <1>2, <2>1, <2>4, <3>2 DEF Scopes
    <3>3. CASE i \in n + 2..z
      <4>1. PICK o \in ProductSet : q[i] = Current(o) /\ q[i].scope = o
        BY <1>1, <3>3
      <4>2. o = p
        BY <2>4, <4>1
      <4>3. q[i].count = Current(p).count /\ Current(p).count \in Nat
        BY <1>2, <2>1, <4>1, <4>2
      <4> QED BY <4>3
    <3>4. i \in 1..n \/ i = n + 1 \/ i \in n + 2..z
      BY <1>1, <1>3
    <3> QED BY <3>1, <3>2, <3>3, <3>4
  <2>5. Shows(c[p], latest, q, k, p)
    BY <2>1
  <2>6. c[p].count <= Current(p).count
    <3> DEFINE b == Current(p).count
    <3>1. latest[p].count <= b
      BY <2>3
    <3>2. \A i \in 1..k : (q[i] # Letter /\ q[i].scope = p) => q[i].count <= b
      BY <2>4
    <3> HIDE DEF b
    <3>3. c[p].count <= b
      BY <2>5, <3>1, <3>2 DEF Shows, LastOf
    <3> QED BY <3>3 DEF b
  <2> QED BY <2>2, <2>6
<1>6. Sum(ShownCounts(c)) <= Sum(Counts)
  <2> DEFINE f == ShownCounts(c)
             h == Counts
  <2>1. \A p \in ProductSet : f[p] \in Int /\ h[p] \in Int /\ f[p] <= h[p]
    BY <1>5 DEF ShownCounts, Counts
  <2> HIDE DEF f, h
  <2>2. Sum(f) <= Sum(h)
    BY <2>1, SumLeq
  <2> QED BY <2>2 DEF f, h
<1>7. c[All].count = Sum(Counts)
  BY <1>2, <1>4 DEF PInv, Scopes
<1> QED
  BY <1>6, <1>7

\* Every way of moving keeps the parts within the whole.
LEMMA ANext ==
    ASSUME YInv, PInv, BInv, AgreeInv, [Next]_vars
    PROVE  AgreeInv'
<1> DEFINE q == Outgoing
           r == Outgoing'
           m == latest'
<1> SUFFICES ASSUME losses' = 0, NEW k \in 0..Len(r), NEW c \in [Scopes -> TopicRecord],
                    \A s \in Scopes : Shows(c[s], m, r, k, s)
             PROVE  Sum(ShownCounts(c)) <= c[All].count
  BY DEF AgreeInv
<1>1. Quiet \/ Leaves \/ LetterQueued \/ Dropped \/ Emission
  BY Movements DEF BInv
<1>2. /\ q \in Seq(Items) /\ Len(q) \in Nat /\ Len(queue) \in Nat /\ Len(queue) <= Len(q)
      /\ \A i \in 1..Len(queue) : q[i] = queue[i]
      /\ latest \in [Scopes -> TopicRecord]
  BY OutgoingType
<1>3. ASSUME losses = 0, NEW j \in 0..Len(q),
             \A s \in Scopes : Shows(c[s], latest, q, j, s)
      PROVE  Sum(ShownCounts(c)) <= c[All].count
  BY <1>3 DEF AgreeInv
<1>4. ASSUME losses = 0, m = latest, k <= Len(q), \A i \in 1..k : q[i] = r[i]
      PROVE  Sum(ShownCounts(c)) <= c[All].count
  <2> HIDE DEF q, r, m
  <2>1. k \in Nat /\ k \in 0..Len(q)
    BY <1>2, <1>4
  <2>2. \A s \in Scopes : Shows(c[s], latest, q, k, s)
    BY <1>4, <2>1, ShowsPrefix
  <2> QED BY <1>3, <1>4, <2>1, <2>2
<1>5. CASE Quiet
  BY <1>2, <1>4, <1>5 DEF Quiet
<1>6. CASE Leaves
  <2>1. q # <<>> /\ r = Tail(q) /\ m = Delivered(latest, Head(q)) /\ losses = 0
    BY <1>6 DEF Leaves
  <2> HIDE DEF q, r, m
  <2>2. Len(r) = Len(q) - 1 /\ k \in 0..Len(q) - 1 /\ k + 1 \in 0..Len(q)
    BY <1>2, <2>1, TailFacts
  <2>3. \A s \in Scopes : Shows(c[s], latest, q, k + 1, s)
    BY <1>2, <2>1, <2>2, ShowsShift
  <2> QED BY <1>3, <2>1, <2>2, <2>3
<1>7. CASE LetterQueued
  <2>1. r = Append(q, Letter) /\ m = latest /\ losses = 0
    BY <1>7 DEF LetterQueued
  <2> HIDE DEF q, r, m
  <2>2. Letter \in Items
    BY DEF Items
  <2>3. /\ Len(r) = Len(q) + 1 /\ r[Len(q) + 1] = Letter
        /\ \A i \in 1..Len(q) : q[i] = r[i]
    BY <1>2, <2>1, <2>2, AppendFacts
  <2>4. CASE k <= Len(q)
    <3>1. \A i \in 1..k : q[i] = r[i]
      BY <1>2, <2>3, <2>4
    <3> QED BY <1>4, <2>1, <2>4, <3>1
  <2>5. CASE k = Len(q) + 1
    <3>1. \A s \in Scopes : Shows(c[s], latest, r, Len(q), s)
      BY <1>2, <2>1, <2>3, <2>5, ShowsLetter
    <3>2. \A s \in Scopes : Shows(c[s], latest, q, Len(q), s)
      BY <1>2, <2>3, <3>1, ShowsPrefix
    <3> QED BY <1>2, <1>3, <2>1, <3>2
  <2> QED BY <1>2, <2>3, <2>4, <2>5
<1>8. CASE Dropped
  <2>1. r = queue /\ m = latest /\ losses = 0
    BY <1>8 DEF Dropped
  <2> HIDE DEF q, r, m
  <2>2. k <= Len(q) /\ \A i \in 1..k : q[i] = r[i]
    BY <1>2, <2>1
  <2> QED BY <1>4, <2>1, <2>2
<1>9. CASE Emission
  <2>1. /\ q = queue /\ r = queue \o Snapshots /\ m = latest /\ overall.count > 0
        /\ losses = 0
    BY <1>9 DEF Emission
  <2> HIDE DEF r, m
  <2>2. CASE k <= Len(queue)
    <3>1. \A i \in 1..k : q[i] = r[i]
      <4>1. \A i \in 1..Len(queue) : r[i] = queue[i]
        BY <2>1, EmissionRecords DEF SnapshotBehind
      <4> QED BY <1>2, <2>1, <2>2, <4>1
    <3> QED BY <1>4, <2>1, <2>2, <3>1
  <2>3. CASE ~(k <= Len(queue))
    <3>1. k \in Len(queue) + 1..Len(r)
      BY <1>2, <2>3
    <3> QED BY <2>1, <3>1, EmissionAgrees
  <2> QED BY <2>2, <2>3
<1> QED
  BY <1>1, <1>5, <1>6, <1>7, <1>8, <1>9

\* The initial state.
LEMMA AInit == Init => AgreeInv
<1> SUFFICES ASSUME Init, NEW k \in 0..Len(Outgoing), NEW c \in [Scopes -> TopicRecord],
                    \A s \in Scopes : Shows(c[s], latest, Outgoing, k, s)
             PROVE  Sum(ShownCounts(c)) <= c[All].count
  BY DEF AgreeInv
<1>1. k = 0
  BY DEF Init, Outgoing
<1>2. \A s \in Scopes : c[s] = latest[s]
  BY <1>1 DEF Shows
<1>3. \A s \in Scopes : c[s].count = 0
  BY <1>2 DEF Init, Record, Fresh
<1>4. Sum(ShownCounts(c)) = 0
  BY <1>3, SumZero DEF ShownCounts, Scopes
<1> QED
  BY <1>3, <1>4 DEF Scopes

\* As long as no delivery fails, the products a reader sees never add up to more
\* than the overall count beside them, whatever a full queue drops
\* (apps/consumer.py:182-195, aggregation.py:74-80).
THEOREM ReaderNeverMisled == Spec => []SnapshotsAgree
<1>1. YInv /\ BInv /\ [Next]_vars => BInv'
  BY YNext, BNext
<1>2. YInv /\ AgreeInv => SnapshotsAgree
  <2> SUFFICES ASSUME YInv, AgreeInv, losses = 0
               PROVE  Sum([p \in ProductSet |-> latest[p].count]) <= latest[All].count
    BY DEF SnapshotsAgree
  <2>1. latest \in [Scopes -> TopicRecord] /\ 0 \in 0..Len(Outgoing)
    BY OutgoingType
  <2>2. \A s \in Scopes : Shows(latest[s], latest, Outgoing, 0, s)
    BY ShowsNow
  <2>3. Sum(ShownCounts(latest)) <= latest[All].count
    BY <2>1, <2>2 DEF AgreeInv
  <2> QED BY <2>3 DEF ShownCounts
<1>3. YInv /\ PInv /\ BInv /\ AgreeInv /\ [Next]_vars => AgreeInv'
  BY ANext
<1> QED
  BY YInit, YNext, PInit, PNext, BInit, AInit, <1>1, <1>2, <1>3, PTL DEF Spec
=============================================================================
